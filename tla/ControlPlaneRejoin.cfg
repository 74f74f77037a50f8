SPECIFICATION RejoinSpec
CONSTANTS
    d1 = d1
    d2 = d2
    j1 = j1
    j2 = j2
    t1 = t1
    t2 = t2
    s1 = s1
    Devices = {d1, d2}
    Services = {s1}
    Owner <- OwnerOfOne
    Tokens = {j1, j2}
    Tasks = {t1, t2}
    Legacy = {d2}
    Nobody = Nobody
    NoDeadline = NoDeadline
    Ttls = {1}
    LegacyTtl = 2
    RendezvousTtl = 1
    Routes = {"register", "clear"}
    Guests = {d2}
    MaxTime = 2
    MaxSessions = 3
    MaxAttempts = 0
    MaxClears = 1
    MaxFailures = 1
INVARIANT RejoinEndsLegacy
CHECK_DEADLOCK FALSE
