SPECIFICATION Spec
CONSTANTS
    d1 = d1
    j1 = j1
    j2 = j2
    t1 = t1
    t2 = t2
    d2 = d2
    s1 = s1
    Devices = {d1, d2}
    Services = {s1}
    Owner <- OwnerOfOne
    Tokens = {j1, j2}
    Tasks = {t1, t2}
    Legacy = {d2}
    Nobody = Nobody
    NoDeadline = NoDeadline
    Ttls = {1}
    LegacyTtl = 2
    RendezvousTtl = 0
    Routes = {"register", "clear", "connect", "upsert", "delete", "start", "announce"}
    Guests = {d2}
    MaxTime = 1
    MaxSessions = 2
    MaxAttempts = 1
    MaxClears = 1
    MaxFailures = 1
INVARIANTS SessionsHonourDeadlines ValidSessionRenews TokenAdmitsOne AdmittedByToken HubMatchesSockets AttemptsWereGranted ControlInv
SYMMETRY SameTasksAndTokens
CHECK_DEADLOCK FALSE
PROPERTIES StatusMovesOn
