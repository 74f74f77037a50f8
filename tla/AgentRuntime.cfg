SPECIFICATION RuntimeSpec
CONSTANTS
    n1 = n1
    n2 = n2
    r1 = r1
    r2 = r2
    p1 = p1
    p2 = p2
    Conns = {n1, n2}
    Relays = {r1}
    Paths = {p1}
    None = None
    Width = 4
INVARIANTS TrackerQuiescent FreshSession
PROPERTIES ClosedIngressIsLeft ShutdownStops
CHECK_DEADLOCK FALSE
