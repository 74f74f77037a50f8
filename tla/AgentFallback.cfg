SPECIFICATION FairSpec
CONSTANTS
    n1 = n1
    n2 = n2
    r1 = r1
    r2 = r2
    p1 = p1
    p2 = p2
    Conns = {n1}
    Relays = {r1}
    Paths = {p1, p2}
    None = None
    Width = 4
PROPERTY DirectFailureUsesRelay
CHECK_DEADLOCK FALSE
