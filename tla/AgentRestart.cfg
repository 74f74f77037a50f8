SPECIFICATION HealthySpec
CONSTANTS
    n1 = n1
    n2 = n2
    r1 = r1
    r2 = r2
    p1 = p1
    p2 = p2
    Conns = {}
    Relays = {r1}
    Paths = {p1}
    None = None
    Width = 4
PROPERTY RestartRecovers
CHECK_DEADLOCK FALSE
