SPECIFICATION FairSpec
CONSTANTS
    v1 = v1
    c1 = c1
    Rendezvous = {v1}
    Channels = {c1}
    Of <- OfOne
    MaxLost = 1
    MaxDoubled = 1
    None = None
INVARIANTS SessionKeepsItsRoute OpenNotSwallowed AcceptedIsRouted
PROPERTIES AttemptsSettle
CHECK_DEADLOCK FALSE
