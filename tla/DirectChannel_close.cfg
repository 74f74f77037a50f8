SPECIFICATION FairSpec
CONSTANTS
    Initiator = Initiator
    Responder = Responder
    MaxChunks <- TwoOne
    ReorderLimit = 2
    MaxSelectiveAcks = 1
    MaxAttempts = 2
    InitialWindow = 2
    MinWindow = 1
    MaxWindow = 3
    DupAckThreshold = 1
    MaxDupCount = 2
INVARIANTS AckedCloseMeansDelivered PeerCloseMeansReceived
PROPERTIES EofLeadsToEnd ImplementsStream
