SPECIFICATION Spec
CONSTANTS
    Initiator = Initiator
    Responder = Responder
    MaxChunks <- OneWay3
    ReorderLimit = 1
    MaxSelectiveAcks = 1
    MaxAttempts = 2
    InitialWindow = 3
    MinWindow = 1
    MaxWindow = 3
    DupAckThreshold = 2
    MaxDupCount = 4
INVARIANTS NothingForgotten BridgeInv RecoveryHasWork
