SPECIFICATION LiveSpec
CONSTANTS
    a1 = a1
    b1 = b1
    b2 = b2
    A = A
    B = B
    Connections = {a1, b1, b2}
    Devices = {A, B}
    DeviceOf <- Owners
    SupportOf <- MixedClients
    Wants <- OpenBoth
    ChannelIds = {c1}
    NoConnection = NoConnection
    MaxData = 1
    MaxBroken = 1
    MaxResets = 1
INVARIANTS TargetNotForgotten SourceNotForgotten DataInsideChannel HubInv PreferredServes
PROPERTIES OpenIsAnswered
CHECK_DEADLOCK FALSE
