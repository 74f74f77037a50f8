SPECIFICATION Spec
CONSTANTS
    Ends = {initiator, responder}
    IdleAfter = 10
    SendInterval = 10
    PeerTimeout = 35
    MaxDelay = 1
    MaxLost = 2
INVARIANT GonePeerNoticed
PROPERTY LivePeerNotTimedOut
