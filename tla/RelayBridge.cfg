SPECIFICATION FairSpec
CONSTANTS
    Source = Source
    Target = Target
    c1 = c1
    Channels = {c1}
    MaxData <- OneWay
    MaxBreaks = 1
INVARIANTS StreamIntact
PROPERTIES ImplementsStream EofEndsBoth LostSocketEndsHandlers
CHECK_DEADLOCK FALSE
