\* One output whose successor frame misses its edge once.
CONSTANTS
    Outputs = {1}
    SlotCount = 3
    Tokens = {1, 2, 3}
    Interruptions = {"missed_edge"}
    MaxInterruptions = 1
    Animated = {1}
    PowerRequests <- NoPowerRequests
    MaxLeases = 0
SPECIFICATION FairSpec
PROPERTY ScreenCatchesUp
