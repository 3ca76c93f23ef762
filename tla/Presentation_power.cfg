\* Liveness of one output that keeps changing and is powered off and on.
CONSTANTS
    Outputs = {1}
    SlotCount = 3
    Tokens = {1, 2, 3}
    Interruptions = {"wake_failure"}
    MaxInterruptions = 1
    Animated = {1}
    PowerRequests <- AllPowerRequests
    MaxLeases = 0
SPECIFICATION FairSpec
PROPERTY ScreenCatchesUp PowerOffCompletes
