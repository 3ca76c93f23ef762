\* Liveness of one output that keeps changing, through a KMS failure.
CONSTANTS
    Outputs = {1}
    SlotCount = 3
    Tokens = {1, 2, 3}
    Interruptions = {"expiry", "kms_stall", "withheld_flip"}
    MaxInterruptions = 1
    Animated = {1}
    PowerRequests <- NoPowerRequests
    MaxLeases = 0
SPECIFICATION FairSpec
PROPERTY ScreenCatchesUp FramesRetire
