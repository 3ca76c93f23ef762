\* Two outputs that share the raster thread, Volition and the power batch, and
\* screen captures that hold their buffers.
CONSTANTS
    Outputs = {1, 2}
    SlotCount = 3
    Tokens = {1, 2, 3}
    Interruptions = {"blit_failure", "kms_stall", "kms_failure", "clear_failure"}
    MaxInterruptions = 1
    Animated = {}
    PowerRequests <- OffRequests
    MaxLeases = 1
SPECIFICATION Spec
INVARIANTS SessionSurvives SchedulerAgreesWithKms
