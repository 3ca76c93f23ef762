\* One output, every kind of failure, two of them in a behaviour.
CONSTANTS
    Outputs = {1}
    SlotCount = 3
    Tokens = {1, 2, 3}
    Interruptions = {"expiry", "render_error", "blit_failure", "missed_edge", "kms_stall", "withheld_flip", "early_watchdog", "wake_failure", "clear_failure", "cancelled_power_off"}
    MaxInterruptions = 2
    Animated = {1}
    PowerRequests <- AllPowerRequests
    MaxLeases = 0
SPECIFICATION Spec
INVARIANTS TypeOK ScanoutSafe RefsExact SessionSurvives SchedulerAgreesWithKms
PROPERTY RenderTargetsAreIdle
