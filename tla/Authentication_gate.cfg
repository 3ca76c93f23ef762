\* The gate after a lock and an unlock between two looks at the boundary.
CONSTANTS
    MaxPendingEvents = 2
    MaxAttempts = 1
    MaxPrompts = 1
    MaxCommands = 1
SPECIFICATION FairSpec
PROPERTY GateReopens
CHECK_DEADLOCK FALSE
