\* The session lock: late results, late answers, the gate, and every attempt's end.
CONSTANTS
    MaxPendingEvents = 2
    MaxAttempts = 2
    MaxPrompts = 2
    MaxCommands = 2
SPECIFICATION FairSpec
INVARIANT TypeOK GateOpensAfterBoundary ResponseMatchesPrompt NewestEventIsCurrent
PROPERTY UnlockIsCurrent AttemptsEnd ShutdownCompletes
CHECK_DEADLOCK FALSE
