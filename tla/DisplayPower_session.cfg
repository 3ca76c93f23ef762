\* Two outputs; three events of users, clients, monitors, the seat or KMS.
CONSTANTS
    Outputs = {1, 2}
    Policies <- TwoPolicies
    MaxIdle = 1
    MaxEvents = 3
SPECIFICATION FairSpec
INVARIANTS BlankIsRemembered UserOffIsKept
PROPERTY RequestsApplied MissingIsRemoved
