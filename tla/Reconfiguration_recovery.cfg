\* A VT switch whose resume fails, while a configuration awaits its
\* confirmation.
CONSTANTS
    Outputs = {1, 2}
    Modes = {"m1", "m2"}
    Off = "off"
    Foreign = "foreign"
    Places = {"p1", "p2"}
    Boot <- BootLayout
    Layouts <- TwoLayouts
    Persistent = {TRUE}
    None = None
    MaxRequests = 1
    MaxAnswers = 1
    MaxIncidents = 2
    MaxEvents = 3
SPECIFICATION Spec
INVARIANT RecoveryKeepsSession
