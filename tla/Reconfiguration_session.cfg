\* Two outputs, two apply requests, one answer and two incidents, of which
\* a behaviour has at most three together with its requests.
CONSTANTS
    Outputs = {1, 2}
    Modes = {"m1", "m2"}
    Off = "off"
    Foreign = "foreign"
    Places = {"p1", "p2"}
    Boot <- BootLayout
    Layouts <- TwoLayouts
    Persistent = {TRUE}
    None = None
    MaxRequests = 2
    MaxAnswers = 1
    MaxIncidents = 2
    MaxEvents = 3
SPECIFICATION FairSpec
INVARIANT KmsIsOurs HardwareMatchesScanouts SnapshotIsCurrent ConfigurationIsApplied
PROPERTY ImplementsTrial RequestsAnswered
