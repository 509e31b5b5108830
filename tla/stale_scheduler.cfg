SPECIFICATION FairSpec
CONSTANTS
    Contents = {c, d}
    None = None
    Privileged = {}
    Unschedulable = {}
    MaxRevision = 2
    MaxCrashes = 0
    MaxInFlight = 1
PROPERTIES
    ActiveConfigurationRuns
