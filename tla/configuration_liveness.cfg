SPECIFICATION FairSpec
CONSTANTS
    Contents = {c, privileged, unschedulable}
    None = None
    Privileged = {privileged}
    Unschedulable = {unschedulable}
    MaxRevision = 2
    MaxCrashes = 1
    MaxInFlight = 1
PROPERTIES
    AgentConverges
