SPECIFICATION Spec
CONSTANTS
    Contents = {c, privileged, unschedulable}
    None = None
    Privileged = {privileged}
    Unschedulable = {unschedulable}
    MaxRevision = 3
    MaxCrashes = 1
    MaxInFlight = 2
INVARIANTS
    AgentHoldsIssued
    AcknowledgedWasActivated
    AcknowledgementsKnown
    OnePreviousRetained
    AnnouncedHashIssued
PROPERTIES
    RevisionsOnlyGrow
