SPECIFICATION Spec
CONSTANTS
    m1 = m1
    m2 = m2
    Monitors = {m1, m2}
    Assigned <- MCAssigned
    Jitter <- MCJitter
    Interval = 2
    MaxConcurrent = 2
    MaxTime = 3
    Crashes = TRUE
    Shutdowns = TRUE
    StorageFailures = TRUE
INVARIANTS
    NoOverlap
    SlotsMatchGoroutines
    
    JobsMatchState
    NoReplayAfterRestart
PROPERTIES
    NeverStartedTwice
CHECK_DEADLOCK FALSE
