SPECIFICATION FairSpec
CONSTANTS
    m1 = m1
    m2 = m2
    Monitors = {m1, m2}
    Assigned <- MCAssigned
    Jitter <- MCJitter
    Interval = 2
    MaxConcurrent = 1
    MaxTime = 3
    Crashes = FALSE
    Shutdowns = FALSE
    StorageFailures = FALSE
PROPERTIES
    ExecutionsArePersisted
CHECK_DEADLOCK FALSE
