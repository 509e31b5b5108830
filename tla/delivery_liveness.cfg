SPECIFICATION FairSpec
CONSTANTS
    Observations <- MCObservations
    Payloads = {p}
    None = None
    Revision <- MCMixedRevisions
    Size <- MCMixedSizes
    Malformed = {}
    Unprocessable = {}
    Foreign = {1}
    Ageing = {}
    MaxCount = 3
    MaxBytes = 4
    MaxBatchObservations = 2
    MaxBatchBytes = 2
    MaxRetryDelay = 1
    RetryAfters = {0, 1}
    FailureCap = 1
    MaxInFlight = 1
    Reexecuted = {}
INVARIANTS
    
    QueueWithinLimits
    RequestsWellFormed
PROPERTIES
    EveryObservationSettles
