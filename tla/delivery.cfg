SPECIFICATION Spec
CONSTANTS
    Observations <- MCObservations
    Payloads = {p, q}
    None = None
    Revision <- MCRevision
    Size <- MCSize
    Malformed = {3}
    Unprocessable = {}
    Foreign = {}
    Ageing = {1}
    MaxCount = 2
    MaxBytes = 4
    MaxBatchObservations = 2
    MaxBatchBytes = 2
    MaxRetryDelay = 0
    RetryAfters = {0}
    FailureCap = 1
    MaxInFlight = 2
    Reexecuted = {1}
INVARIANTS
    NoObservationLost
    AnswersStayTrue
PROPERTIES
    ImplementsDurableDelivery
SYMMETRY PayloadSymmetry
