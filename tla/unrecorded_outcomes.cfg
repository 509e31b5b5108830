\* Heartbeats and polls every 30 seconds, offline after 90: config.py in ticks of 30.
SPECIFICATION Spec
CONSTANTS
    None = None
    Submissions <- MCSubmissions
    TickSeconds = 30
    HeartbeatInterval = 1
    OfflineAfter = 3
    PollInterval = 1
    MaxRevision = 2
INVARIANT ListedOutcomesAreRecorded
