-------------------------- MODULE MonitorReporting --------------------------
(***************************************************************************)
(* What a realm's members are told of a monitor: from the configuration    *)
(* that is saved, through the agent that runs it, heartbeats and uploads   *)
(* its results, to the state, the headline and the history the dashboard   *)
(* computes.  One monitor and one agent it is assigned to; Headline and    *)
(* Summary are functions of what several such agents report.               *)
(*                                                                         *)
(* Times are kept as ages in ticks, counted up to a limit past which the   *)
(* code does not tell them apart.  The revision protocol itself is the     *)
(* subject of ConfigurationSync, and the queue and the answers of an       *)
(* upload that of ObservationDelivery: here an upload carries one          *)
(* observation of a configuration the server has issued, neither too old   *)
(* nor in the future.                                                      *)
(***************************************************************************)
EXTENDS ProbeContracts

CONSTANTS
    Submissions,        \* monitors as submitted: [interval, timeout, configuration]
    TickSeconds,        \* length of a tick
    HeartbeatInterval,  \* agent_heartbeat_interval_seconds, in ticks
    OfflineAfter,       \* agent_offline_after_seconds, in ticks
    PollInterval,       \* agent_configuration_poll_interval_seconds, in ticks
    MaxRevision         \* bound on the agent's desired revision

ASSUME SettingsArePositive ==
    /\ {TickSeconds, HeartbeatInterval, OfflineAfter, PollInterval} \subseteq Nat \ {0}
    /\ MaxRevision \in Nat

\* The configurations of monitors that can be saved.
Saved ==
    {serialize_probe_configuration(s.configuration, s.timeout * TickSeconds) : s \in Submissions}
        \ {Refused}

Rows == [interval : Nat, timeout : Nat, configuration : Saved]

\* The observations the agent can have made of them.
Observations ==
    LET outcomes == UNION {Outcomes(c) : c \in {d \in Saved : DecodeConfiguration(d)}}
    IN  [age : Nat, status : {o.status : o \in outcomes},
         assessment : {o.assessment : o \in outcomes}, result : {o.result : o \in outcomes}]

\* The fields of an ICMP configuration as the schema parses them.
IcmpFields ==
    [type : {"icmp"}, packet_count : Int, packet_interval_ms : Int,
     per_packet_timeout_ms : Optional(Int), maximum_packet_loss_percent : Optional(Int)]

ASSUME SubmissionsAreParsed ==
    \A s \in Submissions :
        /\ s.interval \in Nat /\ s.timeout \in Nat
        /\ s.configuration.type = "icmp" => s.configuration \in IcmpFields

ASSUME NoneIsNoValue ==
    /\ None \notin Int /\ None \notin BOOLEAN /\ None \notin Methods /\ None \notin Schemes
    /\ None \notin Rows /\ None \notin Observations

VARIABLES
    monitor,        \* the monitor's row, or None before it is created
    credential,     \* "active" or "revoked"
    desired,        \* the agent's desired, active and acknowledged revision
    active,
    acknowledged,
    running,        \* age of the agent's first activation of the monitor, or None
    activated,      \* age of its current activation, or None
    acknowledgedAt, \* age of acknowledged_at, or None
    heartbeat,      \* age of last_heartbeat_at, or None
    latest          \* the newest stored observation, or None

revisions == <<desired, active, acknowledged>>
vars == <<monitor, credential, revisions, running, activated, acknowledgedAt, heartbeat, latest>>

Grace == HeartbeatInterval + PollInterval

\* The time after which a monitor that has not reported is overdue.
Deadline == monitor.interval + monitor.timeout + Grace

\* Ages above this bound are not told apart.
Horizon ==
    IF monitor # None /\ Deadline > OfflineAfter THEN Deadline + 1 ELSE OfflineAfter + 1

Init ==
    /\ monitor = None
    /\ credential = "active"
    /\ desired = 0 /\ active = 0 /\ acknowledged = 0
    /\ running = None /\ activated = None /\ acknowledgedAt = None
    /\ heartbeat = None
    /\ latest = None

---------------------------------------------------------------------------
(* The dashboard. *)

StaleAfter ==
    IF OfflineAfter <= 2 * HeartbeatInterval THEN OfflineAfter ELSE 2 * HeartbeatInterval

\* The assessment of an observation that is not overdue.
Assessed(o) ==
    IF o.status = "failed" THEN "probe_error"
    ELSE IF o.assessment \in {"healthy", "unhealthy"} THEN o.assessment
    ELSE "probe_error"

\* _availability_state that takes an agent heard of OfflineAfter ago for offline.
AvailabilityEarly ==
    IF desired = 0 \/ acknowledged < desired THEN "pending_configuration"
    ELSE IF heartbeat = None THEN "agent_offline"
    ELSE IF heartbeat >= OfflineAfter THEN "agent_offline"
    ELSE IF heartbeat > StaleAfter THEN "agent_stale"
    ELSE IF latest = None THEN "overdue"
    ELSE IF latest.age > Deadline THEN "overdue"
    ELSE Assessed(latest)

\* _availability_state with the deadline of the first result the wrong way round.
AvailabilityDeadlineInverted ==
    IF desired = 0 \/ acknowledged < desired THEN "pending_configuration"
    ELSE IF heartbeat = None \/ heartbeat > OfflineAfter THEN "agent_offline"
    ELSE IF heartbeat > StaleAfter THEN "agent_stale"
    ELSE IF latest # None THEN Assessed(latest)
    ELSE IF acknowledgedAt = None \/ acknowledgedAt >= Deadline THEN "no_data_yet"
    ELSE "overdue"

Availability ==
    IF desired = 0 \/ acknowledged < desired THEN "pending_configuration"
    ELSE IF heartbeat = None THEN "agent_offline"
    ELSE IF heartbeat > OfflineAfter THEN "agent_offline"
    ELSE IF heartbeat > StaleAfter THEN "agent_stale"
    ELSE IF latest = None THEN
        IF acknowledgedAt = None \/ acknowledgedAt <= Deadline THEN "no_data_yet" ELSE "overdue"
    ELSE IF latest.age > Deadline THEN "overdue"
    ELSE Assessed(latest)

\* states[a]: the availability of the monitor on each agent it is assigned to.
Count(states, s) == Cardinality({a \in DOMAIN states : states[a] = s})

Headline(states) ==
    IF DOMAIN states = {} THEN "disabled"
    ELSE IF Count(states, "healthy") = Cardinality(DOMAIN states) THEN "healthy"
    ELSE IF Count(states, "unhealthy") = Cardinality(DOMAIN states) THEN "unhealthy"
    ELSE IF Count(states, "healthy") = 0 /\ Count(states, "unhealthy") = 0 THEN "unknown"
    ELSE "degraded"

\* The counts of a MonitorStateSummary; coverage_percent is their quotient.
Summary(states) ==
    LET healthy == Count(states, "healthy")
        unhealthy == Count(states, "unhealthy")
        total == Cardinality(DOMAIN states)
    IN  [effective |-> total, healthy |-> healthy, unhealthy |-> unhealthy,
         unavailable |-> total - (healthy + unhealthy)]

\* get_agent_status: the agent's row is enabled and not archived.
Online == heartbeat # None /\ heartbeat <= OfflineAfter

---------------------------------------------------------------------------
(* The control plane. *)

\* _validate_schedule
ValidSchedule(s) == s.interval >= 1 /\ s.timeout >= 1 /\ s.timeout < s.interval

Row(s, configuration) == [interval |-> s.interval, timeout |-> s.timeout, configuration |-> configuration]

\* create_monitor and the assignment to the agent, which asks for a first revision.
CreateMonitor ==
    /\ monitor = None
    /\ \E s \in Submissions :
           LET normalized == serialize_probe_configuration(s.configuration, s.timeout * TickSeconds)
           IN  /\ ValidSchedule(s) /\ normalized # Refused
               /\ monitor' = Row(s, normalized)
    /\ desired' = 1
    /\ UNCHANGED <<credential, active, acknowledged, running, activated, acknowledgedAt,
                   heartbeat, latest>>

\* Some other change to what the agent is to run.
OtherChange ==
    /\ monitor # None /\ desired < MaxRevision
    /\ desired' = desired + 1
    /\ UNCHANGED <<monitor, credential, active, acknowledged, running, activated, acknowledgedAt,
                   heartbeat, latest>>

RevokeCredential ==
    /\ credential = "active"
    /\ credential' = "revoked"
    /\ UNCHANGED <<monitor, revisions, running, activated, acknowledgedAt, heartbeat, latest>>

---------------------------------------------------------------------------
(* The agent, and the handlers of its requests. *)

\* authenticate_agent
Authenticated == credential = "active"

\* A poll is answered with the desired revision, and the agent activates it.
Activate ==
    /\ Authenticated /\ desired > active
    /\ active' = desired
    /\ activated' = 0
    /\ running' = IF running = None THEN 0 ELSE running
    /\ UNCHANGED <<monitor, credential, desired, acknowledged, acknowledgedAt, heartbeat, latest>>

\* acknowledge_configuration records when the agent activated the revision.
Acknowledge ==
    /\ Authenticated /\ active > 0 /\ active >= acknowledged
    /\ acknowledged' = active
    /\ acknowledgedAt' = activated
    /\ UNCHANGED <<monitor, credential, desired, active, running, activated, heartbeat, latest>>

\* record_heartbeat for whoever asks.
HeartbeatUnauthenticated ==
    /\ heartbeat' = 0
    /\ UNCHANGED <<monitor, credential, revisions, running, activated, acknowledgedAt, latest>>

\* record_heartbeat
Heartbeat ==
    /\ Authenticated
    /\ heartbeat' = 0
    /\ UNCHANGED <<monitor, credential, revisions, running, activated, acknowledgedAt, latest>>

\* The newest observation by scheduled_at, and of those the last received.
Newest(o) == IF latest = None \/ o.age <= latest.age THEN o ELSE latest

\* What the agent can have queued: an execution since it first ran the monitor.
Reports ==
    IF running = None \/ ~DecodeConfiguration(monitor.configuration) THEN {}
    ELSE {[age |-> age, outcome |-> o] :
              age \in 0..running, o \in Outcomes(monitor.configuration)}

Stored(report) ==
    [age |-> report.age, status |-> report.outcome.status,
     assessment |-> report.outcome.assessment, result |-> report.outcome.result]

\* The upload's answer: a body its schema refuses is answered 422, a row a
\* table refuses rolls the transaction back and is answered 500.
Accepted(outcome) ==
    /\ AgentObservation(monitor.configuration.type, outcome)
    /\ InsertsTypedResult(monitor.configuration.type, outcome.result)

\* An upload whose row is shown whenever it was scheduled.
UploadLastWins ==
    /\ Authenticated
    /\ \E report \in Reports : Accepted(report.outcome) /\ latest' = Stored(report)
    /\ UNCHANGED <<monitor, credential, revisions, running, activated, acknowledgedAt, heartbeat>>

\* upload_observations and ingest_observations
UploadObservation ==
    /\ Authenticated
    /\ \E report \in Reports :
           /\ Accepted(report.outcome)
           /\ latest' = Newest(Stored(report))
    /\ UNCHANGED <<monitor, credential, revisions, running, activated, acknowledgedAt, heartbeat>>

---------------------------------------------------------------------------

Older(age) == IF age = None \/ age >= Horizon THEN age ELSE age + 1

Tick ==
    /\ running' = Older(running)
    /\ activated' = Older(activated)
    /\ acknowledgedAt' = Older(acknowledgedAt)
    /\ heartbeat' = Older(heartbeat)
    /\ latest' = IF latest = None THEN None ELSE [latest EXCEPT !.age = Older(latest.age)]
    /\ UNCHANGED <<monitor, credential, revisions>>

Next ==
    \/ CreateMonitor
    \/ OtherChange
    \/ RevokeCredential
    \/ Activate
    \/ Acknowledge
    \/ Heartbeat
    \/ UploadObservation
    \/ Tick

Spec == Init /\ [][Next]_vars

\* Time passes.  Nothing is assumed of the agent or of the people using the system.
FairSpec == Spec /\ WF_vars(Tick)

---------------------------------------------------------------------------
(* Properties. *)

\* Types, and that no revision is asked for before there is a monitor.
TypeOK ==
    /\ monitor \in Optional(Rows)
    /\ monitor = None => desired = 0
    /\ credential \in {"active", "revoked"}
    /\ desired \in Nat /\ active \in Nat /\ acknowledged \in Nat
    /\ running \in Optional(Nat) /\ activated \in Optional(Nat)
    /\ active > 0 => activated # None
    /\ acknowledgedAt \in Optional(Nat) /\ heartbeat \in Optional(Nat)
    /\ running # None => monitor # None
    /\ latest \in Optional(Observations)

\* What waiting may turn a state into.
MayBecome(s) ==
    IF s \in {"pending_configuration", "agent_offline"} THEN {}
    ELSE IF s = "agent_stale" THEN {"agent_offline"}
    ELSE IF s = "overdue" THEN {"agent_stale", "agent_offline"}
    ELSE {"overdue", "agent_stale", "agent_offline"}

\* Waiting alone never makes a monitor look better: between two messages of
\* the agent, _availability_state only moves from a result or "no data yet"
\* to overdue, to a stale and to an offline agent.
TimeNeverHeals ==
    [][Tick => Availability' \in {Availability} \cup MayBecome(Availability)]_vars

\* An agent whose credential is revoked is seen to be gone: whatever it goes
\* on sending, its monitors end up offline or waiting for a configuration.
RevokedAgentIsSeen ==
    (monitor # None /\ credential = "revoked")
        ~> (Availability \in {"agent_offline", "pending_configuration"})

\* A result that arrives late, after the queue was held up, does not replace
\* what a later execution of the monitor has shown.
OnlyNewerResultsShow ==
    [][~Tick /\ latest # None => latest' # None /\ latest'.age <= latest.age]_vars

\* The agent's page and the dashboard agree on whether the agent is online,
\* at the boundary too, once its configuration is current.
StatusAgrees ==
    desired > 0 /\ acknowledged >= desired => (Online <=> Availability # "agent_offline")

\* Where the agent is stricter than the control plane: the whole of a timeout
\* longer than a minute for one ICMP packet, and an IP address as host header.
AgentIsStricter(c) ==
    \/ c.type = "icmp" /\ c.per_packet_timeout_ms > 60000
    \/ c.type = "http" /\ c.host_header = "address"

\* A configuration that was saved can be submitted again unchanged, is one
\* the agent can decode, and an ICMP sequence of it fits the timeout.
SavedConfigurationRuns ==
    monitor # None /\ ~AgentIsStricter(monitor.configuration) =>
        LET c == monitor.configuration
            seconds == monitor.timeout * TickSeconds
        IN  /\ serialize_probe_configuration(c, seconds) = c
            /\ DecodeConfiguration(c)
            /\ c.type = "icmp" =>
                  (c.packet_count - 1) * c.packet_interval_ms + c.per_packet_timeout_ms
                      <= seconds * 1000

\* Whatever was stored can be shown: the history reads the row back, it has a
\* typed result exactly when the execution completed, and the two ICMP
\* histories differ only in the executions that failed.
HistoryReadable ==
    latest # None =>
        LET type == monitor.configuration.type
        IN  /\ TypedResultReads(type, latest.result)
            /\ (latest.status = "completed") = (latest.result # None)
            /\ type = "icmp" => InIcmpHistory(type, latest) = (latest.status = "completed")

\* Every outcome the documentation lists for TCP and DNS monitors is recorded:
\* a refused connection or a timeout is a completed, unhealthy observation,
\* and a lookup by the system's resolver is one without a resolver address.
ListedOutcomesAreRecorded ==
    monitor # None /\ monitor.configuration.type \in {"tcp", "dns"} =>
        \A report \in Reports : Accepted(report.outcome)
=============================================================================
