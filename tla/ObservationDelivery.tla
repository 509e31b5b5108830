------------------------- MODULE ObservationDelivery -------------------------
(***************************************************************************)
(* The path of an observation from the agent's SQLite queue to the control *)
(* plane: EnqueueObservation and the acknowledgement cleanup of            *)
(* agent/storage, UploadOnce of agent/synchronization, an unreliable       *)
(* network, and ingest_observations of the control plane.                  *)
(*                                                                         *)
(* A table keyed by observation identity is a function from identities to  *)
(* payloads, None standing for "no row"; a request is such a function too. *)
(* Durable state (queued, attempts, wait, rejected, failures, backoff on   *)
(* the agent; stored, snapshots on the server) survives a crash, the rest  *)
(* of the agent's state does not.  Deadlines are kept as ticks left.       *)
(***************************************************************************)
EXTENDS Integers, FiniteSets, FiniteSetsExt

CONSTANTS
    Observations,         \* identities; the number is the place in ORDER BY scheduled_at, observation_id
    Payloads,             \* canonical payloads
    None,                 \* no row
    Revision,             \* agent_config_revision of an observation
    Size,                 \* payload_size_bytes of an observation
    Malformed,            \* identities whose stored payload is not valid JSON
    Unprocessable,        \* identities the server's request schema refuses
    Foreign,              \* identities that are not in the snapshot they name
    Ageing,               \* identities near a bound of the server's acceptance window
    MaxCount, MaxBytes,   \* QueueLimits
    MaxBatchObservations, MaxBatchBytes,
    MaxRetryDelay,        \* MaximumRetryDelay, in ticks of InitialRetryDelay
    RetryAfters,          \* Retry-After values a refusal may carry, 0 for none
    FailureCap,           \* counters stop here: RetryCeiling no longer changes
    MaxInFlight,          \* bound on requests in the network
    Reexecuted            \* identities the engine may record again

ASSUME DeliveryConstants ==
    /\ Observations \subseteq Nat /\ IsFiniteSet(Observations)
    /\ None \notin Payloads
    /\ Revision \in [Observations -> Nat] /\ Size \in [Observations -> Nat]
    /\ {MaxCount, MaxBytes, MaxBatchObservations, MaxBatchBytes} \subseteq Nat
    /\ Malformed \subseteq Observations
    /\ Unprocessable \subseteq Observations
    /\ Foreign \subseteq Observations /\ Ageing \subseteq Observations
    /\ MaxRetryDelay \in Nat /\ FailureCap \in Nat \ {0}
    /\ RetryAfters \subseteq Nat /\ 0 \in RetryAfters
    /\ Reexecuted \subseteq Observations

VARIABLES
    queued,       \* pending_observations: identity -> canonical_payload
    attempts,     \* pending_observations.attempt_count
    wait,         \* ticks until next_attempt_at
    rejected,     \* rejected_observations: identity -> canonical_payload
    failures,     \* synchronization_state.consecutive_failure_count
    backoff,      \* ticks until server_backoff_until
    agent,        \* the agent process
    sent,         \* the request whose response UploadOnce waits for
    reply,        \* what came back for it
    results,      \* the per-observation results when reply = "results"
    network,      \* requests that may still reach the server
    stored,       \* the server's observation rows: identity -> content
    snapshots,    \* revisions with an AgentConfigurationSnapshot
    age,          \* where scheduled_at lies in the server's acceptance window
    recorded      \* history: every <<identity, payload>> ever committed to the queue

tables    == <<queued, attempts, wait, rejected>>
syncState == <<failures, backoff>>
exchange  == <<sent, reply, results>>
server    == <<stored, snapshots, age>>
vars == <<tables, syncState, agent, exchange, network, server, recorded>>

Rows         == [Observations -> Payloads \cup {None}]
NoRows       == [o \in Observations |-> None]
Dispositions == {"none", "accepted", "duplicate", "retry", "rejected"}
NoResults    == [o \in Observations |-> "none"]
Members(table) == {o \in Observations : table[o] # None}

TypeOK ==
    /\ queued \in Rows /\ rejected \in Rows /\ stored \in Rows /\ sent \in Rows
    /\ attempts \in [Observations -> 0..FailureCap]
    /\ wait \in [Observations -> 0..MaxRetryDelay]
    /\ failures \in 0..FailureCap /\ backoff \in 0..MaxRetryDelay
    /\ agent \in {"up", "stopping", "down"}
    /\ reply \in {"none", "refused", "results"}
    /\ results \in [Observations -> Dispositions]
    /\ network \subseteq Rows
    /\ snapshots \subseteq {Revision[o] : o \in Observations}
    /\ age \in [Observations -> {"future", "inside", "old"}]
    /\ recorded \subseteq Observations \X Payloads

Init ==
    /\ queued = NoRows /\ rejected = NoRows /\ stored = NoRows
    /\ attempts = [o \in Observations |-> 0] /\ wait = [o \in Observations |-> 0]
    /\ failures = 0 /\ backoff = 0
    /\ agent = "up" /\ sent = NoRows /\ reply = "none" /\ results = NoResults
    /\ network = {}
    /\ snapshots \in SUBSET {Revision[o] : o \in Observations}
    /\ age \in {a \in [Observations -> {"future", "inside"}] :
                    \A o \in Observations \ Ageing : a[o] = "inside"}
    /\ recorded = {}

-----------------------------------------------------------------------------
(* EnqueueObservation, called by the engine for every completed execution. *)

Bytes(identities) == MapThenSumSet(LAMBDA o : Size[o], identities)

\* Mutant: the row to insert is not counted.
QueueFullOffByOne(o) ==
    \/ Cardinality(Members(queued)) > MaxCount
    \/ Bytes(Members(queued)) > MaxBytes

QueueFull(o) ==
    \/ Cardinality(Members(queued)) + 1 > MaxCount
    \/ Bytes(Members(queued)) + Size[o] > MaxBytes

\* The row is committed; CreatedAt is its first next_attempt_at.
InsertPending(o, p) ==
    /\ queued[o] = None /\ ~QueueFull(o)
    /\ queued' = [queued EXCEPT ![o] = p]
    /\ attempts' = [attempts EXCEPT ![o] = 0]
    /\ wait' = [wait EXCEPT ![o] = 0]
    /\ recorded' = recorded \cup {<<o, p>>}
    /\ UNCHANGED <<rejected, agent>>

\* observationAlreadyQueued finds the same identity with the same content.
AlreadyQueued(o, p) ==
    /\ queued[o] = p
    /\ UNCHANGED <<tables, agent, recorded>>

\* ErrObservationConflict and ErrQueueFull end Engine.Run, and with it the agent.
EnqueueFails(o, p) ==
    /\ \/ queued[o] \notin {None, p}
       \/ queued[o] = None /\ QueueFull(o)
    /\ agent' = "stopping"
    /\ UNCHANGED <<tables, recorded>>

EnqueueObservation(o, p) ==
    /\ agent = "up"
    /\ o \in Reexecuted \/ \A q \in Payloads : <<o, q>> \notin recorded
    /\ InsertPending(o, p) \/ AlreadyQueued(o, p) \/ EnqueueFails(o, p)
    /\ UNCHANGED <<syncState, exchange, network, server>>

-----------------------------------------------------------------------------
(* BuildBatch over the rows whose next_attempt_at has passed, oldest first. *)

Ready == {o \in Members(queued) : wait[o] = 0}
Prefix(o) == {x \in Ready : x <= o}
\* Mutant: the batch does not break at a change of revision.
AnyRevision(o) == TRUE
SameRevision(o) == Revision[o] = Revision[Min(Ready)]
Fits(o) == Bytes(Prefix(o)) <= MaxBatchBytes

\* The loop comes to o: every older row was selected and no break was taken.
Reached(o) ==
    /\ Cardinality(Prefix(o)) <= MaxBatchObservations
    /\ \A x \in Prefix(o) : SameRevision(x)
    /\ \A x \in Prefix(o) \ {o} : x \notin Malformed /\ Fits(x)

\* InvalidObservationError, or OversizedObservationError for the first row.
BatchErrors ==
    {o \in Ready : /\ Reached(o)
                   /\ o \in Malformed \/ (Prefix(o) = {o} /\ ~Fits(o))}

Batch == {o \in Ready : Reached(o) /\ o \notin Malformed /\ Fits(o)}

-----------------------------------------------------------------------------
(* UploadOnce.  The main loop runs it, so there is one at a time.           *)

UploadStarts == agent \in {"up", "stopping"} /\ sent = NoRows /\ backoff = 0

\* QuarantineObservation moves the row in one transaction.  When the identity is
\* already in rejected_observations the insert fails and nothing changes.
QuarantineObservation(o) ==
    /\ UploadStarts /\ o \in BatchErrors /\ rejected[o] = None
    /\ rejected' = [rejected EXCEPT ![o] = queued[o]]
    /\ queued' = [queued EXCEPT ![o] = None]
    /\ attempts' = [attempts EXCEPT ![o] = 0]
    /\ UNCHANGED <<wait, syncState, agent, exchange, network, server, recorded>>

PostBatch ==
    /\ UploadStarts /\ BatchErrors = {} /\ Batch # {}
    /\ Cardinality(network) < MaxInFlight
    /\ sent' = [o \in Observations |-> IF o \in Batch THEN queued[o] ELSE None]
    /\ network' = network \cup {sent'}
    /\ UNCHANGED <<tables, syncState, agent, reply, results, server, recorded>>

RetryCeiling(failureCount) == Min({2 ^ (failureCount - 1), MaxRetryDelay})

\* The delays RetryDelay can return: full jitter under the ceiling, raised to the
\* server's Retry-After, never above the maximum.
RetryDelays(failureCount, serverRetryAfter) ==
    {d \in 0..MaxRetryDelay :
        \E jitter \in 0..RetryCeiling(failureCount) :
            d = Min({Max({jitter, serverRetryAfter}), MaxRetryDelay})}

Increment(count) == IF count < FailureCap THEN count + 1 ELSE FailureCap

\* recordFailure: RecordSynchronizationFailure, and UploadOnce returns.
RecordFailure(serverRetryAfter) ==
    /\ failures' = Increment(failures)
    /\ backoff' \in RetryDelays(Increment(failures), serverRetryAfter)
    /\ sent' = NoRows /\ reply' = "none" /\ results' = NoResults

\* httpClient().Do fails or the body cannot be decoded; the request may be lost or
\* may still reach the server.
TransportError ==
    /\ sent # NoRows
    /\ RecordFailure(0)
    /\ network' \in {network, network \ {sent}}
    /\ UNCHANGED <<tables, agent, server, recorded>>

\* Any status outside 2xx.
UploadRefused ==
    /\ reply = "refused"
    /\ \E delay \in RetryAfters : RecordFailure(delay)
    /\ UNCHANGED <<tables, agent, network, server, recorded>>

Having(dispositions) == {o \in Observations : results[o] \in dispositions}

\* Mutant: a rejected row stays pending.
SettledUnlessRejected == Having({"accepted", "duplicate"})

\* Rows the cleanup deletes from pending_observations.
Settled == Having({"accepted", "duplicate", "rejected"})

\* Mutant: a quarantined row may be overwritten.
CleanupReplaces == FALSE

\* A row to quarantine is in rejected_observations already: the insert fails.
CleanupFails == \E o \in Having({"rejected"}) : rejected[o] # None

\* ApplyAcknowledgements: one transaction over the whole batch.
ApplyAcknowledgements ==
    /\ reply = "results" /\ ~CleanupFails
    /\ queued' = [o \in Observations |->
                    IF o \in Settled THEN None ELSE queued[o]]
    /\ rejected' = [o \in Observations |->
                    IF o \in Having({"rejected"}) THEN sent[o] ELSE rejected[o]]
    /\ attempts' = [o \in Observations |->
                    IF o \in Settled THEN 0
                    ELSE IF o \in Having({"retry"}) THEN Increment(attempts[o])
                    ELSE attempts[o]]
    /\ wait' \in [Observations -> 0..MaxRetryDelay]
    /\ \A o \in Observations :
          IF o \in Having({"retry"}) THEN wait'[o] \in RetryDelays(Increment(attempts[o]), 0)
                                     ELSE wait'[o] = wait[o]
    /\ failures' = 0 /\ backoff' = 0
    /\ sent' = NoRows /\ reply' = "none" /\ results' = NoResults
    /\ UNCHANGED <<agent, network, server, recorded>>

\* The transaction rolls back and UploadOnce records a failure.
CleanupRollsBack ==
    /\ reply = "results" /\ CleanupFails
    /\ RecordFailure(0)
    /\ UNCHANGED <<tables, agent, network, server, recorded>>

-----------------------------------------------------------------------------
(* The server: upload_observations and ingest_observations.                 *)

\* Mutant: the content hash of a stored row is not compared.
DispositionByIdentity(o, p) ==
    IF Revision[o] \notin snapshots THEN "retry"
    ELSE IF o \in Foreign \/ age[o] # "inside" THEN "rejected"
    ELSE IF stored[o] = None THEN "accepted" ELSE "duplicate"

\* What ingest_observations answers for one observation of a batch.
Disposition(o, p) ==
    IF Revision[o] \notin snapshots THEN "retry"
    ELSE IF o \in Foreign \/ age[o] # "inside" THEN "rejected"
    ELSE IF stored[o] = None THEN "accepted"
    ELSE IF stored[o] = p THEN "duplicate" ELSE "rejected"

Answers(request) ==
    [o \in Observations |-> IF request[o] = None THEN "none" ELSE Disposition(o, request[o])]

\* An equal request, sent again, may be in the network besides this one.
Delivered(request) == network' \in {network, network \ {request}}

\* The answer finds the client still waiting on this request, or nobody.
Answer(request, status, answers) ==
    \/ /\ request = sent /\ reply = "none"
       /\ reply' = status /\ results' = answers
       /\ UNCHANGED sent
    \/ UNCHANGED exchange

\* Mutant: ON CONFLICT DO UPDATE.
IngestOverwrites(request) ==
    /\ request \in network
    /\ Members(request) \cap Unprocessable = {}
    /\ stored' = [o \in Observations |-> IF Answers(request)[o] \in {"accepted", "rejected"}
                                         THEN request[o] ELSE stored[o]]
    /\ Answer(request, "results", Answers(request))
    /\ Delivered(request)
    /\ UNCHANGED <<tables, syncState, agent, snapshots, age, recorded>>

\* One database transaction over the batch.
IngestObservations(request) ==
    /\ request \in network
    /\ Members(request) \cap Unprocessable = {}
    /\ stored' = [o \in Observations |->
                    IF Answers(request)[o] = "accepted" THEN request[o] ELSE stored[o]]
    /\ Answer(request, "results", Answers(request))
    /\ Delivered(request)
    /\ UNCHANGED <<tables, syncState, agent, snapshots, age, recorded>>

\* A schema violation anywhere in the body refuses the whole request; so may a
\* revoked credential, the content-length limit or a failed transaction.
RefuseUpload(request) ==
    /\ request \in network
    /\ Answer(request, "refused", NoResults)
    /\ Delivered(request)
    /\ UNCHANGED <<tables, syncState, agent, server, recorded>>

\* get_or_create_configuration commits the snapshot of a revision.
SnapshotCreated(revision) ==
    /\ revision \in {Revision[o] : o \in Observations} \ snapshots
    /\ snapshots' = snapshots \cup {revision}
    /\ UNCHANGED <<tables, syncState, agent, exchange, network, stored, age, recorded>>

\* The server's clock moves past a bound of the acceptance window.
AgeObservation(o) ==
    /\ o \in Ageing /\ age[o] # "old"
    /\ age' = [age EXCEPT ![o] = IF @ = "future" THEN "inside" ELSE "old"]
    /\ UNCHANGED <<tables, syncState, agent, exchange, network, stored, snapshots, recorded>>

-----------------------------------------------------------------------------
(* The agent process and its clock.                                         *)

\* run returns once the main loop sees the engine's error.
AgentExits ==
    /\ agent = "stopping" /\ sent = NoRows
    /\ agent' = "down"
    /\ UNCHANGED <<tables, syncState, exchange, network, server, recorded>>

Crash ==
    /\ agent # "down"
    /\ agent' = "down"
    /\ sent' = NoRows /\ reply' = "none" /\ results' = NoResults
    /\ UNCHANGED <<tables, syncState, network, server, recorded>>

Restart ==
    /\ agent = "down"
    /\ agent' = "up"
    /\ UNCHANGED <<tables, syncState, exchange, network, server, recorded>>

\* Mutant: a deadline that has passed is counted down further.
DecrementBelowZero(ticks) == ticks - 1
Decrement(ticks) == IF ticks > 0 THEN ticks - 1 ELSE 0

ClockTick ==
    /\ backoff > 0 \/ \E o \in Observations : wait[o] > 0
    /\ backoff' = Decrement(backoff)
    /\ wait' = [o \in Observations |-> Decrement(wait[o])]
    /\ UNCHANGED <<queued, attempts, rejected, failures, agent, exchange, network, server,
                   recorded>>

Next ==
    \/ \E o \in Observations, p \in Payloads : EnqueueObservation(o, p)
    \/ \E o \in Observations : QuarantineObservation(o)
    \/ PostBatch
    \/ TransportError
    \/ UploadRefused
    \/ ApplyAcknowledgements
    \/ CleanupRollsBack
    \/ \E request \in network : IngestObservations(request) \/ RefuseUpload(request)
    \/ \E revision \in {Revision[o] : o \in Observations} : SnapshotCreated(revision)
    \/ \E o \in Observations : AgeObservation(o)
    \/ AgentExits
    \/ Crash
    \/ Restart
    \/ ClockTick

Spec == Init /\ [][Next]_vars

-----------------------------------------------------------------------------
(* Fairness: the upload ticker keeps firing and time passes; the supervisor *)
(* restarts a stopped agent; a stopping agent exits; the network is fair    *)
(* lossy, so an exchange that is tried again and again completes once.      *)

IngestAndAnswer == \E request \in network :
    IngestObservations(request) /\ reply' = "results"

Fairness ==
    /\ SF_vars(PostBatch)
    /\ SF_vars(\E o \in Observations : QuarantineObservation(o))
    /\ SF_vars(IngestAndAnswer)
    /\ SF_vars(ApplyAcknowledgements)
    /\ WF_vars(UploadRefused)
    /\ WF_vars(TransportError)
    /\ WF_vars(ClockTick)
    /\ WF_vars(AgentExits)
    /\ WF_vars(Restart)
    /\ WF_vars(\E request \in network : /\ IngestObservations(request) \/ RefuseUpload(request)
                                        /\ network' = network \ {request})
    /\ WF_vars(\E revision \in {Revision[o] : o \in Observations} : SnapshotCreated(revision))

FairSpec == Spec /\ Fairness

-----------------------------------------------------------------------------
(* Safety *)

\* No recorded observation disappears: whatever crashes, lost responses, late
\* requests and retries happen, every payload EnqueueObservation ever committed is
\* still pending, is the payload the server stored under that identity, or is in
\* the local quarantine (UploadOnce, ApplyAcknowledgements, ingest_observations).
NoObservationLost ==
    \A o \in Observations, p \in Payloads :
        <<o, p>> \in recorded => queued[o] = p \/ stored[o] = p \/ rejected[o] = p

\* An answer stays true until the agent acts on it: what UploadOnce is about to delete
\* as accepted or duplicate is on the server with exactly the payload that is pending,
\* although older copies of the batch may have been ingested, and new executions
\* recorded, since the answer was computed.
AnswersStayTrue ==
    /\ \A o \in Observations : sent[o] # None => queued[o] = sent[o]
    /\ reply = "results" =>
          \A o \in Observations :
              /\ results[o] # "none" => sent[o] # None
              /\ results[o] \in {"accepted", "duplicate"} => stored[o] = sent[o]

\* The queue stays within both hard limits (EnqueueObservation checks them in the
\* transaction that inserts, and nothing else inserts).
QueueWithinLimits ==
    /\ Cardinality(Members(queued)) <= MaxCount
    /\ Bytes(Members(queued)) <= MaxBytes

\* Every request that ever leaves BuildBatch is non-empty, names one configuration
\* revision, carries no payload that is not JSON and respects both batch limits, also
\* while rows wait for their next attempt and others are quarantined in between.
RequestsWellFormed ==
    \A request \in network :
        LET members == Members(request) IN
        /\ members # {} /\ members \cap Malformed = {}
        /\ \A o, x \in members : Revision[o] = Revision[x]
        /\ Cardinality(members) <= MaxBatchObservations
        /\ Bytes(members) <= MaxBatchBytes

-----------------------------------------------------------------------------
(* Refinement *)

Durable == INSTANCE DurableDelivery WITH
    committed <- recorded, queue <- queued, delivered <- stored, quarantine <- rejected

\* The protocol implements DurableDelivery.  In particular a pending row is immutable
\* and leaves the queue only if, in the very step that removes it, the same payload
\* is on the server or enters the quarantine (ApplyAcknowledgements,
\* QuarantineObservation), and late, repeated or conflicting uploads never overwrite
\* a stored row (ON CONFLICT DO NOTHING in _insert_common).
ImplementsDurableDelivery == Durable!Spec

-----------------------------------------------------------------------------
(* Liveness *)

\* Every pending observation is eventually accepted or quarantined, through crashes,
\* refusals, lost answers and snapshots that reach the server late.
EveryObservationSettles ==
    \A o \in Observations : queued[o] # None ~> queued[o] = None

\* "One bad observation cannot block all newer observations forever"
\* (docs/architecture/sync.md): the observations the server can process settle,
\* whatever else is in the queue.  The code does not have this property when
\* Unprocessable is not empty: a refused batch is built again from the same rows.
BadObservationDoesNotBlock ==
    \A o \in Observations \ Unprocessable : queued[o] # None ~> queued[o] = None

=============================================================================
