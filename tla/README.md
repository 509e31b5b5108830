# Formal verification of BifrostNMS

TLA+ models of BifrostNMS: a Go **agent** that runs probes on a schedule, queues the observations in
SQLite and uploads them, and a Python **control plane** that manages what is monitored, issues each
agent's configuration, stores the observations and reports on them. TLC checks the models on small
instances; TLAPS proves the central properties for every instance. `PROJECT.json` maps every
definition to the source lines it models and lists components, runs, mutants, hazards, findings and
theorems.

## The system

| Part | State | Operations | What is hard about it |
| --- | --- | --- | --- |
| Observation queue and upload client (`agent/storage`, `agent/synchronization`) | pending and rejected rows, back-off, the request under way | enqueue, batch, post, quarantine, cleanup | crash between server commit and cleanup; lost, late and repeated requests; limits |
| Ingestion (`agents/observations.py`) | observation rows | ingest a batch | idempotency, conflicting payloads |
| Scheduler and engine (`agent/scheduler`, `agent/engine`) | jobs, worker slots, result buffer, `scheduler_state` | reconcile, tick, probe, record, drain | four kinds of goroutine, reload during a tick, shutdown |
| Configuration (`agents/configuration.py`, `control_plane.go`) | revisions, snapshots, active row | bump, issue, activate, acknowledge | change between data and revision, late answers |
| Monitoring domain (`monitoring/domain.py` and its endpoints) | agents, groups, targets, monitors, memberships, assignments | create, change, assign, archive | requests of several transactions, cut off or interleaved with polls |
| Enrolment (`agents/credentials.py`, `agent/storage/identity.go`) | tokens, credentials, the agent's identity | issue, exchange, revoke, store | row locks, lost answers, two local transactions |
| Probes and their schemas (`agent/probes`, `schemas/`, migration 0007) | none | validate, normalise, decode, report, store, read back | two programs and a database must agree on every field |
| Dashboard (`monitoring/dashboard.py`) | none of its own | availability, headline, counts, histories | ages, late results, boundaries of the intervals |
| Sessions and accounts (`auth/`, `api/auth.py`) | accounts, realms, factors, Redis sessions, links | sign-up, login, reset, realm switch, second factors | reads used after other requests have changed them |

The agent's main loop ties its parts together: it starts the engine, and three tickers call
configuration synchronization, heartbeat and upload, one at a time. The engine writes to the queue
the upload client reads. A change in the monitoring domain bumps the revisions that configuration
synchronization announces, and the snapshots that creates are those ingestion validates against. The
rows ingestion stores are those the dashboard judges.

## Modules

* **ObservationDelivery** models the way of an observation from `EnqueueObservation` to
  `ingest_observations`. Tables are functions from identities to payloads. A transaction is one
  action; `UploadOnce` is split where it waits for the network. Requests may be lost, delivered more
  than once and delivered after the agent gave up on them. `rejected` answers that are retryable
  are the disposition `retry`. Deadlines are ticks left, and counters stop at `FailureCap`.
* **DurableDelivery** is the promise: a committed payload stays in the queue until the same payload
  is on the server or in quarantine, and no delivered row changes.
* **ProbeScheduler** models `Reconcile`, `Tick`, the probe goroutines, `Scheduler.Run`, `Engine.Run`
  and the main goroutine. `Tick` holds the mutex over all its jobs (`tick.todo # {}`), one
  `AdvanceSchedule` transaction each; `Reconcile` writes its rows without the mutex and takes it only
  to swap the jobs. A probe goroutine is probing, sending, clearing or releasing.
* **ConfigurationSync** models one agent's configuration: changes and their revision bumps (two
  transactions), `get_or_create_configuration`, `acknowledge_configuration`,
  `SynchronizeConfiguration` with `ActivateConfiguration`, and the reload. A content stands for a
  canonical configuration and its hash. The refusal of an unknown acknowledgement is not an action:
  `AcknowledgementsKnown` shows that it cannot happen.
* **AssignmentDomain** models the tables that content is computed from, and the management requests
  that change them. A request is a record of what it has read and has left to do, `request[w]`, and
  takes one action for each of its statements; a statement is a transaction of its own unless the
  code opens one. What a request has read may be stale when it goes on. `CutOff` ends it anywhere;
  `owed` remembers the agents whose bump was then still to come. The poll reads the monitors of its
  agent (`PollReads`) and answers later (`PollAnswers`), under the lock of the agent's state row.
  `AssignedMonitors`, `EffectiveAgents` and `EffectivePairs` are the three places where the code
  computes who runs what: the poll, the bump and the dashboard.
* **AgentEnrolment** models tokens from issue to exchange. A transaction's writes show at its commit,
  and until then the rows it has locked block others: `issue_enrolment_token` locks the agent's row
  and then those of the tokens it revokes, `exchange_enrolment_token` the token's and then, by the
  foreign key, shares the agent's. Two requests that wait for each other are PostgreSQL's deadlock,
  and one of them is ended. On the agent, `enrol` saves identity and credential in two transactions.
* **ProbeContracts** holds no state: what the control plane accepts and normalises of each probe
  type's configuration (`serialize_probe_configuration`), what the agent decodes
  (`DecodeConfiguration`), which kinds of result its probes report (`Outcomes`), and what the
  upload's schema, the typed table and the dashboard's schema demand of them. Fields are kept when
  some side can refuse them; names and addresses are kept as the class the checks put them in.
* **MonitorReporting** extends it with one monitor and the agent that runs it: creation, activation,
  heartbeats, uploads, revocation of the credential and time, kept as ages in ticks.
  `Availability`, `Headline` and `Summary` are the dashboard's computations, `Online` that of the
  agent's own page.
* **Accounts** models sign-up, logins with password, second factor and passkey, e-mailed links, realm
  switches and the superuser command. A request that carries a session reads it, checks it against
  the user's row, and writes it back in a later step. A login reads the row and opens its session
  later. A password is a number, increased by each reset.
* Modules named **…Proofs**, and **AssignmentCoverage**, hold the proofs; modules named **MC…** the
  values of the constants.

Definitions commented "Mutant" are plausible bugs. `PROJECT.json` pairs each with the property that
must catch it; no specification uses them.

## Runs

| Run | Shows |
| --- | --- |
| `delivery` | nothing recorded is lost, answers stay true until acted on, refinement of DurableDelivery |
| `delivery_liveness` | queue limits, well-formed requests with rejected, oversized and mixed rows, every pending observation settles |
| `scheduler` | no overlap, no slot leak, every instant accounted for, no replay, no second start |
| `scheduler_liveness` | every started execution is recorded when nothing fails |
| `configuration` | the agent holds what was issued, the server never runs ahead, revisions only grow |
| `configuration_liveness` | the agent converges to the last configuration |
| `stale_scheduler` | *violated*: a failed acknowledgement leaves the old schedule running |
| `assignments` | every change reaches the revision of each agent it affects, poll, bump and dashboard agree, an archived target is silent, a monitor's revision identifies its behaviour |
| `enrolment` | one usable token, one credential for each, spent for good, enrolled as a whole, every request ends |
| `reporting` | what is saved runs, what is stored can be shown, neither time nor a late result makes a monitor look better, a revoked agent is seen |
| `unrecorded_outcomes` | *violated*: a refused TCP connection and a lookup by the system's resolver cannot be stored |
| `accounts` | a reset ends the sessions, a session's realm is usable, every account has a realm |

The two violated properties are sentences of `docs/architecture`; the findings quote them.

**Bounds.** Delivery uses three observations in two revisions, of which one is not JSON, two payloads
for an identity that is executed again, and two requests in flight: enough for an old copy of a batch
to meet a new one, and for a batch of two with different results. Its delays are zero, which allows
every order that longer ones allow. The liveness run has the delays, one request in flight, and three
observations of which the server rejects one and one is too large for a batch. The scheduler has two monitors, two revisions of which the second drops
a monitor, two workers and time for two instants of a monitor. Configuration has three revisions, so
that retention prunes, and one crash. Assignments has two agents that may share a group, two targets
a monitor can move between, and one request at a time that may be cut off once: what the polls of two
agents can see between its statements. Enrolment has two issuers and two exchanges, the least for the
deadlock and for two exchanges of one token, three tokens and one lost answer or crash. Reporting has
one submission for each case the checks of a probe type tell apart, on both sides of each boundary,
and the intervals of the default settings in ticks of 30 seconds. Accounts has one user with two
realms, one session and two requests, so that each kind of request meets each other on that session,
two challenges and two passwords. Names ending in `Max…`, `FailureCap` and the sets `Sessions`, `Requests`, `Challenges`,
`Workers`, `Issuers` and `Handlers` are bounds of the model, not of the code. Runs whose system may
have nothing left to do at such a bound do not check deadlock: both scheduler runs, `assignments` and
`enrolment`.

**Fairness.** Tickers keep firing, time passes where deadlines depend on it, a supervisor restarts the
agent, and goroutines that can go on do. The network is fair lossy: strong fairness of an answered
request says that one tried again and again gets through. Strong fairness of the actions that
take the scheduler's mutex reflects Go's starvation-free mutex, and that of the actions that take a
row lock in AgentEnrolment reflects PostgreSQL's queue of waiters. Weak fairness of `TransportError`
and of `PollFails` says that a request under way ends. The code uses `http.DefaultClient`, which sets
no timeout, so this rests on the connection itself ending. Weak fairness of `BumpRevision` says that
the control plane does not stop between a change and its bump; where it does, AssignmentDomain records
the agent in `owed`, and its revision stays behind until the next change. MonitorReporting needs only
that time passes.

## Proofs

All proofs are for arbitrary constants that satisfy the named assumptions.

* **Delivery.** `NoObservationLost` is not inductive. What makes it so is `AnswersStayTrue`: the
  request the agent waits for equals the pending rows, and an accepted or duplicate result is on the
  server with that payload. With it every step maps to a step of DurableDelivery (`DeliveryRefines`),
  which keeps what was committed (`CommittedIsKept`), and `NothingIsLost` follows.
  `QueueAlwaysWithinLimits` and `RequestsAlwaysWellFormed` are about sums of bytes over sets of rows.
  The sum is the fold of the community modules; `BytesRecursion` derives what it adds up to, by the
  smallest set for which it would not, and with it that a larger set has no smaller sum
  (`BytesMonotone`). `BatchIsPrefix` then says what the selection of a batch guarantees: its last row
  was taken when the rows before it left room, so that count and bytes stay within the limits and one
  revision is sent.
* **Scheduler.** `ExecutionsDoNotOverlap` rests on `OverlapInv`: a goroutine that has not yet cleared
  its flag has `running` set, and no two such goroutines of one monitor exist. The other invariants
  need `SchedulerInv`, which has two halves. `ScheduleInv` follows the rows of `scheduler_state`: a
  load is newer than every job, and the rows it has restored hold the due times it will swap in
  (`LoadInv`); a job and its row agree unless a load has already replaced the row (`JobInv`); an
  execution belongs to an earlier instant of the present row, or to a revision no row will have again
  (`HistoryInv`); a process that is down has nothing in memory (`DownInv`); and due time, missed and
  started instants add up (`InstantsAccountedFor`). None is inductive alone: that an instant is
  counted once needs that it was not started before, which needs job and row to agree, which needs
  to know what a load under way has written. `PoolInv` says that every goroutine runs an execution
  of its own in a slot of its own. `SlotsAlwaysMatchGoroutines`, `InstantsAlwaysAccountedFor`,
  `JobsAlwaysMatchState`, `RestartsNeverReplay` and `ExecutionsStartOnce` follow from it.
* **Configuration.** `SyncInv` joins what the server issued (`ServerInv`), what the agent stores
  (`AgentInv`), what is in the network and in the agent's hands (`ExchangeInv`) and what an
  acknowledgement may name (`AcknowledgementInv`). The seven theorems follow from it.
* **Assignments, any number of requests** (AssignmentDomainProofs). Types are inductive together with
  `Known`, that a request names rows that exist. From them `IssuedStaysIssued`; `OneRelation` is a
  fact of the three operators in every state.
* **Assignments, one request at a time** (AssignmentCoverage, which assumes `Workers = {w}`).
  `DomainInv` adds `Sound`, that what the one request has read is still true, and `Covered(a)`: the
  snapshot of the desired revision is the present content, and so is what a poll under way will
  answer, unless a bump is `Pending`. A step either leaves an agent's content alone or makes its bump
  pending; the bump moves to a revision without a snapshot. `RevisionsCover` and `ArchivedIsSilent`
  follow. `RevisionsIdentify` needs `EntriesInv` as well: an entry an agent was told of is the
  monitor's present one or of an older revision.
* **Enrolment.** `LockInv` states what the row locks protect: one issuer past the agent's lock
  (`OneIssuer`), tokens about to be revoked or exchanged are unused (`RevokesUnused`,
  `ExchangesUnused`), and credentials and consumed tokens correspond (`Accounted`). `WholeInv` is the
  agent's half.
* **Reporting.** `HeadlineMeaning` and `SummaryAddsUp` are about the dashboard's functions for any
  number of agents. `SavedRuns` follows from `RowWasSubmitted` and the fact that normalising twice is
  normalising once. `HistoryIsReadable` needs that the upload's schema and the typed table together
  demand every field that the dashboard's schema demands (`AcceptedIsReadable`), by probe type, and
  that a monitor's type never changes. The other theorems follow from the types and from how
  `Availability` compares ages.
* **Accounts.** `AccountsInv` says of every session that its version is older than the account's or
  its password the present one, and its realm usable (`GoodSessions`); the same of what a request or a
  login has in hand (`GoodRequests`); that one reset of an account is under way (`OneReset`); and that
  challenges and passkeys are of accounts that exist.

The assumptions stand in the modules that declare the constants: limits, sizes, intervals and bounds
are natural numbers, positive where the code demands it; there are finitely many observations,
numbered in the order of their rows; a submission has the fields its probe type has; `None` is no
value of a field and no row.

Every invariant and action property that a passing run checks is proved, three of those of
`assignments` for one request at a time, as in the run. Only model-checked are the liveness properties
`EveryObservationSettles`, `ExecutionsArePersisted`, `AgentConverges`, `RequestsEnd` and
`RevokedAgentIsSeen`, since fairness is out of the prover's reach.

## Further divergences

Beyond the two findings, these sentences of the documentation do not hold of the code. The
properties are defined in the modules, and TLC refutes each with the constants given.

| Property | Module and constants | What happens |
| --- | --- | --- |
| `BadObservationDoesNotBlock` ("One bad observation cannot block all newer observations forever.", `docs/architecture/sync.md:21`) | ObservationDelivery, as `delivery_liveness` with `Unprocessable = {1}` and `Foreign = {}` | a batch refused with 422 is built again from the same rows |
| `CompleteResultsPersisted` ("persists any complete results", `agent-storage.md:279`) | ProbeScheduler, one monitor and revision, `Interval = 1`, `MaxConcurrent = 1`, `MaxTime = 4`, `Shutdowns = TRUE`, no crashes or storage failures | a result received just before the shutdown is recorded with a cancelled context, and dropped |
| `ShutdownCompletes` ("closes the database", `agent-storage.md:282`) | the same, `FairSpec` | the engine no longer receives, a worker waits for the buffer, and `Scheduler.Run` for the worker |
| `AcknowledgedCanRun` ("it must never acknowledge configuration it cannot run", `agent-storage.md:228`) | ConfigurationSync, as `configuration_liveness` | an interval `Reconcile` refuses is acknowledged first |
| `RevisionCoversContent` ("Any relevant ... change causes affected agents to receive a new desired revision.", `data-model.md:377`) | AssignmentDomain, as `assignments` with two workers | a monitor is assigned to an agent after the archiving of its target has read whom to bump: the agent's snapshot keeps the monitor under the same revision |

With two workers `MonitorRevisionIdentifies` and `ArchivedTargetIsSilent` fail too: two updates of a
monitor write the same revision, and a monitor is created on a target that is archived meanwhile.
The proofs of AssignmentCoverage name the assumption.

What the models show of the code besides, without a sentence that says otherwise:

* After a crash between the two transactions of `enrol`, every further enrolment into the same
  database is refused with `ErrIdentityMismatch`, since `SaveIdentity` compares the time of enrolment
  too, while `run` keeps asking for the enrol command (`main.go:127`).
* The write-back of a session (`security.py:154`) can undo a logout or a switch of the realm that came
  between its read and its write. Sign-up is not a transaction, so an account can stay without a
  realm. A login challenge is not withdrawn by a reset.
* An ICMP timeout above 60 seconds without a time per packet is normalised to a
  `per_packet_timeout_ms` that the agent and a second submission refuse. `maximum_redirects` 0 lets
  the agent follow five. A `host_header` that is an address is accepted by the server and refused by
  the agent. `AgentIsStricter` names these cases, and `SavedConfigurationRuns` excludes them.
* After a monitor has changed, the dashboard shows the older result until it is overdue.

## Not modelled

* *Moves of groups in their hierarchy* (`domain.py:175-224`): no endpoint calls them. *Target groups*
  and their memberships influence neither configuration nor dashboard. Renames and descriptions,
  paging and endpoints that only list rows change no state a property is about.
* *Two resets of one account at the same time* (`account_lifecycle.py:65-71`); `create_account_token`
  is one step. Accounts are never deactivated and roles other than owner never given by any code.
* *The values probes measure* and their network I/O; the syntax of names, addresses and headers; the
  cryptography of passwords, TOTP and passkeys.
* *Storage errors* other than constraint conflicts, except in the scheduler. Opening and migrating the
  agent's database, and the control plane's migrations other than the constraints of 0007.
* *Audit log* (nothing reads it to decide anything), *e-mail and background tasks* (I/O), *developer
  tools* (text processing outside the running system), *web frontends* (presentation).
