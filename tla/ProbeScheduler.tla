--------------------------- MODULE ProbeScheduler ---------------------------
(***************************************************************************)
(* The agent's probe engine: Scheduler.Reconcile and Scheduler.Tick, the   *)
(* probe goroutines, Scheduler.Run and Engine.Run, the scheduler_state     *)
(* table, and the main loop that reloads the configuration, over crashes,  *)
(* restarts and shutdowns of the process.                                  *)
(*                                                                         *)
(* The goroutines interleave at the granularity the code gives them.  Tick *)
(* holds the scheduler's mutex while it goes through the jobs, one storage *)
(* transaction each; Reconcile takes the mutex only to swap the job map.   *)
(* An instant is a number of ticks.  Instants of two revisions are never   *)
(* equal: a revision's first due time is the nanosecond it was loaded at.  *)
(***************************************************************************)
EXTENDS Integers, FiniteSets, Sequences

CONSTANTS
    Monitors,
    Assigned,         \* revision -> the monitors the configuration assigns
    Jitter,           \* deterministicJitter of a monitor
    Interval,         \* interval of every monitor
    MaxConcurrent,    \* maximumConcurrent: worker slots, and the results buffer
    MaxTime,          \* bound on the clock
    Crashes,          \* whether the process may crash
    Shutdowns,        \* whether it may be asked to stop
    StorageFailures   \* whether a SQLite transaction may fail, for an I/O error or a full queue

ASSUME SchedulerConstants ==
    /\ Assigned \in Seq(SUBSET Monitors) /\ Assigned # <<>>
    /\ Jitter \in [Monitors -> Nat]
    /\ Interval \in Nat \ {0} /\ MaxConcurrent \in Nat \ {0}
    /\ MaxTime \in Nat
    /\ {Crashes, Shutdowns, StorageFailures} \subseteq BOOLEAN

VARIABLES
    now,
    config,       \* revision of the active configuration in SQLite
    stateRev,     \* scheduler_state: agent_config_revision of a row, 0 for no row
    stateDue,     \* scheduler_state.next_due_at
    stateMissed,  \* scheduler_state.missed_run_count
    persisted,    \* executions in pending_observations
    process,      \* "up" or "down"
    load,         \* LoadActiveConfiguration in the main goroutine
    jobs,         \* Scheduler.jobs: monitor -> [rev, due], rev = 0 for no job
    tick,         \* Tick: the jobs it still has to look at, and its time
    running,      \* Scheduler.running
    slots,        \* len(Scheduler.workers)
    probes,       \* the goroutines Scheduler.start created
    results,      \* Scheduler.results
    schedulerRun, \* Scheduler.Run
    engineRun,    \* Engine.Run
    held,         \* the execution Engine.Run is recording
    cancelled,    \* Engine.Run's runContext is done
    shutdown,     \* main's context is done
    executed,     \* history: every execution ever started
    completed,    \* history: executions whose probe returned, less those a crash lost
    first,        \* history: first due time of a scheduler_state row
    bootedAt      \* history: when the current process loaded its configuration

table      == <<stateRev, stateDue, stateMissed>>
goroutines == <<tick, running, slots, probes, results, schedulerRun, engineRun, held, cancelled>>
history    == <<executed, completed, first, bootedAt>>
vars == <<now, config, table, persisted, process, load, jobs, goroutines, shutdown, history>>

Revisions  == 1..Len(Assigned)
Executions == [monitor : Monitors, rev : Revisions, at : Nat]
Phases     == {"probing", "sending", "clearing", "releasing"}
NoJob      == [rev |-> 0, due |-> 0]
NoLoad     == [pc |-> "none", rev |-> 0, at |-> 0, todo |-> {}, due |-> [m \in Monitors |-> 0]]
Nothing    == [monitor |-> "none"]

TypeOK ==
    /\ now \in 0..MaxTime /\ config \in Revisions
    /\ stateRev \in [Monitors -> {0} \cup Revisions]
    /\ stateDue \in [Monitors -> Nat] /\ stateMissed \in [Monitors -> Nat]
    /\ persisted \subseteq Executions
    /\ completed \subseteq executed /\ executed \subseteq Executions
    /\ process \in {"up", "down"}
    /\ load \in [pc : {"none", "activated", "restoring", "swapping"}, rev : {0} \cup Revisions,
                 at : 0..MaxTime, todo : SUBSET Monitors, due : [Monitors -> Nat]]
    /\ jobs \in [Monitors -> [rev : {0} \cup Revisions, due : Nat]]
    /\ tick \in [todo : SUBSET Monitors, at : 0..MaxTime]
    /\ running \in [Monitors -> BOOLEAN]
    /\ slots \in 0..MaxConcurrent
    /\ probes \subseteq [exec : Executions, phase : Phases]
    /\ results \in Seq(Executions) /\ Len(results) <= MaxConcurrent
    /\ schedulerRun \in {"off", "running", "waiting", "returned"}
    /\ engineRun \in {"off", "running", "failed", "draining", "returned"}
    /\ held \in Executions \cup {Nothing}
    /\ {cancelled, shutdown} \subseteq BOOLEAN
    /\ first \in [Monitors -> Nat] /\ bootedAt \in 0..MaxTime

\* The state of a process that has not loaded a configuration yet.
VolatileReset ==
    /\ jobs' = [m \in Monitors |-> NoJob]
    /\ tick' = [todo |-> {}, at |-> 0]
    /\ running' = [m \in Monitors |-> FALSE]
    /\ slots' = 0 /\ probes' = {} /\ results' = <<>>
    /\ schedulerRun' = "off" /\ engineRun' = "off" /\ held' = Nothing
    /\ cancelled' = FALSE /\ shutdown' = FALSE
    /\ load' = NoLoad

Init ==
    /\ now = 0 /\ config = 1
    /\ stateRev = [m \in Monitors |-> 0]
    /\ stateDue = [m \in Monitors |-> 0]
    /\ stateMissed = [m \in Monitors |-> 0]
    /\ persisted = {} /\ executed = {} /\ completed = {} /\ process = "down"
    /\ load = NoLoad /\ jobs = [m \in Monitors |-> NoJob]
    /\ tick = [todo |-> {}, at |-> 0]
    /\ running = [m \in Monitors |-> FALSE]
    /\ slots = 0 /\ probes = {} /\ results = <<>>
    /\ schedulerRun = "off" /\ engineRun = "off" /\ held = Nothing
    /\ cancelled = FALSE /\ shutdown = FALSE
    /\ first = [m \in Monitors |-> 0] /\ bootedAt = 0

ClockTick ==
    /\ now < MaxTime
    /\ now' = now + 1
    /\ UNCHANGED <<config, table, persisted, process, load, jobs, goroutines, shutdown, history>>

-----------------------------------------------------------------------------
(* LoadActiveConfiguration and Reconcile, in the main goroutine.            *)

\* Reconcile computes every candidate's first due time when it is called.
LoadOf(revision) ==
    [pc |-> "restoring", rev |-> revision, at |-> now, todo |-> Assigned[revision],
     due |-> [m \in Monitors |-> now + Jitter[m]]]

\* run: the supervisor starts the agent, which loads its last configuration, or the one
\* the initial synchronization activated.
Boot ==
    /\ process = "down"
    /\ process' = "up" /\ bootedAt' = now
    /\ config' \in config..Len(Assigned) /\ load' = LoadOf(config')
    /\ UNCHANGED <<now, table, persisted, jobs, goroutines, shutdown, executed, completed,
                   first>>

\* SynchronizeConfiguration commits a newer snapshot as the active one.
ActivateConfiguration ==
    /\ process = "up" /\ load.pc = "none" /\ ~shutdown /\ engineRun # "off"
    /\ config < Len(Assigned)
    /\ config' = config + 1
    /\ load' = [NoLoad EXCEPT !.pc = "activated"]
    /\ UNCHANGED <<now, table, persisted, process, jobs, goroutines, shutdown, history>>

\* It was acknowledged: the main loop reloads the scheduler.
BeginReload ==
    /\ load.pc = "activated"
    /\ load' = LoadOf(config)
    /\ UNCHANGED <<now, config, table, persisted, process, jobs, goroutines, shutdown, history>>

\* It was not: the main loop logs the error and does not reload.
SkipReload ==
    /\ load.pc = "activated"
    /\ load' = NoLoad
    /\ UNCHANGED <<now, config, table, persisted, process, jobs, goroutines, shutdown, history>>

\* The first due time after `at` on the grid of `due`.
NextDue(due, at) == IF due > at THEN due ELSE due + Interval * ((at - due) \div Interval + 1)

\* Mutant: the stored instant is taken as it is, however old.
RestoreScheduleReplays(m) ==
    LET kept == stateRev[m] = load.rev
        due  == IF kept THEN stateDue[m] ELSE load.due[m]
    IN
    /\ load.pc = "restoring" /\ m \in load.todo /\ ~shutdown
    /\ stateRev' = [stateRev EXCEPT ![m] = load.rev]
    /\ stateDue' = [stateDue EXCEPT ![m] = due]
    /\ stateMissed' = [stateMissed EXCEPT ![m] = IF kept THEN @ ELSE 0]
    /\ first' = [first EXCEPT ![m] = IF kept THEN @ ELSE due]
    /\ load' = [load EXCEPT !.todo = @ \ {m}, !.due[m] = due]
    /\ UNCHANGED <<now, config, persisted, process, jobs, goroutines, shutdown, executed, completed,
                   bootedAt>>

\* A row of the same revision keeps its grid, and the instants that passed meanwhile
\* are missed; any other row is replaced.
RestoreSchedule(m) ==
    LET kept  == stateRev[m] = load.rev
        due   == IF kept THEN NextDue(stateDue[m], load.at) ELSE load.due[m]
    IN
    /\ load.pc = "restoring" /\ m \in load.todo /\ ~shutdown
    /\ stateRev' = [stateRev EXCEPT ![m] = load.rev]
    /\ stateDue' = [stateDue EXCEPT ![m] = due]
    /\ stateMissed' = [stateMissed EXCEPT
            ![m] = IF kept THEN @ + (due - stateDue[m]) \div Interval ELSE 0]
    /\ first' = [first EXCEPT ![m] = IF kept THEN @ ELSE due]
    /\ load' = [load EXCEPT !.todo = @ \ {m}, !.due[m] = due]
    /\ UNCHANGED <<now, config, persisted, process, jobs, goroutines, shutdown, executed, completed,
                   bootedAt>>

RemoveSchedulesExcept ==
    LET kept(column) == [m \in Monitors |-> IF m \in Assigned[load.rev] THEN column[m] ELSE 0] IN
    /\ load.pc = "restoring" /\ load.todo = {} /\ ~shutdown
    /\ stateRev' = kept(stateRev) /\ stateDue' = kept(stateDue)
    /\ stateMissed' = kept(stateMissed) /\ first' = kept(first)
    /\ load' = [load EXCEPT !.pc = "swapping"]
    /\ UNCHANGED <<now, config, persisted, process, jobs, goroutines, shutdown, executed, completed,
                   bootedAt>>

\* Mutant: the restored due time is not copied into the job.
SwapJobsUnrestored ==
    /\ load.pc = "swapping" /\ tick.todo = {}
    /\ jobs' = [m \in Monitors |-> IF m \in Assigned[load.rev]
                                   THEN [rev |-> load.rev, due |-> load.at + Jitter[m]] ELSE NoJob]
    /\ load' = NoLoad
    /\ IF engineRun = "off" THEN schedulerRun' = "running" /\ engineRun' = "running"
                            ELSE UNCHANGED <<schedulerRun, engineRun>>
    /\ UNCHANGED <<now, config, table, persisted, process, tick, running, slots, probes, results,
                   held, cancelled, shutdown, history>>

\* Reconcile takes the mutex and replaces the job map; Scheduler.running stays.  The
\* first load is followed by the start of Engine.Run and Scheduler.Run.
SwapJobs ==
    /\ load.pc = "swapping" /\ tick.todo = {}
    /\ jobs' = [m \in Monitors |-> IF m \in Assigned[load.rev]
                                   THEN [rev |-> load.rev, due |-> load.due[m]] ELSE NoJob]
    /\ load' = NoLoad
    /\ IF engineRun = "off" THEN schedulerRun' = "running" /\ engineRun' = "running"
                            ELSE UNCHANGED <<schedulerRun, engineRun>>
    /\ UNCHANGED <<now, config, table, persisted, process, tick, running, slots, probes, results,
                   held, cancelled, shutdown, history>>

-----------------------------------------------------------------------------
(* Scheduler.Run and Tick, in a goroutine of their own.                     *)

DueJobs == {m \in Monitors : jobs[m].rev # 0 /\ jobs[m].due <= now}

\* The ticker fires and Tick takes the mutex.
BeginTick ==
    /\ schedulerRun = "running" /\ tick.todo = {} /\ DueJobs # {}
    /\ tick' = [todo |-> DueJobs, at |-> now]
    /\ UNCHANGED <<now, config, table, persisted, process, load, jobs, running, slots, probes,
                   results, schedulerRun, engineRun, held, cancelled, shutdown, history>>

\* Mutant: only one of the two reasons is looked at.
MissCapacityOnly(m) == slots = MaxConcurrent

\* MissOverlap or MissCapacity.
MustMiss(m) == running[m] \/ slots = MaxConcurrent

\* AdvanceSchedule finds the row of the job's revision.
CanAdvance(m) == ~cancelled /\ stateRev[m] = jobs[m].rev

\* Mutant: the due instant itself is counted as missed although it may start.
AdvanceCountsDue(m, missed) ==
    LET due  == jobs[m].due
        next == NextDue(due, tick.at)
    IN
    /\ m \in tick.todo /\ CanAdvance(m)
    /\ stateDue' = [stateDue EXCEPT ![m] = next]
    /\ stateMissed' = [stateMissed EXCEPT ![m] = @ + (next - due) \div Interval + missed]
    /\ jobs' = [jobs EXCEPT ![m].due = next]
    /\ tick' = [tick EXCEPT !.todo = @ \ {m}]
    /\ UNCHANGED <<now, config, stateRev, persisted, process, load, results, schedulerRun, engineRun,
                   held, cancelled, shutdown, completed, first, bootedAt>>

\* Mutant: the row moves on, the job in memory does not.
AdvanceRowOnly(m, missed) ==
    LET due  == jobs[m].due
        next == NextDue(due, tick.at)
    IN
    /\ m \in tick.todo /\ CanAdvance(m)
    /\ stateDue' = [stateDue EXCEPT ![m] = next]
    /\ stateMissed' = [stateMissed EXCEPT ![m] = @ + (next - due) \div Interval - 1 + missed]
    /\ tick' = [tick EXCEPT !.todo = @ \ {m}]
    /\ UNCHANGED jobs
    /\ UNCHANGED <<now, config, stateRev, persisted, process, load, results, schedulerRun, engineRun,
                   held, cancelled, shutdown, completed, first, bootedAt>>

\* The transaction of AdvanceSchedule, then the job's own due time.
Advance(m, missed) ==
    LET due  == jobs[m].due
        next == NextDue(due, tick.at)
    IN
    /\ m \in tick.todo /\ CanAdvance(m)
    /\ stateDue' = [stateDue EXCEPT ![m] = next]
    /\ stateMissed' = [stateMissed EXCEPT ![m] = @ + (next - due) \div Interval - 1 + missed]
    /\ jobs' = [jobs EXCEPT ![m].due = next]
    /\ tick' = [tick EXCEPT !.todo = @ \ {m}]
    /\ UNCHANGED <<now, config, stateRev, persisted, process, load, results, schedulerRun, engineRun,
                   held, cancelled, shutdown, completed, first, bootedAt>>

TickMisses(m) ==
    /\ MustMiss(m) /\ Advance(m, 1)
    /\ UNCHANGED <<running, slots, probes, executed>>

TickStarts(m) ==
    LET execution == [monitor |-> m, rev |-> jobs[m].rev, at |-> jobs[m].due] IN
    /\ ~MustMiss(m) /\ Advance(m, 0)
    /\ slots' = slots + 1
    /\ running' = [running EXCEPT ![m] = TRUE]
    /\ probes' = probes \cup {[exec |-> execution, phase |-> "probing"]}
    /\ executed' = executed \cup {execution}

\* AdvanceSchedule fails: Tick and Run return, and Run waits for the goroutines.
TickFails(m) ==
    /\ m \in tick.todo /\ (StorageFailures \/ ~CanAdvance(m))
    /\ tick' = [tick EXCEPT !.todo = {}]
    /\ schedulerRun' = "waiting"
    /\ UNCHANGED <<now, config, table, persisted, process, load, jobs, running, slots, probes,
                   results, engineRun, held, cancelled, shutdown, history>>

\* Run sees its context done between two ticks.
StopTicking ==
    /\ schedulerRun = "running" /\ cancelled /\ tick.todo = {}
    /\ schedulerRun' = "waiting"
    /\ UNCHANGED <<now, config, table, persisted, process, load, jobs, tick, running, slots, probes,
                   results, engineRun, held, cancelled, shutdown, history>>

SchedulerReturns ==
    /\ schedulerRun = "waiting" /\ probes = {}
    /\ schedulerRun' = "returned"
    /\ UNCHANGED <<now, config, table, persisted, process, load, jobs, tick, running, slots, probes,
                   results, engineRun, held, cancelled, shutdown, history>>

-----------------------------------------------------------------------------
(* The goroutine of Scheduler.start.                                        *)

Moves(probe, phase) ==
    /\ probe \in probes
    /\ probes' = (probes \ {probe}) \cup {[probe EXCEPT !.phase = phase]}

\* The probe returns: it finished, timed out, was cancelled or panicked.
ProbeReturns(probe) ==
    /\ probe.phase = "probing" /\ Moves(probe, "sending")
    /\ completed' = completed \cup {probe.exec}
    /\ UNCHANGED <<now, config, table, persisted, process, load, jobs, tick, running, slots, results,
                   schedulerRun, engineRun, held, cancelled, shutdown, executed, first, bootedAt>>

\* The send blocks while the buffer is full.
SendResult(probe) ==
    /\ probe.phase = "sending" /\ Len(results) < MaxConcurrent
    /\ Moves(probe, "clearing")
    /\ results' = Append(results, probe.exec)
    /\ UNCHANGED <<now, config, table, persisted, process, load, jobs, tick, running, slots,
                   schedulerRun, engineRun, held, cancelled, shutdown, history>>

\* running = false, under the mutex.
ClearRunning(probe) ==
    /\ probe.phase = "clearing" /\ tick.todo = {}
    /\ Moves(probe, "releasing")
    /\ running' = [running EXCEPT ![probe.exec.monitor] = FALSE]
    /\ UNCHANGED <<now, config, table, persisted, process, load, jobs, tick, slots, results,
                   schedulerRun, engineRun, held, cancelled, shutdown, history>>

\* Mutant: the slot is not given back.
ReleaseSlotLeaks(probe) ==
    /\ probe \in probes /\ probe.phase = "releasing"
    /\ probes' = probes \ {probe}
    /\ UNCHANGED <<now, config, table, persisted, process, load, jobs, tick, running, slots, results,
                   schedulerRun, engineRun, held, cancelled, shutdown, history>>

\* The deferred receive from workers, and wait.Done.
ReleaseSlot(probe) ==
    /\ probe \in probes /\ probe.phase = "releasing"
    /\ probes' = probes \ {probe}
    /\ slots' = slots - 1
    /\ UNCHANGED <<now, config, table, persisted, process, load, jobs, tick, running, results,
                   schedulerRun, engineRun, held, cancelled, shutdown, history>>

-----------------------------------------------------------------------------
(* Engine.Run.                                                              *)

engineFrame == <<now, config, table, process, load, jobs, tick, running, slots, probes,
                 schedulerRun, shutdown, executed, completed, first, bootedAt>>

ReceiveResult ==
    /\ engineRun \in {"running", "draining"} /\ held = Nothing /\ results # <<>>
    /\ held' = Head(results) /\ results' = Tail(results)
    /\ UNCHANGED <<engineFrame, persisted, engineRun, cancelled>>

\* While it runs, RecordExecution uses runContext; while it drains, a context that is
\* never cancelled.
RecordExecution ==
    /\ held # Nothing
    /\ engineRun = "running" => ~cancelled
    /\ persisted' = persisted \cup {held}
    /\ held' = Nothing
    /\ UNCHANGED <<engineFrame, results, engineRun, cancelled>>

\* A failure while it runs cancels runContext and waits for Scheduler.Run, receiving
\* nothing any more; a failure while it drains ends Engine.Run.
RecordFails ==
    /\ held # Nothing
    /\ StorageFailures \/ (engineRun = "running" /\ cancelled)
    /\ held' = Nothing
    /\ IF engineRun = "running" THEN engineRun' = "failed" /\ cancelled' = TRUE
                                ELSE engineRun' = "returned" /\ UNCHANGED cancelled
    /\ UNCHANGED <<engineFrame, persisted, results>>

\* Mutant: the results still in the buffer are not drained.
EngineSkipsDrain ==
    /\ schedulerRun = "returned" /\ held = Nothing
    /\ engineRun \in {"failed", "running"} /\ engineRun' = "returned"
    /\ UNCHANGED <<engineFrame, persisted, results, held, cancelled>>

\* The receive from schedulerErrors.
EngineSeesScheduler ==
    /\ schedulerRun = "returned" /\ held = Nothing
    /\ \/ engineRun = "failed" /\ engineRun' = "returned"
       \/ engineRun = "running" /\ engineRun' = "draining"
    /\ UNCHANGED <<engineFrame, persisted, results, held, cancelled>>

DrainEnds ==
    /\ engineRun = "draining" /\ results = <<>> /\ held = Nothing
    /\ engineRun' = "returned"
    /\ UNCHANGED <<engineFrame, persisted, results, held, cancelled>>

-----------------------------------------------------------------------------
(* The process.                                                             *)

\* SIGTERM: main's context is done, and with it every context derived from it.
Shutdown ==
    /\ Shutdowns /\ process = "up" /\ ~shutdown
    /\ shutdown' = TRUE /\ cancelled' = TRUE
    /\ UNCHANGED <<now, config, table, persisted, process, load, jobs, tick, running, slots, probes,
                   results, schedulerRun, engineRun, held, executed, completed, first, bootedAt>>

ProcessEnds ==
    /\ process' = "down" /\ VolatileReset
    /\ UNCHANGED <<now, config, table, persisted, executed, first, bootedAt>>

\* run receives the engine's result, or waits for it after the shutdown.
MainReturns ==
    /\ process = "up" /\ load.pc = "none" /\ engineRun = "returned"
    /\ ProcessEnds
    /\ UNCHANGED completed

\* A query of LoadActiveConfiguration fails, by itself or with the context: run returns
\* at once.
LoadFails ==
    /\ load.pc = "restoring" /\ (StorageFailures \/ shutdown)
    /\ ProcessEnds
    /\ UNCHANGED completed

Crash ==
    /\ Crashes /\ process = "up"
    /\ ProcessEnds
    /\ completed' = completed \cap persisted

Next ==
    \/ ClockTick
    \/ Boot
    \/ ActivateConfiguration
    \/ BeginReload
    \/ SkipReload
    \/ \E m \in Monitors : RestoreSchedule(m)
    \/ RemoveSchedulesExcept
    \/ SwapJobs
    \/ BeginTick
    \/ \E m \in Monitors : TickMisses(m)
    \/ \E m \in Monitors : TickStarts(m)
    \/ \E m \in Monitors : TickFails(m)
    \/ StopTicking
    \/ SchedulerReturns
    \/ \E probe \in probes : ProbeReturns(probe)
    \/ \E probe \in probes : SendResult(probe)
    \/ \E probe \in probes : ClearRunning(probe)
    \/ \E probe \in probes : ReleaseSlot(probe)
    \/ ReceiveResult
    \/ RecordExecution
    \/ RecordFails
    \/ EngineSeesScheduler
    \/ DrainEnds
    \/ Shutdown
    \/ MainReturns
    \/ LoadFails
    \/ Crash

Spec == Init /\ [][Next]_vars

-----------------------------------------------------------------------------
(* Fairness: every goroutine that can go on does; the supervisor boots the  *)
(* agent; probes end, because each runs under a timeout.  Time, crashes,    *)
(* new configurations and shutdowns need not happen.                        *)

Fairness ==
    /\ WF_vars(Boot)
    /\ WF_vars(BeginReload \/ SkipReload)
    /\ WF_vars((\E m \in Monitors : RestoreSchedule(m)) \/ RemoveSchedulesExcept \/ LoadFails)
    /\ SF_vars(SwapJobs)
    /\ WF_vars(BeginTick \/ StopTicking \/ SchedulerReturns)
    /\ WF_vars(\E m \in Monitors : TickMisses(m) \/ TickStarts(m) \/ TickFails(m))
    /\ WF_vars(\E probe \in probes : ProbeReturns(probe) \/ SendResult(probe) \/ ReleaseSlot(probe))
    /\ SF_vars(\E probe \in probes : ClearRunning(probe))
    /\ WF_vars(ReceiveResult)
    /\ WF_vars(RecordExecution \/ RecordFails)
    /\ WF_vars(EngineSeesScheduler \/ DrainEnds)
    /\ WF_vars(MainReturns)

FairSpec == Spec /\ Fairness

-----------------------------------------------------------------------------
(* Safety *)

\* "One assignment does not overlap its previous execution", also when the
\* configuration is reloaded, or the monitor removed and assigned again, while the
\* execution runs (Tick's check of running, which Reconcile leaves alone).
NoOverlap ==
    \A p, q \in probes :
        /\ p.exec.monitor = q.exec.monitor
        /\ {p.phase, q.phase} \subseteq {"probing", "sending"}
        => p = q

\* The worker pool neither leaks nor over-commits: every occupied slot belongs to a
\* live goroutine (Tick fills a slot under the mutex, the goroutine's deferred
\* receive frees it).
SlotsMatchGoroutines == slots = Cardinality(probes) /\ slots <= MaxConcurrent

\* Every instant of a monitor's grid up to next_due_at was either started once or
\* counted in missed_run_count, across late ticks, overlaps, a full pool, crashes,
\* restarts and reloads (Tick, RestoreSchedule and AdvanceSchedule together).
InstantsAccountedFor ==
    \A m \in Monitors : stateRev[m] # 0 =>
        LET started == {e \in executed : e.monitor = m /\ e.rev = stateRev[m]} IN
        stateDue[m] = first[m] + Interval * (stateMissed[m] + Cardinality(started))

\* Outside Reconcile the jobs in memory and the durable schedule agree, so that
\* AdvanceSchedule can fail only while a reload is under way or the engine stops.
JobsMatchState ==
    process = "up" /\ load.pc \in {"none", "activated"} =>
        \A m \in Monitors : jobs[m].rev # 0 =>
            stateRev[m] = jobs[m].rev /\ stateDue[m] = jobs[m].due

\* "Restarts do not replay every schedule instant that elapsed while the process was
\* stopped": nothing runs for an instant before the process loaded its configuration.
NoReplayAfterRestart == \A p \in probes : p.exec.at >= bootedAt

\* "On graceful shutdown the agent ... persists any complete results"
\* (docs/architecture/agent-storage.md): when Engine.Run has returned, every
\* execution whose probe returned is in the queue.  The code does not have this property
\* under Shutdowns: RecordFails drops the result that is held.
CompleteResultsPersisted == engineRun = "returned" => completed \subseteq persisted

\* No execution is started twice, whatever is lost in a crash: the durable schedule
\* moves on before the probe starts (AdvanceSchedule before start).
NeverStartedTwice ==
    [][\A p \in probes' : p.phase = "probing" /\ p \notin probes => p.exec \notin executed]_vars

-----------------------------------------------------------------------------
(* Liveness *)

\* Without crashes, shutdowns and failed writes, every started execution is recorded,
\* also when a reload makes AdvanceSchedule fail and the engine drains: again and again
\* there is a moment when nothing started is unrecorded.
ExecutionsArePersisted == []<>(executed \subseteq persisted)

\* "On graceful shutdown the agent ... closes the database"
\* (docs/architecture/agent-storage.md): an agent asked to stop comes to its end.
\* The code does not have this property: after RecordFails nothing receives results, and
\* a worker may wait for a place in the buffer for ever.
ShutdownCompletes == shutdown ~> process = "down"
=============================================================================
