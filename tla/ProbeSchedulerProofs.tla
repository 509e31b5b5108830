------------------------ MODULE ProbeSchedulerProofs ------------------------
(***************************************************************************)
(* Proofs about the engine for every set of monitors, every sequence of    *)
(* configurations, every interval, jitter and size of the worker pool, and *)
(* with every kind of fault.                                               *)
(*                                                                         *)
(* NoOverlap is not inductive: a goroutine that has sent its result still  *)
(* has to clear the monitor's running flag, and would clear the flag of a  *)
(* later execution.  OverlapInv extends it to that phase and ties it to    *)
(* the flag Tick looks at.                                                 *)
(*                                                                         *)
(* The other invariants rest on SchedulerInv.  Counting instants needs to  *)
(* know that what Tick starts is new, hence that a row's next instant is   *)
(* later than all that ran under its revision (HistoryInv), that Tick and  *)
(* the row mean the same instant (JobInv), and that a revision which was   *)
(* replaced never comes back, although Reconcile writes its rows while     *)
(* Tick still goes through the old jobs (LoadInv).                         *)
(***************************************************************************)
EXTENDS ProbeScheduler, FiniteSetTheorems, TLAPS

BusyPhases == {"probing", "sending", "clearing"}

\* Every goroutine that has not cleared the flag holds it, and holds it alone.
OverlapInv ==
    /\ running \in [Monitors -> BOOLEAN]
    /\ \A p \in probes : p = [exec |-> p.exec, phase |-> p.phase] /\ p.exec.monitor \in Monitors
    /\ \A p \in probes : p.phase \in BusyPhases => running[p.exec.monitor] = TRUE
    /\ \A p, q \in probes :
          /\ p.phase \in BusyPhases /\ q.phase \in BusyPhases
          /\ p.exec.monitor = q.exec.monitor
          => p = q

\* Tick starts a monitor only if its flag is down.
LEMMA StartKeepsOverlapInv ==
    ASSUME OverlapInv, NEW m \in Monitors, TickStarts(m)
    PROVE  OverlapInv'
<1> DEFINE new == [exec |-> [monitor |-> m, rev |-> jobs[m].rev, at |-> jobs[m].due],
                   phase |-> "probing"]
<1>1. probes' = probes \cup {new} /\ running' = [running EXCEPT ![m] = TRUE]
  BY DEF TickStarts
<1>2. running[m] = FALSE
  BY DEF TickStarts, MustMiss, OverlapInv
<1>3. \A p \in probes : p.phase \in BusyPhases => p.exec.monitor # m
  BY <1>2 DEF OverlapInv
<1>4. new.exec.monitor = m /\ new = [exec |-> new.exec, phase |-> new.phase]
  OBVIOUS
<1> HIDE DEF new
<1> QED  BY <1>1, <1>3, <1>4 DEF OverlapInv

\* A goroutine that goes on from one phase to another without touching the flag.
LEMMA MoveKeepsOverlapInv ==
    ASSUME OverlapInv, NEW probe \in probes, NEW phase, Moves(probe, phase),
           probe.phase \in BusyPhases, phase \in BusyPhases, UNCHANGED running
    PROVE  OverlapInv'
<1> DEFINE moved == [probe EXCEPT !.phase = phase]
<1>1. probes' = (probes \ {probe}) \cup {moved}
  BY DEF Moves
<1>2. /\ moved.exec = probe.exec /\ moved.phase = phase
      /\ moved = [exec |-> moved.exec, phase |-> moved.phase]
  BY DEF OverlapInv
<1> HIDE DEF moved
<1> QED  BY <1>1, <1>2 DEF OverlapInv

\* The goroutine that clears the flag was the only one to hold it.
LEMMA ClearKeepsOverlapInv ==
    ASSUME OverlapInv, NEW probe \in probes, ClearRunning(probe)
    PROVE  OverlapInv'
<1> DEFINE moved == [probe EXCEPT !.phase = "releasing"]
<1>1. /\ probes' = (probes \ {probe}) \cup {moved}
      /\ running' = [running EXCEPT ![probe.exec.monitor] = FALSE]
      /\ probe.phase \in BusyPhases
  BY DEF ClearRunning, Moves, BusyPhases
<1>2. /\ moved.exec = probe.exec /\ moved.phase \notin BusyPhases
      /\ moved = [exec |-> moved.exec, phase |-> moved.phase]
  BY DEF OverlapInv, BusyPhases
<1> HIDE DEF moved
<1>3. \A p \in probes \ {probe} : p.phase \in BusyPhases => p.exec.monitor # probe.exec.monitor
  BY <1>1 DEF OverlapInv
<1> QED  BY <1>1, <1>2, <1>3 DEF OverlapInv

\* Every step preserves the invariant.
LEMMA NextOverlapInv == OverlapInv /\ [Next]_vars => OverlapInv'
<1> SUFFICES ASSUME OverlapInv, [Next]_vars PROVE OverlapInv'
  OBVIOUS
<1>1. ASSUME UNCHANGED <<running, probes>> PROVE OverlapInv'
  BY <1>1 DEF OverlapInv
<1>2. ASSUME ClockTick \/ Boot \/ ActivateConfiguration \/ BeginReload \/ SkipReload
             \/ RemoveSchedulesExcept \/ SwapJobs \/ BeginTick
      PROVE  UNCHANGED <<running, probes>>
  BY <1>2 DEF ClockTick, Boot, ActivateConfiguration, BeginReload, SkipReload,
              RemoveSchedulesExcept, SwapJobs, BeginTick, goroutines
<1>3. ASSUME NEW m \in Monitors, RestoreSchedule(m) \/ TickMisses(m) \/ TickFails(m)
      PROVE  UNCHANGED <<running, probes>>
  BY <1>3 DEF RestoreSchedule, TickMisses, TickFails, goroutines
<1>4. ASSUME StopTicking \/ SchedulerReturns \/ ReceiveResult \/ RecordExecution \/ RecordFails
             \/ EngineSeesScheduler \/ DrainEnds \/ Shutdown \/ UNCHANGED vars
      PROVE  UNCHANGED <<running, probes>>
  BY <1>4 DEF StopTicking, SchedulerReturns, ReceiveResult, RecordExecution, RecordFails,
              EngineSeesScheduler, DrainEnds, Shutdown, engineFrame, vars, goroutines
<1>5. CASE MainReturns \/ LoadFails \/ Crash
  BY <1>5, Zenon DEF MainReturns, LoadFails, Crash, ProcessEnds, VolatileReset, OverlapInv
<1>6. ASSUME NEW probe \in probes, ProbeReturns(probe) PROVE OverlapInv'
  BY <1>6, MoveKeepsOverlapInv DEF ProbeReturns, BusyPhases
<1>7. ASSUME NEW probe \in probes, SendResult(probe) PROVE OverlapInv'
  BY <1>7, MoveKeepsOverlapInv DEF SendResult, BusyPhases
<1>8. ASSUME NEW probe \in probes, ReleaseSlot(probe) PROVE OverlapInv'
  BY <1>8 DEF ReleaseSlot, OverlapInv
<1> QED
  BY <1>1, <1>2, <1>3, <1>4, <1>5, <1>6, <1>7, <1>8, StartKeepsOverlapInv, ClearKeepsOverlapInv
  DEF Next

\* The executions of a monitor never overlap, also across reloads that drop the monitor
\* or assign it again, misses, failures and restarts.
THEOREM ExecutionsDoNotOverlap == Spec => []NoOverlap
<1>1. Init => OverlapInv
  BY DEF Init, OverlapInv
<1>2. OverlapInv => NoOverlap
  BY DEF OverlapInv, NoOverlap, BusyPhases
<1> QED  BY <1>1, <1>2, NextOverlapInv, PTL DEF Spec

-----------------------------------------------------------------------------
(* The schedule and the worker pool.                                        *)

\* A number of whole intervals, divided by the interval.
LEMMA DivMultiple ==
    ASSUME NEW n \in Nat \ {0}, NEW k \in Nat
    PROVE  (n * k) \div n = k
<1> DEFINE q == (n * k) \div n
<1>1. n * k \in Nat
  OBVIOUS
<1>2. q \in Int /\ n * q <= n * k /\ n * k < n * q + n
  BY <1>1
<1> QED BY <1>2

\* An account of a instants that moves on by k.
LEMMA AccountMovesOn ==
    ASSUME NEW i \in Nat, NEW from \in Nat, NEW a \in Nat, NEW k \in Nat, NEW due \in Nat,
           due = from + i * a
    PROVE  due + i * k = from + i * (a + k)
<1>1. i * (a + k) = i * a + i * k
  OBVIOUS
<1>2. i * a \in Nat /\ i * k \in Nat
  OBVIOUS
<1> QED BY <1>1, <1>2

\* The same when the k instants are k - 1 missed ones and one that was missed or started.
LEMMA AccountAdvances ==
    ASSUME NEW i \in Nat, NEW from \in Nat, NEW s \in Nat, NEW c \in Nat, NEW k \in Nat,
           NEW missed \in {0, 1}, NEW due \in Nat, due = from + i * (s + c)
    PROVE  due + i * k = from + i * ((s + k - 1 + missed) + (c + 1 - missed))
<1>1. (s + k - 1 + missed) + (c + 1 - missed) = (s + c) + k /\ s + c \in Nat
  OBVIOUS
<1>2. due + i * k = from + i * ((s + c) + k)
  BY <1>1, AccountMovesOn
<1> QED BY <1>1, <1>2, Zenon

\* One more when the due instant was started.
LEMMA OneMore == \A c \in Nat : c + 1 - 1 = c /\ c + 1 - 0 = c + 1
  OBVIOUS

\* What NextDue returns: the first instant after `at` a whole number of intervals on, and
\* that number is what AdvanceSchedule and RestoreSchedule count with.
LEMMA NextDueFacts ==
    ASSUME NEW due \in Nat, NEW at \in Nat
    PROVE  \E k \in Nat :
             /\ NextDue(due, at) = due + Interval * k
             /\ (NextDue(due, at) - due) \div Interval = k
             /\ due <= at => k >= 1
             /\ NextDue(due, at) \in Nat /\ NextDue(due, at) > at /\ NextDue(due, at) >= due
             /\ due <= at => NextDue(due, at) > due
<1>1. Interval \in Nat \ {0}
  BY SchedulerConstants
<1>2. CASE due > at
  <2>1. NextDue(due, at) = due + Interval * 0 /\ 0 \div Interval = 0
    BY <1>1, <1>2 DEF NextDue
  <2> WITNESS 0 \in Nat
  <2> QED BY <1>1, <1>2, <2>1
<1>3. CASE due <= at
  <2> DEFINE q == (at - due) \div Interval
             k == q + 1
  <2>1. q \in Nat /\ at - due < Interval * q + Interval
    BY <1>1, <1>3
  <2>2. NextDue(due, at) = due + Interval * k
    BY <1>3 DEF NextDue
  <2>3. k \in Nat /\ k >= 1
    BY <2>1
  <2> HIDE DEF k
  <2>4. Interval * k \in Nat /\ Interval * k > 0
    BY <1>1, <2>3
  <2>5. NextDue(due, at) - due = Interval * k
    BY <2>2, <2>4
  <2>6. (NextDue(due, at) - due) \div Interval = k
    BY <1>1, <2>3, <2>5, DivMultiple
  <2>7. Interval * k = Interval * q + Interval
    BY <1>1, <2>1 DEF k
  <2>8. due + Interval * k > at
    BY <1>1, <1>3, <2>1, <2>4, <2>7
  <2> QED BY <2>2, <2>3, <2>4, <2>6, <2>8
<1> QED BY <1>2, <1>3

\* The main goroutine is between the call of Reconcile and its swap of the jobs.
Loading == load.pc \in {"restoring", "swapping"}

\* The types the arithmetic on revisions and instants needs.
ScheduleTypes ==
    /\ now \in Nat /\ config \in Revisions /\ bootedAt \in Nat /\ bootedAt <= now
    /\ process \in {"up", "down"}
    /\ stateRev \in [Monitors -> Nat] /\ stateDue \in [Monitors -> Nat]
    /\ stateMissed \in [Monitors -> Nat] /\ first \in [Monitors -> Nat]
    /\ load \in [pc : {"none", "activated", "restoring", "swapping"}, rev : Nat, at : Nat,
                 todo : SUBSET Monitors, due : [Monitors -> Nat]]
    /\ jobs \in [Monitors -> [rev : Nat, due : Nat]]
    /\ tick \in [todo : SUBSET Monitors, at : Nat]

\* A load is of the active revision, which is newer than every job; the rows it has
\* restored hold the due times it is going to swap in.
LoadInv ==
    /\ load.pc # "none" => \A m \in Monitors : jobs[m].rev < config
    /\ load.pc = "swapping" => load.todo = {}
    /\ Loading =>
         /\ load.rev = config /\ bootedAt <= load.at
         /\ load.todo \subseteq Assigned[config]
         /\ \A m \in Monitors : load.due[m] >= load.at
         /\ \A m \in Assigned[config] \ load.todo :
                stateRev[m] = config /\ stateDue[m] = load.due[m]

\* A job and its row agree, unless a load has already replaced the row.
JobInv ==
    /\ \A m \in tick.todo : jobs[m].rev # 0 /\ jobs[m].due <= tick.at
    /\ \A m \in Monitors : jobs[m].rev # 0 =>
         /\ jobs[m].rev <= config /\ m \in Assigned[jobs[m].rev] /\ jobs[m].due >= bootedAt
         /\ stateRev[m] = jobs[m].rev => stateDue[m] = jobs[m].due
         /\ stateRev[m] # jobs[m].rev => Loading

\* An execution belongs to the revision of the present row, and to an earlier instant
\* of it, or to a revision that no row will have again.
HistoryInv ==
    /\ IsFiniteSet(executed)
    /\ \A m \in Monitors : stateRev[m] <= config
    /\ \A e \in executed :
         /\ e.monitor \in Monitors /\ e.rev \in 1..config /\ e.at \in Nat
         /\ e.monitor \in Assigned[e.rev]
         /\ e.rev = stateRev[e.monitor] => e.at < stateDue[e.monitor]
         /\ e.rev # stateRev[e.monitor] => e.rev < config

\* A process that is down has nothing in memory.
DownInv ==
    process = "down" =>
        /\ load.pc = "none" /\ tick.todo = {} /\ probes = {} /\ slots = 0
        /\ \A m \in Monitors : jobs[m].rev = 0

\* The durable schedule, the jobs in memory, a load under way and the executions agree.
ScheduleInv == ScheduleTypes /\ LoadInv /\ JobInv /\ HistoryInv /\ DownInv /\ InstantsAccountedFor

\* Every goroutine runs an execution of its own, of this process, in a slot of its own.
PoolInv ==
    /\ IsFiniteSet(probes) /\ SlotsMatchGoroutines
    /\ \A p \in probes :
         /\ p = [exec |-> p.exec, phase |-> p.phase]
         /\ p.exec \in executed /\ p.exec.at >= bootedAt
    /\ \A p, q \in probes : p.exec = q.exec => p = q

-----------------------------------------------------------------------------

\* What Reconcile is given: every monitor of a configuration is known.
LEMMA AssignedMonitors ==
    ASSUME NEW r \in Revisions
    PROVE  Assigned[r] \in SUBSET Monitors /\ r \in Nat /\ r >= 1
<1>1. Len(Assigned) \in Nat
  BY SchedulerConstants
<1> QED BY <1>1, SchedulerConstants DEF Revisions

\* A fresh installation: no rows, no process.
LEMMA InitSchedule == Init => ScheduleInv /\ PoolInv
<1> SUFFICES ASSUME Init PROVE ScheduleInv /\ PoolInv
  OBVIOUS
<1>1. ScheduleTypes
  BY SchedulerConstants, SMTT(20) DEF Init, ScheduleTypes, Revisions, NoLoad, NoJob
<1>2. LoadInv /\ JobInv /\ DownInv
  BY DEF Init, LoadInv, JobInv, DownInv, Loading, NoLoad, NoJob
<1>3. HistoryInv
  BY SchedulerConstants, FS_EmptySet DEF Init, HistoryInv, Revisions
<1>4. InstantsAccountedFor
  BY DEF Init, InstantsAccountedFor
<1>5. PoolInv
  BY SchedulerConstants, FS_EmptySet DEF Init, PoolInv, SlotsMatchGoroutines
<1> QED BY <1>1, <1>2, <1>3, <1>4, <1>5 DEF ScheduleInv

\* Steps of the goroutines that touch neither the schedule nor the jobs.
scheduleVars == <<now, config, table, process, load, jobs, tick, executed, first, bootedAt>>

\* Steps of the goroutines that touch neither the schedule nor the jobs.
LEMMA OtherSteps ==
    ASSUME ScheduleInv, UNCHANGED scheduleVars, process = "down" => UNCHANGED <<probes, slots>>
    PROVE  ScheduleInv'
  BY SMTT(20) DEF ScheduleInv, scheduleVars, table, ScheduleTypes, LoadInv, JobInv, HistoryInv, DownInv,
         InstantsAccountedFor, Loading

\* Time passes.
LEMMA ClockKeepsSchedule == ASSUME ScheduleInv, ClockTick PROVE ScheduleInv'
<1>1. UNCHANGED <<config, table, process, load, jobs, tick, executed, first, bootedAt, probes, slots>>
      /\ now' = now + 1
  BY DEF ClockTick, goroutines, history
<1> QED
  BY <1>1, SMTT(20) DEF ScheduleInv, table, ScheduleTypes, LoadInv, JobInv, HistoryInv, DownInv,
         InstantsAccountedFor, Loading

\* The parts of a load that LoadOf describes.
LEMMA LoadOfParts ==
    ASSUME ScheduleTypes, NEW r \in Revisions
    PROVE  /\ LoadOf(r) \in [pc : {"none", "activated", "restoring", "swapping"}, rev : Nat, at : Nat,
                             todo : SUBSET Monitors, due : [Monitors -> Nat]]
           /\ LoadOf(r).pc = "restoring" /\ LoadOf(r).rev = r /\ LoadOf(r).at = now
           /\ LoadOf(r).todo = Assigned[r]
           /\ \A m \in Monitors : LoadOf(r).due[m] = now + Jitter[m] /\ LoadOf(r).due[m] >= now
<1>1. Assigned[r] \in SUBSET Monitors /\ r \in Nat
  BY AssignedMonitors
<1>2. now \in Nat /\ \A m \in Monitors : Jitter[m] \in Nat
  BY SchedulerConstants DEF ScheduleTypes
<1> QED BY <1>1, <1>2, SMTT(20) DEF LoadOf

\* Boot and BeginReload: a load of the active revision begins while every job is older.
LEMMA LoadBegins ==
    ASSUME ScheduleInv, config' \in Revisions, load' = LoadOf(config'), config <= config',
           \A m \in Monitors : jobs[m].rev < config',
           bootedAt' \in {bootedAt, now}, bootedAt' <= now,
           bootedAt' # bootedAt => \A m \in Monitors : jobs[m].rev = 0,
           process' = "up",
           UNCHANGED <<now, table, jobs, tick, executed, first>>
    PROVE  ScheduleInv'
<1> USE DEF ScheduleInv, table
<1>0. config \in Nat /\ config' \in Nat /\ config' >= 1
  BY AssignedMonitors DEF ScheduleTypes
<1>1. ScheduleTypes'
  BY LoadOfParts, SMTT(20) DEF ScheduleTypes
<1>2. LoadInv'
  BY LoadOfParts, SMTT(20) DEF LoadInv, Loading
<1>3. JobInv'
  BY <1>0, LoadOfParts, SMTT(20) DEF JobInv, Loading, ScheduleTypes
<1>4. HistoryInv'
  BY <1>0, SMTT(20) DEF HistoryInv, ScheduleTypes
<1>5. DownInv' /\ InstantsAccountedFor'
  BY Zenon DEF DownInv, InstantsAccountedFor
<1> QED BY <1>1, <1>2, <1>3, <1>4, <1>5

\* A process that was down has no jobs, so its load is newer than all of them.
LEMMA BootKeepsSchedule == ASSUME ScheduleInv, Boot PROVE ScheduleInv'
<1>1. /\ process = "down" /\ process' = "up" /\ bootedAt' = now
      /\ config' \in config..Len(Assigned) /\ load' = LoadOf(config')
      /\ UNCHANGED <<now, table, jobs, tick, executed, first>>
  BY DEF Boot, goroutines
<1>2. config' \in Revisions /\ config <= config' /\ config' >= 1
  BY <1>1, AssignedMonitors DEF ScheduleInv, ScheduleTypes, Revisions
<1>3. \A m \in Monitors : jobs[m].rev = 0
  BY <1>1 DEF ScheduleInv, DownInv
<1>4. \A m \in Monitors : jobs[m].rev < config'
  BY <1>2, <1>3, AssignedMonitors
<1>5. now \in Nat
  BY DEF ScheduleInv, ScheduleTypes
<1> QED BY <1>1, <1>2, <1>3, <1>4, <1>5, LoadBegins, SMTT(20)

\* A reload begins with a revision newer than every job.
LEMMA ReloadKeepsSchedule == ASSUME ScheduleInv, BeginReload PROVE ScheduleInv'
<1>1. /\ load.pc = "activated" /\ load' = LoadOf(config')
      /\ UNCHANGED <<now, config, table, process, jobs, tick, executed, first, bootedAt>>
  BY DEF BeginReload, goroutines, history, LoadOf
<1>2. process = "up" /\ bootedAt <= now /\ config \in Revisions /\ config <= config'
  BY <1>1, AssignedMonitors DEF ScheduleInv, DownInv, ScheduleTypes
<1>3. \A m \in Monitors : jobs[m].rev < config
  BY <1>1 DEF ScheduleInv, LoadInv
<1> QED BY <1>1, <1>2, <1>3, LoadBegins

\* A new active revision is newer than every job, row and execution.
LEMMA ActivateKeepsSchedule == ASSUME ScheduleInv, ActivateConfiguration PROVE ScheduleInv'
<1> USE DEF ScheduleInv, table
<1>1. /\ process = "up" /\ load.pc = "none" /\ config < Len(Assigned) /\ config' = config + 1
      /\ load' = [NoLoad EXCEPT !.pc = "activated"]
      /\ UNCHANGED <<now, table, process, jobs, tick, executed, first, bootedAt>>
  BY DEF ActivateConfiguration, goroutines, history
<1>2. config \in Nat /\ config' \in Revisions
  BY <1>1, AssignedMonitors, SchedulerConstants DEF ScheduleTypes, Revisions
<1>3. /\ load'.pc = "activated"
      /\ load' \in [pc : {"none", "activated", "restoring", "swapping"}, rev : Nat, at : Nat,
                    todo : SUBSET Monitors, due : [Monitors -> Nat]]
  BY <1>1 DEF NoLoad
<1>4. ScheduleTypes'
  BY <1>1, <1>2, <1>3, Zenon DEF ScheduleTypes
<1>5. LoadInv'
  <2>1. ASSUME NEW m \in Monitors PROVE jobs'[m].rev < config'
    <3>1. jobs[m].rev \in Nat /\ (jobs[m].rev # 0 => jobs[m].rev <= config)
      BY DEF ScheduleTypes, JobInv
    <3> QED BY <1>1, <1>2, <3>1
  <2> QED BY <1>3, <2>1 DEF LoadInv, Loading
<1>5a. JobInv'
  <2>1. ASSUME NEW m \in Monitors, jobs[m].rev # 0
        PROVE  /\ jobs[m].rev <= config' /\ m \in Assigned[jobs[m].rev] /\ jobs[m].due >= bootedAt
               /\ stateRev[m] = jobs[m].rev /\ stateDue[m] = jobs[m].due
    <3>1. jobs[m].rev \in Nat
      BY DEF ScheduleTypes
    <3>2. jobs[m].rev <= config /\ ~Loading
      BY <1>1, <2>1 DEF JobInv, Loading
    <3> QED BY <1>1, <1>2, <2>1, <3>1, <3>2 DEF JobInv
  <2> QED BY <1>1, <1>3, <2>1 DEF JobInv, Loading
<1>6. HistoryInv'
  <2>1. ASSUME NEW m \in Monitors PROVE stateRev[m] <= config'
    <3>1. stateRev[m] \in Nat /\ stateRev[m] <= config
      BY DEF HistoryInv, ScheduleTypes
    <3> QED BY <1>1, <1>2, <3>1
  <2>2. ASSUME NEW e \in executed
        PROVE  e.rev \in 1..config' /\ (e.rev # stateRev[e.monitor] => e.rev < config')
    BY <1>1, <1>2 DEF HistoryInv
  <2> QED BY <1>1, <2>1, <2>2 DEF HistoryInv
<1>7. DownInv' /\ InstantsAccountedFor'
  BY <1>1 DEF DownInv, InstantsAccountedFor
<1> QED BY <1>4, <1>5, <1>5a, <1>6, <1>7

\* Without the reload the old jobs and their rows stay as they are.
LEMMA SkipKeepsSchedule == ASSUME ScheduleInv, SkipReload PROVE ScheduleInv'
<1> USE DEF ScheduleInv, table
<1>1. /\ load.pc = "activated" /\ load' = NoLoad
      /\ UNCHANGED <<now, config, table, process, jobs, tick, executed, first, bootedAt, probes, slots>>
  BY DEF SkipReload, goroutines, history
<1>2. /\ NoLoad.pc = "none"
      /\ NoLoad \in [pc : {"none", "activated", "restoring", "swapping"}, rev : Nat, at : Nat,
                     todo : SUBSET Monitors, due : [Monitors -> Nat]]
  BY DEF NoLoad
<1>3. ScheduleTypes'
  BY <1>1, <1>2 DEF ScheduleTypes
<1>4. LoadInv' /\ JobInv'
  BY <1>1, <1>2 DEF LoadInv, JobInv, Loading
<1>5. HistoryInv' /\ DownInv' /\ InstantsAccountedFor'
  BY <1>1, <1>2 DEF HistoryInv, DownInv, InstantsAccountedFor
<1> QED BY <1>3, <1>4, <1>5

\* The executions of a monitor's present schedule.
Started(m) == {e \in executed : e.monitor = m /\ e.rev = stateRev[m]}

\* They can be counted.
LEMMA StartedIsFinite ==
    ASSUME HistoryInv, NEW m
    PROVE  IsFiniteSet(Started(m)) /\ Cardinality(Started(m)) \in Nat
<1>1. Started(m) \in SUBSET executed
  BY DEF Started
<1> QED BY <1>1, FS_Subset, FS_CardinalityType DEF HistoryInv

\* InstantsAccountedFor, monitor by monitor.
Accounted(m) ==
    stateRev[m] # 0 =>
        stateDue[m] = first[m] + Interval * (stateMissed[m] + Cardinality(Started(m)))

\* Accounted of every monitor is the property TLC checks.
LEMMA AccountsOfMonitors ==
    /\ InstantsAccountedFor <=> \A m \in Monitors : Accounted(m)
    /\ InstantsAccountedFor' <=> \A m \in Monitors : Accounted(m)'
<1>1. \A m : Accounted(m) = (stateRev[m] # 0 =>
        LET started == {e \in executed : e.monitor = m /\ e.rev = stateRev[m]} IN
        stateDue[m] = first[m] + Interval * (stateMissed[m] + Cardinality(started)))
  BY Zenon DEF Accounted, Started
<1>2. \A m : Accounted(m)' = (stateRev[m] # 0 =>
        LET started == {e \in executed : e.monitor = m /\ e.rev = stateRev[m]} IN
        stateDue[m] = first[m] + Interval * (stateMissed[m] + Cardinality(started)))'
  BY Zenon DEF Accounted, Started
<1> QED BY <1>1, <1>2, Zenon DEF InstantsAccountedFor

\* RestoreSchedule of one monitor, in terms of its new due time.
LEMMA RestoreParts ==
    ASSUME ScheduleInv, NEW m \in Monitors, RestoreSchedule(m)
    PROVE  \E due \in Nat, k \in Nat :
             /\ due = IF stateRev[m] = config THEN stateDue[m] + Interval * k ELSE load.due[m]
             /\ due >= load.at /\ (stateRev[m] = config => due >= stateDue[m])
             /\ stateRev' = [stateRev EXCEPT ![m] = config]
             /\ stateDue' = [stateDue EXCEPT ![m] = due]
             /\ stateMissed' = [stateMissed EXCEPT
                                 ![m] = IF stateRev[m] = config THEN stateMissed[m] + k ELSE 0]
             /\ first' = [first EXCEPT ![m] = IF stateRev[m] = config THEN first[m] ELSE due]
             /\ load' = [load EXCEPT !.todo = load.todo \ {m}, !.due = [load.due EXCEPT ![m] = due]]
<1> USE DEF ScheduleInv
<1>1. load.pc = "restoring" /\ load.rev = config
  BY DEF RestoreSchedule, LoadInv, Loading
<1>2. /\ stateDue[m] \in Nat /\ load.at \in Nat /\ load.due[m] \in Nat /\ load.due[m] >= load.at
      /\ Interval \in Nat
  BY <1>1, SchedulerConstants DEF ScheduleTypes, LoadInv, Loading
<1>3. CASE stateRev[m] = config
  <2> DEFINE due == NextDue(stateDue[m], load.at)
  <2>1. PICK k \in Nat : /\ due = stateDue[m] + Interval * k /\ (due - stateDue[m]) \div Interval = k
                         /\ due \in Nat /\ due > load.at /\ due >= stateDue[m]
    BY <1>2, NextDueFacts
  <2>2. /\ stateRev' = [stateRev EXCEPT ![m] = config]
        /\ stateDue' = [stateDue EXCEPT ![m] = due]
        /\ stateMissed' = [stateMissed EXCEPT ![m] = stateMissed[m] + (due - stateDue[m]) \div Interval]
        /\ first' = [first EXCEPT ![m] = first[m]]
        /\ load' = [load EXCEPT !.todo = load.todo \ {m}, !.due = [load.due EXCEPT ![m] = due]]
    BY <1>1, <1>3 DEF RestoreSchedule
  <2> HIDE DEF due
  <2>3. due >= load.at
    BY <1>2, <2>1
  <2> QED BY <1>3, <2>1, <2>2, <2>3, Zenon
<1>4. CASE stateRev[m] # config
  <2>1. /\ stateRev' = [stateRev EXCEPT ![m] = config]
        /\ stateDue' = [stateDue EXCEPT ![m] = load.due[m]]
        /\ stateMissed' = [stateMissed EXCEPT ![m] = 0]
        /\ first' = [first EXCEPT ![m] = load.due[m]]
        /\ load' = [load EXCEPT !.todo = load.todo \ {m},
                                !.due = [load.due EXCEPT ![m] = load.due[m]]]
    BY <1>1, <1>4 DEF RestoreSchedule
  <2>2. 0 \in Nat
    OBVIOUS
  <2> QED BY <1>2, <1>4, <2>1, <2>2, Zenon
<1> QED BY <1>3, <1>4, Zenon

\* A kept row gains as many missed instants as it moves on by; a replaced one starts a new
\* account, because nothing of the new revision can have run for it.
LEMMA RestoreKeepsSchedule ==
    ASSUME ScheduleInv, NEW m \in Monitors, RestoreSchedule(m) PROVE ScheduleInv'
<1> USE DEF ScheduleInv
<1>1. PICK due \in Nat, k \in Nat :
             /\ due = IF stateRev[m] = config THEN stateDue[m] + Interval * k ELSE load.due[m]
             /\ due >= load.at /\ (stateRev[m] = config => due >= stateDue[m])
             /\ stateRev' = [stateRev EXCEPT ![m] = config]
             /\ stateDue' = [stateDue EXCEPT ![m] = due]
             /\ stateMissed' = [stateMissed EXCEPT
                                 ![m] = IF stateRev[m] = config THEN stateMissed[m] + k ELSE 0]
             /\ first' = [first EXCEPT ![m] = IF stateRev[m] = config THEN first[m] ELSE due]
             /\ load' = [load EXCEPT !.todo = load.todo \ {m}, !.due = [load.due EXCEPT ![m] = due]]
  BY RestoreParts, Zenon
<1>2. /\ load.pc = "restoring" /\ m \in load.todo
      /\ UNCHANGED <<now, config, process, jobs, tick, probes, slots, executed, bootedAt>>
  BY DEF RestoreSchedule, goroutines
<1>3. /\ Loading /\ load.rev = config /\ config \in Nat /\ config >= 1 /\ load.at \in Nat
      /\ process = "up"
  BY <1>2, AssignedMonitors DEF Loading, LoadInv, ScheduleTypes, DownInv
<1>4. /\ stateRev' \in [Monitors -> Nat] /\ stateDue' \in [Monitors -> Nat]
      /\ \A n \in Monitors : /\ stateRev'[n] = IF n = m THEN config ELSE stateRev[n]
                             /\ stateDue'[n] = IF n = m THEN due ELSE stateDue[n]
  BY <1>1, <1>3 DEF ScheduleTypes
<1>5. /\ stateMissed' \in [Monitors -> Nat] /\ first' \in [Monitors -> Nat]
      /\ \A n \in Monitors \ {m} : stateMissed'[n] = stateMissed[n] /\ first'[n] = first[n]
      /\ stateMissed'[m] = IF stateRev[m] = config THEN stateMissed[m] + k ELSE 0
      /\ first'[m] = IF stateRev[m] = config THEN first[m] ELSE due
  BY <1>1, <1>3 DEF ScheduleTypes
<1>6. /\ load'.pc = "restoring" /\ load'.rev = config /\ load'.at = load.at
      /\ load'.todo = load.todo \ {m}
      /\ load'.due \in [Monitors -> Nat]
      /\ \A n \in Monitors : load'.due[n] = IF n = m THEN due ELSE load.due[n]
  BY <1>1, <1>2, <1>3 DEF ScheduleTypes
<1>7. load' \in [pc : {"none", "activated", "restoring", "swapping"}, rev : Nat, at : Nat,
                 todo : SUBSET Monitors, due : [Monitors -> Nat]]
  <2>1. load' = [pc |-> load'.pc, rev |-> load'.rev, at |-> load'.at, todo |-> load'.todo,
                 due |-> load'.due]
    BY <1>1, Zenon DEF ScheduleTypes
  <2> QED BY <1>3, <1>6, <2>1 DEF ScheduleTypes
<1>8. ScheduleTypes'
  BY <1>2, <1>4, <1>5, <1>7 DEF ScheduleTypes
<1>9. LoadInv'
  <2>1. \A n \in Monitors : jobs[n].rev < config
    BY <1>2 DEF LoadInv
  <2>2. \A n \in Monitors : load'.due[n] >= load.at
    BY <1>1, <1>3, <1>6 DEF LoadInv
  <2>3. Assigned[config] \in SUBSET Monitors
    BY AssignedMonitors DEF ScheduleTypes
  <2>4. \A n \in Assigned[config] \ load'.todo : stateRev'[n] = config /\ stateDue'[n] = load'.due[n]
    BY <1>3, <1>4, <1>6, <2>3 DEF LoadInv
  <2> QED BY <1>2, <1>3, <1>6, <2>1, <2>2, <2>4 DEF LoadInv, Loading
<1>10. JobInv'
  <2>1. Loading'
    BY <1>6 DEF Loading
  <2>2. ASSUME NEW n \in Monitors, jobs[n].rev # 0
        PROVE  stateRev'[n] = jobs[n].rev => stateDue'[n] = jobs[n].due
    BY <1>2, <1>4, <2>2, SMTT(20) DEF LoadInv, JobInv, ScheduleTypes
  <2> QED BY <1>2, <2>1, <2>2 DEF JobInv
<1>11. HistoryInv'
  <2>1. \A n \in Monitors : stateRev'[n] <= config
    BY <1>3, <1>4 DEF HistoryInv
  <2>2. ASSUME NEW e \in executed
        PROVE  /\ e.rev = stateRev'[e.monitor] => e.at < stateDue'[e.monitor]
               /\ e.rev # stateRev'[e.monitor] => e.rev < config
    <3>1. e.monitor \in Monitors /\ e.at \in Nat /\ e.rev \in Nat /\ e.rev <= config
      BY <1>3 DEF HistoryInv
    <3>2. CASE e.monitor # m
      BY <1>4, <3>1, <3>2 DEF HistoryInv
    <3>3. CASE e.monitor = m
      <4>1. stateDue[m] \in Nat
        BY DEF ScheduleTypes
      <4>2. e.rev = config => stateRev[m] = config /\ e.at < stateDue[m]
        BY <1>3, <3>1, <3>3 DEF HistoryInv
      <4> QED BY <1>1, <1>3, <1>4, <3>1, <3>3, <4>1, <4>2
    <3> QED BY <3>2, <3>3
  <2> QED BY <1>2, <2>1, <2>2 DEF HistoryInv
<1>12. DownInv'
  BY <1>2, <1>3 DEF DownInv
<1>13. ASSUME NEW n \in Monitors PROVE Accounted(n)'
  <2>1. CASE n # m
    <3>1. /\ stateRev'[n] = stateRev[n] /\ stateDue'[n] = stateDue[n]
          /\ stateMissed'[n] = stateMissed[n] /\ first'[n] = first[n]
      BY <1>4, <1>5, <2>1
    <3>2. Started(n)' = Started(n)
      BY <1>2, <3>1, Zenon DEF Started
    <3>3. Accounted(n)
      BY AccountsOfMonitors
    <3> QED BY <3>1, <3>2, <3>3, Zenon DEF Accounted
  <2>2. CASE n = m /\ stateRev[m] = config
    <3>1. Started(m)' = Started(m)
      BY <1>2, <1>4, <2>2, Zenon DEF Started
    <3> DEFINE c == Cardinality(Started(m))
    <3>2. c \in Nat /\ Interval \in Nat /\ stateMissed[m] \in Nat /\ first[m] \in Nat
      BY StartedIsFinite, SchedulerConstants, Zenon DEF ScheduleTypes
    <3>3. stateDue[m] = first[m] + Interval * (stateMissed[m] + c)
      BY <1>3, <2>2, AccountsOfMonitors DEF Accounted
    <3>4. Accounted(m)' <=> (config # 0 =>
             due = first[m] + Interval * (stateMissed[m] + k + Cardinality(Started(m)')))
      BY <1>4, <1>5, <2>2 DEF Accounted
    <3> HIDE DEF c
    <3>5. stateMissed[m] + c \in Nat /\ (stateMissed[m] + c) + k = stateMissed[m] + k + c
      BY <3>2
    <3>6. stateDue[m] + Interval * k = first[m] + Interval * ((stateMissed[m] + c) + k)
      <4>1. stateDue[m] \in Nat
        BY DEF ScheduleTypes
      <4> QED BY <3>2, <3>3, <3>5, <4>1, AccountMovesOn
    <3>7. due = first[m] + Interval * (stateMissed[m] + k + c)
      BY <1>1, <2>2, <3>5, <3>6
    <3> QED BY <2>2, <3>1, <3>4, <3>7 DEF c
  <2>3. CASE n = m /\ stateRev[m] # config
    <3>1. \A e \in executed : ~(e.monitor = m /\ e.rev = config)
      BY <1>3, <2>3 DEF HistoryInv
    <3>2. Started(m)' = {}
      BY <1>2, <1>4, <3>1 DEF Started
    <3>3. Cardinality(Started(m)') = 0
      BY <3>2, FS_EmptySet
    <3>4. Accounted(m)' <=> (config # 0 => due = due + Interval * (0 + Cardinality(Started(m)')))
      BY <1>4, <1>5, <2>3 DEF Accounted
    <3>5. Interval * (0 + 0) = 0
      BY SchedulerConstants
    <3> QED BY <2>3, <3>3, <3>4, <3>5
  <2> QED BY <2>1, <2>2, <2>3
<1>14. InstantsAccountedFor'
  BY <1>13, AccountsOfMonitors
<1> QED BY <1>8, <1>9, <1>10, <1>11, <1>12, <1>14

\* The rows removed are of monitors of which the active revision has run nothing.
LEMMA RemoveKeepsSchedule == ASSUME ScheduleInv, RemoveSchedulesExcept PROVE ScheduleInv'
<1> USE DEF ScheduleInv
<1>1. /\ load.pc = "restoring" /\ load.todo = {} /\ load' = [load EXCEPT !.pc = "swapping"]
      /\ stateRev' = [m \in Monitors |-> IF m \in Assigned[load.rev] THEN stateRev[m] ELSE 0]
      /\ stateDue' = [m \in Monitors |-> IF m \in Assigned[load.rev] THEN stateDue[m] ELSE 0]
      /\ stateMissed' = [m \in Monitors |-> IF m \in Assigned[load.rev] THEN stateMissed[m] ELSE 0]
      /\ first' = [m \in Monitors |-> IF m \in Assigned[load.rev] THEN first[m] ELSE 0]
      /\ UNCHANGED <<now, config, process, jobs, tick, probes, slots, executed, bootedAt>>
  BY DEF RemoveSchedulesExcept, goroutines
<1>2. /\ Loading /\ load.rev = config /\ config \in Nat /\ config >= 1 /\ process = "up"
      /\ Assigned[config] \in SUBSET Monitors
  BY <1>1, AssignedMonitors DEF Loading, LoadInv, ScheduleTypes, DownInv
<1>3. /\ load'.pc = "swapping" /\ load'.rev = config /\ load'.at = load.at
      /\ load'.todo = {} /\ load'.due = load.due
      /\ load' \in [pc : {"none", "activated", "restoring", "swapping"}, rev : Nat, at : Nat,
                    todo : SUBSET Monitors, due : [Monitors -> Nat]]
  BY <1>1, <1>2, Zenon DEF ScheduleTypes
<1>4. ScheduleTypes'
  BY <1>1, <1>3, Zenon DEF ScheduleTypes
<1>5. \A m \in Monitors :
        IF m \in Assigned[config]
        THEN /\ stateRev'[m] = stateRev[m] /\ stateDue'[m] = stateDue[m]
             /\ stateMissed'[m] = stateMissed[m] /\ first'[m] = first[m]
        ELSE stateRev'[m] = 0
  BY <1>1, <1>2
<1>6. LoadInv'
  <2>1. \A m \in Monitors : jobs[m].rev < config
    BY <1>1 DEF LoadInv
  <2>2. \A m \in Assigned[config] : stateRev'[m] = config /\ stateDue'[m] = load.due[m]
    BY <1>1, <1>2, <1>5 DEF LoadInv
  <2> QED BY <1>1, <1>2, <1>3, <2>1, <2>2 DEF LoadInv, Loading
<1>7. JobInv'
  <2>1. Loading'
    BY <1>3 DEF Loading
  <2>2. ASSUME NEW m \in Monitors, jobs[m].rev # 0
        PROVE  stateRev'[m] = jobs[m].rev => stateDue'[m] = jobs[m].due
    BY <1>5, <2>2 DEF JobInv
  <2> QED BY <1>1, <2>1, <2>2 DEF JobInv
<1>8. HistoryInv'
  <2>1. \A m \in Monitors : stateRev'[m] <= config
    BY <1>2, <1>5 DEF HistoryInv
  <2>2. ASSUME NEW e \in executed
        PROVE  /\ e.rev = stateRev'[e.monitor] => e.at < stateDue'[e.monitor]
               /\ e.rev # stateRev'[e.monitor] => e.rev < config
    <3>1. /\ e.monitor \in Monitors /\ e.rev \in Nat /\ e.rev >= 1 /\ e.rev <= config
          /\ e.monitor \in Assigned[e.rev]
      BY <1>2 DEF HistoryInv
    <3>2. CASE e.monitor \in Assigned[config]
      BY <1>5, <3>1, <3>2 DEF HistoryInv
    <3>3. CASE e.monitor \notin Assigned[config]
      BY <1>2, <1>5, <3>1, <3>3
    <3> QED BY <3>2, <3>3
  <2> QED BY <1>1, <2>1, <2>2 DEF HistoryInv
<1>9. DownInv'
  BY <1>1, <1>2 DEF DownInv
<1>10. ASSUME NEW m \in Monitors PROVE Accounted(m)'
  <2>1. CASE m \in Assigned[config]
    <3>1. /\ stateRev'[m] = stateRev[m] /\ stateDue'[m] = stateDue[m]
          /\ stateMissed'[m] = stateMissed[m] /\ first'[m] = first[m]
      BY <1>5, <2>1
    <3>2. Started(m)' = Started(m)
      BY <1>1, <3>1, Zenon DEF Started
    <3>3. Accounted(m)
      BY AccountsOfMonitors
    <3> QED BY <3>1, <3>2, <3>3, Zenon DEF Accounted
  <2>2. CASE m \notin Assigned[config]
    BY <1>5, <2>2 DEF Accounted
  <2> QED BY <2>1, <2>2
<1>11. InstantsAccountedFor'
  BY <1>10, AccountsOfMonitors
<1> QED BY <1>4, <1>6, <1>7, <1>8, <1>9, <1>11

\* When the jobs are swapped, every assigned monitor's row has been restored.
LEMMA SwapKeepsSchedule == ASSUME ScheduleInv, SwapJobs PROVE ScheduleInv'
<1> USE DEF ScheduleInv, table
<1>1. /\ load.pc = "swapping" /\ tick.todo = {} /\ load' = NoLoad
      /\ jobs' = [m \in Monitors |-> IF m \in Assigned[load.rev]
                                     THEN [rev |-> load.rev, due |-> load.due[m]] ELSE NoJob]
      /\ UNCHANGED <<now, config, table, process, tick, probes, slots, executed, first, bootedAt>>
  BY DEF SwapJobs, history
<1>2. /\ Loading /\ load.rev = config /\ config \in Nat /\ config >= 1 /\ process = "up"
      /\ load.todo = {} /\ load.at \in Nat /\ bootedAt \in Nat /\ bootedAt <= load.at
      /\ Assigned[config] \in SUBSET Monitors
  BY <1>1, AssignedMonitors DEF Loading, LoadInv, ScheduleTypes, DownInv
<1>3. /\ load'.pc = "none"
      /\ load' \in [pc : {"none", "activated", "restoring", "swapping"}, rev : Nat, at : Nat,
                    todo : SUBSET Monitors, due : [Monitors -> Nat]]
  BY <1>1 DEF NoLoad
<1>4. jobs' \in [Monitors -> [rev : Nat, due : Nat]]
  BY <1>1, <1>2 DEF ScheduleTypes, NoJob
<1>5. ScheduleTypes'
  BY <1>1, <1>3, <1>4 DEF ScheduleTypes
<1>6. LoadInv'
  BY <1>3 DEF LoadInv, Loading
<1>7. JobInv'
  <2>1. ASSUME NEW m \in Monitors, jobs'[m].rev # 0
        PROVE  /\ jobs'[m].rev <= config /\ m \in Assigned[jobs'[m].rev] /\ jobs'[m].due >= bootedAt
               /\ stateRev[m] = jobs'[m].rev /\ stateDue[m] = jobs'[m].due
    <3>1. m \in Assigned[config] /\ jobs'[m].rev = config /\ jobs'[m].due = load.due[m]
      BY <1>1, <1>2, <2>1 DEF NoJob
    <3>2. load.due[m] \in Nat /\ load.due[m] >= load.at
      BY <1>2 DEF LoadInv, ScheduleTypes
    <3>3. stateRev[m] = config /\ stateDue[m] = load.due[m]
      BY <1>2, <3>1 DEF LoadInv
    <3> QED BY <1>2, <3>1, <3>2, <3>3
  <2> QED BY <1>1, <2>1 DEF JobInv
<1>8. HistoryInv' /\ InstantsAccountedFor'
  BY <1>1, Zenon DEF HistoryInv, InstantsAccountedFor
<1>9. DownInv'
  BY <1>1, <1>2 DEF DownInv
<1> QED BY <1>5, <1>6, <1>7, <1>8, <1>9

\* A tick looks at jobs that exist and are due.
LEMMA BeginTickKeepsSchedule == ASSUME ScheduleInv, BeginTick PROVE ScheduleInv'
<1> USE DEF ScheduleInv, table
<1>1. /\ tick' = [todo |-> DueJobs, at |-> now] /\ DueJobs # {}
      /\ UNCHANGED <<now, config, table, process, load, jobs, probes, slots, executed, first, bootedAt>>
  BY DEF BeginTick, history
<1>2. DueJobs \in SUBSET Monitors /\ tick'.todo = DueJobs /\ tick'.at = now
  BY <1>1 DEF DueJobs
<1>3. tick' \in [todo : SUBSET Monitors, at : Nat]
  BY <1>1, <1>2, Zenon DEF ScheduleTypes
<1>4. ScheduleTypes' /\ LoadInv'
  BY <1>1, <1>3 DEF ScheduleTypes, LoadInv, Loading
<1>5. JobInv'
  <2>1. \A m \in tick'.todo : jobs[m].rev # 0 /\ jobs[m].due <= tick'.at
    BY <1>2, Zenon DEF DueJobs
  <2> QED BY <1>1, <2>1, Zenon DEF JobInv, Loading
<1>6. HistoryInv' /\ InstantsAccountedFor'
  BY <1>1, Zenon DEF HistoryInv, InstantsAccountedFor
<1>7. DownInv'
  BY <1>1 DEF DownInv, DueJobs
<1> QED BY <1>4, <1>5, <1>6, <1>7

\* A tick that fails leaves the job and the row as they were.
LEMMA TickFailsKeepsSchedule == ASSUME ScheduleInv, NEW m \in Monitors, TickFails(m) PROVE ScheduleInv'
<1> USE DEF ScheduleInv, table
<1>1. /\ m \in tick.todo /\ tick' = [tick EXCEPT !.todo = {}]
      /\ UNCHANGED <<now, config, table, process, load, jobs, probes, slots, executed, first, bootedAt>>
  BY DEF TickFails, history
<1>2. tick'.todo = {} /\ tick' \in [todo : SUBSET Monitors, at : Nat]
  BY <1>1 DEF ScheduleTypes
<1>3. ScheduleTypes' /\ LoadInv'
  BY <1>1, <1>2 DEF ScheduleTypes, LoadInv, Loading
<1>4. JobInv'
  BY <1>1, <1>2 DEF JobInv, Loading
<1>5. HistoryInv' /\ DownInv' /\ InstantsAccountedFor'
  BY <1>1, <1>2 DEF HistoryInv, DownInv, InstantsAccountedFor
<1> QED BY <1>3, <1>4, <1>5

\* The end of a process, orderly or not, leaves the tables as they were.
LEMMA EndKeepsSchedule == ASSUME ScheduleInv, ProcessEnds PROVE ScheduleInv'
<1> USE DEF ScheduleInv, table
<1>1. /\ process' = "down" /\ jobs' = [m \in Monitors |-> NoJob] /\ tick' = [todo |-> {}, at |-> 0]
      /\ slots' = 0 /\ probes' = {} /\ load' = NoLoad
      /\ UNCHANGED <<now, config, table, executed, first, bootedAt>>
  BY DEF ProcessEnds, VolatileReset
<1>2. /\ NoLoad.pc = "none"
      /\ NoLoad \in [pc : {"none", "activated", "restoring", "swapping"}, rev : Nat, at : Nat,
                     todo : SUBSET Monitors, due : [Monitors -> Nat]]
  BY DEF NoLoad
<1>3. /\ jobs' \in [Monitors -> [rev : Nat, due : Nat]] /\ \A m \in Monitors : jobs'[m].rev = 0
      /\ tick' \in [todo : SUBSET Monitors, at : Nat] /\ tick'.todo = {}
  BY <1>1 DEF NoJob
<1>4. ScheduleTypes'
  BY <1>1, <1>2, <1>3, Zenon DEF ScheduleTypes
<1>5. LoadInv' /\ JobInv' /\ DownInv'
  BY <1>1, <1>2, <1>3 DEF LoadInv, JobInv, DownInv, Loading
<1>6. HistoryInv' /\ InstantsAccountedFor'
  BY <1>1, Zenon DEF HistoryInv, InstantsAccountedFor
<1> QED BY <1>4, <1>5, <1>6

\* The execution TickStarts starts.
NextExecution(m) == [monitor |-> m, rev |-> jobs[m].rev, at |-> jobs[m].due]

\* Advance of one job, whose row it finds: both move to the same instant after the tick.
LEMMA AdvanceParts ==
    ASSUME ScheduleInv, NEW m \in Monitors, NEW missed \in {0, 1}, Advance(m, missed)
    PROVE  /\ process = "up" /\ m \in tick.todo
           /\ jobs[m].rev # 0 /\ stateRev[m] = jobs[m].rev /\ stateDue[m] = jobs[m].due
           /\ \E next \in Nat, k \in Nat :
                /\ next = stateDue[m] + Interval * k /\ next > stateDue[m] /\ k >= 1
                /\ stateDue' = [stateDue EXCEPT ![m] = next]
                /\ stateMissed' = [stateMissed EXCEPT ![m] = stateMissed[m] + k - 1 + missed]
                /\ jobs' = [jobs EXCEPT ![m].due = next]
<1> USE DEF ScheduleInv
<1>1. m \in tick.todo /\ stateRev[m] = jobs[m].rev
  BY Zenon DEF Advance, CanAdvance
<1>2. /\ jobs[m].rev # 0 /\ jobs[m].due <= tick.at /\ stateDue[m] = jobs[m].due /\ process = "up"
      /\ jobs[m].due \in Nat /\ tick.at \in Nat
  BY <1>1 DEF JobInv, ScheduleTypes, DownInv
<1> DEFINE next == NextDue(jobs[m].due, tick.at)
<1>3. PICK k \in Nat : /\ next = jobs[m].due + Interval * k /\ (next - jobs[m].due) \div Interval = k
                       /\ k >= 1 /\ next \in Nat /\ next > jobs[m].due
  BY <1>2, NextDueFacts, Zenon
<1>4. /\ stateDue' = [stateDue EXCEPT ![m] = next]
      /\ stateMissed' = [stateMissed EXCEPT
                            ![m] = stateMissed[m] + (next - jobs[m].due) \div Interval - 1 + missed]
      /\ jobs' = [jobs EXCEPT ![m].due = next]
  BY DEF Advance
<1> HIDE DEF next
<1> QED BY <1>1, <1>2, <1>3, <1>4, Zenon

\* A row's next instant has not run: all that ran under its revision is earlier.
LEMMA NextExecutionIsNew ==
    ASSUME HistoryInv, ScheduleTypes, NEW m \in Monitors,
           stateRev[m] = jobs[m].rev, stateDue[m] = jobs[m].due
    PROVE  NextExecution(m) \notin executed
<1>1. stateDue[m] \in Nat
  BY DEF ScheduleTypes
<1> QED BY <1>1, SMTT(20) DEF HistoryInv, NextExecution

\* Row and job move on together, over k instants: k - 1 were missed, and the due one was
\* missed or started.
LEMMA AdvanceKeepsSchedule ==
    ASSUME ScheduleInv, NEW m \in Monitors, NEW missed \in {0, 1}, Advance(m, missed),
           executed' = executed \cup (IF missed = 1 THEN {} ELSE {NextExecution(m)})
    PROVE  ScheduleInv'
<1> USE DEF ScheduleInv
<1>1. /\ process = "up" /\ m \in tick.todo
      /\ jobs[m].rev # 0 /\ stateRev[m] = jobs[m].rev /\ stateDue[m] = jobs[m].due
  BY AdvanceParts
<1>2. PICK next \in Nat, k \in Nat :
                /\ next = stateDue[m] + Interval * k /\ next > stateDue[m] /\ k >= 1
                /\ stateDue' = [stateDue EXCEPT ![m] = next]
                /\ stateMissed' = [stateMissed EXCEPT ![m] = stateMissed[m] + k - 1 + missed]
                /\ jobs' = [jobs EXCEPT ![m].due = next]
  BY AdvanceParts
<1>3. /\ tick' = [tick EXCEPT !.todo = tick.todo \ {m}]
      /\ UNCHANGED <<now, config, stateRev, process, load, first, bootedAt>>
  BY DEF Advance
<1>4. /\ jobs' \in [Monitors -> [rev : Nat, due : Nat]] /\ stateDue' \in [Monitors -> Nat]
      /\ \A n \in Monitors : /\ jobs'[n].rev = jobs[n].rev
                             /\ jobs'[n].due = IF n = m THEN next ELSE jobs[n].due
                             /\ stateDue'[n] = IF n = m THEN next ELSE stateDue[n]
  <2>1. [jobs[m] EXCEPT !.due = next] \in [rev : Nat, due : Nat]
    BY DEF ScheduleTypes
  <2> QED BY <1>2, <2>1 DEF ScheduleTypes
<1>5. /\ stateMissed' \in [Monitors -> Nat]
      /\ \A n \in Monitors \ {m} : stateMissed'[n] = stateMissed[n]
      /\ stateMissed'[m] = stateMissed[m] + k - 1 + missed
  BY <1>2 DEF ScheduleTypes
<1>6. tick'.todo = tick.todo \ {m} /\ tick'.at = tick.at /\ tick' \in [todo : SUBSET Monitors, at : Nat]
  BY <1>3 DEF ScheduleTypes
<1>7. ScheduleTypes'
  BY <1>3, <1>4, <1>5, <1>6, Zenon DEF ScheduleTypes
<1>8. /\ config \in Nat /\ Assigned[config] \in SUBSET Monitors /\ bootedAt \in Nat
      /\ stateDue[m] \in Nat /\ jobs[m].rev \in Nat /\ jobs[m].rev <= config
      /\ m \in Assigned[jobs[m].rev] /\ stateDue[m] >= bootedAt
  BY <1>1, AssignedMonitors DEF ScheduleTypes, JobInv
<1>9. LoadInv'
  <2>1. load.pc # "none" => \A n \in Monitors : jobs'[n].rev < config
    BY <1>4, Zenon DEF LoadInv
  <2>2. ASSUME Loading, NEW n \in Assigned[config] \ load.todo
        PROVE  stateRev[n] = config /\ stateDue'[n] = load.due[n]
    <3>1. stateRev[n] = config /\ stateDue[n] = load.due[n]
      BY <2>2 DEF LoadInv
    <3>2. jobs[m].rev < config
      BY <2>2 DEF LoadInv, Loading
    <3>3. n # m
      BY <1>1, <1>8, <3>1, <3>2, SMTT(20)
    <3>4. n \in Monitors
      BY <1>8
    <3> QED BY <1>4, <3>1, <3>3, <3>4
  <2> QED BY <1>3, <2>1, <2>2 DEF LoadInv, Loading
<1>10. JobInv'
  <2>1. \A n \in tick'.todo : jobs'[n].rev # 0 /\ jobs'[n].due <= tick'.at
    BY <1>4, <1>6 DEF JobInv, ScheduleTypes
  <2>2. ASSUME NEW n \in Monitors, jobs'[n].rev # 0
        PROVE  /\ jobs'[n].rev <= config /\ n \in Assigned[jobs'[n].rev] /\ jobs'[n].due >= bootedAt
               /\ stateRev[n] = jobs'[n].rev => stateDue'[n] = jobs'[n].due
               /\ stateRev[n] # jobs'[n].rev => Loading
    <3>1. CASE n = m
      <4>1. /\ jobs'[m].rev = jobs[m].rev /\ jobs'[m].due = next /\ stateDue'[m] = next
        BY <1>4, Zenon
      <4>2. next >= bootedAt
        BY <1>2, <1>8
      <4> QED BY <1>1, <1>8, <3>1, <4>1, <4>2, Zenon
    <3>2. CASE n # m
      BY <1>4, <2>2, <3>2 DEF JobInv
    <3> QED BY <3>1, <3>2, Zenon
  <2> QED BY <1>3, <2>1, <2>2, Zenon DEF JobInv, Loading
<1>11. HistoryInv'
  <2>1. IsFiniteSet(executed')
    <3>1. IsFiniteSet(executed) /\ IsFiniteSet(executed \cup {NextExecution(m)})
      BY FS_AddElement DEF HistoryInv
    <3>2. executed' = executed \/ executed' = executed \cup {NextExecution(m)}
      OBVIOUS
    <3> QED BY <3>1, <3>2
  <2>2. ASSUME NEW e \in executed'
        PROVE  /\ e.monitor \in Monitors /\ e.rev \in 1..config /\ e.at \in Nat
               /\ e.monitor \in Assigned[e.rev]
               /\ e.rev = stateRev[e.monitor] => e.at < stateDue'[e.monitor]
               /\ e.rev # stateRev[e.monitor] => e.rev < config
    <3>1. CASE e \in executed
      <4>1. /\ e.monitor \in Monitors /\ e.rev \in 1..config /\ e.at \in Nat
            /\ e.monitor \in Assigned[e.rev]
            /\ e.rev = stateRev[e.monitor] => e.at < stateDue[e.monitor]
            /\ e.rev # stateRev[e.monitor] => e.rev < config
        BY <3>1 DEF HistoryInv
      <4> QED BY <1>2, <1>4, <1>8, <4>1
    <3>2. CASE e = NextExecution(m)
      <4>1. e.monitor = m /\ e.rev = jobs[m].rev /\ e.at = stateDue[m]
        BY <1>1, <3>2 DEF NextExecution
      <4>2. stateDue'[m] = next /\ stateDue[m] < next
        BY <1>2, <1>4
      <4>3. jobs[m].rev \in 1..config
        BY <1>1, <1>8
      <4> QED BY <1>1, <1>8, <4>1, <4>2, <4>3, Zenon
    <3> QED BY <3>1, <3>2
  <2> QED BY <1>3, <2>1, <2>2 DEF HistoryInv
<1>12. DownInv'
  BY <1>1, <1>3 DEF DownInv
<1>13. ASSUME NEW n \in Monitors, n # m PROVE Accounted(n)'
  <2>1. /\ stateRev'[n] = stateRev[n] /\ stateDue'[n] = stateDue[n]
        /\ stateMissed'[n] = stateMissed[n] /\ first'[n] = first[n]
    BY <1>3, <1>4, <1>5, <1>13
  <2>2. NextExecution(m).monitor # n
    BY <1>13, Zenon DEF NextExecution
  <2>3. Started(n)' = Started(n)
    BY <2>1, <2>2 DEF Started
  <2>4. Accounted(n)
    BY AccountsOfMonitors
  <2> QED BY <2>1, <2>3, <2>4, Zenon DEF Accounted
<1>14. Accounted(m)'
  <2> DEFINE c == Cardinality(Started(m))
  <2>1. /\ c \in Nat /\ Interval \in Nat /\ stateMissed[m] \in Nat /\ first[m] \in Nat
        /\ IsFiniteSet(Started(m))
    BY StartedIsFinite, SchedulerConstants DEF ScheduleTypes
  <2>2. stateDue[m] = first[m] + Interval * (stateMissed[m] + c)
    BY <1>1, AccountsOfMonitors DEF Accounted
  <2>3. Cardinality(Started(m)') = c + 1 - missed
    <3>1. CASE missed = 1
      <4>1. Started(m)' = Started(m)
        BY <1>3, <3>1 DEF Started
      <4> QED BY <2>1, <3>1, <4>1, OneMore, Zenon
    <3>2. CASE missed = 0
      <4>1. NextExecution(m) \notin Started(m)
        BY <1>1, NextExecutionIsNew DEF Started
      <4>2. NextExecution(m).monitor = m /\ NextExecution(m).rev = stateRev[m]
        BY <1>1 DEF NextExecution
      <4>3. Started(m)' = Started(m) \cup {NextExecution(m)}
        BY <1>3, <3>2, <4>2 DEF Started
      <4>4. Cardinality(Started(m) \cup {NextExecution(m)}) = c + 1
        BY <2>1, <4>1, FS_AddElement, Zenon
      <4> QED BY <2>1, <3>2, <4>3, <4>4, OneMore, Zenon
    <3> QED BY <3>1, <3>2, Zenon
  <2> HIDE DEF c
  <2>4. stateDue[m] + Interval * k
            = first[m] + Interval * ((stateMissed[m] + k - 1 + missed) + (c + 1 - missed))
    <3> DEFINE d == stateDue[m]
               f == first[m]
               s == stateMissed[m]
    <3>1. d \in Nat /\ f \in Nat /\ s \in Nat /\ c \in Nat /\ Interval \in Nat
      BY <1>8, <2>1, Zenon
    <3>2. d = f + Interval * (s + c)
      BY <2>2, Zenon
    <3> HIDE DEF d, f, s
    <3>3. d + Interval * k = f + Interval * ((s + k - 1 + missed) + (c + 1 - missed))
      BY <3>1, <3>2, AccountAdvances
    <3> QED BY <3>3, Zenon DEF d, f, s
  <2>5. next = first[m] + Interval * (stateMissed'[m] + Cardinality(Started(m)'))
    BY <1>2, <1>5, <2>3, <2>4, Zenon
  <2>6. Accounted(m)' <=> (stateRev'[m] # 0 =>
           stateDue'[m] = first'[m] + Interval * (stateMissed'[m] + Cardinality(Started(m)')))
    BY Zenon DEF Accounted
  <2> QED BY <1>3, <1>4, <2>5, <2>6
<1>15. InstantsAccountedFor'
  BY <1>13, <1>14, AccountsOfMonitors
<1> QED BY <1>7, <1>9, <1>10, <1>11, <1>12, <1>15

\* A step that leaves the goroutines and the executions alone.
LEMMA PoolUntouched ==
    ASSUME PoolInv, UNCHANGED <<probes, slots, executed, bootedAt>> PROVE PoolInv'
  BY DEF PoolInv, SlotsMatchGoroutines

\* A process that has just started, or ended, has no goroutines.
LEMMA PoolEmpty ==
    ASSUME probes' = {}, slots' = 0 PROVE PoolInv'
<1>1. IsFiniteSet({}) /\ Cardinality({}) = 0
  BY FS_EmptySet
<1>2. 0 <= MaxConcurrent
  BY SchedulerConstants
<1> QED BY <1>1, <1>2 DEF PoolInv, SlotsMatchGoroutines

\* TickStarts takes a free slot for a goroutine that runs an execution nothing ran before.
LEMMA StartKeepsPool ==
    ASSUME ScheduleInv, PoolInv, NEW m \in Monitors, TickStarts(m) PROVE PoolInv'
<1> DEFINE new == [exec |-> NextExecution(m), phase |-> "probing"]
<1>1. /\ slots # MaxConcurrent /\ slots' = slots + 1 /\ probes' = probes \cup {new}
      /\ executed' = executed \cup {NextExecution(m)} /\ Advance(m, 0) /\ bootedAt' = bootedAt
  BY DEF TickStarts, MustMiss, NextExecution, Advance
<1>2. jobs[m].rev # 0 /\ stateRev[m] = jobs[m].rev /\ stateDue[m] = jobs[m].due
  BY <1>1, AdvanceParts
<1>3. NextExecution(m) \notin executed
  BY <1>2, NextExecutionIsNew, Zenon DEF ScheduleInv
<1>4. NextExecution(m).at >= bootedAt
  BY <1>2 DEF NextExecution, ScheduleInv, JobInv
<1>5. \A p \in probes : p.exec # NextExecution(m)
  BY <1>3 DEF PoolInv
<1>6. new \notin probes
  BY <1>5
<1>7. /\ IsFiniteSet(probes \cup {new}) /\ Cardinality(probes \cup {new}) = Cardinality(probes) + 1
      /\ Cardinality(probes) \in Nat
  BY <1>6, FS_AddElement, FS_CardinalityType DEF PoolInv
<1>8. slots + 1 <= MaxConcurrent
  BY <1>1, <1>7, SchedulerConstants DEF PoolInv, SlotsMatchGoroutines
<1>9. IsFiniteSet(probes') /\ SlotsMatchGoroutines'
  BY <1>1, <1>7, <1>8 DEF PoolInv, SlotsMatchGoroutines
<1>10. \A p \in probes' : /\ p = [exec |-> p.exec, phase |-> p.phase]
                          /\ p.exec \in executed' /\ p.exec.at >= bootedAt'
  BY <1>1, <1>4 DEF PoolInv
<1>11. \A p, q \in probes' : p.exec = q.exec => p = q
  BY <1>1, <1>5 DEF PoolInv
<1> QED BY <1>9, <1>10, <1>11 DEF PoolInv

\* A goroutine that goes on to its next phase keeps its slot and its execution.
LEMMA MoveKeepsPool ==
    ASSUME PoolInv, NEW probe, NEW phase, Moves(probe, phase), UNCHANGED <<slots, executed, bootedAt>>
    PROVE  PoolInv'
<1> DEFINE moved == [exec |-> probe.exec, phase |-> phase]
           others == probes \ {probe}
<1>1. probe \in probes /\ probe = [exec |-> probe.exec, phase |-> probe.phase]
  BY DEF Moves, PoolInv
<1>2. [probe EXCEPT !.phase = phase] = moved
  BY <1>1
<1>3. probes' = others \cup {moved}
  BY <1>2 DEF Moves
<1>4. \A p \in others : p.exec # probe.exec
  BY <1>1 DEF PoolInv
<1>5. moved \notin others
  BY <1>4
<1>6. IsFiniteSet(others) /\ Cardinality(others) = Cardinality(probes) - 1 /\ Cardinality(probes) \in Nat
  BY <1>1, FS_RemoveElement, FS_CardinalityType DEF PoolInv
<1>7. IsFiniteSet(others \cup {moved}) /\ Cardinality(others \cup {moved}) = Cardinality(others) + 1
  BY <1>5, <1>6, FS_AddElement
<1> HIDE DEF others
<1>8. IsFiniteSet(probes') /\ Cardinality(probes') = Cardinality(probes)
  BY <1>3, <1>6, <1>7
<1>9. SlotsMatchGoroutines'
  BY <1>8 DEF PoolInv, SlotsMatchGoroutines
<1>10. \A p \in probes' : /\ p = [exec |-> p.exec, phase |-> p.phase]
                          /\ p.exec \in executed' /\ p.exec.at >= bootedAt'
  BY <1>1, <1>3 DEF PoolInv, others
<1>11. \A p, q \in probes' : p.exec = q.exec => p = q
  BY <1>3, <1>4 DEF PoolInv, others
<1> QED BY <1>8, <1>9, <1>10, <1>11 DEF PoolInv

\* The goroutine that ends gives its slot back.
LEMMA ReleaseKeepsPool ==
    ASSUME PoolInv, NEW probe, ReleaseSlot(probe) PROVE PoolInv'
<1>1. /\ probe \in probes /\ probes' = probes \ {probe} /\ slots' = slots - 1
      /\ UNCHANGED <<executed, bootedAt>>
  BY DEF ReleaseSlot, history
<1>2. /\ IsFiniteSet(probes') /\ Cardinality(probes') = Cardinality(probes) - 1
      /\ Cardinality(probes) \in Nat
  BY <1>1, FS_RemoveElement, FS_CardinalityType DEF PoolInv
<1>3. SlotsMatchGoroutines'
  BY <1>1, <1>2, SchedulerConstants DEF PoolInv, SlotsMatchGoroutines
<1> QED BY <1>1, <1>2, <1>3 DEF PoolInv

\* A goroutine that has just started runs an execution that nothing has started before.
NewGoroutinesAreFirst ==
    \A p \in probes' : p.phase = "probing" /\ p \notin probes => p.exec \notin executed

\* The inductive invariant.
SchedulerInv == ScheduleInv /\ PoolInv

\* Every step keeps the schedule consistent.
LEMMA NextKeepsSchedule ==
    ASSUME SchedulerInv, [Next]_vars PROVE ScheduleInv'
<1> USE DEF SchedulerInv
<1>1. ASSUME NEW probe \in probes PROVE process # "down"
  BY DEF ScheduleInv, DownInv
<1>2. CASE ClockTick BY <1>2, ClockKeepsSchedule
<1>3. CASE Boot BY <1>3, BootKeepsSchedule
<1>4. CASE ActivateConfiguration BY <1>4, ActivateKeepsSchedule
<1>5. CASE BeginReload BY <1>5, ReloadKeepsSchedule
<1>6. CASE SkipReload BY <1>6, SkipKeepsSchedule
<1>7. CASE \E m \in Monitors : RestoreSchedule(m) BY <1>7, RestoreKeepsSchedule
<1>8. CASE RemoveSchedulesExcept BY <1>8, RemoveKeepsSchedule
<1>9. CASE SwapJobs BY <1>9, SwapKeepsSchedule
<1>10. CASE BeginTick BY <1>10, BeginTickKeepsSchedule
<1>11. ASSUME NEW m \in Monitors, TickMisses(m) PROVE ScheduleInv'
  <2>1. Advance(m, 1) /\ executed' = executed \cup (IF 1 = 1 THEN {} ELSE {NextExecution(m)})
    BY <1>11 DEF TickMisses
  <2> QED BY <2>1, AdvanceKeepsSchedule
<1>12. ASSUME NEW m \in Monitors, TickStarts(m) PROVE ScheduleInv'
  <2>1. Advance(m, 0) /\ executed' = executed \cup (IF 0 = 1 THEN {} ELSE {NextExecution(m)})
    BY <1>12, SMTT(20) DEF TickStarts, NextExecution
  <2> QED BY <2>1, AdvanceKeepsSchedule
<1>13. CASE \E m \in Monitors : TickFails(m) BY <1>13, TickFailsKeepsSchedule
<1>14. CASE \/ StopTicking \/ SchedulerReturns \/ Shutdown \/ UNCHANGED vars
  BY <1>14, OtherSteps, Zenon
  DEF StopTicking, SchedulerReturns, Shutdown, vars, scheduleVars, table, goroutines, history
<1>15. CASE \/ ReceiveResult \/ RecordExecution \/ RecordFails \/ EngineSeesScheduler \/ DrainEnds
  BY <1>15, OtherSteps
  DEF ReceiveResult, RecordExecution, RecordFails, EngineSeesScheduler, DrainEnds, engineFrame,
      scheduleVars
<1>16. ASSUME NEW probe \in probes,
              ProbeReturns(probe) \/ SendResult(probe) \/ ClearRunning(probe) \/ ReleaseSlot(probe)
       PROVE  ScheduleInv'
  BY <1>1, <1>16, OtherSteps, Zenon
  DEF ProbeReturns, SendResult, ClearRunning, ReleaseSlot, scheduleVars, table, history
<1>17. CASE MainReturns \/ LoadFails \/ Crash
  BY <1>17, EndKeepsSchedule DEF MainReturns, LoadFails, Crash
<1> QED
  BY <1>2, <1>3, <1>4, <1>5, <1>6, <1>7, <1>8, <1>9, <1>10, <1>11, <1>12, <1>13, <1>14, <1>15,
     <1>16, <1>17, Zenon DEF Next

\* Every step keeps the worker pool consistent, and starts nothing a second time.
LEMMA NextKeepsPool ==
    ASSUME SchedulerInv, [Next]_vars PROVE PoolInv' /\ NewGoroutinesAreFirst
<1> USE DEF SchedulerInv
<1>1. CASE UNCHANGED <<probes, slots, executed, bootedAt>>
  BY <1>1, PoolUntouched DEF NewGoroutinesAreFirst
<1>2. CASE \/ ClockTick \/ ActivateConfiguration \/ BeginReload \/ SkipReload \/ UNCHANGED vars
  BY <1>1, <1>2
  DEF ClockTick, ActivateConfiguration, BeginReload, SkipReload, vars, goroutines, history
<1>3. CASE Boot
  <2>1. probes' = {} /\ slots' = 0
    BY <1>3, Zenon DEF Boot, goroutines, ScheduleInv, DownInv
  <2> QED BY <2>1, PoolEmpty DEF NewGoroutinesAreFirst
<1>4. CASE \/ \E m \in Monitors : RestoreSchedule(m)
           \/ RemoveSchedulesExcept \/ SwapJobs \/ BeginTick
  BY <1>1, <1>4, Zenon DEF RestoreSchedule, RemoveSchedulesExcept, SwapJobs, BeginTick, goroutines, history
<1>5. CASE \E m \in Monitors : TickMisses(m) \/ TickFails(m)
  BY <1>1, <1>5 DEF TickMisses, Advance, TickFails, history
<1>6. ASSUME NEW m \in Monitors, TickStarts(m) PROVE PoolInv' /\ NewGoroutinesAreFirst
  <2>1. /\ Advance(m, 0)
        /\ probes' = probes \cup {[exec |-> NextExecution(m), phase |-> "probing"]}
    BY <1>6 DEF TickStarts, NextExecution
  <2>2. stateRev[m] = jobs[m].rev /\ stateDue[m] = jobs[m].due
    BY <2>1, AdvanceParts
  <2>3. NextExecution(m) \notin executed
    BY <2>2, NextExecutionIsNew DEF ScheduleInv
  <2> QED BY <1>6, <2>1, <2>3, StartKeepsPool DEF NewGoroutinesAreFirst
<1>7. CASE StopTicking \/ SchedulerReturns \/ Shutdown
  BY <1>1, <1>7, Zenon DEF StopTicking, SchedulerReturns, Shutdown, history
<1>8. CASE \/ ReceiveResult \/ RecordExecution \/ RecordFails \/ EngineSeesScheduler \/ DrainEnds
  BY <1>1, <1>8
  DEF ReceiveResult, RecordExecution, RecordFails, EngineSeesScheduler, DrainEnds, engineFrame
<1>9. ASSUME NEW probe \in probes, NEW phase \in {"sending", "clearing", "releasing"},
             Moves(probe, phase), UNCHANGED <<slots, executed, bootedAt>>
      PROVE  PoolInv' /\ NewGoroutinesAreFirst
  <2>1. probe = [exec |-> probe.exec, phase |-> probe.phase]
    BY DEF PoolInv
  <2>2. [probe EXCEPT !.phase = phase].phase # "probing"
    BY <2>1
  <2> QED BY <1>9, <2>2, MoveKeepsPool, Zenon DEF Moves, NewGoroutinesAreFirst
<1>10. ASSUME NEW probe \in probes, ProbeReturns(probe) \/ SendResult(probe) \/ ClearRunning(probe)
       PROVE  PoolInv' /\ NewGoroutinesAreFirst
  BY <1>9, <1>10, Zenon DEF ProbeReturns, SendResult, ClearRunning, history
<1>11. ASSUME NEW probe \in probes, ReleaseSlot(probe) PROVE PoolInv' /\ NewGoroutinesAreFirst
  BY <1>11, ReleaseKeepsPool DEF ReleaseSlot, NewGoroutinesAreFirst
<1>12. CASE MainReturns \/ LoadFails \/ Crash
  BY <1>12, PoolEmpty, Zenon DEF MainReturns, LoadFails, Crash, ProcessEnds, VolatileReset,
     NewGoroutinesAreFirst
<1> QED
  BY <1>2, <1>3, <1>4, <1>5, <1>6, <1>7, <1>8, <1>10, <1>11, <1>12, Zenon DEF Next

\* The inductive invariant of the engine holds throughout.
THEOREM SchedulerInvariant == Spec => []SchedulerInv
<1>1. Init => SchedulerInv
  BY InitSchedule DEF SchedulerInv
<1>2. SchedulerInv /\ [Next]_vars => SchedulerInv'
  BY NextKeepsSchedule, NextKeepsPool DEF SchedulerInv
<1> QED BY <1>1, <1>2, PTL DEF Spec

\* The worker pool neither leaks nor over-commits, over starts, results, ends and crashes of
\* the process (Tick, the goroutine of Scheduler.start).
THEOREM SlotsAlwaysMatchGoroutines == Spec => []SlotsMatchGoroutines
<1>1. SchedulerInv => SlotsMatchGoroutines
  BY DEF SchedulerInv, PoolInv
<1> QED BY <1>1, SchedulerInvariant, PTL

\* Every instant of a monitor's grid was started once or counted as missed, for every
\* interval and jitter (Tick, AdvanceSchedule, RestoreSchedule).
THEOREM InstantsAlwaysAccountedFor == Spec => []InstantsAccountedFor
<1>1. SchedulerInv => InstantsAccountedFor
  BY DEF SchedulerInv, ScheduleInv
<1> QED BY <1>1, SchedulerInvariant, PTL

\* Outside Reconcile every job has the due time of its row (Reconcile, Tick).
THEOREM JobsAlwaysMatchState == Spec => []JobsMatchState
<1>1. SchedulerInv => JobsMatchState
  BY Zenon DEF SchedulerInv, ScheduleInv, JobInv, Loading, JobsMatchState
<1> QED BY <1>1, SchedulerInvariant, PTL

\* No instant before the load of the present process is run (RestoreSchedule).
THEOREM RestartsNeverReplay == Spec => []NoReplayAfterRestart
<1>1. SchedulerInv => NoReplayAfterRestart
  BY DEF SchedulerInv, PoolInv, NoReplayAfterRestart
<1> QED BY <1>1, SchedulerInvariant, PTL

\* No execution is started twice, also after a crash between AdvanceSchedule and start.
THEOREM ExecutionsStartOnce == Spec => NeverStartedTwice
<1>1. SchedulerInv /\ [Next]_vars => [NewGoroutinesAreFirst]_vars
  BY NextKeepsPool
<1>2. Spec => [][NewGoroutinesAreFirst]_vars
  BY <1>1, SchedulerInvariant, PTL DEF Spec
<1> QED BY <1>2 DEF NeverStartedTwice, NewGoroutinesAreFirst
=============================================================================
