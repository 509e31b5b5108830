-------------------------- MODULE AssignmentDomain --------------------------
(***************************************************************************)
(* The monitoring domain of the control plane: targets, monitors, agents,  *)
(* agent groups, memberships and assignments, the management requests that *)
(* change them, the revision bump each change owes to the agents it        *)
(* affects, and the configuration an agent's poll is answered with.        *)
(*                                                                         *)
(* A request is a sequence of statements, each its own transaction unless  *)
(* the code opens one: what it has read may be stale when it is used, and  *)
(* other requests and polls come in between.  One realm is modelled: every *)
(* lookup of an endpoint filters by the realm of the session.  A row is    *)
(* identified by its unique name.                                          *)
(***************************************************************************)
EXTENDS Naturals

CONSTANTS
    Agents, Groups, Targets, Monitors,  \* the names rows are created with
    Behaviours,         \* probe type, schedule and configuration of a monitor
    Workers,            \* the requests the control plane handles at one time
    None,               \* no row, no snapshot, no value read
    MaxRevision,        \* bound on the configuration revisions of an agent
    MaxMonitorRevision, \* bound on the revisions of a monitor
    MaxStops            \* bound on the requests that are cut off

ASSUME BoundsAreNatural ==
    MaxRevision \in Nat \ {0} /\ MaxMonitorRevision \in Nat /\ MaxStops \in Nat

\* Rows of monitors, as far as they are modelled.
MonitorRows == [target : Targets, behaviour : Behaviours, revision : Nat, live : BOOLEAN]

ASSUME NoneIsNoRow ==
    None \notin MonitorRows /\ None \notin {"enabled", "disabled", "archived"}

VARIABLES
    agent,      \* agent[a] and group[g]: None, "enabled" or "disabled"
    group,
    target,     \* target[t]: None, "enabled", "disabled" or "archived"
    monitor,    \* monitor[m]: None or a row [target, behaviour, revision, live]
    member,     \* pairs <<g, a>>
    direct,     \* pairs <<m, a>>: MonitorAgentAssignment
    grouped,    \* pairs <<m, g>>: MonitorAgentGroupAssignment
    desired,    \* the desired revision of an agent
    snapshot,   \* snapshot[a][r]: the content issued as revision r, or None
    poll,       \* the monitor ids a poll has read, or None; it holds the agent's lock
    request,    \* request[w]: what worker w has left to do
    owed,       \* history: agents a cut-off request has left without their bump
    stops       \* requests cut off so far

resources == <<agent, group, target, monitor>>
links == <<member, direct, grouped>>
stopped == <<owed, stops>>
vars == <<resources, links, desired, snapshot, poll, request, stopped>>

Idle == [at |-> "idle"]

Init ==
    /\ agent = [a \in Agents |-> None]
    /\ group = [g \in Groups |-> None]
    /\ target = [t \in Targets |-> None]
    /\ monitor = [m \in Monitors |-> None]
    /\ member = {} /\ direct = {} /\ grouped = {}
    /\ desired = [a \in Agents |-> 0]
    /\ snapshot = [a \in Agents |-> [r \in 1..MaxRevision |-> None]]
    /\ poll = [a \in Agents |-> None]
    /\ request = [w \in Workers |-> Idle]
    /\ owed = {} /\ stops = 0

---------------------------------------------------------------------------
(* The relation between monitors and agents, which the code computes three *)
(* times: for a poll, for a bump and for the dashboard.                    *)

Live(m) == monitor[m] # None /\ monitor[m].live

Running(m) == Live(m) /\ target[monitor[m].target] = "enabled"

\* _assigned_monitor_ids: what is assigned to the agent or to an enabled group of it.
AssignedMonitors(a) ==
    {m \in Monitors : <<m, a>> \in direct}
        \cup {m \in Monitors : \E g \in Groups :
                  group[g] = "enabled" /\ <<g, a>> \in member /\ <<m, g>> \in grouped}

\* What get_or_create_configuration makes of the ids it has read.
ContentOf(assigned) ==
    {[monitor |-> m, target |-> monitor[m].target, behaviour |-> monitor[m].behaviour,
      revision |-> monitor[m].revision] : m \in {n \in assigned : Running(n)}}

Content(a) == ContentOf(AssignedMonitors(a))

EnabledMembers(g) == {a \in Agents : <<g, a>> \in member /\ agent[a] = "enabled"}

\* effective_agent_ids: whom a change of a live monitor affects.
EffectiveAgents(m) ==
    {a \in Agents : <<m, a>> \in direct /\ agent[a] = "enabled"}
        \cup UNION {EnabledMembers(g) :
                       g \in {h \in Groups : group[h] = "enabled" /\ <<m, h>> \in grouped}}

\* Mutant: the group half of the dashboard's query forgets the state of the agent.
EffectivePairsAnyAgent ==
    {p \in Monitors \X Agents :
        /\ Running(p[1])
        /\ \/ p \in direct /\ agent[p[2]] = "enabled"
           \/ \E g \in Groups :
                group[g] = "enabled" /\ <<g, p[2]>> \in member /\ <<p[1], g>> \in grouped}

\* The effective_pairs of the dashboard's query.
EffectivePairs ==
    {p \in Monitors \X Agents :
        /\ Running(p[1]) /\ agent[p[2]] = "enabled"
        /\ \/ p \in direct
           \/ \E g \in Groups :
                group[g] = "enabled" /\ <<g, p[2]>> \in member /\ <<p[1], g>> \in grouped}

---------------------------------------------------------------------------
(* Revision bumps and polls. *)

Becomes(w, r) == request' = [request EXCEPT ![w] = r]

\* Worker w goes on to raise the revisions of the agents, or is done.
GoesOnToBump(w, agents) ==
    Becomes(w, IF agents = {} THEN Idle ELSE [at |-> "bump", todo |-> agents])

\* A request begins while every revision is below the bound.
Begins(w) == request[w] = Idle /\ \A a \in Agents : desired[a] < MaxRevision

\* The revisions of these agents go up by one.  Each bump waits for the lock a poll holds.
Raises(agents) ==
    /\ \A a \in agents : desired[a] < MaxRevision /\ poll[a] = None
    /\ desired' = [a \in Agents |-> desired[a] + IF a \in agents THEN 1 ELSE 0]
    /\ owed' = owed \ agents
    /\ UNCHANGED stops

\* One round of the loop of _bump_configuration_revisions, a transaction of its own.
Bump(w) ==
    /\ request[w].at = "bump"
    /\ \E a \in request[w].todo : Raises({a}) /\ GoesOnToBump(w, request[w].todo \ {a})
    /\ UNCHANGED <<resources, links, snapshot, poll>>

\* get_or_create_configuration locks the agent's state and reads the assignments ...
PollReads(a) ==
    /\ agent[a] = "enabled" /\ poll[a] = None
    /\ poll' = [poll EXCEPT ![a] = AssignedMonitors(a)]
    /\ UNCHANGED <<resources, links, desired, snapshot, request, stopped>>

\* Mutant: a snapshot of another content is written over.
PollReplaces(a) ==
    LET revision == IF desired[a] = 0 THEN 1 ELSE desired[a] IN
    /\ poll[a] # None
    /\ poll' = [poll EXCEPT ![a] = None]
    /\ snapshot' = [snapshot EXCEPT ![a][revision] = ContentOf(poll[a])]
    /\ desired' = [desired EXCEPT ![a] = revision]
    /\ UNCHANGED <<resources, links, request, stopped>>

\* ... then the monitors, and issues the snapshot of the revision.  When there is one with
\* another content the transaction is undone and the agent is told to try again.
PollAnswers(a) ==
    LET revision == IF desired[a] = 0 THEN 1 ELSE desired[a]
        content == ContentOf(poll[a])
    IN  /\ poll[a] # None
        /\ poll' = [poll EXCEPT ![a] = None]
        /\ \/ /\ snapshot[a][revision] \in {None, content}
              /\ snapshot' = [snapshot EXCEPT ![a][revision] = content]
              /\ desired' = [desired EXCEPT ![a] = revision]
           \/ /\ snapshot[a][revision] \notin {None, content}
              /\ UNCHANGED <<desired, snapshot>>
        /\ UNCHANGED <<resources, links, request, stopped>>

---------------------------------------------------------------------------
(* Creating rows: one INSERT, refused when the name is taken. *)

CreateAgent(a, state) ==
    /\ agent[a] = None
    /\ agent' = [agent EXCEPT ![a] = state]
    /\ UNCHANGED <<group, target, monitor, links, desired, snapshot, poll, request, stopped>>

CreateTarget(t, state) ==
    /\ target[t] = None
    /\ target' = [target EXCEPT ![t] = state]
    /\ UNCHANGED <<agent, group, monitor, links, desired, snapshot, poll, request, stopped>>

\* Groups are flat here: what a group runs does not depend on its parent.
CreateAgentGroup(g, state) ==
    /\ group[g] = None
    /\ group' = [group EXCEPT ![g] = state]
    /\ UNCHANGED <<agent, target, monitor, links, desired, snapshot, poll, request, stopped>>

---------------------------------------------------------------------------
(* Requests, statement by statement. *)

\* create_monitor checks the target its endpoint has read ...
ReadsTarget(w, m, t, b) ==
    /\ Begins(w) /\ target[t] = "enabled"
    /\ Becomes(w, [at |-> "create", monitor |-> m, target |-> t, behaviour |-> b])
    /\ UNCHANGED <<resources, links, desired, snapshot, poll, stopped>>

\* ... and inserts the row; a name already taken is answered 409.
CreateMonitor(w) ==
    LET r == request[w]
        row == [target |-> r.target, behaviour |-> r.behaviour, revision |-> 1, live |-> TRUE]
    IN  /\ r.at = "create"
        /\ monitor' = IF monitor[r.monitor] = None THEN [monitor EXCEPT ![r.monitor] = row] ELSE monitor
        /\ Becomes(w, Idle)
        /\ UNCHANGED <<agent, group, target, links, desired, snapshot, poll, stopped>>

AddAgentToGroup(w, g, a) ==
    /\ Begins(w) /\ group[g] # None /\ agent[a] # None
    /\ <<g, a>> \notin member
    /\ member' = member \cup {<<g, a>>}
    /\ Becomes(w, [at |-> "membership", group |-> g, agent |-> a])
    /\ UNCHANGED <<resources, direct, grouped, desired, snapshot, poll, stopped>>

RemoveAgentFromGroup(w, g, a) ==
    /\ Begins(w)
    /\ <<g, a>> \in member
    /\ member' = member \ {<<g, a>>}
    /\ Becomes(w, [at |-> "membership", group |-> g, agent |-> a])
    /\ UNCHANGED <<resources, direct, grouped, desired, snapshot, poll, stopped>>

HasAssignments(g) == \E m \in Monitors : <<m, g>> \in grouped

\* After a membership came or went: does the group have anything to run?
LooksForAssignments(w) ==
    /\ request[w].at = "membership"
    /\ GoesOnToBump(w, IF HasAssignments(request[w].group) THEN {request[w].agent} ELSE {})
    /\ UNCHANGED <<resources, links, desired, snapshot, poll, stopped>>

\* The checks of assign_monitor_to_agent, on rows its endpoint has read.
ReadsMonitorAndAgent(w, m, a) ==
    /\ Begins(w) /\ Live(m) /\ agent[a] = "enabled"
    /\ Becomes(w, [at |-> "assign", monitor |-> m, agent |-> a])
    /\ UNCHANGED <<resources, links, desired, snapshot, poll, stopped>>

AssignMonitorToAgent(w) ==
    LET new == <<request[w].monitor, request[w].agent>> IN
    /\ request[w].at = "assign"
    /\ direct' = direct \cup {new}
    /\ GoesOnToBump(w, IF new \in direct THEN {} ELSE {request[w].agent})
    /\ UNCHANGED <<resources, member, grouped, desired, snapshot, poll, stopped>>

\* The checks of assign_monitor_to_agent_group.
ReadsMonitorAndGroup(w, m, g) ==
    /\ Begins(w) /\ Live(m) /\ group[g] = "enabled"
    /\ Becomes(w, [at |-> "assign_group", monitor |-> m, group |-> g])
    /\ UNCHANGED <<resources, links, desired, snapshot, poll, stopped>>

AssignMonitorToAgentGroup(w) ==
    LET new == <<request[w].monitor, request[w].group>> IN
    /\ request[w].at = "assign_group"
    /\ grouped' = grouped \cup {new}
    /\ Becomes(w, IF new \in grouped THEN Idle ELSE [at |-> "members", group |-> request[w].group])
    /\ UNCHANGED <<resources, member, direct, desired, snapshot, poll, stopped>>

ReadsMembers(w) ==
    /\ request[w].at = "members"
    /\ GoesOnToBump(w, EnabledMembers(request[w].group))
    /\ UNCHANGED <<resources, links, desired, snapshot, poll, stopped>>

\* Mutant: the agent is not told.
UnassignsSilently(w, m, a) ==
    /\ Begins(w)
    /\ <<m, a>> \in direct
    /\ direct' = direct \ {<<m, a>>}
    /\ Becomes(w, Idle)
    /\ UNCHANGED <<resources, member, grouped, desired, snapshot, poll, stopped>>

UnassignMonitorFromAgent(w, m, a) ==
    /\ Begins(w)
    /\ <<m, a>> \in direct
    /\ direct' = direct \ {<<m, a>>}
    /\ GoesOnToBump(w, {a})
    /\ UNCHANGED <<resources, member, grouped, desired, snapshot, poll, stopped>>

\* unassign_monitor_from_agent_group reads the members before it deletes.
ReadsMembersToUnassign(w, m, g) ==
    /\ Begins(w) /\ monitor[m] # None /\ group[g] # None
    /\ Becomes(w, [at |-> "unassign_group", monitor |-> m, group |-> g, agents |-> EnabledMembers(g)])
    /\ UNCHANGED <<resources, links, desired, snapshot, poll, stopped>>

UnassignMonitorFromAgentGroup(w) ==
    LET old == <<request[w].monitor, request[w].group>> IN
    /\ request[w].at = "unassign_group"
    /\ grouped' = grouped \ {old}
    /\ GoesOnToBump(w, IF old \in grouped THEN request[w].agents ELSE {})
    /\ UNCHANGED <<resources, member, direct, desired, snapshot, poll, stopped>>

\* update_monitor reads the monitor and its new target; nothing changed ends it.
ReadsMonitor(w, m, t, b) ==
    /\ Begins(w) /\ Live(m) /\ target[t] = "enabled"
    /\ <<t, b>> # <<monitor[m].target, monitor[m].behaviour>>
    /\ monitor[m].revision < MaxMonitorRevision
    /\ Becomes(w, [at |-> "save", monitor |-> m, target |-> t, behaviour |-> b,
                   revision |-> monitor[m].revision + 1])
    /\ UNCHANGED <<resources, links, desired, snapshot, poll, stopped>>

\* Mutant: the revision of the monitor is left out of the saved fields.
SavesMonitorSameRevision(w) ==
    LET r == request[w] IN
    /\ r.at = "save"
    /\ monitor' = [monitor EXCEPT ![r.monitor].target = r.target, ![r.monitor].behaviour = r.behaviour]
    /\ Becomes(w, [at |-> "saved", monitor |-> r.monitor])
    /\ UNCHANGED <<agent, group, target, links, desired, snapshot, poll, stopped>>

\* The save writes what was computed from the row as it was read, enabled left out.
SavesMonitor(w) ==
    LET r == request[w] IN
    /\ r.at = "save"
    /\ monitor' = [monitor EXCEPT ![r.monitor] =
                       [@ EXCEPT !.target = r.target, !.behaviour = r.behaviour,
                                 !.revision = r.revision]]
    /\ Becomes(w, [at |-> "saved", monitor |-> r.monitor])
    /\ UNCHANGED <<agent, group, target, links, desired, snapshot, poll, stopped>>

ReadsEffectiveAgents(w) ==
    /\ request[w].at = "saved"
    /\ GoesOnToBump(w, EffectiveAgents(request[w].monitor))
    /\ UNCHANGED <<resources, links, desired, snapshot, poll, stopped>>

LiveMonitorsOf(t) == {m \in Monitors : Live(m) /\ monitor[m].target = t}

\* The transaction of archive_target holds the lock of the target's row and reads whom the
\* change affects; what it has written is not visible yet.
ArchiveTargetReads(w, t) ==
    /\ Begins(w) /\ target[t] \in {"enabled", "disabled"}
    /\ \A v \in Workers : request[v].at = "archive" => request[v].target # t
    /\ Becomes(w, [at |-> "archive", target |-> t,
                   agents |-> UNION {EffectiveAgents(m) : m \in LiveMonitorsOf(t)}])
    /\ UNCHANGED <<resources, links, desired, snapshot, poll, stopped>>

\* Mutant: the monitors keep running.
ArchiveTargetAlone(w) ==
    /\ request[w].at = "archive"
    /\ target' = [target EXCEPT ![request[w].target] = "archived"]
    /\ Raises(request[w].agents)
    /\ Becomes(w, Idle)
    /\ UNCHANGED <<agent, group, monitor, links, snapshot, poll>>

\* It commits with the target, its monitors and the revisions of the agents changed at once.
ArchiveTarget(w) ==
    LET t == request[w].target IN
    /\ request[w].at = "archive"
    /\ target' = [target EXCEPT ![t] = "archived"]
    /\ monitor' = [m \in Monitors |->
                      IF m \in LiveMonitorsOf(t) THEN [monitor[m] EXCEPT !.live = FALSE] ELSE monitor[m]]
    /\ Raises(request[w].agents)
    /\ Becomes(w, Idle)
    /\ UNCHANGED <<agent, group, links, snapshot, poll>>

\* The agents worker w is on its way to bump for what it has changed already.
WillBump(w) ==
    LET r == request[w] IN
    IF r.at = "bump" THEN r.todo
    ELSE IF r.at = "membership" THEN (IF HasAssignments(r.group) THEN {r.agent} ELSE {})
    ELSE IF r.at = "members" THEN EnabledMembers(r.group)
    ELSE IF r.at = "saved" THEN EffectiveAgents(r.monitor)
    ELSE {}

\* The process dies, or a later statement fails: what is committed stays, the rest is not done.
CutOff(w) ==
    /\ request[w] # Idle /\ stops < MaxStops
    /\ Becomes(w, Idle)
    /\ owed' = owed \cup WillBump(w)
    /\ stops' = stops + 1
    /\ UNCHANGED <<resources, links, desired, snapshot, poll>>

---------------------------------------------------------------------------

Creates ==
    \E state \in {"enabled", "disabled"} :
        \/ \E a \in Agents : CreateAgent(a, state)
        \/ \E t \in Targets : CreateTarget(t, state)
        \/ \E g \in Groups : CreateAgentGroup(g, state)

RequestBegins(w) ==
    \/ \E g \in Groups, a \in Agents : AddAgentToGroup(w, g, a) \/ RemoveAgentFromGroup(w, g, a)
    \/ \E m \in Monitors, a \in Agents :
         ReadsMonitorAndAgent(w, m, a) \/ UnassignMonitorFromAgent(w, m, a)
    \/ \E m \in Monitors, g \in Groups :
         ReadsMonitorAndGroup(w, m, g) \/ ReadsMembersToUnassign(w, m, g)
    \/ \E m \in Monitors, t \in Targets, b \in Behaviours :
         ReadsTarget(w, m, t, b) \/ ReadsMonitor(w, m, t, b)
    \/ \E t \in Targets : ArchiveTargetReads(w, t)

RequestContinues(w) ==
    \/ CreateMonitor(w) \/ LooksForAssignments(w) \/ AssignMonitorToAgent(w) \/ AssignMonitorToAgentGroup(w)
    \/ ReadsMembers(w) \/ UnassignMonitorFromAgentGroup(w) \/ SavesMonitor(w)
    \/ ReadsEffectiveAgents(w) \/ ArchiveTarget(w) \/ Bump(w)

Next ==
    \/ Creates
    \/ \E w \in Workers : RequestBegins(w) \/ RequestContinues(w) \/ CutOff(w)
    \/ \E a \in Agents : PollReads(a) \/ PollAnswers(a)

Spec == Init /\ [][Next]_vars

---------------------------------------------------------------------------
(* Properties. *)

\* The desired revision of an agent stands for what the agent should run: its snapshot, once
\* issued, is the present content, unless a request that changed the content is still on its
\* way to the bump or was cut off before it.
RevisionCoversContent ==
    \A a \in Agents :
        \/ desired[a] = 0
        \/ snapshot[a][desired[a]] \in {None, Content(a)}
        \/ a \in owed
        \/ \E w \in Workers : a \in WillBump(w)

\* A monitor revision names one behaviour: no agent is ever told of two under one number.
MonitorRevisionIdentifies ==
    \A a, b \in Agents : \A r, s \in 1..MaxRevision :
        snapshot[a][r] # None /\ snapshot[b][s] # None =>
            \A e \in snapshot[a][r], f \in snapshot[b][s] :
                e.monitor = f.monitor /\ e.revision = f.revision => e = f

\* The three computations agree: the dashboard shows exactly the pairs a poll serves, and a
\* change of a running monitor bumps exactly the agents it is served to.
ViewsAgree ==
    \A a \in Agents, m \in Monitors : Running(m) =>
        /\ <<m, a>> \in EffectivePairs <=> (agent[a] = "enabled" /\ m \in AssignedMonitors(a))
        /\ <<m, a>> \in EffectivePairs <=> a \in EffectiveAgents(m)

\* Nothing archived is served: no live monitor is left on an archived target.
ArchivedTargetIsSilent ==
    \A m \in Monitors : Live(m) => target[monitor[m].target] = "enabled"

\* Issued snapshots and revisions only grow: a snapshot is never replaced, a revision never
\* goes down, a monitor never comes back from the archive.
HistoryOnlyGrows ==
    [][ /\ \A a \in Agents : desired'[a] >= desired[a]
        /\ \A a \in Agents : \A r \in 1..MaxRevision :
             snapshot[a][r] # None => snapshot'[a][r] = snapshot[a][r]
        /\ \A m \in Monitors : monitor[m] # None /\ ~monitor[m].live =>
             monitor'[m] # None /\ ~monitor'[m].live ]_vars

=============================================================================
