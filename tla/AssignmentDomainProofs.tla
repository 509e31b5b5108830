----------------------- MODULE AssignmentDomainProofs -----------------------
(***************************************************************************)
(* Proofs about AssignmentDomain, for any number of rows and however many  *)
(* requests are handled at one time: the types, that what is issued never  *)
(* changes, and that the three views of an assignment agree.               *)
(***************************************************************************)
EXTENDS AssignmentDomain, TLAPS

Entries == [monitor : Monitors, target : Targets, behaviour : Behaviours, revision : Nat]

RequestStates ==
    [at : {"idle"}] \cup [at : {"bump"}, todo : SUBSET Agents]
        \cup [at : {"create"}, monitor : Monitors, target : Targets, behaviour : Behaviours]
        \cup [at : {"membership"}, group : Groups, agent : Agents]
        \cup [at : {"assign"}, monitor : Monitors, agent : Agents]
        \cup [at : {"assign_group"}, monitor : Monitors, group : Groups]
        \cup [at : {"members"}, group : Groups]
        \cup [at : {"unassign_group"}, monitor : Monitors, group : Groups, agents : SUBSET Agents]
        \cup [at : {"save"}, monitor : Monitors, target : Targets, behaviour : Behaviours,
              revision : Nat]
        \cup [at : {"saved"}, monitor : Monitors]
        \cup [at : {"archive"}, target : Targets, agents : SUBSET Agents]

ResourceTypes ==
    /\ agent \in [Agents -> {None, "enabled", "disabled"}]
    /\ group \in [Groups -> {None, "enabled", "disabled"}]
    /\ target \in [Targets -> {None, "enabled", "disabled", "archived"}]
    /\ monitor \in [Monitors -> MonitorRows \cup {None}]

LinkTypes ==
    member \subseteq Groups \X Agents /\ direct \subseteq Monitors \X Agents
        /\ grouped \subseteq Monitors \X Groups

RevisionTypes ==
    /\ desired \in [Agents -> 0..MaxRevision]
    /\ snapshot \in [Agents -> [1..MaxRevision -> (SUBSET Entries) \cup {None}]]
    /\ poll \in [Agents -> (SUBSET Monitors) \cup {None}]

RequestTypes == request \in [Workers -> RequestStates]

Types == ResourceTypes /\ LinkTypes /\ RevisionTypes /\ RequestTypes

\* Rows that memberships, assignments and requests name exist.
Known ==
    /\ \A g \in Groups, a \in Agents : <<g, a>> \in member => group[g] # None /\ agent[a] # None
    /\ \A m \in Monitors, a \in Agents :
           <<m, a>> \in direct => monitor[m] # None /\ agent[a] # None
    /\ \A m \in Monitors, g \in Groups :
           <<m, g>> \in grouped => monitor[m] # None /\ group[g] # None
    /\ \A w \in Workers :
           /\ request[w].at = "assign" =>
                  monitor[request[w].monitor] # None /\ agent[request[w].agent] # None
           /\ request[w].at = "assign_group" =>
                  monitor[request[w].monitor] # None /\ group[request[w].group] # None
           /\ request[w].at = "save" => monitor[request[w].monitor] # None

\* No step takes a row away; agents and groups stay as they are, and a monitor
\* that is archived stays archived.
RowsStay ==
    /\ \A a \in Agents : agent[a] # None => agent'[a] = agent[a]
    /\ \A g \in Groups : group[g] # None => group'[g] = group[g]
    /\ \A m \in Monitors : monitor[m] # None => monitor'[m] # None
    /\ \A m \in Monitors : monitor[m] # None /\ ~monitor[m].live => ~monitor'[m].live

---------------------------------------------------------------------------
(* Types. *)

\* What a request holds depends on where it is.
LEMMA RequestParts ==
    ASSUME NEW q \in RequestStates
    PROVE  /\ q.at = "bump" => q.todo \subseteq Agents
           /\ q.at = "create" => /\ q.monitor \in Monitors /\ q.target \in Targets
                                 /\ q.behaviour \in Behaviours
           /\ q.at = "membership" => q.group \in Groups /\ q.agent \in Agents
           /\ q.at = "assign" => q.monitor \in Monitors /\ q.agent \in Agents
           /\ q.at = "assign_group" => q.monitor \in Monitors /\ q.group \in Groups
           /\ q.at = "members" => q.group \in Groups
           /\ q.at = "unassign_group" => /\ q.monitor \in Monitors /\ q.group \in Groups
                                         /\ q.agents \subseteq Agents
           /\ q.at = "save" => /\ q.monitor \in Monitors /\ q.target \in Targets
                               /\ q.behaviour \in Behaviours /\ q.revision \in Nat
           /\ q.at = "saved" => q.monitor \in Monitors
           /\ q.at = "archive" => q.target \in Targets /\ q.agents \subseteq Agents
BY Zenon DEF RequestStates

\* Effective agents are agents, and a content is made of entries.
LEMMA ReadsAreTyped ==
    /\ \A m : EffectiveAgents(m) \subseteq Agents
    /\ \A g : EnabledMembers(g) \subseteq Agents
    /\ \A a : AssignedMonitors(a) \subseteq Monitors
    /\ ResourceTypes => \A S \in SUBSET Monitors : ContentOf(S) \subseteq Entries
<1>1. \A g : EnabledMembers(g) \subseteq Agents
  BY DEF EnabledMembers
<1>2. \A m : EffectiveAgents(m) \subseteq Agents
  BY <1>1, Zenon DEF EffectiveAgents
<1>3. \A a : AssignedMonitors(a) \subseteq Monitors
  BY DEF AssignedMonitors
<1>4. ASSUME ResourceTypes, NEW S \in SUBSET Monitors
      PROVE  ContentOf(S) \subseteq Entries
  <2>1. \A m \in S : Running(m) => monitor[m] \in MonitorRows
    BY <1>4 DEF Running, Live, ResourceTypes
  <2> QED BY <2>1 DEF ContentOf, Entries, MonitorRows
<1> QED BY <1>1, <1>2, <1>3, <1>4

\* Archiving touches only live.
LEMMA RowArchived ==
    ASSUME NEW row \in MonitorRows
    PROVE  LET new == [row EXCEPT !.live = FALSE]
           IN  /\ new \in MonitorRows /\ new.target = row.target /\ new.behaviour = row.behaviour
               /\ new.revision = row.revision /\ ~new.live
BY Zenon DEF MonitorRows

\* The steps that change no row.
LEMMA RowsUntouched ==
    ASSUME ResourceTypes, UNCHANGED resources
    PROVE  ResourceTypes' /\ RowsStay
BY DEF ResourceTypes, resources, RowsStay

\* The three INSERTs.
LEMMA CreatesRows ==
    ASSUME ResourceTypes, Creates
    PROVE  ResourceTypes' /\ RowsStay
BY DEF ResourceTypes, RowsStay, Creates, CreateAgent, CreateTarget, CreateAgentGroup

\* create_monitor.
LEMMA CreateMonitorRows ==
    ASSUME Types, NEW w \in Workers, CreateMonitor(w)
    PROVE  ResourceTypes' /\ RowsStay
<1>1. /\ request[w].monitor \in Monitors /\ request[w].target \in Targets
      /\ request[w].behaviour \in Behaviours
  BY RequestParts DEF Types, RequestTypes, CreateMonitor
<1>2. PICK row \in MonitorRows :
          row = [target |-> request[w].target, behaviour |-> request[w].behaviour,
                 revision |-> 1, live |-> TRUE]
  BY <1>1, Zenon DEF MonitorRows
<1>3. /\ monitor' = IF monitor[request[w].monitor] = None
                    THEN [monitor EXCEPT ![request[w].monitor] = row] ELSE monitor
      /\ UNCHANGED <<agent, group, target>>
  BY <1>2 DEF CreateMonitor
<1> QED BY <1>1, <1>3 DEF Types, ResourceTypes, RowsStay

\* update_monitor.
LEMMA SavesMonitorRows ==
    ASSUME Types, Known, NEW w \in Workers, SavesMonitor(w)
    PROVE  /\ ResourceTypes' /\ RowsStay
           /\ UNCHANGED <<agent, group, target>>
           /\ \A n \in Monitors \ {request[w].monitor} : monitor'[n] = monitor[n]
           /\ LET new == monitor'[request[w].monitor]
              IN  /\ new.target = request[w].target /\ new.behaviour = request[w].behaviour
                  /\ new.revision = request[w].revision
                  /\ new.live = monitor[request[w].monitor].live
<1> DEFINE m == request[w].monitor
<1>1. /\ m \in Monitors /\ request[w].target \in Targets
      /\ request[w].behaviour \in Behaviours /\ request[w].revision \in Nat
  BY RequestParts DEF Types, RequestTypes, SavesMonitor
<1>2. monitor[m] \in MonitorRows
  BY <1>1 DEF Known, SavesMonitor, Types, ResourceTypes
<1>3. PICK new : /\ new = [monitor[m] EXCEPT !.target = request[w].target,
                               !.behaviour = request[w].behaviour, !.revision = request[w].revision]
                 /\ new \in MonitorRows
                 /\ new.target = request[w].target /\ new.behaviour = request[w].behaviour
                 /\ new.revision = request[w].revision /\ new.live = monitor[m].live
  <2>1. PICK row \in MonitorRows, t \in Targets, b \in Behaviours, n \in Nat :
            /\ row = monitor[m] /\ t = request[w].target
            /\ b = request[w].behaviour /\ n = request[w].revision
    BY <1>1, <1>2
  <2>2. PICK new : new = [row EXCEPT !.target = t, !.behaviour = b, !.revision = n]
    OBVIOUS
  <2>3. new.target = t /\ new.behaviour = b /\ new.revision = n
    BY <2>2 DEF MonitorRows
  <2>4. new.live = row.live
    BY <2>2 DEF MonitorRows
  <2>5. new = [f \in {"target", "behaviour", "revision", "live"} |-> new[f]]
    BY <2>2, Zenon DEF MonitorRows
  <2>6. new \in MonitorRows
    BY <2>3, <2>4, <2>5 DEF MonitorRows
  <2> QED BY <2>1, <2>2, <2>3, <2>4, <2>6, Zenon
<1>4. monitor' = [monitor EXCEPT ![m] = new] /\ UNCHANGED <<agent, group, target>>
  BY <1>1, <1>3 DEF SavesMonitor
<1>5. /\ monitor'[m] = new /\ \A n \in Monitors \ {m} : monitor'[n] = monitor[n]
      /\ monitor' \in [Monitors -> MonitorRows \cup {None}]
  BY <1>1, <1>3, <1>4, Zenon DEF Types, ResourceTypes
<1>6. ResourceTypes'
  BY <1>4, <1>5 DEF Types, ResourceTypes
<1>7. ASSUME NEW n \in Monitors, monitor[n] # None
      PROVE  monitor'[n] # None /\ (~monitor[n].live => ~monitor'[n].live)
  <2>1. CASE n = m
    BY <1>3, <1>5, <2>1, NoneIsNoRow, Zenon
  <2>2. CASE n # m
    BY <1>5, <1>7, <2>2
  <2> QED BY <2>1, <2>2
<1>8. RowsStay
  BY <1>4, <1>7 DEF RowsStay
<1> QED BY <1>3, <1>4, <1>5, <1>6, <1>8

\* archive_target.
LEMMA ArchiveTargetRows ==
    ASSUME Types, NEW w \in Workers, ArchiveTarget(w)
    PROVE  /\ ResourceTypes' /\ RowsStay
           /\ UNCHANGED <<agent, group>>
           /\ target' = [target EXCEPT ![request[w].target] = "archived"]
           /\ \A n \in Monitors : n \notin LiveMonitorsOf(request[w].target) => monitor'[n] = monitor[n]
           /\ \A n \in LiveMonitorsOf(request[w].target) :
                  /\ monitor'[n] # None /\ ~monitor'[n].live
                  /\ monitor'[n].target = monitor[n].target
                  /\ monitor'[n].behaviour = monitor[n].behaviour
                  /\ monitor'[n].revision = monitor[n].revision
<1> DEFINE t == request[w].target
<1>1. t \in Targets
  BY RequestParts DEF Types, RequestTypes, ArchiveTarget
<1>2. /\ target' = [target EXCEPT ![t] = "archived"] /\ UNCHANGED <<agent, group>>
      /\ monitor' = [n \in Monitors |-> IF n \in LiveMonitorsOf(t)
                                        THEN [monitor[n] EXCEPT !.live = FALSE] ELSE monitor[n]]
  BY DEF ArchiveTarget
<1>3. \A n \in Monitors : n \notin LiveMonitorsOf(t) => monitor'[n] = monitor[n]
  BY <1>2
<1>4. ASSUME NEW n \in LiveMonitorsOf(t)
      PROVE  /\ n \in Monitors /\ monitor'[n] \in MonitorRows /\ ~monitor'[n].live
             /\ monitor'[n].target = monitor[n].target
             /\ monitor'[n].behaviour = monitor[n].behaviour
             /\ monitor'[n].revision = monitor[n].revision
  <2>1. n \in Monitors /\ monitor[n] \in MonitorRows
    BY DEF LiveMonitorsOf, Live, Types, ResourceTypes
  <2>2. monitor'[n] = [monitor[n] EXCEPT !.live = FALSE]
    BY <1>2, <2>1
  <2> QED BY <2>1, <2>2, RowArchived
<1>5. \A n \in Monitors : monitor'[n] \in MonitorRows \cup {None}
  BY <1>3, <1>4 DEF Types, ResourceTypes
<1>6. ResourceTypes'
  BY <1>1, <1>2, <1>5 DEF Types, ResourceTypes
<1>7. ASSUME NEW n \in Monitors, monitor[n] # None
      PROVE  monitor'[n] # None /\ (~monitor[n].live => ~monitor'[n].live)
  <2>1. CASE n \in LiveMonitorsOf(t)
    BY <1>4, <2>1, NoneIsNoRow
  <2>2. CASE n \notin LiveMonitorsOf(t)
    BY <1>3, <1>7, <2>2
  <2> QED BY <2>1, <2>2
<1>8. RowsStay
  BY <1>2, <1>7 DEF RowsStay
<1> QED BY <1>2, <1>3, <1>4, <1>6, <1>8, NoneIsNoRow, Zenon

\* The steps that change a row.
LEMMA RowSteps ==
    ASSUME Next
    PROVE  \/ UNCHANGED resources
           \/ Creates
           \/ \E w \in Workers : CreateMonitor(w) \/ SavesMonitor(w) \/ ArchiveTarget(w)
<1>1. ASSUME NEW w \in Workers, RequestBegins(w) PROVE UNCHANGED resources
  BY <1>1, Zenon DEF RequestBegins, AddAgentToGroup, RemoveAgentFromGroup, ReadsMonitorAndAgent,
     UnassignMonitorFromAgent, ReadsMonitorAndGroup, ReadsMembersToUnassign, ReadsTarget,
     ReadsMonitor, ArchiveTargetReads, resources
<1>2. ASSUME NEW w \in Workers, RequestContinues(w) \/ CutOff(w),
             ~CreateMonitor(w), ~SavesMonitor(w), ~ArchiveTarget(w)
      PROVE  UNCHANGED resources
  BY <1>2, Zenon DEF RequestContinues, CutOff, LooksForAssignments, AssignMonitorToAgent,
     AssignMonitorToAgentGroup, ReadsMembers, UnassignMonitorFromAgentGroup,
     ReadsEffectiveAgents, Bump, resources
<1>3. ASSUME NEW a \in Agents, PollReads(a) \/ PollAnswers(a) PROVE UNCHANGED resources
  BY <1>3 DEF PollReads, PollAnswers, resources
<1> QED BY <1>1, <1>2, <1>3 DEF Next

\* What any step makes of the rows.
LEMMA RowsChange ==
    ASSUME Types, Known, Next
    PROVE  ResourceTypes' /\ RowsStay
<1>1. ResourceTypes
  BY DEF Types
<1> QED
  BY <1>1, RowSteps, RowsUntouched, CreatesRows, CreateMonitorRows, SavesMonitorRows,
     ArchiveTargetRows

\* A request goes on to a state of its kind.
LEMMA Becoming ==
    ASSUME RequestTypes, NEW w \in Workers, NEW x \in RequestStates, Becomes(w, x)
    PROVE  RequestTypes' /\ request'[w] = x /\ \A v \in Workers \ {w} : request'[v] = request[v]
BY DEF RequestTypes, Becomes

\* A request goes on to its bumps.
LEMMA GoingOn ==
    ASSUME RequestTypes, NEW w \in Workers, NEW S \in SUBSET Agents, GoesOnToBump(w, S)
    PROVE  /\ RequestTypes' /\ \A v \in Workers \ {w} : request'[v] = request[v]
           /\ request'[w].at \in {"idle", "bump"}
           /\ S = IF request'[w].at = "bump" THEN request'[w].todo ELSE {}
<1>1. CASE S = {}
  <2>1. PICK x \in RequestStates : x = Idle /\ x.at = "idle"
    <3>1. Idle \in RequestStates
      BY DEF RequestStates, Idle
    <3>2. Idle.at = "idle"
      BY DEF Idle
    <3> QED BY <3>1, <3>2
  <2>2. Becomes(w, x)
    BY <1>1, <2>1 DEF GoesOnToBump
  <2> QED BY <1>1, <2>1, <2>2, Becoming
<1>2. CASE S # {}
  <2>1. PICK x \in RequestStates : x = [at |-> "bump", todo |-> S] /\ x.at = "bump" /\ x.todo = S
    <3>1. [at |-> "bump", todo |-> S] \in RequestStates
      BY DEF RequestStates
    <3> WITNESS [at |-> "bump", todo |-> S] \in RequestStates
    <3> QED OBVIOUS
  <2>2. Becomes(w, x)
    BY <1>2, <2>1 DEF GoesOnToBump
  <2> QED BY <1>2, <2>1, <2>2, Becoming
<1> QED BY <1>1, <1>2

\* A request that begins holds what it has read.
LEMMA BeginsTyped ==
    ASSUME Types, NEW w \in Workers, RequestBegins(w)
    PROVE  RequestTypes'
<1> USE DEF Types
<1>1. ASSUME NEW x \in RequestStates, Becomes(w, x) PROVE RequestTypes'
  BY <1>1, Becoming
<1>2. ASSUME NEW g \in Groups, NEW a \in Agents,
             AddAgentToGroup(w, g, a) \/ RemoveAgentFromGroup(w, g, a)
      PROVE  RequestTypes'
  <2>1. [at |-> "membership", group |-> g, agent |-> a] \in RequestStates
    BY DEF RequestStates
  <2> QED BY <1>1, <1>2, <2>1 DEF AddAgentToGroup, RemoveAgentFromGroup
<1>3. ASSUME NEW m \in Monitors, NEW a \in Agents, ReadsMonitorAndAgent(w, m, a)
      PROVE  RequestTypes'
  <2>1. [at |-> "assign", monitor |-> m, agent |-> a] \in RequestStates
    BY DEF RequestStates
  <2> QED BY <1>1, <1>3, <2>1 DEF ReadsMonitorAndAgent
<1>4. ASSUME NEW m \in Monitors, NEW a \in Agents, UnassignMonitorFromAgent(w, m, a)
      PROVE  RequestTypes'
  BY <1>4, GoingOn DEF UnassignMonitorFromAgent
<1>5. ASSUME NEW m \in Monitors, NEW g \in Groups, ReadsMonitorAndGroup(w, m, g)
      PROVE  RequestTypes'
  <2>1. [at |-> "assign_group", monitor |-> m, group |-> g] \in RequestStates
    BY DEF RequestStates
  <2> QED BY <1>1, <1>5, <2>1 DEF ReadsMonitorAndGroup
<1>6. ASSUME NEW m \in Monitors, NEW g \in Groups, ReadsMembersToUnassign(w, m, g)
      PROVE  RequestTypes'
  <2>1. PICK S \in SUBSET Agents : S = EnabledMembers(g)
    BY ReadsAreTyped
  <2>2. [at |-> "unassign_group", monitor |-> m, group |-> g, agents |-> S] \in RequestStates
    BY DEF RequestStates
  <2> QED BY <1>1, <1>6, <2>1, <2>2 DEF ReadsMembersToUnassign
<1>7. ASSUME NEW m \in Monitors, NEW t \in Targets, NEW b \in Behaviours, ReadsTarget(w, m, t, b)
      PROVE  RequestTypes'
  <2>1. [at |-> "create", monitor |-> m, target |-> t, behaviour |-> b] \in RequestStates
    BY DEF RequestStates
  <2> QED BY <1>1, <1>7, <2>1 DEF ReadsTarget
<1>8. ASSUME NEW m \in Monitors, NEW t \in Targets, NEW b \in Behaviours, ReadsMonitor(w, m, t, b)
      PROVE  RequestTypes'
  <2>1. PICK n \in Nat : n = monitor[m].revision + 1
    BY <1>8 DEF ReadsMonitor, Live, ResourceTypes, MonitorRows
  <2>2. [at |-> "save", monitor |-> m, target |-> t, behaviour |-> b, revision |-> n]
            \in RequestStates
    BY Zenon DEF RequestStates
  <2> QED BY <1>1, <1>8, <2>1, <2>2 DEF ReadsMonitor
<1>9. ASSUME NEW t \in Targets, ArchiveTargetReads(w, t) PROVE RequestTypes'
  <2>1. PICK S \in SUBSET Agents : S = UNION {EffectiveAgents(m) : m \in LiveMonitorsOf(t)}
    BY ReadsAreTyped, Zenon
  <2>2. [at |-> "archive", target |-> t, agents |-> S] \in RequestStates
    BY DEF RequestStates
  <2> QED BY <1>1, <1>9, <2>1, <2>2 DEF ArchiveTargetReads
<1> QED
  BY <1>2, <1>3, <1>4, <1>5, <1>6, <1>7, <1>8, <1>9 DEF RequestBegins

\* A request that goes on.
LEMMA ContinuesTyped ==
    ASSUME Types, NEW w \in Workers, RequestContinues(w) \/ CutOff(w)
    PROVE  RequestTypes'
<1> USE DEF Types
<1>1. ASSUME NEW x \in RequestStates, Becomes(w, x) PROVE RequestTypes'
  BY <1>1, Becoming
<1>2. Idle \in RequestStates
  BY DEF Idle, RequestStates
<1>3. request[w] \in RequestStates
  BY DEF RequestTypes
<1>4. CASE CreateMonitor(w) \/ ArchiveTarget(w) \/ CutOff(w)
  BY <1>1, <1>2, <1>4 DEF CreateMonitor, ArchiveTarget, CutOff
<1>5. CASE LooksForAssignments(w)
  <2>1. (IF HasAssignments(request[w].group) THEN {request[w].agent} ELSE {}) \subseteq Agents
    BY <1>3, <1>5, RequestParts DEF LooksForAssignments
  <2> QED BY <1>5, <2>1, GoingOn DEF LooksForAssignments
<1>6. CASE AssignMonitorToAgent(w)
  <2>1. (IF <<request[w].monitor, request[w].agent>> \in direct THEN {} ELSE {request[w].agent})
            \subseteq Agents
    BY <1>3, <1>6, RequestParts DEF AssignMonitorToAgent
  <2> QED BY <1>6, <2>1, GoingOn, Zenon DEF AssignMonitorToAgent
<1>7. CASE AssignMonitorToAgentGroup(w)
  <2>1. [at |-> "members", group |-> request[w].group] \in RequestStates
    BY <1>3, <1>7, RequestParts, Zenon DEF AssignMonitorToAgentGroup, RequestStates
  <2> QED BY <1>1, <1>2, <1>7, <2>1, Zenon DEF AssignMonitorToAgentGroup
<1>8. CASE ReadsMembers(w)
  BY <1>8, GoingOn, ReadsAreTyped DEF ReadsMembers
<1>9. CASE UnassignMonitorFromAgentGroup(w)
  <2>1. (IF <<request[w].monitor, request[w].group>> \in grouped THEN request[w].agents ELSE {})
            \subseteq Agents
    BY <1>3, <1>9, RequestParts, Zenon DEF UnassignMonitorFromAgentGroup
  <2> QED BY <1>9, <2>1, GoingOn, Zenon DEF UnassignMonitorFromAgentGroup
<1>10. CASE SavesMonitor(w)
  <2>1. [at |-> "saved", monitor |-> request[w].monitor] \in RequestStates
    BY <1>3, <1>10, RequestParts DEF SavesMonitor, RequestStates
  <2> QED BY <1>1, <1>10, <2>1 DEF SavesMonitor
<1>11. CASE ReadsEffectiveAgents(w)
  BY <1>11, GoingOn, ReadsAreTyped, Zenon DEF ReadsEffectiveAgents
<1>12. CASE Bump(w)
  <2>1. \A a : request[w].todo \ {a} \subseteq Agents
    BY <1>3, <1>12, RequestParts DEF Bump
  <2> QED BY <1>12, <2>1, GoingOn, Zenon DEF Bump
<1> QED
  BY <1>4, <1>5, <1>6, <1>7, <1>8, <1>9, <1>10, <1>11, <1>12 DEF RequestContinues

\* Memberships and assignments pair rows.
LEMMA LinksTyped ==
    ASSUME Types, Next
    PROVE  LinkTypes'
<1> USE DEF LinkTypes
<1>1. ASSUME NEW w \in Workers, RequestBegins(w) PROVE LinkTypes'
  <2>1. ASSUME NEW g \in Groups, NEW a \in Agents, AddAgentToGroup(w, g, a) PROVE LinkTypes'
    <3>1. PICK p \in Groups \X Agents : p = <<g, a>>
      BY Zenon
    <3>2. member' = member \cup {p} /\ UNCHANGED <<direct, grouped>>
      BY <2>1, <3>1 DEF AddAgentToGroup
    <3> QED BY <3>2 DEF Types
  <2>2. ASSUME NEW g \in Groups, NEW a \in Agents, RemoveAgentFromGroup(w, g, a) PROVE LinkTypes'
    <3>1. member' \subseteq member /\ UNCHANGED <<direct, grouped>>
      BY <2>2 DEF RemoveAgentFromGroup
    <3> QED BY <3>1 DEF Types
  <2>3. ASSUME NEW m \in Monitors, NEW a \in Agents, UnassignMonitorFromAgent(w, m, a)
        PROVE  LinkTypes'
    <3>1. direct' \subseteq direct /\ UNCHANGED <<member, grouped>>
      BY <2>3 DEF UnassignMonitorFromAgent
    <3> QED BY <3>1 DEF Types
  <2>4. ASSUME UNCHANGED links PROVE LinkTypes'
    BY <2>4 DEF Types, links
  <2> QED
    BY <1>1, <2>1, <2>2, <2>3, <2>4, Zenon DEF RequestBegins, ReadsMonitorAndAgent,
       ReadsMonitorAndGroup, ReadsMembersToUnassign, ReadsTarget, ReadsMonitor, ArchiveTargetReads
<1>2. ASSUME NEW w \in Workers, AssignMonitorToAgent(w) PROVE LinkTypes'
  <2>1. request[w].monitor \in Monitors /\ request[w].agent \in Agents
    BY <1>2, RequestParts, Zenon DEF Types, RequestTypes, AssignMonitorToAgent
  <2>2. PICK p \in Monitors \X Agents : p = <<request[w].monitor, request[w].agent>>
    BY <2>1, Zenon
  <2>3. direct' = direct \cup {p} /\ UNCHANGED <<member, grouped>>
    BY <1>2, <2>2 DEF AssignMonitorToAgent
  <2> QED BY <2>3 DEF Types
<1>3. ASSUME NEW w \in Workers, AssignMonitorToAgentGroup(w) PROVE LinkTypes'
  <2>1. request[w].monitor \in Monitors /\ request[w].group \in Groups
    BY <1>3, RequestParts, Zenon DEF Types, RequestTypes, AssignMonitorToAgentGroup
  <2>2. PICK p \in Monitors \X Groups : p = <<request[w].monitor, request[w].group>>
    BY <2>1, Zenon
  <2>3. grouped' = grouped \cup {p} /\ UNCHANGED <<member, direct>>
    BY <1>3, <2>2 DEF AssignMonitorToAgentGroup
  <2> QED BY <2>3 DEF Types
<1>4. ASSUME NEW w \in Workers, RequestContinues(w) \/ CutOff(w),
             ~AssignMonitorToAgent(w), ~AssignMonitorToAgentGroup(w)
      PROVE  LinkTypes'
  BY <1>4, Zenon DEF Types, RequestContinues, CutOff, CreateMonitor, LooksForAssignments, ReadsMembers,
     UnassignMonitorFromAgentGroup, SavesMonitor, ReadsEffectiveAgents, ArchiveTarget, Bump, links
<1>5. CASE Creates \/ \E a \in Agents : PollReads(a) \/ PollAnswers(a)
  BY <1>5, Zenon DEF Types, Creates, CreateAgent, CreateTarget, CreateAgentGroup, PollReads, PollAnswers,
     links
<1> QED BY <1>1, <1>2, <1>3, <1>4, <1>5 DEF Next

\* Raising revisions.
LEMMA RaisesTyped ==
    ASSUME RevisionTypes, NEW S, Raises(S), UNCHANGED <<snapshot, poll>>
    PROVE  /\ RevisionTypes'
           /\ \A a \in Agents : desired'[a] = IF a \in S THEN desired[a] + 1 ELSE desired[a]
<1>1. ASSUME NEW a \in Agents
      PROVE  /\ desired'[a] = IF a \in S THEN desired[a] + 1 ELSE desired[a]
             /\ desired'[a] \in 0..MaxRevision
  BY BoundsAreNatural DEF RevisionTypes, Raises
<1>2. desired' \in [Agents -> 0..MaxRevision]
  BY <1>1 DEF Raises
<1> QED BY <1>1, <1>2 DEF RevisionTypes

\* What a poll issues, for the revision the agent has, or for the first.
LEMMA PollAnswersTyped ==
    ASSUME Types, NEW a \in Agents, PollAnswers(a)
    PROVE  /\ RevisionTypes'
           /\ poll' = [poll EXCEPT ![a] = None] /\ UNCHANGED <<resources, links, request, stopped>>
           /\ \A b \in Agents \ {a} : snapshot'[b] = snapshot[b] /\ desired'[b] = desired[b]
           /\ \/ UNCHANGED <<desired, snapshot>>
              \/ /\ desired'[a] = (IF desired[a] = 0 THEN 1 ELSE desired[a])
                 /\ desired'[a] \in 1..MaxRevision
                 /\ snapshot[a][desired'[a]] \in {None, ContentOf(poll[a])}
                 /\ snapshot'[a][desired'[a]] = ContentOf(poll[a])
                 /\ \A r \in 1..MaxRevision :
                        r # desired'[a] => snapshot'[a][r] = snapshot[a][r]
<1> DEFINE revision == IF desired[a] = 0 THEN 1 ELSE desired[a]
           content == ContentOf(poll[a])
<1>1. poll' = [poll EXCEPT ![a] = None] /\ UNCHANGED <<resources, links, request, stopped>>
  BY DEF PollAnswers
<1>2. revision \in 1..MaxRevision /\ content \in (SUBSET Entries) \cup {None}
  <2>1. desired[a] \in 0..MaxRevision /\ poll[a] \in SUBSET Monitors
    BY DEF Types, RevisionTypes, PollAnswers
  <2>2. content \subseteq Entries
    BY <2>1, ReadsAreTyped DEF Types
  <2> QED BY <2>1, <2>2, BoundsAreNatural
<1>3. poll' \in [Agents -> (SUBSET Monitors) \cup {None}]
  BY <1>1 DEF Types, RevisionTypes
<1>4. CASE UNCHANGED <<desired, snapshot>>
  BY <1>1, <1>3, <1>4 DEF Types, RevisionTypes
<1>5. CASE /\ snapshot[a][revision] \in {None, content}
           /\ snapshot' = [snapshot EXCEPT ![a][revision] = content]
           /\ desired' = [desired EXCEPT ![a] = revision]
  <2> HIDE DEF revision, content
  <2>1. desired' \in [Agents -> 0..MaxRevision] /\ desired'[a] = revision
    BY <1>2, <1>5 DEF Types, RevisionTypes
  <2>2. snapshot' \in [Agents -> [1..MaxRevision -> (SUBSET Entries) \cup {None}]]
    BY <1>2, <1>5 DEF Types, RevisionTypes
  <2>3. \A b \in Agents \ {a} : snapshot'[b] = snapshot[b] /\ desired'[b] = desired[b]
    BY <1>5 DEF Types, RevisionTypes
  <2>4. snapshot'[a] = [snapshot[a] EXCEPT ![revision] = content]
    BY <1>5 DEF Types, RevisionTypes
  <2>5. /\ snapshot'[a][revision] = content
        /\ \A r \in 1..MaxRevision : r # revision => snapshot'[a][r] = snapshot[a][r]
    BY <1>2, <2>4, Zenon DEF Types, RevisionTypes
  <2> QED BY <1>1, <1>2, <1>3, <1>5, <2>1, <2>2, <2>3, <2>5, Zenon DEF RevisionTypes, revision, content
<1> QED BY <1>4, <1>5, Zenon DEF PollAnswers

\* What a step does to revisions, snapshots and polls.
LEMMA RevisionSteps ==
    ASSUME Next
    PROVE  \/ UNCHANGED <<desired, snapshot, poll>>
           \/ \E w \in Workers : ArchiveTarget(w) \/ Bump(w)
           \/ \E a \in Agents : PollReads(a) \/ PollAnswers(a)
<1>1. ASSUME NEW w \in Workers, RequestBegins(w) PROVE UNCHANGED <<desired, snapshot, poll>>
  BY <1>1, Zenon DEF RequestBegins, AddAgentToGroup, RemoveAgentFromGroup, ReadsMonitorAndAgent,
     UnassignMonitorFromAgent, ReadsMonitorAndGroup, ReadsMembersToUnassign, ReadsTarget,
     ReadsMonitor, ArchiveTargetReads
<1>2. ASSUME NEW w \in Workers, RequestContinues(w) \/ CutOff(w), ~ArchiveTarget(w), ~Bump(w)
      PROVE  UNCHANGED <<desired, snapshot, poll>>
  BY <1>2 DEF RequestContinues, CutOff, CreateMonitor, LooksForAssignments,
     AssignMonitorToAgent, AssignMonitorToAgentGroup, ReadsMembers,
     UnassignMonitorFromAgentGroup, SavesMonitor, ReadsEffectiveAgents
<1>3. CASE Creates
  BY <1>3 DEF Creates, CreateAgent, CreateTarget, CreateAgentGroup
<1> QED BY <1>1, <1>2, <1>3 DEF Next

\* Revisions, snapshots and polls.
LEMMA RevisionsTyped ==
    ASSUME Types, Next
    PROVE  RevisionTypes'
<1>1. CASE UNCHANGED <<desired, snapshot, poll>>
  BY <1>1 DEF Types, RevisionTypes
<1>2. ASSUME NEW w \in Workers, ArchiveTarget(w) \/ Bump(w) PROVE RevisionTypes'
  BY <1>2, RaisesTyped, Zenon DEF Types, ArchiveTarget, Bump
<1>3. ASSUME NEW a \in Agents, PollReads(a) PROVE RevisionTypes'
  BY <1>3, ReadsAreTyped DEF Types, RevisionTypes, PollReads
<1> QED BY <1>1, <1>2, <1>3, PollAnswersTyped, RevisionSteps, Zenon

\* A request that goes on names nothing new.
LEMMA ContinuesTo ==
    ASSUME Types, NEW w \in Workers, RequestContinues(w) \/ CutOff(w)
    PROVE  /\ \A v \in Workers \ {w} : request'[v] = request[v]
           /\ request'[w].at \in {"idle", "bump", "members", "saved"}
<1> USE DEF Types
<1> DEFINE Goal == /\ \A v \in Workers \ {w} : request'[v] = request[v]
                   /\ request'[w].at \in {"idle", "bump", "members", "saved"}
<1>1. ASSUME NEW x, Becomes(w, x), x.at \in {"idle", "members", "saved"} PROVE Goal
  BY <1>1 DEF Becomes, RequestTypes
<1>2. ASSUME NEW S, GoesOnToBump(w, S) PROVE Goal
  BY <1>2, Zenon DEF GoesOnToBump, Becomes, RequestTypes, Idle
<1>3. Idle.at = "idle"
  BY DEF Idle
<1>4. CASE CreateMonitor(w) \/ ArchiveTarget(w) \/ CutOff(w)
  BY <1>1, <1>3, <1>4 DEF CreateMonitor, ArchiveTarget, CutOff
<1>5. CASE \/ LooksForAssignments(w) \/ AssignMonitorToAgent(w) \/ ReadsMembers(w)
           \/ UnassignMonitorFromAgentGroup(w) \/ ReadsEffectiveAgents(w) \/ Bump(w)
  BY <1>2, <1>5, Zenon DEF LooksForAssignments, AssignMonitorToAgent, ReadsMembers,
     UnassignMonitorFromAgentGroup, ReadsEffectiveAgents, Bump
<1>6. CASE AssignMonitorToAgentGroup(w)
  <2>1. [at |-> "members", group |-> request[w].group].at = "members"
    OBVIOUS
  <2> QED BY <1>1, <1>3, <1>6, <2>1, Zenon DEF AssignMonitorToAgentGroup
<1>7. CASE SavesMonitor(w)
  <2>1. [at |-> "saved", monitor |-> request[w].monitor].at = "saved"
    OBVIOUS
  <2> QED BY <1>1, <1>7, <2>1 DEF SavesMonitor
<1> QED BY <1>4, <1>5, <1>6, <1>7, Zenon DEF RequestContinues

\* A request that begins has looked at the rows it names.
LEMMA BeginsTo ==
    ASSUME Types, NEW w \in Workers, RequestBegins(w)
    PROVE  /\ \A v \in Workers \ {w} : request'[v] = request[v]
           /\ LET q == request'[w]
              IN  /\ q.at # "members" /\ q.at # "saved"
                  /\ q.at = "create" => target[q.target] = "enabled"
                  /\ q.at = "assign" => Live(q.monitor) /\ agent[q.agent] = "enabled"
                  /\ q.at = "assign_group" => Live(q.monitor) /\ group[q.group] = "enabled"
                  /\ q.at = "unassign_group" => q.agents = EnabledMembers(q.group)
                  /\ q.at = "save" => /\ Live(q.monitor) /\ target[q.target] = "enabled"
                                      /\ q.revision = monitor[q.monitor].revision + 1
                  /\ q.at = "archive" => \A m \in LiveMonitorsOf(q.target) :
                                             EffectiveAgents(m) \subseteq q.agents
                  /\ q.at \in {"unassign_group", "archive"} => UNCHANGED links
<1>1. ASSUME NEW x, Becomes(w, x)
      PROVE  request'[w] = x /\ \A v \in Workers \ {w} : request'[v] = request[v]
  BY <1>1 DEF Becomes, Types, RequestTypes
<1>2. ASSUME NEW g \in Groups, NEW a \in Agents,
             AddAgentToGroup(w, g, a) \/ RemoveAgentFromGroup(w, g, a)
      PROVE  /\ request'[w].at = "membership"
             /\ \A v \in Workers \ {w} : request'[v] = request[v]
  BY <1>1, <1>2 DEF AddAgentToGroup, RemoveAgentFromGroup
<1>3. ASSUME NEW m \in Monitors, NEW a \in Agents, ReadsMonitorAndAgent(w, m, a)
      PROVE  /\ request'[w].at = "assign"
             /\ Live(request'[w].monitor) /\ agent[request'[w].agent] = "enabled"
             /\ \A v \in Workers \ {w} : request'[v] = request[v]
  BY <1>1, <1>3 DEF ReadsMonitorAndAgent
<1>4. ASSUME NEW m \in Monitors, NEW a \in Agents, UnassignMonitorFromAgent(w, m, a)
      PROVE  /\ request'[w].at \in {"idle", "bump"}
             /\ \A v \in Workers \ {w} : request'[v] = request[v]
  BY <1>1, <1>4 DEF UnassignMonitorFromAgent, GoesOnToBump, Idle
<1>5. ASSUME NEW m \in Monitors, NEW g \in Groups, ReadsMonitorAndGroup(w, m, g)
      PROVE  /\ request'[w].at = "assign_group"
             /\ Live(request'[w].monitor) /\ group[request'[w].group] = "enabled"
             /\ \A v \in Workers \ {w} : request'[v] = request[v]
  <2>1. request'[w] = [at |-> "assign_group", monitor |-> m, group |-> g]
        /\ \A v \in Workers \ {w} : request'[v] = request[v]
    BY <1>1, <1>5, Zenon DEF ReadsMonitorAndGroup
  <2>2. request'[w].at = "assign_group" /\ request'[w].monitor = m /\ request'[w].group = g
    BY <2>1
  <2> QED BY <1>5, <2>1, <2>2, Zenon DEF ReadsMonitorAndGroup
<1>6. ASSUME NEW m \in Monitors, NEW g \in Groups, ReadsMembersToUnassign(w, m, g)
      PROVE  /\ request'[w].at = "unassign_group"
             /\ request'[w].agents = EnabledMembers(request'[w].group) /\ UNCHANGED links
             /\ \A v \in Workers \ {w} : request'[v] = request[v]
  <2>1. PICK S : S = EnabledMembers(g)
    OBVIOUS
  <2>2. request'[w] = [at |-> "unassign_group", monitor |-> m, group |-> g, agents |-> S]
        /\ \A v \in Workers \ {w} : request'[v] = request[v]
    BY <1>1, <1>6, <2>1, Zenon DEF ReadsMembersToUnassign
  <2>3. request'[w].at = "unassign_group" /\ request'[w].group = g /\ request'[w].agents = S
    BY <2>2
  <2> QED BY <1>6, <2>1, <2>2, <2>3, Zenon DEF ReadsMembersToUnassign
<1>7. ASSUME NEW m \in Monitors, NEW t \in Targets, NEW b \in Behaviours, ReadsTarget(w, m, t, b)
      PROVE  /\ request'[w].at = "create" /\ target[request'[w].target] = "enabled"
             /\ \A v \in Workers \ {w} : request'[v] = request[v]
  <2>1. request'[w] = [at |-> "create", monitor |-> m, target |-> t, behaviour |-> b]
        /\ \A v \in Workers \ {w} : request'[v] = request[v]
    BY <1>1, <1>7, Zenon DEF ReadsTarget
  <2>2. request'[w].at = "create" /\ request'[w].target = t
    BY <2>1
  <2> QED BY <1>7, <2>1, <2>2, Zenon DEF ReadsTarget
<1>8. ASSUME NEW m \in Monitors, NEW t \in Targets, NEW b \in Behaviours, ReadsMonitor(w, m, t, b)
      PROVE  /\ request'[w].at = "save"
             /\ Live(request'[w].monitor) /\ target[request'[w].target] = "enabled"
             /\ request'[w].revision = monitor[request'[w].monitor].revision + 1
             /\ \A v \in Workers \ {w} : request'[v] = request[v]
  BY <1>1, <1>8 DEF ReadsMonitor
<1>9. ASSUME NEW t \in Targets, ArchiveTargetReads(w, t)
      PROVE  /\ request'[w].at = "archive"
             /\ \A m \in LiveMonitorsOf(request'[w].target) :
                    EffectiveAgents(m) \subseteq request'[w].agents
             /\ UNCHANGED links /\ \A v \in Workers \ {w} : request'[v] = request[v]
  <2>1. PICK S : S = UNION {EffectiveAgents(m) : m \in LiveMonitorsOf(t)}
    BY Zenon
  <2>2. request'[w] = [at |-> "archive", target |-> t, agents |-> S]
        /\ \A v \in Workers \ {w} : request'[v] = request[v]
    BY <1>1, <1>9, <2>1 DEF ArchiveTargetReads
  <2>3. \A m \in LiveMonitorsOf(t) : EffectiveAgents(m) \subseteq S
    BY <2>1
  <2> QED BY <1>9, <2>2, <2>3 DEF ArchiveTargetReads
<1> QED
  BY <1>2, <1>3, <1>4, <1>5, <1>6, <1>7, <1>8, <1>9, Zenon DEF RequestBegins

\* What links and requests name exists.
LEMMA KnownKept ==
    ASSUME Types, Known, Next
    PROVE  Known'
<1>1. RowsStay
  BY RowsChange
<1>2. /\ \A a \in Agents : agent[a] # None => agent'[a] # None
      /\ \A g \in Groups : group[g] # None => group'[g] # None
      /\ \A m \in Monitors : monitor[m] # None => monitor'[m] # None
  BY <1>1 DEF RowsStay
<1> DEFINE
      Links ==
        /\ \A g \in Groups, a \in Agents : <<g, a>> \in member => group[g] # None /\ agent[a] # None
        /\ \A m \in Monitors, a \in Agents :
               <<m, a>> \in direct => monitor[m] # None /\ agent[a] # None
        /\ \A m \in Monitors, g \in Groups :
               <<m, g>> \in grouped => monitor[m] # None /\ group[g] # None
      Names(q) ==
        /\ q.at = "assign" => monitor[q.monitor] # None /\ agent[q.agent] # None
        /\ q.at = "assign_group" => monitor[q.monitor] # None /\ group[q.group] # None
        /\ q.at = "save" => monitor[q.monitor] # None
<1>3. ASSUME member' \subseteq member, direct' \subseteq direct, grouped' \subseteq grouped
      PROVE  Links'
  BY <1>2, <1>3, Zenon DEF Known
<1>4. ASSUME NEW w \in Workers, Names(request[w]),
             request'[w] = request[w] \/ request'[w].at \notin {"assign", "assign_group", "save"}
      PROVE  Names(request[w])'
  <2>1. request[w] \in RequestStates
    BY DEF Types, RequestTypes
  <2> QED BY <1>2, <1>4, <2>1, RequestParts, Zenon
<1>5. Links'
  <2>1. ASSUME NEW w \in Workers, NEW g \in Groups, NEW a \in Agents, AddAgentToGroup(w, g, a)
        PROVE  Links'
    BY <1>2, <2>1, Zenon DEF Known, AddAgentToGroup
  <2>2. ASSUME NEW w \in Workers, AssignMonitorToAgent(w) PROVE Links'
    BY <1>2, <2>2, Zenon DEF Known, AssignMonitorToAgent
  <2>3. ASSUME NEW w \in Workers, AssignMonitorToAgentGroup(w) PROVE Links'
    BY <1>2, <2>3, Zenon DEF Known, AssignMonitorToAgentGroup
  <2> HIDE DEF Links
  <2>4. ASSUME NEW w \in Workers, RequestBegins(w) PROVE Links'
    BY <1>3, <2>1, <2>4, Zenon DEF RequestBegins, RemoveAgentFromGroup, ReadsMonitorAndAgent,
       UnassignMonitorFromAgent, ReadsMonitorAndGroup, ReadsMembersToUnassign, ReadsTarget,
       ReadsMonitor, ArchiveTargetReads, links
  <2>5. ASSUME NEW w \in Workers, RequestContinues(w) \/ CutOff(w) PROVE Links'
    BY <1>3, <2>2, <2>3, <2>5, Zenon DEF RequestContinues, CutOff, CreateMonitor, LooksForAssignments,
       ReadsMembers, UnassignMonitorFromAgentGroup, SavesMonitor, ReadsEffectiveAgents,
       ArchiveTarget, Bump, links
  <2>6. CASE Creates \/ \E a \in Agents : PollReads(a) \/ PollAnswers(a)
    BY <1>3, <2>6, Zenon DEF Creates, CreateAgent, CreateTarget, CreateAgentGroup, PollReads,
       PollAnswers, links
  <2> QED BY <2>4, <2>5, <2>6 DEF Next
<1>6. ASSUME NEW v \in Workers PROVE Names(request[v])'
  <2>1. Names(request[v])
    BY Zenon DEF Known
  <2>2. CASE UNCHANGED request
    BY <1>4, <2>1, <2>2, Zenon
  <2>3. ASSUME NEW w \in Workers, RequestContinues(w) \/ CutOff(w) PROVE Names(request[v])'
    <3>1. CASE v = w
      BY <1>4, <2>1, <2>3, <3>1, ContinuesTo, Zenon
    <3>2. CASE v # w
      BY <1>4, <2>1, <2>3, <3>2, ContinuesTo, Zenon
    <3> QED BY <3>1, <3>2, Zenon
  <2>4. ASSUME NEW w \in Workers, RequestBegins(w) PROVE Names(request[v])'
    <3>1. CASE v = w
      <4>1. request'[v] \in RequestStates
        BY <2>4, BeginsTyped DEF RequestTypes
      <4>2. LET q == request'[v]
            IN  /\ q.at = "assign" => Live(q.monitor) /\ agent[q.agent] = "enabled"
                /\ q.at = "assign_group" => Live(q.monitor) /\ group[q.group] = "enabled"
                /\ q.at = "save" => Live(q.monitor)
        BY <2>4, <3>1, BeginsTo, Zenon
      <4> QED BY <1>2, <4>1, <4>2, RequestParts, NoneIsNoRow, Zenon DEF Live
    <3>2. CASE v # w
      BY <1>4, <2>1, <2>4, <3>2, BeginsTo, Zenon
    <3> QED BY <3>1, <3>2
  <2>5. CASE Creates \/ \E a \in Agents : PollReads(a) \/ PollAnswers(a)
    BY <2>2, <2>5, Zenon DEF Creates, CreateAgent, CreateTarget, CreateAgentGroup, PollReads, PollAnswers
  <2> QED BY <2>3, <2>4, <2>5, Zenon DEF Next
<1> QED BY <1>5, <1>6, Zenon DEF Known

\* The empty database.
LEMMA InitTyped == Init => Types /\ Known
<1> SUFFICES ASSUME Init PROVE Types /\ Known
  OBVIOUS
<1>1. Idle \in RequestStates /\ Idle.at = "idle"
  BY Zenon DEF Idle, RequestStates
<1>2. ResourceTypes /\ LinkTypes /\ RevisionTypes /\ RequestTypes
  BY <1>1, BoundsAreNatural DEF Init, ResourceTypes, LinkTypes, RevisionTypes, RequestTypes
<1>3. Known
  BY <1>1, Zenon DEF Init, Known
<1> QED BY <1>2, <1>3 DEF Types

\* Types and Known together are inductive, whatever the number of requests.
THEOREM TypesInvariant == Spec => [](Types /\ Known)
<1>1. Init => Types /\ Known
  BY InitTyped
<1>2. Types /\ Known /\ [Next]_vars => (Types /\ Known)'
  <2> SUFFICES ASSUME Types, Known, [Next]_vars PROVE Types' /\ Known'
    OBVIOUS
  <2>1. CASE UNCHANGED vars
    BY <2>1, Zenon DEF vars, resources, links, Types, ResourceTypes, LinkTypes, RevisionTypes,
       RequestTypes, Known
  <2>2. CASE Next
    <3>1. RequestTypes'
      <4>1. CASE UNCHANGED request
        BY <4>1 DEF Types, RequestTypes
      <4>2. CASE Creates \/ \E a \in Agents : PollReads(a) \/ PollAnswers(a)
        BY <4>1, <4>2, Zenon DEF Creates, CreateAgent, CreateTarget, CreateAgentGroup, PollReads,
           PollAnswers
      <4> QED BY <2>2, <4>2, BeginsTyped, ContinuesTyped, Zenon DEF Next
    <3> QED BY <2>2, <3>1, RowsChange, LinksTyped, RevisionsTyped, KnownKept DEF Types
  <2> QED BY <2>1, <2>2
<1> QED BY <1>1, <1>2, PTL DEF Spec

---------------------------------------------------------------------------
(* What is issued. *)

\* A revision never goes down, and a snapshot stays once it is issued.
LEMMA SnapshotsStay ==
    ASSUME Types, Next
    PROVE  /\ \A a \in Agents : desired'[a] >= desired[a]
           /\ \A a \in Agents : \A r \in 1..MaxRevision :
                  snapshot[a][r] # None => snapshot'[a][r] = snapshot[a][r]
<1>1. \A a \in Agents : desired[a] \in Nat
  BY BoundsAreNatural DEF Types, RevisionTypes
<1>2. CASE UNCHANGED <<desired, snapshot, poll>>
  BY <1>1, <1>2
<1>3. ASSUME NEW w \in Workers, ArchiveTarget(w) \/ Bump(w)
      PROVE  UNCHANGED snapshot /\ \A a \in Agents : desired'[a] >= desired[a]
  <2>1. PICK S : Raises(S) /\ UNCHANGED <<snapshot, poll>>
    BY <1>3, Zenon DEF ArchiveTarget, Bump
  <2> QED BY <1>1, <2>1, RaisesTyped DEF Types
<1>4. ASSUME NEW a \in Agents, PollReads(a) PROVE UNCHANGED <<desired, snapshot>>
  BY <1>4 DEF PollReads
<1>5. ASSUME NEW a \in Agents, PollAnswers(a), NEW b \in Agents
      PROVE  /\ desired'[b] >= desired[b]
             /\ \A r \in 1..MaxRevision :
                    snapshot[b][r] # None => snapshot'[b][r] = snapshot[b][r]
  <2>1. CASE b # a
    BY <1>1, <1>5, <2>1, PollAnswersTyped
  <2>2. CASE UNCHANGED <<desired, snapshot>>
    BY <1>1, <2>2
  <2>3. CASE b = a /\ ~UNCHANGED <<desired, snapshot>>
    <3>1. /\ desired'[a] = (IF desired[a] = 0 THEN 1 ELSE desired[a])
          /\ snapshot[a][desired'[a]] \in {None, ContentOf(poll[a])}
          /\ snapshot'[a][desired'[a]] = ContentOf(poll[a])
          /\ \A r \in 1..MaxRevision : r # desired'[a] => snapshot'[a][r] = snapshot[a][r]
      BY <1>5, <2>3, PollAnswersTyped, Zenon
    <3> QED BY <1>1, <2>3, <3>1
  <2> QED BY <2>1, <2>2, <2>3, Zenon
<1> QED BY <1>1, <1>2, <1>3, <1>4, <1>5, RevisionSteps

\* However many requests and polls overlap, no step takes back what was issued:
\* a poll only fills an empty snapshot, the bump and the archive only raise.
THEOREM IssuedStaysIssued == Spec => HistoryOnlyGrows
<1> DEFINE Grow ==
      /\ \A a \in Agents : desired'[a] >= desired[a]
      /\ \A a \in Agents : \A r \in 1..MaxRevision :
           snapshot[a][r] # None => snapshot'[a][r] = snapshot[a][r]
      /\ \A m \in Monitors : monitor[m] # None /\ ~monitor[m].live =>
           monitor'[m] # None /\ ~monitor'[m].live
<1>1. Types /\ Known /\ [Next]_vars => [Grow]_vars
  <2> SUFFICES ASSUME Types, Known, Next PROVE Grow
    OBVIOUS
  <2>1. RowsStay
    BY RowsChange
  <2> QED BY <2>1, SnapshotsStay, Zenon DEF RowsStay
<1> QED BY <1>1, TypesInvariant, PTL DEF Spec, HistoryOnlyGrows

\* Whom effective_agent_ids returns.
LEMMA EffectiveMeans ==
    ASSUME NEW a \in Agents, NEW m
    PROVE  a \in EffectiveAgents(m) <=>
               /\ agent[a] = "enabled"
               /\ \/ <<m, a>> \in direct
                  \/ \E g \in Groups :
                         group[g] = "enabled" /\ <<g, a>> \in member /\ <<m, g>> \in grouped
<1> DEFINE Chosen == {h \in Groups : group[h] = "enabled" /\ <<m, h>> \in grouped}
<1>1. a \in UNION {EnabledMembers(g) : g \in Chosen} <=> \E g \in Chosen : a \in EnabledMembers(g)
  <2> HIDE DEF Chosen
  <2> QED OBVIOUS
<1>2. (\E g \in Chosen : a \in EnabledMembers(g)) <=>
          agent[a] = "enabled" /\ \E g \in Groups :
              group[g] = "enabled" /\ <<g, a>> \in member /\ <<m, g>> \in grouped
  BY Zenon DEF EnabledMembers
<1>3. a \in EffectiveAgents(m) <=>
          \/ <<m, a>> \in direct /\ agent[a] = "enabled"
          \/ a \in UNION {EnabledMembers(g) : g \in Chosen}
  BY Zenon DEF EffectiveAgents
<1> QED BY <1>1, <1>2, <1>3, Zenon

\* The dashboard, the poll and the bump compute the same relation, in every
\* state: what differs is only how each of them walks through the tables.
THEOREM OneRelation == Spec => []ViewsAgree
<1>1. ViewsAgree
  <2> SUFFICES ASSUME NEW a \in Agents, NEW m \in Monitors, Running(m)
               PROVE  /\ <<m, a>> \in EffectivePairs
                             <=> (agent[a] = "enabled" /\ m \in AssignedMonitors(a))
                      /\ <<m, a>> \in EffectivePairs <=> a \in EffectiveAgents(m)
    BY DEF ViewsAgree
  <2> DEFINE Through == \E g \in Groups :
                 group[g] = "enabled" /\ <<g, a>> \in member /\ <<m, g>> \in grouped
  <2>1. <<m, a>> \in EffectivePairs
            <=> agent[a] = "enabled" /\ (<<m, a>> \in direct \/ Through)
    BY Zenon DEF EffectivePairs
  <2>2. m \in AssignedMonitors(a) <=> <<m, a>> \in direct \/ Through
    BY Zenon DEF AssignedMonitors
  <2>3. a \in EffectiveAgents(m) <=> agent[a] = "enabled" /\ (<<m, a>> \in direct \/ Through)
    BY EffectiveMeans, Zenon
  <2> QED BY <2>1, <2>2, <2>3
<1> QED BY <1>1, PTL
=============================================================================
