-------------------------- MODULE AssignmentCoverage --------------------------
(***************************************************************************)
(* Proofs about AssignmentDomain, for any number of rows and polls beside  *)
(* one request at a time: a revision covers the content of its agent, an   *)
(* archived target is silent and a monitor revision names one behaviour.   *)
(* With two requests at a time all three are false.                        *)
(***************************************************************************)
EXTENDS AssignmentDomainProofs

\* A revision beyond the desired one has no snapshot, an agent that is not
\* enabled has none at all, and polls have read monitors that exist.
Issued ==
    /\ \A a \in Agents : \A r \in 1..MaxRevision : r > desired[a] => snapshot[a][r] = None
    /\ \A a \in Agents : agent[a] # "enabled" =>
           poll[a] = None /\ \A r \in 1..MaxRevision : snapshot[a][r] = None
    /\ \A a \in Agents : poll[a] # None => \A m \in poll[a] : monitor[m] # None

\* What a request has read still holds.
Sound(q) ==
    /\ q.at = "create" => target[q.target] = "enabled"
    /\ q.at = "unassign_group" => EnabledMembers(q.group) \subseteq q.agents
    /\ q.at = "save" => /\ Live(q.monitor) /\ target[q.target] = "enabled"
                        /\ q.revision = monitor[q.monitor].revision + 1
    /\ q.at = "archive" =>
           \A m \in LiveMonitorsOf(q.target) : EffectiveAgents(m) \subseteq q.agents

\* A bump is still to come, or was lost.
Pending(a) == a \in owed \/ \E w \in Workers : a \in WillBump(w)

Serving(a) == {m \in AssignedMonitors(a) : Running(m)}

\* The snapshot is of the present content, and so will be the answer to a poll
\* that has read the assignments.
Covered(a) ==
    \/ Pending(a)
    \/ /\ desired[a] = 0 \/ snapshot[a][desired[a]] \in {None, Content(a)}
       /\ poll[a] # None => {m \in poll[a] : Running(m)} = Serving(a)

DomainInv ==
    /\ Types /\ Known /\ Issued /\ ArchivedTargetIsSilent
    /\ \A w \in Workers : Sound(request[w])
    /\ \A a \in Agents : Covered(a)

\* Nothing that a serves, or that a poll of it has read, changes.
Steady(a) ==
    \A n \in Monitors :
        /\ n \in Serving(a) <=> n \in Serving(a)'
        /\ n \in Serving(a) => monitor'[n] = monitor[n]
        /\ poll[a] # None /\ n \in poll[a] /\ Running(n)' => Running(n)

\* An agent whose bump stays pending, or that nothing changes for.
LEMMA CoverStays ==
    ASSUME Types, NEW a \in Agents, Covered(a),
           desired'[a] = desired[a], snapshot'[a] = snapshot[a], poll'[a] = poll[a],
           Pending(a) => Pending(a)', Pending(a)' \/ Steady(a)
    PROVE  Covered(a)'
<1>1. CASE Pending(a)'
  BY <1>1 DEF Covered
<1>2. CASE ~Pending(a)' /\ Steady(a)
  <2>1. ~Pending(a)
    BY <1>2
  <2>2. AssignedMonitors(a) \subseteq Monitors /\ AssignedMonitors(a)' \subseteq Monitors
    BY DEF AssignedMonitors
  <2>3. Serving(a) = Serving(a)' /\ \A n \in Serving(a) : monitor'[n] = monitor[n]
    BY <1>2, <2>2 DEF Steady, Serving
  <2>4. Content(a) = {[monitor |-> m, target |-> monitor[m].target,
                       behaviour |-> monitor[m].behaviour, revision |-> monitor[m].revision] :
                          m \in Serving(a)}
    BY DEF Content, ContentOf, Serving
  <2>5. Content(a)' = {[monitor |-> m, target |-> monitor'[m].target,
                        behaviour |-> monitor'[m].behaviour, revision |-> monitor'[m].revision] :
                          m \in Serving(a)'}
    BY DEF Content, ContentOf, Serving
  <2>6. Content(a)' = Content(a)
    BY <2>3, <2>4, <2>5
  <2>7. poll'[a] # None => {m \in poll'[a] : Running(m)'} = Serving(a)'
    <3> SUFFICES ASSUME poll[a] # None PROVE {m \in poll[a] : Running(m)'} = Serving(a)'
      OBVIOUS
    <3>1. poll[a] \subseteq Monitors
      BY DEF Types, RevisionTypes
    <3>2. {m \in poll[a] : Running(m)} = Serving(a)
      BY <2>1 DEF Covered
    <3>3. \A m \in poll[a] : Running(m)' => m \in Serving(a)
      BY <1>2, <3>1, <3>2 DEF Steady
    <3>4. \A m \in Serving(a)' : m \in poll[a] /\ Running(m)'
      BY <2>3, <3>2 DEF Serving
    <3> QED BY <2>3, <3>3, <3>4
  <2> QED BY <2>1, <2>6, <2>7 DEF Covered
<1> QED BY <1>1, <1>2

\* An agent that is not enabled has nothing to cover.
LEMMA CoverOfDisabled ==
    ASSUME Types, Issued, NEW a \in Agents, agent[a] # "enabled"
    PROVE  Covered(a)
<1>1. desired[a] = 0 \/ desired[a] \in 1..MaxRevision
  BY BoundsAreNatural DEF Types, RevisionTypes
<1> QED BY <1>1 DEF Issued, Covered

\* A revision that was just raised has no snapshot.
LEMMA CoverOfRaised ==
    ASSUME Types, Types', Issued, NEW a \in Agents, desired'[a] = desired[a] + 1,
           snapshot'[a] = snapshot[a], poll'[a] = None
    PROVE  Covered(a)'
<1>1. desired'[a] \in 1..MaxRevision /\ desired'[a] > desired[a]
  BY BoundsAreNatural DEF Types, RevisionTypes
<1>2. snapshot'[a][desired'[a]] = None
  BY <1>1 DEF Issued
<1> QED BY <1>2 DEF Covered

\* What an agent is assigned, and whom a change of a monitor affects.
LEMMA AssignedMeans ==
    ASSUME NEW a, NEW m \in Monitors
    PROVE  m \in AssignedMonitors(a) <=>
               \/ <<m, a>> \in direct
               \/ \E g \in Groups :
                      group[g] = "enabled" /\ <<g, a>> \in member /\ <<m, g>> \in grouped
BY DEF AssignedMonitors

\* A change of a monitor affects every enabled agent it is assigned to.
LEMMA AssignedIsEffective ==
    ASSUME NEW a \in Agents, agent[a] = "enabled", NEW m \in Monitors, m \in AssignedMonitors(a)
    PROVE  a \in EffectiveAgents(m)
BY AssignedMeans, EffectiveMeans, Zenon

\* Issued, whatever the number of requests.
LEMMA IssuedKept ==
    ASSUME Types, Known, Issued, Next
    PROVE  Issued'
<1>1. RowsStay /\ ResourceTypes'
  BY RowsChange
<1>2. ASSUME NEW a \in Agents PROVE agent'[a] # "enabled" => agent[a] # "enabled"
  BY <1>1, NoneIsNoRow DEF RowsStay
<1>3. ASSUME NEW a \in Agents, poll[a] # None, NEW m \in poll[a] PROVE monitor'[m] # None
  BY <1>1, <1>3 DEF Types, RevisionTypes, Issued, RowsStay
<1>4. \A a \in Agents : desired[a] \in Nat
  BY BoundsAreNatural DEF Types, RevisionTypes
<1>5. CASE UNCHANGED <<desired, snapshot, poll>>
  BY <1>2, <1>3, <1>5 DEF Issued
<1>6. ASSUME NEW w \in Workers, ArchiveTarget(w) \/ Bump(w) PROVE Issued'
  <2>1. PICK S : Raises(S) /\ UNCHANGED <<snapshot, poll>>
    BY <1>6, Zenon DEF ArchiveTarget, Bump
  <2>2. \A a \in Agents : desired'[a] \in Nat /\ desired'[a] >= desired[a]
    BY <1>4, <2>1, RaisesTyped DEF Types
  <2>3. \A a \in Agents : \A r \in 1..MaxRevision : r > desired'[a] => snapshot'[a][r] = None
    BY <1>4, <2>1, <2>2 DEF Issued
  <2> QED BY <1>2, <1>3, <2>1, <2>3 DEF Issued
<1>7. ASSUME NEW a \in Agents, PollReads(a) PROVE Issued'
  <2>1. UNCHANGED <<resources, desired, snapshot>> /\ agent[a] = "enabled"
        /\ poll' = [poll EXCEPT ![a] = AssignedMonitors(a)]
    BY <1>7 DEF PollReads
  <2>2. \A m \in AssignedMonitors(a) : monitor[m] # None
    BY Zenon DEF AssignedMonitors, Known
  <2>3. \A b \in Agents : poll'[b] = IF b = a THEN AssignedMonitors(a) ELSE poll[b]
    BY <2>1 DEF Types, RevisionTypes
  <2> QED BY <2>1, <2>2, <2>3 DEF Issued, resources
<1>8. ASSUME NEW a \in Agents, PollAnswers(a) PROVE Issued'
  <2>1. agent[a] = "enabled"
    BY <1>8 DEF Issued, PollAnswers
  <2>2. UNCHANGED resources /\ \A b \in Agents : poll'[b] = IF b = a THEN None ELSE poll[b]
    BY <1>8, PollAnswersTyped DEF Types, RevisionTypes
  <2>3. ASSUME NEW b \in Agents, NEW r \in 1..MaxRevision
        PROVE  /\ r > desired'[b] => snapshot'[b][r] = None
               /\ agent[b] # "enabled" => snapshot'[b][r] = None
    <3>1. CASE b # a
      BY <1>8, <3>1, PollAnswersTyped DEF Issued
    <3>2. CASE UNCHANGED <<desired, snapshot>>
      BY <3>2 DEF Issued
    <3>3. CASE b = a /\ ~UNCHANGED <<desired, snapshot>>
      <4>1. /\ desired'[a] = (IF desired[a] = 0 THEN 1 ELSE desired[a])
            /\ \A s \in 1..MaxRevision : s # desired'[a] => snapshot'[a][s] = snapshot[a][s]
        BY <1>8, <3>3, PollAnswersTyped
      <4> QED BY <1>4, <2>1, <3>3, <4>1 DEF Issued
    <3> QED BY <3>1, <3>2, <3>3
  <2> QED BY <2>2, <2>3 DEF Issued, resources
<1> QED BY <1>5, <1>6, <1>7, <1>8, RevisionSteps

\* With one request at a time nothing archives a target between the check and
\* the INSERT or the save that rely on it.
LEMMA SilentKept ==
    ASSUME DomainInv, Next
    PROVE  ArchivedTargetIsSilent'
<1> USE DEF DomainInv
<1>1. ASSUME UNCHANGED resources PROVE ArchivedTargetIsSilent'
  BY <1>1 DEF resources, ArchivedTargetIsSilent, Live
<1>2. CASE Creates
  <2>1. UNCHANGED monitor /\ \A t \in Targets : target[t] # None => target'[t] = target[t]
    BY <1>2 DEF Creates, CreateAgent, CreateTarget, CreateAgentGroup, Types, ResourceTypes
  <2>2. \A m \in Monitors : Live(m) => monitor[m].target \in Targets
    BY DEF Live, Types, ResourceTypes, MonitorRows
  <2> QED BY <2>1, <2>2, NoneIsNoRow DEF ArchivedTargetIsSilent, Live
<1>3. ASSUME NEW w \in Workers, CreateMonitor(w) PROVE ArchivedTargetIsSilent'
  <2> DEFINE row == [target |-> request[w].target, behaviour |-> request[w].behaviour,
                     revision |-> 1, live |-> TRUE]
  <2>1. target[request[w].target] = "enabled" /\ UNCHANGED target
    BY <1>3 DEF Sound, CreateMonitor
  <2>2. \A n \in Monitors : monitor'[n] = monitor[n] \/ monitor'[n] = row
    BY <1>3 DEF CreateMonitor, Types, ResourceTypes
  <2>3. row.target = request[w].target
    OBVIOUS
  <2> HIDE DEF row
  <2> QED BY <2>1, <2>2, <2>3 DEF ArchivedTargetIsSilent, Live
<1>4. ASSUME NEW w \in Workers, SavesMonitor(w) PROVE ArchivedTargetIsSilent'
  <2>1. target[request[w].target] = "enabled"
    BY <1>4 DEF Sound, SavesMonitor
  <2>2. /\ UNCHANGED target /\ monitor'[request[w].monitor].target = request[w].target
        /\ \A n \in Monitors \ {request[w].monitor} : monitor'[n] = monitor[n]
    BY <1>4, SavesMonitorRows
  <2> QED BY <2>1, <2>2 DEF ArchivedTargetIsSilent, Live
<1>5. ASSUME NEW w \in Workers, ArchiveTarget(w) PROVE ArchivedTargetIsSilent'
  <2> DEFINE t == request[w].target
  <2>1. /\ target' = [target EXCEPT ![t] = "archived"]
        /\ \A n \in Monitors : n \notin LiveMonitorsOf(t) => monitor'[n] = monitor[n]
        /\ \A n \in LiveMonitorsOf(t) : ~monitor'[n].live
    BY <1>5, ArchiveTargetRows
  <2>2. ASSUME NEW n \in Monitors, Live(n)' PROVE target'[monitor'[n].target] = "enabled"
    <3>1. n \notin LiveMonitorsOf(t) /\ monitor'[n] = monitor[n]
      BY <2>1, <2>2 DEF Live
    <3>2. Live(n) /\ monitor[n].target # t
      BY <2>2, <3>1 DEF LiveMonitorsOf, Live
    <3>3. monitor[n].target \in Targets /\ target[monitor[n].target] = "enabled"
      BY <3>2 DEF Live, Types, ResourceTypes, MonitorRows, ArchivedTargetIsSilent
    <3> QED BY <2>1, <3>1, <3>2, <3>3 DEF Types, ResourceTypes
  <2> QED BY <2>2 DEF ArchivedTargetIsSilent
<1> HIDE DEF DomainInv
<1> QED BY <1>1, <1>2, <1>3, <1>4, <1>5, RowSteps

\* Whom effective_agent_ids returns after a step.
LEMMA EffectiveMeansNext ==
    ASSUME NEW m
    PROVE  /\ EffectiveAgents(m)' \subseteq Agents
           /\ \A a \in Agents : a \in EffectiveAgents(m)' <=>
                  /\ agent'[a] = "enabled"
                  /\ \/ <<m, a>> \in direct'
                     \/ \E g \in Groups :
                            group'[g] = "enabled" /\ <<g, a>> \in member' /\ <<m, g>> \in grouped'
<1> DEFINE Chosen == {h \in Groups : group'[h] = "enabled" /\ <<m, h>> \in grouped'}
           All == UNION {EnabledMembers(g)' : g \in Chosen}
<1>1. \A a : a \in All <=> \E g \in Chosen : a \in EnabledMembers(g)'
  <2> HIDE DEF Chosen
  <2> QED OBVIOUS
<1>2. \A a : (\E g \in Chosen : a \in EnabledMembers(g)') <=>
          a \in Agents /\ agent'[a] = "enabled" /\ \E g \in Groups :
              group'[g] = "enabled" /\ <<g, a>> \in member' /\ <<m, g>> \in grouped'
  BY Zenon DEF EnabledMembers
<1>3. EffectiveAgents(m)' = {a \in Agents : <<m, a>> \in direct' /\ agent'[a] = "enabled"} \cup All
  BY DEF EffectiveAgents
<1> HIDE DEF All
<1> QED BY <1>1, <1>2, <1>3, Zenon

\* A new row is in no group, has no assignment and is not looked for yet.
LEMMA CreatesReach ==
    ASSUME Types, Known, Creates
    PROVE  /\ \A g \in Groups : EnabledMembers(g)' = EnabledMembers(g)
           /\ \A m \in Monitors : EffectiveAgents(m)' = EffectiveAgents(m)
           /\ \A a \in Agents : AssignedMonitors(a)' = AssignedMonitors(a)
           /\ UNCHANGED <<monitor, links, desired, snapshot, poll, request, stopped>>
           /\ \A t \in Targets : target[t] # None => target'[t] = target[t]
<1>1. UNCHANGED <<monitor, member, direct, grouped, desired, snapshot, poll, request, owed, stops>>
  BY DEF Creates, CreateAgent, CreateTarget, CreateAgentGroup, links, stopped
<1>2. /\ \A a \in Agents : agent[a] # None => agent'[a] = agent[a]
      /\ \A g \in Groups : group[g] # None => group'[g] = group[g]
      /\ \A t \in Targets : target[t] # None => target'[t] = target[t]
  BY DEF Creates, CreateAgent, CreateTarget, CreateAgentGroup, Types, ResourceTypes
<1>3. ASSUME NEW g \in Groups PROVE EnabledMembers(g)' = EnabledMembers(g)
  BY <1>1, <1>2 DEF EnabledMembers, Known
<1>4. ASSUME NEW m \in Monitors PROVE EffectiveAgents(m)' = EffectiveAgents(m)
  <2>1. ASSUME NEW a \in Agents PROVE a \in EffectiveAgents(m)' <=> a \in EffectiveAgents(m)
    <3>1. /\ <<m, a>> \in direct => agent'[a] = agent[a]
          /\ \A g \in Groups : <<g, a>> \in member => agent'[a] = agent[a] /\ group'[g] = group[g]
      BY <1>2 DEF Known
    <3>2. a \in EffectiveAgents(m)' <=>
              /\ agent'[a] = "enabled"
              /\ \/ <<m, a>> \in direct
                 \/ \E g \in Groups :
                        group'[g] = "enabled" /\ <<g, a>> \in member /\ <<m, g>> \in grouped
      BY <1>1, EffectiveMeansNext, Zenon
    <3>3. a \in EffectiveAgents(m) <=>
              /\ agent[a] = "enabled"
              /\ \/ <<m, a>> \in direct
                 \/ \E g \in Groups :
                        group[g] = "enabled" /\ <<g, a>> \in member /\ <<m, g>> \in grouped
      BY EffectiveMeans
    <3> QED BY <3>1, <3>2, <3>3, Zenon
  <2>2. EffectiveAgents(m) \subseteq Agents /\ EffectiveAgents(m)' \subseteq Agents
    BY ReadsAreTyped, EffectiveMeansNext
  <2> QED BY <2>1, <2>2
<1>5. ASSUME NEW a \in Agents PROVE AssignedMonitors(a)' = AssignedMonitors(a)
  BY <1>1, <1>2, ZenonT(30) DEF AssignedMonitors, Known
<1> QED BY <1>1, <1>2, <1>3, <1>4, <1>5 DEF links, stopped

\* Whom a change affects depends on these rows and links only.
LEMMA ReachStays ==
    ASSUME UNCHANGED <<agent, group, links>>
    PROVE  /\ \A g : EnabledMembers(g)' = EnabledMembers(g)
           /\ \A m : EffectiveAgents(m)' = EffectiveAgents(m)
<1>1. \A g : EnabledMembers(g)' = EnabledMembers(g)
  BY DEF EnabledMembers, links
<1>2. ASSUME NEW m PROVE EffectiveAgents(m)' = EffectiveAgents(m)
  <2>1. EffectiveAgents(m)' \subseteq Agents /\ EffectiveAgents(m) \subseteq Agents
    BY ReadsAreTyped, EffectiveMeansNext
  <2>2. \A a \in Agents : a \in EffectiveAgents(m)' <=> a \in EffectiveAgents(m)
    BY EffectiveMeans, EffectiveMeansNext, Zenon DEF links
  <2> QED BY <2>1, <2>2
<1> QED BY <1>1, <1>2

\* ... and what a request has read, on the rows too.
LEMMA SoundStays ==
    ASSUME UNCHANGED <<agent, group, target, monitor, links>>, NEW q, Sound(q)
    PROVE  Sound(q)'
<1>1. EnabledMembers(q.group)' = EnabledMembers(q.group)
  BY ReachStays
<1>2. LiveMonitorsOf(q.target)' = LiveMonitorsOf(q.target)
  BY DEF LiveMonitorsOf, Live
<1>3. \A m : EffectiveAgents(m)' = EffectiveAgents(m)
  BY ReachStays
<1> QED BY <1>1, <1>2, <1>3, Zenon DEF Sound, Live

\* The bumps that the request of a worker has ahead after a step.
LEMMA AheadNext ==
    ASSUME NEW w, NEW q, q = request'[w]
    PROVE  /\ q.at = "membership" /\ HasAssignments(q.group)' => WillBump(w)' = {q.agent}
           /\ q.at = "members" => WillBump(w)' = EnabledMembers(q.group)'
           /\ q.at = "saved" => WillBump(w)' = EffectiveAgents(q.monitor)'
BY DEF WillBump

\* With one request at a time, what it has read holds until it is used: only
\* new rows and polls come in between.
LEMMA SoundKept ==
    ASSUME DomainInv, NEW w, Workers = {w}, Next
    PROVE  Sound(request[w])'
<1> USE DEF DomainInv
<1>1. request[w] \in RequestStates /\ Sound(request[w])
  BY DEF Types, RequestTypes
<1>2. CASE Creates
  <2>1. PICK q \in RequestStates : q = request[w] /\ q = request'[w]
    BY <1>1, <1>2, CreatesReach
  <2>2. /\ q.at = "create" => q.target \in Targets
        /\ q.at = "unassign_group" => q.group \in Groups
        /\ q.at = "save" => q.target \in Targets
    BY RequestParts
  <2>3. q.at = "create" => target'[q.target] = "enabled"
    BY <1>1, <1>2, <2>1, <2>2, CreatesReach, NoneIsNoRow, Zenon DEF Sound
  <2>4. q.at = "unassign_group" => EnabledMembers(q.group)' \subseteq q.agents
    BY <1>1, <1>2, <2>1, <2>2, CreatesReach, Zenon DEF Sound
  <2>5. q.at = "save" => /\ Live(q.monitor)' /\ target'[q.target] = "enabled"
                         /\ q.revision = monitor'[q.monitor].revision + 1
    BY <1>1, <1>2, <2>1, <2>2, CreatesReach, NoneIsNoRow, Zenon DEF Sound, Live
  <2>6. q.at = "archive" =>
            \A m \in LiveMonitorsOf(q.target)' : EffectiveAgents(m)' \subseteq q.agents
    <3>1. LiveMonitorsOf(q.target)' = LiveMonitorsOf(q.target)
      BY <1>2, CreatesReach, Zenon DEF LiveMonitorsOf, Live
    <3>2. \A m \in LiveMonitorsOf(q.target) : EffectiveAgents(m)' = EffectiveAgents(m)
      BY <1>2, CreatesReach DEF LiveMonitorsOf
    <3> QED BY <1>1, <2>1, <3>1, <3>2, Zenon DEF Sound
  <2>7. Sound(q)'
    BY <2>3, <2>4, <2>5, <2>6, Zenon DEF Sound
  <2> QED BY <2>1, <2>7, Zenon DEF Sound
<1>3. ASSUME NEW a \in Agents, PollReads(a) \/ PollAnswers(a) PROVE Sound(request[w])'
  <2>1. UNCHANGED <<agent, group, target, monitor, links, request>>
    BY <1>3 DEF PollReads, PollAnswers, resources
  <2>2. PICK q : q = request[w] /\ q = request'[w]
    BY <2>1
  <2>3. Sound(q)'
    BY <1>1, <2>1, <2>2, SoundStays
  <2> QED BY <2>2, <2>3, Zenon DEF Sound
<1>4. CASE RequestContinues(w) \/ CutOff(w)
  BY <1>4, ContinuesTo, Zenon DEF Sound
<1>5. CASE RequestBegins(w)
  <2>1. PICK q : q = request'[w]
    OBVIOUS
  <2>2. /\ q.at = "create" => target[q.target] = "enabled"
        /\ q.at = "unassign_group" => q.agents = EnabledMembers(q.group)
        /\ q.at = "save" => /\ Live(q.monitor) /\ target[q.target] = "enabled"
                            /\ q.revision = monitor[q.monitor].revision + 1
        /\ q.at = "archive" => \A m \in LiveMonitorsOf(q.target) :
                                   EffectiveAgents(m) \subseteq q.agents
        /\ q.at \in {"unassign_group", "archive"} => UNCHANGED links
    BY <1>5, <2>1, BeginsTo, Zenon
  <2>3. UNCHANGED <<agent, group, target, monitor>>
    BY <1>5, Zenon DEF RequestBegins, AddAgentToGroup, RemoveAgentFromGroup, ReadsMonitorAndAgent,
       UnassignMonitorFromAgent, ReadsMonitorAndGroup, ReadsMembersToUnassign, ReadsTarget,
       ReadsMonitor, ArchiveTargetReads, resources
  <2>4. q.at = "unassign_group" => EnabledMembers(q.group)' \subseteq q.agents
    BY <2>2, <2>3, Zenon DEF EnabledMembers, links
  <2>5. q.at = "archive" =>
            \A m \in LiveMonitorsOf(q.target)' : EffectiveAgents(m)' \subseteq q.agents
    BY <2>2, <2>3, ReachStays DEF LiveMonitorsOf, Live
  <2>6. Sound(q)'
    BY <2>2, <2>3, <2>4, <2>5, Zenon DEF Sound, Live
  <2> QED BY <2>1, <2>6, Zenon DEF Sound
<1> QED BY <1>2, <1>3, <1>4, <1>5, Zenon DEF Next

---------------------------------------------------------------------------
(* The revision covers the content. *)

\* Nothing an agent serves changes when its assignments, the monitors and
\* their targets stay.
LEMMA SteadyRows ==
    ASSUME NEW a \in Agents, UNCHANGED <<target, monitor>>,
           AssignedMonitors(a)' = AssignedMonitors(a)
    PROVE  Steady(a)
BY Zenon DEF Steady, Serving, Running, Live

\* New rows.
LEMMA CreatesCover ==
    ASSUME DomainInv, Creates, NEW a \in Agents, ArchivedTargetIsSilent'
    PROVE  Covered(a)'
<1> USE DEF DomainInv
<1>1. /\ AssignedMonitors(a)' = AssignedMonitors(a)
      /\ UNCHANGED <<monitor, links, desired, snapshot, poll, request, stopped>>
      /\ \A g \in Groups : EnabledMembers(g)' = EnabledMembers(g)
      /\ \A m \in Monitors : EffectiveAgents(m)' = EffectiveAgents(m)
  BY CreatesReach
<1>2. \A n \in Monitors : Live(n)' = Live(n)
  BY <1>1 DEF Live
<1>3. \A n \in Monitors : Running(n)' <=> Running(n)
  BY <1>1, <1>2, Zenon DEF Running, ArchivedTargetIsSilent
<1>4. Steady(a)
  BY <1>1, <1>3, Zenon DEF Steady, Serving
<1>5. ASSUME NEW w \in Workers, a \in WillBump(w) PROVE a \in WillBump(w)'
  <2>1. request[w] \in RequestStates /\ request'[w] = request[w]
    BY <1>1 DEF Types, RequestTypes
  <2>2. \A g : HasAssignments(g)' <=> HasAssignments(g)
    BY <1>1 DEF HasAssignments, links
  <2>3. /\ request[w].at = "members" => request[w].group \in Groups
        /\ request[w].at = "saved" => request[w].monitor \in Monitors
    BY <2>1, RequestParts
  <2> QED BY <1>1, <1>5, <2>1, <2>2, <2>3, Zenon DEF WillBump
<1>6. Pending(a) => Pending(a)'
  BY <1>1, <1>5 DEF Pending, stopped
<1> QED BY <1>1, <1>4, <1>6, CoverStays, ZenonT(30)

\* An agent that is not enabled after a step has nothing to cover.
LEMMA CoverOfDisabledNext ==
    ASSUME Types', Issued', NEW a \in Agents, agent'[a] # "enabled"
    PROVE  Covered(a)'
<1>1. desired'[a] = 0 \/ desired'[a] \in 1..MaxRevision
  BY BoundsAreNatural DEF Types, RevisionTypes
<1> QED BY <1>1, Zenon DEF Issued, Covered

\* No bump is dropped.
LEMMA NothingLost ==
    ASSUME NEW w, Workers = {w}, NEW a, a \in owed => a \in owed',
           a \in WillBump(w) => a \in WillBump(w)' \/ a \in owed'
    PROVE  Pending(a) => Pending(a)'
BY DEF Pending

\* A request that goes on to its bumps.
LEMMA BumpsAhead ==
    ASSUME Types, NEW w \in Workers, NEW S \in SUBSET Agents, GoesOnToBump(w, S)
    PROVE  WillBump(w)' = S
BY GoingOn DEF WillBump, Types

\* Polls leave the bumps ahead as they are.
LEMMA WaitsStay ==
    ASSUME UNCHANGED <<agent, group, links, request>>
    PROVE  /\ \A w : WillBump(w)' = WillBump(w)
           /\ \A a : AssignedMonitors(a)' = AssignedMonitors(a)
<1>1. \A g : HasAssignments(g)' <=> HasAssignments(g)
  BY DEF HasAssignments, links
<1>2. \A w : WillBump(w)' = WillBump(w)
  BY <1>1, ReachStays, Zenon DEF WillBump
<1>3. \A a : AssignedMonitors(a)' = AssignedMonitors(a)
  BY DEF AssignedMonitors, links
<1> QED BY <1>2, <1>3

\* A request that begins, for an enabled agent.
LEMMA BeginsCover ==
    ASSUME DomainInv, NEW w, Workers = {w}, RequestBegins(w),
           NEW a \in Agents, agent[a] = "enabled"
    PROVE  Covered(a)'
<1> USE DEF DomainInv
<1>1. /\ UNCHANGED <<agent, group, target, monitor, desired, snapshot, poll, owed>>
      /\ request[w] = Idle
  BY Zenon DEF RequestBegins, AddAgentToGroup, RemoveAgentFromGroup, ReadsMonitorAndAgent,
     UnassignMonitorFromAgent, ReadsMonitorAndGroup, ReadsMembersToUnassign, ReadsTarget,
     ReadsMonitor, ArchiveTargetReads, Begins, resources, stopped
<1>2. WillBump(w) = {}
  BY <1>1 DEF WillBump, Idle
<1>3. Pending(a) => Pending(a)'
  BY <1>1, <1>2, NothingLost
<1>4. ASSUME AssignedMonitors(a)' = AssignedMonitors(a) \/ a \in WillBump(w)' PROVE Covered(a)'
  <2>1. Pending(a)' \/ Steady(a)
    BY <1>1, <1>4, SteadyRows DEF Pending
  <2> QED BY <1>1, <1>3, <2>1, CoverStays, Zenon
<1>5. ASSUME UNCHANGED links PROVE Covered(a)'
  BY <1>1, <1>4, <1>5 DEF AssignedMonitors, links
<1>6. ASSUME NEW g \in Groups, NEW b \in Agents,
             AddAgentToGroup(w, g, b) \/ RemoveAgentFromGroup(w, g, b)
      PROVE  Covered(a)'
  <2>1. /\ UNCHANGED <<direct, grouped>>
        /\ \A h \in Groups : <<h, a>> # <<g, b>> => (<<h, a>> \in member' <=> <<h, a>> \in member)
    BY <1>6 DEF AddAgentToGroup, RemoveAgentFromGroup
  <2>2. PICK x : x = request'[w] /\ x.at = "membership" /\ x.group = g /\ x.agent = b
    <3>1. request'[w] = [at |-> "membership", group |-> g, agent |-> b]
      BY <1>6 DEF AddAgentToGroup, RemoveAgentFromGroup, Becomes, Types, RequestTypes
    <3> QED BY <3>1
  <2>3. CASE a = b /\ HasAssignments(g)
    <3>1. HasAssignments(g)'
      BY <2>1, <2>3 DEF HasAssignments
    <3>2. a \in WillBump(w)'
      BY <2>2, <2>3, <3>1, AheadNext, Zenon
    <3> QED BY <1>4, <3>2
  <2>4. CASE a # b \/ ~HasAssignments(g)
    <3>1. AssignedMonitors(a)' = AssignedMonitors(a)
      BY <1>1, <2>1, <2>4, Zenon DEF AssignedMonitors, HasAssignments
    <3> QED BY <1>4, <3>1, Zenon
  <2> QED BY <2>3, <2>4
<1>7. ASSUME NEW m \in Monitors, NEW b \in Agents, UnassignMonitorFromAgent(w, m, b)
      PROVE  Covered(a)'
  <2>1. CASE a = b
    <3>1. GoesOnToBump(w, {b})
      BY <1>7 DEF UnassignMonitorFromAgent
    <3>2. WillBump(w)' = {b}
      BY <3>1, BumpsAhead
    <3> QED BY <1>4, <2>1, <3>2
  <2>2. CASE a # b
    <3>1. AssignedMonitors(a)' = AssignedMonitors(a)
      BY <1>1, <1>7, <2>2, Zenon DEF AssignedMonitors, UnassignMonitorFromAgent
    <3> QED BY <1>4, <3>1
  <2> QED BY <2>1, <2>2
<1>8. CASE \/ \E m \in Monitors, b \in Agents : ReadsMonitorAndAgent(w, m, b)
           \/ \E m \in Monitors, g \in Groups :
                ReadsMonitorAndGroup(w, m, g) \/ ReadsMembersToUnassign(w, m, g)
           \/ \E m \in Monitors, t \in Targets, b \in Behaviours :
                ReadsTarget(w, m, t, b) \/ ReadsMonitor(w, m, t, b)
           \/ \E t \in Targets : ArchiveTargetReads(w, t)
  <2>1. UNCHANGED links
    BY <1>8, Zenon DEF ReadsMonitorAndAgent, ReadsMonitorAndGroup, ReadsMembersToUnassign, ReadsTarget,
       ReadsMonitor, ArchiveTargetReads
  <2> QED BY <1>5, <2>1
<1> QED BY <1>6, <1>7, <1>8 DEF RequestBegins

\* A request that only reads on its way to the bump.
LEMMA ReadsCover ==
    ASSUME DomainInv, NEW w, Workers = {w}, NEW a \in Agents,
           LooksForAssignments(w) \/ ReadsMembers(w) \/ ReadsEffectiveAgents(w)
    PROVE  Covered(a)'
<1> USE DEF DomainInv
<1>1. UNCHANGED <<agent, group, target, monitor, links, desired, snapshot, poll, owed>>
  BY Zenon DEF LooksForAssignments, ReadsMembers, ReadsEffectiveAgents, resources, stopped
<1>2. request[w] \in RequestStates
  BY DEF Types, RequestTypes
<1>3. PICK S \in SUBSET Agents : GoesOnToBump(w, S) /\ WillBump(w) = S
  <2>1. CASE LooksForAssignments(w)
    <3>1. request[w].agent \in Agents
      BY <1>2, <2>1, RequestParts, Zenon DEF LooksForAssignments
    <3> QED BY <2>1, <3>1, Zenon DEF LooksForAssignments, WillBump
  <2>2. CASE ReadsMembers(w)
    BY <2>2, ReadsAreTyped, Zenon DEF ReadsMembers, WillBump
  <2>3. CASE ReadsEffectiveAgents(w)
    BY <2>3, ReadsAreTyped, Zenon DEF ReadsEffectiveAgents, WillBump
  <2> QED BY <2>1, <2>2, <2>3
<1>4. WillBump(w)' = WillBump(w)
  BY <1>3, BumpsAhead
<1>5. AssignedMonitors(a)' = AssignedMonitors(a)
  BY <1>1 DEF AssignedMonitors, links
<1>6. Steady(a)
  BY <1>1, <1>5, SteadyRows
<1>7. Pending(a) => Pending(a)'
  BY <1>1, <1>4, NothingLost, Zenon
<1> QED BY <1>1, <1>6, <1>7, CoverStays, Zenon

\* The assignments that come and go, for an enabled agent.
LEMMA AssignCover ==
    ASSUME DomainInv, NEW w, Workers = {w}, NEW a \in Agents, agent[a] = "enabled",
           \/ AssignMonitorToAgent(w) \/ AssignMonitorToAgentGroup(w)
           \/ UnassignMonitorFromAgentGroup(w)
    PROVE  Covered(a)'
<1> USE DEF DomainInv
<1> DEFINE q == request[w]
<1>1. /\ UNCHANGED <<agent, group, target, monitor, member, desired, snapshot, poll, owed>>
      /\ q.at \in {"assign", "assign_group", "unassign_group"}
  BY Zenon DEF AssignMonitorToAgent, AssignMonitorToAgentGroup, UnassignMonitorFromAgentGroup,
     resources, stopped
<1>2. WillBump(w) = {}
  BY <1>1, Zenon DEF WillBump
<1>3. Pending(a) => Pending(a)'
  BY <1>1, <1>2, NothingLost, Zenon
<1>4. ASSUME AssignedMonitors(a)' = AssignedMonitors(a) \/ a \in WillBump(w)' PROVE Covered(a)'
  <2>1. Pending(a)' \/ Steady(a)
    BY <1>1, <1>4, SteadyRows, Zenon DEF Pending
  <2> QED BY <1>1, <1>3, <2>1, CoverStays, Zenon
<1>5. q \in RequestStates /\ Sound(q)
  BY Zenon DEF Types, RequestTypes
<1>6. CASE AssignMonitorToAgent(w)
  <2>1. q.agent \in Agents
    BY <1>5, <1>6, RequestParts, Zenon DEF AssignMonitorToAgent
  <2>2. CASE <<q.monitor, q.agent>> \in direct \/ a # q.agent
    <3>1. AssignedMonitors(a)' = AssignedMonitors(a)
      BY <1>1, <1>6, <2>2, Zenon DEF AssignedMonitors, AssignMonitorToAgent
    <3> QED BY <1>4, <3>1
  <2>3. CASE <<q.monitor, q.agent>> \notin direct /\ a = q.agent
    <3>1. GoesOnToBump(w, {q.agent})
      BY <1>6, <2>3, Zenon DEF AssignMonitorToAgent
    <3>2. WillBump(w)' = {q.agent}
      BY <2>1, <3>1, BumpsAhead, Zenon
    <3> QED BY <1>4, <2>3, <3>2, Zenon
  <2> QED BY <2>2, <2>3
<1>7. CASE AssignMonitorToAgentGroup(w)
  <2>1. q.group \in Groups
    BY <1>5, <1>7, RequestParts, Zenon DEF AssignMonitorToAgentGroup
  <2>2. CASE <<q.monitor, q.group>> \in grouped \/ <<q.group, a>> \notin member
    <3>1. AssignedMonitors(a)' = AssignedMonitors(a)
      BY <1>1, <1>7, <2>2, Zenon DEF AssignedMonitors, AssignMonitorToAgentGroup
    <3> QED BY <1>4, <3>1
  <2>3. CASE <<q.monitor, q.group>> \notin grouped /\ <<q.group, a>> \in member
    <3>1. PICK g : g = q.group
      OBVIOUS
    <3>2. PICK x : x = request'[w] /\ x.at = "members" /\ x.group = g
      <4>1. request'[w] = [at |-> "members", group |-> g]
        BY <1>7, <2>3, <3>1, Zenon DEF AssignMonitorToAgentGroup, Becomes, Types, RequestTypes
      <4> QED BY <4>1
    <3>3. a \in EnabledMembers(g)'
      BY <1>1, <2>3, <3>1, Zenon DEF EnabledMembers
    <3>4. a \in WillBump(w)'
      BY <3>2, <3>3, AheadNext, Zenon
    <3> QED BY <1>4, <3>4, Zenon
  <2> QED BY <2>2, <2>3
<1>8. CASE UnassignMonitorFromAgentGroup(w)
  <2>1. q.group \in Groups /\ q.agents \subseteq Agents
    BY <1>5, <1>8, RequestParts, Zenon DEF UnassignMonitorFromAgentGroup
  <2>2. CASE <<q.monitor, q.group>> \notin grouped \/ <<q.group, a>> \notin member
    <3>1. AssignedMonitors(a)' = AssignedMonitors(a)
      BY <1>1, <1>8, <2>2, Zenon DEF AssignedMonitors, UnassignMonitorFromAgentGroup
    <3> QED BY <1>4, <3>1
  <2>3. CASE <<q.monitor, q.group>> \in grouped /\ <<q.group, a>> \in member
    <3>1. GoesOnToBump(w, q.agents)
      BY <1>8, <2>3, Zenon DEF UnassignMonitorFromAgentGroup
    <3>2. WillBump(w)' = q.agents
      BY <2>1, <3>1, BumpsAhead, Zenon
    <3>3. a \in q.agents
      BY <1>5, <1>8, <2>3, Zenon DEF Sound, EnabledMembers, UnassignMonitorFromAgentGroup
    <3> QED BY <1>4, <3>2, <3>3, Zenon
  <2> QED BY <2>2, <2>3
<1> QED BY <1>6, <1>7, <1>8, Zenon

\* A new monitor is assigned to nobody, and no poll has read it.
LEMMA CreateMonitorCover ==
    ASSUME DomainInv, NEW w, Workers = {w}, NEW a \in Agents, CreateMonitor(w)
    PROVE  Covered(a)'
<1> USE DEF DomainInv
<1> DEFINE m == request[w].monitor
<1>1. /\ UNCHANGED <<agent, group, target, links, desired, snapshot, poll, owed>>
      /\ request[w].at = "create"
  BY Zenon DEF CreateMonitor, stopped
<1>2. WillBump(w) = {}
  BY <1>1, Zenon DEF WillBump
<1>3. Pending(a) => Pending(a)'
  BY <1>1, <1>2, NothingLost, Zenon
<1>4. AssignedMonitors(a)' = AssignedMonitors(a)
  BY <1>1, Zenon DEF AssignedMonitors, links
<1>5. \A n \in Monitors : monitor[n] # None => monitor'[n] = monitor[n]
  BY Zenon DEF CreateMonitor, Types, ResourceTypes
<1>6. \A n \in Monitors : n \in AssignedMonitors(a) => monitor[n] # None
  BY Zenon DEF AssignedMonitors, Known
<1>7. \A n \in Monitors : poll[a] # None /\ n \in poll[a] => monitor[n] # None
  BY Zenon DEF Issued
<1>8. \A n \in Monitors : monitor[n] # None => (Running(n)' <=> Running(n))
  BY <1>1, <1>5, Zenon DEF Running, Live
<1>9. Steady(a)
  BY <1>4, <1>5, <1>6, <1>7, <1>8, Zenon DEF Steady, Serving
<1> QED BY <1>1, <1>3, <1>9, CoverStays, Zenon

\* A saved monitor is of no concern to an agent it is not assigned to, and the
\* others are read next.
LEMMA SavesMonitorCover ==
    ASSUME DomainInv, NEW w, Workers = {w}, NEW a \in Agents, agent[a] = "enabled", SavesMonitor(w)
    PROVE  Covered(a)'
<1> USE DEF DomainInv
<1>1. /\ UNCHANGED <<agent, group, target, links, desired, snapshot, poll, owed>>
      /\ request[w].at = "save"
  BY DEF SavesMonitor, stopped
<1>2. WillBump(w) = {}
  BY <1>1, Zenon DEF WillBump
<1>3. Pending(a) => Pending(a)'
  BY <1>1, <1>2, NothingLost, Zenon
<1>4. PICK m : m = request[w].monitor
  OBVIOUS
<1>5. m \in Monitors /\ Live(m)
  BY <1>1, <1>4, RequestParts, Zenon DEF Types, RequestTypes, Sound
<1>6. \A n \in Monitors \ {m} : monitor'[n] = monitor[n]
  BY <1>4, SavesMonitorRows, Zenon
<1>7. CASE a \in EffectiveAgents(m)
  <2>1. PICK x : x = request'[w] /\ x.at = "saved" /\ x.monitor = m
    <3>1. request'[w] = [at |-> "saved", monitor |-> m]
      BY <1>4 DEF SavesMonitor, Becomes, Types, RequestTypes
    <3> QED BY <3>1
  <2>2. a \in EffectiveAgents(m)'
    BY <1>1, <1>7, ReachStays, Zenon
  <2>3. a \in WillBump(w)'
    BY <2>1, <2>2, AheadNext, Zenon
  <2> QED BY <2>3, Zenon DEF Covered, Pending
<1>8. CASE a \notin EffectiveAgents(m)
  <2>1. m \notin AssignedMonitors(a)
    BY <1>5, <1>8, AssignedIsEffective
  <2>2. AssignedMonitors(a)' = AssignedMonitors(a)
    BY <1>1, Zenon DEF AssignedMonitors, links
  <2>3. \A n \in Monitors \ {m} : Running(n)' <=> Running(n)
    BY <1>1, <1>6, Zenon DEF Running, Live
  <2>4. Running(m)
    BY <1>5 DEF ArchivedTargetIsSilent, Running
  <2>5. Steady(a)
    BY <1>6, <2>1, <2>2, <2>3, <2>4, Zenon DEF Steady, Serving
  <2> QED BY <1>1, <1>3, <2>5, CoverStays, Zenon
<1> QED BY <1>7, <1>8

\* archive_target raises the revision of every enabled agent that serves one of
\* the monitors it turns off; the others serve what they did.
LEMMA ArchiveTargetCover ==
    ASSUME DomainInv, Types', NEW w, Workers = {w}, NEW a \in Agents, agent[a] = "enabled",
           ArchiveTarget(w)
    PROVE  Covered(a)'
<1> USE DEF DomainInv
<1> DEFINE t == request[w].target
           S == request[w].agents
<1>1. UNCHANGED <<group, links, snapshot, poll>> /\ request[w].at = "archive" /\ Raises(S)
  BY DEF ArchiveTarget
<1>2. \A b \in Agents : desired'[b] = IF b \in S THEN desired[b] + 1 ELSE desired[b]
  BY <1>1, RaisesTyped, Zenon DEF Types
<1>3. CASE a \in S
  <2>1. poll'[a] = None
    BY <1>1, <1>3, Zenon DEF Raises
  <2> QED BY <1>1, <1>2, <1>3, <2>1, CoverOfRaised, Zenon
<1>4. CASE a \notin S
  <2>1. WillBump(w) = {}
    BY <1>1, Zenon DEF WillBump
  <2>2. Pending(a) => Pending(a)'
    BY <1>1, <1>4, <2>1, NothingLost, Zenon DEF Raises
  <2>3. AssignedMonitors(a)' = AssignedMonitors(a)
    BY <1>1, Zenon DEF AssignedMonitors, links
  <2>4. /\ target' = [target EXCEPT ![t] = "archived"]
        /\ \A n \in Monitors : n \notin LiveMonitorsOf(t) => monitor'[n] = monitor[n]
        /\ \A n \in LiveMonitorsOf(t) : ~monitor'[n].live
    BY ArchiveTargetRows, Zenon
  <2>5. ASSUME NEW n \in Monitors, n \in Serving(a) PROVE n \notin LiveMonitorsOf(t)
    <3>1. a \in EffectiveAgents(n)
      BY <2>5, AssignedIsEffective DEF Serving
    <3> QED BY <1>1, <1>4, <3>1, Zenon DEF Sound
  <2>6. ASSUME NEW n \in Monitors, n \notin LiveMonitorsOf(t), Running(n) PROVE Running(n)'
    <3>1. monitor[n].target # t /\ monitor[n].target \in Targets
      BY <2>6, Zenon DEF LiveMonitorsOf, Running, Live, Types, ResourceTypes, MonitorRows
    <3>2. monitor'[n] = monitor[n] /\ target'[monitor[n].target] = target[monitor[n].target]
      BY <2>4, <2>6, <3>1, Zenon DEF Types, ResourceTypes
    <3> QED BY <2>6, <3>2, Zenon DEF Running, Live
  <2>7. ASSUME NEW n \in Monitors, Running(n)' PROVE Running(n)
    <3>1. n \notin LiveMonitorsOf(t)
      BY <2>4, <2>7, Zenon DEF Running, Live
    <3>2. monitor'[n] = monitor[n]
      BY <2>4, <3>1, Zenon
    <3>3. Live(n)
      BY <2>7, <3>2, Zenon DEF Running, Live
    <3> QED BY <3>3, Zenon DEF ArchivedTargetIsSilent, Running
  <2>8. Steady(a)
    BY <2>3, <2>4, <2>5, <2>6, <2>7, Zenon DEF Steady, Serving
  <2> QED BY <1>1, <1>2, <1>4, <2>2, <2>8, CoverStays, Zenon
<1> QED BY <1>3, <1>4, Zenon

\* One round of the bump loop, and a request that is cut off.
LEMMA BumpCover ==
    ASSUME DomainInv, Types', NEW w, Workers = {w}, NEW a \in Agents, Bump(w) \/ CutOff(w)
    PROVE  Covered(a)'
<1> USE DEF DomainInv
<1>1. UNCHANGED <<agent, group, target, monitor, links, snapshot, poll>>
  BY Zenon DEF Bump, CutOff, resources
<1>2. AssignedMonitors(a)' = AssignedMonitors(a)
  BY <1>1 DEF AssignedMonitors, links
<1>3. Steady(a)
  BY <1>1, <1>2, SteadyRows
<1>4. CASE Bump(w)
  <2>1. PICK b \in request[w].todo :
            Raises({b}) /\ GoesOnToBump(w, request[w].todo \ {b})
    BY <1>4, Zenon DEF Bump
  <2>2. request[w].todo \subseteq Agents /\ WillBump(w) = request[w].todo
    BY <1>4, RequestParts, Zenon DEF Bump, WillBump, Types, RequestTypes
  <2>3. \A c \in Agents : desired'[c] = IF c = b THEN desired[c] + 1 ELSE desired[c]
    BY <1>1, <2>1, RaisesTyped, Zenon DEF Types
  <2>4. CASE a = b
    <3>1. poll'[a] = None
      BY <1>1, <2>1, <2>4, Zenon DEF Raises
    <3> QED BY <1>1, <2>3, <2>4, <3>1, CoverOfRaised, Zenon
  <2>5. CASE a # b
    <3>1. WillBump(w)' = request[w].todo \ {b}
      <4>1. PICK S \in SUBSET Agents : S = request[w].todo \ {b}
        BY <2>2, Zenon
      <4> QED BY <2>1, <4>1, BumpsAhead, Zenon
    <3>2. Pending(a) => Pending(a)'
      BY <2>1, <2>2, <2>5, <3>1, NothingLost, Zenon DEF Raises
    <3> QED BY <1>1, <1>3, <2>3, <2>5, <3>2, CoverStays, Zenon
  <2> QED BY <2>4, <2>5, Zenon
<1>5. CASE CutOff(w)
  <2>1. UNCHANGED desired /\ owed' = owed \cup WillBump(w)
    BY <1>5 DEF CutOff
  <2>2. Pending(a) => Pending(a)'
    BY <2>1, NothingLost
  <2> QED BY <1>1, <1>3, <2>1, <2>2, CoverStays, Zenon
<1> QED BY <1>4, <1>5

\* A poll reads the assignments as they are, and answers with what the agent
\* serves, or with a revision whose bump is still to come.
LEMMA PollCover ==
    ASSUME DomainInv, NEW a \in Agents, NEW b \in Agents, PollReads(b) \/ PollAnswers(b)
    PROVE  Covered(a)'
<1> USE DEF DomainInv
<1>1. UNCHANGED <<agent, group, target, monitor, links, request, owed>>
  BY Zenon DEF PollReads, PollAnswers, resources, stopped
<1>2. AssignedMonitors(a)' = AssignedMonitors(a) /\ \A w : WillBump(w)' = WillBump(w)
  BY <1>1, WaitsStay
<1>3. Pending(a)' <=> Pending(a)
  BY <1>1, <1>2 DEF Pending
<1>4. Steady(a)
  BY <1>1, <1>2, SteadyRows
<1>5. CASE a # b
  <2>1. desired'[a] = desired[a] /\ snapshot'[a] = snapshot[a] /\ poll'[a] = poll[a]
    BY <1>5, PollAnswersTyped DEF PollReads, Types, RevisionTypes
  <2> QED BY <1>3, <1>4, <2>1, CoverStays, Zenon
<1>6. \A m : Running(m)' <=> Running(m)
  BY <1>1, Zenon DEF Running, Live
<1>7. Serving(a)' = Serving(a) /\ Content(a)' = Content(a)
  BY <1>1, <1>2, <1>6, Zenon DEF Serving, Content, ContentOf
<1>8. CASE a = b /\ ~Pending(a) /\ PollReads(b)
  <2>1. UNCHANGED <<desired, snapshot>> /\ poll'[a] = AssignedMonitors(a)
    BY <1>8, Zenon DEF PollReads, Types, RevisionTypes
  <2>2. {m \in poll'[a] : Running(m)'} = Serving(a)'
    BY <1>6, <1>7, <2>1, Zenon DEF Serving
  <2> QED BY <1>7, <1>8, <2>1, <2>2, Zenon DEF Covered
<1>9. CASE a = b /\ ~Pending(a) /\ PollAnswers(b)
  <2>1. poll[a] # None /\ poll'[a] = None
    BY <1>9, Zenon DEF PollAnswers, Types, RevisionTypes
  <2>2. CASE UNCHANGED <<desired, snapshot>>
    BY <1>7, <1>9, <2>1, <2>2, Zenon DEF Covered
  <2>3. CASE ~UNCHANGED <<desired, snapshot>>
    <3>1. snapshot'[a][desired'[a]] = ContentOf(poll[a])
      BY <1>9, <2>3, PollAnswersTyped, Zenon
    <3>2. {m \in poll[a] : Running(m)} = {m \in AssignedMonitors(a) : Running(m)}
      BY <1>9, <2>1, Zenon DEF Covered, Serving
    <3>3. ContentOf(poll[a]) = Content(a)
      BY <3>2, Zenon DEF ContentOf, Content
    <3> QED BY <1>7, <2>1, <3>1, <3>3, Zenon DEF Covered
  <2> QED BY <2>2, <2>3
<1>10. CASE Pending(a)
  BY <1>3, <1>10, Zenon DEF Covered
<1> QED BY <1>5, <1>8, <1>9, <1>10

\* The invariant of a control plane that handles one request at a time.
THEOREM DomainInvariant ==
    ASSUME NEW w, Workers = {w}
    PROVE  Spec => []DomainInv
<1>1. Init => DomainInv
  <2> SUFFICES ASSUME Init PROVE DomainInv
    OBVIOUS
  <2>1. Types /\ Known
    BY InitTyped
  <2>2. Issued /\ ArchivedTargetIsSilent
    BY Zenon DEF Init, Issued, ArchivedTargetIsSilent, Live
  <2>3. \A v \in Workers : Sound(request[v])
    BY Zenon DEF Init, Idle, Sound
  <2>4. \A a \in Agents : Covered(a)
    BY Zenon DEF Init, Covered
  <2> QED BY <2>1, <2>2, <2>3, <2>4 DEF DomainInv
<1>2. DomainInv /\ (Types /\ Known)' /\ [Next]_vars => DomainInv'
  <2> SUFFICES ASSUME DomainInv, (Types /\ Known)', [Next]_vars PROVE DomainInv'
    OBVIOUS
  <2>1. CASE Next
    <3>1. Issued' /\ ArchivedTargetIsSilent' /\ Sound(request[w])'
      BY <2>1, IssuedKept, SilentKept, SoundKept, Zenon DEF DomainInv
    <3>2. ASSUME NEW a \in Agents PROVE Covered(a)'
      <4>1. CASE agent'[a] # "enabled"
        BY <3>1, <4>1, CoverOfDisabledNext
      <4>2. CASE Creates
        BY <3>1, <4>2, CreatesCover
      <4>3. ASSUME NEW b \in Agents, PollReads(b) \/ PollAnswers(b) PROVE Covered(a)'
        BY <4>3, PollCover
      <4>4. ASSUME agent'[a] = "enabled", RequestBegins(w) \/ RequestContinues(w) \/ CutOff(w)
            PROVE  Covered(a)'
        <5>1. agent[a] = "enabled"
          BY <4>4, Zenon DEF RequestBegins, AddAgentToGroup, RemoveAgentFromGroup, ReadsMonitorAndAgent,
             UnassignMonitorFromAgent, ReadsMonitorAndGroup, ReadsMembersToUnassign, ReadsTarget,
             ReadsMonitor, ArchiveTargetReads, RequestContinues, CreateMonitor, SavesMonitor,
             ArchiveTarget, CutOff, LooksForAssignments, AssignMonitorToAgent,
             AssignMonitorToAgentGroup, ReadsMembers, UnassignMonitorFromAgentGroup,
             ReadsEffectiveAgents, Bump, resources
        <5> QED
          BY <4>4, <5>1, BeginsCover, ReadsCover, AssignCover, CreateMonitorCover,
             SavesMonitorCover, ArchiveTargetCover, BumpCover, Zenon DEF RequestContinues
      <4> QED BY <2>1, <4>1, <4>2, <4>3, <4>4, Zenon DEF Next
    <3> QED BY <3>1, <3>2, Zenon DEF DomainInv
  <2>2. CASE UNCHANGED vars
    <3>1. UNCHANGED <<agent, group, target, monitor, links, desired, snapshot, poll, request, owed>>
      BY <2>2 DEF vars, resources, stopped
    <3>2. Issued' /\ ArchivedTargetIsSilent'
      BY <3>1, Zenon DEF DomainInv, Issued, ArchivedTargetIsSilent, Live
    <3>3. Sound(request[w])'
      <4>1. PICK q : q = request[w] /\ q = request'[w]
        BY <3>1
      <4>2. Sound(q)'
        BY <3>1, <4>1, SoundStays DEF DomainInv
      <4> QED BY <4>1, <4>2, Zenon DEF Sound
    <3>4. ASSUME NEW a \in Agents PROVE Covered(a)'
      <4>1. AssignedMonitors(a)' = AssignedMonitors(a) /\ WillBump(w)' = WillBump(w)
        BY <3>1, WaitsStay
      <4>2. Steady(a) /\ (Pending(a) => Pending(a)')
        BY <3>1, <4>1, SteadyRows, NothingLost
      <4> QED BY <3>1, <4>2, CoverStays, Zenon DEF DomainInv
    <3> QED BY <3>2, <3>3, <3>4, Zenon DEF DomainInv
  <2> QED BY <2>1, <2>2
<1> QED BY <1>1, <1>2, TypesInvariant, PTL DEF Spec

\* With one request at a time, the desired revision of an agent stands for what
\* the agent should run, whatever the polls and the cut-off requests do.
THEOREM RevisionsCover ==
    ASSUME NEW w, Workers = {w}
    PROVE  Spec => []RevisionCoversContent
<1>1. DomainInv => RevisionCoversContent
  BY Zenon DEF DomainInv, Covered, Pending, RevisionCoversContent
<1> QED BY <1>1, DomainInvariant, PTL

\* With one request at a time, archive_target leaves no live monitor on the
\* target, and none is created or moved there later.
THEOREM ArchivedIsSilent ==
    ASSUME NEW w, Workers = {w}
    PROVE  Spec => []ArchivedTargetIsSilent
<1>1. DomainInv => ArchivedTargetIsSilent
  BY DEF DomainInv
<1> QED BY <1>1, DomainInvariant, PTL

---------------------------------------------------------------------------
(* Monitor revisions. *)

\* The entry was made from the row of its monitor, or from an earlier revision of it.
Made(e) ==
    /\ monitor[e.monitor] # None /\ e.revision <= monitor[e.monitor].revision
    /\ e.revision = monitor[e.monitor].revision =>
           /\ e.target = monitor[e.monitor].target
           /\ e.behaviour = monitor[e.monitor].behaviour

\* Entries of issued snapshots.
Told == {e \in Entries : \E a \in Agents : \E r \in 1..MaxRevision :
            snapshot[a][r] # None /\ e \in snapshot[a][r]}

\* Every entry an agent was told was made so, and no two differ under one revision.
EntriesInv ==
    /\ \A e \in Told : Made(e)
    /\ \A e, f \in Told : e.monitor = f.monitor /\ e.revision = f.revision => e = f

\* An entry of a poll is the row of its monitor.
LEMMA ContentIsMade ==
    ASSUME Types, NEW a \in Agents, poll[a] # None, NEW e \in ContentOf(poll[a])
    PROVE  /\ e \in Entries /\ monitor[e.monitor] \in MonitorRows
           /\ e.revision = monitor[e.monitor].revision
           /\ e.target = monitor[e.monitor].target
           /\ e.behaviour = monitor[e.monitor].behaviour
<1>1. poll[a] \subseteq Monitors
  BY DEF Types, RevisionTypes
<1>2. PICK m \in poll[a] :
          /\ Running(m)
          /\ e = [monitor |-> m, target |-> monitor[m].target, behaviour |-> monitor[m].behaviour,
                  revision |-> monitor[m].revision]
  BY Zenon DEF ContentOf
<1>3. monitor[m] \in MonitorRows
  BY <1>1, <1>2, Zenon DEF Running, Live, Types, ResourceTypes
<1> QED BY <1>1, <1>2, <1>3, Zenon DEF Entries, MonitorRows

\* Two entries that agree are one.
LEMMA EntriesEqual ==
    ASSUME NEW e \in Entries, NEW f \in Entries, e.monitor = f.monitor, e.revision = f.revision,
           e.target = f.target, e.behaviour = f.behaviour
    PROVE  e = f
BY DEF Entries

\* A row keeps its content until update_monitor gives it the next revision.
LEMMA MadeKept ==
    ASSUME DomainInv, Next, NEW e \in Entries, Made(e)
    PROVE  Made(e)'
<1> USE DEF DomainInv
<1>1. PICK n \in Monitors : n = e.monitor /\ monitor[n] \in MonitorRows
  BY Zenon DEF Entries, Made, Types, ResourceTypes
<1>2. monitor[n].revision \in Nat /\ e.revision \in Nat /\ monitor[n] # None
  BY <1>1, NoneIsNoRow DEF MonitorRows, Entries
<1>3. CASE monitor'[n] = monitor[n]
  BY <1>1, <1>3, Zenon DEF Made
<1>4. CASE Creates \/ UNCHANGED resources
  BY <1>3, <1>4, Zenon DEF Creates, CreateAgent, CreateTarget, CreateAgentGroup, resources
<1>5. ASSUME NEW w \in Workers, CreateMonitor(w) PROVE Made(e)'
  BY <1>2, <1>3, <1>5, Zenon DEF CreateMonitor, Types, ResourceTypes
<1>6. ASSUME NEW w \in Workers, SavesMonitor(w) PROVE Made(e)'
  <2>1. CASE n # request[w].monitor
    BY <1>3, <1>6, <2>1, SavesMonitorRows, ZenonT(30)
  <2>2. CASE n = request[w].monitor
    <3>1. monitor'[n].revision = monitor[n].revision + 1
      BY <1>6, <2>2, SavesMonitorRows, ZenonT(30) DEF Sound, SavesMonitor
    <3>2. monitor'[n] # None
      BY <1>2, <1>6, SavesMonitorRows, Zenon DEF RowsStay
    <3> QED BY <1>1, <1>2, <3>1, <3>2 DEF Made
  <2> QED BY <2>1, <2>2
<1>7. ASSUME NEW w \in Workers, ArchiveTarget(w) PROVE Made(e)'
  <2>1. CASE n \notin LiveMonitorsOf(request[w].target)
    BY <1>3, <1>7, <2>1, ArchiveTargetRows, Zenon
  <2>2. CASE n \in LiveMonitorsOf(request[w].target)
    <3>1. /\ monitor'[n] # None /\ monitor'[n].target = monitor[n].target
          /\ monitor'[n].behaviour = monitor[n].behaviour
          /\ monitor'[n].revision = monitor[n].revision
      BY <1>7, <2>2, ArchiveTargetRows, Zenon
    <3> QED BY <1>1, <3>1, Zenon DEF Made
  <2> QED BY <2>1, <2>2
<1> QED BY <1>4, <1>5, <1>6, <1>7, RowSteps

\* What is told is added to by polls only, from the rows as they are.
LEMMA ToldGrows ==
    ASSUME Types, Types', Next
    PROVE  \A e \in Told' :
               \/ e \in Told
               \/ /\ UNCHANGED monitor /\ monitor[e.monitor] \in MonitorRows
                  /\ e.revision = monitor[e.monitor].revision
                  /\ e.target = monitor[e.monitor].target
                  /\ e.behaviour = monitor[e.monitor].behaviour
<1>1. CASE UNCHANGED snapshot
  BY <1>1, Zenon DEF Told
<1>2. ASSUME NEW b \in Agents, PollAnswers(b), ~UNCHANGED snapshot, NEW e \in Told', e \notin Told
      PROVE  e \in ContentOf(poll[b]) /\ poll[b] # None /\ UNCHANGED monitor
  <2>1. PICK a \in Agents, r \in 1..MaxRevision : snapshot'[a][r] # None /\ e \in snapshot'[a][r]
    BY <1>2, Zenon DEF Told
  <2>2. snapshot'[a][r] # snapshot[a][r]
    BY <1>2, <2>1, Zenon DEF Told
  <2>3. a = b
    BY <1>2, <2>2, PollAnswersTyped, SMTT(30), Zenon
  <2>4. /\ snapshot'[b][desired'[b]] = ContentOf(poll[b])
        /\ \A s \in 1..MaxRevision : s # desired'[b] => snapshot'[b][s] = snapshot[b][s]
    BY <1>2, PollAnswersTyped, Zenon
  <2>5. snapshot'[a][r] = ContentOf(poll[b])
    BY <2>2, <2>3, <2>4, Zenon
  <2> QED BY <1>2, <2>1, <2>5, Zenon DEF PollAnswers, resources
<1>3. CASE \A b \in Agents : ~PollAnswers(b)
  <2>1. UNCHANGED snapshot
    BY <1>3, RevisionSteps DEF ArchiveTarget, Bump, PollReads
  <2> QED BY <1>1, <2>1, Zenon
<1> QED BY <1>1, <1>2, <1>3, ContentIsMade, ZenonT(30)

\* With one request at a time, no agent is ever told of two behaviours under one
\* revision of a monitor.
THEOREM RevisionsIdentify ==
    ASSUME NEW w, Workers = {w}
    PROVE  Spec => []MonitorRevisionIdentifies
<1>1. Init => EntriesInv
  BY DEF Init, EntriesInv, Told
<1>2. EntriesInv /\ DomainInv /\ DomainInv' /\ [Next]_vars => EntriesInv'
  <2> SUFFICES ASSUME EntriesInv, DomainInv, DomainInv', [Next]_vars PROVE EntriesInv'
    OBVIOUS
  <2>1. CASE UNCHANGED vars
    BY <2>1, Zenon DEF vars, resources, EntriesInv, Told, Made
  <2>2. CASE Next
    <3>1. \A e \in Told' :
             \/ e \in Told
             \/ /\ UNCHANGED monitor /\ monitor[e.monitor] \in MonitorRows
                /\ e.revision = monitor[e.monitor].revision
                /\ e.target = monitor[e.monitor].target
                /\ e.behaviour = monitor[e.monitor].behaviour
      BY <2>2, ToldGrows, Zenon DEF DomainInv
    <3>2. Told \subseteq Entries /\ Told' \subseteq Entries
      BY DEF Told
    <3>3. ASSUME NEW e \in Told' PROVE Made(e)'
      <4>1. CASE e \in Told
        BY <2>2, <3>2, <4>1, MadeKept DEF EntriesInv
      <4>2. CASE e \notin Told
        BY <3>1, <3>2, <4>2, NoneIsNoRow DEF Made, MonitorRows
      <4> QED BY <4>1, <4>2
    <3>4. ASSUME NEW e \in Told', NEW f \in Told', e.monitor = f.monitor, e.revision = f.revision
          PROVE  e = f
      <4>1. CASE e \in Told /\ f \in Told
        BY <3>4, <4>1 DEF EntriesInv
      <4>2. CASE e \notin Told \/ f \notin Told
        <5>1. /\ e.revision = monitor'[e.monitor].revision
              /\ f.revision = monitor'[f.monitor].revision
          BY <3>1, <3>4, <4>2, Zenon
        <5>2. e.target = f.target /\ e.behaviour = f.behaviour
          BY <3>3, <3>4, <5>1, Zenon DEF Made
        <5> QED BY <3>2, <3>4, <5>2, EntriesEqual
      <4> QED BY <4>1, <4>2
    <3> QED BY <3>3, <3>4 DEF EntriesInv
  <2> QED BY <2>1, <2>2
<1>3. EntriesInv /\ DomainInv => MonitorRevisionIdentifies
  <2> SUFFICES ASSUME EntriesInv, DomainInv, NEW a \in Agents, NEW b \in Agents,
                      NEW r \in 1..MaxRevision, NEW s \in 1..MaxRevision,
                      snapshot[a][r] # None, snapshot[b][s] # None,
                      NEW e \in snapshot[a][r], NEW f \in snapshot[b][s],
                      e.monitor = f.monitor, e.revision = f.revision
               PROVE  e = f
    BY DEF MonitorRevisionIdentifies
  <2>1. snapshot[a][r] \subseteq Entries /\ snapshot[b][s] \subseteq Entries
    <3>1. /\ snapshot[a] \in [1..MaxRevision -> (SUBSET Entries) \cup {None}]
          /\ snapshot[b] \in [1..MaxRevision -> (SUBSET Entries) \cup {None}]
      BY Zenon DEF DomainInv, Types, RevisionTypes
    <3>2. /\ snapshot[a][r] \in (SUBSET Entries) \cup {None}
          /\ snapshot[b][s] \in (SUBSET Entries) \cup {None}
      BY <3>1, Zenon
    <3> QED BY <3>2, Zenon
  <2>2. e \in Told /\ f \in Told
    BY <2>1, Zenon DEF Told
  <2> QED BY <2>2, Zenon DEF EntriesInv
<1> QED BY <1>1, <1>2, <1>3, DomainInvariant, PTL DEF Spec
=============================================================================
