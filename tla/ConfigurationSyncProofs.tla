----------------------- MODULE ConfigurationSyncProofs -----------------------
(***************************************************************************)
(* Proofs about ConfigurationSync, for every set of contents and every     *)
(* bound on revisions, requests in flight and crashes.                     *)
(*                                                                         *)
(* SyncInv is the inductive invariant.  What makes it inductive are the    *)
(* facts about values on their way: an answer and an acknowledgement name  *)
(* a snapshot that was issued, and lie between the active and the desired  *)
(* revision.                                                               *)
(***************************************************************************)
EXTENDS ConfigurationSync, FiniteSetTheorems, TLAPS

\* Before its first revision the server has neither a hash nor a snapshot; later its
\* snapshots are those of revisions up to the desired one.
ServerInv ==
    /\ CurrentRevision + bumps <= MaxRevision
    /\ desired = 0 => desiredHash = None
    /\ \A r \in Revisions : issued[r] # None => r <= desired
    /\ desired # 0 => AnnouncedHashIssued

\* The revisions the agent keeps besides the active one.
Previous == {r \in Revisions : rows[r] # None} \ {active}

\* The agent's rows are issued ones up to the active revision, at most one of them is not
\* active.
AgentInv ==
    /\ AgentHoldsIssued
    /\ active <= desired
    /\ \A r \in Revisions : rows[r] # None => r <= active
    /\ \A r, s \in Previous : r = s

\* A poll names the active revision; an answer with a configuration is an issued one, not
\* older than the active one; 304 answers a poll that named a revision.
ExchangeInv ==
    /\ asked.kind = "get" => asked.rev = active
    /\ reply.kind = "config" => issued[reply.rev] = reply.content /\ reply.rev >= active
    /\ reply.kind = "unchanged" => asked.kind = "get" /\ asked.rev # 0

\* Acknowledgements name issued revisions up to the active one.
AcknowledgementInv ==
    /\ \A request \in network : request.kind = "ack" =>
          /\ request.rev \in Revisions /\ request.rev <= active
          /\ request.content \in Contents /\ issued[request.rev] = request.content
    /\ AcknowledgedWasActivated

SyncInv == TypeOK /\ ServerInv /\ AgentInv /\ ExchangeInv /\ AcknowledgementInv

-----------------------------------------------------------------------------
\* Revision numbers and snapshots after one more snapshot is issued.
LEMMA CurrentRevisionType ==
    ASSUME TypeOK
    PROVE  CurrentRevision \in Revisions /\ CurrentRevision >= desired
BY ConfigurationConstants DEF TypeOK, CurrentRevision, Revisions

\* What is said of the two programs' tables depends on these variables only.
LEMMA TablesStay ==
    ASSUME ServerInv, AgentInv, UNCHANGED <<bumps, desired, desiredHash, issued, rows, active>>
    PROVE  ServerInv' /\ AgentInv'
<1>1. ServerInv'
  BY Zenon DEF ServerInv, CurrentRevision, AnnouncedHashIssued
<1>2. AgentInv'
  BY Zenon DEF AgentInv, AgentHoldsIssued, Previous
<1> QED BY <1>1, <1>2, Zenon

\* Requests may be lost, and polls sent, without a new acknowledgement.
LEMMA AcknowledgementsStay ==
    ASSUME AcknowledgementInv, UNCHANGED <<acknowledged, issued, active>>,
           \A request \in network' : request.kind = "ack" => request \in network
    PROVE  AcknowledgementInv'
BY Zenon DEF AcknowledgementInv, AcknowledgedWasActivated

\* An exchange that ends, in whatever way, leaves nothing to be true of; what it sent may be
\* lost.
LEMMA ExchangeEnds ==
    ASSUME ServerInv, AgentInv, AcknowledgementInv, UNCHANGED <<serverState, database>>,
           asked' = Nothing, reply' = Nothing, network' \in SUBSET network
    PROVE  ServerInv' /\ AgentInv' /\ ExchangeInv' /\ AcknowledgementInv'
<1>1. ServerInv' /\ AgentInv'
  BY TablesStay, Zenon DEF serverState, database
<1>2. ExchangeInv'
  BY DEF ExchangeInv, Nothing
<1>3. AcknowledgementInv'
  BY AcknowledgementsStay, Zenon DEF serverState, database
<1> QED BY <1>1, <1>2, <1>3, Zenon

\* What Content returns for a revision of a table.
LEMMA ContentType ==
    ASSUME NEW table \in Snapshots, NEW rev \in {0} \cup Revisions
    PROVE  Content(table, rev) \in Contents \cup {None}
BY DEF Content, Snapshots

\* The initial states satisfy the invariant.
LEMMA InitSyncInv == Init => SyncInv
<1> SUFFICES ASSUME Init PROVE SyncInv
  OBVIOUS
<1> USE ConfigurationConstants DEF Init
<1>1. TypeOK
  <2>1. issued \in Snapshots /\ rows \in Snapshots
    BY DEF Snapshots
  <2>2. reply \in Replies
    BY DEF Replies
  <2>3. bumps \in 0..MaxRevision /\ crashes \in 0..MaxCrashes
    OBVIOUS
  <2> QED  BY <2>1, <2>2, <2>3 DEF TypeOK
<1>2. ServerInv
  BY DEF ServerInv, CurrentRevision, Revisions
<1>3. AgentInv
  BY DEF AgentInv, AgentHoldsIssued, Previous
<1>4. ExchangeInv
  BY DEF ExchangeInv, Nothing
<1>5. AcknowledgementInv
  BY DEF AcknowledgementInv, AcknowledgedWasActivated
<1> QED  BY <1>1, <1>2, <1>3, <1>4, <1>5 DEF SyncInv

\* Every step preserves the type invariant.
LEMMA NextTypeOK == SyncInv /\ [Next]_vars => TypeOK'
<1> SUFFICES ASSUME SyncInv, [Next]_vars PROVE TypeOK'
  OBVIOUS
<1> USE ConfigurationConstants
<1>1. TypeOK /\ ServerInv
  BY DEF SyncInv
<1>2. ASSUME NEW c \in Contents, ChangeContent(c) PROVE TypeOK'
  BY <1>1, <1>2 DEF ChangeContent, TypeOK, CurrentRevision, Revisions, database, mainLoop
<1>3. CASE BumpRevision
  BY <1>1, <1>3 DEF BumpRevision, TypeOK, ServerInv, CurrentRevision, Revisions, database, mainLoop
<1>4. ASSUME NEW request \in network, ServeConfiguration(request) PROVE TypeOK'
  <2>1. reply' \in Replies
    BY <1>1, <1>4, CurrentRevisionType DEF ServeConfiguration, Answer, TypeOK, Replies, Unchanged
  <2> QED
    BY <2>1, <1>1, <1>4, CurrentRevisionType
    DEF ServeConfiguration, Delivered, TypeOK, Snapshots, database
<1>5. ASSUME NEW request \in network, RefuseConfiguration(request) PROVE TypeOK'
  BY <1>1, <1>5 DEF RefuseConfiguration, Answer, Delivered, TypeOK, Replies, serverState, database
<1>6. ASSUME NEW request \in network, ServeAcknowledgement(request) PROVE TypeOK'
  <2>1. acknowledged' \in {0} \cup Revisions
    BY <1>1, <1>6 DEF ServeAcknowledgement, Acknowledged, TypeOK, Messages
  <2>2. reply' \in Replies
    BY <2>1, <1>1, <1>6 DEF ServeAcknowledgement, Answer, TypeOK, Replies
  <2> QED
    BY <2>1, <2>2, <1>1, <1>6 DEF ServeAcknowledgement, Delivered, TypeOK, database
<1>7. CASE Poll
  <2>1. [kind |-> "get", rev |-> active, content |-> Content(rows, active)] \in Messages
    BY <1>1, ContentType, Zenon DEF TypeOK, Messages
  <2> QED
    BY <2>1, <1>1, <1>7, Zenon DEF Poll, Send, TypeOK, Replies, serverState, database
<1>8. CASE PollUnchanged
  <2>1. [kind |-> "ack", rev |-> active, content |-> Content(rows, active)] \in Messages
    BY <1>1, ContentType, Zenon DEF TypeOK, Messages
  <2> QED
    BY <2>1, <1>1, <1>8 DEF PollUnchanged, Acknowledge, Send, TypeOK, Replies, serverState, database
<1>9. CASE ActivateConfiguration
  <2>1. reply.rev \in Revisions /\ reply.content \in Contents
    BY <1>1, <1>9 DEF ActivateConfiguration, TypeOK, Replies, Nothing, Failed, Unchanged
  <2>2. rows' \in Snapshots
    BY <2>1, <1>1, <1>9 DEF ActivateConfiguration, TypeOK, Snapshots
  <2>3. [kind |-> "ack", rev |-> reply.rev, content |-> reply.content] \in Messages
    BY <2>1 DEF Messages
  <2> QED
    BY <2>1, <2>2, <2>3, <1>1, <1>9
    DEF ActivateConfiguration, Acknowledge, Send, TypeOK, Replies, serverState
<1>10. CASE PollFails
  BY <1>1, <1>10, Zenon DEF PollFails, Returns, TypeOK, Replies, serverState, database
<1>11. CASE AcknowledgementSucceeds
  BY <1>1, <1>11, Zenon DEF AcknowledgementSucceeds, Returns, TypeOK, Replies, serverState, database
<1>12. CASE AcknowledgementFails
  BY <1>1, <1>12, Zenon DEF AcknowledgementFails, Returns, TypeOK, Replies, serverState, database
<1>13. CASE Boot
  BY <1>1, <1>13 DEF Boot, TypeOK, database
<1>14. CASE Heartbeat
  BY <1>1, <1>14 DEF Heartbeat, TypeOK, database, mainLoop
<1>15. CASE LoadActiveConfiguration
  BY <1>1, <1>15 DEF LoadActiveConfiguration, TypeOK, serverState, database
<1>16. CASE LoadFails
  BY <1>1, <1>16, Zenon DEF LoadFails, ProcessEnds, TypeOK, Replies, serverState, database
<1>17. CASE Crash
  <2>1. crashes' \in 0..MaxCrashes
    BY <1>1, <1>17 DEF Crash, TypeOK
  <2> QED
    BY <2>1, <1>1, <1>17, Zenon DEF Crash, ProcessEnds, TypeOK, Replies, serverState, database
<1>18. CASE UNCHANGED vars
  BY <1>1, <1>18 DEF vars, TypeOK, serverState, database, mainLoop
<1> QED
  BY <1>2, <1>3, <1>4, <1>5, <1>6, <1>7, <1>8, <1>9, <1>10, <1>11, <1>12, <1>13, <1>14, <1>15,
     <1>16, <1>17, <1>18 DEF Next

-----------------------------------------------------------------------------
\* Every step preserves the invariant.
LEMMA NextSyncInv == SyncInv /\ [Next]_vars => SyncInv'
<1> SUFFICES ASSUME SyncInv, [Next]_vars PROVE SyncInv'
  OBVIOUS
<1> USE ConfigurationConstants
<1>1. TypeOK /\ ServerInv /\ AgentInv /\ ExchangeInv /\ AcknowledgementInv
  BY DEF SyncInv
<1>2. TypeOK'
  BY NextTypeOK
<1>3. ServerInv' /\ AgentInv' /\ ExchangeInv' /\ AcknowledgementInv'
  <2>1. ASSUME NEW c \in Contents, ChangeContent(c)
        PROVE  ServerInv' /\ AgentInv' /\ ExchangeInv' /\ AcknowledgementInv'
    <3>1. ServerInv'
      BY <2>1, <1>1
      DEF ChangeContent, TypeOK, ServerInv, CurrentRevision, Revisions, AnnouncedHashIssued
    <3> QED
      BY <3>1, <2>1, <1>1
      DEF ChangeContent, AgentInv, ExchangeInv, AcknowledgementInv, AgentHoldsIssued, Previous,
          AcknowledgedWasActivated, database, mainLoop
  <2>2. CASE BumpRevision
    BY <2>2, <1>1
    DEF BumpRevision, TypeOK, ServerInv, AgentInv, ExchangeInv, AcknowledgementInv,
        CurrentRevision, Revisions, AgentHoldsIssued, Previous, AcknowledgedWasActivated,
        AnnouncedHashIssued, database, mainLoop
  <2>3. ASSUME NEW request \in network, ServeConfiguration(request)
        PROVE  ServerInv' /\ AgentInv' /\ ExchangeInv' /\ AcknowledgementInv'
    <3>1. /\ CurrentRevision \in Revisions /\ CurrentRevision >= desired
          /\ desired' = CurrentRevision /\ desiredHash' = content
          /\ issued' = [issued EXCEPT ![CurrentRevision] = content]
      BY <2>3, <1>1, CurrentRevisionType DEF ServeConfiguration, ServerInv, TypeOK, CurrentRevision
    <3>2. \A r \in Revisions : issued[r] # None => issued'[r] = issued[r]
      BY <3>1, <2>3, <1>1, Zenon DEF ServeConfiguration, TypeOK, Snapshots
    <3>3. ServerInv'
      BY <3>1, <2>3, <1>1
      DEF ServeConfiguration, ServerInv, TypeOK, Snapshots, CurrentRevision, AnnouncedHashIssued,
          Revisions
    <3>4. AgentInv'
      BY <3>1, <3>2, <2>3, <1>1
      DEF ServeConfiguration, AgentInv, AgentHoldsIssued, Previous, TypeOK, Revisions, database
    <3>5. ExchangeInv'
      <4>1. CASE UNCHANGED reply
        BY <4>1, <3>2, <2>3, <1>1, <1>2
        DEF ServeConfiguration, ExchangeInv, database, TypeOK, Replies, Nothing, Failed, Unchanged
      <4>2. CASE request = asked /\ ~UNCHANGED reply
        BY <4>2, <3>1, <2>3, <1>1
        DEF ServeConfiguration, Answer, ExchangeInv, AgentInv, TypeOK, Snapshots, Revisions,
            database, Unchanged
      <4> QED  BY <4>1, <4>2, <2>3 DEF ServeConfiguration, Answer
    <3>6. AcknowledgementInv'
      BY <3>2, <2>3, <1>1
      DEF ServeConfiguration, Delivered, AcknowledgementInv, AcknowledgedWasActivated, TypeOK,
          Messages, database
    <3> QED  BY <3>3, <3>4, <3>5, <3>6
  <2>4. ASSUME NEW request \in network, RefuseConfiguration(request)
        PROVE  ServerInv' /\ AgentInv' /\ ExchangeInv' /\ AcknowledgementInv'
    <3>1. /\ UNCHANGED <<serverState, database, asked>> /\ reply' \in {reply, Failed}
          /\ network' \in SUBSET network
      BY <2>4, Zenon DEF RefuseConfiguration, Answer, Delivered
    <3>2. ServerInv' /\ AgentInv' /\ AcknowledgementInv'
      BY <3>1, <1>1, TablesStay, AcknowledgementsStay, Zenon DEF serverState, database
    <3>3. ExchangeInv'
      BY <3>1, <1>1 DEF ExchangeInv, Failed, serverState, database
    <3> QED BY <3>2, <3>3, Zenon
  <2>5. ASSUME NEW request \in network, ServeAcknowledgement(request)
        PROVE  ServerInv' /\ AgentInv' /\ ExchangeInv' /\ AcknowledgementInv'
    <3>1. /\ UNCHANGED <<bumps, desired, desiredHash, issued, rows, active, asked>>
          /\ reply' \in {reply, [kind |-> "acked", rev |-> acknowledged']}
          /\ network' \in SUBSET network /\ request.kind = "ack"
          /\ acknowledged' \in {request.rev, acknowledged}
      BY <2>5, Zenon DEF ServeAcknowledgement, Acknowledged, Answer, Delivered, database
    <3>2. ServerInv' /\ AgentInv'
      BY <3>1, <1>1, TablesStay, Zenon
    <3>3. ExchangeInv'
      BY <3>1, <1>1 DEF ExchangeInv
    <3>4. AcknowledgementInv'
      BY <3>1, <1>1, Zenon DEF AcknowledgementInv, AcknowledgedWasActivated
    <3> QED BY <3>2, <3>3, <3>4, Zenon
  <2>6. CASE Poll
    <3>1. /\ UNCHANGED <<serverState, database>> /\ reply' = Nothing
          /\ asked' = [kind |-> "get", rev |-> active, content |-> Content(rows, active)]
          /\ network' = network \cup {asked'}
      BY <2>6, Zenon DEF Poll, Send
    <3>2. asked'.kind = "get" /\ asked'.rev = active
      BY <3>1
    <3>3. ServerInv' /\ AgentInv'
      BY <3>1, <1>1, TablesStay, Zenon DEF serverState, database
    <3>4. ExchangeInv'
      BY <3>1, <3>2 DEF ExchangeInv, Nothing, database
    <3>5. \A request \in network' : request.kind = "ack" => request \in network
      BY <3>1, <3>2
    <3>6. AcknowledgementInv'
      BY <3>1, <3>5, <1>1, AcknowledgementsStay, Zenon DEF serverState, database
    <3> QED BY <3>3, <3>4, <3>6, Zenon
  <2>7. CASE PollUnchanged
    <3>1. /\ active \in Revisions /\ Content(rows, active) = issued[active]
          /\ issued[active] \in Contents
      BY <2>7, <1>1
      DEF PollUnchanged, Unchanged, ExchangeInv, AgentInv, AgentHoldsIssued, Previous, TypeOK,
          Snapshots, Content
    <3>2. /\ UNCHANGED <<serverState, database>> /\ reply' = Nothing
          /\ asked' = [kind |-> "ack", rev |-> active, content |-> issued[active]]
          /\ network' = network \cup {asked'}
      BY <3>1, <2>7, Zenon DEF PollUnchanged, Acknowledge, Send
    <3>3. asked'.kind = "ack" /\ asked'.rev = active /\ asked'.content = issued[active]
      BY <3>2
    <3>4. ServerInv' /\ AgentInv'
      BY <3>2, <1>1, TablesStay, Zenon DEF serverState, database
    <3>5. ExchangeInv'
      BY <3>2, <3>3 DEF ExchangeInv, Nothing
    <3>6. active <= active
      BY <1>1 DEF TypeOK, Revisions
    <3>7. AcknowledgementInv'
      BY <3>1, <3>2, <3>3, <3>6, <1>1, Zenon
      DEF AcknowledgementInv, AcknowledgedWasActivated, serverState, database
    <3> QED BY <3>4, <3>5, <3>7, Zenon
  <2>8. CASE ActivateConfiguration
    <3>1. /\ reply.rev \in Revisions /\ reply.content \in Contents
          /\ issued[reply.rev] = reply.content /\ reply.rev >= active
      BY <2>8, <1>1
      DEF ActivateConfiguration, ExchangeInv, TypeOK, Replies, Nothing, Failed, Unchanged
    <3>2. ServerInv'
      BY <2>8, <1>1, Zenon
      DEF ActivateConfiguration, ServerInv, CurrentRevision, AnnouncedHashIssued, serverState
    <3>3. AgentInv'
      <4>1. \A r, s \in Previous' : r = s
        BY <3>1, <2>8 DEF ActivateConfiguration, Previous, Retained
      <4>2. issued' = issued /\ desired' = desired /\ active' = reply.rev
        BY <2>8, Zenon DEF ActivateConfiguration, serverState
      <4>3. /\ rows'[reply.rev] = reply.content
            /\ \A r \in Revisions : r # reply.rev => rows'[r] \in {None, rows[r]}
        BY <3>1, <2>8 DEF ActivateConfiguration
      <4>4. AgentHoldsIssued'
        BY <4>2, <4>3, <3>1, <1>1, ConfigurationConstants, Zenon DEF AgentInv, AgentHoldsIssued
      <4>5. active' <= desired'
        BY <4>2, <3>1, <1>1, ConfigurationConstants DEF ServerInv
      <4>6. \A r \in Revisions : rows'[r] # None => r <= active'
        BY <4>2, <4>3, <3>1, <1>1 DEF AgentInv, TypeOK, Revisions
      <4> QED BY <4>1, <4>4, <4>5, <4>6 DEF AgentInv
    <3>4. ExchangeInv'
      BY <2>8, Zenon DEF ActivateConfiguration, Acknowledge, Send, ExchangeInv, Nothing
    <3>5. AcknowledgementInv'
      <4>1. /\ UNCHANGED serverState /\ active' = reply.rev
            /\ network' = network \cup {[kind |-> "ack", rev |-> reply.rev, content |-> reply.content]}
        BY <2>8, Zenon DEF ActivateConfiguration, Acknowledge, Send
      <4>2. active \in Nat /\ reply.rev \in Nat /\ acknowledged \in Nat
        BY <3>1, <1>1 DEF TypeOK, Revisions
      <4>3. ASSUME NEW request \in network', request.kind = "ack"
            PROVE  /\ request.rev \in Revisions /\ request.rev <= active'
                   /\ request.content \in Contents /\ issued'[request.rev] = request.content
        BY <4>1, <4>2, <4>3, <3>1, <1>1 DEF AcknowledgementInv, Revisions, serverState
      <4>4. AcknowledgedWasActivated'
        BY <4>1, <4>2, <3>1, <1>1 DEF AcknowledgementInv, AcknowledgedWasActivated, serverState
      <4> QED BY <4>3, <4>4, Zenon DEF AcknowledgementInv
    <3> QED  BY <3>2, <3>3, <3>4, <3>5, Zenon
  <2>9. CASE PollFails \/ AcknowledgementSucceeds \/ AcknowledgementFails
    <3>1. /\ UNCHANGED <<serverState, database>> /\ asked' = Nothing /\ reply' = Nothing
          /\ network' \in SUBSET network
      BY <2>9 DEF PollFails, AcknowledgementSucceeds, AcknowledgementFails, Returns
    <3> QED BY <1>1, <3>1, ExchangeEnds, Zenon
  <2>10. CASE Boot \/ Heartbeat \/ LoadActiveConfiguration \/ UNCHANGED vars
    <3>1. UNCHANGED <<bumps, desired, desiredHash, issued, acknowledged, network, rows, active,
                      asked, reply>>
      BY <2>10, Zenon
      DEF Boot, Heartbeat, LoadActiveConfiguration, vars, serverState, database, mainLoop
    <3>2. ServerInv' /\ AgentInv' /\ AcknowledgementInv'
      BY <3>1, <1>1, TablesStay, AcknowledgementsStay, Zenon
    <3>3. ExchangeInv'
      BY <3>1, <1>1, Zenon DEF ExchangeInv
    <3> QED BY <3>2, <3>3, Zenon
  <2>11. CASE LoadFails \/ Crash
    <3>1. /\ UNCHANGED <<serverState, database>> /\ asked' = Nothing /\ reply' = Nothing
          /\ network' \in SUBSET network
      BY <2>11 DEF LoadFails, Crash, ProcessEnds
    <3> QED BY <1>1, <3>1, ExchangeEnds, Zenon
  <2> QED
    BY <2>1, <2>2, <2>3, <2>4, <2>5, <2>6, <2>7, <2>8, <2>9, <2>10, <2>11 DEF Next
<1> QED  BY <1>2, <1>3 DEF SyncInv

\* No step moves a revision back or changes an issued snapshot.
LEMMA StepsGrow ==
    ASSUME SyncInv, Next
    PROVE  /\ desired' >= desired /\ acknowledged' >= acknowledged /\ active' >= active
           /\ \A r \in Revisions : issued[r] # None => issued'[r] = issued[r]
<1> USE ConfigurationConstants
<1>1. TypeOK /\ ServerInv /\ ExchangeInv
  BY DEF SyncInv
<1>2. {desired, acknowledged, active} \subseteq Nat
  BY <1>1 DEF TypeOK, Revisions
<1>3. ASSUME NEW request \in network, ServeConfiguration(request)
      PROVE  /\ desired' >= desired /\ UNCHANGED <<acknowledged, active>>
             /\ \A r \in Revisions : issued[r] # None => issued'[r] = issued[r]
  <2>1. UNCHANGED <<acknowledged, active>> /\ desired' \in {desired, CurrentRevision}
    BY <1>3, Zenon DEF ServeConfiguration, database
  <2>2. desired' >= desired
    BY <2>1, <1>1, <1>2, CurrentRevisionType
  <2>3. ASSUME NEW r \in Revisions, issued[r] # None PROVE issued'[r] = issued[r]
    BY <2>3, <1>1, <1>3, Zenon DEF ServeConfiguration, TypeOK, Snapshots
  <2> QED BY <2>1, <2>2, <2>3, Zenon
<1>4. ASSUME NEW request \in network, ServeAcknowledgement(request)
      PROVE  acknowledged' >= acknowledged /\ UNCHANGED <<desired, active, issued>>
  <2>1. /\ UNCHANGED <<desired, active, issued>> /\ request \in Messages
        /\ acknowledged' = IF request.rev >= acknowledged THEN request.rev ELSE acknowledged
    BY <1>1, <1>4, Zenon DEF ServeAcknowledgement, Acknowledged, TypeOK, database
  <2> QED BY <2>1, <1>2 DEF Messages, Revisions
<1>5. CASE ActivateConfiguration
  <2>1. active' >= active /\ UNCHANGED <<desired, acknowledged, issued>>
    BY <1>1, <1>5, Zenon DEF ActivateConfiguration, ExchangeInv, serverState
  <2> QED BY <2>1, <1>2
<1>6. CASE BumpRevision
  BY <1>2, <1>6 DEF BumpRevision, database
<1>7. ASSUME NEW c \in Contents, ChangeContent(c)
      PROVE  UNCHANGED <<desired, acknowledged, active, issued>>
  BY <1>7 DEF ChangeContent, database
<1>8. ASSUME NEW request \in network, RefuseConfiguration(request)
      PROVE  UNCHANGED <<desired, acknowledged, active, issued>>
  BY <1>8, Zenon DEF RefuseConfiguration, serverState, database
<1>9. ASSUME \/ Poll \/ PollUnchanged \/ PollFails \/ AcknowledgementSucceeds
             \/ AcknowledgementFails \/ Boot \/ Heartbeat \/ LoadActiveConfiguration
             \/ LoadFails \/ Crash
      PROVE  UNCHANGED <<desired, acknowledged, active, issued>>
  BY <1>9, Zenon
  DEF Poll, PollUnchanged, PollFails, AcknowledgementSucceeds, AcknowledgementFails, Boot,
      Heartbeat, LoadActiveConfiguration, LoadFails, Crash, ProcessEnds, serverState, database
<1> QED
  BY <1>2, <1>3, <1>4, <1>5, <1>6, <1>7, <1>8, <1>9 DEF Next

-----------------------------------------------------------------------------
\* SyncInv holds in every reachable state.
LEMMA SyncInvariant == Spec => []SyncInv
BY InitSyncInv, NextSyncInv, PTL DEF Spec

\* Every reachable state is well typed.
THEOREM ConfigurationTypeCorrect == Spec => []TypeOK
<1>1. SyncInv => TypeOK
  BY DEF SyncInv
<1> QED  BY <1>1, SyncInvariant, PTL

\* The agent holds exactly what the server issued under each revision it keeps, however
\* often the configuration changes while the agent polls.
THEOREM AgentHoldsWhatWasIssued == Spec => []AgentHoldsIssued
<1>1. SyncInv => AgentHoldsIssued
  BY DEF SyncInv, AgentInv
<1> QED  BY <1>1, SyncInvariant, PTL

\* The server's acknowledged revision never runs ahead of what the agent committed.
THEOREM AcknowledgementIsDurable == Spec => []AcknowledgedWasActivated
<1>1. SyncInv => AcknowledgedWasActivated
  BY DEF SyncInv, AcknowledgementInv
<1> QED  BY <1>1, SyncInvariant, PTL

\* No acknowledgement, however late, names a snapshot the server did not issue: the
\* unknown_configuration error of acknowledge_configuration is never met.
THEOREM AcknowledgementsAreKnown == Spec => []AcknowledgementsKnown
<1>1. SyncInv => AcknowledgementsKnown
  BY DEF SyncInv, AcknowledgementInv, AcknowledgementsKnown
<1> QED  BY <1>1, SyncInvariant, PTL

\* Every heartbeat answer announces the hash of the desired revision's snapshot, or none.
THEOREM AnnouncedHashIsIssued == Spec => []AnnouncedHashIssued
<1>1. SyncInv => AnnouncedHashIssued
  BY DEF SyncInv, ServerInv, AnnouncedHashIssued
<1> QED  BY <1>1, SyncInvariant, PTL

\* Pruning keeps the active configuration and at most one older one.
THEOREM RetentionIsBounded == Spec => []OnePreviousRetained
<1>1. SyncInv => OnePreviousRetained
  <2> SUFFICES ASSUME SyncInv PROVE OnePreviousRetained
    OBVIOUS
  <2>1. Cardinality(Previous) <= 1
    <3>1. CASE Previous = {}
      BY <3>1, FS_EmptySet
    <3>2. ASSUME NEW r \in Previous PROVE Cardinality(Previous) <= 1
      <4>1. Previous = {r}
        BY <3>2 DEF SyncInv, AgentInv
      <4>2. Cardinality({r}) = 1
        BY FS_Singleton
      <4> QED  BY <4>1, <4>2
    <3> QED  BY <3>1, <3>2
  <2>2. \A r \in Previous : r < active
    BY DEF SyncInv, AgentInv, Previous, TypeOK, Revisions
  <2> QED  BY <2>1, <2>2 DEF OnePreviousRetained, Previous
<1> QED  BY <1>1, SyncInvariant, PTL

\* Late polls and acknowledgements never move a revision back nor change a snapshot.
THEOREM RevisionsGrow == Spec => RevisionsOnlyGrow
<1>1. SyncInv /\ [Next]_vars =>
        [/\ desired' >= desired /\ acknowledged' >= acknowledged /\ active' >= active
         /\ \A r \in Revisions : issued[r] # None => issued'[r] = issued[r]]_vars
  BY StepsGrow
<1> QED  BY <1>1, SyncInvariant, PTL DEF Spec, RevisionsOnlyGrow
=============================================================================
