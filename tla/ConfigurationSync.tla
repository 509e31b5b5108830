-------------------------- MODULE ConfigurationSync --------------------------
(***************************************************************************)
(* How one agent comes to run its desired configuration: the revisions and *)
(* snapshots of the control plane (_bump_configuration_revisions,          *)
(* get_or_create_configuration, acknowledge_configuration), the agent's    *)
(* SynchronizeConfiguration with its configuration_snapshots table, and    *)
(* the main loop that reloads the scheduler, over lost and late requests   *)
(* and crashes of the agent.                                               *)
(*                                                                         *)
(* A content stands for a canonical configuration and for its SHA-256.     *)
(* Revision 0 is "none", on both sides.                                    *)
(***************************************************************************)
EXTENDS Integers, FiniteSets, FiniteSetsExt

CONSTANTS
    Contents,        \* what an agent's assigned monitors may amount to
    None,            \* no content
    Privileged,      \* contents with a monitor that needs native ICMP sockets
    Unschedulable,   \* contents with an interval Validate admits and Reconcile does not
    MaxRevision,     \* bound on the revisions: the configuration changes that happen
    MaxInFlight,     \* bound on the requests in the network when a poll starts
    MaxCrashes       \* bound on the crashes of the agent

ASSUME ConfigurationConstants ==
    /\ None \notin Contents
    /\ Privileged \subseteq Contents /\ Unschedulable \subseteq Contents
    /\ MaxRevision \in Nat \ {0} /\ MaxInFlight \in Nat \ {0} /\ MaxCrashes \in Nat

VARIABLES
    content,       \* server: what the monitoring tables amount to for the agent
    bumps,         \* server: changes whose _bump_configuration_revisions is still to run
    desired,       \* AgentConfigurationState.desired_revision
    desiredHash,   \* AgentConfigurationState.desired_content_hash
    issued,        \* AgentConfigurationSnapshot: revision -> content
    acknowledged,  \* AgentConfigurationState.acknowledged_revision
    reported,      \* AgentOperationalState.capabilities
    network,       \* requests that may still reach the server
    rows,          \* agent: configuration_snapshots: revision -> content
    active,        \* agent: the revision of the active row
    capable,       \* agent: native ICMP sockets are available
    pc,            \* agent: where the main goroutine is
    booting,       \* agent: it has not started the engine yet
    asked,         \* agent: the request it waits for
    reply,         \* agent: what came back for it
    updated,       \* agent: SynchronizeConfiguration activated a new revision
    loaded,        \* agent: the revision the scheduler reconciled last
    crashes        \* history: crashes of the agent so far

serverState == <<content, bumps, desired, desiredHash, issued, acknowledged, reported>>
database    == <<rows, active>>
mainLoop    == <<capable, pc, booting, asked, reply, updated, loaded, crashes>>
vars == <<serverState, network, database, mainLoop>>

Revisions == 1..MaxRevision
Snapshots == [Revisions -> Contents \cup {None}]
Messages  == [kind : {"get", "ack"}, rev : {0} \cup Revisions, content : Contents \cup {None}]
Nothing   == [kind |-> "none"]
Failed    == [kind |-> "failed"]
Unchanged == [kind |-> "unchanged"]
Replies   == [kind : {"config"}, rev : Revisions, content : Contents] \cup
             [kind : {"acked"}, rev : {0} \cup Revisions] \cup {Nothing, Failed, Unchanged}
Content(table, rev) == IF rev = 0 THEN None ELSE table[rev]

TypeOK ==
    /\ content \in Contents /\ bumps \in 0..MaxRevision
    /\ {desired, acknowledged, active, loaded} \subseteq {0} \cup Revisions
    /\ desiredHash \in Contents \cup {None}
    /\ issued \in Snapshots /\ rows \in Snapshots
    /\ reported \in {"none", "able", "unable"}
    /\ network \subseteq Messages /\ asked \in Messages \cup {Nothing} /\ reply \in Replies
    /\ pc \in {"down", "synchronizing", "polling", "acknowledging", "loading", "idle"}
    /\ {capable, booting, updated} \subseteq BOOLEAN /\ crashes \in 0..MaxCrashes

Init ==
    /\ content \in Contents /\ bumps = 0
    /\ desired = 0 /\ acknowledged = 0 /\ desiredHash = None
    /\ issued = [r \in Revisions |-> None] /\ reported = "none" /\ network = {}
    /\ rows = [r \in Revisions |-> None] /\ active = 0
    /\ capable = TRUE /\ pc = "down" /\ booting = TRUE
    /\ asked = Nothing /\ reply = Nothing /\ updated = FALSE /\ loaded = 0 /\ crashes = 0

-----------------------------------------------------------------------------
(* The control plane.                                                       *)

\* The revision get_or_create_configuration issues: the first one is 1.
CurrentRevision == IF desired = 0 THEN 1 ELSE desired

\* An operation of monitoring/domain.py commits its rows.  The revision follows in a
\* transaction of its own.
ChangeContent(c) ==
    /\ c # content /\ CurrentRevision + bumps < MaxRevision
    /\ content' = c /\ bumps' = bumps + 1
    /\ UNCHANGED <<desired, desiredHash, issued, acknowledged, reported, network, database, mainLoop>>

\* Mutant: the hash of the old revision stays.
BumpKeepsHash ==
    /\ bumps > 0 /\ bumps' = bumps - 1
    /\ desired' = desired + 1
    /\ UNCHANGED <<content, desiredHash, issued, acknowledged, reported, network, database, mainLoop>>

BumpRevision ==
    /\ bumps > 0 /\ bumps' = bumps - 1
    /\ desired' = desired + 1 /\ desiredHash' = None
    /\ UNCHANGED <<content, issued, acknowledged, reported, network, database, mainLoop>>

\* The answer reaches the agent, if it is still waiting for it.
Answer(request, answer) ==
    \/ /\ request = asked /\ reply = Nothing
       /\ reply' = answer
    \/ UNCHANGED reply

Delivered(request) == network' \in {network, network \ {request}}

\* _check_capability for every monitor of the content.
Supported(c) == c \in Privileged => reported = "able"

\* Mutant: the stored snapshot is not compared with the new content.
ServeWithoutConflict(request) ==
    /\ request \in network /\ request.kind = "get"
    /\ reported # "none" /\ Supported(content)
    /\ issued' = [issued EXCEPT ![CurrentRevision] = IF @ = None THEN content ELSE @]
    /\ IF desiredHash # content THEN desired' = CurrentRevision /\ desiredHash' = content
                                ELSE UNCHANGED <<desired, desiredHash>>
    /\ Answer(request, IF request.rev = CurrentRevision /\ request.content = content THEN Unchanged
                       ELSE [kind |-> "config", rev |-> CurrentRevision, content |-> content])
    /\ Delivered(request)
    /\ UNCHANGED <<content, bumps, acknowledged, reported, database, capable, pc, booting, asked,
                   updated, loaded, crashes>>

\* Mutant: the snapshot is not stored with the answer.
ServeUnsaved(request) ==
    /\ request \in network /\ request.kind = "get"
    /\ reported # "none" /\ Supported(content)
    /\ issued[CurrentRevision] \in {None, content}
    /\ IF desiredHash # content THEN desired' = CurrentRevision /\ desiredHash' = content
                                ELSE UNCHANGED <<desired, desiredHash>>
    /\ Answer(request, IF request.rev = CurrentRevision /\ request.content = content THEN Unchanged
                       ELSE [kind |-> "config", rev |-> CurrentRevision, content |-> content])
    /\ Delivered(request)
    /\ UNCHANGED <<content, bumps, issued, acknowledged, reported, database, capable, pc, booting,
                   asked, updated, loaded, crashes>>

\* get_configuration, in one transaction under the lock of the state row.
ServeConfiguration(request) ==
    /\ request \in network /\ request.kind = "get"
    /\ reported # "none" /\ Supported(content)
    /\ issued[CurrentRevision] \in {None, content}
    /\ issued' = [issued EXCEPT ![CurrentRevision] = content]
    /\ IF desiredHash # content THEN desired' = CurrentRevision /\ desiredHash' = content
                                ELSE UNCHANGED <<desired, desiredHash>>
    /\ Answer(request, IF request.rev = CurrentRevision /\ request.content = content THEN Unchanged
                       ELSE [kind |-> "config", rev |-> CurrentRevision, content |-> content])
    /\ Delivered(request)
    /\ UNCHANGED <<content, bumps, acknowledged, reported, database, capable, pc, booting, asked,
                   updated, loaded, crashes>>

\* capabilities_required, incompatible_capability or configuration_revision_conflict.
RefuseConfiguration(request) ==
    /\ request \in network /\ request.kind = "get"
    /\ \/ reported = "none"
       \/ ~Supported(content)
       \/ issued[CurrentRevision] \notin {None, content}
    /\ Answer(request, Failed)
    /\ Delivered(request)
    /\ UNCHANGED <<serverState, database, capable, pc, booting, asked, updated, loaded, crashes>>

\* Mutant: the last acknowledgement to arrive wins.
AcknowledgedLast(revision) == revision

\* acknowledge_configuration refuses a snapshot it does not know; AcknowledgementsKnown
\* says that no agent ever sends one.  A late acknowledgement does not move the
\* state back.
Acknowledged(revision) == IF revision >= acknowledged THEN revision ELSE acknowledged

ServeAcknowledgement(request) ==
    /\ request \in network /\ request.kind = "ack"
    /\ issued[request.rev] = request.content
    /\ acknowledged' = Acknowledged(request.rev)
    /\ Answer(request, [kind |-> "acked", rev |-> acknowledged'])
    /\ Delivered(request)
    /\ UNCHANGED <<content, bumps, desired, desiredHash, issued, reported, database, capable, pc,
                   booting, asked, updated, loaded, crashes>>

-----------------------------------------------------------------------------
(* SynchronizeConfiguration, called by run once before the engine starts    *)
(* and then by the configuration ticker.                                    *)

Send(message, at) == asked' = message /\ network' = network \cup {message} /\ pc' = at

\* GET /config with the active revision and hash.
Poll ==
    /\ pc \in {"synchronizing", "idle"} /\ Cardinality(network) < MaxInFlight
    /\ Send([kind |-> "get", rev |-> active, content |-> Content(rows, active)], "polling")
    /\ reply' = Nothing /\ updated' = FALSE
    /\ UNCHANGED <<serverState, database, capable, booting, loaded, crashes>>

Acknowledge(revision, c) == Send([kind |-> "ack", rev |-> revision, content |-> c], "acknowledging")

\* SynchronizeConfiguration returns.  run ignores the result before it starts the
\* engine; later it reloads if there was no error and a new revision is active.
Returns(failed) ==
    /\ pc' = IF booting \/ (updated /\ ~failed) THEN "loading" ELSE "idle"
    /\ asked' = Nothing /\ reply' = Nothing /\ updated' = FALSE

\* Mutant: 304 ends the synchronization.
PollUnchangedReturns ==
    /\ pc = "polling" /\ reply = Unchanged
    /\ Returns(FALSE)
    /\ UNCHANGED <<serverState, network, database, capable, booting, loaded, crashes>>

\* 304: the acknowledgement of the active revision is repeated.
PollUnchanged ==
    /\ pc = "polling" /\ reply = Unchanged
    /\ Acknowledge(active, Content(rows, active))
    /\ reply' = Nothing
    /\ UNCHANGED <<serverState, database, capable, booting, updated, loaded, crashes>>

\* ConfigurationResponse.Validate and the registry's validation of every monitor.
Valid(c) == c \in Privileged => capable

\* Mutant: nothing is pruned.
RetainedAll(revision) == Revisions

\* The rows ActivateConfiguration keeps: the new one, and the latest of the others.
Retained(revision) ==
    LET others == {r \in Revisions : rows[r] # None} \ {revision} IN
    {revision} \cup (IF others = {} THEN {} ELSE {Max(others)})

\* Mutant: the acknowledgement is sent before the transaction.
AcknowledgeFirst ==
    /\ pc = "polling" /\ reply.kind = "config" /\ Valid(reply.content)
    /\ rows[reply.rev] \in {None, reply.content}
    /\ Acknowledge(reply.rev, reply.content)
    /\ updated' = TRUE /\ reply' = Nothing
    /\ UNCHANGED <<serverState, database, capable, booting, loaded, crashes>>

\* One transaction: insert, switch the active marker, prune; then the acknowledgement.
ActivateConfiguration ==
    /\ pc = "polling" /\ reply.kind = "config" /\ Valid(reply.content)
    /\ rows[reply.rev] \in {None, reply.content}
    /\ rows' = [r \in Revisions |-> IF r = reply.rev THEN reply.content
                                    ELSE IF r \in Retained(reply.rev) THEN rows[r] ELSE None]
    /\ active' = reply.rev
    /\ Acknowledge(reply.rev, reply.content)
    /\ updated' = TRUE /\ reply' = Nothing
    /\ UNCHANGED <<serverState, capable, booting, loaded, crashes>>

\* The request failed, or its answer is invalid or in conflict with a stored revision.
PollFails ==
    /\ pc = "polling"
    /\ \/ reply \in {Nothing, Failed}
       \/ /\ reply.kind = "config"
          /\ ~Valid(reply.content) \/ rows[reply.rev] \notin {None, reply.content}
    /\ network' \in {network, network \ {asked}}
    /\ Returns(TRUE)
    /\ UNCHANGED <<serverState, database, capable, booting, loaded, crashes>>

AcknowledgementSucceeds ==
    /\ pc = "acknowledging" /\ reply = [kind |-> "acked", rev |-> active]
    /\ Returns(FALSE)
    /\ UNCHANGED <<serverState, network, database, capable, booting, loaded, crashes>>

AcknowledgementFails ==
    /\ pc = "acknowledging" /\ reply # [kind |-> "acked", rev |-> active]
    /\ network' \in {network, network \ {asked}}
    /\ Returns(TRUE)
    /\ UNCHANGED <<serverState, database, capable, booting, loaded, crashes>>

-----------------------------------------------------------------------------
(* The agent process.                                                       *)

\* The heartbeat before the initial synchronization may fail.
Boot ==
    /\ pc = "down"
    /\ pc' = "synchronizing" /\ capable' \in BOOLEAN
    /\ reported' \in {reported, IF capable' THEN "able" ELSE "unable"}
    /\ UNCHANGED <<content, bumps, desired, desiredHash, issued, acknowledged, network, database,
                   booting, asked, reply, updated, loaded, crashes>>

Heartbeat ==
    /\ pc = "idle"
    /\ reported' = IF capable THEN "able" ELSE "unable"
    /\ UNCHANGED <<content, bumps, desired, desiredHash, issued, acknowledged, network, database,
                   mainLoop>>

\* LoadActiveConfiguration and Reconcile.
LoadActiveConfiguration ==
    /\ pc = "loading" /\ Content(rows, active) \notin Unschedulable
    /\ loaded' = active /\ booting' = FALSE /\ pc' = "idle"
    /\ UNCHANGED <<serverState, network, database, capable, asked, reply, updated, crashes>>

ProcessEnds ==
    /\ pc' = "down" /\ booting' = TRUE /\ asked' = Nothing /\ reply' = Nothing
    /\ updated' = FALSE /\ loaded' = 0
    /\ UNCHANGED <<serverState, network, database, capable>>

\* Reconcile refuses the configuration: run returns the error.
LoadFails ==
    /\ pc = "loading" /\ Content(rows, active) \in Unschedulable
    /\ ProcessEnds
    /\ UNCHANGED crashes

Crash ==
    /\ pc # "down" /\ crashes < MaxCrashes
    /\ ProcessEnds
    /\ crashes' = crashes + 1

Next ==
    \/ \E c \in Contents : ChangeContent(c)
    \/ BumpRevision
    \/ \E request \in network : ServeConfiguration(request)
    \/ \E request \in network : RefuseConfiguration(request)
    \/ \E request \in network : ServeAcknowledgement(request)
    \/ Poll
    \/ PollUnchanged
    \/ ActivateConfiguration
    \/ PollFails
    \/ AcknowledgementSucceeds
    \/ AcknowledgementFails
    \/ Boot
    \/ Heartbeat
    \/ LoadActiveConfiguration
    \/ LoadFails
    \/ Crash

Spec == Init /\ [][Next]_vars

-----------------------------------------------------------------------------
(* Fairness: a change that was started gets its revision; the tickers keep  *)
(* firing and the supervisor restarts the agent; the network is fair lossy, *)
(* so an exchange that is tried again and again completes once; and a       *)
(* request that is under way ends.  The agent need not crash.               *)

Serve(request) ==
    ServeConfiguration(request) \/ RefuseConfiguration(request) \/ ServeAcknowledgement(request)

Fairness ==
    /\ WF_vars(BumpRevision)
    /\ WF_vars(Boot)
    /\ SF_vars(Heartbeat)
    /\ SF_vars(Poll)
    /\ SF_vars(\E request \in network : ServeConfiguration(request) /\ reply' # reply)
    /\ SF_vars(\E request \in network : ServeAcknowledgement(request) /\ reply' # reply)
    /\ WF_vars(\E request \in network : Serve(request) /\ network' # network)
    /\ WF_vars(PollUnchanged \/ ActivateConfiguration \/ PollFails)
    /\ WF_vars(AcknowledgementSucceeds \/ AcknowledgementFails)
    /\ WF_vars(LoadActiveConfiguration \/ LoadFails)

FairSpec == Spec /\ Fairness

-----------------------------------------------------------------------------
(* Safety *)

\* What the agent holds under a revision is what the server issued under it, although
\* the content changes while requests are on their way and the state row of the
\* server is bumped at any moment (get_or_create_configuration, ActivateConfiguration).
AgentHoldsIssued ==
    /\ \A r \in Revisions : rows[r] # None => rows[r] = issued[r]
    /\ active # 0 => rows[active] # None

\* The server never believes the agent to be ahead of what it committed locally:
\* a revision is acknowledged only after its activation, and activation survives a
\* crash (SynchronizeConfiguration activates, then acknowledges).
AcknowledgedWasActivated == acknowledged <= active

\* acknowledge_configuration never meets a snapshot it did not issue, not even in
\* a late request of an agent that has moved on.
AcknowledgementsKnown ==
    \A request \in network :
        request.kind = "ack" => issued[request.rev] = request.content

\* The retention rule of ActivateConfiguration: besides the active configuration the
\* agent keeps at most one other, older one.
OnePreviousRetained ==
    LET others == {r \in Revisions : rows[r] # None} \ {active} IN
    Cardinality(others) <= 1 /\ \A r \in others : r < active

\* The hash a heartbeat answer announces belongs to the snapshot of the desired
\* revision (bump clears the hash, get_or_create_configuration sets it).
AnnouncedHashIssued == desiredHash # None => issued[desired] = desiredHash

\* Revisions only grow, and an issued snapshot is never changed, whatever late
\* polls and acknowledgements the server handles.
RevisionsOnlyGrow ==
    [][/\ desired' >= desired /\ acknowledged' >= acknowledged /\ active' >= active
       /\ \A r \in Revisions : issued[r] # None => issued'[r] = issued[r]]_vars

\* "it must never acknowledge configuration it cannot run"
\* (docs/architecture/agent-storage.md).  The code does not have this property: Reconcile,
\* which checks the intervals, comes after the acknowledgement.
AcknowledgedCanRun == Content(issued, acknowledged) \notin Unschedulable

-----------------------------------------------------------------------------
(* Liveness *)

\* Once the configuration stops changing, the agent comes to hold it and the server to
\* know that, through lost and late requests and crashes, unless it needs a capability
\* the agent lacks.
AgentConverges ==
    <>[](\/ content \in Privileged
         \/ active = desired /\ Content(rows, active) = content /\ acknowledged = desired)

\* "The agent stops future scheduling after activation" of a removed assignment
\* (docs/architecture/agent-protocol.md): again and again the scheduler runs the active
\* revision.
ActiveConfigurationRuns == []<>(loaded = active)
=============================================================================
