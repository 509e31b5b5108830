--------------------------- MODULE DurableDelivery ---------------------------
(***************************************************************************)
(* What the agent and the control plane promise together about an          *)
(* observation, without batches, messages, retries or crashes: once        *)
(* committed it is immutable, it leaves the queue only for the server or   *)
(* for the quarantine, and neither of them ever changes a row.             *)
(*                                                                         *)
(* ObservationDelivery implements this specification.                      *)
(***************************************************************************)
CONSTANTS Observations, Payloads, None

VARIABLES
    committed,    \* every <<identity, payload>> that was ever queued
    queue,        \* what the agent still has to deliver
    delivered,    \* what the server holds
    quarantine    \* what the agent set aside

vars == <<committed, queue, delivered, quarantine>>

Rows == [Observations -> Payloads \cup {None}]

Init ==
    /\ committed = {}
    /\ queue = [o \in Observations |-> None]
    /\ delivered = [o \in Observations |-> None]
    /\ quarantine = [o \in Observations |-> None]

\* The agent commits an observation to its queue.
Commit(o, p) ==
    /\ queue[o] = None
    /\ queue' = [queue EXCEPT ![o] = p]
    /\ committed' = committed \cup {<<o, p>>}
    /\ UNCHANGED <<delivered, quarantine>>

\* The server takes some committed observations, each identity once.
Deliver ==
    /\ delivered' \in Rows
    /\ \A o \in Observations :
          delivered'[o] # delivered[o] =>
              delivered[o] = None /\ <<o, delivered'[o]>> \in committed
    /\ UNCHANGED <<committed, queue, quarantine>>

\* The agent removes rows, each one delivered as it is or set aside in this step.
Settle ==
    /\ queue' \in Rows /\ quarantine' \in Rows
    /\ \A o \in Observations :
          /\ queue'[o] # queue[o] =>
                 queue'[o] = None /\ (delivered[o] = queue[o] \/ quarantine'[o] = queue[o])
          /\ quarantine'[o] # quarantine[o] =>
                 quarantine[o] = None /\ quarantine'[o] = queue[o]
    /\ UNCHANGED <<committed, delivered>>

Next ==
    \/ \E o \in Observations, p \in Payloads : Commit(o, p)
    \/ Deliver
    \/ Settle

Spec == Init /\ [][Next]_vars

\* Every committed observation is queued, delivered or set aside, with its payload.
NothingLost ==
    \A o \in Observations, p \in Payloads :
        <<o, p>> \in committed => queue[o] = p \/ delivered[o] = p \/ quarantine[o] = p

=============================================================================
