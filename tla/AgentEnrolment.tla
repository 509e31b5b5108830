--------------------------- MODULE AgentEnrolment ---------------------------
(***************************************************************************)
(* How an agent gets its credential: an administrator issues a single-use  *)
(* token, the enrol command exchanges it for a credential, and the agent's *)
(* database keeps identity and credential.  One agent, which stays enabled *)
(* (no endpoint disables one); several administrators and several requests *)
(* at a time; lost answers, and crashes of the command and of the server.  *)
(*                                                                         *)
(* A transaction's writes show when it commits; until then the rows it has *)
(* locked block others.  Issuing locks the agent's row and then the rows   *)
(* of the tokens it revokes; an exchange locks its token's row and then,   *)
(* by the foreign key of the credential it inserts, shares the agent's.    *)
(***************************************************************************)
EXTENDS Naturals, Sequences, FiniteSets

CONSTANTS
    Issuers,    \* requests to issue a token handled at one time
    Handlers,   \* enrol requests handled at one time
    MaxTokens,  \* bound on the tokens issued
    MaxStops    \* bound on lost answers and crashes

ASSUME BoundsAreNatural == MaxTokens \in Nat /\ MaxStops \in Nat

VARIABLES
    token,      \* token[t]: the t-th token is "unused", "consumed" or "revoked"
    expired,    \* tokens whose expires_at passed while they were unused
    issued,     \* issued[k]: the token the k-th credential was given for
    issuer,     \* issuer[i]: where a request to issue a token is
    handler,    \* handler[h]: where an enrol request is on the server
    command,    \* where the enrol command is on the agent
    identity,   \* the agent's database has an identity
    stored,     \* credentials in the agent's database
    stops       \* answers lost and crashes so far

server == <<token, expired, issued>>
agent == <<identity, stored>>
vars == <<server, issuer, handler, command, agent, stops>>

Idle == [at |-> "idle"]

Tokens == DOMAIN token

Credentials == DOMAIN issued

Init ==
    /\ token = <<>> /\ expired = {} /\ issued = <<>>
    /\ issuer = [i \in Issuers |-> Idle]
    /\ handler = [h \in Handlers |-> Idle]
    /\ command = Idle
    /\ identity = FALSE /\ stored = {}
    /\ stops = 0

---------------------------------------------------------------------------
(* Locks. *)

AgentLocked == \E i \in Issuers : issuer[i].at \in {"locked", "revoked"}

LockedByHandler(t) == \E h \in Handlers : handler[h].at = "locked" /\ handler[h].token = t

LockedByIssuer(t) == \E i \in Issuers : issuer[i].at = "revoked" /\ t \in issuer[i].tokens

Unlocked(t) == ~LockedByHandler(t) /\ ~LockedByIssuer(t)

Unused == {t \in Tokens : token[t] = "unused"}

---------------------------------------------------------------------------
(* Issuing a token: create_agent_enrolment_token and issue_enrolment_token. *)

IssueBegins(i) ==
    /\ issuer[i] = Idle
    /\ Len(token) + Cardinality({j \in Issuers : issuer[j] # Idle}) < MaxTokens
    /\ issuer' = [issuer EXCEPT ![i] = [at |-> "waiting"]]
    /\ UNCHANGED <<server, handler, command, agent, stops>>

\* Issuers that do not lock the agent's row.
IssueLocksNothing(i) ==
    /\ issuer[i].at = "waiting"
    /\ issuer' = [issuer EXCEPT ![i] = [at |-> "locked"]]
    /\ UNCHANGED <<server, handler, command, agent, stops>>

\* SELECT ... FOR UPDATE of the agent's row.
IssueLocks(i) ==
    /\ issuer[i].at = "waiting" /\ ~AgentLocked
    /\ issuer' = [issuer EXCEPT ![i] = [at |-> "locked"]]
    /\ UNCHANGED <<server, handler, command, agent, stops>>

\* An update that does not wait for the exchange of a token it revokes.
IssueRevokesLocked(i) ==
    /\ issuer[i].at = "locked"
    /\ issuer' = [issuer EXCEPT ![i] = [at |-> "revoked", tokens |-> Unused]]
    /\ UNCHANGED <<server, handler, command, agent, stops>>

\* The update of every unused token of the agent.
IssueRevokes(i) ==
    /\ issuer[i].at = "locked" /\ \A t \in Unused : Unlocked(t)
    /\ issuer' = [issuer EXCEPT ![i] = [at |-> "revoked", tokens |-> Unused]]
    /\ UNCHANGED <<server, handler, command, agent, stops>>

\* A transaction that is left open.
IssueCommitsNot(i) ==
    /\ issuer[i].at = "revoked"
    /\ UNCHANGED vars

IssueCommits(i) ==
    /\ issuer[i].at = "revoked"
    /\ token' = Append([t \in Tokens |-> IF t \in issuer[i].tokens THEN "revoked" ELSE token[t]],
                       "unused")
    /\ issuer' = [issuer EXCEPT ![i] = Idle]
    /\ UNCHANGED <<expired, issued, handler, command, agent, stops>>

\* delete_agent_enrolment_token: an update that waits for the token's row.
RevokeToken(t) ==
    /\ token[t] = "unused" /\ Unlocked(t)
    /\ token' = [token EXCEPT ![t] = "revoked"]
    /\ UNCHANGED <<expired, issued, issuer, handler, command, agent, stops>>

TokenExpires(t) ==
    /\ token[t] = "unused" /\ t \notin expired
    /\ expired' = expired \cup {t}
    /\ UNCHANGED <<token, issued, issuer, handler, command, agent, stops>>

---------------------------------------------------------------------------
(* The exchange: enrol_agent and exchange_enrolment_token. *)

Waiting(h) == command.at = "waiting" /\ command.handler = h

\* The command learns that request h has failed, if it still waits for it.
Fails(h) == command' = IF Waiting(h) THEN Idle ELSE command

\* The enrol command sends its request; the handler notes the time before it
\* waits for the token's row.
EnrolBegins(h) ==
    /\ command = Idle /\ handler[h] = Idle
    /\ \E t \in Tokens :
           handler' = [handler EXCEPT ![h] =
                           [at |-> "begun", token |-> t, inTime |-> t \notin expired]]
    /\ command' = [at |-> "waiting", handler |-> h]
    /\ UNCHANGED <<server, issuer, agent, stops>>

\* An exchange that reads the token without locking it.
ExchangeReads(h) ==
    /\ handler[h].at = "begun" /\ ~LockedByIssuer(handler[h].token)
    /\ handler[h].inTime /\ token[handler[h].token] = "unused"
    /\ handler' = [handler EXCEPT ![h].at = "locked"]
    /\ UNCHANGED <<server, issuer, command, agent, stops>>

\* The token is locked and still good.
ExchangeLocks(h) ==
    /\ handler[h].at = "begun" /\ Unlocked(handler[h].token)
    /\ handler[h].inTime /\ token[handler[h].token] = "unused"
    /\ handler' = [handler EXCEPT ![h].at = "locked"]
    /\ UNCHANGED <<server, issuer, command, agent, stops>>

\* The token is locked and was consumed, was revoked or has expired.
ExchangeRefuses(h) ==
    /\ handler[h].at = "begun" /\ Unlocked(handler[h].token)
    /\ ~handler[h].inTime \/ token[handler[h].token] # "unused"
    /\ handler' = [handler EXCEPT ![h] = Idle]
    /\ Fails(h)
    /\ UNCHANGED <<server, issuer, agent, stops>>

\* The credential is inserted, which waits for the agent's row, the token is
\* consumed, and the answer is sent.
ExchangeCommits(h) ==
    /\ handler[h].at = "locked" /\ ~AgentLocked
    /\ token' = [token EXCEPT ![handler[h].token] = "consumed"]
    /\ issued' = Append(issued, handler[h].token)
    /\ handler' = [handler EXCEPT ![h] = Idle]
    /\ command' = IF Waiting(h) THEN [at |-> "answered", credential |-> Len(issued) + 1]
                  ELSE command
    /\ UNCHANGED <<expired, issuer, agent, stops>>

\* PostgreSQL ends a cycle of waiting transactions by aborting one of them.
DeadlockDetected(i, h) ==
    /\ issuer[i].at = "locked" /\ handler[h].at = "locked" /\ handler[h].token \in Unused
    /\ \/ issuer' = [issuer EXCEPT ![i] = Idle] /\ UNCHANGED <<handler, command>>
       \/ handler' = [handler EXCEPT ![h] = Idle] /\ Fails(h) /\ UNCHANGED issuer
    /\ UNCHANGED <<server, agent, stops>>

---------------------------------------------------------------------------
(* The agent: enrol, SaveIdentity and SaveCredential. *)

\* SaveIdentity that leaves the command without its credential.
SavesIdentityOnly ==
    /\ command.at = "answered"
    /\ identity' = TRUE
    /\ command' = Idle
    /\ UNCHANGED <<server, issuer, handler, stored, stops>>

\* An identity is never replaced: a second one, enrolled at another time, is a mismatch.
SavesIdentity ==
    /\ command.at = "answered"
    /\ identity' = TRUE
    /\ command' = IF identity THEN Idle ELSE [command EXCEPT !.at = "named"]
    /\ UNCHANGED <<server, issuer, handler, stored, stops>>

SavesCredential ==
    /\ command.at = "named"
    /\ stored' = stored \cup {command.credential}
    /\ command' = Idle
    /\ UNCHANGED <<server, issuer, handler, identity, stops>>

\* The answer is lost or the command is killed; the server goes on.
CommandStops ==
    /\ command # Idle /\ stops < MaxStops
    /\ command' = Idle
    /\ stops' = stops + 1
    /\ UNCHANGED <<server, issuer, handler, agent>>

\* The server stops: open transactions are rolled back, the command gets an error.
ServerStops ==
    /\ stops < MaxStops
    /\ issuer' = [i \in Issuers |-> Idle]
    /\ handler' = [h \in Handlers |-> Idle]
    /\ command' = IF command.at = "waiting" THEN Idle ELSE command
    /\ stops' = stops + 1
    /\ UNCHANGED <<server, agent>>

\* activeIdentity: the agent can start.
Enrolled == identity /\ stored # {}

---------------------------------------------------------------------------

Issuing(i) == IssueBegins(i) \/ IssueLocks(i) \/ IssueRevokes(i) \/ IssueCommits(i)

Exchanging(h) == ExchangeLocks(h) \/ ExchangeRefuses(h) \/ ExchangeCommits(h)

Next ==
    \/ \E i \in Issuers : Issuing(i)
    \/ \E t \in Tokens : RevokeToken(t) \/ TokenExpires(t)
    \/ \E h \in Handlers : EnrolBegins(h) \/ Exchanging(h)
    \/ \E i \in Issuers, h \in Handlers : DeadlockDetected(i, h)
    \/ SavesIdentity \/ SavesCredential \/ CommandStops \/ ServerStops

Spec == Init /\ [][Next]_vars

\* Statements are executed, row locks are granted in the order they are asked
\* for, and a deadlock is detected.  No one need ever issue or use a token.
FairSpec ==
    /\ Spec
    /\ \A i \in Issuers : SF_vars(IssueLocks(i)) /\ SF_vars(IssueRevokes(i))
                          /\ WF_vars(IssueCommits(i))
    /\ \A h \in Handlers : SF_vars(ExchangeLocks(h) \/ ExchangeRefuses(h))
                           /\ SF_vars(ExchangeCommits(h))
    /\ \A i \in Issuers, h \in Handlers : WF_vars(DeadlockDetected(i, h))

---------------------------------------------------------------------------
(* Properties. *)

\* However many administrators issue tokens at the same time, an agent never
\* has two that could still be used: the lock on the agent's row puts the
\* issuers one after another.
OneUsableToken == \A t, u \in Unused : t = u

\* A token is good for one credential, however often it is submitted: every
\* consumed token has given exactly one, and no other token has given any.
TokenYieldsOneCredential ==
    \A t \in Tokens :
        Cardinality({k \in Credentials : issued[k] = t}) = (IF token[t] = "consumed" THEN 1 ELSE 0)

\* A token that was revoked or consumed stays so: an exchange that began
\* before the revocation does not complete after it.
SpentForGood ==
    [][\A t \in Tokens : token[t] \in {"consumed", "revoked"} => token'[t] = token[t]]_vars

\* An agent is enrolled as a whole: its database has a credential only with
\* an identity, and an identity without a credential only while the command
\* is at work or after it was cut off.
EnrolledAsAWhole ==
    /\ stored # {} => identity
    /\ identity /\ command.at # "named" /\ stops = 0 => Enrolled

\* Requests to issue and to exchange tokens always end, although the two lock
\* the agent's and the token's rows in opposite orders.
RequestsEnd ==
    /\ \A i \in Issuers : issuer[i].at = "waiting" ~> issuer[i] = Idle
    /\ \A h \in Handlers : handler[h].at = "begun" ~> handler[h] = Idle
=============================================================================
