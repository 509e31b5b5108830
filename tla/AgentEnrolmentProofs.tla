------------------------ MODULE AgentEnrolmentProofs ------------------------
(***************************************************************************)
(* Enrolment for any number of administrators, requests, tokens and        *)
(* crashes.  What makes the properties inductive is who holds which lock:  *)
(* one issuer at a time is past the lock on the agent's row, what it is to *)
(* revoke is exactly what is unused, and a token that is being exchanged   *)
(* is unused and is exchanged by one request.                              *)
(***************************************************************************)
EXTENDS AgentEnrolment, SequenceTheorems, FiniteSetTheorems, TLAPS

IssuerStates == [at : {"idle", "waiting", "locked"}] \cup [at : {"revoked"}, tokens : SUBSET Nat]

HandlerStates == [at : {"idle"}] \cup [at : {"begun", "locked"}, token : Nat, inTime : BOOLEAN]

Types ==
    /\ token \in Seq({"unused", "consumed", "revoked"}) /\ issued \in Seq(Nat)
    /\ issuer \in [Issuers -> IssuerStates]
    /\ handler \in [Handlers -> HandlerStates]
    /\ stops \in Nat

\* One issuer at a time holds the agent's row.
OneIssuer ==
    \A i, j \in Issuers :
        issuer[i].at \in {"locked", "revoked"} /\ issuer[j].at \in {"locked", "revoked"} => i = j

\* An issuer about to commit revokes what is unused, and none of it is being exchanged.
RevokesUnused ==
    \A i \in Issuers : issuer[i].at = "revoked" =>
        /\ issuer[i].tokens = Unused
        /\ \A h \in Handlers : handler[h].at # "locked"

\* A token being exchanged is unused, and one request exchanges it.
ExchangesUnused ==
    /\ \A h \in Handlers : handler[h].at = "locked" => handler[h].token \in Unused
    /\ \A g, h \in Handlers :
         handler[g].at = "locked" /\ handler[h].at = "locked"
             /\ handler[g].token = handler[h].token => g = h

\* Credentials and consumed tokens are in one-to-one correspondence.
Accounted ==
    /\ \A k \in Credentials : issued[k] \in Tokens /\ token[issued[k]] = "consumed"
    /\ \A k, l \in Credentials : issued[k] = issued[l] => k = l
    /\ \A t \in Tokens : token[t] = "consumed" => \E k \in Credentials : issued[k] = t

\* A request is for a token that was issued.
KnownTokens == \A h \in Handlers : handler[h].at # "idle" => handler[h].token \in Tokens

LockInv ==
    /\ Types /\ KnownTokens
    /\ OneIssuer /\ RevokesUnused /\ ExchangesUnused /\ OneUsableToken /\ Accounted

---------------------------------------------------------------------------

\* Before the first token there is nothing to lock.
LEMMA InitLocks == Init => LockInv
<1> SUFFICES ASSUME Init PROVE LockInv
  OBVIOUS
<1>1. Types
  BY DEF Init, Types, Idle, IssuerStates, HandlerStates
<1>2. Tokens = {} /\ Credentials = {} /\ Unused = {}
  BY DEF Init, Tokens, Credentials, Unused
<1> QED
  BY <1>1, <1>2 DEF Init, Idle, LockInv, OneIssuer, RevokesUnused, ExchangesUnused, OneUsableToken,
                    Accounted, KnownTokens

\* Steps of an issuer before it commits leave the tables alone.
LEMMA IssuerSteps ==
    ASSUME LockInv, NEW i \in Issuers, IssueBegins(i) \/ IssueLocks(i) \/ IssueRevokes(i)
    PROVE  LockInv'
<1>1. /\ token' = token /\ issued' = issued /\ handler' = handler /\ stops' = stops
      /\ Unused' = Unused /\ Tokens' = Tokens /\ Credentials' = Credentials
  BY DEF IssueBegins, IssueLocks, IssueRevokes, server, Unused, Tokens, Credentials
<1>2. OneUsableToken' /\ Accounted' /\ ExchangesUnused' /\ KnownTokens'
  BY <1>1 DEF LockInv, OneUsableToken, Accounted, ExchangesUnused, KnownTokens
<1>3. Unused \in SUBSET Nat
  BY DEF LockInv, Types, Unused, Tokens
<1>4. CASE IssueBegins(i)
  <2>1. issuer' = [issuer EXCEPT ![i] = [at |-> "waiting"]]
    BY <1>4 DEF IssueBegins
  <2> QED
    BY <1>1, <1>2, <2>1 DEF LockInv, Types, OneIssuer, RevokesUnused, IssuerStates
<1>5. CASE IssueLocks(i)
  <2>1. issuer' = [issuer EXCEPT ![i] = [at |-> "locked"]]
        /\ \A j \in Issuers : issuer[j].at \notin {"locked", "revoked"}
    BY <1>5 DEF IssueLocks, AgentLocked
  <2> QED
    BY <1>1, <1>2, <2>1 DEF LockInv, Types, OneIssuer, RevokesUnused, IssuerStates
<1>6. CASE IssueRevokes(i)
  <2>1. issuer' = [issuer EXCEPT ![i] = [at |-> "revoked", tokens |-> Unused]]
        /\ issuer[i].at = "locked" /\ \A t \in Unused : ~LockedByHandler(t)
    BY <1>6 DEF IssueRevokes, Unlocked
  <2>2. \A h \in Handlers : handler[h].at # "locked"
    BY <2>1 DEF LockInv, ExchangesUnused, LockedByHandler
  <2>3. Types'
    BY <1>1, <1>3, <2>1 DEF LockInv, Types, IssuerStates
  <2>4. OneIssuer'
    BY <2>1 DEF LockInv, OneIssuer, Types
  <2>5. RevokesUnused'
    BY <1>1, <2>1, <2>2 DEF LockInv, RevokesUnused, Types
  <2> QED
    BY <1>2, <2>3, <2>4, <2>5 DEF LockInv
<1> QED
  BY <1>4, <1>5, <1>6

\* The commit of an issuer revokes the unused token and adds one.
LEMMA IssuerCommit ==
    ASSUME LockInv, NEW i \in Issuers, IssueCommits(i)
    PROVE  /\ LockInv'
           /\ \A t \in Tokens : token[t] \in {"consumed", "revoked"} => token'[t] = token[t]
<1> DEFINE kept == [t \in Tokens |-> IF t \in issuer[i].tokens THEN "revoked" ELSE token[t]]
           n == Len(token)
<1>1. /\ issuer[i].at = "revoked" /\ token' = Append(kept, "unused")
      /\ issuer' = [issuer EXCEPT ![i] = Idle]
      /\ issued' = issued /\ handler' = handler /\ stops' = stops
  BY DEF IssueCommits
<1>2. issuer[i].tokens = Unused /\ \A h \in Handlers : handler[h].at # "locked"
  BY <1>1 DEF LockInv, RevokesUnused
<1>3. n \in Nat /\ Tokens = 1..n /\ \A t \in Tokens : token[t] \in {"unused", "consumed", "revoked"}
  BY DEF LockInv, Types, Tokens
<1>4. kept \in Seq({"unused", "consumed", "revoked"}) /\ Len(kept) = n
  <2>1. kept \in [1..n -> {"unused", "consumed", "revoked"}]
    BY <1>3
  <2> HIDE DEF kept
  <2> QED
    BY <1>3, <2>1
<1>5. /\ token' \in Seq({"unused", "consumed", "revoked"}) /\ Len(token') = n + 1
      /\ Tokens' = 1..(n + 1) /\ token'[n + 1] = "unused"
      /\ \A t \in 1..n : token'[t] = kept[t]
  <2> HIDE DEF kept, n
  <2> QED
    BY <1>1, <1>3, <1>4 DEF Tokens
<1>6. \A t \in 1..n : token'[t] = IF token[t] = "unused" THEN "revoked" ELSE token[t]
  BY <1>2, <1>3, <1>5 DEF Unused
<1> HIDE DEF kept, n
<1>7. Unused' = {n + 1}
  BY <1>3, <1>5, <1>6 DEF Unused
<1>8. Types'
  BY <1>1, <1>5 DEF LockInv, Types, Idle, IssuerStates
<1>9. OneIssuer'
  BY <1>1 DEF LockInv, OneIssuer, Types, Idle
<1>10. RevokesUnused'
  BY <1>1 DEF LockInv, OneIssuer, RevokesUnused, Types, Idle
<1>11. ExchangesUnused'
  BY <1>1, <1>2 DEF ExchangesUnused
<1>12. OneUsableToken'
  BY <1>7 DEF OneUsableToken
<1>13. Accounted'
  BY <1>1, <1>3, <1>5, <1>6 DEF LockInv, Accounted, Credentials
<1>14. KnownTokens'
  BY <1>1, <1>3, <1>5 DEF LockInv, KnownTokens
<1> QED
  BY <1>3, <1>6, <1>8, <1>9, <1>10, <1>11, <1>12, <1>13, <1>14 DEF LockInv

\* A revoked token is nobody's: no issuer and no exchange holds it.
LEMMA Revocation ==
    ASSUME LockInv, NEW t \in Tokens, RevokeToken(t)
    PROVE  /\ LockInv'
           /\ \A u \in Tokens : token[u] \in {"consumed", "revoked"} => token'[u] = token[u]
<1>1. /\ token[t] = "unused" /\ token' = [token EXCEPT ![t] = "revoked"]
      /\ ~LockedByHandler(t) /\ ~LockedByIssuer(t)
      /\ issuer' = issuer /\ issued' = issued /\ handler' = handler /\ stops' = stops
  BY DEF RevokeToken, Unlocked
<1>2. Tokens' = Tokens /\ Unused' = Unused \ {t} /\ Credentials' = Credentials
  BY <1>1 DEF LockInv, Types, Tokens, Unused, Credentials
<1>3. \A i \in Issuers : issuer[i].at # "revoked"
  BY <1>1 DEF LockInv, RevokesUnused, LockedByIssuer, Unused
<1>4. Types'
  BY <1>1 DEF LockInv, Types, Tokens
<1>5. OneIssuer' /\ RevokesUnused'
  BY <1>1, <1>3 DEF LockInv, OneIssuer, RevokesUnused
<1>6. ExchangesUnused'
  BY <1>1, <1>2 DEF LockInv, ExchangesUnused, LockedByHandler
<1>7. OneUsableToken' /\ KnownTokens'
  BY <1>1, <1>2 DEF LockInv, OneUsableToken, KnownTokens
<1>8. \A u \in Tokens : token[u] \in {"consumed", "revoked"} => token'[u] = token[u]
  BY <1>1 DEF LockInv, Types, Tokens
<1>9. Accounted'
  <2>1. \A u \in Tokens : token'[u] = "consumed" <=> token[u] = "consumed"
    BY <1>1 DEF LockInv, Types, Tokens
  <2> QED
    BY <1>1, <1>2, <2>1 DEF LockInv, Accounted
<1> QED
  BY <1>4, <1>5, <1>6, <1>7, <1>8, <1>9 DEF LockInv

\* Requests begin, lock their token and end without touching the tables.
LEMMA HandlerSteps ==
    ASSUME LockInv, NEW h \in Handlers, EnrolBegins(h) \/ ExchangeLocks(h) \/ ExchangeRefuses(h)
    PROVE  LockInv' /\ token' = token
<1>1. /\ token' = token /\ issued' = issued /\ issuer' = issuer /\ stops' = stops
      /\ Unused' = Unused /\ Tokens' = Tokens /\ Credentials' = Credentials
  BY DEF EnrolBegins, ExchangeLocks, ExchangeRefuses, server, Unused, Tokens, Credentials
<1>2. OneUsableToken' /\ Accounted' /\ OneIssuer'
  BY <1>1 DEF LockInv, OneUsableToken, Accounted, OneIssuer
<1>3. CASE EnrolBegins(h)
  <2>1. PICK t \in Tokens : handler' = [handler EXCEPT ![h] =
                                [at |-> "begun", token |-> t, inTime |-> t \notin expired]]
    BY <1>3 DEF EnrolBegins
  <2>2. t \in Nat
    BY DEF LockInv, Types, Tokens
  <2>3. Types'
    BY <1>1, <2>1, <2>2 DEF LockInv, Types, HandlerStates
  <2>4. \A g \in Handlers : handler'[g].at = "locked" => g # h /\ handler'[g] = handler[g]
    BY <2>1 DEF LockInv, Types
  <2>5. KnownTokens'
    BY <1>1, <2>1 DEF LockInv, Types, KnownTokens
  <2> QED
    BY <1>1, <1>2, <2>3, <2>4, <2>5 DEF LockInv, RevokesUnused, ExchangesUnused
<1>4. CASE ExchangeLocks(h)
  <2>1. /\ handler[h].at = "begun" /\ ~LockedByHandler(handler[h].token)
        /\ ~LockedByIssuer(handler[h].token) /\ token[handler[h].token] = "unused"
        /\ handler' = [handler EXCEPT ![h].at = "locked"]
    BY <1>4 DEF ExchangeLocks, Unlocked
  <2>2. handler[h] \in [at : {"begun", "locked"}, token : Nat, inTime : BOOLEAN]
    BY <2>1 DEF LockInv, Types, HandlerStates
  <2>3. /\ handler'[h].at = "locked" /\ handler'[h].token = handler[h].token
        /\ handler'[h] \in HandlerStates
        /\ \A g \in Handlers : g # h => handler'[g] = handler[g]
    BY <2>1, <2>2 DEF LockInv, Types, HandlerStates
  <2>4. Types'
    BY <1>1, <2>1, <2>3 DEF LockInv, Types
  <2>5. handler[h].token \in Unused
    BY <2>1 DEF LockInv, KnownTokens, Unused
  <2>6. RevokesUnused'
    <3>1. \A i \in Issuers : issuer[i].at # "revoked"
      BY <2>1, <2>5 DEF LockInv, RevokesUnused, LockedByIssuer
    <3> QED
      BY <1>1, <3>1 DEF RevokesUnused
  <2>7. ExchangesUnused'
    BY <1>1, <2>1, <2>3, <2>5 DEF LockInv, ExchangesUnused, LockedByHandler
  <2>8. KnownTokens'
    BY <1>1, <2>3, <2>5 DEF LockInv, KnownTokens, Unused
  <2> QED
    BY <1>1, <1>2, <2>4, <2>6, <2>7, <2>8 DEF LockInv
<1>5. CASE ExchangeRefuses(h)
  <2>1. handler' = [handler EXCEPT ![h] = Idle]
    BY <1>5 DEF ExchangeRefuses
  <2>2. Types'
    BY <1>1, <2>1 DEF LockInv, Types, HandlerStates, Idle
  <2>3. \A g \in Handlers : handler'[g].at = "locked" => g # h /\ handler'[g] = handler[g]
    BY <2>1 DEF LockInv, Types, Idle
  <2>4. KnownTokens'
    BY <1>1, <2>1 DEF LockInv, Types, KnownTokens, Idle
  <2> QED
    BY <1>1, <1>2, <2>2, <2>3, <2>4 DEF LockInv, RevokesUnused, ExchangesUnused
<1> QED
  BY <1>1, <1>3, <1>4, <1>5

\* The commit of an exchange consumes an unused token, for a credential of its own.
LEMMA ExchangeCommit ==
    ASSUME LockInv, NEW h \in Handlers, ExchangeCommits(h)
    PROVE  /\ LockInv'
           /\ \A t \in Tokens : token[t] \in {"consumed", "revoked"} => token'[t] = token[t]
<1> DEFINE t == handler[h].token
           k == Len(issued) + 1
<1>1. /\ handler[h].at = "locked" /\ \A i \in Issuers : issuer[i].at \notin {"locked", "revoked"}
      /\ token' = [token EXCEPT ![t] = "consumed"] /\ issued' = Append(issued, t)
      /\ handler' = [handler EXCEPT ![h] = Idle]
      /\ issuer' = issuer /\ stops' = stops
  BY DEF ExchangeCommits, AgentLocked
<1>2. t \in Tokens /\ token[t] = "unused" /\ t \in Nat
  BY <1>1 DEF LockInv, ExchangesUnused, Unused, Types, Tokens
<1>3. /\ k \in Nat /\ Credentials = 1..(k - 1) /\ Credentials' = 1..k /\ k \notin Credentials
      /\ issued'[k] = t /\ \A l \in Credentials : issued'[l] = issued[l]
      /\ issued' \in Seq(Nat)
  <2> HIDE DEF t
  <2> QED
    BY <1>1, <1>2 DEF LockInv, Types, Credentials
<1>4. Credentials' = Credentials \cup {k}
  BY <1>3
<1>5. Tokens' = Tokens /\ Unused' = Unused \ {t} /\ token'[t] = "consumed"
      /\ \A u \in Tokens : u # t => token'[u] = token[u]
  BY <1>1, <1>2 DEF LockInv, Types, Tokens, Unused
<1>6. \A g \in Handlers : handler'[g].at # "idle" => g # h /\ handler'[g] = handler[g]
  BY <1>1 DEF LockInv, Types, Idle
<1>7. Types'
  BY <1>1, <1>2, <1>3 DEF LockInv, Types, Tokens, HandlerStates, Idle
<1> HIDE DEF k
<1>8. OneIssuer' /\ RevokesUnused'
  BY <1>1 DEF OneIssuer, RevokesUnused
<1>9. ExchangesUnused'
  BY <1>1, <1>5, <1>6 DEF LockInv, ExchangesUnused
<1>10. OneUsableToken' /\ KnownTokens'
  BY <1>5, <1>6 DEF LockInv, OneUsableToken, KnownTokens
<1>11. Accounted'
  <2> HIDE DEF t
  <2>1. \A l \in Credentials : issued[l] # t
    BY <1>2 DEF LockInv, Accounted
  <2>2. \A l \in Credentials' : issued'[l] \in Tokens' /\ token'[issued'[l]] = "consumed"
    <3> SUFFICES ASSUME NEW l \in Credentials \cup {k}
                 PROVE  issued'[l] \in Tokens /\ token'[issued'[l]] = "consumed"
      BY <1>4, <1>5
    <3>1. CASE l = k
      BY <1>2, <1>3, <1>5, <3>1
    <3>2. CASE l \in Credentials
      <4>1. issued'[l] = issued[l] /\ issued[l] \in Tokens /\ token[issued[l]] = "consumed"
        BY <1>3, <3>2 DEF LockInv, Accounted
      <4>2. issued[l] # t
        BY <2>1, <3>2
      <4> QED
        BY <1>5, <4>1, <4>2
    <3> QED
      BY <3>1, <3>2
  <2>3. \A l, m \in Credentials' : issued'[l] = issued'[m] => l = m
    <3>1. \A l, m \in Credentials : issued[l] = issued[m] => l = m
      BY DEF LockInv, Accounted
    <3>2. \A l \in Credentials : issued'[l] = issued[l]
      BY <1>3
    <3>3. issued'[k] = t /\ k \notin Credentials
      BY <1>3
    <3> QED
      BY <1>4, <2>1, <3>1, <3>2, <3>3, Zenon
  <2>4. \A u \in Tokens' : token'[u] = "consumed" => \E l \in Credentials' : issued'[l] = u
    <3> SUFFICES ASSUME NEW u \in Tokens, token'[u] = "consumed"
                 PROVE  \E l \in Credentials' : issued'[l] = u
      BY <1>5
    <3>1. CASE u = t
      BY <1>3, <1>4, <3>1
    <3>2. CASE u # t
      <4>1. PICK l \in Credentials : issued[l] = u
        BY <1>5, <3>2 DEF LockInv, Accounted
      <4> QED
        BY <1>3, <1>4, <4>1
    <3> QED
      BY <3>1, <3>2
  <2> QED
    BY <2>2, <2>3, <2>4 DEF Accounted
<1> QED
  BY <1>2, <1>5, <1>7, <1>8, <1>9, <1>10, <1>11 DEF LockInv

\* Issuers and requests that are given up let go of their locks.
LEMMA GivenUp ==
    ASSUME LockInv, UNCHANGED <<token, issued>>, stops' \in Nat,
           issuer' \in [Issuers -> IssuerStates], handler' \in [Handlers -> HandlerStates],
           \A i \in Issuers : issuer'[i] \in {issuer[i], Idle},
           \A h \in Handlers : handler'[h] \in {handler[h], Idle}
    PROVE  LockInv'
<1>1. Unused' = Unused /\ Tokens' = Tokens /\ Credentials' = Credentials
  BY DEF Unused, Tokens, Credentials
<1>2. Types' /\ OneUsableToken' /\ Accounted'
  BY <1>1 DEF LockInv, Types, OneUsableToken, Accounted
<1>3. \A i \in Issuers : issuer'[i].at # "idle" => issuer'[i] = issuer[i]
  BY DEF Idle
<1>4. \A h \in Handlers : handler'[h].at # "idle" => handler'[h] = handler[h]
  BY DEF Idle
<1>5. OneIssuer'
  BY <1>3 DEF LockInv, OneIssuer
<1>6. RevokesUnused'
  BY <1>1, <1>3, <1>4 DEF LockInv, RevokesUnused
<1>7. ExchangesUnused' /\ KnownTokens'
  BY <1>1, <1>4 DEF LockInv, ExchangesUnused, KnownTokens
<1> QED
  BY <1>2, <1>5, <1>6, <1>7 DEF LockInv

\* No step undoes the consumption or the revocation of a token.
Spent == \A t \in Tokens : token[t] \in {"consumed", "revoked"} => token'[t] = token[t]

\* Every step of issue_enrolment_token, exchange_enrolment_token and revocation keeps what their row
\* locks protect, and undoes no consumption or revocation.
LEMMA StepKeepsLocks == LockInv /\ [Next]_vars => LockInv' /\ Spent
<1> SUFFICES ASSUME LockInv, [Next]_vars
             PROVE  LockInv' /\ Spent
  OBVIOUS
<1>1. ASSUME NEW i \in Issuers, Issuing(i) PROVE LockInv' /\ Spent
  <2>1. CASE IssueCommits(i)
    BY <2>1, IssuerCommit DEF Spent
  <2>2. CASE IssueBegins(i) \/ IssueLocks(i) \/ IssueRevokes(i)
    <3>1. token' = token
      BY <2>2 DEF IssueBegins, IssueLocks, IssueRevokes, server
    <3> QED
      BY <2>2, <3>1, IssuerSteps DEF Spent
  <2> QED
    BY <1>1, <2>1, <2>2 DEF Issuing
<1>2. ASSUME NEW t \in Tokens, RevokeToken(t) PROVE LockInv' /\ Spent
  BY <1>2, Revocation DEF Spent
<1>3. ASSUME NEW h \in Handlers, EnrolBegins(h) \/ Exchanging(h) PROVE LockInv' /\ Spent
  <2>1. CASE ExchangeCommits(h)
    BY <2>1, ExchangeCommit DEF Spent
  <2>2. CASE EnrolBegins(h) \/ ExchangeLocks(h) \/ ExchangeRefuses(h)
    BY <2>2, HandlerSteps DEF Spent
  <2> QED
    BY <1>3, <2>1, <2>2 DEF Exchanging
<1>4. ASSUME NEW i \in Issuers, NEW h \in Handlers, DeadlockDetected(i, h) PROVE LockInv' /\ Spent
  <2>1. UNCHANGED <<token, issued>> /\ stops' = stops
    BY <1>4 DEF DeadlockDetected, server
  <2>2. \/ issuer' = [issuer EXCEPT ![i] = Idle] /\ handler' = handler
        \/ handler' = [handler EXCEPT ![h] = Idle] /\ issuer' = issuer
    BY <1>4 DEF DeadlockDetected
  <2>3. Idle \in IssuerStates /\ Idle \in HandlerStates
    BY DEF Idle, IssuerStates, HandlerStates
  <2>4. /\ issuer' \in [Issuers -> IssuerStates] /\ handler' \in [Handlers -> HandlerStates]
        /\ \A j \in Issuers : issuer'[j] \in {issuer[j], Idle}
        /\ \A g \in Handlers : handler'[g] \in {handler[g], Idle}
    BY <2>2, <2>3 DEF LockInv, Types
  <2>5. stops' \in Nat
    BY <2>1 DEF LockInv, Types
  <2> QED
    BY <2>1, <2>4, <2>5, GivenUp DEF Spent
<1>5. CASE ServerStops
  <2>1. /\ UNCHANGED <<token, issued>> /\ stops' = stops + 1
        /\ issuer' = [i \in Issuers |-> Idle] /\ handler' = [h \in Handlers |-> Idle]
    BY <1>5 DEF ServerStops, server
  <2>2. Idle \in IssuerStates /\ Idle \in HandlerStates
    BY DEF Idle, IssuerStates, HandlerStates
  <2>3. stops' \in Nat
    BY <2>1 DEF LockInv, Types
  <2> QED
    BY <2>1, <2>2, <2>3, GivenUp DEF Spent
<1>6. CASE UNCHANGED <<token, issued, issuer, handler>> /\ stops' \in Nat
  BY <1>6, GivenUp DEF LockInv, Types, Spent
<1>7. ASSUME NEW t \in Tokens, TokenExpires(t) PROVE LockInv' /\ Spent
  BY <1>6, <1>7 DEF TokenExpires, LockInv, Types
<1>8. CASE SavesIdentity \/ SavesCredential \/ CommandStops \/ UNCHANGED vars
  <2>1. UNCHANGED <<token, issued, issuer, handler>> /\ stops' \in {stops, stops + 1}
    BY <1>8 DEF SavesIdentity, SavesCredential, CommandStops, vars, server
  <2>2. stops' \in Nat
    BY <2>1 DEF LockInv, Types
  <2> QED
    BY <1>6, <2>1, <2>2
<1> QED
  BY <1>1, <1>2, <1>3, <1>4, <1>5, <1>7, <1>8 DEF Next

\* The invariant of the row locks holds throughout.
LEMMA LocksAreKept == Spec => []LockInv
  BY InitLocks, StepKeepsLocks, PTL DEF Spec

---------------------------------------------------------------------------
(* The theorems. *)

\* An agent never has two tokens that could still be used, for any number of
\* administrators issuing at the same time.
THEOREM OneTokenAtATime == Spec => []OneUsableToken
<1>1. LockInv => OneUsableToken
  BY DEF LockInv
<1> QED
  BY <1>1, LocksAreKept, PTL

\* A token that was revoked or consumed stays so, whatever exchange was under way.
THEOREM TokensAreSpentForGood == Spec => SpentForGood
<1>1. LockInv /\ [Next]_vars => [Spent]_vars
  BY StepKeepsLocks
<1> QED
  BY <1>1, LocksAreKept, PTL DEF Spec, SpentForGood, Spent

\* A consumed token has given exactly one credential and no other any, for
\* any number of submissions and tokens.
THEOREM OneCredentialEach == Spec => []TokenYieldsOneCredential
<1>1. LockInv => TokenYieldsOneCredential
  <2> SUFFICES ASSUME LockInv, NEW t \in Tokens
               PROVE  Cardinality({k \in Credentials : issued[k] = t})
                          = (IF token[t] = "consumed" THEN 1 ELSE 0)
    BY DEF TokenYieldsOneCredential
  <2>1. CASE token[t] = "consumed"
    <3>1. PICK k \in Credentials : issued[k] = t
      BY <2>1 DEF LockInv, Accounted
    <3>2. {l \in Credentials : issued[l] = t} = {k}
      BY <3>1 DEF LockInv, Accounted
    <3> QED
      BY <2>1, <3>2, FS_Singleton
  <2>2. CASE token[t] # "consumed"
    <3>1. {l \in Credentials : issued[l] = t} = {}
      BY <2>2 DEF LockInv, Accounted
    <3> QED
      BY <2>2, <3>1, FS_EmptySet
  <2> QED
    BY <2>1, <2>2
<1> QED
  BY <1>1, LocksAreKept, PTL

\* A database that has been named is named for good, and the crash counter
\* says whether something was cut off.
WholeInv ==
    /\ EnrolledAsAWhole /\ stops \in Nat
    /\ command.at = "named" => identity

\* An agent's database has a credential only with an identity, and an identity
\* alone only while the command is at work or after it was cut off.
THEOREM AgentsAreEnrolledAsAWhole == Spec => []EnrolledAsAWhole
<1>1. Init => WholeInv
  BY DEF Init, WholeInv, EnrolledAsAWhole, Idle
<1>2. WholeInv /\ [Next]_vars => WholeInv'
  <2> SUFFICES ASSUME WholeInv, [Next]_vars PROVE WholeInv'
    OBVIOUS
  <2> USE DEF WholeInv, EnrolledAsAWhole, Enrolled, Idle
  <2>1. CASE SavesIdentity
    BY <2>1 DEF SavesIdentity
  <2>2. CASE SavesCredential
    BY <2>2 DEF SavesCredential
  <2>3. CASE CommandStops
    BY <2>3 DEF CommandStops, agent
  <2>4. CASE ServerStops
    BY <2>4 DEF ServerStops, agent
  <2>5. CASE /\ identity' = identity /\ stored' = stored /\ stops' = stops
             /\ \/ command' = command
                \/ command.at # "named" /\ command'.at # "named"
    BY <2>5
  <2>6. ASSUME NEW i \in Issuers, Issuing(i) PROVE WholeInv'
    BY <2>5, <2>6 DEF Issuing, IssueBegins, IssueLocks, IssueRevokes, IssueCommits, agent
  <2>7. ASSUME NEW t \in Tokens, RevokeToken(t) \/ TokenExpires(t) PROVE WholeInv'
    BY <2>5, <2>7 DEF RevokeToken, TokenExpires, agent
  <2>8. ASSUME NEW h \in Handlers, EnrolBegins(h) \/ Exchanging(h) PROVE WholeInv'
    BY <2>5, <2>8 DEF EnrolBegins, Exchanging, ExchangeLocks, ExchangeRefuses, ExchangeCommits,
                      Fails, Waiting, agent
  <2>9. ASSUME NEW i \in Issuers, NEW h \in Handlers, DeadlockDetected(i, h) PROVE WholeInv'
    BY <2>5, <2>9 DEF DeadlockDetected, Fails, Waiting, agent
  <2>10. CASE UNCHANGED vars
    BY <2>5, <2>10 DEF vars, agent
  <2> QED
    BY <2>1, <2>2, <2>3, <2>4, <2>6, <2>7, <2>8, <2>9, <2>10 DEF Next
<1>3. WholeInv => EnrolledAsAWhole
  BY DEF WholeInv
<1> QED
  BY <1>1, <1>2, <1>3, PTL DEF Spec
=============================================================================
