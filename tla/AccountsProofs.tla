--------------------------- MODULE AccountsProofs ---------------------------
(***************************************************************************)
(* Proofs about Accounts, for any number of users, realms, sessions and    *)
(* requests.                                                               *)
(*                                                                         *)
(* What a session or a request remembers of an account was read earlier.   *)
(* The invariant says how such a memory may differ from the row: it has an *)
(* older version, or else the same password; and a realm it names is still *)
(* one of the user's, since realms and owners only grow.                   *)
(***************************************************************************)
EXTENDS Accounts, TLAPS

SessionRows == [user : Users, version : Nat, password : Nat, realm : Realms \cup {None}]
SeenRows == [user : Users, version : Nat, password : Nat]
RequestStates ==
    [at : {"idle"}] \cup [at : {"read"}, id : Sessions, session : SessionRows]
        \cup [at : {"signup", "realm"}, user : Users, realm : Realms]
        \cup [at : {"login", "reset"}, seen : SeenRows]

\* The tables of PostgreSQL.
Tables ==
    /\ account \in [Users -> UserRows \cup {None}]
    /\ realms \subseteq Realms
    /\ owners \in [Realms -> SUBSET Users]

\* No step takes a realm, an owner or a superuser away, and a password changes
\* only together with the version.
Grows ==
    /\ realms \subseteq realms'
    /\ \A n \in Realms : owners[n] \subseteq owners'[n]
    /\ \A u \in Users : account[u] # None =>
           /\ account'[u] # None
           /\ account[u].is_superuser => account'[u].is_superuser
           /\ account[u].session_version <= account'[u].session_version
           /\ account[u].session_version = account'[u].session_version
                  => account[u].password = account'[u].password

\* What is remembered of u's row is older than it, or agrees with it.
Current(u, version, password) ==
    /\ account[u] # None
    /\ version <= account[u].session_version
    /\ version = account[u].session_version => password = account[u].password

Usable(u, n) == n \in realms /\ (account[u].is_superuser \/ u \in owners[n])

GoodSession(x) ==
    /\ Current(x.user, x.version, x.password)
    /\ x.realm # None => Usable(x.user, x.realm)

GoodSessions ==
    /\ session \in [Sessions -> SessionRows \cup {None}]
    /\ \A s \in Sessions : session[s] # None => GoodSession(session[s])

GoodRequest(q) ==
    /\ q.at = "read" => GoodSession(q.session)
    /\ q.at = "login" => Current(q.seen.user, q.seen.version, q.seen.password)
    /\ q.at = "reset" => /\ account[q.seen.user] # None
                         /\ q.seen.version = account[q.seen.user].session_version
    /\ q.at \in {"signup", "realm"} => Current(q.user, 1, 1)
    /\ q.at = "realm" => q.realm \in realms

GoodRequests ==
    /\ request \in [Requests -> RequestStates]
    /\ \A r \in Requests : GoodRequest(request[r])

\* The resets of one account do not overlap.
OneReset ==
    \A r, q \in Requests :
        /\ request[r].at = "reset" /\ request[q].at = "reset"
        /\ request[r].seen.user = request[q].seen.user
        => r = q

ChallengeTypes ==
    {"email_verification", "password_reset", "two_factor_login", "webauthn_registration",
     "webauthn_authentication"}

\* Challenges and passkeys are of users that exist.
NamedChallenges ==
    /\ challenge \in [Challenges -> [type : ChallengeTypes, user : Users \cup {None}] \cup {None}]
    /\ \A c \in Challenges :
           challenge[c] # None /\ challenge[c].type # "webauthn_authentication"
               => challenge[c].user \in Users /\ account[challenge[c].user] # None

NamedPasskeys ==
    /\ passkey \in [Passkeys -> Users \cup {None}]
    /\ \A k \in Passkeys : passkey[k] # None => account[passkey[k]] # None

AccountsInv ==
    Tables /\ GoodSessions /\ GoodRequests /\ OneReset /\ NamedChallenges /\ NamedPasskeys

---------------------------------------------------------------------------
(* Memories stay good while the tables grow. *)

\* What a request holds depends on where it is.
LEMMA RequestParts ==
    ASSUME NEW q \in RequestStates
    PROVE  /\ q.at \in {"idle", "read", "signup", "realm", "login", "reset"}
           /\ q.at = "read" => q.id \in Sessions /\ q.session \in SessionRows
           /\ q.at \in {"signup", "realm"} => q.user \in Users /\ q.realm \in Realms
           /\ q.at \in {"login", "reset"} => q.seen \in SeenRows
BY DEF RequestStates

\* What agrees with a row, or is older, stays so.
LEMMA CurrentStays ==
    ASSUME Tables, Tables', Grows, NEW u \in Users, NEW v \in Nat, NEW p \in Nat,
           Current(u, v, p)
    PROVE  Current(u, v, p)'
<1>1. account[u] \in UserRows /\ account'[u] \in UserRows
  BY DEF Tables, Grows, Current
<1> QED BY <1>1 DEF UserRows, Grows, Current

\* A realm a user may work in stays one.
LEMMA UsableStays ==
    ASSUME Tables, Tables', Grows, NEW u \in Users, account[u] # None, NEW n, Usable(u, n)
    PROVE  Usable(u, n)'
BY DEF Tables, Grows, Usable

\* A session that was good stays good.
LEMMA SessionStays ==
    ASSUME Tables, Tables', Grows, NEW x \in SessionRows, GoodSession(x)
    PROVE  GoodSession(x)'
<1>1. x.user \in Users /\ x.version \in Nat /\ x.password \in Nat
  BY DEF SessionRows
<1>2. Current(x.user, x.version, x.password) /\ account[x.user] # None
  BY DEF GoodSession, Current
<1>3. Current(x.user, x.version, x.password)'
  BY <1>1, <1>2, CurrentStays
<1>4. x.realm # None => Usable(x.user, x.realm)'
  BY <1>1, <1>2, UsableStays DEF GoodSession
<1> QED BY <1>3, <1>4 DEF GoodSession

\* _initial_realm_id returns a realm of the user, or none.
LEMMA InitialRealm ==
    ASSUME Tables, NEW u \in Users, NEW n \in InitialRealms(u)
    PROVE  n \in Realms \cup {None} /\ (n # None => Usable(u, n))
BY DEF Tables, InitialRealms, Usable

\* One session is written, good as the tables are after the step.
LEMMA SessionWritten ==
    ASSUME Tables, Tables', Grows, GoodSessions, NEW s \in Sessions,
           NEW x \in SessionRows \cup {None}, x # None => GoodSession(x)',
           session' = [session EXCEPT ![s] = x]
    PROVE  GoodSessions'
<1>1. session' \in [Sessions -> SessionRows \cup {None}]
  BY DEF GoodSessions
<1>2. ASSUME NEW t \in Sessions, session'[t] # None
      PROVE  GoodSession(session[t])'
  <2>1. PICK y \in SessionRows : y = session'[t]
    BY <1>1, <1>2
  <2>2. GoodSession(y)'
    <3>1. CASE t = s
      BY <3>1, <2>1, <1>2 DEF GoodSessions
    <3>2. CASE t # s
      <4>1. y = session[t] /\ session[t] # None
        BY <3>2, <2>1, <1>2 DEF GoodSessions
      <4>2. GoodSession(y)
        BY <4>1 DEF GoodSessions
      <4> QED BY <4>2, SessionStays
    <3> QED BY <3>1, <3>2
  <2> QED BY <2>1, <2>2 DEF GoodSession, Current, Usable
<1> QED BY <1>1, <1>2 DEF GoodSessions

\* A request that was good stays good, if the reset it may be is not overtaken.
LEMMA RequestStays ==
    ASSUME Tables, Tables', Grows, NEW q \in RequestStates, GoodRequest(q),
           q.at = "reset" => account'[q.seen.user].session_version
                                 = account[q.seen.user].session_version
    PROVE  GoodRequest(q)'
<1>1. ASSUME q.at = "read" PROVE GoodSession(q.session)'
  BY <1>1, RequestParts, SessionStays DEF GoodRequest
<1>2. ASSUME q.at = "login" PROVE Current(q.seen.user, q.seen.version, q.seen.password)'
  <2>1. q.seen.user \in Users /\ q.seen.version \in Nat /\ q.seen.password \in Nat
    BY <1>2, RequestParts DEF SeenRows
  <2> QED BY <1>2, <2>1, CurrentStays DEF GoodRequest
<1>3. ASSUME q.at = "reset"
      PROVE  /\ account'[q.seen.user] # None
             /\ q.seen.version = account'[q.seen.user].session_version
  <2>1. q.seen.user \in Users
    BY <1>3, RequestParts DEF SeenRows
  <2> QED BY <1>3, <2>1 DEF GoodRequest, Grows
<1>4. ASSUME q.at \in {"signup", "realm"} PROVE Current(q.user, 1, 1)'
  BY <1>4, RequestParts, CurrentStays DEF GoodRequest
<1>5. ASSUME q.at = "realm" PROVE q.realm \in realms'
  BY <1>5 DEF GoodRequest, Grows
<1> QED BY <1>1, <1>2, <1>3, <1>4, <1>5 DEF GoodRequest

\* One request moves on, to a state good as the tables are after the step.
LEMMA RequestWritten ==
    ASSUME Tables, Tables', Grows, GoodRequests, NEW r \in Requests,
           NEW x \in RequestStates, GoodRequest(x)',
           request' = [request EXCEPT ![r] = x],
           \A q \in Requests \ {r} : request[q].at = "reset" =>
               account'[request[q].seen.user].session_version
                   = account[request[q].seen.user].session_version
    PROVE  GoodRequests'
<1>1. request' \in [Requests -> RequestStates]
  BY DEF GoodRequests
<1>2. ASSUME NEW q \in Requests
      PROVE  GoodRequest(request[q])'
  <2>1. PICK y \in RequestStates : y = request'[q]
    BY <1>1
  <2>2. GoodRequest(y)'
    <3>1. CASE q = r
      BY <3>1, <2>1 DEF GoodRequests
    <3>2. CASE q # r
      <4>1. y = request[q]
        BY <3>2, <2>1 DEF GoodRequests
      <4>2. GoodRequest(y)
        BY <4>1 DEF GoodRequests
      <4>3. y.at = "reset" => account'[y.seen.user].session_version
                                  = account[y.seen.user].session_version
        BY <4>1, <3>2
      <4> QED BY <4>2, <4>3, RequestStays
    <3> QED BY <3>1, <3>2
  <2> QED BY <2>1, <2>2, Zenon DEF GoodRequest, GoodSession, Current, Usable
<1> QED BY <1>1, <1>2 DEF GoodRequests

\* Steps that leave the tables alone.
LEMMA TablesKept ==
    ASSUME Tables, UNCHANGED <<account, realms, owners>>
    PROVE  Tables' /\ Grows
<1>1. \A u \in Users : account[u] # None => account[u].session_version \in Nat
  BY DEF Tables, UserRows
<1> QED BY <1>1 DEF Tables, Grows

\* A session that is not written stays good.
LEMMA SessionsKept ==
    ASSUME Tables, Tables', Grows, GoodSessions, UNCHANGED session
    PROVE  GoodSessions'
<1>1. ASSUME NEW t \in Sessions, session'[t] # None
      PROVE  GoodSession(session[t])'
  <2>1. PICK y \in SessionRows : y = session[t]
    BY <1>1 DEF GoodSessions
  <2>2. GoodSession(y)
    BY <1>1, <2>1 DEF GoodSessions
  <2>3. GoodSession(y)'
    BY <2>2, SessionStays
  <2> QED BY <2>1, <2>3 DEF GoodSession, Current, Usable
<1> QED BY <1>1 DEF GoodSessions

\* Requests that do not move stay good, while no version changes.
LEMMA RequestsKept ==
    ASSUME Tables, Tables', Grows, GoodRequests, UNCHANGED request,
           \A q \in Requests : request[q].at = "reset" =>
               account'[request[q].seen.user].session_version
                   = account[request[q].seen.user].session_version
    PROVE  GoodRequests'
<1>1. ASSUME NEW q \in Requests
      PROVE  GoodRequest(request[q])'
  <2>1. PICK y \in RequestStates : y = request[q]
    BY DEF GoodRequests
  <2>2. GoodRequest(y)
    BY <2>1 DEF GoodRequests
  <2>3. y.at = "reset" => account'[y.seen.user].session_version
                              = account[y.seen.user].session_version
    BY <2>1
  <2>4. GoodRequest(y)'
    BY <2>2, <2>3, RequestStays
  <2> QED BY <2>1, <2>4, Zenon DEF GoodRequest, GoodSession, Current, Usable
<1> QED BY <1>1 DEF GoodRequests

\* A request that ends leaves the others as they are.
LEMMA RequestEnds ==
    ASSUME Tables, Tables', Grows, GoodRequests, OneReset, NEW r \in Requests,
           request' = [request EXCEPT ![r] = Idle],
           \A q \in Requests \ {r} : request[q].at = "reset" =>
               account'[request[q].seen.user].session_version
                   = account[request[q].seen.user].session_version
    PROVE  GoodRequests' /\ OneReset'
<1>1. Idle \in RequestStates /\ Idle.at = "idle"
  BY DEF Idle, RequestStates
<1>2. GoodRequest(Idle)'
  BY <1>1 DEF GoodRequest, Idle
<1>3. GoodRequests'
  <2>1. PICK x \in RequestStates : x = Idle
    BY <1>1
  <2>2. GoodRequest(x)'
    BY <1>1, <2>1 DEF GoodRequest
  <2>3. request' = [request EXCEPT ![r] = x]
    BY <2>1
  <2> QED BY <2>2, <2>3, RequestWritten, Zenon
<1>4. OneReset'
  BY <1>1 DEF OneReset, GoodRequests
<1> QED BY <1>3, <1>4

\* A request that goes anywhere but to a reset.
LEMMA OneResetKept ==
    ASSUME GoodRequests, OneReset, NEW r \in Requests, NEW x, x.at # "reset",
           request' = [request EXCEPT ![r] = x]
    PROVE  OneReset'
BY DEF OneReset, GoodRequests

\* Challenges are consumed, or issued for a user that exists.
LEMMA ChallengesKept ==
    ASSUME Tables, Grows, NamedChallenges,
           \/ UNCHANGED challenge
           \/ \E c \in Challenges : Consumes(c)
           \/ \E u \in Users, type \in ChallengeTypes :
                  account[u] # None /\ (Replaces(u, type) \/ Stores(u, type))
           \/ Stores(None, "webauthn_authentication")
    PROVE  NamedChallenges'
<1>1. \A u \in Users : account[u] # None => account'[u] # None
  BY DEF Grows
<1>2. CASE UNCHANGED challenge
  BY <1>1, <1>2 DEF NamedChallenges
<1>3. CASE \E c \in Challenges : Consumes(c)
  BY <1>1, <1>3 DEF NamedChallenges, Consumes
<1>4. ASSUME NEW u \in Users, NEW type \in ChallengeTypes, account[u] # None, Replaces(u, type)
      PROVE  NamedChallenges'
  BY <1>1, <1>4 DEF NamedChallenges, Replaces
<1>5. ASSUME NEW u \in Users, NEW type \in ChallengeTypes, account[u] # None, Stores(u, type)
      PROVE  NamedChallenges'
  BY <1>1, <1>5 DEF NamedChallenges, Stores
<1>6. CASE Stores(None, "webauthn_authentication")
  <2> DEFINE new == [type |-> "webauthn_authentication", user |-> None]
  <2>1. PICK c \in Challenges : challenge' = [challenge EXCEPT ![c] = new]
    BY <1>6, Zenon DEF Stores
  <2>2. new \in [type : ChallengeTypes, user : Users \cup {None}] /\ new.type = "webauthn_authentication"
    BY DEF ChallengeTypes
  <2> HIDE DEF new
  <2> QED BY <1>1, <2>1, <2>2 DEF NamedChallenges
<1> QED BY <1>2, <1>3, <1>4, <1>5, <1>6

\* Passkeys that no step touches.
LEMMA PasskeysKept ==
    ASSUME Tables, Grows, NamedPasskeys, UNCHANGED passkey
    PROVE  NamedPasskeys'
BY DEF NamedPasskeys, Grows

---------------------------------------------------------------------------
(* The steps. *)

\* get_session_user writes back the session it read, with a realm of the user.
LEMMA SessionRewritten ==
    ASSUME AccountsInv, NEW r \in Requests, Accepted(r), UNCHANGED <<account, realms, owners>>,
           NEW n \in Realms \cup {None}, n # None => Usable(Caller(r), n),
           session' = [session EXCEPT ![request[r].id] = [request[r].session EXCEPT !.realm = n]],
           request' = [request EXCEPT ![r] = Idle]
    PROVE  /\ GoodSessions' /\ GoodRequests' /\ OneReset'
           /\ Caller(r) \in Users /\ account[Caller(r)] # None
<1>1. Tables' /\ Grows
  BY TablesKept DEF AccountsInv
<1>2. /\ request[r].id \in Sessions /\ request[r].session \in SessionRows
      /\ GoodSession(request[r].session)
  BY RequestParts DEF AccountsInv, GoodRequests, GoodRequest, Accepted
<1>3. PICK x \in SessionRows : x = [request[r].session EXCEPT !.realm = n]
  BY <1>2 DEF SessionRows
<1>4. /\ x.user = request[r].session.user /\ x.version = request[r].session.version
      /\ x.password = request[r].session.password /\ x.realm = n
  BY <1>2, <1>3 DEF SessionRows
<1>5. GoodSession(x)
  BY <1>2, <1>4 DEF GoodSession, Caller
<1>6. GoodSession(x)'
  BY <1>1, <1>5, SessionStays DEF AccountsInv
<1>7. GoodSessions'
  BY <1>1, <1>2, <1>3, <1>6, SessionWritten, Zenon DEF AccountsInv
<1>8. GoodRequests' /\ OneReset'
  BY <1>1, RequestEnds, Zenon DEF AccountsInv
<1>9. Caller(r) \in Users /\ account[Caller(r)] # None
  BY <1>2 DEF Caller, SessionRows, GoodSession, Current
<1> QED BY <1>7, <1>8, <1>9

\* A request accepted with its session.
LEMMA Refreshed ==
    ASSUME AccountsInv, NEW r \in Requests, Refreshes(r), UNCHANGED <<account, realms, owners>>
    PROVE  /\ GoodSessions' /\ GoodRequests' /\ OneReset'
           /\ Caller(r) \in Users /\ account[Caller(r)] # None
<1>1. /\ request[r].session \in SessionRows /\ GoodSession(request[r].session)
  BY RequestParts, Zenon DEF AccountsInv, GoodRequests, GoodRequest, Refreshes, Accepted
<1>2. Caller(r) \in Users
  BY <1>1 DEF Caller, SessionRows
<1>3. PICK n \in IF request[r].session.realm = None THEN InitialRealms(Caller(r))
                 ELSE {request[r].session.realm} :
          session' = [session EXCEPT ![request[r].id] = [request[r].session EXCEPT !.realm = n]]
  BY Zenon DEF Refreshes
<1>4. n \in Realms \cup {None} /\ (n # None => Usable(Caller(r), n))
  <2>1. CASE request[r].session.realm = None
    BY <1>2, <1>3, <2>1, InitialRealm DEF AccountsInv
  <2>2. CASE request[r].session.realm # None
    BY <1>1, <1>3, <2>2, Zenon DEF SessionRows, GoodSession, Caller
  <2> QED BY <2>1, <2>2
<1> QED BY <1>3, <1>4, SessionRewritten, Zenon DEF Refreshes

\* A login, a sign-up or a reset that sees the row of a user.
LEMMA SeenIsCurrent ==
    ASSUME Tables, NEW u \in Users, account[u] # None
    PROVE  /\ Seen(u) \in SeenRows /\ Seen(u).user = u
           /\ Seen(u).version = account[u].session_version
           /\ Current(u, Seen(u).version, Seen(u).password)
<1>1. account[u] \in UserRows
  BY DEF Tables
<1> QED BY <1>1 DEF Seen, SeenRows, Current, UserRows

\* A login that has read the row of a user.
LEMMA LoginBegins ==
    ASSUME AccountsInv, NEW r \in Requests, NEW u \in Users, account[u] # None,
           UNCHANGED <<account, realms, owners>>,
           request' = [request EXCEPT ![r] = [at |-> "login", seen |-> Seen(u)]]
    PROVE  GoodRequests' /\ OneReset'
<1>1. Tables' /\ Grows
  BY TablesKept DEF AccountsInv
<1>2. Seen(u) \in SeenRows /\ Seen(u).user = u /\ Current(u, Seen(u).version, Seen(u).password)
  BY SeenIsCurrent DEF AccountsInv
<1>3. PICK x \in RequestStates : x = [at |-> "login", seen |-> Seen(u)]
  BY <1>2, Zenon DEF RequestStates
<1>4. x.at = "login" /\ x.seen = Seen(u)
  BY <1>3
<1>5. GoodRequest(x)
  BY <1>2, <1>4 DEF GoodRequest
<1>6. GoodRequest(x)'
  BY <1>1, <1>4, <1>5, RequestStays DEF AccountsInv
<1>7. GoodRequests'
  BY <1>1, <1>3, <1>6, RequestWritten, Zenon DEF AccountsInv
<1>8. OneReset'
  BY <1>3, <1>4, OneResetKept, Zenon DEF AccountsInv
<1> QED BY <1>7, <1>8

\* The steps of requests that carry a session.
LEMMA WithSessionKeeps ==
    ASSUME AccountsInv, NEW r \in Requests, WithSession(r)
    PROVE  AccountsInv'
<1> USE DEF AccountsInv
<1>1. UNCHANGED <<account, realms, owners>>
  BY Zenon DEF WithSession, RequestReads, RequestRefused, Me, RequestEmailVerification, ActivateRealm,
         SetupTotp, VerifyTotp, DisableTotp, RegisterOptions, DeletePasskey, RegisterVerify
<1>2. Tables' /\ Grows
  BY <1>1, TablesKept
<1>3. ASSUME NEW s \in Sessions, RequestReads(r, s)
      PROVE  AccountsInv'
  <2>1. session[s] \in SessionRows /\ GoodSession(session[s])
    BY <1>3 DEF RequestReads, GoodSessions
  <2>2. PICK x \in RequestStates : x = [at |-> "read", id |-> s, session |-> session[s]]
    BY <2>1, Zenon DEF RequestStates
  <2>3. x.at = "read" /\ x.session = session[s]
    BY <2>2
  <2>4. GoodRequest(x)
    BY <2>1, <2>3 DEF GoodRequest
  <2>5. GoodRequest(x)'
    BY <1>2, <2>3, <2>4, RequestStays
  <2>6. request' = [request EXCEPT ![r] = x] /\ UNCHANGED <<session, challenge, passkey>>
    BY <1>3, <2>2 DEF RequestReads, factors
  <2>7. GoodRequests'
    BY <1>1, <1>2, <2>5, <2>6, RequestWritten, Zenon
  <2>8. OneReset'
    BY <2>3, <2>6, OneResetKept, Zenon
  <2> QED BY <1>2, <2>6, <2>7, <2>8, SessionsKept, ChallengesKept, PasskeysKept
<1>4. CASE RequestRefused(r)
  <2>1. request[r].id \in Sessions
    BY <1>4, RequestParts DEF RequestRefused, GoodRequests
  <2>2. UNCHANGED <<challenge, passkey>>
    BY <1>4 DEF RequestRefused, factors
  <2>3. GoodSessions'
    BY <1>2, <1>4, <2>1, SessionWritten, Zenon DEF RequestRefused
  <2>4. GoodRequests' /\ OneReset'
    BY <1>1, <1>2, <1>4, RequestEnds, Zenon DEF RequestRefused
  <2> QED BY <1>2, <2>2, <2>3, <2>4, ChallengesKept, PasskeysKept, Zenon
<1>5. ASSUME NEW n \in Realms, ActivateRealm(r, n)
      PROVE  AccountsInv'
  <2>1. Usable(Caller(r), n) /\ UNCHANGED <<challenge, passkey>>
    BY <1>5 DEF ActivateRealm, Activatable, Usable, factors
  <2>2. GoodSessions' /\ GoodRequests' /\ OneReset'
    BY <1>1, <1>5, <2>1, SessionRewritten, Zenon DEF ActivateRealm
  <2> QED BY <1>2, <2>1, <2>2, ChallengesKept, PasskeysKept, Zenon
<1>6. ASSUME Refreshes(r), UNCHANGED <<challenge, passkey>>
      PROVE  AccountsInv'
  <2>1. GoodSessions' /\ GoodRequests' /\ OneReset'
    BY <1>1, <1>6, Refreshed
  <2> QED BY <1>2, <1>6, <2>1, ChallengesKept, PasskeysKept
<1>7. CASE RequestEmailVerification(r)
  <2>1. /\ GoodSessions' /\ GoodRequests' /\ OneReset'
        /\ Caller(r) \in Users /\ account[Caller(r)] # None
    BY <1>1, <1>7, Refreshed DEF RequestEmailVerification
  <2>2. Replaces(Caller(r), "email_verification") /\ UNCHANGED passkey
    BY <1>7 DEF RequestEmailVerification, factors
  <2>3. NamedChallenges'
    BY <1>2, <2>1, <2>2, ChallengesKept DEF ChallengeTypes
  <2> QED BY <1>2, <2>1, <2>2, <2>3, PasskeysKept
<1>8. CASE RegisterOptions(r)
  <2>1. /\ GoodSessions' /\ GoodRequests' /\ OneReset'
        /\ Caller(r) \in Users /\ account[Caller(r)] # None
    BY <1>1, <1>8, Refreshed DEF RegisterOptions
  <2>2. Stores(Caller(r), "webauthn_registration") /\ UNCHANGED passkey
    BY <1>8 DEF RegisterOptions, factors
  <2>3. NamedChallenges'
    BY <1>2, <2>1, <2>2, ChallengesKept DEF ChallengeTypes
  <2> QED BY <1>2, <2>1, <2>2, <2>3, PasskeysKept
<1>9. ASSUME NEW k \in Passkeys, NEW c \in Challenges, RegisterVerify(r, c, k)
      PROVE  AccountsInv'
  <2>1. /\ GoodSessions' /\ GoodRequests' /\ OneReset'
        /\ Caller(r) \in Users /\ account[Caller(r)] # None
    BY <1>1, <1>9, Refreshed, Zenon DEF RegisterVerify
  <2>2. Consumes(c) /\ passkey' = [passkey EXCEPT ![k] = Caller(r)]
    BY <1>9 DEF RegisterVerify
  <2>3. NamedChallenges'
    BY <1>2, <2>2, ChallengesKept, Zenon
  <2>4. NamedPasskeys'
    BY <1>1, <2>1, <2>2, Zenon DEF NamedPasskeys
  <2> QED BY <1>2, <2>1, <2>3, <2>4
<1>10. ASSUME NEW k \in Passkeys, DeletePasskey(r, k)
       PROVE  AccountsInv'
  <2>1. GoodSessions' /\ GoodRequests' /\ OneReset'
    BY <1>1, <1>10, Refreshed DEF DeletePasskey
  <2>2. UNCHANGED challenge /\ passkey' = [passkey EXCEPT ![k] = None]
    BY <1>10 DEF DeletePasskey
  <2>3. NamedPasskeys'
    BY <1>1, <2>2, Zenon DEF NamedPasskeys
  <2> QED BY <1>2, <2>1, <2>2, <2>3, ChallengesKept, Zenon
<1>11. CASE Me(r) \/ SetupTotp(r) \/ VerifyTotp(r) \/ DisableTotp(r)
  BY <1>6, <1>11, Zenon DEF Me, SetupTotp, VerifyTotp, DisableTotp, factors
<1> HIDE DEF AccountsInv
<1> QED BY <1>3, <1>4, <1>5, <1>7, <1>8, <1>9, <1>10, <1>11 DEF WithSession

\* A user signs up.
LEMMA SignupBeginsKeeps ==
    ASSUME AccountsInv, NEW r \in Requests, NEW u \in Users, SignupBegins(r, u)
    PROVE  AccountsInv'
<1> USE DEF AccountsInv
<1>1. PICK new \in UserRows :
          /\ new.session_version = 1 /\ new.password = 1
          /\ account' = [account EXCEPT ![u] = new]
  <2>1. NewUser(FALSE) \in UserRows /\ NewUser(FALSE).session_version = 1
        /\ NewUser(FALSE).password = 1
    BY DEF NewUser, UserRows
  <2> QED BY <2>1, Zenon DEF SignupBegins
<1>2. account[u] = None /\ UNCHANGED <<realms, owners, passkey, challenge, session>>
  BY Zenon DEF SignupBegins, factors
<1>3. Tables'
  BY <1>1, <1>2 DEF Tables
<1>4. Grows
  <2>1. \A v \in Users : account[v] # None =>
            account'[v] = account[v] /\ account[v].session_version \in Nat
    BY <1>1, <1>2 DEF Tables, UserRows
  <2> QED BY <1>2, <2>1 DEF Grows
<1>5. PICK n \in Realms : request' = [request EXCEPT ![r] = [at |-> "signup", user |-> u, realm |-> n]]
  BY Zenon DEF SignupBegins
<1>6. PICK x \in RequestStates : x = [at |-> "signup", user |-> u, realm |-> n]
  BY Zenon DEF RequestStates
<1>7. x.at = "signup" /\ x.user = u
  BY <1>6
<1>8. Current(u, 1, 1)'
  <2>1. account'[u] = new
    BY <1>1 DEF Tables
  <2> QED BY <1>1, <2>1, NoneIsNoRow DEF Current
<1>9. GoodRequest(x)'
  BY <1>7, <1>8, Zenon DEF GoodRequest
<1>10. ASSUME NEW q \in Requests, request[q].at = "reset"
       PROVE  account'[request[q].seen.user].session_version
                  = account[request[q].seen.user].session_version
  <2>1. request[q].seen.user # u
    BY <1>2, <1>10, Zenon DEF GoodRequests, GoodRequest
  <2> QED BY <1>1, <2>1 DEF Tables
<1>11. GoodRequests'
  BY <1>3, <1>4, <1>5, <1>6, <1>9, <1>10, RequestWritten, Zenon
<1>12. OneReset'
  BY <1>5, <1>6, <1>7, OneResetKept, Zenon
<1> QED BY <1>2, <1>3, <1>4, <1>11, <1>12, SessionsKept, ChallengesKept, PasskeysKept

\* Its realm is created, or the sign-up fails.
LEMMA SignupCreatesRealmKeeps ==
    ASSUME AccountsInv, NEW r \in Requests, SignupCreatesRealm(r)
    PROVE  AccountsInv'
<1> USE DEF AccountsInv
<1>1. UNCHANGED <<account, owners, passkey, challenge, session>>
  BY DEF SignupCreatesRealm, factors
<1>2. request[r].at = "signup" /\ request[r].user \in Users /\ request[r].realm \in Realms
  BY RequestParts DEF SignupCreatesRealm, GoodRequests
<1>3. CASE request' = [request EXCEPT ![r].at = "realm"]
           /\ realms' = realms \cup {request[r].realm}
  <2>1. Tables' /\ Grows
    <3>1. \A u \in Users : account[u] # None => account[u].session_version \in Nat
      BY DEF Tables, UserRows
    <3> QED BY <1>1, <1>2, <1>3, <3>1 DEF Tables, Grows
  <2>2. PICK x \in RequestStates :
            x = [at |-> "realm", user |-> request[r].user, realm |-> request[r].realm]
    BY <1>2, Zenon DEF RequestStates
  <2>3. x.at = "realm" /\ x.user = request[r].user /\ x.realm = request[r].realm
    BY <2>2
  <2>4. request' = [request EXCEPT ![r] = x]
    <3>1. request[r] \in [at : {"signup", "realm"}, user : Users, realm : Realms]
      BY <1>2 DEF GoodRequests, RequestStates
    <3>2. [request[r] EXCEPT !.at = "realm"] = x
      BY <3>1, <2>2
    <3> QED BY <1>3, <3>2, Zenon
  <2>5. Current(x.user, 1, 1)'
    <3>1. Current(x.user, 1, 1)
      BY <1>2, <2>3, Zenon DEF GoodRequests, GoodRequest
    <3> QED BY <1>2, <2>1, <2>3, <3>1, CurrentStays
  <2>6. GoodRequest(x)'
    BY <1>3, <2>3, <2>5 DEF GoodRequest
  <2>7. GoodRequests'
    BY <1>1, <2>1, <2>4, <2>6, RequestWritten, Zenon
  <2>8. OneReset'
    BY <2>3, <2>4, OneResetKept, Zenon
  <2> QED BY <1>1, <2>1, <2>7, <2>8, SessionsKept, ChallengesKept, PasskeysKept, Zenon
<1>4. CASE request' = [request EXCEPT ![r] = Idle] /\ UNCHANGED realms
  <2>1. Tables' /\ Grows
    BY <1>1, <1>4, TablesKept
  <2>2. GoodRequests' /\ OneReset'
    BY <1>1, <1>4, <2>1, RequestEnds, Zenon
  <2> QED BY <1>1, <2>1, <2>2, SessionsKept, ChallengesKept, PasskeysKept
<1> QED BY <1>3, <1>4 DEF SignupCreatesRealm

\* The user becomes an owner and gets a session.
LEMMA SignupEndsKeeps ==
    ASSUME AccountsInv, NEW r \in Requests, SignupEnds(r)
    PROVE  AccountsInv'
<1> USE DEF AccountsInv
<1> DEFINE u == request[r].user
           n == request[r].realm
<1>1. /\ owners' = [owners EXCEPT ![n] = @ \cup {u}]
      /\ UNCHANGED <<account, realms, passkey>>
      /\ Replaces(u, "email_verification")
      /\ request' = [request EXCEPT ![r] = Idle]
  BY Zenon DEF SignupEnds, factors
<1>2. request[r].at = "realm" /\ u \in Users /\ n \in Realms
  BY RequestParts, Zenon DEF SignupEnds, GoodRequests
<1>3. Current(u, 1, 1) /\ n \in realms
  BY <1>2, Zenon DEF GoodRequests, GoodRequest
<1>4. Tables' /\ Grows
  <2>1. \A v \in Users : account[v] # None => account[v].session_version \in Nat
    BY DEF Tables, UserRows
  <2> QED BY <1>1, <1>2, <2>1 DEF Tables, Grows
<1>5. PICK s \in Sessions :
          session' = [session EXCEPT ![s] = [user |-> u, version |-> 1, password |-> 1, realm |-> n]]
  BY Zenon DEF SignupEnds
<1>6. PICK x \in SessionRows : x = [user |-> u, version |-> 1, password |-> 1, realm |-> n]
  BY <1>2, Zenon DEF SessionRows
<1>7. x.user = u /\ x.version = 1 /\ x.password = 1 /\ x.realm = n
  BY <1>6
<1>8. GoodSession(x)'
  <2>1. Current(x.user, x.version, x.password)'
    <3>1. x.user \in Users /\ Current(x.user, x.version, x.password)
      BY <1>2, <1>3, <1>7
    <3> QED BY <1>4, <1>7, <3>1, CurrentStays
  <2>2. Usable(x.user, x.realm)'
    BY <1>1, <1>2, <1>3, <1>7, Zenon DEF Usable, Tables
  <2> QED BY <2>1, <2>2 DEF GoodSession
<1>9. GoodSessions'
  BY <1>4, <1>5, <1>6, <1>8, SessionWritten, Zenon
<1>10. GoodRequests' /\ OneReset'
  BY <1>1, <1>4, RequestEnds, Zenon
<1>11. NamedChallenges'
  <2>1. account[u] # None /\ "email_verification" \in ChallengeTypes
    BY <1>3, Zenon DEF Current, ChallengeTypes
  <2> QED BY <1>1, <1>2, <1>4, <2>1, ChallengesKept, Zenon
<1> QED BY <1>1, <1>4, <1>9, <1>10, <1>11, PasskeysKept

\* A reset link is opened: the row that is read is the row as it is, and no
\* other reset of the account is under way.
LEMMA ResetReadsKeeps ==
    ASSUME AccountsInv, NEW r \in Requests, NEW c \in Challenges, ResetReads(r, c)
    PROVE  AccountsInv'
<1> USE DEF AccountsInv
<1>1. Consumes(c) /\ UNCHANGED <<account, realms, owners, passkey, session>>
  BY Zenon DEF ResetReads, factors
<1>2. Tables' /\ Grows
  BY <1>1, TablesKept
<1>3. PICK u \in Users : u = challenge[c].user /\ account[u] # None
  BY Zenon DEF ResetReads, Is, NamedChallenges
<1>4. /\ Seen(u) \in SeenRows /\ Seen(u).user = u
      /\ Seen(u).version = account[u].session_version
  BY <1>3, SeenIsCurrent, Zenon
<1>5. PICK x \in RequestStates : x = [at |-> "reset", seen |-> Seen(u)]
  BY <1>4, Zenon DEF RequestStates
<1>6. x.at = "reset" /\ x.seen = Seen(u)
  BY <1>5
<1>7. request' = [request EXCEPT ![r] = x]
  BY <1>3, <1>5, Zenon DEF ResetReads
<1>8. GoodRequest(x)'
  BY <1>1, <1>3, <1>4, <1>6, Zenon DEF GoodRequest
<1>9. GoodRequests'
  BY <1>1, <1>2, <1>7, <1>8, RequestWritten, Zenon
<1>10. OneReset'
  <2>1. \A q \in Requests : request[q].at = "reset" => request[q].seen.user # u
    BY <1>3, Zenon DEF ResetReads
  <2>2. \A q \in Requests : q # r => request'[q] = request[q]
    BY <1>7 DEF GoodRequests
  <2>3. request'[r].seen.user = u
    BY <1>4, <1>6, <1>7 DEF GoodRequests
  <2> QED BY <2>1, <2>2, <2>3, Zenon DEF OneReset
<1> QED BY <1>1, <1>2, <1>9, <1>10, SessionsKept, ChallengesKept, PasskeysKept, Zenon

\* What reset_password makes of a row.
LEMMA RowReset ==
    ASSUME NEW row \in UserRows, NEW v \in Nat
    PROVE  LET w == [row EXCEPT !.password = @ + 1, !.session_version = v + 1]
           IN w \in UserRows /\ w.is_superuser = row.is_superuser /\ w.session_version = v + 1
<1> DEFINE w == [row EXCEPT !.password = @ + 1, !.session_version = v + 1]
<1>1. w.password \in Nat /\ w.session_version \in Nat
  BY DEF UserRows
<1>2. w.is_superuser = row.is_superuser /\ w.email_verified = row.email_verified
  BY DEF UserRows
<1>3. w = [f \in {"password", "session_version", "is_superuser", "email_verified"} |-> w[f]]
  BY Zenon DEF UserRows
<1>4. w \in UserRows
  BY <1>1, <1>2, <1>3, Zenon DEF UserRows
<1>5. w.session_version = v + 1
  BY DEF UserRows
<1> QED BY <1>2, <1>4, <1>5

\* A reset saves a version that no session and no request has seen.
LEMMA ResetSavesKeeps ==
    ASSUME AccountsInv, NEW r \in Requests, ResetSaves(r)
    PROVE  AccountsInv'
<1> USE DEF AccountsInv
<1> DEFINE u == request[r].seen.user
<1>1. /\ UNCHANGED <<realms, owners, passkey, challenge, session>>
      /\ request' = [request EXCEPT ![r] = Idle]
  BY Zenon DEF ResetSaves, factors
<1>2. /\ u \in Users /\ account[u] \in UserRows
      /\ request[r].seen.version = account[u].session_version
  BY RequestParts DEF ResetSaves, GoodRequests, GoodRequest, SeenRows, Tables
<1>3. PICK new \in UserRows :
          /\ account' = [account EXCEPT ![u] = new]
          /\ new.is_superuser = account[u].is_superuser
          /\ new.session_version = account[u].session_version + 1
  <2> DEFINE w == [account[u] EXCEPT !.password = @ + 1,
                                     !.session_version = request[r].seen.version + 1]
  <2>1. w \in UserRows /\ w.is_superuser = account[u].is_superuser
        /\ w.session_version = account[u].session_version + 1
    BY <1>2, RowReset, Zenon DEF UserRows
  <2>2. account' = [account EXCEPT ![u] = w]
    BY <1>2, Zenon DEF ResetSaves, Tables
  <2> HIDE DEF w
  <2> QED BY <2>1, <2>2, Zenon
<1>4. Tables'
  BY <1>1, <1>2, <1>3, Zenon DEF Tables
<1>5. account'[u] = new /\ \A v \in Users \ {u} : account'[v] = account[v]
  BY <1>2, <1>3, Zenon DEF Tables
<1>6. Grows
  <2>1. \A v \in Users : account[v] # None => account[v].session_version \in Nat
    BY DEF Tables, UserRows
  <2>2. new # None
    BY NoneIsNoRow
  <2>3. ASSUME NEW v \in Users, account[v] # None
        PROVE  /\ account'[v] # None
               /\ account[v].is_superuser => account'[v].is_superuser
               /\ account[v].session_version <= account'[v].session_version
               /\ account[v].session_version = account'[v].session_version
                      => account[v].password = account'[v].password
    <3>1. CASE v = u
      BY <1>3, <1>5, <2>1, <2>2, <2>3, <3>1
    <3>2. CASE v # u
      BY <1>5, <2>1, <2>3, <3>2
    <3> QED BY <3>1, <3>2, Zenon
  <2> QED BY <1>1, <2>3, Zenon DEF Grows
<1>7. ASSUME NEW q \in Requests \ {r}, request[q].at = "reset"
      PROVE  account'[request[q].seen.user].session_version
                 = account[request[q].seen.user].session_version
  <2>1. request[q].seen.user \in Users
    BY <1>7, RequestParts, Zenon DEF GoodRequests, SeenRows
  <2>2. request[q].seen.user # u
    BY <1>7, Zenon DEF OneReset, ResetSaves
  <2> QED BY <1>5, <2>1, <2>2, Zenon
<1>8. GoodRequests' /\ OneReset'
  BY <1>1, <1>4, <1>6, <1>7, RequestEnds, Zenon
<1> QED BY <1>1, <1>4, <1>6, <1>8, SessionsKept, ChallengesKept, PasskeysKept, Zenon

\* A login opens a session for the row it read.
LEMMA LoginOpensKeeps ==
    ASSUME AccountsInv, NEW r \in Requests, LoginOpens(r)
    PROVE  AccountsInv'
<1> USE DEF AccountsInv
<1>1. /\ UNCHANGED <<account, realms, owners, passkey, challenge>>
      /\ request' = [request EXCEPT ![r] = Idle]
  BY DEF LoginOpens, factors
<1>2. Tables' /\ Grows
  BY <1>1, TablesKept
<1>3. PICK y \in SeenRows : y = request[r].seen /\ Current(y.user, y.version, y.password)
  BY RequestParts, Zenon DEF LoginOpens, GoodRequests, GoodRequest
<1>4. y.user \in Users /\ y.version \in Nat /\ y.password \in Nat
  BY DEF SeenRows
<1>5. PICK s \in Sessions, n \in InitialRealms(y.user) :
          session' = [session EXCEPT ![s] = [user |-> y.user, version |-> y.version,
                                             password |-> y.password, realm |-> n]]
  BY <1>3, Zenon DEF LoginOpens, Opens
<1>6. n \in Realms \cup {None} /\ (n # None => Usable(y.user, n))
  BY <1>4, InitialRealm
<1>7. PICK x \in SessionRows : x = [user |-> y.user, version |-> y.version,
                                    password |-> y.password, realm |-> n]
  BY <1>4, <1>6, Zenon DEF SessionRows
<1>8. x.user = y.user /\ x.version = y.version /\ x.password = y.password /\ x.realm = n
  BY <1>7
<1>9. GoodSession(x)
  BY <1>3, <1>6, <1>8, Zenon DEF GoodSession
<1>10. GoodSession(x)'
  BY <1>2, <1>9, SessionStays
<1>11. GoodSessions'
  BY <1>2, <1>5, <1>7, <1>10, SessionWritten, Zenon
<1>12. GoodRequests' /\ OneReset'
  BY <1>1, <1>2, RequestEnds, Zenon
<1> QED BY <1>1, <1>2, <1>11, <1>12, ChallengesKept, PasskeysKept, Zenon

\* The steps of requests without a session.
LEMMA WithoutSessionKeeps ==
    ASSUME AccountsInv, NEW r \in Requests, WithoutSession(r)
    PROVE  AccountsInv'
<1>1. CASE RequestStops(r) \/ RequestDropped(r)
  <2>1. /\ UNCHANGED <<account, realms, owners, passkey, challenge, session>>
        /\ request' = [request EXCEPT ![r] = Idle]
    BY <1>1, Zenon DEF RequestStops, RequestDropped, factors
  <2>2. Tables' /\ Grows
    BY <2>1, TablesKept DEF AccountsInv
  <2>3. GoodRequests' /\ OneReset'
    BY <2>1, <2>2, RequestEnds, Zenon DEF AccountsInv
  <2> QED BY <2>1, <2>2, <2>3, SessionsKept, ChallengesKept, PasskeysKept, Zenon DEF AccountsInv
<1>2. ASSUME UNCHANGED <<account, realms, owners, passkey, session>>,
             UNCHANGED challenge \/ \E c \in Challenges : Consumes(c),
             \/ UNCHANGED request
             \/ \E u \in Users :
                    /\ account[u] # None
                    /\ request' = [request EXCEPT ![r] = [at |-> "login", seen |-> Seen(u)]]
      PROVE  AccountsInv'
  <2>1. Tables' /\ Grows
    BY <1>2, TablesKept, Zenon DEF AccountsInv
  <2>2. GoodSessions' /\ NamedChallenges' /\ NamedPasskeys'
    BY <1>2, <2>1, SessionsKept, ChallengesKept, PasskeysKept, Zenon DEF AccountsInv
  <2>3. GoodRequests' /\ OneReset'
    <3>1. CASE UNCHANGED request
      BY <1>2, <2>1, <3>1, RequestsKept, Zenon DEF AccountsInv, OneReset
    <3>2. CASE ~UNCHANGED request
      BY <1>2, <3>2, LoginBegins, Zenon
    <3> QED BY <3>1, <3>2
  <2> QED BY <2>1, <2>2, <2>3 DEF AccountsInv
<1>3. ASSUME NEW u \in Users, LoginReads(r, u)
      PROVE  AccountsInv'
  BY <1>2, <1>3, Zenon DEF LoginReads, factors
<1>4. ASSUME NEW c \in Challenges, VerifyLoginChallenge(r, c)
      PROVE  AccountsInv'
  <2>1. challenge[c].user \in Users /\ account[challenge[c].user] # None
    BY <1>4, Zenon DEF VerifyLoginChallenge, Is, AccountsInv, NamedChallenges
  <2>2. /\ UNCHANGED <<account, realms, owners, passkey, session>> /\ Consumes(c)
        /\ \/ UNCHANGED request
           \/ request' = [request EXCEPT ![r] = [at |-> "login", seen |-> Seen(challenge[c].user)]]
    BY <1>4, Zenon DEF VerifyLoginChallenge
  <2> QED BY <1>2, <2>1, <2>2, Zenon
<1>5. ASSUME NEW c \in Challenges, NEW k \in Passkeys, AuthenticateVerify(r, c, k)
      PROVE  AccountsInv'
  <2>1. passkey[k] \in Users /\ account[passkey[k]] # None
    BY <1>5, Zenon DEF AuthenticateVerify, AccountsInv, NamedPasskeys
  <2> QED BY <1>2, <1>5, <2>1, Zenon DEF AuthenticateVerify, factors
<1> QED
  BY <1>1, <1>3, <1>4, <1>5, SignupBeginsKeeps, SignupCreatesRealmKeeps, SignupEndsKeeps,
     ResetReadsKeeps, ResetSavesKeeps, LoginOpensKeeps, Zenon DEF WithoutSession

\* A row changes and keeps its password and its version, or is new.
LEMMA RowKeeps ==
    ASSUME AccountsInv, NEW u \in Users, NEW new \in UserRows,
           account' = [account EXCEPT ![u] = new],
           account[u] # None => /\ new.password = account[u].password
                                /\ new.session_version = account[u].session_version
                                /\ account[u].is_superuser => new.is_superuser,
           realms \subseteq realms', realms' \subseteq Realms,
           UNCHANGED <<owners, passkey, session, request>>,
           UNCHANGED challenge \/ \E c \in Challenges : Consumes(c)
    PROVE  AccountsInv'
<1> USE DEF AccountsInv
<1>1. Tables'
  BY Zenon DEF Tables
<1>2. account'[u] = new /\ \A v \in Users \ {u} : account'[v] = account[v]
  BY DEF Tables
<1>3. \A v \in Users : account[v] # None => account[v].session_version \in Nat
  BY Zenon DEF Tables, UserRows
<1>4. ASSUME NEW v \in Users, account[v] # None
      PROVE  /\ account'[v] # None
             /\ account[v].is_superuser => account'[v].is_superuser
             /\ account[v].session_version = account'[v].session_version
             /\ account[v].password = account'[v].password
  <2>1. CASE v = u
    BY <1>2, <1>4, <2>1, NoneIsNoRow, Zenon
  <2>2. CASE v # u
    BY <1>2, <1>4, <2>2, Zenon
  <2> QED BY <2>1, <2>2, Zenon
<1>5. Grows
  BY <1>3, <1>4 DEF Grows
<1>6. GoodSessions' /\ NamedChallenges' /\ NamedPasskeys'
  BY <1>1, <1>5, SessionsKept, ChallengesKept, PasskeysKept, Zenon
<1>7. ASSUME NEW q \in Requests, request[q].at = "reset"
      PROVE  account'[request[q].seen.user].session_version
                 = account[request[q].seen.user].session_version
  <2>1. request[q].seen.user \in Users /\ account[request[q].seen.user] # None
    BY <1>7, RequestParts, Zenon DEF GoodRequests, GoodRequest, SeenRows
  <2> QED BY <1>4, <2>1, Zenon
<1>8. GoodRequests' /\ OneReset'
  BY <1>1, <1>5, <1>7, RequestsKept, Zenon DEF OneReset
<1> QED BY <1>1, <1>6, <1>8, Zenon

\* create_superuser.
LEMMA CreateSuperuserKeeps ==
    ASSUME AccountsInv, NEW u \in Users, CreateSuperuser(u)
    PROVE  AccountsInv'
<1>1. UNCHANGED <<owners, passkey, challenge, session, request>>
  BY DEF CreateSuperuser, factors
<1>2. realms \subseteq realms' /\ realms' \subseteq Realms
  BY DEF CreateSuperuser, AccountsInv, Tables
<1>3. CASE account[u] = None
  <2>1. PICK new \in UserRows : new = NewUser(TRUE)
    BY Zenon DEF NewUser, UserRows
  <2>2. account' = [account EXCEPT ![u] = new]
    BY <1>3, <2>1 DEF CreateSuperuser
  <2> QED BY <1>1, <1>2, <1>3, <2>2, RowKeeps, Zenon
<1>4. CASE account[u] # None
  <2>1. account[u] \in UserRows
    BY <1>4 DEF AccountsInv, Tables
  <2>2. PICK new \in UserRows : new = [account[u] EXCEPT !.is_superuser = TRUE]
    BY <2>1, Zenon DEF UserRows
  <2>3. /\ new.password = account[u].password
        /\ new.session_version = account[u].session_version /\ new.is_superuser
    BY <2>1, <2>2 DEF UserRows
  <2>4. account' = [account EXCEPT ![u] = new]
    BY <1>4, <2>2 DEF CreateSuperuser
  <2> QED BY <1>1, <1>2, <2>3, <2>4, RowKeeps, Zenon
<1> QED BY <1>3, <1>4

\* A verification link is opened.
LEMMA ConfirmEmailVerificationKeeps ==
    ASSUME AccountsInv, NEW c \in Challenges, ConfirmEmailVerification(c)
    PROVE  AccountsInv'
<1>1. UNCHANGED <<realms, owners, passkey, session, request>> /\ Consumes(c)
  BY DEF ConfirmEmailVerification, factors
<1>2. PICK u \in Users : u = challenge[c].user /\ account[u] \in UserRows
  BY DEF ConfirmEmailVerification, Is, AccountsInv, NamedChallenges, Tables
<1>3. PICK new \in UserRows : new = [account[u] EXCEPT !.email_verified = TRUE]
  BY <1>2, Zenon DEF UserRows
<1>4. /\ new.password = account[u].password
      /\ new.session_version = account[u].session_version
      /\ new.is_superuser = account[u].is_superuser
  BY <1>2, <1>3 DEF UserRows
<1>5. account' = [account EXCEPT ![u] = new]
  BY <1>2, <1>3 DEF ConfirmEmailVerification
<1>6. realms' \subseteq Realms
  BY <1>1 DEF AccountsInv, Tables
<1> QED BY <1>1, <1>4, <1>5, <1>6, RowKeeps, Zenon

\* AccountsInv holds before the first account.
LEMMA AccountsInvInitially == Init => AccountsInv
<1> SUFFICES ASSUME Init PROVE AccountsInv
  OBVIOUS
<1>1. Tables /\ GoodSessions /\ NamedChallenges /\ NamedPasskeys
  BY Zenon DEF Init, Tables, GoodSessions, NamedChallenges, NamedPasskeys
<1>2. Idle \in RequestStates /\ Idle.at = "idle"
  BY Zenon DEF Idle, RequestStates
<1>3. GoodRequests /\ OneReset
  BY <1>2, Zenon DEF Init, GoodRequests, GoodRequest, OneReset
<1> QED BY <1>1, <1>3 DEF AccountsInv

\* Every step keeps AccountsInv.
LEMMA AccountsInvIsInductive == AccountsInv /\ [Next]_vars => AccountsInv'
<1> SUFFICES ASSUME AccountsInv, [Next]_vars PROVE AccountsInv'
  OBVIOUS
<1>1. ASSUME UNCHANGED <<account, realms, owners, passkey, request>>,
             UNCHANGED session \/ \E s \in Sessions : session' = [session EXCEPT ![s] = None],
             \/ UNCHANGED challenge
             \/ \E c \in Challenges : Consumes(c)
             \/ \E u \in Users, type \in ChallengeTypes :
                    account[u] # None /\ (Replaces(u, type) \/ Stores(u, type))
             \/ Stores(None, "webauthn_authentication")
      PROVE  AccountsInv'
  <2>1. Tables' /\ Grows
    BY <1>1, TablesKept, Zenon DEF AccountsInv
  <2>2. GoodSessions'
    BY <1>1, <2>1, SessionsKept, SessionWritten, Zenon DEF AccountsInv
  <2>3. GoodRequests' /\ OneReset'
    BY <1>1, <2>1, RequestsKept, Zenon DEF AccountsInv, OneReset
  <2>4. NamedChallenges' /\ NamedPasskeys'
    BY <1>1, <2>1, ChallengesKept, PasskeysKept, Zenon DEF AccountsInv
  <2> QED BY <2>1, <2>2, <2>3, <2>4 DEF AccountsInv
<1>2. CASE UNCHANGED vars
  BY <1>1, <1>2, Zenon DEF vars, factors
<1>3. ASSUME NEW s \in Sessions, Logout(s) PROVE AccountsInv'
  BY <1>1, <1>3, Zenon DEF Logout, SessionExpires, factors
<1>4. ASSUME NEW u \in Users, ForgotPassword(u) \/ LoginChallenges(u) PROVE AccountsInv'
  <2>1. "password_reset" \in ChallengeTypes /\ "two_factor_login" \in ChallengeTypes
    BY DEF ChallengeTypes
  <2> QED BY <1>1, <1>4, <2>1, Zenon DEF ForgotPassword, LoginChallenges, factors
<1>5. ASSUME NEW c \in Challenges, ChallengeExpires(c) PROVE AccountsInv'
  BY <1>1, <1>5, Zenon DEF ChallengeExpires, factors
<1>6. CASE AuthenticateOptions
  BY <1>1, <1>6, Zenon DEF AuthenticateOptions, factors
<1> QED
  BY <1>2, <1>3, <1>4, <1>5, <1>6, WithSessionKeeps, WithoutSessionKeeps, CreateSuperuserKeeps,
     ConfirmEmailVerificationKeeps DEF Next

\* The invariant holds throughout.
THEOREM AccountsInvariant == Spec => []AccountsInv
BY AccountsInvInitially, AccountsInvIsInductive, PTL DEF Spec

\* A session that is accepted was opened for the account's present password:
\* a reset stores a version that no session has, and a session carries the
\* version and the password of one read of the row.
THEOREM ResetsEndSessions == Spec => []ResetEndsSessions
<1>1. AccountsInv => ResetEndsSessions
  BY Zenon DEF AccountsInv, GoodSessions, GoodSession, Current, ResetEndsSessions
<1> QED BY <1>1, AccountsInvariant, PTL

\* The active realm of a session grants every permission of an owner, since no
\* realm, owner or superuser goes away while the session lives.
THEOREM ActiveRealmsAreUsable == Spec => []ActiveRealmIsUsable
<1>1. AccountsInv => ActiveRealmIsUsable
  BY Zenon DEF AccountsInv, GoodSessions, GoodSession, Usable, ActiveRealmIsUsable, HasPermission,
         ROLE_PERMISSIONS
<1> QED BY <1>1, AccountsInvariant, PTL

---------------------------------------------------------------------------
(* Accounts and realms. *)

SigningUp(u) == \E r \in Requests : request[r].at \in {"signup", "realm"} /\ request[r].user = u

\* A user that must own a realm.
Settled(u) == account[u] # None /\ ~account[u].is_superuser /\ u \notin cut /\ ~SigningUp(u)

\* A request that is not u's sign-up moves.
LEMMA OthersMove ==
    ASSUME GoodRequests, NEW u, NEW r \in Requests, NEW x,
           request' = [request EXCEPT ![r] = x],
           request[r].at \in {"signup", "realm"} => request[r].user # u,
           ~SigningUp(u)'
    PROVE  ~SigningUp(u)
BY DEF GoodRequests, SigningUp

\* A row that keeps its is_superuser.
LEMMA RowChanges ==
    ASSUME Tables, NEW u \in Users, NEW v \in Users, account[v] # None, NEW new,
           new.is_superuser = account[v].is_superuser,
           account' = [account EXCEPT ![v] = new],
           account'[u] # None, ~account'[u].is_superuser
    PROVE  account[u] # None /\ ~account[u].is_superuser
<1>1. CASE u = v
  <2>1. account'[u] = new
    BY <1>1 DEF Tables
  <2> QED BY <1>1, <2>1
<1>2. CASE u # v
  BY <1>2 DEF Tables
<1> QED BY <1>1, <1>2

\* A user that must own a realm after a step had to before it, or has just
\* become an owner.
LEMMA Settles ==
    ASSUME AccountsInv, NEW u \in Users, Next, Settled(u)'
    PROVE  Settled(u) \/ \E r \in Requests : SignupEnds(r) /\ request[r].user = u
<1> USE DEF AccountsInv
<1>1. Idle.at = "idle"
  BY Zenon DEF Idle
<1>2. ASSUME UNCHANGED <<account, cut>>,
             \/ UNCHANGED request
             \/ \E r \in Requests : /\ request[r].at \notin {"signup", "realm"}
                                    /\ \E x : request' = [request EXCEPT ![r] = x]
      PROVE  Settled(u)
  <2>1. ~SigningUp(u)
    <3>1. CASE UNCHANGED request
      BY <3>1, Zenon DEF Settled, SigningUp
    <3>2. CASE ~UNCHANGED request
      BY <1>2, <3>2, OthersMove, Zenon DEF Settled
    <3> QED BY <3>1, <3>2
  <2> QED BY <1>2, <2>1 DEF Settled
<1>3. ASSUME NEW r \in Requests, WithSession(r) PROVE Settled(u)
  <2>1. UNCHANGED <<account, cut>> /\ request[r].at \notin {"signup", "realm"}
    BY <1>1, <1>3, Zenon DEF WithSession, RequestReads, RequestRefused, Me, RequestEmailVerification,
       ActivateRealm, SetupTotp, VerifyTotp, DisableTotp, RegisterOptions, DeletePasskey,
       RegisterVerify, Refreshes, Accepted
  <2>2. \E x : request' = [request EXCEPT ![r] = x]
    BY <1>3, Zenon DEF WithSession, RequestReads, RequestRefused, Me, RequestEmailVerification,
       ActivateRealm, SetupTotp, VerifyTotp, DisableTotp, RegisterOptions, DeletePasskey,
       RegisterVerify, Refreshes
  <2> QED BY <1>2, <2>1, <2>2, Zenon
<1>4. ASSUME NEW r \in Requests,
             LoginOpens(r) \/ RequestDropped(r) \/ (\E v \in Users : LoginReads(r, v))
                 \/ (\E c \in Challenges : ResetReads(r, c) \/ VerifyLoginChallenge(r, c))
                 \/ (\E c \in Challenges, k \in Passkeys : AuthenticateVerify(r, c, k))
      PROVE  Settled(u)
  <2>1. UNCHANGED <<account, cut>> /\ request[r].at \notin {"signup", "realm"}
    BY <1>1, <1>4, Zenon DEF LoginOpens, RequestDropped, LoginReads, ResetReads, VerifyLoginChallenge,
       AuthenticateVerify
  <2>2. UNCHANGED request \/ \E x : request' = [request EXCEPT ![r] = x]
    BY <1>4, Zenon DEF LoginOpens, RequestDropped, LoginReads, ResetReads, VerifyLoginChallenge,
       AuthenticateVerify
  <2> QED BY <1>2, <2>1, <2>2
<1>5. ASSUME NEW r \in Requests, NEW v \in Users, SignupBegins(r, v) PROVE Settled(u)
  <2>1. PICK x : request' = [request EXCEPT ![r] = x] /\ x.at = "signup" /\ x.user = v
    <3>1. PICK n \in Realms :
              request' = [request EXCEPT ![r] = [at |-> "signup", user |-> v, realm |-> n]]
      BY <1>5, Zenon DEF SignupBegins
    <3> WITNESS [at |-> "signup", user |-> v, realm |-> n]
    <3> QED BY <3>1
  <2>2. SigningUp(v)'
    BY <2>1 DEF GoodRequests, SigningUp
  <2>3. u # v
    BY <2>2 DEF Settled
  <2>4. ~SigningUp(u)
    BY <1>1, <1>5, <2>1, OthersMove, Zenon DEF SignupBegins, Settled
  <2> QED BY <1>5, <2>3, <2>4 DEF SignupBegins, Settled, Tables
<1>6. ASSUME NEW r \in Requests, SignupCreatesRealm(r) \/ RequestStops(r) PROVE Settled(u)
  <2>1. UNCHANGED account /\ cut \subseteq cut' /\ request[r].at \in {"signup", "realm"}
    BY <1>6 DEF SignupCreatesRealm, RequestStops
  <2>2. \/ request[r].user \in cut' /\ request' = [request EXCEPT ![r] = Idle]
        \/ request' = [request EXCEPT ![r] = [request[r] EXCEPT !.at = "realm"]]
    BY <1>6 DEF SignupCreatesRealm, RequestStops
  <2>3. request[r].user # u
    <3>1. CASE request[r].user \in cut'
      BY <3>1 DEF Settled
    <3>2. CASE request' = [request EXCEPT ![r] = [request[r] EXCEPT !.at = "realm"]]
      <4>1. request[r] \in [at : {"signup", "realm"}, user : Users, realm : Realms]
        BY <2>1, Zenon DEF GoodRequests, RequestStates
      <4>2. request'[r].at = "realm" /\ request'[r].user = request[r].user
        BY <3>2, <4>1 DEF GoodRequests
      <4> QED BY <4>2 DEF Settled, SigningUp
    <3> QED BY <2>2, <3>1, <3>2
  <2>4. ~SigningUp(u)
    BY <2>2, <2>3, OthersMove DEF Settled
  <2> QED BY <2>1, <2>4, Zenon DEF Settled
<1>7. ASSUME NEW r \in Requests, SignupEnds(r), request[r].user # u PROVE Settled(u)
  <2>1. ~SigningUp(u)
    BY <1>7, OthersMove, Zenon DEF SignupEnds, Settled
  <2> QED BY <1>7, <2>1, Zenon DEF SignupEnds, Settled
<1>8. ASSUME NEW r \in Requests, ResetSaves(r) PROVE Settled(u)
  <2> DEFINE v == request[r].seen.user
             w == [account[v] EXCEPT !.password = @ + 1,
                                     !.session_version = request[r].seen.version + 1]
  <2>1. /\ v \in Users /\ account[v] # None /\ account[v] \in UserRows
        /\ request[r].seen.version \in Nat
    BY <1>8, RequestParts DEF ResetSaves, GoodRequests, GoodRequest, SeenRows, Tables
  <2>2. w.is_superuser = account[v].is_superuser
    BY <2>1, RowReset, Zenon
  <2>3. account' = [account EXCEPT ![v] = w]
    BY <1>8 DEF ResetSaves
  <2> HIDE DEF w
  <2>4. account[u] # None /\ ~account[u].is_superuser
    BY <2>1, <2>2, <2>3, RowChanges, Zenon DEF Settled
  <2>5. ~SigningUp(u)
    BY <1>8, OthersMove, Zenon DEF ResetSaves, Settled
  <2> QED BY <1>8, <2>4, <2>5, Zenon DEF ResetSaves, Settled
<1>9. ASSUME NEW s \in Sessions, Logout(s) PROVE Settled(u)
  BY <1>2, <1>9 DEF Logout, SessionExpires
<1>10. ASSUME NEW v \in Users, CreateSuperuser(v) PROVE Settled(u)
  <2>1. u # v
    <3>1. CASE account[v] = None
      BY <1>10, <3>1 DEF CreateSuperuser, NewUser, Settled, Tables
    <3>2. CASE account[v] # None
      <4>1. account[v] \in UserRows
        BY <3>2 DEF Tables
      <4>2. [account[v] EXCEPT !.is_superuser = TRUE].is_superuser
        BY <4>1 DEF UserRows
      <4>3. account'[v] = [account[v] EXCEPT !.is_superuser = TRUE]
        BY <1>10, <3>2 DEF CreateSuperuser, Tables
      <4> QED BY <4>2, <4>3, Zenon DEF Settled
    <3> QED BY <3>1, <3>2
  <2>2. account'[u] = account[u] /\ UNCHANGED <<request, cut>>
    BY <1>10, <2>1 DEF CreateSuperuser, Tables
  <2> QED BY <2>2, Zenon DEF Settled, SigningUp
<1>11. ASSUME NEW v \in Users, ForgotPassword(v) \/ LoginChallenges(v) PROVE Settled(u)
  BY <1>2, <1>11, Zenon DEF ForgotPassword, LoginChallenges
<1>12. ASSUME NEW c \in Challenges, ChallengeExpires(c) PROVE Settled(u)
  BY <1>2, <1>12 DEF ChallengeExpires
<1>13. ASSUME NEW c \in Challenges, ConfirmEmailVerification(c) PROVE Settled(u)
  <2>1. PICK v \in Users : v = challenge[c].user /\ account[v] \in UserRows /\ account[v] # None
    BY <1>13 DEF ConfirmEmailVerification, Is, NamedChallenges, Tables
  <2>2. PICK new \in UserRows : new = [account[v] EXCEPT !.email_verified = TRUE]
    BY <2>1, Zenon DEF UserRows
  <2>3. new.is_superuser = account[v].is_superuser
    BY <2>1, <2>2 DEF UserRows
  <2>4. account' = [account EXCEPT ![v] = new] /\ UNCHANGED <<request, cut>>
    BY <1>13, <2>1, <2>2 DEF ConfirmEmailVerification
  <2>5. account[u] # None /\ ~account[u].is_superuser
    BY <2>1, <2>3, <2>4, RowChanges, Zenon DEF Settled
  <2> QED BY <2>4, <2>5, Zenon DEF Settled, SigningUp
<1>14. CASE AuthenticateOptions
  BY <1>2, <1>14 DEF AuthenticateOptions
<1> QED
  BY <1>3, <1>4, <1>5, <1>6, <1>7, <1>8, <1>9, <1>10, <1>11, <1>12, <1>13, <1>14
 , Zenon DEF Next, WithoutSession

\* No realm and no owner goes away.
LEMMA OwnersStay ==
    ASSUME AccountsInv, Next
    PROVE  realms \subseteq realms' /\ \A n \in Realms : owners[n] \subseteq owners'[n]
<1>1. ASSUME NEW r \in Requests, SignupCreatesRealm(r)
      PROVE  realms \subseteq realms' /\ UNCHANGED owners
  BY <1>1 DEF SignupCreatesRealm
<1>2. ASSUME NEW r \in Requests, SignupEnds(r)
      PROVE  UNCHANGED realms /\ \A n \in Realms : owners[n] \subseteq owners'[n]
  BY <1>2, Zenon DEF SignupEnds, AccountsInv, Tables
<1>3. ASSUME NEW u \in Users, CreateSuperuser(u)
      PROVE  realms \subseteq realms' /\ UNCHANGED owners
  BY <1>3 DEF CreateSuperuser
<1>4. ASSUME NEW r \in Requests, WithSession(r) PROVE UNCHANGED <<realms, owners>>
  BY <1>4, Zenon DEF WithSession, RequestReads, RequestRefused, Me, RequestEmailVerification,
     ActivateRealm, SetupTotp, VerifyTotp, DisableTotp, RegisterOptions, DeletePasskey,
     RegisterVerify
<1>5. ASSUME NEW r \in Requests, WithoutSession(r), ~SignupCreatesRealm(r), ~SignupEnds(r)
      PROVE  UNCHANGED <<realms, owners>>
  BY <1>5, Zenon DEF WithoutSession, ResetSaves, LoginOpens, RequestStops, RequestDropped, SignupBegins,
     LoginReads, ResetReads, VerifyLoginChallenge, AuthenticateVerify
<1>6. CASE \/ \E s \in Sessions : Logout(s)
           \/ \E u \in Users : ForgotPassword(u) \/ LoginChallenges(u)
           \/ \E c \in Challenges : ChallengeExpires(c) \/ ConfirmEmailVerification(c)
           \/ AuthenticateOptions
  BY <1>6, Zenon DEF Logout, SessionExpires, ForgotPassword, LoginChallenges, ChallengeExpires,
     ConfirmEmailVerification, AuthenticateOptions
<1> QED BY <1>1, <1>2, <1>3, <1>4, <1>5, <1>6, Zenon DEF Next

\* An account is an owner, unless its sign-up has not come to its end: inductive
\* with AccountsInv, by which a request that makes its user an owner has
\* created the realm.
THEOREM EveryAccountHasARealm == Spec => []AccountsHaveRealms
<1>1. Init => AccountsHaveRealms
  BY Zenon DEF Init, AccountsHaveRealms
<1>2. AccountsInv /\ AccountsHaveRealms /\ [Next]_vars => AccountsHaveRealms'
  <2> SUFFICES ASSUME AccountsInv, AccountsHaveRealms, Next PROVE AccountsHaveRealms'
    BY Zenon DEF vars, factors, AccountsHaveRealms
  <2>1. ASSUME NEW u \in Users, Settled(u)'
        PROVE  \E n \in realms' : u \in owners'[n]
    <3>1. CASE Settled(u)
      <4>1. \E n \in realms : u \in owners[n]
        BY <3>1, Zenon DEF AccountsHaveRealms, Settled, SigningUp
      <4> QED BY <4>1, OwnersStay, Zenon DEF AccountsInv, Tables
    <3>2. ASSUME NEW r \in Requests, SignupEnds(r), request[r].user = u
          PROVE  \E n \in realms' : u \in owners'[n]
      <4>1. request[r].realm \in realms /\ request[r].realm \in Realms
        BY <3>2, Zenon DEF SignupEnds, AccountsInv, GoodRequests, GoodRequest, Tables
      <4> QED BY <3>2, <4>1, Zenon DEF SignupEnds, AccountsInv, Tables
    <3> QED BY <2>1, <3>1, <3>2, Settles, Zenon
  <2> QED BY <2>1, Zenon DEF AccountsHaveRealms, Settled, SigningUp
<1> QED BY <1>1, <1>2, AccountsInvariant, PTL DEF Spec
=============================================================================
