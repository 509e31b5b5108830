------------------------------ MODULE Accounts ------------------------------
(***************************************************************************)
(* Accounts and browser sessions of the control plane: signing up, logging *)
(* in with a password, a second factor or a passkey, e-mailed links,       *)
(* switching realms and the superuser command.  Accounts are in PostgreSQL *)
(* and sessions in Redis, no transaction spans two statements, and a       *)
(* request can be cut off between them.                                    *)
(*                                                                         *)
(* A request that carries a session reads it, checks it against the user's *)
(* row and writes it back; other requests run between the read and the     *)
(* write.  A login is a read of the user's row and the later creation of   *)
(* the session.  The statements of one endpoint after its session check    *)
(* are one step.  Resets of one account do not overlap.                    *)
(***************************************************************************)
EXTENDS Naturals, FiniteSets

CONSTANTS
    Users,          \* e-mail addresses
    Realms,         \* realm slugs
    Sessions,       \* bound on the sessions at one time
    Requests,       \* requests handled at one time
    Challenges,     \* bound on the live authentication challenges
    Passkeys,       \* WebAuthn credentials
    None,
    RecoveryCodes,  \* RECOVERY_CODE_COUNT
    MaxPassword,    \* bound on the passwords an account has had
    MaxStops        \* bound on the requests cut off

ASSUME BoundsArePositive ==
    /\ RecoveryCodes \in Nat \ {0} /\ MaxPassword \in Nat \ {0} /\ MaxStops \in Nat

\* Rows of users, as far as they are modelled.
UserRows ==
    [password : Nat, session_version : Nat, is_superuser : BOOLEAN, email_verified : BOOLEAN]

ASSUME NoneIsNoRow == None \notin Users /\ None \notin UserRows

VARIABLES
    account,    \* account[u]: None, or the user's row
    realms,     \* slugs of the realms
    owners,     \* owners[n]: members of realm n, all of role owner
    totp,       \* totp[u]: None, "pending" or "enabled"
    codes,      \* codes[u]: number of unused recovery codes
    passkey,    \* passkey[k]: None or its user
    challenge,  \* challenge[c]: None or a live challenge [type, user]
    session,    \* session[s]: None or the session in Redis
    request,    \* request[r]: where a request is
    cut         \* users whose sign-up was cut off or failed part way

factors == <<totp, codes, passkey>>
vars == <<account, realms, owners, factors, challenge, session, request, cut>>

Idle == [at |-> "idle"]

Init ==
    /\ account = [u \in Users |-> None]
    /\ realms = {} /\ owners = [n \in Realms |-> {}]
    /\ totp = [u \in Users |-> None] /\ codes = [u \in Users |-> 0]
    /\ passkey = [k \in Passkeys |-> None]
    /\ challenge = [c \in Challenges |-> None]
    /\ session = [s \in Sessions |-> None]
    /\ request = [r \in Requests |-> Idle]
    /\ cut = {}

---------------------------------------------------------------------------
(* Roles and realms. *)

RealmPermission ==
    {"realm.read", "realm.manage", "realm.delete", "members.read", "members.manage",
     "monitoring.read", "monitoring.manage", "agent_credentials.manage", "alerts.acknowledge"}

ROLE_PERMISSIONS ==
    [owner  |-> RealmPermission,
     admin  |-> RealmPermission \ {"realm.manage", "realm.delete"},
     member |-> {"realm.read", "monitoring.read", "monitoring.manage", "alerts.acknowledge"},
     viewer |-> {"realm.read", "monitoring.read"}]

\* require_realm_permission, once the session was accepted.
HasPermission(u, n, permission) ==
    /\ n \in realms
    /\ account[u].is_superuser \/ (u \in owners[n] /\ permission \in ROLE_PERMISSIONS.owner)

\* The realms activate_realm accepts.
Activatable(u) == IF account[u].is_superuser THEN realms ELSE {n \in realms : u \in owners[n]}

\* What _initial_realm_id may return; of several realms it returns one.
InitialRealms(u) ==
    LET own == {n \in realms : u \in owners[n]}
        any == IF account[u].is_superuser THEN realms ELSE {}
    IN IF own # {} THEN own ELSE IF any # {} THEN any ELSE {None}

---------------------------------------------------------------------------
(* Challenges. *)

\* create_account_token and create_login_challenge: the live ones of the same
\* user and type go, a new one is stored.
Replaces(u, type) ==
    LET kept == [c \in Challenges |->
                    IF challenge[c] = [type |-> type, user |-> u] THEN None ELSE challenge[c]]
    IN \E c \in Challenges :
           /\ kept[c] = None
           /\ challenge' = [kept EXCEPT ![c] = [type |-> type, user |-> u]]

\* _store_challenge of WebAuthn.
Stores(u, type) ==
    \E c \in Challenges :
        /\ challenge[c] = None
        /\ challenge' = [challenge EXCEPT ![c] = [type |-> type, user |-> u]]

Consumes(c) == challenge' = [challenge EXCEPT ![c] = None]

Is(c, type) == challenge[c] # None /\ challenge[c].type = type

ChallengeExpires(c) ==
    /\ challenge[c] # None
    /\ Consumes(c)
    /\ UNCHANGED <<account, realms, owners, factors, session, request, cut>>

---------------------------------------------------------------------------
(* Sessions. *)

\* No session and no request uses the key s.
Fresh(s) == session[s] = None /\ \A r \in Requests : request[r].at = "read" => request[r].id # s

\* A session stamped with the version its user has now.
OpensCurrent(seen) ==
    \E s \in Sessions, n \in InitialRealms(seen.user) :
        /\ Fresh(s)
        /\ session' = [session EXCEPT ![s] =
                           [user |-> seen.user, version |-> account[seen.user].session_version,
                            password |-> seen.password, realm |-> n]]

\* create_session for a user's row read before; password is the one it had then.
Opens(seen) ==
    \E s \in Sessions, n \in InitialRealms(seen.user) :
        /\ Fresh(s)
        /\ session' = [session EXCEPT ![s] =
                           [user |-> seen.user, version |-> seen.version,
                            password |-> seen.password, realm |-> n]]

\* The user's row as a request sees it.
Seen(u) == [user |-> u, version |-> account[u].session_version, password |-> account[u].password]

SessionExpires(s) ==
    /\ session[s] # None
    /\ session' = [session EXCEPT ![s] = None]
    /\ UNCHANGED <<account, realms, owners, factors, challenge, request, cut>>

\* delete_session; logout does not check the session it deletes.
Logout(s) == SessionExpires(s)

\* get_session_user, up to the read of Redis.
RequestReads(r, s) ==
    /\ request[r] = Idle /\ session[s] # None
    /\ request' = [request EXCEPT ![r] = [at |-> "read", id |-> s, session |-> session[s]]]
    /\ UNCHANGED <<account, realms, owners, factors, challenge, session, cut>>

Caller(r) == request[r].session.user

Accepted(r) ==
    /\ request[r].at = "read"
    /\ request[r].session.version = account[Caller(r)].session_version

\* The session belongs to an earlier version of the account and is deleted.
RequestRefused(r) ==
    /\ request[r].at = "read"
    /\ request[r].session.version # account[Caller(r)].session_version
    /\ session' = [session EXCEPT ![request[r].id] = None]
    /\ request' = [request EXCEPT ![r] = Idle]
    /\ UNCHANGED <<account, realms, owners, factors, challenge, cut>>

\* The rest of get_session_user: the session as it was read, with a realm if it
\* had none, is written back, and the request ends.
Refreshes(r) ==
    /\ Accepted(r)
    /\ \E n \in IF request[r].session.realm = None THEN InitialRealms(Caller(r))
                ELSE {request[r].session.realm} :
           session' = [session EXCEPT ![request[r].id] = [request[r].session EXCEPT !.realm = n]]
    /\ request' = [request EXCEPT ![r] = Idle]

\* me, security_summary, and every endpoint that only reads the accounts.
Me(r) ==
    /\ Refreshes(r)
    /\ UNCHANGED <<account, realms, owners, factors, challenge, cut>>

\* A switch of realms that does not look for a membership.
ActivatesAny(r, n) ==
    /\ Accepted(r) /\ n \in realms
    /\ session' = [session EXCEPT ![request[r].id] = [request[r].session EXCEPT !.realm = n]]
    /\ request' = [request EXCEPT ![r] = Idle]
    /\ UNCHANGED <<account, realms, owners, factors, challenge, cut>>

\* activate_realm; for a realm that is not found it is Me.
ActivateRealm(r, n) ==
    /\ Accepted(r) /\ n \in Activatable(Caller(r))
    /\ session' = [session EXCEPT ![request[r].id] = [request[r].session EXCEPT !.realm = n]]
    /\ request' = [request EXCEPT ![r] = Idle]
    /\ UNCHANGED <<account, realms, owners, factors, challenge, cut>>

---------------------------------------------------------------------------
(* Signing up. *)

NewUser(superuser) ==
    [password |-> 1, session_version |-> 1, is_superuser |-> superuser, email_verified |-> superuser]

\* The user is created and a slug is found that no realm has.
SignupBegins(r, u) ==
    /\ request[r] = Idle /\ account[u] = None
    /\ account' = [account EXCEPT ![u] = NewUser(FALSE)]
    /\ \E n \in Realms \ realms :
           request' = [request EXCEPT ![r] = [at |-> "signup", user |-> u, realm |-> n]]
    /\ UNCHANGED <<realms, owners, factors, challenge, session, cut>>

\* The realm is created, unless another has taken the slug.
SignupCreatesRealm(r) ==
    /\ request[r].at = "signup"
    /\ LET n == request[r].realm
       IN \/ /\ n \notin realms
             /\ realms' = realms \cup {n}
             /\ request' = [request EXCEPT ![r].at = "realm"]
             /\ UNCHANGED cut
          \/ /\ n \in realms
             /\ request' = [request EXCEPT ![r] = Idle]
             /\ cut' = cut \cup {request[r].user}
             /\ UNCHANGED realms
    /\ UNCHANGED <<account, owners, factors, challenge, session>>

\* A sign-up that opens a session before the user is an owner.
SignupEndsUnowned(r) ==
    /\ request[r].at = "realm"
    /\ Replaces(request[r].user, "email_verification")
    /\ Opens(Seen(request[r].user))
    /\ request' = [request EXCEPT ![r] = Idle]
    /\ UNCHANGED <<account, realms, owners, factors, cut>>

\* The membership, the verification link and the session.
SignupEnds(r) ==
    /\ request[r].at = "realm"
    /\ owners' = [owners EXCEPT ![request[r].realm] = @ \cup {request[r].user}]
    /\ Replaces(request[r].user, "email_verification")
    /\ \E s \in Sessions :
           /\ Fresh(s)
           /\ session' = [session EXCEPT ![s] =
                  [user |-> request[r].user, version |-> 1, password |-> 1,
                   realm |-> request[r].realm]]
    /\ request' = [request EXCEPT ![r] = Idle]
    /\ UNCHANGED <<account, realms, factors, cut>>

\* create_superuser: a new user, or an existing one promoted; ensure_initial_realm.
CreateSuperuser(u) ==
    /\ account' = [account EXCEPT ![u] = IF @ = None THEN NewUser(TRUE)
                                         ELSE [@ EXCEPT !.is_superuser = TRUE]]
    /\ realms' \in IF realms # {} THEN {realms} ELSE {{n} : n \in Realms}
    /\ UNCHANGED <<owners, factors, challenge, session, request, cut>>

---------------------------------------------------------------------------
(* E-mailed links. *)

RequestEmailVerification(r) ==
    /\ Refreshes(r) /\ ~account[Caller(r)].email_verified
    /\ Replaces(Caller(r), "email_verification")
    /\ UNCHANGED <<account, realms, owners, factors, cut>>

ConfirmEmailVerification(c) ==
    /\ Is(c, "email_verification") /\ Consumes(c)
    /\ account' = [account EXCEPT ![challenge[c].user].email_verified = TRUE]
    /\ UNCHANGED <<realms, owners, factors, session, request, cut>>

ForgotPassword(u) ==
    /\ account[u] # None
    /\ Replaces(u, "password_reset")
    /\ UNCHANGED <<account, realms, owners, factors, session, request, cut>>

\* consume_account_token returns the user's row.
ResetReads(r, c) ==
    /\ request[r] = Idle /\ Is(c, "password_reset") /\ Consumes(c)
    /\ \A q \in Requests : request[q].at = "reset" => request[q].seen.user # challenge[c].user
    /\ account[challenge[c].user].password < MaxPassword
    /\ request' = [request EXCEPT ![r] = [at |-> "reset", seen |-> Seen(challenge[c].user)]]
    /\ UNCHANGED <<account, realms, owners, factors, session, cut>>

\* reset_password saves the password and the version it read, plus one.
ResetSaves(r) ==
    /\ request[r].at = "reset"
    /\ LET u == request[r].seen.user
       IN account' = [account EXCEPT ![u] =
                          [account[u] EXCEPT !.password = @ + 1,
                                             !.session_version = request[r].seen.version + 1]]
    /\ request' = [request EXCEPT ![r] = Idle]
    /\ UNCHANGED <<realms, owners, factors, challenge, session, cut>>

---------------------------------------------------------------------------
(* Logging in. *)

\* The password matches the user's row and no second factor is asked for.
LoginReads(r, u) ==
    /\ request[r] = Idle /\ account[u] # None /\ totp[u] # "enabled"
    /\ request' = [request EXCEPT ![r] = [at |-> "login", seen |-> Seen(u)]]
    /\ UNCHANGED <<account, realms, owners, factors, challenge, session, cut>>

\* The password matches and a second factor is asked for.
LoginChallenges(u) ==
    /\ account[u] # None /\ totp[u] = "enabled"
    /\ Replaces(u, "two_factor_login")
    /\ UNCHANGED <<account, realms, owners, factors, session, request, cut>>

\* verify_login_challenge up to the session: the challenge is consumed, and
\* the code is of the authenticator, is an unused recovery code, or is wrong.
VerifyLoginChallenge(r, c) ==
    /\ request[r] = Idle /\ Is(c, "two_factor_login") /\ Consumes(c)
    /\ LET u == challenge[c].user
           login == request' = [request EXCEPT ![r] = [at |-> "login", seen |-> Seen(u)]]
       IN \/ totp[u] = "enabled" /\ login /\ UNCHANGED codes
          \/ codes[u] > 0 /\ login /\ codes' = [codes EXCEPT ![u] = @ - 1]
          \/ UNCHANGED <<request, codes>>
    /\ UNCHANGED <<account, realms, owners, totp, passkey, session, cut>>

AuthenticateOptions ==
    /\ Stores(None, "webauthn_authentication")
    /\ UNCHANGED <<account, realms, owners, factors, session, request, cut>>

\* authenticate_verify up to the session, for a passkey that answers the challenge.
AuthenticateVerify(r, c, k) ==
    /\ request[r] = Idle /\ Is(c, "webauthn_authentication") /\ passkey[k] # None
    /\ Consumes(c)
    /\ request' = [request EXCEPT ![r] = [at |-> "login", seen |-> Seen(passkey[k])]]
    /\ UNCHANGED <<account, realms, owners, factors, session, cut>>

LoginOpens(r) ==
    /\ request[r].at = "login"
    /\ Opens(request[r].seen)
    /\ request' = [request EXCEPT ![r] = Idle]
    /\ UNCHANGED <<account, realms, owners, factors, challenge, cut>>

---------------------------------------------------------------------------
(* The second factor and passkeys. *)

\* A setup that is pending is replaced; one that is enabled is left, and the
\* unique index on user and method fails the request.
SetupTotp(r) ==
    /\ Refreshes(r)
    /\ totp' = [totp EXCEPT ![Caller(r)] = IF @ = "enabled" THEN @ ELSE "pending"]
    /\ UNCHANGED <<account, realms, owners, codes, passkey, challenge, cut>>

\* A valid code enables the method and replaces the recovery codes.
VerifyTotp(r) ==
    /\ Refreshes(r) /\ totp[Caller(r)] # None
    /\ totp' = [totp EXCEPT ![Caller(r)] = "enabled"]
    /\ codes' = [codes EXCEPT ![Caller(r)] = RecoveryCodes]
    /\ UNCHANGED <<account, realms, owners, passkey, challenge, cut>>

DisableTotp(r) ==
    /\ Refreshes(r)
    /\ totp' = [totp EXCEPT ![Caller(r)] = None]
    /\ codes' = [codes EXCEPT ![Caller(r)] = 0]
    /\ UNCHANGED <<account, realms, owners, passkey, challenge, cut>>

RegisterOptions(r) ==
    /\ Refreshes(r)
    /\ Stores(Caller(r), "webauthn_registration")
    /\ UNCHANGED <<account, realms, owners, factors, cut>>

RegisterVerify(r, c, k) ==
    /\ Refreshes(r)
    /\ Is(c, "webauthn_registration") /\ challenge[c].user = Caller(r) /\ passkey[k] = None
    /\ passkey' = [passkey EXCEPT ![k] = Caller(r)]
    /\ Consumes(c)
    /\ UNCHANGED <<account, realms, owners, totp, codes, cut>>

DeletePasskey(r, k) ==
    /\ Refreshes(r) /\ passkey[k] = Caller(r)
    /\ passkey' = [passkey EXCEPT ![k] = None]
    /\ UNCHANGED <<account, realms, owners, totp, codes, challenge, cut>>

---------------------------------------------------------------------------

\* A request is cut off between two of its steps.
RequestStops(r) ==
    /\ request[r].at \in {"signup", "realm"} /\ Cardinality(cut) < MaxStops
    /\ request' = [request EXCEPT ![r] = Idle]
    /\ cut' = cut \cup {request[r].user}
    /\ UNCHANGED <<account, realms, owners, factors, challenge, session>>

RequestDropped(r) ==
    /\ request[r].at \in {"read", "login", "reset"}
    /\ request' = [request EXCEPT ![r] = Idle]
    /\ UNCHANGED <<account, realms, owners, factors, challenge, session, cut>>

WithSession(r) ==
    \/ \E s \in Sessions : RequestReads(r, s)
    \/ RequestRefused(r) \/ Me(r) \/ RequestEmailVerification(r)
    \/ \E n \in Realms : ActivateRealm(r, n)
    \/ SetupTotp(r) \/ VerifyTotp(r) \/ DisableTotp(r) \/ RegisterOptions(r)
    \/ \E k \in Passkeys : DeletePasskey(r, k) \/ \E c \in Challenges : RegisterVerify(r, c, k)

WithoutSession(r) ==
    \/ SignupCreatesRealm(r) \/ SignupEnds(r) \/ ResetSaves(r) \/ LoginOpens(r)
    \/ RequestStops(r) \/ RequestDropped(r)
    \/ \E u \in Users : SignupBegins(r, u) \/ LoginReads(r, u)
    \/ \E c \in Challenges : ResetReads(r, c) \/ VerifyLoginChallenge(r, c)
    \/ \E c \in Challenges, k \in Passkeys : AuthenticateVerify(r, c, k)

Next ==
    \/ \E r \in Requests : WithSession(r) \/ WithoutSession(r)
    \/ \E s \in Sessions : Logout(s)
    \/ \E u \in Users : CreateSuperuser(u) \/ ForgotPassword(u) \/ LoginChallenges(u)
    \/ \E c \in Challenges : ChallengeExpires(c) \/ ConfirmEmailVerification(c)
    \/ AuthenticateOptions

Spec == Init /\ [][Next]_vars

---------------------------------------------------------------------------
(* Properties. *)

\* A password reset ends every session of the account, whatever requests and
\* logins are under way: a session that get_session_user still accepts was
\* opened for the password the account has now.
ResetEndsSessions ==
    \A s \in Sessions :
        session[s] # None /\ session[s].version = account[session[s].user].session_version
            => session[s].password = account[session[s].user].password

\* The active realm of a session is one its user may work in, although the
\* session is written back by requests that read it earlier: no endpoint
\* that asks for a permission of an owner refuses it.
ActiveRealmIsUsable ==
    \A s \in Sessions :
        session[s] # None /\ session[s].realm # None =>
            \A p \in RealmPermission : HasPermission(session[s].user, session[s].realm, p)

\* Every account is an owner of a realm, the superusers created by the command
\* aside, unless its sign-up is under way, was cut off, or lost its slug to
\* another.
AccountsHaveRealms ==
    \A u \in Users :
        /\ account[u] # None /\ ~account[u].is_superuser /\ u \notin cut
        /\ \A r \in Requests : request[r].at \in {"signup", "realm"} => request[r].user # u
        => \E n \in realms : u \in owners[n]
=============================================================================
