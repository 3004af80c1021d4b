------------------------------ MODULE Sessions ------------------------------
(***************************************************************************)
(* Sessions and two-factor sign-in (routes/auth.rs, middleware/auth.rs,    *)
(* admin.rs, maintenance.rs): half sessions and the challenge, setting up, *)
(* confirming and disabling two-factor, logout, revocation by an admin and *)
(* the cleanup job.  No handler is a transaction: between a handler's      *)
(* reads and its UPDATE any other execution may run.                       *)
(***************************************************************************)
EXTENDS Naturals, FiniteSets

CONSTANTS
    Users,
    Admins,     \* the users with role 'admin'
    Executions, \* executions of handlers; a login's id names its session too,
                \* and a setup's id the secret it generates
    Enrolled,   \* secret of the accounts that have two-factor from the start
    NoSecret,   \* NULL
    NoSession   \* no sessions row

ASSUME AdminsAssumption == Admins \subseteq Users
ASSUME SecretsAssumption == Enrolled \notin Executions /\ NoSecret \notin Executions \cup {Enrolled}

VARIABLES
    users,    \* users[u]: the two-factor columns of the row
    session,  \* session[s]: the sessions row that execution s inserted
    request,  \* request[x]: what execution x was asked
    phase,    \* phase[x]: how far it got; "failed" is any answer but a success
    awaiting, \* logins that read totp_enabled = TRUE
    matched,  \* executions whose code matched the secret they read
    signedOut \* history: sessions that were there when their user was signed out

vars == <<users, session, request, phase, awaiting, matched, signedOut>>

Secrets == Executions \cup {Enrolled}

\* Two-factor is never in force without a secret.
TwoFactor ==
    {row \in [enabled : BOOLEAN, secret : Secrets \cup {NoSecret}, pending : Secrets \cup {NoSecret}] :
        row.enabled <=> row.secret # NoSecret}

Off == [enabled |-> FALSE, secret |-> NoSecret, pending |-> NoSecret]

On == [enabled |-> TRUE, secret |-> Enrolled, pending |-> NoSecret]

Session == [user : Users, half : BOOLEAN, revoked : BOOLEAN, expired : BOOLEAN]

ASSUME SessionAssumption == NoSession \notin Session \cup Users

NoRequest == [kind |-> "idle"]

\* By password or by passkey: what becomes of it differs only by `awaiting`.
SignIn == [kind : {"signin"}, user : Users]

Protected ==
    [kind : {"logout", "setup"}, user : Users, by : Executions]
    \cup [kind : {"challenge", "verify", "disable"}, user : Users, by : Executions, code : Secrets]
    \cup [kind : {"revoke"}, user : Admins, by : Executions, target : Users]

Active == {"creating", "authed", "writing", "logging"}

TypeOK ==
    /\ users \in [Users -> TwoFactor]
    /\ session \in [Executions -> Session \cup {NoSession}]
    /\ request \in [Executions -> {NoRequest} \cup SignIn \cup Protected]
    /\ phase \in [Executions -> Active \cup {"idle", "ok", "failed"}]
    /\ awaiting \subseteq Executions
    /\ matched \subseteq Executions
    /\ signedOut \subseteq Executions

-----------------------------------------------------------------------------
(* Helpers *)

Kind(x) == request[x].kind

Goto(x, p) == phase' = [phase EXCEPT ![x] = p]

Stored(s) == session[s] # NoSession

Of(u) == {s \in Executions : Stored(s) /\ session[s].user = u}

Usable(s) == Stored(s) /\ ~ session[s].revoked /\ ~ session[s].expired

\* Secrets somebody's authenticator has: codes are computed from them.
Known == {Enrolled} \cup {x \in Executions : Kind(x) = "setup" /\ phase[x] = "ok"}

\* What a client can ask for with the cookie of session s.
Asks(s) ==
    LET u == session[s].user IN
    [kind : {"logout", "setup"}, user : {u}, by : {s}]
    \cup [kind : {"challenge", "verify", "disable"}, user : {u}, by : {s}, code : Known]
    \cup [kind : {"revoke"}, user : {u} \cap Admins, by : {s}, target : Users]

\* verify_totp: a code answers exactly the secret it was computed from.
Verify(x, secret, next) ==
    IF request[x].code = secret
    THEN matched' = matched \cup {x} /\ Goto(x, next)
    ELSE Goto(x, "failed") /\ UNCHANGED matched

Init ==
    /\ users \in [Users -> {Off, On}]
    /\ session = [s \in Executions |-> NoSession]
    /\ request = [x \in Executions |-> NoRequest]
    /\ phase = [x \in Executions |-> "idle"]
    /\ awaiting = {}
    /\ matched = {}
    /\ signedOut = {}

-----------------------------------------------------------------------------
(* Signing in *)

\* login reads the row, and then verifies the password for a while.
Login(x, u) ==
    /\ phase[x] = "idle"
    /\ request' = [request EXCEPT ![x] = [kind |-> "signin", user |-> u]]
    /\ awaiting' = IF users[u].enabled THEN awaiting \cup {x} ELSE awaiting
    /\ Goto(x, "creating")
    /\ UNCHANGED <<users, session, matched, signedOut>>

\* login_finish after its assertion verified: two-factor is not asked for.
PasskeyLogin(x, u) ==
    /\ phase[x] = "idle"
    /\ request' = [request EXCEPT ![x] = [kind |-> "signin", user |-> u]]
    /\ Goto(x, "creating")
    /\ UNCHANGED <<users, session, awaiting, matched, signedOut>>

CreateSession(x) ==
    /\ phase[x] = "creating"
    /\ session' = [session EXCEPT ![x] =
           [user |-> request[x].user, half |-> x \in awaiting, revoked |-> FALSE, expired |-> FALSE]]
    /\ Goto(x, "logging")
    /\ UNCHANGED <<users, request, awaiting, matched, signedOut>>

-----------------------------------------------------------------------------
(* The extractor of every other handler *)

\* Defect: the path of the request is not looked at.
AuthenticateAnyPath(x, s, q) ==
    /\ phase[x] = "idle"
    /\ Usable(s) /\ phase[s] = "ok"
    /\ request' = [request EXCEPT ![x] = q]
    /\ Goto(x, IF q.kind = "challenge" /\ ~ session[s].half THEN "failed" ELSE "authed")
    /\ UNCHANGED <<users, session, awaiting, matched, signedOut>>

\* Only a client that was answered has the cookie.  A half session reaches the
\* challenge alone, and the challenge refuses a full one.
Authenticate(x, s, q) ==
    /\ phase[x] = "idle"
    /\ Usable(s) /\ phase[s] = "ok"
    /\ session[s].half => q.kind = "challenge"
    /\ request' = [request EXCEPT ![x] = q]
    /\ Goto(x, IF q.kind = "challenge" /\ ~ session[s].half THEN "failed" ELSE "authed")
    /\ UNCHANGED <<users, session, awaiting, matched, signedOut>>

-----------------------------------------------------------------------------
(* The challenge *)

\* Two-factor may have been disabled since the login: without a secret the
\* handler ends in an internal error.
CheckChallenge(x) ==
    LET secret == users[request[x].user].secret IN
    /\ phase[x] = "authed"
    /\ Kind(x) = "challenge"
    /\ IF secret = NoSecret THEN Goto(x, "failed") /\ UNCHANGED matched
                            ELSE Verify(x, secret, "writing")
    /\ UNCHANGED <<users, session, request, awaiting, signedOut>>

\* Defect: WHERE user_id instead of WHERE token_hash.
ActivateAll(x) ==
    /\ phase[x] = "writing"
    /\ Kind(x) = "challenge"
    /\ session' = [s \in Executions |->
           IF s \in Of(request[x].user) THEN [session[s] EXCEPT !.half = FALSE] ELSE session[s]]
    /\ Goto(x, "logging")
    /\ UNCHANGED <<users, request, awaiting, matched, signedOut>>

\* Defect: the row is written back as the extractor read it.
ActivateWriteBack(x) ==
    /\ phase[x] = "writing"
    /\ Kind(x) = "challenge"
    /\ session' = [session EXCEPT ![request[x].by] =
           [user |-> request[x].user, half |-> FALSE, revoked |-> FALSE, expired |-> FALSE]]
    /\ Goto(x, "logging")
    /\ UNCHANGED <<users, request, awaiting, matched, signedOut>>

\* The UPDATE may meet a session revoked or removed meanwhile.
Activate(x) ==
    LET s == request[x].by IN
    /\ phase[x] = "writing"
    /\ Kind(x) = "challenge"
    /\ session' = IF Stored(s) THEN [session EXCEPT ![s].half = FALSE] ELSE session
    /\ Goto(x, "logging")
    /\ UNCHANGED <<users, request, awaiting, matched, signedOut>>

-----------------------------------------------------------------------------
(* Setting up, confirming and disabling two-factor *)

CheckSetup(x) ==
    /\ phase[x] = "authed"
    /\ Kind(x) = "setup"
    /\ Goto(x, IF users[request[x].user].enabled THEN "failed" ELSE "writing")
    /\ UNCHANGED <<users, session, request, awaiting, matched, signedOut>>

StorePending(x) ==
    /\ phase[x] = "writing"
    /\ Kind(x) = "setup"
    /\ users' = [users EXCEPT ![request[x].user].pending = x]
    /\ Goto(x, "logging")
    /\ UNCHANGED <<session, request, awaiting, matched, signedOut>>

CheckPending(x) ==
    LET row == users[request[x].user] IN
    /\ phase[x] = "authed"
    /\ Kind(x) = "verify"
    /\ IF row.pending = NoSecret \/ row.enabled THEN Goto(x, "failed") /\ UNCHANGED matched
                                                ELSE Verify(x, row.pending, "writing")
    /\ UNCHANGED <<users, session, request, awaiting, signedOut>>

\* Defect: the UPDATE copies the pending column, whatever is in it by now.
EnablePending(x) ==
    LET u == request[x].user IN
    /\ phase[x] = "writing"
    /\ Kind(x) = "verify"
    /\ users' = [users EXCEPT ![u] =
           [enabled |-> TRUE, secret |-> users[u].pending, pending |-> NoSecret]]
    /\ Goto(x, "logging")
    /\ UNCHANGED <<session, request, awaiting, matched, signedOut>>

\* The secret that was read and that the code answered, whatever is pending now.
Enable(x) ==
    /\ phase[x] = "writing"
    /\ Kind(x) = "verify"
    /\ users' = [users EXCEPT ![request[x].user] =
           [enabled |-> TRUE, secret |-> request[x].code, pending |-> NoSecret]]
    /\ Goto(x, "logging")
    /\ UNCHANGED <<session, request, awaiting, matched, signedOut>>

CheckDisable(x) ==
    LET row == users[request[x].user] IN
    /\ phase[x] = "authed"
    /\ Kind(x) = "disable"
    /\ IF ~ row.enabled \/ row.secret = NoSecret THEN Goto(x, "failed") /\ UNCHANGED matched
                                                ELSE Verify(x, row.secret, "writing")
    /\ UNCHANGED <<users, session, request, awaiting, signedOut>>

\* Defect: only the flag and the pending secret are cleared.
DisableFlag(x) ==
    /\ phase[x] = "writing"
    /\ Kind(x) = "disable"
    /\ users' = [users EXCEPT ![request[x].user] =
           [enabled |-> FALSE, secret |-> @.secret, pending |-> NoSecret]]
    /\ Goto(x, "logging")
    /\ UNCHANGED <<session, request, awaiting, matched, signedOut>>

Disable(x) ==
    /\ phase[x] = "writing"
    /\ Kind(x) = "disable"
    /\ users' = [users EXCEPT ![request[x].user] = Off]
    /\ Goto(x, "logging")
    /\ UNCHANGED <<session, request, awaiting, matched, signedOut>>

-----------------------------------------------------------------------------
(* Signing out *)

\* The user whose sessions a logout or an admin's revocation ends.
SignedOutUser(q) == IF q.kind = "revoke" THEN q.target ELSE q.user

\* Defect: the UPDATE has no WHERE user_id.
RevokeEverybody(x) ==
    /\ phase[x] = "authed"
    /\ Kind(x) \in {"logout", "revoke"}
    /\ session' = [s \in Executions |->
           IF Stored(s) THEN [session[s] EXCEPT !.revoked = TRUE] ELSE NoSession]
    /\ signedOut' = signedOut \cup Of(SignedOutUser(request[x]))
    /\ Goto(x, "logging")
    /\ UNCHANGED <<users, request, awaiting, matched>>

RevokeSessions(x) ==
    LET theirs == Of(SignedOutUser(request[x])) IN
    /\ phase[x] = "authed"
    /\ Kind(x) \in {"logout", "revoke"}
    /\ session' = [s \in Executions |->
           IF s \in theirs THEN [session[s] EXCEPT !.revoked = TRUE] ELSE session[s]]
    /\ signedOut' = signedOut \cup theirs
    /\ Goto(x, "logging")
    /\ UNCHANGED <<users, request, awaiting, matched>>

-----------------------------------------------------------------------------
(* The end of every handler, time, and the cleanup job *)

\* The audit event, then the answer.
Answer(x) ==
    /\ phase[x] = "logging"
    /\ Goto(x, "ok")
    /\ UNCHANGED <<users, session, request, awaiting, matched, signedOut>>

\* A wrong password, a failing statement or the death of the API.
Fail(x) ==
    /\ phase[x] \in Active
    /\ Goto(x, "failed")
    /\ UNCHANGED <<users, session, request, awaiting, matched, signedOut>>

\* 24 hours have passed.
Expire(s) ==
    /\ Stored(s)
    /\ ~ session[s].expired
    /\ session' = [session EXCEPT ![s].expired = TRUE]
    /\ UNCHANGED <<users, request, phase, awaiting, matched, signedOut>>

\* run_cleanup_once, the sessions part.  Its second DELETE, of rows revoked more
\* than 7 days ago, finds only rows the first one takes: a session expires
\* after one day.
Cleanup ==
    /\ session' = [s \in Executions |->
           IF Stored(s) /\ session[s].expired THEN NoSession ELSE session[s]]
    /\ UNCHANGED <<users, request, phase, awaiting, matched, signedOut>>

-----------------------------------------------------------------------------

Arrive(x) ==
    \/ \E u \in Users : Login(x, u) \/ PasskeyLogin(x, u)
    \/ \E s \in Executions : Stored(s) /\ \E q \in Asks(s) : Authenticate(x, s, q)

Step(x) ==
    \/ CreateSession(x)
    \/ CheckChallenge(x) \/ Activate(x)
    \/ CheckSetup(x) \/ StorePending(x)
    \/ CheckPending(x) \/ Enable(x)
    \/ CheckDisable(x) \/ Disable(x)
    \/ RevokeSessions(x)
    \/ Answer(x) \/ Fail(x)

Next ==
    \/ \E x \in Executions : Arrive(x) \/ Step(x) \/ Expire(x)
    \/ Cleanup

Spec == Init /\ [][Next]_vars

-----------------------------------------------------------------------------
(* Properties *)

\* A challenge of session s whose code was right.
Proved(s) == \E x \in matched : Kind(x) = "challenge" /\ request[x].by = s

\* A login that met two-factor has a full session only through a challenge of
\* that very session with a right code.
FullSessionEarned ==
    \A s \in awaiting : Stored(s) /\ ~ session[s].half => Proved(s)

\* Nothing but the challenge is ever executed on a half session, also when its
\* row has changed or gone since.
HalfSessionsOnlyChallenge ==
    \A x \in Executions :
        request[x] \in Protected /\ Kind(x) # "challenge" /\ request[x].by \in awaiting
        => Proved(request[x].by)

\* The second factor comes first: whoever logged in to an account with
\* two-factor gets nothing but the challenge before a right code.
SecondFactorFirst == FullSessionEarned /\ HalfSessionsOnlyChallenge

\* Two-factor in force always asks for a secret whose owner has shown to have
\* it: a racing setup cannot lock the account to a secret nobody confirmed.
EnabledSecretConfirmed ==
    \A u \in Users : users[u].enabled =>
        \/ users[u].secret = Enrolled
        \/ \E x \in matched : Kind(x) = "verify" /\ request[x].user = u
                              /\ request[x].code = users[u].secret

\* What a sign-out ended no later step brings back, a challenge that was
\* under way included.
SignedOutStaysOut == \A s \in signedOut : ~ Usable(s)

SignsOut(x, u) ==
    /\ phase[x] = "authed" /\ phase'[x] = "logging"
    /\ Kind(x) \in {"logout", "revoke"}
    /\ SignedOutUser(request[x]) = u

\* A session ends only by expiry or by a sign-out of its own user.
LiveSessionsStay ==
    [][\A s \in Executions :
          Usable(s) /\ ~ Usable(s)' =>
              \/ Stored(s)' /\ session'[s].expired
              \/ \E x \in Executions : SignsOut(x, session[s].user)]_vars

\* The rows and handlers as sign-ins: a row that counts is one, and an
\* execution that can still insert a row may become one.
StatusOf(s) ==
    IF ~ Stored(s) /\ phase[s] \in {"idle", "creating"} THEN [of |-> NoSession, is |-> "unused"]
    ELSE IF ~ Usable(s) THEN [of |-> NoSession, is |-> "over"]
    ELSE [of |-> session[s].user,
          is |-> IF ~ session[s].half THEN "full" ELSE IF Proved(s) THEN "proved" ELSE "half"]

statusBar == [s \in Executions |-> StatusOf(s)]

\* Users whom an execution of logout or of a revocation is about to sign out.
orderedBar ==
    {SignedOutUser(request[x]) :
        x \in {y \in Executions : phase[y] = "authed" /\ Kind(y) \in {"logout", "revoke"}}}

Promise == INSTANCE SignIns
           WITH status <- statusBar, ordered <- orderedBar, Nobody <- NoSession

\* The handlers, statement by statement, keep the promise of SignIns.
ImplementsSignIns == Promise!Spec

=============================================================================
