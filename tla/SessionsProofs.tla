--------------------------- MODULE SessionsProofs ---------------------------
(***************************************************************************)
(* Proofs about Sessions for any users, admins and executions.  The        *)
(* invariant adds what each phase knows: a handler that is about to write  *)
(* after a code has had that code matched, and a session exists only after *)
(* its own login inserted it, so a signed-out one is never inserted again. *)
(***************************************************************************)
EXTENDS Sessions, TLAPS

Phases == Active \cup {"idle", "ok", "failed"}

\* What the phase of an execution says of its request and its results.
Begun(x) ==
    /\ phase[x] = "idle" => x \notin awaiting /\ x \notin matched /\ request[x] = NoRequest
    /\ phase[x] # "idle" => request[x] \in SignIn \cup Protected
    /\ phase[x] = "creating" => request[x] \in SignIn
    /\ phase[x] \in {"authed", "writing"} => request[x] \in Protected
    /\ phase[x] = "writing" /\ Kind(x) \in {"challenge", "verify"} => x \in matched

\* A session is inserted once, by a login that then goes on.
Inserted(s) ==
    /\ Stored(s) \/ s \in signedOut => phase[s] \notin {"idle", "creating"}
    /\ request[s] \in Protected => phase[request[s].by] \notin {"idle", "creating"}

Progress == \A x \in Executions : Begun(x) /\ Inserted(x)

Inv ==
    /\ TypeOK
    /\ Progress
    /\ FullSessionEarned
    /\ HalfSessionsOnlyChallenge
    /\ EnabledSecretConfirmed
    /\ SignedOutStaysOut

-----------------------------------------------------------------------------
(* Lemmas *)

LEMMA Kinds ==
    /\ \A q \in Protected :
           /\ q.kind \in {"logout", "setup", "challenge", "verify", "disable", "revoke"}
           /\ q.user \in Users /\ q.by \in Executions
           /\ q.kind \in {"challenge", "verify", "disable"} => q.code \in Secrets
           /\ q.kind = "revoke" => q.target \in Users
    /\ \A q \in SignIn : q.kind = "signin" /\ q.user \in Users
    /\ NoRequest.kind = "idle"
BY AdminsAssumption DEF Protected, SignIn, NoRequest

LEMMA Disjoint ==
    /\ \A q \in SignIn : q \notin Protected
    /\ NoRequest \notin Protected /\ NoRequest \notin SignIn
BY Kinds

LEMMA GotoStep ==
    ASSUME TypeOK, NEW x \in Executions, NEW p \in Phases, Goto(x, p)
    PROVE  /\ phase' \in [Executions -> Phases] /\ phase'[x] = p
           /\ \A y \in Executions : y # x => phase'[y] = phase[y]
BY DEF TypeOK, Goto, Phases

\* A right code stays recorded with its request.
Persist == \A x \in matched : x \in matched' /\ request'[x] = request[x]

LEMMA ProvedStays ==
    ASSUME Persist, NEW s, Proved(s)
    PROVE  Proved(s)'
BY DEF Persist, Proved, Kind

\* Sessions that become full have been proved, logins that begin have none.
LEMMA FullFrame ==
    ASSUME FullSessionEarned, Persist,
           \A s \in awaiting' : Stored(s)' /\ ~ session'[s].half =>
               Proved(s)' \/ (s \in awaiting /\ Stored(s) /\ ~ session[s].half)
    PROVE  FullSessionEarned'
BY ProvedStays DEF FullSessionEarned

LEMMA HalfFrame ==
    ASSUME HalfSessionsOnlyChallenge, Persist, UNCHANGED <<request, awaiting>>
    PROVE  HalfSessionsOnlyChallenge'
BY DEF HalfSessionsOnlyChallenge, Persist, Proved, Kind

LEMMA ConfirmedFrame ==
    ASSUME EnabledSecretConfirmed, Persist,
           \A u \in Users : users'[u].enabled =>
               \/ users[u].enabled /\ users'[u].secret = users[u].secret
               \/ \E x \in matched : Kind(x) = "verify" /\ request[x].user = u
                                     /\ request[x].code = users'[u].secret
    PROVE  EnabledSecretConfirmed'
BY DEF EnabledSecretConfirmed, Persist, Kind

LEMMA SignedOutFrame ==
    ASSUME SignedOutStaysOut, UNCHANGED signedOut,
           \A s \in signedOut : Usable(s)' => Usable(s)
    PROVE  SignedOutStaysOut'
BY DEF SignedOutStaysOut

LEMMA InitInv == Init => Inv
<1> SUFFICES ASSUME Init PROVE Inv
  OBVIOUS
<1>1. TypeOK
  <2>1. Off \in TwoFactor /\ On \in TwoFactor
    BY SecretsAssumption DEF TwoFactor, Off, On, Secrets
  <2>2. QED
    BY <2>1 DEF Init, TypeOK, Active
<1>2. Progress
  BY Disjoint DEF Init, Progress, Begun, Inserted, Stored
<1>3. FullSessionEarned /\ HalfSessionsOnlyChallenge /\ SignedOutStaysOut
  BY Disjoint DEF Init, FullSessionEarned, HalfSessionsOnlyChallenge, SignedOutStaysOut
<1>4. EnabledSecretConfirmed
  BY DEF Init, EnabledSecretConfirmed, Off, On
<1>5. QED
  BY <1>1, <1>2, <1>3, <1>4 DEF Inv

-----------------------------------------------------------------------------
(* Arrivals *)

LEMMA SignInStep ==
    ASSUME Inv, NEW x \in Executions, NEW u \in Users, Login(x, u) \/ PasskeyLogin(x, u)
    PROVE  Inv'
<1>1. /\ UNCHANGED <<users, session, matched, signedOut>>
      /\ phase[x] = "idle" /\ Goto(x, "creating")
      /\ awaiting' = awaiting \/ awaiting' = awaiting \cup {x}
      /\ TypeOK /\ Progress
  BY DEF Login, PasskeyLogin, Inv
<1>2. PICK q \in SignIn : request' = [request EXCEPT ![x] = q]
  BY DEF Login, PasskeyLogin, SignIn
<1>3. /\ phase' \in [Executions -> Phases] /\ phase'[x] = "creating"
      /\ \A y \in Executions : y # x => phase'[y] = phase[y]
  BY <1>1, GotoStep DEF Phases, Active
<1>4. /\ request' \in [Executions -> {NoRequest} \cup SignIn \cup Protected] /\ request'[x] = q
      /\ \A y \in Executions : y # x => request'[y] = request[y]
  BY <1>1, <1>2 DEF TypeOK
<1>5. Begun(x) /\ Inserted(x) /\ ~ Stored(x) /\ x \notin matched
  BY <1>1 DEF Progress, Begun, Inserted
<1>6. Persist
  BY <1>1, <1>4, <1>5 DEF Persist, TypeOK
<1>7. Progress'
  <2> SUFFICES ASSUME NEW y \in Executions PROVE Begun(y)' /\ Inserted(y)'
    BY DEF Progress
  <2>1. CASE y = x
    BY <1>1, <1>3, <1>4, <1>5, <2>1, Disjoint DEF Begun, Inserted, Stored
  <2>2. CASE y # x
    <3>1. Begun(y) /\ Inserted(y)
      BY <1>1 DEF Progress
    <3>2. request[y] \in Protected => request[y].by \in Executions
      BY Kinds
    <3>3. QED
      BY <1>1, <1>3, <1>4, <2>2, <3>1, <3>2 DEF Begun, Inserted, Stored, Kind
  <2>3. QED
    BY <2>1, <2>2
<1>8. FullSessionEarned'
  BY <1>1, <1>5, <1>6, FullFrame DEF Inv, Stored
<1>9. HalfSessionsOnlyChallenge'
  <2> SUFFICES ASSUME NEW y \in Executions, request'[y] \in Protected, request'[y].kind # "challenge",
                      request'[y].by \in awaiting'
               PROVE  Proved(request[y].by)'
    BY DEF HalfSessionsOnlyChallenge, Kind
  <2>1. y # x /\ request'[y] = request[y]
    BY <1>4, Disjoint
  <2>2. request[y].by # x
    BY <1>1, <2>1 DEF Progress, Inserted
  <2>3. Proved(request[y].by)
    BY <1>1, <2>1, <2>2 DEF Inv, HalfSessionsOnlyChallenge, Kind
  <2>4. QED
    BY <1>6, <2>1, <2>3 DEF Persist, Proved, Kind
<1>10. EnabledSecretConfirmed' /\ SignedOutStaysOut'
  BY <1>1, <1>6, ConfirmedFrame, SignedOutFrame DEF Inv, Usable, Stored
<1>11. awaiting' \subseteq Executions
  BY <1>1 DEF TypeOK
<1>12. QED
  BY <1>1, <1>3, <1>4, <1>7, <1>8, <1>9, <1>10, <1>11 DEF Inv, TypeOK, Phases

LEMMA AuthenticateStep ==
    ASSUME Inv, NEW x \in Executions, NEW s \in Executions, Stored(s), NEW q \in Asks(s),
           Authenticate(x, s, q)
    PROVE  Inv'
<1>1. /\ UNCHANGED <<users, session, awaiting, matched, signedOut>>
      /\ phase[x] = "idle" /\ phase[s] = "ok"
      /\ session[s].half => q.kind = "challenge"
      /\ request' = [request EXCEPT ![x] = q]
      /\ TypeOK /\ Progress
  BY DEF Authenticate, Inv
<1>2. q \in Protected /\ q.by = s
  <2>1. session[s].user \in Users
    BY <1>1 DEF TypeOK, Stored, Session
  <2>2. Known \subseteq Secrets
    BY DEF Known, Secrets
  <2>3. QED
    BY <2>1, <2>2 DEF Asks, Protected
<1>3. PICK p \in {"failed", "authed"} : Goto(x, p)
  BY DEF Authenticate
<1>4. /\ phase' \in [Executions -> Phases] /\ phase'[x] = p
      /\ \A y \in Executions : y # x => phase'[y] = phase[y]
  BY <1>1, <1>3, GotoStep DEF Phases, Active
<1>5. /\ request' \in [Executions -> {NoRequest} \cup SignIn \cup Protected] /\ request'[x] = q
      /\ \A y \in Executions : y # x => request'[y] = request[y]
  BY <1>1, <1>2 DEF TypeOK
<1>6. Begun(x) /\ Inserted(x) /\ ~ Stored(x) /\ x \notin matched /\ x \notin signedOut
  BY <1>1 DEF Progress, Begun, Inserted
<1>7. Persist
  BY <1>1, <1>5, <1>6 DEF Persist, TypeOK
<1>8. Progress'
  <2> SUFFICES ASSUME NEW y \in Executions PROVE Begun(y)' /\ Inserted(y)'
    BY DEF Progress
  <2>1. CASE y = x
    <3>1. Begun(x)'
      BY <1>2, <1>4, <1>5 DEF Begun
    <3>2. phase'[s] = "ok"
      BY <1>1, <1>4
    <3>3. QED
      BY <1>1, <1>2, <1>5, <1>6, <2>1, <3>1, <3>2 DEF Inserted, Stored
  <2>2. CASE y # x
    <3>1. Begun(y) /\ Inserted(y)
      BY <1>1 DEF Progress
    <3>2. request[y] \in Protected => request[y].by \in Executions
      BY Kinds
    <3>3. QED
      BY <1>1, <1>4, <1>5, <2>2, <3>1, <3>2 DEF Begun, Inserted, Stored, Kind
  <2>3. QED
    BY <2>1, <2>2
<1>9. FullSessionEarned'
  BY <1>1, <1>7, FullFrame DEF Inv, Stored
<1>10. HalfSessionsOnlyChallenge'
  <2> SUFFICES ASSUME NEW y \in Executions, request'[y] \in Protected, request'[y].kind # "challenge",
                      request'[y].by \in awaiting'
               PROVE  Proved(request[y].by)'
    BY DEF HalfSessionsOnlyChallenge, Kind
  <2>1. CASE y = x
    <3>1. Proved(s)
      BY <1>1, <1>2, <1>5, <2>1 DEF Inv, FullSessionEarned, Kind
    <3>2. QED
      BY <1>2, <1>5, <1>7, <2>1, <3>1 DEF Persist, Proved, Kind
  <2>2. CASE y # x
    <3>1. Proved(request[y].by)
      BY <1>1, <1>5, <2>2 DEF Inv, HalfSessionsOnlyChallenge, Kind
    <3>2. QED
      BY <1>5, <1>7, <2>2, <3>1 DEF Persist, Proved, Kind
  <2>3. QED
    BY <2>1, <2>2
<1>11. EnabledSecretConfirmed' /\ SignedOutStaysOut'
  BY <1>1, <1>7, ConfirmedFrame, SignedOutFrame DEF Inv, Usable, Stored
<1>12. QED
  BY <1>1, <1>4, <1>5, <1>8, <1>9, <1>10, <1>11 DEF Inv, TypeOK, Phases

-----------------------------------------------------------------------------
(* Steps of an execution under way *)

\* One execution goes on: what the other parts of the invariant need.
LEMMA ProgressFrame ==
    ASSUME TypeOK, Progress, NEW x \in Executions, phase[x] # "idle",
           NEW p \in Phases \ {"idle", "creating", "authed"}, Goto(x, p),
           UNCHANGED <<request, awaiting>>, matched \subseteq matched', matched' \subseteq matched \cup {x},
           \A s \in Executions : Stored(s)' \/ s \in signedOut' => s = x \/ Stored(s) \/ s \in signedOut,
           p = "writing" => /\ phase[x] = "authed"
                            /\ Kind(x) \in {"challenge", "verify"} => x \in matched'
    PROVE  Progress' /\ Persist /\ phase' \in [Executions -> Phases]
<1>1. /\ phase' \in [Executions -> Phases] /\ phase'[x] = p
      /\ \A y \in Executions : y # x => phase'[y] = phase[y]
  BY GotoStep
<1>2. Persist
  BY DEF Persist
<1>3. ASSUME NEW y \in Executions PROVE Begun(y)' /\ Inserted(y)'
  <2>1. Begun(y) /\ Inserted(y)
    BY DEF Progress
  <2>2. request[y] \in Protected => request[y].by \in Executions
    BY Kinds
  <2>3. Begun(y)'
    BY <1>1, <2>1 DEF Begun, Kind, Phases, Active
  <2>4. Inserted(y)'
    BY <1>1, <2>1, <2>2 DEF Inserted, Phases, Active
  <2>5. QED
    BY <2>3, <2>4
<1>4. QED
  BY <1>1, <1>2, <1>3 DEF Progress

\* Steps that write neither table.
LEMMA LocalStep ==
    ASSUME Inv, NEW x \in Executions,
           \/ CheckChallenge(x) \/ CheckSetup(x) \/ CheckPending(x) \/ CheckDisable(x)
           \/ Answer(x) \/ Fail(x)
    PROVE  Inv'
<1>1. UNCHANGED <<users, session, request, awaiting, signedOut>> /\ TypeOK /\ Progress
  BY DEF CheckChallenge, CheckSetup, CheckPending, CheckDisable, Answer, Fail, Inv
<1>2. /\ phase[x] # "idle" /\ matched \subseteq matched' /\ matched' \subseteq matched \cup {x}
      /\ \E p \in {"writing", "ok", "failed"} :
             /\ Goto(x, p)
             /\ p = "writing" => /\ phase[x] = "authed"
                                 /\ Kind(x) \in {"challenge", "verify"} => x \in matched'
  BY DEF CheckChallenge, CheckSetup, CheckPending, CheckDisable, Answer, Fail, Verify, Active
<1>3. PICK p \in {"writing", "ok", "failed"} :
          /\ Goto(x, p)
          /\ p = "writing" => /\ phase[x] = "authed"
                              /\ Kind(x) \in {"challenge", "verify"} => x \in matched'
  BY <1>2
<1>4. p \in Phases \ {"idle", "creating", "authed"}
  BY DEF Phases, Active
<1>5. \A s \in Executions : Stored(s)' \/ s \in signedOut' => s = x \/ Stored(s) \/ s \in signedOut
  BY <1>1 DEF Stored
<1>6. Progress' /\ Persist /\ phase' \in [Executions -> Phases]
  BY <1>1, <1>2, <1>3, <1>4, <1>5, ProgressFrame
<1>7. FullSessionEarned' /\ HalfSessionsOnlyChallenge'
  BY <1>1, <1>6, FullFrame, HalfFrame DEF Inv, Stored
<1>8. EnabledSecretConfirmed' /\ SignedOutStaysOut'
  BY <1>1, <1>6, ConfirmedFrame, SignedOutFrame DEF Inv, Usable, Stored
<1>9. QED
  BY <1>1, <1>2, <1>6, <1>7, <1>8 DEF Inv, TypeOK, Phases

\* Steps that write the two-factor columns.
LEMMA ColumnsStep ==
    ASSUME Inv, NEW x \in Executions, StorePending(x) \/ Enable(x) \/ Disable(x)
    PROVE  Inv'
<1>1. /\ UNCHANGED <<session, request, awaiting, matched, signedOut>> /\ TypeOK /\ Progress
      /\ phase[x] = "writing" /\ Goto(x, "logging")
  BY DEF StorePending, Enable, Disable, Inv
<1>2. request[x] \in Protected /\ request[x].user \in Users
  BY <1>1, Kinds DEF Progress, Begun
<1>3. \A s \in Executions : Stored(s)' \/ s \in signedOut' => s = x \/ Stored(s) \/ s \in signedOut
  BY <1>1 DEF Stored
<1>4. Progress' /\ Persist /\ phase' \in [Executions -> Phases]
  BY <1>1, <1>3, ProgressFrame DEF Phases, Active
<1>5. FullSessionEarned' /\ HalfSessionsOnlyChallenge' /\ SignedOutStaysOut'
  BY <1>1, <1>4, FullFrame, HalfFrame, SignedOutFrame DEF Inv, Usable, Stored
<1>6. PICK row \in TwoFactor :
          /\ users' = [users EXCEPT ![request[x].user] = row]
          /\ row.enabled => \/ users[request[x].user].enabled
                               /\ row.secret = users[request[x].user].secret
                            \/ x \in matched /\ Kind(x) = "verify" /\ request[x].code = row.secret
  <2>1. CASE StorePending(x)
    <3> DEFINE row == [users[request[x].user] EXCEPT !.pending = x]
    <3>1. users[request[x].user] \in TwoFactor
      BY <1>1, <1>2 DEF TypeOK
    <3>2. row \in TwoFactor /\ row.enabled = users[request[x].user].enabled
          /\ row.secret = users[request[x].user].secret
      BY <3>1 DEF TwoFactor, Secrets
    <3>3. users' = [users EXCEPT ![request[x].user] = row]
      BY <2>1 DEF StorePending
    <3>4. QED
      BY <3>2, <3>3
  <2>2. CASE Enable(x)
    <3> DEFINE row == [enabled |-> TRUE, secret |-> request[x].code, pending |-> NoSecret]
    <3>1. Kind(x) = "verify" /\ x \in matched /\ request[x].code \in Secrets
      BY <1>1, <1>2, <2>2, Kinds DEF Enable, Progress, Begun, Kind
    <3>2. row \in TwoFactor /\ row.secret = request[x].code
      BY <3>1, SecretsAssumption DEF TwoFactor, Secrets
    <3>3. users' = [users EXCEPT ![request[x].user] = row]
      BY <2>2 DEF Enable
    <3>4. QED
      BY <3>1, <3>2, <3>3
  <2>3. CASE Disable(x)
    <3>1. Off \in TwoFactor /\ ~ Off.enabled
      BY DEF TwoFactor, Off
    <3>2. QED
      BY <2>3, <3>1 DEF Disable
  <2>4. QED
    BY <2>1, <2>2, <2>3
<1>7. /\ users' \in [Users -> TwoFactor]
      /\ users'[request[x].user] = row
      /\ \A u \in Users : u # request[x].user => users'[u] = users[u]
  BY <1>1, <1>2, <1>6 DEF TypeOK
<1>8. EnabledSecretConfirmed'
  <2>1. \A u \in Users : users'[u].enabled =>
            \/ users[u].enabled /\ users'[u].secret = users[u].secret
            \/ \E z \in matched : Kind(z) = "verify" /\ request[z].user = u
                                  /\ request[z].code = users'[u].secret
    BY <1>6, <1>7
  <2>2. QED
    BY <1>4, <2>1, ConfirmedFrame DEF Inv
<1>9. QED
  BY <1>1, <1>4, <1>5, <1>7, <1>8 DEF Inv, TypeOK, Phases

-----------------------------------------------------------------------------
(* Steps that write the sessions table *)

LEMMA CreateStep ==
    ASSUME Inv, NEW x \in Executions, CreateSession(x)
    PROVE  Inv'
<1>1. /\ UNCHANGED <<users, request, awaiting, matched, signedOut>> /\ TypeOK /\ Progress
      /\ phase[x] = "creating" /\ Goto(x, "logging")
  BY DEF CreateSession, Inv
<1>2. request[x] \in SignIn /\ request[x].user \in Users /\ ~ Stored(x) /\ x \notin signedOut
  BY <1>1, Kinds DEF Progress, Begun, Inserted
<1>3. /\ session' \in [Executions -> Session \cup {NoSession}]
      /\ session'[x].half = (x \in awaiting)
      /\ \A s \in Executions : s # x => session'[s] = session[s]
  <2> DEFINE row == [user |-> request[x].user, half |-> x \in awaiting,
                     revoked |-> FALSE, expired |-> FALSE]
  <2>1. row \in Session
    BY <1>2 DEF Session
  <2>2. session' = [session EXCEPT ![x] = row]
    BY DEF CreateSession
  <2>3. QED
    BY <1>1, <2>1, <2>2 DEF TypeOK
<1>4. Progress' /\ Persist /\ phase' \in [Executions -> Phases]
  BY <1>1, <1>3, ProgressFrame DEF Phases, Active, Stored
<1>5. FullSessionEarned'
  BY <1>1, <1>3, <1>4, FullFrame DEF Inv, TypeOK, Stored
<1>6. SignedOutStaysOut'
  BY <1>1, <1>2, <1>3, SignedOutFrame DEF Inv, TypeOK, Usable, Stored
<1>7. HalfSessionsOnlyChallenge' /\ EnabledSecretConfirmed'
  BY <1>1, <1>4, HalfFrame, ConfirmedFrame DEF Inv
<1>8. QED
  BY <1>1, <1>3, <1>4, <1>5, <1>6, <1>7 DEF Inv, TypeOK, Phases

LEMMA ActivateStep ==
    ASSUME Inv, NEW x \in Executions, Activate(x)
    PROVE  Inv'
<1>1. /\ UNCHANGED <<users, request, awaiting, matched, signedOut>> /\ TypeOK /\ Progress
      /\ phase[x] = "writing" /\ Kind(x) = "challenge" /\ Goto(x, "logging")
  BY DEF Activate, Inv
<1>2. request[x].by \in Executions /\ x \in matched
  BY <1>1, Kinds DEF Progress, Begun
<1>3. /\ session' \in [Executions -> Session \cup {NoSession}]
      /\ \A s \in Executions : s # request[x].by => session'[s] = session[s]
      /\ \A s \in Executions : (Stored(s)' <=> Stored(s)) /\ (Usable(s)' <=> Usable(s))
  <2>1. CASE ~ Stored(request[x].by)
    BY <1>1, <2>1 DEF Activate, TypeOK, Stored, Usable
  <2>2. CASE Stored(request[x].by)
    <3> DEFINE row == [session[request[x].by] EXCEPT !.half = FALSE]
    <3>1. session[request[x].by] \in Session
      BY <1>1, <1>2, <2>2 DEF TypeOK, Stored
    <3>2. /\ row \in Session /\ row.revoked = session[request[x].by].revoked
          /\ row.expired = session[request[x].by].expired
      BY <3>1 DEF Session
    <3>3. session' = [session EXCEPT ![request[x].by] = row]
      BY <2>2 DEF Activate
    <3>4. QED
      BY <1>1, <1>2, <2>2, <3>2, <3>3, SessionAssumption DEF TypeOK, Stored, Usable
  <2>3. QED
    BY <2>1, <2>2
<1>4. Progress' /\ Persist /\ phase' \in [Executions -> Phases]
  BY <1>1, <1>3, ProgressFrame DEF Phases, Active
<1>5. Proved(request[x].by)'
  BY <1>1, <1>2 DEF Proved, Kind
<1>6. FullSessionEarned'
  BY <1>1, <1>3, <1>4, <1>5, FullFrame DEF Inv, TypeOK
<1>7. SignedOutStaysOut'
  BY <1>1, <1>3, SignedOutFrame DEF Inv, TypeOK
<1>8. HalfSessionsOnlyChallenge' /\ EnabledSecretConfirmed'
  BY <1>1, <1>4, HalfFrame, ConfirmedFrame DEF Inv
<1>9. QED
  BY <1>1, <1>3, <1>4, <1>6, <1>7, <1>8 DEF Inv, TypeOK, Phases

\* What an UPDATE of the revoked flags of some rows leaves.
LEMMA RevokedRows ==
    ASSUME TypeOK, NEW rows \in SUBSET Executions, \A s \in rows : Stored(s),
           session' = [s \in Executions |->
               IF s \in rows THEN [session[s] EXCEPT !.revoked = TRUE] ELSE session[s]]
    PROVE  /\ session' \in [Executions -> Session \cup {NoSession}]
           /\ \A s \in Executions \ rows : session'[s] = session[s]
           /\ \A s \in rows : Stored(s)' /\ session'[s].revoked /\ session'[s].half = session[s].half
<1>1. ASSUME NEW s \in rows
      PROVE  /\ session'[s] \in Session /\ session'[s].revoked
             /\ session'[s].half = session[s].half
  <2>1. session[s] \in Session
    BY DEF TypeOK, Stored
  <2>2. QED
    BY <2>1 DEF Session
<1>2. ASSUME NEW s \in Executions \ rows
      PROVE  session'[s] = session[s] /\ session'[s] \in Session \cup {NoSession}
  BY DEF TypeOK
<1>3. \A s \in Executions : session'[s] \in Session \cup {NoSession}
  BY <1>1, <1>2
<1>4. session' \in [Executions -> Session \cup {NoSession}]
  BY <1>3
<1>5. QED
  BY <1>1, <1>2, <1>4, SessionAssumption DEF Stored

LEMMA RevokeStep ==
    ASSUME Inv, NEW x \in Executions, RevokeSessions(x)
    PROVE  Inv'
<1> DEFINE theirs == Of(SignedOutUser(request[x]))
<1>1. /\ UNCHANGED <<users, request, awaiting, matched>> /\ TypeOK /\ Progress
      /\ phase[x] = "authed" /\ Goto(x, "logging")
      /\ signedOut' = signedOut \cup theirs
      /\ theirs \in SUBSET Executions /\ \A s \in theirs : Stored(s)
  BY DEF RevokeSessions, Inv, Of
<1>2. /\ session' \in [Executions -> Session \cup {NoSession}]
      /\ \A s \in Executions \ theirs : session'[s] = session[s]
      /\ \A s \in theirs : Stored(s)' /\ session'[s].revoked /\ session'[s].half = session[s].half
  <2>1. session' = [s \in Executions |->
            IF s \in theirs THEN [session[s] EXCEPT !.revoked = TRUE] ELSE session[s]]
    BY DEF RevokeSessions
  <2>2. QED
    BY <1>1, <2>1, RevokedRows
<1>3. Progress' /\ Persist /\ phase' \in [Executions -> Phases]
  BY <1>1, <1>2, ProgressFrame DEF Phases, Active, Stored
<1>4. FullSessionEarned'
  BY <1>1, <1>2, <1>3, FullFrame DEF Inv, TypeOK, Stored
<1>5. SignedOutStaysOut'
  BY <1>1, <1>2 DEF Inv, SignedOutStaysOut, Usable, Stored, TypeOK
<1>6. HalfSessionsOnlyChallenge' /\ EnabledSecretConfirmed'
  BY <1>1, <1>3, HalfFrame, ConfirmedFrame DEF Inv
<1>7. QED
  BY <1>1, <1>2, <1>3, <1>4, <1>5, <1>6 DEF Inv, TypeOK, Phases

\* Time and the cleanup job make no session usable or full.
LEMMA TimeStep ==
    ASSUME Inv, Cleanup \/ \E s \in Executions : Expire(s)
    PROVE  Inv'
<1>1. UNCHANGED <<users, request, phase, awaiting, matched, signedOut>> /\ TypeOK /\ Progress
  BY DEF Cleanup, Expire, Inv
<1> DEFINE NothingGained ==
              /\ session' \in [Executions -> Session \cup {NoSession}]
              /\ \A s \in Executions :
                     Stored(s)' => /\ Stored(s) /\ session'[s].half = session[s].half
                                   /\ Usable(s)' => Usable(s)
<1>2. NothingGained
  <2>1. CASE Cleanup
    BY <1>1, <2>1 DEF Cleanup, TypeOK, Stored, Usable
  <2>2. ASSUME NEW s \in Executions, Expire(s) PROVE NothingGained
    <3> DEFINE row == [session[s] EXCEPT !.expired = TRUE]
    <3>1. session[s] \in Session /\ session' = [session EXCEPT ![s] = row]
      BY <1>1, <2>2 DEF Expire, TypeOK, Stored
    <3>2. row \in Session /\ row.half = session[s].half /\ row.expired
      BY <3>1 DEF Session
    <3>3. /\ session' \in [Executions -> Session \cup {NoSession}] /\ session'[s] = row
          /\ \A t \in Executions : t # s => session'[t] = session[t]
      BY <1>1, <3>1, <3>2 DEF TypeOK
    <3>4. QED
      BY <1>1, <2>2, <3>2, <3>3 DEF Expire, Stored, Usable
  <2>3. QED
    BY <2>1, <2>2
<1>3. Progress' /\ Persist
  BY <1>1, <1>2 DEF Progress, Begun, Inserted, Persist, Kind
<1>4. FullSessionEarned' /\ HalfSessionsOnlyChallenge'
  BY <1>1, <1>2, <1>3, FullFrame, HalfFrame DEF Inv, TypeOK
<1>5. EnabledSecretConfirmed' /\ SignedOutStaysOut'
  BY <1>1, <1>2, <1>3, ConfirmedFrame, SignedOutFrame DEF Inv, TypeOK, Usable
<1>6. QED
  BY <1>1, <1>2, <1>3, <1>4, <1>5 DEF Inv, TypeOK

-----------------------------------------------------------------------------
(* Theorems *)

LEMMA StepInv == Inv /\ [Next]_vars => Inv'
<1> SUFFICES ASSUME Inv, [Next]_vars PROVE Inv'
  OBVIOUS
<1>1. ASSUME NEW x \in Executions, Arrive(x) PROVE Inv'
  BY <1>1, SignInStep, AuthenticateStep DEF Arrive
<1>2. ASSUME NEW x \in Executions, Step(x) PROVE Inv'
  BY <1>2, CreateStep, LocalStep, ActivateStep, ColumnsStep, RevokeStep DEF Step
<1>3. CASE Cleanup \/ \E s \in Executions : Expire(s)
  BY <1>3, TimeStep
<1>4. CASE UNCHANGED vars
  BY <1>4 DEF vars, Inv, TypeOK, Progress, Begun, Inserted, FullSessionEarned,
              HalfSessionsOnlyChallenge, EnabledSecretConfirmed, SignedOutStaysOut, Proved,
              Usable, Stored, Kind
<1>5. QED
  BY <1>1, <1>2, <1>3, <1>4 DEF Next

LEMMA Invariant == Spec => []Inv
BY InitInv, StepInv, PTL DEF Spec

\* Every reachable state is well typed; two-factor is never in force without a
\* secret (the internal error of disable_2fa cannot happen).
THEOREM TypeCorrect == Spec => []TypeOK
BY Invariant, PTL DEF Inv

\* A login that met two-factor is full only after a right code of its own
\* challenge, and until then its session executes the challenge only (the
\* extractor's path check).
THEOREM SecondFactorEarned == Spec => []SecondFactorFirst
BY Invariant, PTL DEF Inv, SecondFactorFirst

\* verify_2fa never puts a secret in force that nobody has shown to have.
THEOREM SecretConfirmed == Spec => []EnabledSecretConfirmed
BY Invariant, PTL DEF Inv

\* Logout and revocation are final for the sessions they find.
THEOREM SignOutFinal == Spec => []SignedOutStaysOut
BY Invariant, PTL DEF Inv

\* The steps that end a session: time, and a sign-out of its user.
LEMMA EndsStep ==
    ASSUME Inv, [Next]_vars, NEW s \in Executions, Usable(s), ~ Usable(s)'
    PROVE  \/ Stored(s)' /\ session'[s].expired
           \/ \E x \in Executions : SignsOut(x, session[s].user)
<1>1. session[s] \in Session /\ session[s] # NoSession
      /\ session \in [Executions -> Session \cup {NoSession}]
  BY DEF Usable, Stored, TypeOK, Inv
<1>2. session' # session
  BY DEF Usable, Stored
<1>3. ASSUME NEW x \in Executions, CreateSession(x) PROVE FALSE
  <2>1. ~ Stored(x)
    BY <1>3 DEF CreateSession, Inv, Progress, Begun, Inserted
  <2>2. session'[s] = session[s]
    BY <1>1, <1>3, <2>1 DEF CreateSession, Usable
  <2>3. QED
    BY <2>2 DEF Usable, Stored
<1>4. ASSUME NEW x \in Executions, Activate(x) PROVE FALSE
  <2> DEFINE row == [session[s] EXCEPT !.half = FALSE]
  <2>1. row \in Session /\ row.revoked = session[s].revoked /\ row.expired = session[s].expired
    BY <1>1 DEF Session
  <2>2. session'[s] = session[s] \/ session'[s] = row
    BY <1>1, <1>4 DEF Activate
  <2>3. QED
    BY <2>1, <2>2, SessionAssumption DEF Usable, Stored
<1>5. ASSUME NEW x \in Executions, RevokeSessions(x)
      PROVE  SignsOut(x, session[s].user)
  <2>1. s \in Of(SignedOutUser(request[x]))
    BY <1>1, <1>5 DEF RevokeSessions, Usable, Stored
  <2>2. QED
    BY <1>5, <2>1 DEF RevokeSessions, SignsOut, Of, Goto, Inv, TypeOK
<1>6. ASSUME NEW t \in Executions, Expire(t) PROVE Stored(s)' /\ session'[s].expired
  <2> DEFINE row == [session[s] EXCEPT !.expired = TRUE]
  <2>1. row \in Session /\ row.expired
    BY <1>1 DEF Session
  <2>2. session'[s] = session[s] \/ session'[s] = row
    BY <1>1, <1>6 DEF Expire
  <2>3. QED
    BY <2>1, <2>2, SessionAssumption DEF Usable, Stored
<1>7. ~ Cleanup
  BY <1>1 DEF Cleanup, Usable, Stored
<1>8. ASSUME NEW x \in Executions, Arrive(x) PROVE FALSE
  BY <1>2, <1>8 DEF Arrive, Login, PasskeyLogin, Authenticate
<1>9. ASSUME NEW x \in Executions, Step(x)
      PROVE  CreateSession(x) \/ Activate(x) \/ RevokeSessions(x)
  BY <1>2, <1>9 DEF Step, CheckChallenge, CheckSetup, StorePending, CheckPending, Enable,
                    CheckDisable, Disable, Answer, Fail
<1>10. QED
  BY <1>2, <1>3, <1>4, <1>5, <1>6, <1>7, <1>8, <1>9 DEF Next, vars

\* Nobody else's sign-out, no challenge and no cleanup tick ends a live session.
THEOREM LiveSessionsKept == Spec => LiveSessionsStay
<1>1. Inv /\ [Next]_vars =>
        [\A s \in Executions :
          Usable(s) /\ ~ Usable(s)' =>
              \/ Stored(s)' /\ session'[s].expired
              \/ \E x \in Executions : SignsOut(x, session[s].user)]_vars
  BY EndsStep
<1>2. QED
  BY <1>1, Invariant, PTL DEF Spec, LiveSessionsStay

-----------------------------------------------------------------------------
(* Sessions implements SignIns *)

Quiet == UNCHANGED statusBar

\* Executions whose sign-out is ordered and not done.
Waiting == {y \in Executions : phase[y] = "authed" /\ Kind(y) \in {"logout", "revoke"}}

Unborn(s) == ~ Stored(s) /\ phase[s] \in {"idle", "creating"}

Kept(s) == StatusOf(s)' = StatusOf(s)

LEMMA StatusValues ==
    ASSUME NEW s \in Executions
    PROVE  /\ statusBar[s] = StatusOf(s) /\ statusBar'[s] = StatusOf(s)'
           /\ Unborn(s) => StatusOf(s) = Promise!Unused
           /\ ~ Unborn(s) /\ ~ Usable(s) => StatusOf(s) = Promise!Over
           /\ Usable(s) => StatusOf(s) =
                  [of |-> session[s].user,
                   is |-> IF ~ session[s].half THEN "full"
                          ELSE IF Proved(s) THEN "proved" ELSE "half"]
           /\ Promise!Unused # Promise!Over
<1>1. Promise!Unused # Promise!Over
  <2>1. Promise!Unused.is = "unused" /\ Promise!Over.is = "over"
    BY DEF Promise!Unused, Promise!Over
  <2>2. QED
    BY <2>1
<1>2. QED
  BY <1>1 DEF statusBar, StatusOf, Unborn, Usable, Promise!Unused, Promise!Over

\* A row, its proof and the chance to insert one decide the status.
LEMMA SameStatus ==
    ASSUME NEW s, session'[s] = session[s], Proved(s)' <=> Proved(s),
           Stored(s) \/ (Unborn(s)' <=> Unborn(s))
    PROVE  Kept(s)
BY DEF Kept, StatusOf, Usable, Stored, Unborn

LEMMA AllKept ==
    ASSUME \A s \in Executions : Kept(s)
    PROVE  Quiet
BY DEF Quiet, Kept, statusBar

LEMMA OneMoves ==
    ASSUME NEW s \in Executions, \A r \in Executions \ {s} : Kept(r)
    PROVE  Promise!Becomes(s, StatusOf(s)')
<1> DEFINE new == StatusOf(s)'
<1>1. statusBar'[s] = new /\ \A r \in Executions \ {s} : statusBar'[r] = statusBar[r]
  BY DEF statusBar, Kept
<1>2. /\ statusBar' = [r \in Executions |-> statusBar'[r]]
      /\ statusBar = [r \in Executions |-> statusBar[r]]
  BY DEF statusBar
<1> HIDE DEF new
<1>3. statusBar' = [statusBar EXCEPT ![s] = new]
  BY <1>1, <1>2, Zenon
<1>4. QED
  BY <1>3 DEF Promise!Becomes, new

LEMMA SameProof ==
    ASSUME NEW s, matched' = matched, \A y \in matched : request'[y] = request[y]
    PROVE  Proved(s)' <=> Proved(s)
BY DEF Proved, Kind

LEMMA SameOrders ==
    ASSUME Waiting' = Waiting, \A y \in Waiting : request'[y] = request[y]
    PROVE  orderedBar' = orderedBar
<1>1. /\ orderedBar = {SignedOutUser(request[y]) : y \in Waiting}
      /\ orderedBar' = {SignedOutUser(request'[y]) : y \in Waiting'}
  BY DEF orderedBar, Waiting
<1>2. QED
  BY <1>1 DEF SignedOutUser

\* An execution goes on: it may have waited to sign a user out.
LEMMA OrdersStep ==
    ASSUME TypeOK, NEW x \in Executions, NEW p \in Phases \ {"authed"}, Goto(x, p), UNCHANGED request
    PROVE  /\ x \notin Waiting => orderedBar' = orderedBar
           /\ x \in Waiting =>
                  /\ SignedOutUser(request[x]) \in orderedBar
                  /\ orderedBar' \in {orderedBar, orderedBar \ {SignedOutUser(request[x])}}
<1>1. Waiting' = Waiting \ {x}
  BY GotoStep DEF Waiting, Kind
<1>2. /\ orderedBar = {SignedOutUser(request[y]) : y \in Waiting}
      /\ orderedBar' = {SignedOutUser(request[y]) : y \in Waiting \ {x}}
  BY <1>1 DEF orderedBar, Waiting, SignedOutUser
<1>3. QED
  BY <1>2

LEMMA InitRefines == Init => Promise!Init
<1> SUFFICES ASSUME Init PROVE Promise!Init
  OBVIOUS
<1>1. \A s \in Executions : StatusOf(s) = Promise!Unused
  BY DEF Init, StatusOf, Stored, Promise!Unused
<1>2. orderedBar = {}
  BY DEF Init, orderedBar
<1>3. QED
  BY <1>1, <1>2 DEF Promise!Init, statusBar

LEMMA Stutters ==
    ASSUME Quiet, orderedBar' = orderedBar
    PROVE  UNCHANGED Promise!vars
BY DEF Quiet, Promise!vars

\* One sign-in moves; a move that changes nothing is a stutter.
LEMMA Moves ==
    ASSUME NEW s \in Executions,
           \/ Promise!Begin(s) \/ Promise!Prove(s) \/ Promise!Promote(s) \/ Promise!End(s)
           \/ \E u \in Users : Promise!Order(s, u)
    PROVE  [Promise!Next]_Promise!vars
<1>1. CASE ~ Quiet
  BY <1>1 DEF Promise!Next, Quiet
<1>2. CASE Quiet
  <2>1. ~ \E u \in Users : Promise!Order(s, u)
    <3> SUFFICES ASSUME NEW u \in Users, Promise!Order(s, u) PROVE FALSE
      OBVIOUS
    <3>1. /\ statusBar[s] = Promise!Unused
          /\ statusBar' = [statusBar EXCEPT ![s] = Promise!Over]
      BY DEF Promise!Order, Promise!Becomes
    <3>2. statusBar = [r \in Executions |-> statusBar[r]]
      BY DEF statusBar
    <3>3. statusBar'[s] = Promise!Over
      BY <3>1, <3>2
    <3>4. QED
      BY <1>2, <3>1, <3>3, StatusValues DEF Quiet
  <2>2. orderedBar' = orderedBar
    BY <2>1 DEF Promise!Begin, Promise!Prove, Promise!Promote, Promise!End
  <2>3. QED
    BY <1>2, <2>2, Stutters
<1>3. QED
  BY <1>1, <1>2

LEMMA SignInRefines ==
    ASSUME Inv, NEW x \in Executions, NEW u \in Users, Login(x, u) \/ PasskeyLogin(x, u)
    PROVE  [Promise!Next]_Promise!vars
<1>1. /\ UNCHANGED <<session, matched>> /\ phase[x] = "idle" /\ Goto(x, "creating")
      /\ TypeOK /\ Progress /\ \A y \in Executions : y # x => request'[y] = request[y]
  BY DEF Login, PasskeyLogin, Inv, TypeOK
<1>2. x \notin matched /\ x \notin Waiting /\ ~ Stored(x)
  BY <1>1 DEF Progress, Begun, Inserted, Waiting
<1>3. phase'[x] = "creating" /\ \A y \in Executions : y # x => phase'[y] = phase[y]
  BY <1>1, GotoStep DEF Phases, Active
<1>4. \A s \in Executions : Kept(s)
  <2> SUFFICES ASSUME NEW s \in Executions PROVE Kept(s)
    OBVIOUS
  <2>1. Proved(s)' <=> Proved(s)
    BY <1>1, <1>2, SameProof DEF TypeOK
  <2>2. Unborn(s)' <=> Unborn(s)
    BY <1>1, <1>3 DEF Unborn, Stored
  <2>3. QED
    BY <1>1, <2>1, <2>2, SameStatus
<1>5. Waiting' = Waiting /\ \A y \in Waiting : request'[y] = request[y]
  BY <1>1, <1>2, <1>3 DEF Waiting, Kind
<1>6. QED
  BY <1>4, <1>5, AllKept, SameOrders, Stutters

LEMMA AuthenticateRefines ==
    ASSUME Inv, NEW x \in Executions, NEW s \in Executions, Stored(s), NEW q \in Asks(s),
           Authenticate(x, s, q)
    PROVE  [Promise!Next]_Promise!vars
<1>1. /\ UNCHANGED <<session, matched>> /\ phase[x] = "idle" /\ Usable(s)
      /\ session[s].half => q.kind = "challenge"
      /\ request' = [request EXCEPT ![x] = q]
      /\ TypeOK /\ Progress
  BY DEF Authenticate, Inv
<1>2. request'[x] = q /\ \A y \in Executions : y # x => request'[y] = request[y]
  BY <1>1 DEF TypeOK
<1>3. x \notin matched /\ x \notin Waiting /\ ~ Stored(x)
  BY <1>1 DEF Progress, Begun, Inserted, Waiting
<1>4. /\ phase'[x] \in {"failed", "authed"}
      /\ q.kind \in {"logout", "revoke"} => phase'[x] = "authed"
      /\ \A y \in Executions : y # x => phase'[y] = phase[y]
  <2>1. PICK p \in {"failed", "authed"} :
            Goto(x, p) /\ (q.kind \in {"logout", "revoke"} => p = "authed")
    BY DEF Authenticate
  <2>2. QED
    BY <1>1, <2>1, GotoStep DEF Phases, Active
<1>5. \A r \in Executions \ {x} : Kept(r)
  <2> SUFFICES ASSUME NEW r \in Executions \ {x} PROVE Kept(r)
    OBVIOUS
  <2>1. Proved(r)' <=> Proved(r)
    BY <1>1, <1>2, <1>3, SameProof DEF TypeOK
  <2>2. Unborn(r)' <=> Unborn(r)
    BY <1>1, <1>4 DEF Unborn, Stored
  <2>3. QED
    BY <1>1, <2>1, <2>2, SameStatus
<1>6. statusBar[x] = Promise!Unused /\ Promise!Becomes(x, Promise!Over)
  <2>1. Unborn(x)
    BY <1>1, <1>3 DEF Unborn
  <2>2. StatusOf(x)' = Promise!Over
    BY <1>1, <1>3, <1>4 DEF StatusOf, Usable, Stored, Promise!Over
  <2>3. QED
    BY <1>5, <2>1, <2>2, OneMoves, StatusValues
<1>7. CASE q.kind \notin {"logout", "revoke"}
  <2>1. Waiting' = Waiting /\ \A y \in Waiting : request'[y] = request[y]
    BY <1>2, <1>3, <1>4, <1>7 DEF Waiting, Kind
  <2>2. Promise!End(x)
    BY <1>6, <2>1, SameOrders, StatusValues DEF Promise!End
  <2>3. QED
    BY <2>2, Moves
<1>8. CASE q.kind \in {"logout", "revoke"}
  <2> DEFINE u == SignedOutUser(q)
  <2>1. session[s].user \in Users
    BY <1>1 DEF TypeOK, Stored, Session
  <2>2. u \in Users /\ session[s].user \in {u} \cup Admins
    BY <1>8, <2>1 DEF Asks, SignedOutUser
  <2>3. statusBar[s].is = "full" /\ statusBar[s].of \in {u} \cup Admins
    BY <1>1, <1>8, <2>2, StatusValues
  <2>4. orderedBar' = orderedBar \cup {u}
    <3>1. Waiting' = Waiting \cup {x} /\ \A y \in Waiting : request'[y] = request[y]
      BY <1>2, <1>3, <1>4, <1>8 DEF Waiting, Kind
    <3>2. /\ orderedBar = {SignedOutUser(request[y]) : y \in Waiting}
          /\ orderedBar' = {SignedOutUser(request'[y]) : y \in Waiting'}
      BY DEF orderedBar, Waiting
    <3> HIDE DEF u
    <3>3. \A y \in Waiting : SignedOutUser(request'[y]) = SignedOutUser(request[y])
      BY <3>1
    <3>4. SignedOutUser(request'[x]) = u
      BY <1>2 DEF u
    <3>5. QED
      BY <3>1, <3>2, <3>3, <3>4
  <2> HIDE DEF u
  <2>5. Promise!Order(x, u)
    BY <1>6, <2>3, <2>4 DEF Promise!Order
  <2>6. QED
    BY <2>2, <2>5, Moves
<1>9. QED
  BY <1>7, <1>8

LEMMA CreateRefines ==
    ASSUME Inv, NEW x \in Executions, CreateSession(x)
    PROVE  [Promise!Next]_Promise!vars
<1> DEFINE row == [user |-> request[x].user, half |-> x \in awaiting,
                   revoked |-> FALSE, expired |-> FALSE]
<1>1. /\ UNCHANGED <<request, matched>> /\ phase[x] = "creating" /\ Goto(x, "logging")
      /\ session' = [session EXCEPT ![x] = row] /\ TypeOK /\ Progress
  BY DEF CreateSession, Inv
<1>2. request[x].user \in Users /\ ~ Stored(x) /\ x \notin Waiting
  BY <1>1, Kinds DEF Progress, Begun, Inserted, Waiting
<1>3. phase'[x] = "logging" /\ \A y \in Executions : y # x => phase'[y] = phase[y]
  BY <1>1, GotoStep DEF Phases, Active
<1>4. row \in Session
  BY <1>2 DEF Session
<1>5. session'[x] = row /\ \A r \in Executions \ {x} : session'[r] = session[r]
  BY <1>1 DEF TypeOK
<1>6. \A r : Proved(r)' <=> Proved(r)
  BY <1>1, SameProof
<1>7. \A r \in Executions \ {x} : Kept(r)
  <2> SUFFICES ASSUME NEW r \in Executions \ {x} PROVE Kept(r)
    OBVIOUS
  <2>1. Unborn(r)' <=> Unborn(r)
    BY <1>3, <1>5 DEF Unborn, Stored
  <2>2. QED
    BY <1>5, <1>6, <2>1, SameStatus
<1>8. ~ Proved(x)
  <2> SUFFICES ASSUME NEW y \in matched, Kind(y) = "challenge", request[y].by = x PROVE FALSE
    BY DEF Proved
  <2>1. y \in Executions
    BY <1>1 DEF TypeOK
  <2>2. request[y] \in Protected
    BY <1>1, <2>1, Kinds DEF Progress, Begun, Kind
  <2>3. QED
    BY <1>1, <2>1, <2>2 DEF Progress, Inserted
<1>9. PICK h \in {"half", "full"} : StatusOf(x)' = [of |-> request[x].user, is |-> h]
  <2>1. Usable(x)' /\ session'[x].user = request[x].user
    <3>1. ~ row.revoked /\ ~ row.expired /\ row.user = request[x].user /\ row # NoSession
      BY <1>4, SessionAssumption
    <3> HIDE DEF row
    <3>2. QED
      BY <1>5, <3>1 DEF Usable, Stored
  <2>2. StatusOf(x)' = [of |-> session'[x].user,
                        is |-> IF ~ session'[x].half THEN "full"
                               ELSE IF Proved(x)' THEN "proved" ELSE "half"]
    BY <2>1 DEF StatusOf, Usable
  <2>3. QED
    BY <1>6, <1>8, <2>1, <2>2
<1>10. statusBar[x] = Promise!Unused
  BY <1>1, <1>2, StatusValues DEF Unborn
<1>11. orderedBar' = orderedBar
  BY <1>1, <1>2, OrdersStep DEF Phases, Active
<1>12. Promise!Begin(x)
  BY <1>2, <1>7, <1>9, <1>10, <1>11, OneMoves DEF Promise!Begin
<1>13. QED
  BY <1>12, Moves

\* What is told apart of a handler under way that goes on.
LEMMA GoesOn ==
    ASSUME TypeOK, NEW x \in Executions, phase[x] \notin {"idle", "creating"},
           NEW p \in Phases \ {"idle", "creating", "authed"}, Goto(x, p),
           NEW s \in Executions, session'[s] = session[s], Proved(s)' <=> Proved(s)
    PROVE  Kept(s)
<1>1. Unborn(s)' <=> Unborn(s)
  BY GotoStep DEF Unborn, Stored, Phases, Active
<1>2. QED
  BY <1>1, SameStatus

\* Steps that change no row of sessions and match no code of a challenge.
LEMMA LocalRefines ==
    ASSUME Inv, NEW x \in Executions,
           \/ CheckSetup(x) \/ CheckPending(x) \/ CheckDisable(x)
           \/ StorePending(x) \/ Enable(x) \/ Disable(x) \/ Answer(x)
    PROVE  [Promise!Next]_Promise!vars
<1>1. /\ UNCHANGED <<session, request>> /\ TypeOK
      /\ matched' = matched \/ (matched' = matched \cup {x} /\ Kind(x) # "challenge")
      /\ phase[x] \notin {"idle", "creating"} /\ x \notin Waiting
  <2>1. TypeOK
    BY DEF Inv
  <2>2. CASE CheckSetup(x)
    BY <2>1, <2>2 DEF CheckSetup, Waiting
  <2>3. CASE CheckPending(x)
    BY <2>1, <2>3 DEF CheckPending, Verify, Waiting
  <2>4. CASE CheckDisable(x)
    BY <2>1, <2>4 DEF CheckDisable, Verify, Waiting
  <2>5. CASE StorePending(x)
    BY <2>1, <2>5 DEF StorePending, Waiting
  <2>6. CASE Enable(x)
    BY <2>1, <2>6 DEF Enable, Waiting
  <2>7. CASE Disable(x)
    BY <2>1, <2>7 DEF Disable, Waiting
  <2>8. CASE Answer(x)
    BY <2>1, <2>8 DEF Answer, Waiting
  <2>9. QED
    BY <2>2, <2>3, <2>4, <2>5, <2>6, <2>7, <2>8
<1>2. PICK p \in {"writing", "logging", "ok", "failed"} : Goto(x, p)
  BY DEF CheckSetup, CheckPending, CheckDisable, StorePending, Enable, Disable, Answer, Verify
<1>3. p \in Phases \ {"idle", "creating", "authed"}
  BY DEF Phases, Active
<1>4. \A s : Proved(s)' <=> Proved(s)
  BY <1>1 DEF Proved, Kind
<1>5. Quiet
  BY <1>1, <1>2, <1>3, <1>4, GoesOn, AllKept
<1>6. orderedBar' = orderedBar
  BY <1>1, <1>2, <1>3, OrdersStep
<1>7. QED
  BY <1>5, <1>6, Stutters

\* A right code proves the half session that it was asked for, if it counts.
LEMMA ChallengeRefines ==
    ASSUME Inv, NEW x \in Executions, CheckChallenge(x)
    PROVE  [Promise!Next]_Promise!vars
<1>1. /\ UNCHANGED <<session, request>> /\ TypeOK /\ Progress
      /\ phase[x] = "authed" /\ Kind(x) = "challenge" /\ x \notin Waiting
      /\ matched' = matched \/ matched' = matched \cup {x}
  BY DEF Inv, CheckChallenge, Verify, Waiting
<1>2. PICK p \in {"writing", "failed"} : Goto(x, p)
  BY DEF CheckChallenge, Verify
<1>3. p \in Phases \ {"idle", "creating", "authed"}
  BY DEF Phases, Active
<1>4. PICK s \in Executions : s = request[x].by
  BY <1>1, Kinds DEF Progress, Begun
<1>5. \A r : r # s => (Proved(r)' <=> Proved(r))
  BY <1>1, <1>4 DEF Proved, Kind
<1>6. Proved(s) => Proved(s)'
  BY <1>1 DEF Proved, Kind
<1>7. \A r \in Executions \ {s} : Kept(r)
  BY <1>1, <1>2, <1>3, <1>5, GoesOn
<1>8. orderedBar' = orderedBar
  BY <1>1, <1>2, <1>3, OrdersStep
<1>9. CASE Kept(s)
  BY <1>4, <1>7, <1>8, <1>9, AllKept, Stutters
<1>10. CASE ~ Kept(s)
  <2>1. Usable(s) /\ session[s].half /\ ~ Proved(s) /\ Proved(s)'
    <3>1. ~ Proved(s) /\ Proved(s)'
      BY <1>1, <1>2, <1>3, <1>4, <1>6, <1>10, GoesOn
    <3>2. Usable(s) /\ session[s].half
      <4>1. Unborn(s)' <=> Unborn(s)
        BY <1>1, <1>2, <1>3, <1>4, GotoStep DEF Unborn, Stored, Phases, Active
      <4>2. QED
        BY <1>1, <1>10, <4>1 DEF Kept, StatusOf, Usable, Stored, Unborn
    <3>3. QED
      BY <3>1, <3>2
  <2>2. statusBar[s] = [of |-> session[s].user, is |-> "half"]
    BY <1>4, <2>1, StatusValues
  <2>3. StatusOf(s)' = [of |-> session[s].user, is |-> "proved"]
    BY <1>1, <2>1 DEF StatusOf, Usable, Stored
  <2>4. Promise!Becomes(s, [statusBar[s] EXCEPT !.is = "proved"])
    <3>1. [statusBar[s] EXCEPT !.is = "proved"] = [of |-> session[s].user, is |-> "proved"]
      BY <2>2
    <3>2. QED
      BY <1>4, <1>7, <2>3, <3>1, OneMoves
  <2>5. Promise!Prove(s)
    BY <1>8, <2>2, <2>4 DEF Promise!Prove
  <2>6. QED
    BY <1>4, <2>5, Moves
<1>11. QED
  BY <1>9, <1>10

\* Only a sign-in whose row is not there yet can fail.
LEMMA FailRefines ==
    ASSUME Inv, NEW x \in Executions, Fail(x)
    PROVE  [Promise!Next]_Promise!vars
<1>1. /\ UNCHANGED <<session, request, matched>> /\ TypeOK /\ Progress
      /\ phase[x] \in Active /\ Goto(x, "failed")
  BY DEF Inv, Fail
<1>2. \A s : Proved(s)' <=> Proved(s)
  BY <1>1, SameProof
<1>3. "failed" \in Phases \ {"idle", "creating", "authed"}
  BY DEF Phases
<1>4. CASE phase[x] = "creating"
  <2>1. x \notin Waiting /\ Unborn(x)
    BY <1>1, <1>4 DEF Waiting, Unborn, Progress, Inserted
  <2>2. orderedBar' = orderedBar
    BY <1>1, <1>3, <2>1, OrdersStep
  <2>3. phase'[x] = "failed" /\ \A y \in Executions : y # x => phase'[y] = phase[y]
    BY <1>1, <1>3, GotoStep
  <2>4. ASSUME NEW r \in Executions \ {x} PROVE Kept(r)
    <3>1. Unborn(r)' <=> Unborn(r)
      BY <1>1, <2>3 DEF Unborn, Stored
    <3>2. QED
      BY <1>1, <1>2, <3>1, SameStatus
  <2>5. StatusOf(x)' = Promise!Over
    BY <1>1, <2>1, <2>3 DEF StatusOf, Unborn, Usable, Stored, Promise!Over
  <2>6. Promise!End(x)
    BY <2>1, <2>2, <2>4, <2>5, OneMoves, StatusValues DEF Promise!End
  <2>7. QED
    BY <2>6, Moves
<1>5. CASE phase[x] # "creating"
  <2>1. phase[x] \notin {"idle", "creating"}
    BY <1>1, <1>5 DEF Active
  <2>2. Quiet
    BY <1>1, <1>2, <1>3, <2>1, GoesOn, AllKept
  <2>3. orderedBar' = orderedBar
        \/ \E u \in orderedBar : orderedBar' = orderedBar \ {u}
    BY <1>1, <1>3, OrdersStep
  <2>4. ASSUME NEW u \in orderedBar, orderedBar' = orderedBar \ {u} PROVE Promise!Next
    BY <2>2, <2>4 DEF Promise!Next, Promise!Forget, Quiet
  <2>5. QED
    BY <2>2, <2>3, <2>4, Stutters
<1>6. QED
  BY <1>4, <1>5

\* The UPDATE of the challenge finds a proved row, or one that does not count.
LEMMA ActivateRefines ==
    ASSUME Inv, NEW x \in Executions, Activate(x)
    PROVE  [Promise!Next]_Promise!vars
<1>1. /\ UNCHANGED <<request, matched>> /\ TypeOK /\ Progress
      /\ phase[x] = "writing" /\ Kind(x) = "challenge" /\ Goto(x, "logging")
  BY DEF Activate, Inv
<1>2. PICK s \in Executions : s = request[x].by
  BY <1>1, Kinds DEF Progress, Begun
<1>3. "logging" \in Phases \ {"idle", "creating", "authed"} /\ x \notin Waiting
  BY <1>1 DEF Phases, Active, Waiting
<1>4. \A r : Proved(r)' <=> Proved(r)
  BY <1>1, SameProof
<1>5. orderedBar' = orderedBar
  BY <1>1, <1>3, OrdersStep
<1>6. Proved(s)
  BY <1>1, <1>2 DEF Progress, Begun, Proved, Kind
<1>7. session' = IF Stored(s) THEN [session EXCEPT ![s].half = FALSE] ELSE session
  BY <1>2 DEF Activate
<1>8. \A r \in Executions \ {s} : Kept(r)
  <2>1. \A r \in Executions \ {s} : session'[r] = session[r]
    BY <1>1, <1>7 DEF TypeOK
  <2>2. QED
    BY <1>1, <1>3, <1>4, <2>1, GoesOn
<1>9. CASE ~ Stored(s)
  <2>1. Kept(s)
    BY <1>1, <1>3, <1>4, <1>7, <1>9, GoesOn
  <2>2. QED
    BY <1>5, <1>8, <2>1, AllKept, Stutters
<1>10. CASE Stored(s)
  <2>1. session[s] \in Session
    BY <1>1, <1>10 DEF TypeOK, Stored
  <2>2. /\ session'[s] \in Session /\ ~ session'[s].half
        /\ session'[s].user = session[s].user
        /\ session'[s].revoked = session[s].revoked /\ session'[s].expired = session[s].expired
    <3> DEFINE row == [session[s] EXCEPT !.half = FALSE]
    <3>1. /\ row \in Session /\ ~ row.half /\ row.user = session[s].user
          /\ row.revoked = session[s].revoked /\ row.expired = session[s].expired
      BY <2>1 DEF Session
    <3>2. session'[s] = row
      BY <1>1, <1>7, <1>10 DEF TypeOK
    <3> HIDE DEF row
    <3>3. QED
      BY <3>1, <3>2
  <2>3. Stored(s)' /\ (Usable(s)' <=> Usable(s))
    BY <1>10, <2>2, SessionAssumption DEF Usable, Stored
  <2>4. CASE ~ Usable(s) \/ ~ session[s].half
    <3>1. Kept(s)
      BY <1>10, <2>2, <2>3, <2>4 DEF Kept, StatusOf, Stored
    <3>2. QED
      BY <1>5, <1>8, <3>1, AllKept, Stutters
  <2>5. CASE Usable(s) /\ session[s].half
    <3>1. statusBar[s] = [of |-> session[s].user, is |-> "proved"]
      BY <1>6, <2>5, StatusValues
    <3>2. StatusOf(s)' = [of |-> session[s].user, is |-> "full"]
      BY <2>2, <2>3, <2>5 DEF StatusOf
    <3>3. [statusBar[s] EXCEPT !.is = "full"] = [of |-> session[s].user, is |-> "full"]
      BY <3>1
    <3>4. Promise!Becomes(s, [statusBar[s] EXCEPT !.is = "full"])
      BY <1>8, <3>2, <3>3, OneMoves
    <3>5. Promise!Promote(s)
      BY <1>5, <3>1, <3>4 DEF Promise!Promote
    <3>6. QED
      BY <3>5, Moves
  <2>6. QED
    BY <2>4, <2>5
<1>11. QED
  BY <1>9, <1>10

\* One UPDATE ends all sign-ins of the user, and no others.
LEMMA RevokeRefines ==
    ASSUME Inv, NEW x \in Executions, RevokeSessions(x)
    PROVE  [Promise!Next]_Promise!vars
<1>1. /\ UNCHANGED <<request, matched>> /\ TypeOK /\ Progress
      /\ phase[x] = "authed" /\ Kind(x) \in {"logout", "revoke"} /\ Goto(x, "logging")
      /\ x \in Waiting
  BY DEF RevokeSessions, Inv, Waiting
<1>2. PICK u \in Users : u = SignedOutUser(request[x])
  BY <1>1, Kinds DEF Progress, Begun, SignedOutUser, Kind
<1>3. "logging" \in Phases \ {"idle", "creating", "authed"}
  BY DEF Phases, Active
<1>4. \A r : Proved(r)' <=> Proved(r)
  BY <1>1, SameProof
<1>5. u \in orderedBar /\ orderedBar' \in {orderedBar, orderedBar \ {u}}
  BY <1>1, <1>2, <1>3, OrdersStep
<1>6. /\ \A s \in Executions \ Of(u) : session'[s] = session[s]
      /\ \A s \in Of(u) : Stored(s)' /\ session'[s].revoked
  <2>1. session' = [s \in Executions |->
            IF s \in Of(u) THEN [session[s] EXCEPT !.revoked = TRUE] ELSE session[s]]
    BY <1>2 DEF RevokeSessions
  <2>2. Of(u) \in SUBSET Executions /\ \A s \in Of(u) : Stored(s)
    BY DEF Of
  <2>3. QED
    BY <1>1, <2>1, <2>2, RevokedRows
<1>7. ASSUME NEW s \in Executions
      PROVE  StatusOf(s)' = IF statusBar[s].of = u THEN Promise!Over ELSE statusBar[s]
  <2>1. CASE s \in Of(u)
    <3>1. StatusOf(s)' = Promise!Over
      BY <1>6, <2>1 DEF StatusOf, Usable, Promise!Over
    <3>2. Usable(s) => statusBar[s].of = u
      BY <2>1, StatusValues DEF Of
    <3>3. ~ Usable(s) => statusBar[s] = Promise!Over
      BY <2>1, StatusValues DEF Of, Unborn
    <3>4. QED
      BY <3>1, <3>2, <3>3
  <2>2. CASE s \notin Of(u)
    <3>1. Kept(s)
      BY <1>1, <1>3, <1>4, <1>6, <2>2, GoesOn
    <3>2. Usable(s) => statusBar[s].of # u
      BY <2>2, StatusValues DEF Of, Usable
    <3>3. ~ Usable(s) => statusBar[s].of # u
      <4>1. ~ Usable(s) => statusBar[s].of = NoSession
        BY StatusValues DEF Promise!Unused, Promise!Over
      <4>2. QED
        BY <4>1, SessionAssumption
    <3>4. QED
      BY <3>1, <3>2, <3>3, StatusValues DEF Kept
  <2>3. QED
    BY <2>1, <2>2
<1>8. statusBar' = [s \in Executions |->
          IF statusBar[s].of = u THEN Promise!Over ELSE statusBar[s]]
  <2>1. statusBar' = [s \in Executions |-> StatusOf(s)']
    BY DEF statusBar
  <2>2. QED
    BY <1>7, <2>1
<1>9. Promise!SignOut(u)
  BY <1>5, <1>8 DEF Promise!SignOut
<1>10. QED
  BY <1>5, <1>9 DEF Promise!Next

LEMMA ExpireRefines ==
    ASSUME Inv, NEW s \in Executions, Expire(s)
    PROVE  [Promise!Next]_Promise!vars
<1>1. /\ UNCHANGED <<request, phase, matched>> /\ TypeOK /\ Stored(s)
      /\ session' = [session EXCEPT ![s].expired = TRUE]
  BY DEF Expire, Inv
<1>2. \A r : Proved(r)' <=> Proved(r)
  BY <1>1, SameProof
<1>3. \A r \in Executions \ {s} : Kept(r)
  BY <1>1, <1>2, SameStatus DEF TypeOK, Unborn, Stored
<1>4. orderedBar' = orderedBar
  BY <1>1, SameOrders DEF Waiting, Kind
<1>5. StatusOf(s)' = Promise!Over
  <2> DEFINE row == [session[s] EXCEPT !.expired = TRUE]
  <2>1. row.expired /\ row \in Session /\ session'[s] = row
    BY <1>1 DEF TypeOK, Stored, Session
  <2> HIDE DEF row
  <2>2. Stored(s)' /\ ~ Usable(s)'
    BY <2>1, SessionAssumption DEF Usable, Stored
  <2>3. QED
    BY <2>2 DEF StatusOf, Promise!Over
<1>6. CASE Usable(s)
  <2>1. statusBar[s] # Promise!Over
    <3>1. statusBar[s].is \in {"full", "proved", "half"}
      BY <1>6, StatusValues
    <3>2. QED
      BY <3>1 DEF Promise!Over
  <2>2. Promise!End(s)
    BY <1>3, <1>4, <1>5, <2>1, OneMoves DEF Promise!End
  <2>3. QED
    BY <2>2, Moves
<1>7. CASE ~ Usable(s)
  <2>1. Kept(s)
    BY <1>1, <1>5, <1>7, StatusValues DEF Kept, Unborn
  <2>2. QED
    BY <1>3, <1>4, <2>1, AllKept, Stutters
<1>8. QED
  BY <1>6, <1>7

\* What the cleanup removes had expired, and its execution will insert no other.
LEMMA CleanupRefines ==
    ASSUME Inv, Cleanup
    PROVE  UNCHANGED Promise!vars
<1>1. UNCHANGED <<request, phase, matched>> /\ TypeOK /\ Progress
  BY DEF Cleanup, Inv
<1>2. \A r : Proved(r)' <=> Proved(r)
  BY <1>1, SameProof
<1>3. ASSUME NEW s \in Executions PROVE Kept(s)
  <2>1. CASE Stored(s) /\ session[s].expired
    <3>1. phase[s] \notin {"idle", "creating"}
      BY <1>1, <2>1 DEF Progress, Inserted
    <3>2. ~ Stored(s)'
      BY <2>1 DEF Cleanup, Stored
    <3>3. QED
      BY <1>1, <2>1, <3>1, <3>2 DEF Kept, StatusOf, Usable
  <2>2. CASE ~ (Stored(s) /\ session[s].expired)
    <3>1. session'[s] = session[s]
      BY <2>2 DEF Cleanup
    <3>2. QED
      BY <1>1, <1>2, <3>1, SameStatus DEF Unborn, Stored
  <2>3. QED
    BY <2>1, <2>2
<1>4. orderedBar' = orderedBar
  BY <1>1, SameOrders DEF Waiting, Kind
<1>5. QED
  BY <1>3, <1>4, AllKept, Stutters

LEMMA NextRefines == Inv /\ [Next]_vars => [Promise!Next]_Promise!vars
<1> SUFFICES ASSUME Inv, [Next]_vars PROVE [Promise!Next]_Promise!vars
  OBVIOUS
<1>1. ASSUME NEW x \in Executions, Arrive(x) PROVE [Promise!Next]_Promise!vars
  BY <1>1, SignInRefines, AuthenticateRefines DEF Arrive
<1>2. ASSUME NEW x \in Executions, Step(x) PROVE [Promise!Next]_Promise!vars
  BY <1>2, CreateRefines, ChallengeRefines, ActivateRefines, LocalRefines, RevokeRefines,
     FailRefines DEF Step
<1>3. CASE Cleanup \/ \E s \in Executions : Expire(s)
  BY <1>3, CleanupRefines, ExpireRefines
<1>4. CASE UNCHANGED vars
  BY <1>4 DEF vars, Promise!vars, statusBar, orderedBar, StatusOf, Usable, Stored, Proved,
              Kind, SignedOutUser
<1>5. QED
  BY <1>1, <1>2, <1>3, <1>4 DEF Next

\* However the statements of the session routes interleave, fail or are cleaned
\* up behind, sign-ins go the way of SignIns: a half one becomes full by its own
\* challenge, one that has ended stays ended, and a sign-out that a full sign-in
\* ordered ends all of its user's at one instant.
THEOREM Refinement == Spec => ImplementsSignIns
<1>1. QED
  BY Invariant, InitRefines, NextRefines, PTL DEF Spec, ImplementsSignIns, Promise!Spec

=============================================================================
