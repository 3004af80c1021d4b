------------------------------ MODULE Passkeys ------------------------------
(***************************************************************************)
(* Passkeys on the server (routes/passkeys, state, crates/webauthn) behind *)
(* the limiter of the sign-in routes (middleware/rate_limit).  Challenges  *)
(* and counters of the limiter live in the memory of one process, passkeys *)
(* and sessions in the database; a handler is one action per statement.    *)
(* An authenticator is its credential, a response what it has signed: the  *)
(* ceremony and its signature counter.  `made`, `barred` and `came` are    *)
(* history: the account a credential was created for, the requests whose   *)
(* passkey was revoked before they came, and when each sign-in came.       *)
(***************************************************************************)
EXTENDS Naturals, FiniteSets

CONSTANTS
    Users,
    Credentials, \* credentials that authenticators may create
    Counting,    \* those with a signature counter; the others always send 0
    Ceremonies,  \* ceremony ids, drawn at random
    Requests,    \* requests to the finish routes
    Addresses,   \* what client_ip_key tells apart
    NoUser,
    Anyone,      \* the email of a usernameless ceremony
    Lifetime,    \* how long a challenge lives (300 s), in steps of the clock
    Window,      \* the limiter's window (60 s)
    MaxRequests, \* the limiter's budget (10)
    MaxTime,     \* bound on the clock
    MaxCount,    \* bound on signature counters
    MaxRestarts  \* bound on restarts of the API

ASSUME PasskeysAssumption ==
    /\ Counting \subseteq Credentials
    /\ NoUser \notin Users /\ Anyone \notin Users /\ NoUser # Anyone
    /\ Lifetime \in Nat /\ Window \in Nat /\ MaxRequests \in Nat \ {0}
    /\ MaxTime \in Nat /\ MaxCount \in Nat /\ MaxRestarts \in Nat

VARIABLES
    now,
    ceremony, \* ceremony[i]: what its options said; live while it is in the map
    limiter,  \* limiter[a]: count and start of the window of an address
    passkey,  \* passkey[c]: its row
    session,  \* session[x]: whose session request x has inserted
    counter,  \* counter[c]: the authenticator's counter
    signed,   \* responses of authenticators
    request, phase, seen, \* an execution: what was asked, how far it got, the owner it read
    made, barred, came,
    restarts  \* restarts still allowed

clientVars == <<counter, signed, made>>
rowVars == <<passkey, session>>
passkeyVars == <<now, ceremony, limiter, rowVars, clientVars, request, phase, seen, barred,
                 came, restarts>>

Ceremony == [kind : {"unused", "login", "register"}, email : Users \cup {Anyone},
             at : 0 .. MaxTime, live : BOOLEAN]

Row == [of : Users \cup {NoUser}, count : 0 .. MaxCount, state : {"absent", "live", "revoked"}]

NoRow == [of |-> NoUser, count |-> 0, state |-> "absent"]

Response == [op : {"login", "register"}, id : Ceremonies, cred : Credentials,
             count : 0 .. MaxCount]

\* by is the session's user of a registration.
Request == [said : Response, by : Users \cup {NoUser}, from : Addresses]

Phases == {"idle", "limited", "arrived", "taken", "verified", "counted", "done", "failed",
           "over"}

PasskeysTypeOK ==
    /\ now \in 0 .. MaxTime
    /\ ceremony \in [Ceremonies -> Ceremony]
    /\ limiter \in [Addresses -> [count : 0 .. MaxRequests, since : 0 .. MaxTime]]
    /\ passkey \in [Credentials -> Row]
    /\ session \in [Requests -> Users \cup {NoUser}]
    /\ counter \in [Credentials -> 0 .. MaxCount]
    /\ signed \subseteq Response
    /\ phase \in [Requests -> Phases]
    /\ \A x \in Requests : phase[x] # "idle" => request[x] \in Request
    /\ seen \in [Requests -> Users \cup {NoUser}]
    /\ made \in [Credentials -> Users \cup {NoUser}]
    /\ barred \subseteq Requests
    /\ came \in [Requests -> 0 .. MaxTime]
    /\ restarts \in 0 .. MaxRestarts

-----------------------------------------------------------------------------

\* Some passkeys have been registered before.
PasskeysInit ==
    /\ now = 0
    /\ ceremony = [i \in Ceremonies |->
           [kind |-> "unused", email |-> Anyone, at |-> 0, live |-> FALSE]]
    /\ limiter = [a \in Addresses |-> [count |-> 0, since |-> 0]]
    /\ session = [x \in Requests |-> NoUser]
    /\ counter = [c \in Credentials |-> 0]
    /\ signed = {}
    /\ request = [x \in Requests |-> NoUser]
    /\ phase = [x \in Requests |-> "idle"]
    /\ seen = [x \in Requests |-> NoUser]
    /\ made \in [Credentials -> Users \cup {NoUser}]
    /\ passkey = [c \in Credentials |->
           IF made[c] = NoUser THEN NoRow ELSE [of |-> made[c], count |-> 0, state |-> "live"]]
    /\ barred = {}
    /\ came = [x \in Requests |-> 0]
    /\ restarts = MaxRestarts

Tick ==
    /\ now < MaxTime
    /\ now' = now + 1
    /\ UNCHANGED <<ceremony, limiter, rowVars, clientVars, request, phase, seen, barred, came,
                   restarts>>

-----------------------------------------------------------------------------
(* Options, and what the authenticator makes of them *)

Fresh(i) == now - ceremony[i].at < Lifetime

\* insert_passkey_challenge reaps what has expired.
InsertChallenge(i, kind, email) ==
    /\ ceremony[i].kind = "unused"
    /\ ceremony' = [j \in Ceremonies |->
           IF j = i THEN [kind |-> kind, email |-> email, at |-> now, live |-> TRUE]
           ELSE [ceremony[j] EXCEPT !.live = @ /\ Fresh(j)]]
    /\ UNCHANGED <<now, limiter, rowVars, clientVars, request, phase, seen, barred, came,
                   restarts>>

RegisterOptions(i, u) == InsertChallenge(i, "register", u)

LoginOptions(i, email) == InsertChallenge(i, "login", email)

Says(op, i, c, n) == [op |-> op, id |-> i, cred |-> c, count |-> n]

\* createPasskey: a new credential for the account that the options name.
CreatePasskey(i, c) ==
    /\ ceremony[i].kind = "register"
    /\ made[c] = NoUser
    /\ made' = [made EXCEPT ![c] = ceremony[i].email]
    /\ signed' = signed \cup {Says("register", i, c, counter[c])}
    /\ UNCHANGED <<now, ceremony, limiter, rowVars, counter, request, phase, seen, barred, came,
                   restarts>>

\* getPasskeyAssertion: without a passkey of the email, the allow-list is empty
\* and leaves the choice open; here it always is.
SignAssertion(i, c) ==
    /\ ceremony[i].kind = "login"
    /\ made[c] # NoUser
    /\ LET n == IF c \in Counting THEN counter[c] + 1 ELSE 0 IN
       /\ n <= MaxCount
       /\ counter' = [counter EXCEPT ![c] = n]
       /\ signed' = signed \cup {Says("login", i, c, n)}
    /\ UNCHANGED <<now, ceremony, limiter, rowVars, made, request, phase, seen, barred, came,
                   restarts>>

-----------------------------------------------------------------------------
(* Arrival and the limiter *)

\* The entry of an address; a first request inserts it.
Entry(a) == IF limiter[a].count = 0 THEN [count |-> 0, since |-> now] ELSE limiter[a]

\* Defect: a refused request starts the window anew.
CheckExtends(a) ==
    LET e == Entry(a) IN
    IF now - e.since > Window THEN [ok |-> TRUE, entry |-> [count |-> 1, since |-> now]]
    ELSE IF e.count >= MaxRequests THEN [ok |-> FALSE, entry |-> [e EXCEPT !.since = now]]
    ELSE [ok |-> TRUE, entry |-> [e EXCEPT !.count = @ + 1]]

\* Defect: the budget is compared too late.
CheckLate(a) ==
    LET e == Entry(a) IN
    IF now - e.since > Window THEN [ok |-> TRUE, entry |-> [count |-> 1, since |-> now]]
    ELSE IF e.count > MaxRequests THEN [ok |-> FALSE, entry |-> e]
    ELSE [ok |-> TRUE, entry |-> [e EXCEPT !.count = @ + 1]]

\* RateLimiter::check: the decision and the new entry.
Check(a) ==
    LET e == Entry(a) IN
    IF now - e.since > Window THEN [ok |-> TRUE, entry |-> [count |-> 1, since |-> now]]
    ELSE IF e.count >= MaxRequests THEN [ok |-> FALSE, entry |-> e]
    ELSE [ok |-> TRUE, entry |-> [e EXCEPT !.count = @ + 1]]

Arrive(x, r) ==
    /\ phase[x] = "idle"
    /\ request' = [request EXCEPT ![x] = r]
    /\ barred' = IF passkey[r.said.cred].state = "revoked" THEN barred \cup {x} ELSE barred
    /\ UNCHANGED <<now, ceremony, rowVars, clientVars, seen, restarts>>

\* A response is sent, perhaps once more.
SendLogin(x, s, a) ==
    /\ s.op = "login"
    /\ Arrive(x, [said |-> s, by |-> NoUser, from |-> a])
    /\ came' = [came EXCEPT ![x] = now]
    /\ limiter' = [limiter EXCEPT ![a] = Check(a).entry]
    /\ phase' = [phase EXCEPT ![x] = IF Check(a).ok THEN "arrived" ELSE "limited"]

\* With the session of whoever is signed in by now; this route has no limiter.
SendRegistration(x, s, u, a) ==
    /\ s.op = "register"
    /\ Arrive(x, [said |-> s, by |-> u, from |-> a])
    /\ phase' = [phase EXCEPT ![x] = "arrived"]
    /\ UNCHANGED <<limiter, came>>

-----------------------------------------------------------------------------
(* The handlers of the finish routes *)

\* Execution x goes on; the tables change in the actions themselves.
Step(x, from, to) ==
    /\ phase[x] = from
    /\ phase' = [phase EXCEPT ![x] = to]
    /\ UNCHANGED <<now, limiter, clientVars, request, barred, came, restarts>>

\* Defect: the challenge is looked up and stays in the map.
TakeChallengeKept(x) ==
    LET i == request[x].said.id IN
    /\ Step(x, "arrived", IF ceremony[i].live /\ Fresh(i) THEN "taken" ELSE "failed")
    /\ UNCHANGED <<ceremony, rowVars, seen>>

TakeChallenge(x) ==
    LET i == request[x].said.id IN
    /\ Step(x, "arrived", IF ceremony[i].live /\ Fresh(i) THEN "taken" ELSE "failed")
    /\ ceremony' = [ceremony EXCEPT ![i].live = FALSE]
    /\ UNCHANGED <<rowVars, seen>>

\* The email of the ceremony, the attestation, and no live row of this id.
CheckRegistration(x) ==
    LET s == request[x].said IN
    /\ Step(x, "taken", IF /\ ceremony[s.id].email = request[x].by
                           /\ passkey[s.cred].state # "live"
                        THEN "verified" ELSE "failed")
    /\ s.op = "register"
    /\ UNCHANGED <<ceremony, rowVars, seen>>

\* The unique index refuses the id of any row, revoked ones included.
InsertPasskey(x) ==
    LET s == request[x].said
        free == passkey[s.cred] = NoRow IN
    /\ Step(x, "verified", IF free THEN "done" ELSE "failed")
    /\ s.op = "register"
    /\ passkey' = IF ~ free THEN passkey ELSE
           [passkey EXCEPT ![s.cred] = [of |-> request[x].by, count |-> s.count, state |-> "live"]]
    /\ UNCHANGED <<ceremony, session, seen>>

\* verify_authentication: a counter that both sides support must move forward.
Forward(count, stored) == count # 0 /\ stored # 0 => count > stored

\* load_passkey, the email of the ceremony and the checks of the assertion; a
\* row keeps its owner, so that the second SELECT sees the same one.
VerifyAssertion(x) ==
    LET s == request[x].said
        row == passkey[s.cred]
        named == ceremony[s.id].email IN
    /\ Step(x, "taken", IF /\ row.state = "live"
                           /\ named \in {Anyone, row.of}
                           /\ Forward(s.count, row.count)
                        THEN "verified" ELSE "failed")
    /\ s.op = "login"
    /\ seen' = [seen EXCEPT ![x] = row.of]
    /\ UNCHANGED <<ceremony, rowVars>>

\* The UPDATE finds the row by its credential id and asks nothing else.
WriteCounter(x) ==
    LET s == request[x].said IN
    /\ Step(x, "verified", "counted")
    /\ s.op = "login"
    /\ passkey' = [passkey EXCEPT ![s.cred].count = s.count]
    /\ UNCHANGED <<ceremony, session, seen>>

\* What follows changes nothing here, whether it fails or not.
CreateSession(x) ==
    /\ Step(x, "counted", "done")
    /\ session' = [session EXCEPT ![x] = seen[x]]
    /\ UNCHANGED <<ceremony, passkey, seen>>

\* A statement fails; what was written stays.
Fail(x) ==
    /\ phase[x] \in {"taken", "verified", "counted"}
    /\ Step(x, phase[x], "failed")
    /\ UNCHANGED <<ceremony, rowVars, seen>>

RevokePasskey(c) ==
    /\ passkey[c].state = "live"
    /\ passkey' = [passkey EXCEPT ![c].state = "revoked"]
    /\ UNCHANGED <<now, ceremony, limiter, session, clientVars, request, phase, seen, barred,
                   came, restarts>>

\* The memory of the process is gone, and its executions with it.
Restart ==
    /\ restarts > 0
    /\ restarts' = restarts - 1
    /\ ceremony' = [i \in Ceremonies |-> [ceremony[i] EXCEPT !.live = FALSE]]
    /\ limiter' = [a \in Addresses |-> [count |-> 0, since |-> 0]]
    /\ phase' = [x \in Requests |-> IF phase[x] = "idle" THEN "idle" ELSE "over"]
    /\ UNCHANGED <<now, rowVars, clientVars, request, seen, barred, came>>

Execute(x) ==
    \/ TakeChallenge(x) \/ CheckRegistration(x) \/ InsertPasskey(x)
    \/ VerifyAssertion(x) \/ WriteCounter(x) \/ CreateSession(x) \/ Fail(x)

PasskeysNext ==
    \/ Tick \/ Restart
    \/ \E i \in Ceremonies :
          \/ \E u \in Users : RegisterOptions(i, u)
          \/ \E email \in Users \cup {Anyone} : LoginOptions(i, email)
          \/ \E c \in Credentials : CreatePasskey(i, c) \/ SignAssertion(i, c)
    \/ \E x \in Requests :
          \/ Execute(x)
          \/ \E s \in signed, a \in Addresses :
                SendLogin(x, s, a) \/ \E u \in Users : SendRegistration(x, s, u, a)
    \/ \E c \in Credentials : RevokePasskey(c)

PasskeysSpec == PasskeysInit /\ [][PasskeysNext]_passkeyVars

-----------------------------------------------------------------------------
(* Properties *)

SignedIn(x) == session[x] # NoUser

\* Every session of a passkey was earned: by a response of the account's own
\* credential, for a ceremony of that account or of nobody, with a challenge
\* that no other request has used, and not with a passkey that was revoked
\* when the request came.
SignInsAreEarned ==
    \A x \in Requests : SignedIn(x) =>
        LET s == request[x].said IN
        /\ s \in signed /\ made[s.cred] = session[x]
        /\ ceremony[s.id].email \in {Anyone, session[x]}
        /\ \A y \in Requests \ {x} : SignedIn(y) => request[y].said.id # s.id
        /\ x \notin barred

\* The sign-ins of an address that the limiter of this process let through.
Admitted(a) ==
    {y \in Requests : /\ phase[y] \notin {"idle", "limited", "over"}
                      /\ request[y].from = a /\ request[y].said.op = "login"}

\* A sign-in is refused only when its address has used its budget within the
\* window before it, so that nobody is kept out by refusals; and no stretch of
\* time as long as a window sees more than two budgets.
BudgetIsKept ==
    /\ \A x \in Requests : phase[x] = "limited" =>
          Cardinality({y \in Admitted(request[x].from) :
                          came[y] <= came[x] /\ came[x] <= came[y] + Window}) >= MaxRequests
    /\ \A a \in Addresses, t \in 0 .. MaxTime :
          Cardinality({y \in Admitted(a) : t <= came[y] /\ came[y] <= t + Window})
              <= 2 * MaxRequests

\* "The counter must move forward" (README, Passkeys).
CounterMovesForward ==
    [][\A c \in Counting : passkey'[c].count >= passkey[c].count]_passkeyVars

=============================================================================
