------------------------------ MODULE Browser ------------------------------
(***************************************************************************)
(* The windows of one browser that several people use (login/page,         *)
(* components/Sidebar, unlock/page, settings/page, hooks/useVaultSync).    *)
(* Every window keeps its own decrypted vault; the session cookie is       *)
(* shared by all of them, and each request takes the cookie of the moment  *)
(* it is sent.  The API executes a request in one step; its answer arrives *)
(* later.  The name the Sidebar shows is left out: its sign-out button may *)
(* be clicked at any time.  Anybody may use any window at any time, and    *)
(* sign in while it or another one holds the vault of somebody else:       *)
(* nothing in the code prevents it.  The history variable `beside` records *)
(* such sign-ins; no guard reads it.                                       *)
(***************************************************************************)
EXTENDS Naturals, FiniteSets

CONSTANTS
    People,     \* accounts, one per person
    Windows,    \* windows or tabs of the browser
    Sessions,   \* ids of sessions: a bound on the sign-ins
    TwoFactor,  \* the people whose account asks for a second factor
    NoOne,      \* null
    NoCookie,   \* no session_token in the cookie jar
    MaxVersion, \* bound on the snapshots of one account
    MaxFaults,  \* bound on lost answers, reloads and deletions
    MaxCalls    \* bound on the requests under way when a person starts one

ASSUME PeopleAssumption == TwoFactor \subseteq People /\ NoOne \notin People
ASSUME CookieAssumption == NoCookie \notin Sessions
ASSUME BoundsAssumption == MaxVersion \in Nat \ {0} /\ MaxFaults \in Nat /\ MaxCalls \in Nat

VARIABLES
    session, \* session[s]: the sessions row
    stored,  \* stored[p]: the newest snapshot of p's vault
    cookie,  \* the session_token in the jar
    win,     \* win[w]: page and vault store of a window
    call,    \* call[w]: its requests under way
    beside,  \* history: <<p, k>> when p signed in while a window held k's vault
    faults   \* faults still allowed

browserVars == <<session, stored, cookie, win, call, beside, faults>>

\* A snapshot: its version and the person whose vault key encrypts it.
Vault == [key : People \cup {NoOne}, version : 0 .. MaxVersion]

NoVault == [key |-> NoOne, version |-> 0]

Pages == {"home", "login", "code", "unlock", "vault"}

Slots == {"form", "save", "out"}

Call ==
    [op : {"none", "login", "passkey", "challenge", "open", "save", "reload",
           "logout", "delete"},
     at : {"encrypting", "sent", "ok", "adopting", "conflict", "refused"},
     by : Sessions \cup {NoCookie}, who : People \cup {NoOne}, vault : Vault]

Row == [of : People \cup {NoOne}, state : {"unused", "half", "full", "over"}]

BrowserTypeOK ==
    /\ session \in [Sessions -> Row]
    /\ stored \in [People -> Vault]
    /\ cookie \in Sessions \cup {NoCookie}
    /\ win \in [Windows -> [page : Pages, vault : Vault]]
    /\ call \in [Windows -> [Slots -> Call]]
    /\ beside \subseteq People \X People
    /\ faults \in 0 .. MaxFaults

-----------------------------------------------------------------------------
(* Requests *)

NoCall == [op |-> "none", at |-> "sent", by |-> NoCookie, who |-> NoOne, vault |-> NoVault]

Request(op, p, vault) == [op |-> op, at |-> "sent", by |-> cookie, who |-> p, vault |-> vault]

Free(w, slot) == call[w][slot] = NoCall

\* The slot is free, and not too much else is under way.
Idle(w, slot) ==
    /\ Free(w, slot)
    /\ Cardinality({q \in Windows \X Slots : ~ Free(q[1], q[2])}) < MaxCalls

Done(w, slot) == call' = [call EXCEPT ![w][slot] = NoCall]

Answered(w, slot, op) == call[w][slot].op = op /\ call[w][slot].at # "sent"

\* The user the extractor finds behind a cookie, half sessions excepted.
Owner(s) == IF s # NoCookie /\ session[s].state = "full" THEN session[s].of ELSE NoOne

\* A request c for the vault of k, with a session and the master password of k.
Opening(c, k) ==
    /\ c.op = "open" /\ c.who = k
    /\ c.at = "sent" => c.by # NoCookie /\ session[c.by].of = k

\* Whose vault a window shows, is opening or encrypts an upload of.
Holding(w) ==
    {k \in People :
        \/ win[w].page = "vault" /\ win[w].vault.key = k
        \/ Opening(call[w].form, k)
        \/ call[w].save.at = "encrypting" /\ call[w].save.vault.key = k}

BrowserInit ==
    /\ session = [s \in Sessions |-> [of |-> NoOne, state |-> "unused"]]
    /\ stored = [p \in People |-> [key |-> p, version |-> 1]]
    /\ cookie = NoCookie
    /\ win = [w \in Windows |-> [page |-> "login", vault |-> NoVault]]
    /\ call = [w \in Windows |-> [slot \in Slots |-> NoCall]]
    /\ beside = {}
    /\ faults = MaxFaults

Fault == faults > 0 /\ faults' = faults - 1

-----------------------------------------------------------------------------
(* Signing in and unlocking *)

Submit(w, op, p) ==
    /\ Idle(w, "form")
    /\ call' = [call EXCEPT ![w].form = Request(op, p, NoVault)]
    /\ UNCHANGED <<session, stored, cookie, win, beside, faults>>

\* A passkey differs from a password for accounts with two factors only.
\* Sessions bounds the sign-ins.
SubmitLogin(w, p) ==
    /\ win[w].page = "login"
    /\ \E s \in Sessions : session[s].state = "unused"
    /\ Submit(w, "login", p) \/ (p \in TwoFactor /\ Submit(w, "passkey", p))

SubmitCode(w, p) == win[w].page = "code" /\ p \in TwoFactor /\ Submit(w, "challenge", p)

UseDifferentAccount(w) ==
    /\ win[w].page = "code"
    /\ Free(w, "form")
    /\ win' = [win EXCEPT ![w].page = "login"]
    /\ UNCHANGED <<session, stored, cookie, call, beside, faults>>

\* The vault of the cookie's account, and the master password of the person.
SubmitMaster(w, p) == win[w].page = "unlock" /\ win[w].vault.key = NoOne /\ Submit(w, "open", p)

\* The answer's Set-Cookie replaces what the jar holds by then.
SignedIn(w) ==
    LET c == call[w].form
        half == c.op = "login" /\ c.who \in TwoFactor IN
    /\ c.op \in {"login", "passkey", "challenge"}
    /\ c.at = "ok"
    /\ cookie' = IF c.op = "challenge" THEN cookie ELSE c.by
    /\ win' = [win EXCEPT ![w].page = IF half THEN "code" ELSE "unlock"]
    /\ beside' = IF c.op = "challenge" THEN beside ELSE
           beside \cup {<<c.who, k>> : k \in (UNION {Holding(v) : v \in Windows}) \ {c.who}}
    /\ Done(w, "form")
    /\ UNCHANGED <<session, stored, faults>>

\* enterVault, wherever the window is by now.
Opened(w) ==
    /\ Answered(w, "form", "open")
    /\ call[w].form.at = "ok"
    /\ win' = [win EXCEPT ![w].page = "vault", ![w].vault = call[w].form.vault]
    /\ Done(w, "form")
    /\ UNCHANGED <<session, stored, cookie, beside, faults>>

\* Links to the login page and, from the Sidebar of a locked store, to unlock.
Follow(w, page) ==
    /\ page # win[w].page
    /\ \/ page = "login" /\ win[w].page \in {"home", "unlock", "code"}
       \/ page = "unlock" /\ win[w].vault.key = NoOne
    /\ win' = [win EXCEPT ![w].page = page]
    /\ UNCHANGED <<session, stored, cookie, call, beside, faults>>

-----------------------------------------------------------------------------
(* Uploads *)

\* The timer of an edit: version and key are read from the store before the
\* snapshot is encrypted, the account is not read at all.
Save(w) ==
    LET v == win[w].vault IN
    /\ v.key # NoOne
    /\ v.version < MaxVersion
    /\ Idle(w, "save")
    /\ call' = [call EXCEPT ![w].save =
           [NoCall EXCEPT !.op = "save", !.at = "encrypting",
                          !.vault = [v EXCEPT !.version = @ + 1]]]
    /\ UNCHANGED <<session, stored, cookie, win, beside, faults>>

\* The PUT goes out with the cookie of that moment, whatever store and jar
\* hold by then.
SendSave(w) ==
    /\ call[w].save.at = "encrypting"
    /\ call' = [call EXCEPT ![w].save.at = "sent", ![w].save.by = cookie]
    /\ UNCHANGED <<session, stored, cookie, win, beside, faults>>

\* Defect: the store counts the version on instead of taking the answer's.
SavedIncrement(w) ==
    LET c == call[w].save IN
    /\ c.op = "save" /\ c.at = "ok"
    /\ win' = [win EXCEPT ![w].vault.version = @ + 1]
    /\ Done(w, "save")
    /\ UNCHANGED <<session, stored, cookie, beside, faults>>

\* The accepted version goes to the store, also when it was locked meanwhile.
Saved(w) ==
    LET c == call[w].save IN
    /\ c.op = "save" /\ c.at = "ok"
    /\ win' = [win EXCEPT ![w].vault.version = c.vault.version]
    /\ Done(w, "save")
    /\ UNCHANGED <<session, stored, cookie, beside, faults>>

\* After a conflict the newer copy is fetched, with the cookie of that moment.
FetchNewer(w) ==
    /\ call[w].save.at = "conflict"
    /\ call' = [call EXCEPT ![w].save = Request("reload", NoOne, NoVault)]
    /\ UNCHANGED <<session, stored, cookie, win, beside, faults>>

\* The key of the store that is open by now has to decrypt it.
Decrypt(w) ==
    LET c == call[w].save IN
    /\ c.op = "reload" /\ c.at = "ok"
    /\ IF win[w].vault.key = c.vault.key
       THEN call' = [call EXCEPT ![w].save.at = "adopting"]
       ELSE Done(w, "save")
    /\ UNCHANGED <<session, stored, cookie, win, beside, faults>>

\* Its version goes to the store as it is after the await: open, locked or
\* opened by somebody else.
Adopted(w) ==
    /\ call[w].save.at = "adopting"
    /\ win' = [win EXCEPT ![w].vault.version = call[w].save.vault.version]
    /\ Done(w, "save")
    /\ UNCHANGED <<session, stored, cookie, beside, faults>>

-----------------------------------------------------------------------------
(* Locking, signing out, deleting the account *)

Lock(w) ==
    /\ win[w].vault.key # NoOne
    /\ win' = [win EXCEPT ![w].vault = NoVault]
    /\ UNCHANGED <<session, stored, cookie, call, beside, faults>>

SignOut(w) ==
    /\ Idle(w, "out")
    /\ call' = [call EXCEPT ![w].out = Request("logout", NoOne, NoVault)]
    /\ UNCHANGED <<session, stored, cookie, win, beside, faults>>

\* Defect: the store is not locked.
SignedOutStillOpen(w) ==
    /\ Answered(w, "out", "logout")
    /\ cookie' = IF call[w].out.at = "ok" THEN NoCookie ELSE cookie
    /\ win' = [win EXCEPT ![w].page = "login"]
    /\ Done(w, "out")
    /\ UNCHANGED <<session, stored, beside, faults>>

\* The finally block: whatever the answer was, identity and vault key go.
SignedOut(w) ==
    /\ Answered(w, "out", "logout")
    /\ cookie' = IF call[w].out.at = "ok" THEN NoCookie ELSE cookie
    /\ win' = [win EXCEPT ![w] = [page |-> "login", vault |-> NoVault]]
    /\ Done(w, "out")
    /\ UNCHANGED <<session, stored, beside, faults>>

\* With the password of the cookie's account, which need not be that of the
\* vault the window shows; any other password is refused.
DeleteAccount(w) ==
    /\ Fault
    /\ win[w].page = "vault"
    /\ Idle(w, "form")
    /\ call' = [call EXCEPT ![w].form = Request("delete", NoOne, NoVault)]
    /\ UNCHANGED <<session, stored, cookie, win, beside>>

Deleted(w) ==
    /\ Answered(w, "form", "delete")
    /\ call[w].form.at = "ok"
    /\ cookie' = NoCookie
    /\ win' = [win EXCEPT ![w] = [page |-> "home", vault |-> NoVault]]
    /\ Done(w, "form")
    /\ UNCHANGED <<session, stored, beside, faults>>

-----------------------------------------------------------------------------
(* The API executes a request of slot x of window w *)

\* The cookie is no longer needed.  A refusal, or a rejected fetch, ends a form
\* and an upload with a message; signing out goes on.
Reply(w, x, at) ==
    call' = [call EXCEPT ![w][x] =
                IF at # "refused" THEN [@ EXCEPT !.at = at, !.by = NoCookie]
                ELSE IF x = "out" THEN [NoCall EXCEPT !.op = "logout", !.at = "refused"]
                ELSE NoCall]

\* A row of sessions for a correct password or passkey.
CreateSession(w, x) ==
    LET c == call[w][x] IN
    /\ c.op \in {"login", "passkey"}
    /\ IF stored[c.who] = NoVault
       THEN Reply(w, x, "refused") /\ UNCHANGED session
       ELSE \E s \in Sessions :
              /\ session[s].state = "unused"
              /\ session' = [session EXCEPT ![s] =
                     [of |-> c.who,
                      state |-> IF c.op = "login" /\ c.who \in TwoFactor THEN "half" ELSE "full"]]
              /\ call' = [call EXCEPT ![w][x].at = "ok", ![w][x].by = s]
    /\ UNCHANGED stored

Challenge(w, x) ==
    LET c == call[w][x]
        right == c.by # NoCookie /\ session[c.by] = [of |-> c.who, state |-> "half"] IN
    /\ c.op = "challenge"
    /\ session' = IF right THEN [session EXCEPT ![c.by].state = "full"] ELSE session
    /\ Reply(w, x, IF right THEN "ok" ELSE "refused")
    /\ UNCHANGED stored

\* What a GET answers.  A row that the typed master password does not open
\* counts as a refusal: the unlock page shows an error for both.
Answer(w, x) ==
    LET c == call[w][x]
        owner == Owner(c.by) IN
    /\ c.op \in {"open", "reload"}
    /\ IF owner = NoOne \/ (c.op = "open" /\ ~ (owner = c.who /\ stored[owner].key = c.who))
       THEN Reply(w, x, "refused")
       ELSE call' = [call EXCEPT ![w][x] =
                [NoCall EXCEPT !.op = c.op, !.at = "ok", !.who = c.who, !.vault = stored[owner]]]
    /\ UNCHANGED <<session, stored>>

\* The compare-and-set of PUT /vault on the vault of the cookie's account: the
\* server cannot tell whose key encrypted the snapshot.
Upload(w, x) ==
    LET c == call[w][x]
        owner == Owner(c.by)
        next == owner # NoOne /\ c.vault.version = stored[owner].version + 1 IN
    /\ c.op = "save"
    /\ stored' = IF next THEN [stored EXCEPT ![owner] = c.vault] ELSE stored
    /\ Reply(w, x, IF owner = NoOne THEN "refused" ELSE IF next THEN "ok" ELSE "conflict")
    /\ UNCHANGED session

\* Every session of a user is revoked or removed.
EndSessions(p) ==
    session' = [s \in Sessions |->
        IF session[s].of = p THEN [session[s] EXCEPT !.state = "over"] ELSE session[s]]

Logout(w, x) ==
    LET owner == Owner(call[w][x].by) IN
    /\ call[w][x].op = "logout"
    /\ IF owner = NoOne THEN UNCHANGED session ELSE EndSessions(owner)
    /\ Reply(w, x, IF owner = NoOne THEN "refused" ELSE "ok")
    /\ UNCHANGED stored

Delete(w, x) ==
    LET owner == Owner(call[w][x].by) IN
    /\ call[w][x].op = "delete"
    /\ IF owner = NoOne
       THEN Reply(w, x, "refused") /\ UNCHANGED <<session, stored>>
       ELSE /\ EndSessions(owner)
            /\ stored' = [stored EXCEPT ![owner] = NoVault]
            /\ Reply(w, x, "ok")

Deliver(w, x) ==
    /\ ~ Free(w, x) /\ call[w][x].at = "sent"
    /\ \/ CreateSession(w, x) \/ Challenge(w, x) \/ Answer(w, x)
       \/ Upload(w, x) \/ Logout(w, x) \/ Delete(w, x)
    /\ UNCHANGED <<cookie, win, beside, faults>>

\* A request or its answer is lost: fetch rejects.
Lose(w, x) ==
    /\ Fault
    /\ ~ Free(w, x) /\ call[w][x].at \in {"sent", "ok", "conflict"}
    /\ Reply(w, x, "refused")
    /\ UNCHANGED <<session, stored, cookie, win, beside>>

\* The window forgets everything but its route; its handlers are gone.
Reload(w) ==
    /\ Fault
    /\ win' = [win EXCEPT ![w] = [page |-> IF @.page = "code" THEN "login" ELSE @.page,
                                  vault |-> NoVault]]
    /\ call' = [call EXCEPT ![w] = [x \in Slots |-> NoCall]]
    /\ UNCHANGED <<session, stored, cookie, beside>>

-----------------------------------------------------------------------------

BrowserNext ==
    \E w \in Windows :
        \/ \E p \in People : SubmitLogin(w, p) \/ SubmitCode(w, p) \/ SubmitMaster(w, p)
        \/ UseDifferentAccount(w) \/ SignedIn(w) \/ Opened(w)
        \/ \E page \in {"login", "unlock"} : Follow(w, page)
        \/ Save(w) \/ SendSave(w) \/ Saved(w)
        \/ FetchNewer(w) \/ Decrypt(w) \/ Adopted(w)
        \/ Lock(w) \/ SignOut(w) \/ SignedOut(w)
        \/ DeleteAccount(w) \/ Deleted(w)
        \/ \E x \in Slots : Deliver(w, x) \/ Lose(w, x)
        \/ Reload(w)

BrowserSpec == BrowserInit /\ [][BrowserNext]_browserVars

-----------------------------------------------------------------------------
(* Properties *)

\* A snapshot encrypted with k's vault key never becomes the vault of p,
\* unless p signed in while k's vault was open in a window, being opened or
\* being uploaded.  useVaultSync reads the key from the store before it
\* encrypts and the account from the cookie when it sends; with lock, sign-out,
\* sign-in, deletion and conflict in between nothing else may bring the two
\* apart.
SavesFindTheirVault ==
    \A p \in People :
        stored[p] # NoVault => stored[p].key = p \/ <<p, stored[p].key>> \in beside

\* The jar beside an open vault holds a session of its person, or of one who
\* signed in beside it: a vault is never opened, or left open by a sign-out,
\* next to a session that was there before or comes after.
OpenVaultOwnsTheJar ==
    \A w \in Windows :
        win[w].vault.key # NoOne /\ cookie # NoCookie =>
            LET p == session[cookie].of IN
            p = win[w].vault.key \/ <<p, win[w].vault.key>> \in beside

=============================================================================
