------------------------------ MODULE Console ------------------------------
(***************************************************************************)
(* The pages that show rows of the server and change them: the admin's     *)
(* users and audit pages, the devices page, and the passkeys and           *)
(* two-factor sections of the settings (admin/users, admin/audit, devices, *)
(* settings/page, hooks/useAuth).  A page shows what its last answer said, *)
(* while other windows and admins change the same rows.  A row is TRUE     *)
(* when its user is an admin, its passkey is registered, its device is not *)
(* revoked, or two-factor is on.  Requests and answers overtake each       *)
(* other.  `acted`, `old` and `overtaken` are history: what the page's own *)
(* successful actions have made of each row, unless it has changed since,  *)
(* and the rows that were read before they did.                            *)
(***************************************************************************)
EXTENDS Naturals

CONSTANTS
    Rows,
    Self,      \* the row of the user itself, and of two-factor
    Filters,   \* event types of the audit page
    MaxOffset, \* bound on the offset of the audit page, in pages
    MaxClicks, \* bound on what the user clicks
    MaxFaults, \* bound on refused or lost requests
    MaxOthers  \* bound on changes by others

ASSUME ConsoleAssumption ==
    /\ Self \in Rows /\ Filters # {}
    /\ MaxOffset \in Nat /\ MaxClicks \in Nat /\ MaxFaults \in Nat /\ MaxOthers \in Nat

VARIABLES
    page,    \* the page that is mounted
    server,  \* the rows of the server
    gone,    \* passkeys that were revoked: a new one has a row of its own
    list,    \* the rows on the screen
    acted,
    calls,   \* the requests of the mount and of each click, until they are answered
    loading, \* the page's own flag
    marked,  \* the row or section that is shown as busy
    failed,  \* the last request failed: an error is shown, but for a device,
             \* or the passkeys are shown as none
    enroll,  \* the two-factor secret is shown for confirmation
    query,   \* filter and offset the audit page asks for
    shown,   \* filter and offset of the events on the screen
    overtaken, \* rows on the screen that were read before the page's own action
    left     \* clicks, faults and changes by others still allowed

consoleVars == <<page, server, gone, list, acted, calls, loading, marked, failed,
                 enroll, query, shown, overtaken, left>>

ConsolePages == {"users", "audit", "devices", "passkeys", "factor", "data", "monitor"}

Lists == [Rows -> BOOLEAN]

None == [r \in Rows |-> FALSE]

Query == [filter : Filters, offset : 0 .. MaxOffset]

\* `seen` is the list of the render that was clicked.
Ask == [op : {"load", "reload", "act", "revoke", "setup"}, row : Rows, to : BOOLEAN, seen : Lists,
        query : Query]

Readings == {"load", "reload"}

\* A request that the API has not executed, or its answer on the way back: `old`
\* are the rows that the page's own actions changed after the answer was read.
Call == [stage : {"none", "sent", "answered"}, ask : Ask, ok : BOOLEAN, rows : Lists,
         old : SUBSET Rows]

\* The call of the mount, and that of each click by the number of clicks left.
Calls == 0 .. MaxClicks

ConsoleTypeOK ==
    /\ page \in ConsolePages
    /\ server \in Lists /\ list \in Lists
    /\ gone \in SUBSET Rows /\ overtaken \in SUBSET Rows
    /\ acted \in [Rows -> SUBSET BOOLEAN]
    /\ calls \in [Calls -> Call]
    /\ loading \in BOOLEAN /\ failed \in BOOLEAN /\ enroll \in BOOLEAN
    /\ marked \in SUBSET Rows
    /\ query \in Query /\ shown \in Query
    /\ left \in [clicks : 0 .. MaxClicks, faults : 0 .. MaxFaults, others : 0 .. MaxOthers]

-----------------------------------------------------------------------------
(* Requests and answers *)

FirstQuery == [filter |-> CHOOSE f \in Filters : TRUE, offset |-> 0]

Asks(op, r, to, seen) == [op |-> op, row |-> r, to |-> to, seen |-> seen, query |-> query]

Load(q) == [op |-> "load", row |-> Self, to |-> FALSE, seen |-> None, query |-> q]

Request(q) == [stage |-> "sent", ask |-> q, ok |-> FALSE, rows |-> None, old |-> {}]

NoCall == [stage |-> "none", ask |-> Load(FirstQuery), ok |-> FALSE, rows |-> None, old |-> {}]

Use(kind) == left[kind] > 0 /\ left' = [left EXCEPT ![kind] = @ - 1]

Quiet == \A n \in Calls : calls[n].stage = "none"

\* The page has been mounted for a user whose role is known, and reads.
ConsoleInit ==
    /\ page \in ConsolePages
    /\ server \in Lists
    /\ page = "users" => server[Self]
    /\ page \in {"audit", "data", "monitor"} => server = None
    /\ gone = {}
    /\ list = None
    /\ acted = [r \in Rows |-> {}]
    /\ query = FirstQuery
    /\ shown = query
    /\ calls = [n \in Calls |-> IF n = 0 THEN Request(Load(query)) ELSE NoCall]
    /\ loading = TRUE
    /\ marked = {}
    /\ failed = FALSE
    /\ enroll = FALSE
    /\ overtaken = {}
    /\ left = [clicks |-> MaxClicks, faults |-> MaxFaults, others |-> MaxOthers]

\* Whether the API does what is asked: an admin's page needs the role, and
\* what is registered or switched on already cannot be so again.  list_devices
\* selects id::text and reads it as a Uuid, which yields the default, so that
\* no device has the id its button sends.
Allowed(q) ==
    /\ page = "users" => server[Self]
    /\ q.op = "setup" => ~ server[Self]
    /\ q.op = "act" /\ page # "users" => server[q.row] # q.to /\ q.row \notin gone
    /\ q.op = "act" => page # "devices"

\* What a reading answers: revoked devices are still listed.
Listing(rows) == IF page = "devices" THEN [r \in Rows |-> TRUE] ELSE rows

\* The rows after the request has been executed.
Changed(q) ==
    IF q.op = "act" /\ Allowed(q) THEN [server EXCEPT ![q.row] = q.to] ELSE server

\* The rows whose state the page knows from the answer it will get.
Settled(q, ok) == IF q.op = "act" /\ ok THEN {q.row} ELSE {}

\* The passkeys that a change has revoked.
Revoked == gone' = IF page = "passkeys" THEN gone \cup {r \in Rows : server[r] /\ ~ server'[r]}
                   ELSE gone

\* The request has its answer; what was read before it is now old.
Execution(n, ok) ==
    LET q == calls[n].ask
        rows == IF q.op \in Readings /\ ok THEN Listing(server') ELSE None
        Older(c) == IF c.stage = "answered" /\ c.ask.op \in Readings /\ c.ok
                    THEN [c EXCEPT !.old = @ \cup Settled(q, ok)] ELSE c
    IN
    /\ calls[n].stage = "sent"
    /\ calls' = [m \in Calls |->
                     IF m = n THEN [Request(q) EXCEPT !.stage = "answered", !.ok = ok, !.rows = rows]
                     ELSE Older(calls[m])]
    /\ Revoked
    /\ UNCHANGED <<page, list, loading, marked, failed, enroll, query, shown, overtaken>>

Execute(n) ==
    LET q == calls[n].ask IN
    /\ server' = Changed(q)
    /\ acted' = [r \in Rows |-> IF r \in Settled(q, Allowed(q)) THEN {q.to} ELSE acted[r]]
    /\ Execution(n, Allowed(q))
    /\ UNCHANGED left

\* A request is lost, or its answer is after it was executed.
LoseAnswer(n) ==
    LET q == calls[n].ask IN
    /\ Use("faults")
    /\ server' \in {server, Changed(q)}
    /\ acted' = IF q.op = "act" THEN [acted EXCEPT ![q.row] = {}] ELSE acted
    /\ Execution(n, FALSE)

\* Another window or admin; a device that is revoked stays so.
OthersChange(r) ==
    /\ page = "devices" => server[r]
    /\ r \notin gone
    /\ Use("others")
    /\ server' = [server EXCEPT ![r] = ~ @]
    /\ acted' = [acted EXCEPT ![r] = {}]
    /\ Revoked
    /\ UNCHANGED <<page, list, calls, loading, marked, failed, enroll, query, shown, overtaken>>

-----------------------------------------------------------------------------
(* Clicks *)

\* One more request; the error of the last action is cleared.
Send(q) ==
    /\ Use("clicks")
    /\ calls' = [calls EXCEPT ![left.clicks] = Request(q)]
    /\ failed' = FALSE
    /\ UNCHANGED <<page, server, gone, list, acted, enroll, shown, overtaken>>

\* The Refresh button of the users page.
RefreshList ==
    /\ page = "users" /\ ~ loading
    /\ loading' = TRUE
    /\ Send(Load(query))
    /\ UNCHANGED <<marked, query>>

\* The users are on the screen, the admin who has read them among them.
Listed == page = "users" /\ list[Self]

\* toggleRole: the role opposite to the label.  `busy` holds one row: a second
\* action makes the first row clickable again.
ToggleRole(r) ==
    /\ Listed
    /\ r # Self /\ r \notin marked
    /\ marked' = {r}
    /\ Send(Asks("act", r, ~ list[r], None))
    /\ UNCHANGED <<loading, query>>

\* revokeSessions changes no row of the list, which is read again all the same.
RevokeSessions(r) ==
    /\ Listed
    /\ r # Self /\ r \notin marked
    /\ marked' = {r}
    /\ Send(Asks("revoke", r, FALSE, None))
    /\ UNCHANGED <<loading, query>>

\* No device is marked as the current one.
RevokeDevice(r) ==
    /\ page = "devices" /\ ~ loading
    /\ list[r]
    /\ Send(Asks("act", r, FALSE, list))
    /\ UNCHANGED <<marked, loading, query>>

AddPasskey(r) ==
    /\ page = "passkeys" /\ r \notin gone
    /\ marked = {}
    /\ marked' = {r}
    /\ Send(Asks("act", r, TRUE, None))
    /\ UNCHANGED <<loading, query>>

RemovePasskey(r) ==
    /\ page = "passkeys" /\ list[r]
    /\ Send(Asks("act", r, FALSE, list))
    /\ UNCHANGED <<marked, loading, query>>

StartTotpSetup ==
    /\ page = "factor" /\ ~ list[Self] /\ ~ enroll
    /\ marked = {}
    /\ marked' = {Self}
    /\ Send(Asks("setup", Self, FALSE, None))
    /\ UNCHANGED <<loading, query>>

\* verifyTotp and disableTotp: the form that is shown decides.  Whether the code
\* fits the secret is in Sessions; here it does unless the answer is lost.
SwitchFactor ==
    /\ page = "factor" /\ (list[Self] \/ enroll)
    /\ marked = {}
    /\ marked' = {Self}
    /\ Send(Asks("act", Self, ~ list[Self], None))
    /\ UNCHANGED <<loading, query>>

CancelEnrollment ==
    /\ page = "factor" /\ enroll /\ ~ list[Self] /\ marked = {}
    /\ Use("clicks")
    /\ enroll' = FALSE
    /\ failed' = FALSE
    /\ UNCHANGED <<page, server, gone, list, acted, calls, loading, marked, query, shown, overtaken>>

\* Another filter starts at its first page; Newer and Older turn pages.
Turned(q) ==
    \/ q.filter # query.filter /\ q.offset = 0
    \/ ~ loading /\ q.filter = query.filter /\ q.offset \in {query.offset + 1, query.offset - 1}

\* The effect of the new query reads at once, whatever is still under way.
ChangeQuery(q) ==
    /\ page = "audit"
    /\ Turned(q)
    /\ query' = q
    /\ loading' = TRUE
    /\ Send(Load(q))
    /\ UNCHANGED marked

-----------------------------------------------------------------------------
(* Answers *)

\* The page handles an answer: any that has arrived.
Take(n) ==
    /\ calls[n].stage = "answered"
    /\ UNCHANGED <<page, server, gone, acted, query, left>>

\* ... and asks nothing more.
End(n) == calls' = [calls EXCEPT ![n] = NoCall]

\* The list that was read, or the error; who cannot be identified has no
\* factor, and passkeys that cannot be read are shown as none.
Loaded(n) ==
    LET a == calls[n] IN
    /\ Take(n) /\ End(n)
    /\ a.ask.op \in Readings
    /\ list' = IF a.ok THEN a.rows ELSE IF page \in {"passkeys", "factor"} THEN None ELSE list
    /\ overtaken' = IF a.ok THEN a.old ELSE overtaken
    /\ shown' = IF a.ok THEN a.ask.query ELSE shown
    /\ failed' = (failed \/ ~ a.ok)
    /\ loading' = IF a.ask.op = "load" \/ page = "factor" THEN FALSE ELSE loading
    /\ marked' = IF a.ask.op = "reload" THEN {} ELSE marked
    /\ enroll' = (enroll /\ ~ (a.ask.op = "reload" /\ a.ask.to))

SetUp(n) ==
    LET a == calls[n] IN
    /\ Take(n) /\ End(n)
    /\ a.ask.op = "setup"
    /\ enroll' = (enroll \/ a.ok)
    /\ failed' = (failed \/ ~ a.ok)
    /\ marked' = {}
    /\ UNCHANGED <<list, loading, shown, overtaken>>

\* Defect: the row stays busy, as without the finally.
ActFailedBusy(n) ==
    LET a == calls[n] IN
    /\ Take(n) /\ End(n)
    /\ a.ask.op \in {"act", "revoke"} /\ ~ a.ok
    /\ failed' = TRUE
    /\ UNCHANGED <<list, loading, marked, enroll, shown, overtaken>>

\* An action failed: it may have been executed, and says so.
ActFailed(n) ==
    LET a == calls[n] IN
    /\ Take(n) /\ End(n)
    /\ a.ask.op \in {"act", "revoke"} /\ ~ a.ok
    /\ failed' = TRUE
    /\ marked' = IF page = "passkeys" /\ ~ a.ask.to THEN marked ELSE {}
    /\ UNCHANGED <<list, loading, enroll, shown, overtaken>>

Acted(n) ==
    LET a == calls[n] IN
    /\ Take(n)
    /\ a.ask.op \in {"act", "revoke"} /\ a.ok
    /\ UNCHANGED <<failed, shown>>

\* Users, new passkeys and two-factor are read again after an action.
Rereads(q) == page = "users" \/ (page = "passkeys" /\ q.to) \/ page = "factor"

\* The auth store does not ask while it is asking already.
ReadAgain(n) ==
    LET q == calls[n].ask IN
    /\ Acted(n) /\ Rereads(q)
    /\ IF page = "factor" /\ loading
       THEN /\ End(n)
            /\ marked' = {} /\ enroll' = (enroll /\ ~ q.to)
            /\ UNCHANGED loading
       ELSE /\ calls' = [calls EXCEPT ![n] = Request([q EXCEPT !.op = "reload"])]
            /\ loading' = (loading \/ page = "factor")
            /\ UNCHANGED <<marked, enroll>>
    /\ UNCHANGED <<list, overtaken>>

\* Defect: passkeys filter the list of the click too.
DropRowStale(n) ==
    LET q == calls[n].ask IN
    /\ Acted(n) /\ ~ Rereads(q)
    /\ End(n)
    /\ list' = [q.seen EXCEPT ![q.row] = FALSE]
    /\ overtaken' = overtaken \ {q.row}
    /\ UNCHANGED <<loading, marked, enroll>>

\* Passkeys filter the list of the moment, devices would that of the click.
DropRow(n) ==
    LET q == calls[n].ask IN
    /\ Acted(n) /\ ~ Rereads(q)
    /\ End(n)
    /\ list' = [(IF page = "devices" THEN q.seen ELSE list) EXCEPT ![q.row] = FALSE]
    /\ overtaken' = overtaken \ {q.row}
    /\ UNCHANGED <<loading, marked, enroll>>

-----------------------------------------------------------------------------

ConsoleNext ==
    \/ RefreshList \/ StartTotpSetup \/ SwitchFactor \/ CancelEnrollment
    \/ \E r \in Rows : \/ ToggleRole(r) \/ RevokeSessions(r) \/ RevokeDevice(r)
                       \/ AddPasskey(r) \/ RemovePasskey(r)
                       \/ OthersChange(r)
    \/ \E q \in Query : ChangeQuery(q)
    \/ \E n \in Calls :
           \/ Execute(n) \/ LoseAnswer(n)
           \/ Loaded(n) \/ SetUp(n) \/ ActFailed(n) \/ ReadAgain(n) \/ DropRow(n)

ConsoleSpec == ConsoleInit /\ [][ConsoleNext]_consoleVars

-----------------------------------------------------------------------------
(* Properties *)

\* A page at rest that shows no error shows what its own actions did, whatever
\* other actions, readings and errors lay in between, but for the rows of a
\* reading that the API executed before the action and that arrived after it:
\* nothing in the pages drops such an answer.
ShowsOwnActions ==
    Quiet /\ ~ failed => \A r \in Rows \ overtaken : acted[r] \subseteq {list[r]}

\* When nothing is under way any more, no page is left loading and no row or
\* section is left busy, whichever of the requests behind a click failed, was
\* lost or was skipped because another was asking already.
NothingHangs == Quiet => ~ loading /\ marked = {}

\* "Revoke device" (README, Devices): once the API has executed a revocation of
\* a device that it listed, the device is revoked.
RevokedDeviceIsRevoked ==
    [][\A n \in Calls :
          page = "devices" /\ calls[n].ask.op = "act" /\ Execute(n)
              => ~ server'[calls[n].ask.row]]_consoleVars

\* The audit page at rest shows the events of the filter and the page that it
\* names.  It does not hold: the page shows whichever answer comes last.
AuditShowsItsQuery == Quiet /\ ~ failed => shown = query

=============================================================================
