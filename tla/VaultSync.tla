----------------------------- MODULE VaultSync -----------------------------
(***************************************************************************)
(* The browser tabs of one account: the in-memory store (hooks/useVault),  *)
(* the sync manager that uploads it (hooks/useVaultSync), locking and      *)
(* unlocking, and the network to the vault routes.  The routes appear as   *)
(* one step per upload, the compare-and-set VaultServer implements, and as *)
(* two statements per GET.  `base` and `own` are history: which stored     *)
(* version a tab's contents descend from, and whether the upload in flight *)
(* belongs to the tab's present unlocked session.                          *)
(***************************************************************************)
EXTENDS Naturals, FiniteSets

CONSTANTS
    Tabs,       \* browser tabs or devices signed in to the account
    Items,      \* vault items a user adds and removes
    MaxEdits,   \* bound on the edits of all tabs together
    MaxFaults,  \* bound on failed requests and page reloads
    MaxLocks,   \* bound on lock() calls
    ReopenDuringUpload
        \* whether an unlock may complete while the upload of the tab's
        \* previous session is still unanswered; nothing in the code waits

ASSUME ReopenAssumption == ReopenDuringUpload \in BOOLEAN
ASSUME BoundsAssumption == MaxEdits \in Nat /\ MaxFaults \in Nat /\ MaxLocks \in Nat

VARIABLES
    server,    \* the newest snapshot: its version, contents and history
    stray,     \* uploads whose sender gave up and which may still arrive
    store,     \* store[c]: the Zustand store of tab c
    lastSent,  \* lastSent[c]: the contents the tab believes are stored
    timer,     \* timer[c]: the 600 ms upload timer is armed
    job,       \* job[c]: the upload in flight; inFlight is job[c].at # "none"
    opening,   \* opening[c]: progress of the unlock page's GET
    budget     \* edits, faults and locks still allowed

vars == <<server, stray, store, lastSent, timer, job, opening, budget>>

Contents == SUBSET Items

Upload == [version : Nat, items : Contents, base : Nat]

Job == [at : {"none", "put", "accepted", "refused", "get", "row", "fetched",
              "decrypting"},
        version : Nat, items : Contents, base : Nat, own : BOOLEAN]

Opening == [at : {"none", "row", "fetched"}, version : Nat, items : Contents, base : Nat]

Store == [locked : BOOLEAN, items : Contents, version : Nat, base : Nat,
          sync : {"idle", "syncing", "saved", "error"}]

TypeOK ==
    /\ server \in [version : Nat, items : Contents, from : Nat]
    /\ stray \subseteq Upload
    /\ store \in [Tabs -> Store]
    /\ lastSent \in [Tabs -> Contents]
    /\ timer \in [Tabs -> BOOLEAN]
    /\ job \in [Tabs -> Job]
    /\ opening \in [Tabs -> Opening]
    /\ budget \in [edits : 0 .. MaxEdits, faults : 0 .. MaxFaults, locks : 0 .. MaxLocks]

-----------------------------------------------------------------------------
(* The store and the effect that watches it *)

Locked == [locked |-> TRUE, items |-> {}, version |-> 0, base |-> 0, sync |-> "idle"]

NoJob == [at |-> "none", version |-> 0, items |-> {}, base |-> 0, own |-> FALSE]

NotOpening == [at |-> "none", version |-> 0, items |-> {}, base |-> 0]

\* The store becomes st and the marker becomes sent; React re-runs the
\* effect, which cancels the old timer and arms a new one if the contents
\* differ from the marker.  An empty vault that never synced only moves it.
Rerun(c, st, sent) ==
    LET open == ~ st.locked
        neverSynced == st.version = 0 /\ st.items = {} IN
    /\ store' = [store EXCEPT ![c] = st]
    /\ lastSent' = [lastSent EXCEPT ![c] = IF open /\ neverSynced THEN {} ELSE sent]
    /\ timer' = [timer EXCEPT ![c] = open /\ ~ neverSynced /\ st.items # sent]

Spend(kind) ==
    /\ budget[kind] > 0
    /\ budget' = [budget EXCEPT ![kind] = @ - 1]

\* Register has uploaded the empty snapshot as version 1; every tab is locked.
Init ==
    /\ server = [version |-> 1, items |-> {}, from |-> 0]
    /\ stray = {}
    /\ store = [c \in Tabs |-> Locked]
    /\ lastSent = [c \in Tabs |-> {}]
    /\ timer = [c \in Tabs |-> FALSE]
    /\ job = [c \in Tabs |-> NoJob]
    /\ opening = [c \in Tabs |-> NotOpening]
    /\ budget = [edits |-> MaxEdits, faults |-> MaxFaults, locks |-> MaxLocks]

-----------------------------------------------------------------------------
(* The user *)

\* addItem / removeItem (updateItem is a removal with an addition).
Edit(c, i) ==
    /\ ~ store[c].locked
    /\ Spend("edits")
    /\ Rerun(c, [store[c] EXCEPT !.items = IF i \in @ THEN @ \ {i} ELSE @ \cup {i}],
             lastSent[c])
    /\ UNCHANGED <<server, stray, job, opening>>

\* lock() from the sidebar or the auto-lock interval; the upload goes on.
Lock(c) ==
    /\ ~ store[c].locked
    /\ Spend("locks")
    /\ Rerun(c, Locked, lastSent[c])
    /\ job' = [job EXCEPT ![c].own = FALSE]
    /\ UNCHANGED <<server, stray, opening>>

\* The unlock page reads the vault, GET's two statements ...
OpenRow(c) ==
    /\ store[c].locked
    /\ opening[c].at = "none"
    /\ opening' = [opening EXCEPT ![c] =
                     [@ EXCEPT !.at = "row", !.version = server.version]]
    /\ UNCHANGED <<server, stray, store, lastSent, timer, job, budget>>

OpenSnapshot(c) ==
    /\ opening[c].at = "row"
    /\ opening' = [opening EXCEPT ![c] =
                     [@ EXCEPT !.at = "fetched", !.items = server.items,
                               !.base = server.version]]
    /\ UNCHANGED <<server, stray, store, lastSent, timer, job, budget>>

\* ... then derives the key, decrypts and calls unlock(), and the effect of
\* the new key seeds the marker.
Open(c) ==
    LET o == opening[c] IN
    /\ o.at = "fetched"
    /\ ReopenDuringUpload \/ job[c].at = "none"
    /\ Rerun(c, [locked |-> FALSE, items |-> o.items, version |-> o.version,
                 base |-> o.base, sync |-> "idle"], o.items)
    /\ opening' = [opening EXCEPT ![c] = NotOpening]
    /\ UNCHANGED <<server, stray, job, budget>>

\* The Retry button, offered in state "error".
Retry(c) ==
    /\ ~ store[c].locked
    /\ store[c].sync = "error"
    /\ Rerun(c, [store[c] EXCEPT !.sync = "idle"], lastSent[c])
    /\ UNCHANGED <<server, stray, job, opening, budget>>

\* Defect: the whole job, not its request, is left in the network.
AbandonedJob(c) == IF job[c].at = "put" THEN {job[c]} ELSE {}

\* An upload nobody waits for any more may still reach the server.
Abandoned(c) ==
    IF job[c].at = "put"
    THEN {[version |-> job[c].version, items |-> job[c].items, base |-> job[c].base]}
    ELSE {}

\* The page is reloaded or the tab crashes: its memory is gone.
ReloadPage(c) ==
    /\ ~ store[c].locked \/ job[c].at # "none" \/ opening[c].at # "none"
    /\ Spend("faults")
    /\ store' = [store EXCEPT ![c] = Locked]
    /\ lastSent' = [lastSent EXCEPT ![c] = {}]
    /\ timer' = [timer EXCEPT ![c] = FALSE]
    /\ job' = [job EXCEPT ![c] = NoJob]
    /\ opening' = [opening EXCEPT ![c] = NotOpening]
    /\ stray' = stray \cup Abandoned(c)
    /\ UNCHANGED server

-----------------------------------------------------------------------------
(* The upload job *)

\* While an upload is in flight the timer fires without effect; otherwise
\* the store is captured, encrypted and sent as the next version.
FireTimer(c) ==
    LET st == store[c] IN
    /\ timer[c]
    /\ timer' = [timer EXCEPT ![c] = FALSE]
    /\ IF job[c].at # "none" \/ st.locked
       THEN UNCHANGED <<store, job>>
       ELSE /\ store' = [store EXCEPT ![c].sync = "syncing"]
            /\ job' = [job EXCEPT ![c] = [at |-> "put", version |-> st.version + 1,
                                          items |-> st.items, base |-> st.base,
                                          own |-> TRUE]]
    /\ UNCHANGED <<server, stray, lastSent, opening, budget>>

\* PUT /vault: accepted exactly when it asks for the next version.
Accepts(q) == q.version = server.version + 1

Stored(q) == [version |-> q.version, items |-> q.items, from |-> q.base]

HandlePut(c) ==
    /\ job[c].at = "put"
    /\ server' = IF Accepts(job[c]) THEN Stored(job[c]) ELSE server
    /\ job' = [job EXCEPT ![c].at = IF Accepts(job[c]) THEN "accepted" ELSE "refused"]
    /\ UNCHANGED <<stray, store, lastSent, timer, opening, budget>>

HandleStray(q) ==
    /\ q \in stray
    /\ server' = IF Accepts(q) THEN Stored(q) ELSE server
    /\ stray' = stray \ {q}
    /\ UNCHANGED <<store, lastSent, timer, job, opening, budget>>

\* Defect: the marker takes the contents of the moment, edits made during the
\* upload included.
AckMarksCurrent(c) ==
    /\ job[c].at = "accepted"
    /\ job' = [job EXCEPT ![c] = NoJob]
    /\ Rerun(c, [store[c] EXCEPT !.sync = "saved", !.version = job[c].version,
                                 !.base = job[c].version], store[c].items)
    /\ UNCHANGED <<server, stray, opening, budget>>

\* Defect: serverVersion is no dependency of the effect.
AckWithoutRerun(c) ==
    /\ job[c].at = "accepted"
    /\ job' = [job EXCEPT ![c] = NoJob]
    /\ store' = [store EXCEPT ![c].sync = "saved", ![c].version = job[c].version,
                              ![c].base = job[c].version]
    /\ lastSent' = [lastSent EXCEPT ![c] = job[c].items]
    /\ UNCHANGED <<server, stray, timer, opening, budget>>

\* The 200 arrives: nobody asks whether the session that sent it still
\* lasts.  The effect re-runs only if serverVersion changes.
Ack(c) ==
    LET j == job[c]
        st == [store[c] EXCEPT !.sync = "saved", !.version = j.version,
                               !.base = IF j.own THEN j.version ELSE @] IN
    /\ j.at = "accepted"
    /\ job' = [job EXCEPT ![c] = NoJob]
    /\ IF j.version # store[c].version
       THEN Rerun(c, st, j.items)
       ELSE /\ store' = [store EXCEPT ![c] = st]
            /\ lastSent' = [lastSent EXCEPT ![c] = j.items]
            /\ UNCHANGED timer
    /\ UNCHANGED <<server, stray, opening, budget>>

\* The 409 arrives: fetch the newer copy, again two statements.
Conflict(c) ==
    /\ job[c].at = "refused"
    /\ job' = [job EXCEPT ![c].at = "get"]
    /\ UNCHANGED <<server, stray, store, lastSent, timer, opening, budget>>

\* Defect: the GET is answered from a cache as old as the tab.
FetchRowCached(c) ==
    /\ job[c].at = "get"
    /\ job' = [job EXCEPT ![c] = [@ EXCEPT !.at = "row", !.version = store[c].version]]
    /\ UNCHANGED <<server, stray, store, lastSent, timer, opening, budget>>

FetchRow(c) ==
    /\ job[c].at = "get"
    /\ job' = [job EXCEPT ![c] = [@ EXCEPT !.at = "row", !.version = server.version]]
    /\ UNCHANGED <<server, stray, store, lastSent, timer, opening, budget>>

FetchSnapshot(c) ==
    /\ job[c].at = "row"
    /\ job' = [job EXCEPT ![c] = [@ EXCEPT !.at = "fetched", !.items = server.items,
                                           !.base = server.version]]
    /\ UNCHANGED <<server, stray, store, lastSent, timer, opening, budget>>

\* The key is checked once, before the asynchronous decryption.  The branch
\* for a server without snapshot is unreachable here: version 1 exists.
Decrypt(c) ==
    /\ job[c].at = "fetched"
    /\ job' = [job EXCEPT ![c] = IF store[c].locked THEN NoJob
                                 ELSE [@ EXCEPT !.at = "decrypting"]]
    /\ UNCHANGED <<server, stray, store, lastSent, timer, opening, budget>>

\* Defect: the newer version number is adopted, its contents are not.
ApplyVersionOnly(c) ==
    /\ job[c].at = "decrypting"
    /\ Rerun(c, [store[c] EXCEPT !.version = job[c].version], lastSent[c])
    /\ job' = [job EXCEPT ![c] = NoJob]
    /\ UNCHANGED <<server, stray, opening, budget>>

\* applyServerContents replaces whatever the store holds by now.
Apply(c) ==
    LET j == job[c] IN
    /\ j.at = "decrypting"
    /\ Rerun(c, [locked |-> store[c].locked, items |-> j.items, version |-> j.version,
                 base |-> j.base, sync |-> "saved"], j.items)
    /\ job' = [job EXCEPT ![c] = NoJob]
    /\ UNCHANGED <<server, stray, opening, budget>>

\* fetch rejects, or the answer is an error other than a conflict (the audit
\* insert fails after the commit, the session expired): state "error".
FailRequest(c) ==
    /\ job[c].at \notin {"none", "decrypting"}
    /\ Spend("faults")
    /\ stray' = stray \cup Abandoned(c)
    /\ store' = [store EXCEPT ![c].sync = "error"]
    /\ job' = [job EXCEPT ![c] = NoJob]
    /\ UNCHANGED <<server, lastSent, timer, opening>>

-----------------------------------------------------------------------------

Progress(c) ==
    \/ HandlePut(c) \/ Ack(c) \/ Conflict(c)
    \/ FetchRow(c) \/ FetchSnapshot(c) \/ Decrypt(c) \/ Apply(c)

User(c) ==
    \/ \E i \in Items : Edit(c, i)
    \/ Lock(c) \/ OpenRow(c) \/ OpenSnapshot(c) \/ Open(c) \/ Retry(c)

Next ==
    \/ \E c \in Tabs : User(c) \/ FireTimer(c) \/ Progress(c)
    \/ \E c \in Tabs : ReloadPage(c) \/ FailRequest(c)
    \/ \E q \in stray : HandleStray(q)

Spec == Init /\ [][Next]_vars

\* Armed timers fire; a request is answered or fails and its handler runs.
Fairness ==
    \A c \in Tabs : WF_vars(FireTimer(c)) /\ WF_vars(Progress(c))

FairSpec == Spec /\ Fairness

-----------------------------------------------------------------------------
(* Properties *)

\* A conflict is detected rather than silently overwriting (docs/
\* architecture.md): every snapshot the server accepts was made from the one
\* it replaces, never from an older copy.
NoSilentOverwrite ==
    [][server'.from = server.version]_server

\* What an open tab takes for stored at the version it claims is what the
\* server stores at it, so "nothing to push" is never a mistake about a
\* current version: through lost answers, torn reads and stale acks.
LastSentIsStored ==
    \A c \in Tabs :
        ~ store[c].locked /\ store[c].version = server.version =>
            lastSent[c] = server.items

\* No edit is left behind by the timer that returns while an upload is in
\* flight: an open tab with unsent contents has a timer, a job or an error.
NoEditForgotten ==
    \A c \in Tabs :
        \/ store[c].locked
        \/ store[c].items = lastSent[c]
        \/ timer[c]
        \/ job[c].at # "none"
        \/ store[c].sync = "error"

\* An open tab never moves back to an older version than it has shown, and a
\* conflict is answered by a strictly newer copy: the two statements of the
\* reload, late answers of uploads and other tabs' uploads lie in between.
VersionAdvances ==
    [][\A c \in Tabs :
          ~ store[c].locked /\ ~ store'[c].locked =>
              /\ store[c].version <= store'[c].version
              /\ Apply(c) => store[c].version < store'[c].version]_vars

\* Unsent contents of a tab that stays open are uploaded, replaced by a newer
\* copy or reported as failed.
EveryEditSettles ==
    \A c \in Tabs :
        ~ store[c].locked /\ store[c].items # lastSent[c] ~>
            \/ store[c].locked
            \/ store[c].items = lastSent[c]
            \/ store[c].sync = "error"

\* "Clients download both versions and merge locally": adopting the server's
\* copy after a conflict keeps the items the tab added since its last sync.
ConflictsMerge ==
    [][\A c \in Tabs :
          Apply(c) /\ ~ store[c].locked =>
              store[c].items \ lastSent[c] \subseteq store'[c].items]_vars

\* A locked tab holds no items.  It does not hold: the reload after a conflict
\* decrypts with the key it read and writes to the store that is locked by then.
LockedStoreIsEmpty == \A c \in Tabs : store[c].locked => store[c].items = {}

=============================================================================
