-------------------------- MODULE VaultSyncProofs --------------------------
(***************************************************************************)
(* Proofs about VaultSync for any tabs, items and bounds.  Every version   *)
(* a tab claims is at most the server's, and contents never claim a newer  *)
(* version than they descend from; the second half holds only when an      *)
(* unlock does not overtake the upload of the tab's previous session.      *)
(***************************************************************************)
EXTENDS VaultSync, TLAPS

\* What is known of any unlocked store.
StoreOK(c) ==
    ~ store[c].locked =>
        /\ store[c].version <= server.version
        /\ store[c].base <= server.version
        /\ store[c].version = server.version => lastSent[c] = server.items

\* A fetched copy: perhaps claims less than it holds, and holds no more
\* than the server stores.
CopyOK(f) ==
    /\ f.version <= f.base
    /\ f.base <= server.version
    /\ f.base = server.version => f.items = server.items

UploadOK(q) ==
    /\ q.base <= server.version
    /\ ~ ReopenDuringUpload => q.version <= q.base + 1

JobOK(c) ==
    /\ job[c].at = "put" => UploadOK(job[c])
    /\ job[c].at = "accepted" =>
           /\ job[c].version <= server.version
           /\ job[c].version = server.version => job[c].items = server.items
    /\ job[c].at = "row" => job[c].version <= server.version
    /\ job[c].at \in {"fetched", "decrypting"} => CopyOK(job[c])

OpeningOK(c) ==
    /\ opening[c].at = "row" => opening[c].version <= server.version
    /\ opening[c].at = "fetched" => CopyOK(opening[c])

\* What holds of an open tab whose job, if any, is its own session's.
SessionOK(c) ==
    ~ ReopenDuringUpload /\ ~ store[c].locked =>
        /\ store[c].version <= store[c].base
        /\ job[c].at # "none" => job[c].own
        /\ job[c].at \in {"put", "accepted", "refused"} =>
               job[c].version = store[c].version + 1
        /\ job[c].at \in {"refused", "get"} => store[c].version < server.version
        /\ job[c].at \in {"row", "fetched", "decrypting"} =>
               store[c].version < job[c].version
        /\ \/ store[c].items = lastSent[c]
           \/ timer[c]
           \/ job[c].at # "none"
           \/ store[c].sync = "error"

TabInv(c) == StoreOK(c) /\ JobOK(c) /\ OpeningOK(c) /\ SessionOK(c)

Inv ==
    /\ TypeOK
    /\ server.version >= 1
    /\ \A q \in stray : UploadOK(q)
    /\ \A c \in Tabs : TabInv(c)

-----------------------------------------------------------------------------
(* Lemmas shared by the steps *)

SameTab(c) ==
    /\ store'[c] = store[c] /\ lastSent'[c] = lastSent[c] /\ timer'[c] = timer[c]
    /\ job'[c] = job[c] /\ opening'[c] = opening[c]

LEMMA OtherTab ==
    ASSUME NEW c, SameTab(c), UNCHANGED server, TabInv(c)
    PROVE  TabInv(c)'
BY DEF SameTab, TabInv, StoreOK, JobOK, OpeningOK, SessionOK, UploadOK, CopyOK

\* What the effect of the sync manager does to the tab it belongs to.
LEMMA RerunStep ==
    ASSUME TypeOK, NEW c \in Tabs, NEW st \in Store, NEW sent \in Contents,
           Rerun(c, st, sent)
    PROVE  /\ store' \in [Tabs -> Store]
           /\ lastSent' \in [Tabs -> Contents]
           /\ timer' \in [Tabs -> BOOLEAN]
           /\ store'[c] = st
           /\ st.version # 0 => lastSent'[c] = sent
           /\ ~ st.locked => timer'[c] \/ st.items = lastSent'[c]
           /\ \A d \in Tabs : d # c => /\ store'[d] = store[d]
                                       /\ lastSent'[d] = lastSent[d]
                                       /\ timer'[d] = timer[d]
<1>1. (IF ~ st.locked /\ st.version = 0 /\ st.items = {} THEN {} ELSE sent) \in Contents
  BY DEF Contents
<1>2. QED
  BY <1>1 DEF TypeOK, Rerun

LEMMA BudgetType ==
    ASSUME TypeOK, NEW kind \in {"edits", "faults", "locks"}, Spend(kind)
    PROVE  budget' \in [edits : 0 .. MaxEdits, faults : 0 .. MaxFaults, locks : 0 .. MaxLocks]
BY BoundsAssumption DEF TypeOK, Spend

LEMMA TabTypes ==
    ASSUME TypeOK, NEW c \in Tabs
    PROVE  /\ store[c] \in Store /\ lastSent[c] \in Contents
           /\ job[c] \in Job /\ opening[c] \in Opening
           /\ server.version \in Nat /\ server.items \in Contents
           /\ store[c].version \in Nat /\ store[c].base \in Nat /\ store[c].items \in Contents
           /\ job[c].version \in Nat /\ job[c].base \in Nat /\ job[c].items \in Contents
           /\ opening[c].version \in Nat /\ opening[c].base \in Nat
           /\ opening[c].items \in Contents
BY DEF TypeOK, Store, Job, Opening

LEMMA InitInv == Init => Inv
<1> SUFFICES ASSUME Init PROVE Inv
  OBVIOUS
<1>1. TypeOK
  BY BoundsAssumption
     DEF Init, TypeOK, Locked, NoJob, NotOpening, Store, Job, Opening, Contents
<1>2. ASSUME NEW c \in Tabs PROVE TabInv(c)
  BY DEF Init, Locked, NoJob, NotOpening, TabInv, StoreOK, JobOK, OpeningOK, SessionOK
<1>3. QED
  BY <1>1, <1>2 DEF Init, Inv

-----------------------------------------------------------------------------
(* Steps of the user *)

LEMMA EditStep ==
    ASSUME Inv, NEW c \in Tabs, NEW i \in Items, Edit(c, i)
    PROVE  Inv'
<1>1. PICK st : st = [store[c] EXCEPT !.items = IF i \in @ THEN @ \ {i} ELSE @ \cup {i}]
  OBVIOUS
<1>2. /\ ~ store[c].locked /\ Spend("edits") /\ Rerun(c, st, lastSent[c])
      /\ UNCHANGED <<server, stray, job, opening>>
  BY <1>1 DEF Edit
<1>3. TypeOK /\ TabInv(c)
  BY DEF Inv
<1>4. /\ st \in Store /\ st.locked = store[c].locked /\ st.version = store[c].version
      /\ st.base = store[c].base /\ st.sync = store[c].sync
  BY <1>1, <1>3, TabTypes DEF Store, Contents
<1>5. TypeOK'
  BY <1>2, <1>3, <1>4, RerunStep, TabTypes, BudgetType DEF TypeOK
<1>6. TabInv(c)'
  BY <1>2, <1>3, <1>4, RerunStep, TabTypes
     DEF Inv, TabInv, StoreOK, JobOK, OpeningOK, SessionOK, UploadOK, CopyOK
<1>7. ASSUME NEW d \in Tabs, d # c PROVE TabInv(d)'
  BY <1>2, <1>3, <1>4, <1>7, RerunStep, TabTypes, OtherTab DEF Inv, SameTab
<1>8. QED
  BY <1>2, <1>5, <1>6, <1>7 DEF Inv, UploadOK

LEMMA LockedType == Locked \in Store /\ NoJob \in Job /\ NotOpening \in Opening
BY DEF Locked, NoJob, NotOpening, Store, Job, Opening, Contents

LEMMA LockStep ==
    ASSUME Inv, NEW c \in Tabs, Lock(c)
    PROVE  Inv'
<1>1. /\ Spend("locks") /\ Rerun(c, Locked, lastSent[c])
      /\ job' = [job EXCEPT ![c].own = FALSE]
      /\ UNCHANGED <<server, stray, opening>>
  BY DEF Lock
<1>2. TypeOK /\ TabInv(c)
  BY DEF Inv
<1>3. job' \in [Tabs -> Job]
  BY <1>1, <1>2 DEF TypeOK, Job
<1>4. TypeOK'
  BY <1>1, <1>2, <1>3, RerunStep, TabTypes, BudgetType, LockedType DEF TypeOK
<1>5. /\ store'[c].locked /\ opening'[c] = opening[c]
      /\ job'[c].at = job[c].at /\ job'[c].version = job[c].version
      /\ job'[c].items = job[c].items /\ job'[c].base = job[c].base
  <2>1. store'[c] = Locked
    BY <1>1, <1>2, RerunStep, TabTypes, LockedType
  <2>2. job'[c] = [job[c] EXCEPT !.own = FALSE] /\ job[c] \in Job
    BY <1>1, <1>2 DEF TypeOK
  <2>3. QED
    BY <1>1, <2>1, <2>2 DEF Locked, Job
<1>6. TabInv(c)'
  BY <1>1, <1>2, <1>5
     DEF TabInv, StoreOK, JobOK, OpeningOK, SessionOK, UploadOK, CopyOK
<1>7. ASSUME NEW d \in Tabs, d # c PROVE TabInv(d)'
  <2>1. job'[d] = job[d]
    BY <1>1, <1>2, <1>7 DEF TypeOK
  <2>2. QED
    BY <1>1, <1>2, <1>7, <2>1, RerunStep, TabTypes, LockedType, OtherTab DEF Inv, SameTab
<1>8. QED
  BY <1>1, <1>4, <1>6, <1>7 DEF Inv, UploadOK

LEMMA OpeningStep ==
    ASSUME Inv, NEW c \in Tabs, OpenRow(c) \/ OpenSnapshot(c)
    PROVE  Inv'
<1>1. UNCHANGED <<server, stray, store, lastSent, timer, job, budget>>
  BY DEF OpenRow, OpenSnapshot
<1>2. TypeOK /\ TabInv(c)
  BY DEF Inv
<1>3. PICK o \in Opening :
         /\ opening' = [opening EXCEPT ![c] = o]
         /\ o.at = "row" => o.version = server.version
         /\ o.at = "fetched" => /\ opening[c].at = "row" /\ o.version = opening[c].version
                                /\ o.items = server.items /\ o.base = server.version
  <2>1. CASE OpenRow(c)
    <3>1. PICK o : o = [opening[c] EXCEPT !.at = "row", !.version = server.version]
      OBVIOUS
    <3>2. o \in Opening /\ o.at = "row" /\ o.version = server.version
      BY <1>2, <3>1, TabTypes DEF Opening
    <3>3. QED
      BY <2>1, <3>1, <3>2 DEF OpenRow
  <2>2. CASE OpenSnapshot(c)
    <3>1. PICK o : o = [opening[c] EXCEPT !.at = "fetched", !.items = server.items,
                                          !.base = server.version]
      OBVIOUS
    <3>2. /\ o \in Opening /\ o.at = "fetched" /\ o.version = opening[c].version
          /\ o.items = server.items /\ o.base = server.version
      BY <1>2, <3>1, TabTypes DEF Opening
    <3>3. QED
      BY <2>2, <3>1, <3>2 DEF OpenSnapshot
  <2>3. QED
    BY <2>1, <2>2
<1>4. /\ opening' \in [Tabs -> Opening] /\ opening'[c] = o
      /\ \A d \in Tabs : d # c => opening'[d] = opening[d]
  BY <1>2, <1>3 DEF TypeOK
<1>5. TabInv(c)'
  BY <1>1, <1>2, <1>3, <1>4, TabTypes
     DEF TabInv, StoreOK, JobOK, OpeningOK, SessionOK, UploadOK, CopyOK
<1>6. ASSUME NEW d \in Tabs, d # c PROVE TabInv(d)'
  BY <1>1, <1>4, <1>6, OtherTab DEF Inv, SameTab
<1>7. QED
  BY <1>1, <1>2, <1>4, <1>5, <1>6 DEF Inv, TypeOK, UploadOK

LEMMA OpenStep ==
    ASSUME Inv, NEW c \in Tabs, Open(c)
    PROVE  Inv'
<1>1. PICK st : st = [locked |-> FALSE, items |-> opening[c].items,
                      version |-> opening[c].version, base |-> opening[c].base,
                      sync |-> "idle"]
  OBVIOUS
<1>2. /\ opening[c].at = "fetched"
      /\ ReopenDuringUpload \/ job[c].at = "none"
      /\ Rerun(c, st, opening[c].items)
      /\ opening' = [opening EXCEPT ![c] = NotOpening]
      /\ UNCHANGED <<server, stray, job, budget>>
  BY <1>1 DEF Open
<1>3. TypeOK /\ TabInv(c) /\ server.version >= 1
  BY DEF Inv
<1>4. st \in Store /\ opening[c].items \in Contents
  BY <1>1, <1>3, TabTypes DEF Store
<1>5. TypeOK'
  BY <1>2, <1>3, <1>4, RerunStep, LockedType DEF TypeOK
<1>6. /\ store'[c] = st /\ opening'[c].at = "none" /\ job'[c] = job[c]
      /\ st.version # 0 => lastSent'[c] = st.items
      /\ timer'[c] \/ st.items = lastSent'[c]
  BY <1>1, <1>2, <1>3, <1>4, RerunStep DEF NotOpening, TypeOK
<1>7. CopyOK(opening[c])
  BY <1>2, <1>3 DEF TabInv, OpeningOK
<1>8. StoreOK(c)' /\ OpeningOK(c)' /\ SessionOK(c)'
  BY <1>1, <1>2, <1>3, <1>6, <1>7, TabTypes DEF StoreOK, OpeningOK, SessionOK, CopyOK
<1>9. JobOK(c)'
  BY <1>2, <1>3, <1>6 DEF TabInv, JobOK, UploadOK, CopyOK
<1>10. ASSUME NEW d \in Tabs, d # c PROVE TabInv(d)'
  <2>1. opening'[d] = opening[d]
    BY <1>2, <1>3, <1>10 DEF TypeOK
  <2>2. QED
    BY <1>2, <1>3, <1>4, <1>10, <2>1, RerunStep, OtherTab DEF Inv, SameTab
<1>11. QED
  BY <1>2, <1>5, <1>8, <1>9, <1>10 DEF Inv, TabInv, UploadOK

LEMMA RetryStep ==
    ASSUME Inv, NEW c \in Tabs, Retry(c)
    PROVE  Inv'
<1>1. PICK st : st = [store[c] EXCEPT !.sync = "idle"]
  OBVIOUS
<1>2. /\ ~ store[c].locked /\ Rerun(c, st, lastSent[c])
      /\ UNCHANGED <<server, stray, job, opening, budget>>
  BY <1>1 DEF Retry
<1>3. TypeOK /\ TabInv(c)
  BY DEF Inv
<1>4. /\ st \in Store /\ st.locked = store[c].locked /\ st.version = store[c].version
      /\ st.base = store[c].base /\ st.items = store[c].items
  BY <1>1, <1>3, TabTypes DEF Store
<1>5. TypeOK'
  BY <1>2, <1>3, <1>4, RerunStep, TabTypes DEF TypeOK
<1>6. TabInv(c)'
  BY <1>2, <1>3, <1>4, RerunStep, TabTypes
     DEF Inv, TabInv, StoreOK, JobOK, OpeningOK, SessionOK, UploadOK, CopyOK
<1>7. ASSUME NEW d \in Tabs, d # c PROVE TabInv(d)'
  BY <1>2, <1>3, <1>4, <1>7, RerunStep, TabTypes, OtherTab DEF Inv, SameTab
<1>8. QED
  BY <1>2, <1>5, <1>6, <1>7 DEF Inv, UploadOK

\* An abandoned upload was already known to be behind.
LEMMA AbandonedOK ==
    ASSUME Inv, NEW c \in Tabs, stray' = stray \cup Abandoned(c), UNCHANGED server
    PROVE  stray' \subseteq Upload /\ \A q \in stray' : UploadOK(q)'
<1>1. TypeOK /\ TabInv(c)
  BY DEF Inv
<1>2. \A q \in Abandoned(c) : q \in Upload /\ UploadOK(q)
  BY <1>1, TabTypes DEF Abandoned, Upload, TabInv, JobOK, UploadOK
<1>3. QED
  BY <1>1, <1>2 DEF Inv, TypeOK, UploadOK

LEMMA ReloadPageStep ==
    ASSUME Inv, NEW c \in Tabs, ReloadPage(c)
    PROVE  Inv'
<1>1. /\ Spend("faults")
      /\ store' = [store EXCEPT ![c] = Locked]
      /\ lastSent' = [lastSent EXCEPT ![c] = {}]
      /\ timer' = [timer EXCEPT ![c] = FALSE]
      /\ job' = [job EXCEPT ![c] = NoJob]
      /\ opening' = [opening EXCEPT ![c] = NotOpening]
      /\ stray' = stray \cup Abandoned(c)
      /\ UNCHANGED server
  BY DEF ReloadPage
<1>2. TypeOK
  BY DEF Inv
<1>3. stray' \subseteq Upload /\ \A q \in stray' : UploadOK(q)'
  BY <1>1, AbandonedOK
<1>4. TypeOK'
  BY <1>1, <1>2, <1>3, BudgetType, LockedType DEF TypeOK, Contents
<1>5. TabInv(c)'
  BY <1>1, <1>2
     DEF TypeOK, Locked, NoJob, NotOpening, TabInv, StoreOK, JobOK, OpeningOK, SessionOK
<1>6. ASSUME NEW d \in Tabs, d # c PROVE TabInv(d)'
  <2>1. SameTab(d)
    BY <1>1, <1>2, <1>6 DEF TypeOK, SameTab
  <2>2. QED
    BY <1>1, <2>1, OtherTab DEF Inv
<1>7. QED
  BY <1>1, <1>3, <1>4, <1>5, <1>6 DEF Inv

-----------------------------------------------------------------------------
(* Steps of the upload job *)

LEMMA FireTimerStep ==
    ASSUME Inv, NEW c \in Tabs, FireTimer(c)
    PROVE  Inv'
<1>1. /\ timer' = [timer EXCEPT ![c] = FALSE]
      /\ UNCHANGED <<server, stray, lastSent, opening, budget>>
  BY DEF FireTimer
<1>2. TypeOK /\ TabInv(c)
  BY DEF Inv
<1>3. CASE job[c].at # "none" \/ store[c].locked
  <2>1. UNCHANGED <<store, job>>
    BY <1>3 DEF FireTimer
  <2>2. TypeOK'
    BY <1>1, <1>2, <2>1 DEF TypeOK
  <2>3. TabInv(c)'
    BY <1>1, <1>2, <1>3, <2>1
       DEF TabInv, StoreOK, JobOK, OpeningOK, SessionOK, UploadOK, CopyOK
  <2>4. ASSUME NEW d \in Tabs, d # c PROVE TabInv(d)'
    BY <1>1, <1>2, <2>1, <2>4, OtherTab DEF Inv, TypeOK, SameTab
  <2>5. QED
    BY <1>1, <2>2, <2>3, <2>4 DEF Inv, UploadOK
<1>4. CASE job[c].at = "none" /\ ~ store[c].locked
  <2>1. PICK st, j :
          /\ st = [store[c] EXCEPT !.sync = "syncing"]
          /\ j = [at |-> "put", version |-> store[c].version + 1,
                  items |-> store[c].items, base |-> store[c].base, own |-> TRUE]
    OBVIOUS
  <2>2. /\ st \in Store /\ st.locked = store[c].locked /\ st.version = store[c].version
        /\ st.base = store[c].base /\ st.items = store[c].items
    BY <1>2, <2>1, TabTypes DEF Store
  <2>3. j \in Job
    BY <1>2, <2>1, TabTypes DEF Job
  <2>4. store' = [store EXCEPT ![c] = st] /\ job' = [job EXCEPT ![c] = j]
    BY <1>4, <2>1 DEF FireTimer
  <2>5. TypeOK'
    BY <1>1, <1>2, <2>2, <2>3, <2>4 DEF TypeOK
  <2>6. store'[c] = st /\ job'[c] = j /\ lastSent'[c] = lastSent[c] /\ opening'[c] = opening[c]
    BY <1>1, <1>2, <2>4 DEF TypeOK
  <2>7. TabInv(c)'
    BY <1>1, <1>2, <1>4, <2>1, <2>2, <2>6, TabTypes
       DEF TabInv, StoreOK, JobOK, OpeningOK, SessionOK, UploadOK, CopyOK
  <2>8. ASSUME NEW d \in Tabs, d # c PROVE TabInv(d)'
    BY <1>1, <1>2, <2>4, <2>8, OtherTab DEF Inv, TypeOK, SameTab
  <2>9. QED
    BY <1>1, <2>5, <2>7, <2>8 DEF Inv, UploadOK
<1>5. QED
  BY <1>3, <1>4

\* An accepted upload puts the server ahead of everything known before.
LEMMA StoredStep ==
    ASSUME Inv, NEW q, q.version \in Nat, q.base \in Nat, q.items \in Contents,
           Accepts(q), server' = Stored(q)
    PROVE  /\ server' \in [version : Nat, items : Contents, from : Nat]
           /\ server'.version = server.version + 1 /\ server'.items = q.items
           /\ \A p \in Upload : UploadOK(p) => UploadOK(p)'
           /\ \A d \in Tabs : SameTab(d) => TabInv(d)'
<1>1. /\ server' \in [version : Nat, items : Contents, from : Nat]
      /\ server'.version = server.version + 1 /\ server'.items = q.items
      /\ server.version \in Nat
  BY DEF Inv, TypeOK, Accepts, Stored
<1>2. ASSUME NEW p, p.version \in Nat, p.base \in Nat, UploadOK(p) PROVE UploadOK(p)'
  BY <1>1, <1>2 DEF UploadOK
<1>3. ASSUME NEW d \in Tabs, SameTab(d) PROVE TabInv(d)'
  <2>1. TabInv(d) /\ TypeOK
    BY DEF Inv
  <2>2. QED
    BY <1>1, <1>3, <2>1, TabTypes
       DEF SameTab, TabInv, StoreOK, JobOK, OpeningOK, SessionOK, UploadOK, CopyOK
<1>4. QED
  BY <1>1, <1>2, <1>3 DEF Upload

LEMMA HandleStrayStep ==
    ASSUME Inv, NEW q \in stray, HandleStray(q)
    PROVE  Inv'
<1>1. /\ server' = IF Accepts(q) THEN Stored(q) ELSE server
      /\ stray' = stray \ {q}
      /\ UNCHANGED <<store, lastSent, timer, job, opening, budget>>
  BY DEF HandleStray
<1>2. q.version \in Nat /\ q.base \in Nat /\ q.items \in Contents
  BY DEF Inv, TypeOK, Upload
<1>3. \A d \in Tabs : SameTab(d)
  BY <1>1 DEF SameTab
<1>4. CASE Accepts(q)
  <2>1. server' = Stored(q)
    BY <1>1, <1>4
  <2>2. /\ server' \in [version : Nat, items : Contents, from : Nat]
        /\ server'.version = server.version + 1
        /\ \A p \in Upload : UploadOK(p) => UploadOK(p)'
        /\ \A d \in Tabs : TabInv(d)'
    BY <1>2, <1>3, <1>4, <2>1, StoredStep
  <2>3. QED
    BY <1>1, <2>2 DEF Inv, TypeOK
<1>5. CASE ~ Accepts(q)
  <2>1. UNCHANGED server
    BY <1>1, <1>5
  <2>2. \A d \in Tabs : TabInv(d)'
    BY <1>3, <2>1, OtherTab DEF Inv
  <2>3. QED
    BY <1>1, <2>1, <2>2 DEF Inv, TypeOK, UploadOK
<1>6. QED
  BY <1>4, <1>5

LEMMA HandlePutStep ==
    ASSUME Inv, NEW c \in Tabs, HandlePut(c)
    PROVE  Inv'
<1>1. /\ job[c].at = "put"
      /\ UNCHANGED <<stray, store, lastSent, timer, opening, budget>>
  BY DEF HandlePut
<1>2. TypeOK /\ TabInv(c) /\ \A q \in stray : UploadOK(q)
  BY DEF Inv
<1>3. CASE Accepts(job[c])
  <2>1. server' = Stored(job[c]) /\ job' = [job EXCEPT ![c].at = "accepted"]
    BY <1>3 DEF HandlePut
  <2>2. /\ server' \in [version : Nat, items : Contents, from : Nat]
        /\ server'.version = server.version + 1 /\ server'.items = job[c].items
        /\ \A p \in Upload : UploadOK(p) => UploadOK(p)'
        /\ \A d \in Tabs : SameTab(d) => TabInv(d)'
    BY <1>2, <1>3, <2>1, StoredStep, TabTypes
  <2>3. job' \in [Tabs -> Job] /\ job'[c] = [job[c] EXCEPT !.at = "accepted"]
    BY <1>2, <2>1 DEF TypeOK, Job
  <2>4. /\ job'[c].at = "accepted" /\ job'[c].version = job[c].version
        /\ job'[c].items = job[c].items /\ job'[c].own = job[c].own
    BY <1>2, <2>3, TabTypes DEF Job
  <2>5. TabInv(c)'
    BY <1>1, <1>2, <1>3, <2>2, <2>4, TabTypes
       DEF TabInv, StoreOK, JobOK, OpeningOK, SessionOK, CopyOK, UploadOK, Accepts
  <2>6. ASSUME NEW d \in Tabs, d # c PROVE TabInv(d)'
    BY <1>1, <1>2, <2>1, <2>2, <2>6 DEF TypeOK, SameTab
  <2>7. QED
    BY <1>1, <1>2, <2>2, <2>3, <2>5, <2>6 DEF Inv, TypeOK
<1>4. CASE ~ Accepts(job[c])
  <2>1. UNCHANGED server /\ job' = [job EXCEPT ![c].at = "refused"]
    BY <1>4 DEF HandlePut
  <2>2. job' \in [Tabs -> Job] /\ job'[c] = [job[c] EXCEPT !.at = "refused"]
    BY <1>2, <2>1 DEF TypeOK, Job
  <2>3. /\ job'[c].at = "refused" /\ job'[c].version = job[c].version
        /\ job'[c].own = job[c].own
    BY <1>2, <2>2, TabTypes DEF Job
  <2>4. TabInv(c)'
    BY <1>1, <1>2, <1>4, <2>1, <2>3, TabTypes
       DEF TabInv, StoreOK, JobOK, OpeningOK, SessionOK, CopyOK, Accepts
  <2>5. ASSUME NEW d \in Tabs, d # c PROVE TabInv(d)'
    BY <1>1, <1>2, <2>1, <2>5, OtherTab DEF Inv, TypeOK, SameTab
  <2>6. QED
    BY <1>1, <1>2, <2>1, <2>2, <2>4, <2>5 DEF Inv, TypeOK, UploadOK
<1>5. QED
  BY <1>3, <1>4

LEMMA AckStep ==
    ASSUME Inv, NEW c \in Tabs, Ack(c)
    PROVE  Inv'
<1>1. PICK j \in Job : j = job[c] /\ j.at = "accepted"
  BY TabTypes DEF Ack, Inv
<1>2. PICK st : st = [store[c] EXCEPT !.sync = "saved", !.version = j.version,
                                      !.base = IF j.own THEN j.version ELSE @]
  OBVIOUS
<1>3. /\ job' = [job EXCEPT ![c] = NoJob]
      /\ UNCHANGED <<server, stray, opening, budget>>
      /\ IF j.version # store[c].version
         THEN Rerun(c, st, j.items)
         ELSE /\ store' = [store EXCEPT ![c] = st]
              /\ lastSent' = [lastSent EXCEPT ![c] = j.items]
              /\ UNCHANGED timer
  BY <1>1, <1>2 DEF Ack
<1>4. TypeOK /\ TabInv(c) /\ server.version >= 1
  BY DEF Inv
<1>5. /\ st \in Store /\ st.locked = store[c].locked /\ st.items = store[c].items
      /\ st.version = j.version /\ st.base = IF j.own THEN j.version ELSE store[c].base
      /\ j.version \in Nat /\ j.items \in Contents
  BY <1>1, <1>2, <1>4, TabTypes DEF Store, Job
<1>6. /\ store' \in [Tabs -> Store] /\ lastSent' \in [Tabs -> Contents]
      /\ timer' \in [Tabs -> BOOLEAN] /\ store'[c] = st
      /\ st.version # 0 => lastSent'[c] = j.items
      /\ j.version # store[c].version =>
            (~ st.locked => timer'[c] \/ st.items = lastSent'[c])
      /\ \A d \in Tabs : d # c => /\ store'[d] = store[d]
                                  /\ lastSent'[d] = lastSent[d]
                                  /\ timer'[d] = timer[d]
  <2>1. CASE j.version # store[c].version
    BY <1>3, <1>4, <1>5, <2>1, RerunStep
  <2>2. CASE j.version = store[c].version
    BY <1>3, <1>4, <1>5, <2>2 DEF TypeOK
  <2>3. QED
    BY <2>1, <2>2
<1>7. TypeOK'
  BY <1>3, <1>4, <1>6, LockedType DEF TypeOK
<1>8. job'[c].at = "none" /\ opening'[c] = opening[c]
  BY <1>3, <1>4 DEF TypeOK, NoJob
<1>9. StoreOK(c)'
  BY <1>1, <1>3, <1>4, <1>5, <1>6, TabTypes DEF TabInv, JobOK, StoreOK
<1>10. SessionOK(c)'
  BY <1>1, <1>3, <1>4, <1>5, <1>6, <1>8, TabTypes DEF TabInv, SessionOK
<1>11. JobOK(c)' /\ OpeningOK(c)'
  BY <1>3, <1>4, <1>8 DEF TabInv, JobOK, OpeningOK, CopyOK
<1>12. ASSUME NEW d \in Tabs, d # c PROVE TabInv(d)'
  <2>1. job'[d] = job[d]
    BY <1>3, <1>4, <1>12 DEF TypeOK
  <2>2. QED
    BY <1>3, <1>6, <1>12, <2>1, OtherTab DEF Inv, SameTab
<1>13. QED
  BY <1>3, <1>7, <1>9, <1>10, <1>11, <1>12 DEF Inv, TabInv, UploadOK

\* The steps of a conflict's GET change only the job.
LEMMA ReloadStep ==
    ASSUME Inv, NEW c \in Tabs,
           Conflict(c) \/ FetchRow(c) \/ FetchSnapshot(c) \/ Decrypt(c)
    PROVE  Inv'
<1>1. UNCHANGED <<server, stray, store, lastSent, timer, opening, budget>>
  BY DEF Conflict, FetchRow, FetchSnapshot, Decrypt
<1>2. TypeOK /\ TabInv(c)
  BY DEF Inv
<1>3. PICK j \in Job :
         /\ job' = [job EXCEPT ![c] = j]
         /\ \/ /\ job[c].at = "refused" /\ j.at = "get" /\ j.own = job[c].own
            \/ /\ job[c].at = "get" /\ j.at = "row" /\ j.own = job[c].own
               /\ j.version = server.version
            \/ /\ job[c].at = "row" /\ j.at = "fetched" /\ j.own = job[c].own
               /\ j.version = job[c].version /\ j.items = server.items
               /\ j.base = server.version
            \/ /\ job[c].at = "fetched" /\ ~ store[c].locked /\ j.at = "decrypting"
               /\ j.own = job[c].own /\ j.version = job[c].version
               /\ j.items = job[c].items /\ j.base = job[c].base
            \/ /\ job[c].at = "fetched" /\ store[c].locked /\ j.at = "none"
  <2>1. CASE Conflict(c)
    <3>1. PICK j : j = [job[c] EXCEPT !.at = "get"]
      OBVIOUS
    <3>2. j \in Job /\ j.at = "get" /\ j.own = job[c].own
      BY <1>2, <3>1, TabTypes DEF Job
    <3>3. job' = [job EXCEPT ![c] = j] /\ job[c].at = "refused"
      BY <1>2, <2>1, <3>1 DEF Conflict, TypeOK
    <3>4. QED
      BY <3>2, <3>3
  <2>2. CASE FetchRow(c)
    <3>1. PICK j : j = [job[c] EXCEPT !.at = "row", !.version = server.version]
      OBVIOUS
    <3>2. j \in Job /\ j.at = "row" /\ j.own = job[c].own /\ j.version = server.version
      BY <1>2, <3>1, TabTypes DEF Job
    <3>3. job' = [job EXCEPT ![c] = j] /\ job[c].at = "get"
      BY <2>2, <3>1 DEF FetchRow
    <3>4. QED
      BY <3>2, <3>3
  <2>3. CASE FetchSnapshot(c)
    <3>1. PICK j : j = [job[c] EXCEPT !.at = "fetched", !.items = server.items,
                                      !.base = server.version]
      OBVIOUS
    <3>2. /\ j \in Job /\ j.at = "fetched" /\ j.own = job[c].own
          /\ j.version = job[c].version /\ j.items = server.items
          /\ j.base = server.version
      BY <1>2, <3>1, TabTypes DEF Job
    <3>3. job' = [job EXCEPT ![c] = j] /\ job[c].at = "row"
      BY <2>3, <3>1 DEF FetchSnapshot
    <3>4. QED
      BY <3>2, <3>3
  <2>4. CASE Decrypt(c) /\ store[c].locked
    BY <2>4, LockedType DEF Decrypt, NoJob
  <2>5. CASE Decrypt(c) /\ ~ store[c].locked
    <3>1. PICK j : j = [job[c] EXCEPT !.at = "decrypting"]
      OBVIOUS
    <3>2. /\ j \in Job /\ j.at = "decrypting" /\ j.own = job[c].own
          /\ j.version = job[c].version /\ j.items = job[c].items
          /\ j.base = job[c].base
      BY <1>2, <3>1, TabTypes DEF Job
    <3>3. job' = [job EXCEPT ![c] = j] /\ job[c].at = "fetched"
      BY <2>5, <3>1 DEF Decrypt
    <3>4. QED
      BY <2>5, <3>2, <3>3
  <2>6. QED
    BY <2>1, <2>2, <2>3, <2>4, <2>5
<1>4. /\ job' \in [Tabs -> Job] /\ job'[c] = j
      /\ \A d \in Tabs : d # c => job'[d] = job[d]
  BY <1>2, <1>3 DEF TypeOK
<1>5. StoreOK(c)' /\ OpeningOK(c)'
  BY <1>1, <1>2 DEF TabInv, StoreOK, OpeningOK, CopyOK
<1>6. JobOK(c)'
  BY <1>1, <1>2, <1>3, <1>4, TabTypes DEF TabInv, JobOK, CopyOK
<1>7. SessionOK(c)'
  BY <1>1, <1>2, <1>3, <1>4, TabTypes DEF TabInv, SessionOK
<1>8. ASSUME NEW d \in Tabs, d # c PROVE TabInv(d)'
  BY <1>1, <1>4, <1>8, OtherTab DEF Inv, SameTab
<1>9. QED
  BY <1>1, <1>2, <1>4, <1>5, <1>6, <1>7, <1>8 DEF Inv, TypeOK, TabInv, UploadOK

LEMMA ApplyStep ==
    ASSUME Inv, NEW c \in Tabs, Apply(c)
    PROVE  Inv'
<1>1. PICK j \in Job : j = job[c] /\ j.at = "decrypting"
  BY TabTypes DEF Apply, Inv
<1>2. PICK st : st = [locked |-> store[c].locked, items |-> j.items,
                      version |-> j.version, base |-> j.base, sync |-> "saved"]
  OBVIOUS
<1>3. /\ Rerun(c, st, j.items)
      /\ job' = [job EXCEPT ![c] = NoJob]
      /\ UNCHANGED <<server, stray, opening, budget>>
  BY <1>1, <1>2 DEF Apply
<1>4. TypeOK /\ TabInv(c) /\ server.version >= 1
  BY DEF Inv
<1>5. /\ st \in Store /\ j.items \in Contents /\ j.version \in Nat /\ j.base \in Nat
      /\ CopyOK(j)
  BY <1>1, <1>2, <1>4, TabTypes DEF Store, Job, TabInv, JobOK
<1>6. TypeOK'
  BY <1>3, <1>4, <1>5, RerunStep, LockedType DEF TypeOK
<1>7. /\ store'[c] = st /\ job'[c].at = "none" /\ opening'[c] = opening[c]
      /\ st.version # 0 => lastSent'[c] = j.items
      /\ ~ st.locked => timer'[c] \/ st.items = lastSent'[c]
  BY <1>3, <1>4, <1>5, RerunStep DEF TypeOK, NoJob
<1>8. StoreOK(c)' /\ SessionOK(c)'
  BY <1>2, <1>3, <1>4, <1>5, <1>7, TabTypes DEF StoreOK, SessionOK, CopyOK
<1>9. JobOK(c)' /\ OpeningOK(c)'
  BY <1>3, <1>4, <1>7 DEF TabInv, JobOK, OpeningOK, CopyOK
<1>10. ASSUME NEW d \in Tabs, d # c PROVE TabInv(d)'
  <2>1. job'[d] = job[d]
    BY <1>3, <1>4, <1>10 DEF TypeOK
  <2>2. QED
    BY <1>3, <1>4, <1>5, <1>10, <2>1, RerunStep, OtherTab DEF Inv, SameTab
<1>11. QED
  BY <1>3, <1>6, <1>8, <1>9, <1>10 DEF Inv, TabInv, UploadOK

LEMMA FailRequestStep ==
    ASSUME Inv, NEW c \in Tabs, FailRequest(c)
    PROVE  Inv'
<1>1. PICK st : st = [store[c] EXCEPT !.sync = "error"]
  OBVIOUS
<1>2. /\ Spend("faults")
      /\ stray' = stray \cup Abandoned(c)
      /\ store' = [store EXCEPT ![c] = st]
      /\ job' = [job EXCEPT ![c] = NoJob]
      /\ UNCHANGED <<server, lastSent, timer, opening>>
  BY <1>1 DEF FailRequest
<1>3. TypeOK /\ TabInv(c)
  BY DEF Inv
<1>4. /\ st \in Store /\ st.locked = store[c].locked /\ st.version = store[c].version
      /\ st.base = store[c].base /\ st.sync = "error"
  BY <1>1, <1>3, TabTypes DEF Store
<1>5. stray' \subseteq Upload /\ \A q \in stray' : UploadOK(q)'
  BY <1>2, AbandonedOK
<1>6. TypeOK'
  BY <1>2, <1>3, <1>4, <1>5, BudgetType, LockedType DEF TypeOK
<1>7. store'[c] = st /\ job'[c].at = "none"
  BY <1>2, <1>3 DEF TypeOK, NoJob
<1>8. TabInv(c)'
  BY <1>2, <1>3, <1>4, <1>7
     DEF TabInv, StoreOK, JobOK, OpeningOK, SessionOK, CopyOK
<1>9. ASSUME NEW d \in Tabs, d # c PROVE TabInv(d)'
  <2>1. SameTab(d)
    BY <1>2, <1>3, <1>9 DEF TypeOK, SameTab
  <2>2. QED
    BY <1>2, <2>1, OtherTab DEF Inv
<1>10. QED
  BY <1>2, <1>5, <1>6, <1>8, <1>9 DEF Inv

-----------------------------------------------------------------------------

LEMMA NextInv == Inv /\ [Next]_vars => Inv'
<1> SUFFICES ASSUME Inv, [Next]_vars PROVE Inv'
  OBVIOUS
<1>1. ASSUME NEW c \in Tabs, User(c) PROVE Inv'
  BY <1>1, EditStep, LockStep, OpeningStep, OpenStep, RetryStep DEF User
<1>2. ASSUME NEW c \in Tabs, Progress(c) PROVE Inv'
  BY <1>2, HandlePutStep, AckStep, ReloadStep, ApplyStep DEF Progress
<1>3. ASSUME NEW c \in Tabs, FireTimer(c) \/ ReloadPage(c) \/ FailRequest(c) PROVE Inv'
  BY <1>3, FireTimerStep, ReloadPageStep, FailRequestStep
<1>4. ASSUME NEW q \in stray, HandleStray(q) PROVE Inv'
  BY <1>4, HandleStrayStep
<1>5. CASE UNCHANGED vars
  BY <1>5 DEF vars, Inv, TypeOK, TabInv, StoreOK, JobOK, OpeningOK, SessionOK,
              UploadOK, CopyOK
<1>6. QED
  BY <1>1, <1>2, <1>3, <1>4, <1>5 DEF Next

LEMMA Invariance == Spec => []Inv
BY InitInv, NextInv, PTL DEF Spec

\* Every reachable state of the tabs, the network and the server is well
\* typed, for any number of tabs and any bounds.
THEOREM TypeCorrect == Spec => []TypeOK
<1>1. Inv => TypeOK
  BY DEF Inv
<1>2. QED
  BY <1>1, Invariance, PTL

\* The sync manager's marker never lies about the version the tab claims,
\* even when a stale answer reaches a later session.
THEOREM MarkerHonest == Spec => []LastSentIsStored
<1>1. Inv => LastSentIsStored
  BY DEF Inv, TabInv, StoreOK, LastSentIsStored
<1>2. QED
  BY <1>1, Invariance, PTL

\* If no unlock overtakes an upload, the skipped timer loses no edit.
THEOREM NothingForgotten == ~ ReopenDuringUpload => (Spec => []NoEditForgotten)
<1> SUFFICES ASSUME ~ ReopenDuringUpload PROVE Spec => []NoEditForgotten
  OBVIOUS
<1>1. Inv => NoEditForgotten
  BY DEF Inv, TabInv, SessionOK, NoEditForgotten
<1>2. QED
  BY <1>1, Invariance, PTL

\* If no unlock overtakes an upload, no accepted upload overwrites a
\* snapshot its sender has not seen.
THEOREM OverwriteFree == ~ ReopenDuringUpload => (Spec => NoSilentOverwrite)
<1> SUFFICES ASSUME ~ ReopenDuringUpload PROVE Spec => NoSilentOverwrite
  OBVIOUS
<1>1. ASSUME Inv, [Next]_vars, server' # server
      PROVE  server'.from = server.version
  <2>1. PICK q : /\ Accepts(q) /\ server' = Stored(q) /\ UploadOK(q)
                 /\ q.version \in Nat /\ q.base \in Nat
    <3>1. CASE \E c \in Tabs : HandlePut(c)
      <4>1. PICK c \in Tabs : HandlePut(c)
        BY <3>1
      <4>2. Accepts(job[c]) /\ server' = Stored(job[c]) /\ job[c].at = "put"
        BY <1>1, <4>1 DEF HandlePut
      <4>3. UploadOK(job[c]) /\ job[c].version \in Nat /\ job[c].base \in Nat
        BY <1>1, <4>2, TabTypes DEF Inv, TabInv, JobOK
      <4>4. QED
        BY <4>2, <4>3
    <3>2. CASE \E q \in stray : HandleStray(q)
      BY <1>1, <3>2 DEF HandleStray, Inv, TypeOK, Upload
    <3>3. CASE UNCHANGED server
      BY <1>1, <3>3
    <3>4. QED
      BY <1>1, <3>1, <3>2, <3>3
         DEF Next, User, Progress, vars, Edit, Lock, OpenRow, OpenSnapshot, Open, Retry,
             FireTimer, Ack, Conflict, FetchRow, FetchSnapshot, Decrypt, Apply,
             ReloadPage, FailRequest
  <2>2. q.base = server.version
    BY <1>1, <2>1 DEF Inv, TypeOK, UploadOK, Accepts
  <2>3. QED
    BY <2>1, <2>2 DEF Stored
<1>2. Inv /\ [Next]_vars =>
        [server'.from = server.version]_server
  BY <1>1
<1>3. QED
  BY <1>2, Invariance, PTL DEF Spec, NoSilentOverwrite

LEMMA AckStore ==
    ASSUME TypeOK, NEW c \in Tabs, Ack(c)
    PROVE  /\ store'[c].locked = store[c].locked /\ store'[c].version = job[c].version
           /\ \A d \in Tabs : d # c => store'[d] = store[d]
<1> DEFINE st == [store[c] EXCEPT !.sync = "saved", !.version = job[c].version,
                                 !.base = IF job[c].own THEN job[c].version ELSE @]
<1>1. store' = [store EXCEPT ![c] = st]
  BY DEF Ack, Rerun
<1>2. store \in [Tabs -> Store]
  BY DEF TypeOK
<1>3. st.locked = store[c].locked /\ st.version = job[c].version
  BY <1>2 DEF Store
<1> HIDE DEF st
<1>4. QED
  BY <1>1, <1>2, <1>3

\* Only a locked tab is being opened.
OpenedWhenLocked == \A c \in Tabs : opening[c].at # "none" => store[c].locked

LEMMA OpenedWhenLockedStep == TypeOK /\ OpenedWhenLocked /\ [Next]_vars => OpenedWhenLocked'
<1> SUFFICES ASSUME TypeOK, OpenedWhenLocked, [Next]_vars, NEW d \in Tabs,
                    opening'[d].at # "none"
             PROVE  store'[d].locked
  BY DEF OpenedWhenLocked
<1>1. /\ opening \in [Tabs -> Opening] /\ store \in [Tabs -> Store]
      /\ opening[d].at # "none" => store[d].locked
  BY DEF TypeOK, OpenedWhenLocked
<1>2. CASE UNCHANGED <<store, opening>>
  BY <1>1, <1>2
<1>3. ASSUME NEW c \in Tabs, NEW i \in Items, Edit(c, i) PROVE store'[d].locked
  BY <1>1, <1>3 DEF Edit, Rerun, Store
<1>4. ASSUME NEW c \in Tabs, Lock(c) PROVE store'[d].locked
  BY <1>1, <1>4 DEF Lock, Rerun, Locked
<1>5. ASSUME NEW c \in Tabs, OpenRow(c) \/ OpenSnapshot(c) PROVE store'[d].locked
  BY <1>1, <1>5 DEF OpenRow, OpenSnapshot
<1>6. ASSUME NEW c \in Tabs, Open(c) PROVE store'[d].locked
  BY <1>1, <1>6 DEF Open, Rerun, NotOpening
<1>7. ASSUME NEW c \in Tabs, Retry(c) PROVE store'[d].locked
  BY <1>1, <1>7 DEF Retry, Rerun, Store
<1>8. ASSUME NEW c \in Tabs, ReloadPage(c) PROVE store'[d].locked
  BY <1>1, <1>8 DEF ReloadPage, Locked
<1>9. ASSUME NEW c \in Tabs, FireTimer(c) PROVE store'[d].locked
  BY <1>1, <1>9 DEF FireTimer, Store
<1>10. ASSUME NEW c \in Tabs, Ack(c) PROVE store'[d].locked
  BY <1>1, <1>10, AckStore DEF Ack
<1>11. ASSUME NEW c \in Tabs, Apply(c) PROVE store'[d].locked
  BY <1>1, <1>11 DEF Apply, Rerun
<1>12. ASSUME NEW c \in Tabs, FailRequest(c) PROVE store'[d].locked
  BY <1>1, <1>12 DEF FailRequest, Store
<1>13. ASSUME NEW c \in Tabs, HandlePut(c) \/ Conflict(c) \/ FetchRow(c) \/ FetchSnapshot(c) \/ Decrypt(c)
       PROVE  store'[d].locked
  BY <1>2, <1>13 DEF HandlePut, Conflict, FetchRow, FetchSnapshot, Decrypt
<1>14. ASSUME NEW q \in stray, HandleStray(q) PROVE store'[d].locked
  BY <1>2, <1>14 DEF HandleStray
<1>15. QED
  BY <1>2, <1>3, <1>4, <1>5, <1>6, <1>7, <1>8, <1>9, <1>10, <1>11, <1>12, <1>13, <1>14
     DEF Next, User, Progress, vars

LEMMA OpenedWhenLockedAlways == Spec => []OpenedWhenLocked
<1>1. Init => OpenedWhenLocked
  BY DEF Init, OpenedWhenLocked, NotOpening
<1>2. Inv => TypeOK
  BY DEF Inv
<1>3. QED
  BY <1>1, <1>2, OpenedWhenLockedStep, Invariance, PTL DEF Spec

\* If no unlock overtakes an upload, an open tab never moves back to an older
\* version, and the copy that answers a conflict is strictly newer than what
\* the tab shows when it is applied, whatever other tabs upload meanwhile.
THEOREM TabsAdvance == ~ ReopenDuringUpload => (Spec => VersionAdvances)
<1> SUFFICES ASSUME ~ ReopenDuringUpload PROVE Spec => VersionAdvances
  OBVIOUS
<1> DEFINE Advances == \A c \in Tabs :
               ~ store[c].locked /\ ~ store'[c].locked =>
                   /\ store[c].version <= store'[c].version
                   /\ Apply(c) => store[c].version < store'[c].version
<1>1. ASSUME Inv, OpenedWhenLocked, [Next]_vars, NEW d \in Tabs,
             ~ store[d].locked, ~ store'[d].locked
      PROVE  /\ store[d].version <= store'[d].version
             /\ Apply(d) => store[d].version < store'[d].version
  <2>1. /\ store \in [Tabs -> Store] /\ store[d].version \in Nat /\ job[d].version \in Nat
        /\ opening[d].at = "none"
    BY <1>1, TabTypes DEF Inv, TypeOK, OpenedWhenLocked
  <2>2. /\ job[d].at = "accepted" => job[d].version = store[d].version + 1
        /\ job[d].at = "decrypting" => store[d].version < job[d].version
    BY <1>1 DEF Inv, TabInv, SessionOK
  <2>3. Apply(d) => store[d].version < store'[d].version
    BY <2>1, <2>2 DEF Apply, Rerun
  <2>4. CASE store'[d].version = store[d].version
    BY <2>1, <2>3, <2>4
  <2>5. CASE Apply(d)
    BY <2>1, <2>2, <2>3, <2>5 DEF Apply, Rerun
  <2>6. CASE Ack(d)
    <3>1. store'[d].version = job[d].version
      BY <1>1, <2>6, AckStore DEF Inv
    <3>2. QED
      BY <2>1, <2>2, <2>3, <2>6, <3>1 DEF Ack
  <2>7. ASSUME ~ Apply(d), ~ Ack(d) PROVE store'[d].version = store[d].version
    <3>1. CASE UNCHANGED store
      BY <3>1
    <3>2. ASSUME NEW c \in Tabs, NEW i \in Items, Edit(c, i)
          PROVE  store'[d].version = store[d].version
      BY <2>1, <3>2 DEF Edit, Rerun, Store
    <3>3. ASSUME NEW c \in Tabs, Lock(c) \/ ReloadPage(c)
          PROVE  store'[d].version = store[d].version
      BY <1>1, <2>1, <3>3 DEF Lock, ReloadPage, Rerun, Locked
    <3>4. ASSUME NEW c \in Tabs, Open(c) PROVE store'[d].version = store[d].version
      BY <2>1, <3>4 DEF Open, Rerun
    <3>5. ASSUME NEW c \in Tabs, Retry(c) PROVE store'[d].version = store[d].version
      BY <2>1, <3>5 DEF Retry, Rerun, Store
    <3>6. ASSUME NEW c \in Tabs, FireTimer(c) \/ FailRequest(c)
          PROVE  store'[d].version = store[d].version
      BY <2>1, <3>6 DEF FireTimer, FailRequest, Store
    <3>7. ASSUME NEW c \in Tabs, Ack(c) \/ Apply(c) PROVE store'[d].version = store[d].version
      BY <2>1, <2>7, <3>7 DEF Ack, Apply, Rerun
    <3>8. ASSUME NEW c \in Tabs,
                 \/ OpenRow(c) \/ OpenSnapshot(c) \/ HandlePut(c) \/ Conflict(c)
                 \/ FetchRow(c) \/ FetchSnapshot(c) \/ Decrypt(c)
          PROVE  store'[d].version = store[d].version
      BY <3>8 DEF OpenRow, OpenSnapshot, HandlePut, Conflict, FetchRow, FetchSnapshot, Decrypt
    <3>9. ASSUME NEW q \in stray, HandleStray(q) PROVE store'[d].version = store[d].version
      BY <3>9 DEF HandleStray
    <3>10. QED
      BY <1>1, <3>1, <3>2, <3>3, <3>4, <3>5, <3>6, <3>7, <3>8, <3>9
         DEF Next, User, Progress, vars
  <2>8. QED
    BY <2>4, <2>5, <2>6, <2>7
<1>2. Inv /\ OpenedWhenLocked /\ [Next]_vars => [Advances]_vars
  BY <1>1
<1>3. QED
  BY <1>2, Invariance, OpenedWhenLockedAlways, PTL DEF Spec, VersionAdvances

=============================================================================
