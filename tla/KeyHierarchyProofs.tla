------------------------- MODULE KeyHierarchyProofs -------------------------
(***************************************************************************)
(* Proofs about KeyHierarchy for any tabs, passwords, keys and kits.  The  *)
(* invariant follows each key from where it was read or generated to the   *)
(* request that carries it: whatever a tab, a copy of a row, a handler or  *)
(* a request in the network holds was the snapshot's key at the version it *)
(* names, so that the compare-and-set of PUT /vault refuses what is stale, *)
(* and PUT /vault/keys, which compares nothing, carries the random key     *)
(* that never changes any more.  The parts are predicates of a server row  *)
(* `db` and what one tab holds, so that they can be compared across steps. *)
(***************************************************************************)
EXTENDS KeyHierarchy, TLAPS

\* The key k encrypted the snapshot of version n.
EncryptedBy(db, n, k) ==
    /\ n <= db.version
    /\ n = db.version => k = db.snap
    /\ n = 0 => k = NoKey
    /\ k \in Veks => db.snap = k
    /\ k \in Masters => db.snap \in Veks \cup {k}

\* A wrap that may be stored next to snapshots under key k.
Carries(wrap, k) == wrap = NoWrap \/ (wrap # NoWrap /\ wrap.key = k)

Introduces(r) ==
    /\ r.key \in Veks
    /\ r.kek # NoWrap /\ r.kek.key = r.key
    /\ Carries(r.rec, r.key)

\* PUT /vault, which is accepted for the next version only: a save repeats the
\* snapshot's key, anything else brings the first random key and its wraps.
SnapshotSafe(db, r) ==
    /\ r.version > 0 /\ r.version <= db.version + 1
    /\ r.version = db.version + 1 =>
          \/ r.kek = NoWrap /\ r.rec = NoWrap /\ r.key = db.snap /\ r.key # NoKey
          \/ Introduces(r) /\ db.snap \notin Veks

\* PUT /vault/keys, which is always accepted: wraps of the key in use.
WrapsSafe(db, r) ==
    /\ db.snap \in Veks
    /\ Carries(r.kek, db.snap) /\ Carries(r.rec, db.snap)

RequestSafe(db, r) ==
    /\ r.kind = "vault" => SnapshotSafe(db, r)
    /\ r.kind = "keys" => WrapsSafe(db, r)

-----------------------------------------------------------------------------

RowSound(db) ==
    /\ ~ db.exists => db.version = 0
    /\ db.version = 0 <=> db.snap = NoKey
    /\ db.kek = NoWrap => db.snap \notin Veks /\ db.rec = NoWrap
    /\ db.kek # NoWrap => db.snap \in Veks /\ db.kek.key = db.snap
    /\ Carries(db.rec, db.snap)

StoreSound(db, st) ==
    st.open => st.key # NoKey /\ EncryptedBy(db, st.version, st.key)

\* The copies that the settings page and the unlock page keep.
MetaSound(db, m) ==
    /\ m.snap \in Masters => db.version > 0
    /\ m.kek # NoWrap => db.snap \in Veks /\ m.kek.key = db.snap

PendingSound(db, p) == p \in Veks => db.snap = p

\* What the operation of a handler says of its request.
Shape(j) ==
    j.at \in {"deriving", "sent", "ok"} =>
        /\ j.op \in {"create", "heal", "upgrade", "save"} => j.req.kind = "vault"
        /\ j.op \in {"create", "heal"} => j.req.version = 1
        /\ j.op \in {"create", "heal", "upgrade"} => j.req.key \in Veks
        /\ j.op \in {"create", "kit"} => j.req.rec.under \in Kits

\* What a handler has sent and what it has got.
JobSound(db, j) ==
    /\ Shape(j)
    /\ j.at = "sent" => RequestSafe(db, j.req)
    /\ j.at = "got" => EncryptedBy(db, j.row.version, j.row.snap)
    /\ j.at = "deriving" => j.op = "upgrade" /\ Introduces(j.req) /\ db.version > 0
    /\ j.at = "ok" /\ j.req.kind = "vault" =>
          j.req.key # NoKey /\ EncryptedBy(db, j.req.version, j.req.key)

\* An unlock under way and an open store exclude each other.  While an upload
\* under a random key is under way, the tab cannot come to hold an older key.
UploadKeepsKey(db, st, upload, entry) ==
    /\ entry.op = "open" => entry.at = "got" /\ ~ st.open
    /\ upload.req.key \in Veks =>
          /\ db.snap = upload.req.key
          /\ st.open => st.key = upload.req.key
          /\ entry.op = "open" => entry.row.snap = upload.req.key

TabSound(db, st, m, p, jobs) ==
    /\ StoreSound(db, st) /\ MetaSound(db, m) /\ PendingSound(db, p)
    /\ \A s \in Slots : JobSound(db, jobs[s])
    /\ UploadKeepsKey(db, st, jobs["sync"], jobs["entry"])

Inv ==
    /\ TypeOK
    /\ RowSound(server)
    /\ \A r \in stray : RequestSafe(server, r)
    /\ \A t \in Tabs : TabSound(server, store[t], meta[t], pending[t], job[t])

-----------------------------------------------------------------------------
(* Lemmas about the data *)

LEMMA Distinct ==
    /\ NoKey \notin Masters \cup Veks \cup Kits
    /\ Zeroed \notin Masters \cup Veks \cup Kits \cup {NoKey}
    /\ Masters \cap Veks = {} /\ Masters \cap Kits = {} /\ Veks \cap Kits = {}
BY SecretsAssumption

LEMMA Values ==
    /\ NoWrap \in Wrap /\ NoRow \in Row /\ Register \in Request /\ Idle \in Job
    /\ 1 \in 0 .. MaxVersion
    /\ \A w \in Wrap : w # NoWrap => w.under # NoKey \/ w.key # NoKey
<1>1. NoWrap \in Wrap
  BY DEF NoWrap, Wrap
<1>2. 0 \in 0 .. MaxVersion /\ 1 \in 0 .. MaxVersion
  BY KeyBoundsAssumption
<1>3. NoRow \in Row
  BY <1>1, <1>2 DEF NoRow, Row, DataKeys
<1>4. Register \in Request
  BY <1>1, <1>2 DEF Register, Request, DataKeys
<1>5. Idle \in Job
  BY <1>3, <1>4 DEF Idle, Job
<1>6. \A w \in Wrap : w # NoWrap => w.under # NoKey \/ w.key # NoKey
  BY DEF Wrap, NoWrap
<1>7. QED
  BY <1>1, <1>2, <1>3, <1>4, <1>5, <1>6

LEMMA SnapshotType ==
    ASSUME NEW n \in 0 .. MaxVersion, NEW k \in DataKeys, NEW w \in Wrap, NEW v \in Wrap
    PROVE  /\ Snapshot(n, k, w, v) \in Request
           /\ Snapshot(n, k, w, v).kind = "vault" /\ Snapshot(n, k, w, v).version = n
           /\ Snapshot(n, k, w, v).key = k
           /\ Snapshot(n, k, w, v).kek = w /\ Snapshot(n, k, w, v).rec = v
BY DEF Snapshot, Request

LEMMA RewrapType ==
    ASSUME NEW w \in Wrap, NEW v \in Wrap
    PROVE  /\ Rewrap(w, v) \in Request
           /\ Rewrap(w, v).kind = "keys" /\ Rewrap(w, v).key = NoKey
           /\ Rewrap(w, v).kek = w /\ Rewrap(w, v).rec = v
BY Values DEF Rewrap, Register, Request

Ops == {"none", "register", "create", "open", "heal", "rewrap", "change", "upgrade", "kit",
        "save"}

\* A handler that has sent r.
Sent(op, r) == [Idle EXCEPT !.op = op, !.at = "sent", !.req = r]

LEMMA SentType ==
    ASSUME NEW op \in Ops, NEW r \in Request
    PROVE  /\ Sent(op, r) \in Job
           /\ Sent(op, r).op = op /\ Sent(op, r).at = "sent" /\ Sent(op, r).req = r
BY Values DEF Sent, Idle, Job, Ops

LEMMA StepType ==
    ASSUME TypeOK, NEW t \in Tabs, NEW s \in Slots, NEW j \in Job, Step(t, s, j)
    PROVE  /\ job' \in [Tabs -> [Slots -> Job]]
           /\ job'[t][s] = j
           /\ \A x \in Slots : x # s => job'[t][x] = job[t][x]
           /\ \A u \in Tabs : u # t => job'[u] = job[u]
BY DEF TypeOK, Step

LEMMA SendType ==
    ASSUME TypeOK, NEW t \in Tabs, NEW s \in Slots, NEW op \in Ops, NEW r \in Request,
           Send(t, s, op, r)
    PROVE  Step(t, s, Sent(op, r)) /\ job' \in [Tabs -> [Slots -> Job]]
<1>1. Step(t, s, Sent(op, r))
  BY DEF Send, Sent
<1>2. QED
  BY <1>1, SentType, StepType

\* How the server's row may change: what the version names stays.
Grows(db, next) ==
    /\ db.version <= next.version
    /\ next.version = db.version => next.snap = db.snap
    /\ db.snap \in Veks => next.snap = db.snap
    /\ db.snap \in Masters => next.snap \in Veks \cup {db.snap}

LEMMA EncryptedStays ==
    ASSUME NEW db \in Row, NEW next \in Row, Grows(db, next), NEW n \in 0 .. MaxVersion,
           NEW k, EncryptedBy(db, n, k)
    PROVE  EncryptedBy(next, n, k)
<1>1. db.version \in Nat /\ next.version \in Nat /\ n \in Nat
  BY KeyBoundsAssumption DEF Row
<1>2. QED
  BY <1>1 DEF EncryptedBy, Grows

LEMMA RequestStays ==
    ASSUME NEW db \in Row, NEW next \in Row, Grows(db, next), NEW r \in Request,
           RequestSafe(db, r)
    PROVE  RequestSafe(next, r)
<1>1. db.version \in Nat /\ next.version \in Nat /\ r.version \in Nat
  BY KeyBoundsAssumption DEF Row, Request
<1>2. r.kind = "vault" => SnapshotSafe(next, r)
  BY <1>1 DEF RequestSafe, SnapshotSafe, Grows
<1>3. r.kind = "keys" => WrapsSafe(next, r)
  BY DEF RequestSafe, WrapsSafe, Grows
<1>4. QED
  BY <1>2, <1>3 DEF RequestSafe

LEMMA JobStays ==
    ASSUME NEW db \in Row, NEW next \in Row, Grows(db, next), NEW j \in Job, JobSound(db, j)
    PROVE  JobSound(next, j)
<1>1. /\ j.req \in Request /\ j.row \in Row
      /\ j.req.version \in 0 .. MaxVersion /\ j.row.version \in 0 .. MaxVersion
      /\ db.version \in Nat /\ next.version \in Nat
  BY KeyBoundsAssumption DEF Job, Row, Request
<1>2. db.version > 0 => next.version > 0
  BY <1>1 DEF Grows
<1>3. QED
  BY <1>1, <1>2, EncryptedStays, RequestStays DEF JobSound

\* What a tab holds stays sound when the server's row grows.
LEMMA TabStays ==
    ASSUME TypeOK, NEW next \in Row, Grows(server, next), NEW t \in Tabs,
           TabSound(server, store[t], meta[t], pending[t], job[t])
    PROVE  TabSound(next, store[t], meta[t], pending[t], job[t])
<1>1. /\ server \in Row /\ store[t].version \in 0 .. MaxVersion
      /\ server.version \in Nat /\ next.version \in Nat
      /\ \A s \in Slots : job[t][s] \in Job
  BY KeyBoundsAssumption DEF TypeOK, Row
<1>2. StoreSound(next, store[t])
  BY <1>1, EncryptedStays DEF TabSound, StoreSound
<1>3. MetaSound(next, meta[t])
  BY <1>1 DEF TabSound, MetaSound, Grows
<1>4. PendingSound(next, pending[t])
  BY DEF TabSound, PendingSound, Grows
<1>5. \A s \in Slots : JobSound(next, job[t][s])
  BY <1>1, JobStays DEF TabSound
<1>6. UploadKeepsKey(next, store[t], job[t]["sync"], job[t]["entry"])
  BY DEF TabSound, UploadKeepsKey, Grows
<1>7. QED
  BY <1>2, <1>3, <1>4, <1>5, <1>6 DEF TabSound

LEMMA Reflexive ==
    ASSUME NEW db \in Row
    PROVE  Grows(db, db)
BY KeyBoundsAssumption DEF Grows, Row

\* The server executes a safe request.
LEMMA Accepted ==
    ASSUME TypeOK, RowSound(server), NEW r \in Request, RequestSafe(server, r), Accepts(r)
    PROVE  /\ Stored(r) \in Row
           /\ RowSound(Stored(r))
           /\ Grows(server, Stored(r))
           /\ r.kind = "vault" => r.key # NoKey /\ EncryptedBy(Stored(r), r.version, r.key)
<1>1. /\ server \in Row /\ server.version \in Nat /\ r.version \in Nat /\ NoWrap \in Wrap
      /\ server.snap \in Masters \cup Veks \cup {NoKey}
  BY Values, KeyBoundsAssumption DEF TypeOK, Row, Request, DataKeys
<1>2. CASE r.kind = "register"
  <2>1. Stored(r) = [server EXCEPT !.exists = TRUE]
    BY <1>2 DEF Stored
  <2>2. /\ Stored(r).version = server.version /\ Stored(r).snap = server.snap
        /\ Stored(r).kek = server.kek /\ Stored(r).rec = server.rec
        /\ Stored(r).exists /\ Stored(r) \in Row
    BY <1>1, <2>1 DEF Row
  <2>3. QED
    BY <1>1, <1>2, <2>2 DEF Grows, RowSound
<1>3. CASE r.kind = "keys"
  <2>1. Stored(r) = [server EXCEPT !.kek = Overlay(r.kek, @), !.rec = Overlay(r.rec, @)]
    BY <1>3 DEF Stored
  <2>2. /\ Stored(r).version = server.version /\ Stored(r).snap = server.snap
        /\ Stored(r).kek = Overlay(r.kek, server.kek)
        /\ Stored(r).rec = Overlay(r.rec, server.rec)
        /\ Stored(r).exists = server.exists /\ Stored(r) \in Row
    BY <1>1, <2>1 DEF Row, Request, Overlay
  <2>3. WrapsSafe(server, r)
    BY <1>3 DEF RequestSafe
  <2>4. RowSound(Stored(r))
    BY <1>1, <2>2, <2>3 DEF RowSound, WrapsSafe, Carries, Overlay
  <2>5. QED
    BY <1>1, <1>3, <2>2, <2>4 DEF Grows
<1>4. CASE r.kind = "vault"
  <2>1. Stored(r) = [server EXCEPT !.version = r.version, !.snap = r.key,
                        !.kek = Overlay(r.kek, @), !.rec = Overlay(r.rec, @)]
    BY <1>4 DEF Stored
  <2>2. /\ Stored(r).version = r.version /\ Stored(r).snap = r.key
        /\ Stored(r).kek = Overlay(r.kek, server.kek)
        /\ Stored(r).rec = Overlay(r.rec, server.rec)
        /\ Stored(r).exists = server.exists /\ Stored(r) \in Row
    BY <1>1, <2>1 DEF Row, Request, Overlay
  <2>3. server.exists /\ r.version = server.version + 1
    BY <1>4 DEF Accepts
  <2>4. CASE r.kek = NoWrap /\ r.rec = NoWrap /\ r.key = server.snap /\ r.key # NoKey
    <3>1. RowSound(Stored(r))
      BY <1>1, <2>2, <2>3, <2>4 DEF RowSound, Overlay
    <3>2. Grows(server, Stored(r)) /\ EncryptedBy(Stored(r), r.version, r.key)
      BY <1>1, <2>2, <2>3, <2>4 DEF Grows, EncryptedBy
    <3>3. QED
      BY <2>2, <2>4, <3>1, <3>2
  <2>5. CASE Introduces(r) /\ server.snap \notin Veks
    <3>1. RowSound(Stored(r))
      BY <1>1, <2>2, <2>3, <2>5, Distinct DEF RowSound, Overlay, Introduces, Carries
    <3>2. Grows(server, Stored(r)) /\ EncryptedBy(Stored(r), r.version, r.key)
      BY <1>1, <2>2, <2>3, <2>5, Distinct DEF Grows, EncryptedBy, Introduces
    <3>3. QED
      BY <2>2, <2>5, <3>1, <3>2, Distinct DEF Introduces
  <2>6. QED
    BY <1>4, <2>3, <2>4, <2>5 DEF RequestSafe, SnapshotSafe
<1>5. QED
  BY <1>2, <1>3, <1>4 DEF Request

-----------------------------------------------------------------------------
(* Steps of one tab that leave the server alone *)

LEMMA TabStep ==
    ASSUME Inv, TypeOK', UNCHANGED <<server, stray>>, NEW t \in Tabs,
           TabSound(server, store'[t], meta'[t], pending'[t], job'[t]),
           \A u \in Tabs : u # t =>
               /\ store'[u] = store[u] /\ meta'[u] = meta[u]
               /\ pending'[u] = pending[u] /\ job'[u] = job[u]
    PROVE  Inv'
BY DEF Inv

\* The handler of slot s goes on, and nothing else changes that the invariant
\* reads.
LEMMA JobStep ==
    ASSUME Inv, TypeOK', UNCHANGED <<server, stray, store, meta, pending>>,
           NEW t \in Tabs, NEW s \in Slots, NEW j \in Job, Step(t, s, j),
           JobSound(server, j),
           UploadKeepsKey(server, store[t], job'[t]["sync"], job'[t]["entry"])
    PROVE  Inv'
<1>1. /\ job'[t][s] = j
      /\ \A x \in Slots : x # s => job'[t][x] = job[t][x]
      /\ \A u \in Tabs : u # t => job'[u] = job[u]
  BY StepType DEF Inv
<1>2. TabSound(server, store'[t], meta'[t], pending'[t], job'[t])
  BY <1>1 DEF Inv, TabSound
<1>3. QED
  BY <1>1, <1>2, TabStep

\* A handler of the two other slots, or one that is no upload and no unlock,
\* cannot disturb the last part.
LEMMA QuietUpload ==
    ASSUME TypeOK, NEW t \in Tabs, NEW s \in Slots, NEW j \in Job, Step(t, s, j),
           TabSound(server, store[t], meta[t], pending[t], job[t]),
           s = "sync" => j.req.key \notin Veks,
           s = "entry" => j.op # "open"
    PROVE  UploadKeepsKey(server, store[t], job'[t]["sync"], job'[t]["entry"])
<1>1. job'[t][s] = j /\ \A x \in Slots : x # s => job'[t][x] = job[t][x]
  BY StepType
<1>2. QED
  BY <1>1 DEF UploadKeepsKey, TabSound, Slots

LEMMA IdleSound == \A db : JobSound(db, Idle)
BY DEF JobSound, Shape, Idle

\* A handler ends.
LEMMA Ends ==
    ASSUME Inv, TypeOK', UNCHANGED <<server, stray, store, meta, pending>>,
           NEW t \in Tabs, NEW s \in Slots, Step(t, s, Idle)
    PROVE  Inv'
<1>1. Idle.req.key \notin Veks /\ Idle.op # "open"
  BY Distinct DEF Idle, Register
<1>2. UploadKeepsKey(server, store[t], job'[t]["sync"], job'[t]["entry"])
  BY <1>1, QuietUpload, Values DEF Inv
<1>3. QED
  BY <1>2, IdleSound, JobStep, Values

\* A handler that is no upload of the sync manager sends a safe request.
LEMMA Sends ==
    ASSUME Inv, TypeOK', UNCHANGED <<server, stray, store, meta>>,
           NEW t \in Tabs, NEW s \in Slots, s # "sync",
           NEW op \in Ops, op # "open", NEW r \in Request, Send(t, s, op, r),
           RequestSafe(server, r), Shape(Sent(op, r)),
           PendingSound(server, pending'[t]), \A u \in Tabs : u # t => pending'[u] = pending[u]
    PROVE  Inv'
<1> DEFINE j == Sent(op, r)
<1>1. j \in Job /\ j.op = op /\ j.at = "sent" /\ j.req = r /\ Step(t, s, j)
  BY SentType, SendType DEF Inv
<1>2. JobSound(server, j)
  BY <1>1 DEF JobSound
<1> HIDE DEF j
<1>3. UploadKeepsKey(server, store[t], job'[t]["sync"], job'[t]["entry"])
  BY <1>1, QuietUpload DEF Inv
<1>4. /\ job'[t][s] = j
      /\ \A x \in Slots : x # s => job'[t][x] = job[t][x]
      /\ \A u \in Tabs : u # t => job'[u] = job[u]
  BY <1>1, StepType DEF Inv
<1>5. TabSound(server, store'[t], meta'[t], pending'[t], job'[t])
  BY <1>2, <1>3, <1>4 DEF Inv, TabSound
<1>6. QED
  BY <1>4, <1>5, TabStep

-----------------------------------------------------------------------------
(* The register page *)

LEMMA SubmitFormStep ==
    ASSUME Inv, NEW t \in Tabs, SubmitForm(t)
    PROVE  Inv'
<1>1. /\ Send(t, "entry", "register", Register)
      /\ UNCHANGED <<server, stray, store, page, meta, registered, pending, secret, used, shown,
                     faults>>
  BY DEF SubmitForm
<1>2. TypeOK'
  BY <1>1, SendType, Values DEF Inv, TypeOK, Ops, Slots
<1>3. RequestSafe(server, Register)
  BY DEF RequestSafe, Register
<1>4. Shape(Sent("register", Register))
  BY SentType, Values DEF Shape, Ops
<1>5. QED
  BY <1>1, <1>2, <1>3, <1>4, Sends, Values DEF Ops, Slots, Inv, TabSound

LEMMA InitializeVaultStep ==
    ASSUME Inv, NEW t \in Tabs, NEW m \in Masters, NEW v \in Veks, NEW k \in Kits,
           InitializeVault(t, m, v, k)
    PROVE  Inv'
<1> DEFINE kek == [under |-> m, key |-> v]
           rec == [under |-> k, key |-> v]
           r == Snapshot(1, v, kek, rec)
<1>1. /\ Send(t, "entry", "create", r) /\ Generate({v, k})
      /\ registered' = [registered EXCEPT ![t] = TRUE]
      /\ UNCHANGED <<server, stray, store, page, meta, pending, secret, shown, faults>>
  BY DEF InitializeVault
<1>2. kek \in Wrap /\ rec \in Wrap /\ v \in DataKeys
  BY DEF Wrap, DataKeys
<1>3. kek # NoWrap /\ rec # NoWrap /\ kek.key = v /\ rec.key = v /\ rec.under = k
  BY Distinct DEF NoWrap
<1> HIDE DEF kek, rec
<1>4. /\ r \in Request /\ r.kind = "vault" /\ r.version = 1 /\ r.key = v
      /\ r.kek = kek /\ r.rec = rec
  BY <1>2, SnapshotType, Values
<1> HIDE DEF r
<1>5. TypeOK'
  BY <1>1, <1>4, SendType DEF Inv, TypeOK, Ops, Slots, Generate
<1>6. RequestSafe(server, r)
  <2>1. server.version \in Nat /\ (server.version = 0 => server.snap = NoKey)
    BY KeyBoundsAssumption DEF Inv, TypeOK, Row, RowSound
  <2>2. Introduces(r)
    BY <1>3, <1>4 DEF Introduces, Carries
  <2>3. QED
    BY <1>4, <2>1, <2>2, Distinct DEF RequestSafe, SnapshotSafe
<1>7. Shape(Sent("create", r))
  BY <1>3, <1>4, SentType DEF Shape, Ops
<1>8. QED
  BY <1>1, <1>4, <1>5, <1>6, <1>7, Sends DEF Ops, Slots, Inv, TabSound

\* A store is opened with the key of an accepted snapshot or of a copy of the
\* row; the form's handler ends.
LEMMA Opens ==
    ASSUME Inv, TypeOK', UNCHANGED <<server, stray, meta>>, NEW t \in Tabs,
           NEW k \in DataKeys, NEW n \in 0 .. MaxVersion,
           Open(t, k, n), Step(t, "entry", Idle), k # NoKey, EncryptedBy(server, n, k),
           job[t]["sync"].req.key \in Veks => job[t]["sync"].req.key = k,
           PendingSound(server, pending'[t]), \A u \in Tabs : u # t => pending'[u] = pending[u]
    PROVE  Inv'
<1>1. /\ job'[t]["entry"] = Idle
      /\ \A x \in Slots : x # "entry" => job'[t][x] = job[t][x]
      /\ \A u \in Tabs : u # t => job'[u] = job[u]
  BY StepType, Values DEF Inv, Slots
<1>2. /\ store'[t] = [open |-> TRUE, key |-> k, version |-> n]
      /\ \A u \in Tabs : u # t => store'[u] = store[u]
  BY DEF Inv, TypeOK, Open
<1>3. StoreSound(server, store'[t])
  BY <1>2 DEF StoreSound
<1>4. UploadKeepsKey(server, store'[t], job'[t]["sync"], job'[t]["entry"])
  BY <1>1, <1>2 DEF Inv, TabSound, UploadKeepsKey, Idle, Slots
<1>5. TabSound(server, store'[t], meta'[t], pending'[t], job'[t])
  BY <1>1, <1>3, <1>4, IdleSound DEF Inv, TabSound
<1>6. QED
  BY <1>1, <1>2, <1>5, TabStep

\* What VaultCreated and Healed open the store with.
LEMMA CreatedKey ==
    ASSUME Inv, NEW t \in Tabs, NEW op \in {"create", "heal"}, Answered(t, "entry", op)
    PROVE  LET k == job[t]["entry"].req.key IN
           /\ k \in DataKeys /\ k # NoKey /\ EncryptedBy(server, 1, k)
           /\ job[t]["sync"].req.key \in Veks => job[t]["sync"].req.key = k
           /\ op = "create" => job[t]["entry"].req.rec.under \in Kits
<1> DEFINE j == job[t]["entry"]
<1>1. j \in Job /\ JobSound(server, j) /\ j.at = "ok" /\ j.op = op
  BY DEF Inv, TypeOK, TabSound, Slots, Answered
<1>2. j.req.kind = "vault" /\ j.req.version = 1 /\ j.req.key \in Veks
      /\ (op = "create" => j.req.rec.under \in Kits)
  BY <1>1 DEF JobSound, Shape
<1>3. j.req.key # NoKey /\ EncryptedBy(server, 1, j.req.key)
  BY <1>1, <1>2 DEF JobSound
<1>4. server.snap = j.req.key
  BY <1>2, <1>3 DEF EncryptedBy
<1>5. job[t]["sync"].req.key \in Veks => job[t]["sync"].req.key = j.req.key
  BY <1>4 DEF Inv, TabSound, UploadKeepsKey
<1>6. QED
  BY <1>2, <1>3, <1>5 DEF DataKeys

LEMMA VaultCreatedStep ==
    ASSUME Inv, NEW t \in Tabs, VaultCreated(t)
    PROVE  Inv'
<1>1. /\ Answered(t, "entry", "create")
      /\ Open(t, job[t]["entry"].req.key, 1)
      /\ Show(t, "entry", "register")
      /\ Step(t, "entry", Idle)
      /\ UNCHANGED <<server, stray, page, meta, registered, pending, used, faults>>
  BY DEF VaultCreated
<1>2. TypeOK'
  <2>1. job' \in [Tabs -> [Slots -> Job]]
    BY <1>1, StepType, Values DEF Inv, Slots
  <2>2. store' \in [Tabs -> [open : BOOLEAN, key : DataKeys, version : 0 .. MaxVersion]]
    BY <1>1, CreatedKey, Values DEF Inv, TypeOK, Open
  <2>3. secret' \in [Tabs -> Kits \cup {NoKey}] /\ shown' \subseteq Kits
    <3>1. job[t]["entry"].req.rec.under \in Kits
      BY <1>1, CreatedKey
    <3>2. QED
      BY <1>1, <3>1 DEF Inv, TypeOK, Show
  <2>4. QED
    BY <1>1, <2>1, <2>2, <2>3 DEF Inv, TypeOK
<1>3. QED
  BY <1>1, <1>2, CreatedKey, Opens, Values DEF Inv, TabSound

LEMMA KitSavedStep ==
    ASSUME Inv, NEW t \in Tabs, KitSaved(t) \/ KitDone(t) \/ LeaveForm(t)
    PROVE  Inv'
<1>1. /\ UNCHANGED <<server, stray, store, meta, pending, job, used, shown, faults>>
      /\ TypeOK'
  BY DEF KitSaved, KitDone, LeaveForm, Inv, TypeOK
<1>2. QED
  BY <1>1 DEF Inv

-----------------------------------------------------------------------------
(* The unlock page *)

LEMMA GetVaultStep ==
    ASSUME Inv, NEW t \in Tabs, GetVault(t)
    PROVE  Inv'
<1> DEFINE j == [Idle EXCEPT !.op = "open", !.at = "got", !.row = server]
<1>1. /\ ~ store[t].open /\ Step(t, "entry", j)
      /\ UNCHANGED <<server, stray, store, page, meta, registered, pending, secret, used, shown,
                     faults>>
  BY DEF GetVault, AskSecret
<1>2. server \in Row
  BY DEF Inv, TypeOK
<1>3. j \in Job /\ j.op = "open" /\ j.at = "got" /\ j.row = server /\ j.req = Register
  BY <1>2, Values DEF Idle, Job
<1> HIDE DEF j
<1>4. TypeOK'
  BY <1>1, <1>3, StepType DEF Inv, TypeOK, Slots
<1>5. EncryptedBy(server, server.version, server.snap)
  BY <1>2, KeyBoundsAssumption DEF EncryptedBy, Row, Inv, RowSound
<1>6. JobSound(server, j)
  BY <1>3, <1>5 DEF JobSound, Shape
<1>7. job'[t]["entry"] = j /\ job'[t]["sync"] = job[t]["sync"]
  BY <1>1, <1>3, StepType DEF Inv, Slots
<1>8. UploadKeepsKey(server, store[t], job'[t]["sync"], job'[t]["entry"])
  BY <1>1, <1>3, <1>7 DEF Inv, TabSound, UploadKeepsKey
<1>9. QED
  BY <1>1, <1>3, <1>4, <1>6, <1>8, JobStep DEF Slots

\* The key that decrypts the copy of the row opens the store.
LEMMA CopyKey ==
    ASSUME Inv, NEW t \in Tabs, job[t]["entry"].op = "open", job[t]["entry"].at = "got",
           NEW k, Decrypts(k, job[t]["entry"].row)
    PROVE  LET row == job[t]["entry"].row IN
           /\ k \in DataKeys /\ k # NoKey /\ row.version \in 0 .. MaxVersion
           /\ k = row.snap
           /\ EncryptedBy(server, row.version, k)
           /\ job[t]["sync"].req.key \in Veks => job[t]["sync"].req.key = k
           /\ k \in Veks => server.snap = k
<1>1. job[t]["entry"] \in Job /\ JobSound(server, job[t]["entry"])
  BY DEF Inv, TypeOK, TabSound, Slots
<1>2. /\ k = job[t]["entry"].row.snap /\ k # NoKey /\ k \in DataKeys
      /\ job[t]["entry"].row.version \in 0 .. MaxVersion
  BY <1>1 DEF Decrypts, Job, Row
<1>3. EncryptedBy(server, job[t]["entry"].row.version, k)
  BY <1>1, <1>2 DEF JobSound
<1>4. job[t]["sync"].req.key \in Veks => job[t]["sync"].req.key = k
  BY <1>2 DEF Inv, TabSound, UploadKeepsKey
<1>5. QED
  BY <1>2, <1>3, <1>4 DEF EncryptedBy

LEMMA UnlockWithMasterStep ==
    ASSUME Inv, NEW t \in Tabs, NEW m \in Masters, UnlockWithMaster(t, m)
    PROVE  Inv'
<1> DEFINE row == job[t]["entry"].row
           k == MasterKey(row, m)
<1>1. /\ job[t]["entry"].op = "open" /\ job[t]["entry"].at = "got"
      /\ Decrypts(k, row) /\ Open(t, k, row.version)
      /\ page' = [page EXCEPT ![t] = "settings"]
      /\ Step(t, "entry", Idle)
      /\ UNCHANGED <<server, stray, meta, registered, pending, secret, used, shown, faults>>
  BY DEF UnlockWithMaster
<1> HIDE DEF k
<1>2. /\ k \in DataKeys /\ k # NoKey /\ row.version \in 0 .. MaxVersion
      /\ EncryptedBy(server, row.version, k)
      /\ job[t]["sync"].req.key \in Veks => job[t]["sync"].req.key = k
  BY <1>1, CopyKey
<1>3. TypeOK'
  <2>1. job' \in [Tabs -> [Slots -> Job]]
    BY <1>1, StepType, Values DEF Inv, Slots
  <2>2. QED
    BY <1>1, <1>2, <2>1 DEF Inv, TypeOK, Open
<1>4. QED
  BY <1>1, <1>2, <1>3, Opens DEF Inv, TabSound

LEMMA UnlockWithSecretStep ==
    ASSUME Inv, NEW t \in Tabs, NEW c \in Kits, UnlockWithSecret(t, c)
    PROVE  Inv'
<1> DEFINE row == job[t]["entry"].row
           k == RecoveryKey(row, c)
<1>1. /\ job[t]["entry"].op = "open" /\ job[t]["entry"].at = "got"
      /\ Decrypts(k, row) /\ Open(t, k, row.version)
      /\ pending' = [pending EXCEPT ![t] = k]
      /\ Step(t, "entry", Idle)
      /\ UNCHANGED <<server, stray, page, meta, registered, secret, used, shown, faults>>
  BY DEF UnlockWithSecret
<1>2. k \in Veks \cup {Zeroed, NoKey}
  BY DEF RecoveryKey, Inv, TypeOK, Slots, Job, Row, Wrap
<1> HIDE DEF k
<1>3. /\ k \in DataKeys /\ k # NoKey /\ row.version \in 0 .. MaxVersion
      /\ EncryptedBy(server, row.version, k)
      /\ job[t]["sync"].req.key \in Veks => job[t]["sync"].req.key = k
      /\ k \in Veks => server.snap = k
  BY <1>1, CopyKey
<1>4. TypeOK'
  <2>1. job' \in [Tabs -> [Slots -> Job]]
    BY <1>1, StepType, Values DEF Inv, Slots
  <2>2. QED
    BY <1>1, <1>2, <1>3, <2>1 DEF Inv, TypeOK, Open
<1>5. /\ PendingSound(server, pending'[t])
      /\ \A u \in Tabs : u # t => pending'[u] = pending[u]
  BY <1>1, <1>3 DEF Inv, TypeOK, PendingSound
<1>6. QED
  BY <1>1, <1>3, <1>4, <1>5, Opens

LEMMA HealStep ==
    ASSUME Inv, NEW t \in Tabs, NEW m \in Masters, NEW v \in Veks, Heal(t, m, v)
    PROVE  Inv'
<1> DEFINE kek == [under |-> m, key |-> v]
           r == Snapshot(1, v, kek, NoWrap)
<1>1. /\ Send(t, "entry", "heal", r) /\ Generate({v})
      /\ UNCHANGED <<server, stray, store, page, meta, registered, pending, secret, shown, faults>>
  BY DEF Heal
<1>2. kek \in Wrap /\ v \in DataKeys /\ kek # NoWrap /\ kek.key = v
  BY Distinct DEF Wrap, DataKeys, NoWrap
<1> HIDE DEF kek
<1>3. /\ r \in Request /\ r.kind = "vault" /\ r.version = 1 /\ r.key = v
      /\ r.kek = kek /\ r.rec = NoWrap
  BY <1>2, SnapshotType, Values
<1> HIDE DEF r
<1>4. TypeOK'
  BY <1>1, <1>3, SendType DEF Inv, TypeOK, Ops, Slots, Generate
<1>5. RequestSafe(server, r)
  <2>1. server.version \in Nat /\ (server.version = 0 => server.snap = NoKey)
    BY KeyBoundsAssumption DEF Inv, TypeOK, Row, RowSound
  <2>2. Introduces(r)
    BY <1>2, <1>3 DEF Introduces, Carries
  <2>3. QED
    BY <1>3, <2>1, <2>2, Distinct DEF RequestSafe, SnapshotSafe
<1>6. Shape(Sent("heal", r))
  BY <1>3, SentType DEF Shape, Ops
<1>7. QED
  BY <1>1, <1>3, <1>4, <1>5, <1>6, Sends DEF Ops, Slots, Inv, TabSound

LEMMA HealedStep ==
    ASSUME Inv, NEW t \in Tabs, Healed(t)
    PROVE  Inv'
<1>1. /\ Answered(t, "entry", "heal")
      /\ Open(t, job[t]["entry"].req.key, 1)
      /\ page' = [page EXCEPT ![t] = "settings"]
      /\ Step(t, "entry", Idle)
      /\ UNCHANGED <<server, stray, meta, registered, pending, secret, used, shown, faults>>
  BY DEF Healed
<1>2. TypeOK'
  <2>1. job' \in [Tabs -> [Slots -> Job]]
    BY <1>1, StepType, Values DEF Inv, Slots
  <2>2. store' \in [Tabs -> [open : BOOLEAN, key : DataKeys, version : 0 .. MaxVersion]]
    BY <1>1, CreatedKey, Values DEF Inv, TypeOK, Open
  <2>3. QED
    BY <1>1, <2>1, <2>2 DEF Inv, TypeOK
<1>3. QED
  BY <1>1, <1>2, CreatedKey, Opens, Values DEF Inv, TabSound

\* The wrap of a recovered key is the one of the key in use.
LEMMA SetNewMasterStep ==
    ASSUME ~ RetryRewrap, Inv, NEW t \in Tabs, NEW m \in Masters, SetNewMaster(t, m)
    PROVE  Inv'
<1> DEFINE kek == [under |-> m, key |-> pending[t]]
           r == Rewrap(kek, NoWrap)
<1>1. /\ pending[t] # NoKey /\ pending[t] # Zeroed
      /\ Send(t, "entry", "rewrap", r)
      /\ pending' = [pending EXCEPT ![t] = Zeroed]
      /\ UNCHANGED <<server, stray, store, page, meta, registered, secret, used, shown, faults>>
  BY DEF SetNewMaster, AskNewMaster
<1>2. pending[t] \in Veks /\ server.snap = pending[t]
  BY <1>1 DEF Inv, TypeOK, TabSound, PendingSound
<1>3. kek \in Wrap /\ kek # NoWrap /\ kek.key = server.snap
  BY <1>2, Distinct DEF Wrap, NoWrap
<1> HIDE DEF kek
<1>4. r \in Request /\ r.kind = "keys" /\ r.kek = kek /\ r.rec = NoWrap
  BY <1>3, RewrapType, Values
<1> HIDE DEF r
<1>5. TypeOK'
  BY <1>1, <1>4, SendType DEF Inv, TypeOK, Ops, Slots
<1>6. RequestSafe(server, r)
  BY <1>2, <1>3, <1>4 DEF RequestSafe, WrapsSafe, Carries
<1>7. Shape(Sent("rewrap", r))
  BY <1>4, SentType DEF Shape, Ops
<1>8. /\ PendingSound(server, pending'[t])
      /\ \A u \in Tabs : u # t => pending'[u] = pending[u]
  BY <1>1, Distinct DEF Inv, TypeOK, PendingSound
<1>9. QED
  BY <1>1, <1>4, <1>5, <1>6, <1>7, <1>8, Sends DEF Ops, Slots

LEMMA NewMasterSetStep ==
    ASSUME Inv, NEW t \in Tabs, NewMasterSet(t)
    PROVE  Inv'
<1>1. /\ pending' = [pending EXCEPT ![t] = NoKey]
      /\ page' = [page EXCEPT ![t] = "settings"]
      /\ Step(t, "entry", Idle)
      /\ UNCHANGED <<server, stray, store, meta, registered, secret, used, shown, faults>>
  BY DEF NewMasterSet
<1>2. /\ job' \in [Tabs -> [Slots -> Job]] /\ job'[t]["entry"] = Idle
      /\ \A x \in Slots : x # "entry" => job'[t][x] = job[t][x]
      /\ \A u \in Tabs : u # t => job'[u] = job[u]
  BY <1>1, StepType, Values DEF Inv, Slots
<1>3. TypeOK'
  BY <1>1, <1>2 DEF Inv, TypeOK
<1>4. /\ PendingSound(server, pending'[t])
      /\ \A u \in Tabs : u # t => pending'[u] = pending[u]
  BY <1>1, Distinct DEF Inv, TypeOK, PendingSound
<1>5. UploadKeepsKey(server, store'[t], job'[t]["sync"], job'[t]["entry"])
  BY <1>1, <1>2 DEF Inv, TabSound, UploadKeepsKey, Idle, Slots
<1>6. TabSound(server, store'[t], meta'[t], pending'[t], job'[t])
  BY <1>1, <1>2, <1>4, <1>5, IdleSound DEF Inv, TabSound
<1>7. QED
  BY <1>1, <1>2, <1>3, <1>4, <1>6, TabStep

LEMMA RedirectStep ==
    ASSUME Inv, NEW t \in Tabs, Redirect(t)
    PROVE  Inv'
<1>1. /\ page' = [page EXCEPT ![t] = "settings"]
      /\ pending' = [pending EXCEPT ![t] = NoKey]
      /\ UNCHANGED <<server, stray, store, meta, registered, secret, job, used, shown, faults>>
  BY DEF Redirect
<1>2. TypeOK'
  BY <1>1 DEF Inv, TypeOK
<1>3. /\ PendingSound(server, pending'[t])
      /\ \A u \in Tabs : u # t => pending'[u] = pending[u]
  BY <1>1, Distinct DEF Inv, TypeOK, PendingSound
<1>4. TabSound(server, store'[t], meta'[t], pending'[t], job'[t])
  BY <1>1, <1>3 DEF Inv, TabSound
<1>5. QED
  BY <1>1, <1>2, <1>3, <1>4, TabStep

LEMMA RejectStep ==
    ASSUME Inv, NEW t \in Tabs, NEW s \in Slots, Reject(t, s)
    PROVE  Inv'
<1>1. /\ Step(t, s, Idle)
      /\ UNCHANGED <<server, stray, store, page, meta, registered, pending, secret, used, shown,
                     faults>>
  BY DEF Reject
<1>2. TypeOK'
  BY <1>1, StepType, Values DEF Inv, TypeOK
<1>3. QED
  BY <1>1, <1>2, Ends

-----------------------------------------------------------------------------
(* The settings page *)

LEMMA StatusSound ==
    ASSUME Inv
    PROVE  Status \in [snap : DataKeys, kek : Wrap] /\ MetaSound(server, Status)
<1>1. Status \in [snap : DataKeys, kek : Wrap]
  BY DEF Inv, TypeOK, Status, Row
<1>2. server.version \in Nat
  BY KeyBoundsAssumption DEF Inv, TypeOK, Row
<1>3. MetaSound(server, Status)
  BY <1>2, Distinct DEF Inv, RowSound, MetaSound, Status
<1>4. QED
  BY <1>1, <1>3

LEMMA FetchMetaStep ==
    ASSUME Inv, NEW t \in Tabs, FetchMeta(t)
    PROVE  Inv'
<1>1. /\ meta' = [meta EXCEPT ![t] = Status]
      /\ UNCHANGED <<server, stray, store, page, registered, pending, secret, job, used, shown,
                     faults>>
  BY DEF FetchMeta
<1>2. /\ meta' \in [Tabs -> [snap : DataKeys, kek : Wrap]]
      /\ MetaSound(server, meta'[t])
      /\ \A u \in Tabs : u # t => meta'[u] = meta[u]
  BY <1>1, StatusSound DEF Inv, TypeOK
<1>3. TypeOK'
  BY <1>1, <1>2 DEF Inv, TypeOK
<1>4. TabSound(server, store'[t], meta'[t], pending'[t], job'[t])
  BY <1>1, <1>2 DEF Inv, TabSound
<1>5. QED
  BY <1>1, <1>2, <1>3, <1>4, TabStep

LEMMA ChangeMasterStep ==
    ASSUME Inv, NEW t \in Tabs, NEW current \in Masters, NEW new \in Masters,
           ChangeMaster(t, current, new)
    PROVE  Inv'
<1> DEFINE k == MasterKey(meta[t], current)
           kek == [under |-> new, key |-> k]
           r == Rewrap(kek, NoWrap)
<1>1. /\ ~ Legacy(meta[t]) /\ k # NoKey
      /\ Send(t, "master", "change", r)
      /\ UNCHANGED <<server, stray, store, page, meta, registered, pending, secret, used, shown,
                     faults>>
  BY DEF ChangeMaster
<1>2. /\ meta[t].kek \in Wrap /\ meta[t].kek # NoWrap
      /\ k = meta[t].kek.key
  BY <1>1 DEF Inv, TypeOK, Legacy, MasterKey
<1>3. server.snap \in Veks /\ k = server.snap
  BY <1>2 DEF Inv, TabSound, MetaSound
<1>4. kek \in Wrap /\ kek # NoWrap /\ kek.key = server.snap
  BY <1>3, Distinct DEF Wrap, NoWrap
<1> HIDE DEF kek, k
<1>5. r \in Request /\ r.kind = "keys" /\ r.kek = kek /\ r.rec = NoWrap
  BY <1>4, RewrapType, Values
<1> HIDE DEF r
<1>6. TypeOK'
  BY <1>1, <1>5, SendType DEF Inv, TypeOK, Ops, Slots
<1>7. RequestSafe(server, r)
  BY <1>3, <1>4, <1>5 DEF RequestSafe, WrapsSafe, Carries
<1>8. Shape(Sent("change", r))
  BY <1>5, SentType DEF Shape, Ops
<1>9. QED
  BY <1>1, <1>5, <1>6, <1>7, <1>8, Sends DEF Ops, Slots, Inv, TabSound

LEMMA BeginUpgradeStep ==
    ASSUME Inv, NEW t \in Tabs, NEW current \in Masters, NEW new \in Masters, NEW v \in Veks,
           BeginUpgrade(t, current, new, v)
    PROVE  Inv'
<1> DEFINE kek == [under |-> new, key |-> v]
           r == Snapshot(0, v, kek, NoWrap)
           j == [Idle EXCEPT !.op = "upgrade", !.at = "deriving", !.req = r]
<1>1. /\ Decrypts(current, meta[t]) /\ Generate({v}) /\ Step(t, "master", j)
      /\ UNCHANGED <<server, stray, store, page, meta, registered, pending, secret, shown, faults>>
  BY DEF BeginUpgrade
<1>2. server.version > 0
  BY <1>1 DEF Decrypts, Inv, TabSound, MetaSound
<1>3. kek \in Wrap /\ v \in DataKeys /\ kek # NoWrap /\ kek.key = v
  BY Distinct DEF Wrap, DataKeys, NoWrap
<1> HIDE DEF kek
<1>4. 0 \in 0 .. MaxVersion
  BY KeyBoundsAssumption
<1>5. r \in Request /\ r.kind = "vault" /\ r.key = v /\ r.kek = kek /\ r.rec = NoWrap
  BY <1>3, <1>4, SnapshotType, Values
<1> HIDE DEF r
<1>6. j \in Job /\ j.op = "upgrade" /\ j.at = "deriving" /\ j.req = r
  BY <1>5, Values DEF Idle, Job
<1> HIDE DEF j
<1>7. TypeOK'
  BY <1>1, <1>6, StepType DEF Inv, TypeOK, Slots, Generate
<1>8. JobSound(server, j)
  BY <1>2, <1>3, <1>5, <1>6 DEF JobSound, Shape, Introduces, Carries
<1>9. UploadKeepsKey(server, store[t], job'[t]["sync"], job'[t]["entry"])
  BY <1>1, <1>6, QuietUpload DEF Inv, Slots
<1>10. QED
  BY <1>1, <1>6, <1>7, <1>8, <1>9, JobStep DEF Slots

\* The upload is refused unless the store's version is the newest, and then
\* the store holds the legacy key.
LEMMA SendUpgradeStep ==
    ASSUME ~ RepeatUpgrade, Inv, NEW t \in Tabs, SendUpgrade(t)
    PROVE  Inv'
<1> DEFINE i == job[t]["master"]
           n == store[t].version + 1
           j == [i EXCEPT !.at = "sent", !.req.version = n]
<1>1. /\ i.at = "deriving" /\ store[t].version < MaxVersion
      /\ store[t].key \notin Veks /\ (store[t].open \/ ~ (store[t].version > 0))
      /\ Step(t, "master", j)
      /\ UNCHANGED <<server, stray, store, page, meta, registered, pending, secret, used, shown,
                     faults>>
  BY DEF SendUpgrade
<1>2. /\ i \in Job /\ JobSound(server, i)
      /\ server \in Row /\ server.version \in Nat
      /\ store[t].version \in 0 .. MaxVersion /\ store[t].version \in Nat
      /\ StoreSound(server, store[t])
  BY KeyBoundsAssumption DEF Inv, TypeOK, TabSound, Slots, Row
<1>3. n \in 0 .. MaxVersion
  BY <1>1, <1>2, KeyBoundsAssumption
<1>4. i.op = "upgrade" /\ Introduces(i.req) /\ server.version > 0 /\ Shape(i)
  BY <1>1, <1>2 DEF JobSound
<1>5. i.req.kind = "vault" /\ i.req.key \in Veks
  BY <1>1, <1>4 DEF Shape
<1>6. /\ j \in Job /\ j.op = "upgrade" /\ j.at = "sent" /\ j.req.version = n
      /\ j.req.kind = i.req.kind /\ j.req.key = i.req.key
      /\ j.req.kek = i.req.kek /\ j.req.rec = i.req.rec
  BY <1>2, <1>3, <1>4 DEF Job, Request
<1> HIDE DEF j, i
<1>7. Introduces(j.req)
  BY <1>4, <1>6 DEF Introduces
<1>8. SnapshotSafe(server, j.req)
  <2>1. CASE store[t].open
    BY <1>1, <1>2, <1>6, <1>7, <2>1 DEF SnapshotSafe, StoreSound, EncryptedBy
  <2>2. CASE ~ store[t].open
    <3>1. n = 1 /\ n # server.version + 1 /\ n <= server.version + 1
      BY <1>1, <1>2, <1>4, <2>2
    <3>2. QED
      BY <1>6, <3>1 DEF SnapshotSafe
  <2>3. QED
    BY <2>1, <2>2
<1>9. JobSound(server, j)
  BY <1>5, <1>6, <1>8 DEF JobSound, Shape, RequestSafe
<1>10. TypeOK'
  BY <1>1, <1>6, StepType DEF Inv, TypeOK, Slots
<1>11. UploadKeepsKey(server, store[t], job'[t]["sync"], job'[t]["entry"])
  BY <1>1, <1>6, QuietUpload DEF Inv, Slots
<1>12. QED
  BY <1>1, <1>6, <1>9, <1>10, <1>11, JobStep DEF Slots

LEMMA GenerateKitStep ==
    ASSUME Inv, NEW t \in Tabs, NEW c \in Kits, GenerateKit(t, c)
    PROVE  Inv'
<1> DEFINE k == store[t].key
           rec == [under |-> c, key |-> k]
           r == Rewrap(NoWrap, rec)
<1>1. /\ store[t].open /\ k \in Veks /\ Generate({c})
      /\ Send(t, "kit", "kit", r)
      /\ UNCHANGED <<server, stray, store, page, meta, registered, pending, secret, shown, faults>>
  BY DEF GenerateKit, KitOffered, Extractable
<1>2. server.snap = k
  BY <1>1 DEF Inv, TabSound, StoreSound, EncryptedBy
<1>3. rec \in Wrap /\ rec # NoWrap /\ rec.key = server.snap /\ rec.under = c
  BY <1>1, <1>2, Distinct DEF Wrap, NoWrap
<1> HIDE DEF rec
<1>4. r \in Request /\ r.kind = "keys" /\ r.kek = NoWrap /\ r.rec = rec
  BY <1>3, RewrapType, Values
<1> HIDE DEF r
<1>5. TypeOK'
  BY <1>1, <1>4, SendType DEF Inv, TypeOK, Ops, Slots, Generate
<1>6. RequestSafe(server, r)
  BY <1>1, <1>2, <1>3, <1>4 DEF RequestSafe, WrapsSafe, Carries
<1>7. Shape(Sent("kit", r))
  BY <1>3, <1>4, SentType DEF Shape, Ops
<1>8. QED
  BY <1>1, <1>4, <1>5, <1>6, <1>7, Sends DEF Ops, Slots, Inv, TabSound

\* The copy that a handler reads at its end, and its slot.
LEMMA RefreshStep ==
    ASSUME Inv, NEW t \in Tabs, NEW s \in Slots, Refresh(t, s), UNCHANGED server
    PROVE  /\ meta' \in [Tabs -> [snap : DataKeys, kek : Wrap]]
           /\ job' \in [Tabs -> [Slots -> Job]]
           /\ job'[t][s] = Idle
           /\ \A x \in Slots : x # s => job'[t][x] = job[t][x]
           /\ \A u \in Tabs : u # t => meta'[u] = meta[u] /\ job'[u] = job[u]
           /\ MetaSound(server, meta'[t])
           /\ \A x \in Slots : JobSound(server, job'[t][x])
<1>1. /\ job' \in [Tabs -> [Slots -> Job]]
      /\ job'[t][s] = Idle
      /\ \A x \in Slots : x # s => job'[t][x] = job[t][x]
      /\ \A u \in Tabs : u # t => job'[u] = job[u]
  BY StepType, Values DEF Inv, Refresh
<1>2. meta' = meta \/ meta' = [meta EXCEPT ![t] = Status]
  BY DEF Refresh
<1>3. /\ meta' \in [Tabs -> [snap : DataKeys, kek : Wrap]]
      /\ \A u \in Tabs : u # t => meta'[u] = meta[u]
      /\ MetaSound(server, meta'[t])
  BY <1>2, StatusSound DEF Inv, TypeOK, TabSound
<1>4. QED
  BY <1>1, <1>3, IdleSound DEF Inv, TabSound

LEMMA MasterChangedStep ==
    ASSUME Inv, NEW t \in Tabs, MasterChanged(t)
    PROVE  Inv'
<1>1. /\ Refresh(t, "master")
      /\ UNCHANGED <<server, stray, store, page, registered, pending, secret, used, shown, faults>>
  BY DEF MasterChanged
<1>2. UploadKeepsKey(server, store'[t], job'[t]["sync"], job'[t]["entry"])
  BY <1>1, RefreshStep DEF Inv, TabSound, Slots
<1>3. TypeOK'
  BY <1>1, RefreshStep DEF Inv, TypeOK, Slots
<1>4. TabSound(server, store'[t], meta'[t], pending'[t], job'[t])
  BY <1>1, <1>2, RefreshStep DEF Inv, TabSound, Slots
<1>5. QED
  BY <1>1, <1>3, <1>4, RefreshStep, TabStep DEF Slots

LEMMA KitStoredStep ==
    ASSUME Inv, NEW t \in Tabs, KitStored(t)
    PROVE  Inv'
<1>1. /\ Answered(t, "kit", "kit") /\ Show(t, "kit", "settings") /\ Refresh(t, "kit")
      /\ UNCHANGED <<server, stray, store, page, registered, pending, used, faults>>
  BY DEF KitStored
<1>2. UploadKeepsKey(server, store'[t], job'[t]["sync"], job'[t]["entry"])
  BY <1>1, RefreshStep DEF Inv, TabSound, Slots
<1>3. TypeOK'
  <2>1. job[t]["kit"].req.rec.under \in Kits
    BY <1>1 DEF Inv, TabSound, JobSound, Shape, Answered, Slots
  <2>2. secret' \in [Tabs -> Kits \cup {NoKey}] /\ shown' \subseteq Kits
    BY <1>1, <2>1 DEF Inv, TypeOK, Show
  <2>3. QED
    BY <1>1, <2>2, RefreshStep DEF Inv, TypeOK, Slots
<1>4. TabSound(server, store'[t], meta'[t], pending'[t], job'[t])
  BY <1>1, <1>2, RefreshStep DEF Inv, TabSound, Slots
<1>5. QED
  BY <1>1, <1>3, <1>4, RefreshStep, TabStep DEF Slots

LEMMA UpgradedStep ==
    ASSUME Inv, NEW t \in Tabs, Upgraded(t)
    PROVE  Inv'
<1> DEFINE r == job[t]["master"].req
<1>1. /\ Answered(t, "master", "upgrade")
      /\ store' = [store EXCEPT ![t].key = r.key, ![t].version = r.version]
      /\ Refresh(t, "master")
      /\ UNCHANGED <<server, stray, page, registered, pending, secret, used, shown, faults>>
  BY DEF Upgraded
<1>2. job[t]["master"] \in Job /\ JobSound(server, job[t]["master"])
  BY DEF Inv, TypeOK, TabSound, Slots
<1>3. /\ r.key \in Veks /\ r.key \in DataKeys /\ r.version \in 0 .. MaxVersion
      /\ r.key # NoKey /\ EncryptedBy(server, r.version, r.key)
  BY <1>1, <1>2 DEF JobSound, Shape, Answered, Job, Request
<1>4. server.snap = r.key
  BY <1>3 DEF EncryptedBy
<1>5. /\ store' \in [Tabs -> [open : BOOLEAN, key : DataKeys, version : 0 .. MaxVersion]]
      /\ store'[t].open = store[t].open /\ store'[t].key = r.key
      /\ store'[t].version = r.version
      /\ \A u \in Tabs : u # t => store'[u] = store[u]
  <2>1. store \in [Tabs -> [open : BOOLEAN, key : DataKeys, version : 0 .. MaxVersion]]
    BY DEF Inv, TypeOK
  <2>2. /\ store' = [store EXCEPT ![t].key = r.key, ![t].version = r.version]
        /\ r.key \in DataKeys /\ r.version \in 0 .. MaxVersion
    BY <1>1, <1>3
  <2> HIDE DEF r
  <2>3. QED
    BY <2>1, <2>2
<1>6. StoreSound(server, store'[t])
  BY <1>3, <1>5 DEF StoreSound
<1>7. UploadKeepsKey(server, store'[t], job'[t]["sync"], job'[t]["entry"])
  BY <1>1, <1>4, <1>5, RefreshStep DEF Inv, TabSound, UploadKeepsKey, Slots
<1>8. TypeOK'
  BY <1>1, <1>5, RefreshStep DEF Inv, TypeOK, Slots
<1>9. TabSound(server, store'[t], meta'[t], pending'[t], job'[t])
  BY <1>1, <1>6, <1>7, RefreshStep DEF Inv, TabSound, Slots
<1>10. /\ UNCHANGED <<server, stray>>
       /\ \A u \in Tabs : u # t =>
             /\ store'[u] = store[u] /\ meta'[u] = meta[u]
             /\ pending'[u] = pending[u] /\ job'[u] = job[u]
  BY <1>1, <1>5, RefreshStep DEF Slots
<1>11. QED
  BY <1>8, <1>9, <1>10, TabStep

-----------------------------------------------------------------------------
(* Locking and the sync manager *)

LEMMA LockStep ==
    ASSUME Inv, NEW t \in Tabs, Lock(t)
    PROVE  Inv'
<1>1. /\ store' = [store EXCEPT ![t] = Locked]
      /\ UNCHANGED <<server, stray, page, meta, registered, pending, secret, job, used, shown,
                     faults>>
  BY DEF Lock
<1>2. Locked \in [open : BOOLEAN, key : DataKeys, version : 0 .. MaxVersion] /\ ~ Locked.open
  BY KeyBoundsAssumption DEF Locked, DataKeys
<1>3. /\ TypeOK' /\ ~ store'[t].open
      /\ \A u \in Tabs : u # t => store'[u] = store[u]
  BY <1>1, <1>2 DEF Inv, TypeOK
<1>4. UploadKeepsKey(server, store'[t], job'[t]["sync"], job'[t]["entry"])
  BY <1>1, <1>3 DEF Inv, TabSound, UploadKeepsKey
<1>5. TabSound(server, store'[t], meta'[t], pending'[t], job'[t])
  BY <1>1, <1>3, <1>4 DEF Inv, TabSound, StoreSound
<1>6. QED
  BY <1>1, <1>3, <1>5, TabStep

LEMMA GoUnlockStep ==
    ASSUME Inv, NEW t \in Tabs, GoUnlock(t)
    PROVE  Inv'
<1>1. /\ page' = [page EXCEPT ![t] = "unlock"]
      /\ meta' = [meta EXCEPT ![t] = Unknown]
      /\ UNCHANGED <<server, stray, store, registered, pending, secret, job, used, shown, faults>>
  BY DEF GoUnlock
<1>2. /\ Unknown \in [snap : DataKeys, kek : Wrap]
      /\ MetaSound(server, Unknown)
  BY Values, Distinct DEF Unknown, DataKeys, MetaSound
<1>3. /\ TypeOK' /\ MetaSound(server, meta'[t])
      /\ \A u \in Tabs : u # t => meta'[u] = meta[u]
  BY <1>1, <1>2 DEF Inv, TypeOK
<1>4. TabSound(server, store'[t], meta'[t], pending'[t], job'[t])
  BY <1>1, <1>3 DEF Inv, TabSound
<1>5. QED
  BY <1>1, <1>3, <1>4, TabStep

LEMMA SaveStep ==
    ASSUME Inv, NEW t \in Tabs, Save(t)
    PROVE  Inv'
<1> DEFINE n == store[t].version + 1
           k == store[t].key
           r == Snapshot(n, k, NoWrap, NoWrap)
<1>1. /\ store[t].open /\ store[t].version < MaxVersion
      /\ Send(t, "sync", "save", r)
      /\ UNCHANGED <<server, stray, store, page, meta, registered, pending, secret, used, shown,
                     faults>>
  BY DEF Save
<1>2. /\ server.version \in Nat /\ store[t].version \in Nat /\ k \in DataKeys
      /\ k # NoKey /\ EncryptedBy(server, store[t].version, k)
      /\ n \in 0 .. MaxVersion
  BY <1>1, KeyBoundsAssumption DEF Inv, TypeOK, Row, TabSound, StoreSound
<1>3. /\ r \in Request /\ r.kind = "vault" /\ r.version = n /\ r.key = k
      /\ r.kek = NoWrap /\ r.rec = NoWrap
  BY <1>2, SnapshotType, Values
<1> HIDE DEF r
<1>4. RequestSafe(server, r)
  BY <1>2, <1>3 DEF RequestSafe, SnapshotSafe, EncryptedBy
<1>5. /\ Sent("save", r) \in Job /\ Sent("save", r).op = "save"
      /\ Sent("save", r).at = "sent" /\ Sent("save", r).req = r
  BY <1>3, SentType DEF Ops
<1>6. JobSound(server, Sent("save", r))
  BY <1>3, <1>4, <1>5 DEF JobSound, Shape
<1>7. Step(t, "sync", Sent("save", r)) /\ job' \in [Tabs -> [Slots -> Job]]
  BY <1>1, <1>3, SendType DEF Inv, Ops, Slots
<1>8. /\ TypeOK'
      /\ job'[t]["sync"] = Sent("save", r) /\ job'[t]["entry"] = job[t]["entry"]
  BY <1>1, <1>5, <1>7, StepType DEF Inv, TypeOK, Slots
<1>9. UploadKeepsKey(server, store[t], job'[t]["sync"], job'[t]["entry"])
  BY <1>1, <1>2, <1>3, <1>5, <1>8 DEF Inv, TabSound, UploadKeepsKey, EncryptedBy
<1>10. QED
  BY <1>1, <1>5, <1>6, <1>7, <1>8, <1>9, JobStep DEF Slots

\* A late acknowledgement finds the store with the key of the upload.
LEMMA SavedStep ==
    ASSUME Inv, NEW t \in Tabs, Saved(t)
    PROVE  Inv'
<1> DEFINE r == job[t]["sync"].req
<1>1. /\ Answered(t, "sync", "save")
      /\ store' = [store EXCEPT ![t].version = r.version]
      /\ Step(t, "sync", Idle)
      /\ UNCHANGED <<server, stray, page, meta, registered, pending, secret, used, shown, faults>>
  BY DEF Saved
<1>2. /\ job[t]["sync"] \in Job /\ JobSound(server, job[t]["sync"])
      /\ StoreSound(server, store[t])
      /\ UploadKeepsKey(server, store[t], job[t]["sync"], job[t]["entry"])
      /\ server.version \in Nat /\ server.snap \in DataKeys /\ store[t].key \in DataKeys
  BY KeyBoundsAssumption DEF Inv, TypeOK, TabSound, Slots, Row
<1>3. /\ r.version \in 0 .. MaxVersion /\ r.version \in Nat /\ r.key # NoKey
      /\ EncryptedBy(server, r.version, r.key)
  BY <1>1, <1>2, KeyBoundsAssumption DEF JobSound, Shape, Answered, Job, Request
<1>4. store[t].open => EncryptedBy(server, r.version, store[t].key)
  <2>1. SUFFICES ASSUME store[t].open PROVE EncryptedBy(server, r.version, store[t].key)
    OBVIOUS
  <2>2. store[t].key # NoKey /\ EncryptedBy(server, store[t].version, store[t].key)
    BY <1>2, <2>1 DEF StoreSound
  <2>3. r.version = server.version => store[t].key = server.snap
    BY <1>2, <1>3, <2>1, <2>2, Distinct DEF EncryptedBy, UploadKeepsKey, DataKeys
  <2>4. QED
    BY <1>3, <2>2, <2>3 DEF EncryptedBy
<1>5. /\ store' \in [Tabs -> [open : BOOLEAN, key : DataKeys, version : 0 .. MaxVersion]]
      /\ store'[t].open = store[t].open /\ store'[t].key = store[t].key
      /\ store'[t].version = r.version
      /\ \A u \in Tabs : u # t => store'[u] = store[u]
  BY <1>1, <1>3 DEF Inv, TypeOK
<1>6. StoreSound(server, store'[t])
  BY <1>2, <1>4, <1>5 DEF StoreSound
<1>7. /\ job' \in [Tabs -> [Slots -> Job]] /\ job'[t]["sync"] = Idle
      /\ \A x \in Slots : x # "sync" => job'[t][x] = job[t][x]
      /\ \A u \in Tabs : u # t => job'[u] = job[u]
  BY <1>1, StepType, Values DEF Inv, Slots
<1>8. TypeOK'
  BY <1>1, <1>5, <1>7 DEF Inv, TypeOK
<1>9. UploadKeepsKey(server, store'[t], job'[t]["sync"], job'[t]["entry"])
  <2>1. Idle.req.key \notin Veks
    BY Distinct DEF Idle, Register
  <2>2. QED
    BY <1>2, <1>5, <1>7, <2>1 DEF UploadKeepsKey, Slots
<1>10. TabSound(server, store'[t], meta'[t], pending'[t], job'[t])
  BY <1>1, <1>6, <1>7, <1>9, IdleSound DEF Inv, TabSound
<1>11. QED
  BY <1>1, <1>5, <1>7, <1>8, <1>10, TabStep

LEMMA SaveRefusedStep ==
    ASSUME Inv, NEW t \in Tabs, SaveRefused(t)
    PROVE  Inv'
<1> DEFINE i == job[t]["sync"]
           j == [i EXCEPT !.at = "got", !.row = server]
<1>1. /\ Step(t, "sync", j)
      /\ UNCHANGED <<server, stray, store, page, meta, registered, pending, secret, used, shown,
                     faults>>
  BY DEF SaveRefused
<1>2. server \in Row /\ server.version \in Nat /\ i \in Job
  BY KeyBoundsAssumption DEF Inv, TypeOK, Row, Slots
<1>3. j \in Job /\ j.at = "got" /\ j.row = server /\ j.req = i.req
  BY <1>2 DEF Job
<1> HIDE DEF j
<1>4. EncryptedBy(server, server.version, server.snap)
  BY <1>2 DEF EncryptedBy, Inv, RowSound
<1>5. JobSound(server, j)
  BY <1>3, <1>4 DEF JobSound, Shape
<1>6. TypeOK'
  BY <1>1, <1>3, StepType DEF Inv, TypeOK, Slots
<1>7. job'[t]["sync"] = j /\ job'[t]["entry"] = job[t]["entry"]
  BY <1>1, <1>3, StepType DEF Inv, Slots
<1>8. UploadKeepsKey(server, store[t], job'[t]["sync"], job'[t]["entry"])
  BY <1>3, <1>7 DEF Inv, TabSound, UploadKeepsKey
<1>9. QED
  BY <1>1, <1>3, <1>5, <1>6, <1>8, JobStep DEF Slots

LEMMA AdoptStep ==
    ASSUME Inv, NEW t \in Tabs, Adopt(t)
    PROVE  Inv'
<1> DEFINE row == job[t]["sync"].row
<1>1. /\ job[t]["sync"].at = "got"
      /\ store' = IF Decrypts(store[t].key, row)
                  THEN [store EXCEPT ![t].version = row.version] ELSE store
      /\ Step(t, "sync", Idle)
      /\ UNCHANGED <<server, stray, page, meta, registered, pending, secret, used, shown, faults>>
  BY DEF Adopt
<1>2. /\ job[t]["sync"] \in Job /\ JobSound(server, job[t]["sync"])
      /\ StoreSound(server, store[t])
      /\ UploadKeepsKey(server, store[t], job[t]["sync"], job[t]["entry"])
  BY DEF Inv, TypeOK, TabSound, Slots
<1>3. row.version \in 0 .. MaxVersion /\ EncryptedBy(server, row.version, row.snap)
  BY <1>1, <1>2 DEF JobSound, Job, Row
<1>4. /\ store' \in [Tabs -> [open : BOOLEAN, key : DataKeys, version : 0 .. MaxVersion]]
      /\ store'[t].open = store[t].open /\ store'[t].key = store[t].key
      /\ \/ store'[t] = store[t]
         \/ store'[t].version = row.version /\ store[t].key = row.snap /\ row.snap # NoKey
      /\ \A u \in Tabs : u # t => store'[u] = store[u]
  BY <1>1, <1>3 DEF Inv, TypeOK, Decrypts
<1>5. StoreSound(server, store'[t])
  BY <1>2, <1>3, <1>4 DEF StoreSound
<1>6. /\ job' \in [Tabs -> [Slots -> Job]] /\ job'[t]["sync"] = Idle
      /\ \A x \in Slots : x # "sync" => job'[t][x] = job[t][x]
      /\ \A u \in Tabs : u # t => job'[u] = job[u]
  BY <1>1, StepType, Values DEF Inv, Slots
<1>7. TypeOK'
  BY <1>1, <1>4, <1>6 DEF Inv, TypeOK
<1>8. UploadKeepsKey(server, store'[t], job'[t]["sync"], job'[t]["entry"])
  <2>1. Idle.req.key \notin Veks
    BY Distinct DEF Idle, Register
  <2>2. QED
    BY <1>2, <1>4, <1>6, <2>1 DEF UploadKeepsKey, Slots
<1>9. TabSound(server, store'[t], meta'[t], pending'[t], job'[t])
  BY <1>1, <1>5, <1>6, <1>8, IdleSound DEF Inv, TabSound
<1>10. QED
  BY <1>1, <1>4, <1>6, <1>7, <1>9, TabStep

-----------------------------------------------------------------------------
(* The network *)

\* The server answers a safe request, with or without executing it.
LEMMA Executed ==
    ASSUME Inv, NEW r \in Request, RequestSafe(server, r),
           server' = IF Accepts(r) THEN Stored(r) ELSE server
    PROVE  /\ server' \in Row /\ RowSound(server') /\ Grows(server, server')
           /\ \A q \in stray : RequestSafe(server', q)
           /\ \A t \in Tabs : TabSound(server', store[t], meta[t], pending[t], job[t])
           /\ Accepts(r) /\ r.kind = "vault" =>
                 r.key # NoKey /\ EncryptedBy(server', r.version, r.key)
<1>1. server \in Row /\ stray \subseteq Request /\ TypeOK
  BY DEF Inv, TypeOK
<1>2. /\ server' \in Row /\ RowSound(server') /\ Grows(server, server')
      /\ Accepts(r) /\ r.kind = "vault" =>
            r.key # NoKey /\ EncryptedBy(server', r.version, r.key)
  <2>1. CASE Accepts(r)
    BY <1>1, <2>1, Accepted DEF Inv
  <2>2. CASE ~ Accepts(r)
    BY <1>1, <2>2, Reflexive DEF Inv
  <2>3. QED
    BY <2>1, <2>2
<1>3. \A q \in stray : RequestSafe(server', q)
  BY <1>1, <1>2, RequestStays DEF Inv
<1>4. \A t \in Tabs : TabSound(server', store[t], meta[t], pending[t], job[t])
  BY <1>1, <1>2, TabStays DEF Inv
<1>5. QED
  BY <1>2, <1>3, <1>4

LEMMA DeliverStep ==
    ASSUME Inv, NEW t \in Tabs, NEW s \in Slots, Deliver(t, s)
    PROVE  Inv' /\ Grows(server, server')
<1> DEFINE i == job[t][s]
           j == [i EXCEPT !.at = IF Accepts(i.req) THEN "ok" ELSE "refused"]
<1>1. /\ i.at = "sent"
      /\ server' = IF Accepts(i.req) THEN Stored(i.req) ELSE server
      /\ Step(t, s, j)
      /\ UNCHANGED <<stray, store, page, meta, registered, pending, secret, used, shown, faults>>
  BY DEF Deliver
<1>2. i \in Job /\ i.req \in Request /\ JobSound(server, i)
  BY DEF Inv, TypeOK, TabSound, Job
<1>3. RequestSafe(server, i.req)
  BY <1>1, <1>2 DEF JobSound
<1>4. /\ server' \in Row /\ RowSound(server') /\ Grows(server, server')
      /\ \A q \in stray : RequestSafe(server', q)
      /\ \A u \in Tabs : TabSound(server', store[u], meta[u], pending[u], job[u])
      /\ Accepts(i.req) /\ i.req.kind = "vault" =>
            i.req.key # NoKey /\ EncryptedBy(server', i.req.version, i.req.key)
  BY <1>1, <1>2, <1>3, Executed
<1>5. /\ j \in Job /\ j.op = i.op /\ j.req = i.req /\ j.row = i.row
      /\ j.at = IF Accepts(i.req) THEN "ok" ELSE "refused"
  BY <1>2 DEF Job
<1> HIDE DEF j
<1>6. Shape(j)
  BY <1>1, <1>2, <1>5 DEF JobSound, Shape
<1>7. JobSound(server', j)
  BY <1>4, <1>5, <1>6 DEF JobSound
<1>8. /\ job' \in [Tabs -> [Slots -> Job]] /\ job'[t][s] = j
      /\ \A x \in Slots : x # s => job'[t][x] = job[t][x]
      /\ \A u \in Tabs : u # t => job'[u] = job[u]
  BY <1>1, <1>5, StepType DEF Inv
<1>9. TypeOK'
  BY <1>1, <1>4, <1>8 DEF Inv, TypeOK
<1>10. UploadKeepsKey(server', store[t], job'[t]["sync"], job'[t]["entry"])
  <2>1. UploadKeepsKey(server', store[t], job[t]["sync"], job[t]["entry"])
    BY <1>4 DEF TabSound
  <2>2. s = "entry" => i.op # "open"
    BY <1>1, <2>1 DEF UploadKeepsKey
  <2>3. /\ job'[t]["sync"].req = job[t]["sync"].req
        /\ job'[t]["entry"].op = job[t]["entry"].op
        /\ job'[t]["entry"].op = "open" => job'[t]["entry"] = job[t]["entry"]
    BY <1>5, <1>8, <2>2 DEF Slots
  <2>4. QED
    BY <2>1, <2>3 DEF UploadKeepsKey
<1>11. \A u \in Tabs : TabSound(server', store'[u], meta'[u], pending'[u], job'[u])
  BY <1>1, <1>4, <1>7, <1>8, <1>10 DEF TabSound
<1>12. QED
  BY <1>1, <1>4, <1>9, <1>11 DEF Inv

LEMMA DeliverStrayStep ==
    ASSUME Inv, NEW r \in stray, DeliverStray(r)
    PROVE  Inv' /\ Grows(server, server')
<1>1. /\ server' = IF Accepts(r) THEN Stored(r) ELSE server
      /\ stray' = stray \ {r}
      /\ UNCHANGED <<store, page, meta, registered, pending, secret, job, used, shown, faults>>
  BY DEF DeliverStray
<1>2. r \in Request /\ RequestSafe(server, r)
  BY DEF Inv, TypeOK
<1>3. /\ server' \in Row /\ RowSound(server') /\ Grows(server, server')
      /\ \A q \in stray : RequestSafe(server', q)
      /\ \A u \in Tabs : TabSound(server', store[u], meta[u], pending[u], job[u])
  BY <1>1, <1>2, Executed
<1>4. TypeOK'
  BY <1>1, <1>3 DEF Inv, TypeOK
<1>5. QED
  BY <1>1, <1>3, <1>4 DEF Inv

LEMMA InNetworkSafe ==
    ASSUME Inv, NEW t \in Tabs, NEW s \in Slots
    PROVE  InNetwork(t, s) \subseteq Request /\ \A r \in InNetwork(t, s) : RequestSafe(server, r)
<1>1. job[t][s] \in Job /\ JobSound(server, job[t][s])
  BY DEF Inv, TypeOK, TabSound
<1>2. QED
  BY <1>1 DEF InNetwork, JobSound, Job

LEMMA FailStep ==
    ASSUME Inv, NEW t \in Tabs, NEW s \in Slots, Fail(t, s)
    PROVE  Inv'
<1>1. /\ faults > 0 /\ faults' = faults - 1
      /\ stray' = stray \cup InNetwork(t, s)
      /\ Step(t, s, Idle)
      /\ UNCHANGED <<server, store, page, meta, registered, pending, secret, used, shown>>
  BY DEF Fail
<1>2. stray' \subseteq Request /\ \A r \in stray' : RequestSafe(server, r)
  BY <1>1, InNetworkSafe DEF Inv, TypeOK
<1>3. /\ job' \in [Tabs -> [Slots -> Job]] /\ job'[t][s] = Idle
      /\ \A x \in Slots : x # s => job'[t][x] = job[t][x]
      /\ \A u \in Tabs : u # t => job'[u] = job[u]
  BY <1>1, StepType, Values DEF Inv
<1>4. TypeOK'
  BY <1>1, <1>2, <1>3, KeyBoundsAssumption DEF Inv, TypeOK
<1>5. UploadKeepsKey(server, store[t], job'[t]["sync"], job'[t]["entry"])
  <2>1. Idle.req.key \notin Veks /\ Idle.op # "open"
    BY Distinct DEF Idle, Register
  <2>2. QED
    BY <1>1, <2>1, QuietUpload, Values DEF Inv
<1>6. \A u \in Tabs : TabSound(server, store'[u], meta'[u], pending'[u], job'[u])
  BY <1>1, <1>3, <1>5, IdleSound DEF Inv, TabSound
<1>7. QED
  BY <1>1, <1>2, <1>4, <1>6 DEF Inv

LEMMA ReloadPageStep ==
    ASSUME Inv, NEW t \in Tabs, ReloadPage(t)
    PROVE  Inv'
<1>1. /\ faults > 0 /\ faults' = faults - 1
      /\ stray' = stray \cup UNION {InNetwork(t, s) : s \in Slots}
      /\ store' = [store EXCEPT ![t] = Locked]
      /\ meta' = [meta EXCEPT ![t] = Unknown]
      /\ registered' = [registered EXCEPT ![t] = FALSE]
      /\ pending' = [pending EXCEPT ![t] = NoKey]
      /\ secret' = [secret EXCEPT ![t] = NoKey]
      /\ job' = [job EXCEPT ![t] = [s \in Slots |-> Idle]]
      /\ UNCHANGED <<server, page, used, shown>>
  BY DEF ReloadPage
<1>2. stray' \subseteq Request /\ \A r \in stray' : RequestSafe(server, r)
  BY <1>1, InNetworkSafe DEF Inv, TypeOK
<1>3. /\ Locked \in [open : BOOLEAN, key : DataKeys, version : 0 .. MaxVersion]
      /\ Unknown \in [snap : DataKeys, kek : Wrap]
      /\ ~ Locked.open /\ MetaSound(server, Unknown)
  BY KeyBoundsAssumption, Values, Distinct DEF Locked, Unknown, DataKeys, MetaSound
<1>4. /\ job' \in [Tabs -> [Slots -> Job]]
      /\ \A s \in Slots : job'[t][s] = Idle
      /\ \A u \in Tabs : u # t => job'[u] = job[u]
  BY <1>1, Values DEF Inv, TypeOK
<1>5. /\ ~ store'[t].open /\ meta'[t] = Unknown /\ pending'[t] = NoKey
      /\ \A u \in Tabs : u # t =>
            store'[u] = store[u] /\ meta'[u] = meta[u] /\ pending'[u] = pending[u]
  BY <1>1, <1>3 DEF Inv, TypeOK
<1>6. TypeOK'
  BY <1>1, <1>2, <1>3, <1>4, KeyBoundsAssumption DEF Inv, TypeOK
<1>7. TabSound(server, store'[t], meta'[t], pending'[t], job'[t])
  <2>1. Idle.req.key \notin Veks /\ Idle.op # "open" /\ NoKey \notin Veks
    BY Distinct DEF Idle, Register
  <2>2. UploadKeepsKey(server, store'[t], job'[t]["sync"], job'[t]["entry"])
    BY <1>4, <2>1 DEF UploadKeepsKey, Slots
  <2>3. QED
    BY <1>3, <1>4, <1>5, <2>1, <2>2, IdleSound DEF TabSound, StoreSound, PendingSound
<1>8. QED
  BY <1>1, <1>2, <1>4, <1>5, <1>6, <1>7 DEF Inv

-----------------------------------------------------------------------------
(* The invariant *)

LEMMA InitInv == Init => Inv
<1> SUFFICES ASSUME Init PROVE Inv
  OBVIOUS
<1>1. server \in Row /\ RowSound(server)
  <2>1. CASE server \in {NoRow, [NoRow EXCEPT !.exists = TRUE]}
    <3>1. PICK e \in BOOLEAN :
              server = [exists |-> e, version |-> 0, snap |-> NoKey,
                        kek |-> NoWrap, rec |-> NoWrap]
      BY <2>1 DEF NoRow
    <3>2. server \in Row
      BY <3>1, Values, KeyBoundsAssumption DEF Row, DataKeys
    <3>3. QED
      BY <3>1, <3>2, Distinct DEF RowSound, Carries
  <2>2. CASE \E m \in Masters :
                 server = [NoRow EXCEPT !.exists = TRUE, !.version = 1, !.snap = m]
    <3>1. PICK m \in Masters :
                 server = [NoRow EXCEPT !.exists = TRUE, !.version = 1, !.snap = m]
      BY <2>2
    <3>2. /\ 1 \in 0 .. MaxVersion /\ m \in DataKeys /\ NoWrap \in Wrap
          /\ NoRow.kek = NoWrap /\ NoRow.rec = NoWrap
      BY Values, KeyBoundsAssumption DEF DataKeys, NoRow
    <3>3. server = [exists |-> TRUE, version |-> 1, snap |-> m,
                    kek |-> NoWrap, rec |-> NoWrap]
      BY <3>1 DEF NoRow
    <3>4. server \in Row
      BY <3>2, <3>3 DEF Row
    <3>5. QED
      BY <3>3, <3>4, Distinct DEF RowSound, Carries
  <2>3. QED
    BY <2>1, <2>2 DEF Init
<1>2. /\ Locked \in [open : BOOLEAN, key : DataKeys, version : 0 .. MaxVersion]
      /\ Unknown \in [snap : DataKeys, kek : Wrap]
      /\ ~ Locked.open /\ MetaSound(server, Unknown)
  BY KeyBoundsAssumption, Values, Distinct DEF Locked, Unknown, DataKeys, MetaSound
<1>3. TypeOK
  <2>1. /\ stray = {} /\ used = {} /\ shown = {} /\ faults = MaxFaults
        /\ store = [t \in Tabs |-> Locked] /\ meta = [t \in Tabs |-> Unknown]
        /\ page = [t \in Tabs |-> IF server.exists THEN "unlock" ELSE "register"]
        /\ registered = [t \in Tabs |-> FALSE]
        /\ pending = [t \in Tabs |-> NoKey] /\ secret = [t \in Tabs |-> NoKey]
        /\ job = [t \in Tabs |-> [s \in Slots |-> Idle]]
    BY Zenon DEF Init
  <2>2. MaxFaults \in 0 .. MaxFaults /\ Idle \in Job
    BY Values, KeyBoundsAssumption
  <2>3. page \in [Tabs -> {"register", "unlock", "settings"}]
    BY <2>1
  <2>4. job \in [Tabs -> [Slots -> Job]]
    BY <2>1, <2>2
  <2>5. /\ registered \in [Tabs -> BOOLEAN]
        /\ pending \in [Tabs -> Veks \cup {Zeroed, NoKey}]
        /\ secret \in [Tabs -> Kits \cup {NoKey}]
    BY <2>1
  <2>6. QED
    BY <1>1, <1>2, <2>1, <2>2, <2>3, <2>4, <2>5 DEF TypeOK
<1>4. ASSUME NEW t \in Tabs
      PROVE  TabSound(server, store[t], meta[t], pending[t], job[t])
  <2>1. Idle.req.key \notin Veks /\ Idle.op # "open" /\ NoKey \notin Veks
    BY Distinct DEF Idle, Register
  <2>2. /\ store[t] = Locked /\ meta[t] = Unknown /\ pending[t] = NoKey
        /\ \A s \in Slots : job[t][s] = Idle
    BY DEF Init
  <2>3. UploadKeepsKey(server, store[t], job[t]["sync"], job[t]["entry"])
    BY <2>1, <2>2 DEF UploadKeepsKey, Slots
  <2>4. QED
    BY <1>2, <2>1, <2>2, <2>3, IdleSound DEF TabSound, StoreSound, PendingSound
<1>5. stray = {}
  BY DEF Init
<1>6. QED
  BY <1>1, <1>3, <1>4, <1>5 DEF Inv

\* Besides the invariant, the row only grows.
LEMMA StepInv ==
    ASSUME ~ RetryRewrap, ~ RepeatUpgrade, Inv, [Next]_vars
    PROVE  Inv' /\ Grows(server, server')
<1>1. UNCHANGED server => Grows(server, server')
  BY Reflexive DEF Inv, TypeOK
<1>2. ASSUME NEW t \in Tabs, Entry(t) PROVE Inv' /\ UNCHANGED server
  <2>1. UNCHANGED server
    BY <1>2 DEF Entry, SubmitForm, VaultCreated, KitSaved, LeaveForm, GetVault, Healed,
            NewMasterSet, Redirect, UnlockWithMaster, SetNewMaster, UnlockWithSecret, Heal,
            InitializeVault
  <2>2. Inv'
    BY <1>2, SubmitFormStep, VaultCreatedStep, KitSavedStep, GetVaultStep, HealedStep,
       NewMasterSetStep, RedirectStep, UnlockWithMasterStep, SetNewMasterStep,
       UnlockWithSecretStep, HealStep, InitializeVaultStep DEF Entry
  <2>3. QED
    BY <2>1, <2>2
<1>3. ASSUME NEW t \in Tabs, Settings(t) PROVE Inv' /\ UNCHANGED server
  <2>1. UNCHANGED server
    BY <1>3 DEF Settings, FetchMeta, SendUpgrade, MasterChanged, Upgraded, KitStored, KitDone,
            GenerateKit, ChangeMaster, BeginUpgrade
  <2>2. Inv'
    BY <1>3, FetchMetaStep, SendUpgradeStep, MasterChangedStep, UpgradedStep, KitStoredStep,
       KitSavedStep, GenerateKitStep, ChangeMasterStep, BeginUpgradeStep DEF Settings
  <2>3. QED
    BY <2>1, <2>2
<1>4. ASSUME NEW t \in Tabs, Sync(t) PROVE Inv' /\ UNCHANGED server
  <2>1. UNCHANGED server
    BY <1>4 DEF Sync, Lock, GoUnlock, Save, Saved, SaveRefused, Adopt
  <2>2. Inv'
    BY <1>4, LockStep, GoUnlockStep, SaveStep, SavedStep, SaveRefusedStep, AdoptStep DEF Sync
  <2>3. QED
    BY <2>1, <2>2
<1>5. ASSUME NEW t \in Tabs, ReloadPage(t) PROVE Inv' /\ UNCHANGED server
  BY <1>5, ReloadPageStep DEF ReloadPage
<1>6. ASSUME NEW t \in Tabs, NEW s \in Slots, Reject(t, s) \/ Fail(t, s)
      PROVE  Inv' /\ UNCHANGED server
  BY <1>6, RejectStep, FailStep DEF Reject, Fail
<1>7. ASSUME UNCHANGED vars PROVE Inv' /\ UNCHANGED server
  <2>1. UNCHANGED <<server, stray, store, meta, pending, job>> /\ TypeOK'
    BY <1>7 DEF vars, Inv, TypeOK
  <2>2. QED
    BY <2>1 DEF Inv
<1>8. QED
  BY <1>1, <1>2, <1>3, <1>4, <1>5, <1>6, <1>7, DeliverStep, DeliverStrayStep DEF Next

-----------------------------------------------------------------------------
(* Theorems *)

LEMMA Invariance == ~ RetryRewrap /\ ~ RepeatUpgrade => (Spec => []Inv)
<1> SUFFICES ASSUME ~ RetryRewrap, ~ RepeatUpgrade PROVE Spec => []Inv
  OBVIOUS
<1>1. Init => Inv
  BY InitInv
<1>2. Inv /\ [Next]_vars => Inv'
  BY StepInv
<1>3. QED
  BY <1>1, <1>2, PTL DEF Spec

\* Every reachable state is well typed: a raw key is a vault key, the zeros of
\* one or none, and a kit on the screen is a kit.
THEOREM TypeCorrect == ~ RetryRewrap /\ ~ RepeatUpgrade => (Spec => []TypeOK)
<1> SUFFICES ASSUME ~ RetryRewrap, ~ RepeatUpgrade PROVE Spec => []TypeOK
  OBVIOUS
<1>1. Inv => TypeOK
  BY DEF Inv
<1>2. QED
  BY <1>1, Invariance, PTL

\* For any tabs, passwords and lost requests, the owner's master password opens
\* the newest snapshot, as long as a zeroed key is not sent again and no tab
\* upgrades a vault that it holds under a random key.
THEOREM NeverLockedOut == ~ RetryRewrap /\ ~ RepeatUpgrade => (Spec => []NewestOpens)
<1> SUFFICES ASSUME ~ RetryRewrap, ~ RepeatUpgrade PROVE Spec => []NewestOpens
  OBVIOUS
<1>1. Inv => NewestOpens
  BY DEF Inv, TypeOK, RowSound, NewestOpens, Legacy, Row, DataKeys
<1>2. QED
  BY <1>1, Invariance, PTL

\* Under the same conditions the recovery wrap on file holds the key in use.
THEOREM KitsOpen == ~ RetryRewrap /\ ~ RepeatUpgrade => (Spec => []KitOpens)
<1> SUFFICES ASSUME ~ RetryRewrap, ~ RepeatUpgrade PROVE Spec => []KitOpens
  OBVIOUS
<1>1. Inv => KitOpens
  BY DEF Inv, RowSound, Carries, KitOpens
<1>2. QED
  BY <1>1, Invariance, PTL

\* Under the same conditions no tab whose next save would be accepted holds an
\* older key.
THEOREM SaversHoldKey == ~ RetryRewrap /\ ~ RepeatUpgrade => (Spec => []CurrentTabHoldsKey)
<1> SUFFICES ASSUME ~ RetryRewrap, ~ RepeatUpgrade PROVE Spec => []CurrentTabHoldsKey
  OBVIOUS
<1>1. Inv => CurrentTabHoldsKey
  BY DEF Inv, TabSound, StoreSound, EncryptedBy, CurrentTabHoldsKey
<1>2. QED
  BY <1>1, Invariance, PTL

\* Under the same conditions no step replaces the random key of a vault.
THEOREM KeyNeverReplaced == ~ RetryRewrap /\ ~ RepeatUpgrade => (Spec => VaultKeyIsForever)
<1> SUFFICES ASSUME ~ RetryRewrap, ~ RepeatUpgrade PROVE Spec => VaultKeyIsForever
  OBVIOUS
<1>1. Inv /\ [Next]_vars => [server.snap \in Veks => server'.snap = server.snap]_vars
  BY StepInv DEF Grows
<1>2. QED
  BY <1>1, Invariance, PTL DEF Spec, VaultKeyIsForever

=============================================================================
