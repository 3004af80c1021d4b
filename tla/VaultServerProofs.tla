------------------------- MODULE VaultServerProofs -------------------------
(***************************************************************************)
(* Proofs about VaultServer for any accounts, executions, snapshots,       *)
(* retention limit and version bound.  The inductive invariant says that   *)
(* vaults.version is the maximum of the stored versions, that the FOR      *)
(* UPDATE lock is exclusive, and that whoever passed the version check     *)
(* under it still holds the next version.  The refinement of VaultRegister *)
(* follows from it.                                                        *)
(***************************************************************************)
EXTENDS VaultServer, TLAPS

\* An execution that left "idle" has a request.
HasRequest ==
    \A r \in Requests :
        phase[r] # "idle" => request[r] \in SnapshotRequest \cup WrapRequest

\* Every stored version is at most vaults.version, and that one is stored.
RowIsMaximum ==
    \A u \in Users :
        snapshots[u] # {} =>
            /\ \E s \in snapshots[u] : s.version = rowVersion[u]
            /\ \A s \in snapshots[u] : s.version <= rowVersion[u]

\* A deleted account has no snapshot; a fresh one is at version 1.
EmptyVault ==
    \A u \in Users :
        /\ ~ alive[u] => snapshots[u] = {} /\ ~ deleting[u]
        /\ snapshots[u] = {} => rowVersion[u] <= 1

LockExclusive ==
    \A r1, r2 \in Requests :
        /\ phase[r1] \in Holding
        /\ phase[r2] \in Holding
        /\ request[r1].user = request[r2].user
        => r1 = r2

HolderAlive ==
    \A r \in Requests : phase[r] \in Holding => alive[request[r].user]

KeysPhases ==
    \A r \in Requests : phase[r] = "checked" => request[r].kind = "put"

RowReadIsBehind ==
    \A g \in Reads :
        read[g].at = "row" /\ alive[read[g].user] =>
            read[g].version <= rowVersion[read[g].user]

Inv ==
    /\ TypeOK
    /\ HasRequest
    /\ RowIsMaximum
    /\ EmptyVault
    /\ VersionsContiguous
    /\ OneBlobPerVersion
    /\ LockExclusive
    /\ HolderAlive
    /\ KeysPhases
    /\ LockProtectsCheck
    /\ RowReadIsBehind
    /\ TornReadIsBehind
    /\ AnsweredIsDurable

-----------------------------------------------------------------------------
(* Lemmas *)

\* With the invariant, SELECT MAX(version) is vaults.version.
LEMMA NewestIsRow ==
    ASSUME TypeOK, RowIsMaximum, NEW u \in Users, snapshots[u] # {}
    PROVE  Newest(u) = rowVersion[u]
<1>1. PICK s \in snapshots[u] : s.version = rowVersion[u]
  BY DEF RowIsMaximum
<1>2. rowVersion[u] \in Versions(u)
  BY <1>1 DEF Versions
<1>3. \A w \in Versions(u) : w <= rowVersion[u]
  BY DEF RowIsMaximum, Versions
<1>4. \A w \in Versions(u) : w \in Nat
  BY DEF TypeOK, Versions, Snapshot
<1>5. ASSUME NEW v \in Versions(u), \A w \in Versions(u) : w <= v
      PROVE  v = rowVersion[u]
  BY <1>2, <1>3, <1>4, <1>5
<1>6. QED
  BY <1>2, <1>3, <1>5 DEF Newest

\* The newest snapshot is a stored one and carries that version.
LEMMA NewestSnapshotStored ==
    ASSUME TypeOK, RowIsMaximum, NEW u \in Users, snapshots[u] # {}
    PROVE  /\ NewestSnapshot(u) \in snapshots[u]
           /\ NewestSnapshot(u).version = rowVersion[u]
BY NewestIsRow DEF NewestSnapshot, RowIsMaximum

LEMMA NewestType ==
    ASSUME TypeOK, RowIsMaximum, NEW u \in Users
    PROVE  Newest(u) \in Nat
BY NewestIsRow DEF Newest, TypeOK

LEMMA RequestFields ==
    ASSUME NEW q \in SnapshotRequest \cup WrapRequest
    PROVE  /\ q.user \in Users
           /\ q.wraps \in WrapPair
           /\ q.kind \in {"put", "keys"}
           /\ q.kind = "put" =>
                /\ q \in SnapshotRequest
                /\ q.version \in Nat \ {0}
                /\ q.version \in 1 .. MaxVersion
                /\ q.blob \in Blobs
BY MaxVersionAssumption DEF SnapshotRequest, WrapRequest

LEMMA OverlayType ==
    ASSUME NEW a \in WrapPair, NEW b \in WrapPair
    PROVE  Overlay(a, b) \in WrapPair
BY DEF Overlay, WrapPair

LEMMA InterruptedType ==
    ASSUME NEW p \in Phases
    PROVE  Interrupted(p) \in Phases
BY DEF Interrupted, Phases, Uncommitted, Holding

-----------------------------------------------------------------------------
(* Steps that leave the tables alone *)

\* Conjuncts of the invariant that speak of the committed rows only.
TableInv ==
    /\ RowIsMaximum
    /\ VersionsContiguous
    /\ OneBlobPerVersion

LEMMA TablesUntouched ==
    ASSUME Inv, UNCHANGED rows
    PROVE  /\ TableInv'
           /\ \A u \in Users : Newest(u)' = Newest(u)
           /\ \A u \in Users : Versions(u)' = Versions(u)
BY DEF Inv, rows, TableInv, RowIsMaximum, VersionsContiguous, OneBlobPerVersion,
       Versions, Newest

\* A step of one execution that changes its phase only, to a phase it may be
\* in: the lock is taken only when free, the check passed only when it holds,
\* and no snapshot counts as accepted without having been committed.
LEMMA PhaseStep ==
    ASSUME Inv, NEW r \in Requests, NEW p \in Phases,
           phase[r] # "idle", Goto(r, p),
           UNCHANGED <<rows, request, read>>,
           deleting' \in [Users -> BOOLEAN],
           \A u \in Users : deleting'[u] => deleting[u],
           p \in Holding => \/ phase[r] \in Holding
                            \/ /\ ~ RowLocked(request[r].user)
                               /\ alive[request[r].user],
           p = "checked" => request[r].kind = "put",
           p \in {"checked", "written"} /\ request[r].kind = "put" =>
               request[r].version = Newest(request[r].user) + 1,
           p \in {"committed", "ok", "unconfirmed"} => phase[r] = "committed"
    PROVE  Inv'
<1>1. phase' = [phase EXCEPT ![r] = p]
  BY DEF Goto
<1>2. phase \in [Requests -> Phases]
  BY DEF Inv, TypeOK
<1>3. TypeOK'
  BY <1>1 DEF Inv, TypeOK, rows
<1>4. HasRequest'
  BY <1>1, <1>2 DEF Inv, HasRequest
<1>5. TableInv' /\ \A u \in Users : Newest(u)' = Newest(u)
  BY TablesUntouched
<1>6. EmptyVault'
  BY DEF Inv, EmptyVault, rows, TypeOK
<1>7. LockExclusive'
  <2>1. ASSUME NEW s \in Requests, s # r, phase[s] \in Holding,
               request[s].user = request[r].user, p \in Holding
        PROVE  FALSE
    BY <2>1 DEF Inv, LockExclusive, RowLocked
  <2>2. QED
    BY <1>1, <1>2, <2>1 DEF Inv, LockExclusive
<1>8. HolderAlive'
  BY <1>1, <1>2 DEF Inv, HolderAlive, rows
<1>9. KeysPhases'
  BY <1>1, <1>2 DEF Inv, KeysPhases
<1>10. \A s \in Requests : phase'[s] # "idle" => request[s].user \in Users
  BY <1>4, RequestFields DEF HasRequest
<1>11. LockProtectsCheck'
  <2> SUFFICES ASSUME NEW s \in Requests, phase'[s] \in {"checked", "written"},
                      request[s].kind = "put"
               PROVE  /\ alive[request[s].user]
                      /\ request[s].version = Newest(request[s].user) + 1
    BY <1>5, <1>10 DEF LockProtectsCheck, rows
  <2>1. CASE s = r
    BY <2>1, <1>1, <1>2, <1>8 DEF HolderAlive, Holding, rows
  <2>2. CASE s # r
    BY <2>2, <1>1, <1>2 DEF Inv, LockProtectsCheck
  <2>3. QED
    BY <2>1, <2>2
<1>12. RowReadIsBehind' /\ TornReadIsBehind'
  BY DEF Inv, RowReadIsBehind, TornReadIsBehind, rows
<1>13. AnsweredIsDurable'
  <2> SUFFICES ASSUME NEW s \in Requests, request[s].kind = "put",
                      phase'[s] \in {"committed", "ok", "unconfirmed"}
               PROVE  \/ ~ alive[request[s].user]
                      \/ Newest(request[s].user) >= request[s].version
    BY <1>5, <1>10 DEF AnsweredIsDurable, rows
  <2>1. phase[s] \in {"committed", "ok", "unconfirmed"}
    BY <1>1, <1>2
  <2>2. QED
    BY <2>1 DEF Inv, AnsweredIsDurable
<1>14. QED
  BY <1>3, <1>4, <1>5, <1>6, <1>7, <1>8, <1>9, <1>11, <1>12, <1>13
     DEF Inv, TableInv

LEMMA ArriveStep ==
    ASSUME Inv, NEW r \in Requests, NEW q \in SnapshotRequest \cup WrapRequest,
           Arrive(r, q)
    PROVE  Inv'
<1>1. /\ phase' = [phase EXCEPT ![r] = "waiting"]
      /\ request' = [request EXCEPT ![r] = q]
      /\ phase[r] = "idle"
  BY DEF Arrive, Goto
<1>2. /\ phase \in [Requests -> Phases]
      /\ request \in [Requests -> {NoRequest} \cup SnapshotRequest \cup WrapRequest]
  BY DEF Inv, TypeOK
<1>3. UNCHANGED <<rows, deleting, read>>
  BY DEF Arrive
<1>4. \A s \in Requests : s # r => request'[s] = request[s] /\ phase'[s] = phase[s]
  BY <1>1, <1>2
<1>5. phase'[r] = "waiting" /\ request'[r] = q
  BY <1>1, <1>2
<1>6. TypeOK'
  BY <1>1, <1>3 DEF Inv, TypeOK, rows, Phases, Uncommitted
<1>7. HasRequest'
  BY <1>4, <1>5 DEF Inv, HasRequest
<1>8. TableInv' /\ \A u \in Users : Newest(u)' = Newest(u)
  BY <1>3, TablesUntouched
<1>9. EmptyVault' /\ RowReadIsBehind' /\ TornReadIsBehind'
  BY <1>3 DEF Inv, EmptyVault, RowReadIsBehind, TornReadIsBehind, rows
<1>10. LockExclusive' /\ HolderAlive' /\ KeysPhases'
  BY <1>3, <1>4, <1>5 DEF Inv, LockExclusive, HolderAlive, KeysPhases, Holding, rows
<1>11. \A s \in Requests : s # r /\ phase[s] # "idle" => request[s].user \in Users
  BY RequestFields DEF Inv, HasRequest
<1>12. LockProtectsCheck' /\ AnsweredIsDurable'
  BY <1>3, <1>4, <1>5, <1>8, <1>11
     DEF Inv, LockProtectsCheck, AnsweredIsDurable, rows
<1>13. QED
  BY <1>6, <1>7, <1>8, <1>9, <1>10, <1>12 DEF Inv, TableInv

LEMMA HandleStep ==
    ASSUME Inv, NEW r \in Requests,
           \/ LockRow(r) \/ CheckVersion(r) \/ WriteSnapshot(r)
           \/ WriteWraps(r) \/ Audit(r) \/ BreakDeadlock(r) \/ Fail(r)
    PROVE  Inv'
<1> USE DEF Holding, Uncommitted, Phases
<1>1. CASE LockRow(r)
  <2>1. CASE alive[request[r].user]
    BY <1>1, <2>1, PhaseStep DEF LockRow, Inv, TypeOK
  <2>2. CASE ~ alive[request[r].user]
    BY <1>1, <2>2, PhaseStep DEF LockRow, Inv, TypeOK
  <2>3. QED
    BY <2>1, <2>2
<1>2. CASE CheckVersion(r)
  BY <1>2, PhaseStep DEF CheckVersion, Inv, TypeOK
<1>3. CASE WriteSnapshot(r)
  BY <1>3, PhaseStep DEF WriteSnapshot, Inv, TypeOK, LockProtectsCheck
<1>4. CASE WriteWraps(r)
  BY <1>4, PhaseStep DEF WriteWraps, Inv, TypeOK
<1>5. CASE Audit(r)
  BY <1>5, PhaseStep DEF Audit, Inv, TypeOK
<1>6. CASE BreakDeadlock(r)
  <2>1. CASE Goto(r, "failed") /\ UNCHANGED deleting
    BY <1>6, <2>1, PhaseStep DEF BreakDeadlock, Inv, TypeOK
  <2>2. CASE /\ Goto(r, "written")
             /\ deleting' = [deleting EXCEPT ![request[r].user] = FALSE]
    BY <1>6, <2>2, PhaseStep DEF BreakDeadlock, Inv, TypeOK, LockProtectsCheck
  <2>3. QED
    BY <1>6, <2>1, <2>2 DEF BreakDeadlock
<1>7. CASE Fail(r)
  BY <1>7, PhaseStep DEF Fail, Interrupted, Inv, TypeOK
<1>8. QED
  BY <1>1, <1>2, <1>3, <1>4, <1>5, <1>6, <1>7

\* Committing the next version b of account u, seen by the tables alone.
LEMMA AppendSnapshot ==
    ASSUME Inv, NEW u \in Users, NEW v \in Nat \ {0}, NEW b \in Blobs,
           v = Newest(u) + 1, alive[u],
           rowVersion' = [rowVersion EXCEPT ![u] = v],
           snapshots' = [snapshots EXCEPT ![u] =
                            @ \cup {[version |-> v, blob |-> b]}]
    PROVE  /\ rowVersion' \in [Users -> Nat]
           /\ snapshots' \in [Users -> SUBSET Snapshot]
           /\ TableInv'
           /\ \A w \in Users : snapshots'[w] = {} => rowVersion'[w] <= 1
           /\ \A w \in Users : alive[w] => rowVersion[w] <= rowVersion'[w]
           /\ \A w \in Users : w # u => snapshots'[w] = snapshots[w]
           /\ \A w \in Users : w # u => Newest(w)' = Newest(w)
           /\ Newest(u)' = v
<1> DEFINE new == [version |-> v, blob |-> b]
<1>1. TypeOK /\ RowIsMaximum /\ rowVersion[u] \in Nat /\ new \in Snapshot
  BY DEF Inv, TypeOK, Snapshot
<1>2. /\ snapshots[u] = {} => v = 1 /\ rowVersion[u] <= 1
      /\ snapshots[u] # {} => v = rowVersion[u] + 1
  <2>1. CASE snapshots[u] = {}
    BY <2>1 DEF Newest, Inv, EmptyVault
  <2>2. CASE snapshots[u] # {}
    BY <1>1, <2>2, NewestIsRow
  <2>3. QED
    BY <2>1, <2>2
<1>3. /\ rowVersion' \in [Users -> Nat]
      /\ snapshots' \in [Users -> SUBSET Snapshot]
  BY <1>1 DEF TypeOK
<1>4. rowVersion'[u] = v /\ snapshots'[u] = snapshots[u] \cup {new}
  BY <1>1 DEF TypeOK
<1>5. \A w \in Users : w # u =>
         rowVersion'[w] = rowVersion[w] /\ snapshots'[w] = snapshots[w]
  BY <1>1 DEF TypeOK
<1>6. \A s \in snapshots[u] : s.version \in Nat /\ s.version < v
  BY <1>1, <1>2 DEF TypeOK, RowIsMaximum, Snapshot
<1>7. new.version = v
  OBVIOUS
<1>8. RowIsMaximum'
  <2>1. \E s \in snapshots'[u] : s.version = rowVersion'[u]
    BY <1>4, <1>7
  <2>2. \A s \in snapshots'[u] : s.version <= rowVersion'[u]
    BY <1>4, <1>6, <1>7
  <2>3. QED
    BY <1>5, <2>1, <2>2 DEF Inv, RowIsMaximum
<1>9. OneBlobPerVersion'
  BY <1>4, <1>5, <1>6, <1>7 DEF Inv, OneBlobPerVersion
<1>10. VersionsContiguous'
  <2>1. Versions(u)' = Versions(u) \cup {v}
    BY <1>4, <1>7 DEF Versions
  <2>2. \A w \in Users : w # u => Versions(w)' = Versions(w)
    BY <1>5 DEF Versions
  <2>3. ASSUME NEW s \in snapshots[u]
        PROVE  s.version .. v \subseteq Versions(u)'
    <3>1. s.version .. rowVersion[u] \subseteq Versions(u)
      BY DEF Inv, VersionsContiguous
    <3>2. v = rowVersion[u] + 1
      BY <1>2, <2>3
    <3>3. QED
      BY <1>1, <1>6, <2>1, <2>3, <3>1, <3>2
  <2>4. ASSUME NEW s \in snapshots'[u]
        PROVE  /\ s.version <= v
               /\ s.version .. v \subseteq Versions(u)'
    <3>1. CASE s \in snapshots[u]
      BY <3>1, <1>6, <2>3
    <3>2. CASE s = new
      BY <3>2, <1>7, <2>1
    <3>3. QED
      BY <1>4, <3>1, <3>2
  <2>5. QED
    BY <1>4, <1>5, <2>2, <2>4 DEF Inv, VersionsContiguous
<1>11. \A w \in Users : snapshots'[w] = {} => rowVersion'[w] <= 1
  BY <1>4, <1>5 DEF Inv, EmptyVault
<1>12. \A w \in Users : rowVersion[w] <= rowVersion'[w]
  BY <1>1, <1>2, <1>4, <1>5 DEF TypeOK
<1>13. \A w \in Users : w # u => Newest(w)' = Newest(w)
  <2> SUFFICES ASSUME NEW w \in Users, w # u PROVE Newest(w)' = Newest(w)
    OBVIOUS
  <2>1. snapshots'[w] = snapshots[w]
    BY <1>5
  <2>2. QED
    BY <2>1 DEF Newest, Versions
<1>14. Newest(u)' = v
  <2>1. v \in Versions(u)' /\ snapshots'[u] # {}
    BY <1>4, <1>7 DEF Versions
  <2>2. \A x \in Versions(u)' : x \in Nat /\ x <= v
    BY <1>4, <1>6, <1>7 DEF Versions
  <2>3. \A x \in Versions(u)' : (\A y \in Versions(u)' : y <= x) => x = v
    BY <2>1, <2>2
  <2>4. QED
    BY <2>1, <2>2, <2>3 DEF Newest
<1>15. QED
  BY <1>3, <1>5, <1>8, <1>9, <1>10, <1>11, <1>12, <1>13, <1>14 DEF TableInv

LEMMA CommitStep ==
    ASSUME Inv, NEW r \in Requests, Commit(r)
    PROVE  Inv'
<1>1. PICK q \in SnapshotRequest \cup WrapRequest, u \in Users :
         q = request[r] /\ u = request[r].user
  BY RequestFields DEF Commit, Inv, HasRequest
<1>2. /\ phase[r] = "written"
      /\ phase' = [phase EXCEPT ![r] = "committed"]
      /\ wraps' = [wraps EXCEPT ![u] = Overlay(@, q.wraps)]
      /\ UNCHANGED <<alive, deleting, request, read>>
  BY <1>1 DEF Commit, Goto
<1>3. phase \in [Requests -> Phases] /\ TypeOK /\ RowIsMaximum
  BY DEF Inv, TypeOK
<1>4. q.wraps \in WrapPair /\ alive[u]
  BY <1>1, <1>2, RequestFields DEF Inv, HolderAlive, Holding
<1>5. wraps' \in [Users -> WrapPair]
  BY <1>2, <1>4, OverlayType DEF Inv, TypeOK
<1>6. HasRequest' /\ KeysPhases' /\ LockExclusive' /\ HolderAlive'
  BY <1>2, <1>3
     DEF Inv, HasRequest, KeysPhases, LockExclusive, HolderAlive, Holding
<1>7. \A s \in Requests :
         phase'[s] \in Holding => phase[s] \in Holding /\ request[s].user # u
  BY <1>1, <1>2, <1>3 DEF Inv, LockExclusive, Holding
<1>8. \A s \in Requests : phase[s] # "idle" => request[s].user \in Users
  BY RequestFields DEF Inv, HasRequest
<1>9. CASE q.kind = "put"
  <2>1. q.version \in Nat \ {0} /\ q.blob \in Blobs
    BY <1>9, RequestFields
  <2>2. q.version = Newest(u) + 1
    BY <1>1, <1>2, <1>9 DEF Inv, LockProtectsCheck
  <2>3. /\ rowVersion' = [rowVersion EXCEPT ![u] = q.version]
        /\ snapshots' = [snapshots EXCEPT ![u] =
                            @ \cup {[version |-> q.version, blob |-> q.blob]}]
    BY <1>1, <1>9 DEF Commit
  <2>4. /\ rowVersion' \in [Users -> Nat]
        /\ snapshots' \in [Users -> SUBSET Snapshot]
        /\ TableInv'
        /\ \A w \in Users : snapshots'[w] = {} => rowVersion'[w] <= 1
        /\ \A w \in Users : alive[w] => rowVersion[w] <= rowVersion'[w]
        /\ \A w \in Users : w # u => snapshots'[w] = snapshots[w]
        /\ \A w \in Users : w # u => Newest(w)' = Newest(w)
        /\ Newest(u)' = q.version
    BY <1>4, <2>1, <2>2, <2>3, AppendSnapshot
  <2>5. TypeOK'
    BY <1>2, <1>5, <2>4 DEF Inv, TypeOK, Phases
  <2>6. EmptyVault'
    BY <1>2, <1>4, <2>4 DEF Inv, EmptyVault
  <2>7. LockProtectsCheck'
    BY <1>2, <1>7, <1>8, <1>3, <2>4 DEF Inv, LockProtectsCheck, Holding
  <2>8. RowReadIsBehind' /\ TornReadIsBehind'
    <3>1. \A g \in Reads : read[g].at = "row" =>
             read[g].version \in Nat /\ read[g].user \in Users
      BY DEF Inv, TypeOK, ReadState, NoRead
    <3>2. \A w \in Users : rowVersion[w] \in Nat /\ rowVersion'[w] \in Nat
      BY <1>3, <2>4 DEF TypeOK
    <3>3. QED
      BY <1>2, <2>4, <3>1, <3>2 DEF Inv, RowReadIsBehind, TornReadIsBehind
  <2>9. AnsweredIsDurable'
    <3> SUFFICES ASSUME NEW s \in Requests, request[s].kind = "put", alive[request[s].user],
                        phase'[s] \in {"committed", "ok", "unconfirmed"}
                 PROVE  (Newest(request[s].user) >= request[s].version)'
      BY <1>2 DEF AnsweredIsDurable
    <3>1. PICK w \in Users, x \in Nat : w = request[s].user /\ x = request[s].version
      BY <1>2, <1>3, <1>8, RequestFields DEF Inv, HasRequest
    <3>2. w' = request'[s].user /\ x' = request'[s].version
      BY <1>2, <3>1
    <3>3. Newest(w)' >= x
      <4>1. CASE s = r
        BY <4>1, <1>1, <2>1, <2>4, <3>1
      <4>2. CASE s # r
        <5>1. Newest(w) >= x
          BY <1>2, <1>3, <3>1, <4>2 DEF Inv, AnsweredIsDurable
        <5>2. Newest(w) \in Nat
          BY <1>3, NewestType
        <5>3. QED
          BY <2>1, <2>2, <2>4, <3>1, <5>1, <5>2
      <4>3. QED
        BY <4>1, <4>2
    <3>4. QED
      BY <1>2, <3>1, <3>3
  <2>10. QED
    BY <1>6, <2>4, <2>5, <2>6, <2>7, <2>8, <2>9 DEF Inv, TableInv
<1>10. CASE q.kind = "keys"
  <2>1. UNCHANGED <<rowVersion, snapshots>>
    BY <1>1, <1>10 DEF Commit
  <2>2. TypeOK'
    BY <1>2, <1>5, <2>1 DEF Inv, TypeOK, Phases
  <2>3. /\ TableInv'
        /\ \A w \in Users : Newest(w)' = Newest(w)
    BY <2>1 DEF Inv, TableInv, RowIsMaximum, VersionsContiguous, OneBlobPerVersion,
                Versions, Newest
  <2>4. EmptyVault' /\ RowReadIsBehind' /\ TornReadIsBehind'
    BY <1>2, <2>1 DEF Inv, EmptyVault, RowReadIsBehind, TornReadIsBehind
  <2>5. LockProtectsCheck'
    BY <1>2, <1>3, <1>7, <1>8, <2>3 DEF Inv, LockProtectsCheck, Holding
  <2>6. AnsweredIsDurable'
    BY <1>1, <1>2, <1>3, <1>8, <1>10, <2>3 DEF Inv, AnsweredIsDurable
  <2>7. QED
    BY <1>6, <2>2, <2>3, <2>4, <2>5, <2>6 DEF Inv, TableInv
<1>11. QED
  BY <1>9, <1>10, RequestFields

-----------------------------------------------------------------------------
(* GET, retention, deletion and crash *)

LEMMA ReadStep ==
    ASSUME Inv, NEW g \in Reads,
           \/ \E u \in Users : ReadRow(g, u)
           \/ ReadSnapshot(g)
    PROVE  Inv'
<1>1. UNCHANGED <<rows, deleting, request, phase>>
  BY DEF ReadRow, ReadSnapshot
<1>2. TypeOK /\ RowIsMaximum
  BY DEF Inv
<1>3. /\ TableInv'
      /\ \A u \in Users : Newest(u)' = Newest(u)
  BY <1>1, TablesUntouched
<1>4. \A r \in Requests : phase[r] # "idle" => request[r].user \in Users
  BY RequestFields DEF Inv, HasRequest
<1>5. /\ HasRequest' /\ EmptyVault' /\ LockExclusive' /\ HolderAlive' /\ KeysPhases'
      /\ LockProtectsCheck' /\ AnsweredIsDurable'
  BY <1>1, <1>3, <1>4
     DEF Inv, rows, HasRequest, EmptyVault, LockExclusive, HolderAlive, KeysPhases,
         LockProtectsCheck, AnsweredIsDurable, Holding
<1>6. CASE \E u \in Users : ReadRow(g, u)
  <2>1. PICK u \in Users : ReadRow(g, u)
    BY <1>6
  <2>2. PICK x : /\ read' = [read EXCEPT ![g] = x]
                 /\ x = IF alive[u]
                        THEN [at |-> "row", user |-> u, version |-> rowVersion[u],
                              wraps |-> wraps[u]]
                        ELSE [at |-> "notfound", user |-> u]
    BY <2>1 DEF ReadRow
  <2>3. rowVersion[u] \in Nat /\ wraps[u] \in WrapPair /\ u \in Users
    BY <1>2 DEF TypeOK
  <2>4. x \in ReadState
    <3>1. [at |-> "row", user |-> u, version |-> rowVersion[u], wraps |-> wraps[u]]
             \in ReadState
      BY <2>3 DEF ReadState
    <3>2. [at |-> "notfound", user |-> u] \in ReadState
      BY DEF ReadState
    <3>3. QED
      BY <2>2, <3>1, <3>2
  <2>5. TypeOK'
    BY <1>1, <1>2, <2>2, <2>4 DEF TypeOK, rows
  <2>6. /\ x.at = "row" => x.version <= rowVersion[u] /\ x.user = u
        /\ x.at # "done"
    BY <2>2, <2>3
  <2>7. RowReadIsBehind' /\ TornReadIsBehind'
    BY <1>1, <1>2, <2>2, <2>6
       DEF Inv, TypeOK, RowReadIsBehind, TornReadIsBehind, rows
  <2>8. QED
    BY <1>3, <1>5, <2>5, <2>7 DEF Inv, TableInv
<1>7. CASE ReadSnapshot(g)
  <2> DEFINE Answer(z) ==
                [at |-> "done", user |-> z.user, version |-> z.version,
                 wraps |-> z.wraps, snapshot |-> NewestSnapshot(z.user)]
  <2>0. PICK y \in ReadState : y = read[g] /\ y.at = "row"
    BY <1>2, <1>7 DEF ReadSnapshot, TypeOK
  <2>1. PICK x : x = Answer(y) /\ read' = [read EXCEPT ![g] = x]
    BY <1>7, <2>0 DEF ReadSnapshot
  <2>2. y.user \in Users /\ y.version \in Nat /\ y.wraps \in WrapPair
    BY <2>0 DEF ReadState, NoRead
  <2>3. NewestSnapshot(y.user) \in Snapshot \cup {NoSnapshot}
    BY <1>2, <2>2, NewestSnapshotStored DEF NewestSnapshot, TypeOK
  <2>4. TypeOK'
    BY <1>1, <1>2, <2>1, <2>2, <2>3 DEF TypeOK, ReadState, rows
  <2>5. NewestSnapshot(y.user) # NoSnapshot =>
           y.version <= NewestSnapshot(y.user).version
    <3>1. CASE snapshots[y.user] = {}
      BY <3>1 DEF NewestSnapshot
    <3>2. CASE snapshots[y.user] # {}
      <4>1. alive[y.user]
        BY <2>2, <3>2 DEF Inv, EmptyVault
      <4>2. NewestSnapshot(y.user).version = rowVersion[y.user]
        BY <1>2, <2>2, <3>2, NewestSnapshotStored
      <4>3. QED
        BY <2>0, <4>1, <4>2 DEF Inv, RowReadIsBehind
    <3>3. QED
      BY <3>1, <3>2
  <2>6. x.at = "done" /\ x.version = y.version /\ x.snapshot = NewestSnapshot(y.user)
    BY <2>1
  <2>7. RowReadIsBehind' /\ TornReadIsBehind'
    BY <1>1, <1>2, <2>1, <2>5, <2>6
       DEF Inv, TypeOK, RowReadIsBehind, TornReadIsBehind, rows
  <2>8. QED
    BY <1>3, <1>5, <2>4, <2>7 DEF Inv, TableInv
<1>8. QED
  BY <1>6, <1>7

\* Pruning keeps the newest snapshot, so MAX(version) does not move.
LEMMA PruneStep ==
    ASSUME Inv, Prune
    PROVE  Inv'
<1>1. /\ snapshots' = [u \in Users |-> Kept(u)]
      /\ UNCHANGED <<alive, rowVersion, wraps, deleting, request, phase, read>>
      /\ Retention \in Nat \ {0}
  BY RetentionAssumption DEF Prune
<1>2. TypeOK /\ RowIsMaximum
  BY DEF Inv
<1>3. \A u \in Users : snapshots'[u] = Kept(u) /\ snapshots'[u] \subseteq snapshots[u]
  BY <1>1 DEF Kept
<1>4. TypeOK'
  BY <1>1, <1>2, <1>3 DEF TypeOK
<1>5. ASSUME NEW u \in Users, snapshots[u] # {}
      PROVE  \A s \in snapshots[u] :
                s \in snapshots'[u] <=> s.version + Retention > rowVersion[u]
  BY <1>2, <1>3, <1>5, NewestIsRow DEF Kept
<1>6. \A u \in Users : \A s \in snapshots[u] :
         s.version \in Nat /\ s.version <= rowVersion[u] /\ rowVersion[u] \in Nat
  BY <1>2 DEF TypeOK, RowIsMaximum, Snapshot
<1>7. \A u \in Users : snapshots[u] # {} =>
         \E s \in snapshots'[u] : s.version = rowVersion[u]
  BY <1>1, <1>2, <1>5, <1>6 DEF RowIsMaximum
<1>8. RowIsMaximum'
  BY <1>1, <1>3, <1>6, <1>7 DEF RowIsMaximum
<1>9. OneBlobPerVersion'
  BY <1>3 DEF Inv, OneBlobPerVersion
<1>10. VersionsContiguous'
  <2> SUFFICES ASSUME NEW u \in Users, NEW s \in snapshots'[u]
               PROVE  /\ s.version <= rowVersion[u]
                      /\ s.version .. rowVersion[u] \subseteq Versions(u)'
    BY <1>1 DEF VersionsContiguous
  <2>1. s \in snapshots[u] /\ s.version + Retention > rowVersion[u]
    BY <1>3, <1>5
  <2>2. ASSUME NEW v \in s.version .. rowVersion[u]
        PROVE  v \in Versions(u)'
    <3>1. v \in Versions(u)
      BY <2>1 DEF Inv, VersionsContiguous
    <3>2. PICK t \in snapshots[u] : t.version = v
      BY <3>1 DEF Versions
    <3>3. t \in snapshots'[u]
      BY <1>1, <1>5, <1>6, <2>1, <3>2
    <3>4. QED
      BY <3>2, <3>3 DEF Versions
  <2>3. QED
    BY <1>6, <2>1, <2>2
<1>11. \A u \in Users : Newest(u)' = Newest(u)
  <2> SUFFICES ASSUME NEW u \in Users PROVE Newest(u)' = Newest(u)
    OBVIOUS
  <2>1. CASE snapshots[u] = {}
    BY <2>1, <1>3 DEF Newest
  <2>2. CASE snapshots[u] # {}
    <3>1. snapshots'[u] # {} /\ rowVersion[u] \in Versions(u)'
      BY <1>7, <2>2 DEF Versions
    <3>2. \A v \in Versions(u)' : v \in Nat /\ v <= rowVersion[u]
      BY <1>3, <1>6 DEF Versions
    <3>3. \A v \in Versions(u)' : (\A w \in Versions(u)' : w <= v) => v = rowVersion[u]
      BY <1>6, <2>2, <3>1, <3>2
    <3>4. Newest(u)' = rowVersion[u]
      BY <3>1, <3>2, <3>3 DEF Newest
    <3>5. QED
      BY <1>2, <2>2, <3>4, NewestIsRow
  <2>3. QED
    BY <2>1, <2>2
<1>12. EmptyVault'
  BY <1>1, <1>3, <1>7 DEF Inv, EmptyVault
<1>13. \A r \in Requests : phase[r] # "idle" => request[r].user \in Users
  BY RequestFields DEF Inv, HasRequest
<1>14. /\ HasRequest' /\ LockExclusive' /\ HolderAlive' /\ KeysPhases'
       /\ LockProtectsCheck' /\ AnsweredIsDurable'
       /\ RowReadIsBehind' /\ TornReadIsBehind'
  BY <1>1, <1>11, <1>13
     DEF Inv, HasRequest, LockExclusive, HolderAlive, KeysPhases,
         LockProtectsCheck, AnsweredIsDurable, RowReadIsBehind, TornReadIsBehind
<1>15. QED
  BY <1>4, <1>8, <1>9, <1>10, <1>12, <1>14 DEF Inv

LEMMA DeleteUserStep ==
    ASSUME Inv, NEW u \in Users, DeleteUser(u)
    PROVE  Inv'
<1>1. UNCHANGED <<rows, request, phase, read>> /\ alive[u]
  BY DEF DeleteUser
<1>2. deleting' = [deleting EXCEPT ![u] = TRUE]
  BY DEF DeleteUser
<1>3. /\ TableInv'
      /\ \A w \in Users : Newest(w)' = Newest(w)
  BY <1>1, TablesUntouched
<1>4. TypeOK' /\ EmptyVault'
  BY <1>1, <1>2 DEF Inv, TypeOK, EmptyVault, rows
<1>5. \A r \in Requests : phase[r] # "idle" => request[r].user \in Users
  BY RequestFields DEF Inv, HasRequest
<1>6. /\ HasRequest' /\ LockExclusive' /\ HolderAlive' /\ KeysPhases'
      /\ LockProtectsCheck' /\ AnsweredIsDurable'
      /\ RowReadIsBehind' /\ TornReadIsBehind'
  BY <1>1, <1>3, <1>5
     DEF Inv, rows, HasRequest, LockExclusive, HolderAlive, KeysPhases,
         LockProtectsCheck, AnsweredIsDurable, RowReadIsBehind, TornReadIsBehind
<1>7. QED
  BY <1>3, <1>4, <1>6 DEF Inv, TableInv

LEMMA CascadeStep ==
    ASSUME Inv, NEW u \in Users, CascadeDelete(u)
    PROVE  Inv'
<1>1. /\ deleting[u]
      /\ ~ RowLocked(u)
      /\ alive' = [alive EXCEPT ![u] = FALSE]
      /\ rowVersion' = [rowVersion EXCEPT ![u] = 0]
      /\ wraps' = [wraps EXCEPT ![u] = NoWraps]
      /\ snapshots' = [snapshots EXCEPT ![u] = {}]
      /\ deleting' = [deleting EXCEPT ![u] = FALSE]
      /\ UNCHANGED <<request, phase, read>>
  BY DEF CascadeDelete
<1>2. TypeOK
  BY DEF Inv
<1>3. TypeOK'
  BY <1>1, <1>2 DEF TypeOK, WrapPair, NoWraps
<1>4. ~ alive'[u] /\ rowVersion'[u] = 0 /\ snapshots'[u] = {} /\ ~ deleting'[u]
  BY <1>1, <1>2 DEF TypeOK
<1>5. \A w \in Users : w # u =>
         /\ alive'[w] = alive[w] /\ rowVersion'[w] = rowVersion[w]
         /\ snapshots'[w] = snapshots[w] /\ deleting'[w] = deleting[w]
  BY <1>1, <1>2 DEF TypeOK
<1>6. \A w \in Users : w # u => Newest(w)' = Newest(w) /\ Versions(w)' = Versions(w)
  <2> SUFFICES ASSUME NEW w \in Users, w # u
               PROVE  Newest(w)' = Newest(w) /\ Versions(w)' = Versions(w)
    OBVIOUS
  <2>1. snapshots'[w] = snapshots[w]
    BY <1>5
  <2>2. QED
    BY <2>1 DEF Newest, Versions
<1>7. TableInv' /\ EmptyVault'
  BY <1>4, <1>5, <1>6
     DEF Inv, TableInv, RowIsMaximum, VersionsContiguous, OneBlobPerVersion, EmptyVault
<1>8. HasRequest' /\ LockExclusive' /\ KeysPhases'
  BY <1>1 DEF Inv, HasRequest, LockExclusive, KeysPhases
<1>9. \A r \in Requests : phase[r] # "idle" => request[r].user \in Users
  BY RequestFields DEF Inv, HasRequest
<1>10. \A r \in Requests : phase[r] \in Holding => request[r].user # u
  BY <1>1 DEF RowLocked
<1>11. HolderAlive' /\ LockProtectsCheck'
  BY <1>1, <1>5, <1>6, <1>9, <1>10
     DEF Inv, HolderAlive, LockProtectsCheck, Holding
<1>12. \A g \in Reads : read[g].at = "row" => read[g].user \in Users
  BY <1>2 DEF TypeOK, ReadState, NoRead
<1>13. RowReadIsBehind' /\ TornReadIsBehind'
  BY <1>1, <1>4, <1>5, <1>12 DEF Inv, RowReadIsBehind, TornReadIsBehind
<1>14. AnsweredIsDurable'
  BY <1>1, <1>4, <1>5, <1>6, <1>9 DEF Inv, AnsweredIsDurable
<1>15. QED
  BY <1>3, <1>7, <1>8, <1>11, <1>13, <1>14 DEF Inv, TableInv

LEMMA CrashStep ==
    ASSUME Inv, Crash
    PROVE  Inv'
<1>1. /\ phase' = [r \in Requests |-> Interrupted(phase[r])]
      /\ deleting' = [u \in Users |-> FALSE]
      /\ read' = [g \in Reads |->
                     IF read[g].at = "row"
                     THEN [at |-> "failed", user |-> read[g].user] ELSE read[g]]
      /\ UNCHANGED <<rows, request>>
  BY DEF Crash
<1>2. TypeOK
  BY DEF Inv
<1>3. \A r \in Requests :
         /\ phase'[r] \in Phases
         /\ phase'[r] \notin Uncommitted \cup {"committed"}
         /\ phase[r] = "idle" => phase'[r] = "idle"
         /\ phase'[r] \in {"ok", "unconfirmed"} =>
               phase[r] \in {"committed", "ok", "unconfirmed"}
  BY <1>1, <1>2 DEF TypeOK, Interrupted, Phases, Uncommitted, Holding
<1>4. read' \in [Reads -> ReadState]
  <2>1. \A g \in Reads : read[g].at = "row" =>
           [at |-> "failed", user |-> read[g].user] \in ReadState
    BY <1>2 DEF TypeOK, ReadState, NoRead
  <2>2. QED
    BY <1>1, <1>2, <2>1 DEF TypeOK
<1>5. TypeOK'
  BY <1>1, <1>2, <1>3, <1>4 DEF TypeOK, rows
<1>6. /\ TableInv'
      /\ \A w \in Users : Newest(w)' = Newest(w)
  BY <1>1, TablesUntouched
<1>7. EmptyVault'
  BY <1>1 DEF Inv, EmptyVault, rows
<1>8. \A r \in Requests : phase[r] # "idle" =>
         request[r] \in SnapshotRequest \cup WrapRequest /\ request[r].user \in Users
  BY RequestFields DEF Inv, HasRequest
<1>9. \A r \in Requests : phase'[r] # "idle" => phase[r] # "idle"
  BY <1>3
<1>10. /\ HasRequest' /\ LockExclusive' /\ HolderAlive' /\ KeysPhases'
       /\ LockProtectsCheck'
  BY <1>1, <1>3, <1>8, <1>9
     DEF HasRequest, LockExclusive, HolderAlive, KeysPhases, LockProtectsCheck,
         Uncommitted, Holding
<1>11. AnsweredIsDurable'
  BY <1>1, <1>3, <1>6, <1>8, <1>9 DEF Inv, AnsweredIsDurable, rows
<1>12. RowReadIsBehind' /\ TornReadIsBehind'
  <2>1. \A g \in Reads :
           /\ read'[g].at # "row"
           /\ read'[g].at = "done" => read'[g] = read[g]
    BY <1>1
  <2>2. QED
    BY <2>1 DEF Inv, RowReadIsBehind, TornReadIsBehind
<1>13. QED
  BY <1>5, <1>6, <1>7, <1>10, <1>11, <1>12 DEF Inv, TableInv

-----------------------------------------------------------------------------
(* The theorems *)

LEMMA InitInv == Init => Inv
<1> SUFFICES ASSUME Init PROVE Inv
  OBVIOUS
<1>1. TypeOK
  BY DEF Init, TypeOK, WrapPair, NoWraps, Phases, ReadState
<1>2. HasRequest /\ RowIsMaximum /\ EmptyVault /\ VersionsContiguous /\ OneBlobPerVersion
  BY DEF Init, HasRequest, RowIsMaximum, EmptyVault, VersionsContiguous, OneBlobPerVersion
<1>3. LockExclusive /\ HolderAlive /\ KeysPhases /\ LockProtectsCheck /\ AnsweredIsDurable
  BY DEF Init, LockExclusive, HolderAlive, KeysPhases, LockProtectsCheck,
         AnsweredIsDurable, Holding
<1>4. RowReadIsBehind /\ TornReadIsBehind
  BY DEF Init, RowReadIsBehind, TornReadIsBehind, NoRead
<1>5. QED
  BY <1>1, <1>2, <1>3, <1>4 DEF Inv

LEMMA NextInv == Inv /\ [Next]_vars => Inv'
<1> SUFFICES ASSUME Inv, [Next]_vars PROVE Inv'
  OBVIOUS
<1>1. ASSUME NEW r \in Requests, NEW q \in SnapshotRequest \cup WrapRequest, Arrive(r, q)
      PROVE  Inv'
  BY <1>1, ArriveStep
<1>2. ASSUME NEW r \in Requests, Handle(r) \/ Fail(r)
      PROVE  Inv'
  <2>1. CASE Commit(r)
    BY <2>1, CommitStep
  <2>2. CASE ~ Commit(r)
    BY <1>2, <2>2, HandleStep DEF Handle
  <2>3. QED
    BY <2>1, <2>2
<1>3. ASSUME NEW g \in Reads, ReadSnapshot(g) \/ \E u \in Users : ReadRow(g, u)
      PROVE  Inv'
  BY <1>3, ReadStep
<1>4. ASSUME NEW u \in Users, DeleteUser(u) \/ CascadeDelete(u)
      PROVE  Inv'
  BY <1>4, DeleteUserStep, CascadeStep
<1>5. CASE Prune
  BY <1>5, PruneStep
<1>6. CASE Crash
  BY <1>6, CrashStep
<1>7. CASE UNCHANGED vars
  <2>1. TableInv' /\ TypeOK' /\ HasRequest' /\ EmptyVault'
    BY <1>7, TablesUntouched
       DEF vars, rows, Inv, TypeOK, HasRequest, EmptyVault
  <2>2. LockExclusive' /\ HolderAlive' /\ KeysPhases' /\ RowReadIsBehind' /\ TornReadIsBehind'
    BY <1>7 DEF vars, rows, Inv, LockExclusive, HolderAlive, KeysPhases,
                RowReadIsBehind, TornReadIsBehind
  <2>3. LockProtectsCheck' /\ AnsweredIsDurable'
    BY <1>7 DEF vars, rows, Inv, LockProtectsCheck, AnsweredIsDurable, Newest, Versions
  <2>4. QED
    BY <2>1, <2>2, <2>3 DEF Inv, TableInv
<1>8. QED
  BY <1>1, <1>2, <1>3, <1>4, <1>5, <1>6, <1>7 DEF Next

LEMMA Invariance == Spec => []Inv
BY InitInv, NextInv, PTL DEF Spec

\* Tables and handlers keep their types in every behaviour.
THEOREM TypeCorrect == Spec => []TypeOK
BY Invariance, PTL DEF Inv

\* Versions of an account are consecutive, end at vaults.version and carry one
\* blob each: no interleaving of uploads, retention, deletion, failures and
\* crashes forks or tears the history (update_vault's row lock and check).
\* (The lock alone keeps the version check valid until the insert: the unique
\* index of migration 004 is only a second line of defence.)
THEOREM HistoryCorrect == Spec => []HistoryLinear
BY Invariance, PTL DEF Inv, HistoryLinear

\* get_vault's two statements may straddle an upload, but only in the harmless
\* direction: version at most that of the blob.
THEOREM TornReadSafe == Spec => []TornReadIsBehind
BY Invariance, PTL DEF Inv

\* Once committed, a version is never lost while the account exists.
THEOREM Durability == Spec => []AnsweredIsDurable
BY Invariance, PTL DEF Inv

\* run_cleanup_once removes only snapshots older than the account's own newest
\* Retention ones; nothing but it and the deletion of the account removes any.
THEOREM RetentionSafe == Spec => OnlyExpiredRemoved
<1> DEFINE Step == \A u \in Users : \A s \in snapshots[u] :
                      s \notin snapshots'[u] =>
                          \/ ~ alive'[u]
                          \/ /\ Retention > 0
                             /\ s.version + Retention <= Newest(u)
<1>1. Inv /\ [Next]_vars => [Step]_vars
  <2> SUFFICES ASSUME Inv, Next, NEW u \in Users, NEW s \in snapshots[u],
                      s \notin snapshots'[u], alive'[u]
               PROVE  Retention > 0 /\ s.version + Retention <= Newest(u)
    OBVIOUS
  <2>1. CASE Prune
    <3>1. s \notin Kept(u) /\ Retention > 0
      BY <2>1 DEF Prune
    <3>2. s.version \in Nat /\ Newest(u) \in Nat
      BY NewestType DEF Inv, TypeOK, Snapshot
    <3>3. QED
      BY <3>1, <3>2, RetentionAssumption DEF Kept
  <2>2. CASE \E w \in Users : CascadeDelete(w)
    BY <2>2 DEF CascadeDelete, Inv, TypeOK
  <2>3. CASE \E r \in Requests : Commit(r)
    BY <2>3 DEF Commit, Inv, TypeOK
  <2>4. CASE UNCHANGED snapshots
    BY <2>4
  <2>5. QED
    BY <2>1, <2>2, <2>3, <2>4
       DEF Next, Handle, rows, Arrive, LockRow, CheckVersion, WriteSnapshot, WriteWraps,
           Audit, BreakDeadlock, Fail, ReadRow, ReadSnapshot, DeleteUser, Crash
<1>2. QED
  BY <1>1, Invariance, PTL DEF Spec, OnlyExpiredRemoved

-----------------------------------------------------------------------------
(* VaultServer implements VaultRegister: the transactions, the row lock, the *)
(* retention job and the crashes of the real handlers amount to one atomic   *)
(* compare-and-set per upload, taken at its commit.                          *)

\* A step that leaves every account's newest snapshot and wraps alone.
Quiet == UNCHANGED registerBar

LEMMA RowsQuiet ==
    ASSUME UNCHANGED rows
    PROVE  Quiet
BY DEF Quiet, rows, registerBar, Newest, NewestSnapshot, Versions

\* One execution changes phase: only its own outcome can change.
LEMMA OutcomeStep ==
    ASSUME Inv, NEW r \in Requests, NEW p, Goto(r, p)
    PROVE  /\ outcomeBar' = [outcomeBar EXCEPT ![r] = Decided(p)]
           /\ outcomeBar[r] = Decided(phase[r])
BY DEF Inv, TypeOK, Goto, outcomeBar

LEMMA DecidedSame ==
    ASSUME Inv, NEW r \in Requests, NEW p, Goto(r, p),
           Decided(p) = Decided(phase[r]), Quiet, UNCHANGED request
    PROVE  UNCHANGED Register!vars
<1>1. outcomeBar' = [outcomeBar EXCEPT ![r] = outcomeBar[r]]
  BY OutcomeStep
<1>2. outcomeBar' = outcomeBar
  BY <1>1 DEF outcomeBar
<1>3. QED
  BY <1>2 DEF Register!vars, Quiet

\* The newest snapshot is the only one at the newest version.
LEMMA NewestUnique ==
    ASSUME Inv, NEW u \in Users, NEW s \in snapshots[u], s.version = rowVersion[u]
    PROVE  NewestSnapshot(u) = s /\ Newest(u) = rowVersion[u]
BY NewestIsRow, NewestSnapshotStored DEF Inv, OneBlobPerVersion

LEMMA InitRefines == Init => Register!Init
<1> SUFFICES ASSUME Init PROVE Register!Init
  OBVIOUS
<1>1. registerBar = [u \in Users |-> Register!Fresh]
  BY DEF Init, registerBar, Newest, NewestSnapshot, NoSnapshot, NoWraps,
         Register!Fresh, Register!NoWraps
<1>2. outcomeBar = [r \in Requests |-> "none"]
  BY DEF Init, outcomeBar, Decided
<1>3. request = [r \in Requests |-> Register!NoRequest]
  BY DEF Init, NoRequest, Register!NoRequest
<1>4. QED
  BY <1>1, <1>2, <1>3 DEF Register!Init

LEMMA ArriveRefines ==
    ASSUME Inv, NEW r \in Requests, NEW q \in SnapshotRequest \cup WrapRequest,
           Arrive(r, q)
    PROVE  Register!Next
<1>1. /\ phase[r] = "idle" /\ Goto(r, "waiting")
      /\ request' = [request EXCEPT ![r] = q] /\ UNCHANGED rows
  BY DEF Arrive
<1>2. /\ outcomeBar' = [outcomeBar EXCEPT ![r] = "pending"]
      /\ outcomeBar[r] = "none"
  BY <1>1, OutcomeStep DEF Decided, Uncommitted, Holding
<1>3. Quiet
  BY <1>1, RowsQuiet
<1>4. Register!Submit(r, q)
  BY <1>1, <1>2, <1>3 DEF Register!Submit, Quiet
<1>5. q \in Register!SnapshotRequest \cup Register!WrapRequest
  BY DEF SnapshotRequest, WrapRequest, WrapPair,
         Register!SnapshotRequest, Register!WrapRequest, Register!WrapPair
<1>6. QED
  BY <1>4, <1>5 DEF Register!Next

LEMMA LockRowRefines ==
    ASSUME Inv, NEW r \in Requests, LockRow(r)
    PROVE  [Register!Next]_Register!vars
<1>1. /\ phase[r] = "waiting" /\ UNCHANGED <<rows, request>>
      /\ Goto(r, IF alive[request[r].user] THEN "locked" ELSE "notfound")
  BY DEF LockRow
<1>2. Quiet
  BY <1>1, RowsQuiet
<1>3. CASE alive[request[r].user]
  <2>1. Goto(r, "locked") /\ Decided("locked") = Decided(phase[r])
    BY <1>1, <1>3 DEF Decided, Uncommitted, Holding
  <2>2. QED
    BY <1>1, <1>2, <2>1, DecidedSame
<1>4. CASE ~ alive[request[r].user]
  <2>1. /\ outcomeBar' = [outcomeBar EXCEPT ![r] = "notfound"]
        /\ outcomeBar[r] = "pending"
    BY <1>1, <1>4, OutcomeStep DEF Decided, Uncommitted, Holding
  <2>2. request[r].user \in Users
    BY <1>1, RequestFields DEF Inv, HasRequest
  <2>3. ~ registerBar[request[r].user].alive
    BY <1>4, <2>2 DEF registerBar
  <2>4. Register!Miss(r)
    BY <1>1, <1>2, <2>1, <2>3 DEF Register!Miss, Register!Decide, Quiet
  <2>5. QED
    BY <2>4 DEF Register!Next
<1>5. QED
  BY <1>3, <1>4

LEMMA CheckRefines ==
    ASSUME Inv, NEW r \in Requests, CheckVersion(r)
    PROVE  [Register!Next]_Register!vars
<1> DEFINE next == request[r].version = Newest(request[r].user) + 1
<1>1. /\ phase[r] = "locked" /\ UNCHANGED <<rows, request>>
      /\ request[r].kind = "put"
      /\ Goto(r, IF next THEN "checked" ELSE "conflict")
  BY DEF CheckVersion
<1>2. Quiet
  BY <1>1, RowsQuiet
<1>3. CASE next
  <2>1. Goto(r, "checked") /\ Decided("checked") = Decided(phase[r])
    BY <1>1, <1>3 DEF Decided, Uncommitted, Holding
  <2>2. QED
    BY <1>1, <1>2, <2>1, DecidedSame
<1>4. CASE ~ next
  <2>1. Goto(r, "conflict")
    BY <1>1, <1>4
  <2>2. /\ outcomeBar' = [outcomeBar EXCEPT ![r] = "conflict"]
        /\ outcomeBar[r] = "pending"
    BY <1>1, <2>1, OutcomeStep DEF Decided, Uncommitted, Holding
  <2>3. request[r].user \in Users /\ alive[request[r].user]
    BY <1>1, RequestFields DEF Inv, HasRequest, HolderAlive, Holding
  <2>4. /\ registerBar[request[r].user].alive
        /\ request[r].version # registerBar[request[r].user].version + 1
    BY <1>4, <2>3 DEF registerBar
  <2>5. Register!Refuse(r)
    BY <1>1, <1>2, <2>2, <2>4 DEF Register!Refuse, Register!Decide, Quiet
  <2>6. QED
    BY <2>5 DEF Register!Next
<1>5. QED
  BY <1>3, <1>4

LEMMA OverlaySame ==
    ASSUME NEW a, NEW b
    PROVE  Register!Overlay(a, b) = Overlay(a, b)
BY DEF Overlay, Register!Overlay

LEMMA CommitRefines ==
    ASSUME Inv, Inv', NEW r \in Requests, Commit(r)
    PROVE  Register!Next
<1>1. PICK q \in SnapshotRequest \cup WrapRequest, u \in Users :
         q = request[r] /\ u = request[r].user
  BY RequestFields DEF Commit, Inv, HasRequest
<1>2. /\ phase[r] = "written" /\ Goto(r, "committed")
      /\ wraps' = [wraps EXCEPT ![u] = Overlay(@, q.wraps)]
      /\ UNCHANGED <<alive, request>>
  BY <1>1 DEF Commit
<1>3. /\ outcomeBar' = [outcomeBar EXCEPT ![r] = "accepted"]
      /\ outcomeBar[r] = "pending"
  BY <1>2, OutcomeStep DEF Decided, Uncommitted, Holding
<1>4. alive[u]
  BY <1>1, <1>2 DEF Inv, HolderAlive, Holding
<1>5. /\ registerBar[u].alive /\ registerBar[u].wraps = wraps[u]
      /\ registerBar[u].version = Newest(u)
      /\ registerBar[u].blob = NewestSnapshot(u).blob
  BY <1>4 DEF registerBar
<1>6. wraps'[u] = Overlay(wraps[u], q.wraps) /\ \A w \in Users : w # u => wraps'[w] = wraps[w]
  BY <1>2 DEF Inv, TypeOK
<1>7. CASE q.kind = "put"
  <2>1. q.version \in Nat \ {0} /\ q.blob \in Blobs /\ q.version = Newest(u) + 1
    BY <1>1, <1>2, <1>7, RequestFields DEF Inv, LockProtectsCheck
  <2>2. /\ rowVersion' = [rowVersion EXCEPT ![u] = q.version]
        /\ snapshots' = [snapshots EXCEPT ![u] =
                            @ \cup {[version |-> q.version, blob |-> q.blob]}]
    BY <1>1, <1>7 DEF Commit
  <2>3. /\ \A w \in Users : w # u => snapshots'[w] = snapshots[w]
        /\ Newest(u)' = q.version
    BY <1>4, <2>1, <2>2, AppendSnapshot
  <2>4. PICK s : /\ s = [version |-> q.version, blob |-> q.blob]
                 /\ s \in snapshots'[u]
    BY <2>2 DEF Inv, TypeOK
  <2>5. \A t \in snapshots'[u] : t.version = q.version => t = s
    BY <2>4 DEF Inv, OneBlobPerVersion
  <2>6. NewestSnapshot(u)' = s
    BY <2>3, <2>4, <2>5 DEF NewestSnapshot
  <2>7. \A w \in Users : w # u => Newest(w)' = Newest(w) /\ NewestSnapshot(w)' = NewestSnapshot(w)
    <3> SUFFICES ASSUME NEW w \in Users, w # u
                 PROVE  Newest(w)' = Newest(w) /\ NewestSnapshot(w)' = NewestSnapshot(w)
      OBVIOUS
    <3>1. snapshots'[w] = snapshots[w]
      BY <2>3
    <3>2. Newest(w)' = Newest(w)
      BY <3>1 DEF Newest, Versions
    <3>3. QED
      BY <3>1, <3>2 DEF NewestSnapshot
  <2>8. registerBar' =
           [registerBar EXCEPT ![u] =
               [alive |-> TRUE, version |-> q.version, blob |-> q.blob,
                wraps |-> Overlay(wraps[u], q.wraps)]]
    <3>1. registerBar'[u] = [alive |-> TRUE, version |-> q.version, blob |-> q.blob,
                             wraps |-> Overlay(wraps[u], q.wraps)]
      <4>1. registerBar'[u] = [alive |-> alive'[u], version |-> Newest(u)',
                               blob |-> NewestSnapshot(u)'.blob, wraps |-> wraps'[u]]
        BY DEF registerBar
      <4>2. alive'[u] = TRUE
        BY <1>2, <1>4 DEF Inv, TypeOK
      <4>3. NewestSnapshot(u)'.blob = q.blob
        BY <2>4, <2>6
      <4>4. QED
        BY <1>6, <2>3, <4>1, <4>2, <4>3
    <3>2. \A w \in Users : w # u => registerBar'[w] = registerBar[w]
      BY <1>2, <1>6, <2>7 DEF registerBar
    <3>3. /\ registerBar' = [w \in Users |-> registerBar'[w]]
          /\ registerBar = [w \in Users |-> registerBar[w]]
      BY DEF registerBar
    <3>4. QED
      BY <3>1, <3>2, <3>3, Zenon
  <2>9. Register!Accept(r)
    BY <1>1, <1>2, <1>3, <1>5, <1>7, <2>1, <2>8, OverlaySame
       DEF Register!Accept, Register!Decide
  <2>10. QED
    BY <2>9 DEF Register!Next
<1>8. CASE q.kind = "keys"
  <2>1. UNCHANGED snapshots
    BY <1>1, <1>8 DEF Commit
  <2>2. \A w \in Users : Newest(w)' = Newest(w) /\ NewestSnapshot(w)' = NewestSnapshot(w)
    BY <2>1 DEF Newest, NewestSnapshot, Versions
  <2>3. registerBar' = [registerBar EXCEPT ![u].wraps = Overlay(wraps[u], q.wraps)]
    BY <1>2, <1>4, <1>6, <2>2 DEF registerBar
  <2>4. Register!Rewrap(r)
    BY <1>1, <1>2, <1>3, <1>5, <1>8, <2>3, OverlaySame
       DEF Register!Rewrap, Register!Decide
  <2>5. QED
    BY <2>4 DEF Register!Next
<1>9. QED
  BY <1>7, <1>8, RequestFields

-----------------------------------------------------------------------------
(* The steps the register does not see *)

LEMMA StutterRefines ==
    ASSUME Inv, NEW r \in Requests,
           WriteSnapshot(r) \/ WriteWraps(r) \/ Audit(r)
    PROVE  UNCHANGED Register!vars
<1>1. UNCHANGED <<rows, request>>
  BY DEF WriteSnapshot, WriteWraps, Audit
<1>2. Quiet
  BY <1>1, RowsQuiet
<1>3. PICK p : Goto(r, p) /\ Decided(p) = Decided(phase[r])
  BY DEF WriteSnapshot, WriteWraps, Audit, Decided, Uncommitted, Holding
<1>4. QED
  BY <1>1, <1>2, <1>3, DecidedSame

LEMMA FailRefines ==
    ASSUME Inv, NEW r \in Requests, Goto(r, Interrupted(phase[r])),
           phase[r] \in Uncommitted \cup {"committed"}, UNCHANGED <<rows, request>>
    PROVE  [Register!Next]_Register!vars
<1>1. Quiet
  BY RowsQuiet
<1>2. CASE phase[r] \in Uncommitted
  <2>1. Goto(r, "failed")
    BY <1>2 DEF Interrupted
  <2>2. /\ outcomeBar' = [outcomeBar EXCEPT ![r] = "failed"]
        /\ outcomeBar[r] = "pending"
    BY <1>2, <2>1, OutcomeStep DEF Decided, Uncommitted, Holding
  <2>3. outcomeBar' = [t \in Requests |-> IF t \in {r} THEN "failed" ELSE outcomeBar[t]]
    BY <2>2 DEF outcomeBar
  <2>4. Register!Drop({r})
    BY <1>1, <2>2, <2>3 DEF Register!Drop, Quiet
  <2>5. QED
    BY <2>4 DEF Register!Next
<1>3. CASE phase[r] = "committed"
  <2>1. Goto(r, "unconfirmed") /\ Decided("unconfirmed") = Decided(phase[r])
    BY <1>3 DEF Interrupted, Decided, Uncommitted, Holding
  <2>2. QED
    BY <1>1, <2>1, DecidedSame
<1>4. QED
  BY <1>2, <1>3

LEMMA BreakDeadlockRefines ==
    ASSUME Inv, NEW r \in Requests, BreakDeadlock(r)
    PROVE  [Register!Next]_Register!vars
<1>1. phase[r] = "checked" /\ UNCHANGED <<rows, request>>
  BY DEF BreakDeadlock
<1>2. CASE Goto(r, "failed")
  BY <1>1, <1>2, FailRefines DEF Interrupted, Uncommitted, Holding
<1>3. CASE Goto(r, "written")
  <2>1. Decided("written") = Decided(phase[r])
    BY <1>1 DEF Decided, Uncommitted, Holding
  <2>2. QED
    BY <1>1, <1>3, <2>1, RowsQuiet, DecidedSame
<1>4. QED
  BY <1>2, <1>3 DEF BreakDeadlock

\* A crash fails every undecided request at once and decides nothing else.
LEMMA CrashRefines ==
    ASSUME Inv, Crash
    PROVE  Register!Next
<1>1. PICK R : R = {r \in Requests : phase[r] \in Uncommitted}
  OBVIOUS
<1>2. /\ UNCHANGED <<rows, request>>
      /\ phase' = [r \in Requests |-> Interrupted(phase[r])]
  BY DEF Crash
<1>3. \A r \in R : outcomeBar[r] = "pending"
  BY <1>1 DEF outcomeBar, Decided, Uncommitted, Holding
<1>4. outcomeBar' = [r \in Requests |-> IF r \in R THEN "failed" ELSE outcomeBar[r]]
  <2>1. \A r \in Requests :
           Decided(Interrupted(phase[r])) =
               IF r \in R THEN "failed" ELSE Decided(phase[r])
    BY <1>1 DEF Decided, Interrupted, Uncommitted, Holding
  <2>2. QED
    BY <1>2, <2>1 DEF outcomeBar
<1>5. Register!Drop(R)
  BY <1>2, <1>3, <1>4, RowsQuiet DEF Register!Drop, Quiet
<1>6. R \in SUBSET Requests
  BY <1>1
<1>7. QED
  BY <1>5, <1>6 DEF Register!Next

LEMMA ReadRefines ==
    ASSUME Inv, NEW g \in Reads,
           ReadSnapshot(g) \/ \E u \in Users : ReadRow(g, u)
    PROVE  UNCHANGED Register!vars
<1>1. UNCHANGED <<rows, request, phase>>
  BY DEF ReadRow, ReadSnapshot
<1>2. QED
  BY <1>1, RowsQuiet DEF Register!vars, Quiet, outcomeBar

\* Pruning keeps the newest snapshot, the only one the register knows.
LEMMA PruneRefines ==
    ASSUME Inv, Inv', Prune
    PROVE  UNCHANGED Register!vars
<1>1. /\ snapshots' = [u \in Users |-> Kept(u)]
      /\ UNCHANGED <<alive, rowVersion, wraps, request, phase>>
      /\ Retention \in Nat \ {0}
  BY RetentionAssumption DEF Prune
<1>2. ASSUME NEW u \in Users
      PROVE  Newest(u)' = Newest(u) /\ NewestSnapshot(u)' = NewestSnapshot(u)
  <2>1. snapshots'[u] = Kept(u)
    BY <1>1
  <2>2. CASE snapshots[u] = {}
    BY <2>1, <2>2 DEF Kept, Newest, NewestSnapshot
  <2>3. CASE snapshots[u] # {}
    <3>1. PICK s \in snapshots[u] : s.version = rowVersion[u]
      BY <2>3 DEF Inv, RowIsMaximum
    <3>2. rowVersion[u] \in Nat
      BY DEF Inv, TypeOK
    <3>3. s = NewestSnapshot(u) /\ Newest(u) = rowVersion[u]
      BY <3>1, NewestUnique
    <3>4. s \in snapshots'[u]
      BY <1>1, <2>1, <3>1, <3>2, <3>3 DEF Kept
    <3>5. Newest(u)' = rowVersion[u]
      <4>1. rowVersion[u] \in Versions(u)'
        BY <3>1, <3>4 DEF Versions
      <4>2. \A v \in Versions(u)' : v \in Nat /\ v <= rowVersion[u]
        BY <1>1 DEF Inv, TypeOK, Snapshot, VersionsContiguous, Versions
      <4>3. \A v \in Versions(u)' :
               (\A w \in Versions(u)' : w <= v) => v = rowVersion[u]
        BY <3>2, <4>1, <4>2
      <4>4. QED
        BY <3>4, <4>1, <4>2, <4>3 DEF Newest
    <3>6. \A t \in snapshots'[u] : t.version = rowVersion[u] => t = s
      BY <3>1, <3>4 DEF Inv, OneBlobPerVersion
    <3>7. NewestSnapshot(u)' = s
      BY <3>1, <3>4, <3>5, <3>6 DEF NewestSnapshot
    <3>8. QED
      BY <3>3, <3>5, <3>7
  <2>4. QED
    BY <2>2, <2>3
<1>3. Quiet
  BY <1>1, <1>2 DEF Quiet, registerBar
<1>4. QED
  BY <1>1, <1>3 DEF Register!vars, Quiet, outcomeBar

LEMMA DeletionRefines ==
    ASSUME Inv, NEW u \in Users, DeleteUser(u) \/ CascadeDelete(u)
    PROVE  [Register!Next]_Register!vars
<1>1. CASE DeleteUser(u)
  <2>1. UNCHANGED <<rows, request, phase>>
    BY <1>1 DEF DeleteUser
  <2>2. QED
    BY <2>1, RowsQuiet DEF Register!vars, Quiet, outcomeBar
<1>2. CASE CascadeDelete(u)
  <2>1. /\ deleting[u]
        /\ alive' = [alive EXCEPT ![u] = FALSE]
        /\ wraps' = [wraps EXCEPT ![u] = NoWraps]
        /\ snapshots' = [snapshots EXCEPT ![u] = {}]
        /\ UNCHANGED <<request, phase>>
    BY <1>2 DEF CascadeDelete
  <2>2. registerBar[u].alive
    BY <2>1 DEF Inv, EmptyVault, registerBar
  <2>3. registerBar'[u] = Register!Gone
    <3>1. /\ alive'[u] = FALSE /\ wraps'[u] = NoWraps
          /\ Newest(u)' = 0 /\ NewestSnapshot(u)' = NoSnapshot
      <4>1. snapshots'[u] = {} /\ alive'[u] = FALSE /\ wraps'[u] = NoWraps
        BY <2>1 DEF Inv, TypeOK
      <4>2. QED
        BY <4>1 DEF Newest, NewestSnapshot
    <3>2. registerBar'[u] = [alive |-> alive'[u], version |-> Newest(u)',
                             blob |-> NewestSnapshot(u)'.blob, wraps |-> wraps'[u]]
      BY DEF registerBar
    <3>3. NewestSnapshot(u)'.blob = NoBlob
      BY <3>1 DEF NoSnapshot
    <3>4. Register!Gone = [alive |-> FALSE, version |-> 0, blob |-> NoBlob,
                           wraps |-> NoWraps]
      BY DEF NoWraps, Register!Gone, Register!NoWraps
    <3>5. QED
      BY <3>1, <3>2, <3>3, <3>4
  <2>4. ASSUME NEW w \in Users, w # u
        PROVE  registerBar'[w] = registerBar[w]
    <3>1. alive'[w] = alive[w] /\ wraps'[w] = wraps[w] /\ snapshots'[w] = snapshots[w]
      BY <2>1, <2>4 DEF Inv, TypeOK
    <3>2. Newest(w)' = Newest(w)
      BY <3>1 DEF Newest, Versions
    <3>3. NewestSnapshot(w)' = NewestSnapshot(w)
      BY <3>1, <3>2 DEF NewestSnapshot
    <3>4. QED
      BY <3>1, <3>2, <3>3 DEF registerBar
  <2>5. registerBar' = [registerBar EXCEPT ![u] = Register!Gone]
    <3>1. /\ registerBar' = [w \in Users |-> registerBar'[w]]
          /\ registerBar = [w \in Users |-> registerBar[w]]
      BY DEF registerBar
    <3>2. QED
      BY <2>3, <2>4, <3>1, Zenon
  <2>6. Register!Delete(u)
    BY <2>1, <2>2, <2>5 DEF Register!Delete, outcomeBar
  <2>7. QED
    BY <2>6 DEF Register!Next
<1>3. QED
  BY <1>1, <1>2

LEMMA NextRefines ==
    Inv /\ Inv' /\ [Next]_vars => [Register!Next]_Register!vars
<1> SUFFICES ASSUME Inv, Inv', [Next]_vars
             PROVE  [Register!Next]_Register!vars
  OBVIOUS
<1>1. CASE \E r \in Requests, q \in SnapshotRequest \cup WrapRequest : Arrive(r, q)
  BY <1>1, ArriveRefines
<1>2. ASSUME NEW r \in Requests, Handle(r) PROVE [Register!Next]_Register!vars
  BY <1>2, LockRowRefines, CheckRefines, CommitRefines, StutterRefines,
     BreakDeadlockRefines DEF Handle
<1>3. ASSUME NEW r \in Requests, Fail(r) PROVE [Register!Next]_Register!vars
  BY <1>3, FailRefines DEF Fail
<1>4. CASE \E g \in Reads : ReadSnapshot(g) \/ \E u \in Users : ReadRow(g, u)
  BY <1>4, ReadRefines
<1>5. CASE \E u \in Users : DeleteUser(u) \/ CascadeDelete(u)
  BY <1>5, DeletionRefines
<1>6. CASE Prune
  BY <1>6, PruneRefines
<1>7. CASE Crash
  BY <1>7, CrashRefines
<1>8. CASE UNCHANGED vars
  <2>1. UNCHANGED <<rows, request, phase>>
    BY <1>8 DEF vars, rows
  <2>2. QED
    BY <2>1, RowsQuiet DEF Register!vars, Quiet, outcomeBar
<1>9. QED
  BY <1>1, <1>2, <1>3, <1>4, <1>5, <1>6, <1>7, <1>8 DEF Next

\* Whatever interleaving, failure, crash, retention run or deletion occurs,
\* the vault routes behave as one atomic compare-and-set register per account.
THEOREM Refinement == Spec => ImplementsRegister
<1>1. Spec => []Inv
  BY Invariance
<1>2. QED
  BY <1>1, InitRefines, NextRefines, PTL DEF Spec, ImplementsRegister, Register!Spec

=============================================================================
