---------------------------- MODULE VaultServer ----------------------------
(***************************************************************************)
(* The vault routes of the API (crates/api/src/routes/vault.rs) against    *)
(* PostgreSQL under READ COMMITTED, with the two activities that touch the *)
(* same rows: the retention job (maintenance.rs) and the account deletion  *)
(* (account.rs).  A PUT handler is one transaction whose statements        *)
(* interleave with those of other executions; GET issues two statements    *)
(* outside any transaction.  A crash of the API rolls back what had not    *)
(* committed and loses the answer of what had.                             *)
(***************************************************************************)
EXTENDS Naturals, FiniteSets

CONSTANTS
    Users,      \* accounts
    Requests,   \* executions of PUT /vault and PUT /vault/keys
    Reads,      \* executions of GET /vault
    Blobs,      \* encrypted snapshots
    Wraps,      \* wrapped vault keys
    NoBlob,     \* stands for "no snapshot stored"
    NoWrap,     \* NULL wrap column, or a wrap field absent from a request
    Retention,  \* SNAPSHOT_RETENTION_COUNT; 0 keeps every snapshot
    MaxVersion  \* bound on the versions clients ask for

ASSUME RetentionAssumption == Retention \in Nat
ASSUME MaxVersionAssumption == MaxVersion \in Nat
ASSUME NoBlobAssumption == NoBlob \notin Blobs
ASSUME NoWrapAssumption == NoWrap \notin Wraps

VARIABLES
    alive,      \* alive[u]: the users row and its vaults row exist
    rowVersion, \* rowVersion[u]: vaults.version
    wraps,      \* wraps[u]: the kek_wrap_* and recovery_wrap_* columns
    snapshots,  \* snapshots[u]: committed rows of vault_snapshots
    deleting,   \* deleting[u]: DELETE FROM users holds the users row lock
    request,    \* request[r]: what a PUT execution was asked
    phase,      \* phase[r]: how far it got
    read        \* read[g]: progress of a GET execution

vars == <<alive, rowVersion, wraps, snapshots, deleting, request, phase, read>>

rows == <<alive, rowVersion, wraps, snapshots>>

WrapPair == [kek : Wraps \cup {NoWrap}, recovery : Wraps \cup {NoWrap}]

NoWraps == [kek |-> NoWrap, recovery |-> NoWrap]

Snapshot == [version : Nat \ {0}, blob : Blobs]

NoSnapshot == [version |-> 0, blob |-> NoBlob]

NoRequest == [kind |-> "none"]

SnapshotRequest ==
    [kind : {"put"}, user : Users, version : 1 .. MaxVersion,
     blob : Blobs, wraps : WrapPair]

WrapRequest == {q \in [kind : {"keys"}, user : Users, wraps : WrapPair] :
                    q.wraps # NoWraps}

\* Phases in which the transaction holds the FOR UPDATE lock on the vaults row.
Holding == {"locked", "checked", "written"}

Uncommitted == {"waiting"} \cup Holding

Phases == {"idle"} \cup Uncommitted
          \cup {"committed", "ok", "conflict", "notfound", "failed", "unconfirmed"}

NoRead == [at |-> "idle"]

ReadState ==
    {NoRead}
    \cup [at : {"notfound", "failed"}, user : Users]
    \cup [at : {"row"}, user : Users, version : Nat, wraps : WrapPair]
    \cup [at : {"done"}, user : Users, version : Nat, wraps : WrapPair,
          snapshot : Snapshot \cup {NoSnapshot}]

TypeOK ==
    /\ alive \in [Users -> BOOLEAN]
    /\ rowVersion \in [Users -> Nat]
    /\ wraps \in [Users -> WrapPair]
    /\ snapshots \in [Users -> SUBSET Snapshot]
    /\ deleting \in [Users -> BOOLEAN]
    /\ request \in [Requests -> {NoRequest} \cup SnapshotRequest \cup WrapRequest]
    /\ phase \in [Requests -> Phases]
    /\ read \in [Reads -> ReadState]

-----------------------------------------------------------------------------
(* Helpers *)

Versions(u) == {s.version : s \in snapshots[u]}

\* SELECT MAX(version) ... unwrap_or(0)
Newest(u) ==
    IF snapshots[u] = {} THEN 0
    ELSE CHOOSE v \in Versions(u) : \A w \in Versions(u) : w <= v

\* Defect: ORDER BY version without DESC.
OldestSnapshot(u) ==
    IF snapshots[u] = {} THEN NoSnapshot
    ELSE CHOOSE s \in snapshots[u] : \A t \in snapshots[u] : s.version <= t.version

\* Defect: an empty history is answered with the row's version.
NewestOrRow(u) ==
    IF snapshots[u] = {} THEN [version |-> rowVersion[u], blob |-> NoBlob]
    ELSE CHOOSE s \in snapshots[u] : s.version = Newest(u)

\* ORDER BY version DESC LIMIT 1
NewestSnapshot(u) ==
    IF snapshots[u] = {} THEN NoSnapshot
    ELSE CHOOSE s \in snapshots[u] : s.version = Newest(u)

\* Defect: the SELECT has no FOR UPDATE.
NoRowLock(u) == FALSE

\* Some transaction holds the account's vaults row FOR UPDATE.
RowLocked(u) == \E r \in Requests : phase[r] \in Holding /\ request[r].user = u

\* An uncommitted snapshot insert holds FOR KEY SHARE on the users row.
UserShared(u) ==
    \E r \in Requests :
        /\ phase[r] = "written"
        /\ request[r].kind = "put"
        /\ request[r].user = u

\* Defect: an absent wrap clears the stored column.
Replace(old, new) == new

\* An absent wrap leaves the stored column alone.
Overlay(old, new) ==
    [kek      |-> IF new.kek = NoWrap THEN old.kek ELSE new.kek,
     recovery |-> IF new.recovery = NoWrap THEN old.recovery ELSE new.recovery]

-----------------------------------------------------------------------------
(* A register handler leaves vaults.version = 1 and no snapshot. *)

Init ==
    /\ alive = [u \in Users |-> TRUE]
    /\ rowVersion = [u \in Users |-> 1]
    /\ wraps = [u \in Users |-> NoWraps]
    /\ snapshots = [u \in Users |-> {}]
    /\ deleting = [u \in Users |-> FALSE]
    /\ request = [r \in Requests |-> NoRequest]
    /\ phase = [r \in Requests |-> "idle"]
    /\ read = [g \in Reads |-> NoRead]

Goto(r, p) == phase' = [phase EXCEPT ![r] = p]

\* A well-formed request of a live session enters its handler.
Arrive(r, q) ==
    /\ phase[r] = "idle"
    /\ alive[q.user]
    /\ request' = [request EXCEPT ![r] = q]
    /\ Goto(r, "waiting")
    /\ UNCHANGED <<rows, deleting, read>>

\* SELECT version FROM vaults ... FOR UPDATE returns once no other
\* transaction holds the row; no row is 404 and ends the transaction.
LockRow(r) ==
    /\ phase[r] = "waiting"
    /\ ~ RowLocked(request[r].user)
    /\ Goto(r, IF alive[request[r].user] THEN "locked" ELSE "notfound")
    /\ UNCHANGED <<rows, deleting, request, read>>

\* Defect: any newer version is accepted.
CheckNewer(r) ==
    /\ phase[r] = "locked"
    /\ request[r].kind = "put"
    /\ Goto(r, IF request[r].version > Newest(request[r].user)
               THEN "checked" ELSE "conflict")
    /\ UNCHANGED <<rows, deleting, request, read>>

\* Defect: a conflicting request is never answered.
CheckOrHang(r) ==
    /\ phase[r] = "locked"
    /\ request[r].kind = "put"
    /\ request[r].version = Newest(request[r].user) + 1
    /\ Goto(r, "checked")
    /\ UNCHANGED <<rows, deleting, request, read>>

CheckVersion(r) ==
    /\ phase[r] = "locked"
    /\ request[r].kind = "put"
    /\ Goto(r, IF request[r].version = Newest(request[r].user) + 1
               THEN "checked" ELSE "conflict")
    /\ UNCHANGED <<rows, deleting, request, read>>

\* UPDATE vaults, INSERT INTO vault_snapshots, wraps: the foreign key waits
\* for a deletion of the users row, the unique index forbids a used version.
WriteSnapshot(r) ==
    /\ phase[r] = "checked"
    /\ ~ deleting[request[r].user]
    /\ request[r].version \notin Versions(request[r].user)
    /\ Goto(r, "written")
    /\ UNCHANGED <<rows, deleting, request, read>>

WriteWraps(r) ==
    /\ phase[r] = "locked"
    /\ request[r].kind = "keys"
    /\ Goto(r, "written")
    /\ UNCHANGED <<rows, deleting, request, read>>

\* The whole transaction becomes visible and its locks are released.
Commit(r) ==
    LET q == request[r]  u == q.user IN
    /\ phase[r] = "written"
    /\ wraps' = [wraps EXCEPT ![u] = Overlay(@, q.wraps)]
    /\ IF q.kind = "put"
       THEN /\ rowVersion' = [rowVersion EXCEPT ![u] = q.version]
            /\ snapshots' = [snapshots EXCEPT ![u] =
                                @ \cup {[version |-> q.version, blob |-> q.blob]}]
       ELSE UNCHANGED <<rowVersion, snapshots>>
    /\ Goto(r, "committed")
    /\ UNCHANGED <<alive, deleting, request, read>>

\* The audit row is inserted after the commit, on its own; its foreign key
\* waits for a deletion and fails (500) when the account is gone.
Audit(r) ==
    /\ phase[r] = "committed"
    /\ ~ deleting[request[r].user]
    /\ Goto(r, IF alive[request[r].user] THEN "ok" ELSE "unconfirmed")
    /\ UNCHANGED <<rows, deleting, request, read>>

Interrupted(p) ==
    IF p \in Uncommitted THEN "failed"
    ELSE IF p = "committed" THEN "unconfirmed" ELSE p

\* A statement fails (database error, malformed wrap): `?` returns early and
\* the transaction, if still open, is dropped.
Fail(r) ==
    /\ phase[r] \in Uncommitted \cup {"committed"}
    /\ Goto(r, Interrupted(phase[r]))
    /\ UNCHANGED <<rows, deleting, request, read>>

-----------------------------------------------------------------------------
(* GET /vault: two statements, each on its own view of the database. *)

ReadRow(g, u) ==
    /\ read[g] = NoRead
    /\ read' = [read EXCEPT ![g] =
                   IF alive[u]
                   THEN [at |-> "row", user |-> u, version |-> rowVersion[u],
                         wraps |-> wraps[u]]
                   ELSE [at |-> "notfound", user |-> u]]
    /\ UNCHANGED <<rows, deleting, request, phase>>

ReadSnapshot(g) ==
    /\ read[g].at = "row"
    /\ read' = [read EXCEPT ![g] =
                   [at |-> "done", user |-> @.user, version |-> @.version,
                    wraps |-> @.wraps, snapshot |-> NewestSnapshot(@.user)]]
    /\ UNCHANGED <<rows, deleting, request, phase>>

-----------------------------------------------------------------------------
(* Retention job and account deletion *)

\* Defect: the cutoff is off by one.
KeptFewer(u) == {s \in snapshots[u] : s.version + Retention > Newest(u) + 1}

\* Defect: the subquery is not correlated to the account.
KeptGlobally(u) ==
    {s \in snapshots[u] : \A w \in Users : s.version + Retention > Newest(w)}

Kept(u) == {s \in snapshots[u] : s.version + Retention > Newest(u)}

Prune ==
    /\ Retention > 0
    /\ snapshots' = [u \in Users |-> Kept(u)]
    /\ UNCHANGED <<alive, rowVersion, wraps, deleting, request, phase, read>>

\* DELETE FROM users locks the users row first ...
DeleteUser(u) ==
    /\ alive[u]
    /\ ~ deleting[u]
    /\ ~ UserShared(u)
    /\ deleting' = [deleting EXCEPT ![u] = TRUE]
    /\ UNCHANGED <<rows, request, phase, read>>

\* ... and its cascade then needs the vaults row, which a PUT may hold.
CascadeDelete(u) ==
    /\ deleting[u]
    /\ ~ RowLocked(u)
    /\ alive' = [alive EXCEPT ![u] = FALSE]
    /\ rowVersion' = [rowVersion EXCEPT ![u] = 0]
    /\ wraps' = [wraps EXCEPT ![u] = NoWraps]
    /\ snapshots' = [snapshots EXCEPT ![u] = {}]
    /\ deleting' = [deleting EXCEPT ![u] = FALSE]
    /\ UNCHANGED <<request, phase, read>>

\* A PUT holding the vaults row waits for the users row while the deletion
\* holds it and waits for the vaults row: PostgreSQL aborts one of the two.
\* When the deletion is the victim, the waiting insert gets the lock at once.
BreakDeadlock(r) ==
    LET u == request[r].user IN
    /\ phase[r] = "checked"
    /\ deleting[u]
    /\ \/ /\ Goto(r, "failed")
          /\ UNCHANGED deleting
       \/ /\ Goto(r, "written")
          /\ deleting' = [deleting EXCEPT ![u] = FALSE]
    /\ UNCHANGED <<rows, request, read>>

Crash ==
    /\ phase' = [r \in Requests |-> Interrupted(phase[r])]
    /\ deleting' = [u \in Users |-> FALSE]
    /\ read' = [g \in Reads |->
                   IF read[g].at = "row"
                   THEN [at |-> "failed", user |-> read[g].user] ELSE read[g]]
    /\ UNCHANGED <<rows, request>>

-----------------------------------------------------------------------------

Handle(r) ==
    \/ LockRow(r) \/ CheckVersion(r) \/ WriteSnapshot(r) \/ WriteWraps(r)
    \/ Commit(r) \/ Audit(r) \/ BreakDeadlock(r)

Next ==
    \/ \E r \in Requests, q \in SnapshotRequest \cup WrapRequest : Arrive(r, q)
    \/ \E r \in Requests : Handle(r) \/ Fail(r)
    \/ \E g \in Reads, u \in Users : ReadRow(g, u)
    \/ \E g \in Reads : ReadSnapshot(g)
    \/ \E u \in Users : DeleteUser(u) \/ CascadeDelete(u)
    \/ Prune
    \/ Crash

Spec == Init /\ [][Next]_vars

\* A running handler keeps executing its statements, and a deletion's cascade
\* runs as soon as the row is free; requests, failures and jobs are not forced.
Fairness ==
    /\ \A r \in Requests : WF_vars(Handle(r))
    /\ \A u \in Users : WF_vars(CascadeDelete(u))

FairSpec == Spec /\ Fairness

-----------------------------------------------------------------------------
(* Properties *)

\* The versions still stored are consecutive and end at vaults.version: no
\* upload skips, repeats or reorders a version, whatever the retention job,
\* failures and crashes do in between.
VersionsContiguous ==
    \A u \in Users : \A s \in snapshots[u] :
        /\ s.version <= rowVersion[u]
        /\ s.version .. rowVersion[u] \subseteq Versions(u)

\* One blob per version: two devices pushing the same version never both
\* land it (the comment on the FOR UPDATE lock).
OneBlobPerVersion ==
    \A u \in Users : \A s, t \in snapshots[u] : s.version = t.version => s = t

\* The row lock alone keeps the version check valid until the insert: the
\* unique index of migration 004 never has to refuse one.
LockProtectsCheck ==
    \A r \in Requests :
        phase[r] \in {"checked", "written"} /\ request[r].kind = "put" =>
            /\ alive[request[r].user]
            /\ request[r].version = Newest(request[r].user) + 1

\* The history of an account is linear for all the races of its uploads, and
\* the row lock is what makes it so.
HistoryLinear == VersionsContiguous /\ OneBlobPerVersion /\ LockProtectsCheck

\* A GET torn by a concurrent upload pairs an older version with a newer
\* blob, never a newer version with an older blob: the client's next upload
\* is then refused, and overwrites nothing.
TornReadIsBehind ==
    \A g \in Reads :
        read[g].at = "done" /\ read[g].snapshot # NoSnapshot =>
            read[g].version <= read[g].snapshot.version

\* A version answered 200 is never lost or rolled back: while the account
\* exists the newest stored snapshot is at least that version.
AnsweredIsDurable ==
    \A r \in Requests :
        phase[r] \in {"committed", "ok", "unconfirmed"} /\ request[r].kind = "put" =>
            \/ ~ alive[request[r].user]
            \/ Newest(request[r].user) >= request[r].version

\* The retention job and other accounts never remove a snapshot among the
\* account's own newest Retention ones; only its deletion does.
OnlyExpiredRemoved ==
    [][\A u \in Users : \A s \in snapshots[u] :
          s \notin snapshots'[u] =>
              \/ ~ alive'[u]
              \/ /\ Retention > 0
                 /\ s.version + Retention <= Newest(u)]_vars

\* Every request that enters a handler is answered, by a lock queue that
\* drains and a deadlock with a deletion that the database breaks.
EveryRequestAnswered ==
    \A r \in Requests :
        phase[r] \in Uncommitted \cup {"committed"}
            ~> phase[r] \notin Uncommitted \cup {"committed"}

\* The handlers implement the compare-and-set register of VaultRegister.
Decided(p) ==
    IF p = "idle" THEN "none"
    ELSE IF p \in Uncommitted THEN "pending"
    ELSE IF p \in {"committed", "ok", "unconfirmed"} THEN "accepted"
    ELSE p

registerBar ==
    [u \in Users |-> [alive |-> alive[u], version |-> Newest(u),
                      blob |-> NewestSnapshot(u).blob, wraps |-> wraps[u]]]

outcomeBar == [r \in Requests |-> Decided(phase[r])]

Register == INSTANCE VaultRegister
            WITH register <- registerBar, outcome <- outcomeBar

ImplementsRegister == Register!Spec

=============================================================================
