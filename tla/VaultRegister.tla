--------------------------- MODULE VaultRegister ---------------------------
(***************************************************************************)
(* What `PUT /api/v1/vault` and `PUT /api/v1/vault/keys` promise, with     *)
(* no transactions, locks or retention: every account owns one register    *)
(* holding the newest encrypted snapshot, its version and the two key      *)
(* wraps.  A snapshot request is decided once, at one instant: accepted    *)
(* exactly when its version is one past the register's, refused as a       *)
(* conflict exactly when it is not.  VaultServer implements this.          *)
(***************************************************************************)
EXTENDS Naturals

CONSTANTS
    Users,      \* accounts
    Requests,   \* executions of the two PUT handlers
    Blobs,      \* encrypted snapshots
    Wraps,      \* wrapped vault keys
    NoBlob,     \* no snapshot stored yet
    NoWrap,     \* NULL wrap column, or a wrap field absent from a request
    MaxVersion  \* bound on the versions a client asks for

VARIABLES
    register,   \* register[u]: the account's newest snapshot and wraps
    request,    \* request[r]: what execution r was asked to do
    outcome     \* outcome[r]: how it was decided

vars == <<register, request, outcome>>

WrapPair == [kek : Wraps \cup {NoWrap}, recovery : Wraps \cup {NoWrap}]

NoWraps == [kek |-> NoWrap, recovery |-> NoWrap]

Fresh == [alive |-> TRUE, version |-> 0, blob |-> NoBlob, wraps |-> NoWraps]

Gone == [alive |-> FALSE, version |-> 0, blob |-> NoBlob, wraps |-> NoWraps]

NoRequest == [kind |-> "none"]

SnapshotRequest ==
    [kind : {"put"}, user : Users, version : 1 .. MaxVersion,
     blob : Blobs, wraps : WrapPair]

WrapRequest == [kind : {"keys"}, user : Users, wraps : WrapPair]

\* An absent wrap leaves the stored column alone.
Overlay(old, new) ==
    [kek      |-> IF new.kek = NoWrap THEN old.kek ELSE new.kek,
     recovery |-> IF new.recovery = NoWrap THEN old.recovery ELSE new.recovery]

-----------------------------------------------------------------------------

Init ==
    /\ register = [u \in Users |-> Fresh]
    /\ request = [r \in Requests |-> NoRequest]
    /\ outcome = [r \in Requests |-> "none"]

Submit(r, q) ==
    /\ outcome[r] = "none"
    /\ request' = [request EXCEPT ![r] = q]
    /\ outcome' = [outcome EXCEPT ![r] = "pending"]
    /\ UNCHANGED register

Decide(r, result) ==
    /\ outcome[r] = "pending"
    /\ outcome' = [outcome EXCEPT ![r] = result]
    /\ UNCHANGED request

Accept(r) ==
    LET q == request[r] IN
    /\ Decide(r, "accepted")
    /\ q.kind = "put"
    /\ register[q.user].alive
    /\ q.version = register[q.user].version + 1
    /\ register' = [register EXCEPT ![q.user] =
                       [alive |-> TRUE, version |-> q.version, blob |-> q.blob,
                        wraps |-> Overlay(@.wraps, q.wraps)]]

Rewrap(r) ==
    LET q == request[r] IN
    /\ Decide(r, "accepted")
    /\ q.kind = "keys"
    /\ register[q.user].alive
    /\ register' = [register EXCEPT ![q.user].wraps = Overlay(@, q.wraps)]

Refuse(r) ==
    LET q == request[r] IN
    /\ Decide(r, "conflict")
    /\ q.kind = "put"
    /\ register[q.user].alive
    /\ q.version # register[q.user].version + 1
    /\ UNCHANGED register

Miss(r) ==
    /\ Decide(r, "notfound")
    /\ ~ register[request[r].user].alive
    /\ UNCHANGED register

\* A failure or a crash may drop any undecided requests, without effect.
Drop(R) ==
    /\ \A r \in R : outcome[r] = "pending"
    /\ outcome' = [r \in Requests |-> IF r \in R THEN "failed" ELSE outcome[r]]
    /\ UNCHANGED <<register, request>>

Delete(u) ==
    /\ register[u].alive
    /\ register' = [register EXCEPT ![u] = Gone]
    /\ UNCHANGED <<request, outcome>>

Next ==
    \/ \E r \in Requests, q \in SnapshotRequest \cup WrapRequest : Submit(r, q)
    \/ \E r \in Requests : Accept(r) \/ Rewrap(r) \/ Refuse(r) \/ Miss(r)
    \/ \E R \in SUBSET Requests : Drop(R)
    \/ \E u \in Users : Delete(u)

Spec == Init /\ [][Next]_vars

=============================================================================
