------------------------------ MODULE Accounts ------------------------------
(***************************************************************************)
(* The life of an account: registration (routes/auth.rs), sign-in with its *)
(* elevation of configured addresses, role changes (routes/admin.rs),      *)
(* deletion by its owner or by an admin (routes/account.rs), and the audit *)
(* trail all of them write.  Only a deletion is a transaction; every other *)
(* handler is a sequence of statements that commit one by one, so another  *)
(* handler, a failure or the death of the API may come between any two.    *)
(***************************************************************************)
EXTENDS Naturals, FiniteSets

CONSTANTS
    Accounts,    \* user ids, one for each execution of POST /auth/register
    Tombstone,   \* the all-zero user id
    Emails,      \* addresses people register with
    Requests,    \* executions of the other handlers
    Targets,     \* user ids the admin routes are called with
    AdminEmails, \* ADMIN_EMAILS
    Bootstrap    \* no ADMIN_EMAILS are configured, outside production

ASSUME TombstoneAssumption == Tombstone \notin Accounts
ASSUME TargetsAssumption == Targets \subseteq Accounts \cup {Tombstone}
ASSUME IdsAssumption == Accounts \cap Requests = {} /\ Tombstone \notin Requests
ASSUME ConfigAssumption == Bootstrap \in BOOLEAN /\ (Bootstrap => AdminEmails = {})

VARIABLES
    role,     \* role[u]: users.role, or "none" when there is no row
    vault,    \* vault[a]: the account's vaults row exists
    reg,      \* reg[a]: progress of the registration that draws id a
    trail,    \* trail[x]: the user_id of the event that execution x logged
    request,  \* request[r]: what execution r was asked
    phase,    \* phase[r]: how far it got
    moved,    \* moved[r]: events an open deletion has re-pointed
    late      \* history: events logged between such an UPDATE and the DELETE

vars == <<role, vault, reg, trail, request, phase, moved, late>>

Users == Accounts \cup {Tombstone}

Executions == Accounts \cup Requests

\* An execution that has logged nothing, or whose event is gone.
Nobody == "nobody"

ASSUME NobodyAssumption == Nobody \notin Users

Roles == {"none", "user", "admin", "tombstone"}

Registration ==
    [at : {"idle", "checked", "counted", "inserted", "vaulted", "done",
           "conflict", "failed", "broken"},
     email : Emails \cup {"unset"}, role : {"user", "admin"}]

NoRequest == [kind |-> "idle"]

Request ==
    [kind : {"login"}, actor : Accounts, password : BOOLEAN]
    \cup [kind : {"close"}, actor : Accounts, password : BOOLEAN]
    \cup [kind : {"role"}, actor : Accounts, target : Targets, newRole : {"user", "admin"}]
    \cup [kind : {"purge"}, actor : Accounts, target : Targets]

Active == {"authed", "counting", "ready", "prepared", "repointed", "logging"}

Phases == {"idle", "ok", "conflict", "notfound", "failed"} \cup Active

TypeOK ==
    /\ role \in [Users -> Roles]
    /\ vault \in [Accounts -> BOOLEAN]
    /\ reg \in [Accounts -> Registration]
    /\ trail \in [Executions -> Users \cup {Nobody}]
    /\ request \in [Requests -> {NoRequest} \cup Request]
    /\ phase \in [Requests -> Phases]
    /\ moved \in [Requests -> SUBSET Executions]
    /\ late \subseteq Executions

-----------------------------------------------------------------------------
(* Helpers *)

Exists(u) == role[u] # "none"

Admins == {u \in Users : role[u] = "admin"}

\* SELECT 1 FROM users WHERE email = $1
Taken(e) == \E a \in Accounts : Exists(a) /\ reg[a].email = e

Owned(u) == {x \in Executions : trail[x] = u}

\* The account an execution deletes: the caller's own, or the admin's target.
Victim(q) == IF q.kind = "close" THEN q.actor ELSE q.target

Deleting(r) == phase[r] = "repointed"

\* The foreign key of the event decides whether it is stored.
Log(x, u) ==
    /\ trail' = [trail EXCEPT ![x] = u]
    /\ late' = IF \E d \in Requests : Deleting(d) /\ Victim(request[d]) = u
               THEN late \cup {x} ELSE late

Goto(r, p) == phase' = [phase EXCEPT ![r] = p]

Advance(a, p) == reg' = [reg EXCEPT ![a].at = p]

Init ==
    /\ role = [u \in Users |-> "none"]
    /\ vault = [a \in Accounts |-> FALSE]
    /\ reg = [a \in Accounts |-> [at |-> "idle", email |-> "unset", role |-> "user"]]
    /\ trail = [x \in Executions |-> Nobody]
    /\ request = [r \in Requests |-> NoRequest]
    /\ phase = [r \in Requests |-> "idle"]
    /\ moved = [r \in Requests |-> {}]
    /\ late = {}

-----------------------------------------------------------------------------
(* POST /auth/register *)

CheckEmail(a, e) ==
    /\ reg[a].at = "idle"
    /\ reg' = [reg EXCEPT ![a] = [@ EXCEPT !.email = e,
                                    !.at = IF Taken(e) THEN "conflict" ELSE "checked"]]
    /\ UNCHANGED <<role, vault, trail, request, phase, moved, late>>

\* SELECT COUNT(*) FROM users counts the tombstone too.
CountUsers(a) ==
    LET first == Bootstrap /\ \A u \in Users : ~ Exists(u) IN
    /\ reg[a].at = "checked"
    /\ reg' = [reg EXCEPT ![a] = [@ EXCEPT !.at = "counted",
                                    !.role = IF first \/ reg[a].email \in AdminEmails
                                             THEN "admin" ELSE "user"]]
    /\ UNCHANGED <<role, vault, trail, request, phase, moved, late>>

\* Defect: no unique index on users.email.
InsertUserUnchecked(a) ==
    /\ reg[a].at = "counted"
    /\ Advance(a, "inserted")
    /\ role' = [role EXCEPT ![a] = reg[a].role]
    /\ UNCHANGED <<vault, trail, request, phase, moved, late>>

\* The unique index refuses an address registered since the check.
InsertUser(a) ==
    /\ reg[a].at = "counted"
    /\ IF Taken(reg[a].email)
       THEN Advance(a, "failed") /\ UNCHANGED role
       ELSE /\ Advance(a, "inserted")
            /\ role' = [role EXCEPT ![a] = reg[a].role]
    /\ UNCHANGED <<vault, trail, request, phase, moved, late>>

\* Defect: the result of the vault's insert is ignored.
InsertVaultIgnored(a) ==
    /\ reg[a].at = "inserted"
    /\ Advance(a, "vaulted")
    /\ vault' \in {vault, [vault EXCEPT ![a] = Exists(a)]}
    /\ UNCHANGED <<role, trail, request, phase, moved, late>>

\* The foreign key refuses a vault whose user was deleted meanwhile.
InsertVault(a) ==
    /\ reg[a].at = "inserted"
    /\ IF Exists(a)
       THEN Advance(a, "vaulted") /\ vault' = [vault EXCEPT ![a] = TRUE]
       ELSE Advance(a, "broken") /\ UNCHANGED vault
    /\ UNCHANGED <<role, trail, request, phase, moved, late>>

\* Session and USER_REGISTERED event, then the 201.
FinishRegistration(a) ==
    /\ reg[a].at = "vaulted"
    /\ IF Exists(a)
       THEN Advance(a, "done") /\ Log(a, a)
       ELSE Advance(a, "broken") /\ UNCHANGED <<trail, late>>
    /\ UNCHANGED <<role, vault, request, phase, moved>>

\* A statement fails or the API dies: what was inserted stays.
FailRegistration(a) ==
    /\ reg[a].at \in {"checked", "counted", "inserted", "vaulted"}
    /\ Advance(a, IF reg[a].at \in {"inserted", "vaulted"} THEN "broken" ELSE "failed")
    /\ UNCHANGED <<role, vault, trail, request, phase, moved, late>>

-----------------------------------------------------------------------------
(* The other handlers begin: a password or a session identifies the actor. *)

\* A wrong password is logged and refused.
FirstPhase(q) ==
    IF q.kind \in {"login", "close"}
    THEN IF ~ q.password THEN "logging" ELSE IF q.kind = "close" THEN "ready" ELSE "authed"
    ELSE "authed"

\* The extractor reads the role once; the handler refuses the actor's own id.
Authenticate(r, q) ==
    /\ phase[r] = "idle"
    /\ Exists(q.actor)
    /\ q.kind \in {"role", "purge"} => role[q.actor] = "admin" /\ q.target # q.actor
    /\ request' = [request EXCEPT ![r] = q]
    /\ Goto(r, FirstPhase(q))
    /\ UNCHANGED <<role, vault, reg, trail, moved, late>>

\* login: UPDATE users SET role = 'admin' for a configured address.
Elevate(r) ==
    LET a == request[r].actor IN
    /\ phase[r] = "authed"
    /\ request[r].kind = "login"
    /\ role' = IF Exists(a) /\ reg[a].email \in AdminEmails
               THEN [role EXCEPT ![a] = "admin"] ELSE role
    /\ Goto(r, "logging")
    /\ UNCHANGED <<vault, reg, trail, request, moved, late>>

ReadTarget(r) ==
    LET q == request[r]
        current == role[q.target] IN
    /\ phase[r] = "authed"
    /\ q.kind \in {"role", "purge"}
    /\ Goto(r, IF current = "none" THEN "notfound"
               ELSE IF q.kind = "role" /\ q.newRole = current THEN "ok"
               ELSE IF current = "admin" THEN "counting" ELSE "ready")
    /\ UNCHANGED <<role, vault, reg, trail, request, moved, late>>

CountAdmins(r) ==
    /\ phase[r] = "counting"
    /\ Goto(r, IF Cardinality(Admins) <= 1 THEN "conflict" ELSE "ready")
    /\ UNCHANGED <<role, vault, reg, trail, request, moved, late>>

\* UPDATE users SET role ... WHERE id = $1, whatever happened since the reads.
ChangeRole(r) ==
    LET q == request[r] IN
    /\ phase[r] = "ready"
    /\ q.kind = "role"
    /\ role' = IF Exists(q.target) THEN [role EXCEPT ![q.target] = q.newRole] ELSE role
    /\ Goto(r, "logging")
    /\ UNCHANGED <<vault, reg, trail, request, moved, late>>

\* The handler's event, owned by the actor; without the actor's row it is a 500.
LogEvent(r) ==
    LET a == request[r].actor IN
    /\ phase[r] = "logging"
    /\ IF Exists(a) THEN Log(r, a) /\ Goto(r, "ok")
       ELSE Goto(r, "failed") /\ UNCHANGED <<trail, late>>
    /\ UNCHANGED <<role, vault, reg, request, moved>>

-----------------------------------------------------------------------------
(* Deletion: ensure_tombstone, then one transaction of three statements. *)

\* Defect: the tombstone gets a role of its own.
EnsureDeletedUser(r) ==
    /\ phase[r] = "ready"
    /\ request[r].kind \in {"close", "purge"}
    /\ role' = IF Exists(Tombstone) THEN role ELSE [role EXCEPT ![Tombstone] = "deleted"]
    /\ Goto(r, "prepared")
    /\ UNCHANGED <<vault, reg, trail, request, moved, late>>

EnsureTombstone(r) ==
    /\ phase[r] = "ready"
    /\ request[r].kind \in {"close", "purge"}
    /\ role' = IF Exists(Tombstone) THEN role ELSE [role EXCEPT ![Tombstone] = "tombstone"]
    /\ Goto(r, "prepared")
    /\ UNCHANGED <<vault, reg, trail, request, moved, late>>

\* Defect: the actor's events are re-pointed instead of the victim's.
RepointActor(r) ==
    LET events == Owned(request[r].actor) IN
    /\ phase[r] = "prepared"
    /\ \A d \in Requests : Deleting(d) => moved[d] \cap events = {}
    /\ IF Exists(Tombstone)
       THEN moved' = [moved EXCEPT ![r] = events] /\ Goto(r, "repointed")
       ELSE Goto(r, "failed") /\ UNCHANGED moved
    /\ UNCHANGED <<role, vault, reg, trail, request, late>>

\* UPDATE audit_events and INSERT of the deletion event: both need the
\* tombstone's row, and wait for another deletion's lock on the same events.
RepointTrail(r) ==
    LET events == Owned(Victim(request[r])) IN
    /\ phase[r] = "prepared"
    /\ \A d \in Requests : Deleting(d) => moved[d] \cap events = {}
    /\ IF Exists(Tombstone)
       THEN moved' = [moved EXCEPT ![r] = events] /\ Goto(r, "repointed")
       ELSE Goto(r, "failed") /\ UNCHANGED moved
    /\ UNCHANGED <<role, vault, reg, trail, request, late>>

\* Defect: the deletion event belongs to its actor.
TrailWithActor(r, victim) ==
    LET kept(x) == IF x \in moved[r] THEN Tombstone
                   ELSE IF x = r THEN request[r].actor ELSE trail[x] IN
    [x \in Executions |-> IF kept(x) = victim THEN Nobody ELSE kept(x)]

\* The trail after the commit: the re-pointed events and the deletion event
\* belong to the tombstone, and the cascade takes what the victim still owns.
TrailAfter(r, victim) ==
    LET kept(x) == IF x \in moved[r] \cup {r} THEN Tombstone ELSE trail[x] IN
    [x \in Executions |-> IF kept(x) = victim THEN Nobody ELSE kept(x)]

\* DELETE FROM users, its cascade, and the commit.  The cascade waits for
\* events another deletion has locked, and the tombstone's row for the
\* foreign keys that use it.
DeleteUser(r) ==
    LET victim == Victim(request[r]) IN
    /\ Deleting(r)
    /\ \A d \in Requests \ {r} :
           Deleting(d) => moved[d] \cap Owned(victim) = {} /\ victim # Tombstone
    /\ role' = [role EXCEPT ![victim] = "none"]
    /\ vault' = [a \in Accounts |-> vault[a] /\ a # victim]
    /\ trail' = TrailAfter(r, victim)
    /\ moved' = [moved EXCEPT ![r] = {}]
    /\ Goto(r, "ok")
    /\ UNCHANGED <<reg, request, late>>

\* A statement fails, a deadlock victim is chosen or the API dies: the open
\* transaction is rolled back, earlier statements stay.
Fail(r) ==
    /\ phase[r] \in Active
    /\ moved' = [moved EXCEPT ![r] = {}]
    /\ Goto(r, "failed")
    /\ UNCHANGED <<role, vault, reg, trail, request, late>>

-----------------------------------------------------------------------------

Register(a) ==
    \/ \E e \in Emails : CheckEmail(a, e)
    \/ CountUsers(a) \/ InsertUser(a) \/ InsertVault(a)
    \/ FinishRegistration(a) \/ FailRegistration(a)

Handle(r) ==
    \/ \E q \in Request : Authenticate(r, q)
    \/ Elevate(r) \/ ReadTarget(r) \/ CountAdmins(r) \/ ChangeRole(r) \/ LogEvent(r)
    \/ EnsureTombstone(r) \/ RepointTrail(r) \/ DeleteUser(r) \/ Fail(r)

Next ==
    \/ \E a \in Accounts : Register(a)
    \/ \E r \in Requests : Handle(r)

Spec == Init /\ [][Next]_vars

-----------------------------------------------------------------------------
(* Properties *)

\* The unique index then guarantees one account per address, through races
\* between registrations and deletions.
OneAccountPerEmail ==
    \A a, b \in Accounts :
        Exists(a) /\ Exists(b) /\ reg[a].email = reg[b].email => a = b

\* A registration answered 201 leaves an account that can be used, as long as
\* it exists: it has its vault row, and its address to itself.
RegistrationComplete ==
    \A a \in Accounts : reg[a].at = "done" /\ Exists(a) =>
        /\ vault[a]
        /\ \A b \in Accounts : Exists(b) /\ reg[b].email = reg[a].email => b = a

\* An account that was deleted has left the event that proves it.
Deletes(r, a) ==
    LET q == request[r] IN
    /\ q.kind \in {"close", "purge"}
    /\ q.kind = "close" => q.password
    /\ Victim(q) = a

Inserted(a) == reg[a].at \in {"inserted", "vaulted", "done", "broken"}

DeletionRecorded ==
    \A a \in Accounts :
        Inserted(a) /\ ~ Exists(a) =>
            \E r \in Requests : Deletes(r, a) /\ trail[r] = Tombstone

\* No event that was in the trail before its owner's deletion began is lost.
EarlyEventsSurvive ==
    [][\A x \in Executions :
          trail[x] # Nobody /\ trail'[x] = Nobody => x \in late]_vars

\* "The trail outlives the user": no event ever disappears.
EventsOutliveUsers ==
    [][\A x \in Executions : trail[x] # Nobody => trail'[x] # Nobody]_vars

\* Events kept for deleted users, the tombstone's, are never lost.
PreservedTrailKept ==
    [][\A x \in Executions : trail[x] = Tombstone => trail'[x] = Tombstone]_vars

\* "Never leave the system without an admin": the admin routes keep one.
AdminRemains ==
    [][\A r \in Requests :
          /\ ChangeRole(r) \/ (DeleteUser(r) /\ request[r].kind = "purge")
          /\ Admins # {}
          => Admins' # {}]_vars

=============================================================================
