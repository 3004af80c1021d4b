--------------------------- MODULE AccountsProofs ---------------------------
(***************************************************************************)
(* Proofs about Accounts for any ids, addresses, executions and            *)
(* configuration.  The invariant says that an existing account's row was   *)
(* inserted by its registration, that an execution still under way has     *)
(* logged nothing, and that the events an open deletion has locked still   *)
(* belong to its victim.                                                   *)
(***************************************************************************)
EXTENDS Accounts, TLAPS

ExistingInserted == \A a \in Accounts : Exists(a) => Inserted(a)

VaultStays ==
    \A a \in Accounts : reg[a].at \in {"vaulted", "done"} /\ Exists(a) => vault[a]

AccountInv == ExistingInserted /\ OneAccountPerEmail /\ VaultStays

\* An execution that left "idle" has a request; a deletion's is confirmed.
HasRequest ==
    \A r \in Requests :
        /\ phase[r] # "idle" => request[r] \in Request
        /\ phase[r] = "counting" => request[r].kind # "close"
        /\ phase[r] \in {"prepared", "repointed"} => request[r].kind \in {"close", "purge"}
        /\ phase[r] \in {"ready", "prepared", "repointed"} /\ request[r].kind = "close"
               => request[r].password

NotYetLogged ==
    /\ \A r \in Requests : phase[r] \in Active \cup {"idle"} => trail[r] = Nobody
    /\ \A a \in Accounts : reg[a].at # "done" => trail[a] = Nobody

MovedOwned ==
    \A r \in Requests :
        \/ moved[r] = {}
        \/ Deleting(r) /\ \A x \in moved[r] : trail[x] = Victim(request[r])

Recorded == Tombstone \notin Targets => DeletionRecorded

Inv ==
    /\ TypeOK
    /\ AccountInv
    /\ HasRequest
    /\ NotYetLogged
    /\ MovedOwned
    /\ Recorded

-----------------------------------------------------------------------------
(* Lemmas *)

LEMMA RequestFields ==
    ASSUME NEW q \in Request
    PROVE  /\ q.kind \in {"login", "close", "role", "purge"}
           /\ q.actor \in Accounts
           /\ q.kind \in {"close", "login"} => q.password \in BOOLEAN
           /\ q.kind \in {"role", "purge"} => q.target \in Targets
           /\ q.kind = "role" => q.newRole \in {"user", "admin"}
BY DEF Request

LEMMA VictimIsUser ==
    ASSUME NEW q \in Request, q.kind \in {"close", "purge"}
    PROVE  /\ Victim(q) \in Users
           /\ Tombstone \notin Targets => Victim(q) \in Accounts
BY RequestFields, TargetsAssumption, TombstoneAssumption DEF Victim, Users

\* Accounts stay as they are, or lose their row and their vault.
LEMMA AccountFrame ==
    ASSUME AccountInv, UNCHANGED reg,
           \A a \in Accounts : Exists(a)' => Exists(a) /\ vault'[a] = vault[a]
    PROVE  AccountInv'
BY DEF AccountInv, ExistingInserted, OneAccountPerEmail, VaultStays, Inserted

\* No account goes, and no deletion event is lost.
LEMMA RecordedFrame ==
    ASSUME Recorded,
           \A a \in Accounts : Inserted(a)' /\ ~ Exists(a)' => Inserted(a) /\ ~ Exists(a),
           \A r \in Requests : trail[r] = Tombstone =>
               trail'[r] = Tombstone /\ request'[r] = request[r]
    PROVE  Recorded'
BY DEF Recorded, DeletionRecorded, Deletes

LEMMA InitInv == Init => Inv
<1> SUFFICES ASSUME Init PROVE Inv
  OBVIOUS
<1>1. TypeOK
  BY DEF Init, TypeOK, Roles, Registration, Phases, Executions, Users, Nobody
<1>2. \A a \in Accounts : ~ Exists(a) /\ ~ Inserted(a)
  BY DEF Init, Exists, Inserted, Users
<1>3. AccountInv /\ Recorded
  BY <1>2 DEF AccountInv, ExistingInserted, OneAccountPerEmail, VaultStays, Recorded,
              DeletionRecorded
<1>4. HasRequest /\ NotYetLogged /\ MovedOwned
  BY DEF Init, HasRequest, NotYetLogged, MovedOwned, Executions
<1>5. QED
  BY <1>1, <1>3, <1>4 DEF Inv

-----------------------------------------------------------------------------
(* Registration *)

\* Steps that only record how far the registration got.
LEMMA ProgressStep ==
    ASSUME Inv, NEW a \in Accounts,
           \/ \E e \in Emails : CheckEmail(a, e)
           \/ CountUsers(a)
           \/ FailRegistration(a)
    PROVE  Inv'
<1>1. /\ UNCHANGED <<role, vault, trail, request, phase, moved, late>>
      /\ TypeOK /\ AccountInv /\ NotYetLogged
  BY DEF CheckEmail, CountUsers, FailRegistration, Inv
<1>2. reg[a] \in Registration
  BY <1>1 DEF TypeOK
<1>3. PICK g \in Registration :
         /\ reg' = [reg EXCEPT ![a] = g]
         /\ reg[a].at # "done" /\ g.at # "done"
         /\ g.at = "vaulted" => reg[a].at = "vaulted"
         /\ g.email = reg[a].email \/ reg[a].at = "idle"
         /\ g.at \in {"inserted", "vaulted", "done", "broken"} <=> Inserted(a)
  <2>1. CASE \E e \in Emails : CheckEmail(a, e)
    <3>1. PICK e \in Emails : CheckEmail(a, e)
      BY <2>1
    <3>2. PICK g : g = [reg[a] EXCEPT !.email = e,
                          !.at = IF Taken(e) THEN "conflict" ELSE "checked"]
      OBVIOUS
    <3>3. g \in Registration /\ g.at \in {"conflict", "checked"}
      BY <1>2, <3>2 DEF Registration
    <3>4. QED
      BY <3>1, <3>2, <3>3 DEF CheckEmail, Inserted
  <2>2. CASE CountUsers(a)
    <3>1. PICK g : /\ g = [reg[a] EXCEPT !.at = "counted", !.role = g.role]
                   /\ g.role \in {"user", "admin"}
                   /\ reg' = [reg EXCEPT ![a] = g]
      BY <1>2, <2>2 DEF CountUsers, Registration
    <3>2. g \in Registration /\ g.at = "counted" /\ g.email = reg[a].email
      BY <1>2, <3>1 DEF Registration
    <3>3. QED
      BY <2>2, <3>1, <3>2 DEF CountUsers, Inserted
  <2>3. CASE FailRegistration(a)
    <3>1. PICK p : p = IF reg[a].at \in {"inserted", "vaulted"} THEN "broken" ELSE "failed"
      OBVIOUS
    <3>2. PICK g : g = [reg[a] EXCEPT !.at = p]
      OBVIOUS
    <3>3. g \in Registration /\ g.at = p /\ g.email = reg[a].email
      BY <1>2, <3>1, <3>2 DEF Registration
    <3>4. reg' = [reg EXCEPT ![a] = g]
      BY <1>1, <2>3, <3>1, <3>2 DEF FailRegistration, Advance, TypeOK
    <3>5. QED
      BY <2>3, <3>1, <3>3, <3>4 DEF FailRegistration, Inserted
  <2>4. QED
    BY <2>1, <2>2, <2>3
<1>4. /\ reg' \in [Accounts -> Registration] /\ reg'[a] = g
      /\ \A b \in Accounts : b # a => reg'[b] = reg[b]
  BY <1>1, <1>3 DEF TypeOK
<1>5. TypeOK'
  BY <1>1, <1>4 DEF TypeOK
<1>6. \A b \in Accounts : /\ Exists(b)' <=> Exists(b)
                          /\ Inserted(b)' <=> Inserted(b)
  BY <1>1, <1>3, <1>4 DEF Exists, Inserted
<1>7. \A b \in Accounts : Exists(b) => reg'[b].email = reg[b].email
  BY <1>1, <1>3, <1>4 DEF AccountInv, ExistingInserted, Inserted
<1>8. AccountInv'
  BY <1>1, <1>3, <1>4, <1>6, <1>7
     DEF AccountInv, ExistingInserted, OneAccountPerEmail, VaultStays
<1>9. NotYetLogged'
  BY <1>1, <1>3, <1>4 DEF NotYetLogged
<1>10. Recorded'
  BY <1>1, <1>6, RecordedFrame DEF Inv
<1>11. QED
  BY <1>1, <1>5, <1>8, <1>9, <1>10 DEF Inv, HasRequest, MovedOwned, Deleting

LEMMA AdvanceStep ==
    ASSUME TypeOK, NEW a \in Accounts, NEW p,
           p \in {"inserted", "vaulted", "done", "failed", "broken"}, Advance(a, p)
    PROVE  /\ reg' \in [Accounts -> Registration]
           /\ reg'[a].at = p /\ reg'[a].email = reg[a].email
           /\ \A b \in Accounts : b # a => reg'[b] = reg[b]
<1>1. PICK g : g = [reg[a] EXCEPT !.at = p]
  OBVIOUS
<1>2. g \in Registration /\ g.at = p /\ g.email = reg[a].email
  BY <1>1 DEF TypeOK, Registration
<1>3. QED
  BY <1>1, <1>2 DEF TypeOK, Advance

LEMMA InsertUserStep ==
    ASSUME Inv, NEW a \in Accounts, InsertUser(a)
    PROVE  Inv'
<1>1. /\ UNCHANGED <<vault, trail, request, phase, moved, late>>
      /\ reg[a].at = "counted"
      /\ TypeOK /\ AccountInv /\ NotYetLogged
  BY DEF InsertUser, Inv
<1>2. PICK p \in {"failed", "inserted"} :
         /\ Advance(a, p)
         /\ p = "failed" => UNCHANGED role
         /\ p = "inserted" => /\ ~ Taken(reg[a].email)
                              /\ role' = [role EXCEPT ![a] = reg[a].role]
  BY DEF InsertUser
<1>3. /\ reg' \in [Accounts -> Registration]
      /\ reg'[a].at = p /\ reg'[a].email = reg[a].email
      /\ \A b \in Accounts : b # a => reg'[b] = reg[b]
  BY <1>1, <1>2, AdvanceStep
<1>4. reg[a].role \in {"user", "admin"} /\ a \in Users
  BY <1>1 DEF TypeOK, Registration, Users
<1>5. /\ role' \in [Users -> Roles]
      /\ \A u \in Users : u # a => role'[u] = role[u]
      /\ p = "inserted" => Exists(a)'
      /\ p = "failed" => (Exists(a)' <=> Exists(a))
  BY <1>1, <1>2, <1>4 DEF TypeOK, Exists, Roles
<1>6. \A b \in Accounts : b # a => (Exists(b)' <=> Exists(b)) /\ (Inserted(b)' <=> Inserted(b))
  BY <1>3, <1>5 DEF Exists, Inserted, Users
<1>7. ~ Exists(a)
  BY <1>1 DEF AccountInv, ExistingInserted, Inserted
<1>8. ExistingInserted' /\ VaultStays'
  BY <1>1, <1>3, <1>5, <1>6, <1>7 DEF AccountInv, ExistingInserted, VaultStays, Inserted
<1>9. OneAccountPerEmail'
  <2>1. ASSUME NEW b \in Accounts, b # a, Exists(b)', Exists(a)',
               reg'[b].email = reg'[a].email
        PROVE  FALSE
    BY <1>2, <1>3, <1>5, <1>6, <1>7, <2>1 DEF Taken
  <2>2. ASSUME NEW b \in Accounts, NEW c \in Accounts, b # a, c # a, Exists(b)', Exists(c)',
               reg'[b].email = reg'[c].email
        PROVE  b = c
    BY <1>1, <1>3, <1>6, <2>2 DEF AccountInv, OneAccountPerEmail
  <2>3. QED
    BY <2>1, <2>2 DEF OneAccountPerEmail
<1>10. NotYetLogged'
  BY <1>1, <1>2, <1>3 DEF NotYetLogged
<1>11. \A b \in Accounts : Inserted(b)' /\ ~ Exists(b)' => Inserted(b) /\ ~ Exists(b)
  BY <1>2, <1>3, <1>5, <1>6 DEF Inserted
<1>12. Recorded'
  BY <1>1, <1>11, RecordedFrame DEF Inv
<1>13. QED
  BY <1>1, <1>3, <1>5, <1>8, <1>9, <1>10, <1>12
     DEF Inv, TypeOK, AccountInv, HasRequest, MovedOwned, Deleting

LEMMA InsertVaultStep ==
    ASSUME Inv, NEW a \in Accounts, InsertVault(a)
    PROVE  Inv'
<1>1. /\ UNCHANGED <<role, trail, request, phase, moved, late>>
      /\ reg[a].at = "inserted"
      /\ TypeOK /\ AccountInv /\ NotYetLogged
  BY DEF InsertVault, Inv
<1>2. PICK p \in {"vaulted", "broken"} :
         /\ Advance(a, p)
         /\ p = "broken" => UNCHANGED vault
         /\ p = "vaulted" => vault' = [vault EXCEPT ![a] = TRUE]
  BY DEF InsertVault
<1>3. /\ reg' \in [Accounts -> Registration]
      /\ reg'[a].at = p /\ reg'[a].email = reg[a].email
      /\ \A b \in Accounts : b # a => reg'[b] = reg[b]
  BY <1>1, <1>2, AdvanceStep
<1>4. /\ vault' \in [Accounts -> BOOLEAN]
      /\ p = "vaulted" => vault'[a]
      /\ \A b \in Accounts : b # a => vault'[b] = vault[b]
  BY <1>1, <1>2 DEF TypeOK
<1>5. \A b \in Accounts : (Exists(b)' <=> Exists(b)) /\ (Inserted(b)' <=> Inserted(b))
  BY <1>1, <1>3 DEF Exists, Inserted
<1>6. AccountInv'
  BY <1>1, <1>3, <1>4, <1>5
     DEF AccountInv, ExistingInserted, OneAccountPerEmail, VaultStays
<1>7. NotYetLogged'
  BY <1>1, <1>2, <1>3 DEF NotYetLogged
<1>8. Recorded'
  BY <1>1, <1>5, RecordedFrame DEF Inv
<1>9. QED
  BY <1>1, <1>3, <1>4, <1>6, <1>7, <1>8 DEF Inv, TypeOK, HasRequest, MovedOwned, Deleting

\* An event is added by an execution that has logged none.
LEMMA LogStep ==
    ASSUME TypeOK, MovedOwned, NEW x \in Executions, NEW u \in Users, Log(x, u),
           trail[x] = Nobody, UNCHANGED <<phase, request, moved>>,
           \A r \in Requests : Deleting(r) => Victim(request[r]) \in Users
    PROVE  /\ trail' \in [Executions -> Users \cup {Nobody}] /\ late' \subseteq Executions
           /\ \A y \in Executions : y # x => trail'[y] = trail[y]
           /\ MovedOwned'
<1>1. /\ trail' \in [Executions -> Users \cup {Nobody}] /\ late' \subseteq Executions
      /\ \A y \in Executions : y # x => trail'[y] = trail[y]
  BY DEF TypeOK, Log
<1>2. ASSUME NEW r \in Requests PROVE \/ moved[r] = {}
                                      \/ \A y \in moved[r] : trail'[y] = Victim(request[r])
  BY <1>1, NobodyAssumption DEF MovedOwned, TypeOK
<1>3. QED
  BY <1>1, <1>2 DEF MovedOwned, Deleting

LEMMA DeletionVictim ==
    ASSUME Inv, NEW r \in Requests, Deleting(r)
    PROVE  /\ request[r] \in Request
           /\ request[r].kind \in {"close", "purge"}
           /\ request[r].kind = "close" => request[r].password
           /\ Victim(request[r]) \in Users
           /\ Tombstone \notin Targets => Victim(request[r]) \in Accounts
BY VictimIsUser DEF Inv, HasRequest, Deleting

LEMMA FinishRegistrationStep ==
    ASSUME Inv, NEW a \in Accounts, FinishRegistration(a)
    PROVE  Inv'
<1>1. /\ UNCHANGED <<role, vault, request, phase, moved>>
      /\ reg[a].at = "vaulted"
      /\ TypeOK /\ AccountInv /\ NotYetLogged /\ MovedOwned
  BY DEF FinishRegistration, Inv
<1>2. PICK p \in {"done", "broken"} :
         /\ Advance(a, p)
         /\ p = "done" => Log(a, a)
         /\ p = "broken" => UNCHANGED <<trail, late>>
  BY DEF FinishRegistration
<1>3. /\ reg' \in [Accounts -> Registration]
      /\ reg'[a].at = p /\ reg'[a].email = reg[a].email
      /\ \A b \in Accounts : b # a => reg'[b] = reg[b]
  BY <1>1, <1>2, AdvanceStep
<1>4. a \in Executions /\ a \in Users /\ trail[a] = Nobody
  BY <1>1 DEF NotYetLogged, Executions, Users
<1>5. /\ trail' \in [Executions -> Users \cup {Nobody}] /\ late' \subseteq Executions
      /\ \A y \in Executions : y # a => trail'[y] = trail[y]
      /\ p = "broken" => trail'[a] = Nobody
      /\ MovedOwned'
  <2>1. CASE p = "done"
    BY <1>1, <1>2, <1>4, <2>1, LogStep, DeletionVictim
  <2>2. CASE p = "broken"
    BY <1>1, <1>2, <1>4, <2>2 DEF TypeOK, MovedOwned, Deleting
  <2>3. QED
    BY <2>1, <2>2
<1>6. \A b \in Accounts : (Exists(b)' <=> Exists(b)) /\ (Inserted(b)' <=> Inserted(b))
  BY <1>1, <1>3 DEF Exists, Inserted
<1>7. AccountInv'
  BY <1>1, <1>3, <1>6
     DEF AccountInv, ExistingInserted, OneAccountPerEmail, VaultStays
<1>8. \A r \in Requests : r \in Executions /\ r # a
  BY IdsAssumption DEF Executions
<1>9. NotYetLogged'
  <2>1. \A b \in Accounts : b \in Executions
    BY DEF Executions
  <2>2. QED
    BY <1>1, <1>3, <1>5, <1>8, <2>1 DEF NotYetLogged
<1>10. Recorded'
  BY <1>1, <1>5, <1>6, <1>8, RecordedFrame DEF Inv
<1>11. QED
  BY <1>1, <1>3, <1>5, <1>7, <1>9, <1>10 DEF Inv, TypeOK, HasRequest

-----------------------------------------------------------------------------
(* Role and account requests *)

LEMMA GotoStep ==
    ASSUME TypeOK, NEW r \in Requests, NEW p \in Phases, Goto(r, p)
    PROVE  /\ phase' \in [Requests -> Phases] /\ phase'[r] = p
           /\ \A d \in Requests : d # r => phase'[d] = phase[d]
BY DEF TypeOK, Goto

LEMMA AuthenticateStep ==
    ASSUME Inv, NEW r \in Requests, NEW q \in Request, Authenticate(r, q)
    PROVE  Inv'
<1>1. /\ UNCHANGED <<role, vault, reg, trail, moved, late>>
      /\ phase[r] = "idle"
      /\ request' = [request EXCEPT ![r] = q]
      /\ Goto(r, FirstPhase(q))
      /\ TypeOK /\ HasRequest /\ NotYetLogged /\ MovedOwned
  BY DEF Authenticate, Inv
<1>2. /\ FirstPhase(q) \in {"authed", "logging", "ready"}
      /\ FirstPhase(q) = "ready" => q.kind = "close" /\ q.password
  BY RequestFields DEF FirstPhase
<1>3. /\ phase' \in [Requests -> Phases] /\ phase'[r] = FirstPhase(q)
      /\ \A d \in Requests : d # r => phase'[d] = phase[d]
  BY <1>1, <1>2, GotoStep DEF Phases, Active
<1>4. /\ request' \in [Requests -> {NoRequest} \cup Request] /\ request'[r] = q
      /\ \A d \in Requests : d # r => request'[d] = request[d]
  BY <1>1 DEF TypeOK
<1>5. AccountInv'
  BY <1>1, AccountFrame DEF Inv, Exists
<1>6. HasRequest' /\ NotYetLogged'
  BY <1>1, <1>2, <1>3, <1>4 DEF HasRequest, NotYetLogged
<1>7. MovedOwned'
  BY <1>1, <1>3, <1>4 DEF MovedOwned, Deleting
<1>8. trail[r] # Tombstone
  BY <1>1, NobodyAssumption DEF NotYetLogged, Users
<1>9. Recorded'
  BY <1>1, <1>4, <1>8, RecordedFrame DEF Inv, Exists, Inserted
<1>10. QED
  BY <1>1, <1>3, <1>4, <1>5, <1>6, <1>7, <1>9 DEF Inv, TypeOK

\* Steps of an execution that may change roles but remove no row.
LEMMA RoleStep ==
    ASSUME Inv, NEW r \in Requests,
           \/ Elevate(r) \/ ReadTarget(r) \/ CountAdmins(r) \/ ChangeRole(r)
           \/ EnsureTombstone(r)
    PROVE  Inv'
<1>1. /\ UNCHANGED <<vault, reg, trail, request, moved, late>>
      /\ phase[r] \in {"authed", "counting", "ready"}
      /\ TypeOK /\ HasRequest /\ NotYetLogged /\ MovedOwned
  BY DEF Elevate, ReadTarget, CountAdmins, ChangeRole, EnsureTombstone, Inv
<1>2. request[r] \in Request
  BY <1>1 DEF HasRequest
<1>3. PICK p \in Phases \ {"idle", "repointed"} :
         /\ Goto(r, p)
         /\ p = "prepared" => phase[r] = "ready" /\ request[r].kind \in {"close", "purge"}
         /\ p \in {"ready", "counting"} => request[r].kind # "close"
  <2>1. CASE Elevate(r) \/ ChangeRole(r)
    BY <2>1 DEF Elevate, ChangeRole, Phases, Active
  <2>2. CASE ReadTarget(r)
    BY <2>2 DEF ReadTarget, Phases, Active
  <2>3. CASE CountAdmins(r)
    BY <1>1, <2>3 DEF CountAdmins, HasRequest, Phases, Active
  <2>4. CASE EnsureTombstone(r)
    BY <2>4 DEF EnsureTombstone, Phases, Active
  <2>5. QED
    BY <1>1, <2>1, <2>2, <2>3, <2>4
<1>4. /\ phase' \in [Requests -> Phases] /\ phase'[r] = p
      /\ \A d \in Requests : d # r => phase'[d] = phase[d]
  BY <1>1, <1>3, GotoStep
<1>5. /\ role' \in [Users -> Roles]
      /\ \A u \in Users : role[u] # "none" => role'[u] # "none"
      /\ \A a \in Accounts : role[a] = "none" => role'[a] = "none"
  <2>1. CASE Elevate(r)
    BY <1>1, <2>1 DEF Elevate, TypeOK, Exists, Users, Roles
  <2>2. CASE ReadTarget(r) \/ CountAdmins(r)
    BY <1>1, <2>2 DEF ReadTarget, CountAdmins, TypeOK, Users
  <2>3. CASE ChangeRole(r)
    <3>1. request[r].newRole \in {"user", "admin"}
      BY <1>2, <2>3, RequestFields DEF ChangeRole
    <3>2. QED
      BY <1>1, <2>3, <3>1 DEF ChangeRole, TypeOK, Exists, Users, Roles
  <2>4. CASE EnsureTombstone(r)
    BY <1>1, <2>4, TombstoneAssumption DEF EnsureTombstone, TypeOK, Exists, Users, Roles
  <2>5. QED
    BY <1>1, <2>1, <2>2, <2>3, <2>4
<1>6. \A a \in Accounts : (Exists(a)' <=> Exists(a)) /\ (Inserted(a)' <=> Inserted(a))
  BY <1>1, <1>5 DEF Exists, Inserted, Users
<1>7. AccountInv'
  BY <1>1, <1>6, AccountFrame DEF Inv
<1>8. HasRequest'
  BY <1>1, <1>2, <1>3, <1>4 DEF HasRequest
<1>9. NotYetLogged'
  BY <1>1, <1>4 DEF NotYetLogged, Active
<1>10. MovedOwned'
  BY <1>1, <1>4 DEF MovedOwned, Deleting
<1>11. Recorded'
  BY <1>1, <1>6, RecordedFrame DEF Inv
<1>12. QED
  BY <1>1, <1>4, <1>5, <1>7, <1>8, <1>9, <1>10, <1>11 DEF Inv, TypeOK

LEMMA LogEventStep ==
    ASSUME Inv, NEW r \in Requests, LogEvent(r)
    PROVE  Inv'
<1>1. /\ UNCHANGED <<role, vault, reg, request, moved>>
      /\ phase[r] = "logging"
      /\ TypeOK /\ HasRequest /\ NotYetLogged /\ MovedOwned
  BY DEF LogEvent, Inv
<1>2. /\ request[r] \in Request /\ request[r].actor \in Users
      /\ r \in Executions /\ trail[r] = Nobody
  BY <1>1, RequestFields DEF HasRequest, NotYetLogged, Active, Users, Executions
<1>3. PICK p \in {"ok", "failed"} :
         /\ Goto(r, p)
         /\ p = "ok" => Log(r, request[r].actor)
         /\ p = "failed" => UNCHANGED <<trail, late>>
  BY DEF LogEvent
<1>4. /\ phase' \in [Requests -> Phases] /\ phase'[r] = p
      /\ \A d \in Requests : d # r => phase'[d] = phase[d]
  BY <1>1, <1>3, GotoStep DEF Phases
<1>5. \A d \in Requests : Deleting(d)' <=> Deleting(d)
  BY <1>1, <1>4 DEF Deleting
<1>6. /\ trail' \in [Executions -> Users \cup {Nobody}] /\ late' \subseteq Executions
      /\ \A y \in Executions : y # r => trail'[y] = trail[y]
  BY <1>1, <1>2, <1>3 DEF TypeOK, Log
<1>7. MovedOwned'
  <2>1. ASSUME NEW d \in Requests, moved[d] # {}
        PROVE  Deleting(d)' /\ \A x \in moved[d] : trail'[x] = Victim(request[d])
    <3>1. Deleting(d) /\ \A x \in moved[d] : trail[x] = Victim(request[d])
      BY <1>1, <2>1 DEF MovedOwned
    <3>2. r \notin moved[d]
      BY <1>2, <3>1, DeletionVictim, NobodyAssumption
    <3>3. QED
      BY <1>1, <1>5, <1>6, <3>1, <3>2 DEF TypeOK
  <2>2. QED
    BY <1>1, <2>1 DEF MovedOwned
<1>8. AccountInv'
  BY <1>1, AccountFrame DEF Inv, Exists
<1>9. HasRequest' /\ NotYetLogged'
  <2>1. \A a \in Accounts : a \in Executions /\ a # r
    BY IdsAssumption DEF Executions
  <2>2. \A d \in Requests : d \in Executions
    BY DEF Executions
  <2>3. QED
    BY <1>1, <1>4, <1>6, <2>1, <2>2 DEF HasRequest, NotYetLogged, Active
<1>10. Recorded'
  <2>1. trail[r] # Tombstone
    BY <1>2, NobodyAssumption DEF Users
  <2>2. QED
    BY <1>1, <1>6, <2>1, RecordedFrame DEF Inv, Exists, Inserted, Executions
<1>11. QED
  BY <1>1, <1>4, <1>6, <1>7, <1>8, <1>9, <1>10 DEF Inv, TypeOK

-----------------------------------------------------------------------------
(* Deletion *)

LEMMA RepointStep ==
    ASSUME Inv, NEW r \in Requests, RepointTrail(r) \/ Fail(r)
    PROVE  Inv'
<1>1. /\ UNCHANGED <<role, vault, reg, trail, request, late>>
      /\ phase[r] \in Active
      /\ TypeOK /\ HasRequest /\ NotYetLogged /\ MovedOwned
  BY DEF RepointTrail, Fail, Inv, Active
<1>2. PICK p \in {"repointed", "failed"}, m \in SUBSET Executions :
         /\ Goto(r, p)
         /\ moved' = [moved EXCEPT ![r] = m]
         /\ p = "failed" => m = {}
         /\ p = "repointed" => phase[r] = "prepared" /\ m = Owned(Victim(request[r]))
  <2>1. CASE Fail(r)
    <3>1. Goto(r, "failed") /\ moved' = [moved EXCEPT ![r] = {}] /\ {} \in SUBSET Executions
      BY <2>1 DEF Fail
    <3>2. QED
      BY <3>1
  <2>2. CASE RepointTrail(r) /\ Exists(Tombstone)
    BY <2>2 DEF RepointTrail, Owned
  <2>3. CASE RepointTrail(r) /\ ~ Exists(Tombstone)
    <3>1. moved[r] = {}
      BY <1>1, <2>3 DEF RepointTrail, MovedOwned, Deleting
    <3>2. moved' = [moved EXCEPT ![r] = {}]
      BY <1>1, <2>3, <3>1 DEF RepointTrail, TypeOK
    <3>3. QED
      BY <2>3, <3>2 DEF RepointTrail
  <2>4. QED
    BY <2>1, <2>2, <2>3
<1>3. /\ phase' \in [Requests -> Phases] /\ phase'[r] = p
      /\ \A d \in Requests : d # r => phase'[d] = phase[d]
  BY <1>1, <1>2, GotoStep DEF Phases, Active
<1>4. /\ moved' \in [Requests -> SUBSET Executions] /\ moved'[r] = m
      /\ \A d \in Requests : d # r => moved'[d] = moved[d]
  BY <1>1, <1>2 DEF TypeOK
<1>5. HasRequest'
  BY <1>1, <1>2, <1>3 DEF HasRequest, Active
<1>6. NotYetLogged'
  BY <1>1, <1>2, <1>3 DEF NotYetLogged, Active
<1>7. MovedOwned'
  BY <1>1, <1>2, <1>3, <1>4 DEF MovedOwned, Deleting, Owned
<1>8. AccountInv' /\ Recorded'
  BY <1>1, AccountFrame, RecordedFrame DEF Inv, Exists, Inserted
<1>9. QED
  BY <1>1, <1>3, <1>4, <1>5, <1>6, <1>7, <1>8 DEF Inv, TypeOK

LEMMA DeleteUserStep ==
    ASSUME Inv, NEW r \in Requests, DeleteUser(r)
    PROVE  Inv'
<1> DEFINE victim == Victim(request[r])
<1> DEFINE kept(x) == IF x \in moved[r] \cup {r} THEN Tombstone ELSE trail[x]
<1>1. /\ UNCHANGED <<reg, request, late>>
      /\ Deleting(r)
      /\ \A d \in Requests \ {r} : Deleting(d) => moved[d] \cap Owned(victim) = {}
      /\ role' = [role EXCEPT ![victim] = "none"]
      /\ vault' = [a \in Accounts |-> vault[a] /\ a # victim]
      /\ moved' = [moved EXCEPT ![r] = {}]
      /\ Goto(r, "ok")
      /\ TypeOK /\ AccountInv /\ HasRequest /\ NotYetLogged /\ MovedOwned
  BY DEF DeleteUser, Inv
<1>2. /\ request[r] \in Request /\ request[r].kind \in {"close", "purge"}
      /\ request[r].kind = "close" => request[r].password
      /\ victim \in Users
      /\ Tombstone \notin Targets => victim \in Accounts
  BY <1>1, DeletionVictim
<1>3. \A x \in Executions :
         trail'[x] = IF kept(x) = victim THEN Nobody ELSE kept(x)
  BY DEF DeleteUser, TrailAfter
<1>4. trail' \in [Executions -> Users \cup {Nobody}]
  BY <1>1 DEF DeleteUser, TrailAfter, TypeOK, Users
<1>5. /\ phase' \in [Requests -> Phases] /\ phase'[r] = "ok"
      /\ \A d \in Requests : d # r => phase'[d] = phase[d]
  BY <1>1, GotoStep DEF Phases
<1>6. /\ moved' \in [Requests -> SUBSET Executions] /\ moved'[r] = {}
      /\ \A d \in Requests : d # r => moved'[d] = moved[d]
  BY <1>1 DEF TypeOK
<1>7. /\ role' \in [Users -> Roles] /\ vault' \in [Accounts -> BOOLEAN]
      /\ \A u \in Users : role'[u] = IF u = victim THEN "none" ELSE role[u]
      /\ \A a \in Accounts : a # victim => vault'[a] = vault[a]
  BY <1>1, <1>2 DEF TypeOK, Roles
<1>8. \A x \in moved[r] : trail[x] = victim
  BY <1>1 DEF MovedOwned
<1>9. AccountInv'
  BY <1>1, <1>7, AccountFrame DEF Exists, Users
<1>10. HasRequest'
  BY <1>1, <1>2, <1>5 DEF HasRequest
<1>11. \A x \in Executions : trail[x] = Nobody /\ x # r => trail'[x] = Nobody
  BY <1>2, <1>3, <1>8, NobodyAssumption
<1>12. NotYetLogged'
  <2>1. \A a \in Accounts : a \in Executions /\ a # r
    BY IdsAssumption DEF Executions
  <2>2. \A d \in Requests : d \in Executions
    BY DEF Executions
  <2>3. QED
    BY <1>1, <1>5, <1>11, <2>1, <2>2 DEF NotYetLogged, Active
<1>13. MovedOwned'
  <2>1. ASSUME NEW d \in Requests, d # r, moved[d] # {}
        PROVE  Deleting(d)' /\ \A x \in moved[d] : trail'[x] = Victim(request[d])
    <3>1. Deleting(d) /\ \A x \in moved[d] : trail[x] = Victim(request[d])
      BY <1>1, <2>1 DEF MovedOwned
    <3>2. ASSUME NEW x \in moved[d] PROVE trail'[x] = trail[x]
      <4>1. x \in Executions /\ trail[x] # victim
        BY <1>1, <2>1, <3>1 DEF TypeOK, Owned
      <4>2. x # r
        BY <1>1, <3>1, DeletionVictim, NobodyAssumption
           DEF NotYetLogged, Deleting, Active
      <4>3. QED
        BY <1>3, <1>8, <4>1, <4>2
    <3>3. QED
      BY <1>5, <2>1, <3>1, <3>2 DEF Deleting
  <2>2. QED
    BY <1>1, <1>6, <2>1 DEF MovedOwned
<1>14. Recorded'
  <2>1. SUFFICES ASSUME Tombstone \notin Targets, NEW a \in Accounts,
                        Inserted(a)', ~ Exists(a)'
                 PROVE  \E d \in Requests : Deletes(d, a)' /\ trail'[d] = Tombstone
    BY DEF Recorded, DeletionRecorded
  <2>2. victim # Tombstone
    BY <1>2, <2>1, TombstoneAssumption
  <2>3. CASE a = victim
    <3>1. Deletes(r, a)'
      BY <1>1, <1>2, <2>3 DEF Deletes
    <3>2. trail'[r] = Tombstone
      BY <1>3, <2>2 DEF Executions
    <3>3. QED
      BY <3>1, <3>2
  <2>4. CASE a # victim
    <3>1. Inserted(a) /\ ~ Exists(a)
      BY <1>1, <1>7, <2>1, <2>4 DEF Inserted, Exists, Users
    <3>2. PICK d \in Requests : Deletes(d, a) /\ trail[d] = Tombstone
      BY <2>1, <3>1 DEF Inv, Recorded, DeletionRecorded
    <3>3. Deletes(d, a)' /\ trail'[d] = Tombstone
      BY <1>1, <1>3, <2>2, <3>2 DEF Deletes, Executions
    <3>4. QED
      BY <3>3
  <2>5. QED
    BY <2>3, <2>4
<1>15. QED
  BY <1>1, <1>4, <1>5, <1>6, <1>7, <1>9, <1>10, <1>12, <1>13, <1>14 DEF Inv, TypeOK

-----------------------------------------------------------------------------
(* The invariant *)

LEMMA NextInv == Inv /\ [Next]_vars => Inv'
<1> SUFFICES ASSUME Inv, [Next]_vars PROVE Inv'
  OBVIOUS
<1>1. CASE UNCHANGED vars
  BY <1>1
     DEF vars, Inv, TypeOK, AccountInv, ExistingInserted, OneAccountPerEmail, VaultStays,
         HasRequest, NotYetLogged, MovedOwned, Deleting, Recorded, DeletionRecorded,
         Deletes, Exists, Inserted
<1>2. ASSUME NEW a \in Accounts, Register(a) PROVE Inv'
  BY <1>2, ProgressStep, InsertUserStep, InsertVaultStep, FinishRegistrationStep DEF Register
<1>3. ASSUME NEW r \in Requests, Handle(r) PROVE Inv'
  BY <1>3, AuthenticateStep, RoleStep, LogEventStep, RepointStep, DeleteUserStep DEF Handle
<1>4. QED
  BY <1>1, <1>2, <1>3 DEF Next

LEMMA Invariance == Spec => []Inv
BY InitInv, NextInv, PTL DEF Spec

-----------------------------------------------------------------------------
(* What an open deletion has not re-pointed was logged late. *)

EarlyMoved ==
    \A r \in Requests, x \in Executions :
        Deleting(r) /\ trail[x] = Victim(request[r]) => x \in moved[r] \cup late

\* The deletions under way stay as they are, and the trail too.
LEMMA EarlyFrame ==
    ASSUME EarlyMoved, UNCHANGED <<trail, late>>,
           \A r \in Requests : Deleting(r)' =>
               Deleting(r) /\ moved'[r] = moved[r] /\ request'[r] = request[r]
    PROVE  EarlyMoved'
BY DEF EarlyMoved

LEMMA EarlyLog ==
    ASSUME TypeOK, EarlyMoved, NEW x \in Executions, NEW u \in Users, Log(x, u),
           \A r \in Requests : Deleting(r)' => Deleting(r), UNCHANGED <<moved, request>>
    PROVE  EarlyMoved'
<1>1. SUFFICES ASSUME NEW r \in Requests, NEW y \in Executions, Deleting(r)',
                      trail'[y] = Victim(request[r])
               PROVE  y \in moved[r] \cup late'
  BY DEF EarlyMoved
<1>2. Deleting(r) /\ late \subseteq late'
  BY <1>1 DEF Log
<1>3. CASE y = x
  <2>1. trail'[x] = u
    BY DEF Log, TypeOK
  <2>2. QED
    BY <1>1, <1>2, <1>3, <2>1 DEF Log
<1>4. CASE y # x
  <2>1. trail'[y] = trail[y]
    BY <1>4 DEF Log, TypeOK
  <2>2. QED
    BY <1>1, <1>2, <2>1 DEF EarlyMoved
<1>5. QED
  BY <1>3, <1>4

LEMMA EarlyRegister ==
    ASSUME Inv, EarlyMoved, NEW a \in Accounts, Register(a)
    PROVE  EarlyMoved'
<1>1. UNCHANGED <<request, phase, moved>> /\ TypeOK /\ a \in Executions /\ a \in Users
  BY DEF Register, CheckEmail, CountUsers, InsertUser, InsertVault, FinishRegistration,
         FailRegistration, Inv, Executions, Users
<1>2. Log(a, a) \/ UNCHANGED <<trail, late>>
  BY DEF Register, CheckEmail, CountUsers, InsertUser, InsertVault, FinishRegistration,
         FailRegistration
<1>3. QED
  BY <1>1, <1>2, EarlyFrame, EarlyLog DEF Deleting

LEMMA EarlyHandle ==
    ASSUME Inv, EarlyMoved, Tombstone \notin Targets, NEW r \in Requests, Handle(r)
    PROVE  EarlyMoved'
<1>1. TypeOK /\ HasRequest /\ MovedOwned
  BY DEF Inv
<1>2. CASE \E q \in Request : Authenticate(r, q)
  <2>1. PICK q \in Request : Authenticate(r, q)
    BY <1>2
  <2>2. FirstPhase(q) # "repointed"
    BY DEF FirstPhase
  <2>3. QED
    BY <1>1, <2>1, <2>2, EarlyFrame DEF Authenticate, Goto, Deleting, TypeOK
<1>3. CASE \/ Elevate(r) \/ ReadTarget(r) \/ CountAdmins(r) \/ ChangeRole(r)
           \/ EnsureTombstone(r)
  <2>1. UNCHANGED <<trail, late, moved, request>>
    BY <1>3 DEF Elevate, ReadTarget, CountAdmins, ChangeRole, EnsureTombstone
  <2>2. PICK p : Goto(r, p) /\ p # "repointed"
    BY <1>3 DEF Elevate, ReadTarget, CountAdmins, ChangeRole, EnsureTombstone
  <2>3. QED
    BY <1>1, <2>1, <2>2, EarlyFrame DEF Goto, Deleting, TypeOK
<1>4. CASE LogEvent(r)
  <2>1. PICK p \in {"ok", "failed"} :
           /\ Goto(r, p)
           /\ Log(r, request[r].actor) \/ UNCHANGED <<trail, late>>
    BY <1>4 DEF LogEvent
  <2>2. UNCHANGED <<moved, request>> /\ phase[r] = "logging"
    BY <1>4 DEF LogEvent
  <2>3. \A d \in Requests : Deleting(d)' => Deleting(d)
    BY <1>1, <2>1 DEF Goto, Deleting, TypeOK
  <2>4. r \in Executions /\ request[r].actor \in Users
    BY <1>1, <2>2, RequestFields DEF HasRequest, Executions, Users
  <2>5. QED
    BY <1>1, <2>1, <2>2, <2>3, <2>4, EarlyFrame, EarlyLog
<1>5. CASE RepointTrail(r) \/ Fail(r)
  <2>1. UNCHANGED <<trail, late, request>>
    BY <1>5 DEF RepointTrail, Fail
  <2>2. \A d \in Requests : d # r => phase'[d] = phase[d] /\ moved'[d] = moved[d]
    BY <1>1, <1>5 DEF RepointTrail, Fail, Goto, TypeOK
  <2>3. Deleting(r)' => moved'[r] = Owned(Victim(request[r]))
    BY <1>1, <1>5 DEF RepointTrail, Fail, Goto, Deleting, TypeOK, Owned, Exists
  <2>4. QED
    BY <2>1, <2>2, <2>3 DEF EarlyMoved, Deleting, Owned
<1>6. CASE DeleteUser(r)
  <2>1. /\ UNCHANGED <<late, request>> /\ Deleting(r)
        /\ \A d \in Requests : d # r => phase'[d] = phase[d] /\ moved'[d] = moved[d]
        /\ ~ Deleting(r)'
    BY <1>1, <1>6 DEF DeleteUser, Goto, Deleting, TypeOK
  <2>2. \A x \in Executions : trail'[x] \in {trail[x], Tombstone, Nobody}
    BY <1>6 DEF DeleteUser, TrailAfter
  <2>3. ASSUME NEW d \in Requests, Deleting(d)
        PROVE  Victim(request[d]) \notin {Tombstone, Nobody}
    BY <2>3, DeletionVictim, TombstoneAssumption, NobodyAssumption DEF Users
  <2>4. \A d \in Requests : Deleting(d)' => Deleting(d) /\ moved'[d] = moved[d]
    BY <2>1 DEF Deleting
  <2>5. QED
    BY <2>1, <2>2, <2>3, <2>4 DEF EarlyMoved
<1>7. QED
  BY <1>2, <1>3, <1>4, <1>5, <1>6 DEF Handle

LEMMA EarlyInvariance == Tombstone \notin Targets => (Spec => []EarlyMoved)
<1> SUFFICES ASSUME Tombstone \notin Targets PROVE Spec => []EarlyMoved
  OBVIOUS
<1>1. Init => EarlyMoved
  BY DEF Init, EarlyMoved, Deleting
<1>2. Inv /\ EarlyMoved /\ [Next]_vars => EarlyMoved'
  <2> SUFFICES ASSUME Inv, EarlyMoved, [Next]_vars PROVE EarlyMoved'
    OBVIOUS
  <2>1. CASE UNCHANGED vars
    BY <2>1 DEF vars, EarlyMoved, Deleting
  <2>2. CASE Next
    BY <2>2, EarlyRegister, EarlyHandle DEF Next
  <2>3. QED
    BY <2>1, <2>2
<1>3. QED
  BY <1>1, <1>2, Invariance, PTL DEF Spec

-----------------------------------------------------------------------------
(* The theorems *)

\* Every reachable state of registrations, requests and the trail is typed.
THEOREM TypeCorrect == Spec => []TypeOK
<1>1. Inv => TypeOK
  BY DEF Inv
<1>2. QED
  BY <1>1, Invariance, PTL

\* Racing registrations never leave two accounts with one address.
THEOREM UniqueEmails == Spec => []OneAccountPerEmail
<1>1. Inv => OneAccountPerEmail
  BY DEF Inv, AccountInv
<1>2. QED
  BY <1>1, Invariance, PTL

\* An answered registration has its vault until the account is deleted.
THEOREM CompleteWhenAnswered == Spec => []RegistrationComplete
<1>1. Inv => RegistrationComplete
  BY DEF Inv, AccountInv, VaultStays, RegistrationComplete, OneAccountPerEmail
<1>2. QED
  BY <1>1, Invariance, PTL

\* Every deletion leaves its event, whatever fails and races around it, as
\* long as the admin routes are not called with the tombstone's id.
THEOREM DeletionsRecorded == Tombstone \notin Targets => (Spec => []DeletionRecorded)
<1> SUFFICES ASSUME Tombstone \notin Targets PROVE Spec => []DeletionRecorded
  OBVIOUS
<1>1. Inv => DeletionRecorded
  BY DEF Inv, Recorded
<1>2. QED
  BY <1>1, Invariance, PTL

\* A deletion loses no event that was logged before it re-pointed the trail.
THEOREM EarlyEventsKept == Tombstone \notin Targets => (Spec => EarlyEventsSurvive)
<1> SUFFICES ASSUME Tombstone \notin Targets PROVE Spec => EarlyEventsSurvive
  OBVIOUS
<1> DEFINE Survive == \A x \in Executions : trail[x] # Nobody /\ trail'[x] = Nobody => x \in late
<1>1. Inv /\ EarlyMoved /\ [Next]_vars => [Survive]_vars
  <2> SUFFICES ASSUME Inv, EarlyMoved, Next, NEW x \in Executions,
                      trail[x] # Nobody, trail'[x] = Nobody
               PROVE  x \in late
    OBVIOUS
  <2>1. TypeOK
    BY DEF Inv
  <2>2. ASSUME NEW y \in Executions, NEW u \in Users, Log(y, u) PROVE FALSE
    BY <2>1, <2>2, NobodyAssumption DEF Log, TypeOK
  <2>3. ASSUME NEW a \in Accounts, Register(a) PROVE FALSE
    <3>1. Log(a, a) \/ UNCHANGED trail
      BY <2>3 DEF Register, CheckEmail, CountUsers, InsertUser, InsertVault,
                  FinishRegistration, FailRegistration
    <3>2. QED
      BY <2>2, <3>1 DEF Executions, Users
  <2>4. PICK r \in Requests : Handle(r)
    BY <2>3 DEF Next
  <2>5. CASE LogEvent(r)
    <3>1. r \in Executions /\ request[r].actor \in Users
      BY <2>5, RequestFields DEF LogEvent, Inv, HasRequest, Executions, Users
    <3>2. QED
      BY <2>2, <2>5, <3>1 DEF LogEvent
  <2>6. CASE DeleteUser(r)
    <3>1. Deleting(r) /\ (x \in moved[r] \cup {r} \/ trail[x] = Victim(request[r]))
      BY <2>6 DEF DeleteUser, TrailAfter
    <3>2. Victim(request[r]) # Tombstone /\ Tombstone # Nobody
      BY <3>1, DeletionVictim, TombstoneAssumption, NobodyAssumption DEF Users
    <3>3. x \notin moved[r] \cup {r}
      BY <2>6, <3>2 DEF DeleteUser, TrailAfter
    <3>4. QED
      BY <3>1, <3>3 DEF EarlyMoved
  <2>7. CASE ~ LogEvent(r) /\ ~ DeleteUser(r)
    BY <2>4, <2>7 DEF Handle, Authenticate, Elevate, ReadTarget, CountAdmins, ChangeRole,
                      EnsureTombstone, RepointTrail, Fail
  <2>8. QED
    BY <2>5, <2>6, <2>7
<1>2. QED
  BY <1>1, Invariance, EarlyInvariance, PTL DEF Spec, EarlyEventsSurvive

=============================================================================
