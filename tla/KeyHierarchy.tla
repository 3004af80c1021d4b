---------------------------- MODULE KeyHierarchy ----------------------------
(***************************************************************************)
(* Which secret opens the vault.  A random vault key (VEK) encrypts the    *)
(* snapshots; the server keeps it wrapped under the master password        *)
(* (kek_wrap) and under the printed Secret Key (recovery_wrap).  A legacy  *)
(* vault has no wraps, its data key is derived from the master password.   *)
(* Tabs register, unlock, recover, change the master password, upgrade a   *)
(* legacy vault and print kits, while their sync managers save; requests   *)
(* and answers get lost.  A derived key is its master password, a wrap is  *)
(* the pair of the secret and the key inside.                              *)
(***************************************************************************)
EXTENDS Naturals, FiniteSets

CONSTANTS
    Tabs,         \* browser tabs or devices of the account's owner
    Masters,      \* master passwords, and the keys derived from them
    Veks,         \* random vault keys that may be generated
    Kits,         \* printable Secret Keys that may be generated
    Zeroed,       \* a raw key after fill(0)
    NoKey,        \* no key, no secret
    MaxVersion,   \* bound on the snapshots uploaded
    MaxJobs,      \* bound on the handlers under way at once
    MaxFaults,    \* bound on failed requests and page reloads
    RetryRewrap,  \* whether a failed rewrap after a recovery is submitted again
    RepeatUpgrade \* whether an upgrade is sent by a tab that holds a random key, or
                  \* that was locked and took over the version of a late save

ASSUME SecretsAssumption ==
    /\ Masters \cap Veks = {} /\ Masters \cap Kits = {} /\ Veks \cap Kits = {}
    /\ {Zeroed, NoKey} \cap (Masters \cup Veks \cup Kits) = {}
    /\ Zeroed # NoKey
ASSUME KeyBoundsAssumption ==
    /\ MaxVersion \in Nat \ {0} /\ MaxFaults \in Nat /\ MaxJobs \in Nat
    /\ RetryRewrap \in BOOLEAN /\ RepeatUpgrade \in BOOLEAN

VARIABLES
    server,   \* the account's rows: snapshot version and key, the two wraps
    stray,    \* requests whose sender gave up and which may still arrive
    store,    \* store[t]: the vault store: isLocked, key and serverVersion
    page,     \* page[t]: the page shown
    meta,     \* meta[t]: the settings page's copy of GET /vault
    registered, \* registered[t]: the register form knows its account exists
    pending,  \* pending[t]: the raw key held for the new master password
    secret,   \* secret[t]: the Secret Key on screen
    job,      \* job[t][s]: the handler under way in slot s
    used,     \* vault keys and kits generated so far
    shown,    \* kits a user has seen
    faults    \* faults still allowed

vars == <<server, stray, store, page, meta, registered, pending, secret, job, used,
          shown, faults>>

DataKeys == Masters \cup Veks \cup {NoKey}

Wrap == [under : Masters \cup Kits \cup {NoKey}, key : Veks \cup {Zeroed, NoKey}]

NoWrap == [under |-> NoKey, key |-> NoKey]

\* GET /vault: exists is the account, snap the key of the newest snapshot.
Row == [exists : BOOLEAN, version : 0 .. MaxVersion, snap : DataKeys, kek : Wrap, rec : Wrap]

NoRow == [exists |-> FALSE, version |-> 0, snap |-> NoKey, kek |-> NoWrap, rec |-> NoWrap]

\* POST /auth/register, PUT /vault and PUT /vault/keys; NoWrap is an absent field.
Request == [kind : {"register", "vault", "keys"}, version : 0 .. MaxVersion,
            key : DataKeys, kek : Wrap, rec : Wrap]

Register == [kind |-> "register", version |-> 0, key |-> NoKey, kek |-> NoWrap, rec |-> NoWrap]

\* What a tab may have under way side by side: the form of the register or unlock
\* page, the two of settings (mpBusy, kitBusy), the sync manager's upload.
Slots == {"entry", "master", "kit", "sync"}

Job == [op : {"none", "register", "create", "open", "heal", "rewrap", "change",
              "upgrade", "kit", "save"},
        at : {"idle", "got", "deriving", "sent", "ok", "refused"},
        row : Row, req : Request]

Idle == [op |-> "none", at |-> "idle", row |-> NoRow, req |-> Register]

TypeOK ==
    /\ server \in Row
    /\ stray \subseteq Request
    /\ store \in [Tabs -> [open : BOOLEAN, key : DataKeys, version : 0 .. MaxVersion]]
    /\ page \in [Tabs -> {"register", "unlock", "settings"}]
    /\ meta \in [Tabs -> [snap : DataKeys, kek : Wrap]]
    /\ registered \in [Tabs -> BOOLEAN]
    /\ pending \in [Tabs -> Veks \cup {Zeroed, NoKey}]
    /\ secret \in [Tabs -> Kits \cup {NoKey}]
    /\ job \in [Tabs -> [Slots -> Job]]
    /\ used \subseteq Veks \cup Kits
    /\ shown \subseteq Kits
    /\ faults \in 0 .. MaxFaults

-----------------------------------------------------------------------------
(* Keys and the server *)

Locked == [open |-> FALSE, key |-> NoKey, version |-> 0]

Legacy(row) == row.kek = NoWrap

\* resolveVaultKeyWithMasterPassword; NoKey is the exception of a wrong password.
MasterKey(row, m) ==
    IF Legacy(row) THEN m ELSE IF row.kek.under = m THEN row.kek.key ELSE NoKey

\* resolveVaultKeyWithSecretKey
RecoveryKey(row, k) == IF row.rec.under = k THEN row.rec.key ELSE NoKey

\* Defect: the cipher does not authenticate.
DecryptsAnything(key, row) == key # NoKey

\* decryptEnvelope succeeds with the key the snapshot was encrypted under only.
Decrypts(key, row) == key # NoKey /\ key = row.snap

\* Defect: deriveVaultKey makes extractable keys too.
ExtractableAll(key) == key # NoKey

\* importVek makes extractable keys, deriveVaultKey does not.
Extractable(key) == key \in Veks

\* What the settings page uses of GET /vault; Unknown before the first answer.
Status == [snap |-> server.snap, kek |-> server.kek]

Unknown == [snap |-> NoKey, kek |-> NoWrap]

\* Defect: PUT /vault does not compare versions.
AcceptsAnyVersion(r) == r.kind = "register" \/ server.exists

Accepts(r) ==
    CASE r.kind = "register" -> ~ server.exists
      [] r.kind = "vault" -> server.exists /\ r.version = server.version + 1
      [] r.kind = "keys" -> server.exists

\* Defect: an absent wrap clears the stored one.
OverlayAbsent(new, old) == new

Overlay(new, old) == IF new = NoWrap THEN old ELSE new

Stored(r) ==
    CASE r.kind = "register" -> [server EXCEPT !.exists = TRUE]
      [] r.kind = "vault" -> [server EXCEPT !.version = r.version, !.snap = r.key,
                                !.kek = Overlay(r.kek, @), !.rec = Overlay(r.rec, @)]
      [] r.kind = "keys" -> [server EXCEPT !.kek = Overlay(r.kek, @), !.rec = Overlay(r.rec, @)]

Snapshot(version, key, kek, rec) ==
    [kind |-> "vault", version |-> version, key |-> key, kek |-> kek, rec |-> rec]

Rewrap(kek, rec) == [Register EXCEPT !.kind = "keys", !.kek = kek, !.rec = rec]

\* A new account, a legacy account that never synced, or one that did.
Init ==
    /\ server \in {NoRow, [NoRow EXCEPT !.exists = TRUE]}
                  \cup {[NoRow EXCEPT !.exists = TRUE, !.version = 1, !.snap = m] : m \in Masters}
    /\ stray = {}
    /\ store = [t \in Tabs |-> Locked]
    /\ page = [t \in Tabs |-> IF server.exists THEN "unlock" ELSE "register"]
    /\ meta = [t \in Tabs |-> Unknown]
    /\ registered = [t \in Tabs |-> FALSE]
    /\ pending = [t \in Tabs |-> NoKey]
    /\ secret = [t \in Tabs |-> NoKey]
    /\ job = [t \in Tabs |-> [s \in Slots |-> Idle]]
    /\ used = {}
    /\ shown = {}
    /\ faults = MaxFaults

\* The handler of slot s goes on with j.
Step(t, s, j) == job' = [job EXCEPT ![t][s] = j]

IdleIn(t, s) == job[t][s].at = "idle"

\* Another handler may begin.
Free(t, s) ==
    /\ IdleIn(t, s)
    /\ Cardinality({x \in Tabs \X Slots : ~ IdleIn(x[1], x[2])}) < MaxJobs

Send(t, s, op, r) ==
    Step(t, s, [Idle EXCEPT !.op = op, !.at = "sent", !.req = r])

Answered(t, s, op) == job[t][s].op = op /\ job[t][s].at = "ok"

Generate(new) == new \cap used = {} /\ used' = used \cup new

\* setSecretKey, which does nothing on a page that was left.
Show(t, s, on) ==
    LET k == job[t][s].req.rec.under IN
    IF page[t] = on
    THEN secret' = [secret EXCEPT ![t] = k] /\ shown' = shown \cup {k}
    ELSE UNCHANGED <<secret, shown>>

Open(t, key, version) ==
    store' = [store EXCEPT ![t] = [open |-> TRUE, key |-> key, version |-> version]]

-----------------------------------------------------------------------------
(* The register page *)

FormOffered(t) == page[t] = "register" /\ secret[t] = NoKey /\ Free(t, "entry")

\* handleSubmit: first the account ...
SubmitForm(t) ==
    /\ FormOffered(t)
    /\ Send(t, "entry", "register", Register)
    /\ UNCHANGED <<server, stray, store, page, meta, registered, pending, secret, used, shown,
                   faults>>

\* retrySubmit
TryAgain(t) == FormOffered(t) /\ registered[t]

\* ... then, in the same handler or from "Try again", the vault: a new VEK and
\* a new Secret Key, wrapped, with the empty snapshot as version 1.
InitializeVault(t, m, v, k) ==
    /\ Answered(t, "entry", "register") \/ TryAgain(t)
    /\ Generate({v, k})
    /\ registered' = [registered EXCEPT ![t] = TRUE]
    /\ LET r == Snapshot(1, v, [under |-> m, key |-> v], [under |-> k, key |-> v]) IN
       Send(t, "entry", "create", r)
    /\ UNCHANGED <<server, stray, store, page, meta, pending, secret, shown, faults>>

VaultCreated(t) ==
    /\ Answered(t, "entry", "create")
    /\ Open(t, job[t]["entry"].req.key, 1)
    /\ Show(t, "entry", "register")
    /\ Step(t, "entry", Idle)
    /\ UNCHANGED <<server, stray, page, meta, registered, pending, used, faults>>

\* continueToVault, after the acknowledgement.
KitSaved(t) ==
    /\ page[t] = "register" /\ secret[t] # NoKey
    /\ secret' = [secret EXCEPT ![t] = NoKey]
    /\ page' = [page EXCEPT ![t] = "settings"]
    /\ UNCHANGED <<server, stray, store, meta, registered, pending, job, used, shown, faults>>

\* The user signs in instead; a handler under way goes on.
LeaveForm(t) ==
    /\ page[t] = "register" /\ secret[t] = NoKey
    /\ server.exists
    /\ page' = [page EXCEPT ![t] = "unlock"]
    /\ registered' = [registered EXCEPT ![t] = FALSE]
    /\ UNCHANGED <<server, stray, store, meta, pending, secret, job, used, shown, faults>>

-----------------------------------------------------------------------------
(* The unlock page *)

\* Which form the page shows: modes password and secret, or setmaster.
AskSecret(t) ==
    page[t] = "unlock" /\ ~ store[t].open /\ pending[t] = NoKey /\ Free(t, "entry")

AskNewMaster(t) == page[t] = "unlock" /\ pending[t] # NoKey /\ Free(t, "entry")

\* getMeta.  The answer is one view: a torn one (VaultServer's TornReadIsBehind)
\* pairs a row with a newer snapshot, which the row's key decrypts or rejects.
GetVault(t) ==
    /\ AskSecret(t)
    /\ Step(t, "entry", [Idle EXCEPT !.op = "open", !.at = "got", !.row = server])
    /\ UNCHANGED <<server, stray, store, page, meta, registered, pending, secret, used, shown,
                   faults>>

\* handleUnlock with a key that decrypts the snapshot.
UnlockWithMaster(t, m) ==
    LET row == job[t]["entry"].row IN
    /\ job[t]["entry"].op = "open" /\ job[t]["entry"].at = "got"
    /\ Decrypts(MasterKey(row, m), row)
    /\ Open(t, MasterKey(row, m), row.version)
    /\ page' = [page EXCEPT ![t] = "settings"]
    /\ Step(t, "entry", Idle)
    /\ UNCHANGED <<server, stray, meta, registered, pending, secret, used, shown, faults>>

\* handleUnlock of a legacy vault without a snapshot: a VEK is minted for it.
Heal(t, m, v) ==
    LET j == job[t]["entry"] IN
    /\ j.op = "open" /\ j.at = "got"
    /\ Legacy(j.row) /\ j.row.snap = NoKey
    /\ Generate({v})
    /\ Send(t, "entry", "heal", Snapshot(1, v, [under |-> m, key |-> v], NoWrap))
    /\ UNCHANGED <<server, stray, store, page, meta, registered, pending, secret, shown, faults>>

Healed(t) ==
    /\ Answered(t, "entry", "heal")
    /\ Open(t, job[t]["entry"].req.key, 1)
    /\ page' = [page EXCEPT ![t] = "settings"]
    /\ Step(t, "entry", Idle)
    /\ UNCHANGED <<server, stray, meta, registered, pending, secret, used, shown, faults>>

\* handleSecretUnlock: the vault opens before the new master password is set.
UnlockWithSecret(t, k) ==
    LET row == job[t]["entry"].row IN
    /\ job[t]["entry"].op = "open" /\ job[t]["entry"].at = "got"
    /\ k \in shown /\ Decrypts(RecoveryKey(row, k), row)
    /\ Open(t, RecoveryKey(row, k), row.version)
    /\ pending' = [pending EXCEPT ![t] = RecoveryKey(row, k)]
    /\ Step(t, "entry", Idle)
    /\ UNCHANGED <<server, stray, page, meta, registered, secret, used, shown, faults>>

\* A wrong secret, or a refused request: an error on the page, nothing else.
Reject(t, s) ==
    /\ s # "sync"
    /\ job[t][s].at \in {"got", "refused"}
    /\ Step(t, s, Idle)
    /\ UNCHANGED <<server, stray, store, page, meta, registered, pending, secret, used, shown,
                   faults>>

\* handleSetNewMaster zeroes the raw key before its wrap is stored.
SetNewMaster(t, m) ==
    /\ AskNewMaster(t)
    /\ pending[t] = Zeroed => RetryRewrap
    /\ Send(t, "entry", "rewrap", Rewrap([under |-> m, key |-> pending[t]], NoWrap))
    /\ pending' = [pending EXCEPT ![t] = Zeroed]
    /\ UNCHANGED <<server, stray, store, page, meta, registered, secret, used, shown, faults>>

NewMasterSet(t) ==
    /\ Answered(t, "entry", "rewrap")
    /\ pending' = [pending EXCEPT ![t] = NoKey]
    /\ page' = [page EXCEPT ![t] = "settings"]
    /\ Step(t, "entry", Idle)
    /\ UNCHANGED <<server, stray, store, meta, registered, secret, used, shown, faults>>

\* The effect of an unlocked store leaves the page, whatever it shows.
Redirect(t) ==
    /\ page[t] = "unlock" /\ store[t].open
    /\ page' = [page EXCEPT ![t] = "settings"]
    /\ pending' = [pending EXCEPT ![t] = NoKey]
    /\ UNCHANGED <<server, stray, store, meta, registered, secret, job, used, shown, faults>>

-----------------------------------------------------------------------------
(* The settings page *)

\* The page is opened: its effect fetches the vault's status once.  A form sent
\* before the answer, or after a failed one, fetches it itself.
FetchMeta(t) ==
    /\ page[t] = "settings" /\ store[t].open
    /\ meta' = [meta EXCEPT ![t] = Status]
    /\ UNCHANGED <<server, stray, store, page, registered, pending, secret, job, used, shown,
                   faults>>

\* The form and the button: not under a kit on screen, not while locked, not
\* twice, and the button not for a legacy vault.
ChangeOffered(t) ==
    /\ page[t] = "settings" /\ secret[t] = NoKey
    /\ store[t].open /\ meta[t] # Unknown
    /\ Free(t, "master")

KitOffered(t) ==
    /\ page[t] = "settings" /\ secret[t] = NoKey
    /\ store[t].open /\ meta[t] # Unknown /\ ~ Legacy(meta[t])
    /\ Free(t, "kit")

\* handleChangeMaster, v2: the current password opens the wrap of the copy.
ChangeMaster(t, current, new) ==
    LET key == MasterKey(meta[t], current) IN
    /\ ChangeOffered(t)
    /\ ~ Legacy(meta[t]) /\ key # NoKey
    /\ Send(t, "master", "change", Rewrap([under |-> new, key |-> key], NoWrap))
    /\ UNCHANGED <<server, stray, store, page, meta, registered, pending, secret, used, shown,
                   faults>>

\* handleChangeMaster, legacy: the current password decrypts the copy ...
BeginUpgrade(t, current, new, v) ==
    /\ ChangeOffered(t)
    /\ Legacy(meta[t]) /\ Decrypts(current, meta[t])
    /\ Generate({v})
    /\ LET r == Snapshot(0, v, [under |-> new, key |-> v], NoWrap) IN
       Step(t, "master", [Idle EXCEPT !.op = "upgrade", !.at = "deriving", !.req = r])
    /\ UNCHANGED <<server, stray, store, page, meta, registered, pending, secret, shown, faults>>

\* ... and after the derivations the store, as it is now, is encrypted and sent.
SendUpgrade(t) ==
    /\ job[t]["master"].at = "deriving"
    /\ store[t].version < MaxVersion
    /\ store[t].key \in Veks \/ (~ store[t].open /\ store[t].version > 0) => RepeatUpgrade
    /\ Step(t, "master", [job[t]["master"] EXCEPT !.at = "sent",
                              !.req.version = store[t].version + 1])
    /\ UNCHANGED <<server, stray, store, page, meta, registered, pending, secret, used, shown,
                   faults>>

\* handleGenerateKit wraps whichever key the store holds.
GenerateKit(t, k) ==
    /\ KitOffered(t)
    /\ Extractable(store[t].key)
    /\ Generate({k})
    /\ Send(t, "kit", "kit", Rewrap(NoWrap, [under |-> k, key |-> store[t].key]))
    /\ UNCHANGED <<server, stray, store, page, meta, registered, pending, secret, shown, faults>>

\* doneWithKit
KitDone(t) ==
    /\ page[t] = "settings" /\ secret[t] # NoKey
    /\ secret' = [secret EXCEPT ![t] = NoKey]
    /\ UNCHANGED <<server, stray, store, page, meta, registered, pending, job, used, shown,
                   faults>>

\* setMeta(await api.vault.get()) ends each of them; the request may fail and
\* the page may have been left (a later answer is a FetchMeta).
Refresh(t, s) ==
    /\ \/ UNCHANGED meta
       \/ page[t] = "settings" /\ meta' = [meta EXCEPT ![t] = Status]
    /\ Step(t, s, Idle)

MasterChanged(t) ==
    /\ Answered(t, "master", "change")
    /\ Refresh(t, "master")
    /\ UNCHANGED <<server, stray, store, page, registered, pending, secret, used, shown, faults>>

\* rekey() and setState do not ask whether the store is still open.
Upgraded(t) ==
    LET r == job[t]["master"].req IN
    /\ Answered(t, "master", "upgrade")
    /\ store' = [store EXCEPT ![t].key = r.key, ![t].version = r.version]
    /\ Refresh(t, "master")
    /\ UNCHANGED <<server, stray, page, registered, pending, secret, used, shown, faults>>

\* The kit is shown once its wrap is stored.
KitStored(t) ==
    /\ Answered(t, "kit", "kit")
    /\ Show(t, "kit", "settings")
    /\ Refresh(t, "kit")
    /\ UNCHANGED <<server, stray, store, page, registered, pending, used, faults>>

-----------------------------------------------------------------------------
(* Locking and the sync manager *)

\* The sidebar's button or the auto-lock; handlers under way go on.
Lock(t) ==
    /\ store[t].open
    /\ store' = [store EXCEPT ![t] = Locked]
    /\ UNCHANGED <<server, stray, page, meta, registered, pending, secret, job, used, shown,
                   faults>>

\* Every link of a locked tab leads to the unlock page.
GoUnlock(t) ==
    /\ page[t] = "settings" /\ ~ store[t].open /\ secret[t] = NoKey
    /\ page' = [page EXCEPT ![t] = "unlock"]
    /\ meta' = [meta EXCEPT ![t] = Unknown]
    /\ UNCHANGED <<server, stray, store, registered, pending, secret, job, used, shown, faults>>

Save(t) ==
    /\ store[t].open
    /\ Free(t, "sync")
    /\ store[t].version < MaxVersion
    /\ Send(t, "sync", "save", Snapshot(store[t].version + 1, store[t].key, NoWrap, NoWrap))
    /\ UNCHANGED <<server, stray, store, page, meta, registered, pending, secret, used, shown,
                   faults>>

Saved(t) ==
    /\ Answered(t, "sync", "save")
    /\ store' = [store EXCEPT ![t].version = job[t]["sync"].req.version]
    /\ Step(t, "sync", Idle)
    /\ UNCHANGED <<server, stray, page, meta, registered, pending, secret, used, shown, faults>>

\* After a 409 the newest copy is read ...
SaveRefused(t) ==
    /\ job[t]["sync"].at = "refused"
    /\ Step(t, "sync", [job[t]["sync"] EXCEPT !.at = "got", !.row = server])
    /\ UNCHANGED <<server, stray, store, page, meta, registered, pending, secret, used, shown,
                   faults>>

\* ... and adopted if the store's key decrypts it; otherwise an error is shown.
Adopt(t) ==
    LET row == job[t]["sync"].row IN
    /\ job[t]["sync"].at = "got"
    /\ store' = IF Decrypts(store[t].key, row)
                THEN [store EXCEPT ![t].version = row.version] ELSE store
    /\ Step(t, "sync", Idle)
    /\ UNCHANGED <<server, stray, page, meta, registered, pending, secret, used, shown, faults>>

-----------------------------------------------------------------------------
(* The network *)

Deliver(t, s) ==
    LET j == job[t][s] IN
    /\ j.at = "sent"
    /\ server' = IF Accepts(j.req) THEN Stored(j.req) ELSE server
    /\ Step(t, s, [j EXCEPT !.at = IF Accepts(j.req) THEN "ok" ELSE "refused"])
    /\ UNCHANGED <<stray, store, page, meta, registered, pending, secret, used, shown, faults>>

DeliverStray(r) ==
    /\ r \in stray
    /\ server' = IF Accepts(r) THEN Stored(r) ELSE server
    /\ stray' = stray \ {r}
    /\ UNCHANGED <<store, page, meta, registered, pending, secret, job, used, shown, faults>>

InNetwork(t, s) == IF job[t][s].at = "sent" THEN {job[t][s].req} ELSE {}

\* A request or its answer is lost; the handler reports an error.
Fail(t, s) ==
    /\ job[t][s].at \in {"sent", "ok"} /\ faults > 0
    /\ stray' = stray \cup InNetwork(t, s)
    /\ Step(t, s, Idle)
    /\ faults' = faults - 1
    /\ UNCHANGED <<server, store, page, meta, registered, pending, secret, used, shown>>

ReloadPage(t) ==
    /\ faults > 0
    /\ stray' = stray \cup UNION {InNetwork(t, s) : s \in Slots}
    /\ store' = [store EXCEPT ![t] = Locked]
    /\ meta' = [meta EXCEPT ![t] = Unknown]
    /\ registered' = [registered EXCEPT ![t] = FALSE]
    /\ pending' = [pending EXCEPT ![t] = NoKey]
    /\ secret' = [secret EXCEPT ![t] = NoKey]
    /\ job' = [job EXCEPT ![t] = [s \in Slots |-> Idle]]
    /\ faults' = faults - 1
    /\ UNCHANGED <<server, page, used, shown>>

Entry(t) ==
    \/ SubmitForm(t) \/ VaultCreated(t) \/ KitSaved(t) \/ LeaveForm(t)
    \/ GetVault(t) \/ Healed(t) \/ NewMasterSet(t) \/ Redirect(t)
    \/ \E m \in Masters : UnlockWithMaster(t, m) \/ SetNewMaster(t, m)
    \/ \E k \in Kits : UnlockWithSecret(t, k)
    \/ \E m \in Masters, v \in Veks : Heal(t, m, v)
    \/ \E m \in Masters, v \in Veks, k \in Kits : InitializeVault(t, m, v, k)

Settings(t) ==
    \/ FetchMeta(t) \/ SendUpgrade(t) \/ MasterChanged(t)
    \/ Upgraded(t) \/ KitStored(t) \/ KitDone(t)
    \/ \E k \in Kits : GenerateKit(t, k)
    \/ \E current, new \in Masters :
          \/ ChangeMaster(t, current, new)
          \/ \E v \in Veks : BeginUpgrade(t, current, new, v)

Sync(t) == Lock(t) \/ GoUnlock(t) \/ Save(t) \/ Saved(t) \/ SaveRefused(t) \/ Adopt(t)

Next ==
    \/ \E t \in Tabs :
          \/ Entry(t) \/ Settings(t) \/ Sync(t) \/ ReloadPage(t)
          \/ \E s \in Slots : Reject(t, s) \/ Deliver(t, s) \/ Fail(t, s)
    \/ \E r \in stray : DeliverStray(r)

Spec == Init /\ [][Next]_vars

-----------------------------------------------------------------------------
(* Properties *)

\* Whatever happens to requests, the key wrapped under the master password is
\* the key of the newest snapshot, and without a wrap a master password is:
\* the owner is never locked out (PUT /vault/keys has no version check).
NewestOpens ==
    IF Legacy(server) THEN server.snap \in Masters \cup {NoKey} ELSE server.kek.key = server.snap

\* A recovery wrap on file holds the key of the newest snapshot: kits wrap
\* whichever key the printing tab's store holds (settings handleGenerateKit).
KitOpens == server.rec # NoWrap => server.rec.key = server.snap

\* A tab that may save next holds the key of the newest snapshot: neither an
\* upgrade elsewhere nor a late answer lets an old key overwrite it.
CurrentTabHoldsKey ==
    \A t \in Tabs : store[t].open /\ store[t].version = server.version
                       => store[t].key = server.snap

\* Once a random key encrypts the vault, no handler, retry or second upgrade
\* replaces it ("changing it never re-encrypts your stored items").
VaultKeyIsForever == [][server.snap \in Veks => server'.snap = server.snap]_vars

\* After a recovery the owner does not get into the vault with the lost master
\* password's wrap in place ("require a replacement before entering the vault").
ReplacementBeforeVault ==
    [][\A t \in Tabs : pending[t] # NoKey /\ page'[t] = "settings"
                          => Answered(t, "entry", "rewrap")]_vars

\* A printed kit keeps opening the vault ("Your previous key still works").
OldKitsWork ==
    \A k \in shown : server.rec.under = k
=============================================================================
