# SecureVault: specification and proofs

TLA+ models of SecureVault, a zero-knowledge password manager (`src/secure-vault`): a Rust API
(`crates/api`) over PostgreSQL that stores encrypted vault snapshots, and a Next.js client (`apps/web`) that
holds the decrypted vault in memory, edits it and uploads it. Paths below are relative to `src/secure-vault`.

## 1. Inventory

| Component | State | Operations | Interacts with | Correct when |
|---|---|---|---|---|
| Vault storage (`crates/api/src/routes/vault.rs`) | `vaults` row (version, wraps), `vault_snapshots` | GET /vault, PUT /vault, PUT /vault/keys | clients, retention job, account deletion | one blob per version, versions consecutive, an accepted upload durable |
| Maintenance (`maintenance.rs`) | none of its own | prune snapshots, delete old sessions | the same tables | never removes an account's newest snapshots |
| Client sync (`hooks/useVaultSync.tsx`, `hooks/useVault.ts`) | in-memory store, `lastSent`, `inFlight`, debounce timer | edit, lock, unlock, upload, reload on 409, retry | GET and PUT /vault, React scheduling, other tabs | every edit uploaded or reported; no silent overwrite |
| Key hierarchy (`lib/vaultKeys.ts`, `lib/crypto.ts`, unlock, register and settings pages) | wraps of the vault key, emergency kit | unlock, recover, change master password, new kit, import, export | PUT /vault/keys, PUT /vault | at every moment some known secret opens the vault |
| Auto-lock (`hooks/useAutoLock.ts`) | `lastActivity` | lock after inactivity | store | locks, and only after the timeout |
| Accounts and roles (`routes/auth.rs`, `admin.rs`, `account.rs`) | `users`, `audit_events`, tombstone row | register, log in, change role, delete | every other table by cascade | one account per address, an admin remains, the trail outlives its users |
| Sessions and two-factor (`routes/auth.rs`, `middleware/auth.rs`) | `sessions`, TOTP columns | login, challenge, logout, revoke, enable, disable | all routes through the extractor | a half session reaches only the challenge; revoked means revoked |
| Passkeys (`routes/passkeys.rs`, `state.rs`, `crates/webauthn`) | `passkeys`, challenges in memory | options, finish, revoke | sessions, authenticators, the limiter | a challenge makes one session, of the right account; the counter never goes back |
| Rate limiter (`middleware/rate_limit.rs`) | a count and a window start per address, in memory | check | in front of login, challenge, passkey finish and register | nobody is refused without a spent budget |
| Devices (`routes/devices.rs`, `app/devices`) | `devices` | list, register, revoke | no session refers to one | a revoked device is revoked |
| Audit (`crates/audit`) | `audit_events` | insert, list | all handlers | the trail outlives its users |
| Browser (`app/login`, `components/Sidebar`, all windows) | cookie jar, one store per window | sign in and out, unlock, delete account | every route | a window's vault and the cookie belong together |
| Settings: data (`lib/vaultTransfer.ts`, `app/settings`) | handlers and their closures | export, import | the store, the auto-lock | imports keep items, exports are whole |
| Console pages (`app/admin`, `app/devices`, `app/settings`) | a list, requests under way | load, act, filter, page | list and action routes | a page at rest shows what was done |
| Breach monitor (`app/monitor`, `lib/breaches.ts`) | scans, caches of the tab | scan passwords, scan an address | two outside services, the store | nothing unchecked is reported clean |

Hard behaviour: handlers of concurrent requests interleave statement by statement under READ COMMITTED, and only
some of them are transactions; row locks and foreign-key locks can deadlock; the API may die between a commit
and the answer; the client's store can change across every `await` of the sync manager; an answer can be lost
while its request is not; windows share a cookie but not a vault. `PROJECT.json` lists each hazard with its line and the properties that cover it.

## 2. Modules

| Module | What it is |
|---|---|
| `VaultRegister` | What the PUT routes promise: one compare-and-set register per account, decided at one instant |
| `VaultServer` | The vault routes, the retention job and account deletion, one action per SQL statement |
| `MCVaultServer` | Its TLC instances |
| `VaultServerProofs` | Type correctness and safety of `VaultServer`, and that it implements `VaultRegister`, for every value of the constants |
| `VaultSync` | The tabs of one account: store, sync manager, locking, unreliable network |
| `MCVaultSync` | Its TLC instances |
| `VaultSyncProofs` | Type correctness and safety of `VaultSync` |
| `Accounts` | Registration, roles, deletion and the audit trail, one action per SQL statement |
| `MCAccounts` | Its TLC instances |
| `AccountsProofs` | Type correctness and safety of `Accounts` |
| `SignIns` | What the session routes promise: sign-ins that are half or full, and end once |
| `Sessions` | Sign-in, half sessions, two-factor, logout, revocation, expiry and cleanup, one action per SQL statement |
| `MCSessions` | Its TLC instances |
| `SessionsProofs` | Type correctness and safety of `Sessions`, and that it implements `SignIns` |
| `KeyHierarchy` | Which secret opens the vault: wraps, registration, unlock, recovery, settings, sync of several tabs |
| `MCKeyHierarchy` | Its TLC instances |
| `KeyHierarchyProofs` | Type correctness and safety of `KeyHierarchy` |
| `Browser` | Windows of one browser that several people use, with one cookie jar |
| `MCBrowser` | Its TLC instance |
| `BrowserProofs` | Type correctness and safety of `Browser` |
| `Passkeys` | Ceremonies, challenges, counters and the limiter on the server, with restarts |
| `MCPasskeys` | Its TLC instance |
| `PasskeysProofs` | Type correctness and safety of `Passkeys` and of the limiter |
| `AutoLock` | The idle clock of a window |
| `Transfer` | Export and import beside everything that changes the store; extends `AutoLock` |
| `Monitor` | Breach scans and their caches beside the store; extends `Transfer` |
| `Console` | The pages that list rows of the server and change them |
| `Pages` | One window and the page it shows: composes `Monitor`, `Transfer` and `Console` |
| `MCPages` | Its TLC instance |
| `PagesProofs` | Type correctness and safety of `Pages` and the four modules it composes |

### 2.1 VaultServer

Rows are `alive` (the `users` and `vaults` rows of an account), `rowVersion`, `wraps` and `snapshots`; they hold
committed data only. An execution of a PUT handler is `request[r]` (what was asked) and `phase[r]` (how far it
got):

    idle -Arrive-> waiting -LockRow-> locked -CheckVersion-> checked -WriteSnapshot-> written
         -Commit-> committed -Audit-> ok            (PUT /vault/keys: locked -WriteWraps-> written)

`LockRow` is the `SELECT ... FOR UPDATE` (vault.rs:219-229), `CheckVersion` compares with `MAX(version)` of the
snapshots (231-245), `WriteSnapshot` is the update and the insert whose foreign key needs the `users` row,
`Commit` makes everything visible, and `Audit` is the separate insert after the commit (287-310), whose failure
answers 500 for an upload that is stored (`unconfirmed`). `Fail` is any statement error (the transaction is
dropped), `Crash` does it to all executions at once. GET is two statements (`ReadRow`, `ReadSnapshot`) on two
views of the database. `Prune` is one tick of the retention job; `DeleteUser` and `CascadeDelete` are the two lock
acquisitions of `DELETE FROM users`, and `BreakDeadlock` is PostgreSQL choosing a victim when a PUT and a
deletion wait for each other.

Left out: request validation that does not depend on state (base64, sizes) is a `Fail`; KDF columns never change;
`updated_at` is not read. Locks are derived from phases instead of stored. The blob and the wraps are model
values: the server never looks inside.

### 2.2 VaultSync

One record per tab for the Zustand store, `lastSent` for the marker of the sync manager, `timer` for the 600 ms
debounce, `job` for the upload in flight. `Rerun` is the React effect: it runs in the same step as the store change
that triggers it, because `useSyncExternalStore` updates are flushed in the synchronous lane and nothing else of
the tab runs in between. Every `await` of the effect's asynchronous body separates two actions: `FireTimer` (52-68),
`HandlePut` (the server), `Ack` (69-71), `Conflict` (72-77), `FetchRow`, `FetchSnapshot`, `Decrypt` (78-84), `Apply`
(83-112), `FailRequest` (107). `FailRequest` and `ReloadPage` leave an upload in the network as `stray`: it may
still reach the server later (`HandleStray`), or never. The unlock page's read is `OpenRow`, `OpenSnapshot`, `Open`.

The server is one atomic step per PUT, which `VaultServerProofs!Refinement` justifies, and two steps per GET,
as in `VaultServer`. `own` and `base` are history variables used by properties only: `own` says whether the upload in
flight belongs to the tab's present unlocked session, `base` from which stored version the tab's contents descend.

`ReopenDuringUpload` says whether an unlock may complete while the previous session's upload is unanswered. The
code does not prevent it. With TRUE the run `sync_stale_ack` shows the overwrite of section 4; with FALSE the other
properties hold, so that interleaving is the only way they break. It is restricted in the guard of `Open` alone.

Left out: items are a set of names and an edit adds or removes one (updating is both); the branch for a server
without any snapshot (90-94) and the healing of snapshots without nonce are unreachable, because registration
uploads version 1 before the vault can be opened here. Read beside the code, that branch marks the local contents
as sent without uploading them: accounts whose only snapshots predate migration 003 would take it.

### 2.3 Accounts

An account id stands for the execution of POST /auth/register that draws it, `reg[a]` for that execution's progress:

    idle -CheckEmail-> checked -CountUsers-> counted -InsertUser-> inserted -InsertVault-> vaulted
         -FinishRegistration-> done

These are separate statements without a transaction, so `FailRegistration` (an error, or the death of the API)
leaves what was inserted: an account without a vault whose address stays taken (`broken`). `CountUsers` decides the
role before the row exists. The other executions begin with `Authenticate`, the extractor's query with the first checks
of the handler, and go on as login (`Elevate`, `LogEvent`), PATCH role (`ReadTarget`, `CountAdmins`, `ChangeRole`,
`LogEvent`), DELETE /account or the admin's deletion (`ReadTarget`, `CountAdmins`). Both deletions end in
`EnsureTombstone` and one transaction: `RepointTrail` (the UPDATE of the events and the INSERT of the deletion event,
not yet visible) and `DeleteUser` (DELETE, cascade and COMMIT). DELETE and COMMIT are one step, because others wait for
the row lock or read the old row in between. `Fail` is a failing statement, a deadlock victim or a crash, which is a
set of `Fail`s.

`trail[x]` is the owner of the event that execution x logged; `moved[r]` are the events an open deletion has re-pointed.
`late` is a history variable of properties: the events logged between a deletion's UPDATE and its DELETE.

Left out: sessions (a caller is any existing account; the session insert of a registration is merged with its event),
event contents, the update of `updated_at`. `Targets` are the ids the admin routes are called with; whether the
tombstone's is among them decides which properties hold. Consequences worth knowing that no property states: two
concurrent first registrations can both become admin (`auth.rs:180-198`), and after every account is deleted the
tombstone's row keeps that bootstrap rule from ever firing again; `set_role` can make the tombstone an admin
(`admin.rs:171-216`), which the last-admin checks then count; DELETE /account has no last-admin check.

### 2.4 Sessions

`request[x]` and `phase[x]` are one execution of a handler; a sign-in's id also names the `sessions` row it inserts
(`session[x]`), a setup's id the secret it generates. None of these handlers is a transaction:

    idle -Login/PasskeyLogin-> creating -CreateSession-> logging -Answer-> ok
    idle -Authenticate-> authed -CheckX-> writing -X-> logging -Answer-> ok   (challenge, setup, verify, disable)
    idle -Authenticate-> authed -RevokeSessions-> logging -Answer-> ok         (logout, an admin's revocation)

`Login` is the read of the row (auth.rs:286-313); the Argon2 verification and the elevation lie between it and
`CreateSession`, which uses the `totp_enabled` read before (`awaiting`). Password and passkey make the same session
unless the password met two-factor, so `request` does not tell them apart. `Authenticate` is the extractor
(middleware/auth.rs:49-110) with its path check; a client can only use the cookie of a sign-in that was answered.
The `Check` actions are a handler's SELECT and its checks, the actions `Activate`, `StorePending`, `Enable` and
`Disable` its UPDATE, which names the columns it writes and the key it finds the row by, nothing else. A code is the
secret it is computed from, and a client knows the secrets of setups that were answered. `Expire` is the passing of
24 hours. `Cleanup` is the sessions part of the maintenance tick: its DELETE of rows revoked more than 7 days ago finds
nothing, because such rows have expired. `Fail` is a wrong password, a failing statement or a crash.

`SignIns` is what these statements promise together: a sign-in is `half` or `full` from the start, `proved` after a right
code of its own challenge and then `full`, and `over` for ever; a sign-out is ordered with a full sign-in of its user or an
admin, and ends all of its user's at one instant. `statusBar` maps a row to it: one that is revoked, expired or removed
is over, and so is an id whose execution will insert no row. `orderedBar` are the users whom an authenticated logout or
revocation will sign out.

`matched` and `signedOut` are history variables of the properties: the executions whose code was right, and the
sessions that existed when their user was signed out.

Left out: the account's deletion and its cascade (`Accounts`), roles and elevation, registration's session (a
`Login` of an account without two-factor), TOTP's time windows, token bytes, `GET /auth/me` and `/auth/refresh` (they
only read). Consequences that no property states: a passkey sign-in never asks for the second factor (deliberate,
passkeys.rs:277); a verify that read its pending secret before a disable and a new setup can put two-factor back in
force after the disable was answered; a challenge on a session revoked meanwhile still answers 200, for a session that
stays unusable; a half session whose account has disabled two-factor gets an internal error (auth.rs:685).

### 2.5 KeyHierarchy

A wrap is the pair of the secret it is under and the key inside; a key derived from a master password is that
password. `server` is the account's row with the key of its newest snapshot, `job[t][s]` a handler under way in one
of the four slots a tab has (the form of the register or unlock page, the two forms of settings, the sync manager).
A handler is one action up to its first request and one action after each answer; `Deliver` is the API, and requests
whose sender gave up stay in `stray`.

Registration is `SubmitRegistration`, `InitializeVault`, `VaultCreated`, `KitSaved`; unlocking `GetVault` and then
`UnlockWithMaster`, `UnlockWithSecret` (which opens the store before it asks for the new master password) or `Heal`
(a legacy vault without snapshot); then `SetNewMaster`. Settings are `ChangeMaster` (only the wrap changes),
`BeginUpgrade` and `SendUpgrade` (a legacy vault gets a random key: the whole store is encrypted anew) and
`GenerateKit`. `FetchMeta` is the settings page's own copy of GET /vault, which they start from.

Two constants name behaviour that the code allows and that breaks a property; both are guards of one action each.
`RetryRewrap`: a failed rewrap after a recovery may be submitted again, with the raw key already overwritten by
zeros. `RepeatUpgrade`: an upgrade may be sent by a tab that holds a random key, from a stale copy of the metadata, or by one
that was locked meanwhile and to which a late answer of a save has given a server version (`useVaultSync.tsx:71` sets it
on a locked store as well): `handleChangeMaster` encrypts what the store holds now and sends it for `serverVersion + 1`.

### 2.6 Browser

`cookie` is the jar, `win[w]` page and vault of a window, `call[w]` the requests it has under way in three slots (a
form, the sync manager, signing out); each request carries the session of the moment it was sent. Anybody may use any
window at any time and sign in there, whosever vault it or another one holds; a person is named only where a request
depends on what somebody types. The API executes a request in one step (`Deliver`), which the models of its handlers
justify; a login sets the cookie when its answer arrives.

The sync manager is told apart where it waits: `Save` reads key and version from the store (useVaultSync.tsx:56) and
encrypts, `SendSave` sends the PUT with the cookie of that moment (65), `Saved` writes the version to whatever store
there is by then (70), `FetchNewer` asks for the newer copy (77), `Decrypt` needs the key of the store that is open by then (84),
`Adopted` writes its version after that await (89). What is told apart of a snapshot is whose key encrypts it.

The code does let a person sign in beside the open vault of another one, and then the next upload goes astray (section
4). `beside` is a history variable that no guard reads: whenever a sign-in puts a session of p into the jar (`SignedIn`)
while a window shows, opens or encrypts the vault of k (`Holding`), it records the pair. The two properties say that this is the
only way: without that pair no snapshot of k's key becomes p's vault, and no session of p's is in the jar beside
k's open vault, whatever is locked, reloaded, lost, signed out or deleted in between.

Left out: a second form request of a window while one is under way; going back by the browser's history to the login page while the vault
of that window stays open; a recovery with the kit (`KeyHierarchy`). The sign-out button may be clicked at any
time, as the Sidebar is on every page that shows a name. `MaxFaults` bounds lost answers, reloads and deletions together.

### 2.7 Passkeys and the limiter

`ceremony[i]` is a challenge (`PendingChallenge`), live while it is in the map of the process; `signed` are the
responses authenticators have given, which may be sent any number of times. The finish routes run

    idle -SendLogin-> arrived -TakeChallenge-> taken -VerifyAssertion-> verified -WriteCounter-> counted
         -CreateSession-> done           (registration: SendRegistration, CheckRegistration, InsertPasskey)

with the limiter's `Check` in front of the sign-in. `Restart` empties challenges and limiter. Time is `now`, in steps;
a challenge lives `Lifetime` of them, the limiter's window is `Window`. Signatures hold by construction: a response
can only be made by the credential it names. `made`, `barred` and `came` are history variables.

The other routes behind the same limiter (login, challenge) are not told apart from `SendLogin`: they spend the same
budget. The registration limiter is the same code with other numbers.

### 2.8 Pages

`AutoLock` is the effect of `useAutoLock`: `idle` since the last activity, `elapsed` since the interval was set;
`Pass` is a step of time, which a due check (`Check`, `TimedOut`) precedes, since interval callbacks run on time while the
window is awake. `LocksInTime` bounds how late a vault is locked; a lock that comes too early is not forbidden by a
property. `Transfer` adds the store and the handlers of export and import, each with the contents of the
render it was clicked in; edits, adoptions by the sync manager, locks and unlocks come between click and end.
`Monitor` adds the scans of the monitor page: `mounts` holds those of every visit, only the last is on the screen, the
others go on and fill the caches. An item stands for its password, its id for the hash prefix that is sent. Answers of the two
services are taken as well-formed; `breaches.ts:119` counts any other answer with status 200 as clean.

`Console` is a page with rows of the server, or of one user: `page` says which one (users with their roles, devices, passkeys,
two-factor, audit). `calls[n]` is the request of the mount or of a click, with its answer once the API has given it.
Any request may be executed next (`Execute`, `LoseAnswer`) and any answer be handled next (`Loaded`, `SetUp`, `ActFailed`,
`ReadAgain`, `DropRow`), in whatever order they were sent, and no click waits for answers unless the code disables its
button. Others change the same rows (`OthersChange`). A passkey that was revoked does not come back under its row (`gone`).

Three history variables serve the properties, no guard reads them: `acted[r]`, what this window did last to a row, from
the moment the API does it until the answer is lost or somebody else changes the row; `old` in a call, the rows that were
changed by the page's own actions after the API had executed that reading; `overtaken`, those rows once the answer is on the screen. `Only` is
a recursive function that stands for `filter`. `Pages` follows one page per behaviour, because a page's state starts
anew when it is mounted.

## 3. Runs

| Run | Bounds | Checks |
|---|---|---|
| `vault_contention` | 2 accounts, 3 uploads, versions to 3, 2 blobs, 1 reader, retention 1 | `TypeOK`, `HistoryLinear`, `TornReadIsBehind`, `AnsweredIsDurable`, `OnlyExpiredRemoved` |
| `vault_register` | 1 account, 2 executions of either PUT, wraps, deletion, fairness | `ImplementsRegister`, `EveryRequestAnswered` |
| `sync_tabs` | 2 tabs, 1 item, 3 edits, 1 fault, 2 locks, fairness | `TypeOK`, `LastSentIsStored`, `NoEditForgotten`, `NoSilentOverwrite`, `VersionAdvances`, `EveryEditSettles` |
| `sync_stale_ack` | 1 tab, 1 edit, 1 lock | finds `NoSilentOverwrite` violated |
| `accounts` | 3 registrations, 2 addresses, one of them an admin's, 2 other requests, any account as target | `TypeOK`, `RegistrationComplete`, `DeletionRecorded`, `EarlyEventsSurvive` |
| `accounts_last_admin` | 2 accounts of configured admins, 2 requests | finds `AdminRemains` violated |
| `sessions` | 2 users, both admins, with or without two-factor, 4 executions of any kind | `TypeOK`, `SecondFactorFirst`, `EnabledSecretConfirmed`, `SignedOutStaysOut`, `ImplementsSignIns` |
| `keys` | 2 tabs, 1 master password, 2 vault keys, 1 kit, 2 versions, 2 handlers at once, 1 fault | `TypeOK`, `NewestOpens`, `KitOpens`, `CurrentTabHoldsKey`, `VaultKeyIsForever` |
| `keys_recovery` | 1 tab, 2 keys, 2 kits | finds `ReplacementBeforeVault` violated |
| `browser` | 2 people with two-factor, 2 windows, 2 sign-ins, 2 versions, 2 requests at once, 1 fault | `BrowserTypeOK`, `SavesFindTheirVault`, `OpenVaultOwnsTheJar` |
| `passkeys` | 2 people, 1 credential, 2 ceremonies, 3 requests from 2 addresses, 3 instants, 1 restart | `PasskeysTypeOK`, `SignInsAreEarned`, `BudgetIsKept` |
| `pages` | timeouts never, 1 and 3 with checks every 2 steps; 3 items, 5 user steps; 2 addresses, 2 visits of the monitor; 3 rows, 3 clicks, 1 fault, 1 change by others, any order of requests and answers | `PagesTypeOK`, `LocksInTime`, `ExportIsWhole`, `ImportKeepsItems`, `NothingUncheckedIsClean`, `ShowsOwnActions`, `NothingHangs` |

Why the bounds are enough. Three uploads are the least for two to compete for a version while a third has just
taken it, and for retention 1 to remove a version that a reader has seen; two accounts are the least for an
uncorrelated prune to show. Two tabs produce every conflict, since a tab only ever meets "somebody else's" upload;
three edits allow one before, one during and one after an upload; two locks end two sessions of a tab with uploads
of the first still in the network. What the bounds leave open the theorems of section 5 close for the properties
they cover.
Three registrations for two addresses let one account be deleted and its address be taken again while another
registration holds a stale check; two other requests are the least for two admins to act on each other or for a
deletion to meet a login, a role change or a second deletion.
Four executions of `Sessions` hold a half session, its challenge, a full session and the logout that races them, or a
sign-in, two setups and the verification between them; the second user shows whose sessions a sign-out ends.
In `keys` two versions are a vault and one snapshot after it, which is enough for an old key to meet a new one; two
vault keys are a first one and a replacement that must not happen; two handlers at once race a change of the master
password with a kit, an upgrade with an upload.
In `browser` two sign-ins in two windows are the least for one person's window to outlive the other's cookie, and two
requests at once for an upload beside a sign-in, a sign-out or an unlock. Both people have two factors: with a passkey
they sign in by one request, as with a password an account without two-factor does.
In `passkeys` three requests are a spent budget, a refusal and a later attempt, or one response sent three times;
three instants make a challenge expire and a window end in between; the second address lets a response be sent
again although the first address has no budget left.
In `pages` three steps of idle time and a check every two put the check before, on and after the timeout; three clicks
are two actions and a reading, or a setup, its confirmation and a disable, whose answers come in any order.
Every run but the two of `VaultServer` switches the deadlock check off: when edits, clicks, faults, registrations or
requests are used up the system may rest. Symmetry (of executions, accounts, tabs, keys, windows, people, other users' rows) is used in runs
without liveness only.

Fairness. `VaultServer` assumes that a handler that can execute its next statement does, and that a deletion that
holds its lock goes on: tokio keeps polling a future and PostgreSQL serves lock queues. No fairness is given to
arrivals, failures, the retention job, deletions or crashes. `VaultSync` assumes that an armed timer fires and that a
request is answered or fails. The second is a real assumption: `lib/api.ts` sets no timeout, and an upload
that is never answered keeps `inFlight` set and stops the tab's later uploads. The other modules state safety only.

Assumptions that are constants, each the guard of one action: `ReopenDuringUpload`, `RetryRewrap`, `RepeatUpgrade`. With
FALSE the properties hold, with TRUE TLC finds them violated; so these interleavings are the only ways, on these
instances, in which they break. `Browser`, `Console` and the other modules restrict no interleaving.

## 4. Findings

Shown by a run:

* `sync_stale_ack`: the answer of an upload is applied without asking whether its session still lasts
  (`useVaultSync.tsx:70`). Lock and unlock while it is on its way, with the vault read before the upload landed: the
  older contents take over the newer version number and overwrite the newer snapshot without a conflict.
* `accounts_last_admin`: the last-admin checks count in one statement and act in a later one without a lock
  (`admin.rs:207-220`, `account.rs:143-155`), so two overlapping requests leave no admin.
* `keys_recovery`: a recovery with the Secret Key opens the store first (`unlock/page.tsx:164`), and the redirect of an
  open store (`:31`) leaves the page before the mandatory new master password is set.

Stated as a definition that TLC violates when it is made the invariant or property of an instance, without a run of
its own:

* `ConflictsMerge` (`VaultSync`): documentation says that clients merge after a conflict; the sync manager replaces its
  contents by the server's copy, and the edit that met the conflict is lost (`useVaultSync.tsx:89`).
* `EventsOutliveUsers` (`Accounts`): an event logged between a deletion's UPDATE of the trail and its DELETE disappears
  in the cascade (`account.rs:172-197`). `EarlyEventsSurvive` states what does hold.
* `PreservedTrailKept` (`Accounts`): an admin may delete the tombstone's row, and with it the preserved trail of every
  deleted user (`account.rs:143-155`).
* `NewestOpens` with `RetryRewrap`: the raw key is zeroed before the upload of the new wrap (`unlock/page.tsx:194`); a
  failed upload that is submitted again stores a wrap of zeros, which opens nothing.
* `VaultKeyIsForever` with `RepeatUpgrade`: two tabs that both loaded a legacy vault's settings can both upgrade it; so
  can a tab whose store was locked between the click and the upload, with the empty contents of the locked store.
* `OldKitsWork` (`KeyHierarchy`): a new kit replaces the recovery wrap, and the text "Your previous key still works" is
  true only until the upload, not after it.
* `SavesFindTheirVault` and `OpenVaultOwnsTheJar` without their exception `beside`: a sign-in in a second window
  replaces the cookie under an open vault. The first window's next upload, or the one it is encrypting, goes to the other account,
  and if the versions match it is accepted there, encrypted with a key its owner does not have
  (`useVaultSync.tsx:56-65`).
* `LockedStoreIsEmpty` (`VaultSync`): a lock while the reload after a conflict decrypts leaves the reloaded items in the
  locked store (`useVaultSync.tsx:79-89`), until the next unlock replaces them.
* `CounterMovesForward` (`Passkeys`): the counter is read in one statement and written unconditionally in another
  (`passkeys.rs:236`, `:269`), so of two overlapping sign-ins the older one may be written last. An assertion with
  count 0 resets it as well (`webauthn/src/lib.rs:175`).
* `RevokedDeviceIsRevoked` (`Console`): `list_devices` selects `id::text` and reads the column as a `Uuid`, which sqlx
  refuses, so `unwrap_or_default` gives every device the nil id (`devices.rs:33`, `:49`); the page sends that id
  back, and the revocation answers 404. The page's handler has no catch.
* `AuditShowsItsQuery` (`Console`): the audit page shows whichever answer comes last (`audit/page.tsx:26-30`), so two
  overlapping readings may leave the events of another filter than the one that is named.
* `ShowsOwnActions` without its exception `overtaken`: a list that was read before an action and arrives after it undoes
  the action on the screen, for the users page from another action's reading or from Refresh, for passkeys from the
  reading after an addition (`users/page.tsx:38`, `settings/page.tsx:161`).

Met while reading, without a property:

* A login asks for the second factor if it was on before the password was verified (`auth.rs:290`, `:351`). Two-factor
  enabled in between does not gate it: the session is full. In `Sessions` this is `Login`, `Enable` by another
  execution, and then `CreateSession`.
* The limiter is a fixed window (`rate_limit.rs:13`), called a sliding one in `state.rs:24`: two budgets fit into one
  window's length (`BudgetIsKept` states this bound). Its map is never reaped.
* A passkey that is revoked between the read of its row (`passkeys.rs:236`) and the insert of the session (`:279`) still
  gets that session; `SignInsAreEarned` therefore speaks of the moment the request came.
* `login_options` keeps the email as it was sent (`passkeys.rs:206`), but looks it up trimmed: with blanks around it the
  finish always refuses. The web client never sends one.
* A revoked credential cannot be registered again: `load_passkey` does not see it, the unique index does, and the
  answer is an internal error.
* An import that ends after the store was locked writes its items into the locked store, which the next unlock
  replaces; an import repeated after the page was left adds the same items twice (`settings/page.tsx:103`); folders
  become the union with those of the click.
* A two-factor refresh is skipped while another one is loading (`useAuth.ts:23`); that one's answer may be of before
  the change.
* The monitor shows the report of any address under the account's address. A scan continues after the vault is locked.
* The list of `vault/page.tsx` is memoised without the items it shows (line 34): contents adopted meanwhile appear with
  the next search or tab. Clearing the clipboard after 30 seconds needs a focused document, is not repeated
  when it fails, and removes whatever is there by then.
* The comment in `middleware/auth.rs:95` allows half sessions the identity route; the code refuses it.

## 5. Proofs

All theorems hold for every value of the constants under the named assumptions of the modules, and are checked to
the last leaf.

`VaultServerProofs` proves `TypeCorrect`, then one inductive invariant for the rest. `VersionsContiguous` and
`OneBlobPerVersion` are not inductive: the insert is safe only because the version that was checked is still the
next one, which holds because the row lock is exclusive and everything that adds snapshots holds it. So the
invariant adds mutual exclusion of the holding phases and that a checked upload's version is `Newest + 1`
(`LockProtectsCheck`), and that the newest snapshot of an account survives pruning. From it follow
`HistoryCorrect` (`HistoryLinear`, the three together), `TornReadSafe`, `Durability` and the action property `RetentionSafe`.
`MAX` over a set is a CHOOSE, so the lemmas first show that a finite non-empty set of versions has a maximum.

The same module proves `Refinement`: the initial state maps to `VaultRegister`'s, `Commit` maps to `Accept` or
`Rewrap`, the failing check to `Refuse`, the failed lock to `Miss`, `CascadeDelete` to `Delete`, failures and crashes to
`Drop` of the uncommitted executions, and everything else to a stutter; `Prune` stutters because the newest
snapshot stays.

`VaultSyncProofs` proves `TypeCorrect` and `MarkerHonest` (`LastSentIsStored`) for both values of `ReopenDuringUpload`,
and `NothingForgotten`, `OverwriteFree` and the action property `TabsAdvance` (`VersionAdvances`) under
`~ReopenDuringUpload`. The strengthening says what each stage of a job knows: an accepted upload's contents are the
server's while its version is the newest, a fetched copy is at least as new as the version it claims, and a job whose
session ended belongs to a locked tab. `TabsAdvance` needs besides that only a locked tab is being opened: `OpenRow`
starts on one, and nothing but `Open`, which ends it, unlocks a tab.

`AccountsProofs` proves `TypeCorrect`, `UniqueEmails` and `CompleteWhenAnswered` (`RegistrationComplete`) without
conditions, and `DeletionsRecorded` and `EarlyEventsKept` under `Tombstone \notin Targets`, which
`PreservedTrailKept` shows to be needed. The strengthening: a row exists only for an inserted registration, an
execution under way has logged nothing yet, and the events an open deletion has re-pointed still belong to its
victim, which is what the locks on those rows guarantee.

`SessionsProofs` proves `TypeCorrect`, `SecondFactorEarned` (`SecondFactorFirst`), `SecretConfirmed`
(`EnabledSecretConfirmed`), `SignOutFinal` (`SignedOutStaysOut`) and the action property `LiveSessionsKept`
(`LiveSessionsStay`, which has no place in a run of its own beside `ImplementsSignIns`), for any number of users and
executions. The strengthening (`Progress`) says what each phase knows: an execution that has not begun has left no trace, a session is inserted once, by its own sign-in, so a row
never takes the place of another, and an execution that reached its UPDATE with a code has matched that code. That
the challenge's UPDATE writes one column of one row is what the two session properties rest on.
The same module proves `Refinement` (`ImplementsSignIns`): an insert maps to `Begin`, a right code of a challenge to `Prove`, the
challenge's UPDATE to `Promote`, the authentication of a logout or revocation to `Order` and its UPDATE to `SignOut`,
expiry, the failure of a sign-in and any other request to `End`, the failure of a sign-out to `Forget`; a row that is gone, was revoked
or has expired makes any of them a stutter, and so does the cleanup. It needs `Progress` once more: a challenge belongs
to a sign-in that was answered, so a new row is never proved already, and the cleanup never makes room for another one.

`KeyHierarchyProofs` proves `TypeCorrect`, `NeverLockedOut` (`NewestOpens`), `KitsOpen` (`KitOpens`), `SaversHoldKey`
(`CurrentTabHoldsKey`) and the action property `KeyNeverReplaced` (`VaultKeyIsForever`), for any number of tabs,
passwords, keys and kits, under `~RetryRewrap` and `~RepeatUpgrade`; section 4 has what each of the two breaks. None of the
properties is inductive: a wrap that will be stored has left the tab long before. So the invariant follows each key from
where it was read or generated, through the tab, its copy of the metadata and its handlers, to the request in the
network, and says of each that its key is the one of the snapshot with the version it names (`EncryptedBy`). A PUT
/vault is then safe because a stale one is refused by its version (`SnapshotSafe`), a PUT /vault/keys, which compares
nothing, because it is sent with a random key only, and that key never changes (`WrapsSafe`).

`BrowserProofs` proves `BrowserTypeCorrect`, `SavesReachTheirVault` (`SavesFindTheirVault`) and `JarIsOwned`
(`OpenVaultOwnsTheJar`), with no condition. The invariant follows the jar: whatever window holds the vault of k, be it open, being
opened or being encrypted, the session in the jar is k's or its person has signed in beside k (`Known`); an upload that
is sent carries such a session. Only an answered sign-in puts another session into the jar, and
what it finds in any window it records.

`PasskeysProofs` proves `PasskeysTypeCorrect`, `SignInsEarned` (`SignInsAreEarned`) and `BudgetKept` (`BudgetIsKept`) from two
invariants that do not meet. One says what an execution knows in each phase of its response: that it holds the
challenge alone, since the map gave it away once, and that the key it read is its credential's. The other counts the sign-ins of
an address: those of the limiter's window are at most its count, those of the window before at most the budget, and any
stretch of time as long as a window meets two of them at most. The counting is over sets of executions, so it
rests on the library's theorems about cardinality.

`PagesProofs` proves, with no condition, `PagesTypeCorrect`, `LocksOnTime` (`LocksInTime`), `ExportsWhole` (`ExportIsWhole`),
`CleanIsChecked` (`NothingUncheckedIsClean`), `OwnActionsShown` (`ShowsOwnActions`), `NothingLeftBusy` (`NothingHangs`) and the
action property `ImportsKeepItems` (`ImportKeepsItems`). The parts of the invariant: the idle time is below the timeout plus
the time since the interval was set, or the vault was opened since then (`LockSound`); a handler's contents are some
that the unlocked vault held (`ExportSound`); what a cache or a scan counts, a service has said; a loading page has a
request that will end it, and a busy row or section one that will release it (`BusySound`); and of every row in which
the screen differs from what was done, and that no older reading brought back, that some request under way will correct
it, or has failed and will say so, or the error is shown (`RowSound`). It holds in any order of answers because it asks
for one request per row, not for a queue; a reading that is answered already and older than an action has the row in its `old`.
What the recursive function `Only` returns is proved without induction: if it failed to be a sequence for some length it
would fail for a least one (`LeastNumber`, from the library's well-founded relations).

What the attempts to prove exposed, beside what the runs had found: the second way of `RepeatUpgrade` above, which the
instance of `keys` is too small for, and that `ShowsOwnActions` was first stated with an `acted` that was set when the
answer was handled, which two changes by others in between make false. Both are corrected in the models.

Model-checked only: liveness (`EveryRequestAnswered`, `EveryEditSettles`), which is beyond the prover. Every other property
of the passing runs is stated by one of the theorems, the conditional ones (`VaultSync`, `KeyHierarchy`, `Accounts`) under
the constants that the runs set as well.

## 6. Plan and what is not modelled

1. What still holds where a condition fails: which of the theorems keep a weaker form with `ReopenDuringUpload`,
   `RetryRewrap` or `RepeatUpgrade`, by a history variable as in `Browser`.

Not modelled, and why: cryptographic primitives and encodings (taken as model values); the password generator (local
randomness without state); strength scores, search and layout; the clipboard timers (five copies of one
`setTimeout`, whose effect depends on the focus the code cannot see); startup, configuration and routing; backup
and developer scripts; the unused `crates/vault`; `register_device`, which no page calls and whose row no session
refers to.
