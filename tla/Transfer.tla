------------------------------ MODULE Transfer ------------------------------
(***************************************************************************)
(* Export and import (settings/page, lib/vaultTransfer) beside everything  *)
(* that changes the vault store of the window meanwhile: edits, contents   *)
(* that the sync manager adopts, the auto-lock and a new unlock.  A        *)
(* handler keeps the items and folders of the render it was clicked in     *)
(* (its closure) and writes to the store it finds after its awaits; it     *)
(* outlives the page.                                                      *)
(***************************************************************************)
EXTENDS AutoLock, FiniteSets, SequencesExt

CONSTANTS
    Ids,       \* ids of items
    NewId,     \* the id of an item that is added, in no file of earlier times
    Folders,   \* folder names
    MaxItems,  \* bound on the length of the item list
    MaxSteps   \* bound on edits, adoptions and clicks

ASSUME TransferAssumption ==
    /\ NewId \in Ids /\ Ids # {NewId} /\ IsFiniteSet(Ids)
    /\ MaxItems \in Nat /\ Cardinality(Ids) <= MaxItems /\ MaxSteps \in Nat

VARIABLES
    store,     \* items and folders of the vault store
    handlers,  \* exports and imports under way
    busy,      \* what the page shows of them
    files,     \* export files on the disk
    held,      \* history: the contents an unlocked store ever held
    steps      \* user steps still allowed

transferVars == <<store, handlers, busy, files, held, steps>>

\* An item keeps its id; "new" is what an update makes of it.
Item == [id : Ids, body : {"old", "new"}]

Contents == [items : SeqOf(Item, MaxItems), folders : SUBSET Folders]

Nothing == [items |-> <<>>, folders |-> {}]

\* One item, and a file of an earlier time that has one more and a folder.
Start == [items |-> <<[id |-> CHOOSE i \in Ids : i # NewId, body |-> "old"]>>, folders |-> {}]

Backup == [items |-> SetToSeq([id : Ids \ {NewId}, body : {"old"}]), folders |-> Folders]

\* `copy` tells two handlers apart that were clicked with the same contents.
Handler == [kind : {"export", "import"}, seen : Contents, file : Contents, copy : 1 .. MaxSteps]

TransferTypeOK ==
    /\ AutoLockTypeOK
    /\ store \in Contents
    /\ handlers \subseteq Handler
    /\ busy \subseteq {"export", "import"}
    /\ files \subseteq Contents
    /\ held \subseteq Contents
    /\ steps \in 0 .. MaxSteps

TransferInit ==
    /\ ClockInit
    /\ store = Nothing
    /\ handlers = {}
    /\ busy = {}
    /\ files = {Backup}
    /\ held = {Start}
    /\ steps = MaxSteps

-----------------------------------------------------------------------------
(* The store *)

IdsOf(list) == {item.id : item \in ToSet(list)}

\* filter: the items of a list whose ids are in a set, in their order.  (A
\* function, so that its values can be reasoned about in proofs.)
Only(list, ids) ==
    LET kept[k \in 0 .. Len(list)] ==
            IF k = 0 THEN <<>>
            ELSE IF list[k].id \in ids THEN Append(kept[k - 1], list[k]) ELSE kept[k - 1]
    IN  kept[Len(list)]

Spend == steps > 0 /\ steps' = steps - 1

\* The store changes; while it is unlocked its contents are remembered.
Write(next, unlocked) ==
    /\ Len(next.items) <= MaxItems
    /\ store' = next
    /\ held' = IF unlocked THEN held \cup {next} ELSE held

\* addItem from the page of a new account, with a random id.
AddItem ==
    /\ open /\ Touch /\ Spend
    /\ \A c \in held : NewId \notin IdsOf(c.items)
    /\ Write([store EXCEPT !.items = Append(@, [id |-> NewId, body |-> "old"])], TRUE)
    /\ UNCHANGED <<handlers, busy, files>>

\* updateItem and removeItem, from the pages of the items.
UpdateItem(i) ==
    /\ open /\ Touch /\ Spend
    /\ Write([store EXCEPT !.items =
           [k \in DOMAIN @ |-> IF @[k].id = i THEN [@[k] EXCEPT !.body = "new"] ELSE @[k]]], TRUE)
    /\ UNCHANGED <<handlers, busy, files>>

RemoveItem(i) ==
    /\ open /\ Touch /\ Spend
    /\ Write([store EXCEPT !.items = Only(@, Ids \ {i})], TRUE)
    /\ UNCHANGED <<handlers, busy, files>>

\* applyServerContents: the sync manager replaces the contents, here by any
\* that were there before or came from another device.
Adopt(c) ==
    /\ open /\ Spend
    /\ Write(c, TRUE)
    /\ UNCHANGED <<clockVars, handlers, busy, files>>

Unlock(c) ==
    /\ ~ open /\ OpenClock /\ Spend
    /\ Write(c, TRUE)
    /\ UNCHANGED <<handlers, busy, files>>

LockStore ==
    /\ CloseClock
    /\ Write(Nothing, FALSE)
    /\ UNCHANGED <<handlers, busy, files>>

LockClicked == open /\ LockStore /\ Spend

\* The interval's callback calls lock().
TimedOut == Due /\ Expired /\ LockStore /\ UNCHANGED steps

-----------------------------------------------------------------------------
(* The Data section of the settings page *)

\* Both buttons need the vault key, and are disabled while the page knows of a
\* handler.
Click(kind, file) ==
    /\ open /\ Touch /\ Spend
    /\ kind \notin busy
    /\ \E n \in 1 .. MaxSteps :
           LET h(m) == [kind |-> kind, seen |-> store, file |-> file, copy |-> m] IN
           /\ h(n) \notin handlers /\ \A m \in 1 .. n - 1 : h(m) \in handlers
           /\ handlers' = handlers \cup {h(n)}
    /\ busy' = busy \cup {kind}
    /\ UNCHANGED <<store, files, held>>

\* Leaving the page and returning: its state is new, its handlers go on.
ReturnToPage ==
    /\ Spend
    /\ busy # {}
    /\ busy' = {}
    /\ IF open THEN Touch ELSE UNCHANGED clockVars
    /\ UNCHANGED <<store, handlers, files, held>>

Finish(h) ==
    /\ h \in handlers
    /\ handlers' = handlers \ {h}
    /\ busy' = busy \ {h.kind}
    /\ UNCHANGED <<clockVars, steps>>

\* Defect: the store is read when the key is derived.
ExportLate(h) ==
    /\ h.kind = "export"
    /\ Finish(h)
    /\ files' = files \cup {store}
    /\ UNCHANGED <<store, held>>

\* createEncryptedExport and the download.
Export(h) ==
    /\ h.kind = "export"
    /\ Finish(h)
    /\ files' = files \cup {h.seen}
    /\ UNCHANGED <<store, held>>

\* The items of the file whose id the store did not have when the button was
\* clicked, and the union of the folders of that moment with the file's.
New(h) == Only(h.file.items, Ids \ IdsOf(h.seen.items))

Union(h) == h.seen.folders \cup h.file.folders

\* Defect: the closure's items are written back with the new ones.
ImportWriteBack(h) ==
    /\ h.kind = "import"
    /\ Finish(h)
    /\ Write([items |-> h.seen.items \o New(h), folders |-> Union(h)], open)
    /\ UNCHANGED files

\* The key is not looked at again: a store locked meanwhile receives them too.
Import(h) ==
    /\ h.kind = "import"
    /\ Finish(h)
    /\ Write([items |-> store.items \o New(h), folders |-> Union(h)], open)
    /\ UNCHANGED files

\* Not JSON, not an export, or a wrong passphrase.
Refuse(h) ==
    /\ h.kind = "import"
    /\ Finish(h)
    /\ UNCHANGED <<store, files, held>>

-----------------------------------------------------------------------------

Clock == (Pass \/ Activity \/ Check) /\ UNCHANGED transferVars

Choose == \E t \in Timeouts : ChooseTimeout(t) /\ Spend
                              /\ UNCHANGED <<store, handlers, busy, files, held>>

TransferNext ==
    \/ Clock \/ Choose
    \/ AddItem
    \/ \E i \in Ids : UpdateItem(i) \/ RemoveItem(i)
    \/ \E c \in held \cup files : Adopt(c)
    \/ \E c \in held : Unlock(c)
    \/ LockClicked \/ TimedOut
    \/ Click("export", Nothing)
    \/ \E f \in files : Click("import", f)
    \/ ReturnToPage
    \/ \E h \in handlers : Export(h) \/ Import(h) \/ Refuse(h)

allVars == <<clockVars, transferVars>>

TransferSpec == TransferInit /\ [][TransferNext]_allVars

-----------------------------------------------------------------------------
(* Properties *)

\* "Existing items are never overwritten": an import that completes leaves
\* every item as and where it is in the store of that moment, whatever has
\* been edited, adopted, locked or imported since the click.
ImportKeepsItems ==
    [][\A h \in handlers : h.kind = "import" /\ h \notin handlers'
          => IsPrefix(store.items, store'.items)]_allVars

\* A backup is whole: what an export file holds an unlocked vault held at one
\* moment, although the vault may be locked or replaced before the file is
\* written.
ExportIsWhole == files \subseteq held \cup {Backup}

=============================================================================
