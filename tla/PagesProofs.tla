----------------------------- MODULE PagesProofs -----------------------------
(***************************************************************************)
(* Proofs about the pages of one window, for any items, addresses, rows    *)
(* and bounds: the inactivity lock, export and import, the breach monitor, *)
(* and the pages with rows of the server, whose requests and answers       *)
(* overtake each other.                                                    *)
(***************************************************************************)
EXTENDS Pages, FiniteSetTheorems, SequenceTheorems, WellFoundedInduction, TLAPS

-----------------------------------------------------------------------------
(* Sequences *)

LEMMA LeastNumber ==
    ASSUME NEW T \in SUBSET Nat, T # {}
    PROVE  \E x \in T : \A y \in T : x <= y
<1> DEFINE R == OpToRel(<, Nat)
<1>1. IsWellFoundedOn(R, Nat)
  BY NatLessThanWellFounded, Zenon
<1>2. \A x, y \in Nat : <<x, y>> \in R <=> x < y
  BY DEF OpToRel
<1> HIDE DEF R
<1>3. PICK x \in T : \A y \in T : ~ (<<y, x>> \in R)
  BY <1>1, WFMin
<1>4. ASSUME NEW y \in T PROVE x <= y
  <2>1. x \in Nat /\ y \in Nat
    OBVIOUS
  <2>2. ~ (y < x)
    BY <1>2, <1>3, <2>1
  <2>3. QED
    BY <2>1, <2>2
<1>5. QED
  BY <1>4

\* The kept part of a list: Only is the recursive function that its definition
\* chooses, because the least length without one would have one.
LEMMA OnlyIsSeq ==
    ASSUME NEW S, NEW l \in Seq(S), NEW ids
    PROVE  Only(l, ids) \in Seq(S)
<1> DEFINE n == Len(l)
           Next(g, k) == IF k = 0 THEN <<>>
                         ELSE IF l[k].id \in ids THEN Append(g[k - 1], l[k]) ELSE g[k - 1]
           Upto(m) == \E g : g = [k \in 0 .. m |-> Next(g, k)]
           kept == CHOOSE g : g = [k \in 0 .. n |-> Next(g, k)]
<1>1. n \in Nat /\ \A k \in 1 .. n : l[k] \in S
  BY ElementOfSeq, LenProperties
<1>2. Upto(n)
  <2> HIDE DEF n, Upto
  <2> DEFINE Bad == {m \in 0 .. n : ~ Upto(m)}
  <2>1. SUFFICES ASSUME Bad # {} PROVE FALSE
    BY <1>1
  <2>2. PICK m \in Bad : \A y \in Bad : m <= y
    <3>1. Bad \in SUBSET Nat
      BY <1>1
    <3> HIDE DEF Bad
    <3>2. QED
      BY <2>1, <3>1, LeastNumber
  <2>3. m \in 0 .. n /\ ~ Upto(m)
    OBVIOUS
  <2>4. CASE m = 0
    <3> DEFINE g == [k \in 0 .. 0 |-> <<>>]
    <3>1. g = [k \in 0 .. 0 |-> Next(g, k)]
      OBVIOUS
    <3>2. QED
      BY <2>3, <2>4, <3>1 DEF Upto
  <2>5. CASE m # 0
    <3>1. m - 1 \in 0 .. n /\ Upto(m - 1)
      <4>1. m - 1 \in 0 .. n /\ ~ (m <= m - 1)
        BY <1>1, <2>3, <2>5
      <4>2. m - 1 \notin Bad
        BY <2>2, <4>1
      <4>3. QED
        BY <4>1, <4>2
    <3>2. PICK g : g = [k \in 0 .. m - 1 |-> Next(g, k)]
      BY <3>1 DEF Upto
    <3> DEFINE h == [k \in 0 .. m |-> IF k < m THEN g[k] ELSE Next(g, k)]
    <3>3. ASSUME NEW k \in 0 .. m PROVE h[k] = Next(h, k)
      <4>1. k # 0 => h[k - 1] = g[k - 1]
        BY <2>3, <1>1
      <4>2. k < m \/ k = m
        BY <1>1, <2>3
      <4>3. h[k] = Next(g, k)
        <5>1. h[k] = IF k < m THEN g[k] ELSE Next(g, k)
          OBVIOUS
        <5>2. k < m => g[k] = Next(g, k)
          <6>1. k < m => k \in 0 .. m - 1
            BY <1>1, <2>3
          <6>2. QED
            BY <3>2, <6>1
        <5> HIDE DEF h, Next
        <5>3. QED
          BY <5>1, <5>2
      <4>4. QED
        BY <4>1, <4>3
    <3>4. h = [k \in 0 .. m |-> Next(h, k)]
      BY <3>3
    <3>5. QED
      BY <2>3, <3>4 DEF Upto
  <2>6. QED
    BY <2>4, <2>5
<1>3. kept = [k \in 0 .. n |-> Next(kept, k)]
  BY <1>2 DEF Upto
<1> HIDE DEF kept, n
<1>4. kept[n] \in Seq(S)
  <2> DEFINE Bad == {m \in 0 .. n : kept[m] \notin Seq(S)}
  <2>1. SUFFICES ASSUME Bad # {} PROVE FALSE
    BY <1>1
  <2>2. PICK m \in Bad : \A y \in Bad : m <= y
    <3>1. Bad \in SUBSET Nat
      BY <1>1
    <3> HIDE DEF Bad
    <3>2. QED
      BY <2>1, <3>1, LeastNumber
  <2>3. m \in 0 .. n /\ kept[m] \notin Seq(S)
    OBVIOUS
  <2>4. m # 0
    BY <1>3, <2>3
  <2>5. m - 1 \in 0 .. n /\ kept[m - 1] \in Seq(S)
    BY <1>1, <2>2, <2>3, <2>4
  <2>6. kept[m] = IF l[m].id \in ids THEN Append(kept[m - 1], l[m]) ELSE kept[m - 1]
    BY <1>3, <2>3, <2>4
  <2>7. l[m] \in S
    BY <1>1, <2>3, <2>4
  <2>8. QED
    BY <2>3, <2>5, <2>6, <2>7, AppendProperties
<1>5. Only(l, ids) = kept[n]
  BY DEF Only, kept, n
<1>6. QED
  BY <1>4, <1>5

LEMMA BoundedSeqs ==
    ASSUME NEW S, NEW n \in Nat, NEW s
    PROVE  s \in SeqOf(S, n) <=> s \in Seq(S) /\ Len(s) <= n
<1>1. s \in SeqOf(S, n) <=> \E m \in 0 .. n : s \in [1 .. m -> S]
  BY DEF SeqOf
<1>2. ASSUME NEW m \in 0 .. n, s \in [1 .. m -> S] PROVE s \in Seq(S) /\ Len(s) <= n
  <2>1. s \in Seq(S) /\ Len(s) = m
    BY <1>2
  <2>2. QED
    BY <2>1
<1>3. ASSUME s \in Seq(S), Len(s) <= n PROVE s \in [1 .. Len(s) -> S] /\ Len(s) \in 0 .. n
  BY <1>3, LenProperties
<1>4. QED
  BY <1>1, <1>2, <1>3

LEMMA SetToSeqIsSeq ==
    ASSUME NEW S, IsFiniteSet(S)
    PROVE  SetToSeq(S) \in [1 .. Cardinality(S) -> S]
<1>1. Cardinality(S) \in Nat /\ ExistsBijection(1 .. Cardinality(S), S)
  BY FS_CardinalityType, Zenon
<1>2. \E f \in [1 .. Cardinality(S) -> S] : IsInjective(f)
  BY <1>1 DEF ExistsBijection, Bijection, Injection, IsInjective
<1>3. QED
  BY <1>2 DEF SetToSeq

-----------------------------------------------------------------------------
(* Export and import, and the inactivity lock *)

\* Since the last check, activity, choice or unlocking the idle time has grown
\* with the time of the interval; then it was below the timeout, or the vault
\* had just been unlocked.
LockSound == open /\ timeout > 0 => idle < timeout + elapsed \/ opened <= elapsed

\* A window that is unlocked shows contents that were held, and an export was
\* clicked in one.
ExportSound ==
    /\ open => store \in held
    /\ files \subseteq held \cup {Backup}
    /\ \A h \in handlers : h.kind = "export" => h.seen \in held

TransferInv == TransferTypeOK /\ LockSound /\ ExportSound

LEMMA FilesFit == Start \in Contents /\ Backup \in Contents /\ Nothing \in Contents
<1> DEFINE Old == [id : Ids \ {NewId}, body : {"old"}]
<1>1. IsFiniteSet(Ids \ {NewId}) /\ Cardinality(Ids \ {NewId}) = Cardinality(Ids) - 1
  BY TransferAssumption, FS_RemoveElement
<1>2. Cardinality(Ids) \in Nat
  BY TransferAssumption, FS_CardinalityType
<1>3. IsFiniteSet(Old) /\ Cardinality(Old) <= Cardinality(Ids \ {NewId})
  <2> DEFINE f == [i \in Ids \ {NewId} |-> [id |-> i, body |-> "old"]]
  <2>1. f \in Surjection(Ids \ {NewId}, Old)
    BY DEF Surjection
  <2> HIDE DEF f, Old
  <2>2. QED
    BY <1>1, <2>1, FS_Surjection, Zenon
<1>4. SetToSeq(Old) \in [1 .. Cardinality(Old) -> Old] /\ Cardinality(Old) \in Nat
  BY <1>3, SetToSeqIsSeq, FS_CardinalityType
<1>5. SetToSeq(Old) \in SeqOf(Item, MaxItems)
  <2>1. Cardinality(Old) \in 0 .. MaxItems
    BY <1>1, <1>2, <1>3, <1>4, TransferAssumption
  <2>2. Old \subseteq Item
    BY DEF Item
  <2> HIDE DEF Old
  <2>3. SetToSeq(Old) \in [1 .. Cardinality(Old) -> Item]
    BY <1>4, <2>2
  <2>4. QED
    BY <2>1, <2>3 DEF SeqOf
<1>6. Backup \in Contents
  BY <1>5 DEF Backup, Contents
<1>7. Start \in Contents
  <2>1. 1 \in 0 .. MaxItems
    <3>1. Cardinality(Ids) # 0
      BY TransferAssumption, FS_EmptySet
    <3>2. QED
      BY <1>2, <3>1, TransferAssumption
  <2>2. (CHOOSE i \in Ids : i # NewId) \in Ids
    BY TransferAssumption
  <2> DEFINE item == [id |-> CHOOSE i \in Ids : i # NewId, body |-> "old"]
  <2>3. item \in Item
    BY <2>2 DEF Item
  <2> HIDE DEF item
  <2>4. <<item>> \in [1 .. 1 -> Item]
    BY <2>3
  <2>5. QED
    BY <2>1, <2>4 DEF Start, Contents, SeqOf, item
<1>8. Nothing \in Contents
  <2>1. <<>> \in Seq(Item) /\ Len(<<>>) <= MaxItems
    BY TransferAssumption
  <2>2. QED
    BY <2>1, BoundedSeqs, TransferAssumption DEF Nothing, Contents
<1>9. QED
  BY <1>6, <1>7, <1>8

LEMMA ClockStep ==
    ASSUME AutoLockTypeOK, LockSound,
           \/ Pass \/ Touch \/ CloseClock \/ OpenClock \/ Check \/ UNCHANGED clockVars
           \/ \E t \in Timeouts : ChooseTimeout(t)
    PROVE  AutoLockTypeOK' /\ LockSound'
<1>1. /\ Period \in Nat \ {0} /\ Horizon \in Nat /\ Timeouts \subseteq Nat
      /\ timeout \in Nat /\ idle \in 0 .. Horizon /\ elapsed \in 0 .. Period
      /\ opened \in 0 .. Horizon
  BY TimesAssumption DEF AutoLockTypeOK
<1>2. CASE Pass
  <2>1. idle' \in 0 .. Horizon /\ idle' <= idle + 1
    BY <1>1, <1>2 DEF Pass, Later
  <2>2. opened' \in 0 .. Horizon /\ (open => opened' <= opened + 1)
    BY <1>1, <1>2 DEF Pass, Later
  <2>3. elapsed' \in 0 .. Period /\ (open => elapsed' = elapsed + 1)
    BY <1>1, <1>2 DEF Pass
  <2>4. QED
    BY <1>1, <1>2, <2>1, <2>2, <2>3 DEF Pass, AutoLockTypeOK, LockSound
<1>3. CASE Touch
  BY <1>1, <1>3 DEF Touch, AutoLockTypeOK, LockSound
<1>4. CASE CloseClock
  <2>1. open' = FALSE /\ elapsed' = 0 /\ opened' = 0 /\ timeout' = timeout /\ idle' = idle
    BY <1>4 DEF CloseClock
  <2>2. LockSound'
    BY <2>1 DEF LockSound
  <2>3. 0 \in 0 .. Period /\ 0 \in 0 .. Horizon
    BY <1>1
  <2>4. QED
    BY <2>1, <2>2, <2>3 DEF AutoLockTypeOK
<1>5. CASE OpenClock
  BY <1>1, <1>5 DEF OpenClock, AutoLockTypeOK, LockSound
<1>6. CASE Check
  BY <1>1, <1>6 DEF Check, Expired, AutoLockTypeOK, LockSound
<1>7. CASE UNCHANGED clockVars
  BY <1>7 DEF clockVars, AutoLockTypeOK, LockSound
<1>8. ASSUME NEW t \in Timeouts, ChooseTimeout(t) PROVE AutoLockTypeOK' /\ LockSound'
  BY <1>1, <1>8 DEF ChooseTimeout, AutoLockTypeOK, LockSound
<1>9. QED
  BY <1>2, <1>3, <1>4, <1>5, <1>6, <1>7, <1>8

LEMMA StoreSeq ==
    ASSUME NEW c \in Contents
    PROVE  c.items \in Seq(Item) /\ Len(c.items) <= MaxItems /\ c.folders \subseteq Folders
  BY BoundedSeqs, TransferAssumption DEF Contents

LEMMA WriteStep ==
    ASSUME TransferTypeOK, NEW next, NEW unlocked \in BOOLEAN, Write(next, unlocked),
           next \in [items : Seq(Item), folders : SUBSET Folders]
    PROVE  /\ store' \in Contents /\ held' \subseteq Contents /\ held \subseteq held'
           /\ unlocked => store' \in held'
<1>1. next \in Contents
  <2>1. Len(next.items) <= MaxItems
    BY DEF Write
  <2>2. next.items \in SeqOf(Item, MaxItems)
    BY <2>1, BoundedSeqs, TransferAssumption
  <2>3. QED
    BY <2>2 DEF Contents
<1>2. QED
  BY <1>1 DEF Write, TransferTypeOK

\* A step of the store leaves handlers, page and files alone.
LEMMA StoreStep ==
    ASSUME TransferInv, AutoLockTypeOK', LockSound',
           store' \in Contents, held' \subseteq Contents, held \subseteq held',
           open' => store' \in held', steps' \in 0 .. MaxSteps,
           UNCHANGED <<handlers, busy, files>>
    PROVE  TransferInv'
<1>1. TransferTypeOK'
  BY DEF TransferInv, TransferTypeOK
<1>2. ExportSound'
  BY DEF TransferInv, ExportSound
<1>3. QED
  BY <1>1, <1>2 DEF TransferInv

LEMMA SpendType ==
    ASSUME TransferTypeOK, Spend
    PROVE  steps' \in 0 .. MaxSteps
  BY TransferAssumption DEF TransferTypeOK, Spend

LEMMA AddItemStep == ASSUME TransferInv, AddItem PROVE TransferInv'
<1> DEFINE next == [store EXCEPT !.items = Append(@, [id |-> NewId, body |-> "old"])]
<1>1. TransferTypeOK /\ open /\ open' /\ Touch /\ Spend /\ Write(next, TRUE)
  BY DEF AddItem, TransferInv, Touch
<1>2. next \in [items : Seq(Item), folders : SUBSET Folders]
  <2>1. store.items \in Seq(Item) /\ store \in Contents
    BY <1>1, StoreSeq DEF TransferTypeOK
  <2>2. [id |-> NewId, body |-> "old"] \in Item
    BY TransferAssumption DEF Item
  <2>3. Append(store.items, [id |-> NewId, body |-> "old"]) \in Seq(Item)
    BY <2>1, <2>2, AppendProperties
  <2>4. QED
    BY <2>1, <2>3 DEF Contents
<1> HIDE DEF next
<1>3. /\ store' \in Contents /\ held' \subseteq Contents /\ held \subseteq held'
      /\ store' \in held'
  BY <1>1, <1>2, WriteStep
<1>4. AutoLockTypeOK' /\ LockSound'
  BY <1>1, ClockStep DEF TransferInv, TransferTypeOK
<1>5. QED
  BY <1>1, <1>3, <1>4, SpendType, StoreStep DEF AddItem

LEMMA UpdateItemStep == ASSUME TransferInv, NEW i \in Ids, UpdateItem(i) PROVE TransferInv'
<1> DEFINE items == [k \in DOMAIN store.items |->
                        IF store.items[k].id = i THEN [store.items[k] EXCEPT !.body = "new"]
                        ELSE store.items[k]]
           next == [store EXCEPT !.items = items]
<1>1. TransferTypeOK /\ open /\ open' /\ Touch /\ Spend /\ Write(next, TRUE)
  BY DEF UpdateItem, TransferInv, Touch
<1>2. next \in [items : Seq(Item), folders : SUBSET Folders]
  <2>1. store.items \in Seq(Item) /\ store \in Contents
    BY <1>1, StoreSeq DEF TransferTypeOK
  <2>2. \A k \in DOMAIN store.items :
            store.items[k] \in Item /\ [store.items[k] EXCEPT !.body = "new"] \in Item
    <3>1. \A item \in Item : [item EXCEPT !.body = "new"] \in Item
      BY DEF Item
    <3>2. \A k \in DOMAIN store.items : store.items[k] \in Item
      BY <2>1
    <3>3. QED
      BY <3>1, <3>2
  <2>3. items \in [1 .. Len(store.items) -> Item] /\ Len(store.items) \in Nat
    BY <2>1, <2>2
  <2> HIDE DEF items
  <2>4. items \in Seq(Item)
    BY <2>3
  <2>5. QED
    BY <2>1, <2>4 DEF Contents
<1> HIDE DEF next
<1>3. /\ store' \in Contents /\ held' \subseteq Contents /\ held \subseteq held'
      /\ store' \in held'
  BY <1>1, <1>2, WriteStep
<1>4. AutoLockTypeOK' /\ LockSound'
  BY <1>1, ClockStep DEF TransferInv, TransferTypeOK
<1>5. QED
  BY <1>1, <1>3, <1>4, SpendType, StoreStep DEF UpdateItem

LEMMA RemoveItemStep == ASSUME TransferInv, NEW i \in Ids, RemoveItem(i) PROVE TransferInv'
<1> DEFINE next == [store EXCEPT !.items = Only(@, Ids \ {i})]
<1>1. TransferTypeOK /\ open /\ open' /\ Touch /\ Spend /\ Write(next, TRUE)
  BY DEF RemoveItem, TransferInv, Touch
<1>2. next \in [items : Seq(Item), folders : SUBSET Folders]
  <2>1. store.items \in Seq(Item) /\ store \in Contents
    BY <1>1, StoreSeq DEF TransferTypeOK
  <2>2. Only(store.items, Ids \ {i}) \in Seq(Item)
    BY <2>1, OnlyIsSeq
  <2>3. QED
    BY <2>1, <2>2 DEF Contents
<1> HIDE DEF next
<1>3. /\ store' \in Contents /\ held' \subseteq Contents /\ held \subseteq held'
      /\ store' \in held'
  BY <1>1, <1>2, WriteStep
<1>4. AutoLockTypeOK' /\ LockSound'
  BY <1>1, ClockStep DEF TransferInv, TransferTypeOK
<1>5. QED
  BY <1>1, <1>3, <1>4, SpendType, StoreStep DEF RemoveItem

LEMMA OldContents ==
    ASSUME TransferInv, NEW c \in held \cup files
    PROVE  c \in Contents /\ c \in [items : Seq(Item), folders : SUBSET Folders]
<1>1. c \in Contents
  BY DEF TransferInv, TransferTypeOK
<1>2. QED
  BY <1>1, StoreSeq DEF Contents

LEMMA AdoptStep == ASSUME TransferInv, NEW c \in held \cup files, Adopt(c) PROVE TransferInv'
<1>1. TransferTypeOK /\ Write(c, TRUE) /\ Spend /\ UNCHANGED clockVars
  BY DEF Adopt, TransferInv
<1>2. /\ store' \in Contents /\ held' \subseteq Contents /\ held \subseteq held'
      /\ store' \in held'
  BY <1>1, OldContents, WriteStep
<1>3. AutoLockTypeOK' /\ LockSound'
  BY <1>1, ClockStep DEF TransferInv, TransferTypeOK
<1>4. QED
  BY <1>1, <1>2, <1>3, SpendType, StoreStep DEF Adopt

LEMMA UnlockStep == ASSUME TransferInv, NEW c \in held, Unlock(c) PROVE TransferInv'
<1>1. TransferTypeOK /\ Write(c, TRUE) /\ Spend /\ OpenClock
  BY DEF Unlock, TransferInv
<1>2. /\ store' \in Contents /\ held' \subseteq Contents /\ held \subseteq held'
      /\ store' \in held'
  BY <1>1, OldContents, WriteStep
<1>3. AutoLockTypeOK' /\ LockSound'
  BY <1>1, ClockStep DEF TransferInv, TransferTypeOK
<1>4. QED
  BY <1>1, <1>2, <1>3, SpendType, StoreStep DEF Unlock

LEMMA LockStep ==
    ASSUME TransferInv, LockStore, steps' \in 0 .. MaxSteps PROVE TransferInv'
<1>1. TransferTypeOK /\ Write(Nothing, FALSE) /\ CloseClock
  BY DEF LockStore, TransferInv
<1>2. Nothing \in [items : Seq(Item), folders : SUBSET Folders]
  BY StoreSeq, FilesFit DEF Contents
<1>3. /\ store' \in Contents /\ held' \subseteq Contents /\ held \subseteq held'
  BY <1>1, <1>2, WriteStep
<1>4. AutoLockTypeOK' /\ LockSound' /\ ~ open'
  BY <1>1, ClockStep DEF TransferInv, TransferTypeOK, CloseClock
<1>5. QED
  BY <1>3, <1>4, StoreStep DEF LockStore

LEMMA LocksStep == ASSUME TransferInv, LockClicked \/ TimedOut PROVE TransferInv'
<1>1. LockStore /\ steps' \in 0 .. MaxSteps
  BY SpendType DEF LockClicked, TimedOut, TransferInv, TransferTypeOK
<1>2. QED
  BY <1>1, LockStep

LEMMA ClickStep ==
    ASSUME TransferInv, NEW kind \in {"export", "import"}, NEW file \in Contents,
           Click(kind, file)
    PROVE  TransferInv'
<1>0. PICK n \in 1 .. MaxSteps :
          handlers' = handlers \cup {[kind |-> kind, seen |-> store, file |-> file, copy |-> n]}
  BY DEF Click
<1> DEFINE h == [kind |-> kind, seen |-> store, file |-> file, copy |-> n]
<1>1. /\ TransferTypeOK /\ Touch /\ open /\ Spend /\ handlers' = handlers \cup {h}
      /\ busy' = busy \cup {kind} /\ UNCHANGED <<store, files, held>> /\ open' = open
  BY <1>0 DEF Click, TransferInv, Touch
<1>2. h \in Handler /\ h.seen \in held
  BY <1>1 DEF Handler, TransferTypeOK, TransferInv, ExportSound
<1> HIDE DEF h
<1>3. AutoLockTypeOK' /\ LockSound' /\ steps' \in 0 .. MaxSteps
  BY <1>1, ClockStep, SpendType DEF TransferInv, TransferTypeOK
<1>4. TransferTypeOK'
  BY <1>1, <1>2, <1>3 DEF TransferTypeOK
<1>5. ExportSound'
  BY <1>1, <1>2 DEF TransferInv, ExportSound
<1>6. QED
  BY <1>3, <1>4, <1>5 DEF TransferInv

LEMMA ReturnStep == ASSUME TransferInv, ReturnToPage PROVE TransferInv'
<1>1. /\ TransferTypeOK /\ Spend /\ busy' = {} /\ UNCHANGED <<store, handlers, files, held>>
      /\ Touch \/ UNCHANGED clockVars
  BY DEF ReturnToPage, TransferInv
<1>2. AutoLockTypeOK' /\ LockSound' /\ steps' \in 0 .. MaxSteps /\ open' = open
  BY <1>1, ClockStep, SpendType DEF TransferInv, TransferTypeOK, Touch, clockVars
<1>3. TransferTypeOK' /\ ExportSound'
  BY <1>1, <1>2 DEF TransferTypeOK, ExportSound, TransferInv
<1>4. QED
  BY <1>2, <1>3 DEF TransferInv

\* A handler that ends.
LEMMA FinishStep ==
    ASSUME TransferInv, NEW h, Finish(h), store' \in Contents, held' \subseteq Contents,
           held \subseteq held', open => store' \in held', files' \subseteq held' \cup {Backup}
    PROVE  TransferInv'
<1>1. /\ UNCHANGED clockVars /\ steps' = steps /\ handlers' \subseteq handlers
      /\ busy' \subseteq busy /\ open' = open
  BY DEF Finish, clockVars
<1>2. AutoLockTypeOK' /\ LockSound'
  BY <1>1, ClockStep DEF TransferInv, TransferTypeOK
<1>3. TransferTypeOK'
  BY <1>1, <1>2, FilesFit DEF TransferInv, TransferTypeOK
<1>4. ExportSound'
  BY <1>1 DEF TransferInv, ExportSound
<1>5. QED
  BY <1>2, <1>3, <1>4 DEF TransferInv

LEMMA ExportStep == ASSUME TransferInv, NEW h \in handlers, Export(h) PROVE TransferInv'
<1>1. /\ Finish(h) /\ h.kind = "export" /\ files' = files \cup {h.seen}
      /\ UNCHANGED <<store, held>>
  BY DEF Export
<1>2. /\ store \in Contents /\ held \subseteq Contents /\ (open => store \in held)
      /\ files' \subseteq held \cup {Backup}
  BY <1>1 DEF TransferInv, TransferTypeOK, ExportSound
<1>3. QED
  BY <1>1, <1>2, FinishStep

LEMMA NewIsSeq ==
    ASSUME TransferInv, NEW h \in handlers
    PROVE  New(h) \in Seq(Item) /\ store.items \in Seq(Item) /\ Union(h) \subseteq Folders
<1>1. store \in Contents /\ h.file \in Contents /\ h.seen \in Contents
  BY DEF TransferInv, TransferTypeOK, Handler
<1>2. /\ h.file.items \in Seq(Item) /\ store.items \in Seq(Item)
      /\ h.file.folders \subseteq Folders /\ h.seen.folders \subseteq Folders
  BY <1>1, StoreSeq
<1>3. QED
  BY <1>2, OnlyIsSeq DEF New, Union

LEMMA ImportStep == ASSUME TransferInv, NEW h \in handlers, Import(h) PROVE TransferInv'
<1> DEFINE next == [items |-> store.items \o New(h), folders |-> Union(h)]
<1>1. /\ Finish(h) /\ Write(next, open) /\ files' = files /\ TransferTypeOK
      /\ open \in BOOLEAN
  BY DEF Import, TransferInv, TransferTypeOK, AutoLockTypeOK
<1>2. next \in [items : Seq(Item), folders : SUBSET Folders]
  <2>1. store.items \o New(h) \in Seq(Item)
    BY NewIsSeq, ConcatProperties
  <2>2. QED
    BY <2>1, NewIsSeq
<1> HIDE DEF next
<1>3. /\ store' \in Contents /\ held' \subseteq Contents /\ held \subseteq held'
      /\ open => store' \in held'
  BY <1>1, <1>2, WriteStep
<1>4. files' \subseteq held' \cup {Backup}
  BY <1>1, <1>3 DEF TransferInv, ExportSound
<1>5. QED
  BY <1>1, <1>3, <1>4, FinishStep

LEMMA RefuseStep == ASSUME TransferInv, NEW h \in handlers, Refuse(h) PROVE TransferInv'
<1>1. /\ Finish(h) /\ UNCHANGED <<store, files, held>>
  BY DEF Refuse
<1>2. /\ store \in Contents /\ held \subseteq Contents /\ (open => store \in held)
      /\ files \subseteq held \cup {Backup}
  BY DEF TransferInv, TransferTypeOK, ExportSound
<1>3. QED
  BY <1>1, <1>2, FinishStep

LEMMA ClockOnly ==
    ASSUME TransferInv,
           \/ (Pass \/ Activity \/ Check) /\ UNCHANGED transferVars
           \/ Choose
    PROVE  TransferInv'
<1>1. /\ UNCHANGED <<store, handlers, busy, files, held>>
      /\ steps' \in 0 .. MaxSteps
  BY SpendType DEF Choose, transferVars, TransferInv, TransferTypeOK
<1>2. AutoLockTypeOK' /\ LockSound' /\ open' = open
  BY ClockStep DEF TransferInv, TransferTypeOK, Choose, Activity, Pass, Touch, Check, ChooseTimeout
<1>3. QED
  BY <1>1, <1>2, StoreStep DEF TransferInv, TransferTypeOK, ExportSound

LEMMA TransferInvStep == ASSUME TransferInv, TransferNext PROVE TransferInv'
<1>1. CASE Clock \/ Choose
  BY <1>1, ClockOnly DEF Clock
<1>2. CASE AddItem
  BY <1>2, AddItemStep
<1>3. ASSUME NEW i \in Ids, UpdateItem(i) \/ RemoveItem(i) PROVE TransferInv'
  BY <1>3, UpdateItemStep, RemoveItemStep
<1>4. ASSUME NEW c \in held \cup files, Adopt(c) PROVE TransferInv'
  BY <1>4, AdoptStep
<1>5. ASSUME NEW c \in held, Unlock(c) PROVE TransferInv'
  BY <1>5, UnlockStep
<1>6. CASE LockClicked \/ TimedOut
  BY <1>6, LocksStep
<1>7. CASE Click("export", Nothing)
  BY <1>7, ClickStep, FilesFit
<1>8. ASSUME NEW f \in files, Click("import", f) PROVE TransferInv'
  BY <1>8, ClickStep, OldContents
<1>9. CASE ReturnToPage
  BY <1>9, ReturnStep
<1>10. ASSUME NEW h \in handlers, Export(h) \/ Import(h) \/ Refuse(h) PROVE TransferInv'
  BY <1>10, ExportStep, ImportStep, RefuseStep
<1>11. QED
  BY <1>1, <1>2, <1>3, <1>4, <1>5, <1>6, <1>7, <1>8, <1>9, <1>10 DEF TransferNext

LEMMA TransferStutter == ASSUME TransferInv, UNCHANGED allVars PROVE TransferInv'
  BY DEF allVars, clockVars, transferVars, TransferInv, TransferTypeOK, AutoLockTypeOK,
         LockSound, ExportSound

LEMMA PrefixOf ==
    ASSUME NEW S, NEW s \in Seq(S), NEW t \in Seq(S)
    PROVE  IsPrefix(s, s) /\ IsPrefix(s, s \o t)
<1>1. Len(s) \in Nat /\ Len(t) \in Nat /\ Len(s \o t) = Len(s) + Len(t)
  BY LenProperties, ConcatProperties
<1>2. SubSeq(s \o t, 1, Len(s)) = SubSeq(s, 1, Len(s))
  OBVIOUS
<1>3. QED
  BY <1>1, <1>2 DEF IsPrefix

LEMMA KeepsItems ==
    ASSUME TransferInv, TransferNext,
           NEW h \in handlers, h.kind = "import", h \notin handlers'
    PROVE  IsPrefix(store.items, store'.items)
<1>1. PICK g \in handlers : Export(g) \/ Import(g) \/ Refuse(g)
  BY DEF TransferNext, Clock, Choose, AddItem, UpdateItem, RemoveItem, Adopt, Unlock, LockClicked,
         TimedOut, LockStore, Click, ReturnToPage, transferVars
<1>2. g = h
  BY <1>1 DEF Export, Import, Refuse, Finish
<1>3. CASE Refuse(h)
  BY <1>3, NewIsSeq, PrefixOf DEF Refuse
<1>4. CASE Import(h)
  <2>1. store' = [items |-> store.items \o New(h), folders |-> Union(h)]
    BY <1>4 DEF Import, Write
  <2>2. QED
    BY <2>1, NewIsSeq, PrefixOf
<1>5. QED
  BY <1>1, <1>2, <1>3, <1>4 DEF Export

-----------------------------------------------------------------------------
(* The breach monitor: what is cached, or counted in a scan, was said *)

Mount == [passwords : Scan, mail : Mail]

ScanSound(s, told) ==
    /\ \A k \in 1 .. s.scanned : <<s.seen[k], Verdict(s.seen[k], s.pwned)>> \in told
    /\ \A p \in s.pwned : <<p, "known">> \in told
    /\ s.scanned <= Len(s.seen)
    /\ s.state = "fetching" => s.scanned < Len(s.seen)
    /\ s.state = "done" => s.scanned = Len(s.seen)

MailSound(m, told) == m.state = "done" => <<m.target, m.result>> \in told

CachesSound ==
    /\ \A x \in Item \cup Emails : verdicts[x] # "unknown" => <<x, verdicts[x]>> \in said
    /\ \A x \in Item : ranges[x.id] # {} => <<x, Verdict(x, UNION ranges[x.id])>> \in said

MonitorInv ==
    /\ MonitorTypeOK
    /\ ranges \in [Ids -> SUBSET SUBSET Item]
    /\ mounts \in Seq(Mount) /\ mounts # <<>>
    /\ CachesSound
    /\ \A n \in DOMAIN mounts :
           ScanSound(mounts[n].passwords, said) /\ MailSound(mounts[n].mail, said)

LEMMA Grown ==
    ASSUME NEW told, NEW more, told \subseteq more
    PROVE  /\ \A s : ScanSound(s, told) => ScanSound(s, more)
           /\ \A m : MailSound(m, told) => MailSound(m, more)
<1>1. ASSUME NEW s, ScanSound(s, told) PROVE ScanSound(s, more)
  BY <1>1 DEF ScanSound
<1>2. ASSUME NEW m, MailSound(m, told) PROVE MailSound(m, more)
  BY <1>2 DEF MailSound
<1>3. QED
  BY <1>1, <1>2

\* One mount changes, and what was said is kept.
LEMMA MountStep ==
    ASSUME MonitorInv, NEW n \in DOMAIN mounts, NEW m \in Mount,
           mounts' = [mounts EXCEPT ![n] = m], said \subseteq said',
           said' \subseteq (Item \cup Emails) \X Verdicts,
           ScanSound(m.passwords, said'), MailSound(m.mail, said'),
           verdicts' \in [Item \cup Emails -> Verdicts \cup {"unknown"}],
           ranges' \in [Ids -> SUBSET SUBSET Item], CachesSound',
           corpus' \subseteq Item \cup Emails
    PROVE  MonitorInv'
<1>1. mounts \in Seq(Mount) /\ mounts # <<>>
  BY DEF MonitorInv
<1>2. /\ mounts' \in Seq(Mount) /\ mounts' # <<>> /\ DOMAIN mounts' = DOMAIN mounts
      /\ mounts'[n] = m /\ \A k \in DOMAIN mounts : k # n => mounts'[k] = mounts[k]
  <2>1. mounts' \in Seq(Mount) /\ Len(mounts') = Len(mounts)
    BY <1>1, ExceptSeq
  <2>2. Len(mounts) # 0
    BY <1>1, EmptySeq
  <2>3. QED
    BY <1>1, <2>1, <2>2, EmptySeq
<1>3. \A k \in DOMAIN mounts' :
          ScanSound(mounts'[k].passwords, said') /\ MailSound(mounts'[k].mail, said')
  BY <1>2, Grown DEF MonitorInv
<1>4. \A k \in DOMAIN mounts' : mounts'[k].passwords \in Scan /\ mounts'[k].mail \in Mail
  <2>1. \A k \in DOMAIN mounts' : mounts'[k] \in Mount
    BY <1>2, ElementOfSeq
  <2>2. QED
    BY <2>1 DEF Mount
<1>5. MonitorTypeOK'
  BY <1>4 DEF MonitorTypeOK
<1>6. QED
  BY <1>2, <1>3, <1>5 DEF MonitorInv

LEMMA TheMount ==
    ASSUME MonitorInv, NEW n \in DOMAIN mounts
    PROVE  /\ mounts[n] \in Mount
           /\ mounts[n].passwords \in Scan /\ mounts[n].mail \in Mail
           /\ ScanSound(mounts[n].passwords, said) /\ MailSound(mounts[n].mail, said)
<1>1. mounts[n] \in Mount
  BY ElementOfSeq DEF MonitorInv
<1>2. QED
  BY <1>1 DEF MonitorInv, MonitorTypeOK

\* The scan of one mount changes.
LEMMA ScanStep ==
    ASSUME MonitorInv, NEW n \in DOMAIN mounts, NEW s \in Scan, Passwords(n, s),
           said \subseteq said', said' \subseteq (Item \cup Emails) \X Verdicts,
           ScanSound(s, said'),
           verdicts' \in [Item \cup Emails -> Verdicts \cup {"unknown"}],
           ranges' \in [Ids -> SUBSET SUBSET Item], CachesSound',
           corpus' \subseteq Item \cup Emails
    PROVE  MonitorInv'
<1> DEFINE m == [mounts[n] EXCEPT !.passwords = s]
<1>1. mounts[n] \in Mount /\ MailSound(mounts[n].mail, said)
  BY TheMount
<1>2. m \in Mount /\ m.passwords = s /\ m.mail = mounts[n].mail
  BY <1>1 DEF Mount
<1>3. mounts' = [mounts EXCEPT ![n] = m]
  BY DEF Passwords
<1>4. MailSound(m.mail, said')
  BY <1>1, <1>2, Grown
<1> HIDE DEF m
<1>5. QED
  BY <1>2, <1>3, <1>4, MountStep

\* The report on the address changes.
LEMMA MailStep ==
    ASSUME MonitorInv, NEW n \in DOMAIN mounts, NEW r \in Mail,
           mounts' = [mounts EXCEPT ![n].mail = r],
           said \subseteq said', said' \subseteq (Item \cup Emails) \X Verdicts,
           MailSound(r, said'),
           verdicts' \in [Item \cup Emails -> Verdicts \cup {"unknown"}],
           CachesSound', UNCHANGED <<ranges, corpus>>
    PROVE  MonitorInv'
<1> DEFINE m == [mounts[n] EXCEPT !.mail = r]
<1>1. mounts[n] \in Mount /\ ScanSound(mounts[n].passwords, said)
  BY TheMount
<1>2. m \in Mount /\ m.mail = r /\ m.passwords = mounts[n].passwords
  BY <1>1 DEF Mount
<1>3. mounts' = [mounts EXCEPT ![n] = m]
  OBVIOUS
<1>4. ScanSound(m.passwords, said')
  BY <1>1, <1>2, Grown
<1>5. ranges' \in [Ids -> SUBSET SUBSET Item] /\ corpus' \subseteq Item \cup Emails
  BY DEF MonitorInv, MonitorTypeOK
<1> HIDE DEF m
<1>6. QED
  BY <1>2, <1>3, <1>4, <1>5, MountStep

LEMMA Types ==
    ASSUME MonitorInv
    PROVE  /\ said \subseteq (Item \cup Emails) \X Verdicts
           /\ verdicts \in [Item \cup Emails -> Verdicts \cup {"unknown"}]
           /\ ranges \in [Ids -> SUBSET SUBSET Item]
           /\ corpus \subseteq Item \cup Emails /\ CachesSound
           /\ Len(mounts) \in Nat \ {0} /\ Len(mounts) \in DOMAIN mounts
<1>1. mounts \in Seq(Mount) /\ mounts # <<>>
  BY DEF MonitorInv
<1>2. Len(mounts) \in Nat /\ Len(mounts) # 0 /\ DOMAIN mounts = 1 .. Len(mounts)
  BY <1>1, EmptySeq, LenProperties
<1>3. QED
  BY <1>2 DEF MonitorInv, MonitorTypeOK

LEMMA RecordedSound ==
    ASSUME NEW told, NEW s \in Scan, ScanSound(s, told), s.scanned < Len(s.seen),
           NEW v \in Verdicts, <<Current(s), v>> \in told
    PROVE  Recorded(s, v) \in Scan /\ ScanSound(Recorded(s, v), told) /\ Current(s) \in Item
<1> DEFINE t == Recorded(s, v)
           p == Current(s)
           pwned == IF v = "known" THEN s.pwned \cup {p} ELSE s.pwned
<1>1. /\ s.seen \in Seq(Item) /\ Len(s.seen) <= MaxItems /\ s.scanned \in Nat
      /\ s.pwned \subseteq Item
  BY BoundedSeqs, TransferAssumption DEF Scan
<1>2. s.scanned + 1 \in 1 .. Len(s.seen) /\ s.scanned + 1 \in 0 .. MaxItems
  BY <1>1, LenProperties, TransferAssumption
<1>3. p \in Item
  BY <1>1, <1>2, ElementOfSeq DEF Current
<1>4. /\ t.state = "scanning" /\ t.seen = s.seen /\ t.scanned = s.scanned + 1
      /\ t.pwned = pwned
  BY DEF Recorded, Scan
<1>5. t \in Scan
  BY <1>1, <1>2, <1>3 DEF Recorded, Scan
<1>6. \A q \in pwned : <<q, "known">> \in told
  BY DEF ScanSound
<1>7. ASSUME NEW k \in 1 .. s.scanned + 1
      PROVE  <<s.seen[k], Verdict(s.seen[k], pwned)>> \in told
  <2>1. CASE k \in 1 .. s.scanned
    <3>1. <<s.seen[k], Verdict(s.seen[k], s.pwned)>> \in told
      BY <2>1 DEF ScanSound
    <3>2. CASE s.seen[k] \in pwned
      BY <1>6, <3>2 DEF Verdict
    <3>3. CASE s.seen[k] \notin pwned
      BY <3>1, <3>3 DEF Verdict
    <3>4. QED
      BY <3>2, <3>3
  <2>2. CASE k = s.scanned + 1
    <3>1. s.seen[k] = p
      BY <2>2 DEF Current
    <3>2. CASE p \in pwned
      BY <1>6, <3>1, <3>2 DEF Verdict
    <3>3. CASE p \notin pwned
      BY <3>1, <3>3 DEF Verdict, Verdicts
    <3>4. QED
      BY <3>2, <3>3
  <2>3. QED
    BY <1>1, <2>1, <2>2
<1> HIDE DEF t, p, pwned
<1>8. ScanSound(t, told)
  BY <1>1, <1>2, <1>4, <1>6, <1>7 DEF ScanSound
<1>9. QED
  BY <1>3, <1>5, <1>8 DEF t, p

LEMMA StoreItems ==
    ASSUME TransferInv
    PROVE  store.items \in SeqOf(Item, MaxItems) /\ store.items \in Seq(Item)
  BY StoreSeq DEF TransferInv, TransferTypeOK, Contents

LEMMA ScanPasswordsStep ==
    ASSUME TransferInv, MonitorInv, ScanPasswords PROVE MonitorInv'
<1> DEFINE n == Len(mounts)
           s == [state |-> "scanning", seen |-> store.items, scanned |-> 0, pwned |-> {}]
<1>1. n \in DOMAIN mounts /\ Passwords(n, s) /\ UNCHANGED <<corpus, ranges, verdicts, said>>
  BY Types DEF ScanPasswords
<1>2. s \in Scan
  BY StoreItems, TransferAssumption DEF Scan
<1>3. ScanSound(s, said)
  BY StoreItems, LenProperties DEF ScanSound
<1>4. CachesSound'
  BY <1>1, Types DEF CachesSound
<1> HIDE DEF s, n
<1>5. QED
  BY <1>1, <1>2, <1>3, <1>4, ScanStep, Types

LEMMA Remembered ==
    ASSUME MonitorInv, NEW p \in Item \cup Emails, NEW v \in Verdicts,
           said \subseteq said', <<p, v>> \in said',
           verdicts' = [verdicts EXCEPT ![p] = v], UNCHANGED ranges
    PROVE  verdicts' \in [Item \cup Emails -> Verdicts \cup {"unknown"}] /\ CachesSound'
<1>1. /\ verdicts \in [Item \cup Emails -> Verdicts \cup {"unknown"}] /\ CachesSound
  BY Types
<1>2. verdicts' \in [Item \cup Emails -> Verdicts \cup {"unknown"}]
  BY <1>1
<1>3. \A x \in Item \cup Emails : verdicts'[x] = IF x = p THEN v ELSE verdicts[x]
  BY <1>1
<1>4. QED
  BY <1>1, <1>2, <1>3 DEF CachesSound

LEMMA VerdictType == \A x, known : Verdict(x, known) \in Verdicts
  BY DEF Verdict, Verdicts

LEMMA LookUpStep ==
    ASSUME MonitorInv, NEW n \in DOMAIN mounts, LookUp(n) PROVE MonitorInv'
<1> DEFINE s == mounts[n].passwords
           p == Current(s)
           found == IF verdicts[p] # "unknown" THEN verdicts[p]
                    ELSE Verdict(p, UNION ranges[p.id])
<1>1. /\ s.state = "scanning" /\ s.scanned < Len(s.seen)
      /\ UNCHANGED <<corpus, ranges, said>>
  BY DEF LookUp
<1>2. s \in Scan /\ ScanSound(s, said)
  BY TheMount
<1>3. p \in Item
  <2> HIDE DEF s, p
  <2>1. s.seen \in Seq(Item) /\ s.scanned \in Nat
    BY <1>2, BoundedSeqs, TransferAssumption DEF Scan
  <2>2. s.scanned + 1 \in 1 .. Len(s.seen)
    BY <1>1, <2>1, LenProperties
  <2>3. QED
    BY <2>1, <2>2, ElementOfSeq DEF Current, p
<1>4. CASE Passwords(n, [s EXCEPT !.state = "fetching"]) /\ UNCHANGED verdicts
  <2> DEFINE t == [s EXCEPT !.state = "fetching"]
  <2>1. t \in Scan /\ t.state = "fetching" /\ t.seen = s.seen /\ t.scanned = s.scanned
        /\ t.pwned = s.pwned
    BY <1>2 DEF Scan
  <2>2. ScanSound(t, said)
    BY <1>1, <1>2, <2>1 DEF ScanSound
  <2>3. CachesSound'
    BY <1>1, <1>4, Types DEF CachesSound
  <2> HIDE DEF t
  <2>4. Passwords(n, t)
    BY <1>4 DEF t
  <2>5. QED
    BY <1>1, <1>4, <2>1, <2>2, <2>3, <2>4, ScanStep, Types
<1>5. CASE /\ verdicts[p] # "unknown" \/ ranges[p.id] # {}
           /\ Passwords(n, Recorded(s, found))
           /\ verdicts' = [verdicts EXCEPT ![p] = found]
  <2>1. found \in Verdicts /\ <<p, found>> \in said
    <3>1. CASE verdicts[p] # "unknown"
      BY <1>3, <3>1, Types DEF CachesSound
    <3>2. CASE verdicts[p] = "unknown"
      BY <1>3, <1>5, <3>2, Types, VerdictType DEF CachesSound
    <3>3. QED
      BY <3>1, <3>2
  <2> HIDE DEF found, p
  <2>2. Recorded(s, found) \in Scan /\ ScanSound(Recorded(s, found), said)
    BY <1>1, <1>2, <2>1, RecordedSound DEF p
  <2>3. verdicts' \in [Item \cup Emails -> Verdicts \cup {"unknown"}] /\ CachesSound'
    BY <1>1, <1>3, <1>5, <2>1, Remembered
  <2>4. QED
    BY <1>1, <1>5, <2>2, <2>3, ScanStep, Types
<1>6. QED
  BY <1>4, <1>5 DEF LookUp

LEMMA RangeArrivesStep ==
    ASSUME MonitorInv, NEW n \in DOMAIN mounts, RangeArrives(n) PROVE MonitorInv'
<1> DEFINE s == mounts[n].passwords
           p == Current(s)
           v == Verdict(p, corpus)
           alike == {x \in Item : x.id = p.id}
           answer == {x \in Item \cap corpus : x.id = p.id}
<1>1. /\ s.state = "fetching" /\ corpus' = corpus
      /\ ranges' = [ranges EXCEPT ![p.id] = {answer}]
      /\ verdicts' = [verdicts EXCEPT ![p] = v]
      /\ Passwords(n, Recorded(s, v))
      /\ said' = said \cup {<<x, Verdict(x, corpus)>> : x \in alike}
  BY DEF RangeArrives, Tell
<1>2. s \in Scan /\ ScanSound(s, said) /\ s.scanned < Len(s.seen)
  BY <1>1, TheMount DEF ScanSound
<1>3. said \subseteq said' /\ said' \subseteq (Item \cup Emails) \X Verdicts
  BY <1>1, Types, VerdictType
<1>4. p \in Item
  <2> HIDE DEF s, p
  <2>1. s.seen \in Seq(Item) /\ s.scanned \in Nat
    BY <1>2, BoundedSeqs, TransferAssumption DEF Scan
  <2>2. s.scanned + 1 \in 1 .. Len(s.seen)
    BY <1>2, <2>1, LenProperties
  <2>3. QED
    BY <2>1, <2>2, ElementOfSeq DEF Current, p
<1> HIDE DEF p
<1>5. p.id \in Ids /\ answer \in SUBSET Item /\ UNION {answer} = answer
  BY <1>4 DEF Item
<1>6. v \in Verdicts /\ <<p, v>> \in said'
  BY <1>1, <1>4, VerdictType
<1>7. Recorded(s, v) \in Scan /\ ScanSound(Recorded(s, v), said')
  <2>1. ScanSound(s, said')
    BY <1>2, <1>3, Grown
  <2> HIDE DEF s, v
  <2>2. QED
    BY <1>2, <1>6, <2>1, RecordedSound DEF p
<1>8. ranges' \in [Ids -> SUBSET SUBSET Item]
  <2> HIDE DEF answer
  <2>1. {answer} \in SUBSET SUBSET Item
    BY <1>5
  <2>2. ranges \in [Ids -> SUBSET SUBSET Item]
    BY Types
  <2>3. QED
    BY <1>1, <2>1, <2>2
<1>9. \A i \in Ids : ranges'[i] = IF i = p.id THEN {answer} ELSE ranges[i]
  <2> HIDE DEF answer
  <2>1. QED
    BY <1>1, Types
<1>10. verdicts' \in [Item \cup Emails -> Verdicts \cup {"unknown"}]
  BY <1>1, <1>6, Types
<1>11. CachesSound'
  <2>1. ASSUME NEW x \in Item \cup Emails, verdicts'[x] # "unknown"
        PROVE  <<x, verdicts'[x]>> \in said'
    <3>1. verdicts'[x] = IF x = p THEN v ELSE verdicts[x]
      BY <1>1, Types
    <3>2. CASE x = p
      BY <1>6, <3>1, <3>2
    <3>3. CASE x # p
      BY <1>3, <2>1, <3>1, <3>3, Types DEF CachesSound
    <3>4. QED
      BY <3>2, <3>3
  <2>2. ASSUME NEW x \in Item, ranges'[x.id] # {}
        PROVE  <<x, Verdict(x, UNION ranges'[x.id])>> \in said'
    <3>1. x.id \in Ids
      BY DEF Item
    <3>2. CASE x.id = p.id
      <4>1. UNION ranges'[x.id] = answer
        BY <1>5, <1>9, <3>1, <3>2
      <4>2. Verdict(x, answer) = Verdict(x, corpus)
        BY <3>2 DEF Verdict
      <4>3. <<x, Verdict(x, corpus)>> \in said'
        BY <1>1, <3>2
      <4>4. QED
        BY <4>1, <4>2, <4>3
    <3>3. CASE x.id # p.id
      <4>1. ranges'[x.id] = ranges[x.id]
        BY <1>9, <3>1, <3>3
      <4>2. QED
        BY <1>3, <2>2, <4>1, Types DEF CachesSound
    <3>4. QED
      BY <3>2, <3>3
  <2>3. QED
    BY <2>1, <2>2 DEF CachesSound
<1>12. corpus' \subseteq Item \cup Emails
  BY <1>1, Types
<1> HIDE DEF s, v
<1>13. QED
  BY <1>1, <1>3, <1>7, <1>8, <1>10, <1>11, <1>12, ScanStep

LEMMA ScanEndsStep ==
    ASSUME MonitorInv, NEW n \in DOMAIN mounts, RangeFails(n) \/ FinishScan(n) PROVE MonitorInv'
<1> DEFINE s == mounts[n].passwords
<1>1. s \in Scan /\ ScanSound(s, said)
  BY TheMount
<1>2. PICK state \in {"error", "done"} :
          /\ Passwords(n, [s EXCEPT !.state = state])
          /\ state = "done" => s.scanned = Len(s.seen)
  BY DEF RangeFails, FinishScan
<1> DEFINE t == [s EXCEPT !.state = state]
<1>3. t \in Scan /\ t.state = state /\ t.seen = s.seen /\ t.scanned = s.scanned
      /\ t.pwned = s.pwned
  BY <1>1 DEF Scan
<1>4. ScanSound(t, said)
  BY <1>1, <1>2, <1>3 DEF ScanSound
<1>5. UNCHANGED <<corpus, ranges, verdicts, said>>
  BY DEF RangeFails, FinishScan
<1>6. CachesSound'
  BY <1>5, Types DEF CachesSound
<1> HIDE DEF s
<1>7. Passwords(n, t)
  BY <1>2
<1> HIDE DEF t
<1>8. QED
  BY <1>3, <1>4, <1>5, <1>6, <1>7, ScanStep, Types

LEMMA ScanEmailStep ==
    ASSUME MonitorInv, NEW e \in Emails, ScanEmail(e) PROVE MonitorInv'
<1> DEFINE n == Len(mounts)
           m == mounts[n].mail
           r == IF verdicts[e] = "unknown" THEN [m EXCEPT !.state = "scanning", !.target = e]
                ELSE [state |-> "done", target |-> e, result |-> verdicts[e]]
<1>1. /\ mounts' = [mounts EXCEPT ![n].mail = r]
      /\ UNCHANGED <<corpus, ranges, verdicts, said>>
  BY DEF ScanEmail
<1>2. n \in DOMAIN mounts /\ m \in Mail
  BY Types, TheMount
<1> HIDE DEF n
<1>3. r \in Mail /\ MailSound(r, said)
  <2>1. CASE verdicts[e] = "unknown"
    <3>1. r \in Mail /\ r.state = "scanning"
      BY <1>2, <2>1 DEF Mail
    <3>2. QED
      BY <3>1 DEF MailSound
  <2>2. CASE verdicts[e] # "unknown"
    <3>1. r = [state |-> "done", target |-> e, result |-> verdicts[e]]
      BY <2>2
    <3>2. verdicts[e] \in Verdicts /\ <<e, verdicts[e]>> \in said
      BY <2>2, Types DEF CachesSound
    <3>3. QED
      BY <3>1, <3>2 DEF Mail, MailSound
  <2>3. QED
    BY <2>1, <2>2
<1>4. CachesSound'
  BY <1>1, Types DEF CachesSound
<1> HIDE DEF r
<1>5. QED
  BY <1>1, <1>2, <1>3, <1>4, MailStep, Types

LEMMA BreachesStep ==
    ASSUME MonitorInv, NEW n \in DOMAIN mounts, BreachesArrive(n) \/ BreachesFail(n)
    PROVE  MonitorInv'
<1> DEFINE m == mounts[n].mail
           found == Verdict(m.target, corpus)
<1>1. m \in Mail /\ m.target \in Emails /\ found \in Verdicts
  BY TheMount, VerdictType DEF Mail
<1>2. CASE BreachesArrive(n)
  <2> DEFINE r == [m EXCEPT !.state = "done", !.result = found]
  <2>1. /\ mounts' = [mounts EXCEPT ![n].mail = r]
        /\ verdicts' = [verdicts EXCEPT ![m.target] = found]
        /\ said' = said \cup {<<x, Verdict(x, corpus)>> : x \in {m.target}}
        /\ UNCHANGED <<corpus, ranges>>
    BY <1>2 DEF BreachesArrive, Tell
  <2>2. /\ said \subseteq said' /\ <<m.target, found>> \in said'
        /\ said' \subseteq (Item \cup Emails) \X Verdicts
    BY <1>1, <2>1, Types
  <2>3. r \in Mail /\ r.target = m.target /\ r.result = found
    <3> HIDE DEF found
    <3>1. QED
      BY <1>1 DEF Mail
  <2>4. MailSound(r, said')
    BY <2>2, <2>3 DEF MailSound
  <2>5. verdicts' \in [Item \cup Emails -> Verdicts \cup {"unknown"}] /\ CachesSound'
    BY <1>1, <2>1, <2>2, Remembered
  <2> HIDE DEF r, found
  <2>6. QED
    BY <2>1, <2>2, <2>3, <2>4, <2>5, MailStep
<1>3. CASE BreachesFail(n)
  <2> DEFINE r == [m EXCEPT !.state = "error"]
  <2>1. /\ mounts' = [mounts EXCEPT ![n].mail = r]
        /\ UNCHANGED <<corpus, ranges, verdicts, said>>
    BY <1>3 DEF BreachesFail
  <2>2. r \in Mail /\ r.state = "error"
    BY <1>1 DEF Mail
  <2>3. MailSound(r, said)
    BY <2>2 DEF MailSound
  <2>4. CachesSound'
    BY <2>1, Types DEF CachesSound
  <2> HIDE DEF r
  <2>5. QED
    BY <2>1, <2>2, <2>3, <2>4, MailStep, Types
<1>4. QED
  BY <1>2, <1>3

LEMMA NewMountSound ==
    NewMount \in Mount /\ ScanSound(NewMount.passwords, said) /\ MailSound(NewMount.mail, said)
<1>1. (CHOOSE e \in Emails : TRUE) \in Emails
  BY MonitorAssumption
<1>2. <<>> \in SeqOf(Item, MaxItems)
  <2>1. <<>> \in Seq(Item) /\ Len(<<>>) <= MaxItems
    BY TransferAssumption
  <2>2. QED
    BY <2>1, BoundedSeqs, TransferAssumption
<1>3. NewMount.passwords \in Scan /\ NewMount.mail \in Mail /\ NewMount \in Mount
  BY <1>1, <1>2, TransferAssumption DEF NewMount, Mount, Scan, Mail, Verdicts
<1>4. ScanSound(NewMount.passwords, said) /\ MailSound(NewMount.mail, said)
  BY DEF NewMount, ScanSound, MailSound
<1>5. QED
  BY <1>3, <1>4

LEMMA OpenMonitorStep == ASSUME MonitorInv, OpenMonitor PROVE MonitorInv'
<1>1. mounts' = Append(mounts, NewMount) /\ UNCHANGED <<corpus, ranges, verdicts, said>>
  BY DEF OpenMonitor
<1>2. mounts \in Seq(Mount)
  BY DEF MonitorInv
<1>3. /\ mounts' \in Seq(Mount) /\ mounts' # <<>>
      /\ \A k \in DOMAIN mounts' : mounts'[k] = NewMount \/ (k \in DOMAIN mounts /\ mounts'[k] = mounts[k])
  BY <1>1, <1>2, NewMountSound, AppendProperties
<1>4. \A k \in DOMAIN mounts' :
          /\ mounts'[k] \in Mount
          /\ ScanSound(mounts'[k].passwords, said) /\ MailSound(mounts'[k].mail, said)
  BY <1>3, TheMount, NewMountSound
<1>5. CachesSound' /\ MonitorTypeOK'
  BY <1>1, <1>4, Types DEF CachesSound, MonitorTypeOK, Mount
<1>6. QED
  BY <1>1, <1>3, <1>4, <1>5, Types DEF MonitorInv

LEMMA LeakStep == ASSUME MonitorInv, NEW x \in Item \cup Emails, Leak(x) PROVE MonitorInv'
<1>1. corpus' = corpus \cup {x} /\ UNCHANGED <<ranges, verdicts, mounts, said>>
  BY DEF Leak
<1>2. QED
  BY <1>1 DEF MonitorInv, MonitorTypeOK, CachesSound

LEMMA MonitorStutter == ASSUME MonitorInv, UNCHANGED monitorVars PROVE MonitorInv'
  BY DEF monitorVars, MonitorInv, MonitorTypeOK, CachesSound

LEMMA MonitorInvStep ==
    ASSUME TransferInv, MonitorInv, MonitorNext PROVE TransferInv' /\ MonitorInv'
<1>1. CASE Scans /\ UNCHANGED allVars
  <2>1. CASE ScanPasswords
    BY <1>1, <2>1, ScanPasswordsStep, TransferStutter
  <2>2. ASSUME NEW e \in Emails, ScanEmail(e) PROVE TransferInv' /\ MonitorInv'
    BY <1>1, <2>2, ScanEmailStep, TransferStutter
  <2>3. ASSUME NEW n \in DOMAIN mounts,
               \/ LookUp(n) \/ RangeArrives(n) \/ RangeFails(n) \/ FinishScan(n)
               \/ BreachesArrive(n) \/ BreachesFail(n)
        PROVE  TransferInv' /\ MonitorInv'
    BY <1>1, <2>3, LookUpStep, RangeArrivesStep, ScanEndsStep, BreachesStep, TransferStutter
  <2>4. QED
    BY <1>1, <2>1, <2>2, <2>3 DEF Scans
<1>2. ASSUME Spend, NEW x \in ToSet(store.items) \cup Emails, Leak(x),
             UNCHANGED <<clockVars, store, handlers, busy, files, held>>
      PROVE  TransferInv' /\ MonitorInv'
  <2>1. x \in Item \cup Emails
    <3>1. ToSet(store.items) \subseteq Item
      BY StoreItems, ElementOfSeq DEF ToSet
    <3>2. QED
      BY <3>1
  <2>2. MonitorInv'
    BY <1>2, <2>1, LeakStep
  <2>3. AutoLockTypeOK' /\ LockSound' /\ steps' \in 0 .. MaxSteps /\ open' = open
    BY <1>2, ClockStep, SpendType DEF TransferInv, TransferTypeOK, clockVars
  <2>4. TransferInv'
    BY <1>2, <2>3, StoreStep DEF TransferInv, TransferTypeOK, ExportSound
  <2>5. QED
    BY <2>2, <2>4
<1>3. CASE OpenMonitor /\ IF open THEN UNCHANGED allVars ELSE \E c \in held : Unlock(c)
  BY <1>3, OpenMonitorStep, UnlockStep, TransferStutter
<1>4. CASE LockClicked /\ UNCHANGED monitorVars
  BY <1>4, LocksStep, MonitorStutter
<1>5. ASSUME NEW c \in files, Adopt(c), UNCHANGED monitorVars PROVE TransferInv' /\ MonitorInv'
  BY <1>5, AdoptStep, MonitorStutter
<1>6. QED
  BY <1>1, <1>2, <1>3, <1>4, <1>5 DEF MonitorNext

-----------------------------------------------------------------------------
(* Rows of the server: the invariant *)

Under(n) == calls[n].stage # "none"

\* What a page asks for.
Ops(p) ==
    CASE p = "users" -> {"load", "reload", "act", "revoke"}
      [] p = "passkeys" -> {"load", "reload", "act"}
      [] p = "factor" -> {"load", "reload", "act", "setup"}
      [] p = "devices" -> {"load", "act"}
      [] OTHER -> {"load"}

\* The next click finds its call free.
CallsSound ==
    /\ \A n \in Calls : calls[n].ask.op \in Ops(page)
    /\ \A n \in Calls : Under(n) => n = 0 \/ n > left.clicks

\* An answer that confirms an action on a row.
Confirms(n, r) ==
    /\ calls[n].stage = "answered" /\ calls[n].ok
    /\ calls[n].ask.op = "act" /\ calls[n].ask.row = r

\* An answer with a list.
HasRead(n) == calls[n].stage = "answered" /\ calls[n].ok /\ calls[n].ask.op \in Readings

\* The server has what was done, and so has every answer in the rows that no
\* later action has changed; a passkey that was revoked stays so.
ServerSound ==
    /\ page \notin {"users", "passkeys", "factor"} => \A r \in Rows : acted[r] = {}
    /\ \A r \in Rows : acted[r] \subseteq {server[r]}
    /\ page # "passkeys" => gone = {}
    /\ \A r \in gone : ~ server[r]
    /\ \A n \in Calls, r \in Rows :
           HasRead(n) /\ r \notin calls[n].old => acted[r] \subseteq {calls[n].rows[r]}
    /\ \A n \in Calls, r \in Rows :
           page = "passkeys" /\ Confirms(n, r) /\ ~ calls[n].ask.to => r \in gone

\* The requests that keep a row or a section busy.
Marks(q) == q.op # "load" /\ Rereads(q)

\* The readings that show the page or the auth store as loading.
Asking(q) == q.op \in (IF page = "factor" THEN Readings ELSE {"load"})

BusySound ==
    /\ loading => \E n \in Calls :
           Under(n) /\ Asking(calls[n].ask)
    /\ marked # {} => \E n \in Calls : Under(n) /\ Marks(calls[n].ask)

\* An action that switches two-factor on and has been confirmed.
SwitchedOn(n) ==
    /\ Under(n) /\ calls[n].ask.to
    /\ calls[n].ask.op = "reload" \/ Confirms(n, Self)

\* The two-factor section waits for one answer at a time, but for its first
\* reading, and offers no new secret once two-factor is on.
FactorSound ==
    page = "factor" =>
        /\ \A r \in Rows : r # Self => acted[r] = {}
        /\ \A n \in Calls : Under(n) => (n = 0 <=> calls[n].ask.op = "load")
        /\ \A n \in Calls : Under(n) /\ n # 0 => marked # {} /\ calls[n].ask.row = Self
        /\ \A m, n \in Calls : Under(m) /\ Under(n) /\ m # 0 /\ n # 0 => m = n
        /\ \A n \in Calls :
               calls[n].stage = "answered" /\ calls[n].ok /\ calls[n].ask.op = "setup"
                   => acted[Self] \subseteq {FALSE}
        /\ enroll /\ TRUE \in acted[Self] => \E n \in Calls : SwitchedOn(n)

\* A set-up that brings no secret.
Hopeless(n) ==
    Under(n) /\ calls[n].ask.op = "setup" /\ ~ (calls[n].stage = "answered" /\ calls[n].ok)

Adds(n) == Under(n) /\ calls[n].ask.op = "act" /\ calls[n].ask.to

\* A row that differs from what was done was read before, is about to be
\* corrected, or the page shows or will show an error.
RowSound(r) ==
    \/ r \in overtaken
    \/ acted[r] \subseteq {list[r]}
    \/ \E n \in Calls : Confirms(n, r)
    \/ \E n \in Calls : Under(n) /\ calls[n].ask.op \in Readings
    \/ page = "users" /\ (failed \/ \E n \in Calls : Under(n))
    \/ page = "passkeys" /\ list = None /\ (failed \/ \E n \in Calls : Adds(n))
    \/ page = "factor" /\ list = None /\ ~ enroll /\ (failed \/ \E n \in Calls : Hopeless(n))

ConsoleInv ==
    /\ ConsoleTypeOK
    /\ CallsSound /\ ServerSound /\ BusySound /\ FactorSound
    /\ \A r \in Rows : RowSound(r)

-----------------------------------------------------------------------------
(* Rows of the server: clicks *)

LEMMA OpsOf ==
    /\ Ops("users") = {"load", "reload", "act", "revoke"}
    /\ Ops("passkeys") = {"load", "reload", "act"}
    /\ Ops("factor") = {"load", "reload", "act", "setup"}
    /\ Ops("devices") = {"load", "act"}
    /\ \A p : p \notin {"users", "passkeys", "factor", "devices"} => Ops(p) = {"load"}
  BY DEF Ops

LEMMA UseType ==
    ASSUME ConsoleTypeOK, NEW kind \in {"clicks", "faults", "others"}, Use(kind)
    PROVE  /\ left' \in [clicks : 0 .. MaxClicks, faults : 0 .. MaxFaults, others : 0 .. MaxOthers]
           /\ left'.clicks <= left.clicks
           /\ kind = "clicks" => left.clicks \in Calls \ {0} /\ left'.clicks = left.clicks - 1
<1>1. left \in [clicks : 0 .. MaxClicks, faults : 0 .. MaxFaults, others : 0 .. MaxOthers]
  BY DEF ConsoleTypeOK
<1>2. CASE kind = "clicks"
  BY <1>1, <1>2, ConsoleAssumption DEF Use, Calls
<1>3. CASE kind = "faults"
  BY <1>1, <1>3, ConsoleAssumption DEF Use
<1>4. CASE kind = "others"
  BY <1>1, <1>4, ConsoleAssumption DEF Use
<1>5. QED
  BY <1>2, <1>3, <1>4

LEMMA CallTypes ==
    /\ None \in Lists /\ FirstQuery \in Query
    /\ \A q \in Query : Load(q) \in Ask /\ Load(q).op = "load" /\ Load(q).query = q
    /\ \A q \in Ask :
           /\ Request(q) \in Call /\ Request(q).stage = "sent" /\ Request(q).ask = q
           /\ ~ Request(q).ok /\ Request(q).rows = None /\ Request(q).old = {}
    /\ NoCall \in Call /\ NoCall.stage = "none" /\ NoCall.ask.op = "load" /\ ~ NoCall.ok
<1>1. None \in Lists /\ FirstQuery \in Query
  BY ConsoleAssumption DEF None, Lists, FirstQuery, Query
<1>2. \A q \in Query : Load(q) \in Ask /\ Load(q).op = "load" /\ Load(q).query = q
  BY <1>1, ConsoleAssumption DEF Load, Ask
<1>3. \A q \in Ask :
          /\ Request(q) \in Call /\ Request(q).stage = "sent" /\ Request(q).ask = q
          /\ ~ Request(q).ok /\ Request(q).rows = None /\ Request(q).old = {}
  BY <1>1 DEF Request, Call
<1>4. NoCall \in Call /\ NoCall.stage = "none" /\ NoCall.ask.op = "load" /\ ~ NoCall.ok
  <2>1. Load(FirstQuery) \in Ask /\ Load(FirstQuery).op = "load"
    BY <1>1, <1>2
  <2>2. QED
    BY <1>1, <2>1 DEF NoCall, Call
<1>5. QED
  BY <1>1, <1>2, <1>3, <1>4

\* What a page sends.
LEMMA SendStep ==
    ASSUME ConsoleInv, NEW q \in Ask, Send(q), q.op \in Ops(page),
           marked' \in SUBSET Rows, loading' \in BOOLEAN, query' \in Query,
           marked' # {} => marked' = marked \/ Marks(q),
           loading' => loading \/ q.op = "load",
           page = "factor" => q.op # "load" /\ q.row = Self /\ marked = {} /\ marked' # {},
           page = "passkeys" /\ list = None => q.op = "act" /\ q.to,
           page = "factor" /\ list = None /\ ~ enroll => q.op = "setup"
    PROVE  ConsoleInv'
<1>0. PICK k \in Calls : k = left.clicks
  BY UseType DEF Send, ConsoleInv
<1>1. /\ UNCHANGED <<page, server, gone, list, acted, enroll, shown, overtaken>>
      /\ calls' = [calls EXCEPT ![k] = Request(q)] /\ failed' = FALSE
      /\ left' \in [clicks : 0 .. MaxClicks, faults : 0 .. MaxFaults, others : 0 .. MaxOthers]
      /\ k # 0 /\ left'.clicks = k - 1
  BY <1>0, UseType DEF Send, ConsoleInv
<1>2. /\ ConsoleTypeOK /\ CallsSound /\ ServerSound /\ BusySound /\ FactorSound
      /\ \A r \in Rows : RowSound(r)
      /\ calls \in [Calls -> Call] /\ Calls \subseteq Nat
  BY ConsoleAssumption DEF ConsoleInv, ConsoleTypeOK, Calls
<1>3. /\ calls' \in [Calls -> Call]
      /\ calls'[k].stage = "sent" /\ calls'[k].ask = q
      /\ \A n \in Calls : n # k => calls'[n] = calls[n]
      /\ ~ Under(k)
  <2>1. ~ Under(k)
    BY <1>0, <1>1, <1>2 DEF CallsSound
  <2>2. QED
    BY <1>1, <1>2, <2>1, CallTypes
<1>4. ConsoleTypeOK'
  BY <1>1, <1>2, <1>3 DEF ConsoleTypeOK
<1>5. CallsSound'
  <2>1. \A n \in Calls : calls'[n].ask.op \in Ops(page)
    BY <1>2, <1>3 DEF CallsSound
  <2>2. \A n \in Calls : Under(n)' => n = 0 \/ n > left'.clicks
    BY <1>0, <1>1, <1>2, <1>3 DEF CallsSound, Under
  <2>3. QED
    BY <1>1, <2>1, <2>2 DEF CallsSound
<1>6. ServerSound'
  BY <1>1, <1>2, <1>3 DEF ServerSound, HasRead, Confirms
<1>7. \A n \in Calls : Under(n) => Under(n)' /\ n # k /\ calls'[n] = calls[n]
  BY <1>3 DEF Under
<1>8. BusySound'
  <2>1. loading' => \E n \in Calls :
            Under(n)' /\ Asking(calls'[n].ask)
    BY <1>1, <1>2, <1>3, <1>7 DEF BusySound, Under, Asking, Readings
  <2>2. marked' # {} => \E n \in Calls : Under(n)' /\ Marks(calls'[n].ask)
    BY <1>1, <1>2, <1>3, <1>7 DEF BusySound, Under
  <2>3. QED
    BY <1>1, <2>1, <2>2 DEF BusySound, Marks, Rereads, Asking
<1>9. FactorSound'
  <2>1. SUFFICES ASSUME page = "factor" PROVE FactorSound'
    BY <1>1 DEF FactorSound
  <2>2. \A n \in Calls : Under(n) => n = 0
    BY <1>2, <2>1 DEF FactorSound
  <2>3. \A n \in Calls : Under(n)' => n = k \/ (Under(n) /\ n = 0 /\ calls'[n] = calls[n])
    BY <1>3, <2>2 DEF Under
  <2>4. enroll' /\ TRUE \in acted'[Self] => FALSE
    BY <1>1, <1>2, <2>1, <2>2 DEF FactorSound, SwitchedOn, Confirms, Under
  <2>5. \A n \in Calls : calls'[n].stage = "answered" => calls'[n] = calls[n]
    BY <1>3
  <2>6. QED
    BY <1>1, <1>2, <1>3, <2>1, <2>3, <2>4, <2>5 DEF FactorSound
<1>10. ASSUME NEW r \in Rows PROVE RowSound(r)'
  <2>1. RowSound(r)
    BY <1>2
  <2>2. CASE r \in overtaken \/ acted[r] \subseteq {list[r]}
    BY <1>1, <2>2 DEF RowSound
  <2>3. CASE \E n \in Calls : Confirms(n, r)
    <3>1. PICK n \in Calls : Confirms(n, r)
      BY <2>3
    <3>2. Confirms(n, r)'
      BY <1>7, <3>1 DEF Confirms, Under
    <3>3. QED
      BY <3>2 DEF RowSound
  <2>4. CASE \E n \in Calls : Under(n) /\ calls[n].ask.op \in Readings
    BY <1>7, <2>4 DEF RowSound
  <2>5. Under(k)'
    BY <1>3 DEF Under
  <2>6. CASE page = "users"
    BY <1>1, <2>5, <2>6 DEF RowSound
  <2>7. CASE page = "passkeys" /\ list = None
    BY <1>1, <1>3, <2>5, <2>7 DEF RowSound, Adds
  <2>8. CASE page = "factor" /\ list = None /\ ~ enroll
    BY <1>1, <1>3, <2>5, <2>8 DEF RowSound, Hopeless
  <2>9. QED
    BY <2>1, <2>2, <2>3, <2>4, <2>6, <2>7, <2>8 DEF RowSound
<1>11. QED
  BY <1>4, <1>5, <1>6, <1>8, <1>9, <1>10 DEF ConsoleInv

LEMMA ClicksStep ==
    ASSUME ConsoleInv,
           \/ RefreshList \/ StartTotpSetup \/ SwitchFactor
           \/ \E r \in Rows : \/ ToggleRole(r) \/ RevokeSessions(r) \/ RevokeDevice(r)
                              \/ AddPasskey(r) \/ RemovePasskey(r)
           \/ \E q \in Query : ChangeQuery(q)
    PROVE  ConsoleInv'
<1>1. /\ page \in ConsolePages /\ list \in Lists /\ query \in Query /\ marked \in SUBSET Rows
      /\ loading \in BOOLEAN /\ Self \in Rows /\ None \in Lists
  BY ConsoleAssumption, CallTypes DEF ConsoleInv, ConsoleTypeOK
<1>2. \A r \in Rows : list[r] \in BOOLEAN /\ (list[r] => list # None)
  BY <1>1 DEF Lists, None
<1>3. CASE RefreshList
  BY <1>1, <1>3, CallTypes, SendStep, OpsOf DEF RefreshList
<1>4. CASE StartTotpSetup
  <2> DEFINE q == Asks("setup", Self, FALSE, None)
  <2>1. q \in Ask /\ q.op = "setup" /\ q.row = Self
    BY <1>1 DEF Asks, Ask
  <2>2. Send(q) /\ page = "factor" /\ marked = {} /\ marked' = {Self} /\ UNCHANGED <<loading, query>>
    BY <1>4 DEF StartTotpSetup
  <2> HIDE DEF q
  <2>3. Marks(q)
    BY <2>1, <2>2 DEF Marks, Rereads
  <2>4. QED
    BY <1>1, <2>1, <2>2, <2>3, SendStep, OpsOf
<1>5. CASE SwitchFactor
  <2> DEFINE q == Asks("act", Self, ~ list[Self], None)
  <2>1. (~ list[Self]) \in BOOLEAN
    OBVIOUS
  <2>2. q \in Ask /\ q.op = "act" /\ q.row = Self
    BY <1>1, <2>1 DEF Asks, Ask
  <2>3. /\ Send(q) /\ page = "factor" /\ marked = {} /\ marked' = {Self} /\ UNCHANGED <<loading, query>>
        /\ list[Self] \/ enroll
    BY <1>5 DEF SwitchFactor
  <2>4. ~ (list = None /\ ~ enroll)
    BY <1>1, <1>2, <2>3
  <2> HIDE DEF q
  <2>5. Marks(q)
    BY <2>2, <2>3 DEF Marks, Rereads
  <2>6. QED
    BY <1>1, <2>2, <2>3, <2>4, <2>5, SendStep, OpsOf
<1>6. ASSUME NEW r \in Rows, ToggleRole(r) \/ RevokeSessions(r) PROVE ConsoleInv'
  <2>1. (~ list[r]) \in BOOLEAN
    OBVIOUS
  <2>2. PICK q \in {Asks("act", r, ~ list[r], None), Asks("revoke", r, FALSE, None)} : Send(q)
    BY <1>6 DEF ToggleRole, RevokeSessions
  <2>3. q \in Ask /\ q.op \in {"act", "revoke"}
    <3>1. CASE q = Asks("act", r, ~ list[r], None)
      BY <1>1, <2>1, <3>1 DEF Asks, Ask
    <3>2. CASE q = Asks("revoke", r, FALSE, None)
      BY <1>1, <3>2 DEF Asks, Ask
    <3>3. QED
      BY <2>2, <3>1, <3>2
  <2>4. page = "users" /\ marked' = {r} /\ UNCHANGED <<loading, query>>
    BY <1>6 DEF ToggleRole, RevokeSessions, Listed
  <2>5. Marks(q)
    BY <2>3, <2>4 DEF Marks, Rereads
  <2>6. QED
    BY <1>1, <2>2, <2>3, <2>4, <2>5, SendStep, OpsOf
<1>7. ASSUME NEW r \in Rows, RevokeDevice(r) \/ RemovePasskey(r) PROVE ConsoleInv'
  <2> DEFINE q == Asks("act", r, FALSE, list)
  <2>1. q \in Ask /\ q.op = "act"
    BY <1>1 DEF Asks, Ask
  <2>2. /\ Send(q) /\ page \in {"devices", "passkeys"} /\ list[r] /\ UNCHANGED <<marked, loading, query>>
    BY <1>7 DEF RevokeDevice, RemovePasskey
  <2> HIDE DEF q
  <2>3. QED
    BY <1>1, <1>2, <2>1, <2>2, SendStep, OpsOf
<1>8. ASSUME NEW r \in Rows, AddPasskey(r) PROVE ConsoleInv'
  <2> DEFINE q == Asks("act", r, TRUE, None)
  <2>1. q \in Ask /\ q.op = "act" /\ q.to
    BY <1>1 DEF Asks, Ask
  <2>2. Send(q) /\ page = "passkeys" /\ marked' = {r} /\ UNCHANGED <<loading, query>>
    BY <1>8 DEF AddPasskey
  <2> HIDE DEF q
  <2>3. Marks(q)
    BY <2>1, <2>2 DEF Marks, Rereads
  <2>4. QED
    BY <1>1, <2>1, <2>2, <2>3, SendStep, OpsOf
<1>9. ASSUME NEW q \in Query, ChangeQuery(q) PROVE ConsoleInv'
  BY <1>1, <1>9, CallTypes, SendStep, OpsOf DEF ChangeQuery
<1>10. QED
  BY <1>3, <1>4, <1>5, <1>6, <1>7, <1>8, <1>9

-----------------------------------------------------------------------------
(* Rows of the server: what the API executes *)

\* An execution answers one call, and makes the readings before it old.
LEMMA ExecutionCalls ==
    ASSUME ConsoleTypeOK, NEW n \in Calls, NEW ok \in BOOLEAN, server' \in Lists, Execution(n, ok)
    PROVE  /\ calls' \in [Calls -> Call]
           /\ \A m \in Calls : calls'[m].ask = calls[m].ask /\ (Under(m)' <=> Under(m))
           /\ \A m \in Calls : m # n =>
                  /\ calls'[m].stage = calls[m].stage /\ calls'[m].ok = calls[m].ok
                  /\ calls'[m].rows = calls[m].rows
           /\ \A m \in Calls : m # n /\ HasRead(m) =>
                  calls'[m].old = calls[m].old \cup Settled(calls[n].ask, ok)
           /\ calls[n].stage = "sent" /\ calls'[n].stage = "answered" /\ calls'[n].ok = ok
           /\ ok /\ calls[n].ask.op \in Readings => calls'[n].rows = Listing(server')
<1> DEFINE q == calls[n].ask
           rows == IF q.op \in Readings /\ ok THEN Listing(server') ELSE None
           Older(c) == IF c.stage = "answered" /\ c.ask.op \in Readings /\ c.ok
                       THEN [c EXCEPT !.old = @ \cup Settled(q, ok)] ELSE c
           Answer == [Request(q) EXCEPT !.stage = "answered", !.ok = ok, !.rows = rows]
<1>1. calls \in [Calls -> Call] /\ calls[n] \in Call /\ q \in Ask /\ q.row \in Rows
  BY DEF ConsoleTypeOK, Call, Ask
<1>2. rows \in Lists
  BY CallTypes DEF Listing, Lists
<1>3. Settled(q, ok) \subseteq Rows
  BY <1>1 DEF Settled
<1>4. calls[n].stage = "sent" /\ calls' = [m \in Calls |-> IF m = n THEN Answer ELSE Older(calls[m])]
  BY DEF Execution
<1> HIDE DEF q, rows
<1>5. /\ Answer \in Call /\ Answer.ask = q /\ Answer.stage = "answered" /\ Answer.ok = ok
      /\ Answer.rows = rows
  BY <1>1, <1>2, CallTypes DEF Call, Request
<1>6. ASSUME NEW m \in Calls
      PROVE  /\ Older(calls[m]) \in Call /\ Older(calls[m]).ask = calls[m].ask
             /\ Older(calls[m]).stage = calls[m].stage /\ Older(calls[m]).ok = calls[m].ok
             /\ Older(calls[m]).rows = calls[m].rows
             /\ HasRead(m) => Older(calls[m]).old = calls[m].old \cup Settled(q, ok)
  <2>1. calls[m] \in Call
    BY <1>1
  <2>2. QED
    BY <1>3, <2>1 DEF Call, HasRead
<1> HIDE DEF Answer, Older
<1>7. calls'[n] = Answer /\ \A m \in Calls : m # n => calls'[m] = Older(calls[m])
  BY <1>4
<1>8. \A m \in Calls : calls'[m].ask = calls[m].ask /\ (Under(m)' <=> Under(m))
  BY <1>4, <1>5, <1>6, <1>7 DEF Under, q
<1>9. calls' \in [Calls -> Call]
  BY <1>4, <1>5, <1>6
<1>10. QED
  BY <1>4, <1>5, <1>6, <1>7, <1>8, <1>9 DEF q, rows

\* Nothing is done, an action is done, or the answer to it is lost.
LEMMA ExecutionStep ==
    ASSUME ConsoleInv, NEW n \in Calls, NEW ok \in BOOLEAN, Execution(n, ok),
           NEW q, q = calls[n].ask,
           left' \in [clicks : 0 .. MaxClicks, faults : 0 .. MaxFaults, others : 0 .. MaxOthers],
           left'.clicks <= left.clicks,
           ok \/ server' # server => Allowed(q),
           \/ ~ (q.op = "act" /\ ok) /\ UNCHANGED <<server, acted>>
           \/ /\ q.op = "act" /\ ok /\ server' = [server EXCEPT ![q.row] = q.to]
              /\ acted' = [acted EXCEPT ![q.row] = {q.to}]
           \/ /\ q.op = "act" /\ ~ ok
              /\ server' \in {server, [server EXCEPT ![q.row] = q.to]}
              /\ acted' = [acted EXCEPT ![q.row] = {}]
    PROVE  ConsoleInv'
<1>1. /\ ConsoleTypeOK /\ CallsSound /\ ServerSound /\ BusySound /\ FactorSound
      /\ \A r \in Rows : RowSound(r)
      /\ calls \in [Calls -> Call] /\ Calls \subseteq Nat
      /\ server \in Lists /\ acted \in [Rows -> SUBSET BOOLEAN] /\ left.clicks \in Nat
  BY ConsoleAssumption DEF ConsoleInv, ConsoleTypeOK, Calls
<1>2. q \in Ask /\ q.row \in Rows /\ q.to \in BOOLEAN
  BY <1>1 DEF Call, Ask
<1>3. server' \in Lists /\ acted' \in [Rows -> SUBSET BOOLEAN]
  <2>1. /\ [server EXCEPT ![q.row] = q.to] \in Lists
        /\ [acted EXCEPT ![q.row] = {q.to}] \in [Rows -> SUBSET BOOLEAN]
        /\ [acted EXCEPT ![q.row] = {}] \in [Rows -> SUBSET BOOLEAN]
    BY <1>1, <1>2 DEF Lists
  <2>2. QED
    BY <1>1, <2>1
<1>4. /\ calls' \in [Calls -> Call]
      /\ \A m \in Calls : calls'[m].ask = calls[m].ask /\ (Under(m)' <=> Under(m))
      /\ \A m \in Calls : m # n =>
             /\ calls'[m].stage = calls[m].stage /\ calls'[m].ok = calls[m].ok
             /\ calls'[m].rows = calls[m].rows
      /\ \A m \in Calls : m # n /\ HasRead(m) => calls'[m].old = calls[m].old \cup Settled(q, ok)
      /\ calls[n].stage = "sent" /\ calls'[n].stage = "answered" /\ calls'[n].ok = ok
      /\ ok /\ q.op \in Readings => calls'[n].rows = Listing(server')
  BY <1>1, <1>3, ExecutionCalls
<1>5. /\ UNCHANGED <<page, list, loading, marked, failed, enroll, query, shown, overtaken>>
      /\ gone' = IF page = "passkeys" THEN gone \cup {r \in Rows : server[r] /\ ~ server'[r]} ELSE gone
  BY DEF Execution, Revoked
<1>6. \A r \in Rows :
          \/ acted'[r] = acted[r] /\ server'[r] = server[r] /\ r \notin Settled(q, ok)
          \/ acted'[r] = {}
          \/ q.op = "act" /\ ok /\ q.row = r /\ acted'[r] = {q.to} /\ server'[r] = q.to
  <2>1. \A r \in Rows : r # q.row => acted'[r] = acted[r] /\ server'[r] = server[r]
    BY <1>1, <1>2 DEF Lists
  <2>2. QED
    BY <1>1, <1>2, <2>1 DEF Lists, Settled
<1>7. q.op \in Ops(page) /\ Under(n)
  BY <1>1, <1>4 DEF CallsSound, Under
<1>8. ConsoleTypeOK'
  BY <1>1, <1>3, <1>4, <1>5 DEF ConsoleTypeOK
<1>9. CallsSound'
  <2>1. \A m \in Calls : Under(m)' => m = 0 \/ m > left'.clicks
    <3>1. left'.clicks \in Nat
      BY ConsoleAssumption
    <3>2. QED
      BY <1>1, <1>4, <3>1 DEF CallsSound
  <2>2. QED
    BY <1>1, <1>4, <1>5, <2>1 DEF CallsSound
<1>10. \A m \in Calls, r \in Rows :
           Confirms(m, r)' => \/ m # n /\ Confirms(m, r)
                              \/ m = n /\ q.op = "act" /\ ok /\ q.row = r
  BY <1>4 DEF Confirms
<1>11. ServerSound'
  <2>1. ASSUME NEW r \in Rows, page \notin {"users", "passkeys", "factor"} PROVE acted'[r] = {}
    <3>1. acted[r] = {}
      BY <1>1, <2>1 DEF ServerSound
    <3>2. ~ (q.op = "act" /\ ok)
      BY <1>7, <2>1, OpsOf DEF Allowed
    <3>3. QED
      BY <1>6, <3>1, <3>2
  <2>2. ASSUME NEW r \in Rows PROVE acted'[r] \subseteq {server'[r]}
    BY <1>1, <1>6 DEF ServerSound
  <2>3. ASSUME NEW r \in gone' PROVE ~ server'[r]
    <3>1. CASE r \in gone
      <4>1. r \in Rows /\ ~ server[r] /\ page = "passkeys"
        BY <1>1, <3>1 DEF ServerSound, ConsoleTypeOK
      <4>2. CASE server' # server
        <5>1. Allowed(q) /\ q.op = "act"
          BY <4>2
        <5>2. r # q.row
          BY <3>1, <4>1, <5>1 DEF Allowed
        <5>3. QED
          BY <1>1, <1>2, <4>1, <5>2 DEF Lists
      <4>3. QED
        BY <4>1, <4>2
    <3>2. QED
      BY <1>5, <2>3, <3>1
  <2>4. ASSUME NEW m \in Calls, NEW r \in Rows, HasRead(m)', r \notin calls'[m].old
        PROVE  acted'[r] \subseteq {calls'[m].rows[r]}
    <3>1. CASE m # n
      <4>1. HasRead(m) /\ r \notin calls[m].old /\ r \notin Settled(q, ok)
        BY <1>4, <2>4, <3>1 DEF HasRead
      <4>2. acted'[r] \subseteq acted[r]
        BY <1>6, <4>1 DEF Settled
      <4>3. QED
        BY <1>1, <1>4, <3>1, <4>1, <4>2 DEF ServerSound
    <3>2. CASE m = n
      <4>1. calls'[m].rows = Listing(server')
        BY <1>4, <2>4, <3>2 DEF HasRead
      <4>2. acted'[r] \subseteq {server'[r]} /\ (page = "devices" => acted'[r] = {})
        BY <2>1, <2>2
      <4>3. QED
        BY <1>5, <4>1, <4>2 DEF Listing
    <3>3. QED
      BY <3>1, <3>2
  <2>5. ASSUME NEW m \in Calls, NEW r \in Rows, page = "passkeys", Confirms(m, r)', ~ calls'[m].ask.to
        PROVE  r \in gone'
    <3>1. CASE m # n /\ Confirms(m, r)
      <4>1. r \in gone
        BY <1>1, <1>4, <2>5, <3>1 DEF ServerSound
      <4>2. QED
        BY <1>5, <4>1
    <3>2. CASE m = n /\ q.op = "act" /\ ok /\ q.row = r
      <4>1. ~ q.to /\ server[r] # q.to
        BY <1>4, <2>5, <3>2 DEF Allowed
      <4>2. server[r] /\ ~ server'[r]
        BY <1>1, <1>2, <3>2, <4>1 DEF Lists
      <4>3. QED
        BY <1>5, <2>5, <4>2
    <3>3. QED
      BY <1>10, <2>5, <3>1, <3>2
  <2>6. page # "passkeys" => gone' = {}
    BY <1>1, <1>5 DEF ServerSound
  <2>7. QED
    BY <1>5, <2>1, <2>2, <2>3, <2>4, <2>5, <2>6 DEF ServerSound
<1>12. BusySound'
  BY <1>1, <1>4, <1>5 DEF BusySound, Marks, Rereads, Asking
<1>13. page = "factor" /\ q.op = "setup" /\ ok => \A r \in Rows : acted'[r] \subseteq {FALSE}
  <2>1. SUFFICES ASSUME page = "factor", q.op = "setup", ok
                 PROVE  \A r \in Rows : acted'[r] \subseteq {FALSE}
    OBVIOUS
  <2>2. server[Self] = FALSE /\ acted' = acted
    BY <1>1, <2>1, ConsoleAssumption DEF Allowed, Lists
  <2>3. acted[Self] \subseteq {FALSE}
    BY <1>1, <2>2, ConsoleAssumption DEF ServerSound
  <2>4. \A r \in Rows : r # Self => acted[r] = {}
    BY <1>1, <2>1 DEF FactorSound
  <2>5. QED
    BY <2>2, <2>3, <2>4
<1>14. FactorSound'
  <2>1. SUFFICES ASSUME page = "factor" PROVE FactorSound'
    BY <1>5 DEF FactorSound
  <2>2. /\ \A r \in Rows : r # Self => acted[r] = {}
        /\ \A m \in Calls : Under(m) => (m = 0 <=> calls[m].ask.op = "load")
        /\ \A m \in Calls : Under(m) /\ m # 0 => marked # {} /\ calls[m].ask.row = Self
        /\ \A l, m \in Calls : Under(l) /\ Under(m) /\ l # 0 /\ m # 0 => l = m
        /\ \A m \in Calls :
               calls[m].stage = "answered" /\ calls[m].ok /\ calls[m].ask.op = "setup"
                   => acted[Self] \subseteq {FALSE}
        /\ enroll /\ TRUE \in acted[Self] => \E m \in Calls : SwitchedOn(m)
    BY <1>1, <2>1 DEF FactorSound
  <2>3. q.op = "act" => n # 0 /\ q.row = Self
    BY <1>7, <2>2
  <2>4. \A r \in Rows : r # Self => acted'[r] = {}
    BY <1>6, <2>2, <2>3
  <2>5. ASSUME NEW m \in Calls, calls'[m].stage = "answered", calls'[m].ok, calls'[m].ask.op = "setup"
        PROVE  acted'[Self] \subseteq {FALSE}
    <3>1. CASE m = n
      BY <1>4, <1>13, <2>1, <2>5, <3>1, ConsoleAssumption
    <3>2. CASE m # n
      <4>1. Under(m) /\ calls[m].stage = "answered" /\ calls[m].ok /\ calls[m].ask.op = "setup"
        BY <1>4, <2>5, <3>2 DEF Under
      <4>2. acted[Self] \subseteq {FALSE} /\ m # 0
        BY <2>2, <4>1
      <4>3. q.op # "act"
        BY <1>7, <2>2, <2>3, <3>2, <4>1, <4>2
      <4>4. QED
        BY <1>6, <4>2, <4>3, ConsoleAssumption
    <3>3. QED
      BY <3>1, <3>2
  <2>6. ASSUME enroll', TRUE \in acted'[Self] PROVE \E m \in Calls : SwitchedOn(m)'
    <3>1. CASE q.op = "act" /\ ok /\ q.row = Self /\ acted'[Self] = {q.to}
      <4>1. q.to
        BY <1>2, <2>6, <3>1
      <4>2. SwitchedOn(n)'
        BY <1>4, <1>7, <3>1, <4>1 DEF SwitchedOn, Confirms
      <4>3. QED
        BY <4>2
    <3>2. CASE acted'[Self] = acted[Self]
      <4>1. PICK m \in Calls : SwitchedOn(m)
        BY <1>5, <2>2, <2>6, <3>2
      <4>2. SwitchedOn(m)'
        BY <1>4, <4>1 DEF SwitchedOn, Confirms
      <4>3. QED
        BY <4>2
    <3>3. QED
      BY <1>6, <2>6, <3>1, <3>2, ConsoleAssumption
  <2>7. /\ \A m \in Calls : Under(m)' => (m = 0 <=> calls'[m].ask.op = "load")
        /\ \A m \in Calls : Under(m)' /\ m # 0 => marked' # {} /\ calls'[m].ask.row = Self
        /\ \A l, m \in Calls : Under(l)' /\ Under(m)' /\ l # 0 /\ m # 0 => l = m
    BY <1>4, <1>5, <2>2
  <2>8. QED
    BY <1>5, <2>1, <2>4, <2>5, <2>6, <2>7 DEF FactorSound
<1>15. ASSUME NEW r \in Rows PROVE RowSound(r)'
  <2>1. CASE q.op = "act" /\ ok /\ q.row = r
    <3>1. Confirms(n, r)'
      BY <1>4, <2>1 DEF Confirms
    <3>2. QED
      BY <3>1 DEF RowSound
  <2>2. CASE acted'[r] = {}
    BY <2>2 DEF RowSound
  <2>3. CASE acted'[r] = acted[r]
    <3>1. RowSound(r)
      BY <1>1
    <3>2. CASE \E m \in Calls : Confirms(m, r)
      <4>1. PICK m \in Calls : Confirms(m, r)
        BY <3>2
      <4>2. Confirms(m, r)'
        BY <1>4, <4>1 DEF Confirms
      <4>3. QED
        BY <4>2 DEF RowSound
    <3>3. CASE page = "factor" /\ list = None /\ ~ enroll /\ \E m \in Calls : Hopeless(m)
      <4>1. PICK m \in Calls : Hopeless(m)
        BY <3>3
      <4>2. CASE m = n /\ ok
        <5>1. acted'[r] \subseteq {FALSE}
          BY <1>13, <3>3, <4>1, <4>2 DEF Hopeless
        <5>2. list'[r] = FALSE
          BY <1>5, <3>3 DEF None
        <5>3. QED
          BY <5>1, <5>2 DEF RowSound
      <4>3. CASE ~ (m = n /\ ok)
        <5>1. Hopeless(m)'
          BY <1>4, <4>1, <4>3 DEF Hopeless
        <5>2. QED
          BY <1>5, <3>3, <5>1 DEF RowSound
      <4>4. QED
        BY <4>2, <4>3
    <3>4. CASE page = "passkeys" /\ list = None /\ \E m \in Calls : Adds(m)
      BY <1>4, <1>5, <3>4 DEF RowSound, Adds
    <3>5. CASE \E m \in Calls : Under(m) /\ calls[m].ask.op \in Readings
      BY <1>4, <3>5 DEF RowSound
    <3>6. CASE page = "users" /\ \E m \in Calls : Under(m)
      BY <1>4, <1>5, <3>6 DEF RowSound
    <3>7. CASE r \in overtaken \/ acted[r] \subseteq {list[r]}
      BY <1>5, <2>3, <3>7 DEF RowSound
    <3>8. CASE failed /\ (page = "users" \/ list = None)
      BY <1>5, <3>1, <3>2, <3>5, <3>7, <3>8 DEF RowSound
    <3>9. QED
      BY <3>1, <3>2, <3>3, <3>4, <3>5, <3>6, <3>7, <3>8 DEF RowSound
  <2>4. QED
    BY <1>6, <2>1, <2>2, <2>3
<1>16. QED
  BY <1>8, <1>9, <1>11, <1>12, <1>14, <1>15 DEF ConsoleInv

LEMMA ExecuteStep ==
    ASSUME ConsoleInv, NEW n \in Calls, Execute(n) \/ LoseAnswer(n)
    PROVE  ConsoleInv'
<1> DEFINE q == calls[n].ask
<1>1. ConsoleTypeOK /\ q.row \in Rows /\ acted \in [Rows -> SUBSET BOOLEAN]
  BY DEF ConsoleInv, ConsoleTypeOK, Call, Ask
<1>2. CASE Execute(n)
  <2> DEFINE ok == Allowed(q)
  <2>1. Execution(n, ok) /\ UNCHANGED left /\ server' = Changed(q) /\ ok \in BOOLEAN
        /\ acted' = [r \in Rows |-> IF r \in Settled(q, ok) THEN {q.to} ELSE acted[r]]
    BY <1>2 DEF Execute, Allowed
  <2>2. left' \in [clicks : 0 .. MaxClicks, faults : 0 .. MaxFaults, others : 0 .. MaxOthers]
        /\ left'.clicks <= left.clicks
    BY <1>1, <2>1, ConsoleAssumption DEF ConsoleTypeOK
  <2>3. CASE q.op = "act" /\ ok
    <3>1. server' = [server EXCEPT ![q.row] = q.to] /\ acted' = [acted EXCEPT ![q.row] = {q.to}]
      BY <1>1, <2>1, <2>3 DEF Changed, Settled
    <3> HIDE DEF q, ok
    <3>2. QED
      BY <2>1, <2>2, <2>3, <3>1, ExecutionStep DEF q, ok
  <2>4. CASE ~ (q.op = "act" /\ ok)
    <3>1. UNCHANGED <<server, acted>>
      BY <1>1, <2>1, <2>4 DEF Changed, Settled
    <3> HIDE DEF q, ok
    <3>2. QED
      BY <2>1, <2>2, <2>4, <3>1, ExecutionStep DEF q, ok
  <2>5. QED
    BY <2>3, <2>4
<1>3. CASE LoseAnswer(n)
  <2>1. /\ Execution(n, FALSE) /\ server' \in {server, Changed(q)}
        /\ acted' = IF q.op = "act" THEN [acted EXCEPT ![q.row] = {}] ELSE acted
    BY <1>3 DEF LoseAnswer
  <2>2. left' \in [clicks : 0 .. MaxClicks, faults : 0 .. MaxFaults, others : 0 .. MaxOthers]
        /\ left'.clicks <= left.clicks
    BY <1>1, <1>3, UseType DEF LoseAnswer
  <2>3. server' # server => Allowed(q) /\ q.op = "act"
    BY <2>1 DEF Changed
  <2>4. \/ ~ (q.op = "act" /\ FALSE) /\ UNCHANGED <<server, acted>>
        \/ /\ q.op = "act" /\ ~ FALSE
           /\ server' \in {server, [server EXCEPT ![q.row] = q.to]}
           /\ acted' = [acted EXCEPT ![q.row] = {}]
    BY <2>1 DEF Changed
  <2> HIDE DEF q
  <2>5. QED
    BY <2>1, <2>2, <2>3, <2>4, ExecutionStep DEF q
<1>4. QED
  BY <1>2, <1>3

-----------------------------------------------------------------------------
(* Rows of the server: answers *)

LEMMA EndCalls ==
    ASSUME ConsoleTypeOK, NEW n \in Calls, End(n)
    PROVE  /\ calls' \in [Calls -> Call] /\ calls'[n] = NoCall /\ ~ Under(n)'
           /\ \A m \in Calls : m # n => calls'[m] = calls[m] /\ (Under(m)' <=> Under(m))
<1>1. calls \in [Calls -> Call] /\ calls' = [calls EXCEPT ![n] = NoCall]
  BY DEF ConsoleTypeOK, End
<1>2. /\ calls' \in [Calls -> Call] /\ calls'[n] = NoCall
      /\ \A m \in Calls : m # n => calls'[m] = calls[m]
  BY <1>1, CallTypes
<1>3. QED
  BY <1>2, CallTypes DEF Under

\* What is left when a call ends, but for the rows on the screen.
LEMMA EndStep ==
    ASSUME ConsoleInv, NEW n \in Calls, Take(n), End(n), NEW q, q = calls[n].ask,
           list' \in Lists, overtaken' \in SUBSET Rows, shown' \in Query, marked' \in SUBSET Rows,
           failed' \in BOOLEAN, loading' \in BOOLEAN, enroll' \in BOOLEAN,
           loading' => loading /\ ~ Asking(q),
           marked' # {} => marked' = marked /\ ~ Marks(q),
           page = "factor" /\ q.op = "load" => marked' = marked,
           page = "factor" /\ enroll' =>
               (enroll /\ ~ SwitchedOn(n)) \/ (q.op = "setup" /\ calls[n].ok),
           \A r \in Rows : RowSound(r)'
    PROVE  ConsoleInv'
<1>1. /\ ConsoleTypeOK /\ CallsSound /\ ServerSound /\ BusySound /\ FactorSound
      /\ calls \in [Calls -> Call]
  BY DEF ConsoleInv, ConsoleTypeOK
<1>2. /\ UNCHANGED <<page, server, gone, acted, query, left>>
      /\ calls[n].stage = "answered" /\ Under(n)
  BY DEF Take, Under
<1>3. /\ calls' \in [Calls -> Call] /\ calls'[n] = NoCall /\ ~ Under(n)'
      /\ \A m \in Calls : m # n => calls'[m] = calls[m] /\ (Under(m)' <=> Under(m))
      /\ NoCall.stage = "none" /\ NoCall.ask.op = "load"
  BY <1>1, EndCalls, CallTypes
<1>4. \A m \in Calls : Under(m)' => m # n /\ Under(m)
  BY <1>3
<1>5. ConsoleTypeOK'
  BY <1>1, <1>2, <1>3 DEF ConsoleTypeOK
<1>6. CallsSound'
  <2>1. "load" \in Ops(page)
    BY DEF Ops
  <2>2. QED
    BY <1>1, <1>2, <1>3, <1>4, <2>1 DEF CallsSound
<1>7. ServerSound'
  <2>1. \A m \in Calls : calls'[m].stage = "answered" => m # n /\ calls'[m] = calls[m]
    BY <1>3
  <2>2. QED
    BY <1>1, <1>2, <2>1 DEF ServerSound, HasRead, Confirms
<1>8. BusySound'
  <2>1. loading' => \E m \in Calls : Under(m)' /\ Asking(calls'[m].ask)
    BY <1>1, <1>3 DEF BusySound
  <2>2. marked' # {} => \E m \in Calls : Under(m)' /\ Marks(calls'[m].ask)
    BY <1>1, <1>3 DEF BusySound
  <2>3. QED
    BY <1>2, <2>1, <2>2 DEF BusySound, Asking, Marks, Rereads
<1>9. FactorSound'
  <2>1. SUFFICES ASSUME page = "factor" PROVE FactorSound'
    BY <1>2 DEF FactorSound
  <2>2. /\ \A r \in Rows : r # Self => acted[r] = {}
        /\ \A m \in Calls : Under(m) => (m = 0 <=> calls[m].ask.op = "load")
        /\ \A m \in Calls : Under(m) /\ m # 0 => marked # {} /\ calls[m].ask.row = Self
        /\ \A l, m \in Calls : Under(l) /\ Under(m) /\ l # 0 /\ m # 0 => l = m
        /\ \A m \in Calls :
               calls[m].stage = "answered" /\ calls[m].ok /\ calls[m].ask.op = "setup"
                   => acted[Self] \subseteq {FALSE}
        /\ enroll /\ TRUE \in acted[Self] => \E m \in Calls : SwitchedOn(m)
    BY <1>1, <2>1 DEF FactorSound
  <2>3. \A m \in Calls : Under(m)' => (m = 0 <=> calls'[m].ask.op = "load")
    BY <1>3, <1>4, <2>2
  <2>4. ASSUME NEW m \in Calls, Under(m)', m # 0 PROVE marked' # {} /\ calls'[m].ask.row = Self
    <3>1. Under(m) /\ m # n /\ calls'[m] = calls[m]
      BY <1>3, <1>4, <2>4
    <3>2. n = 0
      BY <1>2, <2>2, <2>4, <3>1
    <3>3. q.op = "load"
      BY <1>2, <2>2, <3>2
    <3>4. QED
      BY <2>1, <2>2, <2>4, <3>1, <3>3
  <2>5. \A l, m \in Calls : Under(l)' /\ Under(m)' /\ l # 0 /\ m # 0 => l = m
    BY <1>4, <2>2
  <2>6. \A m \in Calls :
            calls'[m].stage = "answered" /\ calls'[m].ok /\ calls'[m].ask.op = "setup"
                => acted[Self] \subseteq {FALSE}
    BY <1>3, <2>2
  <2>7. ASSUME enroll', TRUE \in acted[Self] PROVE \E m \in Calls : SwitchedOn(m)'
    <3>1. enroll /\ ~ SwitchedOn(n)
      BY <1>2, <2>1, <2>2, <2>7
    <3>2. PICK m \in Calls : SwitchedOn(m) /\ m # n
      BY <2>2, <2>7, <3>1
    <3>3. SwitchedOn(m)'
      BY <1>3, <3>2 DEF SwitchedOn, Confirms
    <3>4. QED
      BY <3>3
  <2>8. QED
    BY <1>2, <2>1, <2>2, <2>3, <2>4, <2>5, <2>6, <2>7 DEF FactorSound
<1>10. QED
  BY <1>5, <1>6, <1>7, <1>8, <1>9 DEF ConsoleInv

LEMMA LoadedStep == ASSUME ConsoleInv, NEW n \in Calls, Loaded(n) PROVE ConsoleInv'
<1> DEFINE a == calls[n]
<1>1. /\ ConsoleTypeOK /\ CallsSound /\ ServerSound /\ BusySound /\ FactorSound
      /\ a \in Call /\ a.ask \in Ask /\ None \in Lists
  BY CallTypes DEF ConsoleInv, ConsoleTypeOK, Call
<1>2. /\ Take(n) /\ End(n) /\ a.ask.op \in Readings /\ a.stage = "answered"
      /\ list' = IF a.ok THEN a.rows ELSE IF page \in {"passkeys", "factor"} THEN None ELSE list
      /\ overtaken' = IF a.ok THEN a.old ELSE overtaken
      /\ shown' = IF a.ok THEN a.ask.query ELSE shown
      /\ failed' = (failed \/ ~ a.ok)
      /\ loading' = IF a.ask.op = "load" \/ page = "factor" THEN FALSE ELSE loading
      /\ marked' = IF a.ask.op = "reload" THEN {} ELSE marked
      /\ enroll' = (enroll /\ ~ (a.ask.op = "reload" /\ a.ask.to))
      /\ UNCHANGED <<page, server, gone, acted, query, left>>
  BY DEF Loaded, Take
<1> HIDE DEF a
<1>3. /\ list' \in Lists /\ overtaken' \in SUBSET Rows /\ shown' \in Query /\ marked' \in SUBSET Rows
      /\ failed' \in BOOLEAN /\ loading' \in BOOLEAN /\ enroll' \in BOOLEAN
  <2>1. a.rows \in Lists /\ a.old \in SUBSET Rows /\ a.ask.query \in Query /\ a.ok \in BOOLEAN
    BY <1>1 DEF Call, Ask
  <2>2. list \in Lists /\ overtaken \in SUBSET Rows /\ shown \in Query /\ marked \in SUBSET Rows
        /\ loading \in BOOLEAN
    BY <1>1 DEF ConsoleTypeOK
  <2>3. QED
    BY <1>1, <1>2, <2>1, <2>2
<1>4. loading' => loading /\ ~ Asking(a.ask)
  BY <1>2 DEF Asking, Readings
<1>5. marked' # {} => marked' = marked /\ ~ Marks(a.ask)
  BY <1>2 DEF Marks, Readings
<1>6. enroll' => enroll /\ ~ SwitchedOn(n)
  BY <1>2 DEF SwitchedOn, Confirms, Readings, a
<1>7. ASSUME NEW r \in Rows PROVE RowSound(r)'
  <2>1. CASE a.ok
    <3>1. r \in a.old \/ acted[r] \subseteq {a.rows[r]}
      BY <1>1, <1>2, <2>1 DEF ServerSound, HasRead, a
    <3>2. QED
      BY <1>2, <2>1, <3>1 DEF RowSound
  <2>2. CASE ~ a.ok /\ page = "users"
    BY <1>2, <2>2 DEF RowSound
  <2>3. CASE ~ a.ok /\ page = "passkeys"
    <3>1. list' = None /\ failed'
      BY <1>2, <2>3
    <3>2. None' = None
      BY DEF None
    <3>3. QED
      BY <1>2, <2>3, <3>1, <3>2 DEF RowSound
  <2>4. CASE ~ a.ok /\ page = "factor"
    <3>1. list' = None /\ failed'
      BY <1>2, <2>4
    <3>2. CASE ~ enroll'
      BY <1>2, <2>4, <3>1, <3>2 DEF RowSound, None
    <3>3. CASE enroll' /\ r = Self /\ TRUE \in acted[Self]
      <4>1. PICK m \in Calls : SwitchedOn(m) /\ m # n
        BY <1>1, <1>6, <2>4, <3>3 DEF FactorSound
      <4>2. calls'[m] = calls[m]
        BY <1>1, <1>2, <4>1, EndCalls
      <4>3. CASE Confirms(m, Self)
        <5>1. Confirms(m, r)'
          BY <3>3, <4>2, <4>3 DEF Confirms
        <5>2. QED
          BY <5>1 DEF RowSound
      <4>4. CASE Under(m) /\ calls[m].ask.op = "reload"
        <5>1. Under(m)' /\ calls'[m].ask.op \in Readings
          BY <4>2, <4>4 DEF Under, Readings
        <5>2. QED
          BY <5>1 DEF RowSound
      <4>5. QED
        BY <4>1, <4>3, <4>4 DEF SwitchedOn
    <3>4. CASE ~ (r = Self /\ TRUE \in acted[Self])
      <4>1. acted[r] \in SUBSET BOOLEAN
        BY <1>1 DEF ConsoleTypeOK
      <4>2. acted[r] \subseteq {FALSE}
        BY <1>1, <2>4, <3>4, <4>1 DEF FactorSound
      <4>3. list'[r] = FALSE
        BY <3>1 DEF None
      <4>4. QED
        BY <1>2, <4>2, <4>3 DEF RowSound
    <3>5. QED
      BY <3>2, <3>3, <3>4
  <2>5. CASE page \notin {"users", "passkeys", "factor"}
    BY <1>1, <1>2, <2>5 DEF RowSound, ServerSound
  <2>6. QED
    BY <2>1, <2>2, <2>3, <2>4, <2>5
<1>8. QED
  BY <1>2, <1>3, <1>4, <1>5, <1>6, <1>7, EndStep DEF a

\* The rows after a call that was no reading has ended, when list and overtaken
\* stay.
LEMMA RowsStay ==
    ASSUME ConsoleInv, NEW n \in Calls, Take(n), End(n), NEW r \in Rows,
           calls[n].ask.op \notin Readings, ~ Confirms(n, r),
           UNCHANGED <<list, overtaken>>,
           page = "users" => failed',
           page = "passkeys" /\ list = None => failed',
           page = "factor" /\ list = None /\ ~ enroll => failed' /\ ~ enroll'
    PROVE  RowSound(r)'
<1>1. RowSound(r) /\ ConsoleTypeOK
  BY DEF ConsoleInv
<1>2. UNCHANGED <<page, acted>>
  BY DEF Take
<1>3. \A m \in Calls : m # n => calls'[m] = calls[m] /\ (Under(m)' <=> Under(m))
  BY <1>1, EndCalls
<1>4. CASE r \in overtaken \/ acted[r] \subseteq {list[r]}
  BY <1>2, <1>4 DEF RowSound
<1>5. CASE \E m \in Calls : Confirms(m, r)
  <2>1. PICK m \in Calls : Confirms(m, r) /\ m # n
    BY <1>5
  <2>2. Confirms(m, r)'
    BY <1>3, <2>1 DEF Confirms
  <2>3. QED
    BY <2>2 DEF RowSound
<1>6. CASE \E m \in Calls : Under(m) /\ calls[m].ask.op \in Readings
  <2>1. PICK m \in Calls : Under(m) /\ calls[m].ask.op \in Readings /\ m # n
    BY <1>6
  <2>2. Under(m)' /\ calls'[m].ask.op \in Readings
    BY <1>3, <2>1
  <2>3. QED
    BY <2>2 DEF RowSound
<1>7. QED
  BY <1>1, <1>2, <1>4, <1>5, <1>6 DEF RowSound, None

LEMMA SetUpStep == ASSUME ConsoleInv, NEW n \in Calls, SetUp(n) PROVE ConsoleInv'
<1> DEFINE a == calls[n]
<1>1. /\ ConsoleTypeOK /\ CallsSound /\ ServerSound /\ BusySound /\ FactorSound /\ a \in Call
  BY DEF ConsoleInv, ConsoleTypeOK
<1>2. /\ Take(n) /\ End(n) /\ a.ask.op = "setup" /\ a.stage = "answered"
      /\ enroll' = (enroll \/ a.ok) /\ failed' = (failed \/ ~ a.ok) /\ marked' = {}
      /\ UNCHANGED <<list, loading, shown, overtaken, page, acted>>
  BY DEF SetUp, Take
<1>3. page = "factor"
  BY <1>1, <1>2, OpsOf DEF CallsSound
<1>4. /\ list' \in Lists /\ overtaken' \in SUBSET Rows /\ shown' \in Query /\ marked' \in SUBSET Rows
      /\ failed' \in BOOLEAN /\ loading' \in BOOLEAN /\ enroll' \in BOOLEAN
  BY <1>1, <1>2 DEF ConsoleTypeOK
<1>5. loading' => loading /\ ~ Asking(a.ask)
  BY <1>2 DEF Asking, Readings
<1>6. enroll' => (enroll /\ ~ SwitchedOn(n)) \/ (a.ask.op = "setup" /\ a.ok)
  BY <1>2 DEF SwitchedOn, Confirms
<1>7. ASSUME NEW r \in Rows PROVE RowSound(r)'
  <2>1. CASE a.ok
    <3>1. acted[r] \subseteq {FALSE}
      BY <1>1, <1>2, <1>3, <2>1 DEF FactorSound
    <3>2. CASE list = None
      BY <1>2, <3>1, <3>2 DEF RowSound, None
    <3>3. CASE list # None
      BY <1>2, <1>3, <3>3, RowsStay DEF Confirms, Readings
    <3>4. QED
      BY <3>2, <3>3
  <2>2. CASE ~ a.ok
    BY <1>2, <1>3, <2>2, RowsStay DEF Confirms, Readings
  <2>3. QED
    BY <2>1, <2>2
<1>8. QED
  BY <1>2, <1>4, <1>5, <1>6, <1>7, EndStep

LEMMA ActFailedStep == ASSUME ConsoleInv, NEW n \in Calls, ActFailed(n) PROVE ConsoleInv'
<1> DEFINE a == calls[n]
<1>1. /\ ConsoleTypeOK /\ CallsSound /\ BusySound /\ a \in Call
  BY DEF ConsoleInv, ConsoleTypeOK
<1>2. /\ Take(n) /\ End(n) /\ a.ask.op \in {"act", "revoke"} /\ ~ a.ok /\ failed' = TRUE
      /\ marked' = IF page = "passkeys" /\ ~ a.ask.to THEN marked ELSE {}
      /\ UNCHANGED <<list, loading, enroll, shown, overtaken, page, acted>>
  BY DEF ActFailed, Take
<1>3. /\ list' \in Lists /\ overtaken' \in SUBSET Rows /\ shown' \in Query /\ marked' \in SUBSET Rows
      /\ failed' \in BOOLEAN /\ loading' \in BOOLEAN /\ enroll' \in BOOLEAN
  BY <1>1, <1>2 DEF ConsoleTypeOK
<1>4. loading' => loading /\ ~ Asking(a.ask)
  BY <1>2 DEF Asking, Readings
<1>5. marked' # {} => marked' = marked /\ ~ Marks(a.ask)
  BY <1>2 DEF Marks, Rereads
<1>6. enroll' => enroll /\ ~ SwitchedOn(n)
  BY <1>2 DEF SwitchedOn, Confirms
<1>7. ASSUME NEW r \in Rows PROVE RowSound(r)'
  BY <1>2, RowsStay DEF Confirms, Readings
<1>8. QED
  BY <1>2, <1>3, <1>4, <1>5, <1>6, <1>7, EndStep

LEMMA DropRowStep == ASSUME ConsoleInv, NEW n \in Calls, DropRow(n) PROVE ConsoleInv'
<1> DEFINE a == calls[n]
           q == a.ask
<1>1. /\ ConsoleTypeOK /\ CallsSound /\ ServerSound /\ a \in Call /\ list \in Lists
      /\ q \in Ask /\ q.seen \in Lists /\ q.row \in Rows
  BY DEF ConsoleInv, ConsoleTypeOK, Call, Ask
<1>2. /\ Take(n) /\ End(n) /\ q.op \in {"act", "revoke"} /\ a.ok /\ a.stage = "answered"
      /\ ~ Rereads(q)
      /\ list' = [(IF page = "devices" THEN q.seen ELSE list) EXCEPT ![q.row] = FALSE]
      /\ overtaken' = overtaken \ {q.row}
      /\ UNCHANGED <<loading, marked, enroll, failed, shown, page, server, gone, acted>>
  BY DEF DropRow, Acted, Take
<1>3. /\ list' \in Lists /\ overtaken' \in SUBSET Rows /\ shown' \in Query /\ marked' \in SUBSET Rows
      /\ failed' \in BOOLEAN /\ loading' \in BOOLEAN /\ enroll' \in BOOLEAN
  <2>1. list' \in Lists
    BY <1>1, <1>2 DEF Lists
  <2>2. QED
    BY <1>1, <1>2, <2>1 DEF ConsoleTypeOK
<1>4. loading' => loading /\ ~ Asking(q)
  BY <1>2 DEF Asking, Readings
<1>5. ~ Marks(q)
  BY <1>2 DEF Marks
<1>6. page # "factor"
  BY <1>2 DEF Rereads
<1>7. ASSUME NEW r \in Rows PROVE RowSound(r)'
  <2>1. CASE page \notin {"users", "passkeys", "factor"}
    BY <1>1, <1>2, <2>1 DEF RowSound, ServerSound
  <2>2. CASE page = "passkeys"
    <3>1. q.op = "act" /\ ~ q.to
      BY <1>1, <1>2, <2>2, OpsOf DEF Rereads, CallsSound
    <3>2. Confirms(n, q.row)
      BY <1>2, <3>1 DEF Confirms
    <3>3. CASE r = q.row
      <4>1. r \in gone /\ acted[r] \subseteq {FALSE}
        <5>1. r \in gone
          BY <1>1, <2>2, <3>1, <3>2, <3>3 DEF ServerSound
        <5>2. server[r] = FALSE
          BY <1>1, <5>1 DEF ServerSound, ConsoleTypeOK, Lists
        <5>3. QED
          BY <1>1, <5>1, <5>2 DEF ServerSound
      <4>2. list'[r] = FALSE
        BY <1>1, <1>2, <2>2, <3>3 DEF Lists
      <4>3. QED
        BY <1>2, <4>1, <4>2 DEF RowSound
    <3>4. CASE r # q.row
      <4>1. RowSound(r)
        BY DEF ConsoleInv
      <4>2. \A m \in Calls : m # n => calls'[m] = calls[m] /\ (Under(m)' <=> Under(m))
        BY <1>1, <1>2, EndCalls
      <4>3. list'[r] = list[r] /\ (list = None => list' = None)
        BY <1>1, <1>2, <2>2, <3>4 DEF Lists, None
      <4>4. CASE r \in overtaken \/ acted[r] \subseteq {list[r]}
        BY <1>2, <3>4, <4>3, <4>4 DEF RowSound
      <4>5. CASE \E m \in Calls : Confirms(m, r)
        <5>1. PICK m \in Calls : Confirms(m, r) /\ m # n
          BY <3>4, <4>5 DEF Confirms
        <5>2. Confirms(m, r)'
          BY <4>2, <5>1 DEF Confirms
        <5>3. QED
          BY <5>2 DEF RowSound
      <4>6. CASE \E m \in Calls : Under(m) /\ calls[m].ask.op \in Readings
        <5>1. PICK m \in Calls : Under(m) /\ calls[m].ask.op \in Readings /\ m # n
          BY <3>1, <4>6 DEF Readings
        <5>2. Under(m)' /\ calls'[m].ask.op \in Readings
          BY <4>2, <5>1
        <5>3. QED
          BY <5>2 DEF RowSound
      <4>7. CASE list = None /\ \E m \in Calls : Adds(m)
        <5>1. PICK m \in Calls : Adds(m) /\ m # n
          BY <3>1, <4>7 DEF Adds
        <5>2. Adds(m)' /\ list' = None /\ page' = "passkeys"
          BY <1>2, <2>2, <4>2, <4>3, <4>7, <5>1 DEF Adds
        <5>3. QED
          BY <5>2 DEF RowSound, None
      <4>8. CASE list = None /\ failed
        BY <1>2, <2>2, <4>3, <4>8 DEF RowSound, None
      <4>9. QED
        BY <2>2, <4>1, <4>4, <4>5, <4>6, <4>7, <4>8 DEF RowSound
    <3>5. QED
      BY <3>3, <3>4
  <2>3. QED
    BY <1>2, <2>1, <2>2 DEF Rereads
<1>8. QED
  BY <1>2, <1>3, <1>4, <1>5, <1>6, <1>7, EndStep

\* An action is followed by a reading, or by that of the auth store.
LEMMA ReadAgainStep == ASSUME ConsoleInv, NEW n \in Calls, ReadAgain(n) PROVE ConsoleInv'
<1> DEFINE q == calls[n].ask
<1>1. /\ ConsoleTypeOK /\ CallsSound /\ ServerSound /\ BusySound /\ FactorSound
      /\ calls \in [Calls -> Call] /\ q \in Ask
  BY DEF ConsoleInv, ConsoleTypeOK, Call
<1>2. /\ Take(n) /\ q.op \in {"act", "revoke"} /\ calls[n].ok /\ calls[n].stage = "answered"
      /\ Rereads(q)
      /\ UNCHANGED <<list, overtaken, failed, shown, page, server, gone, acted, query, left>>
  BY DEF ReadAgain, Acted, Take
<1>3. CASE page = "factor" /\ loading
  <2>1. End(n) /\ marked' = {} /\ enroll' = (enroll /\ ~ q.to) /\ UNCHANGED loading
    BY <1>3 DEF ReadAgain
  <2>2. /\ list' \in Lists /\ overtaken' \in SUBSET Rows /\ shown' \in Query /\ marked' \in SUBSET Rows
        /\ failed' \in BOOLEAN /\ loading' \in BOOLEAN /\ enroll' \in BOOLEAN
    BY <1>1, <1>2, <2>1 DEF ConsoleTypeOK
  <2>3. enroll' => enroll /\ ~ SwitchedOn(n)
    BY <2>1 DEF SwitchedOn
  <2>4. ~ Asking(q)
    BY <1>2 DEF Asking, Readings
  <2>5. ASSUME NEW r \in Rows PROVE RowSound(r)'
    <3>1. PICK m \in Calls : Under(m) /\ Asking(calls[m].ask)
      BY <1>1, <1>3 DEF BusySound
    <3>2. m # n /\ calls[m].ask.op \in Readings
      BY <1>3, <2>4, <3>1 DEF Asking
    <3>3. Under(m)' /\ calls'[m].ask.op \in Readings
      BY <1>1, <2>1, <3>1, <3>2, EndCalls
    <3>4. QED
      BY <3>3 DEF RowSound
  <2>6. page = "factor" /\ q.op = "load" => FALSE
    BY <1>2
  <2>7. QED
    BY <1>2, <2>1, <2>2, <2>3, <2>4, <2>5, <2>6, EndStep
<1>4. CASE ~ (page = "factor" /\ loading)
  <2> DEFINE p == [q EXCEPT !.op = "reload"]
  <2>1. /\ calls' = [calls EXCEPT ![n] = Request(p)]
        /\ loading' = (loading \/ page = "factor") /\ UNCHANGED <<marked, enroll>>
    BY <1>4 DEF ReadAgain
  <2>2. p \in Ask /\ p.op = "reload" /\ p.row = q.row /\ p.to = q.to
    BY <1>1 DEF Ask
  <2> HIDE DEF p
  <2>3. /\ calls' \in [Calls -> Call] /\ calls'[n].stage = "sent" /\ calls'[n].ask = p
        /\ \A m \in Calls : m # n => calls'[m] = calls[m]
    BY <1>1, <2>1, <2>2, CallTypes
  <2>4. /\ Under(n) /\ Under(n)'
        /\ \A m \in Calls : Under(m)' <=> Under(m)
    BY <1>2, <2>3 DEF Under
  <2>5. ConsoleTypeOK'
    BY <1>1, <1>2, <2>1, <2>3 DEF ConsoleTypeOK
  <2>6. CallsSound'
    <3>1. "reload" \in Ops(page)
      BY <1>2, OpsOf DEF Rereads
    <3>2. QED
      BY <1>1, <1>2, <2>2, <2>3, <2>4, <3>1 DEF CallsSound
  <2>7. ServerSound'
    <3>1. \A m \in Calls : calls'[m].stage = "answered" => m # n /\ calls'[m] = calls[m]
      BY <2>3
    <3>2. QED
      BY <1>1, <1>2, <3>1 DEF ServerSound, HasRead, Confirms
  <2>8. BusySound'
    <3>1. loading' => \E m \in Calls : Under(m)' /\ Asking(calls'[m].ask)
      <4>1. CASE page = "factor"
        BY <2>2, <2>3, <2>4, <4>1 DEF Asking, Readings
      <4>2. CASE page # "factor" /\ loading
        <5>1. PICK m \in Calls : Under(m) /\ Asking(calls[m].ask)
          BY <1>1, <4>2 DEF BusySound
        <5>2. m # n
          BY <1>2, <5>1 DEF Asking, Readings
        <5>3. QED
          BY <2>3, <2>4, <5>1, <5>2
      <4>3. QED
        BY <2>1, <4>1, <4>2
    <3>2. Marks(p)
      BY <1>2, <2>2 DEF Marks, Rereads
    <3>3. QED
      BY <1>2, <2>3, <2>4, <3>1, <3>2 DEF BusySound, Asking, Marks, Rereads
  <2>9. FactorSound'
    <3>1. SUFFICES ASSUME page = "factor" PROVE FactorSound'
      BY <1>2 DEF FactorSound
    <3>2. /\ \A r \in Rows : r # Self => acted[r] = {}
          /\ \A m \in Calls : Under(m) => (m = 0 <=> calls[m].ask.op = "load")
          /\ \A m \in Calls : Under(m) /\ m # 0 => marked # {} /\ calls[m].ask.row = Self
          /\ \A l, m \in Calls : Under(l) /\ Under(m) /\ l # 0 /\ m # 0 => l = m
          /\ \A m \in Calls :
                 calls[m].stage = "answered" /\ calls[m].ok /\ calls[m].ask.op = "setup"
                     => acted[Self] \subseteq {FALSE}
          /\ enroll /\ TRUE \in acted[Self] => \E m \in Calls : SwitchedOn(m)
      BY <1>1, <3>1 DEF FactorSound
    <3>3. n # 0 /\ q.row = Self
      BY <1>2, <2>4, <3>2
    <3>4. ASSUME enroll, TRUE \in acted[Self] PROVE \E m \in Calls : SwitchedOn(m)'
      <4>1. PICK m \in Calls : SwitchedOn(m)
        BY <3>2, <3>4
      <4>2. SwitchedOn(m)'
        BY <2>2, <2>3, <2>4, <4>1 DEF SwitchedOn, Confirms
      <4>3. QED
        BY <4>2
    <3>5. \A m \in Calls : Under(m)' => (m = 0 <=> calls'[m].ask.op = "load")
      BY <2>2, <2>3, <2>4, <3>2, <3>3
    <3>6. \A m \in Calls : Under(m)' /\ m # 0 => marked # {} /\ calls'[m].ask.row = Self
      BY <2>2, <2>3, <2>4, <3>2, <3>3
    <3>7. \A m \in Calls :
              calls'[m].stage = "answered" /\ calls'[m].ok /\ calls'[m].ask.op = "setup"
                  => acted[Self] \subseteq {FALSE}
      BY <2>3, <3>2
    <3>8. QED
      BY <1>2, <2>1, <2>4, <3>1, <3>2, <3>4, <3>5, <3>6, <3>7 DEF FactorSound
  <2>10. \A r \in Rows : RowSound(r)'
    BY <2>2, <2>3, <2>4 DEF RowSound, Readings
  <2>11. QED
    BY <2>5, <2>6, <2>7, <2>8, <2>9, <2>10 DEF ConsoleInv
<1>5. QED
  BY <1>3, <1>4

-----------------------------------------------------------------------------
(* Rows of the server: every step *)

LEMMA OthersChangeStep == ASSUME ConsoleInv, NEW x \in Rows, OthersChange(x) PROVE ConsoleInv'
<1>1. /\ ConsoleTypeOK /\ CallsSound /\ ServerSound /\ BusySound /\ FactorSound
      /\ server \in Lists /\ acted \in [Rows -> SUBSET BOOLEAN] /\ gone \in SUBSET Rows
      /\ left.clicks \in Nat
  BY ConsoleAssumption DEF ConsoleInv, ConsoleTypeOK
<1>2. /\ UNCHANGED <<page, list, calls, loading, marked, failed, enroll, query, shown, overtaken>>
      /\ server' = [server EXCEPT ![x] = ~ @] /\ acted' = [acted EXCEPT ![x] = {}] /\ x \notin gone
      /\ gone' = IF page = "passkeys" THEN gone \cup {r \in Rows : server[r] /\ ~ server'[r]} ELSE gone
  BY DEF OthersChange, Revoked
<1>3. left' \in [clicks : 0 .. MaxClicks, faults : 0 .. MaxFaults, others : 0 .. MaxOthers]
      /\ left'.clicks = left.clicks
  BY <1>1, UseType DEF OthersChange, Use, ConsoleTypeOK
<1>4. /\ server' \in Lists /\ acted' \in [Rows -> SUBSET BOOLEAN] /\ acted'[x] = {}
      /\ \A r \in Rows : r # x => server'[r] = server[r] /\ acted'[r] = acted[r]
      /\ \A r \in Rows : acted'[r] \subseteq acted[r]
  BY <1>1, <1>2 DEF Lists
<1>5. ConsoleTypeOK'
  BY <1>1, <1>2, <1>3, <1>4 DEF ConsoleTypeOK
<1>6. CallsSound' /\ BusySound'
  BY <1>1, <1>2, <1>3 DEF CallsSound, BusySound, Under, Asking, Marks, Rereads
<1>7. ServerSound'
  <2>1. \A r \in gone' : ~ server'[r]
    BY <1>1, <1>2, <1>4 DEF ServerSound
  <2>2. \A r \in Rows : acted'[r] \subseteq {server'[r]}
    BY <1>1, <1>4 DEF ServerSound
  <2>3. QED
    BY <1>1, <1>2, <1>4, <2>1, <2>2 DEF ServerSound, HasRead, Confirms
<1>8. FactorSound'
  <2>1. Self \in Rows
    BY ConsoleAssumption
  <2>2. \A n \in Calls : (SwitchedOn(n)' <=> SwitchedOn(n)) /\ (Under(n)' <=> Under(n))
    BY <1>2 DEF SwitchedOn, Confirms, Under
  <2>3. QED
    BY <1>1, <1>2, <1>4, <2>1, <2>2 DEF FactorSound
<1>9. ASSUME NEW r \in Rows PROVE RowSound(r)'
  <2>1. RowSound(r)
    BY DEF ConsoleInv
  <2>2. QED
    BY <1>2, <1>4, <2>1 DEF RowSound, Confirms, Under, Adds, Hopeless, None
<1>10. QED
  BY <1>5, <1>6, <1>7, <1>8, <1>9 DEF ConsoleInv

LEMMA CancelStep == ASSUME ConsoleInv, CancelEnrollment PROVE ConsoleInv'
<1>1. /\ ConsoleTypeOK /\ CallsSound /\ ServerSound /\ BusySound /\ FactorSound
      /\ acted \in [Rows -> SUBSET BOOLEAN] /\ Self \in Rows /\ left.clicks \in Nat /\ Calls \subseteq Nat
  BY ConsoleAssumption DEF ConsoleInv, ConsoleTypeOK, Calls
<1>2. /\ page = "factor" /\ enroll /\ ~ list[Self] /\ marked = {} /\ enroll' = FALSE /\ failed' = FALSE
      /\ UNCHANGED <<page, server, gone, list, acted, calls, loading, marked, query, shown, overtaken>>
  BY DEF CancelEnrollment
<1>3. /\ left' \in [clicks : 0 .. MaxClicks, faults : 0 .. MaxFaults, others : 0 .. MaxOthers]
      /\ left'.clicks <= left.clicks /\ left'.clicks \in Nat
  BY <1>1, UseType, ConsoleAssumption DEF CancelEnrollment
<1>4. ConsoleTypeOK'
  BY <1>1, <1>2, <1>3 DEF ConsoleTypeOK
<1>5. CallsSound' /\ BusySound' /\ ServerSound'
  BY <1>1, <1>2, <1>3 DEF CallsSound, BusySound, ServerSound, Under, Asking, Marks, Rereads,
     HasRead, Confirms
<1>6. FactorSound'
  <2>1. \A n \in Calls : Under(n)' <=> Under(n)
    BY <1>2 DEF Under
  <2>2. QED
    BY <1>1, <1>2, <2>1 DEF FactorSound
<1>7. ~ (TRUE \in acted[Self])
  BY <1>1, <1>2 DEF FactorSound, SwitchedOn, Confirms
<1>8. ASSUME NEW r \in Rows PROVE RowSound(r)'
  <2>1. acted[r] \subseteq {FALSE} /\ (r = Self \/ acted[r] = {})
    BY <1>1, <1>2, <1>7 DEF FactorSound
  <2>2. list \in Lists
    BY <1>1 DEF ConsoleTypeOK
  <2>3. QED
    BY <1>2, <2>1, <2>2 DEF RowSound, Lists
<1>9. QED
  BY <1>4, <1>5, <1>6, <1>8 DEF ConsoleInv

LEMMA ConsoleStutter == ASSUME ConsoleInv, UNCHANGED consoleVars PROVE ConsoleInv'
<1>1. UNCHANGED <<page, server, gone, list, acted, calls, loading, marked, failed,
                  enroll, query, shown, overtaken, left>>
  BY DEF consoleVars
<1>2. (CallsSound /\ ServerSound /\ BusySound)' <=> (CallsSound /\ ServerSound /\ BusySound)
  BY <1>1 DEF CallsSound, ServerSound, BusySound, Under, Asking, Marks, Rereads, HasRead, Confirms
<1>3. FactorSound' <=> FactorSound
  BY <1>1 DEF FactorSound, SwitchedOn, Confirms, Under
<1>4. \A r \in Rows : RowSound(r)' <=> RowSound(r)
  BY <1>1 DEF RowSound, Confirms, Under, Adds, Hopeless, None
<1>5. ConsoleTypeOK' <=> ConsoleTypeOK
  BY <1>1 DEF ConsoleTypeOK
<1>6. QED
  BY <1>2, <1>3, <1>4, <1>5 DEF ConsoleInv

LEMMA ConsoleInvStep == ASSUME ConsoleInv, ConsoleNext PROVE ConsoleInv'
<1>1. CASE RefreshList \/ StartTotpSetup \/ SwitchFactor
  BY <1>1, ClicksStep
<1>2. CASE CancelEnrollment
  BY <1>2, CancelStep
<1>3. ASSUME NEW r \in Rows, \/ ToggleRole(r) \/ RevokeSessions(r) \/ RevokeDevice(r)
                             \/ AddPasskey(r) \/ RemovePasskey(r)
      PROVE  ConsoleInv'
  BY <1>3, ClicksStep
<1>4. ASSUME NEW r \in Rows, OthersChange(r) PROVE ConsoleInv'
  BY <1>4, OthersChangeStep
<1>5. ASSUME NEW q \in Query, ChangeQuery(q) PROVE ConsoleInv'
  BY <1>5, ClicksStep
<1>6. ASSUME NEW n \in Calls, Execute(n) \/ LoseAnswer(n) PROVE ConsoleInv'
  BY <1>6, ExecuteStep
<1>7. ASSUME NEW n \in Calls, Loaded(n) \/ SetUp(n) \/ ActFailed(n) \/ ReadAgain(n) \/ DropRow(n)
      PROVE  ConsoleInv'
  BY <1>7, LoadedStep, SetUpStep, ActFailedStep, ReadAgainStep, DropRowStep
<1>8. QED
  BY <1>1, <1>2, <1>3, <1>4, <1>5, <1>6, <1>7 DEF ConsoleNext

-----------------------------------------------------------------------------
(* The window *)

PagesInv == TransferInv /\ MonitorInv /\ ConsoleInv

LEMMA TransferStarts == ASSUME TransferInit PROVE TransferInv
<1>1. /\ open = FALSE /\ timeout = Default /\ idle = 0 /\ elapsed = 0 /\ opened = 0
      /\ store = Nothing /\ handlers = {} /\ busy = {} /\ files = {Backup} /\ held = {Start}
      /\ steps = MaxSteps
  BY DEF TransferInit, ClockInit
<1>2. AutoLockTypeOK
  <2>1. 0 \in 0 .. Horizon /\ 0 \in 0 .. Period /\ Default \in Timeouts
    BY TimesAssumption
  <2>2. QED
    BY <1>1, <2>1 DEF AutoLockTypeOK
<1>3. TransferTypeOK
  BY <1>1, <1>2, FilesFit, TransferAssumption DEF TransferTypeOK
<1>4. LockSound /\ ExportSound
  BY <1>1 DEF LockSound, ExportSound
<1>5. QED
  BY <1>3, <1>4 DEF TransferInv

LEMMA MonitorStarts == ASSUME MonitorInit PROVE MonitorInv
<1>1. /\ corpus \in SUBSET ([id : Ids \ {NewId}, body : {"old"}] \cup Emails)
      /\ ranges = [i \in Ids |-> {}] /\ verdicts = [x \in Item \cup Emails |-> "unknown"]
      /\ mounts = <<NewMount>> /\ said = {}
  BY DEF MonitorInit
<1>2. corpus \subseteq Item \cup Emails
  BY <1>1 DEF Item
<1>3. /\ mounts \in Seq(Mount) /\ mounts # <<>>
      /\ \A n \in DOMAIN mounts : mounts[n] = NewMount
  BY <1>1, NewMountSound
<1>4. \A n \in DOMAIN mounts :
          /\ mounts[n].passwords \in Scan /\ mounts[n].mail \in Mail
          /\ ScanSound(mounts[n].passwords, said) /\ MailSound(mounts[n].mail, said)
  BY <1>3, NewMountSound DEF Mount
<1>5. ranges \in [Ids -> SUBSET SUBSET Item] /\ verdicts \in [Item \cup Emails -> Verdicts \cup {"unknown"}]
  BY <1>1
<1>6. CachesSound
  BY <1>1 DEF CachesSound, Item
<1>7. MonitorTypeOK
  BY <1>1, <1>2, <1>4, <1>5 DEF MonitorTypeOK
<1>8. QED
  BY <1>3, <1>4, <1>5, <1>6, <1>7 DEF MonitorInv

LEMMA ConsoleStarts == ASSUME ConsoleInit PROVE ConsoleInv
<1> DEFINE q == Load(query)
<1>1. /\ page \in ConsolePages /\ server \in Lists /\ gone = {} /\ list = None
      /\ acted = [r \in Rows |-> {}] /\ query = FirstQuery /\ shown = query
      /\ calls = [n \in Calls |-> IF n = 0 THEN Request(q) ELSE NoCall]
      /\ loading = TRUE /\ marked = {} /\ failed = FALSE /\ enroll = FALSE /\ overtaken = {}
      /\ left = [clicks |-> MaxClicks, faults |-> MaxFaults, others |-> MaxOthers]
  BY DEF ConsoleInit
<1>2. q \in Ask /\ q.op = "load" /\ Self \in Rows
  BY <1>1, CallTypes, ConsoleAssumption
<1> HIDE DEF q
<1>3. /\ calls \in [Calls -> Call] /\ 0 \in Calls /\ calls[0].stage = "sent" /\ calls[0].ask = q
      /\ \A n \in Calls : calls[n].ask.op = "load" /\ calls[n].stage # "answered"
      /\ \A n \in Calls : calls[n].stage # "none" => n = 0
  <2>1. 0 \in Calls
    BY ConsoleAssumption DEF Calls
  <2>2. QED
    BY <1>1, <1>2, <2>1, CallTypes
<1>4. ConsoleTypeOK
  <2>1. left \in [clicks : 0 .. MaxClicks, faults : 0 .. MaxFaults, others : 0 .. MaxOthers]
    BY <1>1, ConsoleAssumption
  <2>2. acted \in [Rows -> SUBSET BOOLEAN]
    BY <1>1
  <2>3. QED
    BY <1>1, <1>3, <2>1, <2>2, CallTypes DEF ConsoleTypeOK
<1>5. CallsSound
  <2>1. "load" \in Ops(page)
    BY DEF Ops
  <2>2. QED
    BY <1>3, <2>1 DEF CallsSound, Under
<1>6. ServerSound
  BY <1>1, <1>3 DEF ServerSound, HasRead, Confirms
<1>7. BusySound
  BY <1>1, <1>2, <1>3 DEF BusySound, Under, Asking, Readings
<1>8. FactorSound
  BY <1>1, <1>2, <1>3 DEF FactorSound, Under
<1>9. \A r \in Rows : RowSound(r)
  BY <1>1 DEF RowSound
<1>10. QED
  BY <1>4, <1>5, <1>6, <1>7, <1>8, <1>9 DEF ConsoleInv

windowVars == <<allVars, monitorVars, consoleVars>>

LEMMA PagesInvStep == ASSUME PagesInv, [PagesNext]_windowVars PROVE PagesInv'
<1>1. TransferInv /\ MonitorInv /\ ConsoleInv
  BY DEF PagesInv
<1>2. CASE UNCHANGED windowVars
  BY <1>1, <1>2, TransferStutter, MonitorStutter, ConsoleStutter DEF windowVars, PagesInv
<1>3. CASE page = "data" /\ TransferNext /\ UNCHANGED <<monitorVars, consoleVars>>
  BY <1>1, <1>3, TransferInvStep, MonitorStutter, ConsoleStutter DEF PagesInv
<1>4. CASE page = "monitor" /\ MonitorNext /\ UNCHANGED consoleVars
  BY <1>1, <1>4, MonitorInvStep, ConsoleStutter DEF PagesInv
<1>5. CASE page \notin {"data", "monitor"} /\ ConsoleNext /\ UNCHANGED <<allVars, monitorVars>>
  BY <1>1, <1>5, TransferStutter, MonitorStutter, ConsoleInvStep DEF PagesInv
<1>6. QED
  BY <1>2, <1>3, <1>4, <1>5 DEF PagesNext

\* The lock, the handlers of the Data section and the caches and scans of the
\* monitor stay sound, and every row that differs from what the page did to it
\* was read before or is about to be read again or corrected, or an error is or
\* will be shown.
THEOREM PagesInvariant == PagesSpec => []PagesInv
<1>1. PagesInit => PagesInv
  BY TransferStarts, MonitorStarts, ConsoleStarts DEF PagesInit, PagesInv
<1>2. PagesInv /\ [PagesNext]_windowVars => PagesInv'
  BY PagesInvStep
<1>3. QED
  BY <1>1, <1>2, PTL DEF PagesSpec, windowVars

\* Every variable of the pages has its type (useAutoLock, settings, monitor,
\* admin and devices pages).
THEOREM PagesTypeCorrect == PagesSpec => []PagesTypeOK
<1>1. PagesInv => PagesTypeOK
  BY DEF PagesInv, TransferInv, MonitorInv, ConsoleInv, PagesTypeOK
<1>2. QED
  BY <1>1, PagesInvariant, PTL

\* A vault with a timeout that is still open has not been idle for longer than
\* the timeout and one period of the interval, or was unlocked within the last
\* period (useAutoLock, any timeouts and any period).
THEOREM LocksOnTime == PagesSpec => []LocksInTime
<1>1. PagesInv => LocksInTime
  <2> SUFFICES ASSUME PagesInv, open, timeout > 0 PROVE idle <= timeout + Period \/ opened <= Period
    BY DEF LocksInTime
  <2>1. /\ timeout \in Nat /\ idle \in Nat /\ elapsed \in 0 .. Period /\ opened \in Nat /\ Period \in Nat
    BY TimesAssumption DEF PagesInv, TransferInv, TransferTypeOK, AutoLockTypeOK
  <2>2. idle < timeout + elapsed \/ opened <= elapsed
    BY DEF PagesInv, TransferInv, LockSound
  <2>3. QED
    BY <2>1, <2>2
<1>2. QED
  BY <1>1, PagesInvariant, PTL

\* Every file that an export writes holds contents that the unlocked vault held
\* at some moment, although it is written after awaits (handleExport).
THEOREM ExportsWhole == PagesSpec => []ExportIsWhole
<1>1. PagesInv => ExportIsWhole
  BY DEF PagesInv, TransferInv, ExportSound, ExportIsWhole
<1>2. QED
  BY <1>1, PagesInvariant, PTL

\* A finished scan shows about every password, and a report about its address,
\* what a service has answered (lib/breaches and its caches, monitor/page).
THEOREM CleanIsChecked == PagesSpec => []NothingUncheckedIsClean
<1>1. PagesInv => NothingUncheckedIsClean
  <2> SUFFICES ASSUME PagesInv, NEW n \in DOMAIN mounts
               PROVE  LET s == mounts[n].passwords
                          m == mounts[n].mail IN
                      /\ s.state = "done" =>
                            \A p \in ToSet(s.seen) : <<p, Verdict(p, s.pwned)>> \in said
                      /\ m.state = "done" => <<m.target, m.result>> \in said
    BY DEF NothingUncheckedIsClean
  <2> DEFINE s == mounts[n].passwords
             m == mounts[n].mail
  <2>1. s \in Scan /\ ScanSound(s, said) /\ MailSound(m, said)
    BY TheMount DEF PagesInv
  <2>2. s.seen \in Seq(Item)
    BY <2>1, BoundedSeqs, TransferAssumption DEF Scan
  <2> HIDE DEF s, m
  <2>3. ASSUME s.state = "done", NEW p \in ToSet(s.seen)
        PROVE  <<p, Verdict(p, s.pwned)>> \in said
    <3>1. PICK k \in DOMAIN s.seen : p = s.seen[k]
      BY DEF ToSet
    <3>2. DOMAIN s.seen = 1 .. Len(s.seen)
      BY <2>2, LenProperties
    <3>3. QED
      BY <2>1, <2>3, <3>1, <3>2 DEF ScanSound
  <2>4. QED
    BY <2>1, <2>3 DEF MailSound, s, m
<1>2. QED
  BY <1>1, PagesInvariant, PTL

\* An import only appends to the items that are in the store when it is written
\* (handleImport).
THEOREM ImportsKeepItems == PagesSpec => ImportKeepsItems
<1> DEFINE Kept == \A h \in handlers : h.kind = "import" /\ h \notin handlers'
                       => IsPrefix(store.items, store'.items)
<1>1. PagesInv /\ [PagesNext]_windowVars => [Kept]_allVars
  <2> SUFFICES ASSUME PagesInv, [PagesNext]_windowVars PROVE [Kept]_allVars
    OBVIOUS
  <2>1. CASE UNCHANGED windowVars
    BY <2>1 DEF windowVars
  <2>2. CASE page = "data" /\ TransferNext
    BY <2>2, KeepsItems DEF PagesInv
  <2>3. CASE page = "monitor" /\ MonitorNext
    <3>1. UNCHANGED handlers
      BY <2>3 DEF MonitorNext, allVars, transferVars, LockClicked, LockStore, Adopt, Unlock
    <3>2. QED
      BY <3>1
  <2>4. CASE page \notin {"data", "monitor"} /\ UNCHANGED allVars
    BY <2>4
  <2>5. QED
    BY <2>1, <2>2, <2>3, <2>4 DEF PagesNext
<1>2. QED
  BY <1>1, PagesInvariant, PTL DEF PagesSpec, windowVars, ImportKeepsItems

\* A page at rest without an error shows what its own actions did, but for rows
\* that were read before them, in whatever order requests are executed and
\* answers arrive (admin/users, devices, settings, useAuth).
THEOREM OwnActionsShown == PagesSpec => []ShowsOwnActions
<1>1. PagesInv => ShowsOwnActions
  <2> SUFFICES ASSUME PagesInv, Quiet, ~ failed, NEW r \in Rows \ overtaken
               PROVE  acted[r] \subseteq {list[r]}
    BY DEF ShowsOwnActions
  <2>1. \A n \in Calls : ~ Under(n) /\ calls[n].stage # "answered"
    BY DEF Quiet, Under
  <2>2. RowSound(r)
    BY DEF PagesInv, ConsoleInv
  <2>3. QED
    BY <2>1, <2>2 DEF RowSound, Confirms, Adds, Hopeless
<1>2. QED
  BY <1>1, PagesInvariant, PTL

\* When nothing is under way, no page is left loading and nothing is left busy
\* (run, addPasskey, the two-factor forms and useAuth.refresh).
THEOREM NothingLeftBusy == PagesSpec => []NothingHangs
<1>1. PagesInv => NothingHangs
  BY DEF PagesInv, ConsoleInv, BusySound, NothingHangs, Quiet, Under
<1>2. QED
  BY <1>1, PagesInvariant, PTL

=============================================================================
