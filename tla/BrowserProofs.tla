--------------------------- MODULE BrowserProofs ---------------------------
(***************************************************************************)
(* Proofs about Browser for any people, windows and sessions, whoever uses *)
(* which window when.  The invariant follows the jar: whatever window      *)
(* holds the vault of k, the session in the jar is k's, or its person has  *)
(* signed in beside k.  Only an answered sign-in puts another session into *)
(* the jar, and that is when `beside` is written.                          *)
(***************************************************************************)
EXTENDS Browser, TLAPS

-----------------------------------------------------------------------------
(* The invariant: predicates of the calls cs of a window v, the jar ck, the *)
(* rows r of sessions and the history b                                    *)

\* s is a session of k, of somebody who signed in beside k, or none.
Known(s, k, r, b) == s # NoCookie => r[s].of = k \/ <<r[s].of, k>> \in b

\* A session that was ever handed out.
Issued(s, r) == s # NoCookie => r[s].state # "unused"

FormOps == {"none", "login", "passkey", "challenge", "open", "delete"}

Ops(x) ==
    IF x = "form" THEN FormOps ELSE IF x = "save" THEN {"none", "save", "reload"}
    ELSE {"none", "logout"}

\* A sign-in brings a session of its person; the vault of an unlock is that of
\* whose session asked for it.
FormSound(c, ck, r, b) ==
    /\ c.op \in {"login", "passkey", "open"} => c.who \in People
    /\ c.op \in {"login", "passkey"} /\ c.at # "sent" => c.by # NoCookie /\ r[c.by].of = c.who
    /\ c.op = "open" /\ c.at = "sent" /\ c.by # NoCookie /\ r[c.by].of = c.who =>
          Known(ck, c.who, r, b)
    /\ c.op = "open" /\ c.at # "sent" => c.vault.key = c.who /\ Known(ck, c.who, r, b)

\* An upload that is encrypted looks at the jar, one that is sent carries its cookie.
SaveSound(c, ck, r, b) ==
    /\ c.op = "save" => c.vault.key \in People
    /\ c.at = "encrypting" => c.op = "save" /\ Known(ck, c.vault.key, r, b)
    /\ c.op = "save" /\ c.at = "sent" => Known(c.by, c.vault.key, r, b)

\* An open vault: nothing but the deletion of an account is under way.
OpenSound(c, v, ck, r, b) ==
    v.vault.key # NoOne =>
        /\ v.page = "vault"
        /\ c.op \in {"none", "delete"}
        /\ Known(ck, v.vault.key, r, b)

WindowSound(cs, v, ck, r, b) ==
    /\ \A x \in Slots : cs[x].op \in Ops(x) /\ Issued(cs[x].by, r)
    /\ FormSound(cs["form"], ck, r, b) /\ SaveSound(cs["save"], ck, r, b)
    /\ OpenSound(cs["form"], v, ck, r, b)

Inv ==
    /\ BrowserTypeOK
    /\ SavesFindTheirVault
    /\ Issued(cookie, session)
    /\ \A w \in Windows : WindowSound(call[w], win[w], cookie, session, beside)

-----------------------------------------------------------------------------
(* Lemmas about the data *)

WindowType == [page : Pages, vault : Vault]

LEMMA Values ==
    /\ NoVault \in Vault /\ NoVault.key = NoOne /\ NoCall \in Call
    /\ NoCall.op = "none" /\ NoCall.at = "sent" /\ NoCall.by = NoCookie
    /\ NoOne \notin People
<1>1. 0 \in 0 .. MaxVersion
  BY BoundsAssumption
<1>2. QED
  BY <1>1, PeopleAssumption DEF NoVault, Vault, NoCall, Call

LEMMA SlotNames == Slots = {"form", "save", "out"}
BY DEF Slots

\* A slot that is free again is sound.
LEMMA FreeSound ==
    ASSUME NEW ck, NEW r, NEW b
    PROVE  /\ FormSound(NoCall, ck, r, b) /\ SaveSound(NoCall, ck, r, b)
           /\ Issued(NoCall.by, r) /\ \A x \in Slots : NoCall.op \in Ops(x)
BY Values DEF FormSound, SaveSound, Issued, Ops, FormOps

\* Rows of sessions keep their owner once they have one.
Kept(r, r2) ==
    \A s \in Sessions : r[s].state # "unused" => r2[s].of = r[s].of /\ r2[s].state # "unused"

LEMMA Keeping ==
    ASSUME NEW cs, NEW v, NEW ck, NEW r, NEW r2, Kept(r, r2), NEW b, NEW b2, b \subseteq b2,
           \A x \in Slots : cs[x].by \in Sessions \cup {NoCookie},
           ck \in Sessions \cup {NoCookie}, Issued(ck, r),
           WindowSound(cs, v, ck, r, b)
    PROVE  WindowSound(cs, v, ck, r2, b2) /\ Issued(ck, r2)
<1>1. \A s \in Sessions \cup {NoCookie} : Issued(s, r) =>
          /\ Issued(s, r2) /\ (s # NoCookie => r2[s].of = r[s].of)
          /\ \A k : Known(s, k, r, b) => Known(s, k, r2, b2)
  BY DEF Kept, Issued, Known
<1>2. \A x \in Slots : cs[x].op \in Ops(x) /\ Issued(cs[x].by, r2)
  BY <1>1 DEF WindowSound
<1>3. /\ cs["form"].by \in Sessions \cup {NoCookie} /\ Issued(cs["form"].by, r)
      /\ cs["save"].by \in Sessions \cup {NoCookie} /\ Issued(cs["save"].by, r)
  BY SlotNames DEF WindowSound
<1>4. FormSound(cs["form"], ck, r2, b2)
  BY <1>1, <1>3 DEF WindowSound, FormSound
<1>5. SaveSound(cs["save"], ck, r2, b2)
  BY <1>1, <1>3 DEF WindowSound, SaveSound
<1>6. OpenSound(cs["form"], v, ck, r2, b2)
  BY <1>1 DEF WindowSound, OpenSound
<1>7. QED
  BY <1>1, <1>2, <1>4, <1>5, <1>6 DEF WindowSound

\* Holding, of the calls cs of a window v.
Holds(cs, v, r, k) ==
    \/ v.page = "vault" /\ v.vault.key = k
    \/ /\ cs["form"].op = "open" /\ cs["form"].who = k
       /\ cs["form"].at = "sent" => cs["form"].by # NoCookie /\ r[cs["form"].by].of = k
    \/ cs["save"].at = "encrypting" /\ cs["save"].vault.key = k

\* The jar changes to a session known to everybody whose vault is held.
LEMMA NewJar ==
    ASSUME NEW cs, NEW v, NEW ck, NEW ck2, NEW r, NEW b, WindowSound(cs, v, ck, r, b),
           v.vault.key \in People \cup {NoOne},
           \A k \in People : Holds(cs, v, r, k) => Known(ck2, k, r, b)
    PROVE  WindowSound(cs, v, ck2, r, b)
<1>1. FormSound(cs["form"], ck2, r, b)
  BY DEF WindowSound, FormSound, Holds
<1>2. SaveSound(cs["save"], ck2, r, b)
  BY DEF WindowSound, SaveSound, Holds
<1>3. OpenSound(cs["form"], v, ck2, r, b)
  BY DEF WindowSound, OpenSound, Holds
<1>4. QED
  BY <1>1, <1>2, <1>3 DEF WindowSound

\* One slot of one window changes.
LEMMA SlotStep ==
    ASSUME BrowserTypeOK, NEW w \in Windows, NEW x \in Slots, NEW c \in Call,
           call' = [call EXCEPT ![w][x] = c]
    PROVE  /\ call' \in [Windows -> [Slots -> Call]] /\ call'[w][x] = c
           /\ \A y \in Slots : y # x => call'[w][y] = call[w][y]
           /\ \A v \in Windows : v # w => call'[v] = call[v]
BY DEF BrowserTypeOK

\* A request that is answered, by a refusal or not.
LEMMA ReplyStep ==
    ASSUME BrowserTypeOK, NEW w \in Windows, NEW x \in Slots,
           NEW at \in {"ok", "conflict", "refused"}, Reply(w, x, at)
    PROVE  /\ call' \in [Windows -> [Slots -> Call]]
           /\ call'[w][x].by = NoCookie
           /\ at # "refused" =>
                 /\ call'[w][x].op = call[w][x].op /\ call'[w][x].at = at
                 /\ call'[w][x].who = call[w][x].who /\ call'[w][x].vault = call[w][x].vault
           /\ at = "refused" => IF x = "out" THEN call'[w][x].op = "logout"
                                            ELSE call'[w][x] = NoCall
           /\ \A y \in Slots : y # x => call'[w][y] = call[w][y]
           /\ \A v \in Windows : v # w => call'[v] = call[v]
<1> DEFINE old == call[w][x]
           gone == [NoCall EXCEPT !.op = "logout", !.at = "refused"]
           new == IF at # "refused" THEN [old EXCEPT !.at = at, !.by = NoCookie]
                  ELSE IF x = "out" THEN gone ELSE NoCall
<1>1. old \in Call
  BY DEF BrowserTypeOK
<1>2. gone \in [op : {"logout"}, at : {"refused"}, by : {NoCookie}, who : {NoOne},
                vault : {NoVault}]
  BY DEF NoCall
<1>3. gone \in Call /\ gone.op = "logout" /\ gone.by = NoCookie
  BY <1>2, Values DEF Call
<1> HIDE DEF gone
<1>4. /\ new \in Call /\ new.by = NoCookie
      /\ at # "refused" => /\ new.op = old.op /\ new.at = at
                           /\ new.who = old.who /\ new.vault = old.vault
      /\ at = "refused" => IF x = "out" THEN new.op = "logout" ELSE new = NoCall
  <2>1. CASE at = "refused"
    BY <1>3, <2>1, Values
  <2>2. CASE at # "refused"
    BY <1>1, <2>2 DEF Call
  <2>3. QED
    BY <2>1, <2>2
<1>5. call' = [call EXCEPT ![w][x] = new]
  BY DEF Reply, BrowserTypeOK, gone
<1> HIDE DEF new
<1>6. QED
  BY <1>4, <1>5, SlotStep

-----------------------------------------------------------------------------
(* A step of one window *)

LEMMA WindowStep ==
    ASSUME Inv, NEW w \in Windows, BrowserTypeOK', SavesFindTheirVault',
           Kept(session, session'), Issued(cookie', session'), beside \subseteq beside',
           \A v \in Windows : v # w => call'[v] = call[v] /\ win'[v] = win[v],
           \/ cookie' = cookie
           \/ \A v \in Windows, k \in People : v # w /\ Holds(call[v], win[v], session', k) =>
                  Known(cookie', k, session', beside'),
           WindowSound(call'[w], win'[w], cookie', session', beside')
    PROVE  Inv'
<1>1. ASSUME NEW v \in Windows, v # w
      PROVE  WindowSound(call'[v], win'[v], cookie', session', beside')
  <2>1. WindowSound(call[v], win[v], cookie, session, beside) /\ Issued(cookie, session)
    BY DEF Inv
  <2>2. /\ \A x \in Slots : call[v][x].by \in Sessions \cup {NoCookie}
        /\ cookie \in Sessions \cup {NoCookie}
        /\ win[v].vault.key \in People \cup {NoOne}
    BY DEF Inv, BrowserTypeOK, Call, Vault
  <2>3. WindowSound(call[v], win[v], cookie, session', beside')
    BY <2>1, <2>2, Keeping
  <2>4. CASE cookie' = cookie
    BY <1>1, <2>3, <2>4
  <2>5. CASE \A k \in People : Holds(call[v], win[v], session', k) =>
                  Known(cookie', k, session', beside')
    <3>1. WindowSound(call[v], win[v], cookie', session', beside')
      BY <2>2, <2>3, <2>5, NewJar
    <3>2. QED
      BY <1>1, <3>1
  <2>6. QED
    BY <1>1, <2>4, <2>5
<1>2. \A v \in Windows : WindowSound(call[v], win[v], cookie, session, beside)'
  BY <1>1
<1>3. QED
  BY <1>2 DEF Inv

\* Neither sessions nor vaults nor the jar change.
LEMMA QuietStep ==
    ASSUME Inv, NEW w \in Windows, UNCHANGED <<session, stored, cookie, beside>>,
           win' \in [Windows -> WindowType], call' \in [Windows -> [Slots -> Call]],
           faults' \in 0 .. MaxFaults,
           \A v \in Windows : v # w => call'[v] = call[v] /\ win'[v] = win[v],
           WindowSound(call'[w], win'[w], cookie, session, beside)
    PROVE  Inv'
<1>1. BrowserTypeOK' /\ SavesFindTheirVault' /\ Kept(session, session')
      /\ Issued(cookie', session') /\ beside \subseteq beside'
  BY DEF Inv, BrowserTypeOK, WindowType, SavesFindTheirVault, Kept
<1>2. QED
  BY <1>1, WindowStep

LEMMA RequestType ==
    ASSUME BrowserTypeOK, NEW p \in People \cup {NoOne}, NEW vault \in Vault,
           NEW op \in {"login", "passkey", "challenge", "open", "save", "reload", "logout",
                       "delete"}
    PROVE  /\ Request(op, p, vault) \in Call /\ Request(op, p, vault).op = op
           /\ Request(op, p, vault).at = "sent" /\ Request(op, p, vault).who = p
           /\ Request(op, p, vault).by = cookie /\ Request(op, p, vault).vault = vault
BY DEF Request, Call, BrowserTypeOK

-----------------------------------------------------------------------------
(* Signing in and unlocking *)

\* An unlock that can succeed is sent with the session of its person.
LEMMA SubmitStep ==
    ASSUME Inv, NEW w \in Windows, NEW p \in People,
           NEW op \in {"login", "passkey", "challenge", "open"}, Submit(w, op, p),
           win[w].vault.key = NoOne
    PROVE  Inv'
<1> DEFINE c == Request(op, p, NoVault)
<1>1. /\ c \in Call /\ c.op = op /\ c.at = "sent" /\ c.who = p /\ c.by = cookie
  BY RequestType, Values DEF Inv
<1> HIDE DEF c
<1>2. /\ call' = [call EXCEPT ![w]["form"] = c]
      /\ UNCHANGED <<session, stored, cookie, win, beside, faults>>
  BY DEF Submit, c
<1>3. /\ call' \in [Windows -> [Slots -> Call]] /\ call'[w]["form"] = c
      /\ \A y \in Slots : y # "form" => call'[w][y] = call[w][y]
      /\ \A v \in Windows : v # w => call'[v] = call[v]
  BY <1>1, <1>2, SlotStep, SlotNames DEF Inv
<1>4. WindowSound(call'[w], win'[w], cookie, session, beside)
  <2>1. WindowSound(call[w], win[w], cookie, session, beside) /\ Issued(cookie, session)
    BY DEF Inv
  <2>2. FormSound(c, cookie, session, beside)
    BY <1>1 DEF FormSound, Known
  <2>3. op \in Ops("form")
    BY DEF Ops, FormOps
  <2>4. QED
    BY <1>1, <1>2, <1>3, <2>1, <2>2, <2>3, SlotNames DEF WindowSound, OpenSound
<1>5. faults' \in 0 .. MaxFaults /\ win' \in [Windows -> WindowType]
  BY <1>2 DEF Inv, BrowserTypeOK, WindowType
<1>6. QED
  BY <1>2, <1>3, <1>4, <1>5, QuietStep

LEMMA SubmitsStep ==
    ASSUME Inv, NEW w \in Windows, NEW p \in People,
           SubmitLogin(w, p) \/ SubmitCode(w, p) \/ SubmitMaster(w, p)
    PROVE  Inv'
<1>1. win[w].vault.key # NoOne => win[w].page = "vault"
  BY DEF Inv, WindowSound, OpenSound
<1>2. CASE SubmitLogin(w, p)
  BY <1>1, <1>2, SubmitStep DEF SubmitLogin
<1>3. CASE SubmitCode(w, p)
  BY <1>1, <1>3, SubmitStep DEF SubmitCode
<1>4. CASE SubmitMaster(w, p)
  BY <1>4, SubmitStep DEF SubmitMaster
<1>5. QED
  BY <1>2, <1>3, <1>4

\* Another page, while the vault is closed.
LEMMA TurnStep ==
    ASSUME Inv, NEW w \in Windows,
           UseDifferentAccount(w) \/ \E page \in {"login", "unlock"} : Follow(w, page)
    PROVE  Inv'
<1>1. PICK page \in {"login", "unlock"} : win' = [win EXCEPT ![w].page = page]
  BY DEF UseDifferentAccount, Follow
<1>2. UNCHANGED <<session, stored, cookie, call, beside, faults>>
  BY DEF UseDifferentAccount, Follow
<1>3. win[w].vault.key = NoOne
  BY DEF UseDifferentAccount, Follow, Inv, WindowSound, OpenSound
<1>4. /\ win' \in [Windows -> WindowType] /\ win'[w].vault = win[w].vault
      /\ \A v \in Windows : v # w => win'[v] = win[v]
  BY <1>1 DEF Inv, BrowserTypeOK, WindowType, Pages
<1>5. WindowSound(call'[w], win'[w], cookie, session, beside)
  BY <1>2, <1>3, <1>4 DEF Inv, WindowSound, OpenSound
<1>6. call' \in [Windows -> [Slots -> Call]] /\ faults' \in 0 .. MaxFaults
  BY <1>2 DEF Inv, BrowserTypeOK
<1>7. QED
  BY <1>2, <1>4, <1>5, <1>6, QuietStep

\* A form has ended.
LEMMA FormDone ==
    ASSUME Inv, NEW w \in Windows, Done(w, "form")
    PROVE  /\ call' \in [Windows -> [Slots -> Call]] /\ call'[w]["form"] = NoCall
           /\ \A y \in Slots : y # "form" => call'[w][y] = call[w][y]
           /\ \A v \in Windows : v # w => call'[v] = call[v]
<1>1. call' = [call EXCEPT ![w]["form"] = NoCall]
  BY DEF Done
<1>2. QED
  BY <1>1, SlotStep, SlotNames, Values DEF Inv

\* The form of a window becomes free, and its vault is closed, or open and known.
LEMMA FormFreed ==
    ASSUME NEW cs, NEW cs2, NEW v, NEW v2, NEW ck, NEW r, NEW b,
           WindowSound(cs, v, ck, r, b), cs2["form"] = NoCall,
           \A y \in Slots : y # "form" => cs2[y] = cs[y],
           v2.vault.key # NoOne => v2.page = "vault" /\ Known(ck, v2.vault.key, r, b)
    PROVE  WindowSound(cs2, v2, ck, r, b)
<1>1. SaveSound(cs2["save"], ck, r, b)
  BY SlotNames DEF WindowSound
<1>2. \A x \in Slots : cs2[x].op \in Ops(x) /\ Issued(cs2[x].by, r)
  BY FreeSound, SlotNames DEF WindowSound
<1>3. FormSound(cs2["form"], ck, r, b) /\ OpenSound(cs2["form"], v2, ck, r, b)
  BY FreeSound, Values DEF OpenSound
<1>4. QED
  BY <1>1, <1>2, <1>3 DEF WindowSound

\* The history names everybody whose vault is held when a sign-in is answered.
LEMMA SignedInStep == ASSUME Inv, NEW w \in Windows, SignedIn(w) PROVE Inv'
<1> DEFINE c == call[w]["form"]
           held == UNION {Holding(v) : v \in Windows}
<1>1. /\ c.op \in {"login", "passkey", "challenge"} /\ c.at = "ok"
      /\ cookie' = IF c.op = "challenge" THEN cookie ELSE c.by
      /\ beside' = IF c.op = "challenge" THEN beside
                   ELSE beside \cup {<<c.who, k>> : k \in held \ {c.who}}
      /\ UNCHANGED <<session, stored, faults>> /\ Done(w, "form")
  BY DEF SignedIn
<1>2. WindowSound(call[w], win[w], cookie, session, beside) /\ Issued(cookie, session)
  BY DEF Inv
<1>3. /\ win[w].vault.key = NoOne
      /\ c.op # "challenge" => /\ c.who \in People /\ c.by # NoCookie
                              /\ session[c.by].of = c.who
      /\ Issued(c.by, session)
  BY <1>1, <1>2, SlotNames DEF WindowSound, FormSound, OpenSound
<1>4. PICK page \in {"code", "unlock"} : win' = [win EXCEPT ![w].page = page]
  BY DEF SignedIn
<1>5. /\ win' \in [Windows -> WindowType] /\ win'[w].vault = win[w].vault
      /\ \A v \in Windows : v # w => win'[v] = win[v]
  BY <1>4 DEF Inv, BrowserTypeOK, WindowType, Pages
<1>6. /\ call' \in [Windows -> [Slots -> Call]] /\ call'[w]["form"] = NoCall
      /\ \A y \in Slots : y # "form" => call'[w][y] = call[w][y]
      /\ \A v \in Windows : v # w => call'[v] = call[v]
  BY <1>1, FormDone
<1>7. cookie' \in Sessions \cup {NoCookie} /\ Issued(cookie', session)
  BY <1>1, <1>2, <1>3, SlotNames DEF Inv, BrowserTypeOK, Call
<1>8. beside \subseteq beside' /\ beside' \subseteq People \X People
  <2>1. held \subseteq People
    BY DEF Holding
  <2>2. beside \subseteq People \X People
    BY DEF Inv, BrowserTypeOK
  <2> HIDE DEF held
  <2>3. QED
    BY <1>1, <1>3, <2>1, <2>2
<1>9. \/ cookie' = cookie
      \/ \A v \in Windows, k \in People : Holds(call[v], win[v], session, k) =>
             Known(cookie', k, session, beside')
  <2>1. CASE c.op = "challenge"
    BY <1>1, <2>1
  <2>2. CASE c.op # "challenge"
    <3>1. ASSUME NEW v \in Windows, NEW k \in People, Holds(call[v], win[v], session, k)
          PROVE  Known(cookie', k, session, beside')
      <4>1. k \in Holding(v)
        BY <3>1 DEF Holds, Holding, Opening
      <4>2. k \in held
        BY <4>1
      <4> HIDE DEF held
      <4>3. k = c.who \/ <<c.who, k>> \in beside'
        BY <1>1, <2>2, <4>2
      <4>4. QED
        BY <1>1, <1>3, <2>2, <4>3 DEF Known
    <3>2. QED
      BY <3>1
  <2>3. QED
    BY <2>1, <2>2
<1>10. WindowSound(call'[w], win'[w], cookie', session, beside')
  <2>1. /\ \A x \in Slots : call[w][x].by \in Sessions \cup {NoCookie}
        /\ cookie \in Sessions \cup {NoCookie} /\ Kept(session, session)
        /\ win[w].vault.key \in People \cup {NoOne}
    BY DEF Inv, BrowserTypeOK, Call, Vault, Kept
  <2>2. WindowSound(call[w], win[w], cookie, session, beside')
    BY <1>2, <1>8, <2>1, Keeping
  <2>3. WindowSound(call[w], win[w], cookie', session, beside')
    BY <1>9, <2>1, <2>2, NewJar
  <2>4. QED
    BY <1>3, <1>5, <1>6, <2>3, FormFreed
<1>11. /\ BrowserTypeOK' /\ SavesFindTheirVault' /\ Kept(session, session')
       /\ Issued(cookie', session')
  BY <1>1, <1>5, <1>6, <1>7, <1>8 DEF Inv, BrowserTypeOK, WindowType, SavesFindTheirVault, Kept
<1>12. QED
  BY <1>1, <1>5, <1>6, <1>8, <1>9, <1>10, <1>11, WindowStep

LEMMA OpenedStep == ASSUME Inv, NEW w \in Windows, Opened(w) PROVE Inv'
<1> DEFINE c == call[w]["form"]
<1>1. /\ c.op = "open" /\ c.at = "ok" /\ Done(w, "form")
      /\ win' = [win EXCEPT ![w].page = "vault", ![w].vault = c.vault]
      /\ UNCHANGED <<session, stored, cookie, beside, faults>>
  BY DEF Opened, Answered
<1>2. WindowSound(call[w], win[w], cookie, session, beside) /\ c.vault \in Vault
  BY SlotNames DEF Inv, BrowserTypeOK, Call
<1>3. Known(cookie, c.vault.key, session, beside)
  BY <1>1, <1>2 DEF WindowSound, FormSound
<1>4. /\ win' \in [Windows -> WindowType]
      /\ win'[w].vault = c.vault /\ win'[w].page = "vault"
      /\ \A v \in Windows : v # w => win'[v] = win[v]
  BY <1>1, <1>2 DEF Inv, BrowserTypeOK, WindowType, Pages
<1>5. /\ call' \in [Windows -> [Slots -> Call]] /\ call'[w]["form"] = NoCall
      /\ \A y \in Slots : y # "form" => call'[w][y] = call[w][y]
      /\ \A v \in Windows : v # w => call'[v] = call[v]
  BY <1>1, FormDone
<1>6. WindowSound(call'[w], win'[w], cookie, session, beside)
  BY <1>2, <1>3, <1>4, <1>5, FormFreed
<1>7. faults' \in 0 .. MaxFaults
  BY <1>1 DEF Inv, BrowserTypeOK
<1>8. QED
  BY <1>1, <1>4, <1>5, <1>6, <1>7, QuietStep

-----------------------------------------------------------------------------
(* Uploads *)

\* Slot "save" goes on with c, and the store keeps its key.
LEMMA SaveSlotStep ==
    ASSUME Inv, NEW w \in Windows, NEW c \in Call, call' = [call EXCEPT ![w]["save"] = c],
           c.op \in Ops("save"), Issued(c.by, session), SaveSound(c, cookie, session, beside),
           win' \in [Windows -> WindowType], win'[w].page = win[w].page,
           win'[w].vault.key = win[w].vault.key,
           \A v \in Windows : v # w => win'[v] = win[v],
           UNCHANGED <<session, stored, cookie, beside, faults>>
    PROVE  Inv'
<1>1. /\ call' \in [Windows -> [Slots -> Call]] /\ call'[w]["save"] = c
      /\ \A y \in Slots : y # "save" => call'[w][y] = call[w][y]
      /\ \A v \in Windows : v # w => call'[v] = call[v]
  BY SlotStep, SlotNames DEF Inv
<1>2. WindowSound(call[w], win[w], cookie, session, beside)
  BY DEF Inv
<1>3. WindowSound(call'[w], win'[w], cookie, session, beside)
  <2>1. call'[w]["form"] = call[w]["form"]
    BY <1>1, SlotNames
  <2>2. OpenSound(call'[w]["form"], win'[w], cookie, session, beside)
    BY <1>2, <2>1 DEF WindowSound, OpenSound
  <2>3. QED
    BY <1>1, <1>2, <2>1, <2>2, SlotNames DEF WindowSound
<1>4. faults' \in 0 .. MaxFaults
  BY DEF Inv, BrowserTypeOK
<1>5. QED
  BY <1>1, <1>3, <1>4, QuietStep

\* The timer: the key of an open vault is known to the jar of that moment.
LEMMA SaveStep == ASSUME Inv, NEW w \in Windows, Save(w) PROVE Inv'
<1> DEFINE v == win[w].vault
           u == [v EXCEPT !.version = @ + 1]
           c == [NoCall EXCEPT !.op = "save", !.at = "encrypting", !.vault = u]
<1>1. /\ v.key # NoOne /\ v.version < MaxVersion /\ v \in Vault
      /\ call' = [call EXCEPT ![w]["save"] = c]
      /\ UNCHANGED <<session, stored, cookie, win, beside, faults>>
  BY DEF Save, Inv, BrowserTypeOK
<1>2. u \in Vault /\ u.key = v.key /\ v.key \in People
  BY <1>1, BoundsAssumption DEF Vault
<1> HIDE DEF u, v
<1>3. c \in [op : {"save"}, at : {"encrypting"}, by : {NoCookie}, who : {NoOne}, vault : {u}]
  BY DEF NoCall
<1>4. c \in Call /\ c.op = "save" /\ c.at = "encrypting" /\ c.by = NoCookie /\ c.vault = u
  BY <1>2, <1>3 DEF Call
<1> HIDE DEF c
<1>5. Known(cookie, v.key, session, beside)
  BY <1>1 DEF Inv, WindowSound, OpenSound, v
<1>6. /\ "save" \in Ops("save") /\ SaveSound(c, cookie, session, beside)
      /\ Issued(c.by, session)
  BY <1>2, <1>4, <1>5 DEF Ops, SaveSound, Issued
<1>7. win \in [Windows -> WindowType]
  BY DEF Inv, BrowserTypeOK, WindowType
<1>8. QED
  BY <1>1, <1>4, <1>6, <1>7, SaveSlotStep

\* The PUT takes the cookie of its moment, which still knows the key.
LEMMA SendSaveStep == ASSUME Inv, NEW w \in Windows, SendSave(w) PROVE Inv'
<1> DEFINE d == call[w]["save"]
           c == [d EXCEPT !.at = "sent", !.by = cookie]
<1>1. /\ d \in Call /\ win \in [Windows -> WindowType] /\ d.at = "encrypting"
      /\ SaveSound(d, cookie, session, beside) /\ Issued(cookie, session)
      /\ cookie \in Sessions \cup {NoCookie}
      /\ UNCHANGED <<session, stored, cookie, win, beside, faults>>
  BY SlotNames DEF SendSave, Inv, BrowserTypeOK, WindowType, WindowSound
<1>2. /\ c \in Call /\ c.op = d.op /\ c.at = "sent" /\ c.by = cookie /\ c.vault = d.vault
  BY <1>1 DEF Call
<1>3. call' = [call EXCEPT ![w]["save"] = c]
  BY SlotNames DEF SendSave, Inv, BrowserTypeOK
<1> HIDE DEF c
<1>4. c.op \in Ops("save") /\ SaveSound(c, cookie, session, beside)
  BY <1>1, <1>2 DEF SaveSound, Ops
<1>5. QED
  BY <1>1, <1>2, <1>3, <1>4, SaveSlotStep

\* A version goes to the store, whoever has it open by then.
LEMMA VersionStep == ASSUME Inv, NEW w \in Windows, Saved(w) \/ Adopted(w) PROVE Inv'
<1> DEFINE d == call[w]["save"]
<1>1. d \in Call /\ d.vault.version \in 0 .. MaxVersion /\ win \in [Windows -> WindowType]
  BY SlotNames DEF Inv, BrowserTypeOK, Call, Vault, WindowType
<1>2. /\ win' = [win EXCEPT ![w].vault.version = d.vault.version]
      /\ call' = [call EXCEPT ![w]["save"] = NoCall]
      /\ UNCHANGED <<session, stored, cookie, beside, faults>>
  BY DEF Saved, Adopted, Done
<1>3. /\ win' \in [Windows -> WindowType] /\ win'[w].page = win[w].page
      /\ win'[w].vault.key = win[w].vault.key
      /\ \A v \in Windows : v # w => win'[v] = win[v]
  BY <1>1, <1>2 DEF WindowType, Vault
<1>4. QED
  BY <1>2, <1>3, FreeSound, SlotNames, Values, SaveSlotStep

\* After a conflict.
LEMMA ReloadSteps == ASSUME Inv, NEW w \in Windows, FetchNewer(w) \/ Decrypt(w) PROVE Inv'
<1> DEFINE d == call[w]["save"]
<1>1. /\ d \in Call /\ win \in [Windows -> WindowType] /\ Issued(cookie, session)
      /\ WindowSound(call[w], win[w], cookie, session, beside)
      /\ UNCHANGED <<session, stored, cookie, win, beside, faults>>
  BY SlotNames DEF FetchNewer, Decrypt, Inv, BrowserTypeOK, WindowType
<1>2. CASE FetchNewer(w)
  <2> DEFINE c == Request("reload", NoOne, NoVault)
  <2>1. c \in Call /\ c.op = "reload" /\ c.at = "sent" /\ c.by = cookie
    BY RequestType, Values DEF Inv
  <2>2. call' = [call EXCEPT ![w]["save"] = c]
    BY <1>2 DEF FetchNewer
  <2> HIDE DEF c
  <2>3. c.op \in Ops("save") /\ SaveSound(c, cookie, session, beside)
    BY <2>1 DEF Ops, SaveSound
  <2>4. QED
    BY <1>1, <2>1, <2>2, <2>3, SaveSlotStep
<1>3. CASE Decrypt(w) /\ call' = [call EXCEPT ![w]["save"] = NoCall]
  BY <1>1, <1>3, FreeSound, SlotNames, Values, SaveSlotStep
<1>4. CASE Decrypt(w) /\ call' = [call EXCEPT ![w].save.at = "adopting"]
  <2> DEFINE c == [d EXCEPT !.at = "adopting"]
  <2>1. c \in Call /\ c.op = "reload" /\ c.at = "adopting" /\ c.by = d.by
    BY <1>1, <1>4 DEF Call, Decrypt
  <2>2. call' = [call EXCEPT ![w]["save"] = c]
    BY <1>4, SlotNames DEF Inv, BrowserTypeOK
  <2> HIDE DEF c
  <2>3. c.op \in Ops("save") /\ SaveSound(c, cookie, session, beside) /\ Issued(c.by, session)
    BY <1>1, <2>1, SlotNames DEF Ops, SaveSound, WindowSound
  <2>4. QED
    BY <1>1, <2>1, <2>2, <2>3, SaveSlotStep
<1>5. QED
  BY <1>2, <1>3, <1>4 DEF Decrypt, Done

-----------------------------------------------------------------------------
(* Locking, signing out, deleting the account *)

\* An empty jar, or the same, and a closed vault.
LEMMA ClosedSound ==
    ASSUME NEW cs, NEW v, NEW v2, NEW ck, NEW ck2, NEW r, NEW b, WindowSound(cs, v, ck, r, b),
           ck2 = ck \/ ck2 = NoCookie, v.vault.key \in People \cup {NoOne}, v2.vault.key = NoOne
    PROVE  WindowSound(cs, v2, ck2, r, b)
<1>1. WindowSound(cs, v, ck2, r, b)
  BY NewJar DEF Known
<1>2. QED
  BY <1>1 DEF WindowSound, OpenSound

LEMMA LockStep == ASSUME Inv, NEW w \in Windows, Lock(w) PROVE Inv'
<1>1. /\ win' = [win EXCEPT ![w].vault = NoVault]
      /\ UNCHANGED <<session, stored, cookie, call, beside, faults>>
  BY DEF Lock
<1>2. /\ win' \in [Windows -> WindowType] /\ win'[w].vault = NoVault
      /\ \A v \in Windows : v # w => win'[v] = win[v]
  BY <1>1, Values DEF Inv, BrowserTypeOK, WindowType
<1>3. WindowSound(call'[w], win'[w], cookie, session, beside)
  <2>1. WindowSound(call[w], win[w], cookie, session, beside)
        /\ win[w].vault.key \in People \cup {NoOne}
    BY DEF Inv, BrowserTypeOK, Vault
  <2>2. QED
    BY <1>1, <1>2, <2>1, ClosedSound, Values
<1>4. call' \in [Windows -> [Slots -> Call]] /\ faults' \in 0 .. MaxFaults
  BY <1>1 DEF Inv, BrowserTypeOK
<1>5. QED
  BY <1>1, <1>2, <1>3, <1>4, QuietStep

LEMMA SignOutStep == ASSUME Inv, NEW w \in Windows, SignOut(w) PROVE Inv'
<1> DEFINE c == Request("logout", NoOne, NoVault)
<1>1. c \in Call /\ c.op = "logout" /\ c.by = cookie
  BY RequestType, Values DEF Inv
<1> HIDE DEF c
<1>2. /\ call' = [call EXCEPT ![w]["out"] = c]
      /\ UNCHANGED <<session, stored, cookie, win, beside, faults>>
  BY DEF SignOut, c
<1>3. /\ call' \in [Windows -> [Slots -> Call]] /\ call'[w]["out"] = c
      /\ \A y \in Slots : y # "out" => call'[w][y] = call[w][y]
      /\ \A v \in Windows : v # w => call'[v] = call[v]
  BY <1>1, <1>2, SlotStep, SlotNames DEF Inv
<1>4. WindowSound(call'[w], win'[w], cookie, session, beside)
  <2>1. WindowSound(call[w], win[w], cookie, session, beside) /\ Issued(cookie, session)
    BY DEF Inv
  <2>2. c.op \in Ops("out")
    BY <1>1 DEF Ops
  <2>3. QED
    BY <1>1, <1>2, <1>3, <2>1, <2>2, SlotNames DEF WindowSound
<1>5. win' \in [Windows -> WindowType] /\ faults' \in 0 .. MaxFaults
  BY <1>2 DEF Inv, BrowserTypeOK, WindowType
<1>6. QED
  BY <1>2, <1>3, <1>4, <1>5, QuietStep

\* The jar is emptied, or stays, and the vault of window w is closed.
LEMMA LeaveStep ==
    ASSUME Inv, NEW w \in Windows, NEW v2 \in WindowType, v2.vault = NoVault,
           win' = [win EXCEPT ![w] = v2], NEW x \in Slots, x # "save",
           call' = [call EXCEPT ![w][x] = NoCall], cookie' \in {cookie, NoCookie},
           UNCHANGED <<session, stored, beside, faults>>
    PROVE  Inv'
<1>1. /\ win' \in [Windows -> WindowType] /\ win'[w] = v2
      /\ \A v \in Windows : v # w => win'[v] = win[v]
  BY DEF Inv, BrowserTypeOK, WindowType
<1>2. /\ call' \in [Windows -> [Slots -> Call]] /\ call'[w][x] = NoCall
      /\ \A y \in Slots : y # x => call'[w][y] = call[w][y]
      /\ \A v \in Windows : v # w => call'[v] = call[v]
  BY SlotStep, Values DEF Inv
<1>3. WindowSound(call'[w], win'[w], cookie', session, beside)
  <2>1. WindowSound(call[w], win[w], cookie, session, beside)
        /\ win[w].vault.key \in People \cup {NoOne}
    BY DEF Inv, BrowserTypeOK, Vault
  <2>2. WindowSound(call[w], v2, cookie', session, beside)
    BY <2>1, ClosedSound, Values
  <2>3. CASE x = "form"
    BY <1>1, <1>2, <2>2, <2>3, FormFreed, Values
  <2>4. CASE x = "out"
    <3>1. call'[w]["form"] = call[w]["form"] /\ call'[w]["save"] = call[w]["save"]
      BY <1>2, <2>4, SlotNames
    <3>2. \A y \in Slots : call'[w][y].op \in Ops(y) /\ Issued(call'[w][y].by, session)
      BY <1>2, <2>2, FreeSound DEF WindowSound
    <3>3. QED
      BY <1>1, <2>2, <3>1, <3>2 DEF WindowSound
  <2>5. QED
    BY <2>3, <2>4, SlotNames
<1>4. \A v \in Windows, k \in People : cookie' = cookie \/ Known(cookie', k, session, beside)
  BY DEF Known
<1>5. /\ BrowserTypeOK' /\ SavesFindTheirVault' /\ Kept(session, session')
      /\ Issued(cookie', session') /\ beside \subseteq beside'
  BY <1>1, <1>2 DEF Inv, BrowserTypeOK, WindowType, SavesFindTheirVault, Kept, Issued
<1>6. QED
  BY <1>1, <1>2, <1>3, <1>4, <1>5, WindowStep

LEMMA SignedOutStep == ASSUME Inv, NEW w \in Windows, SignedOut(w) PROVE Inv'
<1> DEFINE v2 == [page |-> "login", vault |-> NoVault]
<1>1. /\ cookie' \in {cookie, NoCookie} /\ win' = [win EXCEPT ![w] = v2]
      /\ call' = [call EXCEPT ![w]["out"] = NoCall]
      /\ UNCHANGED <<session, stored, beside, faults>>
  BY DEF SignedOut, Done
<1>2. v2 \in WindowType /\ v2.vault = NoVault
  BY Values DEF WindowType, Pages
<1> HIDE DEF v2
<1>3. QED
  BY <1>1, <1>2, LeaveStep, SlotNames

LEMMA DeletedStep == ASSUME Inv, NEW w \in Windows, Deleted(w) PROVE Inv'
<1> DEFINE v2 == [page |-> "home", vault |-> NoVault]
<1>1. /\ cookie' \in {cookie, NoCookie} /\ win' = [win EXCEPT ![w] = v2]
      /\ call' = [call EXCEPT ![w]["form"] = NoCall]
      /\ UNCHANGED <<session, stored, beside, faults>>
  BY DEF Deleted, Done
<1>2. v2 \in WindowType /\ v2.vault = NoVault
  BY Values DEF WindowType, Pages
<1> HIDE DEF v2
<1>3. QED
  BY <1>1, <1>2, LeaveStep, SlotNames

LEMMA FaultType == ASSUME Inv, Fault PROVE faults' \in 0 .. MaxFaults
<1>1. faults \in 0 .. MaxFaults /\ faults > 0 /\ faults' = faults - 1
  BY DEF Inv, BrowserTypeOK, Fault
<1>2. QED
  BY <1>1, BoundsAssumption

LEMMA DeleteAccountStep == ASSUME Inv, NEW w \in Windows, DeleteAccount(w) PROVE Inv'
<1> DEFINE c == Request("delete", NoOne, NoVault)
<1>1. c \in Call /\ c.op = "delete" /\ c.by = cookie /\ c.at = "sent"
  BY RequestType, Values DEF Inv
<1> HIDE DEF c
<1>2. /\ call' = [call EXCEPT ![w]["form"] = c]
      /\ UNCHANGED <<session, stored, cookie, win, beside>> /\ faults' \in 0 .. MaxFaults
  BY FaultType DEF DeleteAccount, c
<1>3. /\ call' \in [Windows -> [Slots -> Call]] /\ call'[w]["form"] = c
      /\ \A y \in Slots : y # "form" => call'[w][y] = call[w][y]
      /\ \A v \in Windows : v # w => call'[v] = call[v]
  BY <1>1, <1>2, SlotStep, SlotNames DEF Inv
<1>4. WindowSound(call'[w], win'[w], cookie, session, beside)
  <2>1. WindowSound(call[w], win[w], cookie, session, beside) /\ Issued(cookie, session)
    BY DEF Inv
  <2>2. c.op \in Ops("form") /\ FormSound(c, cookie, session, beside)
    BY <1>1 DEF Ops, FormOps, FormSound
  <2>3. OpenSound(c, win[w], cookie, session, beside)
    BY <1>1, <2>1 DEF WindowSound, OpenSound
  <2>4. QED
    BY <1>1, <1>2, <1>3, <2>1, <2>2, <2>3, SlotNames DEF WindowSound
<1>5. win' \in [Windows -> WindowType]
  BY <1>2 DEF Inv, BrowserTypeOK, WindowType
<1>6. QED
  BY <1>2, <1>3, <1>4, <1>5, QuietStep

\* A window whose store is closed and that has nothing under way.
LEMMA EmptySound ==
    ASSUME NEW cs, NEW v, NEW ck, NEW r, NEW b, \A x \in Slots : cs[x] = NoCall,
           v.vault.key = NoOne
    PROVE  WindowSound(cs, v, ck, r, b)
BY FreeSound, SlotNames DEF WindowSound, OpenSound

LEMMA ReloadStep == ASSUME Inv, NEW w \in Windows, Reload(w) PROVE Inv'
<1>1. PICK page \in Pages : win' = [win EXCEPT ![w] = [page |-> page, vault |-> NoVault]]
  <2>1. win[w].page \in Pages /\ "login" \in Pages
    BY DEF Inv, BrowserTypeOK, Pages
  <2>2. QED
    BY <2>1 DEF Reload
<1> DEFINE v2 == [page |-> page, vault |-> NoVault]
           cs == [x \in Slots |-> NoCall]
<1>2. /\ win' = [win EXCEPT ![w] = v2] /\ call' = [call EXCEPT ![w] = cs]
      /\ UNCHANGED <<session, stored, cookie, beside>> /\ faults' \in 0 .. MaxFaults
  BY <1>1, FaultType DEF Reload
<1>3. v2 \in WindowType /\ v2.vault = NoVault
  BY Values DEF WindowType
<1>4. cs \in [Slots -> Call] /\ \A x \in Slots : cs[x] = NoCall
  BY Values
<1> HIDE DEF v2, cs
<1>5. /\ win' \in [Windows -> WindowType] /\ win'[w] = v2
      /\ call' \in [Windows -> [Slots -> Call]] /\ call'[w] = cs
      /\ \A v \in Windows : v # w => win'[v] = win[v] /\ call'[v] = call[v]
  BY <1>2, <1>3, <1>4 DEF Inv, BrowserTypeOK, WindowType
<1>6. WindowSound(call'[w], win'[w], cookie, session, beside)
  BY <1>3, <1>4, <1>5, EmptySound, Values
<1>7. QED
  BY <1>2, <1>5, <1>6, QuietStep

-----------------------------------------------------------------------------
(* The API, and what gets lost *)

\* An answer that names no session and no vault, while the sessions of others
\* are kept.
LEMMA AnswerStep ==
    ASSUME Inv, NEW w \in Windows, NEW x \in Slots, NEW at \in {"ok", "conflict", "refused"},
           Reply(w, x, at), at # "refused" => call[w][x].op \notin {"login", "passkey", "open"},
           session' \in [Sessions -> Row], Kept(session, session'),
           stored' \in [People -> Vault], SavesFindTheirVault',
           faults' \in 0 .. MaxFaults, UNCHANGED <<cookie, win, beside>>
    PROVE  Inv'
<1> DEFINE c == call[w][x]
           d == call'[w][x]
<1>1. /\ call' \in [Windows -> [Slots -> Call]] /\ d.by = NoCookie
      /\ at # "refused" => d.op = c.op /\ d.at = at /\ d.who = c.who /\ d.vault = c.vault
      /\ at = "refused" => IF x = "out" THEN d.op = "logout" ELSE d = NoCall
      /\ \A y \in Slots : y # x => call'[w][y] = call[w][y]
      /\ \A v \in Windows : v # w => call'[v] = call[v]
  BY ReplyStep DEF Inv
<1>2. BrowserTypeOK'
  BY <1>1 DEF Inv, BrowserTypeOK
<1>3. WindowSound(call[w], win[w], cookie, session', beside) /\ Issued(cookie, session')
  <2>1. WindowSound(call[w], win[w], cookie, session, beside) /\ Issued(cookie, session)
    BY DEF Inv
  <2>2. /\ \A y \in Slots : call[w][y].by \in Sessions \cup {NoCookie}
        /\ cookie \in Sessions \cup {NoCookie}
    BY DEF Inv, BrowserTypeOK, Call
  <2>3. beside \subseteq beside
    OBVIOUS
  <2>4. QED
    BY <2>1, <2>2, <2>3, Keeping
<1>4. WindowSound(call'[w], win[w], cookie, session', beside)
  <2>1. \A y \in Slots : call'[w][y].op \in Ops(y) /\ Issued(call'[w][y].by, session')
    <3>1. d.op \in Ops(x) /\ Issued(d.by, session')
      BY <1>1, <1>3, FreeSound, SlotNames DEF WindowSound, Issued, Ops
    <3>2. QED
      BY <1>1, <1>3, <3>1 DEF WindowSound
  <2>2. CASE x = "form"
    <3>1. CASE at = "refused"
      <4>1. win[w].vault.key # NoOne =>
               win[w].page = "vault" /\ Known(cookie, win[w].vault.key, session', beside)
        BY <1>3 DEF WindowSound, OpenSound
      <4>2. call'[w]["form"] = NoCall /\ \A y \in Slots : y # "form" => call'[w][y] = call[w][y]
        BY <1>1, <2>2, <3>1
      <4>3. QED
        BY <1>3, <4>1, <4>2, FormFreed
    <3>2. CASE at # "refused"
      <4>1. FormSound(d, cookie, session', beside)
        BY <1>1, <3>2 DEF FormSound
      <4>2. OpenSound(d, win[w], cookie, session', beside)
        BY <1>1, <1>3, <2>2, <3>2 DEF WindowSound, OpenSound
      <4>3. QED
        BY <1>1, <1>3, <2>1, <2>2, <4>1, <4>2, SlotNames DEF WindowSound
    <3>3. QED
      BY <3>1, <3>2
  <2>3. CASE x = "save"
    <3>1. SaveSound(d, cookie, session', beside)
      <4>1. CASE at = "refused"
        BY <1>1, <2>3, <4>1, FreeSound
      <4>2. CASE at # "refused"
        BY <1>1, <1>3, <2>3, <4>2 DEF WindowSound, SaveSound
      <4>3. QED
        BY <4>1, <4>2
    <3>2. QED
      BY <1>1, <1>3, <2>1, <2>3, <3>1, SlotNames DEF WindowSound
  <2>4. CASE x = "out"
    BY <1>1, <1>3, <2>1, <2>4, SlotNames DEF WindowSound
  <2>5. QED
    BY <2>2, <2>3, <2>4, SlotNames
<1>5. QED
  BY <1>1, <1>2, <1>3, <1>4, WindowStep

LEMMA LoseStep == ASSUME Inv, NEW w \in Windows, NEW x \in Slots, Lose(w, x) PROVE Inv'
<1>1. /\ Reply(w, x, "refused") /\ UNCHANGED <<session, stored, cookie, win, beside>>
      /\ faults' \in 0 .. MaxFaults
  BY FaultType DEF Lose
<1>2. /\ session' \in [Sessions -> Row] /\ stored' \in [People -> Vault]
      /\ Kept(session, session') /\ SavesFindTheirVault'
  BY <1>1 DEF Inv, BrowserTypeOK, Kept, SavesFindTheirVault
<1>3. QED
  BY <1>1, <1>2, AnswerStep

LEMMA OwnerIs ==
    ASSUME BrowserTypeOK, NEW s \in Sessions \cup {NoCookie}, Owner(s) # NoOne
    PROVE  s # NoCookie /\ s \in Sessions /\ session[s].of = Owner(s) /\ Owner(s) \in People
BY DEF Owner, BrowserTypeOK, Row

LEMMA CreateSessionStep ==
    ASSUME Inv, NEW w \in Windows, NEW x \in Slots, call[w][x].at = "sent",
           CreateSession(w, x), UNCHANGED <<cookie, win, beside, faults>>
    PROVE  Inv'
<1> DEFINE c == call[w][x]
<1>1. /\ c.op \in {"login", "passkey"} /\ UNCHANGED stored /\ c \in Call
      /\ WindowSound(call[w], win[w], cookie, session, beside)
      /\ stored' \in [People -> Vault] /\ SavesFindTheirVault'
      /\ faults' \in 0 .. MaxFaults
  BY DEF CreateSession, Inv, BrowserTypeOK, SavesFindTheirVault
<1>2. CASE Reply(w, x, "refused") /\ UNCHANGED session
  <2>1. session' \in [Sessions -> Row] /\ Kept(session, session')
    BY <1>2 DEF Inv, BrowserTypeOK, Kept
  <2>2. QED
    BY <1>1, <1>2, <2>1, AnswerStep
<1>3. ASSUME NEW s \in Sessions, session[s].state = "unused",
             session' = [session EXCEPT ![s] =
                     [of |-> c.who,
                      state |-> IF c.op = "login" /\ c.who \in TwoFactor THEN "half" ELSE "full"]],
             call' = [call EXCEPT ![w][x].at = "ok", ![w][x].by = s]
      PROVE  Inv'
  <2> DEFINE d == [c EXCEPT !.at = "ok", !.by = s]
  <2>1. /\ x = "form" /\ c.who \in People /\ win[w].vault.key = NoOne
    BY <1>1, SlotNames DEF WindowSound, Ops, FormSound, OpenSound
  <2>2. /\ d \in Call /\ d.op = c.op /\ d.at = "ok" /\ d.by = s /\ d.who = c.who
    BY <1>1 DEF Call
  <2>3. call' = [call EXCEPT ![w][x] = d]
    BY <1>3 DEF Inv, BrowserTypeOK
  <2> HIDE DEF d
  <2>4. /\ call' \in [Windows -> [Slots -> Call]] /\ call'[w][x] = d
        /\ \A y \in Slots : y # x => call'[w][y] = call[w][y]
        /\ \A v \in Windows : v # w => call'[v] = call[v]
    BY <2>2, <2>3, SlotStep DEF Inv
  <2>5. /\ session' \in [Sessions -> Row] /\ session'[s].of = c.who
        /\ session'[s].state # "unused" /\ Kept(session, session')
    BY <1>3, <2>1 DEF Inv, BrowserTypeOK, Row, Kept
  <2>6. WindowSound(call[w], win[w], cookie, session', beside) /\ Issued(cookie, session')
    <3>1. /\ \A y \in Slots : call[w][y].by \in Sessions \cup {NoCookie}
          /\ cookie \in Sessions \cup {NoCookie} /\ Issued(cookie, session)
      BY DEF Inv, BrowserTypeOK, Call
    <3>2. QED
      BY <1>1, <2>5, <3>1, Keeping
  <2>7. WindowSound(call'[w], win[w], cookie, session', beside)
    <3>1. FormSound(d, cookie, session', beside)
      BY <1>1, <2>1, <2>2, <2>5, CookieAssumption DEF FormSound
    <3>2. d.op \in Ops("form") /\ Issued(d.by, session')
      BY <1>1, <2>2, <2>5 DEF Ops, FormOps, Issued
    <3>3. OpenSound(d, win[w], cookie, session', beside)
      BY <2>1 DEF OpenSound
    <3>4. QED
      BY <2>1, <2>4, <2>6, <3>1, <3>2, <3>3, SlotNames DEF WindowSound
  <2>8. BrowserTypeOK'
    BY <1>1, <2>4, <2>5 DEF Inv, BrowserTypeOK
  <2>9. QED
    BY <1>1, <2>4, <2>5, <2>6, <2>7, <2>8, WindowStep
<1>4. QED
  BY <1>2, <1>3 DEF CreateSession

LEMMA ChallengeStep ==
    ASSUME Inv, NEW w \in Windows, NEW x \in Slots, Challenge(w, x),
           UNCHANGED <<cookie, win, beside, faults>>
    PROVE  Inv'
<1> DEFINE c == call[w][x]
<1>1. /\ c.op = "challenge" /\ UNCHANGED stored /\ c.by \in Sessions \cup {NoCookie}
      /\ stored' \in [People -> Vault] /\ SavesFindTheirVault'
      /\ faults' \in 0 .. MaxFaults
  BY DEF Challenge, Inv, BrowserTypeOK, SavesFindTheirVault, Call
<1>2. PICK at \in {"ok", "refused"} : Reply(w, x, at)
  BY DEF Challenge
<1>3. session' \in [Sessions -> Row] /\ Kept(session, session')
  <2>1. CASE c.by # NoCookie /\ session[c.by] = [of |-> c.who, state |-> "half"]
    <3>1. session' = [session EXCEPT ![c.by].state = "full"]
      BY <2>1 DEF Challenge
    <3>2. QED
      BY <1>1, <2>1, <3>1 DEF Inv, BrowserTypeOK, Row, Kept
  <2>2. CASE ~ (c.by # NoCookie /\ session[c.by] = [of |-> c.who, state |-> "half"])
    <3>1. session' = session
      BY <2>2 DEF Challenge
    <3>2. QED
      BY <3>1 DEF Inv, BrowserTypeOK, Kept
  <2>3. QED
    BY <2>1, <2>2
<1>4. QED
  BY <1>1, <1>2, <1>3, AnswerStep

LEMMA GetStep ==
    ASSUME Inv, NEW w \in Windows, NEW x \in Slots, call[w][x].at = "sent", Answer(w, x),
           UNCHANGED <<cookie, win, beside, faults>>
    PROVE  Inv'
<1> DEFINE c == call[w][x]
           owner == Owner(c.by)
<1>1. /\ c.op \in {"open", "reload"} /\ UNCHANGED <<session, stored>> /\ c \in Call
      /\ c.by \in Sessions \cup {NoCookie}
      /\ WindowSound(call[w], win[w], cookie, session, beside) /\ Issued(cookie, session)
  BY DEF Answer, Inv, BrowserTypeOK, Call
<1>2. /\ session' \in [Sessions -> Row] /\ stored' \in [People -> Vault]
      /\ Kept(session, session') /\ SavesFindTheirVault' /\ faults' \in 0 .. MaxFaults
  BY <1>1 DEF Inv, BrowserTypeOK, Kept, SavesFindTheirVault
<1>3. CASE Reply(w, x, "refused")
  BY <1>1, <1>2, <1>3, AnswerStep
<1>4. CASE /\ owner # NoOne
           /\ c.op = "open" => owner = c.who /\ stored[owner].key = c.who
           /\ call' = [call EXCEPT ![w][x] =
                           [NoCall EXCEPT !.op = c.op, !.at = "ok", !.who = c.who,
                                  !.vault = stored[owner]]]
  <2> DEFINE d == [NoCall EXCEPT !.op = c.op, !.at = "ok", !.who = c.who,
                                  !.vault = stored[owner]]
  <2>1. /\ c.by \in Sessions /\ session[c.by].of = owner /\ owner \in People
        /\ stored[owner] \in Vault
    BY <1>1, <1>4, OwnerIs DEF Inv, BrowserTypeOK
  <2>2. /\ d.op = c.op /\ d.at = "ok" /\ d.by = NoCookie /\ d.who = c.who
        /\ d.vault = stored[owner]
    BY DEF NoCall
  <2>3. d \in Call
    <3>1. c.op \in {"open", "reload"} /\ stored[owner] \in Vault
      BY <1>1, <2>1
    <3>2. d \in [op : {"open", "reload"}, at : {"ok"}, by : {NoCookie}, who : {c.who}, vault : Vault]
      BY <3>1 DEF NoCall
    <3>3. c.who \in People \cup {NoOne}
      BY <1>1 DEF Call
    <3>4. QED
      BY <3>2, <3>3 DEF Call
  <2> HIDE DEF d
  <2>4. call' = [call EXCEPT ![w][x] = d]
    BY <1>4 DEF d
  <2>5. /\ call' \in [Windows -> [Slots -> Call]] /\ call'[w][x] = d
        /\ \A y \in Slots : y # x => call'[w][y] = call[w][y]
        /\ \A v \in Windows : v # w => call'[v] = call[v]
    BY <2>3, <2>4, SlotStep DEF Inv
  <2>6. WindowSound(call'[w], win'[w], cookie, session, beside)
    <3>1. d.op \in Ops(x) /\ Issued(d.by, session)
      BY <1>1, <2>2 DEF WindowSound, Issued
    <3>2. CASE x = "form"
      <4>1. c.op = "open" /\ win[w].vault.key = NoOne
        BY <1>1, <3>2 DEF WindowSound, Ops, FormOps, OpenSound
      <4>2. c.by # NoCookie /\ c.by \in Sessions /\ session[c.by].of = c.who
        BY <1>1, <1>4, <2>1, <4>1, CookieAssumption
      <4>3. c.who \in People /\ Known(cookie, c.who, session, beside)
        BY <1>1, <3>2, <4>1, <4>2 DEF WindowSound, FormSound
      <4>4. FormSound(d, cookie, session, beside)
        BY <1>4, <2>2, <4>1, <4>3 DEF FormSound
      <4>5. OpenSound(d, win[w], cookie, session, beside)
        BY <4>1 DEF OpenSound
      <4>6. QED
        BY <1>1, <2>5, <3>1, <3>2, <4>4, <4>5, SlotNames DEF WindowSound
    <3>3. CASE x # "form"
      <4>1. SaveSound(d, cookie, session, beside)
        BY <1>1, <2>2 DEF SaveSound
      <4>2. QED
        BY <1>1, <2>5, <3>1, <3>3, <4>1, SlotNames DEF WindowSound
    <3>4. QED
      BY <3>2, <3>3
  <2>7. win' \in [Windows -> WindowType]
    BY DEF Inv, BrowserTypeOK, WindowType
  <2>8. QED
    BY <1>1, <1>2, <2>5, <2>6, <2>7, QuietStep
<1>5. QED
  BY <1>3, <1>4 DEF Answer

LEMMA UploadStep ==
    ASSUME Inv, NEW w \in Windows, NEW x \in Slots, call[w][x].at = "sent", Upload(w, x),
           UNCHANGED <<cookie, win, beside, faults>>
    PROVE  Inv'
<1> DEFINE c == call[w][x]
           owner == Owner(c.by)
<1>1. /\ c.op = "save" /\ UNCHANGED session /\ c.by \in Sessions \cup {NoCookie}
      /\ c.vault \in Vault /\ WindowSound(call[w], win[w], cookie, session, beside)
      /\ session' \in [Sessions -> Row] /\ Kept(session, session')
      /\ faults' \in 0 .. MaxFaults
  BY DEF Upload, Inv, BrowserTypeOK, Call, Kept
<1>2. PICK at \in {"ok", "conflict", "refused"} : Reply(w, x, at)
  BY DEF Upload
<1>3. x = "save"
  BY <1>1, SlotNames DEF WindowSound, Ops, FormOps
<1>4. \/ stored' = stored
      \/ owner # NoOne /\ stored' = [stored EXCEPT ![owner] = c.vault]
  BY DEF Upload
<1>5. owner # NoOne => /\ owner \in People
                       /\ owner = c.vault.key \/ <<owner, c.vault.key>> \in beside
  <2>1. SaveSound(c, cookie, session, beside)
    BY <1>1, <1>3 DEF WindowSound
  <2>2. QED
    BY <1>1, <2>1, OwnerIs DEF SaveSound, Known, Inv
<1>6. stored' \in [People -> Vault] /\ SavesFindTheirVault'
  BY <1>1, <1>4, <1>5 DEF Inv, BrowserTypeOK, SavesFindTheirVault
<1>7. QED
  BY <1>1, <1>2, <1>6, AnswerStep

\* Logout and deletion: the sessions of one user end.
LEMMA EndingStep ==
    ASSUME Inv, NEW w \in Windows, NEW x \in Slots, Logout(w, x) \/ Delete(w, x),
           UNCHANGED <<cookie, win, beside, faults>>
    PROVE  Inv'
<1> DEFINE c == call[w][x]
           owner == Owner(c.by)
<1>1. c.op \in {"logout", "delete"} /\ faults' \in 0 .. MaxFaults
  BY DEF Logout, Delete, Inv, BrowserTypeOK
<1>2. PICK at \in {"ok", "refused"} : Reply(w, x, at)
  BY DEF Logout, Delete
<1>3. session' \in [Sessions -> Row] /\ Kept(session, session')
  <2>1. session' = session \/ EndSessions(owner)
    BY DEF Logout, Delete
  <2> HIDE DEF owner
  <2>2. CASE session' = session
    BY <2>2 DEF Inv, BrowserTypeOK, Kept
  <2>3. CASE EndSessions(owner)
    <3>1. session \in [Sessions -> Row]
      BY DEF Inv, BrowserTypeOK
    <3>2. session' = [s \in Sessions |->
               IF session[s].of = owner THEN [session[s] EXCEPT !.state = "over"] ELSE session[s]]
      BY <2>3 DEF EndSessions
    <3>3. \A s \in Sessions : /\ session'[s] \in Row /\ session'[s].of = session[s].of
                              /\ session'[s].state \in {session[s].state, "over"}
      BY <3>1, <3>2 DEF Row
    <3>4. session' \in [Sessions -> Row]
      BY <3>2, <3>3
    <3>5. QED
      BY <3>3, <3>4 DEF Kept, Row
  <2>4. QED
    BY <2>1, <2>2, <2>3
<1>4. \/ stored' = stored
      \/ stored' = [stored EXCEPT ![owner] = NoVault]
  BY DEF Logout, Delete
<1>5. stored' \in [People -> Vault] /\ SavesFindTheirVault'
  BY <1>4, Values DEF Inv, BrowserTypeOK, SavesFindTheirVault
<1>6. QED
  BY <1>1, <1>2, <1>3, <1>5, AnswerStep

-----------------------------------------------------------------------------
(* The theorems *)

LEMMA InitInv == BrowserInit => Inv
<1> SUFFICES ASSUME BrowserInit PROVE Inv
  OBVIOUS
<1>1. /\ session \in [Sessions -> Row] /\ cookie = NoCookie /\ faults \in 0 .. MaxFaults
      /\ call = [w \in Windows |-> [slot \in Slots |-> NoCall]] /\ beside = {}
      /\ win = [w \in Windows |-> [page |-> "login", vault |-> NoVault]]
  BY BoundsAssumption DEF BrowserInit, Row
<1>2. stored \in [People -> Vault] /\ \A p \in People : stored[p].key = p
  BY BoundsAssumption DEF BrowserInit, Vault
<1>3. /\ call \in [Windows -> [Slots -> Call]] /\ \A w \in Windows, x \in Slots : call[w][x] = NoCall
      /\ win \in [Windows -> WindowType]
      /\ \A w \in Windows : win[w].vault.key = NoOne
  BY <1>1, Values DEF WindowType, Pages
<1>4. BrowserTypeOK /\ SavesFindTheirVault
  BY <1>1, <1>2, <1>3 DEF BrowserTypeOK, WindowType, SavesFindTheirVault
<1>5. Issued(cookie, session)
  BY <1>1 DEF Issued
<1>6. ASSUME NEW w \in Windows PROVE WindowSound(call[w], win[w], cookie, session, beside)
  BY <1>3, EmptySound
<1>7. QED
  BY <1>4, <1>5, <1>6 DEF Inv

LEMMA NextInv == ASSUME Inv, [BrowserNext]_browserVars PROVE Inv'
<1>1. ASSUME NEW w \in Windows, NEW p \in People,
             SubmitLogin(w, p) \/ SubmitCode(w, p) \/ SubmitMaster(w, p)
      PROVE  Inv'
  BY <1>1, SubmitsStep
<1>2. ASSUME NEW w \in Windows,
             \/ UseDifferentAccount(w) \/ SignedIn(w) \/ Opened(w)
             \/ \E page \in {"login", "unlock"} : Follow(w, page)
      PROVE  Inv'
  BY <1>2, TurnStep, SignedInStep, OpenedStep
<1>3. ASSUME NEW w \in Windows,
             Save(w) \/ SendSave(w) \/ Saved(w) \/ FetchNewer(w) \/ Decrypt(w) \/ Adopted(w)
      PROVE  Inv'
  BY <1>3, SaveStep, SendSaveStep, VersionStep, ReloadSteps
<1>4. ASSUME NEW w \in Windows,
             \/ Lock(w) \/ SignOut(w) \/ SignedOut(w) \/ DeleteAccount(w) \/ Deleted(w)
             \/ Reload(w)
      PROVE  Inv'
  BY <1>4, LockStep, SignOutStep, SignedOutStep, DeleteAccountStep, DeletedStep, ReloadStep
<1>5. ASSUME NEW w \in Windows, NEW x \in Slots, Deliver(w, x) PROVE Inv'
  <2>1. call[w][x].at = "sent" /\ UNCHANGED <<cookie, win, beside, faults>>
    BY <1>5 DEF Deliver
  <2>2. QED
    BY <1>5, <2>1, CreateSessionStep, ChallengeStep, GetStep, UploadStep, EndingStep
       DEF Deliver
<1>6. ASSUME NEW w \in Windows, NEW x \in Slots, Lose(w, x) PROVE Inv'
  BY <1>6, LoseStep
<1>7. CASE UNCHANGED browserVars
  BY <1>7 DEF browserVars, Inv, BrowserTypeOK, SavesFindTheirVault, WindowSound,
              FormSound, SaveSound, OpenSound, Issued, Known
<1>8. QED
  BY <1>1, <1>2, <1>3, <1>4, <1>5, <1>6, <1>7 DEF BrowserNext

LEMMA AlwaysInv == BrowserSpec => []Inv
<1>1. Inv /\ [BrowserNext]_browserVars => Inv'
  BY NextInv
<1>2. QED
  BY <1>1, InitInv, PTL DEF BrowserSpec

\* Sessions, vaults, windows, requests and the history stay in their domains.
THEOREM BrowserTypeCorrect == BrowserSpec => []BrowserTypeOK
<1>1. Inv => BrowserTypeOK
  BY DEF Inv
<1>2. QED
  BY <1>1, AlwaysInv, PTL

\* Whoever uses the browser, and wherever lock, sign-out, sign-in and deletion
\* come between reading the key, sending the upload and its execution: a
\* snapshot reaches the vault of another person only when that person signed
\* in while the vault it comes from was open, opening or being uploaded.
THEOREM SavesReachTheirVault == BrowserSpec => []SavesFindTheirVault
<1>1. Inv => SavesFindTheirVault
  BY DEF Inv
<1>2. QED
  BY <1>1, AlwaysInv, PTL

\* The session in the jar beside an open vault is its person's, or that of one
\* who signed in beside it: no answer, sign-out or deletion, however late,
\* leaves an open vault next to a session of another kind.
THEOREM JarIsOwned == BrowserSpec => []OpenVaultOwnsTheJar
<1>1. Inv => OpenVaultOwnsTheJar
  BY DEF Inv, WindowSound, OpenSound, Known, OpenVaultOwnsTheJar
<1>2. QED
  BY <1>1, AlwaysInv, PTL

=============================================================================
