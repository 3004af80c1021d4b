--------------------------- MODULE PasskeysProofs ---------------------------
(***************************************************************************)
(* Proofs about Passkeys for any users, credentials, requests, addresses   *)
(* and limits.  Two invariants that have nothing to do with each other:    *)
(* what an execution knows in each phase of its response, and how many     *)
(* sign-ins of an address fall into the limiter's window, the one before   *)
(* it, and any stretch of time as long.                                    *)
(***************************************************************************)
EXTENDS Passkeys, FiniteSetTheorems, TLAPS

-----------------------------------------------------------------------------
(* Responses and executions *)

\* A challenge that this execution has taken, or a session that came of it.
Used(x) == phase[x] \in {"taken", "verified", "counted", "done"} \/ SignedIn(x)

CeremonySound(i) ==
    /\ ceremony[i].live => ceremony[i].kind # "unused"
    /\ ceremony[i].kind = "register" => ceremony[i].email \in Users

ResponseSound(s) ==
    /\ ceremony[s.id].kind = s.op
    /\ made[s.cred] # NoUser
    /\ s.op = "register" => made[s.cred] = ceremony[s.id].email

RowSound(c) ==
    passkey[c].state # "absent" => passkey[c].of = made[c] /\ made[c] # NoUser

\* The owner that x has read, or the session it has, for the response s.
Earned(x, s, u) ==
    u = made[s.cred] /\ ceremony[s.id].email \in {Anyone, u} /\ x \notin barred

RequestSound(x) ==
    LET s == request[x].said IN
    /\ phase[x] = "idle" => ~ SignedIn(x) /\ x \notin barred
    /\ phase[x] # "idle" => s \in signed
    /\ x \in barred => passkey[s.cred].state = "revoked"
    /\ phase[x] = "verified" /\ s.op = "register" => ceremony[s.id].email = request[x].by
    /\ phase[x] = "counted" => s.op = "login"
    /\ phase[x] \in {"verified", "counted"} /\ s.op = "login" => Earned(x, s, seen[x])
    /\ SignedIn(x) => Earned(x, s, session[x])
    /\ Used(x) => ~ ceremony[s.id].live

UsedOnce ==
    \A x, y \in Requests :
        Used(x) /\ Used(y) /\ request[x].said.id = request[y].said.id => x = y

Inv ==
    /\ PasskeysTypeOK
    /\ request \in [Requests -> Request \cup {NoUser}]
    /\ \A i \in Ceremonies : CeremonySound(i)
    /\ \A s \in signed : ResponseSound(s)
    /\ \A c \in Credentials : RowSound(c)
    /\ \A x \in Requests : RequestSound(x)
    /\ UsedOnce

-----------------------------------------------------------------------------
(* The limiter *)

\* What the entry l of an address says of its admitted sign-ins D, which came
\* at c, at time t.
WindowSound(D, c, l, t) ==
    /\ IsFiniteSet(D)
    /\ l.count \in 0 .. MaxRequests /\ l.since \in 0 .. t
    /\ \A y \in D : c[y] \in 0 .. t /\ c[y] <= l.since + Window
    /\ l.count = 0 => D = {}
    /\ l.count = Cardinality({y \in D : l.since <= c[y]})
    /\ Cardinality({y \in D : c[y] < l.since /\ l.since <= c[y] + Window}) <= MaxRequests
    /\ \A u \in 0 .. MaxTime :
          Cardinality({y \in D : u <= c[y] /\ c[y] <= u + Window}) <= 2 * MaxRequests

\* Those that have used the budget when a sign-in that came at t is refused.
Before(D, c, t) == {y \in D : c[y] <= t /\ t <= c[y] + Window}

LimiterInv ==
    /\ \A x \in Requests : came[x] \in 0 .. now
    /\ \A a \in Addresses :
          /\ WindowSound(Admitted(a), came, limiter[a], now)
          /\ \A x \in Requests : phase[x] = "limited" /\ request[x].from = a =>
                Cardinality(Before(Admitted(a), came, came[x])) >= MaxRequests

-----------------------------------------------------------------------------
(* Lemmas about the limiter *)

LEMMA Smaller ==
    ASSUME NEW S, IsFiniteSet(S), NEW T, T \subseteq S
    PROVE  /\ IsFiniteSet(T) /\ Cardinality(T) \in Nat /\ Cardinality(S) \in Nat
           /\ Cardinality(T) <= Cardinality(S)
BY FS_Subset, FS_CardinalityType

LEMMA UnionBound ==
    ASSUME NEW S, NEW T, IsFiniteSet(S), IsFiniteSet(T)
    PROVE  /\ IsFiniteSet(S \cup T)
           /\ Cardinality(S \cup T) <= Cardinality(S) + Cardinality(T)
<1>1. /\ IsFiniteSet(S \cup T)
      /\ Cardinality(S \cup T) = Cardinality(S) + Cardinality(T) - Cardinality(S \cap T)
  BY FS_Union
<1>2. /\ Cardinality(S) \in Nat /\ Cardinality(T) \in Nat
      /\ Cardinality(S \cap T) \in Nat
  BY FS_Intersection, FS_CardinalityType
<1>3. QED
  BY <1>1, <1>2

LEMMA OneMore ==
    ASSUME NEW S, NEW x, IsFiniteSet(S)
    PROVE  /\ IsFiniteSet(S \cup {x})
           /\ Cardinality(S) \in Nat /\ Cardinality(S \cup {x}) \in Nat
           /\ Cardinality(S \cup {x}) <= Cardinality(S) + 1
           /\ x \notin S => Cardinality(S \cup {x}) = Cardinality(S) + 1
<1>1. /\ IsFiniteSet(S \cup {x})
      /\ Cardinality(S \cup {x}) = IF x \in S THEN Cardinality(S) ELSE Cardinality(S) + 1
  BY FS_AddElement
<1>2. Cardinality(S) \in Nat
  BY FS_CardinalityType
<1>3. QED
  BY <1>1, <1>2

LEMMA SameArrivals ==
    ASSUME NEW D, NEW c, NEW c2, NEW l, NEW t,
           WindowSound(D, c, l, t), \A y \in D : c2[y] = c[y]
    PROVE  WindowSound(D, c2, l, t)
<1>1. /\ {y \in D : l.since <= c2[y]} = {y \in D : l.since <= c[y]}
      /\ {y \in D : c2[y] < l.since /\ l.since <= c2[y] + Window}
             = {y \in D : c[y] < l.since /\ l.since <= c[y] + Window}
      /\ \A u : {y \in D : u <= c2[y] /\ c2[y] <= u + Window}
                  = {y \in D : u <= c[y] /\ c[y] <= u + Window}
  OBVIOUS
<1>2. QED
  BY <1>1 DEF WindowSound

LEMMA TimePasses ==
    ASSUME NEW D, NEW c, NEW l, NEW t \in Nat, NEW u \in Nat, t <= u, WindowSound(D, c, l, t)
    PROVE  WindowSound(D, c, l, u)
<1>1. /\ l.since \in 0 .. u
      /\ \A y \in D : c[y] \in 0 .. u /\ c[y] <= l.since + Window
  BY DEF WindowSound
<1>2. QED
  BY <1>1 DEF WindowSound

LEMMA NobodyAdmitted ==
    ASSUME NEW c, NEW l, NEW t \in Nat, l.count = 0, l.since \in 0 .. t
    PROVE  WindowSound({}, c, l, t)
<1>1. /\ {y \in {} : l.since <= c[y]} = {}
      /\ {y \in {} : c[y] < l.since /\ l.since <= c[y] + Window} = {}
      /\ \A u : {y \in {} : u <= c[y] /\ c[y] <= u + Window} = {}
  OBVIOUS
<1>2. QED
  BY <1>1, FS_EmptySet, PasskeysAssumption DEF WindowSound

\* A sign-in is admitted to the window that is open.
LEMMA AdmittedToWindow ==
    ASSUME NEW D, NEW c, NEW l, NEW t \in Nat, NEW x, WindowSound(D, c, l, t),
           x \notin D, c[x] = t, t <= l.since + Window, l.count < MaxRequests
    PROVE  WindowSound(D \cup {x}, c, [count |-> l.count + 1, since |-> l.since], t)
<1> DEFINE E == D \cup {x}
           cur == {y \in D : l.since <= c[y]}
           old == {y \in D : c[y] < l.since /\ l.since <= c[y] + Window}
           In(S, u) == {y \in S : u <= c[y] /\ c[y] <= u + Window}
<1>1. /\ Window \in Nat /\ MaxRequests \in Nat /\ MaxTime \in Nat
      /\ l.since \in Nat /\ l.since <= t /\ l.count \in Nat /\ IsFiniteSet(D)
      /\ \A y \in D : c[y] \in Nat /\ c[y] <= t
  BY PasskeysAssumption DEF WindowSound
<1>2. /\ IsFiniteSet(E) /\ IsFiniteSet(cur) /\ IsFiniteSet(old)
      /\ IsFiniteSet(cur \cup {x})
      /\ Cardinality(cur \cup {x}) = l.count + 1 /\ Cardinality(old) <= MaxRequests
      /\ Cardinality(old) \in Nat
  <2>1. IsFiniteSet(cur) /\ IsFiniteSet(old) /\ IsFiniteSet(E) /\ Cardinality(old) \in Nat
    BY <1>1, Smaller, FS_AddElement
  <2>2. Cardinality(cur) = l.count /\ Cardinality(old) <= MaxRequests
    BY DEF WindowSound
  <2>3. QED
    BY <2>1, <2>2, FS_AddElement
<1>3. /\ {y \in E : l.since <= c[y]} = cur \cup {x}
      /\ {y \in E : c[y] < l.since /\ l.since <= c[y] + Window} = old
  BY <1>1
<1>4. ASSUME NEW u \in 0 .. MaxTime PROVE Cardinality(In(E, u)) <= 2 * MaxRequests
  <2>1. CASE u <= t /\ t <= u + Window
    <3>1. In(E, u) \subseteq (cur \cup {x}) \cup old
      BY <1>1, <2>1
    <3> HIDE DEF cur, old
    <3>2. /\ IsFiniteSet((cur \cup {x}) \cup old)
          /\ Cardinality((cur \cup {x}) \cup old) <= (l.count + 1) + Cardinality(old)
          /\ Cardinality((cur \cup {x}) \cup old) \in Nat
      <4>1. IsFiniteSet((cur \cup {x}) \cup old)
        BY <1>2, UnionBound
      <4>2. Cardinality((cur \cup {x}) \cup old)
                <= Cardinality(cur \cup {x}) + Cardinality(old)
        BY <1>2, UnionBound
      <4>3. Cardinality((cur \cup {x}) \cup old) \in Nat
        BY <4>1, FS_CardinalityType
      <4>4. QED
        BY <1>2, <4>1, <4>2, <4>3
    <3>3. /\ Cardinality(In(E, u)) <= Cardinality((cur \cup {x}) \cup old)
          /\ Cardinality(In(E, u)) \in Nat
      BY <3>1, <3>2, Smaller
    <3>4. QED
      BY <1>1, <1>2, <3>2, <3>3
  <2>2. CASE ~ (u <= t /\ t <= u + Window)
    <3>1. In(E, u) = In(D, u)
      BY <2>2
    <3>2. QED
      BY <3>1 DEF WindowSound
  <2>3. QED
    BY <2>1, <2>2
<1>5. \A y \in E : c[y] \in 0 .. t /\ c[y] <= l.since + Window
  BY <1>1 DEF WindowSound
<1> DEFINE m == [count |-> l.count + 1, since |-> l.since]
<1>6. m.count = l.count + 1 /\ m.since = l.since
  OBVIOUS
<1>7. m.count # 0 /\ m.count \in 0 .. MaxRequests /\ m.since \in 0 .. t
  BY <1>1, <1>6
<1> HIDE DEF m
<1>8. QED
  BY <1>1, <1>2, <1>3, <1>4, <1>5, <1>6, <1>7 DEF WindowSound

\* A sign-in that is the first of a new window.
LEMMA WindowStarts ==
    ASSUME NEW D, NEW c, NEW l, NEW t \in Nat, NEW x, WindowSound(D, c, l, t),
           x \notin D, c[x] = t, t - l.since > Window
    PROVE  WindowSound(D \cup {x}, c, [count |-> 1, since |-> t], t)
<1> DEFINE E == D \cup {x}
           cur == {y \in D : l.since <= c[y]}
           In(S, u) == {y \in S : u <= c[y] /\ c[y] <= u + Window}
           old == {y \in E : c[y] < t /\ t <= c[y] + Window}
<1>1. /\ Window \in Nat /\ MaxRequests \in Nat \ {0} /\ MaxTime \in Nat
      /\ l.since \in Nat /\ l.count \in 0 .. MaxRequests /\ IsFiniteSet(D)
      /\ \A y \in D : c[y] \in Nat /\ c[y] <= l.since + Window /\ c[y] < t
  BY PasskeysAssumption DEF WindowSound
<1>2. /\ IsFiniteSet(E) /\ IsFiniteSet(cur) /\ Cardinality(cur) = l.count
      /\ IsFiniteSet(cur \cup {x}) /\ Cardinality(cur \cup {x}) <= l.count + 1
      /\ Cardinality({x}) = 1
  <2>1. IsFiniteSet(cur) /\ Cardinality(cur) = l.count
    BY <1>1, Smaller DEF WindowSound
  <2>2. IsFiniteSet(cur \cup {x}) /\ Cardinality(cur \cup {x}) <= l.count + 1
    BY <2>1, OneMore
  <2>3. QED
    BY <1>1, <2>1, <2>2, FS_AddElement, FS_Singleton
<1>3. {y \in E : t <= c[y]} = {x}
  BY <1>1
<1>4. Cardinality(old) <= MaxRequests
  <2>1. old \subseteq cur
    BY <1>1
  <2>2. QED
    BY <1>1, <1>2, <2>1, Smaller
<1>5. ASSUME NEW u \in 0 .. MaxTime PROVE Cardinality(In(E, u)) <= 2 * MaxRequests
  <2>1. CASE u <= t /\ t <= u + Window
    <3>1. In(E, u) \subseteq cur \cup {x}
      BY <1>1, <2>1
    <3>2. /\ Cardinality(In(E, u)) <= Cardinality(cur \cup {x})
          /\ Cardinality(In(E, u)) \in Nat /\ Cardinality(cur \cup {x}) \in Nat
      BY <1>2, <3>1, Smaller
    <3>3. QED
      BY <1>1, <1>2, <3>2
  <2>2. CASE ~ (u <= t /\ t <= u + Window)
    <3>1. In(E, u) = In(D, u)
      BY <2>2
    <3>2. QED
      BY <3>1 DEF WindowSound
  <2>3. QED
    BY <2>1, <2>2
<1>6. \A y \in E : c[y] \in 0 .. t /\ c[y] <= t + Window
  BY <1>1
<1> DEFINE m == [count |-> 1, since |-> t]
<1>7. m.count = 1 /\ m.since = t
  OBVIOUS
<1>8. m.count # 0 /\ m.count \in 0 .. MaxRequests /\ m.since \in 0 .. t
  BY <1>1, <1>7
<1> HIDE DEF m
<1>9. QED
  BY <1>1, <1>2, <1>3, <1>4, <1>5, <1>6, <1>7, <1>8 DEF WindowSound

\* A sign-in that is refused: the window is full, and all of it is recent.
LEMMA WindowFull ==
    ASSUME NEW D, NEW c, NEW l, NEW t \in Nat, WindowSound(D, c, l, t),
           t <= l.since + Window, l.count >= MaxRequests
    PROVE  Cardinality(Before(D, c, t)) >= MaxRequests
<1>1. /\ Window \in Nat /\ MaxRequests \in Nat /\ l.since \in Nat /\ IsFiniteSet(D)
      /\ \A y \in D : c[y] \in Nat /\ c[y] <= t
      /\ Cardinality({y \in D : l.since <= c[y]}) >= MaxRequests
  BY PasskeysAssumption DEF WindowSound
<1>2. {y \in D : l.since <= c[y]} \subseteq Before(D, c, t)
  BY <1>1 DEF Before
<1>3. /\ IsFiniteSet(Before(D, c, t)) /\ Cardinality(Before(D, c, t)) \in Nat
      /\ Cardinality({y \in D : l.since <= c[y]}) \in Nat
      /\ Cardinality({y \in D : l.since <= c[y]}) <= Cardinality(Before(D, c, t))
  <2>1. IsFiniteSet(Before(D, c, t))
    BY <1>1, Smaller DEF Before
  <2>2. QED
    BY <1>2, <2>1, Smaller
<1>4. QED
  BY <1>1, <1>3

LEMMA StillFull ==
    ASSUME NEW D, NEW D2, IsFiniteSet(D2), D \subseteq D2, NEW c, NEW c2, NEW t,
           \A y \in D : c2[y] = c[y], Cardinality(Before(D, c, t)) >= MaxRequests
    PROVE  Cardinality(Before(D2, c2, t)) >= MaxRequests
<1>1. Before(D, c, t) \subseteq Before(D2, c2, t)
  BY DEF Before
<1>2. IsFiniteSet(Before(D2, c2, t))
  BY Smaller DEF Before
<1>3. QED
  BY <1>1, <1>2, Smaller, PasskeysAssumption
-----------------------------------------------------------------------------
(* The limiter through the steps *)

Passed == {"arrived", "taken", "verified", "counted", "done", "failed"}

LEMMA AdmittedIs ==
    ASSUME PasskeysTypeOK, NEW a \in Addresses
    PROVE  Admitted(a) = {y \in Requests : /\ phase[y] \in Passed
                                           /\ request[y].from = a
                                           /\ request[y].said.op = "login"}
BY DEF Admitted, PasskeysTypeOK, Phases, Passed

\* The entry that the check decides on tells the truth too.
LEMMA EntrySound ==
    ASSUME LimiterInv, now \in Nat, NEW a \in Addresses
    PROVE  WindowSound(Admitted(a), came, Entry(a), now)
<1>1. CASE limiter[a].count # 0
  BY <1>1 DEF LimiterInv, Entry
<1>2. CASE limiter[a].count = 0
  <2>1. Admitted(a) = {}
    BY <1>2 DEF LimiterInv, WindowSound
  <2>2. Entry(a) = [count |-> 0, since |-> now]
    BY <1>2 DEF Entry
  <2>3. Entry(a).count = 0 /\ Entry(a).since \in 0 .. now
    BY <2>2
  <2>4. QED
    BY <2>1, <2>3, NobodyAdmitted
<1>3. QED
  BY <1>1, <1>2

\* Steps that admit nobody and refuse nobody.
LEMMA LimiterUntouched ==
    ASSUME LimiterInv, now \in Nat, now' \in Nat, now <= now', UNCHANGED <<limiter, came>>,
           \A a \in Addresses : Admitted(a)' = Admitted(a),
           \A x \in Requests : phase'[x] = "limited" =>
               phase[x] = "limited" /\ request'[x].from = request[x].from
    PROVE  LimiterInv'
<1>1. ASSUME NEW a \in Addresses
      PROVE  WindowSound(Admitted(a), came, limiter[a], now)'
  <2>1. WindowSound(Admitted(a), came, limiter[a], now)
    BY DEF LimiterInv
  <2>2. WindowSound(Admitted(a), came, limiter[a], now')
    BY <2>1, TimePasses
  <2>3. QED
    BY <2>2
<1>2. ASSUME NEW a \in Addresses, NEW x \in Requests,
             phase'[x] = "limited", request'[x].from = a
      PROVE  (Cardinality(Before(Admitted(a), came, came[x])) >= MaxRequests)'
  <2>1. Cardinality(Before(Admitted(a), came, came[x])) >= MaxRequests
    BY <1>2 DEF LimiterInv
  <2>2. QED
    BY <2>1
<1>3. \A x \in Requests : came'[x] \in 0 .. now'
  BY DEF LimiterInv
<1>4. QED
  BY <1>1, <1>2, <1>3 DEF LimiterInv

\* One more sign-in is admitted, which leaves those that were refused.
LEMMA LimiterArrival ==
    ASSUME LimiterInv, PasskeysTypeOK, request \in [Requests -> Request \cup {NoUser}],
           NEW x \in Requests, NEW s \in signed, NEW a \in Addresses, SendLogin(x, s, a)
    PROVE  LimiterInv'
<1> DEFINE e == Entry(a)
           D == Admitted(a)
           c == came'
<1>1. /\ now \in Nat /\ now' = now /\ phase[x] = "idle" /\ s.op = "login"
      /\ came' = [came EXCEPT ![x] = now] /\ limiter' = [limiter EXCEPT ![a] = Check(a).entry]
      /\ phase' = [phase EXCEPT ![x] = IF Check(a).ok THEN "arrived" ELSE "limited"]
      /\ request' = [request EXCEPT ![x] = [said |-> s, by |-> NoUser, from |-> a]]
  BY DEF SendLogin, Arrive, PasskeysTypeOK
<1>2. /\ came'[x] = now /\ \A y \in Requests \ {x} : came'[y] = came[y]
      /\ phase'[x] = IF Check(a).ok THEN "arrived" ELSE "limited"
      /\ \A y \in Requests \ {x} : phase'[y] = phase[y]
      /\ request'[x] = [said |-> s, by |-> NoUser, from |-> a]
      /\ \A y \in Requests \ {x} : request'[y] = request[y]
      /\ limiter'[a] = Check(a).entry
      /\ \A b \in Addresses \ {a} : limiter'[b] = limiter[b]
  BY <1>1 DEF PasskeysTypeOK
<1>3. \A b \in Addresses : x \notin Admitted(b) /\ Admitted(b) \subseteq Requests
  BY <1>1 DEF Admitted
<1>4. /\ \A b \in Addresses \ {a} : Admitted(b)' = Admitted(b)
      /\ Admitted(a)' = IF Check(a).ok THEN D \cup {x} ELSE D
  BY <1>1, <1>2, <1>3 DEF Admitted
<1>5. WindowSound(D, c, e, now)
  <2>1. WindowSound(D, came, e, now)
    BY <1>1, EntrySound
  <2>2. \A y \in D : c[y] = came[y]
    BY <1>2, <1>3
  <2> HIDE DEF D, e, c
  <2>3. QED
    BY <2>1, <2>2, SameArrivals
<1>6. e.count \in Nat /\ e.since \in Nat /\ Window \in Nat /\ MaxRequests \in Nat
  BY <1>1, <1>5, PasskeysAssumption DEF WindowSound
<1>7. /\ WindowSound(Admitted(a)', c, limiter'[a], now)
      /\ ~ Check(a).ok => Cardinality(Before(D, c, now)) >= MaxRequests
  <2>1. x \notin D /\ c[x] = now
    BY <1>2, <1>3
  <2> HIDE DEF D, e, c
  <2>2. CASE now - e.since > Window
    <3>1. Check(a) = [ok |-> TRUE, entry |-> [count |-> 1, since |-> now]]
      BY <2>2 DEF Check, e
    <3>2. WindowSound(D \cup {x}, c, [count |-> 1, since |-> now], now)
      BY <1>1, <1>5, <2>1, <2>2, WindowStarts
    <3>3. QED
      BY <1>2, <1>4, <3>1, <3>2
  <2>3. CASE ~ (now - e.since > Window) /\ e.count >= MaxRequests
    <3>1. Check(a) = [ok |-> FALSE, entry |-> e]
      BY <2>3 DEF Check, e
    <3>2. Cardinality(Before(D, c, now)) >= MaxRequests
      BY <1>1, <1>5, <1>6, <2>3, WindowFull
    <3>3. QED
      BY <1>2, <1>4, <1>5, <3>1, <3>2
  <2>4. CASE ~ (now - e.since > Window) /\ ~ (e.count >= MaxRequests)
    <3>1. e = [count |-> e.count, since |-> e.since]
      BY DEF e, Entry, PasskeysTypeOK
    <3>2. Check(a) = [ok |-> TRUE, entry |-> [count |-> e.count + 1, since |-> e.since]]
      BY <2>4, <3>1 DEF Check, e
    <3>3. now <= e.since + Window /\ e.count < MaxRequests
      BY <1>1, <1>6, <2>4
    <3>4. WindowSound(D \cup {x}, c, [count |-> e.count + 1, since |-> e.since], now)
      BY <1>1, <1>5, <2>1, <3>3, AdmittedToWindow
    <3>5. QED
      BY <1>2, <1>4, <3>2, <3>4
  <2>5. QED
    BY <2>2, <2>3, <2>4
<1>8. ASSUME NEW b \in Addresses PROVE WindowSound(Admitted(b), came, limiter[b], now)'
  <2>1. CASE b = a
    BY <1>1, <1>7, <2>1
  <2>2. CASE b # a
    <3>1. WindowSound(Admitted(b), came, limiter[b], now)
      BY DEF LimiterInv
    <3>2. \A y \in Admitted(b) : c[y] = came[y]
      BY <1>2, <1>3
    <3>3. WindowSound(Admitted(b), c, limiter[b], now)
      <4> HIDE DEF c
      <4>1. QED
        BY <3>1, <3>2, SameArrivals
    <3>4. QED
      BY <1>1, <1>2, <1>4, <2>2, <3>3
  <2>3. QED
    BY <2>1, <2>2
<1>9. ASSUME NEW b \in Addresses, NEW y \in Requests,
             phase'[y] = "limited", request'[y].from = b
      PROVE  (Cardinality(Before(Admitted(b), came, came[y])) >= MaxRequests)'
  <2>1. CASE y = x
    <3>1. b = a /\ ~ Check(a).ok
      BY <1>2, <1>9, <2>1
    <3>2. QED
      BY <1>1, <1>2, <1>4, <1>7, <2>1, <3>1
  <2>2. CASE y # x
    <3>1. phase[y] = "limited" /\ request[y].from = b /\ came'[y] = came[y]
      BY <1>2, <1>9, <2>2
    <3>2. Cardinality(Before(Admitted(b), came, came[y])) >= MaxRequests
      BY <3>1 DEF LimiterInv
    <3>3. Admitted(b) \subseteq Admitted(b)'
      BY <1>4
    <3>4. \A z \in Admitted(b) : came'[z] = came[z]
      BY <1>2, <1>3
    <3>5. IsFiniteSet(Admitted(b)')
      BY <1>8 DEF WindowSound
    <3>6. QED
      BY <3>1, <3>2, <3>3, <3>4, <3>5, StillFull
  <2>3. QED
    BY <2>1, <2>2
<1>10. \A y \in Requests : came'[y] \in 0 .. now'
  BY <1>1, <1>2 DEF LimiterInv
<1>11. QED
  BY <1>8, <1>9, <1>10 DEF LimiterInv
-----------------------------------------------------------------------------
(* Responses through the steps *)

\* What a signed response refers to stays: its ceremony, which is not offered
\* again, its credential, and that this was revoked.
Lasts(s) ==
    /\ ceremony'[s.id].kind = ceremony[s.id].kind
    /\ ceremony'[s.id].email = ceremony[s.id].email
    /\ ceremony'[s.id].live => ceremony[s.id].live
    /\ made'[s.cred] = made[s.cred]
    /\ passkey[s.cred].state = "revoked" => passkey'[s.cred].state = "revoked"

\* Execution y does nothing, or gives up.
Rests(y) ==
    /\ request'[y] = request[y] /\ session'[y] = session[y] /\ seen'[y] = seen[y]
    /\ y \in barred' <=> y \in barred
    /\ \/ phase'[y] = phase[y]
       \/ phase[y] # "idle" /\ phase'[y] \in {"failed", "over"}

LEMMA SignedFacts ==
    ASSUME Inv, NEW s \in signed
    PROVE  /\ s.id \in Ceremonies /\ s.cred \in Credentials
           /\ s.op \in {"login", "register"} /\ s.count \in 0 .. MaxCount
           /\ ceremony[s.id].kind = s.op /\ made[s.cred] \in Users
           /\ s.op = "register" => made[s.cred] = ceremony[s.id].email
BY DEF Inv, PasskeysTypeOK, ResponseSound, Response

LEMMA RequestFacts ==
    ASSUME Inv, NEW x \in Requests, phase[x] # "idle"
    PROVE  /\ request[x] \in Request /\ request[x].said \in signed
           /\ request[x].by \in Users \cup {NoUser} /\ request[x].from \in Addresses
BY DEF Inv, PasskeysTypeOK, RequestSound, Request

LEMMA RestingRequest ==
    ASSUME Inv, NEW y \in Requests, Rests(y), signed \subseteq signed',
           \A s \in signed : Lasts(s)
    PROVE  RequestSound(y)' /\ (Used(y)' => Used(y))
<1>1. RequestSound(y)
  BY DEF Inv
<1>2. Used(y)' => Used(y)
  BY DEF Used, Rests, SignedIn
<1>3. CASE phase[y] = "idle"
  BY <1>1, <1>3 DEF RequestSound, Rests, Used, SignedIn
<1>4. CASE phase[y] # "idle"
  <2>1. request[y].said \in signed
    BY <1>4, RequestFacts
  <2>2. Lasts(request[y].said)
    BY <2>1
  <2>3. QED
    BY <1>1, <1>2, <1>4, <2>1, <2>2 DEF RequestSound, Rests, Used, SignedIn, Earned, Lasts
<1>5. QED
  BY <1>2, <1>3, <1>4

LEMMA RestingRequests ==
    ASSUME Inv, signed \subseteq signed', \A s \in signed : Lasts(s),
           \A y \in Requests : Rests(y)
    PROVE  (\A y \in Requests : RequestSound(y))' /\ UsedOnce'
<1>1. \A y \in Requests : RequestSound(y)' /\ (Used(y)' => Used(y))
  BY RestingRequest
<1>2. \A y \in Requests : request'[y] = request[y]
  BY DEF Rests
<1>3. UsedOnce'
  BY <1>1, <1>2 DEF UsedOnce, Inv
<1>4. QED
  BY <1>1, <1>3

\* One execution goes on, all others rest.
LEMMA OneRequestMoves ==
    ASSUME Inv, NEW x \in Requests, signed \subseteq signed', \A s \in signed : Lasts(s),
           \A y \in Requests \ {x} : Rests(y), RequestSound(x)', request'[x] = request[x],
           Used(x)' => Used(x) \/ ceremony[request[x].said.id].live
    PROVE  (\A y \in Requests : RequestSound(y))' /\ UsedOnce'
<1>1. \A y \in Requests \ {x} : RequestSound(y)' /\ (Used(y)' => Used(y))
  BY RestingRequest
<1>2. \A y \in Requests : request'[y] = request[y]
  BY DEF Rests
<1>3. \A y \in Requests : Used(y) => ~ ceremony[request[y].said.id].live
  BY DEF Inv, RequestSound
<1>4. UsedOnce'
  BY <1>1, <1>2, <1>3 DEF UsedOnce, Inv
<1>5. QED
  BY <1>1, <1>4
-----------------------------------------------------------------------------
(* The invariant of the responses, action by action *)

LEMMA TickStep == ASSUME Inv, Tick PROVE Inv'
<1>1. PasskeysTypeOK' /\ request' \in [Requests -> Request \cup {NoUser}]
  BY PasskeysAssumption DEF Inv, PasskeysTypeOK, Tick, rowVars, clientVars
<1>2. UNCHANGED <<ceremony, passkey, session, signed, made, request, phase, seen, barred>>
  BY DEF Tick, rowVars, clientVars
<1>3. QED
  BY <1>1, <1>2 DEF Inv, CeremonySound, ResponseSound, RowSound, RequestSound, UsedOnce,
        Used, SignedIn, Earned

LEMMA InsertChallengeStep ==
    ASSUME Inv, NEW i \in Ceremonies, NEW k \in {"login", "register"},
           NEW e \in Users \cup {Anyone}, k = "register" => e \in Users,
           InsertChallenge(i, k, e)
    PROVE  Inv'
<1>1. /\ ceremony[i].kind = "unused"
      /\ UNCHANGED <<now, limiter, passkey, session, counter, signed, made, request, phase,
                     seen, barred, came, restarts>>
  BY DEF InsertChallenge, rowVars, clientVars
<1>2. /\ DOMAIN ceremony' = Ceremonies
      /\ ceremony'[i] = [kind |-> k, email |-> e, at |-> now, live |-> TRUE]
      /\ \A j \in Ceremonies \ {i} :
            /\ ceremony'[j] \in Ceremony
            /\ ceremony'[j].kind = ceremony[j].kind /\ ceremony'[j].email = ceremony[j].email
            /\ ceremony'[j].live => ceremony[j].live
  <2>1. ceremony' = [j \in Ceremonies |->
            IF j = i THEN [kind |-> k, email |-> e, at |-> now, live |-> TRUE]
            ELSE [ceremony[j] EXCEPT !.live = @ /\ Fresh(j)]]
    BY DEF InsertChallenge
  <2>2. /\ DOMAIN ceremony' = Ceremonies
        /\ ceremony'[i] = [kind |-> k, email |-> e, at |-> now, live |-> TRUE]
    BY <2>1
  <2>3. ASSUME NEW j \in Ceremonies \ {i}
        PROVE  /\ ceremony'[j] \in Ceremony
               /\ ceremony'[j].kind = ceremony[j].kind /\ ceremony'[j].email = ceremony[j].email
               /\ ceremony'[j].live => ceremony[j].live
    <3>1. ceremony'[j] = [ceremony[j] EXCEPT !.live = @ /\ Fresh(j)]
      BY <2>1
    <3>2. ceremony[j] \in Ceremony
      BY DEF Inv, PasskeysTypeOK
    <3>3. (ceremony[j].live /\ Fresh(j)) \in BOOLEAN
      OBVIOUS
    <3>4. QED
      BY <3>1, <3>2, <3>3 DEF Ceremony
  <2>4. QED
    BY <2>2, <2>3
<1>3. ceremony' \in [Ceremonies -> Ceremony]
  <2>1. ceremony'[i] \in Ceremony
    BY <1>2 DEF Ceremony, Inv, PasskeysTypeOK
  <2>2. ceremony' = [j \in Ceremonies |-> ceremony'[j]]
    BY DEF InsertChallenge
  <2>3. QED
    BY <1>2, <2>1, <2>2
<1>4. PasskeysTypeOK' /\ request' \in [Requests -> Request \cup {NoUser}]
  BY <1>1, <1>3 DEF Inv, PasskeysTypeOK
<1>5. \A j \in Ceremonies : CeremonySound(j)'
  BY <1>2 DEF CeremonySound, Inv
<1>6. \A s \in signed : Lasts(s)
  <2>1. \A s \in signed : s.id \in Ceremonies \ {i}
    BY <1>1, SignedFacts
  <2>2. QED
    BY <1>1, <1>2, <2>1 DEF Lasts
<1>7. \A s \in signed' : ResponseSound(s)'
  BY <1>1, <1>6 DEF ResponseSound, Inv, Lasts
<1>8. \A y \in Requests : Rests(y)
  BY <1>1 DEF Rests
<1>9. \A c \in Credentials : RowSound(c)'
  BY <1>1 DEF RowSound, Inv
<1>10. (\A y \in Requests : RequestSound(y))' /\ UsedOnce'
  BY <1>1, <1>6, <1>8, RestingRequests
<1>11. QED
  BY <1>4, <1>5, <1>7, <1>9, <1>10 DEF Inv

LEMMA CreatePasskeyStep ==
    ASSUME Inv, NEW i \in Ceremonies, NEW c \in Credentials, CreatePasskey(i, c) PROVE Inv'
<1>1. /\ ceremony[i].kind = "register" /\ made[c] = NoUser
      /\ made' = [made EXCEPT ![c] = ceremony[i].email]
      /\ signed' = signed \cup {Says("register", i, c, counter[c])}
      /\ UNCHANGED <<now, ceremony, limiter, passkey, session, counter, request, phase, seen,
                     barred, came, restarts>>
  BY DEF CreatePasskey, rowVars
<1>2. ceremony[i].email \in Users /\ NoUser \notin Users
  BY <1>1, PasskeysAssumption DEF Inv, CeremonySound
<1>3. /\ made' \in [Credentials -> Users \cup {NoUser}] /\ made'[c] = ceremony[i].email
      /\ \A d \in Credentials : d # c => made'[d] = made[d]
      /\ \A d \in Credentials : made[d] # NoUser => made'[d] = made[d]
  BY <1>1, <1>2 DEF Inv, PasskeysTypeOK
<1>4. Says("register", i, c, counter[c]) \in Response
  BY DEF Says, Response, Inv, PasskeysTypeOK
<1>5. PasskeysTypeOK' /\ request' \in [Requests -> Request \cup {NoUser}]
  BY <1>1, <1>3, <1>4 DEF Inv, PasskeysTypeOK
<1>6. \A s \in signed : Lasts(s)
  <2>1. \A s \in signed : s.cred \in Credentials /\ made[s.cred] # NoUser
    BY <1>2, SignedFacts
  <2>2. QED
    BY <1>1, <1>3, <2>1 DEF Lasts
<1>7. \A s \in signed' : ResponseSound(s)'
  <2>1. \A s \in signed : ResponseSound(s)'
    BY <1>6 DEF ResponseSound, Inv, Lasts
  <2>2. ResponseSound(Says("register", i, c, counter[c]))'
    BY <1>1, <1>2, <1>3 DEF ResponseSound, Says
  <2>3. QED
    BY <1>1, <2>1, <2>2
<1>8. \A d \in Credentials : RowSound(d)'
  BY <1>1, <1>3 DEF RowSound, Inv
<1>9. \A y \in Requests : Rests(y)
  BY <1>1 DEF Rests
<1>10. (\A y \in Requests : RequestSound(y))' /\ UsedOnce'
  BY <1>1, <1>6, <1>9, RestingRequests
<1>11. \A j \in Ceremonies : CeremonySound(j)'
  BY <1>1 DEF CeremonySound, Inv
<1>12. QED
  BY <1>5, <1>7, <1>8, <1>10, <1>11 DEF Inv

LEMMA SignAssertionStep ==
    ASSUME Inv, NEW i \in Ceremonies, NEW c \in Credentials, SignAssertion(i, c) PROVE Inv'
<1>1. PICK n : /\ n = (IF c \in Counting THEN counter[c] + 1 ELSE 0)
               /\ n <= MaxCount /\ counter' = [counter EXCEPT ![c] = n]
               /\ signed' = signed \cup {Says("login", i, c, n)}
  BY DEF SignAssertion
<1>2. /\ ceremony[i].kind = "login" /\ made[c] # NoUser
      /\ UNCHANGED <<now, ceremony, limiter, passkey, session, made, request, phase, seen,
                     barred, came, restarts>>
  BY DEF SignAssertion, rowVars
<1>3. n \in 0 .. MaxCount
  BY <1>1, PasskeysAssumption DEF Inv, PasskeysTypeOK
<1>4. counter' \in [Credentials -> 0 .. MaxCount] /\ Says("login", i, c, n) \in Response
  BY <1>1, <1>3 DEF Says, Response, Inv, PasskeysTypeOK
<1>5. PasskeysTypeOK' /\ request' \in [Requests -> Request \cup {NoUser}]
  BY <1>1, <1>2, <1>4 DEF Inv, PasskeysTypeOK
<1>6. \A s \in signed' : ResponseSound(s)'
  <2>1. \A s \in signed : ResponseSound(s)'
    BY <1>2 DEF ResponseSound, Inv
  <2>2. ResponseSound(Says("login", i, c, n))'
    BY <1>2 DEF ResponseSound, Says
  <2>3. QED
    BY <1>1, <2>1, <2>2
<1>7. /\ \A s \in signed : Lasts(s)
      /\ \A y \in Requests : Rests(y)
  BY <1>2 DEF Lasts, Rests
<1>8. (\A y \in Requests : RequestSound(y))' /\ UsedOnce'
  BY <1>1, <1>7, RestingRequests
<1>9. (\A j \in Ceremonies : CeremonySound(j)') /\ \A d \in Credentials : RowSound(d)'
  BY <1>2 DEF CeremonySound, RowSound, Inv
<1>10. QED
  BY <1>5, <1>6, <1>8, <1>9 DEF Inv

LEMMA RevokePasskeyStep == ASSUME Inv, NEW c \in Credentials, RevokePasskey(c) PROVE Inv'
<1>1. /\ passkey' = [passkey EXCEPT ![c].state = "revoked"] /\ passkey[c].state = "live"
      /\ UNCHANGED <<now, ceremony, limiter, session, counter, signed, made, request, phase,
                     seen, barred, came, restarts>>
  BY DEF RevokePasskey, clientVars
<1>2. /\ passkey' \in [Credentials -> Row]
      /\ \A d \in Credentials :
            /\ passkey'[d].of = passkey[d].of
            /\ \/ passkey'[d].state = passkey[d].state
               \/ passkey[d].state = "live" /\ passkey'[d].state = "revoked"
  BY <1>1 DEF Inv, PasskeysTypeOK, Row
<1>3. PasskeysTypeOK' /\ request' \in [Requests -> Request \cup {NoUser}]
  BY <1>1, <1>2 DEF Inv, PasskeysTypeOK
<1>4. /\ \A s \in signed : Lasts(s)
      /\ \A y \in Requests : Rests(y)
  <2>1. \A s \in signed : s.cred \in Credentials
    BY SignedFacts
  <2>2. QED
    BY <1>1, <1>2, <2>1 DEF Lasts, Rests
<1>5. (\A y \in Requests : RequestSound(y))' /\ UsedOnce'
  BY <1>1, <1>4, RestingRequests
<1>6. \A d \in Credentials : RowSound(d)'
  BY <1>1, <1>2 DEF RowSound, Inv
<1>7. (\A j \in Ceremonies : CeremonySound(j)') /\ \A s \in signed' : ResponseSound(s)'
  BY <1>1 DEF CeremonySound, ResponseSound, Inv
<1>8. QED
  BY <1>3, <1>5, <1>6, <1>7 DEF Inv

LEMMA RestartStep == ASSUME Inv, Restart PROVE Inv'
<1>1. /\ restarts' \in 0 .. MaxRestarts
      /\ UNCHANGED <<now, passkey, session, counter, signed, made, request, seen, barred, came>>
  BY PasskeysAssumption DEF Restart, rowVars, clientVars, Inv, PasskeysTypeOK
<1>2. /\ ceremony' \in [Ceremonies -> Ceremony]
      /\ \A i \in Ceremonies :
            /\ ceremony'[i].kind = ceremony[i].kind /\ ceremony'[i].email = ceremony[i].email
            /\ ~ ceremony'[i].live
  BY DEF Restart, Inv, PasskeysTypeOK, Ceremony
<1>3. phase' \in [Requests -> Phases] /\ \A x \in Requests : Rests(x)
  BY <1>1 DEF Restart, Inv, PasskeysTypeOK, Phases, Rests
<1>4. limiter' \in [Addresses -> [count : 0 .. MaxRequests, since : 0 .. MaxTime]]
  BY PasskeysAssumption DEF Restart
<1>5. PasskeysTypeOK' /\ request' \in [Requests -> Request \cup {NoUser}]
  <2>1. \A x \in Requests : phase'[x] # "idle" => request'[x] \in Request
    BY <1>1 DEF Restart, Inv, PasskeysTypeOK
  <2>2. QED
    BY <1>1, <1>2, <1>3, <1>4, <2>1 DEF Inv, PasskeysTypeOK
<1>6. \A s \in signed : Lasts(s)
  BY <1>1, <1>2, SignedFacts DEF Lasts
<1>7. (\A y \in Requests : RequestSound(y))' /\ UsedOnce'
  BY <1>1, <1>3, <1>6, RestingRequests
<1>8. \A s \in signed' : ResponseSound(s)'
  BY <1>1, <1>6 DEF ResponseSound, Inv, Lasts
<1>9. (\A j \in Ceremonies : CeremonySound(j)') /\ \A d \in Credentials : RowSound(d)'
  BY <1>1, <1>2 DEF CeremonySound, RowSound, Inv
<1>10. QED
  BY <1>5, <1>7, <1>8, <1>9 DEF Inv
-----------------------------------------------------------------------------
(* Requests that arrive, and their handlers *)

\* Request x arrives: it was idle, and nothing it refers to changes.
LEMMA ArrivalStep ==
    ASSUME Inv, NEW x \in Requests, NEW r \in Request, r.said \in signed,
           NEW p \in {"arrived", "limited"}, Arrive(x, r), phase' = [phase EXCEPT ![x] = p],
           limiter' \in [Addresses -> [count : 0 .. MaxRequests, since : 0 .. MaxTime]],
           came' \in [Requests -> 0 .. MaxTime]
    PROVE  Inv'
<1>1. /\ phase[x] = "idle" /\ request' = [request EXCEPT ![x] = r]
      /\ barred' = IF passkey[r.said.cred].state = "revoked" THEN barred \cup {x} ELSE barred
      /\ UNCHANGED <<now, ceremony, passkey, session, counter, signed, made, seen, restarts>>
  BY DEF Arrive, rowVars, clientVars
<1>2. /\ phase' \in [Requests -> Phases] /\ phase'[x] = p
      /\ request' \in [Requests -> Request \cup {NoUser}] /\ request'[x] = r
      /\ barred' \subseteq Requests
      /\ \A y \in Requests \ {x} : Rests(y)
  BY <1>1 DEF Inv, PasskeysTypeOK, Phases, Rests
<1>3. PasskeysTypeOK'
  <2>1. \A y \in Requests : phase'[y] # "idle" => request'[y] \in Request
    BY <1>1, <1>2 DEF Inv, PasskeysTypeOK, Rests
  <2>2. QED
    BY <1>1, <1>2, <2>1 DEF Inv, PasskeysTypeOK
<1>4. \A s \in signed : Lasts(s)
  BY <1>1 DEF Lasts
<1>5. ~ SignedIn(x) /\ x \notin barred
  BY <1>1 DEF Inv, RequestSound
<1>6. RequestSound(x)' /\ ~ Used(x)'
  BY <1>1, <1>2, <1>5 DEF RequestSound, Used, SignedIn
<1>7. \A y \in Requests \ {x} : /\ RequestSound(y)' /\ (Used(y)' => Used(y))
                                 /\ request'[y] = request[y]
  BY <1>1, <1>2, <1>4, RestingRequest DEF Rests
<1>8. UsedOnce'
  BY <1>6, <1>7 DEF Inv, UsedOnce
<1>9. /\ \A j \in Ceremonies : CeremonySound(j)'
      /\ \A s \in signed' : ResponseSound(s)'
      /\ \A d \in Credentials : RowSound(d)'
  BY <1>1 DEF CeremonySound, ResponseSound, RowSound, Inv
<1>10. QED
  BY <1>2, <1>3, <1>6, <1>7, <1>8, <1>9 DEF Inv

LEMMA EntryType ==
    ASSUME PasskeysTypeOK, NEW a \in Addresses
    PROVE  Check(a).entry \in [count : 0 .. MaxRequests, since : 0 .. MaxTime]
<1> DEFINE e == Entry(a)
<1>1. /\ e \in [count : 0 .. MaxRequests, since : 0 .. MaxTime] /\ now \in 0 .. MaxTime
      /\ MaxRequests \in Nat \ {0}
  BY PasskeysAssumption DEF Entry, PasskeysTypeOK
<1> HIDE DEF e
<1>2. CASE now - e.since > Window
  BY <1>1, <1>2 DEF Check, e
<1>3. CASE ~ (now - e.since > Window) /\ e.count >= MaxRequests
  BY <1>1, <1>3 DEF Check, e
<1>4. CASE ~ (now - e.since > Window) /\ ~ (e.count >= MaxRequests)
  <2>1. Check(a).entry = [e EXCEPT !.count = @ + 1]
    BY <1>4 DEF Check, e
  <2>2. e.count + 1 \in 0 .. MaxRequests
    BY <1>1, <1>4
  <2>3. QED
    BY <1>1, <2>1, <2>2
<1>5. QED
  BY <1>2, <1>3, <1>4

LEMMA SendStep ==
    ASSUME Inv, NEW x \in Requests, NEW s \in signed, NEW a \in Addresses,
           SendLogin(x, s, a) \/ \E u \in Users : SendRegistration(x, s, u, a)
    PROVE  Inv'
<1>1. s \in Response
  BY DEF Inv, PasskeysTypeOK
<1>2. CASE SendLogin(x, s, a)
  <2> DEFINE r == [said |-> s, by |-> NoUser, from |-> a]
  <2>1. r \in Request /\ r.said = s
    BY <1>1 DEF Request
  <2>2. limiter' \in [Addresses -> [count : 0 .. MaxRequests, since : 0 .. MaxTime]]
    BY <1>2, EntryType DEF SendLogin, Inv, PasskeysTypeOK
  <2>3. came' \in [Requests -> 0 .. MaxTime]
    BY <1>2 DEF SendLogin, Inv, PasskeysTypeOK
  <2>4. Arrive(x, r)
    BY <1>2 DEF SendLogin
  <2>5. PICK p \in {"arrived", "limited"} : phase' = [phase EXCEPT ![x] = p]
    BY <1>2 DEF SendLogin
  <2> HIDE DEF r
  <2>6. QED
    BY <2>1, <2>2, <2>3, <2>4, <2>5, ArrivalStep
<1>3. ASSUME NEW u \in Users, SendRegistration(x, s, u, a) PROVE Inv'
  <2> DEFINE r == [said |-> s, by |-> u, from |-> a]
  <2>1. r \in Request /\ r.said = s
    BY <1>1 DEF Request
  <2>2. /\ limiter' \in [Addresses -> [count : 0 .. MaxRequests, since : 0 .. MaxTime]]
        /\ came' \in [Requests -> 0 .. MaxTime]
    BY <1>3 DEF SendRegistration, Inv, PasskeysTypeOK
  <2>3. Arrive(x, r) /\ phase' = [phase EXCEPT ![x] = "arrived"]
    BY <1>3 DEF SendRegistration
  <2> HIDE DEF r
  <2>4. QED
    BY <2>1, <2>2, <2>3, ArrivalStep
<1>4. QED
  BY <1>2, <1>3

\* A handler goes on: the frame of all its statements.
LEMMA StepFrame ==
    ASSUME Inv, NEW x \in Requests, NEW from, from # "idle", NEW to \in Phases, to # "idle",
           Step(x, from, to), ceremony' \in [Ceremonies -> Ceremony],
           passkey' \in [Credentials -> Row], session' \in [Requests -> Users \cup {NoUser}],
           seen' \in [Requests -> Users \cup {NoUser}],
           \A y \in Requests \ {x} : session'[y] = session[y] /\ seen'[y] = seen[y]
    PROVE  /\ PasskeysTypeOK' /\ request' \in [Requests -> Request \cup {NoUser}]
           /\ phase[x] = from /\ phase'[x] = to
           /\ UNCHANGED <<signed, made, request, barred>>
           /\ \A y \in Requests \ {x} : Rests(y)
<1>1. /\ phase[x] = from /\ phase' = [phase EXCEPT ![x] = to]
      /\ UNCHANGED <<now, limiter, counter, signed, made, request, barred, came, restarts>>
  BY DEF Step, clientVars
<1>2. /\ phase' \in [Requests -> Phases] /\ phase'[x] = to
      /\ \A y \in Requests \ {x} : phase'[y] = phase[y]
  BY <1>1 DEF Inv, PasskeysTypeOK
<1>3. \A y \in Requests : phase'[y] # "idle" => request'[y] \in Request
  BY <1>1, <1>2 DEF Inv, PasskeysTypeOK
<1>4. PasskeysTypeOK' /\ request' \in [Requests -> Request \cup {NoUser}]
  BY <1>1, <1>2, <1>3 DEF Inv, PasskeysTypeOK
<1>5. \A y \in Requests \ {x} : Rests(y)
  BY <1>1, <1>2 DEF Rests
<1>6. QED
  BY <1>1, <1>2, <1>4, <1>5
LEMMA TakeChallengeStep == ASSUME Inv, NEW x \in Requests, TakeChallenge(x) PROVE Inv'
<1> DEFINE i == request[x].said.id
           to == IF ceremony[i].live /\ Fresh(i) THEN "taken" ELSE "failed"
<1>1. /\ Step(x, "arrived", to) /\ ceremony' = [ceremony EXCEPT ![i].live = FALSE]
      /\ UNCHANGED <<passkey, session, seen>>
  BY DEF TakeChallenge, rowVars
<1>2. to \in Phases /\ to # "idle" /\ phase[x] = "arrived"
  BY <1>1 DEF Phases, Step
<1>3. request[x].said \in signed /\ i \in Ceremonies
  BY <1>2, RequestFacts, SignedFacts
<1>4. /\ ceremony' \in [Ceremonies -> Ceremony] /\ ~ ceremony'[i].live
      /\ \A j \in Ceremonies :
            /\ ceremony'[j].kind = ceremony[j].kind /\ ceremony'[j].email = ceremony[j].email
            /\ ceremony'[j].live => ceremony[j].live
  <2>1. ceremony \in [Ceremonies -> Ceremony]
    BY DEF Inv, PasskeysTypeOK
  <2> HIDE DEF i
  <2>2. QED
    BY <1>1, <1>3, <2>1 DEF Ceremony
<1>5. /\ PasskeysTypeOK' /\ request' \in [Requests -> Request \cup {NoUser}]
      /\ phase'[x] = to /\ UNCHANGED <<signed, made, request, barred>>
      /\ \A y \in Requests \ {x} : Rests(y)
  <2> HIDE DEF to
  <2>1. passkey' \in [Credentials -> Row] /\ session' \in [Requests -> Users \cup {NoUser}]
        /\ seen' \in [Requests -> Users \cup {NoUser}]
    BY <1>1 DEF Inv, PasskeysTypeOK
  <2>2. /\ \A y \in Requests \ {x} : session'[y] = session[y] /\ seen'[y] = seen[y]
        /\ Step(x, "arrived", to) /\ ceremony' \in [Ceremonies -> Ceremony]
    BY <1>1, <1>4
  <2> HIDE DEF i
  <2>3. QED
    BY <1>2, <2>1, <2>2, StepFrame
<1>6. \A s \in signed : Lasts(s)
  BY <1>1, <1>4, <1>5, SignedFacts DEF Lasts
<1>7. RequestSound(x)
  BY DEF Inv
<1>8. RequestSound(x)' /\ (Used(x)' => Used(x) \/ ceremony[i].live)
  BY <1>1, <1>2, <1>3, <1>4, <1>5, <1>6, <1>7
     DEF RequestSound, Used, SignedIn, Earned, Lasts
<1>9. (\A y \in Requests : RequestSound(y))' /\ UsedOnce'
  BY <1>5, <1>6, <1>8, OneRequestMoves
<1>10. /\ \A j \in Ceremonies : CeremonySound(j)'
       /\ \A d \in Credentials : RowSound(d)'
  BY <1>1, <1>4, <1>5 DEF CeremonySound, RowSound, Inv
<1>11. \A s \in signed' : ResponseSound(s)'
  BY <1>5, <1>6 DEF ResponseSound, Inv, Lasts
<1>12. QED
  BY <1>5, <1>9, <1>10, <1>11 DEF Inv

\* The other statements leave the challenges alone.
LEMMA StatementStep ==
    ASSUME Inv, NEW x \in Requests, NEW from \in {"taken", "verified", "counted"},
           NEW to \in {"verified", "counted", "done", "failed"}, Step(x, from, to),
           UNCHANGED ceremony, passkey' \in [Credentials -> Row],
           \A c \in Credentials :
               /\ passkey[c].state # "absent" =>
                     passkey'[c].of = passkey[c].of /\ passkey'[c].state = passkey[c].state
               /\ passkey'[c].state # "absent" /\ passkey[c].state = "absent" =>
                     passkey'[c].of = made[c] /\ made[c] # NoUser,
           session' \in [Requests -> Users \cup {NoUser}],
           seen' \in [Requests -> Users \cup {NoUser}],
           \A y \in Requests \ {x} : session'[y] = session[y] /\ seen'[y] = seen[y],
           LET s == request[x].said IN
           /\ to = "verified" /\ s.op = "register" => ceremony[s.id].email = request[x].by
           /\ to = "counted" => s.op = "login"
           /\ to \in {"verified", "counted"} /\ s.op = "login" => Earned(x, s, seen'[x])
           /\ session'[x] # NoUser => Earned(x, s, session'[x])
    PROVE  Inv'
<1> DEFINE s == request[x].said
<1>1. to \in Phases /\ to # "idle" /\ from # "idle" /\ phase[x] = from
  BY DEF Phases, Step
<1>2. /\ PasskeysTypeOK' /\ request' \in [Requests -> Request \cup {NoUser}]
      /\ phase'[x] = to /\ UNCHANGED <<signed, made, request, barred>>
      /\ \A y \in Requests \ {x} : Rests(y)
  <2>1. ceremony' \in [Ceremonies -> Ceremony]
    BY DEF Inv, PasskeysTypeOK
  <2>2. QED
    BY <1>1, <2>1, StepFrame
<1>3. s \in signed /\ s.cred \in Credentials
  BY <1>1, RequestFacts, SignedFacts
<1>4. \A q \in signed : Lasts(q)
  BY <1>2, SignedFacts DEF Lasts
<1>5. RequestSound(x) /\ Used(x)
  BY <1>1 DEF Inv, Used
<1>6. RequestSound(x)'
  <2>1. \A u : Earned(x, s, u) => Earned(x, s, u)'
    BY <1>2 DEF Earned
  <2>2. x \in barred' => passkey'[s.cred].state = "revoked"
    BY <1>2, <1>3, <1>4, <1>5 DEF RequestSound, Lasts
  <2>3. ~ ceremony'[s.id].live
    BY <1>5 DEF RequestSound
  <2>4. QED
    BY <1>1, <1>2, <1>3, <2>1, <2>2, <2>3 DEF RequestSound, SignedIn, Earned
<1>7. (\A y \in Requests : RequestSound(y))' /\ UsedOnce'
  BY <1>2, <1>4, <1>5, <1>6, OneRequestMoves
<1>8. \A d \in Credentials : RowSound(d)'
  BY <1>2 DEF RowSound, Inv
<1>9. (\A j \in Ceremonies : CeremonySound(j)') /\ \A q \in signed' : ResponseSound(q)'
  BY <1>2 DEF CeremonySound, ResponseSound, Inv
<1>10. QED
  BY <1>2, <1>7, <1>8, <1>9 DEF Inv

LEMMA ExecuteStep == ASSUME Inv, NEW x \in Requests, Execute(x) PROVE Inv'
<1> DEFINE s == request[x].said
<1>1. /\ passkey \in [Credentials -> Row] /\ session \in [Requests -> Users \cup {NoUser}]
      /\ seen \in [Requests -> Users \cup {NoUser}] /\ RequestSound(x)
      /\ \A c \in Credentials : RowSound(c)
  BY DEF Inv, PasskeysTypeOK
<1>2. session[x] # NoUser => Earned(x, s, session[x])
  BY <1>1 DEF RequestSound, SignedIn
<1>3. CASE TakeChallenge(x)
  BY <1>3, TakeChallengeStep
<1>4. CASE CheckRegistration(x)
  <2>1. PICK to \in {"verified", "failed"} :
            /\ Step(x, "taken", to)
            /\ to = "verified" => ceremony[s.id].email = request[x].by
    BY <1>4 DEF CheckRegistration
  <2>2. s.op = "register" /\ UNCHANGED <<ceremony, passkey, session, seen>>
    BY <1>4 DEF CheckRegistration, rowVars
  <2>3. QED
    BY <1>1, <1>2, <2>1, <2>2, StatementStep
<1>5. CASE InsertPasskey(x)
  <2>1. /\ phase[x] = "verified" /\ s.op = "register"
        /\ UNCHANGED <<ceremony, session, seen>>
    BY <1>5 DEF InsertPasskey, Step
  <2>2. /\ request[x] \in Request /\ s \in signed /\ s.cred \in Credentials
        /\ s.count \in 0 .. MaxCount /\ made[s.cred] \in Users
        /\ made[s.cred] = request[x].by
    BY <1>1, <2>1, RequestFacts, SignedFacts DEF RequestSound
  <2>3. /\ passkey' \in [Credentials -> Row]
        /\ \A c \in Credentials :
              \/ passkey'[c] = passkey[c]
              \/ passkey[c] = NoRow /\ passkey'[c].of = made[c] /\ made[c] \in Users
    <3>1. CASE passkey[s.cred] = NoRow
      <4> DEFINE r == [of |-> request[x].by, count |-> s.count, state |-> "live"]
      <4>1. r \in Row /\ r.of = made[s.cred]
        BY <2>2 DEF Row
      <4>2. passkey' = [passkey EXCEPT ![s.cred] = r]
        BY <1>5, <3>1 DEF InsertPasskey
      <4> HIDE DEF r
      <4>3. QED
        BY <1>1, <2>2, <3>1, <4>1, <4>2
    <3>2. CASE passkey[s.cred] # NoRow
      BY <1>1, <1>5, <3>2 DEF InsertPasskey
    <3>3. QED
      BY <3>1, <3>2
  <2>4. \A c \in Credentials :
               /\ passkey[c].state # "absent" =>
                     passkey'[c].of = passkey[c].of /\ passkey'[c].state = passkey[c].state
               /\ passkey'[c].state # "absent" /\ passkey[c].state = "absent" =>
                     passkey'[c].of = made[c] /\ made[c] # NoUser
    BY <2>3, PasskeysAssumption DEF NoRow
  <2>5. PICK to \in {"done", "failed"} : Step(x, "verified", to)
    BY <1>5 DEF InsertPasskey
  <2>6. QED
    BY <1>1, <1>2, <2>1, <2>3, <2>4, <2>5, StatementStep
<1>6. CASE VerifyAssertion(x)
  <2> DEFINE row == passkey[s.cred]
  <2>1. PICK to \in {"verified", "failed"} :
            /\ Step(x, "taken", to)
            /\ to = "verified" =>
                  row.state = "live" /\ ceremony[s.id].email \in {Anyone, row.of}
    BY <1>6 DEF VerifyAssertion
  <2>2. /\ phase[x] = "taken" /\ s.op = "login" /\ UNCHANGED <<ceremony, passkey, session>>
        /\ seen' = [seen EXCEPT ![x] = row.of]
    BY <1>6 DEF VerifyAssertion, Step, rowVars
  <2>3. s \in signed /\ s.cred \in Credentials
    BY <2>2, RequestFacts, SignedFacts
  <2>4. /\ seen' \in [Requests -> Users \cup {NoUser}] /\ seen'[x] = row.of
        /\ \A y \in Requests \ {x} : seen'[y] = seen[y]
    BY <1>1, <2>2, <2>3 DEF Row
  <2>5. to = "verified" => Earned(x, s, seen'[x])
    BY <1>1, <2>1, <2>3, <2>4 DEF RowSound, RequestSound, Earned
  <2>6. QED
    BY <1>1, <1>2, <2>1, <2>2, <2>4, <2>5, StatementStep
<1>7. CASE WriteCounter(x)
  <2>1. /\ Step(x, "verified", "counted") /\ phase[x] = "verified" /\ s.op = "login"
        /\ passkey' = [passkey EXCEPT ![s.cred].count = s.count]
        /\ UNCHANGED <<ceremony, session, seen>>
    BY <1>7 DEF WriteCounter, Step
  <2>2. s \in signed /\ s.cred \in Credentials /\ s.count \in 0 .. MaxCount
    BY <2>1, RequestFacts, SignedFacts
  <2>3. /\ passkey' \in [Credentials -> Row]
        /\ \A c \in Credentials :
               passkey'[c].of = passkey[c].of /\ passkey'[c].state = passkey[c].state
    BY <1>1, <2>1, <2>2 DEF Row
  <2>4. Earned(x, s, seen[x])
    BY <1>1, <2>1 DEF RequestSound
  <2>5. QED
    BY <1>1, <1>2, <2>1, <2>3, <2>4, StatementStep
<1>8. CASE CreateSession(x)
  <2>1. /\ Step(x, "counted", "done") /\ phase[x] = "counted"
        /\ session' = [session EXCEPT ![x] = seen[x]]
        /\ UNCHANGED <<ceremony, passkey, seen>>
    BY <1>8 DEF CreateSession, Step
  <2>2. Earned(x, s, seen[x])
    BY <1>1, <2>1 DEF RequestSound
  <2>3. /\ session' \in [Requests -> Users \cup {NoUser}] /\ session'[x] = seen[x]
        /\ \A y \in Requests \ {x} : session'[y] = session[y]
    BY <1>1, <2>1
  <2>4. QED
    BY <1>1, <2>1, <2>2, <2>3, StatementStep
<1>9. CASE Fail(x)
  <2>1. PICK from \in {"taken", "verified", "counted"} : Step(x, from, "failed")
    BY <1>9 DEF Fail
  <2>2. UNCHANGED <<ceremony, passkey, session, seen>>
    BY <1>9 DEF Fail, rowVars
  <2>3. QED
    BY <1>1, <1>2, <2>1, <2>2, StatementStep
<1>10. QED
  BY <1>3, <1>4, <1>5, <1>6, <1>7, <1>8, <1>9 DEF Execute
-----------------------------------------------------------------------------
(* The theorems *)

LEMMA InitInv == PasskeysInit => Inv
<1> SUFFICES ASSUME PasskeysInit PROVE Inv
  OBVIOUS
<1>1. /\ now \in 0 .. MaxTime /\ restarts \in 0 .. MaxRestarts
      /\ limiter \in [Addresses -> [count : 0 .. MaxRequests, since : 0 .. MaxTime]]
      /\ ceremony \in [Ceremonies -> Ceremony]
      /\ counter \in [Credentials -> 0 .. MaxCount]
      /\ came \in [Requests -> 0 .. MaxTime]
  BY PasskeysAssumption DEF PasskeysInit, Ceremony
<1>2. /\ signed = {} /\ barred = {} /\ made \in [Credentials -> Users \cup {NoUser}]
      /\ session \in [Requests -> Users \cup {NoUser}]
      /\ seen \in [Requests -> Users \cup {NoUser}]
      /\ request \in [Requests -> Request \cup {NoUser}] /\ phase \in [Requests -> Phases]
      /\ \A x \in Requests : phase[x] = "idle" /\ session[x] = NoUser
      /\ \A i \in Ceremonies : ceremony[i].kind = "unused" /\ ~ ceremony[i].live
  BY DEF PasskeysInit, Phases
<1>3. /\ passkey \in [Credentials -> Row]
      /\ \A c \in Credentials : RowSound(c)
  <2>1. NoRow \in Row /\ NoRow.state = "absent"
    BY PasskeysAssumption DEF NoRow, Row
  <2>2. ASSUME NEW c \in Credentials PROVE passkey[c] \in Row /\ RowSound(c)
    <3>1. CASE made[c] = NoUser
      BY <2>1, <3>1 DEF PasskeysInit, RowSound
    <3>2. CASE made[c] # NoUser
      <4>1. passkey[c] = [of |-> made[c], count |-> 0, state |-> "live"]
        BY <3>2 DEF PasskeysInit
      <4>2. QED
        BY <1>2, <3>2, <4>1, PasskeysAssumption DEF Row, RowSound
    <3>3. QED
      BY <3>1, <3>2
  <2>3. passkey = [c \in Credentials |-> passkey[c]]
    BY DEF PasskeysInit
  <2>4. QED
    BY <2>2, <2>3
<1>4. PasskeysTypeOK
  BY <1>1, <1>2, <1>3 DEF PasskeysTypeOK
<1>5. /\ \A x \in Requests : RequestSound(x) /\ ~ Used(x)
      /\ \A i \in Ceremonies : CeremonySound(i)
  BY <1>2 DEF RequestSound, Used, SignedIn, CeremonySound
<1>6. QED
  BY <1>2, <1>3, <1>4, <1>5 DEF Inv, UsedOnce

LEMMA NextInv == ASSUME Inv, [PasskeysNext]_passkeyVars PROVE Inv'
<1>1. CASE Tick
  BY <1>1, TickStep
<1>2. CASE Restart
  BY <1>2, RestartStep
<1>3. ASSUME NEW i \in Ceremonies, NEW u \in Users, RegisterOptions(i, u) PROVE Inv'
  BY <1>3, InsertChallengeStep DEF RegisterOptions
<1>4. ASSUME NEW i \in Ceremonies, NEW e \in Users \cup {Anyone}, LoginOptions(i, e)
      PROVE  Inv'
  BY <1>4, InsertChallengeStep DEF LoginOptions
<1>5. ASSUME NEW i \in Ceremonies, NEW c \in Credentials,
             CreatePasskey(i, c) \/ SignAssertion(i, c)
      PROVE  Inv'
  BY <1>5, CreatePasskeyStep, SignAssertionStep
<1>6. ASSUME NEW x \in Requests, Execute(x) PROVE Inv'
  BY <1>6, ExecuteStep
<1>7. ASSUME NEW x \in Requests, NEW s \in signed, NEW a \in Addresses,
             SendLogin(x, s, a) \/ \E u \in Users : SendRegistration(x, s, u, a)
      PROVE  Inv'
  BY <1>7, SendStep
<1>8. ASSUME NEW c \in Credentials, RevokePasskey(c) PROVE Inv'
  BY <1>8, RevokePasskeyStep
<1>9. CASE UNCHANGED passkeyVars
  BY <1>9 DEF passkeyVars, rowVars, clientVars, Inv, PasskeysTypeOK, CeremonySound,
              ResponseSound, RowSound, RequestSound, UsedOnce, Used, SignedIn, Earned
<1>10. QED
  BY <1>1, <1>2, <1>3, <1>4, <1>5, <1>6, <1>7, <1>8, <1>9 DEF PasskeysNext

LEMMA InitLimiter == PasskeysInit => LimiterInv
<1> SUFFICES ASSUME PasskeysInit PROVE LimiterInv
  OBVIOUS
<1>1. /\ now = 0 /\ \A x \in Requests : phase[x] = "idle" /\ came[x] = 0
      /\ \A a \in Addresses : limiter[a].count = 0 /\ limiter[a].since \in 0 .. now
  BY DEF PasskeysInit
<1>2. ASSUME NEW a \in Addresses PROVE WindowSound(Admitted(a), came, limiter[a], now)
  <2>1. Admitted(a) = {}
    BY <1>1 DEF Admitted
  <2>2. QED
    BY <1>1, <2>1, NobodyAdmitted
<1>3. QED
  BY <1>1, <1>2 DEF LimiterInv

\* A statement of a handler admits nobody and refuses nobody.
LEMMA StatementAdmitsNobody ==
    ASSUME Inv, LimiterInv, NEW x \in Requests, Execute(x) PROVE LimiterInv'
<1>1. PICK from \in Passed, to \in Passed : Step(x, from, to)
  <2>1. CASE TakeChallenge(x)
    BY <2>1 DEF TakeChallenge, Passed
  <2>2. CASE CheckRegistration(x)
    BY <2>2 DEF CheckRegistration, Passed
  <2>3. CASE InsertPasskey(x)
    BY <2>3 DEF InsertPasskey, Passed
  <2>4. CASE VerifyAssertion(x)
    BY <2>4 DEF VerifyAssertion, Passed
  <2>5. CASE WriteCounter(x)
    BY <2>5 DEF WriteCounter, Passed
  <2>6. CASE CreateSession(x)
    BY <2>6 DEF CreateSession, Passed
  <2>7. CASE Fail(x)
    BY <2>7 DEF Fail, Passed
  <2>8. QED
    BY <2>1, <2>2, <2>3, <2>4, <2>5, <2>6, <2>7 DEF Execute
<1>2. /\ phase[x] = from /\ phase' = [phase EXCEPT ![x] = to]
      /\ UNCHANGED <<now, limiter, request, came>>
  BY <1>1 DEF Step
<1>3. /\ phase'[x] = to
      /\ \A y \in Requests \ {x} : phase'[y] = phase[y]
  BY <1>2 DEF Inv, PasskeysTypeOK
<1>4. \A a \in Addresses : Admitted(a)' = Admitted(a)
  BY <1>2, <1>3 DEF Admitted, Passed
<1>5. \A y \in Requests : phase'[y] = "limited" => phase[y] = "limited"
  BY <1>3 DEF Passed
<1>6. now \in Nat
  BY DEF Inv, PasskeysTypeOK
<1>7. QED
  BY <1>2, <1>4, <1>5, <1>6, LimiterUntouched

LEMMA NextLimiter == ASSUME Inv, LimiterInv, [PasskeysNext]_passkeyVars PROVE LimiterInv'
<1>1. now \in Nat /\ PasskeysTypeOK /\ request \in [Requests -> Request \cup {NoUser}]
  BY DEF Inv, PasskeysTypeOK
<1>2. ASSUME UNCHANGED <<limiter, came, phase, request>>, now' \in Nat, now <= now'
      PROVE  LimiterInv'
  <2>1. \A a \in Addresses : Admitted(a)' = Admitted(a)
    BY <1>2 DEF Admitted
  <2>2. QED
    BY <1>1, <1>2, <2>1, LimiterUntouched
<1>3. CASE Tick
  BY <1>1, <1>2, <1>3 DEF Tick
<1>4. ASSUME NEW i \in Ceremonies,
             \/ \E u \in Users : RegisterOptions(i, u)
             \/ \E e \in Users \cup {Anyone} : LoginOptions(i, e)
             \/ \E c \in Credentials : CreatePasskey(i, c) \/ SignAssertion(i, c)
      PROVE  LimiterInv'
  BY <1>1, <1>2, <1>4 DEF RegisterOptions, LoginOptions, InsertChallenge, CreatePasskey,
                          SignAssertion
<1>5. ASSUME NEW c \in Credentials, RevokePasskey(c) PROVE LimiterInv'
  BY <1>1, <1>2, <1>5 DEF RevokePasskey
<1>6. CASE UNCHANGED passkeyVars
  BY <1>1, <1>2, <1>6 DEF passkeyVars
<1>7. ASSUME NEW x \in Requests, Execute(x) PROVE LimiterInv'
  BY <1>7, StatementAdmitsNobody
<1>8. ASSUME NEW x \in Requests, NEW s \in signed, NEW a \in Addresses, SendLogin(x, s, a)
      PROVE  LimiterInv'
  BY <1>1, <1>8, LimiterArrival
<1>9. ASSUME NEW x \in Requests, NEW s \in signed, NEW a \in Addresses, NEW u \in Users,
             SendRegistration(x, s, u, a)
      PROVE  LimiterInv'
  <2>1. /\ phase[x] = "idle" /\ s.op = "register" /\ UNCHANGED <<now, limiter, came>>
        /\ phase' = [phase EXCEPT ![x] = "arrived"]
        /\ request' = [request EXCEPT ![x] = [said |-> s, by |-> u, from |-> a]]
    BY <1>9 DEF SendRegistration, Arrive
  <2>2. /\ phase'[x] = "arrived" /\ request'[x].said.op = "register"
        /\ \A y \in Requests \ {x} : phase'[y] = phase[y] /\ request'[y] = request[y]
    BY <1>1, <2>1 DEF PasskeysTypeOK
  <2>3. \A b \in Addresses : Admitted(b)' = Admitted(b)
    BY <2>1, <2>2 DEF Admitted
  <2>4. \A y \in Requests : phase'[y] = "limited" =>
            phase[y] = "limited" /\ request'[y].from = request[y].from
    BY <2>2
  <2>5. QED
    BY <1>1, <2>1, <2>3, <2>4, LimiterUntouched
<1>10. CASE Restart
  <2>1. /\ now' = now /\ came' = came
        /\ \A x \in Requests : phase'[x] \in {"idle", "over"}
        /\ \A a \in Addresses : limiter'[a].count = 0 /\ limiter'[a].since \in 0 .. now
    BY <1>1, <1>10 DEF Restart
  <2>2. ASSUME NEW a \in Addresses PROVE WindowSound(Admitted(a), came, limiter[a], now)'
    <3>1. Admitted(a)' = {}
      BY <2>1 DEF Admitted
    <3>2. WindowSound({}, came', limiter'[a], now)
      BY <1>1, <2>1, NobodyAdmitted
    <3>3. QED
      BY <2>1, <3>1, <3>2
  <2>3. QED
    BY <2>1, <2>2 DEF LimiterInv
<1>11. QED
  BY <1>3, <1>4, <1>5, <1>6, <1>7, <1>8, <1>9, <1>10 DEF PasskeysNext

LEMMA AlwaysInv == PasskeysSpec => [](Inv /\ LimiterInv)
<1>1. PasskeysInit => Inv /\ LimiterInv
  BY InitInv, InitLimiter
<1>2. Inv /\ LimiterInv /\ [PasskeysNext]_passkeyVars => Inv' /\ LimiterInv'
  BY NextInv, NextLimiter
<1>3. QED
  BY <1>1, <1>2, PTL DEF PasskeysSpec

\* What the server keeps of ceremonies, passkeys and the limiter stays in its
\* domains; in particular no address is counted beyond the budget.
THEOREM PasskeysTypeCorrect == PasskeysSpec => []PasskeysTypeOK
<1>1. Inv /\ LimiterInv => PasskeysTypeOK
  BY DEF Inv
<1>2. QED
  BY <1>1, AlwaysInv, PTL

\* Every session of a passkey was earned, however requests are repeated,
\* interleaved with one another, with revocations and with restarts: a
\* challenge is taken once, by a response of the account that the session is
\* for, and its key was not revoked when the request came.
THEOREM SignInsEarned == PasskeysSpec => []SignInsAreEarned
<1>1. Inv /\ LimiterInv => SignInsAreEarned
  <2> SUFFICES ASSUME Inv, NEW x \in Requests, SignedIn(x)
               PROVE  LET s == request[x].said IN
                      /\ s \in signed /\ made[s.cred] = session[x]
                      /\ ceremony[s.id].email \in {Anyone, session[x]}
                      /\ \A y \in Requests \ {x} : SignedIn(y) => request[y].said.id # s.id
                      /\ x \notin barred
    BY DEF SignInsAreEarned
  <2>1. RequestSound(x) /\ UsedOnce
    BY DEF Inv
  <2>2. \A y \in Requests : SignedIn(y) => Used(y)
    BY DEF Used
  <2>3. QED
    BY <2>1, <2>2 DEF RequestSound, UsedOnce, Earned
<1>2. QED
  BY <1>1, AlwaysInv, PTL

\* The limiter of one process: who is refused has used the whole budget within
\* the window before, and no stretch as long as a window sees more than two
\* budgets, whatever the window, the budget and the times of arrival.
THEOREM BudgetKept == PasskeysSpec => []BudgetIsKept
<1>1. Inv /\ LimiterInv => BudgetIsKept
  <2> SUFFICES ASSUME Inv, LimiterInv PROVE BudgetIsKept
    OBVIOUS
  <2>1. ASSUME NEW x \in Requests, phase[x] = "limited"
        PROVE  Cardinality({y \in Admitted(request[x].from) :
                              came[y] <= came[x] /\ came[x] <= came[y] + Window}) >= MaxRequests
    <3>1. request[x].from \in Addresses
      BY <2>1, RequestFacts
    <3>2. QED
      BY <2>1, <3>1 DEF LimiterInv, Before
  <2>2. \A a \in Addresses : WindowSound(Admitted(a), came, limiter[a], now)
    BY DEF LimiterInv
  <2>3. QED
    BY <2>1, <2>2 DEF BudgetIsKept, WindowSound
<1>2. QED
  BY <1>1, AlwaysInv, PTL

=============================================================================
