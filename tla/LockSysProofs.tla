---------------------------- MODULE LockSysProofs ----------------------------
(***************************************************************************)
(* Proofs about the lock system: for every number of transactions, keys    *)
(* and statements, in every plan, the locks that have been granted exclude *)
(* each other and the implicit locks of the rows, whoever waits is blocked *)
(* by a request that is ahead of it, none wait for each other in a circle  *)
(* once the deadlock check is done, and no bit is lost or left behind when *)
(* a record moves from page to page.                                       *)
(*                                                                         *)
(* The first half is about the functions of the lock table, for any queue; *)
(* the second about the actions, and where the bits of each record are.    *)
(***************************************************************************)
EXTENDS LockSys, FiniteSetTheorems, WellFoundedInduction, TLAPS

-----------------------------------------------------------------------------
(* What is said of a lock table *)

NoPage == 3
Places == [Heap -> 0 .. 3]

\* All bits on a record are on the page that P has for it.
Placed(s, P) ==
    \A i \in DOMAIN s : \A h \in s[i].bits : s[i].type = "REC" /\ s[i].page = P[h]

\* A record request that waits has one bit; on a supremum it is not of the gap type.
OneBit(s) ==
    \A i \in DOMAIN s : s[i].wait /\ s[i].type = "REC" =>
        \E h \in Heap : s[i].bits = {h} /\ (h \in Suprema => s[i].gap = "ORDINARY")

OneWait(s) ==
    \A i, j \in DOMAIN s : s[i].wait /\ s[j].wait /\ s[i].trx = s[j].trx => i = j

\* l locks the record h itself; the infimum stands for a record too.
Holds(l, h) == On(l, h) /\ h \notin Suprema /\ l.gap # "GAP" /\ ~ l.ii

Clash(k, l) ==
    /\ k.trx # l.trx
    /\ ~ Compatible(k.mode, l.mode)
    /\ \/ k.type = "TABLE" /\ l.type = "TABLE"
       \/ \E h \in Heap : Holds(k, h) /\ Holds(l, h)

\* What has been granted clashes with nothing that is ahead of it, not even with
\* a request that waits.
Ordered(s) == \A i, j \in DOMAIN s : i < j /\ ~ s[j].wait => ~ Clash(s[i], s[j])

Blocked(s) == \A i \in DOMAIN s : s[i].wait => HasToWaitInQueue(s, i)

Good(s, P) ==
    /\ s \in Seq(LockStruct)
    /\ Placed(s, P)
    /\ OneBit(s)
    /\ OneWait(s)
    /\ Ordered(s)
    /\ Blocked(s)

\* t has an X lock on h, granted or not.
HasX(s, t, h) == \E i \in DOMAIN s : Holds(s[i], h) /\ s[i].trx = t /\ s[i].mode = "X"

GrantedX(s, t, h) ==
    \E i \in DOMAIN s : Holds(s[i], h) /\ s[i].trx = t /\ s[i].mode = "X" /\ ~ s[i].wait

\* Whoever else has a lock on h waits, and t has one to be waited for.
Owns(s, t, h) ==
    \A i \in DOMAIN s : Holds(s[i], h) /\ s[i].trx # t => s[i].wait /\ GrantedX(s, t, h)

HasLock(s, t) == \E i \in DOMAIN s : s[i].trx = t

\* x waits for a lock that y has, or has asked for earlier.
WaitsOn(s, x, y) ==
    \E i, j \in DOMAIN s : s[i].trx = x /\ s[i].wait /\ s[j].trx = y /\ Blocks(s, j, i)

\* Nobody but t waits for more.
OnlyWaits(s, u, t) == \A x, y : WaitsOn(u, x, y) => WaitsOn(s, x, y) \/ x = t

FewerWaits(s, u) == \A x, y : WaitsOn(u, x, y) => WaitsOn(s, x, y)

\* Nobody gets a lock, or waits, or waits for somebody, who did not before.
NobodyNew(s, u) ==
    /\ \A t : /\ HasLock(u, t) => HasLock(s, t)
              /\ HasWaitLock(u, t) => HasWaitLock(s, t)
    /\ FewerWaits(s, u)

AllStillWait(s, u) == \A t : HasWaitLock(s, t) => HasWaitLock(u, t)

\* Two structs that differ at most in their bits.
Alike(k, l) ==
    /\ k.trx = l.trx /\ k.type = l.type /\ k.mode = l.mode /\ k.gap = l.gap
    /\ k.ii = l.ii /\ k.page = l.page /\ k.wait = l.wait

-----------------------------------------------------------------------------
(* Recursive functions *)

\* A set of numbers that is not empty has a least element.
LEMMA LeastExists ==
    ASSUME NEW T \in SUBSET Nat, T # {}
    PROVE  \E x \in T : \A y \in T : x <= y
<1> DEFINE R == OpToRel(<, Nat)
<1>1. IsWellFoundedOn(R, Nat) BY NatLessThanWellFounded
<1>2. \A x, y \in Nat : ~ (<<y, x>> \in R) => x <= y BY DEF OpToRel
<1> HIDE DEF R
<1>3. PICK x \in T : \A y \in T : ~ (<<y, x>> \in R) BY <1>1, WFMin
<1> QED BY <1>2, <1>3

StepFunctions(S, n) == [1 .. n -> [S -> S]]

\* f goes from a to its last value, by the functions in G.
Iterates(f, S, n, a, G) ==
    f \in [0 .. n -> S] /\ f[0] = a /\ \A i \in 1 .. n : f[i] = G[i][f[i - 1]]

\* A recursion over 0 .. n has a function that meets it.
LEMMA IterationExists ==
    ASSUME NEW S, NEW n \in Nat, NEW a \in S, NEW G \in StepFunctions(S, n)
    PROVE  \E f : Iterates(f, S, n, a, G)
<1> USE DEF StepFunctions
<1> DEFINE Steps(f, m) == f[0] = a /\ \A i \in 1 .. m : f[i] = G[i][f[i - 1]]
           D == {m \in 0 .. n : ~ \E f \in [0 .. m -> S] : Steps(f, m)}
<1>1. D = {}
 <2> SUFFICES ASSUME D # {} PROVE FALSE OBVIOUS
 <2>1. D \in SUBSET Nat OBVIOUS
 <2>2. PICK m \in D : \A y \in D : m <= y
  <3> HIDE DEF D
  <3> QED BY <2>1, LeastExists
 <2>3. m \in 0 .. n /\ ~ \E f \in [0 .. m -> S] : Steps(f, m) OBVIOUS
 <2>4. m # 0
  <3>1. [i \in 0 .. 0 |-> a] \in [0 .. 0 -> S] OBVIOUS
  <3>2. Steps([i \in 0 .. 0 |-> a], 0) OBVIOUS
  <3> QED BY <2>3, <3>1, <3>2
 <2>5. m - 1 \in 0 .. n /\ m - 1 \notin D
  <3>1. m - 1 \in 0 .. n /\ ~ (m <= m - 1) BY <2>3, <2>4
  <3> HIDE DEF D
  <3> QED BY <2>2, <3>1
 <2>6. PICK f \in [0 .. m - 1 -> S] : Steps(f, m - 1) BY <2>5
 <2> DEFINE g == [i \in 0 .. m |-> IF i = m THEN G[m][f[m - 1]] ELSE f[i]]
 <2>7. G[m][f[m - 1]] \in S
  <3>1. m \in 1 .. n /\ m - 1 \in 0 .. m - 1 BY <2>3, <2>4
  <3>2. f[m - 1] \in S BY <3>1
  <3> QED BY <3>1, <3>2
 <2>8. g \in [0 .. m -> S]
  <3>1. \A i \in 0 .. m : i # m => i \in 0 .. m - 1 BY <2>3
  <3> QED BY <3>1, <2>7
 <2>9. Steps(g, m)
  <3>1. g[0] = a BY <2>3, <2>4, <2>6
  <3>2. ASSUME NEW i \in 1 .. m
        PROVE  g[i] = G[i][g[i - 1]]
   <4>1. i - 1 \in 0 .. m /\ i - 1 # m /\ i \in 0 .. m BY <2>3
   <4>2. CASE i = m BY <4>1, <4>2
   <4>3. CASE i # m
    <5>1. i \in 1 .. m - 1 BY <2>3, <4>3
    <5> QED BY <4>1, <4>3, <5>1, <2>6
   <4> QED BY <4>3
  <3> QED BY <3>1, <3>2
 <2> QED BY <2>3, <2>8, <2>9
<1>2. n \in 0 .. n /\ n \notin D BY SMTT(30), <1>1
<1> QED BY <1>2 DEF Iterates

\* What holds at first, and from each value to the next, holds of the last.
LEMMA IterationReaches ==
    ASSUME NEW n \in Nat, NEW f, NEW T,
           f[0] \in T[0],
           \A i \in 1 .. n : f[i - 1] \in T[i - 1] => f[i] \in T[i]
    PROVE  f[n] \in T[n]
<1> DEFINE D == {m \in 0 .. n : f[m] \notin T[m]}
<1> SUFFICES ASSUME D # {} PROVE FALSE OBVIOUS
<1>1. D \in SUBSET Nat OBVIOUS
<1>2. PICK m \in D : \A y \in D : m <= y
 <2> HIDE DEF D
 <2> QED BY <1>1, LeastExists
<1>3. m \in 0 .. n /\ f[m] \notin T[m] /\ m # 0 OBVIOUS
<1>4. m - 1 \in 0 .. n /\ m - 1 \notin D /\ m \in 1 .. n BY <1>2, <1>3
<1> QED BY <1>3, <1>4

-----------------------------------------------------------------------------
(* A lock goes to a queue *)

\* One bit is entered: into a struct that is alike, or in one of its own.
Entered(s, u, l, h) ==
    /\ u \in Seq(LockStruct)
    /\ \E y \in DOMAIN u :
          /\ \A i \in DOMAIN s : i \in DOMAIN u /\ (i # y => u[i] = s[i])
          /\ \A i \in DOMAIN u : i # y => i \in DOMAIN s
          /\ Alike(u[y], l) /\ h \in u[y].bits
          /\ y \in DOMAIN s =>
                /\ ~ l.wait /\ Alike(s[y], l) /\ u[y].bits = s[y].bits \cup {h}
                /\ ~ SomebodyWaitsOn(s, l.page, h)
          /\ y \notin DOMAIN s => u[y] = l /\ \A i \in DOMAIN s : i < y

\* Behind all others the lock l is on h.
LEMMA AppendEnters ==
    ASSUME NEW s \in Seq(LockStruct), NEW l \in LockStruct, NEW h, h \in l.bits
    PROVE  Entered(s, Append(s, l), l, h)
<1> DEFINE u == Append(s, l)
           y == Len(s) + 1
<1>1. /\ u \in Seq(LockStruct) /\ Len(u) = y /\ y \in DOMAIN u /\ u[y] = l
      /\ DOMAIN s = 1 .. Len(s) /\ DOMAIN u = 1 .. y /\ Len(s) \in Nat
      /\ \A i \in DOMAIN s : u[i] = s[i]
  OBVIOUS
<1> HIDE DEF u
<1>2. /\ \A i \in DOMAIN s : i \in DOMAIN u /\ u[i] = s[i] /\ i < y
      /\ \A i \in DOMAIN u : i # y => i \in DOMAIN s
      /\ y \notin DOMAIN s
  BY <1>1
<1>3. Alike(u[y], l) BY <1>1 DEF Alike
<1>4. Entered(s, u, l, h) BY <1>1, <1>2, <1>3 DEF Entered
<1> QED BY <1>4 DEF u

\* lock_rec_find_similar_on_page compares everything but the bitmap.
LEMMA SimilarIsAlike ==
    ASSUME NEW k \in LockStruct, NEW l \in LockStruct
    PROVE  Similar(k, l) <=> Alike(k, l)
<1>1. CASE Similar(k, l) BY <1>1 DEF Similar, Alike, LockStruct
<1>2. CASE Alike(k, l) BY <1>2 DEF Similar, Alike, LockStruct
<1> QED BY <1>1, <1>2

\* Whether a similar struct takes it or not, the lock is in the queue of h after
\* lock_rec_add_to_queue.
LEMMA AddToQueueEnters ==
    ASSUME NEW s \in Seq(LockStruct), NEW l \in LockStruct, NEW h \in Heap, l.bits = {h}
    PROVE  Entered(s, AddToQueue(s, l, h), l, h)
<1>1. CASE ~ (~ l.wait /\ ~ SomebodyWaitsOn(s, l.page, h) /\ \E i \in DOMAIN s : Similar(s[i], l))
  BY <1>1, AppendEnters DEF AddToQueue
<1>2. CASE ~ l.wait /\ ~ SomebodyWaitsOn(s, l.page, h) /\ \E i \in DOMAIN s : Similar(s[i], l)
 <2> DEFINE D == {i \in DOMAIN s : Similar(s[i], l)}
 <2>1. D \in SUBSET Nat /\ D # {} /\ DOMAIN s = 1 .. Len(s) /\ Len(s) \in Nat BY <1>2
 <2>2. PICK y \in D : \A x \in D : y <= x
  <3> HIDE DEF D
  <3> QED BY <2>1, LeastExists
 <2>3. y \in DOMAIN s /\ Similar(s[y], l) /\ \A x \in DOMAIN s : Similar(s[x], l) => y <= x BY <2>2
 <2> HIDE DEF D
 <2>4. FirstSimilar(s, y, l)
  <3>1. \A j \in 1 .. y - 1 : j \in DOMAIN s /\ ~ (y <= j) BY <2>1, <2>3
  <3> QED BY <2>3, <3>1 DEF FirstSimilar
 <2>5. ASSUME NEW i \in DOMAIN s, i # y
       PROVE  ~ FirstSimilar(s, i, l)
  <3> SUFFICES ASSUME Similar(s[i], l), \A j \in 1 .. i - 1 : ~ Similar(s[j], l)
               PROVE  FALSE
    BY DEF FirstSimilar
  <3>1. y <= i /\ y \in 1 .. i - 1 BY <2>1, <2>3, <2>5
  <3> QED BY <2>3, <3>1
 <2> DEFINE u == AddToQueue(s, l, h)
            w == [s[y] EXCEPT !.bits = @ \cup {h}]
 <2>6. u = [i \in DOMAIN s |-> IF FirstSimilar(s, i, l)
                               THEN [s[i] EXCEPT !.bits = @ \cup {h}] ELSE s[i]]
   BY <1>2 DEF AddToQueue
 <2>7. DOMAIN u = DOMAIN s /\ u[y] = w /\ \A i \in DOMAIN s : i # y => u[i] = s[i]
   BY <2>3, <2>4, <2>5, <2>6
 <2>8. s[y] \in LockStruct BY <2>3
 <2>9. Alike(s[y], l) BY <2>3, <2>8, SimilarIsAlike
 <2>10. w \in LockStruct /\ Alike(w, l) /\ w.bits = s[y].bits \cup {h}
   BY <2>8, <2>9 DEF LockStruct, Alike
 <2> HIDE DEF u, w
 <2>11. u \in Seq(LockStruct)
  <3>1. \A i \in DOMAIN s : u[i] \in LockStruct BY <2>7, <2>10
  <3>2. u = [i \in 1 .. Len(s) |-> u[i]]
   <4>1. u = [i \in DOMAIN s |-> u[i]] BY <2>6, <2>7
   <4> QED BY <2>1, <4>1
  <3> QED BY <2>1, <3>1, <3>2
 <2>12. Entered(s, u, l, h) BY <1>2, <2>3, <2>7, <2>9, <2>10, <2>11 DEF Entered
 <2> QED BY <2>12 DEF u
<1> QED BY <1>1, <1>2

\* lock_rec_create.
LEMMA NewRecLockType ==
    ASSUME NEW t \in Trxs, NEW m \in Modes, NEW g \in Gaps, NEW i \in BOOLEAN, NEW p \in Pages,
           NEW h \in Heap, NEW w \in BOOLEAN
    PROVE  /\ NewRecLock(t, m, g, i, p, h, w) \in LockStruct
           /\ GapOn(h, g) \in Gaps
  BY DEF NewRecLock, LockStruct, GapOn, Gaps

-----------------------------------------------------------------------------
(* Gap locks are inherited *)

\* The structs that were there have at most the heir's bit more, and all new bits
\* are granted gap locks of the donors' transactions; nobody waits where a struct has
\* got a bit.
Inherited(s, u, donors, p, heir) ==
    /\ u \in Seq(LockStruct)
    /\ \A x \in DOMAIN s : /\ x \in DOMAIN u /\ Alike(u[x], s[x])
                           /\ s[x].bits \subseteq u[x].bits
                           /\ u[x].bits \subseteq s[x].bits \cup {heir}
    /\ \A x \in DOMAIN u : x \notin DOMAIN s =>
          u[x].bits = {heir} /\ \A i \in DOMAIN s : i < x
    /\ \A x \in DOMAIN u : x \notin DOMAIN s \/ u[x].bits # s[x].bits =>
          /\ u[x].type = "REC" /\ u[x].page = p /\ u[x].gap = GapOn(heir, "GAP")
          /\ ~ u[x].ii /\ ~ u[x].wait
          /\ \E d \in donors : u[x].trx = s[d].trx
    /\ \A x \in DOMAIN s : u[x].bits # s[x].bits => ~ SomebodyWaitsOn(s, p, heir)

\* The fields are compared one by one.
LEMMA AlikeIsTransitive ==
    ASSUME NEW k, NEW l, NEW m, Alike(k, l), Alike(l, m)
    PROVE  Alike(k, m)
  BY DEF Alike

\* One more granted gap lock on the heir.
LEMMA InheritedByOne ==
    ASSUME NEW s \in Seq(LockStruct), NEW donors, NEW p, NEW heir \in Heap,
           NEW v, Inherited(s, v, donors, p, heir),
           NEW l \in LockStruct, l.bits = {heir}, l.type = "REC", l.page = p,
           l.gap = GapOn(heir, "GAP"), ~ l.ii, ~ l.wait, \E d \in donors : l.trx = s[d].trx,
           NEW u, Entered(v, u, l, heir)
    PROVE  Inherited(s, u, donors, p, heir)
<1>1. PICK y \in DOMAIN u :
          /\ \A i \in DOMAIN v : i \in DOMAIN u /\ (i # y => u[i] = v[i])
          /\ \A i \in DOMAIN u : i # y => i \in DOMAIN v
          /\ Alike(u[y], l) /\ heir \in u[y].bits
          /\ y \in DOMAIN v => /\ Alike(v[y], l) /\ u[y].bits = v[y].bits \cup {heir}
                             /\ ~ SomebodyWaitsOn(v, p, heir)
          /\ y \notin DOMAIN v => u[y] = l /\ \A i \in DOMAIN v : i < y
  BY DEF Entered
<1>2. u \in Seq(LockStruct) /\ v \in Seq(LockStruct) BY DEF Entered, Inherited
<1>3. /\ u[y].type = "REC" /\ u[y].page = p /\ u[y].gap = GapOn(heir, "GAP")
      /\ ~ u[y].ii /\ ~ u[y].wait /\ \E d \in donors : u[y].trx = s[d].trx
  BY <1>1 DEF Alike
<1>4. ASSUME NEW x \in DOMAIN s
      PROVE  /\ x \in DOMAIN u /\ Alike(u[x], s[x])
             /\ s[x].bits \subseteq u[x].bits /\ u[x].bits \subseteq s[x].bits \cup {heir}
 <2>1. /\ x \in DOMAIN v /\ Alike(v[x], s[x]) /\ x \in DOMAIN u
       /\ s[x].bits \subseteq v[x].bits /\ v[x].bits \subseteq s[x].bits \cup {heir}
   BY <1>1 DEF Inherited
 <2>2. CASE x # y BY <1>1, <2>1, <2>2
 <2>3. CASE x = y
  <3>1. Alike(u[x], l) /\ Alike(v[x], l) /\ u[x].bits = v[x].bits \cup {heir} BY <1>1, <2>1, <2>3
  <3>2. Alike(u[x], s[x]) BY <2>1, <3>1 DEF Alike
  <3> QED BY <2>1, <3>1, <3>2
 <2> QED BY <2>2, <2>3
<1>5. ASSUME NEW x \in DOMAIN u, x \notin DOMAIN s
      PROVE  u[x].bits = {heir} /\ \A i \in DOMAIN s : i < x
 <2>1. CASE x \in DOMAIN v
  <3>1. v[x].bits = {heir} /\ \A i \in DOMAIN s : i < x BY <1>5, <2>1 DEF Inherited
  <3>2. u[x].bits = v[x].bits \/ u[x].bits = v[x].bits \cup {heir} BY <1>1, <2>1
  <3> QED BY <3>1, <3>2
 <2>2. CASE x \notin DOMAIN v
  <3>1. u[x] = l /\ \A i \in DOMAIN v : i < x BY <1>1, <2>2
  <3> QED BY <3>1 DEF Inherited
 <2> QED BY <2>1, <2>2
<1>6. ASSUME NEW x \in DOMAIN u, x \notin DOMAIN s \/ u[x].bits # s[x].bits
      PROVE  /\ u[x].type = "REC" /\ u[x].page = p /\ u[x].gap = GapOn(heir, "GAP")
             /\ ~ u[x].ii /\ ~ u[x].wait /\ \E d \in donors : u[x].trx = s[d].trx
 <2>1. CASE x = y BY <1>3, <2>1
 <2>2. CASE x # y
  <3>1. x \in DOMAIN v /\ u[x] = v[x] BY <1>1, <2>2
  <3> QED BY <1>6, <3>1 DEF Inherited
 <2> QED BY <2>1, <2>2
<1>7. ASSUME NEW x \in DOMAIN s, u[x].bits # s[x].bits, SomebodyWaitsOn(s, p, heir)
      PROVE  FALSE
 <2>1. x \in DOMAIN v /\ v[x].bits = s[x].bits BY <1>7 DEF Inherited
 <2>2. ~ SomebodyWaitsOn(v, p, heir) BY <1>1, <1>7, <2>1
 <2>3. PICK i \in DOMAIN s : On(s[i], heir) /\ s[i].page = p /\ s[i].wait
   BY <1>7 DEF SomebodyWaitsOn
 <2>4. i \in DOMAIN v /\ Alike(v[i], s[i]) /\ s[i].bits \subseteq v[i].bits BY DEF Inherited
 <2> QED BY <2>2, <2>3, <2>4 DEF SomebodyWaitsOn, On, Alike
<1> QED BY <1>2, <1>4, <1>5, <1>6, <1>7 DEF Inherited

\* What lock_rec_add_to_queue is called with is granted, and ends in the queue.
LEMMA RecAddToQueueEnters ==
    ASSUME NEW s \in Seq(LockStruct), NEW t \in Trxs, NEW m \in Modes, NEW g \in Gaps,
           NEW p \in Pages, NEW h \in Heap
    PROVE  \E l \in LockStruct :
              /\ l.bits = {h} /\ l.type = "REC" /\ l.page = p /\ l.trx = t
              /\ l.mode = m /\ l.gap = GapOn(h, g) /\ ~ l.ii /\ ~ l.wait
              /\ Entered(s, RecAddToQueue(s, t, m, g, p, h), l, h)
<1> DEFINE l == NewRecLock(t, m, g, FALSE, p, h, FALSE)
<1>1. l \in LockStruct BY NewRecLockType
<1>2. /\ l.bits = {h} /\ l.type = "REC" /\ l.page = p /\ l.trx = t
      /\ l.mode = m /\ l.gap = GapOn(h, g) /\ ~ l.ii /\ ~ l.wait
  BY DEF NewRecLock
<1>3. RecAddToQueue(s, t, m, g, p, h) = AddToQueue(s, l, h) BY DEF RecAddToQueue
<1> HIDE DEF l
<1>4. Entered(s, AddToQueue(s, l, h), l, h) BY <1>1, <1>2, AddToQueueEnters
<1> QED BY <1>1, <1>2, <1>3, <1>4

\* lock_rec_inherit_to_gap
LEMMA InheritToGapInherits ==
    ASSUME NEW s \in Seq(LockStruct), NEW donors, donors \subseteq DOMAIN s,
           NEW p \in Pages, NEW heir \in Heap
    PROVE  Inherited(s, InheritToGap(s, donors, p, heir), donors, p, heir)
<1> DEFINE n == Len(s)
           S == Seq(LockStruct)
           Step(i, v) == RecAddToQueue(v, s[i].trx, s[i].mode, "GAP", p, heir)
           G == [i \in 1 .. n |-> [v \in S |-> IF i \in donors THEN Step(i, v) ELSE v]]
<1>1. n \in Nat /\ DOMAIN s = 1 .. n OBVIOUS
<1>3. ASSUME NEW i \in donors, NEW v \in S
      PROVE  /\ Step(i, v) \in S
             /\ Inherited(s, v, donors, p, heir) => Inherited(s, Step(i, v), donors, p, heir)
 <2>1. s[i] \in LockStruct OBVIOUS
 <2>2. s[i].trx \in Trxs /\ s[i].mode \in Modes /\ "GAP" \in Gaps BY <2>1 DEF LockStruct, Gaps
 <2>3. PICK l \in LockStruct :
          /\ l.bits = {heir} /\ l.type = "REC" /\ l.page = p /\ l.trx = s[i].trx
          /\ l.gap = GapOn(heir, "GAP") /\ ~ l.ii /\ ~ l.wait
          /\ Entered(v, Step(i, v), l, heir)
   BY <2>2, RecAddToQueueEnters
 <2> HIDE DEF Step
 <2>4. Step(i, v) \in S BY <2>3 DEF Entered
 <2>5. \E d \in donors : l.trx = s[d].trx BY <2>3
 <2> QED BY <2>3, <2>4, <2>5, InheritedByOne
<1> HIDE DEF Step
<1>4. G \in StepFunctions(S, n) BY <1>3 DEF StepFunctions
<1>5. s \in S OBVIOUS
<1>6. \E f : Iterates(f, S, n, s, G)
 <2> HIDE DEF G, S, n
 <2> QED BY <1>1, <1>4, <1>5, IterationExists
<1>7. PICK f : f \in [0 .. n -> S] /\ f[0] = s /\ \A i \in 1 .. n : f[i] = G[i][f[i - 1]]
  BY <1>6 DEF Iterates
<1>8. f = [i \in 0 .. Len(s) |->
              IF i = 0 THEN s
              ELSE IF i \in donors
                   THEN RecAddToQueue(f[i - 1], s[i].trx, s[i].mode, "GAP", p, heir)
                   ELSE f[i - 1]]
 <2>1. ASSUME NEW i \in 0 .. n
       PROVE  f[i] = IF i = 0 THEN s ELSE IF i \in donors THEN Step(i, f[i - 1]) ELSE f[i - 1]
  <3>1. CASE i = 0 BY <1>7, <3>1
  <3>2. CASE i # 0
   <4>1. i \in 1 .. n /\ i - 1 \in 0 .. n BY <1>1, <3>2
   <4>2. f[i - 1] \in S /\ f[i] = G[i][f[i - 1]] BY <1>7, <4>1
   <4> QED BY <3>2, <4>1, <4>2
  <3> QED BY <3>1, <3>2
 <2>2. f = [i \in 0 .. n |-> f[i]] BY <1>7
 <2> QED BY <2>1, <2>2 DEF Step
<1> DEFINE after[i \in 0 .. Len(s)] ==
               IF i = 0 THEN s
               ELSE IF i \in donors
                    THEN RecAddToQueue(after[i - 1], s[i].trx, s[i].mode, "GAP", p, heir)
                    ELSE after[i - 1]
<1>2. InheritToGap(s, donors, p, heir) = after[n] BY DEF InheritToGap
<1>9. after = [i \in 0 .. Len(s) |->
                  IF i = 0 THEN s
                  ELSE IF i \in donors
                       THEN RecAddToQueue(after[i - 1], s[i].trx, s[i].mode, "GAP", p, heir)
                       ELSE after[i - 1]]
  BY <1>8 DEF after
<1> HIDE DEF after, G
<1>10. after[0] = s BY <1>1, <1>9
<1>11. ASSUME NEW i \in 1 .. n
       PROVE  after[i] = IF i \in donors THEN Step(i, after[i - 1]) ELSE after[i - 1]
 <2>1. i \in 0 .. Len(s) /\ i # 0 BY <1>1
 <2> QED BY <1>9, <2>1 DEF Step
<1>12. Inherited(s, s, donors, p, heir) BY <1>1 DEF Inherited, Alike
<1> DEFINE T == [i \in 0 .. n |-> {v \in S : Inherited(s, v, donors, p, heir)}]
<1>13. after[0] \in T[0]
 <2>1. 0 \in 0 .. n BY <1>1
 <2> QED BY <1>10, <1>12, <2>1
<1>14. \A i \in 1 .. n : after[i - 1] \in T[i - 1] => after[i] \in T[i]
 <2> SUFFICES ASSUME NEW i \in 1 .. n, after[i - 1] \in T[i - 1] PROVE after[i] \in T[i] OBVIOUS
 <2>1. i \in 0 .. n /\ i - 1 \in 0 .. n BY <1>1
 <2>2. after[i - 1] \in S /\ Inherited(s, after[i - 1], donors, p, heir) BY <2>1
 <2>3. after[i] \in S /\ Inherited(s, after[i], donors, p, heir) BY <1>3, <1>11, <2>2
 <2> QED BY <2>1, <2>3
<1>15. after[n] \in T[n]
 <2> HIDE DEF T
 <2> QED BY <1>1, <1>13, <1>14, IterationReaches
<1>16. n \in 0 .. n BY <1>1
<1> QED BY <1>2, <1>15, <1>16

\* The same request: alike but for the page and the wait.
SameRequest(k, l) ==
    k.trx = l.trx /\ k.type = l.type /\ k.mode = l.mode /\ k.gap = l.gap /\ k.ii = l.ii

\* What keeps a waiter blocked: what it waits for is still ahead of it.
LEMMA BlocksStays ==
    ASSUME NEW s, NEW u, NEW i, NEW j, Blocks(s, j, i), NEW x \in Int, NEW y \in Int, y < x,
           SameRequest(u[x], s[i]), u[x].bits = s[i].bits,
           SameRequest(u[y], s[j]), s[i].bits \cap s[j].bits \subseteq u[y].bits
    PROVE  Blocks(u, y, x)
<1>1. SameQueue(u[x], u[y]) BY DEF Blocks, SameQueue, SameRequest
<1>2. LockHasToWait(u[x], u[y]) BY DEF Blocks, LockHasToWait, RecHasToWait, SameRequest
<1> QED BY <1>1, <1>2 DEF Blocks

\* A struct locks a record by its bit, and by fields that are alike.
LEMMA AlikeHolds ==
    ASSUME NEW k, NEW l, Alike(k, l), NEW h, h \in k.bits <=> h \in l.bits
    PROVE  Holds(k, h) <=> Holds(l, h)
  BY DEF Holds, On, Alike

\* An inherited lock is on the gap: it locks no record.
LEMMA InheritedHolds ==
    ASSUME NEW s, NEW u, NEW donors, NEW p, NEW heir, Inherited(s, u, donors, p, heir),
           NEW x \in DOMAIN u, NEW h
    PROVE  Holds(u[x], h) => x \in DOMAIN s /\ Holds(s[x], h)
<1>1. CASE x \notin DOMAIN s \/ u[x].bits # s[x].bits
 <2>1. u[x].gap = GapOn(heir, "GAP") BY <1>1 DEF Inherited
 <2>2. CASE h # heir
  <3>1. Holds(u[x], h) => h \in u[x].bits BY DEF Holds, On
  <3>2. x \notin DOMAIN s => ~ Holds(u[x], h) BY <2>2, <3>1 DEF Inherited
  <3>3. ASSUME x \in DOMAIN s
        PROVE  Alike(u[x], s[x]) /\ (h \in u[x].bits <=> h \in s[x].bits)
    BY <2>2, <3>3 DEF Inherited
  <3> QED BY <3>2, <3>3, AlikeHolds
 <2>3. CASE h = heir BY <2>1, <2>3 DEF Holds, GapOn
 <2> QED BY <2>2, <2>3
<1>2. CASE x \in DOMAIN s /\ u[x].bits = s[x].bits
 <2>1. Alike(u[x], s[x]) BY <1>2 DEF Inherited
 <2> QED BY <1>2, <2>1, AlikeHolds
<1> QED BY <1>1, <1>2

\* The lock table is in order after gap locks have been inherited, and nobody waits for
\* less or more.
LEMMA InheritKeeps ==
    ASSUME NEW s, NEW P \in Places, Good(s, P), NEW donors, donors \subseteq DOMAIN s,
           NEW p \in Pages, NEW heir \in Heap, P[heir] \in {NoPage, p},
           NEW u, Inherited(s, u, donors, p, heir),
           NEW Q, Q = [P EXCEPT ![heir] = p]
    PROVE  /\ Q \in Places /\ Good(u, Q)
           /\ NobodyNew(s, u) /\ AllStillWait(s, u)
           /\ \A t, h : Owns(s, t, h) => Owns(u, t, h)
<1>1. /\ s \in Seq(LockStruct) /\ u \in Seq(LockStruct)
      /\ DOMAIN s \subseteq DOMAIN u /\ DOMAIN s \subseteq Int /\ DOMAIN u \subseteq Int
  BY DEF Good, Inherited
<1>2. Q \in Places /\ Q[heir] = p /\ \A h \in Heap : h # heir => Q[h] = P[h] BY DEF Places, Pages
<1>3. ASSUME NEW x \in DOMAIN u
      PROVE  /\ u[x] \in LockStruct /\ u[x].bits \subseteq Heap /\ u[x].wait \in BOOLEAN
             /\ x \in DOMAIN s => s[x] \in LockStruct
 <2>1. u[x] \in LockStruct /\ (x \in DOMAIN s => s[x] \in LockStruct) BY <1>1
 <2> QED BY <2>1 DEF LockStruct
<1>4. ASSUME NEW x \in DOMAIN u, u[x].wait
      PROVE  x \in DOMAIN s /\ s[x].wait /\ u[x].bits = s[x].bits /\ Alike(u[x], s[x])
  BY <1>4 DEF Inherited, Alike
<1>5. ASSUME NEW x \in DOMAIN s, s[x].wait
      PROVE  x \in DOMAIN u /\ u[x].wait
  BY <1>5 DEF Inherited, Alike
<1>6. ASSUME NEW x \in DOMAIN s
      PROVE  x \in DOMAIN u /\ Alike(u[x], s[x]) /\ s[x].bits \subseteq u[x].bits
  BY <1>6 DEF Inherited
<1>7. Placed(u, Q)
 <2> SUFFICES ASSUME NEW x \in DOMAIN u, NEW h \in u[x].bits
              PROVE  u[x].type = "REC" /\ u[x].page = Q[h]
   BY DEF Placed
 <2>1. h \in Heap BY <1>3
 <2>2. CASE x \notin DOMAIN s
  <3>1. u[x].bits = {heir} /\ u[x].type = "REC" /\ u[x].page = p BY <2>2 DEF Inherited
  <3> QED BY <1>2, <3>1
 <2>3. CASE x \in DOMAIN s /\ h # heir
  <3>1. h \in s[x].bits /\ Alike(u[x], s[x]) BY <2>3 DEF Inherited
  <3>2. s[x].type = "REC" /\ s[x].page = P[h] BY <2>3, <3>1 DEF Good, Placed
  <3> QED BY <1>2, <2>1, <2>3, <3>1, <3>2 DEF Alike
 <2>4. CASE x \in DOMAIN s /\ h = heir /\ u[x].bits # s[x].bits BY <1>2, <2>4 DEF Inherited
 <2>5. CASE x \in DOMAIN s /\ h = heir /\ u[x].bits = s[x].bits
  <3>1. s[x].type = "REC" /\ s[x].page = P[heir] /\ s[x] \in LockStruct
    BY <1>3, <2>5 DEF Good, Placed
  <3>2. s[x].page # NoPage BY <3>1 DEF LockStruct, Pages, NoPage
  <3>3. s[x].page = p BY <3>1, <3>2
  <3> QED BY <1>2, <1>6, <2>5, <3>1, <3>3 DEF Alike
 <2> QED BY <2>2, <2>3, <2>4, <2>5
<1>8. OneBit(u) BY <1>4 DEF Good, OneBit, Alike
<1>9. OneWait(u)
 <2> SUFFICES ASSUME NEW x \in DOMAIN u, NEW y \in DOMAIN u, u[x].wait, u[y].wait,
                     u[x].trx = u[y].trx
              PROVE  x = y
   BY DEF OneWait
 <2>1. /\ x \in DOMAIN s /\ s[x].wait /\ s[x].trx = u[x].trx
       /\ y \in DOMAIN s /\ s[y].wait /\ s[y].trx = u[y].trx
   BY <1>4 DEF Alike
 <2> QED BY <2>1 DEF Good, OneWait
<1>10. Ordered(u)
 <2> SUFFICES ASSUME NEW x \in DOMAIN u, NEW y \in DOMAIN u, x < y, ~ u[y].wait,
                     Clash(u[x], u[y])
              PROVE  FALSE
   BY DEF Ordered
 <2>1. CASE x \in DOMAIN s /\ y \in DOMAIN s
  <3>1. Alike(u[x], s[x]) /\ Alike(u[y], s[y]) BY <1>6, <2>1
  <3>2. Clash(s[x], s[y])
   <4>1. \A h : Holds(u[x], h) /\ Holds(u[y], h) => Holds(s[x], h) /\ Holds(s[y], h)
     BY InheritedHolds
   <4> QED BY <3>1, <4>1 DEF Clash, Alike
  <3>3. ~ s[y].wait BY <3>1 DEF Alike
  <3> QED BY <2>1, <3>2, <3>3 DEF Good, Ordered
 <2>2. CASE x \notin DOMAIN s \/ y \notin DOMAIN s
  <3>1. \A h : ~ (Holds(u[x], h) /\ Holds(u[y], h)) BY <2>2, InheritedHolds
  <3>2. ~ (u[x].type = "TABLE" /\ u[y].type = "TABLE") BY <2>2 DEF Inherited
  <3> QED BY <3>1, <3>2 DEF Clash
 <2> QED BY <2>1, <2>2
<1>11. Blocked(u)
 <2> SUFFICES ASSUME NEW x \in DOMAIN u, u[x].wait
              PROVE  HasToWaitInQueue(u, x)
   BY DEF Blocked
 <2>1. x \in DOMAIN s /\ s[x].wait /\ u[x].bits = s[x].bits /\ Alike(u[x], s[x]) BY <1>4
 <2>2. PICK y \in DOMAIN s : Blocks(s, y, x) BY <2>1 DEF Good, Blocked, HasToWaitInQueue
 <2>3. y < x /\ x \in Int /\ y \in Int BY <1>1, <2>1, <2>2 DEF Blocks
 <2>4. y \in DOMAIN u /\ Alike(u[y], s[y]) /\ s[y].bits \subseteq u[y].bits BY <1>6
 <2>5. s[x].bits \cap s[y].bits \subseteq u[y].bits BY <2>4
 <2>6. SameRequest(u[x], s[x]) /\ SameRequest(u[y], s[y]) BY <2>1, <2>4 DEF Alike, SameRequest
 <2>7. Blocks(u, y, x) BY <2>1, <2>2, <2>3, <2>5, <2>6, BlocksStays
 <2> QED BY <2>4, <2>7 DEF HasToWaitInQueue
<1>12. Good(u, Q) BY <1>1, <1>7, <1>8, <1>9, <1>10, <1>11 DEF Good
<1>13. NobodyNew(s, u)
 <2>1. ASSUME NEW x \in DOMAIN u
       PROVE  \E i \in DOMAIN s : s[i].trx = u[x].trx
  <3>1. CASE x \in DOMAIN s BY <1>6, <3>1 DEF Alike
  <3>2. CASE x \notin DOMAIN s BY <3>2 DEF Inherited
  <3> QED BY <3>1, <3>2
 <2>2. \A t : HasLock(u, t) => HasLock(s, t) BY <2>1 DEF HasLock
 <2>3. \A t : HasWaitLock(u, t) => HasWaitLock(s, t) BY <1>4 DEF HasWaitLock, Alike
 <2>4. ASSUME NEW x, NEW y, WaitsOn(u, x, y)
       PROVE  WaitsOn(s, x, y)
  <3>1. PICK i, j \in DOMAIN u : u[i].trx = x /\ u[i].wait /\ u[j].trx = y /\ Blocks(u, j, i)
    BY <2>4 DEF WaitsOn
  <3>2. i \in DOMAIN s /\ s[i].wait /\ u[i].bits = s[i].bits /\ Alike(u[i], s[i]) BY <1>4, <3>1
  <3>3. j < i /\ i \in Int /\ j \in Int BY <1>1, <3>1 DEF Blocks
  <3>4. j \in DOMAIN s
   <4>1. j \notin DOMAIN s => i < j BY <3>2 DEF Inherited
   <4> QED BY <3>3, <4>1
  <3>5. heir \in s[i].bits => SomebodyWaitsOn(s, p, heir)
   <4>1. s[i] \in LockStruct BY <1>3, <3>2
   <4>2. heir \in s[i].bits => s[i].type = "REC" /\ s[i].page = P[heir]
     BY <3>2 DEF Good, Placed
   <4> QED BY <3>2, <4>1, <4>2 DEF SomebodyWaitsOn, On, LockStruct, Pages, NoPage
  <3>6. u[i].bits \cap u[j].bits \subseteq s[j].bits BY <3>2, <3>4, <3>5 DEF Inherited
  <3>7. Alike(u[j], s[j]) BY <1>6, <3>4
  <3>8. SameRequest(s[i], u[i]) /\ SameRequest(s[j], u[j]) BY <3>2, <3>7 DEF Alike, SameRequest
  <3>9. Blocks(s, j, i) BY <3>1, <3>2, <3>3, <3>6, <3>8, BlocksStays
  <3> QED BY <3>1, <3>2, <3>4, <3>7, <3>9 DEF WaitsOn, Alike
 <2> QED BY <2>2, <2>3, <2>4 DEF NobodyNew, FewerWaits
<1>14. AllStillWait(s, u)
 <2>1. \A x \in DOMAIN s : s[x].wait => x \in DOMAIN u /\ u[x].wait /\ u[x].trx = s[x].trx
   BY <1>5, <1>6 DEF Alike
 <2> QED BY <2>1 DEF AllStillWait, HasWaitLock
<1>15. ASSUME NEW t, NEW h, Owns(s, t, h)
       PROVE  Owns(u, t, h)
 <2> SUFFICES ASSUME NEW x \in DOMAIN u, Holds(u[x], h), u[x].trx # t
              PROVE  u[x].wait /\ GrantedX(u, t, h)
   BY DEF Owns
 <2>1. x \in DOMAIN s /\ Holds(s[x], h) /\ s[x].trx # t BY <1>6, InheritedHolds DEF Alike
 <2>2. s[x].wait /\ GrantedX(s, t, h) BY <1>15, <2>1 DEF Owns
 <2>3. PICK y \in DOMAIN s : Holds(s[y], h) /\ s[y].trx = t /\ s[y].mode = "X" /\ ~ s[y].wait
   BY <2>2 DEF GrantedX
 <2>4. /\ y \in DOMAIN u /\ Alike(u[y], s[y]) /\ s[y].bits \subseteq u[y].bits BY <1>6
 <2>5. Holds(u[y], h) BY <2>3, <2>4 DEF Holds, On, Alike
 <2>6. GrantedX(u, t, h) BY <2>3, <2>4, <2>5 DEF GrantedX, Alike
 <2> QED BY <1>5, <2>1, <2>2, <2>6
<1> QED BY <1>2, <1>12, <1>13, <1>14, <1>15

-----------------------------------------------------------------------------
(* Locks move with their records *)

\* The request l on the record h, as it is entered again.
Moved(l, h, q, to) == [l EXCEPT !.page = q, !.bits = {to[h]}, !.gap = GapOn(to[h], @)]

\* The requests on page p that are entered again.
Cells(s, p, hs) ==
    {d \in (DOMAIN s) \X Heap : OnPageOf(s[d[1]], p) /\ d[2] \in hs /\ d[2] \in s[d[1]].bits}

\* The struct k has the bit of the request l on the record h.
Carries(k, l, h, q, to) == to[h] \in k.bits /\ Alike(k, Moved(l, h, q, to))

\* v is what has become of s, with r left of it when all bits in hs on page p were
\* reset, and the cells in D entered again: nothing else has changed in what was
\* left, each bit has an origin, each cell is carried by a struct, and who waited
\* waits again, behind all that was ahead.
Stays(s, r, v) ==
    /\ \A x \in DOMAIN s : /\ x \in DOMAIN v /\ Alike(v[x], r[x])
                           /\ r[x].bits \subseteq v[x].bits
                           /\ r[x].wait => v[x].bits = r[x].bits
    /\ \A x \in DOMAIN v : x \notin DOMAIN s => \A i \in DOMAIN s : i < x
    /\ \A x \in DOMAIN v : \E i \in DOMAIN s : v[x].trx = s[i].trx

Origins(s, r, v, D, hs, q, to) ==
    \A x \in DOMAIN v : \A g \in v[x].bits :
        \/ x \in DOMAIN s /\ g \in r[x].bits
        \/ \E o \in DOMAIN s, h \in hs :
              <<o, h>> \in D /\ g = to[h] /\ Alike(v[x], Moved(s[o], h, q, to))

AllCarried(s, v, D, hs, q, to) ==
    \A o \in DOMAIN s, h \in hs :
        <<o, h>> \in D => \E x \in DOMAIN v : Carries(v[x], s[o], h, q, to)

\* The struct k has a bit of a request on h that was ahead of s[o].
ComesFrom(s, k, q, to, o, h) ==
    \E e \in DOMAIN s : e < o /\ h \in s[e].bits /\ Alike(k, Moved(s[e], h, q, to))

\* The request of s[o] on h is x, and those ahead of it are carried ahead of x, where
\* nobody else is.
Follows(s, v, D, q, to, o, h, x) ==
    /\ <<o, h>> \in D /\ s[o].wait /\ v[x] = Moved(s[o], h, q, to)
    /\ \A e \in DOMAIN s : <<e, h>> \in D /\ e < o =>
          \E y \in DOMAIN v : y < x /\ Carries(v[y], s[e], h, q, to)
    /\ \A y \in DOMAIN v : y < x /\ to[h] \in v[y].bits => ComesFrom(s, v[y], q, to, o, h)

WaitersFollow(s, r, v, D, hs, q, to) ==
    \A x \in DOMAIN v : v[x].wait =>
        \/ x \in DOMAIN s /\ r[x].wait
        \/ x \notin DOMAIN s /\ \E o \in DOMAIN s, h \in hs : Follows(s, v, D, q, to, o, h, x)

Requeued(s, r, v, D, hs, q, to) ==
    /\ v \in Seq(LockStruct)
    /\ Stays(s, r, v)
    /\ Origins(s, r, v, D, hs, q, to)
    /\ AllCarried(s, v, D, hs, q, to)
    /\ WaitersFollow(s, r, v, D, hs, q, to)
    /\ OneWait(v)
    /\ Ordered(v)

\* The records in hs of page p can go to page q: where they go nothing is, unless
\* it goes too.
Movable(P, p, hs, q, to) ==
    /\ p \in Pages /\ q \in Pages /\ hs \subseteq Heap /\ to \in [hs -> Heap]
    /\ \A g, h \in hs : to[g] = to[h] => g = h
    /\ \A h \in hs : h \in Suprema <=> to[h] \in Suprema
    /\ \A h \in hs : P[h] = p => P[to[h]] = NoPage \/ (to[h] \in hs /\ P[to[h]] = p)

\* The struct r is what is left of the struct l.
ResetAt(r, l, p, hs) ==
    /\ SameRequest(r, l) /\ r.page = l.page
    /\ r.bits = IF OnPageOf(l, p) THEN l.bits \ hs ELSE l.bits
    /\ r.wait <=> l.wait /\ ~ (OnPageOf(l, p) /\ l.bits \cap hs # {})
    /\ r.wait => r = l

\* What the reset leaves of each struct.
LEMMA ResetBitsIs ==
    ASSUME NEW s \in Seq(LockStruct), NEW p, NEW hs
    PROVE  /\ ResetBits(s, p, hs) \in Seq(LockStruct) /\ DOMAIN ResetBits(s, p, hs) = DOMAIN s
           /\ \A x \in DOMAIN s : ResetAt(ResetBits(s, p, hs)[x], s[x], p, hs)
<1> DEFINE r == ResetBits(s, p, hs)
<1>1. r = [i \in DOMAIN s |->
              IF OnPageOf(s[i], p) /\ s[i].bits \cap hs # {}
              THEN [s[i] EXCEPT !.bits = @ \ hs, !.wait = FALSE] ELSE s[i]]
  BY DEF ResetBits
<1> HIDE DEF r
<1>2. ASSUME NEW x \in DOMAIN s
      PROVE  /\ r[x] \in LockStruct
             /\ SameRequest(r[x], s[x]) /\ r[x].page = s[x].page
             /\ r[x].bits = IF OnPageOf(s[x], p) THEN s[x].bits \ hs ELSE s[x].bits
             /\ r[x].wait <=> s[x].wait /\ ~ (OnPageOf(s[x], p) /\ s[x].bits \cap hs # {})
             /\ r[x].wait => r[x] = s[x]
 <2>1. s[x] \in LockStruct OBVIOUS
 <2>2. CASE OnPageOf(s[x], p) /\ s[x].bits \cap hs # {}
  <3>1. r[x] = [s[x] EXCEPT !.bits = @ \ hs, !.wait = FALSE] BY <1>1, <2>2
  <3> QED BY ZenonT(60), <2>1, <2>2, <3>1 DEF LockStruct, SameRequest
 <2>3. CASE ~ (OnPageOf(s[x], p) /\ s[x].bits \cap hs # {})
  <3>1. r[x] = s[x] BY Zenon, <1>1, <2>3
  <3>2. OnPageOf(s[x], p) => s[x].bits \ hs = s[x].bits BY <2>3
  <3>3. s[x].wait \in BOOLEAN BY <2>1 DEF LockStruct
  <3> QED BY <2>1, <2>3, <3>1, <3>2, <3>3 DEF SameRequest
 <2> QED BY <2>2, <2>3
<1>3. DOMAIN r = DOMAIN s /\ r = [x \in DOMAIN s |-> r[x]] BY <1>1
<1>4. r \in Seq(LockStruct)
 <2>1. DOMAIN s = 1 .. Len(s) /\ Len(s) \in Nat OBVIOUS
 <2>2. r = [x \in 1 .. Len(s) |-> r[x]] BY <1>3, <2>1
 <2>3. \A x \in 1 .. Len(s) : r[x] \in LockStruct BY <1>2, <2>1
 <2> QED BY <2>1, <2>2, <2>3
<1> QED BY <1>2, <1>3, <1>4 DEF r, ResetAt

\* The request that is entered again on the other page.
LEMMA MovedType ==
    ASSUME NEW l \in LockStruct, NEW h, NEW q \in Pages, NEW to, to[h] \in Heap,
           NEW m, m = Moved(l, h, q, to)
    PROVE  /\ m \in LockStruct /\ m.bits = {to[h]} /\ m.page = q /\ m.gap = GapOn(to[h], l.gap)
           /\ m.trx = l.trx /\ m.type = l.type /\ m.mode = l.mode /\ m.ii = l.ii /\ m.wait = l.wait
  BY DEF Moved, LockStruct, GapOn, Gaps

\* Where a record goes there is no bit left when the bits were reset.
LEMMA TargetIsFree ==
    ASSUME NEW s, NEW P \in Places, Good(s, P), NEW p, NEW hs, NEW q, NEW to,
           Movable(P, p, hs, q, to), NEW o \in DOMAIN s, NEW h \in hs, <<o, h>> \in Cells(s, p, hs),
           NEW r, r = ResetBits(s, p, hs), NEW x \in DOMAIN s
    PROVE  to[h] \notin r[x].bits
<1> SUFFICES ASSUME to[h] \in r[x].bits PROVE FALSE OBVIOUS
<1>1. s \in Seq(LockStruct) /\ s[x] \in LockStruct BY DEF Good
<1>2. to[h] \in s[x].bits /\ (OnPageOf(s[x], p) => to[h] \notin hs)
 <2>1. r[x].bits = IF OnPageOf(s[x], p) THEN s[x].bits \ hs ELSE s[x].bits
  <3>1. ResetAt(ResetBits(s, p, hs)[x], s[x], p, hs) BY <1>1, ResetBitsIs
  <3> QED BY <3>1 DEF ResetAt
 <2> QED BY <2>1
<1>3. s[x].type = "REC" /\ s[x].page = P[to[h]] BY <1>2 DEF Good, Placed
<1>4. P[to[h]] # NoPage BY <1>1, <1>3 DEF LockStruct, Pages, NoPage
<1>5. P[h] = p
 <2>1. OnPageOf(s[o], p) /\ h \in s[o].bits BY DEF Cells
 <2> QED BY <2>1 DEF OnPageOf, Good, Placed
<1>6. to[h] \in hs /\ P[to[h]] = p BY <1>4, <1>5 DEF Movable
<1> QED BY <1>2, <1>3, <1>6 DEF OnPageOf

\* One more cell is entered.
LEMMA RequeuedByOne ==
    ASSUME NEW s, NEW P \in Places, Good(s, P), NEW p, NEW hs, NEW q, NEW to,
           Movable(P, p, hs, q, to), NEW r, r = ResetBits(s, p, hs),
           NEW D, D \subseteq Cells(s, p, hs), NEW v, Requeued(s, r, v, D, hs, q, to),
           NEW i \in DOMAIN s, NEW h \in hs, <<i, h>> \in Cells(s, p, hs), <<i, h>> \notin D,
           \A o \in DOMAIN s, g \in Heap : <<o, g>> \in D => o <= i,
           NEW u, Entered(v, u, Moved(s[i], h, q, to), to[h])
    PROVE  Requeued(s, r, u, D \cup {<<i, h>>}, hs, q, to)
<1> DEFINE l == Moved(s[i], h, q, to)
           E == D \cup {<<i, h>>}
<1>1. /\ s \in Seq(LockStruct) /\ v \in Seq(LockStruct) /\ u \in Seq(LockStruct)
      /\ DOMAIN s \subseteq Int /\ DOMAIN v \subseteq Int /\ DOMAIN u \subseteq Int
      /\ DOMAIN s \subseteq DOMAIN v
  BY SMTT(30) DEF Good, Requeued, Entered, Stays
<1>2. h \in Heap /\ to[h] \in Heap /\ q \in Pages /\ hs \subseteq Heap BY DEF Movable
<1>3. s[i] \in LockStruct /\ s[i].type = "REC" /\ s[i].page = p /\ h \in s[i].bits
  BY <1>1 DEF Cells, OnPageOf
<1>4. /\ l \in LockStruct /\ l.bits = {to[h]} /\ l.page = q /\ l.gap = GapOn(to[h], s[i].gap)
      /\ l.trx = s[i].trx /\ l.type = "REC" /\ l.mode = s[i].mode /\ l.ii = s[i].ii
      /\ l.wait = s[i].wait
  BY <1>2, <1>3, MovedType
<1>5. \A x \in DOMAIN s : ResetAt(r[x], s[x], p, hs) BY <1>1, ResetBitsIs
<1>6. PICK y \in DOMAIN u :
          /\ \A x \in DOMAIN v : x \in DOMAIN u /\ (x # y => u[x] = v[x])
          /\ \A x \in DOMAIN u : x # y => x \in DOMAIN v
          /\ Alike(u[y], l) /\ to[h] \in u[y].bits
          /\ y \in DOMAIN v =>
                /\ ~ l.wait /\ Alike(v[y], l) /\ u[y].bits = v[y].bits \cup {to[h]}
                /\ ~ SomebodyWaitsOn(v, l.page, to[h])
          /\ y \notin DOMAIN v => u[y] = l /\ \A x \in DOMAIN v : x < y
  BY DEF Entered
<1> HIDE DEF l, E
<1>7. ASSUME NEW x \in DOMAIN v
      PROVE  /\ x \in DOMAIN u /\ Alike(u[x], v[x]) /\ v[x].bits \subseteq u[x].bits
             /\ u[x].bits \subseteq v[x].bits \cup {to[h]} /\ (v[x].wait => u[x] = v[x])
 <2>1. CASE x # y BY <1>6, <2>1 DEF Alike
 <2>2. CASE x = y
  <3>1. ~ l.wait /\ Alike(v[x], l) /\ u[x].bits = v[x].bits \cup {to[h]} /\ Alike(u[x], l)
    BY <1>6, <2>2
  <3> QED BY <1>6, <3>1 DEF Alike
 <2> QED BY <2>1, <2>2
<1>8. ASSUME NEW x \in DOMAIN v, NEW o, NEW g, Carries(v[x], s[o], g, q, to)
      PROVE  Carries(u[x], s[o], g, q, to)
  BY <1>7, <1>8, AlikeIsTransitive DEF Carries
<1>9. Carries(u[y], s[i], h, q, to) BY <1>6 DEF Carries, l
<1>10. \A x \in DOMAIN s : to[h] \notin r[x].bits BY TargetIsFree
\* Who is on the new place of h has come from a struct ahead.
<1>11. ASSUME NEW x \in DOMAIN v, to[h] \in v[x].bits
       PROVE  \E o \in DOMAIN s : o < i /\ h \in s[o].bits /\ Alike(v[x], Moved(s[o], h, q, to))
 <2>1. PICK o \in DOMAIN s, g \in hs :
           <<o, g>> \in D /\ to[h] = to[g] /\ Alike(v[x], Moved(s[o], g, q, to))
   BY <1>10, <1>11 DEF Requeued, Origins
 <2>2. g = h BY <2>1 DEF Movable
 <2>3. o <= i /\ o # i /\ o \in Int /\ i \in Int BY <1>1, <1>2, <2>1, <2>2
 <2>4. h \in s[o].bits BY <2>1, <2>2 DEF Cells
 <2> QED BY <2>1, <2>2, <2>3, <2>4
<1>12. Stays(s, r, u)
 <2>1. ASSUME NEW x \in DOMAIN s
       PROVE  /\ x \in DOMAIN u /\ Alike(u[x], r[x]) /\ r[x].bits \subseteq u[x].bits
              /\ r[x].wait => u[x].bits = r[x].bits
  <3>1. /\ x \in DOMAIN v /\ Alike(v[x], r[x]) /\ r[x].bits \subseteq v[x].bits
        /\ r[x].wait => v[x].bits = r[x].bits
    BY DEF Requeued, Stays
  <3>2. /\ x \in DOMAIN u /\ Alike(u[x], v[x]) /\ v[x].bits \subseteq u[x].bits
        /\ v[x].wait => u[x] = v[x]
    BY <1>7, <3>1
  <3>3. r[x].wait => v[x].wait BY <3>1 DEF Alike
  <3>4. Alike(u[x], r[x]) BY <3>1, <3>2, AlikeIsTransitive
  <3>5. r[x].bits \subseteq u[x].bits BY <3>1, <3>2
  <3> QED BY <3>1, <3>2, <3>3, <3>4, <3>5
 <2>2. ASSUME NEW x \in DOMAIN u, x \notin DOMAIN s, NEW j \in DOMAIN s
       PROVE  j < x
  <3>1. CASE x \in DOMAIN v BY <2>2, <3>1 DEF Requeued, Stays
  <3>2. CASE x \notin DOMAIN v
   <4>1. \A z \in DOMAIN v : z < x BY <1>6, <3>2
   <4> QED BY <1>1, <4>1
  <3> QED BY <3>1, <3>2
 <2>3. ASSUME NEW x \in DOMAIN u
       PROVE  \E j \in DOMAIN s : u[x].trx = s[j].trx
  <3>1. CASE x \in DOMAIN v
   <4>1. u[x].trx = v[x].trx BY <1>7, <3>1 DEF Alike
   <4> QED BY <3>1, <4>1 DEF Requeued, Stays
  <3>2. CASE x \notin DOMAIN v BY <1>4, <1>6, <3>2
  <3> QED BY <3>1, <3>2
 <2> QED BY <2>1, <2>2, <2>3 DEF Stays
<1>13. Origins(s, r, u, E, hs, q, to)
 <2> SUFFICES ASSUME NEW x \in DOMAIN u, NEW g \in u[x].bits
              PROVE  \/ x \in DOMAIN s /\ g \in r[x].bits
                     \/ \E o \in DOMAIN s, f \in hs :
                           <<o, f>> \in E /\ g = to[f] /\ Alike(u[x], Moved(s[o], f, q, to))
   BY DEF Origins
 <2>1. CASE x \in DOMAIN v /\ g \in v[x].bits
  <3>1. Alike(u[x], v[x]) BY <1>7, <2>1
  <3>2. CASE x \in DOMAIN s /\ g \in r[x].bits BY <3>2
  <3>3. CASE ~ (x \in DOMAIN s /\ g \in r[x].bits)
   <4>1. PICK o \in DOMAIN s, f \in hs :
             <<o, f>> \in D /\ g = to[f] /\ Alike(v[x], Moved(s[o], f, q, to))
     BY <2>1, <3>3 DEF Requeued, Origins
   <4>2. Alike(u[x], Moved(s[o], f, q, to)) /\ <<o, f>> \in E
     BY <3>1, <4>1, AlikeIsTransitive DEF E
   <4> QED BY <4>1, <4>2
  <3> QED BY <3>2, <3>3
 <2>2. CASE ~ (x \in DOMAIN v /\ g \in v[x].bits)
  <3>1. x = y /\ g = to[h]
   <4>1. CASE x \in DOMAIN v
    <5>1. u[x].bits \subseteq v[x].bits \cup {to[h]} BY <1>7, <4>1
    <5>2. g = to[h] /\ u[x] # v[x] BY <2>2, <4>1, <5>1
    <5> QED BY <1>6, <4>1, <5>2
   <4>2. CASE x \notin DOMAIN v BY <1>4, <1>6, <4>2
   <4> QED BY <4>1, <4>2
  <3>2. Alike(u[x], Moved(s[i], h, q, to)) /\ <<i, h>> \in E BY <1>6, <3>1 DEF l, E
  <3> QED BY <3>1, <3>2
 <2> QED BY <2>1, <2>2
<1>14. AllCarried(s, u, E, hs, q, to)
 <2> SUFFICES ASSUME NEW o \in DOMAIN s, NEW g \in hs, <<o, g>> \in E
              PROVE  \E x \in DOMAIN u : Carries(u[x], s[o], g, q, to)
   BY DEF AllCarried
 <2>1. CASE <<o, g>> \in D
  <3>1. PICK x \in DOMAIN v : Carries(v[x], s[o], g, q, to) BY <2>1 DEF Requeued, AllCarried
  <3> QED BY <1>7, <1>8, <3>1
 <2>2. CASE <<o, g>> = <<i, h>>
  <3>1. o = i /\ g = h BY <2>2
  <3> QED BY <1>9, <3>1
 <2> QED BY <2>1, <2>2 DEF E
<1>15. WaitersFollow(s, r, u, E, hs, q, to)
 <2> SUFFICES ASSUME NEW x \in DOMAIN u, u[x].wait, ~ (x \in DOMAIN s /\ r[x].wait)
              PROVE  x \notin DOMAIN s /\ \E o \in DOMAIN s, g \in hs : Follows(s, u, E, q, to, o, g, x)
   BY DEF WaitersFollow
 <2>1. CASE x \in DOMAIN v
  <3>1. v[x].wait /\ u[x] = v[x]
   <4>1. Alike(u[x], v[x]) /\ (v[x].wait => u[x] = v[x]) BY <1>7, <2>1
   <4> QED BY <4>1 DEF Alike
  <3>2. x \notin DOMAIN s /\ \E o \in DOMAIN s, g \in hs : Follows(s, v, D, q, to, o, g, x)
    BY <2>1, <3>1 DEF Requeued, WaitersFollow
  <3>3. PICK o \in DOMAIN s, g \in hs : Follows(s, v, D, q, to, o, g, x) BY <3>2
  <3>4. <<o, g>> \in E /\ s[o].wait /\ u[x] = Moved(s[o], g, q, to) BY <3>1, <3>3 DEF Follows, E
  <3>5. ASSUME NEW e \in DOMAIN s, <<e, g>> \in E, e < o
        PROVE  \E z \in DOMAIN u : z < x /\ Carries(u[z], s[e], g, q, to)
   <4>1. <<e, g>> \in D
    <5>1. o <= i /\ e \in Int /\ o \in Int /\ i \in Int BY <1>1, <1>2, <3>3 DEF Follows
    <5>2. e # i BY <3>5, <5>1
    <5> QED BY <3>5, <5>2 DEF E
   <4>2. PICK z \in DOMAIN v : z < x /\ Carries(v[z], s[e], g, q, to)
     BY <3>3, <3>5, <4>1 DEF Follows
   <4> QED BY <1>7, <1>8, <4>2
  <3>6. ASSUME NEW z \in DOMAIN u, z < x, to[g] \in u[z].bits
        PROVE  ComesFrom(s, u[z], q, to, o, g)
   <4>1. z \in DOMAIN v
    <5>1. z \notin DOMAIN v => x < z BY <1>6, <2>1
    <5> QED BY <1>1, <2>1, <3>6, <5>1
   <4>2. to[g] \in v[z].bits
    <5> SUFFICES ASSUME to[g] \notin v[z].bits PROVE FALSE OBVIOUS
    <5>1. to[g] = to[h] /\ u[z] # v[z] BY <1>7, <3>6, <4>1
    <5>2. ~ SomebodyWaitsOn(v, q, to[h]) BY <1>4, <1>6, <4>1, <5>1
    <5>3. s[o] \in LockStruct /\ s[o].type = "REC" BY <1>1, <3>3 DEF Follows, Cells, OnPageOf
    <5>4. v[x].type = "REC" /\ v[x].page = q /\ to[h] \in v[x].bits
     <6>1. PICK m : m = Moved(s[o], g, q, to) OBVIOUS
     <6>2. v[x] = m BY Zenon, <3>1, <3>4, <6>1
     <6>3. to[g] \in Heap BY <1>2, <5>1
     <6>4. m.type = s[o].type /\ m.page = q /\ m.bits = {to[g]}
       BY <1>2, <5>3, <6>1, <6>3, MovedType
     <6> QED BY <5>1, <5>3, <6>2, <6>4
    <5>5. On(v[x], to[h]) /\ v[x].wait BY Zenon, <3>1, <5>4 DEF On
    <5> QED BY Zenon, <2>1, <5>2, <5>4, <5>5 DEF SomebodyWaitsOn
   <4>3. PICK e \in DOMAIN s : e < o /\ g \in s[e].bits /\ Alike(v[z], Moved(s[e], g, q, to))
     BY <3>3, <3>6, <4>1, <4>2 DEF Follows, ComesFrom
   <4> QED BY <1>7, <4>1, <4>3, AlikeIsTransitive DEF ComesFrom
  <3>7. Follows(s, u, E, q, to, o, g, x) BY <3>4, <3>5, <3>6 DEF Follows
  <3> QED BY <3>2, <3>7
 <2>2. CASE x \notin DOMAIN v
  <3>1. x = y /\ u[x] = l /\ \A z \in DOMAIN v : z < x BY <1>6, <2>2
  <3>2. x \notin DOMAIN s BY <1>1, <2>2
  <3>3. <<i, h>> \in E /\ s[i].wait /\ u[x] = Moved(s[i], h, q, to) BY <1>4, <3>1 DEF l, E
  <3>4. ASSUME NEW e \in DOMAIN s, <<e, h>> \in E, e < i
        PROVE  \E z \in DOMAIN u : z < x /\ Carries(u[z], s[e], h, q, to)
   <4>1. <<e, h>> \in D
    <5>1. e # i BY <1>1, <3>4
    <5> QED BY <3>4, <5>1 DEF E
   <4>2. PICK z \in DOMAIN v : Carries(v[z], s[e], h, q, to) BY <4>1 DEF Requeued, AllCarried
   <4> QED BY <1>7, <1>8, <3>1, <4>2
  <3>5. ASSUME NEW z \in DOMAIN u, z < x, to[h] \in u[z].bits
        PROVE  ComesFrom(s, u[z], q, to, i, h)
   <4>1. z # y BY <1>1, <3>1, <3>5
   <4> QED BY <1>6, <1>11, <3>5, <4>1 DEF ComesFrom
  <3>6. Follows(s, u, E, q, to, i, h, x) BY <3>3, <3>4, <3>5 DEF Follows
  <3> QED BY <3>2, <3>6
 <2> QED BY <2>1, <2>2
\* Its own request has not been entered before.
<1>16. ASSUME NEW x \in DOMAIN v, v[x].wait, l.wait, v[x].trx = l.trx
       PROVE  FALSE
 <2>1. CASE x \in DOMAIN s /\ r[x].wait
  <3>1. Alike(v[x], r[x]) /\ ResetAt(r[x], s[x], p, hs) /\ ResetAt(r[i], s[i], p, hs)
    BY <1>5, <2>1 DEF Requeued, Stays
  <3>2. s[x].wait /\ s[x].trx = s[i].trx /\ s[i].wait
    BY <1>4, <1>16, <2>1, <3>1 DEF ResetAt, Alike, SameRequest
  <3>3. x = i BY <2>1, <3>2 DEF Good, OneWait
  <3>4. OnPageOf(s[i], p) /\ s[i].bits \cap hs # {} BY <1>3 DEF OnPageOf
  <3> QED BY <2>1, <3>1, <3>3, <3>4 DEF ResetAt
 <2>2. CASE ~ (x \in DOMAIN s /\ r[x].wait)
  <3>1. \E o \in DOMAIN s, g \in hs : Follows(s, v, D, q, to, o, g, x)
    BY <1>16, <2>2 DEF Requeued, WaitersFollow
  <3>2. PICK o \in DOMAIN s, g \in hs : Follows(s, v, D, q, to, o, g, x) BY <3>1
  <3>3. <<o, g>> \in D /\ s[o].wait /\ v[x] = Moved(s[o], g, q, to) BY <3>2 DEF Follows
  <3>4. s[o] \in LockStruct BY <1>1
  <3>5. v[x].trx = s[o].trx BY <3>3, <3>4 DEF Moved, LockStruct
  <3>6. s[o].wait /\ s[i].wait /\ s[o].trx = s[i].trx BY <1>4, <1>16, <3>3, <3>5
  <3>7. o = i BY <3>6 DEF Good, OneWait
  <3>8. PICK f \in Heap : s[i].bits = {f} BY <1>3, <3>6 DEF Good, OneBit
  <3>9. g \in s[o].bits BY <3>3 DEF Cells
  <3>10. g = h BY <1>3, <3>7, <3>8, <3>9
  <3> QED BY <3>3, <3>7, <3>10
 <2> QED BY <2>1, <2>2
<1>17. OneWait(u)
 <2> SUFFICES ASSUME NEW x \in DOMAIN u, NEW z \in DOMAIN u, u[x].wait, u[z].wait,
                     u[x].trx = u[z].trx, x # z
              PROVE  FALSE
   BY DEF OneWait
 <2>1. ASSUME NEW w \in DOMAIN v, u[w].wait
       PROVE  v[w].wait /\ v[w].trx = u[w].trx
   BY <1>7, <2>1 DEF Alike
 <2>2. CASE x \in DOMAIN v /\ z \in DOMAIN v BY <2>1, <2>2 DEF Requeued, OneWait
 <2>3. CASE x \notin DOMAIN v
  <3>1. x = y /\ u[x] = l /\ z \in DOMAIN v BY <1>6, <2>3
  <3> QED BY <1>16, <2>1, <3>1
 <2>4. CASE z \notin DOMAIN v
  <3>1. z = y /\ u[z] = l /\ x \in DOMAIN v BY <1>6, <2>4
  <3> QED BY <1>16, <2>1, <3>1
 <2> QED BY <2>2, <2>3, <2>4
\* A granted one clashes with nobody on its new place.
<1>18. ASSUME NEW x \in DOMAIN v, ~ l.wait, l.trx # v[x].trx,
              ~ Compatible(v[x].mode, l.mode),
              Holds(v[x], to[h]), Holds(l, to[h])
       PROVE  FALSE
 <2>1. to[h] \in v[x].bits /\ to[h] \notin Suprema /\ l.gap # "GAP" /\ ~ l.ii /\ v[x].gap # "GAP" /\ ~ v[x].ii
   BY <1>18 DEF Holds, On
 <2>2. PICK o \in DOMAIN s : o < i /\ h \in s[o].bits /\ Alike(v[x], Moved(s[o], h, q, to))
   BY <1>11, <2>1
 <2>3. s[o] \in LockStruct BY <1>1
 <2>4. /\ Moved(s[o], h, q, to).gap = GapOn(to[h], s[o].gap)
       /\ Moved(s[o], h, q, to).trx = s[o].trx /\ Moved(s[o], h, q, to).type = s[o].type
       /\ Moved(s[o], h, q, to).mode = s[o].mode /\ Moved(s[o], h, q, to).ii = s[o].ii
   BY <1>2, <2>3, MovedType
 <2>5. h \notin Suprema BY <2>1 DEF Movable
 <2>6. s[o].type = "REC" BY <2>2 DEF Good, Placed
 <2>7. Holds(s[o], h) /\ Holds(s[i], h)
   BY <1>3, <1>4, <2>1, <2>2, <2>4, <2>5, <2>6 DEF Holds, On, Alike, GapOn
 <2>8. s[o].trx # s[i].trx /\ ~ Compatible(s[o].mode, s[i].mode)
   BY <1>4, <1>18, <2>2, <2>4 DEF Alike
 <2>9. Clash(s[o], s[i]) BY <1>2, <2>7, <2>8 DEF Clash
 <2>10. ~ s[i].wait BY <1>4, <1>18
 <2> QED BY <2>2, <2>9, <2>10 DEF Good, Ordered
<1>19. Ordered(u)
 <2> SUFFICES ASSUME NEW x \in DOMAIN u, NEW z \in DOMAIN u, x < z, ~ u[z].wait,
                     Clash(u[x], u[z])
              PROVE  FALSE
   BY DEF Ordered
 <2>1. x # z /\ x \in Int /\ z \in Int BY <1>1
 <2>2. u[y].type = "REC" /\ u[y].trx = l.trx /\ u[y].mode = l.mode /\ u[y].wait = l.wait
   BY <1>4, <1>6 DEF Alike
 \* the clash was there before, or it is about the new place of h
 <2>3. \/ \E w \in DOMAIN v, f \in DOMAIN v : f = z /\ w = x /\ Clash(v[w], v[f])
       \/ /\ x = y \/ z = y
          /\ Holds(u[x], to[h]) /\ Holds(u[z], to[h])
  <3>1. ASSUME NEW w \in DOMAIN v
        PROVE  /\ u[w].trx = v[w].trx /\ u[w].mode = v[w].mode /\ u[w].type = v[w].type
               /\ \A g : Holds(u[w], g) /\ (w # y \/ g # to[h]) => Holds(v[w], g)
   <4>1. /\ Alike(u[w], v[w]) /\ u[w].bits \subseteq v[w].bits \cup {to[h]}
         /\ w # y => u[w] = v[w]
     BY <1>6, <1>7
   <4> QED BY <4>1 DEF Alike, Holds, On
  <3>2. CASE u[x].type = "TABLE" /\ u[z].type = "TABLE"
   <4>1. x # y /\ z # y BY <2>2, <3>2
   <4>2. x \in DOMAIN v /\ z \in DOMAIN v /\ u[x] = v[x] /\ u[z] = v[z] BY <1>6, <4>1
   <4> QED BY <4>2
  <3>3. CASE ~ (u[x].type = "TABLE" /\ u[z].type = "TABLE")
   <4>1. PICK g \in Heap : Holds(u[x], g) /\ Holds(u[z], g) BY <3>3 DEF Clash
   <4>2. CASE g = to[h] /\ (x = y \/ z = y) BY <4>1, <4>2
   <4>3. CASE ~ (g = to[h] /\ (x = y \/ z = y))
    <5>1. x \in DOMAIN v
     <6>1. CASE x = y /\ y \notin DOMAIN v BY <1>4, <1>6, <4>1, <4>3, <6>1 DEF Holds, On
     <6> QED BY <1>6, <6>1
    <5>2. z \in DOMAIN v
     <6>1. CASE z = y /\ y \notin DOMAIN v BY <1>4, <1>6, <4>1, <4>3, <6>1 DEF Holds, On
     <6> QED BY <1>6, <6>1
    <5>3. Holds(v[x], g) /\ Holds(v[z], g) BY <3>1, <4>1, <4>3, <5>1, <5>2
    <5>4. Clash(v[x], v[z]) BY <3>1, <4>1, <5>1, <5>2, <5>3 DEF Clash
    <5> QED BY <5>1, <5>2, <5>4
   <4> QED BY <4>2, <4>3
  <3> QED BY <3>2, <3>3
 <2>4. CASE x # y /\ z # y
  <3>1. x \in DOMAIN v /\ z \in DOMAIN v /\ u[x] = v[x] /\ u[z] = v[z] BY <1>6, <2>4
  <3> QED BY <3>1 DEF Requeued, Ordered
 <2>5. CASE x \in DOMAIN v /\ z \in DOMAIN v /\ Clash(v[x], v[z])
  <3>1. ~ v[z].wait BY <1>7, <2>5 DEF Alike
  <3> QED BY <2>5, <3>1 DEF Requeued, Ordered
 <2>6. CASE Holds(u[x], to[h]) /\ Holds(u[z], to[h]) /\ z = y
  <3>1. x \in DOMAIN v /\ u[x] = v[x] BY <1>6, <2>1, <2>6
  <3>2. Holds(l, to[h]) BY <1>4, <1>6, <2>6 DEF Holds, On, Alike
  <3> QED BY <1>18, <2>2, <2>6, <3>1, <3>2 DEF Clash
 <2>7. CASE Holds(u[x], to[h]) /\ Holds(u[z], to[h]) /\ x = y
  <3>1. z \in DOMAIN v /\ u[z] = v[z] BY <1>6, <2>1, <2>7
  <3>2. x \in DOMAIN v BY <1>1, <1>6, <2>1, <2>7, <3>1
  <3>3. Holds(l, to[h]) /\ ~ l.wait BY <1>4, <1>6, <2>7, <3>2 DEF Holds, On, Alike
  <3>4. ~ Compatible(v[z].mode, l.mode) BY ZenonT(60), <2>2, <2>7, <3>1 DEF Clash, Compatible
  <3> QED BY <1>18, <2>2, <2>7, <3>1, <3>3, <3>4 DEF Clash
 <2> QED BY <2>3, <2>4, <2>5, <2>6, <2>7
<1>20. Requeued(s, r, u, E, hs, q, to)
  BY <1>1, <1>12, <1>13, <1>14, <1>15, <1>17, <1>19 DEF Requeued
<1> QED BY <1>20 DEF E

\* Nothing is entered yet.
LEMMA RequeuedAtFirst ==
    ASSUME NEW s, NEW P, Good(s, P), NEW p, NEW hs, NEW q, NEW to,
           NEW r, r = ResetBits(s, p, hs)
    PROVE  Requeued(s, r, r, {}, hs, q, to)
<1>1. s \in Seq(LockStruct) BY DEF Good
<1>2. r \in Seq(LockStruct) /\ DOMAIN r = DOMAIN s /\ \A x \in DOMAIN s : ResetAt(r[x], s[x], p, hs)
  BY <1>1, ResetBitsIs
<1>3. Stays(s, r, r) BY <1>2 DEF Stays, Alike, ResetAt, SameRequest
<1>4. Origins(s, r, r, {}, hs, q, to) /\ AllCarried(s, r, {}, hs, q, to)
  BY <1>2 DEF Origins, AllCarried
<1>5. WaitersFollow(s, r, r, {}, hs, q, to) BY <1>2 DEF WaitersFollow
<1>6. OneWait(r)
 <2>1. \A x \in DOMAIN s : r[x].wait => s[x].wait /\ r[x].trx = s[x].trx
   BY <1>2 DEF ResetAt, SameRequest
 <2> QED BY <1>2, <2>1 DEF Good, OneWait
<1>7. Ordered(r)
 <2> SUFFICES ASSUME NEW x \in DOMAIN s, NEW y \in DOMAIN s, x < y, ~ r[y].wait, Clash(r[x], r[y])
              PROVE  FALSE
   BY <1>2 DEF Ordered
 <2>1. ResetAt(r[x], s[x], p, hs) /\ ResetAt(r[y], s[y], p, hs) BY <1>2
 <2>2. \A h : Holds(r[x], h) => Holds(s[x], h) BY <2>1 DEF ResetAt, SameRequest, Holds, On
 <2>3. \A h : Holds(r[y], h) => Holds(s[y], h) BY <2>1 DEF ResetAt, SameRequest, Holds, On
 <2>4. Clash(s[x], s[y])
  <3>1. SameRequest(r[x], s[x]) /\ SameRequest(r[y], s[y]) BY <2>1 DEF ResetAt
  <3> QED BY <2>2, <2>3, <3>1 DEF Clash, SameRequest
 <2>5. s[y].wait BY <2>4 DEF Good, Ordered
 <2>6. OnPageOf(s[y], p) /\ s[y].bits \cap hs # {} BY <2>1, <2>5 DEF ResetAt
 <2>7. s[y].type = "REC" BY <2>6 DEF OnPageOf
 <2>8. PICK b \in Heap : s[y].bits = {b} BY <2>5, <2>7 DEF Good, OneBit
 <2>9. r[y].bits = {} /\ r[y].type = "REC" BY <2>1, <2>6, <2>7, <2>8 DEF ResetAt, SameRequest
 <2> QED BY <2>9 DEF Clash, Holds, On
<1> QED BY <1>2, <1>3, <1>4, <1>5, <1>6, <1>7 DEF Requeued

\* All cells of one struct are entered.
LEMMA ReenterRequeues ==
    ASSUME NEW s, NEW P \in Places, Good(s, P), NEW p, NEW hs, NEW q, NEW to,
           Movable(P, p, hs, q, to), NEW r, r = ResetBits(s, p, hs),
           NEW i \in DOMAIN s, OnPageOf(s[i], p),
           NEW D, D = {d \in Cells(s, p, hs) : d[1] < i},
           NEW E, E = {d \in Cells(s, p, hs) : d[1] <= i},
           NEW v, v \in Seq(LockStruct)
    PROVE  /\ Reenter(v, s[i], hs, q, to) \in Seq(LockStruct)
           /\ Requeued(s, r, v, D, hs, q, to) =>
                 Requeued(s, r, Reenter(v, s[i], hs, q, to), E, hs, q, to)
<1> DEFINE n == MaxKey + 6
           S == Seq(LockStruct)
           l == s[i]
           Step(h, w) == AddToQueue(w, Moved(l, h, q, to), to[h])
           G == [h \in 1 .. n |-> [w \in S |-> IF h \in hs /\ h \in l.bits THEN Step(h, w) ELSE w]]
           Until(h) == {d \in Cells(s, p, hs) : d[1] < i \/ (d[1] = i /\ d[2] <= h)}
<1>1. n \in Nat /\ Heap = 1 .. n BY MaxKeyAssumption DEF Heap
<1>2. s \in Seq(LockStruct) /\ l \in LockStruct /\ i \in Int /\ DOMAIN s \subseteq Int BY DEF Good
<1>3. ASSUME NEW h \in hs, NEW w \in S
      PROVE  /\ Step(h, w) \in S
             /\ Entered(w, Step(h, w), Moved(l, h, q, to), to[h])
 <2>1. to[h] \in Heap /\ q \in Pages BY DEF Movable
 <2>2. Moved(l, h, q, to) \in LockStruct /\ Moved(l, h, q, to).bits = {to[h]}
   BY <1>2, <2>1, MovedType
 <2>3. Entered(w, Step(h, w), Moved(l, h, q, to), to[h]) BY <2>1, <2>2, AddToQueueEnters
 <2> QED BY <2>3 DEF Entered
<1>4. G \in StepFunctions(S, n)
 <2> HIDE DEF Step, l
 <2> QED BY <1>3 DEF StepFunctions
<1>5. v \in S OBVIOUS
<1>6. \E f : Iterates(f, S, n, v, G)
 <2> HIDE DEF G, S, n
 <2> QED BY <1>1, <1>4, <1>5, IterationExists
<1>7. PICK f : f \in [0 .. n -> S] /\ f[0] = v /\ \A h \in 1 .. n : f[h] = G[h][f[h - 1]]
  BY <1>6 DEF Iterates
<1>8. f = [h \in 0 .. n |->
              IF h = 0 THEN v
              ELSE IF h \in hs /\ h \in l.bits THEN Step(h, f[h - 1]) ELSE f[h - 1]]
 <2>1. ASSUME NEW h \in 0 .. n
       PROVE  f[h] = IF h = 0 THEN v
                     ELSE IF h \in hs /\ h \in l.bits THEN Step(h, f[h - 1]) ELSE f[h - 1]
  <3>1. CASE h = 0 BY <1>7, <3>1
  <3>2. CASE h # 0
   <4>1. h \in 1 .. n /\ h - 1 \in 0 .. n BY <1>1, <3>2
   <4>2. f[h - 1] \in S /\ f[h] = G[h][f[h - 1]] BY <1>7, <4>1
   <4> HIDE DEF Step, l
   <4> QED BY <3>2, <4>1, <4>2
  <3> QED BY <3>1, <3>2
 <2>2. f = [h \in 0 .. n |-> f[h]] BY <1>7
 <2> HIDE DEF Step, l, n
 <2> QED BY <2>1, <2>2
<1> DEFINE after[h \in 0 .. (MaxKey + 6)] ==
               IF h = 0 THEN v
               ELSE IF h \in hs /\ h \in s[i].bits
                    THEN AddToQueue(after[h - 1],
                                    [s[i] EXCEPT !.page = q, !.bits = {to[h]}, !.gap = GapOn(to[h], @)],
                                    to[h])
                    ELSE after[h - 1]
<1>9. Reenter(v, s[i], hs, q, to) = after[n] BY DEF Reenter
<1>10. after = [h \in 0 .. (MaxKey + 6) |->
                   IF h = 0 THEN v
                   ELSE IF h \in hs /\ h \in s[i].bits
                        THEN AddToQueue(after[h - 1],
                                        [s[i] EXCEPT !.page = q, !.bits = {to[h]}, !.gap = GapOn(to[h], @)],
                                        to[h])
                        ELSE after[h - 1]]
  BY Zenon, <1>8 DEF after, Moved
<1> HIDE DEF after, G
<1>11. after[0] = v
 <2>1. 0 \in 0 .. (MaxKey + 6) BY <1>1
 <2> QED BY <1>10, <2>1
<1>12. ASSUME NEW h \in 1 .. n
       PROVE  after[h] = IF h \in hs /\ h \in l.bits THEN Step(h, after[h - 1]) ELSE after[h - 1]
 <2>1. h \in 0 .. (MaxKey + 6) /\ h # 0 BY <1>1
 <2> QED BY <1>10, <2>1 DEF Moved
<1> HIDE DEF Step, l
<1> DEFINE T == [h \in 0 .. n |-> {w \in S : Requeued(s, r, v, D, hs, q, to)
                                             => Requeued(s, r, w, Until(h), hs, q, to)}]
<1>13. after[0] \in T[0]
 <2>1. Until(0) = D
  <3>1. \A d \in Cells(s, p, hs) : ~ (d[2] <= 0) BY <1>1 DEF Cells
  <3> QED BY <3>1
 <2>2. 0 \in 0 .. n BY <1>1
 <2> QED BY <1>5, <1>11, <2>1, <2>2
<1>14. \A h \in 1 .. n : after[h - 1] \in T[h - 1] => after[h] \in T[h]
 <2> SUFFICES ASSUME NEW h \in 1 .. n, after[h - 1] \in T[h - 1] PROVE after[h] \in T[h] OBVIOUS
 <2>1. h \in 0 .. n /\ h - 1 \in 0 .. n /\ h \in Heap /\ h \in Int BY <1>1
 <2>2. /\ after[h - 1] \in S
       /\ Requeued(s, r, v, D, hs, q, to) => Requeued(s, r, after[h - 1], Until(h - 1), hs, q, to)
   BY <2>1
 <2>3. CASE h \in hs /\ h \in l.bits
  <3>1. <<i, h>> \in Cells(s, p, hs) BY <2>1, <2>3 DEF Cells, l
  <3>2. <<i, h>> \notin Until(h - 1) /\ Until(h - 1) \subseteq Cells(s, p, hs) BY <1>2, <2>1
  <3>3. \A o \in DOMAIN s, g \in Heap : <<o, g>> \in Until(h - 1) => o <= i BY <1>2
  <3>4. Until(h) = Until(h - 1) \cup {<<i, h>>}
   <4>1. \A d \in Cells(s, p, hs) : d = <<d[1], d[2]>> /\ d[2] \in Int BY <1>1 DEF Cells
   <4>2. \A d \in Cells(s, p, hs) : d[2] <= h <=> d[2] <= h - 1 \/ d[2] = h BY <2>1, <4>1
   <4> QED BY <1>2, <2>1, <3>1, <4>1, <4>2
  <3>5. after[h] = Step(h, after[h - 1]) BY <1>12, <2>3
  <3>6. after[h] \in S /\ Entered(after[h - 1], after[h], Moved(s[i], h, q, to), to[h])
    BY <1>3, <2>2, <2>3, <3>5 DEF l
  <3> HIDE DEF Until
  <3>7. ASSUME Requeued(s, r, after[h - 1], Until(h - 1), hs, q, to)
        PROVE  Requeued(s, r, after[h], Until(h), hs, q, to)
   <4> DEFINE B == Until(h - 1)
              w == after[h - 1]
              u == after[h]
   <4>1. /\ B \subseteq Cells(s, p, hs) /\ Requeued(s, r, w, B, hs, q, to)
         /\ <<i, h>> \in Cells(s, p, hs) /\ <<i, h>> \notin B /\ h \in hs
         /\ \A o \in DOMAIN s, g \in Heap : <<o, g>> \in B => o <= i
         /\ Entered(w, u, Moved(s[i], h, q, to), to[h])
     BY <2>3, <3>1, <3>2, <3>3, <3>6, <3>7
   <4> HIDE DEF B, w, u
   <4>2. Requeued(s, r, u, B \cup {<<i, h>>}, hs, q, to) BY <4>1, RequeuedByOne
   <4> QED BY <3>4, <4>2 DEF B, u
  <3> QED BY <2>1, <2>2, <3>6, <3>7
 <2>4. CASE ~ (h \in hs /\ h \in l.bits)
  <3>1. <<i, h>> \notin Cells(s, p, hs) BY <2>4 DEF Cells, l
  <3>2. Until(h) = Until(h - 1)
   <4>1. \A d \in Cells(s, p, hs) : d = <<d[1], d[2]>> /\ d[2] \in Int BY <1>1 DEF Cells
   <4>2. \A d \in Cells(s, p, hs) : d[2] <= h <=> d[2] <= h - 1 \/ d[2] = h BY <2>1, <4>1
   <4> QED BY <3>1, <4>1, <4>2
  <3>3. after[h] = after[h - 1] BY <1>12, <2>4
  <3> HIDE DEF Until
  <3> QED BY <2>1, <2>2, <3>2, <3>3
 <2> QED BY <2>3, <2>4
<1>15. after[n] \in T[n]
 <2> HIDE DEF T
 <2> QED BY <1>1, <1>13, <1>14, IterationReaches
<1>16. Until(n) = E
 <2>1. \A d \in Cells(s, p, hs) : d[2] <= n /\ d[1] \in Int BY <1>1, <1>2 DEF Cells
 <2> QED BY <1>2, <2>1
<1>17. n \in 0 .. n BY <1>1
<1> HIDE DEF Until
<1> QED BY <1>9, <1>15, <1>16, <1>17

\* All structs of the page are entered again.
LEMMA RequeueRequeues ==
    ASSUME NEW s, NEW P \in Places, Good(s, P), NEW p, NEW hs, NEW q, NEW to,
           Movable(P, p, hs, q, to), NEW r, r = ResetBits(s, p, hs)
    PROVE  Requeued(s, r, Requeue(s, p, hs, q, to), Cells(s, p, hs), hs, q, to)
<1> DEFINE n == Len(s)
           S == Seq(LockStruct)
           Step(i, w) == Reenter(w, s[i], hs, q, to)
           G == [i \in 1 .. n |-> [w \in S |-> IF OnPageOf(s[i], p) THEN Step(i, w) ELSE w]]
           Until(i) == {d \in Cells(s, p, hs) : d[1] <= i}
<1>1. n \in Nat /\ DOMAIN s = 1 .. n /\ s \in Seq(LockStruct) BY DEF Good
<1>2. r \in S /\ Requeued(s, r, r, {}, hs, q, to) BY <1>1, RequeuedAtFirst, ResetBitsIs
<1>3. ASSUME NEW i \in 1 .. n, NEW w \in S, OnPageOf(s[i], p)
      PROVE  /\ Step(i, w) \in S
             /\ Requeued(s, r, w, Until(i - 1), hs, q, to) =>
                   Requeued(s, r, Step(i, w), Until(i), hs, q, to)
 <2>1. i \in DOMAIN s /\ w \in Seq(LockStruct) BY <1>1
 <2>2. Until(i - 1) = {d \in Cells(s, p, hs) : d[1] < i}
  <3>1. \A d \in Cells(s, p, hs) : d[1] \in Int BY <1>1 DEF Cells
  <3>2. \A d \in Cells(s, p, hs) : d[1] <= i - 1 <=> d[1] < i BY <1>1, <3>1
  <3> QED BY <3>2
 <2> DEFINE D == {d \in Cells(s, p, hs) : d[1] < i}
            E == {d \in Cells(s, p, hs) : d[1] <= i}
 <2>3. D = {d \in Cells(s, p, hs) : d[1] < i} /\ E = {d \in Cells(s, p, hs) : d[1] <= i} OBVIOUS
 <2>4. Until(i) = E /\ Until(i - 1) = D BY <2>2
 <2> HIDE DEF D, E, Until
 <2>5. /\ Reenter(w, s[i], hs, q, to) \in Seq(LockStruct)
       /\ Requeued(s, r, w, D, hs, q, to) =>
             Requeued(s, r, Reenter(w, s[i], hs, q, to), E, hs, q, to)
   BY <1>3, <2>1, <2>3, ReenterRequeues
 <2> QED BY <2>4, <2>5
<1> HIDE DEF Step
<1>4. G \in StepFunctions(S, n) BY <1>3 DEF StepFunctions
<1>5. \E f : Iterates(f, S, n, r, G)
 <2> HIDE DEF G, S, n
 <2> QED BY <1>1, <1>2, <1>4, IterationExists
<1>6. PICK f : f \in [0 .. n -> S] /\ f[0] = r /\ \A i \in 1 .. n : f[i] = G[i][f[i - 1]]
  BY <1>5 DEF Iterates
<1>7. f = [i \in 0 .. n |->
              IF i = 0 THEN r ELSE IF OnPageOf(s[i], p) THEN Step(i, f[i - 1]) ELSE f[i - 1]]
 <2>1. ASSUME NEW i \in 0 .. n
       PROVE  f[i] = IF i = 0 THEN r
                     ELSE IF OnPageOf(s[i], p) THEN Step(i, f[i - 1]) ELSE f[i - 1]
  <3>1. CASE i = 0 BY <1>6, <3>1
  <3>2. CASE i # 0
   <4>1. i \in 1 .. n /\ i - 1 \in 0 .. n BY <1>1, <3>2
   <4>2. f[i - 1] \in S /\ f[i] = G[i][f[i - 1]] BY <1>6, <4>1
   <4> QED BY <3>2, <4>1, <4>2
  <3> QED BY <3>1, <3>2
 <2>2. f = [i \in 0 .. n |-> f[i]] BY <1>6
 <2> HIDE DEF n
 <2> QED BY <2>1, <2>2
<1> DEFINE after[i \in 0 .. Len(s)] ==
               IF i = 0 THEN ResetBits(s, p, hs)
               ELSE IF OnPageOf(s[i], p) THEN Reenter(after[i - 1], s[i], hs, q, to)
               ELSE after[i - 1]
<1>8. Requeue(s, p, hs, q, to) = after[n] BY DEF Requeue
<1>9. after = [i \in 0 .. Len(s) |->
                  IF i = 0 THEN ResetBits(s, p, hs)
                  ELSE IF OnPageOf(s[i], p) THEN Reenter(after[i - 1], s[i], hs, q, to)
                  ELSE after[i - 1]]
  BY <1>7 DEF after, Step
<1> HIDE DEF after, G
<1>10. after[0] = r
 <2>1. 0 \in 0 .. Len(s) BY <1>1
 <2> QED BY <1>9, <2>1
<1>11. ASSUME NEW i \in 1 .. n
       PROVE  after[i] = IF OnPageOf(s[i], p) THEN Step(i, after[i - 1]) ELSE after[i - 1]
 <2>1. i \in 0 .. Len(s) /\ i # 0 BY <1>1
 <2> QED BY <1>9, <2>1 DEF Step
<1> DEFINE T == [i \in 0 .. n |-> {w \in S : Requeued(s, r, w, Until(i), hs, q, to)}]
<1>12. after[0] \in T[0]
 <2>1. Until(0) = {}
  <3>1. \A d \in Cells(s, p, hs) : ~ (d[1] <= 0) BY <1>1 DEF Cells
  <3> QED BY <3>1
 <2>2. 0 \in 0 .. n BY <1>1
 <2> QED BY <1>2, <1>10, <2>1, <2>2
<1>13. \A i \in 1 .. n : after[i - 1] \in T[i - 1] => after[i] \in T[i]
 <2> SUFFICES ASSUME NEW i \in 1 .. n, after[i - 1] \in T[i - 1] PROVE after[i] \in T[i] OBVIOUS
 <2>1. i \in 0 .. n /\ i - 1 \in 0 .. n BY <1>1
 <2>2. after[i - 1] \in S /\ Requeued(s, r, after[i - 1], Until(i - 1), hs, q, to) BY <2>1
 <2>3. CASE OnPageOf(s[i], p)
  <3> HIDE DEF Until
  <3> QED BY <1>3, <1>11, <2>1, <2>2, <2>3
 <2>4. CASE ~ OnPageOf(s[i], p)
  <3>1. \A d \in Cells(s, p, hs) : d[1] # i /\ d[1] \in Int BY <1>1, <2>4 DEF Cells
  <3>2. \A d \in Cells(s, p, hs) : d[1] <= i - 1 <=> d[1] <= i BY <1>1, <3>1
  <3>3. Until(i) = Until(i - 1) BY <3>2
  <3> HIDE DEF Until
  <3> QED BY <1>11, <2>1, <2>2, <2>4, <3>3
 <2> QED BY <2>3, <2>4
<1>14. after[n] \in T[n]
 <2> HIDE DEF T
 <2> QED BY <1>1, <1>12, <1>13, IterationReaches
<1>15. Until(n) = Cells(s, p, hs) BY <1>1 DEF Cells
<1>16. n \in 0 .. n BY <1>1
<1> HIDE DEF Until
<1> QED BY <1>8, <1>14, <1>15, <1>16

-----------------------------------------------------------------------------

\* Where the bits are after the move.
PlaceAfter(P, p, hs, q, to) ==
    [g \in Heap |-> IF \E h \in hs : P[h] = p /\ to[h] = g THEN q
                    ELSE IF g \in hs /\ P[g] = p THEN NoPage ELSE P[g]]

\* lock_rec_move and its relatives keep what is right, all who waited wait, and who
\* owned a record owns it where it is now.
LEMMA RequeueKeeps ==
    ASSUME NEW s, NEW P \in Places, Good(s, P), NEW p, NEW hs, NEW q, NEW to,
           Movable(P, p, hs, q, to),
           NEW u, u = Requeue(s, p, hs, q, to), NEW Q, Q = PlaceAfter(P, p, hs, q, to)
    PROVE  /\ Q \in Places /\ Good(u, Q)
           /\ NobodyNew(s, u) /\ AllStillWait(s, u)
           /\ \A t : \A h \in hs : P[h] = p /\ h \notin Suprema /\ Owns(s, t, h) => Owns(u, t, to[h])
           /\ \A t : \A g \in Heap :
                 /\ g \notin hs \/ P[g] # p
                 /\ \A h \in hs : P[h] = p => to[h] # g
                 /\ Owns(s, t, g)
                 => Owns(u, t, g)
<1> DEFINE r == ResetBits(s, p, hs)
           D == Cells(s, p, hs)
<1>1. Requeued(s, r, u, D, hs, q, to) BY RequeueRequeues
<1>2. /\ s \in Seq(LockStruct) /\ u \in Seq(LockStruct)
      /\ DOMAIN s \subseteq Int /\ DOMAIN u \subseteq Int /\ DOMAIN s \subseteq DOMAIN u
  BY <1>1 DEF Good, Requeued, Stays
<1>3. r = ResetBits(s, p, hs) /\ \A x \in DOMAIN s : ResetAt(r[x], s[x], p, hs) BY <1>2, ResetBitsIs
<1>4. p \in Pages /\ q \in Pages /\ hs \subseteq Heap /\ \A h \in hs : to[h] \in Heap BY DEF Movable
\* the structs that are entered
<1>5. ASSUME NEW o \in DOMAIN s, NEW h \in hs, <<o, h>> \in D
      PROVE  /\ s[o] \in LockStruct /\ s[o].type = "REC" /\ s[o].page = p /\ h \in s[o].bits
             /\ P[h] = p
             /\ Moved(s[o], h, q, to).bits = {to[h]}
             /\ Moved(s[o], h, q, to).page = q
             /\ Moved(s[o], h, q, to).gap = GapOn(to[h], s[o].gap)
             /\ Moved(s[o], h, q, to).trx = s[o].trx
             /\ Moved(s[o], h, q, to).type = "REC"
             /\ Moved(s[o], h, q, to).mode = s[o].mode
             /\ Moved(s[o], h, q, to).ii = s[o].ii
             /\ Moved(s[o], h, q, to).wait = s[o].wait
 <2>1. s[o] \in LockStruct /\ s[o].type = "REC" /\ s[o].page = p /\ h \in s[o].bits
   BY <1>2, <1>5 DEF Cells, OnPageOf
 <2>2. P[h] = p BY <2>1 DEF Good, Placed
 <2> HIDE DEF D
 <2> QED BY <1>4, <2>1, <2>2, MovedType
<1>6. ASSUME NEW o \in DOMAIN s, NEW h \in hs, h \in s[o].bits, P[h] = p
      PROVE  <<o, h>> \in D
 <2>1. s[o].type = "REC" /\ s[o].page = p BY <1>6 DEF Good, Placed
 <2> QED BY <1>4, <1>6, <2>1 DEF Cells, OnPageOf
<1>7. ASSUME NEW x \in DOMAIN s
      PROVE  /\ x \in DOMAIN u /\ Alike(u[x], r[x]) /\ r[x].bits \subseteq u[x].bits
             /\ SameRequest(u[x], s[x]) /\ u[x].page = s[x].page
             /\ r[x].bits \subseteq s[x].bits
             /\ r[x].wait => r[x] = s[x] /\ u[x].bits = s[x].bits /\ u[x].wait
 <2>1. /\ x \in DOMAIN u /\ Alike(u[x], r[x]) /\ r[x].bits \subseteq u[x].bits
       /\ r[x].wait => u[x].bits = r[x].bits
   BY <1>1 DEF Requeued, Stays
 <2>2. ResetAt(r[x], s[x], p, hs) BY <1>3
 <2>3. r[x].bits \subseteq s[x].bits BY <2>2 DEF ResetAt
 <2> HIDE DEF r, D
 <2> QED BY <2>1, <2>2, <2>3 DEF Alike, ResetAt, SameRequest
<1>8. ASSUME NEW x \in DOMAIN s, NEW g \in s[x].bits, g \notin hs \/ P[g] # p
      PROVE  g \in r[x].bits
 <2>1. s[x].page = P[g] /\ ResetAt(r[x], s[x], p, hs) BY <1>3 DEF Good, Placed
 <2> HIDE DEF r, D
 <2> QED BY <1>8, <2>1 DEF ResetAt, OnPageOf
<1>9. ASSUME NEW x \in DOMAIN s, NEW g \in r[x].bits
      PROVE  /\ g \in s[x].bits /\ s[x].type = "REC" /\ s[x].page = P[g] /\ P[g] # NoPage
             /\ g \notin hs \/ P[g] # p
             /\ \A h \in hs : P[h] = p => to[h] # g
 <2>1. g \in s[x].bits /\ ResetAt(r[x], s[x], p, hs) BY <1>3, <1>7
 <2>2. s[x].type = "REC" /\ s[x].page = P[g] /\ s[x] \in LockStruct BY <1>2, <2>1 DEF Good, Placed
 <2>3. P[g] # NoPage BY <2>2 DEF LockStruct, Pages, NoPage
 <2>4. g \notin hs \/ P[g] # p BY <2>1, <2>2 DEF ResetAt, OnPageOf
 <2>5. \A h \in hs : P[h] = p => to[h] # g BY <2>3, <2>4 DEF Movable
 <2> HIDE DEF r, D
 <2> QED BY <2>1, <2>2, <2>3, <2>4, <2>5
<1>10. \A g \in Heap : Q[g] = IF \E h \in hs : P[h] = p /\ to[h] = g THEN q
                              ELSE IF g \in hs /\ P[g] = p THEN NoPage ELSE P[g]
  BY DEF PlaceAfter
<1>11. Q \in Places
 <2>1. \A g \in Heap : P[g] \in 0 .. 3 /\ q \in 0 .. 3 /\ NoPage \in 0 .. 3
   BY <1>4 DEF Places, Pages, NoPage
 <2>2. \A g \in Heap : Q[g] \in 0 .. 3 BY <1>10, <2>1
 <2>3. Q = [g \in Heap |-> Q[g]] BY DEF PlaceAfter
 <2> QED BY <2>2, <2>3 DEF Places
<1> HIDE DEF r, D
<1>12. Placed(u, Q)
 <2> SUFFICES ASSUME NEW x \in DOMAIN u, NEW g \in u[x].bits
              PROVE  u[x].type = "REC" /\ u[x].page = Q[g]
   BY DEF Placed
 <2>1. CASE x \in DOMAIN s /\ g \in r[x].bits
  <3>1. g \in Heap
   <4>1. u[x] \in LockStruct BY <1>2
   <4> QED BY <4>1 DEF LockStruct
  <3> QED BY <1>7, <1>9, <1>10, <2>1, <3>1 DEF SameRequest
 <2>2. CASE ~ (x \in DOMAIN s /\ g \in r[x].bits)
  <3>1. PICK o \in DOMAIN s, h \in hs :
            <<o, h>> \in D /\ g = to[h] /\ Alike(u[x], Moved(s[o], h, q, to))
    BY <1>1, <2>2 DEF Requeued, Origins
  <3>2. u[x].type = "REC" /\ u[x].page = q /\ P[h] = p BY <1>5, <3>1 DEF Alike
  <3> QED BY <1>4, <1>10, <3>1, <3>2
 <2> QED BY <2>1, <2>2
\* the waiters
<1>13. ASSUME NEW x \in DOMAIN u, u[x].wait
       PROVE  \/ x \in DOMAIN s /\ r[x].wait /\ s[x].wait
              \/ \E o \in DOMAIN s, h \in hs : Follows(s, u, D, q, to, o, h, x)
 <2>1. \A z \in DOMAIN s : r[z].wait => s[z].wait BY <1>3 DEF ResetAt
 <2> QED BY <1>1, <1>13, <2>1 DEF Requeued, WaitersFollow
<1>14. OneBit(u)
 <2> SUFFICES ASSUME NEW x \in DOMAIN u, u[x].wait, u[x].type = "REC"
              PROVE  \E h \in Heap : u[x].bits = {h} /\ (h \in Suprema => u[x].gap = "ORDINARY")
   BY DEF OneBit
 <2>1. CASE x \in DOMAIN s /\ r[x].wait /\ s[x].wait
  <3>1. u[x].bits = s[x].bits /\ s[x].type = "REC" /\ u[x].gap = s[x].gap
    BY <1>7, <2>1 DEF SameRequest
  <3> QED BY <2>1, <3>1 DEF Good, OneBit
 <2>2. CASE \E o \in DOMAIN s, h \in hs : Follows(s, u, D, q, to, o, h, x)
  <3>1. PICK o \in DOMAIN s, h \in hs : Follows(s, u, D, q, to, o, h, x) BY <2>2
  <3>2. u[x].bits = {to[h]} /\ u[x].gap = GapOn(to[h], s[o].gap) BY <1>5, <3>1 DEF Follows
  <3> QED BY <1>4, <3>2 DEF GapOn
 <2> QED BY <1>13, <2>1, <2>2
<1>15. Blocked(u)
 <2> SUFFICES ASSUME NEW x \in DOMAIN u, u[x].wait
              PROVE  HasToWaitInQueue(u, x)
   BY DEF Blocked
 <2>1. CASE x \in DOMAIN s /\ r[x].wait /\ s[x].wait
  <3>1. PICK y \in DOMAIN s : Blocks(s, y, x) BY <2>1 DEF Good, Blocked, HasToWaitInQueue
  <3>2. /\ SameRequest(u[x], s[x]) /\ u[x].bits = s[x].bits /\ r[x] = s[x]
        /\ SameRequest(u[y], s[y]) /\ y \in DOMAIN u /\ r[y].bits \subseteq u[y].bits
    BY <1>7, <2>1
  <3>3. s[x].bits \cap s[y].bits \subseteq u[y].bits
   <4> SUFFICES ASSUME NEW g \in s[x].bits, g \in s[y].bits PROVE g \in u[y].bits OBVIOUS
   <4>1. g \in r[x].bits BY <3>2
   <4>2. g \notin hs \/ P[g] # p BY <1>9, <2>1, <4>1
   <4> QED BY <1>8, <3>2, <4>2
  <3>4. y < x /\ x \in Int /\ y \in Int BY <1>2, <3>1 DEF Blocks
  <3>5. Blocks(u, y, x) BY <3>1, <3>2, <3>3, <3>4, BlocksStays
  <3> QED BY <3>2, <3>5 DEF HasToWaitInQueue
 <2>2. CASE \E o \in DOMAIN s, h \in hs : Follows(s, u, D, q, to, o, h, x)
  <3>1. PICK o \in DOMAIN s, h \in hs : Follows(s, u, D, q, to, o, h, x) BY <2>2
  <3>2. <<o, h>> \in D /\ s[o].wait /\ u[x] = Moved(s[o], h, q, to) BY <3>1 DEF Follows
  <3>3. s[o].type = "REC" /\ h \in s[o].bits /\ P[h] = p BY <1>5, <3>2
  <3>4. s[o].bits = {h}
   <4>1. PICK b \in Heap : s[o].bits = {b} BY <3>2, <3>3 DEF Good, OneBit
   <4> QED BY <3>3, <4>1
  <3>5. PICK y \in DOMAIN s : Blocks(s, y, o) BY <3>2 DEF Good, Blocked, HasToWaitInQueue
  <3>6. y < o /\ s[y].type = "REC" /\ h \in s[y].bits /\ LockHasToWait(s[o], s[y])
    BY <3>3, <3>4, <3>5 DEF Blocks, SameQueue
  <3>7. <<y, h>> \in D BY <1>6, <3>3, <3>6
  <3>8. PICK z \in DOMAIN u : z < x /\ Carries(u[z], s[y], h, q, to)
    BY <3>1, <3>6, <3>7 DEF Follows
  <3>9. /\ to[h] \in u[z].bits /\ u[z].trx = s[y].trx /\ u[z].mode = s[y].mode
        /\ u[z].gap = GapOn(to[h], s[y].gap) /\ u[z].ii = s[y].ii /\ u[z].type = "REC"
    BY <1>5, <3>7, <3>8 DEF Carries, Alike
  <3>10. /\ u[x].bits = {to[h]} /\ u[x].trx = s[o].trx /\ u[x].mode = s[o].mode
         /\ u[x].gap = GapOn(to[h], s[o].gap) /\ u[x].ii = s[o].ii /\ u[x].type = "REC"
    BY <1>5, <3>2
  <3>11. SameQueue(u[x], u[z]) BY <3>9, <3>10 DEF SameQueue
  <3>12. h \in Suprema <=> to[h] \in Suprema BY DEF Movable
  <3>13. /\ s[o].trx # s[y].trx /\ ~ Compatible(s[o].mode, s[y].mode)
         /\ RecHasToWait(s[o].trx, s[o].mode, s[o].gap, s[o].ii, s[y], h \in Suprema)
   <4>1. s[o].bits \cap Suprema # {} <=> h \in Suprema BY <3>4
   <4> QED BY <3>3, <3>6, <4>1 DEF LockHasToWait
  <3>14. RecHasToWait(u[x].trx, u[x].mode, u[x].gap, u[x].ii, u[z], to[h] \in Suprema)
    BY <3>9, <3>10, <3>12, <3>13 DEF RecHasToWait, GapOn
  <3>15. LockHasToWait(u[x], u[z])
   <4>1. u[x].bits \cap Suprema # {} <=> to[h] \in Suprema BY <3>10
   <4> QED BY <3>9, <3>10, <3>13, <3>14, <4>1 DEF LockHasToWait
  <3>16. Blocks(u, z, x) BY <3>8, <3>11, <3>15 DEF Blocks
  <3> QED BY <3>16 DEF HasToWaitInQueue
 <2> QED BY <1>13, <2>1, <2>2
<1>16. Good(u, Q) BY <1>1, <1>12, <1>14, <1>15 DEF Good, Requeued
<1>17. NobodyNew(s, u)
 <2>1. \A t : HasLock(u, t) => HasLock(s, t) BY <1>1 DEF HasLock, Requeued, Stays
 <2>2. ASSUME NEW x \in DOMAIN u, u[x].wait
       PROVE  \E i \in DOMAIN s : s[i].wait /\ s[i].trx = u[x].trx
  <3>1. CASE x \in DOMAIN s /\ r[x].wait /\ s[x].wait BY <1>7, <3>1 DEF SameRequest
  <3>2. CASE \E o \in DOMAIN s, h \in hs : Follows(s, u, D, q, to, o, h, x)
   <4>1. PICK o \in DOMAIN s, h \in hs : Follows(s, u, D, q, to, o, h, x) BY <3>2
   <4> QED BY <1>5, <4>1 DEF Follows
  <3> QED BY <1>13, <2>2, <3>1, <3>2
 <2>3. ASSUME NEW a, NEW b, WaitsOn(u, a, b)
       PROVE  WaitsOn(s, a, b)
  <3>1. PICK x, y \in DOMAIN u : u[x].trx = a /\ u[x].wait /\ u[y].trx = b /\ Blocks(u, y, x)
    BY <2>3 DEF WaitsOn
  <3>2. y < x /\ x \in Int /\ y \in Int BY <1>2, <3>1 DEF Blocks
  <3>3. CASE x \in DOMAIN s /\ r[x].wait /\ s[x].wait
   <4>1. y \in DOMAIN s
    <5>1. y \notin DOMAIN s => x < y BY <1>1, <3>3 DEF Requeued, Stays
    <5> QED BY <3>2, <5>1
   <4>2. /\ SameRequest(s[x], u[x]) /\ u[x].bits = s[x].bits /\ r[x] = s[x]
         /\ SameRequest(s[y], u[y])
     BY <1>7, <3>3, <4>1 DEF SameRequest
   <4>3. u[x].bits \cap u[y].bits \subseteq s[y].bits
    <5> SUFFICES ASSUME NEW g \in u[x].bits, g \in u[y].bits PROVE g \in s[y].bits OBVIOUS
    <5>1. \A h \in hs : P[h] = p => to[h] # g BY <1>9, <3>3, <4>2
    <5>2. \/ g \in r[y].bits
          \/ \E o \in DOMAIN s, h \in hs : <<o, h>> \in D /\ g = to[h]
      BY <1>1 DEF Requeued, Origins
    <5>3. ASSUME NEW o \in DOMAIN s, NEW h \in hs, <<o, h>> \in D, g = to[h]
          PROVE  FALSE
      BY <1>5, <5>1, <5>3
    <5> HIDE DEF r, D
    <5> QED BY Zenon, <1>7, <4>1, <5>2, <5>3
   <4>4. Blocks(s, y, x) BY <3>1, <3>2, <4>2, <4>3, BlocksStays
   <4> QED BY <3>1, <3>3, <4>1, <4>2, <4>4 DEF WaitsOn, SameRequest
  <3>4. CASE \E o \in DOMAIN s, h \in hs : Follows(s, u, D, q, to, o, h, x)
   <4>1. PICK o \in DOMAIN s, h \in hs : Follows(s, u, D, q, to, o, h, x) BY <3>4
   <4>2. <<o, h>> \in D /\ s[o].wait /\ u[x] = Moved(s[o], h, q, to) BY <4>1 DEF Follows
   <4>3. /\ s[o].type = "REC" /\ h \in s[o].bits /\ P[h] = p
         /\ u[x].bits = {to[h]} /\ u[x].trx = s[o].trx /\ u[x].mode = s[o].mode
         /\ u[x].gap = GapOn(to[h], s[o].gap) /\ u[x].ii = s[o].ii /\ u[x].type = "REC"
     BY <1>5, <4>2
   <4>4. s[o].bits = {h} /\ (h \in Suprema => s[o].gap = "ORDINARY")
    <5>1. PICK f \in Heap : s[o].bits = {f} /\ (f \in Suprema => s[o].gap = "ORDINARY")
      BY <4>2, <4>3 DEF Good, OneBit
    <5> QED BY <4>3, <5>1
   <4>5. to[h] \in u[y].bits /\ LockHasToWait(u[x], u[y])
     BY <3>1, <4>3 DEF Blocks, SameQueue
   <4>6. PICK e \in DOMAIN s : e < o /\ h \in s[e].bits /\ Alike(u[y], Moved(s[e], h, q, to))
     BY <3>1, <3>2, <4>1, <4>5 DEF Follows, ComesFrom
   <4>7. /\ s[e].type = "REC" /\ u[y].trx = s[e].trx /\ u[y].mode = s[e].mode
         /\ u[y].gap = GapOn(to[h], s[e].gap) /\ u[y].ii = s[e].ii
     BY ZenonT(60), <1>5, <1>6, <4>3, <4>6 DEF Alike
   <4>8. SameQueue(s[o], s[e]) BY <4>3, <4>6, <4>7 DEF SameQueue
   <4>9. h \in Suprema <=> to[h] \in Suprema BY DEF Movable
   <4>10. s[o].bits \cap Suprema # {} <=> u[x].bits \cap Suprema # {} BY <4>3, <4>4, <4>9
   <4>11. LockHasToWait(s[o], s[e])
     BY <4>3, <4>4, <4>5, <4>7, <4>9, <4>10 DEF LockHasToWait, RecHasToWait, GapOn
   <4> QED BY <3>1, <4>2, <4>3, <4>6, <4>7, <4>8, <4>11 DEF WaitsOn, Blocks
  <3> QED BY <1>13, <3>1, <3>3, <3>4
 <2> QED BY <2>1, <2>2, <2>3 DEF NobodyNew, FewerWaits, HasWaitLock
<1>18. AllStillWait(s, u)
 <2>1. ASSUME NEW i \in DOMAIN s, s[i].wait
       PROVE  \E x \in DOMAIN u : u[x].wait /\ u[x].trx = s[i].trx
  <3>1. CASE r[i].wait BY <1>7, <3>1 DEF SameRequest
  <3>2. CASE ~ r[i].wait
   <4>1. OnPageOf(s[i], p) /\ s[i].bits \cap hs # {} BY <1>3, <2>1, <3>2 DEF ResetAt
   <4>2. PICK h \in hs : h \in s[i].bits BY <4>1
   <4>3. P[h] = p BY <4>1, <4>2 DEF OnPageOf, Good, Placed
   <4>4. <<i, h>> \in D BY <1>6, <4>2, <4>3
   <4>5. PICK x \in DOMAIN u : Carries(u[x], s[i], h, q, to)
     BY <1>1, <4>4 DEF Requeued, AllCarried
   <4> QED BY <1>5, <2>1, <4>4, <4>5 DEF Carries, Alike
  <3> QED BY <3>1, <3>2
 <2> QED BY <2>1 DEF AllStillWait, HasWaitLock
<1>19. ASSUME NEW t, NEW h \in hs, P[h] = p, h \notin Suprema, Owns(s, t, h)
       PROVE  Owns(u, t, to[h])
 <2> SUFFICES ASSUME NEW x \in DOMAIN u, Holds(u[x], to[h]), u[x].trx # t
              PROVE  u[x].wait /\ GrantedX(u, t, to[h])
   BY DEF Owns
 <2>1. to[h] \in u[x].bits /\ to[h] \notin Suprema /\ u[x].gap # "GAP" /\ ~ u[x].ii
   BY DEF Holds, On
 <2>2. ~ (x \in DOMAIN s /\ to[h] \in r[x].bits) BY <1>9, <1>19
 <2>3. PICK o \in DOMAIN s, g \in hs :
           <<o, g>> \in D /\ to[h] = to[g] /\ Alike(u[x], Moved(s[o], g, q, to))
   BY ZenonT(60), <1>1, <2>1, <2>2 DEF Requeued, Origins
 <2>4. g = h BY <2>3 DEF Movable
 <2>5. /\ u[x].trx = s[o].trx /\ u[x].gap = GapOn(to[h], s[o].gap) /\ u[x].ii = s[o].ii
       /\ u[x].wait = s[o].wait /\ h \in s[o].bits /\ s[o].type = "REC"
   BY <1>5, <2>3, <2>4 DEF Alike
 <2>6. Holds(s[o], h) /\ s[o].trx # t BY <1>19, <2>1, <2>5 DEF Holds, On, GapOn
 <2>7. s[o].wait /\ GrantedX(s, t, h) BY <1>19, <2>6 DEF Owns
 <2>8. PICK j \in DOMAIN s : Holds(s[j], h) /\ s[j].trx = t /\ s[j].mode = "X" /\ ~ s[j].wait
   BY <2>7 DEF GrantedX
 <2>9. <<j, h>> \in D BY <1>6, <1>19, <2>8 DEF Holds, On
 <2>10. PICK z \in DOMAIN u : Carries(u[z], s[j], h, q, to) BY <1>1, <2>9 DEF Requeued, AllCarried
 <2>11. /\ to[h] \in u[z].bits /\ u[z].trx = t /\ u[z].mode = "X" /\ ~ u[z].wait
        /\ u[z].gap = GapOn(to[h], s[j].gap) /\ u[z].ii = s[j].ii /\ u[z].type = "REC"
   BY <1>5, <2>8, <2>9, <2>10 DEF Carries, Alike
 <2>12. Holds(u[z], to[h]) BY <2>1, <2>8, <2>11 DEF Holds, On, GapOn
 <2> QED BY <2>5, <2>7, <2>11, <2>12 DEF GrantedX
<1>20. ASSUME NEW t, NEW g \in Heap, g \notin hs \/ P[g] # p,
              \A h \in hs : P[h] = p => to[h] # g, Owns(s, t, g)
       PROVE  Owns(u, t, g)
 <2> SUFFICES ASSUME NEW x \in DOMAIN u, Holds(u[x], g), u[x].trx # t
              PROVE  u[x].wait /\ GrantedX(u, t, g)
   BY DEF Owns
 <2>1. x \in DOMAIN s /\ g \in r[x].bits
  <3>1. g \in u[x].bits BY DEF Holds, On
  <3>2. ASSUME NEW o \in DOMAIN s, NEW h \in hs, <<o, h>> \in D
        PROVE  g # to[h]
    BY <1>5, <1>20, <3>2
  <3>3. \/ x \in DOMAIN s /\ g \in r[x].bits
        \/ \E o \in DOMAIN s, h \in hs :
              <<o, h>> \in D /\ g = to[h] /\ Alike(u[x], Moved(s[o], h, q, to))
    BY <1>1, <3>1 DEF Requeued, Origins
  <3> QED BY <3>2, <3>3
 <2>2. Holds(s[x], g) /\ s[x].trx # t BY <1>7, <1>9, <2>1 DEF Holds, On, SameRequest
 <2>3. s[x].wait /\ GrantedX(s, t, g) BY <1>20, <2>1, <2>2 DEF Owns
 <2>4. r[x].wait
  <3>1. PICK b \in Heap : s[x].bits = {b} BY <2>1, <2>2, <2>3 DEF Good, OneBit, Holds, On
  <3>2. s[x].bits = {g} /\ s[x].page = P[g] BY <1>9, <2>1, <3>1
  <3>3. ~ (OnPageOf(s[x], p) /\ s[x].bits \cap hs # {}) BY <1>20, <3>2 DEF OnPageOf
  <3> QED BY <1>3, <2>1, <2>3, <3>3 DEF ResetAt
 <2>5. PICK j \in DOMAIN s : Holds(s[j], g) /\ s[j].trx = t /\ s[j].mode = "X" /\ ~ s[j].wait
   BY <2>3 DEF GrantedX
 <2>6. g \in u[j].bits /\ j \in DOMAIN u /\ SameRequest(u[j], s[j])
  <3>1. g \in r[j].bits BY <1>8, <1>20, <2>5 DEF Holds, On
  <3> QED BY <1>7, <2>5, <3>1
 <2>7. ~ u[j].wait
  <3>1. Alike(u[j], r[j]) /\ ResetAt(r[j], s[j], p, hs) BY <1>3, <1>7, <2>5
  <3> QED BY <2>5, <3>1 DEF Alike, ResetAt
 <2>8. Holds(u[j], g) BY <2>5, <2>6 DEF Holds, On, SameRequest
 <2>9. u[x].wait BY <1>7, <2>1, <2>4
 <2> QED BY <2>5, <2>6, <2>7, <2>8, <2>9 DEF GrantedX, SameRequest
<1> QED BY <1>11, <1>16, <1>17, <1>18, <1>19, <1>20

-----------------------------------------------------------------------------
(* A lock is granted, or a request enqueued *)

\* A granted lock that clashes with nothing goes to the queue of h.
LEMMA EnteredKeeps ==
    ASSUME NEW s, NEW P, Good(s, P), NEW l \in LockStruct, NEW h \in Heap, l.bits = {h},
           l.type = "REC", ~ l.wait, l.page = P[h],
           \A x \in DOMAIN s : ~ Clash(s[x], l),
           NEW u, Entered(s, u, l, h)
    PROVE  /\ Good(u, P)
           /\ \A t : /\ HasLock(u, t) => HasLock(s, t) \/ t = l.trx
                     /\ HasWaitLock(u, t) <=> HasWaitLock(s, t)
           /\ \A t, g : Owns(s, t, g) /\ (t = l.trx \/ g # h \/ GrantedX(s, t, g)) => Owns(u, t, g)
           /\ \A t, g : GrantedX(s, t, g) => GrantedX(u, t, g)
           /\ Holds(l, h) /\ l.mode = "X" => GrantedX(u, l.trx, h)
           /\ FewerWaits(s, u)
<1>1. s \in Seq(LockStruct) /\ u \in Seq(LockStruct) /\ DOMAIN s \subseteq Int /\ DOMAIN u \subseteq Int
  BY DEF Good, Entered
<1>2. PICK y \in DOMAIN u :
          /\ \A x \in DOMAIN s : x \in DOMAIN u /\ (x # y => u[x] = s[x])
          /\ \A x \in DOMAIN u : x # y => x \in DOMAIN s
          /\ Alike(u[y], l) /\ h \in u[y].bits
          /\ y \in DOMAIN s => /\ Alike(s[y], l) /\ u[y].bits = s[y].bits \cup {h}
                             /\ ~ SomebodyWaitsOn(s, l.page, h)
          /\ y \notin DOMAIN s => u[y] = l /\ \A x \in DOMAIN s : x < y
  BY DEF Entered
<1>3. /\ u[y].type = "REC" /\ ~ u[y].wait /\ u[y].page = P[h]
      /\ u[y].trx = l.trx /\ u[y].mode = l.mode /\ u[y].gap = l.gap /\ u[y].ii = l.ii
  BY <1>2 DEF Alike
<1>4. ASSUME NEW x \in DOMAIN s
      PROVE  /\ x \in DOMAIN u /\ Alike(u[x], s[x]) /\ s[x].bits \subseteq u[x].bits
             /\ s[x].wait => x # y /\ u[x] = s[x]
 <2>1. CASE x # y BY <1>2, <2>1 DEF Alike
 <2>2. CASE x = y BY <1>2, <2>2 DEF Alike
 <2> QED BY <2>1, <2>2
<1>5. ASSUME NEW x \in DOMAIN u, u[x].wait
      PROVE  x # y /\ x \in DOMAIN s /\ u[x] = s[x] /\ s[x].wait
  BY <1>2, <1>3, <1>5
<1>6. ASSUME NEW x \in DOMAIN u, NEW g, g \in u[x].bits, x # y \/ g # h
      PROVE  x \in DOMAIN s /\ g \in s[x].bits
  BY <1>2, <1>6
<1>7. Placed(u, P)
 <2> SUFFICES ASSUME NEW x \in DOMAIN u, NEW g \in u[x].bits
              PROVE  u[x].type = "REC" /\ u[x].page = P[g]
   BY DEF Placed
 <2>1. CASE x = y /\ g = h BY <1>3, <2>1
 <2>2. CASE ~ (x = y /\ g = h)
  <3>1. x \in DOMAIN s /\ g \in s[x].bits /\ Alike(u[x], s[x]) BY <1>4, <1>6, <2>2
  <3> QED BY <3>1 DEF Good, Placed, Alike
 <2> QED BY <2>1, <2>2
<1>8. OneBit(u) /\ OneWait(u) BY <1>5 DEF Good, OneBit, OneWait
<1>9. Blocked(u)
 <2> SUFFICES ASSUME NEW x \in DOMAIN u, u[x].wait PROVE HasToWaitInQueue(u, x) BY DEF Blocked
 <2>1. x \in DOMAIN s /\ u[x] = s[x] /\ s[x].wait BY <1>5
 <2>2. PICK z \in DOMAIN s : Blocks(s, z, x) BY <2>1 DEF Good, Blocked, HasToWaitInQueue
 <2>3. z \in DOMAIN u /\ SameRequest(u[z], s[z]) /\ s[z].bits \subseteq u[z].bits
   BY <1>4 DEF Alike, SameRequest
 <2>4. z < x /\ z \in Int /\ x \in Int /\ SameRequest(u[x], s[x]) /\ u[x].bits = s[x].bits
   BY <1>1, <2>1, <2>2 DEF Blocks, SameRequest
 <2>5. s[x].bits \cap s[z].bits \subseteq u[z].bits BY <2>3
 <2>6. Blocks(u, z, x) BY <2>2, <2>3, <2>4, <2>5, BlocksStays
 <2> QED BY <2>3, <2>6 DEF HasToWaitInQueue
<1>10. ASSUME NEW x \in DOMAIN s, Holds(s[x], h), Holds(l, h), s[x].trx # l.trx
       PROVE  Compatible(s[x].mode, l.mode)
  BY <1>10 DEF Clash
<1>11. ASSUME NEW x \in DOMAIN u, NEW g, Holds(u[x], g), x # y \/ g # h
       PROVE  x \in DOMAIN s /\ Holds(s[x], g)
 <2>1. x \in DOMAIN s /\ g \in s[x].bits BY <1>6, <1>11 DEF Holds, On
 <2>2. Alike(u[x], s[x]) BY <1>4, <2>1
 <2> QED BY <1>11, <2>1, <2>2 DEF Holds, On, Alike
<1>12. Holds(u[y], h) <=> Holds(l, h) BY <1>2, <1>3 DEF Holds, On
<1>13. Ordered(u)
 <2> SUFFICES ASSUME NEW x \in DOMAIN u, NEW z \in DOMAIN u, x < z, ~ u[z].wait,
                     Clash(u[x], u[z])
              PROVE  FALSE
   BY DEF Ordered
 <2>1. x # z BY <1>1
 <2>2. /\ x \in DOMAIN s => u[x].trx = s[x].trx /\ u[x].mode = s[x].mode /\ u[x].type = s[x].type
       /\ z \in DOMAIN s => /\ u[z].trx = s[z].trx /\ u[z].mode = s[z].mode
                            /\ u[z].type = s[z].type /\ u[z].wait = s[z].wait
   BY <1>4 DEF Alike
 <2>3. CASE x \in DOMAIN s /\ z \in DOMAIN s /\ Clash(s[x], s[z]) BY <2>2, <2>3 DEF Good, Ordered
 <2>4. CASE u[x].type = "TABLE" /\ u[z].type = "TABLE"
  <3>1. x # y /\ z # y BY <1>3, <2>4
  <3>2. x \in DOMAIN s /\ z \in DOMAIN s /\ Clash(s[x], s[z]) BY <1>2, <3>1
  <3> QED BY <2>3, <3>2
 <2>5. CASE ~ (u[x].type = "TABLE" /\ u[z].type = "TABLE")
  <3>1. PICK g \in Heap : Holds(u[x], g) /\ Holds(u[z], g) BY <2>5 DEF Clash
  <3>2. CASE x = y /\ g = h
   <4>1. z \in DOMAIN s /\ Holds(s[z], h) /\ Holds(l, h) BY <1>11, <1>12, <2>1, <3>1, <3>2
   <4>2. l.trx # s[z].trx /\ ~ Compatible(l.mode, s[z].mode) BY <1>3, <2>2, <3>2, <4>1 DEF Clash
   <4>3. ~ Compatible(s[z].mode, l.mode) BY <4>2 DEF Compatible
   <4> QED BY <1>10, <4>1, <4>2, <4>3
  <3>3. CASE z = y /\ g = h
   <4>1. x \in DOMAIN s /\ Holds(s[x], h) /\ Holds(l, h) BY <1>11, <1>12, <2>1, <3>1, <3>3
   <4>2. l.trx # s[x].trx /\ ~ Compatible(s[x].mode, l.mode) BY <1>3, <2>2, <3>3, <4>1 DEF Clash
   <4> QED BY <1>10, <4>1, <4>2
  <3>4. CASE ~ (x = y /\ g = h) /\ ~ (z = y /\ g = h)
   <4>1. x \in DOMAIN s /\ z \in DOMAIN s /\ Holds(s[x], g) /\ Holds(s[z], g)
     BY <1>11, <3>1, <3>4
   <4>2. Clash(s[x], s[z]) BY <2>2, <4>1 DEF Clash
   <4> QED BY <2>3, <4>1, <4>2
  <3> QED BY <3>2, <3>3, <3>4
 <2> QED BY <2>4, <2>5
<1>14. Good(u, P) BY <1>1, <1>7, <1>8, <1>9, <1>13 DEF Good
<1>15. \A t : HasLock(u, t) => HasLock(s, t) \/ t = l.trx
 <2>1. \A x \in DOMAIN u : x = y \/ (x \in DOMAIN s /\ u[x] = s[x]) BY <1>2
 <2> QED BY <1>3, <2>1 DEF HasLock
<1>16. \A t : HasWaitLock(u, t) <=> HasWaitLock(s, t)
 <2>1. \A x \in DOMAIN s : s[x].wait => x \in DOMAIN u /\ u[x] = s[x] BY <1>4
 <2> QED BY <1>5, <2>1 DEF HasWaitLock
<1>17. ASSUME NEW t, NEW g, GrantedX(s, t, g)
       PROVE  GrantedX(u, t, g)
 <2>1. PICK j \in DOMAIN s : Holds(s[j], g) /\ s[j].trx = t /\ s[j].mode = "X" /\ ~ s[j].wait
   BY <1>17 DEF GrantedX
 <2>2. j \in DOMAIN u /\ Alike(u[j], s[j]) /\ s[j].bits \subseteq u[j].bits BY <1>4
 <2>3. Holds(u[j], g) BY <2>1, <2>2 DEF Holds, On, Alike
 <2> QED BY <2>1, <2>2, <2>3 DEF GrantedX, Alike
<1>18. Holds(l, h) /\ l.mode = "X" => GrantedX(u, l.trx, h) BY <1>3, <1>12 DEF GrantedX
<1>19. ASSUME NEW t, NEW g, Owns(s, t, g), t = l.trx \/ g # h \/ GrantedX(s, t, g)
       PROVE  Owns(u, t, g)
 <2> SUFFICES ASSUME NEW x \in DOMAIN u, Holds(u[x], g), u[x].trx # t
              PROVE  u[x].wait /\ GrantedX(u, t, g)
   BY DEF Owns
 <2>1. CASE x # y \/ g # h
  <3>1. x \in DOMAIN s /\ Holds(s[x], g) /\ Alike(u[x], s[x]) BY <1>4, <1>11, <2>1
  <3>2. s[x].wait /\ GrantedX(s, t, g) BY <1>19, <3>1 DEF Owns, Alike
  <3> QED BY <1>17, <3>1, <3>2 DEF Alike
 <2>2. CASE x = y /\ g = h
  <3>1. GrantedX(s, t, h) /\ l.trx # t /\ Holds(l, h) BY <1>3, <1>12, <1>19, <2>2
  <3>2. PICK j \in DOMAIN s : Holds(s[j], h) /\ s[j].trx = t /\ s[j].mode = "X"
    BY <3>1 DEF GrantedX
  <3>3. ~ Compatible("X", l.mode) BY DEF Compatible
  <3> QED BY <1>10, <3>1, <3>2, <3>3
 <2> QED BY <2>1, <2>2
<1>20. ASSUME NEW t, NEW w, WaitsOn(u, t, w)
       PROVE  WaitsOn(s, t, w)
 <2>1. PICK x, z \in DOMAIN u : u[x].trx = t /\ u[x].wait /\ u[z].trx = w /\ Blocks(u, z, x)
   BY <1>20 DEF WaitsOn
 <2>2. x \in DOMAIN s /\ u[x] = s[x] /\ s[x].wait BY <1>5, <2>1
 <2>3. z < x /\ x \in Int /\ z \in Int BY <1>1, <2>1 DEF Blocks
 <2>4. z \in DOMAIN s /\ Alike(u[z], s[z])
  <3>1. z \notin DOMAIN s => x < z BY <1>2, <2>2
  <3> QED BY <1>4, <2>3, <3>1
 <2>5. u[x].bits \cap u[z].bits \subseteq s[z].bits
  <3> SUFFICES ASSUME h \in s[x].bits, z = y PROVE FALSE BY <1>6, <2>2
  <3>1. s[x].type = "REC" /\ s[x].page = P[h] BY <2>2 DEF Good, Placed
  <3> QED BY <1>2, <2>2, <2>4, <3>1 DEF SomebodyWaitsOn, On
 <2>6. SameRequest(s[x], u[x]) /\ SameRequest(s[z], u[z]) BY <2>2, <2>4 DEF Alike, SameRequest
 <2>7. Blocks(s, z, x) BY <2>1, <2>2, <2>3, <2>5, <2>6, BlocksStays
 <2> QED BY <2>1, <2>2, <2>4, <2>7 DEF WaitsOn, Alike
<1> QED BY <1>14, <1>15, <1>16, <1>17, <1>18, <1>19, <1>20 DEF FewerWaits

\* A struct of its own at the end, for a request that has to wait or a table lock.
LEMMA AppendKeeps ==
    ASSUME NEW s, NEW P, Good(s, P), NEW l \in LockStruct,
           \A h \in l.bits : l.type = "REC" /\ l.page = P[h],
           ~ l.wait => \A x \in DOMAIN s : ~ Clash(s[x], l),
           l.wait => /\ l.type = "REC" =>
                           \E h \in Heap : l.bits = {h} /\ (h \in Suprema => l.gap = "ORDINARY")
                     /\ ~ HasWaitLock(s, l.trx)
                     /\ \E x \in DOMAIN s : SameQueue(l, s[x]) /\ LockHasToWait(l, s[x]),
           NEW u, u = Append(s, l)
    PROVE  /\ Good(u, P)
           /\ \A t : /\ HasLock(u, t) <=> HasLock(s, t) \/ t = l.trx
                     /\ HasWaitLock(u, t) <=> HasWaitLock(s, t) \/ (l.wait /\ t = l.trx)
           /\ \A t, g : /\ Owns(s, t, g)
                        /\ Holds(l, g) => t = l.trx \/ (l.wait /\ GrantedX(s, t, g))
                        => Owns(u, t, g)
           /\ \A t, g : GrantedX(s, t, g) => GrantedX(u, t, g)
           /\ \A g : Holds(l, g) /\ l.mode = "X" => HasX(u, l.trx, g)
           /\ \A x \in DOMAIN u : l.wait /\ u[x].wait /\ u[x].trx = l.trx => x = Len(u)
           /\ IF l.wait THEN OnlyWaits(s, u, l.trx) ELSE FewerWaits(s, u)
<1> DEFINE y == Len(s) + 1
<1>1. /\ s \in Seq(LockStruct) /\ u \in Seq(LockStruct) /\ Len(u) = y /\ y \in DOMAIN u /\ u[y] = l
      /\ \A x \in DOMAIN s : x \in DOMAIN u /\ u[x] = s[x] /\ x < y
      /\ \A x \in DOMAIN u : x # y => x \in DOMAIN s
      /\ y \in Int /\ DOMAIN s \subseteq Int /\ DOMAIN u \subseteq Int /\ y \notin DOMAIN s
 <2>1. s \in Seq(LockStruct) BY DEF Good
 <2>2. /\ u \in Seq(LockStruct) /\ Len(u) = y /\ Len(s) \in Nat /\ u[y] = l
       /\ DOMAIN s = 1 .. Len(s) /\ DOMAIN u = 1 .. y /\ \A x \in DOMAIN s : u[x] = s[x]
   BY <2>1
 <2> HIDE DEF y
 <2>3. y = Len(s) + 1 BY DEF y
 <2> QED BY <2>1, <2>2, <2>3
<1> HIDE DEF y
<1>2. Placed(u, P)
 <2> SUFFICES ASSUME NEW x \in DOMAIN u, NEW g \in u[x].bits
              PROVE  u[x].type = "REC" /\ u[x].page = P[g]
   BY DEF Placed
 <2>1. CASE x = y BY <1>1, <2>1
 <2>2. CASE x # y BY <1>1, <2>2 DEF Good, Placed
 <2> QED BY <2>1, <2>2
<1>3. OneBit(u) BY <1>1 DEF Good, OneBit
<1>4. ASSUME NEW x \in DOMAIN u, u[x].wait, u[x].trx = l.trx, l.wait
      PROVE  x = y
  BY <1>1, <1>4 DEF HasWaitLock
<1>5. OneWait(u)
 <2> SUFFICES ASSUME NEW x \in DOMAIN u, NEW z \in DOMAIN u, u[x].wait, u[z].wait,
                     u[x].trx = u[z].trx, x # z
              PROVE  FALSE
   BY DEF OneWait
 <2>1. CASE x = y \/ z = y BY <1>1, <1>4, <2>1
 <2>2. CASE x # y /\ z # y BY <1>1, <2>2 DEF Good, OneWait
 <2> QED BY <2>1, <2>2
<1>6. Ordered(u)
 <2> SUFFICES ASSUME NEW x \in DOMAIN u, NEW z \in DOMAIN u, x < z, ~ u[z].wait,
                     Clash(u[x], u[z])
              PROVE  FALSE
   BY DEF Ordered
 <2>1. x # y
  <3> SUFFICES ASSUME x = y PROVE FALSE OBVIOUS
  <3>1. z # y /\ z \in DOMAIN s BY <1>1
  <3>2. z < y /\ z \in Int BY <1>1, <3>1
  <3> QED BY <1>1, <3>2
 <2>2. x \in DOMAIN s /\ u[x] = s[x] BY <1>1, <2>1
 <2>3. CASE z = y BY <1>1, <2>2, <2>3
 <2>4. CASE z # y BY <1>1, <2>2, <2>4 DEF Good, Ordered
 <2> QED BY <2>3, <2>4
<1>7. Blocked(u)
 <2> SUFFICES ASSUME NEW x \in DOMAIN u, u[x].wait PROVE HasToWaitInQueue(u, x) BY DEF Blocked
 <2>1. CASE x = y
  <3>1. PICK z \in DOMAIN s : SameQueue(l, s[z]) /\ LockHasToWait(l, s[z]) BY <1>1, <2>1
  <3>2. Blocks(u, z, x) BY <1>1, <2>1, <3>1 DEF Blocks
  <3> QED BY <1>1, <3>2 DEF HasToWaitInQueue
 <2>2. CASE x # y
  <3>1. x \in DOMAIN s /\ u[x] = s[x] BY <1>1, <2>2
  <3>2. PICK z \in DOMAIN s : Blocks(s, z, x) BY <3>1 DEF Good, Blocked, HasToWaitInQueue
  <3>3. Blocks(u, z, x) BY <1>1, <3>1, <3>2 DEF Blocks
  <3> QED BY <1>1, <3>3 DEF HasToWaitInQueue
 <2> QED BY <2>1, <2>2
<1>8. Good(u, P) BY <1>1, <1>2, <1>3, <1>5, <1>6, <1>7 DEF Good
<1>9. \A t : HasLock(u, t) <=> HasLock(s, t) \/ t = l.trx
 <2>1. \A x \in DOMAIN u : x = y \/ (x \in DOMAIN s /\ u[x] = s[x]) BY <1>1
 <2> QED BY <1>1, <2>1 DEF HasLock
<1>10. \A t : HasWaitLock(u, t) <=> HasWaitLock(s, t) \/ (l.wait /\ t = l.trx)
 <2>1. \A x \in DOMAIN u : x = y \/ (x \in DOMAIN s /\ u[x] = s[x]) BY <1>1
 <2> QED BY <1>1, <2>1 DEF HasWaitLock
<1>11. ASSUME NEW t, NEW g, GrantedX(s, t, g)
       PROVE  GrantedX(u, t, g)
  BY <1>1, <1>11 DEF GrantedX
<1>12. \A g : Holds(l, g) /\ l.mode = "X" => HasX(u, l.trx, g) BY <1>1 DEF HasX
<1>13. ASSUME NEW t, NEW g, Owns(s, t, g),
              Holds(l, g) => t = l.trx \/ (l.wait /\ GrantedX(s, t, g))
       PROVE  Owns(u, t, g)
 <2> SUFFICES ASSUME NEW x \in DOMAIN u, Holds(u[x], g), u[x].trx # t
              PROVE  u[x].wait /\ GrantedX(u, t, g)
   BY DEF Owns
 <2>1. CASE x = y BY <1>1, <1>11, <1>13, <2>1
 <2>2. CASE x # y
  <3>1. x \in DOMAIN s /\ u[x] = s[x] BY <1>1, <2>2
  <3>2. s[x].wait /\ GrantedX(s, t, g) BY <1>13, <3>1 DEF Owns
  <3> QED BY <1>11, <3>1, <3>2
 <2> QED BY <2>1, <2>2
<1>14. ASSUME NEW x \in DOMAIN u, u[x].wait, u[x].trx = l.trx
       PROVE  l.wait => x = Len(u)
  BY <1>1, <1>4, <1>14
<1>15. ASSUME NEW t, NEW w, WaitsOn(u, t, w)
       PROVE  WaitsOn(s, t, w) \/ (l.wait /\ t = l.trx)
 <2>1. PICK x, z \in DOMAIN u : u[x].trx = t /\ u[x].wait /\ u[z].trx = w /\ Blocks(u, z, x)
   BY <1>15 DEF WaitsOn
 <2>2. CASE x = y BY <1>1, <2>1, <2>2
 <2>3. CASE x # y
  <3>1. x \in DOMAIN s /\ z < x /\ x < y BY <1>1, <2>1, <2>3 DEF Blocks
  <3>2. z # y BY <1>1, <2>1, <3>1
  <3>3. z \in DOMAIN s /\ u[x] = s[x] /\ u[z] = s[z] BY <1>1, <3>1, <3>2
  <3> QED BY <2>1, <3>1, <3>3 DEF WaitsOn, Blocks
 <2> QED BY <2>2, <2>3
<1> QED
  BY <1>8, <1>9, <1>10, <1>11, <1>12, <1>13, <1>14, <1>15 DEF OnlyWaits, FewerWaits

-----------------------------------------------------------------------------
(* Locks are released, and requests granted or taken back *)

\* u is what is left of s, where x is what f[x] was: nothing is added or changes its
\* place, and a request that waits no longer has no bit left or nobody to wait for.
Thinned(s, u, f) ==
    /\ u \in Seq(LockStruct)
    /\ \A x \in DOMAIN u :
          /\ f[x] \in DOMAIN s
          /\ SameRequest(u[x], s[f[x]]) /\ u[x].page = s[f[x]].page
          /\ u[x].bits \subseteq s[f[x]].bits
          /\ u[x].wait => s[f[x]].wait /\ u[x].bits = s[f[x]].bits
          /\ s[f[x]].wait /\ ~ u[x].wait =>
                \/ u[x].type = "REC" /\ u[x].bits = {}
                \/ u[x].bits = s[f[x]].bits /\ ~ HasToWaitInQueue(u, x)
    /\ \A x, y \in DOMAIN u : f[x] < f[y] <=> x < y

\* Who is blocked stays so while the lock ahead of it keeps the bits they share.
LEMMA StaysBlocked ==
    ASSUME NEW s \in Seq(LockStruct), NEW u, NEW f, Thinned(s, u, f),
           NEW x \in DOMAIN u, u[x].wait, NEW y \in DOMAIN u, Blocks(s, f[y], f[x]),
           s[f[x]].bits \cap s[f[y]].bits \subseteq u[y].bits
    PROVE  HasToWaitInQueue(u, x)
<1>1. y < x /\ x \in Int /\ y \in Int BY DEF Thinned, Blocks
<1>2. SameRequest(u[x], s[f[x]]) /\ u[x].bits = s[f[x]].bits /\ SameRequest(u[y], s[f[y]])
  BY DEF Thinned
<1>3. Blocks(u, y, x) BY <1>1, <1>2, BlocksStays
<1> QED BY <1>3 DEF HasToWaitInQueue

\* Who clashes with what is ahead of its single bit has to wait for it.
LEMMA ClashBlocks ==
    ASSUME NEW u \in Seq(LockStruct), NEW x \in DOMAIN u, NEW z \in DOMAIN u, x < z,
           Clash(u[x], u[z]), u[z].type = "REC" => \E h \in Heap : u[z].bits = {h}
    PROVE  HasToWaitInQueue(u, z)
<1>1. u[z].trx # u[x].trx /\ ~ Compatible(u[z].mode, u[x].mode) BY DEF Clash, Compatible
<1>2. CASE u[x].type = "TABLE" /\ u[z].type = "TABLE"
  BY <1>1, <1>2 DEF HasToWaitInQueue, Blocks, SameQueue, LockHasToWait
<1>3. CASE ~ (u[x].type = "TABLE" /\ u[z].type = "TABLE")
 <2>1. PICK h \in Heap : Holds(u[x], h) /\ Holds(u[z], h) BY <1>3 DEF Clash
 <2>2. SameQueue(u[z], u[x]) /\ u[z].type = "REC" /\ u[x].type = "REC"
   BY <2>1 DEF SameQueue, Holds, On
 <2>3. u[z].bits = {h} BY <2>1, <2>2 DEF Holds, On
 <2>4. RecHasToWait(u[z].trx, u[z].mode, u[z].gap, u[z].ii, u[x], u[z].bits \cap Suprema # {})
   BY <1>1, <2>1, <2>3 DEF RecHasToWait, Holds
 <2> QED BY <1>1, <2>2, <2>4 DEF HasToWaitInQueue, Blocks, LockHasToWait
<1> QED BY <1>2, <1>3

\* A lock table some of whose bits or structs have gone is in order if all that still
\* wait are blocked.
LEMMA ThinnedKeeps ==
    ASSUME NEW s, NEW P, Good(s, P), NEW u, NEW f, Thinned(s, u, f), Blocked(u),
           NEW Q, \A x \in DOMAIN u : \A h \in u[x].bits : Q[h] = P[h]
    PROVE  /\ Good(u, Q)
           /\ NobodyNew(s, u)
           /\ \A t, g : Owns(s, t, g) /\ (GrantedX(s, t, g) => GrantedX(u, t, g)) => Owns(u, t, g)
<1>1. s \in Seq(LockStruct) /\ u \in Seq(LockStruct) /\ DOMAIN u \subseteq Int /\ DOMAIN s \subseteq Int
  BY DEF Good, Thinned
<1>2. ASSUME NEW x \in DOMAIN u
      PROVE  /\ f[x] \in DOMAIN s /\ u[x].page = s[f[x]].page
             /\ u[x].trx = s[f[x]].trx /\ u[x].type = s[f[x]].type /\ u[x].mode = s[f[x]].mode
             /\ u[x].gap = s[f[x]].gap /\ u[x].ii = s[f[x]].ii
             /\ u[x].bits \subseteq s[f[x]].bits
             /\ u[x].wait => s[f[x]].wait /\ u[x].bits = s[f[x]].bits
             /\ s[f[x]].wait /\ ~ u[x].wait =>
                  \/ u[x].type = "REC" /\ u[x].bits = {}
                  \/ u[x].bits = s[f[x]].bits /\ ~ HasToWaitInQueue(u, x)
  BY DEF Thinned, SameRequest
<1>3. \A x, y \in DOMAIN u : f[x] < f[y] <=> x < y BY DEF Thinned
<1>4. Placed(u, Q) BY <1>2 DEF Good, Placed
<1>5. OneBit(u) BY <1>2 DEF Good, OneBit
<1>6. \A x, y \in DOMAIN u : f[x] = f[y] => x = y
 <2> SUFFICES ASSUME NEW x \in DOMAIN u, NEW y \in DOMAIN u, f[x] = f[y] PROVE x = y OBVIOUS
 <2>1. f[x] \in Int /\ f[y] \in Int /\ x \in Int /\ y \in Int BY <1>1, <1>2
 <2>2. ~ (x < y) /\ ~ (y < x) BY <1>3, <2>1
 <2> QED BY <2>1, <2>2
<1>7. OneWait(u) BY <1>2, <1>6 DEF Good, OneWait
<1>8. ASSUME NEW x \in DOMAIN u, NEW g, Holds(u[x], g)
      PROVE  Holds(s[f[x]], g)
  BY <1>2, <1>8 DEF Holds, On
<1>9. ASSUME NEW x \in DOMAIN u, NEW z \in DOMAIN u, Clash(u[x], u[z])
      PROVE  Clash(s[f[x]], s[f[z]])
  BY <1>2, <1>8, <1>9 DEF Clash
<1>10. Ordered(u)
 <2> SUFFICES ASSUME NEW x \in DOMAIN u, NEW z \in DOMAIN u, x < z, ~ u[z].wait,
                     Clash(u[x], u[z])
              PROVE  FALSE
   BY DEF Ordered
 <2>1. CASE ~ s[f[z]].wait BY <1>2, <1>3, <1>9, <2>1 DEF Good, Ordered
 <2>2. CASE s[f[z]].wait
  <3>1. ~ (u[z].type = "REC" /\ u[z].bits = {}) BY DEF Clash, Holds, On
  <3>2. u[z].bits = s[f[z]].bits /\ ~ HasToWaitInQueue(u, z) BY <1>2, <2>2, <3>1
  <3>3. u[z].type = "REC" => \E h \in Heap : u[z].bits = {h} BY <1>2, <2>2, <3>2 DEF Good, OneBit
  <3> QED BY <1>1, <3>2, <3>3, ClashBlocks
 <2> QED BY <2>1, <2>2
<1>11. Good(u, Q) BY <1>1, <1>4, <1>5, <1>7, <1>10 DEF Good
<1>12. NobodyNew(s, u)
 <2>1. \A t : HasLock(u, t) => HasLock(s, t) BY <1>2 DEF HasLock
 <2>2. \A t : HasWaitLock(u, t) => HasWaitLock(s, t) BY <1>2 DEF HasWaitLock
 <2>3. ASSUME NEW t, NEW w, WaitsOn(u, t, w)
       PROVE  WaitsOn(s, t, w)
  <3>1. PICK x, y \in DOMAIN u : u[x].trx = t /\ u[x].wait /\ u[y].trx = w /\ Blocks(u, y, x)
    BY <2>3 DEF WaitsOn
  <3>2. f[y] < f[x] /\ f[x] \in Int /\ f[y] \in Int BY <1>1, <1>2, <1>3, <3>1 DEF Blocks
  <3>3. SameRequest(s[f[x]], u[x]) /\ SameRequest(s[f[y]], u[y]) BY <1>2 DEF SameRequest
  <3>4. s[f[x]].bits = u[x].bits /\ u[x].bits \cap u[y].bits \subseteq s[f[y]].bits BY <1>2, <3>1
  <3>5. Blocks(s, f[y], f[x]) BY <3>1, <3>2, <3>3, <3>4, BlocksStays
  <3> QED BY <1>2, <3>1, <3>5 DEF WaitsOn
 <2> QED BY <2>1, <2>2, <2>3 DEF NobodyNew, FewerWaits
<1>13. ASSUME NEW t, NEW g, Owns(s, t, g), GrantedX(s, t, g) => GrantedX(u, t, g)
       PROVE  Owns(u, t, g)
 <2> SUFFICES ASSUME NEW x \in DOMAIN u, Holds(u[x], g), u[x].trx # t
              PROVE  u[x].wait /\ GrantedX(u, t, g)
   BY DEF Owns
 <2>1. s[f[x]].wait /\ GrantedX(s, t, g) BY <1>2, <1>8, <1>13 DEF Owns
 <2>2. PICK y \in DOMAIN u : Holds(u[y], g) /\ u[y].trx = t /\ u[y].mode = "X" /\ ~ u[y].wait
   BY <1>13, <2>1 DEF GrantedX
 <2>3. SUFFICES ASSUME ~ u[x].wait PROVE FALSE BY <1>13, <2>1
 <2>4. ~ (u[x].type = "REC" /\ u[x].bits = {}) BY DEF Holds, On
 <2>5. u[x].bits = s[f[x]].bits /\ ~ HasToWaitInQueue(u, x) BY <1>2, <2>1, <2>3, <2>4
 <2>6. u[x].type = "REC" => \E h \in Heap : u[x].bits = {h} BY <1>2, <2>1, <2>5 DEF Good, OneBit
 <2>7. g \in Heap
  <3>1. u[x] \in LockStruct /\ g \in u[x].bits BY <1>1 DEF Holds, On
  <3> QED BY <3>1 DEF LockStruct
 <2>8. Clash(u[x], u[y]) /\ Clash(u[y], u[x]) BY <2>2, <2>7 DEF Clash, Compatible
 <2>9. ~ (x < y) BY <1>10, <2>2, <2>8 DEF Ordered
 <2>10. x # y BY <2>2
 <2>11. y < x BY <1>1, <2>9, <2>10
 <2> QED BY <1>1, <2>5, <2>6, <2>8, <2>11, ClashBlocks
<1> QED BY <1>11, <1>12, <1>13

\* Whether a request is blocked does not depend on who waits.
LEMMA WaitIsBlind ==
    ASSUME NEW w \in Seq(LockStruct), NEW u \in Seq(LockStruct), DOMAIN u = DOMAIN w,
           \A x \in DOMAIN w : SameRequest(u[x], w[x]) /\ u[x].bits = w[x].bits
    PROVE  \A x \in DOMAIN u : HasToWaitInQueue(w, x) <=> HasToWaitInQueue(u, x)
<1>1. ASSUME NEW x \in DOMAIN u, NEW y \in DOMAIN u
      PROVE  Blocks(w, y, x) <=> Blocks(u, y, x)
 <2>1. x \in DOMAIN w /\ y \in DOMAIN w /\ x \in Int /\ y \in Int OBVIOUS
 <2>2. /\ SameRequest(u[x], w[x]) /\ u[x].bits = w[x].bits
       /\ SameRequest(u[y], w[y]) /\ u[y].bits = w[y].bits
   BY <2>1
 <2>3. SameRequest(w[x], u[x]) /\ SameRequest(w[y], u[y]) BY <2>2 DEF SameRequest
 <2>4. Blocks(w, y, x) => Blocks(u, y, x)
  <3>1. Blocks(w, y, x) => y < x BY DEF Blocks
  <3>2. w[x].bits \cap w[y].bits \subseteq u[y].bits BY <2>2
  <3> QED BY <2>1, <2>2, <3>1, <3>2, BlocksStays
 <2>5. Blocks(u, y, x) => Blocks(w, y, x)
  <3>1. Blocks(u, y, x) => y < x BY DEF Blocks
  <3>2. u[x].bits \cap u[y].bits \subseteq w[y].bits BY <2>2
  <3> QED BY <2>1, <2>2, <2>3, <3>1, <3>2, BlocksStays
 <2> QED BY <2>4, <2>5
<1> QED BY <1>1 DEF HasToWaitInQueue

\* The positions of the structs that are left when one has been removed.
LEMMA WithoutIs ==
    ASSUME NEW s \in Seq(LockStruct), NEW i \in DOMAIN s,
           NEW w, w = Without(s, i), NEW f, f = [x \in DOMAIN w |-> IF x < i THEN x ELSE x + 1]
    PROVE  /\ w \in Seq(LockStruct) /\ Len(s) \in Nat /\ Len(w) = Len(s) - 1
           /\ DOMAIN w = 1 .. (Len(s) - 1) /\ DOMAIN s = 1 .. Len(s)
           /\ \A x \in DOMAIN w : /\ f[x] \in DOMAIN s /\ f[x] # i /\ w[x] = s[f[x]]
                                  /\ f[x] >= x /\ (x < i => f[x] = x) /\ (x >= i => f[x] > i)
           /\ \A x, y \in DOMAIN w : f[x] < f[y] <=> x < y
           /\ \A j \in DOMAIN s : j # i => \E x \in DOMAIN w : f[x] = j
<1>1. DOMAIN s = 1 .. Len(s) /\ Len(s) \in Nat /\ i \in 1 .. Len(s) OBVIOUS
<1>2. w = [j \in 1 .. (Len(s) - 1) |-> s[IF j < i THEN j ELSE j + 1]] BY DEF Without
<1>3. DOMAIN w = 1 .. (Len(s) - 1) /\ Len(s) - 1 \in Nat BY <1>1, <1>2
<1>4. ASSUME NEW x \in DOMAIN w
      PROVE  /\ f[x] \in DOMAIN s /\ f[x] # i /\ w[x] = s[f[x]]
             /\ f[x] >= x /\ (x < i => f[x] = x) /\ (x >= i => f[x] = x + 1 /\ f[x] > i)
 <2>1. x \in 1 .. (Len(s) - 1) BY <1>3
 <2>2. f[x] = IF x < i THEN x ELSE x + 1 OBVIOUS
 <2>3. w[x] = s[f[x]] BY <1>2, <2>1, <2>2
 <2>4. CASE x < i BY <1>1, <2>1, <2>2, <2>3, <2>4
 <2>5. CASE x >= i BY <1>1, <2>1, <2>2, <2>3, <2>5
 <2> QED BY <1>1, <2>1, <2>4, <2>5
<1>5. w \in Seq(LockStruct)
 <2>1. w = [x \in 1 .. (Len(s) - 1) |-> w[x]] BY <1>2
 <2>2. \A x \in 1 .. (Len(s) - 1) : w[x] \in LockStruct BY <1>3, <1>4
 <2> QED BY <1>3, <2>1, <2>2
<1>6. Len(w) = Len(s) - 1 BY <1>3, <1>5
<1>7. \A x, y \in DOMAIN w : f[x] < f[y] <=> x < y
 <2> SUFFICES ASSUME NEW x \in DOMAIN w, NEW y \in DOMAIN w PROVE f[x] < f[y] <=> x < y OBVIOUS
 <2>1. x \in Int /\ y \in Int /\ i \in Int BY <1>1, <1>3
 <2>2. (x < i => f[x] = x) /\ (x >= i => f[x] = x + 1) BY <1>4
 <2>3. (y < i => f[y] = y) /\ (y >= i => f[y] = y + 1) BY <1>4
 <2> QED BY <2>1, <2>2, <2>3
<1>8. ASSUME NEW j \in DOMAIN s, j # i
      PROVE  \E x \in DOMAIN w : f[x] = j
 <2>1. CASE j < i
  <3>1. j \in DOMAIN w BY <1>1, <1>3, <2>1
  <3> QED BY <1>4, <2>1, <3>1
 <2>2. CASE j > i
  <3>1. j - 1 \in DOMAIN w /\ j - 1 >= i /\ (j - 1) + 1 = j BY <1>1, <1>3, <2>2
  <3> QED BY <1>4, <3>1
 <2> QED BY <1>1, <1>8, <2>1, <2>2
<1> QED BY <1>1, <1>3, <1>4, <1>5, <1>6, <1>7, <1>8

\* A struct leaves its queue, and those it was in the way of are granted.
LEMMA DequeueKeeps ==
    ASSUME NEW s, NEW P, Good(s, P), NEW i \in DOMAIN s, NEW u, u = Dequeue(s, i)
    PROVE  /\ Good(u, P)
           /\ NobodyNew(s, u)
           /\ \A t, g : /\ Owns(s, t, g)
                        /\ s[i].wait \/ s[i].trx # t \/ s[i].mode # "X"
                        => Owns(u, t, g)
           /\ \A t, g : HasX(s, t, g) /\ s[i].trx # t => HasX(u, t, g)
           /\ \A x \in DOMAIN u : u[x].wait =>
                \E z \in DOMAIN s : /\ s[z].wait /\ s[z].trx = u[x].trx /\ z # i
                                    /\ z = Len(s) => x = Len(u)
<1>1. PICK w : w = Without(s, i) OBVIOUS
<1>2. PICK f : f = [x \in DOMAIN w |-> IF x < i THEN x ELSE x + 1] OBVIOUS
<1>3. s \in Seq(LockStruct) BY DEF Good
<1>4. /\ w \in Seq(LockStruct) /\ Len(s) \in Nat /\ Len(w) = Len(s) - 1
      /\ DOMAIN w = 1 .. (Len(s) - 1) /\ DOMAIN s = 1 .. Len(s)
      /\ \A x \in DOMAIN w : /\ f[x] \in DOMAIN s /\ f[x] # i /\ w[x] = s[f[x]]
                             /\ f[x] >= x /\ (x < i => f[x] = x) /\ (x >= i => f[x] > i)
      /\ \A x, y \in DOMAIN w : f[x] < f[y] <=> x < y
      /\ \A j \in DOMAIN s : j # i => \E x \in DOMAIN w : f[x] = j
  BY SMTT(30), <1>1, <1>2, <1>3, WithoutIs
<1> DEFINE first == IF s[i].type = "TABLE" THEN i ELSE 1
           Granted(x) == /\ w[x].wait /\ SameList(w[x], s[i]) /\ x >= first
                         /\ ~ HasToWaitInQueue(w, x)
<1>5. u = [x \in DOMAIN w |-> IF Granted(x) THEN [w[x] EXCEPT !.wait = FALSE] ELSE w[x]]
  BY <1>1 DEF Dequeue, GrantWaiters
<1>6. ASSUME NEW x \in DOMAIN w
      PROVE  /\ u[x] \in LockStruct /\ SameRequest(u[x], w[x])
             /\ u[x].page = w[x].page /\ u[x].bits = w[x].bits
             /\ u[x].wait <=> w[x].wait /\ ~ Granted(x)
 <2>1. w[x] \in LockStruct BY <1>4
 <2> HIDE DEF Granted
 <2>2. CASE Granted(x)
  <3>1. u[x] = [w[x] EXCEPT !.wait = FALSE] BY <1>5, <2>2
  <3> QED BY <2>1, <2>2, <3>1 DEF LockStruct, SameRequest
 <2>3. CASE ~ Granted(x)
  <3>1. u[x] = w[x] BY <1>5, <2>3
  <3>2. w[x].wait \in BOOLEAN BY <2>1 DEF LockStruct
  <3> QED BY <2>1, <2>3, <3>1, <3>2 DEF SameRequest
 <2> QED BY <2>2, <2>3
<1>7. DOMAIN u = DOMAIN w /\ u \in Seq(LockStruct) /\ Len(u) = Len(w)
 <2> HIDE DEF Granted
 <2>1. DOMAIN u = DOMAIN w BY <1>5
 <2>2. u = [x \in 1 .. (Len(s) - 1) |-> u[x]] /\ Len(s) - 1 \in Nat BY <1>4, <1>5, <2>1
 <2>3. \A x \in 1 .. (Len(s) - 1) : u[x] \in LockStruct BY <1>4, <1>6
 <2>4. u \in Seq(LockStruct) BY <2>2, <2>3
 <2> QED BY <1>4, <2>1, <2>4
<1>9. \A x \in DOMAIN u : HasToWaitInQueue(w, x) <=> HasToWaitInQueue(u, x)
  BY ZenonT(60), <1>4, <1>6, <1>7, WaitIsBlind
<1>10. Thinned(s, u, f)
 <2>1. ASSUME NEW x \in DOMAIN u
       PROVE  /\ f[x] \in DOMAIN s
              /\ SameRequest(u[x], s[f[x]]) /\ u[x].page = s[f[x]].page
              /\ u[x].bits = s[f[x]].bits
              /\ u[x].wait => s[f[x]].wait
              /\ s[f[x]].wait /\ ~ u[x].wait => ~ HasToWaitInQueue(u, x)
   BY <1>4, <1>6, <1>7, <1>9
 <2> QED BY <1>4, <1>7, <2>1 DEF Thinned
<1>11. Blocked(u)
 <2> SUFFICES ASSUME NEW x \in DOMAIN u, u[x].wait PROVE HasToWaitInQueue(u, x) BY DEF Blocked
 <2>1. x \in DOMAIN w /\ w[x].wait /\ w[x] = s[f[x]] /\ f[x] \in DOMAIN s /\ ~ Granted(x)
   BY <1>4, <1>6, <1>7
 <2>2. PICK j \in DOMAIN s : Blocks(s, j, f[x]) BY <2>1 DEF Good, Blocked, HasToWaitInQueue
 <2>3. CASE HasToWaitInQueue(w, x) BY <1>9, <2>3
 <2>4. CASE ~ HasToWaitInQueue(w, x)
  <3>1. ~ (w[x].type = s[i].type /\ (s[i].type = "REC" => w[x].page = s[i].page) /\ x >= first)
    BY <2>1, <2>4 DEF SameList
  <3>2. SameQueue(s[f[x]], s[j]) /\ j < f[x] BY <2>2 DEF Blocks
  <3>3. j # i
   <4> SUFFICES ASSUME j = i PROVE FALSE OBVIOUS
   <4>1. CASE s[i].type = "TABLE"
    <5>1. s[f[x]].type = "TABLE" BY <3>2, <4>1 DEF SameQueue
    <5>2. f[x] > i /\ x >= i
     <6>1. x \in Int /\ i \in Int BY <1>4, <2>1
     <6>2. x < i => f[x] = x BY <1>4, <2>1
     <6> QED BY <3>2, <6>1, <6>2
    <5>3. x >= first BY <4>1, <5>2
    <5> QED BY <2>1, <3>1, <4>1, <5>1, <5>3
   <4>2. CASE s[i].type # "TABLE"
    <5>1. PICK g : g \in s[f[x]].bits /\ g \in s[i].bits /\ s[f[x]].type = "REC" /\ s[i].type = "REC"
      BY <3>2, <4>2 DEF SameQueue
    <5>2. s[f[x]].page = P[g] /\ s[i].page = P[g] BY <2>1, <5>1 DEF Good, Placed
    <5>3. x >= first BY <1>4, <2>1, <4>2
    <5> QED BY <2>1, <3>1, <5>1, <5>2, <5>3
   <4> QED BY <4>1, <4>2
  <3>4. PICK y \in DOMAIN w : f[y] = j BY <1>4, <3>3
  <3>5. y \in DOMAIN u /\ s[f[x]].bits \cap s[f[y]].bits \subseteq u[y].bits /\ Blocks(s, f[y], f[x])
    BY <1>4, <1>6, <1>7, <2>2, <3>4
  <3> QED BY <1>3, <1>10, <3>5, StaysBlocked
 <2> QED BY <2>3, <2>4
<1>12. \A t, g : GrantedX(s, t, g) /\ (s[i].wait \/ s[i].trx # t \/ s[i].mode # "X") => GrantedX(u, t, g)
 <2> SUFFICES ASSUME NEW t, NEW g, GrantedX(s, t, g),
                     s[i].wait \/ s[i].trx # t \/ s[i].mode # "X"
              PROVE  GrantedX(u, t, g)
   OBVIOUS
 <2>1. PICK j \in DOMAIN s : Holds(s[j], g) /\ s[j].trx = t /\ s[j].mode = "X" /\ ~ s[j].wait
   BY DEF GrantedX
 <2>2. PICK x \in DOMAIN w : f[x] = j BY <1>4, <2>1
 <2>3. x \in DOMAIN u /\ SameRequest(u[x], s[j]) /\ u[x].bits = s[j].bits /\ ~ u[x].wait
   BY <1>4, <1>6, <1>7, <2>1, <2>2
 <2> QED BY Zenon, <2>1, <2>3 DEF GrantedX, Holds, On, SameRequest
<1>16. \A t, g : HasX(s, t, g) /\ s[i].trx # t => HasX(u, t, g)
 <2> SUFFICES ASSUME NEW t, NEW g, HasX(s, t, g), s[i].trx # t
              PROVE  HasX(u, t, g)
   OBVIOUS
 <2>1. PICK j \in DOMAIN s : Holds(s[j], g) /\ s[j].trx = t /\ s[j].mode = "X" BY DEF HasX
 <2>2. PICK x \in DOMAIN w : f[x] = j BY <1>4, <2>1
 <2>3. x \in DOMAIN u /\ SameRequest(u[x], s[j]) /\ u[x].bits = s[j].bits
   BY <1>4, <1>6, <1>7, <2>1, <2>2
 <2> QED BY <2>1, <2>3 DEF HasX, Holds, On, SameRequest
<1>13. ASSUME NEW x \in DOMAIN u, u[x].wait
       PROVE  \E z \in DOMAIN s : /\ s[z].wait /\ s[z].trx = u[x].trx /\ z # i
                                  /\ z = Len(s) => x = Len(u)
 <2>1. f[x] \in DOMAIN s /\ s[f[x]].wait /\ s[f[x]].trx = u[x].trx /\ f[x] # i
   BY <1>4, <1>7, <1>10, <1>13 DEF Thinned, SameRequest
 <2>2. f[x] = Len(s) => x = Len(u)
  <3> SUFFICES ASSUME f[x] = Len(s) PROVE x = Len(s) - 1 BY <1>4, <1>7
  <3>1. x \in 1 .. (Len(s) - 1) /\ i \in Int BY <1>4, <1>7
  <3>2. x < Len(s) - 1 => Len(s) - 1 \in DOMAIN w BY <1>4, <3>1
  <3>3. x < Len(s) - 1 => f[x] < f[Len(s) - 1] /\ f[Len(s) - 1] \in 1 .. Len(s)
    BY <1>4, <1>7, <3>1, <3>2
  <3>4. ~ (x < Len(s) - 1) BY <1>4, <3>3
  <3> QED BY <1>4, <3>1, <3>4
 <2> QED BY <2>1, <2>2
<1>14. \A x \in DOMAIN u : \A h \in u[x].bits : P[h] = P[h] OBVIOUS
<1>15. /\ Good(u, P) /\ NobodyNew(s, u)
       /\ \A t, g : Owns(s, t, g) /\ (GrantedX(s, t, g) => GrantedX(u, t, g)) => Owns(u, t, g)
  BY <1>10, <1>11, <1>14, ThinnedKeeps
<1> QED BY <1>12, <1>13, <1>15, <1>16

\* The last request of all, which waits, is withdrawn: its struct leaves the queue of
\* the table, or stays without its bit.
LEMMA WithdrawKeeps ==
    ASSUME NEW s, NEW P, Good(s, P), NEW i \in DOMAIN s, i = Len(s), s[i].wait,
           NEW u, u = IF s[i].type = "TABLE" THEN Without(s, i) ELSE ForgetRecWait(s, i)
    PROVE  /\ Good(u, P)
           /\ NobodyNew(s, u)
           /\ \A t, g : Owns(s, t, g) => Owns(u, t, g)
           /\ \A t : HasWaitLock(u, t) <=> HasWaitLock(s, t) /\ t # s[i].trx
<1>1. s \in Seq(LockStruct) /\ DOMAIN s = 1 .. Len(s) /\ Len(s) \in Nat /\ i \in Int BY DEF Good
<1>2. s[i].type \in {"TABLE", "REC"} /\ s[i] \in LockStruct
 <2>1. s[i] \in LockStruct BY <1>1
 <2> QED BY <2>1 DEF LockStruct
<1>3. \E f : /\ u \in Seq(LockStruct)
             /\ \A x \in DOMAIN u :
                   /\ f[x] \in DOMAIN s
                   /\ f[x] # i => u[x] = s[f[x]]
                   /\ f[x] = i => /\ SameRequest(u[x], s[i]) /\ u[x].page = s[i].page
                                  /\ u[x].type = "REC" /\ u[x].bits = {} /\ ~ u[x].wait
             /\ \A x, y \in DOMAIN u : f[x] < f[y] <=> x < y
             /\ \A j \in DOMAIN s : j # i => \E x \in DOMAIN u : f[x] = j
 <2>1. CASE s[i].type = "TABLE"
  <3>1. PICK w : w = Without(s, i) OBVIOUS
  <3>2. PICK f : f = [x \in DOMAIN w |-> IF x < i THEN x ELSE x + 1] OBVIOUS
  <3>3. /\ w \in Seq(LockStruct)
        /\ \A x \in DOMAIN w : f[x] \in DOMAIN s /\ f[x] # i /\ w[x] = s[f[x]]
        /\ \A x, y \in DOMAIN w : f[x] < f[y] <=> x < y
        /\ \A j \in DOMAIN s : j # i => \E x \in DOMAIN w : f[x] = j
    BY SMTT(30), <1>1, <3>1, <3>2, WithoutIs
  <3>4. u = w BY <2>1, <3>1
  <3> QED BY SMTT(30), <3>3, <3>4
 <2>2. CASE s[i].type # "TABLE"
  <3>1. u = [s EXCEPT ![i] = [s[i] EXCEPT !.bits = {}, !.wait = FALSE]] BY <2>2 DEF ForgetRecWait
  <3>2. PICK k : k = [s[i] EXCEPT !.bits = {}, !.wait = FALSE] OBVIOUS
  <3>3. k \in LockStruct /\ SameRequest(k, s[i]) /\ k.page = s[i].page /\ k.type = "REC" /\ k.bits = {} /\ ~ k.wait
    BY <1>2, <2>2, <3>2 DEF LockStruct, SameRequest
  <3>4. u = [s EXCEPT ![i] = k] BY <3>1, <3>2
  <3>5. DOMAIN u = DOMAIN s /\ u \in Seq(LockStruct) /\ u[i] = k /\ \A x \in DOMAIN s : x # i => u[x] = s[x]
    BY <1>1, <3>3, <3>4
  <3>6. PICK f : f = [x \in DOMAIN u |-> x] OBVIOUS
  <3>7. \A x \in DOMAIN u : f[x] = x BY <3>6
  <3> QED BY SMTT(30), <3>3, <3>5, <3>7
 <2> QED BY <2>1, <2>2
<1>4. PICK f : /\ u \in Seq(LockStruct)
               /\ \A x \in DOMAIN u :
                     /\ f[x] \in DOMAIN s
                     /\ f[x] # i => u[x] = s[f[x]]
                     /\ f[x] = i => /\ SameRequest(u[x], s[i]) /\ u[x].page = s[i].page
                                    /\ u[x].type = "REC" /\ u[x].bits = {} /\ ~ u[x].wait
               /\ \A x, y \in DOMAIN u : f[x] < f[y] <=> x < y
               /\ \A j \in DOMAIN s : j # i => \E x \in DOMAIN u : f[x] = j
  BY <1>3
<1>5. Thinned(s, u, f)
 <2> SUFFICES ASSUME NEW x \in DOMAIN u
              PROVE  /\ f[x] \in DOMAIN s
                     /\ SameRequest(u[x], s[f[x]]) /\ u[x].page = s[f[x]].page
                     /\ u[x].bits \subseteq s[f[x]].bits
                     /\ u[x].wait => s[f[x]].wait /\ u[x].bits = s[f[x]].bits
                     /\ s[f[x]].wait /\ ~ u[x].wait =>
                           \/ u[x].type = "REC" /\ u[x].bits = {}
                           \/ u[x].bits = s[f[x]].bits /\ ~ HasToWaitInQueue(u, x)
   BY <1>4 DEF Thinned
 <2>1. CASE f[x] = i BY <1>4, <2>1
 <2>2. CASE f[x] # i BY <1>4, <2>2 DEF SameRequest
 <2> QED BY <2>1, <2>2
<1>6. Blocked(u)
 <2> SUFFICES ASSUME NEW x \in DOMAIN u, u[x].wait PROVE HasToWaitInQueue(u, x) BY DEF Blocked
 <2>1. f[x] # i /\ f[x] \in DOMAIN s /\ u[x] = s[f[x]] BY <1>4
 <2>2. PICK j \in DOMAIN s : Blocks(s, j, f[x]) BY <2>1 DEF Good, Blocked, HasToWaitInQueue
 <2>3. j < f[x] /\ j \in Int /\ f[x] \in 1 .. Len(s) BY <1>1, <2>1, <2>2 DEF Blocks
 <2>4. j # i BY <1>1, <2>3
 <2>5. PICK y \in DOMAIN u : f[y] = j BY <1>4, <2>4
 <2>6. u[y] = s[f[y]] /\ Blocks(s, f[y], f[x]) /\ s[f[x]].bits \cap s[f[y]].bits \subseteq u[y].bits
   BY <1>4, <2>2, <2>4, <2>5
 <2> QED BY <1>1, <1>5, <2>6, StaysBlocked
<1>7. \A t, g : GrantedX(s, t, g) => GrantedX(u, t, g)
 <2> SUFFICES ASSUME NEW t, NEW g, GrantedX(s, t, g) PROVE GrantedX(u, t, g) OBVIOUS
 <2>1. PICK j \in DOMAIN s : Holds(s[j], g) /\ s[j].trx = t /\ s[j].mode = "X" /\ ~ s[j].wait
   BY DEF GrantedX
 <2>2. PICK x \in DOMAIN u : f[x] = j BY <1>4, <2>1
 <2>3. u[x] = s[j] BY <1>4, <2>1, <2>2
 <2> QED BY <2>1, <2>3 DEF GrantedX
<1>8. \A x \in DOMAIN u : \A h \in u[x].bits : P[h] = P[h] OBVIOUS
<1>9. /\ Good(u, P) /\ NobodyNew(s, u)
      /\ \A t, g : Owns(s, t, g) /\ (GrantedX(s, t, g) => GrantedX(u, t, g)) => Owns(u, t, g)
  BY <1>5, <1>6, <1>8, ThinnedKeeps
<1>10. ASSUME NEW t
       PROVE  HasWaitLock(u, t) <=> HasWaitLock(s, t) /\ t # s[i].trx
 <2>1. ASSUME HasWaitLock(u, t) PROVE HasWaitLock(s, t) /\ t # s[i].trx
  <3>1. PICK x \in DOMAIN u : u[x].trx = t /\ u[x].wait BY <2>1 DEF HasWaitLock
  <3>2. f[x] # i /\ f[x] \in DOMAIN s /\ s[f[x]].trx = t /\ s[f[x]].wait BY <1>4, <3>1
  <3> QED BY <3>2 DEF HasWaitLock, Good, OneWait
 <2>2. ASSUME HasWaitLock(s, t), t # s[i].trx PROVE HasWaitLock(u, t)
  <3>1. PICK j \in DOMAIN s : s[j].trx = t /\ s[j].wait BY <2>2 DEF HasWaitLock
  <3>2. PICK x \in DOMAIN u : f[x] = j BY <1>4, <2>2, <3>1
  <3>3. u[x] = s[j] BY <1>4, <2>2, <3>1, <3>2
  <3> QED BY <3>1, <3>3 DEF HasWaitLock
 <2> QED BY <2>1, <2>2
<1> QED BY <1>7, <1>9, <1>10

\* What becomes of each struct where it is, and nothing else.
LEMMA InPlaceThins ==
    ASSUME NEW s \in Seq(LockStruct), NEW u, DOMAIN u = DOMAIN s,
           u = [x \in DOMAIN s |-> u[x]],
           \A x \in DOMAIN s :
              /\ u[x] \in LockStruct
              /\ SameRequest(u[x], s[x]) /\ u[x].page = s[x].page
              /\ u[x].bits \subseteq s[x].bits
              /\ u[x].wait => s[x].wait /\ u[x].bits = s[x].bits
              /\ s[x].wait /\ ~ u[x].wait =>
                    \/ u[x].type = "REC" /\ u[x].bits = {}
                    \/ u[x].bits = s[x].bits /\ ~ HasToWaitInQueue(u, x)
    PROVE  u \in Seq(LockStruct) /\ Thinned(s, u, [x \in DOMAIN s |-> x])
<1>1. u \in Seq(LockStruct)
 <2>1. DOMAIN s = 1 .. Len(s) /\ Len(s) \in Nat OBVIOUS
 <2>2. u = [x \in 1 .. Len(s) |-> u[x]] /\ \A x \in 1 .. Len(s) : u[x] \in LockStruct BY <2>1
 <2> QED BY <2>1, <2>2
<1>2. PICK f : f = [x \in DOMAIN s |-> x] OBVIOUS
<1>3. \A x \in DOMAIN u : f[x] = x BY <1>2
<1>4. Thinned(s, u, f) BY ZenonT(60), <1>1, <1>3 DEF Thinned
<1> QED BY <1>1, <1>2, <1>4

\* lock_rec_unlock finds the lock of the transaction on the record, if there is one.
LEMMA LastOfIsLast ==
    ASSUME NEW s \in Seq(LockStruct), NEW t, NEW h, NEW m,
           \E i \in DOMAIN s : On(s[i], h) /\ s[i].trx = t /\ s[i].mode = m
    PROVE  /\ LastOf(s, t, h, m) \in DOMAIN s
           /\ On(s[LastOf(s, t, h, m)], h) /\ s[LastOf(s, t, h, m)].trx = t
<1> DEFINE n == Len(s)
           D == {i \in DOMAIN s : On(s[i], h) /\ s[i].trx = t /\ s[i].mode = m}
           T == {n - i : i \in D}
<1>1. n \in Nat /\ D \subseteq 1 .. n /\ D # {} OBVIOUS
<1>2. T \in SUBSET Nat /\ T # {}
 <2> HIDE DEF D, n
 <2> QED BY <1>1
<1>3. PICK x \in T : \A y \in T : x <= y
 <2> HIDE DEF T
 <2> QED BY <1>2, LeastExists
<1>4. PICK i \in D : x = n - i OBVIOUS
<1>5. \A j \in D : j <= i
 <2> HIDE DEF D, n
 <2> SUFFICES ASSUME NEW j \in D PROVE j <= i OBVIOUS
 <2>1. n - j \in T /\ i \in Int /\ j \in Int BY <1>1
 <2>2. n - i <= n - j BY <1>3, <1>4, <2>1
 <2> QED BY <1>1, <2>1, <2>2
<1>6. \A j \in (i + 1) .. Len(s) : ~ (On(s[j], h) /\ s[j].trx = t /\ s[j].mode = m)
 <2> SUFFICES ASSUME NEW j \in (i + 1) .. Len(s), On(s[j], h) /\ s[j].trx = t /\ s[j].mode = m
              PROVE  FALSE
   OBVIOUS
 <2>1. i \in 1 .. n /\ j \in Int /\ j > i BY <1>1
 <2>2. j \in D BY <2>1
 <2> HIDE DEF D
 <2> QED BY <1>5, <2>1, <2>2
<1>7. \E k \in DOMAIN s :
         /\ On(s[k], h) /\ s[k].trx = t /\ s[k].mode = m
         /\ \A j \in (k + 1) .. Len(s) : ~ (On(s[j], h) /\ s[j].trx = t /\ s[j].mode = m)
  BY <1>4, <1>6
<1> QED BY <1>7 DEF LastOf

\* lock_rec_unlock by a transaction that does not wait
LEMMA RecUnlockKeeps ==
    ASSUME NEW s, NEW P, Good(s, P), NEW t, ~ HasWaitLock(s, t), NEW h, NEW m,
           NEW u, u = RecUnlock(s, t, h, m)
    PROVE  /\ Good(u, P)
           /\ NobodyNew(s, u)
           /\ \A w, g : Owns(s, w, g) /\ (w # t \/ g # h) => Owns(u, w, g)
<1>1. s \in Seq(LockStruct) BY DEF Good
<1>2. CASE ~ \E i \in DOMAIN s : On(s[i], h) /\ s[i].trx = t /\ s[i].mode = m
  BY <1>2 DEF RecUnlock, NobodyNew, FewerWaits
<1>3. CASE \E i \in DOMAIN s : On(s[i], h) /\ s[i].trx = t /\ s[i].mode = m
 <2>1. PICK l : l = LastOf(s, t, h, m) OBVIOUS
 <2>2. l \in DOMAIN s /\ On(s[l], h) /\ s[l].trx = t /\ ~ s[l].wait
  <3>1. l \in DOMAIN s /\ On(s[l], h) /\ s[l].trx = t BY <1>1, <1>3, <2>1, LastOfIsLast
  <3> QED BY <3>1 DEF HasWaitLock
 <2>3. PICK r : r = ResetBit(s, l, h) OBVIOUS
 <2>4. /\ DOMAIN r = DOMAIN s /\ r \in Seq(LockStruct)
       /\ \A x \in DOMAIN s : x # l => r[x] = s[x]
       /\ SameRequest(r[l], s[l]) /\ r[l].page = s[l].page /\ r[l].wait = s[l].wait
       /\ r[l].bits = s[l].bits \ {h}
  <3>1. PICK k : k = [s[l] EXCEPT !.bits = @ \ {h}] OBVIOUS
  <3>2. s[l] \in LockStruct BY <1>1, <2>2
  <3>3. k \in LockStruct /\ SameRequest(k, s[l]) /\ k.page = s[l].page /\ k.wait = s[l].wait
        /\ k.bits = s[l].bits \ {h}
    BY <3>1, <3>2 DEF LockStruct, SameRequest
  <3>4. r = [s EXCEPT ![l] = k] BY <2>3, <3>1 DEF ResetBit
  <3>5. DOMAIN r = DOMAIN s /\ r \in Seq(LockStruct) /\ r[l] = k /\ \A x \in DOMAIN s : x # l => r[x] = s[x]
    BY <1>1, <2>2, <3>3, <3>4
  <3> QED BY <3>3, <3>5
 <2> DEFINE Granted(x) == r[x].wait /\ On(r[x], h) /\ ~ HasToWaitInQueue(r, x)
 <2>5. u = [x \in DOMAIN r |-> IF Granted(x) THEN [r[x] EXCEPT !.wait = FALSE] ELSE r[x]]
   BY <1>3, <2>1, <2>3 DEF RecUnlock
 <2>6. ASSUME NEW x \in DOMAIN r
       PROVE  /\ u[x] \in LockStruct /\ SameRequest(u[x], r[x])
              /\ u[x].page = r[x].page /\ u[x].bits = r[x].bits
              /\ u[x].wait <=> r[x].wait /\ ~ Granted(x)
  <3>1. r[x] \in LockStruct BY <2>4
  <3> HIDE DEF Granted
  <3>2. CASE Granted(x)
   <4>1. u[x] = [r[x] EXCEPT !.wait = FALSE] BY <2>5, <3>2
   <4> QED BY <3>1, <3>2, <4>1 DEF LockStruct, SameRequest
  <3>3. CASE ~ Granted(x)
   <4>1. u[x] = r[x] BY <2>5, <3>3
   <4>2. r[x].wait \in BOOLEAN BY <3>1 DEF LockStruct
   <4> QED BY <3>1, <3>3, <4>1, <4>2 DEF SameRequest
  <3> QED BY <3>2, <3>3
 <2>7. DOMAIN u = DOMAIN s /\ u = [x \in DOMAIN s |-> u[x]]
  <3> HIDE DEF Granted
  <3> QED BY <2>4, <2>5
 <2>8. u \in Seq(LockStruct)
  <3>1. DOMAIN s = 1 .. Len(s) /\ Len(s) \in Nat BY <1>1
  <3>2. u = [x \in 1 .. Len(s) |-> u[x]] /\ \A x \in 1 .. Len(s) : u[x] \in LockStruct
    BY <2>4, <2>6, <2>7, <3>1
  <3> QED BY <3>1, <3>2
 <2>9. \A x \in DOMAIN u : HasToWaitInQueue(r, x) <=> HasToWaitInQueue(u, x)
   BY <2>4, <2>6, <2>7, <2>8, WaitIsBlind
 <2>10. ASSUME NEW x \in DOMAIN s
        PROVE  /\ SameRequest(u[x], s[x]) /\ u[x].page = s[x].page
               /\ u[x].bits = IF x = l THEN s[x].bits \ {h} ELSE s[x].bits
               /\ u[x].wait => x # l /\ s[x].wait
               /\ s[x].wait /\ ~ u[x].wait => x # l /\ ~ HasToWaitInQueue(u, x)
  <3>1. CASE x = l BY <2>2, <2>4, <2>6, <3>1 DEF SameRequest
  <3>2. CASE x # l BY <2>4, <2>6, <2>7, <2>9, <3>2 DEF SameRequest
  <3> QED BY <3>1, <3>2
 <2>11. ASSUME NEW x \in DOMAIN s
        PROVE  /\ u[x] \in LockStruct
               /\ SameRequest(u[x], s[x]) /\ u[x].page = s[x].page
               /\ u[x].bits \subseteq s[x].bits
               /\ u[x].wait => s[x].wait /\ u[x].bits = s[x].bits
               /\ s[x].wait /\ ~ u[x].wait => u[x].bits = s[x].bits /\ ~ HasToWaitInQueue(u, x)
   BY <2>4, <2>6, <2>10
 <2>12. PICK f : f = [x \in DOMAIN s |-> x] OBVIOUS
 <2>13. Thinned(s, u, f) BY <1>1, <2>7, <2>11, <2>12, InPlaceThins
 <2>14. Blocked(u)
  <3> SUFFICES ASSUME NEW x \in DOMAIN u, u[x].wait PROVE HasToWaitInQueue(u, x) BY DEF Blocked
  <3>1. x \in DOMAIN r /\ x \in DOMAIN s /\ x # l /\ s[x].wait /\ ~ Granted(x) /\ r[x].wait /\ r[x] = s[x]
    BY <2>4, <2>6, <2>7, <2>10
  <3>2. CASE On(r[x], h) BY <2>9, <3>1, <3>2
  <3>3. CASE ~ On(r[x], h)
   <4>1. PICK j \in DOMAIN s : Blocks(s, j, x) BY <3>1 DEF Good, Blocked, HasToWaitInQueue
   <4>2. s[x].bits \cap s[j].bits \subseteq u[j].bits
    <5>1. CASE s[x].type = "REC" BY <2>10, <3>1, <3>3, <5>1 DEF On
    <5>2. CASE s[x].type # "REC"
     <6>1. j # l BY <2>2, <4>1, <5>2 DEF On, Blocks, SameQueue
     <6> QED BY <2>10, <6>1
    <5> QED BY <5>1, <5>2
   <4>3. f[x] = x /\ f[j] = j /\ j \in DOMAIN u BY <2>7, <2>12, <3>1
   <4> QED BY <1>1, <2>13, <4>1, <4>2, <4>3, StaysBlocked
  <3> QED BY <3>2, <3>3
 <2>15. \A w, g : GrantedX(s, w, g) /\ (w # t \/ g # h) => GrantedX(u, w, g)
  <3> SUFFICES ASSUME NEW w, NEW g, GrantedX(s, w, g), w # t \/ g # h PROVE GrantedX(u, w, g)
    OBVIOUS
  <3>1. PICK j \in DOMAIN s : Holds(s[j], g) /\ s[j].trx = w /\ s[j].mode = "X" /\ ~ s[j].wait
    BY DEF GrantedX
  <3>2. g \in u[j].bits /\ j \in DOMAIN u BY <2>2, <2>7, <2>10, <3>1 DEF Holds, On
  <3>3. SameRequest(u[j], s[j]) /\ ~ u[j].wait BY <2>11, <3>1
  <3> QED BY <3>1, <3>2, <3>3 DEF GrantedX, Holds, On, SameRequest
 <2>16. \A x \in DOMAIN u : \A g \in u[x].bits : P[g] = P[g] OBVIOUS
 <2>17. /\ Good(u, P) /\ NobodyNew(s, u)
        /\ \A w, g : Owns(s, w, g) /\ (GrantedX(s, w, g) => GrantedX(u, w, g)) => Owns(u, w, g)
   BY <2>13, <2>14, <2>16, ThinnedKeeps
 <2> QED BY <2>15, <2>17
<1> QED BY <1>2, <1>3

\* lock_rec_reset_and_release_wait
LEMMA ResetKeeps ==
    ASSUME NEW s, NEW P \in Places, Good(s, P), NEW h \in Heap,
           NEW u, u = ResetAndReleaseWait(s, h), NEW Q, Q = [P EXCEPT ![h] = NoPage]
    PROVE  /\ Q \in Places /\ Good(u, Q)
           /\ NobodyNew(s, u)
           /\ \A w, g : Owns(s, w, g) /\ g # h => Owns(u, w, g)
<1>1. s \in Seq(LockStruct) BY DEF Good
<1>2. Q \in Places /\ Q[h] = NoPage /\ \A g \in Heap : g # h => Q[g] = P[g] BY DEF Places, NoPage
<1>3. u = [i \in DOMAIN s |->
              IF ~ On(s[i], h) THEN s[i]
              ELSE IF s[i].wait THEN [s[i] EXCEPT !.bits = {}, !.wait = FALSE]
              ELSE [s[i] EXCEPT !.bits = @ \ {h}]]
  BY DEF ResetAndReleaseWait
<1>4. ASSUME NEW x \in DOMAIN s
      PROVE  /\ u[x] \in LockStruct
             /\ SameRequest(u[x], s[x]) /\ u[x].page = s[x].page
             /\ u[x].bits = s[x].bits \ {h}
             /\ u[x].wait <=> s[x].wait /\ ~ On(s[x], h)
             /\ s[x].wait /\ On(s[x], h) => u[x].type = "REC" /\ u[x].bits = {}
 <2>1. s[x] \in LockStruct BY <1>1
 <2>2. s[x].wait \in BOOLEAN BY <2>1 DEF LockStruct
 <2>3. CASE ~ On(s[x], h)
  <3>1. u[x] = s[x] BY <1>3, <2>3
  <3>2. h \notin s[x].bits BY <2>3 DEF On, Good, Placed
  <3> QED BY <2>1, <2>2, <2>3, <3>1, <3>2 DEF SameRequest
 <2>4. CASE On(s[x], h) /\ s[x].wait
  <3>1. u[x] = [s[x] EXCEPT !.bits = {}, !.wait = FALSE] BY Zenon, <1>3, <2>4
  <3>2. s[x].bits = {h} BY <2>4 DEF On, Good, OneBit
  <3> QED BY ZenonT(60), <2>1, <2>4, <3>1, <3>2 DEF SameRequest, LockStruct, On
 <2>5. CASE On(s[x], h) /\ ~ s[x].wait
  <3>1. u[x] = [s[x] EXCEPT !.bits = @ \ {h}] BY <1>3, <2>5
  <3> QED BY <2>1, <2>5, <3>1 DEF SameRequest, LockStruct
 <2> QED BY <2>2, <2>3, <2>4, <2>5
<1>5. DOMAIN u = DOMAIN s /\ u = [x \in DOMAIN s |-> u[x]] BY Zenon, <1>3
<1>6. PICK f : f = [x \in DOMAIN s |-> x] OBVIOUS
<1>7. ASSUME NEW x \in DOMAIN s
      PROVE  /\ u[x] \in LockStruct
             /\ SameRequest(u[x], s[x]) /\ u[x].page = s[x].page
             /\ u[x].bits \subseteq s[x].bits
             /\ u[x].wait => s[x].wait /\ u[x].bits = s[x].bits
             /\ s[x].wait /\ ~ u[x].wait => u[x].type = "REC" /\ u[x].bits = {}
 <2>1. ~ On(s[x], h) => h \notin s[x].bits BY DEF On, Good, Placed
 <2> QED BY ZenonT(60), <1>4, <2>1
<1>8. Thinned(s, u, f) BY <1>1, <1>5, <1>6, <1>7, InPlaceThins
<1>9. Blocked(u)
 <2> SUFFICES ASSUME NEW x \in DOMAIN u, u[x].wait PROVE HasToWaitInQueue(u, x) BY DEF Blocked
 <2>1. x \in DOMAIN s /\ s[x].wait /\ h \notin s[x].bits BY <1>4, <1>5 DEF On, Good, Placed
 <2>2. PICK j \in DOMAIN s : Blocks(s, j, x) BY <2>1 DEF Good, Blocked, HasToWaitInQueue
 <2>3. f[x] = x /\ f[j] = j /\ j \in DOMAIN u /\ s[x].bits \cap s[j].bits \subseteq u[j].bits
   BY <1>4, <1>5, <1>6, <2>1
 <2> QED BY <1>1, <1>8, <2>2, <2>3, StaysBlocked
<1>10. \A w, g : GrantedX(s, w, g) /\ g # h => GrantedX(u, w, g)
 <2> SUFFICES ASSUME NEW w, NEW g, GrantedX(s, w, g), g # h PROVE GrantedX(u, w, g) OBVIOUS
 <2>1. PICK j \in DOMAIN s : Holds(s[j], g) /\ s[j].trx = w /\ s[j].mode = "X" /\ ~ s[j].wait
   BY DEF GrantedX
 <2>2. g \in u[j].bits /\ j \in DOMAIN u BY <1>4, <1>5, <2>1 DEF Holds, On
 <2> QED BY <1>4, <2>1, <2>2 DEF GrantedX, Holds, On, SameRequest
<1>11. \A x \in DOMAIN u : \A g \in u[x].bits : Q[g] = P[g]
 <2> SUFFICES ASSUME NEW x \in DOMAIN u, NEW g \in u[x].bits PROVE Q[g] = P[g] OBVIOUS
 <2>1. u[x] \in LockStruct /\ g # h BY <1>4, <1>5
 <2>2. g \in Heap BY <2>1 DEF LockStruct
 <2> QED BY <1>2, <2>1, <2>2
<1>12. /\ Good(u, Q) /\ NobodyNew(s, u)
       /\ \A w, g : Owns(s, w, g) /\ (GrantedX(s, w, g) => GrantedX(u, w, g)) => Owns(u, w, g)
  BY ZenonT(60), <1>8, <1>9, <1>11, ThinnedKeeps
<1> QED BY <1>2, <1>10, <1>12

\* v is what is left of the first i structs of s when those on page p are freed.
Kept(s, v, i, p) ==
    \E f : /\ \A x \in DOMAIN v : /\ f[x] \in 1 .. i /\ v[x] = s[f[x]]
                                  /\ ~ OnPageOf(s[f[x]], p)
           /\ \A x, y \in DOMAIN v : f[x] < f[y] <=> x < y
           /\ \A j \in 1 .. i : ~ OnPageOf(s[j], p) => \E x \in DOMAIN v : f[x] = j

\* One more struct of the queue has been looked at.
LEMMA KeptByOne ==
    ASSUME NEW s \in Seq(LockStruct), NEW p, NEW i \in DOMAIN s, NEW v \in Seq(LockStruct),
           Kept(s, v, i - 1, p),
           NEW u, u = IF OnPageOf(s[i], p) THEN v ELSE Append(v, s[i])
    PROVE  u \in Seq(LockStruct) /\ Kept(s, u, i, p)
<1>1. PICK f : /\ \A x \in DOMAIN v : /\ f[x] \in 1 .. (i - 1) /\ v[x] = s[f[x]]
                                      /\ ~ OnPageOf(s[f[x]], p)
               /\ \A x, y \in DOMAIN v : f[x] < f[y] <=> x < y
               /\ \A j \in 1 .. (i - 1) : ~ OnPageOf(s[j], p) => \E x \in DOMAIN v : f[x] = j
  BY DEF Kept
<1>2. i \in Int /\ i >= 1 /\ s[i] \in LockStruct /\ DOMAIN s = 1 .. Len(s) /\ Len(s) \in Nat OBVIOUS
<1>3. \A j \in 1 .. i : j \in 1 .. (i - 1) \/ j = i BY <1>2
<1>4. \A j \in 1 .. (i - 1) : j \in 1 .. i /\ j < i /\ j \in Int BY <1>2
<1>5. CASE OnPageOf(s[i], p)
 <2>1. u = v BY <1>5
 <2>2. \A j \in 1 .. i : ~ OnPageOf(s[j], p) => \E x \in DOMAIN v : f[x] = j BY <1>1, <1>3, <1>5
 <2>3. Kept(s, v, i, p) BY ZenonT(60), <1>1, <1>4, <2>2 DEF Kept
 <2> QED BY <2>1, <2>3
<1>6. CASE ~ OnPageOf(s[i], p)
 <2>1. PICK y : y = Len(v) + 1 OBVIOUS
 <2>2. /\ u \in Seq(LockStruct) /\ y \in DOMAIN u /\ u[y] = s[i] /\ y \in Int
       /\ \A x \in DOMAIN v : x \in DOMAIN u /\ u[x] = v[x] /\ x < y /\ x \in Int
       /\ \A x \in DOMAIN u : x # y => x \in DOMAIN v
  <3>1. u = Append(v, s[i]) BY <1>6
  <3> QED BY <1>2, <2>1, <3>1
 <2>3. PICK g : g = [x \in DOMAIN u |-> IF x = y THEN i ELSE f[x]] OBVIOUS
 <2>4. g[y] = i /\ \A x \in DOMAIN v : g[x] = f[x] /\ x # y
  <3>1. \A x \in DOMAIN v : x # y BY <2>2
  <3> QED BY <2>2, <2>3, <3>1
 <2>5. ASSUME NEW x \in DOMAIN u
       PROVE  g[x] \in 1 .. i /\ u[x] = s[g[x]] /\ ~ OnPageOf(s[g[x]], p)
  <3>1. CASE x = y BY <1>2, <1>6, <2>2, <2>4, <3>1
  <3>2. CASE x # y BY <1>1, <1>4, <2>2, <2>4, <3>2
  <3> QED BY <3>1, <3>2
 <2>6. ASSUME NEW x \in DOMAIN u, NEW z \in DOMAIN u
       PROVE  g[x] < g[z] <=> x < z
  <3>1. CASE x # y /\ z # y BY <1>1, <2>2, <2>4, <3>1
  <3>2. CASE x = y /\ z # y
   <4>1. z \in DOMAIN v /\ z < y /\ z \in Int /\ g[z] = f[z] /\ f[z] < i /\ f[z] \in Int
     BY <1>1, <1>4, <2>2, <2>4, <3>2
   <4> QED BY <1>2, <2>2, <2>4, <3>2, <4>1
  <3>3. CASE x # y /\ z = y
   <4>1. x \in DOMAIN v /\ x < y /\ g[x] = f[x] /\ f[x] < i BY <1>1, <1>4, <2>2, <2>4, <3>3
   <4> QED BY <2>4, <3>3, <4>1
  <3>4. CASE x = y /\ z = y BY <1>2, <2>2, <2>4, <3>4
  <3> QED BY <3>1, <3>2, <3>3, <3>4
 <2>7. ASSUME NEW j \in 1 .. i, ~ OnPageOf(s[j], p)
       PROVE  \E x \in DOMAIN u : g[x] = j
  <3>1. CASE j = i BY <2>2, <2>4, <3>1
  <3>2. CASE j # i
   <4>1. PICK x \in DOMAIN v : f[x] = j BY <1>1, <1>3, <2>7, <3>2
   <4> QED BY <2>2, <2>4, <4>1
  <3> QED BY <3>1, <3>2
 <2>8. Kept(s, u, i, p) BY ZenonT(60), <2>5, <2>6, <2>7 DEF Kept
 <2> QED BY <2>2, <2>8
<1> QED BY <1>5, <1>6

\* lock_rec_free_all_from_discard_page spares the structs of other pages.
LEMMA FreeAllKeepsOthers ==
    ASSUME NEW s \in Seq(LockStruct), NEW p
    PROVE  /\ FreeAllFromDiscardPage(s, p) \in Seq(LockStruct)
           /\ Kept(s, FreeAllFromDiscardPage(s, p), Len(s), p)
<1> DEFINE n == Len(s)
           S == Seq(LockStruct)
           Step(i, v) == IF OnPageOf(s[i], p) THEN v ELSE Append(v, s[i])
           G == [i \in 1 .. n |-> [v \in S |-> Step(i, v)]]
<1>1. n \in Nat /\ DOMAIN s = 1 .. n /\ \A i \in 1 .. n : i \in DOMAIN s /\ s[i] \in LockStruct
  OBVIOUS
<1>3. ASSUME NEW i \in 1 .. n, NEW v \in S
      PROVE  /\ Step(i, v) \in S
             /\ Kept(s, v, i - 1, p) => Kept(s, Step(i, v), i, p)
 <2>1. i \in DOMAIN s /\ s[i] \in LockStruct BY <1>1
 <2>2. Step(i, v) \in S BY <2>1
 <2>3. PICK u : u = Step(i, v) OBVIOUS
 <2>4. Kept(s, v, i - 1, p) => Kept(s, u, i, p) BY <2>1, <2>3, KeptByOne
 <2> QED BY Zenon, <2>2, <2>3, <2>4
<1> HIDE DEF Step
<1>4. G \in StepFunctions(S, n) BY <1>3 DEF StepFunctions
<1>5. << >> \in S OBVIOUS
<1>6. \E f : Iterates(f, S, n, << >>, G)
 <2> HIDE DEF G, S, n
 <2> QED BY <1>1, <1>4, <1>5, IterationExists
<1>7. PICK f : f \in [0 .. n -> S] /\ f[0] = << >> /\ \A i \in 1 .. n : f[i] = G[i][f[i - 1]]
  BY <1>6 DEF Iterates
<1>8. f = [i \in 0 .. Len(s) |->
              IF i = 0 THEN << >>
              ELSE IF OnPageOf(s[i], p) THEN f[i - 1]
              ELSE Append(f[i - 1], s[i])]
 <2>1. ASSUME NEW i \in 0 .. n
       PROVE  f[i] = IF i = 0 THEN << >> ELSE Step(i, f[i - 1])
  <3>1. CASE i = 0 BY <1>7, <3>1
  <3>2. CASE i # 0
   <4>1. i \in 1 .. n /\ i - 1 \in 0 .. n BY <1>1, <3>2
   <4>2. f[i - 1] \in S /\ f[i] = G[i][f[i - 1]] BY <1>7, <4>1
   <4> QED BY <3>2, <4>1, <4>2
  <3> QED BY <3>1, <3>2
 <2>2. f = [i \in 0 .. n |-> f[i]] BY <1>7
 <2> QED BY <2>1, <2>2 DEF Step
<1> DEFINE after[i \in 0 .. Len(s)] ==
               IF i = 0 THEN << >>
               ELSE IF OnPageOf(s[i], p) THEN after[i - 1]
               ELSE Append(after[i - 1], s[i])
<1>2. FreeAllFromDiscardPage(s, p) = after[n] BY DEF FreeAllFromDiscardPage
<1>9. after = [i \in 0 .. Len(s) |->
                  IF i = 0 THEN << >>
                  ELSE IF OnPageOf(s[i], p) THEN after[i - 1]
                  ELSE Append(after[i - 1], s[i])]
  BY Zenon, <1>8 DEF after
<1> HIDE DEF after, G
<1>10. after[0] = << >> BY <1>1, <1>9
<1>11. ASSUME NEW i \in 1 .. n
       PROVE  after[i] = Step(i, after[i - 1])
 <2>1. i \in 0 .. Len(s) /\ i # 0 BY <1>1
 <2> QED BY <1>9, <2>1 DEF Step
<1>12. Kept(s, << >>, 0, p) BY DEF Kept
<1> DEFINE T == [i \in 0 .. n |-> {v \in S : Kept(s, v, i, p)}]
<1>13. after[0] \in T[0]
 <2>1. 0 \in 0 .. n BY <1>1
 <2> QED BY <1>5, <1>10, <1>12, <2>1
<1>14. \A i \in 1 .. n : after[i - 1] \in T[i - 1] => after[i] \in T[i]
 <2> SUFFICES ASSUME NEW i \in 1 .. n, after[i - 1] \in T[i - 1] PROVE after[i] \in T[i] OBVIOUS
 <2>1. i \in 0 .. n /\ i - 1 \in 0 .. n BY <1>1
 <2>2. after[i - 1] \in S /\ Kept(s, after[i - 1], i - 1, p) BY <2>1
 <2>3. after[i] \in S /\ Kept(s, after[i], i, p) BY <1>3, <1>11, <2>2
 <2> QED BY <2>1, <2>3
<1>15. after[n] \in T[n]
 <2> HIDE DEF T
 <2> QED BY <1>1, <1>13, <1>14, IterationReaches
<1>16. n \in 0 .. n BY <1>1
<1> QED BY <1>2, <1>15, <1>16

\* lock_rec_free_all_from_discard_page
LEMMA FreeAllKeeps ==
    ASSUME NEW s, NEW P \in Places, Good(s, P), NEW p,
           NEW u, u = FreeAllFromDiscardPage(s, p),
           NEW Q, Q = [h \in Heap |-> IF P[h] = p THEN NoPage ELSE P[h]]
    PROVE  /\ Q \in Places /\ Good(u, Q)
           /\ NobodyNew(s, u)
           /\ \A w : \A g \in Heap : Owns(s, w, g) /\ P[g] # p => Owns(u, w, g)
<1>1. s \in Seq(LockStruct) /\ DOMAIN s = 1 .. Len(s) /\ Len(s) \in Nat BY DEF Good
<1>2. Q \in Places BY DEF Places, NoPage
<1>3. u \in Seq(LockStruct) /\ Kept(s, u, Len(s), p) BY <1>1, FreeAllKeepsOthers
<1>4. PICK f : /\ \A x \in DOMAIN u : /\ f[x] \in 1 .. Len(s) /\ u[x] = s[f[x]]
                                      /\ ~ OnPageOf(s[f[x]], p)
               /\ \A x, y \in DOMAIN u : f[x] < f[y] <=> x < y
               /\ \A j \in 1 .. Len(s) : ~ OnPageOf(s[j], p) => \E x \in DOMAIN u : f[x] = j
  BY <1>3 DEF Kept
<1>5. Thinned(s, u, f) BY <1>1, <1>3, <1>4 DEF Thinned, SameRequest
<1>6. Blocked(u)
 <2> SUFFICES ASSUME NEW x \in DOMAIN u, u[x].wait PROVE HasToWaitInQueue(u, x) BY DEF Blocked
 <2>1. f[x] \in DOMAIN s /\ u[x] = s[f[x]] /\ ~ OnPageOf(s[f[x]], p) BY <1>1, <1>4
 <2>2. PICK j \in DOMAIN s : Blocks(s, j, f[x]) BY <2>1 DEF Good, Blocked, HasToWaitInQueue
 <2>3. ~ OnPageOf(s[j], p)
  <3> SUFFICES ASSUME OnPageOf(s[j], p) PROVE FALSE OBVIOUS
  <3>1. s[j].type = "REC" /\ s[j].page = p BY DEF OnPageOf
  <3>2. SameQueue(s[f[x]], s[j]) BY <2>2 DEF Blocks
  <3>3. PICK g : g \in s[f[x]].bits /\ g \in s[j].bits /\ s[f[x]].type = "REC"
    BY <3>1, <3>2 DEF SameQueue
  <3>4. s[f[x]].page = P[g] /\ s[j].page = P[g] BY <2>1, <3>3 DEF Good, Placed
  <3> QED BY <2>1, <3>1, <3>3, <3>4 DEF OnPageOf
 <2>4. PICK y \in DOMAIN u : f[y] = j BY <1>1, <1>4, <2>3
 <2>5. u[y] = s[f[y]] /\ Blocks(s, f[y], f[x]) /\ s[f[x]].bits \cap s[f[y]].bits \subseteq u[y].bits
   BY <1>4, <2>2, <2>4
 <2> QED BY <1>1, <1>5, <2>5, StaysBlocked
<1>7. \A w : \A g \in Heap : GrantedX(s, w, g) /\ P[g] # p => GrantedX(u, w, g)
 <2> SUFFICES ASSUME NEW w, NEW g \in Heap, GrantedX(s, w, g), P[g] # p PROVE GrantedX(u, w, g)
   OBVIOUS
 <2>1. PICK j \in DOMAIN s : Holds(s[j], g) /\ s[j].trx = w /\ s[j].mode = "X" /\ ~ s[j].wait
   BY DEF GrantedX
 <2>2. ~ OnPageOf(s[j], p) BY <2>1 DEF OnPageOf, Holds, On, Good, Placed
 <2>3. PICK x \in DOMAIN u : f[x] = j BY <1>1, <1>4, <2>2
 <2>4. u[x] = s[j] BY <1>4, <2>3
 <2> QED BY <2>1, <2>4 DEF GrantedX
<1>8. \A x \in DOMAIN u : \A g \in u[x].bits : Q[g] = P[g]
 <2> SUFFICES ASSUME NEW x \in DOMAIN u, NEW g \in u[x].bits PROVE Q[g] = P[g] OBVIOUS
 <2>1. u[x] \in LockStruct /\ f[x] \in DOMAIN s /\ u[x] = s[f[x]] /\ ~ OnPageOf(s[f[x]], p)
   BY <1>1, <1>3, <1>4
 <2>2. g \in Heap /\ P[g] # p BY <2>1 DEF LockStruct, Good, Placed, OnPageOf
 <2> QED BY <2>2
<1>9. /\ Good(u, Q) /\ NobodyNew(s, u)
      /\ \A w, g : Owns(s, w, g) /\ (GrantedX(s, w, g) => GrantedX(u, w, g)) => Owns(u, w, g)
  BY <1>5, <1>6, <1>8, ThinnedKeeps
<1> QED BY <1>2, <1>7, <1>9
-----------------------------------------------------------------------------
(* What the functions that move locks keep *)

\* Keys, suprema and infima are different numbers, and pages are told by the latter.
LEMMA HeapFacts ==
    /\ MaxKey \in Nat /\ Keys \subseteq Heap /\ Suprema \subseteq Heap /\ Keys \cap Suprema = {}
    /\ Pages = {0, 1, 2} /\ Root \in Pages /\ Pages \subseteq 0 .. 3 /\ NoPage \notin Pages /\ NoPage \in 0 .. 3
    /\ \A p \in Pages : /\ SupremumOf(p) \in Suprema /\ SupremumOf(p) - SupremumOf(0) = p
                        /\ InfimumOf(p) \in Heap /\ InfimumOf(p) \notin Suprema
                        /\ InfimumOf(p) \notin Keys
    /\ \A h \in Suprema : /\ h - SupremumOf(0) \in Pages
                          /\ SupremumOf(h - SupremumOf(0)) = h
    /\ \A p, q \in Pages : /\ SupremumOf(p) = SupremumOf(q) => p = q
                           /\ InfimumOf(p) = InfimumOf(q) => p = q
  BY MaxKeyAssumption DEF Keys, Heap, Suprema, Pages, SupremumOf, InfimumOf, Root, NoPage

\* Nobody locks a supremum itself, and nobody has a lock where no bits are.
LEMMA SupremumIsOwned ==
    ASSUME NEW s, NEW t, NEW h \in Suprema
    PROVE  Owns(s, t, h)
  BY DEF Owns, Holds

\* A record that is on no page has no lock, so anybody may be said to own it.
LEMMA NoPageIsOwned ==
    ASSUME NEW s, NEW P, Good(s, P), NEW h, P[h] = NoPage
    PROVE  /\ \A x \in DOMAIN s : ~ On(s[x], h)
           /\ \A t : Owns(s, t, h)
<1>1. ASSUME NEW x \in DOMAIN s, On(s[x], h)
      PROVE  FALSE
 <2>1. s[x].page = P[h] /\ s[x] \in LockStruct BY <1>1 DEF On, Good, Placed
 <2> QED BY <2>1, HeapFacts DEF LockStruct
<1> QED BY <1>1 DEF Owns, Holds

\* u comes from s: nobody has got a lock, and who owned a record still owns it; the
\* bits are where Q has them.
Keeps(s, u, Q) ==
    /\ Q \in Places /\ Good(u, Q)
    /\ NobodyNew(s, u)
    /\ \A t : \A g \in Heap : Owns(s, t, g) => Owns(u, t, g)

\* Nothing has changed.
LEMMA KeepsItself ==
    ASSUME NEW s, NEW P \in Places, Good(s, P)
    PROVE  Keeps(s, s, P) /\ AllStillWait(s, s)
  BY DEF Keeps, NobodyNew, FewerWaits, AllStillWait

\* Two changes after another.
LEMMA KeepsOn ==
    ASSUME NEW s, NEW u, NEW v, NEW Q, NEW R, Keeps(s, u, Q), Keeps(u, v, R)
    PROVE  /\ Keeps(s, v, R)
           /\ AllStillWait(s, u) /\ AllStillWait(u, v) => AllStillWait(s, v)
  BY DEF Keeps, NobodyNew, FewerWaits, AllStillWait

\* Only where bits are does it matter where they are.
LEMMA GoodElsewhere ==
    ASSUME NEW s, NEW P, Good(s, P), NEW Q, \A h \in Heap : P[h] \in Pages => Q[h] = P[h]
    PROVE  Good(s, Q)
<1>1. Placed(s, Q)
 <2> SUFFICES ASSUME NEW i \in DOMAIN s, NEW h \in s[i].bits
              PROVE  s[i].type = "REC" /\ s[i].page = Q[h]
   BY DEF Placed
 <2>1. s[i] \in LockStruct /\ s[i].type = "REC" /\ s[i].page = P[h] BY DEF Good, Placed
 <2>2. h \in Heap /\ P[h] \in Pages BY <2>1 DEF LockStruct
 <2> QED BY <2>1, <2>2
<1> QED BY <1>1 DEF Good

\* lock_rec_inherit_to_gap.
LEMMA InheritIsKept ==
    ASSUME NEW s, NEW P \in Places, Good(s, P), NEW donors, donors \subseteq DOMAIN s,
           NEW p \in Pages, NEW heir \in Heap, P[heir] \in {NoPage, p},
           NEW u, u = InheritToGap(s, donors, p, heir), NEW Q, Q = [P EXCEPT ![heir] = p]
    PROVE  Keeps(s, u, Q) /\ AllStillWait(s, u)
<1>1. s \in Seq(LockStruct) BY DEF Good
<1>2. Inherited(s, u, donors, p, heir) BY <1>1, InheritToGapInherits
<1>3. /\ Q \in Places /\ Good(u, Q)
      /\ NobodyNew(s, u) /\ AllStillWait(s, u)
      /\ \A t, h : Owns(s, t, h) => Owns(u, t, h)
  BY ZenonT(60), <1>2, InheritKeeps
<1> QED BY <1>3 DEF Keeps

\* lock_rec_reset_and_release_wait.
LEMMA ResetIsKept ==
    ASSUME NEW s, NEW P \in Places, Good(s, P), NEW h \in Heap,
           NEW u, u = ResetAndReleaseWait(s, h), NEW Q, Q = [P EXCEPT ![h] = NoPage]
    PROVE  Keeps(s, u, Q)
<1>1. /\ Q \in Places /\ Good(u, Q) /\ NobodyNew(s, u)
      /\ \A w, g : Owns(s, w, g) /\ g # h => Owns(u, w, g)
  BY ZenonT(60), ResetKeeps
<1>2. Q[h] = NoPage BY DEF Places
<1>3. \A w : Owns(u, w, h) BY <1>1, <1>2, NoPageIsOwned
<1> QED BY <1>1, <1>3 DEF Keeps

\* lock_rec_free_all_from_discard_page.
LEMMA FreeAllIsKept ==
    ASSUME NEW s, NEW P \in Places, Good(s, P), NEW p,
           NEW u, u = FreeAllFromDiscardPage(s, p),
           NEW Q, Q = [h \in Heap |-> IF P[h] = p THEN NoPage ELSE P[h]]
    PROVE  Keeps(s, u, Q)
<1>1. /\ Q \in Places /\ Good(u, Q) /\ NobodyNew(s, u)
      /\ \A w : \A g \in Heap : Owns(s, w, g) /\ P[g] # p => Owns(u, w, g)
  BY FreeAllKeeps
<1>2. ASSUME NEW g \in Heap, P[g] = p
      PROVE  \A w : Owns(u, w, g)
 <2>1. Q[g] = NoPage BY <1>2
 <2> QED BY <1>1, <2>1, NoPageIsOwned
<1> QED BY <1>1, <1>2 DEF Keeps

\* Records that move with their locks and stay the records they are.
LEMMA ListIsKept ==
    ASSUME NEW s, NEW P \in Places, Good(s, P), NEW p \in Pages, NEW q \in Pages,
           NEW hs, hs \subseteq Heap, NEW to, to = [h \in hs |-> h],
           NEW u, u = Requeue(s, p, hs, q, to),
           NEW Q, Q = [g \in Heap |-> IF g \in hs /\ P[g] = p THEN q ELSE P[g]]
    PROVE  Keeps(s, u, Q) /\ AllStillWait(s, u)
<1>1. \A h \in hs : to[h] = h /\ h \in Heap OBVIOUS
<1>2. Movable(P, p, hs, q, to) BY <1>1 DEF Movable
<1>3. Q = PlaceAfter(P, p, hs, q, to)
 <2>1. \A g \in Heap : (\E h \in hs : P[h] = p /\ to[h] = g) <=> g \in hs /\ P[g] = p BY <1>1
 <2> QED BY <2>1 DEF PlaceAfter
<1>4. /\ Q \in Places /\ Good(u, Q)
      /\ NobodyNew(s, u) /\ AllStillWait(s, u)
      /\ \A t : \A h \in hs : P[h] = p /\ h \notin Suprema /\ Owns(s, t, h) => Owns(u, t, to[h])
      /\ \A t : \A g \in Heap :
            /\ g \notin hs \/ P[g] # p
            /\ \A h \in hs : P[h] = p => to[h] # g
            /\ Owns(s, t, g)
            => Owns(u, t, g)
  BY <1>2, <1>3, RequeueKeeps
<1>5. ASSUME NEW t, NEW g \in Heap, Owns(s, t, g)
      PROVE  Owns(u, t, g)
 <2>1. CASE g \in Suprema BY <2>1, SupremumIsOwned
 <2>2. CASE g \notin Suprema /\ g \in hs /\ P[g] = p BY <1>1, <1>4, <1>5, <2>2
 <2>3. CASE g \notin hs \/ P[g] # p
  <3>1. \A h \in hs : P[h] = p => to[h] # g BY <1>1, <2>3
  <3> QED BY <1>4, <1>5, <2>3, <3>1
 <2> QED BY <2>1, <2>2, <2>3
<1> QED BY <1>4, <1>5 DEF Keeps

\* A record whose bits go to another one.
LEMMA RecMoveKeeps ==
    ASSUME NEW s, NEW P \in Places, Good(s, P), NEW p \in Pages, NEW q \in Pages,
           NEW h \in Heap, P[h] = p, NEW g \in Heap, P[g] = NoPage, h \in Suprema <=> g \in Suprema,
           NEW u, u = RecMove(s, p, h, q, g),
           NEW Q, Q = [P EXCEPT ![h] = NoPage, ![g] = q]
    PROVE  /\ Q \in Places /\ Good(u, Q) /\ NobodyNew(s, u) /\ AllStillWait(s, u)
           /\ \A t : Owns(s, t, h) => Owns(u, t, g)
           /\ \A t : \A f \in Heap : f # g /\ Owns(s, t, f) => Owns(u, t, f)
           /\ h \in Suprema => Keeps(s, u, Q)
<1>1. PICK hs : hs = {h} OBVIOUS
<1>2. PICK to : to = [f \in hs |-> g] OBVIOUS
<1>3. h # g /\ hs \subseteq Heap /\ h \in hs /\ to[h] = g /\ \A f \in hs : f = h
  BY <1>1, <1>2, HeapFacts
<1>10. u = Requeue(s, p, hs, q, to) BY <1>1, <1>2 DEF RecMove
<1>4. Movable(P, p, hs, q, to) BY <1>2, <1>3 DEF Movable
<1>5. Q = PlaceAfter(P, p, hs, q, to)
 <2>1. /\ \A f \in Heap : (\E e \in hs : P[e] = p /\ to[e] = f) <=> f = g
       /\ \A f \in Heap : (f \in hs /\ P[f] = p) <=> f = h
   BY <1>3
 <2>2. PlaceAfter(P, p, hs, q, to) =
         [f \in Heap |-> IF f = g THEN q ELSE IF f = h THEN NoPage ELSE P[f]]
   BY <2>1 DEF PlaceAfter
 <2>3. Q = [f \in Heap |-> IF f = g THEN q ELSE IF f = h THEN NoPage ELSE P[f]] BY <1>3 DEF Places
 <2> QED BY <2>2, <2>3
<1>6. /\ Q \in Places /\ Good(u, Q)
      /\ NobodyNew(s, u) /\ AllStillWait(s, u)
      /\ \A t : \A f \in hs : P[f] = p /\ f \notin Suprema /\ Owns(s, t, f) => Owns(u, t, to[f])
      /\ \A t : \A f \in Heap :
            /\ f \notin hs \/ P[f] # p
            /\ \A e \in hs : P[e] = p => to[e] # f
            /\ Owns(s, t, f)
            => Owns(u, t, f)
 <2>1. p \in Pages /\ q \in Pages OBVIOUS
 <2>2. Q \in Places /\ Good(u, Q) /\ NobodyNew(s, u) /\ AllStillWait(s, u)
   BY ZenonT(60), <1>4, <1>5, <1>10, RequeueKeeps
 <2>3. \A t : \A f \in hs : P[f] = p /\ f \notin Suprema /\ Owns(s, t, f) => Owns(u, t, to[f])
   BY <1>4, <1>5, <1>10, RequeueKeeps
 <2>4. \A t : \A f \in Heap :
           /\ f \notin hs \/ P[f] # p
           /\ \A e \in hs : P[e] = p => to[e] # f
           /\ Owns(s, t, f)
           => Owns(u, t, f)
   BY <1>4, <1>5, <1>10, RequeueKeeps
 <2> QED BY <2>2, <2>3, <2>4
<1>7. ASSUME NEW t, Owns(s, t, h)
      PROVE  Owns(u, t, g)
 <2>1. CASE h \in Suprema BY <2>1, SupremumIsOwned
 <2>2. CASE h \notin Suprema BY <1>3, <1>6, <1>7, <2>2
 <2> QED BY <2>1, <2>2
<1>8. ASSUME NEW t, NEW f \in Heap, f # g, Owns(s, t, f)
      PROVE  Owns(u, t, f)
 <2>1. CASE f = h
  <3>1. Q[h] = NoPage BY <1>3 DEF Places
  <3> QED BY <1>6, <2>1, <3>1, NoPageIsOwned
 <2>2. CASE f # h
  <3>1. f \notin hs /\ \A e \in hs : P[e] = p => to[e] # f BY <1>3, <1>8, <2>2
  <3> QED BY <1>6, <1>8, <3>1
 <2> QED BY <2>1, <2>2
<1>9. ASSUME h \in Suprema
      PROVE  Keeps(s, u, Q)
 <2>1. \A t : Owns(u, t, g) BY <1>9, SupremumIsOwned
 <2> QED BY <1>6, <1>8, <2>1 DEF Keeps
<1> QED BY <1>6, <1>7, <1>8, <1>9

\* lock_move_rec_list_end and lock_move_rec_list_start: the bits on ks are on page q
\* afterwards.
LEMMA ListMoves ==
    ASSUME NEW s, NEW P \in Places, Good(s, P), NEW p \in Pages, NEW q \in Pages,
           NEW ks, ks \subseteq Keys, \A k \in ks : P[k] = p,
           NEW u, u = MoveRecList(s, p, ks, q)
    PROVE  \E Q \in Places : /\ Keeps(s, u, Q) /\ Good(u, Q) /\ AllStillWait(s, u)
                             /\ \A g \in Heap : Q[g] = IF g \in ks THEN q ELSE P[g]
<1>1. PICK Q : Q = [g \in Heap |-> IF g \in ks /\ P[g] = p THEN q ELSE P[g]] OBVIOUS
<1>2. PICK to : to = [h \in ks |-> h] OBVIOUS
<1>3. ks \subseteq Heap /\ u = Requeue(s, p, ks, q, to) BY <1>2, HeapFacts DEF MoveRecList
<1>4. Keeps(s, u, Q) /\ AllStillWait(s, u) BY <1>1, <1>2, <1>3, ListIsKept
<1>5. Q \in Places /\ Good(u, Q) BY <1>4 DEF Keeps
<1>6. \A g \in Heap : Q[g] = IF g \in ks THEN q ELSE P[g] BY <1>1
<1> QED BY <1>4, <1>5, <1>6

\* lock_move_reorganize_page.
LEMMA ReorganizeIsKept ==
    ASSUME NEW s, NEW P \in Places, Good(s, P), NEW p \in Pages,
           NEW u, u = MoveReorganizePage(s, p)
    PROVE  Keeps(s, u, P) /\ AllStillWait(s, u)
<1>1. PICK hs : hs = Keys \cup {SupremumOf(p), InfimumOf(p)} OBVIOUS
<1>2. PICK to : to = [h \in hs |-> h] OBVIOUS
<1>3. PICK Q : Q = [g \in Heap |-> IF g \in hs /\ P[g] = p THEN p ELSE P[g]] OBVIOUS
<1>4. hs \subseteq Heap /\ u = Requeue(s, p, hs, p, to)
  BY <1>1, <1>2, HeapFacts DEF MoveReorganizePage
<1>5. Keeps(s, u, Q) /\ AllStillWait(s, u) BY <1>2, <1>3, <1>4, ListIsKept
<1>6. Q = P BY <1>3 DEF Places
<1> QED BY <1>5, <1>6

\* lock_rec_move from the supremum of a page to that of another one.
LEMMA SupremumMoves ==
    ASSUME NEW s, NEW P \in Places, Good(s, P), NEW p \in Pages, NEW q \in Pages,
           P[SupremumOf(p)] = p, P[SupremumOf(q)] = NoPage,
           NEW u, u = RecMove(s, p, SupremumOf(p), q, SupremumOf(q))
    PROVE  \E Q \in Places : /\ Keeps(s, u, Q) /\ Good(u, Q) /\ AllStillWait(s, u)
                             /\ \A g \in Heap : Q[g] = IF g = SupremumOf(q) THEN q
                                                       ELSE IF g = SupremumOf(p) THEN NoPage
                                                       ELSE P[g]
<1>1. PICK h : h = SupremumOf(p) OBVIOUS
<1>2. PICK g : g = SupremumOf(q) OBVIOUS
<1>3. PICK Q : Q = [P EXCEPT ![h] = NoPage, ![g] = q] OBVIOUS
<1>4. h \in Heap /\ g \in Heap /\ h \in Suprema /\ g \in Suprema BY <1>1, <1>2, HeapFacts
<1>5. Keeps(s, u, Q) /\ AllStillWait(s, u)
 <2>1. h \in Suprema <=> g \in Suprema BY <1>4
 <2>2. P[h] = p /\ P[g] = NoPage /\ u = RecMove(s, p, h, q, g) BY <1>1, <1>2
 <2>3. (h \in Suprema => Keeps(s, u, Q)) /\ AllStillWait(s, u)
   BY Zenon, <1>3, <1>4, <2>1, <2>2, RecMoveKeeps
 <2> QED BY <1>4, <2>3
<1>6. Q \in Places /\ Good(u, Q) BY <1>5 DEF Keeps
<1>7. \A f \in Heap : Q[f] = IF f = g THEN q ELSE IF f = h THEN NoPage ELSE P[f]
  BY <1>3, <1>4 DEF Places
<1> QED BY <1>1, <1>2, <1>5, <1>6, <1>7

\* lock_rec_inherit_to_gap, for the bits of the heir.
LEMMA HeirInherits ==
    ASSUME NEW s, NEW P \in Places, Good(s, P), NEW donors, donors \subseteq DOMAIN s,
           NEW p \in Pages, NEW heir \in Heap, P[heir] \in {NoPage, p},
           NEW u, u = InheritToGap(s, donors, p, heir)
    PROVE  \E Q \in Places : /\ Keeps(s, u, Q) /\ Good(u, Q) /\ AllStillWait(s, u)
                             /\ \A g \in Heap : Q[g] = IF g = heir THEN p ELSE P[g]
<1>1. PICK Q : Q = [P EXCEPT ![heir] = p] OBVIOUS
<1>2. Keeps(s, u, Q) /\ AllStillWait(s, u) BY <1>1, InheritIsKept
<1>3. Q \in Places /\ Good(u, Q) BY <1>2 DEF Keeps
<1>4. \A g \in Heap : Q[g] = IF g = heir THEN p ELSE P[g] BY <1>1 DEF Places
<1> QED BY <1>2, <1>3, <1>4

\* Locks are inherited from locks.
LEMMA DonorsAreThere ==
    ASSUME NEW s, NEW h, NEW rc
    PROVE  GapDonors(s, h) \subseteq DOMAIN s /\ Donors(s, h, rc) \subseteq DOMAIN s
  BY DEF GapDonors, Donors

\* lock_update_delete.
LEMMA UpdateDeletes ==
    ASSUME NEW s, NEW P \in Places, Good(s, P), NEW h \in Heap, NEW p \in Pages,
           NEW heir \in Heap, heir # h, P[heir] \in {NoPage, p}, NEW rc,
           NEW u, u = UpdateDelete(s, h, p, heir, rc)
    PROVE  \E Q \in Places : /\ Keeps(s, u, Q) /\ Good(u, Q)
                             /\ \A g \in Heap : Q[g] = IF g = heir THEN p
                                                       ELSE IF g = h THEN NoPage ELSE P[g]
<1>1. PICK v : v = InheritToGap(s, Donors(s, h, rc), p, heir) OBVIOUS
<1>2. PICK Q \in Places : /\ Keeps(s, v, Q) /\ Good(v, Q)
                          /\ \A g \in Heap : Q[g] = IF g = heir THEN p ELSE P[g]
  BY <1>1, DonorsAreThere, HeirInherits
<1>3. PICK R : R = [Q EXCEPT ![h] = NoPage] OBVIOUS
<1>4. u = ResetAndReleaseWait(v, h) BY <1>1 DEF UpdateDelete
<1>5. Keeps(v, u, R) BY <1>2, <1>3, <1>4, ResetIsKept
<1>6. Keeps(s, u, R) /\ R \in Places /\ Good(u, R)
 <2>1. Keeps(s, u, R) BY <1>2, <1>5, KeepsOn
 <2> QED BY <2>1 DEF Keeps
<1>7. \A g \in Heap : R[g] = IF g = h THEN NoPage ELSE Q[g] BY <1>3 DEF Places
<1>8. \A g \in Heap : R[g] = IF g = heir THEN p ELSE IF g = h THEN NoPage ELSE P[g] BY <1>2, <1>7
<1> QED BY <1>6, <1>8

\* lock_rec_free_all_from_discard_page, for all bits of the page.
LEMMA PageIsFreed ==
    ASSUME NEW s, NEW P \in Places, Good(s, P), NEW p,
           NEW u, u = FreeAllFromDiscardPage(s, p)
    PROVE  \E Q \in Places : /\ Keeps(s, u, Q) /\ Good(u, Q)
                             /\ \A g \in Heap : Q[g] = IF P[g] = p THEN NoPage ELSE P[g]
<1>1. PICK Q : Q = [h \in Heap |-> IF P[h] = p THEN NoPage ELSE P[h]] OBVIOUS
<1>2. Keeps(s, u, Q) BY <1>1, FreeAllIsKept
<1>3. Q \in Places /\ Good(u, Q) BY <1>2 DEF Keeps
<1> QED BY <1>1, <1>2, <1>3

-----------------------------------------------------------------------------
(* What the changes of the tree keep *)

\* lock_update_root_raise.
LEMMA RootIsRaised ==
    ASSUME NEW s, NEW P \in Places, Good(s, P), NEW ks, ks \subseteq Keys, \A k \in ks : P[k] = Root,
           P[SupremumOf(Root)] = Root, NEW q \in Pages, P[SupremumOf(q)] = NoPage,
           NEW u, u = RootRaise(s, ks, q)
    PROVE  \E Q \in Places : /\ Keeps(s, u, Q) /\ Good(u, Q) /\ AllStillWait(s, u)
                             /\ \A g \in Heap : Q[g] = IF g \in ks \cup {SupremumOf(q)} THEN q
                                                       ELSE IF g = SupremumOf(Root) THEN NoPage
                                                       ELSE P[g]
<1>1. PICK v : v = MoveRecList(s, Root, ks, q) OBVIOUS
<1>2. PICK Q \in Places : /\ Keeps(s, v, Q) /\ Good(v, Q) /\ AllStillWait(s, v)
                          /\ \A g \in Heap : Q[g] = IF g \in ks THEN q ELSE P[g]
  BY <1>1, HeapFacts, ListMoves
<1>3. u = RecMove(v, Root, SupremumOf(Root), q, SupremumOf(q)) BY <1>1 DEF RootRaise
<1>4. Q[SupremumOf(Root)] = Root /\ Q[SupremumOf(q)] = NoPage BY <1>2, HeapFacts
<1>5. PICK R \in Places : /\ Keeps(v, u, R) /\ Good(u, R) /\ AllStillWait(v, u)
                          /\ \A g \in Heap : R[g] = IF g = SupremumOf(q) THEN q
                                                    ELSE IF g = SupremumOf(Root) THEN NoPage
                                                    ELSE Q[g]
  BY <1>2, <1>3, <1>4, HeapFacts, SupremumMoves
<1>6. Keeps(s, u, R) /\ AllStillWait(s, u) BY <1>2, <1>5, KeepsOn
<1>7. \A g \in Heap : R[g] = IF g \in ks \cup {SupremumOf(q)} THEN q
                             ELSE IF g = SupremumOf(Root) THEN NoPage ELSE P[g]
  BY <1>2, <1>5, HeapFacts
<1> QED BY <1>5, <1>6, <1>7

\* lock_update_split_right.
LEMMA RightIsSplit ==
    ASSUME NEW s, NEW P \in Places, Good(s, P), NEW p \in Pages, NEW q \in Pages, p # q,
           NEW ks, ks \subseteq Keys, \A k \in ks : P[k] = p,
           P[SupremumOf(p)] = p, P[SupremumOf(q)] = NoPage, NEW min, NEW rc,
           NEW u, u = SplitRight(s, p, ks, q, min, rc)
    PROVE  \E Q \in Places : /\ Keeps(s, u, Q) /\ Good(u, Q) /\ AllStillWait(s, u)
                             /\ \A g \in Heap : Q[g] = IF g \in ks \cup {SupremumOf(q)} THEN q
                                                       ELSE P[g]
<1>1. PICK v : v = MoveRecList(s, p, ks, q) OBVIOUS
<1>2. PICK Q \in Places : /\ Keeps(s, v, Q) /\ Good(v, Q) /\ AllStillWait(s, v)
                          /\ \A g \in Heap : Q[g] = IF g \in ks THEN q ELSE P[g]
  BY <1>1, ListMoves
<1>3. PICK w : w = RecMove(v, p, SupremumOf(p), q, SupremumOf(q)) OBVIOUS
<1>4. Q[SupremumOf(p)] = p /\ Q[SupremumOf(q)] = NoPage BY <1>2, HeapFacts
<1>5. PICK R \in Places : /\ Keeps(v, w, R) /\ Good(w, R) /\ AllStillWait(v, w)
                          /\ \A g \in Heap : R[g] = IF g = SupremumOf(q) THEN q
                                                    ELSE IF g = SupremumOf(p) THEN NoPage
                                                    ELSE Q[g]
  BY <1>2, <1>3, <1>4, SupremumMoves
<1>6. u = InheritToGap(w, Donors(w, min, rc), p, SupremumOf(p)) BY <1>1, <1>3 DEF SplitRight
<1>7. SupremumOf(p) \in Heap /\ SupremumOf(p) # SupremumOf(q) BY HeapFacts
<1>8. R[SupremumOf(p)] = NoPage BY <1>5, <1>7
<1>9. PICK T \in Places : /\ Keeps(w, u, T) /\ Good(u, T) /\ AllStillWait(w, u)
                          /\ \A g \in Heap : T[g] = IF g = SupremumOf(p) THEN p ELSE R[g]
  BY <1>5, <1>6, <1>7, <1>8, DonorsAreThere, HeirInherits
<1>10. Keeps(s, w, R) /\ AllStillWait(s, w) BY <1>2, <1>5, KeepsOn
<1>11. Keeps(s, u, T) /\ AllStillWait(s, u) BY <1>9, <1>10, KeepsOn
<1>12. \A g \in Heap : T[g] = IF g \in ks \cup {SupremumOf(q)} THEN q ELSE P[g]
  BY <1>2, <1>5, <1>7, <1>9, HeapFacts
<1> QED BY <1>9, <1>11, <1>12

\* lock_update_split_left.
LEMMA LeftIsSplit ==
    ASSUME NEW s, NEW P \in Places, Good(s, P), NEW p \in Pages, NEW q \in Pages,
           NEW ks, ks \subseteq Keys, \A k \in ks : P[k] = p,
           P[SupremumOf(q)] = NoPage, NEW min, NEW rc,
           NEW u, u = SplitLeft(s, p, ks, q, min, rc)
    PROVE  \E Q \in Places : /\ Keeps(s, u, Q) /\ Good(u, Q) /\ AllStillWait(s, u)
                             /\ \A g \in Heap : Q[g] = IF g \in ks \cup {SupremumOf(q)} THEN q
                                                       ELSE P[g]
<1>1. PICK v : v = MoveRecList(s, p, ks, q) OBVIOUS
<1>2. PICK Q \in Places : /\ Keeps(s, v, Q) /\ Good(v, Q) /\ AllStillWait(s, v)
                          /\ \A g \in Heap : Q[g] = IF g \in ks THEN q ELSE P[g]
  BY <1>1, ListMoves
<1>3. u = InheritToGap(v, Donors(v, min, rc), q, SupremumOf(q)) BY <1>1 DEF SplitLeft
<1>4. SupremumOf(q) \in Heap /\ Q[SupremumOf(q)] = NoPage BY <1>2, HeapFacts
<1>5. PICK T \in Places : /\ Keeps(v, u, T) /\ Good(u, T) /\ AllStillWait(v, u)
                          /\ \A g \in Heap : T[g] = IF g = SupremumOf(q) THEN q ELSE Q[g]
  BY <1>2, <1>3, <1>4, DonorsAreThere, HeirInherits
<1>6. Keeps(s, u, T) /\ AllStillWait(s, u) BY <1>2, <1>5, KeepsOn
<1>7. \A g \in Heap : T[g] = IF g \in ks \cup {SupremumOf(q)} THEN q ELSE P[g] BY <1>2, <1>5
<1> QED BY <1>5, <1>6, <1>7

\* lock_update_copy_and_discard.
LEMMA LeafIsCopied ==
    ASSUME NEW s, NEW P \in Places, Good(s, P), NEW p \in Pages, p # Root,
           NEW ks, ks \subseteq Keys, \A k \in ks : P[k] = p,
           P[SupremumOf(p)] = p, P[SupremumOf(Root)] = NoPage,
           NEW u, u = CopyAndDiscard(s, p, ks)
    PROVE  \E Q \in Places : /\ Keeps(s, u, Q) /\ Good(u, Q)
                             /\ \A g \in Heap : Q[g] = IF g \in ks \cup {SupremumOf(Root)} THEN Root
                                                       ELSE IF P[g] = p THEN NoPage ELSE P[g]
<1>1. PICK v : v = MoveRecList(s, p, ks, Root) OBVIOUS
<1>2. PICK Q \in Places : /\ Keeps(s, v, Q) /\ Good(v, Q)
                          /\ \A g \in Heap : Q[g] = IF g \in ks THEN Root ELSE P[g]
  BY <1>1, HeapFacts, ListMoves
<1>3. PICK w : w = RecMove(v, p, SupremumOf(p), Root, SupremumOf(Root)) OBVIOUS
<1>4. Q[SupremumOf(p)] = p /\ Q[SupremumOf(Root)] = NoPage /\ Root \in Pages BY <1>2, HeapFacts
<1>5. PICK R \in Places : /\ Keeps(v, w, R) /\ Good(w, R)
                          /\ \A g \in Heap : R[g] = IF g = SupremumOf(Root) THEN Root
                                                    ELSE IF g = SupremumOf(p) THEN NoPage
                                                    ELSE Q[g]
  BY <1>2, <1>3, <1>4, SupremumMoves
<1>6. u = FreeAllFromDiscardPage(w, p) BY <1>1, <1>3 DEF CopyAndDiscard
<1>7. PICK T \in Places : /\ Keeps(w, u, T) /\ Good(u, T)
                          /\ \A g \in Heap : T[g] = IF R[g] = p THEN NoPage ELSE R[g]
  BY <1>5, <1>6, PageIsFreed
<1>8. Keeps(s, u, T) BY <1>2, <1>5, <1>7, KeepsOn
<1>9. \A g \in Heap : T[g] = IF g \in ks \cup {SupremumOf(Root)} THEN Root
                             ELSE IF P[g] = p THEN NoPage ELSE P[g]
 <2> SUFFICES ASSUME NEW g \in Heap
              PROVE  T[g] = IF g \in ks \cup {SupremumOf(Root)} THEN Root
                            ELSE IF P[g] = p THEN NoPage ELSE P[g]
   OBVIOUS
 <2>1. /\ Q[g] = IF g \in ks THEN Root ELSE P[g]
       /\ R[g] = IF g = SupremumOf(Root) THEN Root ELSE IF g = SupremumOf(p) THEN NoPage ELSE Q[g]
       /\ T[g] = IF R[g] = p THEN NoPage ELSE R[g]
   BY <1>2, <1>5, <1>7
 <2>2. g \in ks => g # SupremumOf(p) /\ g # SupremumOf(Root) BY HeapFacts
 <2>3. p # NoPage /\ SupremumOf(p) # SupremumOf(Root) BY HeapFacts
 <2> QED BY <2>1, <2>2, <2>3
<1> QED BY <1>7, <1>8, <1>9

\* lock_update_merge_left.
LEMMA LeftIsMerged ==
    ASSUME NEW s, NEW P \in Places, Good(s, P), NEW p \in Pages, NEW q \in Pages, p # q,
           NEW ks, ks \subseteq Keys, \A k \in ks : P[k] = q,
           P[SupremumOf(p)] = p, P[SupremumOf(q)] = q, NEW first \in ks, NEW rc,
           NEW u, u = MergeLeft(s, p, q, ks, first, rc)
    PROVE  \E Q \in Places : /\ Keeps(s, u, Q) /\ Good(u, Q)
                             /\ \A g \in Heap : Q[g] = IF g \in ks THEN p
                                                       ELSE IF P[g] = q THEN NoPage ELSE P[g]
<1>1. PICK v : v = MoveRecList(s, q, ks, p) OBVIOUS
<1>2. PICK Q \in Places : /\ Keeps(s, v, Q) /\ Good(v, Q)
                          /\ \A g \in Heap : Q[g] = IF g \in ks THEN p ELSE P[g]
  BY <1>1, ListMoves
<1>3. PICK w : w = UpdateDelete(v, SupremumOf(p), p, first, rc) OBVIOUS
<1>4. /\ SupremumOf(p) \in Heap /\ SupremumOf(q) \in Heap /\ first \in Heap
      /\ SupremumOf(p) # SupremumOf(q) /\ p # NoPage /\ q # NoPage
      /\ \A k \in ks : k # SupremumOf(p) /\ k # SupremumOf(q)
  BY HeapFacts
<1>5. first # SupremumOf(p) /\ Q[first] = p /\ Q[SupremumOf(q)] = q BY <1>2, <1>4
<1>6. PICK R \in Places : /\ Keeps(v, w, R) /\ Good(w, R)
                          /\ \A g \in Heap : R[g] = IF g = first THEN p
                                                    ELSE IF g = SupremumOf(p) THEN NoPage ELSE Q[g]
  BY <1>2, <1>3, <1>4, <1>5, UpdateDeletes
<1>7. PICK x : x = RecMove(w, q, SupremumOf(q), p, SupremumOf(p)) OBVIOUS
<1>8. R[SupremumOf(q)] = q /\ R[SupremumOf(p)] = NoPage BY <1>4, <1>5, <1>6
<1>9. PICK T \in Places : /\ Keeps(w, x, T) /\ Good(x, T)
                          /\ \A g \in Heap : T[g] = IF g = SupremumOf(p) THEN p
                                                    ELSE IF g = SupremumOf(q) THEN NoPage
                                                    ELSE R[g]
  BY <1>6, <1>7, <1>8, SupremumMoves
<1>10. u = FreeAllFromDiscardPage(x, q) BY <1>1, <1>3, <1>7 DEF MergeLeft
<1>11. PICK U \in Places : /\ Keeps(x, u, U) /\ Good(u, U)
                           /\ \A g \in Heap : U[g] = IF T[g] = q THEN NoPage ELSE T[g]
  BY <1>9, <1>10, PageIsFreed
<1>12. Keeps(s, w, R) /\ Keeps(w, u, U) BY <1>2, <1>6, <1>9, <1>11, KeepsOn
<1>13. Keeps(s, u, U) BY <1>12, KeepsOn
<1>14. \A g \in Heap : U[g] = IF g \in ks THEN p ELSE IF P[g] = q THEN NoPage ELSE P[g]
 <2> SUFFICES ASSUME NEW g \in Heap
              PROVE  U[g] = IF g \in ks THEN p ELSE IF P[g] = q THEN NoPage ELSE P[g]
   OBVIOUS
 <2>1. /\ Q[g] = IF g \in ks THEN p ELSE P[g]
       /\ R[g] = IF g = first THEN p ELSE IF g = SupremumOf(p) THEN NoPage ELSE Q[g]
       /\ T[g] = IF g = SupremumOf(p) THEN p ELSE IF g = SupremumOf(q) THEN NoPage ELSE R[g]
       /\ U[g] = IF T[g] = q THEN NoPage ELSE T[g]
   BY <1>2, <1>6, <1>9, <1>11
 <2> QED BY <1>4, <2>1
<1> QED BY <1>11, <1>13, <1>14

\* lock_update_merge_right.
LEMMA RightIsMerged ==
    ASSUME NEW s, NEW P \in Places, Good(s, P), NEW p \in Pages, NEW q \in Pages, p # q,
           NEW ks, ks \subseteq Keys, \A k \in ks : P[k] = p,
           NEW succ \in Heap, P[succ] = q, P[SupremumOf(p)] = p, NEW rc,
           NEW u, u = MergeRight(s, p, q, ks, succ, rc)
    PROVE  \E Q \in Places : /\ Keeps(s, u, Q) /\ Good(u, Q)
                             /\ \A g \in Heap : Q[g] = IF g \in ks THEN q
                                                       ELSE IF P[g] = p THEN NoPage ELSE P[g]
<1>1. PICK v : v = MoveRecList(s, p, ks, q) OBVIOUS
<1>2. PICK Q \in Places : /\ Keeps(s, v, Q) /\ Good(v, Q)
                          /\ \A g \in Heap : Q[g] = IF g \in ks THEN q ELSE P[g]
  BY <1>1, ListMoves
<1>3. PICK w : w = UpdateDelete(v, SupremumOf(p), q, succ, rc) OBVIOUS
<1>4. /\ SupremumOf(p) \in Heap /\ p # NoPage /\ q # NoPage
      /\ \A k \in ks : k # SupremumOf(p) /\ k # succ
      /\ succ # SupremumOf(p)
  BY HeapFacts
<1>5. Q[succ] = q BY <1>2, <1>4
<1>6. PICK R \in Places : /\ Keeps(v, w, R) /\ Good(w, R)
                          /\ \A g \in Heap : R[g] = IF g = succ THEN q
                                                    ELSE IF g = SupremumOf(p) THEN NoPage ELSE Q[g]
  BY <1>2, <1>3, <1>4, <1>5, UpdateDeletes
<1>7. u = FreeAllFromDiscardPage(w, p) BY <1>1, <1>3 DEF MergeRight
<1>8. PICK T \in Places : /\ Keeps(w, u, T) /\ Good(u, T)
                          /\ \A g \in Heap : T[g] = IF R[g] = p THEN NoPage ELSE R[g]
  BY <1>6, <1>7, PageIsFreed
<1>9. Keeps(s, w, R) BY <1>2, <1>6, KeepsOn
<1>10. Keeps(s, u, T) BY <1>8, <1>9, KeepsOn
<1>11. \A g \in Heap : T[g] = IF g \in ks THEN q ELSE IF P[g] = p THEN NoPage ELSE P[g]
 <2> SUFFICES ASSUME NEW g \in Heap
              PROVE  T[g] = IF g \in ks THEN q ELSE IF P[g] = p THEN NoPage ELSE P[g]
   OBVIOUS
 <2>1. /\ Q[g] = IF g \in ks THEN q ELSE P[g]
       /\ R[g] = IF g = succ THEN q ELSE IF g = SupremumOf(p) THEN NoPage ELSE Q[g]
       /\ T[g] = IF R[g] = p THEN NoPage ELSE R[g]
   BY <1>2, <1>6, <1>8
 <2> QED BY <1>4, <2>1
<1> QED BY <1>8, <1>10, <1>11

\* lock_update_discard.
LEMMA PageIsDiscarded ==
    ASSUME NEW s, NEW P \in Places, Good(s, P), NEW p \in Pages, NEW q \in Pages, p # q,
           NEW h \in Heap, P[h] = p, P[SupremumOf(p)] = p,
           NEW heir \in Heap, P[heir] \in {NoPage, q}, NEW rc,
           NEW u, u = Discard(s, p, h, q, heir, rc)
    PROVE  \E Q \in Places : /\ Keeps(s, u, Q) /\ Good(u, Q)
                             /\ \A g \in Heap : Q[g] = IF g = heir THEN q
                                                       ELSE IF P[g] = p THEN NoPage ELSE P[g]
<1>1. PICK v : v = UpdateDelete(s, h, q, heir, rc) OBVIOUS
<1>2. heir # h /\ heir # SupremumOf(p) /\ SupremumOf(p) \in Heap /\ p # NoPage BY HeapFacts
<1>3. PICK Q \in Places : /\ Keeps(s, v, Q) /\ Good(v, Q)
                          /\ \A g \in Heap : Q[g] = IF g = heir THEN q
                                                    ELSE IF g = h THEN NoPage ELSE P[g]
  BY <1>1, <1>2, UpdateDeletes
<1>4. PICK w : w = UpdateDelete(v, SupremumOf(p), q, heir, rc) OBVIOUS
<1>5. Q[heir] = q BY <1>3
<1>6. PICK R \in Places : /\ Keeps(v, w, R) /\ Good(w, R)
                          /\ \A g \in Heap : R[g] = IF g = heir THEN q
                                                    ELSE IF g = SupremumOf(p) THEN NoPage ELSE Q[g]
  BY <1>2, <1>3, <1>4, <1>5, UpdateDeletes
<1>7. u = FreeAllFromDiscardPage(w, p) BY <1>1, <1>4 DEF Discard
<1>8. PICK T \in Places : /\ Keeps(w, u, T) /\ Good(u, T)
                          /\ \A g \in Heap : T[g] = IF R[g] = p THEN NoPage ELSE R[g]
  BY <1>6, <1>7, PageIsFreed
<1>9. Keeps(s, w, R) BY <1>3, <1>6, KeepsOn
<1>10. Keeps(s, u, T) BY <1>8, <1>9, KeepsOn
<1>11. \A g \in Heap : T[g] = IF g = heir THEN q ELSE IF P[g] = p THEN NoPage ELSE P[g]
 <2> SUFFICES ASSUME NEW g \in Heap
              PROVE  T[g] = IF g = heir THEN q ELSE IF P[g] = p THEN NoPage ELSE P[g]
   OBVIOUS
 <2>1. /\ Q[g] = IF g = heir THEN q ELSE IF g = h THEN NoPage ELSE P[g]
       /\ R[g] = IF g = heir THEN q ELSE IF g = SupremumOf(p) THEN NoPage ELSE Q[g]
       /\ T[g] = IF R[g] = p THEN NoPage ELSE R[g]
   BY <1>3, <1>6, <1>8
 <2> QED BY <1>2, <2>1
<1> QED BY <1>8, <1>10, <1>11

\* lock_rec_reset_and_inherit_gap_locks on the supremum, before a record is put back.
LEMMA SupremumIsRestored ==
    ASSUME NEW s, NEW P \in Places, Good(s, P), NEW p \in Pages, P[SupremumOf(p)] = p,
           NEW h, NEW rc, NEW u, u = RestoreSupremum(s, p, h, rc)
    PROVE  Keeps(s, u, P)
<1>1. PICK g : g = SupremumOf(p) OBVIOUS
<1>2. g \in Heap BY <1>1, HeapFacts
<1>3. PICK v : v = ResetAndReleaseWait(s, g) OBVIOUS
<1>4. PICK Q : Q = [P EXCEPT ![g] = NoPage] OBVIOUS
<1>5. Keeps(s, v, Q) BY <1>2, <1>3, <1>4, ResetIsKept
<1>6. PICK R : R = [Q EXCEPT ![g] = p] OBVIOUS
<1>7. u = InheritToGap(v, Donors(v, h, rc), p, g) BY <1>1, <1>3 DEF RestoreSupremum
<1>8. Q \in Places /\ Good(v, Q) /\ Q[g] \in {NoPage, p} BY <1>2, <1>4, <1>5 DEF Keeps, Places
<1>9. Keeps(v, u, R) BY <1>2, <1>6, <1>7, <1>8, DonorsAreThere, InheritIsKept
<1>10. R = P BY <1>1, <1>2, <1>4, <1>6 DEF Places
<1> QED BY <1>5, <1>9, <1>10, KeepsOn
-----------------------------------------------------------------------------
(* Who has an X lock, and the requests for a record *)

\* Nothing that clashes with a granted X lock has been granted, before it or after it.
LEMMA GrantedXOwns ==
    ASSUME NEW s, NEW P, Good(s, P), NEW t, NEW h \in Heap, GrantedX(s, t, h)
    PROVE  Owns(s, t, h)
<1> SUFFICES ASSUME NEW i \in DOMAIN s, Holds(s[i], h), s[i].trx # t PROVE s[i].wait BY DEF Owns
<1>1. PICK j \in DOMAIN s : Holds(s[j], h) /\ s[j].trx = t /\ s[j].mode = "X" /\ ~ s[j].wait
  BY DEF GrantedX
<1>2. Clash(s[i], s[j]) /\ Clash(s[j], s[i]) BY <1>1 DEF Clash, Compatible
<1>3. i \in Int /\ j \in Int /\ i # j BY <1>1 DEF Good
<1> QED BY <1>1, <1>2, <1>3 DEF Good, Ordered

\* lock_rec_has_expl finds an X lock that has been granted.
LEMMA GrantedXIsThere ==
    ASSUME NEW s, NEW t, NEW h, h \notin Suprema, NEW g, RecHasExpl(s, t, "X", "REC_NOT_GAP", h)
    PROVE  GrantedX(s, t, h)
  BY DEF RecHasExpl, StrongerOrEq, GrantedX, Holds

\* And it misses none.
LEMMA ExplIsThere ==
    ASSUME NEW s, NEW t, NEW h, GrantedX(s, t, h)
    PROVE  RecHasExpl(s, t, "X", "REC_NOT_GAP", h)
  BY DEF RecHasExpl, StrongerOrEq, GrantedX, Holds

\* Who waits no longer has been granted what it had requested.
LEMMA RequestedIsGranted ==
    ASSUME NEW s, NEW t, NEW h, HasX(s, t, h), ~ HasWaitLock(s, t)
    PROVE  GrantedX(s, t, h)
  BY DEF HasX, HasWaitLock, GrantedX

\* A lock request that is granted at once.
LEMMA RecLockEnters ==
    ASSUME NEW s, NEW P, Good(s, P), NEW t \in Trxs, NEW m \in Modes, NEW g \in Gaps,
           NEW p \in Pages, NEW h \in Heap, P[h] = p, h \in Suprema => g = "ORDINARY",
           RecLockGrants(s, t, m, g, p, h), RecLock(s, FALSE, t, m, g, p, h) # s
    PROVE  \E l \in LockStruct :
              /\ l.bits = {h} /\ l.type = "REC" /\ ~ l.wait /\ l.page = P[h] /\ l.trx = t
              /\ \A x \in DOMAIN s : ~ Clash(s[x], l)
              /\ Entered(s, RecLock(s, FALSE, t, m, g, p, h), l, h)
<1>1. s \in Seq(LockStruct) BY DEF Good
<1>2. \A x \in DOMAIN s : On(s[x], h) => x \in OnPage(s, p) BY DEF On, OnPage, Good, Placed
<1>3. GapOn(h, g) = IF h \in Suprema THEN "ORDINARY" ELSE g BY DEF GapOn
<1>4. PICK u : u = RecLock(s, FALSE, t, m, g, p, h) OBVIOUS
<1>5. SUFFICES \E l \in LockStruct :
                  /\ l.bits = {h} /\ l.type = "REC" /\ ~ l.wait /\ l.page = p /\ l.trx = t
                  /\ \A x \in DOMAIN s : ~ Clash(s[x], l)
                  /\ Entered(s, u, l, h)
  BY <1>4
<1>6. CASE FastPathApplies(s, t, m, g, p, h)
 <2>1. u = FastPath(s, FALSE, t, m, g, p, h) BY <1>4, <1>6 DEF RecLock
 <2>2. PICK l : l = NewRecLock(t, m, g, FALSE, p, h, FALSE) OBVIOUS
 <2>3. /\ l \in LockStruct /\ l.bits = {h} /\ l.type = "REC" /\ ~ l.wait /\ l.page = p /\ l.trx = t
       /\ l.mode = m /\ l.gap = GapOn(h, g) /\ ~ l.ii
  <3>1. l \in LockStruct BY <2>2, NewRecLockType
  <3> QED BY <2>2, <3>1 DEF NewRecLock
 <2>4. \A x \in DOMAIN s : ~ Clash(s[x], l)
  <3> SUFFICES ASSUME NEW x \in DOMAIN s, Clash(s[x], l) PROVE FALSE OBVIOUS
  <3>1. PICK f \in Heap : Holds(s[x], f) /\ Holds(l, f) BY <2>3 DEF Clash
  <3>2. f = h /\ x \in OnPage(s, p) BY <1>2, <2>3, <3>1 DEF Holds, On
  <3>3. s[x].trx = t BY <1>6, <3>2 DEF FastPathApplies
  <3> QED BY <2>3, <3>3 DEF Clash
 <2>5. CASE OnPage(s, p) = {}
  <3>1. u = Append(s, l) BY <2>1, <2>2, <2>5 DEF FastPath
  <3>2. Entered(s, u, l, h) BY <1>1, <2>3, <3>1, AppendEnters
  <3> QED BY <2>3, <2>4, <3>2
 <2>6. CASE OnPage(s, p) # {}
  <3>1. PICK i \in DOMAIN s : /\ OnPage(s, p) = {i}
                              /\ s[i].trx = t /\ s[i].mode = m /\ s[i].gap = g
                              /\ ~ s[i].ii /\ ~ s[i].wait
    BY <1>6, <2>6 DEF FastPathApplies
  <3>2. u = [x \in DOMAIN s |-> IF x = i THEN [s[x] EXCEPT !.bits = @ \cup {h}] ELSE s[x]]
    BY <2>1, <2>6, <3>1 DEF FastPath
  <3>3. s[i].type = "REC" /\ s[i].page = p BY <3>1 DEF OnPage
  <3>4. s[i] \in LockStruct BY <1>1
  <3>5. PICK k : k = [s[i] EXCEPT !.bits = @ \cup {h}] OBVIOUS
  <3>6. k \in LockStruct /\ k.bits = s[i].bits \cup {h} /\ Alike(k, s[i])
    BY <3>4, <3>5 DEF LockStruct, Alike
  <3>7. u = [s EXCEPT ![i] = k] BY <1>1, <3>2, <3>5
  <3>8. u \in Seq(LockStruct) /\ DOMAIN u = DOMAIN s /\ u[i] = k /\ \A x \in DOMAIN s : x # i => u[x] = s[x]
   <4>1. i \in DOMAIN s /\ k \in LockStruct BY <3>1, <3>6
   <4> QED BY <1>1, <3>7, <4>1
  <3>9. Alike(s[i], l)
   <4>1. s[i].ii \in BOOLEAN /\ s[i].wait \in BOOLEAN /\ l.ii \in BOOLEAN /\ l.wait \in BOOLEAN
     BY <2>3, <3>4 DEF LockStruct
   <4> QED BY <1>3, <2>3, <3>1, <3>3, <4>1 DEF Alike
  <3>10. Alike(k, l) /\ h \in k.bits BY <3>6, <3>9 DEF Alike
  <3>12. ~ SomebodyWaitsOn(s, l.page, h) BY <2>3, <3>1 DEF SomebodyWaitsOn, On, OnPage
  <3>11. Entered(s, u, l, h) BY <2>3, <3>1, <3>6, <3>8, <3>9, <3>10, <3>12 DEF Entered
  <3> QED BY <2>3, <2>4, <3>11
 <2> QED BY <2>5, <2>6
<1>7. CASE ~ FastPathApplies(s, t, m, g, p, h)
 <2>1. u = SlowPath(s, FALSE, t, m, g, p, h) /\ SlowPathGrants(s, t, m, g, h)
   BY <1>4, <1>7 DEF RecLock, RecLockGrants
 <2>2. ~ RecHasExpl(s, t, m, g, h) BY <1>4, <2>1 DEF SlowPath
 <2>3. u = RecAddToQueue(s, t, m, g, p, h) BY <2>1, <2>2 DEF SlowPath
 <2>4. QED
  <3>1. u = RecAddToQueue(s, t, m, g, p, h) /\ ~ RecOtherHasConflicting(s, t, m, g, FALSE, h)
    BY <2>1, <2>2, <2>3 DEF SlowPathGrants
  <3>2. PICK l \in LockStruct :
           /\ l.bits = {h} /\ l.type = "REC" /\ l.page = p /\ l.trx = t
           /\ l.mode = m /\ l.gap = GapOn(h, g) /\ ~ l.ii /\ ~ l.wait
           /\ Entered(s, u, l, h)
   <4>1. PICK v : v = RecAddToQueue(s, t, m, g, p, h) OBVIOUS
   <4>2. \E l \in LockStruct :
            /\ l.bits = {h} /\ l.type = "REC" /\ l.page = p /\ l.trx = t
            /\ l.mode = m /\ l.gap = GapOn(h, g) /\ ~ l.ii /\ ~ l.wait
            /\ Entered(s, v, l, h)
     BY <1>1, <4>1, RecAddToQueueEnters
   <4>3. u = v BY <3>1, <4>1
   <4> QED BY <4>2, <4>3
  <3>3. \A x \in DOMAIN s : ~ Clash(s[x], l)
   <4> SUFFICES ASSUME NEW x \in DOMAIN s, Clash(s[x], l) PROVE FALSE OBVIOUS
   <4>1. PICK f \in Heap : Holds(s[x], f) /\ Holds(l, f) BY <3>2 DEF Clash
   <4>2. f = h BY <3>2, <4>1 DEF Holds, On
   <4>3. On(s[x], h) /\ h \notin Suprema /\ s[x].gap # "GAP" /\ ~ s[x].ii /\ g # "GAP"
     BY <1>3, <3>2, <4>1, <4>2 DEF Holds
   <4>4. t # s[x].trx /\ ~ Compatible(m, s[x].mode) BY <3>2 DEF Clash, Compatible
   <4>5. RecHasToWait(t, m, g, FALSE, s[x], h \in Suprema) BY <4>3, <4>4 DEF RecHasToWait
   <4> QED BY <3>1, <4>3, <4>5 DEF RecOtherHasConflicting
  <3> QED BY <3>2, <3>3
<1> QED BY <1>6, <1>7

\* The lock table after a request that is granted, and after one that waits.
Locked(s, t, m, g, p, h) == RecLock(s, FALSE, t, m, g, p, h)
Waiting(s, t, m, g, p, h) == Append(s, NewRecLock(t, m, g, FALSE, p, h, TRUE))
InsertWaits(s, t, h) == RecOtherHasConflicting(s, t, "X", "GAP", TRUE, h)
WaitingToInsert(s, t, p, h) == Append(s, NewRecLock(t, "X", "GAP", TRUE, p, h, TRUE))

\* lock_rec_lock where it grants: by the fast path, or because nothing conflicts.
LEMMA RecLockKeeps ==
    ASSUME NEW s, NEW P, Good(s, P), NEW t \in Trxs, NEW m \in Modes, NEW g \in Gaps,
           NEW p \in Pages, NEW h \in Heap, P[h] = p, h \in Suprema => g = "ORDINARY",
           RecLockGrants(s, t, m, g, p, h)
    PROVE  \E u : /\ u = Locked(s, t, m, g, p, h)
                  /\ Good(u, P)
                  /\ \A x : /\ HasLock(u, x) => HasLock(s, x) \/ x = t
                            /\ HasWaitLock(u, x) <=> HasWaitLock(s, x)
                  /\ \A x, f : Owns(s, x, f) /\ (x = t \/ f # h \/ GrantedX(s, x, f)) => Owns(u, x, f)
                  /\ FewerWaits(s, u)
<1>1. PICK u : u = RecLock(s, FALSE, t, m, g, p, h) OBVIOUS
<1>4. u = Locked(s, t, m, g, p, h) BY <1>1 DEF Locked
<1>2. CASE u = s BY Zenon, <1>2, <1>4 DEF FewerWaits
<1>3. CASE u # s
 <2>1. \E l \in LockStruct :
          /\ l.bits = {h} /\ l.type = "REC" /\ ~ l.wait /\ l.page = P[h] /\ l.trx = t
          /\ \A x \in DOMAIN s : ~ Clash(s[x], l)
          /\ Entered(s, RecLock(s, FALSE, t, m, g, p, h), l, h)
   BY ZenonT(60), <1>1, <1>3, RecLockEnters
 <2>2. PICK l \in LockStruct :
          /\ l.bits = {h} /\ l.type = "REC" /\ ~ l.wait /\ l.page = P[h] /\ l.trx = t
          /\ \A x \in DOMAIN s : ~ Clash(s[x], l)
          /\ Entered(s, u, l, h)
   BY <1>1, <2>1
 <2>3. /\ Good(u, P)
       /\ \A x : /\ HasLock(u, x) => HasLock(s, x) \/ x = l.trx
                 /\ HasWaitLock(u, x) <=> HasWaitLock(s, x)
       /\ \A x, f : Owns(s, x, f) /\ (x = l.trx \/ f # h \/ GrantedX(s, x, f)) => Owns(u, x, f)
       /\ FewerWaits(s, u)
   BY <2>2, EnteredKeeps
 <2> QED BY <1>4, <2>2, <2>3
<1> QED BY <1>2, <1>3

\* Where the request of a change is granted, the record is its own.
LEMMA ChangeOwns ==
    ASSUME NEW s, NEW P, Good(s, P), NEW t, NEW p, NEW h \in Keys, P[h] = p,
           RecLockGrants(s, t, "X", "REC_NOT_GAP", p, h)
    PROVE  Owns(s, t, h)
<1>1. h \notin Suprema /\ h \in Heap BY HeapFacts
<1>2. CASE FastPathApplies(s, t, "X", "REC_NOT_GAP", p, h)
 <2> SUFFICES ASSUME NEW x \in DOMAIN s, Holds(s[x], h) PROVE s[x].trx = t BY DEF Owns
 <2>1. x \in OnPage(s, p) BY DEF Holds, On, OnPage, Good, Placed
 <2> QED BY <1>2, <2>1 DEF FastPathApplies
<1>3. CASE RecHasExpl(s, t, "X", "REC_NOT_GAP", h) BY <1>1, <1>3, GrantedXIsThere, GrantedXOwns
<1>4. CASE ~ RecOtherHasConflicting(s, t, "X", "REC_NOT_GAP", FALSE, h)
 <2> SUFFICES ASSUME NEW x \in DOMAIN s, Holds(s[x], h), s[x].trx # t PROVE FALSE BY DEF Owns
 <2>1. ~ Compatible("X", s[x].mode) BY DEF Compatible
 <2>2. RecHasToWait(t, "X", "REC_NOT_GAP", FALSE, s[x], h \in Suprema)
   BY <1>1, <2>1 DEF RecHasToWait, Holds
 <2> QED BY <1>4, <2>2 DEF RecOtherHasConflicting, Holds
<1> QED BY <1>2, <1>3, <1>4 DEF RecLockGrants, SlowPathGrants

\* A request that has to wait.
LEMMA WaitKeeps ==
    ASSUME NEW s, NEW P, Good(s, P), NEW p \in Pages, NEW h \in Heap, P[h] = p,
           NEW l \in LockStruct, l.bits = {h}, l.type = "REC", l.wait, l.page = p,
           h \in Suprema => l.gap = "ORDINARY", ~ HasWaitLock(s, l.trx),
           \E x \in DOMAIN s : SameQueue(l, s[x]) /\ LockHasToWait(l, s[x])
    PROVE  \E u : /\ u = Append(s, l)
                  /\ Good(u, P)
                  /\ \A x : /\ HasLock(u, x) => HasLock(s, x) \/ x = l.trx
                            /\ HasWaitLock(u, x) <=> HasWaitLock(s, x) \/ x = l.trx
                  /\ \A x, f : /\ Owns(s, x, f)
                               /\ x = l.trx \/ ~ Holds(l, f) \/ GrantedX(s, x, f)
                               => Owns(u, x, f)
                  /\ \A f : Holds(l, f) /\ l.mode = "X" => HasX(u, l.trx, f)
                  /\ \A x \in DOMAIN u : u[x].wait /\ u[x].trx = l.trx => x = Len(u)
                  /\ OnlyWaits(s, u, l.trx)
<1>1. PICK u : u = Append(s, l) OBVIOUS
<1>2. /\ \A f \in l.bits : l.type = "REC" /\ l.page = P[f]
      /\ ~ l.wait => \A x \in DOMAIN s : ~ Clash(s[x], l)
      /\ l.wait => /\ l.type = "REC" => 
                         \E f \in Heap : l.bits = {f} /\ (f \in Suprema => l.gap = "ORDINARY")
                   /\ ~ HasWaitLock(s, l.trx)
                   /\ \E x \in DOMAIN s : SameQueue(l, s[x]) /\ LockHasToWait(l, s[x])
  OBVIOUS
<1>3. Good(u, P) BY <1>1, <1>2, AppendKeeps
<1>4. \A x : /\ HasLock(u, x) <=> HasLock(s, x) \/ x = l.trx
             /\ HasWaitLock(u, x) <=> HasWaitLock(s, x) \/ (l.wait /\ x = l.trx)
  BY ZenonT(60), <1>1, <1>2, AppendKeeps
<1>5. \A x, f : /\ Owns(s, x, f)
                /\ Holds(l, f) => x = l.trx \/ (l.wait /\ GrantedX(s, x, f))
                => Owns(u, x, f)
  BY Zenon, <1>1, <1>2, AppendKeeps
<1>6. \A f : Holds(l, f) /\ l.mode = "X" => HasX(u, l.trx, f) BY Zenon, <1>1, <1>2, AppendKeeps
<1>7. \A x \in DOMAIN u : u[x].wait /\ u[x].trx = l.trx => x = Len(u)
 <2>1. s \in Seq(LockStruct) /\ Len(s) \in Nat /\ DOMAIN s = 1 .. Len(s) BY DEF Good
 <2>2. /\ Len(u) = Len(s) + 1 /\ DOMAIN u = 1 .. (Len(s) + 1)
       /\ \A x \in DOMAIN s : u[x] = s[x]
   BY <1>1, <2>1
 <2>3. \A x \in DOMAIN u : x \in DOMAIN s \/ x = Len(u) BY <2>1, <2>2
 <2>4. \A x \in DOMAIN s : ~ (s[x].trx = l.trx /\ s[x].wait) BY DEF HasWaitLock
 <2> QED BY <2>2, <2>3, <2>4
<1>8. OnlyWaits(s, u, l.trx) BY <1>1, <1>2, AppendKeeps
<1> QED BY <1>1, <1>3, <1>4, <1>5, <1>6, <1>7, <1>8

\* lock_rec_enqueue_waiting where lock_rec_lock does not grant.
LEMMA WaitingKeeps ==
    ASSUME NEW s, NEW P, Good(s, P), NEW t \in Trxs, NEW m \in Modes, NEW g \in Gaps,
           NEW p \in Pages, NEW h \in Heap, P[h] = p, ~ HasWaitLock(s, t),
           ~ RecLockGrants(s, t, m, g, p, h)
    PROVE  \E u : /\ u = Waiting(s, t, m, g, p, h)
                  /\ Good(u, P)
                  /\ \A x : /\ HasLock(u, x) => HasLock(s, x) \/ x = t
                            /\ HasWaitLock(u, x) <=> HasWaitLock(s, x) \/ x = t
                  /\ \A x, f : Owns(s, x, f) /\ (x = t \/ f # h \/ GrantedX(s, x, f)) => Owns(u, x, f)
                  /\ h \notin Suprema /\ g # "GAP" /\ m = "X" => HasX(u, t, h)
                  /\ \A x \in DOMAIN u : u[x].wait /\ u[x].trx = t => x = Len(u)
                  /\ OnlyWaits(s, u, t)
<1>1. PICK l : l = NewRecLock(t, m, g, FALSE, p, h, TRUE) OBVIOUS
<1>2. /\ l \in LockStruct /\ l.bits = {h} /\ l.type = "REC" /\ l.wait /\ l.page = p /\ l.trx = t
      /\ l.mode = m /\ l.gap = GapOn(h, g) /\ ~ l.ii
 <2>1. l \in LockStruct BY <1>1, NewRecLockType
 <2> QED BY <1>1, <2>1 DEF NewRecLock
<1>3. PICK j \in DOMAIN s : On(s[j], h) /\ RecHasToWait(t, m, g, FALSE, s[j], h \in Suprema)
  BY DEF RecOtherHasConflicting, RecLockGrants, SlowPathGrants
<1>4. SameQueue(l, s[j]) /\ LockHasToWait(l, s[j])
 <2>1. SameQueue(l, s[j]) BY <1>2, <1>3 DEF SameQueue, On
 <2>2. l.bits \cap Suprema # {} <=> h \in Suprema BY <1>2
 <2>3. RecHasToWait(l.trx, l.mode, l.gap, l.ii, s[j], l.bits \cap Suprema # {})
   BY <1>2, <1>3, <2>2 DEF RecHasToWait, GapOn
 <2> QED BY <2>1, <2>3 DEF LockHasToWait, RecHasToWait
<1>5. PICK u :
         /\ u = Append(s, l)
         /\ Good(u, P)
         /\ \A x : /\ HasLock(u, x) => HasLock(s, x) \/ x = l.trx
                   /\ HasWaitLock(u, x) <=> HasWaitLock(s, x) \/ x = l.trx
         /\ \A x, f : /\ Owns(s, x, f)
                      /\ x = l.trx \/ ~ Holds(l, f) \/ GrantedX(s, x, f)
                      => Owns(u, x, f)
         /\ \A f : Holds(l, f) /\ l.mode = "X" => HasX(u, l.trx, f)
         /\ \A x \in DOMAIN u : u[x].wait /\ u[x].trx = l.trx => x = Len(u)
         /\ OnlyWaits(s, u, l.trx)
 <2>1. h \in Suprema => l.gap = "ORDINARY" BY <1>2 DEF GapOn
 <2> QED BY <1>2, <1>4, <2>1, WaitKeeps
<1>6. \A f : Holds(l, f) => f = h BY <1>2 DEF Holds, On
<1>7. h \notin Suprema /\ g # "GAP" => Holds(l, h) BY <1>2 DEF Holds, On, GapOn
<1>8. u = Waiting(s, t, m, g, p, h) BY <1>1, <1>5 DEF Waiting
<1> QED BY <1>2, <1>5, <1>6, <1>7, <1>8

\* The request of an insert waits for the gap only, and takes it from nobody.
LEMMA WaitingToInsertKeeps ==
    ASSUME NEW s, NEW P, Good(s, P), NEW t \in Trxs, NEW p \in Pages, NEW h \in Heap, P[h] = p,
           ~ HasWaitLock(s, t), InsertWaits(s, t, h)
    PROVE  \E u : /\ u = WaitingToInsert(s, t, p, h)
                  /\ Good(u, P)
                  /\ \A x : /\ HasLock(u, x) => HasLock(s, x) \/ x = t
                            /\ HasWaitLock(u, x) <=> HasWaitLock(s, x) \/ x = t
                  /\ \A x, f : Owns(s, x, f) => Owns(u, x, f)
                  /\ \A x \in DOMAIN u : u[x].wait /\ u[x].trx = t => x = Len(u)
                  /\ OnlyWaits(s, u, t)
<1>1. PICK l : l = NewRecLock(t, "X", "GAP", TRUE, p, h, TRUE) OBVIOUS
<1>2. /\ l \in LockStruct /\ l.bits = {h} /\ l.type = "REC" /\ l.wait /\ l.page = p /\ l.trx = t
      /\ l.mode = "X" /\ l.gap = GapOn(h, "GAP") /\ l.ii
 <2>1. l \in LockStruct BY <1>1, NewRecLockType DEF Modes, Gaps
 <2> QED BY <1>1, <2>1 DEF NewRecLock
<1>3. PICK j \in DOMAIN s : On(s[j], h) /\ RecHasToWait(t, "X", "GAP", TRUE, s[j], h \in Suprema)
  BY DEF InsertWaits, RecOtherHasConflicting
<1>4. SameQueue(l, s[j]) /\ LockHasToWait(l, s[j])
 <2>1. SameQueue(l, s[j]) BY <1>2, <1>3 DEF SameQueue, On
 <2>2. l.bits \cap Suprema # {} <=> h \in Suprema BY <1>2
 <2>3. RecHasToWait(l.trx, l.mode, l.gap, l.ii, s[j], l.bits \cap Suprema # {})
   BY <1>2, <1>3, <2>2 DEF RecHasToWait, GapOn
 <2> QED BY <2>1, <2>3 DEF LockHasToWait, RecHasToWait
<1>5. PICK u :
         /\ u = Append(s, l)
         /\ Good(u, P)
         /\ \A x : /\ HasLock(u, x) => HasLock(s, x) \/ x = l.trx
                   /\ HasWaitLock(u, x) <=> HasWaitLock(s, x) \/ x = l.trx
         /\ \A x, f : /\ Owns(s, x, f)
                      /\ x = l.trx \/ ~ Holds(l, f) \/ GrantedX(s, x, f)
                      => Owns(u, x, f)
         /\ \A f : Holds(l, f) /\ l.mode = "X" => HasX(u, l.trx, f)
         /\ \A x \in DOMAIN u : u[x].wait /\ u[x].trx = l.trx => x = Len(u)
         /\ OnlyWaits(s, u, l.trx)
 <2>1. h \in Suprema => l.gap = "ORDINARY" BY <1>2 DEF GapOn
 <2> QED BY <1>2, <1>4, <2>1, WaitKeeps
<1>6. \A f : ~ Holds(l, f) BY <1>2 DEF Holds
<1>7. u = WaitingToInsert(s, t, p, h) BY <1>1, <1>5 DEF WaitingToInsert
<1> QED BY <1>2, <1>5, <1>6, <1>7

-----------------------------------------------------------------------------
(* Where the bits are *)

Trees == [leaves : {<<Root>>, <<1>>, <<2>>, <<1, 2>>, <<2, 1>>}, cut : {0} \cup Keys]

InTree(T, p) == \E i \in DOMAIN T.leaves : T.leaves[i] = p

PageIn(T, k) == T.leaves[IF Len(T.leaves) = 2 /\ k > T.cut THEN 2 ELSE 1]

\* The record is not on its page: the infimum has its bits.
Stored(q) == q # NoReq /\ q.op = "MODIFY" /\ q.step # "CHECKED"

PlaceOf(T, R, q) ==
    [h \in Heap |->
        IF h \in Suprema
        THEN IF InTree(T, h - SupremumOf(0)) THEN h - SupremumOf(0) ELSE NoPage
        ELSE IF h \in Keys
        THEN IF R[h] # NoRow /\ ~ (Stored(q) /\ h = q.key) THEN PageIn(T, h) ELSE NoPage
        ELSE IF Stored(q) /\ h = InfimumOf(q.page) THEN q.page ELSE NoPage]

Place == PlaceOf(tree, rows, request)

\* A tree has one leaf, or two; every key is in one of them.
LEMMA TreeFacts ==
    ASSUME NEW T \in Trees
    PROVE  /\ Len(T.leaves) \in {1, 2} /\ DOMAIN T.leaves = 1 .. Len(T.leaves)
           /\ T.leaves[1] \in Pages
           /\ Len(T.leaves) = 2 => /\ T.leaves[1] \in {1, 2} /\ T.leaves[2] \in {1, 2}
                                   /\ T.leaves[1] # T.leaves[2]
           /\ Len(T.leaves) = 1 => T.leaves = <<T.leaves[1]>>
           /\ \A p : InTree(T, p) <=> p = T.leaves[1] \/ (Len(T.leaves) = 2 /\ p = T.leaves[2])
           /\ \A k : PageIn(T, k) \in Pages /\ InTree(T, PageIn(T, k))
           /\ \A k : Len(T.leaves) = 1 => PageIn(T, k) = T.leaves[1]
<1>1. T.leaves \in {<<Root>>, <<1>>, <<2>>, <<1, 2>>, <<2, 1>>} BY DEF Trees
<1>2. CASE T.leaves \in {<<Root>>, <<1>>, <<2>>} BY <1>2 DEF Root, Pages, InTree, PageIn
<1>3. CASE T.leaves \in {<<1, 2>>, <<2, 1>>} BY <1>3 DEF Root, Pages, InTree, PageIn
<1> QED BY <1>1, <1>2, <1>3

\* There is nothing else on the heap.
LEMMA HeapIs ==
    \A h \in Heap : h \in Keys \/ \E p \in Pages : h = SupremumOf(p) \/ h = InfimumOf(p)
<1> SUFFICES ASSUME NEW h \in Heap, h \notin Keys
             PROVE  \E p \in Pages : h = SupremumOf(p) \/ h = InfimumOf(p)
  OBVIOUS
<1>1. MaxKey \in Nat /\ h \in (MaxKey + 1) .. (MaxKey + 6) BY MaxKeyAssumption DEF Heap, Keys
<1>2. CASE h <= MaxKey + 3
 <2>1. h - MaxKey - 1 \in Pages /\ h = SupremumOf(h - MaxKey - 1)
   BY <1>1, <1>2 DEF Pages, SupremumOf
 <2> QED BY <2>1
<1>3. CASE h > MaxKey + 3
 <2>1. h - MaxKey - 4 \in Pages /\ h = InfimumOf(h - MaxKey - 4) BY <1>1, <1>3 DEF Pages, InfimumOf
 <2> QED BY <2>1
<1> QED BY <1>1, <1>2, <1>3

\* The place of each record, supremum and infimum.
LEMMA PlaceIs ==
    ASSUME NEW T \in Trees, NEW R, NEW q \in Request \cup {NoReq}, NEW P, P = PlaceOf(T, R, q)
    PROVE  /\ P \in Places
           /\ \A p \in Pages : P[SupremumOf(p)] = IF InTree(T, p) THEN p ELSE NoPage
           /\ \A k \in Keys : P[k] = IF R[k] # NoRow /\ ~ (Stored(q) /\ k = q.key)
                                     THEN PageIn(T, k) ELSE NoPage
           /\ \A p \in Pages : P[InfimumOf(p)] = IF Stored(q) /\ p = q.page THEN p ELSE NoPage
<1>1. Stored(q) => q.page \in Pages BY DEF Stored, Request
<1>2. ASSUME NEW h \in Heap
      PROVE  P[h] \in 0 .. 3
 <2>1. P[h] = IF h \in Suprema
              THEN IF InTree(T, h - SupremumOf(0)) THEN h - SupremumOf(0) ELSE NoPage
              ELSE IF h \in Keys
              THEN IF R[h] # NoRow /\ ~ (Stored(q) /\ h = q.key) THEN PageIn(T, h) ELSE NoPage
              ELSE IF Stored(q) /\ h = InfimumOf(q.page) THEN q.page ELSE NoPage
   BY DEF PlaceOf
 <2>2. PageIn(T, h) \in Pages BY TreeFacts
 <2>3. h \in Suprema => h - SupremumOf(0) \in Pages BY HeapFacts
 <2> QED BY <1>1, <2>1, <2>2, <2>3, HeapFacts
<1>3. P \in Places BY <1>2 DEF PlaceOf, Places
<1>4. ASSUME NEW p \in Pages
      PROVE  /\ P[SupremumOf(p)] = IF InTree(T, p) THEN p ELSE NoPage
             /\ P[InfimumOf(p)] = IF Stored(q) /\ p = q.page THEN p ELSE NoPage
 <2>1. /\ SupremumOf(p) \in Suprema /\ SupremumOf(p) \in Heap /\ SupremumOf(p) - SupremumOf(0) = p
       /\ InfimumOf(p) \in Heap /\ InfimumOf(p) \notin Suprema /\ InfimumOf(p) \notin Keys
   BY HeapFacts
 <2>2. Stored(q) => (InfimumOf(p) = InfimumOf(q.page) <=> p = q.page) BY <1>1, HeapFacts
 <2> QED BY <2>1, <2>2 DEF PlaceOf
<1>5. ASSUME NEW k \in Keys
      PROVE  P[k] = IF R[k] # NoRow /\ ~ (Stored(q) /\ k = q.key) THEN PageIn(T, k) ELSE NoPage
 <2>1. k \in Heap /\ k \notin Suprema BY HeapFacts
 <2> QED BY <2>1 DEF PlaceOf
<1> QED BY <1>3, <1>4, <1>5

-----------------------------------------------------------------------------
(* The inductive invariant *)

Types ==
    /\ plan \in Plans
    /\ rows \in [Keys -> Row \cup {NoRow}]
    /\ tree \in Trees
    /\ undo \in [Trxs -> Seq([key : Keys, old : Row \cup {NoRow}])]
    /\ conc_state \in [Trxs -> {"ACTIVE", "COMMITTED_IN_MEMORY", "NOT_STARTED"}]
    /\ que_state \in [Trxs -> {"RUNNING", "LOCK_WAIT"}]
    /\ thr \in [Trxs -> {"RUNNING", "TO_SUSPEND", "SUSPENDED"}]
    /\ chosen \in [Trxs -> BOOLEAN]
    /\ expired \in [Trxs -> BOOLEAN]
    /\ error \in [Trxs -> {"SUCCESS", "DEADLOCK", "LOCK_WAIT_TIMEOUT"}]
    /\ kernel \in Trxs \cup {NoTrx}
    /\ count \in 0 .. (plan.interval - 1)
    /\ request \in Request \cup {NoReq}
    /\ cursor \in [Trxs -> Cursor]
    /\ statements \in [Trxs -> Nat]
    /\ \A t \in plan.trxs : statements[t] <= plan.statements[t]
    /\ scanned \in [Trxs -> SUBSET Keys]

\* No transactions but k wait for each other in a circle.
NoLoop(s, k) ==
    \A C \in SUBSET Trxs : C # {} /\ k \notin C => \E x \in C : \A y \in C : ~ WaitsOn(s, x, y)

\* Who waits is active, and in a lock wait, or makes the deadlock check for the
\* request it has just enqueued; its thread runs meanwhile. Only the request under
\* check can close a circle.
WaitsAreRight ==
    /\ \A i \in DOMAIN locks : locks[i].wait =>
          /\ conc_state[locks[i].trx] = "ACTIVE"
          /\ kernel = locks[i].trx => i = Len(locks)
          /\ kernel # locks[i].trx => que_state[locks[i].trx] = "LOCK_WAIT"
    /\ \A t \in Trxs : que_state[t] = "LOCK_WAIT" => thr[t] # "RUNNING" /\ HasWaitLock(locks, t)
    /\ \A i \in DOMAIN locks : conc_state[locks[i].trx] # "NOT_STARTED"
    /\ \A t \in Trxs : conc_state[t] = "ACTIVE" => t \in plan.trxs
    /\ Active(kernel) => thr[kernel] = "RUNNING"
    /\ NoLoop(locks, kernel)

\* What a row operation has found still holds when it goes on: a record that is to
\* be changed is there, nobody else has changed it, and its lock, explicit or not,
\* is still exclusive.
RequestIsRight ==
    request # NoReq =>
       LET t == request.trx
           k == request.key
       IN  /\ request.op = "READ" => kernel = t
           /\ request.op # "COMPRESS" => Active(t)
           /\ request.op = "INSERT" => k \in Keys /\ ~ Present(k)
           /\ request.op = "COMPRESS" =>
                 k \in Keys /\ PageOf(k) # Root /\ RecordsOf(PageOf(k)) # {}
           /\ request.op \in {"INSERT", "MODIFY"} => ~ cursor[t].new
           /\ request.op = "MODIFY" =>
                 /\ k \in Keys /\ Present(k)
                 /\ request.step # "CHECKED" => kernel # t
                 /\ request.step # "SPLIT" => request.page = PageOf(k)
                 /\ kernel # t /\ Active(rows[k].by) => rows[k].by = t
                 /\ request.step # "CHECKED" => Owns(locks, t, InfimumOf(request.page))
                 /\ request.step = "CHECKED" /\ kernel = t => HasX(locks, t, k)
                 /\ request.step = "CHECKED" /\ kernel # t => Owns(locks, t, k)

\* The implicit lock: no conflicting lock has been granted, and where one waits, the
\* lock has been made explicit.
RowsAreRight ==
    \A k \in Keys : Present(k) /\ Active(rows[k].by) => Owns(locks, rows[k].by, k)

\* What a rollback finds: the record is still there as the transaction left it.
UndoIsRight ==
    \A t \in Trxs :
        /\ undo[t] # <<>> => conc_state[t] = "ACTIVE"
        /\ \A n \in DOMAIN undo[t] :
              LET u == undo[t][n]
              IN  /\ Present(u.key) /\ rows[u.key].by = t
                  /\ u.old # NoRow /\ Active(u.old.by) => u.old.by = t
                  /\ \A m \in DOMAIN undo[t] : m > n /\ undo[t][m].key = u.key =>
                        undo[t][m].old # NoRow /\ undo[t][m].old.by = t

\* The lock that unlock_row gives up is not on a record the transaction changed.
CursorIsRight ==
    \A t \in Trxs : conc_state[t] = "ACTIVE" /\ cursor[t].new =>
        /\ cursor[t].key \in Keys
        /\ Present(cursor[t].key) => rows[cursor[t].key].by # t

IInv ==
    /\ Types
    /\ Good(locks, Place)
    /\ WaitsAreRight
    /\ RequestIsRight
    /\ RowsAreRight
    /\ UndoIsRight
    /\ CursorIsRight

-----------------------------------------------------------------------------
(* What the invariant says of a state *)

\* The lock table has its type.
LEMMA LocksAre ==
    ASSUME IInv
    PROVE  /\ locks \in Seq(LockStruct) /\ Len(locks) \in Nat /\ DOMAIN locks = 1 .. Len(locks)
           /\ \A i \in DOMAIN locks : /\ locks[i] \in LockStruct /\ locks[i].trx \in Trxs
                                      /\ locks[i].wait \in BOOLEAN
<1>1. locks \in Seq(LockStruct) BY DEF IInv, Good
<1>2. \A i \in DOMAIN locks : locks[i] \in LockStruct BY <1>1
<1> QED BY <1>1, <1>2 DEF LockStruct

\* The places in a state of the invariant.
LEMMA PlaceFacts ==
    ASSUME IInv
    PROVE  /\ Place \in Places
           /\ \A p \in Pages : Place[SupremumOf(p)] = IF InTree(tree, p) THEN p ELSE NoPage
           /\ \A k \in Keys : Place[k] = IF Present(k) /\ ~ (Stored(request) /\ k = request.key)
                                         THEN PageOf(k) ELSE NoPage
           /\ \A p \in Pages : Place[InfimumOf(p)] = IF Stored(request) /\ p = request.page
                                                     THEN p ELSE NoPage
<1>1. tree \in Trees /\ request \in Request \cup {NoReq} BY DEF IInv, Types
<1>2. Place = PlaceOf(tree, rows, request) BY DEF Place
<1>3. \A k \in Keys : PageOf(k) = PageIn(tree, k) BY HeapFacts DEF PageOf, PageIn
<1> QED BY <1>1, <1>2, <1>3, PlaceIs DEF Present

\* The page of a key or supremum is a leaf.
LEMMA PageFacts ==
    ASSUME IInv
    PROVE  /\ \A k \in Keys : PageOf(k) = PageIn(tree, k) /\ PageOf(k) \in Pages
                              /\ InTree(tree, PageOf(k))
           /\ \A h \in Suprema : PageOf(h) = h - SupremumOf(0) /\ PageOf(h) \in Pages
           /\ \A p \in Pages : PageOf(SupremumOf(p)) = p
           /\ \A h : OnThePage(h) <=> InTree(tree, PageOf(h)) /\ (h \in Keys => Present(h))
<1>1. tree \in Trees BY DEF IInv, Types
<1>2. \A k \in Keys : PageOf(k) = PageIn(tree, k) BY HeapFacts DEF PageOf, PageIn
<1>3. \A h \in Suprema : PageOf(h) = h - SupremumOf(0) BY DEF PageOf
<1>4. \A h : OnThePage(h) <=> InTree(tree, PageOf(h)) /\ (h \in Keys => Present(h))
  BY DEF OnThePage, InTree
<1>5. \A k \in Keys : PageOf(k) \in Pages /\ InTree(tree, PageOf(k)) BY <1>1, <1>2, TreeFacts
<1>6. /\ \A h \in Suprema : PageOf(h) \in Pages
      /\ \A p \in Pages : PageOf(SupremumOf(p)) = p
  BY <1>3, HeapFacts
<1> QED BY <1>2, <1>3, <1>4, <1>5, <1>6

\* A record that a request may be for is where its bits are.
LEMMA OnThePageIs ==
    ASSUME IInv, ~ Stored(request), NEW h \in Keys \cup Suprema, OnThePage(h)
    PROVE  h \in Heap /\ PageOf(h) \in Pages /\ Place[h] = PageOf(h)
<1>1. CASE h \in Keys BY <1>1, PlaceFacts, PageFacts, HeapFacts
<1>2. CASE h \in Suprema
 <2>1. PageOf(h) \in Pages /\ h = SupremumOf(PageOf(h)) /\ InTree(tree, PageOf(h))
   BY <1>2, PageFacts, HeapFacts
 <2> QED BY <1>2, <2>1, PlaceFacts, HeapFacts
<1> QED BY <1>1, <1>2

\* A set of keys has a least one.
LEMMA LeastIs ==
    ASSUME NEW S \in SUBSET Keys, S # {}
    PROVE  Least(S) \in S
<1>1. S \in SUBSET Nat BY HeapFacts DEF Keys
<1>2. \E x \in S : \A y \in S : x <= y BY <1>1, LeastExists
<1> QED BY <1>2 DEF Least

\* What follows a record is on the same page: another record, or the supremum.
LEMMA NextIs ==
    ASSUME IInv, NEW k \in Keys, NEW n, n = NextOnPage(k)
    PROVE  /\ n \in Keys \cup Suprema /\ n \in Heap /\ n # k /\ OnThePage(n)
           /\ PageOf(n) = PageOf(k)
           /\ n \in Suprema => n = SupremumOf(PageOf(k))
<1>1. PageOf(k) \in Pages /\ InTree(tree, PageOf(k)) BY PageFacts
<1> DEFINE S == {x \in RecordsOf(PageOf(k)) : x > k}
<1>2. S \subseteq Keys /\ \A x \in S : Present(x) /\ PageOf(x) = PageOf(k) /\ x # k
  BY MaxKeyAssumption DEF RecordsOf, Keys
<1>3. n = LeastOr(S, SupremumOf(PageOf(k))) BY DEF NextOnPage
<1> HIDE DEF S
<1>4. CASE S = {}
 <2>1. n = SupremumOf(PageOf(k)) BY <1>3, <1>4 DEF LeastOr
 <2>2. n \in Suprema /\ PageOf(n) = PageOf(k) BY <1>1, <2>1, HeapFacts, PageFacts
 <2> QED BY <1>1, <2>1, <2>2, HeapFacts, PageFacts
<1>5. CASE S # {}
 <2>1. n \in S BY <1>2, <1>3, <1>5, LeastIs DEF LeastOr
 <2>2. n \in Keys /\ n \notin Suprema /\ n \in Heap BY <1>2, <2>1, HeapFacts
 <2> QED BY <1>1, <1>2, <2>1, <2>2, PageFacts
<1> QED BY <1>4, <1>5

\* Who does not make the deadlock check and has a request waiting is in a lock wait.
LEMMA WhoWaits ==
    ASSUME IInv, NEW t, HasWaitLock(locks, t)
    PROVE  /\ t \in Trxs /\ conc_state[t] = "ACTIVE" /\ t \in plan.trxs
           /\ kernel # t => que_state[t] = "LOCK_WAIT" /\ thr[t] # "RUNNING"
<1>1. PICK i \in DOMAIN locks : locks[i].trx = t /\ locks[i].wait BY DEF HasWaitLock
<1>2. t \in Trxs BY <1>1, LocksAre
<1> QED BY <1>1, <1>2 DEF IInv, WaitsAreRight

\* trx->wait_lock is the request that waits; in a deadlock check it is the last of all.
LEMMA WaitLockIs ==
    ASSUME IInv, NEW t, HasWaitLock(locks, t)
    PROVE  /\ WaitLock(t) \in DOMAIN locks /\ locks[WaitLock(t)].trx = t /\ locks[WaitLock(t)].wait
           /\ kernel = t => WaitLock(t) = Len(locks)
<1>1. PICK i \in DOMAIN locks : locks[i].trx = t /\ locks[i].wait BY DEF HasWaitLock
<1>2. WaitLock(t) \in DOMAIN locks /\ locks[WaitLock(t)].trx = t /\ locks[WaitLock(t)].wait
  BY <1>1 DEF WaitLock
<1> QED BY <1>2 DEF IInv, WaitsAreRight

\* lock_rec_convert_impl_to_expl: nobody else has a lock that has been granted.
LEMMA ConvertKeeps ==
    ASSUME IInv, request = NoReq, NEW h \in Keys, Present(h)
    PROVE  \E u : /\ u = ConvertImplToExpl(locks, h)
                  /\ Good(u, Place)
                  /\ \A x : /\ HasLock(u, x) => HasLock(locks, x) \/ Active(x)
                            /\ HasWaitLock(u, x) <=> HasWaitLock(locks, x)
                  /\ \A x, g : Owns(locks, x, g) /\ (g # h \/ x = rows[h].by) => Owns(u, x, g)
                  /\ Active(rows[h].by) => GrantedX(u, rows[h].by, h)
                  /\ FewerWaits(locks, u)
<1>1. PICK u : u = ConvertImplToExpl(locks, h) OBVIOUS
<1>2. Good(locks, Place) BY DEF IInv
<1>3. h \in Heap /\ h \notin Suprema /\ Place[h] = PageOf(h) /\ PageOf(h) \in Pages
 <2>1. ~ Stored(request) BY DEF Stored
 <2> QED BY <2>1, HeapFacts, PlaceFacts, PageFacts
<1>4. CASE ~ Active(rows[h].by)
 <2>1. u = locks BY <1>1, <1>4 DEF ConvertImplToExpl, SomeHasImpl
 <2> QED BY <1>1, <1>2, <1>4, <2>1 DEF FewerWaits
<1>5. CASE Active(rows[h].by)
 <2>1. PICK t : t = rows[h].by OBVIOUS
 <2>2. t \in Trxs /\ t # NoTrx /\ SomeHasImpl(h) = t /\ Active(t)
   BY <1>5, <2>1, NamesAssumption DEF Active, SomeHasImpl
 <2>3. Owns(locks, t, h) BY <1>5, <2>1 DEF IInv, RowsAreRight
 <2>4. CASE RecHasExpl(locks, t, "X", "REC_NOT_GAP", h)
  <3>1. u = locks BY <1>1, <2>2, <2>4 DEF ConvertImplToExpl
  <3>2. GrantedX(locks, t, h) BY <1>3, <2>4, GrantedXIsThere
  <3> QED BY <1>1, <1>2, <2>1, <3>1, <3>2 DEF FewerWaits
 <2>5. CASE ~ RecHasExpl(locks, t, "X", "REC_NOT_GAP", h)
  <3>1. PICK s : s = locks OBVIOUS
  <3>2. PICK p : p = PageOf(h) OBVIOUS
  <3>3. u = RecAddToQueue(s, t, "X", "REC_NOT_GAP", p, h)
    BY <1>1, <2>2, <2>5, <3>1, <3>2 DEF ConvertImplToExpl
  <3>4. s \in Seq(LockStruct) /\ "X" \in Modes /\ "REC_NOT_GAP" \in Gaps /\ p \in Pages
    BY <1>2, <1>3, <3>1, <3>2 DEF Good, Modes, Gaps
  <3>5. PICK l \in LockStruct :
           /\ l.bits = {h} /\ l.type = "REC" /\ l.page = p /\ l.trx = t
           /\ l.mode = "X" /\ l.gap = GapOn(h, "REC_NOT_GAP") /\ ~ l.ii /\ ~ l.wait
           /\ Entered(s, RecAddToQueue(s, t, "X", "REC_NOT_GAP", p, h), l, h)
    BY Zenon, <1>3, <2>2, <3>4, RecAddToQueueEnters
  <3>6. Entered(s, u, l, h) BY <3>3, <3>5
  <3>7. \A x \in DOMAIN s : ~ Clash(s[x], l)
   <4> SUFFICES ASSUME NEW x \in DOMAIN s, Clash(s[x], l) PROVE FALSE OBVIOUS
   <4>1. PICK f \in Heap : Holds(s[x], f) /\ Holds(l, f) BY <3>5 DEF Clash
   <4>2. f = h /\ s[x].trx # t BY <3>5, <4>1 DEF Holds, On, Clash
   <4>3. GrantedX(locks, t, h) BY <2>3, <3>1, <4>1, <4>2 DEF Owns
   <4> QED BY <2>5, <4>3, ExplIsThere
  <3>8. Holds(l, h) /\ l.mode = "X" BY <1>3, <3>5 DEF Holds, On, GapOn
  <3>9. Good(s, Place) /\ l.page = Place[h] BY <1>2, <1>3, <3>1, <3>2, <3>5
  <3>10. /\ Good(u, Place)
         /\ \A x : /\ HasLock(u, x) => HasLock(s, x) \/ x = l.trx
                   /\ HasWaitLock(u, x) <=> HasWaitLock(s, x)
         /\ \A x, g : Owns(s, x, g) /\ (x = l.trx \/ g # h \/ GrantedX(s, x, g)) => Owns(u, x, g)
         /\ Holds(l, h) /\ l.mode = "X" => GrantedX(u, l.trx, h)
         /\ FewerWaits(s, u)
   <4>1. Good(u, Place) BY <1>3, <3>5, <3>6, <3>7, <3>9, EnteredKeeps
   <4>2. \A x : /\ HasLock(u, x) => HasLock(s, x) \/ x = l.trx
                /\ HasWaitLock(u, x) <=> HasWaitLock(s, x)
     BY <1>3, <3>5, <3>6, <3>7, <3>9, EnteredKeeps
   <4>3. \A x, g : Owns(s, x, g) /\ (x = l.trx \/ g # h \/ GrantedX(s, x, g)) => Owns(u, x, g)
     BY <1>3, <3>5, <3>6, <3>7, <3>9, EnteredKeeps
   <4>4. Holds(l, h) /\ l.mode = "X" => GrantedX(u, l.trx, h)
     BY <1>3, <3>5, <3>6, <3>7, <3>9, EnteredKeeps
   <4>5. FewerWaits(s, u) BY <1>3, <3>5, <3>6, <3>7, <3>9, EnteredKeeps
   <4> QED BY <4>1, <4>2, <4>3, <4>4, <4>5
  <3> QED BY <1>1, <2>1, <2>2, <3>1, <3>5, <3>8, <3>10
 <2> QED BY <2>4, <2>5
<1> QED BY <1>4, <1>5

-----------------------------------------------------------------------------
(* Parts of the invariant that a step leaves as they are *)

\* What does not change the pages leaves all bits at their places.
LEMMA PlaceStays ==
    ASSUME UNCHANGED <<tree, rows, request>>
    PROVE  Place' = Place
  BY DEF Place

\* The undo logs while no row changes.
LEMMA UndoStays ==
    ASSUME IInv, UNCHANGED rows,
           \A t \in Trxs : conc_state'[t] = "ACTIVE" => conc_state[t] = "ACTIVE",
           \A t \in Trxs : undo'[t] = <<>> \/ (undo'[t] = undo[t] /\ conc_state'[t] = conc_state[t])
    PROVE  UndoIsRight'
<1> SUFFICES ASSUME NEW t \in Trxs, undo'[t] # <<>>
             PROVE  /\ conc_state'[t] = "ACTIVE"
                    /\ \A n \in DOMAIN undo'[t] :
                          LET u == undo'[t][n]
                          IN  /\ rows'[u.key] # NoRow /\ rows'[u.key].by = t
                              /\ u.old # NoRow /\ u.old.by \in Trxs /\ conc_state'[u.old.by] = "ACTIVE"
                                 => u.old.by = t
                              /\ \A m \in DOMAIN undo'[t] : m > n /\ undo'[t][m].key = u.key =>
                                    undo'[t][m].old # NoRow /\ undo'[t][m].old.by = t
  BY DEF UndoIsRight, Present, Active
<1>1. undo'[t] = undo[t] /\ conc_state'[t] = conc_state[t] /\ rows' = rows OBVIOUS
<1> QED BY <1>1 DEF IInv, UndoIsRight, Present, Active

\* The cursors while no row changes.
LEMMA CursorStays ==
    ASSUME IInv, UNCHANGED rows,
           \A t \in Trxs : conc_state'[t] = "ACTIVE" => conc_state[t] = "ACTIVE",
           \A t \in Trxs : cursor'[t].new => cursor[t].new /\ cursor'[t].key = cursor[t].key
    PROVE  CursorIsRight'
<1> SUFFICES ASSUME NEW t \in Trxs, conc_state'[t] = "ACTIVE" /\ cursor'[t].new
             PROVE  /\ cursor'[t].key \in Keys
                    /\ rows'[cursor'[t].key] # NoRow => rows'[cursor'[t].key].by # t
  BY DEF CursorIsRight, Present
<1>1. cursor[t].new /\ cursor'[t].key = cursor[t].key /\ conc_state[t] = "ACTIVE" /\ rows' = rows
  OBVIOUS
<1> QED BY <1>1 DEF IInv, CursorIsRight, Present

\* The implicit locks while no row changes.
LEMMA OwnersStay ==
    ASSUME IInv, UNCHANGED rows,
           \A t \in Trxs : conc_state'[t] = "ACTIVE" => conc_state[t] = "ACTIVE",
           \A k \in Keys : Present(k) /\ Active(rows[k].by) /\ Owns(locks, rows[k].by, k)
                           => Owns(locks', rows[k].by, k)
    PROVE  RowsAreRight'
<1> SUFFICES ASSUME NEW k \in Keys, rows'[k] # NoRow, rows'[k].by \in Trxs, conc_state'[rows'[k].by] = "ACTIVE"
             PROVE  Owns(locks', rows'[k].by, k)
  BY DEF RowsAreRight, Present, Active
<1>1. rows' = rows /\ Present(k) /\ Active(rows[k].by) BY DEF Active, Present
<1>2. Owns(locks, rows[k].by, k) BY <1>1 DEF IInv, RowsAreRight
<1> QED BY <1>1, <1>2

\* The row operation that holds the page latch finds what it needs.
LEMMA RequestStays ==
    ASSUME IInv, UNCHANGED <<request, tree, rows>>,
           \A x \in Trxs : conc_state'[x] = "ACTIVE" => conc_state[x] = "ACTIVE",
           request # NoReq /\ request.op # "COMPRESS" =>
              /\ Active(request.trx) => conc_state'[request.trx] = "ACTIVE"
              /\ cursor'[request.trx].new => cursor[request.trx].new
              /\ kernel' = request.trx <=> kernel = request.trx,
           \A x : Active(x) => \A g \in Heap : Owns(locks, x, g) => Owns(locks', x, g),
           \A x, g : HasX(locks, x, g) /\ request # NoReq /\ x = request.trx /\ kernel = x
                     => HasX(locks', x, g)
    PROVE  RequestIsRight'
<1> SUFFICES ASSUME request # NoReq PROVE RequestIsRight' BY DEF RequestIsRight
<1>1. PICK t : t = request.trx OBVIOUS
<1>2. PICK k : k = request.key OBVIOUS
<1>3. request \in Request /\ k \in Heap /\ InfimumOf(request.page) \in Heap
  BY <1>2, HeapFacts DEF IInv, Types, Request
<1>4. /\ request.op = "READ" => kernel = t
      /\ request.op # "COMPRESS" => Active(t)
      /\ request.op = "INSERT" => k \in Keys /\ ~ Present(k)
      /\ request.op = "COMPRESS" =>
            k \in Keys /\ PageOf(k) # Root /\ RecordsOf(PageOf(k)) # {}
      /\ request.op \in {"INSERT", "MODIFY"} => ~ cursor[t].new
      /\ request.op = "MODIFY" =>
            /\ k \in Keys /\ Present(k)
            /\ request.step # "CHECKED" => kernel # t
            /\ request.step # "SPLIT" => request.page = PageOf(k)
            /\ kernel # t /\ Active(rows[k].by) => rows[k].by = t
            /\ request.step # "CHECKED" => Owns(locks, t, InfimumOf(request.page))
            /\ request.step = "CHECKED" /\ kernel = t => HasX(locks, t, k)
            /\ request.step = "CHECKED" /\ kernel # t => Owns(locks, t, k)
  BY <1>1, <1>2 DEF IInv, RequestIsRight
<1>5. /\ rows' = rows /\ request' = request
      /\ request.op # "COMPRESS" => (kernel' = t <=> kernel = t)
      /\ request.op # "COMPRESS" => Active(t)'
      /\ Present(k)' <=> Present(k)
      /\ RecordsOf(PageOf(k))' = RecordsOf(PageOf(k)) /\ PageOf(k)' = PageOf(k)
      /\ Active(rows[k].by)' => Active(rows[k].by)
  BY <1>1, <1>4 DEF Active, Present, RecordsOf, PageOf
<1>6. request.op \in {"INSERT", "MODIFY"} => ~ cursor'[t].new BY <1>1, <1>4
<1>7. request.op = "MODIFY" => Active(t) BY <1>4
<1>8. /\ request.op = "MODIFY" /\ request.step # "CHECKED" => Owns(locks', t, InfimumOf(request.page))
      /\ request.op = "MODIFY" /\ request.step = "CHECKED" /\ kernel # t => Owns(locks', t, k)
  BY <1>3, <1>4, <1>7
<1>9. request.op = "MODIFY" /\ request.step = "CHECKED" /\ kernel = t => HasX(locks', t, k)
  BY <1>1, <1>4
<1> QED BY <1>1, <1>2, <1>4, <1>5, <1>6, <1>8, <1>9 DEF RequestIsRight

\* A lock that waits makes its transaction wait.
LEMMA NewLocksAre ==
    ASSUME locks' \in Seq(LockStruct)
    PROVE  \A i \in DOMAIN locks' : /\ locks'[i].trx \in Trxs /\ HasLock(locks', locks'[i].trx)
                                    /\ locks'[i].wait => HasWaitLock(locks', locks'[i].trx)
<1> SUFFICES ASSUME NEW i \in DOMAIN locks'
             PROVE  /\ locks'[i].trx \in Trxs /\ HasLock(locks', locks'[i].trx)
                    /\ locks'[i].wait => HasWaitLock(locks', locks'[i].trx)
  OBVIOUS
<1>1. locks'[i] \in LockStruct OBVIOUS
<1> QED BY <1>1 DEF LockStruct, HasLock, HasWaitLock

\* A circle goes through a new request, or through one that was not looked at before.
LEMMA NoLoopKeeps ==
    ASSUME NEW s, NEW k, NoLoop(s, k), NEW u, NEW j, OnlyWaits(s, u, j),
           k \notin Trxs \/ k = j \/ ~ HasWaitLock(u, k)
    PROVE  NoLoop(u, j)
<1> SUFFICES ASSUME NEW C \in SUBSET Trxs, C # {}, j \notin C
             PROVE  \E x \in C : \A y \in C : ~ WaitsOn(u, x, y)
  BY DEF NoLoop
<1>1. CASE k \in C /\ ~ HasWaitLock(u, k) BY <1>1 DEF WaitsOn, HasWaitLock
<1>2. CASE k \notin C
 <2>1. PICK x \in C : \A y \in C : ~ WaitsOn(s, x, y) BY <1>2 DEF NoLoop
 <2> QED BY <2>1 DEF OnlyWaits
<1> QED BY <1>1, <1>2

\* The waits after trx_end_lock_wait for those who wait no longer.
LEMMA WaitsEnd ==
    ASSUME IInv, UNCHANGED <<plan, conc_state>>, locks' \in Seq(LockStruct),
           NobodyNew(locks, locks'), EndLockWaits(locks'),
           \A t \in Trxs : HasWaitLock(locks', t) => thr'[t] = thr[t],
           \A i \in DOMAIN locks' : locks'[i].wait =>
              /\ kernel' = locks'[i].trx => i = Len(locks')
              /\ kernel' # locks'[i].trx => kernel # locks'[i].trx,
           Active(kernel') => kernel' = kernel /\ thr'[kernel] = thr[kernel]
    PROVE  WaitsAreRight'
<1>1. \A i \in DOMAIN locks' : /\ locks'[i].trx \in Trxs /\ HasLock(locks', locks'[i].trx)
                               /\ locks'[i].wait => HasWaitLock(locks', locks'[i].trx)
  BY NewLocksAre
<1>2. \A t \in Trxs : que_state'[t] = IF HasWaitLock(locks', t) THEN que_state[t] ELSE "RUNNING"
  BY DEF EndLockWaits
<1>3. ASSUME NEW i \in DOMAIN locks', locks'[i].wait
      PROVE  /\ conc_state'[locks'[i].trx] = "ACTIVE"
             /\ kernel' = locks'[i].trx => i = Len(locks')
             /\ kernel' # locks'[i].trx => que_state'[locks'[i].trx] = "LOCK_WAIT"
 <2>1. PICK t : t = locks'[i].trx OBVIOUS
 <2>2. t \in Trxs /\ HasWaitLock(locks', t) /\ HasWaitLock(locks, t)
   BY <1>1, <1>3, <2>1 DEF NobodyNew
 <2>3. conc_state[t] = "ACTIVE" /\ (kernel # t => que_state[t] = "LOCK_WAIT") BY <2>2, WhoWaits
 <2> QED BY <1>2, <1>3, <2>1, <2>2, <2>3
<1>4. ASSUME NEW t \in Trxs, que_state'[t] = "LOCK_WAIT"
      PROVE  thr'[t] # "RUNNING" /\ HasWaitLock(locks', t)
 <2>1. HasWaitLock(locks', t) /\ que_state[t] = "LOCK_WAIT" BY <1>2, <1>4
 <2>2. thr[t] # "RUNNING" BY <2>1 DEF IInv, WaitsAreRight
 <2> QED BY <2>1, <2>2
<1>5. ASSUME NEW i \in DOMAIN locks'
      PROVE  conc_state'[locks'[i].trx] # "NOT_STARTED"
 <2>1. HasLock(locks, locks'[i].trx) BY <1>1 DEF NobodyNew
 <2> QED BY <2>1 DEF IInv, WaitsAreRight, HasLock
<1>6. \A t \in Trxs : conc_state'[t] = "ACTIVE" => t \in plan'.trxs BY DEF IInv, WaitsAreRight
<1>7. Active(kernel)' => thr'[kernel'] = "RUNNING" BY DEF IInv, WaitsAreRight, Active
<1>8. NoLoop(locks', kernel')
 <2>1. NoLoop(locks, kernel) BY DEF IInv, WaitsAreRight
 <2>2. OnlyWaits(locks, locks', kernel') BY DEF NobodyNew, FewerWaits, OnlyWaits
 <2>3. kernel = kernel' \/ ~ HasWaitLock(locks', kernel) BY DEF HasWaitLock
 <2> QED BY <2>1, <2>2, <2>3, NoLoopKeeps
<1> QED BY <1>3, <1>4, <1>5, <1>6, <1>7, <1>8 DEF WaitsAreRight, HasWaitLock

\* Nobody waits for more when the locks stay as they are, and who is not in the way of
\* kernel_mutex any more does not wait.
LEMMA NoLoopStays ==
    ASSUME IInv, UNCHANGED locks, kernel = NoTrx \/ ~ HasWaitLock(locks, kernel)
    PROVE  NoLoop(locks', kernel')
<1>1. NoLoop(locks, kernel) BY DEF IInv, WaitsAreRight
<1>2. OnlyWaits(locks, locks', kernel') BY DEF OnlyWaits
<1> QED BY <1>1, <1>2, NamesAssumption, NoLoopKeeps

\* lock_deadlock_recursive finds each circle that the request of t closes.
LEMMA NoLoopFound ==
    ASSUME IInv, NEW t \in Trxs, kernel = t, \A w \in Trxs : ~ InCycle(t, w)
    PROVE  NoLoop(locks, NoTrx)
<1> SUFFICES ASSUME NEW C \in SUBSET Trxs, C # {}, \A x \in C : \E y \in C : WaitsOn(locks, x, y)
             PROVE  FALSE
  BY DEF NoLoop
<1>1. \A x, y : WaitsFor(x, y) <=> WaitsOn(locks, x, y) BY DEF WaitsFor, WaitsOn
<1>2. NoLoop(locks, t) BY DEF IInv, WaitsAreRight
<1>3. t \in C BY <1>2 DEF NoLoop
<1>4. ASSUME NEW x \in C
      PROVE  Expanded(t, x)
 <2>1. HasWaitLock(locks, x) BY DEF WaitsOn, HasWaitLock
 <2> QED BY <2>1, WhoWaits DEF Expanded
<1>5. ASSUME NEW x \in C, NEW y \in C, SearchReaches(t, x), WaitsOn(locks, x, y)
      PROVE  SearchReaches(t, y)
  BY <1>1, <1>4, <1>5 DEF SearchReaches
<1>6. PICK S : S = {x \in C : x # t /\ SearchReaches(t, x)} OBVIOUS
<1>7. PICK y \in C : WaitsOn(locks, t, y) BY <1>3
<1>8. y \in S
 <2>1. SearchReaches(t, t) BY DEF SearchReaches
 <2>2. y # t BY <1>7 DEF WaitsOn, Blocks, LockHasToWait
 <2> QED BY <1>3, <1>5, <1>6, <1>7, <2>1, <2>2
<1>9. PICK x \in S : \A z \in S : ~ WaitsOn(locks, x, z)
 <2>1. S \in SUBSET Trxs /\ S # {} /\ t \notin S BY <1>6, <1>8
 <2> QED BY <1>2, <2>1 DEF NoLoop
<1>10. PICK z \in C : WaitsOn(locks, x, z) BY <1>6, <1>9
<1>11. z = t BY <1>5, <1>6, <1>9, <1>10
<1> QED BY <1>1, <1>6, <1>9, <1>10, <1>11 DEF InCycle

\* Where everybody goes on waiting, and perhaps one more, which makes the deadlock check.
LEMMA WaitsGoOn ==
    ASSUME IInv, UNCHANGED <<plan, conc_state, que_state, thr>>, kernel = NoTrx,
           locks' \in Seq(LockStruct), AllStillWait(locks, locks'),
           \A t : HasWaitLock(locks', t) => HasWaitLock(locks, t) \/ t = kernel',
           \A t : HasLock(locks', t) => HasLock(locks, t) \/ Active(t),
           OnlyWaits(locks, locks', kernel'),
           kernel' # NoTrx =>
              /\ Active(kernel') /\ thr[kernel'] = "RUNNING"
              /\ \A i \in DOMAIN locks' : locks'[i].wait /\ locks'[i].trx = kernel' => i = Len(locks')
    PROVE  WaitsAreRight'
<1>1. \A i \in DOMAIN locks' : /\ locks'[i].trx \in Trxs /\ HasLock(locks', locks'[i].trx)
                               /\ locks'[i].wait => HasWaitLock(locks', locks'[i].trx)
  BY NewLocksAre
<1>3. ASSUME NEW i \in DOMAIN locks', locks'[i].wait
      PROVE  /\ conc_state'[locks'[i].trx] = "ACTIVE"
             /\ kernel' = locks'[i].trx => i = Len(locks')
             /\ kernel' # locks'[i].trx => que_state'[locks'[i].trx] = "LOCK_WAIT"
 <2>1. PICK t : t = locks'[i].trx OBVIOUS
 <2>2. t \in Trxs /\ HasWaitLock(locks', t) /\ t # NoTrx BY <1>1, <1>3, <2>1, NamesAssumption
 <2>3. CASE kernel' = t
  <3>1. Active(t) BY <2>2, <2>3
  <3> QED BY <1>3, <2>1, <2>2, <2>3, <3>1 DEF Active
 <2>4. CASE kernel' # t
  <3>1. HasWaitLock(locks, t) /\ kernel # t BY <2>2, <2>4
  <3>2. conc_state[t] = "ACTIVE" /\ que_state[t] = "LOCK_WAIT" BY <3>1, WhoWaits
  <3> QED BY <2>1, <2>4, <3>2
 <2> QED BY <2>3, <2>4
<1>4. ASSUME NEW t \in Trxs, que_state'[t] = "LOCK_WAIT"
      PROVE  thr'[t] # "RUNNING" /\ HasWaitLock(locks', t)
 <2>1. HasWaitLock(locks, t) /\ thr[t] # "RUNNING" BY <1>4 DEF IInv, WaitsAreRight
 <2> QED BY <2>1 DEF AllStillWait
<1>5. ASSUME NEW i \in DOMAIN locks'
      PROVE  conc_state'[locks'[i].trx] # "NOT_STARTED"
 <2>1. HasLock(locks, locks'[i].trx) \/ Active(locks'[i].trx) BY <1>1
 <2>2. HasLock(locks, locks'[i].trx) => conc_state[locks'[i].trx] # "NOT_STARTED"
   BY DEF IInv, WaitsAreRight, HasLock
 <2> QED BY <2>1, <2>2 DEF Active
<1>6. \A t \in Trxs : conc_state'[t] = "ACTIVE" => t \in plan'.trxs BY DEF IInv, WaitsAreRight
<1>7. Active(kernel)' => thr'[kernel'] = "RUNNING" BY NamesAssumption DEF Active
<1>8. NoLoop(locks', kernel') BY NamesAssumption, NoLoopKeeps DEF IInv, WaitsAreRight
<1> QED BY <1>3, <1>4, <1>5, <1>6, <1>7, <1>8 DEF WaitsAreRight, HasWaitLock

-----------------------------------------------------------------------------
(* The deadlock check and the lock waits *)

\* The cursor that has read nothing.
LEMMA NoCursorType ==
    NoCursor \in Cursor /\ ~ NoCursor.new
<1>1. 0 \in 0 .. (MaxKey + 3) BY MaxKeyAssumption
<1> QED BY <1>1 DEF NoCursor, Cursor

\* A step that leaves the index and the locks alone.
LEMMA NothingMoves ==
    ASSUME IInv, UNCHANGED <<locks, tree, rows>>, request' = request \/ (request' = NoReq /\ ~ Stored(request))
    PROVE  Good(locks', Place')
<1>1. Place' = Place BY DEF Place, PlaceOf, Stored
<1> QED BY <1>1 DEF IInv

\* Nobody loses a lock while the lock table stays as it is.
LEMMA LocksStay ==
    ASSUME UNCHANGED locks
    PROVE  /\ \A x, g : Owns(locks, x, g) => Owns(locks', x, g)
           /\ \A x, g : HasX(locks, x, g) => HasX(locks', x, g)
  OBVIOUS

\* Time passes.
LEMMA ExpireKeeps ==
    ASSUME IInv, NEW t \in Trxs, Expire(t), UNCHANGED plan
    PROVE  IInv'
<1> USE DEF Expire, waitVars, rowVars, holdVars
<1>1. Types' BY DEF IInv, Types, Cursor
<1>2. Good(locks', Place') BY NothingMoves
<1>3. WaitsAreRight' BY DEF IInv, WaitsAreRight, HasWaitLock, Active
<1>4. RequestIsRight' BY DEF IInv, RequestIsRight, Active, Present, RecordsOf, PageOf
<1>5. RowsAreRight' BY DEF IInv, RowsAreRight, Active, Present
<1>6. UndoIsRight' BY DEF IInv, UndoIsRight, Active, Present
<1>7. CursorIsRight' BY DEF IInv, CursorIsRight, Active, Present
<1> QED BY <1>1, <1>2, <1>3, <1>4, <1>5, <1>6, <1>7 DEF IInv

\* srv_suspend_mysql_thread: the thread may have been granted its lock before it sleeps.
LEMMA SrvSuspendKeeps ==
    ASSUME IInv, NEW t \in Trxs, SrvSuspend(t), UNCHANGED plan
    PROVE  IInv'
<1> USE DEF SrvSuspend, waitVars, rowVars, holdVars
<1>1. Types' BY ZenonT(60) DEF IInv, Types, Cursor
<1>2. Good(locks', Place') BY NothingMoves
<1>3. WaitsAreRight' BY NamesAssumption DEF IInv, Types, WaitsAreRight, HasWaitLock, Active
<1>4. RequestIsRight' BY Zenon DEF IInv, RequestIsRight, Active, Present, RecordsOf, PageOf
<1>5. RowsAreRight' BY DEF IInv, RowsAreRight, Active, Present
<1>6. UndoIsRight' BY DEF IInv, UndoIsRight, Active, Present
<1>7. CursorIsRight' BY DEF IInv, CursorIsRight, Active, Present
<1> QED BY <1>1, <1>2, <1>3, <1>4, <1>5, <1>6, <1>7 DEF IInv

\* The thread wakes up, its request granted or cancelled.
LEMMA ResumeKeeps ==
    ASSUME IInv, NEW t \in Trxs, Resume(t), UNCHANGED plan
    PROVE  IInv'
<1> USE DEF Resume, waitVars, rowVars, holdVars
<1>0. cursor' = cursor \/ cursor' = [cursor EXCEPT ![t] = NoCursor] OBVIOUS
<1>1. Types'
 <2>1. cursor' \in [Trxs -> Cursor]' BY <1>0, NoCursorType DEF IInv, Types, Cursor
 <2> QED BY <2>1 DEF IInv, Types
<1>2. Good(locks', Place') BY NothingMoves
<1>3. WaitsAreRight' BY NamesAssumption DEF IInv, Types, WaitsAreRight, HasWaitLock, Active
<1>8. \A x \in Trxs : cursor'[x].new => cursor[x].new /\ cursor'[x].key = cursor[x].key
  BY <1>0, NoCursorType DEF IInv, Types
<1>4. RequestIsRight'
 <2>1. Active(request.trx) => request.trx \in Trxs BY DEF Active
 <2>2. request # NoReq /\ request.op # "COMPRESS" => request.trx \in Trxs
   BY <2>1 DEF IInv, RequestIsRight
 <2> QED BY <1>8, <2>2, RequestStays DEF Active
<1>5. RowsAreRight' BY DEF IInv, RowsAreRight, Active, Present
<1>6. UndoIsRight' BY DEF IInv, UndoIsRight, Active, Present
<1>7. CursorIsRight' BY <1>8, CursorStays
<1> QED BY <1>1, <1>2, <1>3, <1>4, <1>5, <1>6, <1>7 DEF IInv

\* Somebody's request is taken back, and those it was in the way of are granted.
LEMMA CancelKeeps ==
    ASSUME IInv, NEW t, HasWaitLock(locks, t), NEW u, u = Dequeue(locks, WaitLock(t))
    PROVE  /\ Good(u, Place) /\ u \in Seq(LockStruct) /\ NobodyNew(locks, u)
           /\ \A x, g : Owns(locks, x, g) => Owns(u, x, g)
           /\ \A x, g : HasX(locks, x, g) /\ x # t => HasX(u, x, g)
           /\ ~ HasWaitLock(u, t)
           /\ \A i \in DOMAIN u : u[i].wait /\ kernel = u[i].trx => i = Len(u)
<1>1. PICK i : i = WaitLock(t) OBVIOUS
<1>2. i \in DOMAIN locks /\ locks[i].trx = t /\ locks[i].wait BY <1>1, WaitLockIs
<1>3. Good(locks, Place) BY DEF IInv
<1>4. u = Dequeue(locks, i) BY <1>1
<1>5. Good(u, Place) /\ NobodyNew(locks, u) BY <1>2, <1>3, <1>4, DequeueKeeps
<1>6. \A x, g : /\ Owns(locks, x, g)
                /\ locks[i].wait \/ locks[i].trx # x \/ locks[i].mode # "X"
                => Owns(u, x, g)
  BY <1>2, <1>3, <1>4, DequeueKeeps
<1>7. \A x, g : HasX(locks, x, g) /\ locks[i].trx # x => HasX(u, x, g)
  BY <1>2, <1>3, <1>4, DequeueKeeps
<1>8. \A x \in DOMAIN u : u[x].wait =>
        \E z \in DOMAIN locks : /\ locks[z].wait /\ locks[z].trx = u[x].trx /\ z # i
                                /\ z = Len(locks) => x = Len(u)
  BY <1>2, <1>3, <1>4, DequeueKeeps
<1>9. ~ HasWaitLock(u, t)
 <2> SUFFICES ASSUME NEW x \in DOMAIN u, u[x].trx = t, u[x].wait PROVE FALSE BY DEF HasWaitLock
 <2>1. PICK z \in DOMAIN locks : locks[z].wait /\ locks[z].trx = t /\ z # i BY <1>8
 <2> QED BY <1>2, <1>3, <2>1 DEF Good, OneWait
<1>10. ASSUME NEW x \in DOMAIN u, u[x].wait, kernel = u[x].trx
       PROVE  x = Len(u)
 <2>1. PICK z \in DOMAIN locks : /\ locks[z].wait /\ locks[z].trx = u[x].trx
                                 /\ z = Len(locks) => x = Len(u)
   BY <1>8, <1>10
 <2>2. z = Len(locks) BY <1>10, <2>1 DEF IInv, WaitsAreRight
 <2> QED BY <2>1, <2>2
<1> QED BY <1>2, <1>5, <1>6, <1>7, <1>9, <1>10 DEF Good

\* srv_lock_timeout_thread cancels a request that still waits.
LEMMA TimeoutCancelsKeeps ==
    ASSUME IInv, NEW t \in Trxs, TimeoutCancels(t), UNCHANGED plan
    PROVE  IInv'
<1> USE DEF TimeoutCancels, CancelWaiting, waitVars, rowVars, holdVars
<1>1. /\ Good(locks', Place) /\ locks' \in Seq(LockStruct) /\ NobodyNew(locks, locks')
      /\ \A x, g : Owns(locks, x, g) => Owns(locks', x, g)
      /\ \A x, g : HasX(locks, x, g) /\ x # t => HasX(locks', x, g)
      /\ \A i \in DOMAIN locks' : locks'[i].wait /\ kernel = locks'[i].trx => i = Len(locks')
  BY CancelKeeps
<1>2. Types' BY DEF IInv, Types, Cursor, EndLockWaits
<1>3. Good(locks', Place') BY <1>1, PlaceStays
<1>4. WaitsAreRight' BY <1>1, WaitsEnd
<1>5. RequestIsRight' BY <1>1, NamesAssumption, RequestStays DEF Active
<1>6. RowsAreRight' BY <1>1, OwnersStay
<1>7. UndoIsRight' BY UndoStays
<1>8. CursorIsRight' BY CursorStays
<1> QED BY <1>2, <1>3, <1>4, <1>5, <1>6, <1>7, <1>8 DEF IInv

\* The cursors after a lock wait.
LEMMA CursorWaits ==
    ASSUME IInv, NEW t \in Trxs,
           \/ cursor' = cursor
           \/ cursor' = [cursor EXCEPT ![t] = NoCursor]
           \/ cursor' = [cursor EXCEPT ![t].waited = FALSE]
    PROVE  /\ cursor' \in [Trxs -> Cursor]
           /\ \A x \in Trxs : cursor'[x].new => cursor[x].new /\ cursor'[x].key = cursor[x].key
<1>1. cursor \in [Trxs -> Cursor] BY DEF IInv, Types
<1>2. CASE cursor' = cursor \/ cursor' = [cursor EXCEPT ![t] = NoCursor] BY <1>1, <1>2, NoCursorType
<1>3. CASE cursor' = [cursor EXCEPT ![t].waited = FALSE]
 <2>1. PICK c : c = cursor[t] OBVIOUS
 <2>2. c \in Cursor BY <1>1, <2>1
 <2>3. PICK d : d = [c EXCEPT !.waited = FALSE] OBVIOUS
 <2>4. d \in Cursor /\ d.new = c.new /\ d.key = c.key BY <2>2, <2>3 DEF Cursor
 <2>5. cursor' = [cursor EXCEPT ![t] = d] BY <1>3, <2>1, <2>3
 <2>6. cursor' \in [Trxs -> Cursor] /\ \A x \in Trxs : cursor'[x] = IF x = t THEN d ELSE cursor[x]
   BY <1>1, <2>4, <2>5
 <2> QED BY <2>1, <2>4, <2>6
<1> QED BY <1>2, <1>3

\* A semi-consistent read takes its request back.
LEMMA SemiConsistentReadKeeps ==
    ASSUME IInv, NEW t \in Trxs, SemiConsistentRead(t), UNCHANGED plan
    PROVE  IInv'
<1> USE DEF SemiConsistentRead, waitVars, rowVars, holdVars
<1>1. /\ Good(locks', Place) /\ locks' \in Seq(LockStruct) /\ NobodyNew(locks, locks')
      /\ \A x, g : Owns(locks, x, g) => Owns(locks', x, g)
      /\ \A x, g : HasX(locks, x, g) /\ x # t => HasX(locks', x, g)
      /\ ~ HasWaitLock(locks', t)
      /\ \A i \in DOMAIN locks' : locks'[i].wait /\ kernel = locks'[i].trx => i = Len(locks')
      /\ EndLockWaits(locks')
 <2>1. CASE HasWaitLock(locks, t)
  <3>1. locks' = Dequeue(locks, WaitLock(t)) /\ EndLockWaits(locks') BY <2>1 DEF CancelWaiting
  <3> QED BY <2>1, <3>1, CancelKeeps
 <2>2. CASE ~ HasWaitLock(locks, t)
  <3>1. locks' = locks /\ que_state' = que_state BY <2>2
  <3>2. EndLockWaits(locks')
   <4>1. \A x \in Trxs : que_state[x] = IF HasWaitLock(locks, x) THEN que_state[x] ELSE "RUNNING"
     BY DEF IInv, Types, WaitsAreRight
   <4>2. que_state = [x \in Trxs |-> que_state[x]] BY DEF IInv, Types
   <4> QED BY <3>1, <4>1, <4>2 DEF EndLockWaits
  <3> QED BY <2>2, <3>1, <3>2 DEF IInv, NobodyNew, FewerWaits, Good, WaitsAreRight
 <2> QED BY <2>1, <2>2
<1>2. /\ cursor' \in [Trxs -> Cursor]
      /\ \A x \in Trxs : cursor'[x].new => cursor[x].new /\ cursor'[x].key = cursor[x].key
  BY CursorWaits
<1>3. Types'
 <2>1. cursor' \in [Trxs -> Cursor]' BY <1>2 DEF Cursor
 <2>2. que_state' \in [Trxs -> {"RUNNING", "LOCK_WAIT"}] BY <1>1 DEF IInv, Types, EndLockWaits
 <2> QED BY <2>1, <2>2 DEF IInv, Types
<1>4. Good(locks', Place') BY <1>1, PlaceStays
<1>5. WaitsAreRight'
 <2>1. \A x \in Trxs : HasWaitLock(locks', x) => thr'[x] = thr[x] BY <1>1 DEF IInv, Types
 <2>2. kernel' = NoTrx /\ ~ Active(kernel') BY NamesAssumption DEF Active
 <2> QED BY <1>1, <2>1, <2>2, WaitsEnd
<1>6. RequestIsRight'
 <2>1. request # NoReq /\ request.op # "COMPRESS" => request.trx \in Trxs
   BY DEF IInv, RequestIsRight, Active
 <2> QED BY <1>1, <1>2, <2>1, NamesAssumption, RequestStays DEF Active
<1>7. RowsAreRight' BY <1>1, OwnersStay
<1>8. UndoIsRight' BY UndoStays
<1>9. CursorIsRight' BY <1>2, CursorStays
<1> QED BY <1>3, <1>4, <1>5, <1>6, <1>7, <1>8, <1>9 DEF IInv

\* The victim is another one: its request is cancelled, which may grant that of t.
LEMMA VictimIsOtherKeeps ==
    ASSUME IInv, NEW t \in Trxs, NEW w \in Trxs, VictimIsOther(t, w), UNCHANGED plan
    PROVE  IInv'
<1> USE DEF VictimIsOther, CancelWaiting, Checks, waitVars, rowVars, holdVars
<1>1. w # t /\ HasWaitLock(locks, w) BY DEF InCycle, WaitsFor, HasWaitLock
<1>2. /\ Good(locks', Place) /\ locks' \in Seq(LockStruct) /\ NobodyNew(locks, locks')
      /\ \A x, g : Owns(locks, x, g) => Owns(locks', x, g)
      /\ \A x, g : HasX(locks, x, g) /\ x # w => HasX(locks', x, g)
      /\ \A i \in DOMAIN locks' : locks'[i].wait /\ kernel = locks'[i].trx => i = Len(locks')
  BY <1>1, CancelKeeps
<1>3. Types' BY DEF IInv, Types, Cursor, EndLockWaits
<1>4. Good(locks', Place') BY <1>2, PlaceStays
<1>5. WaitsAreRight' BY <1>2, WaitsEnd
<1>6. RequestIsRight' BY <1>1, <1>2, RequestStays DEF Active
<1>7. RowsAreRight' BY <1>2, OwnersStay
<1>8. UndoIsRight' BY UndoStays
<1>9. CursorIsRight' BY CursorStays
<1> QED BY <1>3, <1>4, <1>5, <1>6, <1>7, <1>8, <1>9 DEF IInv

\* The request of a row operation goes with its request for the lock.
LEMMA CheckedIsNotStored ==
    ASSUME IInv, NEW t \in Trxs, Checks(t)
    PROVE  /\ Latches(t) => ~ Stored(request)
           /\ request # NoReq /\ ~ Latches(t) /\ request.op # "COMPRESS" =>
                 request.trx \in Trxs /\ request.op # "READ" /\ request.trx # t
<1>1. Latches(t) => ~ Stored(request) BY DEF IInv, RequestIsRight, Latches, Stored, Checks
<1>2. ASSUME request # NoReq, ~ Latches(t), request.op # "COMPRESS"
      PROVE  request.trx \in Trxs /\ request.op # "READ" /\ request.trx # t
  BY <1>2 DEF IInv, RequestIsRight, Latches, Checks, Active
<1> QED BY <1>1, <1>2

\* The victim is t, whose request is the last.
LEMMA VictimIsStartKeeps ==
    ASSUME IInv, NEW t \in Trxs, VictimIsStart(t), UNCHANGED plan
    PROVE  IInv'
<1> USE DEF VictimIsStart, waitVars, rowVars, holdVars
<1>1. PICK i : i = WaitLock(t) OBVIOUS
<1>2. i \in DOMAIN locks /\ locks[i].trx = t /\ locks[i].wait /\ i = Len(locks)
  BY <1>1, WaitLockIs DEF Checks
<1>3. locks' = IF locks[i].type = "TABLE" THEN Without(locks, i) ELSE ForgetRecWait(locks, i)
  BY <1>1
<1>4. PICK u : u = locks' OBVIOUS
<1>5. /\ Good(u, Place)
      /\ NobodyNew(locks, u)
      /\ \A x, g : Owns(locks, x, g) => Owns(u, x, g)
      /\ \A x : HasWaitLock(u, x) <=> HasWaitLock(locks, x) /\ x # locks[i].trx
 <2>1. u = IF locks[i].type = "TABLE" THEN Without(locks, i) ELSE ForgetRecWait(locks, i)
   BY <1>3, <1>4
 <2>2. Good(locks, Place) BY DEF IInv
 <2> QED BY <1>2, <2>1, <2>2, WithdrawKeeps
<1>6. /\ Good(locks', Place) /\ locks' \in Seq(LockStruct) /\ NobodyNew(locks, locks')
      /\ \A x, g : Owns(locks, x, g) => Owns(locks', x, g)
      /\ \A x : HasWaitLock(locks', x) <=> HasWaitLock(locks, x) /\ x # t
  BY <1>2, <1>4, <1>5 DEF Good
<1>7. \A x \in Trxs : cursor'[x].new => cursor[x].new /\ cursor'[x].key = cursor[x].key
  BY NoCursorType DEF IInv, Types, Cursor
<1>8. kernel = t /\ Active(t) /\ kernel' = NoTrx /\ t # NoTrx BY NamesAssumption DEF Checks
<1>9. Types'
 <2>1. cursor' \in [Trxs -> Cursor]' BY NoCursorType DEF IInv, Types, Cursor
 <2> QED BY <2>1 DEF IInv, Types
<1>10. Good(locks', Place')
 <2>1. request' = request \/ (request' = NoReq /\ ~ Stored(request)) BY CheckedIsNotStored
 <2>2. Place' = Place BY <2>1 DEF Place, PlaceOf, Stored
 <2> QED BY <1>6, <2>2
<1>11. WaitsAreRight'
 <2>1. que_state[t] = "RUNNING" BY <1>8 DEF IInv, Types, WaitsAreRight, Active
 <2>2. EndLockWaits(locks')
  <3>1. \A x \in Trxs : que_state[x] = IF HasWaitLock(locks', x) THEN que_state[x] ELSE "RUNNING"
    BY <1>6, <2>1 DEF IInv, Types, WaitsAreRight
  <3>2. que_state = [x \in Trxs |-> que_state[x]] BY DEF IInv, Types
  <3> QED BY <3>1, <3>2 DEF EndLockWaits
 <2>3. ~ Active(kernel') BY <1>8, NamesAssumption DEF Active
 <2>4. \A x \in DOMAIN locks' : locks'[x].wait => locks'[x].trx # t /\ locks'[x].trx # NoTrx
  <3>1. \A x \in DOMAIN locks' : /\ locks'[x].trx \in Trxs
                                 /\ locks'[x].wait => HasWaitLock(locks', locks'[x].trx)
    BY <1>6, NewLocksAre
  <3> QED BY <1>6, <3>1, NamesAssumption
 <2> QED BY <1>6, <1>8, <2>2, <2>3, <2>4, WaitsEnd
<1>12. RequestIsRight'
 <2>1. CASE request' = NoReq BY <2>1 DEF RequestIsRight
 <2>2. CASE ~ Latches(t) /\ request' = request
   BY <1>6, <1>7, <1>8, <2>2, NamesAssumption, CheckedIsNotStored, RequestStays DEF Active, Latches
 <2> QED BY <2>1, <2>2
<1>13. RowsAreRight' BY <1>6, OwnersStay
<1>14. UndoIsRight' BY UndoStays
<1>15. CursorIsRight' BY <1>7, CursorStays
<1> QED BY <1>9, <1>10, <1>11, <1>12, <1>13, <1>14, <1>15 DEF IInv

\* There is no deadlock: t waits.
LEMMA StartLockWaitKeeps ==
    ASSUME IInv, NEW t \in Trxs, StartLockWait(t), UNCHANGED plan
    PROVE  IInv'
<1> USE DEF StartLockWait, waitVars, rowVars, holdVars
<1>1. kernel = t /\ Active(t) /\ kernel' = NoTrx /\ t # NoTrx /\ Checks(t)
  BY NamesAssumption DEF Checks
<1>2. request' = request \/ (request' = NoReq /\ ~ Stored(request)) BY <1>1, CheckedIsNotStored
<1>3. Types' BY DEF IInv, Types, Cursor
<1>4. Good(locks', Place') BY <1>2, NothingMoves
<1>5. WaitsAreRight'
 <2>1. \A i \in DOMAIN locks : locks[i].trx \in Trxs BY LocksAre
 <2>2. NoLoop(locks', kernel') BY <1>1, NoLoopFound
 <2> QED BY <1>1, <2>1, <2>2, NamesAssumption DEF IInv, Types, WaitsAreRight, HasWaitLock, Active
<1>6. RequestIsRight'
 <2>1. CASE request' = NoReq BY <2>1 DEF RequestIsRight
 <2>2. CASE ~ Latches(t) /\ request' = request
   BY <1>1, <2>2, NamesAssumption, CheckedIsNotStored, RequestStays, LocksStay DEF Active, Latches
 <2> QED BY <2>1, <2>2
<1>7. RowsAreRight' BY LocksStay, OwnersStay
<1>8. UndoIsRight' BY UndoStays
<1>9. CursorIsRight' BY CursorStays
<1> QED BY <1>3, <1>4, <1>5, <1>6, <1>7, <1>8, <1>9 DEF IInv

\* The cancellation of another request has granted that of t.
LEMMA GrantedMeanwhileKeeps ==
    ASSUME IInv, NEW t \in Trxs, GrantedMeanwhile(t), UNCHANGED plan
    PROVE  IInv'
<1> USE DEF GrantedMeanwhile, waitVars
<1>1. kernel = t /\ Active(t) /\ kernel' = NoTrx /\ t # NoTrx /\ Checks(t)
  BY NamesAssumption DEF Checks
<1>2. request' = request \/ (request' = NoReq /\ ~ Stored(request)) BY <1>1, CheckedIsNotStored
<1>3. /\ cursor' \in [Trxs -> Cursor]
      /\ \A x \in Trxs : cursor'[x].new => cursor[x].new /\ cursor'[x].key = cursor[x].key
  BY CursorWaits
<1>4. Types'
 <2>1. cursor' \in [Trxs -> Cursor]' BY <1>3 DEF Cursor
 <2>2. scanned' \in [Trxs -> SUBSET Keys]
  <3>1. ASSUME NEW g, NEW h
        PROVE  SeenBy(g, h) \subseteq Keys
    BY DEF SeenBy, GapBefore
  <3>2. scanned' = scanned \/ scanned' = [scanned EXCEPT ![t] = @ \cup SeenBy(request.gap, request.key)]
    BY DEF ReadSeen
  <3> QED BY ZenonT(60), <3>1, <3>2 DEF IInv, Types
 <2>3. request' \in Request \cup {NoReq} BY <1>2 DEF IInv, Types
 <2> QED BY <2>1, <2>2, <2>3, <1>1 DEF IInv, Types
<1>5. Good(locks', Place') BY <1>2, NothingMoves
<1>6. WaitsAreRight'
 <2>1. \A i \in DOMAIN locks : locks[i].trx \in Trxs BY LocksAre
 <2>2. NoLoop(locks', kernel') BY <1>1, NoLoopStays
 <2> QED BY <1>1, <2>1, <2>2, NamesAssumption DEF IInv, Types, WaitsAreRight, HasWaitLock, Active
<1>7. RequestIsRight'
 <2>1. CASE request' = NoReq BY <2>1 DEF RequestIsRight
 <2>2. CASE ~ Latches(t) /\ request' = request
   BY <1>1, <1>3, <2>2, NamesAssumption, CheckedIsNotStored, RequestStays, LocksStay DEF Active,
      Latches
 <2>3. CASE Latches(t) /\ request.op # "READ" /\ request' = request
  <3>1. PICK k : k = request.key OBVIOUS
  <3>2. /\ request # NoReq /\ request.trx = t /\ rows' = rows /\ locks' = locks
        /\ Active(t)' /\ ~ HasWaitLock(locks, t)
        /\ Present(k)' <=> Present(k)
        /\ RecordsOf(PageOf(k))' = RecordsOf(PageOf(k)) /\ PageOf(k)' = PageOf(k)
        /\ Active(rows[k].by)' => Active(rows[k].by)
    BY <1>1, <2>3 DEF Latches, Active, Present, RecordsOf, PageOf
  <3>3. /\ request.op = "INSERT" => k \in Keys /\ ~ Present(k)
        /\ request.op = "COMPRESS" =>
              k \in Keys /\ PageOf(k) # Root /\ RecordsOf(PageOf(k)) # {}
        /\ request.op \in {"INSERT", "MODIFY"} => ~ cursor[t].new
        /\ request.op = "MODIFY" =>
              /\ k \in Keys /\ Present(k)
              /\ request.step = "CHECKED"
              /\ request.page = PageOf(k)
              /\ HasX(locks, t, k)
    BY <1>1, <3>1, <3>2 DEF IInv, RequestIsRight
  <3>4. ASSUME request.op = "MODIFY"
        PROVE  /\ Owns(locks, t, k)
               /\ Active(rows[k].by) => rows[k].by = t
   <4>1. GrantedX(locks, t, k) /\ k \in Heap /\ Good(locks, Place)
     BY <3>2, <3>3, <3>4, RequestedIsGranted, HeapFacts DEF IInv
   <4>2. Owns(locks, t, k) BY <4>1, GrantedXOwns
   <4>3. Active(rows[k].by) => Owns(locks, rows[k].by, k) BY <3>3, <3>4 DEF IInv, RowsAreRight
   <4> QED BY <4>1, <4>2, <4>3 DEF Owns, GrantedX
  <3>5. request.op \in {"INSERT", "MODIFY"} => ~ cursor'[t].new BY <1>3, <3>3
  <3> QED BY <1>1, <2>3, <3>1, <3>2, <3>3, <3>4, <3>5 DEF RequestIsRight
 <2> QED BY <2>1, <2>2, <2>3
<1>8. RowsAreRight' BY LocksStay, OwnersStay
<1>9. UndoIsRight' BY UndoStays
<1>10. CursorIsRight' BY <1>3, CursorStays
<1> QED BY <1>4, <1>5, <1>6, <1>7, <1>8, <1>9, <1>10 DEF IInv

-----------------------------------------------------------------------------
(* Locks that are released *)

\* Who runs while kernel_mutex is free does not wait.
LEMMA WhoRuns ==
    ASSUME IInv, NEW t \in Trxs, thr[t] = "RUNNING", kernel = NoTrx
    PROVE  ~ HasWaitLock(locks, t) /\ que_state[t] = "RUNNING" /\ t # NoTrx
<1>1. t # NoTrx BY NamesAssumption
<1>2. que_state[t] = "RUNNING" BY DEF IInv, Types, WaitsAreRight
<1> QED BY <1>1, <1>2, WhoWaits

\* The empty log.
LEMMA EmptyIsSeq ==
    ASSUME NEW S
    PROVE  <<>> \in Seq(S)
  OBVIOUS

\* Commit, or the end of a rollback: all its rows are its own no more, while it has its
\* locks still.
LEMMA EndTrxKeeps ==
    ASSUME IInv, NEW t \in Trxs, EndTrx(t), UNCHANGED plan
    PROVE  IInv'
<1> USE DEF EndTrx, waitVars
<1>1. ~ HasWaitLock(locks, t) /\ que_state[t] = "RUNNING" /\ t # NoTrx BY WhoRuns
<1>2. /\ \A x \in Trxs : conc_state'[x] = IF x = t THEN "COMMITTED_IN_MEMORY" ELSE conc_state[x]
      /\ \A x \in Trxs : undo'[x] = IF x = t THEN <<>> ELSE undo[x]
      /\ \A x \in Trxs : cursor'[x] = IF x = t THEN NoCursor ELSE cursor[x]
  BY DEF IInv, Types
<1>3. Types'
 <2>1. cursor' \in [Trxs -> Cursor]' BY NoCursorType DEF IInv, Types, Cursor
 <2>2. undo' \in [Trxs -> Seq([key : Keys, old : Row \cup {NoRow}])]
  <3>1. undo \in [Trxs -> Seq([key : Keys, old : Row \cup {NoRow}])] BY DEF IInv, Types
  <3>2. <<>> \in Seq([key : Keys, old : Row \cup {NoRow}]) BY EmptyIsSeq
  <3> QED BY <3>1, <3>2
 <2>3. count' \in 0 .. (plan'.interval - 1) BY NamesAssumption DEF IInv, Types, PlanAssumption
 <2> QED BY <2>1, <2>2, <2>3 DEF IInv, Types
<1>4. Good(locks', Place') BY NothingMoves
<1>5. WaitsAreRight'
 <2>1. \A i \in DOMAIN locks : locks[i].trx \in Trxs /\ (locks[i].wait => locks[i].trx # t)
   BY <1>1, LocksAre DEF HasWaitLock
 <2>2. \A i \in DOMAIN locks : locks[i].wait =>
          conc_state[locks[i].trx] = "ACTIVE" /\ que_state[locks[i].trx] = "LOCK_WAIT"
   BY <2>1, NamesAssumption DEF IInv, WaitsAreRight
 <2>3. \A i \in DOMAIN locks : conc_state[locks[i].trx] # "NOT_STARTED" BY DEF IInv, WaitsAreRight
 <2>4. \A x \in Trxs : /\ que_state[x] = "LOCK_WAIT" => thr[x] # "RUNNING" /\ HasWaitLock(locks, x)
                       /\ conc_state[x] = "ACTIVE" => x \in plan.trxs
   BY DEF IInv, WaitsAreRight
 <2>5. ~ Active(kernel)' BY <1>2 DEF Active
 <2>6. NoLoop(locks', kernel') BY NoLoopStays
 <2> QED BY <1>2, <2>1, <2>2, <2>3, <2>4, <2>5, <2>6 DEF WaitsAreRight, HasWaitLock
<1>6. RequestIsRight'
 <2>1. request # NoReq /\ request.op # "COMPRESS" => request.trx \in Trxs
   BY DEF IInv, RequestIsRight, Active
 <2> QED BY <1>1, <1>2, <2>1, NamesAssumption, RequestStays, LocksStay DEF Active, Latches
<1>7. RowsAreRight' BY <1>2, LocksStay, OwnersStay
<1>8. UndoIsRight' BY <1>2, UndoStays
<1>9. CursorIsRight' BY <1>2, NoCursorType, CursorStays
<1> QED BY <1>3, <1>4, <1>5, <1>6, <1>7, <1>8, <1>9 DEF IInv

\* The last lock has been released.
LEMMA ReleasedKeeps ==
    ASSUME IInv, NEW t \in Trxs, Released(t), UNCHANGED plan
    PROVE  IInv'
<1> USE DEF Released, Releases, waitVars, rowVars
<1>1. t # NoTrx /\ ~ Active(t) BY NamesAssumption DEF Active
<1>2. \A x \in Trxs : conc_state'[x] = IF x = t THEN "NOT_STARTED" ELSE conc_state[x]
  BY DEF IInv, Types
<1>3. Types'
 <2>1. count' \in 0 .. (plan'.interval - 1) BY NamesAssumption DEF IInv, Types, PlanAssumption
 <2> QED BY <2>1 DEF IInv, Types, Cursor
<1>4. Good(locks', Place') BY NothingMoves
<1>5. WaitsAreRight'
 <2>1. \A i \in DOMAIN locks : locks[i].trx \in Trxs /\ locks[i].trx # t BY LocksAre
 <2>2. \A i \in DOMAIN locks : locks[i].wait =>
          conc_state[locks[i].trx] = "ACTIVE" /\ que_state[locks[i].trx] = "LOCK_WAIT"
   BY <2>1, NamesAssumption DEF IInv, WaitsAreRight
 <2>3. \A i \in DOMAIN locks : conc_state[locks[i].trx] # "NOT_STARTED" BY DEF IInv, WaitsAreRight
 <2>4. \A x \in Trxs : /\ que_state[x] = "LOCK_WAIT" => thr[x] # "RUNNING" /\ HasWaitLock(locks, x)
                       /\ conc_state[x] = "ACTIVE" => x \in plan.trxs
   BY DEF IInv, WaitsAreRight
 <2>5. ~ Active(kernel)' BY NamesAssumption DEF Active
 <2>6. \A i \in DOMAIN locks : locks[i].trx # NoTrx BY <2>1, NamesAssumption
 <2>7. NoLoop(locks', kernel') BY <2>1, NoLoopStays DEF HasWaitLock
 <2> QED BY <1>2, <2>1, <2>2, <2>3, <2>4, <2>5, <2>6, <2>7 DEF WaitsAreRight, HasWaitLock
<1>6. RequestIsRight'
 <2>1. request # NoReq /\ request.op # "COMPRESS" => Active(request.trx) /\ request.trx \in Trxs
   BY DEF IInv, RequestIsRight, Active
 <2>2. request # NoReq /\ request.op # "COMPRESS" => request.trx # t /\ request.trx # NoTrx
   BY <1>1, <2>1, NamesAssumption
 <2> QED BY <1>1, <1>2, <2>1, <2>2, RequestStays, LocksStay DEF Active
<1>7. RowsAreRight' BY <1>2, LocksStay, OwnersStay
<1>8. UndoIsRight'
 <2>1. undo[t] = <<>> BY DEF IInv, UndoIsRight
 <2> QED BY <1>2, <2>1, UndoStays
<1>9. CursorIsRight' BY <1>2, CursorStays
<1> QED BY <1>3, <1>4, <1>5, <1>6, <1>7, <1>8, <1>9 DEF IInv

\* lock_release_off_kernel: one lock is dequeued, and who waited for it is granted.
LEMMA ReleaseLockKeeps ==
    ASSUME IInv, NEW t \in Trxs, ReleaseLock(t), UNCHANGED plan
    PROVE  IInv'
<1> USE DEF ReleaseLock, Releases, waitVars, rowVars
<1>1. t # NoTrx /\ ~ Active(t) /\ kernel \in {t, NoTrx} /\ kernel' \in {t, NoTrx}
  BY NamesAssumption DEF Active
<1>2. PICK i \in DOMAIN locks : locks[i].trx = t /\ locks' = Dequeue(locks, i) OBVIOUS
<1>3. PICK u : u = locks' OBVIOUS
<1>4. /\ Good(u, Place) /\ NobodyNew(locks, u)
      /\ \A x, g : /\ Owns(locks, x, g)
                   /\ locks[i].wait \/ locks[i].trx # x \/ locks[i].mode # "X"
                   => Owns(u, x, g)
      /\ \A x, g : HasX(locks, x, g) /\ locks[i].trx # x => HasX(u, x, g)
 <2>1. Good(locks, Place) /\ u = Dequeue(locks, i) BY <1>2, <1>3 DEF IInv
 <2>2. Good(u, Place) /\ NobodyNew(locks, u) BY <2>1, DequeueKeeps
 <2>3. \A x, g : /\ Owns(locks, x, g)
                 /\ locks[i].wait \/ locks[i].trx # x \/ locks[i].mode # "X"
                 => Owns(u, x, g)
   BY <2>1, DequeueKeeps
 <2>4. \A x, g : HasX(locks, x, g) /\ locks[i].trx # x => HasX(u, x, g) BY <2>1, DequeueKeeps
 <2> QED BY <2>2, <2>3, <2>4
<1>5. /\ Good(locks', Place) /\ locks' \in Seq(LockStruct) /\ NobodyNew(locks, locks')
      /\ \A x : x # t => \A g : Owns(locks, x, g) => Owns(locks', x, g)
      /\ \A x : x # t => \A g : HasX(locks, x, g) => HasX(locks', x, g)
  BY <1>2, <1>3, <1>4 DEF Good
<1>6. Types'
 <2>1. count' \in 0 .. (plan'.interval - 1)
  <3>1. plan.interval \in Nat \ {0} BY NamesAssumption DEF IInv, Types, PlanAssumption
  <3> QED BY <3>1 DEF IInv, Types
 <2>2. que_state' \in [Trxs -> {"RUNNING", "LOCK_WAIT"}] BY DEF IInv, Types, EndLockWaits
 <2> QED BY <1>1, <2>1, <2>2 DEF IInv, Types, Cursor
<1>7. Good(locks', Place') BY <1>5, PlaceStays
<1>8. WaitsAreRight'
 <2>1. \A x \in DOMAIN locks' : /\ locks'[x].trx \in Trxs
                                /\ locks'[x].wait => HasWaitLock(locks', locks'[x].trx)
   BY <1>5, NewLocksAre
 <2>2. \A x \in DOMAIN locks' : locks'[x].wait => locks'[x].trx \notin {t, NoTrx}
  <3> SUFFICES ASSUME NEW x \in DOMAIN locks', locks'[x].wait
               PROVE  locks'[x].trx \notin {t, NoTrx}
    OBVIOUS
  <3>1. PICK w : w = locks'[x].trx OBVIOUS
  <3>2. HasWaitLock(locks, w) /\ w \in Trxs BY <1>5, <2>1, <3>1 DEF NobodyNew
  <3>3. Active(w) BY <3>2, WhoWaits DEF Active
  <3> QED BY <1>1, <3>1, <3>2, <3>3, NamesAssumption
 <2>3. ~ Active(kernel') BY <1>1, NamesAssumption DEF Active
 <2> QED BY <1>1, <1>5, <2>2, <2>3, WaitsEnd
<1>9. RequestIsRight'
 <2>1. request # NoReq /\ request.op # "COMPRESS" => Active(request.trx) /\ request.trx \in Trxs
   BY DEF IInv, RequestIsRight, Active
 <2>2. request # NoReq /\ request.op # "COMPRESS" => request.trx # t /\ request.trx # NoTrx
   BY <1>1, <2>1, NamesAssumption
 <2>3. \A x : Active(x) => \A g \in Heap : Owns(locks, x, g) => Owns(locks', x, g) BY <1>1, <1>5
 <2>4. CASE request # NoReq /\ request.op = "COMPRESS"
  <3>1. /\ request' = request
        /\ RecordsOf(PageOf(request.key))' = RecordsOf(PageOf(request.key))
        /\ PageOf(request.key)' = PageOf(request.key)
    BY DEF RecordsOf, PageOf, Present
  <3> QED BY <2>4, <3>1 DEF IInv, RequestIsRight
 <2>5. CASE request # NoReq /\ request.op # "COMPRESS"
   BY <1>1, <1>5, <2>1, <2>2, <2>3, <2>5, RequestStays DEF Active
 <2> QED BY <2>4, <2>5 DEF RequestIsRight
<1>10. RowsAreRight' BY <1>1, <1>5, OwnersStay
<1>11. UndoIsRight' BY UndoStays
<1>12. CursorIsRight' BY CursorStays
<1> QED BY <1>6, <1>7, <1>8, <1>9, <1>10, <1>11, <1>12 DEF IInv

\* row_unlock_table_autoinc_for_mysql.
LEMMA UnlockAutoIncKeeps ==
    ASSUME IInv, NEW t \in Trxs, UnlockAutoInc(t), UNCHANGED plan
    PROVE  IInv'
<1> USE DEF UnlockAutoInc, waitVars, rowVars, holdVars
<1>1. PICK i \in DOMAIN locks : /\ locks[i].mode # "X" /\ ~ locks[i].wait /\ locks[i].trx = t
                                /\ locks' = Dequeue(locks, i)
  BY DEF AutoIncLock
<1>2. PICK u : u = locks' OBVIOUS
<1>3. /\ Good(u, Place) /\ NobodyNew(locks, u)
      /\ \A x, g : /\ Owns(locks, x, g)
                   /\ locks[i].wait \/ locks[i].trx # x \/ locks[i].mode # "X"
                   => Owns(u, x, g)
 <2>1. Good(locks, Place) /\ u = Dequeue(locks, i) BY <1>1, <1>2 DEF IInv
 <2>2. Good(u, Place) /\ NobodyNew(locks, u) BY <2>1, DequeueKeeps
 <2>3. \A x, g : /\ Owns(locks, x, g)
                 /\ locks[i].wait \/ locks[i].trx # x \/ locks[i].mode # "X"
                 => Owns(u, x, g)
   BY <2>1, DequeueKeeps
 <2> QED BY <2>2, <2>3
<1>4. /\ Good(locks', Place) /\ locks' \in Seq(LockStruct) /\ NobodyNew(locks, locks')
      /\ \A x, g : Owns(locks, x, g) => Owns(locks', x, g)
  BY <1>1, <1>2, <1>3 DEF Good
<1>5. Types' BY DEF IInv, Types, Cursor, EndLockWaits
<1>6. Good(locks', Place') BY <1>4, PlaceStays
<1>7. WaitsAreRight'
 <2>1. \A x \in DOMAIN locks' : locks'[x].wait => locks'[x].trx # NoTrx
   BY <1>4, NewLocksAre, NamesAssumption
 <2>2. ~ Active(kernel') BY NamesAssumption DEF Active
 <2> QED BY <1>4, <2>1, <2>2, WaitsEnd
<1>8. RequestIsRight'
 <2>1. CASE request # NoReq /\ request.op # "COMPRESS"
  <3>1. request.trx \in Trxs /\ request.trx # NoTrx
    BY <2>1, NamesAssumption DEF IInv, RequestIsRight, Active
  <3> QED BY <1>4, <2>1, <3>1, RequestStays DEF Active
 <2>2. CASE request # NoReq /\ request.op = "COMPRESS"
  <3>1. /\ request' = request
        /\ RecordsOf(PageOf(request.key))' = RecordsOf(PageOf(request.key))
        /\ PageOf(request.key)' = PageOf(request.key)
    BY DEF RecordsOf, PageOf, Present
  <3> QED BY <2>2, <3>1 DEF IInv, RequestIsRight
 <2> QED BY <2>1, <2>2 DEF RequestIsRight
<1>9. RowsAreRight' BY <1>4, OwnersStay
<1>10. UndoIsRight' BY UndoStays
<1>11. CursorIsRight' BY CursorStays
<1> QED BY <1>5, <1>6, <1>7, <1>8, <1>9, <1>10, <1>11 DEF IInv

\* lock_rec_unlock gives up the lock on a row that t has not changed.
LEMMA UnlockRowKeeps ==
    ASSUME IInv, NEW t \in Trxs, UnlockRow(t), UNCHANGED plan
    PROVE  IInv'
<1> USE DEF UnlockRow, waitVars, rowVars, holdVars
<1>1. ~ HasWaitLock(locks, t) /\ t # NoTrx BY WhoRuns
<1>2. PICK h : h = cursor[t].key OBVIOUS
<1>3. PICK m : m = cursor[t].mode OBVIOUS
<1>4. /\ h \in Keys
      /\ Present(h) => rows[h].by # t
  BY <1>2 DEF IInv, CursorIsRight, Active
<1>5. PICK u : u = locks' OBVIOUS
<1>6. /\ Good(u, Place) /\ NobodyNew(locks, u)
      /\ \A w, g : Owns(locks, w, g) /\ (w # t \/ g # h) => Owns(u, w, g)
 <2>1. Good(locks, Place) /\ u = RecUnlock(locks, t, h, m) BY <1>2, <1>3, <1>5 DEF IInv
 <2> QED BY <1>1, <2>1, RecUnlockKeeps
<1>7. /\ Good(locks', Place) /\ locks' \in Seq(LockStruct) /\ NobodyNew(locks, locks')
      /\ \A w, g : Owns(locks, w, g) /\ (w # t \/ g # h) => Owns(locks', w, g)
  BY <1>5, <1>6 DEF Good
<1>8. /\ cursor' \in [Trxs -> Cursor]
      /\ \A x \in Trxs : cursor'[x].new => cursor[x].new /\ cursor'[x].key = cursor[x].key
  BY CursorWaits
<1>9. Types'
 <2>1. cursor' \in [Trxs -> Cursor]' BY <1>8 DEF Cursor
 <2> QED BY <2>1 DEF IInv, Types, EndLockWaits
<1>10. Good(locks', Place') BY <1>7, PlaceStays
<1>11. WaitsAreRight'
 <2>1. \A x \in DOMAIN locks' : locks'[x].wait => locks'[x].trx # NoTrx
   BY <1>7, NewLocksAre, NamesAssumption
 <2>2. ~ Active(kernel') BY NamesAssumption DEF Active
 <2> QED BY <1>7, <2>1, <2>2, WaitsEnd
<1>12. RequestIsRight' BY DEF RequestIsRight
<1>13. RowsAreRight'
 <2>1. \A k \in Keys : Present(k) /\ Active(rows[k].by) /\ Owns(locks, rows[k].by, k)
                       => Owns(locks', rows[k].by, k)
   BY <1>4, <1>7
 <2> QED BY <2>1, OwnersStay
<1>14. UndoIsRight' BY UndoStays
<1>15. CursorIsRight' BY <1>8, CursorStays
<1> QED BY <1>9, <1>10, <1>11, <1>12, <1>13, <1>14, <1>15 DEF IInv

-----------------------------------------------------------------------------
(* Statements: the lock check *)

\* The compatibility of modes is symmetric.
LEMMA CompatibleIsSymmetric ==
    \A a, b : Compatible(a, b) <=> Compatible(b, a)
<1>1. \A a, b : {a, b} = {b, a} OBVIOUS
<1> QED BY <1>1 DEF Compatible

\* The bound on statements.
LEMMA StatementCounts ==
    ASSUME IInv, NEW t \in Trxs, Runs(t), UNCHANGED plan,
           statements' = [statements EXCEPT ![t] = @ + 1]
    PROVE  /\ statements' \in [Trxs -> Nat]
           /\ \A x \in plan'.trxs : statements'[x] <= plan'.statements[x]
<1>1. t \in plan.trxs /\ plan.trxs \subseteq Trxs /\ plan.statements[t] \in Nat
  BY NamesAssumption DEF IInv, Types, PlanAssumption, WaitsAreRight, Runs, Active
<1>2. statements \in [Trxs -> Nat] /\ statements[t] < plan.statements[t] /\ statements[t] \in Nat
  BY DEF IInv, Types, Runs
<1>3. \A x \in Trxs : statements'[x] = IF x = t THEN statements[t] + 1 ELSE statements[x] BY <1>2
<1>4. \A x \in plan.trxs : statements[x] <= plan.statements[x] BY DEF IInv, Types
<1>5. statements[t] + 1 <= plan.statements[t] /\ statements[t] + 1 \in Nat BY <1>1, <1>2
<1> QED BY <1>1, <1>2, <1>3, <1>4, <1>5

\* lock_table: it is granted if no other lock is incompatible, and waits otherwise.
LEMMA LockTableKeeps ==
    ASSUME IInv, NEW t \in Trxs, NEW m, LockTable(t, m), UNCHANGED plan
    PROVE  IInv'
<1> USE DEF LockTable, rowVars
<1>1. ~ HasWaitLock(locks, t) /\ t # NoTrx /\ kernel = NoTrx /\ Active(t) /\ ~ Latches(t)
      /\ thr[t] = "RUNNING"
  BY WhoRuns DEF Runs
<1>2. m \in Modes BY NamesAssumption DEF IInv, Types, PlanAssumption
<1>3. PICK waits \in BOOLEAN : waits = TableOtherHasIncompatible(locks, t, m)
  BY DEF TableOtherHasIncompatible
<1>4. PICK l : l = NewTableLock(t, m, waits) OBVIOUS
<1>5. locks' = Append(locks, l) /\ kernel' = IF waits THEN t ELSE NoTrx BY <1>3, <1>4
<1>6. /\ l \in LockStruct /\ l.bits = {} /\ l.type = "TABLE" /\ l.trx = t /\ l.mode = m
      /\ l.wait = waits
  BY <1>2, <1>4, HeapFacts DEF NewTableLock, LockStruct, Gaps
<1>7. ~ l.wait => \A x \in DOMAIN locks : ~ Clash(locks[x], l)
  BY <1>3, <1>6 DEF Clash, Holds, On, TableOtherHasIncompatible
<1>8. ASSUME l.wait
      PROVE  \E x \in DOMAIN locks : SameQueue(l, locks[x]) /\ LockHasToWait(l, locks[x])
 <2>1. PICK x \in DOMAIN locks : /\ locks[x].type = "TABLE" /\ locks[x].trx # t
                                 /\ ~ Compatible(locks[x].mode, m)
   BY <1>3, <1>6, <1>8 DEF TableOtherHasIncompatible
 <2>2. ~ Compatible(m, locks[x].mode) BY <2>1, CompatibleIsSymmetric
 <2> QED BY <1>6, <2>1, <2>2 DEF SameQueue, LockHasToWait
<1>9. PICK u : u = Append(locks, l) OBVIOUS
<1>10. /\ \A h \in l.bits : l.type = "REC" /\ l.page = Place[h]
       /\ l.wait => /\ l.type = "REC" =>
                          \E h \in Heap : l.bits = {h} /\ (h \in Suprema => l.gap = "ORDINARY")
                    /\ ~ HasWaitLock(locks, l.trx)
                    /\ \E x \in DOMAIN locks : SameQueue(l, locks[x]) /\ LockHasToWait(l, locks[x])
       /\ Good(locks, Place)
  BY <1>1, <1>6, <1>8 DEF IInv
<1>11. /\ Good(u, Place)
       /\ \A x : /\ HasLock(u, x) <=> HasLock(locks, x) \/ x = t
                 /\ HasWaitLock(u, x) <=> HasWaitLock(locks, x) \/ (waits /\ x = t)
       /\ \A x, g : Owns(locks, x, g) => Owns(u, x, g)
       /\ \A x \in DOMAIN u : waits /\ u[x].wait /\ u[x].trx = t => x = Len(u)
       /\ IF waits THEN OnlyWaits(locks, u, t) ELSE FewerWaits(locks, u)
 <2>1. Good(u, Place) BY Zenon, <1>6, <1>7, <1>9, <1>10, AppendKeeps
 <2>2. \A x : /\ HasLock(u, x) <=> HasLock(locks, x) \/ x = l.trx
              /\ HasWaitLock(u, x) <=> HasWaitLock(locks, x) \/ (l.wait /\ x = l.trx)
   BY Zenon, <1>6, <1>7, <1>9, <1>10, AppendKeeps
 <2>3. \A x, g : /\ Owns(locks, x, g)
                 /\ Holds(l, g) => x = l.trx \/ (l.wait /\ GrantedX(locks, x, g))
                 => Owns(u, x, g)
   BY Zenon, <1>6, <1>7, <1>9, <1>10, AppendKeeps
 <2>4. \A g : ~ Holds(l, g) BY <1>6 DEF Holds, On
 <2>5. \A x \in DOMAIN u : l.wait /\ u[x].wait /\ u[x].trx = l.trx => x = Len(u)
   BY SMTT(30), <1>6, <1>7, <1>9, <1>10, AppendKeeps
 <2>6. IF l.wait THEN OnlyWaits(locks, u, l.trx) ELSE FewerWaits(locks, u)
   BY Zenon, <1>6, <1>7, <1>9, <1>10, AppendKeeps
 <2> QED BY <1>6, <2>1, <2>2, <2>3, <2>4, <2>5, <2>6
<1>12. /\ Good(locks', Place) /\ locks' \in Seq(LockStruct)
       /\ \A x : /\ HasLock(locks', x) <=> HasLock(locks, x) \/ x = t
                 /\ HasWaitLock(locks', x) <=> HasWaitLock(locks, x) \/ (waits /\ x = t)
       /\ \A x, g : Owns(locks, x, g) => Owns(locks', x, g)
       /\ \A x \in DOMAIN locks' : waits /\ locks'[x].wait /\ locks'[x].trx = t => x = Len(locks')
       /\ OnlyWaits(locks, locks', kernel')
  BY Zenon, <1>5, <1>9, <1>11 DEF Good, OnlyWaits, FewerWaits
<1>13. Types'
 <2>1. /\ statements' \in [Trxs -> Nat]
       /\ \A x \in plan'.trxs : statements'[x] <= plan'.statements[x]
   BY StatementCounts
 <2>2. error' \in [Trxs -> {"SUCCESS", "DEADLOCK", "LOCK_WAIT_TIMEOUT"}] BY DEF IInv, Types
 <2>3. kernel' \in Trxs \cup {NoTrx} BY <1>5
 <2> QED BY <2>1, <2>2, <2>3 DEF IInv, Types, Cursor
<1>14. Good(locks', Place') BY <1>12, PlaceStays
<1>15. WaitsAreRight'
 <2>1. /\ AllStillWait(locks, locks')
       /\ \A x : HasWaitLock(locks', x) => HasWaitLock(locks, x) \/ x = kernel'
       /\ \A x : HasLock(locks', x) => HasLock(locks, x) \/ Active(x)
   BY <1>1, <1>5, <1>12 DEF AllStillWait
 <2>2. kernel' # NoTrx => kernel' = t /\ waits BY <1>5
 <2> QED BY <1>1, <1>12, <2>1, <2>2, WaitsGoOn
<1>16. RequestIsRight'
 <2>1. CASE request # NoReq /\ request.op # "COMPRESS"
  <3>1. request.trx \in Trxs /\ request.trx # NoTrx /\ request.trx # t
    BY <1>1, <2>1, NamesAssumption DEF IInv, RequestIsRight, Active, Latches
  <3>2. kernel' # request.trx BY <1>5, <3>1
  <3> QED BY <1>1, <1>12, <2>1, <3>1, <3>2, RequestStays DEF Active
 <2>2. CASE request # NoReq /\ request.op = "COMPRESS"
  <3>1. /\ request' = request
        /\ RecordsOf(PageOf(request.key))' = RecordsOf(PageOf(request.key))
        /\ PageOf(request.key)' = PageOf(request.key)
    BY DEF RecordsOf, PageOf, Present
  <3> QED BY <2>2, <3>1 DEF IInv, RequestIsRight
 <2> QED BY <2>1, <2>2 DEF RequestIsRight
<1>17. RowsAreRight' BY <1>12, OwnersStay
<1>18. UndoIsRight' BY UndoStays
<1>19. CursorIsRight' BY CursorStays
<1> QED BY <1>13, <1>14, <1>15, <1>16, <1>17, <1>18, <1>19 DEF IInv

\* What the three lock checks have in common.
LEMMA WhoAsks ==
    ASSUME IInv, NEW t \in Trxs, Runs(t)
    PROVE  /\ ~ HasWaitLock(locks, t) /\ t # NoTrx /\ kernel = NoTrx /\ Active(t)
           /\ thr[t] = "RUNNING"
  BY WhoRuns DEF Runs

\* The row operation that begins has its type.
LEMMA OperationType ==
    ASSUME IInv, NEW t \in Trxs, NEW op \in {"READ", "MODIFY", "INSERT", "COMPRESS"},
           NEW h \in Keys \cup Suprema
    PROVE  /\ Operation(t, op, h) \in Request /\ Operation(t, op, h) # NoReq
           /\ Operation(NoTrx, op, h) \in Request /\ Operation(NoTrx, op, h) # NoReq
<1>1. h \in Heap /\ PageOf(h) \in Pages BY HeapFacts, PageFacts
<1>2. Operation(t, op, h) \in Request /\ Operation(NoTrx, op, h) \in Request
  BY <1>1 DEF Operation, Request, Gaps
<1> QED BY <1>2, NamesAssumption

\* A request for a lock that is there already changes nothing.
LEMMA RecLockAgain ==
    ASSUME NEW s, NEW P, Good(s, P), NEW t, NEW h \in Keys, GrantedX(s, t, h), NEW m, NEW p, P[h] = p
    PROVE  /\ Locked(s, t, m, "REC_NOT_GAP", p, h) = s
           /\ RecLockGrants(s, t, m, "REC_NOT_GAP", p, h)
<1>1. PICK j \in DOMAIN s : Holds(s[j], h) /\ s[j].trx = t /\ s[j].mode = "X" /\ ~ s[j].wait
  BY DEF GrantedX
<1>2. h \notin Suprema /\ On(s[j], h) /\ ~ s[j].ii /\ s[j].gap # "GAP" /\ j \in OnPage(s, p)
  BY <1>1, HeapFacts DEF Holds, On, OnPage, Good, Placed
<1>3. RecHasExpl(s, t, m, "REC_NOT_GAP", h) BY <1>1, <1>2 DEF RecHasExpl, StrongerOrEq
<1>4. RecLockGrants(s, t, m, "REC_NOT_GAP", p, h) BY <1>3 DEF RecLockGrants, SlowPathGrants
<1>5. CASE ~ FastPathApplies(s, t, m, "REC_NOT_GAP", p, h)
  BY <1>3, <1>4, <1>5 DEF Locked, RecLock, SlowPath
<1>6. CASE FastPathApplies(s, t, m, "REC_NOT_GAP", p, h)
 <2>1. OnPage(s, p) = {j} BY <1>2, <1>6 DEF FastPathApplies
 <2>2. PICK u : u = FastPath(s, FALSE, t, m, "REC_NOT_GAP", p, h) OBVIOUS
 <2>3. u = [i \in DOMAIN s |-> IF i = j THEN [s[i] EXCEPT !.bits = @ \cup {h}] ELSE s[i]]
   BY <2>1, <2>2 DEF FastPath
 <2>4. [s[j] EXCEPT !.bits = @ \cup {h}] = s[j]
  <3>1. s \in Seq(LockStruct) BY DEF Good
  <3>2. s[j] \in LockStruct BY <3>1
  <3>3. s[j].bits \cup {h} = s[j].bits BY <1>2 DEF On
  <3> QED BY <3>2, <3>3 DEF LockStruct
 <2>5. s = [i \in DOMAIN s |-> s[i]] BY DEF Good
 <2>6. u = s BY <2>3, <2>4, <2>5
 <2> QED BY <1>4, <1>6, <2>2, <2>6 DEF Locked, RecLock
<1> QED BY <1>5, <1>6

\* The fields of the row operation that begins.
LEMMA OperationIs ==
    ASSUME IInv, NEW t \in Trxs, NEW h \in Keys \cup Suprema,
           NEW op \in {"READ", "MODIFY", "INSERT", "COMPRESS"}
    PROVE  \E o \in Request :
              /\ o = Operation(t, op, h)
              /\ o.trx = t /\ o.op = op /\ o.key = h /\ o.step = "CHECKED" /\ o.page = PageOf(h)
<1>1. PICK o : o = Operation(t, op, h) OBVIOUS
<1>2. o \in Request BY <1>1, OperationType
<1>3. o.trx = t /\ o.op = op /\ o.key = h /\ o.step = "CHECKED" /\ o.page = PageOf(h)
  BY <1>1 DEF Operation
<1> QED BY <1>1, <1>2, <1>3

\* The lock table that a read of the record h sees.
LEMMA ReadConverts ==
    ASSUME IInv, request = NoReq, NEW h \in Keys \cup Suprema, OnThePage(h)
    PROVE  \E s : /\ s = IF h \in Suprema THEN locks ELSE ConvertImplToExpl(locks, h)
                  /\ Good(s, Place)
                  /\ \A x : /\ HasLock(s, x) => HasLock(locks, x) \/ Active(x)
                            /\ HasWaitLock(s, x) <=> HasWaitLock(locks, x)
                  /\ \A k \in Keys : Present(k) /\ Active(rows[k].by) =>
                        Owns(s, rows[k].by, k) /\ (k = h => GrantedX(s, rows[k].by, k))
                  /\ FewerWaits(locks, s)
<1>1. \A k \in Keys : Present(k) /\ Active(rows[k].by) => Owns(locks, rows[k].by, k)
  BY DEF IInv, RowsAreRight
<1>2. CASE h \in Suprema
 <2>1. h \notin Keys BY <1>2, HeapFacts
 <2> QED BY <1>1, <1>2, <2>1 DEF IInv, FewerWaits
<1>3. CASE h \notin Suprema
 <2>1. h \in Keys /\ Present(h) BY <1>3, PageFacts
 <2>2. PICK u :
          /\ u = ConvertImplToExpl(locks, h)
          /\ Good(u, Place)
          /\ \A x : /\ HasLock(u, x) => HasLock(locks, x) \/ Active(x)
                    /\ HasWaitLock(u, x) <=> HasWaitLock(locks, x)
          /\ \A x, g : Owns(locks, x, g) /\ (g # h \/ x = rows[h].by) => Owns(u, x, g)
          /\ Active(rows[h].by) => GrantedX(u, rows[h].by, h)
          /\ FewerWaits(locks, u)
   BY <2>1, ConvertKeeps
 <2>3. \A k \in Keys : Present(k) /\ Active(rows[k].by) =>
          Owns(u, rows[k].by, k) /\ (k = h => GrantedX(u, rows[k].by, k))
   BY <1>1, <2>2
 <2> QED BY <1>3, <2>2, <2>3
<1> QED BY <1>2, <1>3

\* What is left to show of a lock check, granted or not.
LEMMA LockCheckKeeps ==
    ASSUME IInv, NEW t \in Trxs, Runs(t), request = NoReq, UNCHANGED plan,
           statements' = [statements EXCEPT ![t] = @ + 1],
           error' = [error EXCEPT ![t] = "SUCCESS"],
           UNCHANGED <<rows, tree, undo, conc_state, que_state, thr, chosen, expired, count>>,
           scanned' \in [Trxs -> SUBSET Keys],
           cursor' \in [Trxs -> Cursor], CursorIsRight',
           request' \in Request \cup {NoReq}, request' # NoReq => request'.step = "CHECKED", RequestIsRight',
           kernel' \in {t, NoTrx},
           Good(locks', Place),
           \A x : /\ HasLock(locks', x) => HasLock(locks, x) \/ Active(x)
                  /\ HasWaitLock(locks', x) <=> HasWaitLock(locks, x) \/ (kernel' = t /\ x = t),
           \A i \in DOMAIN locks' : kernel' = t /\ locks'[i].wait /\ locks'[i].trx = t => i = Len(locks'),
           FewerWaits(locks, locks') \/ (kernel' = t /\ OnlyWaits(locks, locks', t)),
           \A k \in Keys : Present(k) /\ Active(rows[k].by) => Owns(locks', rows[k].by, k)
    PROVE  IInv'
<1>1. ~ HasWaitLock(locks, t) /\ t # NoTrx /\ kernel = NoTrx /\ Active(t) /\ thr[t] = "RUNNING"
  BY WhoAsks
<1>2. Types'
 <2>1. /\ statements' \in [Trxs -> Nat]
       /\ \A x \in plan'.trxs : statements'[x] <= plan'.statements[x]
   BY StatementCounts
 <2>2. error' \in [Trxs -> {"SUCCESS", "DEADLOCK", "LOCK_WAIT_TIMEOUT"}] BY DEF IInv, Types
 <2>3. cursor' \in [Trxs -> Cursor]' BY DEF Cursor
 <2> QED BY <2>1, <2>2, <2>3 DEF IInv, Types
<1>3. Good(locks', Place')
 <2>1. ~ Stored(request) /\ ~ Stored(request') BY DEF Stored
 <2>2. Place' = Place BY <2>1 DEF Place, PlaceOf
 <2> QED BY <2>2
<1>4. WaitsAreRight'
 <2>1. locks' \in Seq(LockStruct) /\ AllStillWait(locks, locks') BY DEF Good, AllStillWait
 <2>2. \A x : HasWaitLock(locks', x) => HasWaitLock(locks, x) \/ x = kernel' OBVIOUS
 <2>3. OnlyWaits(locks, locks', kernel') BY DEF OnlyWaits, FewerWaits
 <2> QED BY <1>1, <2>1, <2>2, <2>3, WaitsGoOn
<1>5. RowsAreRight' BY OwnersStay
<1>6. UndoIsRight' BY UndoStays
<1> QED BY <1>2, <1>3, <1>4, <1>5, <1>6 DEF IInv

\* The cursor after a read: of a record that the transaction has changed itself the
\* lock is not new.
LEMMA CursorMoves ==
    ASSUME IInv, NEW t \in Trxs, NEW h \in Keys \cup Suprema, NEW m, m \in plan.reads,
           NEW new \in BOOLEAN, NEW waited \in BOOLEAN,
           SetCursor(t, m, h, new, waited), UNCHANGED <<rows, conc_state>>,
           t \in plan.read_committed => h \in Keys,
           t \in plan.read_committed /\ new /\ Active(t) /\ Present(h) => rows[h].by # t
    PROVE  cursor' \in [Trxs -> Cursor] /\ CursorIsRight'
<1>1. cursor \in [Trxs -> Cursor] BY DEF IInv, Types
<1>2. CASE t \notin plan.read_committed
 <2>1. cursor' = cursor BY <1>2 DEF SetCursor
 <2> QED BY <1>1, <2>1, CursorStays
<1>3. CASE t \in plan.read_committed
 <2>1. PICK b : b = (new \/ (cursor[t].waited /\ cursor[t].key = h /\ cursor[t].new)) OBVIOUS
 <2>2. PICK c : c = [key |-> h, mode |-> m, waited |-> waited, new |-> b] OBVIOUS
 <2>3. cursor' = [cursor EXCEPT ![t] = c] BY <1>3, <2>1, <2>2 DEF SetCursor
 <2>4. b \in BOOLEAN /\ (b => new \/ (cursor[t].key = h /\ cursor[t].new))
  <3>1. cursor[t].waited \in BOOLEAN /\ cursor[t].new \in BOOLEAN BY <1>1 DEF Cursor
  <3> QED BY <2>1, <3>1
 <2>5. c \in Cursor /\ c.key = h /\ c.new = b
  <3>1. h \in 0 .. (MaxKey + 3) BY MaxKeyAssumption DEF Keys, Suprema
  <3> QED BY <2>2, <2>4, <3>1 DEF Cursor
 <2>6. cursor' \in [Trxs -> Cursor] /\ \A x \in Trxs : cursor'[x] = IF x = t THEN c ELSE cursor[x]
   BY <1>1, <2>3, <2>5
 <2>7. ASSUME NEW x \in Trxs, conc_state[x] = "ACTIVE", cursor'[x].new
       PROVE  cursor'[x].key \in Keys /\ (rows[cursor'[x].key] # NoRow => rows[cursor'[x].key].by # x)
  <3>1. CASE x # t BY <2>6, <2>7, <3>1 DEF IInv, CursorIsRight, Present
  <3>2. CASE x = t
   <4>1. cursor'[x].key = h /\ h \in Keys /\ b BY <1>3, <2>5, <2>6, <2>7, <3>2
   <4>2. CASE new BY <1>3, <2>7, <3>2, <4>1, <4>2 DEF Active, Present
   <4>3. CASE cursor[t].key = h /\ cursor[t].new
     BY <2>7, <3>2, <4>1, <4>3 DEF IInv, CursorIsRight, Present
   <4> QED BY <2>4, <4>1, <4>2, <4>3
  <3> QED BY <3>1, <3>2
 <2>8. CursorIsRight' BY <2>7 DEF CursorIsRight, Present
 <2> QED BY <2>6, <2>8
<1> QED BY <1>2, <1>3

\* lock_clust_rec_read_check_and_lock.
LEMMA ReadCheckAndLockKeeps ==
    ASSUME IInv, NEW t \in Trxs, NEW m, NEW g \in Gaps, NEW h, ReadCheckAndLock(t, m, g, h), UNCHANGED plan
    PROVE  IInv'
<1>1. ~ HasWaitLock(locks, t) /\ t # NoTrx /\ kernel = NoTrx /\ Active(t)
  BY WhoAsks DEF ReadCheckAndLock
<1>2. /\ Runs(t) /\ request = NoReq /\ m \in plan.reads
      /\ h \in Keys \cup Suprema /\ OnThePage(h)
      /\ h \in Suprema => g = "ORDINARY"
      /\ t \in plan.read_committed => g = "REC_NOT_GAP"
      /\ statements' = [statements EXCEPT ![t] = @ + 1]
      /\ error' = [error EXCEPT ![t] = "SUCCESS"]
      /\ UNCHANGED <<rows, tree, undo, conc_state, que_state, thr, chosen, expired, count>>
  BY DEF ReadCheckAndLock
<1>3. PICK s :
         /\ s = IF h \in Suprema THEN locks ELSE ConvertImplToExpl(locks, h)
         /\ Good(s, Place)
         /\ \A x : /\ HasLock(s, x) => HasLock(locks, x) \/ Active(x)
                   /\ HasWaitLock(s, x) <=> HasWaitLock(locks, x)
         /\ \A k \in Keys : Present(k) /\ Active(rows[k].by) =>
               Owns(s, rows[k].by, k) /\ (k = h => GrantedX(s, rows[k].by, k))
         /\ FewerWaits(locks, s)
  BY <1>2, ReadConverts
<1>4. m \in Modes BY <1>2, NamesAssumption DEF IInv, Types, PlanAssumption, Modes
<1>5. /\ h \in Heap /\ PageOf(h) \in Pages /\ Place[h] = PageOf(h)
      /\ t \in plan.read_committed => h \in Keys
      /\ h \in Suprema <=> h \notin Keys
 <2>1. ~ Stored(request) BY <1>2 DEF Stored
 <2>2. h \in Heap /\ PageOf(h) \in Pages /\ Place[h] = PageOf(h) BY <1>2, <2>1, OnThePageIs
 <2> QED BY <1>2, <2>2, HeapFacts
<1>6. PICK p : p = PageOf(h) OBVIOUS
<1>11. h \in Heap /\ p \in Pages /\ Place[h] = p /\ (h \in Suprema => g = "ORDINARY")
  BY <1>2, <1>5, <1>6
<1>14. PICK P : P = Place OBVIOUS
<1>12. Good(s, P) /\ P[h] = p BY <1>3, <1>11, <1>14
<1>13. \A x : HasWaitLock(s, x) <=> HasWaitLock(locks, x) BY <1>3
<1>7. t \in plan.read_committed /\ Active(t) /\ Present(h) /\ rows[h].by = t =>
         Locked(s, t, m, g, p, h) = s /\ RecLockGrants(s, t, m, g, p, h)
 <2> SUFFICES ASSUME t \in plan.read_committed, Active(t), Present(h), rows[h].by = t
              PROVE  Locked(s, t, m, g, p, h) = s /\ RecLockGrants(s, t, m, g, p, h)
   OBVIOUS
 <2>1. g = "REC_NOT_GAP" /\ h \in Keys BY <1>2, <1>5
 <2>2. GrantedX(s, t, h) BY <1>3, <2>1
 <2>3. /\ Locked(s, t, m, "REC_NOT_GAP", p, h) = s
       /\ RecLockGrants(s, t, m, "REC_NOT_GAP", p, h)
   BY <1>11, <1>12, <2>1, <2>2, RecLockAgain
 <2> QED BY <2>1, <2>3
<1>8. \A x, f : /\ x # t => ~ (f = h /\ ~ GrantedX(s, x, f))
                => (x = t \/ f # h \/ GrantedX(s, x, f))
  OBVIOUS
<1>9. CASE RecLockGrants(s, t, m, g, p, h)
 <2>1. /\ locks' = Locked(s, t, m, g, p, h)
       /\ ReadSeen(t, g, h)
       /\ SetCursor(t, m, h, locks' # s, FALSE)
       /\ UNCHANGED <<kernel, request>>
   BY <1>3, <1>6, <1>9 DEF ReadCheckAndLock, Locked
 <2>2. PICK u :
          /\ u = Locked(s, t, m, g, p, h)
          /\ Good(u, P)
          /\ \A x : /\ HasLock(u, x) => HasLock(s, x) \/ x = t
                    /\ HasWaitLock(u, x) <=> HasWaitLock(s, x)
          /\ \A x, f : Owns(s, x, f) /\ (x = t \/ f # h \/ GrantedX(s, x, f)) => Owns(u, x, f)
          /\ FewerWaits(s, u)
   BY <1>4, <1>9, <1>11, <1>12, RecLockKeeps
 <2>3. locks' = u BY <2>1, <2>2
 <2>4. /\ Good(locks', Place)
       /\ \A x : /\ HasLock(locks', x) => HasLock(locks, x) \/ Active(x)
                 /\ HasWaitLock(locks', x) <=> HasWaitLock(locks, x)
       /\ \A k \in Keys : Present(k) /\ Active(rows[k].by) => Owns(locks', rows[k].by, k)
   BY <1>1, <1>3, <1>14, <2>2, <2>3
 <2>8. FewerWaits(locks, locks') BY <1>3, <2>2, <2>3 DEF FewerWaits
 <2>5. cursor' \in [Trxs -> Cursor] /\ CursorIsRight'
  <3>1. PICK new \in BOOLEAN : new = (locks' # s) OBVIOUS
  <3>2. SetCursor(t, m, h, new, FALSE) BY <2>1, <3>1
  <3>3. t \in plan.read_committed /\ new /\ Active(t) /\ Present(h) => rows[h].by # t
    BY <1>7, <2>1, <3>1
  <3> QED BY <1>2, <1>5, <3>2, <3>3, CursorMoves
 <2>6. scanned' \in [Trxs -> SUBSET Keys]
  <3>1. SeenBy(g, h) \subseteq Keys BY DEF SeenBy, GapBefore
  <3>2. scanned' = scanned \/ scanned' = [scanned EXCEPT ![t] = @ \cup SeenBy(g, h)]
    BY <2>1 DEF ReadSeen
  <3> QED BY ZenonT(60), <3>1, <3>2 DEF IInv, Types
 <2>7. request' = NoReq /\ kernel' = NoTrx /\ RequestIsRight'
   BY <1>1, <1>2, <2>1 DEF RequestIsRight
 <2> QED BY <1>1, <1>2, <2>4, <2>5, <2>6, <2>7, <2>8, LockCheckKeeps
<1>10. CASE ~ RecLockGrants(s, t, m, g, p, h)
 <2>1. /\ EnqueueWaiting(s, t, m, g, FALSE, h)
       /\ SetCursor(t, m, h, TRUE, TRUE)
       /\ request' = [Operation(t, "READ", h) EXCEPT !.gap = g]
       /\ UNCHANGED scanned
   BY <1>3, <1>6, <1>10 DEF ReadCheckAndLock
 <2>5. ~ HasWaitLock(s, t) BY <1>1, <1>13
 <2>6. PICK u :
          /\ u = Waiting(s, t, m, g, p, h)
          /\ Good(u, P)
          /\ \A x : /\ HasLock(u, x) => HasLock(s, x) \/ x = t
                    /\ HasWaitLock(u, x) <=> HasWaitLock(s, x) \/ x = t
          /\ \A x, f : Owns(s, x, f) /\ (x = t \/ f # h \/ GrantedX(s, x, f)) => Owns(u, x, f)
          /\ h \notin Suprema /\ g # "GAP" /\ m = "X" => HasX(u, t, h)
          /\ \A x \in DOMAIN u : u[x].wait /\ u[x].trx = t => x = Len(u)
          /\ OnlyWaits(s, u, t)
   BY <1>4, <1>10, <1>11, <1>12, <2>5, WaitingKeeps
 <2>3. locks' = u /\ kernel' = t BY <1>6, <2>1, <2>6 DEF EnqueueWaiting, Waiting
 <2>7. /\ Good(locks', Place)
       /\ \A x : /\ HasLock(locks', x) => HasLock(locks, x) \/ Active(x)
                 /\ HasWaitLock(locks', x) <=> HasWaitLock(locks, x) \/ (kernel' = t /\ x = t)
       /\ \A x \in DOMAIN locks' : kernel' = t /\ locks'[x].wait /\ locks'[x].trx = t => x = Len(locks')
       /\ \A k \in Keys : Present(k) /\ Active(rows[k].by) => Owns(locks', rows[k].by, k)
   BY <1>1, <1>3, <1>14, <2>3, <2>6
 <2>4. OnlyWaits(locks, locks', t) BY <1>3, <2>3, <2>6 DEF FewerWaits, OnlyWaits
 <2>8. cursor' \in [Trxs -> Cursor] /\ CursorIsRight'
  <3>1. t \in plan.read_committed /\ TRUE /\ Active(t) /\ Present(h) => rows[h].by # t
    BY <1>7, <1>10
  <3> QED BY <1>2, <1>5, <2>1, <3>1, CursorMoves
 <2>9. scanned' \in [Trxs -> SUBSET Keys] BY <2>1 DEF IInv, Types
 <2>10. PICK q : q = request' OBVIOUS
 <2>11. q \in Request /\ q # NoReq /\ q.trx = t /\ q.op = "READ" /\ q.step = "CHECKED"
  <3>1. PICK o \in Request :
           /\ o = Operation(t, "READ", h)
           /\ o.trx = t /\ o.op = "READ" /\ o.key = h /\ o.step = "CHECKED" /\ o.page = PageOf(h)
    BY <1>2, OperationIs
  <3>2. q = [o EXCEPT !.gap = g] BY <2>1, <2>10, <3>1
  <3>3. q \in Request /\ q.trx = t /\ q.op = "READ" /\ q.step = "CHECKED"
    BY <3>1, <3>2 DEF Request
  <3> QED BY <3>3, NamesAssumption
 <2>12. /\ request' \in Request \cup {NoReq} /\ request'.step = "CHECKED" /\ RequestIsRight'
  <3>1. Active(t)' BY <1>1, <1>2 DEF Active
  <3>2. request'.op = "READ" /\ request'.trx = t /\ kernel' = t BY <2>3, <2>10, <2>11
  <3>3. RequestIsRight' BY <3>1, <3>2 DEF RequestIsRight
  <3> QED BY <2>10, <2>11, <3>3
 <2> QED BY <1>2, <2>3, <2>4, <2>7, <2>8, <2>9, <2>12, LockCheckKeeps
<1> QED BY <1>9, <1>10

\* The cursor after the lock check of a change: there is none.
LEMMA CursorGoes ==
    ASSUME IInv, NEW t \in Trxs, cursor' = [cursor EXCEPT ![t] = NoCursor], UNCHANGED <<rows, conc_state>>
    PROVE  cursor' \in [Trxs -> Cursor] /\ CursorIsRight' /\ ~ cursor'[t].new
<1>1. PICK c : c = NoCursor OBVIOUS
<1>2. c \in Cursor /\ ~ c.new BY <1>1, NoCursorType
<1>3. cursor \in [Trxs -> Cursor] BY DEF IInv, Types
<1>4. cursor' \in [Trxs -> Cursor] /\ \A x \in Trxs : cursor'[x] = IF x = t THEN c ELSE cursor[x]
  BY <1>1, <1>2, <1>3
<1>5. \A x \in Trxs : cursor'[x].new => cursor[x].new /\ cursor'[x].key = cursor[x].key
  BY <1>2, <1>4
<1>6. CursorIsRight' BY <1>5, CursorStays
<1> QED BY <1>2, <1>4, <1>6

\* What a request to change the record k has to be, granted or not.
LEMMA ModifyRequestIsRight ==
    ASSUME IInv, NEW t \in Trxs, NEW k \in Keys, Present(k), Active(t), t # NoTrx,
           NEW s, NEW q \in Request, q = request',
           q.trx = t, q.op = "MODIFY", q.key = k, q.step = "CHECKED", q.page = PageOf(k),
           UNCHANGED <<rows, tree, conc_state>>, ~ cursor'[t].new, locks' = s,
           \/ kernel' = t /\ HasX(s, t, k)
           \/ kernel' = NoTrx /\ Owns(s, t, k) /\ (Active(rows[k].by) => rows[k].by = t)
    PROVE  RequestIsRight'
<1>1. PageOf(k)' = PageOf(k) /\ Active(t)' /\ Present(k)' BY DEF PageOf, Active, Present
<1>2. \A x : Active(x)' <=> Active(x) BY DEF Active
<1>3. Active(rows[k].by)' => Active(rows[k].by) BY DEF Active
<1> QED BY <1>1, <1>3 DEF RequestIsRight

\* lock_clust_rec_modify_check_and_lock.
LEMMA ModifyCheckAndLockKeeps ==
    ASSUME IInv, NEW t \in Trxs, NEW k \in Keys, NEW del \in BOOLEAN, ModifyCheckAndLock(t, k, del),
           UNCHANGED plan
    PROVE  IInv'
<1>1. ~ HasWaitLock(locks, t) /\ t # NoTrx /\ kernel = NoTrx /\ Active(t)
  BY WhoAsks DEF ModifyCheckAndLock
<1>2. /\ Runs(t) /\ request = NoReq /\ Present(k)
      /\ statements' = [statements EXCEPT ![t] = @ + 1]
      /\ error' = [error EXCEPT ![t] = "SUCCESS"]
      /\ request' = [Operation(t, "MODIFY", k) EXCEPT !.del = del]
      /\ cursor' = [cursor EXCEPT ![t] = NoCursor]
      /\ UNCHANGED <<rows, tree, undo, scanned, conc_state, que_state, thr, chosen, expired, count>>
  BY DEF ModifyCheckAndLock, rowVars
<1>3. k \in Keys \cup Suprema /\ k \in Heap /\ k \notin Suprema /\ OnThePage(k)
  BY <1>2, HeapFacts, PageFacts
<1>4. PICK s :
         /\ s = IF k \in Suprema THEN locks ELSE ConvertImplToExpl(locks, k)
         /\ Good(s, Place)
         /\ \A x : /\ HasLock(s, x) => HasLock(locks, x) \/ Active(x)
                   /\ HasWaitLock(s, x) <=> HasWaitLock(locks, x)
         /\ \A j \in Keys : Present(j) /\ Active(rows[j].by) =>
               Owns(s, rows[j].by, j) /\ (j = k => GrantedX(s, rows[j].by, j))
         /\ FewerWaits(locks, s)
  BY <1>2, <1>3, ReadConverts
<1>5. s = ConvertImplToExpl(locks, k) BY <1>3, <1>4
<1>6. PICK P : P = Place OBVIOUS
<1>7. PICK p \in Pages : p = PageOf(k) /\ P[k] = p
 <2>1. ~ Stored(request) BY <1>2 DEF Stored
 <2> QED BY <1>3, <1>6, <2>1, OnThePageIs
<1>8. Good(s, P) /\ ~ HasWaitLock(s, t) BY <1>1, <1>4, <1>6
<1>9. PICK q : q = request' OBVIOUS
<1>10. q \in Request /\ q # NoReq /\ q.trx = t /\ q.op = "MODIFY" /\ q.key = k /\ q.step = "CHECKED"
       /\ q.page = PageOf(k)
 <2>1. PICK o \in Request :
          /\ o = Operation(t, "MODIFY", k)
          /\ o.trx = t /\ o.op = "MODIFY" /\ o.key = k /\ o.step = "CHECKED" /\ o.page = PageOf(k)
   BY <1>3, OperationIs
 <2>2. q = [o EXCEPT !.del = del] BY <1>2, <1>9, <2>1
 <2>3. q \in Request /\ q.trx = t /\ q.op = "MODIFY" /\ q.key = k /\ q.step = "CHECKED" /\ q.page = PageOf(k)
   BY <2>1, <2>2 DEF Request
 <2> QED BY <2>3, NamesAssumption
<1>11. cursor' \in [Trxs -> Cursor] /\ CursorIsRight' /\ ~ cursor'[t].new BY <1>2, CursorGoes
<1>12. scanned' \in [Trxs -> SUBSET Keys] BY <1>2 DEF IInv, Types
<1>13. request' \in Request \cup {NoReq} /\ request'.step = "CHECKED" BY <1>9, <1>10
<1>14. "X" \in Modes /\ "REC_NOT_GAP" \in Gaps BY DEF Modes, Gaps
<1>15. CASE RecLockGrants(s, t, "X", "REC_NOT_GAP", p, k)
 <2>1. locks' = s /\ kernel' = NoTrx
  <3>1. /\ locks' = RecLock(s, TRUE, t, "X", "REC_NOT_GAP", p, k)
        /\ UNCHANGED kernel
    BY <1>5, <1>7, <1>15 DEF ModifyCheckAndLock
  <3>2. RecLock(s, TRUE, t, "X", "REC_NOT_GAP", p, k) = s BY DEF RecLock, FastPath, SlowPath
  <3> QED BY <1>1, <3>1, <3>2
 <2>2. Owns(s, t, k) BY <1>7, <1>8, <1>15, ChangeOwns
 <2>3. Active(rows[k].by) => rows[k].by = t BY <1>2, <1>4, <2>2 DEF Owns, GrantedX
 <2>4. RequestIsRight' BY <1>1, <1>2, <1>9, <1>10, <1>11, <2>1, <2>2, <2>3, ModifyRequestIsRight
 <2>5. /\ Good(locks', Place)
       /\ \A x : /\ HasLock(locks', x) => HasLock(locks, x) \/ Active(x)
                 /\ HasWaitLock(locks', x) <=> HasWaitLock(locks, x)
       /\ \A j \in Keys : Present(j) /\ Active(rows[j].by) => Owns(locks', rows[j].by, j)
       /\ FewerWaits(locks, locks')
   BY <1>4, <2>1
 <2> QED BY <1>1, <1>2, <1>11, <1>12, <1>13, <2>1, <2>4, <2>5, LockCheckKeeps
<1>16. CASE ~ RecLockGrants(s, t, "X", "REC_NOT_GAP", p, k)
 <2>1. PICK u :
          /\ u = Waiting(s, t, "X", "REC_NOT_GAP", p, k)
          /\ Good(u, P)
          /\ \A x : /\ HasLock(u, x) => HasLock(s, x) \/ x = t
                    /\ HasWaitLock(u, x) <=> HasWaitLock(s, x) \/ x = t
          /\ \A x, f : Owns(s, x, f) /\ (x = t \/ f # k \/ GrantedX(s, x, f)) => Owns(u, x, f)
          /\ HasX(u, t, k)
          /\ \A x \in DOMAIN u : u[x].wait /\ u[x].trx = t => x = Len(u)
          /\ OnlyWaits(s, u, t)
   BY <1>3, <1>7, <1>8, <1>14, <1>16, WaitingKeeps
 <2>2. locks' = u /\ kernel' = t
  <3>1. EnqueueWaiting(s, t, "X", "REC_NOT_GAP", FALSE, k)
    BY <1>5, <1>7, <1>16 DEF ModifyCheckAndLock
  <3> QED BY <1>7, <2>1, <3>1 DEF EnqueueWaiting, Waiting
 <2>4. RequestIsRight' BY <1>1, <1>2, <1>9, <1>10, <1>11, <2>1, <2>2, ModifyRequestIsRight
 <2>5. /\ Good(locks', Place)
       /\ \A x : /\ HasLock(locks', x) => HasLock(locks, x) \/ Active(x)
                 /\ HasWaitLock(locks', x) <=> HasWaitLock(locks, x) \/ (kernel' = t /\ x = t)
       /\ \A x \in DOMAIN locks' : kernel' = t /\ locks'[x].wait /\ locks'[x].trx = t => x = Len(locks')
       /\ \A j \in Keys : Present(j) /\ Active(rows[j].by) => Owns(locks', rows[j].by, j)
   BY <1>1, <1>4, <1>6, <2>1, <2>2
 <2>6. OnlyWaits(locks, locks', t) BY <1>4, <2>1, <2>2 DEF FewerWaits, OnlyWaits
 <2> QED BY <1>1, <1>2, <1>11, <1>12, <1>13, <2>2, <2>4, <2>5, <2>6, LockCheckKeeps
<1> QED BY <1>15, <1>16

\* lock_rec_insert_check_and_lock.
LEMMA InsertCheckAndLockKeeps ==
    ASSUME IInv, NEW t \in Trxs, NEW k \in Keys, InsertCheckAndLock(t, k), UNCHANGED plan
    PROVE  IInv'
<1>1. ~ HasWaitLock(locks, t) /\ t # NoTrx /\ kernel = NoTrx /\ Active(t)
  BY WhoAsks DEF InsertCheckAndLock
<1>2. PICK n : n = NextOnPage(k) OBVIOUS
<1>3. PICK inherit \in BOOLEAN : inherit = (\E i \in DOMAIN locks : On(locks[i], n)) OBVIOUS
<1>4. /\ Runs(t) /\ request = NoReq /\ ~ Present(k)
      /\ statements' = [statements EXCEPT ![t] = @ + 1]
      /\ error' = [error EXCEPT ![t] = "SUCCESS"]
      /\ request' = [Operation(t, "INSERT", k) EXCEPT !.inherit = inherit]
      /\ cursor' = [cursor EXCEPT ![t] = NoCursor]
      /\ UNCHANGED <<rows, tree, undo, scanned, conc_state, que_state, thr, chosen, expired, count>>
  BY <1>2, <1>3 DEF InsertCheckAndLock, rowVars
<1>5. \/ /\ RecOtherHasConflicting(locks, t, "X", "GAP", TRUE, n)
         /\ EnqueueWaiting(locks, t, "X", "GAP", TRUE, n)
      \/ UNCHANGED <<locks, kernel>>
  BY <1>2 DEF InsertCheckAndLock
<1>6. PICK P : P = Place OBVIOUS
<1>7. n \in Keys \cup Suprema /\ n \in Heap /\ OnThePage(n) BY <1>2, NextIs
<1>8. PICK p \in Pages : p = PageOf(n) /\ P[n] = p
 <2>1. ~ Stored(request) BY <1>4 DEF Stored
 <2> QED BY <1>6, <1>7, <2>1, OnThePageIs
<1>9. PICK q : q = request' OBVIOUS
<1>10. q \in Request /\ q # NoReq /\ q.trx = t /\ q.op = "INSERT" /\ q.key = k /\ q.step = "CHECKED"
 <2>1. PICK o \in Request :
          /\ o = Operation(t, "INSERT", k)
          /\ o.trx = t /\ o.op = "INSERT" /\ o.key = k /\ o.step = "CHECKED" /\ o.page = PageOf(k)
   BY OperationIs
 <2>2. q = [o EXCEPT !.inherit = inherit] BY <1>4, <1>9, <2>1
 <2>3. q \in Request /\ q.trx = t /\ q.op = "INSERT" /\ q.key = k /\ q.step = "CHECKED"
   BY <2>1, <2>2 DEF Request
 <2> QED BY <2>3, NamesAssumption
<1>11. cursor' \in [Trxs -> Cursor] /\ CursorIsRight' /\ ~ cursor'[t].new BY <1>4, CursorGoes
<1>12. scanned' \in [Trxs -> SUBSET Keys] BY <1>4 DEF IInv, Types
<1>13. request' \in Request \cup {NoReq} /\ request'.step = "CHECKED" BY <1>9, <1>10
<1>14. RequestIsRight'
 <2>1. Active(t)' /\ ~ Present(k)' BY <1>1, <1>4 DEF Active, Present
 <2> QED BY <1>9, <1>10, <1>11, <2>1 DEF RequestIsRight
<1>15. Good(locks, P) /\ \A j \in Keys : Present(j) /\ Active(rows[j].by) => Owns(locks, rows[j].by, j)
  BY <1>6 DEF IInv, RowsAreRight
<1>16. CASE UNCHANGED <<locks, kernel>>
 <2>1. /\ Good(locks', Place) /\ kernel' = NoTrx
       /\ \A x : /\ HasLock(locks', x) => HasLock(locks, x) \/ Active(x)
                 /\ HasWaitLock(locks', x) <=> HasWaitLock(locks, x)
       /\ \A j \in Keys : Present(j) /\ Active(rows[j].by) => Owns(locks', rows[j].by, j)
   BY <1>1, <1>6, <1>15, <1>16
 <2>2. FewerWaits(locks, locks') BY <1>16 DEF FewerWaits
 <2> QED BY <1>1, <1>4, <1>11, <1>12, <1>13, <1>14, <2>1, <2>2, LockCheckKeeps
<1>17. CASE /\ RecOtherHasConflicting(locks, t, "X", "GAP", TRUE, n)
            /\ EnqueueWaiting(locks, t, "X", "GAP", TRUE, n)
 <2>4. InsertWaits(locks, t, n) BY <1>17 DEF InsertWaits
 <2>1. PICK u :
          /\ u = WaitingToInsert(locks, t, p, n)
          /\ Good(u, P)
          /\ \A x : /\ HasLock(u, x) => HasLock(locks, x) \/ x = t
                    /\ HasWaitLock(u, x) <=> HasWaitLock(locks, x) \/ x = t
          /\ \A x, f : Owns(locks, x, f) => Owns(u, x, f)
          /\ \A x \in DOMAIN u : u[x].wait /\ u[x].trx = t => x = Len(u)
          /\ OnlyWaits(locks, u, t)
   BY <1>1, <1>7, <1>8, <1>15, <2>4, WaitingToInsertKeeps
 <2>2. locks' = u /\ kernel' = t BY <1>8, <1>17, <2>1 DEF EnqueueWaiting, WaitingToInsert
 <2>3. /\ Good(locks', Place)
       /\ \A x : /\ HasLock(locks', x) => HasLock(locks, x) \/ Active(x)
                 /\ HasWaitLock(locks', x) <=> HasWaitLock(locks, x) \/ (kernel' = t /\ x = t)
       /\ \A x \in DOMAIN locks' : kernel' = t /\ locks'[x].wait /\ locks'[x].trx = t => x = Len(locks')
       /\ \A j \in Keys : Present(j) /\ Active(rows[j].by) => Owns(locks', rows[j].by, j)
       /\ OnlyWaits(locks, locks', t)
   BY <1>1, <1>6, <1>15, <2>1, <2>2
 <2> QED BY <1>1, <1>4, <1>11, <1>12, <1>13, <1>14, <2>2, <2>3, LockCheckKeeps
<1> QED BY <1>5, <1>16, <1>17

-----------------------------------------------------------------------------
(* Steps that change the index *)

\* The bits are where the index says after the step.
LEMMA GoodNext ==
    ASSUME NEW u, NEW Q, Good(u, Q), tree' \in Trees, request' \in Request \cup {NoReq},
           \A p \in Pages : Q[SupremumOf(p)] \in Pages => Q[SupremumOf(p)] = p /\ InTree(tree', p),
           \A k \in Keys : Q[k] \in Pages =>
               /\ rows'[k] # NoRow /\ ~ (Stored(request') /\ k = request'.key)
               /\ Q[k] = PageIn(tree', k),
           \A p \in Pages : Q[InfimumOf(p)] \in Pages =>
               Q[InfimumOf(p)] = p /\ Stored(request') /\ p = request'.page
    PROVE  Good(u, Place')
<1>1. PICK T \in Trees : T = tree' OBVIOUS
<1>2. PICK q \in Request \cup {NoReq} : q = request' OBVIOUS
<1>3. PICK W : W = rows' OBVIOUS
<1>4. PICK R : R = PlaceOf(T, W, q) OBVIOUS
<1>5. Place' = R BY <1>1, <1>2, <1>3, <1>4 DEF Place
<1>6. /\ \A p \in Pages : R[SupremumOf(p)] = IF InTree(T, p) THEN p ELSE NoPage
      /\ \A k \in Keys : R[k] = IF W[k] # NoRow /\ ~ (Stored(q) /\ k = q.key)
                                THEN PageIn(T, k) ELSE NoPage
      /\ \A p \in Pages : R[InfimumOf(p)] = IF Stored(q) /\ p = q.page THEN p ELSE NoPage
  BY <1>4, PlaceIs
<1>7. \A p \in Pages : /\ Q[SupremumOf(p)] \in Pages => R[SupremumOf(p)] = Q[SupremumOf(p)]
                       /\ Q[InfimumOf(p)] \in Pages => R[InfimumOf(p)] = Q[InfimumOf(p)]
  BY <1>1, <1>2, <1>6
<1>8. \A k \in Keys : Q[k] \in Pages => R[k] = Q[k] BY <1>1, <1>2, <1>3, <1>6
<1>9. \A h \in Heap : Q[h] \in Pages => R[h] = Q[h] BY <1>7, <1>8, HeapIs
<1> QED BY <1>5, <1>9, GoodElsewhere

\* What is left to show of a step that changes the index.
LEMMA IndexStepKeeps ==
    ASSUME IInv, kernel = NoTrx,
           UNCHANGED <<plan, conc_state, thr, chosen, expired, error, kernel, count, statements, scanned>>,
           NobodyNew(locks, locks'), Good(locks', Place'),
           EndLockWaits(locks') \/ (que_state' = que_state /\ AllStillWait(locks, locks')),
           rows' \in [Keys -> Row \cup {NoRow}], tree' \in Trees,
           undo' \in [Trxs -> Seq([key : Keys, old : Row \cup {NoRow}])],
           request' \in Request \cup {NoReq}, cursor' \in [Trxs -> Cursor],
           RequestIsRight', RowsAreRight', UndoIsRight', CursorIsRight'
    PROVE  IInv'
<1>1. locks' \in Seq(LockStruct) BY DEF Good
<1>2. Types'
 <2>1. cursor' \in [Trxs -> Cursor]' BY DEF Cursor
 <2>2. que_state' \in [Trxs -> {"RUNNING", "LOCK_WAIT"}] BY DEF IInv, Types, EndLockWaits
 <2> QED BY <2>1, <2>2 DEF IInv, Types
<1>3. ~ Active(kernel') BY NamesAssumption DEF Active
<1>4. CASE EndLockWaits(locks')
 <2>1. \A i \in DOMAIN locks' : locks'[i].wait =>
          /\ kernel' = locks'[i].trx => i = Len(locks')
          /\ kernel' # locks'[i].trx => kernel # locks'[i].trx
  <3> SUFFICES ASSUME NEW i \in DOMAIN locks' PROVE kernel # locks'[i].trx OBVIOUS
  <3> QED BY <1>1, NewLocksAre, NamesAssumption
 <2>2. WaitsAreRight' BY <1>1, <1>3, <1>4, <2>1, WaitsEnd
 <2> QED BY <1>2, <2>2 DEF IInv
<1>5. CASE que_state' = que_state /\ AllStillWait(locks, locks')
 <2>1. /\ \A x : HasWaitLock(locks', x) => HasWaitLock(locks, x)
       /\ \A x : HasLock(locks', x) => HasLock(locks, x)
   BY DEF NobodyNew
 <2>2. kernel' = NoTrx /\ OnlyWaits(locks, locks', kernel')
   BY DEF NobodyNew, FewerWaits, OnlyWaits
 <2>3. WaitsAreRight' BY <1>1, <1>5, <2>1, <2>2, WaitsGoOn
 <2> QED BY <1>2, <2>3 DEF IInv
<1> QED BY <1>4, <1>5

\* An element of a sequence.
LEMMA ElementIs ==
    ASSUME NEW S, NEW w \in Seq(S), NEW n \in DOMAIN w
    PROVE  w[n] \in S
  OBVIOUS

\* Empty undo logs have nothing to be said of.
LEMMA UndoLogsAre ==
    ASSUME ASSUME NEW x \in Trxs, undo'[x] # <<>>
           PROVE  /\ conc_state'[x] = "ACTIVE"
                  /\ \A n \in DOMAIN undo'[x] :
                        LET u == undo'[x][n]
                        IN  /\ rows'[u.key] # NoRow /\ rows'[u.key].by = x
                            /\ u.old # NoRow /\ u.old.by \in Trxs /\ conc_state'[u.old.by] = "ACTIVE"
                               => u.old.by = x
                            /\ \A m \in DOMAIN undo'[x] : m > n /\ undo'[x][m].key = u.key =>
                                  undo'[x][m].old # NoRow /\ undo'[x][m].old.by = x
    PROVE  UndoIsRight'
  BY DEF UndoIsRight, Present, Active

\* The undo log and the cursors after a row has been changed.
LEMMA RowChanges ==
    ASSUME IInv, NEW t \in Trxs, NEW k \in Keys, NEW r \in Row, r.by = t, Active(t), ~ cursor[t].new,
           Present(k) /\ Active(rows[k].by) => rows[k].by = t,
           NEW e, e = [key |-> k, old |-> rows[k]],
           rows' = [rows EXCEPT ![k] = r], undo' = [undo EXCEPT ![t] = Append(@, e)],
           UNCHANGED <<conc_state, cursor>>
    PROVE  /\ rows' \in [Keys -> Row \cup {NoRow}]
           /\ undo' \in [Trxs -> Seq([key : Keys, old : Row \cup {NoRow}])]
           /\ \A j \in Keys : rows'[j] = IF j = k THEN r ELSE rows[j]
           /\ UndoIsRight'
           /\ CursorIsRight'
<1>1. /\ rows \in [Keys -> Row \cup {NoRow}]
      /\ undo \in [Trxs -> Seq([key : Keys, old : Row \cup {NoRow}])]
  BY DEF IInv, Types
<1>2. /\ rows' \in [Keys -> Row \cup {NoRow}]
      /\ \A j \in Keys : rows'[j] = IF j = k THEN r ELSE rows[j]
  BY <1>1
<1>3. r # NoRow BY NamesAssumption
<1>4. PICK z : z = undo[t] OBVIOUS
<1>5. z \in Seq([key : Keys, old : Row \cup {NoRow}]) BY <1>1, <1>4
<1>6. e \in [key : Keys, old : Row \cup {NoRow}] /\ e.key = k /\ e.old = rows[k] BY <1>1
<1>7. PICK y : y = Append(z, e) OBVIOUS
<1>8. y \in Seq([key : Keys, old : Row \cup {NoRow}]) BY <1>5, <1>6, <1>7
<1>9. /\ Len(z) \in Nat /\ DOMAIN z = 1 .. Len(z) /\ DOMAIN y = 1 .. (Len(z) + 1)
      /\ \A n \in DOMAIN z : y[n] = z[n]
      /\ y[Len(z) + 1] = e
  BY <1>5, <1>6, <1>7
<1>10. \A n \in DOMAIN y : n \in DOMAIN z \/ n = Len(z) + 1 BY <1>9
<1>11. undo' \in [Trxs -> Seq([key : Keys, old : Row \cup {NoRow}])]
       /\ \A x \in Trxs : undo'[x] = IF x = t THEN y ELSE undo[x]
  BY <1>1, <1>4, <1>7, <1>8
<1>12. ASSUME NEW x \in Trxs, undo'[x] # <<>>
       PROVE  /\ conc_state'[x] = "ACTIVE"
              /\ \A n \in DOMAIN undo'[x] :
                    LET u == undo'[x][n]
                    IN  /\ rows'[u.key] # NoRow /\ rows'[u.key].by = x
                        /\ u.old # NoRow /\ u.old.by \in Trxs /\ conc_state'[u.old.by] = "ACTIVE"
                           => u.old.by = x
                        /\ \A m \in DOMAIN undo'[x] : m > n /\ undo'[x][m].key = u.key =>
                              undo'[x][m].old # NoRow /\ undo'[x][m].old.by = x
 <2>1. CASE x # t
  <3>1. PICK w : w = undo[x] OBVIOUS
  <3>2. undo'[x] = w /\ w # <<>> /\ conc_state[x] = "ACTIVE" /\ Active(x) /\ conc_state' = conc_state
    BY <1>11, <1>12, <2>1, <3>1 DEF IInv, UndoIsRight, Active
  <3>3. \A n \in DOMAIN w : /\ Present(w[n].key) /\ rows[w[n].key].by = x
                            /\ w[n].old # NoRow /\ Active(w[n].old.by) => w[n].old.by = x
                            /\ \A m \in DOMAIN w : m > n /\ w[m].key = w[n].key =>
                                  w[m].old # NoRow /\ w[m].old.by = x
    BY <3>1 DEF IInv, UndoIsRight
  <3>4. \A n \in DOMAIN w : w[n].key \in Keys /\ w[n].key # k
   <4>1. w \in Seq([key : Keys, old : Row \cup {NoRow}]) BY <1>1, <3>1
   <4>2. \A n \in DOMAIN w : w[n].key \in Keys
    <5> SUFFICES ASSUME NEW n \in DOMAIN w PROVE w[n].key \in Keys OBVIOUS
    <5>1. w[n] \in [key : Keys, old : Row \cup {NoRow}] BY <4>1, ElementIs
    <5> QED BY <5>1
   <4>3. ~ (Present(k) /\ rows[k].by = x) BY <2>1, <3>2
   <4> QED BY <3>3, <4>2, <4>3
  <3>5. \A n \in DOMAIN w : rows'[w[n].key] # NoRow /\ rows'[w[n].key].by = x
    BY <1>2, <3>3, <3>4 DEF Present
  <3> QED BY <3>2, <3>3, <3>5 DEF Active
 <2>2. CASE x = t
  <3>1. undo'[x] = y /\ conc_state'[x] = "ACTIVE" BY <1>11, <2>2 DEF Active
  <3>2. \A n \in DOMAIN z : /\ Present(z[n].key) /\ rows[z[n].key].by = t
                            /\ z[n].old # NoRow /\ Active(z[n].old.by) => z[n].old.by = t
                            /\ \A m \in DOMAIN z : m > n /\ z[m].key = z[n].key =>
                                  z[m].old # NoRow /\ z[m].old.by = t
    BY <1>4 DEF IInv, UndoIsRight
  <3>3. \A n \in DOMAIN z : z[n].key \in Keys
   <4> SUFFICES ASSUME NEW n \in DOMAIN z PROVE z[n].key \in Keys OBVIOUS
   <4>1. z[n] \in [key : Keys, old : Row \cup {NoRow}] BY <1>5, ElementIs
   <4> QED BY <4>1
  <3>4. \A n \in DOMAIN y : rows'[y[n].key] # NoRow /\ rows'[y[n].key].by = t
   <4>1. \A n \in DOMAIN z : rows'[y[n].key] # NoRow /\ rows'[y[n].key].by = t
     BY <1>2, <1>3, <1>9, <3>2, <3>3 DEF Present
   <4>2. rows'[e.key] # NoRow /\ rows'[e.key].by = t BY <1>2, <1>3, <1>6
   <4> QED BY <1>9, <1>10, <4>1, <4>2
  <3>5. \A n \in DOMAIN y : y[n].old # NoRow /\ Active(y[n].old.by) => y[n].old.by = t
   <4>1. e.old # NoRow /\ Active(e.old.by) => e.old.by = t BY <1>6 DEF Present
   <4> QED BY <1>9, <1>10, <3>2, <4>1
  <3>6. \A n, m \in DOMAIN y : m > n /\ y[m].key = y[n].key => y[m].old # NoRow /\ y[m].old.by = t
   <4> SUFFICES ASSUME NEW n \in DOMAIN y, NEW m \in DOMAIN y, m > n, y[m].key = y[n].key
                PROVE  y[m].old # NoRow /\ y[m].old.by = t
     OBVIOUS
   <4>1. n \in DOMAIN z /\ y[n] = z[n] BY <1>9
   <4>2. CASE m \in DOMAIN z BY <1>9, <3>2, <4>1, <4>2
   <4>3. CASE m = Len(z) + 1 BY <1>6, <1>9, <3>2, <4>1, <4>3 DEF Present
   <4> QED BY <1>10, <4>2, <4>3
  <3> QED BY <2>2, <3>1, <3>4, <3>5, <3>6 DEF Active
 <2> QED BY Zenon, <2>1, <2>2
<1>13. UndoIsRight' BY <1>12, UndoLogsAre
<1>14. CursorIsRight'
 <2> SUFFICES ASSUME NEW x \in Trxs, conc_state'[x] = "ACTIVE" /\ cursor'[x].new
              PROVE  /\ cursor'[x].key \in Keys
                     /\ rows'[cursor'[x].key] # NoRow => rows'[cursor'[x].key].by # x
   BY DEF CursorIsRight, Present
 <2>1. x # t /\ cursor[x].new /\ conc_state[x] = "ACTIVE" /\ cursor' = cursor OBVIOUS
 <2>2. cursor[x].key \in Keys /\ (rows[cursor[x].key] # NoRow => rows[cursor[x].key].by # x)
   BY <2>1 DEF IInv, CursorIsRight, Present
 <2> QED BY <1>2, <2>1, <2>2
<1> QED BY <1>2, <1>11, <1>13, <1>14

\* The implicit locks after the record k has been changed by t.
LEMMA OwnersGoOn ==
    ASSUME IInv, NEW k \in Keys, NEW r,
           \A j \in Keys : rows'[j] = IF j = k THEN r ELSE rows[j], UNCHANGED conc_state,
           \A j \in Keys : j # k => \A x : Owns(locks, x, j) => Owns(locks', x, j),
           r # NoRow /\ Active(r.by) => Owns(locks', r.by, k)
    PROVE  RowsAreRight'
<1> SUFFICES ASSUME NEW j \in Keys, rows'[j] # NoRow, rows'[j].by \in Trxs, conc_state'[rows'[j].by] = "ACTIVE"
             PROVE  Owns(locks', rows'[j].by, j)
  BY DEF RowsAreRight, Present, Active
<1>1. CASE j = k BY <1>1 DEF Active
<1>2. CASE j # k
 <2>1. rows'[j] = rows[j] /\ Present(j) /\ Active(rows[j].by) BY <1>2 DEF Active, Present
 <2> QED BY <1>2, <2>1 DEF IInv, RowsAreRight
<1> QED BY <1>1, <1>2

\* What a row operation finds when it goes on.
LEMMA WriterIs ==
    ASSUME IInv, NEW t \in Trxs, NEW op, Writes(t, op), op \in {"INSERT", "MODIFY"}
    PROVE  /\ request \in Request /\ request # NoReq /\ request.trx = t /\ request.op = op
           /\ kernel = NoTrx /\ t # NoTrx /\ Active(t) /\ ~ cursor[t].new
           /\ request.key \in Keys /\ request.key \in Heap
           /\ op = "INSERT" => ~ Present(request.key) /\ ~ Stored(request)
           /\ op = "MODIFY" => /\ Present(request.key)
                               /\ Active(rows[request.key].by) => rows[request.key].by = t
                               /\ request.step # "SPLIT" => request.page = PageOf(request.key)
                               /\ request.step = "CHECKED" => Owns(locks, t, request.key)
                               /\ request.step # "CHECKED" => Owns(locks, t, InfimumOf(request.page))
<1>1. request # NoReq /\ request.trx = t /\ request.op = op /\ kernel = NoTrx /\ t # NoTrx
  BY NamesAssumption DEF Writes, Latches
<1>2. request \in Request BY <1>1 DEF IInv, Types
<1> QED BY <1>1, <1>2, HeapFacts DEF IInv, RequestIsRight, Stored

\* The row as ChangeRow leaves it.
LEMMA RowAfter ==
    ASSUME IInv, NEW t \in Trxs, NEW op, Writes(t, op), op \in {"INSERT", "MODIFY"}, ChangeRow(t),
           UNCHANGED <<conc_state, cursor>>
    PROVE  \E r \in Row :
              /\ r.by = t /\ r # NoRow
              /\ rows' \in [Keys -> Row \cup {NoRow}]
              /\ undo' \in [Trxs -> Seq([key : Keys, old : Row \cup {NoRow}])]
              /\ \A j \in Keys : rows'[j] = IF j = request.key THEN r ELSE rows[j]
              /\ UndoIsRight'
              /\ CursorIsRight'
<1>1. /\ request \in Request /\ request.key \in Keys /\ Active(t) /\ ~ cursor[t].new
      /\ Present(request.key) /\ Active(rows[request.key].by) => rows[request.key].by = t
  BY WriterIs
<1>2. PICK k \in Keys : k = request.key BY <1>1
<1>3. PICK d \in BOOLEAN : d = request.del BY <1>1 DEF Request
<1>4. PICK r : r = [by |-> t, del |-> d] OBVIOUS
<1>5. r \in Row /\ r.by = t BY <1>4 DEF Row
<1>6. PICK e : e = [key |-> k, old |-> rows[k]] OBVIOUS
<1>7. rows' = [rows EXCEPT ![k] = r] /\ undo' = [undo EXCEPT ![t] = Append(@, e)]
  BY <1>2, <1>3, <1>4, <1>6 DEF ChangeRow
<1>8. Present(k) /\ Active(rows[k].by) => rows[k].by = t BY <1>1, <1>2
<1>9. rows' \in [Keys -> Row \cup {NoRow}] BY <1>1, <1>5, <1>6, <1>7, <1>8, RowChanges
<1>10. undo' \in [Trxs -> Seq([key : Keys, old : Row \cup {NoRow}])]
  BY <1>1, <1>5, <1>6, <1>7, <1>8, RowChanges
<1>11. \A j \in Keys : rows'[j] = IF j = k THEN r ELSE rows[j]
  BY <1>1, <1>5, <1>6, <1>7, <1>8, RowChanges
<1>12. UndoIsRight' /\ CursorIsRight' BY <1>1, <1>5, <1>6, <1>7, <1>8, RowChanges
<1>13. r # NoRow BY <1>5, NamesAssumption
<1> QED BY <1>2, <1>5, <1>9, <1>10, <1>11, <1>12, <1>13

\* The page may be reorganised.
LEMMA MakeRoomKeeps ==
    ASSUME IInv, NEW p \in Pages, NEW s \in MakeRoom(p)
    PROVE  Keeps(locks, s, Place) /\ Good(s, Place) /\ AllStillWait(locks, s)
<1>1. Place \in Places /\ Good(locks, Place) BY PlaceFacts DEF IInv
<1>2. CASE s = locks BY <1>1, <1>2, KeepsItself
<1>3. CASE s # locks
 <2>1. s = MoveReorganizePage(locks, p) BY <1>3 DEF MakeRoom
 <2>2. Keeps(locks, s, Place) /\ AllStillWait(locks, s) BY <1>1, <2>1, ReorganizeIsKept
 <2> QED BY <2>2 DEF Keeps
<1> QED BY <1>2, <1>3

\* The record is inserted, and inherits the gap locks of its successor.
LEMMA InsertKeeps ==
    ASSUME IInv, NEW t \in Trxs, Insert(t), UNCHANGED plan
    PROVE  IInv'
<1>1. /\ Writes(t, "INSERT") /\ ChangeRow(t) /\ request' = NoReq
      /\ UNCHANGED <<que_state, thr, chosen, expired, error, tree, conc_state, kernel, count, cursor,
                     statements, scanned>>
  BY DEF Insert, waitVars
<1>2. PICK k \in Keys : k = request.key BY <1>1, WriterIs
<1>3. kernel = NoTrx /\ t # NoTrx /\ ~ Present(k) /\ k \in Heap /\ ~ Stored(request) /\ Active(t)
  BY <1>1, <1>2, WriterIs
<1>4. PICK r \in Row :
         /\ r.by = t /\ r # NoRow
         /\ rows' \in [Keys -> Row \cup {NoRow}]
         /\ undo' \in [Trxs -> Seq([key : Keys, old : Row \cup {NoRow}])]
         /\ \A j \in Keys : rows'[j] = IF j = k THEN r ELSE rows[j]
         /\ UndoIsRight'
         /\ CursorIsRight'
 <2>1. UNCHANGED <<conc_state, cursor>> /\ "INSERT" \in {"INSERT", "MODIFY"} BY <1>1
 <2>2. \E r \in Row :
          /\ r.by = t /\ r # NoRow
          /\ rows' \in [Keys -> Row \cup {NoRow}]
          /\ undo' \in [Trxs -> Seq([key : Keys, old : Row \cup {NoRow}])]
          /\ \A j \in Keys : rows'[j] = IF j = request.key THEN r ELSE rows[j]
          /\ UndoIsRight'
          /\ CursorIsRight'
   BY <1>1, <2>1, RowAfter
 <2> QED BY <1>2, <2>2
<1>5. PICK p \in Pages : p = PageOf(k) /\ p = PageIn(tree, k) BY PageFacts
<1>6. PICK s \in MakeRoom(p) :
         locks' = IF request.inherit \/ request.step = "SPLIT"
                  THEN UpdateInsert(s, p, k, NextOnPage(k)) ELSE s
  BY <1>2, <1>5 DEF Insert
<1>7. Keeps(locks, s, Place) /\ Good(s, Place) /\ AllStillWait(locks, s) BY MakeRoomKeeps
<1>8. PICK P \in Places :
         /\ P = Place
         /\ \A g \in Pages : P[SupremumOf(g)] = IF InTree(tree, g) THEN g ELSE NoPage
         /\ \A j \in Keys : P[j] = IF Present(j) THEN PageIn(tree, j) ELSE NoPage
         /\ \A g \in Pages : P[InfimumOf(g)] = NoPage
  BY <1>3, PlaceFacts, PageFacts
<1>9. \E Q \in Places : /\ Keeps(locks, locks', Q) /\ Good(locks', Q) /\ AllStillWait(locks, locks')
                        /\ \A g \in Heap : g # k => Q[g] = P[g]
                        /\ Q[k] \in {NoPage, p}
 <2>1. CASE locks' = s BY <1>3, <1>7, <1>8, <2>1
 <2>2. CASE locks' = UpdateInsert(s, p, k, NextOnPage(k))
  <3>1. PICK n : n = NextOnPage(k) OBVIOUS
  <3>2. PICK donors : donors = GapDonors(s, n) OBVIOUS
  <3>3. PICK u : u = InheritToGap(s, donors, p, k) OBVIOUS
  <3>4. locks' = u BY <2>2, <3>1, <3>2, <3>3 DEF UpdateInsert
  <3>5. donors \subseteq DOMAIN s BY <3>2, DonorsAreThere
  <3>6. P[k] \in {NoPage, p} /\ Good(s, P) BY <1>3, <1>7, <1>8
  <3>7. \E Q \in Places : /\ Keeps(s, u, Q) /\ Good(u, Q) /\ AllStillWait(s, u)
                          /\ \A g \in Heap : Q[g] = IF g = k THEN p ELSE P[g]
    BY <1>3, <3>3, <3>5, <3>6, HeirInherits
  <3>8. PICK Q \in Places : /\ Keeps(s, u, Q) /\ Good(u, Q) /\ AllStillWait(s, u)
                            /\ \A g \in Heap : Q[g] = IF g = k THEN p ELSE P[g]
    BY <3>7
  <3>9. Keeps(locks, u, Q) /\ AllStillWait(locks, u) BY <1>7, <3>8, KeepsOn
  <3> QED BY <1>3, <3>4, <3>8, <3>9
 <2> QED BY <1>6, <2>1, <2>2
<1>10. PICK Q \in Places : /\ Keeps(locks, locks', Q) /\ Good(locks', Q) /\ AllStillWait(locks, locks')
                           /\ \A g \in Heap : g # k => Q[g] = P[g]
                           /\ Q[k] \in {NoPage, p}
  BY <1>9
<1>11. request' \in Request \cup {NoReq} /\ tree' \in Trees /\ cursor' \in [Trxs -> Cursor]
       /\ ~ Stored(request') /\ tree' = tree
  BY <1>1 DEF IInv, Types, Stored
<1>12. Good(locks', Place')
 <2>1. \A g \in Pages : Q[SupremumOf(g)] \in Pages => Q[SupremumOf(g)] = g /\ InTree(tree', g)
   BY <1>8, <1>10, <1>11, HeapFacts
 <2>2. \A j \in Keys : Q[j] \in Pages =>
          rows'[j] # NoRow /\ ~ (Stored(request') /\ j = request'.key) /\ Q[j] = PageIn(tree', j)
   BY <1>4, <1>5, <1>8, <1>10, <1>11, HeapFacts DEF Present
 <2>3. \A g \in Pages : Q[InfimumOf(g)] \in Pages =>
          Q[InfimumOf(g)] = g /\ Stored(request') /\ g = request'.page
   BY <1>8, <1>10, <1>11, HeapFacts
 <2> QED BY <1>10, <1>11, <2>1, <2>2, <2>3, GoodNext
<1>13. RowsAreRight'
 <2>1. \A j \in Keys : \A x : Owns(locks, x, j) => Owns(locks', x, j) BY <1>10, HeapFacts DEF Keeps
 <2>2. Owns(locks, t, k)
  <3>1. Good(locks, P) /\ P[k] = NoPage BY <1>3, <1>8 DEF IInv
  <3> QED BY <3>1, NoPageIsOwned
 <2> QED BY <1>1, <1>4, <2>1, <2>2, OwnersGoOn
<1>14. NobodyNew(locks, locks') BY <1>10 DEF Keeps
<1>15. RequestIsRight' BY <1>1 DEF RequestIsRight
<1> QED BY <1>1, <1>3, <1>4, <1>10, <1>11, <1>12, <1>13, <1>14, <1>15, IndexStepKeeps

\* The record is changed where it is.
LEMMA UpdateInPlaceKeeps ==
    ASSUME IInv, NEW t \in Trxs, UpdateInPlace(t), UNCHANGED plan
    PROVE  IInv'
<1>1. /\ Writes(t, "MODIFY") /\ request.step = "CHECKED" /\ ChangeRow(t) /\ request' = NoReq
      /\ UNCHANGED <<locks, que_state, thr, chosen, expired, error, tree, conc_state, kernel, count,
                     cursor, statements, scanned>>
  BY DEF UpdateInPlace, waitVars
<1>2. PICK k \in Keys : k = request.key BY <1>1, WriterIs
<1>3. kernel = NoTrx /\ t # NoTrx /\ Present(k) /\ Owns(locks, t, k) /\ ~ Stored(request)
  BY <1>1, <1>2, WriterIs DEF Stored
<1>4. PICK r \in Row :
         /\ r.by = t /\ r # NoRow
         /\ rows' \in [Keys -> Row \cup {NoRow}]
         /\ undo' \in [Trxs -> Seq([key : Keys, old : Row \cup {NoRow}])]
         /\ \A j \in Keys : rows'[j] = IF j = k THEN r ELSE rows[j]
         /\ UndoIsRight'
         /\ CursorIsRight'
 <2>1. UNCHANGED <<conc_state, cursor>> /\ "MODIFY" \in {"INSERT", "MODIFY"} BY <1>1
 <2>2. \E r \in Row :
          /\ r.by = t /\ r # NoRow
          /\ rows' \in [Keys -> Row \cup {NoRow}]
          /\ undo' \in [Trxs -> Seq([key : Keys, old : Row \cup {NoRow}])]
          /\ \A j \in Keys : rows'[j] = IF j = request.key THEN r ELSE rows[j]
          /\ UndoIsRight'
          /\ CursorIsRight'
   BY <1>1, <2>1, RowAfter
 <2> QED BY <1>2, <2>2
<1>5. PICK P \in Places :
         /\ P = Place
         /\ \A g \in Pages : P[SupremumOf(g)] = IF InTree(tree, g) THEN g ELSE NoPage
         /\ \A j \in Keys : P[j] = IF Present(j) THEN PageIn(tree, j) ELSE NoPage
         /\ \A g \in Pages : P[InfimumOf(g)] = NoPage
  BY <1>3, PlaceFacts, PageFacts
<1>6. request' \in Request \cup {NoReq} /\ tree' \in Trees /\ cursor' \in [Trxs -> Cursor]
      /\ ~ Stored(request') /\ tree' = tree
  BY <1>1 DEF IInv, Types, Stored
<1>7. Good(locks', Place')
 <2>1. \A g \in Pages : P[SupremumOf(g)] \in Pages => P[SupremumOf(g)] = g /\ InTree(tree', g)
   BY <1>5, <1>6, HeapFacts
 <2>2. \A j \in Keys : P[j] \in Pages =>
          rows'[j] # NoRow /\ ~ (Stored(request') /\ j = request'.key) /\ P[j] = PageIn(tree', j)
   BY <1>4, <1>5, <1>6, HeapFacts DEF Present
 <2>3. \A g \in Pages : P[InfimumOf(g)] \in Pages =>
          P[InfimumOf(g)] = g /\ Stored(request') /\ g = request'.page
   BY <1>5, HeapFacts
 <2>4. Good(locks', P) BY <1>1, <1>5 DEF IInv
 <2> QED BY <1>6, <2>1, <2>2, <2>3, <2>4, GoodNext
<1>8. RowsAreRight' BY <1>1, <1>3, <1>4, OwnersGoOn
<1>9. NobodyNew(locks, locks') /\ AllStillWait(locks, locks') BY <1>1 DEF NobodyNew, FewerWaits, AllStillWait
<1>10. RequestIsRight' BY <1>1 DEF RequestIsRight
<1> QED BY <1>1, <1>3, <1>4, <1>6, <1>7, <1>8, <1>9, <1>10, IndexStepKeeps

\* The record leaves its page, and its bits go to the infimum.
LEMMA StoreOnPageInfimumKeeps ==
    ASSUME IInv, NEW t \in Trxs, StoreOnPageInfimum(t), UNCHANGED plan
    PROVE  IInv'
<1>1. /\ Writes(t, "MODIFY") /\ request.step = "CHECKED"
      /\ UNCHANGED <<que_state, thr, chosen, expired, error, rows, tree, undo, scanned, conc_state, kernel,
                     count, cursor, statements>>
  BY DEF StoreOnPageInfimum, waitVars, rowVars
<1>2. PICK k \in Keys : k = request.key BY <1>1, WriterIs
<1>3. /\ kernel = NoTrx /\ t # NoTrx /\ Present(k) /\ Owns(locks, t, k) /\ Active(t) /\ k \in Heap
      /\ ~ cursor[t].new /\ request \in Request /\ request # NoReq /\ request.trx = t
      /\ request.op = "MODIFY" /\ request.page = PageOf(k) /\ ~ Stored(request)
      /\ Active(rows[k].by) => rows[k].by = t
  BY <1>1, <1>2, WriterIs DEF Stored
<1>4. PICK p \in Pages : p = PageOf(k) /\ p = PageIn(tree, k) BY PageFacts
<1>5. PICK b \in BOOLEAN : b = (\A j \in RecordsOf(p) : k <= j) OBVIOUS
<1>6. locks' = RecMove(locks, p, k, p, InfimumOf(p)) /\ request' = [request EXCEPT !.step = "STORED", !.first = b]
  BY <1>2, <1>4, <1>5 DEF StoreOnPageInfimum
<1>7. PICK q : q = request' OBVIOUS
<1>8. /\ q \in Request /\ q.step = "STORED" /\ q.trx = t /\ q.op = "MODIFY" /\ q.key = k /\ q.page = p
      /\ q # NoReq /\ Stored(q)
 <2>1. q \in Request /\ q.step = "STORED" /\ q.trx = t /\ q.op = "MODIFY" /\ q.key = k /\ q.page = p
   BY <1>2, <1>3, <1>4, <1>6, <1>7 DEF Request
 <2> QED BY <2>1, NamesAssumption DEF Stored
<1>9. PICK P \in Places :
         /\ P = Place
         /\ \A g \in Pages : P[SupremumOf(g)] = IF InTree(tree, g) THEN g ELSE NoPage
         /\ \A j \in Keys : P[j] = IF Present(j) THEN PageIn(tree, j) ELSE NoPage
         /\ \A g \in Pages : P[InfimumOf(g)] = NoPage
  BY <1>3, PlaceFacts, PageFacts
<1>10. PICK f \in Heap : f = InfimumOf(p) /\ f \notin Suprema /\ f \notin Keys /\ k \notin Suprema
  BY HeapFacts
<1>11. PICK u : u = RecMove(locks, p, k, p, f) OBVIOUS
<1>12. PICK Q : Q = [P EXCEPT ![k] = NoPage, ![f] = p] OBVIOUS
<1>13. /\ Q \in Places /\ Good(u, Q) /\ NobodyNew(locks, u) /\ AllStillWait(locks, u)
       /\ \A x : Owns(locks, x, k) => Owns(u, x, f)
       /\ \A x : \A g \in Heap : g # f /\ Owns(locks, x, g) => Owns(u, x, g)
 <2>1. Good(locks, P) /\ P[k] = p /\ P[f] = NoPage /\ (k \in Suprema <=> f \in Suprema)
   BY <1>3, <1>4, <1>9, <1>10 DEF IInv
 <2>2. Q \in Places BY <1>12, HeapFacts DEF Places
 <2>6. Good(u, Q) BY <1>3, <1>11, <1>12, <2>1, RecMoveKeeps
 <2>3. NobodyNew(locks, u) /\ AllStillWait(locks, u) BY <1>3, <1>11, <1>12, <2>1, RecMoveKeeps
 <2>4. \A x : Owns(locks, x, k) => Owns(u, x, f) BY <1>3, <1>11, <1>12, <2>1, RecMoveKeeps
 <2>5. \A x : \A g \in Heap : g # f /\ Owns(locks, x, g) => Owns(u, x, g)
   BY <1>3, <1>11, <1>12, <2>1, RecMoveKeeps
 <2> QED BY <2>2, <2>3, <2>4, <2>5, <2>6
<1>14. locks' = u BY <1>6, <1>10, <1>11
<1>15. \A g \in Heap : Q[g] = IF g = f THEN p ELSE IF g = k THEN NoPage ELSE P[g]
  BY <1>3, <1>10, <1>12 DEF Places
<1>16. request' \in Request \cup {NoReq} /\ tree' \in Trees /\ cursor' \in [Trxs -> Cursor] /\ tree' = tree
       /\ rows' = rows /\ rows' \in [Keys -> Row \cup {NoRow}]
       /\ undo' \in [Trxs -> Seq([key : Keys, old : Row \cup {NoRow}])]
  BY <1>1, <1>7, <1>8 DEF IInv, Types
<1>17. Good(locks', Place')
 <2>1. \A g \in Pages : Q[SupremumOf(g)] \in Pages => Q[SupremumOf(g)] = g /\ InTree(tree', g)
   BY <1>9, <1>10, <1>15, <1>16, HeapFacts
 <2>2. \A j \in Keys : Q[j] \in Pages =>
          rows'[j] # NoRow /\ ~ (Stored(request') /\ j = request'.key) /\ Q[j] = PageIn(tree', j)
   BY <1>7, <1>8, <1>9, <1>10, <1>15, <1>16, HeapFacts DEF Present
 <2>3. \A g \in Pages : Q[InfimumOf(g)] \in Pages =>
          Q[InfimumOf(g)] = g /\ Stored(request') /\ g = request'.page
   BY <1>7, <1>8, <1>9, <1>10, <1>15, <1>16, HeapFacts
 <2> QED BY <1>13, <1>14, <1>16, <2>1, <2>2, <2>3, GoodNext
<1>18. RowsAreRight'
 <2>1. \A j \in Keys : \A x : Owns(locks, x, j) => Owns(locks', x, j)
   BY <1>10, <1>13, <1>14, HeapFacts
 <2> QED BY <1>1, <2>1, OwnersStay
<1>19. RequestIsRight'
 <2>1. PageOf(k)' = p /\ Active(t)' /\ Present(k)' /\ cursor' = cursor /\ kernel' = NoTrx /\ rows' = rows
   BY <1>1, <1>3, <1>4 DEF PageOf, Active, Present
 <2>2. Active(rows[k].by)' => rows[k].by = t BY <1>1, <1>3 DEF Active
 <2>3. Owns(locks', t, InfimumOf(p)) BY <1>3, <1>10, <1>13, <1>14
 <2> QED BY <1>3, <1>7, <1>8, <2>1, <2>2, <2>3 DEF RequestIsRight
<1>20. UndoIsRight' /\ CursorIsRight' BY <1>1, UndoStays, CursorStays
<1> QED BY <1>1, <1>3, <1>13, <1>14, <1>16, <1>17, <1>18, <1>19, <1>20, IndexStepKeeps

\* The only leaf before the split: the record of the operation is not there.
LEMMA LeafIs ==
    ASSUME IInv, NEW t \in Trxs, NEW op, Writes(t, op), Len(tree.leaves) = 1,
           \/ op = "INSERT" /\ request.step = "CHECKED"
           \/ op = "MODIFY" /\ request.step = "STORED",
           NEW leaf, leaf = tree.leaves[1], NEW others, others = RecordsOf(leaf) \ {request.key}
    PROVE  /\ leaf \in Pages /\ others \subseteq Keys
           /\ \A j \in Keys : Place[j] = IF j \in others THEN leaf ELSE NoPage
           /\ \A j \in others : Present(j) /\ j # request.key
           /\ \A g \in Pages : Place[SupremumOf(g)] = IF g = leaf THEN leaf ELSE NoPage
<1>1. tree \in Trees BY DEF IInv, Types
<1>2. \A j \in Keys : PageOf(j) = leaf BY <1>1, TreeFacts, PageFacts
<1>3. \A g : InTree(tree, g) <=> g = leaf BY <1>1, TreeFacts
<1>4. /\ request # NoReq /\ request.key \in Keys
      /\ op = "INSERT" => ~ Present(request.key) /\ ~ Stored(request)
      /\ op = "MODIFY" => Stored(request)
  BY WriterIs DEF Stored
<1>5. \A j \in Keys : j \in others <=> Present(j) /\ j # request.key BY <1>2 DEF RecordsOf
<1>6. others \subseteq Keys /\ leaf \in Pages BY <1>1, TreeFacts DEF RecordsOf
<1>7. \A j \in Keys : Place[j] = IF Present(j) /\ ~ (Stored(request) /\ j = request.key) THEN leaf ELSE NoPage
  BY <1>2, PlaceFacts
<1>8. \A g \in Pages : Place[SupremumOf(g)] = IF InTree(tree, g) THEN g ELSE NoPage BY PlaceFacts
<1> QED BY <1>3, <1>4, <1>5, <1>6, <1>7, <1>8

\* The only leaf is split before the record is inserted or put back.
LEMMA SplitKeeps ==
    ASSUME IInv, NEW t \in Trxs, Split(t), UNCHANGED plan
    PROVE  IInv'
<1>1. /\ Len(tree.leaves) = 1
      /\ request' = [request EXCEPT !.step = "SPLIT"]
      /\ UNCHANGED <<que_state, thr, chosen, expired, error, rows, undo, scanned, conc_state, kernel,
                     count, cursor, statements>>
  BY DEF Split, waitVars
<1>2. PICK op \in {"INSERT", "MODIFY"} :
         /\ Writes(t, op)
         /\ \/ op = "INSERT" /\ request.step = "CHECKED"
            \/ op = "MODIFY" /\ request.step = "STORED"
  BY DEF Split
<1>3. PICK k \in Keys : k = request.key BY <1>2, WriterIs
<1>4. /\ kernel = NoTrx /\ t # NoTrx /\ Active(t) /\ ~ cursor[t].new /\ request \in Request
      /\ request # NoReq /\ request.trx = t /\ request.op = op
      /\ op = "INSERT" => ~ Present(k) /\ ~ Stored(request)
      /\ op = "MODIFY" => /\ Present(k) /\ Stored(request)
                          /\ Active(rows[k].by) => rows[k].by = t
                          /\ Owns(locks, t, InfimumOf(request.page))
  BY <1>2, <1>3, WriterIs DEF Stored
<1>5. PICK leaf : leaf = tree.leaves[1] OBVIOUS
<1>6. PICK others : others = RecordsOf(leaf) \ {k} OBVIOUS
<1>7. PICK P \in Places : P = Place BY PlaceFacts
<1>8. /\ leaf \in Pages /\ others \subseteq Keys
      /\ \A j \in Keys : P[j] = IF j \in others THEN leaf ELSE NoPage
      /\ \A j \in others : Present(j) /\ j # k
      /\ \A g \in Pages : P[SupremumOf(g)] = IF g = leaf THEN leaf ELSE NoPage
  BY <1>1, <1>2, <1>3, <1>5, <1>6, <1>7, LeafIs
<1>9. \A g \in Pages : P[InfimumOf(g)] = IF Stored(request) /\ g = request.page THEN g ELSE NoPage
  BY <1>7, PlaceFacts
<1>10. PICK p : p = IF leaf = Root THEN 1 ELSE leaf OBVIOUS
<1>11. PICK q : q = 3 - p OBVIOUS
<1>12. p \in Pages /\ q \in Pages /\ p # q /\ p \in {1, 2} /\ q \in {1, 2}
  BY <1>8, <1>10, <1>11, HeapFacts DEF Root
<1>13. PICK s : s = IF leaf = Root THEN RootRaise(locks, others, p) ELSE locks OBVIOUS
<1> DEFINE Cut(cut, right, upper) ==
          /\ upper = {j \in others : j > cut}
          /\ locks' = IF right
                      THEN SplitRight(s, p, upper, q, LeastOr(upper, SupremumOf(q)), plan.read_committed)
                      ELSE SplitLeft(s, p, others \ upper, q, Least(upper), plan.read_committed)
          /\ tree' = [leaves |-> IF right THEN <<p, q>> ELSE <<q, p>>, cut |-> cut]
<1>a. PICK cut \in Keys, right \in BOOLEAN : Cut(cut, right, {j \in others : j > cut})
  BY ZenonT(60), <1>3, <1>5, <1>6, <1>10, <1>11, <1>13 DEF Split
<1>14. PICK upper : Cut(cut, right, upper) BY <1>a
\* the root is raised
<1>15. \E R \in Places :
          /\ Keeps(locks, s, R) /\ Good(s, R) /\ AllStillWait(locks, s)
          /\ \A j \in Keys : R[j] = IF j \in others THEN p ELSE NoPage
          /\ \A g \in Pages : R[SupremumOf(g)] = IF g = p THEN p ELSE NoPage
          /\ \A g \in Pages : R[InfimumOf(g)] = P[InfimumOf(g)]
 <2>1. CASE leaf # Root
  <3>1. s = locks /\ p = leaf /\ Good(locks, P) BY <1>7, <1>10, <1>13, <2>1 DEF IInv
  <3>2. Keeps(locks, s, P) /\ AllStillWait(locks, s) BY <3>1, KeepsItself
  <3> QED BY <1>8, <3>1, <3>2
 <2>2. CASE leaf = Root
  <3>1. s = RootRaise(locks, others, p) /\ Good(locks, P) /\ p # Root
    BY <1>7, <1>10, <1>13, <2>2 DEF IInv, Root
  <3>2. P[SupremumOf(Root)] = Root /\ P[SupremumOf(p)] = NoPage /\ \A j \in others : P[j] = Root
    BY <1>8, <1>12, <2>2, <3>1, HeapFacts
  <3>3. \E Q \in Places : /\ Keeps(locks, s, Q) /\ Good(s, Q) /\ AllStillWait(locks, s)
                          /\ \A g \in Heap : Q[g] = IF g \in others \cup {SupremumOf(p)} THEN p
                                                    ELSE IF g = SupremumOf(Root) THEN NoPage
                                                    ELSE P[g]
    BY <1>8, <1>12, <3>1, <3>2, RootIsRaised
  <3>4. PICK R \in Places : /\ Keeps(locks, s, R) /\ Good(s, R) /\ AllStillWait(locks, s)
                            /\ \A g \in Heap : R[g] = IF g \in others \cup {SupremumOf(p)} THEN p
                                                      ELSE IF g = SupremumOf(Root) THEN NoPage
                                                      ELSE P[g]
    BY <3>3
  <3>5. \A j \in Keys : R[j] = IF j \in others THEN p ELSE NoPage BY <1>8, <1>12, <3>4, HeapFacts
  <3>6. \A g \in Pages : R[SupremumOf(g)] = IF g = p THEN p ELSE NoPage
    BY <1>8, <1>12, <2>2, <3>4, HeapFacts
  <3>7. \A g \in Pages : R[InfimumOf(g)] = P[InfimumOf(g)] BY <1>8, <1>12, <3>4, HeapFacts
  <3> QED BY <3>4, <3>5, <3>6, <3>7
 <2> QED BY <2>1, <2>2
<1>16. PICK R \in Places :
          /\ Keeps(locks, s, R) /\ Good(s, R) /\ AllStillWait(locks, s)
          /\ \A j \in Keys : R[j] = IF j \in others THEN p ELSE NoPage
          /\ \A g \in Pages : R[SupremumOf(g)] = IF g = p THEN p ELSE NoPage
          /\ \A g \in Pages : R[InfimumOf(g)] = P[InfimumOf(g)]
  BY <1>15
<1>17. upper \subseteq others /\ upper \subseteq Keys /\ others \ upper \subseteq Keys
  BY <1>8, <1>14
\* the leaf is split
<1>18. \E ks, Q : /\ ks \subseteq others
                  /\ ks = (IF right THEN upper ELSE others \ upper)
                  /\ Q \in Places /\ Keeps(s, locks', Q) /\ Good(locks', Q) /\ AllStillWait(s, locks')
                  /\ \A g \in Heap : Q[g] = IF g \in ks \cup {SupremumOf(q)} THEN q ELSE R[g]
 <2>1. R[SupremumOf(p)] = p /\ R[SupremumOf(q)] = NoPage BY <1>12, <1>16
 <2>2. PICK rc : rc = plan.read_committed OBVIOUS
 <2>3. CASE right
  <3>1. PICK min : min = LeastOr(upper, SupremumOf(q)) OBVIOUS
  <3>2. PICK u : u = SplitRight(s, p, upper, q, min, rc) OBVIOUS
  <3>3. \A j \in upper : R[j] = p BY <1>8, <1>16, <1>17
  <3>4. \E Q \in Places : /\ Keeps(s, u, Q) /\ Good(u, Q) /\ AllStillWait(s, u)
                          /\ \A g \in Heap : Q[g] = IF g \in upper \cup {SupremumOf(q)} THEN q ELSE R[g]
    BY <1>12, <1>16, <1>17, <2>1, <3>2, <3>3, RightIsSplit
  <3>5. locks' = u BY <1>14, <2>2, <2>3, <3>1, <3>2
  <3> QED BY <1>17, <2>3, <3>4, <3>5
 <2>4. CASE ~ right
  <3>1. PICK min : min = Least(upper) OBVIOUS
  <3>2. PICK ks : ks = others \ upper OBVIOUS
  <3>3. PICK u : u = SplitLeft(s, p, ks, q, min, rc) OBVIOUS
  <3>4. ks \subseteq Keys /\ ks \subseteq others /\ \A j \in ks : R[j] = p BY <1>8, <1>16, <3>2
  <3>5. \E Q \in Places : /\ Keeps(s, u, Q) /\ Good(u, Q) /\ AllStillWait(s, u)
                          /\ \A g \in Heap : Q[g] = IF g \in ks \cup {SupremumOf(q)} THEN q ELSE R[g]
    BY <1>12, <1>16, <2>1, <3>3, <3>4, LeftIsSplit
  <3>6. locks' = u BY <1>14, <2>2, <2>4, <3>1, <3>2, <3>3
  <3> QED BY <2>4, <3>2, <3>4, <3>5, <3>6
 <2> QED BY <2>3, <2>4
<1>19. PICK ks, Q : /\ ks \subseteq others
                    /\ ks = (IF right THEN upper ELSE others \ upper)
                    /\ Q \in Places /\ Keeps(s, locks', Q) /\ Good(locks', Q) /\ AllStillWait(s, locks')
                    /\ \A g \in Heap : Q[g] = IF g \in ks \cup {SupremumOf(q)} THEN q ELSE R[g]
  BY <1>18
<1>20. Keeps(locks, locks', Q) /\ AllStillWait(locks, locks') BY <1>16, <1>19, KeepsOn
<1>21. PICK w : w = request' OBVIOUS
<1>22. /\ w \in Request /\ w # NoReq /\ w.trx = t /\ w.op = op /\ w.key = k /\ w.step = "SPLIT"
       /\ w.page = request.page /\ (Stored(w) <=> Stored(request))
 <2>1. w \in Request /\ w.trx = t /\ w.op = op /\ w.key = k /\ w.step = "SPLIT" /\ w.page = request.page
   BY <1>1, <1>3, <1>4, <1>21 DEF Request
 <2> QED BY <1>4, <2>1, NamesAssumption DEF Stored
<1>23. PICK T : T = tree' OBVIOUS
<1>24. /\ T \in Trees
       /\ \A g \in Pages : InTree(T, g) <=> g = p \/ g = q
       /\ \A j \in Keys : PageIn(T, j) = IF right <=> j > cut THEN q ELSE p
 <2>1. CASE right
  <3>1. T.leaves = <<p, q>> /\ T.cut = cut /\ T = [leaves |-> <<p, q>>, cut |-> cut]
    BY <1>14, <1>23, <2>1
  <3>2. T.leaves \in {<<1, 2>>, <<2, 1>>} /\ Len(T.leaves) = 2 /\ T.leaves[1] = p /\ T.leaves[2] = q
    BY <1>12, <3>1
  <3>3. T \in Trees BY <3>1, <3>2 DEF Trees
  <3>4. \A g \in Pages : InTree(T, g) <=> g = p \/ g = q BY <3>2, <3>3, TreeFacts
  <3>5. \A j \in Keys : PageIn(T, j) = IF j > cut THEN q ELSE p BY <3>1, <3>2 DEF PageIn
  <3> QED BY <2>1, <3>3, <3>4, <3>5
 <2>2. CASE ~ right
  <3>1. T.leaves = <<q, p>> /\ T.cut = cut /\ T = [leaves |-> <<q, p>>, cut |-> cut]
    BY <1>14, <1>23, <2>2
  <3>2. T.leaves \in {<<1, 2>>, <<2, 1>>} /\ Len(T.leaves) = 2 /\ T.leaves[1] = q /\ T.leaves[2] = p
    BY <1>12, <3>1
  <3>3. T \in Trees BY <3>1, <3>2 DEF Trees
  <3>4. \A g \in Pages : InTree(T, g) <=> g = p \/ g = q BY <3>2, <3>3, TreeFacts
  <3>5. \A j \in Keys : PageIn(T, j) = IF j > cut THEN p ELSE q BY <3>1, <3>2 DEF PageIn
  <3> QED BY <2>2, <3>3, <3>4, <3>5
 <2> QED BY <2>1, <2>2
<1>25. Good(locks', Place')
 <2>1. \A g \in Pages : Q[SupremumOf(g)] \in Pages => Q[SupremumOf(g)] = g /\ InTree(tree', g)
  <3> SUFFICES ASSUME NEW g \in Pages, Q[SupremumOf(g)] \in Pages
               PROVE  Q[SupremumOf(g)] = g /\ (g = p \/ g = q)
    BY <1>23, <1>24
  <3>1. SupremumOf(g) \in Heap /\ SupremumOf(g) \notin Keys BY HeapFacts
  <3>2. CASE SupremumOf(g) = SupremumOf(q) BY <1>12, <1>19, <3>1, <3>2, HeapFacts
  <3>3. CASE SupremumOf(g) # SupremumOf(q)
   <4>1. Q[SupremumOf(g)] = R[SupremumOf(g)] BY <1>8, <1>19, <3>1, <3>3
   <4> QED BY <1>16, <4>1, HeapFacts
  <3> QED BY <3>2, <3>3
 <2>2. \A j \in Keys : Q[j] \in Pages =>
          rows'[j] # NoRow /\ ~ (Stored(request') /\ j = request'.key) /\ Q[j] = PageIn(tree', j)
  <3> SUFFICES ASSUME NEW j \in Keys, Q[j] \in Pages
               PROVE  rows[j] # NoRow /\ j # k /\ Q[j] = PageIn(T, j)
    BY <1>1, <1>21, <1>22, <1>23
  <3>1. j \in Heap /\ j # SupremumOf(q) BY <1>12, HeapFacts
  <3>2. Q[j] = IF j \in ks THEN q ELSE R[j] BY <1>19, <3>1
  <3>3. j \in others BY <1>16, <1>19, <3>2, HeapFacts
  <3>4. j \in ks <=> (right <=> j > cut) BY <1>14, <1>19, <3>3
  <3>5. Q[j] = PageIn(T, j) BY <1>16, <1>24, <3>2, <3>3, <3>4
  <3> QED BY <1>8, <3>3, <3>5 DEF Present
 <2>3. \A g \in Pages : Q[InfimumOf(g)] \in Pages =>
          Q[InfimumOf(g)] = g /\ Stored(request') /\ g = request'.page
  <3> SUFFICES ASSUME NEW g \in Pages, Q[InfimumOf(g)] \in Pages
               PROVE  Q[InfimumOf(g)] = g /\ Stored(request) /\ g = request.page
    BY <1>21, <1>22
  <3>1. InfimumOf(g) \in Heap /\ InfimumOf(g) \notin Keys /\ InfimumOf(g) # SupremumOf(q)
    BY <1>12, HeapFacts
  <3>2. Q[InfimumOf(g)] = P[InfimumOf(g)] BY <1>8, <1>16, <1>19, <3>1
  <3> QED BY <1>9, <3>2, HeapFacts
 <2>4. tree' \in Trees /\ request' \in Request \cup {NoReq} BY <1>21, <1>22, <1>23, <1>24
 <2> QED BY <1>19, <2>1, <2>2, <2>3, <2>4, GoodNext
<1>26. RowsAreRight'
 <2>1. \A j \in Keys : \A x : Owns(locks, x, j) => Owns(locks', x, j) BY <1>20, HeapFacts DEF Keeps
 <2> QED BY <1>1, <2>1, OwnersStay
<1>27. RequestIsRight'
 <2>1. Active(t)' /\ (Present(k)' <=> Present(k)) /\ cursor' = cursor /\ kernel' = NoTrx /\ rows' = rows
   BY <1>1, <1>4 DEF Active, Present
 <2>2. op = "MODIFY" => (Active(rows[k].by)' => rows[k].by = t) BY <1>1, <1>4 DEF Active
 <2>3. op = "MODIFY" => Owns(locks', t, InfimumOf(w.page))
  <3>1. InfimumOf(w.page) \in Heap BY <1>22, HeapFacts DEF Request
  <3> QED BY <1>4, <1>20, <1>22, <3>1 DEF Keeps
 <2> QED BY <1>4, <1>21, <1>22, <2>1, <2>2, <2>3 DEF RequestIsRight
<1>28. UndoIsRight' /\ CursorIsRight' BY <1>1, UndoStays, CursorStays
<1>29. /\ NobodyNew(locks, locks') /\ tree' \in Trees /\ request' \in Request \cup {NoReq}
       /\ cursor' \in [Trxs -> Cursor] /\ rows' \in [Keys -> Row \cup {NoRow}]
       /\ undo' \in [Trxs -> Seq([key : Keys, old : Row \cup {NoRow}])]
  BY <1>1, <1>20, <1>21, <1>22, <1>23, <1>24 DEF IInv, Types, Keeps
<1> QED BY <1>1, <1>4, <1>20, <1>25, <1>26, <1>27, <1>28, <1>29, IndexStepKeeps

\* What may come after a step that leaves the record j on the page of k.
LEMMA PerhapsCompressKeeps ==
    ASSUME IInv, NEW t \in Trxs \cup {NoTrx}, NEW k \in Keys, NEW j \in Keys,
           request' \in PerhapsCompress(t, k), UNCHANGED tree,
           PageOf(j) = PageOf(k), PageOf(k) # Root => rows'[j] # NoRow
    PROVE  /\ request' \in Request \cup {NoReq} /\ ~ Stored(request')
           /\ RequestIsRight'
<1>1. CASE request' = NoReq BY <1>1 DEF RequestIsRight, Stored
<1>2. CASE request' # NoReq
 <2>1. request' = Operation(t, "COMPRESS", k) /\ PageOf(k) # Root BY <1>2 DEF PerhapsCompress
 <2>2. PICK o : o = Operation(t, "COMPRESS", k) OBVIOUS
 <2>3. o \in Request
  <3>1. k \in Heap /\ PageOf(k) \in Pages BY HeapFacts, PageFacts
  <3> QED BY <2>2, <3>1 DEF Operation, Request, Gaps
 <2>4. o.op = "COMPRESS" /\ o.key = k BY <2>2 DEF Operation
 <2>5. PageOf(k)' = PageOf(k) /\ PageOf(j)' = PageOf(k) BY DEF PageOf
 <2>6. j \in RecordsOf(PageOf(k))' BY <2>1, <2>5 DEF RecordsOf, Present
 <2>7. request' = o BY <2>1, <2>2
 <2>8. RequestIsRight' BY <2>1, <2>4, <2>5, <2>6, <2>7 DEF RequestIsRight
 <2> QED BY <2>3, <2>4, <2>7, <2>8 DEF Stored
<1> QED BY <1>1, <1>2

\* The record is back, on this page or the other one, and takes its bits from the
\* infimum.
LEMMA RestoreFromPageInfimumKeeps ==
    ASSUME IInv, NEW t \in Trxs, RestoreFromPageInfimum(t), UNCHANGED plan
    PROVE  IInv'
<1>1. /\ Writes(t, "MODIFY") /\ request.step \in {"STORED", "SPLIT"} /\ ChangeRow(t)
      /\ EndLockWaits(locks')
      /\ UNCHANGED <<thr, chosen, expired, error, tree, conc_state, kernel, count, cursor,
                     statements, scanned>>
  BY DEF RestoreFromPageInfimum
<1>2. PICK k \in Keys : k = request.key BY <1>1, WriterIs
<1>3. PICK p0 \in Pages : p0 = request.page
 <2>1. request \in Request BY <1>1, WriterIs
 <2> QED BY <2>1 DEF Request
<1>4. PICK f \in Heap : f = InfimumOf(p0) /\ f \notin Suprema /\ f \notin Keys /\ k \notin Suprema /\ k \in Heap
  BY HeapFacts
<1>5. /\ kernel = NoTrx /\ t # NoTrx /\ Present(k) /\ Owns(locks, t, f) /\ Active(t) /\ Stored(request)
  BY <1>1, <1>2, <1>3, <1>4, WriterIs DEF Stored
<1>6. PICK r \in Row :
         /\ r.by = t /\ r # NoRow
         /\ rows' \in [Keys -> Row \cup {NoRow}]
         /\ undo' \in [Trxs -> Seq([key : Keys, old : Row \cup {NoRow}])]
         /\ \A j \in Keys : rows'[j] = IF j = k THEN r ELSE rows[j]
         /\ UndoIsRight'
         /\ CursorIsRight'
 <2>1. UNCHANGED <<conc_state, cursor>> /\ "MODIFY" \in {"INSERT", "MODIFY"} BY <1>1
 <2>2. \E r \in Row :
          /\ r.by = t /\ r # NoRow
          /\ rows' \in [Keys -> Row \cup {NoRow}]
          /\ undo' \in [Trxs -> Seq([key : Keys, old : Row \cup {NoRow}])]
          /\ \A j \in Keys : rows'[j] = IF j = request.key THEN r ELSE rows[j]
          /\ UndoIsRight'
          /\ CursorIsRight'
   BY <1>1, <2>1, RowAfter
 <2> QED BY <1>2, <2>2
<1>7. PICK p \in Pages : p = PageOf(k) /\ p = PageIn(tree, k) /\ InTree(tree, p) BY PageFacts
<1>8. PICK s : /\ s \in MakeRoom(p)
               /\ locks' = RecMove(s, p0, f, p, k)
                  \/ locks' = RestoreSupremum(RecMove(s, p0, f, p, k), tree.leaves[1], k, plan.read_committed)
 <2>1. \E s \in IF request.step = "STORED" THEN MakeRoom(p) ELSE {locks} :
          LET back == RecMove(s, p0, f, p, k)
          IN  locks' = back \/ locks' = RestoreSupremum(back, tree.leaves[1], k, plan.read_committed)
   BY <1>2, <1>3, <1>4, <1>7 DEF RestoreFromPageInfimum
 <2>2. locks \in MakeRoom(p) BY DEF MakeRoom
 <2> QED BY <2>1, <2>2
<1>9. request' \in PerhapsCompress(t, k)
 <2>1. request' \in IF request.step = "STORED" THEN PerhapsCompress(t, k) ELSE {NoReq}
   BY <1>2 DEF RestoreFromPageInfimum
 <2> QED BY <2>1 DEF PerhapsCompress
<1>10. request' \in Request \cup {NoReq} /\ ~ Stored(request') /\ RequestIsRight'
  BY <1>1, <1>6, <1>9, PerhapsCompressKeeps
<1>11. PICK P \in Places :
         /\ P = Place
         /\ \A g \in Pages : P[SupremumOf(g)] = IF InTree(tree, g) THEN g ELSE NoPage
         /\ \A j \in Keys : P[j] = IF Present(j) /\ j # k THEN PageIn(tree, j) ELSE NoPage
         /\ \A g \in Pages : P[InfimumOf(g)] = IF g = p0 THEN g ELSE NoPage
  BY <1>2, <1>3, <1>5, PlaceFacts, PageFacts
<1>12. Keeps(locks, s, P) /\ Good(s, P) /\ AllStillWait(locks, s) BY <1>8, <1>11, MakeRoomKeeps
<1>13. PICK u : u = RecMove(s, p0, f, p, k) OBVIOUS
<1>14. PICK Q : Q = [P EXCEPT ![f] = NoPage, ![k] = p] OBVIOUS
<1>15. Q \in Places /\ \A g \in Heap : Q[g] = IF g = k THEN p ELSE IF g = f THEN NoPage ELSE P[g]
  BY <1>4, <1>14, HeapFacts DEF Places
<1>16. /\ Good(u, Q) /\ NobodyNew(s, u)
       /\ \A x : Owns(s, x, f) => Owns(u, x, k)
       /\ \A x : \A g \in Heap : g # k /\ Owns(s, x, g) => Owns(u, x, g)
 <2>1. Good(s, P) /\ P[f] = p0 /\ P[k] = NoPage /\ (f \in Suprema <=> k \in Suprema)
   BY <1>4, <1>11, <1>12
 <2>2. Good(u, Q) BY <1>4, <1>13, <1>14, <2>1, RecMoveKeeps
 <2>3. NobodyNew(s, u) BY <1>4, <1>13, <1>14, <2>1, RecMoveKeeps
 <2>4. \A x : Owns(s, x, f) => Owns(u, x, k) BY <1>4, <1>13, <1>14, <2>1, RecMoveKeeps
 <2>5. \A x : \A g \in Heap : g # k /\ Owns(s, x, g) => Owns(u, x, g)
   BY <1>4, <1>13, <1>14, <2>1, RecMoveKeeps
 <2> QED BY <2>2, <2>3, <2>4, <2>5
<1>17. Keeps(u, locks', Q) /\ Good(locks', Q)
 <2>1. CASE locks' = u BY <1>15, <1>16, <2>1, KeepsItself
 <2>2. CASE locks' # u
  <3>1. PICK g \in Pages : g = tree.leaves[1] /\ InTree(tree, g) BY TreeFacts DEF IInv, Types
  <3>2. PICK rc : rc = plan.read_committed OBVIOUS
  <3>3. PICK v : v = RestoreSupremum(u, g, k, rc) OBVIOUS
  <3>4. Q[SupremumOf(g)] = g BY <1>4, <1>11, <1>15, <3>1, HeapFacts
  <3>5. Keeps(u, v, Q) BY <1>15, <1>16, <3>3, <3>4, SupremumIsRestored
  <3>6. locks' = v BY <1>8, <1>13, <2>2, <3>1, <3>2, <3>3
  <3> QED BY <3>5, <3>6 DEF Keeps
 <2> QED BY <2>1, <2>2
<1>18. NobodyNew(locks, locks') BY <1>12, <1>16, <1>17 DEF Keeps, NobodyNew, FewerWaits
<1>19. tree' \in Trees /\ cursor' \in [Trxs -> Cursor] /\ tree' = tree BY <1>1 DEF IInv, Types
<1>20. Good(locks', Place')
 <2>1. \A g \in Pages : Q[SupremumOf(g)] \in Pages => Q[SupremumOf(g)] = g /\ InTree(tree', g)
   BY <1>4, <1>11, <1>15, <1>19, HeapFacts
 <2>2. \A j \in Keys : Q[j] \in Pages =>
          rows'[j] # NoRow /\ ~ (Stored(request') /\ j = request'.key) /\ Q[j] = PageIn(tree', j)
   BY <1>4, <1>6, <1>7, <1>10, <1>11, <1>15, <1>19, HeapFacts DEF Present
 <2>3. \A g \in Pages : Q[InfimumOf(g)] \in Pages =>
          Q[InfimumOf(g)] = g /\ Stored(request') /\ g = request'.page
   BY <1>4, <1>11, <1>15, HeapFacts
 <2> QED BY <1>10, <1>17, <1>19, <2>1, <2>2, <2>3, GoodNext
<1>21. RowsAreRight'
 <2>1. \A j \in Keys : j # k => \A x : Owns(locks, x, j) => Owns(locks', x, j)
   BY <1>12, <1>16, <1>17, HeapFacts DEF Keeps
 <2>2. Owns(locks', t, k) BY <1>4, <1>5, <1>12, <1>16, <1>17 DEF Keeps
 <2> QED BY <1>1, <1>6, <2>1, <2>2, OwnersGoOn
<1> QED BY <1>1, <1>5, <1>6, <1>10, <1>18, <1>19, <1>20, <1>21, IndexStepKeeps

\* The records of a page, and of the other one.
LEMMA PagesAre ==
    ASSUME IInv, ~ Stored(request), NEW k \in Keys, NEW p, p = PageOf(k)
    PROVE  /\ p \in Pages /\ RecordsOf(p) \subseteq Keys
           /\ \A j \in Keys : Place[j] = IF Present(j) THEN PageIn(tree, j) ELSE NoPage
           /\ \A j \in Keys : j \in RecordsOf(p) <=> Present(j) /\ PageIn(tree, j) = p
           /\ \A g \in Pages : Place[SupremumOf(g)] = IF InTree(tree, g) THEN g ELSE NoPage
           /\ \A g \in Pages : Place[InfimumOf(g)] = NoPage
           /\ Len(tree.leaves) = 1 => /\ p = tree.leaves[1]
                                      /\ \A j \in Keys : PageIn(tree, j) = p
                                      /\ \A g : InTree(tree, g) <=> g = p
           /\ Len(tree.leaves) # 1 =>
                 \E q \in {1, 2} :
                    /\ q # p /\ p \in {1, 2}
                    /\ \/ p = tree.leaves[1] /\ q = tree.leaves[2]
                       \/ p = tree.leaves[2] /\ q = tree.leaves[1]
                    /\ tree.leaves[1] # tree.leaves[2]
                    /\ \A j \in Keys : PageIn(tree, j) \in {p, q}
                    /\ \A g : InTree(tree, g) <=> g = p \/ g = q
<1>1. tree \in Trees BY DEF IInv, Types
<1>2. /\ \A j \in Keys : PageOf(j) = PageIn(tree, j)
      /\ p \in Pages /\ p = PageIn(tree, k)
      /\ \A j : InTree(tree, PageIn(tree, j))
  BY <1>1, PageFacts, TreeFacts
<1>3. /\ \A j \in Keys : Place[j] = IF Present(j) THEN PageIn(tree, j) ELSE NoPage
      /\ \A g \in Pages : Place[SupremumOf(g)] = IF InTree(tree, g) THEN g ELSE NoPage
      /\ \A g \in Pages : Place[InfimumOf(g)] = NoPage
  BY <1>2, PlaceFacts
<1>4. RecordsOf(p) \subseteq Keys /\ \A j \in Keys : j \in RecordsOf(p) <=> Present(j) /\ PageIn(tree, j) = p
  BY <1>2 DEF RecordsOf
<1>5. Len(tree.leaves) = 1 => /\ p = tree.leaves[1]
                              /\ \A j \in Keys : PageIn(tree, j) = p
                              /\ \A g : InTree(tree, g) <=> g = p
  BY <1>1, <1>2, TreeFacts
<1>6. ASSUME Len(tree.leaves) # 1
      PROVE  \E q \in {1, 2} :
                /\ q # p /\ p \in {1, 2}
                /\ \/ p = tree.leaves[1] /\ q = tree.leaves[2]
                   \/ p = tree.leaves[2] /\ q = tree.leaves[1]
                /\ tree.leaves[1] # tree.leaves[2]
                /\ \A j \in Keys : PageIn(tree, j) \in {p, q}
                /\ \A g : InTree(tree, g) <=> g = p \/ g = q
 <2>1. PICK a \in {1, 2}, b \in {1, 2} :
          /\ a # b /\ tree.leaves[1] = a /\ tree.leaves[2] = b
          /\ \A g : InTree(tree, g) <=> g = a \/ g = b
   BY <1>1, <1>6, TreeFacts
 <2>2. \A j \in Keys : PageIn(tree, j) \in {a, b} BY <1>2, <2>1
 <2>3. p \in {a, b} BY <1>2, <2>1
 <2> QED BY <2>1, <2>2, <2>3
<1> QED BY <1>2, <1>3, <1>4, <1>5, <1>6

\* One leaf, and no cut.
LEMMA SingleLeafIs ==
    ASSUME NEW p \in Pages, NEW T, T = [leaves |-> <<p>>, cut |-> 0]
    PROVE  /\ T \in Trees
           /\ \A g \in Pages : InTree(T, g) <=> g = p
           /\ \A j \in Keys : PageIn(T, j) = p
<1>1. T.leaves = <<p>> /\ T.cut = 0 OBVIOUS
<1>2. p \in {0, 1, 2} BY HeapFacts
<1>3. <<p>> \in {<<Root>>, <<1>>, <<2>>, <<1, 2>>, <<2, 1>>} BY <1>2 DEF Root
<1>4. T \in Trees BY <1>3 DEF Trees
<1>5. Len(T.leaves) = 1 /\ T.leaves[1] = p /\ DOMAIN T.leaves = {1} BY <1>1
<1> QED BY <1>4, <1>5 DEF InTree, PageIn

\* The lock table after the page p has gone, and only q is left.
LEMMA OneLeafIsLeft ==
    ASSUME IInv, ~ Stored(request), NEW k \in Keys, NEW p, p = PageOf(k), NEW q \in Pages, q # p,
           \A j \in Keys : Present(j) => PageIn(tree, j) \in {p, q},
           \A g : InTree(tree, g) => g = p \/ g = q,
           tree' = [leaves |-> <<q>>, cut |-> 0], request' = NoReq,
           \A j \in Keys : Present(j) /\ PageIn(tree, j) = q => rows'[j] # NoRow,
           NEW ks, ks \subseteq Keys, \A j \in ks : rows'[j] # NoRow,
           NEW heir \in Heap, heir \in Keys => PageIn(tree, heir) = q /\ Present(heir),
           heir \in Keys \/ heir = SupremumOf(q),
           NEW u, NEW Q, Good(u, Q),
           \A g \in Heap : Q[g] = IF g \in ks \/ g = heir THEN q
                                  ELSE IF Place[g] = p THEN NoPage ELSE Place[g]
    PROVE  Good(u, Place') /\ tree' \in Trees
<1>1. PICK T : T = tree' OBVIOUS
<1>2. T \in Trees /\ (\A g \in Pages : InTree(T, g) <=> g = q) /\ \A j \in Keys : PageIn(T, j) = q
  BY <1>1, SingleLeafIs
<1>3. PICK P : P = Place OBVIOUS
<1>4. /\ \A j \in Keys : P[j] = IF Present(j) THEN PageIn(tree, j) ELSE NoPage
      /\ \A g \in Pages : P[SupremumOf(g)] = IF InTree(tree, g) THEN g ELSE NoPage
      /\ \A g \in Pages : P[InfimumOf(g)] = NoPage
      /\ p \in Pages
  BY <1>3, PagesAre
<1>5. ~ Stored(request') BY DEF Stored
<1>6. \A g \in Heap : Q[g] = IF g \in ks \/ g = heir THEN q
                             ELSE IF P[g] = p THEN NoPage ELSE P[g]
  BY <1>3
<1>7. \A g \in Pages : Q[SupremumOf(g)] \in Pages => Q[SupremumOf(g)] = g /\ InTree(tree', g)
 <2> SUFFICES ASSUME NEW g \in Pages, Q[SupremumOf(g)] \in Pages
              PROVE  Q[SupremumOf(g)] = g /\ g = q
   BY <1>1, <1>2
 <2>1. SupremumOf(g) \in Heap /\ SupremumOf(g) \notin Keys /\ SupremumOf(g) \notin ks BY HeapFacts
 <2>2. CASE SupremumOf(g) = heir BY <1>6, <2>1, <2>2, HeapFacts
 <2>3. CASE SupremumOf(g) # heir
  <3>1. P[SupremumOf(g)] # p /\ Q[SupremumOf(g)] = P[SupremumOf(g)] BY <1>6, <2>1, <2>3, HeapFacts
  <3> QED BY <1>4, <3>1, HeapFacts
 <2> QED BY <2>2, <2>3
<1>8. \A j \in Keys : Q[j] \in Pages =>
         rows'[j] # NoRow /\ ~ (Stored(request') /\ j = request'.key) /\ Q[j] = PageIn(tree', j)
 <2> SUFFICES ASSUME NEW j \in Keys, Q[j] \in Pages
              PROVE  rows'[j] # NoRow /\ Q[j] = q
   BY <1>1, <1>2, <1>5
 <2>1. j \in Heap BY HeapFacts
 <2>2. CASE j \in ks \/ j = heir BY <1>6, <2>1, <2>2
 <2>3. CASE ~ (j \in ks \/ j = heir)
  <3>1. P[j] # p /\ Q[j] = P[j] BY <1>6, <2>1, <2>3, HeapFacts
  <3>2. Present(j) /\ P[j] = PageIn(tree, j) BY <1>4, <3>1, HeapFacts
  <3>3. PageIn(tree, j) = q BY <3>1, <3>2
  <3> QED BY <3>1, <3>2, <3>3
 <2> QED BY <2>2, <2>3
<1>9. \A g \in Pages : Q[InfimumOf(g)] \in Pages =>
         Q[InfimumOf(g)] = g /\ Stored(request') /\ g = request'.page
 <2> SUFFICES ASSUME NEW g \in Pages PROVE Q[InfimumOf(g)] \notin Pages OBVIOUS
 <2>1. /\ InfimumOf(g) \in Heap /\ InfimumOf(g) \notin Keys /\ InfimumOf(g) \notin ks
       /\ InfimumOf(g) # heir
   BY HeapFacts
 <2> QED BY <1>4, <1>6, <2>1, HeapFacts
<1>10. tree' \in Trees /\ request' \in Request \cup {NoReq} BY <1>1, <1>2
<1>11. Good(u, Place') BY <1>7, <1>8, <1>9, <1>10, GoodNext
<1> QED BY <1>10, <1>11

\* btr_compress: the records of a page go to its neighbour, or to the root.
LEMMA CompressKeeps ==
    ASSUME IInv, Compress, UNCHANGED plan
    PROVE  IInv'
<1>1. /\ request # NoReq /\ request.op = "COMPRESS" /\ kernel = NoTrx /\ request' = NoReq
      /\ EndLockWaits(locks')
      /\ UNCHANGED <<thr, chosen, expired, error, rows, undo, scanned, conc_state, kernel,
                     count, cursor, statements>>
  BY DEF Compress
<1>2. PICK k \in Keys : k = request.key /\ PageOf(k) # Root /\ RecordsOf(PageOf(k)) # {}
  BY <1>1 DEF IInv, RequestIsRight
<1>3. ~ Stored(request) BY <1>1 DEF Stored
<1>4. PICK p : p = PageOf(k) OBVIOUS
<1>5. PICK P \in Places : P = Place /\ Good(locks, P) BY PlaceFacts DEF IInv
<1>6. /\ p \in Pages /\ RecordsOf(p) \subseteq Keys
      /\ \A j \in Keys : P[j] = IF Present(j) THEN PageIn(tree, j) ELSE NoPage
      /\ \A j \in Keys : j \in RecordsOf(p) <=> Present(j) /\ PageIn(tree, j) = p
      /\ \A g \in Pages : P[SupremumOf(g)] = IF InTree(tree, g) THEN g ELSE NoPage
  BY <1>3, <1>4, <1>5, PagesAre
<1>7. PICK ks : ks = RecordsOf(p) /\ ks \subseteq Keys /\ ks # {} /\ \A j \in ks : Present(j) /\ P[j] = p
  BY <1>2, <1>4, <1>6
<1>8. \E u, Q : /\ u = locks' /\ Keeps(locks, u, Q) /\ Good(u, Place') /\ tree' \in Trees
 <2>1. CASE Len(tree.leaves) = 1
  <3>1. /\ p = tree.leaves[1]
        /\ \A j \in Keys : PageIn(tree, j) = p
        /\ \A g : InTree(tree, g) <=> g = p
    BY <1>3, <1>4, <2>1, PagesAre
  <3>2. PICK u : u = CopyAndDiscard(locks, p, ks) OBVIOUS
  <3>3. locks' = u /\ tree' = [leaves |-> <<Root>>, cut |-> 0]
    BY <1>2, <1>4, <1>7, <2>1, <3>2 DEF Compress
  <3>4. P[SupremumOf(p)] = p /\ P[SupremumOf(Root)] = NoPage /\ p # Root
    BY <1>2, <1>4, <1>6, <3>1, HeapFacts
  <3>5. \E Q \in Places : /\ Keeps(locks, u, Q) /\ Good(u, Q)
                          /\ \A g \in Heap : Q[g] = IF g \in ks \cup {SupremumOf(Root)} THEN Root
                                                    ELSE IF P[g] = p THEN NoPage ELSE P[g]
    BY <1>5, <1>6, <1>7, <3>2, <3>4, LeafIsCopied
  <3>6. PICK Q \in Places : /\ Keeps(locks, u, Q) /\ Good(u, Q)
                            /\ \A g \in Heap : Q[g] = IF g \in ks \cup {SupremumOf(Root)} THEN Root
                                                      ELSE IF P[g] = p THEN NoPage ELSE P[g]
    BY <3>5
  <3>7. PICK q \in Pages : q = Root /\ q # p BY <3>4, HeapFacts
  <3>8. PICK heir \in Heap : heir = SupremumOf(q) /\ heir \notin Keys BY HeapFacts
  <3>9. \A g \in Heap : Q[g] = IF g \in ks \/ g = heir THEN q
                               ELSE IF Place[g] = p THEN NoPage ELSE Place[g]
    BY <1>5, <3>6, <3>7, <3>8
  <3>10. /\ \A j \in Keys : Present(j) => PageIn(tree, j) \in {p, q}
         /\ \A g : InTree(tree, g) => g = p \/ g = q
         /\ \A j \in Keys : Present(j) /\ PageIn(tree, j) = q => rows'[j] # NoRow
         /\ \A j \in ks : rows'[j] # NoRow
    BY <1>1, <1>7, <3>1 DEF Present
  <3>11. tree' = [leaves |-> <<q>>, cut |-> 0] BY <3>3, <3>7
  <3>13. q # p /\ Good(u, Q) /\ ks \subseteq Keys BY <1>7, <3>6, <3>7
  <3>12. PICK v : v = u /\ Good(v, Q) BY <3>13
  <3>14. Good(v, Place') /\ tree' \in Trees
   <4>1. ~ Stored(request) /\ k \in Keys /\ p = PageOf(k) /\ q \in Pages /\ q # p
     BY <1>3, <1>4, <3>13
   <4>2. tree' = [leaves |-> <<q>>, cut |-> 0] /\ request' = NoReq BY <1>1, <3>11
   <4>3. \A j \in Keys : Present(j) => PageIn(tree, j) \in {p, q} BY <3>10
   <4>4. \A g : InTree(tree, g) => g = p \/ g = q BY <3>10
   <4>5. \A j \in Keys : Present(j) /\ PageIn(tree, j) = q => rows'[j] # NoRow BY <3>10
   <4>6. ks \subseteq Keys /\ \A j \in ks : rows'[j] # NoRow BY <3>10, <3>13
   <4>7. heir \in Heap /\ (heir \in Keys => PageIn(tree, heir) = q /\ Present(heir)) /\ (heir \in Keys \/ heir = SupremumOf(q))
     BY <3>8
   <4>8. Good(v, Q) BY <3>12
   <4>9. \A g \in Heap : Q[g] = IF g \in ks \/ g = heir THEN q
                              ELSE IF Place[g] = p THEN NoPage ELSE Place[g]
     BY <3>9
   <4>10. Good(v, Place') BY <4>1, <4>2, <4>3, <4>4, <4>5, <4>6, <4>7, <4>8, <4>9, OneLeafIsLeft
   <4>11. tree' \in Trees BY <4>1, <4>2, <4>3, <4>4, <4>5, <4>6, <4>7, <4>8, <4>9, OneLeafIsLeft
   <4> QED BY <4>10, <4>11
  <3> QED BY <3>3, <3>6, <3>12, <3>14
 <2>2. CASE Len(tree.leaves) # 1
  <3>1. PICK q \in Pages :
           /\ q # p
           /\ \/ p = tree.leaves[1] /\ q = tree.leaves[2]
              \/ p = tree.leaves[2] /\ q = tree.leaves[1]
           /\ tree.leaves[1] # tree.leaves[2]
           /\ \A j \in Keys : PageIn(tree, j) \in {p, q}
           /\ \A g : InTree(tree, g) <=> g = p \/ g = q
    BY <1>3, <1>4, <2>2, PagesAre, HeapFacts
  <3>2. PICK rc : rc = plan.read_committed OBVIOUS
  <3>3. PICK succ : succ = LeastOr(RecordsOf(q), SupremumOf(q)) OBVIOUS
  <3>4. PICK min : min = Least(ks) OBVIOUS
  <3>5. PICK s : /\ s \in MakeRoom(q)
                 /\ locks' = IF p = tree.leaves[2] THEN MergeLeft(s, q, p, ks, min, rc)
                             ELSE MergeRight(s, p, q, ks, succ, rc)
   <4>1. q = tree.leaves[IF p = tree.leaves[1] THEN 2 ELSE 1] BY <3>1
   <4> QED BY <1>2, <1>4, <1>7, <2>2, <3>2, <3>3, <3>4, <4>1 DEF Compress
  <3>6. tree' = [leaves |-> <<q>>, cut |-> 0]
   <4>1. q = tree.leaves[IF p = tree.leaves[1] THEN 2 ELSE 1] BY <3>1
   <4> QED BY <1>2, <1>4, <2>2, <4>1 DEF Compress
  <3>7. Keeps(locks, s, P) /\ Good(s, P) BY <1>5, <3>5, MakeRoomKeeps
  <3>8. P[SupremumOf(p)] = p /\ P[SupremumOf(q)] = q BY <1>6, <3>1
  <3>9. \E Q \in Places : /\ Keeps(s, locks', Q) /\ Good(locks', Q)
                          /\ \A g \in Heap : Q[g] = IF g \in ks THEN q
                                                    ELSE IF P[g] = p THEN NoPage ELSE P[g]
   <4>1. CASE p = tree.leaves[2]
    <5>1. PICK u : u = MergeLeft(s, q, p, ks, min, rc) OBVIOUS
    <5>2. min \in ks BY <1>7, <3>4, LeastIs
    <5>3. \A j \in ks : P[j] = p BY <1>7
    <5>4. \E Q \in Places : /\ Keeps(s, u, Q) /\ Good(u, Q)
                            /\ \A g \in Heap : Q[g] = IF g \in ks THEN q
                                                      ELSE IF P[g] = p THEN NoPage ELSE P[g]
      BY <1>6, <1>7, <3>1, <3>7, <3>8, <5>1, <5>2, <5>3, LeftIsMerged
    <5> QED BY <3>5, <4>1, <5>1, <5>4
   <4>2. CASE p # tree.leaves[2]
    <5>1. PICK u : u = MergeRight(s, p, q, ks, succ, rc) OBVIOUS
    <5>2. succ \in Heap /\ P[succ] = q
     <6>1. CASE RecordsOf(q) = {} BY <3>3, <3>8, <6>1, HeapFacts DEF LeastOr
     <6>2. CASE RecordsOf(q) # {}
      <7>1. RecordsOf(q) \subseteq Keys BY DEF RecordsOf
      <7>2. succ \in RecordsOf(q) BY <3>3, <6>2, <7>1, LeastIs DEF LeastOr
      <7>3. succ \in Keys /\ Present(succ) /\ PageIn(tree, succ) = q
        BY <7>2, PageFacts DEF RecordsOf
      <7> QED BY <1>6, <7>3, HeapFacts
     <6> QED BY <6>1, <6>2
    <5>3. \A j \in ks : P[j] = p BY <1>7
    <5>4. \E Q \in Places : /\ Keeps(s, u, Q) /\ Good(u, Q)
                            /\ \A g \in Heap : Q[g] = IF g \in ks THEN q
                                                      ELSE IF P[g] = p THEN NoPage ELSE P[g]
      BY <1>6, <1>7, <3>1, <3>7, <3>8, <5>1, <5>2, <5>3, RightIsMerged
    <5> QED BY <3>5, <4>2, <5>1, <5>4
   <4> QED BY <4>1, <4>2
  <3>10. PICK Q \in Places : /\ Keeps(s, locks', Q) /\ Good(locks', Q)
                             /\ \A g \in Heap : Q[g] = IF g \in ks THEN q
                                                       ELSE IF P[g] = p THEN NoPage ELSE P[g]
    BY <3>9
  <3>11. PICK heir \in Heap : heir = SupremumOf(q) /\ heir \notin Keys BY HeapFacts
  <3>12. PICK u : u = locks' OBVIOUS
  <3>13. \A g \in Heap : Q[g] = IF g \in ks \/ g = heir THEN q
                                ELSE IF Place[g] = p THEN NoPage ELSE Place[g]
    BY <1>5, <1>7, <3>1, <3>8, <3>10, <3>11
  <3>14. /\ \A j \in Keys : Present(j) => PageIn(tree, j) \in {p, q}
         /\ \A g : InTree(tree, g) => g = p \/ g = q
         /\ \A j \in Keys : Present(j) /\ PageIn(tree, j) = q => rows'[j] # NoRow
         /\ \A j \in ks : rows'[j] # NoRow
    BY <1>1, <1>7, <3>1 DEF Present
  <3>15. Keeps(locks, u, Q) /\ Good(u, Q) BY <3>7, <3>10, <3>12, KeepsOn
  <3>16. Good(u, Place') /\ tree' \in Trees
    BY <1>1, <1>3, <1>4, <1>7, <3>1, <3>6, <3>11, <3>13, <3>14, <3>15, OneLeafIsLeft
  <3> QED BY Zenon, <3>12, <3>15, <3>16
 <2> QED BY <2>1, <2>2
<1>9. PICK Q : Keeps(locks, locks', Q) /\ Good(locks', Place') /\ tree' \in Trees BY <1>8
<1>10. RowsAreRight'
 <2>1. \A j \in Keys : \A x : Owns(locks, x, j) => Owns(locks', x, j) BY <1>9, HeapFacts DEF Keeps
 <2> QED BY <1>1, <2>1, OwnersStay
<1>11. UndoIsRight' /\ CursorIsRight' BY <1>1, UndoStays, CursorStays
<1>12. /\ NobodyNew(locks, locks') /\ request' \in Request \cup {NoReq} /\ RequestIsRight'
       /\ cursor' \in [Trxs -> Cursor] /\ rows' \in [Keys -> Row \cup {NoRow}]
       /\ undo' \in [Trxs -> Seq([key : Keys, old : Row \cup {NoRow}])]
  BY <1>1, <1>9 DEF IInv, Types, Keeps, RequestIsRight
<1> QED BY <1>1, <1>9, <1>10, <1>11, <1>12, IndexStepKeeps

\* A record that is removed, with or without its page.
LEMMA RemoveRecordKeeps ==
    ASSUME IInv, kernel = NoTrx, request = NoReq, NEW t \in Trxs \cup {NoTrx}, NEW k \in Keys, Present(k),
           RemoveRecord(t, k), rows' = [rows EXCEPT ![k] = NoRow], UNCHANGED plan
    PROVE  \E Q : /\ Keeps(locks, locks', Q) /\ Good(locks', Place') /\ tree' \in Trees
                  /\ request' \in Request \cup {NoReq} /\ RequestIsRight'
<1>1. ~ Stored(request) BY DEF Stored
<1>2. PICK p : p = PageOf(k) OBVIOUS
<1>3. PICK P \in Places : P = Place /\ Good(locks, P) BY PlaceFacts DEF IInv
<1>4. /\ p \in Pages /\ RecordsOf(p) \subseteq Keys
      /\ \A j \in Keys : P[j] = IF Present(j) THEN PageIn(tree, j) ELSE NoPage
      /\ \A j \in Keys : j \in RecordsOf(p) <=> Present(j) /\ PageIn(tree, j) = p
      /\ \A g \in Pages : P[SupremumOf(g)] = IF InTree(tree, g) THEN g ELSE NoPage
      /\ \A g \in Pages : P[InfimumOf(g)] = NoPage
  BY <1>1, <1>2, <1>3, PagesAre
<1>5. p = PageIn(tree, k) /\ P[k] = p /\ InTree(tree, p) /\ P[SupremumOf(p)] = p /\ k \in Heap
      /\ k \in RecordsOf(p)
  BY <1>2, <1>4, PageFacts, HeapFacts
<1>6. \A j \in Keys : rows'[j] # NoRow <=> Present(j) /\ j # k BY DEF IInv, Types, Present
<1>7. PICK rc : rc = plan.read_committed OBVIOUS
<1>8. CASE p # Root /\ RecordsOf(p) = {k}
 <2>1. \E q \in Pages, heir \in Heap :
          /\ q # p /\ P[heir] \in {NoPage, q}
          /\ heir \in Keys => PageIn(tree, heir) = q /\ Present(heir)
          /\ heir \in Keys \/ heir = SupremumOf(q)
          /\ \A j \in Keys : Present(j) => PageIn(tree, j) \in {p, q}
          /\ \A g : InTree(tree, g) => g = p \/ g = q
          /\ locks' = Discard(locks, p, k, q, heir, rc)
          /\ tree' = [leaves |-> <<q>>, cut |-> 0]
          /\ request' = NoReq
  <3>1. CASE Len(tree.leaves) = 1
   <4>1. /\ \A j \in Keys : PageIn(tree, j) = p
         /\ \A g : InTree(tree, g) <=> g = p
     BY <1>1, <1>2, <3>1, PagesAre
   <4>2. /\ locks' = Discard(locks, p, k, Root, SupremumOf(Root), rc)
         /\ tree' = [leaves |-> <<Root>>, cut |-> 0]
         /\ request' = NoReq
     BY <1>2, <1>7, <1>8, <3>1 DEF RemoveRecord
   <4>3. /\ Root \in Pages /\ SupremumOf(Root) \in Heap /\ SupremumOf(Root) \notin Keys
         /\ P[SupremumOf(Root)] = NoPage
     BY <1>4, <1>8, <4>1, HeapFacts
   <4> QED BY <1>8, <4>1, <4>2, <4>3
  <3>2. CASE Len(tree.leaves) # 1
   <4>1. PICK q \in Pages :
            /\ q # p
            /\ \/ p = tree.leaves[1] /\ q = tree.leaves[2]
               \/ p = tree.leaves[2] /\ q = tree.leaves[1]
            /\ tree.leaves[1] # tree.leaves[2]
            /\ \A j \in Keys : PageIn(tree, j) \in {p, q}
            /\ \A g : InTree(tree, g) <=> g = p \/ g = q
     BY <1>1, <1>2, <3>2, PagesAre, HeapFacts
   <4>2. P[SupremumOf(q)] = q BY <1>4, <4>1
   <4>3. CASE p = tree.leaves[2]
    <5>1. /\ locks' = Discard(locks, p, k, q, SupremumOf(q), rc)
          /\ tree' = [leaves |-> <<q>>, cut |-> 0]
          /\ request' = NoReq
      BY <1>2, <1>7, <1>8, <3>2, <4>1, <4>3 DEF RemoveRecord
    <5>2. SupremumOf(q) \in Heap /\ SupremumOf(q) \notin Keys BY HeapFacts
    <5> QED BY <4>1, <4>2, <5>1, <5>2
   <4>4. CASE p # tree.leaves[2]
    <5>1. PICK heir : heir = LeastOr(RecordsOf(q), SupremumOf(q)) OBVIOUS
    <5>2. /\ locks' = Discard(locks, p, k, q, heir, rc)
          /\ tree' = [leaves |-> <<q>>, cut |-> 0]
          /\ request' = NoReq
      BY <1>2, <1>7, <1>8, <3>2, <4>1, <4>4, <5>1 DEF RemoveRecord
    <5>3. /\ heir \in Heap /\ P[heir] = q
          /\ heir \in Keys => PageIn(tree, heir) = q /\ Present(heir)
          /\ heir \in Keys \/ heir = SupremumOf(q)
     <6>1. CASE RecordsOf(q) = {} BY <4>2, <5>1, <6>1, HeapFacts DEF LeastOr
     <6>2. CASE RecordsOf(q) # {}
      <7>1. RecordsOf(q) \subseteq Keys BY DEF RecordsOf
      <7>2. heir \in RecordsOf(q) BY <5>1, <6>2, <7>1, LeastIs DEF LeastOr
      <7>3. heir \in Keys /\ Present(heir) /\ PageIn(tree, heir) = q
        BY <7>2, PageFacts DEF RecordsOf
      <7> QED BY <1>4, <7>3, HeapFacts
     <6> QED BY <6>1, <6>2
    <5> QED BY <4>1, <5>2, <5>3
   <4> QED BY <4>3, <4>4
  <3> QED BY <3>1, <3>2
 <2>2. PICK q \in Pages, heir \in Heap :
          /\ q # p /\ P[heir] \in {NoPage, q}
          /\ heir \in Keys => PageIn(tree, heir) = q /\ Present(heir)
          /\ heir \in Keys \/ heir = SupremumOf(q)
          /\ \A j \in Keys : Present(j) => PageIn(tree, j) \in {p, q}
          /\ \A g : InTree(tree, g) => g = p \/ g = q
          /\ locks' = Discard(locks, p, k, q, heir, rc)
          /\ tree' = [leaves |-> <<q>>, cut |-> 0]
          /\ request' = NoReq
   BY <2>1
 <2>3. PICK u : u = Discard(locks, p, k, q, heir, rc) OBVIOUS
 <2>4. \E Q \in Places : /\ Keeps(locks, u, Q) /\ Good(u, Q)
                         /\ \A g \in Heap : Q[g] = IF g = heir THEN q
                                                   ELSE IF P[g] = p THEN NoPage ELSE P[g]
   BY <1>3, <1>4, <1>5, <2>2, <2>3, PageIsDiscarded
 <2>5. PICK Q \in Places : /\ Keeps(locks, u, Q) /\ Good(u, Q)
                           /\ \A g \in Heap : Q[g] = IF g = heir THEN q
                                                     ELSE IF P[g] = p THEN NoPage ELSE P[g]
   BY <2>4
 <2>6. PICK ks : ks = {} OBVIOUS
 <2>7. \A g \in Heap : Q[g] = IF g \in ks \/ g = heir THEN q
                              ELSE IF Place[g] = p THEN NoPage ELSE Place[g]
   BY <1>3, <2>5, <2>6
 <2>8. /\ \A j \in Keys : Present(j) /\ PageIn(tree, j) = q => rows'[j] # NoRow
       /\ \A j \in ks : rows'[j] # NoRow
       /\ ks \subseteq Keys
   BY <1>5, <1>6, <2>2, <2>6
 <2>9. Good(u, Place') /\ tree' \in Trees BY <1>1, <1>2, <2>2, <2>5, <2>7, <2>8, OneLeafIsLeft
 <2>10. RequestIsRight' BY <2>2 DEF RequestIsRight
 <2> QED BY <2>2, <2>3, <2>5, <2>9, <2>10
<1>9. CASE ~ (p # Root /\ RecordsOf(p) = {k})
 <2>1. PICK heir : heir = NextOnPage(k) OBVIOUS
 <2>2. /\ locks' = UpdateDelete(locks, k, p, heir, rc)
       /\ request' \in PerhapsCompress(t, k)
       /\ tree' = tree
   BY <1>2, <1>7, <1>9, <2>1 DEF RemoveRecord
 <2>3. heir \in Heap /\ heir # k /\ P[heir] = p
  <3>1. heir \in Keys \cup Suprema /\ heir \in Heap /\ heir # k /\ OnThePage(heir) /\ PageOf(heir) = PageOf(k)
    BY <2>1, NextIs
  <3> QED BY <1>1, <1>2, <1>3, <3>1, OnThePageIs
 <2>4. PICK u : u = UpdateDelete(locks, k, p, heir, rc) OBVIOUS
 <2>5. P[heir] \in {NoPage, p} BY <2>3
 <2>6. \E Q \in Places : /\ Keeps(locks, u, Q) /\ Good(u, Q)
                         /\ \A g \in Heap : Q[g] = IF g = heir THEN p
                                                   ELSE IF g = k THEN NoPage ELSE P[g]
   BY <1>3, <1>4, <1>5, <2>3, <2>4, <2>5, UpdateDeletes
 <2>7. PICK Q \in Places : /\ Keeps(locks, u, Q) /\ Good(u, Q)
                           /\ \A g \in Heap : Q[g] = IF g = heir THEN p
                                                     ELSE IF g = k THEN NoPage ELSE P[g]
   BY <2>6
 <2>8. \A g \in Heap : Q[g] = IF g = k THEN NoPage ELSE P[g] BY <2>3, <2>7
 <2>9. request' \in Request \cup {NoReq} /\ ~ Stored(request') /\ RequestIsRight'
  <3>1. CASE RecordsOf(p) = {k}
   <4>1. PageOf(k) # Root => rows'[k] # NoRow BY <1>2, <1>9, <3>1
   <4> QED BY <2>2, <4>1, PerhapsCompressKeeps
  <3>2. CASE RecordsOf(p) # {k}
   <4>1. PICK j \in RecordsOf(p) : j # k BY <1>5, <3>2
   <4>2. j \in Keys /\ Present(j) /\ PageOf(j) = PageOf(k) /\ rows'[j] # NoRow
     BY <1>2, <1>6, <4>1 DEF RecordsOf
   <4> QED BY <2>2, <4>2, PerhapsCompressKeeps
  <3> QED BY <3>1, <3>2
 <2>10. tree' \in Trees BY <2>2 DEF IInv, Types
 <2>11. Good(u, Place')
  <3>1. \A g \in Pages : Q[SupremumOf(g)] \in Pages => Q[SupremumOf(g)] = g /\ InTree(tree', g)
    BY <1>4, <2>2, <2>8, HeapFacts
  <3>2. \A j \in Keys : Q[j] \in Pages =>
           rows'[j] # NoRow /\ ~ (Stored(request') /\ j = request'.key) /\ Q[j] = PageIn(tree', j)
    BY <1>4, <1>6, <2>2, <2>8, <2>9, HeapFacts
  <3>3. \A g \in Pages : Q[InfimumOf(g)] \in Pages =>
           Q[InfimumOf(g)] = g /\ Stored(request') /\ g = request'.page
    BY <1>4, <2>8, HeapFacts
  <3> QED BY <2>7, <2>9, <2>10, <3>1, <3>2, <3>3, GoodNext
 <2> QED BY <2>2, <2>4, <2>7, <2>9, <2>10, <2>11
<1> QED BY <1>8, <1>9

\* A delete-marked record is removed, and its successor inherits its locks.
LEMMA PurgeKeeps ==
    ASSUME IInv, NEW k \in Keys, Purge(k), UNCHANGED plan
    PROVE  IInv'
<1>1. /\ Present(k) /\ ~ Active(rows[k].by) /\ kernel = NoTrx /\ request = NoReq
      /\ rows' = [rows EXCEPT ![k] = NoRow] /\ RemoveRecord(NoTrx, k) /\ EndLockWaits(locks')
      /\ UNCHANGED <<undo, thr, chosen, expired, error, conc_state, kernel, count, cursor, statements,
                     scanned>>
  BY DEF Purge
<1>2. PICK Q : /\ Keeps(locks, locks', Q) /\ Good(locks', Place') /\ tree' \in Trees
               /\ request' \in Request \cup {NoReq} /\ RequestIsRight'
 <2>1. PICK x \in Trxs \cup {NoTrx} : x = NoTrx OBVIOUS
 <2>2. RemoveRecord(x, k) BY <1>1, <2>1
 <2> QED BY <1>1, <2>2, RemoveRecordKeeps
<1>3. /\ rows' \in [Keys -> Row \cup {NoRow}]
      /\ \A j \in Keys : rows'[j] = IF j = k THEN NoRow ELSE rows[j]
  BY <1>1 DEF IInv, Types
<1>4. RowsAreRight'
 <2>1. \A j \in Keys : \A x : Owns(locks, x, j) => Owns(locks', x, j) BY <1>2, HeapFacts DEF Keeps
 <2>2. PICK r : r = NoRow OBVIOUS
 <2>3. \A j \in Keys : rows'[j] = IF j = k THEN r ELSE rows[j] BY <1>3, <2>2
 <2> QED BY <1>1, <2>1, <2>2, <2>3, OwnersGoOn
<1>5. UndoIsRight'
 <2> SUFFICES ASSUME NEW x \in Trxs, undo'[x] # <<>>
              PROVE  /\ conc_state'[x] = "ACTIVE"
                     /\ \A n \in DOMAIN undo'[x] :
                           LET u == undo'[x][n]
                           IN  /\ rows'[u.key] # NoRow /\ rows'[u.key].by = x
                               /\ u.old # NoRow /\ u.old.by \in Trxs /\ conc_state'[u.old.by] = "ACTIVE"
                                  => u.old.by = x
                               /\ \A m \in DOMAIN undo'[x] : m > n /\ undo'[x][m].key = u.key =>
                                     undo'[x][m].old # NoRow /\ undo'[x][m].old.by = x
   BY DEF UndoIsRight, Present, Active
 <2>1. PICK w : w = undo[x] OBVIOUS
 <2>2. undo'[x] = w /\ w # <<>> /\ conc_state[x] = "ACTIVE" /\ Active(x) /\ conc_state' = conc_state
   BY <1>1, <2>1 DEF IInv, UndoIsRight, Active
 <2>3. \A n \in DOMAIN w : /\ Present(w[n].key) /\ rows[w[n].key].by = x
                           /\ w[n].old # NoRow /\ Active(w[n].old.by) => w[n].old.by = x
                           /\ \A m \in DOMAIN w : m > n /\ w[m].key = w[n].key =>
                                 w[m].old # NoRow /\ w[m].old.by = x
   BY <2>1 DEF IInv, UndoIsRight
 <2>4. \A n \in DOMAIN w : w[n].key \in Keys /\ w[n].key # k
  <3> SUFFICES ASSUME NEW n \in DOMAIN w PROVE w[n].key \in Keys /\ w[n].key # k OBVIOUS
  <3>1. w \in Seq([key : Keys, old : Row \cup {NoRow}]) BY <2>1 DEF IInv, Types
  <3>2. w[n] \in [key : Keys, old : Row \cup {NoRow}] BY <3>1, ElementIs
  <3> QED BY <1>1, <2>2, <2>3, <3>2
 <2>5. \A n \in DOMAIN w : rows'[w[n].key] # NoRow /\ rows'[w[n].key].by = x
   BY <1>3, <2>3, <2>4 DEF Present
 <2> QED BY <2>2, <2>3, <2>5 DEF Active
<1>6. CursorIsRight'
 <2> SUFFICES ASSUME NEW x \in Trxs, conc_state'[x] = "ACTIVE" /\ cursor'[x].new
              PROVE  /\ cursor'[x].key \in Keys
                     /\ rows'[cursor'[x].key] # NoRow => rows'[cursor'[x].key].by # x
   BY DEF CursorIsRight, Present
 <2>1. cursor[x].new /\ conc_state[x] = "ACTIVE" /\ cursor' = cursor BY <1>1
 <2>2. cursor[x].key \in Keys /\ (rows[cursor[x].key] # NoRow => rows[cursor[x].key].by # x)
   BY <2>1 DEF IInv, CursorIsRight, Present
 <2> QED BY <1>3, <2>1, <2>2
<1>7. /\ NobodyNew(locks, locks') /\ cursor' \in [Trxs -> Cursor]
      /\ undo' \in [Trxs -> Seq([key : Keys, old : Row \cup {NoRow}])]
  BY <1>1, <1>2 DEF IInv, Types, Keeps
<1> QED BY <1>1, <1>2, <1>3, <1>4, <1>5, <1>6, <1>7, IndexStepKeeps

\* A sequence without its last element.
LEMMA FrontIs ==
    ASSUME NEW S, NEW z \in Seq(S), z # <<>>, NEW y, y = SubSeq(z, 1, Len(z) - 1)
    PROVE  /\ Len(z) \in DOMAIN z
           /\ y \in Seq(S) /\ \A n \in DOMAIN y : n \in DOMAIN z /\ n < Len(z) /\ y[n] = z[n]
<1>1. Len(z) \in Nat /\ DOMAIN z = 1 .. Len(z) /\ Len(z) # 0 OBVIOUS
<1>2. y = [n \in 1 .. (Len(z) - 1) |-> z[n]] BY <1>1
<1>3. DOMAIN y = 1 .. (Len(z) - 1) /\ \A n \in 1 .. (Len(z) - 1) : n \in DOMAIN z /\ n < Len(z) /\ y[n] = z[n]
  BY <1>1, <1>2
<1>4. Len(z) - 1 \in Nat /\ \A n \in 1 .. (Len(z) - 1) : z[n] \in S BY <1>1, <1>3
<1>5. y \in Seq(S) BY <1>2, <1>4
<1> QED BY <1>1, <1>3, <1>5

\* The last change is undone: the record as it was, or removed if it was an insert.
LEMMA RollbackOneKeeps ==
    ASSUME IInv, NEW t \in Trxs, RollbackOne(t), UNCHANGED plan
    PROVE  IInv'
<1>1. PICK z : z = undo[t] OBVIOUS
<1>2. /\ z \in Seq([key : Keys, old : Row \cup {NoRow}]) /\ z # <<>>
      /\ Len(z) \in Nat /\ Len(z) >= 1 /\ DOMAIN z = 1 .. Len(z) /\ Len(z) \in DOMAIN z
 <2>1. z \in Seq([key : Keys, old : Row \cup {NoRow}]) /\ z # <<>>
   BY <1>1 DEF IInv, Types, RollbackOne
 <2>2. Len(z) \in Nat /\ DOMAIN z = 1 .. Len(z) /\ Len(z) # 0 BY <2>1
 <2> QED BY <2>1, <2>2
<1>3. PICK e \in [key : Keys, old : Row \cup {NoRow}] : e = z[Len(z)] BY <1>2, ElementIs
<1>4. PICK k \in Keys, r \in Row \cup {NoRow} : k = e.key /\ r = e.old OBVIOUS
<1>5. PICK y : y = SubSeq(z, 1, Len(z) - 1) OBVIOUS
<1>6. /\ Active(t) /\ kernel = NoTrx /\ request = NoReq
      /\ rows' = [rows EXCEPT ![k] = r]
      /\ IF r = NoRow THEN RemoveRecord(t, k) ELSE UNCHANGED <<locks, tree, request>>
      /\ undo' = [undo EXCEPT ![t] = y]
      /\ EndLockWaits(locks')
      /\ cursor' = [cursor EXCEPT ![t] = NoCursor]
      /\ UNCHANGED <<thr, chosen, expired, error, conc_state, kernel, count, statements, scanned>>
  BY <1>1, <1>3, <1>4, <1>5 DEF RollbackOne
<1>7. /\ y \in Seq([key : Keys, old : Row \cup {NoRow}])
      /\ \A n \in DOMAIN y : n \in DOMAIN z /\ n < Len(z) /\ y[n] = z[n]
 <2>1. PICK S : S = [key : Keys, old : Row \cup {NoRow}] OBVIOUS
 <2>2. z \in Seq(S) BY <1>2, <2>1
 <2>3. y \in Seq(S) /\ \A n \in DOMAIN y : n \in DOMAIN z /\ n < Len(z) /\ y[n] = z[n]
   BY <1>2, <1>5, <2>2, FrontIs
 <2> QED BY <2>1, <2>3
<1>8. /\ undo' \in [Trxs -> Seq([key : Keys, old : Row \cup {NoRow}])]
      /\ \A x \in Trxs : undo'[x] = IF x = t THEN y ELSE undo[x]
  BY <1>6, <1>7 DEF IInv, Types
<1>9. /\ rows' \in [Keys -> Row \cup {NoRow}]
      /\ \A j \in Keys : rows'[j] = IF j = k THEN r ELSE rows[j]
  BY <1>6 DEF IInv, Types
<1>10. \A n \in DOMAIN z : /\ Present(z[n].key) /\ rows[z[n].key].by = t
                           /\ z[n].old # NoRow /\ Active(z[n].old.by) => z[n].old.by = t
                           /\ \A m \in DOMAIN z : m > n /\ z[m].key = z[n].key =>
                                 z[m].old # NoRow /\ z[m].old.by = t
  BY <1>1 DEF IInv, UndoIsRight
<1>11. Present(k) /\ rows[k].by = t /\ (r # NoRow /\ Active(r.by) => r.by = t)
  BY <1>2, <1>3, <1>4, <1>10
<1>12. \E Q : /\ Keeps(locks, locks', Q) /\ Good(locks', Place') /\ tree' \in Trees
              /\ request' \in Request \cup {NoReq} /\ RequestIsRight'
 <2>1. CASE r = NoRow
  <3>1. RemoveRecord(t, k) /\ rows' = [rows EXCEPT ![k] = NoRow] BY <1>6, <2>1
  <3> QED BY <1>6, <1>11, <3>1, RemoveRecordKeeps
 <2>2. CASE r # NoRow
  <3>1. locks' = locks /\ tree' = tree /\ request' = NoReq BY <1>6, <2>2
  <3>2. PICK P \in Places : P = Place /\ Good(locks, P) BY PlaceFacts DEF IInv
  <3>3. Keeps(locks, locks', P) BY <3>1, <3>2, KeepsItself
  <3>4. /\ \A j \in Keys : P[j] = IF Present(j) THEN PageIn(tree, j) ELSE NoPage
        /\ \A g \in Pages : P[SupremumOf(g)] = IF InTree(tree, g) THEN g ELSE NoPage
        /\ \A g \in Pages : P[InfimumOf(g)] = NoPage
   <4>1. ~ Stored(request) BY <1>6 DEF Stored
   <4> QED BY <3>2, <4>1, PagesAre
  <3>5. ~ Stored(request') /\ tree' \in Trees /\ request' \in Request \cup {NoReq}
    BY <3>1 DEF Stored, IInv, Types
  <3>6. Good(locks', Place')
   <4>1. \A g \in Pages : P[SupremumOf(g)] \in Pages => P[SupremumOf(g)] = g /\ InTree(tree', g)
     BY <3>1, <3>4, HeapFacts
   <4>2. \A j \in Keys : P[j] \in Pages =>
            rows'[j] # NoRow /\ ~ (Stored(request') /\ j = request'.key) /\ P[j] = PageIn(tree', j)
     BY <1>9, <2>2, <3>1, <3>4, <3>5, HeapFacts DEF Present
   <4>3. \A g \in Pages : P[InfimumOf(g)] \in Pages =>
            P[InfimumOf(g)] = g /\ Stored(request') /\ g = request'.page
     BY <3>4, HeapFacts
   <4> QED BY <3>1, <3>2, <3>5, <4>1, <4>2, <4>3, GoodNext
  <3>7. RequestIsRight' BY <3>1 DEF RequestIsRight
  <3> QED BY <3>3, <3>5, <3>6, <3>7
 <2> QED BY <2>1, <2>2
<1>13. PICK Q : /\ Keeps(locks, locks', Q) /\ Good(locks', Place') /\ tree' \in Trees
                /\ request' \in Request \cup {NoReq} /\ RequestIsRight'
  BY <1>12
<1>14. RowsAreRight'
 <2>1. \A j \in Keys : \A x : Owns(locks, x, j) => Owns(locks', x, j) BY <1>13, HeapFacts DEF Keeps
 <2>2. Owns(locks, t, k) BY <1>6, <1>11 DEF IInv, RowsAreRight
 <2>3. r # NoRow /\ Active(r.by) => Owns(locks', r.by, k) BY <1>11, <2>1, <2>2
 <2> QED BY <1>6, <1>9, <2>1, <2>3, OwnersGoOn
<1>15. UndoIsRight'
 <2> SUFFICES ASSUME NEW x \in Trxs, undo'[x] # <<>>
              PROVE  /\ conc_state'[x] = "ACTIVE"
                     /\ \A n \in DOMAIN undo'[x] :
                           LET u == undo'[x][n]
                           IN  /\ rows'[u.key] # NoRow /\ rows'[u.key].by = x
                               /\ u.old # NoRow /\ u.old.by \in Trxs /\ conc_state'[u.old.by] = "ACTIVE"
                                  => u.old.by = x
                               /\ \A m \in DOMAIN undo'[x] : m > n /\ undo'[x][m].key = u.key =>
                                     undo'[x][m].old # NoRow /\ undo'[x][m].old.by = x
   BY DEF UndoIsRight, Present, Active
 <2>1. CASE x # t
  <3>1. PICK w : w = undo[x] OBVIOUS
  <3>2. undo'[x] = w /\ w # <<>> /\ conc_state[x] = "ACTIVE" /\ conc_state' = conc_state
    BY <1>6, <1>8, <2>1, <3>1 DEF IInv, UndoIsRight
  <3>3. \A n \in DOMAIN w : /\ Present(w[n].key) /\ rows[w[n].key].by = x
                            /\ w[n].old # NoRow /\ Active(w[n].old.by) => w[n].old.by = x
                            /\ \A m \in DOMAIN w : m > n /\ w[m].key = w[n].key =>
                                  w[m].old # NoRow /\ w[m].old.by = x
    BY <3>1 DEF IInv, UndoIsRight
  <3>4. \A n \in DOMAIN w : w[n].key \in Keys /\ w[n].key # k
   <4> SUFFICES ASSUME NEW n \in DOMAIN w PROVE w[n].key \in Keys /\ w[n].key # k OBVIOUS
   <4>1. w \in Seq([key : Keys, old : Row \cup {NoRow}]) BY <3>1 DEF IInv, Types
   <4>2. w[n] \in [key : Keys, old : Row \cup {NoRow}] BY <4>1, ElementIs
   <4> QED BY <1>11, <2>1, <3>3, <4>2
  <3>5. \A n \in DOMAIN w : rows'[w[n].key] # NoRow /\ rows'[w[n].key].by = x
    BY <1>9, <3>3, <3>4 DEF Present
  <3> QED BY <3>2, <3>3, <3>5 DEF Active
 <2>2. CASE x = t
  <3>1. undo'[x] = y /\ conc_state'[x] = "ACTIVE" BY <1>6, <1>8, <2>2 DEF Active
  <3>2. \A n \in DOMAIN y : rows'[y[n].key] # NoRow /\ rows'[y[n].key].by = t
   <4> SUFFICES ASSUME NEW n \in DOMAIN y PROVE rows'[z[n].key] # NoRow /\ rows'[z[n].key].by = t
     BY <1>7
   <4>1. n \in DOMAIN z /\ Len(z) > n BY <1>2, <1>7
   <4>2. z[n] \in [key : Keys, old : Row \cup {NoRow}] BY <1>2, <4>1, ElementIs
   <4>3. CASE z[n].key = k
    <5>1. z[Len(z)].old # NoRow /\ z[Len(z)].old.by = t BY <1>2, <1>3, <1>4, <1>10, <4>1, <4>3
    <5> QED BY <1>3, <1>4, <1>9, <4>3, <5>1
   <4>4. CASE z[n].key # k BY <1>9, <1>10, <4>1, <4>2, <4>4 DEF Present
   <4> QED BY <4>3, <4>4
  <3> QED BY <1>6, <1>7, <1>10, <2>2, <3>1, <3>2 DEF Active
 <2> QED BY <2>1, <2>2
<1>16. cursor' \in [Trxs -> Cursor] /\ \A x \in Trxs : x # t => cursor'[x] = cursor[x]
  BY <1>6, NoCursorType DEF IInv, Types
<1>17. ~ cursor'[t].new BY <1>6, NoCursorType DEF IInv, Types
<1>18. CursorIsRight'
 <2> SUFFICES ASSUME NEW x \in Trxs, conc_state'[x] = "ACTIVE" /\ cursor'[x].new
              PROVE  /\ cursor'[x].key \in Keys
                     /\ rows'[cursor'[x].key] # NoRow => rows'[cursor'[x].key].by # x
   BY DEF CursorIsRight, Present
 <2>1. x # t /\ cursor'[x] = cursor[x] /\ cursor[x].new /\ conc_state[x] = "ACTIVE"
   BY <1>6, <1>16, <1>17
 <2>2. cursor[x].key \in Keys /\ (rows[cursor[x].key] # NoRow => rows[cursor[x].key].by # x)
   BY <2>1 DEF IInv, CursorIsRight, Present
 <2>3. r # NoRow => r.by # x BY <1>11, <2>1 DEF Active
 <2> QED BY <1>9, <2>1, <2>2, <2>3
<1>19. NobodyNew(locks, locks') BY <1>13 DEF Keeps
<1> QED BY <1>6, <1>8, <1>9, <1>13, <1>14, <1>15, <1>16, <1>18, <1>19, IndexStepKeeps

-----------------------------------------------------------------------------
(* The initial state *)

\* Finitely many transactions have finitely many table locks.
LEMMA FiniteLocks ==
    ASSUME NEW S, IsFiniteSet(S), NEW m
    PROVE  IsFiniteSet({NewTableLock(t, m, FALSE) : t \in S})
<1>1. PICK T : T = {NewTableLock(t, m, FALSE) : t \in S} OBVIOUS
<1>2. PICK f : f = [t \in S |-> NewTableLock(t, m, FALSE)] OBVIOUS
<1>3. f \in Surjection(S, T) BY <1>1, <1>2 DEF Surjection
<1>4. IsFiniteSet(T) BY <1>3, FS_Surjection
<1> QED BY <1>1, <1>4

\* The locks taken to begin with are table locks, IX and IS, of the transactions that
\* take part, and there is such a sequence of them.
LEMMA InitialLocksAre ==
    ASSUME plan \in Plans, NEW s, s = InitialLocks
    PROVE  /\ s \in Seq(LockStruct)
           /\ \A i \in DOMAIN s : /\ s[i].type = "TABLE" /\ s[i].bits = {} /\ ~ s[i].wait
                                  /\ s[i].mode \in {"IX", "IS"} /\ s[i].trx \in plan.trxs
<1>1. /\ plan.trxs \subseteq Trxs /\ IsFiniteSet(plan.trxs)
      /\ plan.ix \subseteq plan.trxs /\ plan.is \subseteq plan.trxs
  BY NamesAssumption DEF PlanAssumption
<1>2. PICK A : A = {NewTableLock(t, "IX", FALSE) : t \in plan.ix} OBVIOUS
<1>3. PICK B : B = {NewTableLock(t, "IS", FALSE) : t \in plan.is} OBVIOUS
<1>4. PICK held : held = A \cup B OBVIOUS
<1>5. IsFiniteSet(held)
 <2>1. IsFiniteSet(plan.ix) /\ IsFiniteSet(plan.is) BY <1>1, FS_Subset
 <2>2. IsFiniteSet(A) /\ IsFiniteSet(B) BY <1>2, <1>3, <2>1, FiniteLocks
 <2> QED BY <1>4, <2>2, FS_Union
<1>6. PICK n : n = Cardinality(held) OBVIOUS
<1>7. n \in Nat /\ ExistsBijection(1 .. n, held) BY <1>5, <1>6, FS_CardinalityType
<1>8. \E z \in [1 .. n -> held] : \A l \in held : \E i \in DOMAIN z : z[i] = l
  BY <1>7 DEF ExistsBijection, Bijection, Surjection
<1>9. s = CHOOSE z \in [1 .. n -> held] : \A l \in held : \E i \in DOMAIN z : z[i] = l
  BY <1>2, <1>3, <1>4, <1>6 DEF InitialLocks
<1>10. s \in [1 .. n -> held] BY <1>8, <1>9
<1>11. ASSUME NEW l \in held
       PROVE  /\ l \in LockStruct
              /\ l.type = "TABLE" /\ l.bits = {} /\ ~ l.wait
              /\ l.mode \in {"IX", "IS"} /\ l.trx \in plan.trxs
 <2>1. PICK t \in plan.trxs, m \in {"IX", "IS"} : l = NewTableLock(t, m, FALSE)
   BY <1>1, <1>2, <1>3, <1>4
 <2>2. /\ l.type = "TABLE" /\ l.bits = {} /\ l.wait = FALSE /\ l.mode = m /\ l.trx = t
   BY <2>1 DEF NewTableLock
 <2>3. t \in Trxs /\ m \in Modes /\ Root \in Pages /\ {} \in SUBSET Heap
   BY <1>1, <2>1, HeapFacts DEF Modes
 <2>4. l = [trx |-> t, type |-> "TABLE", mode |-> m, gap |-> "ORDINARY",
            ii |-> FALSE, page |-> Root, bits |-> {}, wait |-> FALSE]
   BY <2>1 DEF NewTableLock
 <2>5. l \in LockStruct BY <2>3, <2>4 DEF LockStruct, Gaps
 <2> QED BY <2>1, <2>2, <2>5
<1>12. DOMAIN s = 1 .. n /\ \A i \in 1 .. n : s[i] \in held BY <1>10
<1>13. s \in Seq(LockStruct) BY <1>7, <1>10, <1>11
<1> QED BY <1>11, <1>12, <1>13

\* Intention locks on the table are compatible.
LEMMA InitialLocksAreGood ==
    ASSUME NEW s \in Seq(LockStruct),
           \A i \in DOMAIN s : /\ s[i].type = "TABLE" /\ s[i].bits = {} /\ ~ s[i].wait
                               /\ s[i].mode \in {"IX", "IS"},
           NEW P
    PROVE  Good(s, P)
<1>1. Placed(s, P) /\ OneBit(s) /\ OneWait(s) /\ Blocked(s) BY DEF Placed, OneBit, OneWait, Blocked
<1>2. \A a, b \in {"IX", "IS"} : Compatible(a, b) BY DEF Compatible
<1>3. Ordered(s) BY <1>2 DEF Ordered, Clash
<1> QED BY <1>1, <1>3 DEF Good

\* The invariant holds initially.
LEMMA InitIsGood == Init => IInv
<1> SUFFICES ASSUME Init PROVE IInv OBVIOUS
<1>1. /\ plan \in Plans /\ plan.trxs \subseteq Trxs /\ plan.interval \in Nat \ {0}
      /\ plan.statements \in [plan.trxs -> Nat]
  BY NamesAssumption DEF Init, PlanAssumption
<1>2. PICK s : s = locks OBVIOUS
<1>3. /\ s \in Seq(LockStruct)
      /\ \A i \in DOMAIN s : /\ s[i].type = "TABLE" /\ s[i].bits = {} /\ ~ s[i].wait
                             /\ s[i].mode \in {"IX", "IS"} /\ s[i].trx \in plan.trxs
  BY <1>1, <1>2, InitialLocksAre DEF Init
<1>4. /\ \A t \in Trxs : /\ conc_state[t] = IF t \in plan.trxs THEN "ACTIVE" ELSE "NOT_STARTED"
                         /\ undo[t] = <<>> /\ que_state[t] = "RUNNING" /\ thr[t] = "RUNNING"
                         /\ cursor[t] = NoCursor /\ statements[t] = 0
      /\ kernel = NoTrx /\ request = NoReq /\ NoTrx \notin Trxs
  BY NamesAssumption DEF Init
<1>5. Types
 <2>1. rows \in [Keys -> Row \cup {NoRow}]
  <3>1. [by |-> NoTrx, del |-> TRUE] \in Row /\ [by |-> NoTrx, del |-> FALSE] \in Row BY DEF Row
  <3>2. \A k \in Keys : [by |-> NoTrx, del |-> k \in plan.garbage] \in Row BY DEF Row
  <3> QED BY <3>2 DEF Init
 <2>2. tree \in Trees BY DEF Init, Trees
 <2>3. NoCursor \in Cursor BY HeapFacts DEF NoCursor, Cursor
 <2>4. cursor \in [Trxs -> Cursor] BY <2>3 DEF Init
 <2>5. count \in 0 .. (plan.interval - 1) BY <1>1 DEF Init
 <2>6. statements \in [Trxs -> Nat] /\ \A t \in plan.trxs : statements[t] <= plan.statements[t]
   BY <1>1 DEF Init
 <2>7. undo \in [Trxs -> Seq([key : Keys, old : Row \cup {NoRow}])] BY DEF Init
 <2>8. /\ conc_state \in [Trxs -> {"ACTIVE", "COMMITTED_IN_MEMORY", "NOT_STARTED"}]
       /\ que_state \in [Trxs -> {"RUNNING", "LOCK_WAIT"}]
       /\ thr \in [Trxs -> {"RUNNING", "TO_SUSPEND", "SUSPENDED"}]
       /\ error \in [Trxs -> {"SUCCESS", "DEADLOCK", "LOCK_WAIT_TIMEOUT"}]
   BY DEF Init
 <2>9. chosen \in [Trxs -> BOOLEAN] /\ expired \in [Trxs -> BOOLEAN] /\ scanned \in [Trxs -> SUBSET Keys]
   BY DEF Init
 <2> QED BY <1>1, <1>4, <2>1, <2>2, <2>4, <2>5, <2>6, <2>7, <2>8, <2>9 DEF Types
<1>6. Good(locks, Place) BY <1>2, <1>3, InitialLocksAreGood
<1>7. WaitsAreRight
 <2>1. \A i \in DOMAIN locks : ~ locks[i].wait /\ conc_state[locks[i].trx] = "ACTIVE"
   BY <1>1, <1>2, <1>3, <1>4
 <2>2. NoLoop(locks, kernel) BY <2>1 DEF NoLoop, WaitsOn
 <2> QED BY <1>4, <2>1, <2>2 DEF WaitsAreRight, Active
<1>8. RequestIsRight BY <1>4 DEF RequestIsRight
<1>9. RowsAreRight
 <2>1. \A k \in Keys : Present(k) => rows[k].by = NoTrx BY DEF Present, Init
 <2> QED BY <1>4, <2>1 DEF RowsAreRight, Active
<1>10. UndoIsRight BY <1>4 DEF UndoIsRight
<1>11. CursorIsRight BY <1>4 DEF CursorIsRight, NoCursor
<1> QED BY <1>5, <1>6, <1>7, <1>8, <1>9, <1>10, <1>11 DEF IInv

-----------------------------------------------------------------------------
(* Every step *)

\* Nothing changes.
LEMMA StuttersKeep ==
    ASSUME IInv, UNCHANGED vars
    PROVE  IInv'
<1>1. /\ UNCHANGED <<plan, locks, rows, tree, undo, conc_state, que_state, thr, chosen, expired>>
      /\ UNCHANGED <<error, kernel, count, request, cursor, statements, scanned>>
  BY DEF vars
<1>2. Place' = Place BY <1>1, PlaceStays
<1>3. Types' BY <1>1 DEF IInv, Types, Cursor
<1>5. WaitsAreRight' BY <1>1 DEF IInv, WaitsAreRight, Active
<1>6. RequestIsRight' BY <1>1 DEF IInv, RequestIsRight, Active, Present, PageOf, RecordsOf
<1>7. RowsAreRight' /\ UndoIsRight' /\ CursorIsRight'
  BY <1>1 DEF IInv, RowsAreRight, UndoIsRight, CursorIsRight, Active, Present
<1>4. Good(locks, Place)' BY <1>1, <1>2 DEF IInv
<1> QED BY <1>3, <1>4, <1>5, <1>6, <1>7 DEF IInv

\* A new request.
LEMMA StatementKeeps ==
    ASSUME IInv, NEW t \in Trxs, Statement(t), UNCHANGED plan
    PROVE  IInv'
<1>1. CASE \E m \in plan.tables : LockTable(t, m) BY <1>1, LockTableKeeps
<1>2. CASE \E m \in plan.reads, g \in Gaps, h \in Heap : ReadCheckAndLock(t, m, g, h)
  BY <1>2, ReadCheckAndLockKeeps
<1>3. CASE \E k \in Keys, del \in BOOLEAN : ModifyCheckAndLock(t, k, del)
  BY <1>3, ModifyCheckAndLockKeeps
<1>4. CASE \E k \in Keys : InsertCheckAndLock(t, k) BY <1>4, InsertCheckAndLockKeeps
<1>5. CASE UnlockAutoInc(t) BY <1>5, UnlockAutoIncKeeps
<1>6. CASE UnlockRow(t) BY <1>6, UnlockRowKeeps
<1> QED BY <1>1, <1>2, <1>3, <1>4, <1>5, <1>6 DEF Statement

\* Every outcome of the deadlock check.
LEMMA DeadlockCheckKeeps ==
    ASSUME IInv, NEW t \in Trxs, DeadlockCheck(t), UNCHANGED plan
    PROVE  IInv'
<1>1. CASE \E w \in Trxs : VictimIsOther(t, w) BY <1>1, VictimIsOtherKeeps
<1>2. CASE VictimIsStart(t) BY <1>2, VictimIsStartKeeps
<1>3. CASE StartLockWait(t) BY <1>3, StartLockWaitKeeps
<1>4. CASE GrantedMeanwhile(t) BY <1>4, GrantedMeanwhileKeeps
<1> QED BY <1>1, <1>2, <1>3, <1>4 DEF DeadlockCheck

\* What the code goes on with.
LEMMA ProceedKeeps ==
    ASSUME IInv, NEW t \in Trxs, Proceed(t), UNCHANGED plan
    PROVE  IInv'
<1>1. CASE Insert(t) BY <1>1, InsertKeeps
<1>2. CASE UpdateInPlace(t) BY <1>2, UpdateInPlaceKeeps
<1>3. CASE StoreOnPageInfimum(t) BY <1>3, StoreOnPageInfimumKeeps
<1>4. CASE Split(t) BY <1>4, SplitKeeps
<1>5. CASE RestoreFromPageInfimum(t) BY <1>5, RestoreFromPageInfimumKeeps
<1>6. CASE DeadlockCheck(t) BY <1>6, DeadlockCheckKeeps
<1>7. CASE SrvSuspend(t) BY <1>7, SrvSuspendKeeps
<1>8. CASE Resume(t) BY <1>8, ResumeKeeps
<1>9. CASE ReleaseLock(t) BY <1>9, ReleaseLockKeeps
<1>10. CASE Released(t) BY <1>10, ReleasedKeeps
<1> QED BY <1>1, <1>2, <1>3, <1>4, <1>5, <1>6, <1>7, <1>8, <1>9, <1>10 DEF Proceed

\* Every step keeps the invariant.
LEMMA NextKeeps ==
    ASSUME IInv, [Next]_vars
    PROVE  IInv'
<1>1. CASE UNCHANGED vars BY <1>1, StuttersKeep
<1>2. CASE Next
 <2>1. UNCHANGED plan BY <1>2 DEF Next
 <2>2. ASSUME NEW t \in Trxs, Statement(t)
       PROVE  IInv'
   BY <2>1, <2>2, StatementKeeps
 <2>3. ASSUME NEW t \in Trxs, Proceed(t)
       PROVE  IInv'
   BY <2>1, <2>3, ProceedKeeps
 <2>4. ASSUME NEW t \in Trxs, Expire(t)
       PROVE  IInv'
   BY <2>1, <2>4, ExpireKeeps
 <2>5. ASSUME NEW t \in Trxs, TimeoutCancels(t)
       PROVE  IInv'
   BY <2>1, <2>5, TimeoutCancelsKeeps
 <2>6. ASSUME NEW t \in Trxs, SemiConsistentRead(t)
       PROVE  IInv'
   BY <2>1, <2>6, SemiConsistentReadKeeps
 <2>7. ASSUME NEW t \in Trxs, RollbackOne(t)
       PROVE  IInv'
   BY <2>1, <2>7, RollbackOneKeeps
 <2>8. ASSUME NEW t \in Trxs, EndTrx(t)
       PROVE  IInv'
   BY <2>1, <2>8, EndTrxKeeps
 <2>9. ASSUME NEW k \in Keys, Purge(k)
       PROVE  IInv'
   BY <2>1, <2>9, PurgeKeeps
 <2>10. CASE Compress BY <2>1, <2>10, CompressKeeps
 <2>11. CASE Terminated BY <2>11, StuttersKeep DEF Terminated
 <2> QED BY <1>2, <2>2, <2>3, <2>4, <2>5, <2>6, <2>7, <2>8, <2>9, <2>10, <2>11 DEF Next
<1> QED BY <1>1, <1>2

-----------------------------------------------------------------------------
(* What the invariant says *)

\* Outside a row operation every bit is on the page of a record that is there, or on
\* the supremum of a leaf.
LEMMA BitsAreOnThePage ==
    ASSUME IInv, request = NoReq, NEW i \in DOMAIN locks, NEW h \in locks[i].bits
    PROVE  h \in Keys \cup Suprema /\ OnThePage(h) /\ PageOf(h) = locks[i].page
<1>1. PICK P : P = Place /\ Good(locks, P) BY DEF IInv
<1>2. locks[i] \in LockStruct BY LocksAre
<1>3. h \in Heap /\ locks[i].page \in Pages /\ locks[i].page = P[h]
  BY <1>1, <1>2 DEF LockStruct, Good, Placed
<1>4. ~ Stored(request) BY DEF Stored
<1>5. /\ \A k \in Keys : P[k] = IF Present(k) THEN PageOf(k) ELSE NoPage
      /\ \A p \in Pages : P[SupremumOf(p)] = IF InTree(tree, p) THEN p ELSE NoPage
      /\ \A p \in Pages : P[InfimumOf(p)] = NoPage
  BY <1>1, <1>4, PlaceFacts
<1>6. P[h] \in Pages BY <1>3
<1>7. CASE h \in Keys
 <2>1. Present(h) /\ P[h] = PageOf(h) BY <1>5, <1>6, <1>7, HeapFacts
 <2>2. OnThePage(h) BY <1>7, <2>1, PageFacts
 <2> QED BY <1>3, <1>7, <2>1, <2>2
<1>8. CASE h \notin Keys
 <2>1. PICK p \in Pages : h = SupremumOf(p) \/ h = InfimumOf(p) BY <1>3, <1>8, HeapIs
 <2>2. h = SupremumOf(p) /\ InTree(tree, p) /\ P[h] = p BY <1>5, <1>6, <2>1, HeapFacts
 <2>3. PageOf(h) = p /\ h \in Suprema BY <2>2, PageFacts, HeapFacts
 <2>4. OnThePage(h) BY <1>8, <2>2, <2>3, PageFacts
 <2> QED BY <1>3, <2>2, <2>3, <2>4
<1> QED BY <1>7, <1>8

\* The types follow.
LEMMA InvariantTypes == IInv => TypeOK
<1> SUFFICES ASSUME IInv PROVE TypeOK OBVIOUS
<1>1. /\ rows \in [Keys -> Row \cup {NoRow}]
      /\ undo \in [Trxs -> Seq([key : Keys, old : Row \cup {NoRow}])]
      /\ conc_state \in [Trxs -> {"ACTIVE", "COMMITTED_IN_MEMORY", "NOT_STARTED"}]
      /\ que_state \in [Trxs -> {"RUNNING", "LOCK_WAIT"}]
      /\ thr \in [Trxs -> {"RUNNING", "TO_SUSPEND", "SUSPENDED"}]
      /\ chosen \in [Trxs -> BOOLEAN]
      /\ expired \in [Trxs -> BOOLEAN]
      /\ error \in [Trxs -> {"SUCCESS", "DEADLOCK", "LOCK_WAIT_TIMEOUT"}]
  BY DEF IInv, Types
<1>2. /\ kernel \in Trxs \cup {NoTrx}
      /\ count \in 0 .. (plan.interval - 1)
      /\ request \in Request \cup {NoReq}
      /\ cursor \in [Trxs -> Cursor]
      /\ statements \in [Trxs -> Nat]
      /\ \A t \in plan.trxs : statements[t] <= plan.statements[t]
      /\ scanned \in [Trxs -> SUBSET Keys]
  BY DEF IInv, Types
<1>3. tree \in [leaves : {<<Root>>, <<1>>, <<2>>, <<1, 2>>, <<2, 1>>}, cut : {0} \cup Keys]
  BY DEF IInv, Types, Trees
<1>4. locks \in Seq(LockStruct) BY LocksAre
<1>5. \A i \in DOMAIN locks : locks[i].wait =>
         /\ locks[i].type = "REC" => \E h \in Heap : locks[i].bits = {h}
         /\ \A j \in DOMAIN locks : locks[j].wait /\ locks[j].trx = locks[i].trx => i = j
         /\ que_state[locks[i].trx] = "LOCK_WAIT" \/ kernel = locks[i].trx
 <2>1. OneBit(locks) /\ OneWait(locks) BY DEF IInv, Good
 <2>2. \A i \in DOMAIN locks : locks[i].wait =>
          que_state[locks[i].trx] = "LOCK_WAIT" \/ kernel = locks[i].trx
   BY DEF IInv, WaitsAreRight
 <2> QED BY <2>1, <2>2 DEF OneBit, OneWait
<1>6. request = NoReq => \A i \in DOMAIN locks : \A h \in locks[i].bits :
         h \in Keys \cup Suprema /\ OnThePage(h) /\ PageOf(h) = locks[i].page
  BY BitsAreOnThePage
<1>7. \A i \in DOMAIN locks : conc_state[locks[i].trx] # "NOT_STARTED" BY DEF IInv, WaitsAreRight
<1> QED BY <1>1, <1>2, <1>3, <1>4, <1>5, <1>6, <1>7 DEF TypeOK

\* Of two granted locks one is ahead of the other; who changed a row owns it.
LEMMA InvariantExcludes == IInv => LocksExclude
<1> SUFFICES ASSUME IInv PROVE LocksExclude OBVIOUS
<1>1. Ordered(locks) BY DEF IInv, Good
<1>2. ASSUME NEW h \in Keys, NEW l, LocksRecord(l, h)
      PROVE  h \in Heap /\ Holds(l, h)
  BY <1>2, HeapFacts DEF LocksRecord, Holds
<1>3. ASSUME NEW i \in DOMAIN locks, NEW j \in DOMAIN locks, ~ locks[i].wait, ~ locks[j].wait,
             ClashOn(locks[i], locks[j])
      PROVE  FALSE
 <2>1. PICK k, l : k = locks[i] /\ l = locks[j] OBVIOUS
 <2>2. ClashOn(k, l) BY <1>3, <2>1
 <2>3. Clash(k, l) /\ Clash(l, k)
  <3>1. k.trx # l.trx /\ ~ Compatible(k.mode, l.mode) /\ ~ Compatible(l.mode, k.mode)
    BY <2>2, CompatibleIsSymmetric DEF ClashOn
  <3>2. \/ k.type = "TABLE" /\ l.type = "TABLE"
        \/ \E h \in Heap : Holds(k, h) /\ Holds(l, h)
    BY <1>2, <2>2 DEF ClashOn
  <3> QED BY <3>1, <3>2 DEF Clash
 <2>4. i # j BY <2>1, <2>3 DEF Clash
 <2>5. i \in Int /\ j \in Int BY LocksAre
 <2>6. i < j \/ j < i BY <2>4, <2>5
 <2> QED BY <1>1, <1>3, <2>1, <2>3, <2>6 DEF Ordered
<1>4. GrantedLocksCompatible BY <1>3 DEF GrantedLocksCompatible
<1>5. ASSUME NEW k \in Keys, Present(k), Active(rows[k].by),
             NEW i \in DOMAIN locks, LocksRecord(locks[i], k), ~ locks[i].wait
      PROVE  locks[i].trx = rows[k].by
 <2>1. Owns(locks, rows[k].by, k) BY <1>5 DEF IInv, RowsAreRight
 <2>2. Holds(locks[i], k) BY <1>2, <1>5
 <2> QED BY <1>5, <2>1, <2>2 DEF Owns
<1>6. ImplicitLockExclusive BY <1>5 DEF ImplicitLockExclusive
<1> QED BY <1>4, <1>6 DEF LocksExclude

\* That waiters are blocked is part of the invariant.
LEMMA InvariantBlocks == IInv => WaitersAreBlocked
BY DEF IInv, Good, Blocked, WaitersAreBlocked

\* With nobody under check there is no circle at all.
LEMMA InvariantHasNoCycle == IInv => NoCycle
<1> SUFFICES ASSUME IInv, kernel = NoTrx, NEW C \in SUBSET Trxs, C # {}
             PROVE  \E x \in C : \A y \in C : ~ WaitsFor(x, y)
  BY DEF NoCycle, Free
<1>1. \A x, y : WaitsFor(x, y) <=> WaitsOn(locks, x, y) BY DEF WaitsFor, WaitsOn
<1>2. NoLoop(locks, NoTrx) /\ NoTrx \notin C BY NamesAssumption DEF IInv, WaitsAreRight
<1> QED BY <1>1, <1>2 DEF NoLoop

-----------------------------------------------------------------------------
(* The theorems *)

\* In every behaviour of the lock system, whatever its plan, the lock table is in
\* order and its bits are where the records are, whoever waits is known to the
\* thread that suspends it, an active transaction is the owner of every row it has
\* changed, and a row operation between two of its steps still has what it checked.
THEOREM InductiveInvariant == Spec => []IInv
<1>1. Init => IInv BY InitIsGood
<1>2. IInv /\ [Next]_vars => IInv' BY NextKeeps
<1> QED BY <1>1, <1>2, PTL DEF Spec

\* Every variable keeps its type; no transaction waits for two locks, and none has a
\* lock after its end; no bit is left on a page that its record is no longer on, by
\* any insert, split, merge, purge or rollback.
THEOREM TypeCorrect == Spec => []TypeOK
<1>1. IInv => TypeOK BY InvariantTypes
<1> QED BY <1>1, InductiveInvariant, PTL

\* No two transactions are ever granted conflicting locks, on the table or a record,
\* and nobody is granted one on a row that another active transaction has changed,
\* although grants, conversions of implicit locks and inherited locks do not look at
\* the whole queue.
THEOREM LocksAreExclusive == Spec => []LocksExclude
<1>1. IInv => LocksExclude BY InvariantExcludes
<1> QED BY <1>1, InductiveInvariant, PTL

\* A request that waits is always behind one it conflicts with: whatever takes a lock
\* out of a queue, or a bit from a record, grants the requests whose turn has come.
THEOREM WaitersBlocked == Spec => []WaitersAreBlocked
<1>1. IInv => WaitersAreBlocked BY InvariantBlocks
<1> QED BY <1>1, InductiveInvariant, PTL

\* Whenever kernel_mutex is free no transactions wait for each other in a circle: the
\* search from the request that is enqueued finds every circle it closes, and no
\* grant, inherited lock, conversion of an implicit lock or move of a queue to another
\* page makes anybody wait for more.
THEOREM DeadlocksAreFound == Spec => []NoCycle
<1>1. IInv => NoCycle BY InvariantHasNoCycle
<1> QED BY <1>1, InductiveInvariant, PTL
=============================================================================
