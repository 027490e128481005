----------------------------- MODULE MvccProofs -----------------------------
(***************************************************************************)
(* Proofs about multiversioning: for every number of transactions, keys    *)
(* and changes, every open view reads every record as it was committed     *)
(* when the view was opened, plus the changes of its creator; ids, numbers *)
(* and the history list agree, and purge sees no more than the oldest view.*)
(***************************************************************************)
EXTENDS Mvcc, FiniteSetTheorems, SequenceTheorems, WellFoundedInduction, TLAPS

-----------------------------------------------------------------------------
(* The invariant: ids and numbers *)

OpenViews == [trx_ids : SUBSET Nat, up_limit_id : Nat, low_limit_id : Nat,
              low_limit_no : Nat, creator : Trxs,
              type : {"NORMAL", "HIGH_GRANULARITY"}, undo_no : 0 .. MaxOps,
              snap : [Keys -> Version \cup {NoRow}]]

TrxTypes ==
    /\ max_trx_id \in Nat \ {0}
    /\ pc \in [Trxs -> {"NEW", "RUN", "NUMBERED", "IN_HISTORY", "DONE"}]
    /\ trx_id \in [Trxs -> Nat \ {0}] /\ trx_no \in [Trxs -> Nat \ {0}]
    /\ logs \in [Trxs -> SUBSET {"INSERT", "UPDATE", "DEL_MARKS"}]
HistoryTypes ==
    /\ rseg_mutex \in Trxs \cup {NoTrx}
    /\ history \in Seq(Trxs)
    /\ rseg_last \in Trxs \cup {NoTrx}
ViewTypes == view_list \in Seq(OpenViews) /\ purge_view \in View
PurgeTypes ==
    /\ purge_sys \in [state : {"ON", "TRUNCATE", "STOP"}, trx_no : Nat,
                      undo_no : Nat, next_stored : BOOLEAN,
                      log : Trxs \cup {NoTrx}, un : Nat, handled : BOOLEAN]
    /\ task \in [log : Trxs \cup {NoTrx}, un : 0 .. MaxOps]
    /\ gone \in [Trxs -> 0 .. MaxOps]
RowTypes ==
    /\ rows \in [Keys -> Version \cup {NoRow}]
    /\ undo \in [Trxs -> Seq(UndoRec)]
    /\ held \in [Trxs -> SUBSET Keys]
    /\ rolling \in [Trxs -> [limit : 0 .. MaxOps, next : 0 .. MaxOps,
                             remove : Keys \cup {NoRow}, on : BOOLEAN]]
    /\ ops \in [Trxs -> 0 .. MaxOps]
Types == TrxTypes /\ HistoryTypes /\ ViewTypes /\ PurgeTypes /\ RowTypes

Numbered(t) == \/ pc[t] \in {"NUMBERED", "IN_HISTORY"}
               \/ pc[t] = "DONE" /\ "UPDATE" \in logs[t]
NumberedTrxs == {t \in Trxs : Numbered(t)}

\* Ids and numbers are drawn from one counter.
IdsAreRight ==
    /\ max_trx_id = 1 + Cardinality(Started) + Cardinality(NumberedTrxs)
    /\ \A t \in Trxs : IF pc[t] = "NEW" THEN trx_id[t] = Infinity
                       ELSE trx_id[t] < max_trx_id
    /\ \A t \in Trxs : IF Numbered(t) THEN trx_no[t] < max_trx_id
                       ELSE trx_no[t] = Infinity
    /\ \A t, u \in Started : trx_id[t] = trx_id[u] => t = u

\* Who has the mutex of the rollback segment has the greatest number.
HistoryIsRight ==
    /\ \A t \in Trxs : pc[t] \in {"NUMBERED", "IN_HISTORY"} => "UPDATE" \in logs[t]
    /\ \A t \in Trxs : pc[t] = "NUMBERED" <=> rseg_mutex = t
    /\ \A i \in DOMAIN history : /\ pc[history[i]] \in {"IN_HISTORY", "DONE"}
                                 /\ Numbered(history[i])
    /\ \A i, j \in DOMAIN history : i < j => trx_no[history[i]] < trx_no[history[j]]
    /\ \A t \in Trxs, i \in DOMAIN history :
           pc[t] = "NUMBERED" => trx_no[history[i]] < trx_no[t]
    /\ rseg_last # NoTrx => pc[rseg_last] \in {"IN_HISTORY", "DONE"} /\ Numbered(rseg_last)

-----------------------------------------------------------------------------
(* The invariant: views and purge *)

Knows(v, t) == Sees(v, trx_id[t])

\* What the limits of a view are, and that numbers and ids agree.
LimitsAreRight(v) ==
    /\ v.low_limit_id \in 1 .. max_trx_id /\ v.low_limit_no \in 1 .. max_trx_id
    /\ 0 \notin v.trx_ids /\ v.up_limit_id = Min(v.trx_ids \cup {v.low_limit_id})
    /\ \A t \in Started : trx_no[t] < v.low_limit_no => Knows(v, t)
ViewIsRight(v) ==
    /\ LimitsAreRight(v)
    /\ Active(v.creator) /\ trx_no[v.creator] >= v.low_limit_no
    /\ \A t \in Started : Knows(v, t) => ~Active(t) \/ t = v.creator
    /\ v.type = "NORMAL" <=> Knows(v, v.creator)
    /\ v.type = "HIGH_GRANULARITY" => pc[v.creator] = "RUN"
ViewsAreRight ==
    /\ \A i \in DOMAIN view_list : ViewIsRight(view_list[i])
    /\ \A i, j \in DOMAIN view_list :
          /\ view_list[i].creator = view_list[j].creator
          /\ view_list[i].type = view_list[j].type
          => i = j
    \* A view sees what older ones see, but for what their creators do themselves.
    /\ \A i, j \in DOMAIN view_list : i < j =>
          \A t \in Started \ {view_list[j].creator} :
              Knows(view_list[j], t) => Knows(view_list[i], t)

\* All views see what t did.
SeenByAll(t) == pc[t] = "DONE" /\ \A i \in DOMAIN view_list : Knows(view_list[i], t)

PurgeViewIsRight ==
    /\ LimitsAreRight(purge_view)
    /\ \A t \in Started : Knows(purge_view, t) => SeenByAll(t)
GoneIsRight == \A t \in Trxs : gone[t] > 0 => SeenByAll(t)
PositionIsRight(p) ==
    /\ p.un \in 0 .. MaxOps /\ p.undo_no \in 0 .. MaxOps
    /\ p.next_stored => /\ p.log \in Trxs /\ pc[p.log] \in {"IN_HISTORY", "DONE"}
                        /\ Numbered(p.log) /\ p.trx_no = trx_no[p.log]
                        /\ p.un \in 0 .. Len(undo[p.log])
PurgeIsRight ==
    /\ PositionIsRight(purge_sys)
    /\ task # NoTask => /\ purge_sys.state = "ON"
                        /\ task.log \in Trxs /\ SeenByAll(task.log)
                        /\ task.un \in 0 .. Len(undo[task.log])

-----------------------------------------------------------------------------
(* The invariant: versions *)

Real(v) == v # NoRow /\ v.by # NoTrx
IsVersion(v, k) ==
    Real(v) => /\ v.by \in Started /\ v.un \in DOMAIN undo[v.by]
               /\ undo[v.by][v.un].key = k
               /\ v.del <=> undo[v.by][v.un].type = "DEL_MARK"
               /\ v.ins <=> undo[v.by][v.un].type = "INSERT"
Own(v, t) == v # NoRow /\ v.by = t

\* The undo record n of t: what it restores was made by t before, with no other
\* change of the record in between, or by others that have ended.
UndoIsRight(t, n) ==
    LET u == undo[t][n]
    IN  /\ IsVersion(u.old, u.key) /\ (Own(u.old, NoTrx) => u.old = Original)
        /\ u.type = "INSERT" <=> u.old = NoRow
        /\ u.type = "UPD_DEL" => u.old.del
        /\ u.type # "INSERT" => /\ "UPDATE" \in logs[t]
                                /\ pc[t] # "DONE" => u.key \in held[t]
        /\ IF Own(u.old, t)
           THEN /\ u.old.un < n
                /\ \A m \in u.old.un + 1 .. n - 1 : undo[t][m].key # u.key
           ELSE /\ Real(u.old) => pc[u.old.by] = "DONE"
                /\ \A m \in 1 .. n - 1 : undo[t][m].key # u.key
UndosAreRight ==
    \A t \in Trxs :
        /\ Len(undo[t]) <= ops[t] /\ (pc[t] = "NEW" => undo[t] = <<>>)
        /\ \A n \in DOMAIN undo[t] : UndoIsRight(t, n)

\* How many changes of t are not to be undone.
Kept(t) == IF rolling[t].on THEN rolling[t].limit ELSE Len(undo[t])
RowIsRight(k) ==
    /\ IsVersion(rows[k], k) /\ (Own(rows[k], NoTrx) => rows[k] = Original)
    /\ \A t \in Trxs : Active(t) =>
          \A n \in DOMAIN undo[t] :
              undo[t][n].key = k /\ n <= Kept(t) => Own(rows[k], t) /\ rows[k].un >= n
RollingIsRight(t) ==
    LET r == rolling[t]
    IN  /\ IF r.on THEN pc[t] = "RUN" ELSE r = NoRoll
        /\ r.next \in 0 .. Len(undo[t]) /\ (r.next # 0 => r.next > r.limit)
        /\ r.remove # NoRow =>
              /\ r.remove \in held[t]
              /\ \/ rows[r.remove] = NoRow
                 \/ /\ rows[r.remove].del
                    /\ rows[r.remove].by = t \/ ~Active(rows[r.remove].by)

-----------------------------------------------------------------------------
(* The invariant: chains of versions *)

\* c is the record and what it was before, back to its insert.
IsChain(c, k) ==
    /\ c \in Seq(Version \cup {NoRow}) /\ Len(c) > 0 /\ c[1] = rows[k]
    /\ \A i \in DOMAIN c : IsVersion(c[i], k) /\ (Own(c[i], NoTrx) => c[i] = Original)
    /\ \A i \in 1 .. Len(c) - 1 : Real(c[i]) /\ c[i + 1] = undo[c[i].by][c[i].un].old
    /\ ~Real(c[Len(c)])
    /\ \A i, j \in DOMAIN c : i < j /\ Real(c[j]) =>
          /\ Active(c[j].by) => c[i].by = c[j].by
          /\ c[i].by = c[j].by => c[i].un > c[j].un
    /\ Real(rows[k]) /\ Active(rows[k].by) =>
          \A n \in 1 .. rows[k].un : undo[rows[k].by][n].key = k =>
              \E i \in DOMAIN c : Own(c[i], rows[k].by) /\ c[i].un = n

\* Leaving out what its creator has done and what it does not see, the view reads
\* what was committed when it was opened.
Unseen(v, x) == x # NoRow /\ (x.by = v.creator \/ ~Sees(v, IdOf(x.by)))
Reads(v, c, k) ==
    \E i \in DOMAIN c :
        /\ ~Unseen(v, c[i])
        /\ \A j \in 1 .. i - 1 : Unseen(v, c[j])
        /\ Visible(c[i]) = Visible(v.snap[k])
ChainIsRight(k) ==
    \E c \in Seq(Version \cup {NoRow}) :
        IsChain(c, k) /\ \A i \in DOMAIN view_list : Reads(view_list[i], c, k)

IInv ==
    /\ Types
    /\ IdsAreRight /\ HistoryIsRight
    /\ ViewsAreRight /\ PurgeViewIsRight
    /\ GoneIsRight /\ PurgeIsRight
    /\ UndosAreRight
    /\ \A t \in Trxs : RollingIsRight(t)
    /\ \A k \in Keys : RowIsRight(k) /\ ChainIsRight(k)
-----------------------------------------------------------------------------
(* Numbers, sets and sequences *)

\* A set of numbers that is not empty has a least element.
LEMMA LeastExists ==
    ASSUME NEW T \in SUBSET Nat, T # {}
    PROVE  \E x \in T : \A y \in T : x <= y
<1> DEFINE R == OpToRel(<, Nat)
<1>1. IsWellFoundedOn(R, Nat) BY NatLessThanWellFounded
<1>2. \A x, y \in Nat : ~ (<<y, x>> \in R) => x <= y BY DEF OpToRel
<1> HIDE DEF R
<1>3. PICK x \in T : \A y \in T : ~ (<<y, x>> \in R) BY <1>1, WFMin
<1> QED BY <1>2, <1>3

\* What Min and Max of the community modules return.
LEMMA MinIsLeast ==
    ASSUME NEW T \in SUBSET Nat, T # {}
    PROVE  Min(T) \in T /\ \A y \in T : Min(T) <= y
  BY LeastExists DEF Min

\* A bounded set of numbers that is not empty has a greatest element.
LEMMA MaxIsGreatest ==
    ASSUME NEW n \in Nat, NEW T \in SUBSET (0 .. n), T # {}
    PROVE  Max(T) \in T /\ \A y \in T : Max(T) >= y
<1> DEFINE D == {n - y : y \in T}
<1>1. D \in SUBSET Nat /\ D # {}
 <2>1. \A y \in T : y \in 0 .. n /\ n - y \in Nat OBVIOUS
 <2> QED BY <2>1
<1> HIDE DEF D
<1>2. PICK d \in D : \A e \in D : d <= e BY <1>1, LeastExists
<1>3. PICK x \in T : d = n - x BY DEF D
<1>4. \A y \in T : n - y \in D BY DEF D
<1>5. \A y \in T : x >= y BY <1>2, <1>3, <1>4
<1> QED BY <1>5 DEF Max

\* What RemoveAt leaves of a sequence: the entries after the removed one move up.
LEMMA RemoveAtProperties ==
    ASSUME NEW S, NEW q \in Seq(S), NEW i \in DOMAIN q
    PROVE  /\ RemoveAt(q, i) \in Seq(S)
           /\ Len(RemoveAt(q, i)) = Len(q) - 1
           /\ \A j \in 1 .. Len(q) - 1 : RemoveAt(q, i)[j] = IF j < i THEN q[j] ELSE q[j + 1]
<1> DEFINE a == SubSeq(q, 1, i - 1)
           b == SubSeq(q, i + 1, Len(q))
<1>1. i \in 1 .. Len(q) /\ Len(q) \in Nat OBVIOUS
<1>2. a \in Seq(S) /\ Len(a) = i - 1 /\ \A j \in 1 .. i - 1 : a[j] = q[j] BY <1>1
<1>3. b \in Seq(S) /\ Len(b) = Len(q) - i /\ \A j \in 1 .. Len(q) - i : b[j] = q[i + j] BY <1>1
<1>4. RemoveAt(q, i) = a \o b BY DEF RemoveAt
<1> HIDE DEF a, b
<1>5. /\ a \o b \in Seq(S)
      /\ Len(a \o b) = Len(q) - 1
      /\ \A j \in 1 .. Len(q) - 1 : (a \o b)[j] = IF j <= Len(a) THEN a[j] ELSE b[j - Len(a)]
  BY SMTT(30), <1>1, <1>2, <1>3, ConcatProperties
<1>6. ASSUME NEW j \in 1 .. Len(q) - 1, j < i
      PROVE  (a \o b)[j] = q[j]
 <2>1. j <= Len(a) /\ j \in 1 .. i - 1 BY <1>1, <1>2, <1>6
 <2> QED BY <2>1, <1>2, <1>5
<1>7. ASSUME NEW j \in 1 .. Len(q) - 1, ~ (j < i)
      PROVE  (a \o b)[j] = q[j + 1]
 <2>1. (a \o b)[j] = b[j - (i - 1)] /\ j - (i - 1) \in 1 .. Len(q) - i BY <1>2, <1>5, <1>7
 <2>2. b[j - (i - 1)] = q[i + (j - (i - 1))] BY <1>3, <2>1
 <2> QED BY <2>1, <2>2
<1> QED BY <1>4, <1>5, <1>6, <1>7

-----------------------------------------------------------------------------
(* What views see *)

\* Visibility by the two limits and the ids between them.
LEMMA SeesMeans ==
    ASSUME NEW v, v.trx_ids \in SUBSET Nat, v.low_limit_id \in Nat,
           v.up_limit_id = Min(v.trx_ids \cup {v.low_limit_id}), NEW x \in Nat
    PROVE  Sees(v, x) <=> x < v.low_limit_id /\ x \notin v.trx_ids
<1> DEFINE up == Min(v.trx_ids \cup {v.low_limit_id})
<1>1. up \in v.trx_ids \cup {v.low_limit_id} /\ \A y \in v.trx_ids \cup {v.low_limit_id} : up <= y
  BY MinIsLeast
<1> HIDE DEF up
<1>2. Sees(v, x) <=> x < up \/ (x < v.low_limit_id /\ x \notin v.trx_ids) BY DEF Sees, up
<1> QED BY <1>1, <1>2

\* There are fewer ids and numbers than there may be.
LEMMA CounterIsSmall ==
    ASSUME Types, IdsAreRight
    PROVE  /\ Infinity \in Nat /\ max_trx_id < Infinity
           /\ Cardinality(Started) \in Nat /\ Cardinality(NumberedTrxs) \in Nat
           /\ IsFiniteSet(Started) /\ IsFiniteSet(NumberedTrxs)
<1>1. Started \in SUBSET Trxs /\ NumberedTrxs \in SUBSET Trxs /\ IsFiniteSet(Trxs)
  BY MvccAssumption DEF Started, NumberedTrxs
<1>2. /\ IsFiniteSet(Started) /\ Cardinality(Started) <= Cardinality(Trxs)
      /\ IsFiniteSet(NumberedTrxs) /\ Cardinality(NumberedTrxs) <= Cardinality(Trxs)
  BY <1>1, FS_Subset
<1>3. Cardinality(Started) \in Nat /\ Cardinality(NumberedTrxs) \in Nat /\ Cardinality(Trxs) \in Nat
  BY <1>1, <1>2, FS_CardinalityType
<1> QED BY <1>2, <1>3 DEF IdsAreRight, Infinity

-----------------------------------------------------------------------------
(* What all steps have in common *)

\* Transactions go on and keep their ids and numbers; new ones are drawn from the
\* counter.
Later ==
    /\ max_trx_id' \in Nat /\ max_trx_id <= max_trx_id'
    /\ \A t \in Started : pc'[t] # "NEW" /\ trx_id'[t] = trx_id[t]
    /\ \A t \in Trxs \ Started : pc'[t] = "NEW" \/ trx_id'[t] >= max_trx_id
    /\ \A t \in Trxs : trx_no'[t] = trx_no[t] \/ trx_no'[t] >= max_trx_id
    /\ \A t \in Trxs : pc[t] = "DONE" => pc'[t] = "DONE"

\* No transaction gets further in its life.
NobodyEnds ==
    /\ UNCHANGED trxVars
    /\ \A t \in Trxs : (Numbered(t)' <=> Numbered(t)) /\ logs[t] \subseteq logs'[t]

\* Views are closed at most.
FewerViews ==
    \E g \in [DOMAIN view_list' -> DOMAIN view_list] :
        /\ \A i \in DOMAIN view_list' : view_list'[i] = view_list[g[i]]
        /\ \A i, j \in DOMAIN view_list' : i < j => g[i] < g[j]

\* A step in which no transaction gets further is one of those.
LEMMA NobodyEndsLater ==
    ASSUME Types, NobodyEnds
    PROVE  Later /\ Started' = Started /\ NumberedTrxs' = NumberedTrxs
  BY DEF Types, TrxTypes, NobodyEnds, Later, trxVars, Started, NumberedTrxs

\* Leaving the list alone closes none.
LEMMA SameViews ==
    ASSUME Types, UNCHANGED view_list
    PROVE  FewerViews
<1>1. DOMAIN view_list \in SUBSET Int BY DEF Types, ViewTypes
<1> DEFINE g == [i \in DOMAIN view_list |-> i]
<1>2. g \in [DOMAIN view_list' -> DOMAIN view_list] OBVIOUS
<1> QED BY <1>2 DEF FewerViews

\* One view is closed (read_view_close): the others stay, in their order.
LEMMA RemovedView ==
    ASSUME Types, NEW k \in DOMAIN view_list, view_list' = RemoveAt(view_list, k)
    PROVE  /\ FewerViews /\ view_list' \in Seq(OpenViews)
           /\ \A i \in DOMAIN view_list' : \E j \in DOMAIN view_list \ {k} : view_list'[i] = view_list[j]
<1>1. /\ view_list' \in Seq(OpenViews) /\ Len(view_list') = Len(view_list) - 1
      /\ \A j \in 1 .. Len(view_list) - 1 :
             view_list'[j] = IF j < k THEN view_list[j] ELSE view_list[j + 1]
  BY RemoveAtProperties DEF Types, ViewTypes
<1>2. /\ Len(view_list) \in Nat /\ k \in 1 .. Len(view_list)
      /\ DOMAIN view_list = 1 .. Len(view_list) /\ DOMAIN view_list' = 1 .. Len(view_list) - 1
  BY <1>1 DEF Types, ViewTypes
<1> DEFINE g == [i \in DOMAIN view_list' |-> IF i < k THEN i ELSE i + 1]
<1>3. g \in [DOMAIN view_list' -> DOMAIN view_list] BY <1>2
<1>4. \A i \in DOMAIN view_list' : view_list'[i] = view_list[g[i]] /\ g[i] # k BY <1>1, <1>2
<1>5. \A i, j \in DOMAIN view_list' : i < j => g[i] < g[j] BY <1>2
<1> QED BY ZenonT(60), <1>1, <1>3, <1>4, <1>5 DEF FewerViews

-----------------------------------------------------------------------------
(* Chains of versions *)

\* Who has started stays started and does not become active again.
LEMMA StartedStays ==
    ASSUME Later, NEW t \in Started
    PROVE  t \in Started' /\ trx_id'[t] = trx_id[t] /\ (Active(t)' => Active(t))
  BY DEF Later, Started, Active

\* A view that does not see a version never comes to see it: ids stay.
LEMMA UnseenStays ==
    ASSUME Later, NEW x \in Version \cup {NoRow}, NEW k, IsVersion(x, k)
    PROVE  \A v \in OpenViews : Unseen(v, x)' <=> Unseen(v, x)
<1>1. x # NoRow => IdOf(x.by)' = IdOf(x.by) BY StartedStays DEF IsVersion, Real, IdOf
<1> QED BY <1>1 DEF Unseen, Sees

\* The first undo records of t, up to n, stay.
SameUndo(t, n) == \A m \in 1 .. n : m \in DOMAIN undo'[t] /\ undo'[t][m] = undo[t][m]

\* A version stays one as long as the undo records up to its own stay.
LEMMA VersionStays ==
    ASSUME Types, Later, NEW x \in Version \cup {NoRow}, NEW k, IsVersion(x, k),
           Real(x) => SameUndo(x.by, x.un)
    PROVE  IsVersion(x, k)' /\ (Real(x)' <=> Real(x))
<1>1. Real(x)' <=> Real(x) BY DEF Real
<1>2. ASSUME Real(x)
      PROVE  IsVersion(x, k)'
 <2>1. x.by \in Started' /\ x.un \in DOMAIN undo[x.by] /\ x.un \in 0 .. MaxOps
   BY <1>2, StartedStays DEF IsVersion, Real, Version
 <2>2. x.by \in Trxs /\ undo[x.by] \in Seq(UndoRec) BY <1>2 DEF IsVersion, Started, Types, RowTypes
 <2>3. x.un \in 1 .. x.un BY <2>1, <2>2
 <2> QED BY <1>2, <2>1, <2>3 DEF IsVersion, SameUndo
<1> QED BY <1>1, <1>2 DEF IsVersion

\* d is the chain c from its s-th version on.
Rest(c, s, d) ==
    /\ d \in Seq(Version \cup {NoRow}) /\ Len(d) = Len(c) - s + 1
    /\ \A i \in DOMAIN d : d[i] = c[i + s - 1]

\* What is left of a chain when versions are taken off its beginning is a chain.
LEMMA ChainStays ==
    ASSUME Types, Later, NEW k \in Keys, NEW c \in Seq(Version \cup {NoRow}), IsChain(c, k),
           NEW s \in DOMAIN c, rows'[k] = c[s], NEW d, Rest(c, s, d),
           \A i \in DOMAIN d : Real(d[i]) => SameUndo(d[i].by, d[i].un)
    PROVE  IsChain(d, k)'
<1>1. /\ d \in Seq(Version \cup {NoRow}) /\ Len(d) > 0 /\ Len(d) \in Nat
      /\ DOMAIN d = 1 .. Len(d) /\ DOMAIN c = 1 .. Len(c) /\ Len(c) \in Nat
      /\ s \in 1 .. Len(c) /\ Len(d) = Len(c) - s + 1
  BY DEF Rest
<1>0. \A m \in s .. Len(c) : m - s + 1 \in DOMAIN d /\ d[m - s + 1] = c[m]
 <2> TAKE m \in s .. Len(c)
 <2>1. m - s + 1 \in DOMAIN d /\ (m - s + 1) + s - 1 = m BY <1>1
 <2> QED BY <2>1 DEF Rest
<1>2. d[1] = c[s] /\ 1 \in DOMAIN d /\ d[Len(d)] = c[Len(c)]
 <2>1. s - s + 1 = 1 /\ Len(c) - s + 1 = Len(d) /\ s \in s .. Len(c) /\ Len(c) \in s .. Len(c)
   BY <1>1
 <2> QED BY <1>0, <2>1
<1>3. ASSUME NEW i \in DOMAIN d
      PROVE  /\ IsVersion(d[i], k)' /\ (Own(d[i], NoTrx)' => d[i] = Original)
             /\ Real(d[i])' <=> Real(d[i])
             /\ IsVersion(d[i], k) /\ d[i] \in Version \cup {NoRow}
 <2>1. i + s - 1 \in DOMAIN c /\ d[i] = c[i + s - 1] BY <1>1 DEF Rest
 <2>2. IsVersion(d[i], k) /\ (Own(d[i], NoTrx) => d[i] = Original) BY <2>1 DEF IsChain
 <2>3. d[i] \in Version \cup {NoRow} BY <1>1
 <2>4. IsVersion(d[i], k)' /\ (Real(d[i])' <=> Real(d[i])) BY <2>2, <2>3, VersionStays
 <2> QED BY <2>2, <2>3, <2>4 DEF Own
<1>4. ASSUME NEW i \in 1 .. Len(d) - 1
      PROVE  Real(d[i])' /\ d[i + 1] = undo'[d[i].by][d[i].un].old
 <2>1. /\ i + s - 1 \in 1 .. Len(c) - 1 /\ d[i] = c[i + s - 1]
       /\ d[i + 1] = c[(i + s - 1) + 1]
  <3>1. /\ i + s - 1 \in s .. Len(c) - 1 /\ (i + s - 1) - s + 1 = i
        /\ i + s \in s .. Len(c) /\ (i + s) - s + 1 = i + 1 /\ (i + s - 1) + 1 = i + s
   <4>1. i \in Nat /\ s \in Nat /\ i >= 1 /\ i <= Len(c) - s /\ Len(c) \in Nat BY <1>1
   <4>2. (i + s - 1) - s + 1 = i /\ (i + s) - s + 1 = i + 1 /\ (i + s - 1) + 1 = i + s BY <4>1
   <4>3. \A n, r, j \in Nat :
            1 <= j /\ j <= n - r => j + r - 1 \in r .. n - 1 /\ j + r \in r .. n
     OBVIOUS
   <4>4. i + s - 1 \in s .. Len(c) - 1 /\ i + s \in s .. Len(c) BY <4>1, <4>3
   <4> QED BY <4>2, <4>4
  <3>2. i + s - 1 \in s .. Len(c) /\ i + s - 1 \in 1 .. Len(c) - 1
   <4>1. \A x \in s .. Len(c) - 1 : x \in s .. Len(c) /\ x \in 1 .. Len(c) - 1 BY <1>1
   <4> QED BY <3>1, <4>1
  <3>3. d[(i + s - 1) - s + 1] = c[i + s - 1] BY <1>0, <3>2
  <3>4. d[(i + s) - s + 1] = c[i + s] BY <1>0, <3>1
  <3> QED BY <3>1, <3>2, <3>3, <3>4
 <2>2. Real(d[i]) /\ d[i + 1] = undo[d[i].by][d[i].un].old BY ZenonT(60), <2>1 DEF IsChain
 <2>3. i \in DOMAIN d BY <1>1
 <2>4. SameUndo(d[i].by, d[i].un) BY <2>2, <2>3
 <2>5. d[i].by \in Trxs /\ d[i].un \in DOMAIN undo[d[i].by]
   BY Zenon, <1>3, <2>2, <2>3 DEF IsVersion, Started
 <2>6. d[i].un \in 1 .. d[i].un BY SMTT(30), <2>5 DEF Types, RowTypes
 <2> QED BY <1>3, <2>2, <2>3, <2>4, <2>6 DEF SameUndo
<1>5. ~ Real(d[Len(d)])' BY <1>1, <1>2, <1>3 DEF IsChain
<1>6. ASSUME NEW i \in DOMAIN d, NEW j \in DOMAIN d, i < j, Real(d[j])'
      PROVE  /\ Active(d[j].by)' => d[i].by = d[j].by
             /\ d[i].by = d[j].by => d[i].un > d[j].un
 <2>1. /\ i + s - 1 \in DOMAIN c /\ j + s - 1 \in DOMAIN c /\ i + s - 1 < j + s - 1
       /\ d[i] = c[i + s - 1] /\ d[j] = c[j + s - 1]
   BY <1>1, <1>6 DEF Rest
 <2>2. Real(d[j]) BY <1>3, <1>6
 <2>3. d[j].by \in Started BY <1>3, <2>2 DEF IsVersion
 <2>4. Active(d[j].by)' => Active(d[j].by) BY <2>3, StartedStays
 <2>5. /\ Active(d[j].by) => d[i].by = d[j].by
       /\ d[i].by = d[j].by => d[i].un > d[j].un
   BY <2>1, <2>2 DEF IsChain
 <2> QED BY <2>4, <2>5
<1>7. ASSUME Real(rows[k])', Active(rows[k].by)',
             NEW n \in 1 .. rows'[k].un, undo'[rows'[k].by][n].key = k
      PROVE  \E i \in DOMAIN d : Own(d[i], rows[k].by)' /\ d[i].un = n
 <2> DEFINE t == d[1].by
 <2>1. rows'[k] = d[1] /\ Real(d[1]) /\ n \in 1 .. d[1].un BY <1>2, <1>3, <1>7
 <2>2. t \in Started /\ d[1].un \in 0 .. MaxOps BY <1>2, <1>3, <2>1 DEF IsVersion, Real, Version
 <2>3. Active(t) BY <1>7, <2>1, <2>2, StartedStays
 <2>4. undo[t][n].key = k BY <1>2, <1>7, <2>1 DEF SameUndo
 <2>5. rows[k] = c[1] /\ Real(rows[k]) /\ rows[k].by = t /\ n \in 1 .. rows[k].un
  <3>1. CASE s = 1 BY <1>2, <2>1, <3>1 DEF IsChain
  <3>2. CASE s # 1
   <4>1. 1 \in DOMAIN c /\ 1 < s /\ Real(c[s]) /\ 1 \in 1 .. Len(c) - 1 BY <1>1, <1>2, <2>1, <3>2
   <4>2. c[1].by = c[s].by /\ c[1].un > c[s].un BY <1>2, <2>3, <4>1 DEF IsChain
   <4>3. Real(c[1]) /\ c[1] \in Version \cup {NoRow} BY <4>1 DEF IsChain
   <4>4. c[1].un \in 0 .. MaxOps BY <4>3 DEF Real, Version
   <4>5. n \in 1 .. c[1].un BY <1>2, <2>1, <2>2, <4>2, <4>4
   <4> QED BY <1>2, <4>2, <4>3, <4>5 DEF IsChain
  <3> QED BY <3>1, <3>2
 <2>6. PICK i \in DOMAIN c : Own(c[i], t) /\ c[i].un = n BY <2>3, <2>4, <2>5 DEF IsChain
 <2>7. i >= s
  <3> SUFFICES ASSUME i < s  PROVE FALSE BY <1>1
  <3>1. Real(c[s]) /\ c[i].by = c[s].by BY <1>2, <2>1, <2>6 DEF Own
  <3>2. c[i].un > c[s].un BY <3>1 DEF IsChain
  <3> QED BY <1>2, <2>1, <2>2, <2>6, <3>2
 <2>8. i - s + 1 \in DOMAIN d /\ d[i - s + 1] = c[i] BY <1>1, <1>0, <2>7
 <2> QED BY <2>1, <2>6, <2>8 DEF Own
<1>8. \A i \in DOMAIN d : IsVersion(d[i], k)' /\ (Own(d[i], NoTrx)' => d[i] = Original) BY <1>3
<1>9. d[1] = rows'[k] BY <1>2
<1> QED BY <1>1, <1>8, <1>9, <1>4, <1>5, <1>6, <1>7 DEF IsChain

\* What a view reads of a record does not change when the versions that are
\* taken off the chain are not seen by it.
LEMMA ReadsStay ==
    ASSUME Types, Later, NEW k \in Keys, NEW c \in Seq(Version \cup {NoRow}), IsChain(c, k),
           NEW s \in DOMAIN c, NEW d, Rest(c, s, d),
           NEW v \in OpenViews, Reads(v, c, k), \A j \in 1 .. s - 1 : Unseen(v, c[j])
    PROVE  Reads(v, d, k)'
<1>1. /\ DOMAIN d = 1 .. Len(d) /\ Len(d) \in Nat /\ DOMAIN c = 1 .. Len(c) /\ Len(c) \in Nat
      /\ s \in 1 .. Len(c) /\ Len(d) = Len(c) - s + 1
  BY DEF Rest
<1>2. PICK i \in DOMAIN c : /\ ~ Unseen(v, c[i])
                            /\ \A j \in 1 .. i - 1 : Unseen(v, c[j])
                            /\ Visible(c[i]) = Visible(v.snap[k])
  BY DEF Reads
<1>3. i >= s BY <1>1, <1>2
<1>4. \A j \in DOMAIN c : Unseen(v, c[j])' <=> Unseen(v, c[j])
 <2> TAKE j \in DOMAIN c
 <2>1. c[j] \in Version \cup {NoRow} /\ IsVersion(c[j], k) BY DEF IsChain
 <2> QED BY <2>1, UnseenStays
<1>5. \A j \in DOMAIN d : j + s - 1 \in DOMAIN c /\ d[j] = c[j + s - 1] BY <1>1 DEF Rest
<1>6. i - s + 1 \in DOMAIN d /\ d[i - s + 1] = c[i] BY <1>1, <1>3, <1>5
<1>7. ~ Unseen(v, d[i - s + 1])' BY <1>2, <1>4, <1>6
<1>8. \A j \in 1 .. (i - s + 1) - 1 : Unseen(v, d[j])'
 <2> TAKE j \in 1 .. (i - s + 1) - 1
 <2>1. j \in DOMAIN d /\ j + s - 1 \in 1 .. i - 1 BY <1>1, <1>3
 <2> QED BY <2>1, <1>2, <1>4, <1>5
<1>9. Visible(d[i - s + 1])' = Visible(v.snap[k]) BY <1>2, <1>6 DEF Visible
<1>10. Visible(v.snap[k])' = Visible(v.snap[k]) BY DEF Visible
<1> QED BY <1>6, <1>7, <1>8, <1>9, <1>10 DEF Reads

\* The chain of a record that a step does not change, when no undo record that
\* the chain goes through is lost.
LEMMA ChainIsKept ==
    ASSUME Types, Later, FewerViews, NEW k \in Keys, ChainIsRight(k), rows'[k] = rows[k],
           \A t \in Started : \A n \in DOMAIN undo[t] : undo[t][n].key = k =>
               SameUndo(t, n) \/ (Active(t) /\ ~ (Own(rows[k], t) /\ rows[k].un >= n))
    PROVE  ChainIsRight(k)'
<1>1. PICK c \in Seq(Version \cup {NoRow}) :
          IsChain(c, k) /\ \A i \in DOMAIN view_list : Reads(view_list[i], c, k)
  BY DEF ChainIsRight
<1>2. PICK g \in [DOMAIN view_list' -> DOMAIN view_list] :
          \A i \in DOMAIN view_list' : view_list'[i] = view_list[g[i]]
  BY DEF FewerViews
<1>3. 1 \in DOMAIN c /\ rows'[k] = c[1] /\ c[1] = rows[k] /\ Rest(c, 1, c) BY <1>1 DEF IsChain, Rest
<1>4. ASSUME NEW i \in DOMAIN c, Real(c[i])
      PROVE  SameUndo(c[i].by, c[i].un)
 <2>1. IsVersion(c[i], k) /\ c[i] \in Version \cup {NoRow} BY <1>1 DEF IsChain
 <2>2. c[i].by \in Started /\ c[i].un \in DOMAIN undo[c[i].by] /\ undo[c[i].by][c[i].un].key = k
   BY <1>4, <2>1 DEF IsVersion
 <2>3. c[i].un \in 0 .. MaxOps /\ MaxOps \in Nat BY <1>4, <2>1, MvccAssumption DEF Real, Version
 <2>4. SUFFICES ASSUME Active(c[i].by), ~ (Own(rows[k], c[i].by) /\ rows[k].un >= c[i].un)
                PROVE  FALSE
   BY <2>2
 <2>5. i # 1
  <3>1. Own(c[i], c[i].by) /\ c[i].un >= c[i].un BY <1>4, <2>3 DEF Own, Real
  <3> QED BY <1>3, <2>4, <3>1
 <2>6. 1 < i BY <2>5
 <2>7. c[1].by = c[i].by /\ c[1].un > c[i].un BY <1>1, <1>3, <1>4, <2>4, <2>6 DEF IsChain
 <2>8. Real(c[1]) BY <1>1, <2>6 DEF IsChain
 <2>9. c[1].un \in 0 .. MaxOps
  <3>1. c[1] \in Version \cup {NoRow} BY <1>1, <1>3 DEF IsChain
  <3> QED BY <2>8, <3>1 DEF Real, Version
 <2> QED BY <1>3, <2>3, <2>4, <2>7, <2>8, <2>9 DEF Own, Real
<1>5. IsChain(c, k)'
 <2>1. \A i \in DOMAIN c : Real(c[i]) => SameUndo(c[i].by, c[i].un) BY <1>4
 <2> QED BY <1>1, <1>3, <2>1, ChainStays
<1>6. ASSUME NEW i \in DOMAIN view_list'
      PROVE  Reads(view_list[i], c, k)'
 <2>1. view_list[g[i]] \in OpenViews /\ g[i] \in DOMAIN view_list /\ view_list'[i] = view_list[g[i]]
   BY <1>2 DEF Types, ViewTypes
 <2>2. Reads(view_list[g[i]], c, k) BY <1>1, <2>1
 <2>3. \A v \in OpenViews : Reads(v, c, k) => Reads(v, c, k)' BY <1>1, <1>3, ReadsStay
 <2> QED BY <2>1, <2>2, <2>3
<1> QED BY <1>1, <1>5, <1>6 DEF ChainIsRight

-----------------------------------------------------------------------------
(* A change of a record *)

ChangeTypes == {"INSERT", "UPD_DEL", "UPD_EXIST", "DEL_MARK"}
Record(type, k) == [type |-> type, key |-> k, old |-> rows[k]]
NewVersion(t, type) == [by |-> t, un |-> Len(undo[t]) + 1, del |-> type = "DEL_MARK",
                        ins |-> type = "INSERT"]

\* What can be said of the state in which a transaction changes a record.
LEMMA Changing ==
    ASSUME IInv, NEW t \in Trxs, NEW k \in Keys, NEW type \in ChangeTypes, Change(t, k, type)
    PROVE  /\ pc[t] = "RUN" /\ ~ rolling[t].on /\ t \in Started /\ Active(t)
           /\ undo[t] \in Seq(UndoRec) /\ Len(undo[t]) \in Nat /\ Len(undo[t]) + 1 \in 1 .. MaxOps
           /\ ops[t] + 1 \in 0 .. MaxOps
           /\ Record(type, k) \in UndoRec /\ NewVersion(t, type) \in Version
           /\ Len(undo[t]) <= ops[t]
<1>1. pc[t] = "RUN" /\ ~ rolling[t].on /\ ops[t] < MaxOps BY DEF Change, Runs
<1>2. undo[t] \in Seq(UndoRec) /\ ops[t] \in 0 .. MaxOps /\ MaxOps \in Nat
  BY MvccAssumption DEF IInv, Types, RowTypes
<1>3. Len(undo[t]) \in Nat /\ Len(undo[t]) <= ops[t] BY <1>2 DEF IInv, UndosAreRight
<1>4. Len(undo[t]) + 1 \in 1 .. MaxOps /\ ops[t] + 1 \in 0 .. MaxOps BY <1>1, <1>2, <1>3
<1>5. Record(type, k) \in UndoRec BY DEF ChangeTypes, Record, UndoRec, IInv, Types, RowTypes
<1>6. NewVersion(t, type) \in Version BY <1>4 DEF NewVersion, Version
<1> QED BY <1>1, <1>2, <1>3, <1>4, <1>5, <1>6 DEF Started, Active

\* What it does.
LEMMA Changed ==
    ASSUME IInv, NEW t \in Trxs, NEW k \in Keys, NEW type \in ChangeTypes, Change(t, k, type)
    PROVE  /\ undo' = [undo EXCEPT ![t] = Append(undo[t], Record(type, k))]
           /\ rows' = [rows EXCEPT ![k] = NewVersion(t, type)]
           /\ undo'[t] \in Seq(UndoRec) /\ Len(undo'[t]) = Len(undo[t]) + 1
           /\ undo'[t][Len(undo[t]) + 1] = Record(type, k)
           /\ \A n \in 1 .. Len(undo[t]) : undo'[t][n] = undo[t][n]
           /\ \A u \in Trxs \ {t} : undo'[u] = undo[u]
           /\ rows'[k] = NewVersion(t, type) /\ \A q \in Keys \ {k} : rows'[q] = rows[q]
<1>1. undo[t] \in Seq(UndoRec) /\ Record(type, k) \in UndoRec BY Changing
<1>2. undo \in [Trxs -> Seq(UndoRec)] /\ rows \in [Keys -> Version \cup {NoRow}]
  BY DEF IInv, Types, RowTypes
<1>3. undo' = [undo EXCEPT ![t] = Append(undo[t], Record(type, k))] BY <1>2 DEF Change, Record
<1>4. rows' = [rows EXCEPT ![k] = NewVersion(t, type)] BY <1>2 DEF Change, NewVersion
<1>5. undo'[t] = Append(undo[t], Record(type, k)) /\ \A u \in Trxs \ {t} : undo'[u] = undo[u]
  BY <1>2, <1>3
<1> DEFINE r == Record(type, k)
<1>6. undo'[t] = Append(undo[t], r) /\ r \in UndoRec BY <1>1, <1>5
<1> HIDE DEF r
<1>7. /\ undo'[t] \in Seq(UndoRec) /\ Len(undo'[t]) = Len(undo[t]) + 1
      /\ undo'[t][Len(undo[t]) + 1] = r /\ \A n \in 1 .. Len(undo[t]) : undo'[t][n] = undo[t][n]
  BY <1>1, <1>6
<1>8. rows'[k] = NewVersion(t, type) /\ \A q \in Keys \ {k} : rows'[q] = rows[q] BY <1>2, <1>4
<1> QED BY <1>3, <1>4, <1>5, <1>7, <1>8 DEF r

\* It neither changes numbers nor views, nor the undo records there are.
LEMMA ChangeIsLater ==
    ASSUME IInv, NEW t \in Trxs, NEW k \in Keys, NEW type \in ChangeTypes, Change(t, k, type)
    PROVE  /\ NobodyEnds /\ Later /\ FewerViews /\ UNCHANGED view_list
           /\ \A u \in Trxs : \A n \in DOMAIN undo[u] : SameUndo(u, n)
<1>1. pc[t] = "RUN" /\ undo[t] \in Seq(UndoRec) BY Changing
<1>2. UNCHANGED trxVars /\ UNCHANGED view_list /\ Types BY DEF Change, IInv
<1>3. /\ \A u \in Trxs \ {t} : logs'[u] = logs[u]
      /\ \A u \in Trxs : logs[u] \subseteq logs'[u]
  BY DEF Change, IInv, Types, TrxTypes
<1>4. NobodyEnds BY <1>1, <1>2, <1>3 DEF NobodyEnds, Numbered, trxVars
<1>5. Later /\ FewerViews BY <1>2, <1>4, NobodyEndsLater, SameViews
<1>6. ASSUME NEW u \in Trxs, NEW n \in DOMAIN undo[u]
      PROVE  SameUndo(u, n)
 <2>1. undo[u] \in Seq(UndoRec) /\ DOMAIN undo[u] = 1 .. Len(undo[u]) /\ Len(undo[u]) \in Nat
   BY <1>2 DEF Types, RowTypes
 <2>2. CASE u = t
  <3>1. Len(undo'[t]) = Len(undo[t]) + 1 /\ undo'[t] \in Seq(UndoRec) BY Changed
  <3>2. \A m \in 1 .. Len(undo[t]) : undo'[t][m] = undo[t][m] BY Changed
  <3>3. DOMAIN undo'[t] = 1 .. Len(undo[t]) + 1 BY <3>1
  <3>4. \A m \in 1 .. n : m \in 1 .. Len(undo[t]) /\ m \in 1 .. Len(undo[t]) + 1 BY <2>1, <2>2
  <3> QED BY <2>2, <3>2, <3>3, <3>4 DEF SameUndo
 <2>3. CASE u # t
  <3>1. undo'[u] = undo[u] BY <2>3, Changed
  <3> QED BY <2>1, <3>1 DEF SameUndo
 <2> QED BY <2>2, <2>3
<1> QED BY <1>2, <1>4, <1>5, <1>6

\* The chain of the changed record: the new version comes before the old ones.
LEMMA ChangeChain ==
    ASSUME IInv, NEW t \in Trxs, NEW k \in Keys, NEW type \in ChangeTypes, Change(t, k, type),
           NEW c \in Seq(Version \cup {NoRow}), IsChain(c, k),
           NEW new \in Version, new = NewVersion(t, type), NEW d, d = <<new>> \o c
    PROVE  IsChain(d, k)'
<1> DEFINE l == Len(undo[t])
<1>1. /\ pc[t] = "RUN" /\ ~ rolling[t].on /\ t \in Started /\ Active(t)
      /\ l \in Nat /\ undo[t] \in Seq(UndoRec) /\ DOMAIN undo[t] = 1 .. l
  BY Changing
<1>2. new # NoRow /\ new.by = t /\ new.un = l + 1 /\ t # NoTrx
  BY <1>1, RowAssumption, MvccAssumption DEF NewVersion
<1>3. /\ rows'[k] = new /\ undo'[t][l + 1] = Record(type, k) /\ DOMAIN undo'[t] = 1 .. l + 1
      /\ \A n \in 1 .. l : undo'[t][n] = undo[t][n]
  BY <1>1, Changed
<1>4. Later /\ Types /\ UNCHANGED trxVars BY ChangeIsLater DEF NobodyEnds, IInv
<1>5. \A u \in Trxs : \A n \in DOMAIN undo[u] : SameUndo(u, n) BY ChangeIsLater
<1>6. Len(c) \in Nat /\ DOMAIN c = 1 .. Len(c) /\ Len(c) > 0 BY DEF IsChain
<1> HIDE DEF l
<1>7. /\ d \in Seq(Version \cup {NoRow}) /\ Len(d) = Len(c) + 1 /\ d[1] = new
      /\ \A i \in 2 .. Len(d) : d[i] = c[i - 1]
  BY <1>1, <1>6
<1>8. DOMAIN d = 1 .. Len(d) /\ Len(d) \in Nat /\ \A i \in 2 .. Len(d) : i - 1 \in DOMAIN c
  BY <1>6, <1>7
<1>9. ASSUME NEW i \in DOMAIN c
      PROVE  /\ IsVersion(c[i], k) /\ (Own(c[i], NoTrx) => c[i] = Original)
             /\ IsVersion(c[i], k)' /\ (Real(c[i])' <=> Real(c[i]))
             /\ Real(c[i]) => c[i].by \in Trxs /\ c[i].un \in DOMAIN undo[c[i].by]
 <2>1. c[i] \in Version \cup {NoRow} OBVIOUS
 <2>2. IsVersion(c[i], k) /\ (Own(c[i], NoTrx) => c[i] = Original) BY DEF IsChain
 <2>3. Real(c[i]) => c[i].by \in Trxs /\ c[i].un \in DOMAIN undo[c[i].by]
   BY <2>2 DEF IsVersion, Started
 <2>4. Real(c[i]) => SameUndo(c[i].by, c[i].un) BY <1>5, <2>3
 <2> QED BY <1>4, <2>1, <2>2, <2>3, <2>4, VersionStays
<1>10. IsVersion(new, k)' /\ Real(new)'
 <2>1. Real(new)' BY <1>2 DEF Real
 <2>2. new.by \in Started' BY <1>1, <1>2, <1>4, StartedStays
 <2>3. new.un \in DOMAIN undo'[new.by] /\ undo'[new.by][new.un] = Record(type, k)
   BY <1>1, <1>2, <1>3
 <2>4. undo'[new.by][new.un].key = k /\ undo'[new.by][new.un].type = type BY <2>3 DEF Record
 <2>5. new.del = (type = "DEL_MARK") /\ new.ins = (type = "INSERT") BY DEF NewVersion
 <2> QED BY <2>1, <2>2, <2>3, <2>4, <2>5 DEF IsVersion
<1>11. ASSUME NEW i \in DOMAIN d
       PROVE  IsVersion(d[i], k)' /\ (Own(d[i], NoTrx)' => d[i] = Original)
 <2>1. CASE i = 1 BY <1>2, <1>7, <1>10, <2>1 DEF Own
 <2>2. CASE i # 1
  <3>1. i - 1 \in DOMAIN c /\ d[i] = c[i - 1] BY <1>7, <1>8, <2>2
  <3> QED BY <1>9, <3>1 DEF Own
 <2> QED BY <2>1, <2>2
<1>12. ASSUME NEW i \in 1 .. Len(d) - 1
       PROVE  Real(d[i])' /\ d[i + 1] = undo'[d[i].by][d[i].un].old
 <2>1. CASE i = 1
  <3>1. d[i] = new /\ d[i + 1] = c[1] /\ c[1] = rows[k] BY <1>6, <1>7, <2>1 DEF IsChain
  <3>2. undo'[d[i].by][d[i].un].old = rows[k] BY <1>2, <1>3, <3>1 DEF Record
  <3> QED BY Zenon, <1>10, <3>1, <3>2
 <2>2. CASE i # 1
  <3>1. i - 1 \in 1 .. Len(c) - 1 /\ d[i] = c[i - 1] /\ d[i + 1] = c[(i - 1) + 1]
    BY <1>6, <1>7, <2>2
  <3>2. Real(c[i - 1]) /\ c[(i - 1) + 1] = undo[c[i - 1].by][c[i - 1].un].old BY <3>1 DEF IsChain
  <3>3. i - 1 \in DOMAIN c BY <1>6, <3>1
  <3>4. c[i - 1].by \in Trxs /\ c[i - 1].un \in DOMAIN undo[c[i - 1].by] BY <1>9, <3>2, <3>3
  <3>5. c[i - 1].un \in 1 .. c[i - 1].un
   <4>1. undo[c[i - 1].by] \in Seq(UndoRec) BY <1>4, <3>4 DEF Types, RowTypes
   <4> QED BY <3>4, <4>1
  <3>6. undo'[c[i - 1].by][c[i - 1].un] = undo[c[i - 1].by][c[i - 1].un]
    BY <1>5, <3>4, <3>5 DEF SameUndo
  <3> QED BY <1>9, <3>1, <3>2, <3>3, <3>6
 <2> QED BY <2>1, <2>2
<1>13. ~ Real(d[Len(d)])'
 <2>1. d[Len(d)] = c[Len(c)] /\ Len(c) \in DOMAIN c BY <1>6, <1>7
 <2> QED BY <1>9, <2>1 DEF IsChain
<1>14. ASSUME NEW j \in DOMAIN c, Real(c[j])
       PROVE  /\ Active(c[j].by) => t = c[j].by
              /\ t = c[j].by => l + 1 > c[j].un
 <2>1. c[j].by \in Trxs /\ c[j].un \in DOMAIN undo[c[j].by] BY <1>9, <1>14
 <2>2. t = c[j].by => l + 1 > c[j].un BY <1>1, <2>1
 <2>3. ASSUME Active(c[j].by), t # c[j].by
       PROVE  FALSE
  <3>1. rows[k] = c[1] /\ (j # 1 => c[1].by = c[j].by) BY <1>6, <1>14, <2>3 DEF IsChain
  <3>2. rows[k] # NoRow
   <4>1. CASE j = 1 BY <1>14, <3>1, <4>1 DEF Real
   <4>2. CASE j # 1 BY <1>6, <3>1, <4>2 DEF IsChain, Real
   <4> QED BY <4>1, <4>2
  <3>3. rows[k].by = c[j].by BY <3>1
  <3> QED BY <2>1, <2>3, <3>2, <3>3 DEF Change, Lockable
 <2> QED BY <2>2, <2>3
<1>15. ASSUME NEW i \in DOMAIN d, NEW j \in DOMAIN d, i < j, Real(d[j])'
       PROVE  /\ Active(d[j].by)' => d[i].by = d[j].by
              /\ d[i].by = d[j].by => d[i].un > d[j].un
 <2>1. j - 1 \in DOMAIN c /\ d[j] = c[j - 1] BY <1>7, <1>8, <1>15
 <2>2. Real(c[j - 1]) /\ (Active(d[j].by)' => Active(c[j - 1].by))
   BY <1>4, <1>9, <1>15, <2>1 DEF Active, trxVars
 <2>3. CASE i = 1
  <3>1. d[i].by = t /\ d[i].un = l + 1 BY <1>2, <1>7, <2>3
  <3>2. /\ Active(c[j - 1].by) => t = c[j - 1].by
        /\ t = c[j - 1].by => l + 1 > c[j - 1].un
    BY <1>14, <2>1, <2>2
  <3> QED BY <2>1, <2>2, <3>1, <3>2
 <2>4. CASE i # 1
  <3>1. i - 1 \in DOMAIN c /\ d[i] = c[i - 1] /\ i - 1 < j - 1 BY <1>7, <1>8, <1>15, <2>1, <2>4
  <3>2. /\ Active(c[j - 1].by) => c[i - 1].by = c[j - 1].by
        /\ c[i - 1].by = c[j - 1].by => c[i - 1].un > c[j - 1].un
    BY <2>1, <2>2, <3>1 DEF IsChain
  <3> QED BY <2>1, <2>2, <3>1, <3>2
 <2> QED BY <2>3, <2>4
<1>16. ASSUME NEW n \in 1 .. new.un, undo'[new.by][n].key = k
       PROVE  \E i \in DOMAIN d : Own(d[i], new.by)' /\ d[i].un = n
 <2>1. CASE n = l + 1
  <3>1. 1 \in DOMAIN d /\ d[1] = new BY <1>7, <1>8
  <3>2. Own(d[1], new.by)' /\ d[1].un = n BY <1>2, <2>1, <3>1 DEF Own
  <3> QED BY <3>1, <3>2
 <2>2. CASE n # l + 1
  <3>1. n \in 1 .. l /\ undo[t][n].key = k BY <1>1, <1>2, <1>3, <1>16, <2>2
  <3>2. n <= Kept(t) BY <1>1, <3>1 DEF Kept, l
  <3>3. Own(rows[k], t) /\ rows[k].un >= n BY <1>1, <3>1, <3>2 DEF IInv, RowIsRight
  <3>4. Real(rows[k]) /\ Active(rows[k].by) /\ rows[k].by = t BY <1>1, <1>2, <3>3 DEF Own, Real
  <3>5. rows[k].un \in 0 .. MaxOps /\ MaxOps \in Nat
    BY <1>4, <3>4, MvccAssumption DEF Types, RowTypes, Real, Version
  <3>6. n \in 1 .. rows[k].un BY <3>1, <3>3, <3>5
  <3>7. PICK i \in DOMAIN c : Own(c[i], t) /\ c[i].un = n BY <3>1, <3>4, <3>6 DEF IsChain
  <3>8. i + 1 \in DOMAIN d /\ d[i + 1] = c[(i + 1) - 1] /\ (i + 1) - 1 = i BY <1>6, <1>7
  <3> QED BY <1>2, <3>7, <3>8 DEF Own
 <2> QED BY <2>1, <2>2
<1>17. \A i \in DOMAIN d : IsVersion(d[i], k)' /\ (Own(d[i], NoTrx)' => d[i] = Original) BY <1>11
<1>18. d \in Seq(Version \cup {NoRow}) /\ Len(d) > 0 /\ d[1] = rows'[k] BY <1>3, <1>6, <1>7
<1>19. \A i \in 1 .. Len(d) - 1 : Real(d[i])' /\ d[i + 1] = undo'[d[i].by][d[i].un].old BY Zenon,
    <1>12
<1>20. \A i, j \in DOMAIN d : i < j /\ Real(d[j])' =>
           /\ Active(d[j].by)' => d[i].by = d[j].by
           /\ d[i].by = d[j].by => d[i].un > d[j].un
  BY ZenonT(60), <1>15
<1>21. \A n \in 1 .. rows'[k].un : undo'[rows'[k].by][n].key = k =>
           \E i \in DOMAIN d : Own(d[i], rows[k].by)' /\ d[i].un = n
  BY <1>3, <1>16
<1> QED BY <1>13, <1>17, <1>18, <1>19, <1>20, <1>21 DEF IsChain

\* No view sees an active transaction, but for its creator.
LEMMA ActiveIsUnseen ==
    ASSUME IInv, NEW i \in DOMAIN view_list, NEW x \in Version, x.by \in Trxs, Active(x.by)
    PROVE  Unseen(view_list[i], x)
<1>1. x.by \in Started /\ x # NoRow /\ x.by # NoTrx
  BY RowAssumption, MvccAssumption DEF Active, Started
<1>2. ViewIsRight(view_list[i]) BY DEF IInv, ViewsAreRight
<1>3. ~ Knows(view_list[i], x.by) \/ x.by = view_list[i].creator BY <1>1, <1>2 DEF ViewIsRight
<1> QED BY <1>1, <1>3 DEF Unseen, Knows, IdOf

\* No view reads the new version instead of what it has read up to now.
LEMMA ChangeReads ==
    ASSUME IInv, NEW t \in Trxs, NEW k \in Keys, NEW type \in ChangeTypes, Change(t, k, type),
           NEW c \in Seq(Version \cup {NoRow}), IsChain(c, k),
           NEW new \in Version, new = NewVersion(t, type), NEW d, d = <<new>> \o c,
           NEW i \in DOMAIN view_list, NEW v \in OpenViews, v = view_list[i], Reads(v, c, k)
    PROVE  Reads(v, d, k)'
<1>1. Active(t) /\ t \in Started /\ new.by = t BY Changing DEF NewVersion
<1>2. Unseen(v, new) BY <1>1, ActiveIsUnseen DEF Started
<1>3. UNCHANGED trxVars BY ChangeIsLater DEF NobodyEnds
<1>4. \A x : Unseen(v, x)' <=> Unseen(v, x) BY <1>3 DEF Unseen, Sees, IdOf, trxVars
<1>5. PICK m \in DOMAIN c : /\ ~ Unseen(v, c[m])
                            /\ \A j \in 1 .. m - 1 : Unseen(v, c[j])
                            /\ Visible(c[m]) = Visible(v.snap[k])
  BY DEF Reads
<1>6. /\ Len(c) \in Nat /\ DOMAIN c = 1 .. Len(c) /\ DOMAIN d = 1 .. Len(c) + 1 /\ d[1] = new
      /\ \A j \in 1 .. Len(c) : d[j + 1] = c[j]
  OBVIOUS
<1>7. m + 1 \in DOMAIN d /\ d[m + 1] = c[m] BY <1>6
<1>8. ~ Unseen(v, d[m + 1])' BY <1>4, <1>5, <1>7
<1>9. ASSUME NEW j \in 1 .. (m + 1) - 1
      PROVE  Unseen(v, d[j])'
 <2>1. CASE j = 1 BY <1>2, <1>4, <1>6, <2>1
 <2>2. CASE j # 1
  <3>1. j - 1 \in 1 .. m - 1 /\ j - 1 \in 1 .. Len(c) /\ (j - 1) + 1 = j BY <1>6, <2>2
  <3>2. d[j] = c[j - 1] /\ Unseen(v, c[j - 1]) BY <1>5, <1>6, <3>1
  <3> QED BY <1>4, <3>2
 <2> QED BY <2>1, <2>2
<1>10. Visible(d[m + 1])' = Visible(v.snap[k])' BY <1>5, <1>7 DEF Visible
<1> QED BY <1>7, <1>8, <1>9, <1>10 DEF Reads

\* A change keeps all chains, and what views read of them.
LEMMA ChangeKeepsChains ==
    ASSUME IInv, NEW t \in Trxs, NEW k \in Keys, NEW type \in ChangeTypes, Change(t, k, type),
           NEW q \in Keys
    PROVE  ChainIsRight(q)'
<1>1. Later /\ FewerViews /\ UNCHANGED view_list /\ Types /\ ChainIsRight(q)
  BY ChangeIsLater DEF IInv
<1>2. CASE q # k
 <2>1. rows'[q] = rows[q] BY <1>2, Changed
 <2>2. \A u \in Trxs : \A n \in DOMAIN undo[u] : SameUndo(u, n) BY ChangeIsLater
 <2>3. \A u \in Started : \A n \in DOMAIN undo[u] : undo[u][n].key = q =>
           SameUndo(u, n) \/ (Active(u) /\ ~ (Own(rows[q], u) /\ rows[q].un >= n))
   BY <2>2 DEF Started
 <2> QED BY <1>1, <2>1, <2>3, ChainIsKept
<1>3. CASE q = k
 <2>1. PICK c \in Seq(Version \cup {NoRow}) :
           IsChain(c, k) /\ \A i \in DOMAIN view_list : Reads(view_list[i], c, k)
   BY <1>1, <1>3 DEF ChainIsRight
 <2>2. PICK new \in Version : new = NewVersion(t, type) BY Changing
 <2>3. PICK d : d = <<new>> \o c OBVIOUS
 <2>4. IsChain(d, k)' /\ d \in Seq(Version \cup {NoRow})
  <3>1. IsChain(d, k)' BY <2>1, <2>2, <2>3, ChangeChain
  <3> QED BY <3>1 DEF IsChain
 <2>5. ASSUME NEW i \in DOMAIN view_list
       PROVE  Reads(view_list[i], d, k)'
  <3>1. PICK v \in OpenViews : v = view_list[i] BY <1>1 DEF Types, ViewTypes
  <3>2. Reads(v, c, k) BY <2>1, <3>1
  <3>3. Reads(v, d, k)' BY <2>1, <2>2, <2>3, <3>1, <3>2, ChangeReads
  <3>4. view_list'[i] = v BY <1>1, <3>1
  <3> QED BY <3>3, <3>4
 <2> QED BY <1>1, <1>3, <2>4, <2>5 DEF ChainIsRight
<1> QED BY <1>2, <1>3

-----------------------------------------------------------------------------
(* The undoing of a change *)

\* The undo record that is next, and whether the record is still what it made.
Undone(t) == IF rolling[t].next # 0 THEN rolling[t].next ELSE Len(undo[t])
UndoneRec(t) == undo[t][Undone(t)]
Applies(t) == Own(rows[UndoneRec(t).key], t) /\ rows[UndoneRec(t).key].un = Undone(t)

\* What can be said of the state in which a transaction undoes a change.
LEMMA Undoing ==
    ASSUME IInv, NEW t \in Trxs, UndoRecord(t)
    PROVE  /\ pc[t] = "RUN" /\ rolling[t].on /\ t \in Started /\ Active(t) /\ t # NoTrx
           /\ undo[t] \in Seq(UndoRec) /\ DOMAIN undo[t] = 1 .. Len(undo[t]) /\ Len(undo[t]) \in Nat
           /\ Undone(t) \in 1 .. Len(undo[t]) /\ Undone(t) > rolling[t].limit
           /\ rolling[t].limit \in 0 .. MaxOps /\ rolling[t].next \in 0 .. Len(undo[t])
           /\ rolling[t].remove = NoRow
           /\ UndoneRec(t) \in UndoRec /\ UndoIsRight(t, Undone(t))
<1>1. rolling[t].on /\ (rolling[t].next # 0 \/ Len(undo[t]) > rolling[t].limit) /\ rolling[t].remove = NoRow
  BY Zenon DEF UndoRecord
<1>2. undo[t] \in Seq(UndoRec) /\ rolling[t] \in [limit : 0 .. MaxOps, next : 0 .. MaxOps,
                                                 remove : Keys \cup {NoRow}, on : BOOLEAN]
  BY DEF IInv, Types, RowTypes
<1>3. DOMAIN undo[t] = 1 .. Len(undo[t]) /\ Len(undo[t]) \in Nat /\ rolling[t].limit \in 0 .. MaxOps
  BY <1>2
<1>4. /\ pc[t] = "RUN" /\ rolling[t].next \in 0 .. Len(undo[t])
      /\ rolling[t].next # 0 => rolling[t].next > rolling[t].limit
  BY <1>1 DEF IInv, RollingIsRight
<1>5. Undone(t) \in 1 .. Len(undo[t]) /\ Undone(t) > rolling[t].limit
  BY <1>1, <1>3, <1>4, MvccAssumption DEF Undone
<1>6. UndoneRec(t) \in UndoRec /\ UndoIsRight(t, Undone(t))
  BY <1>2, <1>3, <1>5 DEF UndoneRec, IInv, UndosAreRight
<1> QED BY <1>1, <1>2, <1>3, <1>4, <1>5, <1>6, MvccAssumption DEF Started, Active

\* What it does to the records: the old version comes back if the change is still on top.
LEMMA UndoneRows ==
    ASSUME IInv, NEW t \in Trxs, UndoRecord(t)
    PROVE  /\ ~ Applies(t) => UNCHANGED rows
           /\ Applies(t) => /\ rows'[UndoneRec(t).key] = UndoneRec(t).old
                            /\ \A q \in Keys \ {UndoneRec(t).key} : rows'[q] = rows[q]
           /\ rows' \in [Keys -> Version \cup {NoRow}]
<1>1. rows \in [Keys -> Version \cup {NoRow}] /\ UndoneRec(t).key \in Keys
      /\ UndoneRec(t).old \in Version \cup {NoRow}
  BY Undoing DEF IInv, Types, RowTypes, UndoRec
<1>2. rows' = IF Applies(t) THEN [rows EXCEPT ![UndoneRec(t).key] = UndoneRec(t).old] ELSE rows
  BY Zenon DEF UndoRecord, Applies, UndoneRec, Undone, Own
<1> QED BY <1>1, <1>2

\* What it does to the undo records: the top one goes, unless it is out of turn.
LEMMA UndoneUndo ==
    ASSUME IInv, NEW t \in Trxs, UndoRecord(t)
    PROVE  /\ \A u \in Trxs \ {t} : undo'[u] = undo[u]
           /\ rolling[t].next # 0 => undo' = undo
           /\ rolling[t].next = 0 => /\ undo'[t] \in Seq(UndoRec) /\ Len(undo'[t]) = Len(undo[t]) - 1
                                     /\ \A n \in 1 .. Len(undo[t]) - 1 : undo'[t][n] = undo[t][n]
           /\ undo' \in [Trxs -> Seq(UndoRec)]
<1>1. undo \in [Trxs -> Seq(UndoRec)] /\ undo[t] \in Seq(UndoRec) /\ Len(undo[t]) \in Nat \ {0}
  BY Undoing DEF IInv, Types, RowTypes
<1>2. undo' = IF rolling[t].next = 0 THEN [undo EXCEPT ![t] = SubSeq(undo[t], 1, Len(undo[t]) - 1)]
              ELSE undo
  BY Zenon, <1>1 DEF UndoRecord
<1>3. SubSeq(undo[t], 1, Len(undo[t]) - 1) \in Seq(UndoRec) BY <1>1
<1>4. /\ Len(SubSeq(undo[t], 1, Len(undo[t]) - 1)) = Len(undo[t]) - 1
      /\ \A n \in 1 .. Len(undo[t]) - 1 : SubSeq(undo[t], 1, Len(undo[t]) - 1)[n] = undo[t][n]
 <2> DEFINE m == Len(undo[t]) - 1
 <2>1. m \in Nat /\ m <= Len(undo[t]) BY <1>1
 <2> HIDE DEF m
 <2>2. /\ Len(SubSeq(undo[t], 1, m)) = m
       /\ \A n \in 1 .. m : SubSeq(undo[t], 1, m)[n] = undo[t][n]
   BY <1>1, <2>1
 <2> QED BY <2>2 DEF m
<1> QED BY <1>1, <1>2, <1>3, <1>4

\* It neither changes numbers nor views, nor the undo records below the one that goes.
LEMMA UndoIsLater ==
    ASSUME IInv, NEW t \in Trxs, UndoRecord(t)
    PROVE  /\ NobodyEnds /\ Later /\ FewerViews /\ UNCHANGED view_list /\ UNCHANGED logs
           /\ \A u \in Trxs : \A n \in DOMAIN undo[u] :
                  u # t \/ n < Len(undo[t]) \/ rolling[t].next # 0 => SameUndo(u, n)
<1>1. UNCHANGED trxVars /\ UNCHANGED view_list /\ UNCHANGED logs /\ Types BY Zenon DEF UndoRecord,
    IInv
<1>2. NobodyEnds BY <1>1 DEF NobodyEnds, Numbered, trxVars
<1>3. Later /\ FewerViews BY <1>1, <1>2, NobodyEndsLater, SameViews
<1>4. ASSUME NEW u \in Trxs, NEW n \in DOMAIN undo[u], u # t \/ n < Len(undo[t]) \/ rolling[t].next # 0
      PROVE  SameUndo(u, n)
 <2>1. undo[u] \in Seq(UndoRec) /\ DOMAIN undo[u] = 1 .. Len(undo[u]) /\ Len(undo[u]) \in Nat
   BY <1>1 DEF Types, RowTypes
 <2>2. CASE u # t \/ rolling[t].next # 0
  <3>1. undo'[u] = undo[u] BY <2>2, UndoneUndo
  <3> QED BY <2>1, <3>1 DEF SameUndo
 <2>3. CASE u = t /\ rolling[t].next = 0
  <3>1. undo'[t] \in Seq(UndoRec) /\ Len(undo'[t]) = Len(undo[t]) - 1 BY <2>3, UndoneUndo
  <3>2. \A m \in 1 .. Len(undo[t]) - 1 : undo'[t][m] = undo[t][m] BY <2>3, UndoneUndo
  <3>3. \A m \in 1 .. n : m \in 1 .. Len(undo[t]) - 1 BY <1>4, <2>1, <2>3
  <3> QED BY <2>3, <3>1, <3>2, <3>3 DEF SameUndo
 <2> QED BY <2>2, <2>3
<1> QED BY <1>1, <1>2, <1>3, <1>4

\* It keeps all chains: the version that goes is one that no view reads.
LEMMA UndoKeepsChains ==
    ASSUME IInv, NEW t \in Trxs, UndoRecord(t), NEW q \in Keys
    PROVE  ChainIsRight(q)'
<1> DEFINE k == UndoneRec(t).key
           un == Undone(t)
<1>1. /\ t \in Started /\ Active(t) /\ t # NoTrx /\ un \in 1 .. Len(undo[t])
      /\ DOMAIN undo[t] = 1 .. Len(undo[t]) /\ Len(undo[t]) \in Nat
  BY Undoing
<1>2. Later /\ FewerViews /\ UNCHANGED view_list /\ Types /\ ChainIsRight(q) BY UndoIsLater DEF IInv
<1>3. \A u \in Trxs : \A n \in DOMAIN undo[u] :
          u # t \/ n < Len(undo[t]) \/ rolling[t].next # 0 => SameUndo(u, n)
  BY UndoIsLater
<1>4. IsVersion(rows[q], q) BY DEF IInv, RowIsRight
<1>5. rolling[t].next = 0 => un = Len(undo[t]) BY DEF Undone
<1>6. CASE ~ (q = k /\ Applies(t))
 <2>1. rows'[q] = rows[q] BY <1>6, UndoneRows
 <2>2. ASSUME NEW u \in Started, NEW n \in DOMAIN undo[u], undo[u][n].key = q
       PROVE  SameUndo(u, n) \/ (Active(u) /\ ~ (Own(rows[q], u) /\ rows[q].un >= n))
  <3>1. SUFFICES ASSUME u = t, n = Len(undo[t]), rolling[t].next = 0, Own(rows[q], t), rows[q].un >= n
                 PROVE  FALSE
    BY <1>1, <1>3, <2>2 DEF Started
  <3>2. n = un /\ q = k BY <1>5, <2>2, <3>1 DEF UndoneRec
  <3>3. rows[q].un \in DOMAIN undo[t] BY <1>1, <1>4, <3>1 DEF IsVersion, Own, Real
  <3>4. rows[q].un = un BY <1>1, <3>1, <3>2, <3>3
  <3> QED BY <1>6, <3>1, <3>2, <3>4 DEF Applies
 <2> QED BY <1>2, <2>1, <2>2, ChainIsKept
<1>7. CASE q = k /\ Applies(t)
 <2>1. rows'[q] = UndoneRec(t).old /\ Own(rows[q], t) /\ rows[q].un = un
   BY <1>7, UndoneRows DEF Applies
 <2>2. PICK c \in Seq(Version \cup {NoRow}) :
           IsChain(c, q) /\ \A i \in DOMAIN view_list : Reads(view_list[i], c, q)
   BY <1>2, <1>7 DEF ChainIsRight
 <2>3. /\ c \in Seq(Version \cup {NoRow}) /\ Len(c) > 0 /\ c[1] = rows[q]
       /\ ~ Real(c[Len(c)])
   BY <2>2 DEF IsChain
 <2>4. Real(c[1]) /\ c[1].by = t /\ c[1].un = un BY <1>1, <2>1, <2>3 DEF Own, Real
 <2>5. Len(c) \in Nat /\ DOMAIN c = 1 .. Len(c) /\ Len(c) > 1 BY <2>3, <2>4
 <2>6. c[2] = rows'[q] /\ 2 \in DOMAIN c
  <3>1. 1 \in 1 .. Len(c) - 1 /\ 1 + 1 = 2 /\ 2 \in DOMAIN c BY <2>5
  <3>2. c[1 + 1] = undo[c[1].by][c[1].un].old BY <2>2, <3>1 DEF IsChain
  <3> QED BY <2>1, <2>4, <3>1, <3>2 DEF UndoneRec
 <2>7. PICK d : Rest(c, 2, d)
  <3>1. /\ Tail(c) \in Seq(Version \cup {NoRow}) /\ Len(Tail(c)) = Len(c) - 1
        /\ \A i \in 1 .. Len(c) - 1 : Tail(c)[i] = c[i + 1]
    BY <2>3, <2>5
  <3>2. Rest(c, 2, Tail(c)) BY <2>5, <3>1 DEF Rest
  <3> QED BY <3>2
 <2>8. ASSUME NEW i \in DOMAIN d, Real(d[i])
       PROVE  SameUndo(d[i].by, d[i].un)
  <3>1. d[i] = c[i + 1] /\ i + 1 \in DOMAIN c /\ 1 < i + 1 /\ 1 \in DOMAIN c
    BY <2>5, <2>7 DEF Rest
  <3>2. IsVersion(c[i + 1], q) /\ Real(c[i + 1]) BY <2>2, <2>8, <3>1 DEF IsChain
  <3>3. c[i + 1].by \in Trxs /\ c[i + 1].un \in DOMAIN undo[c[i + 1].by]
    BY <3>2 DEF IsVersion, Started
  <3>4. c[1].by = c[i + 1].by => c[1].un > c[i + 1].un BY <2>2, <3>1, <3>2 DEF IsChain
  <3>5. c[i + 1].by = t => c[i + 1].un < Len(undo[t]) BY <1>1, <2>4, <3>3, <3>4
  <3> QED BY <1>3, <3>1, <3>3, <3>5
 <2>9. IsChain(d, q)' /\ d \in Seq(Version \cup {NoRow})
  <3>1. \A i \in DOMAIN d : Real(d[i]) => SameUndo(d[i].by, d[i].un) BY <2>8
  <3>2. IsChain(d, q)' BY <1>2, <1>7, <2>2, <2>6, <2>7, <3>1, ChainStays
  <3> QED BY <2>7, <3>2 DEF Rest
 <2>10. ASSUME NEW i \in DOMAIN view_list
        PROVE  Reads(view_list[i], d, q)'
  <3>1. PICK v \in OpenViews : v = view_list[i] BY <1>2 DEF Types, ViewTypes
  <3>2. Reads(v, c, q) BY <2>2, <3>1
  <3>3. Unseen(v, c[1])
   <4>1. c[1] \in Version /\ c[1].by \in Trxs /\ Active(c[1].by)
     BY <1>1, <2>3, <2>4, <2>5 DEF Real
   <4> QED BY <3>1, <4>1, ActiveIsUnseen
  <3>4. \A j \in 1 .. 2 - 1 : Unseen(v, c[j]) BY <3>3
  <3>5. Reads(v, d, q)' BY <1>2, <1>7, <2>2, <2>6, <2>7, <3>2, <3>4, ReadsStay
  <3> QED BY <1>2, <3>1, <3>5
 <2> QED BY <1>2, <1>7, <2>9, <2>10 DEF ChainIsRight
<1> QED BY <1>6, <1>7

-----------------------------------------------------------------------------
(* The removal of a record *)

\* A delete-marked record that all views see may go: they read nothing.
LEMMA RemovedChain ==
    ASSUME IInv, UNCHANGED view_list, NEW k \in Keys, rows'[k] = NoRow,
           rows[k] # NoRow, rows[k].del, rows[k].by \in Trxs, SeenByAll(rows[k].by)
    PROVE  ChainIsRight(k)'
<1>1. PICK c \in Seq(Version \cup {NoRow}) :
          IsChain(c, k) /\ \A i \in DOMAIN view_list : Reads(view_list[i], c, k)
  BY DEF IInv, ChainIsRight
<1>2. c[1] = rows[k] /\ Len(c) > 0 /\ c \in Seq(Version \cup {NoRow}) BY <1>1 DEF IsChain
<1>3. PICK d : d = <<NoRow>> OBVIOUS
<1>4. d \in Seq(Version \cup {NoRow}) /\ Len(d) = 1 /\ d[1] = NoRow /\ DOMAIN d = {1}
 <2>1. d \in Seq({NoRow}) /\ Len(d) = 1 /\ d[1] = NoRow BY <1>3
 <2> QED BY <2>1
<1>5. IsChain(d, k)'
 <2>1. ~ Real(NoRow)' /\ IsVersion(NoRow, k)' /\ ~ Own(NoRow, NoTrx)' BY DEF Real, IsVersion, Own
 <2>2. 1 .. Len(d) - 1 = {} /\ ~ Real(rows[k])' BY <1>4 DEF Real
 <2> QED BY <1>4, <2>1, <2>2 DEF IsChain
<1>6. ASSUME NEW i \in DOMAIN view_list
      PROVE  Reads(view_list[i], d, k)'
 <2>1. PICK v \in OpenViews : v = view_list[i] BY DEF IInv, Types, ViewTypes
 <2>2. Reads(v, c, k) BY <1>1, <2>1
 <2>3. PICK m \in DOMAIN c : /\ ~ Unseen(v, c[m])
                             /\ \A j \in 1 .. m - 1 : Unseen(v, c[j])
                             /\ Visible(c[m]) = Visible(v.snap[k])
   BY <2>2 DEF Reads
 <2>4. Active(v.creator) /\ Knows(v, rows[k].by) /\ pc[rows[k].by] = "DONE"
   BY <2>1 DEF IInv, ViewsAreRight, ViewIsRight, SeenByAll
 <2>5. ~ Unseen(v, c[1]) BY <1>2, <2>4, MvccAssumption DEF Unseen, Knows, IdOf, Active
 <2>6. m = 1
  <3>1. m \in 1 .. Len(c) /\ Len(c) \in Nat BY <1>2
  <3> QED BY <2>3, <2>5, <3>1
 <2>7. Visible(rows[k]) = NoRow /\ Visible(NoRow) = NoRow
  <3>1. rows[k] \in Version /\ rows[k] # Missing BY RowAssumption DEF IInv, Types, RowTypes
  <3> QED BY <3>1 DEF Visible
 <2>8. Visible(v.snap[k]) = NoRow BY <1>2, <2>3, <2>6, <2>7
 <2>9. ~ Unseen(v, d[1])' /\ 1 .. 1 - 1 = {} /\ 1 \in DOMAIN d BY <1>4 DEF Unseen
 <2>10. Visible(d[1])' = Visible(v.snap[k])' BY <1>4, <2>7, <2>8 DEF Visible
 <2>11. Reads(v, d, k)' BY <2>9, <2>10 DEF Reads
 <2> QED BY <2>1, <2>11
<1> QED BY <1>4, <1>5, <1>6 DEF ChainIsRight

\* What removes a record when it may.
LEMMA RemoveKeepsChains ==
    ASSUME IInv, Later, UNCHANGED view_list, UNCHANGED undo, NEW k \in Keys, NEW q \in Keys,
           rows' = [rows EXCEPT ![k] = NoRow], rows[k] # NoRow, rows[k].del,
           rows[k].by \in Trxs, SeenByAll(rows[k].by)
    PROVE  ChainIsRight(q)'
<1>1. rows \in [Keys -> Version \cup {NoRow}] /\ undo \in [Trxs -> Seq(UndoRec)] /\ Types
  BY DEF IInv, Types, RowTypes
<1>2. CASE q = k
 <2>1. rows'[q] = NoRow BY <1>1, <1>2
 <2> QED BY <1>2, <2>1, RemovedChain
<1>3. CASE q # k
 <2>1. rows'[q] = rows[q] BY <1>1, <1>3
 <2>2. \A u \in Started : \A n \in DOMAIN undo[u] : SameUndo(u, n)
  <3> TAKE u \in Started
  <3> TAKE n \in DOMAIN undo[u]
  <3>1. undo[u] \in Seq(UndoRec) BY <1>1 DEF Started
  <3> QED BY <3>1 DEF SameUndo
 <2>3. FewerViews /\ ChainIsRight(q) BY <1>1, SameViews DEF IInv
 <2> QED BY <1>1, <2>1, <2>2, <2>3, ChainIsKept
<1> QED BY <1>2, <1>3

\* Nothing happens to the records.
LEMMA ChainsKept ==
    ASSUME IInv, Later, FewerViews, UNCHANGED <<rows, undo>>, NEW q \in Keys
    PROVE  ChainIsRight(q)'
<1>1. undo \in [Trxs -> Seq(UndoRec)] /\ Types /\ ChainIsRight(q) BY DEF IInv, Types, RowTypes
<1>2. \A u \in Started : \A n \in DOMAIN undo[u] : SameUndo(u, n)
 <2> TAKE u \in Started
 <2> TAKE n \in DOMAIN undo[u]
 <2>1. undo[u] \in Seq(UndoRec) BY <1>1 DEF Started
 <2> QED BY <2>1 DEF SameUndo
<1> QED BY <1>1, <1>2, ChainIsKept

-----------------------------------------------------------------------------
(* The opening of a view *)

\* The limits of v are those of a view opened now that does not see U.
HasLimits(v, U) ==
    /\ v.trx_ids = {trx_id[u] : u \in U}
    /\ v.low_limit_id = max_trx_id
    /\ v.up_limit_id = Min(v.trx_ids \cup {v.low_limit_id})
    /\ v.low_limit_no = Min({trx_no[u] : u \in U} \cup {max_trx_id})

\* A view with these limits sees all that have started but the transactions in U
\* (read_view_open_now), and its limits are right.
LEMMA LimitsMean ==
    ASSUME Types, IdsAreRight, NEW U \in SUBSET Started, NEW v, HasLimits(v, U)
    PROVE  /\ LimitsAreRight(v)
           /\ \A t \in Started : Knows(v, t) <=> t \notin U
           /\ v.trx_ids \in SUBSET Nat /\ v.up_limit_id \in Nat
           /\ v.low_limit_id \in Nat /\ v.low_limit_no \in Nat
<1>1. /\ max_trx_id \in Nat \ {0} /\ Started \in SUBSET Trxs
      /\ trx_id \in [Trxs -> Nat \ {0}] /\ trx_no \in [Trxs -> Nat \ {0}]
  BY DEF Types, TrxTypes, Started
<1>2. /\ v.trx_ids = {trx_id[u] : u \in U} /\ v.trx_ids \in SUBSET Nat /\ 0 \notin v.trx_ids
      /\ v.low_limit_id = max_trx_id /\ v.up_limit_id = Min(v.trx_ids \cup {v.low_limit_id})
  BY <1>1 DEF HasLimits
<1>3. v.up_limit_id \in Nat
 <2> DEFINE T == v.trx_ids \cup {v.low_limit_id}
 <2>1. T \in SUBSET Nat /\ T # {} BY <1>1, <1>2
 <2> HIDE DEF T
 <2>2. Min(T) \in Nat BY <2>1, MinIsLeast
 <2> QED BY <1>2, <2>2 DEF T
<1>4. v.low_limit_no \in 1 .. max_trx_id /\ \A u \in U : v.low_limit_no <= trx_no[u]
 <2> DEFINE T == {trx_no[u] : u \in U} \cup {max_trx_id}
 <2>1. T \in SUBSET (Nat \ {0}) /\ T # {} /\ max_trx_id \in T /\ \A u \in U : trx_no[u] \in T
   BY <1>1
 <2>2. v.low_limit_no = Min(T) BY DEF HasLimits
 <2> HIDE DEF T
 <2>3. T \in SUBSET Nat BY <2>1
 <2>4. Min(T) \in T /\ \A y \in T : Min(T) <= y BY <2>1, <2>3, MinIsLeast
 <2>5. v.low_limit_no \in Nat \ {0} /\ v.low_limit_no <= max_trx_id BY <2>1, <2>2, <2>4
 <2> QED BY <1>1, <2>1, <2>2, <2>4, <2>5
<1>5. ASSUME NEW t \in Started
      PROVE  Knows(v, t) <=> t \notin U
 <2>1. trx_id[t] \in Nat /\ trx_id[t] < max_trx_id BY <1>1 DEF IdsAreRight, Started
 <2>2. Knows(v, t) <=> trx_id[t] < v.low_limit_id /\ trx_id[t] \notin v.trx_ids
  <3>1. v.low_limit_id \in Nat BY <1>1, <1>2
  <3> QED BY <1>2, <2>1, <3>1, SeesMeans DEF Knows
 <2>3. trx_id[t] \in v.trx_ids <=> t \in U BY <1>2 DEF IdsAreRight
 <2> QED BY <1>2, <2>1, <2>2, <2>3
<1>6. ASSUME NEW t \in Started, trx_no[t] < v.low_limit_no
      PROVE  Knows(v, t)
 <2>1. t \notin U BY <1>1, <1>4, <1>6
 <2> QED BY <1>5, <2>1
<1> QED BY <1>1, <1>2, <1>3, <1>4, <1>5, <1>6 DEF LimitsAreRight

\* The transactions that a new view does not see.
Hidden(t, type) == IF type = "NORMAL" THEN ActiveTrxs \ {t} ELSE ActiveTrxs
ViewKinds == {"NORMAL", "HIGH_GRANULARITY"}
Opened(t, type) == OpenView(t, type, Hidden(t, type))

\* Transactions are numbered when they commit.
LEMMA RunningHasNoNumber ==
    ASSUME Types, IdsAreRight, NEW t \in Trxs, pc[t] = "RUN"
    PROVE  trx_no[t] = Infinity /\ t \in Started /\ Active(t) /\ max_trx_id < Infinity
<1>1. ~ Numbered(t) BY DEF Numbered
<1> QED BY <1>1, CounterIsSmall DEF IdsAreRight, Started, Active

\* What was committed last of a record is a version or no record.
LEMMA CommittedIsVersion ==
    ASSUME IInv, NEW k \in Keys
    PROVE  Committed(k) \in Version \cup {NoRow}
<1>1. rows[k] \in Version \cup {NoRow} /\ undo \in [Trxs -> Seq(UndoRec)]
  BY DEF IInv, Types, RowTypes
<1>2. CASE ~ (rows[k] # NoRow /\ Active(rows[k].by)) BY <1>1, <1>2 DEF Committed
<1>3. CASE rows[k] # NoRow /\ Active(rows[k].by)
 <2> DEFINE a == rows[k].by
            T == {n \in DOMAIN undo[a] : undo[a][n].key = k}
 <2>1. a \in Trxs /\ undo[a] \in Seq(UndoRec) /\ a # NoTrx BY <1>1, <1>3, MvccAssumption DEF Active
 <2>2. rows[k].un \in T BY <1>3, <2>1 DEF IInv, RowIsRight, IsVersion, Real
 <2>3. T \in SUBSET Nat /\ T # {} /\ T \subseteq DOMAIN undo[a] BY <2>1, <2>2
 <2>4. Min(T) \in DOMAIN undo[a]
  <3> HIDE DEF T
  <3> QED BY <2>3, MinIsLeast
 <2>5. undo[a][Min(T)] \in UndoRec
  <3> DEFINE m == Min(T)
  <3>1. m \in DOMAIN undo[a] BY <2>4
  <3> HIDE DEF m
  <3>2. undo[a][m] \in UndoRec BY <2>1, <3>1
  <3> QED BY <3>2 DEF m
 <2>6. Committed(k) = undo[a][Min(T)].old BY <1>3 DEF Committed
 <2> HIDE DEF T, a
 <2> QED BY <2>5, <2>6 DEF UndoRec
<1> QED BY <1>2, <1>3

\* A view that is opened is right, and sees all but the active transactions.
LEMMA OpenedView ==
    ASSUME IInv, NEW t \in Trxs, Runs(t), NEW type \in ViewKinds,
           NEW v, v = Opened(t, type)
    PROVE  /\ v \in OpenViews /\ HasLimits(v, Hidden(t, type)) /\ Hidden(t, type) \in SUBSET Started
           /\ ViewIsRight(v) /\ v.creator = t /\ v.type = type
           /\ \A u \in Started : Knows(v, u) <=> u \notin Hidden(t, type)
           /\ \A k \in Keys : v.snap[k] = Committed(k)
<1> DEFINE U == Hidden(t, type)
<1>1. /\ Types /\ IdsAreRight /\ pc[t] = "RUN"
      /\ trx_no[t] = Infinity /\ t \in Started /\ Active(t) /\ max_trx_id < Infinity
  BY RunningHasNoNumber DEF IInv, Runs
<1>2. U \in SUBSET Started BY DEF Hidden, ActiveTrxs, Active, Started
<1> HIDE DEF U
<1>3. /\ v.trx_ids = {trx_id[u] : u \in U} /\ v.low_limit_id = max_trx_id
      /\ v.up_limit_id = Min({trx_id[u] : u \in U} \cup {max_trx_id})
      /\ v.low_limit_no = Min({trx_no[u] : u \in U} \cup {max_trx_id})
      /\ v.creator = t /\ v.type = type
      /\ v.undo_no = (IF type = "NORMAL" THEN 0 ELSE Len(undo[t]))
      /\ v.snap = [k \in Keys |-> Committed(k)]
  BY DEF Opened, OpenView, LimitsNow, Limits, U
<1>4. HasLimits(v, U) BY <1>3 DEF HasLimits
<1>5. /\ LimitsAreRight(v)
      /\ v.trx_ids \in SUBSET Nat /\ v.up_limit_id \in Nat
      /\ v.low_limit_id \in Nat /\ v.low_limit_no \in Nat
  BY <1>1, <1>2, <1>4, LimitsMean
<1>6. \A u \in Started : Knows(v, u) <=> u \notin U BY <1>1, <1>2, <1>4, LimitsMean
<1>7. v \in OpenViews
 <2>1. v.undo_no \in 0 .. MaxOps
  <3>1. undo[t] \in Seq(UndoRec) /\ ops[t] \in 0 .. MaxOps /\ Len(undo[t]) <= ops[t] /\ MaxOps \in Nat
    BY <1>1, MvccAssumption DEF IInv, Types, RowTypes, UndosAreRight
  <3>2. Len(undo[t]) \in 0 .. MaxOps /\ 0 \in 0 .. MaxOps BY <3>1
  <3> QED BY <1>3, <3>2
 <2>2. v.snap \in [Keys -> Version \cup {NoRow}] BY <1>3, CommittedIsVersion
 <2>3. v = [trx_ids |-> v.trx_ids, up_limit_id |-> v.up_limit_id, low_limit_id |-> v.low_limit_id,
            low_limit_no |-> v.low_limit_no, creator |-> v.creator, type |-> v.type,
            undo_no |-> v.undo_no, snap |-> v.snap]
   BY DEF Opened, OpenView
 <2> QED BY <1>3, <1>5, <2>1, <2>2, <2>3 DEF OpenViews, ViewKinds
<1>8. ViewIsRight(v)
 <2>1. trx_no[t] >= v.low_limit_no BY <1>1, <1>5 DEF LimitsAreRight, Types, TrxTypes
 <2>2. \A u \in Started : Knows(v, u) => ~ Active(u) \/ u = t
   BY <1>6 DEF U, Hidden, ActiveTrxs, Started
 <2>3. type = "NORMAL" <=> Knows(v, t)
  <3>1. Knows(v, t) <=> t \notin U BY <1>1, <1>6
  <3>2. t \in ActiveTrxs BY <1>1 DEF ActiveTrxs
  <3> QED BY <3>1, <3>2 DEF U, Hidden
 <2> QED BY <1>1, <1>3, <1>5, <2>1, <2>2, <2>3 DEF ViewIsRight
<1> QED BY <1>2, <1>3, <1>4, <1>6, <1>7, <1>8 DEF U

\* A new view reads what was committed last.
LEMMA OpenedReads ==
    ASSUME IInv, NEW t \in Trxs, Runs(t), NEW type \in ViewKinds, NEW v, v = Opened(t, type),
           NEW k \in Keys, NEW c \in Seq(Version \cup {NoRow}), IsChain(c, k)
    PROVE  Reads(v, c, k)
<1>1. /\ v.creator = t /\ Active(t) /\ t # NoTrx
      /\ v.snap[k] = Committed(k) /\ v \in OpenViews /\ ViewIsRight(v)
  BY OpenedView, MvccAssumption DEF Runs, Active
<1>2. \A u \in Started : Knows(v, u) <=> u \notin Hidden(t, type) BY OpenedView
<1>3. /\ Len(c) \in Nat /\ Len(c) > 0 /\ DOMAIN c = 1 .. Len(c) /\ c[1] = rows[k] /\ 1 \in DOMAIN c
      /\ ~ Real(c[Len(c)])
  BY DEF IsChain
<1>4. ASSUME NEW i \in DOMAIN c
      PROVE  Unseen(v, c[i]) <=> Real(c[i]) /\ Active(c[i].by)
 <2>1. IsVersion(c[i], k) /\ c[i] \in Version \cup {NoRow} BY DEF IsChain
 <2>2. CASE c[i] = NoRow BY <2>2 DEF Unseen, Real
 <2>3. CASE c[i] # NoRow /\ c[i].by = NoTrx
  <3>1. Sees(v, 0)
   <4>1. /\ v.trx_ids \in SUBSET Nat /\ v.low_limit_id \in Nat \ {0} /\ 0 \notin v.trx_ids
         /\ v.up_limit_id = Min(v.trx_ids \cup {v.low_limit_id})
     BY <1>1 DEF OpenViews, ViewIsRight, LimitsAreRight
   <4> QED BY <4>1, SeesMeans
  <3> QED BY <1>1, <2>3, <3>1 DEF Unseen, IdOf, Real
 <2>4. CASE Real(c[i])
  <3>1. c[i].by \in Started /\ c[i].by # NoTrx /\ c[i] # NoRow BY <2>1, <2>4 DEF IsVersion, Real
  <3>2. Unseen(v, c[i]) <=> c[i].by = t \/ ~ Knows(v, c[i].by)
    BY <1>1, <3>1 DEF Unseen, Knows, IdOf
  <3>3. ~ Knows(v, c[i].by) <=> c[i].by \in Hidden(t, type) BY <1>2, <3>1
  <3>4. c[i].by = t \/ c[i].by \in Hidden(t, type) <=> Active(c[i].by)
    BY <1>1, <3>1 DEF Hidden, ActiveTrxs, Started
  <3> QED BY <2>4, <3>2, <3>3, <3>4
 <2> QED BY <2>2, <2>3, <2>4 DEF Real
<1>5. CASE ~ (rows[k] # NoRow /\ Active(rows[k].by))
 <2>1. ~ Unseen(v, c[1]) /\ Committed(k) = c[1] /\ 1 .. 1 - 1 = {}
   BY <1>3, <1>4, <1>5 DEF Committed, Real
 <2> QED BY <1>1, <1>3, <2>1 DEF Reads
<1>6. CASE rows[k] # NoRow /\ Active(rows[k].by)
 <2> DEFINE a == rows[k].by
            T == {n \in DOMAIN undo[a] : undo[a][n].key = k}
            m == Min(T)
 <2>1. a \in Trxs /\ a # NoTrx /\ Real(rows[k]) /\ undo[a] \in Seq(UndoRec)
   BY <1>6, MvccAssumption DEF Active, Real, IInv, Types, RowTypes
 <2>2. DOMAIN undo[a] = 1 .. Len(undo[a]) /\ Len(undo[a]) \in Nat BY <2>1
 <2>3. rows[k].un \in T BY <2>1 DEF IInv, RowIsRight, IsVersion
 <2>4. T \in SUBSET Nat /\ T # {} BY <2>2, <2>3
 <2> HIDE DEF T
 <2>5. m \in T /\ \A y \in T : m <= y BY <2>4, MinIsLeast
 <2>6. Committed(k) = undo[a][m].old BY <1>6 DEF Committed, T
 <2> HIDE DEF m
 <2>7. m \in 1 .. rows[k].un /\ undo[a][m].key = k
  <3>1. m \in 1 .. Len(undo[a]) /\ undo[a][m].key = k BY <2>2, <2>5 DEF T
  <3>2. rows[k].un \in 1 .. Len(undo[a]) /\ m <= rows[k].un BY <2>2, <2>3, <2>5 DEF T
  <3> QED BY <2>2, <3>1, <3>2
 <2>8. PICK i \in DOMAIN c : Own(c[i], a) /\ c[i].un = m BY <1>6, <2>1, <2>7 DEF IsChain
 <2>9. Real(c[i]) BY <2>1, <2>8 DEF Own, Real
 <2>10. i \in 1 .. Len(c) - 1 /\ i + 1 \in DOMAIN c
  <3>1. i # Len(c) BY <1>3, <2>9
  <3> QED BY <1>3, <3>1
 <2>11. c[i + 1] = Committed(k) BY <2>6, <2>8, <2>10 DEF IsChain, Own
 <2>12. ~ Unseen(v, c[i + 1])
  <3> SUFFICES ASSUME Real(c[i + 1]), Active(c[i + 1].by)  PROVE FALSE BY <1>4, <2>10
  <3>1. c[1].by = c[i + 1].by BY <1>3, <2>10 DEF IsChain
  <3>2. c[i].by = c[i + 1].by BY <1>3, <2>8, <3>1 DEF Own
  <3>3. c[i].un > c[i + 1].un BY <2>10, <3>2 DEF IsChain
  <3>4. c[i + 1].by = a BY <1>3, <3>1
  <3>5. IsVersion(c[i + 1], k) BY <2>10 DEF IsChain
  <3>6. c[i + 1].un \in T BY <3>4, <3>5 DEF IsVersion, T
  <3>7. c[i + 1].un \in Nat /\ m \in Nat /\ m <= c[i + 1].un BY <2>4, <2>5, <3>6
  <3> QED BY <2>8, <3>3, <3>7
 <2>13. ASSUME NEW j \in 1 .. (i + 1) - 1
        PROVE  Unseen(v, c[j])
  <3>1. j \in DOMAIN c /\ (j = i \/ j < i) BY <1>3, <2>10
  <3>2. Active(c[i].by) BY <1>6, <2>8 DEF Own
  <3>3. c[j].by = c[i].by BY <2>9, <3>1, <3>2 DEF IsChain
  <3>4. Real(c[j])
   <4>1. j \in 1 .. Len(c) - 1 BY <1>3, <2>10
   <4> QED BY <4>1 DEF IsChain
  <3> QED BY <1>4, <3>1, <3>2, <3>3, <3>4
 <2> QED BY <1>1, <2>10, <2>11, <2>12, <2>13 DEF Reads
<1> QED BY <1>5, <1>6

\* The opening of a view keeps the chains, and what the other views read.
LEMMA OpeningKeepsChains ==
    ASSUME IInv, NEW t \in Trxs, Runs(t), NEW type \in ViewKinds,
           view_list' = <<Opened(t, type)>> \o view_list,
           UNCHANGED <<trxVars, rows, undo>>, NEW q \in Keys
    PROVE  ChainIsRight(q)'
<1>1. PICK v : v = Opened(t, type) OBVIOUS
<1>2. v \in OpenViews /\ view_list \in Seq(OpenViews) BY <1>1, OpenedView DEF IInv, Types, ViewTypes
<1>3. /\ DOMAIN view_list' = 1 .. Len(view_list) + 1 /\ view_list'[1] = v
      /\ DOMAIN view_list = 1 .. Len(view_list) /\ Len(view_list) \in Nat
      /\ \A i \in 2 .. Len(view_list) + 1 : view_list'[i] = view_list[i - 1]
  BY <1>1, <1>2
<1>4. PICK c \in Seq(Version \cup {NoRow}) :
          IsChain(c, q) /\ \A i \in DOMAIN view_list : Reads(view_list[i], c, q)
  BY DEF IInv, ChainIsRight
<1>5. IsChain(c, q)' BY <1>4 DEF IsChain, IsVersion, Real, Own, Active, Started, trxVars
<1>6. c \in Seq(Version \cup {NoRow}) BY <1>4 DEF IsChain
<1>7. \A w, x : Unseen(w, x)' <=> Unseen(w, x) BY DEF Unseen, Sees, IdOf, trxVars
<1>8. \A w : Reads(w, c, q) => Reads(w, c, q)'
 <2> TAKE w
 <2> HAVE Reads(w, c, q)
 <2>1. PICK m \in DOMAIN c : /\ ~ Unseen(w, c[m])
                             /\ \A j \in 1 .. m - 1 : Unseen(w, c[j])
                             /\ Visible(c[m]) = Visible(w.snap[q])
   BY DEF Reads
 <2>2. ~ Unseen(w, c[m])' /\ \A j \in 1 .. m - 1 : Unseen(w, c[j])' BY <1>7, <2>1
 <2>3. Visible(c[m])' = Visible(w.snap[q])' BY <2>1 DEF Visible
 <2> QED BY <2>2, <2>3 DEF Reads
<1>9. ASSUME NEW i \in DOMAIN view_list'
      PROVE  Reads(view_list[i], c, q)'
 <2>1. CASE i = 1
  <3>1. Reads(v, c, q) BY <1>1, <1>4, OpenedReads
  <3>2. Reads(v, c, q)' BY <1>8, <3>1
  <3> QED BY <1>3, <2>1, <3>2
 <2>2. CASE i # 1
  <3>1. i - 1 \in DOMAIN view_list /\ view_list'[i] = view_list[i - 1] BY <1>3, <2>2
  <3>2. PICK w : w = view_list[i - 1] OBVIOUS
  <3>3. Reads(w, c, q)' BY <1>4, <1>8, <3>1, <3>2
  <3> QED BY <3>1, <3>2, <3>3
 <2> QED BY <2>1, <2>2
<1> QED BY <1>5, <1>6, <1>9 DEF ChainIsRight

-----------------------------------------------------------------------------
(* Ids, numbers, views and purge in a step *)

\* Ids and numbers stay right when none are drawn.
LEMMA IdsKept ==
    ASSUME Types, IdsAreRight, NobodyEnds
    PROVE  IdsAreRight'
<1>1. Started' = Started /\ NumberedTrxs' = NumberedTrxs BY NobodyEndsLater
<1> QED BY <1>1 DEF IdsAreRight, NobodyEnds, trxVars

\* So does the history list when no transaction gets further.
LEMMA HistoryKept ==
    ASSUME Types, HistoryIsRight, NobodyEnds, UNCHANGED commitVars
    PROVE  HistoryIsRight'
<1>1. \A i \in DOMAIN history : history[i] \in Trxs BY DEF Types, HistoryTypes
<1> QED BY <1>1 DEF Types, HistoryTypes, HistoryIsRight, NobodyEnds, trxVars, commitVars

\* The limits of a view stay right: what is drawn later is above them.
LEMMA KnowsKept ==
    ASSUME Types, TrxTypes', Later, NEW v, v.trx_ids \in SUBSET Nat, v.low_limit_id \in Nat,
           LimitsAreRight(v), NEW t \in Trxs
    PROVE  /\ t \in Started => (Knows(v, t)' <=> Knows(v, t))
           /\ t \in Started' /\ Knows(v, t)' => t \in Started
<1>1. t \in Started => (Knows(v, t)' <=> Knows(v, t)) BY StartedStays DEF Knows, Sees
<1>2. ASSUME t \in Started', t \notin Started
      PROVE  ~ Knows(v, t)'
 <2>1. trx_id'[t] >= max_trx_id /\ trx_id'[t] \in Nat /\ max_trx_id \in Nat
   BY <1>2 DEF Later, Started, Types, TrxTypes
 <2>2. v.low_limit_id <= max_trx_id /\ v.up_limit_id = Min(v.trx_ids \cup {v.low_limit_id})
   BY DEF LimitsAreRight
 <2>3. Sees(v, trx_id'[t]) => trx_id'[t] < v.low_limit_id BY <2>1, <2>2, SeesMeans
 <2>4. ~ Sees(v, trx_id'[t]) BY <2>1, <2>2, <2>3
 <2> QED BY <2>4 DEF Knows, Sees
<1> QED BY <1>1, <1>2

\* So the limits of a view stay right as transactions start, draw numbers and end.
LEMMA LimitsKept ==
    ASSUME Types, TrxTypes', IdsAreRight, Later, NEW v, v.trx_ids \in SUBSET Nat,
           v.low_limit_id \in Nat, v.low_limit_no \in Nat, LimitsAreRight(v)
    PROVE  LimitsAreRight(v)'
<1>1. max_trx_id \in Nat /\ max_trx_id' \in Nat /\ max_trx_id <= max_trx_id' /\ max_trx_id < Infinity
  BY CounterIsSmall DEF Types, TrxTypes, Later
<1>2. v.low_limit_id \in 1 .. max_trx_id' /\ v.low_limit_no \in 1 .. max_trx_id'
  BY <1>1 DEF LimitsAreRight
<1>3. ASSUME NEW t \in Started', trx_no'[t] < v.low_limit_no
      PROVE  Knows(v, t)'
 <2>1. t \in Trxs /\ trx_no[t] \in Nat /\ trx_no'[t] \in Nat BY DEF Started, Types, TrxTypes
 <2>2. v.low_limit_no <= max_trx_id BY DEF LimitsAreRight
 <2>3. trx_no'[t] = trx_no[t] BY <1>1, <1>3, <2>1, <2>2 DEF Later
 <2>4. t \in Started
  <3> SUFFICES ASSUME t \notin Started  PROVE FALSE OBVIOUS
  <3>1. ~ Numbered(t) /\ trx_no[t] = Infinity BY <2>1 DEF Started, Numbered, IdsAreRight
  <3> QED BY <1>1, <1>3, <2>1, <2>2, <2>3, <3>1, CounterIsSmall
 <2>5. Knows(v, t) BY <1>3, <2>3, <2>4 DEF LimitsAreRight
 <2> QED BY <2>1, <2>4, <2>5, KnowsKept
<1> QED BY <1>2, <1>3 DEF LimitsAreRight

\* An open view stays right while its creator runs.
LEMMA ViewKept ==
    ASSUME Types, TrxTypes', IdsAreRight, Later, NEW v \in OpenViews, ViewIsRight(v),
           Active(v.creator)', v.type = "HIGH_GRANULARITY" => pc'[v.creator] = "RUN"
    PROVE  ViewIsRight(v)'
<1>1. /\ v.trx_ids \in SUBSET Nat /\ v.low_limit_id \in Nat /\ v.low_limit_no \in Nat
      /\ v.creator \in Trxs /\ LimitsAreRight(v)
  BY DEF OpenViews, ViewIsRight
<1>2. LimitsAreRight(v)' BY <1>1, LimitsKept
<1>3. v.creator \in Started BY <1>1 DEF ViewIsRight, Active, Started
<1>4. trx_no'[v.creator] >= v.low_limit_no
 <2>1. /\ v.low_limit_no <= max_trx_id /\ max_trx_id \in Nat
       /\ trx_no[v.creator] \in Nat /\ trx_no'[v.creator] \in Nat
   BY <1>1 DEF LimitsAreRight, Types, TrxTypes
 <2>2. trx_no[v.creator] >= v.low_limit_no BY DEF ViewIsRight
 <2> QED BY <1>1, <2>1, <2>2 DEF Later
<1>5. ASSUME NEW t \in Started', Knows(v, t)'
      PROVE  ~ Active(t)' \/ t = v.creator
 <2>1. t \in Trxs BY DEF Started
 <2>2. t \in Started /\ Knows(v, t) BY <1>1, <1>5, <2>1, KnowsKept
 <2> QED BY <2>2, StartedStays DEF ViewIsRight
<1>6. v.type = "NORMAL" <=> Knows(v, v.creator)'
 <2>1. Knows(v, v.creator)' <=> Knows(v, v.creator) BY <1>1, <1>3, KnowsKept
 <2> QED BY <2>1 DEF ViewIsRight
<1> QED BY <1>2, <1>4, <1>5, <1>6 DEF ViewIsRight

\* What all views see, all views see for good, when none is opened.
LEMMA SeenByAllKept ==
    ASSUME IInv, TrxTypes', Later, FewerViews, NEW t \in Trxs, SeenByAll(t)
    PROVE  SeenByAll(t)'
<1>1. PICK g \in [DOMAIN view_list' -> DOMAIN view_list] :
          \A i \in DOMAIN view_list' : view_list'[i] = view_list[g[i]]
  BY DEF FewerViews
<1>2. pc'[t] = "DONE" /\ t \in Started BY DEF SeenByAll, Later, Started
<1>3. ASSUME NEW i \in DOMAIN view_list'
      PROVE  Knows(view_list[i], t)'
 <2>1. g[i] \in DOMAIN view_list /\ view_list'[i] = view_list[g[i]] BY <1>1
 <2>2. PICK v : v = view_list[g[i]] OBVIOUS
 <2>3. v \in OpenViews /\ ViewIsRight(v) /\ Knows(v, t)
   BY <2>1, <2>2 DEF IInv, Types, ViewTypes, ViewsAreRight, SeenByAll
 <2>4. Knows(v, t)' BY <1>2, <2>3, KnowsKept DEF OpenViews, ViewIsRight, IInv
 <2> QED BY <2>1, <2>2, <2>4
<1> QED BY <1>2, <1>3 DEF SeenByAll

\* The views stay right, and in their order, as long as their creators run.
LEMMA ViewsKept ==
    ASSUME IInv, TrxTypes', ViewTypes', Later, FewerViews,
           \A i \in DOMAIN view_list' :
               /\ Active(view_list[i].creator)'
               /\ view_list'[i].type = "HIGH_GRANULARITY" => pc'[view_list'[i].creator] = "RUN"
    PROVE  ViewsAreRight'
<1>1. PICK g \in [DOMAIN view_list' -> DOMAIN view_list] :
          /\ \A i \in DOMAIN view_list' : view_list'[i] = view_list[g[i]]
          /\ \A i, j \in DOMAIN view_list' : i < j => g[i] < g[j]
  BY DEF FewerViews
<1>2. \A i \in DOMAIN view_list' : g[i] \in DOMAIN view_list /\ view_list'[i] = view_list[g[i]]
  BY <1>1
<1>3. \A i \in DOMAIN view_list : view_list[i] \in OpenViews /\ ViewIsRight(view_list[i])
  BY DEF IInv, Types, ViewTypes, ViewsAreRight
<1>4. ASSUME NEW i \in DOMAIN view_list'
      PROVE  ViewIsRight(view_list[i])'
 <2>1. PICK v : v = view_list[g[i]] OBVIOUS
 <2>2. v \in OpenViews /\ ViewIsRight(v) /\ view_list'[i] = v BY <1>2, <1>3, <2>1
 <2>3. Active(v.creator)' /\ (v.type = "HIGH_GRANULARITY" => pc'[v.creator] = "RUN") BY <2>2
 <2>4. ViewIsRight(v)' BY <2>2, <2>3, ViewKept DEF IInv
 <2> QED BY <2>2, <2>4
<1>5. \A i, j \in DOMAIN view_list' : g[i] = g[j] => i = j
 <2>1. DOMAIN view_list \in SUBSET Int BY DEF IInv, Types, ViewTypes
 <2>2. DOMAIN view_list' \in SUBSET Int BY DEF ViewTypes
 <2> QED BY <1>1, <2>1, <2>2
<1>6. ASSUME NEW i \in DOMAIN view_list', NEW j \in DOMAIN view_list',
             view_list'[i].creator = view_list'[j].creator, view_list'[i].type = view_list'[j].type
      PROVE  i = j
  BY <1>2, <1>5, <1>6 DEF IInv, ViewsAreRight
<1>7. ASSUME NEW i \in DOMAIN view_list', NEW j \in DOMAIN view_list', i < j,
             NEW t \in Started', t # view_list'[j].creator, Knows(view_list[j], t)'
      PROVE  Knows(view_list[i], t)'
 <2>1. g[i] < g[j] BY <1>1, <1>7
 <2>2. PICK v : v = view_list[g[i]] OBVIOUS
 <2>3. PICK w : w = view_list[g[j]] OBVIOUS
 <2>4. /\ v \in OpenViews /\ ViewIsRight(v) /\ view_list'[i] = v
       /\ w \in OpenViews /\ ViewIsRight(w) /\ view_list'[j] = w
   BY <1>2, <1>3, <2>2, <2>3
 <2>5. t \in Started /\ Knows(w, t)
  <3>1. Knows(w, t)' /\ t \in Trxs BY <1>7, <2>4 DEF Started
  <3> QED BY <2>4, <3>1, KnowsKept DEF OpenViews, ViewIsRight, IInv
 <2>6. Knows(v, t) BY <1>2, <1>7, <2>1, <2>2, <2>3, <2>4, <2>5 DEF IInv, ViewsAreRight
 <2>7. Knows(v, t)' BY <2>4, <2>5, <2>6, KnowsKept DEF OpenViews, ViewIsRight, IInv, Started
 <2> QED BY <2>4, <2>7
<1> QED BY <1>4, <1>6, <1>7 DEF ViewsAreRight

\* Transactions in the history list, or at their end, have all their undo
\* records and keep them.
Settled ==
    \A t \in Trxs : pc[t] \in {"IN_HISTORY", "DONE"} =>
        /\ pc'[t] \in {"IN_HISTORY", "DONE"} /\ (Numbered(t)' <=> Numbered(t))
        /\ trx_no'[t] = trx_no[t] /\ undo'[t] = undo[t]

\* What all views see stays so.
SeenStay == \A t \in Trxs : SeenByAll(t) => SeenByAll(t)'

\* When views are closed at most, what all see all still see.
LEMMA FewerViewsSee ==
    ASSUME IInv, TrxTypes', Later, FewerViews
    PROVE  SeenStay
  BY SeenByAllKept DEF SeenStay

\* The view of purge stays right.
LEMMA PurgeViewKept ==
    ASSUME IInv, TrxTypes', Later, SeenStay, UNCHANGED purge_view
    PROVE  PurgeViewIsRight'
<1>1. PICK v : v = purge_view OBVIOUS
<1>2. /\ v.trx_ids \in SUBSET Nat /\ v.low_limit_id \in Nat /\ v.low_limit_no \in Nat
      /\ LimitsAreRight(v) /\ purge_view' = v
  BY <1>1 DEF IInv, Types, ViewTypes, View, PurgeViewIsRight
<1>3. LimitsAreRight(v)' BY <1>2, LimitsKept DEF IInv
<1>4. ASSUME NEW t \in Started', Knows(v, t)'
      PROVE  SeenByAll(t)'
 <2>1. t \in Trxs BY DEF Started
 <2>2. t \in Started /\ Knows(v, t) BY <1>2, <1>4, <2>1, KnowsKept DEF IInv
 <2>3. SeenByAll(t) BY <1>1, <2>2 DEF IInv, PurgeViewIsRight
 <2> QED BY <2>1, <2>3 DEF SeenStay
<1> QED BY <1>2, <1>3, <1>4 DEF PurgeViewIsRight

\* What has been truncated stays seen by all views.
LEMMA GoneKept ==
    ASSUME IInv, SeenStay, UNCHANGED gone
    PROVE  GoneIsRight'
  BY DEF IInv, GoneIsRight, SeenStay

\* A position of purge stays right: the undo log that it is in changes no more.
LEMMA PositionKept ==
    ASSUME Types, Settled, NEW p, PositionIsRight(p)
    PROVE  PositionIsRight(p)'
<1>1. p.next_stored => p.log \in Trxs /\ pc[p.log] \in {"IN_HISTORY", "DONE"} /\ Numbered(p.log)
                       /\ p.trx_no = trx_no[p.log] /\ p.un \in 0 .. Len(undo[p.log])
  BY DEF PositionIsRight
<1>2. p.next_stored => pc'[p.log] \in {"IN_HISTORY", "DONE"} /\ Numbered(p.log)'
                       /\ trx_no'[p.log] = trx_no[p.log] /\ undo'[p.log] = undo[p.log]
  BY <1>1 DEF Settled
<1> QED BY <1>1, <1>2 DEF PositionIsRight

\* The position of purge and its task stay right.
LEMMA PurgeKept ==
    ASSUME IInv, SeenStay, Settled, UNCHANGED <<purge_sys, task>>
    PROVE  PurgeIsRight'
<1>1. PICK p : p = purge_sys OBVIOUS
<1>2. PositionIsRight(p)' BY <1>1, PositionKept DEF IInv, PurgeIsRight
<1>3. PICK s : s = task OBVIOUS
<1>4. s # NoTask => /\ purge_sys.state = "ON" /\ s.log \in Trxs /\ SeenByAll(s.log)'
                    /\ s.un \in 0 .. Len(undo'[s.log])
 <2> SUFFICES ASSUME s # NoTask
              PROVE  /\ purge_sys.state = "ON" /\ s.log \in Trxs /\ SeenByAll(s.log)'
                     /\ s.un \in 0 .. Len(undo'[s.log])
   OBVIOUS
 <2>1. /\ purge_sys.state = "ON" /\ s.log \in Trxs /\ SeenByAll(s.log)
       /\ s.un \in 0 .. Len(undo[s.log])
   BY <1>3 DEF IInv, PurgeIsRight
 <2>2. \A t \in Trxs : SeenByAll(t) => SeenByAll(t)' /\ undo'[t] = undo[t]
   BY DEF SeenStay, Settled, SeenByAll
 <2> QED BY <2>1, <2>2
<1>5. purge_sys' = p /\ task' = s /\ NoTask' = NoTask BY <1>1, <1>3 DEF NoTask
<1> QED BY <1>1, <1>2, <1>4, <1>5 DEF PurgeIsRight

\* A step that closes views at most, with the creators of the others running on.
LEMMA ViewsAndPurgeKept ==
    ASSUME IInv, TrxTypes', ViewTypes', Later, FewerViews, Settled, UNCHANGED purgeVars,
           \A i \in DOMAIN view_list' :
               /\ Active(view_list[i].creator)'
               /\ view_list'[i].type = "HIGH_GRANULARITY" => pc'[view_list'[i].creator] = "RUN"
    PROVE  ViewsAreRight' /\ PurgeViewIsRight' /\ GoneIsRight' /\ PurgeIsRight'
<1>1. ViewsAreRight' BY ViewsKept
<1>2. SeenStay BY FewerViewsSee
<1> QED BY <1>1, <1>2, PurgeViewKept, GoneKept, PurgeKept DEF purgeVars

\* A step that leaves transactions and views as they are.
LEMMA AllViewsKept ==
    ASSUME IInv, TrxTypes', NobodyEnds, Settled, UNCHANGED view_list, UNCHANGED purgeVars
    PROVE  ViewsAreRight' /\ PurgeViewIsRight' /\ GoneIsRight' /\ PurgeIsRight'
<1>1. Types /\ UNCHANGED trxVars /\ Later BY NobodyEndsLater DEF IInv, NobodyEnds
<1>2. FewerViews BY <1>1, SameViews
<1>3. ASSUME NEW i \in DOMAIN view_list'
      PROVE  /\ Active(view_list[i].creator)'
             /\ view_list'[i].type = "HIGH_GRANULARITY" => pc'[view_list'[i].creator] = "RUN"
  BY <1>1 DEF IInv, ViewsAreRight, ViewIsRight, Active, trxVars
<1>4. ViewTypes' BY <1>1 DEF Types, ViewTypes, purgeVars
<1> QED BY <1>1, <1>2, <1>3, <1>4, ViewsAndPurgeKept

\* A new view is the newest: it sees what the others see, and what purge sees.
LEMMA OpeningKeepsViews ==
    ASSUME IInv, NEW t \in Trxs, Runs(t), NEW type \in ViewKinds, ~ HasView(t, type),
           view_list' = <<Opened(t, type)>> \o view_list,
           UNCHANGED <<trxVars, undo, logs, purgeVars>>
    PROVE  ViewTypes' /\ ViewsAreRight' /\ PurgeViewIsRight' /\ GoneIsRight' /\ PurgeIsRight'
<1>1. PICK v : v = Opened(t, type) OBVIOUS
<1>2. /\ v \in OpenViews /\ view_list \in Seq(OpenViews) /\ ViewIsRight(v)
      /\ v.creator = t /\ v.type = type
  BY <1>1, OpenedView DEF IInv, Types, ViewTypes
<1>3. \A u \in Started : Knows(v, u) <=> u \notin Hidden(t, type) BY <1>1, OpenedView
<1>4. /\ view_list' \in Seq(OpenViews) /\ Len(view_list) \in Nat
      /\ DOMAIN view_list' = 1 .. Len(view_list) + 1 /\ view_list'[1] = v
      /\ DOMAIN view_list = 1 .. Len(view_list)
      /\ \A i \in 2 .. Len(view_list) + 1 : view_list'[i] = view_list[i - 1]
  BY <1>1, <1>2
<1>5. \A i \in DOMAIN view_list' : i = 1 \/ (i - 1 \in DOMAIN view_list /\ view_list'[i] = view_list[i - 1])
  BY <1>4
<1>6. UNCHANGED trxVars /\ Types /\ NobodyEnds /\ Started' = Started
  BY DEF IInv, NobodyEnds, Numbered, trxVars, Started
<1>7. Later BY <1>6, NobodyEndsLater
<1>8. \A w, u : Knows(w, u)' <=> Knows(w, u) BY <1>6 DEF Knows, Sees, trxVars
<1>9. \A w : ViewIsRight(w)' <=> ViewIsRight(w)
  BY <1>6, <1>8 DEF ViewIsRight, LimitsAreRight, Active, trxVars
<1>10. ASSUME NEW u \in Started, ~ Active(u)
       PROVE  Knows(v, u)
  BY <1>3, <1>10 DEF Hidden, ActiveTrxs
<1>11. ASSUME NEW i \in DOMAIN view_list'
       PROVE  ViewIsRight(view_list[i])'
 <2>1. CASE i = 1 BY <1>2, <1>4, <1>9, <2>1
 <2>2. CASE i # 1
  <3>1. PICK w : w = view_list[i - 1] OBVIOUS
  <3>2. view_list'[i] = w /\ ViewIsRight(w) BY <1>5, <2>2, <3>1 DEF IInv, ViewsAreRight
  <3> QED BY <1>9, <3>2
 <2> QED BY <2>1, <2>2
<1>12. ASSUME NEW i \in DOMAIN view_list', NEW j \in DOMAIN view_list', i < j,
              view_list'[i].creator = view_list'[j].creator, view_list'[i].type = view_list'[j].type
       PROVE  FALSE
 <2>1. j # 1 /\ j - 1 \in DOMAIN view_list /\ view_list'[j] = view_list[j - 1] BY <1>4, <1>12
 <2>2. CASE i = 1
  <3>1. view_list[j - 1].creator = t /\ view_list[j - 1].type = type
    BY <1>2, <1>4, <1>12, <2>1, <2>2
  <3> QED BY <2>1, <3>1 DEF HasView, ViewsOf
 <2>3. CASE i # 1
  <3>1. i - 1 \in DOMAIN view_list /\ view_list'[i] = view_list[i - 1] BY <1>5, <2>3
  <3>2. i - 1 = j - 1 BY <1>12, <2>1, <3>1 DEF IInv, ViewsAreRight
  <3> QED BY <1>4, <1>12, <3>2
 <2> QED BY <2>2, <2>3
<1>13. ASSUME NEW i \in DOMAIN view_list', NEW j \in DOMAIN view_list',
              view_list'[i].creator = view_list'[j].creator, view_list'[i].type = view_list'[j].type
       PROVE  i = j
 <2>1. i < j \/ j < i \/ i = j BY <1>4
 <2> QED BY <1>12, <1>13, <2>1
<1>14. ASSUME NEW i \in DOMAIN view_list', NEW j \in DOMAIN view_list', i < j,
              NEW u \in Started', u # view_list'[j].creator, Knows(view_list[j], u)'
       PROVE  Knows(view_list[i], u)'
 <2>1. j - 1 \in DOMAIN view_list /\ view_list'[j] = view_list[j - 1] BY <1>4, <1>14
 <2>2. PICK w : w = view_list[j - 1] OBVIOUS
 <2>3. Knows(w, u)' /\ u \in Started BY <1>6, <1>14, <2>1, <2>2
 <2>4. Knows(w, u) /\ ViewIsRight(w) /\ u # w.creator
   BY <1>8, <1>14, <2>1, <2>2, <2>3 DEF IInv, ViewsAreRight
 <2>5. CASE i = 1
  <3>1. Knows(v, u) BY <1>10, <2>3, <2>4 DEF ViewIsRight
  <3>2. Knows(v, u)' BY <1>8, <3>1
  <3> QED BY <1>4, <2>5, <3>2
 <2>6. CASE i # 1
  <3>1. i - 1 \in DOMAIN view_list /\ view_list'[i] = view_list[i - 1] /\ i - 1 < j - 1
    BY <1>4, <1>14, <2>6
  <3>2. PICK x : x = view_list[i - 1] OBVIOUS
  <3>3. Knows(x, u) BY <2>1, <2>2, <2>3, <2>4, <3>1, <3>2 DEF IInv, ViewsAreRight
  <3>4. Knows(x, u)' BY <1>8, <3>3
  <3> QED BY <3>1, <3>2, <3>4
 <2> QED BY <2>5, <2>6
<1>15. ViewsAreRight' BY <1>11, <1>13, <1>14 DEF ViewsAreRight
<1>16. SeenStay
 <2> SUFFICES ASSUME NEW u \in Trxs, SeenByAll(u)  PROVE SeenByAll(u)' BY DEF SeenStay
 <2>1. pc'[u] = "DONE" /\ u \in Started /\ ~ Active(u)
   BY <1>6 DEF SeenByAll, Started, Active, trxVars
 <2>2. ASSUME NEW i \in DOMAIN view_list'
       PROVE  Knows(view_list[i], u)'
  <3>1. PICK w : w = view_list'[i] OBVIOUS
  <3>2. Knows(w, u)
   <4>1. CASE i = 1 BY <1>4, <1>10, <2>1, <3>1, <4>1
   <4>2. CASE i # 1 BY <1>5, <3>1, <4>2 DEF SeenByAll
   <4> QED BY <4>1, <4>2
  <3>3. Knows(w, u)' BY <1>8, <3>2
  <3> QED BY <3>1, <3>3
 <2> QED BY <2>1, <2>2 DEF SeenByAll
<1>17. Settled /\ TrxTypes' BY <1>6 DEF Settled, Numbered, Types, TrxTypes, trxVars
<1>18. PurgeViewIsRight' /\ GoneIsRight' /\ PurgeIsRight'
  BY <1>7, <1>16, <1>17, PurgeViewKept, GoneKept, PurgeKept DEF purgeVars
<1>19. ViewTypes' BY <1>4 DEF IInv, Types, ViewTypes, purgeVars
<1> QED BY <1>15, <1>18, <1>19

-----------------------------------------------------------------------------
(* Records and undo records in a step *)

\* An undo record that stays is right as long as its transaction keeps its locks.
LEMMA UndoKept ==
    ASSUME Types, Later, NEW t \in Trxs, NEW n \in DOMAIN undo[t], UndoIsRight(t, n),
           SameUndo(t, n), Real(undo[t][n].old) => SameUndo(undo[t][n].old.by, undo[t][n].old.un),
           logs[t] \subseteq logs'[t], pc'[t] # "DONE" => held[t] \subseteq held'[t]
    PROVE  UndoIsRight(t, n)'
<1> DEFINE u == undo[t][n]
<1>1. undo \in [Trxs -> Seq(UndoRec)] BY DEF Types, RowTypes
<1>2. u \in UndoRec BY <1>1
<1>3. n \in 1 .. n /\ n \in Nat
 <2>1. undo[t] \in Seq(UndoRec) BY <1>1
 <2> QED BY <2>1
<1>0. undo'[t][n] = u /\ n \in DOMAIN undo'[t] /\ \A m \in 1 .. n - 1 : undo'[t][m] = undo[t][m]
  BY <1>3 DEF SameUndo
<1> HIDE DEF u
<1>4. IsVersion(u.old, u.key) /\ u.old \in Version \cup {NoRow} BY <1>2 DEF UndoIsRight, u, UndoRec
<1>5. PICK x : x = u.old OBVIOUS
<1>6. PICK y : y = u.key OBVIOUS
<1>7. IsVersion(x, y) /\ x \in Version \cup {NoRow} BY <1>4, <1>5, <1>6
<1>8. Real(x) => SameUndo(x.by, x.un) BY <1>5 DEF u
<1>9. IsVersion(x, y)' BY <1>7, <1>8, VersionStays
<1>10. u' = u BY <1>0 DEF u
<1>11. IsVersion(u.old, u.key)'
 <2>1. (u.old)' = x /\ (u.key)' = y BY <1>5, <1>6, <1>10
 <2> QED BY <1>9, <2>1
<1>12. u.type # "INSERT" => /\ "UPDATE" \in logs[t]
                            /\ pc'[t] # "DONE" => u.key \in held'[t]
 <2>1. pc'[t] # "DONE" => pc[t] # "DONE" BY DEF Later
 <2> QED BY <2>1 DEF UndoIsRight, u
<1>13. Real(u.old) /\ u.old.by # t => u.old.by \in Trxs BY <1>4 DEF IsVersion, Started
<1>14. Real(u.old) /\ pc[u.old.by] = "DONE" /\ u.old.by # t => pc'[u.old.by] = "DONE"
  BY <1>13 DEF Later
<1>15. Real(u.old)' <=> Real(u.old) BY <1>10 DEF Real
<1>16. (Own(u.old, t)' <=> Own(u.old, t)) /\ (Own(u.old, NoTrx)' <=> Own(u.old, NoTrx))
  BY <1>10 DEF Own
<1>17. ~ Own(u.old, t) /\ Real(u.old) => u.old.by # t BY DEF Own, Real
<1>18. Own(u.old, t) => u.old.un < n /\ \A m \in u.old.un + 1 .. n - 1 : undo'[t][m].key # u.key
 <2> SUFFICES ASSUME Own(u.old, t)
              PROVE  u.old.un < n /\ \A m \in u.old.un + 1 .. n - 1 : undo'[t][m].key # u.key
   OBVIOUS
 <2>1. u.old.un < n /\ \A m \in u.old.un + 1 .. n - 1 : undo[t][m].key # u.key
   BY DEF UndoIsRight, u
 <2>2. u.old.un \in 0 .. MaxOps BY <1>4 DEF Own, Version
 <2>3. \A m \in u.old.un + 1 .. n - 1 : m \in 1 .. n - 1 BY <1>3, <2>2
 <2> QED BY <1>0, <2>1, <2>3
<1>19. ~ Own(u.old, t) => \A m \in 1 .. n - 1 : undo'[t][m].key # u.key BY <1>0 DEF UndoIsRight, u
<1>20. ~ Own(u.old, t) /\ Real(u.old) => pc'[u.old.by] = "DONE" BY <1>14, <1>17 DEF UndoIsRight, u
<1>21. /\ Own(u.old, NoTrx) => u.old = Original
       /\ u.type = "INSERT" <=> u.old = NoRow
       /\ u.type = "UPD_DEL" => u.old.del
  BY DEF UndoIsRight, u
<1>22. (undo[t][n])' = u BY <1>0
<1> QED BY <1>10, <1>11, <1>12, <1>15, <1>16, <1>18, <1>19, <1>20, <1>21, <1>22 DEF UndoIsRight

\* All undo records stay right when no transaction that goes on loses its locks.
LEMMA UndosKept ==
    ASSUME Types, UndosAreRight, Later, UNCHANGED <<undo, logs, ops>>,
           \A t \in Trxs : pc'[t] # "DONE" => held'[t] = held[t]
    PROVE  UndosAreRight'
<1>1. ASSUME NEW t \in Trxs, NEW n \in DOMAIN undo[t]
      PROVE  UndoIsRight(t, n)'
 <2>1. undo \in [Trxs -> Seq(UndoRec)] /\ undo[t][n] \in UndoRec /\ UndoIsRight(t, n)
   BY DEF Types, RowTypes, UndosAreRight
 <2>2. \A s \in Trxs : \A m \in DOMAIN undo[s] : SameUndo(s, m)
  <3> TAKE s \in Trxs
  <3> TAKE m \in DOMAIN undo[s]
  <3>1. undo[s] \in Seq(UndoRec) BY <2>1
  <3> QED BY <3>1 DEF SameUndo
 <2>3. Real(undo[t][n].old) => SameUndo(undo[t][n].old.by, undo[t][n].old.un)
   BY Zenon, <2>1, <2>2 DEF UndoIsRight, IsVersion, Started
 <2> QED BY <2>1, <2>2, <2>3, UndoKept
<1>2. \A t \in Trxs : Len(undo'[t]) <= ops'[t] /\ (pc'[t] = "NEW" => undo'[t] = <<>>)
  BY DEF UndosAreRight, Later, Started
<1> QED BY <1>1, <1>2 DEF UndosAreRight

\* A record that stays is right as long as its writers keep no more than before.
LEMMA RowKept ==
    ASSUME Types, Later, UNCHANGED undo, NEW k \in Keys, RowIsRight(k), rows'[k] = rows[k],
           \A t \in Trxs : Active(t)' => (Active(t) /\ Kept(t)' <= Kept(t)) \/ undo[t] = <<>>,
           \A t \in Trxs : Kept(t) \in Nat /\ Kept(t)' \in Nat
    PROVE  RowIsRight(k)'
<1>1. undo \in [Trxs -> Seq(UndoRec)] /\ rows[k] \in Version \cup {NoRow} BY DEF Types, RowTypes
<1>2. PICK x : x = rows[k] OBVIOUS
<1>3. IsVersion(x, k) /\ x \in Version \cup {NoRow} /\ rows'[k] = x BY <1>1, <1>2 DEF RowIsRight
<1>4. Real(x) => SameUndo(x.by, x.un)
 <2>1. Real(x) => x.by \in Trxs /\ x.un \in DOMAIN undo[x.by] BY <1>3 DEF IsVersion, Started
 <2>2. Real(x) => undo[x.by] \in Seq(UndoRec) BY <1>1, <2>1
 <2> QED BY <2>1, <2>2 DEF SameUndo
<1>5. IsVersion(x, k)' BY <1>3, <1>4, VersionStays
<1>6. IsVersion(rows[k], k)' /\ (Own(rows[k], NoTrx)' => rows'[k] = Original)
  BY <1>2, <1>3, <1>5 DEF RowIsRight, Own
<1>7. ASSUME NEW t \in Trxs, Active(t)', NEW n \in DOMAIN undo'[t], undo'[t][n].key = k, n <= Kept(t)'
      PROVE  Own(rows[k], t)' /\ rows'[k].un >= n
 <2>1. n \in DOMAIN undo[t] /\ n \in Nat /\ undo[t][n].key = k /\ undo[t] # <<>> BY <1>1, <1>7
 <2>2. Active(t) /\ n <= Kept(t) BY <1>7, <2>1
 <2>3. Own(rows[k], t) /\ rows[k].un >= n BY <2>1, <2>2 DEF RowIsRight
 <2> QED BY <2>3 DEF Own
<1> QED BY <1>6, <1>7 DEF RowIsRight

\* A rollback goes on, or there is none.
LEMMA RollingKept ==
    ASSUME IInv, Later, UNCHANGED <<rows, undo, rolling>>, NEW t \in Trxs,
           (pc'[t] = pc[t] /\ held'[t] = held[t]) \/ ~ rolling[t].on
    PROVE  RollingIsRight(t)'
<1> DEFINE r == rolling[t]
<1>1. RollingIsRight(t) /\ r \in [limit : 0 .. MaxOps, next : 0 .. MaxOps,
                                  remove : Keys \cup {NoRow}, on : BOOLEAN]
  BY DEF IInv, Types, RowTypes
<1>2. IF r.on THEN pc'[t] = "RUN" ELSE r = NoRoll BY <1>1 DEF RollingIsRight
<1>3. r.next \in 0 .. Len(undo'[t]) /\ (r.next # 0 => r.next > r.limit) BY <1>1 DEF RollingIsRight
<1>4. ASSUME r.remove # NoRow
      PROVE  /\ r.remove \in held'[t]
             /\ \/ rows'[r.remove] = NoRow
                \/ /\ rows'[r.remove].del
                   /\ rows'[r.remove].by = t \/ ~ Active(rows[r.remove].by)'
 <2>1. r.on /\ r.remove \in Keys BY <1>1, <1>4 DEF RollingIsRight, NoRoll
 <2>2. /\ r.remove \in held[t]
       /\ \/ rows[r.remove] = NoRow
          \/ /\ rows[r.remove].del
             /\ rows[r.remove].by = t \/ ~ Active(rows[r.remove].by)
   BY <1>1, <1>4 DEF RollingIsRight
 <2>3. PICK x : x = rows[r.remove] OBVIOUS
 <2>4. x # NoRow /\ ~ Active(x.by) => ~ Active(x.by)'
  <3>1. IsVersion(x, r.remove) BY <2>1, <2>3 DEF IInv, RowIsRight
  <3>2. x # NoRow /\ x.by # NoTrx => x.by \in Started BY <3>1 DEF IsVersion, Real
  <3>3. ~ Active(NoTrx)' BY MvccAssumption DEF Active
  <3> QED BY <3>2, <3>3, StartedStays
 <2>5. rows'[r.remove] = x BY <2>3
 <2>6. x = NoRow \/ (x.del /\ (x.by = t \/ ~ Active(x.by)')) BY <2>2, <2>3, <2>4
 <2> QED BY <2>1, <2>2, <2>3, <2>5, <2>6
<1>5. rolling'[t] = r /\ NoRoll' = NoRoll BY DEF NoRoll
<1> QED BY <1>2, <1>3, <1>4, <1>5 DEF RollingIsRight

\* How many undo records stay is a number.
LEMMA KeptIsNat ==
    ASSUME Types, NEW t \in Trxs
    PROVE  Kept(t) \in Nat
<1>1. undo[t] \in Seq(UndoRec) /\ rolling[t] \in [limit : 0 .. MaxOps, next : 0 .. MaxOps,
                                                  remove : Keys \cup {NoRow}, on : BOOLEAN]
  BY DEF Types, RowTypes
<1>2. Len(undo[t]) \in Nat /\ rolling[t].limit \in 0 .. MaxOps BY <1>1
<1> QED BY <1>2 DEF Kept

\* A step that leaves the records and their undo records alone.
LEMMA RecordsKept ==
    ASSUME IInv, Later, UNCHANGED <<rows, undo, logs, rolling, ops>>, NEW t \in Trxs,
           ~ rolling[t].on \/ UNCHANGED <<pc, held>>,
           \A u \in Trxs \ {t} : pc'[u] = pc[u] /\ held'[u] = held[u],
           pc'[t] # "DONE" => held'[t] = held[t],
           Active(t)' => Active(t) \/ undo[t] = <<>>
    PROVE  UndosAreRight' /\ \A u \in Trxs : RollingIsRight(u)' /\ \A k \in Keys : RowIsRight(k)'
<1>1. UndosAreRight' BY UndosKept DEF IInv
<1>2. ASSUME NEW u \in Trxs
      PROVE  RollingIsRight(u)'
 <2>1. (pc'[u] = pc[u] /\ held'[u] = held[u]) \/ ~ rolling[u].on BY DEF IInv
 <2> QED BY <2>1, RollingKept
<1>3. ASSUME NEW k \in Keys
      PROVE  RowIsRight(k)'
 <2>1. \A u \in Trxs : Kept(u)' = Kept(u) /\ Kept(u) \in Nat BY KeptIsNat DEF Kept, IInv
 <2>2. \A u \in Trxs : Active(u)' => (Active(u) /\ Kept(u)' <= Kept(u)) \/ undo[u] = <<>>
   BY <2>1 DEF Active
 <2>3. Types /\ RowIsRight(k) /\ rows'[k] = rows[k] /\ UNCHANGED undo BY DEF IInv
 <2> QED BY <2>1, <2>2, <2>3, RowKept
<1> QED BY <1>1, <1>2, <1>3

\* A chain says what its first version is.
LEMMA ChainGivesRow ==
    ASSUME NEW k \in Keys, ChainIsRight(k)'
    PROVE  IsVersion(rows[k], k)' /\ (Own(rows[k], NoTrx)' => rows'[k] = Original)
<1>1. PICK c \in Seq(Version \cup {NoRow}) : IsChain(c, k)' BY DEF ChainIsRight
<1>2. 1 \in DOMAIN c /\ c[1] = rows'[k] BY <1>1 DEF IsChain
<1>3. IsVersion(c[1], k)' /\ (Own(c[1], NoTrx)' => c[1] = Original) BY <1>1, <1>2 DEF IsChain
<1> QED BY <1>2, <1>3 DEF Own

-----------------------------------------------------------------------------
(* The records after a change *)

\* What the four kinds of change ask of the record.
Fits(k, type) == /\ type = "INSERT" <=> rows[k] = NoRow
                 /\ type = "UPD_DEL" => rows[k].del

\* The undo record of the change itself.
LEMMA NewUndoIsRight ==
    ASSUME IInv, NEW t \in Trxs, NEW k \in Keys, NEW type \in ChangeTypes, Change(t, k, type),
           Fits(k, type), NEW n, n = Len(undo[t]) + 1
    PROVE  UndoIsRight(t, n)'
<1> DEFINE l == Len(undo[t])
<1>1. /\ pc[t] = "RUN" /\ ~ rolling[t].on /\ Active(t)
      /\ l \in Nat /\ undo[t] \in Seq(UndoRec) /\ DOMAIN undo[t] = 1 .. l
  BY Changing
<1>2. undo'[t][l + 1] = Record(type, k) /\ \A m \in 1 .. l : undo'[t][m] = undo[t][m] BY Changed
<1>3. Later /\ UNCHANGED trxVars /\ \A u \in Trxs : \A m \in DOMAIN undo[u] : SameUndo(u, m)
  BY ChangeIsLater DEF NobodyEnds
<1>4. PICK x : x = rows[k] OBVIOUS
<1>5. x \in Version \cup {NoRow} /\ IsVersion(x, k) /\ (Own(x, NoTrx) => x = Original)
  BY <1>4 DEF IInv, Types, RowTypes, RowIsRight
<1>6. Real(x) => x.by \in Started /\ x.un \in DOMAIN undo[x.by] BY <1>5 DEF IsVersion
<1>7. IsVersion(x, k)'
 <2>1. Real(x) => SameUndo(x.by, x.un) BY <1>3, <1>6 DEF Started
 <2> QED BY <1>3, <1>5, <2>1, VersionStays DEF IInv
<1>8. type # "INSERT" => "UPDATE" \in logs'[t] /\ k \in held'[t]
 <2>1. logs \in [Trxs -> SUBSET {"INSERT", "UPDATE", "DEL_MARKS"}] /\ held \in [Trxs -> SUBSET Keys]
   BY DEF IInv, Types, TrxTypes, RowTypes
 <2> QED BY <2>1 DEF Change, ChangeTypes
<1>9. ASSUME NEW m \in 1 .. l, undo[t][m].key = k
      PROVE  Own(x, t) /\ x.un >= m
 <2>1. m <= Kept(t) /\ m \in DOMAIN undo[t] BY <1>1 DEF Kept
 <2> QED BY <1>1, <1>4, <1>9, <2>1 DEF IInv, RowIsRight
<1>10. Own(x, t) => /\ x.un < l + 1
                    /\ \A m \in x.un + 1 .. (l + 1) - 1 : undo'[t][m].key # k
 <2> SUFFICES ASSUME Own(x, t)
              PROVE  x.un < l + 1 /\ \A m \in x.un + 1 .. (l + 1) - 1 : undo'[t][m].key # k
   OBVIOUS
 <2>1. Real(x) /\ x.by = t /\ x.un \in 1 .. l BY <1>1, <1>6, MvccAssumption DEF Own, Real
 <2>2. \A m \in x.un + 1 .. (l + 1) - 1 : m \in 1 .. l /\ ~ (x.un >= m) BY <1>1, <2>1
 <2> QED BY <1>1, <1>2, <1>9, <2>1, <2>2
<1>11. ~ Own(x, t) => /\ Real(x) => pc'[x.by] = "DONE"
                      /\ \A m \in 1 .. (l + 1) - 1 : undo'[t][m].key # k
 <2> SUFFICES ASSUME ~ Own(x, t)
              PROVE  /\ Real(x) => pc'[x.by] = "DONE"
                     /\ \A m \in 1 .. (l + 1) - 1 : undo'[t][m].key # k
   OBVIOUS
 <2>1. (l + 1) - 1 = l BY <1>1
 <2>2. \A m \in 1 .. l : undo'[t][m].key # k BY <1>2, <1>9
 <2>3. ASSUME Real(x)
       PROVE  pc'[x.by] = "DONE"
  <3>1. x.by \in Trxs \ {t} /\ x # NoRow /\ pc[x.by] # "NEW" BY <1>6, <2>3 DEF Own, Real, Started
  <3>2. ~ Active(x.by) BY <1>4, <3>1 DEF Change, Lockable
  <3> QED BY <1>3, <3>1, <3>2 DEF Active, trxVars
 <2> QED BY <2>1, <2>2, <2>3
<1>12. Record(type, k).type = type /\ Record(type, k).key = k /\ Record(type, k).old = x
  BY <1>4 DEF Record
<1>13. PICK u : u = Record(type, k) OBVIOUS
<1>14. u.type = type /\ u.key = k /\ u.old = x /\ undo'[t][l + 1] = u BY <1>2, <1>12, <1>13
<1>15. n = l + 1 OBVIOUS
<1> QED
 <2>1. undo'[t][n] = u BY <1>14, <1>15
 <2>2. (Own(x, t)' <=> Own(x, t)) /\ (Own(x, NoTrx)' <=> Own(x, NoTrx)) /\ (Real(x)' <=> Real(x))
   BY DEF Own, Real
 <2>3. (type = "INSERT" <=> x = NoRow) /\ (type = "UPD_DEL" => x.del) BY <1>4 DEF Fits
 <2> HIDE DEF l
 <2> QED BY <1>5, <1>7, <1>8, <1>10, <1>11, <1>14, <1>15, <2>1, <2>2, <2>3 DEF UndoIsRight

\* A change keeps all undo records right.
LEMMA ChangeKeepsUndos ==
    ASSUME IInv, NEW t \in Trxs, NEW k \in Keys, NEW type \in ChangeTypes, Change(t, k, type),
           Fits(k, type)
    PROVE  UndosAreRight'
<1> DEFINE l == Len(undo[t])
<1>1. /\ pc[t] = "RUN" /\ l \in Nat /\ undo[t] \in Seq(UndoRec) /\ DOMAIN undo[t] = 1 .. l /\ l <= ops[t]
  BY Changing
<1>2. undo'[t] \in Seq(UndoRec) /\ Len(undo'[t]) = l + 1 /\ \A u \in Trxs \ {t} : undo'[u] = undo[u]
  BY Changed
<1>3. Later /\ UNCHANGED trxVars /\ \A u \in Trxs : \A n \in DOMAIN undo[u] : SameUndo(u, n)
  BY ChangeIsLater DEF NobodyEnds
<1>4. /\ logs \in [Trxs -> SUBSET {"INSERT", "UPDATE", "DEL_MARKS"}] /\ held \in [Trxs -> SUBSET Keys]
      /\ ops \in [Trxs -> 0 .. MaxOps] /\ undo \in [Trxs -> Seq(UndoRec)] /\ MaxOps \in Nat
  BY MvccAssumption DEF IInv, Types, TrxTypes, RowTypes
<1>5. \A u \in Trxs : logs[u] \subseteq logs'[u] /\ held[u] \subseteq held'[u] BY <1>4 DEF Change
<1>6. ASSUME NEW u \in Trxs, NEW n \in DOMAIN undo[u]
      PROVE  UndoIsRight(u, n)'
 <2>1. UndoIsRight(u, n) /\ undo[u][n] \in UndoRec BY <1>4 DEF IInv, UndosAreRight
 <2>2. Real(undo[u][n].old) => SameUndo(undo[u][n].old.by, undo[u][n].old.un)
   BY Zenon, <1>3, <2>1 DEF UndoIsRight, IsVersion, Started
 <2> QED BY <1>3, <1>5, <2>1, <2>2, UndoKept DEF IInv
<1>7. ASSUME NEW u \in Trxs, NEW n \in DOMAIN undo'[u]
      PROVE  UndoIsRight(u, n)'
 <2>1. CASE u = t /\ n = l + 1 BY <2>1, NewUndoIsRight
 <2>2. CASE ~ (u = t /\ n = l + 1)
  <3>1. n \in DOMAIN undo[u] BY <1>1, <1>2, <2>2
  <3> QED BY <1>6, <3>1
 <2> QED BY <2>1, <2>2
<1>8. ASSUME NEW u \in Trxs
      PROVE  Len(undo'[u]) <= ops'[u] /\ (pc'[u] = "NEW" => undo'[u] = <<>>)
 <2>1. Len(undo[u]) <= ops[u] /\ (pc[u] = "NEW" => undo[u] = <<>>) BY DEF IInv, UndosAreRight
 <2>2. ops' = [ops EXCEPT ![t] = ops[t] + 1] BY DEF Change
 <2>3. CASE u = t
  <3>1. ops'[t] = ops[t] + 1 /\ ops[t] \in Nat BY <1>4, <2>2
  <3> QED BY <1>1, <1>2, <1>3, <2>3, <3>1 DEF trxVars
 <2>4. CASE u # t BY <1>2, <1>3, <1>4, <2>1, <2>2, <2>4 DEF trxVars
 <2> QED BY <2>3, <2>4
<1> QED BY <1>7, <1>8 DEF UndosAreRight

\* A change does not disturb the rollback of another transaction.
LEMMA ChangeKeepsRollings ==
    ASSUME IInv, NEW t \in Trxs, NEW k \in Keys, NEW type \in ChangeTypes, Change(t, k, type),
           NEW u \in Trxs
    PROVE  RollingIsRight(u)'
<1> DEFINE r == rolling[u]
<1>1. ~ rolling[t].on /\ Len(undo[t]) \in Nat BY Changing
<1>2. Len(undo'[t]) = Len(undo[t]) + 1 /\ \A s \in Trxs \ {t} : undo'[s] = undo[s] BY Changed
<1>3. \A q \in Keys \ {k} : rows'[q] = rows[q] BY Changed
<1>4. UNCHANGED trxVars /\ UNCHANGED rolling BY ChangeIsLater DEF NobodyEnds, Change
<1>5. /\ r \in [limit : 0 .. MaxOps, next : 0 .. MaxOps, remove : Keys \cup {NoRow}, on : BOOLEAN]
      /\ undo[u] \in Seq(UndoRec) /\ held \in [Trxs -> SUBSET Keys]
  BY DEF IInv, Types, RowTypes
<1>6. RollingIsRight(u) BY DEF IInv
<1>7. IF r.on THEN pc'[u] = "RUN" ELSE r = NoRoll BY <1>4, <1>6 DEF RollingIsRight, trxVars
<1>8. r.next \in 0 .. Len(undo'[u]) /\ (r.next # 0 => r.next > r.limit)
 <2>1. r.next \in 0 .. Len(undo[u]) /\ (r.next # 0 => r.next > r.limit) BY <1>6 DEF RollingIsRight
 <2>2. Len(undo[u]) \in Nat BY <1>5
 <2>3. Len(undo[u]) <= Len(undo'[u]) /\ Len(undo'[u]) \in Nat BY <1>1, <1>2, <2>2
 <2> QED BY <1>5, <2>1, <2>2, <2>3
<1>9. ASSUME r.remove # NoRow
      PROVE  /\ r.remove \in held'[u]
             /\ rows'[r.remove] = rows[r.remove]
 <2>1. r.on /\ r.remove \in Keys /\ r.remove \in held[u]
   BY <1>5, <1>6, <1>9 DEF RollingIsRight, NoRoll
 <2>2. u # t BY <1>1, <2>1
 <2>3. held'[u] = held[u] BY <1>5, <2>2 DEF Change
 <2>4. r.remove # k BY <2>1, <2>2 DEF Change, Lockable
 <2> QED BY <1>3, <2>1, <2>3, <2>4
<1>10. r.remove # NoRow =>
           \/ rows'[r.remove] = NoRow
           \/ rows'[r.remove].del /\ (rows'[r.remove].by = u \/ ~ Active(rows'[r.remove].by))
  BY <1>6, <1>9 DEF RollingIsRight
<1>11. PICK x : x = r OBVIOUS
<1>12. PICK y : y = rows'[x.remove].by OBVIOUS
<1>13. Active(y)' <=> Active(y) BY <1>4 DEF Active, trxVars
<1>14. rolling'[u] = x /\ NoRoll' = NoRoll BY <1>4, <1>11 DEF NoRoll
<1> HIDE DEF r
<1>15. x.remove # NoRow =>
           \/ rows'[x.remove] = NoRow
           \/ rows'[x.remove].del /\ (y = u \/ ~ Active(y)')
  BY <1>10, <1>11, <1>12, <1>13
<1> QED BY <1>7, <1>8, <1>9, <1>11, <1>12, <1>14, <1>15 DEF RollingIsRight

\* A change leaves all records right: none holds a later kept change of another.
LEMMA ChangeKeepsRows ==
    ASSUME IInv, NEW t \in Trxs, NEW k \in Keys, NEW type \in ChangeTypes, Change(t, k, type),
           NEW q \in Keys
    PROVE  RowIsRight(q)'
<1> DEFINE l == Len(undo[t])
<1>1. /\ pc[t] = "RUN" /\ ~ rolling[t].on /\ l \in Nat /\ undo[t] \in Seq(UndoRec)
      /\ DOMAIN undo[t] = 1 .. l
  BY Changing
<1>2. /\ undo'[t] \in Seq(UndoRec) /\ Len(undo'[t]) = l + 1 /\ DOMAIN undo'[t] = 1 .. l + 1
      /\ undo'[t][l + 1] = Record(type, k)
  BY <1>1, Changed
<1>3. /\ \A m \in 1 .. l : undo'[t][m] = undo[t][m]
      /\ \A u \in Trxs \ {t} : undo'[u] = undo[u]
  BY Changed
<1>4. rows'[k] = NewVersion(t, type) /\ \A p \in Keys \ {k} : rows'[p] = rows[p] BY Changed
<1>5. UNCHANGED trxVars /\ UNCHANGED rolling BY ChangeIsLater DEF NobodyEnds, Change
<1>6. IsVersion(rows[q], q)' /\ (Own(rows[q], NoTrx)' => rows'[q] = Original)
  BY ChangeKeepsChains, ChainGivesRow
<1>7. NewVersion(t, type) # NoRow /\ NewVersion(t, type).by = t /\ NewVersion(t, type).un = l + 1
  BY Changing, RowAssumption DEF NewVersion
<1>8. ASSUME NEW u \in Trxs, Active(u)', NEW n \in DOMAIN undo'[u], undo'[u][n].key = q, n <= Kept(u)'
      PROVE  Own(rows[q], u)' /\ rows'[q].un >= n
 <2>1. Active(u) BY <1>5, <1>8 DEF Active, trxVars
 <2>2. CASE u = t /\ n = l + 1
  <3>1. q = k BY <1>2, <1>8, <2>2 DEF Record
  <3> QED BY <1>1, <1>4, <1>7, <2>2, <3>1 DEF Own
 <2>3. CASE u = t /\ n # l + 1
  <3>1. n \in 1 .. l /\ undo[t][n].key = q /\ n <= Kept(t)
    BY <1>1, <1>2, <1>3, <1>8, <2>3 DEF Kept
  <3>2. Own(rows[q], t) /\ rows[q].un >= n BY <1>1, <2>1, <2>3, <3>1 DEF IInv, RowIsRight
  <3>3. CASE q = k BY <1>1, <1>4, <1>7, <2>3, <3>1, <3>3 DEF Own
  <3>4. CASE q # k
   <4>1. rows'[q] = rows[q] BY <1>4, <3>4
   <4> QED BY <2>3, <3>2, <4>1 DEF Own
  <3> QED BY <3>3, <3>4
 <2>4. CASE u # t
  <3>1. undo'[u] = undo[u] /\ n <= Kept(u) BY <1>3, <1>5, <1>8, <2>4 DEF Kept
  <3>2. Own(rows[q], u) /\ rows[q].un >= n BY <1>8, <2>1, <3>1 DEF IInv, RowIsRight
  <3>3. q # k BY <2>1, <2>4, <3>2 DEF Change, Lockable, Own
  <3>4. rows'[q] = rows[q] BY <1>4, <3>3
  <3> QED BY <3>2, <3>4 DEF Own
 <2> QED BY <2>2, <2>3, <2>4
<1> QED BY <1>6, <1>8 DEF RowIsRight

\* A change keeps the types.
LEMMA ChangeKeepsTypes ==
    ASSUME IInv, NEW t \in Trxs, NEW k \in Keys, NEW type \in ChangeTypes, Change(t, k, type)
    PROVE  Types'
<1>1. Types /\ UNCHANGED <<trxVars, rolling, view_list, purgeVars, commitVars>> BY DEF IInv, Change
<1>2. ops[t] + 1 \in 0 .. MaxOps /\ NewVersion(t, type) \in Version BY Changing
<1>3. TrxTypes'
 <2>1. logs' \in [Trxs -> SUBSET {"INSERT", "UPDATE", "DEL_MARKS"}]
   BY <1>1 DEF Change, ChangeTypes, Types, TrxTypes
 <2> QED BY <1>1, <2>1 DEF Types, TrxTypes, trxVars
<1>4. undo' \in [Trxs -> Seq(UndoRec)]
 <2>1. undo'[t] \in Seq(UndoRec) BY Changed
 <2>2. undo' = [undo EXCEPT ![t] = Append(undo[t], Record(type, k))] BY Changed
 <2>3. undo \in [Trxs -> Seq(UndoRec)] BY <1>1 DEF Types, RowTypes
 <2> QED BY <2>1, <2>2, <2>3
<1>5. rows' \in [Keys -> Version \cup {NoRow}]
 <2>1. rows' = [rows EXCEPT ![k] = NewVersion(t, type)] BY Changed
 <2> QED BY <1>1, <1>2, <2>1 DEF Types, RowTypes
<1>6. held' \in [Trxs -> SUBSET Keys] /\ ops' \in [Trxs -> 0 .. MaxOps]
 <2>1. ops' = [ops EXCEPT ![t] = ops[t] + 1] BY DEF Change
 <2>2. ops' \in [Trxs -> 0 .. MaxOps] BY <1>1, <1>2, <2>1 DEF Types, RowTypes
 <2>3. held' \in [Trxs -> SUBSET Keys] BY <1>1 DEF Change, Types, RowTypes
 <2> QED BY <2>2, <2>3
<1>7. RowTypes' BY <1>1, <1>4, <1>5, <1>6 DEF Types, RowTypes
<1> QED
  BY <1>1, <1>3, <1>7 DEF Types, HistoryTypes, ViewTypes, PurgeTypes, trxVars, purgeVars, commitVars

\* Insert, InsertByModify, Update and DelMark keep the invariant.
LEMMA ChangeKeeps ==
    ASSUME IInv, NEW t \in Trxs, NEW k \in Keys, NEW type \in ChangeTypes, Change(t, k, type),
           Fits(k, type)
    PROVE  IInv'
<1>1. Types' BY ChangeKeepsTypes
<1>2. NobodyEnds /\ UNCHANGED view_list /\ UNCHANGED <<purgeVars, commitVars>>
  BY ChangeIsLater DEF Change
<1>3. IdsAreRight' /\ HistoryIsRight' BY <1>2, IdsKept, HistoryKept DEF IInv
<1>4. Settled
 <2>1. pc[t] = "RUN" /\ \A u \in Trxs \ {t} : undo'[u] = undo[u] BY Changing, Changed
 <2> QED BY <1>2, <2>1 DEF Settled, NobodyEnds, trxVars
<1>5. ViewsAreRight' /\ PurgeViewIsRight' /\ GoneIsRight' /\ PurgeIsRight'
  BY <1>1, <1>2, <1>4, AllViewsKept DEF Types
<1>6. UndosAreRight' BY ChangeKeepsUndos
<1>7. \A u \in Trxs : RollingIsRight(u)' BY ChangeKeepsRollings
<1>8. \A q \in Keys : RowIsRight(q)' /\ ChainIsRight(q)' BY ChangeKeepsRows, ChangeKeepsChains
<1> QED BY <1>1, <1>3, <1>5, <1>6, <1>7, <1>8 DEF IInv

-----------------------------------------------------------------------------
(* The records after the undoing of a change *)

\* Undoing keeps the undo records that stay right.
LEMMA UndoKeepsUndos ==
    ASSUME IInv, NEW t \in Trxs, UndoRecord(t)
    PROVE  UndosAreRight'
<1>1. /\ pc[t] = "RUN" /\ undo[t] \in Seq(UndoRec) /\ DOMAIN undo[t] = 1 .. Len(undo[t])
      /\ Len(undo[t]) \in Nat /\ Undone(t) \in 1 .. Len(undo[t])
  BY Undoing
<1>2. Later /\ UNCHANGED trxVars /\ UNCHANGED <<logs, held, ops>>
  BY Zenon, UndoIsLater DEF NobodyEnds, UndoRecord
<1>3. \A u \in Trxs : \A n \in DOMAIN undo[u] :
          u # t \/ n < Len(undo[t]) \/ rolling[t].next # 0 => SameUndo(u, n)
  BY UndoIsLater
<1>4. \A u \in Trxs \ {t} : undo'[u] = undo[u] BY UndoneUndo
<1>5. rolling[t].next # 0 => undo' = undo BY UndoneUndo
<1>6. rolling[t].next = 0 => undo'[t] \in Seq(UndoRec) /\ Len(undo'[t]) = Len(undo[t]) - 1
  BY UndoneUndo
<1>7. ASSUME NEW u \in Trxs, NEW n \in DOMAIN undo'[u]
      PROVE  n \in DOMAIN undo[u] /\ (u # t \/ n < Len(undo[t]) \/ rolling[t].next # 0)
 <2>1. CASE u # t \/ rolling[t].next # 0 BY <1>4, <1>5, <2>1
 <2>2. CASE u = t /\ rolling[t].next = 0
  <3>1. n \in 1 .. Len(undo[t]) - 1 BY <1>6, <1>7, <2>2
  <3> QED BY <1>1, <2>2, <3>1
 <2> QED BY <2>1, <2>2
<1>8. ASSUME NEW u \in Trxs, NEW n \in DOMAIN undo'[u]
      PROVE  UndoIsRight(u, n)'
 <2>1. n \in DOMAIN undo[u] /\ SameUndo(u, n) /\ (u # t \/ n < Len(undo[t]) \/ rolling[t].next # 0)
   BY <1>3, <1>7
 <2>2. undo[u] \in Seq(UndoRec) /\ undo[u][n] \in UndoRec /\ UndoIsRight(u, n) /\ n \in 1 .. Len(undo[u])
   BY <2>1 DEF IInv, Types, RowTypes, UndosAreRight
 <2>3. ASSUME Real(undo[u][n].old)
       PROVE  SameUndo(undo[u][n].old.by, undo[u][n].old.un)
  <3> DEFINE x == undo[u][n].old
  <3>1. x.by \in Trxs /\ x.un \in DOMAIN undo[x.by] /\ x \in Version
    BY Zenon, <2>2, <2>3 DEF UndoIsRight, IsVersion, Started, Real, UndoRec
  <3>2. CASE x.by = u
   <4>1. Own(x, u) BY <2>3, <3>2 DEF Own, Real
   <4>2. x.un < n BY <2>2, <4>1 DEF UndoIsRight
   <4>3. x.by # t \/ x.un < Len(undo[t]) \/ rolling[t].next # 0
    <5>1. x.un \in 0 .. MaxOps BY <3>1 DEF Version
    <5> QED BY <1>1, <2>1, <2>2, <3>2, <4>2, <5>1
   <4> QED BY <1>3, <3>1, <4>3
  <3>3. CASE x.by # u
   <4>1. ~ Own(x, u) BY <3>3 DEF Own
   <4>2. pc[x.by] = "DONE" BY <2>2, <2>3, <4>1 DEF UndoIsRight
   <4>3. x.by # t BY <1>1, <4>2
   <4> QED BY <1>3, <3>1, <4>3
  <3> QED BY <3>2, <3>3
 <2>4. Types /\ logs[u] \subseteq logs'[u] /\ held[u] \subseteq held'[u] BY <1>2 DEF IInv
 <2> QED BY <1>2, <2>1, <2>2, <2>3, <2>4, UndoKept
<1>9. ASSUME NEW u \in Trxs
      PROVE  Len(undo'[u]) <= ops'[u] /\ (pc'[u] = "NEW" => undo'[u] = <<>>)
 <2>1. Len(undo[u]) <= ops[u] /\ (pc[u] = "NEW" => undo[u] = <<>>) /\ ops[u] \in Nat
   BY MvccAssumption DEF IInv, Types, RowTypes, UndosAreRight
 <2>2. CASE u # t \/ rolling[t].next # 0 BY <1>2, <1>4, <1>5, <2>1, <2>2 DEF trxVars
 <2>3. CASE u = t /\ rolling[t].next = 0 BY <1>1, <1>2, <1>6, <2>1, <2>3 DEF trxVars
 <2> QED BY <2>2, <2>3
<1> QED BY <1>8, <1>9 DEF UndosAreRight

\* Undoing leaves all records right: what is not to be undone is still there.
LEMMA UndoKeepsRows ==
    ASSUME IInv, NEW t \in Trxs, UndoRecord(t), NEW q \in Keys
    PROVE  RowIsRight(q)'
<1> DEFINE k == UndoneRec(t).key
           x == UndoneRec(t).old
           un == Undone(t)
<1>1. /\ pc[t] = "RUN" /\ rolling[t].on /\ un \in 1 .. Len(undo[t]) /\ un > rolling[t].limit
      /\ undo[t] \in Seq(UndoRec) /\ DOMAIN undo[t] = 1 .. Len(undo[t]) /\ Len(undo[t]) \in Nat
      /\ rolling[t].limit \in 0 .. MaxOps /\ UndoIsRight(t, un) /\ UndoneRec(t) \in UndoRec
  BY Undoing
<1>2. UNCHANGED trxVars BY UndoIsLater DEF NobodyEnds
<1>3. \A u \in Trxs \ {t} : undo'[u] = undo[u] BY UndoneUndo
<1>4. \A n \in DOMAIN undo'[t] : n \in DOMAIN undo[t] /\ undo'[t][n] = undo[t][n]
 <2>1. CASE rolling[t].next # 0 BY <2>1, UndoneUndo
 <2>2. CASE rolling[t].next = 0
  <3>1. undo'[t] \in Seq(UndoRec) /\ Len(undo'[t]) = Len(undo[t]) - 1 BY <2>2, UndoneUndo
  <3>2. \A n \in 1 .. Len(undo[t]) - 1 : undo'[t][n] = undo[t][n] BY <2>2, UndoneUndo
  <3>3. DOMAIN undo'[t] = 1 .. Len(undo[t]) - 1 BY <3>1
  <3> QED BY <1>1, <3>2, <3>3
 <2> QED BY <2>1, <2>2
<1>5. IsVersion(rows[q], q)' /\ (Own(rows[q], NoTrx)' => rows'[q] = Original)
  BY UndoKeepsChains, ChainGivesRow
<1>6. q # k \/ ~ Applies(t) => rows'[q] = rows[q] BY UndoneRows
<1>7. q = k /\ Applies(t) => rows'[q] = x /\ Own(rows[q], t) /\ rows[q].un = un
  BY UndoneRows DEF Applies
<1>8. rolling \in [Trxs -> [limit : 0 .. MaxOps, next : 0 .. MaxOps,
                            remove : Keys \cup {NoRow}, on : BOOLEAN]]
  BY DEF IInv, Types, RowTypes
<1>9. rolling'[t].limit = rolling[t].limit /\ rolling'[t].on = rolling[t].on BY ZenonT(60), <1>8
    DEF UndoRecord
<1>10. \A u \in Trxs \ {t} : rolling'[u] = rolling[u] BY Zenon, <1>8 DEF UndoRecord
<1>11. ASSUME NEW u \in Trxs, Active(u)', NEW n \in DOMAIN undo'[u], undo'[u][n].key = q, n <= Kept(u)'
       PROVE  Own(rows[q], u)' /\ rows'[q].un >= n
 <2>1. Active(u) BY <1>2, <1>11 DEF Active, trxVars
 <2>2. n \in DOMAIN undo[u] /\ undo[u][n].key = q BY <1>3, <1>4, <1>11
 <2>3. n <= Kept(u) BY <1>1, <1>3, <1>9, <1>10, <1>11 DEF Kept
 <2>4. Own(rows[q], u) /\ rows[q].un >= n BY <2>1, <2>2, <2>3 DEF IInv, RowIsRight
 <2>5. CASE q # k \/ ~ Applies(t) BY <1>6, <2>4, <2>5 DEF Own
 <2>6. CASE q = k /\ Applies(t)
  <3>1. u = t BY <1>7, <2>4, <2>6 DEF Own
  <3>2. n \in 1 .. un - 1 /\ undo[t][n].key = k BY <1>1, <2>2, <2>3, <2>6, <3>1 DEF Kept
  <3>3. Own(x, t) /\ x.un < un /\ \A m \in x.un + 1 .. un - 1 : undo[t][m].key # k
    BY <1>1, <3>2 DEF UndoIsRight, UndoneRec
  <3>4. x.un \in 0 .. MaxOps /\ MaxOps \in Nat
    BY <1>1, <3>3, MvccAssumption DEF Own, UndoRec, Version
  <3>5. x.un >= n BY <3>2, <3>3, <3>4
  <3>6. rows'[q] = x BY <1>7, <2>6
  <3> HIDE DEF x, k, un
  <3> QED BY <3>1, <3>3, <3>5, <3>6 DEF Own
 <2> QED BY <2>5, <2>6
<1> QED BY <1>5, <1>11 DEF RowIsRight

\* Where the rollback is after it has undone a change.
More(t) == /\ Applies(t) /\ UndoneRec(t).old # NoRow /\ UndoneRec(t).old.by = t
           /\ UndoneRec(t).old.un > rolling[t].limit
RollingAfter(t) ==
    [limit |-> rolling[t].limit, next |-> IF More(t) THEN UndoneRec(t).old.un ELSE 0,
     remove |-> IF Applies(t) /\ UndoneRec(t).type = "UPD_DEL" THEN UndoneRec(t).key ELSE NoRow,
     on |-> TRUE]

\* What becomes of the rollback itself: the next record out of turn, and a record to remove.
LEMMA UndoneRolling ==
    ASSUME IInv, NEW t \in Trxs, UndoRecord(t)
    PROVE  /\ rolling' = [rolling EXCEPT ![t] = RollingAfter(t)]
           /\ rolling'[t] = RollingAfter(t) /\ \A u \in Trxs \ {t} : rolling'[u] = rolling[u]
<1>1. rolling \in [Trxs -> [limit : 0 .. MaxOps, next : 0 .. MaxOps,
                            remove : Keys \cup {NoRow}, on : BOOLEAN]]
  BY DEF IInv, Types, RowTypes
<1>2. rolling[t].on = TRUE BY <1>1, Undoing
<1>3. rolling' = [rolling EXCEPT
          ![t].next = IF More(t) THEN UndoneRec(t).old.un ELSE 0,
          ![t].remove = IF Applies(t) /\ UndoneRec(t).type = "UPD_DEL" THEN UndoneRec(t).key ELSE NoRow]
  BY Zenon DEF UndoRecord, More, Applies, UndoneRec, Undone, Own
<1> DEFINE a == IF More(t) THEN UndoneRec(t).old.un ELSE 0
           b == IF Applies(t) /\ UndoneRec(t).type = "UPD_DEL" THEN UndoneRec(t).key ELSE NoRow
<1>4. rolling' = [rolling EXCEPT ![t].next = a, ![t].remove = b] BY <1>3
<1>5. RollingAfter(t) = [limit |-> rolling[t].limit, next |-> a, remove |-> b, on |-> TRUE]
  BY DEF RollingAfter
<1> HIDE DEF a, b
<1>6. rolling'[t] = [rolling[t] EXCEPT !.next = a, !.remove = b] BY <1>1, <1>4
<1>7. rolling'[t] = [limit |-> rolling[t].limit, next |-> a, remove |-> b, on |-> rolling[t].on]
  BY <1>1, <1>6
<1>8. rolling'[t] = RollingAfter(t) BY <1>2, <1>5, <1>7
<1> QED BY <1>1, <1>4, <1>8

\* Undoing keeps all rollbacks right.
LEMMA UndoKeepsRollings ==
    ASSUME IInv, NEW t \in Trxs, UndoRecord(t), NEW u \in Trxs
    PROVE  RollingIsRight(u)'
<1> DEFINE k == UndoneRec(t).key
           x == UndoneRec(t).old
           un == Undone(t)
<1>1. /\ pc[t] = "RUN" /\ Active(t) /\ t # NoTrx /\ un \in 1 .. Len(undo[t])
      /\ undo[t] \in Seq(UndoRec) /\ Len(undo[t]) \in Nat
      /\ rolling[t].limit \in 0 .. MaxOps /\ UndoIsRight(t, un) /\ UndoneRec(t) \in UndoRec
  BY Undoing
<1>2. UNCHANGED trxVars /\ UNCHANGED held BY Zenon, UndoIsLater DEF NobodyEnds, UndoRecord
<1>3. rolling'[t] = RollingAfter(t) /\ \A s \in Trxs \ {t} : rolling'[s] = rolling[s]
  BY UndoneRolling
<1>4. Applies(t) => /\ rows'[k] = x /\ \A q \in Keys \ {k} : rows'[q] = rows[q]
                    /\ Own(rows[k], t)
  BY UndoneRows DEF Applies
<1>5. ~ Applies(t) => rows' = rows BY UndoneRows
<1>6. x \in Version \cup {NoRow} /\ k \in Keys /\ IsVersion(x, k) /\ (Own(x, NoTrx) => x = Original)
  BY <1>1 DEF UndoRec, UndoIsRight, UndoneRec
<1>7. CASE u = t
 <2> DEFINE r == RollingAfter(t)
 <2>1. r.on /\ r.limit = rolling[t].limit BY DEF RollingAfter
 <2>2. r.next \in 0 .. Len(undo'[t]) /\ (r.next # 0 => r.next > r.limit)
  <3>1. CASE More(t)
   <4>1. Own(x, t) /\ x.un > rolling[t].limit /\ r.next = x.un
     BY <3>1 DEF More, Own, RollingAfter
   <4>2. x.un < un /\ x.un \in 0 .. MaxOps
     BY <1>1, <1>6, <4>1 DEF UndoIsRight, UndoneRec, Own, Version
   <4>3. CASE rolling[t].next = 0
    <5>1. un = Len(undo[t]) /\ Len(undo'[t]) = Len(undo[t]) - 1 BY <4>3, UndoneUndo DEF Undone
    <5> QED BY <1>1, <2>1, <4>1, <4>2, <5>1
   <4>4. CASE rolling[t].next # 0
    <5>1. undo' = undo BY <4>4, UndoneUndo
    <5> QED BY <1>1, <2>1, <4>1, <4>2, <5>1
   <4> QED BY <4>3, <4>4
  <3>2. CASE ~ More(t)
   <4>1. r.next = 0 BY <3>2 DEF RollingAfter
   <4>2. undo'[t] \in Seq(UndoRec) BY UndoneUndo
   <4> QED BY <4>1, <4>2
  <3> QED BY <3>1, <3>2
 <2>3. ASSUME r.remove # NoRow
       PROVE  /\ r.remove \in held'[t]
              /\ \/ rows'[r.remove] = NoRow
                 \/ rows'[r.remove].del /\ (rows'[r.remove].by = t \/ ~ Active(rows'[r.remove].by))
  <3>1. Applies(t) /\ UndoneRec(t).type = "UPD_DEL" /\ r.remove = k BY <2>3 DEF RollingAfter
  <3>2. x.del /\ k \in held[t] /\ x # NoRow BY <1>1, <3>1 DEF UndoIsRight, UndoneRec
  <3>3. x.by # t => ~ Active(x.by)
   <4>1. x.by # t => ~ Own(x, t) BY DEF Own
   <4>2. x.by # t /\ Real(x) => pc[x.by] = "DONE" BY <1>1, <4>1 DEF UndoIsRight, UndoneRec
   <4>3. ~ Active(NoTrx) BY MvccAssumption DEF Active
   <4> QED BY <3>2, <4>2, <4>3 DEF Active, Real
  <3> QED BY <1>2, <1>4, <3>1, <3>2, <3>3
 <2>4. PICK w : w = r OBVIOUS
 <2>5. PICK y : y = rows'[w.remove].by OBVIOUS
 <2>6. Active(y)' <=> Active(y) BY <1>2 DEF Active, trxVars
 <2>7. rolling'[t] = w /\ pc'[t] = "RUN" BY <1>1, <1>2, <1>3, <2>4 DEF trxVars
 <2> HIDE DEF r
 <2>8. w.remove # NoRow =>
           /\ w.remove \in held'[t]
           /\ \/ rows'[w.remove] = NoRow
              \/ rows'[w.remove].del /\ (y = t \/ ~ Active(y)')
   BY <2>3, <2>4, <2>5, <2>6
 <2>9. w.on /\ w.next \in 0 .. Len(undo'[t]) /\ (w.next # 0 => w.next > w.limit)
   BY <2>1, <2>2, <2>4
 <2> QED BY <1>7, <2>5, <2>7, <2>8, <2>9 DEF RollingIsRight
<1>8. CASE u # t
 <2> DEFINE r == rolling[u]
 <2>1. r \in [limit : 0 .. MaxOps, next : 0 .. MaxOps, remove : Keys \cup {NoRow}, on : BOOLEAN]
   BY DEF IInv, Types, RowTypes
 <2>2. RollingIsRight(u) /\ undo'[u] = undo[u] /\ rolling'[u] = r
   BY <1>3, <1>8, UndoneUndo DEF IInv
 <2>3. ASSUME r.remove # NoRow
       PROVE  rows'[r.remove] = rows[r.remove]
  <3>1. r.remove \in Keys BY <2>1, <2>3
  <3>2. rows[r.remove] = NoRow \/ rows[r.remove].by = u \/ ~ Active(rows[r.remove].by)
    BY <2>2, <2>3 DEF RollingIsRight
  <3>3. CASE r.remove = k /\ Applies(t) BY <1>1, <1>4, <1>8, <3>2, <3>3 DEF Own
  <3>4. CASE ~ (r.remove = k /\ Applies(t)) BY <1>4, <1>5, <3>1, <3>4
  <3> QED BY <3>3, <3>4
 <2>4. PICK w : w = r OBVIOUS
 <2>5. PICK y : y = rows'[w.remove].by OBVIOUS
 <2>6. Active(y)' <=> Active(y) BY <1>2 DEF Active, trxVars
 <2>7. NoRoll' = NoRoll BY DEF NoRoll
 <2>8. IF w.on THEN pc'[u] = "RUN" ELSE w = NoRoll BY <1>2, <2>2, <2>4 DEF RollingIsRight, trxVars
 <2>9. w.next \in 0 .. Len(undo'[u]) /\ (w.next # 0 => w.next > w.limit)
   BY <2>2, <2>4 DEF RollingIsRight
 <2>10. w.remove # NoRow =>
           /\ w.remove \in held'[u]
           /\ \/ rows'[w.remove] = NoRow
              \/ rows'[w.remove].del /\ (y = u \/ ~ Active(y)')
   BY <1>2, <2>2, <2>3, <2>4, <2>5, <2>6 DEF RollingIsRight
 <2> QED BY <2>2, <2>4, <2>5, <2>7, <2>8, <2>9, <2>10 DEF RollingIsRight
<1> QED BY <1>7, <1>8

\* Undoing keeps the types.
LEMMA UndoKeepsTypes ==
    ASSUME IInv, NEW t \in Trxs, UndoRecord(t)
    PROVE  Types'
<1>1. Types /\ UNCHANGED <<trxVars, logs, held, ops, view_list, purgeVars, commitVars>>
  BY Zenon DEF IInv, UndoRecord
<1>2. undo' \in [Trxs -> Seq(UndoRec)] /\ rows' \in [Keys -> Version \cup {NoRow}]
  BY UndoneUndo, UndoneRows
<1>3. RollingAfter(t) \in [limit : 0 .. MaxOps, next : 0 .. MaxOps,
                           remove : Keys \cup {NoRow}, on : BOOLEAN]
 <2>1. UndoneRec(t) \in UndoRec /\ rolling[t].limit \in 0 .. MaxOps /\ MaxOps \in Nat
   BY Undoing, MvccAssumption
 <2>2. UndoneRec(t).old # NoRow => UndoneRec(t).old.un \in 0 .. MaxOps BY <2>1 DEF UndoRec, Version
 <2>3. RollingAfter(t).next \in 0 .. MaxOps BY <2>1, <2>2 DEF RollingAfter, More
 <2>4. RollingAfter(t).remove \in Keys \cup {NoRow} BY <2>1 DEF RollingAfter, UndoRec
 <2> QED BY <2>1, <2>3, <2>4 DEF RollingAfter
<1>4. rolling' \in [Trxs -> [limit : 0 .. MaxOps, next : 0 .. MaxOps,
                             remove : Keys \cup {NoRow}, on : BOOLEAN]]
 <2>1. rolling' = [rolling EXCEPT ![t] = RollingAfter(t)] BY UndoneRolling
 <2> QED BY <1>1, <1>3, <2>1 DEF Types, RowTypes
<1>5. RowTypes' BY <1>1, <1>2, <1>4 DEF Types, RowTypes
<1> QED
  BY <1>1, <1>5 DEF Types, TrxTypes, HistoryTypes, ViewTypes, PurgeTypes, trxVars, purgeVars,
     commitVars

\* UndoRecord keeps the invariant.
LEMMA UndoKeeps ==
    ASSUME IInv, NEW t \in Trxs, UndoRecord(t)
    PROVE  IInv'
<1>1. Types' BY UndoKeepsTypes
<1>2. NobodyEnds /\ UNCHANGED view_list /\ UNCHANGED <<purgeVars, commitVars>>
  BY Zenon, UndoIsLater DEF UndoRecord
<1>3. IdsAreRight' /\ HistoryIsRight' BY <1>2, IdsKept, HistoryKept DEF IInv
<1>4. Settled
 <2>1. pc[t] = "RUN" /\ \A u \in Trxs \ {t} : undo'[u] = undo[u] BY Undoing, UndoneUndo
 <2> QED BY <1>2, <2>1 DEF Settled, NobodyEnds, trxVars
<1>5. ViewsAreRight' /\ PurgeViewIsRight' /\ GoneIsRight' /\ PurgeIsRight'
  BY <1>1, <1>2, <1>4, AllViewsKept DEF Types
<1>6. UndosAreRight' BY UndoKeepsUndos
<1>7. \A u \in Trxs : RollingIsRight(u)' BY UndoKeepsRollings
<1>8. \A q \in Keys : RowIsRight(q)' /\ ChainIsRight(q)' BY UndoKeepsRows, UndoKeepsChains
<1> QED BY <1>1, <1>3, <1>5, <1>6, <1>7, <1>8 DEF IInv

-----------------------------------------------------------------------------
(* The records after the removal of one *)

\* rows' is rows, or lacks a delete-marked record that all views see.
Removes(k) ==
    \/ UNCHANGED rows
    \/ /\ rows' = [rows EXCEPT ![k] = NoRow]
       /\ rows[k] # NoRow /\ rows[k].del /\ rows[k].by \in Trxs /\ SeenByAll(rows[k].by)

\* The removal of a record, by a rollback or by purge, keeps records and chains right.
LEMMA RemovalKeepsRecords ==
    ASSUME IInv, UNCHANGED <<trxVars, undo, logs, held, ops, view_list>>, NEW k \in Keys, Removes(k),
           \A u \in Trxs : rolling'[u] \in {rolling[u], [rolling[u] EXCEPT !.remove = NoRow]}
    PROVE  /\ UndosAreRight' /\ \A u \in Trxs : RollingIsRight(u)'
           /\ \A q \in Keys : RowIsRight(q)' /\ ChainIsRight(q)'
           /\ rows' \in [Keys -> Version \cup {NoRow}]
<1>1. /\ rows \in [Keys -> Version \cup {NoRow}] /\ Types /\ undo \in [Trxs -> Seq(UndoRec)]
      /\ rolling \in [Trxs -> [limit : 0 .. MaxOps, next : 0 .. MaxOps,
                               remove : Keys \cup {NoRow}, on : BOOLEAN]]
  BY DEF IInv, Types, RowTypes
<1>2. NobodyEnds BY DEF NobodyEnds, Numbered, trxVars
<1>3. Later /\ FewerViews BY <1>1, <1>2, NobodyEndsLater, SameViews
<1>4. UndosAreRight' BY <1>3, UndosKept DEF IInv
<1>5. \A q \in Keys : rows'[q] \in {rows[q], NoRow} BY <1>1 DEF Removes
<1>6. ASSUME NEW q \in Keys
      PROVE  ChainIsRight(q)'
 <2>1. CASE UNCHANGED rows BY <1>3, <2>1, ChainsKept
 <2>2. CASE ~ UNCHANGED rows BY <1>3, <2>2, RemoveKeepsChains DEF Removes
 <2> QED BY <2>1, <2>2
<1>7. ASSUME NEW u \in Trxs
      PROVE  Kept(u)' = Kept(u) /\ Kept(u) \in Nat
 <2>1. rolling'[u].on = rolling[u].on /\ rolling'[u].limit = rolling[u].limit BY ZenonT(60), <1>1
 <2> QED BY <1>1, <2>1, KeptIsNat DEF Kept
<1>8. ASSUME NEW q \in Keys
      PROVE  RowIsRight(q)'
 <2>1. IsVersion(rows[q], q)' /\ (Own(rows[q], NoTrx)' => rows'[q] = Original)
   BY <1>6, ChainGivesRow
 <2>2. ASSUME NEW u \in Trxs, Active(u)', NEW n \in DOMAIN undo'[u], undo'[u][n].key = q, n <= Kept(u)'
       PROVE  Own(rows[q], u)' /\ rows'[q].un >= n
  <3>1. Active(u) /\ n \in DOMAIN undo[u] /\ undo[u][n].key = q /\ n <= Kept(u)
    BY <1>7, <2>2 DEF Active, trxVars
  <3>2. Own(rows[q], u) /\ rows[q].un >= n BY <3>1 DEF IInv, RowIsRight
  <3>3. rows'[q] = rows[q]
   <4>1. pc[u] # "DONE" /\ rows[q].by = u BY <3>1, <3>2 DEF Active, Own
   <4>2. q = k => UNCHANGED rows BY <4>1 DEF Removes, SeenByAll
   <4> QED BY <1>1, <4>2 DEF Removes
  <3> QED BY <3>2, <3>3 DEF Own
 <2> QED BY <2>1, <2>2 DEF RowIsRight
<1>9. ASSUME NEW u \in Trxs
      PROVE  RollingIsRight(u)'
 <2> DEFINE r == rolling'[u]
            o == rolling[u]
 <2>1. r.on = o.on /\ r.limit = o.limit /\ r.next = o.next /\ (r.remove = o.remove \/ r.remove = NoRow)
   BY <1>1
 <2>2. RollingIsRight(u) BY DEF IInv
 <2>3. IF r.on THEN pc'[u] = "RUN" ELSE r = NoRoll
  <3>1. ~ o.on => r = o
   <4> SUFFICES ASSUME ~ o.on, r = [o EXCEPT !.remove = NoRow]  PROVE r = o BY <1>1
   <4>1. o.remove = NoRow BY <2>2 DEF RollingIsRight, NoRoll
   <4>2. o \in [limit : 0 .. MaxOps, next : 0 .. MaxOps, remove : Keys \cup {NoRow}, on : BOOLEAN]
     BY <1>1
   <4> QED BY <4>1, <4>2
  <3>2. o.on => pc'[u] = "RUN" BY <2>2 DEF RollingIsRight, trxVars
  <3>3. ~ o.on => o = NoRoll BY <2>2 DEF RollingIsRight
  <3> QED BY <2>1, <3>1, <3>2, <3>3
 <2>4. r.next \in 0 .. Len(undo'[u]) /\ (r.next # 0 => r.next > r.limit)
   BY <2>1, <2>2 DEF RollingIsRight
 <2>5. ASSUME r.remove # NoRow
       PROVE  /\ r.remove \in held'[u]
              /\ \/ rows'[r.remove] = NoRow
                 \/ rows'[r.remove].del /\ (rows'[r.remove].by = u \/ ~ Active(rows'[r.remove].by))
  <3>1. r.remove = o.remove /\ r.remove \in Keys BY <1>1, <2>1, <2>5
  <3>2. rows'[r.remove] = rows[r.remove] \/ rows'[r.remove] = NoRow BY <1>5, <3>1
  <3> QED BY <2>2, <2>5, <3>1, <3>2 DEF RollingIsRight
 <2>6. PICK w : w = r OBVIOUS
 <2>7. PICK y : y = rows'[w.remove].by OBVIOUS
 <2>8. (Active(y)' <=> Active(y)) /\ NoRoll' = NoRoll BY DEF Active, trxVars, NoRoll
 <2>9. w.remove # NoRow =>
           /\ w.remove \in held'[u]
           /\ \/ rows'[w.remove] = NoRow
              \/ rows'[w.remove].del /\ (y = u \/ ~ Active(y)')
   BY <2>5, <2>6, <2>7, <2>8
 <2> HIDE DEF r
 <2>10. rolling'[u] = w BY <2>6 DEF r
 <2> QED BY <2>3, <2>4, <2>6, <2>7, <2>8, <2>9, <2>10 DEF RollingIsRight
<1>10. rows' \in [Keys -> Version \cup {NoRow}] BY <1>1 DEF Removes
<1> QED BY <1>4, <1>6, <1>8, <1>9, <1>10

\* RemoveUndone keeps the invariant: purge sees what it removes, hence all views do.
LEMMA RemoveUndoneKeeps ==
    ASSUME IInv, NEW t \in Trxs, RemoveUndone(t)
    PROVE  IInv'
<1> DEFINE k == rolling[t].remove
<1>1. /\ rolling[t].on /\ k # NoRow
      /\ UNCHANGED <<trxVars, undo, logs, held, ops, view_list, purgeVars, commitVars>>
      /\ rolling' = [rolling EXCEPT ![t].remove = NoRow]
      /\ rows' = IF RestoredIsGarbage(k) THEN [rows EXCEPT ![k] = NoRow] ELSE rows
  BY DEF RemoveUndone
<1>2. /\ rolling \in [Trxs -> [limit : 0 .. MaxOps, next : 0 .. MaxOps,
                               remove : Keys \cup {NoRow}, on : BOOLEAN]]
      /\ Types /\ k \in Keys
  BY <1>1 DEF IInv, Types, RowTypes
<1>3. \A u \in Trxs : rolling'[u] \in {rolling[u], [rolling[u] EXCEPT !.remove = NoRow]}
  BY <1>1, <1>2
<1>4. Removes(k)
 <2> SUFFICES ASSUME RestoredIsGarbage(k)
              PROVE  rows[k] # NoRow /\ rows[k].del /\ rows[k].by \in Trxs /\ SeenByAll(rows[k].by)
   BY <1>1 DEF Removes
 <2>1. rows[k] # NoRow /\ Sees(purge_view, IdOf(rows[k].by)) BY DEF RestoredIsGarbage
 <2>2. rows[k].del BY <1>1, <2>1 DEF IInv, RollingIsRight
 <2>3. RowIsRight(k) BY <1>2 DEF IInv
 <2>4. Real(rows[k]) BY <2>1, <2>2, <2>3 DEF RowIsRight, Own, Real, Original
 <2>5. rows[k].by \in Started /\ rows[k].by \in Trxs
   BY Zenon, <2>3, <2>4 DEF RowIsRight, IsVersion, Started
 <2>6. Knows(purge_view, rows[k].by) BY <2>1, <2>4 DEF Knows, IdOf, Real
 <2> QED BY <2>1, <2>2, <2>5, <2>6 DEF IInv, PurgeViewIsRight
<1>5. /\ UndosAreRight' /\ \A u \in Trxs : RollingIsRight(u)'
      /\ \A q \in Keys : RowIsRight(q)' /\ ChainIsRight(q)'
      /\ rows' \in [Keys -> Version \cup {NoRow}]
  BY <1>1, <1>2, <1>3, <1>4, RemovalKeepsRecords
<1>6. rolling' \in [Trxs -> [limit : 0 .. MaxOps, next : 0 .. MaxOps,
                             remove : Keys \cup {NoRow}, on : BOOLEAN]]
  BY <1>1, <1>2
<1>7. RowTypes' BY <1>1, <1>2, <1>5, <1>6 DEF Types, RowTypes
<1>8. TrxTypes' /\ HistoryTypes' /\ ViewTypes' /\ PurgeTypes'
  BY <1>1, <1>2 DEF Types, TrxTypes, HistoryTypes, ViewTypes, PurgeTypes, trxVars, purgeVars,
     commitVars
<1>9. NobodyEnds /\ Settled BY <1>1 DEF NobodyEnds, Numbered, trxVars, Settled
<1>10. IdsAreRight' /\ HistoryIsRight' BY <1>1, <1>9, IdsKept, HistoryKept DEF IInv
<1>11. ViewsAreRight' /\ PurgeViewIsRight' /\ GoneIsRight' /\ PurgeIsRight'
  BY <1>1, <1>8, <1>9, AllViewsKept
<1> QED BY <1>5, <1>7, <1>8, <1>10, <1>11 DEF IInv, Types

-----------------------------------------------------------------------------
(* Purge of a record *)

\* RowPurge keeps the invariant: the roll pointer says that the record is the delete-marked one
\* that all views see.
LEMMA RowPurgeKeeps ==
    ASSUME IInv, RowPurge
    PROVE  IInv'
<1> DEFINE g == task.log
           n == task.un
           applies == n # 0 /\ NeedsPurge(g, n)
           k == undo[g][n].key
<1>1. /\ task # NoTask /\ task' = NoTask
      /\ UNCHANGED <<trxVars, logVars, view_list, purge_view, purge_sys, gone, commitVars>>
      /\ rows' = IF applies /\ NotChangedSince(k, g, n) THEN [rows EXCEPT ![k] = NoRow] ELSE rows
  BY DEF RowPurge
<1>2. /\ g \in Trxs /\ SeenByAll(g) /\ n \in 0 .. Len(undo[g]) /\ Types
      /\ undo[g] \in Seq(UndoRec)
  BY <1>1 DEF IInv, PurgeIsRight, Types, RowTypes
<1>3. PICK q \in Keys \cup {NoRow} : Removes(q) /\ (q \in Keys \/ UNCHANGED rows)
 <2>1. CASE applies /\ NotChangedSince(k, g, n)
  <3>1. n \in DOMAIN undo[g] /\ undo[g][n] \in UndoRec BY <1>2, <2>1
  <3>2. k \in Keys BY <3>1 DEF UndoRec
  <3>3. RowIsRight(k) /\ Real(rows[k])
    BY <1>2, <2>1, <3>2, MvccAssumption DEF IInv, NotChangedSince, Real
  <3>4. rows[k].del BY Zenon, <2>1, <3>3 DEF RowIsRight, IsVersion, NotChangedSince, NeedsPurge
  <3>5. Removes(k) BY <1>1, <1>2, <2>1, <3>4 DEF Removes, NotChangedSince
  <3> QED BY <3>2, <3>5
 <2>2. CASE ~ (applies /\ NotChangedSince(k, g, n)) BY <1>1, <2>2 DEF Removes
 <2> QED BY <2>1, <2>2
<1>4. UNCHANGED <<trxVars, undo, logs, held, rolling, ops, view_list>> BY <1>1 DEF logVars
<1>5. /\ UndosAreRight' /\ \A u \in Trxs : RollingIsRight(u)'
      /\ \A p \in Keys : RowIsRight(p)' /\ ChainIsRight(p)'
      /\ rows' \in [Keys -> Version \cup {NoRow}]
 <2>1. CASE q \in Keys BY <1>3, <1>4, <2>1, RemovalKeepsRecords
 <2>2. CASE UNCHANGED rows
  <3>1. NobodyEnds BY <1>4 DEF NobodyEnds, Numbered, trxVars
  <3>2. Later /\ FewerViews BY <1>2, <1>4, <3>1, NobodyEndsLater, SameViews
  <3>3. \A p \in Keys : ChainIsRight(p)' BY <1>4, <2>2, <3>2, ChainsKept
  <3>4. /\ UndosAreRight' /\ \A u \in Trxs : RollingIsRight(u)'
        /\ \A p \in Keys : RowIsRight(p)'
   <4>1. UNCHANGED <<pc, held>> BY <1>4 DEF trxVars
   <4>2. PICK h \in Trxs : h = g BY <1>2
   <4>3. Active(h)' => Active(h) BY <4>1 DEF Active
   <4> QED BY <1>2, <1>4, <2>2, <3>2, <4>1, <4>3, RecordsKept
  <3> QED BY <1>2, <2>2, <3>3, <3>4 DEF Types, RowTypes
 <2> QED BY <1>3, <2>1, <2>2
<1>6. RowTypes' BY <1>2, <1>4, <1>5 DEF Types, RowTypes
<1>7. TrxTypes' /\ HistoryTypes' /\ ViewTypes'
  BY <1>1, <1>2, <1>4 DEF Types, TrxTypes, HistoryTypes, ViewTypes, trxVars, commitVars
<1>8. PurgeTypes'
 <2>1. NoTask \in [log : Trxs \cup {NoTrx}, un : 0 .. MaxOps] BY MvccAssumption DEF NoTask
 <2> QED BY <1>1, <1>2, <2>1 DEF Types, PurgeTypes
<1>9. NobodyEnds /\ Settled BY <1>4 DEF NobodyEnds, Numbered, trxVars, Settled
<1>10. IdsAreRight' /\ HistoryIsRight' BY <1>1, <1>2, <1>9, IdsKept, HistoryKept DEF IInv
<1>11. ViewsAreRight' /\ PurgeViewIsRight' /\ GoneIsRight' /\ PurgeIsRight'
 <2>1. Later /\ FewerViews BY <1>2, <1>4, <1>9, NobodyEndsLater, SameViews
 <2>2. SeenStay BY <1>7, <2>1, FewerViewsSee
 <2>3. ViewsAreRight'
  <3>1. \A i \in DOMAIN view_list : ViewIsRight(view_list[i]) BY DEF IInv, ViewsAreRight
  <3>2. ASSUME NEW i \in DOMAIN view_list'
        PROVE  /\ Active(view_list[i].creator)'
               /\ view_list'[i].type = "HIGH_GRANULARITY" => pc'[view_list'[i].creator] = "RUN"
    BY <1>4, <3>1, <3>2 DEF ViewIsRight, Active, trxVars
  <3> QED BY <1>7, <2>1, <3>2, ViewsKept
 <2>4. PositionIsRight(purge_sys)'
  <3>1. PICK p : p = purge_sys OBVIOUS
  <3>2. PositionIsRight(p)' BY <1>2, <1>9, <3>1, PositionKept DEF IInv, PurgeIsRight
  <3>3. purge_sys' = p BY <1>1, <3>1
  <3> QED BY <3>2, <3>3 DEF PositionIsRight
 <2>5. NoTask' = NoTask BY DEF NoTask
 <2> QED BY <1>1, <1>7, <2>1, <2>2, <2>3, <2>4, <2>5, PurgeViewKept, GoneKept DEF PurgeIsRight
<1> QED BY <1>5, <1>6, <1>7, <1>8, <1>10, <1>11 DEF IInv, Types

-----------------------------------------------------------------------------
(* The beginning and the end of a rollback, views *)

\* What is the same for all steps of a transaction that change neither its
\* numbers, nor the records, nor what is to be purged.
LEMMA SessionKeeps ==
    ASSUME IInv, ViewTypes',
           UNCHANGED <<trxVars, rows, undo, logs, held, ops, purgeVars, commitVars>>
    PROVE  /\ NobodyEnds /\ Later /\ Settled
           /\ TrxTypes' /\ HistoryTypes' /\ PurgeTypes'
           /\ IdsAreRight' /\ HistoryIsRight'
<1>1. Types BY DEF IInv
<1>2. TrxTypes' /\ HistoryTypes' /\ PurgeTypes'
  BY <1>1 DEF Types, TrxTypes, HistoryTypes, PurgeTypes, trxVars, purgeVars, commitVars
<1>3. NobodyEnds /\ Settled BY DEF NobodyEnds, Numbered, trxVars, Settled
<1>4. Later BY <1>1, <1>3, NobodyEndsLater
<1>5. IdsAreRight' /\ HistoryIsRight' BY <1>1, <1>3, IdsKept, HistoryKept DEF IInv
<1> QED BY <1>2, <1>3, <1>4, <1>5

\* The records that a rollback is not to undo are fewer, or as many.
LEMMA RollbackKeeps ==
    ASSUME IInv, NEW t \in Trxs, NEW r \in [limit : 0 .. MaxOps, next : 0 .. MaxOps,
                                            remove : Keys \cup {NoRow}, on : BOOLEAN],
           rolling' = [rolling EXCEPT ![t] = r],
           UNCHANGED <<trxVars, rows, undo, logs, held, ops, view_list, purgeVars, commitVars>>,
           IF r.on THEN pc[t] = "RUN" ELSE r = NoRoll,
           r.next = 0, r.remove = NoRow,
           Kept(t)' <= Kept(t)
    PROVE  IInv'
<1>1. Types BY DEF IInv
<1>2. ViewTypes' BY <1>1 DEF Types, ViewTypes, purgeVars
<1>3. /\ NobodyEnds /\ Later /\ Settled
      /\ TrxTypes' /\ HistoryTypes' /\ PurgeTypes' /\ IdsAreRight' /\ HistoryIsRight'
  BY <1>2, SessionKeeps
<1>4. FewerViews BY <1>1, SameViews
<1>5. ViewsAreRight' /\ PurgeViewIsRight' /\ GoneIsRight' /\ PurgeIsRight' BY <1>3, AllViewsKept
<1>6. rolling'[t] = r /\ \A u \in Trxs \ {t} : rolling'[u] = rolling[u] BY <1>1 DEF Types, RowTypes
<1>7. RowTypes' BY <1>1 DEF Types, RowTypes
<1>8. UndosAreRight' BY <1>1, <1>3, UndosKept DEF IInv
<1>9. ASSUME NEW q \in Keys
      PROVE  ChainIsRight(q)'
  BY <1>3, <1>4, ChainsKept
<1>10. \A u \in Trxs : Kept(u) \in Nat BY <1>1, KeptIsNat
<1>11. ASSUME NEW u \in Trxs
       PROVE  Kept(u)' \in Nat /\ Kept(u)' <= Kept(u)
 <2>1. undo'[u] = undo[u] /\ undo[u] \in Seq(UndoRec) /\ Len(undo[u]) \in Nat
   BY <1>1 DEF Types, RowTypes
 <2>2. u # t => Kept(u)' = Kept(u) BY <1>6, <2>1 DEF Kept
 <2>3. Kept(t)' \in Nat
  <3>1. undo'[t] = undo[t] /\ Len(undo[t]) \in Nat BY <1>1 DEF Types, RowTypes
  <3> QED BY <1>6, <3>1 DEF Kept
 <2> QED BY <1>10, <2>2, <2>3
<1>12. ASSUME NEW q \in Keys
       PROVE  RowIsRight(q)'
 <2>1. RowIsRight(q) BY DEF IInv
 <2>2. \A u \in Trxs : Active(u)' => Active(u) BY DEF Active, trxVars
 <2> QED BY <1>1, <1>3, <1>10, <1>11, <2>1, <2>2, RowKept
<1>13. ASSUME NEW u \in Trxs
       PROVE  RollingIsRight(u)'
 <2>1. RollingIsRight(u) BY DEF IInv
 <2>2. CASE u = t
  <3>1. undo'[t] = undo[t] /\ Len(undo[t]) \in Nat /\ pc' = pc
    BY <1>1 DEF Types, RowTypes, trxVars
  <3>2. NoRoll' = NoRoll BY DEF NoRoll
  <3> QED BY <1>6, <2>2, <3>1, <3>2 DEF RollingIsRight
 <2>3. CASE u # t
  <3>1. rolling'[u] = rolling[u] BY <1>6, <2>3
  <3>2. PICK w : w = rolling[u] OBVIOUS
  <3>3. PICK y : y = rows[w.remove].by OBVIOUS
  <3>4. (Active(y)' <=> Active(y)) /\ NoRoll' = NoRoll BY DEF Active, trxVars, NoRoll
  <3> QED BY <2>1, <3>1, <3>2, <3>3, <3>4 DEF RollingIsRight, trxVars
 <2> QED BY <2>2, <2>3
<1> QED BY <1>2, <1>3, <1>5, <1>7, <1>8, <1>9, <1>12, <1>13 DEF IInv, Types

\* Rollback keeps the invariant.
LEMMA BeginRollbackKeeps ==
    ASSUME IInv, NEW t \in Trxs, NEW limit \in 0 .. MaxOps, Rollback(t, limit)
    PROVE  IInv'
<1> DEFINE r == [NoRoll EXCEPT !.on = TRUE, !.limit = limit]
<1>1. /\ Runs(t) /\ limit < Len(undo[t])
      /\ rolling' = [rolling EXCEPT ![t] = r]
      /\ UNCHANGED <<trxVars, rows, undo, logs, held, ops, view_list, purgeVars, commitVars>>
  BY DEF Rollback
<1>2. /\ r \in [limit : 0 .. MaxOps, next : 0 .. MaxOps, remove : Keys \cup {NoRow}, on : BOOLEAN]
      /\ r.on /\ r.next = 0 /\ r.remove = NoRow /\ r.limit = limit
 <2>1. /\ NoRoll \in [limit : 0 .. MaxOps, next : 0 .. MaxOps, remove : Keys \cup {NoRow}, on : BOOLEAN]
       /\ NoRoll.next = 0 /\ NoRoll.remove = NoRow
   BY MvccAssumption DEF NoRoll
 <2> QED BY <2>1
<1> HIDE DEF r
<1>3. Types BY DEF IInv
<1>4. rolling'[t] = r /\ undo'[t] = undo[t] /\ undo[t] \in Seq(UndoRec)
  BY <1>1, <1>3 DEF Types, RowTypes
<1>5. Kept(t)' <= Kept(t)
 <2>1. Kept(t) = Len(undo[t]) BY <1>1 DEF Runs, Kept
 <2>2. Kept(t)' = limit BY <1>2, <1>4 DEF Kept
 <2> QED BY <1>1, <1>4, <2>1, <2>2
<1>6. pc[t] = "RUN" BY <1>1 DEF Runs
<1> QED BY <1>1, <1>2, <1>5, <1>6, RollbackKeeps

\* EndRollback keeps the invariant: nothing is left to be undone.
LEMMA EndRollbackKeeps ==
    ASSUME IInv, NEW t \in Trxs, EndRollback(t)
    PROVE  IInv'
<1>1. /\ rolling[t].on /\ Len(undo[t]) <= rolling[t].limit
      /\ rolling' = [rolling EXCEPT ![t] = NoRoll]
      /\ UNCHANGED <<trxVars, rows, undo, logs, held, ops, view_list, purgeVars, commitVars>>
  BY DEF EndRollback
<1>2. /\ NoRoll \in [limit : 0 .. MaxOps, next : 0 .. MaxOps, remove : Keys \cup {NoRow}, on : BOOLEAN]
      /\ ~ NoRoll.on /\ NoRoll.next = 0 /\ NoRoll.remove = NoRow
  BY MvccAssumption DEF NoRoll
<1>3. Types BY DEF IInv
<1>4. rolling'[t] = NoRoll /\ undo'[t] = undo[t] BY <1>1, <1>3 DEF Types, RowTypes
<1>5. Kept(t)' <= Kept(t) BY <1>1, <1>2, <1>4 DEF Kept
<1> QED BY <1>1, <1>2, <1>5, RollbackKeeps

-----------------------------------------------------------------------------
(* The opening and closing of views *)

\* AssignReadView and CreateCursorView keep the invariant.
LEMMA OpeningKeeps ==
    ASSUME IInv, NEW t \in Trxs, Runs(t), NEW type \in ViewKinds, ~ HasView(t, type),
           view_list' = <<Opened(t, type)>> \o view_list,
           UNCHANGED <<trxVars, rows, logVars, purgeVars, commitVars>>
    PROVE  IInv'
<1>1. UNCHANGED <<undo, logs, held, ops, rolling>> BY DEF logVars
<1>2. ViewTypes' /\ ViewsAreRight' /\ PurgeViewIsRight' /\ GoneIsRight' /\ PurgeIsRight'
  BY <1>1, OpeningKeepsViews
<1>3. /\ NobodyEnds /\ Later /\ Settled
      /\ TrxTypes' /\ HistoryTypes' /\ PurgeTypes' /\ IdsAreRight' /\ HistoryIsRight'
  BY <1>1, <1>2, SessionKeeps
<1>4. \A q \in Keys : ChainIsRight(q)' BY <1>1, OpeningKeepsChains
<1>5. RowTypes' BY <1>1 DEF IInv, Types, RowTypes
<1>6. UndosAreRight' /\ \A u \in Trxs : RollingIsRight(u)' /\ \A k \in Keys : RowIsRight(k)'
 <2>1. UNCHANGED <<pc, held>> BY <1>1 DEF trxVars
 <2>2. Active(t)' => Active(t) BY <2>1 DEF Active
 <2> QED BY <1>1, <1>3, <2>1, <2>2, RecordsKept
<1> QED BY <1>2, <1>3, <1>4, <1>5, <1>6 DEF IInv, Types

\* CloseView keeps the invariant.
LEMMA CloseViewKeeps ==
    ASSUME IInv, NEW t \in Trxs, NEW type \in ViewKinds, CloseView(t, type)
    PROVE  IInv'
<1>1. UNCHANGED <<trxVars, rows, undo, logs, held, ops, rolling, purgeVars, commitVars>>
  BY DEF CloseView, logVars
<1>2. Types /\ ViewsAreRight BY DEF IInv
<1>3. PICK n \in DOMAIN view_list : view_list' = RemoveAt(view_list, n) BY DEF CloseView, ViewsOf
<1>4. /\ FewerViews /\ view_list' \in Seq(OpenViews)
      /\ \A i \in DOMAIN view_list' : \E j \in DOMAIN view_list \ {n} : view_list'[i] = view_list[j]
  BY <1>2, <1>3, RemovedView
<1>5. ViewTypes' BY <1>1, <1>2, <1>4 DEF Types, ViewTypes, purgeVars
<1>6. /\ NobodyEnds /\ Later /\ Settled
      /\ TrxTypes' /\ HistoryTypes' /\ PurgeTypes' /\ IdsAreRight' /\ HistoryIsRight'
  BY <1>1, <1>5, SessionKeeps
<1>7. \A q \in Keys : ChainIsRight(q)' BY <1>1, <1>4, <1>6, ChainsKept
<1>8. RowTypes' BY <1>1, <1>2 DEF Types, RowTypes
<1>9. UndosAreRight' /\ \A u \in Trxs : RollingIsRight(u)' /\ \A k \in Keys : RowIsRight(k)'
 <2>1. UNCHANGED <<pc, held>> BY <1>1 DEF trxVars
 <2>2. Active(t)' => Active(t) BY <2>1 DEF Active
 <2> QED BY <1>1, <1>6, <2>1, <2>2, RecordsKept
<1>10. ASSUME NEW i \in DOMAIN view_list'
       PROVE  /\ Active(view_list[i].creator)'
              /\ view_list'[i].type = "HIGH_GRANULARITY" => pc'[view_list'[i].creator] = "RUN"
 <2>1. PICK j \in DOMAIN view_list : view_list'[i] = view_list[j] BY <1>4
 <2>2. ViewIsRight(view_list[j]) BY <1>2 DEF ViewsAreRight
 <2> QED BY <1>1, <2>1, <2>2 DEF ViewIsRight, Active, trxVars
<1>11. ViewsAreRight' /\ PurgeViewIsRight' /\ GoneIsRight' /\ PurgeIsRight'
  BY <1>1, <1>4, <1>5, <1>6, <1>10, ViewsAndPurgeKept
<1> QED BY <1>5, <1>6, <1>7, <1>8, <1>9, <1>11 DEF IInv, Types

-----------------------------------------------------------------------------
(* The life of a transaction *)

\* t gets further in its life; the records stay as they are.
LEMMA LifeKeeps ==
    ASSUME IInv, NEW t \in Trxs, TrxTypes', HistoryTypes', view_list' \in Seq(OpenViews),
           held' \in [Trxs -> SUBSET Keys],
           Later, Settled, FewerViews, IdsAreRight', HistoryIsRight',
           UNCHANGED <<rows, undo, logs, rolling, ops, purgeVars>>,
           ~ rolling[t].on,
           \A u \in Trxs \ {t} : pc'[u] = pc[u] /\ held'[u] = held[u],
           pc'[t] # "DONE" => held'[t] = held[t],
           Active(t)' => Active(t) \/ undo[t] = <<>>,
           \A i \in DOMAIN view_list' :
               /\ Active(view_list[i].creator)'
               /\ view_list'[i].type = "HIGH_GRANULARITY" => pc'[view_list'[i].creator] = "RUN"
    PROVE  IInv'
<1>1. Types BY DEF IInv
<1>2. ViewTypes' /\ PurgeTypes' /\ RowTypes'
  BY <1>1 DEF Types, ViewTypes, PurgeTypes, RowTypes, purgeVars
<1>3. UndosAreRight' /\ \A u \in Trxs : RollingIsRight(u)' /\ \A k \in Keys : RowIsRight(k)'
  BY RecordsKept
<1>4. \A q \in Keys : ChainIsRight(q)' BY ChainsKept
<1>5. ViewsAreRight' /\ PurgeViewIsRight' /\ GoneIsRight' /\ PurgeIsRight'
  BY <1>2, ViewsAndPurgeKept
<1> QED BY <1>2, <1>3, <1>4, <1>5 DEF IInv, Types

\* The views are still those of active transactions.
LEMMA OwnersStay ==
    ASSUME IInv, UNCHANGED view_list, NEW t \in Trxs,
           \A u \in Trxs \ {t} : pc'[u] = pc[u],
           pc'[t] \notin {"NEW", "DONE"},
           pc'[t] = "RUN" \/ pc[t] # "RUN" \/ ~ HasView(t, "HIGH_GRANULARITY")
    PROVE  \A i \in DOMAIN view_list' :
               /\ Active(view_list[i].creator)'
               /\ view_list'[i].type = "HIGH_GRANULARITY" => pc'[view_list'[i].creator] = "RUN"
<1> SUFFICES ASSUME NEW i \in DOMAIN view_list
             PROVE  /\ Active(view_list[i].creator)'
                    /\ view_list'[i].type = "HIGH_GRANULARITY" => pc'[view_list'[i].creator] = "RUN"
  OBVIOUS
<1>1. PICK v : v = view_list[i] OBVIOUS
<1>2. view_list'[i] = v /\ ViewIsRight(v) BY <1>1 DEF IInv, ViewsAreRight
<1>3. v.creator \in Trxs BY <1>2 DEF ViewIsRight, Active
<1>4. Active(v.creator)' BY <1>2, <1>3 DEF ViewIsRight, Active
<1>5. v.type = "HIGH_GRANULARITY" => pc'[v.creator] = "RUN"
 <2>1. v.creator = t /\ v.type = "HIGH_GRANULARITY" => HasView(t, "HIGH_GRANULARITY")
   BY <1>1 DEF HasView, ViewsOf
 <2> QED BY <1>2, <1>3, <2>1 DEF ViewIsRight
<1> QED BY <1>2, <1>4, <1>5

\* Start keeps the invariant: the new id is above all others.
LEMMA StartKeeps ==
    ASSUME IInv, NEW t \in Trxs, Start(t)
    PROVE  IInv'
<1>1. /\ pc[t] = "NEW" /\ pc' = [pc EXCEPT ![t] = "RUN"]
      /\ trx_id' = [trx_id EXCEPT ![t] = max_trx_id] /\ max_trx_id' = max_trx_id + 1
      /\ UNCHANGED <<trx_no, rows, undo, logs, held, rolling, ops, view_list, purgeVars, commitVars>>
  BY DEF Start, logVars
<1>2. Types /\ IdsAreRight /\ HistoryIsRight BY DEF IInv
<1>3. /\ pc'[t] = "RUN" /\ trx_id'[t] = max_trx_id
      /\ \A u \in Trxs \ {t} : pc'[u] = pc[u] /\ trx_id'[u] = trx_id[u]
      /\ max_trx_id \in Nat \ {0}
  BY <1>1, <1>2 DEF Types, TrxTypes
<1>4. TrxTypes' /\ HistoryTypes' /\ view_list' \in Seq(OpenViews) /\ held' \in [Trxs -> SUBSET Keys]
 <2>1. TrxTypes' BY <1>1, <1>2 DEF Types, TrxTypes
 <2>2. HistoryTypes' /\ view_list' \in Seq(OpenViews) /\ held' \in [Trxs -> SUBSET Keys]
   BY <1>1, <1>2 DEF Types, HistoryTypes, ViewTypes, RowTypes, commitVars
 <2> QED BY <2>1, <2>2
<1>5. \A u \in Trxs : Numbered(u)' <=> Numbered(u) BY <1>1, <1>3 DEF Numbered
<1>6. Later BY <1>1, <1>3 DEF Later, Started
<1>7. Settled BY <1>1, <1>3, <1>5 DEF Settled
<1>8. FewerViews BY <1>1, <1>2, SameViews
<1>9. IdsAreRight'
 <2>1. Started' = Started \cup {t} /\ t \notin Started /\ NumberedTrxs' = NumberedTrxs
   BY <1>1, <1>3, <1>5 DEF Started, NumberedTrxs
 <2>2. IsFiniteSet(Started) /\ Cardinality(Started) \in Nat /\ Cardinality(NumberedTrxs) \in Nat
   BY <1>2, CounterIsSmall
 <2>3. Cardinality(Started') = Cardinality(Started) + 1 BY <2>1, <2>2, FS_AddElement
 <2>4. max_trx_id' = 1 + Cardinality(Started') + Cardinality(NumberedTrxs')
   BY <1>1, <1>2, <2>1, <2>2, <2>3 DEF IdsAreRight
 <2>5. \A u \in Trxs : /\ trx_id[u] \in Nat /\ (pc[u] # "NEW" => trx_id[u] < max_trx_id)
                       /\ trx_no[u] \in Nat
   BY <1>2 DEF IdsAreRight, Types, TrxTypes
 <2>6. \A u \in Trxs : IF pc'[u] = "NEW" THEN trx_id'[u] = Infinity
                       ELSE trx_id'[u] < max_trx_id'
   BY <1>1, <1>2, <1>3, <2>5 DEF IdsAreRight
 <2>7. \A u \in Trxs : IF Numbered(u)' THEN trx_no'[u] < max_trx_id'
                       ELSE trx_no'[u] = Infinity
   BY <1>1, <1>2, <1>3, <1>5, <2>5 DEF IdsAreRight
 <2>8. \A u, w \in Started' : trx_id'[u] = trx_id'[w] => u = w
  <3>1. \A u \in Started : u \in Trxs /\ u # t /\ trx_id'[u] = trx_id[u] /\ trx_id[u] < max_trx_id
    BY <1>1, <1>3, <2>5 DEF Started
  <3> QED BY <1>2, <1>3, <2>1, <3>1 DEF IdsAreRight
 <2>9. Infinity' = Infinity BY DEF Infinity
 <2> QED BY <2>4, <2>6, <2>7, <2>8, <2>9 DEF IdsAreRight
<1>10. HistoryIsRight'
 <2>1. \A i \in DOMAIN history : history[i] \in Trxs /\ history[i] # t
   BY <1>1, <1>2 DEF HistoryIsRight, Types, HistoryTypes
 <2>2. \A u \in Trxs : pc'[u] \in {"NUMBERED", "IN_HISTORY"} <=> pc[u] \in {"NUMBERED", "IN_HISTORY"}
   BY <1>1, <1>3
 <2>3. rseg_last # NoTrx => rseg_last \in Trxs /\ rseg_last # t
   BY <1>1, <1>2 DEF HistoryIsRight, Types, HistoryTypes
 <2>4. \A u \in Trxs : pc'[u] = "NUMBERED" <=> pc[u] = "NUMBERED" BY <1>1, <1>3
 <2>5. \A i \in DOMAIN history : /\ pc'[history[i]] = pc[history[i]]
                                 /\ Numbered(history[i])' <=> Numbered(history[i])
   BY <1>1, <1>3, <2>1 DEF Numbered, commitVars
 <2>6. rseg_last # NoTrx => /\ pc'[rseg_last] = pc[rseg_last]
                            /\ Numbered(rseg_last)' <=> Numbered(rseg_last)
   BY <1>1, <1>3, <2>3 DEF Numbered, commitVars
 <2> QED BY <1>1, <1>2, <2>2, <2>4, <2>5, <2>6 DEF HistoryIsRight, commitVars
<1>11. ~ rolling[t].on BY <1>1 DEF IInv, RollingIsRight
<1>12. undo[t] = <<>> BY <1>1 DEF IInv, UndosAreRight
<1>13. \A i \in DOMAIN view_list' :
               /\ Active(view_list[i].creator)'
               /\ view_list'[i].type = "HIGH_GRANULARITY" => pc'[view_list'[i].creator] = "RUN"
  BY <1>1, <1>3, OwnersStay
<1> QED BY <1>1, <1>3, <1>4, <1>6, <1>7, <1>8, <1>9, <1>10, <1>11, <1>12, <1>13, LifeKeeps

\* AssignNo keeps the invariant: the number drawn is above all others, and whoever draws one
\* has the mutex until the log is in the history list.
LEMMA AssignNoKeeps ==
    ASSUME IInv, NEW t \in Trxs, AssignNo(t)
    PROVE  IInv'
<1>1. /\ pc[t] = "RUN" /\ ~ rolling[t].on /\ "UPDATE" \in logs[t] /\ ~ HasView(t, "HIGH_GRANULARITY")
      /\ rseg_mutex = NoTrx /\ rseg_mutex' = t
      /\ pc' = [pc EXCEPT ![t] = "NUMBERED"]
      /\ trx_no' = [trx_no EXCEPT ![t] = max_trx_id] /\ max_trx_id' = max_trx_id + 1
      /\ UNCHANGED <<trx_id, rows, undo, logs, held, rolling, ops, view_list, purgeVars,
                     history, rseg_last>>
  BY DEF AssignNo, Runs, TakeRsegMutex, logVars
<1>2. Types /\ IdsAreRight /\ HistoryIsRight BY DEF IInv
<1>3. /\ pc'[t] = "NUMBERED" /\ trx_no'[t] = max_trx_id
      /\ \A u \in Trxs \ {t} : pc'[u] = pc[u] /\ trx_no'[u] = trx_no[u]
      /\ max_trx_id \in Nat \ {0}
  BY <1>1, <1>2 DEF Types, TrxTypes
<1>4. TrxTypes' /\ HistoryTypes' /\ view_list' \in Seq(OpenViews) /\ held' \in [Trxs -> SUBSET Keys]
 <2>1. TrxTypes' BY <1>1, <1>2 DEF Types, TrxTypes
 <2>2. HistoryTypes' BY <1>1, <1>2 DEF Types, HistoryTypes
 <2>3. view_list' \in Seq(OpenViews) /\ held' \in [Trxs -> SUBSET Keys]
   BY <1>1, <1>2 DEF Types, ViewTypes, RowTypes
 <2> QED BY <2>1, <2>2, <2>3
<1>5. /\ \A u \in Trxs \ {t} : Numbered(u)' <=> Numbered(u)
      /\ Numbered(t)' /\ ~ Numbered(t)
  BY <1>1, <1>3 DEF Numbered
<1>6. Later BY <1>1, <1>3 DEF Later, Started
<1>7. Settled BY <1>1, <1>3, <1>5 DEF Settled
<1>8. FewerViews BY <1>1, <1>2, SameViews
<1>9. IdsAreRight'
 <2>1. NumberedTrxs' = NumberedTrxs \cup {t} /\ t \notin NumberedTrxs /\ Started' = Started
   BY Zenon, <1>1, <1>3, <1>5 DEF Started, NumberedTrxs
 <2>2. IsFiniteSet(NumberedTrxs) /\ Cardinality(Started) \in Nat /\ Cardinality(NumberedTrxs) \in Nat
   BY <1>2, CounterIsSmall
 <2>3. Cardinality(NumberedTrxs') = Cardinality(NumberedTrxs) + 1 BY <2>1, <2>2, FS_AddElement
 <2>4. max_trx_id' = 1 + Cardinality(Started') + Cardinality(NumberedTrxs')
   BY <1>1, <1>2, <2>1, <2>2, <2>3 DEF IdsAreRight
 <2>5. \A u \in Trxs : trx_id[u] \in Nat /\ trx_no[u] \in Nat BY <1>2 DEF Types, TrxTypes
 <2>6. \A u \in Trxs : IF pc'[u] = "NEW" THEN trx_id'[u] = Infinity
                       ELSE trx_id'[u] < max_trx_id'
   BY <1>1, <1>2, <1>3, <2>5 DEF IdsAreRight
 <2>7. \A u \in Trxs : IF Numbered(u)' THEN trx_no'[u] < max_trx_id'
                       ELSE trx_no'[u] = Infinity
   BY <1>1, <1>2, <1>3, <1>5, <2>5 DEF IdsAreRight
 <2>8. \A u, w \in Started' : trx_id'[u] = trx_id'[w] => u = w BY <1>1, <1>2, <2>1 DEF IdsAreRight
 <2>9. Infinity' = Infinity BY DEF Infinity
 <2> QED BY <2>4, <2>6, <2>7, <2>8, <2>9 DEF IdsAreRight
<1>10. HistoryIsRight'
 <2>1. \A i \in DOMAIN history : /\ history[i] \in Trxs /\ history[i] # t
                                 /\ trx_no[history[i]] < max_trx_id
   BY <1>1, <1>2 DEF HistoryIsRight, Types, HistoryTypes, IdsAreRight
 <2>2. rseg_last # NoTrx => rseg_last \in Trxs /\ rseg_last # t
   BY <1>1, <1>2 DEF HistoryIsRight, Types, HistoryTypes
 <2>3. \A u \in Trxs : pc'[u] \in {"NUMBERED", "IN_HISTORY"} => "UPDATE" \in logs'[u]
   BY <1>1, <1>2, <1>3 DEF HistoryIsRight
 <2>4. \A u \in Trxs : pc'[u] = "NUMBERED" <=> u = t
   BY <1>1, <1>2, <1>3, MvccAssumption DEF HistoryIsRight
 <2>5. \A i \in DOMAIN history : /\ pc'[history[i]] = pc[history[i]]
                                 /\ Numbered(history[i])' <=> Numbered(history[i])
                                 /\ trx_no'[history[i]] = trx_no[history[i]]
   BY <1>1, <1>3, <2>1 DEF Numbered
 <2>6. rseg_last # NoTrx => /\ pc'[rseg_last] = pc[rseg_last]
                            /\ Numbered(rseg_last)' <=> Numbered(rseg_last)
   BY <1>1, <1>3, <2>2 DEF Numbered
 <2> QED BY <1>1, <1>2, <1>3, <2>1, <2>3, <2>4, <2>5, <2>6 DEF HistoryIsRight
<1>11. \A i \in DOMAIN view_list' :
               /\ Active(view_list[i].creator)'
               /\ view_list'[i].type = "HIGH_GRANULARITY" => pc'[view_list'[i].creator] = "RUN"
  BY <1>1, <1>3, OwnersStay
<1>12. Active(t) BY <1>1 DEF Active
<1> QED BY <1>1, <1>3, <1>4, <1>6, <1>7, <1>8, <1>9, <1>10, <1>11, <1>12, LifeKeeps

-----------------------------------------------------------------------------
(* The commit *)

\* AddToHistory keeps the invariant: the log goes to the end of the list, and has the greatest number.
LEMMA AddToHistoryKeeps ==
    ASSUME IInv, NEW t \in Trxs, AddToHistory(t)
    PROVE  IInv'
<1>1. /\ pc[t] = "NUMBERED"
      /\ history' = Append(history, t) /\ rseg_last' \in {t, rseg_last} /\ rseg_mutex' = NoTrx
      /\ pc' = [pc EXCEPT ![t] = "IN_HISTORY"]
      /\ UNCHANGED <<max_trx_id, trx_id, trx_no, rows, undo, logs, held, rolling, ops,
                     view_list, purgeVars>>
  BY DEF AddToHistory, RsegLast, logVars
<1>2. Types /\ IdsAreRight /\ HistoryIsRight BY DEF IInv
<1>3. pc'[t] = "IN_HISTORY" /\ \A u \in Trxs \ {t} : pc'[u] = pc[u]
  BY <1>1, <1>2 DEF Types, TrxTypes
<1>4. TrxTypes' /\ HistoryTypes' /\ view_list' \in Seq(OpenViews) /\ held' \in [Trxs -> SUBSET Keys]
 <2>1. TrxTypes' BY <1>1, <1>2 DEF Types, TrxTypes
 <2>2. history' \in Seq(Trxs) BY <1>1, <1>2 DEF Types, HistoryTypes
 <2>3. HistoryTypes' BY <1>1, <1>2, <2>2 DEF Types, HistoryTypes
 <2>4. view_list' \in Seq(OpenViews) /\ held' \in [Trxs -> SUBSET Keys]
   BY <1>1, <1>2 DEF Types, ViewTypes, RowTypes
 <2> QED BY <2>1, <2>3, <2>4
<1>5. (\A u \in Trxs : Numbered(u)' <=> Numbered(u)) /\ Numbered(t) BY <1>1, <1>3 DEF Numbered
<1>6. Later BY <1>1, <1>2, <1>3 DEF Later, Started, Types, TrxTypes
<1>7. Settled BY <1>1, <1>3, <1>5 DEF Settled
<1>8. FewerViews BY <1>1, <1>2, SameViews
<1>9. IdsAreRight'
 <2>1. NumberedTrxs' = NumberedTrxs /\ Started' = Started
   BY <1>1, <1>3, <1>5 DEF Started, NumberedTrxs
 <2>2. \A u \in Trxs : pc'[u] = "NEW" <=> pc[u] = "NEW" BY <1>1, <1>3
 <2>3. Infinity' = Infinity BY DEF Infinity
 <2> QED BY <1>1, <1>2, <1>5, <2>1, <2>2, <2>3 DEF IdsAreRight
<1>10. HistoryIsRight'
 <2>1. history \in Seq(Trxs) /\ Len(history) \in Nat /\ DOMAIN history = 1 .. Len(history)
   BY <1>2 DEF Types, HistoryTypes
 <2>2. /\ DOMAIN history' = 1 .. Len(history) + 1 /\ history'[Len(history) + 1] = t
       /\ \A i \in 1 .. Len(history) : history'[i] = history[i]
   BY <1>1, <2>1
 <2>3. \A i \in 1 .. Len(history) : /\ history[i] \in Trxs /\ history[i] # t
                                    /\ trx_no[history[i]] < trx_no[t]
                                    /\ pc[history[i]] \in {"IN_HISTORY", "DONE"}
                                    /\ Numbered(history[i])
   BY <1>1, <1>2, <2>1 DEF HistoryIsRight
 <2>4. \A u \in Trxs : pc'[u] \in {"NUMBERED", "IN_HISTORY"} => "UPDATE" \in logs'[u]
   BY <1>1, <1>2, <1>3 DEF HistoryIsRight
 <2>5. \A u \in Trxs : pc'[u] # "NUMBERED" BY <1>1, <1>2, <1>3 DEF HistoryIsRight
 <2>6. ASSUME NEW i \in DOMAIN history'
       PROVE  /\ pc'[history'[i]] \in {"IN_HISTORY", "DONE"}
              /\ Numbered(history[i])'
  <3>1. PICK h \in Trxs : h = history'[i] /\ pc'[h] \in {"IN_HISTORY", "DONE"} /\ Numbered(h)
   <4>1. CASE i = Len(history) + 1 BY <1>3, <1>5, <2>2, <4>1
   <4>2. CASE i \in 1 .. Len(history) BY <1>3, <2>2, <2>3, <4>2
   <4> QED BY <2>1, <2>2, <4>1, <4>2
  <3>2. Numbered(h)' BY <1>5, <3>1
  <3> QED BY <3>1, <3>2
 <2>7. ASSUME NEW i \in DOMAIN history', NEW j \in DOMAIN history', i < j
       PROVE  trx_no'[history'[i]] < trx_no'[history'[j]]
  <3>1. i \in 1 .. Len(history) BY <2>1, <2>2, <2>7
  <3>2. CASE j = Len(history) + 1 BY <1>1, <2>2, <2>3, <3>1, <3>2
  <3>3. CASE j \in 1 .. Len(history)
    BY <1>1, <1>2, <2>1, <2>2, <2>7, <3>1, <3>3 DEF HistoryIsRight
  <3> QED BY <2>1, <2>2, <3>2, <3>3
 <2>8. rseg_last' # NoTrx => pc'[rseg_last'] \in {"IN_HISTORY", "DONE"} /\ Numbered(rseg_last)'
  <3>1. SUFFICES ASSUME rseg_last' # NoTrx
                 PROVE  pc'[rseg_last'] \in {"IN_HISTORY", "DONE"} /\ Numbered(rseg_last)'
    OBVIOUS
  <3>2. PICK h \in Trxs : h = rseg_last' /\ pc'[h] \in {"IN_HISTORY", "DONE"} /\ Numbered(h)
    BY <1>1, <1>2, <1>3, <1>5, <3>1 DEF HistoryIsRight, Types, HistoryTypes
  <3>3. Numbered(h)' BY <1>5, <3>2
  <3> QED BY <3>2, <3>3
 <2>9. \A u \in Trxs : pc'[u] = "NUMBERED" <=> rseg_mutex' = u BY <1>1, <2>5, MvccAssumption
 <2> QED BY <2>4, <2>5, <2>6, <2>7, <2>8, <2>9 DEF HistoryIsRight
<1>11. ~ rolling[t].on BY <1>1 DEF IInv, RollingIsRight
<1>12. \A i \in DOMAIN view_list' :
               /\ Active(view_list[i].creator)'
               /\ view_list'[i].type = "HIGH_GRANULARITY" => pc'[view_list'[i].creator] = "RUN"
  BY <1>1, <1>3, OwnersStay
<1>13. Active(t) BY <1>1 DEF Active
<1> QED BY <1>1, <1>3, <1>4, <1>6, <1>7, <1>8, <1>9, <1>10, <1>11, <1>12, <1>13, LifeKeeps

\* The views that are left when t has closed its own are views of others.
LEMMA OwnViewsGo ==
    ASSUME IInv, NEW t \in Trxs, ~ HasView(t, "HIGH_GRANULARITY"), view_list' \in ViewsClosed(t)
    PROVE  /\ FewerViews /\ view_list' \in Seq(OpenViews)
           /\ \A i \in DOMAIN view_list' :
                  \E j \in DOMAIN view_list : view_list'[i] = view_list[j] /\ view_list[j].creator # t
<1>1. Types /\ ViewsAreRight /\ view_list \in Seq(OpenViews) BY DEF IInv, Types, ViewTypes
<1>2. \A j \in DOMAIN view_list : view_list[j].creator = t => j \in ViewsOf(t, "NORMAL")
 <2>1. \A j \in DOMAIN view_list : view_list[j].type \in {"NORMAL", "HIGH_GRANULARITY"}
  <3>1. \A j \in DOMAIN view_list : view_list[j] \in OpenViews BY <1>1
  <3> QED BY <3>1 DEF OpenViews
 <2> QED BY <2>1 DEF HasView, ViewsOf
<1>3. CASE HasView(t, "NORMAL")
 <2>1. PICK k \in ViewsOf(t, "NORMAL") : view_list' = RemoveAt(view_list, k)
   BY <1>3 DEF ViewsClosed
 <2>2. k \in DOMAIN view_list BY <2>1 DEF ViewsOf
 <2>3. /\ FewerViews /\ view_list' \in Seq(OpenViews)
       /\ \A i \in DOMAIN view_list' : \E j \in DOMAIN view_list \ {k} : view_list'[i] = view_list[j]
   BY <1>1, <2>1, <2>2, RemovedView
 <2>4. \A j \in DOMAIN view_list \ {k} : view_list[j].creator # t
   BY <1>1, <1>2, <2>1 DEF ViewsOf, ViewsAreRight
 <2> QED BY <2>3, <2>4
<1>4. CASE ~ HasView(t, "NORMAL")
 <2>1. view_list' = view_list BY <1>4 DEF ViewsClosed
 <2>2. FewerViews BY <1>1, <2>1, SameViews
 <2> QED BY <1>1, <1>2, <1>4, <2>1, <2>2 DEF HasView
<1> QED BY <1>3, <1>4

\* CommitInMemory keeps the invariant.
LEMMA CommitKeeps ==
    ASSUME IInv, NEW t \in Trxs, CommitInMemory(t)
    PROVE  IInv'
<1>1. /\ \/ pc[t] = "IN_HISTORY"
         \/ /\ pc[t] = "RUN" /\ ~ rolling[t].on /\ "UPDATE" \notin logs[t]
            /\ ~ HasView(t, "HIGH_GRANULARITY")
      /\ pc' = [pc EXCEPT ![t] = "DONE"] /\ held' = [held EXCEPT ![t] = {}]
      /\ view_list' \in ViewsClosed(t)
      /\ UNCHANGED <<max_trx_id, trx_id, trx_no, rows, undo, logs, rolling, ops,
                     purgeVars, commitVars>>
  BY DEF CommitInMemory, Runs
<1>2. Types /\ IdsAreRight /\ HistoryIsRight /\ ViewsAreRight BY DEF IInv
<1>3. pc'[t] = "DONE" /\ \A u \in Trxs \ {t} : pc'[u] = pc[u] /\ held'[u] = held[u]
  BY <1>1, <1>2 DEF Types, TrxTypes, RowTypes
<1>4. ~ HasView(t, "HIGH_GRANULARITY")
 <2>1. pc[t] = "IN_HISTORY" => \A i \in ViewsOf(t, "HIGH_GRANULARITY") : FALSE
   BY <1>2 DEF ViewsAreRight, ViewIsRight, ViewsOf
 <2> QED BY <1>1, <2>1 DEF HasView
<1>5. /\ FewerViews /\ view_list' \in Seq(OpenViews)
      /\ \A i \in DOMAIN view_list' :
             \E j \in DOMAIN view_list : view_list'[i] = view_list[j] /\ view_list[j].creator # t
  BY <1>1, <1>4, OwnViewsGo
<1>6. TrxTypes' /\ HistoryTypes' /\ held' \in [Trxs -> SUBSET Keys]
  BY <1>1, <1>2 DEF Types, TrxTypes, HistoryTypes, RowTypes, commitVars
<1>7. \A u \in Trxs : Numbered(u)' <=> Numbered(u) BY <1>1, <1>2, <1>3 DEF Numbered, HistoryIsRight
<1>8. Later BY <1>1, <1>2, <1>3 DEF Later, Started, Types, TrxTypes
<1>9. Settled BY <1>1, <1>3, <1>7 DEF Settled
<1>10. IdsAreRight'
 <2>1. \A u \in Trxs : pc'[u] = "NEW" <=> pc[u] = "NEW" BY <1>1, <1>3
 <2>2. NumberedTrxs' = NumberedTrxs /\ Started' = Started BY <2>1, <1>7 DEF Started, NumberedTrxs
 <2>3. Infinity' = Infinity BY DEF Infinity
 <2> QED BY <1>1, <1>2, <1>7, <2>1, <2>2, <2>3 DEF IdsAreRight
<1>11. HistoryIsRight'
 <2>1. \A u \in Trxs : /\ pc'[u] = "NUMBERED" <=> pc[u] = "NUMBERED"
                       /\ pc'[u] \in {"NUMBERED", "IN_HISTORY"} => pc[u] \in {"NUMBERED", "IN_HISTORY"}
                       /\ pc[u] \in {"IN_HISTORY", "DONE"} => pc'[u] \in {"IN_HISTORY", "DONE"}
   BY <1>1, <1>3
 <2>2. \A i \in DOMAIN history : history[i] \in Trxs BY <1>2 DEF Types, HistoryTypes
 <2>3. UNCHANGED <<history, rseg_last, rseg_mutex, trx_no, logs>> BY <1>1 DEF commitVars
 <2>4. rseg_last # NoTrx => rseg_last \in Trxs BY <1>2 DEF Types, HistoryTypes
 <2>5. ASSUME NEW i \in DOMAIN history
       PROVE  Numbered(history[i])'
  <3>1. PICK h \in Trxs : h = history[i] /\ Numbered(h) BY <1>2, <2>2 DEF HistoryIsRight
  <3>2. Numbered(h)' /\ history'[i] = h BY <1>7, <2>3, <3>1
  <3> QED BY <3>2
 <2>6. rseg_last # NoTrx => Numbered(rseg_last)'
  <3>1. SUFFICES ASSUME rseg_last # NoTrx
                 PROVE  Numbered(rseg_last)'
    OBVIOUS
  <3>2. PICK h \in Trxs : h = rseg_last /\ Numbered(h) BY <1>2, <2>4, <3>1 DEF HistoryIsRight
  <3>3. Numbered(h)' /\ rseg_last' = h BY <1>7, <2>3, <3>2
  <3> QED BY <3>3
 <2> QED BY <1>2, <2>1, <2>2, <2>3, <2>4, <2>5, <2>6 DEF HistoryIsRight
<1>12. ~ rolling[t].on BY <1>1 DEF IInv, RollingIsRight
<1>13. ASSUME NEW i \in DOMAIN view_list'
       PROVE  /\ Active(view_list[i].creator)'
              /\ view_list'[i].type = "HIGH_GRANULARITY" => pc'[view_list'[i].creator] = "RUN"
 <2>1. PICK v : v = view_list'[i] OBVIOUS
 <2>2. ViewIsRight(v) /\ v.creator # t BY <1>2, <1>5, <2>1 DEF ViewsAreRight
 <2>3. Active(v.creator)' /\ (v.type = "HIGH_GRANULARITY" => pc'[v.creator] = "RUN")
   BY <1>3, <2>2 DEF ViewIsRight, Active
 <2> QED BY <2>1, <2>3
<1>14. Active(t) BY <1>1 DEF Active
<1> QED BY <1>1, <1>3, <1>5, <1>6, <1>8, <1>9, <1>10, <1>11, <1>12, <1>13, <1>14, LifeKeeps

-----------------------------------------------------------------------------
(* The steps of purge *)

\* A step of purge that leaves the records alone.
LEMMA PurgeKeeps ==
    ASSUME IInv, UNCHANGED <<trxVars, rows, logVars, view_list>>,
           PurgeTypes', HistoryTypes', HistoryIsRight',
           NEW v \in View, purge_view' = v, LimitsAreRight(v),
           \A t \in Started : Knows(v, t) => SeenByAll(t),
           \A t \in Trxs : gone'[t] > 0 => SeenByAll(t),
           NEW p, purge_sys' = p, PositionIsRight(p),
           NEW k, task' = k,
           k # NoTask => /\ p.state = "ON" /\ k.log \in Trxs /\ SeenByAll(k.log)
                         /\ k.un \in 0 .. Len(undo[k.log])
    PROVE  IInv'
<1>1. Types /\ IdsAreRight BY DEF IInv
<1>2. UNCHANGED <<undo, logs, held, rolling, ops, pc>> BY DEF logVars, trxVars
<1>3. TrxTypes' /\ RowTypes' /\ ViewTypes'
  BY <1>1, <1>2 DEF Types, TrxTypes, RowTypes, ViewTypes, trxVars
<1>4. NobodyEnds /\ Settled BY <1>2 DEF NobodyEnds, Numbered, trxVars, Settled
<1>5. Later /\ FewerViews /\ Started' = Started BY <1>1, <1>4, NobodyEndsLater, SameViews
<1>6. IdsAreRight' /\ SeenStay BY <1>1, <1>3, <1>4, <1>5, IdsKept, FewerViewsSee
<1>7. /\ UndosAreRight' /\ \A u \in Trxs : RollingIsRight(u)'
      /\ \A q \in Keys : RowIsRight(q)' /\ ChainIsRight(q)'
 <2>1. \A q \in Keys : ChainIsRight(q)' BY <1>2, <1>5, ChainsKept
 <2>2. Trxs = {} => UndosAreRight' /\ \A q \in Keys : RowIsRight(q)'
  <3>1. SUFFICES ASSUME Trxs = {}
                 PROVE  UndosAreRight' /\ \A q \in Keys : RowIsRight(q)'
    OBVIOUS
  <3>2. UndosAreRight' BY <3>1 DEF UndosAreRight
  <3>3. \A q \in Keys : IsVersion(rows[q], q)' /\ (Own(rows[q], NoTrx)' => rows'[q] = Original)
    BY <2>1, ChainGivesRow
  <3> QED BY <3>1, <3>2, <3>3 DEF RowIsRight
 <2>3. ASSUME NEW u \in Trxs
       PROVE  /\ UndosAreRight' /\ \A t \in Trxs : RollingIsRight(t)'
              /\ \A q \in Keys : RowIsRight(q)'
  <3>1. Active(u)' => Active(u) BY <1>2 DEF Active
  <3> QED BY <1>2, <1>5, <3>1, RecordsKept
 <2> QED BY <2>1, <2>2, <2>3
<1>8. ViewsAreRight'
 <2>1. \A i \in DOMAIN view_list : ViewIsRight(view_list[i]) BY DEF IInv, ViewsAreRight
 <2>2. ASSUME NEW i \in DOMAIN view_list'
       PROVE  /\ Active(view_list[i].creator)'
              /\ view_list'[i].type = "HIGH_GRANULARITY" => pc'[view_list'[i].creator] = "RUN"
   BY <1>2, <2>1, <2>2 DEF ViewIsRight, Active
 <2> QED BY <1>3, <1>5, <2>2, ViewsKept
<1>9. PurgeViewIsRight'
 <2>1. /\ v.trx_ids \in SUBSET Nat /\ v.low_limit_id \in Nat /\ v.low_limit_no \in Nat BY DEF View
 <2>2. LimitsAreRight(v)' BY <1>1, <1>3, <1>5, <2>1, LimitsKept
 <2>3. \A t \in Started : Knows(v, t)' <=> Knows(v, t) BY <1>5, <2>1 DEF Knows, Later
 <2>4. LimitsAreRight(purge_view)' BY <2>2 DEF LimitsAreRight, Knows
 <2>5. ASSUME NEW t \in Started
       PROVE  Knows(purge_view, t)' => SeenByAll(t)'
  <3>1. t \in Trxs BY DEF Started
  <3>2. Knows(purge_view, t)' <=> Knows(v, t)' BY DEF Knows
  <3> QED BY <1>6, <2>3, <3>1, <3>2 DEF SeenStay
 <2> QED BY <1>5, <2>4, <2>5 DEF PurgeViewIsRight
<1>10. GoneIsRight' BY <1>6 DEF GoneIsRight, SeenStay
<1>11. PurgeIsRight'
 <2>1. PositionIsRight(p)' BY <1>1, <1>4, PositionKept
 <2>2. PositionIsRight(purge_sys)' BY <2>1 DEF PositionIsRight
 <2>3. NoTask' = NoTask BY DEF NoTask
 <2>4. k # NoTask => SeenByAll(k.log)' BY <1>6 DEF SeenStay
 <2>5. SeenByAll(k.log)' <=> SeenByAll(task.log)' BY DEF SeenByAll
 <2> QED BY <1>2, <2>2, <2>3, <2>4, <2>5 DEF PurgeIsRight
<1> QED BY <1>3, <1>6, <1>7, <1>8, <1>9, <1>10, <1>11 DEF IInv, Types

\* The purge view, as a new view without a creator or as a copy of the oldest one,
\* is one that all views see beyond.
LEMMA PurgeViewIsOld ==
    ASSUME IInv, NEW v, v = OldestCopyOrOpenNew
    PROVE  /\ v \in View /\ LimitsAreRight(v)
           /\ \A t \in Started : Knows(v, t) => SeenByAll(t)
<1>1. Types /\ IdsAreRight /\ ViewsAreRight BY DEF IInv
<1>2. \A t \in Started : ~ Active(t) => pc[t] = "DONE" BY <1>1 DEF Started, Active, Types, TrxTypes
<1>3. view_list \in Seq(OpenViews) BY <1>1 DEF Types, ViewTypes
<1>4. CASE view_list = <<>>
 <2>1. v = LimitsNow(ActiveTrxs) BY <1>4 DEF OldestCopyOrOpenNew
 <2>2. ActiveTrxs \in SUBSET Started BY DEF ActiveTrxs, Active, Started
 <2>3. HasLimits(v, ActiveTrxs) /\ v = [trx_ids |-> v.trx_ids, up_limit_id |-> v.up_limit_id,
                          low_limit_id |-> v.low_limit_id, low_limit_no |-> v.low_limit_no]
   BY <2>1 DEF HasLimits, LimitsNow, Limits
 <2>4. /\ LimitsAreRight(v)
       /\ \A t \in Started : Knows(v, t) <=> t \notin ActiveTrxs
       /\ v.trx_ids \in SUBSET Nat /\ v.up_limit_id \in Nat
       /\ v.low_limit_id \in Nat /\ v.low_limit_no \in Nat
   BY <1>1, <2>2, <2>3, LimitsMean
 <2>5. v \in View BY <2>3, <2>4 DEF View
 <2>6. \A t \in Started : t \notin ActiveTrxs => SeenByAll(t)
   BY <1>2, <1>4 DEF SeenByAll, ActiveTrxs, Started
 <2> QED BY <2>4, <2>5, <2>6
<1>5. CASE view_list # <<>>
 <2> DEFINE n == Len(view_list)
 <2>1. PICK old : old = view_list[n] OBVIOUS
 <2>2. /\ n \in DOMAIN view_list /\ \A i \in DOMAIN view_list : i \in 1 .. n
       /\ n \in Nat /\ old \in OpenViews
   BY <1>3, <1>5, <2>1
 <2>3. ViewIsRight(old) BY <1>1, <2>1, <2>2 DEF ViewsAreRight
 <2>4. PICK c \in Trxs : c = old.creator /\ c \in Started /\ trx_id[c] \in Nat \ {0}
   BY <1>1, <2>3 DEF ViewIsRight, Active, Started, Types, TrxTypes
 <2>5. /\ v.trx_ids = old.trx_ids \cup {trx_id[c]} /\ v.low_limit_id = old.low_limit_id
       /\ v.low_limit_no = old.low_limit_no /\ v.up_limit_id = Min(v.trx_ids \cup {v.low_limit_id})
       /\ v = [trx_ids |-> v.trx_ids, up_limit_id |-> v.up_limit_id,
               low_limit_id |-> v.low_limit_id, low_limit_no |-> v.low_limit_no]
   BY <1>5, <2>1, <2>4 DEF OldestCopyOrOpenNew, CopyOf, Limits
 <2>6. /\ old.trx_ids \in SUBSET Nat /\ old.low_limit_id \in Nat /\ old.low_limit_no \in Nat
   BY <2>2 DEF OpenViews
 <2>7. v.trx_ids \in SUBSET Nat /\ v.low_limit_id \in Nat /\ v.low_limit_no \in Nat
   BY <2>4, <2>5, <2>6
 <2>8. v.up_limit_id \in Nat BY <2>5, <2>7, MinIsLeast
 <2>9. v \in View BY <2>5, <2>7, <2>8 DEF View
 <2>10. ASSUME NEW t \in Started
        PROVE  Knows(v, t) <=> Knows(old, t) /\ t # c
  <3>1. t \in Trxs /\ trx_id[t] \in Nat BY <1>1 DEF Started, Types, TrxTypes
  <3>2. Knows(v, t) <=> trx_id[t] < v.low_limit_id /\ trx_id[t] \notin v.trx_ids
    BY <2>5, <2>7, <3>1, SeesMeans DEF Knows
  <3>3. Knows(old, t) <=> trx_id[t] < old.low_limit_id /\ trx_id[t] \notin old.trx_ids
    BY <2>3, <2>6, <3>1, SeesMeans DEF Knows, ViewIsRight, LimitsAreRight
  <3>4. trx_id[t] = trx_id[c] <=> t = c BY <1>1, <2>4 DEF IdsAreRight
  <3> QED BY <2>5, <3>2, <3>3, <3>4
 <2>11. LimitsAreRight(v)
  <3>1. \A t \in Started : trx_no[t] < v.low_limit_no => Knows(v, t)
   <4>1. ~ (trx_no[c] < old.low_limit_no)
     BY <1>1, <2>3, <2>4, <2>6 DEF ViewIsRight, Types, TrxTypes
   <4> QED BY <2>3, <2>5, <2>10, <4>1 DEF ViewIsRight, LimitsAreRight
  <3> QED BY <2>3, <2>4, <2>5, <3>1 DEF ViewIsRight, LimitsAreRight
 <2>12. ASSUME NEW t \in Started, Knows(v, t)
        PROVE  SeenByAll(t)
  <3>1. Knows(old, t) /\ t # c BY <2>10, <2>12
  <3>2. pc[t] = "DONE" BY <1>2, <2>3, <2>4, <3>1 DEF ViewIsRight
  <3>3. ASSUME NEW i \in DOMAIN view_list
        PROVE  Knows(view_list[i], t)
   <4>1. i = n \/ i < n BY <2>2
   <4>2. i < n => Knows(view_list[i], t) BY <1>1, <2>1, <2>2, <2>4, <3>1 DEF ViewsAreRight
   <4> QED BY <2>1, <3>1, <4>1, <4>2
  <3> QED BY <3>2, <3>3 DEF SeenByAll
 <2> QED BY <2>9, <2>11, <2>12
<1> QED BY <1>4, <1>5

\* StartBatch keeps the invariant.
LEMMA StartBatchKeeps ==
    ASSUME IInv, StartBatch
    PROVE  IInv'
<1>1. /\ purge_sys.state = "STOP"
      /\ purge_sys' = [purge_sys EXCEPT !.state = "ON", !.handled = FALSE]
      /\ UNCHANGED <<trxVars, rows, logVars, view_list, commitVars, task, gone>>
      /\ purge_view' = OldestCopyOrOpenNew
  BY DEF StartBatch
<1>2. PICK v : v = OldestCopyOrOpenNew OBVIOUS
<1>3. /\ v \in View /\ LimitsAreRight(v)
      /\ \A t \in Started : Knows(v, t) => SeenByAll(t)
  BY <1>2, PurgeViewIsOld
<1>4. Types /\ PurgeIsRight /\ GoneIsRight /\ HistoryIsRight BY DEF IInv
<1>5. PurgeTypes' /\ HistoryTypes' BY <1>1, <1>4 DEF Types, PurgeTypes, HistoryTypes, commitVars
<1>6. UNCHANGED <<undo, logs>> BY <1>1 DEF logVars
<1>7. NobodyEnds BY <1>1, <1>6 DEF NobodyEnds, Numbered, trxVars
<1>8. HistoryIsRight' BY <1>1, <1>4, <1>7, HistoryKept
<1>9. PICK p : p = purge_sys' OBVIOUS
<1>10. PositionIsRight(p)
 <2>1. /\ p.un = purge_sys.un /\ p.undo_no = purge_sys.undo_no /\ p.log = purge_sys.log
       /\ p.next_stored = purge_sys.next_stored /\ p.trx_no = purge_sys.trx_no
   BY <1>1, <1>4, <1>9 DEF Types, PurgeTypes
 <2> QED BY <1>4, <2>1 DEF PurgeIsRight, PositionIsRight
<1>11. task' = NoTask BY <1>1, <1>4 DEF PurgeIsRight
<1>12. \A t \in Trxs : gone'[t] > 0 => SeenByAll(t) BY <1>1, <1>4 DEF GoneIsRight
<1> QED BY <1>1, <1>2, <1>3, <1>5, <1>8, <1>9, <1>10, <1>11, <1>12, PurgeKeeps

-----------------------------------------------------------------------------
(* The way of purge through the logs *)

PurgeSys == [state : {"ON", "TRUNCATE", "STOP"}, trx_no : Nat, undo_no : Nat,
             next_stored : BOOLEAN, log : Trxs \cup {NoTrx}, un : Nat, handled : BOOLEAN]

\* A log that is or was in the history list.
IsLog(t) == t \in Trxs /\ pc[t] \in {"IN_HISTORY", "DONE"} /\ Numbered(t)

\* The first record of a log is one, or the dummy record.
LEMMA FirstRecIsRecord ==
    ASSUME Types, NEW t \in Trxs
    PROVE  FirstRec(t) \in 0 .. Len(undo[t])
<1> DEFINE recs == {n \in DOMAIN undo[t] : IsUpdate(t, n)}
<1>1. undo[t] \in Seq(UndoRec) /\ DOMAIN undo[t] = 1 .. Len(undo[t]) /\ Len(undo[t]) \in Nat
 <2>1. undo[t] \in Seq(UndoRec) BY DEF Types, RowTypes
 <2> QED BY <2>1
<1>2. recs \in SUBSET Nat /\ recs \subseteq 1 .. Len(undo[t]) BY <1>1
<1>3. FirstRec(t) \in recs \/ FirstRec(t) = 0 BY <1>2, MinIsLeast DEF FirstRec
<1> QED BY <1>1, <1>2, <1>3

\* The log chosen next is the oldest that purge has not done with, and its first record is there.
LEMMA ChosenLogIsRight ==
    ASSUME IInv, NEW p \in PurgeSys, p.un \in 0 .. MaxOps, p.undo_no \in 0 .. MaxOps,
           NEW last \in Trxs \cup {NoTrx}, last # NoTrx => IsLog(last),
           NEW q, q = ChooseLog(p, last)
    PROVE  q \in PurgeSys /\ PositionIsRight(q) /\ q.handled = p.handled /\ q.state = p.state
<1>1. Types BY DEF IInv
<1>2. CASE last = NoTrx
 <2>1. q = [p EXCEPT !.next_stored = FALSE] BY <1>2 DEF ChooseLog
 <2>2. q \in PurgeSys /\ ~ q.next_stored /\ q.un = p.un /\ q.undo_no = p.undo_no
       /\ q.handled = p.handled /\ q.state = p.state
   BY <2>1 DEF PurgeSys
 <2> QED BY <2>2 DEF PositionIsRight
<1>3. CASE last # NoTrx
 <2>1. last \in Trxs /\ IsLog(last) /\ trx_no[last] \in Nat BY <1>1, <1>3 DEF Types, TrxTypes
 <2>2. PICK n : n = FirstRec(last) OBVIOUS
 <2>3. n \in 0 .. Len(undo[last]) BY <1>1, <2>1, <2>2, FirstRecIsRecord
 <2>4. Len(undo[last]) <= ops[last] /\ ops[last] \in 0 .. MaxOps
   BY <1>1, <2>1 DEF IInv, UndosAreRight, Types, RowTypes
 <2>5. Len(undo[last]) \in Nat
  <3>1. undo[last] \in Seq(UndoRec) BY <1>1, <2>1 DEF Types, RowTypes
  <3> QED BY <3>1
 <2>6. n \in 0 .. MaxOps /\ n \in Nat BY <2>3, <2>4, <2>5, MvccAssumption
 <2>7. PICK x \in Nat : x = trx_no[last] BY <2>1
 <2>8. q = [p EXCEPT !.next_stored = TRUE, !.log = last, !.un = n, !.trx_no = x, !.undo_no = n]
   BY <1>3, <2>2, <2>7 DEF ChooseLog
 <2>9. q \in PurgeSys /\ q.next_stored /\ q.un = n /\ q.undo_no = n /\ q.log = last
       /\ q.trx_no = x /\ q.handled = p.handled /\ q.state = p.state
   BY ZenonT(60), <2>1, <2>6, <2>8 DEF PurgeSys
 <2> QED BY <2>1, <2>3, <2>6, <2>7, <2>9 DEF PositionIsRight, IsLog
<1> QED BY <1>2, <1>3

\* The log after another one is in the history list.
LEMMA LogAfterIsLog ==
    ASSUME IInv, NEW t, NEW last, last = LogAfter(t)
    PROVE  last \in Trxs \cup {NoTrx} /\ (last # NoTrx => IsLog(last))
<1>1. history \in Seq(Trxs) /\ DOMAIN history = 1 .. Len(history) /\ Len(history) \in Nat
 <2>1. history \in Seq(Trxs) BY DEF IInv, Types, HistoryTypes
 <2> QED BY <2>1
<1>2. \A i \in DOMAIN history : IsLog(history[i])
 <2>1. \A i \in DOMAIN history : history[i] \in Trxs BY <1>1
 <2> QED BY <2>1 DEF IInv, HistoryIsRight, IsLog
<1>3. CASE \E i \in 1 .. (Len(history) - 1) : history[i] = t
 <2> DEFINE P(i) == i \in DOMAIN history /\ history[i] = t
 <2>1. PICK i \in 1 .. (Len(history) - 1) : history[i] = t BY <1>3
 <2>2. PICK c : c = CHOOSE j \in DOMAIN history : history[j] = t OBVIOUS
 <2>3. c \in DOMAIN history /\ history[c] = t BY <1>1, <2>1, <2>2
 <2>4. i = c
  <3>1. \A a, b \in DOMAIN history : a < b => trx_no[history[a]] < trx_no[history[b]]
    BY DEF IInv, HistoryIsRight
  <3>2. trx_no[t] \in Nat BY <1>1, <2>3 DEF IInv, Types, TrxTypes
  <3>3. i \in DOMAIN history /\ i \in Nat /\ c \in Nat BY <1>1, <2>1, <2>3
  <3>4. ~ (i < c) /\ ~ (c < i) BY <2>1, <2>3, <3>1, <3>2, <3>3
  <3> QED BY <3>3, <3>4
 <2>5. 1 + c \in DOMAIN history /\ last = history[1 + c]
   BY <1>1, <1>3, <2>1, <2>2, <2>4 DEF LogAfter
 <2> QED BY <1>2, <2>5 DEF IsLog
<1>4. CASE ~ \E i \in 1 .. (Len(history) - 1) : history[i] = t BY <1>4 DEF LogAfter
<1> QED BY <1>3, <1>4

\* FetchNextRec keeps the invariant: a number below low_limit_no is of a transaction that all views see.
LEMMA FetchKeeps ==
    ASSUME IInv, FetchNextRec
    PROVE  IInv'
<1>1. Types /\ PurgeIsRight /\ GoneIsRight /\ HistoryIsRight /\ PurgeViewIsRight BY DEF IInv
<1>2. purge_sys \in PurgeSys /\ purge_view \in View /\ rseg_last \in Trxs \cup {NoTrx}
  BY <1>1 DEF Types, PurgeTypes, ViewTypes, HistoryTypes, PurgeSys
<1>3. rseg_last # NoTrx => IsLog(rseg_last) BY <1>1, <1>2 DEF HistoryIsRight, IsLog
<1>4. PICK p : p = IF purge_sys.next_stored THEN purge_sys ELSE ChooseLog(purge_sys, rseg_last)
  OBVIOUS
<1>5. p \in PurgeSys /\ PositionIsRight(p) /\ p.state = purge_sys.state
 <2>1. PositionIsRight(purge_sys) BY <1>1 DEF PurgeIsRight
 <2>2. PICK q : q = ChooseLog(purge_sys, rseg_last) OBVIOUS
 <2>3. q \in PurgeSys /\ PositionIsRight(q) /\ q.state = purge_sys.state
   BY <1>2, <1>3, <2>1, <2>2, ChosenLogIsRight DEF PositionIsRight
 <2> QED BY <1>2, <1>4, <2>1, <2>2, <2>3
<1>6. /\ UNCHANGED <<trxVars, rows, logVars, view_list, purge_view, gone, rseg_mutex, history>>
      /\ purge_sys.state = "ON" /\ task = NoTask
      /\ \/ purge_sys' = [p EXCEPT !.state = "TRUNCATE"] /\ UNCHANGED <<task, rseg_last>>
         \/ /\ p.next_stored /\ p.trx_no < purge_view.low_limit_no
            /\ task' = [log |-> p.log, un |-> p.un]
            /\ rseg_last' = IF p.un # 0 /\ NextRecs(p.log, p.un) # {} THEN rseg_last
                            ELSE LogAfter(p.log)
            /\ purge_sys' = AfterFetch([p EXCEPT !.handled = TRUE])
  BY <1>4 DEF FetchNextRec
<1>7. UNCHANGED <<undo, logs>> BY <1>6 DEF logVars
<1>8. NobodyEnds BY <1>6, <1>7 DEF NobodyEnds, Numbered, trxVars
<1>9. LimitsAreRight(purge_view) /\ \A t \in Started : Knows(purge_view, t) => SeenByAll(t)
  BY <1>1 DEF PurgeViewIsRight
<1>10. \A t \in Trxs : gone'[t] > 0 => SeenByAll(t) BY <1>1, <1>6 DEF GoneIsRight
<1>11. gone' \in [Trxs -> 0 .. MaxOps] BY <1>1, <1>6 DEF Types, PurgeTypes
<1>12. ASSUME NEW last \in Trxs \cup {NoTrx}, rseg_last' = last, last # NoTrx => IsLog(last)
       PROVE  HistoryTypes' /\ HistoryIsRight'
 <2>1. HistoryTypes' BY <1>1, <1>6, <1>12 DEF Types, HistoryTypes
 <2>2. last # NoTrx => Numbered(last)' BY <1>8, <1>12 DEF NobodyEnds, IsLog
 <2>3. rseg_last' # NoTrx => pc'[rseg_last'] \in {"IN_HISTORY", "DONE"} /\ Numbered(rseg_last)'
  <3>1. Numbered(last)' <=> Numbered(rseg_last)' BY <1>12 DEF Numbered
  <3> QED BY <1>6, <1>12, <2>2, <3>1 DEF IsLog, trxVars
 <2>4. ASSUME NEW i \in DOMAIN history
       PROVE  Numbered(history[i])' <=> Numbered(history[i])
   BY <1>6, <1>7 DEF Numbered, trxVars
 <2> QED BY <1>1, <1>6, <1>7, <2>1, <2>3, <2>4 DEF HistoryIsRight, trxVars
<1>13. CASE purge_sys' = [p EXCEPT !.state = "TRUNCATE"] /\ UNCHANGED <<task, rseg_last>>
 <2>1. PICK q : q = purge_sys' OBVIOUS
 <2>2. q \in PurgeSys /\ q.un = p.un /\ q.undo_no = p.undo_no /\ q.log = p.log
       /\ q.trx_no = p.trx_no /\ q.next_stored = p.next_stored
   BY <1>5, <1>13, <2>1 DEF PurgeSys
 <2>3. PositionIsRight(q) BY <1>5, <2>2 DEF PositionIsRight
 <2>4. PurgeTypes' BY <1>1, <1>11, <1>13, <2>1, <2>2 DEF Types, PurgeTypes, PurgeSys
 <2>5. HistoryTypes' /\ HistoryIsRight' BY <1>2, <1>3, <1>12, <1>13
 <2>6. task' = NoTask BY <1>6, <1>13
 <2> QED BY <1>2, <1>6, <1>9, <1>10, <2>1, <2>3, <2>4, <2>5, <2>6, PurgeKeeps
<1>14. CASE /\ p.next_stored /\ p.trx_no < purge_view.low_limit_no
            /\ task' = [log |-> p.log, un |-> p.un]
            /\ rseg_last' = IF p.un # 0 /\ NextRecs(p.log, p.un) # {} THEN rseg_last
                            ELSE LogAfter(p.log)
            /\ purge_sys' = AfterFetch([p EXCEPT !.handled = TRUE])
 <2>1. PICK t \in Trxs : t = p.log /\ IsLog(t) /\ p.trx_no = trx_no[t] /\ p.un \in 0 .. Len(undo[t])
   BY <1>5, <1>14 DEF PositionIsRight, IsLog
 <2>2. SeenByAll(t)
  <3>1. t \in Started BY <2>1 DEF IsLog, Started
  <3> QED BY <1>9, <1>14, <2>1, <3>1 DEF LimitsAreRight
 <2>3. PICK k : k = [log |-> t, un |-> p.un] OBVIOUS
 <2>4. k.log = t /\ k.un = p.un /\ task' = k /\ k \in [log : Trxs \cup {NoTrx}, un : 0 .. MaxOps]
   BY <1>5, <1>14, <2>1, <2>3 DEF PositionIsRight
 <2>5. PICK last : last = IF p.un # 0 /\ NextRecs(t, p.un) # {} THEN rseg_last ELSE LogAfter(t)
   OBVIOUS
 <2>6. PICK after : after = LogAfter(t) OBVIOUS
 <2>7. /\ last \in Trxs \cup {NoTrx} /\ (last # NoTrx => IsLog(last))
       /\ rseg_last' = last
   BY <1>2, <1>3, <1>14, <2>1, <2>5, <2>6, LogAfterIsLog
 <2>8. HistoryTypes' /\ HistoryIsRight' BY <1>12, <2>7
 <2>9. PICK h : h = [p EXCEPT !.handled = TRUE] OBVIOUS
 <2>10. h \in PurgeSys /\ h.un = p.un /\ h.undo_no = p.undo_no /\ h.log = t
        /\ h.trx_no = p.trx_no /\ h.next_stored = p.next_stored /\ h.state = "ON"
   BY <1>5, <1>6, <2>1, <2>9 DEF PurgeSys
 <2>11. PICK q : q = AfterFetch(h) /\ q = purge_sys' BY <1>14, <2>9
 <2>12. q \in PurgeSys /\ PositionIsRight(q) /\ q.state = "ON"
  <3>1. CASE p.un # 0 /\ NextRecs(t, p.un) # {}
   <4>1. undo[t] \in Seq(UndoRec) /\ Len(undo[t]) \in Nat
    <5>1. undo[t] \in Seq(UndoRec) BY <1>1 DEF Types, RowTypes
    <5> QED BY <5>1
   <4>2. NextRecs(t, p.un) \in SUBSET Nat /\ NextRecs(t, p.un) \subseteq 1 .. Len(undo[t])
     BY <2>1, <4>1 DEF NextRecs
   <4>3. PICK m : m = Min(NextRecs(t, p.un)) OBVIOUS
   <4>4. m \in 1 .. Len(undo[t]) BY <3>1, <4>2, <4>3, MinIsLeast
   <4>5. Len(undo[t]) <= ops[t] /\ ops[t] \in 0 .. MaxOps
     BY <1>1 DEF IInv, UndosAreRight, Types, RowTypes
   <4>6. m \in 0 .. MaxOps /\ m \in Nat BY <4>1, <4>4, <4>5, MvccAssumption
   <4>7. q = [h EXCEPT !.un = m, !.undo_no = m] BY <2>10, <2>11, <3>1, <4>3 DEF AfterFetch
   <4>8. q \in PurgeSys /\ q.un = m /\ q.undo_no = m /\ q.log = t /\ q.trx_no = p.trx_no
         /\ q.state = "ON"
     BY <2>10, <4>6, <4>7 DEF PurgeSys
   <4> QED BY <2>1, <4>1, <4>4, <4>6, <4>8 DEF PositionIsRight, IsLog
  <3>2. CASE ~ (p.un # 0 /\ NextRecs(t, p.un) # {})
   <4>1. PICK x \in Nat : x = trx_no[t] + 1 BY <1>1 DEF Types, TrxTypes
   <4>2. PICK g : g = [h EXCEPT !.trx_no = x, !.undo_no = 0] OBVIOUS
   <4>3. g \in PurgeSys /\ g.un = p.un /\ g.undo_no = 0 /\ g.state = "ON"
     BY <2>10, <4>2 DEF PurgeSys
   <4>4. g.un \in 0 .. MaxOps /\ g.undo_no \in 0 .. MaxOps
     BY <1>5, <4>3, MvccAssumption DEF PositionIsRight
   <4>5. q = ChooseLog(g, last) BY <2>7, <2>10, <2>11, <3>2, <4>1, <4>2 DEF AfterFetch
   <4> QED BY <2>7, <4>3, <4>4, <4>5, ChosenLogIsRight
  <3> QED BY <3>1, <3>2
 <2>13. PurgeTypes' BY <1>11, <2>4, <2>11, <2>12 DEF PurgeTypes, PurgeSys
 <2> QED BY <1>2, <1>6, <1>9, <1>10, <2>1, <2>2, <2>4, <2>8, <2>11, <2>12, <2>13, PurgeKeeps
<1> QED BY <1>6, <1>13, <1>14

-----------------------------------------------------------------------------
(* Truncation of the history list *)

\* TruncateHistory keeps the invariant: it only takes what all views see.
LEMMA TruncateKeeps ==
    ASSUME IInv, TruncateHistory
    PROVE  IInv'
<1>1. Types /\ PurgeIsRight /\ GoneIsRight /\ HistoryIsRight /\ PurgeViewIsRight BY DEF IInv
<1>2. PICK below : below = Min({purge_sys.trx_no, purge_view.low_limit_no}) OBVIOUS
<1>3. PICK within : within = IF purge_sys.trx_no < purge_view.low_limit_no
                             THEN purge_sys.undo_no ELSE 0
  OBVIOUS
<1>4. /\ UNCHANGED <<trxVars, rows, logVars, view_list, purge_view, task, rseg_mutex, rseg_last>>
      /\ purge_sys.state = "TRUNCATE"
      /\ \/ /\ history # <<>> /\ trx_no[history[1]] < below
            /\ gone' = [gone EXCEPT ![history[1]] = Len(undo[history[1]])]
            /\ history' = Tail(history) /\ UNCHANGED purge_sys
         \/ /\ \/ UNCHANGED gone
               \/ /\ history # <<>> /\ trx_no[history[1]] = below
                  /\ \E n \in gone[history[1]] .. (within - 1) :
                        gone' = [gone EXCEPT ![history[1]] = n]
            /\ purge_sys' = [purge_sys EXCEPT !.state = "STOP"]
            /\ UNCHANGED history
  BY <1>2, <1>3 DEF TruncateHistory
<1>5. /\ purge_sys.trx_no \in Nat /\ purge_view.low_limit_no \in Nat
      /\ purge_sys.undo_no \in 0 .. MaxOps /\ purge_view \in View
      /\ history \in Seq(Trxs) /\ purge_sys \in PurgeSys
  BY <1>1 DEF Types, PurgeTypes, ViewTypes, View, HistoryTypes, PurgeSys, PurgeIsRight,
     PositionIsRight
<1>6. below \in Nat /\ below <= purge_sys.trx_no /\ below <= purge_view.low_limit_no
      /\ below \in {purge_sys.trx_no, purge_view.low_limit_no}
  BY <1>2, <1>5, MinIsLeast
<1>7. UNCHANGED <<undo, logs>> BY <1>4 DEF logVars
<1>8. NobodyEnds BY <1>4, <1>7 DEF NobodyEnds, Numbered, trxVars
<1>9. LimitsAreRight(purge_view) /\ \A t \in Started : Knows(purge_view, t) => SeenByAll(t)
  BY <1>1 DEF PurgeViewIsRight
<1>10. task' = NoTask BY <1>1, <1>4 DEF PurgeIsRight
<1>11. ASSUME history # <<>>
       PROVE  /\ history[1] \in Trxs /\ 1 \in DOMAIN history /\ history[1] \in Started
              /\ trx_no[history[1]] < purge_view.low_limit_no => SeenByAll(history[1])
 <2>1. 1 \in DOMAIN history /\ history[1] \in Trxs BY <1>5, <1>11
 <2>2. history[1] \in Started BY <1>1, <2>1 DEF HistoryIsRight, Started
 <2> QED BY <1>9, <2>1, <2>2 DEF LimitsAreRight
<1>12. PICK p : p = purge_sys' OBVIOUS
<1>13. p \in PurgeSys /\ p.un = purge_sys.un /\ p.undo_no = purge_sys.undo_no
       /\ p.log = purge_sys.log /\ p.trx_no = purge_sys.trx_no /\ p.next_stored = purge_sys.next_stored
  BY <1>4, <1>5, <1>12 DEF PurgeSys
<1>14. PositionIsRight(p) BY <1>1, <1>13 DEF PurgeIsRight, PositionIsRight
<1>15. gone \in [Trxs -> 0 .. MaxOps] BY <1>1 DEF Types, PurgeTypes
<1>16. ASSUME gone' \in [Trxs -> 0 .. MaxOps]
       PROVE  PurgeTypes'
  BY <1>1, <1>12, <1>13, <1>16, <1>4 DEF Types, PurgeTypes, PurgeSys
<1>17. CASE /\ history # <<>> /\ trx_no[history[1]] < below
            /\ gone' = [gone EXCEPT ![history[1]] = Len(undo[history[1]])]
            /\ history' = Tail(history)
 <2>1. PICK t \in Trxs : t = history[1] /\ SeenByAll(t)
  <3>1. trx_no[history[1]] \in Nat BY <1>1, <1>11, <1>17 DEF Types, TrxTypes
  <3> QED BY <1>5, <1>6, <1>11, <1>17, <3>1
 <2>2. Len(undo[t]) \in 0 .. MaxOps
  <3>1. undo[t] \in Seq(UndoRec) BY <1>1 DEF Types, RowTypes
  <3>2. Len(undo[t]) \in Nat BY <3>1
  <3>3. Len(undo[t]) <= ops[t] /\ ops[t] \in 0 .. MaxOps
    BY <1>1 DEF IInv, UndosAreRight, Types, RowTypes
  <3> QED BY <3>2, <3>3, MvccAssumption
 <2>3. gone' = [gone EXCEPT ![t] = Len(undo[t])] BY <1>17, <2>1
 <2>4. PurgeTypes' /\ \A u \in Trxs : gone'[u] > 0 => SeenByAll(u)
   BY <1>1, <1>15, <1>16, <2>1, <2>2, <2>3 DEF GoneIsRight
 <2>5. /\ history' \in Seq(Trxs) /\ Len(history') = Len(history) - 1 /\ Len(history) \in Nat
       /\ \A i \in 1 .. Len(history) - 1 : history'[i] = history[i + 1]
   BY <1>5, <1>17
 <2>6. HistoryTypes' BY <1>1, <1>4, <2>5 DEF Types, HistoryTypes
 <2>7. DOMAIN history = 1 .. Len(history) /\ DOMAIN history' = 1 .. Len(history) - 1 BY <1>5, <2>5
 <2>8. ASSUME NEW i \in DOMAIN history'
       PROVE  /\ pc'[history'[i]] \in {"IN_HISTORY", "DONE"} /\ Numbered(history[i])'
              /\ i + 1 \in DOMAIN history /\ history'[i] = history[i + 1]
  <3>1. i + 1 \in DOMAIN history /\ history'[i] = history[i + 1] BY <2>5, <2>7
  <3>2. PICK h \in Trxs : h = history[i + 1] /\ pc[h] \in {"IN_HISTORY", "DONE"} /\ Numbered(h)
    BY <1>1, <1>5, <3>1 DEF HistoryIsRight
  <3>3. Numbered(h)' /\ pc' = pc BY <1>8, <3>2 DEF NobodyEnds, trxVars
  <3> QED BY <3>1, <3>2, <3>3
 <2>9. ASSUME NEW i \in DOMAIN history', NEW j \in DOMAIN history', i < j
       PROVE  trx_no'[history'[i]] < trx_no'[history'[j]]
  <3>1. i + 1 \in DOMAIN history /\ j + 1 \in DOMAIN history /\ i + 1 < j + 1 BY <2>5, <2>7, <2>9
  <3>2. trx_no[history[i + 1]] < trx_no[history[j + 1]] BY <1>1, <3>1 DEF HistoryIsRight
  <3> QED BY <1>4, <2>8, <3>2 DEF trxVars
 <2>10. \A u \in Trxs, i \in DOMAIN history' : pc'[u] = "NUMBERED" => trx_no'[history'[i]] < trx_no'[u]
   BY <1>1, <1>4, <2>8 DEF HistoryIsRight, trxVars
 <2>11. rseg_last # NoTrx => (Numbered(rseg_last)' <=> Numbered(rseg_last)) /\ pc' = pc
   BY <1>4, <1>7 DEF Numbered, trxVars
 <2>12. HistoryIsRight' BY <1>1, <1>4, <1>7, <2>8, <2>9, <2>10, <2>11 DEF HistoryIsRight, trxVars
 <2> QED BY <1>4, <1>5, <1>9, <1>10, <1>12, <1>14, <2>4, <2>6, <2>12, PurgeKeeps
<1>18. CASE /\ \/ UNCHANGED gone
               \/ /\ history # <<>> /\ trx_no[history[1]] = below
                  /\ \E n \in gone[history[1]] .. (within - 1) :
                        gone' = [gone EXCEPT ![history[1]] = n]
            /\ UNCHANGED history
 <2>1. gone' \in [Trxs -> 0 .. MaxOps] /\ \A u \in Trxs : gone'[u] > 0 => SeenByAll(u)
  <3>1. CASE UNCHANGED gone BY <1>1, <1>15, <3>1 DEF GoneIsRight
  <3>2. CASE /\ history # <<>> /\ trx_no[history[1]] = below
             /\ \E n \in gone[history[1]] .. (within - 1) :
                   gone' = [gone EXCEPT ![history[1]] = n]
   <4>1. PICK t \in Trxs : t = history[1] BY <1>11, <3>2
   <4>2. gone[t] \in 0 .. MaxOps BY <1>15
   <4>3. PICK n \in gone[t] .. (within - 1) : gone' = [gone EXCEPT ![t] = n] BY <3>2, <4>1
   <4>4. within \in 0 .. MaxOps BY <1>3, <1>5, MvccAssumption
   <4>5. n \in 0 .. MaxOps /\ within > 0 BY <4>2, <4>3, <4>4, MvccAssumption
   <4>6. purge_sys.trx_no < purge_view.low_limit_no BY <1>3, <4>5
   <4>7. trx_no[t] < purge_view.low_limit_no BY <1>5, <1>6, <3>2, <4>1, <4>6
   <4>8. SeenByAll(t) BY <1>11, <3>2, <4>1, <4>7
   <4> QED BY <1>1, <1>15, <4>3, <4>5, <4>8 DEF GoneIsRight
  <3> QED BY <1>18, <3>1, <3>2
 <2>2. PurgeTypes' BY <1>16, <2>1
 <2>3. UNCHANGED commitVars BY <1>4, <1>18 DEF commitVars
 <2>4. HistoryTypes' /\ HistoryIsRight'
   BY <1>1, <1>8, <2>3, HistoryKept DEF Types, HistoryTypes, commitVars
 <2> QED BY <1>4, <1>5, <1>9, <1>10, <1>12, <1>14, <2>1, <2>2, <2>4, PurgeKeeps
<1> QED BY <1>4, <1>17, <1>18

-----------------------------------------------------------------------------
(* The invariant holds *)

\* The invariant holds in the beginning.
LEMMA InitIsRight ==
    ASSUME Init
    PROVE  IInv
<1>1. IsFiniteSet(Trxs) /\ Cardinality(Trxs) \in Nat /\ NoTrx \notin Trxs /\ NoRow \notin Keys
  BY MvccAssumption, FS_CardinalityType
<1>2. Infinity \in Nat \ {0} /\ Infinity > 1 BY <1>1 DEF Infinity
<1>3. \A t \in Trxs : /\ pc[t] = "NEW" /\ trx_id[t] = Infinity /\ trx_no[t] = Infinity
                      /\ undo[t] = <<>> /\ logs[t] = {} /\ held[t] = {}
                      /\ rolling[t] = NoRoll /\ ops[t] = 0 /\ gone[t] = 0
  BY DEF Init
<1>4. Original \in Version BY MvccAssumption DEF Original, Version
<1>5. Types
 <2>1. TrxTypes /\ HistoryTypes BY <1>1, <1>2 DEF Init, TrxTypes, HistoryTypes
 <2>2. ViewTypes /\ PurgeTypes
   BY <1>1, MvccAssumption DEF Init, ViewTypes, PurgeTypes, View, NoTask
 <2>3. NoRoll \in [limit : 0 .. MaxOps, next : 0 .. MaxOps, remove : Keys \cup {NoRow}, on : BOOLEAN]
   BY MvccAssumption DEF NoRoll
 <2>4. rows \in [Keys -> Version \cup {NoRow}] BY <1>4 DEF Init
 <2>5. undo \in [Trxs -> Seq(UndoRec)] BY DEF Init
 <2>6. RowTypes BY <2>3, <2>4, <2>5, MvccAssumption DEF Init, RowTypes
 <2> QED BY <2>1, <2>2, <2>6 DEF Types
<1>6. Started = {} /\ NumberedTrxs = {} /\ \A t \in Trxs : ~ Numbered(t) /\ ~ Active(t)
  BY <1>3 DEF Started, NumberedTrxs, Numbered, Active
<1>7. IdsAreRight
 <2>1. Cardinality(Started) = 0 /\ Cardinality(NumberedTrxs) = 0 BY <1>6, FS_EmptySet
 <2> QED BY <1>3, <1>6, <2>1 DEF Init, IdsAreRight
<1>8. HistoryIsRight BY <1>1, <1>3 DEF Init, HistoryIsRight
<1>9. ViewsAreRight /\ GoneIsRight BY <1>3 DEF Init, ViewsAreRight, GoneIsRight
<1>10. PurgeViewIsRight
 <2>1. /\ purge_view.trx_ids = {} /\ purge_view.up_limit_id = 1
       /\ purge_view.low_limit_id = 1 /\ purge_view.low_limit_no = 1 /\ max_trx_id = 1
   BY DEF Init
 <2>2. {} \cup {1} \in SUBSET Nat /\ {} \cup {1} # {} OBVIOUS
 <2>3. Min({} \cup {1}) \in {} \cup {1} BY <2>2, MinIsLeast
 <2>4. Min({} \cup {1}) = 1 BY <2>3
 <2> QED BY <1>6, <2>1, <2>4 DEF PurgeViewIsRight, LimitsAreRight
<1>11. PurgeIsRight BY MvccAssumption DEF Init, PurgeIsRight, PositionIsRight, NoTask
<1>12. UndosAreRight BY <1>3 DEF UndosAreRight
<1>13. ASSUME NEW t \in Trxs
       PROVE  RollingIsRight(t)
 <2>1. ~ NoRoll.on /\ NoRoll.next = 0 /\ NoRoll.remove = NoRow BY DEF NoRoll
 <2>2. rolling[t] = NoRoll /\ 0 \in 0 .. Len(undo[t]) BY <1>3
 <2> QED BY <2>1, <2>2 DEF RollingIsRight
<1>14. ASSUME NEW k \in Keys
       PROVE  RowIsRight(k) /\ ChainIsRight(k)
 <2>1. rows[k] \in {Original, NoRow} /\ ~ Real(rows[k]) BY DEF Init, Real, Original
 <2>2. RowIsRight(k) BY <1>6, <2>1 DEF RowIsRight, IsVersion, Own
 <2> DEFINE c == <<rows[k]>>
 <2>3. c \in Seq(Version \cup {NoRow}) /\ Len(c) = 1 /\ c[1] = rows[k] /\ DOMAIN c = {1}
   BY <1>4, <2>1
 <2> HIDE DEF c
 <2>4. IsChain(c, k) BY <2>1, <2>2, <2>3 DEF IsChain, RowIsRight
 <2>5. \A i \in DOMAIN view_list : Reads(view_list[i], c, k) BY DEF Init
 <2> QED BY <2>2, <2>3, <2>4, <2>5 DEF ChainIsRight
<1> QED BY <1>5, <1>7, <1>8, <1>9, <1>10, <1>11, <1>12, <1>13, <1>14 DEF IInv

\* Steps that change nothing keep it.
LEMMA StutterKeeps ==
    ASSUME IInv, UNCHANGED vars
    PROVE  IInv'
<1>1. UNCHANGED <<trxVars, rows, undo, logs, held, rolling, ops, view_list, purgeVars, commitVars>>
  BY DEF vars, trxVars, purgeVars, commitVars
<1>2. Types /\ HistoryIsRight /\ PurgeViewIsRight /\ GoneIsRight /\ PurgeIsRight BY DEF IInv
<1>3. NobodyEnds BY <1>1 DEF NobodyEnds, Numbered, trxVars
<1>4. HistoryIsRight' BY <1>1, <1>2, <1>3, HistoryKept
<1>5. PurgeTypes' /\ HistoryTypes'
  BY <1>1, <1>2 DEF Types, PurgeTypes, HistoryTypes, purgeVars, commitVars
<1>6. PICK v \in View : v = purge_view BY <1>2 DEF Types, ViewTypes
<1>7. PICK p : p = purge_sys OBVIOUS
<1>8. PICK k : k = task OBVIOUS
<1>9. /\ UNCHANGED <<trxVars, rows, logVars, view_list>>
      /\ purge_view' = v /\ purge_sys' = p /\ task' = k /\ gone' = gone
  BY <1>1, <1>6, <1>7, <1>8 DEF logVars, purgeVars
<1>10. LimitsAreRight(v) /\ \A t \in Started : Knows(v, t) => SeenByAll(t)
  BY <1>2, <1>6 DEF PurgeViewIsRight
<1>11. PositionIsRight(p) /\ (k # NoTask => /\ p.state = "ON" /\ k.log \in Trxs /\ SeenByAll(k.log)
                                            /\ k.un \in 0 .. Len(undo[k.log]))
  BY <1>2, <1>7, <1>8 DEF PurgeIsRight
<1>12. \A t \in Trxs : gone'[t] > 0 => SeenByAll(t) BY <1>2, <1>9 DEF GoneIsRight
<1> QED BY <1>4, <1>5, <1>9, <1>10, <1>11, <1>12, PurgeKeeps

\* Every step keeps it.
LEMMA NextKeeps ==
    ASSUME IInv, [Next]_vars
    PROVE  IInv'
<1>1. ASSUME NEW t \in Trxs, NEW k \in Keys,
             Insert(t, k) \/ InsertByModify(t, k) \/ Update(t, k) \/ DelMark(t, k)
      PROVE  IInv'
 <2>1. CASE Insert(t, k) BY <2>1, ChangeKeeps DEF Insert, ChangeTypes, Fits
 <2>2. CASE InsertByModify(t, k) BY <2>2, ChangeKeeps DEF InsertByModify, ChangeTypes, Fits
 <2>3. CASE Update(t, k) BY <2>3, ChangeKeeps DEF Update, ChangeTypes, Fits
 <2>4. CASE DelMark(t, k) BY <2>4, ChangeKeeps DEF DelMark, ChangeTypes, Fits
 <2> QED BY <1>1, <2>1, <2>2, <2>3, <2>4
<1>2. ASSUME NEW t \in Trxs, AssignReadView(t) \/ CreateCursorView(t)
      PROVE  IInv'
 <2>1. CASE AssignReadView(t)
  <3>1. Hidden(t, "NORMAL") = ActiveTrxs \ {t} /\ "NORMAL" \in ViewKinds BY DEF Hidden, ViewKinds
  <3> QED BY <2>1, <3>1, OpeningKeeps DEF AssignReadView, Opened
 <2>2. CASE CreateCursorView(t)
  <3>1. Hidden(t, "HIGH_GRANULARITY") = ActiveTrxs /\ "HIGH_GRANULARITY" \in ViewKinds
    BY DEF Hidden, ViewKinds
  <3> QED BY <2>2, <3>1, OpeningKeeps DEF CreateCursorView, Opened
 <2> QED BY <1>2, <2>1, <2>2
<1>3. ASSUME NEW t \in Trxs, Session(t)
      PROVE  IInv'
  BY <1>1, <1>2, <1>3, CloseViewKeeps, BeginRollbackKeeps DEF Session, ViewKinds
<1>4. ASSUME NEW t \in Trxs, Proceed(t)
      PROVE  IInv'
  BY <1>4, UndoKeeps, RemoveUndoneKeeps, EndRollbackKeeps, AddToHistoryKeeps, CommitKeeps DEF
     Proceed
<1>5. ASSUME Purge
      PROVE  IInv'
  BY <1>5, StartBatchKeeps, FetchKeeps, RowPurgeKeeps, TruncateKeeps DEF Purge
<1> QED
  BY <1>3, <1>4, <1>5, StartKeeps, AssignNoKeeps, CommitKeeps, StutterKeeps DEF Next, Terminated

\* The invariant of the specification: ids and numbers are drawn from one counter; the history list
\* is in the order of the numbers; views see what older ones see; purge sees no more than the oldest
\* view; and every record has a chain of versions in which every open view finds what was committed
\* when it was opened, no undo record of it being lost too early.
THEOREM InductiveInvariant == Spec => []IInv
<1>1. Init => IInv BY InitIsRight
<1>2. IInv /\ [Next]_vars => IInv' BY NextKeeps
<1> QED BY <1>1, <1>2, PTL DEF Spec

\* Every variable has its type, the counter stays below ut_dulint_max, and only an active transaction
\* owns a view (trx_commit_off_kernel closes them).
THEOREM TypeCorrect == Spec => []TypeOK
<1>1. IInv => TypeOK
 <2> SUFFICES ASSUME IInv  PROVE TypeOK OBVIOUS
 <2>1. Types /\ IdsAreRight /\ ViewsAreRight BY DEF IInv
 <2>2. Infinity \in Nat /\ max_trx_id < Infinity /\ max_trx_id \in Nat \ {0}
   BY <2>1, CounterIsSmall DEF Types, TrxTypes
 <2>3. max_trx_id \in 1 .. (Infinity - 1) BY <2>2
 <2>4. ASSUME NEW t \in Trxs
       PROVE  trx_id[t] \in 1 .. Infinity /\ trx_no[t] \in 1 .. Infinity
  <3>1. trx_id[t] \in Nat \ {0} /\ trx_no[t] \in Nat \ {0} BY <2>1 DEF Types, TrxTypes
  <3>2. trx_id[t] < max_trx_id \/ trx_id[t] = Infinity BY <2>1 DEF IdsAreRight
  <3>3. trx_no[t] < max_trx_id \/ trx_no[t] = Infinity BY <2>1 DEF IdsAreRight
  <3> QED BY <2>2, <3>1, <3>2, <3>3
 <2>5. trx_id \in [Trxs -> 1 .. Infinity] /\ trx_no \in [Trxs -> 1 .. Infinity]
   BY <2>1, <2>4 DEF Types, TrxTypes
 <2>6. \A i \in DOMAIN view_list : Active(view_list[i].creator)
   BY <2>1 DEF ViewsAreRight, ViewIsRight
 <2>7. /\ rows \in [Keys -> Version \cup {NoRow}] /\ undo \in [Trxs -> Seq(UndoRec)]
       /\ held \in [Trxs -> SUBSET Keys] /\ ops \in [Trxs -> 0 .. MaxOps]
       /\ rolling \in [Trxs -> [limit : 0 .. MaxOps, next : 0 .. MaxOps,
                                remove : Keys \cup {NoRow}, on : BOOLEAN]]
   BY <2>1 DEF Types, RowTypes
 <2>8. /\ pc \in [Trxs -> {"NEW", "RUN", "NUMBERED", "IN_HISTORY", "DONE"}]
       /\ logs \in [Trxs -> SUBSET {"INSERT", "UPDATE", "DEL_MARKS"}]
       /\ HistoryTypes /\ purge_view \in View /\ PurgeTypes
   BY <2>1 DEF Types, TrxTypes, ViewTypes
 <2> QED BY <2>3, <2>5, <2>6, <2>7, <2>8 DEF TypeOK, HistoryTypes, PurgeTypes
<1> QED BY <1>1, InductiveInvariant, PTL

-----------------------------------------------------------------------------
(* Who builds on the version of another has the greater number *)

BuiltLater ==
    \A t \in Trxs : Numbered(t) =>
        \A n \in DOMAIN undo[t] :
            LET old == undo[t][n].old
            IN  Real(old) /\ old.by # t /\ Numbered(old.by) => trx_no[old.by] < trx_no[t]

\* What a transaction has that draws a number, or has one.
NumbersStay ==
    \A t \in Trxs : Numbered(t)' =>
        /\ undo'[t] = undo[t]
        /\ trx_no'[t] = max_trx_id \/ (Numbered(t) /\ trx_no'[t] = trx_no[t])

\* Steps of a running transaction change neither numbers nor the undo logs of others.
LEMMA UnnumberedStep ==
    ASSUME IInv, NEW t \in Trxs, UNCHANGED trxVars, ~ Numbered(t), ~ Numbered(t)', pc[t] = "RUN",
           \A u \in Trxs \ {t} : undo'[u] = undo[u] /\ logs'[u] = logs[u]
    PROVE  Settled /\ NumbersStay
<1>1. \A u \in Trxs \ {t} : (Numbered(u)' <=> Numbered(u)) /\ undo'[u] = undo[u]
                            /\ trx_no'[u] = trx_no[u] /\ pc'[u] = pc[u]
  BY DEF Numbered, trxVars
<1> QED BY <1>1 DEF Settled, NumbersStay

\* Neither do steps that leave transactions and undo logs alone.
LEMMA QuietStep ==
    ASSUME UNCHANGED <<trxVars, undo, logs>>
    PROVE  Settled /\ NumbersStay
<1>1. \A u \in Trxs : (Numbered(u)' <=> Numbered(u)) /\ undo'[u] = undo[u]
                      /\ trx_no'[u] = trx_no[u] /\ pc'[u] = pc[u]
  BY DEF Numbered, trxVars
<1> QED BY <1>1 DEF Settled, NumbersStay

\* No step does, but for the one that draws a number.
LEMMA NumbersAreKept ==
    ASSUME IInv, [Next]_vars
    PROVE  Settled /\ NumbersStay
<1>1. Types /\ HistoryIsRight BY DEF IInv
<1>2. ASSUME NEW t \in Trxs, NEW k \in Keys, NEW type, Change(t, k, type)
      PROVE  Settled /\ NumbersStay
 <2>1. pc[t] = "RUN" /\ UNCHANGED trxVars BY <1>2 DEF Change, Runs
 <2>2. \A u \in Trxs \ {t} : undo'[u] = undo[u] /\ logs'[u] = logs[u]
   BY <1>1, <1>2 DEF Change, Types, TrxTypes, RowTypes
 <2>3. ~ Numbered(t) /\ ~ Numbered(t)' BY <2>1 DEF Numbered, trxVars
 <2> QED BY <2>1, <2>2, <2>3, UnnumberedStep
<1>3. ASSUME NEW t \in Trxs, Session(t)
      PROVE  Settled /\ NumbersStay
 <2>1. (\E k \in Keys : Insert(t, k) \/ InsertByModify(t, k) \/ Update(t, k) \/ DelMark(t, k))
           => Settled /\ NumbersStay
   BY <1>2 DEF Insert, InsertByModify, Update, DelMark
 <2>2. AssignReadView(t) \/ CreateCursorView(t)
           \/ (\E type \in {"NORMAL", "HIGH_GRANULARITY"} : CloseView(t, type))
           \/ (\E limit \in 0 .. MaxOps : Rollback(t, limit))
       => UNCHANGED <<trxVars, undo, logs>>
   BY DEF AssignReadView, CreateCursorView, CloseView, Rollback, logVars
 <2> QED BY <1>3, <2>1, <2>2, QuietStep DEF Session
<1>4. ASSUME NEW t \in Trxs, UndoRecord(t)
      PROVE  Settled /\ NumbersStay
 <2>1. pc[t] = "RUN" /\ UNCHANGED trxVars /\ UNCHANGED logs BY Zenon, <1>4, Undoing DEF UndoRecord
 <2>2. \A u \in Trxs \ {t} : undo'[u] = undo[u] BY <1>4, UndoneUndo
 <2>3. ~ Numbered(t) /\ ~ Numbered(t)' BY <2>1 DEF Numbered, trxVars
 <2> QED BY <2>1, <2>2, <2>3, UnnumberedStep
<1>5. ASSUME NEW t \in Trxs, RemoveUndone(t) \/ EndRollback(t)
      PROVE  Settled /\ NumbersStay
 <2>1. UNCHANGED <<trxVars, undo, logs>> BY <1>5 DEF RemoveUndone, EndRollback
 <2> QED BY <2>1, QuietStep
<1>6. ASSUME NEW t \in Trxs, Start(t)
      PROVE  Settled /\ NumbersStay
 <2>1. pc[t] = "NEW" /\ pc'[t] = "RUN" /\ UNCHANGED <<trx_no, undo, logs>>
       /\ \A u \in Trxs \ {t} : pc'[u] = pc[u]
   BY <1>1, <1>6 DEF Start, logVars, Types, TrxTypes
 <2>2. \A u \in Trxs : Numbered(u)' <=> Numbered(u) BY <2>1 DEF Numbered
 <2> QED BY <2>1, <2>2 DEF Settled, NumbersStay
<1>7. ASSUME NEW t \in Trxs, AssignNo(t)
      PROVE  Settled /\ NumbersStay
 <2>1. pc[t] = "RUN" /\ pc'[t] = "NUMBERED" /\ UNCHANGED <<undo, logs>> /\ trx_no'[t] = max_trx_id
       /\ \A u \in Trxs \ {t} : pc'[u] = pc[u] /\ trx_no'[u] = trx_no[u]
   BY <1>1, <1>7 DEF AssignNo, Runs, logVars, Types, TrxTypes
 <2>2. \A u \in Trxs \ {t} : Numbered(u)' <=> Numbered(u) BY <2>1 DEF Numbered
 <2> QED BY <2>1, <2>2 DEF Settled, NumbersStay
<1>8. ASSUME NEW t \in Trxs, AddToHistory(t)
      PROVE  Settled /\ NumbersStay
 <2>1. pc[t] = "NUMBERED" /\ pc'[t] = "IN_HISTORY" /\ UNCHANGED <<trx_no, undo, logs>>
       /\ \A u \in Trxs \ {t} : pc'[u] = pc[u]
   BY <1>1, <1>8 DEF AddToHistory, logVars, Types, TrxTypes
 <2>2. \A u \in Trxs : Numbered(u)' <=> Numbered(u) BY <2>1 DEF Numbered
 <2> QED BY <2>1, <2>2 DEF Settled, NumbersStay
<1>9. ASSUME NEW t \in Trxs, CommitInMemory(t)
      PROVE  Settled /\ NumbersStay
 <2>1. /\ pc[t] = "IN_HISTORY" \/ (pc[t] = "RUN" /\ "UPDATE" \notin logs[t])
       /\ pc'[t] = "DONE" /\ UNCHANGED <<trx_no, undo, logs>>
       /\ \A u \in Trxs \ {t} : pc'[u] = pc[u]
   BY <1>1, <1>9 DEF CommitInMemory, Runs, Types, TrxTypes
 <2>2. \A u \in Trxs : Numbered(u)' <=> Numbered(u) BY <1>1, <2>1 DEF Numbered, HistoryIsRight
 <2> QED BY <2>1, <2>2 DEF Settled, NumbersStay
<1>10. Purge \/ UNCHANGED vars => UNCHANGED <<trxVars, undo, logs>>
  BY DEF Purge, StartBatch, FetchNextRec, RowPurge, TruncateHistory, logVars, vars, trxVars
<1> QED BY <1>3, <1>4, <1>5, <1>6, <1>7, <1>8, <1>9, <1>10, QuietStep DEF Next, Proceed, Terminated

\* A transaction that draws its number has built on the versions of ended ones, whose numbers are smaller.
LEMMA BuiltLaterKept ==
    ASSUME IInv, BuiltLater, [Next]_vars
    PROVE  BuiltLater'
<1>1. Settled /\ NumbersStay BY NumbersAreKept
<1>2. Types /\ IdsAreRight /\ UndosAreRight BY DEF IInv
<1> SUFFICES ASSUME NEW t \in Trxs, Numbered(t)', NEW n \in DOMAIN undo'[t],
                    Real(undo[t][n].old)', undo'[t][n].old.by # t, Numbered(undo[t][n].old.by)'
             PROVE  trx_no'[undo'[t][n].old.by] < trx_no'[t]
  BY DEF BuiltLater
<1>3. undo'[t] = undo[t] /\ (trx_no'[t] = max_trx_id \/ (Numbered(t) /\ trx_no'[t] = trx_no[t]))
  BY <1>1 DEF NumbersStay
<1>4. PICK old : old = undo[t][n].old /\ n \in DOMAIN undo[t] BY <1>3
<1>5. Real(old) /\ old.by # t /\ UndoIsRight(t, n) BY <1>2, <1>3, <1>4 DEF Real, UndosAreRight
<1>6. old.by \in Trxs /\ pc[old.by] = "DONE"
  BY Zenon, <1>4, <1>5 DEF UndoIsRight, Own, Real, IsVersion, Started
<1>7. /\ Numbered(old.by)' <=> Numbered(old.by)
      /\ trx_no'[old.by] = trx_no[old.by]
  BY <1>1, <1>6 DEF Settled
<1>8. Numbered(old.by) BY <1>3, <1>4, <1>7 DEF Numbered
<1>9. trx_no[old.by] < max_trx_id BY <1>2, <1>6, <1>8 DEF IdsAreRight
<1>10. Numbered(t) => trx_no[old.by] < trx_no[t] BY <1>4, <1>5, <1>8 DEF BuiltLater
<1> QED BY <1>3, <1>4, <1>7, <1>9, <1>10

\* Ids, by which views see, numbers, by which purge goes, and the places in the history list agree
\* (trx_purge_get_next_rec, read_view_open_now, trx_sys_get_new_trx_no).
THEOREM OrdersKept == Spec => []OrdersAgree
<1>1. Init => IInv /\ BuiltLater
 <2> SUFFICES ASSUME Init  PROVE IInv /\ BuiltLater OBVIOUS
 <2>1. \A t \in Trxs : undo[t] = <<>> BY DEF Init
 <2> QED BY <2>1, InitIsRight DEF BuiltLater
<1>2. (IInv /\ BuiltLater) /\ [Next]_vars => (IInv /\ BuiltLater)' BY NextKeeps, BuiltLaterKept
<1>3. IInv /\ BuiltLater => OrdersAgree
 <2> SUFFICES ASSUME IInv, BuiltLater  PROVE OrdersAgree OBVIOUS
 <2>1. Types /\ IdsAreRight /\ HistoryIsRight /\ ViewsAreRight /\ PurgeViewIsRight /\ UndosAreRight
   BY DEF IInv
 <2>2. PurgeViewIsOldest BY <2>1 DEF PurgeViewIsOldest, PurgeViewIsRight, SeenByAll, Knows, Active
 <2>3. LimitNoMeansSeen
  <3>1. \A v \in {purge_view} \cup {view_list[i] : i \in DOMAIN view_list} : LimitsAreRight(v)
    BY <2>1 DEF PurgeViewIsRight, ViewsAreRight, ViewIsRight
  <3> QED BY <3>1 DEF LimitNoMeansSeen, LimitsAreRight, Knows
 <2>4. ASSUME NEW t \in Trxs, NEW n \in DOMAIN undo[t], undo[t][n].old # NoRow,
              undo[t][n].old.by \notin {t, NoTrx}
       PROVE  \/ trx_no[undo[t][n].old.by] < trx_no[t]
              \/ "UPDATE" \notin logs[undo[t][n].old.by]
              \/ trx_no[t] = Infinity
  <3>1. PICK old : old = undo[t][n].old OBVIOUS
  <3>2. Real(old) /\ old.by # t BY <2>4, <3>1 DEF Real
  <3>3. pc[old.by] = "DONE" BY <2>1, <3>1, <3>2 DEF UndosAreRight, UndoIsRight, Own
  <3>4. "UPDATE" \in logs[old.by] => Numbered(old.by) BY <3>3 DEF Numbered
  <3>5. ~ Numbered(t) => trx_no[t] = Infinity BY <2>1 DEF IdsAreRight
  <3> QED BY <3>1, <3>2, <3>4, <3>5 DEF BuiltLater
 <2>5. HistoryFollowsNumbers BY <2>1, <2>4 DEF HistoryFollowsNumbers, HistoryIsRight
 <2> QED BY <2>2, <2>3, <2>5 DEF OrdersAgree
<1> QED BY <1>1, <1>2, <1>3, PTL DEF Spec

-----------------------------------------------------------------------------
(* What a view reads *)

Depth == MaxOps * Cardinality(Trxs)

\* One step back in the chain of versions, unless the view reads this one.
Back(view, x) == IF x \in {NoRow, Missing} \/ Accepts(view, x) THEN x ELSE PrevVersion(x)

\* A function that goes back step by step says which version is read.
LEMMA VersionReadIs ==
    ASSUME Depth \in Nat, NEW view, NEW k,
           NEW w, w = [n \in 0 .. Depth |-> IF n = 0 THEN rows[k] ELSE Back(view, w[n - 1])]
    PROVE  VersionRead(view, k) = w[Depth]
<1> DEFINE version[n \in 0 .. Depth] == IF n = 0 THEN rows[k] ELSE Back(view, version[n - 1])
<1>1. version = [n \in 0 .. Depth |-> IF n = 0 THEN rows[k] ELSE Back(view, version[n - 1])]
  BY DEF version
<1>2. VersionRead(view, k) = version[Depth] BY DEF VersionRead, version, Back, Depth
<1> HIDE DEF version
<1>3. ASSUME NEW n \in 0 .. Depth, version[n] # w[n]
      PROVE  FALSE
 <2> DEFINE D == {m \in 0 .. Depth : version[m] # w[m]}
 <2>1. D \in SUBSET Nat /\ D # {}
  <3>1. 0 .. Depth \subseteq Nat OBVIOUS
  <3>2. n \in D BY <1>3
  <3> QED BY <3>1, <3>2
 <2> HIDE DEF D
 <2>2. PICK m \in D : \A y \in D : m <= y BY <2>1, LeastExists
 <2>3. m \in 0 .. Depth /\ version[m] # w[m] /\ \A y \in 0 .. Depth : version[y] # w[y] => m <= y
   BY <2>2 DEF D
 <2>4. m # 0 BY <1>1, <2>3
 <2>5. m - 1 \in 0 .. Depth /\ ~ (m <= m - 1) BY <2>3, <2>4
 <2>6. version[m - 1] = w[m - 1] BY <2>3, <2>5
 <2> QED BY <1>1, <2>3, <2>4, <2>6
<1> QED BY <1>2, <1>3

-----------------------------------------------------------------------------
(* Which version of the chain a view reads *)

\* Of the changes of its creator a view reads those that are to be expected.
LEMMA OwnIsAccepted ==
    ASSUME IInv, NEW i \in DOMAIN view_list, NEW v, v = view_list[i], NEW k \in Keys,
           NEW c \in Seq(Version \cup {NoRow}), IsChain(c, k),
           NEW j \in DOMAIN c, Own(c[j], v.creator)
    PROVE  /\ Accepts(v, c[j]) <=> c[j].un \in OwnChanges(v, k)
           /\ Own(rows[k], v.creator) /\ c[j].un \in 1 .. rows[k].un /\ rows[k].un \in 0 .. MaxOps
<1> DEFINE t == v.creator
<1>1. Types /\ ViewIsRight(v) /\ v \in OpenViews BY DEF IInv, ViewsAreRight, Types, ViewTypes
<1>2. t \in Trxs /\ Active(t) /\ t # NoTrx /\ trx_id[t] = IdOf(t)
  BY <1>1, MvccAssumption DEF ViewIsRight, Active, IdOf
<1>3. Real(c[j]) /\ c[j].by = t /\ c[j] \in Version BY <1>2 DEF Own, Real
<1>4. /\ c[j].un \in DOMAIN undo[t] /\ undo[t][c[j].un].key = k BY <1>3 DEF IsChain, IsVersion
<1>5. c[j].un \in 0 .. MaxOps /\ c[j].un \in 1 .. Len(undo[t]) /\ Len(undo[t]) \in Nat
 <2>1. undo[t] \in Seq(UndoRec) BY <1>1, <1>2 DEF Types, RowTypes
 <2> QED BY <1>3, <1>4, <2>1 DEF Version
<1>6. c[1] = rows[k] /\ 1 \in DOMAIN c /\ j \in 1 .. Len(c) BY DEF IsChain
<1>7. rows[k].by = t /\ c[j].un <= rows[k].un /\ Real(rows[k]) /\ rows[k].un \in 0 .. MaxOps
 <2>1. rows[k] \in Version \cup {NoRow} BY <1>1 DEF Types, RowTypes
 <2>2. CASE j = 1 BY <1>3, <1>5, <1>6, <2>2
 <2>3. CASE j # 1
  <3>1. 1 < j /\ 1 \in 1 .. Len(c) - 1 BY <1>6, <2>3
  <3>2. Real(c[1]) /\ c[1].by = t /\ c[1].un > c[j].un BY <1>2, <1>3, <1>6, <3>1 DEF IsChain
  <3>3. c[1].un \in 0 .. MaxOps BY <1>6, <2>1, <3>2 DEF Real, Version
  <3> QED BY <1>5, <1>6, <3>2, <3>3
 <2> QED BY <2>2, <2>3
<1>8. c[j].un \in 1 .. rows[k].un BY <1>5, <1>7
<1>9. c[j].un \in OwnChanges(v, k) <=> (v.type = "HIGH_GRANULARITY" => c[j].un <= v.undo_no)
  BY <1>4, <1>7, <1>8 DEF OwnChanges, Real
<1>10. v.type = "NORMAL" <=> Sees(v, IdOf(c[j].by)) BY <1>1, <1>2, <1>3 DEF ViewIsRight, Knows
<1>11. v.type \in {"NORMAL", "HIGH_GRANULARITY"} BY <1>1 DEF OpenViews
<1> QED BY <1>3, <1>7, <1>8, <1>9, <1>10, <1>11 DEF Accepts, Own, Real

\* The version f is the first of the chain c that the view reads.
Stops(view, x) == x = NoRow \/ Accepts(view, x)
IsRead(view, c, f) == Stops(view, c[f]) /\ \A j \in 1 .. f - 1 : ~ Stops(view, c[j])

\* When there are changes of its own, the view reads the last of them.
LEMMA OwnIsRead ==
    ASSUME IInv, NEW i \in DOMAIN view_list, NEW v, v = view_list[i], NEW k \in Keys,
           NEW c \in Seq(Version \cup {NoRow}), IsChain(c, k), OwnChanges(v, k) # {}
    PROVE  \E f \in DOMAIN c : IsRead(v, c, f) /\ Visible(c[f]) = ExpectedRead(v, k)
<1> DEFINE t == v.creator
<1>1. Types /\ ViewIsRight(v) /\ v \in OpenViews BY DEF IInv, ViewsAreRight, Types, ViewTypes
<1>2. t \in Trxs /\ Active(t) /\ t # NoTrx BY <1>1, MvccAssumption DEF ViewIsRight, Active
<1>3. rows[k] # NoRow /\ rows[k].by = t /\ Real(rows[k]) BY <1>2 DEF OwnChanges, Real
<1>4. rows[k].un \in 0 .. MaxOps BY <1>1, <1>3 DEF Types, RowTypes, Version
<1>5. OwnChanges(v, k) \in SUBSET (0 .. MaxOps)
 <2>1. OwnChanges(v, k) \subseteq 1 .. rows[k].un BY <1>3 DEF OwnChanges
 <2> QED BY <1>4, <2>1, MvccAssumption
<1>6. PICK n : n = Max(OwnChanges(v, k)) OBVIOUS
<1>7. n \in OwnChanges(v, k) /\ \A y \in OwnChanges(v, k) : n >= y
  BY <1>5, <1>6, MaxIsGreatest, MvccAssumption
<1>8. n \in 1 .. rows[k].un /\ undo[t][n].key = k BY <1>3, <1>7 DEF OwnChanges
<1>9. PICK f \in DOMAIN c : Own(c[f], t) /\ c[f].un = n BY <1>2, <1>3, <1>8 DEF IsChain
<1>10. Stops(v, c[f]) BY <1>7, <1>9, OwnIsAccepted DEF Stops
<1>11. ASSUME NEW j \in 1 .. f - 1
       PROVE  ~ Stops(v, c[j])
 <2>1. j \in DOMAIN c /\ j < f /\ j \in 1 .. Len(c) - 1
  <3>1. f \in 1 .. Len(c) BY <1>9
  <3> QED BY <3>1
 <2>2. Real(c[f]) BY <1>2, <1>9 DEF Own, Real
 <2>3. Real(c[j]) /\ c[j].by = t /\ c[j].un > n BY <1>2, <1>9, <2>1, <2>2 DEF IsChain, Own
 <2>4. c[j].un \notin OwnChanges(v, k) BY <1>5, <1>7, <2>3
 <2>5. ~ Accepts(v, c[j]) BY <2>1, <2>3, <2>4, OwnIsAccepted DEF Own, Real
 <2> QED BY <2>3, <2>5 DEF Stops, Real
<1>12. Visible(c[f]) = ExpectedRead(v, k)
 <2> DEFINE type == undo[t][n].type
            e == [by |-> t, un |-> n, del |-> type = "DEL_MARK", ins |-> type = "INSERT"]
 <2>1. c[f] \in Version BY <1>9 DEF Own
 <2>2. /\ c[f].del <=> type = "DEL_MARK"
       /\ c[f].ins <=> type = "INSERT"
   BY <1>2, <1>9 DEF IsChain, IsVersion, Own, Real
 <2>3. c[f] = [by |-> c[f].by, un |-> c[f].un, del |-> c[f].del, ins |-> c[f].ins]
       /\ c[f].del \in BOOLEAN /\ c[f].ins \in BOOLEAN
   BY <2>1 DEF Version
 <2>4. c[f].del = (type = "DEL_MARK") /\ c[f].ins = (type = "INSERT") BY <2>2, <2>3
 <2>5. c[f] = e BY <1>9, <2>3, <2>4 DEF Own
 <2>6. ExpectedRead(v, k) = Visible(e) BY <1>6 DEF ExpectedRead
 <2> QED BY <2>5, <2>6
<1> QED BY <1>10, <1>11, <1>12 DEF IsRead

\* When there are none, it reads what was committed when it was opened.
LEMMA SnapshotIsRead ==
    ASSUME IInv, NEW i \in DOMAIN view_list, NEW v, v = view_list[i], NEW k \in Keys,
           NEW c \in Seq(Version \cup {NoRow}), IsChain(c, k), Reads(v, c, k),
           OwnChanges(v, k) = {}
    PROVE  \E f \in DOMAIN c : IsRead(v, c, f) /\ Visible(c[f]) = ExpectedRead(v, k)
<1>1. PICK f \in DOMAIN c : /\ ~ Unseen(v, c[f])
                            /\ \A j \in 1 .. f - 1 : Unseen(v, c[j])
                            /\ Visible(c[f]) = Visible(v.snap[k])
  BY DEF Reads
<1>2. Stops(v, c[f]) BY <1>1 DEF Unseen, Stops, Accepts
<1>3. ASSUME NEW j \in 1 .. f - 1
      PROVE  ~ Stops(v, c[j])
 <2>1. j \in DOMAIN c
  <3>1. f \in 1 .. Len(c) /\ DOMAIN c = 1 .. Len(c) /\ Len(c) \in Nat BY <1>1
  <3> QED BY <3>1
 <2>2. Unseen(v, c[j]) BY <1>1
 <2>3. CASE c[j].by = v.creator BY <2>1, <2>2, <2>3, OwnIsAccepted DEF Stops, Unseen, Own
 <2>4. CASE c[j].by # v.creator BY <2>2, <2>4 DEF Stops, Unseen, Accepts
 <2> QED BY <2>3, <2>4
<1>4. ExpectedRead(v, k) = Visible(v.snap[k]) BY DEF ExpectedRead
<1> QED BY <1>1, <1>2, <1>3, <1>4 DEF IsRead

\* Going back from a version that the view does not read leads to the next one of
\* the chain: purge has left it.
LEMMA BackIsNext ==
    ASSUME IInv, NEW i \in DOMAIN view_list, NEW v, v = view_list[i], NEW k \in Keys,
           NEW c \in Seq(Version \cup {NoRow}), IsChain(c, k),
           NEW j \in 1 .. Len(c) - 1, ~ Stops(v, c[j])
    PROVE  Back(v, c[j]) = c[j + 1]
<1>1. /\ c[j] \in Version \cup {NoRow} /\ Real(c[j]) /\ IsVersion(c[j], k)
      /\ c[j + 1] = undo[c[j].by][c[j].un].old
  BY DEF IsChain
<1>2. c[j] \notin {NoRow, Missing} /\ ~ Accepts(v, c[j]) BY <1>1, RowAssumption DEF Stops
<1>3. PICK t \in Trxs : t = c[j].by /\ t \in Started /\ t # NoTrx
  BY <1>1 DEF Real, IsVersion, Started
<1>4. PICK n : n = c[j].un /\ n \in DOMAIN undo[t] /\ n \in 1 .. Len(undo[t]) /\ UndoIsRight(t, n)
 <2>1. c[j].un \in DOMAIN undo[t] /\ undo[t] \in Seq(UndoRec)
   BY <1>1, <1>3 DEF IsVersion, IInv, Types, RowTypes
 <2> QED BY <2>1 DEF IInv, UndosAreRight
<1>5. ~ SeenByAll(t) BY <1>2, <1>3 DEF SeenByAll, Knows, Accepts, IdOf
<1>6. ~ Sees(purge_view, IdOf(t)) BY <1>3, <1>5 DEF IInv, PurgeViewIsRight, Knows, IdOf
<1>7. ~ (n <= gone[t]) BY <1>4, <1>5 DEF IInv, GoneIsRight, Types, PurgeTypes
<1>8. c[j].ins => c[j + 1] = NoRow BY Zenon, <1>1, <1>3, <1>4 DEF IsVersion, UndoIsRight
<1> QED BY <1>1, <1>2, <1>3, <1>4, <1>6, <1>7, <1>8 DEF Back, PrevVersion

\* No chain is longer than there are changes.
LEMMA ChainIsShort ==
    ASSUME IInv, NEW k \in Keys, NEW c \in Seq(Version \cup {NoRow}), IsChain(c, k)
    PROVE  Depth \in Nat /\ Len(c) - 1 <= Depth
<1> DEFINE S == 1 .. Len(c) - 1
           P == Trxs \X (1 .. MaxOps)
           g == [j \in S |-> <<c[j].by, c[j].un>>]
<1>1. IsFiniteSet(Trxs) /\ MaxOps \in Nat /\ Cardinality(Trxs) \in Nat
  BY MvccAssumption, FS_CardinalityType
<1>2. IsFiniteSet(1 .. MaxOps) /\ Cardinality(1 .. MaxOps) = MaxOps
 <2>1. 1 \in Int /\ MaxOps \in Int BY <1>1
 <2>2. IsFiniteSet(1 .. MaxOps) /\ Cardinality(1 .. MaxOps) = IF 1 > MaxOps THEN 0 ELSE MaxOps - 1 + 1
   BY <2>1, FS_Interval
 <2> QED BY <1>1, <2>2
<1>3. IsFiniteSet(P) /\ Cardinality(P) = Cardinality(Trxs) * MaxOps BY <1>1, <1>2, FS_Product
<1>4. Depth \in Nat /\ Cardinality(P) = Depth BY <1>1, <1>3 DEF Depth
<1>5. Len(c) \in Nat /\ Len(c) > 0 /\ DOMAIN c = 1 .. Len(c) BY DEF IsChain
<1>6. ASSUME NEW j \in S
      PROVE  /\ Real(c[j]) /\ j \in DOMAIN c /\ c[j].by \in Trxs /\ c[j].un \in 1 .. MaxOps
 <2>1. j \in DOMAIN c /\ Real(c[j]) /\ IsVersion(c[j], k) BY DEF IsChain
 <2>2. c[j].by \in Trxs /\ c[j].un \in DOMAIN undo[c[j].by] BY <2>1 DEF IsVersion, Started
 <2>3. undo[c[j].by] \in Seq(UndoRec) BY <2>2 DEF IInv, Types, RowTypes
 <2>4. c[j].un \in 1 .. Len(undo[c[j].by]) BY <2>2, <2>3
 <2>5. c[j].un \in 0 .. MaxOps BY <2>1 DEF Real, Version
 <2> QED BY <2>1, <2>2, <2>4, <2>5, <1>1
<1>7. g \in [S -> P] BY <1>6
<1>8. ASSUME NEW a \in S, NEW b \in S, a < b
      PROVE  g[a] # g[b]
 <2>1. c[a].by = c[b].by => c[a].un > c[b].un BY <1>6, <1>8 DEF IsChain
 <2>2. c[a].un \in Nat /\ c[b].un \in Nat BY <1>6
 <2>3. ~ (c[a].by = c[b].by /\ c[a].un = c[b].un) BY <2>1, <2>2
 <2> QED BY <2>3
<1>9. \A a, b \in S : g[a] = g[b] => a = b
 <2> SUFFICES ASSUME NEW a \in S, NEW b \in S, a # b  PROVE g[a] # g[b] OBVIOUS
 <2>1. a < b \/ b < a BY <1>5
 <2> QED BY <1>8, <2>1
<1> HIDE DEF g, P
<1>10. g \in Injection(S, P) BY <1>7, <1>9 DEF Injection, IsInjective
<1>11. Cardinality(S) <= Cardinality(P) BY <1>3, <1>10, FS_Injection
<1>12. Cardinality(S) = Len(c) - 1 BY <1>5, FS_Interval
<1> QED BY <1>4, <1>11, <1>12

\* The version read is the first of the chain that the view reads.
LEMMA ChainIsWalked ==
    ASSUME IInv, NEW i \in DOMAIN view_list, NEW v, v = view_list[i], NEW k \in Keys,
           NEW c \in Seq(Version \cup {NoRow}), IsChain(c, k),
           NEW f \in DOMAIN c, IsRead(v, c, f)
    PROVE  VersionRead(v, k) = c[f]
<1>1. Depth \in Nat /\ Len(c) - 1 <= Depth BY ChainIsShort
<1>2. /\ f \in 1 .. Len(c) /\ Len(c) \in Nat /\ c[1] = rows[k]
      /\ Stops(v, c[f]) /\ \A j \in 1 .. f - 1 : ~ Stops(v, c[j])
  BY DEF IsRead, IsChain
<1> DEFINE At(n) == c[IF n + 1 <= f THEN n + 1 ELSE f]
           w == [n \in 0 .. Depth |-> At(n)]
<1>3. ASSUME NEW n \in 0 .. Depth, n # 0
      PROVE  n - 1 \in 0 .. Depth /\ At(n) = Back(v, At(n - 1))
 <2>1. n - 1 \in 0 .. Depth /\ n - 1 + 1 = n /\ n \in Nat BY <1>1, <1>3
 <2>2. CASE n + 1 <= f
  <3>1. n \in 1 .. Len(c) - 1 /\ n \in 1 .. f - 1 /\ n <= f BY <1>2, <1>3, <2>1, <2>2
  <3>2. Back(v, c[n]) = c[n + 1] BY <1>2, <3>1, BackIsNext
  <3>3. At(n) = c[n + 1] /\ At(n - 1) = c[n] BY <2>1, <2>2, <3>1
  <3> QED BY <2>1, <3>2, <3>3
 <2>3. CASE ~ (n + 1 <= f)
  <3>1. At(n) = c[f] /\ At(n - 1) = c[f] BY <1>2, <2>1, <2>3
  <3>2. Back(v, c[f]) = c[f] BY <1>2 DEF Stops, Back
  <3> QED BY <2>1, <3>1, <3>2
 <2> QED BY <2>2, <2>3
<1>4. At(0) = rows[k] BY <1>2
<1>5. At(Depth) = c[f] BY <1>1, <1>2
<1> HIDE DEF At
<1>6. w = [n \in 0 .. Depth |-> IF n = 0 THEN rows[k] ELSE Back(v, w[n - 1])] BY <1>3, <1>4
<1>7. w[Depth] = c[f] BY <1>1, <1>5
<1> HIDE DEF w
<1> QED BY <1>1, <1>6, <1>7, VersionReadIs

\* An open view always reads every record as it was committed when the view was opened, plus the
\* creator's own changes (row_vers_build_for_consistent_read), whatever others have committed, rolled
\* back and purged since; and no undo record that it needs is missing.
THEOREM ReadsAreConsistent == Spec => []SnapshotReads
<1>1. IInv => SnapshotReads
 <2> SUFFICES ASSUME IInv, NEW i \in DOMAIN view_list, NEW k \in Keys
              PROVE  Visible(VersionRead(view_list[i], k)) = ExpectedRead(view_list[i], k)
   BY DEF SnapshotReads
 <2>1. PICK v : v = view_list[i] OBVIOUS
 <2>2. PICK c \in Seq(Version \cup {NoRow}) : IsChain(c, k) /\ Reads(v, c, k)
   BY <2>1 DEF IInv, ChainIsRight
 <2>3. PICK f \in DOMAIN c : IsRead(v, c, f) /\ Visible(c[f]) = ExpectedRead(v, k)
   BY <2>1, <2>2, OwnIsRead, SnapshotIsRead
 <2>4. VersionRead(v, k) = c[f] BY <2>1, <2>2, <2>3, ChainIsWalked
 <2> QED BY <2>1, <2>3, <2>4
<1> QED BY <1>1, InductiveInvariant, PTL
=============================================================================
