--------------------------- MODULE SearchSysProofs ---------------------------
(***************************************************************************)
(* Proofs about SearchSys: the nodes of the adaptive hash index are valid  *)
(* and guesses are right.  First what is known of places in a page and in  *)
(* the tree, the inductive invariant, and a lemma for what each action     *)
(* changes (XMoves); then a lemma for each action that the invariant is    *)
(* kept (XKeeps): what is known before the step, what the step changes,    *)
(* that the session that takes the step is right after it, one part at a   *)
(* time, and that the others are; last the theorems.                       *)
(***************************************************************************)
EXTENDS SearchSys, FiniteSetTheorems, WellFoundedInduction, TLAPS

-----------------------------------------------------------------------------
(* The invariant *)

\* Where a thread may be.
Labels ==
    {"idle", "start", "block", "latch", "astray", "descend", "tree", "info", "ref", "at", "reading", "done",
     "drop_check", "drop", "build", "reorganised", "hash_insert", "hash_delete", "remove",
     "reinsert", "compress", "move", "moved", "write_lock", "writing", "emptied", "free"}

Flags == {"binary", "hash", "hash_fail"}

CallType ==
    [op : {"search", "read", "insert", "delete", "update"}, mode : Modes, key : Keys,
     flag : Flags, n : DOMAIN Fold, left : BOOLEAN, page : Pages \cup {NoPage},
     frame : Frames \cup {NoFrame}, rec : Rec \cup {NoRec}, other : Frames \cup {NoFrame},
     work : Frames \cup {NoFrame}, folds : SUBSET Folds, was : DOMAIN Fold, next : Labels]

BlockType ==
    [state : {"NOT_USED", "FILE_PAGE", "REMOVE_HASH"}, page : Pages \cup {NoPage},
     recs : SUBSET Keys, heap : {0, 1}, is_hashed : BOOLEAN, n : DOMAIN Fold, left : BOOLEAN]

ThreadTypes ==
    /\ plan \in Plans
    /\ pc \in [Procs -> Labels]
    /\ cur \in [Procs -> CallType]
    /\ todo \in [Sessions -> Seq(SUBSET Calls)]

LatchTypes ==
    /\ latch \in [Frames -> [x : Sessions \cup {Nobody}, s : SUBSET Sessions]]
    /\ index_x \in Sessions \cup {Nobody}
    /\ search_s \subseteq Sessions
    /\ search_x \in Procs \cup {Nobody}

TreeTypes ==
    /\ leaves \in Seq(Pages) /\ Len(leaves) \in {1, 2}
    /\ Len(leaves) = 2 => leaves[1] # leaves[2]
    /\ cut \in Keys
    /\ disk \in [Pages -> SUBSET Keys]

Types ==
    /\ ThreadTypes /\ LatchTypes /\ TreeTypes
    /\ block \in [Frames -> BlockType]
    /\ hash \in [Folds -> Rec \cup {NoRec}]

IsLeaf(p) == \E i \in DOMAIN leaves : leaves[i] = p

\* A block that is a page is one of its kind, may be latched, and is hashed only while
\* the page is a leaf; one that is being freed is Lru's.
PageOf(f) == block[f].state = "FILE_PAGE"
BlockIsRight(f) ==
    /\ PageOf(f) <=> block[f].page # NoPage
    /\ \A g \in Frames : PageOf(f) /\ block[g].page = block[f].page => g = f
    /\ ~PageOf(f) => latch[f].x = Nobody /\ latch[f].s = {}
    /\ latch[f].x # Nobody => latch[f].s = {}
    /\ PageOf(f) /\ ~IsLeaf(block[f].page) => ~block[f].is_hashed
    /\ block[f].state = "REMOVE_HASH" =>
           pc[Lru] \in {"drop_check", "drop", "free"} /\ cur[Lru].work = f
BlocksAreRight == \A f \in Frames : BlockIsRight(f)

LruIsRight ==
    /\ pc[Lru] \in {"idle", "drop_check", "drop", "free"}
    /\ pc[Lru] # "idle" =>
           /\ cur[Lru].work \in Frames /\ cur[Lru].next = "free"
           /\ block[cur[Lru].work].state = "REMOVE_HASH"
           /\ pc[Lru] = "free" => ~block[cur[Lru].work].is_hashed

Holds(s, f) == latch[f].x = s \/ s \in latch[f].s
HoldsX(s, f) == latch[f].x = s

Hashing == {"build", "drop_check", "drop"}

\* On the way to the cursor, and with it, before anything is changed.
Arrived(s) == pc[s] \in {"info", "ref"} \/ (pc[s] \in Hashing /\ cur[s].next = "build" /\ cur[s].other = NoFrame)
HasCursor(s) == Arrived(s) \/ pc[s] = "at"

\* Where a leaf is latched.
OnLeaf(s) ==
    pc[s] \in {"info", "ref", "at", "reorganised", "hash_insert", "hash_delete", "remove", "reinsert",
               "compress", "move", "moved", "write_lock", "writing", "emptied"} \cup Hashing

\* Which labels belong to which calls.
OpIsRight(s) ==
    /\ pc[s] # "free"
    /\ pc[s] = "idle" => cur[s].op = "search"
    /\ pc[s] = "tree" => cur[s].op \in {"insert", "delete"}
    /\ pc[s] \in {"hash_insert", "reorganised"} => cur[s].op = "insert"
    /\ pc[s] \in {"hash_delete", "remove"} => cur[s].op \in {"delete", "update"}
    /\ pc[s] \in {"reinsert", "write_lock", "writing"} => cur[s].op = "update"
    /\ pc[s] \in {"compress", "emptied"} => cur[s].op = "delete"
    /\ pc[s] \in {"move", "moved"} => cur[s].op \in {"insert", "delete"}
    /\ pc[s] = "latch" => cur[s].op # "read"
    /\ pc[s] = "hash_delete" => cur[s].next \in {"remove", "write_lock"}
    /\ cur[s].next = "write_lock" => cur[s].op = "update"
    /\ cur[s].op = "update" => cur[s].next \in {"idle", "build", "remove", "write_lock"}
    /\ cur[s].other # NoFrame =>
           /\ pc[s] \in {"move", "moved", "hash_insert", "emptied", "done"} \cup Hashing
           /\ cur[s].op \in {"insert", "delete"}
    /\ pc[s] \in {"move", "moved"} => cur[s].other # NoFrame
    /\ pc[s] \in Hashing =>
          \/ cur[s].next = "build"
          \/ cur[s].next = "reorganised" /\ cur[s].op = "insert" /\ cur[s].other = NoFrame
          \/ cur[s].next = "moved" /\ cur[s].op \in {"insert", "delete"} /\ cur[s].other # NoFrame
          \/ cur[s].next = "emptied" /\ cur[s].op = "delete"
    /\ pc[s] = "build" => cur[s].next = "build"
    /\ pc[s] \in {"drop", "drop_check"} /\ cur[s].next = "build" => cur[s].other = NoFrame
    /\ index_x = s => cur[s].op \in {"insert", "delete"}
    /\ pc[s] \in {"idle", "start", "block", "latch", "tree"} => index_x # s
    /\ Modifies(s) => cur[s].mode = "LE"

FlagIsRight(s) ==
    /\ pc[s] \in {"idle", "start"} => cur[s].flag = "binary"
    /\ pc[s] \in {"block", "latch"} => cur[s].flag = "hash"
    /\ pc[s] \in {"descend", "tree"} \/ Arrived(s) => cur[s].flag # "hash"
    /\ pc[s] = "at" /\ cur[s].op = "read" => cur[s].flag # "hash"
    /\ pc[s] = "reading" => cur[s].op = "read"

\* A guess keeps the search latch, and with it the node that led to it.
NodeIsKept(s) ==
    pc[s] \in {"block", "latch"} \/ (pc[s] = "reading" /\ cur[s].flag = "hash") =>
        /\ s \in search_s
        /\ cur[s].rec # NoRec /\ hash[Fold[cur[s].n][cur[s].key]] = cur[s].rec
        /\ pc[s] = "reading" => cur[s].rec.key = cur[s].key

LatchesAreRight(s) ==
    /\ pc[s] \in {"idle", "start", "block", "latch", "descend", "tree"} => \A f \in Frames : ~Holds(s, f)
    /\ OnLeaf(s) =>
          /\ cur[s].frame \in Frames
          /\ PageOf(cur[s].frame) /\ IsLeaf(block[cur[s].frame].page)
          /\ IF Modifies(s) THEN HoldsX(s, cur[s].frame) ELSE s \in latch[cur[s].frame].s
          /\ index_x = s =>
                \A i \in DOMAIN leaves : \E g \in Frames : block[g].page = leaves[i] /\ HoldsX(s, g)
          /\ cur[s].other = NoFrame /\ index_x # s => \A g \in Frames : Holds(s, g) => g = cur[s].frame
    /\ pc[s] = "compress" => index_x = s /\ Len(leaves) = 2
    /\ pc[s] = "emptied" \/ (pc[s] \in Hashing /\ cur[s].next = "emptied") =>
          index_x = s /\ Len(leaves) = 2

\* The record the cursor is on.
CursorIsRight(s) ==
    /\ HasCursor(s) \/ pc[s] \in {"hash_delete", "write_lock", "writing"} =>
          LET c == cur[s]
          IN  /\ c.rec.frame = c.frame /\ c.rec.heap = block[c.frame].heap
              /\ c.rec.key \in Keys => c.rec.key \in block[c.frame].recs
    /\ pc[s] = "hash_delete" => cur[s].rec.key = cur[s].key

\* What is known of the nodes of the page that a thread changes.
NodesAreRight(s) ==
    /\ pc[s] \in {"reorganised", "emptied"} => ~block[cur[s].frame].is_hashed
    /\ pc[s] = "hash_insert" => block[cur[s].frame].is_hashed /\ cur[s].key \in block[cur[s].frame].recs
    /\ pc[s] = "remove" =>
          \A v \in Folds : ~(hash[v].frame = cur[s].frame /\ hash[v].key = cur[s].key)
    /\ pc[s] = "moved" =>
          \A v \in Folds : hash[v].frame = cur[s].frame => hash[v].key \notin block[cur[s].other].recs
    /\ pc[s] = "writing" => search_x = s \/ ~block[cur[s].frame].is_hashed

\* What a hash index is built, or dropped, on.
WorkIsRight(s) ==
    pc[s] \in Hashing =>
        \/ cur[s].work = cur[s].frame /\ (pc[s] = "build" => cur[s].other = NoFrame)
        \/ /\ pc[s] = "build" /\ cur[s].work = cur[s].other /\ cur[s].other # NoFrame
           /\ ~block[cur[s].work].is_hashed
           /\ block[cur[s].frame].is_hashed /\ block[cur[s].frame].n = cur[s].n

FoldsAreRight(p) ==
    pc[p] = "drop" => cur[p].folds = {Fold[cur[p].was][k] : k \in block[cur[p].work].recs}

\* While records are copied to another leaf, both are latched.
Moving(s) == cur[s].other # NoFrame /\ pc[s] \in {"move", "moved", "emptied"} \cup Hashing
MoveIsRight(s) ==
    Moving(s) =>
        LET f == cur[s].frame
            g == cur[s].other
        IN  /\ f \in Frames /\ g \in Frames /\ f # g
            /\ HoldsX(s, f) /\ HoldsX(s, g)
            /\ leaves \in {<<block[f].page, block[g].page>>, <<block[g].page, block[f].page>>}
            /\ cur[s].op = "delete" => index_x = s
            /\ cur[s].op = "insert" =>
                  block[g].recs = {k \in block[f].recs : block[g].page = leaves[2] <=> cut <= k}

\* The leaves are in order when nobody moves records.
InOrder ==
    Len(leaves) = 2 =>
        \/ \E s \in Sessions : Moving(s)
        \/ /\ \A k \in RecsOf(leaves[1]) : k < cut
           /\ \A k \in RecsOf(leaves[2]) : cut <= k

\* A key that is going to be inserted belongs to the leaf.
KeyBelongs(s) ==
    /\ HasCursor(s) \/ pc[s] \in {"reorganised", "hash_delete", "remove", "reinsert"} \/
          (pc[s] \in Hashing /\ cur[s].next = "reorganised")
    /\ Modifies(s)
    => block[cur[s].frame].page = LeafOf("LE", cur[s].key)

\* A guess was checked against the neighbours of the record.
GuessIsChecked(s) ==
    pc[s] = "at" /\ cur[s].flag = "hash" =>
        LET b == block[cur[s].frame]
        IN  /\ cur[s].rec.key \in b.recs
            /\ CheckGuess(b.recs, cur[s].mode, cur[s].key, cur[s].rec.key,
                          b.page = leaves[1], b.page = leaves[Len(leaves)])

SearchLatchIsRight ==
    /\ \A p \in Procs : search_x = p => pc[p] \in XLabels \cup {"writing"}
    /\ \A s \in Sessions : search_x = s /\ pc[s] = "writing" => search_s = {}

NodeIsValid(v) ==
    hash[v] # NoRec =>
        LET b == block[hash[v].frame]
        IN  /\ b.state # "NOT_USED" /\ b.is_hashed
            /\ hash[v].key \in b.recs /\ hash[v].heap = b.heap
            /\ Fold[b.n][hash[v].key] = v
NodesAreValid == \A v \in Folds : NodeIsValid(v)

SessionIsRight(s) ==
    /\ OpIsRight(s) /\ FlagIsRight(s) /\ NodeIsKept(s) /\ LatchesAreRight(s)
    /\ CursorIsRight(s) /\ NodesAreRight(s) /\ WorkIsRight(s) /\ FoldsAreRight(s)
    /\ MoveIsRight(s) /\ KeyBelongs(s) /\ GuessIsChecked(s)

IInv ==
    /\ Types /\ BlocksAreRight /\ LruIsRight /\ FoldsAreRight(Lru)
    /\ \A s \in Sessions : SessionIsRight(s)
    /\ SearchLatchIsRight /\ NodesAreValid /\ InOrder

-----------------------------------------------------------------------------
(* Places in a page *)

\* A set of numbers that is not empty has a least element.
LEMMA LeastExists ==
    ASSUME NEW T \in SUBSET Nat, T # {}
    PROVE  \E x \in T : \A y \in T : x <= y
<1> DEFINE R == OpToRel(<, Nat)
<1>1. IsWellFoundedOn(R, Nat) BY NatLessThanWellFounded
<1>2. \A x, y \in Nat : ~ (<<y, x>> \in R) => x <= y BY DEF OpToRel
<1> HIDE DEF R
<1>3. PICK x \in T : \A y \in T : ~ (<<y, x>> \in R) BY <1>1, WFMin
<1> QED BY <1>2, <1>3

\* The two ends of a set of places are in it.
LEMMA MinIsLeast ==
    ASSUME NEW T \in SUBSET Nat, T # {}
    PROVE  Min(T) \in T /\ \A y \in T : Min(T) <= y
  BY LeastExists DEF Min

\* A bounded set of numbers that is not empty has a greatest element.
LEMMA MaxIsGreatest ==
    ASSUME NEW n \in Nat, NEW T \in SUBSET (0 .. n), T # {}
    PROVE  Max(T) \in T /\ \A y \in T : Max(T) >= y
<1> DEFINE D == {n - y : y \in T}
<1>1. D \in SUBSET Nat /\ D # {}
 <2>1. \A y \in T : y \in 0 .. n /\ n - y \in Nat OBVIOUS
 <2> QED BY <2>1
<1> HIDE DEF D
<1>2. PICK d \in D : \A e \in D : d <= e BY <1>1, LeastExists
<1>3. PICK x \in T : d = n - x BY DEF D
<1>4. \A y \in T : n - y \in D BY DEF D
<1>5. \A y \in T : x >= y BY <1>2, <1>3, <1>4
<1> QED BY <1>5 DEF Max

\* The keys are numbers.
LEMMA KeysAre == MaxKey \in Nat /\ MaxKey > 0 /\ Keys = 1 .. MaxKey
  BY SearchAssumption DEF Keys

\* The record before a key, and the one after it.
LEMMA BeforeIs ==
    ASSUME NEW R \in SUBSET Keys, NEW k \in Int
    PROVE  /\ Before(R, k) \in R \cup {Infimum} /\ Before(R, k) \in Nat
           /\ Before(R, k) # Infimum => Before(R, k) < k
           /\ \A r \in R : r < k => r <= Before(R, k)
<1> DEFINE T == {Infimum} \cup {r \in R : r < k}
<1>a. \A r \in R : r \in 0 .. MaxKey BY KeysAre
<1>1. T \in SUBSET (0 .. MaxKey) /\ T # {} /\ MaxKey \in Nat
 <2>1. \A x \in T : x \in 0 .. MaxKey BY <1>a, KeysAre DEF Infimum
 <2>2. Infimum \in T OBVIOUS
 <2> QED BY <2>1, <2>2, KeysAre
<1> HIDE DEF T
<1>2. Max(T) \in T /\ \A y \in T : Max(T) >= y BY <1>1, MaxIsGreatest
<1>3. Before(R, k) = Max(T) BY DEF Before, T
<1> QED BY <1>1, <1>2, <1>3, KeysAre DEF T, Infimum

\* After is the record that follows a key, or the supremum.
LEMMA AfterIs ==
    ASSUME NEW R \in SUBSET Keys, NEW k \in Int
    PROVE  /\ After(R, k) \in R \cup {Supremum} /\ After(R, k) \in Nat
           /\ After(R, k) # Supremum => After(R, k) > k
           /\ \A r \in R : r > k => After(R, k) <= r
<1> DEFINE T == {Supremum} \cup {r \in R : r > k}
<1>a. \A r \in R : r \in Nat BY KeysAre
<1>1. T \in SUBSET Nat /\ T # {}
 <2>1. \A x \in T : x \in Nat BY <1>a, KeysAre DEF Supremum
 <2>2. Supremum \in T OBVIOUS
 <2> QED BY <2>1, <2>2
<1> HIDE DEF T
<1>2. Min(T) \in T /\ \A y \in T : Min(T) <= y BY <1>1, MinIsLeast
<1>3. After(R, k) = Min(T) BY DEF After, T
<1> QED BY <1>1, <1>2, <1>3, KeysAre DEF T, Supremum

\* A search ends at a record of the page or at one of its ends.
LEMMA PositionIs ==
    ASSUME NEW R \in SUBSET Keys, NEW mode \in Modes, NEW k \in Keys
    PROVE  Position(R, mode, k) \in R \cup {Infimum, Supremum}
<1>1. k \in Int /\ k - 1 \in Int /\ k + 1 \in Int BY DEF Keys
<1>2. \A j \in Int : Before(R, j) \in R \cup {Infimum} /\ After(R, j) \in R \cup {Supremum}
  BY BeforeIs, AfterIs
<1> QED BY <1>1, <1>2 DEF Position, Modes

-----------------------------------------------------------------------------
(* What a step does, point by point *)

CallFields == {"op", "mode", "key", "flag", "n", "left", "page", "frame", "rec", "other", "work",
               "folds", "was", "next"}
BlockFields == {"state", "page", "recs", "heap", "is_hashed", "n", "left"}

SameCall(c, d, F) == \A x \in CallFields \ F : d[x] = c[x]
SameBlock(b, d, F) == \A x \in BlockFields \ F : d[x] = b[x]

\* Only thread p moves, from label a to b, and remembers anew only the fields F.
Goes(p, a, b, F) ==
    /\ pc[p] = a /\ pc'[p] = b /\ pc' \in [Procs -> Labels]
    /\ cur' \in [Procs -> CallType] /\ SameCall(cur[p], cur'[p], F)
    /\ \A t \in Procs \ {p} : pc'[t] = pc[t] /\ cur'[t] = cur[t]

\* Only block f changes, and only in the fields F.
Writes(f, F) ==
    /\ block' \in [Frames -> BlockType] /\ SameBlock(block[f], block'[f], F)
    /\ \A g \in Frames \ {f} : block'[g] = block[g]

\* A thread that goes on at another label with what it remembers.
LEMMA GotoGoes ==
    ASSUME ThreadTypes, NEW p \in Procs, NEW a, NEW b \in Labels, Goto(p, a, b), cur' = cur
    PROVE  Goes(p, a, b, {})
  BY DEF ThreadTypes, Goto, Goes, SameCall, CallFields

\* A thread that goes on at another label and remembers c.
LEMMA SetGoes ==
    ASSUME ThreadTypes, NEW p \in Procs, NEW a, NEW b \in Labels, NEW c \in CallType, NEW F,
           SameCall(cur[p], c, F), Goto(p, a, b), Set(p, c)
    PROVE  Goes(p, a, b, F) /\ cur'[p] = c
  BY DEF ThreadTypes, Goto, Goes, Set

SearchUnchanged == UNCHANGED <<search_s, search_x>>
DataUnchanged == UNCHANGED <<plan, hash, block, disk, leaves, cut>>
LatchesUnchanged == UNCHANGED <<index_x, latch>>

\* What LatchPages does to the latches.
LatchedBy(p, F, x) ==
    /\ latch' \in [Frames -> [x : Sessions \cup {Nobody}, s : SUBSET Sessions]]
    /\ \A g \in Frames \ F : latch'[g] = latch[g]
    /\ \A g \in F : /\ latch'[g].x = IF x THEN p ELSE latch[g].x
                    /\ latch'[g].s = IF x THEN latch[g].s ELSE latch[g].s \cup {p}

\* What Return does to them.
Unlatched(p) ==
    /\ latch' \in [Frames -> [x : Sessions \cup {Nobody}, s : SUBSET Sessions]]
    /\ \A g \in Frames : /\ latch'[g].x = IF latch[g].x = p THEN Nobody ELSE latch[g].x
                         /\ latch'[g].s = latch[g].s \ {p}
    /\ index_x' = IF index_x = p THEN Nobody ELSE index_x

Forgotten == {"flag", "n", "page", "frame", "rec"}

\* LatchPages changes the latches of the pages it is given only.
LEMMA PagesLatched ==
    ASSUME LatchTypes, NEW s \in Sessions, NEW F \in SUBSET Frames, NEW x \in BOOLEAN,
           LatchPages(s, F, x)
    PROVE  LatchedBy(s, F, x)
  BY ZenonT(60) DEF LatchTypes, LatchPages, LatchedBy

\* A thread in no call remembers what a call may be.
LEMMA EmptyCall == NoCall \in CallType
  BY SearchAssumption DEF CallType, NoCall, Flags, Labels, Modes, Keys

\* mtr_commit at the end of a call gives up the latches of that thread only.
LEMMA PagesUnlatched ==
    ASSUME ThreadTypes, LatchTypes, NEW s \in Sessions, Return(s)
    PROVE  Unlatched(s) /\ cur' \in [Procs -> CallType] /\ cur'[s] = NoCall
           /\ UNCHANGED search_x /\ \A t \in Procs \ {s} : cur'[t] = cur[t]
<1>1. Unlatched(s) BY DEF LatchTypes, Return, Unlatched
<1>2. cur' \in [Procs -> CallType] /\ cur'[s] = NoCall /\ \A t \in Procs \ {s} : cur'[t] = cur[t]
  BY EmptyCall DEF ThreadTypes, Procs, Return, Set
<1> QED BY <1>1, <1>2 DEF Return

\* A guess that was not tried, or has failed, is forgotten, and the search latch released.
LEMMA Forgets ==
    ASSUME ThreadTypes, NEW s \in Sessions, NEW a, NEW b \in {"descend", "tree"},
           NEW flag \in Flags, Goto(s, a, b), Unguessed(s, flag)
    PROVE  /\ Goes(s, a, b, Forgotten)
           /\ cur'[s].flag = flag /\ search_s' = search_s \ {s}
<1> DEFINE c == [cur[s] EXCEPT !.flag = flag, !.n = 1, !.page = NoPage, !.frame = NoFrame, !.rec = NoRec]
<1>1. cur[s] \in CallType /\ s \in Procs BY DEF ThreadTypes, Procs
<1>2. 1 \in DOMAIN Fold BY SearchAssumption
<1>3. c \in CallType /\ c.flag = flag /\ SameCall(cur[s], c, Forgotten)
  BY Zenon, <1>1, <1>2 DEF CallType, SameCall, CallFields, Forgotten
<1>4. Set(s, c) /\ search_s' = search_s \ {s} BY DEF Unguessed
<1>5. {"descend", "tree"} \subseteq Labels BY DEF Labels
<1> HIDE DEF c
<1> QED BY <1>1, <1>3, <1>4, <1>5, SetGoes

\* A call begins: what the step changes.
LEMMA BeginMoves ==
    ASSUME Types, NEW s \in Sessions, Begin(s)
    PROVE  /\ Goes(s, "idle", "start", CallFields)
           /\ cur'[s].flag = "binary" /\ cur'[s].other = NoFrame /\ cur'[s].next = "idle"
           /\ Modifies(s)' => cur'[s].mode = "LE"
           /\ search_s' \in {search_s, search_s \ {s}}
           /\ todo' \in [Sessions -> Seq(SUBSET Calls)]
           /\ DataUnchanged /\ LatchesUnchanged /\ UNCHANGED search_x
<1>1. PICK r \in Head(todo[s]) :
        /\ Set(s, [NoCall EXCEPT !.op = r.op, !.mode = r.mode, !.key = r.key])
        /\ search_s' = IF r.op = "read" /\ search_x = Nobody THEN search_s ELSE search_s \ {s}
  BY Zenon DEF Begin
<1>2. todo[s] \in Seq(SUBSET Calls) /\ todo[s] # <<>> /\ todo' = [todo EXCEPT ![s] = Tail(@)]
  BY DEF Begin, Types, ThreadTypes
<1>3. r \in Calls BY <1>2
<1> DEFINE c == [NoCall EXCEPT !.op = r.op, !.mode = r.mode, !.key = r.key]
<1>4. /\ c \in CallType /\ c.flag = "binary" /\ c.other = NoFrame /\ c.next = "idle"
      /\ c.op \in {"insert", "delete", "update"} => c.mode = "LE"
  BY ZenonT(60), <1>3, SearchAssumption DEF Calls, CallType, NoCall, Flags, Labels, Modes, Keys
<1>5. SameCall(cur[s], c, CallFields) BY DEF SameCall
<1>6. Goto(s, "idle", "start") /\ s \in Procs /\ "start" \in Labels /\ Set(s, c)
  BY <1>1 DEF Begin, Procs, Labels
<1> HIDE DEF c
<1>7. Goes(s, "idle", "start", CallFields) /\ cur'[s] = c BY <1>4, <1>5, <1>6, SetGoes DEF Types
<1>8. todo' \in [Sessions -> Seq(SUBSET Calls)] BY <1>2 DEF Types, ThreadTypes
<1> QED BY <1>1, <1>4, <1>7, <1>8 DEF Begin, page_vars, DataUnchanged, LatchesUnchanged, Modifies

\* No guess is tried: what the step changes.
LEMMA DoNotGuessMoves ==
    ASSUME Types, NEW s \in Sessions, DoNotGuess(s)
    PROVE  /\ Goes(s, "start", "descend", Forgotten)
           /\ cur'[s].flag = "binary" /\ search_s' = search_s \ {s}
           /\ DataUnchanged /\ LatchesUnchanged /\ UNCHANGED <<search_x, todo>>
<1>1. Goto(s, "start", "descend") /\ Unguessed(s, "binary") /\ "binary" \in Flags
  BY DEF DoNotGuess, Flags
<1>2. /\ Goes(s, "start", "descend", Forgotten) /\ cur'[s].flag = "binary"
      /\ search_s' = search_s \ {s}
  BY <1>1, Forgets DEF Types
<1> QED BY <1>2 DEF DoNotGuess, page_vars, DataUnchanged, LatchesUnchanged

\* A node is looked up: what the step changes.
LEMMA LookupMoves ==
    ASSUME Types, NEW s \in Sessions, Lookup(s)
    PROVE  /\ search_x = Nobody
           /\ \/ /\ Goes(s, "start", "block", {"flag", "n", "rec", "page"})
                 /\ cur'[s].flag = "hash" /\ cur'[s].rec # NoRec
                 /\ cur'[s].rec = hash[Fold[cur'[s].n][cur[s].key]]
                 /\ search_s' = search_s \cup {s}
              \/ /\ Goes(s, "start", "descend", Forgotten)
                 /\ cur'[s].flag = "hash_fail" /\ search_s' = search_s \ {s}
           /\ DataUnchanged /\ LatchesUnchanged /\ UNCHANGED <<search_x, todo>>
<1> DEFINE rec(c) == hash[Fold[c.n][cur[s].key]]
<1>1. PICK d \in plan.params :
        \/ /\ rec(d) # NoRec
           /\ Goto(s, "start", "block")
           /\ Set(s, [cur[s] EXCEPT !.flag = "hash", !.n = d.n, !.rec = rec(d),
                                    !.page = block[rec(d).frame].page])
           /\ search_s' = search_s \cup {s}
        \/ Goto(s, "start", "descend") /\ Unguessed(s, "hash_fail")
  BY Zenon DEF Lookup
<1>2. d \in Params /\ d.n \in DOMAIN Fold
  BY SearchAssumption DEF Types, ThreadTypes, PlanType, Params
<1>3. cur[s] \in CallType /\ s \in Procs /\ cur[s].key \in Keys
  BY DEF Types, ThreadTypes, CallType, Procs
<1>4. Fold[d.n][cur[s].key] \in Folds BY <1>2, <1>3, SearchAssumption
<1>5. CASE /\ rec(d) # NoRec
           /\ Goto(s, "start", "block")
           /\ Set(s, [cur[s] EXCEPT !.flag = "hash", !.n = d.n, !.rec = rec(d),
                                    !.page = block[rec(d).frame].page])
           /\ search_s' = search_s \cup {s}
 <2> DEFINE c == [cur[s] EXCEPT !.flag = "hash", !.n = d.n, !.rec = rec(d),
                                   !.page = block[rec(d).frame].page]
 <2>1. rec(d) \in Rec BY Zenon, <1>4, <1>5 DEF Types
 <2>2. block[rec(d).frame].page \in Pages \cup {NoPage} BY Zenon, <2>1 DEF Types, Rec, BlockType
 <2> HIDE DEF rec
 <2>3. /\ c \in CallType /\ c.flag = "hash" /\ c.n = d.n /\ c.rec = rec(d)
       /\ SameCall(cur[s], c, {"flag", "n", "rec", "page"})
   BY ZenonT(60), <1>2, <1>3, <2>1, <2>2 DEF CallType, Flags, SameCall, CallFields
 <2>4. Set(s, c) /\ "block" \in Labels /\ search_s' = search_s \cup {s} BY <1>5 DEF Labels
 <2> HIDE DEF c
 <2>5. Goes(s, "start", "block", {"flag", "n", "rec", "page"}) /\ cur'[s] = c
   BY <1>3, <1>5, <2>3, <2>4, SetGoes DEF Types
 <2> QED BY Zenon, <1>5, <2>3, <2>4, <2>5 DEF Lookup, page_vars, DataUnchanged, LatchesUnchanged,
     rec
<1>6. CASE Goto(s, "start", "descend") /\ Unguessed(s, "hash_fail")
 <2>1. /\ Goes(s, "start", "descend", Forgotten)
       /\ cur'[s].flag = "hash_fail" /\ search_s' = search_s \ {s}
   BY <1>6, Forgets DEF Types, Flags
 <2> QED BY Zenon, <2>1 DEF Lookup, page_vars, DataUnchanged, LatchesUnchanged
<1> QED BY Zenon, <1>1, <1>5, <1>6

\* buf_page_hash_get finds the block, or not: what the step changes.
LEMMA FindBlockMoves ==
    ASSUME Types, NEW s \in Sessions, FindBlock(s)
    PROVE  /\ \/ /\ Goes(s, "block", IF cur[s].op = "read" THEN "reading" ELSE "latch", {"page", "frame"})
                 /\ cur[s].op = "read" => cur[s].rec.key = cur[s].key
                 /\ search_s' = search_s
              \/ /\ Goes(s, "block", "descend", Forgotten)
                 /\ cur'[s].flag = "hash_fail" /\ search_s' = search_s \ {s}
           /\ DataUnchanged /\ LatchesUnchanged /\ UNCHANGED <<search_x, todo>>
<1> DEFINE B == BlockOf(cur[s].page)
           b == IF cur[s].op = "read" THEN "reading" ELSE "latch"
           c == [cur[s] EXCEPT !.page = NoPage, !.frame = CHOOSE f \in B : TRUE]
<1>1. CASE /\ B # {} /\ (cur[s].op = "read" => cur[s].rec.key = cur[s].key)
           /\ Goto(s, "block", b) /\ Set(s, c) /\ search_s' = search_s
 <2>1. cur[s] \in CallType /\ s \in Procs /\ b \in Labels BY DEF Types, ThreadTypes, Procs, Labels
 <2>2. (CHOOSE f \in B : TRUE) \in Frames BY <1>1 DEF BlockOf
 <2>3. c \in CallType /\ SameCall(cur[s], c, {"page", "frame"})
   BY Zenon, <2>1, <2>2 DEF CallType, SameCall, CallFields
 <2> HIDE DEF c, b
 <2>4. Goes(s, "block", b, {"page", "frame"}) BY <1>1, <2>1, <2>3, SetGoes DEF Types
 <2> QED BY <1>1, <2>4 DEF FindBlock, page_vars, DataUnchanged, LatchesUnchanged, b
<1>2. CASE Goto(s, "block", "descend") /\ Unguessed(s, "hash_fail")
 <2>1. /\ Goes(s, "block", "descend", Forgotten)
       /\ cur'[s].flag = "hash_fail" /\ search_s' = search_s \ {s}
   BY <1>2, Forgets DEF Types, Flags
 <2> QED BY <2>1 DEF FindBlock, page_vars, DataUnchanged, LatchesUnchanged
<1> QED BY <1>1, <1>2 DEF FindBlock

\* btr_search_guess_on_hash takes the guess, with the page latched and checked, or descends,
\* or goes astray.
LEMMA LatchBlockMoves ==
    ASSUME Types, NEW s \in Sessions, LatchBlock(s)
    PROVE  /\ LET f == cur[s].frame
                  b == block[f]
              IN  \/ /\ Goes(s, "latch", "at", {})
                     /\ cur' = cur /\ f = cur[s].rec.frame
                     /\ PageOf(f) /\ Free(f, Modifies(s)) /\ LatchPages(s, {f}, Modifies(s))
                     /\ IsLeaf(b.page) => CheckGuess(b.recs, cur[s].mode, cur[s].key, cur[s].rec.key,
                                            b.page = leaves[1], b.page = leaves[Len(leaves)])
                     /\ search_s' = search_s \ {s}
                  \/ /\ Goes(s, "latch", "descend", Forgotten)
                     /\ cur'[s].flag = "hash_fail" /\ search_s' = search_s \ {s} /\ UNCHANGED latch
                  \/ /\ Goes(s, "latch", "astray", {})
                     /\ cur' = cur /\ PageOf(f) /\ Free(f, Modifies(s)) /\ LatchPages(s, {f}, Modifies(s))
                     /\ search_s' = search_s \ {s}
           /\ DataUnchanged /\ UNCHANGED <<index_x, search_x, todo>>
<1> DEFINE f == cur[s].frame
           b == block[f]
           i == CHOOSE j \in DOMAIN leaves : leaves[j] = b.page
           Latched == b.state = "FILE_PAGE" /\ Free(f, Modifies(s))
           Right == CheckGuess(b.recs, cur[s].mode, cur[s].key, cur[s].rec.key, i = 1, i = Len(leaves))
<1>0. DataUnchanged /\ UNCHANGED <<index_x, search_x, todo>>
  BY Zenon DEF LatchBlock, page_vars, DataUnchanged
<1>1. CASE /\ Latched /\ f = cur[s].rec.frame /\ Right
           /\ Goto(s, "latch", "at") /\ LatchPages(s, {f}, Modifies(s)) /\ search_s' = search_s \ {s} /\ cur' = cur
 <2>1. s \in Procs /\ "at" \in Labels BY DEF Procs, Labels
 <2>2. Goes(s, "latch", "at", {}) BY Zenon, <1>1, <2>1, GotoGoes DEF Types
 <2>3. ASSUME IsLeaf(b.page)
       PROVE  (i = 1 <=> b.page = leaves[1]) /\ (i = Len(leaves) <=> b.page = leaves[Len(leaves)])
  <3>1. i \in DOMAIN leaves /\ leaves[i] = b.page BY <2>3 DEF IsLeaf
  <3>2. /\ DOMAIN leaves = 1 .. Len(leaves) /\ Len(leaves) \in {1, 2}
        /\ Len(leaves) = 2 => leaves[1] # leaves[2]
    BY DEF Types, TreeTypes
  <3> HIDE DEF i
  <3> QED BY <3>1, <3>2
 <2>4. IsLeaf(b.page) => CheckGuess(b.recs, cur[s].mode, cur[s].key, cur[s].rec.key,
                                    b.page = leaves[1], b.page = leaves[Len(leaves)])
  <3> HIDE DEF i
  <3> QED BY <1>1, <2>3 DEF CheckGuess
 <2> QED BY Zenon, <1>0, <1>1, <2>2, <2>4 DEF PageOf
<1>2. CASE Goto(s, "latch", "descend") /\ Unguessed(s, "hash_fail") /\ UNCHANGED latch
 <2>1. /\ Goes(s, "latch", "descend", Forgotten)
       /\ cur'[s].flag = "hash_fail" /\ search_s' = search_s \ {s}
   BY <1>2, Forgets DEF Types, Flags
 <2> QED BY Zenon, <1>0, <1>2, <2>1
<1>3. CASE /\ Latched /\ Goto(s, "latch", "astray")
           /\ LatchPages(s, {f}, Modifies(s)) /\ search_s' = search_s \ {s} /\ cur' = cur
 <2>1. s \in Procs /\ "astray" \in Labels BY DEF Procs, Labels
 <2>2. Goes(s, "latch", "astray", {}) BY Zenon, <1>3, <2>1, GotoGoes DEF Types
 <2> QED BY Zenon, <1>0, <1>3, <2>2 DEF PageOf
<1> QED BY Zenon, <1>1, <1>2, <1>3 DEF LatchBlock

\* The leaf where a search for a key ends is a leaf.
LEMMA LeafOfIsLeaf ==
    ASSUME TreeTypes, NEW mode, NEW k
    PROVE  IsLeaf(LeafOf(mode, k)) /\ LeafOf(mode, k) \in Pages
  BY DEF TreeTypes, LeafOf, IsLeaf

\* A page is read into a free block: what the step changes.
LEMMA ReadPageMoves ==
    ASSUME Types, NEW s \in Sessions, ReadPage(s)
    PROVE  /\ pc[s] = "descend" /\ UNCHANGED <<pc, cur>>
           /\ \E p \in Pages, f \in Frames :
                 /\ BlockOf(p) = {} /\ block[f].state = "NOT_USED"
                 /\ Writes(f, BlockFields)
                 /\ block'[f].state = "FILE_PAGE" /\ block'[f].page = p
                 /\ block'[f].recs = disk[p] /\ ~block'[f].is_hashed
           /\ LatchesUnchanged /\ SearchUnchanged
           /\ UNCHANGED <<plan, hash, disk, leaves, cut, todo>>
<1> DEFINE need == IF index_x = s THEN {leaves[i] : i \in DOMAIN leaves}
                ELSE {LeafOf(cur[s].mode, cur[s].key)}
<1>1. PICK p \in need, f \in Frames :
        /\ BlockOf(p) = {} /\ block[f].state = "NOT_USED"
        /\ block' = [block EXCEPT ![f] =
                    [NoBlock EXCEPT !.state = "FILE_PAGE", !.page = p, !.recs = disk[p]]]
  BY DEF ReadPage
<1>2. p \in Pages BY LeafOfIsLeaf DEF Types, TreeTypes
<1> DEFINE b == [NoBlock EXCEPT !.state = "FILE_PAGE", !.page = p, !.recs = disk[p]]
<1>3. /\ b \in BlockType /\ b.state = "FILE_PAGE" /\ b.page = p /\ b.recs = disk[p] /\ ~b.is_hashed
  BY <1>2, SearchAssumption DEF NoBlock, BlockType, Types, TreeTypes
<1> HIDE DEF b, need
<1>4. /\ block' \in [Frames -> BlockType] /\ block'[f] = b
      /\ \A g \in Frames \ {f} : block'[g] = block[g]
  BY <1>1, <1>3 DEF Types, b
<1>5. Writes(f, BlockFields) BY <1>4 DEF Writes, SameBlock
<1> QED BY ZenonT(60), <1>1, <1>2, <1>3, <1>4, <1>5 DEF ReadPage, LatchesUnchanged, SearchUnchanged, latch_vars

\* The index is latched: what the step changes.
LEMMA LatchTreeMoves ==
    ASSUME Types, NEW s \in Sessions, LatchTree(s)
    PROVE  /\ Goes(s, "tree", "descend", {}) /\ index_x = Nobody /\ index_x' = s
           /\ DataUnchanged /\ SearchUnchanged /\ UNCHANGED <<latch, todo>>
<1>1. s \in Procs /\ "descend" \in Labels BY DEF Procs, Labels
<1>2. Goes(s, "tree", "descend", {}) BY <1>1, GotoGoes DEF LatchTree, Types
<1> QED BY <1>2 DEF LatchTree, DataUnchanged, SearchUnchanged, page_vars

\* The leaf a search ends at, the leaves it latches, and its cursor.
Landed(s) == FrameOf(LeafOf(cur[s].mode, cur[s].key))
Landing(s) ==
    IF index_x = s THEN {FrameOf(q) : q \in {leaves[i] : i \in DOMAIN leaves}} ELSE {Landed(s)}

\* A page has one block in the pool.
LEMMA FrameOfPage ==
    ASSUME NEW q, BlockOf(q) # {}
    PROVE  FrameOf(q) \in Frames /\ PageOf(FrameOf(q)) /\ block[FrameOf(q)].page = q
<1>1. FrameOf(q) \in BlockOf(q) BY DEF FrameOf
<1> QED BY <1>1 DEF BlockOf, PageOf

\* The search down the tree ends on a leaf: what the step changes.
LEMMA DescendMoves ==
    ASSUME Types, NEW s \in Sessions, Descend(s)
    PROVE  /\ Goes(s, "descend", "info", {"frame", "rec"})
           /\ cur'[s].frame = Landed(s) /\ Landed(s) \in Landing(s)
           /\ block[Landed(s)].page = LeafOf(cur[s].mode, cur[s].key)
           /\ index_x = s => \A i \in DOMAIN leaves : \E g \in Landing(s) : block[g].page = leaves[i]
           /\ index_x # s => Landing(s) = {Landed(s)}
           /\ \A g \in Landing(s) :
                 g \in Frames /\ PageOf(g) /\ IsLeaf(block[g].page) /\ Free(g, Modifies(s))
           /\ LatchedBy(s, Landing(s), Modifies(s))
           /\ cur'[s].rec.frame = Landed(s) /\ cur'[s].rec.heap = block[Landed(s)].heap
           /\ cur'[s].rec.key \in Keys => cur'[s].rec.key \in block[Landed(s)].recs
           /\ index_x \in {Nobody, s}
           /\ DataUnchanged /\ SearchUnchanged /\ UNCHANGED <<index_x, todo>>
<1> DEFINE p == LeafOf(cur[s].mode, cur[s].key)
           f == Landed(s)
           need == IF index_x = s THEN {leaves[i] : i \in DOMAIN leaves} ELSE {p}
           rec == At(f, Position(block[f].recs, cur[s].mode, cur[s].key))
           c == [cur[s] EXCEPT !.frame = f, !.rec = rec]
<1>1. /\ index_x \in {Nobody, s} /\ Goto(s, "descend", "info") /\ Set(s, c)
      /\ \A q \in need : BlockOf(q) # {} /\ Free(FrameOf(q), Modifies(s))
      /\ LatchPages(s, {FrameOf(q) : q \in need}, Modifies(s))
      /\ DataUnchanged /\ SearchUnchanged /\ UNCHANGED <<index_x, todo>>
  BY DEF Descend, Landed, DataUnchanged, SearchUnchanged, page_vars
<1>2. IsLeaf(p) /\ p \in Pages /\ p \in need BY LeafOfIsLeaf DEF Types, IsLeaf
<1>3. \A q \in need : IsLeaf(q) BY <1>2 DEF IsLeaf
<1>4. Landing(s) = {FrameOf(q) : q \in need} BY DEF Landing, Landed
<1>5. \A q \in need : FrameOf(q) \in Frames /\ PageOf(FrameOf(q)) /\ block[FrameOf(q)].page = q
  BY <1>1, FrameOfPage
<1>6. f = FrameOf(p) /\ f \in Landing(s) /\ block[f].page = p /\ f \in Frames
  BY <1>2, <1>4, <1>5 DEF Landed
<1>7. \A g \in Landing(s) : g \in Frames /\ PageOf(g) /\ IsLeaf(block[g].page) /\ Free(g, Modifies(s))
  BY <1>1, <1>3, <1>4, <1>5
<1>8. index_x = s => \A i \in DOMAIN leaves : \E g \in Landing(s) : block[g].page = leaves[i]
  BY <1>4, <1>5
<1>9. LatchedBy(s, Landing(s), Modifies(s))
 <2>1. Landing(s) \in SUBSET Frames /\ Modifies(s) \in BOOLEAN /\ LatchTypes
   BY <1>7 DEF Types, Modifies
 <2> QED BY <1>1, <1>4, <2>1, PagesLatched
<1>10. cur[s] \in CallType /\ s \in Procs /\ "info" \in Labels /\ block[f] \in BlockType
  BY <1>6 DEF Types, ThreadTypes, Procs, Labels
<1>11. Position(block[f].recs, cur[s].mode, cur[s].key) \in block[f].recs \cup {Infimum, Supremum}
  BY <1>10, PositionIs DEF CallType, BlockType
<1>12. /\ rec \in Rec /\ rec.frame = f /\ rec.heap = block[f].heap
       /\ rec.key \in Keys => rec.key \in block[f].recs
 <2> DEFINE k == Position(block[f].recs, cur[s].mode, cur[s].key)
 <2>1. Infimum \notin Keys /\ Supremum \notin Keys /\ Keys \subseteq Infimum .. Supremum
       /\ {Infimum, Supremum} \subseteq Infimum .. Supremum
   BY KeysAre DEF Infimum, Supremum
 <2>2. k \in Infimum .. Supremum /\ (k \in Keys => k \in block[f].recs)
   BY <1>10, <1>11, <2>1 DEF BlockType
 <2> HIDE DEF k
 <2>3. rec = [frame |-> f, key |-> k, heap |-> block[f].heap] BY DEF At, k
 <2>4. block[f].heap \in {0, 1} BY <1>10 DEF BlockType
 <2> HIDE DEF f, rec
 <2> QED BY <1>6, <2>2, <2>3, <2>4 DEF Rec
<1> HIDE DEF rec, f
<1>13. c \in CallType /\ c.frame = f /\ c.rec = rec /\ SameCall(cur[s], c, {"frame", "rec"})
  BY Zenon, <1>6, <1>10, <1>12 DEF CallType, SameCall, CallFields
<1> HIDE DEF c
<1>14. Goes(s, "descend", "info", {"frame", "rec"}) /\ cur'[s] = c
  BY <1>1, <1>10, <1>13, SetGoes DEF Types
<1>15. index_x # s => Landing(s) = {Landed(s)} BY DEF Landing
<1> QED BY <1>1, <1>6, <1>7, <1>8, <1>9, <1>12, <1>13, <1>14, <1>15 DEF f

\* The fields that BuildOn sets.
LEMMA BuildOnMoves ==
    ASSUME Types, NEW p \in Procs, NEW a, pc[p] = a, NEW f \in Frames, NEW n \in DOMAIN Fold,
           NEW left \in BOOLEAN, BuildOn(p, f, n, left)
    PROVE  \E b \in {"build", "drop_check"} :
              /\ Goes(p, a, b, {"work", "n", "left", "next"})
              /\ cur'[p].work = f /\ cur'[p].n = n /\ cur'[p].left = left /\ cur'[p].next = "build"
              /\ b = "drop_check" => block[f].is_hashed
<1> DEFINE c == [cur[p] EXCEPT !.work = f, !.n = n, !.left = left, !.next = "build"]
           b == IF Differs(f, c) THEN "drop_check" ELSE "build"
<1>1. cur[p] \in CallType /\ b \in Labels /\ "build" \in Labels
  BY DEF Types, ThreadTypes, Procs, Labels
<1>2. /\ c \in CallType /\ c.work = f /\ c.n = n /\ c.left = left /\ c.next = "build"
      /\ SameCall(cur[p], c, {"work", "n", "left", "next"})
  BY ZenonT(60), <1>1 DEF CallType, SameCall, CallFields
<1>3. Set(p, c) /\ Goto(p, a, b) BY Zenon DEF BuildOn, Goto
<1>4. b = "drop_check" => block[f].is_hashed BY DEF Differs
<1> HIDE DEF c, b
<1>5. Goes(p, a, b, {"work", "n", "left", "next"}) /\ cur'[p] = c
  BY <1>1, <1>2, <1>3, SetGoes DEF Types
<1>6. b \in {"build", "drop_check"} BY DEF b
<1> QED BY <1>2, <1>4, <1>5, <1>6

\* btr_search_info_update: what the step changes.
LEMMA InfoUpdateMoves ==
    ASSUME Types, NEW s \in Sessions, InfoUpdate(s), cur[s].frame \in Frames
    PROVE  /\ \/ Goes(s, "info", "at", {})
              \/ cur[s].flag = "hash_fail" /\ Goes(s, "info", "ref", {})
              \/ \E b \in {"build", "drop_check"} :
                    /\ Goes(s, "info", b, {"work", "n", "left", "next"})
                    /\ cur'[s].work = cur[s].frame /\ cur'[s].next = "build"
           /\ DataUnchanged /\ LatchesUnchanged /\ SearchUnchanged /\ UNCHANGED todo
<1>1. s \in Procs /\ {"at", "ref"} \subseteq Labels /\ ThreadTypes BY DEF Procs, Labels, Types
<1>2. CASE Goto(s, "info", "at") /\ UNCHANGED <<cur, search_s, search_x>>
 <2>1. Goes(s, "info", "at", {}) BY <1>1, <1>2, GotoGoes
 <2> QED BY <1>2, <2>1 DEF InfoUpdate, DataUnchanged, LatchesUnchanged, SearchUnchanged, page_vars
<1>3. CASE cur[s].flag = "hash_fail" /\ Goto(s, "info", "ref") /\ UNCHANGED <<cur, search_s, search_x>>
 <2>1. Goes(s, "info", "ref", {}) BY <1>1, <1>3, GotoGoes
 <2> QED BY <1>3, <2>1 DEF InfoUpdate, DataUnchanged, LatchesUnchanged, SearchUnchanged, page_vars
<1>4. CASE /\ \E d \in plan.params : BuildOn(s, cur[s].frame, d.n, d.left)
           /\ SSection
 <2>1. PICK d \in plan.params : BuildOn(s, cur[s].frame, d.n, d.left) BY <1>4
 <2>2. d.n \in DOMAIN Fold /\ d.left \in BOOLEAN
   BY SearchAssumption DEF Types, ThreadTypes, PlanType, Params
 <2>3. pc[s] = "info" BY DEF InfoUpdate
 <2>4. \E b \in {"build", "drop_check"} :
                   /\ Goes(s, "info", b, {"work", "n", "left", "next"})
                   /\ cur'[s].work = cur[s].frame /\ cur'[s].next = "build"
   BY <1>1, <2>1, <2>2, <2>3, BuildOnMoves
 <2> QED
   BY <1>4, <2>4 DEF InfoUpdate, DataUnchanged, LatchesUnchanged, SearchUnchanged, SSection,
      page_vars
<1> QED BY <1>2, <1>3, <1>4 DEF InfoUpdate

\* The fold of a key by the parameters of a page.
LEMMA FoldIsFold ==
    ASSUME Types, NEW f \in Frames, NEW k \in Keys
    PROVE  /\ FoldOf(f, k) \in Folds /\ FoldOf(f, k) = Fold[block[f].n][k]
           /\ block[f].n \in DOMAIN Fold
<1>1. block[f].n \in DOMAIN Fold BY DEF Types, BlockType
<1>2. Fold[block[f].n] \in [Keys -> Folds] BY <1>1, SearchAssumption
<1> QED BY <1>1, <1>2 DEF FoldOf

\* What a new node says: a record of page f, by the first n fields.
NodeOf(f, n, v, node) ==
    /\ node.frame = f /\ node.heap = block[f].heap /\ node.key \in block[f].recs
    /\ Fold[n][node.key] = v

\* Every new node is of page f, by n fields.
Nodes(f, n) ==
    /\ hash' \in [Folds -> Rec \cup {NoRec}]
    /\ \A v \in Folds : hash'[v] # hash[v] => NodeOf(f, n, v, hash'[v])

\* What ha_insert_for_fold puts in the table.
LEMMA HashInsertNodes ==
    ASSUME Types, NEW f \in Frames, NEW n, NEW nodes, DOMAIN nodes \subseteq Folds, HashInsert(nodes),
           \A v \in DOMAIN nodes : nodes[v] \in Rec /\ NodeOf(f, n, v, nodes[v])
    PROVE  Nodes(f, n)
<1>1. PICK refused \in SUBSET {v \in DOMAIN nodes : hash[v] = NoRec} :
        hash' = [v \in Folds |-> IF v \in DOMAIN nodes \ refused THEN nodes[v] ELSE hash[v]]
  BY DEF HashInsert
<1> QED BY <1>1 DEF Nodes, Types

\* btr_search_update_hash_ref: what the step changes.
LEMMA UpdateHashRefMoves ==
    ASSUME Types, NEW s \in Sessions, UpdateHashRef(s), cur[s].frame \in Frames,
           cur[s].rec.frame = cur[s].frame, cur[s].rec.heap = block[cur[s].frame].heap,
           cur[s].rec.key \in Keys => cur[s].rec.key \in block[cur[s].frame].recs
    PROVE  /\ Goes(s, "ref", "info", {"flag"}) /\ cur'[s].flag = "binary"
           /\ hash' = hash \/ (Nodes(cur[s].frame, block[cur[s].frame].n) /\ block[cur[s].frame].is_hashed)
           /\ XSection(s) /\ LatchesUnchanged /\ UNCHANGED <<plan, block, disk, leaves, cut, todo>>
<1> DEFINE c == [cur[s] EXCEPT !.flag = "binary"]
           f == cur[s].frame
           k == cur[s].rec.key
<1>1. cur[s] \in CallType /\ s \in Procs /\ "info" \in Labels
  BY DEF Types, ThreadTypes, Procs, Labels
<1>2. c \in CallType /\ c.flag = "binary" /\ SameCall(cur[s], c, {"flag"})
  BY <1>1 DEF CallType, SameCall, CallFields, Flags
<1>3. Goto(s, "ref", "info") /\ Set(s, c) BY DEF UpdateHashRef
<1> HIDE DEF c
<1>4. Goes(s, "ref", "info", {"flag"}) /\ cur'[s] = c BY <1>1, <1>2, <1>3, SetGoes DEF Types
<1>5. CASE /\ block[f].is_hashed /\ k \in Keys
           /\ HashInsert([v \in {FoldOf(f, k)} |-> cur[s].rec])
 <2> DEFINE nodes == [v \in {FoldOf(f, k)} |-> cur[s].rec]
 <2>1. FoldOf(f, k) \in Folds BY <1>5, FoldIsFold
 <2>2. cur[s].rec \in Rec BY <1>1, SearchAssumption DEF CallType, NoRec
 <2>3. \A v \in DOMAIN nodes : nodes[v] \in Rec /\ NodeOf(f, block[f].n, v, nodes[v])
   BY Zenon, <1>5, <2>2 DEF NodeOf, FoldOf
 <2>4. DOMAIN nodes \subseteq Folds /\ HashInsert(nodes) BY <1>5, <2>1
 <2> HIDE DEF nodes
 <2>5. Nodes(f, block[f].n) BY <2>3, <2>4, HashInsertNodes
 <2> QED BY <1>2, <1>4, <1>5, <2>5 DEF UpdateHashRef, LatchesUnchanged, page_vars
<1> QED BY <1>2, <1>4, <1>5 DEF UpdateHashRef, LatchesUnchanged, page_vars

\* A search returns: what the step changes.
LEMMA SearchMoves ==
    ASSUME Types, NEW s \in Sessions, Search(s)
    PROVE  /\ Goes(s, "at", "idle", CallFields) /\ cur'[s] = NoCall
           /\ Unlatched(s) /\ DataUnchanged /\ SearchUnchanged /\ UNCHANGED todo
<1>1. /\ Unlatched(s) /\ cur' \in [Procs -> CallType] /\ cur'[s] = NoCall
      /\ UNCHANGED search_x /\ \A t \in Procs \ {s} : cur'[t] = cur[t]
  BY PagesUnlatched DEF Types, Search
<1>2. Goto(s, "at", "idle") /\ s \in Procs /\ "idle" \in Labels BY DEF Search, Procs, Labels
<1>3. Goes(s, "at", "idle", CallFields) BY <1>1, <1>2 DEF Goes, Goto, SameCall, Types, ThreadTypes
<1> QED BY <1>1, <1>3 DEF Search, DataUnchanged, SearchUnchanged, page_vars

\* The shortcut takes the search latch again: what the step changes.
LEMMA RelatchMoves ==
    ASSUME Types, NEW s \in Sessions, Relatch(s)
    PROVE  /\ cur[s].op = "read"
           /\ \E b \in {"reading", "done"} : Goes(s, "at", b, {})
           /\ search_x = Nobody /\ search_s' = search_s \cup {s}
           /\ DataUnchanged /\ LatchesUnchanged /\ UNCHANGED <<search_x, todo>>
<1> DEFINE b == IF cur[s].rec.key = cur[s].key THEN "reading" ELSE "done"
<1>1. s \in Procs /\ b \in Labels /\ b \in {"reading", "done"} BY DEF Procs, Labels
<1>2. Goto(s, "at", b) /\ cur' = cur BY DEF Relatch
<1> HIDE DEF b
<1>3. Goes(s, "at", b, {}) BY <1>1, <1>2, GotoGoes DEF Types
<1> QED BY <1>1, <1>3 DEF Relatch, Calling, DataUnchanged, LatchesUnchanged, page_vars

\* A read or a change returns: what the step changes.
LEMMA FinishMoves ==
    ASSUME Types, NEW s \in Sessions, Finish(s)
    PROVE  /\ \E a \in {"reading", "done"} : Goes(s, a, "idle", CallFields)
           /\ cur'[s] = NoCall /\ search_s' \in {search_s, search_s \ {s}}
           /\ Unlatched(s) /\ DataUnchanged /\ UNCHANGED <<search_x, todo>>
<1>1. /\ Unlatched(s) /\ cur' \in [Procs -> CallType] /\ cur'[s] = NoCall
      /\ UNCHANGED search_x /\ \A t \in Procs \ {s} : cur'[t] = cur[t]
  BY PagesUnlatched DEF Types, Finish
<1>2. /\ s \in Procs /\ "idle" \in Labels /\ pc[s] \in {"reading", "done"}
      /\ pc' = [pc EXCEPT ![s] = "idle"]
  BY DEF Finish, Procs, Labels
<1>3. Goes(s, pc[s], "idle", CallFields) BY <1>1, <1>2 DEF Goes, SameCall, Types, ThreadTypes
<1> QED BY <1>1, <1>2, <1>3 DEF Finish, DataUnchanged, page_vars

\* There is nothing to change: what the step changes.
LEMMA NothingMoves ==
    ASSUME Types, NEW s \in Sessions, Nothing(s)
    PROVE  /\ Goes(s, "at", "done", {}) /\ Modifies(s)
           /\ DataUnchanged /\ LatchesUnchanged /\ SearchUnchanged /\ UNCHANGED todo
<1>1. s \in Procs /\ "done" \in Labels /\ Goto(s, "at", "done") /\ cur' = cur
  BY DEF Procs, Labels, Nothing
<1>2. Goes(s, "at", "done", {}) BY <1>1, GotoGoes DEF Types
<1> QED BY <1>2 DEF Nothing, DataUnchanged, LatchesUnchanged, SearchUnchanged, page_vars, latch_vars

\* The change is tried with the tree latched: what the step changes.
LEMMA TryTreeMoves ==
    ASSUME Types, NEW s \in Sessions, TryTree(s)
    PROVE  /\ Goes(s, "at", "tree", Forgotten) /\ cur'[s].flag = "binary"
           /\ cur[s].op \in {"insert", "delete"} /\ index_x # s
           /\ search_s' = search_s \ {s}
           /\ latch' = [latch EXCEPT ![cur[s].frame].x = Nobody]
           /\ DataUnchanged /\ UNCHANGED <<index_x, search_x, todo>>
<1>1. Goes(s, "at", "tree", Forgotten) /\ cur'[s].flag = "binary" /\ search_s' = search_s \ {s}
  BY Forgets DEF Types, TryTree, Flags
<1> QED BY <1>1 DEF TryTree, Calling, DataUnchanged, page_vars

\* A label that IfHashed chooses.
LEMMA InsertMoves ==
    ASSUME Types, NEW s \in Sessions, Insert(s), cur[s].frame \in Frames
    PROVE  LET f == cur[s].frame
           IN  /\ Goes(s, "at", IF block[f].is_hashed THEN "hash_insert" ELSE "done", {"flag"})
               /\ cur[s].op = "insert" /\ cur[s].key \in Keys
               /\ cur'[s].flag \in {cur[s].flag, "binary"}
               /\ Writes(f, {"recs"}) /\ block'[f].recs = block[f].recs \cup {cur[s].key}
               /\ LatchesUnchanged /\ SearchUnchanged
               /\ UNCHANGED <<plan, hash, disk, leaves, cut, todo>>
<1> DEFINE f == cur[s].frame
           b == IF block[f].is_hashed THEN "hash_insert" ELSE "done"
           c == IF index_x = s THEN [cur[s] EXCEPT !.flag = "binary"] ELSE cur[s]
           d == [block[f] EXCEPT !.recs = @ \cup {cur[s].key}]
<1>1. cur[s] \in CallType /\ s \in Procs /\ b \in Labels /\ block[f] \in BlockType
  BY DEF Types, ThreadTypes, Procs, Labels
<1>2. c \in CallType /\ c.flag \in {cur[s].flag, "binary"} /\ SameCall(cur[s], c, {"flag"})
  BY <1>1 DEF CallType, SameCall, CallFields, Flags
<1>3. Goto(s, "at", b) /\ Set(s, c) BY DEF Insert, IfHashed
<1>4. /\ d \in BlockType /\ d.recs = block[f].recs \cup {cur[s].key}
      /\ SameBlock(block[f], d, {"recs"})
  BY <1>1 DEF BlockType, SameBlock, BlockFields, CallType
<1>5. block' = [block EXCEPT ![f] = d] BY DEF Insert
<1> HIDE DEF b, c, d
<1>6. Goes(s, "at", b, {"flag"}) /\ cur'[s] = c BY <1>1, <1>2, <1>3, SetGoes DEF Types
<1>7. Writes(f, {"recs"}) /\ block'[f] = d BY <1>4, <1>5 DEF Writes, Types
<1>8. cur[s].key \in Keys BY <1>1 DEF CallType
<1> QED
  BY <1>2, <1>4, <1>6, <1>7, <1>8 DEF Insert, Calling, LatchesUnchanged, SearchUnchanged,
     latch_vars, b

\* A page is to be reorganised: what the step changes.
LEMMA ReorganizeMoves ==
    ASSUME Types, NEW s \in Sessions, Reorganize(s), cur[s].frame \in Frames
    PROVE  /\ Goes(s, "at", "drop_check", {"work", "flag", "next"}) /\ cur[s].op = "insert"
           /\ cur'[s].work = cur[s].frame /\ cur'[s].flag = "binary" /\ cur'[s].next = "reorganised"
           /\ DataUnchanged /\ LatchesUnchanged /\ SearchUnchanged /\ UNCHANGED todo
<1> DEFINE c == [cur[s] EXCEPT !.work = cur[s].frame, !.flag = "binary", !.next = "reorganised"]
<1>1. cur[s] \in CallType /\ s \in Procs /\ "drop_check" \in Labels /\ "reorganised" \in Labels
  BY DEF Types, ThreadTypes, Procs, Labels
<1>2. /\ c \in CallType /\ SameCall(cur[s], c, {"work", "flag", "next"})
      /\ c.work = cur[s].frame /\ c.flag = "binary" /\ c.next = "reorganised"
  BY <1>1 DEF CallType, SameCall, CallFields, Flags
<1>3. Goto(s, "at", "drop_check") /\ Set(s, c) BY DEF Reorganize
<1> HIDE DEF c
<1>4. Goes(s, "at", "drop_check", {"work", "flag", "next"}) /\ cur'[s] = c
  BY <1>1, <1>2, <1>3, SetGoes DEF Types
<1> QED
  BY <1>2, <1>4 DEF Reorganize, Calling, DataUnchanged, LatchesUnchanged, SearchUnchanged,
     latch_vars, page_vars

\* A record is inserted in a reorganised page: what the step changes.
LEMMA InsertReorganizedMoves ==
    ASSUME Types, NEW s \in Sessions, InsertReorganized(s), cur[s].frame \in Frames
    PROVE  LET f == cur[s].frame
           IN  /\ Goes(s, "reorganised", IF block[f].is_hashed THEN "hash_insert" ELSE "done", {})
               /\ cur[s].key \in Keys
               /\ Writes(f, {"recs", "heap"}) /\ block'[f].recs = block[f].recs \cup {cur[s].key}
               /\ LatchesUnchanged /\ SearchUnchanged
               /\ UNCHANGED <<plan, hash, disk, leaves, cut, todo>>
<1> DEFINE f == cur[s].frame
           b == IF block[f].is_hashed THEN "hash_insert" ELSE "done"
           d == [block[f] EXCEPT !.recs = @ \cup {cur[s].key}, !.heap = 1 - @]
<1>1. cur[s] \in CallType /\ s \in Procs /\ b \in Labels /\ block[f] \in BlockType
  BY DEF Types, ThreadTypes, Procs, Labels
<1>2. Goto(s, "reorganised", b) /\ cur' = cur BY DEF InsertReorganized, IfHashed
<1>3. 1 - block[f].heap \in {0, 1} BY <1>1 DEF BlockType
<1>4. /\ d \in BlockType /\ d.recs = block[f].recs \cup {cur[s].key}
      /\ SameBlock(block[f], d, {"recs", "heap"})
  BY <1>1, <1>3 DEF BlockType, SameBlock, BlockFields, CallType
<1>5. block' = [block EXCEPT ![f] = d]
 <2>1. block' = [block EXCEPT ![f].recs = @ \cup {cur[s].key}, ![f].heap = 1 - @]
   BY DEF InsertReorganized
 <2>2. block \in [Frames -> BlockType] BY DEF Types
 <2> QED BY Zenon, <2>1, <2>2, <1>1 DEF BlockType
<1> HIDE DEF b, d
<1>6. Goes(s, "reorganised", b, {}) BY <1>1, <1>2, GotoGoes DEF Types
<1>7. Writes(f, {"recs", "heap"}) /\ block'[f] = d BY <1>4, <1>5 DEF Writes, Types
<1>8. cur[s].key \in Keys BY <1>1 DEF CallType
<1> QED
  BY Zenon, <1>4, <1>6, <1>7, <1>8 DEF InsertReorganized, LatchesUnchanged, SearchUnchanged,
     latch_vars, b

\* A key, and a place next to it, where a run of equal folds ends.
LEMMA NodesOnInsertAre ==
    ASSUME Types, NEW f \in Frames, NEW k \in block[f].recs
    PROVE  /\ DOMAIN NodesOnInsert(f, k) \subseteq Folds
           /\ \A v \in DOMAIN NodesOnInsert(f, k) :
                 NodesOnInsert(f, k)[v] \in Rec /\ NodeOf(f, block[f].n, v, NodesOnInsert(f, k)[v])
<1> DEFINE R == block[f].recs
           prev == Before(R, k)
           next == After(R, k)
           New(x, y) == x \notin Keys \/ y \notin Keys \/ FoldOf(f, x) # FoldOf(f, y)
           Ks == IF block[f].left
                 THEN {x \in {k} : New(prev, k)} \cup {x \in {next} \cap Keys : New(k, next)}
                 ELSE {x \in {prev} \cap Keys : New(prev, k)} \cup {x \in {k} : New(k, next)}
           Of(v) == {x \in Ks : FoldOf(f, x) = v}
<1>1. block[f] \in BlockType /\ R \in SUBSET Keys /\ k \in Keys /\ k \in Int
  BY KeysAre DEF Types, BlockType
<1>2. prev \in R \cup {Infimum} /\ next \in R \cup {Supremum} BY <1>1, BeforeIs, AfterIs
<1>3. Infimum \notin Keys /\ Supremum \notin Keys BY KeysAre DEF Infimum, Supremum
<1>4. Ks \subseteq R
 <2> HIDE DEF prev, next, New
 <2> QED BY <1>2, <1>3, <1>1
<1>5. NodesOnInsert(f, k) = [v \in {FoldOf(f, x) : x \in Ks} |-> At(f, Max(Of(v)))]
  BY DEF NodesOnInsert
<1> HIDE DEF Ks
<1>6. {FoldOf(f, x) : x \in Ks} \subseteq Folds BY <1>1, <1>4, FoldIsFold
<1>7. ASSUME NEW v \in {FoldOf(f, x) : x \in Ks}
      PROVE  At(f, Max(Of(v))) \in Rec /\ NodeOf(f, block[f].n, v, At(f, Max(Of(v))))
 <2>1. Of(v) # {} /\ Of(v) \subseteq R BY <1>4, <1>7
 <2>2. Of(v) \in SUBSET (0 .. MaxKey) /\ MaxKey \in Nat
  <3>1. \A x \in R : x \in 0 .. MaxKey BY <1>1, KeysAre
  <3> QED BY <2>1, <3>1, KeysAre
 <2>3. Max(Of(v)) \in Of(v)
  <3> HIDE DEF Of
  <3> QED BY <2>1, <2>2, MaxIsGreatest
 <2> DEFINE m == Max(Of(v))
 <2>4. m \in R /\ FoldOf(f, m) = v /\ m \in Infimum .. Supremum
  <3>1. \A x \in Keys : x \in Infimum .. Supremum BY KeysAre DEF Infimum, Supremum
  <3> QED BY <1>1, <2>1, <2>3, <3>1
 <2> HIDE DEF m
 <2>5. At(f, m) \in Rec BY <1>1, <2>4 DEF At, Rec, BlockType
 <2>6. NodeOf(f, block[f].n, v, At(f, m)) BY <2>4 DEF NodeOf, At, FoldOf
 <2> QED BY <2>5, <2>6 DEF m
<1> QED BY <1>5, <1>6, <1>7

\* btr_search_update_hash_on_insert: what the step changes.
LEMMA HashOnInsertMoves ==
    ASSUME Types, NEW s \in Sessions, HashOnInsert(s), cur[s].frame \in Frames,
           cur[s].key \in block[cur[s].frame].recs
    PROVE  /\ Goes(s, "hash_insert", "done", {}) /\ Nodes(cur[s].frame, block[cur[s].frame].n)
           /\ XSection(s) /\ LatchesUnchanged /\ UNCHANGED <<plan, block, disk, leaves, cut, todo>>
<1> DEFINE c == cur[s]
           f == c.frame
           v == Fold[c.n][c.key]
           moved == c.flag = "hash" /\ c.n = block[f].n /\ ~block[f].left
<1>1. /\ cur[s] \in CallType /\ s \in Procs /\ "done" \in Labels /\ block[f] \in BlockType
      /\ c.key \in Keys
  BY DEF Types, ThreadTypes, Procs, Labels, CallType
<1>2. Goes(s, "hash_insert", "done", {})
 <2>1. Goto(s, "hash_insert", "done") /\ cur' = cur BY DEF HashOnInsert
 <2> QED BY <1>1, <2>1, GotoGoes DEF Types
<1>3. CASE moved
 <2>1. hash' = IF hash[v] = c.rec THEN [hash EXCEPT ![v] = At(f, c.key)] ELSE hash
   BY Zenon, <1>3 DEF HashOnInsert
 <2>2. v \in Folds /\ v = Fold[block[f].n][c.key] BY <1>1, <1>3, FoldIsFold
 <2>3. At(f, c.key) \in Rec
  <3>1. c.key \in Infimum .. Supremum BY <1>1, KeysAre DEF Infimum, Supremum
  <3> QED BY <1>1, <3>1 DEF At, Rec, BlockType
 <2>4. NodeOf(f, block[f].n, v, At(f, c.key)) BY <2>2 DEF NodeOf, At
 <2> HIDE DEF v
 <2> QED
   BY Zenon, <2>1, <2>2, <2>3, <2>4, <1>2 DEF Nodes, Types, HashOnInsert, LatchesUnchanged,
      page_vars
<1>4. CASE ~moved
 <2>1. HashInsert(NodesOnInsert(f, c.key)) BY <1>4 DEF HashOnInsert
 <2>2. Nodes(f, block[f].n) BY <2>1, NodesOnInsertAre, HashInsertNodes
 <2> QED BY <1>2, <2>2 DEF HashOnInsert, LatchesUnchanged, page_vars
<1> QED BY <1>3, <1>4

\* btr_cur_optimistic_delete and btr_cur_pessimistic_delete begin: what the step changes.
LEMMA DeleteMoves ==
    ASSUME Types, NEW s \in Sessions, Delete(s), cur[s].frame \in Frames
    PROVE  LET f == cur[s].frame
           IN  /\ cur[s].op = "delete" /\ cur[s].rec.key = cur[s].key /\ cur'[s].work = f
               /\ \/ /\ Goes(s, "at", "drop_check", {"work", "next"}) /\ cur'[s].next = "emptied"
                     /\ index_x = s /\ Len(leaves) = 2
                  \/ /\ Goes(s, "at", IF block[f].is_hashed THEN "hash_delete" ELSE "remove", {"work", "next"})
                     /\ cur'[s].next = "remove"
               /\ DataUnchanged /\ LatchesUnchanged /\ SearchUnchanged /\ UNCHANGED todo
<1> DEFINE f == cur[s].frame
           discard == index_x = s /\ Len(leaves) = 2 /\ block[f].recs = {cur[s].key}
           b == IF discard THEN "drop_check" ELSE IfHashed(f, "hash_delete", "remove")
           n == IF discard THEN "emptied" ELSE "remove"
           c == [cur[s] EXCEPT !.work = f, !.next = n]
<1>1. cur[s] \in CallType /\ s \in Procs /\ b \in Labels /\ n \in Labels
  BY DEF Types, ThreadTypes, Procs, Labels, IfHashed
<1>2. Goto(s, "at", b) /\ Set(s, c) BY DEF Delete
<1> HIDE DEF n
<1>3. c \in CallType /\ SameCall(cur[s], c, {"work", "next"}) /\ c.work = f /\ c.next = n
  BY <1>1 DEF CallType, SameCall, CallFields
<1> HIDE DEF c, b
<1>4. Goes(s, "at", b, {"work", "next"}) /\ cur'[s] = c BY <1>1, <1>2, <1>3, SetGoes DEF Types
<1>5. CASE discard
  BY <1>3, <1>4, <1>5 DEF Delete, Calling, Found, DataUnchanged, LatchesUnchanged, SearchUnchanged,
     latch_vars, page_vars, b, n
<1>6. CASE ~discard
  BY Zenon, <1>3, <1>4, <1>6 DEF Delete, Calling, Found, DataUnchanged, LatchesUnchanged,
     SearchUnchanged, latch_vars, page_vars, b, n, IfHashed
<1> QED BY <1>5, <1>6

\* btr_search_update_hash_on_delete: what the step changes.
LEMMA HashOnDeleteMoves ==
    ASSUME Types, NEW s \in Sessions, HashOnDelete(s), cur[s].frame \in Frames
    PROVE  LET v == FoldOf(cur[s].frame, cur[s].key)
           IN  /\ Goes(s, "hash_delete", cur[s].next, {})
               /\ v \in Folds
               /\ hash' = IF hash[v] = cur[s].rec THEN [hash EXCEPT ![v] = NoRec] ELSE hash
               /\ hash' \in [Folds -> Rec \cup {NoRec}]
               /\ XSection(s) /\ LatchesUnchanged
               /\ UNCHANGED <<plan, block, disk, leaves, cut, todo>>
<1> DEFINE v == FoldOf(cur[s].frame, cur[s].key)
<1>1. cur[s].next \in Labels /\ s \in Procs /\ cur[s].key \in Keys
  BY DEF Types, ThreadTypes, CallType, Procs
<1>2. Goto(s, "hash_delete", cur[s].next) /\ cur' = cur BY DEF HashOnDelete
<1>3. Goes(s, "hash_delete", cur[s].next, {}) BY <1>1, <1>2, GotoGoes DEF Types
<1>4. v \in Folds BY <1>1, FoldIsFold
<1>5. hash' = IF hash[v] = cur[s].rec THEN [hash EXCEPT ![v] = NoRec] ELSE hash BY DEF HashOnDelete
<1> HIDE DEF v
<1>6. hash' \in [Folds -> Rec \cup {NoRec}] BY <1>5 DEF Types
<1> QED BY <1>3, <1>4, <1>5, <1>6 DEF HashOnDelete, LatchesUnchanged, page_vars, v

\* page_cur_delete_rec: what the step changes.
LEMMA RemoveMoves ==
    ASSUME Types, NEW s \in Sessions, Remove(s), cur[s].frame \in Frames
    PROVE  LET f == cur[s].frame
           IN  /\ \/ cur[s].op = "update" /\ Goes(s, "remove", "reinsert", {})
                  \/ cur[s].op = "delete" /\ Goes(s, "remove", "done", {})
                  \/ /\ cur[s].op = "delete" /\ index_x = s /\ Len(leaves) = 2
                     /\ Goes(s, "remove", "compress", {})
               /\ Writes(f, {"recs"}) /\ block'[f].recs = block[f].recs \ {cur[s].key}
               /\ LatchesUnchanged /\ SearchUnchanged
               /\ UNCHANGED <<plan, hash, disk, leaves, cut, todo>>
<1> DEFINE f == cur[s].frame
           d == [block[f] EXCEPT !.recs = @ \ {cur[s].key}]
<1>1. /\ s \in Procs /\ {"reinsert", "done", "compress"} \subseteq Labels
      /\ block[f] \in BlockType /\ cur' = cur
  BY DEF Types, Procs, Labels, Remove
<1>2. /\ Goto(s, "remove", "reinsert") => Goes(s, "remove", "reinsert", {})
      /\ Goto(s, "remove", "done") => Goes(s, "remove", "done", {})
      /\ Goto(s, "remove", "compress") => Goes(s, "remove", "compress", {})
  BY <1>1, GotoGoes DEF Types
<1>3. d \in BlockType /\ d.recs = block[f].recs \ {cur[s].key} /\ SameBlock(block[f], d, {"recs"})
  BY <1>1 DEF BlockType, SameBlock, BlockFields
<1>4. block' = [block EXCEPT ![f] = d] BY DEF Remove
<1> HIDE DEF d
<1>5. Writes(f, {"recs"}) /\ block'[f] = d BY <1>3, <1>4 DEF Writes, Types
<1> QED BY <1>2, <1>3, <1>5 DEF Remove, LatchesUnchanged, SearchUnchanged, latch_vars

\* btr_cur_optimistic_update of another size begins: what the step changes.
LEMMA UpdateBySizeMoves ==
    ASSUME Types, NEW s \in Sessions, UpdateBySize(s), cur[s].frame \in Frames
    PROVE  /\ Goes(s, "at", IF block[cur[s].frame].is_hashed THEN "hash_delete" ELSE "remove", {"next"})
           /\ cur[s].op = "update" /\ cur[s].rec.key = cur[s].key /\ cur'[s].next = "remove"
           /\ DataUnchanged /\ LatchesUnchanged /\ SearchUnchanged /\ UNCHANGED todo
<1> DEFINE b == IF block[cur[s].frame].is_hashed THEN "hash_delete" ELSE "remove"
           c == [cur[s] EXCEPT !.next = "remove"]
<1>1. cur[s] \in CallType /\ s \in Procs /\ b \in Labels /\ "remove" \in Labels
  BY DEF Types, ThreadTypes, Procs, Labels
<1>2. Goto(s, "at", b) /\ Set(s, c) BY DEF UpdateBySize, IfHashed
<1>3. c \in CallType /\ SameCall(cur[s], c, {"next"}) /\ c.next = "remove"
  BY <1>1 DEF CallType, SameCall, CallFields
<1> HIDE DEF c, b
<1>4. Goes(s, "at", b, {"next"}) /\ cur'[s] = c BY <1>1, <1>2, <1>3, SetGoes DEF Types
<1> QED
  BY <1>3, <1>4 DEF UpdateBySize, Calling, Found, DataUnchanged, LatchesUnchanged, SearchUnchanged,
     latch_vars, page_vars, b

\* The updated record is inserted again: what the step changes.
LEMMA ReinsertMoves ==
    ASSUME Types, NEW s \in Sessions, Reinsert(s), cur[s].frame \in Frames
    PROVE  LET f == cur[s].frame
           IN  /\ Goes(s, "reinsert", "done", {}) /\ cur[s].key \in Keys
               /\ Writes(f, {"recs"}) /\ block'[f].recs = block[f].recs \cup {cur[s].key}
               /\ LatchesUnchanged /\ SearchUnchanged
               /\ UNCHANGED <<plan, hash, disk, leaves, cut, todo>>
<1> DEFINE f == cur[s].frame
           d == [block[f] EXCEPT !.recs = @ \cup {cur[s].key}]
<1>1. /\ s \in Procs /\ "done" \in Labels /\ block[f] \in BlockType /\ cur[s].key \in Keys
      /\ Goto(s, "reinsert", "done") /\ cur' = cur
  BY DEF Types, ThreadTypes, CallType, Procs, Labels, Reinsert
<1>2. Goes(s, "reinsert", "done", {}) BY <1>1, GotoGoes DEF Types
<1>3. /\ d \in BlockType /\ d.recs = block[f].recs \cup {cur[s].key}
      /\ SameBlock(block[f], d, {"recs"})
  BY <1>1 DEF BlockType, SameBlock, BlockFields
<1>4. block' = [block EXCEPT ![f] = d] BY DEF Reinsert
<1> HIDE DEF d
<1>5. Writes(f, {"recs"}) /\ block'[f] = d BY <1>3, <1>4 DEF Writes, Types
<1> QED BY <1>1, <1>2, <1>3, <1>5 DEF Reinsert, LatchesUnchanged, SearchUnchanged, latch_vars

\* btr_cur_update_in_place begins: what the step changes.
LEMMA UpdateInPlaceMoves ==
    ASSUME Types, NEW s \in Sessions, UpdateInPlace(s), cur[s].frame \in Frames
    PROVE  /\ \E b \in {"hash_delete", "write_lock"} :
                 Goes(s, "at", IF block[cur[s].frame].is_hashed THEN b ELSE "writing", {"next"})
           /\ cur[s].op = "update" /\ cur[s].rec.key = cur[s].key /\ cur'[s].next = "write_lock"
           /\ DataUnchanged /\ LatchesUnchanged /\ SearchUnchanged /\ UNCHANGED todo
<1>1. PICK a \in {"hash_delete", "write_lock"} :
        Goto(s, "at", IF block[cur[s].frame].is_hashed THEN a ELSE "writing")
  BY DEF UpdateInPlace, IfHashed
<1> DEFINE b == IF block[cur[s].frame].is_hashed THEN a ELSE "writing"
           c == [cur[s] EXCEPT !.next = "write_lock"]
<1>2. cur[s] \in CallType /\ s \in Procs /\ b \in Labels /\ "write_lock" \in Labels
  BY DEF Types, ThreadTypes, Procs, Labels
<1>3. Goto(s, "at", b) /\ Set(s, c) BY <1>1 DEF UpdateInPlace
<1>4. c \in CallType /\ SameCall(cur[s], c, {"next"}) /\ c.next = "write_lock"
  BY <1>2 DEF CallType, SameCall, CallFields
<1> HIDE DEF c, b
<1>5. Goes(s, "at", b, {"next"}) /\ cur'[s] = c BY <1>2, <1>3, <1>4, SetGoes DEF Types
<1> QED
  BY <1>4, <1>5 DEF UpdateInPlace, Calling, Found, DataUnchanged, LatchesUnchanged, SearchUnchanged,
     latch_vars, page_vars, b

\* A writer in place takes the search latch: what the step changes.
LEMMA WriteLockMoves ==
    ASSUME Types, NEW s \in Sessions, WriteLock(s)
    PROVE  /\ Goes(s, "write_lock", "writing", {})
           /\ search_s = {} /\ search_x \in {Nobody, s} /\ search_x' = s
           /\ DataUnchanged /\ LatchesUnchanged /\ UNCHANGED <<search_s, todo>>
<1>1. s \in Procs /\ "writing" \in Labels /\ Goto(s, "write_lock", "writing") /\ cur' = cur
  BY DEF Procs, Labels, WriteLock
<1>2. Goes(s, "write_lock", "writing", {}) BY <1>1, GotoGoes DEF Types
<1> QED BY <1>2 DEF WriteLock, DataUnchanged, LatchesUnchanged, page_vars

\* A writer in place has written: what the step changes.
LEMMA WrittenMoves ==
    ASSUME Types, NEW s \in Sessions, Written(s)
    PROVE  /\ Goes(s, "writing", "done", {})
           /\ search_x' = IF search_x = s THEN Nobody ELSE search_x
           /\ DataUnchanged /\ LatchesUnchanged /\ UNCHANGED <<search_s, todo>>
<1>1. s \in Procs /\ "done" \in Labels /\ Goto(s, "writing", "done") /\ cur' = cur
  BY DEF Procs, Labels, Written
<1>2. Goes(s, "writing", "done", {}) BY <1>1, GotoGoes DEF Types
<1> QED BY <1>2 DEF Written, DataUnchanged, LatchesUnchanged, page_vars

\* btr_page_split_and_insert: what the step changes.
LEMMA SplitMoves ==
    ASSUME Types, BlocksAreRight, NEW s \in Sessions, Split(s), cur[s].frame \in Frames,
           PageOf(cur[s].frame), IsLeaf(block[cur[s].frame].page)
    PROVE  LET f == cur[s].frame
               g == cur'[s].other
           IN  /\ Goes(s, "at", "move", {"flag", "other"})
               /\ cur[s].op = "insert" /\ index_x = s /\ cur'[s].flag = "binary"
               /\ g \in Frames /\ g # f /\ Free(g, TRUE) /\ LatchedBy(s, {g}, TRUE)
               /\ \/ PageOf(g) /\ block'[g].is_hashed = block[g].is_hashed
                  \/ block[g].state = "NOT_USED" /\ ~block'[g].is_hashed
               /\ Writes(g, BlockFields) /\ block'[g].state = "FILE_PAGE"
               /\ block'[g].page \in Pages \ {block[f].page}
               /\ PageOf(g) => block[g].page = block'[g].page
               /\ BlockOf(block'[g].page) \subseteq {g}
               /\ leaves = <<block[f].page>>
               /\ leaves' \in {<<block[f].page, block'[g].page>>, <<block'[g].page, block[f].page>>}
               /\ block'[g].recs = {k \in block[f].recs : block'[g].page = leaves'[2] <=> cut' <= k}
               /\ cut' \in Keys /\ index_x' \in {Nobody, s}
               /\ SearchUnchanged /\ UNCHANGED <<plan, hash, disk, todo>>
<1> DEFINE f == cur[s].frame
           p == block[f].page
           q == CHOOSE r \in Pages : r # p
           All == block[f].recs \cup {cur[s].key}
           Room == IF BlockOf(q) # {} THEN BlockOf(q)
                   ELSE {g \in Frames : block[g].state = "NOT_USED"}
           Recs(right, split) == {k \in block[f].recs : IF right THEN k >= split ELSE k < split}
           New(g, right, split) == [(IF block[g].page = q THEN block[g] ELSE NoBlock) EXCEPT
                            !.state = "FILE_PAGE", !.page = q, !.recs = Recs(right, split)]
<1>1. /\ cur[s] \in CallType /\ s \in Procs /\ "move" \in Labels /\ block[f] \in BlockType
      /\ cur[s].key \in Keys
  BY DEF Types, ThreadTypes, CallType, Procs, Labels
<1>2. p \in Pages /\ leaves = <<p>>
 <2>1. leaves \in Seq(Pages) /\ Len(leaves) = 1 BY Zenon DEF Types, TreeTypes, Split
 <2>2. leaves = <<leaves[1]>> /\ leaves[1] \in Pages BY <2>1
 <2>3. leaves[1] = p BY <2>1 DEF IsLeaf
 <2> QED BY <2>2, <2>3
<1>3. q \in Pages /\ q # p
 <2>1. \E r \in Pages : r # p
  <3>1. SUFFICES ASSUME Pages = {p} PROVE FALSE BY <1>2
  <3>2. Cardinality({p}) = 1 BY FS_Singleton
  <3> QED BY <3>1, <3>2, SearchAssumption
 <2> QED BY <2>1
<1> HIDE DEF q
<1>4. PICK split \in All \ {Min(All)}, right \in BOOLEAN, g \in Room :
        /\ Free(g, TRUE)
        /\ block' = [block EXCEPT ![g] = New(g, right, split)]
        /\ leaves' = IF right THEN <<p, q>> ELSE <<q, p>>
        /\ cut' = split
        /\ LatchPages(s, {g}, TRUE)
        /\ Set(s, [cur[s] EXCEPT !.flag = "binary", !.other = g])
  BY Zenon DEF Split, q
<1>5. split \in Keys BY <1>1, <1>4 DEF BlockType
<1> DEFINE c == [cur[s] EXCEPT !.flag = "binary", !.other = g]
           b == New(g, right, split)
<1>6. /\ g \in Frames /\ g # f
      /\ \/ PageOf(g) /\ block[g].page = q
         \/ block[g].state = "NOT_USED" /\ BlockOf(q) = {}
  BY <1>3, <1>4 DEF BlockOf, PageOf
<1>7. BlockOf(q) \subseteq {g} BY <1>6 DEF BlockOf, BlocksAreRight, BlockIsRight, PageOf
<1>8. block[g] \in BlockType /\ (block[g].state = "NOT_USED" => block[g].page # q)
  BY <1>3, <1>6, SearchAssumption DEF Types, BlocksAreRight, BlockIsRight, PageOf
<1>9. NoBlock \in BlockType /\ ~NoBlock.is_hashed BY SearchAssumption DEF NoBlock, BlockType
<1>10. Recs(right, split) \in SUBSET Keys BY <1>1 DEF BlockType
<1> HIDE DEF Recs
<1>11. /\ b \in BlockType /\ b.state = "FILE_PAGE" /\ b.page = q /\ b.recs = Recs(right, split)
       /\ b.is_hashed = IF block[g].page = q THEN block[g].is_hashed ELSE FALSE
  BY <1>3, <1>8, <1>9, <1>10 DEF BlockType
<1> HIDE DEF New
<1>12. /\ block' \in [Frames -> BlockType] /\ block'[g] = b
       /\ \A h \in Frames \ {g} : block'[h] = block[h]
  BY <1>4, <1>6, <1>11 DEF Types
<1>13. Writes(g, BlockFields) BY <1>12 DEF Writes, SameBlock
<1>14. c \in CallType /\ SameCall(cur[s], c, {"flag", "other"}) /\ c.flag = "binary" /\ c.other = g
  BY <1>1, <1>6 DEF CallType, SameCall, CallFields, Flags
<1>15. Goto(s, "at", "move") /\ Set(s, c) BY Zenon, <1>4 DEF Split
<1> HIDE DEF c
<1>16. Goes(s, "at", "move", {"flag", "other"}) /\ cur'[s] = c
  BY <1>1, <1>14, <1>15, SetGoes DEF Types
<1>17. LatchedBy(s, {g}, TRUE) BY <1>4, <1>6, PagesLatched DEF Types
<1>18. \/ PageOf(g) /\ b.is_hashed = block[g].is_hashed
       \/ block[g].state = "NOT_USED" /\ ~b.is_hashed
  BY <1>6, <1>8, <1>11
<1>19. /\ leaves' \in {<<p, q>>, <<q, p>>}
       /\ b.recs = {k \in block[f].recs : q = leaves'[2] <=> cut' <= k}
 <2>1. b.recs = {k \in block[f].recs : IF right THEN k >= split ELSE k < split} BY <1>11 DEF Recs
 <2>2. \A k \in block[f].recs : k \in Int /\ split \in Int BY <1>1, <1>5, KeysAre DEF BlockType
 <2>3. CASE right BY <1>3, <1>4, <2>1, <2>2, <2>3
 <2>4. CASE ~right BY <1>3, <1>4, <2>1, <2>2
 <2> QED BY <2>3, <2>4
<1>20. PageOf(g) => block[g].page = q BY <1>6 DEF PageOf
<1> HIDE DEF b
<1> QED
  BY ZenonT(60), <1>2, <1>3, <1>4, <1>5, <1>6, <1>7, <1>11, <1>12, <1>13, <1>14, <1>16, <1>17, <1>18, <1>19,
       <1>20
     DEF Split, Calling, SearchUnchanged

\* btr_compress: what the step changes.
LEMMA CompressMoves ==
    ASSUME Types, NEW s \in Sessions, Compress(s), cur[s].frame \in Frames,
           IsLeaf(block[cur[s].frame].page), Len(leaves) = 2,
           \A i \in DOMAIN leaves : BlockOf(leaves[i]) # {}
    PROVE  LET f == cur[s].frame
               g == cur'[s].other
           IN  /\ Goes(s, "compress", "move", {"other"})
               /\ g \in Frames /\ g # f /\ PageOf(g)
               /\ leaves \in {<<block[f].page, block[g].page>>, <<block[g].page, block[f].page>>}
               /\ Writes(g, {"recs"}) /\ block'[g].recs = block[g].recs \cup block[f].recs
               /\ LatchesUnchanged /\ SearchUnchanged
               /\ UNCHANGED <<plan, hash, disk, leaves, cut, todo>>
<1> DEFINE f == cur[s].frame
           i == CHOOSE j \in DOMAIN leaves : leaves[j] # block[f].page
           g == FrameOf(leaves[i])
           c == [cur[s] EXCEPT !.other = g]
           d == [block[g] EXCEPT !.recs = @ \cup block[f].recs]
<1>1. /\ leaves \in Seq(Pages) /\ leaves[1] # leaves[2] /\ DOMAIN leaves = {1, 2}
      /\ leaves = <<leaves[1], leaves[2]>>
  BY DEF Types, TreeTypes
<1>2. i \in {1, 2} /\ leaves[i] # block[f].page BY <1>1
<1> HIDE DEF i
<1>3. g \in Frames /\ PageOf(g) /\ block[g].page = leaves[i] BY <1>1, <1>2, FrameOfPage
<1> HIDE DEF g
<1>4. g # f /\ leaves \in {<<block[f].page, block[g].page>>, <<block[g].page, block[f].page>>}
  BY <1>1, <1>2, <1>3 DEF IsLeaf
<1>5. /\ cur[s] \in CallType /\ s \in Procs /\ "move" \in Labels
      /\ block[f] \in BlockType /\ block[g] \in BlockType
  BY <1>3 DEF Types, ThreadTypes, Procs, Labels
<1>6. c \in CallType /\ SameCall(cur[s], c, {"other"}) /\ c.other = g
  BY <1>3, <1>5 DEF CallType, SameCall, CallFields
<1>7. /\ d \in BlockType /\ SameBlock(block[g], d, {"recs"})
      /\ d.recs = block[g].recs \cup block[f].recs
  BY <1>5 DEF BlockType, SameBlock, BlockFields
<1>8. Goto(s, "compress", "move") /\ Set(s, c) /\ block' = [block EXCEPT ![g] = d]
  BY Zenon DEF Compress, g, i
<1> HIDE DEF c, d
<1>9. Goes(s, "compress", "move", {"other"}) /\ cur'[s] = c BY <1>5, <1>6, <1>8, SetGoes DEF Types
<1>10. Writes(g, {"recs"}) /\ block'[g] = d BY <1>3, <1>7, <1>8 DEF Writes, Types
<1> QED
  BY Zenon, <1>3, <1>4, <1>6, <1>7, <1>9, <1>10 DEF Compress, LatchesUnchanged, SearchUnchanged,
     latch_vars

\* btr_search_move_or_delete_hash_entries: what the step changes.
LEMMA MoveHashMoves ==
    ASSUME Types, NEW s \in Sessions, MoveHash(s), cur[s].frame \in Frames, cur[s].other \in Frames
    PROVE  LET f == cur[s].frame
               g == cur[s].other
           IN  /\ \/ /\ block[g].is_hashed /\ Goes(s, "move", "drop_check", {"work", "next"})
                     /\ cur'[s].work = f /\ cur'[s].next = "moved"
                  \/ /\ ~block[g].is_hashed /\ block[f].is_hashed
                     /\ Goes(s, "move", "build", {"work", "n", "left", "next"})
                     /\ cur'[s].work = g /\ cur'[s].n = block[f].n /\ cur'[s].next = "build"
                  \/ /\ ~block[g].is_hashed /\ (~block[f].is_hashed \/ block[g].recs = {})
                     /\ Goes(s, "move", "moved", {})
               /\ DataUnchanged /\ LatchesUnchanged /\ SearchUnchanged /\ UNCHANGED todo
<1> DEFINE f == cur[s].frame
           g == cur[s].other
           c == [cur[s] EXCEPT !.work = f, !.next = "moved"]
<1>1. /\ cur[s] \in CallType /\ s \in Procs /\ {"moved", "drop_check"} \subseteq Labels
      /\ block[f] \in BlockType /\ block[g] \in BlockType /\ pc[s] = "move"
  BY DEF Types, ThreadTypes, Procs, Labels, MoveHash
<1>2. DataUnchanged /\ LatchesUnchanged /\ SearchUnchanged /\ UNCHANGED todo
  BY DEF MoveHash, SSection, DataUnchanged, LatchesUnchanged, SearchUnchanged, page_vars
<1>3. CASE block[g].is_hashed
 <2>1. Goto(s, "move", "drop_check") /\ Set(s, c) BY <1>3 DEF MoveHash
 <2>2. c \in CallType /\ SameCall(cur[s], c, {"work", "next"}) /\ c.work = f /\ c.next = "moved"
   BY <1>1 DEF CallType, SameCall, CallFields
 <2> HIDE DEF c
 <2>3. Goes(s, "move", "drop_check", {"work", "next"}) /\ cur'[s] = c
   BY <1>1, <2>1, <2>2, SetGoes DEF Types
 <2> QED BY <1>2, <1>3, <2>2, <2>3
<1>4. CASE ~block[g].is_hashed /\ block[f].is_hashed /\ block[g].recs # {}
 <2>1. BuildOn(s, g, block[f].n, block[f].left) BY <1>4 DEF MoveHash
 <2>2. block[f].n \in DOMAIN Fold /\ block[f].left \in BOOLEAN BY <1>1 DEF BlockType
 <2>3. PICK b \in {"build", "drop_check"} :
             /\ Goes(s, "move", b, {"work", "n", "left", "next"})
             /\ cur'[s].work = g /\ cur'[s].n = block[f].n /\ cur'[s].left = block[f].left
             /\ cur'[s].next = "build"
             /\ b = "drop_check" => block[g].is_hashed
   BY <1>1, <2>1, <2>2, BuildOnMoves
 <2> QED BY <1>2, <1>4, <2>3
<1>5. CASE ~block[g].is_hashed /\ ~(block[f].is_hashed /\ block[g].recs # {})
 <2>1. Goto(s, "move", "moved") /\ cur' = cur BY <1>5 DEF MoveHash
 <2>2. Goes(s, "move", "moved", {}) BY <1>1, <2>1, GotoGoes DEF Types
 <2> QED BY <1>2, <1>5, <2>2
<1> QED BY <1>3, <1>4, <1>5

\* A merged page is to lose its hash index: what the step changes.
LEMMA MergeEndMoves ==
    ASSUME Types, NEW s \in Sessions, MergeEnd(s)
    PROVE  /\ Goes(s, "moved", "drop_check", {"work", "next"}) /\ cur[s].op = "delete"
           /\ cur'[s].work = cur[s].frame /\ cur'[s].next = "emptied"
           /\ DataUnchanged /\ LatchesUnchanged /\ SearchUnchanged /\ UNCHANGED todo
<1> DEFINE c == [cur[s] EXCEPT !.work = cur[s].frame, !.next = "emptied"]
<1>1. cur[s] \in CallType /\ s \in Procs /\ {"emptied", "drop_check"} \subseteq Labels
  BY DEF Types, ThreadTypes, Procs, Labels
<1>2. Goto(s, "moved", "drop_check") /\ Set(s, c) BY DEF MergeEnd
<1>3. /\ c \in CallType /\ SameCall(cur[s], c, {"work", "next"}) /\ c.work = cur[s].frame
      /\ c.next = "emptied"
  BY Zenon, <1>1 DEF CallType, SameCall, CallFields
<1> HIDE DEF c
<1>4. Goes(s, "moved", "drop_check", {"work", "next"}) /\ cur'[s] = c
  BY <1>1, <1>2, <1>3, SetGoes DEF Types
<1> QED
  BY <1>3, <1>4 DEF MergeEnd, DataUnchanged, LatchesUnchanged, SearchUnchanged, latch_vars,
     page_vars

\* btr_page_free: what the step changes.
LEMMA FreePageMoves ==
    ASSUME Types, NEW s \in Sessions, FreePage(s), Len(leaves) = 2, IsLeaf(block[cur[s].frame].page)
    PROVE  /\ Goes(s, "emptied", "done", {})
           /\ \E i \in {1, 2} : /\ leaves' = <<leaves[i]>> /\ leaves[i] \in Pages
                                /\ leaves[3 - i] = block[cur[s].frame].page
                                /\ leaves[3 - i] # leaves[i]
           /\ LatchesUnchanged /\ SearchUnchanged
           /\ UNCHANGED <<plan, hash, block, disk, cut, todo>>
<1>1. s \in Procs /\ "done" \in Labels /\ Goto(s, "emptied", "done") /\ cur' = cur
  BY DEF Procs, Labels, FreePage
<1>2. Goes(s, "emptied", "done", {}) BY <1>1, GotoGoes DEF Types
<1>3. leaves \in Seq(Pages) /\ leaves[1] # leaves[2] /\ DOMAIN leaves = {1, 2}
  BY DEF Types, TreeTypes
<1>4. PICK i \in DOMAIN leaves : leaves[i] # block[cur[s].frame].page /\ leaves' = <<leaves[i]>>
  BY DEF FreePage
<1>5. leaves[3 - i] = block[cur[s].frame].page /\ leaves[3 - i] # leaves[i] /\ leaves[i] \in Pages
 <2>1. CASE i = 1 BY <1>3, <1>4, <2>1 DEF IsLeaf
 <2>2. CASE i = 2 BY <1>3, <1>4, <2>2 DEF IsLeaf
 <2> QED BY <1>3, <2>1, <2>2
<1> QED BY <1>2, <1>3, <1>4, <1>5 DEF FreePage, LatchesUnchanged, SearchUnchanged, latch_vars

\* The search latch is given up at the end of a statement: what the step changes.
LEMMA ReleaseSearchLatchMoves ==
    ASSUME Types, NEW s \in Sessions, ReleaseSearchLatch(s)
    PROVE  /\ pc[s] = "idle" /\ UNCHANGED <<pc, cur>> /\ search_s' = search_s \ {s}
           /\ DataUnchanged /\ LatchesUnchanged /\ UNCHANGED <<search_x, todo>>
  BY DEF ReleaseSearchLatch, DataUnchanged, LatchesUnchanged, page_vars

\* rw_lock_x_lock reserves the search latch: what the step changes.
LEMMA ReserveMoves ==
    ASSUME Types, NEW p \in Procs, Reserve(p)
    PROVE  /\ pc[p] \in XLabels /\ UNCHANGED <<pc, cur>> /\ search_x = Nobody /\ search_x' = p
           /\ search_s # {} /\ DataUnchanged /\ LatchesUnchanged /\ UNCHANGED <<search_s, todo>>
  BY DEF Reserve, DataUnchanged, LatchesUnchanged, page_vars

\* The end of a split: what the step changes.
LEMMA SplitEndMoves ==
    ASSUME Types, NEW s \in Sessions, SplitEnd(s), cur[s].frame \in Frames, cur[s].other \in Frames
    PROVE  LET f == cur[s].frame
               g == cur[s].other
               h == cur'[s].frame
           IN  /\ h = IF block[f].page = LeafOf("LE", cur[s].key) THEN f ELSE g
               /\ Goes(s, "moved", IF block[h].is_hashed THEN "hash_insert" ELSE "done", {"frame"})
               /\ cur[s].op = "insert" /\ cur[s].key \in Keys
               /\ block' \in [Frames -> BlockType]
               /\ \A e \in Frames :
                     /\ SameBlock(block[e], block'[e], {"recs"})
                     /\ e # f /\ e # h => block'[e] = block[e]
                     /\ block'[e].recs =
                           (IF e = f THEN block[f].recs \ block[g].recs ELSE block[e].recs)
                               \cup (IF e = h THEN {cur[s].key} ELSE {})
               /\ LatchesUnchanged /\ SearchUnchanged
               /\ UNCHANGED <<plan, hash, disk, leaves, cut, todo>>
<1> DEFINE f == cur[s].frame
           g == cur[s].other
           h == IF block[f].page = LeafOf("LE", cur[s].key) THEN f ELSE g
           b == IF block[h].is_hashed THEN "hash_insert" ELSE "done"
           c == [cur[s] EXCEPT !.frame = h]
           R(e) == IF e = f THEN block[f].recs \ block[g].recs ELSE block[e].recs
           N(e) == IF e = h THEN R(e) \cup {cur[s].key} ELSE R(e)
<1>1. /\ cur[s] \in CallType /\ s \in Procs /\ b \in Labels /\ cur[s].key \in Keys /\ h \in Frames
      /\ block \in [Frames -> BlockType]
  BY DEF Types, ThreadTypes, CallType, Procs, Labels
<1>2. /\ Goto(s, "moved", b) /\ Set(s, c)
      /\ block' = [e \in Frames |-> [block[e] EXCEPT !.recs = N(e)]]
  BY Zenon DEF SplitEnd, IfHashed
<1>3. c \in CallType /\ SameCall(cur[s], c, {"frame"}) /\ c.frame = h
  BY <1>1 DEF CallType, SameCall, CallFields
<1> HIDE DEF c, b, h
<1>4. Goes(s, "moved", b, {"frame"}) /\ cur'[s] = c BY <1>1, <1>2, <1>3, SetGoes DEF Types
<1>5. \A e \in Frames : N(e) \in SUBSET Keys BY <1>1 DEF BlockType
<1>6. ASSUME NEW e \in Frames
      PROVE  /\ block'[e] \in BlockType /\ SameBlock(block[e], block'[e], {"recs"}) /\ block'[e].recs = N(e)
             /\ e # f /\ e # h => block'[e] = block[e]
 <2>1. block'[e] = [block[e] EXCEPT !.recs = N(e)] BY <1>2
 <2>2. e # f /\ e # h => N(e) = block[e].recs OBVIOUS
 <2>3. N(e) \in SUBSET Keys /\ block[e] \in BlockType BY <1>1, <1>5
 <2> HIDE DEF N
 <2> QED BY <2>1, <2>2, <2>3 DEF BlockType, SameBlock, BlockFields
<1>7. block' \in [Frames -> BlockType] BY <1>2, <1>6
<1>8. cur'[s].frame = h BY <1>3, <1>4
<1>9. \A e \in Frames : N(e) = (IF e = f THEN block[f].recs \ block[g].recs ELSE block[e].recs)
                               \cup (IF e = h THEN {cur[s].key} ELSE {})
  OBVIOUS
<1> HIDE DEF N, R
<1>10. Goes(s, "moved", IF block[cur'[s].frame].is_hashed THEN "hash_insert" ELSE "done", {"frame"})
  BY <1>4, <1>8 DEF b
<1>11. \A e \in Frames :
                     /\ SameBlock(block[e], block'[e], {"recs"})
                     /\ e # f /\ e # cur'[s].frame => block'[e] = block[e]
                     /\ block'[e].recs =
                           (IF e = f THEN block[f].recs \ block[g].recs ELSE block[e].recs)
                               \cup (IF e = cur'[s].frame THEN {cur[s].key} ELSE {})
  BY <1>6, <1>8, <1>9
<1>12. cur'[s].frame = IF block[f].page = LeafOf("LE", cur[s].key) THEN f ELSE g BY <1>8 DEF h
<1>13. /\ cur[s].op = "insert" /\ LatchesUnchanged /\ SearchUnchanged
       /\ UNCHANGED <<plan, hash, disk, leaves, cut, todo>>
  BY DEF SplitEnd, LatchesUnchanged, SearchUnchanged, latch_vars
<1> QED BY Zenon, <1>1, <1>7, <1>10, <1>11, <1>12, <1>13

\* The nodes of a page: every fold of a record has one.
LEMMA HashedAre ==
    ASSUME Types, NEW f \in Frames, NEW n \in DOMAIN Fold, NEW left \in BOOLEAN
    PROVE  /\ DOMAIN Hashed(f, n, left) \subseteq Folds
           /\ \A v \in DOMAIN Hashed(f, n, left) :
                 Hashed(f, n, left)[v] \in Rec /\ NodeOf(f, n, v, Hashed(f, n, left)[v])
           /\ \A k \in block[f].recs : Fold[n][k] \in DOMAIN Hashed(f, n, left)
<1> DEFINE R == block[f].recs
           F(k) == Fold[n][k]
           Near(k) == IF left THEN Before(R, k) ELSE After(R, k)
           Ends == {k \in R : Near(k) \notin Keys \/ F(Near(k)) # F(k)}
           Of(v) == {k \in Ends : F(k) = v}
<1>1. block[f] \in BlockType /\ R \in SUBSET Keys /\ \A k \in Keys : F(k) \in Folds /\ k \in Int
  BY SearchAssumption, KeysAre DEF Types, BlockType
<1>2. Hashed(f, n, left) = [v \in {F(k) : k \in Ends} |-> At(f, Max(Of(v)))] BY DEF Hashed
<1>3. \A k \in R : k \in 0 .. MaxKey /\ k \in Nat BY <1>1, KeysAre
<1>4. ASSUME NEW k \in R PROVE F(k) \in {F(j) : j \in Ends}
 <2> DEFINE S == {r \in R : F(r) = F(k)}
 <2>1. S \in SUBSET (0 .. MaxKey) /\ S \in SUBSET Nat /\ S # {} /\ MaxKey \in Nat
  <3>1. \A r \in S : r \in 0 .. MaxKey /\ r \in Nat BY <1>3
  <3>2. k \in S OBVIOUS
  <3> HIDE DEF S
  <3> QED BY <3>1, <3>2, KeysAre
 <2>2. Infimum \notin Keys /\ Supremum \notin Keys BY KeysAre DEF Infimum, Supremum
 <2>3. CASE left
  <3> DEFINE m == Min(S)
  <3>1. m \in S /\ \A y \in S : m <= y
   <4> HIDE DEF S
   <4> QED BY <2>1, MinIsLeast
  <3> HIDE DEF m
  <3>2. m \in R /\ F(m) = F(k) /\ m \in Int BY <1>3, <3>1
  <3>3. Before(R, m) \in R \cup {Infimum} /\ (Before(R, m) # Infimum => Before(R, m) < m)
    BY <1>1, <3>2, BeforeIs
  <3>4. Near(m) = Before(R, m) BY <2>3
  <3>5. Near(m) \notin Keys \/ F(Near(m)) # F(m)
   <4>1. SUFFICES ASSUME Near(m) \in Keys, F(Near(m)) = F(m) PROVE FALSE OBVIOUS
   <4>2. Before(R, m) \in R /\ Before(R, m) < m /\ Before(R, m) \in S
     BY <2>2, <3>2, <3>3, <3>4, <4>1
   <4> QED BY <1>3, <3>1, <3>2, <4>2
  <3> QED BY <3>2, <3>5
 <2>4. CASE ~left
  <3> DEFINE m == Max(S)
  <3>1. m \in S /\ \A y \in S : m >= y
   <4> HIDE DEF S
   <4> QED BY <2>1, MaxIsGreatest
  <3> HIDE DEF m
  <3>2. m \in R /\ F(m) = F(k) /\ m \in Int BY <1>3, <3>1
  <3>3. After(R, m) \in R \cup {Supremum} /\ (After(R, m) # Supremum => After(R, m) > m)
    BY <1>1, <3>2, AfterIs
  <3>4. Near(m) = After(R, m) BY <2>4
  <3>5. Near(m) \notin Keys \/ F(Near(m)) # F(m)
   <4>1. SUFFICES ASSUME Near(m) \in Keys, F(Near(m)) = F(m) PROVE FALSE OBVIOUS
   <4>2. After(R, m) \in R /\ After(R, m) > m /\ After(R, m) \in S
     BY <2>2, <3>2, <3>3, <3>4, <4>1
   <4> QED BY <1>3, <3>1, <3>2, <4>2
  <3> QED BY <3>2, <3>5
 <2> QED BY <2>3, <2>4
<1>5. {F(k) : k \in Ends} \subseteq Folds BY <1>1
<1>6. Ends \subseteq R OBVIOUS
<1> HIDE DEF Ends
<1>7. ASSUME NEW v \in {F(k) : k \in Ends}
      PROVE  At(f, Max(Of(v))) \in Rec /\ NodeOf(f, n, v, At(f, Max(Of(v))))
 <2>1. Of(v) # {} /\ Of(v) \subseteq R BY <1>6, <1>7
 <2>2. Of(v) \in SUBSET (0 .. MaxKey) /\ MaxKey \in Nat BY <1>3, <2>1, KeysAre
 <2>3. Max(Of(v)) \in Of(v)
  <3> HIDE DEF Of
  <3> QED BY <2>1, <2>2, MaxIsGreatest
 <2> DEFINE m == Max(Of(v))
 <2>4. m \in R /\ F(m) = v /\ m \in Infimum .. Supremum
  <3>1. \A x \in Keys : x \in Infimum .. Supremum BY KeysAre DEF Infimum, Supremum
  <3> QED BY <1>1, <2>1, <2>3, <3>1
 <2> HIDE DEF m
 <2>5. At(f, m) \in Rec BY <1>1, <2>4 DEF At, Rec, BlockType
 <2>6. NodeOf(f, n, v, At(f, m)) BY <2>4 DEF NodeOf, At
 <2> QED BY <2>5, <2>6 DEF m
<1> QED BY <1>2, <1>4, <1>5, <1>7

\* btr_search_build_page_hash_index: what the step changes.
LEMMA BuildMoves ==
    ASSUME Types, NEW p \in Procs, Build(p), cur[p].work \in Frames
    PROVE  LET f == cur[p].work
               n == cur[p].n
           IN  /\ Goes(p, "build", IF cur[p].work = cur[p].frame THEN "at" ELSE "moved", {})
               /\ XSection(p) /\ n \in DOMAIN Fold
               /\ \/ UNCHANGED <<hash, block>> /\ block[f].is_hashed
                  \/ /\ Writes(f, {"is_hashed", "n", "left"})
                     /\ block'[f].is_hashed /\ block'[f].n = n
                     /\ block[f].is_hashed => block[f].n = n
                     /\ Nodes(f, n)
                     /\ \A k \in block[f].recs, v \in Folds :
                           v = Fold[n][k] => hash'[v] = NoRec \/ hash'[v].frame = f
               /\ LatchesUnchanged /\ UNCHANGED <<plan, disk, leaves, cut, todo>>
<1> DEFINE f == cur[p].work
           n == cur[p].n
           left == cur[p].left
           b == IF cur[p].work = cur[p].frame THEN "at" ELSE "moved"
           d == [block[f] EXCEPT !.is_hashed = TRUE, !.n = n, !.left = left]
           nodes == Hashed(f, n, left)
<1>1. /\ n \in DOMAIN Fold /\ left \in BOOLEAN /\ p \in Procs /\ b \in Labels
      /\ block[f] \in BlockType /\ Goto(p, "build", b) /\ cur' = cur
  BY DEF Types, ThreadTypes, CallType, Labels, Build
<1>2. Goes(p, "build", b, {}) BY <1>1, GotoGoes DEF Types
<1>3. CASE Differs(f, cur[p]) BY Zenon, <1>1, <1>2, <1>3 DEF Build, Differs, LatchesUnchanged
<1>4. CASE ~Differs(f, cur[p])
 <2>1. /\ d \in BlockType /\ SameBlock(block[f], d, {"is_hashed", "n", "left"}) /\ d.is_hashed
       /\ d.n = n
   BY <1>1 DEF BlockType, SameBlock, BlockFields
 <2>2. HashInsert(nodes) BY <1>4 DEF Build
 <2>3. block' = [block EXCEPT ![f] = d]
  <3>1. block' = [block EXCEPT ![f].is_hashed = TRUE, ![f].n = n, ![f].left = left]
    BY Zenon, <1>4 DEF Build
  <3>2. block \in [Frames -> BlockType] BY DEF Types
  <3> QED BY <3>1, <3>2, <1>1 DEF BlockType
 <2> HIDE DEF d
 <2>4. Writes(f, {"is_hashed", "n", "left"}) /\ block'[f] = d BY <2>1, <2>3 DEF Writes, Types
 <2>5. /\ DOMAIN nodes \subseteq Folds
       /\ \A v \in DOMAIN nodes : nodes[v] \in Rec /\ NodeOf(f, n, v, nodes[v])
       /\ \A k \in block[f].recs : Fold[n][k] \in DOMAIN nodes
   BY <1>1, HashedAre
 <2> HIDE DEF nodes
 <2>6. Nodes(f, n) BY <2>2, <2>5, HashInsertNodes
 <2>7. \A v \in DOMAIN nodes : hash'[v] = NoRec \/ hash'[v].frame = f
   BY <2>2, <2>5 DEF HashInsert, NodeOf
 <2>8. block[f].is_hashed => block[f].n = n BY <1>4 DEF Differs
 <2> QED BY Zenon, <1>1, <1>2, <2>1, <2>4, <2>5, <2>6, <2>7, <2>8 DEF Build, LatchesUnchanged
<1> QED BY <1>3, <1>4

\* btr_search_drop_page_hash_index, first half: what the step changes.
LEMMA DropCheckMoves ==
    ASSUME Types, NEW p \in Procs, DropCheck(p), cur[p].work \in Frames
    PROVE  LET f == cur[p].work
           IN  /\ Goes(p, "drop_check", IF block[f].is_hashed THEN "drop" ELSE cur[p].next, {"folds", "was"})
               /\ block[f].is_hashed => /\ cur'[p].was = block[f].n
                                        /\ cur'[p].folds = {Fold[block[f].n][k] : k \in block[f].recs}
               /\ DataUnchanged /\ LatchesUnchanged /\ SearchUnchanged /\ UNCHANGED todo
<1> DEFINE f == cur[p].work
           b == IF block[f].is_hashed THEN "drop" ELSE cur[p].next
           folds == {FoldOf(f, k) : k \in block[f].recs}
           c == [cur[p] EXCEPT !.folds = folds, !.was = block[f].n]
<1>1. /\ cur[p] \in CallType /\ b \in Labels /\ block[f] \in BlockType /\ Goto(p, "drop_check", b)
      /\ block[f].recs \in SUBSET Keys
  BY DEF Types, ThreadTypes, CallType, BlockType, Labels, DropCheck
<1>2. folds \in SUBSET Folds /\ block[f].n \in DOMAIN Fold
 <2>1. \A k \in block[f].recs : FoldOf(f, k) \in Folds BY <1>1, FoldIsFold
 <2> QED BY <1>1, <2>1 DEF BlockType
<1>3. folds = {Fold[block[f].n][k] : k \in block[f].recs} BY DEF FoldOf
<1> HIDE DEF folds, b
<1>4. /\ c \in CallType /\ SameCall(cur[p], c, {"folds", "was"})
      /\ c.was = block[f].n /\ c.folds = folds
  BY <1>1, <1>2 DEF CallType, SameCall, CallFields
<1>5. CASE block[f].is_hashed
 <2>1. Set(p, c) BY <1>5 DEF DropCheck, folds
 <2> HIDE DEF c
 <2>2. Goes(p, "drop_check", b, {"folds", "was"}) /\ cur'[p] = c
   BY <1>1, <1>4, <2>1, SetGoes DEF Types
 <2> QED
   BY Zenon, <1>3, <1>4, <2>2 DEF DropCheck, SSection, DataUnchanged, LatchesUnchanged,
      SearchUnchanged, page_vars, b
<1>6. CASE ~block[f].is_hashed
 <2>1. cur' = cur BY <1>6 DEF DropCheck
 <2>2. Goes(p, "drop_check", b, {}) BY <1>1, <2>1, GotoGoes DEF Types
 <2>3. Goes(p, "drop_check", b, {"folds", "was"}) BY <2>2 DEF Goes, SameCall
 <2> QED
   BY <1>6, <2>3 DEF DropCheck, SSection, DataUnchanged, LatchesUnchanged, SearchUnchanged,
      page_vars, b
<1> QED BY Zenon, <1>5, <1>6

\* btr_search_drop_page_hash_index, second half: what the step changes.
LEMMA DropMoves ==
    ASSUME Types, NEW p \in Procs, Drop(p), cur[p].work \in Frames
    PROVE  LET f == cur[p].work
               retry == block[f].is_hashed /\ block[f].n # cur[p].was
           IN  /\ Goes(p, "drop", IF retry THEN "drop_check" ELSE cur[p].next, {"folds", "was"})
               /\ XSection(p)
               /\ \/ (retry \/ ~block[f].is_hashed) /\ UNCHANGED <<hash, block>>
                  \/ /\ block[f].is_hashed /\ block[f].n = cur[p].was
                     /\ hash' \in [Folds -> Rec \cup {NoRec}]
                     /\ \A v \in Folds :
                           hash'[v] = IF v \in cur[p].folds /\ hash[v].frame = f THEN NoRec ELSE hash[v]
                     /\ Writes(f, {"is_hashed"}) /\ ~block'[f].is_hashed
               /\ LatchesUnchanged /\ UNCHANGED <<plan, disk, leaves, cut, todo>>
<1> DEFINE f == cur[p].work
           retry == block[f].is_hashed /\ block[f].n # cur[p].was
           b == IF retry THEN "drop_check" ELSE cur[p].next
           c == [cur[p] EXCEPT !.folds = {}, !.was = 1]
           d == [block[f] EXCEPT !.is_hashed = FALSE]
<1>1. /\ cur[p] \in CallType /\ b \in Labels /\ block[f] \in BlockType /\ Goto(p, "drop", b)
      /\ Set(p, c)
      /\ block[f].is_hashed \in BOOLEAN
  BY Zenon DEF Types, ThreadTypes, CallType, BlockType, Labels, Drop
<1>2. c \in CallType /\ SameCall(cur[p], c, {"folds", "was"})
  BY <1>1, SearchAssumption DEF CallType, SameCall, CallFields
<1> HIDE DEF b, c
<1>3. Goes(p, "drop", b, {"folds", "was"}) BY <1>1, <1>2, SetGoes DEF Types
<1>4. CASE retry \/ ~block[f].is_hashed BY Zenon, <1>3, <1>4 DEF Drop, LatchesUnchanged, b
<1>5. CASE ~(retry \/ ~block[f].is_hashed)
 <2>1. hash' = [v \in Folds |-> IF v \in cur[p].folds /\ hash[v].frame = f THEN NoRec ELSE hash[v]]
   BY <1>5 DEF Drop
 <2>2. hash' \in [Folds -> Rec \cup {NoRec}] BY <2>1 DEF Types
 <2>3. d \in BlockType /\ SameBlock(block[f], d, {"is_hashed"}) /\ ~d.is_hashed
   BY <1>1 DEF BlockType, SameBlock, BlockFields
 <2>4. block' = [block EXCEPT ![f] = d] BY <1>5 DEF Drop
 <2> HIDE DEF d
 <2>5. Writes(f, {"is_hashed"}) /\ ~block'[f].is_hashed BY <2>3, <2>4 DEF Writes, Types
 <2> QED BY Zenon, <1>1, <1>3, <1>5, <2>1, <2>2, <2>5 DEF Drop, LatchesUnchanged, b
<1> QED BY <1>4, <1>5

\* buf_LRU_block_remove_hashed_page: what the step changes.
LEMMA EvictMoves ==
    ASSUME Types, Evict
    PROVE  \E f \in Frames :
               /\ PageOf(f) /\ Free(f, TRUE)
               /\ Goes(Lru, "idle", "drop_check", CallFields)
               /\ cur'[Lru].work = f /\ cur'[Lru].next = "free"
               /\ Writes(f, {"state", "page"}) /\ block'[f].state = "REMOVE_HASH"
               /\ block'[f].page = NoPage
               /\ disk' = [disk EXCEPT ![block[f].page] = block[f].recs]
               /\ disk' \in [Pages -> SUBSET Keys]
               /\ LatchesUnchanged /\ SearchUnchanged /\ UNCHANGED <<plan, hash, leaves, cut, todo>>
<1>1. PICK f \in Frames :
          /\ block[f].state = "FILE_PAGE" /\ Free(f, TRUE)
          /\ block' = [block EXCEPT ![f].state = "REMOVE_HASH", ![f].page = NoPage]
          /\ disk' = [disk EXCEPT ![block[f].page] = block[f].recs]
          /\ Set(Lru, [NoCall EXCEPT !.work = f, !.next = "free"])
  BY DEF Evict
<1> DEFINE c == [NoCall EXCEPT !.work = f, !.next = "free"]
           d == [block[f] EXCEPT !.state = "REMOVE_HASH", !.page = NoPage]
<1>2. c \in CallType /\ c.work = f /\ c.next = "free" BY ZenonT(60), EmptyCall DEF CallType, Labels
<1>3. SameCall(cur[Lru], c, CallFields) BY DEF SameCall
<1>4. Lru \in Procs /\ "drop_check" \in Labels /\ Goto(Lru, "idle", "drop_check") /\ Set(Lru, c)
  BY <1>1 DEF Procs, Labels, Evict
<1> HIDE DEF c
<1>5. Goes(Lru, "idle", "drop_check", CallFields) /\ cur'[Lru] = c
  BY <1>2, <1>3, <1>4, SetGoes DEF Types
<1>6. block \in [Frames -> BlockType] /\ block[f] \in BlockType BY DEF Types
<1>7. /\ d \in BlockType /\ SameBlock(block[f], d, {"state", "page"}) /\ d.state = "REMOVE_HASH"
      /\ d.page = NoPage
  BY <1>6 DEF BlockType, SameBlock, BlockFields
<1>8. block' = [block EXCEPT ![f] = d] BY <1>1, <1>6 DEF BlockType
<1> HIDE DEF d
<1>9. Writes(f, {"state", "page"}) /\ block'[f] = d BY <1>6, <1>7, <1>8 DEF Writes
<1>10. disk' \in [Pages -> SUBSET Keys] BY <1>1, <1>6 DEF Types, TreeTypes, BlockType
<1> QED
  BY <1>1, <1>2, <1>5, <1>7, <1>9, <1>10 DEF Evict, PageOf, LatchesUnchanged, SearchUnchanged,
     latch_vars

\* buf_LRU_block_free_hashed_page: what the step changes.
LEMMA FreeBlockMoves ==
    ASSUME Types, FreeBlock, cur[Lru].work \in Frames
    PROVE  LET f == cur[Lru].work
           IN  /\ Goes(Lru, "free", "idle", CallFields)
               /\ Writes(f, BlockFields) /\ block'[f] = NoBlock
               /\ LatchesUnchanged /\ SearchUnchanged
               /\ UNCHANGED <<plan, hash, disk, leaves, cut, todo>>
<1> DEFINE f == cur[Lru].work
<1>1. SameCall(cur[Lru], NoCall, CallFields) BY DEF SameCall
<1>2. Lru \in Procs /\ "idle" \in Labels /\ Goto(Lru, "free", "idle") /\ Set(Lru, NoCall)
  BY DEF Procs, Labels, FreeBlock
<1>3. Goes(Lru, "free", "idle", CallFields) BY <1>1, <1>2, EmptyCall, SetGoes DEF Types
<1>4. NoBlock \in BlockType BY SearchAssumption DEF NoBlock, BlockType
<1>5. block' = [block EXCEPT ![f] = NoBlock] /\ block \in [Frames -> BlockType]
  BY DEF FreeBlock, Types
<1>6. Writes(f, BlockFields) /\ block'[f] = NoBlock BY <1>4, <1>5 DEF Writes, SameBlock
<1> QED BY <1>3, <1>6 DEF FreeBlock, LatchesUnchanged, SearchUnchanged, latch_vars

-----------------------------------------------------------------------------
(* What a step of one thread leaves alone of another *)

\* A step leaves session t, its latches and what they protect alone.
Spares(t) ==
    /\ pc'[t] = pc[t] /\ cur'[t] = cur[t]
    /\ t \in search_s' <=> t \in search_s
    /\ index_x' = t <=> index_x = t
    /\ search_x' = t <=> search_x = t
    /\ \A f \in Frames : /\ latch'[f].x = t <=> latch[f].x = t
                         /\ t \in latch'[f].s <=> t \in latch[f].s
    /\ \A f \in Frames : Holds(t, f) =>
          /\ block'[f].state = block[f].state /\ block'[f].page = block[f].page
          /\ block'[f].recs = block[f].recs /\ block'[f].heap = block[f].heap
    /\ \A f \in Frames : HoldsX(t, f) =>
          /\ block'[f] = block[f]
          /\ \A v \in Folds : hash'[v].frame = f => hash'[v] = hash[v]
    /\ OnLeaf(t) => leaves' = leaves /\ cut' = cut
    /\ t \in search_s => hash' = hash

\* A thread whose part of the state a step spares is right after it.
LEMMA SparedIsRight ==
    ASSUME Types, NEW t \in Sessions, SessionIsRight(t), Spares(t)
    PROVE  SessionIsRight(t)'
<1>a. cur[t] \in CallType /\ pc'[t] = pc[t] /\ cur'[t] = cur[t] /\ t \in Sessions /\ t \in Procs
  BY DEF Types, ThreadTypes, Spares, Procs
<1>1. OpIsRight(t)' BY <1>a DEF SessionIsRight, OpIsRight, Spares, Modifies, Hashing
<1>2. FlagIsRight(t)' BY <1>a DEF SessionIsRight, FlagIsRight, Arrived, Hashing
<1>3. NodeIsKept(t)' BY <1>a DEF SessionIsRight, NodeIsKept, Spares
<1>4. LatchesAreRight(t)'
  BY <1>a DEF SessionIsRight, LatchesAreRight, Spares, OnLeaf, Hashing, Modifies, Holds, HoldsX,
     PageOf, IsLeaf
<1>5. CursorIsRight(t)'
  BY <1>a DEF SessionIsRight, CursorIsRight, LatchesAreRight, HasCursor, Arrived, Spares, OnLeaf,
     Hashing, Modifies, Holds, HoldsX
<1>6. NodesAreRight(t)'
  BY <1>a DEF SessionIsRight, NodesAreRight, OpIsRight, LatchesAreRight, MoveIsRight, Moving,
     Spares, OnLeaf, Hashing, Modifies, Holds, HoldsX
<1>7. WorkIsRight(t)'
  BY <1>a DEF SessionIsRight, WorkIsRight, MoveIsRight, Moving, Spares, Hashing, Holds, HoldsX
<1>8. FoldsAreRight(t)'
  BY <1>a DEF SessionIsRight, FoldsAreRight, WorkIsRight, LatchesAreRight, Spares, OnLeaf, Hashing,
     Modifies, Holds, HoldsX
<1>9. MoveIsRight(t)'
  BY DEF SessionIsRight, MoveIsRight, Moving, Spares, OnLeaf, Hashing, HoldsX
<1>10. KeyBelongs(t)'
  BY DEF SessionIsRight, KeyBelongs, LatchesAreRight, LeafOf, HasCursor, Arrived, Spares, OnLeaf,
     Modifies
<1>11. GuessIsChecked(t)'
  BY <1>a DEF SessionIsRight, GuessIsChecked, LatchesAreRight, Spares, OnLeaf, Hashing, Modifies,
     Holds
<1> QED BY <1>1, <1>2, <1>3, <1>4, <1>5, <1>6, <1>7, <1>8, <1>9, <1>10, <1>11 DEF SessionIsRight

-----------------------------------------------------------------------------
(* What keeps the parts that are not about one session *)

\* The search latch is as another thread left it, or s has taken it or given it up.
SearchKept(s) ==
    /\ search_s' \subseteq Sessions /\ search_x' \in Procs \cup {Nobody}
    /\ \A t \in Sessions \ {s} : t \in search_s' <=> t \in search_s
    /\ search_x' # search_x => search_x \in {Nobody, s} /\ search_x' \in {Nobody, s}
    /\ search_x' = s => pc'[s] \in XLabels \cup {"writing"}
    /\ search_x' = s /\ pc'[s] = "writing" => search_s' = {}
    /\ search_s' \subseteq search_s \/ search_x' = Nobody

\* Who has, or waits for, the search latch x-latched has a reason to, after a step of another.
LEMMA SearchLatchKept ==
    ASSUME Types, SearchLatchIsRight, NEW s \in Sessions, NEW a, NEW b, NEW F, Goes(s, a, b, F), SearchKept(s)
    PROVE  SearchLatchIsRight'
<1>1. Nobody \notin Procs /\ s \in Procs BY SearchAssumption DEF Procs
<1>2. \A p \in Procs : search_x' = p => pc'[p] \in XLabels \cup {"writing"}
  BY <1>1 DEF SearchLatchIsRight, SearchKept, Goes
<1>3. \A t \in Sessions : search_x' = t /\ pc'[t] = "writing" => search_s' = {}
  BY <1>1 DEF SearchLatchIsRight, SearchKept, Goes, Procs
<1> QED BY <1>2, <1>3 DEF SearchLatchIsRight, XLabels

\* What a step spares is kept.
LEMMA OthersAreRight ==
    ASSUME Types, NEW s \in Sessions, \A t \in Sessions : SessionIsRight(t), SessionIsRight(s)',
           \A t \in Sessions \ {s} : Spares(t)
    PROVE  \A t \in Sessions : SessionIsRight(t)'
  BY SparedIsRight

\* A step of a session leaves the thread that frees blocks alone.
LEMMA LruIsKept ==
    ASSUME Types, LruIsRight, FoldsAreRight(Lru), pc'[Lru] = pc[Lru], cur'[Lru] = cur[Lru],
           \A f \in Frames : block[f].state = "REMOVE_HASH" => block'[f] = block[f]
    PROVE  LruIsRight' /\ FoldsAreRight(Lru)'
  BY DEF LruIsRight, FoldsAreRight

\* A step that changes no page keeps the order of the leaves.
LEMMA InOrderKept ==
    ASSUME Types, InOrder, NEW s \in Sessions, Moving(s) => Moving(s)',
           \A t \in Sessions \ {s} : pc'[t] = pc[t] /\ cur'[t] = cur[t],
           UNCHANGED <<block, disk, leaves, cut>>
    PROVE  InOrder'
<1>1. \A t \in Sessions : Moving(t) => Moving(t)' BY DEF Moving
<1>2. \A i \in {1, 2} : RecsOf(leaves[i])' = RecsOf(leaves[i]) BY DEF RecsOf, BlockOf, FrameOf
<1>3. Len(leaves') = Len(leaves) /\ leaves' = leaves /\ cut' = cut OBVIOUS
<1> QED BY <1>1, <1>2, <1>3 DEF InOrder

\* A step that only moves a session, and takes or gives up the search latch.
LEMMA QuietKeeps ==
    ASSUME IInv, NEW s \in Sessions, NEW a, NEW b, NEW F, Goes(s, a, b, F), DataUnchanged, LatchesUnchanged,
           todo' \in [Sessions -> Seq(SUBSET Calls)], SearchKept(s), Moving(s) => Moving(s)', SessionIsRight(s)'
    PROVE  IInv'
<1>1. /\ Types /\ SearchLatchIsRight /\ LruIsRight /\ FoldsAreRight(Lru) /\ NodesAreValid
      /\ InOrder /\ BlocksAreRight
  BY DEF IInv
<1>2. Lru \in Procs \ {s} /\ \A t \in Sessions \ {s} : t \in Procs \ {s}
  BY SearchAssumption DEF Procs
<1>3. Types'
  BY <1>1 DEF Types, ThreadTypes, LatchTypes, TreeTypes, Goes, DataUnchanged, LatchesUnchanged,
     SearchKept
<1>4. \A t \in Sessions \ {s} : pc'[t] = pc[t] /\ cur'[t] = cur[t] BY <1>2 DEF Goes
<1>5. ASSUME NEW t \in Sessions \ {s} PROVE Spares(t)
 <2>1. search_x' = t <=> search_x = t BY SearchAssumption DEF SearchKept
 <2> QED BY <1>4, <2>1 DEF Spares, SearchKept, DataUnchanged, LatchesUnchanged
<1>6. \A t \in Sessions : SessionIsRight(t)' BY <1>1, <1>5, OthersAreRight DEF IInv
<1>7. pc'[Lru] = pc[Lru] /\ cur'[Lru] = cur[Lru] BY <1>2 DEF Goes
<1>8. LruIsRight' /\ FoldsAreRight(Lru)' BY <1>1, <1>7, LruIsKept DEF DataUnchanged
<1>9. BlocksAreRight'
  BY <1>1, <1>7 DEF BlocksAreRight, BlockIsRight, DataUnchanged, LatchesUnchanged, PageOf, IsLeaf
<1>10. NodesAreValid' BY <1>1 DEF NodesAreValid, NodeIsValid, DataUnchanged
<1>11. InOrder' BY <1>1, <1>4, InOrderKept DEF DataUnchanged
<1>12. SearchLatchIsRight' BY <1>1, SearchLatchKept
<1> QED BY <1>3, <1>6, <1>8, <1>9, <1>10, <1>11, <1>12 DEF IInv

\* A step that changes the pages that a session has x-latched.
LEMMA WritesKeep ==
    ASSUME IInv, NEW s \in Sessions, NEW a, NEW b, NEW F, Goes(s, a, b, F),
           block' \in [Frames -> BlockType],
           \A f \in Frames : SameBlock(block[f], block'[f], {"recs", "heap"}),
           \A f \in Frames : HoldsX(s, f) \/ block'[f] = block[f],
           LatchesUnchanged, SearchUnchanged, UNCHANGED <<plan, hash, disk, leaves, cut, todo>>,
           search_x # s,
           SessionIsRight(s)', NodesAreValid', InOrder'
    PROVE  IInv'
<1>1. Types /\ SearchLatchIsRight /\ LruIsRight /\ FoldsAreRight(Lru) /\ BlocksAreRight BY DEF IInv
<1>2. Lru \in Procs \ {s} /\ \A t \in Sessions \ {s} : t \in Procs \ {s}
  BY SearchAssumption DEF Procs
<1>3. Types'
  BY <1>1 DEF Types, ThreadTypes, LatchTypes, TreeTypes, Goes, LatchesUnchanged, SearchUnchanged
<1>4. \A f \in Frames : /\ block'[f].state = block[f].state /\ block'[f].page = block[f].page
                        /\ block'[f].is_hashed = block[f].is_hashed
  BY DEF SameBlock, BlockFields
<1>5. ASSUME NEW t \in Sessions \ {s} PROVE Spares(t)
 <2>1. \A f \in Frames : Holds(t, f) => block'[f] = block[f]
   BY <1>1, SearchAssumption DEF Holds, HoldsX, BlocksAreRight, BlockIsRight
 <2> QED BY <1>2, <2>1 DEF Spares, SearchUnchanged, LatchesUnchanged, Goes, Holds, HoldsX
<1>6. \A t \in Sessions : SessionIsRight(t)' BY <1>1, <1>5, OthersAreRight DEF IInv
<1>7. \A f \in Frames : block[f].state = "REMOVE_HASH" => block'[f] = block[f]
  BY <1>1, SearchAssumption DEF BlocksAreRight, BlockIsRight, HoldsX, PageOf
<1>8. LruIsRight' /\ FoldsAreRight(Lru)' BY <1>1, <1>2, <1>7, LruIsKept DEF Goes
<1>9. BlocksAreRight'
  BY <1>1, <1>2, <1>4 DEF BlocksAreRight, BlockIsRight, LatchesUnchanged, PageOf, IsLeaf, Goes
<1>10. SearchLatchIsRight' BY <1>1, <1>2 DEF SearchLatchIsRight, SearchUnchanged, Goes, XLabels
<1> QED BY <1>3, <1>6, <1>8, <1>9, <1>10 DEF IInv

\* A step under the search latch that changes nodes of a page that is latched.
LEMMA HashKeeps ==
    ASSUME IInv, NEW s \in Sessions, NEW a, NEW b, NEW F, Goes(s, a, b, F),
           hash' \in [Folds -> Rec \cup {NoRec}],
           NEW f \in Frames, Holds(s, f), block[f].state = "FILE_PAGE",
           \A v \in Folds : \/ hash'[v] = hash[v] \/ hash'[v] = NoRec
                            \/ NodeOf(f, block[f].n, v, hash'[v]) /\ block[f].is_hashed,
           XSection(s), LatchesUnchanged, UNCHANGED <<plan, block, disk, leaves, cut, todo>>,
           Moving(s) => Moving(s)', SessionIsRight(s)'
    PROVE  IInv'
<1>1. /\ Types /\ SearchLatchIsRight /\ LruIsRight /\ FoldsAreRight(Lru) /\ NodesAreValid
      /\ InOrder /\ BlocksAreRight
  BY DEF IInv
<1>2. Lru \in Procs \ {s} /\ \A t \in Sessions \ {s} : t \in Procs \ {s}
  BY SearchAssumption DEF Procs
<1>3. search_x' = Nobody /\ search_s' = {} /\ search_s = {} /\ search_x \in {Nobody, s}
  BY DEF XSection
<1>4. Types' BY <1>1, <1>3 DEF Types, ThreadTypes, LatchTypes, TreeTypes, Goes, LatchesUnchanged
<1>5. ASSUME NEW t \in Sessions \ {s} PROVE Spares(t)
 <2>1. \A g \in Frames : HoldsX(t, g) => g # f
   BY <1>1, SearchAssumption DEF Holds, HoldsX, BlocksAreRight, BlockIsRight
 <2>2. \A g \in Frames : HoldsX(t, g) => \A v \in Folds : hash'[v].frame = g => hash'[v] = hash[v]
   BY <2>1, SearchAssumption DEF NodeOf, NoRec
 <2>3. search_x' = t <=> search_x = t BY <1>3, SearchAssumption
 <2> QED BY <1>2, <1>3, <2>2, <2>3 DEF Spares, LatchesUnchanged, Goes
<1>6. \A t \in Sessions : SessionIsRight(t)' BY <1>1, <1>5, OthersAreRight DEF IInv
<1>7. LruIsRight' /\ FoldsAreRight(Lru)' BY <1>1, <1>2, LruIsKept DEF Goes
<1>8. BlocksAreRight'
  BY <1>1, <1>2 DEF BlocksAreRight, BlockIsRight, LatchesUnchanged, PageOf, IsLeaf, Goes
<1>9. NodesAreValid' BY <1>1 DEF NodesAreValid, NodeIsValid, NodeOf
<1>10. InOrder' BY <1>1, <1>2, InOrderKept DEF Goes
<1>11. SearchLatchIsRight' BY <1>3, SearchAssumption DEF SearchLatchIsRight, Procs
<1> QED BY <1>4, <1>6, <1>7, <1>8, <1>9, <1>10, <1>11 DEF IInv

\* A step that latches or unlatches pages for a session.
LEMMA LatchingKeeps ==
    ASSUME IInv, NEW s \in Sessions, NEW a, NEW b, NEW F, Goes(s, a, b, F), DataUnchanged, UNCHANGED todo,
           latch' \in [Frames -> [x : Sessions \cup {Nobody}, s : SUBSET Sessions]],
           index_x' \in Sessions \cup {Nobody},
           index_x' # index_x => index_x \in {Nobody, s} /\ index_x' \in {Nobody, s},
           \A f \in Frames, t \in Sessions \ {s} :
               (latch'[f].x = t <=> latch[f].x = t) /\ (t \in latch'[f].s <=> t \in latch[f].s),
           \A f \in Frames : ~PageOf(f) => latch'[f].x = Nobody /\ latch'[f].s = {},
           \A f \in Frames : latch'[f].x # Nobody => latch'[f].s = {},
           SearchKept(s), ~Moving(s), SessionIsRight(s)'
    PROVE  IInv'
<1>1. /\ Types /\ SearchLatchIsRight /\ LruIsRight /\ FoldsAreRight(Lru) /\ NodesAreValid
      /\ InOrder /\ BlocksAreRight
  BY DEF IInv
<1>2. Lru \in Procs \ {s} /\ \A t \in Sessions \ {s} : t \in Procs \ {s}
  BY SearchAssumption DEF Procs
<1>3. Types' BY <1>1 DEF Types, ThreadTypes, LatchTypes, TreeTypes, Goes, DataUnchanged, SearchKept
<1>4. \A t \in Sessions \ {s} : pc'[t] = pc[t] /\ cur'[t] = cur[t] BY <1>2 DEF Goes
<1>5. ASSUME NEW t \in Sessions \ {s} PROVE Spares(t)
 <2>1. (search_x' = t <=> search_x = t) /\ (index_x' = t <=> index_x = t)
   BY SearchAssumption DEF SearchKept
 <2> QED BY <1>4, <2>1 DEF Spares, SearchKept, DataUnchanged
<1>6. \A t \in Sessions : SessionIsRight(t)' BY <1>1, <1>5, OthersAreRight DEF IInv
<1>7. pc'[Lru] = pc[Lru] /\ cur'[Lru] = cur[Lru] BY <1>2 DEF Goes
<1>8. LruIsRight' /\ FoldsAreRight(Lru)' BY <1>1, <1>7, LruIsKept DEF DataUnchanged
<1>9. BlocksAreRight' BY <1>1, <1>7 DEF BlocksAreRight, BlockIsRight, DataUnchanged, PageOf, IsLeaf
<1>10. NodesAreValid' BY <1>1 DEF NodesAreValid, NodeIsValid, DataUnchanged
<1>11. InOrder' BY <1>1, <1>4, InOrderKept DEF DataUnchanged
<1>12. SearchLatchIsRight' BY <1>1, SearchLatchKept
<1> QED BY <1>3, <1>6, <1>8, <1>9, <1>10, <1>11, <1>12 DEF IInv

\* A page that is in the pool has one block.
LEMMA RecsAre ==
    ASSUME BlocksAreRight, NEW f \in Frames, PageOf(f)
    PROVE  /\ BlockOf(block[f].page) = {f} /\ FrameOf(block[f].page) = f
           /\ RecsOf(block[f].page) = block[f].recs
<1>1. BlockOf(block[f].page) = {f} BY DEF BlocksAreRight, BlockIsRight, BlockOf, PageOf
<1>2. FrameOf(block[f].page) = f BY <1>1 DEF FrameOf
<1> QED BY <1>1, <1>2 DEF RecsOf

\* Nobody moves records of a leaf that is not x-latched.
LEMMA NobodyMoves ==
    ASSUME Types, BlocksAreRight, NEW t \in Sessions, MoveIsRight(t), NEW f \in Frames, PageOf(f),
           IsLeaf(block[f].page), ~HoldsX(t, f)
    PROVE  ~Moving(t)
<1>1. SUFFICES ASSUME Moving(t) PROVE FALSE OBVIOUS
<1> DEFINE g == cur[t].frame
           h == cur[t].other
<1>2. /\ g \in Frames /\ h \in Frames /\ HoldsX(t, g) /\ HoldsX(t, h)
      /\ leaves \in {<<block[g].page, block[h].page>>, <<block[h].page, block[g].page>>}
  BY <1>1 DEF MoveIsRight
<1>3. block[f].page \in {block[g].page, block[h].page} BY <1>2 DEF IsLeaf
<1>4. f \in {g, h} BY <1>2, <1>3 DEF BlocksAreRight, BlockIsRight
<1> QED BY <1>2, <1>4

\* A record is on the leaf that a search for its key ends at, and so is a key behind
\* it that is before the next record.
LEMMA GuessBelongs ==
    ASSUME Types, BlocksAreRight, InOrder, NEW f \in Frames, PageOf(f), IsLeaf(block[f].page),
           \A t \in Sessions : ~Moving(t),
           NEW k \in Keys, NEW r \in block[f].recs,
           CheckGuess(block[f].recs, "LE", k, r, block[f].page = leaves[1], block[f].page = leaves[Len(leaves)])
    PROVE  block[f].page = LeafOf("LE", k)
<1> DEFINE R == block[f].recs
           next == After(R, r)
<1>1. /\ leaves \in Seq(Pages) /\ Len(leaves) \in {1, 2}
      /\ (Len(leaves) = 2 => leaves[1] # leaves[2]) /\ cut \in Keys
  BY DEF Types, TreeTypes
<1>2. R \in SUBSET Keys /\ r \in Keys /\ \A x \in Keys : x \in Int BY KeysAre DEF Types, BlockType
<1>3. RecsOf(block[f].page) = R BY RecsAre
<1>4. next \in R \cup {Supremum} BY <1>2, AfterIs
<1>5. r <= k /\ (IF next = Supremum THEN block[f].page = leaves[Len(leaves)] ELSE k < next)
  BY DEF CheckGuess
<1> HIDE DEF next, R
<1>6. CASE Len(leaves) = 1 BY <1>1, <1>6 DEF LeafOf, IsLeaf
<1>7. CASE Len(leaves) = 2 /\ block[f].page = leaves[1]
 <2>1. \A x \in R : x < cut BY <1>3, <1>7 DEF InOrder
 <2>2. next \in R /\ k < next BY <1>1, <1>4, <1>5, <1>7
 <2> QED BY <1>1, <1>2, <1>7, <2>1, <2>2 DEF LeafOf
<1>8. CASE Len(leaves) = 2 /\ block[f].page = leaves[2]
 <2>1. cut <= r BY <1>3, <1>8 DEF InOrder, R
 <2> QED BY <1>1, <1>2, <1>5, <1>8, <2>1 DEF LeafOf
<1>9. Len(leaves) = 2 => block[f].page \in {leaves[1], leaves[2]} BY <1>1 DEF IsLeaf
<1> QED BY <1>1, <1>6, <1>7, <1>8, <1>9

\* Where there are two leaves.
LEMMA TwoLeaves ==
    ASSUME Types, Len(leaves) = 2
    PROVE  /\ leaves[1] \in Pages /\ leaves[2] \in Pages /\ leaves[1] # leaves[2]
           /\ DOMAIN leaves = {1, 2}
<1>1. leaves \in Seq(Pages) /\ leaves[1] # leaves[2] BY DEF Types, TreeTypes
<1>2. DOMAIN leaves = {1, 2} BY <1>1
<1>3. \A i \in DOMAIN leaves : leaves[i] \in Pages BY <1>1
<1> QED BY <1>1, <1>2, <1>3

\* Where the records of a page are, when blocks keep their pages.
LEMMA RecsChange ==
    ASSUME Types, \A f \in Frames : SameBlock(block[f], block'[f], {"recs", "heap"}), disk' = disk, NEW q
    PROVE  RecsOf(q)' = IF BlockOf(q) = {} THEN disk[q] ELSE block'[FrameOf(q)].recs
<1>1. BlockOf(q)' = BlockOf(q) BY DEF BlockOf, SameBlock, BlockFields
<1>2. FrameOf(q)' = FrameOf(q) BY <1>1 DEF FrameOf
<1> QED BY <1>1, <1>2 DEF RecsOf

\* The order of the leaves is kept when a leaf loses records, and when it is given
\* one that belongs to it.
LEMMA KeyJoins ==
    ASSUME Types, BlocksAreRight, InOrder, \A t \in Sessions : MoveIsRight(t),
           NEW s \in Sessions, ~Moving(s),
           NEW f \in Frames, PageOf(f), IsLeaf(block[f].page), HoldsX(s, f), NEW k \in Keys,
           \A e \in Frames : SameBlock(block[e], block'[e], {"recs", "heap"}),
           \A e \in Frames \ {f} : block'[e] = block[e],
           block'[f].recs \subseteq block[f].recs \cup {k},
           k \in block'[f].recs => block[f].page = LeafOf("LE", k),
           UNCHANGED <<disk, leaves, cut>>
    PROVE  InOrder'
<1>1. \A t \in Sessions : ~Moving(t)
 <2>1. ASSUME NEW t \in Sessions, t # s PROVE ~HoldsX(t, f) BY <2>1 DEF HoldsX
 <2> QED BY <2>1, NobodyMoves
<1>2. SUFFICES ASSUME Len(leaves) = 2
               PROVE  (\A x \in RecsOf(leaves[1])' : x < cut) /\ (\A x \in RecsOf(leaves[2])' : cut <= x)
  BY DEF InOrder
<1>3. (\A x \in RecsOf(leaves[1]) : x < cut) /\ (\A x \in RecsOf(leaves[2]) : cut <= x)
  BY <1>1, <1>2 DEF InOrder
<1>4. /\ FrameOf(block[f].page) = f /\ BlockOf(block[f].page) = {f}
      /\ RecsOf(block[f].page) = block[f].recs
  BY RecsAre
<1>5. ASSUME NEW q \in Pages, q = block[f].page PROVE RecsOf(q)' = block'[f].recs
  BY <1>4, <1>5, RecsChange
<1>6. ASSUME NEW q \in Pages, q # block[f].page PROVE RecsOf(q)' = RecsOf(q)
 <2>1. f \notin BlockOf(q) BY <1>6 DEF BlockOf
 <2>2. BlockOf(q) # {} => FrameOf(q) \in BlockOf(q) BY DEF FrameOf
 <2>3. BlockOf(q) \subseteq Frames BY DEF BlockOf
 <2>4. BlockOf(q) # {} => block'[FrameOf(q)] = block[FrameOf(q)] BY <2>1, <2>2, <2>3
 <2> QED BY <2>4, RecsChange DEF RecsOf
<1>7. leaves[1] \in Pages /\ leaves[2] \in Pages /\ leaves[1] # leaves[2] /\ leaves' = leaves
  BY <1>2, TwoLeaves
<1>8. k \in block'[f].recs => block[f].page = IF cut <= k THEN leaves[2] ELSE leaves[1]
  BY <1>2 DEF LeafOf
<1>9. cut \in Int /\ k \in Int BY KeysAre DEF Types, TreeTypes
<1>10. \A x \in RecsOf(leaves[1])' : x < cut
 <2>1. CASE leaves[1] = block[f].page BY <1>3, <1>4, <1>5, <1>7, <1>8, <1>9, <2>1
 <2>2. CASE leaves[1] # block[f].page BY <1>3, <1>6, <1>7, <2>2
 <2> QED BY <2>1, <2>2
<1>11. \A x \in RecsOf(leaves[2])' : cut <= x
 <2>1. CASE leaves[2] = block[f].page BY <1>3, <1>4, <1>5, <1>7, <1>8, <1>9, <2>1
 <2>2. CASE leaves[2] # block[f].page BY <1>3, <1>6, <1>7, <2>2
 <2> QED BY <2>1, <2>2
<1> QED BY <1>10, <1>11

\* Nodes stay valid when the records they point to stay where they are.
LEMMA NodesStay ==
    ASSUME Types, NodesAreValid, hash' = hash,
           \A f \in Frames : SameBlock(block[f], block'[f], {"recs", "heap"}),
           \A v \in Folds : hash[v] # NoRec =>
               /\ block'[hash[v].frame].heap = block[hash[v].frame].heap
               /\ hash[v].key \in block'[hash[v].frame].recs
    PROVE  NodesAreValid'
<1>1. \A v \in Folds : hash[v] # NoRec => hash[v].frame \in Frames BY DEF Types, Rec
<1>2. \A f \in Frames : /\ block'[f].state = block[f].state
                        /\ block'[f].is_hashed = block[f].is_hashed /\ block'[f].n = block[f].n
  BY DEF SameBlock, BlockFields
<1> QED BY <1>1, <1>2 DEF NodesAreValid, NodeIsValid

\* The order of the leaves is kept while the records of every page are.
LEMMA InOrderStays ==
    ASSUME Types, InOrder, \A q \in Pages : RecsOf(q)' = RecsOf(q), UNCHANGED <<leaves, cut>>,
           \A t \in Sessions : Moving(t) => Moving(t)'
    PROVE  InOrder'
<1>1. SUFFICES ASSUME Len(leaves) = 2, \A t \in Sessions : ~Moving(t)
               PROVE  (\A x \in RecsOf(leaves[1])' : x < cut) /\ (\A x \in RecsOf(leaves[2])' : cut <= x)
  BY DEF InOrder
<1>2. (\A x \in RecsOf(leaves[1]) : x < cut) /\ (\A x \in RecsOf(leaves[2]) : cut <= x)
  BY <1>1 DEF InOrder
<1>3. leaves[1] \in Pages /\ leaves[2] \in Pages /\ leaves' = leaves BY <1>1, TwoLeaves
<1> QED BY <1>2, <1>3

\* A leaf that a session has x-latched is the leaf of nobody else.
LEMMA NobodyIsThere ==
    ASSUME BlocksAreRight, NEW s \in Sessions, NEW t \in Sessions \ {s}, SessionIsRight(t), OnLeaf(t),
           \A i \in DOMAIN leaves : \E g \in Frames : block[g].page = leaves[i] /\ HoldsX(s, g)
    PROVE  FALSE
<1>1. /\ cur[t].frame \in Frames /\ PageOf(cur[t].frame) /\ Holds(t, cur[t].frame)
      /\ IsLeaf(block[cur[t].frame].page)
  BY DEF SessionIsRight, LatchesAreRight, Holds, HoldsX
<1>2. PICK g \in Frames : block[g].page = block[cur[t].frame].page /\ HoldsX(s, g)
  BY <1>1 DEF IsLeaf
<1>3. g = cur[t].frame BY <1>1, <1>2 DEF BlocksAreRight, BlockIsRight, PageOf
<1> QED BY <1>1, <1>2, <1>3, SearchAssumption DEF Holds, HoldsX, BlocksAreRight, BlockIsRight

\* A page is read.
LEMMA ReadPageKeeps ==
    ASSUME IInv, NEW s \in Sessions, ReadPage(s)
    PROVE  IInv'
<1>1. /\ Types /\ SearchLatchIsRight /\ LruIsRight /\ FoldsAreRight(Lru) /\ NodesAreValid
      /\ InOrder /\ BlocksAreRight
  BY DEF IInv
<1>2. /\ UNCHANGED <<pc, cur, plan, hash, disk, leaves, cut, todo>> /\ LatchesUnchanged
      /\ SearchUnchanged
      /\ \E p \in Pages, f \in Frames :
            /\ BlockOf(p) = {} /\ block[f].state = "NOT_USED" /\ Writes(f, BlockFields)
            /\ block'[f].state = "FILE_PAGE" /\ block'[f].page = p
            /\ block'[f].recs = disk[p] /\ ~block'[f].is_hashed
  BY <1>1, ReadPageMoves
<1>3. PICK p \in Pages, f \in Frames :
            /\ BlockOf(p) = {} /\ block[f].state = "NOT_USED" /\ Writes(f, BlockFields)
            /\ block'[f].state = "FILE_PAGE" /\ block'[f].page = p
            /\ block'[f].recs = disk[p] /\ ~block'[f].is_hashed
  BY <1>2
<1>4. p # NoPage /\ latch[f].x = Nobody /\ latch[f].s = {} /\ ~PageOf(f)
  BY <1>1, <1>3, SearchAssumption DEF BlocksAreRight, BlockIsRight, PageOf
<1>5. block' \in [Frames -> BlockType] /\ \A g \in Frames \ {f} : block'[g] = block[g]
  BY <1>3 DEF Writes
<1>6. Types'
  BY <1>1, <1>2, <1>5 DEF Types, ThreadTypes, LatchTypes, TreeTypes, LatchesUnchanged,
     SearchUnchanged
<1>7. ASSUME NEW t \in Sessions PROVE SessionIsRight(t)'
 <2>1. \A g \in Frames : Holds(t, g) => block'[g] = block[g]
   BY <1>4, <1>5, SearchAssumption DEF Holds
 <2>2. Spares(t) BY <1>2, <2>1 DEF Spares, SearchUnchanged, LatchesUnchanged, Holds, HoldsX
 <2> QED BY <1>1, <2>2, SparedIsRight DEF IInv
<1>8. LruIsRight' /\ FoldsAreRight(Lru)'
 <2>1. \A g \in Frames : block[g].state = "REMOVE_HASH" => block'[g] = block[g] BY <1>3, <1>5
 <2> QED BY <1>1, <1>2, <2>1, LruIsKept
<1>9. BlocksAreRight'
 <2>1. \A g \in Frames \ {f} : block[g].page # p
   BY <1>1, <1>3, <1>4 DEF BlocksAreRight, BlockIsRight, BlockOf, PageOf
 <2>2. ASSUME NEW g \in Frames PROVE BlockIsRight(g)'
  <3>1. CASE g = f
    BY <1>2, <1>3, <1>4, <1>5, <2>1, <3>1 DEF BlockIsRight, PageOf, LatchesUnchanged
  <3>2. CASE g # f
   <4>1. BlockIsRight(g) /\ block'[g] = block[g] /\ block[g].page # p
     BY <1>1, <1>5, <2>1, <3>2 DEF BlocksAreRight
   <4> QED BY <1>2, <1>3, <1>5, <3>2, <4>1 DEF BlockIsRight, PageOf, LatchesUnchanged, IsLeaf
  <3> QED BY <3>1, <3>2
 <2> QED BY <2>2 DEF BlocksAreRight
<1>10. NodesAreValid'
 <2>1. \A v \in Folds : hash[v] # NoRec => hash[v].frame \in Frames \ {f}
   BY <1>1, <1>3 DEF NodesAreValid, NodeIsValid, Types, Rec
 <2> QED BY <1>1, <1>2, <1>5, <2>1 DEF NodesAreValid, NodeIsValid
<1>11. InOrder'
 <2>1. ASSUME NEW q \in Pages PROVE RecsOf(q)' = RecsOf(q)
  <3>1. CASE q = p
   <4>1. BlockOf(q)' = {f} BY <1>3, <1>5, <3>1 DEF BlockOf
   <4>2. FrameOf(q)' = f BY <4>1 DEF FrameOf
   <4> QED BY <1>3, <3>1, <4>1, <4>2 DEF RecsOf
  <3>2. CASE q # p
   <4>1. BlockOf(q)' = BlockOf(q) /\ f \notin BlockOf(q) BY <1>3, <1>5, <3>2 DEF BlockOf
   <4>2. FrameOf(q)' = FrameOf(q) /\ (BlockOf(q) # {} => FrameOf(q) \in BlockOf(q))
     BY <4>1 DEF FrameOf
   <4>3. BlockOf(q) # {} => block'[FrameOf(q)] = block[FrameOf(q)]
     BY <1>5, <4>1, <4>2 DEF BlockOf
   <4> QED BY <1>2, <4>1, <4>2, <4>3 DEF RecsOf
  <3> QED BY <3>1, <3>2
 <2> QED BY <1>1, <1>2, <2>1, InOrderStays DEF Moving
<1>12. SearchLatchIsRight' BY <1>1, <1>2 DEF SearchLatchIsRight, SearchUnchanged
<1> QED BY <1>6, <1>7, <1>8, <1>9, <1>10, <1>11, <1>12 DEF IInv

\* What a step of a session has to leave alone.
LEMMA StepKeeps ==
    ASSUME IInv, NEW s \in Sessions, NEW a, NEW b, NEW F, Goes(s, a, b, F), Types', SearchUnchanged,
           search_x # s \/ (b \in XLabels /\ a # "writing"),
           \A t \in Sessions \ {s} : Spares(t), SessionIsRight(s)', BlocksAreRight',
           \A f \in Frames : block[f].state = "REMOVE_HASH" => block'[f] = block[f],
           NodesAreValid', InOrder'
    PROVE  IInv'
<1>1. Types /\ SearchLatchIsRight /\ LruIsRight /\ FoldsAreRight(Lru) BY DEF IInv
<1>2. Lru \in Procs \ {s} /\ \A t \in Sessions \ {s} : t \in Procs \ {s}
  BY SearchAssumption DEF Procs
<1>3. \A t \in Sessions : SessionIsRight(t)' BY <1>1, OthersAreRight DEF IInv
<1>4. LruIsRight' /\ FoldsAreRight(Lru)' BY <1>1, <1>2, LruIsKept DEF Goes
<1>5. SearchLatchIsRight' BY <1>1, <1>2 DEF SearchLatchIsRight, SearchUnchanged, Goes, XLabels
<1> QED BY <1>3, <1>4, <1>5 DEF IInv

\* Where blocks keep their pages and records, so does every page.
LEMMA RecsStay ==
    ASSUME disk' = disk, NEW F, F \cap {"state", "page", "recs"} = {},
           \A f \in Frames : SameBlock(block[f], block'[f], F)
    PROVE  \A q \in Pages : RecsOf(q)' = RecsOf(q)
<1>1. \A f \in Frames : /\ block'[f].state = block[f].state /\ block'[f].page = block[f].page
                        /\ block'[f].recs = block[f].recs
  BY DEF SameBlock, BlockFields
<1>2. ASSUME NEW q \in Pages PROVE RecsOf(q)' = RecsOf(q)
 <2>1. BlockOf(q)' = BlockOf(q) BY <1>1 DEF BlockOf
 <2>2. FrameOf(q)' = FrameOf(q) /\ (BlockOf(q) # {} => FrameOf(q) \in Frames)
   BY <2>1 DEF FrameOf, BlockOf
 <2> QED BY <1>1, <2>1, <2>2 DEF RecsOf
<1> QED BY <1>2

\* What a step under the search latch has to leave alone.
LEMMA XStepKeeps ==
    ASSUME IInv, NEW s \in Sessions, NEW a, NEW b, NEW F, Goes(s, a, b, F), Types', XSection(s),
           \A t \in Sessions \ {s} : Spares(t), SessionIsRight(s)', BlocksAreRight',
           \A f \in Frames : block[f].state = "REMOVE_HASH" => block'[f] = block[f],
           NodesAreValid', InOrder'
    PROVE  IInv'
<1>1. Types /\ LruIsRight /\ FoldsAreRight(Lru) BY DEF IInv
<1>2. Lru \in Procs \ {s} BY SearchAssumption DEF Procs
<1>3. \A t \in Sessions : SessionIsRight(t)' BY <1>1, OthersAreRight DEF IInv
<1>4. LruIsRight' /\ FoldsAreRight(Lru)' BY <1>1, <1>2, LruIsKept DEF Goes
<1>5. SearchLatchIsRight' BY SearchAssumption DEF SearchLatchIsRight, XSection, Procs
<1> QED BY <1>3, <1>4, <1>5 DEF IInv

\* A thread reserves the search latch.
LEMMA ReserveKeeps ==
    ASSUME IInv, NEW p \in Procs, Reserve(p)
    PROVE  IInv'
<1>1. /\ Types /\ SearchLatchIsRight /\ LruIsRight /\ FoldsAreRight(Lru) /\ NodesAreValid
      /\ InOrder /\ BlocksAreRight
  BY DEF IInv
<1>2. /\ pc[p] \in XLabels /\ UNCHANGED <<pc, cur>> /\ search_x = Nobody /\ search_x' = p
      /\ search_s # {} /\ DataUnchanged /\ LatchesUnchanged /\ UNCHANGED <<search_s, todo>>
  BY <1>1, ReserveMoves
<1>3. Types'
  BY <1>1, <1>2 DEF Types, ThreadTypes, LatchTypes, TreeTypes, DataUnchanged, LatchesUnchanged
<1>4. ASSUME NEW t \in Sessions, t # p PROVE SessionIsRight(t)'
 <2>1. search_x' = t <=> search_x = t BY <1>2, <1>4, SearchAssumption
 <2>2. Spares(t) BY <1>2, <2>1 DEF Spares, DataUnchanged, LatchesUnchanged
 <2> QED BY <1>1, <2>2, SparedIsRight DEF IInv
<1>5. ASSUME NEW t \in Sessions, t = p PROVE SessionIsRight(t)'
 <2>1. SessionIsRight(t) /\ pc[t] \in XLabels /\ pc'[t] = pc[t] /\ cur'[t] = cur[t]
   BY <1>2, <1>5 DEF IInv
 <2>2. OpIsRight(t)' /\ FlagIsRight(t)'
   BY <1>2, <2>1 DEF SessionIsRight, OpIsRight, FlagIsRight, Modifies, Hashing, Arrived,
      LatchesUnchanged
 <2>3. NodeIsKept(t)' /\ NodesAreRight(t)'
   BY <1>2, <2>1 DEF SessionIsRight, NodeIsKept, NodesAreRight, XLabels, DataUnchanged
 <2>4. LatchesAreRight(t)'
   BY <1>2, <2>1 DEF SessionIsRight, LatchesAreRight, OnLeaf, Modifies, Hashing, Holds, HoldsX,
      PageOf, IsLeaf, DataUnchanged, LatchesUnchanged
 <2>5. CursorIsRight(t)' /\ WorkIsRight(t)' /\ FoldsAreRight(t)'
   BY <1>2, <2>1 DEF SessionIsRight, CursorIsRight, WorkIsRight, FoldsAreRight, HasCursor, Arrived,
      Hashing, DataUnchanged
 <2>6. MoveIsRight(t)'
   BY <1>2, <2>1 DEF SessionIsRight, MoveIsRight, Moving, Hashing, HoldsX, DataUnchanged,
      LatchesUnchanged
 <2>7. KeyBelongs(t)' /\ GuessIsChecked(t)'
   BY <1>2, <2>1 DEF SessionIsRight, KeyBelongs, GuessIsChecked, HasCursor, Arrived, Hashing,
      Modifies, LeafOf, DataUnchanged
 <2> QED BY <2>2, <2>3, <2>4, <2>5, <2>6, <2>7 DEF SessionIsRight
<1>6. LruIsRight' /\ FoldsAreRight(Lru)' BY <1>1, <1>2 DEF LruIsRight, FoldsAreRight, DataUnchanged
<1>7. BlocksAreRight'
  BY <1>1, <1>2 DEF BlocksAreRight, BlockIsRight, PageOf, IsLeaf, DataUnchanged, LatchesUnchanged
<1>8. NodesAreValid' BY <1>1, <1>2 DEF NodesAreValid, NodeIsValid, DataUnchanged
<1>9. InOrder'
 <2>1. \A q \in Pages : RecsOf(q)' = RecsOf(q) BY <1>2 DEF RecsOf, BlockOf, FrameOf, DataUnchanged
 <2> QED BY <1>1, <1>2, <2>1, InOrderStays DEF Moving, DataUnchanged
<1>10. SearchLatchIsRight' BY <1>2 DEF SearchLatchIsRight, XLabels
<1> QED BY <1>3, <1>4, <1>5, <1>6, <1>7, <1>8, <1>9, <1>10 DEF IInv

-----------------------------------------------------------------------------
(* The guess *)

\* A call begins.
LEMMA BeginKeeps ==
    ASSUME IInv, NEW s \in Sessions, Begin(s)
    PROVE  IInv'
<1>1. Types /\ SessionIsRight(s) /\ s \in Procs /\ pc[s] = "idle" BY DEF IInv, Begin, Goto, Procs
<1>2. /\ Goes(s, "idle", "start", CallFields)
      /\ cur'[s].flag = "binary" /\ cur'[s].other = NoFrame /\ cur'[s].next = "idle"
      /\ Modifies(s)' => cur'[s].mode = "LE"
      /\ search_s' \in {search_s, search_s \ {s}}
      /\ todo' \in [Sessions -> Seq(SUBSET Calls)]
      /\ DataUnchanged /\ LatchesUnchanged /\ UNCHANGED search_x
  BY <1>1, BeginMoves
<1>3. SessionIsRight(s)'
 <2>1. OpIsRight(s)'
   BY <1>1, <1>2 DEF Goes, SameCall, CallFields, SessionIsRight, OpIsRight, LatchesAreRight,
      OnLeaf, Modifies, Hashing, DataUnchanged, LatchesUnchanged
 <2>2. FlagIsRight(s)' BY <1>2 DEF Goes, SameCall, CallFields, FlagIsRight, Arrived, Hashing
 <2>3. NodeIsKept(s)' BY <1>2 DEF Goes, SameCall, CallFields, NodeIsKept
 <2>4. LatchesAreRight(s)'
   BY <1>1, <1>2 DEF Goes, SameCall, CallFields, SessionIsRight, LatchesAreRight, OpIsRight,
      OnLeaf, Hashing, Modifies, Holds, HoldsX, PageOf, IsLeaf, DataUnchanged, LatchesUnchanged
 <2>5. CursorIsRight(s)'
   BY <1>1, <1>2 DEF Goes, SameCall, CallFields, SessionIsRight, CursorIsRight, HasCursor, Arrived,
      Hashing
 <2>6. NodesAreRight(s)' BY <1>2 DEF Goes, SameCall, CallFields, NodesAreRight
 <2>7. WorkIsRight(s)'
   BY <1>1, <1>2 DEF Goes, SameCall, CallFields, SessionIsRight, WorkIsRight, Hashing
 <2>8. FoldsAreRight(s)' BY <1>2 DEF Goes, SameCall, CallFields, FoldsAreRight
 <2>9. MoveIsRight(s)' BY <1>2 DEF Goes, SameCall, CallFields, MoveIsRight, Moving, Hashing, HoldsX
 <2>10. KeyBelongs(s)'
   BY <1>1, <1>2 DEF Goes, SameCall, CallFields, SessionIsRight, KeyBelongs, HasCursor, Arrived,
      Hashing, Modifies, LeafOf
 <2>11. GuessIsChecked(s)' BY <1>2 DEF Goes, SameCall, CallFields, GuessIsChecked
 <2> QED BY <2>1, <2>2, <2>3, <2>4, <2>5, <2>6, <2>7, <2>8, <2>9, <2>10, <2>11 DEF SessionIsRight
<1>4. SearchKept(s)
  BY <1>1, <1>2 DEF SearchKept, Goes, IInv, SearchLatchIsRight, Types, LatchTypes, XLabels,
     SearchUnchanged
<1>5. todo' \in [Sessions -> Seq(SUBSET Calls)] BY <1>1, <1>2 DEF Types, ThreadTypes
<1>6. Moving(s) => Moving(s)' BY <1>1, <1>2 DEF Moving, Goes, SameCall, CallFields, Hashing
<1> QED BY <1>2, <1>3, <1>4, <1>5, <1>6, QuietKeeps

\* The search latch is given up at the end of a statement.
LEMMA ReleaseSearchLatchKeeps ==
    ASSUME IInv, NEW s \in Sessions, ReleaseSearchLatch(s)
    PROVE  IInv'
<1>1. Types /\ SessionIsRight(s) /\ s \in Procs /\ pc[s] = "idle"
  BY DEF IInv, ReleaseSearchLatch, Procs
<1>a. /\ pc[s] = "idle" /\ UNCHANGED <<pc, cur>> /\ search_s' = search_s \ {s}
      /\ DataUnchanged /\ LatchesUnchanged /\ UNCHANGED <<search_x, todo>>
  BY <1>1, ReleaseSearchLatchMoves
<1>2. /\ Goes(s, "idle", "idle", {}) /\ search_s' = search_s \ {s}
      /\ DataUnchanged /\ LatchesUnchanged /\ UNCHANGED <<search_x, todo>>
  BY <1>1, <1>a DEF Goes, SameCall, Types, ThreadTypes
<1>3. SessionIsRight(s)'
 <2>1. OpIsRight(s)'
   BY <1>1, <1>2 DEF Goes, SameCall, CallFields, SessionIsRight, OpIsRight, Modifies, Hashing,
      DataUnchanged, LatchesUnchanged
 <2>2. FlagIsRight(s)'
   BY <1>1, <1>2 DEF Goes, SameCall, CallFields, SessionIsRight, FlagIsRight, Arrived, Hashing
 <2>3. LatchesAreRight(s)'
   BY <1>1, <1>2 DEF Goes, SameCall, CallFields, SessionIsRight, LatchesAreRight, OnLeaf, Hashing,
      Modifies, Holds, HoldsX, PageOf, IsLeaf, DataUnchanged, LatchesUnchanged
 <2>4. CursorIsRight(s)'
   BY <1>2 DEF Goes, SameCall, CallFields, CursorIsRight, HasCursor, Arrived, Hashing
 <2>5. WorkIsRight(s)' BY <1>2 DEF Goes, SameCall, CallFields, WorkIsRight, Hashing
 <2>6. MoveIsRight(s)' BY <1>2 DEF Goes, SameCall, CallFields, MoveIsRight, Moving, Hashing, HoldsX
 <2>7. KeyBelongs(s)'
   BY <1>2 DEF Goes, SameCall, CallFields, KeyBelongs, HasCursor, Arrived, Hashing, Modifies,
      LeafOf
 <2>8. /\ NodeIsKept(s)' /\ NodesAreRight(s)' /\ FoldsAreRight(s)' /\ GuessIsChecked(s)'
   BY <1>2 DEF Goes, NodeIsKept, NodesAreRight, FoldsAreRight, GuessIsChecked
 <2> QED BY <2>1, <2>2, <2>3, <2>4, <2>5, <2>6, <2>7, <2>8 DEF SessionIsRight
<1>4. SearchKept(s)
  BY <1>1, <1>2 DEF IInv, SearchKept, Goes, IInv, SearchLatchIsRight, Types, LatchTypes, XLabels,
     SearchUnchanged
<1>5. todo' \in [Sessions -> Seq(SUBSET Calls)] BY <1>1, <1>2 DEF Types, ThreadTypes
<1>6. Moving(s) => Moving(s)' BY <1>1, <1>2 DEF Moving, Goes, SameCall, CallFields, Hashing
<1> QED BY <1>2, <1>3, <1>4, <1>5, <1>6, QuietKeeps

\* No guess is tried.
LEMMA DoNotGuessKeeps ==
    ASSUME IInv, NEW s \in Sessions, DoNotGuess(s)
    PROVE  IInv'
<1>1. Types /\ SessionIsRight(s) /\ s \in Procs /\ pc[s] = "start"
  BY DEF IInv, DoNotGuess, Goto, Procs
<1>2. /\ Goes(s, "start", "descend", Forgotten)
      /\ cur'[s].flag = "binary" /\ search_s' = search_s \ {s}
      /\ DataUnchanged /\ LatchesUnchanged /\ UNCHANGED <<search_x, todo>>
  BY <1>1, DoNotGuessMoves
<1>3. SessionIsRight(s)'
 <2>1. OpIsRight(s)'
   BY <1>1, <1>2 DEF Goes, SameCall, CallFields, Forgotten, SessionIsRight, OpIsRight, Modifies,
      Hashing, DataUnchanged, LatchesUnchanged
 <2>2. FlagIsRight(s)'
   BY <1>1, <1>2 DEF Goes, SameCall, CallFields, Forgotten, SessionIsRight, FlagIsRight, Arrived,
      Hashing
 <2>3. LatchesAreRight(s)'
   BY <1>1, <1>2 DEF Goes, SameCall, CallFields, Forgotten, SessionIsRight, LatchesAreRight,
      OnLeaf, Hashing, Modifies, Holds, HoldsX, PageOf, IsLeaf, DataUnchanged, LatchesUnchanged
 <2>4. CursorIsRight(s)'
   BY <1>2 DEF Goes, SameCall, CallFields, Forgotten, CursorIsRight, HasCursor, Arrived, Hashing
 <2>5. WorkIsRight(s)' BY <1>2 DEF Goes, SameCall, CallFields, Forgotten, WorkIsRight, Hashing
 <2>6. MoveIsRight(s)'
   BY <1>2 DEF Goes, SameCall, CallFields, Forgotten, MoveIsRight, Moving, Hashing, HoldsX
 <2>7. KeyBelongs(s)'
   BY <1>2 DEF Goes, SameCall, CallFields, Forgotten, KeyBelongs, HasCursor, Arrived, Hashing,
      Modifies, LeafOf
 <2>8. /\ NodeIsKept(s)' /\ NodesAreRight(s)' /\ FoldsAreRight(s)' /\ GuessIsChecked(s)'
   BY <1>2 DEF Goes, NodeIsKept, NodesAreRight, FoldsAreRight, GuessIsChecked
 <2> QED BY <2>1, <2>2, <2>3, <2>4, <2>5, <2>6, <2>7, <2>8 DEF SessionIsRight
<1>4. SearchKept(s)
  BY <1>1, <1>2 DEF SearchKept, Goes, IInv, SearchLatchIsRight, Types, LatchTypes, XLabels,
     SearchUnchanged
<1>5. todo' \in [Sessions -> Seq(SUBSET Calls)] BY <1>1, <1>2 DEF Types, ThreadTypes
<1>6. Moving(s) => Moving(s)'
  BY <1>1, <1>2 DEF Moving, Goes, SameCall, CallFields, Forgotten, Hashing
<1> QED BY <1>2, <1>3, <1>4, <1>5, <1>6, QuietKeeps

\* A node is looked up.
LEMMA LookupKeeps ==
    ASSUME IInv, NEW s \in Sessions, Lookup(s)
    PROVE  IInv'
<1>1. Types /\ SessionIsRight(s) /\ s \in Procs /\ pc[s] = "start" BY Zenon DEF IInv, Lookup, Goto,
    Procs
<1>2. /\ search_x = Nobody
      /\ \/ /\ Goes(s, "start", "block", {"flag", "n", "rec", "page"})
            /\ cur'[s].flag = "hash" /\ cur'[s].rec # NoRec
            /\ cur'[s].rec = hash[Fold[cur'[s].n][cur[s].key]]
            /\ search_s' = search_s \cup {s}
         \/ /\ Goes(s, "start", "descend", Forgotten)
            /\ cur'[s].flag = "hash_fail" /\ search_s' = search_s \ {s}
      /\ DataUnchanged /\ LatchesUnchanged /\ UNCHANGED <<search_x, todo>>
  BY <1>1, LookupMoves
<1>3. SessionIsRight(s)'
 <2>1. OpIsRight(s)'
   BY <1>1, <1>2 DEF Goes, SameCall, CallFields, Forgotten, SessionIsRight, OpIsRight, Modifies,
      Hashing, DataUnchanged, LatchesUnchanged
 <2>2. FlagIsRight(s)'
   BY <1>1, <1>2 DEF Goes, SameCall, CallFields, Forgotten, SessionIsRight, FlagIsRight, OpIsRight,
      LatchesAreRight, OnLeaf, Arrived, Hashing, DataUnchanged, LatchesUnchanged
 <2>3. NodeIsKept(s)'
   BY <1>1, <1>2 DEF Goes, SameCall, CallFields, Forgotten, SessionIsRight, NodeIsKept,
      DataUnchanged, LatchesUnchanged
 <2>4. LatchesAreRight(s)'
   BY <1>1, <1>2 DEF Goes, SameCall, CallFields, Forgotten, SessionIsRight, LatchesAreRight,
      OnLeaf, Hashing, Modifies, Holds, HoldsX, PageOf, IsLeaf, DataUnchanged, LatchesUnchanged
 <2>5. CursorIsRight(s)'
   BY <1>2 DEF Goes, SameCall, CallFields, Forgotten, CursorIsRight, HasCursor, Arrived, Hashing
 <2>6. NodesAreRight(s)' BY <1>2 DEF Goes, SameCall, CallFields, Forgotten, NodesAreRight
 <2>7. WorkIsRight(s)' BY <1>2 DEF Goes, SameCall, CallFields, Forgotten, WorkIsRight, Hashing
 <2>8. FoldsAreRight(s)' BY <1>2 DEF Goes, SameCall, CallFields, Forgotten, FoldsAreRight
 <2>9. MoveIsRight(s)'
   BY <1>2 DEF Goes, SameCall, CallFields, Forgotten, MoveIsRight, Moving, Hashing, HoldsX
 <2>10. KeyBelongs(s)'
   BY <1>2 DEF Goes, SameCall, CallFields, Forgotten, KeyBelongs, HasCursor, Arrived, Hashing,
      Modifies, LeafOf
 <2>11. GuessIsChecked(s)' BY <1>2 DEF Goes, SameCall, CallFields, Forgotten, GuessIsChecked
 <2> QED BY <2>1, <2>2, <2>3, <2>4, <2>5, <2>6, <2>7, <2>8, <2>9, <2>10, <2>11 DEF SessionIsRight
<1>4. SearchKept(s)
  BY <1>1, <1>2 DEF SearchKept, Goes, IInv, SearchLatchIsRight, Types, LatchTypes, XLabels,
     SearchUnchanged
<1>5. todo' \in [Sessions -> Seq(SUBSET Calls)] BY <1>1, <1>2 DEF Types, ThreadTypes
<1>6. Moving(s) => Moving(s)'
  BY <1>1, <1>2 DEF Moving, Goes, SameCall, CallFields, Forgotten, Hashing
<1> QED BY <1>2, <1>3, <1>4, <1>5, <1>6, QuietKeeps

\* buf_page_hash_get finds the block, or not.
LEMMA FindBlockKeeps ==
    ASSUME IInv, NEW s \in Sessions, FindBlock(s)
    PROVE  IInv'
<1>1. Types /\ SessionIsRight(s) /\ s \in Procs /\ pc[s] = "block"
  BY DEF IInv, FindBlock, Goto, Procs
<1>2. /\ \/ /\ Goes(s, "block", IF cur[s].op = "read" THEN "reading" ELSE "latch", {"page", "frame"})
            /\ cur[s].op = "read" => cur[s].rec.key = cur[s].key
            /\ search_s' = search_s
         \/ /\ Goes(s, "block", "descend", Forgotten)
            /\ cur'[s].flag = "hash_fail" /\ search_s' = search_s \ {s}
      /\ DataUnchanged /\ LatchesUnchanged /\ UNCHANGED <<search_x, todo>>
  BY <1>1, FindBlockMoves
<1>3. SessionIsRight(s)'
 <2>1. OpIsRight(s)'
   BY <1>1, <1>2 DEF Goes, SameCall, CallFields, Forgotten, SessionIsRight, OpIsRight, Modifies,
      Hashing, DataUnchanged, LatchesUnchanged
 <2>2. FlagIsRight(s)'
   BY <1>1, <1>2 DEF Goes, SameCall, CallFields, Forgotten, SessionIsRight, FlagIsRight, Arrived,
      Hashing
 <2>3. NodeIsKept(s)'
   BY <1>1, <1>2 DEF Goes, SameCall, CallFields, Forgotten, SessionIsRight, NodeIsKept,
      DataUnchanged, LatchesUnchanged
 <2>4. LatchesAreRight(s)'
   BY <1>1, <1>2 DEF Goes, SameCall, CallFields, Forgotten, SessionIsRight, LatchesAreRight,
      OnLeaf, Hashing, Modifies, Holds, HoldsX, PageOf, IsLeaf, DataUnchanged, LatchesUnchanged
 <2>5. CursorIsRight(s)'
   BY <1>2 DEF Goes, SameCall, CallFields, Forgotten, CursorIsRight, HasCursor, Arrived, Hashing
 <2>6. WorkIsRight(s)' BY <1>2 DEF Goes, SameCall, CallFields, Forgotten, WorkIsRight, Hashing
 <2>7. MoveIsRight(s)'
   BY <1>2 DEF Goes, SameCall, CallFields, Forgotten, MoveIsRight, Moving, Hashing, HoldsX
 <2>8. KeyBelongs(s)'
   BY <1>2 DEF Goes, SameCall, CallFields, Forgotten, KeyBelongs, HasCursor, Arrived, Hashing,
      Modifies, LeafOf
 <2>9. /\ NodesAreRight(s)' /\ FoldsAreRight(s)' /\ GuessIsChecked(s)'
   BY <1>2 DEF Goes, NodesAreRight, FoldsAreRight, GuessIsChecked
 <2> QED BY <2>1, <2>2, <2>3, <2>4, <2>5, <2>6, <2>7, <2>8, <2>9 DEF SessionIsRight
<1>4. SearchKept(s)
  BY <1>1, <1>2 DEF SearchKept, Goes, IInv, SearchLatchIsRight, Types, LatchTypes, XLabels,
     SearchUnchanged
<1>5. todo' \in [Sessions -> Seq(SUBSET Calls)] BY <1>1, <1>2 DEF Types, ThreadTypes
<1>6. Moving(s) => Moving(s)'
  BY <1>1, <1>2 DEF Moving, Goes, SameCall, CallFields, Forgotten, Hashing
<1> QED BY <1>2, <1>3, <1>4, <1>5, <1>6, QuietKeeps

\* A guess that is taken: the record is on the leaf where the key belongs, for the nodes are
\* right and nobody moves records of a leaf that is not x-latched.
LEMMA GuessTakenKeeps ==
    ASSUME IInv, NEW s \in Sessions,
           /\ Goes(s, "latch", "at", {})
           /\ cur' = cur /\ cur[s].frame = cur[s].rec.frame
           /\ PageOf(cur[s].frame) /\ Free(cur[s].frame, Modifies(s))
           /\ LatchPages(s, {cur[s].frame}, Modifies(s))
           /\ IsLeaf(block[cur[s].frame].page) =>
                 CheckGuess(block[cur[s].frame].recs, cur[s].mode, cur[s].key, cur[s].rec.key,
                            block[cur[s].frame].page = leaves[1], block[cur[s].frame].page = leaves[Len(leaves)])
           /\ search_s' = search_s \ {s}
           /\ DataUnchanged /\ UNCHANGED <<index_x, search_x, todo>>
    PROVE  IInv'
<1>1. /\ Types /\ SessionIsRight(s) /\ s \in Procs /\ BlocksAreRight /\ NodesAreValid /\ InOrder
      /\ pc[s] = "latch"
  BY DEF IInv, Procs, Goes
<1>2. /\ Goes(s, "latch", "at", {})
       /\ cur' = cur /\ cur[s].frame = cur[s].rec.frame
       /\ PageOf(cur[s].frame) /\ Free(cur[s].frame, Modifies(s))
       /\ LatchPages(s, {cur[s].frame}, Modifies(s))
       /\ IsLeaf(block[cur[s].frame].page) =>
        CheckGuess(block[cur[s].frame].recs, cur[s].mode, cur[s].key, cur[s].rec.key,
                   block[cur[s].frame].page = leaves[1], block[cur[s].frame].page = leaves[Len(leaves)])
       /\ search_s' = search_s \ {s}
       /\ DataUnchanged /\ UNCHANGED <<index_x, search_x, todo>>
  OBVIOUS
<1>a. /\ cur[s] \in CallType /\ cur[s].rec \in Rec /\ cur[s].frame \in Frames
      /\ cur[s].flag = "hash" /\ cur[s].other = NoFrame
 <2>1. cur[s] \in CallType BY <1>1 DEF Types, ThreadTypes
 <2>2. cur[s].rec \in Rec BY <1>1, <2>1 DEF CallType, SessionIsRight, NodeIsKept
 <2>3. cur[s].flag = "hash" /\ cur[s].other = NoFrame
   BY <1>1 DEF SessionIsRight, FlagIsRight, OpIsRight, Hashing
 <2> QED BY <1>2, <2>1, <2>2, <2>3 DEF Rec
<1>b. /\ block[cur[s].frame].is_hashed /\ cur[s].rec.key \in block[cur[s].frame].recs
      /\ cur[s].rec.heap = block[cur[s].frame].heap
 <2>1. cur[s].n \in DOMAIN Fold /\ cur[s].key \in Keys BY <1>a DEF CallType
 <2>2. Fold[cur[s].n][cur[s].key] \in Folds BY <2>1, SearchAssumption
 <2>3. cur[s].rec # NoRec /\ hash[Fold[cur[s].n][cur[s].key]] = cur[s].rec
   BY <1>1 DEF SessionIsRight, NodeIsKept
 <2>4. NodeIsValid(Fold[cur[s].n][cur[s].key]) BY <1>1, <2>2 DEF NodesAreValid
 <2> QED BY Zenon, <1>2, <2>3, <2>4 DEF NodeIsValid
<1>c. IsLeaf(block[cur[s].frame].page) BY <1>1, <1>2, <1>a, <1>b DEF BlocksAreRight, BlockIsRight
<1>d. LatchedBy(s, {cur[s].frame}, Modifies(s))
 <2>1. {cur[s].frame} \in SUBSET Frames BY <1>a
 <2>2. Modifies(s) \in BOOLEAN BY DEF Modifies
 <2>3. LatchTypes /\ LatchPages(s, {cur[s].frame}, Modifies(s)) BY Zenon, <1>1, <1>2 DEF Types
 <2> QED BY <2>1, <2>2, <2>3, PagesLatched
<1>e. Modifies(s) => block[cur[s].frame].page = LeafOf("LE", cur[s].key)
 <2>1. \A t \in Sessions : ~Moving(t)
  <3>1. \A t \in Sessions : ~HoldsX(t, cur[s].frame) /\ MoveIsRight(t)
    BY Zenon, <1>2, SearchAssumption DEF Free, HoldsX, IInv, SessionIsRight
  <3> QED BY <1>1, <1>a, <1>c, <3>1, NobodyMoves
 <2>2. Modifies(s) => cur[s].mode = "LE" BY <1>1 DEF SessionIsRight, OpIsRight
 <2>3. cur[s].key \in Keys BY <1>a DEF CallType
 <2> QED BY <1>1, <1>a, <1>b, <1>c, <2>1, <2>2, <2>3, GuessBelongs
<1>f. \A f \in Frames :
         /\ latch'[f].x = IF f = cur[s].frame /\ Modifies(s) THEN s ELSE latch[f].x
         /\ latch'[f].s = IF f = cur[s].frame /\ ~Modifies(s) THEN latch[f].s \cup {s} ELSE latch[f].s
         /\ f = cur[s].frame => latch[f].x = Nobody /\ (Modifies(s) => latch[f].s = {})
  BY <1>2, <1>d DEF LatchedBy, Free
<1>3. SessionIsRight(s)'
 <2>1. OpIsRight(s)'
   BY <1>1, <1>2 DEF Goes, CallFields, SessionIsRight, OpIsRight, Modifies, Hashing
 <2>2. FlagIsRight(s)'
   BY <1>1, <1>2, <1>a DEF Goes, SameCall, CallFields, SessionIsRight, FlagIsRight, OpIsRight,
      LatchesAreRight, OnLeaf, Arrived, Hashing, DataUnchanged
 <2>3. LatchesAreRight(s)'
  <3>1. \A f \in Frames : ~Holds(s, f) BY <1>1 DEF SessionIsRight, LatchesAreRight
  <3>2. \A f \in Frames : Holds(s, f)' => f = cur[s].frame BY <1>1, <1>f, <3>1 DEF Holds
  <3>3. index_x # s BY Zenon, <1>1 DEF SessionIsRight, OpIsRight
  <3> QED
    BY <1>1, <1>2, <1>a, <1>c, <1>f, <3>2, <3>3 DEF Goes, LatchesAreRight, Modifies, HoldsX,
       Hashing, PageOf, IsLeaf, DataUnchanged
 <2>4. CursorIsRight(s)' BY Zenon, <1>2, <1>b DEF Goes, CursorIsRight, DataUnchanged
 <2>5. WorkIsRight(s)' BY <1>2 DEF Goes, SameCall, CallFields, WorkIsRight, Hashing
 <2>6. MoveIsRight(s)' BY Zenon, <1>2 DEF Goes, SameCall, CallFields, MoveIsRight, Moving, Hashing,
     HoldsX
 <2>7. KeyBelongs(s)' BY <1>2, <1>e DEF Goes, KeyBelongs, Modifies, LeafOf, DataUnchanged
 <2>8. GuessIsChecked(s)' BY Zenon, <1>2, <1>b, <1>c DEF Goes, GuessIsChecked, DataUnchanged
 <2>9. /\ NodeIsKept(s)' /\ NodesAreRight(s)' /\ FoldsAreRight(s)'
   BY <1>2 DEF Goes, NodeIsKept, NodesAreRight, FoldsAreRight
 <2> QED BY Zenon, <2>1, <2>2, <2>3, <2>4, <2>5, <2>6, <2>7, <2>8, <2>9 DEF SessionIsRight
<1>4. SearchKept(s)
  BY <1>1, <1>2, SearchAssumption DEF SearchKept, Goes, IInv, SearchLatchIsRight, Types, LatchTypes,
     XLabels, SearchUnchanged
<1>5. latch' \in [Frames -> [x : Sessions \cup {Nobody}, s : SUBSET Sessions]]
  BY <1>1, <1>2, <1>d DEF Types, LatchTypes, LatchedBy, Unlatched, LatchesUnchanged
<1>6. /\ index_x' \in Sessions \cup {Nobody}
      /\ (index_x' # index_x => index_x \in {Nobody, s} /\ index_x' \in {Nobody, s})
  BY <1>1, <1>2, <1>d DEF Types, LatchTypes, LatchedBy, Unlatched, LatchesUnchanged
<1>7. \A f \in Frames, t \in Sessions \ {s} :
               (latch'[f].x = t <=> latch[f].x = t) /\ (t \in latch'[f].s <=> t \in latch[f].s)
 <2>1. ASSUME NEW f \in Frames, NEW t \in Sessions \ {s}
       PROVE  (latch'[f].x = t <=> latch[f].x = t) /\ (t \in latch'[f].s <=> t \in latch[f].s)
  <3>1. t # s /\ t # Nobody BY SearchAssumption
  <3>2. CASE f = cur[s].frame BY Zenon, <1>f, <3>1, <3>2
  <3>3. CASE f # cur[s].frame BY <1>f, <3>3
  <3> QED BY <3>2, <3>3
 <2> QED BY <2>1
<1>8. \A f \in Frames : ~PageOf(f) => latch'[f].x = Nobody /\ latch'[f].s = {}
  BY <1>1, <1>d DEF BlocksAreRight, BlockIsRight, LatchedBy, Unlatched, LatchesUnchanged
<1>9. \A f \in Frames : latch'[f].x # Nobody => latch'[f].s = {}
  BY ZenonT(60), <1>1, <1>f DEF BlocksAreRight, BlockIsRight, LatchedBy, Unlatched,
     LatchesUnchanged, Free
<1>10. ~Moving(s) BY <1>1 DEF Moving, Hashing
<1>11. DataUnchanged /\ todo' = todo BY <1>2
<1> QED BY Zenon, <1>2, <1>3, <1>4, <1>5, <1>6, <1>7, <1>8, <1>9, <1>10, <1>11, LatchingKeeps

\* A guess that has failed.
LEMMA GuessFailedKeeps ==
    ASSUME IInv, NEW s \in Sessions,
           /\ Goes(s, "latch", "descend", Forgotten)
           /\ cur'[s].flag = "hash_fail" /\ search_s' = search_s \ {s} /\ UNCHANGED latch
           /\ DataUnchanged /\ UNCHANGED <<index_x, search_x, todo>>
    PROVE  IInv'
<1>1. /\ Types /\ SessionIsRight(s) /\ s \in Procs /\ BlocksAreRight /\ NodesAreValid /\ InOrder
      /\ pc[s] = "latch"
  BY DEF IInv, Procs, Goes
<1>2. /\ Goes(s, "latch", "descend", Forgotten)
       /\ cur'[s].flag = "hash_fail" /\ search_s' = search_s \ {s} /\ UNCHANGED latch
       /\ DataUnchanged /\ UNCHANGED <<index_x, search_x, todo>>
  OBVIOUS
<1>3. SessionIsRight(s)'
 <2>1. OpIsRight(s)'
   BY <1>1, <1>2 DEF Goes, SameCall, CallFields, Forgotten, SessionIsRight, OpIsRight, Modifies,
      Hashing
 <2>2. FlagIsRight(s)'
   BY <1>1, <1>2 DEF Goes, SameCall, CallFields, Forgotten, SessionIsRight, FlagIsRight, Arrived,
      Hashing
 <2>3. LatchesAreRight(s)'
   BY <1>1, <1>2 DEF Goes, SameCall, CallFields, Forgotten, SessionIsRight, LatchesAreRight,
      OnLeaf, Hashing, Modifies, Holds, HoldsX, PageOf, IsLeaf
 <2>4. CursorIsRight(s)'
   BY <1>2 DEF Goes, SameCall, CallFields, Forgotten, CursorIsRight, HasCursor, Arrived, Hashing
 <2>5. WorkIsRight(s)' BY <1>2 DEF Goes, SameCall, CallFields, Forgotten, WorkIsRight, Hashing
 <2>6. MoveIsRight(s)'
   BY <1>2 DEF Goes, SameCall, CallFields, Forgotten, MoveIsRight, Moving, Hashing, HoldsX
 <2>7. KeyBelongs(s)'
   BY <1>2 DEF Goes, SameCall, CallFields, Forgotten, KeyBelongs, HasCursor, Arrived, Hashing,
      Modifies, LeafOf
 <2>8. /\ NodeIsKept(s)' /\ NodesAreRight(s)' /\ FoldsAreRight(s)' /\ GuessIsChecked(s)'
   BY <1>2 DEF Goes, NodeIsKept, NodesAreRight, FoldsAreRight, GuessIsChecked
 <2> QED BY <2>1, <2>2, <2>3, <2>4, <2>5, <2>6, <2>7, <2>8 DEF SessionIsRight
<1>4. SearchKept(s)
  BY <1>1, <1>2, SearchAssumption DEF SearchKept, Goes, IInv, SearchLatchIsRight, Types, LatchTypes,
     XLabels, SearchUnchanged
<1>5. latch' \in [Frames -> [x : Sessions \cup {Nobody}, s : SUBSET Sessions]]
  BY <1>1, <1>2 DEF Types, LatchTypes, LatchedBy, Unlatched, LatchesUnchanged
<1>6. /\ index_x' \in Sessions \cup {Nobody}
      /\ (index_x' # index_x => index_x \in {Nobody, s} /\ index_x' \in {Nobody, s})
  BY <1>1, <1>2 DEF Types, LatchTypes, LatchedBy, Unlatched, LatchesUnchanged
<1>7. \A f \in Frames, t \in Sessions \ {s} :
               (latch'[f].x = t <=> latch[f].x = t) /\ (t \in latch'[f].s <=> t \in latch[f].s)
  BY <1>1, <1>2, SearchAssumption DEF Types, LatchTypes, LatchedBy, Unlatched, LatchesUnchanged,
     Free
<1>8. \A f \in Frames : ~PageOf(f) => latch'[f].x = Nobody /\ latch'[f].s = {}
  BY <1>1, <1>2 DEF BlocksAreRight, BlockIsRight, LatchedBy, Unlatched, LatchesUnchanged
<1>9. \A f \in Frames : latch'[f].x # Nobody => latch'[f].s = {}
  BY <1>1, <1>2 DEF BlocksAreRight, BlockIsRight, LatchedBy, Unlatched, LatchesUnchanged, Free
<1>10. ~Moving(s) BY <1>1 DEF Moving, Hashing
<1>11. DataUnchanged /\ todo' = todo BY <1>2
<1> QED BY <1>3, <1>4, <1>5, <1>6, <1>7, <1>8, <1>9, <1>10, <1>11, LatchingKeeps

\* A guess that goes astray: nothing is known of the session any more but that it holds
\* the latch of a page.
LEMMA AstrayKeeps ==
    ASSUME IInv, NEW s \in Sessions,
           /\ Goes(s, "latch", "astray", {}) /\ cur' = cur
           /\ PageOf(cur[s].frame) /\ Free(cur[s].frame, Modifies(s))
           /\ LatchPages(s, {cur[s].frame}, Modifies(s))
           /\ search_s' = search_s \ {s}
           /\ DataUnchanged /\ UNCHANGED <<index_x, search_x, todo>>
    PROVE  IInv'
<1>1. /\ Types /\ SessionIsRight(s) /\ s \in Procs /\ BlocksAreRight /\ pc[s] = "latch"
  BY DEF IInv, Procs, Goes
<1>2. Goes(s, "latch", "astray", {}) /\ cur' = cur /\ search_s' = search_s \ {s}
  OBVIOUS
<1>a. cur[s].other = NoFrame BY <1>1 DEF SessionIsRight, OpIsRight, Hashing
<1>b. \A f \in Frames :
         /\ latch'[f].x = IF f = cur[s].frame /\ Modifies(s) THEN s ELSE latch[f].x
         /\ latch'[f].s = IF f = cur[s].frame /\ ~Modifies(s) THEN latch[f].s \cup {s} ELSE latch[f].s
         /\ f = cur[s].frame => latch[f].x = Nobody /\ (Modifies(s) => latch[f].s = {})
  BY <1>1 DEF Types, LatchTypes, LatchPages, Free
<1>3. SessionIsRight(s)'
 <2>1. OpIsRight(s)'
   BY <1>1, <1>2, <1>a DEF Goes, SessionIsRight, OpIsRight, Modifies, Hashing
 <2>2. FlagIsRight(s)' BY <1>2 DEF Goes, FlagIsRight, Arrived, Hashing
 <2>3. LatchesAreRight(s)' BY <1>2 DEF Goes, LatchesAreRight, OnLeaf, Hashing
 <2>4. CursorIsRight(s)' BY <1>2 DEF Goes, CursorIsRight, HasCursor, Arrived, Hashing
 <2>5. WorkIsRight(s)' /\ MoveIsRight(s)' BY <1>2 DEF Goes, WorkIsRight, MoveIsRight, Moving, Hashing
 <2>6. KeyBelongs(s)' BY <1>2 DEF Goes, KeyBelongs, HasCursor, Arrived, Hashing
 <2>7. /\ NodeIsKept(s)' /\ NodesAreRight(s)' /\ FoldsAreRight(s)' /\ GuessIsChecked(s)'
   BY <1>2 DEF Goes, NodeIsKept, NodesAreRight, FoldsAreRight, GuessIsChecked
 <2> QED BY Zenon, <2>1, <2>2, <2>3, <2>4, <2>5, <2>6, <2>7 DEF SessionIsRight
<1>4. SearchKept(s)
  BY <1>1, <1>2, SearchAssumption DEF SearchKept, Goes, IInv, SearchLatchIsRight, Types, LatchTypes,
     XLabels, SearchUnchanged
<1>5. latch' \in [Frames -> [x : Sessions \cup {Nobody}, s : SUBSET Sessions]]
 <2>1. \A f \in Frames : latch'[f] \in [x : Sessions \cup {Nobody}, s : SUBSET Sessions]
   BY <1>1 DEF Types, LatchTypes, LatchPages
 <2> QED BY <2>1 DEF LatchPages
<1>6. /\ index_x' \in Sessions \cup {Nobody}
      /\ (index_x' # index_x => index_x \in {Nobody, s} /\ index_x' \in {Nobody, s})
  BY <1>1 DEF Types, LatchTypes
<1>7. \A f \in Frames, t \in Sessions \ {s} :
               (latch'[f].x = t <=> latch[f].x = t) /\ (t \in latch'[f].s <=> t \in latch[f].s)
 <2>1. ASSUME NEW f \in Frames, NEW t \in Sessions \ {s}
       PROVE  (latch'[f].x = t <=> latch[f].x = t) /\ (t \in latch'[f].s <=> t \in latch[f].s)
  <3>1. t # s /\ t # Nobody BY SearchAssumption
  <3>2. CASE f = cur[s].frame BY Zenon, <1>b, <3>1, <3>2
  <3>3. CASE f # cur[s].frame BY <1>b, <3>3
  <3> QED BY <3>2, <3>3
 <2> QED BY <2>1
<1>8. \A f \in Frames : ~PageOf(f) => latch'[f].x = Nobody /\ latch'[f].s = {}
  BY <1>1, <1>b DEF BlocksAreRight, BlockIsRight
<1>9. \A f \in Frames : latch'[f].x # Nobody => latch'[f].s = {}
  BY ZenonT(60), <1>1, <1>b DEF BlocksAreRight, BlockIsRight
<1>10. ~Moving(s) BY <1>1 DEF Moving, Hashing
<1>11. DataUnchanged /\ todo' = todo OBVIOUS
<1> QED BY Zenon, <1>2, <1>3, <1>4, <1>5, <1>6, <1>7, <1>8, <1>9, <1>10, <1>11, LatchingKeeps

-----------------------------------------------------------------------------
(* The search down the tree, searches and reads *)

\* The index is latched.
LEMMA LatchTreeKeeps ==
    ASSUME IInv, NEW s \in Sessions, LatchTree(s)
    PROVE  IInv'
<1>1. Types /\ SessionIsRight(s) /\ s \in Procs /\ pc[s] = "tree" /\ BlocksAreRight
  BY DEF IInv, LatchTree, Goto, Procs
<1>2. /\ Goes(s, "tree", "descend", {}) /\ index_x = Nobody /\ index_x' = s
      /\ DataUnchanged /\ SearchUnchanged /\ UNCHANGED <<latch, todo>>
  BY <1>1, LatchTreeMoves
<1>3. SessionIsRight(s)'
 <2>1. OpIsRight(s)'
   BY <1>1, <1>2 DEF Goes, SameCall, CallFields, SessionIsRight, OpIsRight, Modifies, Hashing
 <2>2. FlagIsRight(s)'
   BY <1>1, <1>2 DEF Goes, SameCall, CallFields, SessionIsRight, FlagIsRight, Arrived, Hashing
 <2>3. LatchesAreRight(s)'
   BY <1>1, <1>2 DEF Goes, SameCall, CallFields, SessionIsRight, LatchesAreRight, OnLeaf, Hashing,
      Modifies, Holds, HoldsX, PageOf, IsLeaf
 <2>4. CursorIsRight(s)'
   BY <1>2 DEF Goes, SameCall, CallFields, CursorIsRight, HasCursor, Arrived, Hashing
 <2>5. WorkIsRight(s)' BY <1>2 DEF Goes, SameCall, CallFields, WorkIsRight, Hashing
 <2>6. MoveIsRight(s)' BY <1>2 DEF Goes, SameCall, CallFields, MoveIsRight, Moving, Hashing, HoldsX
 <2>7. KeyBelongs(s)'
   BY <1>2 DEF Goes, SameCall, CallFields, KeyBelongs, HasCursor, Arrived, Hashing, Modifies,
      LeafOf
 <2>8. /\ NodeIsKept(s)' /\ NodesAreRight(s)' /\ FoldsAreRight(s)' /\ GuessIsChecked(s)'
   BY <1>2 DEF Goes, NodeIsKept, NodesAreRight, FoldsAreRight, GuessIsChecked
 <2> QED BY <2>1, <2>2, <2>3, <2>4, <2>5, <2>6, <2>7, <2>8 DEF SessionIsRight
<1>4. SearchKept(s)
  BY <1>1, <1>2, SearchAssumption DEF SearchKept, Goes, IInv, SearchLatchIsRight, Types, LatchTypes,
     XLabels, SearchUnchanged
<1>5. latch' \in [Frames -> [x : Sessions \cup {Nobody}, s : SUBSET Sessions]]
  BY <1>1, <1>2 DEF Types, LatchTypes, LatchedBy, Unlatched, LatchesUnchanged
<1>6. /\ index_x' \in Sessions \cup {Nobody}
      /\ (index_x' # index_x => index_x \in {Nobody, s} /\ index_x' \in {Nobody, s})
  BY <1>1, <1>2 DEF Types, LatchTypes, LatchedBy, Unlatched, LatchesUnchanged
<1>7. \A f \in Frames, t \in Sessions \ {s} :
               (latch'[f].x = t <=> latch[f].x = t) /\ (t \in latch'[f].s <=> t \in latch[f].s)
  BY <1>1, <1>2, SearchAssumption DEF Types, LatchTypes, LatchedBy, Unlatched, LatchesUnchanged,
     Free
<1>8. \A f \in Frames : ~PageOf(f) => latch'[f].x = Nobody /\ latch'[f].s = {}
  BY <1>1, <1>2 DEF BlocksAreRight, BlockIsRight, LatchedBy, Unlatched, LatchesUnchanged
<1>9. \A f \in Frames : latch'[f].x # Nobody => latch'[f].s = {}
  BY <1>1, <1>2 DEF BlocksAreRight, BlockIsRight, LatchedBy, Unlatched, LatchesUnchanged, Free
<1>10. ~Moving(s) BY <1>1 DEF Moving, Hashing
<1>11. DataUnchanged /\ todo' = todo BY <1>2
<1> QED BY <1>2, <1>3, <1>4, <1>5, <1>6, <1>7, <1>8, <1>9, <1>10, <1>11, LatchingKeeps

\* The search down the tree ends on a leaf.
LEMMA DescendKeeps ==
    ASSUME IInv, NEW s \in Sessions, Descend(s)
    PROVE  IInv'
<1>1. Types /\ SessionIsRight(s) /\ s \in Procs /\ pc[s] = "descend" /\ BlocksAreRight
  BY DEF IInv, Descend, Goto, Procs
<1>2. /\ Goes(s, "descend", "info", {"frame", "rec"})
      /\ cur'[s].frame = Landed(s) /\ Landed(s) \in Landing(s)
      /\ block[Landed(s)].page = LeafOf(cur[s].mode, cur[s].key)
      /\ index_x = s => \A i \in DOMAIN leaves : \E g \in Landing(s) : block[g].page = leaves[i]
      /\ index_x # s => Landing(s) = {Landed(s)}
      /\ \A g \in Landing(s) :
            g \in Frames /\ PageOf(g) /\ IsLeaf(block[g].page) /\ Free(g, Modifies(s))
      /\ LatchedBy(s, Landing(s), Modifies(s))
      /\ cur'[s].rec.frame = Landed(s) /\ cur'[s].rec.heap = block[Landed(s)].heap
      /\ cur'[s].rec.key \in Keys => cur'[s].rec.key \in block[Landed(s)].recs
      /\ index_x \in {Nobody, s}
      /\ DataUnchanged /\ SearchUnchanged /\ UNCHANGED <<index_x, todo>>
  BY <1>1, DescendMoves
<1>a. /\ LatchedBy(s, Landing(s), Modifies(s)) /\ Landed(s) \in Landing(s)
      /\ \A g \in Landing(s) : g \in Frames /\ PageOf(g) /\ IsLeaf(block[g].page) /\ Free(g, Modifies(s))
  BY <1>2
<1>b. \A f \in Frames :
         /\ latch'[f].x = IF f \in Landing(s) /\ Modifies(s) THEN s ELSE latch[f].x
         /\ latch'[f].s = IF f \in Landing(s) /\ ~Modifies(s) THEN latch[f].s \cup {s} ELSE latch[f].s
         /\ f \in Landing(s) => latch[f].x = Nobody /\ (Modifies(s) => latch[f].s = {})
  BY <1>a DEF LatchedBy, Free
<1>c. Modifies(s)' = Modifies(s) BY <1>2 DEF Goes, SameCall, CallFields, Modifies
<1>3. SessionIsRight(s)'
 <2>1. OpIsRight(s)'
   BY <1>1, <1>2 DEF Goes, SameCall, CallFields, SessionIsRight, OpIsRight, Modifies, Hashing
 <2>2. FlagIsRight(s)'
   BY <1>1, <1>2 DEF Goes, SameCall, CallFields, SessionIsRight, FlagIsRight, Arrived, Hashing
 <2>3. LatchesAreRight(s)'
  <3>1. \A f \in Frames : ~Holds(s, f) BY <1>1 DEF SessionIsRight, LatchesAreRight
  <3>2. \A f \in Frames : Holds(s, f)' => f \in Landing(s) BY <1>1, <1>b, <3>1 DEF Holds
  <3>3. \A f \in Landing(s) : IF Modifies(s) THEN HoldsX(s, f)' ELSE s \in latch'[f].s
    BY <1>a, <1>b DEF HoldsX
  <3>4. index_x = s => Modifies(s) BY <1>1 DEF SessionIsRight, OpIsRight, Modifies
  <3>5. /\ block'[Landed(s)].state = "FILE_PAGE"
        /\ \E i \in DOMAIN leaves' : leaves'[i] = block'[Landed(s)].page
        /\ cur'[s].frame = Landed(s) /\ pc'[s] = "info" /\ index_x' = index_x
    BY <1>2, <1>a DEF PageOf, IsLeaf, DataUnchanged, Goes
  <3>6. index_x = s => \A i \in DOMAIN leaves' : \E g \in Frames : block'[g].page = leaves'[i] /\ HoldsX(s, g)'
    BY <1>2, <1>a, <3>3, <3>4 DEF DataUnchanged
  <3>7. index_x # s => \A g \in Frames : Holds(s, g)' => g = cur'[s].frame BY <1>2, <3>2, <3>5
  <3> QED BY <1>a, <1>c, <3>3, <3>5, <3>6, <3>7 DEF LatchesAreRight, PageOf, IsLeaf, Hashing
 <2>4. CursorIsRight(s)'
   BY <1>1, <1>2 DEF Goes, SameCall, CallFields, SessionIsRight, CursorIsRight, HasCursor, Arrived,
      Hashing, DataUnchanged, SearchUnchanged
 <2>5. WorkIsRight(s)' BY <1>2 DEF Goes, SameCall, CallFields, WorkIsRight, Hashing
 <2>6. MoveIsRight(s)' BY <1>2 DEF Goes, SameCall, CallFields, MoveIsRight, Moving, Hashing, HoldsX
 <2>7. KeyBelongs(s)'
   BY <1>1, <1>2 DEF Goes, SameCall, CallFields, SessionIsRight, KeyBelongs, OpIsRight,
      LatchesAreRight, OnLeaf, HasCursor, Arrived, Hashing, Modifies, LeafOf, DataUnchanged,
      SearchUnchanged
 <2>8. /\ NodeIsKept(s)' /\ NodesAreRight(s)' /\ FoldsAreRight(s)' /\ GuessIsChecked(s)'
   BY <1>2 DEF Goes, NodeIsKept, NodesAreRight, FoldsAreRight, GuessIsChecked
 <2> QED BY <2>1, <2>2, <2>3, <2>4, <2>5, <2>6, <2>7, <2>8 DEF SessionIsRight
<1>4. SearchKept(s)
  BY <1>1, <1>2, SearchAssumption DEF SearchKept, Goes, IInv, SearchLatchIsRight, Types, LatchTypes,
     XLabels, SearchUnchanged
<1>5. latch' \in [Frames -> [x : Sessions \cup {Nobody}, s : SUBSET Sessions]]
  BY <1>1, <1>2 DEF Types, LatchTypes, LatchedBy, Unlatched, LatchesUnchanged
<1>6. /\ index_x' \in Sessions \cup {Nobody}
      /\ (index_x' # index_x => index_x \in {Nobody, s} /\ index_x' \in {Nobody, s})
  BY <1>1, <1>2 DEF Types, LatchTypes, LatchedBy, Unlatched, LatchesUnchanged
<1>7. \A f \in Frames, t \in Sessions \ {s} :
               (latch'[f].x = t <=> latch[f].x = t) /\ (t \in latch'[f].s <=> t \in latch[f].s)
  BY ZenonT(60), <1>1, <1>b, SearchAssumption DEF Types, LatchTypes, LatchedBy, Unlatched, LatchesUnchanged,
     Free
<1>8. \A f \in Frames : ~PageOf(f) => latch'[f].x = Nobody /\ latch'[f].s = {}
  BY <1>1, <1>2 DEF BlocksAreRight, BlockIsRight, LatchedBy, Unlatched, LatchesUnchanged
<1>9. \A f \in Frames : latch'[f].x # Nobody => latch'[f].s = {}
  BY Zenon, <1>1, <1>b DEF BlocksAreRight, BlockIsRight, LatchedBy, Unlatched, LatchesUnchanged,
     Free
<1>10. ~Moving(s) BY <1>1 DEF Moving, Hashing
<1>11. DataUnchanged /\ todo' = todo BY <1>2
<1> QED BY <1>2, <1>3, <1>4, <1>5, <1>6, <1>7, <1>8, <1>9, <1>10, <1>11, LatchingKeeps

\* btr_search_info_update.
LEMMA InfoUpdateKeeps ==
    ASSUME IInv, NEW s \in Sessions, InfoUpdate(s)
    PROVE  IInv'
<1>1. Types /\ SessionIsRight(s) /\ s \in Procs /\ pc[s] = "info" /\ cur[s].frame \in Frames
  BY DEF IInv, InfoUpdate, Goto, Procs, SessionIsRight, LatchesAreRight, OnLeaf, Hashing
<1>2. /\ \/ Goes(s, "info", "at", {})
         \/ cur[s].flag = "hash_fail" /\ Goes(s, "info", "ref", {})
         \/ \E b \in {"build", "drop_check"} :
               /\ Goes(s, "info", b, {"work", "n", "left", "next"})
               /\ cur'[s].work = cur[s].frame /\ cur'[s].next = "build"
      /\ DataUnchanged /\ LatchesUnchanged /\ SearchUnchanged /\ UNCHANGED todo
  BY <1>1, InfoUpdateMoves
<1>3. SessionIsRight(s)'
 <2>1. OpIsRight(s)'
   BY <1>1, <1>2 DEF Goes, SameCall, CallFields, SessionIsRight, OpIsRight, Modifies, Hashing,
      DataUnchanged, LatchesUnchanged, SearchUnchanged
 <2>2. FlagIsRight(s)'
   BY <1>1, <1>2 DEF Goes, SameCall, CallFields, SessionIsRight, FlagIsRight, Arrived, Hashing
 <2>3. LatchesAreRight(s)'
   BY <1>1, <1>2 DEF Goes, SameCall, CallFields, SessionIsRight, LatchesAreRight, OnLeaf, Hashing,
      Modifies, Holds, HoldsX, PageOf, IsLeaf, DataUnchanged, LatchesUnchanged, SearchUnchanged
 <2>4. CursorIsRight(s)'
   BY <1>1, <1>2 DEF Goes, SameCall, CallFields, SessionIsRight, CursorIsRight, HasCursor, Arrived,
      Hashing, DataUnchanged, LatchesUnchanged, SearchUnchanged
 <2>5. WorkIsRight(s)'
   BY <1>1, <1>2 DEF Goes, SameCall, CallFields, SessionIsRight, WorkIsRight, OpIsRight,
      LatchesAreRight, OnLeaf, Hashing, DataUnchanged, LatchesUnchanged, SearchUnchanged
 <2>6. MoveIsRight(s)'
   BY <1>1, <1>2 DEF Goes, SameCall, CallFields, SessionIsRight, MoveIsRight, OpIsRight,
      LatchesAreRight, OnLeaf, Moving, Hashing, HoldsX, DataUnchanged, LatchesUnchanged,
      SearchUnchanged
 <2>7. KeyBelongs(s)'
   BY <1>1, <1>2 DEF Goes, SameCall, CallFields, SessionIsRight, KeyBelongs, HasCursor, Arrived,
      Hashing, Modifies, LeafOf, DataUnchanged, LatchesUnchanged, SearchUnchanged
 <2>8. GuessIsChecked(s)'
   BY <1>1, <1>2 DEF Goes, SameCall, CallFields, SessionIsRight, OpIsRight, FlagIsRight,
      NodeIsKept, LatchesAreRight, CursorIsRight, NodesAreRight, WorkIsRight, FoldsAreRight,
      MoveIsRight, KeyBelongs, GuessIsChecked, Modifies, Hashing, Arrived, HasCursor, OnLeaf,
      Holds, HoldsX, PageOf, IsLeaf, Moving, LeafOf, DataUnchanged, LatchesUnchanged,
      SearchUnchanged
 <2>9. /\ NodeIsKept(s)' /\ NodesAreRight(s)' /\ FoldsAreRight(s)'
   BY <1>2 DEF Goes, NodeIsKept, NodesAreRight, FoldsAreRight
 <2> QED BY <2>1, <2>2, <2>3, <2>4, <2>5, <2>6, <2>7, <2>8, <2>9 DEF SessionIsRight
<1>4. SearchKept(s)
  BY <1>1, <1>2 DEF SearchKept, Goes, IInv, SearchLatchIsRight, Types, LatchTypes, XLabels,
     SearchUnchanged
<1>5. todo' \in [Sessions -> Seq(SUBSET Calls)] BY <1>1, <1>2 DEF Types, ThreadTypes
<1>6. Moving(s) => Moving(s)' BY <1>1, <1>2 DEF Moving, Goes, SameCall, CallFields, Hashing
<1> QED BY <1>2, <1>3, <1>4, <1>5, <1>6, QuietKeeps

\* btr_search_update_hash_ref.
LEMMA UpdateHashRefKeeps ==
    ASSUME IInv, NEW s \in Sessions, UpdateHashRef(s)
    PROVE  IInv'
<1>1. /\ Types /\ SessionIsRight(s) /\ s \in Procs /\ pc[s] = "ref" /\ cur[s].frame \in Frames
      /\ PageOf(cur[s].frame) /\ Holds(s, cur[s].frame)
      /\ cur[s].rec.frame = cur[s].frame /\ cur[s].rec.heap = block[cur[s].frame].heap
      /\ (cur[s].rec.key \in Keys => cur[s].rec.key \in block[cur[s].frame].recs)
  BY DEF IInv, UpdateHashRef, Goto, Procs, SessionIsRight, LatchesAreRight, OnLeaf, Hashing,
     Modifies, Holds, HoldsX, CursorIsRight, HasCursor, Arrived
<1>2. /\ Goes(s, "ref", "info", {"flag"}) /\ cur'[s].flag = "binary"
      /\ hash' = hash \/ (Nodes(cur[s].frame, block[cur[s].frame].n) /\ block[cur[s].frame].is_hashed)
      /\ XSection(s) /\ LatchesUnchanged /\ UNCHANGED <<plan, block, disk, leaves, cut, todo>>
  BY <1>1, UpdateHashRefMoves
<1>3. SessionIsRight(s)'
 <2>1. OpIsRight(s)'
   BY <1>1, <1>2 DEF Goes, SameCall, CallFields, SessionIsRight, OpIsRight, Modifies, Hashing,
      LatchesUnchanged
 <2>2. FlagIsRight(s)'
   BY <1>1, <1>2 DEF Goes, SameCall, CallFields, SessionIsRight, FlagIsRight, Arrived, Hashing
 <2>3. LatchesAreRight(s)'
   BY <1>1, <1>2 DEF Goes, SameCall, CallFields, SessionIsRight, LatchesAreRight, OnLeaf, Hashing,
      Modifies, Holds, HoldsX, PageOf, IsLeaf, LatchesUnchanged
 <2>4. CursorIsRight(s)'
   BY <1>1, <1>2 DEF Goes, SameCall, CallFields, SessionIsRight, CursorIsRight, HasCursor, Arrived,
      Hashing
 <2>5. WorkIsRight(s)' BY <1>2 DEF Goes, SameCall, CallFields, WorkIsRight, Hashing
 <2>6. MoveIsRight(s)' BY <1>2 DEF Goes, SameCall, CallFields, MoveIsRight, Moving, Hashing, HoldsX
 <2>7. KeyBelongs(s)'
   BY <1>1, <1>2 DEF Goes, SameCall, CallFields, SessionIsRight, KeyBelongs, HasCursor, Arrived,
      Hashing, Modifies, LeafOf
 <2>8. /\ NodeIsKept(s)' /\ NodesAreRight(s)' /\ FoldsAreRight(s)' /\ GuessIsChecked(s)'
   BY <1>2 DEF Goes, NodeIsKept, NodesAreRight, FoldsAreRight, GuessIsChecked
 <2> QED BY <2>1, <2>2, <2>3, <2>4, <2>5, <2>6, <2>7, <2>8 DEF SessionIsRight
<1>4. hash' \in [Folds -> Rec \cup {NoRec}] BY <1>1, <1>2 DEF Nodes, Types
<1>5. \A v \in Folds : \/ hash'[v] = hash[v] \/ hash'[v] = NoRec
                       \/ /\ NodeOf(cur[s].frame, block[cur[s].frame].n, v, hash'[v])
                          /\ block[cur[s].frame].is_hashed
  BY <1>1, <1>2 DEF Nodes, Types
<1>6. block[cur[s].frame].state = "FILE_PAGE" /\ ~Moving(s) BY <1>1 DEF PageOf, Moving, Hashing
<1> QED BY <1>1, <1>2, <1>3, <1>4, <1>5, <1>6, HashKeeps

\* A search returns.
LEMMA SearchKeeps ==
    ASSUME IInv, NEW s \in Sessions, Search(s)
    PROVE  IInv'
<1>1. Types /\ SessionIsRight(s) /\ s \in Procs /\ pc[s] = "at" /\ BlocksAreRight
  BY DEF IInv, Search, Calling, Goto, Procs
<1>2. /\ Goes(s, "at", "idle", CallFields) /\ cur'[s] = NoCall
      /\ Unlatched(s) /\ DataUnchanged /\ SearchUnchanged /\ UNCHANGED todo
  BY <1>1, SearchMoves
<1>3. SessionIsRight(s)'
 <2>1. OpIsRight(s)'
   BY <1>1, <1>2, SearchAssumption DEF Goes, OpIsRight, NoCall, Unlatched, Modifies, Hashing
 <2>2. FlagIsRight(s)' BY <1>1, <1>2 DEF Goes, FlagIsRight, NoCall, Arrived, Hashing
 <2>3. LatchesAreRight(s)'
   BY <1>1, <1>2, SearchAssumption DEF Goes, SessionIsRight, LatchesAreRight, OnLeaf, Hashing,
      Modifies, Holds, HoldsX, SameCall, CallFields, Unlatched, Types, LatchTypes, BlocksAreRight,
      BlockIsRight, PageOf
 <2>4. CursorIsRight(s)'
   BY <1>2 DEF Goes, SameCall, CallFields, CursorIsRight, HasCursor, Arrived, Hashing
 <2>5. WorkIsRight(s)' BY <1>2 DEF Goes, SameCall, CallFields, WorkIsRight, Hashing
 <2>6. MoveIsRight(s)' BY <1>2 DEF Goes, SameCall, CallFields, MoveIsRight, Moving, Hashing, HoldsX
 <2>7. KeyBelongs(s)'
   BY <1>2 DEF Goes, SameCall, CallFields, KeyBelongs, HasCursor, Arrived, Hashing, Modifies,
      LeafOf
 <2>8. /\ NodeIsKept(s)' /\ NodesAreRight(s)' /\ FoldsAreRight(s)' /\ GuessIsChecked(s)'
   BY <1>2 DEF Goes, NodeIsKept, NodesAreRight, FoldsAreRight, GuessIsChecked
 <2> QED BY <2>1, <2>2, <2>3, <2>4, <2>5, <2>6, <2>7, <2>8 DEF SessionIsRight
<1>4. SearchKept(s)
  BY <1>1, <1>2, SearchAssumption DEF SearchKept, Goes, IInv, SearchLatchIsRight, Types, LatchTypes,
     XLabels, SearchUnchanged
<1>5. latch' \in [Frames -> [x : Sessions \cup {Nobody}, s : SUBSET Sessions]]
  BY <1>1, <1>2 DEF Types, LatchTypes, LatchedBy, Unlatched, LatchesUnchanged
<1>6. /\ index_x' \in Sessions \cup {Nobody}
      /\ (index_x' # index_x => index_x \in {Nobody, s} /\ index_x' \in {Nobody, s})
  BY <1>1, <1>2 DEF Types, LatchTypes, LatchedBy, Unlatched, LatchesUnchanged
<1>7. \A f \in Frames, t \in Sessions \ {s} :
               (latch'[f].x = t <=> latch[f].x = t) /\ (t \in latch'[f].s <=> t \in latch[f].s)
  BY <1>1, <1>2, SearchAssumption DEF Types, LatchTypes, LatchedBy, Unlatched, LatchesUnchanged,
     Free
<1>8. \A f \in Frames : ~PageOf(f) => latch'[f].x = Nobody /\ latch'[f].s = {}
  BY <1>1, <1>2 DEF BlocksAreRight, BlockIsRight, LatchedBy, Unlatched, LatchesUnchanged
<1>9. \A f \in Frames : latch'[f].x # Nobody => latch'[f].s = {}
  BY <1>1, <1>2 DEF BlocksAreRight, BlockIsRight, LatchedBy, Unlatched, LatchesUnchanged, Free
<1>10. ~Moving(s) BY <1>1 DEF Moving, Hashing
<1>11. DataUnchanged /\ todo' = todo BY <1>2
<1> QED BY <1>2, <1>3, <1>4, <1>5, <1>6, <1>7, <1>8, <1>9, <1>10, <1>11, LatchingKeeps

\* The shortcut takes the search latch again.
LEMMA RelatchKeeps ==
    ASSUME IInv, NEW s \in Sessions, Relatch(s)
    PROVE  IInv'
<1>1. Types /\ SessionIsRight(s) /\ s \in Procs /\ pc[s] = "at"
  BY DEF IInv, Relatch, Calling, Goto, Procs
<1>2. /\ cur[s].op = "read"
      /\ \E b \in {"reading", "done"} : Goes(s, "at", b, {})
      /\ search_x = Nobody /\ search_s' = search_s \cup {s}
      /\ DataUnchanged /\ LatchesUnchanged /\ UNCHANGED <<search_x, todo>>
  BY <1>1, RelatchMoves
<1>3. SessionIsRight(s)'
 <2>1. OpIsRight(s)'
   BY <1>1, <1>2 DEF Goes, SameCall, CallFields, SessionIsRight, OpIsRight, Modifies, Hashing,
      DataUnchanged, LatchesUnchanged
 <2>2. FlagIsRight(s)'
   BY <1>1, <1>2 DEF Goes, SameCall, CallFields, SessionIsRight, FlagIsRight, Arrived, Hashing
 <2>3. NodeIsKept(s)'
   BY <1>1, <1>2 DEF Goes, SameCall, CallFields, SessionIsRight, OpIsRight, FlagIsRight,
      NodeIsKept, LatchesAreRight, CursorIsRight, NodesAreRight, WorkIsRight, FoldsAreRight,
      MoveIsRight, KeyBelongs, GuessIsChecked, Modifies, Hashing, Arrived, HasCursor, OnLeaf,
      Holds, HoldsX, PageOf, IsLeaf, Moving, LeafOf, DataUnchanged, LatchesUnchanged
 <2>4. LatchesAreRight(s)'
   BY <1>2 DEF Goes, SameCall, CallFields, LatchesAreRight, OnLeaf, Hashing, Modifies, Holds,
      HoldsX, PageOf, IsLeaf
 <2>5. CursorIsRight(s)'
   BY <1>2 DEF Goes, SameCall, CallFields, CursorIsRight, HasCursor, Arrived, Hashing
 <2>6. WorkIsRight(s)' BY <1>2 DEF Goes, SameCall, CallFields, WorkIsRight, Hashing
 <2>7. MoveIsRight(s)' BY <1>2 DEF Goes, SameCall, CallFields, MoveIsRight, Moving, Hashing, HoldsX
 <2>8. KeyBelongs(s)'
   BY <1>2 DEF Goes, SameCall, CallFields, KeyBelongs, HasCursor, Arrived, Hashing, Modifies,
      LeafOf
 <2>9. /\ NodesAreRight(s)' /\ FoldsAreRight(s)' /\ GuessIsChecked(s)'
   BY <1>2 DEF Goes, NodesAreRight, FoldsAreRight, GuessIsChecked
 <2> QED BY <2>1, <2>2, <2>3, <2>4, <2>5, <2>6, <2>7, <2>8, <2>9 DEF SessionIsRight
<1>4. SearchKept(s)
  BY <1>1, <1>2 DEF SearchKept, Goes, IInv, SearchLatchIsRight, Types, LatchTypes, XLabels,
     SearchUnchanged
<1>5. todo' \in [Sessions -> Seq(SUBSET Calls)] BY <1>1, <1>2 DEF Types, ThreadTypes
<1>6. Moving(s) => Moving(s)' BY <1>1, <1>2 DEF Moving, Goes, SameCall, CallFields, Hashing
<1> QED BY <1>2, <1>3, <1>4, <1>5, <1>6, QuietKeeps

\* A read or a change returns.
LEMMA FinishKeeps ==
    ASSUME IInv, NEW s \in Sessions, Finish(s)
    PROVE  IInv'
<1>1. Types /\ SessionIsRight(s) /\ s \in Procs /\ pc[s] \in {"reading", "done"} /\ BlocksAreRight
  BY DEF IInv, Finish, Procs
<1>2. /\ \E a \in {"reading", "done"} : Goes(s, a, "idle", CallFields)
      /\ cur'[s] = NoCall /\ search_s' \in {search_s, search_s \ {s}}
      /\ Unlatched(s) /\ DataUnchanged /\ UNCHANGED <<search_x, todo>>
  BY <1>1, FinishMoves
<1>3. SessionIsRight(s)'
 <2>1. OpIsRight(s)'
   BY <1>1, <1>2, SearchAssumption DEF Goes, OpIsRight, NoCall, Unlatched, Modifies, Hashing
 <2>2. FlagIsRight(s)' BY <1>1, <1>2 DEF Goes, FlagIsRight, NoCall, Arrived, Hashing
 <2>3. LatchesAreRight(s)'
   BY <1>1, <1>2, SearchAssumption DEF Goes, SessionIsRight, LatchesAreRight, OnLeaf, Hashing,
      Modifies, Holds, HoldsX, SameCall, CallFields, Unlatched, Types, LatchTypes, BlocksAreRight,
      BlockIsRight, PageOf
 <2>4. CursorIsRight(s)'
   BY <1>2 DEF Goes, SameCall, CallFields, CursorIsRight, HasCursor, Arrived, Hashing
 <2>5. WorkIsRight(s)' BY <1>2 DEF Goes, SameCall, CallFields, WorkIsRight, Hashing
 <2>6. MoveIsRight(s)' BY <1>2 DEF Goes, SameCall, CallFields, MoveIsRight, Moving, Hashing, HoldsX
 <2>7. KeyBelongs(s)'
   BY <1>2 DEF Goes, SameCall, CallFields, KeyBelongs, HasCursor, Arrived, Hashing, Modifies,
      LeafOf
 <2>8. /\ NodeIsKept(s)' /\ NodesAreRight(s)' /\ FoldsAreRight(s)' /\ GuessIsChecked(s)'
   BY <1>2 DEF Goes, NodeIsKept, NodesAreRight, FoldsAreRight, GuessIsChecked
 <2> QED BY <2>1, <2>2, <2>3, <2>4, <2>5, <2>6, <2>7, <2>8 DEF SessionIsRight
<1>4. SearchKept(s)
  BY <1>1, <1>2, SearchAssumption DEF SearchKept, Goes, IInv, SearchLatchIsRight, Types, LatchTypes,
     XLabels, SearchUnchanged
<1>5. latch' \in [Frames -> [x : Sessions \cup {Nobody}, s : SUBSET Sessions]]
  BY <1>1, <1>2 DEF Types, LatchTypes, LatchedBy, Unlatched, LatchesUnchanged
<1>6. /\ index_x' \in Sessions \cup {Nobody}
      /\ (index_x' # index_x => index_x \in {Nobody, s} /\ index_x' \in {Nobody, s})
  BY <1>1, <1>2 DEF Types, LatchTypes, LatchedBy, Unlatched, LatchesUnchanged
<1>7. \A f \in Frames, t \in Sessions \ {s} :
               (latch'[f].x = t <=> latch[f].x = t) /\ (t \in latch'[f].s <=> t \in latch[f].s)
  BY <1>1, <1>2, SearchAssumption DEF Types, LatchTypes, LatchedBy, Unlatched, LatchesUnchanged,
     Free
<1>8. \A f \in Frames : ~PageOf(f) => latch'[f].x = Nobody /\ latch'[f].s = {}
  BY <1>1, <1>2 DEF BlocksAreRight, BlockIsRight, LatchedBy, Unlatched, LatchesUnchanged
<1>9. \A f \in Frames : latch'[f].x # Nobody => latch'[f].s = {}
  BY <1>1, <1>2 DEF BlocksAreRight, BlockIsRight, LatchedBy, Unlatched, LatchesUnchanged, Free
<1>10. ~Moving(s) BY <1>1 DEF Moving, Hashing
<1>11. DataUnchanged /\ todo' = todo BY <1>2
<1> QED BY <1>2, <1>3, <1>4, <1>5, <1>6, <1>7, <1>8, <1>9, <1>10, <1>11, LatchingKeeps

-----------------------------------------------------------------------------
(* Inserts, deletes and updates *)

\* There is nothing to change.
LEMMA NothingKeeps ==
    ASSUME IInv, NEW s \in Sessions, Nothing(s)
    PROVE  IInv'
<1>1. Types /\ SessionIsRight(s) /\ s \in Procs /\ pc[s] = "at" BY DEF IInv, Nothing, Goto, Procs
<1>2. /\ Goes(s, "at", "done", {}) /\ Modifies(s)
      /\ DataUnchanged /\ LatchesUnchanged /\ SearchUnchanged /\ UNCHANGED todo
  BY <1>1, NothingMoves
<1>3. SessionIsRight(s)'
 <2>1. OpIsRight(s)'
   BY <1>1, <1>2 DEF Goes, SameCall, CallFields, SessionIsRight, OpIsRight, Modifies, Hashing,
      DataUnchanged, LatchesUnchanged, SearchUnchanged
 <2>2. FlagIsRight(s)'
   BY <1>1, <1>2 DEF Goes, SameCall, CallFields, SessionIsRight, FlagIsRight, Arrived, Hashing
 <2>3. LatchesAreRight(s)'
   BY <1>2 DEF Goes, SameCall, CallFields, LatchesAreRight, OnLeaf, Hashing, Modifies, Holds,
      HoldsX, PageOf, IsLeaf
 <2>4. CursorIsRight(s)'
   BY <1>2 DEF Goes, SameCall, CallFields, CursorIsRight, HasCursor, Arrived, Hashing
 <2>5. WorkIsRight(s)' BY <1>2 DEF Goes, SameCall, CallFields, WorkIsRight, Hashing
 <2>6. MoveIsRight(s)' BY <1>2 DEF Goes, SameCall, CallFields, MoveIsRight, Moving, Hashing, HoldsX
 <2>7. KeyBelongs(s)'
   BY <1>2 DEF Goes, SameCall, CallFields, KeyBelongs, HasCursor, Arrived, Hashing, Modifies,
      LeafOf
 <2>8. /\ NodeIsKept(s)' /\ NodesAreRight(s)' /\ FoldsAreRight(s)' /\ GuessIsChecked(s)'
   BY <1>2 DEF Goes, NodeIsKept, NodesAreRight, FoldsAreRight, GuessIsChecked
 <2> QED BY <2>1, <2>2, <2>3, <2>4, <2>5, <2>6, <2>7, <2>8 DEF SessionIsRight
<1>4. SearchKept(s)
  BY <1>1, <1>2 DEF SearchKept, Goes, IInv, SearchLatchIsRight, Types, LatchTypes, XLabels,
     SearchUnchanged
<1>5. todo' \in [Sessions -> Seq(SUBSET Calls)] BY <1>1, <1>2 DEF Types, ThreadTypes
<1>6. Moving(s) => Moving(s)' BY <1>1, <1>2 DEF Moving, Goes, SameCall, CallFields, Hashing
<1> QED BY <1>2, <1>3, <1>4, <1>5, <1>6, QuietKeeps

\* The change is tried with the tree latched.
LEMMA TryTreeKeeps ==
    ASSUME IInv, NEW s \in Sessions, TryTree(s)
    PROVE  IInv'
<1>1. /\ Types /\ SessionIsRight(s) /\ s \in Procs /\ pc[s] = "at" /\ cur[s].frame \in Frames
      /\ BlocksAreRight /\ PageOf(cur[s].frame)
  BY DEF IInv, TryTree, Goto, Calling, Procs, SessionIsRight, LatchesAreRight, OnLeaf, Hashing
<1>2. /\ Goes(s, "at", "tree", Forgotten) /\ cur'[s].flag = "binary"
      /\ cur[s].op \in {"insert", "delete"} /\ index_x # s
      /\ search_s' = search_s \ {s}
      /\ latch' = [latch EXCEPT ![cur[s].frame].x = Nobody]
      /\ DataUnchanged /\ UNCHANGED <<index_x, search_x, todo>>
  BY <1>1, TryTreeMoves
<1>a. \A f \in Frames : /\ latch'[f].x = IF f = cur[s].frame THEN Nobody ELSE latch[f].x
                        /\ latch'[f].s = latch[f].s
  BY <1>1, <1>2 DEF Types, LatchTypes
<1>b. /\ HoldsX(s, cur[s].frame) /\ latch[cur[s].frame].s = {}
      /\ \A f \in Frames : Holds(s, f) => f = cur[s].frame
 <2>1. OnLeaf(s) /\ cur[s].other = NoFrame /\ Modifies(s)
   BY <1>1, <1>2 DEF SessionIsRight, OpIsRight, OnLeaf, Hashing, Modifies
 <2>2. HoldsX(s, cur[s].frame) /\ \A f \in Frames : Holds(s, f) => f = cur[s].frame
   BY <1>1, <1>2, <2>1 DEF SessionIsRight, LatchesAreRight
 <2> QED BY <1>1, <2>2, SearchAssumption DEF HoldsX, BlocksAreRight, BlockIsRight
<1>3. SessionIsRight(s)'
 <2>1. OpIsRight(s)'
   BY <1>1, <1>2 DEF Goes, SameCall, CallFields, Forgotten, SessionIsRight, OpIsRight, Modifies,
      Hashing
 <2>2. FlagIsRight(s)'
   BY <1>1, <1>2 DEF Goes, SameCall, CallFields, Forgotten, SessionIsRight, FlagIsRight, Arrived,
      Hashing
 <2>3. LatchesAreRight(s)'
   BY <1>1, <1>2, <1>a, <1>b, SearchAssumption DEF Goes, LatchesAreRight, OnLeaf, Hashing, Holds,
      HoldsX
 <2>4. CursorIsRight(s)'
   BY <1>2 DEF Goes, SameCall, CallFields, Forgotten, CursorIsRight, HasCursor, Arrived, Hashing
 <2>5. WorkIsRight(s)' BY <1>2 DEF Goes, SameCall, CallFields, Forgotten, WorkIsRight, Hashing
 <2>6. MoveIsRight(s)'
   BY <1>2 DEF Goes, SameCall, CallFields, Forgotten, MoveIsRight, Moving, Hashing, HoldsX
 <2>7. KeyBelongs(s)'
   BY <1>2 DEF Goes, SameCall, CallFields, Forgotten, KeyBelongs, HasCursor, Arrived, Hashing,
      Modifies, LeafOf
 <2>8. /\ NodeIsKept(s)' /\ NodesAreRight(s)' /\ FoldsAreRight(s)' /\ GuessIsChecked(s)'
   BY <1>2 DEF Goes, NodeIsKept, NodesAreRight, FoldsAreRight, GuessIsChecked
 <2> QED BY <2>1, <2>2, <2>3, <2>4, <2>5, <2>6, <2>7, <2>8 DEF SessionIsRight
<1>4. SearchKept(s)
  BY <1>1, <1>2, SearchAssumption DEF SearchKept, Goes, IInv, SearchLatchIsRight, Types, LatchTypes,
     XLabels, SearchUnchanged
<1>5. latch' \in [Frames -> [x : Sessions \cup {Nobody}, s : SUBSET Sessions]]
  BY <1>1, <1>2 DEF Types, LatchTypes, LatchedBy, Unlatched
<1>6. /\ index_x' \in Sessions \cup {Nobody}
      /\ (index_x' # index_x => index_x \in {Nobody, s} /\ index_x' \in {Nobody, s})
  BY <1>1, <1>2 DEF Types, LatchTypes, LatchedBy, Unlatched, LatchesUnchanged
<1>7. \A f \in Frames, t \in Sessions \ {s} :
               (latch'[f].x = t <=> latch[f].x = t) /\ (t \in latch'[f].s <=> t \in latch[f].s)
  BY <1>1, <1>a, <1>b, SearchAssumption DEF HoldsX
<1>8. \A f \in Frames : ~PageOf(f) => latch'[f].x = Nobody /\ latch'[f].s = {}
  BY <1>1, <1>2 DEF BlocksAreRight, BlockIsRight, LatchedBy, Unlatched, LatchesUnchanged
<1>9. \A f \in Frames : latch'[f].x # Nobody => latch'[f].s = {}
  BY <1>1, <1>a, <1>b DEF BlocksAreRight, BlockIsRight, LatchedBy, Unlatched, LatchesUnchanged,
     Free, HoldsX
<1>10. ~Moving(s) BY <1>1 DEF Moving, Hashing
<1>11. DataUnchanged /\ todo' = todo BY <1>2
<1> QED BY <1>2, <1>3, <1>4, <1>5, <1>6, <1>7, <1>8, <1>9, <1>10, <1>11, LatchingKeeps

\* btr_cur_optimistic_insert.
LEMMA InsertKeeps ==
    ASSUME IInv, NEW s \in Sessions, Insert(s)
    PROVE  IInv'
<1>1. /\ Types /\ SessionIsRight(s) /\ s \in Procs /\ pc[s] = "at" /\ cur[s].frame \in Frames
      /\ PageOf(cur[s].frame) /\ IsLeaf(block[cur[s].frame].page) /\ HoldsX(s, cur[s].frame)
      /\ BlocksAreRight /\ NodesAreValid /\ InOrder /\ (\A t \in Sessions : MoveIsRight(t))
      /\ search_x # s
  BY DEF IInv, Insert, Calling, Goto, Procs, SessionIsRight, LatchesAreRight, OnLeaf, Hashing,
     Modifies, SearchLatchIsRight, XLabels, OpIsRight, Calling
<1>2. LET f == cur[s].frame
      IN  /\ Goes(s, "at", IF block[f].is_hashed THEN "hash_insert" ELSE "done", {"flag"})
          /\ cur[s].op = "insert" /\ cur[s].key \in Keys /\ cur'[s].flag \in {cur[s].flag, "binary"}
          /\ Writes(f, {"recs"}) /\ block'[f].recs = block[f].recs \cup {cur[s].key}
          /\ LatchesUnchanged /\ SearchUnchanged
          /\ UNCHANGED <<plan, hash, disk, leaves, cut, todo>>
  BY <1>1, InsertMoves
<1>3. SessionIsRight(s)'
 <2>1. OpIsRight(s)'
   BY <1>1, <1>2 DEF Goes, SameCall, CallFields, SessionIsRight, OpIsRight, Modifies, Hashing
 <2>2. FlagIsRight(s)'
   BY <1>1, <1>2 DEF Goes, SameCall, CallFields, SessionIsRight, FlagIsRight, Arrived, Hashing
 <2>3. LatchesAreRight(s)'
   BY <1>1, <1>2 DEF Goes, SameCall, CallFields, SessionIsRight, LatchesAreRight, OnLeaf, Hashing,
      Modifies, Holds, HoldsX, PageOf, IsLeaf, LatchesUnchanged, SearchUnchanged, Writes,
      SameBlock, BlockFields
 <2>4. CursorIsRight(s)'
   BY <1>1, <1>2 DEF Goes, CursorIsRight, HasCursor, Arrived, Hashing, SameCall, CallFields,
      Writes, SameBlock, BlockFields, SessionIsRight
 <2>5. NodesAreRight(s)'
   BY <1>1, <1>2 DEF Goes, NodesAreRight, SameCall, CallFields, Writes, SameBlock, BlockFields,
      SessionIsRight
 <2>6. WorkIsRight(s)' BY <1>2 DEF Goes, SameCall, CallFields, WorkIsRight, Hashing
 <2>7. MoveIsRight(s)' BY <1>2 DEF Goes, SameCall, CallFields, MoveIsRight, Moving, Hashing, HoldsX
 <2>8. KeyBelongs(s)'
   BY <1>1, <1>2 DEF Goes, KeyBelongs, HasCursor, Arrived, Hashing, Modifies, LeafOf, SameCall,
      CallFields, Writes, SameBlock, BlockFields, SessionIsRight
 <2>9. /\ NodeIsKept(s)' /\ FoldsAreRight(s)' /\ GuessIsChecked(s)'
   BY <1>2 DEF Goes, NodeIsKept, FoldsAreRight, GuessIsChecked
 <2> QED BY <2>1, <2>2, <2>3, <2>4, <2>5, <2>6, <2>7, <2>8, <2>9 DEF SessionIsRight
<1>4. /\ block' \in [Frames -> BlockType]
      /\ \A e \in Frames : SameBlock(block[e], block'[e], {"recs", "heap"})
      /\ \A e \in Frames \ {cur[s].frame} : block'[e] = block[e]
  BY <1>2 DEF Writes, SameBlock, BlockFields
<1>5. NodesAreValid'
 <2>1. ASSUME NEW v \in Folds, hash[v] # NoRec
       PROVE  /\ block'[hash[v].frame].heap = block[hash[v].frame].heap
              /\ hash[v].key \in block'[hash[v].frame].recs
  <3>1. hash[v].frame \in Frames BY <1>1, <2>1 DEF Types, Rec
  <3>2. hash[v].key \in block[hash[v].frame].recs /\ block[hash[v].frame].is_hashed
    BY <1>1, <2>1 DEF NodesAreValid, NodeIsValid
  <3>3. CASE hash[v].frame = cur[s].frame
    BY <1>1, <1>2, <3>2, <3>3 DEF Writes, SameBlock, BlockFields
  <3>4. CASE hash[v].frame # cur[s].frame BY <1>4, <3>1, <3>2, <3>4
  <3> QED BY <3>3, <3>4
 <2>2. hash' = hash BY <1>2
 <2> QED BY <1>1, <1>4, <2>1, <2>2, NodesStay
<1>6. InOrder'
 <2>1. cur[s].key \in Keys /\ cur[s] \in CallType BY <1>1 DEF Types, ThreadTypes, CallType
 <2>2. ~Moving(s) BY <1>1, <1>2 DEF Moving, Hashing
 <2>3. block'[cur[s].frame].recs \subseteq block[cur[s].frame].recs \cup {cur[s].key} BY <1>2
 <2>4. cur[s].key \in block'[cur[s].frame].recs => block[cur[s].frame].page = LeafOf("LE", cur[s].key)
   BY <1>1, <1>2 DEF SessionIsRight, OpIsRight, KeyBelongs, Modifies, HasCursor
 <2>5. UNCHANGED <<disk, leaves, cut>> BY <1>2
 <2> QED BY <1>1, <1>4, <2>1, <2>2, <2>3, <2>4, <2>5, KeyJoins
<1>7. \A e \in Frames : HoldsX(s, e) \/ block'[e] = block[e] BY <1>1, <1>4
<1>8. LatchesUnchanged /\ SearchUnchanged /\ UNCHANGED <<plan, hash, disk, leaves, cut, todo>>
  BY <1>2
<1> QED BY <1>1, <1>2, <1>3, <1>4, <1>5, <1>6, <1>7, <1>8, WritesKeep

\* A page is to be reorganised.
LEMMA ReorganizeKeeps ==
    ASSUME IInv, NEW s \in Sessions, Reorganize(s)
    PROVE  IInv'
<1>1. Types /\ SessionIsRight(s) /\ s \in Procs /\ pc[s] = "at" /\ cur[s].frame \in Frames
  BY DEF IInv, Reorganize, Calling, Goto, Procs, SessionIsRight, LatchesAreRight, OnLeaf, Hashing
<1>2. /\ Goes(s, "at", "drop_check", {"work", "flag", "next"}) /\ cur[s].op = "insert"
      /\ cur'[s].work = cur[s].frame /\ cur'[s].flag = "binary" /\ cur'[s].next = "reorganised"
      /\ DataUnchanged /\ LatchesUnchanged /\ SearchUnchanged /\ UNCHANGED todo
  BY <1>1, ReorganizeMoves
<1>3. SessionIsRight(s)'
 <2>1. OpIsRight(s)'
   BY <1>1, <1>2 DEF Goes, SameCall, CallFields, SessionIsRight, OpIsRight, Modifies, Hashing,
      DataUnchanged, LatchesUnchanged, SearchUnchanged
 <2>2. FlagIsRight(s)' BY <1>2 DEF Goes, SameCall, CallFields, FlagIsRight, Arrived, Hashing
 <2>3. NodeIsKept(s)' BY <1>2 DEF Goes, SameCall, CallFields, NodeIsKept
 <2>4. LatchesAreRight(s)'
   BY <1>1, <1>2 DEF Goes, SameCall, CallFields, SessionIsRight, LatchesAreRight, OpIsRight,
      OnLeaf, Hashing, Modifies, Holds, HoldsX, PageOf, IsLeaf, DataUnchanged, LatchesUnchanged,
      SearchUnchanged
 <2>5. CursorIsRight(s)'
   BY <1>1, <1>2 DEF Goes, SameCall, CallFields, SessionIsRight, CursorIsRight, HasCursor, Arrived,
      Hashing
 <2>6. NodesAreRight(s)' BY <1>2 DEF Goes, SameCall, CallFields, NodesAreRight
 <2>7. WorkIsRight(s)'
   BY <1>1, <1>2 DEF Goes, SameCall, CallFields, SessionIsRight, WorkIsRight, Hashing
 <2>8. FoldsAreRight(s)' BY <1>2 DEF Goes, SameCall, CallFields, FoldsAreRight
 <2>9. MoveIsRight(s)'
   BY <1>1, <1>2 DEF Goes, SameCall, CallFields, SessionIsRight, MoveIsRight, OpIsRight,
      LatchesAreRight, OnLeaf, Moving, Hashing, HoldsX, DataUnchanged, LatchesUnchanged,
      SearchUnchanged
 <2>10. KeyBelongs(s)'
   BY <1>1, <1>2 DEF Goes, SameCall, CallFields, SessionIsRight, KeyBelongs, OpIsRight,
      LatchesAreRight, OnLeaf, HasCursor, Arrived, Hashing, Modifies, LeafOf, DataUnchanged,
      LatchesUnchanged, SearchUnchanged
 <2>11. GuessIsChecked(s)' BY <1>2 DEF Goes, SameCall, CallFields, GuessIsChecked
 <2> QED BY <2>1, <2>2, <2>3, <2>4, <2>5, <2>6, <2>7, <2>8, <2>9, <2>10, <2>11 DEF SessionIsRight
<1>4. SearchKept(s)
  BY <1>1, <1>2 DEF SearchKept, Goes, IInv, SearchLatchIsRight, Types, LatchTypes, XLabels,
     SearchUnchanged
<1>5. todo' \in [Sessions -> Seq(SUBSET Calls)] BY <1>1, <1>2 DEF Types, ThreadTypes
<1>6. Moving(s) => Moving(s)' BY <1>1, <1>2 DEF Moving, Goes, SameCall, CallFields, Hashing
<1> QED BY <1>2, <1>3, <1>4, <1>5, <1>6, QuietKeeps

\* A record is inserted in a reorganised page.
LEMMA InsertReorganizedKeeps ==
    ASSUME IInv, NEW s \in Sessions, InsertReorganized(s)
    PROVE  IInv'
<1>1. /\ Types /\ SessionIsRight(s) /\ s \in Procs /\ pc[s] = "reorganised"
      /\ cur[s].frame \in Frames /\ PageOf(cur[s].frame) /\ IsLeaf(block[cur[s].frame].page)
      /\ HoldsX(s, cur[s].frame)
      /\ BlocksAreRight /\ NodesAreValid /\ InOrder /\ (\A t \in Sessions : MoveIsRight(t))
      /\ search_x # s /\ ~block[cur[s].frame].is_hashed
  BY DEF IInv, InsertReorganized, Goto, Procs, SessionIsRight, LatchesAreRight, OnLeaf, Hashing,
     Modifies, SearchLatchIsRight, XLabels, OpIsRight, NodesAreRight
<1>2. LET f == cur[s].frame
      IN  /\ Goes(s, "reorganised", IF block[f].is_hashed THEN "hash_insert" ELSE "done", {})
          /\ cur[s].key \in Keys
          /\ Writes(f, {"recs", "heap"}) /\ block'[f].recs = block[f].recs \cup {cur[s].key}
          /\ LatchesUnchanged /\ SearchUnchanged
          /\ UNCHANGED <<plan, hash, disk, leaves, cut, todo>>
  BY <1>1, InsertReorganizedMoves
<1>3. SessionIsRight(s)'
 <2>1. OpIsRight(s)'
   BY <1>1, <1>2 DEF Goes, SameCall, CallFields, SessionIsRight, OpIsRight, Modifies, Hashing
 <2>2. FlagIsRight(s)'
   BY <1>1, <1>2 DEF Goes, SameCall, CallFields, SessionIsRight, FlagIsRight, Arrived, Hashing
 <2>3. LatchesAreRight(s)'
   BY <1>1, <1>2 DEF Goes, SameCall, CallFields, SessionIsRight, LatchesAreRight, OnLeaf, Hashing,
      Modifies, Holds, HoldsX, PageOf, IsLeaf, LatchesUnchanged, SearchUnchanged, Writes,
      SameBlock, BlockFields
 <2>4. CursorIsRight(s)'
   BY <1>1, <1>2 DEF Goes, CursorIsRight, HasCursor, Arrived, Hashing, SameCall, CallFields,
      Writes, SameBlock, BlockFields, SessionIsRight
 <2>5. NodesAreRight(s)'
   BY <1>1, <1>2 DEF Goes, NodesAreRight, SameCall, CallFields, Writes, SameBlock, BlockFields,
      SessionIsRight
 <2>6. WorkIsRight(s)' BY <1>2 DEF Goes, SameCall, CallFields, WorkIsRight, Hashing
 <2>7. MoveIsRight(s)' BY <1>2 DEF Goes, SameCall, CallFields, MoveIsRight, Moving, Hashing, HoldsX
 <2>8. KeyBelongs(s)'
   BY <1>1, <1>2 DEF Goes, KeyBelongs, HasCursor, Arrived, Hashing, Modifies, LeafOf, SameCall,
      CallFields, Writes, SameBlock, BlockFields, SessionIsRight
 <2>9. /\ NodeIsKept(s)' /\ FoldsAreRight(s)' /\ GuessIsChecked(s)'
   BY <1>2 DEF Goes, NodeIsKept, FoldsAreRight, GuessIsChecked
 <2> QED BY <2>1, <2>2, <2>3, <2>4, <2>5, <2>6, <2>7, <2>8, <2>9 DEF SessionIsRight
<1>4. /\ block' \in [Frames -> BlockType]
      /\ \A e \in Frames : SameBlock(block[e], block'[e], {"recs", "heap"})
      /\ \A e \in Frames \ {cur[s].frame} : block'[e] = block[e]
  BY <1>2 DEF Writes, SameBlock, BlockFields
<1>5. NodesAreValid'
 <2>1. ASSUME NEW v \in Folds, hash[v] # NoRec
       PROVE  /\ block'[hash[v].frame].heap = block[hash[v].frame].heap
              /\ hash[v].key \in block'[hash[v].frame].recs
  <3>1. hash[v].frame \in Frames BY <1>1, <2>1 DEF Types, Rec
  <3>2. hash[v].key \in block[hash[v].frame].recs /\ block[hash[v].frame].is_hashed
    BY <1>1, <2>1 DEF NodesAreValid, NodeIsValid
  <3>3. CASE hash[v].frame = cur[s].frame
    BY <1>1, <1>2, <3>2, <3>3 DEF Writes, SameBlock, BlockFields
  <3>4. CASE hash[v].frame # cur[s].frame BY <1>4, <3>1, <3>2, <3>4
  <3> QED BY <3>3, <3>4
 <2>2. hash' = hash BY <1>2
 <2> QED BY <1>1, <1>4, <2>1, <2>2, NodesStay
<1>6. InOrder'
 <2>1. cur[s].key \in Keys /\ cur[s] \in CallType BY <1>1 DEF Types, ThreadTypes, CallType
 <2>2. ~Moving(s) BY <1>1, <1>2 DEF Moving, Hashing
 <2>3. block'[cur[s].frame].recs \subseteq block[cur[s].frame].recs \cup {cur[s].key} BY <1>2
 <2>4. cur[s].key \in block'[cur[s].frame].recs => block[cur[s].frame].page = LeafOf("LE", cur[s].key)
   BY <1>1, <1>2 DEF SessionIsRight, OpIsRight, KeyBelongs, Modifies, HasCursor
 <2>5. UNCHANGED <<disk, leaves, cut>> BY <1>2
 <2> QED BY <1>1, <1>4, <2>1, <2>2, <2>3, <2>4, <2>5, KeyJoins
<1>7. \A e \in Frames : HoldsX(s, e) \/ block'[e] = block[e] BY <1>1, <1>4
<1>8. LatchesUnchanged /\ SearchUnchanged /\ UNCHANGED <<plan, hash, disk, leaves, cut, todo>>
  BY <1>2
<1> QED BY <1>1, <1>2, <1>3, <1>4, <1>5, <1>6, <1>7, <1>8, WritesKeep

\* btr_search_update_hash_on_insert: every new node is of a record of the page.
LEMMA HashOnInsertKeeps ==
    ASSUME IInv, NEW s \in Sessions, HashOnInsert(s)
    PROVE  IInv'
<1>1. /\ Types /\ SessionIsRight(s) /\ s \in Procs /\ pc[s] = "hash_insert"
      /\ cur[s].frame \in Frames /\ PageOf(cur[s].frame) /\ Holds(s, cur[s].frame)
      /\ cur[s].key \in block[cur[s].frame].recs /\ block[cur[s].frame].is_hashed
  BY Zenon DEF IInv, HashOnInsert, Goto, Procs, SessionIsRight, LatchesAreRight, OnLeaf, Hashing,
     Modifies, Holds, HoldsX, NodesAreRight
<1>2. /\ Goes(s, "hash_insert", "done", {}) /\ Nodes(cur[s].frame, block[cur[s].frame].n)
      /\ XSection(s) /\ LatchesUnchanged /\ UNCHANGED <<plan, block, disk, leaves, cut, todo>>
  BY <1>1, HashOnInsertMoves
<1>3. SessionIsRight(s)'
 <2>1. OpIsRight(s)'
   BY <1>1, <1>2 DEF Goes, SameCall, CallFields, SessionIsRight, OpIsRight, Modifies, Hashing
 <2>2. FlagIsRight(s)'
   BY <1>1, <1>2 DEF Goes, SameCall, CallFields, SessionIsRight, FlagIsRight, Arrived, Hashing
 <2>3. LatchesAreRight(s)'
   BY <1>1, <1>2 DEF Goes, SameCall, CallFields, SessionIsRight, LatchesAreRight, OnLeaf, Hashing,
      Modifies, Holds, HoldsX, PageOf, IsLeaf, LatchesUnchanged
 <2>4. CursorIsRight(s)'
   BY <1>2 DEF Goes, SameCall, CallFields, CursorIsRight, HasCursor, Arrived, Hashing
 <2>5. WorkIsRight(s)' BY <1>2 DEF Goes, SameCall, CallFields, WorkIsRight, Hashing
 <2>6. MoveIsRight(s)' BY <1>2 DEF Goes, SameCall, CallFields, MoveIsRight, Moving, Hashing, HoldsX
 <2>7. KeyBelongs(s)'
   BY <1>2 DEF Goes, SameCall, CallFields, KeyBelongs, HasCursor, Arrived, Hashing, Modifies,
      LeafOf
 <2>8. /\ NodeIsKept(s)' /\ NodesAreRight(s)' /\ FoldsAreRight(s)' /\ GuessIsChecked(s)'
   BY <1>2 DEF Goes, NodeIsKept, NodesAreRight, FoldsAreRight, GuessIsChecked
 <2> QED BY <2>1, <2>2, <2>3, <2>4, <2>5, <2>6, <2>7, <2>8 DEF SessionIsRight
<1>4. hash' \in [Folds -> Rec \cup {NoRec}] BY <1>1, <1>2 DEF Nodes, Types
<1>5. \A v \in Folds : \/ hash'[v] = hash[v] \/ hash'[v] = NoRec
                       \/ /\ NodeOf(cur[s].frame, block[cur[s].frame].n, v, hash'[v])
                          /\ block[cur[s].frame].is_hashed
  BY <1>1, <1>2 DEF Nodes, Types
<1>6. block[cur[s].frame].state = "FILE_PAGE" /\ ~Moving(s) BY <1>1 DEF PageOf, Moving, Hashing
<1> QED BY <1>1, <1>2, <1>3, <1>4, <1>5, <1>6, HashKeeps

\* btr_cur_optimistic_delete and btr_cur_pessimistic_delete begin.
LEMMA DeleteKeeps ==
    ASSUME IInv, NEW s \in Sessions, Delete(s)
    PROVE  IInv'
<1>1. /\ Types /\ SessionIsRight(s) /\ s \in Procs /\ pc[s] = "at" /\ cur[s].frame \in Frames
      /\ NodesAreValid
  BY DEF IInv, Delete, Calling, Goto, Procs, SessionIsRight, LatchesAreRight, OnLeaf, Hashing
<1>2. LET f == cur[s].frame
      IN  /\ cur[s].op = "delete" /\ cur[s].rec.key = cur[s].key /\ cur'[s].work = f
          /\ \/ /\ Goes(s, "at", "drop_check", {"work", "next"}) /\ cur'[s].next = "emptied"
                /\ index_x = s /\ Len(leaves) = 2
             \/ /\ Goes(s, "at", IF block[f].is_hashed THEN "hash_delete" ELSE "remove", {"work", "next"})
                /\ cur'[s].next = "remove"
          /\ DataUnchanged /\ LatchesUnchanged /\ SearchUnchanged /\ UNCHANGED todo
  BY <1>1, DeleteMoves
<1>3. SessionIsRight(s)'
 <2>1. OpIsRight(s)'
   BY <1>1, <1>2 DEF Goes, SameCall, CallFields, SessionIsRight, OpIsRight, Modifies, Hashing
 <2>2. FlagIsRight(s)'
   BY <1>1, <1>2 DEF Goes, SameCall, CallFields, SessionIsRight, FlagIsRight, Arrived, Hashing
 <2>3. LatchesAreRight(s)'
   BY <1>1, <1>2 DEF Goes, SameCall, CallFields, SessionIsRight, LatchesAreRight, OnLeaf, Hashing,
      Modifies, Holds, HoldsX, PageOf, IsLeaf, DataUnchanged, LatchesUnchanged, SearchUnchanged
 <2>4. CursorIsRight(s)'
   BY <1>1, <1>2 DEF Goes, SameCall, CallFields, SessionIsRight, CursorIsRight, HasCursor, Arrived,
      Hashing, DataUnchanged, LatchesUnchanged, SearchUnchanged
 <2>5. NodesAreRight(s)'
   BY <1>1, <1>2, SearchAssumption DEF Goes, SameCall, CallFields, NodesAreRight, NodesAreValid,
      NodeIsValid, NoRec, DataUnchanged
 <2>6. WorkIsRight(s)' BY <1>2 DEF Goes, SameCall, CallFields, WorkIsRight, Hashing
 <2>7. MoveIsRight(s)'
   BY <1>1, <1>2 DEF Goes, SameCall, CallFields, SessionIsRight, MoveIsRight, OpIsRight,
      LatchesAreRight, OnLeaf, Moving, Hashing, HoldsX, DataUnchanged, LatchesUnchanged,
      SearchUnchanged
 <2>8. KeyBelongs(s)'
   BY <1>1, <1>2 DEF Goes, SameCall, CallFields, SessionIsRight, KeyBelongs, HasCursor, Arrived,
      Hashing, Modifies, LeafOf, DataUnchanged, LatchesUnchanged, SearchUnchanged
 <2>9. /\ NodeIsKept(s)' /\ FoldsAreRight(s)' /\ GuessIsChecked(s)'
   BY <1>2 DEF Goes, NodeIsKept, FoldsAreRight, GuessIsChecked
 <2> QED BY <2>1, <2>2, <2>3, <2>4, <2>5, <2>6, <2>7, <2>8, <2>9 DEF SessionIsRight
<1>4. SearchKept(s)
  BY <1>1, <1>2 DEF SearchKept, Goes, IInv, SearchLatchIsRight, Types, LatchTypes, XLabels,
     SearchUnchanged
<1>5. todo' \in [Sessions -> Seq(SUBSET Calls)] BY <1>1, <1>2 DEF Types, ThreadTypes
<1>6. Moving(s) => Moving(s)' BY <1>1, <1>2 DEF Moving, Goes, SameCall, CallFields, Hashing
<1> QED BY <1>2, <1>3, <1>4, <1>5, <1>6, QuietKeeps

\* btr_search_update_hash_on_delete: no node points to the record that will be removed.
LEMMA HashOnDeleteKeeps ==
    ASSUME IInv, NEW s \in Sessions, HashOnDelete(s)
    PROVE  IInv'
<1>1. /\ Types /\ SessionIsRight(s) /\ s \in Procs /\ pc[s] = "hash_delete"
      /\ cur[s].frame \in Frames /\ PageOf(cur[s].frame) /\ Holds(s, cur[s].frame)
      /\ NodesAreValid
  BY DEF IInv, HashOnDelete, Goto, Procs, SessionIsRight, LatchesAreRight, OnLeaf, Hashing,
     Modifies, Holds, HoldsX
<1>2. LET v == FoldOf(cur[s].frame, cur[s].key)
      IN  /\ Goes(s, "hash_delete", cur[s].next, {})
          /\ v \in Folds
          /\ hash' = IF hash[v] = cur[s].rec THEN [hash EXCEPT ![v] = NoRec] ELSE hash
          /\ hash' \in [Folds -> Rec \cup {NoRec}]
          /\ XSection(s) /\ LatchesUnchanged /\ UNCHANGED <<plan, block, disk, leaves, cut, todo>>
  BY <1>1, HashOnDeleteMoves
<1>3. SessionIsRight(s)'
 <2>1. OpIsRight(s)'
   BY <1>1, <1>2 DEF Goes, SameCall, CallFields, SessionIsRight, OpIsRight, Modifies, Hashing,
      LatchesUnchanged
 <2>2. FlagIsRight(s)'
   BY <1>1, <1>2 DEF Goes, SameCall, CallFields, SessionIsRight, FlagIsRight, OpIsRight,
      LatchesAreRight, OnLeaf, Arrived, Hashing, LatchesUnchanged
 <2>3. NodeIsKept(s)'
   BY <1>1, <1>2 DEF Goes, SameCall, CallFields, SessionIsRight, NodeIsKept, OpIsRight,
      LatchesAreRight, OnLeaf, Hashing, LatchesUnchanged
 <2>4. LatchesAreRight(s)'
   BY <1>1, <1>2 DEF Goes, SameCall, CallFields, SessionIsRight, LatchesAreRight, OpIsRight,
      OnLeaf, Hashing, Modifies, Holds, HoldsX, PageOf, IsLeaf, LatchesUnchanged
 <2>5. CursorIsRight(s)'
   BY <1>1, <1>2 DEF Goes, SameCall, CallFields, SessionIsRight, CursorIsRight, HasCursor, Arrived,
      Hashing
 <2>6. NodesAreRight(s)'
  <3>1. cur[s] \in CallType /\ cur[s].key \in Keys /\ cur[s].next \in {"remove", "write_lock"}
    BY <1>1 DEF Types, ThreadTypes, CallType, SessionIsRight, OpIsRight
  <3>2. /\ cur[s].rec.frame = cur[s].frame /\ cur[s].rec.heap = block[cur[s].frame].heap
        /\ cur[s].rec.key = cur[s].key
    BY <1>1 DEF SessionIsRight, CursorIsRight
  <3>3. cur[s].rec \in Rec BY <1>1, <3>1, <3>2, SearchAssumption DEF CallType, NoRec
  <3>4. ASSUME NEW v \in Folds, hash[v].frame = cur[s].frame, hash[v].key = cur[s].key
        PROVE  v = FoldOf(cur[s].frame, cur[s].key) /\ hash[v] = cur[s].rec
   <4>1. hash[v] \in Rec /\ hash[v] # NoRec BY <1>1, <3>4, SearchAssumption DEF Types, NoRec
   <4>2. hash[v].heap = block[cur[s].frame].heap /\ v = FoldOf(cur[s].frame, cur[s].key)
     BY <1>1, <3>4, <4>1 DEF NodesAreValid, NodeIsValid, FoldOf
   <4> QED BY <3>2, <3>3, <3>4, <4>1, <4>2 DEF Rec
  <3>5. \A v \in Folds : ~(hash'[v].frame = cur[s].frame /\ hash'[v].key = cur[s].key)
    BY <1>1, <1>2, <3>4, SearchAssumption DEF NoRec, Types
  <3> QED BY <1>2, <3>1, <3>5 DEF Goes, SameCall, CallFields, NodesAreRight
 <2>7. WorkIsRight(s)'
   BY <1>1, <1>2 DEF Goes, SameCall, CallFields, SessionIsRight, WorkIsRight, OpIsRight,
      LatchesAreRight, OnLeaf, Hashing, LatchesUnchanged
 <2>8. FoldsAreRight(s)'
   BY <1>1, <1>2 DEF Goes, SameCall, CallFields, SessionIsRight, FoldsAreRight, OpIsRight,
      LatchesAreRight, OnLeaf, Hashing, LatchesUnchanged
 <2>9. MoveIsRight(s)'
   BY <1>1, <1>2 DEF Goes, SameCall, CallFields, SessionIsRight, MoveIsRight, OpIsRight,
      LatchesAreRight, OnLeaf, Moving, Hashing, HoldsX, LatchesUnchanged
 <2>10. KeyBelongs(s)'
   BY <1>1, <1>2 DEF Goes, SameCall, CallFields, SessionIsRight, KeyBelongs, HasCursor, Arrived,
      Hashing, Modifies, LeafOf
 <2>11. GuessIsChecked(s)'
   BY <1>1, <1>2 DEF Goes, SameCall, CallFields, SessionIsRight, GuessIsChecked, OpIsRight,
      LatchesAreRight, OnLeaf, Hashing, LatchesUnchanged
 <2> QED BY <2>1, <2>2, <2>3, <2>4, <2>5, <2>6, <2>7, <2>8, <2>9, <2>10, <2>11 DEF SessionIsRight
<1>4. hash' \in [Folds -> Rec \cup {NoRec}] BY <1>1, <1>2 DEF Nodes, Types
<1>5. \A v \in Folds : \/ hash'[v] = hash[v] \/ hash'[v] = NoRec
                       \/ /\ NodeOf(cur[s].frame, block[cur[s].frame].n, v, hash'[v])
                          /\ block[cur[s].frame].is_hashed
  BY <1>1, <1>2 DEF Nodes, Types
<1>6. block[cur[s].frame].state = "FILE_PAGE" /\ ~Moving(s) BY <1>1 DEF PageOf, Moving, Hashing
<1> QED BY <1>1, <1>2, <1>3, <1>4, <1>5, <1>6, HashKeeps

\* A session that stays on its leaf, and latches as it did.
LEMMA LatchesStayRight ==
    ASSUME NEW s, OnLeaf(s), LatchesAreRight(s), LatchesUnchanged, UNCHANGED leaves,
           \A x \in {"op", "frame", "other"} : cur'[s][x] = cur[s][x],
           \A f \in Frames : block'[f].page = block[f].page /\ block'[f].state = block[f].state,
           pc'[s] \notin {"idle", "start", "block", "latch", "descend", "tree"},
           pc'[s] = "compress" => index_x = s /\ Len(leaves) = 2,
           pc'[s] = "emptied" \/ (pc'[s] \in Hashing /\ cur'[s].next = "emptied") =>
              index_x = s /\ Len(leaves) = 2
    PROVE  LatchesAreRight(s)'
<1>1. /\ cur'[s].op = cur[s].op /\ cur'[s].frame = cur[s].frame /\ cur'[s].other = cur[s].other
      /\ latch' = latch /\ index_x' = index_x
  BY DEF LatchesUnchanged
<1>2. cur[s].frame \in Frames BY DEF LatchesAreRight
<1> QED BY <1>1, <1>2 DEF LatchesAreRight, Modifies, Holds, HoldsX, PageOf, IsLeaf

\* page_cur_delete_rec: no node is left that points to the record.
LEMMA RemoveKeeps ==
    ASSUME IInv, NEW s \in Sessions, Remove(s)
    PROVE  IInv'
<1>1. /\ Types /\ SessionIsRight(s) /\ s \in Procs /\ pc[s] = "remove" /\ cur[s].frame \in Frames
      /\ PageOf(cur[s].frame) /\ IsLeaf(block[cur[s].frame].page) /\ HoldsX(s, cur[s].frame)
      /\ BlocksAreRight /\ NodesAreValid /\ InOrder /\ (\A t \in Sessions : MoveIsRight(t))
      /\ search_x # s
  BY DEF IInv, Remove, Goto, Procs, SessionIsRight, LatchesAreRight, OnLeaf, Hashing, Modifies,
     SearchLatchIsRight, XLabels, OpIsRight
<1>2. LET f == cur[s].frame
      IN  /\ \/ cur[s].op = "update" /\ Goes(s, "remove", "reinsert", {})
             \/ cur[s].op = "delete" /\ Goes(s, "remove", "done", {})
             \/ /\ cur[s].op = "delete" /\ index_x = s /\ Len(leaves) = 2
                /\ Goes(s, "remove", "compress", {})
          /\ Writes(f, {"recs"}) /\ block'[f].recs = block[f].recs \ {cur[s].key}
          /\ LatchesUnchanged /\ SearchUnchanged
          /\ UNCHANGED <<plan, hash, disk, leaves, cut, todo>>
  BY <1>1, RemoveMoves
<1>a. \A v \in Folds : ~(hash[v].frame = cur[s].frame /\ hash[v].key = cur[s].key)
  BY <1>1 DEF SessionIsRight, NodesAreRight
<1>3. SessionIsRight(s)'
 <2>1. OpIsRight(s)'
   BY <1>1, <1>2 DEF Goes, SameCall, CallFields, SessionIsRight, OpIsRight, Modifies, Hashing,
      LatchesUnchanged
 <2>2. FlagIsRight(s)'
   BY <1>1, <1>2 DEF Goes, SameCall, CallFields, SessionIsRight, FlagIsRight, Arrived, Hashing
 <2>3. LatchesAreRight(s)'
  <3>1. /\ pc'[s] \in {"reinsert", "done", "compress"} /\ SameCall(cur[s], cur'[s], {})
        /\ pc'[s] = "compress" => index_x = s /\ Len(leaves) = 2
    BY <1>2 DEF Goes
  <3>2. \A x \in {"op", "frame", "other"} : cur'[s][x] = cur[s][x] BY <3>1 DEF SameCall, CallFields
  <3>3. \A e \in Frames : block'[e].page = block[e].page /\ block'[e].state = block[e].state
    BY <1>2 DEF Writes, SameBlock, BlockFields
  <3>4. OnLeaf(s) /\ LatchesAreRight(s) BY <1>1 DEF OnLeaf, SessionIsRight
  <3> QED BY <1>2, <3>1, <3>2, <3>3, <3>4, LatchesStayRight DEF Hashing
 <2>4. CursorIsRight(s)'
   BY <1>1, <1>2 DEF Goes, CursorIsRight, HasCursor, Arrived, Hashing, SessionIsRight
 <2>5. NodesAreRight(s)'
   BY Zenon, <1>1, <1>2 DEF Goes, NodesAreRight, SameCall, CallFields, Writes, SameBlock,
      BlockFields, SessionIsRight
 <2>6. WorkIsRight(s)' BY <1>2 DEF Goes, SameCall, CallFields, WorkIsRight, Hashing
 <2>7. MoveIsRight(s)' BY Zenon, <1>2 DEF Goes, SameCall, CallFields, MoveIsRight, Moving, Hashing,
     HoldsX
 <2>8. KeyBelongs(s)'
   BY <1>1, <1>2 DEF Goes, KeyBelongs, HasCursor, Arrived, Hashing, Modifies, LeafOf, SameCall,
      CallFields, Writes, SameBlock, BlockFields, SessionIsRight
 <2>9. /\ NodeIsKept(s)' /\ FoldsAreRight(s)' /\ GuessIsChecked(s)'
   BY <1>2 DEF Goes, NodeIsKept, FoldsAreRight, GuessIsChecked
 <2> QED BY <2>1, <2>2, <2>3, <2>4, <2>5, <2>6, <2>7, <2>8, <2>9 DEF SessionIsRight
<1>4. /\ block' \in [Frames -> BlockType]
      /\ \A e \in Frames : SameBlock(block[e], block'[e], {"recs", "heap"})
      /\ \A e \in Frames \ {cur[s].frame} : block'[e] = block[e]
  BY <1>2 DEF Writes, SameBlock, BlockFields
<1>5. NodesAreValid'
 <2>1. ASSUME NEW v \in Folds, hash[v] # NoRec
       PROVE  /\ block'[hash[v].frame].heap = block[hash[v].frame].heap
              /\ hash[v].key \in block'[hash[v].frame].recs
  <3>1. hash[v].frame \in Frames BY <1>1, <2>1 DEF Types, Rec
  <3>2. hash[v].key \in block[hash[v].frame].recs /\ block[hash[v].frame].is_hashed
    BY <1>1, <2>1 DEF NodesAreValid, NodeIsValid
  <3>3. CASE hash[v].frame = cur[s].frame
    BY <1>1, <1>2, <3>2, <3>3, <1>a DEF Writes, SameBlock, BlockFields
  <3>4. CASE hash[v].frame # cur[s].frame BY <1>4, <3>1, <3>2, <3>4
  <3> QED BY <3>3, <3>4
 <2>2. hash' = hash BY <1>2
 <2> QED BY <1>1, <1>4, <2>1, <2>2, NodesStay
<1>6. InOrder'
 <2>1. cur[s].key \in Keys /\ cur[s] \in CallType BY <1>1 DEF Types, ThreadTypes, CallType
 <2>2. ~Moving(s) BY <1>1, <1>2 DEF Moving, Hashing
 <2>3. block'[cur[s].frame].recs \subseteq block[cur[s].frame].recs \cup {cur[s].key} BY <1>2
 <2>4. cur[s].key \in block'[cur[s].frame].recs => block[cur[s].frame].page = LeafOf("LE", cur[s].key)
   BY <1>1, <1>2 DEF SessionIsRight, OpIsRight, KeyBelongs, Modifies, HasCursor
 <2>5. UNCHANGED <<disk, leaves, cut>> BY <1>2
 <2> QED BY <1>1, <1>4, <2>1, <2>2, <2>3, <2>4, <2>5, KeyJoins
<1>7. \A e \in Frames : HoldsX(s, e) \/ block'[e] = block[e] BY <1>1, <1>4
<1>8. LatchesUnchanged /\ SearchUnchanged /\ UNCHANGED <<plan, hash, disk, leaves, cut, todo>>
  BY <1>2
<1> QED BY <1>1, <1>2, <1>3, <1>4, <1>5, <1>6, <1>7, <1>8, WritesKeep

\* btr_cur_optimistic_update of another size begins.
LEMMA UpdateBySizeKeeps ==
    ASSUME IInv, NEW s \in Sessions, UpdateBySize(s)
    PROVE  IInv'
<1>1. /\ Types /\ SessionIsRight(s) /\ s \in Procs /\ pc[s] = "at" /\ cur[s].frame \in Frames
      /\ NodesAreValid
  BY DEF IInv, UpdateBySize, Calling, Goto, Procs, SessionIsRight, LatchesAreRight, OnLeaf, Hashing
<1>2. /\ Goes(s, "at", IF block[cur[s].frame].is_hashed THEN "hash_delete" ELSE "remove", {"next"})
      /\ cur[s].op = "update" /\ cur[s].rec.key = cur[s].key /\ cur'[s].next = "remove"
      /\ DataUnchanged /\ LatchesUnchanged /\ SearchUnchanged /\ UNCHANGED todo
  BY <1>1, UpdateBySizeMoves
<1>3. SessionIsRight(s)'
 <2>1. OpIsRight(s)'
   BY <1>1, <1>2 DEF Goes, SameCall, CallFields, SessionIsRight, OpIsRight, Modifies, Hashing,
      DataUnchanged, LatchesUnchanged, SearchUnchanged
 <2>2. FlagIsRight(s)'
   BY <1>1, <1>2 DEF Goes, SameCall, CallFields, SessionIsRight, FlagIsRight, Arrived, Hashing
 <2>3. LatchesAreRight(s)'
   BY <1>1, <1>2 DEF Goes, SameCall, CallFields, SessionIsRight, LatchesAreRight, OnLeaf, Hashing,
      Modifies, Holds, HoldsX, PageOf, IsLeaf, DataUnchanged, LatchesUnchanged, SearchUnchanged
 <2>4. CursorIsRight(s)'
   BY <1>1, <1>2 DEF Goes, SameCall, CallFields, SessionIsRight, CursorIsRight, HasCursor, Arrived,
      Hashing, DataUnchanged, LatchesUnchanged, SearchUnchanged
 <2>5. NodesAreRight(s)'
   BY <1>1, <1>2, SearchAssumption DEF Goes, SameCall, CallFields, NodesAreRight, NodesAreValid,
      NodeIsValid, NoRec, DataUnchanged
 <2>6. WorkIsRight(s)' BY <1>2 DEF Goes, SameCall, CallFields, WorkIsRight, Hashing
 <2>7. MoveIsRight(s)' BY <1>2 DEF Goes, SameCall, CallFields, MoveIsRight, Moving, Hashing, HoldsX
 <2>8. KeyBelongs(s)'
   BY <1>1, <1>2 DEF Goes, SameCall, CallFields, SessionIsRight, KeyBelongs, HasCursor, Arrived,
      Hashing, Modifies, LeafOf, DataUnchanged, LatchesUnchanged, SearchUnchanged
 <2>9. /\ NodeIsKept(s)' /\ FoldsAreRight(s)' /\ GuessIsChecked(s)'
   BY <1>2 DEF Goes, NodeIsKept, FoldsAreRight, GuessIsChecked
 <2> QED BY <2>1, <2>2, <2>3, <2>4, <2>5, <2>6, <2>7, <2>8, <2>9 DEF SessionIsRight
<1>4. SearchKept(s)
  BY <1>1, <1>2 DEF SearchKept, Goes, IInv, SearchLatchIsRight, Types, LatchTypes, XLabels,
     SearchUnchanged
<1>5. todo' \in [Sessions -> Seq(SUBSET Calls)] BY <1>1, <1>2 DEF Types, ThreadTypes
<1>6. Moving(s) => Moving(s)' BY <1>1, <1>2 DEF Moving, Goes, SameCall, CallFields, Hashing
<1> QED BY <1>2, <1>3, <1>4, <1>5, <1>6, QuietKeeps

\* The updated record is inserted again.
LEMMA ReinsertKeeps ==
    ASSUME IInv, NEW s \in Sessions, Reinsert(s)
    PROVE  IInv'
<1>1. /\ Types /\ SessionIsRight(s) /\ s \in Procs /\ pc[s] = "reinsert"
      /\ cur[s].frame \in Frames /\ PageOf(cur[s].frame) /\ IsLeaf(block[cur[s].frame].page)
      /\ HoldsX(s, cur[s].frame)
      /\ BlocksAreRight /\ NodesAreValid /\ InOrder /\ (\A t \in Sessions : MoveIsRight(t))
      /\ search_x # s
  BY DEF IInv, Reinsert, Goto, Procs, SessionIsRight, LatchesAreRight, OnLeaf, Hashing, Modifies,
     SearchLatchIsRight, XLabels, OpIsRight
<1>2. LET f == cur[s].frame
      IN  /\ Goes(s, "reinsert", "done", {}) /\ cur[s].key \in Keys
          /\ Writes(f, {"recs"}) /\ block'[f].recs = block[f].recs \cup {cur[s].key}
          /\ LatchesUnchanged /\ SearchUnchanged
          /\ UNCHANGED <<plan, hash, disk, leaves, cut, todo>>
  BY <1>1, ReinsertMoves
<1>3. SessionIsRight(s)'
 <2>1. OpIsRight(s)'
   BY <1>1, <1>2 DEF Goes, SameCall, CallFields, SessionIsRight, OpIsRight, Modifies, Hashing,
      LatchesUnchanged, SearchUnchanged
 <2>2. FlagIsRight(s)'
   BY <1>1, <1>2 DEF Goes, SameCall, CallFields, SessionIsRight, FlagIsRight, Arrived, Hashing
 <2>3. LatchesAreRight(s)'
   BY <1>1, <1>2 DEF Goes, SameCall, CallFields, SessionIsRight, LatchesAreRight, OnLeaf, Hashing,
      Modifies, Holds, HoldsX, PageOf, IsLeaf, LatchesUnchanged, SearchUnchanged, Writes,
      SameBlock, BlockFields
 <2>4. CursorIsRight(s)'
   BY <1>1, <1>2 DEF Goes, CursorIsRight, HasCursor, Arrived, Hashing, SameCall, CallFields,
      Writes, SameBlock, BlockFields, SessionIsRight
 <2>5. NodesAreRight(s)'
   BY <1>1, <1>2 DEF Goes, NodesAreRight, SameCall, CallFields, Writes, SameBlock, BlockFields,
      SessionIsRight
 <2>6. WorkIsRight(s)' BY <1>2 DEF Goes, SameCall, CallFields, WorkIsRight, Hashing
 <2>7. MoveIsRight(s)' BY <1>2 DEF Goes, SameCall, CallFields, MoveIsRight, Moving, Hashing, HoldsX
 <2>8. KeyBelongs(s)'
   BY <1>1, <1>2 DEF Goes, KeyBelongs, HasCursor, Arrived, Hashing, Modifies, LeafOf, SameCall,
      CallFields, Writes, SameBlock, BlockFields, SessionIsRight
 <2>9. /\ NodeIsKept(s)' /\ FoldsAreRight(s)' /\ GuessIsChecked(s)'
   BY <1>2 DEF Goes, NodeIsKept, FoldsAreRight, GuessIsChecked
 <2> QED BY <2>1, <2>2, <2>3, <2>4, <2>5, <2>6, <2>7, <2>8, <2>9 DEF SessionIsRight
<1>4. /\ block' \in [Frames -> BlockType]
      /\ \A e \in Frames : SameBlock(block[e], block'[e], {"recs", "heap"})
      /\ \A e \in Frames \ {cur[s].frame} : block'[e] = block[e]
  BY <1>2 DEF Writes, SameBlock, BlockFields
<1>5. NodesAreValid'
 <2>1. ASSUME NEW v \in Folds, hash[v] # NoRec
       PROVE  /\ block'[hash[v].frame].heap = block[hash[v].frame].heap
              /\ hash[v].key \in block'[hash[v].frame].recs
  <3>1. hash[v].frame \in Frames BY <1>1, <2>1 DEF Types, Rec
  <3>2. hash[v].key \in block[hash[v].frame].recs /\ block[hash[v].frame].is_hashed
    BY <1>1, <2>1 DEF NodesAreValid, NodeIsValid
  <3>3. CASE hash[v].frame = cur[s].frame
    BY <1>1, <1>2, <3>2, <3>3 DEF Writes, SameBlock, BlockFields
  <3>4. CASE hash[v].frame # cur[s].frame BY <1>4, <3>1, <3>2, <3>4
  <3> QED BY <3>3, <3>4
 <2>2. hash' = hash BY <1>2
 <2> QED BY <1>1, <1>4, <2>1, <2>2, NodesStay
<1>6. InOrder'
 <2>1. cur[s].key \in Keys /\ cur[s] \in CallType BY <1>1 DEF Types, ThreadTypes, CallType
 <2>2. ~Moving(s) BY <1>1, <1>2 DEF Moving, Hashing
 <2>3. block'[cur[s].frame].recs \subseteq block[cur[s].frame].recs \cup {cur[s].key} BY <1>2
 <2>4. cur[s].key \in block'[cur[s].frame].recs => block[cur[s].frame].page = LeafOf("LE", cur[s].key)
   BY <1>1, <1>2 DEF SessionIsRight, OpIsRight, KeyBelongs, Modifies, HasCursor
 <2>5. UNCHANGED <<disk, leaves, cut>> BY <1>2
 <2> QED BY <1>1, <1>4, <2>1, <2>2, <2>3, <2>4, <2>5, KeyJoins
<1>7. \A e \in Frames : HoldsX(s, e) \/ block'[e] = block[e] BY <1>1, <1>4
<1>8. LatchesUnchanged /\ SearchUnchanged /\ UNCHANGED <<plan, hash, disk, leaves, cut, todo>>
  BY <1>2
<1> QED BY <1>1, <1>2, <1>3, <1>4, <1>5, <1>6, <1>7, <1>8, WritesKeep

\* btr_cur_update_in_place begins.
LEMMA UpdateInPlaceKeeps ==
    ASSUME IInv, NEW s \in Sessions, UpdateInPlace(s)
    PROVE  IInv'
<1>1. Types /\ SessionIsRight(s) /\ s \in Procs /\ pc[s] = "at" /\ cur[s].frame \in Frames
  BY DEF IInv, UpdateInPlace, Calling, Goto, Procs, SessionIsRight, LatchesAreRight, OnLeaf, Hashing
<1>2. /\ \E b \in {"hash_delete", "write_lock"} :
            Goes(s, "at", IF block[cur[s].frame].is_hashed THEN b ELSE "writing", {"next"})
      /\ cur[s].op = "update" /\ cur[s].rec.key = cur[s].key /\ cur'[s].next = "write_lock"
      /\ DataUnchanged /\ LatchesUnchanged /\ SearchUnchanged /\ UNCHANGED todo
  BY <1>1, UpdateInPlaceMoves
<1>3. SessionIsRight(s)'
 <2>1. OpIsRight(s)'
   BY <1>1, <1>2 DEF Goes, SameCall, CallFields, SessionIsRight, OpIsRight, Modifies, Hashing,
      DataUnchanged, LatchesUnchanged, SearchUnchanged
 <2>2. FlagIsRight(s)'
   BY <1>1, <1>2 DEF Goes, SameCall, CallFields, SessionIsRight, FlagIsRight, Arrived, Hashing
 <2>3. LatchesAreRight(s)'
   BY <1>1, <1>2 DEF Goes, SameCall, CallFields, SessionIsRight, LatchesAreRight, OnLeaf, Hashing,
      Modifies, Holds, HoldsX, PageOf, IsLeaf, DataUnchanged, LatchesUnchanged, SearchUnchanged
 <2>4. CursorIsRight(s)'
   BY <1>1, <1>2 DEF Goes, SameCall, CallFields, SessionIsRight, CursorIsRight, HasCursor, Arrived,
      Hashing, DataUnchanged, LatchesUnchanged, SearchUnchanged
 <2>5. NodesAreRight(s)'
   BY <1>1, <1>2 DEF Goes, SameCall, CallFields, SessionIsRight, NodesAreRight, DataUnchanged,
      LatchesUnchanged, SearchUnchanged
 <2>6. WorkIsRight(s)' BY <1>2 DEF Goes, SameCall, CallFields, WorkIsRight, Hashing
 <2>7. MoveIsRight(s)' BY <1>2 DEF Goes, SameCall, CallFields, MoveIsRight, Moving, Hashing, HoldsX
 <2>8. KeyBelongs(s)'
   BY <1>1, <1>2 DEF Goes, SameCall, CallFields, SessionIsRight, KeyBelongs, HasCursor, Arrived,
      Hashing, Modifies, LeafOf, DataUnchanged, LatchesUnchanged, SearchUnchanged
 <2>9. /\ NodeIsKept(s)' /\ FoldsAreRight(s)' /\ GuessIsChecked(s)'
   BY <1>2 DEF Goes, NodeIsKept, FoldsAreRight, GuessIsChecked
 <2> QED BY <2>1, <2>2, <2>3, <2>4, <2>5, <2>6, <2>7, <2>8, <2>9 DEF SessionIsRight
<1>4. SearchKept(s)
  BY <1>1, <1>2 DEF SearchKept, Goes, IInv, SearchLatchIsRight, Types, LatchTypes, XLabels,
     SearchUnchanged
<1>5. todo' \in [Sessions -> Seq(SUBSET Calls)] BY <1>1, <1>2 DEF Types, ThreadTypes
<1>6. Moving(s) => Moving(s)' BY <1>1, <1>2 DEF Moving, Goes, SameCall, CallFields, Hashing
<1> QED BY <1>2, <1>3, <1>4, <1>5, <1>6, QuietKeeps

\* A writer in place takes the search latch.
LEMMA WriteLockKeeps ==
    ASSUME IInv, NEW s \in Sessions, WriteLock(s)
    PROVE  IInv'
<1>1. Types /\ SessionIsRight(s) /\ s \in Procs /\ pc[s] = "write_lock"
  BY DEF IInv, WriteLock, Goto, Procs
<1>2. /\ Goes(s, "write_lock", "writing", {})
      /\ search_s = {} /\ search_x \in {Nobody, s} /\ search_x' = s
      /\ DataUnchanged /\ LatchesUnchanged /\ UNCHANGED <<search_s, todo>>
  BY <1>1, WriteLockMoves
<1>3. SessionIsRight(s)'
 <2>1. OpIsRight(s)'
   BY <1>1, <1>2 DEF Goes, SameCall, CallFields, SessionIsRight, OpIsRight, Modifies, Hashing,
      DataUnchanged, LatchesUnchanged
 <2>2. FlagIsRight(s)'
   BY <1>1, <1>2 DEF Goes, SameCall, CallFields, SessionIsRight, FlagIsRight, Arrived, Hashing
 <2>3. LatchesAreRight(s)'
   BY <1>1, <1>2 DEF Goes, SameCall, CallFields, SessionIsRight, LatchesAreRight, OnLeaf, Hashing,
      Modifies, Holds, HoldsX, PageOf, IsLeaf, DataUnchanged, LatchesUnchanged
 <2>4. CursorIsRight(s)'
   BY <1>1, <1>2 DEF Goes, SameCall, CallFields, SessionIsRight, CursorIsRight, HasCursor, Arrived,
      Hashing, DataUnchanged, LatchesUnchanged
 <2>5. WorkIsRight(s)' BY <1>2 DEF Goes, SameCall, CallFields, WorkIsRight, Hashing
 <2>6. MoveIsRight(s)' BY <1>2 DEF Goes, SameCall, CallFields, MoveIsRight, Moving, Hashing, HoldsX
 <2>7. KeyBelongs(s)'
   BY <1>2 DEF Goes, SameCall, CallFields, KeyBelongs, HasCursor, Arrived, Hashing, Modifies,
      LeafOf
 <2>8. /\ NodeIsKept(s)' /\ NodesAreRight(s)' /\ FoldsAreRight(s)' /\ GuessIsChecked(s)'
   BY <1>2 DEF Goes, NodeIsKept, NodesAreRight, FoldsAreRight, GuessIsChecked
 <2> QED BY <2>1, <2>2, <2>3, <2>4, <2>5, <2>6, <2>7, <2>8 DEF SessionIsRight
<1>4. SearchKept(s)
  BY <1>1, <1>2 DEF SearchKept, Goes, IInv, SearchLatchIsRight, Types, LatchTypes, XLabels,
     SearchUnchanged
<1>5. todo' \in [Sessions -> Seq(SUBSET Calls)] BY <1>1, <1>2 DEF Types, ThreadTypes
<1>6. Moving(s) => Moving(s)' BY <1>1, <1>2 DEF Moving, Goes, SameCall, CallFields, Hashing
<1> QED BY <1>2, <1>3, <1>4, <1>5, <1>6, QuietKeeps

\* A writer in place has written.
LEMMA WrittenKeeps ==
    ASSUME IInv, NEW s \in Sessions, Written(s)
    PROVE  IInv'
<1>1. Types /\ SessionIsRight(s) /\ s \in Procs /\ pc[s] = "writing"
  BY DEF IInv, Written, Goto, Procs
<1>2. /\ Goes(s, "writing", "done", {})
      /\ search_x' = IF search_x = s THEN Nobody ELSE search_x
      /\ DataUnchanged /\ LatchesUnchanged /\ UNCHANGED <<search_s, todo>>
  BY <1>1, WrittenMoves
<1>3. SessionIsRight(s)'
 <2>1. OpIsRight(s)'
   BY <1>1, <1>2 DEF Goes, SameCall, CallFields, SessionIsRight, OpIsRight, Modifies, Hashing,
      DataUnchanged, LatchesUnchanged
 <2>2. FlagIsRight(s)'
   BY <1>1, <1>2 DEF Goes, SameCall, CallFields, SessionIsRight, FlagIsRight, Arrived, Hashing
 <2>3. LatchesAreRight(s)'
   BY <1>2 DEF Goes, SameCall, CallFields, LatchesAreRight, OnLeaf, Hashing, Modifies, Holds,
      HoldsX, PageOf, IsLeaf
 <2>4. CursorIsRight(s)'
   BY <1>2 DEF Goes, SameCall, CallFields, CursorIsRight, HasCursor, Arrived, Hashing
 <2>5. WorkIsRight(s)' BY <1>2 DEF Goes, SameCall, CallFields, WorkIsRight, Hashing
 <2>6. MoveIsRight(s)' BY <1>2 DEF Goes, SameCall, CallFields, MoveIsRight, Moving, Hashing, HoldsX
 <2>7. KeyBelongs(s)'
   BY <1>2 DEF Goes, SameCall, CallFields, KeyBelongs, HasCursor, Arrived, Hashing, Modifies,
      LeafOf
 <2>8. /\ NodeIsKept(s)' /\ NodesAreRight(s)' /\ FoldsAreRight(s)' /\ GuessIsChecked(s)'
   BY <1>2 DEF Goes, NodeIsKept, NodesAreRight, FoldsAreRight, GuessIsChecked
 <2> QED BY <2>1, <2>2, <2>3, <2>4, <2>5, <2>6, <2>7, <2>8 DEF SessionIsRight
<1>4. SearchKept(s)
  BY <1>1, <1>2, SearchAssumption DEF SearchKept, Goes, IInv, SearchLatchIsRight, Types, LatchTypes,
     XLabels, SearchUnchanged
<1>5. todo' \in [Sessions -> Seq(SUBSET Calls)] BY <1>1, <1>2 DEF Types, ThreadTypes
<1>6. Moving(s) => Moving(s)' BY <1>1, <1>2 DEF Moving, Goes, SameCall, CallFields, Hashing
<1> QED BY <1>2, <1>3, <1>4, <1>5, <1>6, QuietKeeps

-----------------------------------------------------------------------------
(* Splits and merges *)

\* btr_page_split_and_insert: the new leaf has half of the records, which both leaves have until
\* the hash index has been moved.
LEMMA SplitKeeps ==
    ASSUME IInv, NEW s \in Sessions, Split(s)
    PROVE  IInv'
<1>1. /\ Types /\ SessionIsRight(s) /\ s \in Procs /\ pc[s] = "at" /\ cur[s].frame \in Frames
      /\ PageOf(cur[s].frame) /\ IsLeaf(block[cur[s].frame].page) /\ HoldsX(s, cur[s].frame)
      /\ BlocksAreRight /\ NodesAreValid /\ InOrder /\ (\A t \in Sessions : MoveIsRight(t))
      /\ search_x # s
  BY DEF IInv, Split, Calling, Goto, Procs, SessionIsRight, LatchesAreRight, OnLeaf, Hashing,
     Modifies, SearchLatchIsRight, XLabels
<1>2. LET f == cur[s].frame
          g == cur'[s].other
      IN  /\ Goes(s, "at", "move", {"flag", "other"})
          /\ cur[s].op = "insert" /\ index_x = s /\ cur'[s].flag = "binary"
          /\ g \in Frames /\ g # f /\ Free(g, TRUE) /\ LatchedBy(s, {g}, TRUE)
          /\ \/ PageOf(g) /\ block'[g].is_hashed = block[g].is_hashed
             \/ block[g].state = "NOT_USED" /\ ~block'[g].is_hashed
          /\ Writes(g, BlockFields) /\ block'[g].state = "FILE_PAGE"
          /\ block'[g].page \in Pages \ {block[f].page}
          /\ PageOf(g) => block[g].page = block'[g].page
          /\ BlockOf(block'[g].page) \subseteq {g}
          /\ leaves = <<block[f].page>>
          /\ leaves' \in {<<block[f].page, block'[g].page>>, <<block'[g].page, block[f].page>>}
          /\ block'[g].recs = {k \in block[f].recs : block'[g].page = leaves'[2] <=> cut' <= k}
          /\ cut' \in Keys /\ index_x' \in {Nobody, s}
          /\ SearchUnchanged /\ UNCHANGED <<plan, hash, disk, todo>>
  BY <1>1, SplitMoves
<1>f. PICK f \in Frames, g \in Frames, q \in Pages :
         /\ f = cur[s].frame /\ f = cur'[s].frame /\ g = cur'[s].other /\ g # f
         /\ q = block'[g].page /\ q # block[f].page
  BY <1>1, <1>2 DEF Goes, SameCall, CallFields
<1>a. /\ block' \in [Frames -> BlockType] /\ \A e \in Frames \ {g} : block'[e] = block[e]
      /\ \A e \in Frames : /\ latch'[e].x = IF e = g THEN s ELSE latch[e].x
                           /\ latch'[e].s = latch[e].s
      /\ latch[g].x = Nobody /\ latch[g].s = {} /\ BlockOf(q) \subseteq {g}
      /\ PageOf(g) => block[g].page = q
  BY <1>2, <1>f DEF Writes, LatchedBy, Free
<1>b. latch'[g].x = s /\ latch'[f].x = s /\ s # Nobody /\ PageOf(f)
  BY <1>1, <1>f, <1>a, SearchAssumption DEF HoldsX
<1>c. /\ leaves[1] = block[f].page /\ DOMAIN leaves = {1}
      /\ q # NoPage /\ block[f].page # NoPage
      /\ \A p : (\E j \in DOMAIN leaves' : leaves'[j] = p) <=> p \in {block[f].page, q}
 <2>1. leaves[1] = block[f].page /\ DOMAIN leaves = {1} BY <1>2, <1>f
 <2>2. DOMAIN leaves' = {1, 2} /\ {leaves'[1], leaves'[2]} = {block[f].page, q} BY <1>2, <1>f
 <2>3. q # NoPage /\ block[f].page # NoPage
   BY <1>1, <1>b, SearchAssumption DEF BlocksAreRight, BlockIsRight
 <2> QED BY <2>1, <2>2, <2>3
<1>3. SessionIsRight(s)'
 <2>1. OpIsRight(s)'
  <3>1. /\ pc'[s] = "move" /\ cur'[s].op = "insert" /\ cur'[s].mode = cur[s].mode
        /\ cur'[s].next = cur[s].next /\ cur'[s].other # NoFrame
    BY <1>2, SearchAssumption DEF Goes, SameCall, CallFields
  <3>2. cur[s].next # "write_lock" /\ cur[s].mode = "LE"
    BY <1>1, <1>2 DEF SessionIsRight, OpIsRight, Modifies
  <3> QED BY <3>1, <3>2 DEF OpIsRight, Modifies, Hashing
 <2>2. FlagIsRight(s)'
   BY Zenon, <1>1, <1>2 DEF Goes, SameCall, CallFields, SessionIsRight, FlagIsRight, Arrived,
      Hashing
 <2>3. LatchesAreRight(s)'
  <3>1. \A i \in DOMAIN leaves' : \E e \in Frames : block'[e].page = leaves'[i] /\ latch'[e].x = s
   <4>1. block'[f] = block[f] /\ block'[g].page = q BY <1>f, <1>a
   <4>2. \A p \in {block[f].page, q} : \E e \in Frames : block'[e].page = p /\ latch'[e].x = s
     BY <1>b, <4>1
   <4> QED BY <1>c, <4>2
  <3>2. /\ pc'[s] = "move" /\ cur'[s].other # NoFrame /\ cur'[s].op = "insert"
        /\ block'[f] = block[f]
    BY <1>1, <1>2, <1>f, <1>a, SearchAssumption DEF Goes, SameCall, CallFields
  <3>3. \E j \in DOMAIN leaves' : leaves'[j] = block'[f].page BY <1>c, <3>2
  <3> QED
    BY <1>f, <1>b, <3>1, <3>2, <3>3 DEF LatchesAreRight, Modifies, Hashing, PageOf, IsLeaf, HoldsX
 <2>4. CursorIsRight(s)'
   BY <1>2 DEF Goes, SameCall, CallFields, CursorIsRight, HasCursor, Arrived, Hashing
 <2>5. WorkIsRight(s)' BY Zenon, <1>2 DEF Goes, SameCall, CallFields, WorkIsRight, Hashing
 <2>6. MoveIsRight(s)'
  <3>1. cur'[s].op = "insert" /\ block'[f] = block[f]
    BY <1>2, <1>f, <1>a DEF Goes, SameCall, CallFields
  <3>2. /\ leaves' \in {<<block[f].page, q>>, <<q, block[f].page>>}
        /\ block'[g].recs = {k \in block[f].recs : q = leaves'[2] <=> cut' <= k}
    BY Zenon, <1>2, <1>f
  <3> QED BY <1>f, <1>b, <3>1, <3>2 DEF MoveIsRight, HoldsX
 <2>7. KeyBelongs(s)'
   BY <1>2 DEF Goes, SameCall, CallFields, KeyBelongs, HasCursor, Arrived, Hashing, Modifies,
      LeafOf
 <2>8. /\ NodeIsKept(s)' /\ NodesAreRight(s)' /\ FoldsAreRight(s)' /\ GuessIsChecked(s)'
   BY <1>2 DEF Goes, NodeIsKept, NodesAreRight, FoldsAreRight, GuessIsChecked
 <2> QED BY <2>1, <2>2, <2>3, <2>4, <2>5, <2>6, <2>7, <2>8 DEF SessionIsRight
<1>4. Types'
 <2>1. leaves' \in Seq(Pages) /\ Len(leaves') = 2 /\ leaves'[1] # leaves'[2]
  <3>1. block[f].page \in Pages BY <1>1, <1>c DEF Types, BlockType
  <3>2. leaves' \in {<<block[f].page, q>>, <<q, block[f].page>>} BY <1>2, <1>f
  <3>3. CASE leaves' = <<block[f].page, q>> BY <1>f, <3>1, <3>3
  <3>4. CASE leaves' = <<q, block[f].page>> BY <1>f, <3>1, <3>4
  <3> QED BY <3>2, <3>3, <3>4
 <2>2. latch' \in [Frames -> [x : Sessions \cup {Nobody}, s : SUBSET Sessions]]
   BY <1>2 DEF LatchedBy
 <2> QED
   BY <1>1, <1>2, <1>a, <2>1, <2>2 DEF Types, ThreadTypes, LatchTypes, TreeTypes, Goes,
      SearchUnchanged
<1>5. ASSUME NEW t \in Sessions \ {s} PROVE Spares(t)
 <2>1. ~OnLeaf(t)
  <3>1. SessionIsRight(t) BY DEF IInv
  <3>2. \A i \in DOMAIN leaves : \E e \in Frames : block[e].page = leaves[i] /\ HoldsX(s, e)
    BY <1>1, <1>f, <1>c
  <3> QED BY <1>1, <3>1, <3>2, NobodyIsThere
 <2>2. pc'[t] = pc[t] /\ cur'[t] = cur[t] /\ t # s /\ t # Nobody
   BY <1>2, SearchAssumption DEF Goes, Procs
 <2>3. \A e \in Frames : Holds(t, e) => block'[e] = block[e] BY <1>a, <2>2 DEF Holds
 <2>4. \A e \in Frames : (latch'[e].x = t <=> latch[e].x = t) /\ (t \in latch'[e].s <=> t \in latch[e].s)
   BY <1>a, <2>2
 <2> QED BY Zenon, <1>2, <2>1, <2>2, <2>3, <2>4 DEF Spares, SearchUnchanged, Holds, HoldsX
<1>6. BlocksAreRight'
 <2>1. pc'[Lru] = pc[Lru] /\ cur'[Lru] = cur[Lru] BY <1>2, SearchAssumption DEF Goes, Procs
 <2>2. \A e \in Frames \ {g} : block[e].page # q
   BY <1>1, <1>a, <1>c DEF BlocksAreRight, BlockIsRight, BlockOf, PageOf
 <2>3. BlockIsRight(g)'
  <3>1. \A e \in Frames : block'[e].page = q => e = g BY <1>a, <2>2
  <3>2. block'[g].state = "FILE_PAGE" /\ block'[g].page = q /\ latch'[g].s = {}
    BY Zenon, <1>2, <1>f, <1>a
  <3>3. \E j \in DOMAIN leaves' : leaves'[j] = block'[g].page BY <1>c, <3>2
  <3>4. \A e \in Frames : block'[e].page = block'[g].page => e = g BY <3>1, <3>2
  <3>5. IsLeaf(block[g].page)' BY <3>3 DEF IsLeaf
  <3>6. g \in Frames /\ PageOf(g)' BY <3>2 DEF PageOf
  <3> QED
   <4>1. q # NoPage BY <1>c
   <4> QED BY <3>2, <3>4, <3>5, <3>6, <4>1 DEF BlockIsRight, PageOf
 <2>4. ASSUME NEW e \in Frames \ {g} PROVE BlockIsRight(e)'
  <3>1. BlockIsRight(e) /\ block'[e] = block[e] /\ block[e].page # q
    BY <1>1, <1>a, <2>2 DEF BlocksAreRight
  <3>2. latch'[e].x = latch[e].x /\ latch'[e].s = latch[e].s BY <1>a
  <3>3. (\E i \in DOMAIN leaves : leaves[i] = block[e].page) => \E i \in DOMAIN leaves' : leaves'[i] = block[e].page
    BY <1>c
  <3>4. block'[g].page = q /\ \A d \in Frames \ {g} : block'[d] = block[d] BY <1>f, <1>a
  <3> QED BY <2>1, <3>1, <3>2, <3>3, <3>4 DEF BlockIsRight, PageOf, IsLeaf
 <2> QED BY <2>3, <2>4 DEF BlocksAreRight
<1>7. NodesAreValid'
 <2>1. ASSUME NEW v \in Folds, hash[v] # NoRec PROVE hash[v].frame \in Frames \ {g}
  <3>1. /\ hash[v].frame \in Frames /\ block[hash[v].frame].is_hashed
        /\ block[hash[v].frame].state # "NOT_USED"
    BY <1>1, <2>1 DEF Types, Rec, NodesAreValid, NodeIsValid
  <3>2. PageOf(g) => ~block[g].is_hashed
    BY <1>1, <1>f, <1>a, <1>c DEF BlocksAreRight, BlockIsRight, IsLeaf
  <3> QED BY <1>2, <1>f, <3>1, <3>2
 <2>2. NodesAreValid /\ hash' = hash BY <1>1, <1>2
 <2> QED BY <1>a, <2>1, <2>2 DEF NodesAreValid, NodeIsValid
<1>8. InOrder'
 <2>1. Moving(s)' BY Zenon, <1>2, SearchAssumption DEF Goes, Moving
 <2> QED BY <2>1 DEF InOrder
<1>9. SearchUnchanged /\ \A e \in Frames : block[e].state = "REMOVE_HASH" => block'[e] = block[e]
  BY Zenon, <1>2, <1>f, <1>a DEF PageOf
<1> QED BY Zenon, <1>1, <1>2, <1>3, <1>4, <1>5, <1>6, <1>7, <1>8, <1>9, StepKeeps

\* btr_compress: the other leaf has all the records, which both have until then.
LEMMA CompressKeeps ==
    ASSUME IInv, NEW s \in Sessions, Compress(s)
    PROVE  IInv'
<1>1. Types /\ SessionIsRight(s) /\ s \in Procs /\ pc[s] = "compress" /\ cur[s].frame \in Frames
      /\ BlocksAreRight /\ IsLeaf(block[cur[s].frame].page) /\ NodesAreValid /\ InOrder
      /\ (\A t \in Sessions : MoveIsRight(t)) /\ search_x # s
  BY Zenon DEF IInv, Compress, Goto, Procs, SessionIsRight, LatchesAreRight, OnLeaf, Hashing,
     Modifies, SearchLatchIsRight, XLabels, OpIsRight
<1>a. /\ index_x = s /\ Len(leaves) = 2 /\ Modifies(s) /\ cur[s].op = "delete"
      /\ \A i \in DOMAIN leaves : \E g \in Frames : block[g].page = leaves[i] /\ HoldsX(s, g)
  BY <1>1 DEF SessionIsRight, OpIsRight, LatchesAreRight, OnLeaf, Modifies
<1>b. ASSUME NEW i \in DOMAIN leaves PROVE BlockOf(leaves[i]) # {}
 <2>1. PICK g \in Frames : block[g].page = leaves[i] BY <1>a
 <2>2. leaves[i] # NoPage BY <1>1, SearchAssumption DEF Types, TreeTypes
 <2>3. block[g].state = "FILE_PAGE" BY <1>1, <2>1, <2>2 DEF BlocksAreRight, BlockIsRight, PageOf
 <2> QED BY <2>1, <2>3 DEF BlockOf
<1>2. LET f == cur[s].frame
          g == cur'[s].other
      IN  /\ Goes(s, "compress", "move", {"other"})
          /\ g \in Frames /\ g # f /\ PageOf(g)
          /\ leaves \in {<<block[f].page, block[g].page>>, <<block[g].page, block[f].page>>}
          /\ Writes(g, {"recs"}) /\ block'[g].recs = block[g].recs \cup block[f].recs
          /\ LatchesUnchanged /\ SearchUnchanged
          /\ UNCHANGED <<plan, hash, disk, leaves, cut, todo>>
  BY <1>1, <1>a, <1>b, CompressMoves
<1>c. HoldsX(s, cur'[s].other)
 <2>1. PICK i \in DOMAIN leaves : leaves[i] = block[cur'[s].other].page BY <1>2
 <2>2. PICK g \in Frames : block[g].page = leaves[i] /\ HoldsX(s, g) BY <1>a
 <2>3. g = cur'[s].other BY <1>1, <1>2, <2>1, <2>2 DEF BlocksAreRight, BlockIsRight, PageOf
 <2> QED BY <2>2, <2>3
<1>3. SessionIsRight(s)'
 <2>1. OpIsRight(s)'
   BY <1>1, <1>2, <1>a, SearchAssumption DEF Goes, SameCall, CallFields, SessionIsRight, OpIsRight,
      Modifies, Hashing, LatchesUnchanged
 <2>2. FlagIsRight(s)'
   BY <1>1, <1>2 DEF Goes, SameCall, CallFields, SessionIsRight, FlagIsRight, Arrived, Hashing
 <2>3. LatchesAreRight(s)'
   BY <1>1, <1>2, <1>a, <1>c DEF Goes, SameCall, CallFields, SessionIsRight, LatchesAreRight,
      OnLeaf, Hashing, Modifies, Holds, HoldsX, PageOf, IsLeaf, LatchesUnchanged,
      Writes, SameBlock, BlockFields
 <2>4. CursorIsRight(s)'
   BY <1>2 DEF Goes, SameCall, CallFields, CursorIsRight, HasCursor, Arrived, Hashing
 <2>5. NodesAreRight(s)'
   BY <1>1, <1>2 DEF Goes, NodesAreRight, SameCall, CallFields, Writes, SameBlock, BlockFields,
      SessionIsRight
 <2>6. WorkIsRight(s)' BY <1>2 DEF Goes, SameCall, CallFields, WorkIsRight, Hashing
 <2>7. MoveIsRight(s)'
  <3>1. cur'[s].frame = cur[s].frame /\ cur'[s].op = "delete"
    BY <1>2, <1>a DEF Goes, SameCall, CallFields
  <3>2. \A e \in Frames : block'[e].page = block[e].page BY <1>2 DEF Writes, SameBlock, BlockFields
  <3>3. latch' = latch /\ index_x' = index_x /\ leaves' = leaves BY <1>2 DEF LatchesUnchanged
  <3>4. HoldsX(s, cur[s].frame)
    BY <1>1, <1>a DEF SessionIsRight, LatchesAreRight, OnLeaf
  <3> QED BY <1>1, <1>2, <1>a, <1>c, <3>1, <3>2, <3>3, <3>4 DEF MoveIsRight, HoldsX
 <2>8. KeyBelongs(s)'
   BY <1>2 DEF Goes, SameCall, CallFields, KeyBelongs, HasCursor, Arrived, Hashing, Modifies,
      LeafOf
 <2>9. /\ NodeIsKept(s)' /\ FoldsAreRight(s)' /\ GuessIsChecked(s)'
   BY <1>2 DEF Goes, NodeIsKept, FoldsAreRight, GuessIsChecked
 <2> QED BY <2>1, <2>2, <2>3, <2>4, <2>5, <2>6, <2>7, <2>8, <2>9 DEF SessionIsRight
<1>4. /\ block' \in [Frames -> BlockType]
      /\ \A e \in Frames : SameBlock(block[e], block'[e], {"recs", "heap"})
      /\ \A e \in Frames : block[e].recs \subseteq block'[e].recs /\ block'[e].heap = block[e].heap
  BY <1>2 DEF Writes, SameBlock, BlockFields
<1>5. NodesAreValid'
 <2>1. ASSUME NEW v \in Folds, hash[v] # NoRec
       PROVE  /\ block'[hash[v].frame].heap = block[hash[v].frame].heap
              /\ hash[v].key \in block'[hash[v].frame].recs
  <3>1. hash[v].frame \in Frames BY <1>1, <2>1 DEF Types, Rec
  <3>2. hash[v].key \in block[hash[v].frame].recs BY <1>1, <2>1 DEF NodesAreValid, NodeIsValid
  <3> QED BY <1>4, <3>1, <3>2
 <2>2. hash' = hash BY <1>2
 <2> QED BY <1>1, <1>4, <2>1, <2>2, NodesStay
<1>6. InOrder'
 <2>1. Moving(s)' BY <1>2, SearchAssumption DEF Goes, Moving
 <2> QED BY <2>1 DEF InOrder
<1>7. \A e \in Frames : HoldsX(s, e) \/ block'[e] = block[e] BY <1>2, <1>c DEF Writes
<1>8. LatchesUnchanged /\ SearchUnchanged /\ UNCHANGED <<plan, hash, disk, leaves, cut, todo>>
  BY <1>2
<1> QED BY <1>1, <1>2, <1>3, <1>4, <1>5, <1>6, <1>7, <1>8, WritesKeep

\* btr_search_move_or_delete_hash_entries.
LEMMA MoveHashKeeps ==
    ASSUME IInv, NEW s \in Sessions, MoveHash(s)
    PROVE  IInv'
<1>1. /\ Types /\ SessionIsRight(s) /\ s \in Procs /\ pc[s] = "move" /\ cur[s].frame \in Frames
      /\ NodesAreValid /\ cur[s].other \in Frames
  BY DEF IInv, MoveHash, Goto, Procs, SessionIsRight, LatchesAreRight, OnLeaf, Hashing, MoveIsRight,
     OpIsRight, Moving
<1>2. LET f == cur[s].frame
          g == cur[s].other
      IN  /\ \/ /\ block[g].is_hashed /\ Goes(s, "move", "drop_check", {"work", "next"})
                /\ cur'[s].work = f /\ cur'[s].next = "moved"
             \/ /\ ~block[g].is_hashed /\ block[f].is_hashed
                /\ Goes(s, "move", "build", {"work", "n", "left", "next"})
                /\ cur'[s].work = g /\ cur'[s].n = block[f].n /\ cur'[s].next = "build"
             \/ /\ ~block[g].is_hashed /\ (~block[f].is_hashed \/ block[g].recs = {})
                /\ Goes(s, "move", "moved", {})
          /\ DataUnchanged /\ LatchesUnchanged /\ SearchUnchanged /\ UNCHANGED todo
  BY <1>1, MoveHashMoves
<1>3. SessionIsRight(s)'
 <2>1. OpIsRight(s)'
   BY <1>1, <1>2 DEF Goes, SameCall, CallFields, SessionIsRight, OpIsRight, Modifies, Hashing
 <2>2. FlagIsRight(s)'
   BY <1>1, <1>2 DEF Goes, SameCall, CallFields, SessionIsRight, FlagIsRight, OpIsRight,
      LatchesAreRight, OnLeaf, Arrived, Hashing, DataUnchanged, LatchesUnchanged, SearchUnchanged
 <2>3. LatchesAreRight(s)'
   BY <1>1, <1>2 DEF Goes, SameCall, CallFields, SessionIsRight, LatchesAreRight, OpIsRight,
      OnLeaf, Hashing, Modifies, Holds, HoldsX, PageOf, IsLeaf, DataUnchanged, LatchesUnchanged,
      SearchUnchanged
 <2>4. CursorIsRight(s)'
   BY <1>1, <1>2 DEF Goes, SameCall, CallFields, SessionIsRight, CursorIsRight, OpIsRight,
      LatchesAreRight, OnLeaf, HasCursor, Arrived, Hashing, DataUnchanged, LatchesUnchanged,
      SearchUnchanged
 <2>5. NodesAreRight(s)'
  <3>1. CASE pc'[s] # "moved" BY <1>2, <3>1 DEF Goes, NodesAreRight
  <3>2. CASE pc'[s] = "moved"
   <4>1. ~block[cur[s].frame].is_hashed \/ block[cur[s].other].recs = {} BY <1>2, <3>2 DEF Goes
   <4>2. cur'[s].frame = cur[s].frame /\ cur'[s].other = cur[s].other
     BY <1>2, <3>2 DEF Goes, SameCall, CallFields
   <4>3. \A v \in Folds : hash[v].frame = cur[s].frame => hash[v].key \notin block[cur[s].other].recs
     BY <1>1, <4>1, SearchAssumption DEF NodesAreValid, NodeIsValid, NoRec
   <4>4. hash' = hash /\ block' = block BY <1>2 DEF DataUnchanged
   <4> QED BY <3>2, <4>2, <4>3, <4>4 DEF NodesAreRight
  <3> QED BY <3>1, <3>2
 <2>6. WorkIsRight(s)'
   BY <1>1, <1>2 DEF Goes, SameCall, CallFields, SessionIsRight, WorkIsRight, OpIsRight,
      LatchesAreRight, OnLeaf, Hashing, DataUnchanged, LatchesUnchanged, SearchUnchanged
 <2>7. MoveIsRight(s)'
  <3>1. /\ cur'[s].frame = cur[s].frame /\ cur'[s].other = cur[s].other /\ cur'[s].op = cur[s].op
        /\ pc[s] = "move"
    BY <1>2 DEF Goes, SameCall, CallFields
  <3>2. block' = block /\ latch' = latch /\ index_x' = index_x /\ leaves' = leaves /\ cut' = cut
    BY <1>2 DEF DataUnchanged, LatchesUnchanged, SearchUnchanged
  <3> QED BY <1>1, <3>1, <3>2 DEF SessionIsRight, MoveIsRight, Moving, HoldsX
 <2>8. KeyBelongs(s)'
   BY <1>1, <1>2 DEF Goes, SameCall, CallFields, SessionIsRight, KeyBelongs, OpIsRight,
      LatchesAreRight, OnLeaf, HasCursor, Arrived, Hashing, Modifies, LeafOf, DataUnchanged,
      LatchesUnchanged, SearchUnchanged
 <2>9. /\ NodeIsKept(s)' /\ FoldsAreRight(s)' /\ GuessIsChecked(s)'
   BY <1>2 DEF Goes, NodeIsKept, FoldsAreRight, GuessIsChecked
 <2> QED BY <2>1, <2>2, <2>3, <2>4, <2>5, <2>6, <2>7, <2>8, <2>9 DEF SessionIsRight
<1>4. SearchKept(s)
  BY <1>1, <1>2 DEF SearchKept, Goes, IInv, SearchLatchIsRight, Types, LatchTypes, XLabels,
     SearchUnchanged
<1>5. todo' \in [Sessions -> Seq(SUBSET Calls)] BY <1>1, <1>2 DEF Types, ThreadTypes
<1>6. Moving(s) => Moving(s)' BY <1>1, <1>2 DEF Moving, Goes, SameCall, CallFields, Hashing
<1> QED BY <1>2, <1>3, <1>4, <1>5, <1>6, QuietKeeps

\* The records moved are deleted from the old page, which has no nodes for them any more; the
\* record is inserted where it belongs, and the leaves are in order again.
LEMMA SplitEndKeeps ==
    ASSUME IInv, NEW s \in Sessions, SplitEnd(s)
    PROVE  IInv'
<1>1. /\ Types /\ SessionIsRight(s) /\ s \in Procs /\ pc[s] = "moved" /\ cur[s].frame \in Frames
      /\ cur[s].other \in Frames
      /\ BlocksAreRight /\ NodesAreValid /\ InOrder /\ (\A t \in Sessions : MoveIsRight(t))
      /\ search_x # s
  BY DEF IInv, SplitEnd, Goto, Procs, SessionIsRight, OnLeaf, Hashing, Modifies,
     SearchLatchIsRight, XLabels, OpIsRight, MoveIsRight, Moving
<1>2. LET f == cur[s].frame
          g == cur[s].other
          h == cur'[s].frame
      IN  /\ h = IF block[f].page = LeafOf("LE", cur[s].key) THEN f ELSE g
          /\ Goes(s, "moved", IF block[h].is_hashed THEN "hash_insert" ELSE "done", {"frame"})
          /\ cur[s].op = "insert" /\ cur[s].key \in Keys
          /\ block' \in [Frames -> BlockType]
          /\ \A e \in Frames :
                /\ SameBlock(block[e], block'[e], {"recs"})
                /\ e # f /\ e # h => block'[e] = block[e]
                /\ block'[e].recs =
                      (IF e = f THEN block[f].recs \ block[g].recs ELSE block[e].recs)
                          \cup (IF e = h THEN {cur[s].key} ELSE {})
          /\ LatchesUnchanged /\ SearchUnchanged
          /\ UNCHANGED <<plan, hash, disk, leaves, cut, todo>>
  BY <1>1, SplitEndMoves
<1>a. /\ cur[s].frame \in Frames /\ cur[s].other \in Frames /\ cur[s].frame # cur[s].other
      /\ HoldsX(s, cur[s].frame) /\ HoldsX(s, cur[s].other)
      /\ PageOf(cur[s].frame) /\ PageOf(cur[s].other)
      /\ leaves \in {<<block[cur[s].frame].page, block[cur[s].other].page>>,
                     <<block[cur[s].other].page, block[cur[s].frame].page>>}
      /\ block[cur[s].other].recs =
            {k \in block[cur[s].frame].recs : block[cur[s].other].page = leaves[2] <=> cut <= k}
      /\ cur[s].op = "insert"
 <2>1. Moving(s) /\ cur[s].op = "insert" BY Zenon, <1>1, <1>2 DEF SessionIsRight, OpIsRight, Moving
 <2>2. HoldsX(s, cur[s].frame) /\ HoldsX(s, cur[s].other) BY <1>1, <2>1 DEF MoveIsRight
 <2>3. PageOf(cur[s].frame) /\ PageOf(cur[s].other)
   BY <1>1, <2>1, <2>2, SearchAssumption DEF BlocksAreRight, BlockIsRight, HoldsX, MoveIsRight
 <2> QED BY <1>1, <2>1, <2>3 DEF MoveIsRight
<1>3. SessionIsRight(s)'
 <2>1. OpIsRight(s)'
   BY <1>1, <1>2 DEF Goes, SameCall, CallFields, SessionIsRight, OpIsRight, Modifies, Hashing
 <2>2. FlagIsRight(s)'
   BY <1>1, <1>2 DEF Goes, SameCall, CallFields, SessionIsRight, FlagIsRight, Arrived, Hashing
 <2>3. LatchesAreRight(s)'
  <3>1. PICK f \in Frames, g \in Frames, h \in Frames :
           f = cur[s].frame /\ g = cur[s].other /\ h = cur'[s].frame /\ h \in {f, g}
    BY Zenon, <1>1, <1>2
  <3>2. /\ pc'[s] \in {"hash_insert", "done"} /\ cur'[s].op = "insert" /\ cur'[s].other = g
        /\ g # NoFrame
    BY <1>2, <3>1, SearchAssumption DEF Goes, SameCall, CallFields
  <3>3. \A e \in Frames : block'[e].page = block[e].page /\ block'[e].state = block[e].state
    BY <1>2 DEF SameBlock, BlockFields
  <3>4. index_x' = index_x /\ latch' = latch /\ leaves' = leaves BY <1>2 DEF LatchesUnchanged
  <3>5. PageOf(h)' /\ IsLeaf(block[h].page)' /\ HoldsX(s, h)'
   <4>1. PageOf(h) /\ HoldsX(s, h) /\ block[h].page \in {block[f].page, block[g].page}
     BY <1>a, <3>1
   <4>2. \E i \in DOMAIN leaves : leaves[i] = block[h].page BY <1>a, <3>1, <4>1
   <4> QED BY <3>3, <3>4, <4>1, <4>2 DEF PageOf, IsLeaf, HoldsX
  <3>6. \A i \in DOMAIN leaves : \E e \in Frames : block'[e].page = leaves[i] /\ HoldsX(s, e)
    BY <1>a, <3>1, <3>3
  <3> QED BY <3>1, <3>2, <3>4, <3>5, <3>6 DEF LatchesAreRight, OnLeaf, Hashing, Modifies, HoldsX
 <2>4. CursorIsRight(s)'
   BY <1>2 DEF Goes, SameCall, CallFields, CursorIsRight, HasCursor, Arrived, Hashing
 <2>5. NodesAreRight(s)'
   BY <1>1, <1>2 DEF Goes, NodesAreRight, SameCall, CallFields, Writes, SameBlock, BlockFields,
      SessionIsRight
 <2>6. WorkIsRight(s)' BY <1>2 DEF Goes, SameCall, CallFields, WorkIsRight, Hashing
 <2>7. MoveIsRight(s)' BY Zenon, <1>2 DEF Goes, SameCall, CallFields, MoveIsRight, Moving, Hashing,
     HoldsX
 <2>8. KeyBelongs(s)'
   BY <1>2 DEF Goes, SameCall, CallFields, KeyBelongs, HasCursor, Arrived, Hashing, Modifies,
      LeafOf
 <2>9. /\ NodeIsKept(s)' /\ FoldsAreRight(s)' /\ GuessIsChecked(s)'
   BY <1>2 DEF Goes, NodeIsKept, FoldsAreRight, GuessIsChecked
 <2> QED BY <2>1, <2>2, <2>3, <2>4, <2>5, <2>6, <2>7, <2>8, <2>9 DEF SessionIsRight
<1>4. /\ block' \in [Frames -> BlockType]
      /\ \A e \in Frames : SameBlock(block[e], block'[e], {"recs", "heap"})
  BY <1>2 DEF SameBlock, BlockFields
<1>5. NodesAreValid'
 <2>1. ASSUME NEW v \in Folds, hash[v] # NoRec
       PROVE  /\ block'[hash[v].frame].heap = block[hash[v].frame].heap
              /\ hash[v].key \in block'[hash[v].frame].recs
  <3>1. hash[v].frame \in Frames BY <1>1, <2>1 DEF Types, Rec
  <3>2. hash[v].key \in block[hash[v].frame].recs BY <1>1, <2>1 DEF NodesAreValid, NodeIsValid
  <3>3. hash[v].frame = cur[s].frame => hash[v].key \notin block[cur[s].other].recs
    BY <1>1 DEF SessionIsRight, NodesAreRight
  <3>4. block'[hash[v].frame].heap = block[hash[v].frame].heap
   <4>1. SameBlock(block[hash[v].frame], block'[hash[v].frame], {"recs"}) BY Zenon, <1>2, <3>1
   <4> QED BY <4>1 DEF SameBlock, BlockFields
  <3> QED BY Zenon, <1>2, <3>1, <3>2, <3>3, <3>4
 <2>2. hash' = hash BY <1>2
 <2> QED BY <1>1, <1>4, <2>1, <2>2, NodesStay
<1>6. InOrder'
 <2> DEFINE f == cur[s].frame
            g == cur[s].other
            k == cur[s].key
 <2>1. SUFFICES ASSUME Len(leaves') = 2
                PROVE  /\ \A x \in RecsOf(leaves[1])' : x < cut
                       /\ \A x \in RecsOf(leaves[2])' : cut <= x
   BY <1>2 DEF InOrder
 <2>2. \A q \in Pages : RecsOf(q)' = IF BlockOf(q) = {} THEN disk[q] ELSE block'[FrameOf(q)].recs
   BY Zenon, <1>1, <1>2, <1>4, RecsChange
 <2>3. /\ block[f].page \in Pages /\ block[g].page \in Pages /\ block[f].page # block[g].page
       /\ BlockOf(block[f].page) = {f} /\ FrameOf(block[f].page) = f
       /\ BlockOf(block[g].page) = {g} /\ FrameOf(block[g].page) = g
  <3>1. block[f] \in BlockType /\ block[g] \in BlockType BY <1>1, <1>a DEF Types
  <3>2. block[f].page # NoPage /\ block[g].page # NoPage /\ block[f].page # block[g].page
    BY <1>1, <1>a DEF BlocksAreRight, BlockIsRight
  <3> QED BY <1>1, <1>a, <3>1, <3>2, RecsAre DEF BlockType
 <2>4. \A q \in Pages : /\ q = block[f].page => RecsOf(q)' = block'[f].recs
                        /\ q = block[g].page => RecsOf(q)' = block'[g].recs
   BY <2>2, <2>3
 <2>5. leaves' = leaves /\ cut' = cut /\ cut \in Int /\ k \in Int /\ \A x \in Keys : x \in Int
  <3>1. leaves' = leaves /\ cut' = cut /\ k \in Keys BY Zenon, <1>2
  <3>2. cut \in Keys BY <1>1 DEF Types, TreeTypes
  <3> HIDE DEF k
  <3> QED BY <3>1, <3>2, KeysAre
 <2> DEFINE h == cur'[s].frame
 <2>6. /\ \A x \in block'[f].recs : x \in block[f].recs \ block[g].recs \/ (x = k /\ h = f)
       /\ \A x \in block'[g].recs : x \in block[g].recs \/ (x = k /\ h = g)
  <3>1. /\ block'[f].recs = (block[f].recs \ block[g].recs) \cup (IF h = f THEN {k} ELSE {})
        /\ block'[g].recs = block[g].recs \cup (IF h = g THEN {k} ELSE {})
    BY Zenon, <1>2, <1>a
  <3> HIDE DEF f, g, h, k
  <3> QED BY <3>1
 <2>7. /\ cut <= k => (h = f => block[f].page = leaves[2]) /\ (h = g => block[f].page # leaves[2])
       /\ cut <= k \/ ((h = f => block[f].page = leaves[1]) /\ (h = g => block[f].page # leaves[1]))
  <3>1. h = IF block[f].page = (IF cut <= k THEN leaves[2] ELSE leaves[1]) THEN f ELSE g
    BY Zenon, <1>2, <2>1 DEF LeafOf
  <3>2. f # g BY <1>a
  <3> HIDE DEF f, g, h, k
  <3> QED BY <3>1, <3>2
 <2>8. /\ block[f].recs \subseteq Keys
       /\ block[g].recs = {x \in block[f].recs : block[g].page = leaves[2] <=> cut <= x}
   BY <1>1, <1>a DEF Types, BlockType
 <2>9. CASE leaves = <<block[f].page, block[g].page>>
  <3>1. \A x \in block'[f].recs : x < cut BY <2>3, <2>5, <2>6, <2>7, <2>8, <2>9
  <3>2. \A x \in block'[g].recs : cut <= x BY <2>3, <2>5, <2>6, <2>7, <2>8, <2>9
  <3>3. leaves[1] = block[f].page /\ leaves[2] = block[g].page BY <2>9
  <3> QED BY <2>3, <2>4, <2>5, <3>1, <3>2, <3>3
 <2>10. CASE leaves = <<block[g].page, block[f].page>>
  <3>1. \A x \in block'[g].recs : x < cut BY <2>3, <2>5, <2>6, <2>7, <2>8, <2>10
  <3>2. \A x \in block'[f].recs : cut <= x BY Zenon, <2>3, <2>5, <2>6, <2>7, <2>8, <2>10
  <3>3. leaves[1] = block[g].page /\ leaves[2] = block[f].page BY <2>10
  <3> QED BY <2>3, <2>4, <2>5, <3>1, <3>2, <3>3
 <2> QED BY <1>a, <2>9, <2>10
<1>7. \A e \in Frames : HoldsX(s, e) \/ block'[e] = block[e]
 <2>1. cur'[s].frame \in {cur[s].frame, cur[s].other} BY Zenon, <1>2
 <2>2. \A e \in Frames : e # cur[s].frame /\ e # cur'[s].frame => block'[e] = block[e] BY Zenon, <1>2
 <2> QED BY <1>a, <2>1, <2>2
<1>8. LatchesUnchanged /\ SearchUnchanged /\ UNCHANGED <<plan, hash, disk, leaves, cut, todo>>
  BY Zenon, <1>2
<1> QED BY Zenon, <1>1, <1>2, <1>3, <1>4, <1>5, <1>6, <1>7, <1>8, WritesKeep

\* A merged page is to lose its hash index.
LEMMA MergeEndKeeps ==
    ASSUME IInv, NEW s \in Sessions, MergeEnd(s)
    PROVE  IInv'
<1>1. Types /\ SessionIsRight(s) /\ s \in Procs /\ pc[s] = "moved"
  BY DEF IInv, MergeEnd, Goto, Procs
<1>2. /\ Goes(s, "moved", "drop_check", {"work", "next"}) /\ cur[s].op = "delete"
      /\ cur'[s].work = cur[s].frame /\ cur'[s].next = "emptied"
      /\ DataUnchanged /\ LatchesUnchanged /\ SearchUnchanged /\ UNCHANGED todo
  BY <1>1, MergeEndMoves
<1>3. SessionIsRight(s)'
 <2>1. OpIsRight(s)'
   BY <1>1, <1>2 DEF Goes, SameCall, CallFields, SessionIsRight, OpIsRight, Modifies, Hashing
 <2>2. FlagIsRight(s)'
   BY <1>1, <1>2 DEF Goes, SameCall, CallFields, SessionIsRight, FlagIsRight, Arrived, Hashing
 <2>3. LatchesAreRight(s)'
   BY <1>1, <1>2 DEF Goes, SameCall, CallFields, SessionIsRight, OpIsRight, FlagIsRight,
      NodeIsKept, LatchesAreRight, CursorIsRight, NodesAreRight, WorkIsRight, FoldsAreRight,
      MoveIsRight, KeyBelongs, GuessIsChecked, Modifies, Hashing, Arrived, HasCursor, OnLeaf,
      Holds, HoldsX, PageOf, IsLeaf, Moving, LeafOf, DataUnchanged, LatchesUnchanged,
      SearchUnchanged
 <2>4. CursorIsRight(s)'
   BY <1>2 DEF Goes, SameCall, CallFields, CursorIsRight, HasCursor, Arrived, Hashing
 <2>5. WorkIsRight(s)' BY <1>2 DEF Goes, SameCall, CallFields, WorkIsRight, Hashing
 <2>6. MoveIsRight(s)'
   BY <1>1, <1>2 DEF Goes, SameCall, CallFields, SessionIsRight, MoveIsRight, Moving, Hashing,
      HoldsX, DataUnchanged, LatchesUnchanged, SearchUnchanged
 <2>7. KeyBelongs(s)'
   BY <1>2 DEF Goes, SameCall, CallFields, KeyBelongs, HasCursor, Arrived, Hashing, Modifies,
      LeafOf
 <2>8. /\ NodeIsKept(s)' /\ NodesAreRight(s)' /\ FoldsAreRight(s)' /\ GuessIsChecked(s)'
   BY <1>2 DEF Goes, NodeIsKept, NodesAreRight, FoldsAreRight, GuessIsChecked
 <2> QED BY <2>1, <2>2, <2>3, <2>4, <2>5, <2>6, <2>7, <2>8 DEF SessionIsRight
<1>4. SearchKept(s)
  BY <1>1, <1>2 DEF SearchKept, Goes, IInv, SearchLatchIsRight, Types, LatchTypes, XLabels,
     SearchUnchanged
<1>5. todo' \in [Sessions -> Seq(SUBSET Calls)] BY <1>1, <1>2 DEF Types, ThreadTypes
<1>6. Moving(s) => Moving(s)' BY <1>1, <1>2 DEF Moving, Goes, SameCall, CallFields, Hashing
<1> QED BY <1>2, <1>3, <1>4, <1>5, <1>6, QuietKeeps

\* btr_page_free: the page was emptied of its hash index and is no leaf now.
LEMMA FreePageKeeps ==
    ASSUME IInv, NEW s \in Sessions, FreePage(s)
    PROVE  IInv'
<1>1. /\ Types /\ SessionIsRight(s) /\ s \in Procs /\ pc[s] = "emptied" /\ cur[s].frame \in Frames
      /\ PageOf(cur[s].frame) /\ IsLeaf(block[cur[s].frame].page) /\ HoldsX(s, cur[s].frame)
      /\ BlocksAreRight /\ NodesAreValid /\ InOrder /\ (\A t \in Sessions : MoveIsRight(t))
      /\ search_x # s
      /\ Len(leaves) = 2
      /\ (\A i \in DOMAIN leaves : \E g \in Frames : block[g].page = leaves[i] /\ HoldsX(s, g))
  BY DEF IInv, FreePage, Goto, Procs, SessionIsRight, LatchesAreRight, OnLeaf, Hashing, Modifies,
     SearchLatchIsRight, XLabels, OpIsRight
<1>2. /\ Goes(s, "emptied", "done", {})
      /\ \E i \in {1, 2} : /\ leaves' = <<leaves[i]>> /\ leaves[i] \in Pages
                           /\ leaves[3 - i] = block[cur[s].frame].page /\ leaves[3 - i] # leaves[i]
      /\ LatchesUnchanged /\ SearchUnchanged /\ UNCHANGED <<plan, hash, block, disk, cut, todo>>
  BY <1>1, FreePageMoves
<1>a. PICK i \in {1, 2} : /\ leaves' = <<leaves[i]>> /\ leaves[i] \in Pages
                          /\ leaves[3 - i] = block[cur[s].frame].page /\ leaves[3 - i] # leaves[i]
  BY <1>2
<1>3. SessionIsRight(s)'
 <2>1. OpIsRight(s)'
   BY <1>1, <1>2 DEF Goes, SameCall, CallFields, SessionIsRight, OpIsRight, Modifies, Hashing
 <2>2. FlagIsRight(s)'
   BY <1>1, <1>2 DEF Goes, SameCall, CallFields, SessionIsRight, FlagIsRight, Arrived, Hashing
 <2>3. LatchesAreRight(s)'
   BY <1>1, <1>2 DEF Goes, SameCall, CallFields, SessionIsRight, LatchesAreRight, OnLeaf, Hashing,
      Modifies, Holds, HoldsX, PageOf, IsLeaf, LatchesUnchanged, SearchUnchanged
 <2>4. CursorIsRight(s)'
   BY <1>2 DEF Goes, SameCall, CallFields, CursorIsRight, HasCursor, Arrived, Hashing
 <2>5. WorkIsRight(s)' BY <1>2 DEF Goes, SameCall, CallFields, WorkIsRight, Hashing
 <2>6. MoveIsRight(s)' BY <1>2 DEF Goes, SameCall, CallFields, MoveIsRight, Moving, Hashing, HoldsX
 <2>7. KeyBelongs(s)'
   BY <1>2 DEF Goes, SameCall, CallFields, KeyBelongs, HasCursor, Arrived, Hashing, Modifies,
      LeafOf
 <2>8. /\ NodeIsKept(s)' /\ NodesAreRight(s)' /\ FoldsAreRight(s)' /\ GuessIsChecked(s)'
   BY <1>2 DEF Goes, NodeIsKept, NodesAreRight, FoldsAreRight, GuessIsChecked
 <2> QED BY <2>1, <2>2, <2>3, <2>4, <2>5, <2>6, <2>7, <2>8 DEF SessionIsRight
<1>4. Types'
 <2>1. leaves' \in Seq(Pages) /\ Len(leaves') = 1 BY <1>a
 <2> QED
   BY <1>1, <1>2, <2>1 DEF Types, ThreadTypes, LatchTypes, TreeTypes, Goes, LatchesUnchanged,
      SearchUnchanged
<1>5. ASSUME NEW t \in Sessions \ {s} PROVE Spares(t)
 <2>1. ~OnLeaf(t)
  <3>1. SessionIsRight(t) BY DEF IInv
  <3> QED BY <1>1, <3>1, NobodyIsThere
 <2>2. pc'[t] = pc[t] /\ cur'[t] = cur[t] BY <1>2 DEF Goes, Procs
 <2> QED BY <1>2, <2>1, <2>2 DEF Spares, SearchUnchanged, LatchesUnchanged
<1>6. BlocksAreRight'
 <2>1. ASSUME NEW e \in Frames PROVE BlockIsRight(e)'
  <3>1. BlockIsRight(e) /\ BlockIsRight(cur[s].frame) /\ ~block[cur[s].frame].is_hashed
    BY <1>1 DEF BlocksAreRight, SessionIsRight, NodesAreRight
  <3>2. pc'[Lru] = pc[Lru] /\ cur'[Lru] = cur[Lru] BY <1>2, SearchAssumption DEF Goes, Procs
  <3>3. PageOf(e) /\ IsLeaf(block[e].page) => e = cur[s].frame \/ block[e].page = leaves[i]
   <4>1. DOMAIN leaves = {1, 2} BY <1>1, TwoLeaves
   <4> QED BY <1>1, <1>a, <3>1, <4>1 DEF IsLeaf, BlockIsRight, PageOf
  <3>4. block[e].page = leaves[i] => \E j \in DOMAIN leaves' : leaves'[j] = block[e].page
   <4>1. DOMAIN leaves' = {1} /\ leaves'[1] = leaves[i] BY <1>a
   <4> QED BY <4>1
  <3> QED BY <1>1, <1>2, <3>1, <3>2, <3>3, <3>4 DEF BlockIsRight, PageOf, LatchesUnchanged, IsLeaf
 <2> QED BY <2>1 DEF BlocksAreRight
<1>7. NodesAreValid' BY <1>1, <1>2 DEF NodesAreValid, NodeIsValid
<1>8. InOrder'
 <2>1. Len(leaves') = 1 BY <1>a
 <2> QED BY <2>1 DEF InOrder
<1>9. SearchUnchanged /\ \A f \in Frames : block[f].state = "REMOVE_HASH" => block'[f] = block[f]
  BY <1>2
<1> QED BY <1>1, <1>2, <1>3, <1>4, <1>5, <1>6, <1>7, <1>8, <1>9, StepKeeps

-----------------------------------------------------------------------------
(* The hash index of a page *)

\* btr_search_drop_page_hash_index, first half.
LEMMA DropCheckKeeps ==
    ASSUME IInv, NEW s \in Sessions, DropCheck(s)
    PROVE  IInv'
<1>1. /\ Types /\ SessionIsRight(s) /\ s \in Procs /\ pc[s] = "drop_check"
      /\ cur[s].work \in Frames /\ NodesAreValid /\ BlocksAreRight /\ InOrder
      /\ cur[s].work = cur[s].frame
  BY DEF IInv, DropCheck, Goto, Procs, SessionIsRight, LatchesAreRight, OnLeaf, Hashing,
     WorkIsRight, Modifies, Holds, HoldsX
<1>2. LET f == cur[s].work
      IN  /\ Goes(s, "drop_check", IF block[f].is_hashed THEN "drop" ELSE cur[s].next, {"folds", "was"})
          /\ block[f].is_hashed => /\ cur'[s].was = block[f].n
                                   /\ cur'[s].folds = {Fold[block[f].n][k] : k \in block[f].recs}
          /\ DataUnchanged /\ LatchesUnchanged /\ SearchUnchanged /\ UNCHANGED todo
  BY <1>1, DropCheckMoves
<1>3. SessionIsRight(s)'
 <2>1. OpIsRight(s)'
   BY <1>1, <1>2 DEF Goes, SameCall, CallFields, SessionIsRight, OpIsRight, Modifies, Hashing,
      LatchesUnchanged
 <2>2. FlagIsRight(s)'
   BY <1>1, <1>2 DEF Goes, SameCall, CallFields, SessionIsRight, FlagIsRight, OpIsRight,
      LatchesAreRight, OnLeaf, Arrived, Hashing, DataUnchanged, LatchesUnchanged, SearchUnchanged
 <2>3. NodeIsKept(s)'
   BY Zenon, <1>1, <1>2 DEF Goes, SameCall, CallFields, SessionIsRight, NodeIsKept, OpIsRight,
      LatchesAreRight, OnLeaf, Hashing, DataUnchanged, LatchesUnchanged, SearchUnchanged
 <2>4. LatchesAreRight(s)'
   BY <1>1, <1>2 DEF Goes, SameCall, CallFields, SessionIsRight, LatchesAreRight, OpIsRight,
      OnLeaf, Hashing, Modifies, Holds, HoldsX, PageOf, IsLeaf, DataUnchanged, LatchesUnchanged,
      SearchUnchanged
 <2>5. CursorIsRight(s)'
   BY <1>1, <1>2 DEF Goes, SameCall, CallFields, SessionIsRight, CursorIsRight, OpIsRight,
      LatchesAreRight, OnLeaf, HasCursor, Arrived, Hashing, DataUnchanged, LatchesUnchanged,
      SearchUnchanged
 <2>6. NodesAreRight(s)'
   BY <1>1, <1>2, SearchAssumption DEF Goes, SameCall, CallFields, NodesAreRight, NodesAreValid,
      NodeIsValid, NoRec, DataUnchanged, SessionIsRight, OpIsRight, Hashing
 <2>7. WorkIsRight(s)'
   BY <1>1, <1>2 DEF Goes, SameCall, CallFields, SessionIsRight, WorkIsRight, OpIsRight,
      LatchesAreRight, OnLeaf, Hashing, DataUnchanged, LatchesUnchanged, SearchUnchanged
 <2>8. FoldsAreRight(s)'
   BY <1>1, <1>2 DEF Goes, SameCall, CallFields, SessionIsRight, FoldsAreRight, OpIsRight,
      LatchesAreRight, OnLeaf, Hashing, DataUnchanged, LatchesUnchanged, SearchUnchanged
 <2>9. MoveIsRight(s)'
   BY <1>1, <1>2 DEF Goes, SameCall, CallFields, SessionIsRight, MoveIsRight, Moving, Hashing,
      HoldsX, DataUnchanged, LatchesUnchanged, SearchUnchanged
 <2>10. KeyBelongs(s)'
   BY <1>1, <1>2 DEF Goes, SameCall, CallFields, SessionIsRight, KeyBelongs, OpIsRight,
      LatchesAreRight, OnLeaf, HasCursor, Arrived, Hashing, Modifies, LeafOf, DataUnchanged,
      LatchesUnchanged, SearchUnchanged
 <2>11. GuessIsChecked(s)'
   BY <1>1, <1>2 DEF Goes, SameCall, CallFields, SessionIsRight, GuessIsChecked, OpIsRight,
      LatchesAreRight, OnLeaf, Hashing, DataUnchanged, LatchesUnchanged, SearchUnchanged
 <2> QED BY <2>1, <2>2, <2>3, <2>4, <2>5, <2>6, <2>7, <2>8, <2>9, <2>10, <2>11 DEF SessionIsRight
<1>4. SearchKept(s)
  BY <1>1, <1>2 DEF SearchKept, Goes, IInv, SearchLatchIsRight, Types, LatchTypes, XLabels,
     SearchUnchanged
<1>5. todo' \in [Sessions -> Seq(SUBSET Calls)] BY <1>1, <1>2 DEF Types, ThreadTypes
<1>6. Moving(s) => Moving(s)'
  BY <1>1, <1>2 DEF Moving, Goes, SameCall, CallFields, Hashing, SessionIsRight, OpIsRight
<1> QED BY <1>2, <1>3, <1>4, <1>5, <1>6, QuietKeeps

\* btr_search_drop_page_hash_index, second half: all nodes of the page are found, for the page
\* is hashed with the parameters read in the first half.
LEMMA DropKeeps ==
    ASSUME IInv, NEW s \in Sessions, Drop(s)
    PROVE  IInv'
<1>1. /\ Types /\ SessionIsRight(s) /\ s \in Procs /\ pc[s] = "drop" /\ cur[s].work \in Frames
      /\ NodesAreValid /\ BlocksAreRight /\ InOrder /\ cur[s].work = cur[s].frame
      /\ PageOf(cur[s].work) /\ IsLeaf(block[cur[s].work].page) /\ Holds(s, cur[s].work)
  BY DEF IInv, Drop, Goto, Procs, SessionIsRight, LatchesAreRight, OnLeaf, Hashing, WorkIsRight,
     Modifies, Holds, HoldsX
<1>2. LET f == cur[s].work
          retry == block[f].is_hashed /\ block[f].n # cur[s].was
      IN  /\ Goes(s, "drop", IF retry THEN "drop_check" ELSE cur[s].next, {"folds", "was"})
          /\ XSection(s)
          /\ \/ (retry \/ ~block[f].is_hashed) /\ UNCHANGED <<hash, block>>
             \/ /\ block[f].is_hashed /\ block[f].n = cur[s].was
                /\ hash' \in [Folds -> Rec \cup {NoRec}]
                /\ \A v \in Folds :
                      hash'[v] = IF v \in cur[s].folds /\ hash[v].frame = f THEN NoRec ELSE hash[v]
                /\ Writes(f, {"is_hashed"}) /\ ~block'[f].is_hashed
          /\ LatchesUnchanged /\ UNCHANGED <<plan, disk, leaves, cut, todo>>
  BY <1>1, DropMoves
<1>a. \A e \in Frames : /\ block'[e].state = block[e].state /\ block'[e].page = block[e].page
                        /\ block'[e].recs = block[e].recs /\ block'[e].heap = block[e].heap
  BY <1>2 DEF Writes, SameBlock, BlockFields
<1>b. /\ \A e \in Frames \ {cur[s].work} : block'[e] = block[e]
      /\ block' \in [Frames -> BlockType] /\ hash' \in [Folds -> Rec \cup {NoRec}]
      /\ \A v \in Folds : hash'[v] = hash[v] \/ hash'[v] = NoRec \/ hash'[v].frame = cur[s].work
  BY <1>1, <1>2 DEF Writes, Nodes, NodeOf, Types
<1>d. NodesAreValid'
 <2>1. CASE UNCHANGED <<hash, block>> BY <1>1, <2>1 DEF NodesAreValid, NodeIsValid
 <2>2. CASE ~(UNCHANGED <<hash, block>>)
  <3>1. /\ block[cur[s].work].n = cur[s].was
        /\ \A v \in Folds :
              hash'[v] = IF v \in cur[s].folds /\ hash[v].frame = cur[s].work THEN NoRec ELSE hash[v]
    BY <1>2, <2>2
  <3>2. cur[s].folds = {Fold[cur[s].was][k] : k \in block[cur[s].work].recs}
    BY <1>1 DEF SessionIsRight, FoldsAreRight
  <3>3. ASSUME NEW v \in Folds, hash'[v] # NoRec
        PROVE  hash'[v] = hash[v] /\ hash[v].frame \in Frames \ {cur[s].work} /\ NodeIsValid(v)
   <4>1. hash'[v] = hash[v] /\ hash[v] # NoRec /\ NodeIsValid(v)
     BY <1>1, <3>1, <3>3 DEF NodesAreValid
   <4>2. hash[v].frame \in Frames BY <1>1, <4>1 DEF Types, Rec
   <4>3. hash[v].frame = cur[s].work => v \in cur[s].folds BY <3>1, <3>2, <4>1 DEF NodeIsValid
   <4> QED BY <3>1, <3>3, <4>1, <4>2, <4>3
  <3> QED BY <1>b, <3>3 DEF NodesAreValid, NodeIsValid
 <2> QED BY <2>1, <2>2
<1>3. SessionIsRight(s)'
 <2>1. OpIsRight(s)'
   BY <1>1, <1>2 DEF Goes, SameCall, CallFields, SessionIsRight, OpIsRight, Modifies, Hashing,
      LatchesUnchanged
 <2>2. FlagIsRight(s)'
   BY <1>1, <1>2, <1>a, <1>b DEF Goes, SameCall, CallFields, SessionIsRight, FlagIsRight,
      OpIsRight, LatchesAreRight, OnLeaf, Arrived, Hashing, LatchesUnchanged
 <2>3. NodeIsKept(s)'
   BY Zenon, <1>1, <1>2, <1>a, <1>b DEF Goes, SameCall, CallFields, SessionIsRight, NodeIsKept,
      OpIsRight, LatchesAreRight, OnLeaf, Hashing, LatchesUnchanged
 <2>4. LatchesAreRight(s)'
  <3>1. pc'[s] \in {"drop_check", cur[s].next} /\ SameCall(cur[s], cur'[s], {"folds", "was"})
    BY <1>2 DEF Goes
  <3>2. /\ cur[s].next \in {"build", "reorganised", "moved", "emptied"} /\ OnLeaf(s)
        /\ LatchesAreRight(s) /\ (cur[s].next = "emptied" => index_x = s /\ Len(leaves) = 2)
    BY <1>1 DEF SessionIsRight, OpIsRight, LatchesAreRight, OnLeaf, Hashing
  <3>3. /\ \A x \in {"op", "frame", "other"} : cur'[s][x] = cur[s][x]
        /\ cur'[s].next = cur[s].next
    BY <3>1 DEF SameCall, CallFields
  <3> QED BY <1>2, <1>a, <3>1, <3>2, <3>3, LatchesStayRight DEF Hashing
 <2>5. CursorIsRight(s)'
   BY <1>1, <1>2, <1>a, <1>b DEF Goes, SameCall, CallFields, SessionIsRight, CursorIsRight,
      OpIsRight, OnLeaf, HasCursor, Arrived, Hashing
 <2>6. NodesAreRight(s)'
  <3>1. pc'[s] \in {"reorganised", "emptied", "moved"} => ~block'[cur[s].frame].is_hashed
    BY <1>1, <1>2 DEF Goes
  <3>2. pc'[s] = "moved" => \A v \in Folds : hash'[v].frame # cur[s].frame
   <4>1. SUFFICES ASSUME pc'[s] = "moved", NEW v \in Folds, hash'[v].frame = cur[s].frame PROVE FALSE
     OBVIOUS
   <4>2. hash'[v] # NoRec /\ NodesAreValid' BY <1>1, <4>1, <1>d, SearchAssumption DEF NoRec
   <4> QED BY <3>1, <4>1, <4>2 DEF NodesAreValid, NodeIsValid
  <3>3. pc'[s] \notin {"hash_insert", "remove", "writing"} /\ cur'[s].frame = cur[s].frame
    BY <1>1, <1>2 DEF Goes, SameCall, CallFields, SessionIsRight, OpIsRight, Hashing
  <3> QED BY <3>1, <3>2, <3>3 DEF NodesAreRight
 <2>7. WorkIsRight(s)'
  <3>1. pc'[s] \in {"drop_check", cur[s].next} /\ SameCall(cur[s], cur'[s], {"folds", "was"})
    BY <1>2 DEF Goes
  <3>2. cur[s].next = "build" => cur[s].other = NoFrame
    BY <1>1 DEF SessionIsRight, OpIsRight, Hashing
  <3>3. cur'[s].work = cur[s].work /\ cur'[s].frame = cur[s].frame /\ cur'[s].other = cur[s].other
    BY <3>1 DEF SameCall, CallFields
  <3> QED BY <1>1, <3>1, <3>2, <3>3 DEF WorkIsRight
 <2>8. FoldsAreRight(s)'
   BY Zenon, <1>1, <1>2, <1>a, <1>b DEF Goes, SameCall, CallFields, SessionIsRight, FoldsAreRight,
      OpIsRight, LatchesAreRight, OnLeaf, Hashing, LatchesUnchanged
 <2>9. MoveIsRight(s)'
  <3>1. cur'[s].op = cur[s].op /\ cur'[s].frame = cur[s].frame /\ cur'[s].other = cur[s].other
    BY <1>2 DEF Goes, SameCall, CallFields
  <3>2. MoveIsRight(s) /\ (Moving(s)' => Moving(s))
    BY <1>1, <3>1 DEF SessionIsRight, Moving, Hashing
  <3>3. latch' = latch /\ index_x' = index_x /\ leaves' = leaves /\ cut' = cut
    BY <1>2 DEF LatchesUnchanged
  <3> QED BY <1>a, <3>1, <3>2, <3>3 DEF MoveIsRight, HoldsX
 <2>10. KeyBelongs(s)'
  <3>1. pc'[s] \in {"drop_check", cur[s].next} /\ SameCall(cur[s], cur'[s], {"folds", "was"})
    BY <1>2 DEF Goes
  <3>2. /\ cur[s].next \in {"build", "reorganised", "moved", "emptied"} /\ KeyBelongs(s)
        /\ cur[s].next = "build" => cur[s].other = NoFrame
    BY <1>1 DEF SessionIsRight, OpIsRight, Hashing
  <3>3. /\ cur'[s].op = cur[s].op /\ cur'[s].frame = cur[s].frame /\ cur'[s].key = cur[s].key
        /\ cur'[s].other = cur[s].other /\ cur'[s].next = cur[s].next
    BY <3>1 DEF SameCall, CallFields
  <3>4. block'[cur[s].frame].page = block[cur[s].frame].page /\ leaves' = leaves /\ cut' = cut
    BY <1>1, <1>2, <1>a
  <3> QED BY <1>1, <3>1, <3>2, <3>3, <3>4 DEF KeyBelongs, HasCursor, Arrived, Hashing, Modifies, LeafOf
 <2>11. GuessIsChecked(s)'
   BY <1>1, <1>2, <1>a, <1>b DEF Goes, SameCall, CallFields, SessionIsRight, GuessIsChecked,
      OpIsRight, LatchesAreRight, OnLeaf, Hashing, LatchesUnchanged
 <2> QED BY <2>1, <2>2, <2>3, <2>4, <2>5, <2>6, <2>7, <2>8, <2>9, <2>10, <2>11 DEF SessionIsRight
<1>4. Types'
  BY <1>1, <1>2, <1>b DEF Types, ThreadTypes, LatchTypes, TreeTypes, Goes, LatchesUnchanged,
     XSection
<1>5. ASSUME NEW t \in Sessions \ {s} PROVE Spares(t)
 <2>1. \A g \in Frames : HoldsX(t, g) => g # cur[s].work
   BY <1>1, SearchAssumption DEF Holds, HoldsX, BlocksAreRight, BlockIsRight
 <2>2. \A g \in Frames : HoldsX(t, g) =>
          block'[g] = block[g] /\ \A v \in Folds : hash'[v].frame = g => hash'[v] = hash[v]
  <3>1. ASSUME NEW g \in Frames, g # cur[s].work, NEW v \in Folds, hash'[v].frame = g
        PROVE  hash'[v] = hash[v]
   <4>1. hash'[v] # NoRec BY <3>1, SearchAssumption DEF NoRec
   <4> QED BY <1>b, <3>1, <4>1
  <3> QED BY <1>b, <2>1, <3>1
 <2>3. (search_x' = t <=> search_x = t) /\ search_s' = {} BY <1>2, SearchAssumption DEF XSection
 <2>4. pc'[t] = pc[t] /\ cur'[t] = cur[t] BY <1>2 DEF Goes, Procs
 <2>5. search_s = {} BY <1>2 DEF XSection
 <2> QED BY <1>2, <1>a, <2>2, <2>3, <2>4, <2>5 DEF Spares, LatchesUnchanged
<1>6. BlocksAreRight'
 <2>1. pc'[Lru] = pc[Lru] /\ cur'[Lru] = cur[Lru] BY <1>2, SearchAssumption DEF Goes, Procs
 <2>2. \A e \in Frames : block'[e].is_hashed => block[e].is_hashed \/ e = cur[s].work BY <1>b
 <2> QED
   BY <1>1, <1>2, <1>a, <2>1, <2>2 DEF BlocksAreRight, BlockIsRight, PageOf, LatchesUnchanged,
      IsLeaf
<1>7. \A f \in Frames : block[f].state = "REMOVE_HASH" => block'[f] = block[f]
  BY <1>1, <1>b DEF PageOf
<1>8. InOrder'
 <2>1. \A q \in Pages : RecsOf(q)' = RecsOf(q)
  <3>1. \A f \in Frames : SameBlock(block[f], block'[f], {"is_hashed", "n", "left"})
    BY <1>2, <1>b DEF Writes, SameBlock, BlockFields
  <3>2. disk' = disk BY <1>2
  <3> QED BY <3>1, <3>2, RecsStay
 <2>2. Moving(s) => Moving(s)'
   BY <1>1, <1>2, <1>a DEF Moving, Goes, SameCall, CallFields, Hashing, SessionIsRight, OpIsRight,
      WorkIsRight
 <2>3. \A t \in Sessions \ {s} : pc'[t] = pc[t] /\ cur'[t] = cur[t] BY <1>2 DEF Goes, Procs
 <2>4. \A t \in Sessions : Moving(t) => Moving(t)' BY <2>2, <2>3 DEF Moving
 <2> QED BY <1>1, <1>2, <2>1, <2>4, InOrderStays
<1>9. XSection(s) BY <1>2
<1>10. NodesAreValid' BY <1>d
<1> QED BY <1>1, <1>2, <1>3, <1>4, <1>5, <1>6, <1>7, <1>8, <1>9, <1>10, XStepKeeps

\* btr_search_build_page_hash_index: whatever somebody else has built since.
LEMMA BuildKeeps ==
    ASSUME IInv, NEW s \in Sessions, Build(s)
    PROVE  IInv'
<1>1. /\ Types /\ SessionIsRight(s) /\ s \in Procs /\ pc[s] = "build" /\ cur[s].work \in Frames
      /\ NodesAreValid /\ BlocksAreRight /\ InOrder
      /\ PageOf(cur[s].work) /\ IsLeaf(block[cur[s].work].page) /\ Holds(s, cur[s].work)
      /\ cur[s].frame \in Frames /\ PageOf(cur[s].frame)
 <2>1. /\ Types /\ SessionIsRight(s) /\ s \in Procs /\ pc[s] = "build" /\ NodesAreValid
       /\ BlocksAreRight /\ InOrder
   BY DEF IInv, Build, Procs
 <2>2. /\ cur[s].frame \in Frames /\ PageOf(cur[s].frame) /\ IsLeaf(block[cur[s].frame].page)
       /\ Holds(s, cur[s].frame)
   BY <2>1 DEF SessionIsRight, LatchesAreRight, OnLeaf, Hashing, Holds, HoldsX
 <2>3. CASE cur[s].work = cur[s].frame BY <2>1, <2>2, <2>3
 <2>4. CASE cur[s].work = cur[s].other /\ cur[s].other # NoFrame
  <3>1. /\ cur[s].other \in Frames /\ HoldsX(s, cur[s].other)
        /\ leaves \in {<<block[cur[s].frame].page, block[cur[s].other].page>>,
                       <<block[cur[s].other].page, block[cur[s].frame].page>>}
    BY <2>1, <2>4 DEF SessionIsRight, MoveIsRight, Moving, Hashing
  <3>2. PageOf(cur[s].other)
    BY <2>1, <3>1, SearchAssumption DEF BlocksAreRight, BlockIsRight, HoldsX
  <3>3. IsLeaf(block[cur[s].other].page)
   <4>1. CASE leaves = <<block[cur[s].frame].page, block[cur[s].other].page>> BY <4>1 DEF IsLeaf
   <4>2. CASE leaves = <<block[cur[s].other].page, block[cur[s].frame].page>> BY <4>2 DEF IsLeaf
   <4> QED BY <3>1, <4>1, <4>2
  <3> QED BY <2>1, <2>2, <2>4, <3>1, <3>2, <3>3 DEF Holds, HoldsX
 <2> QED BY <2>1, <2>3, <2>4 DEF SessionIsRight, WorkIsRight, Hashing
<1>2. LET f == cur[s].work
          n == cur[s].n
      IN  /\ Goes(s, "build", IF cur[s].work = cur[s].frame THEN "at" ELSE "moved", {})
          /\ XSection(s) /\ n \in DOMAIN Fold
          /\ \/ UNCHANGED <<hash, block>> /\ block[f].is_hashed
             \/ /\ Writes(f, {"is_hashed", "n", "left"})
                /\ block'[f].is_hashed /\ block'[f].n = n
                /\ block[f].is_hashed => block[f].n = n
                /\ Nodes(f, n)
                /\ \A k \in block[f].recs, v \in Folds :
                      v = Fold[n][k] => hash'[v] = NoRec \/ hash'[v].frame = f
          /\ LatchesUnchanged /\ UNCHANGED <<plan, disk, leaves, cut, todo>>
  BY <1>1, BuildMoves
<1>a. \A e \in Frames : /\ block'[e].state = block[e].state /\ block'[e].page = block[e].page
                        /\ block'[e].recs = block[e].recs /\ block'[e].heap = block[e].heap
  BY <1>2 DEF Writes, SameBlock, BlockFields
<1>b. /\ \A e \in Frames \ {cur[s].work} : block'[e] = block[e]
      /\ block' \in [Frames -> BlockType] /\ hash' \in [Folds -> Rec \cup {NoRec}]
      /\ \A v \in Folds : hash'[v] = hash[v] \/ hash'[v] = NoRec \/ hash'[v].frame = cur[s].work
  BY <1>1, <1>2 DEF Writes, Nodes, NodeOf, Types
<1>c. /\ pc[s] = "build" /\ pc'[s] = IF cur[s].work = cur[s].frame THEN "at" ELSE "moved"
      /\ \A x \in {"op", "mode", "key", "flag", "frame", "other", "next"} : cur'[s][x] = cur[s][x]
  BY <1>2 DEF Goes, SameCall, CallFields
<1>d. /\ cur'[s].op = cur[s].op /\ cur'[s].mode = cur[s].mode /\ cur'[s].key = cur[s].key
      /\ cur'[s].flag = cur[s].flag /\ cur'[s].frame = cur[s].frame
      /\ cur'[s].other = cur[s].other /\ cur'[s].next = cur[s].next
      /\ index_x' = index_x /\ latch' = latch /\ leaves' = leaves /\ cut' = cut
  BY <1>2, <1>c DEF LatchesUnchanged
<1>3. SessionIsRight(s)'
 <2>1. OpIsRight(s)'
   BY <1>1, <1>c, <1>d DEF SessionIsRight, OpIsRight, WorkIsRight, Modifies, Hashing
 <2>2. FlagIsRight(s)'
   BY <1>1, <1>c, <1>d DEF SessionIsRight, FlagIsRight, OpIsRight, WorkIsRight, Arrived, Hashing
 <2>3. LatchesAreRight(s)'
   BY <1>1, <1>2, <1>a DEF Goes, SameCall, CallFields, SessionIsRight, LatchesAreRight, OnLeaf,
      Hashing, Modifies, Holds, HoldsX, PageOf, IsLeaf, LatchesUnchanged
 <2>4. CursorIsRight(s)'
   BY <1>1, <1>2, <1>a DEF Goes, SameCall, CallFields, SessionIsRight, CursorIsRight, OpIsRight,
      WorkIsRight, HasCursor, Arrived, Hashing
 <2>5. NodesAreRight(s)'
  <3>1. CASE cur[s].work = cur[s].frame BY <1>2, <3>1 DEF Goes, NodesAreRight
  <3>2. CASE cur[s].work # cur[s].frame
   <4>1. /\ cur[s].work = cur[s].other /\ ~block[cur[s].work].is_hashed
         /\ block[cur[s].frame].is_hashed /\ block[cur[s].frame].n = cur[s].n
     BY <1>1, <3>2 DEF SessionIsRight, WorkIsRight, Hashing
   <4>2. /\ Nodes(cur[s].work, cur[s].n)
         /\ \A k \in block[cur[s].work].recs, v \in Folds :
               v = Fold[cur[s].n][k] => hash'[v] = NoRec \/ hash'[v].frame = cur[s].work
     BY <1>2, <4>1
   <4>3. ASSUME NEW v \in Folds, hash'[v].frame = cur[s].frame
         PROVE  hash'[v].key \notin block[cur[s].work].recs
    <5>1. hash'[v] # NoRec /\ hash'[v] = hash[v]
      BY <1>1, <3>2, <4>2, <4>3, SearchAssumption DEF Nodes, NodeOf, NoRec
    <5>2. Fold[block[cur[s].frame].n][hash'[v].key] = v
      BY <1>1, <4>3, <5>1 DEF NodesAreValid, NodeIsValid
    <5> QED BY <3>2, <4>1, <4>2, <4>3, <5>1, <5>2
   <4>4. pc'[s] = "moved" /\ cur'[s].frame = cur[s].frame /\ cur'[s].other = cur[s].work
     BY <1>2, <3>2, <4>1 DEF Goes, SameCall, CallFields
   <4>5. block'[cur[s].work].recs = block[cur[s].work].recs BY <1>1, <1>a
   <4> QED BY <4>3, <4>4, <4>5 DEF NodesAreRight
  <3> QED BY <3>1, <3>2
 <2>6. WorkIsRight(s)' BY <1>2 DEF Goes, SameCall, CallFields, WorkIsRight, Hashing
 <2>7. MoveIsRight(s)'
   BY <1>1, <1>a, <1>c, <1>d DEF SessionIsRight, MoveIsRight, Moving, Hashing, HoldsX
 <2>8. KeyBelongs(s)'
   BY <1>1, <1>a, <1>c, <1>d DEF SessionIsRight, OpIsRight, WorkIsRight, KeyBelongs, Modifies,
      Hashing, HasCursor, Arrived, LeafOf
 <2>9. GuessIsChecked(s)'
   BY <1>1, <1>2, <1>a, <1>b DEF Goes, SameCall, CallFields, SessionIsRight, OpIsRight,
      FlagIsRight, NodeIsKept, LatchesAreRight, CursorIsRight, NodesAreRight, WorkIsRight,
      FoldsAreRight, MoveIsRight, KeyBelongs, GuessIsChecked, Modifies, Hashing, Arrived,
      HasCursor, OnLeaf, Holds, Moving, LeafOf
 <2>10. /\ NodeIsKept(s)' /\ FoldsAreRight(s)' BY <1>2 DEF Goes, NodeIsKept, FoldsAreRight
 <2> QED BY <2>1, <2>2, <2>3, <2>4, <2>5, <2>6, <2>7, <2>8, <2>9, <2>10 DEF SessionIsRight
<1>4. Types'
  BY <1>1, <1>2, <1>b DEF Types, ThreadTypes, LatchTypes, TreeTypes, Goes, LatchesUnchanged,
     XSection
<1>5. ASSUME NEW t \in Sessions \ {s} PROVE Spares(t)
 <2>1. \A g \in Frames : HoldsX(t, g) => g # cur[s].work
   BY <1>1, SearchAssumption DEF Holds, HoldsX, BlocksAreRight, BlockIsRight
 <2>2. \A g \in Frames : HoldsX(t, g) =>
          block'[g] = block[g] /\ \A v \in Folds : hash'[v].frame = g => hash'[v] = hash[v]
   BY <1>1, <1>2, <1>b, <2>1, SearchAssumption DEF NoRec
 <2>3. (search_x' = t <=> search_x = t) /\ search_s' = {} BY <1>2, SearchAssumption DEF XSection
 <2>4. pc'[t] = pc[t] /\ cur'[t] = cur[t] BY <1>2 DEF Goes, Procs
 <2>5. search_s = {} BY <1>2 DEF XSection
 <2> QED BY <1>2, <1>a, <2>2, <2>3, <2>4, <2>5 DEF Spares, LatchesUnchanged
<1>6. BlocksAreRight'
 <2>1. pc'[Lru] = pc[Lru] /\ cur'[Lru] = cur[Lru] BY <1>2, SearchAssumption DEF Goes, Procs
 <2>2. \A e \in Frames : block'[e].is_hashed => block[e].is_hashed \/ e = cur[s].work BY <1>b
 <2> QED
   BY <1>1, <1>2, <1>a, <2>1, <2>2 DEF BlocksAreRight, BlockIsRight, PageOf, LatchesUnchanged,
      IsLeaf
<1>7. \A f \in Frames : block[f].state = "REMOVE_HASH" => block'[f] = block[f]
  BY <1>1, <1>b DEF PageOf
<1>8. InOrder'
 <2>1. \A q \in Pages : RecsOf(q)' = RecsOf(q)
  <3>1. \A f \in Frames : SameBlock(block[f], block'[f], {"is_hashed", "n", "left"})
    BY <1>2, <1>b DEF Writes, SameBlock, BlockFields
  <3>2. disk' = disk BY <1>2
  <3> QED BY <3>1, <3>2, RecsStay
 <2>2. Moving(s) => Moving(s)'
   BY Zenon, <1>1, <1>2, <1>a DEF Moving, Goes, SameCall, CallFields, Hashing, SessionIsRight,
      OpIsRight, WorkIsRight
 <2>3. \A t \in Sessions \ {s} : pc'[t] = pc[t] /\ cur'[t] = cur[t] BY <1>2 DEF Goes, Procs
 <2>4. \A t \in Sessions : Moving(t) => Moving(t)' BY <2>2, <2>3 DEF Moving
 <2> QED BY <1>1, <1>2, <2>1, <2>4, InOrderStays
<1>9. XSection(s) BY <1>2
<1>10. NodesAreValid'
 <2>1. CASE UNCHANGED <<hash, block>> BY <1>1, <2>1 DEF NodesAreValid, NodeIsValid
 <2>2. CASE ~(UNCHANGED <<hash, block>>)
  <3>1. /\ block'[cur[s].work].is_hashed /\ block'[cur[s].work].n = cur[s].n
        /\ block[cur[s].work].is_hashed => block[cur[s].work].n = cur[s].n
        /\ Nodes(cur[s].work, cur[s].n)
    BY <1>2, <2>2
  <3>2. ASSUME NEW v \in Folds, hash'[v] # NoRec PROVE NodeIsValid(v)'
   <4>1. hash'[v].frame \in Frames BY <1>b, <3>2 DEF Rec
   <4>2. CASE hash'[v] = hash[v]
    <5>1. NodeIsValid(v) /\ hash[v] # NoRec BY <1>1, <3>2, <4>2 DEF NodesAreValid
    <5> QED BY <1>1, <1>a, <1>b, <3>1, <4>1, <4>2, <5>1 DEF NodeIsValid
   <4>3. CASE hash'[v] # hash[v]
    <5>1. NodeOf(cur[s].work, cur[s].n, v, hash'[v]) BY <3>1, <4>3 DEF Nodes
    <5> QED BY <1>1, <1>a, <3>1, <5>1 DEF NodeOf, NodeIsValid, PageOf
   <4> QED BY <4>2, <4>3
  <3> QED BY <3>2 DEF NodesAreValid, NodeIsValid
 <2> QED BY <2>1, <2>2
<1> QED BY <1>1, <1>2, <1>3, <1>4, <1>5, <1>6, <1>7, <1>8, <1>9, <1>10, XStepKeeps

-----------------------------------------------------------------------------
(* The thread that frees blocks *)

\* A step of Lru on a block that nobody has latched.
LEMMA LruStepKeeps ==
    ASSUME IInv, NEW a, NEW b, NEW F, Goes(Lru, a, b, F), Types', LatchesUnchanged,
           NEW f \in Frames, latch[f].x = Nobody, latch[f].s = {},
           \A g \in Frames \ {f} : block'[g] = block[g],
           hash' = hash \/ (search_s = {} /\ \A v \in Folds : hash'[v] = hash[v] \/ hash'[v] = NoRec),
           UNCHANGED <<leaves, cut>>, search_s' = search_s,
           search_x' = search_x \/ (search_x \in {Nobody, Lru} /\ search_x' = Nobody),
           search_x' = Lru => b \in XLabels,
           LruIsRight', FoldsAreRight(Lru)', BlocksAreRight', NodesAreValid',
           \A q \in Pages : RecsOf(q)' = RecsOf(q)
    PROVE  IInv'
<1>1. Types /\ InOrder /\ SearchLatchIsRight /\ Lru \in Procs BY DEF IInv, Procs
<1>2. ASSUME NEW t \in Sessions PROVE t \in Procs \ {Lru} /\ t # Nobody /\ pc'[t] = pc[t] /\ cur'[t] = cur[t]
  BY SearchAssumption DEF Procs, Goes
<1>3. ASSUME NEW t \in Sessions PROVE SessionIsRight(t)'
 <2>1. \A g \in Frames : Holds(t, g) => block'[g] = block[g] BY <1>2 DEF Holds
 <2>2. \A g \in Frames, v \in Folds : hash'[v].frame = g => hash'[v] = hash[v]
   BY SearchAssumption DEF NoRec
 <2>3. search_x' = t <=> search_x = t BY <1>2, SearchAssumption
 <2>4. Spares(t) BY <1>2, <2>1, <2>2, <2>3 DEF Spares, LatchesUnchanged, Holds, HoldsX
 <2> QED BY <1>1, <2>4, SparedIsRight DEF IInv
<1>4. InOrder'
 <2>1. \A t \in Sessions : Moving(t) => Moving(t)' BY <1>2 DEF Moving
 <2> QED BY <1>1, <2>1, InOrderStays
<1>5. SearchLatchIsRight'
 <2>1. ASSUME NEW p \in Procs, search_x' = p PROVE pc'[p] \in XLabels \cup {"writing"}
  <3>1. CASE p = Lru BY <2>1, <3>1 DEF Goes
  <3>2. CASE p \in Sessions BY <1>1, <1>2, <2>1, <3>2 DEF SearchLatchIsRight
  <3> QED BY <3>1, <3>2 DEF Procs
 <2>2. ASSUME NEW t \in Sessions, search_x' = t, pc'[t] = "writing" PROVE search_s' = {}
   BY <1>1, <1>2, <2>2, SearchAssumption DEF SearchLatchIsRight
 <2> QED BY <2>1, <2>2 DEF SearchLatchIsRight
<1> QED BY <1>3, <1>4, <1>5 DEF IInv

\* The block that Lru frees is latched by nobody and has no page.
LEMMA LruWork ==
    ASSUME IInv, pc[Lru] # "idle"
    PROVE  /\ cur[Lru].work \in Frames /\ cur[Lru].next = "free"
           /\ pc[Lru] \in {"drop_check", "drop", "free"}
           /\ block[cur[Lru].work].state = "REMOVE_HASH"
           /\ latch[cur[Lru].work].x = Nobody /\ latch[cur[Lru].work].s = {}
           /\ block[cur[Lru].work].page = NoPage
           /\ search_x = Lru => pc[Lru] = "drop"
<1>1. /\ cur[Lru].work \in Frames /\ block[cur[Lru].work].state = "REMOVE_HASH"
      /\ cur[Lru].next = "free"
  BY DEF IInv, LruIsRight
<1>2. ~PageOf(cur[Lru].work) BY <1>1 DEF PageOf
<1> QED
  BY <1>1, <1>2 DEF IInv, LruIsRight, BlocksAreRight, BlockIsRight, SearchLatchIsRight, XLabels,
     Procs

\* btr_search_drop_page_hash_index of a block that is evicted, first half.
LEMMA LruDropCheckKeeps ==
    ASSUME IInv, DropCheck(Lru)
    PROVE  IInv'
<1> DEFINE f == cur[Lru].work
<1>1. /\ Types /\ LruIsRight /\ BlocksAreRight /\ NodesAreValid /\ Lru \in Procs
      /\ pc[Lru] = "drop_check"
  BY DEF IInv, DropCheck, Procs
<1>2. /\ f \in Frames /\ cur[Lru].next = "free" /\ block[f].state = "REMOVE_HASH"
      /\ latch[f].x = Nobody /\ latch[f].s = {} /\ search_x # Lru
  BY <1>1, LruWork
<1>3. /\ Goes(Lru, "drop_check", IF block[f].is_hashed THEN "drop" ELSE cur[Lru].next, {"folds", "was"})
      /\ block[f].is_hashed => /\ cur'[Lru].was = block[f].n
                               /\ cur'[Lru].folds = {Fold[block[f].n][k] : k \in block[f].recs}
      /\ DataUnchanged /\ LatchesUnchanged /\ SearchUnchanged /\ UNCHANGED todo
  BY <1>1, <1>2, DropCheckMoves
<1>4. Types'
  BY <1>1, <1>3 DEF Types, ThreadTypes, LatchTypes, TreeTypes, Goes, DataUnchanged,
     LatchesUnchanged, SearchUnchanged
<1>5. /\ cur'[Lru].work = f /\ cur'[Lru].next = "free"
      /\ pc'[Lru] = IF block[f].is_hashed THEN "drop" ELSE "free"
  BY <1>2, <1>3 DEF Goes, SameCall, CallFields
<1>6. LruIsRight' BY <1>2, <1>3, <1>5 DEF LruIsRight, DataUnchanged
<1>7. FoldsAreRight(Lru)' BY <1>3, <1>5 DEF FoldsAreRight, DataUnchanged
<1>8. BlocksAreRight'
  BY <1>1, <1>3, <1>5 DEF BlocksAreRight, BlockIsRight, PageOf, IsLeaf, DataUnchanged,
     LatchesUnchanged
<1>9. NodesAreValid' BY <1>1, <1>3 DEF NodesAreValid, NodeIsValid, DataUnchanged
<1>10. \A q \in Pages : RecsOf(q)' = RecsOf(q) BY <1>3 DEF RecsOf, BlockOf, FrameOf, DataUnchanged
<1>11. /\ UNCHANGED <<hash, leaves, cut, search_s, search_x>>
       /\ \A g \in Frames \ {f} : block'[g] = block[g]
  BY <1>3 DEF DataUnchanged, SearchUnchanged
<1> HIDE DEF f
<1> QED BY <1>2, <1>3, <1>4, <1>6, <1>7, <1>8, <1>9, <1>10, <1>11, LruStepKeeps

\* The same for a block that is being evicted, whose page number is wiped.
LEMMA LruDropKeeps ==
    ASSUME IInv, Drop(Lru)
    PROVE  IInv'
<1> DEFINE f == cur[Lru].work
           retry == block[f].is_hashed /\ block[f].n # cur[Lru].was
<1>1. /\ Types /\ LruIsRight /\ BlocksAreRight /\ NodesAreValid /\ FoldsAreRight(Lru)
      /\ Lru \in Procs /\ pc[Lru] = "drop"
  BY DEF IInv, Drop, Procs
<1>2. /\ f \in Frames /\ cur[Lru].next = "free" /\ block[f].state = "REMOVE_HASH"
      /\ block[f].page = NoPage
      /\ latch[f].x = Nobody /\ latch[f].s = {}
  BY <1>1, LruWork
<1>3. /\ Goes(Lru, "drop", IF retry THEN "drop_check" ELSE cur[Lru].next, {"folds", "was"})
      /\ XSection(Lru)
      /\ \/ (retry \/ ~block[f].is_hashed) /\ UNCHANGED <<hash, block>>
         \/ /\ block[f].is_hashed /\ block[f].n = cur[Lru].was
            /\ hash' \in [Folds -> Rec \cup {NoRec}]
            /\ \A v \in Folds :
                  hash'[v] = IF v \in cur[Lru].folds /\ hash[v].frame = f THEN NoRec ELSE hash[v]
            /\ Writes(f, {"is_hashed"}) /\ ~block'[f].is_hashed
      /\ LatchesUnchanged /\ UNCHANGED <<plan, disk, leaves, cut, todo>>
  BY <1>1, <1>2, DropMoves
<1>4. /\ block' \in [Frames -> BlockType] /\ hash' \in [Folds -> Rec \cup {NoRec}]
      /\ \A g \in Frames \ {f} : block'[g] = block[g]
      /\ \A g \in Frames : /\ SameBlock(block[g], block'[g], {"is_hashed"})
                           /\ block'[g].is_hashed => block[g].is_hashed
      /\ \A v \in Folds : hash'[v] = hash[v] \/ hash'[v] = NoRec
  BY <1>1, <1>3 DEF Types, Writes, SameBlock
<1>5. Types'
  BY <1>1, <1>3, <1>4 DEF Types, ThreadTypes, LatchTypes, TreeTypes, Goes, LatchesUnchanged,
     XSection
<1>6. /\ cur'[Lru].work = f /\ cur'[Lru].next = "free"
      /\ pc'[Lru] = IF retry THEN "drop_check" ELSE "free"
  BY <1>2, <1>3 DEF Goes, SameCall, CallFields
<1>7. ~retry => ~block'[f].is_hashed BY <1>3
<1>8. LruIsRight'
 <2>1. block'[f].state = "REMOVE_HASH" BY <1>2, <1>4 DEF SameBlock, BlockFields
 <2> QED BY <1>2, <1>6, <1>7, <2>1 DEF LruIsRight
<1>9. FoldsAreRight(Lru)' BY <1>6 DEF FoldsAreRight
<1>10. BlocksAreRight'
 <2>1. \A g \in Frames : /\ block'[g].state = block[g].state /\ block'[g].page = block[g].page
                         /\ block'[g].is_hashed => block[g].is_hashed
   BY <1>4 DEF SameBlock, BlockFields
 <2> QED
   BY <1>1, <1>3, <1>6, <2>1 DEF BlocksAreRight, BlockIsRight, PageOf, IsLeaf, LatchesUnchanged
<1>11. NodesAreValid'
 <2>1. CASE UNCHANGED <<hash, block>> BY <1>1, <2>1 DEF NodesAreValid, NodeIsValid
 <2>2. CASE ~(UNCHANGED <<hash, block>>)
  <3>1. /\ block[f].n = cur[Lru].was
        /\ \A v \in Folds :
              hash'[v] = IF v \in cur[Lru].folds /\ hash[v].frame = f THEN NoRec ELSE hash[v]
    BY <1>3, <2>2
  <3>2. cur[Lru].folds = {Fold[cur[Lru].was][k] : k \in block[f].recs} BY <1>1 DEF FoldsAreRight
  <3>3. ASSUME NEW v \in Folds, hash'[v] # NoRec
        PROVE  hash'[v] = hash[v] /\ hash[v].frame \in Frames \ {f} /\ NodeIsValid(v)
   <4>1. hash'[v] = hash[v] /\ hash[v] # NoRec /\ NodeIsValid(v)
     BY <1>1, <3>1, <3>3 DEF NodesAreValid
   <4>2. hash[v].frame \in Frames BY <1>1, <4>1 DEF Types, Rec
   <4>3. hash[v].frame = f => v \in cur[Lru].folds BY <3>1, <3>2, <4>1 DEF NodeIsValid
   <4> QED BY <3>1, <3>3, <4>1, <4>2, <4>3
  <3> QED BY <1>4, <3>3 DEF NodesAreValid, NodeIsValid
 <2> QED BY <2>1, <2>2
<1>12. \A q \in Pages : RecsOf(q)' = RecsOf(q)
 <2>1. {"is_hashed"} \cap {"state", "page", "recs"} = {} OBVIOUS
 <2> QED BY <1>3, <1>4, <2>1, RecsStay
<1>13. /\ search_s = {} /\ search_s' = search_s /\ search_x \in {Nobody, Lru} /\ search_x' = Nobody
       /\ UNCHANGED <<leaves, cut>> /\ Nobody # Lru
  BY <1>3, SearchAssumption DEF XSection
<1> HIDE DEF f, retry
<1> QED BY <1>2, <1>3, <1>4, <1>5, <1>8, <1>9, <1>10, <1>11, <1>12, <1>13, LruStepKeeps

\* buf_LRU_block_remove_hashed_page: the page is on disk as it was in the pool.
LEMMA EvictKeeps ==
    ASSUME IInv, Evict
    PROVE  IInv'
<1>1. /\ Types /\ LruIsRight /\ BlocksAreRight /\ NodesAreValid /\ SearchLatchIsRight
      /\ Lru \in Procs /\ pc[Lru] = "idle"
  BY DEF IInv, Evict, Goto, Procs
<1>2. PICK f \in Frames :
               /\ PageOf(f) /\ Free(f, TRUE)
               /\ Goes(Lru, "idle", "drop_check", CallFields)
               /\ cur'[Lru].work = f /\ cur'[Lru].next = "free"
               /\ Writes(f, {"state", "page"}) /\ block'[f].state = "REMOVE_HASH"
               /\ block'[f].page = NoPage
               /\ disk' = [disk EXCEPT ![block[f].page] = block[f].recs]
               /\ disk' \in [Pages -> SUBSET Keys]
               /\ LatchesUnchanged /\ SearchUnchanged /\ UNCHANGED <<plan, hash, leaves, cut, todo>>
  BY <1>1, EvictMoves
<1>3. /\ block' \in [Frames -> BlockType] /\ \A g \in Frames \ {f} : block'[g] = block[g]
      /\ block'[f].recs = block[f].recs /\ block'[f].heap = block[f].heap
      /\ block'[f].n = block[f].n
      /\ block'[f].is_hashed = block[f].is_hashed
      /\ latch[f].x = Nobody /\ latch[f].s = {} /\ search_x # Lru
      /\ pc'[Lru] = "drop_check"
  BY <1>1, <1>2 DEF Writes, SameBlock, BlockFields, Free, SearchLatchIsRight, XLabels, Goes
<1>4. Types'
  BY <1>1, <1>2, <1>3 DEF Types, ThreadTypes, LatchTypes, TreeTypes, Goes, LatchesUnchanged,
     SearchUnchanged
<1>5. LruIsRight' BY <1>2, <1>3 DEF LruIsRight
<1>6. FoldsAreRight(Lru)' BY <1>3 DEF FoldsAreRight
<1>7. BlocksAreRight'
 <2>1. \A g \in Frames : block[g].state # "REMOVE_HASH" /\ BlockIsRight(g)
   BY <1>1 DEF BlocksAreRight, BlockIsRight
 <2>2. BlockIsRight(f)' BY <1>2, <1>3 DEF BlockIsRight, PageOf, LatchesUnchanged
 <2>3. ASSUME NEW g \in Frames \ {f} PROVE BlockIsRight(g)'
  <3>1. block'[g] = block[g] /\ BlockIsRight(g) /\ block[g].state # "REMOVE_HASH" BY <1>3, <2>1
  <3>2. PageOf(g) => \A h \in Frames : block'[h].page = block[g].page => h = g
    BY <1>2, <1>3, <3>1 DEF BlockIsRight, PageOf
  <3> QED BY <1>2, <3>1, <3>2 DEF BlockIsRight, PageOf, LatchesUnchanged, IsLeaf
 <2> QED BY <2>2, <2>3 DEF BlocksAreRight
<1>8. NodesAreValid'
 <2>1. \A v \in Folds : hash[v] # NoRec => hash[v].frame \in Frames BY <1>1 DEF Types, Rec
 <2>2. \A g \in Frames : /\ block'[g].recs = block[g].recs /\ block'[g].heap = block[g].heap
                         /\ block'[g].n = block[g].n /\ block'[g].is_hashed = block[g].is_hashed
                         /\ block'[g].state # "NOT_USED" \/ block'[g] = block[g]
   BY <1>2, <1>3
 <2> QED BY <1>1, <1>2, <2>1, <2>2 DEF NodesAreValid, NodeIsValid
<1>9. ASSUME NEW q \in Pages PROVE RecsOf(q)' = RecsOf(q)
 <2>1. CASE q = block[f].page
  <3>1. BlockOf(q)' = {}
   <4>1. \A g \in Frames \ {f} : block[g].page # q
     BY <1>1, <1>2, <2>1 DEF BlocksAreRight, BlockIsRight
   <4> QED BY <1>2, <1>3, <4>1 DEF BlockOf
  <3>2. RecsOf(q) = block[f].recs BY <1>1, <1>2, <2>1, RecsAre
  <3>3. disk'[q] = block[f].recs BY <1>1, <1>2, <2>1 DEF Types, TreeTypes
  <3> QED BY <3>1, <3>2, <3>3 DEF RecsOf
 <2>2. CASE q # block[f].page
  <3>1. BlockOf(q)' = BlockOf(q) /\ f \notin BlockOf(q) BY <1>2, <1>3, <2>2 DEF BlockOf
  <3>2. FrameOf(q)' = FrameOf(q) /\ (BlockOf(q) # {} => FrameOf(q) \in BlockOf(q))
    BY <3>1 DEF FrameOf
  <3>3. BlockOf(q) # {} => block'[FrameOf(q)] = block[FrameOf(q)] BY <1>3, <3>1, <3>2 DEF BlockOf
  <3>4. disk'[q] = disk[q] BY <1>1, <1>2, <2>2 DEF Types, TreeTypes
  <3> QED BY <3>1, <3>2, <3>3, <3>4 DEF RecsOf
 <2> QED BY <2>1, <2>2
<1>10. UNCHANGED <<hash, leaves, cut, search_s, search_x>> BY <1>2 DEF SearchUnchanged
<1> QED BY <1>2, <1>3, <1>4, <1>5, <1>6, <1>7, <1>8, <1>9, <1>10, LruStepKeeps

\* buf_LRU_block_free_hashed_page: no node points to the block.
LEMMA FreeBlockKeeps ==
    ASSUME IInv, FreeBlock
    PROVE  IInv'
<1> DEFINE f == cur[Lru].work
<1>1. Types /\ LruIsRight /\ BlocksAreRight /\ NodesAreValid /\ Lru \in Procs /\ pc[Lru] = "free"
  BY DEF IInv, FreeBlock, Goto, Procs
<1>2. /\ f \in Frames /\ block[f].state = "REMOVE_HASH" /\ block[f].page = NoPage
      /\ latch[f].x = Nobody /\ latch[f].s = {} /\ search_x # Lru
  BY <1>1, LruWork
<1>3. /\ Goes(Lru, "free", "idle", CallFields)
      /\ Writes(f, BlockFields) /\ block'[f] = NoBlock
      /\ LatchesUnchanged /\ SearchUnchanged /\ UNCHANGED <<plan, hash, disk, leaves, cut, todo>>
  BY <1>1, <1>2, FreeBlockMoves
<1>4. /\ block' \in [Frames -> BlockType] /\ \A g \in Frames \ {f} : block'[g] = block[g]
      /\ block'[f].state = "NOT_USED" /\ block'[f].page = NoPage /\ ~block'[f].is_hashed
      /\ pc'[Lru] = "idle"
  BY <1>3 DEF Writes, NoBlock, Goes
<1>5. Types'
  BY <1>1, <1>3, <1>4 DEF Types, ThreadTypes, LatchTypes, TreeTypes, Goes, LatchesUnchanged,
     SearchUnchanged
<1>6. LruIsRight' /\ FoldsAreRight(Lru)' BY <1>4 DEF LruIsRight, FoldsAreRight
<1>7. BlocksAreRight'
 <2>1. \A g \in Frames \ {f} : block[g].state # "REMOVE_HASH" /\ BlockIsRight(g)
   BY <1>1 DEF BlocksAreRight, BlockIsRight
 <2>2. ASSUME NEW g \in Frames, g = f PROVE BlockIsRight(g)'
   BY <2>2, <1>2, <1>3, <1>4 DEF BlockIsRight, PageOf, LatchesUnchanged
 <2>3. ASSUME NEW g \in Frames \ {f} PROVE BlockIsRight(g)'
  <3>1. block'[g] = block[g] /\ BlockIsRight(g) /\ block[g].state # "REMOVE_HASH" BY <1>4, <2>1
  <3>2. PageOf(g) => \A h \in Frames : block'[h].page = block[g].page => h = g
    BY <1>4, <3>1 DEF BlockIsRight, PageOf
  <3> QED BY <1>3, <3>1, <3>2 DEF BlockIsRight, PageOf, LatchesUnchanged, IsLeaf
 <2> QED BY <2>2, <2>3 DEF BlocksAreRight
<1>8. NodesAreValid'
 <2>1. ASSUME NEW v \in Folds, hash[v] # NoRec PROVE hash[v].frame \in Frames \ {f}
  <3>1. hash[v].frame \in Frames /\ block[hash[v].frame].is_hashed
    BY <1>1, <2>1 DEF Types, Rec, NodesAreValid, NodeIsValid
  <3>2. ~block[f].is_hashed BY <1>1 DEF LruIsRight
  <3> QED BY <3>1, <3>2
 <2> QED BY <1>1, <1>3, <1>4, <2>1 DEF NodesAreValid, NodeIsValid
<1>9. ASSUME NEW q \in Pages PROVE RecsOf(q)' = RecsOf(q)
 <2>1. BlockOf(q)' = BlockOf(q) /\ f \notin BlockOf(q) BY <1>2, <1>4 DEF BlockOf
 <2>2. FrameOf(q)' = FrameOf(q) /\ (BlockOf(q) # {} => FrameOf(q) \in BlockOf(q))
   BY <2>1 DEF FrameOf
 <2>3. BlockOf(q) # {} => block'[FrameOf(q)] = block[FrameOf(q)] BY <1>4, <2>1, <2>2 DEF BlockOf
 <2> QED BY <1>3, <2>1, <2>2, <2>3 DEF RecsOf
<1>10. UNCHANGED <<hash, leaves, cut, search_s, search_x>> BY <1>3 DEF SearchUnchanged
<1> HIDE DEF f
<1> QED BY <1>2, <1>3, <1>4, <1>5, <1>6, <1>7, <1>8, <1>9, <1>10, LruStepKeeps

-----------------------------------------------------------------------------
(* The steps together *)

\* The guess: the block is latched and checked, or let go.
LEMMA LatchBlockKeeps ==
    ASSUME IInv, NEW s \in Sessions, LatchBlock(s)
    PROVE  IInv'
  BY LatchBlockMoves, GuessTakenKeeps, GuessFailedKeeps, AstrayKeeps DEF IInv

\* The invariant holds at the start.
LEMMA InitIsRight == Init => IInv
<1> SUFFICES ASSUME Init PROVE IInv OBVIOUS
<1> USE DEF Init
<1>1. /\ plan \in PlanType /\ Lru \in Procs /\ Sessions \subseteq Procs
      /\ Len(plan.leaves) = 2 =>
            /\ plan.leaves[1] # plan.leaves[2]
            /\ \A k \in plan.recs[plan.leaves[1]] : k < plan.cut
            /\ \A k \in plan.recs[plan.leaves[2]] : plan.cut <= k
  BY SearchAssumption DEF Procs
<1>2. /\ NoBlock \in BlockType /\ NoBlock.state = "NOT_USED" /\ NoBlock.page = NoPage
      /\ ~NoBlock.is_hashed
  BY SearchAssumption DEF NoBlock, BlockType
<1>3. NoCall \in CallType BY KeysAre, SearchAssumption DEF NoCall, CallType, Labels, Flags, Modes
<1>4. Types
 <2>1. ThreadTypes BY <1>1, <1>3 DEF ThreadTypes, PlanType, Labels
 <2>2. LatchTypes BY DEF LatchTypes
 <2>3. TreeTypes BY <1>1 DEF TreeTypes, PlanType
 <2> QED BY <1>2, <2>1, <2>2, <2>3 DEF Types
<1>5. BlocksAreRight BY <1>2 DEF BlocksAreRight, BlockIsRight, PageOf
<1>6. LruIsRight /\ FoldsAreRight(Lru) BY <1>1 DEF LruIsRight, FoldsAreRight
<1>7. SearchLatchIsRight BY SearchAssumption DEF SearchLatchIsRight, Procs
<1>8. NodesAreValid BY DEF NodesAreValid, NodeIsValid
<1>9. InOrder
 <2>1. SUFFICES ASSUME Len(leaves) = 2
                PROVE  (\A x \in RecsOf(leaves[1]) : x < cut) /\ (\A x \in RecsOf(leaves[2]) : cut <= x)
   BY DEF InOrder
 <2>2. \A q : RecsOf(q) = disk[q] BY <1>2 DEF RecsOf, BlockOf
 <2> QED BY <1>1, <2>1, <2>2
<1>10. ASSUME NEW s \in Sessions PROVE SessionIsRight(s)
 <2>1. pc[s] = "idle" /\ cur[s] = NoCall /\ index_x # s BY <1>1, SearchAssumption
 <2>2. \A f \in Frames : ~Holds(s, f) BY SearchAssumption DEF Holds
 <2>3. OpIsRight(s) /\ FlagIsRight(s)
   BY <2>1 DEF OpIsRight, FlagIsRight, NoCall, Hashing, Modifies, Arrived
 <2>4. NodeIsKept(s) /\ CursorIsRight(s) /\ NodesAreRight(s) /\ WorkIsRight(s) /\ FoldsAreRight(s)
   BY <2>1 DEF NodeIsKept, CursorIsRight, NodesAreRight, WorkIsRight, FoldsAreRight, HasCursor,
      Arrived, Hashing
 <2>5. LatchesAreRight(s) BY <2>1, <2>2 DEF LatchesAreRight, OnLeaf, Hashing
 <2>6. MoveIsRight(s) /\ KeyBelongs(s) /\ GuessIsChecked(s)
   BY <2>1 DEF MoveIsRight, Moving, KeyBelongs, HasCursor, Arrived, Hashing, GuessIsChecked
 <2> QED BY <2>3, <2>4, <2>5, <2>6 DEF SessionIsRight
<1> QED BY <1>4, <1>5, <1>6, <1>7, <1>8, <1>9, <1>10 DEF IInv

\* The invariant is kept when nothing happens.
LEMMA StutterKeeps ==
    ASSUME IInv, UNCHANGED vars
    PROVE  IInv'
<1>1. /\ Types /\ SearchLatchIsRight /\ LruIsRight /\ FoldsAreRight(Lru) /\ NodesAreValid
      /\ InOrder /\ BlocksAreRight
  BY DEF IInv
<1>2. UNCHANGED <<pc, cur, plan, hash, block, disk, leaves, cut, index_x, latch, search_s, search_x, todo>>
  BY DEF vars, page_vars, latch_vars
<1>3. Types' BY <1>1, <1>2 DEF Types, ThreadTypes, LatchTypes, TreeTypes
<1>4. ASSUME NEW t \in Sessions PROVE SessionIsRight(t)'
 <2>1. Spares(t) BY <1>2 DEF Spares
 <2> QED BY <1>1, <2>1, SparedIsRight DEF IInv
<1>5. LruIsRight' /\ FoldsAreRight(Lru)' BY <1>1, <1>2, LruIsKept
<1>6. BlocksAreRight' BY <1>1, <1>2 DEF BlocksAreRight, BlockIsRight, PageOf, IsLeaf
<1>7. NodesAreValid' /\ SearchLatchIsRight'
  BY <1>1, <1>2 DEF NodesAreValid, NodeIsValid, SearchLatchIsRight
<1>8. InOrder'
 <2>1. \A q \in Pages : RecsOf(q)' = RecsOf(q) BY <1>2 DEF RecsOf, BlockOf, FrameOf
 <2> QED BY <1>1, <1>2, <2>1, InOrderStays DEF Moving
<1> QED BY <1>3, <1>4, <1>5, <1>6, <1>7, <1>8 DEF IInv

\* Every step keeps the invariant.
LEMMA NextKeeps ==
    ASSUME IInv, [Next]_vars
    PROVE  IInv'
<1>1. ASSUME NEW s \in Sessions, Begin(s) \/ Proceed(s) PROVE IInv'
  BY <1>1, BeginKeeps, ReleaseSearchLatchKeeps, DoNotGuessKeeps, LookupKeeps, FindBlockKeeps,
     LatchBlockKeeps, ReadPageKeeps, LatchTreeKeeps, DescendKeeps, InfoUpdateKeeps,
     UpdateHashRefKeeps, SearchKeeps, RelatchKeeps, FinishKeeps, NothingKeeps, TryTreeKeeps,
     InsertKeeps, ReorganizeKeeps, InsertReorganizedKeeps, HashOnInsertKeeps, DeleteKeeps,
     HashOnDeleteKeeps, RemoveKeeps, UpdateBySizeKeeps, ReinsertKeeps, UpdateInPlaceKeeps,
     WriteLockKeeps, WrittenKeeps, SplitKeeps, CompressKeeps, MoveHashKeeps, SplitEndKeeps,
     MergeEndKeeps, FreePageKeeps DEF Proceed
<1>2. ASSUME NEW p \in Procs, HashStep(p) PROVE IInv'
 <2>1. CASE p \in Sessions
   BY <1>2, <2>1, ReserveKeeps, BuildKeeps, DropCheckKeeps, DropKeeps DEF HashStep
 <2>2. CASE p = Lru
  <3>1. ~Build(Lru) BY DEF IInv, LruIsRight, Build
  <3> QED BY <1>2, <2>2, <3>1, ReserveKeeps, LruDropCheckKeeps, LruDropKeeps DEF HashStep
 <2> QED BY <2>1, <2>2 DEF Procs
<1>3. CASE Evict \/ FreeBlock BY <1>3, EvictKeeps, FreeBlockKeeps
<1>4. CASE UNCHANGED vars BY <1>4, StutterKeeps
<1> QED BY <1>1, <1>2, <1>3, <1>4 DEF Next

\* The invariant holds of the modelled steps: a session that has gone astray takes none.
LEMMA Invariance == Spec => []IInv
<1>1. Init => IInv BY InitIsRight
<1>2. IInv /\ [Next]_vars => IInv' BY NextKeeps
<1> QED BY <1>1, <1>2, PTL DEF Spec

\* As long as no cursor has gone astray, the invariant holds whatever the pages, keys,
\* sessions and plan.
THEOREM InductiveInvariant == Spec => [](~Astray => IInv)
  BY Invariance, PTL

-----------------------------------------------------------------------------
(* What follows *)

\* btr_search_validate never finds a fault: a node of the adaptive hash index points to a
\* record that is there, in its place, by the parameters its page is hashed with; whatever
\* is split, merged, reorganised, freed or evicted meanwhile, as long as no cursor has gone
\* astray.
THEOREM HashStaysValid == Spec => []HashIsValid
<1>1. IInv => TypeOK
 <2>1. SUFFICES ASSUME IInv PROVE TypeOK OBVIOUS
 <2>2. /\ hash \in [Folds -> Rec \cup {NoRec}]
       /\ search_s \subseteq Sessions /\ search_x \in Procs \cup {Nobody} /\ Len(leaves) \in {1, 2}
   BY <2>1 DEF IInv, Types, LatchTypes, TreeTypes
 <2>3. \A f \in Frames : block[f].recs \subseteq Keys BY <2>1 DEF IInv, Types, BlockType
 <2>4. ASSUME NEW p \in Pages PROVE Cardinality(BlockOf(p)) <= 1
  <3>1. CASE BlockOf(p) = {} BY <3>1, FS_EmptySet
  <3>2. CASE BlockOf(p) # {}
   <4>1. PICK f \in BlockOf(p) : TRUE BY <3>2
   <4>2. f \in Frames /\ PageOf(f) /\ block[f].page = p BY <4>1 DEF BlockOf, PageOf
   <4>3. BlockOf(p) = {f} BY <2>1, <4>2, RecsAre DEF IInv
   <4>4. Cardinality({f}) = 1 BY FS_Singleton
   <4> QED BY <4>3, <4>4
  <3> QED BY <3>1, <3>2
 <2> QED BY <2>2, <2>3, <2>4 DEF TypeOK
<1>2. IInv => HashIsValid BY <1>1 DEF HashIsValid, IInv, NodesAreValid, NodeIsValid
<1> QED BY <1>2, Invariance, PTL

\* When a key is the next, or the last, of a set.
LEMMA AfterWhere ==
    ASSUME NEW R \in SUBSET Keys, NEW j \in Int, NEW r \in R, r > j, \A x \in R : x > j => r <= x
    PROVE  After(R, j) = r
<1>1. /\ After(R, j) \in R \cup {Supremum} /\ (After(R, j) # Supremum => After(R, j) > j)
      /\ After(R, j) <= r /\ After(R, j) \in Nat
  BY AfterIs
<1>2. r \in 1 .. MaxKey /\ MaxKey \in Nat /\ Supremum = MaxKey + 1 BY KeysAre DEF Supremum
<1> QED BY <1>1, <1>2

\* And when it is the one before.
LEMMA BeforeWhere ==
    ASSUME NEW R \in SUBSET Keys, NEW j \in Int, NEW r \in R, r < j, \A x \in R : x < j => x <= r
    PROVE  Before(R, j) = r
<1>1. /\ Before(R, j) \in R \cup {Infimum} /\ (Before(R, j) # Infimum => Before(R, j) < j)
      /\ r <= Before(R, j) /\ Before(R, j) \in Nat
  BY BeforeIs
<1>2. r \in 1 .. MaxKey /\ MaxKey \in Nat /\ Infimum = 0 BY KeysAre DEF Infimum
<1> QED BY <1>1, <1>2

\* The records of the other leaf are all to the left, or to the right, of those of a leaf.
LEMMA TreeOrder ==
    ASSUME Types, BlocksAreRight, InOrder, \A t \in Sessions : ~Moving(t),
           NEW f \in Frames, PageOf(f), IsLeaf(block[f].page)
    PROVE  /\ TreeKeys \in SUBSET Keys /\ block[f].recs \subseteq TreeKeys
           /\ \A x \in TreeKeys \ block[f].recs :
                 \/ block[f].page # leaves[1] /\ \A y \in block[f].recs : x < y
                 \/ block[f].page # leaves[Len(leaves)] /\ \A y \in block[f].recs : y < x
<1>1. RecsOf(block[f].page) = block[f].recs BY RecsAre
<1>2. ASSUME NEW q \in Pages PROVE RecsOf(q) \subseteq Keys
 <2>1. BlockOf(q) # {} => FrameOf(q) \in Frames BY DEF BlockOf, FrameOf
 <2> QED BY <2>1 DEF RecsOf, Types, TreeTypes, BlockType
<1>3. leaves \in Seq(Pages) /\ Len(leaves) \in {1, 2} /\ cut \in Int /\ \A x \in Keys : x \in Int
  BY KeysAre DEF Types, TreeTypes
<1>4. \A i \in DOMAIN leaves : leaves[i] \in Pages BY <1>3
<1>5. TreeKeys \in SUBSET Keys /\ block[f].recs \subseteq TreeKeys
  BY <1>1, <1>2, <1>4 DEF TreeKeys, IsLeaf
<1>6. ASSUME NEW x \in TreeKeys \ block[f].recs
      PROVE  \/ block[f].page # leaves[1] /\ \A y \in block[f].recs : x < y
             \/ block[f].page # leaves[Len(leaves)] /\ \A y \in block[f].recs : y < x
 <2>1. PICK i \in DOMAIN leaves : x \in RecsOf(leaves[i]) BY <1>6 DEF TreeKeys
 <2>2. PICK j \in DOMAIN leaves : leaves[j] = block[f].page BY DEF IsLeaf
 <2>3. i # j BY <1>1, <1>6, <2>1, <2>2
 <2>4. Len(leaves) = 2 /\ i \in {1, 2} /\ j \in {1, 2} BY <1>3, <2>3
 <2>5. leaves[1] # leaves[2] BY <2>4, TwoLeaves
 <2>6. (\A y \in RecsOf(leaves[1]) : y < cut) /\ (\A y \in RecsOf(leaves[2]) : cut <= y)
   BY <2>4 DEF InOrder
 <2>7. x \in Int /\ \A y \in block[f].recs : y \in Int BY <1>3, <1>5, <1>6
 <2>8. CASE i = 1 /\ j = 2 BY <1>1, <1>3, <2>1, <2>2, <2>5, <2>6, <2>7, <2>8
 <2>9. CASE i = 2 /\ j = 1 BY <1>1, <1>3, <2>1, <2>2, <2>4, <2>5, <2>6, <2>7, <2>9
 <2> QED BY <2>3, <2>4, <2>8, <2>9
<1> QED BY <1>5, <1>6

\* A record of a leaf that passes the check is where a search down the tree ends.
LEMMA CheckedIsRight ==
    ASSUME NEW R \in SUBSET Keys, NEW T \in SUBSET Keys, R \subseteq T, NEW first \in BOOLEAN, NEW last \in BOOLEAN,
           \A x \in T \ R : \/ ~first /\ \A y \in R : x < y
                            \/ ~last /\ \A y \in R : y < x,
           NEW mode \in Modes, NEW k \in Keys, NEW r \in R, CheckGuess(R, mode, k, r, first, last)
    PROVE  Position(T, mode, k) = r
<1> DEFINE prev == Before(R, r)
           next == After(R, r)
<1>1. MaxKey \in Nat /\ Keys = 1 .. MaxKey /\ Supremum = MaxKey + 1 /\ Infimum = 0
  BY KeysAre DEF Supremum, Infimum
<1>2. k \in Int /\ r \in Int /\ \A x \in T : x \in Int /\ x > 0 /\ x <= MaxKey BY <1>1
<1>3. /\ prev \in R \cup {Infimum} /\ (prev # Infimum => prev < r)
      /\ \A x \in R : x < r => x <= prev
      /\ prev \in Nat
  BY <1>2, BeforeIs
<1>4. /\ next \in R \cup {Supremum} /\ (next # Supremum => next > r)
      /\ \A x \in R : x > r => next <= x
      /\ next \in Nat
  BY <1>2, AfterIs
<1>5. CASE mode = "GE"
 <2>1. k <= r /\ (k = r \/ (IF prev = Infimum THEN first ELSE prev < k)) BY <1>5 DEF CheckGuess
 <2>2. ASSUME NEW x \in T, x > k - 1, x < r PROVE FALSE BY <1>1, <1>2, <1>3, <2>1, <2>2
 <2>3. After(T, k - 1) = r BY <1>2, <2>1, <2>2, AfterWhere
 <2> QED BY <1>5, <2>3 DEF Position
<1>6. CASE mode = "G"
 <2>1. k < r /\ (IF prev = Infimum THEN first ELSE prev <= k) BY <1>6 DEF CheckGuess
 <2>2. ASSUME NEW x \in T, x > k, x < r PROVE FALSE BY <1>1, <1>2, <1>3, <2>1, <2>2
 <2>3. After(T, k) = r BY <1>2, <2>1, <2>2, AfterWhere
 <2> QED BY <1>6, <2>3 DEF Position
<1>7. CASE mode = "LE"
 <2>1. r <= k /\ (IF next = Supremum THEN last ELSE k < next) BY <1>7 DEF CheckGuess
 <2>2. ASSUME NEW x \in T, x < k + 1, x > r PROVE FALSE BY <1>1, <1>2, <1>4, <2>1, <2>2
 <2>3. Before(T, k + 1) = r BY <1>2, <2>1, <2>2, BeforeWhere
 <2> QED BY <1>7, <2>3 DEF Position
<1>8. CASE mode = "L"
 <2>1. r < k /\ (IF next = Supremum THEN last ELSE k <= next) BY <1>8 DEF CheckGuess
 <2>2. ASSUME NEW x \in T, x < k, x > r PROVE FALSE BY <1>1, <1>2, <1>4, <2>1, <2>2
 <2>3. Before(T, k) = r BY <1>2, <2>1, <2>2, BeforeWhere
 <2> QED BY <1>8, <2>3 DEF Position
<1> QED BY <1>5, <1>6, <1>7, <1>8 DEF Modes

\* A guess that btr_search_guess_on_hash takes is where a search down the tree would have
\* ended, and what row_search_for_mysql reads by the shortcut, with the search latch and
\* without a page latch, is the record asked for and written by nobody; as long as no
\* cursor has gone astray.
THEOREM GuessesAreRight == Spec => []GuessIsRight
<1>1. ASSUME IInv, NEW s \in Sessions, cur[s].flag = "hash", pc[s] = "at"
      PROVE  /\ cur[s].rec.key \in block[cur[s].rec.frame].recs
             /\ cur[s].rec.heap = block[cur[s].rec.frame].heap
             /\ cur[s].rec.key = Position(TreeKeys, cur[s].mode, cur[s].key)
 <2> DEFINE f == cur[s].frame
            R == block[f].recs
 <2>1. Types /\ BlocksAreRight /\ InOrder /\ \A t \in Sessions : SessionIsRight(t) BY <1>1 DEF IInv
 <2>2. f \in Frames /\ PageOf(f) /\ IsLeaf(block[f].page) /\ Holds(s, f)
   BY <1>1, <2>1 DEF SessionIsRight, LatchesAreRight, OnLeaf, Holds, HoldsX
 <2>3. cur[s].rec.frame = f /\ cur[s].rec.heap = block[f].heap
   BY <1>1, <2>1 DEF SessionIsRight, CursorIsRight, HasCursor
 <2>4. /\ cur[s].rec.key \in R
       /\ CheckGuess(R, cur[s].mode, cur[s].key, cur[s].rec.key,
                     block[f].page = leaves[1], block[f].page = leaves[Len(leaves)])
   BY <1>1, <2>1 DEF SessionIsRight, GuessIsChecked
 <2>5. \A t \in Sessions : ~Moving(t)
  <3>1. ASSUME NEW t \in Sessions, t # s PROVE ~Moving(t)
   <4>1. ~HoldsX(t, f)
     BY <2>1, <2>2, <3>1, SearchAssumption DEF Holds, HoldsX, BlocksAreRight, BlockIsRight
   <4>2. MoveIsRight(t) BY <2>1 DEF SessionIsRight
   <4> QED BY <2>1, <2>2, <4>1, <4>2, NobodyMoves
  <3>2. ~Moving(s) BY <1>1 DEF Moving, Hashing
  <3> QED BY <3>1, <3>2
 <2>6. cur[s].mode \in Modes /\ cur[s].key \in Keys /\ R \in SUBSET Keys
   BY <2>1, <2>2 DEF Types, ThreadTypes, CallType, Procs, BlockType
 <2>7. /\ TreeKeys \in SUBSET Keys /\ R \subseteq TreeKeys
       /\ \A x \in TreeKeys \ R :
             \/ block[f].page # leaves[1] /\ \A y \in R : x < y
             \/ block[f].page # leaves[Len(leaves)] /\ \A y \in R : y < x
   BY <2>1, <2>2, <2>5, TreeOrder
 <2>8. Position(TreeKeys, cur[s].mode, cur[s].key) = cur[s].rec.key
  <3> DEFINE first == block[f].page = leaves[1]
             last == block[f].page = leaves[Len(leaves)]
             r == cur[s].rec.key
  <3>1. first \in BOOLEAN /\ last \in BOOLEAN /\ r \in R BY <2>4
  <3>2. /\ TreeKeys \in SUBSET Keys /\ R \subseteq TreeKeys
        /\ \A x \in TreeKeys \ R : (~first /\ \A y \in R : x < y) \/ (~last /\ \A y \in R : y < x)
    BY <2>7
  <3>3. CheckGuess(R, cur[s].mode, cur[s].key, r, first, last) BY <2>4
  <3> HIDE DEF first, last, R, r
  <3>4. Position(TreeKeys, cur[s].mode, cur[s].key) = r BY <2>6, <3>1, <3>2, <3>3, CheckedIsRight
  <3> QED BY <3>4 DEF r
 <2> QED BY <2>3, <2>4, <2>8
<1>2. ASSUME IInv, NEW s \in Sessions, cur[s].flag = "hash", pc[s] = "reading"
      PROVE  /\ cur[s].rec.key = cur[s].key /\ cur[s].key \in block[cur[s].rec.frame].recs
             /\ cur[s].rec.heap = block[cur[s].rec.frame].heap
             /\ \A t \in Sessions : ~(pc[t] = "writing" /\ cur[t].rec = cur[s].rec)
 <2>1. /\ s \in search_s /\ cur[s].rec.key = cur[s].key /\ cur[s].rec # NoRec
       /\ hash[Fold[cur[s].n][cur[s].key]] = cur[s].rec
   BY <1>2 DEF IInv, SessionIsRight, NodeIsKept
 <2>2. cur[s].n \in DOMAIN Fold /\ cur[s].key \in Keys
   BY <1>2 DEF IInv, Types, ThreadTypes, CallType, Procs
 <2>3. Fold[cur[s].n][cur[s].key] \in Folds BY <2>2, SearchAssumption
 <2>4. /\ block[cur[s].rec.frame].is_hashed /\ cur[s].rec.key \in block[cur[s].rec.frame].recs
       /\ cur[s].rec.heap = block[cur[s].rec.frame].heap
   BY <1>2, <2>1, <2>3 DEF IInv, NodesAreValid, NodeIsValid
 <2>5. ASSUME NEW t \in Sessions, pc[t] = "writing", cur[t].rec = cur[s].rec PROVE FALSE
  <3>1. cur[t].rec.frame = cur[t].frame /\ (search_x = t \/ ~block[cur[t].frame].is_hashed)
    BY <1>2, <2>5 DEF IInv, SessionIsRight, CursorIsRight, NodesAreRight
  <3>2. search_x # t BY <1>2, <2>1, <2>5 DEF IInv, SearchLatchIsRight
  <3> QED BY <2>4, <2>5, <3>1, <3>2
 <2> QED BY <2>1, <2>4, <2>5
<1>3. IInv => GuessIsRight BY <1>1, <1>2 DEF GuessIsRight
<1> QED BY <1>3, Invariance, PTL
=============================================================================
