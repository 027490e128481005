------------------------------ MODULE SearchSys ------------------------------
(***************************************************************************)
(* The adaptive hash index of btr/btr0sea.c over one clustered index of at *)
(* most two leaves, and the threads that meet there: sessions that search, *)
(* read by the shortcut of row_search_for_mysql, insert, delete and update *)
(* records, with the reorganisation, split, merge and discard of leaves,   *)
(* and a thread that evicts pages.                                         *)
(*                                                                         *)
(* A section under btr_search_latch is a step; the latch is seen between   *)
(* steps where it is kept, by a guess, a shortcut or a writer, and where a *)
(* writer has reserved it and waits for readers.  The counters and         *)
(* parameters of search info are read and written without a latch: any     *)
(* value of plan.params may be found, and any search may be analysed.      *)
(***************************************************************************)
EXTENDS Integers, Sequences, FiniteSets, FiniteSetsExt

CONSTANTS
    MaxKey,             \* keys are 1..MaxKey
    Folds, Fold,        \* hash values, and that of a key by the parameters used
    Pages, Frames,
    Sessions, Lru,      \* threads; Lru frees blocks
    Nobody, NoPage, NoFrame,
    Plans               \* where a behaviour starts and what it does

Keys == 1..MaxKey
Infimum == 0
Supremum == MaxKey + 1

Modes == {"G", "GE", "L", "LE"}
Calls ==
    [op : {"search", "read"}, mode : Modes, key : Keys]
        \cup [op : {"insert", "delete", "update"}, mode : {"LE"}, key : Keys]

\* A prefix length and the side of a run of equal folds that is hashed.
Params == [n : DOMAIN Fold, left : BOOLEAN]

\* leaves, cut, recs: the tree at the start.  params: what info and blocks may
\* recommend.  calls: of each session, sets to choose from.
PlanType ==
    [leaves : {l \in Seq(Pages) : Len(l) \in {1, 2}}, cut : Keys, recs : [Pages -> SUBSET Keys],
     params : SUBSET Params, calls : [Sessions -> Seq(SUBSET Calls)], evictions : Nat]

\* There is a prefix of one field, and the tree is a tree at the start.
ASSUME SearchAssumption ==
    /\ MaxKey \in Nat \ {0}
    /\ Lru \notin Sessions /\ Nobody \notin Sessions \cup {Lru}
    /\ NoPage \notin Pages /\ NoFrame \notin Frames
    /\ IsFiniteSet(Pages) /\ Cardinality(Pages) = 2
    /\ 1 \in DOMAIN Fold
    /\ \A n \in DOMAIN Fold : Fold[n] \in [Keys -> Folds]
    /\ \A p \in Plans :
          /\ p \in PlanType
          /\ Len(p.leaves) = 2 =>
                /\ p.leaves[1] # p.leaves[2]
                /\ \A k \in p.recs[p.leaves[1]] : k < p.cut
                /\ \A k \in p.recs[p.leaves[2]] : p.cut <= k

VARIABLES
    plan,
    hash,       \* the record a node points to, by fold
    block,      \* the blocks of the buffer pool, by frame
    disk,       \* the records of a page on disk
    leaves, cut,\* the leaves from left to right; the second begins with cut
    index_x,    \* who has dict_index_get_lock(index) x-locked
    latch,      \* page latches
    search_s,   \* who has btr_search_latch in S mode
    search_x,   \* its writer; it waits while search_s is not empty
    pc, cur, todo, evictions

latch_vars == <<index_x, latch, search_s, search_x>>
page_vars == <<block, disk, leaves, cut>>
vars == <<plan, hash, page_vars, latch_vars, pc, cur, todo, evictions>>

Procs == Sessions \cup {Lru}

\* A pointer: what it points to changes its place when a page is reorganised.
Rec == [frame : Frames, key : Infimum..Supremum, heap : {0, 1}]
NoRec == [frame |-> NoFrame, key |-> Infimum, heap |-> 0]

NoBlock ==
    [state |-> "NOT_USED", page |-> NoPage, recs |-> {}, heap |-> 0,
     is_hashed |-> FALSE, n |-> 1, left |-> FALSE]

\* What a thread remembers: its call, its cursor (frame, rec, flag, and n of the
\* fold), the page number it has read, and what it is doing to a hash index.
NoCall ==
    [op |-> "search", mode |-> "GE", key |-> 1, flag |-> "binary", n |-> 1, left |-> FALSE,
     page |-> NoPage, frame |-> NoFrame, rec |-> NoRec, other |-> NoFrame, work |-> NoFrame,
     folds |-> {}, was |-> 1, next |-> "idle"]

Init ==
    /\ plan \in Plans
    /\ hash = [f \in Folds |-> NoRec]
    /\ block = [f \in Frames |-> NoBlock]
    /\ disk = plan.recs
    /\ leaves = plan.leaves /\ cut = plan.cut
    /\ index_x = Nobody
    /\ latch = [f \in Frames |-> [x |-> Nobody, s |-> {}]]
    /\ search_s = {} /\ search_x = Nobody
    /\ pc = [p \in Procs |-> "idle"]
    /\ cur = [p \in Procs |-> NoCall]
    /\ todo = plan.calls
    /\ evictions = 0

-----------------------------------------------------------------------------
(* Threads and latches *)

Goto(p, a, b) == pc[p] = a /\ pc' = [pc EXCEPT ![p] = b]
Set(p, c) == cur' = [cur EXCEPT ![p] = c]
Calling(p, op) == pc[p] = "at" /\ cur[p].op = op

\* rw_lock_s_lock is granted unless there is a writer, which may be waiting.
SSection == search_x = Nobody /\ UNCHANGED <<search_s, search_x>>

\* rw_lock_x_lock, all that is done under it, and rw_lock_x_unlock.
XSection(p) ==
    /\ search_s = {} /\ search_x \in {Nobody, p}
    /\ search_x' = Nobody
    /\ UNCHANGED search_s

XLabels == {"ref", "build", "drop", "hash_insert", "hash_delete", "write_lock"}

\* rw_lock_x_lock finds readers: it reserves the latch and waits for them.
Reserve(p) ==
    /\ pc[p] \in XLabels
    /\ search_x = Nobody /\ search_s # {}
    /\ search_x' = p
    /\ UNCHANGED <<plan, hash, page_vars, index_x, latch, search_s, pc, cur, todo, evictions>>

Free(f, x) ==
    /\ latch[f].x = Nobody
    /\ x => latch[f].s = {}

LatchPages(p, F, x) ==
    latch' = [f \in Frames |->
        IF f \notin F THEN latch[f]
        ELSE IF x THEN [latch[f] EXCEPT !.x = p] ELSE [latch[f] EXCEPT !.s = @ \cup {p}]]

\* BTR_MODIFY_LEAF or BTR_SEARCH_LEAF.
Modifies(p) == cur[p].op \in {"insert", "delete", "update"}

\* mtr_commit, and the call returns.
Return(p) ==
    /\ latch' = [f \in Frames |-> [x |-> IF latch[f].x = p THEN Nobody ELSE latch[f].x,
                                   s |-> latch[f].s \ {p}]]
    /\ index_x' = IF index_x = p THEN Nobody ELSE index_x
    /\ Set(p, NoCall)
    /\ UNCHANGED search_x

-----------------------------------------------------------------------------
(* Pages *)

BlockOf(p) == {f \in Frames : block[f].state = "FILE_PAGE" /\ block[f].page = p}
FrameOf(p) == CHOOSE f \in BlockOf(p) : TRUE

Before(R, k) == Max({Infimum} \cup {r \in R : r < k})
After(R, k) == Min({Supremum} \cup {r \in R : r > k})

\* page_cur_search: the record a search in a page, or in a tree, ends at.
Position(R, mode, k) ==
    CASE mode = "G" -> After(R, k)
      [] mode = "GE" -> After(R, k - 1)
      [] mode = "L" -> Before(R, k)
      [] mode = "LE" -> Before(R, k + 1)

\* On the level above GE is searched for as L, and G as LE.
LeafOf(mode, k) ==
    IF Len(leaves) = 2 /\ (IF mode \in {"GE", "L"} THEN cut < k ELSE cut <= k)
    THEN leaves[2] ELSE leaves[1]

RecsOf(p) == IF BlockOf(p) = {} THEN disk[p] ELSE block[FrameOf(p)].recs
TreeKeys == UNION {RecsOf(leaves[i]) : i \in DOMAIN leaves}

At(f, k) == [frame |-> f, key |-> k, heap |-> block[f].heap]

FoldOf(f, k) == Fold[block[f].n][k]

-----------------------------------------------------------------------------
(* The hash table and the hash index of a page *)

\* ha_insert_for_fold for several nodes: the data of a node that is there is
\* replaced; a new one may find no memory.
HashInsert(nodes) ==
    \E refused \in SUBSET {v \in DOMAIN nodes : hash[v] = NoRec} :
        hash' = [v \in Folds |-> IF v \in DOMAIN nodes \ refused THEN nodes[v] ELSE hash[v]]

\* The first, or last, record of the last run of records with that fold.
Hashed(f, n, left) ==
    LET R == block[f].recs
        Ends == {k \in R :
            LET neighbour == IF left THEN Before(R, k) ELSE After(R, k)
            IN  neighbour \notin Keys \/ Fold[n][neighbour] # Fold[n][k]}
    IN  [v \in {Fold[n][k] : k \in Ends} |-> At(f, Max({k \in Ends : Fold[n][k] = v}))]

Differs(f, c) == block[f].is_hashed /\ (block[f].n # c.n \/ block[f].left # c.left)

\* btr_search_build_page_hash_index: the page is latched.  A hash index with
\* other parameters is dropped first.
BuildOn(p, f, n, left) ==
    LET c == [cur[p] EXCEPT !.work = f, !.n = n, !.left = left, !.next = "build"]
    IN  Set(p, c) /\ pc' = [pc EXCEPT ![p] = IF Differs(f, c) THEN "drop_check" ELSE "build"]

\* Somebody may have built one meanwhile, for the page is perhaps s-latched only.
Build(p) ==
    LET f == cur[p].work
        c == cur[p]
    IN  /\ pc[p] = "build"
        /\ Goto(p, "build", IF c.work = c.frame THEN "at" ELSE "moved")
        /\ XSection(p)
        /\ IF Differs(f, c) THEN UNCHANGED <<hash, block>>
           ELSE /\ block' = [block EXCEPT ![f].is_hashed = TRUE, ![f].n = c.n, ![f].left = c.left]
                /\ HashInsert(Hashed(f, c.n, c.left))
        /\ UNCHANGED <<plan, disk, leaves, cut, index_x, latch, cur, todo, evictions>>

\* btr_search_drop_page_hash_index, first half: reads under the latch with what
\* parameters the page is hashed, and computes its folds without.
DropCheck(p) ==
    LET f == cur[p].work
        c == cur[p]
    IN  /\ pc[p] = "drop_check"
        /\ Goto(p, "drop_check", IF block[f].is_hashed THEN "drop" ELSE c.next)
        /\ SSection
        /\ IF block[f].is_hashed
           THEN Set(p, [c EXCEPT !.folds = {FoldOf(f, k) : k \in block[f].recs},
                                 !.was = block[f].n])
           ELSE UNCHANGED cur
        /\ UNCHANGED <<plan, hash, page_vars, index_x, latch, todo, evictions>>

\* mutant: what the page was hashed with is not looked at again
DropUnchecked(p) ==
    LET f == cur[p].work
        c == cur[p]
    IN  /\ Goto(p, "drop", c.next)
        /\ XSection(p)
        /\ hash' = [v \in Folds |->
              IF v \in c.folds /\ hash[v].frame = f THEN NoRec ELSE hash[v]]
        /\ block' = [block EXCEPT ![f].is_hashed = FALSE]
        /\ Set(p, [c EXCEPT !.folds = {}, !.was = 1])
        /\ UNCHANGED <<plan, disk, leaves, cut, index_x, latch, todo, evictions>>

\* Second half: removes the nodes, unless somebody has dropped the hash index, or
\* built another one, meanwhile.
Drop(p) ==
    LET f == cur[p].work
        c == cur[p]
        retry == block[f].is_hashed /\ block[f].n # c.was
    IN  /\ pc[p] = "drop"
        /\ Goto(p, "drop", IF retry THEN "drop_check" ELSE c.next)
        /\ XSection(p)
        /\ IF retry \/ ~block[f].is_hashed THEN UNCHANGED <<hash, block>>
           ELSE /\ hash' = [v \in Folds |->
                      IF v \in c.folds /\ hash[v].frame = f THEN NoRec ELSE hash[v]]
                /\ block' = [block EXCEPT ![f].is_hashed = FALSE]
        /\ Set(p, [c EXCEPT !.folds = {}, !.was = 1])
        /\ UNCHANGED <<plan, disk, leaves, cut, index_x, latch, todo, evictions>>

-----------------------------------------------------------------------------
(* The guess *)

\* A call of the server.  row_search_for_mysql, PHASE 0: a search latch that is
\* kept from the last call is given up if a writer waits; the handler gives it up
\* before other calls.
Begin(s) ==
    /\ todo[s] # <<>>
    /\ Goto(s, "idle", "start")
    /\ \E r \in Head(todo[s]) :
          /\ Set(s, [NoCall EXCEPT !.op = r.op, !.mode = r.mode, !.key = r.key])
          /\ search_s' = IF r.op = "read" /\ search_x = Nobody THEN search_s ELSE search_s \ {s}
    /\ todo' = [todo EXCEPT ![s] = Tail(@)]
    /\ UNCHANGED <<plan, hash, page_vars, index_x, latch, search_x, evictions>>

\* trx_search_latch_release_if_reserved at the end of the statement.
ReleaseSearchLatch(s) ==
    /\ pc[s] = "idle" /\ s \in search_s
    /\ search_s' = search_s \ {s}
    /\ UNCHANGED <<plan, hash, page_vars, index_x, latch, search_x, pc, cur, todo, evictions>>

\* btr_cur_search_to_nth_level before it descends: the guess has failed, or was
\* not tried; the search latch is released to obey the latching order.
Unguessed(s, flag) ==
    /\ Set(s, [cur[s] EXCEPT !.flag = flag, !.n = 1, !.page = NoPage, !.frame = NoFrame, !.rec = NoRec])
    /\ search_s' = search_s \ {s}

DoNotGuess(s) ==
    /\ Goto(s, "start", "descend")
    /\ Unguessed(s, "binary")
    /\ UNCHANGED <<plan, hash, page_vars, index_x, latch, search_x, todo, evictions>>

\* btr_search_guess_on_hash: finds a record, with the parameters it has read from
\* info, and the page number in the frame of the record.
Lookup(s) ==
    /\ pc[s] = "start" /\ search_x = Nobody
    /\ \E c \in plan.params :
          LET rec == hash[Fold[c.n][cur[s].key]]
          IN  \/ /\ rec # NoRec
                 /\ Goto(s, "start", "block")
                 /\ Set(s, [cur[s] EXCEPT !.flag = "hash", !.n = c.n, !.rec = rec,
                                          !.page = block[rec.frame].page])
                 /\ search_s' = search_s \cup {s}
              \/ /\ rec = NoRec
                 /\ Goto(s, "start", "descend")
                 /\ Unguessed(s, "hash_fail")
    /\ UNCHANGED <<plan, hash, page_vars, index_x, latch, search_x, todo, evictions>>

\* mutant: the ends of the page are taken for those of the tree
CheckGuessAtEnd(R, mode, k, r, first, last) ==
    /\ CASE mode = "GE" -> k <= r
         [] mode = "LE" -> r <= k
         [] mode = "G" -> k < r
         [] mode = "L" -> r < k
    /\ Position(R, mode, k) = r

\* btr_search_check_guess with a page latch: R are the records of the page, first
\* and last whether the page has no left or right neighbour.
CheckGuess(R, mode, k, r, first, last) ==
    LET prev == Before(R, r)
        next == After(R, r)
    IN  CASE mode = "GE" -> k <= r /\ (k = r \/ (IF prev = Infimum THEN first ELSE prev < k))
          [] mode = "G" -> k < r /\ (IF prev = Infimum THEN first ELSE prev <= k)
          [] mode = "LE" -> r <= k /\ (IF next = Supremum THEN last ELSE k < next)
          [] mode = "L" -> r < k /\ (IF next = Supremum THEN last ELSE k <= next)

\* buf_page_hash_get.  With the search latch of the shortcut the page is not
\* latched, and only the record found may be compared.
FindBlock(s) ==
    LET B == BlockOf(cur[s].page)
        read == cur[s].op = "read"
    IN  /\ pc[s] = "block"
        /\ \/ /\ B # {}
              /\ read => cur[s].rec.key = cur[s].key
              /\ Goto(s, "block", IF read THEN "reading" ELSE "latch")
              /\ Set(s, [cur[s] EXCEPT !.page = NoPage, !.frame = CHOOSE f \in B : TRUE])
              /\ UNCHANGED search_s
           \/ /\ B = {} \/ (read /\ cur[s].rec.key # cur[s].key)
              /\ Goto(s, "block", "descend")
              /\ Unguessed(s, "hash_fail")
        /\ UNCHANGED <<plan, hash, page_vars, index_x, latch, search_x, todo, evictions>>

\* mutant: waits for the page latch
LatchBlockWaiting(s) ==
    LET f == cur[s].frame
        c == cur[s]
        i == CHOOSE j \in DOMAIN leaves : leaves[j] = block[f].page
        latched == block[f].state = "FILE_PAGE"
        right == CheckGuess(block[f].recs, c.mode, c.key, c.rec.key, i = 1, i = Len(leaves))
    IN  /\ pc[s] = "latch" /\ block[f].state # "NOT_USED"
        /\ block[f].state = "FILE_PAGE" => Free(f, Modifies(s))
        /\ \/ /\ latched /\ f = c.rec.frame /\ right
              /\ Goto(s, "latch", "at")
              /\ LatchPages(s, {f}, Modifies(s))
              /\ search_s' = search_s \ {s}
              /\ UNCHANGED cur
           \/ /\ ~(latched /\ f = c.rec.frame /\ right)
              /\ Goto(s, "latch", "descend")
              /\ Unguessed(s, "hash_fail")
              /\ UNCHANGED latch
           \/ /\ latched /\ f # c.rec.frame
              /\ \E first, last \in BOOLEAN :
                    CheckGuess(block[c.rec.frame].recs, c.mode, c.key, c.rec.key, first, last)
              /\ Goto(s, "latch", "astray")
              /\ LatchPages(s, {f}, Modifies(s))
              /\ search_s' = search_s \ {s}
              /\ UNCHANGED cur
        /\ UNCHANGED <<plan, hash, page_vars, index_x, search_x, todo, evictions>>

\* buf_page_get_known_nowait: not of a block that is being freed, and without waiting
\* (a free block would stop the server).  Then the guess is checked.  That the block
\* is not the record's, for the page was evicted and read again since Lookup, is not
\* noticed: the check looks at the frame that is being freed, with the neighbours
\* its page had then, and if it is content the cursor goes astray: the record is not in
\* the block.  What comes of it is not modelled.
LatchBlock(s) ==
    LET f == cur[s].frame
        c == cur[s]
        i == CHOOSE j \in DOMAIN leaves : leaves[j] = block[f].page
        latched == block[f].state = "FILE_PAGE" /\ Free(f, Modifies(s))
        right == CheckGuess(block[f].recs, c.mode, c.key, c.rec.key, i = 1, i = Len(leaves))
    IN  /\ pc[s] = "latch" /\ block[f].state # "NOT_USED"
        /\ \/ /\ latched /\ f = c.rec.frame /\ right
              /\ Goto(s, "latch", "at")
              /\ LatchPages(s, {f}, Modifies(s))
              /\ search_s' = search_s \ {s}
              /\ UNCHANGED cur
           \/ /\ ~(latched /\ f = c.rec.frame /\ right)
              /\ Goto(s, "latch", "descend")
              /\ Unguessed(s, "hash_fail")
              /\ UNCHANGED latch
           \/ /\ latched /\ f # c.rec.frame
              /\ \E first, last \in BOOLEAN :
                    CheckGuess(block[c.rec.frame].recs, c.mode, c.key, c.rec.key, first, last)
              /\ Goto(s, "latch", "astray")
              /\ LatchPages(s, {f}, Modifies(s))
              /\ search_s' = search_s \ {s}
              /\ UNCHANGED cur
        /\ UNCHANGED <<plan, hash, page_vars, index_x, search_x, todo, evictions>>

-----------------------------------------------------------------------------
(* The search down the tree *)

\* A leaf that is not in the pool is read into a free block.
ReadPage(s) ==
    LET need == IF index_x = s THEN {leaves[i] : i \in DOMAIN leaves}
                ELSE {LeafOf(cur[s].mode, cur[s].key)}
    IN  /\ pc[s] = "descend"
        /\ \E p \in need, f \in Frames :
              /\ BlockOf(p) = {} /\ block[f].state = "NOT_USED"
              /\ block' = [block EXCEPT ![f] =
                    [NoBlock EXCEPT !.state = "FILE_PAGE", !.page = p, !.recs = disk[p]]]
        /\ UNCHANGED <<plan, hash, disk, leaves, cut, latch_vars, pc, cur, todo, evictions>>

\* BTR_MODIFY_TREE: the latch of the index, before a search without a guess.
LatchTree(s) ==
    /\ Goto(s, "tree", "descend")
    /\ index_x = Nobody
    /\ index_x' = s
    /\ UNCHANGED <<plan, hash, page_vars, latch, search_s, search_x, cur, todo, evictions>>

\* Latches the leaf, and its neighbours too if the tree is to be modified.
Descend(s) ==
    LET p == LeafOf(cur[s].mode, cur[s].key)
        f == FrameOf(p)
        need == IF index_x = s THEN {leaves[i] : i \in DOMAIN leaves} ELSE {p}
    IN  /\ pc[s] = "descend"
        /\ index_x \in {Nobody, s}
        /\ \A q \in need : BlockOf(q) # {} /\ Free(FrameOf(q), Modifies(s))
        /\ LatchPages(s, {FrameOf(q) : q \in need}, Modifies(s))
        /\ Set(s, [cur[s] EXCEPT !.frame = f,
                                 !.rec = At(f, Position(block[f].recs, cur[s].mode, cur[s].key))])
        /\ Goto(s, "descend", "info")
        /\ UNCHANGED <<plan, hash, page_vars, index_x, search_s, search_x, todo, evictions>>

\* btr_search_info_update: the search is not analysed, or not enough is gained; or
\* the node is to be put right by which the guess failed; or the page is to be
\* hashed, with the parameters that info or the block happens to say.
InfoUpdate(s) ==
    /\ pc[s] = "info"
    /\ \/ Goto(s, "info", "at") /\ UNCHANGED <<cur, search_s, search_x>>
       \/ cur[s].flag = "hash_fail" /\ Goto(s, "info", "ref") /\ UNCHANGED <<cur, search_s, search_x>>
       \/ /\ cur[s].flag = "binary" /\ block[cur[s].frame].recs # {}
          /\ \E c \in plan.params : BuildOn(s, cur[s].frame, c.n, c.left)
          /\ SSection
    /\ UNCHANGED <<plan, hash, page_vars, index_x, latch, todo, evictions>>

\* btr_search_update_hash_ref.
UpdateHashRef(s) ==
    LET c == cur[s]
        b == block[c.frame]
    IN  /\ Goto(s, "ref", "info")
        /\ XSection(s)
        /\ \/ UNCHANGED hash
           \/ /\ b.is_hashed /\ c.rec.key \in Keys
              /\ HashInsert([v \in {FoldOf(c.frame, c.rec.key)} |-> c.rec])
        /\ Set(s, [c EXCEPT !.flag = "binary"])
        /\ UNCHANGED <<plan, page_vars, index_x, latch, todo, evictions>>

-----------------------------------------------------------------------------
(* Searches and reads *)

Search(s) ==
    /\ Calling(s, "search")
    /\ Goto(s, "at", "idle")
    /\ Return(s)
    /\ UNCHANGED <<plan, hash, page_vars, search_s, todo, evictions>>

\* The shortcut takes the search latch again, with the page latched.
Relatch(s) ==
    /\ Calling(s, "read")
    /\ Goto(s, "at", IF cur[s].rec.key = cur[s].key THEN "reading" ELSE "done")
    /\ search_x = Nobody
    /\ search_s' = search_s \cup {s}
    /\ UNCHANGED <<plan, hash, page_vars, index_x, latch, search_x, cur, todo, evictions>>

\* The record is copied for MySQL, and the search latch perhaps kept; or a change
\* is done.
Finish(s) ==
    /\ pc[s] \in {"reading", "done"}
    /\ pc' = [pc EXCEPT ![s] = "idle"]
    /\ Return(s)
    /\ \/ UNCHANGED search_s
       \/ s \in search_s /\ search_s' = search_s \ {s}
    /\ UNCHANGED <<plan, hash, page_vars, todo, evictions>>

-----------------------------------------------------------------------------
(* Inserts, deletes and updates; the leaf is x-latched *)

Found(s) == cur[s].rec.key = cur[s].key

\* The record to insert is there, that to delete or update is not.
Nothing(s) ==
    /\ Goto(s, "at", "done")
    /\ Modifies(s) /\ (Found(s) <=> cur[s].op = "insert")
    /\ UNCHANGED <<plan, hash, page_vars, latch_vars, cur, todo, evictions>>

\* The change does not fit, or leaves too little: it is tried again with the tree
\* latched, which a leaf and its neighbours are then, too.
TryTree(s) ==
    /\ Goto(s, "at", "tree")
    /\ \/ Calling(s, "insert") /\ ~Found(s) /\ Len(leaves) = 1
       \/ Calling(s, "delete") /\ Found(s) /\ Len(leaves) = 2
    /\ index_x # s
    /\ Unguessed(s, "binary")
    /\ latch' = [latch EXCEPT ![cur[s].frame].x = Nobody]
    /\ UNCHANGED <<plan, hash, page_vars, index_x, search_x, todo, evictions>>

\* A page that is hashed needs its hash index updated, at label b, before c.
IfHashed(f, b, c) == IF block[f].is_hashed THEN b ELSE c

\* btr_cur_optimistic_insert: the record fits.
Insert(s) ==
    LET f == cur[s].frame
    IN  /\ Calling(s, "insert") /\ ~Found(s)
        /\ Goto(s, "at", IfHashed(f, "hash_insert", "done"))
        /\ block' = [block EXCEPT ![f].recs = @ \cup {cur[s].key}]
        /\ Set(s, IF index_x = s THEN [cur[s] EXCEPT !.flag = "binary"] ELSE cur[s])
        /\ UNCHANGED <<plan, hash, disk, leaves, cut, latch_vars, todo, evictions>>

\* It fits when the page has been reorganised: the hash index is dropped first.
Reorganize(s) ==
    LET f == cur[s].frame
    IN  /\ Calling(s, "insert") /\ ~Found(s)
        /\ Goto(s, "at", "drop_check")
        /\ Set(s, [cur[s] EXCEPT !.work = f, !.flag = "binary", !.next = "reorganised"])
        /\ UNCHANGED <<plan, hash, page_vars, latch_vars, todo, evictions>>

InsertReorganized(s) ==
    LET f == cur[s].frame
    IN  /\ pc[s] = "reorganised"
        /\ Goto(s, "reorganised", IfHashed(f, "hash_insert", "done"))
        /\ block' = [block EXCEPT ![f].recs = @ \cup {cur[s].key}, ![f].heap = 1 - @]
        /\ UNCHANGED <<plan, hash, disk, leaves, cut, latch_vars, cur, todo, evictions>>

\* btr_search_update_hash_on_insert: the nodes that the record inserted after prev
\* makes necessary.
NodesOnInsert(f, ins) ==
    LET R == block[f].recs
        prev == Before(R, ins)
        next == After(R, ins)
        New(k, l) == k \notin Keys \/ l \notin Keys \/ FoldOf(f, k) # FoldOf(f, l)
        Ks == IF block[f].left
              THEN {k \in {ins} : New(prev, ins)} \cup {k \in {next} \cap Keys : New(ins, next)}
              ELSE {k \in {prev} \cap Keys : New(prev, ins)} \cup {k \in {ins} : New(ins, next)}
    IN  [v \in {FoldOf(f, k) : k \in Ks} |-> At(f, Max({k \in Ks : FoldOf(f, k) = v}))]

\* btr_search_update_hash_node_on_insert: after a guess by the parameters of the
\* page, the node that led to it, if it is the same still, is moved to the record
\* inserted behind.
HashOnInsert(s) ==
    LET c == cur[s]
        f == c.frame
        v == Fold[c.n][c.key]
        moved == c.flag = "hash" /\ c.n = block[f].n /\ ~block[f].left
    IN  /\ Goto(s, "hash_insert", "done")
        /\ XSection(s)
        /\ IF moved
           THEN hash' = IF hash[v] = c.rec THEN [hash EXCEPT ![v] = At(f, c.key)] ELSE hash
           ELSE HashInsert(NodesOnInsert(f, c.key))
        /\ UNCHANGED <<plan, page_vars, index_x, latch, cur, todo, evictions>>

\* btr_cur_optimistic_delete and btr_cur_pessimistic_delete.  The last record of a
\* page goes with the page (btr_discard_page).
Delete(s) ==
    LET f == cur[s].frame
        discard == index_x = s /\ Len(leaves) = 2 /\ block[f].recs = {cur[s].key}
    IN  /\ Calling(s, "delete") /\ Found(s)
        /\ Goto(s, "at", IF discard THEN "drop_check" ELSE IfHashed(f, "hash_delete", "remove"))
        /\ Set(s, [cur[s] EXCEPT !.work = f, !.next = IF discard THEN "emptied" ELSE "remove"])
        /\ UNCHANGED <<plan, hash, page_vars, latch_vars, todo, evictions>>

\* btr_search_update_hash_on_delete.
HashOnDelete(s) ==
    LET c == cur[s]
        v == FoldOf(c.frame, c.key)
    IN  /\ Goto(s, "hash_delete", c.next)
        /\ XSection(s)
        /\ hash' = IF hash[v] = c.rec THEN [hash EXCEPT ![v] = NoRec] ELSE hash
        /\ UNCHANGED <<plan, page_vars, index_x, latch, cur, todo, evictions>>

\* page_cur_delete_rec, and whether the page is to be merged.
Remove(s) ==
    LET f == cur[s].frame
    IN  /\ pc[s] = "remove"
        /\ \/ cur[s].op = "update" /\ Goto(s, "remove", "reinsert")
           \/ cur[s].op = "delete" /\ Goto(s, "remove", "done")
           \/ /\ cur[s].op = "delete" /\ index_x = s /\ Len(leaves) = 2
              /\ Goto(s, "remove", "compress")
        /\ block' = [block EXCEPT ![f].recs = @ \ {cur[s].key}]
        /\ UNCHANGED <<plan, hash, disk, leaves, cut, latch_vars, cur, todo, evictions>>

\* btr_cur_optimistic_update, where the size changes: the record is deleted and
\* inserted again, without a node.
UpdateBySize(s) ==
    /\ Calling(s, "update") /\ Found(s)
    /\ Goto(s, "at", IfHashed(cur[s].frame, "hash_delete", "remove"))
    /\ Set(s, [cur[s] EXCEPT !.next = "remove"])
    /\ UNCHANGED <<plan, hash, page_vars, latch_vars, todo, evictions>>

Reinsert(s) ==
    /\ Goto(s, "reinsert", "done")
    /\ block' = [block EXCEPT ![cur[s].frame].recs = @ \cup {cur[s].key}]
    /\ UNCHANGED <<plan, hash, disk, leaves, cut, latch_vars, cur, todo, evictions>>

\* btr_cur_update_in_place and btr_cur_del_mark_set_clust_rec: where ordering fields
\* change, the node goes first; the record is written under the search latch, for
\* a shortcut may be reading it, if the page is hashed.
UpdateInPlace(s) ==
    /\ Calling(s, "update") /\ Found(s)
    /\ \E b \in {"hash_delete", "write_lock"} :
          Goto(s, "at", IfHashed(cur[s].frame, b, "writing"))
    /\ Set(s, [cur[s] EXCEPT !.next = "write_lock"])
    /\ UNCHANGED <<plan, hash, page_vars, latch_vars, todo, evictions>>

WriteLock(s) ==
    /\ Goto(s, "write_lock", "writing")
    /\ search_s = {} /\ search_x \in {Nobody, s}
    /\ search_x' = s
    /\ UNCHANGED <<plan, hash, page_vars, index_x, latch, search_s, cur, todo, evictions>>

Written(s) ==
    /\ Goto(s, "writing", "done")
    /\ search_x' = IF search_x = s THEN Nobody ELSE search_x
    /\ UNCHANGED <<plan, hash, page_vars, index_x, latch, search_s, cur, todo, evictions>>

-----------------------------------------------------------------------------
(* Splits and merges; the pages are x-latched *)

\* btr_page_split_and_insert: the records from split on, or before it, are copied
\* to a new page to the right, or left.  A block that holds the page since it was
\* freed is used again.  The tree's latch may be released at once.
Split(s) ==
    LET f == cur[s].frame
        p == block[f].page
        q == CHOOSE r \in Pages : r # p
        All == block[f].recs \cup {cur[s].key}
        Room == IF BlockOf(q) # {} THEN BlockOf(q)
                ELSE {g \in Frames : block[g].state = "NOT_USED"}
    IN  /\ Calling(s, "insert") /\ ~Found(s) /\ index_x = s /\ Len(leaves) = 1
        /\ \E split \in All \ {Min(All)}, right \in BOOLEAN, g \in Room :
              /\ Free(g, TRUE)
              /\ block' = [block EXCEPT ![g] =
                    [(IF @.page = q THEN @ ELSE NoBlock) EXCEPT
                        !.state = "FILE_PAGE", !.page = q,
                        !.recs = {k \in block[f].recs : IF right THEN k >= split ELSE k < split}]]
              /\ leaves' = IF right THEN <<p, q>> ELSE <<q, p>>
              /\ cut' = split
              /\ LatchPages(s, {g}, TRUE)
              /\ Set(s, [cur[s] EXCEPT !.flag = "binary", !.other = g])
        /\ index_x' \in {Nobody, s}
        /\ Goto(s, "at", "move")
        /\ UNCHANGED <<plan, hash, disk, search_s, search_x, todo, evictions>>

\* btr_compress: the records are copied to the other leaf.
Compress(s) ==
    LET f == cur[s].frame
        i == CHOOSE j \in DOMAIN leaves : leaves[j] # block[f].page
        g == FrameOf(leaves[i])
    IN  /\ Goto(s, "compress", "move")
        /\ block' = [block EXCEPT ![g].recs = @ \cup block[f].recs]
        /\ Set(s, [cur[s] EXCEPT !.other = g])
        /\ UNCHANGED <<plan, hash, disk, leaves, cut, latch_vars, todo, evictions>>

\* btr_search_move_or_delete_hash_entries.
MoveHash(s) ==
    LET f == cur[s].frame
        g == cur[s].other
    IN  /\ pc[s] = "move"
        /\ SSection
        /\ IF block[g].is_hashed
           THEN /\ Goto(s, "move", "drop_check")
                /\ Set(s, [cur[s] EXCEPT !.work = f, !.next = "moved"])
           ELSE IF block[f].is_hashed /\ block[g].recs # {}
                THEN BuildOn(s, g, block[f].n, block[f].left)
                ELSE Goto(s, "move", "moved") /\ UNCHANGED cur
        /\ UNCHANGED <<plan, hash, page_vars, index_x, latch, todo, evictions>>

\* The records moved are deleted from the old page, and the record is inserted in
\* the page it belongs to.
SplitEnd(s) ==
    LET f == cur[s].frame
        g == cur[s].other
        h == IF block[f].page = LeafOf("LE", cur[s].key) THEN f ELSE g
    IN  /\ pc[s] = "moved" /\ cur[s].op = "insert"
        /\ Goto(s, "moved", IfHashed(h, "hash_insert", "done"))
        /\ block' = [e \in Frames |->
              LET R == IF e = f THEN block[f].recs \ block[g].recs ELSE block[e].recs
              IN  [block[e] EXCEPT !.recs = IF e = h THEN R \cup {cur[s].key} ELSE R]]
        /\ Set(s, [cur[s] EXCEPT !.frame = h])
        /\ UNCHANGED <<plan, hash, disk, leaves, cut, latch_vars, todo, evictions>>

\* The page that was merged loses its hash index before it is freed.
MergeEnd(s) ==
    /\ pc[s] = "moved" /\ cur[s].op = "delete"
    /\ Goto(s, "moved", "drop_check")
    /\ Set(s, [cur[s] EXCEPT !.work = cur[s].frame, !.next = "emptied"])
    /\ UNCHANGED <<plan, hash, page_vars, latch_vars, todo, evictions>>

\* btr_page_free: the page is no longer a leaf; its block stays in the pool.
FreePage(s) ==
    /\ Goto(s, "emptied", "done")
    /\ \E i \in DOMAIN leaves :
          leaves[i] # block[cur[s].frame].page /\ leaves' = <<leaves[i]>>
    /\ UNCHANGED <<plan, hash, block, disk, cut, latch_vars, cur, todo, evictions>>

-----------------------------------------------------------------------------
(* Eviction *)

\* buf_LRU_block_remove_hashed_page: the block leaves the page hash, and the page
\* number in its frame is wiped.  What was changed has been written.
Evict ==
    /\ evictions < plan.evictions
    /\ Goto(Lru, "idle", "drop_check")
    /\ \E f \in Frames :
          /\ block[f].state = "FILE_PAGE" /\ Free(f, TRUE)
          /\ block' = [block EXCEPT ![f].state = "REMOVE_HASH", ![f].page = NoPage]
          /\ disk' = [disk EXCEPT ![block[f].page] = block[f].recs]
          /\ Set(Lru, [NoCall EXCEPT !.work = f, !.next = "free"])
    /\ evictions' = evictions + 1
    /\ UNCHANGED <<plan, hash, leaves, cut, latch_vars, todo>>

\* buf_LRU_block_free_hashed_page, when the hash index is dropped.
FreeBlock ==
    /\ Goto(Lru, "free", "idle")
    /\ block' = [block EXCEPT ![cur[Lru].work] = NoBlock]
    /\ Set(Lru, NoCall)
    /\ UNCHANGED <<plan, hash, disk, leaves, cut, latch_vars, todo, evictions>>

-----------------------------------------------------------------------------
(* The system *)

\* What threads that have begun go on with.
Proceed(s) ==
    \/ ReleaseSearchLatch(s) \/ DoNotGuess(s) \/ Lookup(s) \/ FindBlock(s) \/ LatchBlock(s)
    \/ ReadPage(s) \/ LatchTree(s) \/ Descend(s) \/ InfoUpdate(s) \/ UpdateHashRef(s)
    \/ Search(s) \/ Relatch(s) \/ Finish(s)
    \/ Nothing(s) \/ TryTree(s) \/ Insert(s) \/ Reorganize(s) \/ InsertReorganized(s)
    \/ HashOnInsert(s) \/ Delete(s) \/ HashOnDelete(s) \/ Remove(s)
    \/ UpdateBySize(s) \/ Reinsert(s) \/ UpdateInPlace(s) \/ WriteLock(s) \/ Written(s)
    \/ Split(s) \/ Compress(s) \/ MoveHash(s) \/ SplitEnd(s) \/ MergeEnd(s) \/ FreePage(s)

HashStep(p) == Reserve(p) \/ Build(p) \/ DropCheck(p) \/ Drop(p)

Next ==
    \/ \E s \in Sessions : Begin(s) \/ Proceed(s)
    \/ \E p \in Procs : HashStep(p)
    \/ Evict \/ FreeBlock

Spec == Init /\ [][Next]_vars

\* Threads run, and i/o completes.  As calls are bounded, a latch that is asked for
\* comes free for good.
FairSpec ==
    /\ Spec
    /\ \A s \in Sessions : WF_vars(Proceed(s) \/ HashStep(s))
    /\ WF_vars(HashStep(Lru) \/ FreeBlock)

-----------------------------------------------------------------------------
(* Properties *)

\* A session goes on with a guess whose cursor is not in the block it has latched.  What
\* it does then is not modelled, and nothing is claimed from there on.
Astray == \E s \in Sessions : pc[s] = "astray"

\* btr_cur_position asserts it of every cursor: the record is in the block.
CursorIsInBlock ==
    \A s \in Sessions : pc[s] \in {"at", "astray"} => cur[s].rec.frame = cur[s].frame

TypeOK ==
    /\ hash \in [Folds -> Rec \cup {NoRec}]
    /\ \A f \in Frames : block[f].recs \subseteq Keys
    /\ \A p \in Pages : Cardinality(BlockOf(p)) <= 1
    /\ search_s \subseteq Sessions /\ search_x \in Procs \cup {Nobody}
    /\ Len(leaves) \in {1, 2}

\* btr_search_validate: a node points to a record that is there, on a page that is
\* hashed, and its fold is that of the record by the parameters of the page; also
\* while pages are split, merged, reorganised, freed or evicted; as long as no cursor
\* has gone astray.
HashIsValid ==
    /\ TypeOK
    /\ ~Astray => \A v \in Folds : hash[v] # NoRec =>
          LET b == block[hash[v].frame]
          IN  /\ b.state # "NOT_USED" /\ b.is_hashed
              /\ hash[v].key \in b.recs /\ hash[v].heap = b.heap
              /\ Fold[b.n][hash[v].key] = v

\* A guess that is taken is where a search down the tree would have ended.  And
\* the record that a shortcut reads under the search latch is the one asked for, in
\* its place, and nobody writes it.  Both as long as no cursor has gone astray: the
\* guess of one that has is wrong.
GuessIsRight ==
    ~Astray => \A s \in Sessions : cur[s].flag = "hash" =>
        LET c == cur[s]
            b == block[c.rec.frame]
        IN  /\ pc[s] = "at" =>
                  /\ c.rec.key \in b.recs /\ c.rec.heap = b.heap
                  /\ c.rec.key = Position(TreeKeys, c.mode, c.key)
            /\ pc[s] = "reading" =>
                  /\ c.rec.key = c.key /\ c.key \in b.recs /\ c.rec.heap = b.heap
                  /\ \A t \in Sessions : ~(pc[t] = "writing" /\ cur[t].rec = c.rec)

\* Every call, and every eviction, ends, although page latches and the search latch
\* are waited for while others are held, and a kept search latch is given up: again and
\* again nobody is in a call, unless a cursor goes astray.
CallsReturn ==
    <>Astray \/ []<>(\A p \in Procs : pc[p] = "idle" /\ p \notin search_s)
=============================================================================
