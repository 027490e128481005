------------------------------- MODULE PageIo -------------------------------
(***************************************************************************)
(* The insert buffer of ibuf/ibuf0ibuf.c over BufPool and FilSpace, and    *)
(* the threads that meet there: sessions that insert into secondary        *)
(* indexes and read pages, the master thread that contracts the insert     *)
(* buffer, i/o threads that merge buffered entries into the pages they     *)
(* have read, page flushing and eviction, fil_flush, and a session that    *)
(* drops, discards and imports, or renames a tablespace.                   *)
(*                                                                         *)
(* The insert buffer tree is one leaf with its latch.  The redo log and    *)
(* crashes are the matter of RedoLog.  External: MySQL keeps sessions away *)
(* from a table that is being dropped, discarded or renamed, but not the   *)
(* other threads.                                                          *)
(***************************************************************************)
EXTENDS BufPool, Sequences

CONSTANTS
    Entries, Home,      \* index entries, and the page each belongs to
    Leaves, BitmapOf,   \* pages of secondary indexes, and the bitmap page of each
    Sessions,
    Nobody,
    Plans               \* what the threads do in a behaviour

\* inserts: what a session does in turn, an entry to insert or a page to read.
\* (An entry has the primary key in it, so it is inserted once.)
\* ddl: what happens to the tablespace target.  later: inserts go on after an
\* import.  flushers: the threads that flush files.  limit: innodb_open_files.
\* evictions: how many at most.
PlanAssumption(p) ==
    /\ p.inserts \in [Sessions -> Seq(Entries \cup Pages)]
    /\ \A u, v \in Sessions : \A i \in DOMAIN p.inserts[u], j \in DOMAIN p.inserts[v] :
           p.inserts[u][i] = p.inserts[v][j] /\ p.inserts[u][i] \in Entries => u = v /\ i = j
    /\ p.ddl \in {"none", "drop", "import", "rename"}
    /\ p.target \in Spaces
    /\ p.later \in BOOLEAN
    /\ p.flushers \subseteq Flushers
    /\ p.limit \in Nat
    /\ p.evictions \in Nat

ASSUME PageIoAssumption ==
    /\ Home \in [Entries -> Pages]
    /\ Leaves \subseteq Pages
    /\ BitmapOf \in [Leaves -> Pages \ Leaves]
    /\ \A p \in Leaves : SpaceOf[BitmapOf[p]] = SpaceOf[p]
    /\ Entries \cup Leaves \subseteq Contents
    /\ Entries \cap Pages = {} /\ Sessions \cap Pages = {} /\ Nobody \notin Sessions \cup Pages
    /\ \A p \in Plans : PlanAssumption(p)

VARIABLES
    plan,
    buffered,   \* the entries in the insert buffer tree
    ibuf_latch, \* the session or the page whose merge has its leaf latched
    pc, todo,   \* of the sessions
    master,     \* the page the master thread is about to merge
    ddl,        \* how far the ddl is
    inserted,   \* the entries whose insert has returned, of the present file
    evictions

ibuf_vars == <<buffered, ibuf_latch>>
thread_vars == <<pc, todo, master, ddl, evictions>>
vars == <<fil_vars, pool_vars, ibuf_vars, thread_vars, plan, inserted>>

NoMerge == [at |-> "idle", page |-> Nobody, version |-> 0]

Init ==
    /\ plan \in Plans
    /\ FilInit(plan.limit)
    /\ PoolInit
    /\ buffered = {}
    /\ ibuf_latch = Nobody
    /\ pc = [u \in Sessions |-> "idle"]
    /\ todo = plan.inserts
    /\ master = NoMerge
    /\ ddl = IF plan.ddl = "none" THEN "done" ELSE "idle"
    /\ inserted = {}
    /\ evictions = 0

EntriesOf(p) == { e \in Entries : Home[e] = p }

Target(u) == IF Head(todo[u]) \in Entries THEN Home[Head(todo[u])] ELSE Head(todo[u])

\* The sessions that have the page buffer-fixed and wait for its latch.
Fixed == { Target(u) : u \in { v \in Sessions : pc[v] = "latch" } }

-----------------------------------------------------------------------------
(* Sessions *)

Go(u, a, b) ==
    /\ pc[u] = a
    /\ pc' = [pc EXCEPT ![u] = b]

\* The table is not being altered and has its tablespace.
Usable(s) == Exists(s) /\ (s = plan.target => ddl \in {"idle", "done"})

Begin(u) ==
    /\ todo[u] # <<>>
    /\ Usable(SpaceOf[Target(u)])
    /\ Head(todo[u]) \in Entries => plan.later \/ space[SpaceOf[Target(u)]].version = 1
    /\ Go(u, "idle", "search")
    /\ UNCHANGED <<fil_vars, pool_vars, ibuf_vars, todo, master, ddl, evictions, plan, inserted>>

\* btr_cur_search_to_nth_level: for an insert into a secondary index the leaf is
\* asked for with BUF_GET_IF_IN_POOL; if it is not in the pool, or just being
\* read, the entry is to be buffered.
Search(u) ==
    LET p == Target(u)
        buffer == Head(todo[u]) \in Entries /\ p \in Leaves /\ (~Resident(p) \/ BeingRead(p))
    IN  /\ Go(u, "search", IF buffer THEN "ibuf" ELSE "get")
        /\ UNCHANGED <<fil_vars, pool_vars, ibuf_vars, todo, master, ddl, evictions, plan, inserted>>

\* buf_page_get_gen, a turn of its loop: the page is read, or decompressed, or
\* buffer-fixed.
Get(u) ==
    LET p == Target(u)
    IN  /\ pc[u] = "get"
        /\ \/ InitForRead(p, 0, FALSE) /\ UNCHANGED pc
           \/ p \notin Fixed /\ Unzip(p) /\ UNCHANGED pc
           \/ where[p] = "full" /\ Go(u, "get", "latch") /\ UNCHANGED <<fil_vars, pool_vars>>
        /\ UNCHANGED <<ibuf_vars, todo, master, ddl, evictions, plan, inserted>>

\* The session ends its call.
Return(u, done) ==
    /\ todo' = [todo EXCEPT ![u] = Tail(@)]
    /\ inserted' = inserted \cup done

\* The latch is granted, the page read, or the entry inserted on it.
Access(u) ==
    LET p == Target(u)
        done == {Head(todo[u])} \cap Entries
    IN  /\ Go(u, "latch", "idle")
        /\ IF done = {} THEN Readable(p) ELSE Writable(p)
        /\ Change(p, frame[p] \cup done)
        /\ Return(u, done)
        /\ UNCHANGED <<fil_vars, where, io, born, disk, cached, ibuf_vars, master, ddl, evictions, plan>>

\* ibuf_insert_low: the leaf of the insert buffer tree is latched,
LatchIbuf(u) ==
    /\ ibuf_latch = Nobody
    /\ Go(u, "ibuf", "bitmap")
    /\ ibuf_latch' = u
    /\ UNCHANGED <<fil_vars, pool_vars, buffered, todo, master, ddl, evictions, plan, inserted>>

\* ibuf_bitmap_get_map_page: the bitmap page is read if it has to be.
GetBitmap(p) ==
    LET bm == BitmapOf[p]
    IN  InitForRead(bm, 0, FALSE) \/ (bm \notin Fixed /\ Unzip(bm))

ReadBitmap(u) ==
    /\ pc[u] = "bitmap"
    /\ GetBitmap(Target(u))
    /\ UNCHANGED <<ibuf_vars, pc, todo, master, ddl, evictions, plan, inserted>>

\* Mutant: the pool is not looked at again.
SetBitUnseen(u) ==
    LET p == Target(u) bm == BitmapOf[p]
    IN  /\ Go(u, "bitmap", "buffer")
        /\ Writable(bm)
        /\ Change(bm, frame[bm] \cup {p})
        /\ UNCHANGED <<fil_vars, where, io, born, disk, cached, ibuf_vars, todo, master, ddl, evictions,
                       plan, inserted>>

\* under the latch of the bitmap page it is seen that the page is still not in
\* the pool, and its bit is set,
SetBit(u) ==
    LET p == Target(u) bm == BitmapOf[p]
    IN  /\ Go(u, "bitmap", "buffer")
        /\ Writable(bm)
        /\ ~Resident(p)
        /\ Change(bm, frame[bm] \cup {p})
        /\ UNCHANGED <<fil_vars, where, io, born, disk, cached, ibuf_vars, todo, master, ddl, evictions,
                       plan, inserted>>

\* or that it is, or that the entry may not fit, and the page itself is asked for;
DoNotBuffer(u) ==
    /\ Go(u, "bitmap", "get")
    /\ Readable(BitmapOf[Target(u)])
    /\ ibuf_latch' = Nobody
    /\ UNCHANGED <<fil_vars, pool_vars, buffered, todo, master, ddl, evictions, plan, inserted>>

\* then the entry is inserted into the tree.
Buffer(u) ==
    /\ Go(u, "buffer", "idle")
    /\ buffered' = buffered \cup {Head(todo[u])}
    /\ ibuf_latch' = Nobody
    /\ Return(u, {Head(todo[u])})
    /\ UNCHANGED <<fil_vars, pool_vars, master, ddl, evictions, plan>>

Continue(u) ==
    \/ Search(u) \/ Get(u) \/ Access(u) \/ LatchIbuf(u) \/ ReadBitmap(u) \/ SetBit(u)
    \/ DoNotBuffer(u) \/ Buffer(u)

-----------------------------------------------------------------------------
(* The merge at the end of a read: ibuf_merge_or_delete_for_page *)

OtherThreads == UNCHANGED <<thread_vars, plan, inserted>>

\* Mutant: the merge is not counted.
StartMergeUncounted(p) ==
    /\ p \in Leaves /\ where[p] = "full"
    /\ UNCHANGED <<where, born, dirty, frame, disk, cached, ibuf_vars, fil_vars>>
    /\ OtherThreads
    /\ \/ Advance(p, "loaded", "bitmap") /\ ~space[SpaceOf[p]].stop_ibuf_merges
       \/ Advance(p, "loaded", "delete") /\ space[SpaceOf[p]].stop_ibuf_merges

\* The merge is counted, or the tablespace is being dropped and the entries are
\* only to be deleted.
StartMerge(p) ==
    /\ p \in Leaves /\ where[p] = "full"
    /\ UNCHANGED <<where, born, dirty, frame, disk, cached, ibuf_vars>>
    /\ OtherThreads
    /\ \/ Advance(p, "loaded", "bitmap") /\ CountMerge(SpaceOf[p])
       \/ Advance(p, "loaded", "delete") /\ space[SpaceOf[p]].stop_ibuf_merges /\ UNCHANGED fil_vars

\* Nothing is merged into other pages, and into a page that stays compressed.
NoMergeNeeded(p) ==
    /\ p \notin Leaves \/ where[p] = "zip"
    /\ Advance(p, "loaded", "complete")
    /\ UNCHANGED <<fil_vars, where, born, dirty, frame, disk, cached, ibuf_vars>>
    /\ OtherThreads

ReadBitmapForMerge(p) ==
    /\ io[p] \in {"bitmap", "reset"}
    /\ GetBitmap(p)
    /\ UNCHANGED ibuf_vars
    /\ OtherThreads

\* Without the bit there is nothing to merge.
TestBit(p) ==
    /\ io[p] = "bitmap"
    /\ Readable(BitmapOf[p])
    /\ Advance(p, "bitmap", IF p \in frame[BitmapOf[p]] THEN "merge" ELSE "merged")
    /\ UNCHANGED <<fil_vars, where, born, dirty, frame, disk, cached, ibuf_vars>>
    /\ OtherThreads

MayLatchIbuf(p) == ibuf_latch \in {Nobody, p}

\* An entry is inserted to the page and deleted from the tree, in one
\* mini-transaction, after which the leaf may have been let go of.
MergeEntry(p) ==
    /\ io[p] = "merge"
    /\ MayLatchIbuf(p)
    /\ \E e \in buffered \cap EntriesOf(p) :
           /\ Change(p, frame[p] \cup {e})
           /\ buffered' = buffered \ {e}
    /\ ibuf_latch' \in {Nobody, p}
    /\ UNCHANGED <<fil_vars, where, io, born, disk, cached>>
    /\ OtherThreads

AllMerged(p) ==
    /\ MayLatchIbuf(p)
    /\ buffered \cap EntriesOf(p) = {}
    /\ Advance(p, "merge", "reset")
    /\ ibuf_latch' = p
    /\ UNCHANGED <<fil_vars, where, born, dirty, frame, disk, cached, buffered>>
    /\ OtherThreads

\* The bit is reset before the latches are released.
ResetBit(p) ==
    /\ Advance(p, "reset", "merged")
    /\ Writable(BitmapOf[p])
    /\ Change(BitmapOf[p], frame[BitmapOf[p]] \ {p})
    /\ ibuf_latch' = Nobody
    /\ UNCHANGED <<fil_vars, where, born, disk, cached, buffered>>
    /\ OtherThreads

EndMerge(p) ==
    /\ Advance(p, "merged", "complete")
    /\ UncountMerge(SpaceOf[p])
    /\ UNCHANGED <<where, born, dirty, frame, disk, cached, ibuf_vars>>
    /\ OtherThreads

DeleteInstead(p) ==
    /\ ibuf_latch = Nobody
    /\ Advance(p, "delete", "complete")
    /\ buffered' = buffered \ EntriesOf(p)
    /\ UNCHANGED <<fil_vars, where, born, dirty, frame, disk, cached, ibuf_latch>>
    /\ OtherThreads

\* What goes on with a page that is being read or written.
Proceed(p) ==
    \/ /\ PostRead(p) \/ ReadFile(p) \/ CompleteRead(p) \/ PostWrite(p) \/ WriteFile(p) \/ CompleteWrite(p)
       /\ UNCHANGED ibuf_vars
       /\ OtherThreads
    \/ StartMerge(p) \/ NoMergeNeeded(p) \/ ReadBitmapForMerge(p) \/ TestBit(p) \/ MergeEntry(p)
    \/ AllMerged(p) \/ ResetBit(p) \/ EndMerge(p) \/ DeleteInstead(p)

-----------------------------------------------------------------------------
(* Flushing, eviction, fil_flush *)

WritePage(p) ==
    /\ p \notin Fixed
    /\ StartWrite(p)
    /\ UNCHANGED ibuf_vars
    /\ OtherThreads

EvictPage(p) ==
    /\ evictions < plan.evictions
    /\ evictions' = evictions + 1
    /\ Evict(p, Fixed)
    /\ UNCHANGED <<ibuf_vars, pc, todo, master, ddl, plan, inserted>>

FlushStep(f) ==
    /\ \/ FlushCached(f)
       \/ (RetryFlush(f) \/ EndFlush(f)) /\ UNCHANGED pool_vars
    /\ UNCHANGED ibuf_vars
    /\ OtherThreads

FlushSpace(f) ==
    /\ f \in plan.flushers
    /\ \E s \in Spaces : StartFlush(f, s)
    /\ UNCHANGED <<pool_vars, ibuf_vars>>
    /\ OtherThreads

-----------------------------------------------------------------------------
(* The master thread: ibuf_contract_ext, buf_read_ibuf_merge_pages *)

\* A page is chosen, with the version its tablespace has now, if any.
PickPage ==
    /\ master.at = "idle"
    /\ ibuf_latch = Nobody
    /\ \E e \in buffered :
           LET s == SpaceOf[Home[e]]
           IN  master' = [at |-> "read", page |-> Home[e],
                          version |-> IF Exists(s) THEN space[s].version ELSE 0]
    /\ UNCHANGED <<fil_vars, pool_vars, ibuf_vars, pc, todo, ddl, evictions, plan, inserted>>

\* The page is read, uncompressed, if it is not in the pool; if its tablespace is
\* not there any more, or another one, the entries are to be deleted.
ReadForMerge ==
    /\ master.at = "read"
    /\ LET p == master.page
       IN  \/ InitForRead(p, master.version, TRUE) /\ master' = NoMerge
           \/ Resident(p) /\ Exists(SpaceOf[p]) /\ master' = NoMerge /\ UNCHANGED <<fil_vars, pool_vars>>
           \/ /\ DeletedOrBeingDeleted(SpaceOf[p], master.version)
              /\ ~Resident(p) \/ ~Exists(SpaceOf[p])
              /\ master' = [master EXCEPT !.at = "delete"]
              /\ UNCHANGED <<fil_vars, pool_vars>>
    /\ UNCHANGED <<ibuf_vars, pc, todo, ddl, evictions, plan, inserted>>

DeleteEntries ==
    /\ master.at = "delete"
    /\ ibuf_latch = Nobody
    /\ buffered' = buffered \ EntriesOf(master.page)
    /\ master' = NoMerge
    /\ UNCHANGED <<fil_vars, pool_vars, ibuf_latch, pc, todo, ddl, evictions, plan, inserted>>

Contract == PickPage \/ ReadForMerge \/ DeleteEntries

-----------------------------------------------------------------------------
(* The session that drops, discards and imports, or renames *)

DdlStep(a, b) == ddl = a /\ ddl' = b
DdlOnly == UNCHANGED <<pc, todo, master, evictions, plan>>

StartDdl ==
    /\ Exists(plan.target)
    /\ \A u \in Sessions : pc[u] # "idle" => SpaceOf[Target(u)] # plan.target
    /\ DdlStep("idle", IF plan.ddl = "rename" THEN "rename" ELSE "stop_merges")
    /\ DdlOnly
    /\ UNCHANGED <<fil_vars, pool_vars, ibuf_vars, inserted>>

\* fil_delete_tablespace waits first for the merges,
StopMerges ==
    /\ ~space[plan.target].stop_ibuf_merges \/ NoMerges(plan.target)
    /\ DdlStep("stop_merges", IF NoMerges(plan.target) THEN "stop_io" ELSE "stop_merges")
    /\ StopIbufMerges(plan.target)
    /\ DdlOnly
    /\ UNCHANGED <<pool_vars, ibuf_vars, inserted>>

\* Mutant: only the i/o is waited for, not the flushes.
StopIoOnly ==
    /\ ~space[plan.target].is_being_deleted \/ node[plan.target].n_pending = 0
    /\ DdlStep("stop_io", IF node[plan.target].n_pending = 0 THEN "invalidate" ELSE "stop_io")
    /\ StartDelete(plan.target)
    /\ DdlOnly
    /\ UNCHANGED <<pool_vars, ibuf_vars, inserted>>

\* then for i/o and flushes,
StopIo ==
    /\ ~space[plan.target].is_being_deleted \/ NoIo(plan.target)
    /\ DdlStep("stop_io", IF NoIo(plan.target) THEN "invalidate" ELSE "stop_io")
    /\ StartDelete(plan.target)
    /\ DdlOnly
    /\ UNCHANGED <<pool_vars, ibuf_vars, inserted>>

\* then removes the pages, scanning the list again until none is left,
InvalidateSpace ==
    /\ Invalidate(plan.target, Fixed)
    /\ \/ /\ DdlStep("invalidate", "free")
          /\ \A p \in PagesOf(plan.target) : where'[p] = "out"
       \/ /\ DdlStep("invalidate", "invalidate")
          /\ where' # where /\ \E p \in PagesOf(plan.target) : where'[p] # "out"
    /\ DdlOnly
    /\ UNCHANGED <<ibuf_vars, inserted>>

\* and frees the tablespace.
FreeTablespace ==
    /\ DdlStep("free", IF plan.ddl = "import" THEN "discard" ELSE "done")
    /\ FreeSpace(plan.target)
    /\ inserted' = { e \in inserted : SpaceOf[Home[e]] # plan.target }
    /\ DdlOnly
    /\ UNCHANGED <<pool_vars, ibuf_vars>>

\* ibuf_delete_for_discarded_space, at the end of DISCARD and again in IMPORT
DeleteForDiscarded ==
    /\ ibuf_latch = Nobody
    /\ DdlStep("discard", "import_clean") \/ DdlStep("import_clean", "import")
    /\ buffered' = { e \in buffered : SpaceOf[Home[e]] # plan.target }
    /\ DdlOnly
    /\ UNCHANGED <<fil_vars, pool_vars, ibuf_latch, inserted>>

Import ==
    /\ DdlStep("import", "done")
    /\ NewFile(plan.target)
    /\ DdlOnly
    /\ UNCHANGED <<ibuf_vars, inserted>>

\* fil_rename_tablespace
RenameTablespace ==
    /\ \/ DdlStep("rename", "done") /\ (Rename(plan.target) \/ GiveUpRename(plan.target))
       \/ DdlStep("rename", "rename") /\ ~space[plan.target].stop_ios /\ StopIos(plan.target)
    /\ DdlOnly
    /\ UNCHANGED <<pool_vars, ibuf_vars, inserted>>

Ddl ==
    \/ StopMerges \/ StopIo \/ InvalidateSpace \/ FreeTablespace \/ DeleteForDiscarded
    \/ Import \/ RenameTablespace

-----------------------------------------------------------------------------
Next ==
    \/ \E u \in Sessions : Begin(u) \/ Continue(u)
    \/ \E p \in Pages : Proceed(p) \/ WritePage(p) \/ EvictPage(p)
    \/ \E f \in Flushers : FlushSpace(f) \/ FlushStep(f)
    \/ Contract \/ StartDdl \/ Ddl

Spec == Init /\ [][Next]_vars

\* Threads run and i/o completes; the master thread contracts the insert buffer
\* time and again.
FairSpec ==
    /\ Spec
    /\ \A u \in Sessions : WF_vars(Continue(u))
    /\ \A p \in Pages : WF_vars(Proceed(p))
    /\ \A f \in Flushers : WF_vars(FlushStep(f))
    /\ WF_vars(Contract)
    /\ WF_vars(Ddl)

-----------------------------------------------------------------------------
DdlLabels == {"idle", "stop_merges", "stop_io", "invalidate", "free", "discard", "import_clean",
              "import", "rename", "done"}

\* The type invariant of spaces, pages and threads; as many merges are counted
\* as pages are in one, and the leaf of the insert buffer is latched by one that
\* is there to unlatch it.
TypeOK ==
    /\ PoolTypeOK
    /\ buffered \subseteq Entries
    /\ ibuf_latch \in Sessions \cup Pages \cup {Nobody}
    /\ pc \in [Sessions -> {"idle", "search", "get", "latch", "ibuf", "bitmap", "buffer"}]
    /\ todo \in [Sessions -> Seq(Entries \cup Pages)]
    /\ master.at \in {"idle", "read", "delete"} /\ master.page \in Pages \cup {Nobody}
    /\ ddl \in DdlLabels
    /\ inserted \subseteq Entries
    /\ evictions \in 0 .. plan.evictions
    /\ \A s \in Spaces :
           space[s].n_pending_ibuf_merges =
               Cardinality(PagesIn(s, {"bitmap", "merge", "reset", "merged"}))
    /\ \A u \in Sessions : (ibuf_latch = u) <=> (pc[u] \in {"bitmap", "buffer"})
    /\ \A p \in Pages : ibuf_latch = p => io[p] \in {"merge", "reset"}

\* A page is in the pool only while its tablespace is there and of the version
\* of which the page was read, and it is read or written, or its file flushed,
\* only through an open file: nothing of a tablespace that was dropped, or
\* discarded and imported again, is left or still to come.
FramesAreCurrent ==
    \A p \in Pages :
        LET s == SpaceOf[p]
        IN  /\ Resident(p) \/ io[p] # "none" => Exists(s) /\ born[p] = space[s].version
            /\ io[p] \in {"reading", "writing"} => node[s].open

\* What fil_flush has made the counters say holds: a file with nothing to flush,
\* which may be closed, has no write left in the cache of the operating system.
FlushedIsOnDisk ==
    \A s \in Spaces : Exists(s) /\ ~Unflushed(s) => cached \cap PagesOf(s) = {}

\* Unless the tablespace is being deleted, an entry whose insert has returned is
\* in one place, the insert buffer or its page, wherever merges, writes,
\* evictions and inserts of others have got to; and a page that can be latched
\* has none of its entries still buffered.
InsertsReachTheirPage ==
    /\ \A e \in inserted :
           ~space[SpaceOf[Home[e]]].stop_ibuf_merges => (e \in buffered) # (e \in Content(Home[e]))
    /\ \A p \in Leaves : Readable(p) => buffered \cap EntriesOf(p) = {}

\* fil_space_struct: a merge request for a page of the previous incarnation of a
\* tablespace is ignored.  (What is buffered now is for the new one.)
StaleMergeIgnored ==
    [][/\ master.at = "delete" /\ master'.at = "idle"
       /\ ~DeletedOrBeingDeleted(SpaceOf[master.page], 0)
       => buffered' = buffered]_vars

\* Every call of a session and of the ddl returns, no matter what is merged,
\* written and evicted meanwhile; and the master thread removes what is
\* buffered for a tablespace that has been dropped.
CallsEnd ==
    /\ \A u \in Sessions : pc[u] # "idle" ~> pc[u] = "idle"
    /\ ddl # "idle" ~> ddl = "done"
    /\ \A s \in Spaces : ~Exists(s) ~> (Exists(s) \/ \A e \in buffered : SpaceOf[Home[e]] # s)
=============================================================================
