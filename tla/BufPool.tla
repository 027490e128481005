------------------------------ MODULE BufPool ------------------------------
(***************************************************************************)
(* The pages of single-table tablespaces in the buffer pool (buf/buf0buf.c *)
(* and its companions) and on disk, over FilSpace: reading, writing,       *)
(* eviction, decompression and invalidation.  What a page contains are the *)
(* index entries on it, or for an insert buffer bitmap page the pages it   *)
(* says have buffered entries.                                             *)
(*                                                                         *)
(* A read or write of a page has its phase in io; whether the thread that  *)
(* asked for it or an i/o thread takes a step makes no difference to the   *)
(* page, which is io-fixed and latched from the first phase to the last.   *)
(* The steps of the merge that a read ends with are in PageIo.             *)
(***************************************************************************)
EXTENDS FilSpace

CONSTANTS
    Pages, SpaceOf,     \* and the tablespace of each
    Zip,                \* the tablespaces with compressed pages
    Contents            \* what a page may contain

ASSUME BufPoolAssumption ==
    /\ IsFiniteSet(Pages)
    /\ SpaceOf \in [Pages -> Spaces]
    /\ Zip \subseteq Spaces

VARIABLES
    where,      \* not in the pool, only compressed, or uncompressed
    io,         \* the phase of the read or write the page is io-fixed for
    born,       \* the version of the tablespace when the page came to the pool
    dirty,      \* oldest_modification is not 0
    frame,      \* the contents in the pool
    disk,       \* the contents in the file
    cached      \* the pages whose last write the operating system may still cache

pool_vars == <<where, io, born, dirty, frame, disk, cached>>

\* A read is posted, the file read, the i/o completed, then the buffered inserts
\* are merged: the bitmap is looked at, entries applied, the bitmap reset; or
\* they are only deleted.
ReadPhases == {"read", "reading", "loaded", "bitmap", "merge", "reset", "delete", "merged", "complete"}
WritePhases == {"write", "writing", "written"}

PagesOf(s) == { p \in Pages : SpaceOf[p] = s }
PagesIn(s, phases) == { p \in PagesOf(s) : io[p] \in phases }

PoolInit ==
    /\ where = [p \in Pages |-> "out"]
    /\ io = [p \in Pages |-> "none"]
    /\ born = [p \in Pages |-> 0]
    /\ dirty = {}
    /\ frame = [p \in Pages |-> {}]
    /\ disk = [p \in Pages |-> {}]
    /\ cached = {}

Resident(p) == where[p] # "out"
BeingRead(p) == io[p] \in ReadPhases

\* An uncompressed page that can be latched in s-mode, and in x-mode.
Readable(p) == where[p] = "full" /\ ~BeingRead(p)
Writable(p) == where[p] = "full" /\ io[p] = "none"

Advance(p, from, to) ==
    /\ io[p] = from
    /\ io' = [io EXCEPT ![p] = to]

-----------------------------------------------------------------------------
(* Reading *)

\* Mutant: buf_page_init_for_read without the look at the tablespace.
InitForReadBlindly(p, v, unzip) ==
    /\ ~Resident(p) /\ Exists(SpaceOf[p])
    /\ where' = [where EXCEPT ![p] = IF SpaceOf[p] \in Zip /\ ~unzip THEN "zip" ELSE "full"]
    /\ Advance(p, "none", "read")
    /\ born' = [born EXCEPT ![p] = space[SpaceOf[p]].version]
    /\ UNCHANGED <<fil_vars, dirty, frame, disk, cached>>

\* buf_page_init_for_read: a page that is not in the pool, of a tablespace that
\* is neither deleted nor of another version than v, is x-latched and io-fixed.
\* (The release of the pool's mutex by the buddy allocator is left out.)
InitForRead(p, v, unzip) ==
    /\ ~Resident(p)
    /\ ~DeletedOrBeingDeleted(SpaceOf[p], v)
    /\ where' = [where EXCEPT ![p] = IF SpaceOf[p] \in Zip /\ ~unzip THEN "zip" ELSE "full"]
    /\ Advance(p, "none", "read")
    /\ born' = [born EXCEPT ![p] = space[SpaceOf[p]].version]
    /\ UNCHANGED <<fil_vars, dirty, frame, disk, cached>>

\* fil_io is called, and the file is read.
PostRead(p) ==
    /\ Advance(p, "read", "reading")
    /\ PrepareForIo(SpaceOf[p])
    /\ UNCHANGED <<where, born, dirty, frame, disk, cached>>

ReadFile(p) ==
    /\ Advance(p, "reading", "loaded")
    /\ CompleteIo(SpaceOf[p], "read")
    /\ frame' = [frame EXCEPT ![p] = disk[p]]
    /\ UNCHANGED <<where, born, dirty, disk, cached>>

\* buf_page_io_complete, the end of it
CompleteRead(p) ==
    /\ Advance(p, "complete", "none")
    /\ UNCHANGED <<fil_vars, where, born, dirty, frame, disk, cached>>

\* buf_page_get_gen of a page that is there only compressed: the page goes
\* through the merge once more.
Unzip(p) ==
    /\ where[p] = "zip"
    /\ where' = [where EXCEPT ![p] = "full"]
    /\ Advance(p, "none", "loaded")
    /\ UNCHANGED <<fil_vars, born, dirty, frame, disk, cached>>

-----------------------------------------------------------------------------
(* Writing and eviction; Fixed are the pages that are buffer-fixed *)

\* The page is latched, and changed.
Change(p, contents) ==
    /\ frame' = [frame EXCEPT ![p] = contents]
    /\ dirty' = IF contents = frame[p] THEN dirty ELSE dirty \cup {p}

\* buf_flush_try_page takes the s-latch and copies the page to the doublewrite
\* buffer, after which the write is posted, done, and completed.
StartWrite(p) ==
    /\ p \in dirty
    /\ Advance(p, "none", "write")
    /\ UNCHANGED <<fil_vars, where, born, dirty, frame, disk, cached>>

PostWrite(p) ==
    /\ Advance(p, "write", "writing")
    /\ PrepareForIo(SpaceOf[p])
    /\ UNCHANGED <<where, born, dirty, frame, disk, cached>>

WriteFile(p) ==
    /\ Advance(p, "writing", "written")
    /\ CompleteIo(SpaceOf[p], "write")
    /\ disk' = [disk EXCEPT ![p] = frame[p]]
    /\ cached' = cached \cup {p}
    /\ UNCHANGED <<where, born, dirty, frame>>

CompleteWrite(p) ==
    /\ Advance(p, "written", "none")
    /\ dirty' = dirty \ {p}
    /\ UNCHANGED <<fil_vars, where, born, frame, disk, cached>>

\* buf_LRU_free_block: a clean page leaves the pool; of a compressed page the
\* uncompressed frame may be freed, even if it is dirty.
Evict(p, Fixed) ==
    /\ Resident(p) /\ io[p] = "none" /\ p \notin Fixed
    /\ \/ p \notin dirty /\ where' = [where EXCEPT ![p] = "out"]
       \/ where[p] = "full" /\ SpaceOf[p] \in Zip /\ where' = [where EXCEPT ![p] = "zip"]
    /\ UNCHANGED <<fil_vars, io, born, dirty, frame, disk, cached>>

\* buf_LRU_invalidate_tablespace, one scan of the list
Invalidate(s, Fixed) ==
    LET gone == { p \in PagesOf(s) : io[p] = "none" } \ Fixed
    IN  /\ where' = [p \in Pages |-> IF p \in gone THEN "out" ELSE where[p]]
        /\ dirty' = dirty \ gone
        /\ UNCHANGED <<fil_vars, io, born, frame, disk, cached>>

\* What os_file_flush has flushed.
FlushCached(f) ==
    /\ OsFlush(f)
    /\ cached' = cached \ PagesOf(flushing[f].space)
    /\ UNCHANGED <<where, io, born, dirty, frame, disk>>

\* A new file, as empty as the pages of the one that was there at the start.
NewFile(s) ==
    /\ CreateSpace(s)
    /\ disk' = [p \in Pages |-> IF SpaceOf[p] = s THEN {} ELSE disk[p]]
    /\ cached' = cached \ PagesOf(s)
    /\ UNCHANGED <<where, io, born, dirty, frame>>

\* What a reader of the page would get.
Content(p) == IF Resident(p) /\ io[p] \notin {"read", "reading"} THEN frame[p] ELSE disk[p]

-----------------------------------------------------------------------------
\* As many operations are pending on a file as pages are being read from it or
\* written to it.
PoolTypeOK ==
    /\ FilTypeOK
    /\ where \in [Pages -> {"out", "zip", "full"}]
    /\ io \in [Pages -> ReadPhases \cup WritePhases \cup {"none"}]
    /\ born \in [Pages -> Nat]
    /\ dirty \subseteq Pages
    /\ frame \in [Pages -> SUBSET Contents]
    /\ disk \in [Pages -> SUBSET Contents]
    /\ cached \subseteq Pages
    /\ \A s \in Spaces :
           node[s].n_pending = Cardinality(PagesIn(s, {"reading", "writing"}))
    /\ \A p \in dirty : Resident(p)
=============================================================================
