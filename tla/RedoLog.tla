------------------------------- MODULE RedoLog -------------------------------
(***************************************************************************)
(* The redo log of log0log.c and mtr0mtr.c, the write of dirty pages       *)
(* through the doublewrite buffer of buf0flu.c, checkpoints, and recovery  *)
(* by log0recv.c after a crash of the server or of the operating system.   *)
(*                                                                         *)
(* The unit of the log is the log of one mini-transaction, so that an lsn  *)
(* counts them: the one at lsn i changed the pages log[i], and the first   *)
(* lsn is 1.  A page's content is the set of those applied to it.  Every   *)
(* thread may run mini-transactions, flush batches and checkpoints; the    *)
(* i/o handler threads complete page and checkpoint writes.  A section     *)
(* under log_sys->mutex is one step, but for mtr_commit, which holds it    *)
(* while it puts the pages on the flush list.                              *)
(***************************************************************************)
EXTENDS Integers, Sequences, FiniteSets, SequencesExt

CONSTANTS
    Threads,
    NoThread,
    Io,            \* owner of a page latch that was passed to an i/o handler
    Pages,         \* a set of numbers: pages are latched in this order
    MtrPages,      \* the sets of pages that a mini-transaction may change
    BufSize,       \* log records that fit in the log buffer
    Capacity,      \* log records that fit in the log files
    MaxModifiedAgeAsync, MaxCheckpointAgeAsync, MaxCheckpointAge, \* in log_sys
    DirectIo,      \* innodb_flush_method = O_DIRECT: data files are not cached
    OsCrashes,     \* may the operating system crash, or only the server?
    MaxRecords,    \* bound on the log, less one for each crash there was
    MaxCrashes     \* bound on the number of crashes

ASSUME RedoLogAssumption ==
    /\ NoThread \notin Threads /\ Io \notin Threads /\ NoThread # Io
    /\ Pages \subseteq Nat /\ IsFiniteSet(Pages) /\ IsFiniteSet(Threads)
    /\ BufSize \in Nat /\ BufSize > 0
    /\ MaxModifiedAgeAsync \in Nat /\ MaxCheckpointAgeAsync \in Nat
    /\ MaxCheckpointAge \in Nat /\ Capacity \in Nat
    \* log_calc_max_ages.
    /\ MaxModifiedAgeAsync <= MaxCheckpointAgeAsync
    /\ MaxCheckpointAgeAsync <= MaxCheckpointAge
    /\ Capacity >= MaxCheckpointAge + Cardinality(Threads)
    /\ DirectIo \in BOOLEAN /\ OsCrashes \in BOOLEAN
    /\ MaxRecords \in Nat /\ MaxCrashes \in Nat
    \* What the file cache of the operating system keeps over a crash of the
    \* server alone, and when it is flushed then, is not modelled.
    /\ DirectIo \/ MaxCrashes = 0
    /\ MtrPages \subseteq (SUBSET Pages) \ {{}}

VARIABLES
    \* log_sys
    log, log_mutex, write_lsn, written_to_all_lsn, flushed_to_disk_lsn,
    current_flush_lsn, n_pending_writes, check_flush_or_checkpoint,
    \* log_sys, fields of checkpoints
    last_checkpoint_lsn, next_checkpoint_lsn, next_checkpoint_no,
    n_pending_checkpoint_writes,
    \* the buffer pool
    frame, newest, oldest, flush_list, io_fix, latch, init_flush,
    \* trx_doublewrite and the asynchronous writes under way
    write_buf, posted, io_posted,
    \* what is on files: log, its part safe from a crash of the operating
    \* system, checkpoint fields, pages as the operating system has them,
    \* pages as the disk has them, doublewrite blocks
    file, synced, slots, cache, disk, dblwr, dblwr_synced,
    \* threads: position, and arguments of log_write_up_to
    pc, upto, flush, after, memo,
    \* commits acknowledged, by whether the log was flushed; number of crashes
    acked, crashes

logVars == <<log, log_mutex, write_lsn, written_to_all_lsn, flushed_to_disk_lsn,
             current_flush_lsn, n_pending_writes, check_flush_or_checkpoint>>
ckptVars == <<last_checkpoint_lsn, next_checkpoint_lsn, next_checkpoint_no,
              n_pending_checkpoint_writes>>
poolVars == <<frame, newest, oldest, flush_list, io_fix, latch, init_flush>>
writeVars == <<write_buf, posted, io_posted>>
fileVars == <<file, synced, slots, cache, disk, dblwr, dblwr_synced>>
callVars == <<upto, flush, after>>
threadVars == <<pc, callVars, memo>>
endVars == <<acked, crashes>>
vars == <<logVars, ckptVars, poolVars, writeVars, fileVars, threadVars, endVars>>

Lsn == Len(log) + 1
RecordsOf(p) == {i \in DOMAIN log : p \in log[i]}

\* A page on a file, with its FIL_PAGE_LSN; Torn is one whose checksum is wrong.
Image(p) == [recs |-> frame[p], lsn |-> newest[p]]
Blank == [recs |-> {}, lsn |-> 0]
Torn == [recs |-> {}, lsn |-> -1]
InvalidSlot == [no |-> -1, lsn |-> 0]

\* A database that has just been created, with its two checkpoints.
Init ==
    /\ log = <<>> /\ log_mutex = NoThread
    /\ write_lsn = 1 /\ written_to_all_lsn = 1 /\ flushed_to_disk_lsn = 1
    /\ current_flush_lsn = 1 /\ n_pending_writes = 0
    /\ check_flush_or_checkpoint = TRUE
    /\ last_checkpoint_lsn = 1 /\ next_checkpoint_lsn = 1
    /\ next_checkpoint_no = 2 /\ n_pending_checkpoint_writes = 0
    /\ frame = [p \in Pages |-> {}]
    /\ newest = [p \in Pages |-> 0] /\ oldest = [p \in Pages |-> 0]
    /\ flush_list = <<>>
    /\ io_fix = [p \in Pages |-> FALSE] /\ latch = [p \in Pages |-> NoThread]
    /\ init_flush = NoThread
    /\ write_buf = [p \in Pages |-> Torn] /\ posted = {} /\ io_posted = {}
    /\ file = [i \in 0 .. Capacity - 1 |-> 0] /\ synced = 1
    /\ slots = [i \in {0, 1} |-> [no |-> i, lsn |-> 1]]
    /\ cache = [p \in Pages |-> Blank] /\ disk = [p \in Pages |-> Blank]
    /\ dblwr = [p \in Pages |-> Torn] /\ dblwr_synced = TRUE
    /\ pc = [t \in Threads |-> "idle"] /\ upto = [t \in Threads |-> 0]
    /\ flush = [t \in Threads |-> FALSE] /\ after = [t \in Threads |-> "idle"]
    /\ memo = [t \in Threads |-> {}]
    /\ acked = [flushed |-> 0, written |-> 0] /\ crashes = 0
-----------------------------------------------------------------------------
(* log_write_up_to.                                                        *)

\* Thread t calls log_write_up_to(lsn, .., to_disk) and goes on at label next.
CallWriteUpTo(t, lsn, to_disk, next) ==
    /\ pc' = [pc EXCEPT ![t] = "write_up_to"]
    /\ upto' = [upto EXCEPT ![t] = lsn]
    /\ flush' = [flush EXCEPT ![t] = to_disk]
    /\ after' = [after EXCEPT ![t] = next]

GoTo(t, label) == pc' = [pc EXCEPT ![t] = label] /\ UNCHANGED callVars

\* Thread t has done what it was at; its arguments are forgotten.
Finish(t) ==
    /\ pc' = [pc EXCEPT ![t] = "idle"]
    /\ upto' = [upto EXCEPT ![t] = 0]
    /\ flush' = [flush EXCEPT ![t] = FALSE]
    /\ after' = [after EXCEPT ![t] = "idle"]

EntersLog(t, label) == pc[t] = label /\ log_mutex = NoThread

\* mutant: a log that is written counts as flushed.
LogReachesFile(t) == upto[t] <= written_to_all_lsn

LogReaches(t) ==
    upto[t] <= IF flush[t] THEN flushed_to_disk_lsn ELSE written_to_all_lsn

AlreadyWritten(t) ==
    /\ EntersLog(t, "write_up_to")
    /\ LogReaches(t)
    /\ IF after[t] = "idle" THEN Finish(t) ELSE GoTo(t, after[t])
    /\ UNCHANGED <<logVars, ckptVars, poolVars, writeVars, fileVars, memo, endVars>>

\* A write is running: wait for its end, and return if it writes enough,
\* otherwise try again.
WaitForWrite(t) ==
    /\ EntersLog(t, "write_up_to")
    /\ ~LogReaches(t)
    /\ n_pending_writes > 0
    /\ GoTo(t, IF upto[t] <= IF flush[t] THEN current_flush_lsn ELSE write_lsn
               THEN "wait_return" ELSE "wait_retry")
    /\ UNCHANGED <<logVars, ckptVars, poolVars, writeVars, fileVars, memo, endVars>>

\* The log is a ring of files.
WriteRecords(from, to) ==
    [i \in 0 .. Capacity - 1 |->
        LET new == {j \in from .. to - 1 : j % Capacity = i}
        IN  IF new = {} THEN file[i] ELSE Max(new)]

StartWrite(t) ==
    /\ EntersLog(t, "write_up_to")
    /\ ~LogReaches(t)
    /\ n_pending_writes = 0
    /\ n_pending_writes' = n_pending_writes + 1
    /\ write_lsn' = Lsn
    /\ current_flush_lsn' = IF flush[t] THEN Lsn ELSE current_flush_lsn
    /\ file' = WriteRecords(written_to_all_lsn, Lsn)
    /\ GoTo(t, "flush_file")
    /\ UNCHANGED <<log, log_mutex, written_to_all_lsn, flushed_to_disk_lsn,
                   check_flush_or_checkpoint, ckptVars, poolVars, writeVars,
                   synced, slots, cache, disk, dblwr, dblwr_synced, memo, endVars>>

\* fil_flush, which log_write_up_to does without log_sys->mutex.
FlushFile(t) ==
    /\ pc[t] = "flush_file"
    /\ IF flush[t] THEN synced' = write_lsn /\ flushed_to_disk_lsn' = write_lsn
                   ELSE UNCHANGED <<synced, flushed_to_disk_lsn>>
    /\ GoTo(t, "complete_write")
    /\ UNCHANGED <<log, log_mutex, write_lsn, written_to_all_lsn, current_flush_lsn,
                   n_pending_writes, check_flush_or_checkpoint, ckptVars, poolVars,
                   writeVars, file, slots, cache, disk, dblwr, dblwr_synced, memo,
                   endVars>>

\* log_group_check_flush_completion, log_sys_check_flush_completion and
\* log_flush_do_unlocks: the events are set and all who wait for them go on.
CompleteWrite(t) ==
    /\ EntersLog(t, "complete_write")
    /\ n_pending_writes' = n_pending_writes - 1
    /\ written_to_all_lsn' = write_lsn
    /\ pc' = [u \in Threads |->
                CASE u = t \/ pc[u] = "wait_return" -> after[u]
                  [] u # t /\ pc[u] = "wait_retry" -> "write_up_to"
                  [] OTHER -> pc[u]]
    /\ UNCHANGED <<log, log_mutex, write_lsn, flushed_to_disk_lsn, current_flush_lsn,
                   check_flush_or_checkpoint, ckptVars, poolVars, writeVars,
                   fileVars, callVars, memo, endVars>>

-----------------------------------------------------------------------------
(* Mini-transactions.                                                      *)

\* Thread u has a mini-transaction whose log it has not written yet.
InMtr(u) == pc[u] \in {"latching", "mtr"} \/ (after[u] = "mtr" /\ pc[u] # "note")

\* mutant: a mini-transaction starts without log_free_check.
MtrStartUnchecked(t) ==
    /\ pc[t] = "idle"
    /\ Len(log) + Cardinality({u \in Threads : InMtr(u)}) < MaxRecords - crashes
    /\ \E P \in MtrPages : memo' = [memo EXCEPT ![t] = P]
    /\ GoTo(t, "latching")
    /\ UNCHANGED <<logVars, ckptVars, poolVars, writeVars, fileVars, endVars>>

\* log_free_check lets the thread pass, which then wants to change pages P.
MtrStart(t) ==
    /\ pc[t] = "idle"
    /\ ~check_flush_or_checkpoint
    /\ Len(log) + Cardinality({u \in Threads : InMtr(u)}) < MaxRecords - crashes
    /\ \E P \in MtrPages : memo' = [memo EXCEPT ![t] = P]
    /\ GoTo(t, "latching")
    /\ UNCHANGED <<logVars, ckptVars, poolVars, writeVars, fileVars, endVars>>

Latched(t) == {p \in Pages : latch[p] = t}
NextToLatch(t) == Min(memo[t] \ Latched(t))

\* A page that a thread has latched, or waits for, is buffer-fixed.
Fixed(p) == \E t \in Threads : \/ latch[p] = t
                               \/ pc[t] = "latching" /\ p = NextToLatch(t)

MtrLatch(t) ==
    /\ pc[t] = "latching"
    /\ latch[NextToLatch(t)] = NoThread
    /\ latch' = [latch EXCEPT ![NextToLatch(t)] = t]
    /\ GoTo(t, IF memo[t] \ Latched(t) = {NextToLatch(t)} THEN "mtr" ELSE "latching")
    /\ UNCHANGED <<logVars, ckptVars, frame, newest, oldest, flush_list, io_fix,
                   init_flush, writeVars, fileVars, memo, endVars>>

BufferFull == Lsn - written_to_all_lsn >= BufSize

\* log_reserve_and_open finds the log buffer full and flushes it.
MtrFindsBufferFull(t) ==
    /\ EntersLog(t, "mtr")
    /\ BufferFull
    /\ CallWriteUpTo(t, Lsn, TRUE, "mtr")
    /\ UNCHANGED <<logVars, ckptVars, poolVars, writeVars, fileVars, memo, endVars>>

OldestModification ==
    IF flush_list = <<>> THEN 0 ELSE oldest[flush_list[Len(flush_list)]]

\* The last part of log_close.
MustCheck(lsn) ==
    /\ lsn - last_checkpoint_lsn > MaxModifiedAgeAsync
    /\ \/ OldestModification = 0
       \/ lsn - OldestModification > MaxModifiedAgeAsync
       \/ lsn - last_checkpoint_lsn > MaxCheckpointAgeAsync

\* mtr_commit: mtr_log_reserve_and_write.
MtrWriteLog(t) ==
    /\ EntersLog(t, "mtr")
    /\ ~BufferFull
    /\ log' = Append(log, memo[t])
    /\ log_mutex' = t
    /\ check_flush_or_checkpoint' =
            (check_flush_or_checkpoint \/ MustCheck(Len(log') + 1))
    /\ GoTo(t, "note")
    /\ UNCHANGED <<write_lsn, written_to_all_lsn, flushed_to_disk_lsn,
                   current_flush_lsn, n_pending_writes, ckptVars, poolVars,
                   writeVars, fileVars, memo, endVars>>

\* The pages of P in the order they have in the flush list when mtr_memo_pop_all
\* has put one after the other in front of it, the one that was latched last first.
Dirtied(P) == {q \in SetToSeqs(P) : \A i, j \in DOMAIN q : i < j => q[i] < q[j]}

\* mtr_commit: mtr_memo_pop_all with buf_flush_note_modification, and
\* log_release; then the caller goes on, or commits a transaction and makes
\* the log durable (trx_commit_off_kernel, innodb_flush_log_at_trx_commit).
MtrNote(t) ==
    /\ pc[t] = "note"
    /\ LET start == Len(log)
           clean == {p \in memo[t] : oldest[p] = 0}
       IN  /\ frame' = [p \in Pages |->
                           IF p \in memo[t]
                           THEN frame[p] \cup {start}
                           ELSE frame[p]]
           /\ newest' = [p \in Pages |-> IF p \in memo[t] THEN Lsn ELSE newest[p]]
           /\ oldest' = [p \in Pages |-> IF p \in clean THEN start ELSE oldest[p]]
           /\ \E q \in Dirtied(clean) : flush_list' = q \o flush_list
    /\ latch' = [p \in Pages |-> IF p \in memo[t] THEN NoThread ELSE latch[p]]
    /\ log_mutex' = NoThread
    /\ memo' = [memo EXCEPT ![t] = {}]
    /\ \/ Finish(t)
       \/ \E to_disk \in BOOLEAN : CallWriteUpTo(t, Lsn, to_disk, "ack")
    /\ UNCHANGED <<log, write_lsn, written_to_all_lsn, flushed_to_disk_lsn,
                   current_flush_lsn, n_pending_writes, check_flush_or_checkpoint,
                   ckptVars, io_fix, init_flush, writeVars, fileVars, endVars>>

Ack(t) ==
    /\ pc[t] = "ack"
    /\ acked' = [flushed |-> IF flush[t] THEN Max({acked.flushed, upto[t]})
                                     ELSE acked.flushed,
                 written |-> Max({acked.written, upto[t]})]
    /\ Finish(t)
    /\ UNCHANGED <<logVars, ckptVars, poolVars, writeVars, fileVars, memo, crashes>>

\* log_checkpoint_margin: when the last checkpoint is too old the thread does
\* flush batches and checkpoints before it looks again.
CheckpointMargin(t) ==
    /\ EntersLog(t, "idle")
    /\ check_flush_or_checkpoint
    /\ Lsn - last_checkpoint_lsn <= MaxCheckpointAge
    /\ check_flush_or_checkpoint' = FALSE
    /\ UNCHANGED <<log, log_mutex, write_lsn, written_to_all_lsn, flushed_to_disk_lsn,
                   current_flush_lsn, n_pending_writes, ckptVars, poolVars,
                   writeVars, fileVars, threadVars, endVars>>
-----------------------------------------------------------------------------
(* Flush batches of type BUF_FLUSH_LIST and the doublewrite buffer.        *)

\* buf_flush_batch finds no other batch running.
BatchStart(t) ==
    /\ pc[t] = "idle"
    /\ init_flush = NoThread /\ \A p \in Pages : ~io_fix[p]
    /\ flush_list # <<>>
    /\ init_flush' = t
    /\ GoTo(t, "batch")
    /\ UNCHANGED <<logVars, ckptVars, frame, newest, oldest, flush_list, io_fix,
                   latch, writeVars, fileVars, memo, endVars>>

\* mutant: a batch waits for a latch before it has written what it posted.
TryPageWaits(t) ==
    /\ pc[t] = "batch"
    /\ \E p \in Pages :
        /\ oldest[p] # 0 /\ ~io_fix[p]
        /\ io_fix' = [io_fix EXCEPT ![p] = TRUE]
        /\ memo' = [memo EXCEPT ![t] = {p}]
        /\ IF ~Fixed(p)
           THEN /\ latch' = [latch EXCEPT ![p] = Io]
                /\ CallWriteUpTo(t, newest[p], TRUE, "post")
           ELSE GoTo(t, "latch") /\ UNCHANGED latch
    /\ UNCHANGED <<logVars, ckptVars, frame, newest, oldest, flush_list, init_flush,
                   writeVars, fileVars, endVars>>

\* buf_flush_try_page.  A page that nobody has fixed is latched at once; for
\* another one the posted pages are written first, as their latches may be what
\* its owner waits for.
TryPage(t) ==
    /\ pc[t] = "batch"
    /\ \E p \in Pages :
        /\ oldest[p] # 0 /\ ~io_fix[p]
        /\ io_fix' = [io_fix EXCEPT ![p] = TRUE]
        /\ memo' = [memo EXCEPT ![t] = {p}]
        /\ IF ~Fixed(p)
           THEN /\ latch' = [latch EXCEPT ![p] = Io]
                /\ CallWriteUpTo(t, newest[p], TRUE, "post")
           ELSE /\ pc' = [pc EXCEPT ![t] = "write_dblwr"]
                /\ after' = [after EXCEPT ![t] = "latch"]
                /\ UNCHANGED <<latch, upto, flush>>
    /\ UNCHANGED <<logVars, ckptVars, frame, newest, oldest, flush_list, init_flush,
                   writeVars, fileVars, endVars>>

LatchPage(t) ==
    /\ pc[t] = "latch"
    /\ \E p \in memo[t] :
        /\ latch[p] = NoThread
        /\ latch' = [latch EXCEPT ![p] = Io]
        /\ CallWriteUpTo(t, newest[p], TRUE, "post")
    /\ UNCHANGED <<logVars, ckptVars, frame, newest, oldest, flush_list, io_fix,
                   init_flush, writeVars, fileVars, memo, endVars>>

\* trx_doublewrite->mutex is held by the thread that writes.
DblwrMutexFree == \A t \in Threads : pc[t] \notin {"write_pages", "wait_no_pending"}

\* buf_flush_write_block_low after the log has been written:
\* buf_flush_init_for_writing and buf_flush_post_to_doublewrite_buf.
PostPage(t) ==
    /\ pc[t] = "post" /\ DblwrMutexFree
    /\ write_buf' = [p \in Pages |-> IF p \in memo[t] THEN Image(p) ELSE write_buf[p]]
    /\ posted' = posted \cup memo[t]
    /\ memo' = [memo EXCEPT ![t] = {}]
    /\ GoTo(t, "batch")
    /\ UNCHANGED <<logVars, ckptVars, poolVars, io_posted, fileVars, endVars>>

BatchEnd(t) ==
    /\ pc[t] = "batch"
    /\ init_flush' = NoThread
    /\ pc' = [pc EXCEPT ![t] = "write_dblwr"]
    /\ after' = [after EXCEPT ![t] = "idle"]
    /\ UNCHANGED <<logVars, ckptVars, frame, newest, oldest, flush_list, io_fix,
                   latch, writeVars, fileVars, upto, flush, memo, endVars>>

\* buf_flush_buffered_writes: first the doublewrite blocks, ...
WriteDblwr(t) ==
    /\ pc[t] = "write_dblwr" /\ DblwrMutexFree
    /\ IF posted = {}
       THEN GoTo(t, after[t]) /\ UNCHANGED <<dblwr, dblwr_synced>>
       ELSE /\ dblwr' = write_buf
            /\ dblwr_synced' = FALSE
            /\ GoTo(t, "write_pages")
    /\ UNCHANGED <<logVars, ckptVars, poolVars, writeVars, file, synced, slots, cache,
                   disk, memo, endVars>>

\* ... which are flushed before the pages are handed to the i/o handlers, ...
WritePages(t) ==
    /\ pc[t] = "write_pages"
    /\ dblwr_synced' = TRUE
    /\ io_posted' = posted
    /\ GoTo(t, "wait_no_pending")
    /\ UNCHANGED <<logVars, ckptVars, poolVars, write_buf, posted, file, synced,
                   slots, cache, disk, dblwr, memo, endVars>>

\* ... fil_aio_wait, buf_page_io_complete and buf_flush_write_complete in an i/o
\* handler thread, ...
PageWritten(p) ==
    /\ p \in io_posted
    /\ io_posted' = io_posted \ {p}
    /\ cache' = [cache EXCEPT ![p] = write_buf[p]]
    /\ disk' = IF DirectIo THEN [disk EXCEPT ![p] = write_buf[p]] ELSE disk
    /\ oldest' = [oldest EXCEPT ![p] = 0]
    /\ \E i \in DOMAIN flush_list :
           flush_list[i] = p /\ flush_list' = RemoveAt(flush_list, i)
    /\ io_fix' = [io_fix EXCEPT ![p] = FALSE]
    /\ latch' = [latch EXCEPT ![p] = NoThread]
    /\ UNCHANGED <<logVars, ckptVars, frame, newest, init_flush, write_buf, posted,
                   file, synced, slots, dblwr, dblwr_synced, threadVars, endVars>>

\* ... and fil_flush_file_spaces when they are all written.
SyncPages(t) ==
    /\ pc[t] = "wait_no_pending"
    /\ io_posted = {}
    /\ disk' = cache
    /\ write_buf' = [p \in Pages |-> Torn] /\ posted' = {}
    /\ GoTo(t, after[t])
    /\ UNCHANGED <<logVars, ckptVars, poolVars, io_posted, file, synced,
                   slots, cache, dblwr, dblwr_synced, memo, endVars>>
-----------------------------------------------------------------------------
(* log_checkpoint.                                                         *)

\* The data files are flushed, ...
CheckpointStart(t) ==
    /\ pc[t] = "idle"
    /\ last_checkpoint_lsn < Lsn
    /\ disk' = cache
    /\ GoTo(t, "sample")
    /\ UNCHANGED <<logVars, ckptVars, poolVars, writeVars, file, synced, slots, cache,
                   dblwr, dblwr_synced, memo, endVars>>

\* ... the oldest modification in the pool is read, and the log is written up
\* to it, ...
CheckpointSample(t) ==
    /\ EntersLog(t, "sample")
    /\ CallWriteUpTo(t, IF OldestModification = 0 THEN Lsn ELSE OldestModification,
                     TRUE, "checkpoint")
    /\ UNCHANGED <<logVars, ckptVars, poolVars, writeVars, fileVars, memo, endVars>>

\* ... and the checkpoint field is written, unless another thread has made a
\* later checkpoint, or is writing one.
CheckpointWrite(t) ==
    /\ EntersLog(t, "checkpoint")
    /\ IF last_checkpoint_lsn >= upto[t] \/ n_pending_checkpoint_writes > 0
       THEN UNCHANGED ckptVars
       ELSE /\ next_checkpoint_lsn' = upto[t]
            /\ n_pending_checkpoint_writes' = n_pending_checkpoint_writes + 1
            /\ UNCHANGED <<last_checkpoint_lsn, next_checkpoint_no>>
    /\ Finish(t)
    /\ UNCHANGED <<logVars, poolVars, writeVars, fileVars, memo, endVars>>

NextCheckpoint == [no |-> next_checkpoint_no, lsn |-> next_checkpoint_lsn]

\* log_io_complete and log_complete_checkpoint in an i/o handler thread.  The
\* log may also be flushed by it; a crash may spare any part of the log that
\* is written, so that this makes no difference.
CheckpointWritten ==
    /\ n_pending_checkpoint_writes > 0 /\ log_mutex = NoThread
    /\ n_pending_checkpoint_writes' = n_pending_checkpoint_writes - 1
    /\ slots' = [slots EXCEPT ![next_checkpoint_no % 2] = NextCheckpoint]
    /\ next_checkpoint_no' = next_checkpoint_no + 1
    /\ last_checkpoint_lsn' = next_checkpoint_lsn
    /\ UNCHANGED <<logVars, next_checkpoint_lsn, poolVars, writeVars, file, synced,
                   cache, disk, dblwr, dblwr_synced, threadVars, endVars>>
-----------------------------------------------------------------------------
(* A crash, and recovery.                                                  *)

\* The lsns at which the log on the files may end after a crash.
SurvivingLogs(os) ==
    LET end == IF n_pending_writes > 0 THEN write_lsn ELSE written_to_all_lsn
    IN  IF os THEN synced .. end
              ELSE (IF synced > written_to_all_lsn THEN synced
                    ELSE written_to_all_lsn) .. end

\* A page whose write is under way is on the file as it was, or as it is going
\* to be, or torn.
SurvivingImages(p) ==
    {cache[p]} \cup (IF p \in io_posted THEN {write_buf[p], Torn} ELSE {})

\* So are the doublewrite blocks before they are flushed.
SurvivingCopies(os) ==
    IF os /\ ~dblwr_synced THEN {dblwr, [p \in Pages |-> Torn]} ELSE {dblwr}

SurvivingSlots ==
    IF n_pending_checkpoint_writes = 0 THEN {slots}
    ELSE {[slots EXCEPT ![next_checkpoint_no % 2] = s] :
             s \in {slots[next_checkpoint_no % 2], NextCheckpoint, InvalidSlot}}

\* trx_sys_doublewrite_init_or_restore_pages.
Restored(image, copy) == IF image = Torn THEN copy ELSE image

\* recv_find_max_checkpoint.
MaxCheckpoint(ck) == IF ck[0].no > ck[1].no THEN ck[0] ELSE ck[1]

\* recv_scan_log_recs and recv_parse_log_recs: the end of the last mini-
\* transaction whose log is found whole, from the checkpoint on, when the log
\* on the files ends at lsn k.
Scanned(c, k) ==
    {r \in c .. Max({c, k}) : \A i \in c .. r - 1 : file[i % Capacity] = i}

\* mutant: recovery puts pages on the flush list in the order in which it meets them.
UnsortedByOldest(first) == SetToSeqs({p \in Pages : first[p] # 0})

\* buf_flush_insert_sorted_into_flush_list: pages whose modifications begin at one
\* lsn come in any order.
SortedByOldest(first) ==
    {q \in SetToSeqs({p \in Pages : first[p] # 0}) :
        \A i, j \in DOMAIN q : i < j => first[q[i]] >= first[q[j]]}

\* mutant: records are applied to a page only after the one at its own lsn.
AppliedLater(p, image, from, to) == {i \in RecordsOf(p) : /\ i \in from .. to - 1
                                                          /\ i > image.lsn}

\* recv_recover_page: the mini-transactions on page p from lsn from up to lsn to
\* that its image does not have yet.
Applied(p, image, from, to) == {i \in RecordsOf(p) : /\ i \in from .. to - 1
                                                    /\ i >= image.lsn}

\* recv_recovery_from_checkpoint_start and _finish, with recv_recover_page for
\* each page: base are the pages on the files, k is where the log ends, ck are
\* the checkpoint fields.
Recover(base, k, ck) ==
    LET c == MaxCheckpoint(ck).lsn
        r == Max(Scanned(c, k))
        applied == [p \in Pages |-> Applied(p, base[p], c, r)]
        first == [p \in Pages |-> IF applied[p] = {} THEN 0 ELSE Min(applied[p])]
        no == MaxCheckpoint(ck).no + 1
    IN  /\ log' = SubSeq(log, 1, r - 1)
        /\ log_mutex' = NoThread
        /\ write_lsn' = 0 /\ written_to_all_lsn' = r
        /\ flushed_to_disk_lsn' = 0 /\ current_flush_lsn' = 0
        /\ n_pending_writes' = 0 /\ check_flush_or_checkpoint' = TRUE
        /\ last_checkpoint_lsn' = c /\ next_checkpoint_lsn' = c
        /\ next_checkpoint_no' = no /\ n_pending_checkpoint_writes' = 0
        /\ slots' = [ck EXCEPT ![no % 2] = [no |-> no, lsn |-> c]]
        /\ file' = [i \in DOMAIN file |-> IF file[i] >= r THEN 0 ELSE file[i]]
        /\ synced' = r
        /\ frame' = [p \in Pages |-> base[p].recs \cup applied[p]]
        /\ newest' = [p \in Pages |-> IF applied[p] = {} THEN 0
                                      ELSE 1 + Max(applied[p])]
        /\ oldest' = first
        /\ flush_list' \in SortedByOldest(first)

\* The server, or the operating system with it, stops at any point and starts
\* again; what a write under way leaves behind is one of the Surviving states.
Restart(os) ==
    /\ crashes < MaxCrashes /\ Len(log) < MaxRecords
    /\ crashes' = crashes + 1
    /\ \E k \in SurvivingLogs(os), ck \in SurvivingSlots,
          copies \in SurvivingCopies(os),
          images \in [Pages -> UNION {SurvivingImages(p) : p \in Pages}] :
        /\ \A p \in Pages : images[p] \in SurvivingImages(p)
        /\ LET base == [p \in Pages |-> Restored(images[p], copies[p])]
           IN  Recover(base, k, ck) /\ cache' = base /\ disk' = base
        /\ dblwr' = copies
    /\ dblwr_synced' = TRUE
    /\ acked' = IF os THEN [acked EXCEPT !.written = Min({@, Len(log') + 1})]
                    ELSE acked
    /\ io_fix' = [p \in Pages |-> FALSE] /\ latch' = [p \in Pages |-> NoThread]
    /\ init_flush' = NoThread
    /\ write_buf' = [p \in Pages |-> Torn] /\ posted' = {} /\ io_posted' = {}
    /\ pc' = [t \in Threads |-> "idle"] /\ memo' = [t \in Threads |-> {}]
    /\ upto' = [t \in Threads |-> 0] /\ flush' = [t \in Threads |-> FALSE]
    /\ after' = [t \in Threads |-> "idle"]

Terminated ==
    /\ \A t \in Threads : pc[t] = "idle"
    /\ UNCHANGED vars

Step(t) ==
    \/ AlreadyWritten(t) \/ WaitForWrite(t) \/ StartWrite(t) \/ FlushFile(t)
    \/ CompleteWrite(t)
    \/ MtrStart(t) \/ MtrLatch(t) \/ MtrFindsBufferFull(t) \/ MtrWriteLog(t)
    \/ MtrNote(t) \/ Ack(t) \/ CheckpointMargin(t)
    \/ BatchStart(t) \/ TryPage(t) \/ LatchPage(t) \/ PostPage(t) \/ BatchEnd(t)
    \/ WriteDblwr(t) \/ WritePages(t) \/ SyncPages(t)
    \/ CheckpointStart(t) \/ CheckpointSample(t) \/ CheckpointWrite(t)

IoHandler == CheckpointWritten \/ \E p \in Pages : PageWritten(p)

Crash == Restart(FALSE) \/ (OsCrashes /\ Restart(TRUE))

Next == (\E t \in Threads : Step(t)) \/ IoHandler \/ Crash \/ Terminated

Spec == Init /\ [][Next]_vars
-----------------------------------------------------------------------------
(* Properties.                                                             *)

Images == [recs : SUBSET (1 .. MaxRecords), lsn : -1 .. MaxRecords + 1]

\* The flush list holds the dirty pages, the one with the oldest modification
\* last, where log_checkpoint looks (buf_flush_note_modification under
\* log_sys->mutex, buf_flush_recv_note_modification, buf_flush_remove).
FlushListSorted ==
    /\ {flush_list[i] : i \in DOMAIN flush_list} = {p \in Pages : oldest[p] # 0}
    /\ Len(flush_list) = Cardinality({p \in Pages : oldest[p] # 0})
    /\ \A i, j \in DOMAIN flush_list : i < j =>
        oldest[flush_list[i]] >= oldest[flush_list[j]]

\* The types of the variables, with the assertions of log_write_up_to and
\* log_checkpoint that at most one write of each kind is under way, and the order
\* of the flush list that the checkpoint relies on.
TypeOK ==
    /\ log \in Seq(MtrPages) /\ log_mutex \in Threads \cup {NoThread}
    /\ {write_lsn, written_to_all_lsn, flushed_to_disk_lsn, current_flush_lsn,
        last_checkpoint_lsn, next_checkpoint_lsn, next_checkpoint_no, synced,
        acked.flushed, acked.written, crashes} \subseteq Nat
    /\ n_pending_writes \in {0, 1} /\ n_pending_checkpoint_writes \in {0, 1}
    /\ check_flush_or_checkpoint \in BOOLEAN /\ dblwr_synced \in BOOLEAN
    /\ frame \in [Pages -> SUBSET (1 .. MaxRecords)]
    /\ newest \in [Pages -> Nat] /\ oldest \in [Pages -> Nat]
    /\ flush_list \in Seq(Pages) /\ io_fix \in [Pages -> BOOLEAN]
    /\ latch \in [Pages -> Threads \cup {NoThread, Io}]
    /\ init_flush \in Threads \cup {NoThread}
    /\ posted \subseteq Pages /\ io_posted \subseteq posted
    /\ file \in [0 .. Capacity - 1 -> Nat]
    /\ slots \in [{0, 1} -> [no : Int, lsn : Nat]]
    /\ \A images \in {write_buf, cache, disk, dblwr} : images \in [Pages -> Images]
    /\ pc \in [Threads -> {"idle", "write_up_to", "wait_return", "wait_retry",
                 "flush_file", "complete_write", "latching", "mtr", "note", "ack",
                 "batch", "latch", "post", "write_dblwr", "write_pages",
                 "wait_no_pending", "sample", "checkpoint"}]
    /\ upto \in [Threads -> Nat] /\ flush \in [Threads -> BOOLEAN]
    /\ after \in [Threads -> {"idle", "mtr", "ack", "post", "latch", "checkpoint"}]
    /\ memo \in [Threads -> SUBSET Pages]
    /\ FlushListSorted

\* Pages hold exactly what the log says of them, whenever nobody is between
\* the log and the pages in mtr_commit.  After a crash this is what recovery has
\* to bring about, from any checkpoint field that is whole, any part of the log
\* that survived, and pages that are old, new or torn: a page must not have been
\* written before its log was on the disk (buf_flush_write_block_low).
RecoveryRestores ==
    log_mutex = NoThread => \A p \in Pages : frame[p] = RecordsOf(p)

\* A commit that was acknowledged after its log was flushed is in the log for
\* ever, and one acknowledged after its log was written is unless the operating
\* system has crashed (log_write_up_to).
CommitsSurvive == acked.flushed <= Lsn /\ acked.written <= Lsn

\* What is before the last checkpoint is on the disk: recovery does not look for
\* it in the log (log_checkpoint, buf_pool_get_oldest_modification).
CheckpointCovers ==
    \A p \in Pages : \A i \in RecordsOf(p) :
        i < MaxCheckpoint(slots).lsn => i \in disk[p].recs

\* The log from the last checkpoint on has not been written over by later log in
\* the ring of files, as threads wait in log_checkpoint_margin before they start
\* (log_free_check, log_calc_max_ages).
LogNotOverwritten ==
    \A i \in MaxCheckpoint(slots).lsn .. written_to_all_lsn - 1 :
        file[i % Capacity] = i

\* Recovery has all it needs in the pages on the disk and in the log files,
\* whenever the server stops.
CheckpointSuffices == CheckpointCovers /\ LogNotOverwritten

\* A batch that waits for the latch of a page keeps no latch that would need the
\* batch to go on: the pages it has posted are with the i/o handlers.  Otherwise
\* it and the page's owner could wait for each other (buf_flush_try_page,
\* buf_flush_buffered_writes).
BatchWaitsWithoutLatches ==
    (\E t \in Threads : pc[t] = "latch") =>
        \A p \in Pages : latch[p] = Io => p \in io_posted
=============================================================================
