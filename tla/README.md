# A verification project for the InnoDB plugin

This directory specifies, model-checks and proves parts of the storage engine in
`src/`: InnoDB plugin 1.0.x, written in C. Paths below are relative to `src/`. The
modules are translated from that code; where a comment of the code and the code
disagree, the modules follow the code and the difference is listed under
"Disagreements".

Contents: 1 the system, 2 the modules, 3 the runs and their bounds, 4 fairness,
5 proofs, 6 disagreements found, 7 abstractions, 8 what is not modelled, 9 the plan.

## 1. The system

InnoDB runs inside a MySQL server. Session threads call it through the handler;
it has threads of its own: i/o handlers, the master thread (flushing, purge, insert
buffer merges), the lock timeout thread and the error monitor. All of them share the
state below, under latches of the first group.

### Synchronisation: `sync/`, `os/os0sync.c`

* *State.* A mutex has a word set by an atomic test-and-set (here: the trylock of an
  OS mutex, and `lock_word` stored while it is held), a `waiters` flag and an event.
  An rw-lock has `writer`, `reader_count`, `writer_count`, `writer_thread`, `pass`,
  `waiters` and an event, all under a mutex of its own. The wait array has a cell for
  each thread that may be suspended. An event has a flag and a signal counter.
* *Operations.* `mutex_enter`, `mutex_exit`; s- and x-lock with and without wait,
  unlock, recursive x-locks, passing a latch to another thread, moving its ownership;
  reserving, waiting in and freeing a cell; set, reset and wait of an event; the
  rescan of the array by the error monitor.
* *Hard.* Every word is read and written by threads that hold nothing; a wake-up can
  be lost between the reservation of a cell and the wait, or between the reset of the
  lock word and the read of `waiters`, which a processor may reorder. The writer that
  waits for readers reserves the lock and sleeps while others come.
* *Correct when* at most one thread owns a mutex; the fields of an rw-lock say who
  holds it; nobody sleeps without someone who is going to signal; every call returns;
  cells do not run out.

### Locks and transactions: `lock/`, `trx/trx0trx.c`, parts of `row/` and `srv/`

* *State.* Lock structs, each on the queue of a table or the hash chain of a page and
  on the list of its transaction; for each transaction its state, its one waiting
  request, the victim flag and error state; a slot for each suspended session.
* *Operations.* Lock checks of reads, updates, delete-marks and inserts; implicit
  locks (the transaction that wrote a record owns it without a struct) and their
  conversion; enqueueing and the deadlock check; grant, cancel, timeout; inheritance
  of gap locks when records come and go; moving of locks when a record is replaced or a page
  is reorganised, split, merged or discarded; release at commit; unlock of rows at READ
  COMMITTED.
* *Interaction.* `kernel_mutex` protects all of it. Page latches order the change of
  a record against the check of its lock. Sessions sleep in slots of `srv0srv.c`.
* *Hard.* The release of locks and the deadlock check hold `kernel_mutex` for long, and
  the former lets go of it in the middle. A request can be granted, cancelled, timed
  out and chosen as a victim in any order while its session is on its way to sleep. While a
  record is replaced its locks are kept on the infimum of the page, and the gaps around it
  may become those of another page before they are restored.
* *Correct when* granted locks are compatible, nobody waits for nothing, no cycle of
  waits survives, what a locking read has seen stays so.

### Multiversioning: `read/`, `row/row0vers.c`, `trx/trx0rec.c`, `trx0undo.c`, `trx0roll.c`, `trx0purge.c`, `row/row0umod.c`, `row0uins.c`, `row0purge.c`

* *State.* The list of open read views; in each record the id of its writer and a
  pointer to an undo record; undo logs; the history list of committed logs; the
  position and view of purge.
* *Operations.* Open, copy and close of views; consistent read; change of a record
  with its undo record; rollback, full or to a savepoint; commit: draw a number, enter
  the history list, become visible; purge: choose the next log and record, remove
  delete-marked records, truncate the history.
* *Interaction.* `kernel_mutex` for ids, numbers and views, the mutex of the rollback
  segment for the history list, the latch of `purge_sys` for the purge view, page
  latches for records. These are different locks, taken one after the other.
* *Hard.* Number, history list and visibility change in three steps; rollback and
  purge meet on the same delete-marked record; undo numbers are given out again.
* *Correct when* a view reads the same rows until it closes, purge removes nothing
  a view can read, and garbage does not stay for ever.

### Redo log, flushing and recovery: `mtr/`, `log/`, `buf/buf0flu.c`, `trx/trx0sys.c`

* *State.* `log_sys`: the log buffer and how far it is written (`written_to_all_lsn`),
  being written (`write_lsn`) and flushed, the last checkpoint and the next one, the flag
  `check_flush_or_checkpoint`. In each page its newest and oldest modification; the flush
  list; `io_fix` and the page latch; the doublewrite buffer. On files: the ring of the log,
  two checkpoint fields, the pages, the doublewrite blocks.
* *Operations.* Commit of a mini-transaction, `log_write_up_to`, `log_free_check`, flush
  batches, completion of an i/o, checkpoints; after a crash: choice of the checkpoint,
  repair of torn pages, scan of the log, application of records.
* *Interaction.* `log_sys->mutex` orders the log and the flush list; page latches order
  modifications and writes, and pass from the batch to the i/o handler; the mutex of the
  doublewrite buffer. A commit of a transaction waits in `log_write_up_to`.
* *Hard.* A checkpoint has four steps and pages come and go at the flush list between
  them; a thread waits for another one's log write, which may cover less than it needs; a
  crash may cut any of three kinds of writes short; a batch waits for latches while it has some.
* *Correct when* a page is written after its log, an acknowledged commit survives, the
  log from the last checkpoint on is there, and recovery restores the pages exactly.

### Sessions, tickets and the two logs: `handler/ha_innodb.cc`, `srv/srv0srv.c`, `trx/trx0trx.c`

* *State.* The counter of threads inside InnoDB, the FIFO queue of slots, and in each
  transaction whether it is counted and how many free tickets it has; the mutex that a
  session keeps from its prepare to its commit; the counter of committing threads; the state
  of the undo log of each transaction in the redo log; the binary log of the server.
* *Operations.* Entering and leaving InnoDB around a row operation, leaving and coming back
  around a lock wait; prepare, commit and rollback; after a crash, rollback of what was active
  and the decision, by the coordinator or the user, about what was prepared.
* *Interaction.* A commit waits in `log_write_up_to`; a lock wait gives the place inside away.
* *Hard.* A place is given to a sleeping thread by the one that leaves, which signals it after
  it has let go of the mutex. Two logs are written one after the other, and a crash may come
  between any two writes.
* *Correct when* the counters are exact, every call returns, what a client was told survives,
  and the two logs agree on which transactions are committed and in which order.

### Pages, files and the insert buffer: `buf/`, `fil/`, `ibuf/`

* *State.* In each tablespace the flags by which a deletion or rename stops others and the
  counts of what is pending; in each file whether it is open and what of it is written and
  flushed; in the pool, the blocks with `io_fix`, latch and fix count; the tree of buffered
  inserts and for each leaf page the bit that says it has some.
* *Operations.* Read of a page with decompression and merge; write; eviction; `fil_flush`;
  buffering of an insert; contraction by the master thread; drop, discard, import and rename.
* *Interaction.* The mutexes of the pool, of `fil_system` and of the insert buffer are never
  held over an i/o; what keeps a page or a tablespace during it are `io_fix` and the counts.
* *Hard.* A page is read, its inserts are merged and others buffered for it while it is
  written, evicted, or its tablespace dropped and another one imported in its place.
* *Correct when* no page of a tablespace that is gone stays in the pool or is written, every
  buffered insert is applied exactly once, and what is said to be flushed is on the disk.

### The adaptive hash index: `btr/btr0sea.c`, `ha/ha0ha.c`, `btr/btr0cur.c`, parts of `row/` and `buf/`

* *State.* A hash table from folds of search tuples to records; in each block whether it is hashed
  and by which prefix and side; in the index, the recommended ones, without any latch; one
  rw-lock, `btr_search_latch`; the latches of pages and of the index.
* *Operations.* Guess of a position and its check; build, drop, move and correction of the hash
  index of a page; the shortcut of consistent reads, which keeps the latch over calls.
* *Interaction.* Every search, insert, delete, update, reorganisation, split, merge and eviction.
* *Hard.* What was found is used after the latch is let go of; folds are computed without it;
  page latches and the search latch are asked for in both orders.
* *Correct when* a node points to a record with its fold, a guess that is taken is where the search
  would have ended, and every call returns.

### Other parts

* *Space* (`fsp/`, `fut/`): extents and segments. Correct when no page has two owners.
* *Pages, records and upper levels of the B-tree* (`btr/`, `page/`, `rem/`): order of records.
* *Server* (`srv/`, `thr/`, `que/`): the rest of the master thread, query threads.
* *Dictionary* (`dict/`), the rest of the *handler* (`handler/`), *fast index creation*
  (`row/row0merge.c`), *parser* (`pars/`, `eval/`), *memory and utilities* (`mem/`,
  `dyn/`, `ut/`, `mach/`, `data/`).

`PROJECT.json` lists all of them, with what is and is not modelled, and the hazards
of the code by line, each with the properties that cover it.

## 2. The modules

| Module | Stands for |
|---|---|
| `OsEvent` | the event of `os0sync.c`, as functions on a value |
| `IbMutex` | `mutex_enter`/`mutex_exit`, wait array and error monitor, one access to a shared word per step |
| `AbstractLock` | what a mutex promises: one owner, and free between two owners |
| `RwLock` | `sync0rw.c`, `sync0rw.ic`: one section under `lock->mutex` per step |
| `AbstractRwLock` | what an rw-lock promises: readers or one writer, recursion, passing |
| `LockQueue` | the low-level functions of `lock0lock.c`, as operators on a sequence of lock structs |
| `LockSys` | transactions that lock, wait, deadlock, time out, change rows and end, in pages that split and merge |
| `Mvcc` | views, versions, undo, commit, rollback and purge |
| `RedoLog` | mini-transactions, log writes, flush batches, doublewrite, checkpoints, crash and recovery |
| `SrvConc` | tickets and the queue of `srv0srv.c`, as operators |
| `TwoPhase` | sessions of the handler over `SrvConc`: row operations, lock waits, commit with and without the binary log, crash and recovery of prepared transactions |
| `FilSpace` | tablespaces and files of `fil0fil.c`, as operators |
| `BufPool` | pages in the pool and on disk, as operators over `FilSpace` |
| `PageIo` | the threads over `BufPool`: inserts and reads, merges, the insert buffer, flushes, drop, import, rename |
| `SearchSys` | the adaptive hash index, and the searches, changes, splits, merges and evictions that meet there |
| `MCIbMutex`, `MCRwLock`, `MCLockSys`, `MCMvcc`, `MCRedoLog`, `MCTwoPhase`, `MCPageIo`, `MCSearchSys` | symmetry sets and plans for TLC |
| `IbMutexProofs`, `RwLockProofs` | theorems and their proofs |
| `TwoPhaseProofs` | the inductive invariant of `TwoPhase` with the lemmas about the operators of `SrvConc` and what steps change; the theorems |
| `SearchSysProofs` | the inductive invariant of `SearchSys` with a lemma for what each action changes and lemmas about places in a page and in the tree; the theorems |
| `RedoLogProofs` | the inductive invariant of `RedoLog` with lemmas about the ring of files, the flush list and checkpoints; a lemma for each action and for recovery, and the theorems |
| `LockSysProofs` | the functions of `LockQueue` on any lock table, the inductive invariant of `LockSys`, a lemma for each action, and the theorems |
| `MvccProofs` | the inductive invariant of `Mvcc`, lemmas about views, changes, undo and chains of versions, a lemma for each action, and the theorems |
| `PageIoProofs` | the inductive invariant of `PageIo`, lemmas about the operations of `FilSpace` and about counts, a lemma for each action, and the theorems |

An operator with a comment that begins with `mutant:` is not part of a specification:
it is the form a plausible bug would give the definition below it, and serves to show
that the property aimed at it can fail.

`IbMutex`, `LockSys`, `TwoPhase`, `PageIo` and `SearchSys` have a constant `Plans` and a variable `plan`, chosen at
the start and never changed: a plan says which sessions take part and what they do, so
that one run checks several small instances.

**Synchronisation.** `IbMutex` has a label per point of `mutex_spin_wait` and `mutex_exit`
at which a thread can be interrupted between two accesses to shared words: `TestAndSet`
and `SetLockWord` are the two halves of `mutex_test_and_set`, `ReserveCell` and
`ResetEvent` the two of `sync_array_reserve_cell` (the event is reset after the array has
been released), `ClearWaiters` and `SetEvent` those of `mutex_signal_object`.
`SpeculateRead` is the read ahead of time that the comment in `mutex_exit` worries about. In
`RwLock` a section under `lock->mutex` is one step: that this is sound is what `IbMutex`
shows of the mutex. Its variables are the fields of the lock, and beside them what threads
hold (`s_held`, `x_held`, and `s_passed`, `x_passed` for locks taken with a pass value),
which nobody stores in the code and which the properties compare with the fields. The two
are *not* composed into one state space; the abstraction of the mutex to atomic sections is
the interface. Both are shown to implement an abstract lock (`LockSpec`, `AbstractSpec`).

**Lock system.** The three lists a lock struct is on only ever append at the end and
remove, so one sequence in the order of creation, `locks`, represents them. A call under one
hold of `kernel_mutex` is one action. The variable `kernel` says who keeps it between two
actions: `StartLockWait`, `VictimIsOther`, `VictimIsStart` and `GrantedMeanwhile` are the
iterations and outcomes of `lock_deadlock_occurs`, `ReleaseLock` an iteration of
`lock_release_off_kernel`. `request` is the row operation that holds the page latch, between
its lock check and `Insert` or `UpdateInPlace`. A waiting session goes through `TO_SUSPEND` and `SUSPENDED`
of `thr`, the interval between `DB_LOCK_WAIT` and the slot being where cancellation, grant
and semi-consistent reads interleave. `rows` and `undo` keep of the rows what locks need: who
wrote last, and whether the record is delete-marked. `tree` says which leaf pages there are
and where the first one ends. An insert or update that does not fit is `Split` and then
`Insert`, or `StoreOnPageInfimum`, `Split` and `RestoreFromPageInfimum`; a delete may leave a
page to be merged or discarded, and `Compress` is the merge of `btr_compress` in an operation
of its own. What these do to locks are the operators of `LockQueue` that have the names of
`lock_update_split_right`, `lock_move_rec_list_end` and so on.

**Multiversioning.** `Mvcc` keeps a version as the pair of writer and undo number, which is
what `DB_TRX_ID` and `DB_ROLL_PTR` are, and follows undo records back as
`row_vers_build_for_consistent_read` does. Commit is `AssignNo`, `AddToHistory`,
`CommitInMemory`, with the mutex of the rollback segment in between (`rseg_mutex`). Purge
is `StartBatch`, `FetchNextRec`, `RowPurge`, `TruncateHistory`; `rseg_last` is
`rseg->last_page_no` and the fields beside it. `UndoRecord` is one round of `row_undo`, which
either pops the top record or continues with the previous version of the row it has just
restored. Row locks appear only as the condition `Lockable` that a changed row is not changed
by another active transaction; that they hold it is `ImplicitLockExclusive` of `LockSys`.

**Redo log.** `RedoLog` counts lsns in mini-transactions and a page holds the set of those
applied to it, so "the page is what the log says" is an equation of sets (`RecoveryRestores`).
Every thread may be a session, the master thread or a purge thread; `pc` is where it is, and
`upto`, `flush` and `after` are the arguments of its call of `log_write_up_to` and where it
returns to. `AlreadyWritten`, `WaitForWrite`, `StartWrite`, `FlushFile` and `CompleteWrite` are
the sections of that function; `MtrWriteLog` and `MtrNote` the two halves of `mtr_commit`
between which it keeps the log mutex; `TryPage`, `LatchPage`, `PostPage`, `WriteDblwr`,
`WritePages` and `SyncPages` a batch; `PageWritten` and `CheckpointWritten` run in the i/o
handlers; `CheckpointStart`, `CheckpointSample` and `CheckpointWrite` are `log_checkpoint`.
`cache` and `disk` are the data files as the operating system and as the disk has them,
`file` and `synced` the same for the log. `Restart` is a crash at any point, with every state
the interrupted writes may leave behind, and recovery. `Mvcc` and `LockSys` rest on it only
in that a commit is one mini-transaction; they are not composed with it.

**Two-phase commit.** In `TwoPhase` the label `pc` of a session follows its calls of the
handler: `Enter`, `SleepOnce` and `WakeInQueue` are `srv_conc_enter_innodb`; `MustWait`,
`Suspend` and `LockWaitEnds` a lock wait, in which the place inside is given away; `Prepare` and
`PrepareFlush` are `innobase_xa_prepare`, and `LockPrepareCommit` the mutex it takes;
`WriteBinlog` is external; `StartCommit`, `Finish` and `FinishFlush` are `innobase_commit`. `redo`
is the sequence of the records that decide about transactions and `written` how much of it is
sure to survive; that this is what `log_write_up_to` guarantees is `CommitsSurvive` of `RedoLog`.
`Crash` keeps any prefix of at least that length and `RecoverXid` and `UserEndsXid` end what is
prepared in it. The sections under `srv_conc_mutex` are operators of `SrvConc`, and `SetEvent`,
the signal after that mutex is released, is a step of its own.

**Pages and files.** `io` is the phase of the read or write a page is io-fixed for. `PageIo`
moves it on by `Proceed`, whichever thread does this in the code. `Search`, `Get` and `Access`
are a session that looks for a page; `LatchIbuf`, `ReadBitmap`, `SetBit` and `Buffer` are
`ibuf_insert_low`; `StartMerge` to `EndMerge` `ibuf_merge_or_delete_for_page`; `PickPage`,
`ReadForMerge` and `DeleteEntries` the contraction; `StopMerges`, `StopIo`, `InvalidateSpace` and
`FreeTablespace` `fil_delete_tablespace`, then `DeleteForDiscarded` and `Import`. `born` of a page
is the version of its tablespace when it was read, which the code does not keep in the page and
the properties compare. Redo and crashes are those of `RedoLog`, of which this is no part.

**Adaptive hash index.** A section of `btr0sea.c` under `btr_search_latch` is a step: `Lookup`, `FindBlock`
and `LatchBlock` are the three of `btr_search_guess_on_hash`, between which the s-latch is kept, but
not the page: `LatchBlock` may latch a block the record is not in, and then the session is at `astray`
(disagreement 3), where the model leaves it;
`DropCheck` and `Drop` the two of `btr_search_drop_page_hash_index`, between which it is not; `BuildOn`
and `Build` those of `btr_search_build_page_hash_index`. `cur[p].next` is where a thread goes on after
a drop, which searches, splits and evictions have in common. `search_s` are those who have the latch in
s-mode, `search_x` its writer, who may still wait for them (`Reserve`), as in `RwLock`. A pointer to a
record is a frame, a key and a bit `heap` that changes when the page is reorganised, so that one
to its old place is recognised. The pool is a few frames and what is read into them; the i/o
itself is that of `PageIo`. `Fold` gives the fold of a key by each prefix; that keys share
one is what makes runs of equal folds, of which the first or last is hashed.

## 3. The runs

The runs use the smallest sets in which the cases a property is about can happen. Every
property of a passing run has a mutant: with that change to the specification the
same run finds the property violated, so the case does happen within the bounds.

| Run | What it asks | Bounds |
|---|---|---|
| `mutex` | no lost wake-up, cells, every call returns, refinement of the abstract lock | two plans: 3 threads (owner, sleeper, competitor) without the monitor, 2 retries for the code's 4, one call each; 2 threads on a machine that reads `waiters` ahead of time, where a wake-up may be lost and the monitor repairs it, 2 calls each, at most 5 signals |
| `rwlock` | the fields match the holders, reservations are live and kept, no lost wake-up, every call returns, refinement | 3 sessions and an i/o thread: a reader, a writer waiting and one more; 1 call each, x-lock depth 2 |
| `lock_rows` | locks exclude, nobody waits for nothing, no cycle, repeatable locking reads, no lock left behind | three plans on three keys: 3 transactions of one statement and search depth 0, so that too-long searches happen; 2 of two statements, one at READ COMMITTED, with timeouts and release interval 1; a reader and a writer of two statements in at most two pages that split, merge and are reorganised |
| `lock_tables` | every lock wait ends without timeouts | 3 transactions of two statements, one of which is not to be chosen as a victim, table locks in modes S and AUTO-INC, release interval 1 |
| `mvcc_live` | snapshots of a session that also writes and of a cursor view, the orders of numbers, history and views, partial rollback, and everything is purged in the end | 2 writers of two changes each on one record, one of them with a cursor view, the other with a read view |
| `redo` | log before page, checkpoints, log space, latches of batches, durability, recovery | 2 threads, 2 pages, mini-transactions of one and of both, a log buffer and log files of 2, 3 mini-transactions, one crash |
| `redo_cache` | disagreement 1 | as `redo`, without a crash, data files in the file cache |
| `two_phase` | the two logs agree and keep one order, promises are kept, places and committing threads are counted, every call returns | eight plans: three sessions and one place; no slot to wait in; a limit that changes and free tickets; a replication thread; two sessions that commit in two phases with two crashes; the same beside a user's own prepare; three such sessions, with and without a crash |
| `page_io` | frames and files are of one version, nothing is said to be flushed that is not, buffered inserts reach their page, every call ends | seven plans: inserts into a leaf with evictions, compressed or not; inserts and a drop, compressed or not; a discard and import with flushes; inserts in turn with two flushing threads; two tablespaces of which one file may be open, with a rename |
| `search` | nodes are valid, guesses are right, what a shortcut reads is not written, every call returns | five plans for two sessions of at most two calls on three keys, two folds, two frames: guesses, an insert and an eviction; shortcut reads, updates and deletes and an eviction; guesses, an insert and a split with two sets of parameters; two leaves that are emptied, merged or discarded; searches only, whose builds and drops of one page cross |
| `search_astray` | disagreement 3 | as `search` |
| `page_import` | disagreement 2 | an insert before and one after a discard and import |

Why the bounds are enough. The mutex and the rw-lock do not tell threads apart, and
what the runs check of their safety is proved for any number of threads and calls
(section 5). A violation in the lock queues is between a request, one it conflicts with, and
one whose release or inheritance changes the queue, hence three transactions or two with two
requests; a gap is split by one key and bounded by another, hence three keys and the
supremum. A split or merge has to do with the last record of one page and the first of the
next, hence two pages and at most three records. A wrong version is read when a writer, a view and purge disagree; with a second writer
the version read is that of an older transaction in the chain. In `redo` the log wraps round its
files and fills its buffer with the third mini-transaction; a page that is modified while it is
being written, a page with an older image than the one beside it, and one thread each in the
batch and in a mini-transaction need no more than two threads and pages; after the crash the
recovered system goes on with one mini-transaction less for every crash, so that its flush list
and checkpoints are those of recovery. The order of two logs takes two transactions, and a
third that has a savepoint of the binary log of its own; a place inside is given to one
thread by another while a third one comes. A buffered insert is lost or merged twice between two
inserts, a read and a write of one page; an i/o meets at most one deletion. What `mvcc_live` checks of
safety is proved for any number of transactions and keys. A stale node or guess is
between one thread that uses it and one that changes the page, and a run of equal folds
needs two keys beside a third. `MaxStatements`, `MaxOps`,
`MaxRounds` and `MaxSignals` bound what has no bound in the code; a transaction or thread
that has used up its calls still finishes what it has begun. `ReleaseInterval` stands for
`LOCK_RELEASE_KERNEL_INTERVAL` (1000), `MaxSearchDepth` for
`LOCK_MAX_DEPTH_IN_DEADLOCK_CHECK` (200), `NCells` for the length of the wait array,
`Capacity` and `BufSize` for the sizes of log files and log buffer; `MaxRecords` bounds the
log and `MaxCrashes` the crashes.

Deadlock (a state without a step) is checked in every run but `mutex`, where
the bound on the monitor's signals leaves a sleeper whose wake-up was lost without help
(`EnterReturns` says that nobody is left before), and those of
`TwoPhase`, `PageIo` and `SearchSys`, whose threads stop when the plan has nothing more for them to do:
there `CallsReturn` and `CallsEnd` say that none stops before. The other
specifications have a step `Terminated` for the state in which all have finished, so that
TLC's deadlock check says that nothing gets stuck before.

## 4. Fairness

* `IbMutex`: weak fairness of each thread that is inside a call, strong fairness of the steps
  that take the mutex of the wait array (the OS mutex is free infinitely often and does not
  starve a thread for ever), weak fairness of the monitor. That a thread that owns the mutex
  exits it is code: every `mutex_enter` is followed by a `mutex_exit`. Nobody is obliged to
  call `mutex_enter`.
* `RwLock`: weak fairness of every thread that is in a call or holds a lock; a
  mini-transaction releases its latches at its commit, and the i/o handler completes requests.
  Requests carry no fairness.
* `LockSys`: what the code goes on with by itself (`Proceed`) is weakly fair, and a session
  that does not wait ends its transaction some day; a deadlock victim rolls back, because the
  code does this by itself (`row_mysql_handle_errors`). No fairness of timeouts: the claim is
  that waits end without them.
* `Mvcc`: a step that the code goes on with is weakly fair, and so is purge, which the master
  thread calls again and again. A session closes its cursor and commits some day. The commit
  is strongly fair because it is disabled while a cursor is open. This is an assumption on the
  server, not on the code: with a session that never ends, history is never purged.
* `LockSys` also: a page operation that has begun (`Compress`) is finished.
* `TwoPhase`: threads run, users end the transactions they have begun or prepared, and a server
  that has crashed is started again. Nobody is obliged to begin, and no crash has to happen.
* `PageIo`: threads run and i/o completes; the master thread contracts the insert buffer time and
  again; a DDL statement that has begun goes on. Reads, writes, evictions and flushes of
  others carry no fairness of their own.
* `SearchSys`: threads go on with what they have begun, and the thread that evicts too. Weak fairness
  is enough, for the calls of a plan are bounded: a latch that is asked for comes free for good.
  Nobody is obliged to begin a call or an eviction; a session that is idle gives up a search latch it
  has kept, as the handler does at the end of a statement.

## 5. What is proved

`IbMutexProofs`, for any number of threads, cells, retries and rounds, under the named
assumptions of the module (there is a cell for every thread, `CellsAssumption`):

* `TypeCorrect`, `Exclusion`. `MutualExclusion` is inductive given the types: the OS mutex is
  held exactly while a thread is at a label of `OwnerLabels`.
* `CellsOwned`, `CellsSuffice`. `CellInv` says of each label whether the thread has a cell; as
  threads and reserved cells correspond one to one, and the thread that looks for a cell has
  none, a free one is left (counting with `FS_Injection` and friends).
* `WakeupNotLost`, for plans without reads ahead of time (`~plan.speculative`): `LEMMA 1` and
  `LEMMA 2` of the comment at the head of `sync0sync.c`. `NoLostWakeup` alone is not
  inductive. `SignalInv` adds that the count a thread remembers is at most that of the event,
  and smaller while the event is set, so that a signal after the reset is never overlooked;
  and that a thread in its retries finds `waiters` set or a signaller, so that when its last
  retry fails, whoever holds the mutex has yet to read `waiters`.
* `ImplementsLock`: every step is one of `AbstractLock` or leaves the owner alone.

`RwLockProofs`, for any number of threads and any depth of recursion:

* `LockInvariant`, `FieldsCorrect`, `TypeCorrect`. `FieldsMatchHolders` needs `OwnerInv` (with
  `pass = 0` the field `writer_thread` is the holder) and `CallInv` (a thread that requests
  holds no s-lock): without the former a recursive x-lock could be granted to a stranger.
* `ReservationIsLive`, `ReservationIsKept`: nobody overtakes the writer that waits for readers.
* `WakeupNotLost`: as for the mutex, but `waiters` is set under `lock->mutex` and the lock is
  tried under the same hold, so no retries are needed.
* `ImplementsAbstract`.

`TwoPhaseProofs`, for any number of sessions, rows, statements, commits, crashes and
every plan of the type `PlanType`; the sessions are finitely many (`SrvConcAssumption`), for they are
counted:

* `InductiveInvariant`. `IInv` has fourteen named parts. `Tickets` is `PlacesCounted` with what makes
  it inductive: nobody is in the queue twice (`QueuedOnce`), and a slot is signalled by one thread
  at most, which has let it in (`SignalsOwed`). `Whereabouts`, `Course` and `MutexHeld` say of each label
  of a session whether it is inside, in a lock wait, between prepare and commit, and has
  `prepare_commit_mutex`. The others relate the sessions to the two logs.
* `TypeCorrect`: the counter of `srv_conc_enter_innodb` is what it should be (`PlacesCounted`), and so is
  `commit_threads`.
* `BinlogAgrees`: whoever is in the binary log has a prepared record in the part of the redo log that
  survives, and what follows it is no rollback; so every prefix that a crash may leave ends with
  "prepared" or "committed", and `RecoverXid` ends it the way the binary log says.
* `PromisesSurvive`: what a client was told is recorded in that part (`RepliesRecorded`).
* `LogOrderKept`: `Committing` holds of at most one session, which is the last of the binary log
  (`CommitterLast`), and all before it are decided in the redo log (`Decided`), at the positions they
  have in the binary log (`Positions`).

`SearchSysProofs`, for any number of sessions, frames, keys, parameters and folds, and
every plan of the type `PlanType` (two pages, for the tree has at most two leaves), and as long as no
cursor has gone astray (disagreement 3, of which the code is capable; the three theorems say so with
`~Astray`, and the model leaves an astray session where it is, so that `Astray` stays true):

* `InductiveInvariant`. Its lemma `AstrayKeeps` has the step that goes astray. `HashIsValid` says of a node that its record is there, at its place, and that the
  page is hashed with parameters by which the fold is right. That is `NodesAreValid` of `IInv`; it is not
  inductive. It needs of every session what it has latched (`LatchesAreRight`); that the folds computed
  without the search latch are those of the page, for who has the page s-latched sees its records
  stand still (`FoldsAreRight`) and checks the parameters; that no node is left of a record when it
  is removed (`NodesAreRight`); and, while records are on two pages, that the thread that moves them
  has both x-latched and the records of the second among those of the first (`MoveIsRight`).
* `HashStaysValid`.
* `GuessesAreRight`: a guess is checked against the neighbours of the record on its page only. That this is
  enough rests on `InOrder`, the order of the leaves, which is broken only while both are x-latched,
  so never for who has one of them latched; hence at the first and last record the check of the code
  that there is no page before or after is what is needed (lemma `CheckedIsRight`). The shortcut
  has no page latch; that nobody writes meanwhile is `SearchLatchIsRight` with `NodeIsKept`.

The proof has one lemma for what each action changes (`DropMoves`), and one that it keeps `IInv`
(`DropKeeps`): the session that takes the step is right after it, part by part; the others are, because
it spares what they have latched (`Spares`); and the blocks, the nodes and the order are.

`RedoLogProofs`, for any number of threads, pages, log records and crashes, any sizes of the
log buffer and of the files, and any ages that are ordered as `log_calc_max_ages` orders them
(`RedoLogAssumption`):

* `InductiveInvariant`. That recovery works is a statement about states from which there has not been a crash yet,
  so nothing that the runs check is inductive. What makes it so is in `IInv`:
  * An image of a page is `Good` if it holds exactly the changes below its lsn, and their log is
    flushed. All images are that can be met after a crash: those on the files, those a batch has posted
    (`FileIsRight`, `WriteIsRight`), and the copy of a page in the doublewrite buffer while its write may be
    torn (`DblwrIsRight`). A page that is posted has no change that its frame has and the image
    has not, since its latch was passed to the i/o handler (`LatchIsRight`).
  * A number is in `Safe` if all changes below it are on the files. The last checkpoint is, as are the one being
    written and the one a thread has sampled and waits to write (`CheckpointsAreRight`). The step that
    makes it so is the read of the oldest modification, and needs that the flush list is sorted
    (`FlushListIsRight`, lemma `OldestIsSafe`). The last checkpoint is in the slot of its number and the other slot
    is older, or says the same (`SlotsAreRight`), so a torn slot never costs the last one.
  * The ring of files has room for the log of every mini-transaction that has passed
    `log_checkpoint_margin` and not yet written its log, which are counted (`RoomIsLeft`).
  * The lsns of `log_sys` are ordered and one thread writes (`LsnsAreRight`), and `CallIsRight` says
    which of them a call of `log_write_up_to` may rely on when it returns, for the thread that wrote and for
    those that waited.
  * The others say what a thread has latched and taken at each label (`MtrIsRight`, `BatchIsRight`).
* `TypeCorrect`, with the order of the flush list.
* `RecoveryIsRight`: for any part of the log that survives, any outcome of a checkpoint that was being written and
  of any page writes, the pages are recovered as the log says. The lemmas follow the phases of
  `log0recv.c`: `CheckpointFound`, `LogFoundWhole`, `ImageIsRestored`, `PageIsRecovered`.
* `CommitsAreKept`, from `AckedIsKept`.
* `CheckpointsSuffice`, under the assumption `DirectIo`: without it disagreement 1 is a counterexample.
* `BatchesDoNotBlock`.

`MvccProofs`, for any finite number of transactions and keys and any number of changes:

* `InductiveInvariant`. What a view reads depends on all undo records below the record, so `IInv` is
  about whole chains:
  * `IdsAreRight`, `HistoryIsRight`: ids and numbers come from one counter, and who has the mutex of the
    rollback segment has the greatest number, hence the history list is in their order.
  * `ViewsAreRight`: a view that stands before another in the list sees what that one sees (but for its
    creator), which is why the last is the oldest. `PurgeViewIsRight`: what purge sees has
    ended, and is seen by every view; a lost undo record belongs to such a transaction (`GoneIsRight`),
    and the position of purge is in a log of the history, or of one that has been
    (`PurgeIsRight`).
  * `UndosAreRight`: what an undo record restores was made by the same transaction before, with no change
    of the row in between, or by one that has ended. `RowIsRight`: a row is of the last change of it
    that is not to be undone; `RollingIsRight` says how far a rollback is, also between the steps of
    one that goes on with the previous version of the same row.
  * `ChainIsRight`: there is a chain from each row to its insert, of which no undo record is lost before the
    first version that all views see; and for each view the first version in it that is neither its
    creator's nor hidden from it is what was committed when it was opened (`Reads`).
* `TypeCorrect`.
* `OrdersKept` adds to it `BuiltLater`: who builds on the version of another has the greater number.
* `ReadsAreConsistent`. `VersionRead` goes back over at most as many versions as there are changes
  in all (`Depth`), for no version is met twice: a chain longer than that would map its positions
  one to one into a smaller set. `VersionRead` is defined by a recursive function; the proof gives
  the function that goes down the chain and shows that it is that one, by the least place where they
  would differ (`VersionReadIs`, `LeastExists`), the library's induction theorems being out of reach.

Each action has lemmas for what it does to the parts, which are cited once per part, as several
actions change a part in one way: `NobodyEnds`, `FewerViews`, `Settled` and `SeenStay` name these ways.

`PageIoProofs`, for any finite number of pages and of threads that call `fil_flush`, any number of tablespaces,
entries and sessions, and any plan in which an entry is inserted once (an index entry has the primary key
in it) and a bitmap page is in the tablespace of its leaves (`PageIoAssumption`):

* `InductiveInvariant`. The counters are in it with what they count (`CallsCounted`, `PagesCounted`): a deletion
  goes on when they are 0, and the proof has to know that nobody is left then. Beyond that:
  * `TargetIsRight` and `GoneIsRight` say how far a deletion has got and what is gone by then;
    `PageIsRight`, that what is in the pool is of the present version of its tablespace, and clean
    pages are as on the file.
  * `CachedAreRight`: a write that the operating system still caches was done after the start of every flush that has
    returned, so that the counter sampled then is below the present one. Hence a call may say
    "flushed up to what I sampled", which `FlushedIsOnDisk` alone does not give.
  * `LeafIsRight`: while entries are buffered for a leaf, or a session that has looked whether the leaf is in the
    pool has still to insert one, nobody can latch the leaf before the merge, and the bitmap has its bit.
    What makes it so is that the session keeps the leaf of the insert buffer tree latched from then on
    and a merge needs that latch to find that there is nothing (left) to merge (`LatchIsRight`).
  * `EntryIsRight`: an entry still to be inserted is nowhere, not even on the file of its page; `MasterIsRight`:
    the entries that the master thread is about to delete are of a tablespace that is being deleted, or
    of a later one.
* `TypeCorrect`, `FramesCurrent`, `FlushedOnDisk`.
* `InsertsReach`, under the assumption that no plan inserts after an import: without it disagreement 2 is a
  counterexample.

Many steps change one page and no contents: `QuietStep` says once what is left to show of such a step,
`PhaseStep` of one that only changes the phase of a read or write, `SessionMoves`, `MasterMoves`,
`CallSteps` and `FlagsStep` of a step of a session, of the master thread, of `fil_flush` and of the ddl.

`LockSysProofs`, for any number of transactions and keys, and any plan as `PlanAssumption` describes it (three
pages: the root, and the two leaves that take its place):

* The first half is about lock tables. `Good(s, P)` says of a lock table `s`, and of a function `P` from records to
  pages, what has to hold whenever `kernel_mutex` is free: the bits on a record are on its page; a waiting
  record lock has one bit, and a transaction one request that waits; who waits is blocked by something ahead
  of it; and what has been granted clashes with nothing ahead of it, not even with a request that waits
  (`Ordered`). The last is stronger than the exclusion of granted locks: without it a grant could
  meet a lock behind it in the queue. `Owns(s, t, h)` says that whoever else has a lock on `h` waits, and that
  `t` has a granted X lock then. For each function of `lock0lock.c` a lemma says that it keeps `s` good
  for the places after it (`RecMoveKeeps`, `DequeueKeeps`, `UpdateDeletes`, `RightIsMerged`), and
  who owned a record owns it still. The functions that enter requests again one by one are recursive; the lemmas
  prove what they do step by step, by the least step that would fail (`IterationExists`).
* `InductiveInvariant`. `IInv` is `Good` for the places that rows, leaves and the row operation in progress
  determine (`Place`: between `lock_rec_store_on_page_infimum` and its counterpart the bits of a record are
  on the infimum), and
  * `RowsAreRight`: an active transaction owns every row it has changed. This is the implicit lock: while nobody waits
    for it there is no lock struct, and whoever asks for the row converts it first.
  * `RequestIsRight`: a row operation that goes on after its lock check still finds what it checked, though
    others release locks, roll back or time out meanwhile; that it owns the record, or the infimum, is what makes
    `RowsAreRight` hold after the change.
  * `UndoIsRight`: a rollback finds each record as its transaction left it, so that a row that is taken back to
    the version of another active transaction cannot be met.
  * `WaitsAreRight`, `CursorIsRight`: who waits is active and in a lock wait or in its deadlock check; the lock that
    `unlock_row` gives up is not that of a row the transaction has changed.
* `TypeCorrect`, with the placing of the bits; `LocksAreExclusive`; `WaitersBlocked`.
* `DeadlocksAreFound`. The deadlock check is made for the request that is enqueued and never again, though
  queues change later. `NoLoop`, a part of `IInv`, is that only the request under check can close a circle:
  `OnlyWaits` and `FewerWaits` say of each function of the lock table that it makes nobody wait for anyone
  new but the transaction that enqueues. `NoLoopFound`: if the search ends without a circle, there
  is none, for it has expanded every transaction that waits and can be reached.

Only model-checked: `LockingReadsRepeatable` of `LockSys`; `CheckpointCovers`, `StaleMergeIgnored` and
`CursorIsInBlock`, which do not hold; and all liveness, `GarbageCollected` of `Mvcc`, `CallsEnd` of `PageIo` and `LockWaitsEnd` of `LockSys` too. Liveness
under fairness and `ENABLED` are out of reach of the prover, and so are `RECURSIVE` operators and the
induction theorems of the library.

## 6. Disagreements between the code and what is said of it

1. `redo_cache`. `log_checkpoint` flushes the data files and only then reads the oldest
   modification in the pool. With the doublewrite buffer in use, the write of a page is not
   flushed by itself but at the end of the batch, while the page leaves the flush list, and
   `oldest_modification` is cleared, as soon as the write is done. A page whose write is done
   between the two steps is neither flushed by the checkpoint nor counted by it, although
   `include/buf0buf.h` says that the field is zero "if all modifications are on disk". If the
   operating system crashes before the batch flushes, recovery starts after the log of a change
   that the disk does not have, and the page is whole, so that its copy is not used. The run
   needs no crash: it shows the state that recovery cannot repair. With `O_DIRECT` (the run
   `redo`) the write is on the disk when it is done, and the property holds.
2. `page_import`. `buf_read_ibuf_merge_pages` deletes the buffered entries of a page whose read is
   refused because the tablespace was deleted or is of another version than the request. In
   the second case, after DISCARD and IMPORT, the entries are those of the new incarnation: they
   are lost and its bitmap still says that there are some. `fil_space_struct` says that by the
   version a merge request for the previous incarnation is to be ignored. The passing run `page_io`
   has no inserts after an import.
3. `search_astray`. `btr_search_guess_on_hash` takes the page number from the frame of the record it found
   (`btr/btr0sea.c:787`) and looks for the block in the page hash afterwards (791). If the page is
   evicted and read into another block in between, that block is latched, and the guess is
   checked on the old frame, which is being freed and cannot be used again only as long as the search
   latch is kept. If the check is content the cursor has the record of one block and the latch of
   another, against the assertion of `btr_cur_position` (`include/btr0cur.ic:108`), which builds without
   `UNIV_DEBUG` do not have. What the caller reads or writes then is in a frame nobody owns, and a
   record it inserts or deletes is so in a copy: this is not modelled, and `HashIsValid`,
   `GuessIsRight` and `CallsReturn` claim nothing once it has happened. The shortcut of consistent
   reads meets the same case without harm, as it copies the record from the old frame while it
   keeps the search latch. If the block of the page were evicted once more it would be free, and the
   assertion at `buf/buf0buf.c:2246` stops the server; the plans have one eviction.

Read in the code, and left out of the models or without a run:

* `lock_table_create` (`lock/lock0lock.c:3582`) counts AUTO-INC requests that wait too, and the
  counter is never decremented for one that is withdrawn after a timeout or a deadlock,
  although `include/dict0mem.h:436` says it tracks granted and pending locks. A session that
  sees it non-zero takes the slower lock from then on.
* `srv_suspend_mysql_thread` (`srv/srv0srv.c:1496`) overwrites `DB_DEADLOCK` by
  `DB_LOCK_WAIT_TIMEOUT` if the wait was also longer than the timeout; the comment at line 1343
  says that a victim gets `DB_DEADLOCK`.
* `innodb_thread_concurrency` set to 0 while threads are queued: those that leave do not look at
  the queue then. `Concurrency` has no 0.
* `innodb_commit_concurrency` changed from 0 while threads commit: `commit_threads` may be decremented
  by a thread that was not counted. A plan has one value.
* `innobase_rollback` resets `active_trans` without unlocking `prepare_commit_mutex`; the
  server does not roll back after the prepare in the plans.
* `buf_page_init_for_read` of a compressed page may let go of the pool's mutex in
  `buf_buddy_alloc` after it has looked whether the tablespace is being deleted, and looks at the
  page hash only when it has it again; a read of a page whose tablespace is dropped between the
  two fails the assertion at `buf/buf0rea.c:146`. The model has no such release.
* `stop_ios` is looked at only when `innodb_open_files` files are open, so a rename does not stop new
  i/o as the comment in `fil_space_struct` says; it gives up after 25000 turns.

## 7. Abstractions

* A key, record or table is a number or a model value; one table with its clustered index.
  Contents of rows are not kept: a version stands for itself.
* `LockQueue`: the bitmap of a struct is a set, without its length. The deadlock search follows the queue in a fixed order, the model any cycle it may find
  and any chain that is too long: it allows more victims than the code, and so does every
  property that is checked. Waits for table locks inside a purge or a rollback do not arise.
* `LockSys`: a rollback of the whole transaction can begin at any time, as an error or the
  client can cause it; so can a partial one, which is why `RollbackOne` may be followed by
  another statement. `Purge` here removes any delete-marked record of an ended transaction,
  which is more than purge does: when it may is the subject of `Mvcc`.
* Pages in `LockSys`: at most two leaves under a root, so a page is split only if it is alone, and
  once for an insert. Sizes are abstracted: whether an operation fits, reorganises or splits the
  page, where it splits, and whether a page is so empty that it is merged or discarded are
  choices, and both halves of a split have a record after it. Neighbours of the two leaves are not
  there. The moves of one split or merge are one step, because the releases of others in between
  commute with them; the interval between the storing of locks on the infimum and their
  restoring is kept. A pessimistic operation repeats the lock check of the optimistic one before
  it, without effect. Rollback restores updates in place.
* `Mvcc`: an undo log fits one page when purge looks for the next record; truncation inside a
  log happens at page boundaries that are not kept, so any part below the limit may go. One
  purge thread, one rollback segment (no other is ever created). Where rollback asks whether
  purge passed a restored record by, the code remembers the transaction it restored; the model looks at the writer
  of the record, which is the same until that rollback ends, as the record is locked. Locks and views of a
  transaction go at once, as with fewer than 1000 locks. That a cursor is closed before the
  commit is how the server uses it.
* Both `LockSys` and `Mvcc` take latches and the kernel mutex as atomic sections, justified by
  `IbMutex` and `RwLock`.
* `RedoLog`: one tablespace whose pages are all in the pool; only batches of type
  `BUF_FLUSH_LIST`, one at a time, as `init_flush` makes them; a batch may take the dirty pages in
  any order and stop at any point. The ages at which log is flushed or checkpoints are made are any numbers with the
  order that `log_calc_max_ages` gives them. The completion of a page write and its removal from the flush
  list are one step, before the batch flushes. A write of the log reaches the file as a prefix,
  whichever blocks it is made of, so a mini-transaction is in the log whole or not at all.
  `log_flush_margin`, the synchronous preflush and the waits for a running checkpoint are what
  an idle thread may do in any case. The transaction's commit is acknowledged for both settings
  of `innodb_flush_log_at_trx_commit` that write the log. Doublewrite copies of pages that are
  not in the latest batch are forgotten. Recovery is one step: there is no crash in it.
* What the file cache keeps of data files over a crash of the server alone is not modelled, so
  crashes are combined with `DirectIo` only (`RedoLogAssumption`), which leaves disagreement 1 aside.
* `TwoPhase`: the locks are one row lock with a queue and rows nobody else changes. The binary log
  is written and synced between prepare and commit (`sync_binlog`), by the server, which is
  external. `innodb_flush_log_at_trx_commit` is not 0. A replication thread waits for room for
  `srv_replication_delay` at most, so `EnterAsSlave` may come at any time. `OrderKept` is about transactions in the binary
  log; others save a position without the mutex. A thread that has committed decrements
  `commit_threads` and lets go of `prepare_commit_mutex` in one step. There is no crash in the
  middle of a rollback of what was prepared.
* `PageIo`: a tablespace is one file; which closable file is closed is a choice; how often a thread has
  tried to make room is not counted. The insert buffer tree is one leaf, and whether an entry
  fits is a choice. The file is written at the completion of the i/o. Free-space bits of the bitmap and
  adaptive hash references are left out. Freeing of the tablespace object and deletion of the
  file are one step. Evictions are bounded by the plan.
* `SearchSys`: one clustered index of at most two leaves; what the counters in `info` and in the block
  say (`n_hash_potential`, `n_hash_helps`, `last_hash_succ`) is a choice, so any search may build, guess or
  correct a node, with any of the plan's parameters. Whether a page must be reorganised, split or
  merged is a choice too. A new node may find no memory. The look at `btr_search_latch.writer` and
  the request for the latch are one step. `btr_search_disable` is left out.
* `scanned` of `LockSys`, `snap` of `Mvcc`, `acked` of `RedoLog`, `reply` of `TwoPhase`, `inserted` and
  `born` in `PageIo` are history: they appear in no guard.

## 8. What is not modelled

Secondary indexes with their locks and versions, externally stored columns, levels of the B-tree above
the leaves, file space management, the order of the LRU list and read-ahead, foreign
keys, the dictionary and its table handles, query graphs, auto-increment values and fast index creation are not
modelled. Debug code (latching order, validation, printing) is left out because it changes no state.
Left out for good: byte formats of pages, records and compression, the SQL parser (generated),
memory and string utilities, start-up and configuration, statistics and monitor output.

## 9. The plan

Next modules, the most important first: extents and segments of `fsp0fsp.c`; duplicate and foreign key checks over `LockSys`; table handles and
`dict_operation_lock`.

Next theorems:

* `LockingReadsRepeatable`: the gap locks that a locking read leaves cover what it has seen, through all
  inheritance and moving.
