------------------------------ MODULE TwoPhase ------------------------------
(***************************************************************************)
(* The sessions of handler/ha_innodb.cc as MySQL drives them: row          *)
(* operations under a ticket of SrvConc, lock waits, and the end of a      *)
(* transaction by innobase_commit, innobase_rollback, or by the two-phase  *)
(* commit with the binary log (innobase_xa_prepare, the write of the       *)
(* binary log, innobase_commit), with crashes and the recovery of prepared *)
(* transactions.  One session runs one transaction.                        *)
(*                                                                         *)
(* Of the redo log only the records that decide the fate of a transaction  *)
(* are kept; how log_write_up_to works is the matter of RedoLog.  Of the   *)
(* locks there is one row lock with a queue; the rest is in LockSys.       *)
(* External, seen through the handlerton calls: the binary log, written    *)
(* and synced between prepare and commit, and the coordinator that decides *)
(* after a crash what becomes of a prepared transaction.                   *)
(***************************************************************************)
EXTENDS SrvConc

CONSTANTS
    Plans               \* what the sessions and the settings do in a behaviour

\* plain: without the binary log.  binlog: in two phases with it.
\* binlog_noxa: the same with innodb_support_xa off.  xa: the user's own
\* XA PREPARE and XA COMMIT or XA ROLLBACK.
Kinds == {"plain", "binlog", "binlog_noxa", "xa"}

\* kind: how the transaction of a session is to end.  rows: how many row
\* operations it does, none for a session that takes no part.  writers: those
\* whose row operations are changes.  own: those of them that change rows of
\* their own; the others all change the same row.  slots: srv_max_n_threads.
\* settings: the values innodb_thread_concurrency takes.  commits:
\* innodb_commit_concurrency, where 0 is no limit.  crashes: how often the
\* server crashes at most.
PlanType == [kind : [Sessions -> Kinds], rows : [Sessions -> Nat],
             writers : SUBSET Sessions, own : SUBSET Sessions, slots : Nat,
             settings : SUBSET Concurrency, commits : Nat, crashes : Nat]

ASSUME TwoPhaseAssumption == Plans \subseteq PlanType

VARIABLES
    plan, pc, rows,
    was_declared,       \* was_declared_inside_innodb of the lock wait
    lock_queue,         \* the shared row's lock: the head holds it, the others wait
    wrote,              \* the transaction has an undo log
    conc_state,
    active_trans,       \* 2: it has taken prepare_commit_mutex
    outcome,            \* how the transaction in trx_commit_off_kernel ends
    pos,                \* trx->mysql_log_offset
    reply,              \* the last thing the client was told
    prepare_commit_mutex,
    commit_threads, commit_waiters,
    redo,               \* the records that decide on transactions, in order
    written,            \* how many of them are sure to survive a crash
    binlog,
    open                \* sessions are let in, recovery is over

sess_vars == <<pc, rows, was_declared, conc_state, active_trans, outcome, pos, reply>>
lock_vars == <<lock_queue, wrote>>
commit_vars == <<prepare_commit_mutex, commit_threads, commit_waiters>>
log_vars == <<redo, written, binlog>>
fate_vars == <<plan, open>>
vars == <<conc_vars, sess_vars, lock_vars, commit_vars, log_vars, fate_vars>>

Init ==
    /\ plan \in Plans
    /\ ConcInit(plan.slots, plan.settings)
    /\ pc = [s \in Sessions |-> "new"]
    /\ rows = plan.rows
    /\ was_declared = {}
    /\ lock_queue = <<>>
    /\ wrote = {}
    /\ conc_state = [s \in Sessions |-> "not_started"]
    /\ active_trans = [s \in Sessions |-> 0]
    /\ outcome = [s \in Sessions |-> "none"]
    /\ pos = [s \in Sessions |-> 0]
    /\ reply = [s \in Sessions |-> "none"]
    /\ prepare_commit_mutex = NoSession
    /\ commit_threads = 0
    /\ commit_waiters = {}
    /\ redo = <<>>
    /\ written = 0
    /\ binlog = <<>>
    /\ open = TRUE

\* Session s is at the label a and has no event left to signal,
At(s, a) == pc[s] = a /\ to_signal[s] = NoSession

\* and goes to b.
Step(s, a, b) ==
    /\ At(s, a)
    /\ pc' = [pc EXCEPT ![s] = b]

-----------------------------------------------------------------------------
(* Row operations *)

\* The first statement; ha_innobase::external_lock registers the transaction.
Begin(s) ==
    /\ open
    /\ rows[s] > 0
    /\ Step(s, "new", "enter")
    /\ active_trans' = [active_trans EXCEPT ![s] = 1]
    /\ UNCHANGED <<conc_vars, rows, was_declared, conc_state, outcome, pos, reply,
                   lock_vars, commit_vars, log_vars, fate_vars>>

\* The next row of a statement, or the first of the next one.
NextRow(s) ==
    /\ rows[s] > 0
    /\ Step(s, "statement", "enter")
    /\ UNCHANGED <<conc_vars, rows, was_declared, conc_state, active_trans, outcome, pos,
                   reply, lock_vars, commit_vars, log_vars, fate_vars>>

HoldsLock(s) == lock_queue # <<>> /\ Head(lock_queue) = s
MayChange(s) == s \in plan.own \/ lock_queue = <<>> \/ HoldsLock(s)

\* trx->trx_locks is not empty.
HasLocks(s) == s \in wrote

\* srv_conc_enter_innodb, first attempt and after the one sleep; a thread that
\* holds or waits for locks does not sleep.
Enter(s) ==
    /\ \E a \in {"enter", "enter_slept"} :
           \/ /\ Step(s, a, "inside")
              /\ \/ EnterAsSlave(s)
                 \/ EnterByTicket(s)
                 \/ EnterRoom(s)
                 \/ EnterWithoutSlot(s) /\ (a = "enter_slept" \/ HasLocks(s))
           \/ /\ Step(s, a, "queued")
              /\ a = "enter_slept" \/ HasLocks(s)
              /\ Enqueue(s)
    /\ UNCHANGED <<rows, was_declared, conc_state, active_trans, outcome, pos, reply,
                   lock_vars, commit_vars, log_vars, fate_vars>>

SleepOnce(s) ==
    /\ Step(s, "enter", "enter_slept")
    /\ NeedsPlace(s)
    /\ ~HasRoom
    /\ ~HasLocks(s)
    /\ UNCHANGED <<conc_vars, rows, was_declared, conc_state, active_trans, outcome, pos,
                   reply, lock_vars, commit_vars, log_vars, fate_vars>>

WakeInQueue(s) ==
    /\ Step(s, "queued", "inside")
    /\ LeaveQueue(s)
    /\ UNCHANGED <<rows, was_declared, conc_state, active_trans, outcome, pos, reply,
                   lock_vars, commit_vars, log_vars, fate_vars>>

\* A row is read without a lock, or changed under the row lock; then the thread
\* leaves InnoDB, which keeps its ticket if it may enter again with it.
ReadRow(s) ==
    /\ s \notin plan.writers
    /\ Step(s, "inside", "statement")
    /\ ExitInnodb(s)
    /\ rows' = [rows EXCEPT ![s] = @ - 1]
    /\ conc_state' = [conc_state EXCEPT ![s] = "active"]
    /\ UNCHANGED <<was_declared, active_trans, outcome, pos, reply,
                   lock_vars, commit_vars, log_vars, fate_vars>>

ChangeRow(s) ==
    /\ s \in plan.writers
    /\ Step(s, "inside", "statement")
    /\ MayChange(s)
    /\ lock_queue' = IF s \notin plan.own /\ lock_queue = <<>> THEN <<s>> ELSE lock_queue
    /\ ExitInnodb(s)
    /\ wrote' = wrote \cup {s}
    /\ rows' = [rows EXCEPT ![s] = @ - 1]
    /\ conc_state' = [conc_state EXCEPT ![s] = "active"]
    /\ UNCHANGED <<was_declared, active_trans, outcome, pos, reply,
                   commit_vars, log_vars, fate_vars>>

MustWait(s) ==
    /\ s \in plan.writers
    /\ Step(s, "inside", "suspend")
    /\ ~MayChange(s)
    /\ lock_queue' = Append(lock_queue, s)
    /\ conc_state' = [conc_state EXCEPT ![s] = "active"]
    /\ UNCHANGED <<conc_vars, rows, was_declared, active_trans, outcome, pos, reply,
                   wrote, commit_vars, log_vars, fate_vars>>

\* Mutant: the thread keeps its place inside during the lock wait.
SuspendInside(s) ==
    /\ IF HoldsLock(s) THEN Step(s, "suspend", "inside") ELSE Step(s, "suspend", "lock_wait")
    /\ UNCHANGED <<conc_vars, rows, was_declared, conc_state, active_trans, outcome, pos, reply,
                   lock_vars, commit_vars, log_vars, fate_vars>>

\* srv_suspend_mysql_thread: at once back if the lock was granted meanwhile,
\* otherwise the thread leaves InnoDB for the time of the wait.
Suspend(s) ==
    /\ \/ /\ HoldsLock(s)
          /\ Step(s, "suspend", "inside")
          /\ UNCHANGED <<conc_vars, was_declared>>
       \/ /\ ~HoldsLock(s)
          /\ Step(s, "suspend", "lock_wait")
          /\ ReleaseTicket(s)
          /\ was_declared' = IF s \in declared THEN was_declared \cup {s} ELSE was_declared \ {s}
    /\ UNCHANGED <<rows, conc_state, active_trans, outcome, pos, reply,
                   lock_vars, commit_vars, log_vars, fate_vars>>

LockWaitEnds(s) ==
    /\ HoldsLock(s)
    /\ Step(s, "lock_wait", "inside")
    /\ \/ s \in was_declared /\ ForceEnter(s)
       \/ s \notin was_declared /\ UNCHANGED conc_vars
    /\ UNCHANGED <<rows, was_declared, conc_state, active_trans, outcome, pos, reply,
                   lock_vars, commit_vars, log_vars, fate_vars>>

\* ha_innobase::external_lock when the last table of a statement is unlocked.
EndStatement(s) ==
    /\ At(s, "statement")
    /\ ForceExit(s)
    /\ UNCHANGED <<sess_vars, lock_vars, commit_vars, log_vars, fate_vars>>

-----------------------------------------------------------------------------
(* The redo log *)

\* The record of an undo log's new state, written by one mini-transaction.
RedoRecord == [type : {"prepared", "committed", "rolledback"}, trx : Sessions, pos : Nat]
AppendRedo(type, s, p) == redo' = Append(redo, [type |-> type, trx |-> s, pos |-> p])

\* log_write_up_to, at the end of a prepare and of a commit: with the setting 1
\* of innodb_flush_log_at_trx_commit the log survives any crash then, with 2 a
\* crash of the server; 0 promises nothing and is left out.
WriteRedo == written' = Len(redo)

\* What a crash leaves: others, like the master thread, may have written more.
Kept == written .. Len(redo)

\* The state of the undo logs of s after recovery from the first n records.
UndoState(n, s) ==
    LET i == SelectLastInSeq(SubSeq(redo, 1, n), LAMBDA r : r.trx = s)
    IN  IF i = 0 THEN "active" ELSE redo[i].type

-----------------------------------------------------------------------------
(* The end of a transaction *)

\* The server begins the two-phase commit, before or after the end of the statement.
CallPrepare(s) ==
    /\ plan.kind[s] # "plain"
    /\ Step(s, "statement", "xa_prepare")
    /\ UNCHANGED <<conc_vars, rows, was_declared, conc_state, active_trans, outcome, pos,
                   reply, lock_vars, commit_vars, log_vars, fate_vars>>

\* Mutant: prepare_commit_mutex is not taken.
PrepareUnlocked(s) ==
    /\ Step(s, "xa_prepare", IF plan.kind[s] = "binlog_noxa" THEN "binlog" ELSE "prepare")
    /\ UNCHANGED <<conc_vars, rows, was_declared, conc_state, active_trans, outcome, pos, reply,
                   lock_vars, commit_vars, log_vars, fate_vars>>

\* innobase_xa_prepare: unless it is a user's own XA PREPARE the mutex is taken,
\* up to the commit; and with innodb_support_xa off that is all.
LockPrepareCommit(s) ==
    /\ Step(s, "xa_prepare", IF plan.kind[s] = "binlog_noxa" THEN "binlog" ELSE "prepare")
    /\ IF plan.kind[s] = "xa"
       THEN UNCHANGED <<prepare_commit_mutex, active_trans>>
       ELSE /\ prepare_commit_mutex = NoSession
            /\ prepare_commit_mutex' = s
            /\ active_trans' = [active_trans EXCEPT ![s] = 2]
    /\ UNCHANGED <<conc_vars, rows, was_declared, conc_state, outcome, pos, reply,
                   lock_vars, commit_threads, commit_waiters, log_vars, fate_vars>>

AfterPrepare(s) == IF plan.kind[s] = "xa" THEN "xa_prepared" ELSE "binlog"

\* The ticket is released, then trx_prepare_off_kernel.
Prepare(s) ==
    /\ Step(s, "prepare", IF s \in wrote THEN "prepare_flush" ELSE AfterPrepare(s))
    /\ ReleaseTicket(s)
    /\ IF s \in wrote THEN AppendRedo("prepared", s, 0) ELSE UNCHANGED redo
    /\ conc_state' = [conc_state EXCEPT ![s] = "prepared"]
    /\ reply' = IF s \notin wrote /\ plan.kind[s] = "xa"
                THEN [reply EXCEPT ![s] = "prepared"] ELSE reply
    /\ UNCHANGED <<rows, was_declared, active_trans, outcome, pos,
                   lock_vars, commit_vars, written, binlog, fate_vars>>

\* Mutant: the log is not written at the end of the prepare.
PrepareUnflushed(s) ==
    /\ Step(s, "prepare_flush", AfterPrepare(s))
    /\ reply' = IF plan.kind[s] = "xa" THEN [reply EXCEPT ![s] = "prepared"] ELSE reply
    /\ UNCHANGED <<conc_vars, rows, was_declared, conc_state, active_trans, outcome, pos,
                   lock_vars, commit_vars, log_vars, fate_vars>>

PrepareFlush(s) ==
    /\ Step(s, "prepare_flush", AfterPrepare(s))
    /\ WriteRedo
    /\ reply' = IF plan.kind[s] = "xa" THEN [reply EXCEPT ![s] = "prepared"] ELSE reply
    /\ UNCHANGED <<conc_vars, rows, was_declared, conc_state, active_trans, outcome, pos,
                   lock_vars, commit_vars, redo, binlog, fate_vars>>

\* External: the transaction is written to the binary log, which is synced.
WriteBinlog(s) ==
    /\ Step(s, "binlog", "commit")
    /\ binlog' = Append(binlog, s)
    /\ UNCHANGED <<conc_vars, rows, was_declared, conc_state, active_trans, outcome, pos,
                   reply, lock_vars, commit_vars, redo, written, fate_vars>>

\* A commit is called for a plain transaction, after the binary log was written,
\* or by the user who has prepared.
MayCommit(s, b) ==
    \/ Step(s, "commit", b)
    \/ plan.kind[s] = "plain" /\ Step(s, "statement", b)
    \/ Step(s, "xa_prepared", b)

\* innobase_commit: at most innodb_commit_concurrency threads go on, with the
\* position of the binary log; the others wait for commit_cond and try again.
StartCommit(s) ==
    /\ \/ /\ plan.commits > 0 /\ commit_threads + 1 > plan.commits
          /\ MayCommit(s, "commit_wait")
          /\ commit_waiters' = commit_waiters \cup {s}
          /\ UNCHANGED <<commit_threads, outcome, pos>>
       \/ /\ plan.commits > 0 => commit_threads + 1 <= plan.commits
          /\ MayCommit(s, "finish")
          /\ commit_threads' = IF plan.commits > 0 THEN commit_threads + 1 ELSE 0
          /\ pos' = [pos EXCEPT ![s] = Len(binlog)]
          /\ outcome' = [outcome EXCEPT ![s] = "committed"]
          /\ UNCHANGED commit_waiters
    /\ UNCHANGED <<conc_vars, rows, was_declared, conc_state, active_trans, reply,
                   lock_vars, prepare_commit_mutex, log_vars, fate_vars>>

\* innobase_rollback; the rows are undone before the transaction finishes.
StartRollback(s) ==
    /\ \E a \in {"statement", "xa_prepared"} : Step(s, a, "finish")
    /\ ReleaseTicket(s)
    /\ outcome' = [outcome EXCEPT ![s] = "rolledback"]
    /\ UNCHANGED <<rows, was_declared, conc_state, active_trans, pos, reply,
                   lock_vars, commit_vars, log_vars, fate_vars>>

\* trx_commit_off_kernel, which also ends a rollback: the mini-transaction that
\* finishes the undo logs and saves the position of the binary log, the release
\* of the locks (LockSys and Mvcc take these steps apart),
Finish(s) ==
    /\ Step(s, "finish", "finish_flush")
    /\ IF s \in wrote THEN AppendRedo(outcome[s], s, pos[s]) ELSE UNCHANGED redo
    /\ conc_state' = [conc_state EXCEPT ![s] = "committed_in_memory"]
    /\ lock_queue' = RemoveFirst(lock_queue, s)
    /\ UNCHANGED <<conc_vars, rows, was_declared, active_trans, outcome, pos, reply,
                   wrote, commit_vars, written, binlog, fate_vars>>

\* Mutant: the log is not written at the end of a rollback.
RollbackUnflushed(s) ==
    /\ Step(s, "finish_flush", "end")
    /\ IF s \in wrote /\ outcome[s] = "committed" THEN WriteRedo ELSE UNCHANGED written
    /\ conc_state' = [conc_state EXCEPT ![s] = "not_started"]
    /\ UNCHANGED <<conc_vars, rows, was_declared, active_trans, outcome, pos, reply,
                   lock_vars, commit_vars, redo, binlog, fate_vars>>

\* and the write of the log.
FinishFlush(s) ==
    /\ Step(s, "finish_flush", "end")
    /\ IF s \in wrote THEN WriteRedo ELSE UNCHANGED written
    /\ conc_state' = [conc_state EXCEPT ![s] = "not_started"]
    /\ UNCHANGED <<conc_vars, rows, was_declared, active_trans, outcome, pos, reply,
                   lock_vars, commit_vars, redo, binlog, fate_vars>>

\* A committing thread gives up its place and wakes one that waits, if any.
LeaveCommit(s) ==
    /\ commit_threads' = commit_threads - 1
    /\ \/ commit_waiters = {} /\ UNCHANGED commit_waiters /\ Step(s, "end", "done")
       \/ \E w \in commit_waiters :
              /\ At(s, "end")
              /\ commit_waiters' = commit_waiters \ {w}
              /\ pc' = [pc EXCEPT ![s] = "done", ![w] = "commit"]

\* The rest of innobase_commit and innobase_rollback: prepare_commit_mutex is
\* unlocked, the ticket released if it was not before, the client told.
EndOfCall(s) ==
    /\ IF outcome[s] = "committed" /\ plan.commits > 0
       THEN LeaveCommit(s)
       ELSE Step(s, "end", "done") /\ UNCHANGED <<commit_threads, commit_waiters>>
    /\ prepare_commit_mutex' =
           IF outcome[s] = "committed" /\ active_trans[s] = 2 THEN NoSession ELSE prepare_commit_mutex
    /\ ReleaseTicket(s)
    /\ active_trans' = [active_trans EXCEPT ![s] = 0]
    /\ reply' = [reply EXCEPT ![s] = outcome[s]]
    /\ rows' = [rows EXCEPT ![s] = 0]
    /\ pos' = [pos EXCEPT ![s] = 0]
    /\ UNCHANGED <<was_declared, conc_state, outcome,
                   lock_vars, log_vars, fate_vars>>

-----------------------------------------------------------------------------
(* Crash and recovery *)

\* trx_lists_init_at_db_start: who has an undo log in the prepared state is a
\* prepared transaction, with its locks; the others are rolled back, or were
\* committed.
Crash ==
    /\ plan.crashes > 0
    /\ \E n \in Kept :
           LET Prepared(s) == UndoState(n, s) = "prepared"
           IN  /\ redo' = SubSeq(redo, 1, n)
               /\ written' = n
               /\ conc_state' = [s \in Sessions |-> IF Prepared(s) THEN "prepared" ELSE "not_started"]
               /\ lock_queue' = SetToSeq({ s \in Sessions \ plan.own : Prepared(s) })
    /\ pc' = [s \in Sessions |-> IF pc[s] \in {"new", "done"} THEN pc[s] ELSE "dead"]
    /\ active_trans' = [s \in Sessions |-> 0]
    /\ srv_conc_n_threads' = 0
    /\ srv_conc_queue' = <<>>
    /\ wait_ended' = {} /\ event_set' = {} /\ declared' = {}
    /\ n_tickets' = [s \in Sessions |-> 0]
    /\ to_signal' = [s \in Sessions |-> NoSession]
    /\ prepare_commit_mutex' = NoSession
    /\ commit_threads' = 0 /\ commit_waiters' = {}
    /\ open' = FALSE
    /\ plan' = [plan EXCEPT !.crashes = @ - 1]
    /\ UNCHANGED <<srv_max_n_threads, srv_thread_concurrency, rows, was_declared, outcome, pos, reply, wrote,
                   binlog>>

\* innobase_commit_by_xid and innobase_rollback_by_xid
EndByXid(s, type) ==
    /\ conc_state[s] = "prepared" /\ pc[s] = "dead"
    /\ AppendRedo(type, s, 0)
    /\ written' = Len(redo) + 1
    /\ conc_state' = [conc_state EXCEPT ![s] = "not_started"]
    /\ lock_queue' = RemoveFirst(lock_queue, s)
    /\ UNCHANGED <<conc_vars, pc, rows, was_declared, active_trans, outcome, pos, wrote,
                   commit_vars, binlog, fate_vars>>

\* External: before it opens, the server commits those of the transactions
\* innobase_xa_recover lists that are in its binary log, and rolls the rest of
\* its own back.
RecoverXid(s) ==
    /\ ~open /\ plan.kind[s] = "binlog"
    /\ EndByXid(s, IF Contains(binlog, s) THEN "committed" ELSE "rolledback")
    /\ UNCHANGED reply

OpenServer ==
    /\ ~open
    /\ \A s \in Sessions : plan.kind[s] = "binlog" => conc_state[s] # "prepared"
    /\ open' = TRUE
    /\ UNCHANGED <<conc_vars, sess_vars, lock_vars, commit_vars, log_vars, plan>>

\* A user's prepared transaction waits for the user.
UserEndsXid(s) ==
    /\ open /\ plan.kind[s] = "xa"
    /\ \E type \in {"committed", "rolledback"} :
           /\ EndByXid(s, type)
           /\ reply' = [reply EXCEPT ![s] = type]

-----------------------------------------------------------------------------
SignalWaiter(s) ==
    /\ SetEvent(s)
    /\ UNCHANGED <<sess_vars, lock_vars, commit_vars, log_vars, fate_vars>>

ChangeSetting ==
    /\ \E n \in plan.settings : SetConcurrency(n)
    /\ UNCHANGED <<sess_vars, lock_vars, commit_vars, log_vars, fate_vars>>

\* What a session does once it has begun.
Continue(s) ==
    \/ NextRow(s) \/ Enter(s) \/ SleepOnce(s) \/ WakeInQueue(s)
    \/ ReadRow(s) \/ ChangeRow(s) \/ MustWait(s) \/ Suspend(s) \/ LockWaitEnds(s)
    \/ EndStatement(s) \/ CallPrepare(s) \/ LockPrepareCommit(s) \/ Prepare(s)
    \/ PrepareFlush(s) \/ WriteBinlog(s) \/ StartCommit(s) \/ StartRollback(s)
    \/ Finish(s) \/ FinishFlush(s) \/ EndOfCall(s) \/ SignalWaiter(s)

Next ==
    \/ \E s \in Sessions : Begin(s) \/ Continue(s) \/ RecoverXid(s) \/ UserEndsXid(s)
    \/ ChangeSetting \/ Crash \/ OpenServer

Spec == Init /\ [][Next]_vars

\* Threads run, users end what they have begun, and a server that has crashed
\* is started again.
FairSpec ==
    /\ Spec
    /\ \A s \in Sessions : WF_vars(Continue(s) \/ RecoverXid(s) \/ UserEndsXid(s))
    /\ WF_vars(OpenServer)

-----------------------------------------------------------------------------
Labels ==
    {"new", "enter", "enter_slept", "queued", "inside", "statement", "suspend",
     "lock_wait", "xa_prepare", "prepare", "prepare_flush", "binlog", "xa_prepared",
     "commit", "commit_wait", "finish", "finish_flush", "end", "done", "dead"}

\* The type invariant of the sessions, the tickets and the logs; the counter of
\* srv_conc_enter_innodb is exact, nobody declares itself inside twice, which
\* the code reports as an error, and as many threads commit as are counted.
TypeOK ==
    /\ ConcTypeOK
    /\ PlacesCounted
    /\ pc \in [Sessions -> Labels]
    /\ plan \in PlanType
    /\ rows \in [Sessions -> Nat]
    /\ was_declared \subseteq Sessions
    /\ lock_queue \in Seq(Sessions)
    /\ wrote \subseteq Sessions
    /\ conc_state \in [Sessions -> {"not_started", "active", "prepared", "committed_in_memory"}]
    /\ active_trans \in [Sessions -> 0 .. 2]
    /\ outcome \in [Sessions -> {"none", "committed", "rolledback"}]
    /\ pos \in [Sessions -> 0 .. Len(binlog)]
    /\ reply \in [Sessions -> {"none", "prepared", "committed", "rolledback"}]
    /\ prepare_commit_mutex \in Sessions \cup {NoSession}
    /\ redo \in Seq(RedoRecord)
    /\ written \in 0 .. Len(redo)
    /\ open \in BOOLEAN
    /\ binlog \in Seq(Sessions)
    /\ \A s \in Sessions : pc[s] \in {"enter", "enter_slept"} /\ n_tickets[s] = 0 => s \notin declared
    /\ commit_waiters = { s \in Sessions : pc[s] = "commit_wait" }
    /\ plan.commits > 0 =>
           commit_threads = Cardinality({ s \in Sessions :
               /\ pc[s] \in {"finish", "finish_flush", "end"}
               /\ outcome[s] = "committed" })

\* Whatever a crash leaves of the redo log, a transaction of the two-phase
\* commit that is in the binary log is committed or can be, and one that is not
\* in it is not committed; and once the server is open again nothing is left
\* undecided.  This is what the order of innobase_xa_prepare, the binary log
\* and innobase_commit, and the log write at the end of the prepare, are for.
LogsAgree ==
    \A s \in Sessions : plan.kind[s] = "binlog" /\ s \in wrote =>
        /\ \A n \in Kept :
               IF Contains(binlog, s)
               THEN UndoState(n, s) \in {"prepared", "committed"}
               ELSE UndoState(n, s) # "committed"
        /\ open /\ pc[s] = "dead" => UndoState(Len(redo), s) # "prepared"

\* What a client was told survives every crash that the setting of
\* innodb_flush_log_at_trx_commit protects from: a commit, a prepare of the
\* user's own, and that a prepared transaction was rolled back.
PromisesKept ==
    \A s \in wrote, n \in Kept :
        /\ reply[s] = "committed" => UndoState(n, s) = "committed"
        /\ reply[s] = "prepared" => UndoState(n, s) \in {"prepared", "committed", "rolledback"}
        /\ reply[s] = "rolledback" => UndoState(n, s) \notin {"prepared", "committed"}

\* The position of the binary log that is saved with the commit of a
\* transaction is its own, and all before it are committed before: the order of
\* the two logs is the same, as the comment in innobase_xa_prepare wants it.
OrderKept ==
    \A i \in DOMAIN redo :
        LET r == redo[i]
        IN  r.type = "committed" /\ r.pos # 0 /\ plan.kind[r.trx] \in {"binlog", "binlog_noxa"} =>
                /\ binlog[r.pos] = r.trx
                /\ \A q \in 1 .. r.pos - 1 :
                       LET earlier == binlog[q]
                       IN  plan.kind[earlier] = "binlog" /\ earlier \in wrote =>
                               \E j \in 1 .. i - 1 : redo[j].trx = earlier /\ redo[j].type = "committed"

\* Every call of a session returns, or the server crashes: nobody waits for ever
\* for a ticket, a lock of somebody who waits for a ticket, the mutex between
\* prepare and commit, or a place among the committing threads.
CallsReturn ==
    \A s \in Sessions :
        pc[s] \notin {"new", "statement", "xa_prepared", "done", "dead"} ~>
            pc[s] \in {"statement", "xa_prepared", "done", "dead"}
=============================================================================
