------------------------------- MODULE Mvcc -------------------------------
(***************************************************************************)
(* Multiversioning: read views, the version chains of clustered-index      *)
(* records, the commit that numbers a transaction and hands its update     *)
(* undo log to the history list, rollback, and purge.                      *)
(*                                                                         *)
(* kernel_mutex makes the opening and closing of a view, the drawing of an *)
(* id or a number and the commit in memory atomic.  The mutex of the       *)
(* rollback segment is held from the drawing of the number until the undo  *)
(* log is in the history list.  The page latch makes one change of a       *)
(* record atomic, together with the undo record it refers to.  Only the    *)
(* system rollback segment is ever created, so there is one history list.  *)
(***************************************************************************)
EXTENDS Integers, Sequences, FiniteSets, SequencesExt

CONSTANTS Trxs,         \* the transactions, each from its start to its end
          NoTrx,        \* nobody; it wrote what is there to begin with
          NoRow,        \* no record
          Missing,      \* DB_MISSING_HISTORY, or an undo record that is gone
          Keys,         \* the primary keys
          InitialRows,  \* those that have a record to begin with
          Writers,      \* the transactions that change records
          Readers,      \* those that make consistent reads
          CursorUsers,  \* those that open cursor views
          MaxOps        \* bound on the changes a transaction makes

ASSUME MvccAssumption ==
    /\ NoTrx \notin Trxs /\ IsFiniteSet(Trxs)
    /\ NoRow \notin Keys
    /\ InitialRows \subseteq Keys
    /\ Writers \subseteq Trxs /\ Readers \subseteq Trxs /\ CursorUsers \subseteq Trxs
    /\ MaxOps \in Nat

VARIABLES
    max_trx_id,  \* trx_sys: the next id or number
    pc,          \* how far each transaction is
    trx_id, trx_no,
    rows,        \* the newest version of each record
    undo,        \* both undo logs of a transaction by undo number, from 1
    logs,        \* which of them are assigned, and is del_marks set?
    held,        \* the keys whose records it has locked
    rolling,     \* its rollback in progress
    ops,         \* changes made so far
    view_list,   \* trx_sys: open views, newest first, but for that of purge
    purge_view,
    rseg_mutex,  \* who is between the number and the history list
    history,     \* the history list, oldest log first
    rseg_last,   \* the oldest log that purge has not done with
    purge_sys,   \* the position of purge
    task,        \* the undo record a purge thread works on
    gone         \* how much of the update undo log is truncated

vars == <<max_trx_id, pc, trx_id, trx_no, rows, undo, logs, held, rolling, ops,
          view_list, purge_view, rseg_mutex, history, rseg_last, purge_sys, task,
          gone>>

trxVars    == <<max_trx_id, pc, trx_id, trx_no>>
logVars    == <<undo, logs, held, rolling, ops>>
purgeVars  == <<purge_view, purge_sys, task, gone>>
commitVars == <<rseg_mutex, history, rseg_last>>

Infinity == 2 * Cardinality(Trxs) + 2   \* ut_dulint_max: above every number

\* A version carries its DB_TRX_ID and DB_ROLL_PTR: who wrote it, the number
\* of the undo record, and whether that one is in an insert undo log.
Version == [by : Trxs \cup {NoTrx}, un : 0..MaxOps, del : BOOLEAN, ins : BOOLEAN]

ASSUME RowAssumption == NoRow \notin Version /\ Missing \notin Version \cup {NoRow}

Original == [by |-> NoTrx, un |-> 0, del |-> FALSE, ins |-> TRUE]
NoRoll == [limit |-> 0, next |-> 0, remove |-> NoRow, on |-> FALSE]
NoTask == [log |-> NoTrx, un |-> 0]

Init ==
    /\ max_trx_id = 1
    /\ pc = [t \in Trxs |-> "NEW"]
    /\ trx_id = [t \in Trxs |-> Infinity]
    /\ trx_no = [t \in Trxs |-> Infinity]
    /\ rows = [k \in Keys |-> IF k \in InitialRows THEN Original ELSE NoRow]
    /\ undo = [t \in Trxs |-> <<>>]
    /\ logs = [t \in Trxs |-> {}]
    /\ held = [t \in Trxs |-> {}]
    /\ rolling = [t \in Trxs |-> NoRoll]
    /\ ops = [t \in Trxs |-> 0]
    /\ view_list = <<>>
    /\ purge_view = [trx_ids |-> {}, up_limit_id |-> 1, low_limit_id |-> 1,
                     low_limit_no |-> 1]
    /\ rseg_mutex = NoTrx
    /\ history = <<>>
    /\ rseg_last = NoTrx
    /\ purge_sys = [state |-> "STOP", trx_no |-> 0, undo_no |-> 0,
                    next_stored |-> FALSE, log |-> NoTrx, un |-> 0, handled |-> FALSE]
    /\ task = NoTask
    /\ gone = [t \in Trxs |-> 0]

Active(t) == t \in Trxs /\ pc[t] \notin {"NEW", "DONE"}
Runs(t) == pc[t] = "RUN" /\ ~rolling[t].on

-----------------------------------------------------------------------------
(* Read views.                                                             *)

IdOf(t) == IF t = NoTrx THEN 0 ELSE trx_id[t]

Sees(view, x) ==
    \/ x < view.up_limit_id
    \/ x < view.low_limit_id /\ x \notin view.trx_ids

\* History: what the committed transactions have left of a record, whatever
\* the active one that has it locked has made of it since.
Committed(k) ==
    IF rows[k] # NoRow /\ Active(rows[k].by)
    THEN LET u == undo[rows[k].by]
         IN  u[Min({n \in DOMAIN u : u[n].key = k})].old
    ELSE rows[k]

\* What decides which transactions a view sees, if those unseen are not.
Limits(ids, low_id, low_no) ==
    [trx_ids |-> ids, up_limit_id |-> Min(ids \cup {low_id}),
     low_limit_id |-> low_id, low_limit_no |-> low_no]

\* mutant: a transaction in the middle of its commit is not looked at
LimitsNowIgnoringNumbers(unseen) ==
    Limits({trx_id[u] : u \in unseen}, max_trx_id, max_trx_id)

LimitsNow(unseen) ==
    Limits({trx_id[u] : u \in unseen}, max_trx_id,
           Min({trx_no[u] : u \in unseen} \cup {max_trx_id}))

OpenView(creator, type, unseen) ==
    LET now == LimitsNow(unseen)
    IN  [trx_ids |-> now.trx_ids, up_limit_id |-> now.up_limit_id,
         low_limit_id |-> now.low_limit_id, low_limit_no |-> now.low_limit_no,
         creator |-> creator, type |-> type,
         undo_no |-> IF type = "NORMAL" THEN 0 ELSE Len(undo[creator]),
         snap |-> [k \in Keys |-> Committed(k)]]

ActiveTrxs == {u \in Trxs : Active(u)}

ViewsOf(t, type) == {i \in DOMAIN view_list : /\ view_list[i].creator = t
                                              /\ view_list[i].type = type}
HasView(t, type) == ViewsOf(t, type) # {}

AssignReadView(t) ==
    /\ Runs(t) /\ t \in Readers /\ ~HasView(t, "NORMAL")
    /\ view_list' = <<OpenView(t, "NORMAL", ActiveTrxs \ {t})>> \o view_list
    /\ UNCHANGED <<trxVars, rows, logVars, purgeVars, commitVars>>

\* A high-granularity view also does not see the creator's later changes.
CreateCursorView(t) ==
    /\ Runs(t) /\ t \in CursorUsers /\ ~HasView(t, "HIGH_GRANULARITY")
    /\ view_list' = <<OpenView(t, "HIGH_GRANULARITY", ActiveTrxs)>> \o view_list
    /\ UNCHANGED <<trxVars, rows, logVars, purgeVars, commitVars>>

\* At the end of a READ COMMITTED statement, or when the cursor is closed.
CloseView(t, type) ==
    /\ Runs(t)
    /\ \E i \in ViewsOf(t, type) : view_list' = RemoveAt(view_list, i)
    /\ UNCHANGED <<trxVars, rows, logVars, purgeVars, commitVars>>

\* The purge view: a copy of the oldest one that does not see its creator.
CopyOf(old) == Limits(old.trx_ids \cup {trx_id[old.creator]},
                      old.low_limit_id, old.low_limit_no)

\* mutant: the creator of the old view is seen
OldestCopySeeingCreator ==
    IF view_list = <<>> THEN LimitsNow(ActiveTrxs)
    ELSE LET old == view_list[Len(view_list)]
         IN  Limits(old.trx_ids, old.low_limit_id, old.low_limit_no)

OldestCopyOrOpenNew ==
    IF view_list = <<>> THEN LimitsNow(ActiveTrxs)
    ELSE CopyOf(view_list[Len(view_list)])

-----------------------------------------------------------------------------
(* Versions.                                                               *)

\* trx_undo_prev_version_build
PrevVersion(v) ==
    IF v.ins THEN NoRow
    ELSE IF Sees(purge_view, IdOf(v.by)) \/ v.un <= gone[v.by] THEN Missing
    ELSE undo[v.by][v.un].old

\* does the view read this version?
Accepts(view, v) ==
    \/ Sees(view, IdOf(v.by))
    \/ view.type = "HIGH_GRANULARITY" /\ v.by = view.creator /\ v.un <= view.undo_no

\* row_vers_build_for_consistent_read, from the newest version back
VersionRead(view, k) ==
    LET depth == MaxOps * Cardinality(Trxs)
        version[n \in 0..depth] ==
            IF n = 0 THEN rows[k]
            ELSE LET v == version[n - 1]
                 IN  IF v \in {NoRow, Missing} \/ Accepts(view, v) THEN v
                     ELSE PrevVersion(v)
    IN  version[depth]

-----------------------------------------------------------------------------
(* Changes of a record, each with its undo record.                         *)

Lockable(t, k) ==
    \A u \in Trxs \ {t} : /\ k \notin held[u]
                          /\ rows[k] # NoRow /\ Active(u) => rows[k].by # u

Change(t, k, type) ==
    /\ Runs(t) /\ t \in Writers /\ ops[t] < MaxOps /\ Lockable(t, k)
    /\ ops' = [ops EXCEPT ![t] = @ + 1]
    /\ undo' = [undo EXCEPT ![t] = Append(@, [type |-> type, key |-> k,
                                              old |-> rows[k]])]
    /\ logs' = [logs EXCEPT ![t] = @ \cup
                   (CASE type = "INSERT" -> {"INSERT"}
                      [] type = "DEL_MARK" -> {"UPDATE", "DEL_MARKS"}
                      [] OTHER -> {"UPDATE"})]
    /\ held' = [held EXCEPT ![t] = IF type = "INSERT" THEN @ ELSE @ \cup {k}]
    /\ rows' = [rows EXCEPT ![k] = [by |-> t, un |-> Len(undo[t]) + 1,
                                    del |-> type = "DEL_MARK",
                                    ins |-> type = "INSERT"]]
    /\ UNCHANGED <<trxVars, rolling, view_list, purgeVars, commitVars>>

\* The key is not there.
Insert(t, k) == rows[k] = NoRow /\ Change(t, k, "INSERT")

\* The key is there, but delete-marked: the record is written over.
InsertByModify(t, k) == rows[k] # NoRow /\ rows[k].del /\ Change(t, k, "UPD_DEL")

Update(t, k) == rows[k] # NoRow /\ ~rows[k].del /\ Change(t, k, "UPD_EXIST")

DelMark(t, k) == rows[k] # NoRow /\ ~rows[k].del /\ Change(t, k, "DEL_MARK")

-----------------------------------------------------------------------------
(* Rollback, of the whole transaction or to a savepoint.                   *)

Rollback(t, limit) ==
    /\ Runs(t) /\ limit < Len(undo[t])
    /\ rolling' = [rolling EXCEPT ![t] = [NoRoll EXCEPT !.on = TRUE, !.limit = limit]]
    /\ UNCHANGED <<trxVars, rows, undo, logs, held, ops, view_list, purgeVars,
                   commitVars>>

\* The top undo record is popped, or the one that made the previous version
\* of the record just restored is taken out of turn; that one finds later,
\* when it is on top, that the roll pointer in the record is not its own.
UndoRecord(t) ==
    LET r  == rolling[t]
        un == IF r.next # 0 THEN r.next ELSE Len(undo[t])
        u  == undo[t][un]
        applies == rows[u.key] # NoRow /\ rows[u.key].by = t /\ rows[u.key].un = un
        more == applies /\ u.old # NoRow /\ u.old.by = t /\ u.old.un > r.limit
    IN  /\ r.on /\ r.remove = NoRow
        /\ r.next # 0 \/ Len(undo[t]) > r.limit
        /\ rows' = IF applies THEN [rows EXCEPT ![u.key] = u.old] ELSE rows
        /\ undo' = IF r.next = 0 THEN [undo EXCEPT ![t] = SubSeq(@, 1, un - 1)]
                   ELSE undo
        /\ rolling' = [rolling EXCEPT
              ![t].next = IF more THEN u.old.un ELSE 0,
              ![t].remove = IF applies /\ u.type = "UPD_DEL" THEN u.key ELSE NoRow]
        /\ UNCHANGED <<trxVars, logs, held, ops, view_list, purgeVars, commitVars>>

\* not row_vers_must_preserve_del_marked(node->new_trx_id): the transaction restored
\* is the writer of the record still, for the record is locked by the one that
\* rolls back until that ends, and only purge may have taken it away.
RestoredIsGarbage(k) == rows[k] # NoRow /\ Sees(purge_view, IdOf(rows[k].by))

\* A delete-marked record was restored: it is removed at once when purge may
\* have passed it by in the meantime.
RemoveUndone(t) ==
    LET k == rolling[t].remove
    IN  /\ rolling[t].on /\ k # NoRow
        /\ rows' = IF RestoredIsGarbage(k) THEN [rows EXCEPT ![k] = NoRow] ELSE rows
        /\ rolling' = [rolling EXCEPT ![t].remove = NoRow]
        /\ UNCHANGED <<trxVars, undo, logs, held, ops, view_list, purgeVars,
                       commitVars>>

EndRollback(t) ==
    /\ rolling[t].on /\ rolling[t].remove = NoRow /\ rolling[t].next = 0
    /\ Len(undo[t]) <= rolling[t].limit
    /\ rolling' = [rolling EXCEPT ![t] = NoRoll]
    /\ UNCHANGED <<trxVars, rows, undo, logs, held, ops, view_list, purgeVars,
                   commitVars>>

-----------------------------------------------------------------------------
(* The life of a transaction.                                              *)

Start(t) ==
    /\ pc[t] = "NEW"
    /\ pc' = [pc EXCEPT ![t] = "RUN"]
    /\ trx_id' = [trx_id EXCEPT ![t] = max_trx_id]
    /\ max_trx_id' = max_trx_id + 1
    /\ UNCHANGED <<trx_no, rows, logVars, view_list, purgeVars, commitVars>>

TakeRsegMutex(t) == rseg_mutex = NoTrx /\ rseg_mutex' = t

\* Commit, also at the end of a rollback.  The server has closed the cursor.
AssignNo(t) ==
    /\ Runs(t) /\ "UPDATE" \in logs[t] /\ ~HasView(t, "HIGH_GRANULARITY")
    /\ TakeRsegMutex(t)
    /\ trx_no' = [trx_no EXCEPT ![t] = max_trx_id]
    /\ max_trx_id' = max_trx_id + 1
    /\ pc' = [pc EXCEPT ![t] = "NUMBERED"]
    /\ UNCHANGED <<trx_id, rows, logVars, view_list, purgeVars, history, rseg_last>>

RsegLast(t) == IF rseg_last = NoTrx THEN t ELSE rseg_last

AddToHistory(t) ==
    /\ pc[t] = "NUMBERED"
    /\ history' = Append(history, t)
    /\ rseg_last' = RsegLast(t)
    /\ rseg_mutex' = NoTrx
    /\ pc' = [pc EXCEPT ![t] = "IN_HISTORY"]
    /\ UNCHANGED <<max_trx_id, trx_id, trx_no, rows, logVars, view_list, purgeVars>>

\* mutant: the views of a transaction survive it
ViewsLeftOpen(t) == {view_list}

\* A transaction that ends has one view at most: its cursor is closed.
ViewsClosed(t) ==
    IF HasView(t, "NORMAL") THEN {RemoveAt(view_list, i) : i \in ViewsOf(t, "NORMAL")}
    ELSE {view_list}

\* From here on the changes are visible.  A transaction without an update undo
\* log has drawn no number.  Its insert undo log, if any, is freed.  Locks and
\* views go under the same hold of kernel_mutex, as they do when there are
\* fewer locks than LOCK_RELEASE_KERNEL_INTERVAL.
CommitInMemory(t) ==
    /\ \/ pc[t] = "IN_HISTORY"
       \/ Runs(t) /\ "UPDATE" \notin logs[t] /\ ~HasView(t, "HIGH_GRANULARITY")
    /\ pc' = [pc EXCEPT ![t] = "DONE"]
    /\ held' = [held EXCEPT ![t] = {}]
    /\ view_list' \in ViewsClosed(t)
    /\ UNCHANGED <<max_trx_id, trx_id, trx_no, rows, undo, logs, rolling, ops,
                   purgeVars, commitVars>>

-----------------------------------------------------------------------------
(* Purge.                                                                  *)

\* A batch begins with a new view, under the x-latch of purge_sys.
StartBatch ==
    /\ purge_sys.state = "STOP"
    /\ purge_view' = OldestCopyOrOpenNew
    /\ purge_sys' = [purge_sys EXCEPT !.state = "ON", !.handled = FALSE]
    /\ UNCHANGED <<trxVars, rows, logVars, view_list, commitVars, task, gone>>

NeedsPurge(t, n) == undo[t][n].type = "DEL_MARK"
IsUpdate(t, n) == undo[t][n].type # "INSERT"

\* The first record of the log; 0 is the dummy record of a log in which
\* there is nothing to purge.
FirstRec(t) ==
    LET recs == {n \in DOMAIN undo[t] : IsUpdate(t, n)}
    IN  IF "DEL_MARKS" \in logs[t] /\ recs # {} THEN Min(recs) ELSE 0

\* mutant: a record is skipped
NextRecsButOne(t, n) == {m \in (n + 2)..Len(undo[t]) : NeedsPurge(t, m)}

NextRecs(t, n) == {m \in (n + 1)..Len(undo[t]) : NeedsPurge(t, m)}

\* trx_purge_choose_next_log
ChooseLog(p, last) ==
    IF last = NoTrx THEN [p EXCEPT !.next_stored = FALSE]
    ELSE [p EXCEPT !.next_stored = TRUE, !.log = last, !.un = FirstRec(last),
                   !.trx_no = trx_no[last], !.undo_no = FirstRec(last)]

\* the log after t in the history list
LogAfter(t) ==
    IF \E i \in 1..(Len(history) - 1) : history[i] = t
    THEN history[1 + CHOOSE i \in DOMAIN history : history[i] = t] ELSE NoTrx

\* trx_purge_get_next_rec: where purge is once it has fetched its next record
AfterFetch(p) ==
    IF p.un # 0 /\ NextRecs(p.log, p.un) # {}
    THEN LET m == Min(NextRecs(p.log, p.un)) IN [p EXCEPT !.un = m, !.undo_no = m]
    ELSE ChooseLog([p EXCEPT !.trx_no = trx_no[p.log] + 1, !.undo_no = 0], rseg_last')

\* The next record is fetched, unless there is none, or none that all views
\* see; after that the limit of 20 pages may end the batch.
FetchNextRec ==
    /\ purge_sys.state = "ON" /\ task = NoTask /\ rseg_mutex = NoTrx
    /\ LET p == IF purge_sys.next_stored THEN purge_sys
                ELSE ChooseLog(purge_sys, rseg_last)
           allowed == p.next_stored /\ p.trx_no < purge_view.low_limit_no
       IN  \/ /\ allowed => p.handled
              /\ purge_sys' = [p EXCEPT !.state = "TRUNCATE"]
              /\ UNCHANGED <<task, rseg_last>>
           \/ /\ allowed
              /\ task' = [log |-> p.log, un |-> p.un]
              /\ rseg_last' = IF p.un # 0 /\ NextRecs(p.log, p.un) # {} THEN rseg_last
                              ELSE LogAfter(p.log)
              /\ purge_sys' = AfterFetch([p EXCEPT !.handled = TRUE])
    /\ UNCHANGED <<trxVars, rows, logVars, view_list, purge_view, gone, rseg_mutex,
                   history>>

\* mutant: any delete-marked record is removed
DelMarkedNow(k, t, n) == rows[k] # NoRow /\ rows[k].del

\* the roll pointer of the record is that of the undo record
NotChangedSince(k, t, n) == rows[k] # NoRow /\ rows[k].by = t /\ rows[k].un = n

\* row_purge: a delete-marked record goes unless it has been changed since.
RowPurge ==
    /\ task # NoTask
    /\ LET applies == task.un # 0 /\ NeedsPurge(task.log, task.un)
           k == undo[task.log][task.un].key
       IN  rows' = IF applies /\ NotChangedSince(k, task.log, task.un)
                   THEN [rows EXCEPT ![k] = NoRow] ELSE rows
    /\ task' = NoTask
    /\ UNCHANGED <<trxVars, logVars, view_list, purge_view, purge_sys, gone,
                   commitVars>>

\* The end of the batch: logs that are done with leave the history list one
\* by one, and of the log purge is in, undo pages that are.
TruncateHistory ==
    LET below == Min({purge_sys.trx_no, purge_view.low_limit_no})
        within == IF purge_sys.trx_no < purge_view.low_limit_no
                  THEN purge_sys.undo_no ELSE 0
    IN  /\ purge_sys.state = "TRUNCATE" /\ rseg_mutex = NoTrx
        /\ IF history # <<>> /\ trx_no[history[1]] < below
           THEN /\ gone' = [gone EXCEPT ![history[1]] = Len(undo[history[1]])]
                /\ history' = Tail(history)
                /\ UNCHANGED purge_sys
           ELSE /\ \/ UNCHANGED gone
                   \/ /\ history # <<>> /\ trx_no[history[1]] = below
                      /\ \E n \in gone[history[1]]..(within - 1) :
                            gone' = [gone EXCEPT ![history[1]] = n]
                /\ purge_sys' = [purge_sys EXCEPT !.state = "STOP"]
                /\ UNCHANGED history
        /\ UNCHANGED <<trxVars, rows, logVars, view_list, purge_view, task,
                       rseg_mutex, rseg_last>>

-----------------------------------------------------------------------------
Ended == \A t \in Trxs : pc[t] = "DONE"

Session(t) ==
    \/ AssignReadView(t) \/ CreateCursorView(t)
    \/ \E type \in {"NORMAL", "HIGH_GRANULARITY"} : CloseView(t, type)
    \/ \E k \in Keys : Insert(t, k) \/ InsertByModify(t, k) \/ Update(t, k) \/ DelMark(t, k)
    \/ \E limit \in 0..MaxOps : Rollback(t, limit)

\* What the code goes on with by itself once it has begun.
Proceed(t) ==
    \/ UndoRecord(t) \/ RemoveUndone(t) \/ EndRollback(t)
    \/ AddToHistory(t)
    \/ pc[t] = "IN_HISTORY" /\ CommitInMemory(t)

Purge == StartBatch \/ FetchNextRec \/ RowPurge \/ TruncateHistory

Terminated == Ended /\ UNCHANGED vars

Next ==
    \/ \E t \in Trxs : Start(t) \/ Session(t) \/ AssignNo(t) \/ CommitInMemory(t)
                          \/ Proceed(t)
    \/ Purge
    \/ Terminated

Spec == Init /\ [][Next]_vars

\* A session closes its cursor and comes to its end some day, whatever views it
\* opens and closes until then, and the master thread purges again and again.
FairSpec ==
    /\ Spec
    /\ \A t \in Trxs : /\ WF_vars(Start(t) \/ Proceed(t))
                       /\ WF_vars(CloseView(t, "HIGH_GRANULARITY"))
                       /\ SF_vars(AssignNo(t) \/ CommitInMemory(t))
    /\ WF_vars(Purge)

-----------------------------------------------------------------------------
(* Properties.                                                             *)

View == [trx_ids : SUBSET Nat, up_limit_id : Nat, low_limit_id : Nat,
         low_limit_no : Nat]

UndoRec == [type : {"INSERT", "UPD_DEL", "UPD_EXIST", "DEL_MARK"}, key : Keys,
            old : Version \cup {NoRow}]

\* Every variable has its type; only a running transaction owns a view.
TypeOK ==
    /\ max_trx_id \in 1..(Infinity - 1)
    /\ pc \in [Trxs -> {"NEW", "RUN", "NUMBERED", "IN_HISTORY", "DONE"}]
    /\ trx_id \in [Trxs -> 1..Infinity]
    /\ trx_no \in [Trxs -> 1..Infinity]
    /\ rows \in [Keys -> Version \cup {NoRow}]
    /\ undo \in [Trxs -> Seq(UndoRec)]
    /\ logs \in [Trxs -> SUBSET {"INSERT", "UPDATE", "DEL_MARKS"}]
    /\ held \in [Trxs -> SUBSET Keys]
    /\ rolling \in [Trxs -> [limit : 0..MaxOps, next : 0..MaxOps,
                             remove : Keys \cup {NoRow}, on : BOOLEAN]]
    /\ ops \in [Trxs -> 0..MaxOps]
    /\ purge_view \in View
    /\ rseg_mutex \in Trxs \cup {NoTrx}
    /\ history \in Seq(Trxs)
    /\ rseg_last \in Trxs \cup {NoTrx}
    /\ purge_sys \in [state : {"ON", "TRUNCATE", "STOP"}, trx_no : Nat,
                      undo_no : Nat, next_stored : BOOLEAN,
                      log : Trxs \cup {NoTrx}, un : Nat, handled : BOOLEAN]
    /\ task \in [log : Trxs \cup {NoTrx}, un : 0..MaxOps]
    /\ gone \in [Trxs -> 0..MaxOps]
    /\ \A i \in DOMAIN view_list : Active(view_list[i].creator)

Visible(v) == IF v \in {NoRow, Missing} \/ ~v.del THEN v ELSE NoRow

\* the changes of the record that the creator of the view made and the view
\* does see
OwnChanges(view, k) ==
    IF rows[k] # NoRow /\ rows[k].by = view.creator
    THEN {n \in 1..rows[k].un :
             /\ undo[view.creator][n].key = k
             /\ view.type = "HIGH_GRANULARITY" => n <= view.undo_no}
    ELSE {}

\* the record as it was when the view was opened, but for those changes
ExpectedRead(view, k) ==
    LET own == OwnChanges(view, k)
        n == Max(own)
        type == undo[view.creator][n].type
    IN  IF own = {} THEN Visible(view.snap[k])
        ELSE Visible([by |-> view.creator, un |-> n, del |-> type = "DEL_MARK",
                      ins |-> type = "INSERT"])

\* An open view always reads every record as it was committed when the view was
\* opened, plus the creator's own changes, whatever others have committed,
\* rolled back and purged since; and no undo record it needs is missing.
SnapshotReads ==
    \A i \in DOMAIN view_list, k \in Keys :
        Visible(VersionRead(view_list[i], k)) = ExpectedRead(view_list[i], k)

Started == {t \in Trxs : pc[t] # "NEW"}

\* Purge sees no transaction that an open view does not see, nor one that is
\* still active: the last view of the list is the oldest.
PurgeViewIsOldest ==
    \A t \in Started : Sees(purge_view, trx_id[t]) =>
        /\ ~Active(t)
        /\ \A i \in DOMAIN view_list : Sees(view_list[i], trx_id[t])

\* A number below low_limit_no is of a transaction that the view sees.  Purge
\* goes by numbers and readers go by ids, and a transaction draws its number
\* before its changes become visible.
LimitNoMeansSeen ==
    \A v \in {purge_view} \cup {view_list[i] : i \in DOMAIN view_list} :
        \A t \in Started : trx_no[t] < v.low_limit_no => Sees(v, trx_id[t])

\* Undo logs are in the history list in the order of the numbers, and a
\* transaction that built on the version of another has the greater number
\* ("T2 will always get a bigger transaction number").
HistoryFollowsNumbers ==
    /\ \A i, j \in DOMAIN history : i < j => trx_no[history[i]] < trx_no[history[j]]
    /\ \A t \in Trxs : \A n \in DOMAIN undo[t] :
          LET old == undo[t][n].old
          IN  old # NoRow /\ old.by \notin {t, NoTrx} =>
                  \/ trx_no[old.by] < trx_no[t]
                  \/ "UPDATE" \notin logs[old.by]
                  \/ trx_no[t] = Infinity

\* Ids, by which views see, numbers, by which purge goes, and the places in the
\* history list agree, although they are given under different mutexes.
OrdersAgree == PurgeViewIsOldest /\ LimitNoMeansSeen /\ HistoryFollowsNumbers

\* When all transactions have ended, purge comes to an end with nothing left.
GarbageCollected ==
    <>[](/\ history = <<>>
         /\ \A k \in Keys : rows[k] # NoRow => ~rows[k].del)
=============================================================================
