------------------------------ MODULE LockSys ------------------------------
(***************************************************************************)
(* The lock system: transactions that lock a table and the records of its  *)
(* clustered index, read, write, purge and roll back rows, wait for each   *)
(* other in the lock queues, are chosen as deadlock victims or time out,   *)
(* and release their locks when they end.  The index is one leaf page that *)
(* splits into two and merges again.                                       *)
(*                                                                         *)
(* kernel_mutex serialises every access to the lock table.  A call that    *)
(* holds it from its first to its last line is one action.  Two loops hold *)
(* it over several actions: the deadlock check and the release of locks at *)
(* the end of a transaction, which lets go of it after every               *)
(* LOCK_RELEASE_KERNEL_INTERVAL locks.  A row operation also holds the     *)
(* page latch, from its lock check until the row is changed, while others  *)
(* may release their locks.                                                *)
(***************************************************************************)
EXTENDS LockQueue

CONSTANTS NoTrx, NoRow, NoReq,   \* nobody, no record, nothing
          Plans                  \* what is there, and what is done, in a behaviour

\* trxs: the transactions that take part.  rows: the keys that committed records
\* have at first, and garbage: those that are delete-marked.  read_committed: the
\* transactions at that isolation level.
\* nontrans: those that edited non-transactional tables.  ix: who has taken IX to
\* begin with, and is: who has taken IS?  tables, reads: the modes of the table
\* locks, and of the locking reads.  splits: do the pages fill up and get empty?
\* timeouts: is innodb_lock_wait_timeout in force?  statements: bound on the
\* requests of each transaction.  interval: LOCK_RELEASE_KERNEL_INTERVAL.  depth:
\* LOCK_MAX_DEPTH_IN_DEADLOCK_CHECK.
PlanAssumption(p) ==
    /\ p.garbage \subseteq p.rows /\ p.rows \subseteq Keys
    /\ p.trxs \subseteq Trxs /\ IsFiniteSet(p.trxs)
    /\ p.read_committed \subseteq p.trxs
    /\ p.nontrans \subseteq p.trxs
    /\ p.ix \subseteq p.trxs /\ p.is \subseteq p.trxs
    /\ p.tables \subseteq Modes
    /\ p.reads \subseteq {"S", "X"}
    /\ p.splits \in BOOLEAN
    /\ p.timeouts \in BOOLEAN
    /\ p.statements \in [p.trxs -> Nat]
    /\ p.interval \in Nat \ {0}
    /\ p.depth \in Nat

\* A record: who changed it last, and whether it is delete-marked.
Row == [by : Trxs \cup {NoTrx}, del : BOOLEAN]

Request == [trx : Trxs \cup {NoTrx}, op : {"READ", "MODIFY", "INSERT", "COMPRESS"},
            key : Heap, gap : Gaps, del : BOOLEAN, inherit : BOOLEAN,
            step : {"CHECKED", "STORED", "SPLIT"}, page : Pages, first : BOOLEAN]

ASSUME NamesAssumption ==
    /\ NoTrx \notin Trxs
    /\ NoRow \notin Row
    /\ NoReq \notin Request
    /\ \A p \in Plans : PlanAssumption(p)

VARIABLES
    plan,
    locks,       \* lock_sys: every lock struct in the order of creation
    rows,        \* the index: the record at each key
    tree,        \* its leaf pages, and the last key of the first of two
    undo,        \* the undo log of each transaction
    conc_state,  \* of each transaction
    que_state,   \* "RUNNING" or "LOCK_WAIT"
    thr,         \* the query thread and its slot in srv_mysql_table
    chosen,      \* was_chosen_as_deadlock_victim
    expired,     \* its suspend_time is further back than the timeout
    error,       \* error_state
    kernel,      \* who holds kernel_mutex between two actions
    count,       \* locks released since kernel_mutex was last taken
    request,     \* the row operation that holds the page latch
    cursor,      \* READ COMMITTED: the row last read, and new_rec_locks
    statements,  \* requests made, against plan.statements
    scanned      \* history: the keys whose state locking reads have seen

vars == <<plan, locks, rows, tree, undo, conc_state, que_state, thr, chosen, expired, error,
          kernel, count, request, cursor, statements, scanned>>

waitVars == <<que_state, thr, chosen, expired, error>>
rowVars  == <<rows, tree, undo, scanned>>
holdVars == <<kernel, count, request>>

NoCursor == [key |-> 0, mode |-> "X", new |-> FALSE, waited |-> FALSE]

\* Table locks taken before the row operations; none waits for another, in whatever
\* order they were requested.
InitialLocks ==
    LET held == {NewTableLock(t, "IX", FALSE) : t \in plan.ix}
                    \cup {NewTableLock(t, "IS", FALSE) : t \in plan.is}
    IN  CHOOSE s \in [1..Cardinality(held) -> held] :
            \A l \in held : \E i \in DOMAIN s : s[i] = l

Init ==
    /\ plan \in Plans
    /\ locks = InitialLocks
    /\ rows = [k \in Keys |-> IF k \in plan.rows
                              THEN [by |-> NoTrx, del |-> k \in plan.garbage] ELSE NoRow]
    /\ tree = [leaves |-> <<Root>>, cut |-> 0]
    /\ undo = [t \in Trxs |-> <<>>]
    /\ conc_state = [t \in Trxs |-> IF t \in plan.trxs THEN "ACTIVE" ELSE "NOT_STARTED"]
    /\ que_state = [t \in Trxs |-> "RUNNING"]
    /\ thr = [t \in Trxs |-> "RUNNING"]
    /\ chosen = [t \in Trxs |-> FALSE]
    /\ expired = [t \in Trxs |-> FALSE]
    /\ error = [t \in Trxs |-> "SUCCESS"]
    /\ kernel = NoTrx
    /\ count = 0
    /\ request = NoReq
    /\ cursor = [t \in Trxs |-> NoCursor]
    /\ statements = [t \in Trxs |-> 0]
    /\ scanned = [t \in Trxs |-> {}]

-----------------------------------------------------------------------------
(* What the transactions and the pages look like.                          *)

Active(t) == t \in Trxs /\ conc_state[t] = "ACTIVE"

\* t holds the page latch in the middle of a row operation
Latches(t) == request # NoReq /\ request.trx = t

\* t executes a statement: it neither waits nor has to roll back
Runs(t) ==
    /\ Active(t) /\ thr[t] = "RUNNING" /\ que_state[t] = "RUNNING"
    /\ error[t] # "DEADLOCK"
    /\ kernel = NoTrx
    /\ statements[t] < plan.statements[t]
    /\ ~Latches(t)

Present(k) == rows[k] # NoRow
PageOf(h) ==
    IF h \in Suprema THEN h - SupremumOf(0)
    ELSE tree.leaves[IF Len(tree.leaves) = 2 /\ h > tree.cut THEN 2 ELSE 1]

RecordsOf(p) == {k \in Keys : Present(k) /\ PageOf(k) = p}
OnThePage(h) == PageOf(h) \in {tree.leaves[i] : i \in DOMAIN tree.leaves}
                    /\ (h \in Keys => Present(h))

Least(S) == CHOOSE m \in S : \A n \in S : m <= n
LeastOr(S, h) == IF S = {} THEN h ELSE Least(S)

NextOnPage(k) ==
    LeastOr({n \in RecordsOf(PageOf(k)) : n > k}, SupremumOf(PageOf(k)))

\* the keys of the gap before h
GapBefore(h) == {k \in Keys : k < h /\ ~Present(k) /\ NextOnPage(k) = h}

\* mutant: whether that transaction is still active is not looked at
SomeHadImpl(h) == rows[h].by

\* the active transaction that changed the record last has it x-locked
SomeHasImpl(h) == IF Active(rows[h].by) THEN rows[h].by ELSE NoTrx

ConvertImplToExpl(s, h) ==
    LET t == SomeHasImpl(h)
    IN  IF t = NoTrx \/ RecHasExpl(s, t, "X", "REC_NOT_GAP", h) THEN s
        ELSE RecAddToQueue(s, t, "X", "REC_NOT_GAP", PageOf(h), h)

HasWaitLock(s, t) == \E i \in DOMAIN s : s[i].trx = t /\ s[i].wait
WaitLock(t) == CHOOSE i \in DOMAIN locks : locks[i].trx = t /\ locks[i].wait

\* trx_end_lock_wait for those whose request was granted or cancelled
EndLockWaits(s) ==
    que_state' = [t \in Trxs |-> IF HasWaitLock(s, t) THEN que_state[t] ELSE "RUNNING"]

\* The query thread is released only if it has a slot: thr stays as it is
\* until it looks at que_state, in SrvSuspend or in Resume.

-----------------------------------------------------------------------------
(* Table locks.                                                            *)

\* A statement asks for a table lock.
LockTable(t, m) ==
    /\ Runs(t) /\ m \in plan.tables
    /\ ~TableHas(locks, t, m)
    /\ statements' = [statements EXCEPT ![t] = @ + 1]
    /\ error' = [error EXCEPT ![t] = "SUCCESS"]
    /\ LET waits == TableOtherHasIncompatible(locks, t, m)
       IN  /\ locks' = Append(locks, NewTableLock(t, m, waits))
           /\ kernel' = IF waits THEN t ELSE NoTrx
    /\ UNCHANGED <<que_state, thr, chosen, expired, rowVars, conc_state,
                   count, request, cursor>>

AutoIncLock(i) == locks[i].mode = "AUTO_INC" /\ ~locks[i].wait

\* The AUTO-INC lock goes at the end of the SQL statement.
UnlockAutoInc(t) ==
    /\ Active(t) /\ thr[t] = "RUNNING" /\ kernel = NoTrx
    /\ ~Latches(t)
    /\ \E i \in DOMAIN locks :
        /\ locks[i].trx = t /\ AutoIncLock(i)
        /\ locks' = Dequeue(locks, i)
    /\ EndLockWaits(locks')
    /\ UNCHANGED <<thr, chosen, expired, error, rowVars, conc_state, holdVars,
                   cursor, statements>>

-----------------------------------------------------------------------------
(* Row operations: the lock check.                                         *)

\* What a locking read has seen once its lock is granted.
SeenBy(g, h) ==
    (IF g # "REC_NOT_GAP" THEN GapBefore(h) ELSE {})
        \cup (IF g # "GAP" /\ h \in Keys THEN {h} ELSE {})

ReadSeen(t, g, h) ==
    scanned' = IF t \in plan.read_committed THEN scanned
               ELSE [scanned EXCEPT ![t] = @ \cup SeenBy(g, h)]

\* new_rec_locks: reset before every row, but not by the retry after a wait
SetCursor(t, m, h, new, waited) ==
    cursor' = IF t \in plan.read_committed
              THEN [cursor EXCEPT ![t] =
                      [key |-> h, mode |-> m, waited |-> waited,
                       new |-> new \/ (cursor[t].waited /\ cursor[t].key = h
                                        /\ cursor[t].new)]]
              ELSE cursor

\* The operation op of t on h holds the page latch.
Operation(t, op, h) ==
    [trx |-> t, op |-> op, key |-> h, gap |-> "GAP", del |-> FALSE, inherit |-> FALSE,
     step |-> "CHECKED", page |-> PageOf(h), first |-> FALSE]

\* The request has to wait: it is enqueued, and the deadlock check begins.
EnqueueWaiting(s, t, m, g, i, h) ==
    /\ locks' = Append(s, NewRecLock(t, m, g, i, PageOf(h), h, TRUE))
    /\ kernel' = t

\* A locking read of the record h, or of a supremum.
ReadCheckAndLock(t, m, g, h) ==
    /\ Runs(t) /\ request = NoReq /\ m \in plan.reads
    /\ h \in Keys \cup Suprema /\ OnThePage(h)
    /\ TableHas(locks, t, IF m = "X" THEN "IX" ELSE "IS")
    /\ h \in Suprema => g = "ORDINARY"
    /\ t \in plan.read_committed => g = "REC_NOT_GAP"
    /\ statements' = [statements EXCEPT ![t] = @ + 1]
    /\ error' = [error EXCEPT ![t] = "SUCCESS"]
    /\ LET s == IF h \in Suprema THEN locks ELSE ConvertImplToExpl(locks, h)
       IN  IF RecLockGrants(s, t, m, g, PageOf(h), h)
           THEN /\ locks' = RecLock(s, FALSE, t, m, g, PageOf(h), h)
                /\ ReadSeen(t, g, h)
                /\ SetCursor(t, m, h, locks' # s, FALSE)
                /\ UNCHANGED <<kernel, request>>
           ELSE /\ EnqueueWaiting(s, t, m, g, FALSE, h)
                /\ SetCursor(t, m, h, TRUE, TRUE)
                /\ request' = [Operation(t, "READ", h) EXCEPT !.gap = g]
                /\ UNCHANGED scanned
    /\ UNCHANGED <<rows, tree, undo, conc_state, que_state, thr, chosen, expired,
                   count>>

\* An update (del = FALSE) or a delete-marking (del = TRUE) of a record.
ModifyCheckAndLock(t, k, del) ==
    /\ Runs(t) /\ request = NoReq /\ Present(k)
    /\ TableHas(locks, t, "IX")
    /\ statements' = [statements EXCEPT ![t] = @ + 1]
    /\ error' = [error EXCEPT ![t] = "SUCCESS"]
    /\ request' = [Operation(t, "MODIFY", k) EXCEPT !.del = del]
    /\ LET s == ConvertImplToExpl(locks, k)
       IN  IF RecLockGrants(s, t, "X", "REC_NOT_GAP", PageOf(k), k)
           THEN /\ locks' = RecLock(s, TRUE, t, "X", "REC_NOT_GAP", PageOf(k), k)
                /\ UNCHANGED kernel
           ELSE EnqueueWaiting(s, t, "X", "REC_NOT_GAP", FALSE, k)
    /\ cursor' = [cursor EXCEPT ![t] = NoCursor]
    /\ UNCHANGED <<rowVars, conc_state, que_state, thr, chosen, expired,
                   count>>

\* An insert of a key that is not on the page, before the next record.
InsertCheckAndLock(t, k) ==
    /\ Runs(t) /\ request = NoReq /\ ~Present(k)
    /\ TableHas(locks, t, "IX")
    /\ statements' = [statements EXCEPT ![t] = @ + 1]
    /\ error' = [error EXCEPT ![t] = "SUCCESS"]
    /\ LET next == NextOnPage(k)
       IN  /\ request' = [Operation(t, "INSERT", k) EXCEPT
                             !.inherit = \E i \in DOMAIN locks : On(locks[i], next)]
           /\ IF RecOtherHasConflicting(locks, t, "X", "GAP", TRUE, next)
              THEN EnqueueWaiting(locks, t, "X", "GAP", TRUE, next)
              ELSE UNCHANGED <<locks, kernel>>
    /\ cursor' = [cursor EXCEPT ![t] = NoCursor]
    /\ UNCHANGED <<rowVars, conc_state, que_state, thr, chosen, expired,
                   count>>

-----------------------------------------------------------------------------
(* Row operations: the change of the row, and what it does to the pages.   *)

Writes(t, op) == Latches(t) /\ request.op = op /\ kernel = NoTrx

ChangeRow(t) ==
    LET k == request.key
    IN  /\ rows' = [rows EXCEPT ![k] = [by |-> t, del |-> request.del]]
        /\ undo' = [undo EXCEPT ![t] = Append(@, [key |-> k, old |-> rows[k]])]

\* the locks before a record goes to page p, which may have to be reorganised
\* to make room
MakeRoom(p) ==
    {locks} \cup (IF plan.splits THEN {MoveReorganizePage(locks, p)} ELSE {})

\* The page of k is perhaps so empty that it is merged with another.
PerhapsCompress(t, k) ==
    {NoReq} \cup (IF plan.splits /\ PageOf(k) # Root THEN {Operation(t, "COMPRESS", k)} ELSE {})

\* The new record inherits gap locks from the one behind it.
Insert(t) ==
    /\ Writes(t, "INSERT")
    /\ ChangeRow(t)
    /\ LET k == request.key
       IN  \E s \in MakeRoom(PageOf(k)) :
              locks' = IF request.inherit \/ request.step = "SPLIT"
                       THEN UpdateInsert(s, PageOf(k), k, NextOnPage(k)) ELSE s
    /\ request' = NoReq
    /\ UNCHANGED <<waitVars, tree, conc_state, kernel, count, cursor, statements, scanned>>

\* The record is delete-marked, or updated without a change of its size.
UpdateInPlace(t) ==
    /\ Writes(t, "MODIFY") /\ request.step = "CHECKED"
    /\ ChangeRow(t)
    /\ request' = NoReq
    /\ UNCHANGED <<locks, waitVars, tree, conc_state, kernel, count, cursor, statements,
                   scanned>>

\* Its size changes: it is removed from the page, whose infimum carries its locks
\* until it is there again.
StoreOnPageInfimum(t) ==
    /\ Writes(t, "MODIFY") /\ request.step = "CHECKED" /\ plan.splits /\ ~request.del
    /\ LET k == request.key
           p == PageOf(k)
       IN  /\ locks' = RecMove(locks, p, k, p, InfimumOf(p))
           /\ request' = [request EXCEPT !.step = "STORED",
                                         !.first = \A j \in RecordsOf(p) : k <= j]
    /\ UNCHANGED <<waitVars, rowVars, conc_state, kernel, count, cursor, statements>>

\* The only leaf is split, to the right or to the left, before the record is
\* inserted: the one that begins the right half is on the page or is the new one.
\* The root is first copied to another page.
Split(t) ==
    /\ plan.splits /\ Len(tree.leaves) = 1
    /\ \/ Writes(t, "INSERT") /\ request.step = "CHECKED"
       \/ Writes(t, "MODIFY") /\ request.step = "STORED"
    /\ \E cut \in Keys, right \in BOOLEAN :
        LET leaf == tree.leaves[1]
            k == request.key
            others == RecordsOf(leaf) \ {k}
            upper == {j \in others : j > cut}
            p == IF leaf = Root THEN 1 ELSE leaf
            q == 3 - p
            s == IF leaf = Root THEN RootRaise(locks, others, p) ELSE locks
        IN  /\ cut + 1 \in (IF right THEN others \cup {k} ELSE others)
            /\ \E j \in others \cup {k} : j <= cut
            /\ locks' = IF right
                        THEN SplitRight(s, p, upper, q, LeastOr(upper, SupremumOf(q)),
                                        plan.read_committed)
                        ELSE SplitLeft(s, p, others \ upper, q, Least(upper),
                                       plan.read_committed)
            /\ tree' = [leaves |-> IF right THEN <<p, q>> ELSE <<q, p>>, cut |-> cut]
    /\ request' = [request EXCEPT !.step = "SPLIT"]
    /\ UNCHANGED <<waitVars, rows, undo, scanned, conc_state, kernel, count, cursor,
                   statements>>

\* The new form of the record is inserted and takes its locks back.  If a split
\* made it the first of its page, the supremum before it, which has inherited
\* from the record behind it, inherits from it.
RestoreFromPageInfimum(t) ==
    /\ Writes(t, "MODIFY") /\ request.step \in {"STORED", "SPLIT"}
    /\ ChangeRow(t)
    /\ LET k == request.key
           p == PageOf(k)
       IN  /\ \E s \in IF request.step = "STORED" THEN MakeRoom(p) ELSE {locks} :
                LET back == RecMove(s, request.page, InfimumOf(request.page), p, k)
                IN  locks' = IF /\ request.step = "SPLIT" /\ ~request.first
                                /\ \A j \in RecordsOf(p) : k <= j
                             THEN RestoreSupremum(back, tree.leaves[1], k, plan.read_committed)
                             ELSE back
           /\ request' \in IF request.step = "STORED" THEN PerhapsCompress(t, k) ELSE {NoReq}
    /\ EndLockWaits(locks')
    /\ UNCHANGED <<thr, chosen, expired, error, tree, conc_state, kernel, count, cursor,
                   statements, scanned>>

\* The page is merged to the one on its left or on its right, or the only leaf
\* is copied back to the root.
Compress ==
    /\ request # NoReq /\ request.op = "COMPRESS" /\ kernel = NoTrx
    /\ LET p == PageOf(request.key)
           ks == RecordsOf(p)
           Other == tree.leaves[IF p = tree.leaves[1] THEN 2 ELSE 1]
       IN  IF Len(tree.leaves) = 1
           THEN /\ locks' = CopyAndDiscard(locks, p, ks)
                /\ tree' = [leaves |-> <<Root>>, cut |-> 0]
           ELSE /\ \E s \in MakeRoom(Other) :
                     locks' = IF p = tree.leaves[2]
                              THEN MergeLeft(s, Other, p, ks, Least(ks), plan.read_committed)
                              ELSE MergeRight(s, p, Other, ks,
                                              LeastOr(RecordsOf(Other), SupremumOf(Other)),
                                              plan.read_committed)
                /\ tree' = [leaves |-> <<Other>>, cut |-> 0]
    /\ request' = NoReq
    /\ EndLockWaits(locks')
    /\ UNCHANGED <<thr, chosen, expired, error, rows, undo, scanned, conc_state, kernel,
                   count, cursor, statements>>

\* The record k is removed by t, or by purge, and with it the page if it is the
\* only one there and the page is not the root.
RemoveRecord(t, k) ==
    LET p == PageOf(k)
        leaves == tree.leaves
        heirs == IF Len(leaves) = 1 THEN <<Root, SupremumOf(Root)>>
                 ELSE IF p = leaves[2] THEN <<leaves[1], SupremumOf(leaves[1])>>
                 ELSE <<leaves[2], LeastOr(RecordsOf(leaves[2]), SupremumOf(leaves[2]))>>
    IN  IF p # Root /\ RecordsOf(p) = {k}
        THEN /\ locks' = Discard(locks, p, k, heirs[1], heirs[2], plan.read_committed)
             /\ tree' = [leaves |-> <<heirs[1]>>, cut |-> 0]
             /\ request' = NoReq
        ELSE /\ locks' = UpdateDelete(locks, k, p, NextOnPage(k), plan.read_committed)
             /\ request' \in PerhapsCompress(t, k)
             /\ UNCHANGED tree

\* MySQL found that the row just read does not match, and its lock is new.
UnlockRow(t) ==
    /\ Active(t) /\ thr[t] = "RUNNING" /\ que_state[t] = "RUNNING"
    /\ kernel = NoTrx /\ request = NoReq
    /\ cursor[t].new /\ ~cursor[t].waited /\ OnThePage(cursor[t].key)
    /\ locks' = RecUnlock(locks, t, cursor[t].key, cursor[t].mode)
    /\ EndLockWaits(locks')
    /\ cursor' = [cursor EXCEPT ![t] = NoCursor]
    /\ UNCHANGED <<thr, chosen, expired, error, rowVars, conc_state, holdVars,
                   statements>>

-----------------------------------------------------------------------------
(* The deadlock check, made by the transaction that holds kernel_mutex     *)
(* right after it enqueued a waiting request.                              *)

Checks(t) == kernel = t /\ Active(t)

WaitsFor(t, u) ==
    \E i, j \in DOMAIN locks : /\ locks[i].trx = t /\ locks[i].wait
                               /\ locks[j].trx = u
                               /\ Blocks(locks, j, i)

\* The search starts at t and goes on from those that are in a lock wait.
Expanded(t, u) == u = t \/ que_state[u] = "LOCK_WAIT"

SearchReaches(t, u) ==
    \A C \in SUBSET Trxs :
        /\ t \in C
        /\ \A v \in C, w \in Trxs :
              Expanded(t, v) /\ WaitsFor(v, w) /\ Expanded(t, w) => w \in C
        => u \in C

\* mutant: only locks that are granted are waited for
InGrantedCycle(t, w) ==
    /\ w # t /\ SearchReaches(t, w) /\ WaitsFor(w, t)
    /\ \E j \in DOMAIN locks : /\ locks[j].trx = w /\ ~locks[j].wait
                              /\ Blocks(locks, j, WaitLock(t))

InCycle(t, w) == w # t /\ SearchReaches(t, w) /\ WaitsFor(w, t)

\* a chain of transactions, each waiting for the next, that is too long
TooFar(t) ==
    /\ plan.depth + 2 \leq Cardinality(Trxs)
    /\ \E p \in [0..(plan.depth + 2) -> Trxs] :
        /\ p[0] = t
        /\ \A i \in 0..(plan.depth + 1) :
              Expanded(t, p[i]) /\ WaitsFor(p[i], p[i + 1])

Weight(t) == Len(undo[t]) + Cardinality({i \in DOMAIN locks : locks[i].trx = t})

\* trx_weight_cmp(w, t) >= 0
AsHeavyAs(w, t) ==
    IF (w \in plan.nontrans) = (t \in plan.nontrans)
    THEN Weight(w) >= Weight(t) ELSE w \in plan.nontrans

\* lock_cancel_waiting_and_release
CancelWaiting(t) ==
    /\ locks' = Dequeue(locks, WaitLock(t))
    /\ EndLockWaits(locks')

\* A lighter transaction is the victim, and the search is made again.
VictimIsOther(t, w) ==
    /\ Checks(t) /\ HasWaitLock(locks, t)
    /\ InCycle(t, w) /\ ~AsHeavyAs(w, t)
    /\ CancelWaiting(w)
    /\ chosen' = [chosen EXCEPT ![w] = TRUE]
    /\ UNCHANGED <<thr, expired, error, rowVars, conc_state, holdVars, cursor,
                   statements>>

\* t is the victim itself: its request is withdrawn and it is told so.
VictimIsStart(t) ==
    /\ Checks(t) /\ HasWaitLock(locks, t)
    /\ TooFar(t) \/ \E w \in Trxs : InCycle(t, w) /\ AsHeavyAs(w, t)
    /\ LET i == WaitLock(t)
       IN  /\ locks' = IF locks[i].type = "TABLE" THEN Without(locks, i)
                       ELSE ForgetRecWait(locks, i)
    /\ error' = [error EXCEPT ![t] = "DEADLOCK"]
    /\ kernel' = NoTrx
    /\ request' = IF Latches(t) THEN NoReq ELSE request
    /\ cursor' = [cursor EXCEPT ![t] = NoCursor]
    /\ UNCHANGED <<que_state, thr, chosen, expired, rowVars, conc_state, count,
                   statements>>

\* No cycle is left and the request is still not granted: t goes to wait, and
\* gives up the page latch.
StartLockWait(t) ==
    /\ Checks(t) /\ HasWaitLock(locks, t)
    /\ ~TooFar(t) /\ \A w \in Trxs : ~InCycle(t, w)
    /\ que_state' = [que_state EXCEPT ![t] = "LOCK_WAIT"]
    /\ thr' = [thr EXCEPT ![t] = "TO_SUSPEND"]
    /\ chosen' = [chosen EXCEPT ![t] = FALSE]
    /\ kernel' = NoTrx
    /\ request' = IF Latches(t) THEN NoReq ELSE request
    /\ UNCHANGED <<locks, expired, error, rowVars, conc_state, count, cursor,
                   statements>>

\* The victims made room: the request was granted, and the operation goes on.
GrantedMeanwhile(t) ==
    /\ Checks(t) /\ ~HasWaitLock(locks, t)
    /\ kernel' = NoTrx
    /\ IF Latches(t) /\ request.op = "READ"
       THEN /\ ReadSeen(t, request.gap, request.key)
            /\ request' = NoReq
            /\ cursor' = [cursor EXCEPT ![t].waited = FALSE]
       ELSE UNCHANGED <<scanned, request, cursor>>
    /\ UNCHANGED <<locks, waitVars, rows, tree, undo, conc_state, count, statements>>

-----------------------------------------------------------------------------
(* The lock wait of a query thread, and how it ends.                       *)

\* The thread takes a slot, unless its wait is over already.
SrvSuspend(t) ==
    /\ thr[t] = "TO_SUSPEND" /\ kernel = NoTrx
    /\ expired' = [expired EXCEPT ![t] = FALSE]
    /\ IF que_state[t] = "RUNNING"
       THEN /\ thr' = [thr EXCEPT ![t] = "RUNNING"]
            /\ error' = [error EXCEPT ![t] = IF chosen[t] THEN "DEADLOCK" ELSE "SUCCESS"]
            /\ chosen' = [chosen EXCEPT ![t] = FALSE]
       ELSE /\ thr' = [thr EXCEPT ![t] = "SUSPENDED"]
            /\ error' = [error EXCEPT ![t] = "SUCCESS"]
            /\ UNCHANGED chosen
    /\ UNCHANGED <<locks, que_state, rowVars, conc_state, holdVars, cursor,
                   statements>>

\* Time passes: the wait is longer than innodb_lock_wait_timeout.
Expire(t) ==
    /\ plan.timeouts /\ thr[t] = "SUSPENDED" /\ ~expired[t]
    /\ expired' = [expired EXCEPT ![t] = TRUE]
    /\ UNCHANGED <<locks, que_state, thr, chosen, error, rowVars, conc_state,
                   holdVars, cursor, statements>>

\* The timeout thread finds the slot, and the request may still be there.
TimeoutCancels(t) ==
    /\ kernel = NoTrx /\ thr[t] = "SUSPENDED" /\ expired[t]
    /\ HasWaitLock(locks, t)
    /\ CancelWaiting(t)
    /\ UNCHANGED <<thr, chosen, expired, error, rowVars, conc_state, holdVars,
                   cursor, statements>>

\* The thread wakes up.  Its time is looked at last.
Resume(t) ==
    /\ thr[t] = "SUSPENDED" /\ que_state[t] = "RUNNING" /\ kernel = NoTrx
    /\ thr' = [thr EXCEPT ![t] = "RUNNING"]
    /\ chosen' = [chosen EXCEPT ![t] = FALSE]
    /\ error' = [error EXCEPT ![t] = IF expired[t] THEN "LOCK_WAIT_TIMEOUT"
                                     ELSE IF chosen[t] THEN "DEADLOCK" ELSE "SUCCESS"]
    /\ cursor' = IF error'[t] = "SUCCESS" THEN cursor
                 ELSE [cursor EXCEPT ![t] = NoCursor]
    /\ UNCHANGED <<locks, que_state, expired, rowVars, conc_state, holdVars,
                   statements>>

\* A semi-consistent read does not wait: it takes its request back and goes
\* on with the last committed version of the row.
SemiConsistentRead(t) ==
    /\ thr[t] = "TO_SUSPEND" /\ kernel = NoTrx /\ t \in plan.read_committed
    /\ cursor[t].waited /\ ~chosen[t]
    /\ IF HasWaitLock(locks, t)
       THEN /\ CancelWaiting(t)
            /\ cursor' = [cursor EXCEPT ![t] = NoCursor]
       ELSE /\ cursor' = [cursor EXCEPT ![t].waited = FALSE]
            /\ UNCHANGED <<locks, que_state>>
    /\ thr' = [thr EXCEPT ![t] = "RUNNING"]
    /\ UNCHANGED <<chosen, expired, error, rowVars, conc_state, holdVars,
                   statements>>

-----------------------------------------------------------------------------
(* Rollback, purge and the end of a transaction.                           *)

\* The newest undo record is applied.  An insert is undone by removing the
\* record, and the record behind it inherits its locks.
RollbackOne(t) ==
    /\ Active(t) /\ thr[t] = "RUNNING" /\ undo[t] # <<>>
    /\ kernel = NoTrx /\ request = NoReq
    /\ LET u == undo[t][Len(undo[t])]
       IN  /\ rows' = [rows EXCEPT ![u.key] = u.old]
           /\ IF u.old = NoRow THEN RemoveRecord(t, u.key)
              ELSE UNCHANGED <<locks, tree, request>>
    /\ undo' = [undo EXCEPT ![t] = SubSeq(@, 1, Len(@) - 1)]
    /\ EndLockWaits(locks')
    /\ cursor' = [cursor EXCEPT ![t] = NoCursor]
    /\ UNCHANGED <<thr, chosen, expired, error, conc_state, kernel, count, statements,
                   scanned>>

\* Purge removes a delete-marked record nobody can still need.
Purge(k) ==
    /\ Present(k) /\ rows[k].del /\ ~Active(rows[k].by)
    /\ kernel = NoTrx /\ request = NoReq
    /\ rows' = [rows EXCEPT ![k] = NoRow]
    /\ RemoveRecord(NoTrx, k)
    /\ EndLockWaits(locks')
    /\ UNCHANGED <<undo, thr, chosen, expired, error, conc_state, kernel, count,
                   cursor, statements, scanned>>

\* Commit, or the end of a rollback: committed in memory first, and then the
\* locks are released, under the same hold of kernel_mutex.
EndTrx(t) ==
    /\ Active(t) /\ thr[t] = "RUNNING" /\ kernel = NoTrx
    /\ ~Latches(t)
    /\ error[t] = "DEADLOCK" => undo[t] = <<>>
    /\ conc_state' = [conc_state EXCEPT ![t] = "COMMITTED_IN_MEMORY"]
    /\ undo' = [undo EXCEPT ![t] = <<>>]
    /\ scanned' = [scanned EXCEPT ![t] = {}]
    /\ cursor' = [cursor EXCEPT ![t] = NoCursor]
    /\ kernel' = t
    /\ count' = 0
    /\ UNCHANGED <<locks, waitVars, rows, tree, request, statements>>

Releases(t) == conc_state[t] = "COMMITTED_IN_MEMORY" /\ kernel \in {t, NoTrx}

\* The last lock of the transaction leaves its queue.
ReleaseLock(t) ==
    /\ Releases(t)
    /\ \E i \in DOMAIN locks :
        /\ locks[i].trx = t
        /\ \A j \in (i + 1)..Len(locks) : locks[j].trx # t
        /\ locks' = Dequeue(locks, i)
    /\ EndLockWaits(locks')
    /\ count' = IF count + 1 = plan.interval THEN 0 ELSE count + 1
    /\ kernel' = IF count + 1 = plan.interval THEN NoTrx ELSE t
    /\ UNCHANGED <<thr, chosen, expired, error, rowVars, conc_state, request,
                   cursor, statements>>

Released(t) ==
    /\ Releases(t)
    /\ \A i \in DOMAIN locks : locks[i].trx # t
    /\ conc_state' = [conc_state EXCEPT ![t] = "NOT_STARTED"]
    /\ kernel' = NoTrx
    /\ count' = 0
    /\ UNCHANGED <<locks, waitVars, rowVars, request, cursor, statements>>

AllEnded == \A t \in Trxs : conc_state[t] = "NOT_STARTED"

Terminated == AllEnded /\ UNCHANGED vars

-----------------------------------------------------------------------------
Statement(t) ==
    \/ \E m \in plan.tables : LockTable(t, m)
    \/ \E m \in plan.reads, g \in Gaps, h \in Heap : ReadCheckAndLock(t, m, g, h)
    \/ \E k \in Keys, del \in BOOLEAN : ModifyCheckAndLock(t, k, del)
    \/ \E k \in Keys : InsertCheckAndLock(t, k)
    \/ UnlockAutoInc(t)
    \/ UnlockRow(t)

DeadlockCheck(t) ==
    \/ \E w \in Trxs : VictimIsOther(t, w)
    \/ VictimIsStart(t)
    \/ StartLockWait(t)
    \/ GrantedMeanwhile(t)

\* What the code goes on with by itself once it has begun.
Proceed(t) ==
    \/ Insert(t)
    \/ UpdateInPlace(t)
    \/ StoreOnPageInfimum(t)
    \/ Split(t)
    \/ RestoreFromPageInfimum(t)
    \/ DeadlockCheck(t)
    \/ SrvSuspend(t)
    \/ Resume(t)
    \/ ReleaseLock(t)
    \/ Released(t)

Next ==
    /\ \/ \E t \in Trxs :
           \/ Statement(t)
           \/ Proceed(t)
           \/ Expire(t) \/ TimeoutCancels(t) \/ SemiConsistentRead(t)
           \/ RollbackOne(t) \/ EndTrx(t)
       \/ \E k \in Keys : Purge(k)
       \/ Compress
       \/ Terminated
    /\ UNCHANGED plan

Spec == Init /\ [][Next]_vars

\* The server never stops in the middle of what it has begun, and a session
\* that is not waiting comes to its end some day.  No timeout is assumed.
FairSpec ==
    /\ Spec
    /\ WF_vars(Compress /\ UNCHANGED plan)
    /\ \A t \in Trxs :
           /\ WF_vars(Proceed(t) /\ UNCHANGED plan)
           /\ WF_vars(EndTrx(t) /\ UNCHANGED plan)
           /\ WF_vars(RollbackOne(t) /\ error[t] = "DEADLOCK" /\ UNCHANGED plan)

-----------------------------------------------------------------------------
(* Properties.                                                             *)

Free == kernel = NoTrx

Cursor == [key : 0..(MaxKey + 3), mode : plan.reads \cup {"X"}, new : BOOLEAN,
           waited : BOOLEAN]

\* Every variable has its type; a waiting record lock has exactly one bit, and
\* a transaction has at most one request waiting (trx->wait_lock), outside the
\* deadlock check only in a lock wait; a record that moves from page to page or is
\* removed leaves no bit behind on a page; a transaction that has released its locks owns none
\* again, as nobody converts an implicit lock for it or lets it inherit one.
TypeOK ==
    /\ locks \in Seq(LockStruct)
    /\ rows \in [Keys -> Row \cup {NoRow}]
    /\ undo \in [Trxs -> Seq([key : Keys, old : Row \cup {NoRow}])]
    /\ conc_state \in [Trxs -> {"ACTIVE", "COMMITTED_IN_MEMORY", "NOT_STARTED"}]
    /\ que_state \in [Trxs -> {"RUNNING", "LOCK_WAIT"}]
    /\ thr \in [Trxs -> {"RUNNING", "TO_SUSPEND", "SUSPENDED"}]
    /\ chosen \in [Trxs -> BOOLEAN]
    /\ expired \in [Trxs -> BOOLEAN]
    /\ error \in [Trxs -> {"SUCCESS", "DEADLOCK", "LOCK_WAIT_TIMEOUT"}]
    /\ kernel \in Trxs \cup {NoTrx}
    /\ count \in 0..(plan.interval - 1)
    /\ request \in Request \cup {NoReq}
    /\ cursor \in [Trxs -> Cursor]
    /\ statements \in [Trxs -> Nat]
    /\ \A t \in plan.trxs : statements[t] <= plan.statements[t]
    /\ scanned \in [Trxs -> SUBSET Keys]
    /\ \A i \in DOMAIN locks : locks[i].wait =>
          /\ locks[i].type = "REC" => \E h \in Heap : locks[i].bits = {h}
          /\ \A j \in DOMAIN locks : locks[j].wait /\ locks[j].trx = locks[i].trx => i = j
          /\ que_state[locks[i].trx] = "LOCK_WAIT" \/ kernel = locks[i].trx
    /\ tree \in [leaves : {<<Root>>, <<1>>, <<2>>, <<1, 2>>, <<2, 1>>}, cut : {0} \cup Keys]
    /\ request = NoReq => \A i \in DOMAIN locks : \A h \in locks[i].bits :
          h \in Keys \cup Suprema /\ OnThePage(h) /\ PageOf(h) = locks[i].page
    /\ \A i \in DOMAIN locks : conc_state[locks[i].trx] # "NOT_STARTED"

\* l locks the record h itself, and not only the gap before it
LocksRecord(l, h) == On(l, h) /\ h \in Keys /\ l.gap # "GAP" /\ ~l.ii

ClashOn(l1, l2) ==
    /\ l1.trx # l2.trx
    /\ ~Compatible(l1.mode, l2.mode)
    /\ \/ l1.type = "TABLE" /\ l2.type = "TABLE"
       \/ \E h \in Keys : LocksRecord(l1, h) /\ LocksRecord(l2, h)

\* No two transactions have been granted locks on a record, or on the table,
\* whose modes are incompatible.  The conversion of implicit locks and the
\* inheriting of gap locks add granted locks without looking at the queue.
GrantedLocksCompatible ==
    \A i, j \in DOMAIN locks :
        ~locks[i].wait /\ ~locks[j].wait => ~ClashOn(locks[i], locks[j])

\* The record an active transaction changed is locked by nobody else, with or
\* without a lock struct of its own: the implicit lock is exclusive.
ImplicitLockExclusive ==
    \A k \in Keys : Present(k) /\ Active(rows[k].by) =>
        \A i \in DOMAIN locks :
            LocksRecord(locks[i], k) /\ ~locks[i].wait => locks[i].trx = rows[k].by

\* Locks exclude each other, whether they are explicit or implicit.
LocksExclude == GrantedLocksCompatible /\ ImplicitLockExclusive

\* Whoever waits has a conflicting request of another transaction ahead in the
\* queue: no release, cancellation, removal of a row or rollback forgets to
\* grant a lock whose turn has come.
WaitersAreBlocked ==
    Free => \A i \in DOMAIN locks : locks[i].wait => HasToWaitInQueue(locks, i)

\* When kernel_mutex is free no transactions wait for each other in a circle:
\* the check at the time a request is enqueued is enough, although queues
\* change later by grants, inherited locks and converted implicit locks.
NoCycle ==
    Free => \A C \in (SUBSET Trxs) \ {{}} :
                \E t \in C : \A u \in C : ~WaitsFor(t, u)

Visible(r) == r # NoRow /\ ~r.del

\* What a locking read of a transaction at REPEATABLE READ or above has seen
\* stays as it is until that transaction ends, unless it changes it itself:
\* no other one updates, deletes, inserts or brings back by its rollback a row
\* in the records and gaps read, however many of them were purged, inserted or
\* rolled back in between.
LockingReadsRepeatable ==
    [][\A t \in Trxs : \A k \in scanned[t] :
          \/ Visible(rows[k]) = Visible(rows'[k])
             /\ (Visible(rows[k]) => rows[k].by = rows'[k].by)
          \/ undo'[t] # undo[t]]_vars

\* Every lock wait comes to an end, without a timeout.
LockWaitsEnd ==
    \A t \in Trxs : que_state[t] = "LOCK_WAIT" ~> que_state[t] # "LOCK_WAIT"
=============================================================================
