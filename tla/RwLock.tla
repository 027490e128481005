-------------------------------- MODULE RwLock --------------------------------
(***************************************************************************)
(* The read-write lock of sync/sync0rw.c and include/sync0rw.ic: the       *)
(* version whose fields are all protected by lock->mutex.  A section under *)
(* that mutex is one step (IbMutex shows that the mutex excludes); the     *)
(* signal of an unlock comes after its section and is a step of its own.   *)
(*                                                                         *)
(* The holders of the lock are kept beside its fields: a thread holds what *)
(* its calls have returned.  A lock taken with pass # 0 is not held by the *)
(* thread that took it: the i/o thread that completes the page's read or   *)
(* write unlocks it.                                                       *)
(***************************************************************************)
EXTENDS OsEvent, FiniteSets

CONSTANTS
    Threads,     \* the threads that use the lock
    IoThreads,   \* those of them that complete page reads and writes
    NoThread,    \* writer_thread before the first x-lock
    MaxRounds,   \* bound: lock calls of one thread
    MaxDepth     \* bound: x-locks a thread holds at the same time

ASSUME RwLockAssumption ==
    /\ IsFiniteSet(Threads)
    /\ IoThreads \subseteq Threads
    /\ NoThread \notin Threads
    /\ MaxRounds \in Nat
    /\ MaxDepth \in Nat \ {0}

VARIABLES
    writer,          \* lock->writer
    reader_count,    \* lock->reader_count
    writer_thread,   \* lock->writer_thread
    writer_count,    \* lock->writer_count
    pass,            \* lock->pass: 0, or 1 for any other value
    wait_ex,         \* lock->writer_is_wait_ex
    waiters,         \* lock->waiters
    event,           \* lock->event
    s_held,          \* the threads that hold an s-lock
    s_passed,        \* s-locks passed, not unlocked yet
    x_held,          \* x-locks each thread holds
    x_passed,        \* is an x-lock passed and not picked up yet?
    pc,              \* where each thread is
    request,         \* the pass value of the x-lock call a thread is in
    count,           \* signal_count of the cell a thread has reserved
    rounds           \* lock calls made so far

fields == <<writer, reader_count, writer_thread, writer_count, pass, wait_ex>>
holders == <<s_held, s_passed, x_held, x_passed>>
vars == <<fields, waiters, event, holders, pc, request, count, rounds>>

NOT_LOCKED == "RW_LOCK_NOT_LOCKED"
EX == "RW_LOCK_EX"
WAIT_EX == "RW_LOCK_WAIT_EX"

Labels == {"idle", "s_spin", "s_spin_passed", "s_wait", "s_wait_passed",
           "x_first", "x_second", "x_wait", "signal"}

Goto(t, label) == pc' = [pc EXCEPT ![t] = label]

\* rw_lock_create_func
Init ==
    /\ writer = NOT_LOCKED
    /\ reader_count = 0
    /\ writer_thread = NoThread
    /\ writer_count = 0
    /\ pass = 0
    /\ wait_ex = FALSE
    /\ waiters = 0
    /\ event = EventCreate
    /\ s_held = {}
    /\ s_passed = 0
    /\ x_held = [t \in Threads |-> 0]
    /\ x_passed = FALSE
    /\ pc = [t \in Threads |-> "idle"]
    /\ request = [t \in Threads |-> 0]
    /\ count = [t \in Threads |-> 0]
    /\ rounds = [t \in Threads |-> 0]

-----------------------------------------------------------------------------
\* A latch is not s-locked recursively, nor requested in the other mode, by
\* a thread that holds it (the NOTEs of rw_lock_s_lock_func and of
\* rw_lock_x_lock_func).  An i/o thread never waits for a page latch: it only
\* takes again the one whose ownership it has moved to itself.
MayRequest(t) ==
    /\ pc[t] = "idle"
    /\ t \in IoThreads => x_held[t] > 0
    /\ t \notin s_held
    /\ rounds[t] < MaxRounds
    /\ rounds' = [rounds EXCEPT ![t] = @ + 1]

\* A second x-lock is for the owner of one that is not, or no longer, passed.
MayRequestX(t, p) ==
    /\ MayRequest(t)
    /\ x_held[t] > 0 =>
          p = 0 /\ pass = 0 /\ writer_thread = t /\ x_held[t] < MaxDepth

\* mutant: the reader is not counted
GrantSharedUncounted(t, passed) ==
    /\ IF passed THEN s_passed' = s_passed + 1 /\ UNCHANGED s_held
                 ELSE s_held' = s_held \cup {t} /\ UNCHANGED s_passed
    /\ UNCHANGED <<fields, x_held, x_passed>>

\* The s-lock is granted, to t or, when passed, to nobody in particular.
GrantShared(t, passed) ==
    /\ reader_count' = reader_count + 1
    /\ IF passed THEN s_passed' = s_passed + 1 /\ UNCHANGED s_held
                 ELSE s_held' = s_held \cup {t} /\ UNCHANGED s_passed
    /\ UNCHANGED <<writer, writer_thread, writer_count, pass, wait_ex, x_held,
                   x_passed>>

\* mutant: readers overtake a writer that waits for readers to leave
SLockOvertaking(t, passed) == writer # EX /\ GrantShared(t, passed)

\* rw_lock_s_lock_low succeeds when the writer field is free.
SLockLow(t, passed) == writer = NOT_LOCKED /\ GrantShared(t, passed)

\* sync_array_reserve_cell resets the event; then rw_lock_set_waiters(lock, 1).
ReserveCell(t) ==
    /\ event' = EventReset(event)
    /\ count' = [count EXCEPT ![t] = event.signal_count]
    /\ waiters' = 1

\* rw_lock_s_lock_func: one try, then rw_lock_s_lock_spin.
SLock(t, passed) ==
    /\ MayRequest(t) /\ x_held[t] = 0
    /\ \/ SLockLow(t, passed) /\ UNCHANGED pc
       \/ /\ writer # NOT_LOCKED
          /\ Goto(t, IF passed THEN "s_spin_passed" ELSE "s_spin")
          /\ UNCHANGED <<fields, holders>>
    /\ UNCHANGED <<waiters, event, request, count>>

\* rw_lock_s_lock_func_nowait
SLockNowait(t) ==
    /\ MayRequest(t)
    /\ \/ SLockLow(t, FALSE)
       \/ writer # NOT_LOCKED /\ UNCHANGED <<fields, holders>>
    /\ UNCHANGED <<waiters, event, pc, request, count>>

\* rw_lock_s_lock_spin after its spin: a try, or a cell reserved while
\* lock->mutex is still held.
SSpin(t) ==
    /\ pc[t] \in {"s_spin", "s_spin_passed"}
    /\ LET passed == pc[t] = "s_spin_passed" IN
       \/ /\ SLockLow(t, passed)
          /\ Goto(t, "idle")
          /\ UNCHANGED <<waiters, event, count>>
       \/ /\ writer # NOT_LOCKED
          /\ ReserveCell(t)
          /\ Goto(t, IF passed THEN "s_wait_passed" ELSE "s_wait")
          /\ UNCHANGED <<fields, holders>>
    /\ UNCHANGED <<request, rounds>>

-----------------------------------------------------------------------------
\* An x-lock is granted, to t or, with pass p # 0, to nobody in particular.
GrantExclusive(t, p) ==
    /\ IF p # 0 THEN x_passed' = TRUE /\ UNCHANGED x_held
                ELSE x_held' = [x_held EXCEPT ![t] = @ + 1] /\ UNCHANGED x_passed
    /\ UNCHANGED <<reader_count, s_held, s_passed>>

\* rw_lock_x_lock_low, the first case with no readers.
TakeFree(t, p) ==
    /\ writer = NOT_LOCKED /\ reader_count = 0
    /\ writer' = EX /\ writer_thread' = t /\ pass' = p
    /\ writer_count' = writer_count + 1
    /\ UNCHANGED wait_ex
    /\ GrantExclusive(t, p)

\* ... the first case with readers: the lock is reserved.
ReserveNext(t, p) ==
    /\ writer = NOT_LOCKED /\ reader_count # 0
    /\ writer' = WAIT_EX /\ writer_thread' = t /\ pass' = p
    /\ wait_ex' = TRUE
    /\ UNCHANGED <<reader_count, writer_count, holders>>

\* ... the reservation is this thread's: it becomes the lock when the readers
\* have left.
OwnReservation(t) == writer = WAIT_EX /\ writer_thread = t

TakeReserved(t, p) ==
    /\ OwnReservation(t) /\ reader_count = 0
    /\ writer' = EX /\ pass' = p
    /\ writer_count' = writer_count + 1
    /\ wait_ex' = FALSE
    /\ UNCHANGED writer_thread
    /\ GrantExclusive(t, p)

\* ... the lock is this thread's already.
OwnLock(t, p) == writer = EX /\ writer_thread = t /\ pass = 0 /\ p = 0

\* mutant: a recursive x-lock is not counted
TakeAgainUncounted(t, p) ==
    /\ OwnLock(t, p)
    /\ UNCHANGED <<writer, writer_count, writer_thread, pass, wait_ex>>
    /\ GrantExclusive(t, p)

TakeAgain(t, p) ==
    /\ OwnLock(t, p)
    /\ writer_count' = writer_count + 1
    /\ UNCHANGED <<writer, writer_thread, pass, wait_ex>>
    /\ GrantExclusive(t, p)

XLockLow(t, p) == TakeFree(t, p) \/ TakeReserved(t, p) \/ TakeAgain(t, p)

\* ... otherwise it fails, perhaps reserving the lock.
XLockLowFails(t, p) ==
    \/ ReserveNext(t, p)
    \/ /\ writer # NOT_LOCKED
       /\ OwnReservation(t) => reader_count # 0
       /\ ~OwnLock(t, p)
       /\ UNCHANGED <<fields, holders>>

\* rw_lock_x_lock_func
XLock(t, p) ==
    /\ MayRequestX(t, p)
    /\ request' = [request EXCEPT ![t] = p]
    /\ Goto(t, "x_first")
    /\ UNCHANGED <<fields, waiters, event, holders, count>>

\* ... its first try, then it spins
XFirst(t) ==
    /\ pc[t] = "x_first"
    /\ \/ XLockLow(t, request[t]) /\ Goto(t, "idle")
       \/ XLockLowFails(t, request[t]) /\ Goto(t, "x_second")
    /\ UNCHANGED <<waiters, event, request, count, rounds>>

\* ... its second, or a cell reserved while lock->mutex is still held.
XSecond(t) ==
    /\ pc[t] = "x_second"
    /\ \/ /\ XLockLow(t, request[t])
          /\ Goto(t, "idle")
          /\ UNCHANGED <<waiters, event, count>>
       \/ /\ XLockLowFails(t, request[t])
          /\ ReserveCell(t)
          /\ Goto(t, "x_wait")
    /\ UNCHANGED <<request, rounds>>

\* rw_lock_x_lock_func_nowait
XLockNowait(t) ==
    /\ MayRequestX(t, 0)
    /\ \/ TakeFree(t, 0)
       \/ reader_count = 0 /\ TakeAgain(t, 0)
       \/ /\ \/ reader_count # 0
             \/ writer # NOT_LOCKED /\ ~OwnLock(t, 0)
          /\ UNCHANGED <<fields, holders>>
    /\ UNCHANGED <<waiters, event, pc, request, count>>

\* sync_array_wait_event returns: back to lock_loop.
Wake(t) ==
    /\ pc[t] \in {"s_wait", "s_wait_passed", "x_wait"}
    /\ EventWaitOver(event, count[t])
    /\ Goto(t, CASE pc[t] = "s_wait" -> "s_spin"
                 [] pc[t] = "s_wait_passed" -> "s_spin_passed"
                 [] OTHER -> "x_first")
    /\ UNCHANGED <<fields, waiters, event, holders, request, count, rounds>>

-----------------------------------------------------------------------------
\* mutant: the waiters flag is cleared and nobody is woken
LeaveSectionSilently(t, free) ==
    /\ waiters' = IF free THEN 0 ELSE waiters
    /\ UNCHANGED pc

\* The end of an unlock's section: signal after it if there are waiters and
\* the lock has become free.
LeaveSection(t, free) ==
    IF waiters = 1 /\ free
    THEN waiters' = 0 /\ Goto(t, "signal")
    ELSE UNCHANGED <<waiters, pc>>

\* rw_lock_s_unlock_func, of the thread's own lock or of a passed one.
SUnlock(t) ==
    /\ pc[t] = "idle"
    /\ \/ t \in s_held /\ s_held' = s_held \ {t} /\ UNCHANGED s_passed
       \/ t \in IoThreads /\ s_passed > 0 /\ s_passed' = s_passed - 1 /\ UNCHANGED s_held
    /\ reader_count' = reader_count - 1
    /\ LeaveSection(t, reader_count' = 0)
    /\ UNCHANGED <<writer, writer_thread, writer_count, pass, wait_ex, event,
                   x_held, x_passed, request, count, rounds>>

\* rw_lock_x_unlock_func
XUnlock(t) ==
    /\ pc[t] = "idle"
    /\ x_held[t] > 0
    /\ x_held' = [x_held EXCEPT ![t] = @ - 1]
    /\ writer_count' = writer_count - 1
    /\ writer' = IF writer_count' = 0 THEN NOT_LOCKED ELSE writer
    /\ LeaveSection(t, writer_count' = 0)
    /\ UNCHANGED <<reader_count, writer_thread, pass, wait_ex, event, s_held,
                   s_passed, x_passed, request, count, rounds>>

\* os_event_set(lock->event), after lock->mutex has been released.
Signal(t) ==
    /\ pc[t] = "signal"
    /\ event' = EventSet(event)
    /\ Goto(t, "idle")
    /\ UNCHANGED <<fields, waiters, holders, request, count, rounds>>

\* An i/o thread picks up the x-lock it was passed, to unlock it in the end.
PickUp(t) ==
    /\ t \in IoThreads
    /\ pc[t] = "idle"
    /\ x_passed
    /\ x_passed' = FALSE
    /\ x_held' = [x_held EXCEPT ![t] = 1]
    /\ UNCHANGED <<fields, waiters, event, s_held, s_passed, pc, request, count,
                   rounds>>

\* rw_lock_x_lock_move_ownership
MoveOwnership(t) ==
    /\ pc[t] = "idle"
    /\ x_held[t] > 0 /\ pass # 0
    /\ writer_thread' = t
    /\ pass' = 0
    /\ UNCHANGED <<writer, reader_count, writer_count, wait_ex, waiters, event,
                   holders, pc, request, count, rounds>>

Terminated ==
    /\ \A t \in Threads :
          /\ pc[t] = "idle" /\ x_held[t] = 0
          /\ t \notin IoThreads => rounds[t] = MaxRounds
    /\ s_held = {} /\ s_passed = 0 /\ ~x_passed
    /\ UNCHANGED vars

Request(t) ==
    \/ \E passed \in BOOLEAN : SLock(t, passed)
    \/ SLockNowait(t)
    \/ \E p \in {0, 1} : XLock(t, p)
    \/ XLockNowait(t)
    \/ MoveOwnership(t)

Progress(t) ==
    \/ SSpin(t) \/ XFirst(t) \/ XSecond(t) \/ Wake(t)
    \/ SUnlock(t) \/ XUnlock(t) \/ Signal(t) \/ PickUp(t)

Next == (\E t \in Threads : Request(t) \/ Progress(t)) \/ Terminated

Spec == Init /\ [][Next]_vars

\* Every call goes on, a thread that holds the lock goes on to release it (a
\* mini-transaction releases its latches at its commit) and an i/o request
\* completes.  Nothing obliges a thread to request the lock.
FairSpec == Spec /\ \A t \in Threads : WF_vars(Progress(t))
-----------------------------------------------------------------------------
TypeOK ==
    /\ writer \in {NOT_LOCKED, EX, WAIT_EX}
    /\ reader_count \in Nat
    /\ writer_thread \in Threads \cup {NoThread}
    /\ writer_count \in Nat
    /\ pass \in {0, 1}
    /\ wait_ex \in BOOLEAN
    /\ waiters \in {0, 1}
    /\ event \in EventType
    /\ s_held \in SUBSET Threads
    /\ s_passed \in Nat
    /\ x_held \in [Threads -> Nat]
    /\ x_passed \in BOOLEAN
    /\ pc \in [Threads -> Labels]
    /\ request \in [Threads -> {0, 1}]
    /\ count \in [Threads -> Nat]
    /\ rounds \in [Threads -> Nat]

\* What the lock's fields say is what its callers hold: as many readers as
\* s-locks are out, and the writer field EX exactly while x-locks are out, all
\* of one thread or a single one on its way to an i/o thread; never both kinds
\* (rw_lock_validate and ut_a(reader_count > 0) are consequences).
FieldsMatchHolders ==
    /\ reader_count = Cardinality(s_held) + s_passed
    /\ reader_count > 0 => writer # EX
    /\ writer # EX => writer_count = 0
    /\ writer = EX => x_passed \/ \E t \in Threads : x_held[t] > 0
    /\ x_passed => writer = EX /\ writer_count = 1 /\ \A t \in Threads : x_held[t] = 0
    /\ \A t \in Threads : x_held[t] > 0 =>
          /\ writer = EX /\ writer_count = x_held[t]
          /\ \A u \in Threads \ {t} : x_held[u] = 0

\* The flag row_sel polls without the mutex, btr_search_latch.writer_is_wait_ex,
\* is set exactly while a thread has reserved the lock, and that thread is still
\* in its call: the reservation never outlives the request.
ReservationLive ==
    /\ wait_ex <=> writer = WAIT_EX
    /\ writer = WAIT_EX =>
          /\ writer_thread \in Threads
          /\ pc[writer_thread] \in {"x_first", "x_second", "x_wait"}
          /\ request[writer_thread] = pass

Asleep(t) ==
    /\ pc[t] \in {"s_wait", "s_wait_passed", "x_wait"}
    /\ ~EventWaitOver(event, count[t])

\* A thread that sleeps on an unsignalled event will be woken: an unlocker is
\* about to set the event, or waiters is set and the lock is held, or it is
\* reserved by a thread that is awake and will take and then release it.
NoLostWakeup ==
    \A t \in Threads : Asleep(t) =>
        \/ \E u \in Threads : pc[u] = "signal"
        \/ /\ waiters = 1
           /\ \/ reader_count > 0 \/ writer = EX
              \/ writer = WAIT_EX /\ ~Asleep(writer_thread)

\* Once a thread has reserved the lock, nobody gets it before that thread:
\* readers cannot overtake, and no other writer can (the comment on WAIT_EX).
\* And the reservation is never that of a thread that has forgotten it.
ReservationKept ==
    /\ []ReservationLive
    /\ [][writer = WAIT_EX =>
            \/ writer' = WAIT_EX /\ UNCHANGED writer_thread /\ reader_count' <= reader_count
            \/ writer' = EX /\ UNCHANGED writer_thread /\ reader_count = 0
         ]_vars

\* Every call of a lock function that waits returns.
Waiting == {"s_spin", "s_spin_passed", "x_first"}
EveryCallReturns == \A t \in Threads : pc[t] \in Waiting ~> pc[t] = "idle"

\* The lock implements the abstract one.
Abstract == INSTANCE AbstractRwLock
    WITH readers <- s_held, passed_s <- s_passed, depth <- x_held,
         passed_x <- x_passed
AbstractSpec == Abstract!Spec
=============================================================================
