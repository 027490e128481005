------------------------------- MODULE IbMutex -------------------------------
(***************************************************************************)
(* The spin mutex of sync/sync0sync.c and include/sync0sync.ic with the    *)
(* part of the wait array (sync/sync0arr.c) it sleeps in, in the build     *)
(* whose test-and-set is os_fast_mutex_trylock.  One mutex, any number of  *)
(* threads, and the error monitor thread that rescans the array.           *)
(*                                                                         *)
(* A step is one access to a word shared between threads.  sync_array_*    *)
(* functions run under the array's OS mutex and are one step each, except  *)
(* that sync_array_reserve_cell resets the event after it has released the *)
(* array.  Spinning is a stutter: it only delays the next test-and-set.    *)
(***************************************************************************)
EXTENDS OsEvent, FiniteSets

CONSTANTS
    Threads,      \* the threads that use the mutex
    NoThread,     \* the owner of a free mutex, in the abstract view
    NCells,       \* cells of sync_primary_wait_array (OS_THREAD_MAX_N)
    Plans,        \* the machines and bounds a behaviour may have, see PlanType
    MaxSignals    \* bound: the monitor starts no scan at this signal_count

\* speculative: may mutex_exit's read of waiters pass its lock_word reset?
\* monitor:     does the error monitor thread run?
\* tries:       test-and-sets made after the waiters field is set (4)
\* rounds:      bound: mutex_enter calls of each thread
PlanType == [speculative : BOOLEAN, monitor : BOOLEAN, tries : Nat \ {0},
             rounds : [Threads -> Nat]]

ASSUME MutexAssumption ==
    /\ NoThread \notin Threads
    /\ NCells \in Nat
    /\ \A p \in Plans : p \in PlanType
    /\ MaxSignals \in Nat

\* sync_primary_wait_array has a cell for every thread there can be.
ASSUME CellsAssumption ==
    IsFiniteSet(Threads) /\ Cardinality(Threads) \leq NCells

VARIABLES
    plan,         \* the machine and the bounds of this behaviour
    fast_mutex,   \* mutex->os_fast_mutex, 1 when held
    lock_word,    \* mutex->lock_word
    waiters,      \* mutex->waiters
    event,        \* mutex->event
    cell,         \* the wait array
    pc,           \* where each thread is in mutex_enter / mutex_exit
    index,        \* the cell a thread has reserved, 0 for none
    tries,        \* i of the "try to reserve still a few times" loop
    seen,         \* a value of waiters read ahead of time, 2 for none
    rounds,       \* mutex_enter calls made so far
    monitor       \* where the error monitor is; it holds the array unless asleep

vars == <<plan, fast_mutex, lock_word, waiters, event, cell, pc, index, tries, seen,
          rounds, monitor>>

Cells == 1 .. NCells
FreeCell == [wait_object |-> FALSE, waiting |-> FALSE, signal_count |-> 0]

\* The labels at which a thread owns the OS mutex, hence the InnoDB mutex.
OwnerLabels == {"word", "free_cell", "cs", "exit_reset", "exit_unlock"}

Labels == OwnerLabels \cup
    {"idle", "spin", "reserve", "reset", "set_waiters", "retry", "wait_event",
     "sleep", "woken", "exit_read", "exit_clear", "exit_set"}

Goto(t, label) == pc' = [pc EXCEPT ![t] = label]

ArrayFree == monitor = "sleeping"

Init ==
    /\ plan \in Plans
    /\ fast_mutex = 0
    /\ lock_word = 0
    /\ waiters = 0
    /\ event = EventCreate
    /\ cell = [c \in Cells |-> FreeCell]
    /\ pc = [t \in Threads |-> "idle"]
    /\ index = [t \in Threads |-> 0]
    /\ tries = [t \in Threads |-> 0]
    /\ seen = [t \in Threads |-> 2]
    /\ rounds = [t \in Threads |-> 0]
    /\ monitor = "sleeping"

-----------------------------------------------------------------------------
\* mutant: the old value of the word is not looked at
TestAndSetBlind(t, fail) ==
    \/ fast_mutex' = 1 /\ Goto(t, "word")
    \/ fast_mutex = 1 /\ UNCHANGED fast_mutex /\ Goto(t, fail)

\* mutex_test_and_set, first half: the trylock.  A thread that gets the OS
\* mutex still has to store lock_word; the others go to `fail`.
TestAndSet(t, fail) ==
    \/ fast_mutex = 0 /\ fast_mutex' = 1 /\ Goto(t, "word")
    \/ fast_mutex = 1 /\ UNCHANGED fast_mutex /\ Goto(t, fail)

\* mutex_enter_func: one test-and-set, then mutex_spin_wait.
Enter(t) ==
    /\ pc[t] = "idle"
    /\ rounds[t] < plan.rounds[t]
    /\ rounds' = [rounds EXCEPT ![t] = @ + 1]
    /\ TestAndSet(t, "spin")
    /\ UNCHANGED <<lock_word, waiters, event, cell, index, tries, seen, monitor>>

\* mutex_test_and_set, second half: lock_word = 1 while holding the OS mutex.
SetLockWord(t) ==
    /\ pc[t] = "word"
    /\ lock_word' = 1
    /\ Goto(t, IF index[t] # 0 THEN "free_cell" ELSE "cs")
    /\ UNCHANGED <<fast_mutex, waiters, event, cell, index, tries, seen, rounds,
                   monitor>>

\* mutex_spin_wait, mutex_loop: spin, test-and-set, give up spinning.
Spin(t) ==
    /\ pc[t] = "spin"
    /\ TestAndSet(t, "reserve")
    /\ UNCHANGED <<lock_word, waiters, event, cell, index, tries, seen, rounds,
                   monitor>>

\* sync_array_reserve_cell: the first free cell, under the array's mutex.
ReserveCell(t) ==
    /\ pc[t] = "reserve"
    /\ ArrayFree
    /\ \E c \in Cells :
          /\ ~cell[c].wait_object
          /\ \A d \in Cells : d < c => cell[d].wait_object
          /\ cell' = [cell EXCEPT ![c].wait_object = TRUE, ![c].waiting = FALSE]
          /\ index' = [index EXCEPT ![t] = c]
    /\ Goto(t, "reset")
    /\ UNCHANGED <<fast_mutex, lock_word, waiters, event, tries, seen, rounds,
                   monitor>>

\* The end of sync_array_reserve_cell, after the array has been released.
ResetEvent(t) ==
    /\ pc[t] = "reset"
    /\ event' = EventReset(event)
    /\ cell' = [cell EXCEPT ![index[t]].signal_count = event.signal_count]
    /\ Goto(t, "set_waiters")
    /\ UNCHANGED <<fast_mutex, lock_word, waiters, index, tries, seen, rounds,
                   monitor>>

\* mutant: the thread goes to wait without trying again
SetWaitersAndWait(t) ==
    /\ pc[t] = "set_waiters"
    /\ waiters' = 1
    /\ tries' = [tries EXCEPT ![t] = 0]
    /\ Goto(t, "wait_event")
    /\ UNCHANGED <<fast_mutex, lock_word, event, cell, index, seen, rounds,
                   monitor>>

SetWaiters(t) ==
    /\ pc[t] = "set_waiters"
    /\ waiters' = 1
    /\ tries' = [tries EXCEPT ![t] = 0]
    /\ Goto(t, "retry")
    /\ UNCHANGED <<fast_mutex, lock_word, event, cell, index, seen, rounds,
                   monitor>>

\* mutant: one try too many
RetryOnceMore(t) ==
    /\ pc[t] = "retry"
    /\ tries' = [tries EXCEPT ![t] = @ + 1]
    /\ TestAndSet(t, IF tries[t] < plan.tries THEN "retry" ELSE "wait_event")
    /\ UNCHANGED <<lock_word, waiters, event, cell, index, seen, rounds, monitor>>

\* "Try to reserve still a few times", before the thread suspends itself.
Retry(t) ==
    /\ pc[t] = "retry"
    /\ tries' = [tries EXCEPT ![t] = @ + 1]
    /\ TestAndSet(t, IF tries[t] + 1 < plan.tries THEN "retry" ELSE "wait_event")
    /\ UNCHANGED <<lock_word, waiters, event, cell, index, seen, rounds, monitor>>

\* mutant: the cell stays reserved
LeakCell(t) ==
    /\ ArrayFree
    /\ index' = [index EXCEPT ![t] = 0]
    /\ UNCHANGED cell

\* sync_array_free_cell resets the cell.
ReleaseCell(t) ==
    /\ ArrayFree
    /\ cell' = [cell EXCEPT ![index[t]] = FreeCell]
    /\ index' = [index EXCEPT ![t] = 0]

\* A retry succeeded: the cell is given back, the waiters field stays set.
FreeOwnCell(t) ==
    /\ pc[t] = "free_cell"
    /\ ReleaseCell(t)
    /\ Goto(t, "cs")
    /\ UNCHANGED <<fast_mutex, lock_word, waiters, event, tries, seen, rounds,
                   monitor>>

\* sync_array_wait_event, up to the release of the array.
WaitEvent(t) ==
    /\ pc[t] = "wait_event"
    /\ ArrayFree
    /\ cell' = [cell EXCEPT ![index[t]].waiting = TRUE]
    /\ Goto(t, "sleep")
    /\ UNCHANGED <<fast_mutex, lock_word, waiters, event, index, tries, seen,
                   rounds, monitor>>

\* os_event_wait_low returns.
Wake(t) ==
    /\ pc[t] = "sleep"
    /\ EventWaitOver(event, cell[index[t]].signal_count)
    /\ Goto(t, "woken")
    /\ UNCHANGED <<fast_mutex, lock_word, waiters, event, cell, index, tries,
                   seen, rounds, monitor>>

\* sync_array_wait_event frees the cell; then goto mutex_loop.
Woken(t) ==
    /\ pc[t] = "woken"
    /\ ReleaseCell(t)
    /\ Goto(t, "spin")
    /\ UNCHANGED <<fast_mutex, lock_word, waiters, event, tries, seen, rounds,
                   monitor>>
-----------------------------------------------------------------------------
\* mutex_exit is called.
Exit(t) ==
    /\ pc[t] = "cs"
    /\ Goto(t, "exit_reset")
    /\ UNCHANGED <<fast_mutex, lock_word, waiters, event, cell, index, tries,
                   seen, rounds, monitor>>

\* "A speculative processor might perform the read first": without a memory
\* barrier the load of waiters may be satisfied before the stores ahead of it.
SpeculateRead(t) ==
    /\ pc[t] \in {"exit_reset", "exit_unlock"}
    /\ plan.speculative
    /\ seen[t] = 2
    /\ seen' = [seen EXCEPT ![t] = waiters]
    /\ UNCHANGED <<fast_mutex, lock_word, waiters, event, cell, pc, index, tries,
                   rounds, monitor>>

\* mutex_reset_lock_word: the word first, then the OS mutex.
ResetLockWord(t) ==
    /\ pc[t] = "exit_reset"
    /\ lock_word' = 0
    /\ Goto(t, "exit_unlock")
    /\ UNCHANGED <<fast_mutex, waiters, event, cell, index, tries, seen, rounds,
                   monitor>>

Unlock(t) ==
    /\ pc[t] = "exit_unlock"
    /\ fast_mutex' = 0
    /\ Goto(t, "exit_read")
    /\ UNCHANGED <<lock_word, waiters, event, cell, index, tries, seen, rounds,
                   monitor>>

\* if (mutex_get_waiters(mutex) != 0)
ReadWaiters(t) ==
    /\ pc[t] = "exit_read"
    /\ LET value == IF seen[t] = 2 THEN waiters ELSE seen[t]
       IN Goto(t, IF value # 0 THEN "exit_clear" ELSE "idle")
    /\ seen' = [seen EXCEPT ![t] = 2]
    /\ UNCHANGED <<fast_mutex, lock_word, waiters, event, cell, index, tries,
                   rounds, monitor>>

\* mutex_signal_object: first the field, then the event.
ClearWaiters(t) ==
    /\ pc[t] = "exit_clear"
    /\ waiters' = 0
    /\ Goto(t, "exit_set")
    /\ UNCHANGED <<fast_mutex, lock_word, event, cell, index, tries, seen, rounds,
                   monitor>>

SetEvent(t) ==
    /\ pc[t] = "exit_set"
    /\ event' = EventSet(event)
    /\ Goto(t, "idle")
    /\ UNCHANGED <<fast_mutex, lock_word, waiters, cell, index, tries, seen,
                   rounds, monitor>>
-----------------------------------------------------------------------------
\* sync_arr_wake_threads_if_sema_free, called about once a second.  Every
\* reserved cell waits for this mutex, so the scan comes down to reading
\* lock_word while some cell is reserved.
MonitorScan ==
    /\ monitor = "sleeping"
    /\ plan.monitor
    /\ \E c \in Cells : cell[c].wait_object
    /\ event.signal_count < MaxSignals
    /\ monitor' = "scanning"
    /\ UNCHANGED <<fast_mutex, lock_word, waiters, event, cell, pc, index, tries,
                   seen, rounds>>

\* mutant: the test of lock_word is the wrong way round
MonitorLookWrong ==
    /\ monitor = "scanning"
    /\ monitor' = IF lock_word = 1 THEN "waking" ELSE "sleeping"
    /\ UNCHANGED <<fast_mutex, lock_word, waiters, event, cell, pc, index, tries,
                   seen, rounds>>

\* sync_arr_cell_can_wake_up
MonitorLook ==
    /\ monitor = "scanning"
    /\ monitor' = IF lock_word = 0 THEN "waking" ELSE "sleeping"
    /\ UNCHANGED <<fast_mutex, lock_word, waiters, event, cell, pc, index, tries,
                   seen, rounds>>

MonitorWake ==
    /\ monitor = "waking"
    /\ event' = EventSet(event)
    /\ monitor' = "sleeping"
    /\ UNCHANGED <<fast_mutex, lock_word, waiters, cell, pc, index, tries, seen,
                   rounds>>

\* Every thread has made its calls and left.
Terminated ==
    /\ \A t \in Threads : pc[t] = "idle" /\ rounds[t] = plan.rounds[t]
    /\ UNCHANGED vars

ThreadStep(t) ==
    /\ \/ Enter(t) \/ SetLockWord(t) \/ Spin(t) \/ ReserveCell(t) \/ ResetEvent(t)
       \/ SetWaiters(t) \/ Retry(t) \/ FreeOwnCell(t) \/ WaitEvent(t) \/ Wake(t)
       \/ Woken(t) \/ Exit(t) \/ SpeculateRead(t) \/ ResetLockWord(t) \/ Unlock(t)
       \/ ReadWaiters(t) \/ ClearWaiters(t) \/ SetEvent(t)
    /\ UNCHANGED plan

MonitorStep == (MonitorScan \/ MonitorLook \/ MonitorWake) /\ UNCHANGED plan

Next == (\E t \in Threads : ThreadStep(t)) \/ MonitorStep \/ Terminated

Spec == Init /\ [][Next]_vars

\* The steps of a thread that need the array's OS mutex.
ArrayStep(t) ==
    /\ ReserveCell(t) \/ FreeOwnCell(t) \/ WaitEvent(t) \/ Woken(t)
    /\ UNCHANGED plan

\* The scheduler runs every thread that can run.  Nothing obliges a thread to
\* call mutex_enter, but one that owns the mutex goes on to release it.  The
\* monitor is an endless loop that sleeps a second between two scans, so it
\* cannot keep a thread out of the array by taking its mutex again and again.
Fairness ==
    /\ \A t \in Threads : /\ WF_vars(ThreadStep(t) /\ pc[t] # "idle")
                          /\ SF_vars(ArrayStep(t))
    /\ WF_vars(MonitorStep)

FairSpec == Spec /\ Fairness
-----------------------------------------------------------------------------
TypeOK ==
    /\ plan \in Plans
    /\ fast_mutex \in {0, 1}
    /\ lock_word \in {0, 1}
    /\ waiters \in {0, 1}
    /\ event \in EventType
    /\ cell \in [Cells -> [wait_object : BOOLEAN, waiting : BOOLEAN,
                           signal_count : Nat]]
    /\ pc \in [Threads -> Labels]
    /\ index \in [Threads -> Cells \cup {0}]
    /\ tries \in [Threads -> 0 .. plan.tries]
    /\ seen \in [Threads -> {0, 1, 2}]
    /\ rounds \in [Threads -> Nat] /\ \A t \in Threads : rounds[t] \leq plan.rounds[t]
    /\ monitor \in {"sleeping", "scanning", "waking"}
    /\ \A t \in Threads : pc[t] = "retry" => tries[t] < plan.tries

Owns(t) == pc[t] \in OwnerLabels

\* At most one thread is between the successful test-and-set and the end of
\* mutex_reset_lock_word, and the OS mutex is held exactly then; when a thread
\* is about to store lock_word = 1 it finds 0 (the ut_a in mutex_test_and_set).
MutualExclusion ==
    /\ \A t, u \in Threads : Owns(t) /\ Owns(u) => t = u
    /\ (fast_mutex = 1) <=> (\E t \in Threads : Owns(t))
    /\ (lock_word = 1) <=>
          (\E t \in Threads : pc[t] \in {"free_cell", "cs", "exit_reset"})

\* LEMMA 1 and LEMMA 2 of sync0sync.c together: when a thread has decided to
\* suspend itself, or sleeps, and its event shows no signal, then somebody is
\* still going to signal it: either a thread about to set the event, or a
\* thread that will read waiters and find it set.  (Where mutex_exit's read of
\* waiters may pass its stores this is not so.)
WillSleep(t) ==
    /\ pc[t] \in {"wait_event", "sleep"}
    /\ ~EventWaitOver(event, cell[index[t]].signal_count)

WillSignal(u) ==
    \/ pc[u] = "exit_set"
    \/ waiters = 1 /\ pc[u] \in OwnerLabels \cup {"exit_read", "exit_clear"}

EverySleeperHeard ==
    \A t \in Threads : WillSleep(t) => \E u \in Threads : WillSignal(u)

\* On a machine that keeps the reset of the lock word and the read of waiters
\* in order, nobody sleeps whom nobody is going to wake.
NoLostWakeup == ~plan.speculative => EverySleeperHeard

\* The wait array never runs out of cells (the ut_error at the end of
\* sync_array_reserve_cell) and no two threads share one.
HoldsCell(t) == index[t] # 0
CellsExclusive ==
    /\ \A t \in Threads : pc[t] = "reserve" => \E c \in Cells : ~cell[c].wait_object
    /\ \A t, u \in Threads : HoldsCell(t) /\ index[t] = index[u] => t = u
    /\ \A c \in Cells : cell[c].wait_object <=> \E t \in Threads : index[t] = c

\* Every mutex_enter returns: no thread is left suspended for ever once the
\* others have stopped competing.  Where the read of waiters is speculative it is
\* the error monitor that repairs the lost wake-up, unless the bound on its
\* signals is used up.
EnterReturns ==
    \A t \in Threads :
        pc[t] = "spin" ~> \/ pc[t] = "cs"
                          \/ plan.monitor /\ event.signal_count \geq MaxSignals

\* The mutex implements the abstract lock.
OwnerOf == IF \E t \in Threads : Owns(t)
           THEN CHOOSE t \in Threads : Owns(t) ELSE NoThread
Lock == INSTANCE AbstractLock WITH owner <- OwnerOf
LockSpec == Lock!Spec
=============================================================================
