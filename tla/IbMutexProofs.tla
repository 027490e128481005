--------------------------- MODULE IbMutexProofs ---------------------------
(***************************************************************************)
(* Proofs about IbMutex, for any number of threads, cells, retries and     *)
(* rounds: the types, mutual exclusion, that the mutex implements the      *)
(* abstract lock, and, when the read of waiters is not speculative, that   *)
(* no wake-up is lost (LEMMA 1 and LEMMA 2 of sync0sync.c).                *)
(***************************************************************************)
EXTENDS IbMutex, FiniteSetTheorems, TLAPS

\* The labels at which a thread has certainly, or certainly not, a cell.
CellLabels == {"reset", "set_waiters", "retry", "wait_event", "sleep", "woken",
               "free_cell"}
NoCellLabels == {"idle", "spin", "reserve", "cs", "exit_reset", "exit_unlock",
                 "exit_read", "exit_clear", "exit_set"}

\* A thread's cell is its own and is marked reserved.
CellInv ==
    /\ \A t \in Threads :
          /\ pc[t] \in CellLabels => index[t] # 0
          /\ pc[t] \in NoCellLabels => index[t] = 0
    /\ \A c \in Cells : cell[c].wait_object <=> \E t \in Threads : index[t] = c
    /\ \A t, u \in Threads : index[t] # 0 /\ index[t] = index[u] => t = u

CellType == [wait_object : BOOLEAN, waiting : BOOLEAN, signal_count : Nat]

\* The machine and the bounds of a behaviour never change.
LEMMA PlanKept ==
    ASSUME [Next]_vars PROVE UNCHANGED plan
  BY Zenon DEF Next, ThreadStep, MonitorStep, Terminated, vars

LEMMA CellUpdate ==
    ASSUME NEW f \in [Cells -> CellType], NEW i, NEW r, i \in Cells => r \in CellType
    PROVE  [f EXCEPT ![i] = r] \in [Cells -> CellType]
  OBVIOUS

LEMMA CellFields ==
    ASSUME NEW r \in CellType, NEW b \in BOOLEAN, NEW c \in BOOLEAN, NEW n \in Nat
    PROVE  /\ [r EXCEPT !.wait_object = b, !.waiting = c] \in CellType
           /\ [r EXCEPT !.waiting = b] \in CellType
           /\ [r EXCEPT !.signal_count = n] \in CellType
  BY DEF CellType

THEOREM TypeCorrect == Spec => []TypeOK
<1> USE MutexAssumption
<1>1. Init => TypeOK
 <2> SUFFICES ASSUME Init PROVE TypeOK OBVIOUS
 <2>1. /\ plan \in Plans
       /\ plan.tries \in Nat \ {0} /\ plan.rounds \in [Threads -> Nat]
   BY DEF Init, PlanType
 <2>2. QED BY <2>1 DEF Init, TypeOK, EventCreate, EventType, FreeCell, Cells, Labels, OwnerLabels
<1>2. TypeOK /\ [Next]_vars => TypeOK'
 <2> SUFFICES ASSUME TypeOK, [Next]_vars PROVE TypeOK' OBVIOUS
 <2>0. cell \in [Cells -> CellType] /\ event \in EventType BY DEF TypeOK, CellType
 <2>p. /\ UNCHANGED plan /\ plan \in Plans
       /\ plan.tries \in Nat \ {0} /\ plan.rounds \in [Threads -> Nat]
   BY PlanKept DEF TypeOK, PlanType
 <2> USE <2>p DEF TypeOK, EventType, FreeCell, Cells, Labels, OwnerLabels, Goto
 <2>1. ASSUME NEW t \in Threads, Enter(t) PROVE TypeOK'
  <3>1. /\ rounds' \in [Threads -> Nat]
        /\ \A u \in Threads : rounds'[u] \leq plan.rounds[u]
        /\ fast_mutex' \in {0, 1}
        /\ UNCHANGED <<lock_word, waiters, event, cell, index, tries, seen,
                       monitor>>
    BY <2>1 DEF Enter, TestAndSet
  <3>2. /\ pc' \in [Threads -> Labels]
        /\ \A u \in Threads : pc'[u] = "retry" => pc[u] = "retry"
    BY <2>1 DEF Enter, TestAndSet
  <3>3. QED BY <3>1, <3>2
 <2>2. ASSUME NEW t \in Threads, SetLockWord(t) PROVE TypeOK' BY <2>2 DEF SetLockWord
 <2>3. ASSUME NEW t \in Threads, Spin(t) PROVE TypeOK' BY <2>3 DEF Spin, TestAndSet
 <2>4. ASSUME NEW t \in Threads, ReserveCell(t) PROVE TypeOK'
  <3>1. PICK c \in Cells :
           /\ cell' = [cell EXCEPT ![c].wait_object = TRUE, ![c].waiting = FALSE]
           /\ index' = [index EXCEPT ![t] = c]
    BY <2>4 DEF ReserveCell
  <3>2. /\ pc' = [pc EXCEPT ![t] = "reset"]
        /\ UNCHANGED <<fast_mutex, lock_word, waiters, event, tries, seen, rounds,
                       monitor>>
    BY <2>4 DEF ReserveCell
  <3> DEFINE r == [cell[c] EXCEPT !.wait_object = TRUE, !.waiting = FALSE]
  <3>3. cell' \in [Cells -> CellType]
   <4>1. cell' = [cell EXCEPT ![c] = r] BY <3>1
   <4>2. r \in CellType BY <2>0, CellFields
   <4> HIDE DEF r
   <4>3. QED BY <2>0, <4>1, <4>2, CellUpdate
  <3>4. index' \in [Threads -> Cells \cup {0}] BY <3>1
  <3>5. /\ pc' \in [Threads -> Labels]
        /\ \A u \in Threads : pc'[u] = "retry" => pc[u] = "retry"
    BY <3>2
  <3>6. QED BY <3>2, <3>3, <3>4, <3>5 DEF CellType
 <2>5. ASSUME NEW t \in Threads, ResetEvent(t) PROVE TypeOK'
  <3>1. event' \in EventType BY <2>5 DEF ResetEvent, EventReset
  <3> DEFINE r == [cell[index[t]] EXCEPT !.signal_count = event.signal_count]
  <3>2. cell' \in [Cells -> CellType]
   <4>1. cell' = [cell EXCEPT ![index[t]] = r] BY <2>5 DEF ResetEvent
   <4>2. index[t] \in Cells => r \in CellType BY <2>0, CellFields DEF EventType
   <4> HIDE DEF r
   <4>3. QED BY <2>0, <4>1, <4>2, CellUpdate
  <3>3. /\ pc' \in [Threads -> Labels]
        /\ \A u \in Threads : pc'[u] = "retry" => pc[u] = "retry"
    BY <2>5 DEF ResetEvent
  <3>4. UNCHANGED <<fast_mutex, lock_word, waiters, index, tries, seen, rounds,
                    monitor>>
    BY <2>5 DEF ResetEvent
  <3>5. QED BY <3>1, <3>2, <3>3, <3>4 DEF CellType
 <2>6. ASSUME NEW t \in Threads, SetWaiters(t) PROVE TypeOK' BY <2>6 DEF SetWaiters
 <2>7. ASSUME NEW t \in Threads, Retry(t) PROVE TypeOK'
  <3>1. /\ tries' \in [Threads -> 0 .. plan.tries]
        /\ tries'[t] = tries[t] + 1
        /\ \A u \in Threads : u # t => tries'[u] = tries[u]
    BY <2>7 DEF Retry
  <3>2. /\ pc' \in [Threads -> Labels]
        /\ pc'[t] = "retry" => tries[t] + 1 < plan.tries
        /\ \A u \in Threads : u # t => pc'[u] = pc[u]
    BY <2>7 DEF Retry, TestAndSet
  <3>3. fast_mutex' \in {0, 1} BY <2>7 DEF Retry, TestAndSet
  <3>4. UNCHANGED <<lock_word, waiters, event, cell, index, seen, rounds, monitor>>
    BY <2>7 DEF Retry
  <3>5. QED BY <3>1, <3>2, <3>3, <3>4
 <2>8. ASSUME NEW t \in Threads, FreeOwnCell(t) PROVE TypeOK' BY <2>8 DEF FreeOwnCell, ReleaseCell
 <2>9. ASSUME NEW t \in Threads, WaitEvent(t) PROVE TypeOK'
  <3> DEFINE r == [cell[index[t]] EXCEPT !.waiting = TRUE]
  <3>1. cell' \in [Cells -> CellType]
   <4>1. cell' = [cell EXCEPT ![index[t]] = r] BY <2>9 DEF WaitEvent
   <4>2. index[t] \in Cells => r \in CellType BY <2>0, CellFields
   <4> HIDE DEF r
   <4>3. QED BY <2>0, <4>1, <4>2, CellUpdate
  <3>2. /\ pc' \in [Threads -> Labels]
        /\ \A u \in Threads : pc'[u] = "retry" => pc[u] = "retry"
    BY <2>9 DEF WaitEvent
  <3>3. UNCHANGED <<fast_mutex, lock_word, waiters, event, index, tries, seen,
                    rounds, monitor>>
    BY <2>9 DEF WaitEvent
  <3>4. QED BY <3>1, <3>2, <3>3 DEF CellType
 <2>10. ASSUME NEW t \in Threads, Wake(t) PROVE TypeOK' BY <2>10 DEF Wake
 <2>11. ASSUME NEW t \in Threads, Woken(t) PROVE TypeOK' BY <2>11 DEF Woken, ReleaseCell
 <2>12. ASSUME NEW t \in Threads, Exit(t) PROVE TypeOK' BY <2>12 DEF Exit
 <2>13. ASSUME NEW t \in Threads, SpeculateRead(t) PROVE TypeOK' BY <2>13 DEF SpeculateRead
 <2>14. ASSUME NEW t \in Threads, ResetLockWord(t) PROVE TypeOK' BY <2>14 DEF ResetLockWord
 <2>15. ASSUME NEW t \in Threads, Unlock(t) PROVE TypeOK' BY <2>15 DEF Unlock
 <2>16. ASSUME NEW t \in Threads, ReadWaiters(t) PROVE TypeOK' BY <2>16 DEF ReadWaiters
 <2>17. ASSUME NEW t \in Threads, ClearWaiters(t) PROVE TypeOK' BY <2>17 DEF ClearWaiters
 <2>18. ASSUME NEW t \in Threads, SetEvent(t) PROVE TypeOK'
  <3>1. event' \in EventType BY <2>18 DEF SetEvent, EventSet
  <3>2. /\ pc' \in [Threads -> Labels]
        /\ \A u \in Threads : pc'[u] = "retry" => pc[u] = "retry"
    BY <2>18 DEF SetEvent
  <3>3. QED BY <2>18, <3>1, <3>2 DEF SetEvent
 <2>19. CASE MonitorStep
  <3>1. CASE MonitorScan
   <4>1. /\ monitor' = "scanning"
         /\ UNCHANGED <<fast_mutex, lock_word, waiters, event, cell, pc, index,
                        tries, seen, rounds>>
     BY <3>1, Zenon DEF MonitorScan
   <4>2. QED BY <4>1
  <3>2. CASE MonitorLook BY <3>2 DEF MonitorLook
  <3>3. CASE MonitorWake BY <3>3 DEF MonitorWake, EventSet
  <3>4. QED BY <2>19, <3>1, <3>2, <3>3 DEF MonitorStep
 <2>20. CASE UNCHANGED vars BY <2>20 DEF vars
 <2>21. QED BY <2>1, <2>2, <2>3, <2>4, <2>5, <2>6, <2>7, <2>8, <2>9, <2>10, <2>11, <2>12,
      <2>13, <2>14, <2>15, <2>16, <2>17, <2>18, <2>19, <2>20
   DEF Next, ThreadStep, Terminated
<1>3. QED BY <1>1, <1>2, PTL DEF Spec
-----------------------------------------------------------------------------
\* At most one thread owns the mutex, the OS mutex is held exactly while one
\* does, and lock_word is 1 exactly between its two stores: mutex_test_and_set
\* and mutex_reset_lock_word of sync0sync.ic.
THEOREM Exclusion == Spec => []MutualExclusion
<1> USE MutexAssumption
<1>1. Init => MutualExclusion BY DEF Init, MutualExclusion, Owns, OwnerLabels
<1>2. TypeOK /\ MutualExclusion /\ [Next]_vars => MutualExclusion'
 <2> SUFFICES ASSUME TypeOK, MutualExclusion, [Next]_vars PROVE MutualExclusion' OBVIOUS
 <2>0. pc \in [Threads -> Labels] /\ fast_mutex \in {0, 1} /\ lock_word \in {0, 1} BY DEF TypeOK
 <2> USE DEF MutualExclusion, Owns, OwnerLabels, Labels, Goto
 <2>1. ASSUME NEW t \in Threads, Enter(t) PROVE MutualExclusion'
   BY <2>0, <2>1 DEF Enter, TestAndSet
 <2>2. ASSUME NEW t \in Threads, SetLockWord(t) PROVE MutualExclusion'
   BY <2>0, <2>2 DEF SetLockWord
 <2>3. ASSUME NEW t \in Threads, Spin(t) PROVE MutualExclusion' BY <2>0, <2>3 DEF Spin, TestAndSet
 <2>4. ASSUME NEW t \in Threads, ReserveCell(t) PROVE MutualExclusion'
   BY <2>0, <2>4 DEF ReserveCell
 <2>5. ASSUME NEW t \in Threads, ResetEvent(t) PROVE MutualExclusion' BY <2>0, <2>5 DEF ResetEvent
 <2>6. ASSUME NEW t \in Threads, SetWaiters(t) PROVE MutualExclusion' BY <2>0, <2>6 DEF SetWaiters
 <2>7. ASSUME NEW t \in Threads, Retry(t) PROVE MutualExclusion'
   BY <2>0, <2>7 DEF Retry, TestAndSet
 <2>8. ASSUME NEW t \in Threads, FreeOwnCell(t) PROVE MutualExclusion'
   BY <2>0, <2>8 DEF FreeOwnCell, ReleaseCell
 <2>9. ASSUME NEW t \in Threads, WaitEvent(t) PROVE MutualExclusion' BY <2>0, <2>9 DEF WaitEvent
 <2>10. ASSUME NEW t \in Threads, Wake(t) PROVE MutualExclusion' BY <2>0, <2>10 DEF Wake
 <2>11. ASSUME NEW t \in Threads, Woken(t) PROVE MutualExclusion'
   BY <2>0, <2>11 DEF Woken, ReleaseCell
 <2>12. ASSUME NEW t \in Threads, Exit(t) PROVE MutualExclusion' BY <2>0, <2>12 DEF Exit
 <2>13. ASSUME NEW t \in Threads, SpeculateRead(t) PROVE MutualExclusion'
   BY <2>0, <2>13 DEF SpeculateRead
 <2>14. ASSUME NEW t \in Threads, ResetLockWord(t) PROVE MutualExclusion'
   BY <2>0, <2>14 DEF ResetLockWord
 <2>15. ASSUME NEW t \in Threads, Unlock(t) PROVE MutualExclusion' BY <2>0, <2>15 DEF Unlock
 <2>16. ASSUME NEW t \in Threads, ReadWaiters(t) PROVE MutualExclusion'
   BY <2>0, <2>16 DEF ReadWaiters
 <2>17. ASSUME NEW t \in Threads, ClearWaiters(t) PROVE MutualExclusion'
   BY <2>0, <2>17 DEF ClearWaiters
 <2>18. ASSUME NEW t \in Threads, SetEvent(t) PROVE MutualExclusion' BY <2>0, <2>18 DEF SetEvent
 <2>19. CASE MonitorStep
  <3>1. UNCHANGED <<pc, fast_mutex, lock_word>>
    BY <2>19, Zenon DEF MonitorStep, MonitorScan, MonitorLook, MonitorWake
  <3>2. QED BY <3>1
 <2>20. CASE UNCHANGED vars BY <2>20 DEF vars
 <2>21. QED
   BY <2>1, <2>2, <2>3, <2>4, <2>5, <2>6, <2>7, <2>8, <2>9, <2>10, <2>11, <2>12, <2>13, <2>14,
      <2>15, <2>16, <2>17, <2>18, <2>19, <2>20 DEF Next, ThreadStep, Terminated
<1>3. QED BY <1>1, <1>2, TypeCorrect, PTL DEF Spec
-----------------------------------------------------------------------------
\* Every thread that must have a cell of the wait array has one of its own, and
\* a cell is marked reserved exactly while some thread has it.
THEOREM CellsOwned == Spec => []CellInv
<1> USE MutexAssumption
<1>1. Init => CellInv BY DEF Init, CellInv, CellLabels, NoCellLabels, FreeCell, Cells
<1>2. TypeOK /\ CellInv /\ [Next]_vars => CellInv'
 <2> SUFFICES ASSUME TypeOK, CellInv, [Next]_vars PROVE CellInv' OBVIOUS
 <2>0. /\ pc \in [Threads -> Labels]
       /\ index \in [Threads -> Cells \cup {0}]
       /\ cell \in [Cells -> [wait_object : BOOLEAN, waiting : BOOLEAN,
                              signal_count : Nat]]
   BY DEF TypeOK
 <2> USE DEF CellInv, CellLabels, NoCellLabels, OwnerLabels, Labels, Goto, Cells,
             FreeCell
 <2>1. ASSUME NEW t \in Threads, Enter(t) PROVE CellInv' BY <2>0, <2>1 DEF Enter, TestAndSet
 <2>2. ASSUME NEW t \in Threads, SetLockWord(t) PROVE CellInv' BY <2>0, <2>2 DEF SetLockWord
 <2>3. ASSUME NEW t \in Threads, Spin(t) PROVE CellInv' BY <2>0, <2>3 DEF Spin, TestAndSet
 <2>4. ASSUME NEW t \in Threads, ReserveCell(t) PROVE CellInv' BY <2>0, <2>4 DEF ReserveCell
 <2>5. ASSUME NEW t \in Threads, ResetEvent(t) PROVE CellInv' BY <2>0, <2>5 DEF ResetEvent
 <2>6. ASSUME NEW t \in Threads, SetWaiters(t) PROVE CellInv' BY <2>0, <2>6 DEF SetWaiters
 <2>7. ASSUME NEW t \in Threads, Retry(t) PROVE CellInv' BY <2>0, <2>7 DEF Retry, TestAndSet
 <2>8. ASSUME NEW t \in Threads, FreeOwnCell(t) PROVE CellInv'
   BY <2>0, <2>8 DEF FreeOwnCell, ReleaseCell
 <2>9. ASSUME NEW t \in Threads, WaitEvent(t) PROVE CellInv' BY <2>0, <2>9 DEF WaitEvent
 <2>10. ASSUME NEW t \in Threads, Wake(t) PROVE CellInv' BY <2>0, <2>10 DEF Wake
 <2>11. ASSUME NEW t \in Threads, Woken(t) PROVE CellInv' BY <2>0, <2>11 DEF Woken, ReleaseCell
 <2>12. ASSUME NEW t \in Threads, Exit(t) PROVE CellInv' BY <2>0, <2>12 DEF Exit
 <2>13. ASSUME NEW t \in Threads, SpeculateRead(t) PROVE CellInv' BY <2>0, <2>13 DEF SpeculateRead
 <2>14. ASSUME NEW t \in Threads, ResetLockWord(t) PROVE CellInv' BY <2>0, <2>14 DEF ResetLockWord
 <2>15. ASSUME NEW t \in Threads, Unlock(t) PROVE CellInv' BY <2>0, <2>15 DEF Unlock
 <2>16. ASSUME NEW t \in Threads, ReadWaiters(t) PROVE CellInv' BY <2>0, <2>16 DEF ReadWaiters
 <2>17. ASSUME NEW t \in Threads, ClearWaiters(t) PROVE CellInv' BY <2>0, <2>17 DEF ClearWaiters
 <2>18. ASSUME NEW t \in Threads, SetEvent(t) PROVE CellInv' BY <2>0, <2>18 DEF SetEvent
 <2>19. CASE MonitorStep
  <3>1. UNCHANGED <<pc, index, cell>>
    BY <2>19, Zenon DEF MonitorStep, MonitorScan, MonitorLook, MonitorWake
  <3>2. QED BY <3>1
 <2>20. CASE UNCHANGED vars BY <2>20 DEF vars
 <2>21. QED
   BY <2>1, <2>2, <2>3, <2>4, <2>5, <2>6, <2>7, <2>8, <2>9, <2>10, <2>11, <2>12, <2>13, <2>14,
      <2>15, <2>16, <2>17, <2>18, <2>19, <2>20 DEF Next, ThreadStep, Terminated
<1>3. QED BY <1>1, <1>2, TypeCorrect, PTL DEF Spec
-----------------------------------------------------------------------------
\* The labels between the reset of the event and the return of the wait.
ArmedLabels == {"set_waiters", "retry", "wait_event", "sleep"}

\* What makes EverySleeperHeard inductive where no read is speculative.  The count a thread remembers is at most
\* the event's, and smaller while the event is set; and a thread that has set
\* waiters and still retries finds waiters set, or a thread about to signal.
SignalInv ==
    /\ \A t \in Threads : seen[t] = 2
    /\ \A t \in Threads : pc[t] \in ArmedLabels =>
          /\ cell[index[t]].signal_count \leq event.signal_count
          /\ event.is_set => cell[index[t]].signal_count < event.signal_count
    /\ \A t \in Threads :
          pc[t] = "retry" /\ ~EventWaitOver(event, cell[index[t]].signal_count)
          => waiters = 1 \/ \E u \in Threads : pc[u] = "exit_set"
    /\ EverySleeperHeard

\* The labels from which a thread still reads waiters, or has read it set.
ReadingLabels == OwnerLabels \cup {"exit_read", "exit_clear"}

\* A step that leaves the event and waiters alone, takes nobody away from the
\* threads that will signal and arms nobody preserves SignalInv.
LEMMA QuietStep ==
    ASSUME SignalInv, NEW t \in Threads,
           UNCHANGED <<event, waiters, seen>>,
           \A u \in Threads : u # t => pc'[u] = pc[u],
           \A u \in Threads : u # t /\ pc[u] \in ArmedLabels
               => cell'[index'[u]].signal_count = cell[index[u]].signal_count,
           pc[t] # "exit_set",
           pc[t] \in ReadingLabels => pc'[t] \in ReadingLabels,
           \/ pc'[t] \notin ArmedLabels
           \/ /\ pc[t] = "wait_event" /\ pc'[t] = "sleep"
              /\ cell'[index'[t]].signal_count = cell[index[t]].signal_count
    PROVE  SignalInv'
<1> USE DEF SignalInv, ArmedLabels
<1>1. \A u \in Threads : WillSignal(u) => WillSignal(u)' BY DEF WillSignal, ReadingLabels
<1>2. \A u \in Threads : pc[u] = "exit_set" => pc'[u] = "exit_set" OBVIOUS
<1>3. \A u \in Threads : WillSleep(u)' => WillSleep(u) BY DEF WillSleep, EventWaitOver
<1>4. EverySleeperHeard' BY <1>1, <1>3 DEF EverySleeperHeard
<1>5. QED BY <1>2, <1>4, Zenon DEF EventWaitOver

\* LEMMA 1 and LEMMA 2 of sync0sync.c: without speculative reads, a thread
\* that is going to sleep, or sleeps, on an unsignalled event has somebody who
\* will signal it.
THEOREM WakeupNotLost == Spec => []NoLostWakeup
<1> DEFINE Inv == ~plan.speculative => SignalInv
<1> USE MutexAssumption
<1>1. Init => SignalInv BY DEF Init, SignalInv, ArmedLabels, EverySleeperHeard, WillSleep
<1>2. ~plan.speculative /\ TypeOK /\ CellInv /\ MutualExclusion /\ SignalInv
      /\ [Next]_vars => SignalInv'
 <2> SUFFICES ASSUME ~plan.speculative, TypeOK, CellInv, MutualExclusion, SignalInv,
                     [Next]_vars
              PROVE SignalInv'
   OBVIOUS
 <2>0. /\ pc \in [Threads -> Labels]
       /\ index \in [Threads -> Cells \cup {0}]
       /\ cell \in [Cells -> [wait_object : BOOLEAN, waiting : BOOLEAN,
                              signal_count : Nat]]
       /\ event \in [is_set : BOOLEAN, signal_count : Nat]
       /\ waiters \in {0, 1} /\ fast_mutex \in {0, 1}
       /\ seen \in [Threads -> {0, 1, 2}]
       /\ \A t \in Threads : pc[t] \in CellLabels => index[t] # 0
       /\ \A t, u \in Threads : index[t] # 0 /\ index[t] = index[u] => t = u
       /\ \A t \in Threads : index[t] # 0 => cell[index[t]].wait_object
       /\ (fast_mutex = 1) <=> (\E t \in Threads : Owns(t))
   BY DEF TypeOK, CellInv, MutualExclusion, EventType
 <2> USE DEF SignalInv, ArmedLabels, EverySleeperHeard, WillSleep, WillSignal,
             EventWaitOver, CellLabels, OwnerLabels, Labels, Goto, Cells, FreeCell
 <2>1. ASSUME NEW t \in Threads, Enter(t) PROVE SignalInv'
  <3>1. /\ pc[t] = "idle" /\ pc'[t] \in {"spin", "word"}
        /\ \A u \in Threads : u # t => pc'[u] = pc[u]
    BY <2>0, <2>1 DEF Enter, TestAndSet
  <3>2. UNCHANGED <<event, waiters, seen, cell, index>> BY <2>1 DEF Enter
  <3>3. QED BY <3>1, <3>2, QuietStep DEF ReadingLabels
 <2>2. ASSUME NEW t \in Threads, SetLockWord(t) PROVE SignalInv'
  <3>1. /\ pc[t] = "word" /\ pc'[t] \in {"free_cell", "cs"}
        /\ \A u \in Threads : u # t => pc'[u] = pc[u]
    BY <2>0, <2>2 DEF SetLockWord
  <3>2. UNCHANGED <<event, waiters, seen, cell, index>> BY <2>2 DEF SetLockWord
  <3>3. QED BY <3>1, <3>2, QuietStep DEF ReadingLabels
 <2>3. ASSUME NEW t \in Threads, Spin(t) PROVE SignalInv'
  <3>1. /\ pc[t] = "spin" /\ pc'[t] \in {"word", "reserve"}
        /\ \A u \in Threads : u # t => pc'[u] = pc[u]
    BY <2>0, <2>3 DEF Spin, TestAndSet
  <3>2. UNCHANGED <<event, waiters, seen, cell, index>> BY <2>3 DEF Spin
  <3>3. QED BY <3>1, <3>2, QuietStep DEF ReadingLabels
 <2>4. ASSUME NEW t \in Threads, ReserveCell(t) PROVE SignalInv'
  <3>1. /\ \A u \in Threads : u # t => pc'[u] = pc[u] /\ index'[u] = index[u]
        /\ pc[t] \notin ReadingLabels \cup {"exit_set"} /\ pc'[t] \notin ArmedLabels
        /\ UNCHANGED <<event, waiters, seen>>
    BY <2>0, <2>4 DEF ReserveCell, ReadingLabels
  <3>2. \A u \in Threads : u # t /\ pc[u] \in CellLabels
           => cell'[index[u]].signal_count = cell[index[u]].signal_count
    BY <2>0, <2>4 DEF ReserveCell
  <3>3. QED BY <3>1, <3>2, QuietStep DEF ReadingLabels
 <2>5. ASSUME NEW t \in Threads, ResetEvent(t) PROVE SignalInv'
  <3>1. /\ \A u \in Threads : u # t => pc'[u] = pc[u]
        /\ pc'[t] = "set_waiters" /\ pc[t] = "reset"
        /\ UNCHANGED <<waiters, seen, index>>
        /\ event'.is_set = FALSE /\ event'.signal_count = event.signal_count
    BY <2>0, <2>5 DEF ResetEvent, EventReset
  <3>2. \A u \in Threads : u # t /\ pc[u] \in CellLabels
           => cell'[index[u]].signal_count = cell[index[u]].signal_count
    BY <2>0, <2>5 DEF ResetEvent
  <3>3. cell'[index[t]].signal_count = event.signal_count BY <2>0, <2>5 DEF ResetEvent
  <3>4. \A u \in Threads : pc'[u] \in ArmedLabels =>
           /\ cell'[index[u]].signal_count \leq event'.signal_count
           /\ u # t /\ event.is_set => ~(event'.signal_count = cell'[index[u]].signal_count)
    BY <2>0, <3>1, <3>2, <3>3
  <3>5. \A u \in Threads : WillSignal(u) => WillSignal(u)' BY <3>1
  <3>6. \A u \in Threads : WillSleep(u)' => WillSleep(u) BY <2>0, <3>1, <3>2, <3>4
  <3>7. QED BY <2>0, <3>1, <3>2, <3>4, <3>5, <3>6
 <2>6. ASSUME NEW t \in Threads, SetWaiters(t) PROVE SignalInv' BY <2>0, <2>6 DEF SetWaiters
 <2>7. ASSUME NEW t \in Threads, Retry(t) PROVE SignalInv'
  <3>1. CASE fast_mutex = 0 BY <2>0, <2>7, <3>1, QuietStep DEF Retry, TestAndSet, ReadingLabels
  <3>2. CASE fast_mutex = 1
   <4>1. /\ pc[t] = "retry" /\ pc'[t] \in {"retry", "wait_event"}
         /\ \A u \in Threads : u # t => pc'[u] = pc[u]
         /\ UNCHANGED <<waiters, seen, index, cell, event>>
     BY <2>0, <2>7, <3>2 DEF Retry, TestAndSet
   <4>2. PICK o \in Threads : pc[o] \in OwnerLabels BY <2>0, <3>2 DEF Owns
   <4>3. \A u \in Threads : WillSignal(u) => WillSignal(u)' BY <4>1
   <4>4. \A u \in Threads : pc[u] = "exit_set" => pc'[u] = "exit_set" BY <4>1
   <4>5. waiters = 1 => WillSignal(o)' BY <4>1, <4>2
   <4>6. WillSleep(t)' => \E u \in Threads : WillSignal(u)' BY <2>0, <4>1, <4>4, <4>5
   <4>7. \A u \in Threads : u # t /\ WillSleep(u)' => WillSleep(u) BY <4>1
   <4>8. EverySleeperHeard' BY <4>3, <4>6, <4>7
   <4>9. QED BY <2>0, <4>1, <4>4, <4>8
  <3>3. QED BY <2>0, <3>1, <3>2
 <2>8. ASSUME NEW t \in Threads, FreeOwnCell(t) PROVE SignalInv'
   BY <2>0, <2>8, QuietStep DEF FreeOwnCell, ReleaseCell, ReadingLabels
 <2>9. ASSUME NEW t \in Threads, WaitEvent(t) PROVE SignalInv'
  <3>1. /\ pc[t] = "wait_event" /\ pc'[t] = "sleep"
        /\ \A u \in Threads : u # t => pc'[u] = pc[u]
        /\ UNCHANGED <<event, waiters, seen, index>>
    BY <2>0, <2>9 DEF WaitEvent
  <3>2. \A c \in Cells : cell'[c].signal_count = cell[c].signal_count BY <2>0, <2>9 DEF WaitEvent
  <3>3. \A u \in Threads : pc[u] \in ArmedLabels
           => cell'[index'[u]].signal_count = cell[index[u]].signal_count
    BY <2>0, <3>1, <3>2
  <3>4. QED BY <3>1, <3>3, QuietStep DEF ReadingLabels
 <2>10. ASSUME NEW t \in Threads, Wake(t) PROVE SignalInv'
  <3>1. /\ pc[t] = "sleep" /\ pc'[t] = "woken"
        /\ \A u \in Threads : u # t => pc'[u] = pc[u]
    BY <2>0, <2>10 DEF Wake
  <3>2. UNCHANGED <<event, waiters, seen, cell, index>> BY <2>10 DEF Wake
  <3>3. QED BY <3>1, <3>2, QuietStep DEF ReadingLabels
 <2>11. ASSUME NEW t \in Threads, Woken(t) PROVE SignalInv'
  <3>1. /\ \A u \in Threads : u # t => pc'[u] = pc[u] /\ index'[u] = index[u]
        /\ pc[t] \notin ReadingLabels \cup {"exit_set"} /\ pc'[t] \notin ArmedLabels
        /\ UNCHANGED <<event, waiters, seen>>
    BY <2>0, <2>11 DEF Woken, ReleaseCell, ReadingLabels
  <3>2. \A u \in Threads : u # t /\ pc[u] \in CellLabels
           => cell'[index[u]].signal_count = cell[index[u]].signal_count
    BY <2>0, <2>11 DEF Woken, ReleaseCell
  <3>3. QED BY <3>1, <3>2, QuietStep DEF ReadingLabels
 <2>12. ASSUME NEW t \in Threads, Exit(t) PROVE SignalInv'
   BY <2>0, <2>12, QuietStep DEF Exit, ReadingLabels
 <2>13. ASSUME NEW t \in Threads, SpeculateRead(t) PROVE SignalInv'
   BY <2>13, Zenon DEF SpeculateRead
 <2>14. ASSUME NEW t \in Threads, ResetLockWord(t) PROVE SignalInv'
   BY <2>0, <2>14, QuietStep DEF ResetLockWord, ReadingLabels
 <2>15. ASSUME NEW t \in Threads, Unlock(t) PROVE SignalInv'
   BY <2>0, <2>15, QuietStep DEF Unlock, ReadingLabels
 <2>16. ASSUME NEW t \in Threads, ReadWaiters(t) PROVE SignalInv' BY <2>0, <2>16 DEF ReadWaiters
 <2>17. ASSUME NEW t \in Threads, ClearWaiters(t) PROVE SignalInv' BY <2>0, <2>17 DEF ClearWaiters
 <2>18. ASSUME NEW t \in Threads, SetEvent(t) PROVE SignalInv'
   BY <2>0, <2>18 DEF SetEvent, EventSet
 <2>19. CASE MonitorStep
  <3>1. CASE MonitorScan \/ MonitorLook
   <4>1. UNCHANGED <<waiters, event, cell, pc, index, seen>>
     BY <3>1, Zenon DEF MonitorScan, MonitorLook
   <4>2. QED BY <4>1
  <3>2. CASE MonitorWake BY <2>0, <3>2 DEF MonitorWake, EventSet
  <3>3. QED BY <2>19, <3>1, <3>2 DEF MonitorStep
 <2>20. CASE UNCHANGED vars BY <2>20 DEF vars
 <2>21. QED
   BY <2>1, <2>2, <2>3, <2>4, <2>5, <2>6, <2>7, <2>8, <2>9, <2>10, <2>11, <2>12, <2>13, <2>14,
      <2>15, <2>16, <2>17, <2>18, <2>19, <2>20 DEF Next, ThreadStep, Terminated
<1>3. Init => Inv BY <1>1
<1>4. TypeOK /\ CellInv /\ MutualExclusion /\ Inv /\ [Next]_vars => Inv' BY <1>2, PlanKept, Zenon
<1>5. Inv => NoLostWakeup BY Zenon DEF SignalInv, NoLostWakeup
<1> HIDE DEF Inv
<1>6. QED BY <1>3, <1>4, <1>5, TypeCorrect, CellsOwned, Exclusion, PTL DEF Spec
-----------------------------------------------------------------------------
\* sync_array_reserve_cell finds a free cell for every thread that asks: the
\* ut_error at its end is never reached.
THEOREM CellsSuffice == Spec => []CellsExclusive
<1> USE MutexAssumption, CellsAssumption
<1>1. TypeOK /\ CellInv => CellsExclusive
 <2> SUFFICES ASSUME TypeOK, CellInv PROVE CellsExclusive OBVIOUS
 <2>1. ASSUME NEW t \in Threads, pc[t] = "reserve", \A c \in Cells : cell[c].wait_object
       PROVE FALSE
  <3> DEFINE Waiters == Threads \ {t}
             f == [c \in Cells |-> CHOOSE u \in Threads : index[u] = c]
  <3>1. index[t] = 0 BY <2>1 DEF CellInv, NoCellLabels
  <3>2. \A c \in Cells : f[c] \in Waiters /\ index[f[c]] = c BY <2>1, <3>1 DEF CellInv, Cells
  <3>3. f \in [Cells -> Waiters] BY <3>2
  <3>4. IsFiniteSet(Waiters) /\ Cardinality(Waiters) = Cardinality(Threads) - 1
    BY <2>1, FS_RemoveElement
  <3>5. IsFiniteSet(Cells) /\ Cardinality(Cells) = NCells BY FS_Interval DEF Cells
  <3>6. Cardinality(Threads) \in Nat BY FS_CardinalityType
  <3>7. Cardinality(Waiters) < Cardinality(Cells) BY <3>4, <3>5, <3>6
  <3> HIDE DEF f, Waiters
  <3>8. \E c, d \in Cells : c # d /\ f[c] = f[d] BY <3>3, <3>4, <3>5, <3>7, FS_PigeonHole
  <3>9. QED BY <3>2, <3>8
 <2>2. QED BY <2>1 DEF CellsExclusive, CellInv, HoldsCell
<1>2. QED BY <1>1, TypeCorrect, CellsOwned, PTL
-----------------------------------------------------------------------------
\* The owner that the abstract lock sees.
LEMMA OwnerIs ==
    ASSUME MutualExclusion
    PROVE  /\ \A t \in Threads : Owns(t) => OwnerOf = t
           /\ (\A t \in Threads : ~Owns(t)) => OwnerOf = NoThread
BY DEF MutualExclusion, OwnerOf

\* mutex_enter and mutex_exit implement an atomic lock: a thread acquires it
\* when its trylock succeeds, only while the lock is free, and releases it when
\* it unlocks the OS mutex; every other step leaves the owner as it is.
THEOREM ImplementsLock == Spec => LockSpec
<1> USE MutexAssumption
<1>1. Init => Lock!Init BY DEF Init, Lock!Init, OwnerOf, Owns, OwnerLabels
<1>2. TypeOK /\ MutualExclusion /\ MutualExclusion' /\ [Next]_vars
      => [Lock!Next]_OwnerOf
 <2> SUFFICES ASSUME TypeOK, MutualExclusion, MutualExclusion', [Next]_vars
              PROVE  [Lock!Next]_OwnerOf
   OBVIOUS
 <2>0. pc \in [Threads -> Labels] BY DEF TypeOK
 <2>a. ASSUME NEW t \in Threads, fast_mutex = 0, Owns(t)' PROVE [Lock!Next]_OwnerOf
  <3>1. OwnerOf = NoThread BY <2>a, OwnerIs DEF MutualExclusion
  <3>3. OwnerOf' = t BY <2>a, Zenon DEF MutualExclusion, OwnerOf
  <3>4. QED BY <3>1, <3>3 DEF Lock!Next, Lock!Acquire
 <2>b. ASSUME NEW t \in Threads, Owns(t), \A u \in Threads : ~Owns(u)'
       PROVE  [Lock!Next]_OwnerOf
  <3>1. OwnerOf = t BY <2>b, OwnerIs
  <3>3. OwnerOf' = NoThread BY <2>b, Zenon DEF OwnerOf
  <3>4. QED BY <3>1, <3>3 DEF Lock!Next, Lock!Release
 <2>c. ASSUME \A u \in Threads : Owns(u)' <=> Owns(u) PROVE [Lock!Next]_OwnerOf
  <3>1. UNCHANGED OwnerOf BY <2>c DEF OwnerOf
  <3>2. QED BY <3>1
 <2> USE DEF Owns, OwnerLabels, Labels, Goto
 <2>1. ASSUME NEW t \in Threads, Enter(t) PROVE [Lock!Next]_OwnerOf
  <3>1. CASE fast_mutex = 0 BY <2>0, <2>a, <2>1, <3>1 DEF Enter, TestAndSet
  <3>2. CASE fast_mutex # 0 BY <2>0, <2>c, <2>1, <3>2 DEF Enter, TestAndSet
  <3>3. QED BY <3>1, <3>2
 <2>2. ASSUME NEW t \in Threads, SetLockWord(t) PROVE [Lock!Next]_OwnerOf
   BY <2>0, <2>c, <2>2 DEF SetLockWord
 <2>3. ASSUME NEW t \in Threads, Spin(t) PROVE [Lock!Next]_OwnerOf
  <3>1. CASE fast_mutex = 0 BY <2>0, <2>a, <2>3, <3>1 DEF Spin, TestAndSet
  <3>2. CASE fast_mutex # 0 BY <2>0, <2>c, <2>3, <3>2 DEF Spin, TestAndSet
  <3>3. QED BY <3>1, <3>2
 <2>4. ASSUME NEW t \in Threads, ReserveCell(t) PROVE [Lock!Next]_OwnerOf
   BY <2>0, <2>c, <2>4 DEF ReserveCell
 <2>5. ASSUME NEW t \in Threads, ResetEvent(t) PROVE [Lock!Next]_OwnerOf
   BY <2>0, <2>c, <2>5 DEF ResetEvent
 <2>6. ASSUME NEW t \in Threads, SetWaiters(t) PROVE [Lock!Next]_OwnerOf
   BY <2>0, <2>c, <2>6 DEF SetWaiters
 <2>7. ASSUME NEW t \in Threads, Retry(t) PROVE [Lock!Next]_OwnerOf
  <3>1. CASE fast_mutex = 0 BY <2>0, <2>a, <2>7, <3>1 DEF Retry, TestAndSet
  <3>2. CASE fast_mutex # 0 BY <2>0, <2>c, <2>7, <3>2 DEF Retry, TestAndSet
  <3>3. QED BY <3>1, <3>2
 <2>8. ASSUME NEW t \in Threads, FreeOwnCell(t) PROVE [Lock!Next]_OwnerOf
   BY <2>0, <2>c, <2>8 DEF FreeOwnCell, ReleaseCell
 <2>9. ASSUME NEW t \in Threads, WaitEvent(t) PROVE [Lock!Next]_OwnerOf
   BY <2>0, <2>c, <2>9 DEF WaitEvent
 <2>10. ASSUME NEW t \in Threads, Wake(t) PROVE [Lock!Next]_OwnerOf BY <2>0, <2>c, <2>10 DEF Wake
 <2>11. ASSUME NEW t \in Threads, Woken(t) PROVE [Lock!Next]_OwnerOf
   BY <2>0, <2>c, <2>11 DEF Woken, ReleaseCell
 <2>12. ASSUME NEW t \in Threads, Exit(t) PROVE [Lock!Next]_OwnerOf BY <2>0, <2>c, <2>12 DEF Exit
 <2>13. ASSUME NEW t \in Threads, SpeculateRead(t) PROVE [Lock!Next]_OwnerOf
   BY <2>0, <2>c, <2>13 DEF SpeculateRead
 <2>14. ASSUME NEW t \in Threads, ResetLockWord(t) PROVE [Lock!Next]_OwnerOf
   BY <2>0, <2>c, <2>14 DEF ResetLockWord
 <2>15. ASSUME NEW t \in Threads, Unlock(t) PROVE [Lock!Next]_OwnerOf
   BY <2>0, <2>b, <2>15 DEF Unlock, MutualExclusion
 <2>16. ASSUME NEW t \in Threads, ReadWaiters(t) PROVE [Lock!Next]_OwnerOf
   BY <2>0, <2>c, <2>16 DEF ReadWaiters
 <2>17. ASSUME NEW t \in Threads, ClearWaiters(t) PROVE [Lock!Next]_OwnerOf
   BY <2>0, <2>c, <2>17 DEF ClearWaiters
 <2>18. ASSUME NEW t \in Threads, SetEvent(t) PROVE [Lock!Next]_OwnerOf
   BY <2>0, <2>c, <2>18 DEF SetEvent
 <2>19. CASE MonitorStep \/ UNCHANGED vars
  <3>1. UNCHANGED pc BY <2>19, Zenon DEF MonitorStep, MonitorScan, MonitorLook, MonitorWake, vars
  <3>2. QED BY <2>c, <3>1
 <2>20. QED
   BY <2>1, <2>2, <2>3, <2>4, <2>5, <2>6, <2>7, <2>8, <2>9, <2>10, <2>11, <2>12, <2>13, <2>14,
      <2>15, <2>16, <2>17, <2>18, <2>19 DEF Next, ThreadStep, Terminated
<1>3. QED BY <1>1, <1>2, TypeCorrect, Exclusion, PTL DEF Spec, LockSpec, Lock!Spec
=============================================================================
