---------------------------- MODULE RwLockProofs ----------------------------
(***************************************************************************)
(* Proofs about RwLock, for any number of threads, calls and recursive     *)
(* locks: its fields describe its holders, the reservation of a waiting    *)
(* writer is live and kept, no wake-up is lost, and the lock implements    *)
(* the abstract read-write lock.                                           *)
(***************************************************************************)
EXTENDS RwLock, FiniteSetTheorems, TLAPS

\* The fields and the holders: what the sections under lock->mutex change.
FieldTypes ==
    /\ writer \in {NOT_LOCKED, EX, WAIT_EX}
    /\ reader_count \in Nat
    /\ writer_thread \in Threads \cup {NoThread}
    /\ writer_count \in Nat
    /\ pass \in {0, 1}
    /\ wait_ex \in BOOLEAN
    /\ s_held \in SUBSET Threads
    /\ s_passed \in Nat
    /\ x_held \in [Threads -> Nat]
    /\ x_passed \in BOOLEAN

\* writer_thread and pass = 0 identify the holder of an x-lock.
OwnerInv ==
    /\ x_passed => pass = 1
    /\ writer = EX /\ pass = 0 => writer_thread \in Threads /\ x_held[writer_thread] > 0

HolderInv == FieldTypes /\ FieldsMatchHolders /\ OwnerInv

\* A thread inside a call of a lock function holds no s-lock.
CallInv ==
    /\ pc \in [Threads -> Labels]
    /\ request \in [Threads -> {0, 1}]
    /\ \A t \in Threads : pc[t] \notin {"idle", "signal"} => t \notin s_held

LEMMA SharedGranted ==
    ASSUME HolderInv, NEW t \in Threads, NEW passed \in BOOLEAN,
           t \notin s_held, SLockLow(t, passed)
    PROVE  HolderInv'
<1> USE RwLockAssumption DEF NOT_LOCKED, EX, WAIT_EX
<1>1. IsFiniteSet(s_held) /\ Cardinality(s_held) \in Nat
  BY FS_Subset, FS_CardinalityType DEF HolderInv, FieldTypes
<1>2. Cardinality(s_held \cup {t}) = Cardinality(s_held) + 1 BY <1>1, FS_AddElement
<1>3. FieldTypes' /\ OwnerInv' BY DEF HolderInv, FieldTypes, OwnerInv, SLockLow, GrantShared
<1>4. FieldsMatchHolders'
  BY <1>1, <1>2 DEF HolderInv, FieldTypes, FieldsMatchHolders, SLockLow, GrantShared
<1>5. QED BY <1>3, <1>4 DEF HolderInv

LEMMA ExclusiveGranted ==
    ASSUME HolderInv, NEW t \in Threads, NEW p \in {0, 1}, XLockLow(t, p)
    PROVE  HolderInv'
<1> USE DEF NOT_LOCKED, EX, WAIT_EX, HolderInv
<1>1. FieldTypes'
 <2>1. wait_ex' \in BOOLEAN /\ x_passed' \in BOOLEAN
   BY Zenon DEF FieldTypes, XLockLow, TakeFree, TakeReserved, TakeAgain, GrantExclusive
 <2>2. /\ writer' \in {NOT_LOCKED, EX, WAIT_EX} /\ pass' \in {0, 1}
       /\ writer_thread' \in Threads \cup {NoThread} /\ writer_count' \in Nat
       /\ x_held' \in [Threads -> Nat]
   BY DEF FieldTypes, XLockLow, TakeFree, TakeReserved, TakeAgain, GrantExclusive
 <2>3. QED
   BY <2>1, <2>2 DEF FieldTypes, XLockLow, TakeFree, TakeReserved, TakeAgain, GrantExclusive
<1>2. UNCHANGED <<reader_count, s_held, s_passed>>
  BY DEF XLockLow, TakeFree, TakeReserved, TakeAgain, GrantExclusive
<1>3. CASE TakeFree(t, p) \/ TakeReserved(t, p)
 <2>1. /\ writer # EX /\ writer_count = 0 /\ reader_count = 0
       /\ ~x_passed /\ \A u \in Threads : x_held[u] = 0
   BY <1>3 DEF TakeFree, TakeReserved, OwnReservation, FieldTypes, FieldsMatchHolders
 <2>2. /\ writer' = EX /\ writer_count' = 1 /\ pass' = p /\ writer_thread' = t
       /\ p = 0 => ~x_passed' /\ x_held' = [x_held EXCEPT ![t] = 1]
       /\ p = 1 => x_passed' /\ UNCHANGED x_held
   BY <1>3, <2>1 DEF TakeFree, TakeReserved, OwnReservation, GrantExclusive, FieldTypes
 <2>3. FieldsMatchHolders' BY <1>2, <2>1, <2>2 DEF FieldTypes, FieldsMatchHolders
 <2>4. QED BY <1>1, <2>1, <2>2, <2>3 DEF FieldTypes, OwnerInv
<1>4. CASE TakeAgain(t, p)
 <2>1. x_held[t] > 0 /\ writer = EX /\ ~x_passed BY <1>4 DEF TakeAgain, OwnLock, OwnerInv
 <2>2. /\ UNCHANGED <<writer, writer_thread, pass, x_passed>>
       /\ writer_count' = writer_count + 1
       /\ x_held' = [x_held EXCEPT ![t] = @ + 1]
   BY <1>4 DEF TakeAgain, OwnLock, GrantExclusive
 <2>3. FieldsMatchHolders' BY <1>2, <2>1, <2>2 DEF FieldTypes, FieldsMatchHolders
 <2>4. QED BY <1>1, <2>1, <2>2, <2>3 DEF FieldTypes, OwnerInv
<1>5. QED BY <1>3, <1>4 DEF XLockLow

LEMMA ExclusiveRefused ==
    ASSUME HolderInv, NEW t \in Threads, NEW p \in {0, 1}, XLockLowFails(t, p)
    PROVE  HolderInv'
<1>1. UNCHANGED <<reader_count, writer_count, s_held, s_passed, x_held, x_passed>>
  BY DEF XLockLowFails, ReserveNext, fields, holders
<1>2. /\ FieldTypes'
      /\ \/ UNCHANGED <<writer, writer_thread, pass>>
         \/ writer = NOT_LOCKED /\ writer' = WAIT_EX
  BY DEF XLockLowFails, ReserveNext, fields, HolderInv, FieldTypes, holders
<1>3. QED
  BY <1>1, <1>2 DEF HolderInv, FieldTypes, FieldsMatchHolders, OwnerInv, NOT_LOCKED, EX, WAIT_EX

LEMMA Untouched ==
    ASSUME HolderInv, UNCHANGED <<fields, holders>>
    PROVE  HolderInv'
BY DEF HolderInv, FieldTypes, FieldsMatchHolders, OwnerInv, fields, holders

LEMMA SharedReleased ==
    ASSUME HolderInv, NEW t \in Threads, SUnlock(t)
    PROVE  HolderInv'
<1> USE DEF HolderInv, NOT_LOCKED, EX, WAIT_EX
<1>1. IsFiniteSet(s_held) /\ Cardinality(s_held) \in Nat
  BY FS_Subset, FS_CardinalityType, RwLockAssumption DEF FieldTypes
<1>2. t \in s_held => Cardinality(s_held \ {t}) = Cardinality(s_held) - 1 BY <1>1, FS_RemoveElement
<1>3. t \in s_held => Cardinality(s_held) > 0 BY <1>1, FS_EmptySet
<1>4. /\ UNCHANGED <<writer, writer_thread, writer_count, pass, wait_ex, x_held, x_passed>>
      /\ reader_count' = reader_count - 1
      /\ \/ t \in s_held /\ s_held' = s_held \ {t} /\ s_passed' = s_passed
         \/ s_passed > 0 /\ s_passed' = s_passed - 1 /\ s_held' = s_held
  BY DEF SUnlock
<1>5. /\ reader_count > 0 /\ reader_count' = Cardinality(s_held') + s_passed'
      /\ FieldTypes'
  BY <1>1, <1>2, <1>3, <1>4 DEF FieldTypes, FieldsMatchHolders
<1>6. QED BY <1>4, <1>5 DEF FieldTypes, FieldsMatchHolders, OwnerInv

LEMMA ExclusiveReleased ==
    ASSUME HolderInv, NEW t \in Threads, XUnlock(t)
    PROVE  HolderInv'
<1> USE DEF HolderInv, NOT_LOCKED, EX, WAIT_EX
<1>1. /\ UNCHANGED <<reader_count, writer_thread, pass, wait_ex, s_held, s_passed, x_passed>>
      /\ x_held[t] > 0 /\ x_held' = [x_held EXCEPT ![t] = x_held[t] - 1]
      /\ writer_count' = writer_count - 1
      /\ writer' = IF writer_count' = 0 THEN NOT_LOCKED ELSE writer
  BY DEF XUnlock
<1>2. /\ writer = EX /\ writer_count = x_held[t] /\ ~x_passed
      /\ \A u \in Threads \ {t} : x_held[u] = 0
  BY <1>1 DEF FieldsMatchHolders, FieldTypes
<1>3. FieldTypes' BY <1>1, <1>2 DEF FieldTypes
<1>4. FieldsMatchHolders' BY <1>1, <1>2, <1>3 DEF FieldTypes, FieldsMatchHolders
<1>5. OwnerInv' BY <1>1, <1>2 DEF FieldTypes, OwnerInv
<1>6. QED BY <1>3, <1>4, <1>5

LEMMA PickedUp ==
    ASSUME HolderInv, NEW t \in Threads, PickUp(t) \/ MoveOwnership(t)
    PROVE  HolderInv'
<1> USE DEF HolderInv, NOT_LOCKED, EX, WAIT_EX, holders, fields
<1>1. CASE PickUp(t)
 <2>1. /\ x_passed /\ x_passed' = FALSE
       /\ x_held' = [x_held EXCEPT ![t] = 1]
       /\ UNCHANGED <<writer, reader_count, writer_thread, writer_count, pass,
                      wait_ex, s_held, s_passed>>
   BY <1>1, Zenon DEF PickUp
 <2>2. writer = EX /\ writer_count = 1 /\ pass = 1 /\ \A u \in Threads : x_held[u] = 0
   BY <2>1 DEF FieldsMatchHolders, OwnerInv
 <2>3. FieldTypes' /\ OwnerInv' BY <2>1, <2>2 DEF FieldTypes, OwnerInv
 <2>4. FieldsMatchHolders' BY <2>1, <2>2 DEF FieldTypes, FieldsMatchHolders
 <2>5. QED BY <2>3, <2>4
<1>2. CASE MoveOwnership(t) BY <1>2 DEF FieldTypes, FieldsMatchHolders, OwnerInv, MoveOwnership
<1>3. QED BY <1>1, <1>2
-----------------------------------------------------------------------------
\* The invariant that TypeOK and FieldsMatchHolders are proved from.
LockInv == HolderInv /\ CallInv

\* Nothing but a section under lock->mutex touches the fields.
LEMMA HolderStep ==
    ASSUME LockInv, [Next]_vars
    PROVE  HolderInv'
<1> USE DEF LockInv
<1>1. ASSUME NEW t \in Threads, NEW passed \in BOOLEAN, SLock(t, passed)
      PROVE  HolderInv'
  BY <1>1, SharedGranted, Untouched, Zenon DEF SLock, MayRequest
<1>2. ASSUME NEW t \in Threads, SLockNowait(t) PROVE HolderInv'
  BY <1>2, SharedGranted, Untouched, Zenon DEF SLockNowait, MayRequest
<1>3. ASSUME NEW t \in Threads, SSpin(t) PROVE HolderInv'
 <2>1. t \notin s_held BY <1>3 DEF SSpin, CallInv
 <2>2. (pc[t] = "s_spin_passed") \in BOOLEAN OBVIOUS
 <2>3. QED BY <1>3, <2>1, <2>2, SharedGranted, Untouched, Zenon DEF SSpin
<1>4. ASSUME NEW t \in Threads, XLock(t, 0) \/ XLock(t, 1) PROVE HolderInv'
  BY <1>4, Untouched, Zenon DEF XLock
<1>5. ASSUME NEW t \in Threads, XFirst(t) \/ XSecond(t) PROVE HolderInv'
 <2>1. request[t] \in {0, 1} BY DEF CallInv
 <2>2. XLockLow(t, request[t]) \/ XLockLowFails(t, request[t]) BY <1>5, Zenon DEF XFirst, XSecond
 <2>3. QED BY <2>1, <2>2, ExclusiveGranted, ExclusiveRefused
<1>6. ASSUME NEW t \in Threads, XLockNowait(t) PROVE HolderInv'
  BY <1>6, 0 \in {0, 1}, ExclusiveGranted, Untouched, Zenon DEF XLockNowait, XLockLow
<1>7. ASSUME NEW t \in Threads, Wake(t) \/ Signal(t) PROVE HolderInv'
  BY <1>7, Untouched, Zenon DEF Wake, Signal
<1>8. ASSUME NEW t \in Threads, SUnlock(t) PROVE HolderInv' BY <1>8, SharedReleased
<1>9. ASSUME NEW t \in Threads, XUnlock(t) PROVE HolderInv' BY <1>9, ExclusiveReleased
<1>10. ASSUME NEW t \in Threads, PickUp(t) \/ MoveOwnership(t) PROVE HolderInv' BY <1>10, PickedUp
<1>11. CASE UNCHANGED vars BY <1>11, Untouched, Zenon DEF vars
<1>12. QED
  BY <1>1, <1>2, <1>3, <1>4, <1>5, <1>6, <1>7, <1>8, <1>9, <1>10, <1>11 DEF Next, Request, Progress,
     Terminated

\* The place of each thread: who is in a call holds no s-lock.
LEMMA CallStep ==
    ASSUME LockInv, [Next]_vars
    PROVE  CallInv'
<1> USE DEF CallInv, LockInv, Labels, Goto
<1>0. s_held \subseteq Threads BY DEF HolderInv, FieldTypes
<1>1. ASSUME NEW t \in Threads, NEW passed \in BOOLEAN, SLock(t, passed)
      PROVE  CallInv'
  BY <1>0, <1>1 DEF SLock, MayRequest, SLockLow, GrantShared, holders
<1>2. ASSUME NEW t \in Threads, SLockNowait(t) PROVE CallInv'
  BY <1>0, <1>2 DEF SLockNowait, MayRequest, SLockLow, GrantShared, holders
<1>3. ASSUME NEW t \in Threads, SSpin(t) PROVE CallInv'
  BY <1>0, <1>3 DEF SSpin, SLockLow, GrantShared, holders
<1>4. ASSUME NEW t \in Threads, NEW p \in {0, 1}, XLock(t, p) PROVE CallInv'
  BY <1>4 DEF XLock, MayRequestX, MayRequest, holders
<1>5. ASSUME NEW t \in Threads, XFirst(t) \/ XSecond(t) PROVE CallInv'
 <2>1. UNCHANGED <<s_held, request>>
   BY <1>5 DEF XFirst, XSecond, XLockLow, TakeFree, TakeReserved, TakeAgain, GrantExclusive,
      XLockLowFails, ReserveNext, holders
 <2>2. \E l \in {"idle", "x_second", "x_wait"} : pc' = [pc EXCEPT ![t] = l]
   BY <1>5, Zenon DEF XFirst, XSecond
 <2>3. pc[t] \in {"x_first", "x_second"} BY <1>5 DEF XFirst, XSecond
 <2>4. QED BY <2>1, <2>2, <2>3
<1>6. ASSUME NEW t \in Threads, XLockNowait(t) PROVE CallInv'
 <2>1. UNCHANGED <<s_held, request, pc>>
   BY <1>6 DEF XLockNowait, TakeFree, TakeAgain, GrantExclusive, holders
 <2>2. QED BY <2>1
<1>7. ASSUME NEW t \in Threads, Wake(t) \/ Signal(t) PROVE CallInv'
  BY <1>7 DEF Wake, Signal, holders
<1>8. ASSUME NEW t \in Threads, SUnlock(t) PROVE CallInv' BY <1>0, <1>8 DEF SUnlock, LeaveSection
<1>9. ASSUME NEW t \in Threads, XUnlock(t) PROVE CallInv' BY <1>9 DEF XUnlock, LeaveSection
<1>10. ASSUME NEW t \in Threads, PickUp(t) \/ MoveOwnership(t) PROVE CallInv'
  BY <1>10 DEF PickUp, MoveOwnership, holders
<1>11. CASE UNCHANGED vars BY <1>11 DEF vars, holders
<1>12. QED
  BY <1>1, <1>2, <1>3, <1>4, <1>5, <1>6, <1>7, <1>8, <1>9, <1>10, <1>11 DEF Next, Request, Progress,
     Terminated

THEOREM LockInvariant == Spec => []LockInv
<1>1. Init => LockInv
 <2> SUFFICES ASSUME Init PROVE LockInv OBVIOUS
 <2> USE DEF Init, NOT_LOCKED, EX, WAIT_EX
 <2>1. FieldTypes /\ OwnerInv BY DEF FieldTypes, OwnerInv
 <2>2. Cardinality(s_held) = 0 BY FS_EmptySet
 <2>3. FieldsMatchHolders BY <2>2 DEF FieldsMatchHolders
 <2>4. CallInv BY DEF CallInv, Labels
 <2>5. QED BY <2>1, <2>3, <2>4 DEF LockInv, HolderInv
<1>2. LockInv /\ [Next]_vars => LockInv' BY HolderStep, CallStep DEF LockInv
<1>3. QED BY <1>1, <1>2, PTL DEF Spec

\* rw_lock_validate, and more: the fields are what the callers hold.
THEOREM FieldsCorrect == Spec => []FieldsMatchHolders
<1>1. LockInv => FieldsMatchHolders BY DEF LockInv, HolderInv
<1>2. QED BY <1>1, LockInvariant, PTL
-----------------------------------------------------------------------------
\* The rest of TypeOK.
OtherTypes ==
    /\ waiters \in {0, 1}
    /\ event \in EventType
    /\ count \in [Threads -> Nat]
    /\ rounds \in [Threads -> Nat]

THEOREM TypeCorrect == Spec => []TypeOK
<1>1. Init => OtherTypes BY DEF Init, OtherTypes, EventType, EventCreate
<1>2. OtherTypes /\ [Next]_vars => OtherTypes'
 <2> SUFFICES ASSUME OtherTypes, [Next]_vars PROVE OtherTypes' OBVIOUS
 <2> USE DEF OtherTypes, EventType
 <2>1. ASSUME NEW t \in Threads, Request(t) PROVE OtherTypes'
  <3>1. UNCHANGED <<waiters, event, count>>
    BY <2>1, Zenon DEF Request, SLock, SLockNowait, XLock, XLockNowait, MoveOwnership
  <3>2. rounds' = rounds \/ rounds' = [rounds EXCEPT ![t] = @ + 1]
    BY <2>1, Zenon DEF Request, SLock, SLockNowait, XLock, XLockNowait, MoveOwnership,
       MayRequestX, MayRequest
  <3>3. QED BY <3>1, <3>2
 <2>2. ASSUME NEW t \in Threads, SSpin(t) \/ XFirst(t) \/ XSecond(t) PROVE OtherTypes'
  <3>1. /\ UNCHANGED rounds
        /\ UNCHANGED <<waiters, event, count>> \/ ReserveCell(t)
    BY <2>2, Zenon DEF SSpin, XFirst, XSecond
  <3>2. QED BY <3>1 DEF ReserveCell, EventReset
 <2>3. ASSUME NEW t \in Threads, Wake(t) \/ PickUp(t) PROVE OtherTypes' BY <2>3 DEF Wake, PickUp
 <2>4. ASSUME NEW t \in Threads, SUnlock(t) \/ XUnlock(t) PROVE OtherTypes'
   BY <2>4 DEF SUnlock, XUnlock, LeaveSection
 <2>5. ASSUME NEW t \in Threads, Signal(t) PROVE OtherTypes' BY <2>5 DEF Signal, EventSet
 <2>6. CASE UNCHANGED vars BY <2>6 DEF vars
 <2>7. QED BY <2>1, <2>2, <2>3, <2>4, <2>5, <2>6 DEF Next, Progress, Terminated
<1>3. LockInv /\ OtherTypes => TypeOK
  BY Zenon DEF LockInv, HolderInv, FieldTypes, CallInv, OtherTypes, TypeOK
<1>4. QED BY <1>1, <1>2, <1>3, LockInvariant, PTL DEF Spec
-----------------------------------------------------------------------------
\* The steps that change writer, writer_thread, pass or writer_is_wait_ex.
reservation == <<writer, writer_thread, pass, wait_ex>>

\* A section of an x-lock call: the lock is granted, reserved, or left alone.
LEMMA XSection ==
    ASSUME LockInv, NEW t \in Threads, XFirst(t) \/ XSecond(t)
    PROVE  /\ pc[t] \in {"x_first", "x_second"} /\ UNCHANGED request
           /\ \A u \in Threads : u # t => pc'[u] = pc[u]
           /\ \/ /\ writer # EX /\ writer' = EX /\ reader_count = 0
                 /\ OwnReservation(t) \/ writer = NOT_LOCKED
                 /\ writer_thread' = t
                 /\ OwnReservation(t) => wait_ex' = FALSE
                 /\ writer = NOT_LOCKED => UNCHANGED wait_ex
              \/ UNCHANGED reservation /\ ~OwnReservation(t)
              \/ UNCHANGED reservation /\ pc'[t] \in {"x_second", "x_wait"}
              \/ /\ writer = NOT_LOCKED /\ writer' = WAIT_EX /\ wait_ex' = TRUE
                 /\ writer_thread' = t /\ pass' = request[t]
                 /\ pc'[t] \in {"x_second", "x_wait"}
<1> USE DEF LockInv, CallInv
<1>1. /\ pc[t] \in {"x_first", "x_second"} /\ UNCHANGED request
      /\ \E l \in {"idle", "x_second", "x_wait"} : pc' = [pc EXCEPT ![t] = l]
      /\ \A u \in Threads : u # t => pc'[u] = pc[u]
  BY DEF XFirst, XSecond, Goto
<1>2. CASE XLockLow(t, request[t])
 <2>1. CASE TakeFree(t, request[t]) \/ TakeReserved(t, request[t])
   BY <1>1, <2>1 DEF TakeFree, TakeReserved, OwnReservation, NOT_LOCKED, EX, WAIT_EX
 <2>2. CASE TakeAgain(t, request[t])
   BY <1>1, <2>2 DEF TakeAgain, OwnLock, OwnReservation, reservation, NOT_LOCKED, EX, WAIT_EX
 <2>3. QED BY <1>2, <2>1, <2>2 DEF XLockLow
<1>3. CASE XLockLowFails(t, request[t])
 <2>1. pc'[t] \in {"x_second", "x_wait"}
   BY <1>3 DEF XFirst, XSecond, Goto, XLockLow, XLockLowFails, TakeFree, TakeReserved, TakeAgain,
      ReserveNext, OwnReservation, OwnLock, NOT_LOCKED, EX, WAIT_EX
 <2>2. \/ UNCHANGED reservation
       \/ /\ writer = NOT_LOCKED /\ writer' = WAIT_EX /\ wait_ex' = TRUE
          /\ writer_thread' = t /\ pass' = request[t]
   BY <1>3, Zenon DEF XLockLowFails, ReserveNext, fields, reservation
 <2>3. QED BY <1>1, <2>1, <2>2
<1>4. QED BY <1>2, <1>3 DEF XFirst, XSecond

\* Every other step leaves the reservation alone while there is one, and does
\* not move the thread that has it.
LEMMA OtherStep ==
    ASSUME LockInv, [Next]_vars, \A t \in Threads : ~(XFirst(t) \/ XSecond(t))
    PROVE  /\ writer \in {NOT_LOCKED, WAIT_EX} => UNCHANGED wait_ex /\ writer' \in {writer, EX}
           /\ writer = EX => UNCHANGED wait_ex /\ writer' \in {EX, NOT_LOCKED}
           /\ writer = WAIT_EX => /\ UNCHANGED reservation
                                  /\ reader_count' <= reader_count
                                  /\ \A t \in Threads :
                                        pc[t] \in {"x_first", "x_second", "x_wait"} =>
                                           /\ pc'[t] \in {"x_first", "x_second", "x_wait"}
                                           /\ request'[t] = request[t]
<1> USE DEF LockInv, CallInv, HolderInv, FieldTypes, NOT_LOCKED, EX, WAIT_EX, reservation
<1>1. ASSUME NEW t \in Threads, NEW passed \in BOOLEAN,
             SLock(t, passed) \/ SLockNowait(t) \/ SSpin(t)
      PROVE  /\ UNCHANGED reservation /\ UNCHANGED request
             /\ writer = WAIT_EX => UNCHANGED reader_count
             /\ \A u \in Threads : u # t => pc'[u] = pc[u]
             /\ pc[t] \notin {"x_first", "x_second", "x_wait"}
  BY <1>1 DEF SLock, SLockNowait, SSpin, SLockLow, GrantShared, MayRequest, fields, Goto
<1>2. ASSUME NEW t \in Threads, NEW p \in {0, 1}, XLock(t, p)
      PROVE  /\ UNCHANGED reservation
             /\ writer = WAIT_EX => UNCHANGED reader_count
             /\ \A u \in Threads : u # t => pc'[u] = pc[u] /\ request'[u] = request[u]
             /\ pc[t] \notin {"x_first", "x_second", "x_wait"}
  BY <1>2 DEF XLock, MayRequestX, MayRequest, fields, Goto
<1>3. ASSUME NEW t \in Threads, XLockNowait(t)
      PROVE  /\ writer = WAIT_EX => UNCHANGED reservation /\ UNCHANGED reader_count
             /\ UNCHANGED <<wait_ex, pc, request>>
             /\ writer' \in {writer, EX}
  BY <1>3 DEF XLockNowait, TakeFree, TakeAgain, OwnLock, fields, GrantExclusive
<1>4. ASSUME NEW t \in Threads, Wake(t) \/ Signal(t) \/ PickUp(t) \/ MoveOwnership(t)
      PROVE  /\ writer = WAIT_EX => UNCHANGED reservation /\ UNCHANGED reader_count
             /\ UNCHANGED <<wait_ex, request, writer>>
             /\ \A u \in Threads : u # t => pc'[u] = pc[u]
             /\ pc[t] \in {"x_first", "x_second", "x_wait"} => pc'[t] = "x_first"
 <2>1. CASE Wake(t) \/ Signal(t) BY <2>1 DEF Wake, Signal, fields, Goto
 <2>2. CASE PickUp(t) \/ MoveOwnership(t)
   BY <2>2 DEF PickUp, MoveOwnership, fields, FieldsMatchHolders
 <2>3. QED BY <1>4, <2>1, <2>2
<1>5. ASSUME NEW t \in Threads, SUnlock(t) \/ XUnlock(t)
      PROVE  /\ writer = WAIT_EX => UNCHANGED reservation /\ reader_count' <= reader_count
             /\ UNCHANGED <<wait_ex, request>>
             /\ writer' = writer \/ (writer = EX /\ writer' = NOT_LOCKED)
             /\ \A u \in Threads : u # t => pc'[u] = pc[u]
             /\ pc[t] \notin {"x_first", "x_second", "x_wait"}
 <2>1. CASE SUnlock(t) BY <2>1 DEF SUnlock, LeaveSection, Goto
 <2>2. CASE XUnlock(t) BY <2>2 DEF XUnlock, LeaveSection, Goto, FieldsMatchHolders
 <2>3. QED BY <1>5, <2>1, <2>2
<1>6. CASE UNCHANGED vars BY <1>6 DEF vars, fields
<1>7. QED BY <1>1, <1>2, <1>3, <1>4, <1>5, <1>6 DEF Next, Request, Progress, Terminated

\* The reservation of a waiting writer is live, and it is kept until that
\* writer has the lock.
LEMMA ReservationStep ==
    ASSUME LockInv, ReservationLive, [Next]_vars
    PROVE  /\ ReservationLive'
           /\ writer = WAIT_EX =>
                \/ writer' = WAIT_EX /\ UNCHANGED writer_thread /\ reader_count' <= reader_count
                \/ writer' = EX /\ UNCHANGED writer_thread /\ reader_count = 0
<1> USE DEF NOT_LOCKED, EX, WAIT_EX, reservation
<1>0. /\ writer \in {NOT_LOCKED, EX, WAIT_EX} /\ reader_count \in Nat
      /\ \A t \in Threads : request[t] \in {0, 1}
  BY DEF LockInv, HolderInv, FieldTypes, CallInv
<1>1. CASE \E t \in Threads : XFirst(t) \/ XSecond(t)
 <2>1. PICK t \in Threads : XFirst(t) \/ XSecond(t) BY <1>1
 <2>2. UNCHANGED reader_count
   BY <2>1 DEF XFirst, XSecond, XLockLow, TakeFree, TakeReserved, TakeAgain, GrantExclusive,
      XLockLowFails, ReserveNext, fields
 <2>3. /\ pc[t] \in {"x_first", "x_second"} /\ UNCHANGED request
       /\ \A u \in Threads : u # t => pc'[u] = pc[u]
   BY <2>1, XSection
 <2>4. CASE UNCHANGED reservation
  <3>1. wait_ex' = wait_ex /\ writer' = writer /\ writer_thread' = writer_thread
        /\ pass' = pass
    BY <2>4
  <3>2. (wait_ex <=> writer = WAIT_EX)' BY <3>1, Zenon DEF ReservationLive
  <3>3. writer = WAIT_EX =>
           /\ writer_thread \in Threads
           /\ pc'[writer_thread] \in {"x_first", "x_second", "x_wait"}
           /\ request[writer_thread] = pass
   <4>1. ~OwnReservation(t) \/ pc'[t] \in {"x_second", "x_wait"} BY <2>1, <3>1, XSection
   <4>2. writer = WAIT_EX =>
            /\ writer_thread \in Threads
            /\ pc[writer_thread] \in {"x_first", "x_second", "x_wait"}
            /\ request[writer_thread] = pass
     BY Zenon DEF ReservationLive
   <4>3. QED BY <2>3, <4>1, <4>2 DEF OwnReservation
  <3>4. ReservationLive' BY <2>3, <3>1, <3>2, <3>3, Zenon DEF ReservationLive
  <3>5. QED BY <1>0, <2>2, <3>1, <3>4
 <2>5. CASE writer = NOT_LOCKED /\ writer' = WAIT_EX
  <3>1. /\ wait_ex' = TRUE /\ writer_thread' = t /\ pass' = request[t]
        /\ pc'[t] \in {"x_second", "x_wait"}
    BY <2>1, <2>5, XSection
  <3>2. QED BY <2>3, <2>5, <3>1 DEF ReservationLive
 <2>6. CASE writer # EX /\ writer' = EX
  <3>1. /\ reader_count = 0 /\ writer_thread' = t
        /\ OwnReservation(t) => wait_ex' = FALSE
        /\ writer = NOT_LOCKED => UNCHANGED wait_ex
        /\ OwnReservation(t) \/ writer = NOT_LOCKED
    BY <2>1, <2>6, XSection
  <3>2. wait_ex' = FALSE
   <4>1. CASE OwnReservation(t) BY <3>1, <4>1
   <4>2. CASE writer = NOT_LOCKED
    <5>1. ~wait_ex BY <4>2, Zenon DEF ReservationLive
    <5>2. wait_ex \in BOOLEAN BY Zenon DEF LockInv, HolderInv, FieldTypes
    <5>3. QED BY <3>1, <4>2, <5>1, <5>2
   <4>3. QED BY <3>1, <4>1, <4>2
  <3>3. writer' # WAIT_EX /\ writer' = EX /\ (writer = WAIT_EX => UNCHANGED writer_thread)
    BY <2>6, <3>1 DEF OwnReservation
  <3>4. ReservationLive' BY <3>2, <3>3, Zenon DEF ReservationLive
  <3>5. QED BY <3>1, <3>3, <3>4, Zenon
 <2>7. QED BY <2>1, <2>4, <2>5, <2>6, XSection
<1>2. CASE \A t \in Threads : ~(XFirst(t) \/ XSecond(t))
  BY <1>0, <1>2, OtherStep DEF ReservationLive
<1>3. QED BY <1>1, <1>2

THEOREM ReservationIsLive == Spec => []ReservationLive
<1>1. Init => ReservationLive BY DEF Init, ReservationLive, NOT_LOCKED, WAIT_EX
<1>2. LockInv /\ ReservationLive /\ [Next]_vars => ReservationLive' BY ReservationStep
<1>3. QED BY <1>1, <1>2, LockInvariant, PTL DEF Spec

\* Nobody overtakes a writer that has reserved the lock.
THEOREM ReservationIsKept == Spec => ReservationKept
<1>1. LockInv /\ ReservationLive /\ [Next]_vars =>
        [writer = WAIT_EX =>
           \/ writer' = WAIT_EX /\ UNCHANGED writer_thread /\ reader_count' <= reader_count
           \/ writer' = EX /\ UNCHANGED writer_thread /\ reader_count = 0]_vars
  BY ReservationStep
<1>2. QED BY <1>1, LockInvariant, ReservationIsLive, PTL DEF Spec, ReservationKept
-----------------------------------------------------------------------------
WaitLabels == {"s_wait", "s_wait_passed", "x_wait"}

\* The count a waiting thread remembers is at most the event's, and smaller
\* while the event is set.
CountInv ==
    \A t \in Threads : pc[t] \in WaitLabels =>
        /\ count[t] <= event.signal_count
        /\ event.is_set => count[t] < event.signal_count

SignalInv == CountInv /\ NoLostWakeup

\* The lock is held.
Held == reader_count > 0 \/ writer = EX

\* Who the reservation belongs to.
LEMMA ReservationOwner ==
    ASSUME ReservationLive
    PROVE  writer = WAIT_EX => writer_thread \in Threads
BY Zenon DEF ReservationLive

\* A step that puts nobody to sleep and does not free a lock that is held.
LEMMA QuietStep ==
    ASSUME SignalInv, ReservationLive, NEW t \in Threads,
           UNCHANGED <<event, waiters, count>>,
           \A u \in Threads : u # t => pc'[u] = pc[u],
           pc'[t] \notin WaitLabels, pc[t] # "signal",
           Held => Held',
           writer = WAIT_EX => Held' \/ (writer' = WAIT_EX /\ UNCHANGED writer_thread)
    PROVE  SignalInv'
<1> USE DEF WaitLabels
<1>1. \A u \in Threads : Asleep(u)' => u # t /\ Asleep(u) BY DEF Asleep, EventWaitOver
<1>2. \A u \in Threads : pc[u] = "signal" => pc'[u] = "signal" OBVIOUS
<1>3. CountInv' BY DEF SignalInv, CountInv
<1>4. ASSUME NEW u \in Threads, Asleep(u)', \A v \in Threads : pc'[v] # "signal"
      PROVE  waiters' = 1 /\ (Held' \/ (writer' = WAIT_EX /\ ~Asleep(writer_thread)'))
 <2>1. waiters = 1 /\ (Held \/ (writer = WAIT_EX /\ ~Asleep(writer_thread)))
   BY <1>1, <1>2, <1>4 DEF SignalInv, NoLostWakeup, Held
 <2>2. CASE writer = WAIT_EX /\ ~Asleep(writer_thread) /\ ~Held'
   BY <1>1, <2>1, <2>2, ReservationOwner
 <2>3. QED BY <2>1, <2>2
<1>5. NoLostWakeup' BY <1>4 DEF NoLostWakeup, Held
<1>6. QED BY <1>3, <1>5 DEF SignalInv

\* A thread reserves a cell while the lock is held or reserved for another.
LEMMA ReserveStep ==
    ASSUME SignalInv, ReservationLive, NEW t \in Threads,
           event \in EventType, pc \in [Threads -> Labels], count \in [Threads -> Nat],
           ReserveCell(t), pc[t] \notin WaitLabels \cup {"signal"},
           \A u \in Threads : u # t => pc'[u] = pc[u], pc'[t] \in WaitLabels,
           \/ Held'
           \/ /\ writer = WAIT_EX /\ writer' = WAIT_EX /\ UNCHANGED writer_thread
              /\ writer_thread # t /\ ~Held
    PROVE  SignalInv'
<1> USE DEF WaitLabels, EventType
<1>1. /\ waiters' = 1 /\ event'.is_set = FALSE
      /\ event'.signal_count = event.signal_count
      /\ count' = [count EXCEPT ![t] = event.signal_count]
  BY DEF ReserveCell, EventReset
<1>2. \A u \in Threads : pc[u] = "signal" => pc'[u] = "signal" OBVIOUS
<1>3. CountInv' BY <1>1 DEF SignalInv, CountInv
<1>4. \A u \in Threads : u # t /\ Asleep(u)' => Asleep(u)
  BY <1>1 DEF Asleep, EventWaitOver, SignalInv, CountInv
<1>5. ASSUME NEW u \in Threads, Asleep(u)', \A v \in Threads : pc'[v] # "signal"
      PROVE  Held' \/ (writer' = WAIT_EX /\ ~Asleep(writer_thread)')
 <2>1. CASE Held' BY <2>1
 <2>2. CASE /\ writer = WAIT_EX /\ writer' = WAIT_EX /\ UNCHANGED writer_thread
            /\ writer_thread # t /\ ~Held
  <3>1. writer_thread \in Threads BY <2>2, ReservationOwner
  <3>2. ASSUME Asleep(writer_thread) PROVE FALSE
    BY <1>2, <1>5, <2>2, <3>1, <3>2 DEF SignalInv, NoLostWakeup, Held
  <3>3. QED BY <1>4, <2>2, <3>1, <3>2
 <2>3. QED BY <2>1, <2>2
<1>6. NoLostWakeup' BY <1>1, <1>5 DEF NoLostWakeup, Held
<1>7. QED BY <1>3, <1>6 DEF SignalInv

\* The end of an unlock: as long as the lock stays held nothing changes for
\* the sleepers; when it becomes free they are signalled, if waiters is set.
LEMMA UnlockStep ==
    ASSUME SignalInv, NEW t \in Threads, NEW free \in BOOLEAN,
           LeaveSection(t, free), pc \in [Threads -> Labels], waiters \in {0, 1},
           UNCHANGED <<event, count>>, pc[t] = "idle", ~free => Held'
    PROVE  SignalInv'
<1> USE DEF WaitLabels
<1>1. /\ \A u \in Threads : u # t => pc'[u] = pc[u]
      /\ pc'[t] \in {"idle", "signal"}
      /\ \/ waiters = 1 /\ free /\ pc'[t] = "signal"
         \/ ~(waiters = 1 /\ free) /\ UNCHANGED <<waiters, pc>>
  BY DEF LeaveSection, Goto
<1>2. CountInv' BY <1>1 DEF SignalInv, CountInv
<1>3. \A u \in Threads : Asleep(u)' => Asleep(u) BY <1>1 DEF Asleep, EventWaitOver
<1>4. CASE waiters = 1 /\ free BY <1>1, <1>2, <1>4 DEF SignalInv, NoLostWakeup
<1>5. CASE ~(waiters = 1 /\ free) BY <1>1, <1>2, <1>3, <1>5 DEF SignalInv, NoLostWakeup, Held
<1>6. QED BY <1>4, <1>5

\* Whoever sleeps on an unsignalled event will be woken.
THEOREM WakeupNotLost == Spec => []NoLostWakeup
<1>1. Init => SignalInv BY DEF Init, SignalInv, CountInv, NoLostWakeup, WaitLabels, Asleep
<1>2. LockInv /\ TypeOK /\ ReservationLive /\ SignalInv /\ [Next]_vars => SignalInv'
 <2> SUFFICES ASSUME LockInv, TypeOK, ReservationLive, SignalInv, [Next]_vars
              PROVE  SignalInv'
   OBVIOUS
 <2> USE DEF NOT_LOCKED, EX, WAIT_EX, WaitLabels, Labels
 <2>0. /\ pc \in [Threads -> Labels] /\ count \in [Threads -> Nat]
       /\ event \in EventType /\ waiters \in {0, 1}
       /\ writer \in {NOT_LOCKED, EX, WAIT_EX} /\ reader_count \in Nat
       /\ writer_count \in Nat
   BY Zenon DEF TypeOK
 <2>1. ASSUME NEW t \in Threads, NEW passed \in BOOLEAN, SLock(t, passed)
       PROVE  SignalInv'
  <3>1. /\ UNCHANGED <<writer, writer_thread, event, waiters, count>>
        /\ reader_count' \in {reader_count, reader_count + 1}
        /\ pc[t] = "idle" /\ pc'[t] \in {"idle", "s_spin", "s_spin_passed"}
        /\ \A u \in Threads : u # t => pc'[u] = pc[u]
    BY <2>0, <2>1 DEF SLock, MayRequest, SLockLow, GrantShared, fields, Goto
  <3>2. QED BY <2>0, <3>1, QuietStep DEF Held
 <2>2. ASSUME NEW t \in Threads, SLockNowait(t) PROVE SignalInv'
  <3>1. /\ UNCHANGED <<writer, writer_thread, event, waiters, count, pc>>
        /\ reader_count' \in {reader_count, reader_count + 1} /\ pc[t] = "idle"
    BY <2>0, <2>2 DEF SLockNowait, MayRequest, SLockLow, GrantShared, fields
  <3>2. QED BY <2>0, <3>1, QuietStep DEF Held
 <2>3. ASSUME NEW t \in Threads, SSpin(t) PROVE SignalInv'
  <3>1. /\ UNCHANGED <<writer, writer_thread>> /\ reader_count' \in {reader_count, reader_count + 1}
        /\ pc[t] \notin WaitLabels \cup {"signal"}
        /\ \A u \in Threads : u # t => pc'[u] = pc[u]
        /\ \/ UNCHANGED <<event, waiters, count>> /\ pc'[t] = "idle"
           \/ writer # NOT_LOCKED /\ ReserveCell(t) /\ pc'[t] \in WaitLabels
    BY <2>0, <2>3 DEF SSpin, SLockLow, GrantShared, fields, Goto
  <3>2. CASE UNCHANGED <<event, waiters, count>> /\ pc'[t] = "idle"
    BY <2>0, <3>1, <3>2, QuietStep DEF Held
  <3>3. CASE writer # NOT_LOCKED /\ ReserveCell(t) /\ pc'[t] \in WaitLabels
   <4>1. writer = WAIT_EX => writer_thread # t
    <5>1. pc[t] \in {"s_spin", "s_spin_passed"} BY <2>3 DEF SSpin
    <5>2. writer = WAIT_EX => pc[writer_thread] \in {"x_first", "x_second", "x_wait"}
      BY Zenon DEF ReservationLive
    <5>3. QED BY <5>1, <5>2
   <4>2. QED BY <2>0, <3>1, <3>3, <4>1, ReserveStep DEF Held
  <3>4. QED BY <3>1, <3>2, <3>3
 <2>4. ASSUME NEW t \in Threads, NEW p \in {0, 1}, XLock(t, p) PROVE SignalInv'
  <3>1. /\ UNCHANGED <<writer, writer_thread, reader_count, event, waiters, count>>
        /\ pc[t] = "idle" /\ pc'[t] = "x_first"
        /\ \A u \in Threads : u # t => pc'[u] = pc[u]
    BY <2>0, <2>4 DEF XLock, MayRequestX, MayRequest, fields, Goto
  <3>2. QED BY <2>0, <3>1, QuietStep DEF Held
 <2>5. ASSUME NEW t \in Threads, XFirst(t) \/ XSecond(t) PROVE SignalInv'
  <3>1. /\ pc[t] \in {"x_first", "x_second"}
        /\ \A u \in Threads : u # t => pc'[u] = pc[u]
        /\ UNCHANGED reader_count
    BY <2>0, <2>5, Zenon DEF XFirst, XSecond, XLockLow, TakeFree, TakeReserved, TakeAgain,
       GrantExclusive, XLockLowFails, ReserveNext, fields, Goto
  <3>2. CASE XLockLow(t, request[t])
   <4>1. /\ UNCHANGED <<event, waiters, count>> /\ pc'[t] = "idle" /\ writer' = EX
     BY <2>0, <2>5, <3>2 DEF XFirst, XSecond, XLockLow, XLockLowFails, TakeFree, TakeReserved,
        TakeAgain, ReserveNext, OwnReservation, OwnLock, Goto
   <4>2. QED BY <2>0, <3>1, <4>1, QuietStep DEF Held
  <3>3. CASE XLockLowFails(t, request[t])
   <4>1. \/ writer = NOT_LOCKED /\ reader_count > 0 /\ writer' = WAIT_EX
         \/ /\ UNCHANGED <<writer, writer_thread>> /\ writer # NOT_LOCKED
            /\ writer = WAIT_EX /\ writer_thread = t => reader_count > 0
     BY <2>0, <3>3 DEF XLockLowFails, ReserveNext, OwnReservation, fields
   <4>2. \/ UNCHANGED <<event, waiters, count>> /\ pc'[t] = "x_second"
         \/ ReserveCell(t) /\ pc'[t] = "x_wait"
     BY <2>0, <2>5, <3>3 DEF XFirst, XSecond, XLockLow, XLockLowFails, TakeFree, TakeReserved,
        TakeAgain, ReserveNext, OwnReservation, OwnLock, Goto
   <4>3. QED BY <2>0, <3>1, <4>1, <4>2, QuietStep, ReserveStep DEF Held
  <3>4. QED BY <2>5, <3>2, <3>3 DEF XFirst, XSecond
 <2>6. ASSUME NEW t \in Threads, XLockNowait(t) PROVE SignalInv'
  <3>1. /\ UNCHANGED <<reader_count, event, waiters, count, pc>> /\ pc[t] = "idle"
        /\ writer' = EX \/ UNCHANGED <<writer, writer_thread>>
    BY <2>0, <2>6 DEF XLockNowait, MayRequestX, MayRequest, TakeFree, TakeAgain, GrantExclusive,
       fields
  <3>2. QED BY <2>0, <3>1, QuietStep DEF Held
 <2>7. ASSUME NEW t \in Threads, Wake(t) PROVE SignalInv'
  <3>1. /\ UNCHANGED <<writer, writer_thread, reader_count, event, waiters, count>>
        /\ pc[t] # "signal" /\ pc'[t] \in {"s_spin", "s_spin_passed", "x_first"}
        /\ \A u \in Threads : u # t => pc'[u] = pc[u]
    BY <2>0, <2>7 DEF Wake, fields, Goto
  <3>2. QED BY <2>0, <3>1, QuietStep DEF Held
 <2>8. ASSUME NEW t \in Threads, SUnlock(t) PROVE SignalInv'
  <3>1. HolderInv' BY <2>8, SharedReleased DEF LockInv
  <3>2. /\ LeaveSection(t, reader_count' = 0) /\ pc[t] = "idle"
        /\ UNCHANGED <<event, count>>
    BY <2>8 DEF SUnlock
  <3>3. reader_count' # 0 => Held' BY <3>1 DEF HolderInv, FieldTypes, Held
  <3>4. QED BY <2>0, <3>2, <3>3, UnlockStep
 <2>9. ASSUME NEW t \in Threads, XUnlock(t) PROVE SignalInv'
  <3>1. /\ LeaveSection(t, writer_count' = 0) /\ pc[t] = "idle"
        /\ UNCHANGED <<event, count>>
    BY <2>9 DEF XUnlock
  <3>2. writer = EX /\ (writer_count' # 0 => writer' = EX)
    BY <2>9 DEF XUnlock, LockInv, HolderInv, FieldTypes, FieldsMatchHolders
  <3>3. writer_count' # 0 => Held' BY <3>2 DEF Held
  <3>4. QED BY <2>0, <3>1, <3>3, UnlockStep
 <2>10. ASSUME NEW t \in Threads, Signal(t) PROVE SignalInv'
  <3>1. CountInv' /\ \A u \in Threads : ~Asleep(u)'
    BY <2>0, <2>10 DEF Signal, EventSet, EventType, Asleep, EventWaitOver, SignalInv, CountInv,
       Goto
  <3>2. QED BY <3>1 DEF SignalInv, NoLostWakeup
 <2>11. ASSUME NEW t \in Threads, PickUp(t) \/ MoveOwnership(t) PROVE SignalInv'
  <3>1. /\ UNCHANGED <<writer, reader_count, event, waiters, count, pc>>
        /\ pc[t] = "idle"
        /\ writer = WAIT_EX => UNCHANGED writer_thread
    BY <2>11 DEF PickUp, MoveOwnership, fields, LockInv, HolderInv, FieldTypes, FieldsMatchHolders
  <3>2. QED BY <2>0, <3>1, QuietStep DEF Held
 <2>12. CASE UNCHANGED vars
  <3>1. UNCHANGED <<writer, writer_thread, reader_count, event, waiters, count, pc>>
    BY <2>12 DEF vars, fields
  <3>2. QED BY <3>1 DEF SignalInv, CountInv, NoLostWakeup, Asleep, EventWaitOver
 <2>13. QED
   BY <2>1, <2>2, <2>3, <2>4, <2>5, <2>6, <2>7, <2>8, <2>9, <2>10, <2>11, <2>12 DEF Next, Request,
      Progress, Terminated
<1>3. SignalInv => NoLostWakeup BY DEF SignalInv
<1>4. QED BY <1>1, <1>2, <1>3, LockInvariant, TypeCorrect, ReservationIsLive, PTL DEF Spec
-----------------------------------------------------------------------------
\* The fields implement the abstract read-write lock for its holders.
THEOREM ImplementsAbstract == Spec => AbstractSpec
<1>1. Init => Abstract!Init BY DEF Init, Abstract!Init
<1>2. LockInv /\ [Next]_vars => [Abstract!Next]_(Abstract!vars)
 <2> SUFFICES ASSUME LockInv, [Next]_vars PROVE [Abstract!Next]_(Abstract!vars) OBVIOUS
 <2> USE DEF LockInv, HolderInv, NOT_LOCKED, EX, WAIT_EX, Abstract!NoReader,
             Abstract!NoWriterBut
 <2>0. ASSUME UNCHANGED holders PROVE [Abstract!Next]_(Abstract!vars)
   BY <2>0, Zenon DEF holders, Abstract!vars
 <2>1. ASSUME writer # EX
       PROVE  ~x_passed /\ \A u \in Threads : x_held[u] = 0
   BY <2>1 DEF FieldTypes, FieldsMatchHolders
 <2>2. ASSUME reader_count = 0 PROVE s_held = {} /\ s_passed = 0
  <3>1. IsFiniteSet(s_held) /\ Cardinality(s_held) \in Nat
    BY FS_Subset, FS_CardinalityType, RwLockAssumption DEF FieldTypes
  <3>2. Cardinality(s_held) = 0 /\ s_passed = 0 BY <2>2, <3>1 DEF FieldTypes, FieldsMatchHolders
  <3>3. QED BY <3>1, <3>2, FS_EmptySet
 <2>3. ASSUME NEW t \in Threads, NEW passed \in BOOLEAN, t \notin s_held,
              SLockLow(t, passed)
       PROVE  [Abstract!Next]_(Abstract!vars)
  <3>1. Abstract!AcquireShared(t) BY <2>1, <2>3 DEF Abstract!AcquireShared, SLockLow, GrantShared
  <3>2. QED BY <3>1 DEF Abstract!Next
 <2>4. ASSUME NEW t \in Threads, NEW p \in {0, 1}, XLockLow(t, p)
       PROVE  [Abstract!Next]_(Abstract!vars)
  <3>1. CASE TakeFree(t, p) \/ TakeReserved(t, p)
   <4>1. /\ ~x_passed /\ \A u \in Threads : x_held[u] = 0
         /\ s_held = {} /\ s_passed = 0
     BY <2>1, <2>2, <3>1 DEF TakeFree, TakeReserved, OwnReservation
   <4>2. GrantExclusive(t, p) BY <3>1 DEF TakeFree, TakeReserved
   <4>3. Abstract!AcquireExclusive(t) BY <4>1, <4>2 DEF Abstract!AcquireExclusive, GrantExclusive
   <4>4. QED BY <4>3 DEF Abstract!Next
  <3>2. CASE TakeAgain(t, p)
   <4>1. writer = EX /\ x_held[t] > 0 /\ p = 0 /\ GrantExclusive(t, p)
     BY <3>2 DEF TakeAgain, OwnLock, OwnerInv
   <4>2. /\ ~x_passed /\ \A u \in Threads \ {t} : x_held[u] = 0
         /\ reader_count = 0
     BY <4>1 DEF FieldTypes, FieldsMatchHolders
   <4>3. Abstract!AcquireExclusive(t)
     BY <2>2, <4>1, <4>2 DEF Abstract!AcquireExclusive, GrantExclusive
   <4>4. QED BY <4>3 DEF Abstract!Next
  <3>3. QED BY <2>4, <3>1, <3>2 DEF XLockLow
 <2>5. ASSUME NEW t \in Threads, NEW passed \in BOOLEAN, SLock(t, passed)
       PROVE  [Abstract!Next]_(Abstract!vars)
   BY <2>0, <2>3, <2>5, Zenon DEF SLock, MayRequest
 <2>6. ASSUME NEW t \in Threads, SLockNowait(t) PROVE [Abstract!Next]_(Abstract!vars)
   BY <2>0, <2>3, <2>6, Zenon DEF SLockNowait, MayRequest
 <2>7. ASSUME NEW t \in Threads, SSpin(t) PROVE [Abstract!Next]_(Abstract!vars)
  <3>1. t \notin s_held /\ (pc[t] = "s_spin_passed") \in BOOLEAN BY <2>7 DEF SSpin, CallInv
  <3>2. QED BY <2>0, <2>3, <2>7, <3>1, Zenon DEF SSpin
 <2>8. ASSUME NEW t \in Threads, XFirst(t) \/ XSecond(t)
       PROVE  [Abstract!Next]_(Abstract!vars)
  <3>1. request[t] \in {0, 1} BY DEF CallInv
  <3>2. XLockLow(t, request[t]) \/ XLockLowFails(t, request[t]) BY <2>8, Zenon DEF XFirst, XSecond
  <3>3. XLockLowFails(t, request[t]) => UNCHANGED holders BY Zenon DEF XLockLowFails, ReserveNext
  <3>4. QED BY <2>0, <2>4, <3>1, <3>2, <3>3
 <2>9. ASSUME NEW t \in Threads, XLockNowait(t) PROVE [Abstract!Next]_(Abstract!vars)
   BY <2>0, <2>4, <2>9, 0 \in {0, 1}, Zenon DEF XLockNowait, XLockLow
 <2>10. ASSUME NEW t \in Threads, SUnlock(t) PROVE [Abstract!Next]_(Abstract!vars)
  <3>1. Abstract!ReleaseShared(t) BY <2>10 DEF SUnlock, Abstract!ReleaseShared
  <3>2. QED BY <3>1 DEF Abstract!Next
 <2>11. ASSUME NEW t \in Threads, XUnlock(t) PROVE [Abstract!Next]_(Abstract!vars)
  <3>1. Abstract!ReleaseExclusive(t) BY <2>11, Zenon DEF XUnlock, Abstract!ReleaseExclusive
  <3>2. QED BY <3>1 DEF Abstract!Next
 <2>12. ASSUME NEW t \in Threads, PickUp(t) PROVE [Abstract!Next]_(Abstract!vars)
  <3>1. Abstract!Adopt(t) BY <2>12, Zenon DEF PickUp, Abstract!Adopt
  <3>2. QED BY <3>1 DEF Abstract!Next
 <2>13. ASSUME NEW t \in Threads, \/ Wake(t) \/ Signal(t) \/ MoveOwnership(t)
                                 \/ XLock(t, 0) \/ XLock(t, 1)
        PROVE  [Abstract!Next]_(Abstract!vars)
   BY <2>0, <2>13, Zenon DEF Wake, Signal, MoveOwnership, XLock
 <2>14. CASE UNCHANGED vars BY <2>0, <2>14, Zenon DEF vars
 <2>15. QED
   BY <2>5, <2>6, <2>7, <2>8, <2>9, <2>10, <2>11, <2>12, <2>13, <2>14 DEF Next, Request, Progress,
      Terminated
<1>3. QED BY <1>1, <1>2, LockInvariant, PTL DEF Spec, AbstractSpec, Abstract!Spec
=============================================================================
