---------------------------- MODULE AbstractLock ----------------------------
(***************************************************************************)
(* What a mutex promises: at most one owner, and a change of owner always  *)
(* passes through "free".  IbMutex is shown to implement it.               *)
(***************************************************************************)
CONSTANTS Threads, NoThread

VARIABLE owner

Init == owner = NoThread

Acquire(t) == owner = NoThread /\ owner' = t

Release(t) == owner = t /\ owner' = NoThread

Next == \E t \in Threads : Acquire(t) \/ Release(t)

Spec == Init /\ [][Next]_owner
=============================================================================
