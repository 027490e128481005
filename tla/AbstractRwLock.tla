--------------------------- MODULE AbstractRwLock ---------------------------
(***************************************************************************)
(* What a read-write lock promises its holders: shared holders, or one     *)
(* exclusive holder that may hold it several times.  A lock may be passed: *)
(* it then has no holding thread until an I/O thread adopts it.  RwLock    *)
(* is shown to implement this.                                             *)
(***************************************************************************)
EXTENDS Naturals

CONSTANT Threads

VARIABLES
    readers,   \* threads holding the lock in shared mode
    passed_s,  \* shared locks passed to a thread that has not unlocked them yet
    depth,     \* exclusive locks each thread holds
    passed_x   \* is an exclusive lock passed and not adopted yet?

vars == <<readers, passed_s, depth, passed_x>>

NoReader == readers = {} /\ passed_s = 0
NoWriterBut(t) == ~passed_x /\ \A u \in Threads \ {t} : depth[u] = 0

Init ==
    /\ readers = {}
    /\ passed_s = 0
    /\ depth = [t \in Threads |-> 0]
    /\ passed_x = FALSE

AcquireShared(t) ==
    /\ NoWriterBut(t) /\ depth[t] = 0 /\ t \notin readers
    /\ \/ readers' = readers \cup {t} /\ UNCHANGED passed_s
       \/ passed_s' = passed_s + 1 /\ UNCHANGED readers
    /\ UNCHANGED <<depth, passed_x>>

ReleaseShared(t) ==
    /\ \/ t \in readers /\ readers' = readers \ {t} /\ UNCHANGED passed_s
       \/ passed_s > 0 /\ passed_s' = passed_s - 1 /\ UNCHANGED readers
    /\ UNCHANGED <<depth, passed_x>>

AcquireExclusive(t) ==
    /\ NoReader /\ NoWriterBut(t)
    /\ \/ depth' = [depth EXCEPT ![t] = @ + 1] /\ UNCHANGED passed_x
       \/ depth[t] = 0 /\ passed_x' = TRUE /\ UNCHANGED depth
    /\ UNCHANGED <<readers, passed_s>>

Adopt(t) ==
    /\ passed_x
    /\ passed_x' = FALSE
    /\ depth' = [depth EXCEPT ![t] = 1]
    /\ UNCHANGED <<readers, passed_s>>

ReleaseExclusive(t) ==
    /\ depth[t] > 0
    /\ depth' = [depth EXCEPT ![t] = @ - 1]
    /\ UNCHANGED <<readers, passed_s, passed_x>>

Next == \E t \in Threads :
    \/ AcquireShared(t) \/ ReleaseShared(t)
    \/ AcquireExclusive(t) \/ Adopt(t) \/ ReleaseExclusive(t)

Spec == Init /\ [][Next]_vars
=============================================================================
