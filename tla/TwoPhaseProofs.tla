--------------------------- MODULE TwoPhaseProofs ---------------------------
(***************************************************************************)
(* What is proved of the two-phase commit with the binary log, for every   *)
(* number of sessions and every plan: TypeOK, LogsAgree, PromisesKept and  *)
(* OrderKept hold in every state of Spec.                                  *)
(*                                                                         *)
(* The argument.  prepare_commit_mutex is held by the one session that is  *)
(* between prepare and the end of its commit, so that this session is the  *)
(* last of the binary log, and all before it have their commit in the redo *)
(* log.  Whoever is in the binary log has a prepared record on disk, so    *)
(* that any crash leaves it prepared or committed, and recovery ends it    *)
(* the way the binary log says.                                            *)
(*                                                                         *)
(* First the inductive invariant, and that a step of a session keeps the   *)
(* first half of it: the types, the tickets of SrvConc, the course of a    *)
(* session and the count of the committing threads.  Then the other half,  *)
(* about the two logs, the crashes and the theorems.                       *)
(***************************************************************************)
EXTENDS TwoPhase, FiniteSetTheorems, SequenceTheorems, WellFoundedInduction, TLAPS

\* A set of numbers that is not empty has a least element.
LEMMA LeastExists ==
    ASSUME NEW T \in SUBSET Nat, T # {}
    PROVE  \E x \in T : \A y \in T : x <= y
<1> DEFINE R == OpToRel(<, Nat)
<1>1. IsWellFoundedOn(R, Nat) BY NatLessThanWellFounded
<1>2. \A x, y \in Nat : ~ (<<y, x>> \in R) => x <= y BY DEF OpToRel
<1> HIDE DEF R
<1>3. PICK x \in T : \A y \in T : ~ (<<y, x>> \in R) BY <1>1, WFMin
<1>4. \A y \in T : x <= y BY <1>2, <1>3
<1> QED BY <1>4

\* A set of numbers up to n that is not empty has a greatest element.
LEMMA GreatestExists ==
    ASSUME NEW n \in Nat, NEW T \in SUBSET (1 .. n), T # {}
    PROVE  \E x \in T : \A y \in T : x >= y
<1> DEFINE D == {n - y : y \in T}
<1>1. D \in SUBSET Nat /\ D # {}
 <2>1. \A y \in T : y \in 1 .. n /\ n - y \in Nat OBVIOUS
 <2> QED BY <2>1
<1> HIDE DEF D
<1>2. PICK d \in D : \A e \in D : d <= e BY <1>1, LeastExists
<1>3. PICK x \in T : d = n - x BY DEF D
<1>4. \A y \in T : n - y \in D BY DEF D
<1>5. \A y \in T : x >= y BY <1>2, <1>3, <1>4
<1> QED BY <1>5

\* What RemoveAt leaves of a sequence: the entries after the removed one move up.
LEMMA RemoveAtProperties ==
    ASSUME NEW S, NEW q \in Seq(S), NEW i \in DOMAIN q
    PROVE  /\ RemoveAt(q, i) \in Seq(S)
           /\ Len(RemoveAt(q, i)) = Len(q) - 1
           /\ \A j \in 1 .. Len(q) - 1 : RemoveAt(q, i)[j] = IF j < i THEN q[j] ELSE q[j + 1]
<1> DEFINE a == SubSeq(q, 1, i - 1)
           b == SubSeq(q, i + 1, Len(q))
<1>1. i \in 1 .. Len(q) /\ Len(q) \in Nat OBVIOUS
<1>2. a \in Seq(S) /\ Len(a) = i - 1 /\ \A j \in 1 .. i - 1 : a[j] = q[j] BY <1>1
<1>3. b \in Seq(S) /\ Len(b) = Len(q) - i /\ \A j \in 1 .. Len(q) - i : b[j] = q[i + j] BY <1>1
<1>4. RemoveAt(q, i) = a \o b BY DEF RemoveAt
<1> HIDE DEF a, b
<1>5. /\ a \o b \in Seq(S)
      /\ Len(a \o b) = Len(q) - 1
      /\ \A j \in 1 .. Len(q) - 1 : (a \o b)[j] = IF j <= Len(a) THEN a[j] ELSE b[j - Len(a)]
  BY SMTT(30), <1>1, <1>2, <1>3, ConcatProperties
<1>6. ASSUME NEW j \in 1 .. Len(q) - 1, j < i
      PROVE  (a \o b)[j] = q[j]
 <2>1. j <= Len(a) /\ j \in 1 .. i - 1 BY <1>1, <1>2, <1>6
 <2> QED BY <2>1, <1>2, <1>5
<1>7. ASSUME NEW j \in 1 .. Len(q) - 1, ~ (j < i)
      PROVE  (a \o b)[j] = q[j + 1]
 <2>1. (a \o b)[j] = b[j - (i - 1)] /\ j - (i - 1) \in 1 .. Len(q) - i BY <1>1, <1>2, <1>5, <1>7
 <2>2. b[j - (i - 1)] = q[i + (j - (i - 1))] BY <1>3, <2>1
 <2> QED BY <2>1, <2>2
<1> QED BY <1>4, <1>5, <1>6, <1>7

\* A sequence without repetition has as many elements as entries.
LEMMA CountOfEntries ==
    ASSUME NEW S, NEW q \in Seq(S), \A i, j \in DOMAIN q : q[i] = q[j] => i = j
    PROVE  Cardinality({q[i] : i \in DOMAIN q}) = Len(q)
<1> DEFINE T == {q[i] : i \in DOMAIN q}
<1>1. Len(q) \in Nat /\ DOMAIN q = 1 .. Len(q) OBVIOUS
<1>2. q \in Bijection(1 .. Len(q), T)
 <2>1. q \in [1 .. Len(q) -> T] BY <1>1
 <2>2. q \in Injection(1 .. Len(q), T) BY <1>1, <2>1 DEF Injection, IsInjective
 <2>3. q \in Surjection(1 .. Len(q), T) BY <1>1, <2>1 DEF Surjection
 <2> QED BY <2>2, <2>3 DEF Bijection
<1> HIDE DEF T
<1>3. ExistsBijection(1 .. Len(q), T) BY <1>2 DEF ExistsBijection
<1>4. Cardinality(T) = Len(q) BY <1>1, <1>3, FS_CountingElements
<1> QED BY <1>4 DEF T

-----------------------------------------------------------------------------
(* The tickets *)

\* A session is in the queue once.
QueuedOnce ==
    \A i, j \in DOMAIN srv_conc_queue : srv_conc_queue[i] = srv_conc_queue[j] => i = j

\* A slot is signalled by at most one thread, and only one that was let in; and
\* the event of a slot in the queue is set only for one that was let in.
SignalsOwed ==
    /\ \A s, t \in Sessions : to_signal[s] = to_signal[t] /\ to_signal[s] # NoSession => s = t
    /\ \A s \in Sessions : to_signal[s] # NoSession => to_signal[s] \in wait_ended
    /\ event_set \cap Queued \subseteq wait_ended

\* What makes PlacesCounted inductive.
Tickets == ConcTypeOK /\ PlacesCounted /\ QueuedOnce /\ SignalsOwed

\* The sets that are counted are finite.
LEMMA CountedAreFinite ==
    ASSUME ConcTypeOK
    PROVE  /\ IsFiniteSet(declared) /\ Cardinality(declared) \in Nat
           /\ IsFiniteSet(wait_ended) /\ Cardinality(wait_ended) \in Nat
  BY SrvConcAssumption, FS_Subset, FS_CardinalityType DEF ConcTypeOK

\* As many sessions wait in the queue of srv_conc_enter_innodb as it has entries.
LEMMA QueuedIsSet ==
    ASSUME ConcTypeOK, QueuedOnce
    PROVE  Cardinality(Queued) = Len(srv_conc_queue) /\ Queued \subseteq Sessions
<1>1. Cardinality(Queued) = Len(srv_conc_queue) BY CountOfEntries DEF ConcTypeOK, QueuedOnce, Queued
<1> QED BY <1>1 DEF ConcTypeOK, Queued

\* Who takes a place was neither inside nor in the queue.
LEMMA TakePlaceKeepsTickets ==
    ASSUME Tickets, NEW s \in Sessions, NEW tickets \in 0 .. FreeTickets,
           s \notin declared, s \notin Queued, TakePlace(s, tickets)
    PROVE  Tickets' /\ Queued' = Queued
<1> USE DEF Tickets, TakePlace
<1>1. Queued' = Queued BY DEF Queued
<1>2. ConcTypeOK' BY DEF ConcTypeOK
<1>3. Cardinality(declared') = Cardinality(declared) + 1 BY CountedAreFinite, FS_AddElement
<1>4. PlacesCounted' BY <1>1, <1>3, CountedAreFinite DEF PlacesCounted
<1>5. QueuedOnce' /\ SignalsOwed' BY <1>1 DEF QueuedOnce, SignalsOwed
<1> QED BY <1>1, <1>2, <1>4, <1>5

\* A session that gets a slot at the end of the queue keeps the tickets in order.
LEMMA EnqueueKeepsTickets ==
    ASSUME Tickets, NEW s \in Sessions, s \notin declared, s \notin Queued, Enqueue(s)
    PROVE  Tickets' /\ Queued' = Queued \cup {s}
<1> USE DEF Tickets, Enqueue
<1> DEFINE q == srv_conc_queue
<1>1. /\ q' \in Seq(Sessions)
      /\ Len(q') = Len(q) + 1
      /\ \A i \in 1 .. Len(q) : q'[i] = q[i]
      /\ q'[Len(q) + 1] = s
      /\ Len(q) \in Nat
      /\ DOMAIN q = 1 .. Len(q) /\ DOMAIN q' = 1 .. Len(q')
  BY AppendProperties DEF ConcTypeOK
<1> HIDE DEF q
<1>2. Queued' = Queued \cup {s}
 <2>1. Queued = {q[i] : i \in 1 .. Len(q)} BY <1>1 DEF Queued, q
 <2>2. Queued' = {q'[i] : i \in 1 .. Len(q) + 1} BY <1>1 DEF Queued, q
 <2> QED BY <1>1, <2>1, <2>2
<1>3. ConcTypeOK' BY <1>1 DEF ConcTypeOK, q
<1>4. QueuedOnce'
 <2>1. \A i \in 1 .. Len(q) : q[i] # s BY <1>1 DEF Queued, q
 <2>2. \A i, j \in 1 .. Len(q) : q[i] = q[j] => i = j BY <1>1 DEF QueuedOnce, q
 <2>3. \A i, j \in 1 .. Len(q) + 1 : q'[i] = q'[j] => i = j BY <1>1, <2>1, <2>2
 <2> QED BY <1>1, <2>3 DEF QueuedOnce, q
<1>5. s \notin wait_ended /\ wait_ended' = wait_ended BY DEF PlacesCounted
<1>6. SignalsOwed' BY <1>2, <1>5 DEF SignalsOwed
<1>7. \A t \in wait_ended : (t \in event_set') <=> (t \in event_set) BY <1>5
<1>8. PlacesCounted'
 <2> HIDE DEF Enqueue
 <2>1. Cardinality(Queued)' = Len(srv_conc_queue)'
   BY <1>3, <1>4, CountOfEntries DEF QueuedOnce, ConcTypeOK, Queued
 <2>2. UNCHANGED <<srv_conc_n_threads, declared, to_signal>> BY DEF Enqueue
 <2> QED BY <1>2, <1>5, <1>7, <2>1, <2>2 DEF PlacesCounted
<1> QED BY <1>2, <1>3, <1>4, <1>6, <1>8

\* Who leaves the queue was released, and counted by who released it.
LEMMA LeaveQueueKeepsTickets ==
    ASSUME Tickets, NEW s \in Sessions, LeaveQueue(s)
    PROVE  Tickets' /\ Queued' = Queued \ {s} /\ s \in Queued /\ s \in wait_ended
<1> USE DEF Tickets, LeaveQueue
<1> DEFINE q == srv_conc_queue
<1>1. PICK k \in DOMAIN q : q[k] = s /\ q' = RemoveAt(q, k) OBVIOUS
<1>0. q \in Seq(Sessions) BY DEF ConcTypeOK
<1> HIDE DEF q
<1>2. /\ q' \in Seq(Sessions)
      /\ Len(q') = Len(q) - 1
      /\ \A j \in 1 .. Len(q) - 1 : q'[j] = IF j < k THEN q[j] ELSE q[j + 1]
      /\ Len(q) \in Nat
      /\ k \in 1 .. Len(q)
      /\ DOMAIN q = 1 .. Len(q) /\ DOMAIN q' = 1 .. Len(q) - 1
 <2>1. /\ q' \in Seq(Sessions)
       /\ Len(q') = Len(q) - 1
       /\ \A j \in 1 .. Len(q) - 1 : q'[j] = IF j < k THEN q[j] ELSE q[j + 1]
   BY <1>0, <1>1, RemoveAtProperties
 <2> QED BY <1>0, <2>1
<1>3. \A i, j \in 1 .. Len(q) : q[i] = q[j] => i = j BY <1>2 DEF QueuedOnce, q
<1>4. Queued = {q[i] : i \in 1 .. Len(q)} BY <1>2 DEF Queued, q
<1>5. Queued' = {q'[i] : i \in 1 .. Len(q) - 1} BY <1>2 DEF Queued, q
<1>6. Queued' = Queued \ {s}
 <2>1. ASSUME NEW i \in 1 .. Len(q) - 1
       PROVE  q'[i] \in Queued \ {s}
  <3>1. CASE i < k BY <1>1, <1>2, <1>3, <1>4, <3>1
  <3>2. CASE ~ (i < k) BY <1>1, <1>2, <1>3, <1>4, <3>2
  <3> QED BY <3>1, <3>2
 <2>2. ASSUME NEW i \in 1 .. Len(q), q[i] # s
       PROVE  q[i] \in Queued'
  <3>1. CASE i < k BY <1>2, <1>5, <3>1
  <3>2. CASE i > k
   <4>1. i - 1 \in 1 .. Len(q) - 1 /\ q'[i - 1] = q[i] BY <1>2, <3>2
   <4> QED BY <1>5, <4>1
  <3> QED BY <1>1, <1>2, <2>2, <3>1, <3>2
 <2> QED BY <1>4, <1>5, <2>1, <2>2
<1>7. s \in Queued /\ s \in wait_ended
 <2>1. s \in Queued BY <1>1, <1>2, <1>4
 <2> QED BY <2>1 DEF SignalsOwed
<1>8. QueuedOnce'
 <2>1. ASSUME NEW i \in 1 .. Len(q) - 1, NEW j \in 1 .. Len(q) - 1, q'[i] = q'[j], i < j
       PROVE  FALSE
   BY <1>2, <1>3, <2>1
 <2>2. \A i, j \in 1 .. Len(q) - 1 : q'[i] = q'[j] => i = j BY <2>1
 <2> QED BY <1>2, <2>2 DEF QueuedOnce, q
<1>9. ConcTypeOK' BY <1>2, SrvConcAssumption DEF ConcTypeOK, q
<1>10. SignalsOwed' BY <1>6, <1>7 DEF SignalsOwed, PlacesCounted
<1>11. PlacesCounted'
 <2>1. Cardinality(Queued)' = Len(srv_conc_queue)'
   BY <1>8, <1>9, CountOfEntries DEF QueuedOnce, ConcTypeOK, Queued
 <2>2. s \notin declared BY Zenon, <1>7 DEF PlacesCounted
 <2>3. Cardinality(declared') = Cardinality(declared) + 1 BY <2>2, CountedAreFinite, FS_AddElement
 <2>4. Cardinality(wait_ended') = Cardinality(wait_ended) - 1
   BY <1>7, CountedAreFinite, FS_RemoveElement
 <2> QED BY <1>6, <2>1, <2>3, <2>4, CountedAreFinite DEF PlacesCounted
<1> QED BY <1>6, <1>7, <1>8, <1>9, <1>10, <1>11

\* The slot that is released is in the queue and was not released before.
LEMMA FirstWaitingInQueue ==
    ASSUME ConcTypeOK
    PROVE  FirstWaiting = NoSession \/ FirstWaiting \in Queued \ wait_ended
<1> DEFINE I == {i \in 1 .. Len(srv_conc_queue) : srv_conc_queue[i] \notin wait_ended}
           k == SelectInSeq(srv_conc_queue, LAMBDA t : t \notin wait_ended)
<1>1. k = IF I # {} THEN Min(I) ELSE 0 BY DEF SelectInSeq
<1>2. I \in SUBSET Nat BY DEF ConcTypeOK
<1>3. I # {} => Min(I) \in I BY <1>2, LeastExists DEF Min
<1>4. FirstWaiting = IF k = 0 THEN NoSession ELSE srv_conc_queue[k] BY DEF FirstWaiting
<1> HIDE DEF k
<1>5. k = 0 \/ k \in I BY <1>1, <1>3
<1> QED BY <1>4, <1>5 DEF ConcTypeOK, Queued

\* srv_conc_force_exit_innodb: the place given up is lost, or passed on to the slot released.
LEMMA ForceExitKeepsTickets ==
    ASSUME Tickets, NEW s \in Sessions, to_signal[s] = NoSession, ForceExit(s)
    PROVE  Tickets' /\ Queued' = Queued
<1> USE DEF Tickets
<1>1. PICK next \in {NoSession} \cup (Queued \ wait_ended) :
        /\ s \in declared
        /\ srv_conc_n_threads' = IF next = NoSession THEN srv_conc_n_threads - 1
                                 ELSE srv_conc_n_threads - 1 + 1
        /\ wait_ended' = wait_ended \cup ({next} \ {NoSession})
        /\ declared' = declared \ {s}
        /\ n_tickets' = [n_tickets EXCEPT ![s] = 0]
        /\ to_signal' = [to_signal EXCEPT ![s] = next]
        /\ UNCHANGED <<srv_max_n_threads, srv_thread_concurrency, srv_conc_queue, event_set>>
  BY FirstWaitingInQueue DEF ForceExit
<1>2. Queued' = Queued /\ Queued \subseteq Sessions BY <1>1, QueuedIsSet DEF Queued
<1>3. ConcTypeOK' BY <1>1, <1>2, SrvConcAssumption DEF ConcTypeOK
<1>4. Cardinality(declared') = Cardinality(declared) - 1 BY <1>1, CountedAreFinite, FS_RemoveElement
<1>5. CASE next = NoSession
 <2>1. wait_ended' = wait_ended /\ to_signal' = to_signal BY <1>1, <1>5 DEF ConcTypeOK
 <2>2. srv_conc_n_threads' = srv_conc_n_threads - 1 BY <1>1, <1>5
 <2>4. declared' \subseteq declared /\ UNCHANGED <<srv_conc_queue, event_set>> BY <1>1
 <2>3. PlacesCounted' BY <1>2, <1>4, <2>1, <2>2, <2>4, CountedAreFinite DEF PlacesCounted
 <2> QED BY <1>1, <1>2, <1>3, <2>1, <2>3 DEF QueuedOnce, SignalsOwed
<1>6. CASE next # NoSession
 <2>1. /\ next \in Queued \ wait_ended
       /\ next \in Sessions
       /\ wait_ended' = wait_ended \cup {next}
   BY <1>1, <1>2, <1>6
 <2>2. \A t \in Sessions : to_signal[t] # next BY <1>6, <2>1 DEF SignalsOwed
 <2>3. SignalsOwed' BY <1>1, <1>2, <2>1, <2>2 DEF SignalsOwed, ConcTypeOK
 <2>4. next \notin event_set BY <2>1 DEF SignalsOwed
 <2>5. Cardinality(wait_ended') = Cardinality(wait_ended) + 1
   BY <2>1, CountedAreFinite, FS_AddElement
 <2>6. \A t \in Sessions : to_signal'[t] = IF t = s THEN next ELSE to_signal[t]
   BY <1>1 DEF ConcTypeOK
 <2>7. ASSUME NEW q \in wait_ended'
       PROVE  q \in event_set' <=> \A t \in Sessions : to_signal'[t] # q
  <3>1. CASE q = next BY <1>1, <2>4, <2>6, <3>1
  <3>2. CASE q # next
   <4>1. q \in wait_ended /\ q # NoSession BY <2>1, <3>2, SrvConcAssumption DEF ConcTypeOK
   <4>2. (\A t \in Sessions : to_signal'[t] # q) <=> (\A t \in Sessions : to_signal[t] # q)
     BY <2>6, <3>2, <4>1
   <4> QED BY <1>1, <4>1, <4>2 DEF PlacesCounted
  <3> QED BY <3>1, <3>2
 <2>8. PlacesCounted'
   BY <1>1, <1>2, <1>4, <2>1, <2>5, <2>7, CountedAreFinite DEF PlacesCounted
 <2> QED BY <1>1, <1>2, <1>3, <2>3, <2>8 DEF QueuedOnce
<1> QED BY <1>2, <1>5, <1>6

\* The os_event_set of a slot that was released is the one that was owed.
LEMMA SetEventKeepsTickets ==
    ASSUME Tickets, NEW s \in Sessions, SetEvent(s)
    PROVE  Tickets' /\ Queued' = Queued
<1> USE DEF Tickets, SetEvent
<1>1. Queued' = Queued BY DEF Queued
<1>2. to_signal[s] \in wait_ended /\ to_signal[s] \in Sessions BY DEF SignalsOwed, ConcTypeOK
<1>3. ConcTypeOK' BY <1>2 DEF ConcTypeOK
<1>4. SignalsOwed' BY <1>1, <1>2 DEF SignalsOwed, ConcTypeOK
<1>5. \A t \in Sessions : to_signal'[t] = IF t = s THEN NoSession ELSE to_signal[t]
  BY DEF ConcTypeOK
<1>6. ASSUME NEW q \in wait_ended
      PROVE  q \in event_set' <=> \A t \in Sessions : to_signal'[t] # q
 <2>1. q # NoSession BY SrvConcAssumption DEF ConcTypeOK
 <2>2. CASE q = to_signal[s]
  <3>1. \A t \in Sessions : to_signal'[t] # q BY <1>5, <2>1, <2>2 DEF SignalsOwed
  <3> QED BY <2>2, <3>1
 <2>3. CASE q # to_signal[s]
  <3>1. (\A t \in Sessions : to_signal'[t] # q) <=> (\A t \in Sessions : to_signal[t] # q)
    BY <1>5, <2>1, <2>3
  <3>2. q \in event_set' <=> q \in event_set BY <2>3
  <3> QED BY <3>1, <3>2 DEF PlacesCounted
 <2> QED BY <2>2, <2>3
<1>7. PlacesCounted' BY <1>1, <1>6 DEF PlacesCounted
<1> QED BY <1>1, <1>3, <1>4, <1>7 DEF QueuedOnce

-----------------------------------------------------------------------------
(* The inductive invariant *)

\* The rest of TypeOK: the fate of the sessions, their counters, the logs.
FateTypes ==
    /\ pc \in [Sessions -> Labels]
    /\ conc_state \in [Sessions -> {"not_started", "active", "prepared", "committed_in_memory"}]
    /\ outcome \in [Sessions -> {"none", "committed", "rolledback"}]
    /\ reply \in [Sessions -> {"none", "prepared", "committed", "rolledback"}]
    /\ wrote \subseteq Sessions
    /\ was_declared \subseteq Sessions
    /\ open \in BOOLEAN
    /\ prepare_commit_mutex \in Sessions \cup {NoSession}

CounterTypes ==
    /\ rows \in [Sessions -> Nat]
    /\ active_trans \in [Sessions -> 0 .. 2]
    /\ pos \in [Sessions -> 0 .. Len(binlog)]

LogTypes ==
    /\ redo \in Seq(RedoRecord)
    /\ written \in 0 .. Len(redo)
    /\ binlog \in Seq(Sessions)
    /\ lock_queue \in Seq(Sessions)

SessionTypes == plan \in PlanType /\ FateTypes /\ CounterTypes /\ LogTypes

\* Where a session is decides whether it has a slot, and who is not inside.
WhereaboutsOf(s) ==
    /\ pc[s] = "queued" <=> s \in Queued
    /\ pc[s] \in {"new", "enter", "enter_slept", "statement"} /\ n_tickets[s] = 0 => s \notin declared
    /\ pc[s] = "lock_wait" => s \notin declared
Whereabouts == \A s \in Sessions : WhereaboutsOf(s)

Ending == {"finish", "finish_flush", "end"}

\* The last two parts of TypeOK.
CommitsCounted ==
    /\ commit_waiters = { s \in Sessions : pc[s] = "commit_wait" }
    /\ plan.commits > 0 =>
           commit_threads = Cardinality({ s \in Sessions : pc[s] \in Ending /\ outcome[s] = "committed" })

TwoPhaseKinds == {"binlog", "binlog_noxa"}

\* The kind of a transaction decides its course, and what the client knows
\* tells how far it is.
CourseOf(s) ==
    /\ pc[s] \in {"enter", "enter_slept", "queued", "inside", "suspend", "lock_wait"} => rows[s] > 0
    /\ pc[s] = "xa_prepare" => plan.kind[s] # "plain"
    /\ pc[s] \in {"prepare", "prepare_flush"} => plan.kind[s] \in {"binlog", "xa"}
    /\ pc[s] = "prepare_flush" => s \in wrote
    /\ pc[s] = "binlog" => plan.kind[s] \in TwoPhaseKinds
    /\ pc[s] = "xa_prepared" => plan.kind[s] = "xa"
    /\ pc[s] \in Ending => outcome[s] # "none"
    /\ pc[s] \notin {"new", "done", "dead"} => open
    /\ reply[s] # "none" =>
           pc[s] \in {"xa_prepared", "commit", "commit_wait", "done", "dead"} \cup Ending
    /\ reply[s] \in {"committed", "rolledback"} =>
           pc[s] = "done" \/ (pc[s] = "dead" /\ conc_state[s] # "prepared")
    /\ pc[s] = "done" => reply[s] = outcome[s]
Course == \A s \in Sessions : CourseOf(s)

\* Between prepare and the end of the commit, by the binary log's order.
Committing(s) ==
    /\ plan.kind[s] \in TwoPhaseKinds
    /\ \/ pc[s] \in {"prepare", "prepare_flush", "binlog", "commit", "commit_wait"}
       \/ pc[s] \in Ending /\ outcome[s] = "committed"

\* prepare_commit_mutex is held by the one session that is between the two.
MutexHeldOf(s) ==
    /\ active_trans[s] = 2 <=> Committing(s)
    /\ prepare_commit_mutex = s <=> Committing(s)
MutexHeld == \A s \in Sessions : MutexHeldOf(s)

InBinlog(s) == Contains(binlog, s)

\* Who is in the binary log has written it, and whoever commits has.
BinlogCourseOf(s) ==
    /\ InBinlog(s) =>
           /\ plan.kind[s] \in TwoPhaseKinds
           /\ \/ pc[s] \in {"commit", "commit_wait", "dead"}
              \/ pc[s] \in Ending \cup {"done"} /\ outcome[s] = "committed"
    /\ Committing(s) /\ pc[s] \notin {"prepare", "prepare_flush", "binlog"} => InBinlog(s)
BinlogCourse == \A s \in Sessions : BinlogCourseOf(s)

HasRecord(s, n) == \E i \in 1 .. n : redo[i].trx = s

\* The records of a session: none is missing when the binary log is written,
\* and their types follow the binary log.
RecordsAgreeOf(s) ==
    /\ HasRecord(s, Len(redo)) => s \in wrote
    /\ pc[s] \notin {"finish_flush", "end", "done", "dead"} =>
           \A i \in 1 .. Len(redo) : redo[i].trx = s => redo[i].type = "prepared"
    /\ pc[s] = "prepare_flush" => HasRecord(s, Len(redo))
    /\ plan.kind[s] = "binlog" =>
           /\ s \in wrote /\ (InBinlog(s) \/ pc[s] = "binlog") => HasRecord(s, written)
           /\ \A i \in 1 .. Len(redo) : redo[i].trx = s =>
                  redo[i].type # (IF InBinlog(s) THEN "rolledback" ELSE "committed")
RecordsAgree == \A s \in Sessions : RecordsAgreeOf(s)

\* UndoState with the log as a parameter.
StateIn(log, n, s) ==
    LET i == SelectLastInSeq(SubSeq(log, 1, n), LAMBDA r : r.trx = s)
    IN  IF i = 0 THEN "active" ELSE log[i].type

\* After recovery a session is prepared if its undo log is.
RecoveredOf(s) ==
    pc[s] = "dead" =>
        /\ conc_state[s] = "prepared" <=> StateIn(redo, Len(redo), s) = "prepared"
        /\ open /\ plan.kind[s] = "binlog" => conc_state[s] # "prepared"
Recovered == \A s \in Sessions : RecoveredOf(s)

\* The last record of s is among the first n, and of this type.
LastIs(s, n, type) ==
    \E i \in 1 .. n :
        /\ redo[i].trx = s
        /\ redo[i].type = type
        /\ \A j \in i + 1 .. Len(redo) : redo[j].trx # s

\* What was or is about to be told to the client has its record.
RepliesRecordedOf(s) ==
    s \in wrote =>
        /\ reply[s] \in {"committed", "rolledback"} => LastIs(s, written, reply[s])
        /\ reply[s] = "prepared" => HasRecord(s, written)
        /\ pc[s] = "finish_flush" => LastIs(s, Len(redo), outcome[s])
        /\ pc[s] = "end" => LastIs(s, written, outcome[s])
RepliesRecorded == \A s \in Sessions : RepliesRecordedOf(s)

\* Each is in the binary log once, and the session that commits is the last.
BinlogOnce == \A p, q \in 1 .. Len(binlog) : binlog[p] = binlog[q] => p = q

CommitterLastOf(s) ==
    Committing(s) /\ pc[s] \in {"commit", "commit_wait", "finish"} =>
        /\ Len(binlog) > 0
        /\ binlog[Len(binlog)] = s
        /\ pc[s] = "finish" => pos[s] = Len(binlog)
CommitterLast == \A s \in Sessions : CommitterLastOf(s)

HasCommit(s, n) == \E j \in 1 .. n : redo[j].trx = s /\ redo[j].type = "committed"

\* The commit of a session in the binary log is in the redo log, unless it is
\* about to write it there, or recovery is.
DecidedOf(s) ==
    plan.kind[s] = "binlog" /\ s \in wrote /\ InBinlog(s) =>
        \/ pc[s] \in {"commit", "commit_wait", "finish"}
        \/ pc[s] = "dead" /\ conc_state[s] = "prepared"
        \/ HasCommit(s, Len(redo))
Decided == \A s \in Sessions : DecidedOf(s)

\* The record i has a position only if it is the right one, and the commits of
\* those before that position are before the record.
PositionOf(i) ==
    redo[i].type = "committed" /\ redo[i].pos # 0 /\ plan.kind[redo[i].trx] \in TwoPhaseKinds =>
        /\ redo[i].pos \in 1 .. Len(binlog)
        /\ binlog[redo[i].pos] = redo[i].trx
        /\ \A q \in 1 .. redo[i].pos - 1 :
               plan.kind[binlog[q]] = "binlog" /\ binlog[q] \in wrote => HasCommit(binlog[q], i - 1)
Positions == \A i \in 1 .. Len(redo) : PositionOf(i)

IInv ==
    /\ Tickets /\ SessionTypes /\ Whereabouts /\ CommitsCounted
    /\ Course /\ MutexHeld
    /\ BinlogCourse /\ RecordsAgree /\ Recovered /\ RepliesRecorded
    /\ BinlogOnce /\ CommitterLast /\ Decided /\ Positions

-----------------------------------------------------------------------------
(* What the steps with several outcomes do to a session *)

\* What a session that enters, leaves, waits or starts to commit does not change.
FatesKept ==
    /\ UNCHANGED <<rows, conc_state, active_trans, reply, prepare_commit_mutex>>
    /\ UNCHANGED <<redo, written, binlog, lock_queue, wrote, plan, open>>

\* srv_conc_enter_innodb: the session goes inside or into the queue, and touches nothing else.
LEMMA EnterMoves ==
    ASSUME NEW s \in Sessions, Enter(s)
    PROVE  /\ pc[s] \in {"enter", "enter_slept"}
           /\ \E b \in {"inside", "queued"} : pc' = [pc EXCEPT ![s] = b]
           /\ UNCHANGED <<rows, was_declared, conc_state, active_trans, outcome, pos, reply>>
           /\ UNCHANGED <<lock_vars, commit_vars, log_vars, fate_vars>>
  BY DEF Enter, Step, At

\* srv_suspend_mysql_thread: the session waits for its lock, or has it already.
LEMMA SuspendMoves ==
    ASSUME NEW s \in Sessions, Suspend(s)
    PROVE  /\ pc[s] = "suspend"
           /\ \E b \in {"inside", "lock_wait"} : pc' = [pc EXCEPT ![s] = b]
           /\ was_declared' \in {was_declared, was_declared \cup {s}, was_declared \ {s}}
           /\ UNCHANGED <<rows, conc_state, active_trans, outcome, pos, reply>>
           /\ UNCHANGED <<lock_vars, commit_vars, log_vars, fate_vars>>
  BY DEF Suspend, Step, At

\* innobase_xa_prepare takes prepare_commit_mutex, unless the user's own XA PREPARE calls it.
LEMMA LockPrepareCommitMoves ==
    ASSUME FateTypes, CounterTypes, NEW s \in Sessions, LockPrepareCommit(s)
    PROVE  /\ pc[s] = "xa_prepare"
           /\ pc' = [pc EXCEPT ![s] = IF plan.kind[s] = "binlog_noxa" THEN "binlog" ELSE "prepare"]
           /\ pc'[s] \in {"binlog", "prepare"} /\ \A t \in Sessions \ {s} : pc'[t] = pc[t]
           /\ active_trans' = [active_trans EXCEPT ![s] = IF plan.kind[s] = "xa" THEN active_trans[s] ELSE 2]
           /\ prepare_commit_mutex' = IF plan.kind[s] = "xa" THEN prepare_commit_mutex ELSE s
           /\ plan.kind[s] # "xa" => prepare_commit_mutex = NoSession
           /\ UNCHANGED <<rows, was_declared, conc_state, outcome, pos, reply, commit_threads,
                          commit_waiters>>
           /\ UNCHANGED <<conc_vars, lock_vars, log_vars, fate_vars>>
<1>0. pc'[s] \in {"binlog", "prepare"} /\ \A t \in Sessions \ {s} : pc'[t] = pc[t]
 <2>1. CASE plan.kind[s] = "binlog_noxa"
  <3>1. pc' = [pc EXCEPT ![s] = "binlog"] BY <2>1 DEF LockPrepareCommit, Step
  <3> QED BY <3>1 DEF FateTypes
 <2>2. CASE plan.kind[s] # "binlog_noxa"
  <3>1. pc' = [pc EXCEPT ![s] = "prepare"] BY <2>2 DEF LockPrepareCommit, Step
  <3> QED BY <3>1 DEF FateTypes
 <2> QED BY <2>1, <2>2
<1>1. CASE plan.kind[s] = "xa" BY <1>0, <1>1 DEF LockPrepareCommit, Step, At, CounterTypes
<1>2. CASE plan.kind[s] # "xa" BY <1>0, <1>2 DEF LockPrepareCommit, Step, At
<1> QED BY <1>1, <1>2

\* The two outcomes of StartCommit for the session that calls it.
CommitWaits(s) ==
    /\ pc' = [pc EXCEPT ![s] = "commit_wait"]
    /\ commit_waiters' = commit_waiters \cup {s}
    /\ UNCHANGED <<commit_threads, outcome, pos>>

CommitStarts(s) ==
    /\ pc' = [pc EXCEPT ![s] = "finish"]
    /\ commit_threads' = IF plan.commits > 0 THEN commit_threads + 1 ELSE 0
    /\ pos' = [pos EXCEPT ![s] = Len(binlog)]
    /\ outcome' = [outcome EXCEPT ![s] = "committed"]
    /\ UNCHANGED commit_waiters

\* innobase_commit waits for a place among the committing threads or starts.
LEMMA StartCommitMoves ==
    ASSUME NEW s \in Sessions, StartCommit(s)
    PROVE  /\ pc[s] \in {"commit", "xa_prepared", "statement"}
           /\ pc[s] = "statement" => plan.kind[s] = "plain"
           /\ CommitWaits(s) \/ CommitStarts(s)
           /\ UNCHANGED <<rows, was_declared, conc_state, active_trans, reply, prepare_commit_mutex>>
           /\ UNCHANGED <<conc_vars, lock_vars, log_vars, fate_vars>>
  BY DEF StartCommit, MayCommit, Step, At, CommitWaits, CommitStarts

\* At the end of a call at most one other session moves, a woken waiter of commit_cond.
LEMMA EndOfCallMoves ==
    ASSUME FateTypes, CommitsCounted, NEW s \in Sessions, EndOfCall(s)
    PROVE  /\ pc[s] = "end" /\ pc'[s] = "done"
           /\ pc' \in [Sessions -> Labels]
           /\ \A t \in Sessions \ {s} : pc'[t] = pc[t] \/ (pc[t] = "commit_wait" /\ pc'[t] = "commit")
           /\ prepare_commit_mutex' = IF outcome[s] = "committed" /\ active_trans[s] = 2
                                      THEN NoSession ELSE prepare_commit_mutex
           /\ active_trans' = [active_trans EXCEPT ![s] = 0]
           /\ reply' = [reply EXCEPT ![s] = outcome[s]]
           /\ rows' = [rows EXCEPT ![s] = 0]
           /\ pos' = [pos EXCEPT ![s] = 0]
           /\ UNCHANGED <<was_declared, conc_state, outcome, lock_vars, log_vars, fate_vars>>
<1> DEFINE Moved ==
        /\ pc[s] = "end" /\ pc'[s] = "done"
        /\ pc' \in [Sessions -> Labels]
        /\ \A t \in Sessions \ {s} : pc'[t] = pc[t] \/ (pc[t] = "commit_wait" /\ pc'[t] = "commit")
<1>1. ASSUME Step(s, "end", "done")
      PROVE  Moved
  BY <1>1 DEF Step, At, FateTypes, Labels
<1>2. ASSUME NEW w \in commit_waiters, At(s, "end"), pc' = [pc EXCEPT ![s] = "done", ![w] = "commit"]
      PROVE  Moved
  BY <1>2 DEF At, FateTypes, CommitsCounted, Labels
<1>3. Moved BY <1>1, <1>2 DEF EndOfCall, LeaveCommit
<1> QED BY <1>3 DEF EndOfCall

-----------------------------------------------------------------------------
(* A step of one session and the others *)

\* Any step of the session s.
SessionStep(s) == Begin(s) \/ Continue(s) \/ RecoverXid(s) \/ UserEndsXid(s)

\* What a step of another session leaves alone; it may wake a committing one.
Untouched(t) ==
    /\ pc'[t] = pc[t] \/ (pc[t] = "commit_wait" /\ pc'[t] = "commit")
    /\ conc_state'[t] = conc_state[t] /\ outcome'[t] = outcome[t] /\ reply'[t] = reply[t]
    /\ active_trans'[t] = active_trans[t] /\ pos'[t] = pos[t] /\ rows'[t] = rows[t]
    /\ t \in wrote' <=> t \in wrote
    /\ plan' = plan /\ open' = open

\* A step of one session leaves the state of the others alone but for that wake-up.
LEMMA OthersUntouched ==
    ASSUME FateTypes, CounterTypes, CommitsCounted,
           NEW s \in Sessions, SessionStep(s), NEW t \in Sessions \ {s}
    PROVE  Untouched(t)
<1> USE DEF Step, At, sess_vars, lock_vars, commit_vars, log_vars, fate_vars
<1> USE DEF Untouched, FateTypes, CounterTypes
<1>1. ASSUME Begin(s)
      PROVE  Untouched(t)
  BY <1>1 DEF Begin
<1>2. ASSUME NextRow(s)
      PROVE  Untouched(t)
  BY <1>2 DEF NextRow
<1>3. ASSUME Enter(s)
      PROVE  Untouched(t)
 <2>1. PICK b \in {"inside", "queued"} : pc' = [pc EXCEPT ![s] = b] BY <1>3, EnterMoves
 <2> QED BY <1>3, <2>1, EnterMoves
<1>4. ASSUME SleepOnce(s)
      PROVE  Untouched(t)
  BY <1>4 DEF SleepOnce
<1>5. ASSUME WakeInQueue(s)
      PROVE  Untouched(t)
  BY <1>5 DEF WakeInQueue
<1>6. ASSUME ReadRow(s)
      PROVE  Untouched(t)
  BY <1>6 DEF ReadRow
<1>7. ASSUME ChangeRow(s)
      PROVE  Untouched(t)
  BY <1>7 DEF ChangeRow
<1>8. ASSUME MustWait(s)
      PROVE  Untouched(t)
  BY <1>8 DEF MustWait
<1>9. ASSUME Suspend(s)
      PROVE  Untouched(t)
 <2>1. PICK b \in {"inside", "lock_wait"} : pc' = [pc EXCEPT ![s] = b] BY <1>9, SuspendMoves
 <2> QED BY <1>9, <2>1, SuspendMoves
<1>10. ASSUME LockWaitEnds(s)
      PROVE  Untouched(t)
  BY <1>10 DEF LockWaitEnds
<1>11. ASSUME EndStatement(s)
      PROVE  Untouched(t)
  BY <1>11 DEF EndStatement
<1>12. ASSUME CallPrepare(s)
      PROVE  Untouched(t)
  BY <1>12 DEF CallPrepare
<1>13. ASSUME LockPrepareCommit(s)
      PROVE  Untouched(t)
  BY <1>13, LockPrepareCommitMoves
<1>14. ASSUME Prepare(s)
      PROVE  Untouched(t)
  BY <1>14 DEF Prepare, AfterPrepare, AppendRedo
<1>15. ASSUME PrepareFlush(s)
      PROVE  Untouched(t)
  BY <1>15 DEF PrepareFlush, AfterPrepare, WriteRedo
<1>16. ASSUME WriteBinlog(s)
      PROVE  Untouched(t)
  BY <1>16 DEF WriteBinlog
<1>17. ASSUME StartCommit(s)
      PROVE  Untouched(t)
 <2>1. CASE CommitWaits(s) BY <1>17, <2>1, StartCommitMoves DEF CommitWaits
 <2>2. CASE CommitStarts(s) BY ZenonT(60), <1>17, <2>2, StartCommitMoves DEF CommitStarts
 <2> QED BY <1>17, <2>1, <2>2, StartCommitMoves
<1>18. ASSUME StartRollback(s)
      PROVE  Untouched(t)
  BY <1>18 DEF StartRollback
<1>19. ASSUME Finish(s)
      PROVE  Untouched(t)
  BY <1>19 DEF Finish, AppendRedo
<1>20. ASSUME FinishFlush(s)
      PROVE  Untouched(t)
  BY <1>20 DEF FinishFlush, WriteRedo
<1>21. ASSUME EndOfCall(s)
      PROVE  Untouched(t)
  BY <1>21, EndOfCallMoves
<1>22. ASSUME SignalWaiter(s)
      PROVE  Untouched(t)
  BY <1>22 DEF SignalWaiter
<1>23. ASSUME RecoverXid(s)
      PROVE  Untouched(t)
  BY <1>23 DEF RecoverXid, EndByXid, AppendRedo
<1>24. ASSUME UserEndsXid(s)
      PROVE  Untouched(t)
 <2>1. PICK type \in {"committed", "rolledback"} :
         EndByXid(s, type) /\ reply' = [reply EXCEPT ![s] = type]
   BY <1>24 DEF UserEndsXid
 <2> QED BY <2>1 DEF EndByXid, AppendRedo
<1> QED
  BY <1>1, <1>2, <1>3, <1>4, <1>5, <1>6, <1>7, <1>8, <1>9, <1>10, <1>11, <1>12, <1>13, <1>14, <1>15,
       <1>16, <1>17, <1>18, <1>19, <1>20, <1>21, <1>22, <1>23, <1>24 DEF SessionStep, Continue

\* A step of a session keeps the types of what decides its fate.
LEMMA FateTypesStep ==
    ASSUME FateTypes, CounterTypes, CommitsCounted, Course,
           NEW s \in Sessions, SessionStep(s)
    PROVE  FateTypes'
<1> USE DEF Step, At, sess_vars, lock_vars, commit_vars, log_vars, fate_vars
<1>1. ASSUME Begin(s)
      PROVE  FateTypes'
  BY <1>1 DEF Begin, FateTypes, Labels
<1>2. ASSUME NextRow(s)
      PROVE  FateTypes'
  BY <1>2 DEF NextRow, FateTypes, Labels
<1>3. ASSUME Enter(s)
      PROVE  FateTypes'
 <2>1. PICK b \in {"inside", "queued"} : pc' = [pc EXCEPT ![s] = b] BY <1>3, EnterMoves
 <2> QED BY <1>3, <2>1, EnterMoves DEF FateTypes, Labels
<1>4. ASSUME SleepOnce(s)
      PROVE  FateTypes'
  BY <1>4 DEF SleepOnce, FateTypes, Labels
<1>5. ASSUME WakeInQueue(s)
      PROVE  FateTypes'
  BY <1>5 DEF WakeInQueue, FateTypes, Labels
<1>6. ASSUME ReadRow(s)
      PROVE  FateTypes'
  BY <1>6 DEF ReadRow, FateTypes, Labels
<1>7. ASSUME ChangeRow(s)
      PROVE  FateTypes'
  BY <1>7 DEF ChangeRow, FateTypes, Labels
<1>8. ASSUME MustWait(s)
      PROVE  FateTypes'
  BY <1>8 DEF MustWait, FateTypes, Labels
<1>9. ASSUME Suspend(s)
      PROVE  FateTypes'
 <2>1. PICK b \in {"inside", "lock_wait"} : pc' = [pc EXCEPT ![s] = b] BY <1>9, SuspendMoves
 <2>2. pc' \in [Sessions -> Labels] BY <2>1 DEF FateTypes, Labels
 <2>3. was_declared' \subseteq Sessions BY <1>9, SuspendMoves DEF FateTypes
 <2> QED BY <1>9, <2>2, <2>3, SuspendMoves DEF FateTypes
<1>10. ASSUME LockWaitEnds(s)
      PROVE  FateTypes'
  BY <1>10 DEF LockWaitEnds, FateTypes, Labels
<1>11. ASSUME EndStatement(s)
      PROVE  FateTypes'
  BY <1>11 DEF EndStatement, FateTypes, Labels
<1>12. ASSUME CallPrepare(s)
      PROVE  FateTypes'
  BY <1>12 DEF CallPrepare, FateTypes, Labels
<1>13. ASSUME LockPrepareCommit(s)
      PROVE  FateTypes'
  BY <1>13, LockPrepareCommitMoves DEF FateTypes, Labels
<1>14. ASSUME Prepare(s)
      PROVE  FateTypes'
  BY <1>14 DEF Prepare, AfterPrepare, AppendRedo, FateTypes, Labels
<1>15. ASSUME PrepareFlush(s)
      PROVE  FateTypes'
  BY <1>15 DEF PrepareFlush, AfterPrepare, WriteRedo, FateTypes, Labels
<1>16. ASSUME WriteBinlog(s)
      PROVE  FateTypes'
  BY <1>16 DEF WriteBinlog, FateTypes, Labels
<1>17. ASSUME StartCommit(s)
      PROVE  FateTypes'
 <2>1. CASE CommitWaits(s) BY <1>17, <2>1, StartCommitMoves DEF CommitWaits, FateTypes, Labels
 <2>2. CASE CommitStarts(s) BY <1>17, <2>2, StartCommitMoves DEF CommitStarts, FateTypes, Labels
 <2> QED BY <1>17, <2>1, <2>2, StartCommitMoves
<1>18. ASSUME StartRollback(s)
      PROVE  FateTypes'
  BY <1>18 DEF StartRollback, FateTypes, Labels
<1>19. ASSUME Finish(s)
      PROVE  FateTypes'
  BY <1>19 DEF Finish, AppendRedo, Course, CourseOf, FateTypes, Labels
<1>20. ASSUME FinishFlush(s)
      PROVE  FateTypes'
  BY <1>20 DEF FinishFlush, WriteRedo, FateTypes, Labels
<1>21. ASSUME EndOfCall(s)
      PROVE  FateTypes'
  BY <1>21, EndOfCallMoves DEF FateTypes, Labels
<1>22. ASSUME SignalWaiter(s)
      PROVE  FateTypes'
  BY <1>22 DEF SignalWaiter, FateTypes, Labels
<1>23. ASSUME RecoverXid(s)
      PROVE  FateTypes'
  BY <1>23 DEF RecoverXid, EndByXid, AppendRedo, FateTypes, Labels
<1>24. ASSUME UserEndsXid(s)
      PROVE  FateTypes'
 <2>1. PICK type \in {"committed", "rolledback"} :
         EndByXid(s, type) /\ reply' = [reply EXCEPT ![s] = type]
   BY <1>24 DEF UserEndsXid
 <2> QED BY <2>1 DEF EndByXid, AppendRedo, FateTypes, Labels
<1> QED
  BY <1>1, <1>2, <1>3, <1>4, <1>5, <1>6, <1>7, <1>8, <1>9, <1>10, <1>11, <1>12, <1>13, <1>14, <1>15,
       <1>16, <1>17, <1>18, <1>19, <1>20, <1>21, <1>22, <1>23, <1>24 DEF SessionStep, Continue

\* A step of a session keeps the types of its counters.
LEMMA CounterTypesStep ==
    ASSUME FateTypes, CounterTypes, LogTypes, CommitsCounted, Course,
           NEW s \in Sessions, SessionStep(s)
    PROVE  CounterTypes'
<1> USE DEF Step, At, sess_vars, lock_vars, commit_vars, log_vars, fate_vars
<1>1. ASSUME Begin(s)
      PROVE  CounterTypes'
  BY <1>1 DEF Begin, CounterTypes
<1>2. ASSUME NextRow(s)
      PROVE  CounterTypes'
  BY <1>2 DEF NextRow, CounterTypes
<1>3. ASSUME Enter(s)
      PROVE  CounterTypes'
 <2>1. PICK b \in {"inside", "queued"} : pc' = [pc EXCEPT ![s] = b] BY <1>3, EnterMoves
 <2> QED BY <1>3, <2>1, EnterMoves DEF CounterTypes
<1>4. ASSUME SleepOnce(s)
      PROVE  CounterTypes'
  BY <1>4 DEF SleepOnce, CounterTypes
<1>5. ASSUME WakeInQueue(s)
      PROVE  CounterTypes'
  BY <1>5 DEF WakeInQueue, CounterTypes
<1>6. ASSUME ReadRow(s)
      PROVE  CounterTypes'
  BY <1>6 DEF ReadRow, Course, CourseOf, CounterTypes
<1>7. ASSUME ChangeRow(s)
      PROVE  CounterTypes'
  BY <1>7 DEF ChangeRow, Course, CourseOf, CounterTypes
<1>8. ASSUME MustWait(s)
      PROVE  CounterTypes'
  BY <1>8 DEF MustWait, CounterTypes
<1>9. ASSUME Suspend(s)
      PROVE  CounterTypes'
 <2>1. PICK b \in {"inside", "lock_wait"} : pc' = [pc EXCEPT ![s] = b] BY <1>9, SuspendMoves
 <2> QED BY <1>9, <2>1, SuspendMoves DEF CounterTypes
<1>10. ASSUME LockWaitEnds(s)
      PROVE  CounterTypes'
  BY <1>10 DEF LockWaitEnds, CounterTypes
<1>11. ASSUME EndStatement(s)
      PROVE  CounterTypes'
  BY <1>11 DEF EndStatement, CounterTypes
<1>12. ASSUME CallPrepare(s)
      PROVE  CounterTypes'
  BY <1>12 DEF CallPrepare, CounterTypes
<1>13. ASSUME LockPrepareCommit(s)
      PROVE  CounterTypes'
 <2>1. (IF plan.kind[s] = "xa" THEN active_trans[s] ELSE 2) \in 0 .. 2 BY DEF CounterTypes
 <2> QED BY <1>13, <2>1, LockPrepareCommitMoves DEF CounterTypes
<1>14. ASSUME Prepare(s)
      PROVE  CounterTypes'
  BY <1>14 DEF Prepare, AfterPrepare, AppendRedo, CounterTypes
<1>15. ASSUME PrepareFlush(s)
      PROVE  CounterTypes'
  BY <1>15 DEF PrepareFlush, AfterPrepare, WriteRedo, CounterTypes
<1>16. ASSUME WriteBinlog(s)
      PROVE  CounterTypes'
  BY <1>16, AppendProperties DEF WriteBinlog, LogTypes, CounterTypes
<1>17. ASSUME StartCommit(s)
      PROVE  CounterTypes'
 <2>1. Len(binlog) \in 0 .. Len(binlog) BY DEF LogTypes
 <2>2. CASE CommitWaits(s) BY <1>17, <2>2, StartCommitMoves DEF CommitWaits, CounterTypes
 <2>3. CASE CommitStarts(s) BY <1>17, <2>1, <2>3, StartCommitMoves DEF CommitStarts, CounterTypes
 <2> QED BY <1>17, <2>2, <2>3, StartCommitMoves
<1>18. ASSUME StartRollback(s)
      PROVE  CounterTypes'
  BY <1>18 DEF StartRollback, CounterTypes
<1>19. ASSUME Finish(s)
      PROVE  CounterTypes'
  BY <1>19 DEF Finish, AppendRedo, CounterTypes
<1>20. ASSUME FinishFlush(s)
      PROVE  CounterTypes'
  BY <1>20 DEF FinishFlush, WriteRedo, CounterTypes
<1>21. ASSUME EndOfCall(s)
      PROVE  CounterTypes'
 <2>1. 0 \in 0 .. Len(binlog) /\ 0 \in 0 .. 2 /\ 0 \in Nat BY DEF LogTypes
 <2>2. active_trans' \in [Sessions -> 0 .. 2] /\ rows' \in [Sessions -> Nat]
  <3>1. active_trans' = [active_trans EXCEPT ![s] = 0] /\ rows' = [rows EXCEPT ![s] = 0]
    BY <1>21, EndOfCallMoves
  <3> QED BY <2>1, <3>1 DEF CounterTypes
 <2>3. binlog' = binlog BY <1>21, EndOfCallMoves
 <2>4. pos' \in [Sessions -> 0 .. Len(binlog)] BY ZenonT(60), <1>21, <2>1, EndOfCallMoves DEF
     CounterTypes
 <2> QED BY <2>2, <2>3, <2>4 DEF CounterTypes
<1>22. ASSUME SignalWaiter(s)
      PROVE  CounterTypes'
  BY <1>22 DEF SignalWaiter, CounterTypes
<1>23. ASSUME RecoverXid(s)
      PROVE  CounterTypes'
  BY <1>23 DEF RecoverXid, EndByXid, AppendRedo, CounterTypes
<1>24. ASSUME UserEndsXid(s)
      PROVE  CounterTypes'
 <2>1. PICK type \in {"committed", "rolledback"} :
         EndByXid(s, type) /\ reply' = [reply EXCEPT ![s] = type]
   BY <1>24 DEF UserEndsXid
 <2> QED BY <2>1 DEF EndByXid, AppendRedo, CounterTypes
<1> QED
  BY <1>1, <1>2, <1>3, <1>4, <1>5, <1>6, <1>7, <1>8, <1>9, <1>10, <1>11, <1>12, <1>13, <1>14, <1>15,
       <1>16, <1>17, <1>18, <1>19, <1>20, <1>21, <1>22, <1>23, <1>24 DEF SessionStep, Continue

\* A step of a session follows the course of its kind of transaction.
LEMMA CourseStep ==
    ASSUME plan \in PlanType, FateTypes, CounterTypes, CommitsCounted, Course,
           NEW s \in Sessions, SessionStep(s)
    PROVE  Course'
<1> USE DEF Step, At, sess_vars, lock_vars, commit_vars, log_vars, fate_vars
<1>1. ASSUME Begin(s)
      PROVE  CourseOf(s)'
  BY <1>1 DEF Begin, FateTypes, Course, CourseOf, Ending, TwoPhaseKinds
<1>2. ASSUME NextRow(s)
      PROVE  CourseOf(s)'
  BY <1>2 DEF NextRow, CounterTypes, FateTypes, Course, CourseOf, Ending, TwoPhaseKinds
<1>3. ASSUME Enter(s)
      PROVE  CourseOf(s)'
 <2>1. PICK b \in {"inside", "queued"} : pc' = [pc EXCEPT ![s] = b] BY <1>3, EnterMoves
 <2> QED BY ZenonT(60), <1>3, <2>1, EnterMoves DEF FateTypes, Course, CourseOf, Ending, TwoPhaseKinds
<1>4. ASSUME SleepOnce(s)
      PROVE  CourseOf(s)'
  BY <1>4 DEF SleepOnce, FateTypes, Course, CourseOf, Ending, TwoPhaseKinds
<1>5. ASSUME WakeInQueue(s)
      PROVE  CourseOf(s)'
  BY <1>5 DEF WakeInQueue, FateTypes, Course, CourseOf, Ending, TwoPhaseKinds
<1>6. ASSUME ReadRow(s)
      PROVE  CourseOf(s)'
  BY <1>6 DEF ReadRow, FateTypes, Course, CourseOf, Ending, TwoPhaseKinds
<1>7. ASSUME ChangeRow(s)
      PROVE  CourseOf(s)'
  BY <1>7 DEF ChangeRow, FateTypes, Course, CourseOf, Ending, TwoPhaseKinds
<1>8. ASSUME MustWait(s)
      PROVE  CourseOf(s)'
  BY <1>8 DEF MustWait, FateTypes, Course, CourseOf, Ending, TwoPhaseKinds
<1>9. ASSUME Suspend(s)
      PROVE  CourseOf(s)'
 <2>1. PICK b \in {"inside", "lock_wait"} : pc' = [pc EXCEPT ![s] = b] BY <1>9, SuspendMoves
 <2>2. /\ pc[s] = "suspend" /\ pc'[s] \in {"inside", "lock_wait"}
       /\ UNCHANGED <<rows, conc_state, outcome, reply, plan, wrote, open>>
   BY <1>9, <2>1, SuspendMoves DEF FateTypes, fate_vars
 <2> QED BY <2>2 DEF Course, CourseOf, Ending
<1>10. ASSUME LockWaitEnds(s)
      PROVE  CourseOf(s)'
  BY <1>10 DEF LockWaitEnds, FateTypes, Course, CourseOf, Ending, TwoPhaseKinds
<1>11. ASSUME EndStatement(s)
      PROVE  CourseOf(s)'
  BY <1>11 DEF EndStatement, FateTypes, Course, CourseOf, Ending, TwoPhaseKinds
<1>12. ASSUME CallPrepare(s)
      PROVE  CourseOf(s)'
  BY <1>12 DEF CallPrepare, FateTypes, Course, CourseOf, Ending, TwoPhaseKinds
<1>13. ASSUME LockPrepareCommit(s)
      PROVE  CourseOf(s)'
 <2>1. CASE plan.kind[s] = "binlog_noxa"
  <3>1. pc' = [pc EXCEPT ![s] = "binlog"] BY <1>13, <2>1, LockPrepareCommitMoves
  <3> QED
    BY <1>13, <2>1, <3>1, LockPrepareCommitMoves DEF FateTypes, Course, CourseOf, Ending,
       TwoPhaseKinds
 <2>2. CASE plan.kind[s] # "binlog_noxa"
  <3>1. pc' = [pc EXCEPT ![s] = "prepare"] BY <1>13, <2>2, LockPrepareCommitMoves
  <3>2. pc[s] = "xa_prepare" /\ plan.kind[s] \in {"binlog", "xa"}
    BY <1>13, <2>2, LockPrepareCommitMoves DEF PlanType, Kinds, Course, CourseOf
  <3> QED
    BY <1>13, <3>1, <3>2, LockPrepareCommitMoves DEF FateTypes, Course, CourseOf, Ending,
       TwoPhaseKinds
 <2> QED BY <2>1, <2>2
<1>14. ASSUME Prepare(s)
      PROVE  CourseOf(s)'
  BY <1>14 DEF Prepare, AfterPrepare, AppendRedo, FateTypes, Course, CourseOf, Ending, TwoPhaseKinds
<1>15. ASSUME PrepareFlush(s)
      PROVE  CourseOf(s)'
  BY <1>15 DEF PrepareFlush, AfterPrepare, WriteRedo, FateTypes, Course, CourseOf, Ending,
     TwoPhaseKinds
<1>16. ASSUME WriteBinlog(s)
      PROVE  CourseOf(s)'
  BY <1>16 DEF WriteBinlog, FateTypes, Course, CourseOf, Ending, TwoPhaseKinds
<1>17. ASSUME StartCommit(s)
      PROVE  CourseOf(s)'
 <2>1. CASE CommitWaits(s)
   BY <1>17, <2>1, StartCommitMoves DEF CommitWaits, FateTypes, Course, CourseOf, Ending,
      TwoPhaseKinds
 <2>2. CASE CommitStarts(s)
  <3>1. /\ pc[s] \in {"commit", "xa_prepared", "statement"}
        /\ pc'[s] = "finish" /\ outcome'[s] = "committed"
        /\ UNCHANGED <<rows, wrote, plan, open, reply, conc_state>>
    BY <1>17, <2>2, StartCommitMoves DEF CommitStarts, FateTypes, lock_vars, fate_vars
  <3> QED BY <3>1 DEF Course, CourseOf, Ending
 <2> QED BY <1>17, <2>1, <2>2, StartCommitMoves
<1>18. ASSUME StartRollback(s)
      PROVE  CourseOf(s)'
  BY <1>18 DEF StartRollback, FateTypes, Course, CourseOf, Ending, TwoPhaseKinds
<1>19. ASSUME Finish(s)
      PROVE  CourseOf(s)'
  BY <1>19 DEF Finish, AppendRedo, FateTypes, Course, CourseOf, Ending, TwoPhaseKinds
<1>20. ASSUME FinishFlush(s)
      PROVE  CourseOf(s)'
  BY <1>20 DEF FinishFlush, WriteRedo, FateTypes, Course, CourseOf, Ending, TwoPhaseKinds
<1>21. ASSUME EndOfCall(s)
      PROVE  CourseOf(s)'
  BY <1>21, EndOfCallMoves DEF FateTypes, Course, CourseOf, Ending, TwoPhaseKinds
<1>22. ASSUME SignalWaiter(s)
      PROVE  CourseOf(s)'
  BY <1>22 DEF SignalWaiter, FateTypes, Course, CourseOf, Ending, TwoPhaseKinds
<1>23. ASSUME RecoverXid(s)
      PROVE  CourseOf(s)'
  BY <1>23 DEF RecoverXid, EndByXid, AppendRedo, FateTypes, Course, CourseOf, Ending, TwoPhaseKinds
<1>24. ASSUME UserEndsXid(s)
      PROVE  CourseOf(s)'
 <2>1. PICK type \in {"committed", "rolledback"} :
         EndByXid(s, type) /\ reply' = [reply EXCEPT ![s] = type]
   BY <1>24 DEF UserEndsXid
 <2> QED BY <2>1 DEF EndByXid, AppendRedo, FateTypes, Course, CourseOf, Ending, TwoPhaseKinds
<1>25. ASSUME NEW t \in Sessions \ {s}
      PROVE  CourseOf(t)'
  BY OthersUntouched DEF Untouched, Course, CourseOf, Ending, TwoPhaseKinds
<1> QED
  BY <1>1, <1>2, <1>3, <1>4, <1>5, <1>6, <1>7, <1>8, <1>9, <1>10, <1>11, <1>12, <1>13, <1>14, <1>15,
       <1>16, <1>17, <1>18, <1>19, <1>20, <1>21, <1>22, <1>23, <1>24, <1>25 DEF SessionStep,
       Continue, Course

-----------------------------------------------------------------------------
(* The records of a session *)

\* RemoveFirst takes an entry out of a sequence and leaves a sequence of the same set.
LEMMA RemoveFirstType ==
    ASSUME NEW S, NEW q \in Seq(S), NEW e
    PROVE  RemoveFirst(q, e) \in Seq(S)
<1>1. CASE \E i \in 1 .. Len(q) : q[i] = e
 <2> DEFINE I == {i \in 1 .. Len(q) : q[i] = e}
            k == SelectInSeq(q, LAMBDA v : v = e)
 <2>1. RemoveFirst(q, e) = RemoveAt(q, k) BY <1>1 DEF RemoveFirst
 <2>2. k = Min(I) BY <1>1 DEF SelectInSeq
 <2>3. I \in SUBSET Nat /\ I # {} BY <1>1
 <2>4. Min(I) \in I BY <2>3, LeastExists DEF Min
 <2> HIDE DEF k
 <2>5. k \in DOMAIN q BY <2>2, <2>4
 <2> QED BY <2>1, <2>5, RemoveAtProperties
<1>2. CASE ~ \E i \in 1 .. Len(q) : q[i] = e BY <1>2 DEF RemoveFirst
<1> QED BY <1>1, <1>2

\* The state of a session's undo logs after the first n records is what its last record
\* there says, or active without any.
LEMMA StateOfLastRecord ==
    ASSUME NEW log \in Seq(RedoRecord), NEW n \in 0 .. Len(log), NEW s \in Sessions
    PROVE  \/ /\ StateIn(log, n, s) = "active"
              /\ \A i \in 1 .. n : log[i].trx # s
           \/ \E i \in 1 .. n :
                  /\ log[i].trx = s
                  /\ \A j \in i + 1 .. n : log[j].trx # s
                  /\ StateIn(log, n, s) = log[i].type
<1> DEFINE part == SubSeq(log, 1, n)
           I == {i \in 1 .. Len(part) : part[i].trx = s}
           k == SelectLastInSeq(part, LAMBDA r : r.trx = s)
<1>1. Len(part) = n /\ \A i \in 1 .. n : part[i] = log[i] OBVIOUS
<1>2. k = IF I # {} THEN Max(I) ELSE 0 BY DEF SelectLastInSeq
<1>3. StateIn(log, n, s) = IF k = 0 THEN "active" ELSE log[k].type BY DEF StateIn
<1> HIDE DEF part, k
<1>4. I = {i \in 1 .. n : log[i].trx = s} BY <1>1
<1> HIDE DEF I
<1>5. CASE I = {} BY <1>2, <1>3, <1>4, <1>5
<1>6. CASE I # {}
 <2>1. Max(I) \in I /\ \A i \in I : Max(I) >= i
  <3>1. I \in SUBSET (1 .. n) /\ n \in Nat BY <1>4
  <3> QED BY <1>6, <3>1, GreatestExists DEF Max
 <2>2. k \in 1 .. n /\ k # 0 /\ log[k].trx = s BY <1>2, <1>4, <1>6, <2>1
 <2>3. \A j \in k + 1 .. n : log[j].trx # s BY <1>2, <1>4, <1>6, <2>1, <2>2
 <2> QED BY <1>3, <2>2, <2>3
<1> QED BY <1>5, <1>6

\* Two logs with the same records of a session leave it in the same state.
LEMMA StateOfSameRecords ==
    ASSUME NEW a \in Seq(RedoRecord), NEW m \in 0 .. Len(a),
           NEW b \in Seq(RedoRecord), NEW n \in m .. Len(b), NEW s \in Sessions,
           \A i \in 1 .. m : b[i] = a[i],
           \A i \in m + 1 .. n : b[i].trx # s
    PROVE  StateIn(b, n, s) = StateIn(a, m, s)
<1> DEFINE x == StateIn(a, m, s)
           y == StateIn(b, n, s)
<1>1. n \in 0 .. Len(b) /\ m \in Nat /\ n \in Nat OBVIOUS
<1>2. \/ x = "active" /\ \A i \in 1 .. m : a[i].trx # s
      \/ \E i \in 1 .. m : a[i].trx = s /\ (\A j \in i + 1 .. m : a[j].trx # s) /\ x = a[i].type
  BY StateOfLastRecord
<1>3. \/ y = "active" /\ \A i \in 1 .. n : b[i].trx # s
      \/ \E i \in 1 .. n : b[i].trx = s /\ (\A j \in i + 1 .. n : b[j].trx # s) /\ y = b[i].type
  BY <1>1, StateOfLastRecord
<1> HIDE DEF x, y
<1>4. x = y
 <2>1. CASE x = "active" /\ \A i \in 1 .. m : a[i].trx # s
  <3>1. \A i \in 1 .. n : b[i].trx # s BY <1>1, <2>1
  <3> QED BY <1>3, <2>1, <3>1
 <2>2. ASSUME NEW i \in 1 .. m, a[i].trx = s, \A j \in i + 1 .. m : a[j].trx # s, x = a[i].type
       PROVE  x = y
  <3>1. i \in 1 .. n /\ b[i] = a[i] /\ \A j \in i + 1 .. n : b[j].trx # s BY <1>1, <2>2
  <3>2. ASSUME NEW k \in 1 .. n, b[k].trx = s, \A j \in k + 1 .. n : b[j].trx # s
        PROVE  k = i
    BY <1>1, <2>2, <3>1, <3>2
  <3> QED BY <1>3, <2>2, <3>1, <3>2
 <2> QED BY <1>2, <2>1, <2>2
<1> QED BY <1>4 DEF x, y

\* What a step of s does to the logs.
LogGrows(s) ==
    /\ \/ redo' = redo
       \/ \E r \in RedoRecord :
              /\ r.trx = s /\ redo' = Append(redo, r)
              /\ r.pos # 0 => pc[s] = "finish" /\ r.type = outcome[s] /\ r.pos = pos[s]
    /\ written' \in {written, Len(redo), Len(redo')}
    /\ binlog' = binlog \/ (pc[s] = "binlog" /\ binlog' = Append(binlog, s))
    /\ wrote' = wrote \/ pc[s] = "inside"
    /\ lock_queue' \in Seq(Sessions)

\* What that leaves of the records of t.
RecordsKept(t) ==
    /\ \A i \in Len(redo) + 1 .. Len(redo') : redo'[i].trx # t
    /\ StateIn(redo', Len(redo'), t) = StateIn(redo, Len(redo), t)
    /\ InBinlog(t)' <=> InBinlog(t)

\* and of the logs as a whole.
LogKept ==
    /\ Len(redo) \in Nat /\ Len(redo') \in Nat /\ Len(redo) <= Len(redo')
    /\ \A i \in 1 .. Len(redo) : redo'[i] = redo[i]
    /\ written \in Nat /\ written' \in Nat /\ written <= written'
    /\ written <= Len(redo) /\ written' <= Len(redo')

\* The redo log only grows, by records of the session that takes the step.
LEMMA RedoTypes ==
    ASSUME LogTypes, NEW s \in Sessions, LogGrows(s)
    PROVE  LogKept /\ redo' \in Seq(RedoRecord) /\ \A i \in Len(redo) + 1 .. Len(redo') : redo'[i].trx = s
<1>1. redo \in Seq(RedoRecord) /\ Len(redo) \in Nat /\ written \in 0 .. Len(redo) BY DEF LogTypes
<1>2. CASE redo' = redo BY <1>1, <1>2 DEF LogGrows, LogKept
<1>3. ASSUME NEW r \in RedoRecord, r.trx = s, redo' = Append(redo, r)
      PROVE  LogKept /\ redo' \in Seq(RedoRecord) /\ \A i \in Len(redo) + 1 .. Len(redo') : redo'[i].trx = s
 <2>1. /\ redo' \in Seq(RedoRecord)
       /\ Len(redo') = Len(redo) + 1
       /\ \A i \in 1 .. Len(redo) : redo'[i] = redo[i]
       /\ redo'[Len(redo) + 1] = r
   BY <1>1, <1>3, AppendProperties
 <2>2. written' \in {written, Len(redo), Len(redo')} BY DEF LogGrows
 <2> QED BY <1>1, <1>3, <2>1, <2>2 DEF LogKept
<1> QED BY <1>2, <1>3 DEF LogGrows

\* The binary log only grows, by the session that takes the step.
LEMMA BinlogGrows ==
    ASSUME LogTypes, NEW s \in Sessions, LogGrows(s)
    PROVE  /\ binlog' \in Seq(Sessions)
           /\ Len(binlog) \in Nat /\ Len(binlog') \in Nat /\ Len(binlog) <= Len(binlog')
           /\ \A i \in 1 .. Len(binlog) : binlog'[i] = binlog[i]
           /\ \A i \in Len(binlog) + 1 .. Len(binlog') : binlog'[i] = s
<1>1. binlog \in Seq(Sessions) /\ Len(binlog) \in Nat BY DEF LogTypes
<1>2. CASE binlog' = binlog BY <1>1, <1>2
<1>3. CASE binlog' = Append(binlog, s)
 <2>1. /\ binlog' \in Seq(Sessions)
       /\ Len(binlog') = Len(binlog) + 1
       /\ \A i \in 1 .. Len(binlog) : binlog'[i] = binlog[i]
       /\ binlog'[Len(binlog) + 1] = s
   BY <1>1, <1>3, AppendProperties
 <2> QED BY <1>1, <2>1
<1> QED BY <1>2, <1>3 DEF LogGrows

\* The records of the other sessions say after a step what they said before.
LEMMA OthersRecordsKept ==
    ASSUME LogTypes, NEW s \in Sessions, LogGrows(s), NEW t \in Sessions \ {s}
    PROVE  RecordsKept(t)
<1>1. redo \in Seq(RedoRecord) /\ redo' \in Seq(RedoRecord) BY RedoTypes DEF LogTypes
<1>2. \A i \in Len(redo) + 1 .. Len(redo') : redo'[i].trx # t BY RedoTypes
<1>3. StateIn(redo', Len(redo'), t) = StateIn(redo, Len(redo), t)
 <2>1. Len(redo) \in 0 .. Len(redo) /\ Len(redo') \in Len(redo) .. Len(redo')
   BY RedoTypes DEF LogKept
 <2> QED BY ZenonT(60), <1>1, <1>2, <2>1, RedoTypes, StateOfSameRecords DEF LogKept
<1>4. InBinlog(t)' <=> InBinlog(t) BY BinlogGrows DEF InBinlog, Contains
<1> QED BY <1>2, <1>3, <1>4 DEF RecordsKept

\* innobase_commit_by_xid and innobase_rollback_by_xid write one record without a position.
LEMMA EndByXidMoves ==
    ASSUME LogTypes, NEW s \in Sessions, NEW type \in {"committed", "rolledback"}, EndByXid(s, type)
    PROVE  LogGrows(s)
<1> DEFINE r == [type |-> type, trx |-> s, pos |-> 0]
<1>1. r \in RedoRecord /\ r.trx = s /\ r.pos = 0 BY DEF RedoRecord
<1>2. redo' = Append(redo, r) /\ written' = Len(redo) + 1 /\ binlog' = binlog /\ wrote' = wrote
  BY DEF EndByXid, AppendRedo, log_vars
<1>3. Len(redo') = Len(redo) + 1 BY <1>1, <1>2, AppendProperties DEF LogTypes
<1>4. lock_queue' \in Seq(Sessions) BY RemoveFirstType DEF EndByXid, LogTypes
<1> QED BY <1>1, <1>2, <1>3, <1>4 DEF LogGrows

\* What each action of a session does to the redo log and the binary log.
LEMMA LogMoves ==
    ASSUME FateTypes, CounterTypes, LogTypes, Course,
           NEW s \in Sessions, SessionStep(s)
    PROVE  LogGrows(s)
<1> USE DEF Step, At, sess_vars, lock_vars, commit_vars, log_vars, fate_vars
<1>1. ASSUME Begin(s)
      PROVE  LogGrows(s)
  BY <1>1 DEF Begin, LogGrows, LogTypes
<1>2. ASSUME NextRow(s)
      PROVE  LogGrows(s)
  BY <1>2 DEF NextRow, LogGrows, LogTypes
<1>3. ASSUME Enter(s)
      PROVE  LogGrows(s)
 <2>1. PICK b \in {"inside", "queued"} : pc' = [pc EXCEPT ![s] = b] BY <1>3, EnterMoves
 <2> QED BY <1>3, <2>1, EnterMoves DEF LogGrows, LogTypes
<1>4. ASSUME SleepOnce(s)
      PROVE  LogGrows(s)
  BY <1>4 DEF SleepOnce, LogGrows, LogTypes
<1>5. ASSUME WakeInQueue(s)
      PROVE  LogGrows(s)
  BY <1>5 DEF WakeInQueue, LogGrows, LogTypes
<1>6. ASSUME ReadRow(s)
      PROVE  LogGrows(s)
  BY <1>6 DEF ReadRow, LogGrows, LogTypes
<1>7. ASSUME ChangeRow(s)
      PROVE  LogGrows(s)
  BY <1>7 DEF ChangeRow, LogGrows, LogTypes
<1>8. ASSUME MustWait(s)
      PROVE  LogGrows(s)
  BY <1>8, AppendProperties DEF MustWait, LogGrows, LogTypes
<1>9. ASSUME Suspend(s)
      PROVE  LogGrows(s)
 <2>1. PICK b \in {"inside", "lock_wait"} : pc' = [pc EXCEPT ![s] = b] BY <1>9, SuspendMoves
 <2> QED BY <1>9, <2>1, SuspendMoves DEF LogGrows, LogTypes
<1>10. ASSUME LockWaitEnds(s)
      PROVE  LogGrows(s)
  BY <1>10 DEF LockWaitEnds, LogGrows, LogTypes
<1>11. ASSUME EndStatement(s)
      PROVE  LogGrows(s)
  BY <1>11 DEF EndStatement, LogGrows, LogTypes
<1>12. ASSUME CallPrepare(s)
      PROVE  LogGrows(s)
  BY <1>12 DEF CallPrepare, LogGrows, LogTypes
<1>13. ASSUME LockPrepareCommit(s)
      PROVE  LogGrows(s)
  BY <1>13, LockPrepareCommitMoves DEF LogGrows, LogTypes
<1>14. ASSUME Prepare(s)
      PROVE  LogGrows(s)
 <2>1. CASE s \in wrote
  <3>1. [type |-> "prepared", trx |-> s, pos |-> 0] \in RedoRecord BY DEF RedoRecord
  <3> QED BY <1>14, <2>1, <3>1 DEF Prepare, AppendRedo, LogGrows, LogTypes
 <2>2. CASE s \notin wrote BY <1>14, <2>2 DEF Prepare, LogGrows, LogTypes
 <2> QED BY <2>1, <2>2
<1>15. ASSUME PrepareFlush(s)
      PROVE  LogGrows(s)
  BY <1>15 DEF PrepareFlush, AfterPrepare, WriteRedo, LogGrows, LogTypes
<1>16. ASSUME WriteBinlog(s)
      PROVE  LogGrows(s)
  BY <1>16 DEF WriteBinlog, LogGrows, LogTypes
<1>17. ASSUME StartCommit(s)
      PROVE  LogGrows(s)
 <2>1. CASE CommitWaits(s) BY <1>17, <2>1, StartCommitMoves DEF CommitWaits, LogGrows, LogTypes
 <2>2. CASE CommitStarts(s) BY <1>17, <2>2, StartCommitMoves DEF CommitStarts, LogGrows, LogTypes
 <2> QED BY <1>17, <2>1, <2>2, StartCommitMoves
<1>18. ASSUME StartRollback(s)
      PROVE  LogGrows(s)
  BY <1>18 DEF StartRollback, LogGrows, LogTypes
<1>19. ASSUME Finish(s)
      PROVE  LogGrows(s)
 <2>1. [type |-> outcome[s], trx |-> s, pos |-> pos[s]] \in RedoRecord
   BY <1>19 DEF Finish, RedoRecord, FateTypes, CounterTypes, Course, CourseOf, Ending
 <2>2. redo' = redo \/ redo' = Append(redo, [type |-> outcome[s], trx |-> s, pos |-> pos[s]])
   BY <1>19 DEF Finish, AppendRedo
 <2>3. pc[s] = "finish" /\ UNCHANGED <<written, binlog, wrote>> /\ lock_queue' \in Seq(Sessions)
   BY <1>19, RemoveFirstType DEF Finish, LogTypes
 <2> QED BY <2>1, <2>2, <2>3 DEF LogGrows
<1>20. ASSUME FinishFlush(s)
      PROVE  LogGrows(s)
  BY <1>20 DEF FinishFlush, WriteRedo, LogGrows, LogTypes
<1>21. ASSUME EndOfCall(s)
      PROVE  LogGrows(s)
  BY <1>21 DEF EndOfCall, LogGrows, LogTypes
<1>22. ASSUME SignalWaiter(s)
      PROVE  LogGrows(s)
  BY <1>22 DEF SignalWaiter, LogGrows, LogTypes
<1>23. ASSUME RecoverXid(s)
      PROVE  LogGrows(s)
 <2>1. PICK type \in {"committed", "rolledback"} : EndByXid(s, type) BY <1>23 DEF RecoverXid
 <2> QED BY <2>1, EndByXidMoves
<1>24. ASSUME UserEndsXid(s)
      PROVE  LogGrows(s)
 <2>1. PICK type \in {"committed", "rolledback"} : EndByXid(s, type) BY <1>24 DEF UserEndsXid
 <2> QED BY <2>1, EndByXidMoves
<1> QED
  BY <1>1, <1>2, <1>3, <1>4, <1>5, <1>6, <1>7, <1>8, <1>9, <1>10, <1>11, <1>12, <1>13, <1>14, <1>15,
       <1>16, <1>17, <1>18, <1>19, <1>20, <1>21, <1>22, <1>23, <1>24 DEF SessionStep, Continue

\* A step of a session keeps the types of the logs, and what is written stays written.
LEMMA LogTypesStep ==
    ASSUME FateTypes, CounterTypes, LogTypes, Course, NEW s \in Sessions, SessionStep(s)
    PROVE  LogTypes' /\ LogKept
<1>1. LogGrows(s) BY LogMoves
<1>2. lock_queue' \in Seq(Sessions) BY <1>1 DEF LogGrows
<1> QED BY <1>1, <1>2, RedoTypes, BinlogGrows DEF LogTypes, LogKept

-----------------------------------------------------------------------------
(* The places of the sessions *)

\* What a step of s leaves of the places of the others.
OthersPlacesKept(s) ==
    \A t \in Sessions \ {s} :
        /\ t \in Queued' <=> t \in Queued
        /\ t \in declared' <=> t \in declared
        /\ n_tickets'[t] = n_tickets[t]

\* A step that leaves the variables of SrvConc alone keeps the tickets.
LEMMA StutterKeepsTickets ==
    ASSUME Tickets, NEW s \in Sessions, UNCHANGED conc_vars
    PROVE  Tickets' /\ OthersPlacesKept(s) /\ Queued' = Queued
  BY DEF conc_vars, Tickets, ConcTypeOK, PlacesCounted, QueuedOnce, SignalsOwed, Queued,
     OthersPlacesKept

\* innobase_release_stat_resources leaves the session outside, and the others where they are.
LEMMA ReleaseTicketKeepsTickets ==
    ASSUME Tickets, NEW s \in Sessions, to_signal[s] = NoSession, ReleaseTicket(s)
    PROVE  Tickets' /\ OthersPlacesKept(s) /\ Queued' = Queued /\ s \notin declared'
<1>1. CASE ForceExit(s)
 <2>1. Tickets' /\ Queued' = Queued BY <1>1, ForceExitKeepsTickets
 <2>2. declared' = declared \ {s} /\ n_tickets' = [n_tickets EXCEPT ![s] = 0] BY <1>1 DEF ForceExit
 <2> QED BY <2>1, <2>2 DEF OthersPlacesKept, Tickets, ConcTypeOK
<1>2. CASE s \notin declared /\ UNCHANGED conc_vars BY <1>2, StutterKeepsTickets DEF conc_vars
<1> QED BY <1>1, <1>2 DEF ReleaseTicket

\* srv_conc_exit_innodb: the session stays declared inside only with tickets left.
LEMMA ExitInnodbKeepsTickets ==
    ASSUME Tickets, NEW s \in Sessions, to_signal[s] = NoSession, ExitInnodb(s)
    PROVE  /\ Tickets' /\ OthersPlacesKept(s) /\ Queued' = Queued
           /\ n_tickets'[s] = 0 => s \notin declared'
<1>1. CASE n_tickets[s] > 0 /\ UNCHANGED conc_vars BY <1>1, StutterKeepsTickets DEF conc_vars
<1>2. CASE n_tickets[s] = 0 /\ ReleaseTicket(s) BY <1>2, ReleaseTicketKeepsTickets
<1> QED BY <1>1, <1>2 DEF ExitInnodb

\* srv_conc_enter_innodb, whichever way the session gets in or into the queue.
LEMMA EnterKeepsTickets ==
    ASSUME Tickets, Whereabouts, FateTypes, NEW s \in Sessions, Enter(s)
    PROVE  Tickets' /\ OthersPlacesKept(s) /\ WhereaboutsOf(s)'
<1>1. /\ pc[s] \in {"enter", "enter_slept"}
      /\ s \notin Queued
      /\ n_tickets[s] = 0 => s \notin declared
  BY EnterMoves DEF Whereabouts, WhereaboutsOf
<1>2. n_tickets \in [Sessions -> 0 .. FreeTickets] BY DEF Tickets, ConcTypeOK
<1>3. ASSUME pc' = [pc EXCEPT ![s] = "inside"], EnterAsSlave(s)
      PROVE  Tickets' /\ OthersPlacesKept(s) /\ WhereaboutsOf(s)'
 <2>1. Tickets' /\ OthersPlacesKept(s) /\ Queued' = Queued
   BY <1>3, StutterKeepsTickets DEF EnterAsSlave
 <2> QED BY <1>1, <1>3, <2>1 DEF WhereaboutsOf, FateTypes
<1>4. ASSUME pc' = [pc EXCEPT ![s] = "inside"], EnterByTicket(s)
      PROVE  Tickets' /\ OthersPlacesKept(s) /\ WhereaboutsOf(s)'
 <2>1. Queued' = Queued BY <1>4 DEF EnterByTicket, Queued
 <2>2. n_tickets' \in [Sessions -> 0 .. FreeTickets]
   BY <1>2, <1>4, SrvConcAssumption DEF EnterByTicket
 <2>3. Tickets'
   BY <1>4, <2>1, <2>2 DEF EnterByTicket, Tickets, ConcTypeOK, PlacesCounted, QueuedOnce,
      SignalsOwed
 <2>4. OthersPlacesKept(s) BY <1>2, <1>4, <2>1 DEF EnterByTicket, OthersPlacesKept
 <2> QED BY <1>1, <1>4, <2>1, <2>3, <2>4 DEF WhereaboutsOf, FateTypes
<1>5. ASSUME pc' = [pc EXCEPT ![s] = "inside"], NEW k \in {0, FreeTickets}, NeedsPlace(s), TakePlace(s, k)
      PROVE  Tickets' /\ OthersPlacesKept(s) /\ WhereaboutsOf(s)'
 <2>1. k \in 0 .. FreeTickets BY SrvConcAssumption
 <2>2. Tickets' /\ Queued' = Queued BY <1>1, <1>5, <2>1, TakePlaceKeepsTickets DEF NeedsPlace
 <2>3. OthersPlacesKept(s) BY <1>2, <1>5, <2>2 DEF TakePlace, OthersPlacesKept
 <2> QED BY <1>1, <1>5, <2>2, <2>3 DEF WhereaboutsOf, FateTypes
<1>6. ASSUME pc' = [pc EXCEPT ![s] = "queued"], Enqueue(s)
      PROVE  Tickets' /\ OthersPlacesKept(s) /\ WhereaboutsOf(s)'
 <2>1. Tickets' /\ Queued' = Queued \cup {s}
   BY <1>1, <1>6, EnqueueKeepsTickets DEF Enqueue, NeedsPlace
 <2>2. OthersPlacesKept(s) BY <1>6, <2>1 DEF Enqueue, OthersPlacesKept
 <2> QED BY <1>6, <2>1, <2>2 DEF WhereaboutsOf, FateTypes
<1> QED BY <1>3, <1>4, <1>5, <1>6 DEF Enter, Step, EnterRoom, EnterWithoutSlot

\* A step of a session keeps the tickets in order and the session where its label says.
LEMMA TicketsStep ==
    ASSUME FateTypes, CounterTypes, CommitsCounted, Tickets, Whereabouts,
           NEW s \in Sessions, SessionStep(s)
    PROVE  Tickets' /\ OthersPlacesKept(s) /\ WhereaboutsOf(s)'
<1> USE DEF Step, At, sess_vars, lock_vars, commit_vars, log_vars, fate_vars
<1>1. ASSUME Begin(s)
      PROVE  Tickets' /\ OthersPlacesKept(s) /\ WhereaboutsOf(s)'
  BY <1>1, StutterKeepsTickets DEF Begin, conc_vars, FateTypes, Whereabouts, WhereaboutsOf
<1>2. ASSUME NextRow(s)
      PROVE  Tickets' /\ OthersPlacesKept(s) /\ WhereaboutsOf(s)'
  BY <1>2, StutterKeepsTickets DEF NextRow, conc_vars, FateTypes, Whereabouts, WhereaboutsOf
<1>3. ASSUME Enter(s)
      PROVE  Tickets' /\ OthersPlacesKept(s) /\ WhereaboutsOf(s)'
  BY <1>3, EnterKeepsTickets
<1>4. ASSUME SleepOnce(s)
      PROVE  Tickets' /\ OthersPlacesKept(s) /\ WhereaboutsOf(s)'
  BY <1>4, StutterKeepsTickets DEF SleepOnce, conc_vars, FateTypes, Whereabouts, WhereaboutsOf
<1>5. ASSUME WakeInQueue(s)
      PROVE  Tickets' /\ OthersPlacesKept(s) /\ WhereaboutsOf(s)'
 <2>1. Tickets' /\ Queued' = Queued \ {s} BY <1>5, LeaveQueueKeepsTickets DEF WakeInQueue
 <2>2. OthersPlacesKept(s)
   BY <1>5, <2>1 DEF WakeInQueue, LeaveQueue, OthersPlacesKept, Tickets, ConcTypeOK
 <2> QED BY <1>5, <2>1, <2>2 DEF WakeInQueue, FateTypes, WhereaboutsOf
<1>6. ASSUME ReadRow(s)
      PROVE  Tickets' /\ OthersPlacesKept(s) /\ WhereaboutsOf(s)'
  BY <1>6, ExitInnodbKeepsTickets DEF ReadRow, FateTypes, Whereabouts, WhereaboutsOf
<1>7. ASSUME ChangeRow(s)
      PROVE  Tickets' /\ OthersPlacesKept(s) /\ WhereaboutsOf(s)'
  BY <1>7, ExitInnodbKeepsTickets DEF ChangeRow, FateTypes, Whereabouts, WhereaboutsOf
<1>8. ASSUME MustWait(s)
      PROVE  Tickets' /\ OthersPlacesKept(s) /\ WhereaboutsOf(s)'
  BY <1>8, StutterKeepsTickets DEF MustWait, conc_vars, FateTypes, Whereabouts, WhereaboutsOf
<1>9. ASSUME Suspend(s)
      PROVE  Tickets' /\ OthersPlacesKept(s) /\ WhereaboutsOf(s)'
 <2>1. CASE pc' = [pc EXCEPT ![s] = "inside"] /\ UNCHANGED conc_vars
   BY <1>9, <2>1, StutterKeepsTickets, SuspendMoves DEF conc_vars, FateTypes, Whereabouts,
      WhereaboutsOf
 <2>2. CASE pc' = [pc EXCEPT ![s] = "lock_wait"] /\ to_signal[s] = NoSession /\ ReleaseTicket(s)
   BY <1>9, <2>2, ReleaseTicketKeepsTickets, SuspendMoves DEF FateTypes, Whereabouts, WhereaboutsOf
 <2> QED BY <1>9, <2>1, <2>2 DEF Suspend, conc_vars
<1>10. ASSUME LockWaitEnds(s)
      PROVE  Tickets' /\ OthersPlacesKept(s) /\ WhereaboutsOf(s)'
 <2>1. pc[s] = "lock_wait" /\ pc' = [pc EXCEPT ![s] = "inside"] BY <1>10 DEF LockWaitEnds
 <2>2. s \notin declared /\ s \notin Queued BY <2>1 DEF Whereabouts, WhereaboutsOf
 <2>3. CASE TakePlace(s, 1)
  <3>1. Tickets' /\ Queued' = Queued BY <2>2, <2>3, SrvConcAssumption, TakePlaceKeepsTickets
  <3>2. OthersPlacesKept(s) BY <2>3, <3>1 DEF TakePlace, OthersPlacesKept, Tickets, ConcTypeOK
  <3> QED BY <2>1, <2>2, <3>1, <3>2 DEF FateTypes, WhereaboutsOf
 <2>4. CASE UNCHANGED conc_vars
   BY <2>1, <2>2, <2>4, StutterKeepsTickets DEF FateTypes, WhereaboutsOf, conc_vars
 <2> QED BY <1>10, <2>3, <2>4 DEF LockWaitEnds, ForceEnter
<1>11. ASSUME EndStatement(s)
      PROVE  Tickets' /\ OthersPlacesKept(s) /\ WhereaboutsOf(s)'
 <2>1. ReleaseTicket(s) BY <1>11 DEF EndStatement, ReleaseTicket
 <2> QED
   BY <1>11, <2>1, ReleaseTicketKeepsTickets DEF EndStatement, FateTypes, Whereabouts,
      WhereaboutsOf
<1>12. ASSUME CallPrepare(s)
      PROVE  Tickets' /\ OthersPlacesKept(s) /\ WhereaboutsOf(s)'
  BY <1>12, StutterKeepsTickets DEF CallPrepare, conc_vars, FateTypes, Whereabouts, WhereaboutsOf
<1>13. ASSUME LockPrepareCommit(s)
      PROVE  Tickets' /\ OthersPlacesKept(s) /\ WhereaboutsOf(s)'
  BY <1>13, LockPrepareCommitMoves, StutterKeepsTickets DEF conc_vars, FateTypes, Whereabouts,
     WhereaboutsOf
<1>14. ASSUME Prepare(s)
      PROVE  Tickets' /\ OthersPlacesKept(s) /\ WhereaboutsOf(s)'
  BY <1>14, ReleaseTicketKeepsTickets DEF Prepare, AfterPrepare, AppendRedo, FateTypes, Whereabouts,
     WhereaboutsOf
<1>15. ASSUME PrepareFlush(s)
      PROVE  Tickets' /\ OthersPlacesKept(s) /\ WhereaboutsOf(s)'
  BY <1>15, StutterKeepsTickets DEF PrepareFlush, AfterPrepare, WriteRedo, conc_vars, FateTypes,
     Whereabouts, WhereaboutsOf
<1>16. ASSUME WriteBinlog(s)
      PROVE  Tickets' /\ OthersPlacesKept(s) /\ WhereaboutsOf(s)'
  BY <1>16, StutterKeepsTickets DEF WriteBinlog, conc_vars, FateTypes, Whereabouts, WhereaboutsOf
<1>17. ASSUME StartCommit(s)
      PROVE  Tickets' /\ OthersPlacesKept(s) /\ WhereaboutsOf(s)'
 <2>1. CASE CommitWaits(s)
   BY <1>17, <2>1, StartCommitMoves, StutterKeepsTickets DEF CommitWaits, conc_vars, FateTypes,
      Whereabouts, WhereaboutsOf
 <2>2. CASE CommitStarts(s)
   BY <1>17, <2>2, StartCommitMoves, StutterKeepsTickets DEF CommitStarts, conc_vars, FateTypes,
      Whereabouts, WhereaboutsOf
 <2> QED BY <1>17, <2>1, <2>2, StartCommitMoves
<1>18. ASSUME StartRollback(s)
      PROVE  Tickets' /\ OthersPlacesKept(s) /\ WhereaboutsOf(s)'
  BY <1>18, ReleaseTicketKeepsTickets DEF StartRollback, FateTypes, Whereabouts, WhereaboutsOf
<1>19. ASSUME Finish(s)
      PROVE  Tickets' /\ OthersPlacesKept(s) /\ WhereaboutsOf(s)'
  BY <1>19, StutterKeepsTickets DEF Finish, AppendRedo, conc_vars, FateTypes, Whereabouts,
     WhereaboutsOf
<1>20. ASSUME FinishFlush(s)
      PROVE  Tickets' /\ OthersPlacesKept(s) /\ WhereaboutsOf(s)'
  BY <1>20, StutterKeepsTickets DEF FinishFlush, WriteRedo, conc_vars, FateTypes, Whereabouts,
     WhereaboutsOf
<1>21. ASSUME EndOfCall(s)
      PROVE  Tickets' /\ OthersPlacesKept(s) /\ WhereaboutsOf(s)'
 <2>1. ReleaseTicket(s) /\ to_signal[s] = NoSession BY <1>21 DEF EndOfCall, LeaveCommit
 <2> QED BY <1>21, <2>1, ReleaseTicketKeepsTickets, EndOfCallMoves DEF Whereabouts, WhereaboutsOf
<1>22. ASSUME SignalWaiter(s)
      PROVE  Tickets' /\ OthersPlacesKept(s) /\ WhereaboutsOf(s)'
 <2>1. Tickets' /\ Queued' = Queued BY <1>22, SetEventKeepsTickets DEF SignalWaiter
 <2>2. UNCHANGED <<pc, declared, n_tickets>> BY <1>22 DEF SignalWaiter, SetEvent
 <2> QED BY <2>1, <2>2 DEF OthersPlacesKept, Whereabouts, WhereaboutsOf
<1>23. ASSUME RecoverXid(s)
      PROVE  Tickets' /\ OthersPlacesKept(s) /\ WhereaboutsOf(s)'
  BY <1>23, StutterKeepsTickets DEF RecoverXid, EndByXid, AppendRedo, conc_vars, FateTypes,
     Whereabouts, WhereaboutsOf
<1>24. ASSUME UserEndsXid(s)
      PROVE  Tickets' /\ OthersPlacesKept(s) /\ WhereaboutsOf(s)'
 <2>1. PICK type \in {"committed", "rolledback"} :
         EndByXid(s, type) /\ reply' = [reply EXCEPT ![s] = type]
   BY <1>24 DEF UserEndsXid
 <2> QED
   BY <2>1, StutterKeepsTickets DEF EndByXid, AppendRedo, conc_vars, FateTypes, Whereabouts,
      WhereaboutsOf
<1> QED
  BY <1>1, <1>2, <1>3, <1>4, <1>5, <1>6, <1>7, <1>8, <1>9, <1>10, <1>11, <1>12, <1>13, <1>14, <1>15,
       <1>16, <1>17, <1>18, <1>19, <1>20, <1>21, <1>22, <1>23, <1>24 DEF SessionStep, Continue

\* The same for the labels of all the sessions.
LEMMA WhereaboutsStep ==
    ASSUME FateTypes, CounterTypes, CommitsCounted, Tickets, Whereabouts, NEW s \in Sessions, SessionStep(s)
    PROVE  Tickets' /\ Whereabouts'
<1>1. Tickets' /\ OthersPlacesKept(s) /\ WhereaboutsOf(s)' BY TicketsStep
<1>2. ASSUME NEW t \in Sessions \ {s}
      PROVE  WhereaboutsOf(t)'
  BY <1>1, <1>2, OthersUntouched DEF Untouched, OthersPlacesKept, Whereabouts, WhereaboutsOf
<1> QED BY <1>1, <1>2 DEF Whereabouts

-----------------------------------------------------------------------------
(* The committing threads *)

\* The sessions that commit now.
CommitsOf == {s \in Sessions : pc[s] \in Ending /\ outcome[s] = "committed"}

\* The committing threads can be counted.
LEMMA CommitsAreFinite == IsFiniteSet(CommitsOf) /\ Cardinality(CommitsOf) \in Nat
  BY SrvConcAssumption, FS_Subset, FS_CardinalityType DEF CommitsOf

\* A step that neither starts nor ends a commit leaves the count of them right.
LEMMA CommitsUnmoved ==
    ASSUME CommitsCounted, NEW s \in Sessions,
           \A t \in Sessions \ {s} : pc'[t] = pc[t] /\ outcome'[t] = outcome[t],
           pc[s] \in Ending /\ outcome[s] = "committed" <=> pc'[s] \in Ending /\ outcome'[s] = "committed",
           pc[s] = "commit_wait" <=> pc'[s] = "commit_wait",
           UNCHANGED <<commit_waiters, commit_threads, plan>>
    PROVE  CommitsCounted'
<1>1. CommitsOf' = CommitsOf BY DEF CommitsOf, Ending
<1>2. {t \in Sessions : pc'[t] = "commit_wait"} = {t \in Sessions : pc[t] = "commit_wait"} OBVIOUS
<1> QED BY <1>1, <1>2 DEF CommitsCounted, CommitsOf, Ending

\* A step of a session keeps commit_threads the number of the committing threads.
LEMMA CommitsCountedStep ==
    ASSUME FateTypes, CounterTypes, CommitsCounted,
           NEW s \in Sessions, SessionStep(s)
    PROVE  CommitsCounted'
<1> USE DEF Step, At, sess_vars, lock_vars, commit_vars, log_vars, fate_vars
<1>1. ASSUME Begin(s)
      PROVE  CommitsCounted'
  BY <1>1, CommitsUnmoved DEF Begin, FateTypes, Ending
<1>2. ASSUME NextRow(s)
      PROVE  CommitsCounted'
  BY <1>2, CommitsUnmoved DEF NextRow, FateTypes, Ending
<1>3. ASSUME Enter(s)
      PROVE  CommitsCounted'
 <2>1. PICK b \in {"inside", "queued"} : pc' = [pc EXCEPT ![s] = b] BY <1>3, EnterMoves
 <2> QED BY <1>3, <2>1, EnterMoves, CommitsUnmoved DEF FateTypes, Ending
<1>4. ASSUME SleepOnce(s)
      PROVE  CommitsCounted'
  BY <1>4, CommitsUnmoved DEF SleepOnce, FateTypes, Ending
<1>5. ASSUME WakeInQueue(s)
      PROVE  CommitsCounted'
  BY <1>5, CommitsUnmoved DEF WakeInQueue, FateTypes, Ending
<1>6. ASSUME ReadRow(s)
      PROVE  CommitsCounted'
  BY <1>6, CommitsUnmoved DEF ReadRow, FateTypes, Ending
<1>7. ASSUME ChangeRow(s)
      PROVE  CommitsCounted'
  BY <1>7, CommitsUnmoved DEF ChangeRow, FateTypes, Ending
<1>8. ASSUME MustWait(s)
      PROVE  CommitsCounted'
  BY <1>8, CommitsUnmoved DEF MustWait, FateTypes, Ending
<1>9. ASSUME Suspend(s)
      PROVE  CommitsCounted'
 <2>1. PICK b \in {"inside", "lock_wait"} : pc' = [pc EXCEPT ![s] = b] BY <1>9, SuspendMoves
 <2> QED BY <1>9, <2>1, SuspendMoves, CommitsUnmoved DEF FateTypes, Ending
<1>10. ASSUME LockWaitEnds(s)
      PROVE  CommitsCounted'
  BY <1>10, CommitsUnmoved DEF LockWaitEnds, FateTypes, Ending
<1>11. ASSUME EndStatement(s)
      PROVE  CommitsCounted'
  BY <1>11 DEF EndStatement, CommitsCounted
<1>12. ASSUME CallPrepare(s)
      PROVE  CommitsCounted'
  BY <1>12, CommitsUnmoved DEF CallPrepare, FateTypes, Ending
<1>13. ASSUME LockPrepareCommit(s)
      PROVE  CommitsCounted'
 <2>1. /\ pc[s] = "xa_prepare" /\ pc'[s] \in {"binlog", "prepare"}
       /\ \A t \in Sessions \ {s} : pc'[t] = pc[t]
       /\ UNCHANGED <<outcome, commit_waiters, commit_threads, plan>>
   BY <1>13, LockPrepareCommitMoves
 <2> QED BY <2>1, CommitsUnmoved DEF Ending
<1>14. ASSUME Prepare(s)
      PROVE  CommitsCounted'
  BY <1>14, CommitsUnmoved DEF Prepare, AfterPrepare, AppendRedo, commit_vars, FateTypes, Ending
<1>15. ASSUME PrepareFlush(s)
      PROVE  CommitsCounted'
  BY <1>15, CommitsUnmoved DEF PrepareFlush, AfterPrepare, WriteRedo, FateTypes, Ending
<1>16. ASSUME WriteBinlog(s)
      PROVE  CommitsCounted'
  BY <1>16, CommitsUnmoved DEF WriteBinlog, FateTypes, Ending
<1>17. ASSUME StartCommit(s)
      PROVE  CommitsCounted'
 <2>1. CASE CommitWaits(s)
  <3>1. CommitsOf' = CommitsOf
    BY <1>17, <2>1, StartCommitMoves DEF CommitWaits, CommitsOf, FateTypes, Ending
  <3>2. {t \in Sessions : pc'[t] = "commit_wait"} = {t \in Sessions : pc[t] = "commit_wait"} \cup {s}
    BY <1>17, <2>1, StartCommitMoves DEF CommitWaits, FateTypes
  <3>3. UNCHANGED <<plan, commit_threads>> /\ commit_waiters' = commit_waiters \cup {s}
    BY <1>17, <2>1, StartCommitMoves DEF CommitWaits
  <3> QED BY <3>1, <3>2, <3>3 DEF CommitsCounted, CommitsOf
 <2>2. CASE CommitStarts(s)
  <3>0. /\ pc[s] \notin Ending /\ pc'[s] = "finish" /\ outcome'[s] = "committed"
        /\ \A t \in Sessions \ {s} : pc'[t] = pc[t] /\ outcome'[t] = outcome[t]
    BY ZenonT(60), <1>17, <2>2, StartCommitMoves DEF CommitStarts, FateTypes, Ending
  <3>1. CommitsOf' = CommitsOf \cup {s} /\ s \notin CommitsOf BY <3>0 DEF CommitsOf, Ending
  <3>2. {t \in Sessions : pc'[t] = "commit_wait"} = {t \in Sessions : pc[t] = "commit_wait"}
    BY <1>17, <2>2, StartCommitMoves DEF CommitStarts, FateTypes
  <3>3. /\ UNCHANGED <<plan, commit_waiters>>
        /\ plan.commits > 0 => commit_threads' = commit_threads + 1
    BY Zenon, <1>17, <2>2, StartCommitMoves DEF CommitStarts
  <3>4. Cardinality(CommitsOf') = Cardinality(CommitsOf) + 1
    BY <3>1, CommitsAreFinite, FS_AddElement
  <3> QED BY <3>2, <3>3, <3>4 DEF CommitsCounted, CommitsOf
 <2> QED BY <1>17, <2>1, <2>2, StartCommitMoves
<1>18. ASSUME StartRollback(s)
      PROVE  CommitsCounted'
  BY <1>18, CommitsUnmoved DEF StartRollback, FateTypes, Ending
<1>19. ASSUME Finish(s)
      PROVE  CommitsCounted'
  BY <1>19, CommitsUnmoved DEF Finish, AppendRedo, FateTypes, Ending
<1>20. ASSUME FinishFlush(s)
      PROVE  CommitsCounted'
  BY <1>20, CommitsUnmoved DEF FinishFlush, WriteRedo, FateTypes, Ending
<1>21. ASSUME EndOfCall(s)
      PROVE  CommitsCounted'
 <2>1. pc[s] = "end" /\ pc'[s] = "done" /\ UNCHANGED <<plan, outcome>> BY <1>21, EndOfCallMoves
 <2>2. CASE outcome[s] = "committed" /\ plan.commits > 0
  <3>1. LeaveCommit(s) BY <1>21, <2>2 DEF EndOfCall
  <3>2. CommitsOf' = CommitsOf \ {s} /\ s \in CommitsOf
    BY <1>21, <2>1, <2>2, EndOfCallMoves DEF CommitsOf, Ending
  <3>3. Cardinality(CommitsOf') = Cardinality(CommitsOf) - 1
    BY <3>2, CommitsAreFinite, FS_RemoveElement
  <3>4. commit_threads' = commit_threads - 1 BY <3>1 DEF LeaveCommit
  <3>5. commit_waiters' = {t \in Sessions : pc'[t] = "commit_wait"}
    BY <2>1, <3>1 DEF LeaveCommit, FateTypes, CommitsCounted
  <3> QED BY <2>1, <3>3, <3>4, <3>5 DEF CommitsCounted, CommitsOf
 <2>3. CASE ~ (outcome[s] = "committed" /\ plan.commits > 0)
  <3>1. pc' = [pc EXCEPT ![s] = "done"] /\ UNCHANGED <<commit_threads, commit_waiters>>
    BY <1>21, <2>3 DEF EndOfCall
  <3>2. commit_waiters' = {t \in Sessions : pc'[t] = "commit_wait"}
    BY <2>1, <3>1 DEF FateTypes, CommitsCounted
  <3>3. plan.commits > 0 => CommitsOf' = CommitsOf
    BY <2>1, <2>3, <3>1 DEF FateTypes, CommitsOf, Ending
  <3> QED BY <2>1, <3>1, <3>2, <3>3 DEF CommitsCounted, CommitsOf
 <2> QED BY <2>2, <2>3
<1>22. ASSUME SignalWaiter(s)
      PROVE  CommitsCounted'
  BY <1>22 DEF SignalWaiter, CommitsCounted
<1>23. ASSUME RecoverXid(s)
      PROVE  CommitsCounted'
  BY <1>23 DEF RecoverXid, EndByXid, CommitsCounted
<1>24. ASSUME UserEndsXid(s)
      PROVE  CommitsCounted'
  BY <1>24 DEF UserEndsXid, EndByXid, CommitsCounted
<1> QED
  BY <1>1, <1>2, <1>3, <1>4, <1>5, <1>6, <1>7, <1>8, <1>9, <1>10, <1>11, <1>12, <1>13, <1>14, <1>15,
       <1>16, <1>17, <1>18, <1>19, <1>20, <1>21, <1>22, <1>23, <1>24 DEF SessionStep, Continue

-----------------------------------------------------------------------------
(* The mutex between prepare and commit *)

\* A step of s takes the mutex from nobody else, and gives it to nobody else.
OthersMutexKept(s) == \A t \in Sessions \ {s} : prepare_commit_mutex' = t <=> prepare_commit_mutex = t

\* A step of a session moves prepare_commit_mutex only from and to that session.
LEMMA MutexStep ==
    ASSUME plan \in PlanType, FateTypes, CounterTypes, CommitsCounted, Course, MutexHeld,
           NEW s \in Sessions, SessionStep(s)
    PROVE  MutexHeldOf(s)' /\ OthersMutexKept(s)
<1> USE DEF Step, At, sess_vars, lock_vars, commit_vars, log_vars, fate_vars, FatesKept
<1>1. ASSUME Begin(s)
      PROVE  MutexHeldOf(s)' /\ OthersMutexKept(s)
 <2>1. /\ pc[s] = "new" /\ pc'[s] = "enter" /\ active_trans'[s] = 1
       /\ UNCHANGED <<plan, outcome, prepare_commit_mutex>>
   BY <1>1 DEF Begin, FateTypes, CounterTypes
 <2> QED BY <2>1 DEF MutexHeld, MutexHeldOf, OthersMutexKept, Committing, Ending
<1>2. ASSUME NextRow(s)
      PROVE  MutexHeldOf(s)' /\ OthersMutexKept(s)
  BY <1>2 DEF NextRow, CounterTypes, MutexHeld, MutexHeldOf, OthersMutexKept, Course, CourseOf,
     FateTypes, Ending, TwoPhaseKinds, Committing
<1>3. ASSUME Enter(s)
      PROVE  MutexHeldOf(s)' /\ OthersMutexKept(s)
 <2>1. /\ pc[s] \in {"enter", "enter_slept"} /\ pc'[s] \in {"inside", "queued"}
       /\ UNCHANGED <<outcome, pos>> /\ FatesKept
   BY <1>3, EnterMoves DEF FateTypes, log_vars, lock_vars, fate_vars, commit_vars
 <2> QED
   BY <2>1 DEF CounterTypes, MutexHeld, MutexHeldOf, OthersMutexKept, Course, CourseOf, Ending,
      TwoPhaseKinds, Committing
<1>4. ASSUME SleepOnce(s)
      PROVE  MutexHeldOf(s)' /\ OthersMutexKept(s)
  BY <1>4 DEF SleepOnce, CounterTypes, MutexHeld, MutexHeldOf, OthersMutexKept, Course, CourseOf,
     FateTypes, Ending, TwoPhaseKinds, Committing
<1>5. ASSUME WakeInQueue(s)
      PROVE  MutexHeldOf(s)' /\ OthersMutexKept(s)
  BY ZenonT(60), <1>5 DEF WakeInQueue, CounterTypes, MutexHeld, MutexHeldOf, OthersMutexKept,
     Course, CourseOf, FateTypes, Ending, TwoPhaseKinds, Committing
<1>6. ASSUME ReadRow(s)
      PROVE  MutexHeldOf(s)' /\ OthersMutexKept(s)
  BY <1>6 DEF ReadRow, CounterTypes, MutexHeld, MutexHeldOf, OthersMutexKept, Course, CourseOf,
     FateTypes, Ending, TwoPhaseKinds, Committing
<1>7. ASSUME ChangeRow(s)
      PROVE  MutexHeldOf(s)' /\ OthersMutexKept(s)
  BY Zenon, <1>7 DEF ChangeRow, CounterTypes, MutexHeld, MutexHeldOf, OthersMutexKept, Course,
     CourseOf, FateTypes, Ending, TwoPhaseKinds, Committing
<1>8. ASSUME MustWait(s)
      PROVE  MutexHeldOf(s)' /\ OthersMutexKept(s)
  BY Zenon, <1>8 DEF MustWait, CounterTypes, MutexHeld, MutexHeldOf, OthersMutexKept, Course,
     CourseOf, FateTypes, Ending, TwoPhaseKinds, Committing
<1>9. ASSUME Suspend(s)
      PROVE  MutexHeldOf(s)' /\ OthersMutexKept(s)
 <2>1. /\ pc[s] \in {"suspend"} /\ pc'[s] \in {"inside", "lock_wait"}
       /\ UNCHANGED <<outcome, pos>> /\ FatesKept
   BY <1>9, SuspendMoves DEF FateTypes, log_vars, lock_vars, fate_vars, commit_vars
 <2> QED
   BY <2>1 DEF CounterTypes, MutexHeld, MutexHeldOf, OthersMutexKept, Course, CourseOf, Ending,
      TwoPhaseKinds, Committing
<1>10. ASSUME LockWaitEnds(s)
      PROVE  MutexHeldOf(s)' /\ OthersMutexKept(s)
  BY Zenon, <1>10 DEF LockWaitEnds, CounterTypes, MutexHeld, MutexHeldOf, OthersMutexKept, Course,
     CourseOf, FateTypes, Ending, TwoPhaseKinds, Committing
<1>11. ASSUME EndStatement(s)
      PROVE  MutexHeldOf(s)' /\ OthersMutexKept(s)
  BY <1>11 DEF EndStatement, CounterTypes, MutexHeld, MutexHeldOf, OthersMutexKept, Course,
     CourseOf, FateTypes, Ending, TwoPhaseKinds, Committing
<1>12. ASSUME CallPrepare(s)
      PROVE  MutexHeldOf(s)' /\ OthersMutexKept(s)
  BY <1>12 DEF CallPrepare, CounterTypes, MutexHeld, MutexHeldOf, OthersMutexKept, Course, CourseOf,
     FateTypes, Ending, TwoPhaseKinds, Committing
<1>13. ASSUME LockPrepareCommit(s)
      PROVE  MutexHeldOf(s)' /\ OthersMutexKept(s)
 <2>1. /\ pc[s] = "xa_prepare"
       /\ pc'[s] = IF plan.kind[s] = "binlog_noxa" THEN "binlog" ELSE "prepare"
       /\ active_trans'[s] = IF plan.kind[s] = "xa" THEN active_trans[s] ELSE 2
       /\ prepare_commit_mutex' = IF plan.kind[s] = "xa" THEN prepare_commit_mutex ELSE s
       /\ plan.kind[s] # "xa" => prepare_commit_mutex = NoSession
       /\ UNCHANGED <<plan, outcome>>
   BY <1>13, LockPrepareCommitMoves DEF FateTypes, CounterTypes, fate_vars
 <2>2. plan.kind[s] \in {"binlog", "binlog_noxa", "xa"}
   BY <2>1 DEF PlanType, Kinds, Course, CourseOf
 <2>3. CASE plan.kind[s] = "xa"
   BY <2>1, <2>3 DEF MutexHeld, MutexHeldOf, OthersMutexKept, Committing, TwoPhaseKinds
 <2>4. CASE plan.kind[s] \in TwoPhaseKinds
   BY <2>1, <2>4, SrvConcAssumption DEF MutexHeldOf, OthersMutexKept, Committing, TwoPhaseKinds
 <2> QED BY <2>2, <2>3, <2>4 DEF TwoPhaseKinds
<1>14. ASSUME Prepare(s)
      PROVE  MutexHeldOf(s)' /\ OthersMutexKept(s)
  BY <1>14 DEF Prepare, AfterPrepare, AppendRedo, CounterTypes, MutexHeld, MutexHeldOf,
     OthersMutexKept, Course, CourseOf, FateTypes, Ending, TwoPhaseKinds, Committing
<1>15. ASSUME PrepareFlush(s)
      PROVE  MutexHeldOf(s)' /\ OthersMutexKept(s)
  BY <1>15 DEF PrepareFlush, AfterPrepare, WriteRedo, CounterTypes, MutexHeld, MutexHeldOf,
     OthersMutexKept, Course, CourseOf, FateTypes, Ending, TwoPhaseKinds, Committing
<1>16. ASSUME WriteBinlog(s)
      PROVE  MutexHeldOf(s)' /\ OthersMutexKept(s)
  BY <1>16 DEF WriteBinlog, CounterTypes, MutexHeld, MutexHeldOf, OthersMutexKept, Course, CourseOf,
     FateTypes, Ending, TwoPhaseKinds, Committing
<1>17. ASSUME StartCommit(s)
      PROVE  MutexHeldOf(s)' /\ OthersMutexKept(s)
 <2>1. CASE CommitWaits(s)
  <3>1. /\ pc[s] \in {"commit", "xa_prepared", "statement"}
        /\ pc[s] = "statement" => plan.kind[s] = "plain"
        /\ pc'[s] = "commit_wait" /\ UNCHANGED <<outcome, pos>>
        /\ FatesKept
    BY <1>17, <2>1, StartCommitMoves DEF CommitWaits, FateTypes, log_vars, lock_vars, fate_vars
  <3> QED
    BY <3>1 DEF CounterTypes, MutexHeld, MutexHeldOf, OthersMutexKept, Course, CourseOf, Ending,
       TwoPhaseKinds, Committing
 <2>2. CASE CommitStarts(s)
  <3>1. /\ pc[s] \in {"commit", "xa_prepared", "statement"}
        /\ pc[s] = "statement" => plan.kind[s] = "plain"
        /\ pc'[s] = "finish" /\ outcome'[s] = "committed" /\ pos'[s] = Len(binlog)
        /\ FatesKept
    BY ZenonT(60), <1>17, <2>2, StartCommitMoves DEF CommitStarts, FateTypes, CounterTypes,
       log_vars, lock_vars, fate_vars
  <3> QED
    BY <3>1 DEF CounterTypes, MutexHeld, MutexHeldOf, OthersMutexKept, Course, CourseOf, Ending,
       TwoPhaseKinds, Committing
 <2> QED BY <1>17, <2>1, <2>2, StartCommitMoves
<1>18. ASSUME StartRollback(s)
      PROVE  MutexHeldOf(s)' /\ OthersMutexKept(s)
 <2>1. /\ pc[s] \in {"statement", "xa_prepared"} /\ pc'[s] = "finish"
       /\ outcome'[s] = "rolledback"
       /\ UNCHANGED <<active_trans, prepare_commit_mutex, plan>>
   BY <1>18 DEF StartRollback, FateTypes
 <2> QED BY <2>1 DEF MutexHeld, MutexHeldOf, OthersMutexKept, Committing, Ending
<1>19. ASSUME Finish(s)
      PROVE  MutexHeldOf(s)' /\ OthersMutexKept(s)
  BY ZenonT(60), <1>19 DEF Finish, AppendRedo, CounterTypes, MutexHeld, MutexHeldOf,
     OthersMutexKept, Course, CourseOf, FateTypes, Ending, TwoPhaseKinds, Committing
<1>20. ASSUME FinishFlush(s)
      PROVE  MutexHeldOf(s)' /\ OthersMutexKept(s)
  BY ZenonT(60), <1>20 DEF FinishFlush, WriteRedo, CounterTypes, MutexHeld, MutexHeldOf,
     OthersMutexKept, Course, CourseOf, FateTypes, Ending, TwoPhaseKinds, Committing
<1>21. ASSUME EndOfCall(s)
      PROVE  MutexHeldOf(s)' /\ OthersMutexKept(s)
 <2>1. /\ pc[s] = "end" /\ pc'[s] = "done" /\ active_trans'[s] = 0
       /\ prepare_commit_mutex' = IF outcome[s] = "committed" /\ active_trans[s] = 2
                                  THEN NoSession ELSE prepare_commit_mutex
       /\ UNCHANGED <<plan, outcome>>
   BY <1>21, EndOfCallMoves DEF CounterTypes, fate_vars
 <2> QED BY <2>1, SrvConcAssumption DEF MutexHeld, MutexHeldOf, OthersMutexKept, Committing, Ending
<1>22. ASSUME SignalWaiter(s)
      PROVE  MutexHeldOf(s)' /\ OthersMutexKept(s)
  BY <1>22 DEF SignalWaiter, CounterTypes, MutexHeld, MutexHeldOf, OthersMutexKept, Course,
     CourseOf, FateTypes, Ending, TwoPhaseKinds, Committing
<1>23. ASSUME RecoverXid(s)
      PROVE  MutexHeldOf(s)' /\ OthersMutexKept(s)
  BY <1>23 DEF RecoverXid, EndByXid, AppendRedo, CounterTypes, MutexHeld, MutexHeldOf,
     OthersMutexKept, Course, CourseOf, FateTypes, Ending, TwoPhaseKinds, Committing
<1>24. ASSUME UserEndsXid(s)
      PROVE  MutexHeldOf(s)' /\ OthersMutexKept(s)
 <2>1. PICK type \in {"committed", "rolledback"} :
         EndByXid(s, type) /\ reply' = [reply EXCEPT ![s] = type]
   BY <1>24 DEF UserEndsXid
 <2> QED
   BY Zenon, <2>1 DEF EndByXid, AppendRedo, CounterTypes, MutexHeld, MutexHeldOf, OthersMutexKept,
      Course, CourseOf, FateTypes, Ending, TwoPhaseKinds, Committing
<1> QED
  BY <1>1, <1>2, <1>3, <1>4, <1>5, <1>6, <1>7, <1>8, <1>9, <1>10, <1>11, <1>12, <1>13, <1>14, <1>15,
       <1>16, <1>17, <1>18, <1>19, <1>20, <1>21, <1>22, <1>23, <1>24 DEF SessionStep, Continue

\* prepare_commit_mutex is held by who is between prepare and the end of its commit.
LEMMA MutexHeldStep ==
    ASSUME plan \in PlanType, FateTypes, CounterTypes, CommitsCounted, Course, MutexHeld,
           NEW s \in Sessions, SessionStep(s)
    PROVE  MutexHeld'
<1>1. MutexHeldOf(s)' /\ OthersMutexKept(s) BY MutexStep
<1>2. ASSUME NEW t \in Sessions \ {s}
      PROVE  MutexHeldOf(t)'
  BY <1>1, <1>2, OthersUntouched DEF Untouched, OthersMutexKept, MutexHeld, MutexHeldOf, Committing,
     Ending
<1> QED BY <1>1, <1>2 DEF MutexHeld

\* A step of a session keeps the binary log the log of those that commit.
LEMMA BinlogCourseStep ==
    ASSUME plan \in PlanType, FateTypes, CounterTypes, CommitsCounted, Course, LogTypes, BinlogCourse,
           NEW s \in Sessions, SessionStep(s)
    PROVE  BinlogCourse'
<1> USE DEF Step, At, sess_vars, lock_vars, commit_vars, log_vars, fate_vars, FatesKept
<1>1. ASSUME Begin(s)
      PROVE  BinlogCourseOf(s)'
  BY <1>1 DEF Begin, InBinlog, BinlogCourse, BinlogCourseOf, Course, CourseOf, FateTypes, Ending,
     TwoPhaseKinds, Committing
<1>2. ASSUME NextRow(s)
      PROVE  BinlogCourseOf(s)'
  BY <1>2 DEF NextRow, InBinlog, BinlogCourse, BinlogCourseOf, Course, CourseOf, FateTypes, Ending,
     TwoPhaseKinds, Committing
<1>3. ASSUME Enter(s)
      PROVE  BinlogCourseOf(s)'
 <2>1. /\ pc[s] \in {"enter", "enter_slept"} /\ pc'[s] \in {"inside", "queued"}
       /\ UNCHANGED <<outcome, pos>> /\ FatesKept
   BY <1>3, EnterMoves DEF FateTypes, log_vars, lock_vars, fate_vars, commit_vars
 <2> QED
   BY <2>1 DEF InBinlog, BinlogCourse, BinlogCourseOf, Course, CourseOf, Ending, TwoPhaseKinds,
      Committing
<1>4. ASSUME SleepOnce(s)
      PROVE  BinlogCourseOf(s)'
  BY <1>4 DEF SleepOnce, InBinlog, BinlogCourse, BinlogCourseOf, Course, CourseOf, FateTypes,
     Ending, TwoPhaseKinds, Committing
<1>5. ASSUME WakeInQueue(s)
      PROVE  BinlogCourseOf(s)'
  BY <1>5 DEF WakeInQueue, InBinlog, BinlogCourse, BinlogCourseOf, Course, CourseOf, FateTypes,
     Ending, TwoPhaseKinds, Committing
<1>6. ASSUME ReadRow(s)
      PROVE  BinlogCourseOf(s)'
  BY <1>6 DEF ReadRow, InBinlog, BinlogCourse, BinlogCourseOf, Course, CourseOf, FateTypes, Ending,
     TwoPhaseKinds, Committing
<1>7. ASSUME ChangeRow(s)
      PROVE  BinlogCourseOf(s)'
  BY <1>7 DEF ChangeRow, InBinlog, BinlogCourse, BinlogCourseOf, Course, CourseOf, FateTypes,
     Ending, TwoPhaseKinds, Committing
<1>8. ASSUME MustWait(s)
      PROVE  BinlogCourseOf(s)'
  BY <1>8 DEF MustWait, InBinlog, BinlogCourse, BinlogCourseOf, Course, CourseOf, FateTypes, Ending,
     TwoPhaseKinds, Committing
<1>9. ASSUME Suspend(s)
      PROVE  BinlogCourseOf(s)'
 <2>1. /\ pc[s] \in {"suspend"} /\ pc'[s] \in {"inside", "lock_wait"}
       /\ UNCHANGED <<outcome, pos>> /\ FatesKept
   BY <1>9, SuspendMoves DEF FateTypes, log_vars, lock_vars, fate_vars, commit_vars
 <2> QED
   BY <2>1 DEF InBinlog, BinlogCourse, BinlogCourseOf, Course, CourseOf, Ending, TwoPhaseKinds,
      Committing
<1>10. ASSUME LockWaitEnds(s)
      PROVE  BinlogCourseOf(s)'
  BY <1>10 DEF LockWaitEnds, InBinlog, BinlogCourse, BinlogCourseOf, Course, CourseOf, FateTypes,
     Ending, TwoPhaseKinds, Committing
<1>11. ASSUME EndStatement(s)
      PROVE  BinlogCourseOf(s)'
  BY <1>11 DEF EndStatement, InBinlog, BinlogCourse, BinlogCourseOf, Course, CourseOf, FateTypes,
     Ending, TwoPhaseKinds, Committing
<1>12. ASSUME CallPrepare(s)
      PROVE  BinlogCourseOf(s)'
  BY <1>12 DEF CallPrepare, InBinlog, BinlogCourse, BinlogCourseOf, Course, CourseOf, FateTypes,
     Ending, TwoPhaseKinds, Committing
<1>13. ASSUME LockPrepareCommit(s)
      PROVE  BinlogCourseOf(s)'
  BY <1>13, LockPrepareCommitMoves DEF InBinlog, BinlogCourse, BinlogCourseOf, Course, CourseOf,
     FateTypes, Ending, TwoPhaseKinds, Committing
<1>14. ASSUME Prepare(s)
      PROVE  BinlogCourseOf(s)'
  BY <1>14 DEF Prepare, AfterPrepare, AppendRedo, InBinlog, BinlogCourse, BinlogCourseOf, Course,
     CourseOf, FateTypes, Ending, TwoPhaseKinds, Committing
<1>15. ASSUME PrepareFlush(s)
      PROVE  BinlogCourseOf(s)'
  BY <1>15 DEF PrepareFlush, AfterPrepare, WriteRedo, InBinlog, BinlogCourse, BinlogCourseOf,
     Course, CourseOf, FateTypes, Ending, TwoPhaseKinds, Committing
<1>16. ASSUME WriteBinlog(s)
      PROVE  BinlogCourseOf(s)'
 <2>1. InBinlog(s)' BY <1>16, AppendProperties DEF WriteBinlog, InBinlog, Contains, LogTypes
 <2> QED BY <1>16, <2>1 DEF WriteBinlog, BinlogCourseOf, Course, CourseOf, FateTypes, TwoPhaseKinds
<1>17. ASSUME StartCommit(s)
      PROVE  BinlogCourseOf(s)'
 <2>1. CASE CommitWaits(s)
  <3>1. /\ pc[s] \in {"commit", "xa_prepared", "statement"}
        /\ pc[s] = "statement" => plan.kind[s] = "plain"
        /\ pc'[s] = "commit_wait" /\ UNCHANGED <<outcome, pos>>
        /\ FatesKept
    BY <1>17, <2>1, StartCommitMoves DEF CommitWaits, FateTypes, log_vars, lock_vars, fate_vars
  <3> QED
    BY <3>1 DEF InBinlog, BinlogCourse, BinlogCourseOf, Course, CourseOf, Ending, TwoPhaseKinds,
       Committing
 <2>2. CASE CommitStarts(s)
  <3>1. /\ pc[s] \in {"commit", "xa_prepared", "statement"}
        /\ pc[s] = "statement" => plan.kind[s] = "plain"
        /\ pc'[s] = "finish" /\ outcome'[s] = "committed" /\ pos'[s] = Len(binlog)
        /\ FatesKept
    BY <1>17, <2>2, StartCommitMoves DEF CommitStarts, FateTypes, CounterTypes, log_vars,
       lock_vars, fate_vars
  <3> QED
    BY <3>1 DEF InBinlog, BinlogCourse, BinlogCourseOf, Course, CourseOf, Ending, TwoPhaseKinds,
       Committing
 <2> QED BY <1>17, <2>1, <2>2, StartCommitMoves
<1>18. ASSUME StartRollback(s)
      PROVE  BinlogCourseOf(s)'
  BY <1>18 DEF StartRollback, InBinlog, BinlogCourse, BinlogCourseOf, Course, CourseOf, FateTypes,
     Ending, TwoPhaseKinds, Committing
<1>19. ASSUME Finish(s)
      PROVE  BinlogCourseOf(s)'
  BY <1>19 DEF Finish, AppendRedo, InBinlog, BinlogCourse, BinlogCourseOf, Course, CourseOf,
     FateTypes, Ending, TwoPhaseKinds, Committing
<1>20. ASSUME FinishFlush(s)
      PROVE  BinlogCourseOf(s)'
  BY <1>20 DEF FinishFlush, WriteRedo, InBinlog, BinlogCourse, BinlogCourseOf, Course, CourseOf,
     FateTypes, Ending, TwoPhaseKinds, Committing
<1>21. ASSUME EndOfCall(s)
      PROVE  BinlogCourseOf(s)'
  BY <1>21, EndOfCallMoves DEF InBinlog, BinlogCourse, BinlogCourseOf, Course, CourseOf, FateTypes,
     Ending, TwoPhaseKinds, Committing
<1>22. ASSUME SignalWaiter(s)
      PROVE  BinlogCourseOf(s)'
  BY <1>22 DEF SignalWaiter, InBinlog, BinlogCourse, BinlogCourseOf, Course, CourseOf, FateTypes,
     Ending, TwoPhaseKinds, Committing
<1>23. ASSUME RecoverXid(s)
      PROVE  BinlogCourseOf(s)'
  BY <1>23 DEF RecoverXid, EndByXid, AppendRedo, InBinlog, BinlogCourse, BinlogCourseOf, Course,
     CourseOf, FateTypes, Ending, TwoPhaseKinds, Committing
<1>24. ASSUME UserEndsXid(s)
      PROVE  BinlogCourseOf(s)'
 <2>1. PICK type \in {"committed", "rolledback"} :
         EndByXid(s, type) /\ reply' = [reply EXCEPT ![s] = type]
   BY <1>24 DEF UserEndsXid
 <2> QED
   BY <2>1 DEF EndByXid, AppendRedo, InBinlog, BinlogCourse, BinlogCourseOf, Course, CourseOf,
      FateTypes, Ending, TwoPhaseKinds, Committing
<1>25. ASSUME NEW t \in Sessions \ {s}
      PROVE  BinlogCourseOf(t)'
  BY LogMoves, OthersRecordsKept, OthersUntouched DEF RecordsKept, Untouched, BinlogCourse,
     BinlogCourseOf, Committing, Ending
<1> QED
  BY <1>1, <1>2, <1>3, <1>4, <1>5, <1>6, <1>7, <1>8, <1>9, <1>10, <1>11, <1>12, <1>13, <1>14, <1>15,
       <1>16, <1>17, <1>18, <1>19, <1>20, <1>21, <1>22, <1>23, <1>24, <1>25 DEF SessionStep,
       Continue, BinlogCourse

-----------------------------------------------------------------------------
(* The records and the binary log agree *)

\* The record appended is the last one, and decides on the state of its session.
LEMMA RecordAppended ==
    ASSUME LogTypes, NEW r \in RedoRecord, redo' = Append(redo, r)
    PROVE  /\ Len(redo) \in Nat /\ Len(redo') = Len(redo) + 1 /\ redo'[Len(redo')] = r
           /\ \A i \in 1 .. Len(redo) : redo'[i] = redo[i]
           /\ HasRecord(r.trx, Len(redo))'
           /\ LastIs(r.trx, Len(redo), r.type)'
           /\ StateIn(redo', Len(redo'), r.trx) = r.type
<1>1. /\ redo' \in Seq(RedoRecord) /\ Len(redo) \in Nat /\ Len(redo') = Len(redo) + 1
      /\ redo'[Len(redo')] = r
      /\ \A i \in 1 .. Len(redo) : redo'[i] = redo[i]
  BY AppendProperties DEF LogTypes
<1>2. HasRecord(r.trx, Len(redo))' /\ LastIs(r.trx, Len(redo), r.type)'
  BY <1>1 DEF HasRecord, LastIs
<1>3. StateIn(redo', Len(redo'), r.trx) = r.type
 <2>1. Len(redo') \in 0 .. Len(redo') /\ r.trx \in Sessions BY <1>1 DEF RedoRecord
 <2>2. \/ \A i \in 1 .. Len(redo') : redo'[i].trx # r.trx
       \/ \E i \in 1 .. Len(redo') :
              /\ redo'[i].trx = r.trx
              /\ \A j \in i + 1 .. Len(redo') : redo'[j].trx # r.trx
              /\ StateIn(redo', Len(redo'), r.trx) = redo'[i].type
  <3> DEFINE log == redo'
             n == Len(redo')
             t == r.trx
  <3>1. log \in Seq(RedoRecord) /\ n \in 0 .. Len(log) /\ t \in Sessions BY <1>1, <2>1
  <3> HIDE DEF log, n, t
  <3>2. \/ \A i \in 1 .. n : log[i].trx # t
        \/ \E i \in 1 .. n :
               /\ log[i].trx = t
               /\ \A j \in i + 1 .. n : log[j].trx # t
               /\ StateIn(log, n, t) = log[i].type
    BY <3>1, StateOfLastRecord
  <3> QED BY <3>2 DEF log, n, t
 <2> QED BY <1>1, <2>2
<1> QED BY <1>1, <1>2, <1>3

\* Recovery ends a prepared transaction the way the binary log says.
LEMMA EndByXidAgrees ==
    ASSUME FateTypes, LogTypes, Recovered, RecordsAgree, NEW s \in Sessions,
           NEW type \in {"committed", "rolledback"}, EndByXid(s, type),
           plan.kind[s] = "binlog" => type = IF InBinlog(s) THEN "committed" ELSE "rolledback"
    PROVE  RecordsAgreeOf(s)'
<1> DEFINE r == [type |-> type, trx |-> s, pos |-> 0]
<1>1. /\ r \in RedoRecord /\ r.trx = s /\ r.type = type
      /\ redo' = Append(redo, r)
  BY DEF EndByXid, AppendRedo, RedoRecord
<1> HIDE DEF r
<1>2. pc[s] = "dead" /\ conc_state[s] = "prepared" /\ UNCHANGED <<pc, wrote, binlog, plan>>
  BY DEF EndByXid, fate_vars
<1>3. /\ Len(redo') = Len(redo) + 1 /\ Len(redo) \in Nat /\ redo'[Len(redo')] = r
      /\ \A i \in 1 .. Len(redo) : redo'[i] = redo[i]
      /\ HasRecord(s, Len(redo))'
      /\ written' = Len(redo')
  BY <1>1, RecordAppended DEF EndByXid
<1>4. HasRecord(s, Len(redo))
 <2>1. Len(redo) \in 0 .. Len(redo) /\ redo \in Seq(RedoRecord) BY <1>3 DEF LogTypes
 <2>2. StateIn(redo, Len(redo), s) = "prepared" BY <1>2 DEF Recovered, RecoveredOf
 <2> QED BY <2>1, <2>2, StateOfLastRecord DEF HasRecord
<1>5. s \in wrote BY <1>4 DEF RecordsAgree, RecordsAgreeOf
<1>6. HasRecord(s, written)' BY <1>3
<1> QED BY <1>1, <1>2, <1>3, <1>5, <1>6 DEF RecordsAgree, RecordsAgreeOf, InBinlog

\* A step of a session keeps its records in agreement with the binary log.
LEMMA RecordsAgreeStep ==
    ASSUME FateTypes, CounterTypes, LogTypes, CommitsCounted, Course, MutexHeld, BinlogCourse, Recovered, RecordsAgree,
           NEW s \in Sessions, SessionStep(s)
    PROVE  RecordsAgree'
<1> USE DEF Step, At, sess_vars, lock_vars, commit_vars, log_vars, fate_vars, FatesKept
<1>1. ASSUME Begin(s)
      PROVE  RecordsAgreeOf(s)'
  BY <1>1 DEF Begin, RecordsAgree, RecordsAgreeOf, HasRecord, InBinlog, FateTypes, Ending,
     TwoPhaseKinds, Committing, BinlogCourse, BinlogCourseOf, Course, CourseOf
<1>2. ASSUME NextRow(s)
      PROVE  RecordsAgreeOf(s)'
  BY <1>2 DEF NextRow, RecordsAgree, RecordsAgreeOf, HasRecord, InBinlog, FateTypes, Ending,
     TwoPhaseKinds, Committing, BinlogCourse, BinlogCourseOf, Course, CourseOf
<1>3. ASSUME Enter(s)
      PROVE  RecordsAgreeOf(s)'
 <2>1. /\ pc[s] \in {"enter", "enter_slept"} /\ pc'[s] \in {"inside", "queued"}
       /\ UNCHANGED <<outcome, pos>> /\ FatesKept
   BY <1>3, EnterMoves DEF FateTypes, log_vars, lock_vars, fate_vars, commit_vars
 <2> QED
   BY <2>1 DEF RecordsAgree, RecordsAgreeOf, HasRecord, InBinlog, Ending, TwoPhaseKinds,
      Committing, BinlogCourse, BinlogCourseOf, Course, CourseOf
<1>4. ASSUME SleepOnce(s)
      PROVE  RecordsAgreeOf(s)'
  BY <1>4 DEF SleepOnce, RecordsAgree, RecordsAgreeOf, HasRecord, InBinlog, FateTypes, Ending,
     TwoPhaseKinds, Committing, BinlogCourse, BinlogCourseOf, Course, CourseOf
<1>5. ASSUME WakeInQueue(s)
      PROVE  RecordsAgreeOf(s)'
  BY <1>5 DEF WakeInQueue, RecordsAgree, RecordsAgreeOf, HasRecord, InBinlog, FateTypes, Ending,
     TwoPhaseKinds, Committing, BinlogCourse, BinlogCourseOf, Course, CourseOf
<1>6. ASSUME ReadRow(s)
      PROVE  RecordsAgreeOf(s)'
  BY <1>6 DEF ReadRow, RecordsAgree, RecordsAgreeOf, HasRecord, InBinlog, FateTypes, Ending,
     TwoPhaseKinds, Committing, BinlogCourse, BinlogCourseOf, Course, CourseOf
<1>7. ASSUME ChangeRow(s)
      PROVE  RecordsAgreeOf(s)'
  BY <1>7 DEF ChangeRow, RecordsAgree, RecordsAgreeOf, HasRecord, InBinlog, FateTypes, Ending,
     TwoPhaseKinds, Committing, BinlogCourse, BinlogCourseOf, Course, CourseOf
<1>8. ASSUME MustWait(s)
      PROVE  RecordsAgreeOf(s)'
  BY <1>8 DEF MustWait, RecordsAgree, RecordsAgreeOf, HasRecord, InBinlog, FateTypes, Ending,
     TwoPhaseKinds, Committing, BinlogCourse, BinlogCourseOf, Course, CourseOf
<1>9. ASSUME Suspend(s)
      PROVE  RecordsAgreeOf(s)'
 <2>1. /\ pc[s] \in {"suspend"} /\ pc'[s] \in {"inside", "lock_wait"}
       /\ UNCHANGED <<outcome, pos>> /\ FatesKept
   BY <1>9, SuspendMoves DEF FateTypes, log_vars, lock_vars, fate_vars, commit_vars
 <2> QED
   BY <2>1 DEF RecordsAgree, RecordsAgreeOf, HasRecord, InBinlog, Ending, TwoPhaseKinds,
      Committing, BinlogCourse, BinlogCourseOf, Course, CourseOf
<1>10. ASSUME LockWaitEnds(s)
      PROVE  RecordsAgreeOf(s)'
  BY <1>10 DEF LockWaitEnds, RecordsAgree, RecordsAgreeOf, HasRecord, InBinlog, FateTypes, Ending,
     TwoPhaseKinds, Committing, BinlogCourse, BinlogCourseOf, Course, CourseOf
<1>11. ASSUME EndStatement(s)
      PROVE  RecordsAgreeOf(s)'
  BY <1>11 DEF EndStatement, RecordsAgree, RecordsAgreeOf, HasRecord, InBinlog, FateTypes, Ending,
     TwoPhaseKinds, Committing, BinlogCourse, BinlogCourseOf, Course, CourseOf
<1>12. ASSUME CallPrepare(s)
      PROVE  RecordsAgreeOf(s)'
  BY <1>12 DEF CallPrepare, RecordsAgree, RecordsAgreeOf, HasRecord, InBinlog, FateTypes, Ending,
     TwoPhaseKinds, Committing, BinlogCourse, BinlogCourseOf, Course, CourseOf
<1>13. ASSUME LockPrepareCommit(s)
      PROVE  RecordsAgreeOf(s)'
  BY <1>13, LockPrepareCommitMoves DEF RecordsAgree, RecordsAgreeOf, HasRecord, InBinlog, FateTypes,
     Ending, TwoPhaseKinds, Committing, BinlogCourse, BinlogCourseOf, Course, CourseOf
<1>14. ASSUME Prepare(s)
      PROVE  RecordsAgreeOf(s)'
 <2>1. /\ pc[s] = "prepare" /\ pc'[s] \in {"prepare_flush", "binlog", "xa_prepared"}
       /\ pc'[s] \in {"prepare_flush"} <=> s \in wrote
       /\ UNCHANGED <<wrote, binlog, plan, written>>
   BY <1>14 DEF Prepare, AfterPrepare, FateTypes
 <2>2. ~ InBinlog(s) BY <2>1 DEF BinlogCourse, BinlogCourseOf, Ending
 <2>3. CASE s \in wrote
  <3> DEFINE r == [type |-> "prepared", trx |-> s, pos |-> 0]
  <3>1. r \in RedoRecord /\ r.trx = s /\ r.type = "prepared" /\ redo' = Append(redo, r)
    BY <1>14, <2>3 DEF Prepare, AppendRedo, RedoRecord
  <3> HIDE DEF r
  <3>2. /\ Len(redo') = Len(redo) + 1 /\ Len(redo) \in Nat /\ redo'[Len(redo')] = r
        /\ \A i \in 1 .. Len(redo) : redo'[i] = redo[i]
        /\ HasRecord(s, Len(redo))'
    BY <3>1, RecordAppended
  <3> QED BY <2>1, <2>2, <2>3, <3>1, <3>2 DEF RecordsAgree, RecordsAgreeOf, InBinlog
 <2>4. CASE s \notin wrote
  <3>1. redo' = redo BY <1>14, <2>4 DEF Prepare
  <3> QED BY <2>1, <2>2, <2>4, <3>1 DEF RecordsAgree, RecordsAgreeOf, HasRecord, InBinlog
 <2> QED BY <2>3, <2>4
<1>15. ASSUME PrepareFlush(s)
      PROVE  RecordsAgreeOf(s)'
  BY <1>15 DEF PrepareFlush, AfterPrepare, WriteRedo, RecordsAgree, RecordsAgreeOf, HasRecord,
     InBinlog, FateTypes, Ending, TwoPhaseKinds, Committing, BinlogCourse, BinlogCourseOf, Course,
     CourseOf
<1>16. ASSUME WriteBinlog(s)
      PROVE  RecordsAgreeOf(s)'
 <2>1. /\ pc[s] = "binlog" /\ pc'[s] = "commit"
       /\ UNCHANGED <<wrote, redo, written, plan>>
   BY <1>16 DEF WriteBinlog, FateTypes
 <2> QED BY <2>1 DEF RecordsAgree, RecordsAgreeOf, HasRecord
<1>17. ASSUME StartCommit(s)
      PROVE  RecordsAgreeOf(s)'
 <2>1. CASE CommitWaits(s)
  <3>1. /\ pc[s] \in {"commit", "xa_prepared", "statement"}
        /\ pc[s] = "statement" => plan.kind[s] = "plain"
        /\ pc'[s] = "commit_wait" /\ UNCHANGED <<outcome, pos>>
        /\ FatesKept
    BY <1>17, <2>1, StartCommitMoves DEF CommitWaits, FateTypes, log_vars, lock_vars, fate_vars
  <3> QED
    BY <3>1 DEF RecordsAgree, RecordsAgreeOf, HasRecord, InBinlog, Ending, TwoPhaseKinds,
       Committing, BinlogCourse, BinlogCourseOf, Course, CourseOf
 <2>2. CASE CommitStarts(s)
  <3>1. /\ pc[s] \in {"commit", "xa_prepared", "statement"}
        /\ pc[s] = "statement" => plan.kind[s] = "plain"
        /\ pc'[s] = "finish" /\ outcome'[s] = "committed" /\ pos'[s] = Len(binlog)
        /\ FatesKept
    BY Zenon, <1>17, <2>2, StartCommitMoves DEF CommitStarts, FateTypes, CounterTypes, log_vars,
       lock_vars, fate_vars
  <3> QED
    BY <3>1 DEF RecordsAgree, RecordsAgreeOf, HasRecord, InBinlog, Ending, TwoPhaseKinds,
       Committing, BinlogCourse, BinlogCourseOf, Course, CourseOf
 <2> QED BY <1>17, <2>1, <2>2, StartCommitMoves
<1>18. ASSUME StartRollback(s)
      PROVE  RecordsAgreeOf(s)'
  BY <1>18 DEF StartRollback, RecordsAgree, RecordsAgreeOf, HasRecord, InBinlog, FateTypes, Ending,
     TwoPhaseKinds, Committing, BinlogCourse, BinlogCourseOf, Course, CourseOf
<1>19. ASSUME Finish(s)
      PROVE  RecordsAgreeOf(s)'
 <2>1. /\ pc[s] = "finish" /\ pc'[s] = "finish_flush"
       /\ UNCHANGED <<wrote, binlog, plan, written>>
   BY <1>19 DEF Finish, FateTypes
 <2>2. outcome[s] = (IF InBinlog(s) THEN "committed" ELSE "rolledback") \/ plan.kind[s] # "binlog"
   BY Zenon, <2>1 DEF BinlogCourse, BinlogCourseOf, Committing, Ending, TwoPhaseKinds, Course,
      CourseOf, FateTypes
 <2>3. CASE s \in wrote
  <3> DEFINE r == [type |-> outcome[s], trx |-> s, pos |-> pos[s]]
  <3>1. r \in RedoRecord /\ r.trx = s /\ r.type = outcome[s] /\ redo' = Append(redo, r)
    BY <1>19, <2>1, <2>3 DEF Finish, AppendRedo, RedoRecord, FateTypes, CounterTypes, Course,
       CourseOf, Ending
  <3> HIDE DEF r
  <3>2. /\ Len(redo') = Len(redo) + 1 /\ Len(redo) \in Nat /\ redo'[Len(redo')] = r
        /\ \A i \in 1 .. Len(redo) : redo'[i] = redo[i]
        /\ HasRecord(s, Len(redo))' /\ written \in 0 .. Len(redo)
    BY <3>1, RecordAppended DEF LogTypes
  <3>3. \A n \in 0 .. Len(redo) : HasRecord(s, n) => HasRecord(s, n)' BY <3>2 DEF HasRecord
  <3> QED BY <2>1, <2>2, <2>3, <3>1, <3>2, <3>3 DEF RecordsAgree, RecordsAgreeOf, InBinlog
 <2>4. CASE s \notin wrote
  <3>1. redo' = redo BY <1>19, <2>4 DEF Finish
  <3> QED BY <2>1, <2>2, <2>4, <3>1 DEF RecordsAgree, RecordsAgreeOf, HasRecord, InBinlog
 <2> QED BY <2>3, <2>4
<1>20. ASSUME FinishFlush(s)
      PROVE  RecordsAgreeOf(s)'
 <2>1. /\ pc[s] = "finish_flush" /\ pc'[s] = "end"
       /\ written' \in {written, Len(redo)}
       /\ UNCHANGED <<wrote, redo, binlog, plan>>
   BY <1>20 DEF FinishFlush, WriteRedo, FateTypes
 <2>2. HasRecord(s, written) => HasRecord(s, written)' BY <2>1 DEF HasRecord, LogTypes
 <2> QED BY <2>1, <2>2 DEF RecordsAgree, RecordsAgreeOf, HasRecord, InBinlog
<1>21. ASSUME EndOfCall(s)
      PROVE  RecordsAgreeOf(s)'
  BY <1>21, EndOfCallMoves DEF RecordsAgree, RecordsAgreeOf, HasRecord, InBinlog, FateTypes, Ending,
     TwoPhaseKinds, Committing, BinlogCourse, BinlogCourseOf, Course, CourseOf
<1>22. ASSUME SignalWaiter(s)
      PROVE  RecordsAgreeOf(s)'
  BY <1>22 DEF SignalWaiter, RecordsAgree, RecordsAgreeOf, HasRecord, InBinlog, FateTypes, Ending,
     TwoPhaseKinds, Committing, BinlogCourse, BinlogCourseOf, Course, CourseOf
<1>23. ASSUME RecoverXid(s)
      PROVE  RecordsAgreeOf(s)'
 <2>1. EndByXid(s, IF InBinlog(s) THEN "committed" ELSE "rolledback")
   BY <1>23 DEF RecoverXid, InBinlog
 <2> QED BY <2>1, EndByXidAgrees
<1>24. ASSUME UserEndsXid(s)
      PROVE  RecordsAgreeOf(s)'
 <2>1. PICK type \in {"committed", "rolledback"} : EndByXid(s, type) BY <1>24 DEF UserEndsXid
 <2>2. plan.kind[s] = "xa" BY <1>24 DEF UserEndsXid
 <2> QED BY <2>1, <2>2, EndByXidAgrees
<1>25. ASSUME NEW t \in Sessions \ {s}
      PROVE  RecordsAgreeOf(t)'
 <2>1. Untouched(t) /\ RecordsKept(t) /\ LogKept
   BY <1>25, LogMoves, LogTypesStep, OthersRecordsKept, OthersUntouched
 <2> DEFINE n == Len(redo)  m == Len(redo')
 <2>a. /\ n \in Nat /\ m \in Nat /\ n <= m
       /\ \A i \in 1 .. n : redo'[i] = redo[i]
       /\ \A i \in 1 .. m : redo'[i].trx = t => i \in 1 .. n /\ redo'[i] = redo[i]
   BY <2>1 DEF LogKept, RecordsKept
 <2>2. HasRecord(t, Len(redo))' <=> HasRecord(t, Len(redo))
  <3> HIDE DEF n, m
  <3>1. (\E i \in 1 .. m : redo'[i].trx = t) <=> (\E i \in 1 .. n : redo[i].trx = t) BY <2>a
  <3> QED BY <3>1 DEF HasRecord, n, m
 <2>3. HasRecord(t, written) => HasRecord(t, written)' BY <2>1 DEF LogKept, HasRecord
 <2>4. \A i \in 1 .. Len(redo') : redo'[i].trx = t => i \in 1 .. Len(redo) /\ redo'[i] = redo[i]
   BY <2>1 DEF LogKept, RecordsKept
 <2> QED BY <2>1, <2>2, <2>3, <2>4 DEF Untouched, RecordsKept, RecordsAgree, RecordsAgreeOf
<1> QED
  BY <1>1, <1>2, <1>3, <1>4, <1>5, <1>6, <1>7, <1>8, <1>9, <1>10, <1>11, <1>12, <1>13, <1>14, <1>15,
       <1>16, <1>17, <1>18, <1>19, <1>20, <1>21, <1>22, <1>23, <1>24, <1>25 DEF SessionStep,
       Continue, RecordsAgree

-----------------------------------------------------------------------------
(* Recovery, and what the clients know *)

\* What is ended by its XID is not prepared any more, and that is in the log.
LEMMA EndByXidRecovers ==
    ASSUME FateTypes, LogTypes, NEW s \in Sessions,
           NEW type \in {"committed", "rolledback"}, EndByXid(s, type)
    PROVE  RecoveredOf(s)' /\ LastIs(s, written, type)' /\ conc_state[s] = "prepared" /\ pc[s] = "dead"
<1> DEFINE r == [type |-> type, trx |-> s, pos |-> 0]
<1>1. /\ r \in RedoRecord /\ r.trx = s /\ r.type = type
      /\ redo' = Append(redo, r)
  BY DEF EndByXid, AppendRedo, RedoRecord
<1> HIDE DEF r
<1>2. conc_state'[s] = "not_started" /\ conc_state[s] = "prepared" /\ pc[s] = "dead"
  BY DEF EndByXid, FateTypes
<1>3. StateIn(redo', Len(redo'), s) = type /\ LastIs(s, Len(redo), type)' /\ Len(redo') = written'
  BY <1>1, RecordAppended DEF EndByXid
<1>4. LastIs(s, written, type)' BY <1>3 DEF LastIs
<1> QED BY <1>2, <1>3, <1>4 DEF RecoveredOf

\* A step of a session keeps the dead ones as recovery has found them.
LEMMA RecoveredStep ==
    ASSUME FateTypes, CounterTypes, LogTypes, CommitsCounted, Course, Recovered,
           NEW s \in Sessions, SessionStep(s)
    PROVE  Recovered'
<1> USE DEF Step, At, sess_vars, lock_vars, commit_vars, log_vars, fate_vars, FatesKept
<1>1. ASSUME Begin(s)
      PROVE  RecoveredOf(s)'
  BY <1>1 DEF Begin, FateTypes, Recovered, RecoveredOf
<1>2. ASSUME NextRow(s)
      PROVE  RecoveredOf(s)'
  BY <1>2 DEF NextRow, FateTypes, Recovered, RecoveredOf
<1>3. ASSUME Enter(s)
      PROVE  RecoveredOf(s)'
 <2>1. /\ pc[s] \in {"enter", "enter_slept"} /\ pc'[s] \in {"inside", "queued"}
       /\ UNCHANGED <<outcome, pos>> /\ FatesKept
   BY <1>3, EnterMoves DEF FateTypes, log_vars, lock_vars, fate_vars, commit_vars
 <2> QED BY <2>1 DEF Recovered, RecoveredOf
<1>4. ASSUME SleepOnce(s)
      PROVE  RecoveredOf(s)'
  BY <1>4 DEF SleepOnce, FateTypes, Recovered, RecoveredOf
<1>5. ASSUME WakeInQueue(s)
      PROVE  RecoveredOf(s)'
  BY <1>5 DEF WakeInQueue, FateTypes, Recovered, RecoveredOf
<1>6. ASSUME ReadRow(s)
      PROVE  RecoveredOf(s)'
  BY <1>6 DEF ReadRow, FateTypes, Recovered, RecoveredOf
<1>7. ASSUME ChangeRow(s)
      PROVE  RecoveredOf(s)'
  BY <1>7 DEF ChangeRow, FateTypes, Recovered, RecoveredOf
<1>8. ASSUME MustWait(s)
      PROVE  RecoveredOf(s)'
  BY <1>8 DEF MustWait, FateTypes, Recovered, RecoveredOf
<1>9. ASSUME Suspend(s)
      PROVE  RecoveredOf(s)'
 <2>1. /\ pc[s] \in {"suspend"} /\ pc'[s] \in {"inside", "lock_wait"}
       /\ UNCHANGED <<outcome, pos>> /\ FatesKept
   BY <1>9, SuspendMoves DEF FateTypes, log_vars, lock_vars, fate_vars, commit_vars
 <2> QED BY <2>1 DEF Recovered, RecoveredOf
<1>10. ASSUME LockWaitEnds(s)
      PROVE  RecoveredOf(s)'
  BY <1>10 DEF LockWaitEnds, FateTypes, Recovered, RecoveredOf
<1>11. ASSUME EndStatement(s)
      PROVE  RecoveredOf(s)'
  BY <1>11 DEF EndStatement, Recovered, RecoveredOf
<1>12. ASSUME CallPrepare(s)
      PROVE  RecoveredOf(s)'
  BY <1>12 DEF CallPrepare, FateTypes, Recovered, RecoveredOf
<1>13. ASSUME LockPrepareCommit(s)
      PROVE  RecoveredOf(s)'
  BY <1>13, LockPrepareCommitMoves DEF FateTypes, Recovered, RecoveredOf
<1>14. ASSUME Prepare(s)
      PROVE  RecoveredOf(s)'
  BY <1>14 DEF Prepare, AfterPrepare, AppendRedo, FateTypes, Recovered, RecoveredOf
<1>15. ASSUME PrepareFlush(s)
      PROVE  RecoveredOf(s)'
  BY <1>15 DEF PrepareFlush, AfterPrepare, WriteRedo, FateTypes, Recovered, RecoveredOf
<1>16. ASSUME WriteBinlog(s)
      PROVE  RecoveredOf(s)'
  BY <1>16 DEF WriteBinlog, FateTypes, Recovered, RecoveredOf
<1>17. ASSUME StartCommit(s)
      PROVE  RecoveredOf(s)'
 <2>1. CASE CommitWaits(s)
  <3>1. /\ pc[s] \in {"commit", "xa_prepared", "statement"}
        /\ pc[s] = "statement" => plan.kind[s] = "plain"
        /\ pc'[s] = "commit_wait" /\ UNCHANGED <<outcome, pos>>
        /\ FatesKept
    BY <1>17, <2>1, StartCommitMoves DEF CommitWaits, FateTypes, log_vars, lock_vars, fate_vars
  <3> QED BY <3>1 DEF Recovered, RecoveredOf
 <2>2. CASE CommitStarts(s)
  <3>1. /\ pc[s] \in {"commit", "xa_prepared", "statement"}
        /\ pc[s] = "statement" => plan.kind[s] = "plain"
        /\ pc'[s] = "finish" /\ outcome'[s] = "committed" /\ pos'[s] = Len(binlog)
        /\ FatesKept
    BY <1>17, <2>2, StartCommitMoves DEF CommitStarts, FateTypes, CounterTypes, log_vars,
       lock_vars, fate_vars
  <3> QED BY <3>1 DEF Recovered, RecoveredOf
 <2> QED BY <1>17, <2>1, <2>2, StartCommitMoves
<1>18. ASSUME StartRollback(s)
      PROVE  RecoveredOf(s)'
  BY <1>18 DEF StartRollback, FateTypes, Recovered, RecoveredOf
<1>19. ASSUME Finish(s)
      PROVE  RecoveredOf(s)'
  BY <1>19 DEF Finish, AppendRedo, FateTypes, Recovered, RecoveredOf
<1>20. ASSUME FinishFlush(s)
      PROVE  RecoveredOf(s)'
  BY <1>20 DEF FinishFlush, WriteRedo, FateTypes, Recovered, RecoveredOf
<1>21. ASSUME EndOfCall(s)
      PROVE  RecoveredOf(s)'
  BY <1>21, EndOfCallMoves DEF FateTypes, Recovered, RecoveredOf
<1>22. ASSUME SignalWaiter(s)
      PROVE  RecoveredOf(s)'
  BY <1>22 DEF SignalWaiter, Recovered, RecoveredOf
<1>23. ASSUME RecoverXid(s)
      PROVE  RecoveredOf(s)'
 <2>1. PICK type \in {"committed", "rolledback"} : EndByXid(s, type) BY <1>23 DEF RecoverXid
 <2> QED BY <2>1, EndByXidRecovers
<1>24. ASSUME UserEndsXid(s)
      PROVE  RecoveredOf(s)'
 <2>1. PICK type \in {"committed", "rolledback"} : EndByXid(s, type) BY <1>24 DEF UserEndsXid
 <2> QED BY <2>1, EndByXidRecovers
<1>25. ASSUME NEW t \in Sessions \ {s}
      PROVE  RecoveredOf(t)'
 <2>1. Untouched(t) /\ RecordsKept(t)
   BY <1>25, LogMoves, LogTypesStep, OthersRecordsKept, OthersUntouched
 <2> QED BY <2>1 DEF Untouched, RecordsKept, Recovered, RecoveredOf
<1> QED
  BY <1>1, <1>2, <1>3, <1>4, <1>5, <1>6, <1>7, <1>8, <1>9, <1>10, <1>11, <1>12, <1>13, <1>14, <1>15,
       <1>16, <1>17, <1>18, <1>19, <1>20, <1>21, <1>22, <1>23, <1>24, <1>25 DEF SessionStep,
       Continue, Recovered

\* A step of a session tells its client only what the redo log has on disk.
LEMMA RepliesRecordedStep ==
    ASSUME FateTypes, CounterTypes, LogTypes, CommitsCounted, Course, RecordsAgree, RepliesRecorded,
           NEW s \in Sessions, SessionStep(s)
    PROVE  RepliesRecorded'
<1> USE DEF Step, At, sess_vars, lock_vars, commit_vars, log_vars, fate_vars, FatesKept
<1>1. ASSUME Begin(s)
      PROVE  RepliesRecordedOf(s)'
  BY <1>1 DEF Begin, RepliesRecorded, RepliesRecordedOf, HasRecord, LastIs, FateTypes, Ending,
     Course, CourseOf
<1>2. ASSUME NextRow(s)
      PROVE  RepliesRecordedOf(s)'
  BY <1>2 DEF NextRow, RepliesRecorded, RepliesRecordedOf, HasRecord, LastIs, FateTypes, Ending,
     Course, CourseOf
<1>3. ASSUME Enter(s)
      PROVE  RepliesRecordedOf(s)'
 <2>1. /\ pc[s] \in {"enter", "enter_slept"} /\ pc'[s] \in {"inside", "queued"}
       /\ UNCHANGED <<outcome, pos>> /\ FatesKept
   BY <1>3, EnterMoves DEF FateTypes, log_vars, lock_vars, fate_vars, commit_vars
 <2> QED
   BY <2>1 DEF RepliesRecorded, RepliesRecordedOf, HasRecord, LastIs, Ending, Course, CourseOf
<1>4. ASSUME SleepOnce(s)
      PROVE  RepliesRecordedOf(s)'
  BY <1>4 DEF SleepOnce, RepliesRecorded, RepliesRecordedOf, HasRecord, LastIs, FateTypes, Ending,
     Course, CourseOf
<1>5. ASSUME WakeInQueue(s)
      PROVE  RepliesRecordedOf(s)'
  BY <1>5 DEF WakeInQueue, RepliesRecorded, RepliesRecordedOf, HasRecord, LastIs, FateTypes, Ending,
     Course, CourseOf
<1>6. ASSUME ReadRow(s)
      PROVE  RepliesRecordedOf(s)'
  BY <1>6 DEF ReadRow, RepliesRecorded, RepliesRecordedOf, HasRecord, LastIs, FateTypes, Ending,
     Course, CourseOf
<1>7. ASSUME ChangeRow(s)
      PROVE  RepliesRecordedOf(s)'
  BY <1>7 DEF ChangeRow, RepliesRecorded, RepliesRecordedOf, HasRecord, LastIs, FateTypes, Ending,
     Course, CourseOf
<1>8. ASSUME MustWait(s)
      PROVE  RepliesRecordedOf(s)'
  BY <1>8 DEF MustWait, RepliesRecorded, RepliesRecordedOf, HasRecord, LastIs, FateTypes, Ending,
     Course, CourseOf
<1>9. ASSUME Suspend(s)
      PROVE  RepliesRecordedOf(s)'
 <2>1. /\ pc[s] \in {"suspend"} /\ pc'[s] \in {"inside", "lock_wait"}
       /\ UNCHANGED <<outcome, pos>> /\ FatesKept
   BY <1>9, SuspendMoves DEF FateTypes, log_vars, lock_vars, fate_vars, commit_vars
 <2> QED
   BY <2>1 DEF RepliesRecorded, RepliesRecordedOf, HasRecord, LastIs, Ending, Course, CourseOf
<1>10. ASSUME LockWaitEnds(s)
      PROVE  RepliesRecordedOf(s)'
  BY <1>10 DEF LockWaitEnds, RepliesRecorded, RepliesRecordedOf, HasRecord, LastIs, FateTypes,
     Ending, Course, CourseOf
<1>11. ASSUME EndStatement(s)
      PROVE  RepliesRecordedOf(s)'
  BY <1>11 DEF EndStatement, RepliesRecorded, RepliesRecordedOf, HasRecord, LastIs
<1>12. ASSUME CallPrepare(s)
      PROVE  RepliesRecordedOf(s)'
  BY <1>12 DEF CallPrepare, RepliesRecorded, RepliesRecordedOf, HasRecord, LastIs, FateTypes,
     Ending, Course, CourseOf
<1>13. ASSUME LockPrepareCommit(s)
      PROVE  RepliesRecordedOf(s)'
  BY <1>13, LockPrepareCommitMoves DEF RepliesRecorded, RepliesRecordedOf, HasRecord, LastIs,
     FateTypes, Ending, Course, CourseOf
<1>14. ASSUME Prepare(s)
      PROVE  RepliesRecordedOf(s)'
 <2>1. /\ pc[s] = "prepare" /\ pc'[s] \in {"prepare_flush", "binlog", "xa_prepared"}
       /\ reply[s] = "none"
       /\ s \in wrote => reply' = reply
       /\ UNCHANGED wrote
   BY <1>14 DEF Prepare, AfterPrepare, FateTypes, Course, CourseOf, Ending
 <2> QED BY <2>1 DEF RepliesRecordedOf
<1>15. ASSUME PrepareFlush(s)
      PROVE  RepliesRecordedOf(s)'
 <2>1. /\ pc[s] = "prepare_flush" /\ pc'[s] \in {"binlog", "xa_prepared"}
       /\ reply'[s] \in {"none", "prepared"} /\ written' = Len(redo)
       /\ UNCHANGED <<wrote, redo>>
   BY <1>15 DEF PrepareFlush, AfterPrepare, WriteRedo, FateTypes, Course, CourseOf, Ending
 <2> QED BY <2>1 DEF RepliesRecordedOf, RecordsAgree, RecordsAgreeOf, HasRecord
<1>16. ASSUME WriteBinlog(s)
      PROVE  RepliesRecordedOf(s)'
  BY <1>16 DEF WriteBinlog, RepliesRecorded, RepliesRecordedOf, HasRecord, LastIs, FateTypes,
     Ending, Course, CourseOf
<1>17. ASSUME StartCommit(s)
      PROVE  RepliesRecordedOf(s)'
 <2>1. CASE CommitWaits(s)
  <3>1. /\ pc[s] \in {"commit", "xa_prepared", "statement"}
        /\ pc[s] = "statement" => plan.kind[s] = "plain"
        /\ pc'[s] = "commit_wait" /\ UNCHANGED <<outcome, pos>>
        /\ FatesKept
    BY <1>17, <2>1, StartCommitMoves DEF CommitWaits, FateTypes, log_vars, lock_vars, fate_vars
  <3> QED
    BY <3>1 DEF RepliesRecorded, RepliesRecordedOf, HasRecord, LastIs, Ending, Course, CourseOf
 <2>2. CASE CommitStarts(s)
  <3>1. /\ pc[s] \in {"commit", "xa_prepared", "statement"}
        /\ pc[s] = "statement" => plan.kind[s] = "plain"
        /\ pc'[s] = "finish" /\ outcome'[s] = "committed" /\ pos'[s] = Len(binlog)
        /\ FatesKept
    BY <1>17, <2>2, StartCommitMoves DEF CommitStarts, FateTypes, CounterTypes, log_vars,
       lock_vars, fate_vars
  <3> QED
    BY <3>1 DEF RepliesRecorded, RepliesRecordedOf, HasRecord, LastIs, Ending, Course, CourseOf
 <2> QED BY <1>17, <2>1, <2>2, StartCommitMoves
<1>18. ASSUME StartRollback(s)
      PROVE  RepliesRecordedOf(s)'
  BY <1>18 DEF StartRollback, RepliesRecorded, RepliesRecordedOf, HasRecord, LastIs, FateTypes,
     Ending, Course, CourseOf
<1>19. ASSUME Finish(s)
      PROVE  RepliesRecordedOf(s)'
 <2>1. /\ pc[s] = "finish" /\ pc'[s] = "finish_flush"
       /\ reply[s] \in {"none", "prepared"} /\ UNCHANGED <<wrote, reply, outcome, written>>
   BY <1>19 DEF Finish, FateTypes, Course, CourseOf, Ending
 <2>3. CASE s \in wrote
  <3> DEFINE r == [type |-> outcome[s], trx |-> s, pos |-> pos[s]]
  <3>1. r \in RedoRecord /\ r.trx = s /\ r.type = outcome[s] /\ redo' = Append(redo, r)
    BY <1>19, <2>1, <2>3 DEF Finish, AppendRedo, RedoRecord, FateTypes, CounterTypes, Course,
       CourseOf, Ending
  <3> HIDE DEF r
  <3>2. LastIs(s, Len(redo), outcome[s])' BY <2>1, <3>1, RecordAppended DEF LastIs
  <3>3. HasRecord(s, written) => HasRecord(s, written)'
    BY <2>1, <3>1, RecordAppended DEF HasRecord, LogTypes
  <3> QED BY <2>1, <3>2, <3>3 DEF RepliesRecorded, RepliesRecordedOf
 <2>4. CASE s \notin wrote BY <2>1, <2>4 DEF RepliesRecordedOf
 <2> QED BY <2>3, <2>4
<1>20. ASSUME FinishFlush(s)
      PROVE  RepliesRecordedOf(s)'
 <2>1. /\ pc[s] = "finish_flush" /\ pc'[s] = "end"
       /\ s \in wrote => written' = Len(redo)
       /\ reply[s] \in {"none", "prepared"}
       /\ UNCHANGED <<wrote, redo, outcome, reply>>
   BY <1>20 DEF FinishFlush, WriteRedo, FateTypes, Course, CourseOf, Ending
 <2>2. s \in wrote => (LastIs(s, Len(redo), outcome[s]) <=> LastIs(s, written, outcome[s])')
   BY <2>1 DEF LastIs
 <2>3. s \in wrote => (HasRecord(s, written) => HasRecord(s, written)')
   BY <2>1 DEF HasRecord, LogTypes
 <2> QED BY <2>1, <2>2, <2>3 DEF RepliesRecorded, RepliesRecordedOf
<1>21. ASSUME EndOfCall(s)
      PROVE  RepliesRecordedOf(s)'
 <2>1. /\ pc[s] = "end" /\ pc'[s] = "done" /\ outcome[s] \in {"committed", "rolledback"}
       /\ reply'[s] = outcome[s]
       /\ UNCHANGED <<wrote, redo, written>>
   BY <1>21, EndOfCallMoves DEF FateTypes, Course, CourseOf, Ending, log_vars, lock_vars
 <2> QED BY <2>1 DEF RepliesRecorded, RepliesRecordedOf, LastIs
<1>22. ASSUME SignalWaiter(s)
      PROVE  RepliesRecordedOf(s)'
  BY <1>22 DEF SignalWaiter, RepliesRecorded, RepliesRecordedOf, HasRecord, LastIs
<1>23. ASSUME RecoverXid(s)
      PROVE  RepliesRecordedOf(s)'
 <2>1. PICK type \in {"committed", "rolledback"} : EndByXid(s, type) BY <1>23 DEF RecoverXid
 <2>2. reply' = reply /\ reply[s] \in {"none", "prepared"} /\ wrote' = wrote /\ pc'[s] = "dead"
   BY <1>23, <2>1, EndByXidRecovers DEF RecoverXid, EndByXid, FateTypes, Course, CourseOf
 <2>3. HasRecord(s, written)' BY <2>1, EndByXidRecovers DEF LastIs, HasRecord
 <2> QED BY <2>2, <2>3 DEF RepliesRecordedOf
<1>24. ASSUME UserEndsXid(s)
      PROVE  RepliesRecordedOf(s)'
 <2>1. PICK type \in {"committed", "rolledback"} : EndByXid(s, type) /\ reply' = [reply EXCEPT ![s] = type]
   BY <1>24 DEF UserEndsXid
 <2>2. reply'[s] = type /\ pc'[s] = "dead" BY <2>1 DEF EndByXid, FateTypes
 <2>3. LastIs(s, written, type)' BY <2>1, EndByXidRecovers
 <2> QED BY <2>2, <2>3 DEF RepliesRecordedOf, LastIs
<1>25. ASSUME NEW t \in Sessions \ {s}
      PROVE  RepliesRecordedOf(t)'
 <2>1. Untouched(t) /\ RecordsKept(t) /\ LogKept
   BY <1>25, LogMoves, LogTypesStep, OthersRecordsKept, OthersUntouched
 <2>2. HasRecord(t, written) => HasRecord(t, written)' BY <2>1 DEF LogKept, HasRecord
 <2>3. ASSUME NEW type, LastIs(t, Len(redo), type)
       PROVE  LastIs(t, Len(redo), type)'
   BY SMTT(30), <2>1, <2>3 DEF LogKept, RecordsKept, LastIs
 <2>4. ASSUME NEW type, LastIs(t, written, type)
       PROVE  LastIs(t, written, type)'
   BY <2>1, <2>4 DEF LogKept, RecordsKept, LastIs
 <2> QED BY <2>1, <2>2, <2>3, <2>4 DEF Untouched, RepliesRecorded, RepliesRecordedOf
<1> QED
  BY <1>1, <1>2, <1>3, <1>4, <1>5, <1>6, <1>7, <1>8, <1>9, <1>10, <1>11, <1>12, <1>13, <1>14, <1>15,
       <1>16, <1>17, <1>18, <1>19, <1>20, <1>21, <1>22, <1>23, <1>24, <1>25 DEF SessionStep,
       Continue, RepliesRecorded

-----------------------------------------------------------------------------
(* The order of the two logs *)

\* Nobody is written to the binary log twice.
LEMMA BinlogOnceStep ==
    ASSUME FateTypes, LogTypes, BinlogCourse, BinlogOnce, NEW s \in Sessions, LogGrows(s)
    PROVE  BinlogOnce'
<1>1. CASE binlog' = binlog BY <1>1 DEF BinlogOnce
<1>2. CASE pc[s] = "binlog" /\ binlog' = Append(binlog, s)
 <2>1. \A i \in 1 .. Len(binlog) : binlog[i] # s
   BY <1>2 DEF BinlogCourse, BinlogCourseOf, InBinlog, Contains, Ending
 <2>2. /\ Len(binlog) \in Nat /\ Len(binlog') = Len(binlog) + 1 /\ binlog'[Len(binlog) + 1] = s
       /\ \A i \in 1 .. Len(binlog) : binlog'[i] = binlog[i]
   BY <1>2, AppendProperties DEF LogTypes
 <2> QED BY <2>1, <2>2 DEF BinlogOnce
<1> QED BY <1>1, <1>2 DEF LogGrows

\* One session at a time is between prepare and the end of its commit.
LEMMA OneCommits ==
    ASSUME MutexHeld, NEW s \in Sessions, NEW t \in Sessions, Committing(s), Committing(t)
    PROVE  s = t
  BY DEF MutexHeld, MutexHeldOf

\* A session in the binary log makes no changes any more.
LEMMA LoggedHaveWritten ==
    ASSUME LogTypes, BinlogCourse, NEW s \in Sessions, LogGrows(s), NEW e \in Sessions,
           e # s => (e \in wrote' <=> e \in wrote),
           InBinlog(e)', e \in wrote'
    PROVE  e \in wrote
<1>1. CASE e # s BY <1>1
<1>2. CASE e = s /\ pc[s] = "inside"
 <2>1. binlog' = binlog BY <1>2 DEF LogGrows
 <2>2. InBinlog(s) BY <1>2, <2>1 DEF InBinlog
 <2> QED BY <1>2, <2>2 DEF BinlogCourse, BinlogCourseOf, Ending
<1>3. CASE e = s /\ wrote' = wrote BY <1>3
<1> QED BY <1>1, <1>2, <1>3 DEF LogGrows

\* Who is between the binary log and its commit stays the last in the binary log.
LEMMA CommitterLastStep ==
    ASSUME FateTypes, CounterTypes, LogTypes, CommitsCounted, Course, MutexHeld, BinlogCourse, CommitterLast,
           NEW s \in Sessions, SessionStep(s)
    PROVE  CommitterLast'
<1> USE DEF Step, At, sess_vars, lock_vars, commit_vars, log_vars, fate_vars, FatesKept
<1>1. ASSUME Begin(s)
      PROVE  CommitterLastOf(s)'
  BY <1>1 DEF Begin, CommitterLast, CommitterLastOf, FateTypes, Ending, TwoPhaseKinds, Committing,
     Course, CourseOf
<1>2. ASSUME NextRow(s)
      PROVE  CommitterLastOf(s)'
  BY <1>2 DEF NextRow, CommitterLast, CommitterLastOf, FateTypes, Ending, TwoPhaseKinds, Committing,
     Course, CourseOf
<1>3. ASSUME Enter(s)
      PROVE  CommitterLastOf(s)'
 <2>1. /\ pc[s] \in {"enter", "enter_slept"} /\ pc'[s] \in {"inside", "queued"}
       /\ UNCHANGED <<outcome, pos>> /\ FatesKept
   BY <1>3, EnterMoves DEF FateTypes, log_vars, lock_vars, fate_vars, commit_vars
 <2> QED
   BY <2>1 DEF CommitterLast, CommitterLastOf, Ending, TwoPhaseKinds, Committing, Course, CourseOf
<1>4. ASSUME SleepOnce(s)
      PROVE  CommitterLastOf(s)'
  BY <1>4 DEF SleepOnce, CommitterLast, CommitterLastOf, FateTypes, Ending, TwoPhaseKinds,
     Committing, Course, CourseOf
<1>5. ASSUME WakeInQueue(s)
      PROVE  CommitterLastOf(s)'
  BY <1>5 DEF WakeInQueue, CommitterLast, CommitterLastOf, FateTypes, Ending, TwoPhaseKinds,
     Committing, Course, CourseOf
<1>6. ASSUME ReadRow(s)
      PROVE  CommitterLastOf(s)'
  BY <1>6 DEF ReadRow, CommitterLast, CommitterLastOf, FateTypes, Ending, TwoPhaseKinds, Committing,
     Course, CourseOf
<1>7. ASSUME ChangeRow(s)
      PROVE  CommitterLastOf(s)'
  BY <1>7 DEF ChangeRow, CommitterLast, CommitterLastOf, FateTypes, Ending, TwoPhaseKinds,
     Committing, Course, CourseOf
<1>8. ASSUME MustWait(s)
      PROVE  CommitterLastOf(s)'
  BY <1>8 DEF MustWait, CommitterLast, CommitterLastOf, FateTypes, Ending, TwoPhaseKinds,
     Committing, Course, CourseOf
<1>9. ASSUME Suspend(s)
      PROVE  CommitterLastOf(s)'
 <2>1. /\ pc[s] \in {"suspend"} /\ pc'[s] \in {"inside", "lock_wait"}
       /\ UNCHANGED <<outcome, pos>> /\ FatesKept
   BY <1>9, SuspendMoves DEF FateTypes, log_vars, lock_vars, fate_vars, commit_vars
 <2> QED
   BY <2>1 DEF CommitterLast, CommitterLastOf, Ending, TwoPhaseKinds, Committing, Course, CourseOf
<1>10. ASSUME LockWaitEnds(s)
      PROVE  CommitterLastOf(s)'
  BY <1>10 DEF LockWaitEnds, CommitterLast, CommitterLastOf, FateTypes, Ending, TwoPhaseKinds,
     Committing, Course, CourseOf
<1>11. ASSUME EndStatement(s)
      PROVE  CommitterLastOf(s)'
  BY <1>11 DEF EndStatement, CommitterLast, CommitterLastOf, FateTypes, Ending, TwoPhaseKinds,
     Committing, Course, CourseOf
<1>12. ASSUME CallPrepare(s)
      PROVE  CommitterLastOf(s)'
  BY <1>12 DEF CallPrepare, CommitterLast, CommitterLastOf, FateTypes, Ending, TwoPhaseKinds,
     Committing, Course, CourseOf
<1>13. ASSUME LockPrepareCommit(s)
      PROVE  CommitterLastOf(s)'
  BY <1>13, LockPrepareCommitMoves DEF CommitterLast, CommitterLastOf, FateTypes, Ending,
     TwoPhaseKinds, Committing, Course, CourseOf
<1>14. ASSUME Prepare(s)
      PROVE  CommitterLastOf(s)'
  BY <1>14 DEF Prepare, AfterPrepare, AppendRedo, CommitterLast, CommitterLastOf, FateTypes, Ending,
     TwoPhaseKinds, Committing, Course, CourseOf
<1>15. ASSUME PrepareFlush(s)
      PROVE  CommitterLastOf(s)'
  BY <1>15 DEF PrepareFlush, AfterPrepare, WriteRedo, CommitterLast, CommitterLastOf, FateTypes,
     Ending, TwoPhaseKinds, Committing, Course, CourseOf
<1>16. ASSUME WriteBinlog(s)
      PROVE  CommitterLastOf(s)'
 <2>1. pc'[s] = "commit" /\ binlog' = Append(binlog, s) BY <1>16 DEF WriteBinlog, FateTypes
 <2>2. Len(binlog') = Len(binlog) + 1 /\ binlog'[Len(binlog) + 1] = s /\ Len(binlog) \in Nat
   BY <2>1, AppendProperties DEF LogTypes
 <2> QED BY <2>1, <2>2 DEF CommitterLastOf
<1>17. ASSUME StartCommit(s)
      PROVE  CommitterLastOf(s)'
 <2>1. CASE CommitWaits(s)
  <3>1. /\ pc[s] \in {"commit", "xa_prepared", "statement"}
        /\ pc[s] = "statement" => plan.kind[s] = "plain"
        /\ pc'[s] = "commit_wait" /\ UNCHANGED <<outcome, pos>>
        /\ FatesKept
    BY <1>17, <2>1, StartCommitMoves DEF CommitWaits, FateTypes, log_vars, lock_vars, fate_vars
  <3> QED
    BY <3>1 DEF CommitterLast, CommitterLastOf, Ending, TwoPhaseKinds, Committing, Course,
       CourseOf
 <2>2. CASE CommitStarts(s)
  <3>1. /\ pc[s] \in {"commit", "xa_prepared", "statement"}
        /\ pc[s] = "statement" => plan.kind[s] = "plain"
        /\ pc'[s] = "finish" /\ outcome'[s] = "committed" /\ pos'[s] = Len(binlog)
        /\ FatesKept
    BY <1>17, <2>2, StartCommitMoves DEF CommitStarts, FateTypes, CounterTypes, log_vars,
       lock_vars, fate_vars
  <3> QED
    BY <3>1 DEF CommitterLast, CommitterLastOf, Ending, TwoPhaseKinds, Committing, Course,
       CourseOf
 <2> QED BY <1>17, <2>1, <2>2, StartCommitMoves
<1>18. ASSUME StartRollback(s)
      PROVE  CommitterLastOf(s)'
  BY <1>18 DEF StartRollback, CommitterLast, CommitterLastOf, FateTypes, Ending, TwoPhaseKinds,
     Committing, Course, CourseOf
<1>19. ASSUME Finish(s)
      PROVE  CommitterLastOf(s)'
  BY <1>19 DEF Finish, AppendRedo, CommitterLast, CommitterLastOf, FateTypes, Ending, TwoPhaseKinds,
     Committing, Course, CourseOf
<1>20. ASSUME FinishFlush(s)
      PROVE  CommitterLastOf(s)'
  BY <1>20 DEF FinishFlush, WriteRedo, CommitterLast, CommitterLastOf, FateTypes, Ending,
     TwoPhaseKinds, Committing, Course, CourseOf
<1>21. ASSUME EndOfCall(s)
      PROVE  CommitterLastOf(s)'
  BY <1>21, EndOfCallMoves DEF CommitterLast, CommitterLastOf, FateTypes, Ending, TwoPhaseKinds,
     Committing, Course, CourseOf
<1>22. ASSUME SignalWaiter(s)
      PROVE  CommitterLastOf(s)'
  BY <1>22 DEF SignalWaiter, CommitterLast, CommitterLastOf, FateTypes, Ending, TwoPhaseKinds,
     Committing, Course, CourseOf
<1>23. ASSUME RecoverXid(s)
      PROVE  CommitterLastOf(s)'
  BY <1>23 DEF RecoverXid, EndByXid, AppendRedo, CommitterLast, CommitterLastOf, FateTypes, Ending,
     TwoPhaseKinds, Committing, Course, CourseOf
<1>24. ASSUME UserEndsXid(s)
      PROVE  CommitterLastOf(s)'
 <2>1. PICK type \in {"committed", "rolledback"} :
         EndByXid(s, type) /\ reply' = [reply EXCEPT ![s] = type]
   BY <1>24 DEF UserEndsXid
 <2> QED
   BY <2>1 DEF EndByXid, AppendRedo, CommitterLast, CommitterLastOf, FateTypes, Ending,
      TwoPhaseKinds, Committing, Course, CourseOf
<1>25. ASSUME NEW t \in Sessions \ {s}
      PROVE  CommitterLastOf(t)'
 <2>1. Untouched(t) /\ LogGrows(s) BY <1>25, LogMoves, OthersUntouched
 <2>2. SUFFICES ASSUME Committing(t)', pc'[t] \in {"commit", "commit_wait", "finish"}
                PROVE  CommitterLastOf(t)'
   BY DEF CommitterLastOf
 <2>3. Committing(t) /\ pc[t] \in {"commit", "commit_wait", "finish"} /\ t # s
   BY <2>1, <2>2 DEF Untouched, Committing, Ending
 <2>4. binlog' = binlog
  <3>1. CASE pc[s] = "binlog"
   <4>1. Committing(s) BY <3>1 DEF Committing, Course, CourseOf
   <4> QED BY <2>3, <4>1, OneCommits
  <3> QED BY <2>1, <3>1 DEF LogGrows
 <2> QED BY <2>1, <2>3, <2>4 DEF Untouched, CommitterLast, CommitterLastOf
<1> QED
  BY <1>1, <1>2, <1>3, <1>4, <1>5, <1>6, <1>7, <1>8, <1>9, <1>10, <1>11, <1>12, <1>13, <1>14, <1>15,
       <1>16, <1>17, <1>18, <1>19, <1>20, <1>21, <1>22, <1>23, <1>24, <1>25 DEF SessionStep,
       Continue, CommitterLast

\* A step of a session leaves no commit of the binary log without an end in the redo log.
LEMMA DecidedStep ==
    ASSUME FateTypes, CounterTypes, LogTypes, CommitsCounted, Course, MutexHeld, BinlogCourse, Decided,
           NEW s \in Sessions, SessionStep(s)
    PROVE  Decided'
<1> USE DEF Step, At, sess_vars, lock_vars, commit_vars, log_vars, fate_vars, FatesKept
<1>1. ASSUME Begin(s)
      PROVE  DecidedOf(s)'
  BY <1>1 DEF Begin, Decided, DecidedOf, HasCommit, BinlogCourse, BinlogCourseOf, InBinlog,
     FateTypes, Ending, TwoPhaseKinds, Committing, Course, CourseOf
<1>2. ASSUME NextRow(s)
      PROVE  DecidedOf(s)'
  BY <1>2 DEF NextRow, Decided, DecidedOf, HasCommit, BinlogCourse, BinlogCourseOf, InBinlog,
     FateTypes, Ending, TwoPhaseKinds, Committing, Course, CourseOf
<1>3. ASSUME Enter(s)
      PROVE  DecidedOf(s)'
 <2>1. /\ pc[s] \in {"enter", "enter_slept"} /\ pc'[s] \in {"inside", "queued"}
       /\ UNCHANGED <<outcome, pos>> /\ FatesKept
   BY <1>3, EnterMoves DEF FateTypes, log_vars, lock_vars, fate_vars, commit_vars
 <2> QED
   BY <2>1 DEF Decided, DecidedOf, HasCommit, BinlogCourse, BinlogCourseOf, InBinlog, Ending,
      TwoPhaseKinds, Committing, Course, CourseOf
<1>4. ASSUME SleepOnce(s)
      PROVE  DecidedOf(s)'
  BY <1>4 DEF SleepOnce, Decided, DecidedOf, HasCommit, BinlogCourse, BinlogCourseOf, InBinlog,
     FateTypes, Ending, TwoPhaseKinds, Committing, Course, CourseOf
<1>5. ASSUME WakeInQueue(s)
      PROVE  DecidedOf(s)'
  BY <1>5 DEF WakeInQueue, Decided, DecidedOf, HasCommit, BinlogCourse, BinlogCourseOf, InBinlog,
     FateTypes, Ending, TwoPhaseKinds, Committing, Course, CourseOf
<1>6. ASSUME ReadRow(s)
      PROVE  DecidedOf(s)'
  BY <1>6 DEF ReadRow, Decided, DecidedOf, HasCommit, BinlogCourse, BinlogCourseOf, InBinlog,
     FateTypes, Ending, TwoPhaseKinds, Committing, Course, CourseOf
<1>7. ASSUME ChangeRow(s)
      PROVE  DecidedOf(s)'
  BY <1>7 DEF ChangeRow, Decided, DecidedOf, HasCommit, BinlogCourse, BinlogCourseOf, InBinlog,
     FateTypes, Ending, TwoPhaseKinds, Committing, Course, CourseOf
<1>8. ASSUME MustWait(s)
      PROVE  DecidedOf(s)'
  BY <1>8 DEF MustWait, Decided, DecidedOf, HasCommit, BinlogCourse, BinlogCourseOf, InBinlog,
     FateTypes, Ending, TwoPhaseKinds, Committing, Course, CourseOf
<1>9. ASSUME Suspend(s)
      PROVE  DecidedOf(s)'
 <2>1. /\ pc[s] \in {"suspend"} /\ pc'[s] \in {"inside", "lock_wait"}
       /\ UNCHANGED <<outcome, pos>> /\ FatesKept
   BY <1>9, SuspendMoves DEF FateTypes, log_vars, lock_vars, fate_vars, commit_vars
 <2> QED
   BY <2>1 DEF Decided, DecidedOf, HasCommit, BinlogCourse, BinlogCourseOf, InBinlog, Ending,
      TwoPhaseKinds, Committing, Course, CourseOf
<1>10. ASSUME LockWaitEnds(s)
      PROVE  DecidedOf(s)'
  BY <1>10 DEF LockWaitEnds, Decided, DecidedOf, HasCommit, BinlogCourse, BinlogCourseOf, InBinlog,
     FateTypes, Ending, TwoPhaseKinds, Committing, Course, CourseOf
<1>11. ASSUME EndStatement(s)
      PROVE  DecidedOf(s)'
  BY <1>11 DEF EndStatement, Decided, DecidedOf, HasCommit, BinlogCourse, BinlogCourseOf, InBinlog,
     FateTypes, Ending, TwoPhaseKinds, Committing, Course, CourseOf
<1>12. ASSUME CallPrepare(s)
      PROVE  DecidedOf(s)'
  BY <1>12 DEF CallPrepare, Decided, DecidedOf, HasCommit, BinlogCourse, BinlogCourseOf, InBinlog,
     FateTypes, Ending, TwoPhaseKinds, Committing, Course, CourseOf
<1>13. ASSUME LockPrepareCommit(s)
      PROVE  DecidedOf(s)'
  BY <1>13, LockPrepareCommitMoves DEF Decided, DecidedOf, HasCommit, BinlogCourse, BinlogCourseOf,
     InBinlog, FateTypes, Ending, TwoPhaseKinds, Committing, Course, CourseOf
<1>14. ASSUME Prepare(s)
      PROVE  DecidedOf(s)'
 <2>1. pc[s] = "prepare" /\ binlog' = binlog BY <1>14 DEF Prepare
 <2>2. ~ InBinlog(s)' BY <2>1 DEF BinlogCourse, BinlogCourseOf, Ending, InBinlog
 <2> QED BY <2>2 DEF DecidedOf
<1>15. ASSUME PrepareFlush(s)
      PROVE  DecidedOf(s)'
  BY <1>15 DEF PrepareFlush, AfterPrepare, WriteRedo, Decided, DecidedOf, HasCommit, BinlogCourse,
     BinlogCourseOf, InBinlog, FateTypes, Ending, TwoPhaseKinds, Committing, Course, CourseOf
<1>16. ASSUME WriteBinlog(s)
      PROVE  DecidedOf(s)'
 <2>1. pc'[s] = "commit" BY <1>16 DEF WriteBinlog, FateTypes
 <2> QED BY <2>1 DEF DecidedOf
<1>17. ASSUME StartCommit(s)
      PROVE  DecidedOf(s)'
 <2>1. CASE CommitWaits(s)
  <3>1. /\ pc[s] \in {"commit", "xa_prepared", "statement"}
        /\ pc[s] = "statement" => plan.kind[s] = "plain"
        /\ pc'[s] = "commit_wait" /\ UNCHANGED <<outcome, pos>>
        /\ FatesKept
    BY <1>17, <2>1, StartCommitMoves DEF CommitWaits, FateTypes, log_vars, lock_vars, fate_vars
  <3> QED
    BY <3>1 DEF Decided, DecidedOf, HasCommit, BinlogCourse, BinlogCourseOf, InBinlog, Ending,
       TwoPhaseKinds, Committing, Course, CourseOf
 <2>2. CASE CommitStarts(s)
  <3>1. /\ pc[s] \in {"commit", "xa_prepared", "statement"}
        /\ pc[s] = "statement" => plan.kind[s] = "plain"
        /\ pc'[s] = "finish" /\ outcome'[s] = "committed" /\ pos'[s] = Len(binlog)
        /\ FatesKept
    BY <1>17, <2>2, StartCommitMoves DEF CommitStarts, FateTypes, CounterTypes, log_vars,
       lock_vars, fate_vars
  <3> QED
    BY <3>1 DEF Decided, DecidedOf, HasCommit, BinlogCourse, BinlogCourseOf, InBinlog, Ending,
       TwoPhaseKinds, Committing, Course, CourseOf
 <2> QED BY <1>17, <2>1, <2>2, StartCommitMoves
<1>18. ASSUME StartRollback(s)
      PROVE  DecidedOf(s)'
  BY <1>18 DEF StartRollback, Decided, DecidedOf, HasCommit, BinlogCourse, BinlogCourseOf, InBinlog,
     FateTypes, Ending, TwoPhaseKinds, Committing, Course, CourseOf
<1>19. ASSUME Finish(s)
      PROVE  DecidedOf(s)'
 <2>1. /\ pc[s] = "finish" /\ pc'[s] = "finish_flush" /\ UNCHANGED <<plan, binlog, wrote>>
       /\ s \in wrote => redo' = Append(redo, [type |-> outcome[s], trx |-> s, pos |-> pos[s]])
   BY <1>19 DEF Finish, AppendRedo, FateTypes
 <2>2. SUFFICES ASSUME plan.kind[s] = "binlog", s \in wrote, InBinlog(s)
                PROVE  HasCommit(s, Len(redo))'
   BY <2>1 DEF DecidedOf, InBinlog
 <2> DEFINE r == [type |-> outcome[s], trx |-> s, pos |-> pos[s]]
 <2>3. outcome[s] = "committed" BY <2>1, <2>2 DEF BinlogCourse, BinlogCourseOf, Ending
 <2>4. r \in RedoRecord /\ r.trx = s /\ r.type = "committed" /\ redo' = Append(redo, r)
   BY <2>1, <2>2, <2>3 DEF RedoRecord, CounterTypes, LogTypes
 <2> HIDE DEF r
 <2>5. LastIs(s, Len(redo), "committed")' BY <2>4, RecordAppended
 <2> QED BY <2>5 DEF LastIs, HasCommit
<1>20. ASSUME FinishFlush(s)
      PROVE  DecidedOf(s)'
  BY <1>20 DEF FinishFlush, WriteRedo, Decided, DecidedOf, HasCommit, BinlogCourse, BinlogCourseOf,
     InBinlog, FateTypes, Ending, TwoPhaseKinds, Committing, Course, CourseOf
<1>21. ASSUME EndOfCall(s)
      PROVE  DecidedOf(s)'
 <2>1. pc[s] = "end" /\ UNCHANGED <<plan, binlog, wrote, redo>>
   BY <1>21, EndOfCallMoves DEF log_vars, lock_vars, fate_vars
 <2> QED BY <2>1 DEF Decided, DecidedOf, HasCommit, InBinlog
<1>22. ASSUME SignalWaiter(s)
      PROVE  DecidedOf(s)'
  BY <1>22 DEF SignalWaiter, Decided, DecidedOf, HasCommit, BinlogCourse, BinlogCourseOf, InBinlog,
     FateTypes, Ending, TwoPhaseKinds, Committing, Course, CourseOf
<1>23. ASSUME RecoverXid(s)
      PROVE  DecidedOf(s)'
 <2>1. EndByXid(s, IF InBinlog(s) THEN "committed" ELSE "rolledback") /\ binlog' = binlog
   BY <1>23 DEF RecoverXid, EndByXid, InBinlog
 <2>2. CASE InBinlog(s)
  <3>1. LastIs(s, written, "committed")' BY <2>1, <2>2, EndByXidRecovers
  <3>2. HasCommit(s, Len(redo))' BY <3>1, LogTypesStep DEF HasCommit, LastIs, LogKept
  <3> QED BY <3>2 DEF DecidedOf
 <2>3. CASE ~ InBinlog(s) BY <2>1, <2>3 DEF DecidedOf, InBinlog
 <2> QED BY <2>2, <2>3
<1>24. ASSUME UserEndsXid(s)
      PROVE  DecidedOf(s)'
  BY <1>24 DEF UserEndsXid, EndByXid, DecidedOf
<1>25. ASSUME NEW t \in Sessions \ {s}
      PROVE  DecidedOf(t)'
 <2>1. Untouched(t) /\ RecordsKept(t) /\ LogKept
   BY <1>25, LogMoves, LogTypesStep, OthersRecordsKept, OthersUntouched
 <2>2. HasCommit(t, Len(redo)) => HasCommit(t, Len(redo))' BY <2>1 DEF LogKept, HasCommit
 <2> QED BY <2>1, <2>2 DEF Untouched, RecordsKept, Decided, DecidedOf
<1> QED
  BY <1>1, <1>2, <1>3, <1>4, <1>5, <1>6, <1>7, <1>8, <1>9, <1>10, <1>11, <1>12, <1>13, <1>14, <1>15,
       <1>16, <1>17, <1>18, <1>19, <1>20, <1>21, <1>22, <1>23, <1>24, <1>25 DEF SessionStep,
       Continue, Decided


\* A session does not change the plan.
LEMMA PlanStays ==
    ASSUME NEW s \in Sessions, SessionStep(s)
    PROVE  plan' = plan
  BY DEF SessionStep, Continue, Begin, NextRow, Enter, SleepOnce, WakeInQueue, ReadRow, ChangeRow,
     MustWait, Suspend, LockWaitEnds, EndStatement, CallPrepare, LockPrepareCommit, Prepare,
     PrepareFlush, WriteBinlog, StartCommit, StartRollback, Finish, FinishFlush, EndOfCall,
     SignalWaiter, RecoverXid, UserEndsXid, EndByXid, fate_vars

\* The commit that is written to the redo log has the position of its own in the binary
\* log, and those before it have been written: the step this is all for.
LEMMA PositionsStep ==
    ASSUME FateTypes, CounterTypes, LogTypes, CommitsCounted, Course, MutexHeld, BinlogCourse, Recovered,
           BinlogOnce, CommitterLast, Decided, Positions, NEW s \in Sessions, SessionStep(s)
    PROVE  Positions'
<1>1. LogGrows(s) /\ LogKept BY LogMoves, LogTypesStep
<1>2. \A t \in Sessions \ {s} : Untouched(t) BY OthersUntouched
<1>3. plan' = plan BY PlanStays
<1>4. /\ binlog \in Seq(Sessions) /\ binlog' \in Seq(Sessions)
      /\ Len(binlog) \in Nat /\ Len(binlog') \in Nat /\ Len(binlog) <= Len(binlog')
      /\ \A i \in 1 .. Len(binlog) : binlog'[i] = binlog[i]
  BY <1>1, BinlogGrows DEF LogTypes
<1>5. ASSUME NEW e \in Sessions, NEW q \in 1 .. Len(binlog), binlog[q] = e, e \in wrote'
      PROVE  e \in wrote
 <2>1. e # s => (e \in wrote' <=> e \in wrote) BY <1>2 DEF Untouched
 <2>2. InBinlog(e)' BY <1>4, <1>5 DEF InBinlog, Contains
 <2> QED BY <1>1, <1>5, <2>1, <2>2, LoggedHaveWritten
<1>6. \A i \in 1 .. Len(redo) : redo[i].pos \in Nat
 <2>1. \A i \in 1 .. Len(redo) : redo[i] \in RedoRecord BY DEF LogTypes
 <2> QED BY <2>1 DEF RedoRecord
<1>7. ASSUME NEW i \in 1 .. Len(redo)
      PROVE  PositionOf(i)'
 <2>0. PICK r : r = redo[i] OBVIOUS
 <2>1. redo[i] = r /\ redo'[i] = r /\ Len(redo) \in Nat /\ r.pos \in Nat
   BY <1>1, <1>6, <2>0 DEF LogKept
 <2>2. \A e : HasCommit(e, i - 1) => HasCommit(e, i - 1)' BY <1>1 DEF LogKept, HasCommit
 <2>3. PositionOf(i) BY DEF Positions
 <2> QED
  <3>1. SUFFICES ASSUME r.type = "committed", r.pos # 0, plan.kind[r.trx] \in TwoPhaseKinds
                 PROVE  /\ r.pos \in 1 .. Len(binlog') /\ binlog'[r.pos] = r.trx
                        /\ \A e : \A q \in 1 .. r.pos - 1 :
                               binlog'[q] = e /\ plan.kind[e] = "binlog" /\ e \in wrote' => HasCommit(e, i - 1)'
    BY <1>3, <2>1 DEF PositionOf, HasCommit
  <3>2. r.pos \in 1 .. Len(binlog) /\ binlog[r.pos] = r.trx BY <2>1, <2>3, <3>1 DEF PositionOf
  <3>3. ASSUME NEW e, NEW q \in 1 .. r.pos - 1,
               binlog'[q] = e, plan.kind[e] = "binlog", e \in wrote'
        PROVE  HasCommit(e, i - 1)'
   <4>1. q \in 1 .. Len(binlog) /\ binlog[q] = e /\ e \in Sessions BY <1>4, <2>1, <3>2, <3>3
   <4>2. e \in wrote BY <1>5, <3>3, <4>1
   <4>3. HasCommit(e, i - 1) BY <2>1, <2>3, <3>1, <3>3, <4>1, <4>2 DEF PositionOf
   <4> QED BY <2>2, <4>1, <4>3
  <3> QED BY <1>4, <3>2, <3>3
<1>8. ASSUME NEW r \in RedoRecord, r.trx = s, redo' = Append(redo, r), NEW n, n = Len(redo) + 1,
             r.pos # 0 => pc[s] = "finish" /\ r.type = outcome[s] /\ r.pos = pos[s]
      PROVE  PositionOf(n)'
 <2>1. /\ Len(redo) \in Nat /\ Len(redo') = Len(redo) + 1 /\ redo'[Len(redo) + 1] = r
       /\ \A i \in 1 .. Len(redo) : redo'[i] = redo[i]
   BY <1>8, RecordAppended
 <2>2. ASSUME r.type = "committed", r.pos # 0, plan.kind[s] \in TwoPhaseKinds
       PROVE  /\ r.pos \in 1 .. Len(binlog) /\ binlog[r.pos] = s
              /\ \A q \in 1 .. r.pos - 1 :
                     plan.kind[binlog[q]] = "binlog" /\ binlog[q] \in wrote =>
                         HasCommit(binlog[q], Len(redo))
  <3>3. pc[s] = "finish" /\ outcome[s] = "committed" /\ r.pos = pos[s] BY <1>8, <2>2
  <3>4. Committing(s) /\ open BY <2>2, <3>3 DEF Committing, Ending, Course, CourseOf
  <3>5. Len(binlog) > 0 /\ binlog[Len(binlog)] = s /\ r.pos = Len(binlog)
    BY <3>3, <3>4 DEF CommitterLast, CommitterLastOf
  <3>6. ASSUME NEW q \in 1 .. r.pos - 1, plan.kind[binlog[q]] = "binlog", binlog[q] \in wrote
        PROVE  HasCommit(binlog[q], Len(redo))
   <4> DEFINE e == binlog[q]
   <4>1. q \in 1 .. Len(binlog) /\ q # Len(binlog) BY <1>4, <3>5
   <4>2. e # s /\ e \in Sessions /\ InBinlog(e)
     BY <1>4, <3>5, <4>1 DEF BinlogOnce, InBinlog, Contains
   <4> HIDE DEF e
   <4>3. plan.kind[e] = "binlog" /\ e \in wrote BY <3>6 DEF e
   <4>4. ~ Committing(e) BY <3>4, <4>2, OneCommits
   <4>5. pc[e] \notin {"commit", "commit_wait", "finish"}
     BY <4>2, <4>3, <4>4 DEF Committing, Ending, BinlogCourse, BinlogCourseOf, TwoPhaseKinds
   <4>6. ~ (pc[e] = "dead" /\ conc_state[e] = "prepared")
     BY <3>4, <4>2, <4>3 DEF Recovered, RecoveredOf
   <4>7. HasCommit(e, Len(redo)) BY <4>2, <4>3, <4>5, <4>6 DEF Decided, DecidedOf
   <4> QED BY <4>7 DEF e
  <3> QED BY <1>4, <3>5, <3>6
 <2>3. \A e : HasCommit(e, Len(redo)) => HasCommit(e, n - 1)' BY <1>8, <2>1 DEF HasCommit
 <2>4. r.pos \in Nat /\ redo'[n] = r /\ r.trx = s BY <1>8, <2>1 DEF RedoRecord
 <2>5. SUFFICES ASSUME r.type = "committed", r.pos # 0, plan.kind[s] \in TwoPhaseKinds
                PROVE  /\ r.pos \in 1 .. Len(binlog') /\ binlog'[r.pos] = s
                       /\ \A e : \A q \in 1 .. r.pos - 1 :
                              binlog'[q] = e /\ plan.kind[e] = "binlog" /\ e \in wrote' => HasCommit(e, n - 1)'
   BY <1>3, <2>4 DEF PositionOf, HasCommit
 <2>6. r.pos \in 1 .. Len(binlog) /\ binlog[r.pos] = s BY <2>2, <2>5
 <2>7. ASSUME NEW e, NEW q \in 1 .. r.pos - 1,
              binlog'[q] = e, plan.kind[e] = "binlog", e \in wrote'
       PROVE  HasCommit(e, n - 1)'
  <3>1. q \in 1 .. Len(binlog) /\ binlog[q] = e /\ e \in Sessions BY <1>4, <2>4, <2>6, <2>7
  <3>2. e \in wrote BY <1>5, <2>7, <3>1
  <3>3. HasCommit(e, Len(redo)) BY <2>2, <2>5, <2>7, <3>1, <3>2
  <3> QED BY <2>3, <3>1, <3>3
 <2> QED BY <1>4, <2>6, <2>7
<1>9. CASE redo' = redo BY <1>7, <1>9 DEF Positions
<1>10. ASSUME NEW r \in RedoRecord, r.trx = s, redo' = Append(redo, r),
              r.pos # 0 => pc[s] = "finish" /\ r.type = outcome[s] /\ r.pos = pos[s]
       PROVE  Positions'
 <2>1. Len(redo') = Len(redo) + 1 /\ Len(redo) \in Nat BY <1>10, RecordAppended
 <2>2. ASSUME NEW n, n = Len(redo) + 1
       PROVE  PositionOf(n)'
   BY <1>8, <1>10, <2>2
 <2>3. ASSUME NEW i \in 1 .. Len(redo')
       PROVE  PositionOf(i)'
  <3>1. i \in 1 .. Len(redo) \/ i = Len(redo) + 1 BY <2>1
  <3> QED BY <1>7, <2>2, <3>1
 <2> QED BY <2>3 DEF Positions
<1> QED BY <1>1, <1>9, <1>10 DEF LogGrows

-----------------------------------------------------------------------------
(* Crashes *)

\* SetToSeq of a set of sessions is a sequence of sessions.
LEMMA SetToSeqType ==
    ASSUME NEW S \in SUBSET Sessions
    PROVE  SetToSeq(S) \in Seq(Sessions)
<1>1. IsFiniteSet(S) BY SrvConcAssumption, FS_Subset
<1>2. Cardinality(S) \in Nat BY <1>1, FS_CardinalityType
<1>3. PICK f : f \in Bijection(1 .. Cardinality(S), S)
  BY <1>1, FS_CardinalityType DEF ExistsBijection
<1>4. f \in [1 .. Cardinality(S) -> S] BY <1>3 DEF Bijection, Injection
<1>5. IsInjective(f) BY <1>3, <1>4 DEF Bijection, Injection, IsInjective
<1>6. SetToSeq(S) \in [1 .. Cardinality(S) -> S] BY <1>4, <1>5 DEF SetToSeq
<1>7. SetToSeq(S) \in [1 .. Cardinality(S) -> Sessions] BY <1>6
<1> QED BY <1>2, <1>7, IsASeq

\* What the crash leaves is the beginning of the log.
CrashAt(n) ==
    /\ n \in Nat /\ written <= n /\ n <= Len(redo) /\ written \in Nat /\ Len(redo) \in Nat
    /\ redo' \in Seq(RedoRecord) /\ Len(redo') = n /\ written' = n
    /\ \A i \in 1 .. n : redo'[i] = redo[i]
    /\ \A s \in Sessions :
           /\ StateIn(redo', n, s) = StateIn(redo, n, s)
           /\ conc_state'[s] = IF StateIn(redo, n, s) = "prepared" THEN "prepared" ELSE "not_started"
    /\ \A s \in Sessions : pc'[s] = IF pc[s] \in {"new", "done"} THEN pc[s] ELSE "dead"
    /\ plan'.kind = plan.kind /\ open' = FALSE
    /\ UNCHANGED <<rows, outcome, pos, reply, wrote, binlog>>

\* A crash leaves a beginning of the redo log that has at least what was written, and
\* the transactions as that beginning says.
LEMMA CrashMoves ==
    ASSUME FateTypes, LogTypes, plan \in PlanType, Crash
    PROVE  \E n \in Nat : CrashAt(n)
<1>1. PICK n \in written .. Len(redo) :
         /\ redo' = SubSeq(redo, 1, n)
         /\ written' = n
         /\ conc_state' = [s \in Sessions |-> IF UndoState(n, s) = "prepared" THEN "prepared" ELSE "not_started"]
  BY DEF Crash, Kept
<1>2. redo \in Seq(RedoRecord) /\ Len(redo) \in Nat /\ written \in 0 .. Len(redo) BY DEF LogTypes
<1>3. n \in Nat /\ n \in 0 .. Len(redo) BY <1>1, <1>2
<1>4. redo' \in Seq(RedoRecord) /\ Len(redo') = n /\ \A i \in 1 .. n : redo'[i] = redo[i]
  BY <1>1, <1>2, <1>3
<1>5. ASSUME NEW s \in Sessions
      PROVE  StateIn(redo', n, s) = StateIn(redo, n, s)
 <2>1. \A i \in 1 .. n : redo[i] = redo'[i] BY <1>4
 <2>2. n \in n .. Len(redo) /\ n \in 0 .. Len(redo') /\ \A i \in n + 1 .. n : redo[i].trx # s
   BY <1>3, <1>4
 <2> QED BY <1>2, <1>4, <2>1, <2>2, StateOfSameRecords
<1>6. ASSUME NEW s \in Sessions
      PROVE  UndoState(n, s) = StateIn(redo, n, s)
  BY DEF UndoState, StateIn
<1>7. \A s \in Sessions : conc_state'[s] = IF StateIn(redo, n, s) = "prepared" THEN "prepared" ELSE "not_started"
  BY <1>1, <1>6
<1>8. /\ \A s \in Sessions : pc'[s] = IF pc[s] \in {"new", "done"} THEN pc[s] ELSE "dead"
      /\ open' = FALSE
      /\ UNCHANGED <<rows, outcome, pos, reply, wrote, binlog>>
  BY DEF Crash
<1>9. plan'.kind = plan.kind BY DEF Crash, PlanType
<1> QED BY <1>1, <1>2, <1>3, <1>4, <1>5, <1>7, <1>8, <1>9 DEF CrashAt

\* A crash keeps the types, and nobody is inside, in a queue or holds a mutex after it.
LEMMA CrashTypes ==
    ASSUME Tickets, SessionTypes, Crash
    PROVE  Tickets' /\ SessionTypes' /\ Whereabouts' /\ CommitsCounted' /\ MutexHeld'
<1> USE DEF SessionTypes
<1>1. PICK n \in Nat : CrashAt(n) BY CrashMoves
<1>2. /\ srv_conc_n_threads' = 0 /\ srv_conc_queue' = <<>>
      /\ wait_ended' = {} /\ event_set' = {} /\ declared' = {}
      /\ n_tickets' = [s \in Sessions |-> 0]
      /\ to_signal' = [s \in Sessions |-> NoSession]
      /\ active_trans' = [s \in Sessions |-> 0]
      /\ prepare_commit_mutex' = NoSession
      /\ commit_threads' = 0 /\ commit_waiters' = {}
      /\ UNCHANGED <<srv_max_n_threads, srv_thread_concurrency, was_declared>>
      /\ plan.crashes > 0 /\ plan' = [plan EXCEPT !.crashes = plan.crashes - 1]
      /\ pc' = [s \in Sessions |-> IF pc[s] \in {"new", "done"} THEN pc[s] ELSE "dead"]
  BY DEF Crash
<1>3. Queued' = {} BY <1>2 DEF Queued
<1>4. Cardinality({}) = 0 BY FS_EmptySet
<1>5. Tickets'
 <2>1. ConcTypeOK' BY <1>2, SrvConcAssumption DEF Tickets, ConcTypeOK
 <2>2. PlacesCounted' BY <1>2, <1>3, <1>4 DEF PlacesCounted
 <2>3. QueuedOnce' /\ SignalsOwed' BY <1>2, <1>3 DEF QueuedOnce, SignalsOwed
 <2> QED BY <2>1, <2>2, <2>3 DEF Tickets
<1>6. plan' \in PlanType
 <2>1. plan.crashes \in Nat /\ plan.crashes - 1 \in Nat BY <1>2 DEF PlanType
 <2> QED BY <1>2, <2>1 DEF PlanType
<1>7. FateTypes'
 <2>1. pc' \in [Sessions -> Labels] BY <1>2 DEF FateTypes, Labels
 <2>2. conc_state' \in [Sessions -> {"not_started", "active", "prepared", "committed_in_memory"}]
   BY DEF Crash
 <2>3. UNCHANGED <<outcome, reply, wrote>> /\ open' = FALSE BY <1>1 DEF CrashAt
 <2> QED BY <1>2, <2>1, <2>2, <2>3 DEF FateTypes
<1>8. CounterTypes'
 <2>1. active_trans' \in [Sessions -> 0 .. 2] BY <1>2
 <2> QED BY <1>1, <2>1 DEF CounterTypes, CrashAt
<1>9. LogTypes'
 <2>1. lock_queue' \in Seq(Sessions)
  <3>1. PICK S \in SUBSET Sessions : lock_queue' = SetToSeq(S) BY DEF Crash
  <3> QED BY <3>1, SetToSeqType
 <2> QED BY <1>1, <2>1 DEF LogTypes, CrashAt
<1>10. Whereabouts' BY <1>2, <1>3 DEF Whereabouts, WhereaboutsOf
<1>11. CommitsCounted'
 <2>1. {s \in Sessions : pc'[s] = "commit_wait"} = {} BY <1>2
 <2>2. {s \in Sessions : pc'[s] \in Ending /\ outcome'[s] = "committed"} = {} BY <1>2 DEF Ending
 <2> QED BY <1>2, <1>4, <2>1, <2>2 DEF CommitsCounted, Ending
<1>12. MutexHeld' BY <1>2, SrvConcAssumption DEF MutexHeld, MutexHeldOf, Committing, Ending
<1> QED BY <1>5, <1>6, <1>7, <1>8, <1>9, <1>10, <1>11, <1>12

\* Whose last record is sure is in the state of that record after any crash.
LEMMA LastDecides ==
    ASSUME LogTypes, NEW s \in Sessions, NEW n \in written .. Len(redo), NEW type, LastIs(s, written, type)
    PROVE  StateIn(redo, n, s) = type
<1>1. n \in 0 .. Len(redo) /\ redo \in Seq(RedoRecord) /\ written \in 0 .. Len(redo) /\ Len(redo) \in Nat
  BY DEF LogTypes
<1>2. \/ \A i \in 1 .. n : redo[i].trx # s
      \/ \E i \in 1 .. n :
             /\ redo[i].trx = s
             /\ \A j \in i + 1 .. n : redo[j].trx # s
             /\ StateIn(redo, n, s) = redo[i].type
  BY <1>1, StateOfLastRecord
<1>3. PICK i \in 1 .. n : /\ redo[i].trx = s /\ redo[i].type = type
                          /\ \A j \in i + 1 .. Len(redo) : redo[j].trx # s
  BY <1>1 DEF LastIs
<1>4. ASSUME NEW k \in 1 .. n, redo[k].trx = s, \A j \in k + 1 .. n : redo[j].trx # s
      PROVE  k = i
  BY <1>1, <1>3, <1>4
<1> QED BY <1>2, <1>3, <1>4

\* Who has a sure record is not active after any crash.
LEMMA RecordDecides ==
    ASSUME LogTypes, NEW s \in Sessions, NEW n \in written .. Len(redo)
    PROVE  /\ HasRecord(s, written) =>
                  \E i \in 1 .. n : redo[i].trx = s /\ StateIn(redo, n, s) = redo[i].type
           /\ ~ HasRecord(s, Len(redo)) => StateIn(redo, n, s) = "active"
           /\ StateIn(redo, n, s) = "active" \/
                  \E i \in 1 .. n : redo[i].trx = s /\ StateIn(redo, n, s) = redo[i].type
<1>1. n \in 0 .. Len(redo) /\ redo \in Seq(RedoRecord) /\ written \in 0 .. Len(redo) /\ Len(redo) \in Nat
  BY DEF LogTypes
<1>2. \/ /\ StateIn(redo, n, s) = "active"
         /\ \A i \in 1 .. n : redo[i].trx # s
      \/ \E i \in 1 .. n :
             /\ redo[i].trx = s
             /\ \A j \in i + 1 .. n : redo[j].trx # s
             /\ StateIn(redo, n, s) = redo[i].type
  BY <1>1, StateOfLastRecord
<1> QED BY <1>1, <1>2 DEF HasRecord

\* A crash keeps what the records, the binary log and the clients agree on.
LEMMA CrashKeepsRecords ==
    ASSUME LogTypes, FateTypes, Course, BinlogCourse, RecordsAgree, RepliesRecorded, BinlogOnce, Decided, Positions,
           NEW n \in Nat, CrashAt(n)
    PROVE  /\ Course' /\ BinlogCourse' /\ RecordsAgree' /\ Recovered' /\ RepliesRecorded'
           /\ BinlogOnce' /\ CommitterLast' /\ Decided' /\ Positions'
<1>1. /\ n \in written .. Len(redo) /\ written \in Nat /\ Len(redo) \in Nat /\ Len(redo') = n /\ written' = n
      /\ \A i \in 1 .. n : redo'[i] = redo[i]
  BY DEF CrashAt
<1>2. \A s \in Sessions : pc'[s] = IF pc[s] \in {"new", "done"} THEN pc[s] ELSE "dead"
  BY DEF CrashAt
<1>3. \A s \in Sessions :
          /\ StateIn(redo', n, s) = StateIn(redo, n, s)
          /\ conc_state'[s] = IF StateIn(redo, n, s) = "prepared" THEN "prepared" ELSE "not_started"
  BY DEF CrashAt
<1>4. plan'.kind = plan.kind /\ open' = FALSE /\ UNCHANGED <<rows, outcome, pos, reply, wrote, binlog>>
  BY DEF CrashAt
<1>5. \A s \in Sessions : InBinlog(s)' <=> InBinlog(s) BY <1>4 DEF InBinlog
<1>6. \A s \in Sessions : HasRecord(s, written) => HasRecord(s, written)' /\ HasRecord(s, Len(redo))'
  BY <1>1 DEF HasRecord
<1>7. \A s \in Sessions : HasRecord(s, Len(redo))' => HasRecord(s, Len(redo)) BY <1>1 DEF HasRecord
<1>8. ASSUME NEW s \in Sessions
      PROVE  CourseOf(s)'
 <2>1. ASSUME reply[s] \in {"committed", "rolledback"}, pc[s] = "dead"
       PROVE  conc_state'[s] # "prepared"
  <3>1. CASE s \in wrote
   <4>1. LastIs(s, written, reply[s]) BY <2>1, <3>1 DEF RepliesRecorded, RepliesRecordedOf
   <4>2. StateIn(redo, n, s) = reply[s] BY <1>1, <4>1, LastDecides
   <4> QED BY <1>3, <2>1, <4>2
  <3>2. CASE s \notin wrote
   <4>1. ~ HasRecord(s, Len(redo)) BY <3>2 DEF RecordsAgree, RecordsAgreeOf
   <4>2. StateIn(redo, n, s) = "active" BY <1>1, <4>1, RecordDecides
   <4> QED BY <1>3, <4>2
  <3> QED BY <3>1, <3>2
 <2>2. CourseOf(s) BY DEF Course
 <2> QED BY <1>2, <1>4, <2>1, <2>2 DEF CourseOf, Ending
<1>9. ASSUME NEW s \in Sessions
      PROVE  BinlogCourseOf(s)'
  BY <1>2, <1>4, <1>5 DEF BinlogCourse, BinlogCourseOf, Committing, Ending
<1>10. ASSUME NEW s \in Sessions
       PROVE  RecordsAgreeOf(s)'
 <2>1. RecordsAgreeOf(s) BY DEF RecordsAgree
 <2>2. \A i \in 1 .. Len(redo') : redo'[i] = redo[i] /\ i \in 1 .. Len(redo) BY <1>1
 <2> QED BY <1>2, <1>4, <1>5, <1>6, <1>7, <2>1, <2>2 DEF RecordsAgreeOf
<1>11. ASSUME NEW s \in Sessions
       PROVE  RecoveredOf(s)'
  BY <1>1, <1>3, <1>4 DEF RecoveredOf
<1>12. ASSUME NEW s \in Sessions
       PROVE  RepliesRecordedOf(s)'
 <2>1. \A type : LastIs(s, written, type) => LastIs(s, written, type)' BY <1>1 DEF LastIs
 <2>2. RepliesRecordedOf(s) BY DEF RepliesRecorded
 <2>3. pc'[s] \notin {"finish_flush", "end"} BY <1>2
 <2> QED BY <1>4, <1>6, <2>1, <2>2, <2>3 DEF RepliesRecordedOf
<1>13. BinlogOnce' BY <1>4 DEF BinlogOnce
<1>14. CommitterLast' BY <1>2 DEF CommitterLast, CommitterLastOf
<1>15. ASSUME NEW s \in Sessions
       PROVE  DecidedOf(s)'
 <2>1. SUFFICES ASSUME plan.kind[s] = "binlog", s \in wrote, InBinlog(s)
                PROVE  (pc'[s] = "dead" /\ conc_state'[s] = "prepared") \/ HasCommit(s, Len(redo))'
   BY <1>4, <1>5 DEF DecidedOf
 <2>2. PICK i \in 1 .. n : redo[i].trx = s /\ StateIn(redo, n, s) = redo[i].type
   BY <1>1, <2>1, RecordDecides DEF RecordsAgree, RecordsAgreeOf
 <2>3. redo[i].type \in {"prepared", "committed"}
  <3>1. redo[i].type # "rolledback" /\ i \in 1 .. Len(redo)
    BY <1>1, <2>1, <2>2 DEF RecordsAgree, RecordsAgreeOf
  <3>2. redo[i] \in RedoRecord BY <3>1 DEF LogTypes
  <3> QED BY <3>1, <3>2 DEF RedoRecord
 <2>4. CASE redo[i].type = "committed" BY <1>1, <2>2, <2>4 DEF HasCommit
 <2>5. CASE redo[i].type = "prepared"
  <3>1. conc_state'[s] = "prepared" BY <1>3, <2>2, <2>5
  <3>2. pc[s] # "new" /\ pc[s] # "done"
   <4>1. pc[s] # "new" BY <2>1 DEF BinlogCourse, BinlogCourseOf, Ending
   <4>2. ASSUME pc[s] = "done"
         PROVE  FALSE
    <5>1. outcome[s] = "committed" /\ reply[s] = "committed"
      BY <2>1, <4>2 DEF BinlogCourse, BinlogCourseOf, Ending, Course, CourseOf
    <5>2. LastIs(s, written, "committed") BY <2>1, <5>1 DEF RepliesRecorded, RepliesRecordedOf
    <5>3. StateIn(redo, n, s) = "committed" BY <1>1, <5>2, LastDecides
    <5> QED BY <2>2, <2>5, <5>3
   <4> QED BY <4>1, <4>2
  <3> QED BY <1>2, <3>1, <3>2
 <2> QED BY <2>3, <2>4, <2>5
<1>16. ASSUME NEW i \in 1 .. n
       PROVE  PositionOf(i)'
 <2>1. PICK r : r = redo[i] OBVIOUS
 <2>2. redo[i] = r /\ redo'[i] = r /\ i \in 1 .. Len(redo) BY <1>1, <2>1
 <2>3. PositionOf(i) BY <2>2 DEF Positions
 <2>4. \A e : HasCommit(e, i - 1) <=> HasCommit(e, i - 1)' BY <1>1 DEF HasCommit
 <2>5. SUFFICES ASSUME r.type = "committed", r.pos # 0, plan'.kind[r.trx] \in TwoPhaseKinds
                PROVE  /\ r.pos \in 1 .. Len(binlog') /\ binlog'[r.pos] = r.trx
                       /\ \A e : \A q \in 1 .. r.pos - 1 :
                              binlog'[q] = e /\ plan'.kind[e] = "binlog" /\ e \in wrote' => HasCommit(e, i - 1)'
   BY <2>2 DEF PositionOf, HasCommit
 <2>6. plan'.kind = plan.kind /\ binlog' = binlog /\ wrote' = wrote BY <1>4
 <2> QED BY <2>2, <2>3, <2>4, <2>5, <2>6 DEF PositionOf
<1>17. Positions' BY <1>1, <1>16 DEF Positions
<1> QED
  BY <1>8, <1>9, <1>10, <1>11, <1>12, <1>13, <1>14, <1>15, <1>17 DEF Course, BinlogCourse,
     RecordsAgree, Recovered, RepliesRecorded, Decided

-----------------------------------------------------------------------------
(* The invariant is inductive *)

\* The invariant holds at the start.
LEMMA InitInvariant == Init => IInv
<1> SUFFICES ASSUME Init
             PROVE  IInv
  OBVIOUS
<1> USE DEF Init
<1>1. plan \in PlanType BY TwoPhaseAssumption
<1>2. /\ plan.kind \in [Sessions -> Kinds] /\ plan.rows \in [Sessions -> Nat]
      /\ plan.slots \in Nat /\ plan.settings \subseteq Concurrency
  BY <1>1 DEF PlanType
<1>3. Queued = {} BY DEF ConcInit, Queued
<1>4. Cardinality({}) = 0 BY FS_EmptySet
<1>5. Tickets
 <2>1. ConcTypeOK BY <1>2, SrvConcAssumption DEF ConcInit, ConcTypeOK
 <2>2. PlacesCounted BY <1>3, <1>4 DEF ConcInit, PlacesCounted
 <2>3. QueuedOnce /\ SignalsOwed BY <1>3 DEF ConcInit, QueuedOnce, SignalsOwed
 <2> QED BY <2>1, <2>2, <2>3 DEF Tickets
<1>6. FateTypes BY DEF FateTypes, Labels
<1>7. Len(redo) = 0 /\ Len(binlog) = 0 /\ redo = <<>> /\ binlog = <<>> OBVIOUS
<1>8. CounterTypes /\ LogTypes BY <1>2, <1>7 DEF CounterTypes, LogTypes
<1>9. Whereabouts BY <1>3 DEF ConcInit, Whereabouts, WhereaboutsOf
<1>10. CommitsCounted
 <2>1. {s \in Sessions : pc[s] = "commit_wait"} = {} OBVIOUS
 <2>2. {s \in Sessions : pc[s] \in Ending /\ outcome[s] = "committed"} = {} BY DEF Ending
 <2> QED BY <1>4, <2>1, <2>2 DEF CommitsCounted
<1>11. Course /\ MutexHeld
  BY SrvConcAssumption DEF Course, CourseOf, MutexHeld, MutexHeldOf, Committing, Ending
<1>12. \A s \in Sessions : ~ InBinlog(s) /\ pc[s] = "new" /\ reply[s] = "none" /\ s \notin wrote
  BY <1>7 DEF InBinlog, Contains
<1>13. \A n \in {0, Len(redo)} : \A s \in Sessions : ~ HasRecord(s, n) BY <1>7 DEF HasRecord
<1>14. BinlogCourse /\ Recovered /\ RepliesRecorded
  BY <1>12 DEF BinlogCourse, BinlogCourseOf, Committing, Ending, Recovered, RecoveredOf,
     RepliesRecorded, RepliesRecordedOf
<1>15. RecordsAgree BY <1>7, <1>12, <1>13 DEF RecordsAgree, RecordsAgreeOf
<1>16. BinlogOnce /\ CommitterLast /\ Decided /\ Positions
  BY <1>7, <1>12 DEF BinlogOnce, CommitterLast, CommitterLastOf, Decided, DecidedOf, Positions
<1> QED BY <1>1, <1>5, <1>6, <1>8, <1>9, <1>10, <1>11, <1>14, <1>15, <1>16 DEF IInv, SessionTypes

\* Every step of a session keeps the invariant.
LEMMA SessionStepInvariant ==
    ASSUME IInv, NEW s \in Sessions, SessionStep(s)
    PROVE  IInv'
<1> USE DEF IInv, SessionTypes
<1>1. plan' \in PlanType BY PlanStays
<1>2. FateTypes' /\ CounterTypes' /\ LogTypes' BY FateTypesStep, CounterTypesStep, LogTypesStep
<1>3. Tickets' /\ Whereabouts' /\ CommitsCounted' BY WhereaboutsStep, CommitsCountedStep
<1>4. Course' /\ MutexHeld' /\ BinlogCourse' BY CourseStep, MutexHeldStep, BinlogCourseStep
<1>5. RecordsAgree' /\ Recovered' /\ RepliesRecorded'
  BY RecordsAgreeStep, RecoveredStep, RepliesRecordedStep
<1>6. BinlogOnce' /\ CommitterLast' /\ Decided' /\ Positions'
  BY LogMoves, BinlogOnceStep, CommitterLastStep, DecidedStep, PositionsStep
<1> QED BY <1>1, <1>2, <1>3, <1>4, <1>5, <1>6

\* A crash keeps the invariant.
LEMMA CrashInvariant ==
    ASSUME IInv, Crash
    PROVE  IInv'
<1> USE DEF IInv, SessionTypes
<1>1. PICK n \in Nat : CrashAt(n) BY CrashMoves
<1> QED BY <1>1, CrashTypes, CrashKeepsRecords

\* The parts about the sessions and the logs do not depend on the tickets, and
\* little on open.
LEMMA SettledInvariant ==
    ASSUME IInv, Tickets', Queued' = Queued, UNCHANGED <<declared, n_tickets>>,
           UNCHANGED <<sess_vars, lock_vars, commit_vars, log_vars, plan>>,
           open' \in BOOLEAN, open => open',
           open' /\ ~ open => \A s \in Sessions : plan.kind[s] = "binlog" => conc_state[s] # "prepared"
    PROVE  IInv'
<1> USE DEF IInv, SessionTypes, sess_vars, lock_vars, commit_vars, log_vars
<1>1. FateTypes' /\ CounterTypes' /\ LogTypes' BY DEF FateTypes, CounterTypes, LogTypes
<1>2. Whereabouts' /\ CommitsCounted' BY DEF Whereabouts, WhereaboutsOf, CommitsCounted
<1>3. Course' /\ MutexHeld' BY DEF Course, CourseOf, MutexHeld, MutexHeldOf, Committing
<1>4. BinlogCourse' /\ RecordsAgree'
  BY DEF BinlogCourse, BinlogCourseOf, Committing, InBinlog, RecordsAgree, RecordsAgreeOf, HasRecord
<1>5. Recovered' /\ RepliesRecorded'
  BY DEF Recovered, RecoveredOf, RepliesRecorded, RepliesRecordedOf, HasRecord, LastIs
<1>6. BinlogOnce' /\ CommitterLast' /\ Decided' /\ Positions'
  BY DEF BinlogOnce, CommitterLast, CommitterLastOf, Committing, Decided, DecidedOf, InBinlog,
     HasCommit, Positions, PositionOf
<1> QED BY <1>1, <1>2, <1>3, <1>4, <1>5, <1>6

\* A new innodb_thread_concurrency moves nobody.
LEMMA ChangeSettingKeepsTickets ==
    ASSUME Tickets, plan \in PlanType, ChangeSetting
    PROVE  Tickets' /\ Queued' = Queued /\ UNCHANGED <<declared, n_tickets>>
<1>1. PICK n \in plan.settings : SetConcurrency(n) BY DEF ChangeSetting
<1>2. n \in Concurrency BY DEF PlanType
<1> QED
  BY <1>1, <1>2 DEF SetConcurrency, Tickets, ConcTypeOK, PlacesCounted, QueuedOnce, SignalsOwed,
     Queued

\* Every step keeps the invariant.
LEMMA NextInvariant ==
    ASSUME IInv, [Next]_vars
    PROVE  IInv'
<1>1. ASSUME NEW s \in Sessions, SessionStep(s)
      PROVE  IInv'
  BY <1>1, SessionStepInvariant
<1>2. CASE Crash BY <1>2, CrashInvariant
<1>3. CASE ChangeSetting
 <2>1. UNCHANGED <<sess_vars, lock_vars, commit_vars, log_vars, plan, open>>
   BY <1>3 DEF ChangeSetting, fate_vars
 <2>2. open \in BOOLEAN BY DEF IInv, SessionTypes, FateTypes
 <2>3. Tickets' /\ Queued' = Queued /\ UNCHANGED <<declared, n_tickets>>
   BY <1>3, ChangeSettingKeepsTickets DEF IInv, SessionTypes
 <2> QED BY <2>1, <2>2, <2>3, SettledInvariant
<1>4. CASE OpenServer
 <2>1. /\ UNCHANGED <<conc_vars, sess_vars, lock_vars, commit_vars, log_vars, plan>>
       /\ open' = TRUE
       /\ \A s \in Sessions : plan.kind[s] = "binlog" => conc_state[s] # "prepared"
   BY <1>4 DEF OpenServer
 <2>2. Tickets' /\ Queued' = Queued /\ UNCHANGED <<declared, n_tickets>>
   BY <2>1 DEF IInv, conc_vars, Tickets, ConcTypeOK, PlacesCounted, QueuedOnce, SignalsOwed, Queued
 <2>3. open' \in BOOLEAN /\ (open => open') BY <2>1
 <2> QED BY <2>1, <2>2, <2>3, SettledInvariant
<1>5. CASE UNCHANGED vars
 <2>1. UNCHANGED <<conc_vars, sess_vars, lock_vars, commit_vars, log_vars, plan, open>>
   BY <1>5 DEF vars, fate_vars
 <2>2. Tickets' /\ Queued' = Queued /\ UNCHANGED <<declared, n_tickets>>
   BY <2>1 DEF IInv, conc_vars, Tickets, ConcTypeOK, PlacesCounted, QueuedOnce, SignalsOwed, Queued
 <2>3. open \in BOOLEAN BY DEF IInv, SessionTypes, FateTypes
 <2> QED BY <2>1, <2>2, <2>3, SettledInvariant
<1> QED BY <1>1, <1>2, <1>3, <1>4, <1>5 DEF Next, SessionStep

\* The invariant holds for any number of sessions, plan and order of their steps.
THEOREM InductiveInvariant == Spec => []IInv
<1>1. Init => IInv BY InitInvariant
<1>2. IInv /\ [Next]_vars => IInv' BY NextInvariant
<1> QED BY <1>1, <1>2, PTL DEF Spec

-----------------------------------------------------------------------------
(* What it gives *)

\* The types, the exact counter of srv_conc_enter_innodb and the count of the committing
\* threads, TypeOK, hold in every state.
THEOREM TypeCorrect == Spec => []TypeOK
<1>1. IInv => TypeOK
 <2> SUFFICES ASSUME IInv
              PROVE  TypeOK
   OBVIOUS
 <2>1. ConcTypeOK /\ PlacesCounted BY DEF IInv, Tickets
 <2>2. FateTypes /\ CounterTypes /\ LogTypes /\ plan \in PlanType BY DEF IInv, SessionTypes
 <2>3. \A s \in Sessions : pc[s] \in {"enter", "enter_slept"} /\ n_tickets[s] = 0 => s \notin declared
   BY DEF IInv, Whereabouts, WhereaboutsOf
 <2>4. /\ commit_waiters = { s \in Sessions : pc[s] = "commit_wait" }
       /\ plan.commits > 0 =>
              commit_threads = Cardinality({ s \in Sessions :
                  /\ pc[s] \in {"finish", "finish_flush", "end"}
                  /\ outcome[s] = "committed" })
   BY DEF IInv, CommitsCounted, Ending
 <2> QED BY <2>1, <2>2, <2>3, <2>4 DEF TypeOK, FateTypes, CounterTypes, LogTypes
<1> QED BY <1>1, InductiveInvariant, PTL

\* UndoState is StateIn of the redo log.
LEMMA UndoStateIsStateIn ==
    \A s \in Sessions, n \in Kept : UndoState(n, s) = StateIn(redo, n, s)
  BY DEF UndoState, StateIn

\* Whatever a crash leaves, the redo log and the binary log agree on every transaction of
\* the two-phase commit: LogsAgree holds in every state.
THEOREM BinlogAgrees == Spec => []LogsAgree
<1>1. IInv => LogsAgree
 <2> SUFFICES ASSUME IInv, NEW s \in Sessions, plan.kind[s] = "binlog", s \in wrote
              PROVE  /\ \A n \in Kept :
                            IF Contains(binlog, s)
                            THEN UndoState(n, s) \in {"prepared", "committed"}
                            ELSE UndoState(n, s) # "committed"
                     /\ open /\ pc[s] = "dead" => UndoState(Len(redo), s) # "prepared"
   BY DEF LogsAgree
 <2>1. LogTypes /\ RecordsAgreeOf(s) /\ RecoveredOf(s)
   BY DEF IInv, SessionTypes, RecordsAgree, Recovered
 <2>2. \A i \in 1 .. Len(redo) : redo[i].type \in {"prepared", "committed", "rolledback"}
  <3>1. \A i \in 1 .. Len(redo) : redo[i] \in RedoRecord BY <2>1 DEF LogTypes
  <3> QED BY <3>1 DEF RedoRecord
 <2>3. ASSUME NEW n \in Kept
       PROVE  IF Contains(binlog, s)
              THEN UndoState(n, s) \in {"prepared", "committed"}
              ELSE UndoState(n, s) # "committed"
  <3>1. n \in written .. Len(redo) /\ written \in 0 .. Len(redo) /\ Len(redo) \in Nat
    BY <2>1 DEF Kept, LogTypes
  <3>2. UndoState(n, s) = StateIn(redo, n, s) BY UndoStateIsStateIn
  <3>3. CASE InBinlog(s)
   <4>1. PICK i \in 1 .. n : redo[i].trx = s /\ StateIn(redo, n, s) = redo[i].type
     BY <2>1, <3>1, <3>3, RecordDecides DEF RecordsAgreeOf
   <4>2. i \in 1 .. Len(redo) /\ redo[i].type # "rolledback"
     BY <2>1, <3>1, <3>3, <4>1 DEF RecordsAgreeOf
   <4> QED BY <2>2, <3>2, <3>3, <4>1, <4>2 DEF InBinlog
  <3>4. CASE ~ InBinlog(s)
   <4>1. \A i \in 1 .. n : redo[i].trx = s => redo[i].type # "committed"
     BY <2>1, <3>1, <3>4 DEF RecordsAgreeOf
   <4>2. StateIn(redo, n, s) = "active" \/
            \E i \in 1 .. n : redo[i].trx = s /\ StateIn(redo, n, s) = redo[i].type
     BY <2>1, <3>1, RecordDecides
   <4> QED BY <3>2, <3>4, <4>1, <4>2 DEF InBinlog
  <3> QED BY <3>3, <3>4
 <2>4. ASSUME open, pc[s] = "dead"
       PROVE  UndoState(Len(redo), s) # "prepared"
  <3>1. Len(redo) \in Kept BY <2>1 DEF LogTypes, Kept
  <3> QED BY <2>1, <2>4, <3>1, UndoStateIsStateIn DEF RecoveredOf
 <2> QED BY <2>3, <2>4
<1> QED BY <1>1, InductiveInvariant, PTL

\* What a client was told survives every crash: PromisesKept holds in every state.
THEOREM PromisesSurvive == Spec => []PromisesKept
<1>1. IInv => PromisesKept
 <2> SUFFICES ASSUME IInv, NEW s \in wrote, NEW n \in Kept
              PROVE  /\ reply[s] = "committed" => UndoState(n, s) = "committed"
                     /\ reply[s] = "prepared" => UndoState(n, s) \in {"prepared", "committed", "rolledback"}
                     /\ reply[s] = "rolledback" => UndoState(n, s) \notin {"prepared", "committed"}
   BY DEF PromisesKept
 <2>1. LogTypes /\ s \in Sessions /\ RepliesRecordedOf(s)
   BY DEF IInv, SessionTypes, FateTypes, RepliesRecorded
 <2>2. n \in written .. Len(redo) /\ written \in 0 .. Len(redo) /\ Len(redo) \in Nat
   BY <2>1 DEF Kept, LogTypes
 <2>3. UndoState(n, s) = StateIn(redo, n, s) BY <2>1, UndoStateIsStateIn
 <2>4. ASSUME reply[s] \in {"committed", "rolledback"}
       PROVE  UndoState(n, s) = reply[s]
  <3>1. LastIs(s, written, reply[s]) BY <2>1, <2>4 DEF RepliesRecordedOf
  <3>2. StateIn(redo, n, s) = reply[s] BY <2>1, <2>2, <3>1, LastDecides
  <3> QED BY <2>3, <3>2
 <2>5. ASSUME reply[s] = "prepared"
       PROVE  UndoState(n, s) \in {"prepared", "committed", "rolledback"}
  <3>1. PICK i \in 1 .. n : redo[i].trx = s /\ StateIn(redo, n, s) = redo[i].type
    BY <2>1, <2>2, <2>5, RecordDecides DEF RepliesRecordedOf
  <3>2. redo[i] \in RedoRecord BY <2>1, <2>2 DEF LogTypes
  <3> QED BY <2>3, <3>1, <3>2 DEF RedoRecord
 <2> QED BY <2>4, <2>5
<1> QED BY <1>1, InductiveInvariant, PTL

\* The order of the commits in the redo log is that of the binary log: OrderKept holds in
\* every state.
THEOREM LogOrderKept == Spec => []OrderKept
<1>1. IInv => OrderKept
 <2> SUFFICES ASSUME IInv, NEW i \in DOMAIN redo, redo[i].type = "committed", redo[i].pos # 0,
                     plan.kind[redo[i].trx] \in {"binlog", "binlog_noxa"}
              PROVE  /\ binlog[redo[i].pos] = redo[i].trx
                     /\ \A q \in 1 .. redo[i].pos - 1 :
                            plan.kind[binlog[q]] = "binlog" /\ binlog[q] \in wrote =>
                                \E j \in 1 .. i - 1 : redo[j].trx = binlog[q] /\ redo[j].type = "committed"
   BY DEF OrderKept
 <2>1. i \in 1 .. Len(redo) BY DEF IInv, SessionTypes, LogTypes
 <2>2. PositionOf(i) BY <2>1 DEF IInv, Positions
 <2> QED BY <2>2 DEF PositionOf, TwoPhaseKinds, HasCommit
<1> QED BY <1>1, InductiveInvariant, PTL
=============================================================================
