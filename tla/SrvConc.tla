------------------------------ MODULE SrvConc ------------------------------
(***************************************************************************)
(* The tickets of srv/srv0srv.c: at most srv_thread_concurrency threads    *)
(* are inside InnoDB, the others wait in a FIFO queue of slots.  Each      *)
(* operator is one section of the code between the lock and the unlock of  *)
(* srv_conc_mutex; TwoPhase says when a session runs it.                   *)
(*                                                                         *)
(* The one step of this part that is taken outside of the mutex is the     *)
(* os_event_set of the slot a leaving thread has chosen: until then the    *)
(* thread that leaves has that slot in to_signal.                          *)
(***************************************************************************)
EXTENDS Naturals, Integers, Sequences, FiniteSets, SequencesExt

CONSTANTS
    Sessions,           \* the MySQL threads, and their trx structs
    NoSession,
    Slaves,             \* those for which thd_is_replication_slave_thread
    Concurrency,        \* the values innodb_thread_concurrency is set to
    FreeTickets         \* srv_n_free_tickets_to_enter

ASSUME SrvConcAssumption ==
    /\ IsFiniteSet(Sessions)
    /\ NoSession \notin Sessions
    /\ Slaves \subseteq Sessions
    /\ Concurrency \subseteq Nat \ {0}
    /\ Concurrency # {}
    /\ FreeTickets \in Nat \ {0}

VARIABLES
    srv_max_n_threads,  \* the number of wait slots, fixed at startup
    srv_thread_concurrency,
    srv_conc_n_threads,
    srv_conc_queue,     \* the sessions that have a slot, in order of arrival
    wait_ended,         \* the slots somebody has released
    event_set,          \* the slots whose event is set
    declared,           \* trx->declared_to_be_inside_innodb
    n_tickets,          \* trx->n_tickets_to_enter_innodb
    to_signal           \* the slot a thread is about to signal, or NoSession

conc_vars == <<srv_max_n_threads, srv_thread_concurrency, srv_conc_n_threads, srv_conc_queue,
               wait_ended, event_set, declared, n_tickets, to_signal>>

Queued == { srv_conc_queue[i] : i \in DOMAIN srv_conc_queue }

ConcInit(slots, settings) ==
    /\ srv_max_n_threads = slots
    /\ srv_thread_concurrency \in settings
    /\ srv_conc_n_threads = 0
    /\ srv_conc_queue = <<>>
    /\ wait_ended = {}
    /\ event_set = {}
    /\ declared = {}
    /\ n_tickets = [s \in Sessions |-> 0]
    /\ to_signal = [s \in Sessions |-> NoSession]

\* SET GLOBAL innodb_thread_concurrency.
SetConcurrency(n) ==
    /\ srv_thread_concurrency # n
    /\ srv_thread_concurrency' = n
    /\ UNCHANGED <<srv_max_n_threads, srv_conc_n_threads, srv_conc_queue, wait_ended, event_set, declared,
                   n_tickets, to_signal>>

-----------------------------------------------------------------------------
(* srv_conc_enter_innodb *)

HasRoom == srv_conc_n_threads < srv_thread_concurrency

\* A replication thread polls for room, but for srv_replication_delay at most: it enters
\* sooner or later, room or none, and is not counted.
EnterAsSlave(s) ==
    /\ s \in Slaves
    /\ UNCHANGED conc_vars

\* A free ticket is used up.
EnterByTicket(s) ==
    /\ s \notin Slaves
    /\ n_tickets[s] > 0
    /\ n_tickets' = [n_tickets EXCEPT ![s] = @ - 1]
    /\ UNCHANGED <<srv_max_n_threads, srv_thread_concurrency, srv_conc_n_threads, srv_conc_queue, wait_ended,
                   event_set, declared, to_signal>>

\* What follows is for those who have no ticket.
NeedsPlace(s) == s \notin Slaves /\ n_tickets[s] = 0

\* The thread is counted, and gets the given number of tickets.
TakePlace(s, tickets) ==
    /\ srv_conc_n_threads' = srv_conc_n_threads + 1
    /\ declared' = declared \cup {s}
    /\ n_tickets' = [n_tickets EXCEPT ![s] = tickets]
    /\ UNCHANGED <<srv_max_n_threads, srv_thread_concurrency, srv_conc_queue, wait_ended, event_set, to_signal>>

EnterRoom(s) == NeedsPlace(s) /\ HasRoom /\ TakePlace(s, FreeTickets)

SlotFree == Len(srv_conc_queue) < srv_max_n_threads

EnterWithoutSlot(s) ==
    /\ NeedsPlace(s)
    /\ ~HasRoom
    /\ ~SlotFree
    /\ TakePlace(s, 0)

\* The slot is reserved, put at the end of the queue, and its event reset.
Enqueue(s) ==
    /\ NeedsPlace(s)
    /\ ~HasRoom
    /\ SlotFree
    /\ srv_conc_queue' = Append(srv_conc_queue, s)
    /\ wait_ended' = wait_ended \ {s}
    /\ event_set' = event_set \ {s}
    /\ UNCHANGED <<srv_max_n_threads, srv_thread_concurrency, srv_conc_n_threads, declared, n_tickets, to_signal>>

\* After the wait; who released the slot has counted the thread already.
LeaveQueue(s) ==
    /\ s \in event_set
    /\ \E i \in DOMAIN srv_conc_queue :
           srv_conc_queue[i] = s /\ srv_conc_queue' = RemoveAt(srv_conc_queue, i)
    /\ wait_ended' = wait_ended \ {s}
    /\ declared' = declared \cup {s}
    /\ n_tickets' = [n_tickets EXCEPT ![s] = FreeTickets]
    /\ UNCHANGED <<srv_max_n_threads, srv_thread_concurrency, srv_conc_n_threads, event_set, to_signal>>

-----------------------------------------------------------------------------
(* Leaving, and coming back from a lock wait *)

\* srv_conc_force_enter_innodb
ForceEnter(s) == TakePlace(s, 1)

\* The first slot in the queue that nobody has released yet.
FirstWaiting ==
    LET i == SelectInSeq(srv_conc_queue, LAMBDA t : t \notin wait_ended)
    IN  IF i = 0 THEN NoSession ELSE srv_conc_queue[i]

\* Mutant: the released thread is not counted on its behalf.
ForceExitUncounted(s) ==
    LET next == IF srv_conc_n_threads - 1 < srv_thread_concurrency THEN FirstWaiting ELSE NoSession
    IN  /\ s \in declared
        /\ srv_conc_n_threads' = srv_conc_n_threads - 1
        /\ wait_ended' = wait_ended \cup ({next} \ {NoSession})
        /\ declared' = declared \ {s}
        /\ n_tickets' = [n_tickets EXCEPT ![s] = 0]
        /\ to_signal' = [to_signal EXCEPT ![s] = next]
        /\ UNCHANGED <<srv_max_n_threads, srv_thread_concurrency, srv_conc_queue, event_set>>

\* srv_conc_force_exit_innodb of a thread that is declared inside: if there is
\* room now, the first waiting thread is released and counted on its behalf.
ForceExit(s) ==
    LET left == srv_conc_n_threads - 1
        next == IF left < srv_thread_concurrency THEN FirstWaiting ELSE NoSession
    IN  /\ s \in declared
        /\ srv_conc_n_threads' = IF next = NoSession THEN left ELSE left + 1
        /\ wait_ended' = wait_ended \cup ({next} \ {NoSession})
        /\ declared' = declared \ {s}
        /\ n_tickets' = [n_tickets EXCEPT ![s] = 0]
        /\ to_signal' = [to_signal EXCEPT ![s] = next]
        /\ UNCHANGED <<srv_max_n_threads, srv_thread_concurrency, srv_conc_queue, event_set>>

\* innobase_release_stat_resources
ReleaseTicket(s) ==
    \/ ForceExit(s)
    \/ s \notin declared /\ UNCHANGED conc_vars

\* srv_conc_exit_innodb: with tickets left the thread stays declared inside.
ExitInnodb(s) ==
    \/ n_tickets[s] > 0 /\ UNCHANGED conc_vars
    \/ n_tickets[s] = 0 /\ ReleaseTicket(s)

\* os_event_set, after srv_conc_mutex has been released.
SetEvent(s) ==
    /\ to_signal[s] # NoSession
    /\ event_set' = event_set \cup {to_signal[s]}
    /\ to_signal' = [to_signal EXCEPT ![s] = NoSession]
    /\ UNCHANGED <<srv_max_n_threads, srv_thread_concurrency, srv_conc_n_threads, srv_conc_queue, wait_ended,
                   declared, n_tickets>>

-----------------------------------------------------------------------------
ConcTypeOK ==
    /\ srv_max_n_threads \in Nat
    /\ srv_thread_concurrency \in Concurrency
    /\ srv_conc_n_threads \in Int
    /\ srv_conc_queue \in Seq(Sessions)
    /\ wait_ended \subseteq Sessions
    /\ event_set \subseteq Sessions
    /\ declared \subseteq Sessions
    /\ n_tickets \in [Sessions -> 0 .. FreeTickets]
    /\ to_signal \in [Sessions -> Sessions \cup {NoSession}]

\* The counter is the number of threads inside and of those let in that have
\* not noticed yet; a slot is in the queue once, and whoever was let in is
\* signalled or about to be, by one thread.
PlacesCounted ==
    /\ srv_conc_n_threads = Cardinality(declared) + Cardinality(wait_ended)
    /\ Cardinality(Queued) = Len(srv_conc_queue)
    /\ wait_ended \subseteq Queued
    /\ Queued \cap declared = {}
    /\ \A q \in wait_ended : q \in event_set <=> \A s \in Sessions : to_signal[s] # q
=============================================================================
