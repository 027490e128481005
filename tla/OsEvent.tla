------------------------------- MODULE OsEvent -------------------------------
(***************************************************************************)
(* The event semaphore of os/os0sync.c (the POSIX build): a flag is_set    *)
(* and a counter signal_count, both changed under the event's own          *)
(* os_mutex, so that each operation is one atomic function of the event.   *)
(* A waiter hands the signal_count its own reset returned to the wait.     *)
(***************************************************************************)
EXTENDS Naturals

\* A fresh event: not set, signal_count 1 (0 means "no count given").
EventCreate == [is_set |-> FALSE, signal_count |-> 1]

\* os_event_set counts a signal only when the event was not set already.
EventSet(e) ==
    IF e.is_set THEN e
    ELSE [is_set |-> TRUE, signal_count |-> e.signal_count + 1]

\* os_event_reset clears the flag; it returns e.signal_count.
EventReset(e) == [e EXCEPT !.is_set = FALSE]

\* The test of the loop in os_event_wait_low: a waiter that was given the
\* count sc returns exactly when this holds, and once the event has been
\* signalled after sc was read it holds until the waiter returns.
EventWaitOver(e, sc) == e.is_set \/ e.signal_count # sc

EventType == [is_set : BOOLEAN, signal_count : Nat]
=============================================================================
