----------------------------- MODULE MCLockSys -----------------------------
\* The instances of the lock system that the runs are about.
EXTENDS LockSys, TLC

CONSTANTS t1, t2, t3

\* Three transactions of one statement read, change, insert and purge rows; the
\* deadlock search gives up early.
Rows ==
    [trxs |-> {t1, t2, t3}, rows |-> {2}, garbage |-> {}, read_committed |-> {}, nontrans |-> {},
     ix |-> {t1, t2, t3}, is |-> {}, tables |-> {}, reads |-> {"S", "X"}, splits |-> FALSE,
     timeouts |-> FALSE, statements |-> [t \in {t1, t2, t3} |-> 1], interval |-> 2, depth |-> 0]

\* Two of two statements, one of them at READ COMMITTED.
Levels ==
    [trxs |-> {t1, t2}, rows |-> {1}, garbage |-> {}, read_committed |-> {t2}, nontrans |-> {t1},
     ix |-> {t1, t2}, is |-> {}, tables |-> {}, reads |-> {"X"}, splits |-> FALSE,
     timeouts |-> TRUE, statements |-> [t \in {t1, t2} |-> 2], interval |-> 1, depth |-> 200]

\* One reads and the other writes, in pages that split, merge and are reorganised.
Splits ==
    [trxs |-> {t1, t2}, rows |-> {1, 3}, garbage |-> {1}, read_committed |-> {}, nontrans |-> {},
     ix |-> {t2}, is |-> {t1}, tables |-> {}, reads |-> {"S"}, splits |-> TRUE,
     timeouts |-> FALSE, statements |-> (t1 :> 1) @@ (t2 :> 2), interval |-> 1, depth |-> 200]

MCRowPlans == {Rows, Levels, Splits}

\* Three that lock only the table.
MCTablePlans ==
    {[trxs |-> {t1, t2, t3}, rows |-> {}, garbage |-> {}, read_committed |-> {}, nontrans |-> {t3},
      ix |-> {}, is |-> {}, tables |-> {"S", "AUTO_INC"}, reads |-> {}, splits |-> FALSE,
      timeouts |-> FALSE, statements |-> [t \in {t1, t2, t3} |-> 2], interval |-> 1, depth |-> 200]}
=============================================================================
