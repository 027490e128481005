----------------------------- MODULE MCIbMutex -----------------------------
EXTENDS IbMutex, TLC

CONSTANTS t1, t2, t3

\* Three threads on a machine that keeps loads and stores in order, without the
\* monitor; two of them, twice, on one that does not, with the monitor.
MCPlans ==
    {[speculative |-> FALSE, monitor |-> FALSE, tries |-> 2,
      rounds |-> [t \in Threads |-> 1]],
     [speculative |-> TRUE, monitor |-> TRUE, tries |-> 1,
      rounds |-> [t \in Threads |-> IF t = t3 THEN 0 ELSE 2]]}
=============================================================================
