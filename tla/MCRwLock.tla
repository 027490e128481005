------------------------------ MODULE MCRwLock ------------------------------
EXTENDS RwLock, TLC

Symmetry == Permutations(Threads \ IoThreads)
=============================================================================
