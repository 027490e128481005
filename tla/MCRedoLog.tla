------------------------------ MODULE MCRedoLog ------------------------------
(* RedoLog over model values: threads may be permuted, as each may do all.  *)
EXTENDS RedoLog, TLC

Symmetry == Permutations(Threads)

\* A mini-transaction changes a leaf page, or it and the page above.
Mtrs == {{1}, {1, 2}}
=============================================================================
