------------------------------ MODULE MCMvcc ------------------------------
\* Model values and symmetry for TLC.
EXTENDS Mvcc, TLC

Symmetry == Permutations(Writers \ Readers) \cup Permutations(Readers \ Writers)
            \cup Permutations(Writers \cap Readers)
=============================================================================
