---------------------------- MODULE MCListHead ----------------------------
EXTENDS ListHead, TLC

\* Heads and entries are interchangeable; only safety is checked.
Symmetry == Permutations(Heads) \cup Permutations(Entries)
=============================================================================
