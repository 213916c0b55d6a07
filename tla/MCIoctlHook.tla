---------------------------- MODULE MCIoctlHook ----------------------------
(* IoctlHook for TLC: threads and handles are interchangeable. *)
EXTENDS IoctlHook

Symmetry == Permutations(Threads) \cup Permutations(Handles)

=============================================================================
