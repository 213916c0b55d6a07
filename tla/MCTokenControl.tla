--------------------------- MODULE MCTokenControl ---------------------------
(* TokenControl for TLC: processes that launch nothing are interchangeable. *)
EXTENDS TokenControl

Symmetry == Permutations(Clients \ Launchers)

=============================================================================
