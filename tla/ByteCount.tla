------------------------------ MODULE ByteCount ------------------------------
(***************************************************************************)
(* The sum of the values of a function from a finite set to the naturals,  *)
(* as the number of its bytes: f[x] of them belong to x.  It is used for   *)
(* what the driver holds and for what a list of allocations adds up to.    *)
(* (A fold gives the same number; a cardinality can be reasoned about with *)
(* the theorems about finite sets.)                                        *)
(***************************************************************************)
EXTENDS Integers, FiniteSets

Bytes(f) == UNION {{x} \X (1 .. f[x]) : x \in DOMAIN f}

Total(f) == Cardinality(Bytes(f))

=============================================================================
