----------------------------- MODULE MCFbShare -----------------------------
(* FbShare for TLC: the two deployments. *)
EXTENDS FbShare, TLC

CONSTANTS p1, p2, p3, o1

\* Three members one after the other, on a segment they create themselves.
SerialWorld ==
  [procs |-> {p1, p2, p3}, sizes |-> Sizes, serial |-> TRUE, ownerStays |-> TRUE,
   leftOver |-> FALSE, mayFail |-> TRUE, crashAt |-> Points]

\* Two members and an observer at the same time, on a segment left by others.
SharedWorld ==
  [procs |-> {p1, p2, o1}, sizes |-> {2}, serial |-> FALSE, ownerStays |-> FALSE,
   leftOver |-> TRUE, mayFail |-> FALSE, crashAt |-> {"total", "free", "pid", "run", "store"}]

BothWorlds == {SerialWorld, SharedWorld}

=============================================================================
