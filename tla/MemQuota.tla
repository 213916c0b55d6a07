------------------------------ MODULE MemQuota ------------------------------
(***************************************************************************)
(* What the GPU memory limit promises, in one counter: `used' bytes are    *)
(* handed out, a grant never takes more than what is left of Limit, and a  *)
(* release gives back at most what was handed out.  IoctlHook is compared  *)
(* with it, `used' being the hook's own ledger.                            *)
(***************************************************************************)
EXTENDS Integers

CONSTANT Limit      \* fb_info->total_mem, a natural number

VARIABLE used

Init == used = 0

\* A grant is positive and fits in what is left.
Grant == \E n \in 1 .. Limit - used : used' = used + n

\* A release gives back part or all of what is used.
Release == \E n \in 1 .. used : used' = used - n

Next == Grant \/ Release

Spec == Init /\ [][Next]_used

=============================================================================
