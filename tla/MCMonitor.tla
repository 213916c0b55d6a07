----------------------------- MODULE MCMonitor -----------------------------
(***************************************************************************)
(* Monitor for TLC: worlds that vary the containers and the argument, with *)
(* a utilisation that meets the limit, and worlds that vary what           *)
(* delta_change sees.  MAX_CGROUP_ID_LEN is 4; ids are shorter than what   *)
(* is compared, as long or longer, and two share what is compared.         *)
(***************************************************************************)
EXTENDS Monitor

Containers == {<<"a", "b">>, <<"a", "b", "b">>, <<"a", "b", "a", "b">>, <<"a", "b", "a", "a", "b">>}

\* The first MaxIdLen - 1 characters, as the monitor compares them.
ShortIds == {Truncate(id, MaxIdLen - 1) : id \in Containers}

\* Nothing, or the end of a longer line read before.
Tails == {<<>>, <<"a", "b", Newline, NUL>>}

SearchWorlds ==
  [cgroup : [Pids -> Containers], arg : Containers \cup ShortIds, limit : {2}, utils : {{2}},
   averages : {{1}}]

ControlWorlds ==
  {[cgroup |-> [p \in Pids |-> <<"a", "b", "a", "b">>], arg |-> <<"a", "b", "a">>, limit |-> l,
    utils |-> {0, 1, 2, 3, 9}, averages |-> {0, 1, 5, 9}] : l \in {2, 5}}

AllWorlds == SearchWorlds \cup ControlWorlds

\* The containers, arguments and tails are of the kind the search relies on.
ASSUME IdsReadable

=============================================================================
