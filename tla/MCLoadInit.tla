----------------------------- MODULE MCLoadInit -----------------------------
(***************************************************************************)
(* LoadInit for TLC: any limits, with calls before the constructor from    *)
(* the loader's thread alone or from every thread.                         *)
(***************************************************************************)
EXTENDS LoadInit

AllEnvs == [mem : BOOLEAN, core : BOOLEAN, early : {{Loader}, Threads}]

=============================================================================
