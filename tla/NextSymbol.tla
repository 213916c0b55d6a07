----------------------------- MODULE NextSymbol -----------------------------
(***************************************************************************)
(* dlsym(RTLD_NEXT, symbol) (dlfcn.c: get_next_symbol).  The function is   *)
(* to find the symbol in the objects after the one that calls dlsym; it    *)
(* knows the caller's return address and the start address of each object  *)
(* of the link map, not which object the address is in.                    *)
(*                                                                         *)
(* An object is a record: its start address l_addr, its symbols, and the   *)
(* objects it depends on, which dlsym(handle) searches after it.           *)
(***************************************************************************)
EXTENDS Integers, Sequences, SequencesExt

CONSTANT Self   \* the position of the hook library in the link map

Defines(object, symbol) ==
  \E i \in 1 .. Len(object.symbols) :
    object.symbols[i].name = symbol /\ object.symbols[i].value # 0

\* dlsym(temp_map, symbol) (external): the object itself, then what it needs,
\* in load order; 0 for NULL.
LookupIn(map, o, symbol) ==
  LET hits == {d \in map[o].needs : Defines(map[d], symbol)}
  IN IF Defines(map[o], symbol) THEN o ELSE IF hits = {} THEN 0 ELSE Min(hits)

\* The objects from the hook library on that do not start above the caller.
NotAbove(map, caller) == {o \in Self .. Len(map) : map[caller].l_addr >= map[o].l_addr}

\* Mutant: the caller's object is searched, too.
SearchedAll(map, caller) == NotAbove(map, caller)

\* The first of them is taken for the caller's and skipped.
Searched(map, caller) ==
  LET below == NotAbove(map, caller) IN {o \in below : \E first \in below : first < o}

\* The object whose definition is returned, 0 for NULL: the first that has one.
\* dlopen(RTLD_NOLOAD) finds the objects of the link map; where it did not,
\* LOGGER(FATAL) would end the process and nothing would be returned.
get_next_symbol(map, caller, symbol) ==
  LET hits == {o \in Searched(map, caller) : LookupIn(map, o, symbol) # 0}
  IN IF hits = {} THEN 0 ELSE LookupIn(map, Min(hits), symbol)

=============================================================================
