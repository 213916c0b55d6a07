----------------------------- MODULE SymbolScan -----------------------------
(***************************************************************************)
(* How init() finds the real functions in one loaded object (entry.c:      *)
(* retrieve_symbols).  The number of symbols of an object is known from    *)
(* its DT_HASH entry only, and the entries of the dynamic section are used *)
(* in the order they come in.                                              *)
(*                                                                         *)
(* An object is a record: its name, the entries of its dynamic section     *)
(* that matter and its symbols, each with a value that is 0 if the object  *)
(* needs the symbol and does not define it.                                *)
(***************************************************************************)
EXTENDS Integers, Sequences, SequencesExt

CONSTANT Wanted   \* the functions looked for: dlsym, dlopen, ..., ioctl

\* The pointers of __dlfcn_data hold <<o, i>> for the i-th symbol of the o-th
\* object.
NotFound == <<0, 0>>

\* The executable has no name; the vdso has no real functions.
Skipped(object) == object.name \in {"", "vdso"}

DefinedAt(object, w) ==
  {i \in 1 .. Len(object.symbols) : object.symbols[i].name = w /\ object.symbols[i].value # 0}

\* Mutant: a symbol that is only needed is taken for a definition.
TakeNeeded(object, o, found) ==
  LET named(w) == {i \in 1 .. Len(object.symbols) : object.symbols[i].name = w}
  IN [w \in Wanted |->
        IF found[w] # NotFound \/ named(w) = {} THEN found[w] ELSE <<o, Min(named(w))>>]

\* The loop over the symbol table: the first definition of each function goes
\* to its pointer, unless the pointer is set already.
Take(object, o, found) ==
  [w \in Wanted |->
     IF found[w] # NotFound \/ DefinedAt(object, w) = {} THEN found[w]
     ELSE <<o, Min(DefinedAt(object, w))>>]

\* Whether the loop over the dynamic section has met `tag' when it is at entry j.
Met(object, tag, j) == \E i \in 1 .. j - 1 : object.dynamic[i] = tag

\* The entries at which it goes through the symbols: sym_cnt is 0 until DT_HASH.
Reads(object) ==
  {j \in 1 .. Len(object.dynamic) : object.dynamic[j] = "SYMTAB" /\ Met(object, "HASH", j)}

\* A name is read through strtab while that is NULL.
Faults(object) ==
  Len(object.symbols) > 0 /\ \E j \in Reads(object) : ~Met(object, "STRTAB", j)

\* The callback for the o-th object.  A second read would change nothing, and
\* after a fault nothing matters.
retrieve_symbols(object, o, found) ==
  LET read == ~Skipped(object) /\ Reads(object) # {}
  IN [fault |-> read /\ Faults(object),
      found |-> IF read /\ ~Faults(object) THEN Take(object, o, found) ELSE found]

=============================================================================
