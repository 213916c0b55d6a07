---------------------------- MODULE MCSymbolHook ----------------------------
(***************************************************************************)
(* SymbolHook for TLC.  Three kinds of processes: one varies the dynamic   *)
(* sections and symbols of the objects and scans twice, one the            *)
(* dependencies and definitions of the link map, and one looks functions   *)
(* of the driver up.                                                       *)
(***************************************************************************)
EXTENDS SymbolHook

Symbol == [name : Wanted, value : 0 .. 1]
Tables == {<<>>} \cup {<<a>> : a \in Symbol} \cup {<<a, b>> : a, b \in Symbol}

\* The order of ld, the same without DT_HASH, and two unusual ones.
Linked == <<"HASH", "GNU_HASH", "STRTAB", "SYMTAB">>
Sections == {Linked, <<"GNU_HASH", "STRTAB", "SYMTAB">>,
             <<"STRTAB", "SYMTAB", "HASH">>, <<"HASH", "SYMTAB", "STRTAB">>}

Object(name, l_addr, dynamic, symbols, needs) ==
  [name |-> name, l_addr |-> l_addr, dynamic |-> dynamic, symbols |-> symbols, needs |-> needs]

Both == <<[name |-> "dlsym", value |-> 1], [name |-> "ioctl", value |-> 1]>>
Ioctl == <<[name |-> "ioctl", value |-> 1]>>

\* The executable, then the hook library, linked without DT_HASH.
Executable == Object("", 1, Linked, Ioctl, {})
HookLibrary(needs) == Object("hook", 5, <<"GNU_HASH", "STRTAB", "SYMTAB">>, Both, needs)

ScanWorlds ==
  {[objects |-> <<Executable, HookLibrary({}), Object("lib", 4, d[1], s[1], {}),
                  Object("lib", 3, d[2], s[2], {})>>, scans |-> 2, loads |-> 0] :
     d \in Sections \X Sections, s \in Tables \X Tables}

NextWorlds ==
  {[objects |-> <<Executable, HookLibrary(n1), Object("lib", 4, Linked, s[1], n2),
                  Object("lib", 3, Linked, s[2], n3), Object("lib", 2, Linked, s[3], {})>>,
    scans |-> 1, loads |-> 0] :
     s \in [1 .. 3 -> {<<>>, Ioctl}],
     n1 \in SUBSET (3 .. 5), n2 \in SUBSET (4 .. 5), n3 \in SUBSET {5}}

LookupWorlds ==
  {[objects |-> <<Executable, HookLibrary({}), Object("libc", 4, Linked, Both, {})>>,
    scans |-> 1, loads |-> 2]}

AllWorlds == ScanWorlds \cup NextWorlds \cup LookupWorlds

=============================================================================
