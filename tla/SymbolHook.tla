----------------------------- MODULE SymbolHook -----------------------------
(***************************************************************************)
(* How a process gets from symbols to functions.  init() scans the loaded  *)
(* objects for the real dlsym, ioctl, ... (entry.c, SymbolScan); then the  *)
(* application looks up functions of the CUDA driver library, and the      *)
(* launch functions get hooked: dlsym and get_next_symbol (dlfcn.c,        *)
(* NextSymbol), the hooks of cuGetProcAddress and cuGetProcAddress_v2 and  *)
(* the table cuda_hook_funcs_data (cuda_hook.c), find_entry (util.c) and   *)
(* the enum that indexes the table (cuda_entry.h).                         *)
(*                                                                         *)
(* A hook finds the driver's function in its entry of the table, so what   *)
(* it reaches depends on every lookup made before.  The driver library     *)
(* (external) may be unloaded and loaded again at another address.         *)
(***************************************************************************)
EXTENDS Integers, Sequences, SequencesExt, SymbolScan, NextSymbol

CONSTANTS
  Worlds,       \* the processes: the objects loaded at the start, in load
                \* order, how often init() runs (LoadInit), and a bound on
                \* the times the driver library is loaded
  Flags,        \* flags of cuGetProcAddress: "plain" or "ptsz", the variant
                \* with a default stream per thread
  MaxHeld       \* bound on the pointers the application keeps

\* What the scan and the lookups see of an object: its name, start address, the
\* positions of the objects it needs, tags of its dynamic section and symbols.
Objects == [name : STRING, l_addr : Nat, needs : SUBSET Nat, dynamic : Seq(STRING),
            symbols : Seq([name : STRING, value : Nat])]

ASSUME SymbolConstantsOK ==
  /\ Self \in Nat \ {0} /\ MaxHeld \in Nat
  /\ \A w \in Worlds :
       /\ w.objects \in Seq(Objects) \ {<<>>}
       /\ \A o \in DOMAIN w.objects : w.objects[o].needs \subseteq DOMAIN w.objects
       /\ w.scans \in Nat /\ w.loads \in Nat

VARIABLES
  world,        \* the process
  scans,        \* how often init() has run
  obj,          \* the object retrieve_symbols is called for next
  found,        \* __dlfcn_data: the address of each wanted function
  fault,        \* whether the scan read a name through a NULL string table
  loaded,       \* which load of the driver library is in place, 0 for none
  loads,        \* how often it has been loaded
  real_pfn,     \* the real_pfn of each entry of cuda_hook_funcs_data
  held          \* function pointers the application has

vars == <<world, scans, obj, found, fault, loaded, loads, real_pfn, held>>

scanVars == <<scans, obj, found, fault>>

-----------------------------------------------------------------------------
\* cuda_hook_funcs_data
Names == <<"cuGetProcAddress", "cuGetProcAddress_v2", "cuLaunchKernel",
           "cuLaunchKernelEx", "cuLaunchKernel_ptsz", "cuLaunchKernelEx_ptsz">>

\* entry_enum_t, counted from 1
EntryEnum(name) ==
  CASE name = "cuGetProcAddress" -> 1
    [] name = "cuGetProcAddress_v2" -> 2
    [] name = "cuLaunchKernel" -> 3
    [] name = "cuLaunchKernelEx" -> 4
    [] name = "cuLaunchKernel_ptsz" -> 5
    [] name = "cuLaunchKernelEx_ptsz" -> 6

\* find_entry: the index of the entry with this name, 0 for none.
find_entry(symbol) == SelectInSeq(Names, LAMBDA n : n = symbol)

Symbols == ToSet(Names) \cup {"cuOther"}

\* The driver library (external): placed below the objects loaded before it.
Driver ==
  [name |-> "cuda", l_addr |-> 0, needs |-> {}, dynamic |-> <<"GNU_HASH", "STRTAB", "SYMTAB">>,
   symbols |-> [i \in 1 .. Len(Names) + 1 |->
                  [name |-> (Names \o <<"cuOther">>)[i], value |-> i]]]

\* The link map.
Map == IF loaded = 0 THEN world.objects ELSE Append(world.objects, Driver)

\* The driver's function `name' in the n-th load of the library; NULL is none.
Address(name, n) == [name |-> name, load |-> n]
NULL == Address("NULL", 0)

\* The driver's choice for a symbol and flags (external).  Both hooks hand
\* cudaVersion on without looking at it; one version is asked for here.
Resolve(symbol, flag) ==
  CASE flag = "ptsz" /\ symbol = "cuLaunchKernel" -> "cuLaunchKernel_ptsz"
    [] flag = "ptsz" /\ symbol = "cuLaunchKernelEx" -> "cuLaunchKernelEx_ptsz"
    [] OTHER -> symbol

\* A pointer in the hands of the application, got from dlsym, from
\* cuGetProcAddress ("proc") or, itself or the cuGetProcAddress that gave it,
\* with RTLD_NEXT: a hook, with the function it was asked for, or the driver's
\* function itself.
Hook(symbol, name, via) == [kind |-> "hook", symbol |-> symbol, name |-> name, via |-> via]
Real(name, via) == [kind |-> "real", symbol |-> name, name |-> name, via |-> via]

\* The application keeps a pointer, perhaps in the place of another.
Keep(p) ==
  \E h \in {held} \cup {held \ {q} : q \in held} :
    Cardinality(h \cup {p}) <= MaxHeld /\ held' = h \cup {p}

Init ==
  /\ world \in Worlds
  /\ scans = 0 /\ obj = 1
  /\ found = [w \in Wanted |-> NotFound]
  /\ fault = FALSE
  /\ loaded = 0 /\ loads = 0
  /\ real_pfn = [i \in 1 .. Len(Names) |-> NULL]
  /\ held = {}

-----------------------------------------------------------------------------
(* init() *)

\* dl_iterate_phdr calls retrieve_symbols for the next object.
Scan ==
  LET scan == retrieve_symbols(Map[obj], obj, found) IN
  /\ ~fault /\ scans < world.scans
  /\ found' = scan.found
  /\ fault' = scan.fault
  /\ IF obj < Len(Map) THEN obj' = obj + 1 /\ UNCHANGED scans
                       ELSE obj' = 1 /\ scans' = scans + 1
  /\ UNCHANGED <<world, loaded, loads, real_pfn, held>>

\* The pointers dlsym and get_next_symbol need; BUG_ON ends the process if one
\* is NULL.
Ready == ~fault /\ scans > 0 /\ obj = 1 /\ \A w \in Wanted \ {"ioctl"} : found[w] # NotFound

-----------------------------------------------------------------------------
(* The driver library and the lookups in it *)

\* The application loads the driver library.
Load ==
  /\ Ready
  /\ loaded = 0
  /\ loads < world.loads
  /\ loaded' = loads + 1
  /\ loads' = loads + 1
  /\ UNCHANGED <<world, scanVars, real_pfn, held>>

\* It unloads it and forgets the pointers; the table is not told.  (A scan
\* keeps the loader's lock.)
Unload ==
  /\ loaded > 0 /\ obj = 1
  /\ loads < world.loads
  /\ loaded' = 0
  /\ held' = {}
  /\ UNCHANGED <<world, scanVars, loads, real_pfn>>

\* Mutant: an entry that has an address keeps it.
DlsymKeep(symbol) ==
  LET i == find_entry(symbol) IN
  /\ loaded > 0
  /\ IF i # 0
       THEN /\ real_pfn' = [real_pfn EXCEPT ![i] = IF @ = NULL THEN Address(symbol, loaded) ELSE @]
            /\ Keep(Hook(symbol, symbol, "dlsym"))
       ELSE /\ Keep(Real(symbol, "dlsym"))
            /\ UNCHANGED real_pfn
  /\ UNCHANGED <<world, scanVars, loaded, loads>>

\* dlsym with the driver's handle: the entry takes the address just found.  (A
\* symbol the driver does not export is NULL and changes nothing.)
Dlsym(symbol) ==
  LET i == find_entry(symbol) IN
  /\ loaded > 0
  /\ IF i # 0
       THEN /\ real_pfn' = [real_pfn EXCEPT ![i] = Address(symbol, loaded)]
            /\ Keep(Hook(symbol, symbol, "dlsym"))
       ELSE /\ Keep(Real(symbol, "dlsym"))
            /\ UNCHANGED real_pfn
  /\ UNCHANGED <<world, scanVars, loaded, loads>>

\* dlsym with RTLD_NEXT from an object goes to get_next_symbol and past the table.
DlsymNext(caller, symbol) ==
  /\ loaded > 0
  /\ get_next_symbol(Map, caller, symbol) # 0
  /\ Keep(Real(symbol, "next"))
  /\ UNCHANGED <<world, scanVars, loaded, loads, real_pfn>>

\* What a pointer calls: CUDA_ENTRY_CALL for a hook.
Target(p) == IF p.kind = "hook" THEN real_pfn[EntryEnum(p.symbol)] ELSE Address(p.name, loaded)

\* Mutant: only the first lookup of a symbol returns the hook.
GetProcAddressLeak(p, symbol, flag) ==
  LET i == find_entry(symbol)
      name == Resolve(symbol, flag)
      via == IF p.via = "next" THEN "next" ELSE "proc"
  IN
  /\ p.name \in {"cuGetProcAddress", "cuGetProcAddress_v2"}
  /\ loaded > 0 /\ Target(p) = Address(p.name, loaded)
  /\ IF p.kind = "hook" /\ i # 0 /\ real_pfn[i] = NULL
       THEN /\ real_pfn' = [real_pfn EXCEPT ![i] = Address(name, loaded)]
            /\ Keep(Hook(symbol, name, via))
       ELSE Keep(Real(name, via)) /\ UNCHANGED real_pfn
  /\ UNCHANGED <<world, scanVars, loaded, loads>>

\* cuGetProcAddress or _v2 is called through pointer p and succeeds: only an
\* entry without an address takes the one found.  The driver's own function
\* knows nothing of the table.  (A failure returns before find_entry.)
GetProcAddress(p, symbol, flag) ==
  LET i == find_entry(symbol)
      name == Resolve(symbol, flag)
      via == IF p.via = "next" THEN "next" ELSE "proc"
  IN
  /\ p.name \in {"cuGetProcAddress", "cuGetProcAddress_v2"}
  /\ loaded > 0 /\ Target(p) = Address(p.name, loaded)
  /\ IF p.kind = "hook" /\ i # 0
       THEN /\ real_pfn' = [real_pfn EXCEPT ![i] = IF @ = NULL THEN Address(name, loaded) ELSE @]
            /\ Keep(Hook(symbol, name, via))
       ELSE Keep(Real(name, via)) /\ UNCHANGED real_pfn
  /\ UNCHANGED <<world, scanVars, loaded, loads>>

Next ==
  \/ Scan \/ Load \/ Unload
  \/ \E s \in Symbols : Dlsym(s) \/ \E c \in 1 .. Len(world.objects) : DlsymNext(c, s)
  \/ \E p \in held, s \in Symbols, f \in Flags : GetProcAddress(p, s, f)

Spec == Init /\ [][Next]_vars

-----------------------------------------------------------------------------
(* Properties *)

\* An object whose symbols the scan can count: it has a DT_HASH before its
\* symbol table.
Counted(object) ==
  /\ ~Skipped(object)
  /\ \E i, j \in DOMAIN object.dynamic :
       i < j /\ object.dynamic[i] = "HASH" /\ object.dynamic[j] = "SYMTAB"

\* Every symbol that defines w in a counted object.
Definitions(w) ==
  UNION {{<<o, i>> : i \in {j \in DOMAIN Map[o].symbols :
                              Map[o].symbols[j].name = w /\ Map[o].symbols[j].value # 0}} :
           o \in {k \in DOMAIN Map : Counted(Map[k])}}

Before(a, b) == a[1] < b[1] \/ (a[1] = b[1] /\ a[2] <= b[2])

\* Once a scan is over each pointer has the first definition in load order,
\* among the objects other than the executable that have a DT_HASH, and NULL if
\* there is none: so not the hook library's own dlsym and ioctl, which come
\* first in the load order, as long as it is linked without DT_HASH.  It stays
\* so at each object of a second scan, while calls go through the pointers.
FirstDefinition ==
  ~fault /\ scans > 0 =>
    \A w \in Wanted :
      IF Definitions(w) = {} THEN found[w] = NotFound
      ELSE found[w] \in Definitions(w) /\ \A d \in Definitions(w) : Before(found[w], d)

\* Load addresses fall along the link map, and an object needs later ones only.
Orderly(map) ==
  /\ \A i, j \in Self .. Len(map) : i < j => map[i].l_addr > map[j].l_addr
  /\ \A i \in Self .. Len(map) : \A d \in map[i].needs : d > i

\* RTLD_NEXT called by an object loaded after the hook library, in an address
\* space laid out downwards: a definition after the caller is found if there
\* is one, and what is found is after the caller, so a wrapper that asks for
\* the function it wraps never gets itself.
FindsNext ==
  Orderly(Map) =>
    \A caller \in Self + 1 .. Len(Map), s \in Wanted \cup {"cuLaunchKernel"} :
      LET handle == get_next_symbol(Map, caller, s)
          after == {o \in caller + 1 .. Len(Map) : Defines(Map[o], s)}
      IN IF after = {} THEN handle = 0 ELSE handle \in after

\* A hook got from dlsym reaches the function asked for in the library that is
\* loaded now: the enum and the table agree, no entry is NULL (BUG_ON in
\* CUDA_ENTRY_CALL) and none is left from an earlier load.  A hook got from
\* cuGetProcAddress reaches it or its other stream variant, as long as the
\* library has not been loaded again.
DispatchFaithful ==
  \A p \in held :
    p.kind = "hook" =>
      \/ Target(p) = Address(p.name, loaded)
      \/ /\ p.via = "proc"
         /\ loads > 1 \/ \E f \in {"plain", "ptsz"} : Target(p) = Address(Resolve(p.symbol, f), 1)

\* No chain of lookups that does not use RTLD_NEXT gives the application the
\* driver's own launch function, which would not be limited, or the driver's
\* own cuGetProcAddress, which would give it one.
NoBypass == \A p \in held : p.kind = "real" /\ p.via # "next" => p.name \notin ToSet(Names)

=============================================================================
