-------------------------- MODULE SymbolHookProofs --------------------------
(***************************************************************************)
(* Theorems about SymbolHook for any objects, any number of scans and      *)
(* loads of the driver library, any flags and any number of pointers kept. *)
(***************************************************************************)
EXTENDS SymbolHook, WellFoundedInduction, TLAPS

-----------------------------------------------------------------------------
(* The table *)

\* The names of the table's entries.
Hooked == {"cuGetProcAddress", "cuGetProcAddress_v2", "cuLaunchKernel",
           "cuLaunchKernelEx", "cuLaunchKernel_ptsz", "cuLaunchKernelEx_ptsz"}

\* The table has six entries, each named once.
LEMMA TableNames ==
  /\ Len(Names) = 6 /\ ToSet(Names) = Hooked
  /\ \A name \in Hooked : EntryEnum(name) \in 1 .. 6 /\ Names[EntryEnum(name)] = name
  /\ \A i \in 1 .. 6 : Names[i] \in Hooked /\ EntryEnum(Names[i]) = i
  /\ "cuOther" \notin Hooked
<1>1. Len(Names) = 6 /\ DOMAIN Names = 1 .. 6
  BY DEF Names
<1>2. \A i \in 1 .. 6 : i = 1 \/ i = 2 \/ i = 3 \/ i = 4 \/ i = 5 \/ i = 6
  OBVIOUS
<1>3. /\ Names[1] = "cuGetProcAddress" /\ Names[2] = "cuGetProcAddress_v2" /\ Names[3] = "cuLaunchKernel"
      /\ Names[4] = "cuLaunchKernelEx" /\ Names[5] = "cuLaunchKernel_ptsz" /\ Names[6] = "cuLaunchKernelEx_ptsz"
  BY DEF Names
<1>4. \A name \in Hooked : EntryEnum(name) \in 1 .. 6 /\ Names[EntryEnum(name)] = name
  BY <1>3 DEF EntryEnum, Hooked
<1>5. \A i \in 1 .. 6 : Names[i] \in Hooked /\ EntryEnum(Names[i]) = i
  BY <1>2, <1>3 DEF EntryEnum, Hooked
<1>6. ToSet(Names) = Hooked
  BY <1>1, <1>4, <1>5 DEF ToSet
<1> QED BY <1>1, <1>4, <1>5, <1>6 DEF Hooked

\* The enum that indexes the table agrees with the search by name.
LEMMA FindIsEnum ==
  /\ \A name \in Hooked : find_entry(name) = EntryEnum(name)
  /\ find_entry("cuOther") = 0
<1>1. ASSUME NEW symbol
      PROVE  find_entry(symbol) = LET I == {i \in 1 .. 6 : Names[i] = symbol}
                                  IN  IF I # {} THEN Min(I) ELSE 0
  BY TableNames DEF find_entry, SelectInSeq
<1>2. ASSUME NEW name \in Hooked PROVE find_entry(name) = EntryEnum(name)
  <2>1. {i \in 1 .. 6 : Names[i] = name} = {EntryEnum(name)}
    BY TableNames
  <2>2. ASSUME NEW n \in 1 .. 6 PROVE Min({n}) = n
    BY DEF Min
  <2>3. EntryEnum(name) \in 1 .. 6
    BY TableNames
  <2> QED BY <1>1, <2>1, <2>2, <2>3
<1>3. find_entry("cuOther") = 0
  <2>1. {i \in 1 .. 6 : Names[i] = "cuOther"} = {}
    BY TableNames
  <2> QED BY <1>1, <2>1
<1> QED BY <1>2, <1>3

\* The driver's variants of a function of the table are in the table, too.
LEMMA ResolveHooked ==
  ASSUME NEW flag
  PROVE  /\ \A s \in Hooked : Resolve(s, flag) \in {Resolve(s, "plain"), Resolve(s, "ptsz")}
         /\ Resolve("cuOther", flag) = "cuOther"
BY DEF Resolve, Hooked

-----------------------------------------------------------------------------
(* Lookups *)

\* The addresses in the table: while the library has been loaded only once,
\* an entry is empty or holds a variant of its function in that load.
TableInv ==
  /\ loads \in Nat /\ loaded \in 0 .. loads
  /\ DOMAIN real_pfn = 1 .. 6
  /\ loads = 0 => \A i \in 1 .. 6 : real_pfn[i] = NULL
  /\ loads = 1 => \A i \in 1 .. 6 :
       real_pfn[i] = NULL \/ \E f \in {"plain", "ptsz"} : real_pfn[i] = Address(Resolve(Names[i], f), 1)

\* The pointers of the application: a hook has filled its entry, and one from
\* dlsym with the function of the load in place; a function of the driver that
\* did not come by RTLD_NEXT is none of the table.
HeldInv ==
  /\ loaded = 0 => held = {}
  /\ \A p \in held :
       \/ /\ p.kind = "hook" /\ p.symbol \in Hooked /\ p.via \in {"dlsym", "proc"}
          /\ real_pfn[EntryEnum(p.symbol)] # NULL
          /\ p.via = "dlsym" => real_pfn[EntryEnum(p.symbol)] = Address(p.name, loaded)
          /\ p.via = "dlsym" => p.name = p.symbol
       \/ p.kind = "real" /\ (p.via = "next" \/ p.name \notin Hooked)

LookupInv == TableInv /\ HeldInv

\* An address is none of NULL.
LEMMA NotNull == ASSUME NEW name, NEW n \in Nat \ {0} PROVE Address(name, n) # NULL
BY DEF Address, NULL

\* The fields of the pointers.
LEMMA Fields ==
  ASSUME NEW symbol, NEW name, NEW via
  PROVE  /\ Hook(symbol, name, via).kind = "hook" /\ Hook(symbol, name, via).symbol = symbol
         /\ Hook(symbol, name, via).name = name /\ Hook(symbol, name, via).via = via
         /\ Real(name, via).kind = "real" /\ Real(name, via).name = name /\ Real(name, via).via = via
BY DEF Hook, Real

\* Keeping a pointer adds no other.
LEMMA KeepAdds == ASSUME NEW p, Keep(p) PROVE held' \subseteq held \cup {p}
BY DEF Keep

\* A lookup with the driver's handle.
LEMMA LookupDlsym ==
  ASSUME LookupInv, NEW s \in Symbols, Dlsym(s)
  PROVE  LookupInv'
<1>1. loaded > 0 /\ UNCHANGED <<loaded, loads>> /\ loaded \in Nat \ {0} /\ loads \in Nat \ {0}
  BY DEF Dlsym, LookupInv, TableInv
<1>2. CASE s \in Hooked
  <2> DEFINE e == EntryEnum(s)
  <2>1. find_entry(s) = e /\ e \in 1 .. 6 /\ e # 0 /\ Names[e] = s
    BY <1>2, FindIsEnum, TableNames
  <2>2. real_pfn' = [real_pfn EXCEPT ![e] = Address(s, loaded)] /\ Keep(Hook(s, s, "dlsym"))
    BY <2>1 DEF Dlsym
  <2>3. s = Resolve(s, "plain")
    BY DEF Resolve
  <2>4. /\ DOMAIN real_pfn' = 1 .. 6 /\ real_pfn'[e] = Address(s, loaded)
        /\ \A i \in 1 .. 6 : i # e => real_pfn'[i] = real_pfn[i]
    BY <2>1, <2>2 DEF LookupInv, TableInv
  <2> HIDE DEF e
  <2>5. TableInv'
    <3>1. loads = 1 => loaded = 1
      BY <1>1 DEF LookupInv, TableInv
    <3> QED BY <1>1, <2>1, <2>3, <2>4, <3>1 DEF LookupInv, TableInv
  <2>6. HeldInv'
    <3>1. \A q \in Hooked : q # s => EntryEnum(q) \in 1 .. 6 /\ EntryEnum(q) # e
      BY <2>1, TableNames
    <3>2. Address(s, loaded) # NULL
      BY <1>1, NotNull
    <3>3. ASSUME NEW p \in held, p.kind = "hook"
          PROVE  /\ p.symbol \in Hooked /\ p.via \in {"dlsym", "proc"}
                 /\ real_pfn'[EntryEnum(p.symbol)] # NULL
                 /\ p.via = "dlsym" => real_pfn'[EntryEnum(p.symbol)] = Address(p.name, loaded)
                 /\ p.via = "dlsym" => p.name = p.symbol
      <4>1. /\ p.symbol \in Hooked /\ p.via \in {"dlsym", "proc"}
            /\ real_pfn[EntryEnum(p.symbol)] # NULL
            /\ p.via = "dlsym" => real_pfn[EntryEnum(p.symbol)] = Address(p.name, loaded)
            /\ p.via = "dlsym" => p.name = p.symbol
        BY <3>3 DEF LookupInv, HeldInv
      <4>2. CASE p.symbol = s
        BY <2>4, <3>2, <4>1, <4>2 DEF e
      <4>3. CASE p.symbol # s
        BY <2>4, <3>1, <4>1, <4>3
      <4> QED BY <4>2, <4>3
    <3>4. held' \subseteq held \cup {Hook(s, s, "dlsym")}
      BY <2>2, KeepAdds
    <3> QED BY <1>1, <1>2, <2>4, <3>2, <3>3, <3>4, Fields DEF LookupInv, HeldInv, e
  <2> QED BY <2>5, <2>6 DEF LookupInv
<1>3. CASE s \notin Hooked
  <2>1. s = "cuOther" /\ find_entry(s) = 0
    BY <1>3, TableNames, FindIsEnum DEF Symbols
  <2>2. UNCHANGED real_pfn /\ held' \subseteq held \cup {Real(s, "dlsym")}
    BY <2>1, KeepAdds DEF Dlsym
  <2>3. TableInv'
    BY <1>1, <2>2 DEF LookupInv, TableInv
  <2>4. HeldInv'
    BY <1>1, <1>3, <2>2, Fields DEF LookupInv, HeldInv
  <2> QED BY <2>3, <2>4 DEF LookupInv
<1> QED BY <1>2, <1>3

\* A lookup through cuGetProcAddress.
LEMMA LookupProc ==
  ASSUME LookupInv, NEW p \in held, NEW s \in Symbols, NEW f \in Flags, GetProcAddress(p, s, f)
  PROVE  LookupInv'
<1> DEFINE name == Resolve(s, f)
           via == IF p.via = "next" THEN "next" ELSE "proc"
<1>1. loaded > 0 /\ UNCHANGED <<loaded, loads>> /\ loaded \in Nat \ {0} /\ loads \in Nat \ {0}
  BY DEF GetProcAddress, LookupInv, TableInv
<1>2. p.name \in Hooked
  BY DEF GetProcAddress, Hooked
<1>3. CASE p.kind = "hook" /\ s \in Hooked
  <2> DEFINE e == EntryEnum(s)
             a == Address(name, loaded)
  <2>1. find_entry(s) = e /\ e \in 1 .. 6 /\ e # 0 /\ Names[e] = s
    BY <1>3, FindIsEnum, TableNames
  <2>2. real_pfn' = [real_pfn EXCEPT ![e] = IF @ = NULL THEN a ELSE @] /\ Keep(Hook(s, name, via))
    BY <1>3, <2>1 DEF GetProcAddress
  <2>3. via = "proc"
    BY <1>3 DEF LookupInv, HeldInv
  <2>4. a # NULL /\ \E g \in {"plain", "ptsz"} : name = Resolve(s, g)
    BY <1>1, <1>3, NotNull, ResolveHooked
  <2> HIDE DEF e, a, via
  <2>5. /\ DOMAIN real_pfn' = 1 .. 6 /\ real_pfn'[e] # NULL
        /\ real_pfn'[e] = IF real_pfn[e] = NULL THEN a ELSE real_pfn[e]
        /\ \A i \in 1 .. 6 : i # e => real_pfn'[i] = real_pfn[i]
    BY <2>1, <2>2, <2>4 DEF LookupInv, TableInv
  <2>6. TableInv'
    <3>1. loads = 1 => a = Address(name, 1)
      BY <1>1 DEF LookupInv, TableInv, a
    <3> QED BY <1>1, <2>1, <2>4, <2>5, <3>1 DEF LookupInv, TableInv
  <2>7. \A n \in 1 .. 6 : real_pfn[n] # NULL => real_pfn'[n] = real_pfn[n]
    BY <2>5
  <2>8. \A q \in Hooked : EntryEnum(q) \in 1 .. 6
    BY TableNames
  <2>9. held' \subseteq held \cup {Hook(s, name, via)}
    BY <2>2, KeepAdds
  <2>10. HeldInv'
    <3>1. ASSUME NEW q \in held, q.kind = "hook"
          PROVE  real_pfn'[EntryEnum(q.symbol)] = real_pfn[EntryEnum(q.symbol)]
      BY <2>7, <2>8, <3>1 DEF LookupInv, HeldInv
    <3> QED BY <1>1, <1>3, <2>3, <2>5, <2>9, <3>1, Fields DEF LookupInv, HeldInv, e
  <2> QED BY <2>6, <2>10 DEF LookupInv
<1>4. CASE ~(p.kind = "hook" /\ s \in Hooked)
  <2>1. s \notin Hooked => s = "cuOther"
    BY TableNames DEF Symbols
  <2>2. p.kind # "hook" \/ find_entry(s) = 0
    BY <1>4, <2>1, FindIsEnum
  <2>3. UNCHANGED real_pfn /\ Keep(Real(name, via))
    BY <2>2 DEF GetProcAddress
  <2>4. via = "next" \/ name \notin Hooked
    BY <1>2, <1>4, <2>1, ResolveHooked, TableNames DEF LookupInv, HeldInv
  <2> HIDE DEF name, via
  <2>5. held' \subseteq held \cup {Real(name, via)}
    BY <2>3, KeepAdds
  <2>6. TableInv'
    BY <1>1, <2>3 DEF LookupInv, TableInv
  <2>7. HeldInv'
    BY <1>1, <2>3, <2>4, <2>5, Fields DEF LookupInv, HeldInv
  <2> QED BY <2>6, <2>7 DEF LookupInv
<1> QED BY <1>3, <1>4

\* Every step keeps the table and the pointers in order.
LEMMA LookupStep == LookupInv /\ [Next]_vars => LookupInv'
<1> SUFFICES ASSUME LookupInv, [Next]_vars PROVE LookupInv'
  OBVIOUS
<1>1. CASE Scan \/ UNCHANGED vars
  <2>1. UNCHANGED <<loaded, loads, real_pfn, held>>
    BY <1>1 DEF Scan, vars
  <2> QED BY <2>1 DEF LookupInv, TableInv, HeldInv
<1>2. CASE Load
  <2>1. loaded = 0 /\ loads' = loads + 1 /\ loaded' = loads + 1 /\ UNCHANGED <<real_pfn, held>> /\ held = {}
    BY <1>2 DEF Load, LookupInv, HeldInv
  <2>2. TableInv'
    BY <2>1 DEF LookupInv, TableInv
  <2> QED BY <2>1, <2>2 DEF LookupInv, HeldInv
<1>3. CASE Unload
  <2>1. loaded' = 0 /\ held' = {} /\ UNCHANGED <<loads, real_pfn>>
    BY <1>3 DEF Unload
  <2> QED BY <2>1 DEF LookupInv, TableInv, HeldInv
<1>4. ASSUME NEW s \in Symbols, NEW c, DlsymNext(c, s) PROVE LookupInv'
  <2>1. /\ loaded > 0 /\ UNCHANGED <<loaded, loads, real_pfn>>
        /\ held' \subseteq held \cup {Real(s, "next")}
    BY <1>4, KeepAdds DEF DlsymNext
  <2> QED BY <2>1, Fields DEF LookupInv, TableInv, HeldInv
<1> QED BY <1>1, <1>2, <1>3, <1>4, LookupDlsym, LookupProc DEF Next

\* They are always in order.
LEMMA LookupAlways == Spec => []LookupInv
<1>1. Init => LookupInv
  BY TableNames DEF Init, LookupInv, TableInv, HeldInv
<1> QED BY <1>1, LookupStep, PTL DEF Spec

\* A hook got from dlsym reaches the function asked for in the library that is
\* loaded now, and one got from cuGetProcAddress that function or its other
\* stream variant unless the library was loaded again, after any sequence of
\* lookups and however many pointers the application keeps.
THEOREM DispatchIsFaithful == Spec => []DispatchFaithful
<1>1. ASSUME LookupInv, NEW p \in held, p.kind = "hook"
      PROVE  \/ Target(p) = Address(p.name, loaded)
             \/ /\ p.via = "proc"
                /\ loads > 1 \/ \E f \in {"plain", "ptsz"} : Target(p) = Address(Resolve(p.symbol, f), 1)
  <2> DEFINE e == EntryEnum(p.symbol)
  <2>1. /\ p.symbol \in Hooked /\ p.via \in {"dlsym", "proc"} /\ real_pfn[e] # NULL
        /\ p.via = "dlsym" => real_pfn[e] = Address(p.name, loaded)
    BY <1>1 DEF LookupInv, HeldInv
  <2>2. e \in 1 .. 6 /\ Names[e] = p.symbol
    BY <2>1, TableNames
  <2>3. Target(p) = real_pfn[e]
    BY <1>1 DEF Target
  <2> HIDE DEF e
  <2>4. loads # 0 /\ loads \in Nat
    BY <1>1, <2>1, <2>2 DEF LookupInv, TableInv
  <2>5. loads = 1 => \E f \in {"plain", "ptsz"} : real_pfn[e] = Address(Resolve(Names[e], f), 1)
    BY <1>1, <2>1, <2>2 DEF LookupInv, TableInv
  <2> QED BY <2>1, <2>2, <2>3, <2>4, <2>5
<1>2. LookupInv => DispatchFaithful
  BY <1>1 DEF DispatchFaithful
<1> QED BY <1>2, LookupAlways, PTL

\* No chain of lookups that does not use RTLD_NEXT, however long, gives the
\* application one of the driver's functions the table is there to replace.
THEOREM NoneBypasses == Spec => []NoBypass
<1>1. LookupInv => NoBypass
  BY TableNames DEF LookupInv, HeldInv, NoBypass
<1> QED BY <1>1, LookupAlways, PTL

-----------------------------------------------------------------------------
(* Link maps *)

\* Every set of natural numbers that is not empty has a least element.
LEMMA Least ==
  ASSUME NEW T \in SUBSET Nat, T # {}
  PROVE  \E x \in T : \A y \in T : x <= y
<1> DEFINE R == OpToRel(<, Nat)
<1>1. IsWellFoundedOn(R, Nat)
  BY NatLessThanWellFounded
<1>2. \A x, y \in Nat : y < x => <<y, x>> \in R
  BY DEF OpToRel
<1> HIDE DEF R
<1>3. \E x \in T : \A y \in T : ~(<<y, x>> \in R)
  BY <1>1, WFMin
<1>4. PICK x \in T : \A y \in T : ~(<<y, x>> \in R)
  BY <1>3
<1>5. ASSUME NEW y \in T PROVE x <= y
  <2>1. x \in Nat /\ y \in Nat /\ ~(y < x)
    BY <1>2, <1>4
  <2> QED BY <2>1
<1> QED BY <1>5

\* Min finds it.
LEMMA MinIsLeast ==
  ASSUME NEW T \in SUBSET Nat, T # {}
  PROVE  Min(T) \in T /\ \A y \in T : Min(T) <= y
BY Least DEF Min

\* The link map is the objects of the process, perhaps with the driver's library.
LEMMA MapObjects ==
  ASSUME world \in Worlds
  PROVE  /\ Len(world.objects) \in Nat \ {0} /\ Len(Map) \in Nat \ {0}
         /\ Len(Map) = IF loaded = 0 THEN Len(world.objects) ELSE Len(world.objects) + 1
         /\ DOMAIN Map = 1 .. Len(Map)
         /\ \A o \in 1 .. Len(world.objects) : Map[o] = world.objects[o] /\ Map[o] \in Objects
         /\ \A o \in 1 .. Len(Map) : o \notin 1 .. Len(world.objects) => Map[o] = Driver
<1> DEFINE objs == world.objects
<1>1. objs \in Seq(Objects) /\ objs # <<>>
  BY SymbolConstantsOK
<1> HIDE DEF objs
<1>2. Len(objs) \in Nat \ {0} /\ DOMAIN objs = 1 .. Len(objs) /\ \A o \in 1 .. Len(objs) : objs[o] \in Objects
  BY <1>1
<1>3. CASE loaded = 0
  <2>1. Map = objs
    BY <1>3 DEF Map, objs
  <2> QED BY <1>2, <1>3, <2>1 DEF objs
<1>4. CASE loaded # 0
  <2> DEFINE d == Driver
  <2>1. Map = Append(objs, d)
    BY <1>4 DEF Map, objs
  <2> HIDE DEF d
  <2>2. Len(Append(objs, d)) = Len(objs) + 1 /\ DOMAIN Append(objs, d) = 1 .. Len(objs) + 1
    BY <1>1
  <2>3. \A o \in 1 .. Len(objs) : Append(objs, d)[o] = objs[o]
    BY <1>1
  <2>4. Append(objs, d)[Len(objs) + 1] = d
    BY <1>1
  <2>5. \A o \in 1 .. Len(objs) + 1 : o \notin 1 .. Len(objs) => o = Len(objs) + 1
    BY <1>2
  <2> QED BY <1>2, <1>4, <2>1, <2>2, <2>3, <2>4, <2>5 DEF objs, d
<1> QED BY <1>3, <1>4

\* The driver's library has no DT_HASH: the scan takes nothing from it.
LEMMA DriverFields ==
  /\ Driver.l_addr = 0 /\ Driver.needs = {} /\ Driver.dynamic = <<"GNU_HASH", "STRTAB", "SYMTAB">>
  /\ ~Counted(Driver) /\ Reads(Driver) = {}
<1>1. Driver.l_addr = 0 /\ Driver.needs = {} /\ Driver.dynamic = <<"GNU_HASH", "STRTAB", "SYMTAB">>
  BY DEF Driver
<1> DEFINE tags == <<"GNU_HASH", "STRTAB", "SYMTAB">>
<1>2. Len(tags) = 3 /\ DOMAIN tags = 1 .. 3 /\ \A i \in 1 .. 3 : tags[i] # "HASH"
  OBVIOUS
<1> HIDE DEF tags
<1>3. Driver.dynamic = tags
  BY <1>1 DEF tags
<1>4. ~Counted(Driver)
  BY <1>2, <1>3 DEF Counted
<1>5. Reads(Driver) = {}
  <2>1. ASSUME NEW j \in 1 .. 3 PROVE ~Met(Driver, "HASH", j)
    <3>1. \A i \in 1 .. j - 1 : i \in 1 .. 3
      OBVIOUS
    <3> QED BY <1>2, <1>3, <3>1 DEF Met
  <2>2. Reads(Driver) = {j \in 1 .. 3 : tags[j] = "SYMTAB" /\ Met(Driver, "HASH", j)}
    BY <1>2, <1>3 DEF Reads
  <2> QED BY <2>1, <2>2
<1> QED BY <1>1, <1>4, <1>5

\* Start addresses are numbers, and objects need objects of the link map.
LEMMA MapFields ==
  ASSUME world \in Worlds, NEW o \in 1 .. Len(Map)
  PROVE  Map[o].l_addr \in Int /\ Map[o].needs \subseteq 1 .. Len(Map)
<1> DEFINE objs == world.objects
<1>1. /\ Len(objs) \in Nat /\ Len(Map) \in Nat /\ Len(objs) <= Len(Map)
      /\ o \in 1 .. Len(objs) => Map[o] = objs[o] /\ Map[o] \in Objects
      /\ o \notin 1 .. Len(objs) => Map[o] = Driver
  <2>1. /\ Len(objs) \in Nat /\ Len(Map) \in Nat
        /\ Len(Map) = IF loaded = 0 THEN Len(objs) ELSE Len(objs) + 1
    BY MapObjects
  <2>2. \A n \in 1 .. Len(objs) : Map[n] = objs[n] /\ Map[n] \in Objects
    BY MapObjects
  <2>3. \A n \in 1 .. Len(Map) : n \notin 1 .. Len(objs) => Map[n] = Driver
    BY MapObjects
  <2> HIDE DEF objs
  <2>4. Len(objs) <= Len(Map)
    BY <2>1
  <2> QED BY <2>1, <2>2, <2>3, <2>4
<1>2. CASE o \in 1 .. Len(objs)
  <2>1. objs \in Seq(Objects)
    BY SymbolConstantsOK
  <2>2. DOMAIN objs = 1 .. Len(objs)
    BY <2>1
  <2>3. objs[o].needs \subseteq DOMAIN objs
    BY <1>2, <2>2, SymbolConstantsOK
  <2> HIDE DEF objs
  <2>4. Map[o].l_addr \in Nat
    BY <1>1, <1>2 DEF Objects
  <2> QED BY <1>1, <1>2, <2>2, <2>3, <2>4
<1>3. CASE o \notin 1 .. Len(objs)
  BY <1>1, <1>3, DriverFields
<1> QED BY <1>2, <1>3

-----------------------------------------------------------------------------
(* RTLD_NEXT *)

\* In an orderly link map get_next_symbol searches the objects after the caller.
LEMMA SearchedAfter ==
  ASSUME world \in Worlds, Orderly(Map), NEW caller \in Self + 1 .. Len(Map)
  PROVE  Searched(Map, caller) = caller + 1 .. Len(Map)
<1>1. Self \in Nat \ {0} /\ Len(Map) \in Nat
  BY SymbolConstantsOK, MapObjects
<1>2. \A o \in Self .. Len(Map) : Map[o].l_addr \in Int
  <2>1. \A o \in Self .. Len(Map) : o \in 1 .. Len(Map)
    BY <1>1
  <2> QED BY <2>1, MapFields
<1>3. NotAbove(Map, caller) = caller .. Len(Map)
  <2>1. ASSUME NEW o \in Self .. Len(Map) PROVE Map[caller].l_addr >= Map[o].l_addr <=> o >= caller
    <3>1. CASE o < caller
      BY <1>1, <1>2, <3>1 DEF Orderly
    <3>2. CASE o = caller
      BY <1>1, <1>2, <3>2
    <3>3. CASE o > caller
      BY <1>1, <1>2, <3>3 DEF Orderly
    <3> QED BY <1>1, <3>1, <3>2, <3>3
  <2> QED BY <1>1, <2>1 DEF NotAbove
<1> QED BY <1>1, <1>3 DEF Searched

\* dlsym with an object's handle finds a definition in it or in a later object.
LEMMA LookupLater ==
  ASSUME world \in Worlds, Orderly(Map), NEW o \in Self .. Len(Map), NEW s
  PROVE  LET d == LookupIn(Map, o, s)
         IN  /\ d # 0 => d \in o .. Len(Map) /\ Defines(Map[d], s)
             /\ Defines(Map[o], s) => d # 0
<1> DEFINE hits == {d \in Map[o].needs : Defines(Map[d], s)}
           d == LookupIn(Map, o, s)
<1>1. Self \in Nat \ {0} /\ Len(Map) \in Nat /\ o \in Nat \ {0} /\ o \in 1 .. Len(Map)
  <2>1. Self \in Nat \ {0} /\ Len(Map) \in Nat
    BY SymbolConstantsOK, MapObjects
  <2> QED BY <2>1
<1>2. \A n \in Map[o].needs : n \in o .. Len(Map)
  <2>1. Map[o].needs \subseteq 1 .. Len(Map)
    BY <1>1, MapFields
  <2>2. \A n \in Map[o].needs : n > o
    BY DEF Orderly
  <2> QED BY <1>1, <2>1, <2>2
<1>3. d = IF Defines(Map[o], s) THEN o ELSE IF hits = {} THEN 0 ELSE Min(hits)
  BY DEF LookupIn
<1>4. hits # {} => Min(hits) \in hits
  <2>1. hits \in SUBSET Nat
    BY <1>1, <1>2
  <2> HIDE DEF hits
  <2> QED BY <2>1, MinIsLeast
<1> HIDE DEF d
<1>5. d # 0 => d \in o .. Len(Map) /\ Defines(Map[d], s)
  <2>1. CASE Defines(Map[o], s)
    BY <1>1, <1>3, <2>1
  <2>2. CASE ~Defines(Map[o], s)
    BY <1>1, <1>2, <1>3, <1>4, <2>2
  <2> QED BY <2>1, <2>2
<1>6. Defines(Map[o], s) => d # 0
  BY <1>1, <1>3
<1> QED BY <1>5, <1>6 DEF d

\* In every orderly link map RTLD_NEXT gives a definition after the caller, and
\* NULL only if there is none.
LEMMA NextAfterCaller == world \in Worlds => FindsNext
<1> SUFFICES ASSUME world \in Worlds, Orderly(Map),
                    NEW caller \in Self + 1 .. Len(Map), NEW s
             PROVE  LET handle == get_next_symbol(Map, caller, s)
                        after == {o \in caller + 1 .. Len(Map) : Defines(Map[o], s)}
                    IN  IF after = {} THEN handle = 0 ELSE handle \in after
  BY DEF FindsNext
<1> DEFINE after == {o \in caller + 1 .. Len(Map) : Defines(Map[o], s)}
           hits == {o \in caller + 1 .. Len(Map) : LookupIn(Map, o, s) # 0}
           handle == get_next_symbol(Map, caller, s)
<1>1. Self \in Nat \ {0} /\ Len(Map) \in Nat
  BY SymbolConstantsOK, MapObjects
<1>2. handle = IF hits = {} THEN 0 ELSE LookupIn(Map, Min(hits), s)
  BY SearchedAfter DEF get_next_symbol
<1>3. ASSUME NEW o \in caller + 1 .. Len(Map)
      PROVE  /\ LookupIn(Map, o, s) # 0 => LookupIn(Map, o, s) \in after
             /\ Defines(Map[o], s) => LookupIn(Map, o, s) # 0
  <2>1. o \in Self .. Len(Map)
    BY <1>1
  <2>2. /\ LookupIn(Map, o, s) # 0 => LookupIn(Map, o, s) \in o .. Len(Map) /\ Defines(Map[LookupIn(Map, o, s)], s)
        /\ Defines(Map[o], s) => LookupIn(Map, o, s) # 0
    BY <2>1, LookupLater
  <2> QED BY <1>1, <2>2
<1>4. CASE hits = {}
  BY <1>2, <1>3, <1>4
<1>5. CASE hits # {}
  <2>1. hits \in SUBSET Nat
    BY <1>1
  <2>2. Min(hits) \in hits
    <3> HIDE DEF hits
    <3> QED BY <1>5, <2>1, MinIsLeast
  <2>3. LookupIn(Map, Min(hits), s) \in after
    BY <1>3, <2>2
  <2> QED BY <1>2, <1>5, <2>3
<1> QED BY <1>4, <1>5

\* The process stays the one it is.
LEMMA WorldStays == Spec => [](world \in Worlds)
<1>1. Init => world \in Worlds
  BY DEF Init
<1>2. world \in Worlds /\ [Next]_vars => (world \in Worlds)'
  BY DEF Next, vars, Scan, Load, Unload, Dlsym, DlsymNext, GetProcAddress
<1> QED BY <1>1, <1>2, PTL DEF Spec

\* RTLD_NEXT never gives a wrapper itself and finds what is after it, for any
\* number of objects and any dependencies between them.
THEOREM NextIsFound == Spec => []FindsNext
BY NextAfterCaller, WorldStays, PTL

-----------------------------------------------------------------------------
(* The scan *)

\* The definitions of w in the counted objects of the process.
DefinitionsOf(w) ==
  {d \in (1 .. Len(world.objects)) \X Nat :
     Counted(world.objects[d[1]]) /\ d[2] \in DefinedAt(world.objects[d[1]], w)}

\* What has been scanned so far.
Scanned(d) == scans > 0 \/ d[1] < obj

\* The pointer to w is NULL while no definition has been met, and the first
\* definition of all since then.
PointerInv(w) ==
  \/ found[w] = NotFound /\ \A d \in DefinitionsOf(w) : ~Scanned(d)
  \/ found[w] \in DefinitionsOf(w) /\ \A d \in DefinitionsOf(w) : Before(found[w], d)

\* The driver's library comes after the first scan.
ScanInv ==
  /\ world \in Worlds
  /\ scans \in Nat /\ obj \in 1 .. Len(Map)
  /\ loaded # 0 => scans > 0
  /\ ~fault => \A w \in Wanted : PointerInv(w)

\* The scan goes through the symbols of exactly the counted objects.
LEMMA CountedRead ==
  ASSUME NEW object \in Objects
  PROVE  Counted(object) <=> ~Skipped(object) /\ Reads(object) # {}
<1> DEFINE tags == object.dynamic
<1>1. tags \in Seq(STRING)
  BY DEF Objects
<1>2. DOMAIN tags = 1 .. Len(tags) /\ Len(tags) \in Nat
  BY <1>1
<1>3. Counted(object) => Reads(object) # {}
  <2>1. SUFFICES ASSUME NEW i \in DOMAIN tags, NEW j \in DOMAIN tags, i < j, tags[i] = "HASH", tags[j] = "SYMTAB"
                 PROVE  j \in Reads(object)
    BY DEF Counted
  <2> HIDE DEF tags
  <2>2. i \in 1 .. j - 1 /\ j \in 1 .. Len(tags)
    BY <1>2, <2>1
  <2> QED BY <2>1, <2>2 DEF Reads, Met, tags
<1>4. ASSUME NEW j \in Reads(object) PROVE \E i, k \in DOMAIN tags : i < k /\ tags[i] = "HASH" /\ tags[k] = "SYMTAB"
  <2>1. PICK i \in 1 .. j - 1 : tags[i] = "HASH"
    BY DEF Reads, Met
  <2>2. j \in 1 .. Len(tags) /\ tags[j] = "SYMTAB"
    BY DEF Reads
  <2> HIDE DEF tags
  <2>3. i \in DOMAIN tags /\ j \in DOMAIN tags /\ i < j
    BY <1>2, <2>2
  <2> QED BY <2>1, <2>2, <2>3
<1> QED BY <1>3, <1>4 DEF Counted

\* The definitions as the property counts them.
LEMMA DefinitionsAre ==
  ASSUME world \in Worlds, NEW w
  PROVE  Definitions(w) = DefinitionsOf(w)
<1> DEFINE objs == world.objects
<1>1. /\ Len(objs) \in Nat /\ Len(Map) \in Nat /\ DOMAIN Map = 1 .. Len(Map)
      /\ Len(Map) = IF loaded = 0 THEN Len(objs) ELSE Len(objs) + 1
  BY MapObjects
<1>2. \A n \in 1 .. Len(objs) : Map[n] = objs[n] /\ objs[n] \in Objects
  BY MapObjects
<1>3. \A n \in 1 .. Len(Map) : n \notin 1 .. Len(objs) => Map[n] = Driver
  BY MapObjects
<1>4. \A n \in 1 .. Len(objs) : /\ DOMAIN objs[n].symbols = 1 .. Len(objs[n].symbols)
                                /\ DefinedAt(objs[n], w) \subseteq Nat
  <2> SUFFICES ASSUME NEW n \in 1 .. Len(objs)
               PROVE  DOMAIN objs[n].symbols = 1 .. Len(objs[n].symbols) /\ DefinedAt(objs[n], w) \subseteq Nat
    OBVIOUS
  <2> DEFINE syms == objs[n].symbols
  <2>1. syms \in Seq([name : STRING, value : Nat])
    BY <1>2 DEF Objects
  <2>2. DOMAIN syms = 1 .. Len(syms) /\ Len(syms) \in Nat
    <3> HIDE DEF syms
    <3> QED BY <2>1
  <2> QED BY <2>2 DEF DefinedAt
<1> HIDE DEF objs
<1>5. \A n \in 1 .. Len(objs) : {j \in DOMAIN Map[n].symbols : Map[n].symbols[j].name = w /\ Map[n].symbols[j].value # 0}
                                  = DefinedAt(objs[n], w)
  BY <1>2, <1>4 DEF DefinedAt
<1>6. \A n \in 1 .. Len(objs) : n \in DOMAIN Map
  BY <1>1
<1>7. {k \in DOMAIN Map : Counted(Map[k])} = {k \in 1 .. Len(objs) : Counted(objs[k])}
  <2>1. ASSUME NEW k \in DOMAIN Map, Counted(Map[k]) PROVE k \in 1 .. Len(objs)
    BY <1>1, <1>3, <2>1, DriverFields
  <2> QED BY <1>2, <1>6, <2>1
<1>8. Definitions(w) = UNION {{<<o, i>> : i \in DefinedAt(objs[o], w)} : o \in {k \in 1 .. Len(objs) : Counted(objs[k])}}
  BY <1>5, <1>7 DEF Definitions
<1>9. DefinitionsOf(w) = {d \in (1 .. Len(objs)) \X Nat : Counted(objs[d[1]]) /\ d[2] \in DefinedAt(objs[d[1]], w)}
  BY DEF DefinitionsOf, objs
<1> QED BY <1>4, <1>8, <1>9

\* What retrieve_symbols leaves in a pointer: it is kept, or it was NULL and has
\* the object's first definition.
LEMMA Retrieved ==
  ASSUME NEW object, NEW o, NEW w \in Wanted, Scan, Map[obj] = object, obj = o, ~fault'
  PROVE  \/ /\ found'[w] = found[w]
            /\ found[w] # NotFound \/ DefinedAt(object, w) = {} \/ Skipped(object) \/ Reads(object) = {}
         \/ /\ found[w] = NotFound /\ DefinedAt(object, w) # {} /\ ~Skipped(object) /\ Reads(object) # {}
            /\ found'[w] = <<o, Min(DefinedAt(object, w))>>
<1>1. found' = retrieve_symbols(object, o, found).found /\ fault' = retrieve_symbols(object, o, found).fault
  BY DEF Scan
<1> DEFINE read == ~Skipped(object) /\ Reads(object) # {}
<1>2. /\ retrieve_symbols(object, o, found).fault = (read /\ Faults(object))
      /\ retrieve_symbols(object, o, found).found = IF read /\ ~Faults(object) THEN Take(object, o, found) ELSE found
  BY DEF retrieve_symbols
<1>3. CASE read
  <2>1. found' = Take(object, o, found)
    BY <1>1, <1>2, <1>3
  <2> QED BY <1>3, <2>1 DEF Take
<1>4. CASE ~read
  BY <1>1, <1>2, <1>4
<1> QED BY <1>3, <1>4

\* A scan step keeps the pointer or takes the first definition there is.
LEMMA ScanPointer ==
  ASSUME ScanInv, Scan, ~fault', NEW w \in Wanted
  PROVE  PointerInv(w)'
<1> DEFINE objs == world.objects
           D == DefinitionsOf(w)
<1>1. world' = world /\ loaded' = loaded /\ ~fault /\ world \in Worlds /\ PointerInv(w)
  BY DEF Scan, ScanInv
<1>2. /\ scans \in Nat /\ obj \in 1 .. Len(Map) /\ Len(objs) \in Nat /\ Len(Map) \in Nat
      /\ scans = 0 => Len(Map) = Len(objs)
  <2>1. /\ Len(objs) \in Nat /\ Len(Map) \in Nat
        /\ Len(Map) = IF loaded = 0 THEN Len(objs) ELSE Len(objs) + 1
    BY <1>1, MapObjects
  <2> HIDE DEF objs
  <2> QED BY <2>1 DEF ScanInv
<1>3. \/ obj < Len(Map) /\ obj' = obj + 1 /\ scans' = scans
      \/ obj = Len(Map) /\ obj' = 1 /\ scans' = scans + 1
  BY <1>2 DEF Scan
<1>4. D' = D
  BY <1>1 DEF DefinitionsOf
<1>5. ASSUME NEW d \in D PROVE d[1] \in 1 .. Len(objs) /\ d[2] \in Nat /\ d = <<d[1], d[2]>> /\ d # NotFound
  BY <1>2 DEF DefinitionsOf, NotFound
<1>6. ASSUME NEW d \in D, Scanned(d)', ~Scanned(d) PROVE scans = 0 /\ d[1] = obj
  <2>1. scans = 0 /\ d[1] >= obj /\ Len(Map) = Len(objs) /\ d[1] \in 1 .. Len(objs)
    BY <1>2, <1>5, <1>6 DEF Scanned
  <2>2. scans' > 0 \/ d[1] < obj'
    BY <1>6 DEF Scanned
  <2> QED BY <1>2, <1>3, <2>1, <2>2
<1>7. obj \in 1 .. Len(objs) => Map[obj] = objs[obj] /\ objs[obj] \in Objects
  BY <1>1, MapObjects
<1>8. obj \notin 1 .. Len(objs) => Reads(Map[obj]) = {}
  <2>1. obj \notin 1 .. Len(objs) => Map[obj] = Driver
    BY <1>1, <1>2, MapObjects
  <2> QED BY <2>1, DriverFields
<1> HIDE DEF objs, D
<1>9. \/ found[w] = NotFound /\ \A d \in D : ~Scanned(d)
      \/ found[w] \in D /\ \A d \in D : Before(found[w], d)
  BY <1>1 DEF PointerInv, D
<1>10. SUFFICES \/ found'[w] = NotFound /\ \A d \in D : ~(Scanned(d)')
                \/ found'[w] \in D /\ \A d \in D : Before(found'[w], d)
  BY <1>4 DEF PointerInv, D, Before, Scanned
<1>11. CASE found[w] \in D /\ \A d \in D : Before(found[w], d)
  <2>1. found[w] # NotFound
    BY <1>5, <1>11
  <2>2. found'[w] = found[w]
    BY <2>1, Retrieved
  <2> QED BY <1>11, <2>2
<1>12. CASE found[w] = NotFound /\ \A d \in D : ~Scanned(d)
  <2>1. CASE DefinedAt(Map[obj], w) = {} \/ Skipped(Map[obj]) \/ Reads(Map[obj]) = {}
    <3>1. found'[w] = NotFound
      BY <1>12, <2>1, Retrieved
    <3>2. ASSUME NEW d \in D, Scanned(d)' PROVE FALSE
      <4>1. d[1] = obj /\ obj \in 1 .. Len(objs)
        BY <1>5, <1>6, <1>12, <3>2
      <4>2. Counted(objs[obj]) /\ DefinedAt(objs[obj], w) # {}
        BY <4>1 DEF D, DefinitionsOf, objs
      <4>3. ~Skipped(objs[obj]) /\ Reads(objs[obj]) # {}
        BY <1>7, <4>1, <4>2, CountedRead
      <4> QED BY <1>7, <2>1, <4>1, <4>2, <4>3
    <3> QED BY <3>1, <3>2
  <2>2. CASE ~(DefinedAt(Map[obj], w) = {} \/ Skipped(Map[obj]) \/ Reads(Map[obj]) = {})
    <3> DEFINE A == DefinedAt(objs[obj], w)
    <3>1. obj \in 1 .. Len(objs) /\ Map[obj] = objs[obj] /\ objs[obj] \in Objects
      BY <1>7, <1>8, <2>2
    <3>2. Counted(objs[obj])
      BY <2>2, <3>1, CountedRead
    <3>3. A # {} /\ A \in SUBSET Nat
      <4>1. A \subseteq Nat
        BY DEF DefinedAt
      <4> QED BY <2>2, <3>1, <4>1
    <3>4. found'[w] = <<obj, Min(A)>>
      <4>1. found'[w] = <<obj, Min(DefinedAt(Map[obj], w))>>
        BY <2>2, Retrieved, <1>12
      <4> QED BY <3>1, <4>1
    <3> HIDE DEF A
    <3>5. Min(A) \in A /\ Min(A) \in Nat /\ \A y \in A : Min(A) <= y
      BY <3>3, MinIsLeast
    <3>6. <<obj, Min(A)>> \in D
      BY <3>1, <3>2, <3>5 DEF D, DefinitionsOf, objs, A
    <3>7. ASSUME NEW d \in D PROVE Before(<<obj, Min(A)>>, d)
      <4>1. d[1] \in 1 .. Len(objs) /\ d[1] >= obj
        BY <1>2, <1>5, <1>12 DEF Scanned
      <4>2. CASE d[1] = obj
        <5>1. d[2] \in A
          BY <4>2 DEF D, DefinitionsOf, objs, A
        <5> QED BY <3>5, <4>2, <5>1 DEF Before
      <4>3. CASE d[1] # obj
        BY <1>2, <4>1, <4>3 DEF Before
      <4> QED BY <4>2, <4>3
    <3> QED BY <3>4, <3>6, <3>7
  <2> QED BY <2>1, <2>2
<1> QED BY <1>9, <1>11, <1>12

\* Loading and unloading the driver's library changes no pointer of the scan.
LEMMA ScanStep == ScanInv /\ [Next]_vars => ScanInv'
<1> SUFFICES ASSUME ScanInv, [Next]_vars PROVE ScanInv'
  OBVIOUS
<1>1. world \in Worlds /\ world' = world
  BY DEF ScanInv, Next, vars, Scan, Load, Unload, Dlsym, DlsymNext, GetProcAddress
<1>2. Len(world.objects) \in Nat \ {0} /\ Len(Map) = IF loaded = 0 THEN Len(world.objects) ELSE Len(world.objects) + 1
  BY <1>1, MapObjects
<1>3. Len(Map)' = IF loaded' = 0 THEN Len(world.objects) ELSE Len(world.objects) + 1
  <2>1. Map' = IF loaded' = 0 THEN world.objects ELSE Append(world.objects, Driver)
    BY <1>1 DEF Map
  <2>2. world.objects \in Seq(Objects)
    BY <1>1, SymbolConstantsOK
  <2> DEFINE d == Driver
             objs == world.objects
  <2> HIDE DEF d, objs
  <2>3. Len(Append(objs, d)) = Len(objs) + 1
    BY <2>2 DEF objs
  <2> QED BY <2>1, <2>3 DEF objs, d
<1>4. CASE Scan
  <2>1. loaded' = loaded /\ scans' \in Nat /\ obj' \in 1 .. Len(Map) /\ scans' >= scans /\ Len(Map)' = Len(Map)
    BY <1>2, <1>3, <1>4 DEF Scan, ScanInv
  <2>2. ~fault' => \A w \in Wanted : PointerInv(w)'
    BY <1>4, ScanPointer
  <2> QED BY <1>1, <2>1, <2>2 DEF ScanInv
<1>5. ASSUME UNCHANGED scanVars, Len(Map)' >= obj, loaded' # 0 => scans > 0 PROVE ScanInv'
  <2>1. \A w \in Wanted : PointerInv(w)' <=> PointerInv(w)
    BY <1>1, <1>5 DEF PointerInv, DefinitionsOf, Scanned, scanVars
  <2>2. obj' \in 1 .. Len(Map)'
    BY <1>2, <1>3, <1>5 DEF ScanInv, scanVars
  <2> QED BY <1>1, <1>5, <2>1, <2>2 DEF ScanInv, scanVars
<1>6. CASE Load
  BY <1>2, <1>3, <1>5, <1>6 DEF Load, Ready, ScanInv
<1>7. CASE Unload
  BY <1>2, <1>3, <1>5, <1>7 DEF Unload, ScanInv
<1>8. ASSUME UNCHANGED scanVars, loaded' = loaded PROVE ScanInv'
  BY <1>2, <1>3, <1>5, <1>8 DEF ScanInv
<1> QED BY <1>4, <1>6, <1>7, <1>8 DEF Next, vars, scanVars, Dlsym, DlsymNext, GetProcAddress

\* From the end of the first scan of any objects on each pointer has the first
\* definition in load order, among the objects the scan can count.
THEOREM FirstIsTaken == Spec => []FirstDefinition
<1>1. Init => ScanInv
  <2> SUFFICES ASSUME Init PROVE ScanInv
    OBVIOUS
  <2>1. world \in Worlds /\ scans = 0 /\ obj = 1 /\ loaded = 0 /\ \A w \in Wanted : found[w] = NotFound
    BY DEF Init
  <2>2. Len(Map) \in Nat \ {0}
    BY <2>1, MapObjects
  <2>3. ASSUME NEW w \in Wanted, NEW d \in DefinitionsOf(w) PROVE ~Scanned(d)
    <3>1. Len(world.objects) \in Nat
      BY <2>1, MapObjects
    <3>2. d[1] \in 1 .. Len(world.objects)
      BY DEF DefinitionsOf
    <3> QED BY <2>1, <3>1, <3>2 DEF Scanned
  <2> QED BY <2>1, <2>2, <2>3 DEF ScanInv, PointerInv
<1>2. ScanInv => FirstDefinition
  <2> SUFFICES ASSUME ScanInv, ~fault, scans > 0, NEW w \in Wanted
               PROVE  IF Definitions(w) = {} THEN found[w] = NotFound
                      ELSE found[w] \in Definitions(w) /\ \A d \in Definitions(w) : Before(found[w], d)
    BY DEF FirstDefinition
  <2>1. Definitions(w) = DefinitionsOf(w)
    BY DefinitionsAre DEF ScanInv
  <2>2. PointerInv(w)
    BY DEF ScanInv
  <2> QED BY <2>1, <2>2 DEF PointerInv, Scanned
<1> QED BY <1>1, <1>2, ScanStep, PTL DEF Spec

=============================================================================
