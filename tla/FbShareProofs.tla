---------------------------- MODULE FbShareProofs ----------------------------
(***************************************************************************)
(* Theorems about FbShare for any processes, sizes, limit and deployments. *)
(***************************************************************************)
EXTENDS FbShare, ByteCountProofs

-----------------------------------------------------------------------------
(* Bytes held *)

\* The constants, in the form the proofs use them.
LEMMA Constants ==
  /\ IsFiniteSet(Procs) /\ IsFiniteSet(Sizes) /\ Sizes \subseteq Size /\ Size \subseteq Nat
  /\ \A n \in Sizes : n \in Nat \ {0}
  /\ NoPid \notin Procs /\ Ghost \notin Procs
  /\ TotalMem \in Nat /\ TotalMem < SizeMod /\ SizeMod \in Nat \ {0}
  /\ KiB \in Nat \ {0} /\ DriverMem \in Nat /\ TotalMem \in Size /\ 0 \in Size
  /\ \A w \in Worlds : w.sizes \subseteq Sizes
<1>1. IsFiniteSet(Procs)
  BY FbConstantsOK, FS_Union DEF Procs
<1>2. IsFiniteSet(1 .. SizeMod - 1) /\ Sizes \subseteq 1 .. SizeMod - 1
  <2>1. 1 \in Int /\ SizeMod - 1 \in Int
    BY FbConstantsOK
  <2> QED BY <2>1, FbConstantsOK, FS_Interval
<1>3. IsFiniteSet(Sizes)
  BY <1>2, FS_Subset
<1>4. \A w \in Worlds : w.sizes \subseteq Sizes
  BY FbConstantsOK DEF World
<1> QED BY <1>1, <1>2, <1>3, <1>4, FbConstantsOK DEF Size

\* What one process holds, by its counts.
HeldOf(counts) == Total([n \in Sizes |-> n * counts[n]])

\* It is a number, at least the size of any object that is there.
LEMMA HeldType ==
  ASSUME NEW c \in [Sizes -> Nat]
  PROVE  /\ HeldOf(c) \in Nat
         /\ \A n \in Sizes : c[n] > 0 => n <= HeldOf(c)
<1> DEFINE f == [n \in Sizes |-> n * c[n]]
<1>1. f \in [Sizes -> Nat]
  BY Constants
<1>2. HeldOf(c) = Total(f)
  BY DEF HeldOf
<1>3. \A n \in Sizes : c[n] > 0 => n <= f[n]
  <2> SUFFICES ASSUME NEW n \in Sizes, c[n] > 0 PROVE n <= n * c[n]
    OBVIOUS
  <2>1. n \in Nat /\ c[n] \in Nat
    BY Constants
  <2>2. c[n] - 1 \in Nat /\ n * c[n] = n + n * (c[n] - 1)
    BY <2>1
  <2>3. n * (c[n] - 1) \in Nat
    BY <2>1, <2>2
  <2> QED BY <2>1, <2>2, <2>3
<1> HIDE DEF f
<1>4. Total(f) \in Nat
  BY <1>1, Constants, TotalType
<1>5. \A n \in Sizes : f[n] <= Total(f) /\ f[n] \in Nat /\ n \in Nat
  BY <1>1, Constants, TotalElement
<1> QED BY <1>2, <1>3, <1>4, <1>5

\* One object more, or one less.
LEMMA HeldChange ==
  ASSUME NEW c \in [Sizes -> Nat], NEW n \in Sizes
  PROVE  /\ HeldOf([c EXCEPT ![n] = @ + 1]) = HeldOf(c) + n
         /\ c[n] > 0 => HeldOf([c EXCEPT ![n] = @ - 1]) = HeldOf(c) - n
<1>0. n \in Nat /\ c[n] \in Nat
  BY Constants
<1>1. ASSUME NEW d \in [Sizes -> Nat], \A m \in Sizes \ {n} : d[m] = c[m]
      PROVE  HeldOf(d) + n * c[n] = HeldOf(c) + n * d[n]
  <2> DEFINE f == [m \in Sizes |-> m * c[m]]
             g == [m \in Sizes |-> m * d[m]]
  <2>1. f \in [Sizes -> Nat] /\ g \in [Sizes -> Nat]
    BY Constants
  <2>2. \A m \in Sizes \ {n} : g[m] = f[m]
    BY <1>1
  <2>3. f[n] = n * c[n] /\ g[n] = n * d[n] /\ Total(f) = HeldOf(c) /\ Total(g) = HeldOf(d)
    BY DEF HeldOf
  <2>4. IsFiniteSet(Sizes)
    BY Constants
  <2> HIDE DEF f, g
  <2>5. Total(g) + f[n] = Total(f) + g[n]
    BY <2>1, <2>2, <2>4, TotalChange
  <2> QED BY <2>3, <2>5
<1>2. HeldOf([c EXCEPT ![n] = @ + 1]) = HeldOf(c) + n
  <2> DEFINE d == [c EXCEPT ![n] = @ + 1]
  <2>1. d \in [Sizes -> Nat] /\ d[n] = c[n] + 1 /\ \A m \in Sizes \ {n} : d[m] = c[m]
    BY <1>0
  <2> HIDE DEF d
  <2>2. HeldOf(d) \in Nat /\ HeldOf(c) \in Nat
    BY <2>1, HeldType
  <2>3. n * d[n] = n * c[n] + n /\ n * c[n] \in Nat
    BY <1>0, <2>1
  <2>4. HeldOf(d) = HeldOf(c) + n
    BY <1>0, <1>1, <2>1, <2>2, <2>3
  <2> QED BY <2>4 DEF d
<1>3. ASSUME c[n] > 0 PROVE HeldOf([c EXCEPT ![n] = @ - 1]) = HeldOf(c) - n
  <2> DEFINE d == [c EXCEPT ![n] = @ - 1]
  <2>1. d \in [Sizes -> Nat] /\ d[n] = c[n] - 1 /\ \A m \in Sizes \ {n} : d[m] = c[m]
    BY <1>0, <1>3
  <2> HIDE DEF d
  <2>2. HeldOf(d) \in Nat /\ HeldOf(c) \in Nat
    BY <2>1, HeldType
  <2>3. n * c[n] = n * d[n] + n /\ n * d[n] \in Nat
    BY <1>0, <2>1
  <2>4. HeldOf(d) = HeldOf(c) - n
    BY <1>0, <1>1, <2>1, <2>2, <2>3
  <2> QED BY <2>4 DEF d
<1> QED BY <1>2, <1>3

\* Nothing is nothing.
LEMMA HeldNothing == HeldOf(Nothing) = 0 /\ Nothing \in [Sizes -> Nat]
<1>1. \A n \in Sizes : n * 0 = 0
  BY Constants
<1> QED BY <1>1, TotalZero DEF HeldOf, Nothing

-----------------------------------------------------------------------------
(* Types *)

\* What is known of the call in progress: an object that is being freed is
\* there, and so is one that has just been made.
CallInv ==
  \A p \in Procs :
    /\ pc[p] \in {"kernel", "load", "store"} => call[p].op \in {"alloc", "free"} /\ call[p].size \in Sizes
    /\ pc[p] = "kernel" /\ call[p].op = "free" => objects[p][call[p].size] > 0
    /\ pc[p] \in {"load", "store"} /\ call[p].op = "alloc" => objects[p][call[p].size] > 0
    /\ pc[p] = "store" => reg[p] \in Size

\* Which points belong to _init_device_prop, to the memory ioctls and to
\* __get_fb_info, and who gets there.
PointInv ==
  \A p \in Procs :
    /\ pc[p] \in {"check", "lstat", "total", "free", "pid"} => task[p] = "init" /\ p \in Members
    /\ pc[p] \in {"open", "truncate", "map", "clear"} /\ task[p] = "init" => p \in Members
    /\ pc[p] \in {"run", "kernel", "load", "store"} => task[p] = "init"
    /\ pc[p] \in {"qpid", "qtotal", "replied"} => task[p] = "query"
    /\ p \notin Members => objects[p] = Nothing /\ pc[p] \notin {"kernel", "load", "store"}

FbInv == TypeOK /\ CallInv /\ PointInv

-----------------------------------------------------------------------------
(* Members see their limit *)

\* The segment was initialised by others or is about to be: once a pid is
\* recorded the limit is there too, and a ready member has seen a pid.
SeenInv ==
  world.leftOver /\ ~world.mayFail =>
    /\ seg = "sized"
    /\ pid # NoPid => total_mem = TotalMem
    /\ \A p \in Procs :
         /\ pc[p] \notin {"truncate", "clear"} /\ (pc[p] = "map" => ~first[p])
         /\ pc[p] \in {"free", "pid"} => total_mem = TotalMem
         /\ pc[p] = "lstat" \/ Ready(p) => pid # NoPid
         /\ p \in Members /\ pc[p] = "replied" => report[p].total = TotalMem \div KiB

-----------------------------------------------------------------------------
(* Serial deployments *)

Serial == world.serial /\ world.ownerStays

NoneReady == \A p \in Procs : ~Ready(p)

\* In the middle of creating or initialising the segment.
Preparing(p) == pc[p] \in {"truncate", "clear", "total", "free", "pid"} \/ (pc[p] = "map" /\ first[p])

\* One process is busy at a time.
AloneInv == \A p, q \in Procs : pc[p] \notin {"gone", "run"} /\ pc[q] \notin {"gone", "run"} => p = q

\* The recorded process is ready if it lives, and it lives if any is ready.
OwnerInv ==
  /\ pid \in Alive => Ready(pid)
  /\ ~NoneReady => pid \in Alive /\ seg = "sized"
  /\ \A p \in Procs : /\ Preparing(p) => NoneReady
                      /\ pc[p] = "lstat" => reg[p] = pid
                      /\ pc[p] \in {"lstat", "total", "free", "pid"} => seg = "sized"

\* A process between the driver and the segment's books: what it holds, what
\* it is about to make of the segment and what it has loaded of it.
Between(p) ==
  /\ ~Ready(p) => objects[p] = Nothing
  /\ pc[p] = "pid" => free_mem = TotalMem
  /\ pc[p] = "store" => reg[p] = free_mem
  /\ pc[p] \in {"kernel", "load", "store"} /\ call[p].op = "alloc" => call[p].size <= free_mem

\* The segment's books.
BooksInv ==
  /\ ~NoneReady => free_mem + ChargedUse + leaked = TotalMem
  /\ NoneReady => leaked = 0
  /\ \A p \in Procs : Between(p)

SerialInv == Serial => AloneInv /\ OwnerInv /\ BooksInv

\* What is charged for a process, by where it is, its call and its objects.
ChargedOf(where, c, counts) ==
  CASE where \in {"load", "store"} /\ c.op = "alloc" -> HeldOf(counts) - c.size
    [] where \in {"load", "store"} /\ c.op = "free"  -> HeldOf(counts) + c.size
    [] OTHER -> HeldOf(counts)

\* It is a number.
LEMMA ChargedOfType ==
  ASSUME NEW counts \in [Sizes -> Nat], NEW where, NEW c,
         where \in {"load", "store"} => c.op \in {"alloc", "free"} /\ c.size \in Sizes,
         where \in {"load", "store"} /\ c.op = "alloc" => counts[c.size] > 0
  PROVE  ChargedOf(where, c, counts) \in Nat
<1>1. HeldOf(counts) \in Nat /\ \A n \in Sizes : counts[n] > 0 => n <= HeldOf(counts)
  BY HeldType
<1>2. CASE where \in {"load", "store"} /\ c.op = "alloc"
  <2>1. c.size \in Nat /\ c.size <= HeldOf(counts)
    BY <1>1, <1>2, Constants
  <2> QED BY <1>1, <1>2, <2>1 DEF ChargedOf
<1>3. CASE where \in {"load", "store"} /\ c.op = "free"
  <2>1. c.size \in Nat
    BY <1>3, Constants
  <2> QED BY <1>1, <1>3, <2>1 DEF ChargedOf
<1>4. CASE where \notin {"load", "store"}
  BY <1>1, <1>4 DEF ChargedOf
<1> QED BY <1>2, <1>3, <1>4

\* What is charged for a process is a number.
LEMMA ChargedType ==
  ASSUME TypeOK, CallInv, NEW p \in Procs
  PROVE  Charged(p) = ChargedOf(pc[p], call[p], objects[p]) /\ Charged(p) \in Nat
<1>1. Charged(p) = ChargedOf(pc[p], call[p], objects[p])
  BY DEF Charged, ChargedOf, Held, HeldOf
<1>2. objects[p] \in [Sizes -> Nat]
  BY DEF TypeOK
<1> QED BY <1>1, <1>2, ChargedOfType DEF CallInv

\* A process goes away.
LEMMA FbGone ==
  ASSUME FbInv, NEW p \in Procs, Gone(p), UNCHANGED <<seg_vars, world>>
  PROVE  FbInv'
<1> USE DEF FbInv
<1>1. leaked' \in Nat
  BY ChargedType DEF Gone, TypeOK
<1>2. TypeOK'
  BY <1>1, HeldNothing, Constants DEF Gone, Goto, TypeOK, seg_vars, NoCall, NoReport, Pids
<1>3. CallInv'
  BY DEF Gone, Goto, TypeOK, CallInv
<1>4. PointInv'
  BY DEF Gone, Goto, TypeOK, PointInv
<1> QED BY <1>2, <1>3, <1>4

\* The start of a process, create_shm_addr and _init_device_prop.
LEMMA FbOpen ==
  ASSUME FbInv, NEW p \in Procs,
         \/ Start(p) \/ OpenCreate(p) \/ OpenExisting(p) \/ Truncate(p) \/ Map(p) \/ Clear(p)
         \/ CheckPid(p) \/ Lstat(p) \/ StoreTotal(p) \/ StoreFree(p) \/ StorePid(p)
  PROVE  FbInv'
<1> USE DEF FbInv, Goto, seg_vars
<1>1. TypeOK'
  <2> USE Constants DEF TypeOK
  <2>1. CASE Start(p) \/ Truncate(p) \/ Lstat(p)
    BY <2>1 DEF Start, Truncate, Lstat, Points
  <2>2. CASE OpenCreate(p) \/ OpenExisting(p)
    BY <2>2 DEF OpenCreate, OpenExisting, Points
  <2>3. CASE Map(p) \/ Clear(p)
    BY <2>3 DEF Map, Clear, AfterMap, Points, Pids
  <2>4. CASE CheckPid(p)
    BY <2>4 DEF CheckPid, Points
  <2>5. CASE StoreTotal(p) \/ StoreFree(p) \/ StorePid(p)
    BY <2>5 DEF StoreTotal, StoreFree, StorePid, Points, Pids
  <2> QED BY <2>1, <2>2, <2>3, <2>4, <2>5
<1>2. CallInv'
  BY DEF TypeOK, CallInv, Start, OpenCreate, OpenExisting, Truncate, Map, AfterMap, Clear, CheckPid,
    Lstat, StoreTotal, StoreFree, StorePid
<1>3. PointInv'
  BY DEF TypeOK, PointInv, Start, OpenCreate, OpenExisting, Truncate, Map, AfterMap, Clear, CheckPid,
    Lstat, StoreTotal, StoreFree, StorePid
<1> QED BY <1>1, <1>2, <1>3

\* size_t arithmetic stays in range.
LEMMA SizeClosed ==
  ASSUME NEW a \in Size, NEW b \in Size
  PROVE  /\ Plus(a, b) \in Size /\ Minus(a, b) \in Size
         /\ a + b < SizeMod => Plus(a, b) = a + b
         /\ b <= a => Minus(a, b) = a - b
<1>1. SizeMod \in Nat \ {0} /\ a \in 0 .. SizeMod - 1 /\ b \in 0 .. SizeMod - 1
  BY Constants DEF Size
<1>2. ASSUME NEW x \in Nat PROVE x % SizeMod \in 0 .. SizeMod - 1
  BY <1>1
<1>3. a + b \in Nat /\ a + SizeMod - b \in Nat
  BY <1>1
<1>4. Plus(a, b) \in Size /\ Minus(a, b) \in Size
  BY <1>2, <1>3 DEF Plus, Minus, Size
<1>5. a + b < SizeMod => Plus(a, b) = a + b
  BY <1>1 DEF Plus
<1>6. ASSUME b <= a PROVE Minus(a, b) = a - b
  <2>1. a - b \in 0 .. SizeMod - 1 /\ a + SizeMod - b = (a - b) + SizeMod
    BY <1>1, <1>6
  <2>2. ((a - b) + SizeMod) % SizeMod = (a - b) % SizeMod
    BY <1>1, <2>1
  <2>3. (a - b) % SizeMod = a - b
    BY <1>1, <2>1
  <2> QED BY <2>1, <2>2, <2>3 DEF Minus
<1> QED BY <1>4, <1>5, <1>6

\* The memory ioctls.
LEMMA FbCalls ==
  ASSUME FbInv, NEW p \in Procs,
         \/ Alloc(p) \/ Free(p) \/ KernelDoes(p) \/ KernelRefuses(p) \/ LoadFree(p) \/ StoreFreeMem(p)
  PROVE  FbInv'
<1> USE DEF FbInv, Goto, seg_vars
<1>1. CASE Alloc(p)
  <2>1. PICK n \in world.sizes : call' = [call EXCEPT ![p] = [op |-> "alloc", size |-> n]]
    BY <1>1 DEF Alloc
  <2>2. n \in Sizes /\ n \in Size
    BY <2>1, Constants DEF TypeOK
  <2>3. TypeOK'
    BY <1>1, <2>1, <2>2 DEF Alloc, TypeOK, Points
  <2>4. CallInv' /\ PointInv'
    BY <1>1, <2>1, <2>2 DEF Alloc, TypeOK, CallInv, PointInv
  <2> QED BY <2>3, <2>4
<1>2. CASE Free(p)
  <2>1. PICK n \in Sizes : objects[p][n] > 0 /\ call' = [call EXCEPT ![p] = [op |-> "free", size |-> n]]
    BY <1>2 DEF Free
  <2>2. n \in Size
    BY <2>1, Constants
  <2>3. p \in Members
    <3>1. ASSUME objects[p] = Nothing PROVE FALSE
      BY <2>1, <3>1 DEF Nothing
    <3> QED BY <3>1 DEF PointInv
  <2>4. TypeOK'
    BY <1>2, <2>1, <2>2 DEF Free, TypeOK, Points
  <2>5. CallInv' /\ PointInv'
    BY <1>2, <2>1, <2>2, <2>3 DEF Free, TypeOK, CallInv, PointInv
  <2> QED BY <2>4, <2>5
<1>3. CASE KernelDoes(p)
  <2> DEFINE n == call[p].size
             c == [objects[p] EXCEPT ![n] = IF call[p].op = "alloc" THEN @ + 1 ELSE @ - 1]
  <2>1. n \in Sizes /\ call[p].op \in {"alloc", "free"} /\ (call[p].op = "free" => objects[p][n] > 0)
    BY <1>3 DEF KernelDoes, CallInv
  <2>2. objects[p] \in [Sizes -> Nat] /\ p \in Members
    BY <1>3 DEF TypeOK, KernelDoes, PointInv
  <2>3. c \in [Sizes -> Nat] /\ (call[p].op = "alloc" => c[n] > 0)
    BY <2>1, <2>2
  <2>4. objects' = [objects EXCEPT ![p] = c]
    BY <1>3 DEF KernelDoes, TypeOK
  <2> HIDE DEF c
  <2>5. pc' = [pc EXCEPT ![p] = "load"] /\ UNCHANGED <<seg_vars, task, first, reg, call, report, world, leaked>>
    BY <1>3 DEF KernelDoes
  <2>6. objects' \in [Procs -> [Sizes -> Nat]]
    BY <2>3, <2>4 DEF TypeOK
  <2>7. TypeOK'
    BY <2>5, <2>6 DEF TypeOK, Points
  <2>8. CallInv' /\ PointInv'
    BY <1>3, <2>1, <2>2, <2>3, <2>4 DEF KernelDoes, TypeOK, CallInv, PointInv
  <2> QED BY <2>7, <2>8
<1>4. CASE KernelRefuses(p)
  <2>1. TypeOK'
    BY <1>4, Constants DEF KernelRefuses, TypeOK, NoCall, Points
  <2>2. CallInv' /\ PointInv'
    BY <1>4 DEF KernelRefuses, TypeOK, CallInv, PointInv
  <2> QED BY <2>1, <2>2
<1>5. CASE LoadFree(p)
  <2>1. TypeOK'
    BY <1>5 DEF LoadFree, TypeOK, Points
  <2>2. CallInv' /\ PointInv'
    BY <1>5 DEF LoadFree, TypeOK, CallInv, PointInv
  <2> QED BY <2>1, <2>2
<1>6. CASE StoreFreeMem(p)
  <2>1. reg[p] \in Size /\ call[p].size \in Size
    BY <1>6, Constants DEF StoreFreeMem, CallInv
  <2>2. free_mem' \in Size
    BY <1>6, <2>1, SizeClosed DEF StoreFreeMem
  <2>3. TypeOK'
    BY <1>6, <2>2, Constants DEF StoreFreeMem, TypeOK, NoCall, Points, Pids
  <2>4. CallInv' /\ PointInv'
    BY <1>6 DEF StoreFreeMem, TypeOK, CallInv, PointInv
  <2> QED BY <2>3, <2>4
<1> QED BY <1>1, <1>2, <1>3, <1>4, <1>5, <1>6

\* A number of bytes shifted down to KiB.
LEMMA WholeKiB == ASSUME NEW n \in Nat PROVE n \div KiB \in Nat
<1>1. KiB \in Nat \ {0}
  BY Constants
<1> QED BY <1>1

\* FB_GET_INFO.
LEMMA FbQuery ==
  ASSUME FbInv, NEW p \in Procs,
         QueryFails(p) \/ Query(p) \/ QueryPid(p) \/ QueryTotal(p) \/ QueryReturn(p)
  PROVE  FbInv'
<1> USE DEF FbInv, Goto, seg_vars
<1>1. ASSUME NEW n \in Nat, Reply(p, n) PROVE report' \in [Procs -> [total : Nat, free : Nat]]
  BY <1>1, Constants DEF Reply, TypeOK
<1>2. total_mem \div KiB \in Nat
  <2>1. total_mem \in Nat
    BY Constants DEF TypeOK
  <2> QED BY <2>1, WholeKiB
<1>3. TypeOK'
  <2>1. CASE QueryFails(p) \/ QueryPid(p)
    <3>1. report' \in [Procs -> [total : Nat, free : Nat]]
      BY <1>1, <2>1 DEF QueryFails, QueryPid, TypeOK
    <3> QED BY <2>1, <3>1 DEF QueryFails, QueryPid, TypeOK, Points
  <2>2. CASE QueryTotal(p)
    <3>1. report' \in [Procs -> [total : Nat, free : Nat]]
      BY <1>1, <1>2, <2>2 DEF QueryTotal
    <3> QED BY <2>2, <3>1 DEF QueryTotal, TypeOK, Points
  <2>3. CASE Query(p)
    BY <2>3 DEF Query, TypeOK, Points
  <2>4. CASE QueryReturn(p)
    <3>1. NoReport \in [total : Nat, free : Nat]
      BY DEF NoReport
    <3> QED BY <2>4, <3>1 DEF QueryReturn, TypeOK, Points
  <2> QED BY <2>1, <2>2, <2>3, <2>4
<1>4. CallInv'
  BY DEF QueryFails, Query, QueryPid, QueryTotal, QueryReturn, TypeOK, CallInv
<1>5. PointInv'
  BY DEF QueryFails, Query, QueryPid, QueryTotal, QueryReturn, TypeOK, PointInv
<1> QED BY <1>3, <1>4, <1>5

\* Every step keeps the types.
LEMMA FbStep == FbInv /\ [Next]_vars => FbInv'
<1> SUFFICES ASSUME FbInv, [Next]_vars PROVE FbInv'
  OBVIOUS
<1>1. CASE UNCHANGED vars
  BY <1>1 DEF vars, FbInv, TypeOK, CallInv, PointInv
<1>2. ASSUME NEW p \in Procs, Die(p) \/ BusError(p) \/ InitFails(p) PROVE FbInv'
  BY <1>2, FbGone DEF Die, BusError, InitFails
<1> QED BY <1>1, <1>2, FbOpen, FbCalls, FbQuery DEF Next

\* The initial states are typed.
LEMMA FbInit == Init => FbInv
<1> SUFFICES ASSUME Init PROVE FbInv
  OBVIOUS
<1>1. total_mem \in Size /\ free_mem \in Size /\ pid \in Pids /\ seg \in {"none", "empty", "sized"}
  BY Constants DEF Init, Pids, Size
<1>2. TypeOK
  BY <1>1, HeldNothing, Constants DEF Init, TypeOK, NoCall, NoReport, Pids
<1>3. CallInv /\ PointInv
  BY DEF Init, CallInv, PointInv
<1> QED BY <1>2, <1>3 DEF FbInv

\* Types hold in every state.
LEMMA FbAlways == Spec => []FbInv
BY FbInit, FbStep, PTL DEF Spec

\* Types hold in every state of the shared segment and its processes: the
\* counters of the segment stay in size_t, the driver's object counts never go
\* below zero and what a dead member leaves charged is never negative.
THEOREM FbTypeCorrect == Spec => []TypeOK
<1>1. FbInv => TypeOK
  BY DEF FbInv
<1> QED BY <1>1, FbAlways, PTL

-----------------------------------------------------------------------------
(* FB_GET_INFO tells a member its limit *)

\* A process that goes away leaves the segment as it is.
LEMMA SeenGone ==
  ASSUME FbInv, SeenInv, NEW p \in Procs, Gone(p), UNCHANGED <<seg_vars, world>>
  PROVE  SeenInv'
BY DEF FbInv, TypeOK, SeenInv, Ready, Gone, Goto, seg_vars

\* Nothing is created or cleared in a segment that is there already, and a pid
\* is recorded only after the limit.
LEMMA SeenOpen ==
  ASSUME FbInv, SeenInv, NEW p \in Procs,
         \/ Start(p) \/ OpenCreate(p) \/ OpenExisting(p) \/ Truncate(p) \/ Map(p) \/ Clear(p)
         \/ CheckPid(p) \/ Lstat(p) \/ StoreTotal(p) \/ StoreFree(p) \/ StorePid(p)
  PROVE  SeenInv'
<1> SUFFICES ASSUME world.leftOver, ~world.mayFail PROVE SeenInv'
  BY DEF SeenInv, Start, OpenCreate, OpenExisting, Truncate, Map, Clear, CheckPid, Lstat, StoreTotal,
    StoreFree, StorePid
<1> USE DEF FbInv, TypeOK, SeenInv, Ready, Goto, seg_vars
<1>1. CASE Start(p)
  BY <1>1 DEF Start
<1>2. CASE OpenCreate(p) \/ Truncate(p) \/ Clear(p)
  BY <1>2 DEF OpenCreate, Truncate, Clear
<1>3. CASE OpenExisting(p) \/ Map(p)
  BY <1>3 DEF OpenExisting, Map, AfterMap
<1>4. CASE CheckPid(p) \/ Lstat(p)
  <2>1. /\ \A q \in Procs : q # p => pc'[q] = pc[q]
        /\ UNCHANGED <<seg, total_mem, pid, task, first, report, world>>
    BY <1>4 DEF CheckPid, Lstat
  <2>2. CASE CheckPid(p)
    BY <2>1, <2>2 DEF CheckPid, PointInv
  <2>3. CASE Lstat(p)
    <3>1. pc'[p] \in {"run", "total"} /\ pid # NoPid
      BY <2>3 DEF Lstat
    <3> QED BY <2>1, <3>1
  <2> QED BY <1>4, <2>2, <2>3
<1>5. CASE StoreTotal(p) \/ StoreFree(p)
  BY <1>5 DEF StoreTotal, StoreFree, PointInv
<1>6. CASE StorePid(p)
  BY <1>6, Constants DEF StorePid
<1> QED BY <1>1, <1>2, <1>3, <1>4, <1>5, <1>6

\* The memory ioctls neither touch the limit nor the recorded pid.
LEMMA SeenCalls ==
  ASSUME FbInv, SeenInv, NEW p \in Procs,
         \/ Alloc(p) \/ Free(p) \/ KernelDoes(p) \/ KernelRefuses(p) \/ LoadFree(p) \/ StoreFreeMem(p)
  PROVE  SeenInv'
<1>1. /\ pc[p] \in {"run", "kernel", "load", "store"} /\ pc'[p] \in {"run", "kernel", "load", "store"}
      /\ \A q \in Procs : q # p => pc'[q] = pc[q]
      /\ UNCHANGED <<seg, total_mem, pid, task, first, report, world>>
  BY DEF FbInv, TypeOK, Goto, seg_vars, Alloc, Free, KernelDoes, KernelRefuses, LoadFree, StoreFreeMem
<1> QED BY <1>1 DEF SeenInv, Ready

\* The reply to a member has the limit: it is ready, so a pid is recorded and
\* the limit with it.
LEMMA SeenQuery ==
  ASSUME TotalMem >= KiB, FbInv, SeenInv, NEW p \in Procs,
         QueryFails(p) \/ Query(p) \/ QueryPid(p) \/ QueryTotal(p) \/ QueryReturn(p)
  PROVE  SeenInv'
<1> SUFFICES ASSUME world.leftOver, ~world.mayFail PROVE SeenInv'
  BY DEF SeenInv, QueryFails, Query, QueryPid, QueryTotal, QueryReturn
<1>0. TotalMem \div KiB > 0
  <2>1. TotalMem \in Nat /\ KiB \in Nat \ {0} /\ TotalMem >= KiB
    BY Constants
  <2> QED BY <2>1
<1> DEFINE limit == TotalMem \div KiB
<1> HIDE DEF limit
<1>1. CASE QueryFails(p)
  BY <1>1 DEF QueryFails
<1>2. CASE Query(p) \/ QueryReturn(p)
  BY <1>2 DEF FbInv, TypeOK, PointInv, SeenInv, Ready, Goto, seg_vars, Query, QueryReturn
<1>3. CASE QueryPid(p)
  <2>1. task[p] = "query" /\ pc[p] # "gone"
    BY <1>3 DEF FbInv, PointInv, QueryPid
  <2>2. p \in Members => pid # NoPid
    BY <2>1 DEF SeenInv, Ready
  <2>3. \A q \in Procs : q # p => report'[q] = report[q] /\ pc'[q] = pc[q]
    BY <1>3 DEF QueryPid, Reply, Goto, FbInv, TypeOK
  <2>4. pc'[p] = "replied" => p \notin Members
    BY <1>3, <2>2 DEF QueryPid, Goto, FbInv, TypeOK
  <2>5. pc'[p] \in {"replied", "qtotal"} /\ UNCHANGED <<seg, total_mem, free_mem, pid, task, first, reg, world>>
    BY <1>3 DEF QueryPid, Goto, FbInv, TypeOK, seg_vars
  <2> QED BY <2>1, <2>3, <2>4, <2>5 DEF SeenInv, Ready
<1>4. CASE QueryTotal(p)
  <2>1. task[p] = "query" /\ pc[p] # "gone"
    BY <1>4 DEF FbInv, PointInv, QueryTotal
  <2>2. p \in Members => total_mem = TotalMem
    BY <2>1 DEF SeenInv, Ready
  <2>3. p \in Members => report'[p].total = TotalMem \div KiB
    BY <1>0, <1>4, <2>2 DEF QueryTotal, Reply, FbInv, TypeOK
  <2>4. \A q \in Procs : q # p => report'[q] = report[q] /\ pc'[q] = pc[q]
    BY <1>4 DEF QueryTotal, Reply, Goto, FbInv, TypeOK
  <2>5. pc'[p] = "replied" /\ UNCHANGED <<seg, total_mem, free_mem, pid, task, first, reg, world>>
    BY <1>4 DEF QueryTotal, Goto, FbInv, TypeOK, seg_vars
  <2> QED BY <2>1, <2>3, <2>4, <2>5 DEF SeenInv, Ready
<1> QED BY <1>1, <1>2, <1>3, <1>4

\* A process that has been through _init_device_prop is told its own limit by
\* FB_GET_INFO and never the size of the GPU, with any number of members and
\* observers that start, die and query at the same time, provided the limit is
\* at least 1 KiB (total_mem >> 10 is 0 otherwise, and the hook then leaves the
\* driver's own number in the reply).
THEOREM MembersSeeLimit ==
  ASSUME TotalMem >= KiB
  PROVE  Spec => []MemberSeesLimit
<1>1. Init => SeenInv
  BY DEF Init, SeenInv, Ready
<1>2. FbInv /\ SeenInv /\ [Next]_vars => SeenInv'
  <2> SUFFICES ASSUME FbInv, SeenInv, [Next]_vars PROVE SeenInv'
    OBVIOUS
  <2>1. CASE UNCHANGED vars
    BY <2>1 DEF vars, SeenInv, Ready
  <2>2. ASSUME NEW p \in Procs, Die(p) \/ BusError(p) \/ InitFails(p) PROVE SeenInv'
    BY <2>2, SeenGone DEF Die, BusError, InitFails
  <2> QED BY <2>1, <2>2, SeenOpen, SeenCalls, SeenQuery DEF Next
<1>3. SeenInv => MemberSeesLimit
  BY DEF SeenInv, MemberSeesLimit, Procs
<1> QED BY <1>1, <1>2, <1>3, FbAlways, PTL DEF Spec

-----------------------------------------------------------------------------
(* Serial deployments: the segment's books *)

\* Everything of a process but the one that takes the step stays as it is.
Others(p) ==
  /\ \A q \in Procs : q # p => /\ pc'[q] = pc[q] /\ task'[q] = task[q] /\ first'[q] = first[q]
                               /\ reg'[q] = reg[q] /\ call'[q] = call[q] /\ objects'[q] = objects[q]
  /\ world' = world

\* What the members have charged together changes by what one of them has.
LEMMA ChargedStep ==
  ASSUME FbInv, FbInv', NEW p \in Procs, Others(p)
  PROVE  /\ ChargedUse \in Nat /\ ChargedUse' \in Nat
         /\ ChargedUse' + ChargedOf(pc[p], call[p], objects[p])
              = ChargedUse + ChargedOf(pc'[p], call'[p], objects'[p])
         /\ ChargedOf(pc[p], call[p], objects[p]) \in Nat
         /\ ChargedOf(pc'[p], call'[p], objects'[p]) \in Nat
         /\ ChargedOf(pc[p], call[p], objects[p]) <= ChargedUse
<1> DEFINE f == [q \in Procs |-> ChargedOf(pc[q], call[q], objects[q])]
           g == [q \in Procs |-> ChargedOf(pc'[q], call'[q], objects'[q])]
<1>1. ChargedUse = Total(f)
  BY DEF ChargedUse, Charged, ChargedOf, Held, HeldOf
<1>2. ChargedUse' = Total(g)
  BY DEF ChargedUse, Charged, ChargedOf, Held, HeldOf
<1>3. f \in [Procs -> Nat]
  <2> SUFFICES ASSUME NEW q \in Procs PROVE ChargedOf(pc[q], call[q], objects[q]) \in Nat
    OBVIOUS
  <2>1. objects[q] \in [Sizes -> Nat]
    BY DEF FbInv, TypeOK
  <2> QED BY <2>1, ChargedOfType DEF FbInv, CallInv
<1>4. g \in [Procs -> Nat]
  <2> SUFFICES ASSUME NEW q \in Procs PROVE ChargedOf(pc'[q], call'[q], objects'[q]) \in Nat
    OBVIOUS
  <2>1. objects'[q] \in [Sizes -> Nat]
    BY DEF FbInv, TypeOK
  <2>2. /\ pc'[q] \in {"load", "store"} => call'[q].op \in {"alloc", "free"} /\ call'[q].size \in Sizes
        /\ pc'[q] \in {"load", "store"} /\ call'[q].op = "alloc" => objects'[q][call'[q].size] > 0
    BY DEF FbInv, CallInv
  <2> QED BY <2>1, <2>2, ChargedOfType
<1>5. \A q \in Procs \ {p} : g[q] = f[q]
  BY DEF Others
<1>6. f[p] = ChargedOf(pc[p], call[p], objects[p]) /\ g[p] = ChargedOf(pc'[p], call'[p], objects'[p])
  OBVIOUS
<1>7. IsFiniteSet(Procs)
  BY Constants
<1> HIDE DEF f, g
<1>8. Total(f) \in Nat /\ Total(g) \in Nat
  BY <1>3, <1>4, <1>7, TotalType
<1>9. Total(g) + f[p] = Total(f) + g[p]
  BY <1>3, <1>4, <1>5, <1>7, TotalChange
<1>10. f[p] <= Total(f) /\ f[p] \in Nat /\ g[p] \in Nat
  BY <1>3, <1>4, <1>7, TotalElement
<1> QED BY <1>1, <1>2, <1>6, <1>8, <1>9, <1>10

\* Nothing is charged for a process that holds nothing and is in no call.
LEMMA ChargedIdle ==
  ASSUME FbInv, NEW p \in Procs, ~Ready(p), objects[p] = Nothing
  PROVE  ChargedOf(pc[p], call[p], objects[p]) = 0
<1>1. pc[p] \notin {"load", "store"}
  BY DEF FbInv, PointInv, Ready
<1> QED BY <1>1, HeldNothing DEF ChargedOf

\* Nothing is charged while no process is ready.
LEMMA ChargedNone ==
  ASSUME FbInv, NoneReady, \A p \in Procs : ~Ready(p) => objects[p] = Nothing
  PROVE  ChargedUse = 0
<1> DEFINE f == [q \in Procs |-> ChargedOf(pc[q], call[q], objects[q])]
<1>1. ChargedUse = Total(f)
  BY DEF ChargedUse, Charged, ChargedOf, Held, HeldOf
<1>2. \A p \in DOMAIN f : f[p] = 0
  BY ChargedIdle DEF NoneReady
<1> QED BY <1>1, <1>2, TotalZero

\* One process is busy at a time: it went on, or it took its turn.
LEMMA AloneStep ==
  ASSUME FbInv, AloneInv, world.serial, NEW p \in Procs, Others(p),
         Turn(p) \/ pc[p] \notin {"gone", "run"}
  PROVE  AloneInv'
BY DEF AloneInv, Others, Turn

\* A step that leaves the books, the recorded pid and the set of ready
\* processes as they are, or makes ready one more next to a ready one.
LEMMA SerialFrame ==
  ASSUME FbInv, FbInv', OwnerInv, BooksInv, NEW p \in Procs, Others(p),
         UNCHANGED <<free_mem, pid, leaked>>,
         seg = "sized" => seg' = "sized",
         pid = p => (pc[p] = "gone" <=> pc'[p] = "gone"),
         Ready(p) => Ready(p)',
         Ready(p)' => Ready(p) \/ ~NoneReady,
         ChargedOf(pc'[p], call'[p], objects'[p]) = ChargedOf(pc[p], call[p], objects[p]),
         Preparing(p)' => NoneReady,
         pc'[p] = "lstat" => reg'[p] = pid,
         pc'[p] \in {"lstat", "total", "free", "pid"} => seg' = "sized",
         Between(p)'
  PROVE  OwnerInv' /\ BooksInv'
<1>1. \A q \in Procs : q # p => (Ready(q)' <=> Ready(q)) /\ (Preparing(q)' <=> Preparing(q))
  BY DEF Others, Ready, Preparing
<1>2. NoneReady' <=> NoneReady
  BY <1>1 DEF NoneReady
<1>3. ChargedUse' = ChargedUse
  BY ChargedStep
<1>4. pid' \in Alive' <=> pid \in Alive
  BY DEF Alive, Others
<1>5. pid \in Alive => Ready(pid)'
  BY <1>1 DEF OwnerInv, Alive
<1>6. OwnerInv'
  BY <1>1, <1>2, <1>4, <1>5 DEF OwnerInv, Others
<1>7. \A q \in Procs : q # p => (Between(q)' <=> Between(q))
  BY <1>1 DEF Between, Others
<1>8. \A q \in Procs : Between(q)'
  BY <1>7 DEF BooksInv
<1>9. /\ ~NoneReady' => free_mem' + ChargedUse' + leaked' = TotalMem
      /\ NoneReady' => leaked' = 0
  BY <1>2, <1>3 DEF BooksInv
<1>10. BooksInv'
  BY <1>8, <1>9 DEF BooksInv
<1> QED BY <1>6, <1>10

\* A process starts, or goes through create_shm_addr without creating the
\* segment under a ready process: the creator found none, so nobody is ready.
LEMMA SerialOpen ==
  ASSUME FbInv, FbInv', Serial, AloneInv, OwnerInv, BooksInv, NEW p \in Procs,
         Start(p) \/ OpenCreate(p) \/ OpenExisting(p) \/ Truncate(p) \/ Map(p)
  PROVE  AloneInv' /\ OwnerInv' /\ BooksInv'
<1> USE DEF FbInv, TypeOK, Goto, seg_vars, Start, OpenCreate, OpenExisting, Truncate, Map, AfterMap
<1>1. Others(p)
  BY DEF Others
<1>2. AloneInv'
  BY <1>1, AloneStep DEF Serial
<1>3. UNCHANGED <<free_mem, pid, leaked>> /\ objects' = objects /\ call' = call
  OBVIOUS
<1>4. pid = p => (pc[p] = "gone" <=> pc'[p] = "gone")
  OBVIOUS
<1>5. /\ pc'[p] \notin {"lstat", "total", "free", "pid", "kernel", "load", "store"}
      /\ pc[p] \notin {"kernel", "load", "store"}
  OBVIOUS
<1>6. Ready(p)' <=> Ready(p)
  BY DEF Ready
<1>7. ChargedOf(pc'[p], call'[p], objects'[p]) = ChargedOf(pc[p], call[p], objects[p])
  BY <1>3, <1>5 DEF ChargedOf
<1>8. Preparing(p)' => NoneReady
  BY DEF OwnerInv, Preparing
<1>9. Between(p)'
  BY <1>3, <1>5, <1>6 DEF BooksInv, Between
<1>10. seg = "sized" => seg' = "sized"
  OBVIOUS
<1>11. OwnerInv' /\ BooksInv'
  BY <1>1, <1>3, <1>4, <1>5, <1>6, <1>7, <1>8, <1>9, <1>10, SerialFrame
<1> QED BY <1>2, <1>11

\* The checks of _init_device_prop: a process goes on to initialise the segment
\* only if no other is ready, and becomes ready itself only next to the
\* recorded one.
LEMMA SerialCheck ==
  ASSUME FbInv, FbInv', Serial, AloneInv, OwnerInv, BooksInv, NEW p \in Procs,
         CheckPid(p) \/ Lstat(p) \/ StoreTotal(p)
  PROVE  AloneInv' /\ OwnerInv' /\ BooksInv'
<1> USE DEF FbInv, TypeOK, Goto, seg_vars, CheckPid, Lstat, StoreTotal
<1>1. Others(p)
  BY DEF Others
<1>2. AloneInv'
  BY <1>1, AloneStep DEF Serial
<1>3. UNCHANGED <<free_mem, pid, leaked, objects, call, seg>>
  OBVIOUS
<1>4. /\ pc'[p] \in {"lstat", "total", "run", "free"} /\ pc[p] \in {"check", "lstat", "total"}
      /\ seg = "sized"
  BY DEF OwnerInv
<1>5. ~Ready(p)
  BY <1>4 DEF Ready, PointInv
<1>6. pc'[p] = "run" => ~NoneReady
  BY DEF OwnerInv, NoneReady, Alive
<1>7. Preparing(p)' => NoneReady
  BY <1>4, Constants DEF OwnerInv, Preparing, Alive
<1>8. Ready(p)' => pc'[p] = "run"
  BY <1>4 DEF Ready, PointInv
<1>9. pc'[p] = "lstat" => reg'[p] = pid
  BY DEF OwnerInv
<1>10. ChargedOf(pc'[p], call'[p], objects'[p]) = ChargedOf(pc[p], call[p], objects[p])
  BY <1>3, <1>4 DEF ChargedOf
<1>11. Between(p)'
  BY <1>3, <1>4, <1>5 DEF BooksInv, Between
<1>12. pid = p => (pc[p] = "gone" <=> pc'[p] = "gone")
  BY <1>4
<1>13. OwnerInv' /\ BooksInv'
  BY <1>1, <1>3, <1>4, <1>5, <1>6, <1>7, <1>8, <1>9, <1>10, <1>11, <1>12, SerialFrame
<1> QED BY <1>2, <1>13

\* The memset of the creator and the store of free_mem: nobody is ready yet, so
\* nothing that anybody charged is overwritten.
LEMMA SerialErase ==
  ASSUME FbInv, FbInv', Serial, AloneInv, OwnerInv, BooksInv, NEW p \in Procs,
         Clear(p) \/ StoreFree(p)
  PROVE  AloneInv' /\ OwnerInv' /\ BooksInv'
<1> USE DEF FbInv, TypeOK, Goto, seg_vars, Clear, AfterMap, StoreFree
<1>1. Others(p)
  BY DEF Others
<1>2. AloneInv'
  BY <1>1, AloneStep DEF Serial
<1>3. NoneReady
  BY DEF OwnerInv, Preparing
<1>4. /\ UNCHANGED <<leaked, objects, call, seg>> /\ seg = "sized" /\ pc[p] \in {"clear", "free"}
      /\ pc'[p] \in {"check", "qpid", "pid"} /\ (pc'[p] = "pid" => free_mem' = TotalMem)
  BY DEF OwnerInv
<1>5. ~Ready(p) /\ ~Ready(p)'
  <2>1. ~Ready(p)
    BY <1>3 DEF NoneReady
  <2> QED BY <2>1, <1>4 DEF Ready
<1>6. NoneReady'
  BY <1>1, <1>3, <1>5 DEF NoneReady, Others, Ready
<1>7. pid' \notin Alive'
  <2>1. pid \notin Alive
    BY <1>3 DEF OwnerInv, NoneReady, Alive
  <2>2. Alive' = Alive
    BY <1>4 DEF Alive
  <2> QED BY <2>1, <2>2, Constants DEF Alive
<1>8. \A q \in Procs : q # p => pc[q] \in {"gone", "run"} /\ pc'[q] = pc[q]
  BY <1>1, <1>4 DEF AloneInv, Others
<1>9. OwnerInv'
  BY <1>4, <1>6, <1>7, <1>8 DEF OwnerInv
<1>10. \A q \in Procs : q # p => Between(q)'
  BY <1>3, <1>4, <1>8 DEF BooksInv, Between, NoneReady
<1>11. Between(p)'
  BY <1>4, <1>5 DEF BooksInv, Between
<1>12. BooksInv'
  BY <1>3, <1>4, <1>6, <1>10, <1>11 DEF BooksInv
<1> QED BY <1>2, <1>9, <1>12

\* The store of the pid: the books open with the whole limit and no charges.
LEMMA SerialPid ==
  ASSUME FbInv, FbInv', Serial, AloneInv, OwnerInv, BooksInv, NEW p \in Procs, StorePid(p)
  PROVE  AloneInv' /\ OwnerInv' /\ BooksInv'
<1> USE DEF FbInv, TypeOK, Goto, StorePid
<1>1. Others(p)
  BY DEF Others
<1>2. AloneInv'
  BY <1>1, AloneStep DEF Serial
<1>3. NoneReady
  BY DEF OwnerInv, Preparing
<1>4. /\ UNCHANGED <<leaked, objects, call, seg, free_mem>> /\ seg = "sized" /\ pc[p] = "pid"
      /\ pc'[p] = "run" /\ pid' = p /\ p \in Members
  BY DEF OwnerInv, PointInv
<1>5. Ready(p)' /\ ~NoneReady' /\ pid' \in Alive'
  BY <1>4 DEF Ready, NoneReady, Alive
<1>6. \A q \in Procs : q # p => pc[q] \in {"gone", "run"} /\ pc'[q] = pc[q]
  BY <1>1, <1>4 DEF AloneInv, Others
<1>7. \A q \in Procs : ~Preparing(q)'
  BY <1>4, <1>6 DEF Preparing
<1>8. OwnerInv'
  BY <1>4, <1>5, <1>6, <1>7 DEF OwnerInv
<1>9. ChargedOf(pc'[p], call'[p], objects'[p]) = ChargedOf(pc[p], call[p], objects[p])
  BY <1>4 DEF ChargedOf
<1>10. ChargedUse = 0
  BY <1>3, ChargedNone DEF BooksInv, Between
<1>11. ChargedUse' = 0
  BY <1>1, <1>9, <1>10, ChargedStep
<1>12. free_mem' + ChargedUse' + leaked' = TotalMem
  BY <1>3, <1>4, <1>11, Constants DEF BooksInv, Between
<1>13. \A q \in Procs : q # p => Between(q)'
  BY <1>3, <1>4, <1>6 DEF BooksInv, Between, NoneReady
<1>14. Between(p)'
  BY <1>4, <1>5 DEF Between
<1>15. BooksInv'
  BY <1>5, <1>12, <1>13, <1>14 DEF BooksInv
<1> QED BY <1>2, <1>8, <1>15

\* A memory ioctl up to its store: what is charged does not change, although
\* what the driver holds does.
LEMMA SerialCalls ==
  ASSUME FbInv, FbInv', Serial, AloneInv, OwnerInv, BooksInv, NEW p \in Procs,
         Alloc(p) \/ Free(p) \/ KernelDoes(p) \/ KernelRefuses(p) \/ LoadFree(p)
  PROVE  AloneInv' /\ OwnerInv' /\ BooksInv'
<1>1. /\ pc[p] \in {"run", "kernel", "load"} /\ pc'[p] \in {"run", "kernel", "load", "store"}
      /\ (pc[p] = "run" => Turn(p)) /\ (pc'[p] = "store" => reg'[p] = free_mem)
      /\ UNCHANGED <<seg, total_mem, free_mem, pid, task, first, report, world, leaked>>
  BY DEF FbInv, TypeOK, Goto, seg_vars, Alloc, Free, KernelDoes, KernelRefuses, LoadFree
<1>2. Others(p)
  BY DEF FbInv, TypeOK, Goto, seg_vars, Alloc, Free, KernelDoes, KernelRefuses, LoadFree, Others
<1>3. AloneInv'
  BY <1>1, <1>2, AloneStep DEF Serial
<1>4. p \in Members
  <2>1. CASE Free(p)
    <3>1. PICK n \in Sizes : objects[p][n] > 0
      BY <2>1 DEF Free
    <3>2. objects[p] # Nothing
      BY <3>1 DEF Nothing
    <3> QED BY <3>2 DEF FbInv, PointInv
  <2>2. CASE ~Free(p)
    BY <2>2 DEF Alloc, KernelDoes, KernelRefuses, LoadFree, FbInv, PointInv
  <2> QED BY <2>1, <2>2
<1>5. Ready(p) /\ Ready(p)'
  BY <1>1, <1>4 DEF Ready
<1>6. ChargedOf(pc'[p], call'[p], objects'[p]) = ChargedOf(pc[p], call[p], objects[p])
  <2>1. CASE Alloc(p) \/ Free(p) \/ KernelRefuses(p)
    BY <2>1 DEF FbInv, TypeOK, Goto, ChargedOf, Alloc, Free, KernelRefuses
  <2>2. CASE LoadFree(p)
    BY <2>2 DEF FbInv, TypeOK, Goto, ChargedOf, LoadFree
  <2>3. CASE KernelDoes(p)
    <3> DEFINE n == call[p].size
               c == objects[p]
    <3>1. /\ pc[p] = "kernel" /\ pc'[p] = "load" /\ call'[p] = call[p]
          /\ n \in Sizes /\ call[p].op \in {"alloc", "free"} /\ c \in [Sizes -> Nat]
          /\ call[p].op = "free" => c[n] > 0
      BY <2>3 DEF KernelDoes, FbInv, TypeOK, CallInv, Goto
    <3>2. /\ call[p].op = "alloc" => objects'[p] = [c EXCEPT ![n] = @ + 1]
          /\ call[p].op = "free" => objects'[p] = [c EXCEPT ![n] = @ - 1]
      BY <2>3 DEF KernelDoes, FbInv, TypeOK
    <3> HIDE DEF n, c
    <3>3. HeldOf(c) \in Nat /\ n \in Nat
      BY <3>1, HeldType, Constants
    <3>4. /\ call[p].op = "alloc" => HeldOf(objects'[p]) = HeldOf(c) + n
          /\ call[p].op = "free" => HeldOf(objects'[p]) = HeldOf(c) - n
      BY <3>1, <3>2, HeldChange
    <3>5. ChargedOf(pc[p], call[p], c) = HeldOf(c)
      BY <3>1 DEF ChargedOf
    <3>6. ChargedOf(pc'[p], call'[p], objects'[p]) = HeldOf(c)
      BY <3>1, <3>3, <3>4 DEF ChargedOf, n
    <3> QED BY <3>5, <3>6 DEF c
  <2> QED BY <2>1, <2>2, <2>3
<1>7. pc'[p] \in {"kernel", "load", "store"} /\ call'[p].op = "alloc" => call'[p].size <= free_mem
  <2>1. CASE Alloc(p)
    <3>1. PICK n \in world.sizes : ~(free_mem < n) /\ call' = [call EXCEPT ![p] = [op |-> "alloc", size |-> n]]
      BY <2>1 DEF Alloc
    <3>2. n \in Nat /\ free_mem \in Nat
      BY <3>1, Constants DEF FbInv, TypeOK
    <3>3. call'[p].size = n
      BY <3>1 DEF FbInv, TypeOK
    <3> QED BY <3>1, <3>2, <3>3
  <2>2. CASE Free(p) \/ KernelRefuses(p)
    BY <2>2 DEF Free, KernelRefuses, FbInv, TypeOK, Goto
  <2>3. CASE KernelDoes(p) \/ LoadFree(p)
    <3>1. pc[p] \in {"kernel", "load"} /\ call' = call
      BY <2>3 DEF KernelDoes, LoadFree
    <3> QED BY <3>1 DEF BooksInv, Between
  <2> QED BY <2>1, <2>2, <2>3
<1>8. Between(p)'
  BY <1>1, <1>5, <1>7 DEF Between
<1>9. ~Preparing(p)'
  BY <1>1 DEF Preparing
<1>10. OwnerInv' /\ BooksInv'
  BY <1>1, <1>2, <1>5, <1>6, <1>8, <1>9, SerialFrame
<1> QED BY <1>3, <1>10

\* The store of free_mem: what was charged or credited is exactly what the
\* segment's counter moves by, and it does not wrap.
LEMMA SerialStore ==
  ASSUME FbInv, FbInv', Serial, AloneInv, OwnerInv, BooksInv, NEW p \in Procs, StoreFreeMem(p)
  PROVE  AloneInv' /\ OwnerInv' /\ BooksInv'
<1> DEFINE n == call[p].size
           c == ChargedOf(pc[p], call[p], objects[p])
           d == ChargedOf(pc'[p], call'[p], objects'[p])
<1>1. Others(p)
  BY DEF FbInv, TypeOK, Goto, StoreFreeMem, Others
<1>2. AloneInv'
  BY <1>1, AloneStep DEF Serial, StoreFreeMem
<1>3. /\ pc[p] = "store" /\ pc'[p] = "run" /\ UNCHANGED <<seg, total_mem, pid, task, objects, world, leaked>>
      /\ free_mem' = IF call[p].op = "alloc" THEN Minus(reg[p], n) ELSE Plus(reg[p], n)
      /\ n \in Sizes /\ call[p].op \in {"alloc", "free"} /\ reg[p] = free_mem /\ p \in Members
  BY DEF FbInv, TypeOK, CallInv, PointInv, Goto, StoreFreeMem, BooksInv, Between
<1>4. Ready(p) /\ Ready(p)' /\ ~NoneReady /\ ~NoneReady'
  BY <1>3 DEF Ready, NoneReady
<1>5. free_mem + ChargedUse + leaked = TotalMem
  BY <1>4 DEF BooksInv
<1>6. n \in Nat /\ n \in Size /\ free_mem \in Nat /\ free_mem \in Size /\ leaked \in Nat /\ HeldOf(objects[p]) \in Nat
  <2>1. objects[p] \in [Sizes -> Nat] /\ free_mem \in Size /\ leaked \in Nat
    BY DEF FbInv, TypeOK
  <2>2. HeldOf(objects[p]) \in Nat
    BY <2>1, HeldType
  <2> QED BY <1>3, <2>1, <2>2, Constants
<1>7. d = HeldOf(objects[p])
  BY <1>3 DEF ChargedOf
<1>8. (call[p].op = "alloc" => c = HeldOf(objects[p]) - n) /\ (call[p].op = "free" => c = HeldOf(objects[p]) + n)
  BY <1>3 DEF ChargedOf
<1>9. /\ ChargedUse \in Nat /\ ChargedUse' \in Nat /\ c \in Nat /\ d \in Nat
      /\ ChargedUse' + c = ChargedUse + d /\ c <= ChargedUse
  BY <1>1, ChargedStep
<1>10. call[p].op = "alloc" => n <= free_mem
  BY <1>3 DEF BooksInv, Between
<1> HIDE DEF n, c, d
<1>11. leaked' = leaked
  BY <1>3
<1>12. free_mem' + ChargedUse' + leaked' = TotalMem
  <2>1. CASE call[p].op = "alloc"
    <3>1. free_mem' = free_mem - n
      BY <1>3, <1>6, <1>10, <2>1, SizeClosed
    <3>2. ChargedUse' = ChargedUse + n
      BY <1>6, <1>7, <1>8, <1>9, <2>1
    <3> QED BY <1>5, <1>6, <1>9, <1>11, <3>1, <3>2
  <2>2. CASE call[p].op = "free"
    <3>1. free_mem + n < SizeMod
      BY <1>5, <1>6, <1>8, <1>9, <2>2, Constants
    <3>2. free_mem' = free_mem + n
      BY <1>3, <1>6, <2>2, <3>1, SizeClosed
    <3>3. ChargedUse = ChargedUse' + n
      BY <1>6, <1>7, <1>8, <1>9, <2>2
    <3> QED BY <1>5, <1>6, <1>9, <1>11, <3>2, <3>3
  <2> QED BY <1>3, <2>1, <2>2
<1>13. \A q \in Procs : q # p => /\ pc[q] \in {"gone", "run"} /\ pc'[q] = pc[q]
                               /\ (Ready(q)' <=> Ready(q)) /\ objects'[q] = objects[q]
  BY <1>1, <1>3 DEF AloneInv, Others, Ready
<1>14. \A q \in Procs : Between(q)'
  BY <1>3, <1>4, <1>13 DEF BooksInv, Between
<1>15. BooksInv'
  BY <1>4, <1>12, <1>14 DEF BooksInv
<1>16. \A q \in Procs : ~Preparing(q)' /\ pc'[q] \in {"gone", "run"} /\ (pc'[q] = "gone" <=> pc[q] = "gone")
  BY <1>3, <1>13 DEF Preparing
<1>17. pid' \in Alive' /\ seg' = "sized" /\ Ready(pid)'
  BY <1>3, <1>4, <1>13, <1>16 DEF OwnerInv, Alive
<1>18. OwnerInv'
  BY <1>3, <1>16, <1>17 DEF OwnerInv
<1> QED BY <1>2, <1>15, <1>18

\* FB_GET_INFO changes nothing of the segment.
LEMMA SerialQuery ==
  ASSUME FbInv, FbInv', Serial, AloneInv, OwnerInv, BooksInv, NEW p \in Procs,
         QueryFails(p) \/ Query(p) \/ QueryPid(p) \/ QueryTotal(p) \/ QueryReturn(p)
  PROVE  AloneInv' /\ OwnerInv' /\ BooksInv'
<1> USE DEF FbInv, TypeOK, Goto, seg_vars, QueryFails, Query, QueryPid, QueryTotal, QueryReturn
<1>1. /\ pc[p] \in {"run", "open", "truncate", "qpid", "qtotal", "replied"} /\ (pc[p] = "run" => Turn(p))
      /\ pc'[p] \in {"open", "replied", "qtotal", "run"}
      /\ UNCHANGED <<seg, free_mem, pid, leaked, objects, call>>
  OBVIOUS
<1>2. Others(p)
  BY DEF Others
<1>3. AloneInv'
  BY <1>1, <1>2, AloneStep DEF Serial
<1>4. Ready(p)' <=> Ready(p)
  BY DEF Ready, PointInv
<1>5. ChargedOf(pc'[p], call'[p], objects'[p]) = ChargedOf(pc[p], call[p], objects[p])
  BY <1>1 DEF ChargedOf
<1>6. Between(p)'
  BY <1>1, <1>4 DEF BooksInv, Between
<1>7. ~Preparing(p)'
  BY <1>1 DEF Preparing
<1>8. OwnerInv' /\ BooksInv'
  BY <1>1, <1>2, <1>4, <1>5, <1>6, <1>7, SerialFrame
<1> QED BY <1>3, <1>8

\* A process goes away: if it is the recorded one it was the last member, and
\* the books close; otherwise what it had charged becomes a leak.
LEMMA SerialGone ==
  ASSUME FbInv, FbInv', Serial, AloneInv, OwnerInv, BooksInv, NEW p \in Procs,
         pc[p] # "gone", Gone(p), UNCHANGED <<seg_vars, world>>
  PROVE  AloneInv' /\ OwnerInv' /\ BooksInv'
<1>1. Others(p)
  BY DEF FbInv, TypeOK, Goto, Gone, Others
<1>2. /\ pc'[p] = "gone" /\ objects'[p] = Nothing /\ UNCHANGED <<seg, free_mem, pid>>
      /\ leaked' = IF Alive \cap Members \subseteq {p} THEN 0 ELSE leaked + Charged(p)
      /\ pid = p => Alive \cap Members = {p}
  BY DEF FbInv, TypeOK, Goto, Gone, Serial, seg_vars
<1>3. AloneInv'
  BY <1>1, <1>2 DEF AloneInv, Others
<1>4. \A q \in Procs : q # p => (Ready(q)' <=> Ready(q)) /\ (Preparing(q)' <=> Preparing(q)) /\ pc'[q] = pc[q]
  BY <1>1 DEF Others, Ready, Preparing
<1>5. ~Ready(p)' /\ ~Preparing(p)'
  BY <1>2 DEF Ready, Preparing
<1>6. \A q \in Procs : q # p => (Between(q)' <=> Between(q))
  BY <1>1, <1>2, <1>4 DEF Between, Others
<1>7. Between(p)'
  BY <1>2 DEF Between
<1>8. \A q \in Procs : Between(q)'
  BY <1>6, <1>7 DEF BooksInv
<1>9. \A q \in Procs : Ready(q) => q \in Alive \cap Members
  BY DEF Ready, Alive
<1>10. CASE pid = p
  <2>1. NoneReady'
    BY <1>2, <1>4, <1>5, <1>9, <1>10 DEF NoneReady
  <2>2. leaked' = 0
    BY <1>2, <1>10
  <2>3. pid' \notin Alive'
    BY <1>2, <1>10 DEF Alive
  <2>4. OwnerInv'
    BY <1>1, <1>2, <2>1, <2>3 DEF OwnerInv, Others
  <2>5. BooksInv'
    BY <1>8, <2>1, <2>2 DEF BooksInv
  <2> QED BY <1>3, <2>4, <2>5
<1>11. CASE pid # p
  <2>1. pid' \in Alive' <=> pid \in Alive
    BY <1>2, <1>4, <1>11 DEF Alive
  <2>2. pid \in Alive => Ready(pid) /\ Ready(pid)'
    BY <1>2, <1>4, <1>11 DEF OwnerInv, Alive
  <2>3. NoneReady' <=> NoneReady
    <3>1. NoneReady => NoneReady'
      BY <1>4, <1>5 DEF NoneReady
    <3>2. ~NoneReady => pid \in Procs /\ Ready(pid)'
      BY <2>2 DEF OwnerInv, Alive
    <3>3. ~NoneReady => ~NoneReady'
      BY <1>2, <3>2 DEF NoneReady
    <3> QED BY <3>1, <3>3
  <2>4. OwnerInv'
    BY <1>1, <1>2, <1>4, <1>5, <2>1, <2>2, <2>3 DEF OwnerInv, Others
  <2>5. Charged(p) = ChargedOf(pc[p], call[p], objects[p]) /\ leaked \in Nat /\ free_mem \in Nat
    BY ChargedType, Constants DEF FbInv, TypeOK
  <2>6. ChargedOf(pc'[p], call'[p], objects'[p]) = 0
    BY <1>2, HeldNothing DEF ChargedOf
  <2>7. /\ ChargedUse \in Nat /\ ChargedUse' \in Nat /\ Charged(p) \in Nat
        /\ ChargedUse' + Charged(p) = ChargedUse
    BY <1>1, <2>5, <2>6, ChargedStep
  <2>8. CASE NoneReady
    <3>1. leaked = 0 /\ objects[p] = Nothing /\ ~Ready(p)
      BY <2>8 DEF BooksInv, Between, NoneReady
    <3>2. Charged(p) = 0
      BY <2>5, <3>1, ChargedIdle
    <3>3. leaked' = 0
      BY <1>2, <3>1, <3>2
    <3>4. BooksInv'
      BY <1>8, <2>3, <2>8, <3>3 DEF BooksInv
    <3> QED BY <1>3, <2>4, <3>4
  <2>9. CASE ~NoneReady
    <3>1. pid \in Alive \cap Members
      BY <1>9, <2>2, <2>9 DEF OwnerInv, Alive
    <3>2. leaked' = leaked + Charged(p)
      BY <1>2, <1>11, <3>1
    <3>3. free_mem' + ChargedUse' + leaked' = TotalMem
      <4>1. free_mem + ChargedUse + leaked = TotalMem
        BY <2>9 DEF BooksInv
      <4> QED BY <1>2, <2>5, <2>7, <3>2, <4>1
    <3>4. BooksInv'
      BY <1>8, <2>3, <2>9, <3>3 DEF BooksInv
    <3> QED BY <1>3, <2>4, <3>4
  <2> QED BY <2>8, <2>9
<1> QED BY <1>10, <1>11

\* The deployment never changes.
LEMMA WorldStays == [Next]_vars => world' = world
BY DEF Next, vars, Start, Die, OpenCreate, OpenExisting, Truncate, Map, Clear, BusError, InitFails, QueryFails,
  CheckPid, Lstat, StoreTotal, StoreFree, StorePid, Alloc, Free, KernelDoes, KernelRefuses, LoadFree,
  StoreFreeMem, Query, QueryPid, QueryTotal, QueryReturn

\* Every step keeps the serial invariant.
LEMMA SerialStep == FbInv /\ FbInv' /\ SerialInv /\ [Next]_vars => SerialInv'
<1> SUFFICES ASSUME FbInv, FbInv', SerialInv, [Next]_vars, Serial' PROVE AloneInv' /\ OwnerInv' /\ BooksInv'
  BY DEF SerialInv
<1>1. CASE UNCHANGED vars
  BY <1>1 DEF vars, SerialInv, Serial, AloneInv, OwnerInv, BooksInv, Between, Alive, NoneReady, Ready, Preparing,
    ChargedUse, Charged, Held
<1>2. ASSUME NEW p \in Procs,
             \/ Start(p) \/ Die(p) \/ OpenCreate(p) \/ OpenExisting(p) \/ Truncate(p) \/ Map(p) \/ Clear(p)
             \/ BusError(p) \/ InitFails(p) \/ QueryFails(p)
             \/ CheckPid(p) \/ Lstat(p) \/ StoreTotal(p) \/ StoreFree(p) \/ StorePid(p)
             \/ Alloc(p) \/ Free(p) \/ KernelDoes(p) \/ KernelRefuses(p) \/ LoadFree(p) \/ StoreFreeMem(p)
             \/ Query(p) \/ QueryPid(p) \/ QueryTotal(p) \/ QueryReturn(p)
      PROVE  AloneInv' /\ OwnerInv' /\ BooksInv'
  <2>1. world' = world
    BY WorldStays
  <2>2. Serial /\ AloneInv /\ OwnerInv /\ BooksInv
    BY <2>1 DEF Serial, SerialInv
  <2>3. CASE Die(p) \/ BusError(p) \/ InitFails(p)
    <3>1. pc[p] # "gone"
      <4>1. world.crashAt \subseteq Points
        BY FbConstantsOK DEF FbInv, TypeOK, World
      <4> QED BY <2>3, <4>1 DEF Die, BusError, InitFails, Points
    <3>2. Gone(p) /\ UNCHANGED <<seg_vars, world>>
      BY <2>3 DEF Die, BusError, InitFails
    <3> QED BY <2>2, <3>1, <3>2, SerialGone
  <2> QED BY <1>2, <2>2, <2>3, SerialOpen, SerialCheck, SerialErase, SerialPid, SerialCalls, SerialStore, SerialQuery
<1> QED BY <1>1, <1>2 DEF Next

\* It holds from the start.
LEMMA SerialStart == Init => SerialInv
<1> SUFFICES ASSUME Init PROVE SerialInv
  OBVIOUS
<1>1. \A p \in Procs : pc[p] = "gone" /\ objects[p] = Nothing /\ ~Ready(p)
  BY DEF Init, Ready
<1>2. NoneReady /\ leaked = 0 /\ Alive = {}
  BY <1>1 DEF NoneReady, Alive, Init
<1> QED BY <1>1, <1>2 DEF SerialInv, AloneInv, OwnerInv, BooksInv, Between, Preparing

\* It always holds.
LEMMA SerialAlways == Spec => [](FbInv /\ SerialInv)
BY FbAlways, SerialStart, SerialStep, PTL DEF Spec

\* Through any sequence of starts, calls, failures and crashes of any number of
\* processes that do not overlap, what is free in the segment, what live members
\* have charged to it and what dead ones left there add up to the limit, as soon
\* as _init_device_prop has recorded a pid.
THEOREM RestartsExact == Spec => []RestartExact
<1>1. SerialInv => RestartExact
  BY DEF SerialInv, Serial, BooksInv, NoneReady, RestartExact
<1> QED BY <1>1, SerialAlways, PTL

-----------------------------------------------------------------------------
(* Serial deployments: the driver keeps to the limit *)

\* Bytes held and bytes charged differ for the process in a call only, and what
\* is not charged yet is still free in the segment.
LEMMA KernelBound ==
  ASSUME FbInv, SerialInv, Serial
  PROVE  KernelUse \in 0 .. TotalMem
<1> DEFINE f == [q \in Procs |-> HeldOf(objects[q])]
           g == [q \in Procs |-> ChargedOf(pc[q], call[q], objects[q])]
<1>0. AloneInv /\ OwnerInv /\ BooksInv
  BY DEF SerialInv
<1>1. KernelUse = Total(f)
  BY DEF KernelUse, Held, HeldOf
<1>2. ChargedUse = Total(g)
  BY DEF ChargedUse, Charged, ChargedOf, Held, HeldOf
<1>3. f \in [Procs -> Nat]
  BY HeldType DEF FbInv, TypeOK
<1>4. g \in [Procs -> Nat]
  <2> SUFFICES ASSUME NEW q \in Procs PROVE ChargedOf(pc[q], call[q], objects[q]) \in Nat
    OBVIOUS
  <2>1. objects[q] \in [Sizes -> Nat]
    BY DEF FbInv, TypeOK
  <2> QED BY <2>1, ChargedOfType DEF FbInv, CallInv
<1>5. \A q \in Procs : /\ pc[q] \notin {"load", "store"} => g[q] = f[q]
                       /\ pc[q] \in {"load", "store"} /\ call[q].op = "alloc" => g[q] = f[q] - call[q].size
                       /\ pc[q] \in {"load", "store"} /\ call[q].op = "free" => g[q] = f[q] + call[q].size
  BY DEF ChargedOf
<1>6. IsFiniteSet(Procs)
  BY Constants
<1>7. NoneReady => \A q \in DOMAIN f : f[q] = 0
  BY <1>0, HeldNothing DEF BooksInv, Between, NoneReady
<1> HIDE DEF f, g
<1>8. Total(f) \in Nat /\ Total(g) \in Nat
  BY <1>3, <1>4, <1>6, TotalType
<1>9. free_mem \in Nat /\ leaked \in Nat /\ TotalMem \in Nat
  BY Constants DEF FbInv, TypeOK
<1>10. CASE NoneReady
  <2>1. Total(f) = 0
    BY <1>7, <1>10, TotalZero
  <2> QED BY <1>1, <1>9, <2>1
<1>11. CASE ~NoneReady
  <2>1. free_mem + Total(g) + leaked = TotalMem
    BY <1>0, <1>2, <1>11 DEF BooksInv
  <2>2. CASE \A q \in Procs : pc[q] \notin {"load", "store"}
    <3>1. \A q \in Procs : g[q] = f[q]
      BY <1>5, <2>2
    <3>2. f = g
      BY <1>3, <1>4, <3>1
    <3> QED BY <1>1, <1>8, <1>9, <2>1, <3>2
  <2>3. CASE \E q \in Procs : pc[q] \in {"load", "store"}
    <3>1. PICK p \in Procs : pc[p] \in {"load", "store"}
      BY <2>3
    <3>2. \A q \in Procs \ {p} : g[q] = f[q]
      BY <1>0, <1>5, <3>1 DEF AloneInv
    <3>3. Total(g) + f[p] = Total(f) + g[p]
      BY <1>3, <1>4, <1>6, <3>2, TotalChange
    <3>4. f[p] \in Nat /\ g[p] \in Nat
      BY <1>3, <1>4
    <3>5. call[p].op \in {"alloc", "free"} /\ call[p].size \in Nat
      BY <3>1, Constants DEF FbInv, CallInv
    <3>6. CASE call[p].op = "alloc"
      <4>1. call[p].size <= free_mem
        BY <1>0, <3>1, <3>6 DEF BooksInv, Between
      <4>2. g[p] = f[p] - call[p].size
        BY <1>5, <3>1, <3>6
      <4>3. Total(f) = Total(g) + call[p].size
        BY <1>8, <3>3, <3>4, <3>5, <4>2
      <4> QED BY <1>1, <1>8, <1>9, <2>1, <3>5, <4>1, <4>3
    <3>7. CASE call[p].op = "free"
      <4>1. g[p] = f[p] + call[p].size
        BY <1>5, <3>1, <3>7
      <4>2. Total(g) = Total(f) + call[p].size
        BY <1>8, <3>3, <3>4, <3>5, <4>1
      <4> QED BY <1>1, <1>8, <1>9, <2>1, <3>5, <4>2
    <3> QED BY <3>5, <3>6, <3>7
  <2> QED BY <2>2, <2>3
<1> QED BY <1>10, <1>11

\* All processes of the container together never hold more GPU memory than the
\* limit, through restarts, leaks, failing system calls and crashes in the middle
\* of a charge, for any number of processes, any sizes and any limit, as long as
\* starts and calls do not overlap and the recorded process outlives the others.
THEOREM ContainerWithinLimit == Spec => []KernelWithinLimit
<1>1. FbInv /\ SerialInv => KernelWithinLimit
  BY KernelBound, Constants DEF KernelWithinLimit, Serial
<1> QED BY <1>1, SerialAlways, PTL

=============================================================================
