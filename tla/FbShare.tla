------------------------------- MODULE FbShare -------------------------------
(***************************************************************************)
(* Processes that share the fb_info segment of one GPU: create_shm_addr    *)
(* (util.c), the memory part of _init_device_prop, __get_fb_info and the   *)
(* charges and credits of their ioctls (ioctl_hook.c).  The segment is     *)
(* never unlinked, so it outlives every process; gpu_device.mu is local to *)
(* a process, so nothing orders the accesses of two of them.               *)
(*                                                                         *)
(* A process makes one call at a time here (IoctlHook has the threads of   *)
(* one process).  `objects' is the NVIDIA driver (external): it frees what *)
(* a process holds when the process dies.                                  *)
(***************************************************************************)
EXTENDS Integers, FiniteSets, ByteCount

CONSTANTS
  Members,      \* processes whose CUDA_MEM_LIMIT names this GPU
  Observers,    \* processes limited on another GPU that query this one
  Sizes,        \* sizes of memory objects
  TotalMem,     \* the CUDA_MEM_LIMIT of the members
  DriverMem,    \* what the driver itself reports, in KiB
  KiB,          \* 1024
  SizeMod,      \* size_t wraps at SizeMod (2^64)
  NoPid,        \* fb_info->pid = 0
  Ghost,        \* pid of a process that died before the behaviour starts
  MaxObjects,   \* bound on the objects of one size a process holds
  Worlds        \* the deployments considered

Procs == Members \cup Observers

Points == {"open", "truncate", "map", "clear", "check", "lstat", "total", "free",
           "pid", "run", "kernel", "load", "store", "qpid", "qtotal", "replied"}

\* A deployment: which processes there are, the sizes they allocate, and whether
\*   serial      starts and calls of the processes never overlap,
\*   ownerStays  the process recorded in fb_info->pid outlives the others,
\*   leftOver    the segment is there, left by Ghost or by an observer,
\*   mayFail     shm_open, ftruncate and mmap may fail;
\* crashAt are the points where a process may die.
World == [procs : SUBSET Procs, sizes : SUBSET Sizes, serial : BOOLEAN,
          ownerStays : BOOLEAN, leftOver : BOOLEAN, mayFail : BOOLEAN,
          crashAt : SUBSET Points]

ASSUME FbConstantsOK ==
  /\ IsFiniteSet(Members) /\ IsFiniteSet(Observers) /\ Members \cap Observers = {}
  /\ NoPid \notin Procs /\ Ghost \notin Procs /\ NoPid # Ghost
  /\ KiB \in Nat \ {0} /\ SizeMod \in Nat \ {0}
  /\ TotalMem \in 1 .. SizeMod - 1
  /\ Sizes \subseteq 1 .. SizeMod - 1
  /\ {DriverMem, MaxObjects} \subseteq Nat
  /\ Worlds \subseteq World

VARIABLES
  world,        \* the deployment
  seg,          \* the segment: "none", "empty" (size 0) or "sized"
  total_mem, free_mem, pid,     \* its fb_info_t
  pc,           \* where each process is; "gone" is no process
  task,         \* what create_shm_addr runs for: "init" or "query"
  first,        \* create_shm_addr's `first'
  reg,          \* the process's loaded copy of pid, free_mem or total_mem
  call,         \* the memory ioctl in progress
  report,       \* what FB_GET_INFO told the application
  objects,      \* memory objects of each size the driver holds (external)
  leaked        \* history: what dead members left charged while others lived
                \* (kept in serial worlds, where it is well defined)

seg_vars == <<seg, total_mem, free_mem, pid>>
vars == <<world, seg, total_mem, free_mem, pid, pc, task, first, reg, call, report, objects, leaked>>

-----------------------------------------------------------------------------
Size == 0 .. SizeMod - 1
Pids == Procs \cup {NoPid, Ghost}
NoCall == [op |-> "none", size |-> 0]
NoReport == [total |-> 0, free |-> 0]
Nothing == [n \in Sizes |-> 0]

\* Mutant: the subtraction of a signed type.
MinusSigned(a, b) == a - b

\* size_t subtraction and addition
Minus(a, b) == (a + SizeMod - b) % SizeMod
Plus(a, b) == (a + b) % SizeMod

Alive == {p \in Procs : pc[p] # "gone"}

\* Bytes the driver holds for a process, and what of it has been charged to
\* the segment so far.
Held(p) == Total([n \in Sizes |-> n * objects[p][n]])
Charged(p) ==
  CASE pc[p] \in {"load", "store"} /\ call[p].op = "alloc" -> Held(p) - call[p].size
    [] pc[p] \in {"load", "store"} /\ call[p].op = "free"  -> Held(p) + call[p].size
    [] OTHER -> Held(p)

TypeOK ==
  /\ world \in Worlds
  /\ seg \in {"none", "empty", "sized"}
  /\ total_mem \in Size /\ free_mem \in Size /\ pid \in Pids
  /\ pc \in [Procs -> Points \cup {"gone"}]
  /\ task \in [Procs -> {"init", "query"}]
  /\ first \in [Procs -> BOOLEAN]
  /\ reg \in [Procs -> Size \cup Pids]
  /\ call \in [Procs -> [op : {"none", "alloc", "free"}, size : Size]]
  /\ report \in [Procs -> [total : Nat, free : Nat]]
  /\ objects \in [Procs -> [Sizes -> Nat]]
  /\ leaked \in Nat

Init ==
  /\ world \in Worlds
  /\ IF world.leftOver
       THEN /\ seg = "sized"
            /\ \/ total_mem = TotalMem /\ free_mem \in 0 .. TotalMem /\ pid = Ghost
               \/ total_mem = 0 /\ free_mem = 0 /\ pid = NoPid
       ELSE seg = "none" /\ total_mem = 0 /\ free_mem = 0 /\ pid = NoPid
  /\ pc = [p \in Procs |-> "gone"]
  /\ task = [p \in Procs |-> "init"]
  /\ first = [p \in Procs |-> FALSE]
  /\ reg = [p \in Procs |-> NoPid]
  /\ call = [p \in Procs |-> NoCall]
  /\ report = [p \in Procs |-> NoReport]
  /\ objects = [p \in Procs |-> Nothing]
  /\ leaked = 0

-----------------------------------------------------------------------------
(* Processes *)

Goto(p, to) == pc' = [pc EXCEPT ![p] = to]

\* In a serial world nothing starts while another process is busy.
Turn(p) == world.serial => \A q \in Procs \ {p} : pc[q] \in {"gone", "run"}

\* A process is created, with a pid that is not the recorded one; an
\* observer's own segment is another one.
Start(p) ==
  /\ p \in world.procs
  /\ pc[p] = "gone"
  /\ Turn(p)
  /\ pid # p
  /\ Goto(p, IF p \in Members THEN "open" ELSE "run")
  /\ task' = [task EXCEPT ![p] = "init"]
  /\ UNCHANGED <<seg_vars, first, reg, call, report, objects, world, leaked>>

\* The process is gone: its mapping, its lists and its GPU memory with it.
Gone(p) ==
  /\ (world.ownerStays /\ pid = p) => Alive \cap Members = {p}
  /\ Goto(p, "gone")
  /\ task' = [task EXCEPT ![p] = "init"]
  /\ first' = [first EXCEPT ![p] = FALSE]
  /\ reg' = [reg EXCEPT ![p] = NoPid]
  /\ call' = [call EXCEPT ![p] = NoCall]
  /\ report' = [report EXCEPT ![p] = NoReport]
  /\ objects' = [objects EXCEPT ![p] = Nothing]
  /\ leaked' = IF ~world.serial \/ Alive \cap Members \subseteq {p} THEN 0 ELSE leaked + Charged(p)

\* It exits or is killed: nothing it charged is credited to the segment.
Die(p) ==
  /\ pc[p] \in world.crashAt
  /\ Gone(p)
  /\ UNCHANGED <<seg_vars, world>>

-----------------------------------------------------------------------------
(* create_shm_addr *)

\* shm_open with O_EXCL succeeds: this process is the creator ...
OpenCreate(p) ==
  /\ pc[p] = "open"
  /\ seg = "none"
  /\ seg' = "empty"
  /\ first' = [first EXCEPT ![p] = TRUE]
  /\ Goto(p, "truncate")
  /\ UNCHANGED <<total_mem, free_mem, pid, task, reg, call, report, objects, world, leaked>>

\* ... or fails with EEXIST and the segment is opened as it is.
OpenExisting(p) ==
  /\ pc[p] = "open"
  /\ seg # "none"
  /\ first' = [first EXCEPT ![p] = FALSE]
  /\ Goto(p, "map")
  /\ UNCHANGED <<seg_vars, task, reg, call, report, objects, world, leaked>>

\* ftruncate, by the creator only.
Truncate(p) ==
  /\ pc[p] = "truncate"
  /\ seg' = "sized"
  /\ Goto(p, "map")
  /\ UNCHANGED <<total_mem, free_mem, pid, task, first, reg, call, report, objects, world, leaked>>

\* The first access of the caller to the mapping.
AfterMap(p) == IF task[p] = "init" THEN "check" ELSE "qpid"

\* mmap succeeds whatever the size of the segment.
Map(p) ==
  /\ pc[p] = "map"
  /\ Goto(p, IF first[p] THEN "clear" ELSE AfterMap(p))
  /\ UNCHANGED <<seg_vars, task, first, reg, call, report, objects, world, leaked>>

\* memset by the creator, whatever others have stored since.
Clear(p) ==
  /\ pc[p] = "clear"
  /\ seg = "sized"
  /\ total_mem' = 0 /\ free_mem' = 0 /\ pid' = NoPid
  /\ Goto(p, AfterMap(p))
  /\ UNCHANGED <<seg, task, first, reg, call, report, objects, world, leaked>>

\* An access beyond the end of a segment of size 0: SIGBUS.
BusError(p) ==
  /\ pc[p] \in {"clear", "check", "qpid"}
  /\ seg = "empty"
  /\ Gone(p)
  /\ UNCHANGED <<seg_vars, world>>

\* The driver's own value stays where the hook has none to put.
Reply(p, total) ==
  report' = [report EXCEPT ![p] =
    [total |-> IF total > 0 THEN total ELSE DriverMem,
     free  |-> IF total > 0 THEN total ELSE DriverMem]]

\* shm_open or ftruncate fails: NULL, and _init_device_prop calls exit(-1);
\* mmap fails: MAP_FAILED is not NULL and its use is a SIGSEGV.
InitFails(p) ==
  /\ world.mayFail
  /\ pc[p] = "map" \/ (pc[p] \in {"open", "truncate"} /\ task[p] = "init")
  /\ Gone(p)
  /\ UNCHANGED <<seg_vars, world>>

\* In __get_fb_info a NULL leaves the caller with total_mem 0 and free_mem -1.
QueryFails(p) ==
  /\ world.mayFail
  /\ pc[p] \in {"open", "truncate"} /\ task[p] = "query"
  /\ Reply(p, 0)
  /\ Goto(p, "replied")
  /\ UNCHANGED <<seg_vars, task, first, reg, call, objects, world, leaked>>

-----------------------------------------------------------------------------
(* _init_device_prop, memory part *)

\* Mutant: the pid is published before the other fields are stored.
CheckPidFirst(p) ==
  /\ pc[p] = "check"
  /\ seg = "sized"
  /\ reg' = [reg EXCEPT ![p] = pid]
  /\ pid' = IF pid = NoPid THEN p ELSE pid
  /\ Goto(p, IF pid = NoPid THEN "total" ELSE "lstat")
  /\ UNCHANGED <<seg, total_mem, free_mem, task, first, call, report, objects, world, leaked>>

\* need_init = fb_info->pid == 0; else the recorded pid is looked up.
CheckPid(p) ==
  /\ pc[p] = "check"
  /\ seg = "sized"
  /\ reg' = [reg EXCEPT ![p] = pid]
  /\ Goto(p, IF pid = NoPid THEN "total" ELSE "lstat")
  /\ UNCHANGED <<seg_vars, task, first, call, report, objects, world, leaked>>

\* lstat("/proc/<pid>/exe"): ENOENT exactly when there is no such process.
Lstat(p) ==
  /\ pc[p] = "lstat"
  /\ Goto(p, IF reg[p] \in Alive THEN "run" ELSE "total")
  /\ UNCHANGED <<seg_vars, task, first, reg, call, report, objects, world, leaked>>

StoreTotal(p) ==
  /\ pc[p] = "total"
  /\ total_mem' = TotalMem
  /\ Goto(p, "free")
  /\ UNCHANGED <<seg, free_mem, pid, task, first, reg, call, report, objects, world, leaked>>

StoreFree(p) ==
  /\ pc[p] = "free"
  /\ free_mem' = TotalMem
  /\ Goto(p, "pid")
  /\ UNCHANGED <<seg, total_mem, pid, task, first, reg, call, report, objects, world, leaked>>

StorePid(p) ==
  /\ pc[p] = "pid"
  /\ pid' = p
  /\ Goto(p, "run")
  /\ UNCHANGED <<seg, total_mem, free_mem, task, first, reg, call, report, objects, world, leaked>>

-----------------------------------------------------------------------------
(* The memory ioctls *)

\* The pre check admits an allocation (a refused one changes nothing).
Alloc(p) ==
  /\ pc[p] = "run"
  /\ p \in Members
  /\ Turn(p)
  /\ \E n \in world.sizes :
       /\ ~(free_mem < n)
       /\ objects[p][n] < MaxObjects
       /\ call' = [call EXCEPT ![p] = [op |-> "alloc", size |-> n]]
  /\ Goto(p, "kernel")
  /\ UNCHANGED <<seg_vars, task, first, reg, report, objects, world, leaked>>

\* The free of an object the process holds.
Free(p) ==
  /\ pc[p] = "run"
  /\ Turn(p)
  /\ \E n \in Sizes :
       /\ objects[p][n] > 0
       /\ call' = [call EXCEPT ![p] = [op |-> "free", size |-> n]]
  /\ Goto(p, "kernel")
  /\ UNCHANGED <<seg_vars, task, first, reg, report, objects, world, leaked>>

\* The driver does it ...
KernelDoes(p) ==
  /\ pc[p] = "kernel"
  /\ objects' = [objects EXCEPT ![p][call[p].size] =
                   IF call[p].op = "alloc" THEN @ + 1 ELSE @ - 1]
  /\ Goto(p, "load")
  /\ UNCHANGED <<seg_vars, task, first, reg, call, report, world, leaked>>

\* ... or refuses and the call returns.
KernelRefuses(p) ==
  /\ pc[p] = "kernel"
  /\ call' = [call EXCEPT ![p] = NoCall]
  /\ Goto(p, "run")
  /\ UNCHANGED <<seg_vars, task, first, reg, report, objects, world, leaked>>

\* fb_info->free_mem -= size or += size, a load and a store.
LoadFree(p) ==
  /\ pc[p] = "load"
  /\ reg' = [reg EXCEPT ![p] = free_mem]
  /\ Goto(p, "store")
  /\ UNCHANGED <<seg_vars, task, first, call, report, objects, world, leaked>>

\* Mutant: a free is not credited.
StoreNoCredit(p) ==
  /\ pc[p] = "store"
  /\ free_mem' = IF call[p].op = "alloc" THEN Minus(reg[p], call[p].size) ELSE free_mem
  /\ call' = [call EXCEPT ![p] = NoCall]
  /\ reg' = [reg EXCEPT ![p] = NoPid]
  /\ Goto(p, "run")
  /\ UNCHANGED <<seg, total_mem, pid, task, first, report, objects, world, leaked>>

\* Mutant: an allocation is not charged.
StoreNoCharge(p) ==
  /\ pc[p] = "store"
  /\ free_mem' = IF call[p].op = "alloc" THEN free_mem ELSE Plus(reg[p], call[p].size)
  /\ call' = [call EXCEPT ![p] = NoCall]
  /\ reg' = [reg EXCEPT ![p] = NoPid]
  /\ Goto(p, "run")
  /\ UNCHANGED <<seg, total_mem, pid, task, first, report, objects, world, leaked>>

StoreFreeMem(p) ==
  /\ pc[p] = "store"
  /\ free_mem' = IF call[p].op = "alloc" THEN Minus(reg[p], call[p].size)
                                         ELSE Plus(reg[p], call[p].size)
  /\ call' = [call EXCEPT ![p] = NoCall]
  /\ reg' = [reg EXCEPT ![p] = NoPid]
  /\ Goto(p, "run")
  /\ UNCHANGED <<seg, total_mem, pid, task, first, report, objects, world, leaked>>

-----------------------------------------------------------------------------
(* FB_GET_INFO: __get_fb_info and the reply *)

\* __get_fb_info maps the segment once more, creating it if need be.
Query(p) ==
  /\ pc[p] = "run"
  /\ Turn(p)
  /\ task' = [task EXCEPT ![p] = "query"]
  /\ Goto(p, "open")
  /\ UNCHANGED <<seg_vars, first, reg, call, report, objects, world, leaked>>

\* fb_info->pid == 0: total_mem 0 and free_mem -1 go to the reply.
QueryPid(p) ==
  /\ pc[p] = "qpid"
  /\ seg = "sized"
  /\ IF pid = NoPid THEN Reply(p, 0) /\ Goto(p, "replied")
                    ELSE Goto(p, "qtotal") /\ UNCHANGED report
  /\ UNCHANGED <<seg_vars, task, first, reg, call, objects, world, leaked>>

\* total_mem >> 10.  readlink returns the length of the link or -1 and never
\* 0, so free_mem stays -1 and the reply has the total for HEAP_FREE too.
QueryTotal(p) ==
  /\ pc[p] = "qtotal"
  /\ Reply(p, total_mem \div KiB)
  /\ Goto(p, "replied")
  /\ UNCHANGED <<seg_vars, task, first, reg, call, objects, world, leaked>>

\* The ioctl returns; the mapping is gone again.
QueryReturn(p) ==
  /\ pc[p] = "replied"
  /\ Goto(p, "run")
  /\ task' = [task EXCEPT ![p] = "init"]
  /\ first' = [first EXCEPT ![p] = FALSE]
  /\ report' = [report EXCEPT ![p] = NoReport]
  /\ UNCHANGED <<seg_vars, reg, call, objects, world, leaked>>

Next == \E p \in Procs :
  \/ Start(p) \/ Die(p)
  \/ OpenCreate(p) \/ OpenExisting(p) \/ Truncate(p) \/ Map(p) \/ Clear(p)
  \/ BusError(p) \/ InitFails(p) \/ QueryFails(p)
  \/ CheckPid(p) \/ Lstat(p) \/ StoreTotal(p) \/ StoreFree(p) \/ StorePid(p)
  \/ Alloc(p) \/ Free(p) \/ KernelDoes(p) \/ KernelRefuses(p) \/ LoadFree(p) \/ StoreFreeMem(p)
  \/ Query(p) \/ QueryPid(p) \/ QueryTotal(p) \/ QueryReturn(p)

Spec == Init /\ [][Next]_vars

-----------------------------------------------------------------------------
(* Properties *)

\* Bytes the driver holds for all processes.
KernelUse == Total([p \in Procs |-> Held(p)])

\* The memory limit over all processes of the container: together they never
\* hold more than total_mem, through restarts, leaks, failing system calls and
\* crashes in the middle of a charge, as long as starts and calls do not
\* overlap and the process recorded in fb_info->pid outlives the others.
KernelWithinLimit == world.serial /\ world.ownerStays => KernelUse <= TotalMem

\* Past _init_device_prop's store of fb_info->pid.
Ready(p) == p \in Members /\ (pc[p] \in {"run", "kernel", "load", "store"}
                              \/ (pc[p] # "gone" /\ task[p] = "query"))

\* What the members have charged to the segment.
ChargedUse == Total([p \in Procs |-> Charged(p)])

\* Under the same conditions nothing is lost but what a member had charged when
\* it died next to others, and that only until all of them are gone: the next
\* process then starts with the whole limit, whatever its predecessors left in
\* the segment and wherever they died.
RestartExact ==
  world.serial /\ world.ownerStays =>
    \A p \in Procs : Ready(p) => free_mem + ChargedUse + leaked = TotalMem

\* A process that has been through _init_device_prop is told its own limit by
\* FB_GET_INFO and never the size of the GPU, although others initialise the
\* segment, die in it and update free_mem at the same time; it needs a segment
\* whose creator is past its memset.
MemberSeesLimit ==
  world.leftOver /\ ~world.mayFail =>
    \A p \in Members : pc[p] = "replied" => report[p].total = TotalMem \div KiB

=============================================================================
