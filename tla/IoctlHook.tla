------------------------------ MODULE IoctlHook ------------------------------
(***************************************************************************)
(* The ioctl interposer of one process (dlfcn.c: ioctl; ioctl_hook.c:      *)
(* pre_ioctl, post_ioctl and everything they call).  Each thread's call    *)
(* runs  pre check -> real ioctl -> post bookkeeping;  only the pre check  *)
(* and the bookkeeping are under gpu_device.mu, the real ioctl is not.     *)
(*                                                                         *)
(* The process is the only user of its fb_info segment here; processes     *)
(* that share one are the subject of another module.  `live' is the        *)
(* NVIDIA resource manager (external): the objects it really holds.        *)
(***************************************************************************)
EXTENDS Integers, Sequences, SequencesExt, ByteCount

CONSTANTS
  Threads,        \* threads of the process
  Handles,        \* RM object handles the process uses
  Root,           \* hRoot, the client handle, parent of the devices
  OwnerTags,      \* params->owner values that are not the object's handle
  Devices,        \* device ids, naturals
  Ops,            \* the kinds of ioctl the application issues
  Minors,         \* "ctl" is NVIDIA_CTL_MINOR, "gpu" any other minor
  Sizes,          \* requested sizes
  Aligns,         \* requested alignments: 0 or a power of two
  TotalMem,       \* fb_info->total_mem, the CUDA_MEM_LIMIT
  SizeMod,        \* size_t wraps at SizeMod (2^64)
  MallocMayFail,  \* whether malloc may return NULL
  MaxEntries,     \* bound on the length of either list
  NoThread        \* mu is free

AllOps == {"heap_alloc", "heap_info", "rm_device", "rm_subdevice", "rm_memory",
           "rm_other", "control", "free", "passthru"}

ASSUME ConstantsOK ==
  /\ NoThread \notin Threads
  /\ Root \notin Handles
  /\ OwnerTags \cap (Handles \cup {Root}) = {}
  /\ Devices \subseteq Nat
  /\ Ops \subseteq AllOps
  /\ Minors \subseteq {"ctl", "gpu"}
  /\ SizeMod \in Nat \ {0}
  /\ TotalMem \in 0 .. SizeMod - 1
  /\ Sizes \subseteq 1 .. SizeMod - 1
  /\ Aligns \subseteq 0 .. SizeMod - 1
  /\ MallocMayFail \in BOOLEAN
  /\ MaxEntries \in Nat

VARIABLES
  free_mem,       \* gpu_device.fb_info->free_mem
  alloc_mem,      \* gpu_device.alloc_mem
  heap_mem_list,  \* gpu_device.heap_mem_list, head first
  rm_mem_list,    \* gpu_device.rm_mem_list, head first
  mu,             \* gpu_device.mu: its holder or NoThread
  pc,             \* where each thread is in ioctl()
  req,            \* each thread's request, its *pApi
  reg,            \* free_mem as the thread loaded it for its += or -=
  live            \* objects the resource manager holds (external)

vars == <<free_mem, alloc_mem, heap_mem_list, rm_mem_list, mu, pc, req, reg, live>>

-----------------------------------------------------------------------------
(* Data *)

NoDevice == -1
Size == 0 .. SizeMod - 1
Id == Handles \cup {Root} \cup OwnerTags

\* device_mem_t and rm_mem_t without their list_head
MemEntry == [object : Id, size : Size]
RmEntry == [object : Id, device_id : Devices \cup {NoDevice}]

\* Mutant: the subtraction of a signed type.
MinusSigned(a, b) == a - b

\* size_t subtraction and addition
Minus(a, b) == IF b <= a THEN a - b ELSE a + SizeMod - b
Plus(a, b) == IF a + b < SizeMod THEN a + b ELSE a + b - SizeMod

\* (size + alignment - 1) & ~(alignment - 1), alignment a power of two
AlignUp(size, alignment) ==
  LET x == (size + alignment - 1) % SizeMod IN x - (x % alignment)

\* *pApi of any of the ioctls: h is the object created, freed or queried, key
\* the id the allocation is recorded under, status the driver's verdict.
Request == [op : AllOps, minor : {"ctl", "gpu"}, h : Id, parent : Id,
            size : Size, align : Size, key : Id, dev : Devices \cup {NoDevice},
            status : {"ok", "failed"}]

MemoryOps == {"heap_alloc", "rm_memory"}
AllocOps == MemoryOps \cup {"rm_device", "rm_subdevice", "rm_other"}

\* The requests an application issues; a field its op does not use is Root or 0.
Requests ==
  {r \in [op : Ops, minor : Minors, h : Handles \cup {Root}, parent : Handles \cup {Root},
          size : Sizes \cup {0}, align : Aligns \cup {0},
          key : Handles \cup {Root} \cup OwnerTags, dev : Devices \cup {NoDevice},
          status : {"ok"}] :
     /\ (r.size # 0) = (r.op \in MemoryOps)
     /\ IF r.op \in MemoryOps THEN r.align \in Aligns ELSE r.align = 0
     /\ (r.dev # NoDevice) = (r.op = "rm_device")
     /\ CASE r.op = "heap_alloc"   -> r.key = r.h
          [] r.op = "rm_memory"    -> r.key \in {r.h} \cup OwnerTags
          [] OTHER                 -> r.key = Root
     /\ r.op \in MemoryOps \cup {"rm_subdevice"} => r.parent # Root
     /\ r.op \in {"rm_device", "control", "heap_info", "passthru"} => r.parent = Root
     /\ r.op \in {"heap_info", "passthru"} => r.h = Root
     /\ r.op \in AllocOps \cup {"control"} => r.h # Root
     /\ r.h = Root => r.parent = Root}

\* The frame of a thread that is not inside ioctl().
NoRequest == [op |-> "passthru", minor |-> "ctl", h |-> Root, parent |-> Root, size |-> 0,
              align |-> 0, key |-> Root, dev |-> NoDevice, status |-> "ok"]

\* What the resource manager keeps of an object; dev is the GPU it is on.
Object == [h : Id, op : AllOps, parent : Id, size : Size, dev : Devices \cup {NoDevice}]

TypeOK ==
  /\ free_mem \in Size
  /\ alloc_mem \in Size
  /\ heap_mem_list \in Seq(MemEntry)
  /\ rm_mem_list \in Seq(RmEntry)
  /\ mu \in Threads \cup {NoThread}
  /\ pc \in [Threads -> {"idle", "pre", "kernel", "post", "crit", "store"}]
  /\ req \in [Threads -> Request]
  /\ reg \in [Threads -> Size]
  /\ live \in SUBSET Object

Init ==
  /\ free_mem = TotalMem
  /\ alloc_mem = 0
  /\ heap_mem_list = <<>>
  /\ rm_mem_list = <<>>
  /\ mu = NoThread
  /\ pc = [t \in Threads |-> "idle"]
  /\ req = [t \in Threads |-> NoRequest]
  /\ reg = [t \in Threads |-> 0]
  /\ live = {}

-----------------------------------------------------------------------------
(* ioctl(): the call, the pre check and the real ioctl *)

Goto(t, to) == pc' = [pc EXCEPT ![t] = to]

\* ioctl() returns; its frame is gone.
Return(t) ==
  /\ pc' = [pc EXCEPT ![t] = "idle"]
  /\ req' = [req EXCEPT ![t] = NoRequest]
  /\ reg' = [reg EXCEPT ![t] = 0]

InFlight == {t \in Threads : pc[t] # "idle"}

\* Live objects whose creating ioctl() has returned: their handles are known.
Known == {o \in live : \A t \in InFlight : ~(req[t].op \in AllocOps /\ req[t].h = o.h)}

\* Call a frees what call b names; the client hRoot holds everything.
Frees(a, b) == a.op = "free" /\ a.h \in {b.h, b.parent, Root}

\* What a caller may pass: a new object has a handle that is neither live nor
\* part of a call in progress and a known device or the client as parent; a
\* freed or queried object is known and named with its parent; nothing is
\* freed while another call uses it.
Callable(r) ==
  /\ \A t \in InFlight : ~Frees(r, req[t]) /\ ~Frees(req[t], r)
  /\ r.op \in AllocOps =>
       /\ r.h \notin {o.h : o \in live} \cup {req[t].h : t \in InFlight}
       /\ r.parent = Root \/ \E o \in Known : o.h = r.parent /\ o.op = "rm_device"
  /\ r.op = "free" => r.h = Root \/ \E o \in Known : o.h = r.h /\ o.parent = r.parent
  /\ r.op = "control" => \E o \in Known : o.h = r.h /\ o.op = "rm_subdevice"

\* A call of ioctl() enters the interposer (MaxEntries bounds both lists).
Call(t) ==
  /\ pc[t] = "idle"
  /\ \E r \in Requests :
       /\ Callable(r)
       /\ r.op \in MemoryOps => Len(heap_mem_list) < MaxEntries
       /\ r.op \in {"rm_device", "rm_subdevice"} => Len(rm_mem_list) < MaxEntries
       /\ req' = [req EXCEPT ![t] = r]
  /\ Goto(t, "pre")
  /\ UNCHANGED <<free_mem, alloc_mem, heap_mem_list, rm_mem_list, mu, reg, live>>

\* pre_ioctl compares free_mem only for these; align_size is 0 for INFO.
PreLocks(r) == r.op = "heap_info" \/ (r.op \in MemoryOps /\ r.align # 0)
AlignSize(r) == IF r.op = "heap_info" THEN 0 ELSE AlignUp(r.size, r.align)

\* pre_ioctl has nothing to check: alignment 0, or another request.
PreSkip(t) ==
  /\ pc[t] = "pre"
  /\ ~PreLocks(req[t])
  /\ Goto(t, "kernel")
  /\ UNCHANGED <<free_mem, alloc_mem, heap_mem_list, rm_mem_list, mu, req, reg, live>>

\* Mutant: the comparison is off by one.
PreAdmitOffByOne(t) ==
  /\ pc[t] = "pre"
  /\ PreLocks(req[t])
  /\ mu = NoThread
  /\ ~(free_mem + 1 < AlignSize(req[t]))
  /\ Goto(t, "kernel")
  /\ UNCHANGED <<free_mem, alloc_mem, heap_mem_list, rm_mem_list, mu, req, reg, live>>

\* The request fits: the mutex is dropped again and the call goes on.
PreAdmit(t) ==
  /\ pc[t] = "pre"
  /\ PreLocks(req[t])
  /\ mu = NoThread
  /\ ~(free_mem < AlignSize(req[t]))
  /\ Goto(t, "kernel")
  /\ UNCHANGED <<free_mem, alloc_mem, heap_mem_list, rm_mem_list, mu, req, reg, live>>

\* The request does not fit: NV_ERR_NO_MEMORY, the driver is not called.
PreDeny(t) ==
  /\ pc[t] = "pre"
  /\ PreLocks(req[t])
  /\ mu = NoThread
  /\ free_mem < AlignSize(req[t])
  /\ Return(t)
  /\ UNCHANGED <<free_mem, alloc_mem, heap_mem_list, rm_mem_list, mu, live>>

\* The real ioctl fails (ret # 0): no post processing.
KernelError(t) ==
  /\ pc[t] = "kernel"
  /\ Return(t)
  /\ UNCHANGED <<free_mem, alloc_mem, heap_mem_list, rm_mem_list, mu, live>>

\* The real ioctl returns 0 but the driver refused: status # NV_OK.
KernelRefuse(t) ==
  /\ pc[t] = "kernel"
  /\ req' = [req EXCEPT ![t].status = "failed"]
  /\ Goto(t, "post")
  /\ UNCHANGED <<free_mem, alloc_mem, heap_mem_list, rm_mem_list, mu, reg, live>>

\* The driver creates the object; memory may be rounded up to the alignment
\* and the size granted is written back into the request.
KernelAlloc(t) ==
  LET r == req[t] IN
  /\ pc[t] = "kernel"
  /\ r.op \in AllocOps
  /\ \/ r.parent = Root
     \/ \E o \in live : o.h = r.parent /\ o.op = "rm_device"
  /\ \E n \in Size :
       /\ IF r.op \in MemoryOps /\ r.align # 0
            THEN n \in r.size .. AlignSize(r) ELSE n = r.size
       /\ req' = [req EXCEPT ![t].size = n]
       /\ \E d \in IF r.op = "rm_subdevice"
                     THEN {o.dev : o \in {p \in live : p.h = r.parent}} ELSE {r.dev} :
            live' = live \cup {[h |-> r.h, op |-> r.op, parent |-> r.parent,
                                size |-> n, dev |-> d]}
  /\ Goto(t, "post")
  /\ UNCHANGED <<free_mem, alloc_mem, heap_mem_list, rm_mem_list, mu, reg>>

\* The driver frees an object with everything below it; hRoot is above all.
KernelFree(t) ==
  LET r == req[t] IN
  /\ pc[t] = "kernel"
  /\ r.op = "free"
  /\ r.h = Root \/ r.h \in {o.h : o \in live}
  /\ live' = {o \in live : r.h # Root /\ o.h # r.h /\ o.parent # r.h}
  /\ Goto(t, "post")
  /\ UNCHANGED <<free_mem, alloc_mem, heap_mem_list, rm_mem_list, mu, req, reg>>

\* Any other request succeeds without changing the objects.
KernelOther(t) ==
  /\ pc[t] = "kernel"
  /\ req[t].op \in {"control", "heap_info", "passthru"}
  /\ Goto(t, "post")
  /\ UNCHANGED <<free_mem, alloc_mem, heap_mem_list, rm_mem_list, mu, req, reg, live>>

-----------------------------------------------------------------------------
(* post_ioctl(): bookkeeping *)

\* Whether post_ioctl's handler gets as far as pthread_mutex_lock.
PostLocks(r) ==
  \/ r.op = "heap_alloc" /\ r.minor = "ctl" /\ r.status = "ok" /\ r.align # 0
  \/ r.op = "rm_memory" /\ r.status = "ok" /\ r.align # 0
  \/ r.op \in {"rm_device", "rm_subdevice"}
  \/ r.op = "control" /\ r.minor = "ctl" /\ r.status = "ok"
  \/ r.op = "free" /\ r.minor = "ctl" /\ r.status = "ok" /\ r.h # Root

\* Early returns: other minor (-EINVAL), a refused request, alignment 0,
\* the client's own free, and everything post_ioctl does not handle.
PostReturn(t) ==
  /\ pc[t] = "post"
  /\ ~PostLocks(req[t])
  /\ Return(t)
  /\ UNCHANGED <<free_mem, alloc_mem, heap_mem_list, rm_mem_list, mu, live>>

\* Mutant: the handler does not wait for the mutex.
PostLockNoWait(t) ==
  /\ pc[t] = "post"
  /\ PostLocks(req[t])
  /\ mu' = t
  /\ Goto(t, "crit")
  /\ UNCHANGED <<free_mem, alloc_mem, heap_mem_list, rm_mem_list, req, reg, live>>

\* pthread_mutex_lock of the handler.
PostLock(t) ==
  /\ pc[t] = "post"
  /\ PostLocks(req[t])
  /\ mu = NoThread
  /\ mu' = t
  /\ Goto(t, "crit")
  /\ UNCHANGED <<free_mem, alloc_mem, heap_mem_list, rm_mem_list, req, reg, live>>

\* Mutant: list_add_tail instead of list_add.
ChargeBeginTail(t) ==
  /\ pc[t] = "crit"
  /\ req[t].op \in MemoryOps
  /\ heap_mem_list' = Append(heap_mem_list, [object |-> req[t].key, size |-> req[t].size])
  /\ reg' = [reg EXCEPT ![t] = free_mem]
  /\ Goto(t, "store")
  /\ UNCHANGED <<free_mem, alloc_mem, rm_mem_list, mu, req, live>>

\* post_vid_heap_alloc and post_memory_rm_alloc: the entry is added at the
\* head and free_mem is loaded.
ChargeBegin(t) ==
  /\ pc[t] = "crit"
  /\ req[t].op \in MemoryOps
  /\ heap_mem_list' = Cons([object |-> req[t].key, size |-> req[t].size], heap_mem_list)
  /\ reg' = [reg EXCEPT ![t] = free_mem]
  /\ Goto(t, "store")
  /\ UNCHANGED <<free_mem, alloc_mem, rm_mem_list, mu, req, live>>

\* ... or malloc fails and `goto finish' jumps past pthread_mutex_unlock.
ChargeNoMemory(t) ==
  /\ pc[t] = "crit"
  /\ req[t].op \in MemoryOps
  /\ MallocMayFail
  /\ Return(t)
  /\ UNCHANGED <<free_mem, alloc_mem, heap_mem_list, rm_mem_list, mu, live>>

\* free_mem -= size; alloc_mem += size; unlock.
ChargeEnd(t) ==
  /\ pc[t] = "store"
  /\ req[t].op \in MemoryOps
  /\ free_mem' = Minus(reg[t], req[t].size)
  /\ alloc_mem' = Plus(alloc_mem, req[t].size)
  /\ mu' = NoThread
  /\ Return(t)
  /\ UNCHANGED <<heap_mem_list, rm_mem_list, live>>

\* list_for_each(iter, list): the first entry with this object, else 0.
FindEntry(list, object) == SelectInSeq(list, LAMBDA e : e.object = object)

\* The value of `entry' after such a loop in free_heap_page and
\* free_device_page: without a match it is the last entry visited, and 0
\* (NULL) only if the list is empty.
EntryAfterLoop(list, object) ==
  IF FindEntry(list, object) # 0 THEN FindEntry(list, object) ELSE Len(list)

\* free_heap_page: free_mem is loaded for the entry the loop ended on.
CreditBegin(t) ==
  /\ pc[t] = "crit"
  /\ req[t].op = "free" /\ req[t].parent # Root
  /\ heap_mem_list # <<>>
  /\ reg' = [reg EXCEPT ![t] = free_mem]
  /\ Goto(t, "store")
  /\ UNCHANGED <<free_mem, alloc_mem, heap_mem_list, rm_mem_list, mu, req, live>>

\* Mutant: the head is unlinked instead of the entry credited.
CreditEndHead(t) ==
  LET i == EntryAfterLoop(heap_mem_list, req[t].h) IN
  /\ pc[t] = "store"
  /\ req[t].op = "free"
  /\ free_mem' = Plus(reg[t], heap_mem_list[i].size)
  /\ alloc_mem' = Minus(alloc_mem, heap_mem_list[i].size)
  /\ heap_mem_list' = Tail(heap_mem_list)
  /\ mu' = NoThread
  /\ Return(t)
  /\ UNCHANGED <<rm_mem_list, live>>

\* free_mem += size; alloc_mem -= size; list_del; unlock.
CreditEnd(t) ==
  LET i == EntryAfterLoop(heap_mem_list, req[t].h) IN
  /\ pc[t] = "store"
  /\ req[t].op = "free"
  /\ free_mem' = Plus(reg[t], heap_mem_list[i].size)
  /\ alloc_mem' = Minus(alloc_mem, heap_mem_list[i].size)
  /\ heap_mem_list' = RemoveAt(heap_mem_list, i)
  /\ mu' = NoThread
  /\ Return(t)
  /\ UNCHANGED <<rm_mem_list, live>>

\* Mutant: an early return without unlocking.
CreditNoneLocked(t) ==
  /\ pc[t] = "crit"
  /\ req[t].op = "free" /\ req[t].parent # Root
  /\ heap_mem_list = <<>>
  /\ Return(t)
  /\ UNCHANGED <<free_mem, alloc_mem, heap_mem_list, rm_mem_list, mu, live>>

\* free_heap_page on an empty list.
CreditNone(t) ==
  /\ pc[t] = "crit"
  /\ req[t].op = "free" /\ req[t].parent # Root
  /\ heap_mem_list = <<>>
  /\ mu' = NoThread
  /\ Return(t)
  /\ UNCHANGED <<free_mem, alloc_mem, heap_mem_list, rm_mem_list, live>>

\* free_device_page: the parent of the freed object is the client.
FreeDevice(t) ==
  /\ pc[t] = "crit"
  /\ req[t].op = "free" /\ req[t].parent = Root
  /\ rm_mem_list' = IF rm_mem_list = <<>> THEN rm_mem_list
                      ELSE RemoveAt(rm_mem_list, EntryAfterLoop(rm_mem_list, req[t].h))
  /\ mu' = NoThread
  /\ Return(t)
  /\ UNCHANGED <<free_mem, alloc_mem, heap_mem_list, live>>

\* The device id of an object, as post_ctrl_rm_alloc and
\* post_rm_control_fb_get_info(_v2) look it up.
DeviceOf(object) ==
  IF FindEntry(rm_mem_list, object) = 0 THEN NoDevice
  ELSE rm_mem_list[FindEntry(rm_mem_list, object)].device_id

\* Mutant: list_add_tail instead of list_add.
AddDeviceTail(t) ==
  /\ pc[t] = "crit"
  /\ req[t].op = "rm_device"
  /\ \/ rm_mem_list' = Append(rm_mem_list, [object |-> req[t].h, device_id |-> req[t].dev])
     \/ MallocMayFail /\ UNCHANGED rm_mem_list
  /\ mu' = NoThread
  /\ Return(t)
  /\ UNCHANGED <<free_mem, alloc_mem, heap_mem_list, live>>

\* post_device_rm_alloc: whatever the status was, unless malloc fails.
AddDevice(t) ==
  /\ pc[t] = "crit"
  /\ req[t].op = "rm_device"
  /\ \/ rm_mem_list' = Cons([object |-> req[t].h, device_id |-> req[t].dev], rm_mem_list)
     \/ MallocMayFail /\ UNCHANGED rm_mem_list
  /\ mu' = NoThread
  /\ Return(t)
  /\ UNCHANGED <<free_mem, alloc_mem, heap_mem_list, live>>

\* post_ctrl_rm_alloc: the subdevice inherits the device id of its parent.
AddSubdevice(t) ==
  LET d == DeviceOf(req[t].parent) IN
  /\ pc[t] = "crit"
  /\ req[t].op = "rm_subdevice"
  /\ \/ /\ d # NoDevice
        /\ rm_mem_list' = Cons([object |-> req[t].h, device_id |-> d], rm_mem_list)
     \/ /\ d = NoDevice \/ MallocMayFail
        /\ UNCHANGED rm_mem_list
  /\ mu' = NoThread
  /\ Return(t)
  /\ UNCHANGED <<free_mem, alloc_mem, heap_mem_list, live>>

\* post_rm_control: DeviceOf(req[t].h) under the mutex; what is reported for it
\* is read from its fb_info segment without the mutex and changes nothing here.
ControlLookup(t) ==
  /\ pc[t] = "crit"
  /\ req[t].op = "control"
  /\ mu' = NoThread
  /\ Return(t)
  /\ UNCHANGED <<free_mem, alloc_mem, heap_mem_list, rm_mem_list, live>>

Kernel(t) == KernelError(t) \/ KernelRefuse(t) \/ KernelAlloc(t) \/ KernelFree(t) \/ KernelOther(t)

\* A thread's steps inside ioctl(): taken without the application's doing.
Step(t) ==
  \/ PreSkip(t) \/ PreAdmit(t) \/ PreDeny(t) \/ Kernel(t) \/ PostReturn(t) \/ PostLock(t)
  \/ ChargeBegin(t) \/ ChargeNoMemory(t) \/ ChargeEnd(t)
  \/ CreditBegin(t) \/ CreditEnd(t) \/ CreditNone(t)
  \/ FreeDevice(t) \/ AddDevice(t) \/ AddSubdevice(t) \/ ControlLookup(t)

Next == \E t \in Threads : Call(t) \/ Step(t)

Spec == Init /\ [][Next]_vars

\* Threads inside ioctl() are scheduled; the application need not call again.
FairSpec == Spec /\ \A t \in Threads : WF_vars(Step(t))

-----------------------------------------------------------------------------
(* Properties *)

InCrit(t) == pc[t] \in {"crit", "store"}

\* Between pthread_mutex_lock and pthread_mutex_unlock of the post handlers a
\* thread is the holder of gpu_device.mu, so no two threads are inside at once.
MutualExclusion == \A t \in Threads : InCrit(t) => mu = t

\* The sizes in heap_mem_list added up.
Listed == Total([i \in 1 .. Len(heap_mem_list) |-> heap_mem_list[i].size])

\* alloc_mem is the sum of the sizes in heap_mem_list (in size_t arithmetic)
\* whenever no thread is between list_add and the stores: every charge has its
\* entry and every entry removed has been credited, whichever entry it was.
LedgerMatchesList ==
  (\A t \in Threads : pc[t] # "store") => alloc_mem = Listed % SizeMod

\* What the hook has charged and what it calls free always add up to
\* total_mem, in size_t arithmetic: no interleaving of the threads' += and -=
\* loses an update, even after free_mem has wrapped around.
Conservation == Plus(free_mem, alloc_mem) = TotalMem

\* A memory request the driver granted and post_ioctl will charge.
ChargePending(t) ==
  /\ pc[t] \in {"post", "crit", "store"}
  /\ req[t].op \in MemoryOps
  /\ PostLocks(req[t])

\* The charge that follows a granted request never makes free_mem wrap below
\* zero.  It needs the pre check to be still valid at the post handler, which
\* is so when the process makes one call at a time.
ChargeFits == \A t \in Threads : ChargePending(t) => req[t].size <= free_mem

\* Bytes of GPU memory the driver really holds for the process.
KernelUse == Total([o \in live |-> o.size])

\* The memory limit: the driver never holds more than total_mem for it.
KernelWithinLimit == KernelUse <= TotalMem

\* The hook's own ledger behaves like the quota (one call at a time): every
\* change of alloc_mem is a grant that fits or a release of what was granted.
Ledger == INSTANCE MemQuota WITH Limit <- TotalMem, used <- alloc_mem
LedgerQuota == Ledger!Spec

\* A free credits what was charged: memory the driver holds, with no call about
\* it in progress, is what free_heap_page finds under its handle, with its own
\* size, although other threads add and remove entries, a device's free leaves
\* the entries of its memory behind and their handles are used again.
HeapListFaithful ==
  \A o \in live :
    /\ o.op \in MemoryOps
    /\ \A t \in InFlight : req[t].h # o.h
    => LET n == FindEntry(heap_mem_list, o.h)
       IN  n # 0 /\ heap_mem_list[n].size = o.size

\* Lookups in rm_mem_list are right: a device or subdevice the driver holds,
\* with no call about it in progress, is found with the GPU it is really on,
\* in spite of refused allocations, leftover entries and reused handles.
DeviceMapFaithful ==
  \A o \in live :
    /\ o.op \in {"rm_device", "rm_subdevice"}
    /\ \A t \in InFlight : req[t].h # o.h
    => DeviceOf(o.h) = o.dev

\* Calls keep returning: while calls are in progress some call returns, as long
\* as malloc succeeds (a failed malloc in ChargeNoMemory leaves the mutex
\* locked, and every later handler waits for ever).
SomeReturn == \E t \in Threads : pc[t] # "idle" /\ pc'[t] = "idle"
SystemProgress == []<><<SomeReturn>>_vars \/ <>[](InFlight = {})

=============================================================================
