# Verification of nv-resource-controller

nv-resource-controller is a preloaded library (`cuda_hook`) that limits the GPU
memory and the SM utilisation of the processes of a container, and a daemon
(`server_monitor`) that steers the utilisation. This directory holds TLA+ models
of its logic, the TLC configurations that check them on small instances and
TLAPS proofs of the properties that hold for every instance. Source paths below
are relative to the repository's root (`src/ioctl_hook.c`, `include/hook.h`).

## 1. Inventory

| Component | State | Operations | Interacts with |
|---|---|---|---|
| ioctl interposer and memory ledger (`src/ioctl_hook.c`, `ioctl` in `src/dlfcn.c`) | `gpu_device`: `mu`, `alloc_mem`, `heap_mem_list`, `rm_mem_list`; `fb_info->free_mem` | `ioctl`, `pre_ioctl`, `post_ioctl` and their handlers | the application's threads; the NVIDIA resource manager through the real `ioctl`; `fb_info` |
| shared `fb_info` (`_init_device_prop`, `__get_fb_info`) | `total_mem`, `free_mem`, `pid` in `/dev/shm` | initialise or take over, charge, credit, report | every process on the GPU; only a process-local mutex |
| shared memory creation (`create_shm_addr` in `src/util.c`) | the segment, its size and contents | open, create exclusively, truncate, map, clear | hook and monitor |
| token handshake and rate limit (`_init_device_prop`, `token_post`, `rate_limit`) | `token_attr_t` in `/dev/shm`; `gpu_device.tokens`; locals of `token_post` | start, wait for the monitor, post tokens, take a token | `server_monitor`, launching threads |
| `server_monitor` (`src/server_monitor.c`) | the attributes in the segment, its own limit | `init_attr`, `watch_dog`, `delta_change`, `get_gpu_util` | NVML; `token_post` through `changed`, `ready`, `add_per_cycle`, `avg_launchs` |
| rate control arithmetic (`delta_change`, `init_attr`) | none | next `add_per_cycle` from utilisation and launch averages | |
| load-time initialisation (`src/entry.c`, `init_device_prop`, `init`) | `once` flags, `mem_limited`, `core_limited` | constructor, `pthread_once` | every intercepted call |
| symbol hooking (`src/dlfcn.c`, `src/cuda_hook.c`, `include/cuda_entry.h`) | table of hooked entries with `real_pfn` | `dlsym`, `cuGetProcAddress`, `cuGetProcAddress_v2`, hooked launches | the application's symbol lookups |
| symbol scan (`src/entry.c`, `get_next_symbol`) | `__dlfcn_data`: the real functions | walk the link map and the dynamic sections | dynamic loader |
| environment and cgroup parsing (`src/env.c`, `src/util.c`) | none | limits and cgroup id from text | load-time initialisation |
| intrusive list (`include/list.h`, vendored) | links | `list_add`, `list_del`, `list_for_each` | both ledgers |
| sleep with retry (`wait_duration` in `src/util.c`) | none | `nanosleep`, again after EINTR | `token_post`, `watch_dog` |
| logging (`include/hook.h`) | none | print; FATAL ends the process | |

Hard behaviours, and what makes each component correct:

* **Check, call, charge.** `pre_ioctl` compares under the mutex, the real
  `ioctl` runs without it, `post_ioctl` charges under it again. Correct means:
  handlers exclude each other, no update of the ledger is lost, the ledger is
  the sum of its list, and the driver never holds more than `CUDA_MEM_LIMIT`.
* **Frees by handle.** A free names only a handle and its parent; the hook must
  find the right entry although entries of refused allocations, of subdevices
  and of cascaded frees are left in the lists and handles are reused.
* **Handshake through shared memory.** A process waits for a semaphore that the
  monitor posts once. Correct means: nobody works with parameters that are not
  set yet, and nobody waits for ever, with the monitor killed and restarted.
* **A one-bit mailbox.** `changed` tells `token_post` to read a new rate.
  Correct means: no rate is lost and a waiting launch gets a token.
* **Integer results of float quotients** with zero divisors: a control step
  must go toward the limit.
* **Several processes** share `free_mem` without a common lock, in a segment that
  is never unlinked; a process may die with memory charged, or half-way through
  the creation of the segment. Correct means: together they keep to the limit,
  and a restart gives back what was lost.
* **Calls before the constructor.** Other libraries and threads call `ioctl` and
  `dlsym` while this library is being initialised, partly inside `pthread_once` and
  partly outside. Correct means: nothing is used before it exists, and no two
  threads wait for each other.
* **Symbols.** What a hook reaches depends on every lookup made before it.
  Correct means: a hook reaches what was asked for, and no chain of lookups
  ends at a launch function that is not limited.
* **Whose utilisation?** The monitor knows its processes by a piece of a line of
  `/proc/<pid>/cgroup`, read after the sample was taken. Correct means: it never
  acts on another container's sample and does not overlook its own.

`PROJECT.json` lists the hazards line by line with the properties that cover them.

## 2. Plan

Done, in this order: `MemQuota`, `IoctlHook`, `RateControl`, `TokenControl`, `FbShare`,
`LoadInit`, `SymbolScan`, `NextSymbol`, `SymbolHook`, `CgroupId`, `Monitor`, `ListSeq`,
`ListHead`, `ByteCount`. The ledger of `IoctlHook` refines `MemQuota`; `FbShare` and
`IoctlHook` add up bytes with `ByteCount`; `SymbolHook` composes `SymbolScan` and `NextSymbol`; `Monitor`
composes `CgroupId` and `RateControl`, and `TokenControl` uses `RateControl`, too;
`ListHead` refines `ListSeq`. Proofs: `IoctlHookProofs`, `TokenControlProofs`,
`LoadInitProofs`, `FbShareProofs`, `MonitorProofs`, `SymbolHookProofs`, `ListHeadProofs`, and
`ByteCountProofs`, the lemmas about sums that two of them use.

Every safety property a passing run checks, and every refinement, is also proved.
What is left to TLC alone is liveness.

## 3. Modules and their correspondence with the code

**`MemQuota`** is the abstract specification of a memory limit: `used` never
exceeds `Limit`; a grant fits, a release gives back what was granted.

**`ByteCount`** is the sum of a function's values, counted as the elements of a
set. A fold gives the same number, but only a cardinality can be reasoned about
with the library's theorems.

**`IoctlHook`** is one process. Variables carry the names of the code
(`free_mem`, `alloc_mem`, `heap_mem_list`, `rm_mem_list`, `mu`); `pc` is a thread's
place in `ioctl()`, `req` its `*pApi`, `reg` the loaded value of the `+=`/`-=` in
progress, `live` the resource manager's objects (external).

| Action | Code |
|---|---|
| `Call` | `ioctl` up to `pre_ioctl` |
| `PreSkip`, `PreAdmit`, `PreDeny` | `pre_vid_heap_alloc`, `pre_rm_alloc` |
| `KernelError`, `KernelRefuse`, `KernelAlloc`, `KernelFree`, `KernelOther` | the real `ioctl`: nonzero result, refused status, success |
| `PostReturn`, `PostLock` | early returns of the post handlers, `pthread_mutex_lock` |
| `ChargeBegin`, `ChargeEnd`, `ChargeNoMemory` | `post_vid_heap_alloc`, `post_memory_rm_alloc` |
| `CreditBegin`, `CreditEnd`, `CreditNone` | `post_rm_free`, `free_heap_page` |
| `FreeDevice` | `free_device_page` |
| `AddDevice`, `AddSubdevice` | `post_device_rm_alloc`, `post_ctrl_rm_alloc` |
| `ControlLookup` | `post_rm_control` and its two handlers |

The updates of `free_mem` are split into load and store so that mutual exclusion
matters; the other handlers touch the state only under the mutex and are one
step each. `EntryAfterLoop` models what `entry` is after a
`list_for_each` without a match: the last entry, not NULL. `size_t` arithmetic
wraps at `SizeMod`. `ChargeNoMemory` leaves the mutex locked, as the
`goto finish` in both charge handlers does. Calls on other devices or before
`mem_limited` is set bypass the hook and are not modelled here.

The caller is the CUDA driver library; `Callable` states what it is taken to
respect: new handles are fresh, parents exist and their creating call has
returned, nothing is freed while another call uses it. The resource manager is
modelled from how the hook uses it: it may refuse or fail anything, it may
round a size up to the alignment, and freeing an object frees what is below it.
That it grants no more than the aligned size is an assumption: the hook charges
whatever size it finds in the reply and does not compare it with what it checked.

**`RateControl`** holds the arithmetic of `delta_change` and `init_attr` as
operators. Float quotients are exact rationals; where the exact value is an
integer, rounding of the two divisions can leave the truncated result one
short, so `DeltaCycle` is a set. A zero divisor gives infinity or NaN, which x86
converts to `INT_MIN` and the code then to 1. `mod_times` is folded back once it
only matters modulo `SampleTicks`.

**`TokenControl`** is the monitor and the processes of one container over one
zeroed `token_attr_t`.

| Action | Code |
|---|---|
| `MonStart`, `InitParams`, `InitInited`, `InitPost`, `InitResize`, `Notify` | `main`, `watch_dog`, `init_attr` in the order of its stores |
| `Watch`, `ReadCur`, `ReadLast`, `Change`, `Notify` | one turn of the loop, `delta_change` |
| `MonKill` | the monitor dies or `watch_dog` returns; `MonStart` restarts it, maybe with another limit |
| `SemInit`, `CheckInited`, `SemWait`, `TokensInit` | core-limit part of `_init_device_prop` |
| `LoadChanged` ... `BumpIndex` | one turn of `token_post` |
| `LaunchCall`, `TakeToken`, `CountLaunch` | hooked launch, `rate_limit` |

The uninitialised `params.add_per_cycle` of `token_post` is any value of
`Garbage`. The loop of `sem_post` calls is one step. `wait_time` is only
observed as 0 or not, and is set together with `core_limit`. Both `sem_wait` loops
retry on EINTR, which is a stuttering step. One thread per process launches.
`PostTokens` saturates at `SemMax` as `sem_post` does.

**`FbShare`** is several processes over the `fb_info` segment of one GPU. Where
`IoctlHook` has the threads of a process, here a process makes one call at a
time. `world` is the deployment (who there is, whether starts and calls
overlap, whether system calls fail, where processes die); it never changes.

| Action | Code |
|---|---|
| `Start`, `Die` | a process begins, dies at any of `crashAt` |
| `OpenCreate`, `OpenExisting`, `Truncate`, `Map`, `Clear` | `create_shm_addr`, call by call |
| `BusError` | access to a segment of size 0 |
| `InitFails`, `QueryFails` | `create_shm_addr` returns NULL, or `MAP_FAILED`, which the callers take for an address |
| `CheckPid`, `Lstat`, `StoreTotal`, `StoreFree`, `StorePid` | the memory part of `_init_device_prop` |
| `Alloc`, `KernelDoes`, `KernelRefuses`, `LoadFree`, `StoreFreeMem`, `Free` | check, real `ioctl`, charge and credit as load and store of `free_mem` |
| `Query`, `QueryPid`, `QueryTotal`, `QueryReturn` | `__get_fb_info` and the reply to FB_GET_INFO |

`leaked` is a history variable: what members had charged when they died next
to others. The segment is mapped by the observers, too, who are limited on
another GPU and only ask.

**`LoadInit`** is the threads of one process from the loading of the library on.
`env` says which limits are set and which threads make calls before the
constructor returns; it never changes.

| Action | Code |
|---|---|
| `Constructor` | the loader calls `init()`, outside `pthread_once` |
| `Call`, `Enter`, `DlOnce` | `ioctl` and `dlsym`: the test of the pointer, `pthread_once(&once, init)` |
| `Scan`, `GpuOnce`, `InitReturns` | `init()`, `init_device_prop` |
| `MemLimited` ... `StartTokenPost`, `Exit` | `_init_device_prop`, one step per store; `exit(-1)` |
| `DlsymBody`, `IoctlPre`, `IoctlKernel`, `IoctlPost` | the rest of `dlsym` and `ioctl`, by what of `gpu_device` they use |
| `LaunchAttr`, `LaunchLimited`, `LaunchToken`, `LaunchCount` | `rate_limit`, in the order of its reads |
| `MonitorPosts` | `sem_post(&attr->ready)`; `TokenControl` has the handshake |

A call that uses a NULL pointer, an uninitialised list or semaphore goes to
`"fault"`. `get_mem_limit` and `get_core_limit` are reduced to whether they find a
well-formed value.

**`SymbolHook`** is a process that finds functions. `Scan` is one call of
`retrieve_symbols` by `dl_iterate_phdr`; **`SymbolScan`** is that function over an
object's dynamic section: its loop reads the symbols at each `SYMTAB` entry that
has a `HASH` before it, and faults there if it has no `STRTAB` before it. `Dlsym`, `DlsymNext` and `GetProcAddress`
are the application's lookups through `dlsym`, `dlsym(RTLD_NEXT, ...)` and the two
`cuGetProcAddress` (whose `cudaVersion` is passed on unread); **`NextSymbol`** is
`get_next_symbol` over the link map (a `dlopen` that fails there is logged as FATAL,
which ends the process). `Load`
and `Unload` are the driver library's; `dl_iterate_phdr` keeps the loader's lock, so
nothing is unloaded between two objects of a scan. `real_pfn` is the table; `held` are the
pointers the application has, with how it got them. `Target` is
`CUDA_ENTRY_CALL`. `BUG_ON` ends the process, so the action is not enabled.

**`Monitor`** is the loop of `watch_dog` on a segment `init_attr` has set up:
`Poll`, `SkipOld`, `Compare` are `get_gpu_util`, `Correct` is `delta_change`, `NoChange`
a turn that ends without one, `PickUp` the `token_post` of a process. `Exit` is the
end of a process at any point. `world.arg` is the monitor's second argument,
`MonitorId` what `main` keeps of it. **`CgroupId`** is `get_cgroup_id`: where
the id starts and ends in a buffer that `getline` allocated and may have used
before. It is the one place where text is modelled as characters, because
its boundaries are what decides. The two launch averages are any pair of
`world.averages`; `TokenControl` has how they come about.

**`ListHead`** is `list.h` on `next` and `prev` pointers, one action per routine
and one per turn of a loop that removes what it visits. `Path` is where a loop is at
each turn, `Visited` the nodes until it is back at its head; `undef` are the heads whose
comment asks for a new initialisation. **`ListSeq`** is the same on sequences, which is
what `IoctlHook` uses; `Lists` is the refinement mapping.

`*Proofs` modules hold the theorems; `MC*` modules hold the sets TLC needs. Each
definition commented `Mutant:` is a plausible bug, placed before the definition
it replaces; no specification uses it. They show that each property
would notice.

## 4. Runs

| Run | Checks | Instance and what it shows |
|---|---|---|
| `ioctl_ledger` | `TypeOK`, `MutualExclusion`, `LedgerMatchesList`, `Conservation` | two threads, limit 2, sizes rounded 1 to 2, `size_t` of 2 bits, subdevices, control calls, failing malloc. The race overdraws the ledger, `free_mem` wraps, and the ledger is still consistent |
| `ioctl_quota` | `ChargeFits`, `KernelWithinLimit`, `HeapListFaithful`, `LedgerQuota` | one thread, aligned memory of both interfaces keyed by its handle. No charge wraps, a free finds the entry of its own memory although a device's free leaves entries behind and handles are used again, the ledger refines `MemQuota`, and what the driver holds stays within the limit |
| `ioctl_devices` | `DeviceMapFaithful`, `SystemProgress` | two threads, two GPUs, both minors, untracked objects, room for leftover entries. Lookups find the right GPU, and under fairness calls keep returning when malloc succeeds; deadlock is checked |
| `fb_share` | `TypeOK`, `KernelWithinLimit`, `RestartExact`, `MemberSeesLimit` | two deployments (`MCFbShare`). Serial: three members, failing system calls, deaths anywhere. Shared: two members and an observer that overlap, on a segment left by a dead process |
| `load_init` | `NoFault`, `OnceMeansReady`, `CallsReturn` | two threads, all environments, early calls by the loader's thread or by both, failing calls, fairness |
| `symbols` | `DispatchFaithful`, `NoBypass`, `FirstDefinition`, `FindsNext` | three kinds of processes (`MCSymbolHook`): all pairs of libraries out of 84, scanned twice; all definitions and dependencies of link maps of five objects; lookups over two loads of the driver library with both stream variants |
| `monitor` | `TypeOK`, `UtilOfContainer`, `PrefixFound`, `TowardLimit`, `Damped` | three processes in any of four containers, a monitor started with any of the ids or the beginning of one, two samples a poll; utilisations below, at and above two limits, averages 0 to 9, cycles up to 8 |
| `token_live` | `TypeOK`, `InitBeforeUse`, `NoLostWakeup`, `RateDelivered`, `ClientStarts`, `LaunchProceeds` | one process, a monitor killed anywhere but between `inited = 1` and `sem_post`, fairness |
| `list_head` | `Mirrored`, `TestsAgree`, `WalkVisitsAll`, `RefinesSequences`, `AsPromised` | two heads, three entries, every routine of `list.h` |
| `ioctl_race` | `KernelWithinLimit` (violated) | two threads pass the check with the same free bytes |
| `ioctl_misfree` | `KernelWithinLimit` (violated) | freeing a subdevice credits memory that is still held |
| `token_ready` | `ClientStarts` (violated) | two processes re-initialise `ready`, which is posted once |

**Why the bounds are enough.** The handlers hold at most one register each and
treat handles, threads and processes alike, so two of each give every pairwise
interleaving; three handles give a device with two objects, reuse of a handle and
an entry that is not the one a free is about. A `size_t` of 2 or 3 bits
wraps after a few bytes. `MaxEntries` bounds both lists, `MaxCycle` and
`MaxAverage` the rate and its averages, `SemMax` the semaphores, `MaxKills` the
restarts, `MaxObjects` what a process holds in `FbShare`, `MaxHeld` the pointers
an application keeps (a pointer and the one just looked up: a lookup changes
one entry of the table, a pointer depends on one), `MaxSamples` what NVML
returns. Two loads of the driver library make a stale address; two scans a
changed pointer. In `monitor`, `MaxIdLen` is 4 and ids have 2 to 5 characters: shorter than
what is compared, as long, as long as the buffer, and longer; two begin alike. A run over several kinds of initial states (`Worlds`, `Envs`) varies in each
kind what the properties about it depend on. Runs say `CHECK_DEADLOCK FALSE` where the
system may really stop: `ioctl_ledger` (mutex left locked by a failed malloc),
`load_init` (`exit(-1)`), `symbols` (a scan that is over or has faulted).

**Restrictions that matter.** Each stands for a hazard in `PROJECT.json`; without
it the property is false of this code.

* `KernelWithinLimit` of `IoctlHook`: one call at a time, alignments above 0,
  `owner` equal to the handle, no subdevices. `HeapListFaithful`: the same, but any
  number of calls at a time (`MemoryFound`), and mallocs that succeed.
  `DeviceMapFaithful`: clients whose only children are devices.
* `KernelWithinLimit` and `RestartExact` of `FbShare`: starts and calls of different processes do not overlap, and the process recorded in
  `fb_info->pid` outlives the others. `MemberSeesLimit`: the segment's creator is
  past its `memset`. A pid is not reused while it is recorded.
* `NoFault`: only the loader's thread calls before the constructor returns.
* `DispatchFaithful`: a hook got from `cuGetProcAddress` may reach the other
  stream variant, and after a reload of the driver library anything; `NoBypass`
  excepts `RTLD_NEXT`; `FindsNext` asks for load addresses that fall along the link
  map, dependencies on later objects, and a caller loaded after the hook library.
* `PrefixFound`: the monitor is given the first 15 characters of an id; it is false
  of the id itself (below). `UtilOfContainer` takes containers whose ids begin
  with the same 15 characters for one. Both: `IdsReadable`, an argument without a
  newline, and no "/" in what an earlier, longer line left behind the end of this
  one, because `get_cgroup_id` searches the whole buffer of `getline` (`src/util.c:102`).
* `NoLostWakeup`, `RateDelivered` and the liveness of `TokenControl`: a process
  alone in its container; the first and the last also a monitor that does not
  die between `inited = 1` and `sem_post`.

**Disagreements met while modelling**, besides the three violation runs:

* `README.md:27` and `src/server_monitor.c:330` ask for the `<cgroup id>` as the
  monitor's argument. With an id of 16 characters or more (the one in the comment at
  `src/util.c:99` has 64) `strncpy` (`src/server_monitor.c:337`) fills the buffer and
  leaves no NUL, while `get_cgroup_id` gives at most 15 characters: `strcmp` at line 238
  never succeeds, no utilisation is ever found, the rate stays what `init_attr` set.
  `FullIdIsMissed` proves it for every such id; in run `monitor` the longer ids are
  among the arguments. The first 15 characters work (`PrefixFound`). An id of
  fewer than 15 characters is not found either: `getline` keeps the newline and
  `get_cgroup_id` copies it.
* `src/ioctl_hook.c:398` tests `readlink(...) == 0`, which is never true; the
  comment above it says the recorded process's `free_mem` is used. FB_GET_INFO
  therefore answers HEAP_FREE with the total.
* `CUDA_CORE_LIMIT` without `CUDA_MEM_LIMIT` limits nothing: `_init_device_prop`
  returns before it looks (`src/ioctl_hook.c:676`).
* The process names its token segment by the whole cgroup id and its newline,
  the monitor by at most 16 characters of its argument: for the ids in the
  comment of `get_cgroup_id` they open different segments.
* When the process in `fb_info->pid` is gone the next one resets `free_mem`
  although others hold memory; and with two processes in calls at once updates
  of `free_mem` are lost. Either way the limit is exceeded.
* Memory requested with alignment 0 is outside the limit; memory of another GPU
  counts against it.
* With two processes in a container the first one to see `changed` clears it
  and the other keeps its rate.
* The comment in `get_next_symbol` ("we are at linkmap which calls dlsym") holds
  only if load addresses fall along the link map.

**Fairness.** `IoctlHook`: weak fairness of each thread's steps inside `ioctl()`,
not of calls: the kernel schedules runnable threads and the real `ioctl`
returns. No fairness of the mutex is assumed, hence progress of the system and
not of each thread. `TokenControl`: weak fairness of starting the monitor (the
repository's README asks for it), of its own steps, of a process's
initialisation, of `token_post` and of `rate_limit`; process starts, launches and
NVML samples are not fair. One thread launches per process, so a weakly fair
semaphore suffices. `LoadInit`: weak fairness of each thread's steps inside a call
or the constructor, and of the monitor's post, which stands for a monitor that
is started as the repository's README asks; calls are not fair. `pthread_once` wakes
all that wait, so weak fairness suffices.

## 5. Proofs

TLAPS checks every theorem for all values of the constants that satisfy the named
assumptions `ConstantsOK`, `RateConstantsOK`, `TokenConstantsOK`, `LoadConstantsOK`,
`FbConstantsOK`, `MonitorConstantsOK`, `CgroupConstantsOK`, `SymbolConstantsOK` and
`ListConstantsOK`. They state types, that `SizeMod` exceeds the limit, and that heads,
entries, NULL and the poison values differ, with finitely many entries; TLC evaluates them in the runs.
What a theorem needs beyond them is an `ASSUME` in its statement, and is satisfied
by the run that checks its property.

**One process: `IoctlHookProofs`**

* `TypeCorrect` (`TypeOK`), `Exclusion` (`MutualExclusion`), `NothingLost`
  (`Conservation`), from
  `IndInv == TypeOK /\ MutualExclusion /\ StoreOK /\ Conservation`. `Conservation` is not
  inductive: a store writes a value computed from a register. `StoreOK` says the
  register still equals `free_mem`, which holds because of the mutex; the
  arithmetic is `MoveKeepsSum`. Typing of a credit needs `LoopEndsInList`: the loop ends
  on an entry of the list.
* `LedgerIsList` (`LedgerMatchesList`), any threads and workload. `LedgerInv` adds the
  state in the middle of a charge, when the entry is in the list and `alloc_mem`
  is not written. That a list changes its sum by the entry that is added or removed
  is `SumCons` and `SumRemove`.
* `OneCallerFits` (`ChargeFits`, at most one thread): `FitInv` carries the pre
  check's answer through the real `ioctl`, whose granted size is at most the size
  checked.
* `OneCallerLedger` (`LedgerQuota`, at most one thread): the ledger refines
  `MemQuota`, because without a second caller nothing wraps (`ExactInv`: the
  equations of `Conservation` and `LedgerMatchesList` hold without `%`).
* `OneCallerLimit` (`KernelWithinLimit`), at most one thread and `TidyWorkload` (aligned memory keyed by its handle, no subdevices, no
  children of a client but devices, mallocs that succeed). The driver holds at
  most what the list says (`UseInv`), give or take the call between the two. That
  needs that a free finds the entry of its own object: each object the driver holds
  has its size in the first entry of its handle (`EntryInv`), in front of whatever a
  cascaded free left. Without either hypothesis the property is false:
  `ioctl_race`, `ioctl_misfree`.
* `MemoryFound` (`HeapListFaithful`, any threads and `TidyWorkload`). `HeapInv` is the
  list's part of that argument without the limit, so it survives the race and
  wraparound: `EntryInv`, that calls keep to the workload (`TidyInv`), and that
  memory being freed has an entry to credit (`ReleaseInv`), so the loop never ends on
  the entry of other memory. That another thread's call is not about the same
  handle is `ApartInv`.
* `DevicesFound` (`DeviceMapFaithful`, any threads, handles and GPUs; no children of a
  client but devices, mallocs that succeed). `DeviceInv` follows an object
  through its call: what is being created (`ComingInv`), what is being freed
  (`GoingInv`: a device keeps its entry until `free_device_page`), the shape of the driver's
  tree (`TreeInv`), and that calls in progress do not name each other's handles
  (`ApartInv`), which is what `Callable` says of the caller.

**Several processes: `FbShareProofs`**

* `FbTypeCorrect` (`TypeOK`) from `FbInv`: with `CallInv` (the object of a call in
  progress exists) and `PointInv` (which points belong to which task).
* `MembersSeeLimit` (`MemberSeesLimit`), if the limit is at least 1 KiB. Below that it is
  false: the reply is in KiB, and for 0 the hook leaves the driver's number.
  `SeenInv`: a recorded pid means a stored total, and a ready member has seen a
  recorded pid.
* `RestartsExact` (`RestartExact`) and `ContainerWithinLimit` (`KernelWithinLimit`)
  in the deployments these properties are about, for
  any number of processes. `SerialInv`: one process is busy at a time (`AloneInv`),
  the recorded process lives if any is ready (`OwnerInv`), and
  `free_mem + charged + leaked` is the limit while one is ready (`BooksInv`, with
  `Between` for a process between the driver and the segment). `KernelBound`
  compares what is held with what is charged.

**Token handshake and monitor: `TokenControlProofs`, `MonitorProofs`**

* `ParametersFirst` (`InitBeforeUse`, any number of processes) from how far `init_attr`
  got (`InitOrder`), `PositiveRate` (no rate below 1 is ever stored) and
  `RescaleIsIdentity` (the rescaling for a new limit changes nothing, because the
  quotient uses the new limit twice). `TokenTypeCorrect` (`TypeOK`) on top of it.
* `WakeupKept` (`NoLostWakeup`) and `RatesArrive` (`RateDelivered`) with at most one
  process, the first also with `"post" \notin KillAt`. `Delivery` is the argument of
  the mailbox: the monitor stores only while the flag is down, the process reads
  only while it is up.
* `NeverAwayFromLimit` (`TowardLimit`) and `StepsDamped` (`Damped`): lemmas about the
  integer arithmetic of `DeltaCycle` and `NewCycle` (`NewCycleStep`, `DeltaChangeStep`) for
  every limit of at least 1, then one step of `Correct`. `MonitorTypeCorrect` (`TypeOK`).
* `UtilIsOfContainer` (`UtilOfContainer`) and `PrefixIsFound` (`PrefixFound`), if
  `IdsReadable`; `FullIdIsMissed`: a monitor whose argument fills its buffer never
  finds a process (first of the disagreements above). `IdCutOut` says what `get_cgroup_id` cuts out of the buffer, for any
  line and any leftover; `MatchIsPrefix` that the comparison succeeds exactly if
  the argument is the first `MaxIdLen - 1` characters of the id; `SearchInv` that no sample passed over was one of a
  running process of the container.

**Loading and symbols: `LoadInitProofs`, `SymbolHookProofs`**

* `OnceReady` (`OnceMeansReady`, any number of threads that call at any time) from
  `OnceInv`: only the thread that holds `gpu_once` is inside `_init_device_prop`
  (`Runner`), at each of its points exactly the fields before it are set (`Staged`),
  and whoever is past `pthread_once` came after it was done (`Returned`, `DlDone`,
  `Via`). It needs no fact about the constructor but that it, too, goes through
  `gpu_once`.
* `OrderlyStart` (`NoFault`) adds `FaultInv`: with one early thread, a thread in the
  body of a call has the loader's own calls or the finished constructor before it,
  so everything the body uses is complete or not asked for. It is inductive for a
  process whose `env.early` is at most the loader; `env` never changes (`EnvStays`).
* `DispatchIsFaithful` (`DispatchFaithful`) and `NoneBypasses` (`NoBypass`), any sequence of
  lookups and loads. `LookupInv` relates the two tables: a hook the application
  holds has filled its entry, one from `dlsym` with the library in place (`HeldInv`), and
  during the first load an entry holds a variant of its own function (`TableInv`).
* `NextIsFound` (`FindsNext`) for every orderly link map: the caller's object is found
  by its address, and what is searched are the objects after it.
* `FirstIsTaken` (`FirstDefinition`), any objects, dynamic sections and symbols:
  `PointerInv` says of each pointer that it is NULL and no definition was met, or
  that it has the first of all, also while a second scan passes.

**The lists: `ListHeadProofs`**

* `LinksAreLists` is the invariant `ListInv == Faithful /\ WalkInv` all the others follow
  from. `Faithful` is `Represents(mem, undef, Lists)`: the links of every head in use are
  a ring (`Linked`: neighbours point at each other, the head before the first and
  behind the last entry), no entry is twice on a list or on two (`Unique`), a head that
  is undefined stands for no entries. `Mirrored` alone is not inductive: a routine
  that changes one list must not touch the ring of another one.
* A routine is taken in three steps. The *effect* lemmas (`AddEffect`, `DelEffect`,
  `CutEffect`, ...) say which links its stores leave changed, nodes that coincide
  included: this is where their order counts. The *ring* lemmas (`InsertedRing`,
  `RemovedRing`, `CutRings`, `JoinedRing`, ...) say that these changes make a ring of the
  new sequence, whatever its length and the position. The *Reps* lemmas do it for all
  lists at once: the other rings are out of reach.
* Following links is a path of any length. `PathOfRing` shows that `Path` goes around a
  ring once (the least turn at which it would not gives a contradiction), `ReadBack`
  that `list_for_each` and `list_for_each_prev` therefore read the sequence and its
  reverse. That a loop is not cut off by `MaxTurns` is a count of injections
  (`ShortList`).
* `BothDirections` (`Mirrored`), `TestsTell` (`TestsAgree`), `ListsAreSequences`
  (`RefinesSequences`) and `RoutinesAsPromised` (`AsPromised`) follow action by action:
  `AddStep`, `DelStep`, `CutStep` and so on give for each action the represented
  sequences after it and the step of `ListSeq` it is.
* `LoopsAreSafe` (`WalkVisitsAll`) from `WalkInv`, which says of the loop in progress
  (`InStep`) that `n` is the link of `pos`, and that what is still due is on the list of
  the head, each entry linked to the next one due (`StillDue`). The body may only
  change links to the entry of the turn (`DelKeeps`, `AddKeeps`), and no entry still due
  has one (`DueLater`); with `list_for_each` in place of the safe loop this is what fails.

Sums are cardinalities (`ByteCount`), so no induction is needed for them.
Minima of sets of naturals come from the library's `WFMin` with
`NatLessThanWellFounded` (`Least`, `MinIsLeast`), whose parameter is a set.

Only model-checked: liveness (`SystemProgress`, `ClientStarts`, `LaunchProceeds`,
`CallsReturn`), which needs fairness and ENABLED.

## 6. Not modelled

* Logging, and `exit(-1)` of its level FATAL where a model ends a process anyway or
  no property follows the process (`get_next_symbol`).
* `iec_to_bytes` and the `sscanf` of `get_limit`: floating-point and library parsing
  of one value at start. `LoadInit` has their outcomes.
* `get_device_number`: it reads `st_rdev`. Calls on other devices bypass the hook.
* `init_handle`: five symbol lookups in NVML that end the process if one fails;
  its `handler` is not initialised when `nvmlInit` is missing.
* `wait_duration`: both callers pass `tv_sec` 0, for which it sleeps what is left.
* Two monitors for one container: nothing in the repository starts a second
  one, and both would write the same parameters.
* A cgroup file without a `devices` line (cgroup v2): `get_cgroup_id` fails, the process
  ends with `exit(-1)` (`Exit` of `LoadInit`) and the monitor finds no sample.
* `fb_share_data` in `__get_fb_info` is not initialised: when `create_shm_addr` fails,
  what is unmapped and closed depends on the stack.
* Memory order below single stores: the models interleave stores in program
  order, as x86 does.
