------------------------------ MODULE LoadInit ------------------------------
(***************************************************************************)
(* How the library of one process gets initialised: the constructor init   *)
(* (entry.c), the first call of ioctl() or dlsym() (dlfcn.c) and the body  *)
(* of _init_device_prop (ioctl_hook.c), with the calls that use the result.*)
(*                                                                         *)
(* The loader runs the constructors of the libraries one after the other,  *)
(* so another library may call ioctl() or dlsym(), and start threads that  *)
(* do, before this library's constructor has run: these calls initialise   *)
(* it themselves, through pthread_once, while the constructor calls init() *)
(* directly.                                                               *)
(***************************************************************************)
EXTENDS Integers

CONSTANTS
  Threads,      \* threads of the process
  Loader,       \* the thread that runs the constructors and then main
  Envs,         \* the processes: limits set and well formed, early callers
  MayFail,      \* whether the calls that lead to exit(-1) may fail
  NotRun        \* a pthread_once_t nobody has used

ASSUME LoadConstantsOK ==
  /\ Loader \in Threads
  /\ NotRun \notin Threads \cup {"done"} /\ "done" \notin Threads
  /\ Envs \subseteq [mem : BOOLEAN, core : BOOLEAN, early : SUBSET Threads]
  /\ MayFail \in BOOLEAN

VARIABLES
  env,          \* CUDA_MEM_LIMIT and CUDA_CORE_LIMIT of the process, and the
                \* threads that may make calls before the constructor returns
  found,        \* __dlfcn_data: which of dlsym and ioctl are not NULL
  dl_once,      \* __dlfcn_data.once: NotRun, the thread running it, or "done"
  gpu_once,     \* gpu_device.once
  dev,          \* gpu_device: the flags, and which parts are initialised
  ready,        \* whether the monitor has posted attr->ready
  ctor,         \* the constructor: "pending", "running" or "done"
  hooked,       \* whether the application has the hook of cuLaunchKernel
  pc,           \* where each thread is
  call,         \* the call the thread is in: "ioctl", "dlsym", "launch", "init"
  seen,         \* what the call has read: mem_limited, or a non-NULL attr
  viaOnce       \* whether the call went through pthread_once(&once, init)

vars == <<env, found, dl_once, gpu_once, dev, ready, ctor, hooked, pc, call, seen, viaOnce>>

-----------------------------------------------------------------------------
Calls == {"ioctl", "dlsym", "launch"}

Points == {"idle", "enter", "once", "scan", "scan2", "gpu_once", "mem_env", "fb",
           "lists", "core_env", "sem", "tokens", "attr", "thread", "returns", "body",
           "kernel", "post", "limited", "tokenwait", "count", "fault", "gone"}

TypeOK ==
  /\ env \in [mem : BOOLEAN, core : BOOLEAN, early : SUBSET Threads]
  /\ found \subseteq {"dlsym", "ioctl"}
  /\ dl_once \in Threads \cup {NotRun, "done"}
  /\ gpu_once \in Threads \cup {NotRun, "done"}
  /\ dev \in [mem_limited : BOOLEAN, core_limited : BOOLEAN, fb_info : BOOLEAN,
              lists : BOOLEAN, tokens : BOOLEAN, attr : BOOLEAN]
  /\ ready \in BOOLEAN
  /\ ctor \in {"pending", "running", "done"}
  /\ hooked \in BOOLEAN
  /\ pc \in [Threads -> Points]
  /\ call \in [Threads -> Calls \cup {"init"}]
  /\ seen \in [Threads -> BOOLEAN]
  /\ viaOnce \in [Threads -> BOOLEAN]

Init ==
  /\ env \in Envs
  /\ found = {}
  /\ dl_once = NotRun /\ gpu_once = NotRun
  /\ dev = [mem_limited |-> FALSE, core_limited |-> FALSE, fb_info |-> FALSE,
            lists |-> FALSE, tokens |-> FALSE, attr |-> FALSE]
  /\ ready = FALSE
  /\ ctor = "pending"
  /\ hooked = FALSE
  /\ pc = [t \in Threads |-> "idle"]
  /\ call = [t \in Threads |-> "init"]
  /\ seen = [t \in Threads |-> FALSE]
  /\ viaOnce = [t \in Threads |-> FALSE]

Goto(t, to) == pc' = [pc EXCEPT ![t] = to]

-----------------------------------------------------------------------------
(* Calls and the constructor *)

\* An interposed function is called; a launch needs the hook dlsym returned.
Call(t, c) ==
  /\ pc[t] = "idle"
  /\ t \in env.early \/ ctor = "done"
  /\ c = "launch" => hooked
  /\ call' = [call EXCEPT ![t] = c]
  /\ Goto(t, IF c = "launch" THEN "body" ELSE "enter")
  /\ UNCHANGED <<env, found, dl_once, gpu_once, dev, ready, ctor, hooked, seen, viaOnce>>

\* The loader reaches this library's constructor: init(), not through once.
Constructor(t) ==
  /\ t = Loader
  /\ pc[t] = "idle"
  /\ ctor = "pending"
  /\ ctor' = "running"
  /\ call' = [call EXCEPT ![t] = "init"]
  /\ Goto(t, "scan")
  /\ UNCHANGED <<env, found, dl_once, gpu_once, dev, ready, hooked, seen, viaOnce>>

\* Mutant: the pointer is not tested and the call goes straight on.
EnterUnchecked(t) ==
  /\ pc[t] = "enter"
  /\ Goto(t, "body")
  /\ UNCHANGED <<env, found, dl_once, gpu_once, dev, ready, ctor, hooked, call, seen, viaOnce>>

\* pthread_once only if the pointer the call needs is still NULL.
Enter(t) ==
  /\ pc[t] = "enter"
  /\ Goto(t, IF call[t] \in found THEN "body" ELSE "once")
  /\ UNCHANGED <<env, found, dl_once, gpu_once, dev, ready, ctor, hooked, call, seen, viaOnce>>

\* pthread_once(&__dlfcn_data.once, init): run it, wait, or go on.
DlOnce(t) ==
  /\ pc[t] = "once"
  /\ \/ /\ dl_once = NotRun
        /\ dl_once' = t
        /\ Goto(t, "scan")
        /\ UNCHANGED viaOnce
     \/ /\ dl_once = "done"
        /\ Goto(t, "body")
        /\ viaOnce' = [viaOnce EXCEPT ![t] = TRUE]
        /\ UNCHANGED dl_once
  /\ UNCHANGED <<env, found, gpu_once, dev, ready, ctor, hooked, call, seen>>

-----------------------------------------------------------------------------
(* init() *)

\* dl_iterate_phdr(retrieve_symbols): the pointers are stored one by one, in
\* the order of the libraries; a pointer that is set stays as it is.
Scan(t) ==
  /\ pc[t] \in {"scan", "scan2"}
  /\ IF pc[t] = "scan"
       THEN \E f \in {"dlsym", "ioctl"} : found' = found \cup {f} /\ Goto(t, "scan2")
       ELSE found' = {"dlsym", "ioctl"} /\ Goto(t, "gpu_once")
  /\ UNCHANGED <<env, dl_once, gpu_once, dev, ready, ctor, hooked, call, seen, viaOnce>>

\* Mutant: a thread that finds the initialisation running does not wait.
GpuOnceNoWait(t) ==
  /\ pc[t] = "gpu_once"
  /\ IF gpu_once = NotRun THEN gpu_once' = t /\ Goto(t, "mem_env")
                          ELSE Goto(t, "returns") /\ UNCHANGED gpu_once
  /\ UNCHANGED <<env, found, dl_once, dev, ready, ctor, hooked, call, seen, viaOnce>>

\* init_device_prop: pthread_once(&gpu_device.once, _init_device_prop).
GpuOnce(t) ==
  /\ pc[t] = "gpu_once"
  /\ \/ gpu_once = NotRun /\ gpu_once' = t /\ Goto(t, "mem_env")
     \/ gpu_once = "done" /\ Goto(t, "returns") /\ UNCHANGED gpu_once
  /\ UNCHANGED <<env, found, dl_once, dev, ready, ctor, hooked, call, seen, viaOnce>>

\* Mutant: a hand-written once that is never marked done.
InitReturnsNotDone(t) ==
  /\ pc[t] = "returns"
  /\ IF call[t] = "init" THEN ctor' = "done" /\ Goto(t, "idle")
                         ELSE Goto(t, "body") /\ UNCHANGED ctor
  /\ UNCHANGED <<env, found, dl_once, gpu_once, dev, ready, hooked, call, seen, viaOnce>>

\* init() returns: to the loader, or to the call that ran it through once.
InitReturns(t) ==
  /\ pc[t] = "returns"
  /\ IF call[t] = "init"
       THEN ctor' = "done" /\ Goto(t, "idle") /\ UNCHANGED <<dl_once, viaOnce>>
       ELSE /\ dl_once' = "done"
            /\ viaOnce' = [viaOnce EXCEPT ![t] = TRUE]
            /\ Goto(t, "body")
            /\ UNCHANGED ctor
  /\ UNCHANGED <<env, found, gpu_once, dev, ready, hooked, call, seen>>

-----------------------------------------------------------------------------
(* _init_device_prop *)

\* A statement of it that sets a field of gpu_device and goes on at `to'.
Store(t, from, field, to) ==
  /\ pc[t] = from
  /\ dev' = [dev EXCEPT ![field] = TRUE]
  /\ Goto(t, to)
  /\ UNCHANGED <<env, found, dl_once, gpu_once, ready, ctor, hooked, call, seen, viaOnce>>

\* It returns, early without a limit, and the once is done.
Finish(t, from) ==
  /\ pc[t] = from
  /\ gpu_once' = "done"
  /\ Goto(t, "returns")
  /\ UNCHANGED <<env, found, dl_once, dev, ready, ctor, hooked, call, seen, viaOnce>>

\* Whether get_limit finds the variable and reads "<minor>=<limit>" from it.
get_mem_limit == env.mem
get_core_limit == env.core

\* mem_limited is set before anything it protects exists.
MemLimited(t) ==
  \/ get_mem_limit /\ Store(t, "mem_env", "mem_limited", "fb")
  \/ ~get_mem_limit /\ Finish(t, "mem_env")

\* create_shm_addr and the initialisation of the segment.
FbInfo(t) == Store(t, "fb", "fb_info", "lists")

\* INIT_LIST_HEAD of both lists.
Lists(t) == Store(t, "lists", "lists", "core_env")

\* core_limited is set before attr and tokens exist.
CoreLimited(t) ==
  \/ get_core_limit /\ Store(t, "core_env", "core_limited", "sem")
  \/ ~get_core_limit /\ Finish(t, "core_env")

\* get_cgroup_id, the token segment, and sem_wait for the monitor.
WaitReady(t) ==
  /\ pc[t] = "sem"
  /\ ready
  /\ Goto(t, "tokens")
  /\ UNCHANGED <<env, found, dl_once, gpu_once, dev, ready, ctor, hooked, call, seen, viaOnce>>

\* sem_init(&gpu_device.tokens), gpu_device.attr and the token_post thread.
TokensInit(t) == Store(t, "tokens", "tokens", "attr")
SetAttr(t) == Store(t, "attr", "attr", "thread")
StartTokenPost(t) == Finish(t, "thread")

\* exit(-1) on a failed create_shm_addr, get_cgroup_id, sem_init or sem_wait.
Exit(t) ==
  /\ MayFail
  /\ pc[t] \in {"fb", "sem", "tokens"}
  /\ pc' = [u \in Threads |-> "gone"]
  /\ UNCHANGED <<env, found, dl_once, gpu_once, dev, ready, ctor, hooked, call, seen, viaOnce>>

\* The monitor posts attr->ready (TokenControl has the handshake).
MonitorPosts ==
  /\ ~ready
  /\ ready' = TRUE
  /\ UNCHANGED <<env, found, dl_once, gpu_once, dev, ctor, hooked, pc, call, seen, viaOnce>>

-----------------------------------------------------------------------------
(* The calls themselves *)

\* The call returns.
Return(t) ==
  /\ Goto(t, "idle")
  /\ call' = [call EXCEPT ![t] = "init"]
  /\ seen' = [seen EXCEPT ![t] = FALSE]
  /\ viaOnce' = [viaOnce EXCEPT ![t] = FALSE]

\* A NULL pointer or an uninitialised list or semaphore is used.
Fault(t) == Goto(t, "fault") /\ UNCHANGED <<call, seen, viaOnce>>

\* dlsym: the hook goes to the application.
DlsymBody(t) ==
  /\ pc[t] = "body" /\ call[t] = "dlsym"
  /\ IF "dlsym" \in found THEN hooked' = TRUE /\ Return(t)
                          ELSE Fault(t) /\ UNCHANGED hooked
  /\ UNCHANGED <<env, found, dl_once, gpu_once, dev, ready, ctor>>

\* ioctl before the real one: mem_limited is read, and pre_ioctl reads fb_info
\* if the request is for memory.
IoctlPre(t) ==
  /\ pc[t] = "body" /\ call[t] = "ioctl"
  /\ \E memory \in BOOLEAN :
       IF "ioctl" \notin found \/ (dev.mem_limited /\ memory /\ ~dev.fb_info)
         THEN Fault(t)
         ELSE /\ Goto(t, "kernel")
              /\ seen' = [seen EXCEPT ![t] = dev.mem_limited]
              /\ UNCHANGED <<call, viaOnce>>
  /\ UNCHANGED <<env, found, dl_once, gpu_once, dev, ready, ctor, hooked>>

\* The real ioctl fails or succeeds.
IoctlKernel(t) ==
  /\ pc[t] = "kernel"
  /\ Return(t) \/ (Goto(t, "post") /\ UNCHANGED <<call, seen, viaOnce>>)
  /\ UNCHANGED <<env, found, dl_once, gpu_once, dev, ready, ctor, hooked>>

\* mem_limited is read again; major is still 0, and post_ioctl returns, if it
\* was not set before.  A tracked request uses the lists.
IoctlPost(t) ==
  /\ pc[t] = "post"
  /\ \/ Return(t)
     \/ dev.mem_limited /\ seen[t] /\ ~dev.lists /\ Fault(t)
  /\ UNCHANGED <<env, found, dl_once, gpu_once, dev, ready, ctor, hooked>>

\* rate_limit: attr is read before core_limited.
LaunchAttr(t) ==
  /\ pc[t] = "body" /\ call[t] = "launch"
  /\ seen' = [seen EXCEPT ![t] = dev.attr]
  /\ Goto(t, "limited")
  /\ UNCHANGED <<env, found, dl_once, gpu_once, dev, ready, ctor, hooked, call, viaOnce>>

\* Without core_limited the launch is not limited.
LaunchLimited(t) ==
  /\ pc[t] = "limited"
  /\ IF dev.core_limited THEN Goto(t, "tokenwait") /\ UNCHANGED <<call, seen, viaOnce>>
                         ELSE Return(t)
  /\ UNCHANGED <<env, found, dl_once, gpu_once, dev, ready, ctor, hooked>>

\* sem_wait(&dev->tokens); TokenControl has the tokens.
LaunchToken(t) ==
  /\ pc[t] = "tokenwait"
  /\ IF dev.tokens THEN Goto(t, "count") /\ UNCHANGED <<call, seen, viaOnce>> ELSE Fault(t)
  /\ UNCHANGED <<env, found, dl_once, gpu_once, dev, ready, ctor, hooked>>

\* launch_times is incremented through the pointer read first.
LaunchCount(t) ==
  /\ pc[t] = "count"
  /\ IF seen[t] THEN Return(t) ELSE Fault(t)
  /\ UNCHANGED <<env, found, dl_once, gpu_once, dev, ready, ctor, hooked>>

InitStep(t) ==
  \/ Scan(t) \/ GpuOnce(t) \/ InitReturns(t)
  \/ MemLimited(t) \/ FbInfo(t) \/ Lists(t) \/ CoreLimited(t) \/ WaitReady(t)
  \/ TokensInit(t) \/ SetAttr(t) \/ StartTokenPost(t) \/ Exit(t)

BodyStep(t) ==
  \/ DlsymBody(t) \/ IoctlPre(t) \/ IoctlKernel(t) \/ IoctlPost(t)
  \/ LaunchAttr(t) \/ LaunchLimited(t) \/ LaunchToken(t) \/ LaunchCount(t)

Step(t) == Enter(t) \/ DlOnce(t) \/ InitStep(t) \/ BodyStep(t)

Next ==
  \/ \E t \in Threads : Constructor(t) \/ Step(t) \/ \E c \in Calls : Call(t, c)
  \/ MonitorPosts

Spec == Init /\ [][Next]_vars

\* Threads inside a call or the constructor are scheduled, and the monitor the
\* README asks for does start.
FairSpec == Spec /\ WF_vars(MonitorPosts) /\ \A t \in Threads : WF_vars(Step(t))

-----------------------------------------------------------------------------
(* Properties *)

\* No thread has used a part of gpu_device that was not there.
Faultless == \A t \in Threads : pc[t] # "fault"

\* No call uses a pointer, list or semaphore of gpu_device before it is
\* initialised, in whatever order the constructors of the libraries run, if
\* the other threads start to make calls after the constructor has returned.
NoFault == env.early \subseteq {Loader} => Faultless

\* Everything the limits in the environment ask for is initialised.
Complete ==
  /\ found = {"dlsym", "ioctl"}
  /\ dev = [mem_limited |-> env.mem, core_limited |-> env.mem /\ env.core,
            fb_info |-> env.mem, lists |-> env.mem,
            tokens |-> env.mem /\ env.core, attr |-> env.mem /\ env.core]

\* A call that went through pthread_once(&once, init) finds the initialisation
\* complete, whichever thread ran it: itself, another call, or the constructor,
\* which does not use that once.
OnceMeansReady == \A t \in Threads : viaOnce[t] => Complete

\* Every call and the constructor return (or the process ends): no two threads
\* wait for each other's pthread_once.
CallsReturn == \A t \in Threads : pc[t] # "idle" ~> pc[t] \in {"idle", "gone", "fault"}

=============================================================================
