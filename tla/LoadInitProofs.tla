--------------------------- MODULE LoadInitProofs ---------------------------
(***************************************************************************)
(* Proofs about LoadInit for any number of threads and any environments.   *)
(*                                                                         *)
(* OnceMeansReady says what dl_once = "done" means, but the initialisation *)
(* it speaks of is done under gpu_once, possibly by a constructor that     *)
(* does not take dl_once at all.  The strengthening OnceInv therefore says *)
(* what each stage of _init_device_prop has stored, that only the holder   *)
(* of gpu_once is inside it, and that init() returns after gpu_once is     *)
(* done.                                                                   *)
(***************************************************************************)
EXTENDS LoadInit, TLAPS

Both == {"dlsym", "ioctl"}

Devices ==
  [mem_limited : BOOLEAN, core_limited : BOOLEAN, fb_info : BOOLEAN,
   lists : BOOLEAN, tokens : BOOLEAN, attr : BOOLEAN]

\* The points inside _init_device_prop.
GpuPoints == {"mem_env", "fb", "lists", "core_env", "sem", "tokens", "attr", "thread"}

Dev(mem, fb, lists, core, tokens, attr) ==
  [mem_limited |-> mem, core_limited |-> core, fb_info |-> fb,
   lists |-> lists, tokens |-> tokens, attr |-> attr]

\* Only the thread that runs the once is inside _init_device_prop.
Runner == \A t \in Threads : pc[t] \in GpuPoints => gpu_once = t

\* The scan is over when init_device_prop is reached.
Scanned ==
  \A t \in Threads : pc[t] \in GpuPoints \cup {"gpu_once", "returns"} => found = Both

\* What _init_device_prop has stored when it is at a point.
StageOK(p) ==
  /\ p = "mem_env" => dev = Dev(FALSE, FALSE, FALSE, FALSE, FALSE, FALSE)
  /\ p = "fb" => env.mem /\ dev = Dev(TRUE, FALSE, FALSE, FALSE, FALSE, FALSE)
  /\ p = "lists" => env.mem /\ dev = Dev(TRUE, TRUE, FALSE, FALSE, FALSE, FALSE)
  /\ p = "core_env" => env.mem /\ dev = Dev(TRUE, TRUE, TRUE, FALSE, FALSE, FALSE)
  /\ p \in {"sem", "tokens"} =>
       env.mem /\ env.core /\ dev = Dev(TRUE, TRUE, TRUE, TRUE, FALSE, FALSE)
  /\ p = "attr" => env.mem /\ env.core /\ dev = Dev(TRUE, TRUE, TRUE, TRUE, TRUE, FALSE)
  /\ p = "thread" => env.mem /\ env.core /\ dev = Dev(TRUE, TRUE, TRUE, TRUE, TRUE, TRUE)

Staged == \A t \in Threads : StageOK(pc[t])

Fresh == gpu_once = NotRun => dev = Dev(FALSE, FALSE, FALSE, FALSE, FALSE, FALSE)

DoneComplete == gpu_once = "done" => Complete

Returned == \A t \in Threads : pc[t] = "returns" => gpu_once = "done"

DlDone == dl_once = "done" => gpu_once = "done"

Via == \A t \in Threads : viaOnce[t] => dl_once = "done"

\* The strengthening of OnceMeansReady.
OnceInv ==
  /\ TypeOK
  /\ Runner /\ Scanned /\ Staged /\ Fresh /\ DoneComplete /\ Returned /\ DlDone /\ Via

\* The calls of the other threads wait for the constructor.
Started == ctor # "done" => \A t \in Threads \ {Loader} : pc[t] \in {"idle", "gone"}

\* The points of a call past the once.
BodyPoints == {"body", "kernel", "post", "limited", "tokenwait", "count"}

InitPoints == GpuPoints \cup {"scan2", "gpu_once", "returns"}

BodyReady == \A t \in Threads : pc[t] \in BodyPoints => gpu_once = "done"

CtorReady == ctor = "done" => gpu_once = "done"

HookReady == hooked => gpu_once = "done"

\* A pointer that is set early was set by the loader's own scan.
EarlyFound ==
  found # {} => \/ gpu_once = "done"
                \/ pc[Loader] \in InitPoints
                \/ \A t \in Threads : pc[t] = "gone"

LaunchOK ==
  \A t \in Threads :
    /\ pc[t] \in {"limited", "tokenwait", "count"} => seen[t] = dev.attr
    /\ pc[t] \in {"tokenwait", "count"} => dev.core_limited

\* The strengthening of Faultless.
FaultInv ==
  OnceInv /\ Faultless /\ Started /\ BodyReady /\ CtorReady /\ HookReady /\ EarlyFound /\ LaunchOK

-----------------------------------------------------------------------------
(* Proofs *)

\* No step of the library or of the monitor leaves the types.
LEMMA TypeStep == TypeOK /\ [Next]_vars => TypeOK'
<1> SUFFICES ASSUME TypeOK, [Next]_vars PROVE TypeOK'
  OBVIOUS
<1>1. ASSUME NEW t \in Threads, Constructor(t) PROVE TypeOK'
  <2>1. pc' \in [Threads -> Points]
    BY <1>1 DEF Constructor, Goto, TypeOK, Points
  <2>2. ctor' \in {"pending", "running", "done"}
    BY <1>1 DEF Constructor, Goto, TypeOK
  <2>3. call' \in [Threads -> Calls \cup {"init"}]
    BY <1>1 DEF Constructor, Goto, TypeOK, Calls
  <2> QED
    BY <1>1, <2>1, <2>2, <2>3 DEF Constructor, Goto, TypeOK, Devices
<1>2. ASSUME NEW t \in Threads, Enter(t) PROVE TypeOK'
  <2>1. pc' \in [Threads -> Points]
    BY <1>2 DEF Enter, Goto, TypeOK, Points
  <2> QED
    BY <1>2, <2>1 DEF Enter, Goto, TypeOK, Devices
<1>3. ASSUME NEW t \in Threads, DlOnce(t) PROVE TypeOK'
  <2>1. pc' \in [Threads -> Points]
    BY <1>3 DEF DlOnce, Goto, TypeOK, Points
  <2>2. dl_once' \in Threads \cup {NotRun, "done"}
    BY <1>3 DEF DlOnce, Goto, TypeOK
  <2>3. viaOnce' \in [Threads -> BOOLEAN]
    BY <1>3 DEF DlOnce, Goto, TypeOK
  <2> QED
    BY <1>3, <2>1, <2>2, <2>3 DEF DlOnce, Goto, TypeOK, Devices
<1>4. ASSUME NEW t \in Threads, Scan(t) PROVE TypeOK'
  <2>1. pc' \in [Threads -> Points]
    BY <1>4 DEF Scan, Goto, TypeOK, Points
  <2>2. found' \subseteq {"dlsym", "ioctl"}
    <3>1. \/ \E f \in {"dlsym", "ioctl"} : found' = found \cup {f}
          \/ found' = {"dlsym", "ioctl"}
      BY <1>4 DEF Scan
    <3> QED
      BY <3>1 DEF TypeOK
  <2> QED
    BY <1>4, <2>1, <2>2 DEF Scan, Goto, TypeOK, Devices
<1>5. ASSUME NEW t \in Threads, GpuOnce(t) PROVE TypeOK'
  <2>1. pc' \in [Threads -> Points]
    BY <1>5 DEF GpuOnce, Goto, TypeOK, Points
  <2>2. gpu_once' \in Threads \cup {NotRun, "done"}
    BY <1>5 DEF GpuOnce, Goto, TypeOK
  <2> QED
    BY <1>5, <2>1, <2>2 DEF GpuOnce, Goto, TypeOK, Devices
<1>6. ASSUME NEW t \in Threads, InitReturns(t) PROVE TypeOK'
  <2>1. pc' \in [Threads -> Points]
    BY <1>6 DEF InitReturns, Goto, TypeOK, Points
  <2>2. ctor' \in {"pending", "running", "done"}
    BY <1>6 DEF InitReturns, Goto, TypeOK
  <2>3. dl_once' \in Threads \cup {NotRun, "done"}
    BY <1>6 DEF InitReturns, Goto, TypeOK
  <2>4. viaOnce' \in [Threads -> BOOLEAN]
    BY <1>6 DEF InitReturns, Goto, TypeOK
  <2> QED
    BY <1>6, <2>1, <2>2, <2>3, <2>4 DEF InitReturns, Goto, TypeOK, Devices
<1>7. ASSUME NEW t \in Threads, MemLimited(t) PROVE TypeOK'
  <2>1. pc' \in [Threads -> Points]
    BY <1>7 DEF MemLimited, get_mem_limit, Store, Finish, Goto, TypeOK, Points
  <2>2. dev' \in Devices
    BY <1>7 DEF MemLimited, get_mem_limit, Store, Finish, Goto, TypeOK, Devices
  <2>3. gpu_once' \in Threads \cup {NotRun, "done"}
    BY <1>7 DEF MemLimited, get_mem_limit, Store, Finish, Goto, TypeOK
  <2> QED
    BY <1>7, <2>1, <2>2, <2>3 DEF MemLimited, get_mem_limit, Store, Finish, Goto, TypeOK, Devices
<1>8. ASSUME NEW t \in Threads, FbInfo(t) PROVE TypeOK'
  <2>1. pc' \in [Threads -> Points]
    BY <1>8 DEF FbInfo, Store, Goto, TypeOK, Points
  <2>2. dev' \in Devices
    BY <1>8 DEF FbInfo, Store, Goto, TypeOK, Devices
  <2> QED
    BY <1>8, <2>1, <2>2 DEF FbInfo, Store, Goto, TypeOK, Devices
<1>9. ASSUME NEW t \in Threads, Lists(t) PROVE TypeOK'
  <2>1. pc' \in [Threads -> Points]
    BY <1>9 DEF Lists, Store, Goto, TypeOK, Points
  <2>2. dev' \in Devices
    BY <1>9 DEF Lists, Store, Goto, TypeOK, Devices
  <2> QED
    BY <1>9, <2>1, <2>2 DEF Lists, Store, Goto, TypeOK, Devices
<1>10. ASSUME NEW t \in Threads, CoreLimited(t) PROVE TypeOK'
  <2>1. pc' \in [Threads -> Points]
    BY <1>10 DEF CoreLimited, get_core_limit, Store, Finish, Goto, TypeOK, Points
  <2>2. dev' \in Devices
    BY <1>10 DEF CoreLimited, get_core_limit, Store, Finish, Goto, TypeOK, Devices
  <2>3. gpu_once' \in Threads \cup {NotRun, "done"}
    BY <1>10 DEF CoreLimited, get_core_limit, Store, Finish, Goto, TypeOK
  <2> QED
    BY <1>10, <2>1, <2>2, <2>3 DEF CoreLimited, get_core_limit, Store, Finish, Goto, TypeOK, Devices
<1>11. ASSUME NEW t \in Threads, WaitReady(t) PROVE TypeOK'
  <2>1. pc' \in [Threads -> Points]
    BY <1>11 DEF WaitReady, Goto, TypeOK, Points
  <2> QED
    BY <1>11, <2>1 DEF WaitReady, Goto, TypeOK, Devices
<1>12. ASSUME NEW t \in Threads, TokensInit(t) PROVE TypeOK'
  <2>1. pc' \in [Threads -> Points]
    BY <1>12 DEF TokensInit, Store, Goto, TypeOK, Points
  <2>2. dev' \in Devices
    BY <1>12 DEF TokensInit, Store, Goto, TypeOK, Devices
  <2> QED
    BY <1>12, <2>1, <2>2 DEF TokensInit, Store, Goto, TypeOK, Devices
<1>13. ASSUME NEW t \in Threads, SetAttr(t) PROVE TypeOK'
  <2>1. pc' \in [Threads -> Points]
    BY <1>13 DEF SetAttr, Store, Goto, TypeOK, Points
  <2>2. dev' \in Devices
    BY <1>13 DEF SetAttr, Store, Goto, TypeOK, Devices
  <2> QED
    BY <1>13, <2>1, <2>2 DEF SetAttr, Store, Goto, TypeOK, Devices
<1>14. ASSUME NEW t \in Threads, StartTokenPost(t) PROVE TypeOK'
  <2>1. pc' \in [Threads -> Points]
    BY <1>14 DEF StartTokenPost, Finish, Goto, TypeOK, Points
  <2>2. gpu_once' \in Threads \cup {NotRun, "done"}
    BY <1>14 DEF StartTokenPost, Finish, Goto, TypeOK
  <2> QED
    BY <1>14, <2>1, <2>2 DEF StartTokenPost, Finish, Goto, TypeOK, Devices
<1>15. ASSUME NEW t \in Threads, Exit(t) PROVE TypeOK'
  <2>1. pc' \in [Threads -> Points]
    BY <1>15 DEF Exit, TypeOK, Points
  <2> QED
    BY <1>15, <2>1 DEF Exit, TypeOK, Devices
<1>16. ASSUME NEW t \in Threads, DlsymBody(t) PROVE TypeOK'
  <2>1. pc' \in [Threads -> Points]
    BY <1>16 DEF DlsymBody, Return, Fault, Goto, TypeOK, Points
  <2>2. hooked' \in BOOLEAN
    BY <1>16 DEF DlsymBody, Return, Fault, Goto, TypeOK
  <2>3. call' \in [Threads -> Calls \cup {"init"}]
    BY <1>16 DEF DlsymBody, Return, Fault, Goto, TypeOK, Calls
  <2>4. seen' \in [Threads -> BOOLEAN]
    BY <1>16 DEF DlsymBody, Return, Fault, Goto, TypeOK
  <2>5. viaOnce' \in [Threads -> BOOLEAN]
    BY <1>16 DEF DlsymBody, Return, Fault, Goto, TypeOK
  <2> QED
    BY <1>16, <2>1, <2>2, <2>3, <2>4, <2>5 DEF DlsymBody, Return, Fault, Goto, TypeOK, Devices
<1>17. ASSUME NEW t \in Threads, IoctlPre(t) PROVE TypeOK'
  <2>1. pc' \in [Threads -> Points]
    BY <1>17 DEF IoctlPre, Return, Fault, Goto, TypeOK, Points
  <2>2. seen' \in [Threads -> BOOLEAN]
    BY <1>17 DEF IoctlPre, Return, Fault, Goto, TypeOK
  <2>3. call' \in [Threads -> Calls \cup {"init"}]
    BY <1>17 DEF IoctlPre, Return, Fault, Goto, TypeOK, Calls
  <2>4. viaOnce' \in [Threads -> BOOLEAN]
    BY <1>17 DEF IoctlPre, Return, Fault, Goto, TypeOK
  <2> QED
    BY <1>17, <2>1, <2>2, <2>3, <2>4 DEF IoctlPre, Return, Fault, Goto, TypeOK, Devices
<1>18. ASSUME NEW t \in Threads, IoctlKernel(t) PROVE TypeOK'
  <2>1. pc' \in [Threads -> Points]
    BY <1>18 DEF IoctlKernel, Return, Goto, TypeOK, Points
  <2>2. call' \in [Threads -> Calls \cup {"init"}]
    BY <1>18 DEF IoctlKernel, Return, Goto, TypeOK, Calls
  <2>3. seen' \in [Threads -> BOOLEAN]
    BY <1>18 DEF IoctlKernel, Return, Goto, TypeOK
  <2>4. viaOnce' \in [Threads -> BOOLEAN]
    BY <1>18 DEF IoctlKernel, Return, Goto, TypeOK
  <2> QED
    BY <1>18, <2>1, <2>2, <2>3, <2>4 DEF IoctlKernel, Return, Goto, TypeOK, Devices
<1>19. ASSUME NEW t \in Threads, IoctlPost(t) PROVE TypeOK'
  <2>1. pc' \in [Threads -> Points]
    BY <1>19 DEF IoctlPost, Return, Fault, Goto, TypeOK, Points
  <2>2. call' \in [Threads -> Calls \cup {"init"}]
    BY <1>19 DEF IoctlPost, Return, Fault, Goto, TypeOK, Calls
  <2>3. seen' \in [Threads -> BOOLEAN]
    BY <1>19 DEF IoctlPost, Return, Fault, Goto, TypeOK
  <2>4. viaOnce' \in [Threads -> BOOLEAN]
    BY <1>19 DEF IoctlPost, Return, Fault, Goto, TypeOK
  <2> QED
    BY <1>19, <2>1, <2>2, <2>3, <2>4 DEF IoctlPost, Return, Fault, Goto, TypeOK, Devices
<1>20. ASSUME NEW t \in Threads, LaunchAttr(t) PROVE TypeOK'
  <2>1. pc' \in [Threads -> Points]
    BY <1>20 DEF LaunchAttr, Goto, TypeOK, Points
  <2>2. seen' \in [Threads -> BOOLEAN]
    BY <1>20 DEF LaunchAttr, Goto, TypeOK
  <2> QED
    BY <1>20, <2>1, <2>2 DEF LaunchAttr, Goto, TypeOK, Devices
<1>21. ASSUME NEW t \in Threads, LaunchLimited(t) PROVE TypeOK'
  <2>1. pc' \in [Threads -> Points]
    BY <1>21 DEF LaunchLimited, Return, Goto, TypeOK, Points
  <2>2. call' \in [Threads -> Calls \cup {"init"}]
    BY <1>21 DEF LaunchLimited, Return, Goto, TypeOK, Calls
  <2>3. seen' \in [Threads -> BOOLEAN]
    BY <1>21 DEF LaunchLimited, Return, Goto, TypeOK
  <2>4. viaOnce' \in [Threads -> BOOLEAN]
    BY <1>21 DEF LaunchLimited, Return, Goto, TypeOK
  <2> QED
    BY <1>21, <2>1, <2>2, <2>3, <2>4 DEF LaunchLimited, Return, Goto, TypeOK, Devices
<1>22. ASSUME NEW t \in Threads, LaunchToken(t) PROVE TypeOK'
  <2>1. pc' \in [Threads -> Points]
    BY <1>22 DEF LaunchToken, Fault, Goto, TypeOK, Points
  <2>2. call' \in [Threads -> Calls \cup {"init"}]
    BY <1>22 DEF LaunchToken, Fault, Goto, TypeOK, Calls
  <2>3. seen' \in [Threads -> BOOLEAN]
    BY <1>22 DEF LaunchToken, Fault, Goto, TypeOK
  <2>4. viaOnce' \in [Threads -> BOOLEAN]
    BY <1>22 DEF LaunchToken, Fault, Goto, TypeOK
  <2> QED
    BY <1>22, <2>1, <2>2, <2>3, <2>4 DEF LaunchToken, Fault, Goto, TypeOK, Devices
<1>23. ASSUME NEW t \in Threads, LaunchCount(t) PROVE TypeOK'
  <2>1. pc' \in [Threads -> Points]
    BY <1>23 DEF LaunchCount, Return, Fault, Goto, TypeOK, Points
  <2>2. call' \in [Threads -> Calls \cup {"init"}]
    BY <1>23 DEF LaunchCount, Return, Fault, Goto, TypeOK, Calls
  <2>3. seen' \in [Threads -> BOOLEAN]
    BY <1>23 DEF LaunchCount, Return, Fault, Goto, TypeOK
  <2>4. viaOnce' \in [Threads -> BOOLEAN]
    BY <1>23 DEF LaunchCount, Return, Fault, Goto, TypeOK
  <2> QED
    BY <1>23, <2>1, <2>2, <2>3, <2>4 DEF LaunchCount, Return, Fault, Goto, TypeOK, Devices
<1>24. ASSUME NEW t \in Threads, NEW c \in Calls, Call(t, c) PROVE TypeOK'
  BY <1>24 DEF Call, Goto, TypeOK, Points, Calls
<1>25. CASE MonitorPosts
  BY <1>25 DEF MonitorPosts, TypeOK
<1>26. CASE UNCHANGED vars
  BY <1>26 DEF vars, TypeOK
<1> QED
  BY <1>1, <1>2, <1>3, <1>4, <1>5, <1>6, <1>7, <1>8, <1>9, <1>10, <1>11, <1>12,
     <1>13, <1>14, <1>15, <1>16, <1>17, <1>18, <1>19, <1>20, <1>21, <1>22, <1>23, <1>24,
     <1>25, <1>26
  DEF Next, Step, InitStep, BodyStep

\* The process starts with typed state.
LEMMA InitTypes == ASSUME Init PROVE TypeOK
<1>1. env \in [mem : BOOLEAN, core : BOOLEAN, early : SUBSET Threads]
  BY LoadConstantsOK DEF Init
<1>2. dev \in Devices
  BY DEF Init, Devices
<1>3. /\ found \subseteq {"dlsym", "ioctl"}
      /\ dl_once = NotRun /\ gpu_once = NotRun
      /\ ready \in BOOLEAN /\ hooked \in BOOLEAN
      /\ ctor \in {"pending", "running", "done"}
  BY DEF Init
<1>4. /\ pc \in [Threads -> Points]
      /\ call \in [Threads -> Calls \cup {"init"}]
      /\ seen \in [Threads -> BOOLEAN]
      /\ viaOnce \in [Threads -> BOOLEAN]
  BY DEF Init, Points
<1> QED
  BY <1>1, <1>2, <1>3, <1>4 DEF TypeOK, Devices

\* A step of thread t that initialises nothing and does not enter or leave
\* the initialisation.
Quiet(t) ==
  /\ UNCHANGED <<env, found, dl_once, gpu_once, dev>>
  /\ pc[t] \notin GpuPoints
  /\ \E q \in Points \ (GpuPoints \cup {"gpu_once", "returns"}) : pc' = [pc EXCEPT ![t] = q]
  /\ viaOnce' = viaOnce \/ viaOnce' = [viaOnce EXCEPT ![t] = FALSE]

\* Such a step keeps OnceInv.
LEMMA QuietKeepsOnce ==
  ASSUME OnceInv, TypeOK', NEW t \in Threads, Quiet(t)
  PROVE  OnceInv'
<1>1. PICK q \in Points \ (GpuPoints \cup {"gpu_once", "returns"}) : pc' = [pc EXCEPT ![t] = q]
  BY DEF Quiet
<1>2. \A u \in Threads : pc'[u] = pc[u] \/ pc'[u] = q
  BY <1>1 DEF OnceInv, TypeOK
<1>3. \A u \in Threads : viaOnce'[u] => viaOnce[u]
  BY DEF Quiet, OnceInv, TypeOK
<1>4. UNCHANGED <<env, found, dl_once, gpu_once, dev>>
  BY DEF Quiet
<1>5. Runner' /\ Scanned' /\ Returned'
  BY <1>1, <1>2, <1>4 DEF OnceInv, Runner, Scanned, Returned, GpuPoints
<1>6. Staged'
  BY <1>1, <1>2, <1>4 DEF OnceInv, Staged, StageOK, GpuPoints, Dev
<1>7. Fresh' /\ DoneComplete' /\ DlDone' /\ Via'
  BY <1>3, <1>4 DEF OnceInv, Fresh, DoneComplete, Complete, DlDone, Via, Dev
<1> QED
  BY <1>5, <1>6, <1>7 DEF OnceInv

\* The constructor's start, the entry of a call and its body are such steps.
LEMMA QuietActions ==
  ASSUME TypeOK, NEW t \in Threads,
         \/ Constructor(t) \/ Enter(t) \/ BodyStep(t)
         \/ \E c \in Calls : Call(t, c)
  PROVE  Quiet(t)
<1> USE DEF Quiet, TypeOK, Points, GpuPoints, Goto
<1>1. CASE Constructor(t)
  BY <1>1 DEF Constructor
<1>2. CASE Enter(t)
  BY <1>2 DEF Enter
<1>3. CASE DlsymBody(t)
  BY <1>3 DEF DlsymBody, Return, Fault
<1>4. CASE IoctlPre(t)
  BY <1>4 DEF IoctlPre, Fault
<1>5. CASE IoctlKernel(t)
  BY <1>5 DEF IoctlKernel, Return
<1>6. CASE IoctlPost(t)
  BY <1>6 DEF IoctlPost, Return, Fault
<1>7. CASE LaunchAttr(t)
  BY <1>7 DEF LaunchAttr
<1>8. CASE LaunchLimited(t)
  BY <1>8 DEF LaunchLimited, Return
<1>9. CASE LaunchToken(t)
  BY <1>9 DEF LaunchToken, Fault
<1>10. CASE LaunchCount(t)
  BY <1>10 DEF LaunchCount, Return, Fault
<1>11. CASE \E c \in Calls : Call(t, c)
  BY <1>11 DEF Call
<1> QED
  BY <1>1, <1>2, <1>3, <1>4, <1>5, <1>6, <1>7, <1>8, <1>9, <1>10, <1>11 DEF BodyStep

\* OnceInv is inductive: one step per statement of init() and _init_device_prop.
LEMMA OnceStep == OnceInv /\ [Next]_vars => OnceInv'
<1> SUFFICES ASSUME OnceInv, [Next]_vars PROVE OnceInv'
  OBVIOUS
<1>0. TypeOK /\ TypeOK'
  BY TypeStep DEF OnceInv
<1>1. ASSUME NEW t \in Threads, DlOnce(t) PROVE OnceInv'
  <2>1. Runner' /\ Scanned' /\ Returned' /\ DlDone' /\ Via'
    BY <1>0, <1>1, LoadConstantsOK
    DEF DlOnce, Goto, OnceInv, TypeOK, Runner, Scanned, Returned, DlDone, Via, GpuPoints, Both
  <2>2. Staged'
    BY <1>0, <1>1, LoadConstantsOK
    DEF DlOnce, Goto, OnceInv, TypeOK, Runner, Fresh, Staged, StageOK, Dev, GpuPoints
  <2>3. Fresh' /\ DoneComplete'
    BY <1>0, <1>1, LoadConstantsOK
    DEF DlOnce, Goto, OnceInv, TypeOK, Runner, Scanned, Staged, StageOK, Fresh, DoneComplete,
        Complete, Both, Dev, GpuPoints
  <2> QED
    BY <1>0, <2>1, <2>2, <2>3 DEF OnceInv
<1>2. ASSUME NEW t \in Threads, Scan(t) PROVE OnceInv'
  <2>1. Runner' /\ Scanned' /\ Returned' /\ DlDone' /\ Via'
    BY <1>0, <1>2, LoadConstantsOK
    DEF Scan, Goto, OnceInv, TypeOK, Runner, Scanned, Returned, DlDone, Via, GpuPoints, Both
  <2>2. Staged'
    BY <1>0, <1>2, LoadConstantsOK
    DEF Scan, Goto, OnceInv, TypeOK, Runner, Fresh, Staged, StageOK, Dev, GpuPoints
  <2>3. Fresh' /\ DoneComplete'
    BY <1>0, <1>2, LoadConstantsOK
    DEF Scan, Goto, OnceInv, TypeOK, Runner, Scanned, Staged, StageOK, Fresh, DoneComplete,
        Complete, Both, Dev, GpuPoints
  <2> QED
    BY <1>0, <2>1, <2>2, <2>3 DEF OnceInv
<1>3. ASSUME NEW t \in Threads, GpuOnce(t) PROVE OnceInv'
  <2>1. Runner' /\ Scanned' /\ Returned' /\ DlDone' /\ Via'
    BY <1>0, <1>3, LoadConstantsOK
    DEF GpuOnce, Goto, OnceInv, TypeOK, Runner, Scanned, Returned, DlDone, Via, GpuPoints, Both
  <2>2. Staged'
    BY <1>0, <1>3, LoadConstantsOK
    DEF GpuOnce, Goto, OnceInv, TypeOK, Runner, Fresh, Staged, StageOK, Dev, GpuPoints
  <2>3. Fresh' /\ DoneComplete'
    BY <1>0, <1>3, LoadConstantsOK
    DEF GpuOnce, Goto, OnceInv, TypeOK, Runner, Scanned, Staged, StageOK, Fresh, DoneComplete,
        Complete, Both, Dev, GpuPoints
  <2> QED
    BY <1>0, <2>1, <2>2, <2>3 DEF OnceInv
<1>4. ASSUME NEW t \in Threads, InitReturns(t) PROVE OnceInv'
  <2>1. Runner' /\ Scanned' /\ Returned' /\ DlDone' /\ Via'
    BY <1>0, <1>4, LoadConstantsOK
    DEF InitReturns, Goto, OnceInv, TypeOK, Runner, Scanned, Returned, DlDone, Via, GpuPoints, Both
  <2>2. Staged'
    BY <1>0, <1>4, LoadConstantsOK
    DEF InitReturns, Goto, OnceInv, TypeOK, Runner, Fresh, Staged, StageOK, Dev, GpuPoints
  <2>3. Fresh' /\ DoneComplete'
    BY <1>0, <1>4, LoadConstantsOK
    DEF InitReturns, Goto, OnceInv, TypeOK, Runner, Scanned, Staged, StageOK, Fresh,
        DoneComplete, Complete, Both, Dev, GpuPoints
  <2> QED
    BY <1>0, <2>1, <2>2, <2>3 DEF OnceInv
<1>5. ASSUME NEW t \in Threads, MemLimited(t) PROVE OnceInv'
  <2>1. Runner' /\ Scanned' /\ Returned' /\ DlDone' /\ Via'
    BY <1>0, <1>5, LoadConstantsOK
    DEF MemLimited, get_mem_limit, Store, Finish, Goto, OnceInv, TypeOK, Runner, Scanned, Returned, DlDone,
        Via, GpuPoints, Both
  <2>2. Staged'
    BY <1>0, <1>5, LoadConstantsOK
    DEF MemLimited, get_mem_limit, Store, Finish, Goto, OnceInv, TypeOK, Runner, Fresh, Staged, StageOK, Dev,
        GpuPoints
  <2>3. Fresh' /\ DoneComplete'
    BY <1>0, <1>5, LoadConstantsOK
    DEF MemLimited, get_mem_limit, Store, Finish, Goto, OnceInv, TypeOK, Runner, Scanned, Staged, StageOK,
        Fresh, DoneComplete, Complete, Both, Dev, GpuPoints
  <2> QED
    BY <1>0, <2>1, <2>2, <2>3 DEF OnceInv
<1>6. ASSUME NEW t \in Threads, FbInfo(t) PROVE OnceInv'
  <2>1. Runner' /\ Scanned' /\ Returned' /\ DlDone' /\ Via'
    BY <1>0, <1>6, LoadConstantsOK
    DEF FbInfo, Store, Goto, OnceInv, TypeOK, Runner, Scanned, Returned, DlDone, Via, GpuPoints,
        Both
  <2>2. Staged'
    <3>1. env' = env /\ env.mem /\ dev = Dev(TRUE, FALSE, FALSE, FALSE, FALSE, FALSE)
      <4>1. pc[t] = "fb" /\ env' = env
        BY <1>6 DEF FbInfo, Store
      <4> QED
        BY <4>1 DEF OnceInv, Staged, StageOK
    <3>2. dev' = Dev(TRUE, TRUE, FALSE, FALSE, FALSE, FALSE)
      <4>1. dev' = [dev EXCEPT !["fb_info"] = TRUE]
        BY <1>6 DEF FbInfo, Store
      <4> QED
        BY <3>1, <4>1 DEF Dev
    <3>3. \A u \in Threads : pc'[u] = "lists" \/ pc'[u] \notin GpuPoints
      BY <1>0, <1>6 DEF FbInfo, Store, Goto, OnceInv, TypeOK, Runner, GpuPoints
    <3> QED
      BY <3>1, <3>2, <3>3 DEF Staged, StageOK, GpuPoints
  <2>3. Fresh' /\ DoneComplete'
    BY <1>0, <1>6, LoadConstantsOK
    DEF FbInfo, Store, Goto, OnceInv, TypeOK, Runner, Scanned, Staged, StageOK, Fresh,
        DoneComplete, Complete, Both, Dev, GpuPoints
  <2> QED
    BY <1>0, <2>1, <2>2, <2>3 DEF OnceInv
<1>7. ASSUME NEW t \in Threads, Lists(t) PROVE OnceInv'
  <2>1. Runner' /\ Scanned' /\ Returned' /\ DlDone' /\ Via'
    BY <1>0, <1>7, LoadConstantsOK
    DEF Lists, Store, Goto, OnceInv, TypeOK, Runner, Scanned, Returned, DlDone, Via, GpuPoints, Both
  <2>2. Staged'
    <3>1. env' = env /\ env.mem /\ dev = Dev(TRUE, TRUE, FALSE, FALSE, FALSE, FALSE)
      <4>1. pc[t] = "lists" /\ env' = env
        BY <1>7 DEF Lists, Store
      <4> QED
        BY <4>1 DEF OnceInv, Staged, StageOK
    <3>2. dev' = Dev(TRUE, TRUE, TRUE, FALSE, FALSE, FALSE)
      <4>1. dev' = [dev EXCEPT !["lists"] = TRUE]
        BY <1>7 DEF Lists, Store
      <4> QED
        BY <3>1, <4>1 DEF Dev
    <3>3. \A u \in Threads : pc'[u] = "core_env" \/ pc'[u] \notin GpuPoints
      BY <1>0, <1>7 DEF Lists, Store, Goto, OnceInv, TypeOK, Runner, GpuPoints
    <3> QED
      BY <3>1, <3>2, <3>3 DEF Staged, StageOK, GpuPoints
  <2>3. Fresh' /\ DoneComplete'
    BY <1>0, <1>7, LoadConstantsOK
    DEF Lists, Store, Goto, OnceInv, TypeOK, Runner, Scanned, Staged, StageOK, Fresh,
        DoneComplete, Complete, Both, Dev, GpuPoints
  <2> QED
    BY <1>0, <2>1, <2>2, <2>3 DEF OnceInv
<1>8. ASSUME NEW t \in Threads, CoreLimited(t) PROVE OnceInv'
  <2>1. Runner' /\ Scanned' /\ Returned' /\ DlDone' /\ Via'
    BY <1>0, <1>8, LoadConstantsOK
    DEF CoreLimited, get_core_limit, Store, Finish, Goto, OnceInv, TypeOK, Runner, Scanned, Returned, DlDone,
        Via, GpuPoints, Both
  <2>2. Staged'
    BY <1>0, <1>8, LoadConstantsOK
    DEF CoreLimited, get_core_limit, Store, Finish, Goto, OnceInv, TypeOK, Runner, Fresh, Staged, StageOK, Dev,
        GpuPoints
  <2>3. Fresh' /\ DoneComplete'
    BY <1>0, <1>8, LoadConstantsOK
    DEF CoreLimited, get_core_limit, Store, Finish, Goto, OnceInv, TypeOK, Runner, Scanned, Staged, StageOK,
        Fresh, DoneComplete, Complete, Both, Dev, GpuPoints
  <2> QED
    BY <1>0, <2>1, <2>2, <2>3 DEF OnceInv
<1>9. ASSUME NEW t \in Threads, WaitReady(t) PROVE OnceInv'
  <2>1. Runner' /\ Scanned' /\ Returned' /\ DlDone' /\ Via'
    BY <1>0, <1>9, LoadConstantsOK
    DEF WaitReady, Goto, OnceInv, TypeOK, Runner, Scanned, Returned, DlDone, Via, GpuPoints, Both
  <2>2. Staged'
    BY <1>0, <1>9, LoadConstantsOK
    DEF WaitReady, Goto, OnceInv, TypeOK, Runner, Fresh, Staged, StageOK, Dev, GpuPoints
  <2>3. Fresh' /\ DoneComplete'
    BY <1>0, <1>9, LoadConstantsOK
    DEF WaitReady, Goto, OnceInv, TypeOK, Runner, Scanned, Staged, StageOK, Fresh, DoneComplete,
        Complete, Both, Dev, GpuPoints
  <2> QED
    BY <1>0, <2>1, <2>2, <2>3 DEF OnceInv
<1>10. ASSUME NEW t \in Threads, TokensInit(t) PROVE OnceInv'
  <2>1. Runner' /\ Scanned' /\ Returned' /\ DlDone' /\ Via'
    BY <1>0, <1>10, LoadConstantsOK
    DEF TokensInit, Store, Goto, OnceInv, TypeOK, Runner, Scanned, Returned, DlDone, Via,
        GpuPoints, Both
  <2>2. Staged'
    <3>1. env' = env /\ env.mem /\ env.core /\ dev = Dev(TRUE, TRUE, TRUE, TRUE, FALSE, FALSE)
      <4>1. pc[t] = "tokens" /\ env' = env
        BY <1>10 DEF TokensInit, Store
      <4> QED
        BY <4>1 DEF OnceInv, Staged, StageOK
    <3>2. dev' = Dev(TRUE, TRUE, TRUE, TRUE, TRUE, FALSE)
      <4>1. dev' = [dev EXCEPT !["tokens"] = TRUE]
        BY <1>10 DEF TokensInit, Store
      <4> QED
        BY <3>1, <4>1 DEF Dev
    <3>3. \A u \in Threads : pc'[u] = "attr" \/ pc'[u] \notin GpuPoints
      BY <1>0, <1>10 DEF TokensInit, Store, Goto, OnceInv, TypeOK, Runner, GpuPoints
    <3> QED
      BY <3>1, <3>2, <3>3 DEF Staged, StageOK, GpuPoints
  <2>3. Fresh' /\ DoneComplete'
    BY <1>0, <1>10, LoadConstantsOK
    DEF TokensInit, Store, Goto, OnceInv, TypeOK, Runner, Scanned, Staged, StageOK, Fresh,
        DoneComplete, Complete, Both, Dev, GpuPoints
  <2> QED
    BY <1>0, <2>1, <2>2, <2>3 DEF OnceInv
<1>11. ASSUME NEW t \in Threads, SetAttr(t) PROVE OnceInv'
  <2>1. Runner' /\ Scanned' /\ Returned' /\ DlDone' /\ Via'
    BY <1>0, <1>11, LoadConstantsOK
    DEF SetAttr, Store, Goto, OnceInv, TypeOK, Runner, Scanned, Returned, DlDone, Via,
        GpuPoints, Both
  <2>2. Staged'
    <3>1. env' = env /\ env.mem /\ env.core /\ dev = Dev(TRUE, TRUE, TRUE, TRUE, TRUE, FALSE)
      <4>1. pc[t] = "attr" /\ env' = env
        BY <1>11 DEF SetAttr, Store
      <4> QED
        BY <4>1 DEF OnceInv, Staged, StageOK
    <3>2. dev' = Dev(TRUE, TRUE, TRUE, TRUE, TRUE, TRUE)
      <4>1. dev' = [dev EXCEPT !["attr"] = TRUE]
        BY <1>11 DEF SetAttr, Store
      <4> QED
        BY <3>1, <4>1 DEF Dev
    <3>3. \A u \in Threads : pc'[u] = "thread" \/ pc'[u] \notin GpuPoints
      BY <1>0, <1>11 DEF SetAttr, Store, Goto, OnceInv, TypeOK, Runner, GpuPoints
    <3> QED
      BY <3>1, <3>2, <3>3 DEF Staged, StageOK, GpuPoints
  <2>3. Fresh' /\ DoneComplete'
    BY <1>0, <1>11, LoadConstantsOK
    DEF SetAttr, Store, Goto, OnceInv, TypeOK, Runner, Scanned, Staged, StageOK, Fresh,
        DoneComplete, Complete, Both, Dev, GpuPoints
  <2> QED
    BY <1>0, <2>1, <2>2, <2>3 DEF OnceInv
<1>12. ASSUME NEW t \in Threads, StartTokenPost(t) PROVE OnceInv'
  <2>1. Runner' /\ Scanned' /\ Returned' /\ DlDone' /\ Via'
    BY <1>0, <1>12, LoadConstantsOK
    DEF StartTokenPost, Finish, Goto, OnceInv, TypeOK, Runner, Scanned, Returned, DlDone, Via,
        GpuPoints, Both
  <2>2. Staged'
    BY <1>0, <1>12, LoadConstantsOK
    DEF StartTokenPost, Finish, Goto, OnceInv, TypeOK, Runner, Fresh, Staged, StageOK, Dev,
        GpuPoints
  <2>3. Fresh' /\ DoneComplete'
    BY <1>0, <1>12, LoadConstantsOK
    DEF StartTokenPost, Finish, Goto, OnceInv, TypeOK, Runner, Scanned, Staged, StageOK, Fresh,
        DoneComplete, Complete, Both, Dev, GpuPoints
  <2> QED
    BY <1>0, <2>1, <2>2, <2>3 DEF OnceInv
<1>13. ASSUME NEW t \in Threads, Exit(t) PROVE OnceInv'
  <2>1. Runner' /\ Scanned' /\ Returned' /\ DlDone' /\ Via'
    BY <1>0, <1>13, LoadConstantsOK
    DEF Exit, OnceInv, TypeOK, Runner, Scanned, Returned, DlDone, Via, GpuPoints, Both
  <2>2. Staged'
    BY <1>0, <1>13, LoadConstantsOK
    DEF Exit, OnceInv, TypeOK, Runner, Fresh, Staged, StageOK, Dev, GpuPoints
  <2>3. Fresh' /\ DoneComplete'
    BY <1>0, <1>13, LoadConstantsOK
    DEF Exit, OnceInv, TypeOK, Runner, Scanned, Staged, StageOK, Fresh, DoneComplete, Complete,
        Both, Dev, GpuPoints
  <2> QED
    BY <1>0, <2>1, <2>2, <2>3 DEF OnceInv
<1>14. ASSUME NEW t \in Threads,
             Constructor(t) \/ Enter(t) \/ BodyStep(t) \/ \E c \in Calls : Call(t, c)
      PROVE  OnceInv'
  BY <1>0, <1>14, QuietActions, QuietKeepsOnce
<1>15. CASE MonitorPosts
  BY <1>0, <1>15
  DEF MonitorPosts, OnceInv, Runner, Scanned, Staged, StageOK, Fresh, DoneComplete, Complete,
      Returned, DlDone, Via
<1>16. CASE UNCHANGED vars
  BY <1>0, <1>16
  DEF vars, OnceInv, Runner, Scanned, Staged, StageOK, Fresh, DoneComplete, Complete,
      Returned, DlDone, Via
<1> QED
  BY <1>1, <1>2, <1>3, <1>4, <1>5, <1>6, <1>7, <1>8, <1>9, <1>10, <1>11, <1>12, <1>13,
     <1>14, <1>15, <1>16
  DEF Next, Step, InitStep

\* OnceInv holds when the library is mapped.
LEMMA InitOnce == ASSUME Init PROVE OnceInv
  BY InitTypes, LoadConstantsOK
  DEF Init, OnceInv, Runner, Scanned, Staged, StageOK, Fresh, DoneComplete, Returned, DlDone, Via,
      GpuPoints, Dev

\* OnceInv holds at every point of a process's life.
LEMMA OnceInductive == Spec => []OnceInv
  BY InitOnce, OnceStep, PTL DEF Spec

(***************************************************************************)
(* A call that went through pthread_once(&__dlfcn_data.once, init) finds   *)
(* everything initialised, for any number of threads that call before,     *)
(* during and after the constructor.                                       *)
(***************************************************************************)
THEOREM OnceReady == Spec => []OnceMeansReady
<1>1. OnceInv => OnceMeansReady
  BY DEF OnceInv, OnceMeansReady, Via, DlDone, DoneComplete
<1> QED
  BY <1>1, OnceInductive, PTL

\* What gpu_once protects does not change once it is done.
LEMMA DoneStays ==
  ASSUME OnceInv, [Next]_vars, gpu_once = "done"
  PROVE  gpu_once' = "done" /\ dev' = dev
<1>1. \A t \in Threads : pc[t] \notin GpuPoints
  BY LoadConstantsOK DEF OnceInv, Runner
<1>2. ASSUME NEW t \in Threads, Step(t) PROVE gpu_once' = "done" /\ dev' = dev
  <2>1. CASE InitStep(t)
    BY <1>1, <2>1, LoadConstantsOK
    DEF InitStep, Scan, GpuOnce, InitReturns, MemLimited, FbInfo, Lists, CoreLimited, WaitReady,
        TokensInit, SetAttr, StartTokenPost, Exit, Store, Finish, GpuPoints
  <2>2. CASE BodyStep(t)
    BY <2>2
    DEF BodyStep, DlsymBody, IoctlPre, IoctlKernel, IoctlPost, LaunchAttr, LaunchLimited,
        LaunchToken, LaunchCount
  <2> QED
    BY <1>2, <2>1, <2>2 DEF Step, Enter, DlOnce
<1> QED
  BY <1>2 DEF Next, Constructor, Call, MonitorPosts, vars

\* No step changes the process's environment.
LEMMA EnvStays == ASSUME [Next]_vars PROVE env' = env
<1>1. ASSUME NEW t \in Threads, Step(t) PROVE env' = env
  <2>1. CASE InitStep(t)
    BY <2>1
    DEF InitStep, Scan, GpuOnce, InitReturns, MemLimited, FbInfo, Lists, CoreLimited, WaitReady,
        TokensInit, SetAttr, StartTokenPost, Exit, Store, Finish
  <2>2. CASE BodyStep(t)
    BY <2>2
    DEF BodyStep, DlsymBody, IoctlPre, IoctlKernel, IoctlPost, LaunchAttr, LaunchLimited,
        LaunchToken, LaunchCount
  <2> QED
    BY <1>1, <2>1, <2>2 DEF Step, Enter, DlOnce
<1> QED
  BY <1>1 DEF Next, Constructor, Call, MonitorPosts, vars

\* FaultInv is inductive if the other threads wait for the constructor.
LEMMA FaultStep ==
  ASSUME env.early \subseteq {Loader}, FaultInv, [Next]_vars
  PROVE  FaultInv'
<1>0. TypeOK /\ OnceInv /\ OnceInv' /\ Loader \in Threads
  BY OnceStep, LoadConstantsOK DEF FaultInv, OnceInv
<1>a. gpu_once = "done" => gpu_once' = "done" /\ dev' = dev
  BY <1>0, DoneStays
<1>b. gpu_once = "done" => Complete
  BY <1>0 DEF OnceInv, DoneComplete
<1>1. ASSUME NEW t \in Threads, Constructor(t) PROVE FaultInv'
  <2>1. Faultless' /\ Started' /\ BodyReady' /\ CtorReady' /\ HookReady'
    BY <1>0, <1>a, <1>b, <1>1
    DEF Constructor, Goto, FaultInv, OnceInv, TypeOK, Returned, DlDone, Complete, Faultless,
        Started, BodyReady, CtorReady, HookReady, EarlyFound, LaunchOK, BodyPoints, InitPoints,
        GpuPoints
  <2>2. EarlyFound'
    BY <1>0, <1>a, <1>1
    DEF Constructor, Goto, FaultInv, OnceInv, TypeOK, Returned, Started, CtorReady, EarlyFound,
        InitPoints, GpuPoints
  <2>3. LaunchOK'
    BY <1>0, <1>a, <1>1
    DEF Constructor, Goto, FaultInv, OnceInv, TypeOK, BodyReady, LaunchOK, BodyPoints
  <2> QED
    BY <1>0, <2>1, <2>2, <2>3 DEF FaultInv
<1>2. ASSUME NEW t \in Threads, Enter(t) PROVE FaultInv'
  <2>1. Faultless' /\ Started' /\ BodyReady' /\ CtorReady' /\ HookReady'
    BY <1>0, <1>a, <1>b, <1>2
    DEF Enter, Goto, FaultInv, OnceInv, TypeOK, Returned, DlDone, Complete, Faultless, Started,
        BodyReady, CtorReady, HookReady, EarlyFound, LaunchOK, BodyPoints, InitPoints, GpuPoints
  <2>2. EarlyFound'
    BY <1>0, <1>a, <1>2
    DEF Enter, Goto, FaultInv, OnceInv, TypeOK, Returned, Started, CtorReady, EarlyFound,
        InitPoints, GpuPoints
  <2>3. LaunchOK'
    BY <1>0, <1>a, <1>2
    DEF Enter, Goto, FaultInv, OnceInv, TypeOK, BodyReady, LaunchOK, BodyPoints
  <2> QED
    BY <1>0, <2>1, <2>2, <2>3 DEF FaultInv
<1>3. ASSUME NEW t \in Threads, DlOnce(t) PROVE FaultInv'
  <2>1. Faultless' /\ Started' /\ BodyReady' /\ CtorReady' /\ HookReady'
    BY <1>0, <1>a, <1>b, <1>3
    DEF DlOnce, Goto, FaultInv, OnceInv, TypeOK, Returned, DlDone, Complete, Faultless, Started,
        BodyReady, CtorReady, HookReady, EarlyFound, LaunchOK, BodyPoints, InitPoints, GpuPoints
  <2>2. EarlyFound'
    BY <1>0, <1>a, <1>3
    DEF DlOnce, Goto, FaultInv, OnceInv, TypeOK, Returned, Started, CtorReady, EarlyFound,
        InitPoints, GpuPoints
  <2>3. LaunchOK'
    BY <1>0, <1>a, <1>3
    DEF DlOnce, Goto, FaultInv, OnceInv, TypeOK, BodyReady, LaunchOK, BodyPoints
  <2> QED
    BY <1>0, <2>1, <2>2, <2>3 DEF FaultInv
<1>4. ASSUME NEW t \in Threads, Scan(t) PROVE FaultInv'
  <2>1. Faultless' /\ Started' /\ BodyReady' /\ CtorReady' /\ HookReady'
    BY <1>0, <1>a, <1>b, <1>4
    DEF Scan, Goto, FaultInv, OnceInv, TypeOK, Returned, DlDone, Complete, Faultless, Started,
        BodyReady, CtorReady, HookReady, EarlyFound, LaunchOK, BodyPoints, InitPoints, GpuPoints
  <2>2. EarlyFound'
    BY <1>0, <1>a, <1>4
    DEF Scan, Goto, FaultInv, OnceInv, TypeOK, Returned, Started, CtorReady, EarlyFound, InitPoints,
        GpuPoints
  <2>3. LaunchOK'
    BY <1>0, <1>a, <1>4
    DEF Scan, Goto, FaultInv, OnceInv, TypeOK, BodyReady, LaunchOK, BodyPoints
  <2> QED
    BY <1>0, <2>1, <2>2, <2>3 DEF FaultInv
<1>5. ASSUME NEW t \in Threads, GpuOnce(t) PROVE FaultInv'
  <2>1. Faultless' /\ Started' /\ BodyReady' /\ CtorReady' /\ HookReady'
    BY <1>0, <1>a, <1>b, <1>5
    DEF GpuOnce, Goto, FaultInv, OnceInv, TypeOK, Returned, DlDone, Complete, Faultless, Started,
        BodyReady, CtorReady, HookReady, EarlyFound, LaunchOK, BodyPoints, InitPoints, GpuPoints
  <2>2. EarlyFound'
    BY <1>0, <1>a, <1>5
    DEF GpuOnce, Goto, FaultInv, OnceInv, TypeOK, Returned, Started, CtorReady, EarlyFound,
        InitPoints, GpuPoints
  <2>3. LaunchOK'
    BY <1>0, <1>a, <1>5
    DEF GpuOnce, Goto, FaultInv, OnceInv, TypeOK, BodyReady, LaunchOK, BodyPoints
  <2> QED
    BY <1>0, <2>1, <2>2, <2>3 DEF FaultInv
<1>6. ASSUME NEW t \in Threads, InitReturns(t) PROVE FaultInv'
  <2>1. Faultless' /\ Started' /\ BodyReady' /\ CtorReady' /\ HookReady'
    BY <1>0, <1>a, <1>b, <1>6
    DEF InitReturns, Goto, FaultInv, OnceInv, TypeOK, Returned, DlDone, Complete, Faultless,
        Started, BodyReady, CtorReady, HookReady, EarlyFound, LaunchOK, BodyPoints, InitPoints,
        GpuPoints
  <2>2. EarlyFound'
    BY <1>0, <1>a, <1>6
    DEF InitReturns, Goto, FaultInv, OnceInv, TypeOK, Returned, Started, CtorReady, EarlyFound,
        InitPoints, GpuPoints
  <2>3. LaunchOK'
    BY <1>0, <1>a, <1>6
    DEF InitReturns, Goto, FaultInv, OnceInv, TypeOK, BodyReady, LaunchOK, BodyPoints
  <2> QED
    BY <1>0, <2>1, <2>2, <2>3 DEF FaultInv
<1>7. ASSUME NEW t \in Threads, MemLimited(t) PROVE FaultInv'
  <2>1. Faultless' /\ Started' /\ BodyReady' /\ CtorReady' /\ HookReady'
    BY <1>0, <1>a, <1>b, <1>7
    DEF MemLimited, get_mem_limit, Store, Finish, Goto, FaultInv, OnceInv, TypeOK, Returned, DlDone, Complete,
        Faultless, Started, BodyReady, CtorReady, HookReady, EarlyFound, LaunchOK, BodyPoints,
        InitPoints, GpuPoints
  <2>2. EarlyFound'
    BY <1>0, <1>a, <1>7
    DEF MemLimited, get_mem_limit, Store, Finish, Goto, FaultInv, OnceInv, TypeOK, Returned, Started,
        CtorReady, EarlyFound, InitPoints, GpuPoints
  <2>3. LaunchOK'
    BY <1>0, <1>a, <1>7
    DEF MemLimited, get_mem_limit, Store, Finish, Goto, FaultInv, OnceInv, TypeOK, BodyReady, LaunchOK, BodyPoints
  <2> QED
    BY <1>0, <2>1, <2>2, <2>3 DEF FaultInv
<1>8. ASSUME NEW t \in Threads, FbInfo(t) PROVE FaultInv'
  <2>1. Faultless' /\ Started' /\ BodyReady' /\ CtorReady' /\ HookReady'
    BY <1>0, <1>a, <1>b, <1>8
    DEF FbInfo, Store, Goto, FaultInv, OnceInv, TypeOK, Returned, DlDone, Complete, Faultless,
        Started, BodyReady, CtorReady, HookReady, EarlyFound, LaunchOK, BodyPoints, InitPoints,
        GpuPoints
  <2>2. EarlyFound'
    BY <1>0, <1>a, <1>8
    DEF FbInfo, Store, Goto, FaultInv, OnceInv, TypeOK, Returned, Started, CtorReady,
        EarlyFound, InitPoints, GpuPoints
  <2>3. LaunchOK'
    BY <1>0, <1>a, <1>8
    DEF FbInfo, Store, Goto, FaultInv, OnceInv, TypeOK, BodyReady, LaunchOK, BodyPoints
  <2> QED
    BY <1>0, <2>1, <2>2, <2>3 DEF FaultInv
<1>9. ASSUME NEW t \in Threads, Lists(t) PROVE FaultInv'
  <2>1. Faultless' /\ Started' /\ BodyReady' /\ CtorReady' /\ HookReady'
    BY <1>0, <1>a, <1>b, <1>9
    DEF Lists, Store, Goto, FaultInv, OnceInv, TypeOK, Returned, DlDone, Complete, Faultless,
        Started, BodyReady, CtorReady, HookReady, EarlyFound, LaunchOK, BodyPoints, InitPoints,
        GpuPoints
  <2>2. EarlyFound'
    BY <1>0, <1>a, <1>9
    DEF Lists, Store, Goto, FaultInv, OnceInv, TypeOK, Returned, Started, CtorReady, EarlyFound,
        InitPoints, GpuPoints
  <2>3. LaunchOK'
    BY <1>0, <1>a, <1>9
    DEF Lists, Store, Goto, FaultInv, OnceInv, TypeOK, BodyReady, LaunchOK, BodyPoints
  <2> QED
    BY <1>0, <2>1, <2>2, <2>3 DEF FaultInv
<1>10. ASSUME NEW t \in Threads, CoreLimited(t) PROVE FaultInv'
  <2>1. Faultless' /\ Started' /\ BodyReady' /\ CtorReady' /\ HookReady'
    BY <1>0, <1>a, <1>b, <1>10
    DEF CoreLimited, get_core_limit, Store, Finish, Goto, FaultInv, OnceInv, TypeOK, Returned, DlDone, Complete,
        Faultless, Started, BodyReady, CtorReady, HookReady, EarlyFound, LaunchOK, BodyPoints,
        InitPoints, GpuPoints
  <2>2. EarlyFound'
    BY <1>0, <1>a, <1>10
    DEF CoreLimited, get_core_limit, Store, Finish, Goto, FaultInv, OnceInv, TypeOK, Returned, Started,
        CtorReady, EarlyFound, InitPoints, GpuPoints
  <2>3. LaunchOK'
    BY <1>0, <1>a, <1>10
    DEF CoreLimited, get_core_limit, Store, Finish, Goto, FaultInv, OnceInv, TypeOK, BodyReady, LaunchOK, BodyPoints
  <2> QED
    BY <1>0, <2>1, <2>2, <2>3 DEF FaultInv
<1>11. ASSUME NEW t \in Threads, WaitReady(t) PROVE FaultInv'
  <2>1. Faultless' /\ Started' /\ BodyReady' /\ CtorReady' /\ HookReady'
    BY <1>0, <1>a, <1>b, <1>11
    DEF WaitReady, Goto, FaultInv, OnceInv, TypeOK, Returned, DlDone, Complete, Faultless,
        Started, BodyReady, CtorReady, HookReady, EarlyFound, LaunchOK, BodyPoints, InitPoints,
        GpuPoints
  <2>2. EarlyFound'
    BY <1>0, <1>a, <1>11
    DEF WaitReady, Goto, FaultInv, OnceInv, TypeOK, Returned, Started, CtorReady, EarlyFound,
        InitPoints, GpuPoints
  <2>3. LaunchOK'
    BY <1>0, <1>a, <1>11
    DEF WaitReady, Goto, FaultInv, OnceInv, TypeOK, BodyReady, LaunchOK, BodyPoints
  <2> QED
    BY <1>0, <2>1, <2>2, <2>3 DEF FaultInv
<1>12. ASSUME NEW t \in Threads, TokensInit(t) PROVE FaultInv'
  <2>1. Faultless' /\ Started' /\ BodyReady' /\ CtorReady' /\ HookReady'
    BY <1>0, <1>a, <1>b, <1>12
    DEF TokensInit, Store, Goto, FaultInv, OnceInv, TypeOK, Returned, DlDone, Complete, Faultless,
        Started, BodyReady, CtorReady, HookReady, EarlyFound, LaunchOK, BodyPoints, InitPoints,
        GpuPoints
  <2>2. EarlyFound'
    BY <1>0, <1>a, <1>12
    DEF TokensInit, Store, Goto, FaultInv, OnceInv, TypeOK, Returned, Started, CtorReady,
        EarlyFound, InitPoints, GpuPoints
  <2>3. LaunchOK'
    BY <1>0, <1>a, <1>12
    DEF TokensInit, Store, Goto, FaultInv, OnceInv, TypeOK, BodyReady, LaunchOK, BodyPoints
  <2> QED
    BY <1>0, <2>1, <2>2, <2>3 DEF FaultInv
<1>13. ASSUME NEW t \in Threads, SetAttr(t) PROVE FaultInv'
  <2>1. Faultless' /\ Started' /\ BodyReady' /\ CtorReady' /\ HookReady'
    BY <1>0, <1>a, <1>b, <1>13
    DEF SetAttr, Store, Goto, FaultInv, OnceInv, TypeOK, Returned, DlDone, Complete, Faultless,
        Started, BodyReady, CtorReady, HookReady, EarlyFound, LaunchOK, BodyPoints, InitPoints,
        GpuPoints
  <2>2. EarlyFound'
    BY <1>0, <1>a, <1>13
    DEF SetAttr, Store, Goto, FaultInv, OnceInv, TypeOK, Returned, Started, CtorReady,
        EarlyFound, InitPoints, GpuPoints
  <2>3. LaunchOK'
    BY <1>0, <1>a, <1>13
    DEF SetAttr, Store, Goto, FaultInv, OnceInv, TypeOK, BodyReady, LaunchOK, BodyPoints
  <2> QED
    BY <1>0, <2>1, <2>2, <2>3 DEF FaultInv
<1>14. ASSUME NEW t \in Threads, StartTokenPost(t) PROVE FaultInv'
  <2>1. Faultless' /\ Started' /\ BodyReady' /\ CtorReady' /\ HookReady'
    BY <1>0, <1>a, <1>b, <1>14
    DEF StartTokenPost, Finish, Goto, FaultInv, OnceInv, TypeOK, Returned, DlDone, Complete,
        Faultless, Started, BodyReady, CtorReady, HookReady, EarlyFound, LaunchOK, BodyPoints,
        InitPoints, GpuPoints
  <2>2. EarlyFound'
    BY <1>0, <1>a, <1>14
    DEF StartTokenPost, Finish, Goto, FaultInv, OnceInv, TypeOK, Returned, Started, CtorReady,
        EarlyFound, InitPoints, GpuPoints
  <2>3. LaunchOK'
    BY <1>0, <1>a, <1>14
    DEF StartTokenPost, Finish, Goto, FaultInv, OnceInv, TypeOK, BodyReady, LaunchOK, BodyPoints
  <2> QED
    BY <1>0, <2>1, <2>2, <2>3 DEF FaultInv
<1>15. ASSUME NEW t \in Threads, Exit(t) PROVE FaultInv'
  <2>1. Faultless' /\ Started' /\ BodyReady' /\ CtorReady' /\ HookReady'
    BY <1>0, <1>a, <1>b, <1>15
    DEF Exit, FaultInv, OnceInv, TypeOK, Returned, DlDone, Complete, Faultless, Started, BodyReady,
        CtorReady, HookReady, EarlyFound, LaunchOK, BodyPoints, InitPoints, GpuPoints
  <2>2. EarlyFound'
    BY <1>0, <1>a, <1>15
    DEF Exit, FaultInv, OnceInv, TypeOK, Returned, Started, CtorReady, EarlyFound, InitPoints,
        GpuPoints
  <2>3. LaunchOK'
    BY <1>0, <1>a, <1>15
    DEF Exit, FaultInv, OnceInv, TypeOK, BodyReady, LaunchOK, BodyPoints
  <2> QED
    BY <1>0, <2>1, <2>2, <2>3 DEF FaultInv
<1>16. ASSUME NEW t \in Threads, DlsymBody(t) PROVE FaultInv'
  <2>1. Faultless' /\ Started' /\ BodyReady' /\ CtorReady' /\ HookReady'
    BY <1>0, <1>a, <1>b, <1>16
    DEF DlsymBody, Return, Fault, Goto, FaultInv, OnceInv, TypeOK, Returned, DlDone, Complete,
        Faultless, Started, BodyReady, CtorReady, HookReady, EarlyFound, LaunchOK, BodyPoints,
        InitPoints, GpuPoints
  <2>2. EarlyFound'
    BY <1>0, <1>a, <1>16
    DEF DlsymBody, Return, Fault, Goto, FaultInv, OnceInv, TypeOK, Returned, Started, CtorReady,
        EarlyFound, InitPoints, GpuPoints
  <2>3. LaunchOK'
    BY <1>0, <1>a, <1>16
    DEF DlsymBody, Return, Fault, Goto, FaultInv, OnceInv, TypeOK, BodyReady, LaunchOK, BodyPoints
  <2> QED
    BY <1>0, <2>1, <2>2, <2>3 DEF FaultInv
<1>17. ASSUME NEW t \in Threads, IoctlPre(t) PROVE FaultInv'
  <2>1. Faultless' /\ Started' /\ BodyReady' /\ CtorReady' /\ HookReady'
    BY <1>0, <1>a, <1>b, <1>17
    DEF IoctlPre, Return, Fault, Goto, FaultInv, OnceInv, TypeOK, Returned, DlDone, Complete,
        Faultless, Started, BodyReady, CtorReady, HookReady, EarlyFound, LaunchOK, BodyPoints,
        InitPoints, GpuPoints
  <2>2. EarlyFound'
    BY <1>0, <1>a, <1>17
    DEF IoctlPre, Return, Fault, Goto, FaultInv, OnceInv, TypeOK, Returned, Started, CtorReady,
        EarlyFound, InitPoints, GpuPoints
  <2>3. LaunchOK'
    BY <1>0, <1>a, <1>17
    DEF IoctlPre, Return, Fault, Goto, FaultInv, OnceInv, TypeOK, BodyReady, LaunchOK, BodyPoints
  <2> QED
    BY <1>0, <2>1, <2>2, <2>3 DEF FaultInv
<1>18. ASSUME NEW t \in Threads, IoctlKernel(t) PROVE FaultInv'
  <2>1. Faultless' /\ Started' /\ BodyReady' /\ CtorReady' /\ HookReady'
    BY <1>0, <1>a, <1>b, <1>18
    DEF IoctlKernel, Return, Goto, FaultInv, OnceInv, TypeOK, Returned, DlDone, Complete,
        Faultless, Started, BodyReady, CtorReady, HookReady, EarlyFound, LaunchOK, BodyPoints,
        InitPoints, GpuPoints
  <2>2. EarlyFound'
    BY <1>0, <1>a, <1>18
    DEF IoctlKernel, Return, Goto, FaultInv, OnceInv, TypeOK, Returned, Started, CtorReady,
        EarlyFound, InitPoints, GpuPoints
  <2>3. LaunchOK'
    BY <1>0, <1>a, <1>18
    DEF IoctlKernel, Return, Goto, FaultInv, OnceInv, TypeOK, BodyReady, LaunchOK, BodyPoints
  <2> QED
    BY <1>0, <2>1, <2>2, <2>3 DEF FaultInv
<1>19. ASSUME NEW t \in Threads, IoctlPost(t) PROVE FaultInv'
  <2>1. Faultless' /\ Started' /\ BodyReady' /\ CtorReady' /\ HookReady'
    BY <1>0, <1>a, <1>b, <1>19
    DEF IoctlPost, Return, Fault, Goto, FaultInv, OnceInv, TypeOK, Returned, DlDone, Complete,
        Faultless, Started, BodyReady, CtorReady, HookReady, EarlyFound, LaunchOK, BodyPoints,
        InitPoints, GpuPoints
  <2>2. EarlyFound'
    BY <1>0, <1>a, <1>19
    DEF IoctlPost, Return, Fault, Goto, FaultInv, OnceInv, TypeOK, Returned, Started, CtorReady,
        EarlyFound, InitPoints, GpuPoints
  <2>3. LaunchOK'
    BY <1>0, <1>a, <1>19
    DEF IoctlPost, Return, Fault, Goto, FaultInv, OnceInv, TypeOK, BodyReady, LaunchOK, BodyPoints
  <2> QED
    BY <1>0, <2>1, <2>2, <2>3 DEF FaultInv
<1>20. ASSUME NEW t \in Threads, LaunchAttr(t) PROVE FaultInv'
  <2>1. Faultless' /\ Started' /\ BodyReady' /\ CtorReady' /\ HookReady'
    BY <1>0, <1>a, <1>b, <1>20
    DEF LaunchAttr, Goto, FaultInv, OnceInv, TypeOK, Returned, DlDone, Complete, Faultless,
        Started, BodyReady, CtorReady, HookReady, EarlyFound, LaunchOK, BodyPoints, InitPoints,
        GpuPoints
  <2>2. EarlyFound'
    BY <1>0, <1>a, <1>20
    DEF LaunchAttr, Goto, FaultInv, OnceInv, TypeOK, Returned, Started, CtorReady, EarlyFound,
        InitPoints, GpuPoints
  <2>3. LaunchOK'
    BY <1>0, <1>a, <1>20
    DEF LaunchAttr, Goto, FaultInv, OnceInv, TypeOK, BodyReady, LaunchOK, BodyPoints
  <2> QED
    BY <1>0, <2>1, <2>2, <2>3 DEF FaultInv
<1>21. ASSUME NEW t \in Threads, LaunchLimited(t) PROVE FaultInv'
  <2>1. Faultless' /\ Started' /\ BodyReady' /\ CtorReady' /\ HookReady'
    BY <1>0, <1>a, <1>b, <1>21
    DEF LaunchLimited, Return, Goto, FaultInv, OnceInv, TypeOK, Returned, DlDone, Complete,
        Faultless, Started, BodyReady, CtorReady, HookReady, EarlyFound, LaunchOK, BodyPoints,
        InitPoints, GpuPoints
  <2>2. EarlyFound'
    BY <1>0, <1>a, <1>21
    DEF LaunchLimited, Return, Goto, FaultInv, OnceInv, TypeOK, Returned, Started, CtorReady,
        EarlyFound, InitPoints, GpuPoints
  <2>3. LaunchOK'
    BY <1>0, <1>a, <1>21
    DEF LaunchLimited, Return, Goto, FaultInv, OnceInv, TypeOK, BodyReady, LaunchOK, BodyPoints
  <2> QED
    BY <1>0, <2>1, <2>2, <2>3 DEF FaultInv
<1>22. ASSUME NEW t \in Threads, LaunchToken(t) PROVE FaultInv'
  <2>1. Faultless' /\ Started' /\ BodyReady' /\ CtorReady' /\ HookReady'
    BY <1>0, <1>a, <1>b, <1>22
    DEF LaunchToken, Fault, Goto, FaultInv, OnceInv, TypeOK, Returned, DlDone, Complete,
        Faultless, Started, BodyReady, CtorReady, HookReady, EarlyFound, LaunchOK, BodyPoints,
        InitPoints, GpuPoints
  <2>2. EarlyFound'
    BY <1>0, <1>a, <1>22
    DEF LaunchToken, Fault, Goto, FaultInv, OnceInv, TypeOK, Returned, Started, CtorReady,
        EarlyFound, InitPoints, GpuPoints
  <2>3. LaunchOK'
    BY <1>0, <1>a, <1>22
    DEF LaunchToken, Fault, Goto, FaultInv, OnceInv, TypeOK, BodyReady, LaunchOK, BodyPoints
  <2> QED
    BY <1>0, <2>1, <2>2, <2>3 DEF FaultInv
<1>23. ASSUME NEW t \in Threads, LaunchCount(t) PROVE FaultInv'
  <2>1. Faultless' /\ Started' /\ BodyReady' /\ CtorReady' /\ HookReady'
    BY <1>0, <1>a, <1>b, <1>23
    DEF LaunchCount, Return, Fault, Goto, FaultInv, OnceInv, TypeOK, Returned, DlDone, Complete,
        Faultless, Started, BodyReady, CtorReady, HookReady, EarlyFound, LaunchOK, BodyPoints,
        InitPoints, GpuPoints
  <2>2. EarlyFound'
    BY <1>0, <1>a, <1>23
    DEF LaunchCount, Return, Fault, Goto, FaultInv, OnceInv, TypeOK, Returned, Started,
        CtorReady, EarlyFound, InitPoints, GpuPoints
  <2>3. LaunchOK'
    BY <1>0, <1>a, <1>23
    DEF LaunchCount, Return, Fault, Goto, FaultInv, OnceInv, TypeOK, BodyReady, LaunchOK, BodyPoints
  <2> QED
    BY <1>0, <2>1, <2>2, <2>3 DEF FaultInv
<1>24. ASSUME NEW t \in Threads, NEW c \in Calls, Call(t, c) PROVE FaultInv'
  BY <1>0, <1>a, <1>b, <1>24
  DEF Call, Goto, FaultInv, OnceInv, TypeOK, Calls, Faultless, Started, BodyReady, CtorReady,
      HookReady, EarlyFound, LaunchOK, BodyPoints, InitPoints, GpuPoints
<1>25. CASE MonitorPosts
  BY <1>0, <1>25
  DEF MonitorPosts, FaultInv, Faultless, Started, BodyReady, CtorReady, HookReady, EarlyFound,
      LaunchOK
<1>26. CASE UNCHANGED vars
  BY <1>0, <1>26
  DEF vars, FaultInv, Faultless, Started, BodyReady, CtorReady, HookReady, EarlyFound, LaunchOK
<1> QED
  BY <1>1, <1>2, <1>3, <1>4, <1>5, <1>6, <1>7, <1>8, <1>9, <1>10, <1>11, <1>12, <1>13,
     <1>14, <1>15, <1>16, <1>17, <1>18, <1>19, <1>20, <1>21, <1>22, <1>23, <1>24, <1>25, <1>26
  DEF Next, Step, InitStep, BodyStep

(***************************************************************************)
(* If only the loader's thread calls into the library before its           *)
(* constructor has returned, no call of any thread uses a pointer, list or *)
(* semaphore of gpu_device before it exists.                               *)
(***************************************************************************)
THEOREM OrderlyStart == Spec => []NoFault
<1> DEFINE Orderly == env.early \subseteq {Loader} => FaultInv
<1>1. ASSUME Init PROVE Orderly
  <2>1. OnceInv
    BY <1>1, InitOnce
  <2> QED
    BY <1>1, <2>1, LoadConstantsOK
    DEF Init, FaultInv, Faultless, Started, BodyReady, CtorReady, HookReady, EarlyFound, LaunchOK,
        BodyPoints
<1>2. ASSUME Orderly, [Next]_vars PROVE Orderly'
  <2>1. env' = env
    BY <1>2, EnvStays
  <2> QED
    BY <1>2, <2>1, FaultStep
<1>3. Orderly => NoFault
  BY DEF FaultInv, NoFault
<1> QED
  BY <1>1, <1>2, <1>3, PTL DEF Spec

=============================================================================
