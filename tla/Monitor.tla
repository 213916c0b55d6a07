------------------------------ MODULE Monitor ------------------------------
(***************************************************************************)
(* The loop of server_monitor (server_monitor.c: watch_dog) with the calls *)
(* it makes: get_gpu_util looks for a sample of a process of its container *)
(* among those NVML returns, by cgroup id (CgroupId), and delta_change     *)
(* corrects add_per_cycle by the utilisation of that sample (RateControl). *)
(* Processes may exit at any time.  TokenControl has the handshake with    *)
(* the processes of the container, which here only pick a change up.       *)
(***************************************************************************)
EXTENDS CgroupId, RateControl

CONSTANTS
  Pids,         \* processes on the GPU
  Worlds,       \* what the monitor meets: the container of each process, its
                \* arguments, the utilisations and launch averages it may see
  Stale,        \* what getline's buffer may hold after the line it read
  MaxSamples,   \* bound on the samples NVML returns
  MaxCycle      \* bound on add_per_cycle

\* A limit is positive: main does not check it, and init_attr divides by it.
ASSUME MonitorConstantsOK ==
  /\ MaxSamples \in Nat /\ MaxCycle \in Nat \ {0}
  /\ Stale \subseteq Seq(STRING)
  /\ \A w \in Worlds : /\ w.cgroup \in [Pids -> Seq(STRING)] /\ w.arg \in Seq(STRING)
                       /\ w.limit \in Nat \ {0} /\ w.utils \subseteq Nat /\ w.averages \subseteq Nat

VARIABLES
  world,
  alive,        \* processes that have not exited
  samples,      \* what nvmlDeviceGetProcessUtilization returned
  i,            \* the loop variable of get_gpu_util, 0 outside
  target,       \* target_cgroup_id
  result,       \* the sample get_gpu_util has chosen, 0 for none
  changed, mod_times, add_per_cycle,   \* token_attr_t
  step          \* what the last delta_change saw, and add_per_cycle before it

vars == <<world, alive, samples, i, target, result, changed, mod_times, add_per_cycle, step>>

attr == <<changed, mod_times, add_per_cycle>>

-----------------------------------------------------------------------------
\* A sample; its utilisation is read when it has been chosen.
Sample == [pid : Pids, recent : BOOLEAN]

NoStep == [util |-> 0, cur |-> 0, last |-> 0, old |-> 0]

TypeOK ==
  /\ world \in Worlds
  /\ alive \subseteq Pids
  /\ i \in 0 .. Len(samples) + 1 /\ result \in 0 .. Len(samples)
  /\ changed \in BOOLEAN
  /\ mod_times \in ModTimes
  /\ add_per_cycle \in 1 .. MaxCycle

\* After init_attr on a fresh segment.
Init ==
  /\ world \in Worlds
  /\ alive = Pids
  /\ samples = <<>> /\ i = 0 /\ target = <<>> /\ result = 0
  /\ changed = TRUE /\ mod_times = 0 /\ add_per_cycle = 1
  /\ step = NoStep

\* A process exits, perhaps after it was sampled.
Exit(p) ==
  /\ p \in alive
  /\ alive' = alive \ {p}
  /\ UNCHANGED <<world, samples, i, target, result, attr, step>>

\* A token_post thread has read the new add_per_cycle.
PickUp ==
  /\ changed
  /\ changed' = FALSE
  /\ UNCHANGED <<world, alive, samples, i, target, result, mod_times, add_per_cycle, step>>

-----------------------------------------------------------------------------
(* get_gpu_util *)

\* nvmlDeviceGetProcessUtilization: samples, some older than last_seen.  (If
\* it fails the loop goes on and nothing has changed.)
Poll ==
  /\ i = 0
  /\ \E n \in 0 .. MaxSamples : samples' \in [1 .. n -> Sample]
  /\ i' = 1
  /\ step' = NoStep
  /\ UNCHANGED <<world, alive, target, result, attr>>

\* timeStamp < last_seen
SkipOld ==
  /\ i \in 1 .. Len(samples)
  /\ ~samples[i].recent
  /\ i' = i + 1
  /\ UNCHANGED <<world, alive, samples, target, result, attr, step>>

\* main copies its argument with strncpy to MaxIdLen bytes (without a NUL if
\* it is that long: more bytes may follow).
MonitorId == Truncate(world.arg, MaxIdLen)

\* Mutant: only the first character is compared.
ComparePrefix ==
  /\ i \in 1 .. Len(samples)
  /\ samples[i].recent
  /\ IF samples[i].pid \in alive
       THEN \E s \in Stale :
              /\ target' = get_cgroup_id(LineBuffer(world.cgroup[samples[i].pid], s), MaxIdLen)
              /\ IF Truncate(target', 1) = Truncate(MonitorId, 1)
                   THEN result' = i /\ i' = Len(samples) + 1
                   ELSE i' = i + 1 /\ UNCHANGED result
       ELSE i' = i + 1 /\ UNCHANGED <<target, result>>
  /\ UNCHANGED <<world, alive, samples, attr, step>>

\* get_cgroup_id fails for a process that is gone and leaves target as it was;
\* otherwise its id, cut to MaxIdLen - 1 characters, is compared.
Compare ==
  /\ i \in 1 .. Len(samples)
  /\ samples[i].recent
  /\ IF samples[i].pid \in alive
       THEN \E s \in Stale :
              /\ target' = get_cgroup_id(LineBuffer(world.cgroup[samples[i].pid], s), MaxIdLen)
              /\ IF target' = MonitorId
                   THEN result' = i /\ i' = Len(samples) + 1
                   ELSE i' = i + 1 /\ UNCHANGED result
       ELSE i' = i + 1 /\ UNCHANGED <<target, result>>
  /\ UNCHANGED <<world, alive, samples, attr, step>>

LoopOver == i > 0 /\ i > Len(samples)

\* The monitor sleeps before it polls again; its locals are dead.
Sleep == samples' = <<>> /\ i' = 0 /\ target' = <<>> /\ result' = 0

\* No sample of the container (-1), or the last change has not been picked up.
NoChange ==
  /\ LoopOver
  /\ result = 0 \/ changed
  /\ Sleep
  /\ UNCHANGED <<world, alive, attr, step>>

\* delta_change, for any launch averages token_post may have stored; a result
\* above MaxCycle is not followed.
Correct ==
  /\ LoopOver
  /\ result # 0 /\ ~changed
  /\ \E util \in world.utils, cur, last \in world.averages :
       LET m == Increment(mod_times)
           new == DeltaChange(m, add_per_cycle, util, world.limit, cur, last)
       IN  /\ mod_times' = m
           /\ changed' = (new # {})
           /\ add_per_cycle' \in {n \in IF new = {} THEN {add_per_cycle} ELSE new : n <= MaxCycle}
           /\ step' = [util |-> util, cur |-> cur, last |-> last, old |-> add_per_cycle]
  /\ Sleep
  /\ UNCHANGED <<world, alive>>

Next ==
  \/ Poll \/ SkipOld \/ Compare \/ NoChange \/ Correct \/ PickUp
  \/ \E p \in Pids : Exit(p)

Spec == Init /\ [][Next]_vars

-----------------------------------------------------------------------------
(* Properties *)

\* The argument is as much of the id as get_cgroup_id leaves room for.
Prefix(a, id) == Len(id) >= MaxIdLen - 1 /\ a = Truncate(id, MaxIdLen - 1)

\* What the search relies on: an argument of any length without a newline, ids
\* that are text without "/", and no "/" in what an earlier, longer line left in
\* getline's buffer.
IdsReadable ==
  /\ \A w \in Worlds : /\ \A k \in 1 .. Len(w.arg) : w.arg[k] # Newline
                       /\ \A p \in Pids : IsId(w.cgroup[p])
  /\ \A s \in Stale : IsTail(s)

\* Then the utilisation the monitor acts on is that of a process of its
\* container, sampled since the last poll: never that of another container,
\* whatever the argument is, although ids are cut, keep their newline or share
\* a beginning, and processes exit between their sample and the look at their
\* cgroup.
UtilOfContainer ==
  result # 0 => samples[result].recent /\ Prefix(world.arg, world.cgroup[samples[result].pid])

\* A poll that ends with -1 saw no recent sample of a running process whose id
\* begins with the argument, of MaxIdLen - 1 characters, wherever among the
\* samples it is and whichever processes exit during the search.  For the id
\* itself, which the usage asks for, this is false if it is longer.
PrefixFound ==
  LoopOver /\ result = 0 =>
    \A n \in 1 .. Len(samples) :
      ~ /\ samples[n].recent /\ samples[n].pid \in alive
        /\ Prefix(world.arg, world.cgroup[samples[n].pid])

\* Whether add_per_cycle comes from a control step of delta_change.
Controlled == step # NoStep /\ mod_times > SampleTicks

\* A control step never works against the limit: add_per_cycle does not grow
\* when the utilisation was over the limit, does not shrink when it was under
\* it and stays when it was met, in spite of truncation, the overload branch,
\* division by zero averages and the final clamp.
TowardLimit ==
  Controlled =>
    /\ step.util > world.limit => add_per_cycle <= step.old
    /\ step.util < world.limit => add_per_cycle >= step.old
    /\ step.util = world.limit => add_per_cycle = step.old

\* The overload branch bounds a step by the change of the launches: the change
\* of add_per_cycle, rounded up, is at most |cur - last| / (last + 1) of the
\* larger of the old cycle and the last average.
Damped ==
  Controlled /\ step.cur # step.last =>
    LET larger == IF step.old < step.last THEN step.last ELSE step.old
    IN  Abs(add_per_cycle - step.old) * (step.last + 1)
          <= larger * Abs(step.cur - step.last) + step.last

=============================================================================
