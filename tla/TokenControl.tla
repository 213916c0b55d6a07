---------------------------- MODULE TokenControl ----------------------------
(***************************************************************************)
(* The SM rate limit of one container: server_monitor (main, watch_dog,    *)
(* init_attr, delta_change) and the processes it controls (the core-limit  *)
(* part of _init_device_prop, the token_post thread, rate_limit in a       *)
(* launching thread), which share one token_attr_t segment.                *)
(*                                                                         *)
(* The segment exists and is zeroed when the actors get to it; how it is   *)
(* created is create_shm_addr's subject.  Every access to the segment is a *)
(* step of its own where another actor may come in between.                *)
(***************************************************************************)
EXTENDS RateControl, Sequences, SequencesExt

CONSTANTS
  Clients,        \* processes of the container
  Launchers,      \* those that launch kernels
  Limits,         \* core limits the monitor may be started with
  Utils,          \* utilisations NVML reports
  MaxCycle,       \* bound on add_per_cycle
  SemMax,         \* SEM_VALUE_MAX
  LaunchSamples,  \* LAUNCH_SAMPLES
  MaxAverage,     \* bound on avg_launchs
  Garbage,        \* values of an uninitialised int
  KillAt,         \* where in watch_dog the monitor may be killed or give up
  MaxKills        \* bound on that

ASSUME TokenConstantsOK ==
  /\ Launchers \subseteq Clients
  /\ Limits \subseteq Nat \ {0}
  /\ Utils \subseteq Nat
  /\ MaxCycle \in Nat \ {0}
  /\ SemMax \in Nat \ {0}
  /\ \A l \in Limits : l <= SemMax
  /\ LaunchSamples \in Nat \ {0}
  /\ MaxAverage \in Nat \ {0}
  /\ Garbage \subseteq Int
  /\ MaxKills \in Nat

VARIABLES
  changed, inited, core_limit, mod_times, add_per_cycle,      \* token_attr_t
  avg_launchs, launch_idx, launch_times, ready,               \* token_attr_t
  mon, limit, util, idx, cur, last, kills,   \* the monitor: pc, argument, locals
  pc, tokens, rate, interval, launches, loop,  \* per client: token_post
  launch                                  \* per client: a launching thread

attr == <<changed, inited, core_limit, mod_times, add_per_cycle,
          avg_launchs, launch_idx, launch_times, ready>>
monitor == <<mon, limit, util, idx, cur, last, kills>>
client == <<pc, tokens, rate, interval, launches, loop>>
vars == <<attr, monitor, client, launch>>

MonitorPC == {"start", "params", "inited", "post", "resize", "flag",
              "watch", "cur", "last", "change", "notify"}
ClientPC == {"off", "check", "wait", "tokens", "load", "read", "clear",
             "reset", "sleep", "sample", "bump"}
Count == 0 .. SemMax

TypeOK ==
  /\ changed \in {0, 1} /\ inited \in {0, 1} /\ ready \in Count
  /\ core_limit \in Limits \cup {0}
  /\ mod_times \in ModTimes
  /\ add_per_cycle \in 0 .. MaxCycle
  /\ avg_launchs \in [{0, 1} -> 0 .. MaxAverage]
  /\ launch_idx \in {0, 1}
  /\ launch_times \in Nat
  /\ mon \in MonitorPC /\ limit \in Limits \cup {0} /\ util \in Utils \cup {0}
  /\ idx \in {0, 1} /\ cur \in 0 .. MaxAverage /\ last \in 0 .. MaxAverage /\ kills \in 0 .. MaxKills
  /\ pc \in [Clients -> ClientPC]
  /\ tokens \in [Clients -> Count]
  /\ rate \in [Clients -> Garbage \cup 0 .. MaxCycle]
  /\ interval \in [Clients -> {0, 1}]
  /\ launches \in [Clients -> [0 .. LaunchSamples - 1 -> Nat]]
  /\ loop \in [Clients -> 0 .. LaunchSamples - 1]
  /\ launch \in [Clients -> {"idle", "wait", "count"}]

\* The zeroed segment, no monitor, no process.  interval is the tv_nsec of
\* token_post's timespec: 0, or 1 for wait_time's 100 ms.
Init ==
  /\ changed = 0 /\ inited = 0 /\ core_limit = 0 /\ mod_times = 0 /\ add_per_cycle = 0
  /\ avg_launchs = [i \in {0, 1} |-> 0] /\ launch_idx = 0 /\ launch_times = 0 /\ ready = 0
  /\ mon = "start" /\ limit = 0 /\ util = 0 /\ idx = 0 /\ cur = 0 /\ last = 0 /\ kills = 0
  /\ pc = [c \in Clients |-> "off"]
  /\ tokens = [c \in Clients |-> 0]
  /\ rate \in [Clients -> Garbage]
  /\ interval = [c \in Clients |-> 0]
  /\ launches = [c \in Clients |-> [i \in 0 .. LaunchSamples - 1 |-> 0]]
  /\ loop = [c \in Clients |-> 0]
  /\ launch = [c \in Clients |-> "idle"]

-----------------------------------------------------------------------------
(* server_monitor *)

\* main: the limit is an argument; watch_dog maps the segment.
MonStart ==
  /\ mon = "start"
  /\ \E l \in Limits : limit' = l
  /\ mon' = IF inited = 0 THEN "params" ELSE "resize"
  /\ UNCHANGED <<attr, util, idx, cur, last, kills, client, launch>>

\* Mutant: add_per_cycle is left at 0.
InitParamsNoRate ==
  /\ mon = "params"
  /\ core_limit' = limit /\ mod_times' = 0
  /\ avg_launchs' = [i \in {0, 1} |-> 0] /\ launch_idx' = 0
  /\ mon' = "inited"
  /\ UNCHANGED <<changed, inited, add_per_cycle, launch_times, ready, limit, util, idx, cur, last,
                 kills, client, launch>>

\* init_attr on a fresh segment: the parameters ...
InitParams ==
  /\ mon = "params"
  /\ core_limit' = limit /\ mod_times' = 0 /\ add_per_cycle' = 1
  /\ avg_launchs' = [i \in {0, 1} |-> 0] /\ launch_idx' = 0
  /\ mon' = "inited"
  /\ UNCHANGED <<changed, inited, launch_times, ready, limit, util, idx, cur, last, kills, client, launch>>

\* ... then inited ...
InitInited ==
  /\ mon = "inited"
  /\ inited' = 1
  /\ mon' = "post"
  /\ UNCHANGED <<changed, core_limit, mod_times, add_per_cycle, avg_launchs, launch_idx,
                 launch_times, ready, limit, util, idx, cur, last, kills, client, launch>>

\* Mutant: nobody is woken.
InitPostMissing ==
  /\ mon = "post"
  /\ mon' = "resize"
  /\ UNCHANGED <<attr, limit, util, idx, cur, last, kills, client, launch>>

\* ... then sem_post(&attr->ready), once.
InitPost ==
  /\ mon = "post"
  /\ ready' = IF ready < SemMax THEN ready + 1 ELSE ready
  /\ mon' = "resize"
  /\ UNCHANGED <<changed, inited, core_limit, mod_times, add_per_cycle, avg_launchs, launch_idx,
                 launch_times, limit, util, idx, cur, last, kills, client, launch>>

\* init_attr's second half: another limit than the one in the segment.
InitResize ==
  /\ mon = "resize"
  /\ IF core_limit # limit
       THEN /\ core_limit' = limit /\ mod_times' = 0
            /\ add_per_cycle' = Rescale(add_per_cycle, core_limit', limit)
       ELSE UNCHANGED <<core_limit, mod_times, add_per_cycle>>
  /\ mon' = "flag"
  /\ UNCHANGED <<changed, inited, avg_launchs, launch_idx, launch_times, ready,
                 limit, util, idx, cur, last, kills, client, launch>>

\* attr->changed = 1, at the end of init_attr and of delta_change.
Notify ==
  /\ mon \in {"flag", "notify"}
  /\ changed' = 1
  /\ mon' = "watch"
  /\ UNCHANGED <<inited, core_limit, mod_times, add_per_cycle, avg_launchs, launch_idx,
                 launch_times, ready, limit, util, idx, cur, last, kills, client, launch>>

\* Mutant: delta_change does not test changed first.
WatchAlways ==
  /\ mon = "watch"
  /\ \E u \in Utils : util' = u
  /\ mon' = "cur"
  /\ UNCHANGED <<attr, limit, idx, cur, last, kills, client, launch>>

\* One turn of watch_dog's loop that gets past delta_change's first test.  A
\* turn without a sample (util < 0), or while the last change has not been
\* picked up, changes nothing and is a stuttering step.
Watch ==
  /\ mon = "watch"
  /\ changed = 0
  /\ \E u \in Utils : util' = u
  /\ mon' = "cur"
  /\ UNCHANGED <<attr, limit, idx, cur, last, kills, client, launch>>

\* delta_change reads launch_idx and the two averages, while token_post may
\* write them.
ReadCur ==
  /\ mon = "cur"
  /\ idx' = launch_idx
  /\ cur' = avg_launchs[idx']
  /\ mon' = "last"
  /\ UNCHANGED <<attr, limit, util, last, kills, client, launch>>

ReadLast ==
  /\ mon = "last"
  /\ last' = avg_launchs[1 - idx]
  /\ mon' = "change"
  /\ UNCHANGED <<attr, limit, util, idx, cur, kills, client, launch>>

\* mod_times++ and the new add_per_cycle, if any (a result above MaxCycle is
\* not followed).
Change ==
  LET m == Increment(mod_times)
      new == DeltaChange(m, add_per_cycle, util, limit, cur, last)
  IN
  /\ mon = "change"
  /\ mod_times' = m
  /\ IF new = {}
       THEN mon' = "watch" /\ UNCHANGED add_per_cycle
       ELSE mon' = "notify" /\ add_per_cycle' \in {n \in new : n <= MaxCycle}
  /\ util' = 0 /\ idx' = 0 /\ cur' = 0 /\ last' = 0
  /\ UNCHANGED <<changed, inited, core_limit, avg_launchs, launch_idx, launch_times, ready,
                 limit, kills, client, launch>>

\* The monitor is killed, or watch_dog returns because NVML fails; it may be
\* started again.
MonKill ==
  /\ mon \in KillAt
  /\ kills < MaxKills
  /\ kills' = kills + 1
  /\ mon' = "start" /\ limit' = 0 /\ util' = 0 /\ idx' = 0 /\ cur' = 0 /\ last' = 0
  /\ UNCHANGED <<attr, client, launch>>

\* What the monitor does by itself; Watch also needs a sample from NVML.
MonStep == \/ InitParams \/ InitInited \/ InitPost \/ InitResize \/ Notify
           \/ ReadCur \/ ReadLast \/ Change

-----------------------------------------------------------------------------
(* A process of the container *)

Goto(c, to) == pc' = [pc EXCEPT ![c] = to]

\* _init_device_prop: sem_init(&attr->ready, 1, 0), whoever uses it already.
SemInit(c) ==
  /\ pc[c] = "off"
  /\ ready' = 0
  /\ Goto(c, "check")
  /\ UNCHANGED <<changed, inited, core_limit, mod_times, add_per_cycle, avg_launchs, launch_idx,
                 launch_times, monitor, tokens, rate, interval, launches, loop, launch>>

\* Mutant: waits although the segment is initialised.
CheckAlwaysWait(c) ==
  /\ pc[c] = "check"
  /\ Goto(c, "wait")
  /\ UNCHANGED <<attr, monitor, tokens, rate, interval, launches, loop, launch>>

\* Mutant: never waits.
CheckNeverWait(c) ==
  /\ pc[c] = "check"
  /\ Goto(c, "tokens")
  /\ UNCHANGED <<attr, monitor, tokens, rate, interval, launches, loop, launch>>

\* if (!attr->inited) sem_wait(&attr->ready)
CheckInited(c) ==
  /\ pc[c] = "check"
  /\ Goto(c, IF inited = 0 THEN "wait" ELSE "tokens")
  /\ UNCHANGED <<attr, monitor, tokens, rate, interval, launches, loop, launch>>

SemWait(c) ==
  /\ pc[c] = "wait"
  /\ ready > 0
  /\ ready' = ready - 1
  /\ Goto(c, "tokens")
  /\ UNCHANGED <<changed, inited, core_limit, mod_times, add_per_cycle, avg_launchs, launch_idx,
                 launch_times, monitor, tokens, rate, interval, launches, loop, launch>>

\* sem_init(&gpu_device.tokens, 0, core_limit), then token_post is started.
TokensInit(c) ==
  /\ pc[c] = "tokens"
  /\ tokens' = [tokens EXCEPT ![c] = core_limit]
  /\ Goto(c, "load")
  /\ UNCHANGED <<attr, monitor, rate, interval, launches, loop, launch>>

\* token_post: loop++; is there a change to pick up?
LoadChanged(c) ==
  /\ pc[c] = "load"
  /\ loop' = [loop EXCEPT ![c] = (@ + 1) % LaunchSamples]
  /\ Goto(c, IF changed = 1 THEN "read" ELSE "reset")
  /\ UNCHANGED <<attr, monitor, tokens, rate, interval, launches, launch>>

\* wait_time is set by init_attr together with core_limit.
ReadRate(c) ==
  /\ pc[c] = "read"
  /\ interval' = [interval EXCEPT ![c] = IF core_limit = 0 THEN 0 ELSE 1]
  /\ rate' = [rate EXCEPT ![c] = add_per_cycle]
  /\ Goto(c, "clear")
  /\ UNCHANGED <<attr, monitor, tokens, launches, loop, launch>>

ClearChanged(c) ==
  /\ pc[c] = "clear"
  /\ changed' = 0
  /\ Goto(c, "reset")
  /\ UNCHANGED <<inited, core_limit, mod_times, add_per_cycle, avg_launchs, launch_idx,
                 launch_times, ready, monitor, tokens, rate, interval, launches, loop, launch>>

ResetLaunches(c) ==
  /\ pc[c] = "reset"
  /\ launch_times' = 0
  /\ Goto(c, "sleep")
  /\ UNCHANGED <<changed, inited, core_limit, mod_times, add_per_cycle, avg_launchs, launch_idx,
                 ready, monitor, tokens, rate, interval, launches, loop, launch>>

\* wait_duration, then params.add_per_cycle times sem_post(&dev->tokens),
\* which fails unnoticed at SEM_VALUE_MAX.
PostTokens(c) ==
  LET n == tokens[c] + (IF rate[c] > 0 THEN rate[c] ELSE 0) IN
  /\ pc[c] = "sleep"
  /\ tokens' = [tokens EXCEPT ![c] = IF n < SemMax THEN n ELSE SemMax]
  /\ Goto(c, "sample")
  /\ UNCHANGED <<attr, monitor, rate, interval, launches, loop, launch>>

\* The mean over the nonzero samples, plus one in the divisor; never 0.
Average(samples) ==
  LET nonzero == {i \in DOMAIN samples : samples[i] > 0}
  IN  AtLeast1(MapThenSumSet(LAMBDA i : samples[i], nonzero) \div (Cardinality(nonzero) + 1))

SampleLaunches(c) ==
  /\ pc[c] = "sample"
  /\ launches' = [launches EXCEPT ![c][loop[c]] = launch_times]
  /\ \E n \in 0 .. MaxAverage :
       n = Average(launches'[c]) /\ avg_launchs' = [avg_launchs EXCEPT ![launch_idx] = n]
  /\ Goto(c, "bump")
  /\ UNCHANGED <<changed, inited, core_limit, mod_times, add_per_cycle, launch_idx,
                 launch_times, ready, monitor, tokens, rate, interval, loop, launch>>

BumpIndex(c) ==
  /\ pc[c] = "bump"
  /\ launch_idx' = 1 - launch_idx
  /\ Goto(c, "load")
  /\ UNCHANGED <<changed, inited, core_limit, mod_times, add_per_cycle, avg_launchs,
                 launch_times, ready, monitor, tokens, rate, interval, launches, loop, launch>>

\* cuLaunchKernel and its variants call rate_limit first; application code
\* runs once the constructor has returned.
LaunchCall(c) ==
  /\ c \in Launchers
  /\ pc[c] \notin {"off", "check", "wait", "tokens"}
  /\ launch[c] = "idle"
  /\ launch' = [launch EXCEPT ![c] = "wait"]
  /\ UNCHANGED <<attr, monitor, client>>

\* Mutant: the launch does not wait for a token.
TakeTokenNoWait(c) ==
  /\ launch[c] = "wait"
  /\ tokens' = [tokens EXCEPT ![c] = @ - 1]
  /\ launch' = [launch EXCEPT ![c] = "count"]
  /\ UNCHANGED <<attr, monitor, pc, rate, interval, launches, loop>>

\* rate_limit: sem_wait(&dev->tokens) ...
TakeToken(c) ==
  /\ launch[c] = "wait"
  /\ tokens[c] > 0
  /\ tokens' = [tokens EXCEPT ![c] = @ - 1]
  /\ launch' = [launch EXCEPT ![c] = "count"]
  /\ UNCHANGED <<attr, monitor, pc, rate, interval, launches, loop>>

\* ... then launch_times is counted and the real launch made.
CountLaunch(c) ==
  /\ launch[c] = "count"
  /\ launch_times' = launch_times + 1
  /\ launch' = [launch EXCEPT ![c] = "idle"]
  /\ UNCHANGED <<changed, inited, core_limit, mod_times, add_per_cycle, avg_launchs, launch_idx,
                 ready, monitor, client>>

ClientInit(c) == CheckInited(c) \/ SemWait(c) \/ TokensInit(c)
TokenPost(c) == \/ LoadChanged(c) \/ ReadRate(c) \/ ClearChanged(c) \/ ResetLaunches(c)
                \/ PostTokens(c) \/ SampleLaunches(c) \/ BumpIndex(c)
RateLimit(c) == TakeToken(c) \/ CountLaunch(c)

Next ==
  \/ MonStart \/ MonStep \/ Watch \/ MonKill
  \/ \E c \in Clients : SemInit(c) \/ ClientInit(c) \/ TokenPost(c)
                        \/ LaunchCall(c) \/ RateLimit(c)

Spec == Init /\ [][Next]_vars

\* The monitor is started, as the README asks; threads and processes that can
\* run do.  Processes need not start, launches need not be made, NVML need not
\* deliver a sample.
Fairness ==
  /\ WF_vars(MonStart) /\ WF_vars(MonStep)
  /\ \A c \in Clients : WF_vars(ClientInit(c)) /\ WF_vars(TokenPost(c)) /\ WF_vars(RateLimit(c))

FairSpec == Spec /\ Fairness

-----------------------------------------------------------------------------
(* Properties *)

\* A process that got past the ready semaphore finds the parameters set: its
\* tokens start from a real core_limit, and a rate it reads posts tokens.
InitBeforeUse ==
  \A c \in Clients : pc[c] \notin {"off", "check", "wait"} =>
    inited = 1 /\ core_limit \in Limits /\ add_per_cycle >= 1

\* The wakeup is not lost for a process alone in its container: if it waits
\* although the segment is initialised, the post is there or about to come.
NoLostWakeup ==
  \A c \in Clients : pc[c] = "wait" /\ inited = 1 /\ mon # "post" => ready > 0

\* The changed flag loses no rate for a process alone in its container: once
\* the flag is down and the monitor watches, token_post works with the
\* add_per_cycle of the segment, across restarts of the monitor.
RateDelivered ==
  \A c \in Clients :
    interval[c] = 1 /\ changed = 0 /\ mon \in {"watch", "cur", "last", "change"} =>
      rate[c] = add_per_cycle

\* A process that initialises gets through it, so that its constructor returns.
ClientStarts == \A c \in Clients : pc[c] = "check" ~> pc[c] = "load"

\* A kernel launch waiting in rate_limit gets its token, whatever the
\* uninitialised rate was and whatever happens to the monitor.
LaunchProceeds == \A c \in Clients : launch[c] = "wait" ~> launch[c] = "count"

=============================================================================
