-------------------------- MODULE TokenControlProofs --------------------------
(***************************************************************************)
(* Theorems about TokenControl for any limits, utilisations and bounds:    *)
(* one for any number of processes in the container, two for a process     *)
(* that is alone in it.                                                    *)
(***************************************************************************)
EXTENDS TokenControl, TLAPS

-----------------------------------------------------------------------------
(* Any number of processes *)

\* The part of the state that the handshake is about.
Handshake ==
  /\ mon \in MonitorPC
  /\ limit \in Limits \cup {0}
  /\ changed \in {0, 1} /\ inited \in {0, 1} /\ ready \in Nat
  /\ core_limit \in Limits \cup {0}
  /\ add_per_cycle \in Nat
  /\ avg_launchs \in [{0, 1} -> Nat] /\ launch_idx \in {0, 1}
  /\ mod_times \in Nat /\ util \in Nat /\ idx \in {0, 1} /\ cur \in Nat /\ last \in Nat
  /\ pc \in [Clients -> ClientPC]

\* How far init_attr has got decides what is in the segment, and the ready
\* semaphore is posted only when everything is.
InitOrder ==
  /\ mon # "start" => limit \in Limits
  /\ mon \in {"params", "inited"} => inited = 0
  /\ mon \notin {"start", "params", "inited"} => inited = 1
  /\ mon = "inited" \/ inited = 1 => core_limit \in Limits /\ add_per_cycle >= 1
  /\ ready > 0 => inited = 1

IndInv == Handshake /\ InitOrder /\ InitBeforeUse

\* init_attr's rescaling divides by the factor it has just multiplied with: it
\* leaves every positive rate as it is.
LEMMA RescaleIsIdentity ==
  ASSUME NEW a \in Nat, a >= 1, NEW l \in Nat \ {0}
  PROVE  Rescale(a, l, l) = a
<1>1. (a * l) \div l = a
  OBVIOUS
<1> QED BY <1>1 DEF Rescale, AtLeast1

\* delta_change never stores a rate below 1, for any measured values.
LEMMA PositiveRate ==
  ASSUME NEW m \in Nat, NEW old \in Nat, NEW u \in Nat, NEW l \in Nat,
         NEW a \in Nat, NEW b \in Nat,
         NEW n \in DeltaChange(m, old, u, l, a, b)
  PROVE  n \in Nat /\ n >= 1
<1>1. CASE m <= SampleTicks
  BY <1>1 DEF DeltaChange
<1>2. CASE ~(m <= SampleTicks)
  <2>1. PICK d \in DeltaCycle(l - u, u, a) : n = NewCycle(old, d, l - u, a, b)
    BY <1>2 DEF DeltaChange
  <2>2. d \in Int
    <3>1. CASE u = 0 \/ a = 0
      BY <2>1, <3>1 DEF DeltaCycle
    <3>2. CASE u # 0 /\ a # 0
      <4>1. Abs(l - u) * a \in Int /\ 4 * u \in Nat \ {0}
        BY <3>2 DEF Abs
      <4>2. (Abs(l - u) * a) \div (4 * u) \in Int
        BY <4>1
      <4> QED BY <2>1, <3>2, <4>2 DEF DeltaCycle
    <3> QED BY <3>1, <3>2
  <2>3. \A x \in Int : AtLeast1(x) \in Nat /\ AtLeast1(x) >= 1
    BY DEF AtLeast1
  <2> DEFINE sign == IF l - u > 0 THEN 1 ELSE -1
  <2>4. old + sign * d \in Int
    BY <2>2
  <2>5. (old * (b + 1) + sign * b * Abs(a - b)) \div (b + 1) \in Int
    <3>1. sign * b * Abs(a - b) \in Int /\ old * (b + 1) \in Int /\ b + 1 \in Nat \ {0}
      BY DEF Abs
    <3> QED BY <3>1
  <2> QED BY <2>1, <2>3, <2>4, <2>5 DEF NewCycle
<1> QED BY <1>1, <1>2

\* The zeroed segment without a monitor satisfies the inductive invariant.
LEMMA IndInvInit == Init => IndInv
BY TokenConstantsOK
DEF Init, IndInv, Handshake, InitOrder, InitBeforeUse, MonitorPC, ClientPC

\* Every step of the monitor and of a process keeps it: the order of init_attr's
\* stores and the sem_post is what the proof rests on.
LEMMA IndInvStep == IndInv /\ [Next]_vars => IndInv'
<1> SUFFICES ASSUME IndInv, [Next]_vars PROVE IndInv'
  OBVIOUS
<1> USE TokenConstantsOK DEF IndInv, Handshake, InitOrder, InitBeforeUse, MonitorPC, ClientPC,
                            attr, monitor, client
<1>1. CASE MonStart
  BY <1>1 DEF MonStart
<1>2. CASE InitParams
  BY <1>2 DEF InitParams
<1>3. CASE InitInited
  BY <1>3 DEF InitInited
<1>4. CASE InitPost
  BY <1>4 DEF InitPost
<1>5. CASE InitResize
  <2>1. limit \in Nat \ {0} /\ add_per_cycle >= 1
    BY <1>5 DEF InitResize
  <2>2. Rescale(add_per_cycle, limit, limit) = add_per_cycle
    BY <2>1, RescaleIsIdentity
  <2> QED BY <1>5, <2>1, <2>2 DEF InitResize
<1>6. CASE Notify
  BY <1>6 DEF Notify
<1>7. CASE Watch
  BY <1>7 DEF Watch
<1>8. CASE ReadCur
  BY <1>8 DEF ReadCur
<1>9. CASE ReadLast
  BY <1>9 DEF ReadLast
<1>10. CASE Change
  <2>1. Increment(mod_times) \in Nat
    BY RateConstantsOK DEF Increment
  <2>2. \A n \in DeltaChange(Increment(mod_times), add_per_cycle, util, limit, cur, last) :
          n \in Nat /\ n >= 1
    BY <2>1, PositiveRate
  <2>3. add_per_cycle' \in Nat /\ (add_per_cycle >= 1 => add_per_cycle' >= 1)
    BY <1>10, <2>2 DEF Change
  <2> QED BY <1>10, <2>1, <2>3 DEF Change
<1>11. CASE MonKill
  BY <1>11 DEF MonKill
<1>12. ASSUME NEW c \in Clients,
              SemInit(c) \/ ClientInit(c) \/ TokenPost(c) \/ LaunchCall(c) \/ RateLimit(c)
       PROVE  IndInv'
  <2>1. CASE SemInit(c)
    BY <2>1 DEF SemInit, Goto
  <2>2. CASE CheckInited(c)
    BY <2>2 DEF CheckInited, Goto
  <2>3. CASE SemWait(c)
    BY <2>3 DEF SemWait, Goto
  <2>4. CASE TokensInit(c)
    BY <2>4 DEF TokensInit, Goto
  <2>5. CASE LoadChanged(c)
    BY <2>5 DEF LoadChanged, Goto
  <2>6. CASE ReadRate(c)
    BY <2>6 DEF ReadRate, Goto
  <2>7. CASE ClearChanged(c)
    BY <2>7 DEF ClearChanged, Goto
  <2>8. CASE ResetLaunches(c)
    BY <2>8 DEF ResetLaunches, Goto
  <2>9. CASE PostTokens(c)
    BY <2>9 DEF PostTokens, Goto
  <2>10. CASE SampleLaunches(c)
    BY <2>10 DEF SampleLaunches, Goto
  <2>11. CASE BumpIndex(c)
    BY <2>11 DEF BumpIndex, Goto
  <2>12. CASE LaunchCall(c)
    BY <2>12 DEF LaunchCall
  <2>13. CASE TakeToken(c)
    BY <2>13 DEF TakeToken
  <2>14. CASE CountLaunch(c)
    BY <2>14 DEF CountLaunch
  <2> QED BY <1>12, <2>1, <2>2, <2>3, <2>4, <2>5, <2>6, <2>7, <2>8, <2>9, <2>10, <2>11, <2>12, <2>13, <2>14
         DEF ClientInit, TokenPost, RateLimit
<1>13. CASE UNCHANGED vars
  BY <1>13 DEF vars
<1> QED BY <1>1, <1>2, <1>3, <1>4, <1>5, <1>6, <1>7, <1>8, <1>9, <1>10, <1>11, <1>12, <1>13 DEF Next, MonStep

\* The inductive invariant holds in every reachable state.
LEMMA IndInvAlways == Spec => []IndInv
BY IndInvInit, IndInvStep, PTL DEF Spec

\* No process of the container, however many there are, starts its token thread
\* before init_attr has set the parameters.
THEOREM ParametersFirst == Spec => []InitBeforeUse
<1>1. IndInv => InitBeforeUse
  BY DEF IndInv
<1> QED BY <1>1, IndInvAlways, PTL

-----------------------------------------------------------------------------
(* A process alone in its container *)

\* NoLostWakeup is kept by every step: the monitor sets inited before it posts,
\* the process clears the semaphore before it looks at inited.
LEMMA WakeupStep ==
  ASSUME \A c, d \in Clients : c = d, "post" \notin KillAt,
         IndInv, NoLostWakeup, [Next]_vars
  PROVE  NoLostWakeup'
<1> USE TokenConstantsOK DEF IndInv, Handshake, InitOrder, InitBeforeUse, NoLostWakeup,
                            MonitorPC, ClientPC, attr, monitor, client
<1>1. CASE MonStart
  BY <1>1 DEF MonStart
<1>2. CASE InitParams
  BY <1>2 DEF InitParams
<1>3. CASE InitInited
  BY <1>3 DEF InitInited
<1>4. CASE InitPost
  BY <1>4 DEF InitPost
<1>5. CASE InitResize
  BY <1>5 DEF InitResize
<1>6. CASE Notify
  BY <1>6 DEF Notify
<1>7. CASE Watch
  BY <1>7 DEF Watch
<1>8. CASE ReadCur
  BY <1>8 DEF ReadCur
<1>9. CASE ReadLast
  BY <1>9 DEF ReadLast
<1>10. CASE Change
  BY <1>10 DEF Change
<1>11. CASE MonKill
  BY <1>11 DEF MonKill
<1>12. ASSUME NEW c \in Clients,
              SemInit(c) \/ ClientInit(c) \/ TokenPost(c) \/ LaunchCall(c) \/ RateLimit(c)
       PROVE  NoLostWakeup'
  <2>1. CASE SemInit(c)
    BY <2>1 DEF SemInit, Goto
  <2>2. CASE CheckInited(c)
    BY <2>2 DEF CheckInited, Goto
  <2>3. CASE SemWait(c)
    BY <2>3 DEF SemWait, Goto
  <2>4. CASE TokensInit(c)
    BY <2>4 DEF TokensInit, Goto
  <2>5. CASE LoadChanged(c)
    BY <2>5 DEF LoadChanged, Goto
  <2>6. CASE ReadRate(c)
    BY <2>6 DEF ReadRate, Goto
  <2>7. CASE ClearChanged(c)
    BY <2>7 DEF ClearChanged, Goto
  <2>8. CASE ResetLaunches(c)
    BY <2>8 DEF ResetLaunches, Goto
  <2>9. CASE PostTokens(c)
    BY <2>9 DEF PostTokens, Goto
  <2>10. CASE SampleLaunches(c)
    BY <2>10 DEF SampleLaunches, Goto
  <2>11. CASE BumpIndex(c)
    BY <2>11 DEF BumpIndex, Goto
  <2>12. CASE LaunchCall(c)
    BY <2>12 DEF LaunchCall
  <2>13. CASE TakeToken(c)
    BY <2>13 DEF TakeToken
  <2>14. CASE CountLaunch(c)
    BY <2>14 DEF CountLaunch
  <2> QED BY <1>12, <2>1, <2>2, <2>3, <2>4, <2>5, <2>6, <2>7, <2>8, <2>9, <2>10, <2>11, <2>12, <2>13, <2>14
         DEF ClientInit, TokenPost, RateLimit
<1>13. CASE UNCHANGED vars
  BY <1>13 DEF vars
<1> QED BY <1>1, <1>2, <1>3, <1>4, <1>5, <1>6, <1>7, <1>8, <1>9, <1>10, <1>11, <1>12, <1>13 DEF Next, MonStep

\* A process alone in its container does not miss the monitor's only sem_post,
\* unless the monitor dies exactly between `inited = 1' and sem_post.
THEOREM WakeupKept ==
  ASSUME \A c, d \in Clients : c = d, "post" \notin KillAt
  PROVE  Spec => []NoLostWakeup
<1>1. Init => NoLostWakeup
  BY DEF Init, NoLostWakeup
<1>2. IndInv /\ NoLostWakeup /\ [Next]_vars => NoLostWakeup'
  BY WakeupStep
<1> QED BY <1>1, <1>2, IndInvAlways, PTL DEF Spec

\* Why a rate is not lost: the monitor changes add_per_cycle only while the
\* flag is down, the process reads it only while the flag is up, and it still
\* has the segment's value when it takes the flag down.
Delivery ==
  /\ rate \in [Clients -> Int] /\ interval \in [Clients -> {0, 1}]
  /\ mon \in {"cur", "last", "change", "notify"} => changed = 0
  /\ \A c \in Clients : pc[c] \in {"read", "clear"} => changed = 1
  /\ \A c \in Clients : pc[c] = "clear" => rate[c] = add_per_cycle
  /\ \A c \in Clients : interval[c] = 1 => inited = 1
  /\ RateDelivered

\* With one process every step keeps the delivery invariant: between token_post's
\* read of add_per_cycle and its store to changed the monitor cannot get past
\* delta_change's first test.
LEMMA DeliveryStep ==
  ASSUME \A c, d \in Clients : c = d, IndInv, Delivery, [Next]_vars
  PROVE  Delivery'
<1> USE TokenConstantsOK DEF IndInv, Handshake, InitOrder, InitBeforeUse, Delivery, RateDelivered,
                            MonitorPC, ClientPC, attr, monitor, client
<1>1. CASE MonStart
  BY <1>1 DEF MonStart
<1>2. CASE InitParams
  BY <1>2 DEF InitParams
<1>3. CASE InitInited
  BY <1>3 DEF InitInited
<1>4. CASE InitPost
  BY <1>4 DEF InitPost
<1>5. CASE InitResize
  <2>1. limit \in Nat \ {0} /\ add_per_cycle >= 1
    BY <1>5 DEF InitResize
  <2>2. Rescale(add_per_cycle, limit, limit) = add_per_cycle
    BY <2>1, RescaleIsIdentity
  <2> QED BY <1>5, <2>1, <2>2 DEF InitResize
<1>6. CASE Notify
  BY <1>6 DEF Notify
<1>7. CASE Watch
  BY <1>7 DEF Watch
<1>8. CASE ReadCur
  BY <1>8 DEF ReadCur
<1>9. CASE ReadLast
  BY <1>9 DEF ReadLast
<1>10. CASE Change
  BY <1>10 DEF Change
<1>11. CASE MonKill
  BY <1>11 DEF MonKill
<1>12. ASSUME NEW c \in Clients,
              SemInit(c) \/ ClientInit(c) \/ TokenPost(c) \/ LaunchCall(c) \/ RateLimit(c)
       PROVE  Delivery'
  <2>1. CASE SemInit(c)
    BY <2>1 DEF SemInit, Goto
  <2>2. CASE CheckInited(c)
    BY <2>2 DEF CheckInited, Goto
  <2>3. CASE SemWait(c)
    BY <2>3 DEF SemWait, Goto
  <2>4. CASE TokensInit(c)
    BY <2>4 DEF TokensInit, Goto
  <2>5. CASE LoadChanged(c)
    BY <2>5 DEF LoadChanged, Goto
  <2>6. CASE ReadRate(c)
    BY <2>6 DEF ReadRate, Goto
  <2>7. CASE ClearChanged(c)
    BY <2>7 DEF ClearChanged, Goto
  <2>8. CASE ResetLaunches(c)
    BY <2>8 DEF ResetLaunches, Goto
  <2>9. CASE PostTokens(c)
    BY <2>9 DEF PostTokens, Goto
  <2>10. CASE SampleLaunches(c)
    BY <2>10 DEF SampleLaunches, Goto
  <2>11. CASE BumpIndex(c)
    BY <2>11 DEF BumpIndex, Goto
  <2>12. CASE LaunchCall(c)
    BY <2>12 DEF LaunchCall
  <2>13. CASE TakeToken(c)
    BY <2>13 DEF TakeToken
  <2>14. CASE CountLaunch(c)
    BY <2>14 DEF CountLaunch
  <2> QED BY <1>12, <2>1, <2>2, <2>3, <2>4, <2>5, <2>6, <2>7, <2>8, <2>9, <2>10, <2>11, <2>12, <2>13, <2>14
         DEF ClientInit, TokenPost, RateLimit
<1>13. CASE UNCHANGED vars
  BY <1>13 DEF vars
<1> QED BY <1>1, <1>2, <1>3, <1>4, <1>5, <1>6, <1>7, <1>8, <1>9, <1>10, <1>11, <1>12, <1>13 DEF Next, MonStep

\* Every rate the monitor announces reaches the token thread of a process that
\* is alone in its container, through any number of monitor restarts.
THEOREM RatesArrive ==
  ASSUME \A c, d \in Clients : c = d
  PROVE  Spec => []RateDelivered
<1>1. Init => Delivery
  BY TokenConstantsOK DEF Init, Delivery, RateDelivered
<1>2. IndInv /\ Delivery /\ [Next]_vars => Delivery'
  BY DeliveryStep
<1>3. Delivery => RateDelivered
  BY DEF Delivery
<1> QED BY <1>1, <1>2, <1>3, IndInvAlways, PTL DEF Spec

-----------------------------------------------------------------------------
(* Types *)

\* The monitor keeps its own state and the segment in their ranges: the count of
\* corrections folds back, the rescaling keeps a rate, delta_change gives none
\* below 1.
LEMMA MonitorTypes ==
  ASSUME IndInv, TypeOK, MonStart \/ MonStep \/ Watch \/ MonKill
  PROVE  TypeOK'
<1> USE DEF attr, client, MonitorPC
<1>1. CASE MonStart \/ Notify \/ Watch
  BY <1>1 DEF TypeOK, MonStart, Notify, Watch
<1>2. CASE InitParams
  <2>1. limit \in Limits /\ 0 \in ModTimes /\ 1 \in 0 .. MaxCycle /\ 0 \in 0 .. MaxAverage
    BY <1>2, RateConstantsOK, TokenConstantsOK DEF InitParams, IndInv, InitOrder, ModTimes
  <2> QED BY <1>2, <2>1 DEF TypeOK, InitParams
<1>3. CASE InitInited \/ InitPost
  <2>1. CASE InitInited
    BY <2>1 DEF TypeOK, InitInited
  <2>2. CASE InitPost
    <3>1. ready' \in Count
      BY <2>2, TokenConstantsOK DEF InitPost, TypeOK, Count
    <3> QED BY <2>2, <3>1 DEF TypeOK, InitPost
  <2> QED BY <1>3, <2>1, <2>2
<1>4. CASE InitResize
  <2>1. limit \in Limits /\ limit \in Nat \ {0} /\ add_per_cycle \in Nat /\ add_per_cycle >= 1 /\ 0 \in ModTimes
    BY <1>4, RateConstantsOK, TokenConstantsOK DEF InitResize, IndInv, InitOrder, Handshake, ModTimes
  <2>2. Rescale(add_per_cycle, limit, limit) = add_per_cycle
    BY <2>1, RescaleIsIdentity
  <2>3. core_limit' \in Limits \cup {0} /\ mod_times' \in ModTimes /\ add_per_cycle' = add_per_cycle
    BY <1>4, <2>1, <2>2 DEF InitResize, TypeOK
  <2> QED BY <1>4, <2>3 DEF TypeOK, InitResize
<1>5. CASE ReadCur \/ ReadLast
  <2>1. idx' \in {0, 1} /\ cur' \in 0 .. MaxAverage /\ last' \in 0 .. MaxAverage
    BY <1>5 DEF TypeOK, ReadCur, ReadLast
  <2>2. mon' \in MonitorPC /\ UNCHANGED <<attr, limit, util, kills, client, launch>>
    BY <1>5 DEF ReadCur, ReadLast
  <2> QED BY <2>1, <2>2 DEF TypeOK
<1>6. CASE Change
  <2>1. mod_times' \in ModTimes
    BY <1>6, RateConstantsOK DEF Change, TypeOK, ModTimes, Increment
  <2>2. Increment(mod_times) \in Nat
    BY RateConstantsOK DEF Increment, IndInv, Handshake
  <2>3. limit \in Nat
    BY TokenConstantsOK DEF IndInv, Handshake
  <2>4. \A n \in DeltaChange(Increment(mod_times), add_per_cycle, util, limit, cur, last) : n \in Nat
    BY <2>2, <2>3, PositiveRate DEF IndInv, Handshake
  <2>5. add_per_cycle' \in 0 .. MaxCycle
    BY <1>6, <2>4 DEF Change, TypeOK
  <2>6. 0 \in 0 .. MaxAverage
    BY TokenConstantsOK
  <2> QED BY <1>6, <2>1, <2>5, <2>6 DEF TypeOK, Change
<1>7. CASE MonKill
  <2>1. 0 \in 0 .. MaxAverage /\ kills' \in 0 .. MaxKills
    BY <1>7, TokenConstantsOK DEF TypeOK, MonKill
  <2> QED BY <1>7, <2>1 DEF TypeOK, MonKill
<1> QED BY <1>1, <1>2, <1>3, <1>4, <1>5, <1>6, <1>7 DEF MonStep

\* So does a process: its tokens start at a core_limit the semaphore can hold
\* and never pass SEM_VALUE_MAX or 0.
LEMMA ClientTypes ==
  ASSUME TypeOK, NEW c \in Clients,
         SemInit(c) \/ ClientInit(c) \/ TokenPost(c) \/ LaunchCall(c) \/ RateLimit(c)
  PROVE  TypeOK'
<1> USE DEF attr, monitor, client, ClientPC, Goto
<1>1. CASE SemInit(c)
  <2>1. 0 \in Count
    BY TokenConstantsOK DEF Count
  <2> QED BY <1>1, <2>1 DEF TypeOK, SemInit
<1>2. CASE CheckInited(c)
  BY <1>2 DEF TypeOK, CheckInited
<1>3. CASE SemWait(c)
  <2>1. ready' \in Count
    BY <1>3, TokenConstantsOK DEF SemWait, TypeOK, Count
  <2> QED BY <1>3, <2>1 DEF TypeOK, SemWait
<1>4. CASE TokensInit(c)
  <2>1. core_limit \in Count
    BY TokenConstantsOK DEF TypeOK, Count
  <2> QED BY <1>4, <2>1 DEF TypeOK, TokensInit
<1>5. CASE LoadChanged(c)
  <2>1. \A n \in 0 .. LaunchSamples - 1 : (n + 1) % LaunchSamples \in 0 .. LaunchSamples - 1
    BY TokenConstantsOK
  <2>2. loop' \in [Clients -> 0 .. LaunchSamples - 1]
    BY <1>5, <2>1 DEF LoadChanged, TypeOK
  <2> QED BY <1>5, <2>2 DEF TypeOK, LoadChanged
<1>6. CASE ReadRate(c)
  BY <1>6 DEF TypeOK, ReadRate
<1>7. CASE ClearChanged(c) \/ ResetLaunches(c)
  <2>1. CASE ClearChanged(c)
    BY <2>1 DEF TypeOK, ClearChanged
  <2>2. CASE ResetLaunches(c)
    BY <2>2 DEF TypeOK, ResetLaunches
  <2> QED BY <1>7, <2>1, <2>2
<1>8. CASE PostTokens(c)
  <2>1. tokens[c] \in Count /\ rate[c] \in Garbage \cup 0 .. MaxCycle /\ tokens \in [Clients -> Count]
    BY DEF TypeOK
  <2>2. rate[c] \in Int /\ SemMax \in Nat
    <3>1. Garbage \subseteq Int /\ 0 .. MaxCycle \subseteq Int /\ SemMax \in Nat
      BY TokenConstantsOK
    <3> QED BY <2>1, <3>1
  <2>3. \A n \in Int : n >= 0 => (IF n < SemMax THEN n ELSE SemMax) \in Count
    BY <2>2 DEF Count
  <2>4. tokens[c] + (IF rate[c] > 0 THEN rate[c] ELSE 0) \in Int /\ tokens[c] + (IF rate[c] > 0 THEN rate[c] ELSE 0) >= 0
    BY <2>1, <2>2 DEF Count
  <2>5. tokens' \in [Clients -> Count]
    BY <1>8, <2>1, <2>3, <2>4 DEF PostTokens
  <2> QED BY <1>8, <2>5 DEF TypeOK, PostTokens
<1>9. CASE SampleLaunches(c)
  <2>1. launches[c] \in [0 .. LaunchSamples - 1 -> Nat] /\ launch_times \in Nat /\ loop[c] \in 0 .. LaunchSamples - 1
    BY DEF TypeOK
  <2>2. launches' \in [Clients -> [0 .. LaunchSamples - 1 -> Nat]]
    BY <1>9, <2>1 DEF SampleLaunches, TypeOK
  <2>3. avg_launchs' \in [{0, 1} -> 0 .. MaxAverage]
    BY <1>9 DEF SampleLaunches, TypeOK
  <2>4. /\ pc' = [pc EXCEPT ![c] = "bump"]
        /\ UNCHANGED <<changed, inited, core_limit, mod_times, add_per_cycle, launch_idx,
                       launch_times, ready, mon, limit, util, idx, cur, last, kills, tokens, rate, interval, loop, launch>>
    BY <1>9 DEF SampleLaunches
  <2> QED BY <2>2, <2>3, <2>4 DEF TypeOK
<1>10. CASE BumpIndex(c)
  <2>1. launch_idx' \in {0, 1}
    BY <1>10 DEF TypeOK, BumpIndex
  <2> QED BY <1>10, <2>1 DEF TypeOK, BumpIndex
<1>11. CASE LaunchCall(c)
  BY <1>11 DEF TypeOK, LaunchCall
<1>12. CASE TakeToken(c)
  <2>1. tokens' \in [Clients -> Count]
    BY <1>12, TokenConstantsOK DEF TakeToken, TypeOK, Count
  <2> QED BY <1>12, <2>1 DEF TypeOK, TakeToken
<1>13. CASE CountLaunch(c)
  <2>1. launch_times' \in Nat
    BY <1>13 DEF TypeOK, CountLaunch
  <2> QED BY <1>13, <2>1 DEF TypeOK, CountLaunch
<1> QED BY <1>1, <1>2, <1>3, <1>4, <1>5, <1>6, <1>7, <1>8, <1>9, <1>10, <1>11, <1>12, <1>13
       DEF ClientInit, TokenPost, RateLimit

\* Types hold in every state of the monitor, the segment and its processes: the
\* semaphores stay between 0 and SEM_VALUE_MAX whatever an uninitialised rate
\* posts, and the indices of the launch samples and averages stay in their arrays.
THEOREM TokenTypeCorrect == Spec => []TypeOK
<1>1. Init => TypeOK
  BY TokenConstantsOK, RateConstantsOK DEF Init, TypeOK, Count, ModTimes, MonitorPC, ClientPC
<1>2. IndInv /\ TypeOK /\ [Next]_vars => TypeOK'
  <2>1. TypeOK /\ UNCHANGED vars => TypeOK'
    BY DEF TypeOK, vars, attr, monitor, client
  <2> QED BY <2>1, MonitorTypes, ClientTypes DEF Next
<1> QED BY <1>1, <1>2, IndInvAlways, PTL DEF Spec

=============================================================================
