---------------------------- MODULE MonitorProofs ----------------------------
(***************************************************************************)
(* Theorems about Monitor: the arithmetic of delta_change for any measured *)
(* values, and the search for the container among any samples.             *)
(***************************************************************************)
EXTENDS Monitor, TLAPS

-----------------------------------------------------------------------------
(* delta_change *)

\* Truncating division by a positive number, rounded down.
LEMMA DivBounds ==
  ASSUME NEW a \in Int, NEW b \in Nat \ {0}
  PROVE  /\ a \div b \in Int
         /\ (a \div b) * b <= a /\ a < (a \div b) * b + b
OBVIOUS

\* A product grows with either factor.
LEMMA TimesGrows ==
  ASSUME NEW x \in Nat, NEW y \in Nat, NEW z \in Nat, x <= y
  PROVE  x * z <= y * z /\ x * z \in Nat /\ y * z \in Nat
<1>1. (y - x) * z \in Nat /\ y * z = x * z + (y - x) * z
  OBVIOUS
<1>2. x * z \in Nat
  OBVIOUS
<1> QED BY <1>1, <1>2

\* A factor can be taken out of a comparison.
LEMMA TimesOrder ==
  ASSUME NEW x \in Int, NEW y \in Int, NEW z \in Nat \ {0}
  PROVE  /\ x * z < y * z + z => x <= y
         /\ x * z <= y * z => x <= y
<1>1. ASSUME x > y PROVE x * z >= y * z + z
  <2>1. (x - y - 1) \in Nat /\ x * z = y * z + z + (x - y - 1) * z
    BY <1>1
  <2>2. (x - y - 1) * z \in Nat
    BY <2>1
  <2>3. y * z \in Int
    OBVIOUS
  <2> QED BY <2>1, <2>2, <2>3
<1>2. x * z \in Int /\ y * z \in Int
  OBVIOUS
<1> QED BY <1>1, <1>2

\* delta_cycle is never negative, and 0 when the limit is met.
LEMMA DeltaCycleType ==
  ASSUME NEW limit \in Nat \ {0}, NEW util \in Nat, NEW c \in Nat,
         NEW d \in DeltaCycle(limit - util, util, c)
  PROVE  d \in Nat /\ (limit = util => d = 0)
<1>1. CASE util = 0
  BY <1>1 DEF DeltaCycle
<1>2. CASE util # 0 /\ c = 0
  BY <1>2 DEF DeltaCycle
<1>3. CASE util # 0 /\ c # 0
  <2> DEFINE num == Abs(limit - util) * c
             den == 4 * util
  <2>1. Abs(limit - util) \in Nat /\ (limit = util => Abs(limit - util) = 0)
    BY DEF Abs
  <2>2. num \in Nat /\ den \in Nat \ {0} /\ (limit = util => num = 0)
    BY <1>3, <2>1
  <2>3. d \in {num \div den} \cup {q \in {(num \div den) - 1} : q >= 0 /\ num % den = 0}
    BY <1>3 DEF DeltaCycle
  <2> HIDE DEF num, den
  <2>4. num \div den \in Nat /\ (num = 0 => num \div den = 0)
    BY <2>2
  <2> QED BY <2>2, <2>3, <2>4
<1> QED BY <1>1, <1>2, <1>3

\* The clamp at 1 moves a rate that is at most 1 away towards the old one.
LEMMA ClampTowards ==
  ASSUME NEW n \in Int, NEW old \in Nat \ {0}
  PROVE  /\ AtLeast1(n) \in Nat \ {0}
         /\ n <= old => AtLeast1(n) <= old /\ Abs(AtLeast1(n) - old) <= old - n
         /\ n >= old => AtLeast1(n) = n /\ Abs(AtLeast1(n) - old) = n - old
         /\ Abs(AtLeast1(n) - old) \in Nat
BY DEF AtLeast1, Abs

\* What delta_change makes of a delta: never away from the limit, and damped by
\* the change of the launches.
LEMMA NewCycleStep ==
  ASSUME NEW old \in Nat \ {0}, NEW d \in Nat, NEW err \in Int, NEW c \in Nat, NEW l \in Nat, err = 0 => d = 0
  PROVE  /\ NewCycle(old, d, err, c, l) \in Nat \ {0}
         /\ err > 0 => NewCycle(old, d, err, c, l) >= old
         /\ err < 0 => NewCycle(old, d, err, c, l) <= old
         /\ err = 0 => NewCycle(old, d, err, c, l) = old
         /\ c # l => Abs(NewCycle(old, d, err, c, l) - old) * (l + 1)
                       <= (IF old < l THEN l ELSE old) * Abs(c - l) + l
<1> DEFINE n == NewCycle(old, d, err, c, l)
           k == l + 1
           D == Abs(c - l)
           larger == IF old < l THEN l ELSE old
           over == c # l /\ d * k > D * old
           q == IF over THEN (old * k + (IF err > 0 THEN 1 ELSE -1) * l * D) \div k
                        ELSE old + (IF err > 0 THEN 1 ELSE -1) * d
<1>1. n = AtLeast1(q)
  BY DEF NewCycle
<1>2. D \in Nat /\ k \in Nat \ {0} /\ k = l + 1 /\ larger \in Nat /\ l <= larger /\ old <= larger
  BY DEF Abs
<1>3. l * D <= larger * D /\ old * D <= larger * D /\ l * D \in Nat /\ larger * D \in Nat /\ old * D = D * old
  BY <1>2, TimesGrows
<1>4. d * k \in Nat /\ old * k \in Nat /\ D * old \in Nat
  BY <1>2
<1> HIDE DEF n, k, D, larger
<1>5. CASE ~over
  <2>1. err > 0 => q = old + d
    BY <1>5
  <2>2. ~(err > 0) => q = old - d
    BY <1>5
  <2>3. q \in Int
    BY <2>1, <2>2
  <2> HIDE DEF q
  <2>4. /\ n \in Nat \ {0} /\ Abs(n - old) \in Nat
        /\ q <= old => n <= old /\ Abs(n - old) <= old - q
        /\ q >= old => n = q /\ Abs(n - old) = q - old
    BY <1>1, <2>3, ClampTowards
  <2>5. (err > 0 => n >= old) /\ (~(err > 0) => n <= old) /\ (err = 0 => n = old) /\ Abs(n - old) <= d
    <3>1. CASE err > 0
      BY <2>1, <2>4, <3>1
    <3>2. CASE ~(err > 0)
      BY <2>2, <2>4, <3>2
    <3> QED BY <3>1, <3>2
  <2>6. c # l => Abs(n - old) * k <= larger * D + l
    <3>1. Abs(n - old) * k <= d * k /\ Abs(n - old) * k \in Nat
      BY <1>2, <2>4, <2>5, TimesGrows
    <3>2. c # l => ~(d * k > D * old)
      BY <1>5
    <3> HIDE DEF over
    <3> QED BY <1>3, <1>4, <3>1, <3>2
  <2>7. (err > 0 => n >= old) /\ (err < 0 => n <= old) /\ (err = 0 => n = old)
    BY <2>5
  <2> QED BY <2>4, <2>6, <2>7 DEF n, k, D, larger
<1>6. CASE over
  <2>1. c # l /\ d * k > D * old
    BY <1>6
  <2>2. err # 0
    <3>1. ASSUME d = 0 PROVE FALSE
      BY <1>2, <1>3, <2>1, <3>1
    <3> QED BY <3>1
  <2>3. CASE err > 0
    <3>1. q = (old * k + l * D) \div k
      BY <1>2, <1>6, <2>3
    <3> HIDE DEF q
    <3>2. q \in Int /\ q * k <= old * k + l * D /\ old * k + l * D < q * k + k
      <4>1. old * k + l * D \in Int
        BY <1>3, <1>4
      <4> QED BY <1>2, <3>1, <4>1, DivBounds
    <3>3. old <= q
      <4>1. old * k < q * k + k
        BY <1>2, <1>3, <1>4, <3>2
      <4> QED BY <1>2, <3>2, <4>1, TimesOrder
    <3>4. n \in Nat \ {0} /\ n >= old /\ Abs(n - old) = q - old
      BY <1>1, <3>2, <3>3, ClampTowards
    <3>5. (q - old) * k = q * k - old * k /\ q * k \in Int
      BY <1>2, <3>2
    <3>6. Abs(n - old) * k <= larger * D + l
      BY <1>3, <1>4, <3>2, <3>4, <3>5
    <3> QED BY <2>3, <3>4, <3>6 DEF n, k, D, larger
  <2>4. CASE err < 0
    <3>1. q = (old * k - l * D) \div k
      <4>1. (-1) * l * D = -(l * D)
        BY <1>2
      <4> QED BY <1>3, <1>4, <1>6, <2>4, <4>1
    <3> HIDE DEF q
    <3>2. q \in Int /\ q * k <= old * k - l * D /\ old * k - l * D < q * k + k
      <4>1. old * k - l * D \in Int
        BY <1>3, <1>4
      <4> QED BY <1>2, <3>1, <4>1, DivBounds
    <3>3. q <= old
      <4>1. q * k <= old * k /\ q * k \in Int
        BY <1>2, <1>3, <1>4, <3>2
      <4> QED BY <1>2, <3>2, <4>1, TimesOrder
    <3>4. n \in Nat \ {0} /\ n <= old /\ Abs(n - old) <= old - q /\ Abs(n - old) \in Nat
      BY <1>1, <3>2, <3>3, ClampTowards
    <3>5. (old - q) * k = old * k - q * k /\ q * k \in Int
      BY <1>2, <3>2
    <3>6. Abs(n - old) * k <= (old - q) * k /\ Abs(n - old) * k \in Nat
      <4>1. old - q \in Nat
        BY <3>2, <3>3
      <4> QED BY <1>2, <3>4, <4>1, TimesGrows
    <3>7. Abs(n - old) * k <= larger * D + l
      BY <1>2, <1>3, <1>4, <3>2, <3>5, <3>6
    <3> QED BY <2>4, <3>4, <3>7 DEF n, k, D, larger
  <2> QED BY <2>2, <2>3, <2>4
<1> QED BY <1>5, <1>6

\* Every step of delta_change: what it may leave in add_per_cycle.
LEMMA DeltaChangeStep ==
  ASSUME NEW m \in ModTimes, NEW old \in Nat \ {0}, NEW util \in Nat, NEW limit \in Nat \ {0},
         NEW c \in Nat, NEW l \in Nat, NEW n \in DeltaChange(m, old, util, limit, c, l)
  PROVE  /\ n \in Nat \ {0}
         /\ m > SampleTicks =>
              /\ util > limit => n <= old
              /\ util < limit => n >= old
              /\ util = limit => n = old
              /\ c # l => Abs(n - old) * (l + 1) <= (IF old < l THEN l ELSE old) * Abs(c - l) + l
<1>1. m \in Int /\ SampleTicks \in Int
  BY RateConstantsOK DEF ModTimes
<1>2. CASE m <= SampleTicks
  <2>1. n = old + 1
    BY <1>2 DEF DeltaChange
  <2> QED BY <1>1, <1>2, <2>1
<1>3. CASE ~(m <= SampleTicks)
  <2>1. PICK d \in DeltaCycle(limit - util, util, c) : n = NewCycle(old, d, limit - util, c, l)
    BY <1>3 DEF DeltaChange
  <2>2. d \in Nat /\ (limit = util => d = 0)
    BY DeltaCycleType
  <2> DEFINE err == limit - util
  <2>3. err \in Int /\ (err = 0 => d = 0)
    BY <2>2
  <2>4. (util > limit <=> err < 0) /\ (util < limit <=> err > 0) /\ (util = limit <=> err = 0)
    OBVIOUS
  <2>5. n = NewCycle(old, d, err, c, l)
    BY <2>1
  <2> HIDE DEF err
  <2>6. /\ n \in Nat \ {0}
        /\ err > 0 => n >= old
        /\ err < 0 => n <= old
        /\ err = 0 => n = old
        /\ c # l => Abs(n - old) * (l + 1) <= (IF old < l THEN l ELSE old) * Abs(c - l) + l
    <3> DEFINE r == NewCycle(old, d, err, c, l)
    <3>1. /\ r \in Nat \ {0}
          /\ err > 0 => r >= old
          /\ err < 0 => r <= old
          /\ err = 0 => r = old
          /\ c # l => Abs(r - old) * (l + 1) <= (IF old < l THEN l ELSE old) * Abs(c - l) + l
      BY <2>2, <2>3, NewCycleStep
    <3>2. n = r
      BY <2>5
    <3> HIDE DEF r
    <3> QED BY <3>1, <3>2
  <2> QED BY <2>4, <2>6
<1> QED BY <1>2, <1>3

-----------------------------------------------------------------------------
(* The types, and the control steps *)

\* A sample is chosen only when the loop is left.
MonitorInv ==
  /\ TypeOK
  /\ result # 0 => i = Len(samples) + 1
  /\ samples \in Seq(Sample)
  /\ step \in [util : Nat, cur : Nat, last : Nat, old : Nat]

\* What Correct leaves of add_per_cycle, step and mod_times.
ControlInv == TowardLimit /\ Damped

LEMMA MonitorInit == Init => MonitorInv /\ ControlInv
<1> SUFFICES ASSUME Init PROVE MonitorInv /\ ControlInv
  OBVIOUS
<1>1. MonitorInv
  BY MonitorConstantsOK, RateConstantsOK DEF Init, MonitorInv, TypeOK, Sample, NoStep, ModTimes
<1>2. ~Controlled
  BY DEF Init, Controlled
<1> QED BY <1>1, <1>2 DEF ControlInv, TowardLimit, Damped

\* A correction of the rate.
LEMMA CorrectStep ==
  ASSUME MonitorInv, Correct
  PROVE  MonitorInv' /\ ControlInv'
<1>1. PICK util \in world.utils, c \in world.averages, l \in world.averages :
        /\ mod_times' = Increment(mod_times)
        /\ add_per_cycle' \in {n \in IF DeltaChange(Increment(mod_times), add_per_cycle, util, world.limit, c, l) = {}
                                       THEN {add_per_cycle}
                                       ELSE DeltaChange(Increment(mod_times), add_per_cycle, util, world.limit, c, l) :
                                 n <= MaxCycle}
        /\ changed' = (DeltaChange(Increment(mod_times), add_per_cycle, util, world.limit, c, l) # {})
        /\ step' = [util |-> util, cur |-> c, last |-> l, old |-> add_per_cycle]
  BY DEF Correct
<1> DEFINE limit == world.limit
           old == add_per_cycle
           m == Increment(mod_times)
           new == DeltaChange(m, old, util, limit, c, l)
           n == add_per_cycle'
<1>2. util \in Nat /\ c \in Nat /\ l \in Nat /\ limit \in Nat \ {0}
  BY MonitorConstantsOK DEF MonitorInv, TypeOK
<1>3. old \in Nat \ {0}
  BY MonitorConstantsOK DEF MonitorInv, TypeOK
<1>4. m \in ModTimes
  BY RateConstantsOK DEF MonitorInv, TypeOK, ModTimes, Increment
<1>5. n <= MaxCycle /\ (new = {} => n = old) /\ (new # {} => n \in new)
  BY <1>1
<1> HIDE DEF limit, old, m, new, n
<1>6. /\ n \in Nat \ {0}
      /\ m > SampleTicks =>
           /\ util > limit => n <= old
           /\ util < limit => n >= old
           /\ util = limit => n = old
           /\ c # l => Abs(n - old) * (l + 1) <= (IF old < l THEN l ELSE old) * Abs(c - l) + l
  <2>1. CASE new # {}
    <3>1. n \in DeltaChange(m, old, util, limit, c, l)
      BY <1>5, <2>1 DEF new
    <3> QED BY <1>2, <1>3, <1>4, <3>1, DeltaChangeStep
  <2>2. CASE new = {}
    <3>1. n = old
      BY <1>5, <2>2
    <3>2. Abs(n - old) = 0
      BY <1>3, <3>1 DEF Abs
    <3>3. Abs(c - l) \in Nat
      BY <1>2 DEF Abs
    <3> DEFINE larger == IF old < l THEN l ELSE old
               D == Abs(c - l)
    <3>4. larger \in Nat
      BY <1>2, <1>3
    <3> HIDE DEF larger, D
    <3>5. larger * D \in Nat
      BY <3>3, <3>4 DEF D
    <3>6. Abs(n - old) * (l + 1) = 0
      BY <1>2, <3>2
    <3>7. Abs(n - old) * (l + 1) <= larger * D + l
      BY <1>2, <3>5, <3>6
    <3> QED BY <1>3, <3>1, <3>7 DEF larger, D
  <2> QED BY <2>1, <2>2
<1>7. step' = [util |-> util, cur |-> c, last |-> l, old |-> old] /\ mod_times' = m /\ world' = world /\ alive' = alive
  BY <1>1 DEF Correct, old, m
<1>8. samples' = <<>> /\ i' = 0 /\ result' = 0 /\ changed' \in BOOLEAN
  BY <1>1 DEF Correct, Sleep
<1>9. n \in 1 .. MaxCycle
  BY <1>5, <1>6, MonitorConstantsOK
<1>10. MonitorInv'
  BY <1>2, <1>3, <1>4, <1>7, <1>8, <1>9 DEF MonitorInv, TypeOK, n
<1>11. TowardLimit'
  BY <1>6, <1>7 DEF TowardLimit, Controlled, limit, n
<1>12. Damped'
  BY <1>6, <1>7 DEF Damped, Controlled, n
<1> QED BY <1>10, <1>11, <1>12 DEF ControlInv

\* The other steps: a poll forgets the last correction, the rest keep it.
LEMMA MonitorNext == MonitorInv /\ ControlInv /\ [Next]_vars => MonitorInv' /\ ControlInv'
<1> SUFFICES ASSUME MonitorInv, ControlInv, [Next]_vars PROVE MonitorInv' /\ ControlInv'
  OBVIOUS
<1>1. ASSUME UNCHANGED <<world, mod_times, add_per_cycle, step>> PROVE ControlInv'
  BY <1>1 DEF ControlInv, TowardLimit, Damped, Controlled
<1>2. CASE Poll
  <2>1. PICK n \in 0 .. MaxSamples : samples' \in [1 .. n -> Sample]
    BY <1>2 DEF Poll
  <2>2. samples' \in Seq(Sample)
    BY <2>1, MonitorConstantsOK
  <2>3. i' = 1 /\ result' = 0 /\ step' = NoStep /\ UNCHANGED <<world, alive, attr>>
    BY <1>2 DEF Poll, MonitorInv, TypeOK
  <2>4. MonitorInv'
    BY <2>2, <2>3 DEF MonitorInv, TypeOK, attr, NoStep
  <2>5. ~Controlled'
    BY <2>3 DEF Controlled
  <2> QED BY <2>4, <2>5 DEF ControlInv, TowardLimit, Damped
<1>3. CASE SkipOld
  <2>1. MonitorInv'
    BY <1>3 DEF SkipOld, MonitorInv, TypeOK, attr
  <2> QED BY <1>1, <1>3, <2>1 DEF SkipOld, attr
<1>4. CASE Compare
  <2>1. /\ \/ i' = i + 1 /\ result' = result
           \/ i' = Len(samples) + 1 /\ result' = i
        /\ i \in 1 .. Len(samples)
        /\ UNCHANGED <<world, alive, samples, attr, step>>
    BY <1>4 DEF Compare
  <2>2. MonitorInv'
    BY <2>1 DEF MonitorInv, TypeOK, attr
  <2> QED BY <1>1, <2>1, <2>2 DEF attr
<1>5. CASE NoChange
  <2>1. MonitorInv'
    BY <1>5 DEF NoChange, Sleep, MonitorInv, TypeOK, attr
  <2> QED BY <1>1, <1>5, <2>1 DEF NoChange, attr
<1>6. CASE Correct
  BY <1>6, CorrectStep
<1>7. CASE PickUp
  <2>1. MonitorInv'
    BY <1>7 DEF PickUp, MonitorInv, TypeOK
  <2> QED BY <1>1, <1>7, <2>1 DEF PickUp
<1>8. ASSUME NEW p \in Pids, Exit(p) PROVE MonitorInv' /\ ControlInv'
  <2>1. MonitorInv'
    BY <1>8 DEF Exit, MonitorInv, TypeOK, attr
  <2> QED BY <1>1, <1>8, <2>1 DEF Exit, attr
<1>9. CASE UNCHANGED vars
  <2>1. MonitorInv'
    BY <1>9 DEF vars, MonitorInv, TypeOK
  <2> QED BY <1>1, <1>9, <2>1 DEF vars
<1> QED BY <1>2, <1>3, <1>4, <1>5, <1>6, <1>7, <1>8, <1>9 DEF Next

\* The monitor's state keeps its types; in particular add_per_cycle never drops
\* below 1, whatever utilisation and launch averages delta_change is given.
THEOREM MonitorTypeCorrect == Spec => []TypeOK
<1>1. MonitorInv => TypeOK
  BY DEF MonitorInv
<1> QED BY <1>1, MonitorInit, MonitorNext, PTL DEF Spec

\* No control step of delta_change works against the limit, for any limit,
\* utilisation and launch averages.
THEOREM NeverAwayFromLimit == Spec => []TowardLimit
<1>1. ControlInv => TowardLimit
  BY DEF ControlInv
<1> QED BY <1>1, MonitorInit, MonitorNext, PTL DEF Spec

\* The change of every control step is bounded by the relative change of the
\* launches when these have changed.
THEOREM StepsDamped == Spec => []Damped
<1>1. ControlInv => Damped
  BY DEF ControlInv
<1> QED BY <1>1, MonitorInit, MonitorNext, PTL DEF Spec

-----------------------------------------------------------------------------
(* get_cgroup_id *)

\* The characters of a buffer.
Char == STRING \cup {"d", "/", Newline, NUL}

\* Short sequences.
LEMMA Short ==
  ASSUME NEW S, NEW x \in S, NEW y \in S
  PROVE  /\ <<x, y>> \in Seq(S) /\ Len(<<x, y>>) = 2 /\ <<x, y>>[1] = x /\ <<x, y>>[2] = y
         /\ <<x>> \in Seq(S) /\ Len(<<x>>) = 1 /\ <<x>>[1] = x
OBVIOUS

\* Concatenation, element by element.
LEMMA Concat ==
  ASSUME NEW S, NEW x \in Seq(S), NEW y \in Seq(S), NEW z, z = x \o y
  PROVE  /\ z \in Seq(S) /\ Len(z) = Len(x) + Len(y)
         /\ \A k \in 1 .. Len(x) : z[k] = x[k]
         /\ \A k \in 1 .. Len(y) : z[Len(x) + k] = y[k]
<1>1. x \o y \in Seq(S)
  OBVIOUS
<1>2. Len(x \o y) = Len(x) + Len(y)
  OBVIOUS
<1>3. ASSUME NEW k \in 1 .. Len(x) PROVE (x \o y)[k] = x[k]
  OBVIOUS
<1>4. ASSUME NEW k \in 1 .. Len(y) PROVE (x \o y)[Len(x) + k] = y[k]
  OBVIOUS
<1> QED BY <1>1, <1>2, <1>3, <1>4

\* The buffer, character by character.
LEMMA BufferChars ==
  ASSUME NEW id, IsId(id), NEW s, IsTail(s), NEW buf, buf = LineBuffer(id, s)
  PROVE  /\ buf \in Seq(Char) /\ Len(buf) = Len(id) + 4 + Len(s)
         /\ buf[1] = "d" /\ buf[2] = "/"
         /\ \A k \in 1 .. Len(id) : buf[k + 2] = id[k]
         /\ buf[Len(id) + 3] = Newline /\ buf[Len(id) + 4] = NUL
         /\ \A k \in 1 .. Len(s) : buf[Len(id) + 4 + k] = s[k]
<1> DEFINE a == <<"d", "/">>
           b == <<Newline, NUL>>
           ai == a \o id
           aib == ai \o b
<1>0. "d" \in Char /\ "/" \in Char /\ Newline \in Char /\ NUL \in Char
  BY DEF Char
<1>1. a \in Seq(Char) /\ Len(a) = 2 /\ a[1] = "d" /\ a[2] = "/"
  BY <1>0, Short
<1>2. b \in Seq(Char) /\ Len(b) = 2 /\ b[1] = Newline /\ b[2] = NUL
  BY <1>0, Short
<1>3. id \in Seq(Char) /\ s \in Seq(Char)
  BY DEF IsId, IsTail, Char
<1> HIDE DEF a, b
<1>4. /\ ai \in Seq(Char) /\ Len(ai) = Len(id) + 2
      /\ ai[1] = "d" /\ ai[2] = "/" /\ \A k \in 1 .. Len(id) : ai[k + 2] = id[k]
  <2>1. ai = a \o id
    OBVIOUS
  <2> HIDE DEF ai
  <2>2. a \in Seq(Char) /\ id \in Seq(Char)
    BY <1>1, <1>3
  <2>3. ai \in Seq(Char) /\ Len(ai) = Len(a) + Len(id)
    BY <2>1, <2>2, Concat
  <2>4. \A k \in 1 .. Len(a) : ai[k] = a[k]
    BY <2>1, <2>2, Concat
  <2>5. \A k \in 1 .. Len(id) : ai[Len(a) + k] = id[k]
    BY <2>1, <2>2, Concat
  <2> QED BY <1>1, <1>3, <2>3, <2>4, <2>5
<1> HIDE DEF ai
<1>5. /\ aib \in Seq(Char) /\ Len(aib) = Len(id) + 4
      /\ aib[1] = "d" /\ aib[2] = "/" /\ \A k \in 1 .. Len(id) : aib[k + 2] = id[k]
      /\ aib[Len(id) + 3] = Newline /\ aib[Len(id) + 4] = NUL
  <2>1. aib = ai \o b
    OBVIOUS
  <2> HIDE DEF aib
  <2>2. ai \in Seq(Char) /\ b \in Seq(Char)
    BY <1>2, <1>4
  <2>3. aib \in Seq(Char) /\ Len(aib) = Len(ai) + Len(b)
    BY <2>1, <2>2, Concat
  <2>4. \A k \in 1 .. Len(ai) : aib[k] = ai[k]
    BY <2>1, <2>2, Concat
  <2>5. \A k \in 1 .. Len(b) : aib[Len(ai) + k] = b[k]
    BY <2>1, <2>2, Concat
  <2> QED BY <1>2, <1>3, <1>4, <2>3, <2>4, <2>5
<1>6. LineBuffer(id, s) = aib \o s
  BY DEF LineBuffer, aib, ai, a, b
<1> HIDE DEF aib
<1>7. buf = aib \o s
  BY <1>6
<1>8. aib \in Seq(Char) /\ s \in Seq(Char)
  BY <1>3, <1>5
<1>9. buf \in Seq(Char) /\ Len(buf) = Len(aib) + Len(s)
  BY <1>7, <1>8, Concat
<1>10. \A k \in 1 .. Len(aib) : buf[k] = aib[k]
  BY <1>7, <1>8, Concat
<1>11. \A k \in 1 .. Len(s) : buf[Len(aib) + k] = s[k]
  BY <1>7, <1>8, Concat
<1> QED
  <2>1. Len(id) \in Nat /\ Len(aib) = Len(id) + 4
    BY <1>3, <1>5
  <2>2. buf \in Seq(Char) /\ Len(buf) = Len(id) + 4 + Len(s)
    BY <1>9, <2>1
  <2>3. buf[1] = aib[1] /\ buf[2] = aib[2] /\ buf[Len(id) + 3] = aib[Len(id) + 3] /\ buf[Len(id) + 4] = aib[Len(id) + 4]
    BY <1>10, <2>1
  <2>4. ASSUME NEW k \in 1 .. Len(id) PROVE buf[k + 2] = id[k]
    <3>1. k + 2 \in 1 .. Len(aib)
      BY <2>1
    <3> QED BY <1>5, <1>10, <3>1
  <2>5. ASSUME NEW k \in 1 .. Len(s) PROVE buf[Len(id) + 4 + k] = s[k]
    BY <1>11, <2>1
  <2> QED BY <1>5, <2>2, <2>3, <2>4, <2>5

\* get_cgroup_id takes the text between the only "/" and the NUL: the id and the
\* newline, cut to id_len - 1 characters.
LEMMA IdCutOut ==
  ASSUME NEW id, IsId(id), NEW s, IsTail(s), NEW n \in Nat \ {0}
  PROVE  get_cgroup_id(LineBuffer(id, s), n) = Truncate(id \o <<Newline>>, n - 1)
<1> DEFINE buf == LineBuffer(id, s)
           len == Len(id)
           slashes == {m \in 1 .. Len(buf) : buf[m] = "/"}
           ends == {m \in 3 .. Len(buf) : buf[m] = NUL}
           text == id \o <<Newline>>
<1>1. id \in Seq(Char) /\ s \in Seq(Char) /\ len \in Nat /\ Len(s) \in Nat
  BY DEF IsId, IsTail, Char
<1>2. /\ buf \in Seq(Char) /\ Len(buf) = len + 4 + Len(s)
      /\ buf[1] = "d" /\ buf[2] = "/"
      /\ \A k \in 1 .. len : buf[k + 2] = id[k]
      /\ buf[len + 3] = Newline /\ buf[len + 4] = NUL
      /\ \A k \in 1 .. Len(s) : buf[len + 4 + k] = s[k]
  BY BufferChars
<1> HIDE DEF buf
<1>3. slashes = {2}
  <2>1. 2 \in slashes
    BY <1>1, <1>2
  <2>2. ASSUME NEW m \in 1 .. Len(buf), m # 2 PROVE buf[m] # "/"
    <3>1. CASE m = 1
      BY <1>2, <3>1
    <3>2. CASE m \in 3 .. len + 2
      <4>1. m - 2 \in 1 .. len /\ m = (m - 2) + 2
        BY <1>1, <3>2
      <4>2. buf[m] = id[m - 2] /\ id[m - 2] # "/"
        BY <1>2, <4>1 DEF IsId
      <4> QED BY <4>2
    <3>3. CASE m = len + 3 \/ m = len + 4
      BY <1>2, <3>3 DEF Newline, NUL
    <3>4. CASE m \in len + 5 .. len + 4 + Len(s)
      <4>1. m - (len + 4) \in 1 .. Len(s) /\ m = len + 4 + (m - (len + 4))
        BY <1>1, <3>4
      <4>2. buf[m] = s[m - (len + 4)] /\ s[m - (len + 4)] # "/"
        BY <1>2, <4>1 DEF IsTail
      <4> QED BY <4>2
    <3> QED BY <1>1, <1>2, <2>2, <3>1, <3>2, <3>3, <3>4
  <2> QED BY <2>1, <2>2
<1>4. Max(slashes) = 2
  BY <1>3 DEF Max
<1>5. len + 4 \in ends /\ \A m \in ends : m >= len + 4 /\ m \in Int
  <2>1. ASSUME NEW m \in 3 .. len + 3 PROVE buf[m] # NUL
    <3>1. CASE m = len + 3
      BY <1>2, <3>1 DEF Newline, NUL
    <3>2. CASE m # len + 3
      <4>1. m - 2 \in 1 .. len /\ m = (m - 2) + 2
        BY <1>1, <3>2
      <4>2. buf[m] = id[m - 2] /\ id[m - 2] # NUL
        BY <1>2, <4>1 DEF IsId
      <4> QED BY <4>2
    <3> QED BY <3>1, <3>2
  <2> QED BY <1>1, <1>2, <2>1
<1>6. Min(ends) = len + 4 /\ ends # {}
  <2> HIDE DEF ends
  <2> QED BY <1>1, <1>5 DEF Min
<1>7. text \in Seq(Char) /\ Len(text) = len + 1 /\ text[len + 1] = Newline /\ \A k \in 1 .. len : text[k] = id[k]
  <2>1. <<Newline>> \in Seq(Char) /\ Len(<<Newline>>) = 1 /\ <<Newline>>[1] = Newline
    <3>1. Newline \in Char
      BY DEF Char
    <3> QED BY <3>1, Short
  <2> QED BY <1>1, <2>1, Concat
<1> HIDE DEF text
<1>8. SubSeq(buf, 3, len + 3) = text
  <2>1. SubSeq(buf, 3, len + 3) = [k \in 1 .. len + 1 |-> buf[k + 2]]
    BY <1>1, <1>2
  <2>2. text = [k \in 1 .. len + 1 |-> text[k]]
    BY <1>1, <1>7
  <2>3. ASSUME NEW k \in 1 .. len + 1 PROVE buf[k + 2] = text[k]
    <3>1. CASE k = len + 1
      BY <1>1, <1>2, <1>7, <3>1
    <3>2. CASE k # len + 1
      <4>1. k \in 1 .. len
        BY <1>1, <3>2
      <4> QED BY <1>2, <1>7, <4>1
    <3> QED BY <3>1, <3>2
  <2> QED BY <2>1, <2>2, <2>3
<1>9. StringAt(buf, 3) = text
  <2>1. StringAt(buf, 3) = IF ends = {} THEN SubSeq(buf, 3, Len(buf)) ELSE SubSeq(buf, 3, Min(ends) - 1)
    BY DEF StringAt
  <2> HIDE DEF ends
  <2>2. StringAt(buf, 3) = SubSeq(buf, 3, Min(ends) - 1)
    BY <1>6, <2>1
  <2>3. Min(ends) - 1 = len + 3
    BY <1>1, <1>6
  <2> QED BY <1>8, <2>2, <2>3
<1>10. get_cgroup_id(buf, n) = Truncate(StringAt(buf, Max(slashes) + 1), n - 1)
  BY DEF get_cgroup_id
<1>11. Max(slashes) + 1 = 3
  <2> HIDE DEF slashes
  <2> QED BY <1>4
<1> QED BY <1>9, <1>10, <1>11 DEF buf, text

\* Cutting a sequence.
LEMMA TruncateChars ==
  ASSUME NEW S, NEW x \in Seq(S), NEW n \in Nat
  PROVE  /\ Len(x) <= n => Truncate(x, n) = x
         /\ n <= Len(x) => Len(Truncate(x, n)) = n /\ \A k \in 1 .. n : Truncate(x, n)[k] = x[k]
         /\ Truncate(x, n) \in Seq(S)
<1>1. CASE Len(x) < n
  BY <1>1 DEF Truncate
<1>2. CASE ~(Len(x) < n)
  <2>1. Truncate(x, n) = SubSeq(x, 1, n)
    BY <1>2 DEF Truncate
  <2>2. n <= Len(x)
    BY <1>2
  <2>3. SubSeq(x, 1, n) \in Seq(S) /\ Len(SubSeq(x, 1, n)) = n /\ \A k \in 1 .. n : SubSeq(x, 1, n)[k] = x[k]
    BY <2>2
  <2>4. Len(x) = n => SubSeq(x, 1, n) = x
    OBVIOUS
  <2> QED BY <2>1, <2>2, <2>3, <2>4
<1> QED BY <1>1, <1>2

\* What get_cgroup_id leaves equals what main has copied of an argument without
\* a newline exactly if the argument is the beginning of the id, of the length
\* there is room for: a longer argument fills the monitor's buffer, and a
\* shorter id keeps its newline.
LEMMA MatchIsPrefix ==
  ASSUME NEW id, IsId(id), NEW s, IsTail(s),
         NEW a \in Seq(STRING), \A k \in 1 .. Len(a) : a[k] # Newline
  PROVE  get_cgroup_id(LineBuffer(id, s), MaxIdLen) = Truncate(a, MaxIdLen) <=> Prefix(a, id)
<1> DEFINE n == MaxIdLen - 1
           text == id \o <<Newline>>
<1>1. n \in Nat /\ MaxIdLen = n + 1 /\ MaxIdLen \in Nat \ {0}
  BY CgroupConstantsOK
<1>2. id \in Seq(Char) /\ a \in Seq(Char) /\ Len(id) \in Nat /\ Len(a) \in Nat
  BY DEF IsId, Char
<1>3. text \in Seq(Char) /\ Len(text) = Len(id) + 1 /\ text[Len(id) + 1] = Newline /\ \A k \in 1 .. Len(id) : text[k] = id[k]
  <2>1. Newline \in Char
    BY DEF Char
  <2>2. <<Newline>> \in Seq(Char) /\ Len(<<Newline>>) = 1 /\ <<Newline>>[1] = Newline
    BY <2>1, Short
  <2> QED BY <1>2, <2>2, Concat
<1>4. get_cgroup_id(LineBuffer(id, s), MaxIdLen) = Truncate(text, n)
  BY <1>1, IdCutOut
<1> HIDE DEF n, text
<1>5. \/ Len(a) <= n + 1 /\ Truncate(a, MaxIdLen) = a
      \/ Len(a) > n + 1 /\ Len(Truncate(a, MaxIdLen)) = n + 1
  <2>1. CASE Len(a) <= n + 1
    BY <1>1, <1>2, <2>1, TruncateChars
  <2>2. CASE Len(a) > n + 1
    <3>1. MaxIdLen <= Len(a) /\ MaxIdLen \in Nat
      BY <1>1, <1>2, <2>2
    <3>2. Len(Truncate(a, MaxIdLen)) = MaxIdLen
      BY <1>2, <3>1, TruncateChars
    <3> QED BY <1>1, <2>2, <3>2
  <2> QED BY <1>1, <1>2, <2>1, <2>2
<1>6. Truncate(text, n) = Truncate(a, MaxIdLen) <=> Prefix(a, id)
  <2>1. CASE Len(id) < n
    <3>1. Truncate(text, n) = text
      BY <1>1, <1>2, <1>3, <2>1, TruncateChars
    <3>2. text # a
      BY <1>2, <1>3
    <3>3. Len(text) # n + 1
      BY <1>1, <1>2, <1>3, <2>1
    <3>4. ~Prefix(a, id)
      BY <1>1, <1>2, <2>1 DEF Prefix
    <3> QED BY <1>5, <3>1, <3>2, <3>3, <3>4
  <2>2. CASE n <= Len(id)
    <3>1. Truncate(text, n) \in Seq(Char) /\ Len(Truncate(text, n)) = n /\ \A k \in 1 .. n : Truncate(text, n)[k] = text[k]
      <4>1. text \in Seq(Char) /\ n <= Len(text)
        BY <1>1, <1>2, <1>3, <2>2
      <4> QED BY <1>1, <4>1, TruncateChars
    <3>2. Truncate(id, n) \in Seq(Char) /\ Len(Truncate(id, n)) = n /\ \A k \in 1 .. n : Truncate(id, n)[k] = id[k]
      BY <1>1, <1>2, <2>2, TruncateChars
    <3>3. Truncate(text, n) = Truncate(id, n)
      <4>1. ASSUME NEW k \in 1 .. n PROVE Truncate(text, n)[k] = Truncate(id, n)[k]
        <5>1. k \in 1 .. Len(id)
          BY <1>1, <1>2, <2>2
        <5> QED BY <1>3, <3>1, <3>2, <5>1
      <4> DEFINE tt == Truncate(text, n)
                 ti == Truncate(id, n)
      <4> HIDE DEF tt, ti
      <4>2. tt \in Seq(Char) /\ ti \in Seq(Char) /\ Len(tt) = n /\ Len(ti) = n /\ \A k \in 1 .. n : tt[k] = ti[k]
        BY <3>1, <3>2, <4>1 DEF tt, ti
      <4>3. tt = ti
        BY <4>2
      <4> QED BY <4>3 DEF tt, ti
    <3>4. Prefix(a, id) <=> a = Truncate(id, n)
      BY <2>2 DEF Prefix, n
    <3>5. CASE Len(a) <= n + 1 /\ Truncate(a, MaxIdLen) = a
      BY <3>3, <3>4, <3>5
    <3>6. CASE Len(a) > n + 1 /\ Len(Truncate(a, MaxIdLen)) = n + 1
      <4>1. Truncate(id, n) # a /\ Truncate(id, n) # Truncate(a, MaxIdLen)
        BY <1>1, <1>2, <3>2, <3>6
      <4> QED BY <3>3, <3>4, <4>1
    <3> QED BY <1>5, <3>5, <3>6
  <2> QED BY <1>1, <1>2, <2>1, <2>2
<1> QED BY <1>4, <1>6

-----------------------------------------------------------------------------
(* The search of get_gpu_util *)

\* A recent sample of a process whose id begins with the argument.
OfContainer(n) == samples[n].recent /\ Prefix(world.arg, world.cgroup[samples[n].pid])

\* The samples get_gpu_util has passed over are not those of running processes
\* of the container.
SearchInv ==
  /\ result # 0 => OfContainer(result)
  /\ result = 0 => \A n \in 1 .. Len(samples) : n < i => ~(samples[n].pid \in alive /\ OfContainer(n))

\* A sample that is looked at: it is chosen exactly if it is of the container.
LEMMA CompareStep ==
  ASSUME IdsReadable, MonitorInv, Compare
  PROVE  /\ i \in 1 .. Len(samples) /\ samples[i].recent
         /\ \/ result' = i /\ i' = Len(samples) + 1 /\ OfContainer(i)
            \/ result' = result /\ i' = i + 1 /\ ~(samples[i].pid \in alive /\ OfContainer(i))
         /\ UNCHANGED <<world, alive, samples>>
<1> DEFINE p == samples[i].pid
           id == world.cgroup[p]
<1>1. i \in 1 .. Len(samples) /\ samples[i].recent /\ UNCHANGED <<world, alive, samples>>
  BY DEF Compare
<1>2. p \in Pids /\ world \in Worlds
  <2>1. samples \in Seq(Sample) /\ world \in Worlds
    BY DEF MonitorInv, TypeOK
  <2>2. samples[i] \in Sample
    BY <1>1, <2>1
  <2> QED BY <2>1, <2>2 DEF Sample
<1>3. CASE p \in alive
  <2>1. PICK s \in Stale :
          /\ target' = get_cgroup_id(LineBuffer(id, s), MaxIdLen)
          /\ IF target' = MonitorId
               THEN result' = i /\ i' = Len(samples) + 1
               ELSE i' = i + 1 /\ result' = result
    BY <1>3 DEF Compare
  <2>2. target' = MonitorId <=> Prefix(world.arg, id)
    <3>1. IsTail(s) /\ IsId(id)
      BY <1>2 DEF IdsReadable
    <3>2. /\ world.arg \in Seq(STRING)
          /\ \A k \in 1 .. Len(world.arg) : world.arg[k] # Newline
      BY <1>2, MonitorConstantsOK DEF IdsReadable
    <3> DEFINE a == world.arg
    <3> HIDE DEF a, id
    <3>3. get_cgroup_id(LineBuffer(id, s), MaxIdLen) = Truncate(a, MaxIdLen) <=> Prefix(a, id)
      BY <3>1, <3>2, MatchIsPrefix DEF a
    <3> QED BY <2>1, <3>3 DEF MonitorId, a
  <2>3. OfContainer(i) <=> Prefix(world.arg, id)
    BY <1>1 DEF OfContainer
  <2> HIDE DEF p, id
  <2>4. CASE target' = MonitorId
    BY <1>1, <2>1, <2>2, <2>3, <2>4
  <2>5. CASE target' # MonitorId
    BY <1>1, <2>1, <2>2, <2>3, <2>5 DEF p
  <2> QED BY <2>4, <2>5
<1>4. CASE p \notin alive
  BY <1>1, <1>4 DEF Compare
<1> QED BY <1>3, <1>4

LEMMA SearchInit == Init => SearchInv
BY DEF Init, SearchInv

\* One sample at a time; a process that exits only leaves the running ones.
LEMMA SearchNext ==
  ASSUME IdsReadable
  PROVE  MonitorInv /\ SearchInv /\ [Next]_vars => SearchInv'
<1> SUFFICES ASSUME MonitorInv, SearchInv, [Next]_vars PROVE SearchInv'
  OBVIOUS
<1>1. i \in Int /\ Len(samples) \in Nat
  BY DEF MonitorInv, TypeOK
<1>2. ASSUME UNCHANGED <<world, samples, i, result>>, alive' \subseteq alive PROVE SearchInv'
  BY <1>2 DEF SearchInv, OfContainer
<1>3. CASE Poll
  <2>1. i' = 1 /\ result' = 0
    BY <1>3, <1>1 DEF Poll, MonitorInv, TypeOK
  <2> QED BY <2>1 DEF SearchInv
<1>4. CASE SkipOld
  <2>1. i \in 1 .. Len(samples) /\ ~samples[i].recent /\ i' = i + 1 /\ UNCHANGED <<world, alive, samples, result>>
    BY <1>4 DEF SkipOld
  <2>2. ASSUME NEW n \in 1 .. Len(samples), n < i', result = 0 PROVE ~(samples[n].pid \in alive /\ OfContainer(n))
    <3>1. CASE n = i
      BY <2>1, <3>1 DEF OfContainer
    <3>2. CASE n < i
      BY <2>2, <3>2 DEF SearchInv
    <3> QED BY <1>1, <2>1, <2>2, <3>1, <3>2
  <2> QED BY <2>1, <2>2 DEF SearchInv, OfContainer
<1>5. CASE Compare
  <2>1. /\ i \in 1 .. Len(samples) /\ samples[i].recent
        /\ \/ result' = i /\ i' = Len(samples) + 1 /\ OfContainer(i)
           \/ result' = result /\ i' = i + 1 /\ ~(samples[i].pid \in alive /\ OfContainer(i))
        /\ UNCHANGED <<world, alive, samples>>
    BY <1>5, CompareStep
  <2>2. CASE result' = i /\ OfContainer(i)
    BY <2>1, <2>2 DEF SearchInv, OfContainer
  <2>3. CASE result' = result /\ i' = i + 1 /\ ~(samples[i].pid \in alive /\ OfContainer(i))
    <3>1. ASSUME NEW n \in 1 .. Len(samples), n < i', result = 0 PROVE ~(samples[n].pid \in alive /\ OfContainer(n))
      <4>1. CASE n = i
        BY <2>3, <4>1
      <4>2. CASE n < i
        BY <3>1, <4>2 DEF SearchInv
      <4> QED BY <1>1, <2>3, <3>1, <4>1, <4>2
    <3> QED BY <2>1, <2>3, <3>1 DEF SearchInv, OfContainer
  <2> QED BY <2>1, <2>2, <2>3
<1>6. CASE NoChange \/ Correct
  <2>1. samples' = <<>> /\ result' = 0
    BY <1>6 DEF NoChange, Correct, Sleep
  <2> QED BY <2>1 DEF SearchInv
<1>7. CASE PickUp
  BY <1>2, <1>7 DEF PickUp
<1>8. ASSUME NEW p \in Pids, Exit(p) PROVE SearchInv'
  BY <1>2, <1>8 DEF Exit
<1>9. CASE UNCHANGED vars
  BY <1>2, <1>9 DEF vars
<1> QED BY <1>3, <1>4, <1>5, <1>6, <1>7, <1>8, <1>9 DEF Next

\* The utilisation the monitor acts on is one of its container, for any number
\* of processes and samples, any room for an id and any argument.
THEOREM UtilIsOfContainer ==
  ASSUME IdsReadable
  PROVE  Spec => []UtilOfContainer
<1>1. SearchInv => UtilOfContainer
  BY DEF SearchInv, UtilOfContainer, OfContainer
<1> QED BY <1>1, MonitorInit, MonitorNext, SearchInit, SearchNext, PTL DEF Spec

\* A poll that ends with -1 missed no running process of a container whose id
\* begins with an argument of MaxIdLen - 1 characters.
THEOREM PrefixIsFound ==
  ASSUME IdsReadable
  PROVE  Spec => []PrefixFound
<1>1. MonitorInv /\ SearchInv => PrefixFound
  BY DEF MonitorInv, TypeOK, SearchInv, PrefixFound, LoopOver, OfContainer
<1> QED BY <1>1, MonitorInit, MonitorNext, SearchInit, SearchNext, PTL DEF Spec

\* A monitor that is given an id which fills its buffer, as README.md asks, never
\* finds a process: no poll ever yields a utilisation, whatever the samples are.
THEOREM FullIdIsMissed ==
  ASSUME IdsReadable
  PROVE  Spec => [](Len(world.arg) >= MaxIdLen => result = 0)
<1>1. MonitorInv /\ SearchInv => (Len(world.arg) >= MaxIdLen => result = 0)
  <2> SUFFICES ASSUME MonitorInv, SearchInv, result # 0 PROVE ~(Len(world.arg) >= MaxIdLen)
    OBVIOUS
  <2>1. samples[result].pid \in Pids /\ world \in Worlds
    <3>1. samples \in Seq(Sample) /\ world \in Worlds /\ result \in 1 .. Len(samples)
      BY DEF MonitorInv, TypeOK
    <3>2. samples[result] \in Sample
      BY <3>1
    <3> QED BY <3>1, <3>2 DEF Sample
  <2> DEFINE id == world.cgroup[samples[result].pid]
  <2>2. id \in Seq(STRING)
    BY <2>1, MonitorConstantsOK
  <2>3. Prefix(world.arg, id)
    BY DEF SearchInv, OfContainer
  <2> HIDE DEF id
  <2>4. MaxIdLen - 1 \in Nat /\ MaxIdLen \in Nat
    BY CgroupConstantsOK
  <2>5. Len(world.arg) = MaxIdLen - 1
    BY <2>2, <2>3, <2>4, TruncateChars DEF Prefix
  <2> QED BY <2>4, <2>5
<1> QED BY <1>1, MonitorInit, MonitorNext, SearchInit, SearchNext, PTL DEF Spec

=============================================================================
