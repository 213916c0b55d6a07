----------------------------- MODULE RateControl -----------------------------
(***************************************************************************)
(* The arithmetic of server_monitor's rate control: how delta_change       *)
(* derives the next add_per_cycle from the utilisation it measured, and    *)
(* how init_attr rescales it for a new limit.  Single-precision quotients  *)
(* are taken exactly; where the exact value is a positive integer, rounding*)
(* of the two divisions may leave the truncated result one short of it.    *)
(***************************************************************************)
EXTENDS Integers

CONSTANTS
  SampleTicks,    \* sample_ticks, MODTIMES_PER_SEC * 5
  MinSampleUtil   \* MIN_SAMPLE_UTIL

ASSUME RateConstantsOK == SampleTicks \in Nat \ {0} /\ MinSampleUtil \in Nat

Abs(n) == IF n < 0 THEN -n ELSE n

\* Mutant: no lower clamp.
NoClamp(n) == n

\* x < 1 ? 1 : x
AtLeast1(n) == IF n < 1 THEN 1 ELSE n

\* mod_times only matters up to SampleTicks and, after that, modulo it: the
\* count is folded back so that it stays finite.
ModTimes == 0 .. 2 * SampleTicks
Increment(mod_times) ==
  IF mod_times = 2 * SampleTicks THEN SampleTicks + 1 ELSE mod_times + 1

\* (abs(err) / util_per_kernel) / 4, with util_per_kernel = util / cur.  A zero
\* util makes it infinite or NaN, which x86 converts to INT_MIN and the next
\* line to 1; a zero cur alone makes util_per_kernel infinite and it 0.
DeltaCycle(err, util, cur) ==
  LET num == Abs(err) * cur
      den == 4 * util
  IN  IF util = 0 THEN {1}
      ELSE IF cur = 0 THEN {0}
      ELSE {num \div den} \cup {q \in {(num \div den) - 1} : q >= 0 /\ num % den = 0}

\* Mutant: the sign of the error is not used.
NewCycleUp(old, delta, err, cur, last) ==
  LET overload == cur # last /\ delta * (last + 1) > Abs(cur - last) * old
  IN  AtLeast1(IF overload
                 THEN (old * (last + 1) + last * Abs(cur - last)) \div (last + 1)
                 ELSE old + delta)

\* Mutant: no overload branch.
NewCycleUndamped(old, delta, err, cur, last) ==
  AtLeast1(old + (IF err > 0 THEN delta ELSE -delta))

\* The cycle from a delta; the overload branch takes the relative change of
\* the launches instead when the change of the cycle would exceed it.
NewCycle(old, delta, err, cur, last) ==
  LET sign == IF err > 0 THEN 1 ELSE -1
      overload == cur # last /\ delta * (last + 1) > Abs(cur - last) * old
  IN  AtLeast1(IF overload
                 THEN (old * (last + 1) + sign * last * Abs(cur - last)) \div (last + 1)
                 ELSE old + sign * delta)

\* delta_change after its early return, for the already incremented mod_times:
\* the values add_per_cycle may be given, {} when it is left alone.
DeltaChange(mod_times, old, util, limit, cur, last) ==
  IF mod_times <= SampleTicks THEN {n \in {old + 1} : old <= MinSampleUtil}
  ELSE {NewCycle(old, d, limit - util, cur, last) :
          d \in {x \in DeltaCycle(limit - util, util, cur) : mod_times % SampleTicks = 0}}

\* init_attr's rescaling; core_limit already holds the new limit when the
\* quotient is taken.
Rescale(add_per_cycle, core_limit, limit) ==
  AtLeast1((add_per_cycle * core_limit) \div limit)

=============================================================================
