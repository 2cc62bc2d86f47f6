------------------------------- MODULE Clock -------------------------------
(***************************************************************************)
(* The arithmetic of time: calibration (async/src/common/tick.rs) and what *)
(* WaitTimer and Timeout make of durations (async/src/common/time.rs).     *)
(* Operators only.  u64 is 0..(Word - 1); the units are parameters, so     *)
(* that small clocks meet the same cases as real ones.                     *)
(***************************************************************************)
EXTENDS Naturals, FiniteSetsExt

CONSTANTS Word,      \* 2^64
          PerSecond, \* how many ms, us, ns, ps make a second
          Seconds,   \* how many seconds make a min, hour, day, week, month, year
          PerSample  \* how many calibration samples (of 50 ms) make a second

ASSUME ClockAssumption ==
    /\ Word \in Nat \ {0} /\ PerSample \in Nat
    /\ PerSecond \in [{"ms", "us", "ns", "ps"} -> Nat \ {0}]
    /\ Seconds \in [{"mins", "hour", "day", "week", "month", "year"} -> Nat \ {0}]

Most == Word - 1
SaturatingMul(a, b) == Min({a * b, Most})
SaturatingAdd(a, b) == Min({a + b, Most})
WrappingAdd(a, b) == (a + b) % Word

(* FREQ before init_clock_freq(). *)
Uncalibrated == [hz |-> 0, ms |-> 0, us |-> 0, ns |-> 0, ps |-> 0]

(* init_clock_freq(): FREQ after `sample` ticks went by in the stall. *)
Calibrated(sample) ==
    LET hz == sample * PerSample
        per(u) == Max({hz \div PerSecond[u], 1})
    IN  [hz |-> hz, ms |-> per("ms"), us |-> per("us"), ns |-> per("ns"),
         ps |-> hz \div PerSecond["ps"]]

(* WaitTimer::from_*: the ticks that n units take.  The products with the
   calibrated frequency overflow for month to min and saturate for year. *)
FromUnit(u, n, freq) ==
    CASE u = "year" -> SaturatingMul(n, SaturatingMul(freq.hz, Seconds[u]))
      [] u \in {"month", "week", "day", "hour", "mins"} ->
            SaturatingMul(n, (freq.hz * Seconds[u]) % Word)
      [] u = "s" -> SaturatingMul(n, freq.hz)
      [] u \in {"ms", "us", "ns", "ps"} -> SaturatingMul(n, freq[u])
      [] u = "fps" -> freq.hz \div Max({n, 1})

(* The methods that _WaitTimer gives u64: hz() is s(). *)
Dsl(call, n, freq) == FromUnit(IF call = "hz" THEN "s" ELSE call, n, freq)

(* Mutant: the deadline is one tick early. *)
AfterShort(now, ticks) == IF ticks = 0 THEN now ELSE WrappingAdd(now, ticks - 1)

(* WaitTimer::after: a deadline past the end of time wraps around. *)
After(now, ticks) == WrappingAdd(now, ticks)

(* WaitTimer::is_expired *)
IsExpired(now, deadline) == now >= deadline

(* Timeout::new: a deadline past the end of time is the end of time. *)
TimeoutDeadline(now, ticks) == SaturatingAdd(now, ticks)
=============================================================================
