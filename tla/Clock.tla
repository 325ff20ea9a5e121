-------------------------------- MODULE Clock --------------------------------
(***************************************************************************)
(* Arithmetic of time: calibration and delays of devices/timer.c, the      *)
(* counter of devices/pit.c, and reading the clock chip (devices/rtc.c)    *)
(* while it runs.  The conversion of a date to seconds is not modelled.    *)
(***************************************************************************)
EXTENDS Integers, Sequences, FiniteSets

CONSTANTS FirstBit,      \* calibration starts at 2^FirstBit loops, 10 in the source
          RefineBits,    \* and ends at the bit this far below the highest, 9
          TIMER_FREQ,
          Thousand,      \* the factor 1000 that real_time_delay divides by
          PIT_HZ, MinFrequency, CounterSize,  \* 1193180, 19 and 65536
          Limits         \* of the clock's registers, seconds first: 60, 60, 24 ...

\* The CPU runs `speed' loops in a tick, not more.
too_many_loops(loops, speed) == loops > speed
Doubled(speed) ==
  LET big == CHOOSE k \in FirstBit..31 : /\ too_many_loops(2 * 2 ^ k, speed)
                                         /\ \A j \in FirstBit..k - 1 : ~too_many_loops(2 * 2 ^ j, speed)
  IN 2 ^ big
\* Fault: a bit is kept although the loops were too many.
Refined_over(lpt, test_bit, speed) ==
  IF too_many_loops(lpt, speed) THEN lpt ELSE lpt + test_bit
Refined(lpt, test_bit, speed) ==
  IF too_many_loops(lpt + test_bit, speed) THEN lpt ELSE lpt + test_bit
timer_calibrate(speed) ==
  LET high_bit == Doubled(speed)
      lpt[k \in 0..RefineBits] ==
        IF k = 0 THEN high_bit ELSE Refined(lpt[k - 1], high_bit \div 2 ^ k, speed)
  IN lpt[RefineBits]

real_time_delay(lpt, num, denom) == (((lpt * num) \div Thousand) * TIMER_FREQ) \div (denom \div Thousand)
\* Ticks to sleep, and loops to wait when those are none.
real_time_sleep(lpt, num, denom) ==
  LET ticks == (num * TIMER_FREQ) \div denom
  IN IF ticks > 0 THEN [ticks |-> ticks, loops |-> 0]
     ELSE [ticks |-> 0, loops |-> real_time_delay(lpt, num, denom)]

\* Calibration finds the loops of a tick to within the last bit it tries, never
\* more than there are, for a CPU that does at least 2^FirstBit; and a sleep of
\* NUM/DENOM seconds is never longer, and by less than a tick or by the rounding
\* of the scaled factors shorter.
DelaysFaithful(speed, num, denom) ==
  LET lpt == timer_calibrate(speed)
      s == real_time_sleep(lpt, num, denom)
      exact == lpt * num * TIMER_FREQ      \* loops, times denom
  IN speed >= 2 ^ FirstBit =>
       /\ lpt <= speed /\ speed < lpt + Doubled(speed) \div 2 ^ RefineBits
       /\ s.ticks > 0 => s.ticks * denom <= num * TIMER_FREQ /\ num * TIMER_FREQ < (s.ticks + 1) * denom
       /\ s.ticks = 0 => /\ s.loops * denom <= exact
                         /\ exact < (s.loops + 1) * denom + Thousand * TIMER_FREQ

\* Fault: the quotient is rounded down.
RoundedCount_down(frequency) == PIT_HZ \div frequency
RoundedCount(frequency) == (PIT_HZ + frequency \div 2) \div frequency
pit_configure_channel(frequency) ==
  IF frequency < MinFrequency THEN 0
  ELSE IF frequency > PIT_HZ THEN 2
  ELSE RoundedCount(frequency) % CounterSize
Abs(x) == IF x < 0 THEN -x ELSE x

\* The counter, 0 standing for CounterSize, is the number of cycles whose frequency
\* is nearest to the one asked for, where 2 to CounterSize cycles have it: up to
\* two thirds of PIT_HZ, above which the count is 1 or 2.
CounterFaithful(frequency) ==
  LET count == pit_configure_channel(frequency)
      cycles == IF count = 0 THEN CounterSize ELSE count
  IN /\ cycles \in 1..CounterSize
     /\ frequency >= MinFrequency /\ 3 * frequency <= 2 * PIT_HZ =>
          /\ cycles >= 2
          /\ \A n \in {cycles - 1, cycles + 1} :
               Abs(cycles * frequency - PIT_HZ) <= Abs(n * frequency - PIT_HZ)
     /\ frequency < MinFrequency => cycles = CounterSize
     /\ frequency > PIT_HZ => cycles = 2

\* The registers of the clock `now' seconds after the start of its range.
Registers(now) ==
  LET unit[i \in 1..Len(Limits)] == IF i = 1 THEN 1 ELSE unit[i - 1] * Limits[i - 1]
  IN [i \in DOMAIN Limits |-> (now \div unit[i]) % Limits[i]]
\* One pass of the loop reads register i at moment[i] and, last, the seconds again.
ReadPass(moment) == [i \in DOMAIN Limits |-> Registers(moment[i])[i]]
\* Fault: the minutes are compared.
Stable_minutes(moment) == Registers(moment[2])[2] = Registers(moment[Len(Limits) + 1])[2]
Stable(moment) == Registers(moment[1])[1] = Registers(moment[Len(Limits) + 1])[1]
rtc_get_time(moment) == IF Stable(moment) THEN ReadPass(moment) ELSE <<>>

\* The registers are read while the clock goes on: what a pass accepts was on the
\* clock at one moment, if the pass takes less than a minute.
ReadFaithful(moment) ==
  LET n == Len(Limits) + 1
      time == rtc_get_time(moment)
  IN /\ \A i \in 1..n - 1 : moment[i] <= moment[i + 1]
     /\ moment[n] - moment[1] < Limits[1]
     /\ time # <<>>
     => \E t \in moment[1]..moment[n] : time = Registers(t)
=============================================================================
