------------------------------- MODULE Delay --------------------------------
(***************************************************************************)
(* The arithmetic of time: timer_calibrate() and real_time_delay() of      *)
(* devices/timer.c, and the divisor of devices/pit.c, on machines of every *)
(* speed.                                                                  *)
(***************************************************************************)
EXTENDS Integers

CONSTANTS
  UINT,        \* the values of an unsigned: a power of 2
  FIRST,       \* the least loops_per_tick: 1u << 10 in the code
  SHIFT,       \* the bits below the highest that the loop reaches: 10
  KILO,        \* 1000
  FREQ,        \* TIMER_FREQ
  Delays,      \* the arguments <<num, denom>> of real_time_delay()
  PIT_HZ,
  Frequencies  \* the arguments of pit_configure_channel()

VARIABLES
  speed,           \* the loops that the machine runs in a tick
  loops_per_tick,  \* 0 before the calibration
  halted,          \* the ASSERT of timer_calibrate() has failed
  delay,           \* the last real_time_delay(): its arguments and its loops
  divisor          \* the last frequency, and the count for it

delayVars == <<speed, loops_per_tick, halted, delay, divisor>>

DelayInit ==
  /\ speed \in 0..UINT - 1
  /\ loops_per_tick = 0 /\ halted = FALSE
  /\ delay = <<0, 1, 0>>
  /\ divisor = <<0, 0>>

\* loops iterations, begun when a tick has just come, outlast the tick.
too_many_loops(loops) == loops > speed

\* The first loop: the largest power of two that is not too many; 0 after an
\* overflow, which the ASSERT catches.
power[l \in 0..UINT - 1] ==
  IF l = 0 \/ too_many_loops((2 * l) % UINT) THEN l ELSE power[(2 * l) % UINT]

refine_Keep[high_bit \in 0..UINT - 1, test_bit \in 0..UINT - 1, l \in 0..UINT - 1] ==
  IF test_bit = high_bit \div 2 ^ SHIFT THEN l
  ELSE refine_Keep[high_bit, test_bit \div 2, l + test_bit]

\* The second loop: test_bit goes down from below high_bit; it is not yet set
\* in l, so that `or' is addition.
refine[high_bit \in 0..UINT - 1, test_bit \in 0..UINT - 1, l \in 0..UINT - 1] ==
  IF test_bit = high_bit \div 2 ^ SHIFT THEN l
  ELSE refine[high_bit, test_bit \div 2,
              IF too_many_loops(l + test_bit) THEN l ELSE l + test_bit]

refined(high_bit) == refine[high_bit, high_bit \div 2, high_bit]

timer_calibrate ==
  /\ loops_per_tick = 0 /\ ~halted
  /\ IF power[FIRST] = 0
       THEN halted' = TRUE /\ UNCHANGED loops_per_tick
       ELSE loops_per_tick' = refined(power[FIRST]) /\ UNCHANGED halted
  /\ UNCHANGED <<speed, delay, divisor>>

\* The division before the multiplication keeps the product small.
delay_loops(num, denom) ==
  (((loops_per_tick * num) \div KILO) * FREQ) \div (denom \div KILO)

real_time_delay(num, denom) ==
  /\ loops_per_tick # 0
  /\ delay' = <<num, denom, delay_loops(num, denom)>>
  /\ UNCHANGED <<speed, loops_per_tick, halted, divisor>>

\* The 16 bits that are loaded into the counter, where 0 means 65536.
count(frequency) ==
  IF frequency < 19 THEN 0
  ELSE IF frequency > PIT_HZ THEN 2
  ELSE ((PIT_HZ + frequency \div 2) \div frequency) % 65536

pit_configure_channel(frequency) ==
  /\ divisor' = <<frequency, count(frequency)>>
  /\ UNCHANGED <<speed, loops_per_tick, halted, delay>>

DelayNext ==
  \/ timer_calibrate
  \/ \E d \in Delays : real_time_delay(d[1], d[2])
  \/ \E f \in Frequencies : pit_configure_channel(f)

\* timer_calibrate() finds a number of loops that fits into a tick and misses
\* the largest one by less than the last bit it tries, on every machine that
\* runs at least FIRST loops in a tick and fewer than half of the unsigneds;
\* a faster one stops at the ASSERT.
CalibrationExact ==
  /\ loops_per_tick # 0 /\ speed >= FIRST =>
       /\ loops_per_tick <= speed
       /\ speed - loops_per_tick < (2 * power[FIRST]) \div 2 ^ SHIFT
  /\ halted => speed >= UINT \div 2

\* real_time_delay() never loops for longer than it was asked to, and its two
\* roundings lose less than one loop and less than KILO of the products.
DelayExact ==
  LET wanted == loops_per_tick * delay[1] * FREQ
  IN  loops_per_tick # 0 =>
        /\ delay[3] * delay[2] <= wanted
        /\ wanted < (delay[3] + 1) * delay[2] + KILO * FREQ

\* The counter's period is the nearest there is to the one asked for, within
\* the periods that the chip can count; and no count is 1, which is illegal in
\* mode 2, for frequencies up to two thirds of the clock's.
DivisorNearest ==
  LET f == divisor[1]
      period == IF divisor[2] = 0 THEN 65536 ELSE divisor[2]
  IN  f # 0 =>
        /\ 3 * f <= 2 * PIT_HZ => period >= 2
        /\ \/ 2 * (period * f - PIT_HZ) \in -f..f
           \/ period = 65536 /\ period * f < PIT_HZ
           \/ period = 2 /\ f > PIT_HZ
=============================================================================
