------------------------------- MODULE Timer --------------------------------
(***************************************************************************)
(* The tick counter and the sleeps that are built on it (devices/timer.c). *)
(* The counter has 64 bits and the machine 32, so a read of it is two      *)
(* loads.  One thread sleeps; the CPU also goes to the rest of the system. *)
(***************************************************************************)
EXTENDS Integers

CONSTANTS
  HALF,        \* the values of one word
  MaxTicks,    \* bound on the ticks
  Asked,       \* the arguments of timer_sleep()
  TIMER_FREQ,
  RealTime     \* the arguments <<num, denom>> of real_time_sleep()

ASSUME TimerAssumption ==
  /\ HALF \in Nat \ {0} /\ TIMER_FREQ \in Nat \ {0}
  /\ MaxTicks \in Nat
  /\ Asked \subseteq Int /\ RealTime \subseteq Int \X (Nat \ {0})

VARIABLES
  low, high,   \* the two words of ticks
  unmasked,    \* the interrupt level is INTR_ON
  running,     \* the sleeper has the CPU
  where,       \* the sleeper's next step
  resume,      \* where timer_ticks() returns to
  half,        \* the word that it has loaded
  returned,    \* what it has returned
  start, asked, \* timer_sleep()'s start, and its argument
  called       \* ticks when timer_sleep() was called

timerVars == <<low, high, unmasked, running, where, resume, half, returned, start,
               asked, called>>

ticks == high * HALF + low

Untouched ==
  /\ low = 0 /\ high = 0 /\ running = TRUE
  /\ where = "awake" /\ resume = "awake"
  /\ half = 0 /\ returned = 0 /\ start = 0 /\ asked = 0 /\ called = 0

TimerInit == Untouched /\ unmasked = TRUE

\* timer_interrupt(): thread_tick() may give the CPU to another thread.
timer_interrupt ==
  /\ unmasked /\ ticks < MaxTicks
  /\ low' = (low + 1) % HALF
  /\ high' = IF low + 1 = HALF THEN high + 1 ELSE high
  /\ running' \in BOOLEAN
  /\ UNCHANGED <<unmasked, where, resume, half, returned, start, asked, called>>

\* The rest of the system comes to the end of its slice, or yields.
switch_back ==
  /\ ~running
  /\ running' = TRUE
  /\ UNCHANGED <<low, high, unmasked, where, resume, half, returned, start, asked, called>>

\* timer_sleep (n): the call of timer_ticks().
timer_sleep(n) ==
  /\ running /\ where = "awake"
  /\ where' = "disable" /\ resume' = "started"
  /\ asked' = n /\ called' = ticks
  /\ UNCHANGED <<low, high, unmasked, running, half, returned, start>>

in_ticks(num, denom) == (num * TIMER_FREQ) \div denom

\* real_time_sleep(): less than a tick is a busy wait, which changes nothing.
real_time_sleep(num, denom) ==
  /\ in_ticks(num, denom) > 0
  /\ timer_sleep(in_ticks(num, denom))

\* Bug variant: an interrupt may come between the two loads.
intr_disable_Not == UNCHANGED unmasked

\* timer_ticks(): intr_disable() ...
intr_disable == unmasked' = FALSE

ticks_begin ==
  /\ running /\ where = "disable"
  /\ intr_disable
  /\ where' = "low"
  /\ UNCHANGED <<low, high, running, resume, half, returned, start, asked, called>>

\* ... the load of one word ...
ticks_low ==
  /\ running /\ where = "low"
  /\ half' = low /\ where' = "high"
  /\ UNCHANGED <<low, high, unmasked, running, resume, returned, start, asked, called>>

\* ... and of the other, intr_set_level() and the return.
ticks_high ==
  /\ running /\ where = "high"
  /\ returned' = high * HALF + half /\ half' = 0
  /\ unmasked' = TRUE
  /\ where' = resume
  /\ UNCHANGED <<low, high, running, resume, start, asked, called>>

\* start is set and timer_elapsed() called.
started ==
  /\ running /\ where = "started"
  /\ start' = returned
  /\ where' = "disable" /\ resume' = "elapsed"
  /\ UNCHANGED <<low, high, unmasked, running, half, returned, asked, called>>

time_is_up == returned - start >= asked

\* Bug variant: every round starts anew.
sleep_loop_Start ==
  /\ running /\ where = "elapsed"
  /\ IF time_is_up
       THEN where' = "slept" /\ UNCHANGED <<running, resume>>
       ELSE where' = "disable" /\ running' = FALSE /\ resume' = "started"
  /\ UNCHANGED <<low, high, unmasked, half, returned, start, asked, called>>

\* The loop of timer_sleep(): it returns, or yields and asks again.
sleep_loop ==
  /\ running /\ where = "elapsed"
  /\ IF time_is_up
       THEN where' = "slept" /\ UNCHANGED <<running, resume>>
       ELSE where' = "disable" /\ running' = FALSE /\ UNCHANGED resume
  /\ UNCHANGED <<low, high, unmasked, half, returned, start, asked, called>>

go_on ==
  /\ running /\ where = "slept"
  /\ where' = "awake" /\ resume' = "awake"
  /\ returned' = 0 /\ start' = 0 /\ asked' = 0 /\ called' = 0
  /\ UNCHANGED <<low, high, unmasked, running, half>>

sleeper_step == ticks_begin \/ ticks_low \/ ticks_high \/ started \/ sleep_loop \/ go_on

TimerNext ==
  \/ timer_interrupt \/ switch_back \/ sleeper_step
  \/ \E n \in Asked : timer_sleep(n)
  \/ \E r \in RealTime : real_time_sleep(r[1], r[2])

\* An interrupt that is pending comes when interrupts are on again, and round
\* robin gives the CPU back.
TimerFairness ==
  /\ SF_timerVars(timer_interrupt)
  /\ WF_timerVars(switch_back)
  /\ SF_timerVars(sleeper_step)

\* What timer_ticks() returns is a value that the counter had during the call,
\* never a mixture of two; so timer_sleep() does not return before the ticks
\* it was asked for have passed.
SleepsFully == where = "slept" => ticks - called >= asked

\* timer_sleep() returns, unless the counter of this model stops before.
SleepEnds ==
  (where = "elapsed" /\ start + asked <= MaxTicks) ~> (where = "slept")
=============================================================================
