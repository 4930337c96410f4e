-------------------------------- MODULE Rtc ---------------------------------
(***************************************************************************)
(* Reading the real-time clock (devices/rtc.c): six registers, one after   *)
(* the other, of a clock that goes on meanwhile, until the second is the   *)
(* same before and after.                                                  *)
(***************************************************************************)
EXTENDS Integers, Sequences

CONSTANTS
  Instants,   \* the times at which the reading may begin
  MaxPasses   \* bound on the seconds that pass meanwhile

VARIABLES
  clock,      \* the registers in BCD: second, minute, hour, day, month, year
  values,     \* the components read in this round
  again,      \* the second, read once more; -1 before
  passed,     \* the seconds that have passed
  shown,      \* the times that the clock has shown during this round
  rtc_time    \* what rtc_get_time() returns, in days and seconds; <<>> before

rtcVars == <<clock, values, again, passed, shown, rtc_time>>

bin_to_bcd(n) == (n \div 10) * 16 + (n % 10)
bcd_to_bin(x) == (x % 16) + (x \div 16) * 10
in_binary(c) == [r \in 1..6 |-> bcd_to_bin(c[r])]
in_bcd(t) == [r \in 1..6 |-> bin_to_bcd(t[r])]

days_per_month == <<31, 28, 31, 30, 31, 30, 31, 31, 30, 31, 30, 31>>

\* The chip's calendar, with a leap year every four years.
month_end(t) == days_per_month[t[5]] + (IF t[5] = 2 /\ t[6] % 4 = 0 THEN 1 ELSE 0)
next_second(t) ==
  IF t[1] < 59 THEN [t EXCEPT ![1] = @ + 1]
  ELSE IF t[2] < 59 THEN [t EXCEPT ![1] = 0, ![2] = @ + 1]
  ELSE IF t[3] < 23 THEN [t EXCEPT ![1] = 0, ![2] = 0, ![3] = @ + 1]
  ELSE IF t[4] < month_end(t) THEN <<0, 0, 0, t[4] + 1, t[5], t[6]>>
  ELSE IF t[5] < 12 THEN <<0, 0, 0, 1, t[5] + 1, t[6]>>
  ELSE <<0, 0, 0, 1, 1, (t[6] + 1) % 100>>

RtcInit ==
  /\ clock \in {in_bcd(t) : t \in Instants}
  /\ values = <<>> /\ again = -1 /\ passed = 0
  /\ shown = {in_binary(clock)}
  /\ rtc_time = <<>>

\* The clock shows the next second, all registers at once.
clock_ticks ==
  /\ passed < MaxPasses /\ rtc_time = <<>>
  /\ clock' = in_bcd(next_second(in_binary(clock)))
  /\ shown' = shown \cup {in_binary(clock')}
  /\ passed' = passed + 1
  /\ UNCHANGED <<values, again, rtc_time>>

\* cmos_read() of the next register, from the second to the year.
cmos_read ==
  /\ Len(values) < 6
  /\ values' = Append(values, bcd_to_bin(clock[Len(values) + 1]))
  /\ UNCHANGED <<clock, again, passed, shown, rtc_time>>

cmos_read_again ==
  /\ Len(values) = 6 /\ again = -1
  /\ again' = bcd_to_bin(clock[1])
  /\ UNCHANGED <<clock, values, passed, shown, rtc_time>>

\* Bug variant: one round of reading is enough.
stable_Once == TRUE

\* The condition of the do-while loop.
stable == values[1] = again

read_again ==
  /\ again # -1 /\ ~stable
  /\ values' = <<>> /\ again' = -1
  /\ shown' = {in_binary(clock)}
  /\ UNCHANGED <<clock, passed, rtc_time>>

\* The components in seconds.  The loop over the months includes the current
\* one, and leap years are those that 4 divides counted from 1970.
days_before[mon \in 0..12] ==
  IF mon = 0 THEN 0 ELSE days_before[mon - 1] + days_per_month[mon]
in_days(v) ==
  LET year == (IF v[6] < 70 THEN v[6] + 100 ELSE v[6]) - 70
  IN  year * 365 + (IF year = 0 THEN 0 ELSE (year - 1) \div 4)
        + days_before[v[5]]
        + (IF v[5] > 2 /\ year % 4 = 0 THEN 1 ELSE 0)
        + (v[4] - 1)
in_seconds(v) == <<in_days(v), (v[3] * 60 + v[2]) * 60 + v[1]>>

rtc_get_time ==
  /\ again # -1 /\ stable /\ rtc_time = <<>>
  /\ rtc_time' = in_seconds(values)
  /\ UNCHANGED <<clock, values, again, passed, shown>>

RtcNext == clock_ticks \/ cmos_read \/ cmos_read_again \/ read_again \/ rtc_get_time

\* The six components that rtc_get_time() goes by are those of one instant
\* during its last round of reading, and not put together from before and
\* after a carry.
TimeIsOne == rtc_time # <<>> => values \in shown

\* The days from 1970 to the date of v by the calendar, 2000 being a leap year.
calendar_days(v) ==
  LET year == (IF v[6] < 70 THEN 2000 ELSE 1900) + v[6]
  IN  (year - 1970) * 365 + ((year - 1) \div 4 - 1969 \div 4)
        + days_before[v[5] - 1] + (IF v[5] > 2 /\ year % 4 = 0 THEN 1 ELSE 0)
        + (v[4] - 1)

\* rtc.c:40: rtc_get_time() "returns number of seconds since Unix epoch of
\* January 1, 1970".
SecondsSinceEpoch ==
  rtc_time # <<>> =>
    rtc_time = <<calendar_days(values), (values[3] * 60 + values[2]) * 60 + values[1]>>
=============================================================================
