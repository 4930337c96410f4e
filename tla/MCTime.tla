------------------------------- MODULE MCTime -------------------------------
(***************************************************************************)
(* The waits of the kernel that a device ends: for the serial port and the *)
(* keyboard, and for the timer.  `part' says which a behaviour is about.   *)
(***************************************************************************)
EXTENDS Console, Timer

VARIABLE part

MCAsked == {-1, 0, 2, 4}
MCRealTime == {<<3, 1000>>, <<15, 1000>>, <<29, 1000>>}

\* With interrupts off for good the timer's part has nothing to do; the
\* console's part has nothing to do before somebody calls it.
TimeInit ==
  /\ part \in {"console", "timer"}
  /\ Init
  /\ IF part = "timer" THEN TimerInit ELSE Untouched /\ unmasked = FALSE

TimeNext ==
  \/ part = "console" /\ Next /\ UNCHANGED <<part, timerVars>>
  \/ part = "timer" /\ TimerNext /\ UNCHANGED <<part, vars>>

TimeSpec == TimeInit /\ [][TimeNext]_<<part, vars, timerVars>> /\ Fairness /\ TimerFairness
=============================================================================
