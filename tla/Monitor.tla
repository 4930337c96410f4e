------------------------------ MODULE Monitor ------------------------------
(***************************************************************************)
(* What locks and condition variables promise: a Mesa monitor in which     *)
(* releasing the lock and starting to wait are one indivisible step        *)
(* (the comment at the head of cond_wait() in threads/synch.c).            *)
(***************************************************************************)
EXTENDS Sequences

CONSTANTS Thread, Lock, Cond, CondLock, NULL

VARIABLES
  owner,     \* the thread that has each lock
  waiting,   \* the threads waiting on each condition, longest first
  signalled  \* threads that were signalled and do not have the lock back yet

monitorVars == <<owner, waiting, signalled>>

Init ==
  /\ owner = [l \in Lock |-> NULL]
  /\ waiting = [c \in Cond |-> <<>>]
  /\ signalled = {}

Acquire(t, l) ==
  /\ owner[l] = NULL
  /\ t \notin signalled
  /\ \A c \in Cond : \A i \in DOMAIN waiting[c] : waiting[c][i] # t
  /\ owner' = [owner EXCEPT ![l] = t]
  /\ UNCHANGED <<waiting, signalled>>

Release(t, l) ==
  /\ owner[l] = t
  /\ owner' = [owner EXCEPT ![l] = NULL]
  /\ UNCHANGED <<waiting, signalled>>

Wait(t, c) ==
  /\ owner[CondLock[c]] = t
  /\ owner' = [owner EXCEPT ![CondLock[c]] = NULL]
  /\ waiting' = [waiting EXCEPT ![c] = Append(@, t)]
  /\ UNCHANGED signalled

\* One waiter of c, the one that has waited longest, is signalled by t.
Signal(t, c) ==
  /\ owner[CondLock[c]] = t
  /\ waiting[c] # <<>>
  /\ waiting' = [waiting EXCEPT ![c] = Tail(@)]
  /\ signalled' = signalled \cup {Head(waiting[c])}
  /\ UNCHANGED owner

\* A signalled thread takes the lock again and returns from its wait.
Return(t, c) ==
  /\ t \in signalled
  /\ owner[CondLock[c]] = NULL
  /\ owner' = [owner EXCEPT ![CondLock[c]] = t]
  /\ signalled' = signalled \ {t}
  /\ UNCHANGED waiting

Next ==
  /\ owner' # owner \/ waiting' # waiting
  /\ \E t \in Thread :
       \/ \E l \in Lock : Acquire(t, l) \/ Release(t, l)
       \/ \E c \in Cond : Wait(t, c) \/ Signal(t, c) \/ Return(t, c)

Spec == Init /\ [][Next]_monitorVars

=============================================================================
