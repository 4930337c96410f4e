------------------------------ MODULE Threads ------------------------------
(***************************************************************************)
(* The uniprocessor round-robin scheduler of threads/thread.c: the run     *)
(* queue, the life cycle of a struct thread and the switch from one thread *)
(* to the next.  A member of Thread is the page that holds a struct        *)
(* thread; the page is "FREE" until palloc hands it out and again after    *)
(* thread_schedule_tail() has freed a dying thread.                        *)
(*                                                                         *)
(* The operators below are the scheduler's functions with interrupts off,  *)
(* so that each of them is one indivisible part of its caller's step.      *)
(* Module Synch composes them into the actions of running threads.         *)
(***************************************************************************)
EXTENDS Naturals, Sequences, Functions

CONSTANTS
  Thread,          \* pages that can hold a struct thread
  initial_thread,  \* the thread that main() runs on
  NULL,            \* the null pointer
  TIME_SLICE       \* timer ticks a thread may run before it must yield

ASSUME ThreadAssumption ==
  /\ initial_thread \in Thread
  /\ NULL \notin Thread
  /\ TIME_SLICE \in Nat \ {0}

VARIABLES
  status,        \* t->status, or "FREE" when page t holds no struct thread
  ready_list,    \* the run queue, front first
  all_list,      \* the struct threads linked into all_list
  current,       \* the thread whose stack the CPU is on
  idle_thread,   \* NULL until the idle thread has set it
  thread_ticks   \* ticks since the last switch

switchVars == <<status, ready_list, current, thread_ticks>>

Status == {"RUNNING", "READY", "BLOCKED", "DYING", "FREE"}

ThreadsTypeOK ==
  /\ status \in [Thread -> Status]
  /\ ready_list \in Seq(Thread)
  /\ all_list \in SUBSET Thread
  /\ current \in Thread
  /\ idle_thread \in Thread \cup {NULL}
  /\ thread_ticks \in 0 .. (TIME_SLICE - 1)

-----------------------------------------------------------------------------
(* Choosing and entering the next thread.                                  *)

next_thread_to_run(queue) ==
  IF queue = <<>> THEN idle_thread ELSE Head(queue)

\* thread_schedule_tail() frees the page of a dying thread only after the
\* switch away from it.
reap(st) ==
  IF st[current] = "DYING" /\ current # initial_thread
    THEN [st EXCEPT ![current] = "FREE"]
    ELSE st

\* schedule(), switch_threads() and thread_schedule_tail(), entered with
\* run queue `queue' and with the statuses `st' the caller has just set.
schedule(queue, st) ==
  LET next == next_thread_to_run(queue)
  IN  /\ ready_list' = IF queue = <<>> THEN queue ELSE Tail(queue)
      /\ current' = next
      /\ status' = [reap(st) EXCEPT ![next] = "RUNNING"]
      /\ thread_ticks' = 0

-----------------------------------------------------------------------------
(* The operations on the running thread.                                   *)

thread_block ==
  schedule(ready_list, [status EXCEPT ![current] = "BLOCKED"])

\* Bug variant: the idle thread is queued like any other.
thread_yield_QueueIdle ==
  schedule(Append(ready_list, current), [status EXCEPT ![current] = "READY"])

\* Bug variant: a yielding thread goes to the front of the run queue.
thread_yield_PushFront ==
  schedule(IF current # idle_thread THEN <<current>> \o ready_list
                                    ELSE ready_list,
           [status EXCEPT ![current] = "READY"])

thread_yield ==
  schedule(IF current # idle_thread THEN Append(ready_list, current)
                                    ELSE ready_list,
           [status EXCEPT ![current] = "READY"])

thread_exit ==
  /\ all_list' = all_list \ {current}
  /\ schedule(ready_list, [status EXCEPT ![current] = "DYING"])

\* Makes t ready without preempting the running thread.
thread_unblock(t) ==
  /\ ready_list' = Append(ready_list, t)
  /\ status' = [status EXCEPT ![t] = "READY"]

\* Bug variant: `>' for `>='.
thread_tick_OffByOne ==
  IF thread_ticks + 1 > TIME_SLICE
    THEN thread_yield
    ELSE /\ thread_ticks' = thread_ticks + 1
         /\ UNCHANGED <<status, ready_list, current>>

\* The timer interrupt: thread_tick(), and the yield on return from the
\* interrupt once the running thread has used up its time slice.
thread_tick ==
  IF thread_ticks + 1 >= TIME_SLICE
    THEN thread_yield
    ELSE /\ thread_ticks' = thread_ticks + 1
         /\ UNCHANGED <<status, ready_list, current>>

=============================================================================
