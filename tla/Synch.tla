------------------------------- MODULE Synch -------------------------------
(***************************************************************************)
(* Semaphores, locks and condition variables (threads/synch.c) over the    *)
(* scheduler of module Threads, with the parts of thread.c that are made   *)
(* of them: thread_start(), idle(), thread_create() and allocate_tid().    *)
(*                                                                         *)
(* There is one CPU.  Only `current' takes steps, each step is the code    *)
(* between two points where an interrupt can be taken, and threads         *)
(* interleave because they block or because a timer interrupt yields.      *)
(* pc[t] is where thread t is inside the call it has in progress, "run"    *)
(* when it is in none; a thread in "run" may make any call whose           *)
(* preconditions (the ASSERTs at the head of the function) it meets.       *)
(***************************************************************************)
EXTENDS Threads, FiniteSets

CONSTANTS
  Sema,       \* free-standing semaphores
  Lock,       \* locks, each with the semaphore inside it
  tid_lock,   \* the lock of allocate_tid()
  Cond,       \* condition variables
  CondLock,   \* the lock that goes with each condition variable
  MaxValue,   \* bound on the value clients raise a semaphore to
  MaxTid,     \* bound on the thread identifiers handed out
  USERPROG    \* TRUE in the builds that give threads an fd_table

ASSUME SynchAssumption ==
  /\ tid_lock \in Lock
  /\ CondLock \in [Cond -> Lock \ {tid_lock}]
  /\ NULL \notin Sema \cup Lock \cup Cond
  /\ Sema \cap Lock = {}
  /\ Sema \cap Thread = {}
  /\ Lock \cap Thread = {}
  /\ MaxValue \in Nat
  /\ MaxTid \in Nat
  /\ USERPROG \in BOOLEAN

\* Every struct thread has a page of physical memory of its own.
ASSUME FiniteAssumption == IsFiniteSet(Thread)

VARIABLES
  value,         \* sema->value
  waiters,       \* sema->waiters, front first
  holder,        \* lock->holder
  cond_waiters,  \* cond->waiters, each entry named by the waiting thread
  pc,            \* where each thread is
  obj,           \* the semaphore or lock its call in progress works on
  cv,            \* the condition it is in cond_wait() or cond_broadcast() for
  child,         \* the struct thread its thread_create() has allocated
  reg,           \* next_tid as allocate_tid() has read it
  next_tid, tid

\* A semaphore named by a thread is the one on that thread's stack: the
\* waiter of cond_wait(), or idle_started of thread_start().
Sem == Sema \cup Lock \cup Thread

localVars == <<pc, obj, cv, child, reg>>
tidVars   == <<next_tid, tid>>
vars == <<status, ready_list, all_list, current, idle_thread, thread_ticks,
          value, waiters, holder, cond_waiters, pc, obj, cv, child, reg,
          next_tid, tid>>

Label == {"boot", "start_down", "idle_init", "idle_up", "idle_loop", "hlt",
          "run", "down", "set_holder", "release_up", "cond_release",
          "cond_down", "reacquire", "signal_up", "broadcast",
          "tid_acquire", "tid_read", "tid_write", "tid_release", "create_end"}

TypeOK ==
  /\ ThreadsTypeOK
  /\ value \in [Sem -> Nat]
  /\ waiters \in [Sem -> Seq(Thread)]
  /\ holder \in [Lock -> Thread \cup {NULL}]
  /\ cond_waiters \in [Cond -> Seq(Thread)]
  /\ pc \in [Thread -> Label]
  /\ obj \in [Thread -> Sem \cup {NULL}]
  /\ cv \in [Thread -> Cond \cup {NULL}]
  /\ child \in [Thread -> Thread \cup {NULL}]
  /\ reg \in [Thread -> Nat]
  /\ next_tid \in Nat
  /\ tid \in [Thread -> Nat]

\* thread_init() has run: main() is a thread, interrupts are still off.
Init ==
  /\ status = [t \in Thread |->
                 IF t = initial_thread THEN "RUNNING" ELSE "FREE"]
  /\ ready_list = <<>>
  /\ all_list = {initial_thread}
  /\ current = initial_thread
  /\ idle_thread = NULL
  /\ thread_ticks = 0
  /\ value = [s \in Sem |-> IF s \in Lock THEN 1 ELSE 0]
  /\ waiters = [s \in Sem |-> <<>>]
  /\ holder = [l \in Lock |-> NULL]
  /\ cond_waiters = [c \in Cond |-> <<>>]
  /\ pc = [t \in Thread |-> IF t = initial_thread THEN "boot" ELSE "run"]
  /\ obj = [t \in Thread |-> NULL]
  /\ cv = [t \in Thread |-> NULL]
  /\ child = [t \in Thread |-> NULL]
  /\ reg = [t \in Thread |-> 0]
  /\ next_tid = 2
  /\ tid = [t \in Thread |-> IF t = initial_thread THEN 1 ELSE 0]

-----------------------------------------------------------------------------
(* Steps of the running thread.                                            *)

At(label) == pc[current] = label

Goto(label) == pc' = [pc EXCEPT ![current] = label]


\* Every step of a thread leaves these alone unless the action says so.
keepCreate == UNCHANGED <<all_list, idle_thread, child, reg, next_tid, tid>>

-----------------------------------------------------------------------------
(* Semaphores.                                                             *)

\* Where a thread goes on once it has got the semaphore: a lock has its
\* holder set next, a thread woken in cond_wait() takes the lock again.
AfterDown(s) ==
  CASE s \in Lock -> "set_holder"
    [] s \in Thread /\ cv[current] # NULL -> "reacquire"
    [] OTHER -> "run"

\* Bug variant: `if' for `while', a woken thread does not look at the value
\* again (an unsigned value would wrap; here it stays at 0).
sema_down_NoRecheck(s) ==
  \/ /\ value[s] = 0 /\ ~At("down")
     /\ waiters' = [waiters EXCEPT ![s] = Append(@, current)]
     /\ thread_block
     /\ Goto("down")
     /\ obj' = [obj EXCEPT ![current] = s]
     /\ UNCHANGED value
  \/ /\ value[s] > 0 \/ At("down")
     /\ value' = [value EXCEPT ![s] = IF @ = 0 THEN 0 ELSE @ - 1]
     /\ Goto(AfterDown(s))
     /\ obj' = [obj EXCEPT ![current] = IF s \in Lock THEN s ELSE NULL]
     /\ UNCHANGED <<waiters, status, ready_list, current, thread_ticks>>

\* One pass of the loop of sema_down(): sleep on the waiters list, or take
\* a unit and return.  A thread that is woken goes round the loop again, in
\* "down", and still has interrupts off.
sema_down(s) ==
  \/ /\ value[s] = 0
     /\ waiters' = [waiters EXCEPT ![s] = Append(@, current)]
     /\ thread_block
     /\ Goto("down")
     /\ obj' = [obj EXCEPT ![current] = s]
     /\ UNCHANGED value
  \/ /\ value[s] > 0
     /\ value' = [value EXCEPT ![s] = @ - 1]
     /\ Goto(AfterDown(s))
     /\ obj' = [obj EXCEPT ![current] = IF s \in Lock THEN s ELSE NULL]
     /\ UNCHANGED <<waiters, status, ready_list, current, thread_ticks>>

sema_try_down(s) ==
  /\ value[s] > 0
  /\ value' = [value EXCEPT ![s] = @ - 1]

\* Bug variant: only the value changes, nobody is woken.
sema_up_NoWake(s) ==
  /\ value' = [value EXCEPT ![s] = @ + 1]
  /\ UNCHANGED <<waiters, status, ready_list, current, thread_ticks>>

sema_up(s) ==
  /\ IF waiters[s] # <<>>
       THEN /\ thread_unblock(Head(waiters[s]))
            /\ waiters' = [waiters EXCEPT ![s] = Tail(@)]
       ELSE UNCHANGED <<waiters, status, ready_list>>
  /\ value' = [value EXCEPT ![s] = @ + 1]
  /\ UNCHANGED <<current, thread_ticks>>


Resume ==
  /\ At("down")
  /\ sema_down(obj[current])
  /\ keepCreate
  /\ UNCHANGED <<holder, cond_waiters, cv>>

SemaDown(s) ==
  /\ At("run")
  /\ sema_down(s)
  /\ keepCreate
  /\ UNCHANGED <<holder, cond_waiters, cv>>

SemaTryDown(s) ==
  /\ At("run")
  /\ sema_try_down(s)
  /\ keepCreate
  /\ UNCHANGED <<switchVars, waiters, holder, cond_waiters, pc, obj, cv>>

SemaUp(s) ==
  /\ At("run")
  /\ value[s] < MaxValue
  /\ sema_up(s)
  /\ keepCreate
  /\ UNCHANGED <<holder, cond_waiters, pc, obj, cv>>

-----------------------------------------------------------------------------
(* Locks.  A client uses every lock but tid_lock.                          *)

ClientLock == Lock \ {tid_lock}

lock_held_by_current_thread(l) == holder[l] = current

LockAcquire(l) ==
  /\ At("run")
  /\ ~lock_held_by_current_thread(l)
  /\ sema_down(l)
  /\ keepCreate
  /\ UNCHANGED <<holder, cond_waiters, cv>>

\* A failed lock_try_acquire() changes nothing.
LockTryAcquire(l) ==
  /\ At("run")
  /\ ~lock_held_by_current_thread(l)
  /\ sema_try_down(l)
  /\ Goto("set_holder")
  /\ obj' = [obj EXCEPT ![current] = l]
  /\ keepCreate
  /\ UNCHANGED <<switchVars, waiters, holder, cond_waiters, cv>>

\* The last statement of lock_acquire(), lock_try_acquire() and, through
\* lock_acquire(), of cond_wait(); allocate_tid() goes on to read next_tid.
SetHolder ==
  LET l == obj[current]
  IN  /\ At("set_holder")
      /\ holder' = [holder EXCEPT ![l] = current]
      /\ Goto(IF l = tid_lock THEN "tid_read" ELSE "run")
      /\ obj' = [obj EXCEPT ![current] = NULL]
      /\ cv' = [cv EXCEPT ![current] = NULL]
      /\ keepCreate
      /\ UNCHANGED <<switchVars, value, waiters, cond_waiters>>

\* lock_release() forgets the holder before it ups the semaphore; an
\* interrupt can come in between.
lock_release(l) ==
  /\ holder' = [holder EXCEPT ![l] = NULL]
  /\ Goto("release_up")
  /\ obj' = [obj EXCEPT ![current] = l]
  /\ UNCHANGED <<switchVars, value, waiters, cond_waiters, cv>>

LockRelease(l) ==
  /\ At("run")
  /\ lock_held_by_current_thread(l)
  /\ lock_release(l)
  /\ keepCreate

\* Who has called lock_release(): cond_wait(), allocate_tid() or a client.
AfterRelease ==
  CASE cv[current] # NULL -> "cond_down"
    [] child[current] # NULL -> "create_end"
    [] OTHER -> "run"

ReleaseUp ==
  /\ At("release_up")
  /\ sema_up(obj[current])
  /\ Goto(AfterRelease)
  /\ obj' = [obj EXCEPT ![current] = NULL]
  /\ keepCreate
  /\ UNCHANGED <<holder, cond_waiters, cv>>


-----------------------------------------------------------------------------
(* Condition variables.                                                    *)

\* cond_wait() queues a semaphore of its own, at 0, then releases the lock,
\* sleeps on the semaphore and takes the lock again.
CondWait(c) ==
  /\ At("run")
  /\ lock_held_by_current_thread(CondLock[c])
  /\ value' = [value EXCEPT ![current] = 0]
  /\ waiters' = [waiters EXCEPT ![current] = <<>>]
  /\ cond_waiters' = [cond_waiters EXCEPT ![c] = Append(@, current)]
  /\ cv' = [cv EXCEPT ![current] = c]
  /\ Goto("cond_release")
  /\ keepCreate
  /\ UNCHANGED <<switchVars, holder, obj>>

CondRelease ==
  /\ At("cond_release")
  /\ lock_release(CondLock[cv[current]])
  /\ keepCreate

\* Bug variant: the waiter's semaphore is initialised after the release.
CondDown_InitLate ==
  /\ At("cond_down")
  /\ value' = [value EXCEPT ![current] = 0]
  /\ waiters' = [waiters EXCEPT ![current] = <<current>>]
  /\ thread_block
  /\ Goto("down")
  /\ obj' = [obj EXCEPT ![current] = current]
  /\ keepCreate
  /\ UNCHANGED <<holder, cond_waiters, cv>>

CondDown ==
  /\ At("cond_down")
  /\ sema_down(current)
  /\ keepCreate
  /\ UNCHANGED <<holder, cond_waiters, cv>>

CondReacquire ==
  /\ At("reacquire")
  /\ sema_down(CondLock[cv[current]])
  /\ keepCreate
  /\ UNCHANGED <<holder, cond_waiters, cv>>

\* Bug variant: the last waiter is popped.
pop_waiter_Back(c) ==
  LET n == Len(cond_waiters[c])
  IN  /\ n > 0
      /\ obj' = [obj EXCEPT ![current] = cond_waiters[c][n]]
      /\ cond_waiters' = [cond_waiters EXCEPT ![c] = SubSeq(@, 1, n - 1)]
      /\ Goto("signal_up")

\* cond_signal() pops the first waiter and then ups its semaphore.  Inside
\* cond_broadcast() cv[current] is the condition, else it is NULL.
pop_waiter(c) ==
  /\ cond_waiters[c] # <<>>
  /\ obj' = [obj EXCEPT ![current] = Head(cond_waiters[c])]
  /\ cond_waiters' = [cond_waiters EXCEPT ![c] = Tail(@)]
  /\ Goto("signal_up")

\* A cond_signal() with no waiter changes nothing.
CondSignal(c) ==
  /\ At("run")
  /\ lock_held_by_current_thread(CondLock[c])
  /\ pop_waiter(c)
  /\ keepCreate
  /\ UNCHANGED <<switchVars, value, waiters, holder, cv>>

CondBroadcast(c) ==
  /\ At("run")
  /\ lock_held_by_current_thread(CondLock[c])
  /\ cv' = [cv EXCEPT ![current] = c]
  /\ Goto("broadcast")
  /\ keepCreate
  /\ UNCHANGED <<switchVars, value, waiters, holder, cond_waiters, obj>>

BroadcastLoop ==
  LET c == cv[current]
  IN  /\ At("broadcast")
      /\ \/ /\ pop_waiter(c)
            /\ UNCHANGED cv
         \/ /\ cond_waiters[c] = <<>>
            /\ Goto("run")
            /\ cv' = [cv EXCEPT ![current] = NULL]
            /\ UNCHANGED <<cond_waiters, obj>>
      /\ keepCreate
      /\ UNCHANGED <<switchVars, value, waiters, holder>>

SignalUp ==
  /\ At("signal_up")
  /\ sema_up(obj[current])
  /\ Goto(IF cv[current] # NULL THEN "broadcast" ELSE "run")
  /\ obj' = [obj EXCEPT ![current] = NULL]
  /\ keepCreate
  /\ UNCHANGED <<holder, cond_waiters, cv>>


-----------------------------------------------------------------------------
(* Threads: starting, idling, creating, yielding, exiting.                 *)

\* init_thread(): page n becomes a blocked thread, linked in all_list.
init_thread(n) == all_list' = all_list \cup {n}

\* thread_start() up to intr_enable(): nothing can interrupt the creation
\* of the idle thread, which takes the next thread identifier.
Boot ==
  \E n \in Thread :
    /\ At("boot")
    /\ status[n] = "FREE"
    /\ init_thread(n)
    /\ thread_unblock(n)
    /\ tid' = [tid EXCEPT ![n] = next_tid]
    /\ next_tid' = next_tid + 1
    /\ pc' = [pc EXCEPT ![current] = "start_down", ![n] = "idle_init"]
    /\ UNCHANGED <<current, thread_ticks, idle_thread, value, waiters, holder,
                   cond_waiters, obj, cv, child, reg>>

StartDown ==
  /\ At("start_down")
  /\ sema_down(current)
  /\ keepCreate
  /\ UNCHANGED <<holder, cond_waiters, cv>>

IdleInit ==
  /\ At("idle_init")
  /\ idle_thread' = current
  /\ Goto("idle_up")
  /\ UNCHANGED <<switchVars, all_list, value, waiters, holder, cond_waiters,
                 obj, cv, child, reg, tidVars>>

IdleUp ==
  /\ At("idle_up")
  /\ sema_up(initial_thread)
  /\ Goto("idle_loop")
  /\ keepCreate
  /\ UNCHANGED <<holder, cond_waiters, obj, cv>>

\* intr_disable() and thread_block(); when it is scheduled again the idle
\* thread executes "sti; hlt" as one instruction.
IdleBlock ==
  /\ At("idle_loop")
  /\ thread_block
  /\ Goto("hlt")
  /\ keepCreate
  /\ UNCHANGED <<value, waiters, holder, cond_waiters, obj, cv>>

\* thread_create() up to the call of allocate_tid().  When there is no page
\* left it returns TID_ERROR and changes nothing.
ThreadCreate(n) ==
  /\ At("run")
  /\ next_tid <= MaxTid
  /\ status[n] = "FREE"
  /\ status' = [status EXCEPT ![n] = "BLOCKED"]
  /\ init_thread(n)
  /\ tid' = [tid EXCEPT ![n] = 0]
  /\ child' = [child EXCEPT ![current] = n]
  /\ Goto("tid_acquire")
  /\ UNCHANGED <<ready_list, current, thread_ticks, idle_thread, value,
                 waiters, holder, cond_waiters, obj, cv, reg, next_tid>>

TidAcquire ==
  /\ At("tid_acquire")
  /\ sema_down(tid_lock)
  /\ keepCreate
  /\ UNCHANGED <<holder, cond_waiters, cv>>

TidRead ==
  /\ At("tid_read")
  /\ reg' = [reg EXCEPT ![current] = next_tid]
  /\ Goto("tid_write")
  /\ UNCHANGED <<switchVars, all_list, idle_thread, value, waiters, holder,
                 cond_waiters, obj, cv, child, tidVars>>

TidWrite ==
  /\ At("tid_write")
  /\ next_tid' = reg[current] + 1
  /\ Goto("tid_release")
  /\ UNCHANGED <<switchVars, all_list, idle_thread, value, waiters, holder,
                 cond_waiters, obj, cv, child, reg, tid>>

TidRelease ==
  /\ At("tid_release")
  /\ lock_release(tid_lock)
  /\ keepCreate

\* Bug variant: the identifier is taken from next_tid after tid_lock has
\* been released.
CreateUnblock_ReadLate ==
  LET n == child[current]
  IN  /\ At("create_end")
      /\ tid' = [tid EXCEPT ![n] = next_tid - 1]
      /\ thread_unblock(n)
      /\ Goto("run")
      /\ child' = [child EXCEPT ![current] = NULL]
      /\ reg' = [reg EXCEPT ![current] = 0]
      /\ UNCHANGED <<all_list, current, thread_ticks, idle_thread, value,
                     waiters, holder, cond_waiters, obj, cv, next_tid>>

\* The new thread gets its identifier and joins the run queue.
CreateUnblock ==
  LET n == child[current]
  IN  /\ At("create_end")
      /\ tid' = [tid EXCEPT ![n] = reg[current]]
      /\ thread_unblock(n)
      /\ Goto("run")
      /\ child' = [child EXCEPT ![current] = NULL]
      /\ reg' = [reg EXCEPT ![current] = 0]
      /\ UNCHANGED <<all_list, current, thread_ticks, idle_thread, value,
                     waiters, holder, cond_waiters, obj, cv, next_tid>>

\* No two pages for the fd_table: the struct thread is freed, and stays
\* linked in all_list.
CreateFail ==
  LET n == child[current]
  IN  /\ USERPROG
      /\ At("create_end")
      /\ status' = [status EXCEPT ![n] = "FREE"]
      /\ child' = [child EXCEPT ![current] = NULL]
      /\ reg' = [reg EXCEPT ![current] = 0]
      /\ Goto("run")
      /\ UNCHANGED <<ready_list, all_list, current, thread_ticks, idle_thread,
                     value, waiters, holder, cond_waiters, obj, cv, tidVars>>


ThreadYield ==
  /\ At("run")
  /\ thread_yield
  /\ keepCreate
  /\ UNCHANGED <<value, waiters, holder, cond_waiters, pc, obj, cv>>

\* A thread gives back its locks before it exits.
ThreadExit ==
  /\ At("run")
  /\ \A l \in Lock : ~lock_held_by_current_thread(l)
  /\ thread_exit
  /\ UNCHANGED <<idle_thread, value, waiters, holder, cond_waiters, localVars,
                 tidVars>>

-----------------------------------------------------------------------------
(* Interrupts.                                                             *)

\* Interrupts are off while main() boots and in a thread that has been
\* switched to inside sema_down().
intr_on == pc[current] \notin {"boot", "down"}

\* An interrupt ends the idle thread's hlt.
EndHlt == IF At("hlt") THEN Goto("idle_loop") ELSE UNCHANGED pc

TimerInterrupt ==
  /\ intr_on
  /\ thread_tick
  /\ EndHlt
  /\ keepCreate
  /\ UNCHANGED <<value, waiters, holder, cond_waiters, obj, cv>>

\* A device's interrupt handler ups a semaphore.
DeviceInterrupt(s) ==
  /\ intr_on
  /\ value[s] < MaxValue
  /\ sema_up(s)
  /\ EndHlt
  /\ keepCreate
  /\ UNCHANGED <<holder, cond_waiters, obj, cv>>

-----------------------------------------------------------------------------
\* What a thread does of its own accord.
Call ==
  \/ \E s \in Sema : SemaDown(s) \/ SemaTryDown(s) \/ SemaUp(s)
  \/ \E l \in ClientLock : LockAcquire(l) \/ LockTryAcquire(l) \/ LockRelease(l)
  \/ \E c \in Cond : CondWait(c) \/ CondSignal(c) \/ CondBroadcast(c)
  \/ \E n \in Thread : ThreadCreate(n)
  \/ ThreadYield
  \/ ThreadExit

\* What the kernel does to finish a call once it has been made.
Continue ==
  \/ Boot \/ StartDown \/ IdleInit \/ IdleUp \/ IdleBlock
  \/ Resume \/ SetHolder \/ ReleaseUp
  \/ CondRelease \/ CondDown \/ CondReacquire \/ BroadcastLoop \/ SignalUp
  \/ TidAcquire \/ TidRead \/ TidWrite \/ TidRelease
  \/ CreateUnblock \/ CreateFail

Interrupt == TimerInterrupt \/ \E s \in Sema : DeviceInterrupt(s)

Next == Call \/ Continue \/ Interrupt

Spec == Init /\ [][Next]_vars

\* The timer keeps ticking, and a thread that is given the CPU again and
\* again goes on with its call: a time slice is many instructions long.  No
\* client is obliged to make a call.
FairSpec ==
  /\ Spec
  /\ WF_vars(TimerInterrupt)
  /\ \A t \in Thread : SF_vars(current = t /\ Continue)

-----------------------------------------------------------------------------
(* Lists and statuses.                                                     *)

OneRunning == \A t \in Thread : status[t] = "RUNNING" <=> t = current

ReadyListed ==
  /\ IsInjective(ready_list)
  /\ \A t \in Range(ready_list) : status[t] = "READY"
  /\ \A t \in Thread :
       status[t] = "READY" /\ t # idle_thread => t \in Range(ready_list)

WaitersListed ==
  /\ \A s \in Sem :
       /\ IsInjective(waiters[s])
       /\ \A t \in Range(waiters[s]) :
            status[t] = "BLOCKED" /\ pc[t] = "down" /\ obj[t] = s
  /\ \A t \in Thread :
       status[t] = "BLOCKED" /\ pc[t] = "down"
         => t \in Range(waiters[obj[t]])

\* thread.h:82-87: the one list element of a thread serves the run queue
\* and the wait lists, which works only because a ready thread is on the run
\* queue alone and a blocked one on at most one semaphore's wait list.
\* Every thread is on the list its status says, once.
ListMembership == OneRunning /\ ReadyListed /\ WaitersListed

\* thread.c:415-418: once the idle thread has announced itself it never
\* appears in the ready list.
IdleNeverQueued == idle_thread \notin Range(ready_list)

-----------------------------------------------------------------------------
(* Semaphores and locks.                                                   *)

\* t has lock l: from the moment it has taken the lock's semaphore to the
\* moment it gives it back.
Owns(t, l) ==
  \/ holder[l] = t
  \/ pc[t] \in {"set_holder", "release_up"} /\ obj[t] = l

\* lock_acquire() and lock_release(): at most one thread has a lock, and the
\* lock's semaphore is at 0 exactly while one has it, through every
\* interrupt between the semaphore and the holder field.
MutualExclusion ==
  \A l \in Lock :
    /\ \A t, u \in Thread : Owns(t, l) /\ Owns(u, l) => t = u
    /\ value[l] = IF \E t \in Thread : Owns(t, l) THEN 0 ELSE 1

\* Threads that sema_up() has taken off the wait list of s and that have not
\* looked at the value again yet.
Woken(s) ==
  {t \in Thread : pc[t] = "down" /\ obj[t] = s /\ status[t] # "BLOCKED"}

\* sema_up() and sema_down(): while threads sleep on a semaphore, each unit
\* of its value has a woken thread on its way to take it, so no unit is left
\* with everybody asleep, whoever takes units in passing.
NoLostWakeup ==
  \A s \in Sem : waiters[s] # <<>> => Cardinality(Woken(s)) >= value[s]

-----------------------------------------------------------------------------
(* Condition variables.                                                    *)

\* t is inside cond_wait() with its waiter on its stack and no signal yet.
AwaitsSignal(t, c) ==
  /\ cv[t] = c
  /\ \/ pc[t] \in {"cond_release", "cond_down"}
     \/ pc[t] = "release_up" /\ obj[t] = CondLock[c]
     \/ pc[t] = "down" /\ obj[t] = t
  /\ value[t] = 0

\* cond_wait() queues a semaphore that lives on its caller's stack: whatever
\* is on the list of a condition, and whatever a signaller has popped and is
\* about to up, is the waiter of a thread still inside that cond_wait() and
\* not signalled before; and no waiter is on two lists or twice on one.
WaiterFrameLive ==
  /\ \A c \in Cond :
       /\ IsInjective(cond_waiters[c])
       /\ \A t \in Range(cond_waiters[c]) : AwaitsSignal(t, c)
  /\ \A u \in Thread : pc[u] = "signal_up" =>
       /\ \E c \in Cond : AwaitsSignal(obj[u], c)
       /\ \A c \in Cond : obj[u] \notin Range(cond_waiters[c])
       /\ \A v \in Thread : pc[v] = "signal_up" /\ obj[v] = obj[u] => v = u

\* cond_wait(): a thread asleep or about to sleep in cond_wait() is on its
\* condition's list, or a signaller is about to up its semaphore, or its
\* semaphore is up: no signal is lost between lock_release() and sema_down().
SignalNotLost ==
  \A t \in Thread :
    pc[t] = "cond_down" \/ (pc[t] = "down" /\ obj[t] = t /\ cv[t] # NULL)
      => \/ t \in Range(cond_waiters[cv[t]])
         \/ value[t] = 1
         \/ \E u \in Thread : pc[u] = "signal_up" /\ obj[u] = t

\* Refinement of module Monitor.  The lock changes hands where its semaphore
\* does; a thread starts to wait when lock_release() ups the semaphore,
\* although it was queued earlier and goes to sleep later.
Waits(t) == pc[t] \notin {"cond_release", "release_up"}

M == INSTANCE Monitor WITH
       owner <- [l \in Lock |-> IF \E t \in Thread : Owns(t, l)
                                  THEN CHOOSE t \in Thread : Owns(t, l)
                                  ELSE NULL],
       waiting <- [c \in Cond |-> SelectSeq(cond_waiters[c], Waits)],
       signalled <- {t \in Thread :
                       /\ cv[t] # NULL
                       /\ \/ pc[t] \in {"cond_down", "reacquire"}
                          \/ pc[t] = "down" /\ obj[t] \in {t, CondLock[cv[t]]}
                       /\ t \notin Range(cond_waiters[cv[t]])}

\* synch.c:267: cond_wait() "atomically releases LOCK and waits for COND";
\* the code implements the monitor in which that is one step.
ImplementsMonitor == M!Spec

-----------------------------------------------------------------------------
(* Creating threads.                                                       *)

\* allocate_tid(): no two live threads have the same identifier.
UniqueTids ==
  \A t, u \in {x \in Thread : status[x] # "FREE" /\ tid[x] # 0} :
    tid[t] = tid[u] => t = u

\* thread.c:27-29: a process is on all_list from its creation until it
\* exits; so what is linked in all_list is a struct thread.
AllListLive == \A t \in all_list : status[t] # "FREE"

-----------------------------------------------------------------------------
(* Progress.                                                               *)

\* Round robin: a thread on the run queue gets the CPU, whatever the running
\* ones do.
ReadyRuns ==
  \A t \in Thread :
    status[t] = "READY" /\ t # idle_thread ~> status[t] = "RUNNING"

\* cond_signal(): a signalled thread leaves its sleep in cond_wait().
SignalledWakes ==
  \A t \in Thread :
    (\E u \in Thread : pc[u] = "signal_up" /\ obj[u] = t)
      ~> pc[t] = "reacquire"

\* thread_start() returns: the idle thread announces itself and main() is
\* woken.
StartReturns == pc[initial_thread] = "boot" ~> pc[initial_thread] = "run"

-----------------------------------------------------------------------------
(* What the instances check.                                               *)

\* Every thread is on the list that its status says, and on no other; the
\* idle thread is on none; and all_list links live threads only, unless
\* thread_create() has had to give up a thread whose fd_table it could not
\* get.
ListsSound ==
  ListMembership /\ IdleNeverQueued /\ (~USERPROG => AllListLive)

\* cond_wait() and cond_signal(): a waiter that can still be reached is on
\* the stack of a thread that is still waiting, and a thread that waits has
\* a signal, or can still be signalled.
WaitersSound == WaiterFrameLive /\ SignalNotLost

\* Who is signalled in cond_wait(), and main() in thread_start(), wakes up.
SleepersWake == SignalledWakes /\ StartReturns
=============================================================================
