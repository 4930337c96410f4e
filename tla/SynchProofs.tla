---------------------------- MODULE SynchProofs ----------------------------
(***************************************************************************)
(* Proofs that the scheduler and the synchronization primitives keep their *)
(* lists, statuses and locks consistent, for every set of threads,         *)
(* semaphores, locks and condition variables and every time slice.         *)
(***************************************************************************)
EXTENDS Synch, TLAPS

IdleLabel == {"idle_up", "idle_loop", "hlt"}

\* t is in thread_create(), between init_thread() and its return.
InCreate(t) ==
  \/ pc[t] \in {"tid_acquire", "tid_read", "tid_write", "tid_release",
                "create_end"}
  \/ pc[t] \in {"down", "set_holder", "release_up"} /\ obj[t] = tid_lock

\* t is in cond_wait() or in cond_broadcast().
InCond(t) ==
  \/ pc[t] \in {"cond_release", "cond_down", "reacquire", "broadcast",
                "signal_up"}
  \/ pc[t] = "down" /\ obj[t] \in (Lock \ {tid_lock}) \cup {t}
  \/ pc[t] \in {"set_holder", "release_up"} /\ obj[t] # tid_lock

\* The local variables of a thread are set where its steps use them.
LocalOK(t) ==
  /\ pc[t] \in {"set_holder", "release_up"} => obj[t] \in Lock
  /\ pc[t] = "down" => /\ obj[t] \in Sem
                       /\ obj[t] \in Thread => obj[t] = t
  /\ pc[t] = "signal_up" => obj[t] \in Thread
  /\ pc[t] \in {"cond_release", "cond_down", "reacquire", "broadcast"}
       => cv[t] \in Cond
  /\ child[t] # NULL <=> InCreate(t)
  /\ cv[t] # NULL => InCond(t)
  /\ status[t] \in {"FREE", "DYING"} => pc[t] = "run"

LocalInv == \A t \in Thread : LocalOK(t)

\* A thread under construction is blocked on no list, and has one creator.
ChildInv ==
  \A t \in Thread : child[t] # NULL =>
    /\ status[child[t]] = "BLOCKED"
    /\ pc[child[t]] = "run"
    /\ \A u \in Thread : child[u] = child[t] => u = t

\* Until the idle thread has announced itself it is there to be run, so that
\* next_thread_to_run() never returns NULL.
SomebodyRuns ==
  idle_thread = NULL =>
    \/ pc[current] = "boot"
    \/ \E n \in Thread : /\ pc[n] = "idle_init"
                         /\ n = current \/ n \in Range(ready_list)

\* There is one idle thread, which is never on the run queue.
IdleInv ==
  /\ \A t \in Thread : pc[t] \in IdleLabel <=> t = idle_thread
  /\ \A t \in Thread : pc[t] = "idle_init" =>
       /\ idle_thread = NULL
       /\ \A u \in Thread : pc[u] = "idle_init" => u = t
  /\ \A t \in Thread : pc[t] = "boot" =>
       /\ t = current /\ t = initial_thread
       /\ idle_thread = NULL
       /\ \A u \in Thread \ {t} : pc[u] = "run"
  /\ IdleNeverQueued

Inv ==
  /\ TypeOK
  /\ LocalInv
  /\ ChildInv
  /\ SomebodyRuns
  /\ IdleInv
  /\ ListMembership

\* Where a thread must hold a lock to be, and where it no longer does.
Holds(t) ==
  /\ pc[t] \in {"tid_read", "tid_write", "tid_release"} => holder[tid_lock] = t
  /\ pc[t] = "cond_release" => holder[CondLock[cv[t]]] = t
  /\ pc[t] = "release_up" => holder[obj[t]] # t

LockInv == MutualExclusion /\ \A t \in Thread : Holds(t)

-----------------------------------------------------------------------------
(* Queues.                                                                 *)

\* Pushing at the back: the range grows by the element, and a queue without
\* it stays free of duplicates.
LEMMA AppendQueue ==
  ASSUME NEW S, NEW q \in Seq(S), NEW e \in S
  PROVE  /\ Append(q, e) \in Seq(S)
         /\ Append(q, e) # <<>>
         /\ Range(Append(q, e)) = Range(q) \cup {e}
         /\ IsInjective(q) /\ e \notin Range(q) => IsInjective(Append(q, e))
<1>1. /\ Append(q, e) \in Seq(S)
      /\ Append(q, e) # <<>>
      /\ DOMAIN Append(q, e) = 1 .. Len(q) + 1
      /\ \A i \in 1 .. Len(q) : Append(q, e)[i] = q[i]
      /\ Append(q, e)[Len(q) + 1] = e
      /\ DOMAIN q = 1 .. Len(q)
      /\ Len(q) \in Nat
  OBVIOUS
<1>2. Range(Append(q, e)) = Range(q) \cup {e}
  BY <1>1 DEF Range
<1>3. ASSUME IsInjective(q), e \notin Range(q)
      PROVE  IsInjective(Append(q, e))
  BY <1>1, <1>3 DEF Range, IsInjective
<1> QED BY <1>1, <1>2, <1>3, Zenon

\* Popping at the front.
LEMMA TailQueue ==
  ASSUME NEW S, NEW q \in Seq(S), q # <<>>
  PROVE  /\ Head(q) \in S
         /\ Tail(q) \in Seq(S)
         /\ Range(q) = Range(Tail(q)) \cup {Head(q)}
         /\ IsInjective(q) => /\ IsInjective(Tail(q))
                              /\ Head(q) \notin Range(Tail(q))
<1>1. /\ Len(q) \in Nat \ {0}
      /\ DOMAIN q = 1 .. Len(q)
      /\ Head(q) = q[1]
      /\ Tail(q) \in Seq(S)
      /\ DOMAIN Tail(q) = 1 .. (Len(q) - 1)
      /\ \A i \in 1 .. (Len(q) - 1) : Tail(q)[i] = q[i + 1]
      /\ Head(q) \in S
  OBVIOUS
<1>2. Range(q) \subseteq Range(Tail(q)) \cup {Head(q)}
  <2>1. SUFFICES ASSUME NEW i \in 1 .. Len(q), i # 1
                 PROVE  q[i] \in Range(Tail(q))
    BY <1>1 DEF Range
  <2>2. i - 1 \in 1 .. (Len(q) - 1) /\ Tail(q)[i - 1] = q[i]
    BY <1>1, <2>1
  <2> QED BY <1>1, <2>2, Zenon DEF Range
<1>3. Range(Tail(q)) \cup {Head(q)} \subseteq Range(q)
  <2>1. \A i \in 1 .. (Len(q) - 1) : i + 1 \in 1 .. Len(q)
    BY <1>1
  <2> QED BY <1>1, <2>1 DEF Range
<1>4. ASSUME IsInjective(q)
      PROVE  IsInjective(Tail(q)) /\ Head(q) \notin Range(Tail(q))
  BY <1>1, <1>4 DEF Range, IsInjective
<1> QED BY <1>1, <1>2, <1>3, <1>4, Zenon

\* The empty queue.
LEMMA EmptyQueue ==
  ASSUME NEW S
  PROVE  <<>> \in Seq(S) /\ Range(<<>>) = {} /\ IsInjective(<<>>)
BY DEF Range, IsInjective

\* What is on a queue of threads is a thread.
LEMMA QueueRange ==
  ASSUME NEW S, NEW q \in Seq(S)
  PROVE  Range(q) \subseteq S
BY DEF Range

-----------------------------------------------------------------------------
(* Parts of the invariant that most steps leave alone.                     *)

\* sema_down() and sema_try_down() on a semaphore with units left.
LEMMA CountDown ==
  ASSUME NEW S, NEW v \in [S -> Nat], NEW s \in S, v[s] > 0
  PROVE  [v EXCEPT ![s] = @ - 1] \in [S -> Nat]
<1>1. v[s] - 1 \in Nat
  OBVIOUS
<1> QED BY <1>1, Zenon

\* A step that queues and wakes nobody, and moves no thread into sema_down().
LEMMA FrameWaiters ==
  ASSUME WaitersListed, waiters' = waiters, obj' = obj,
         \A s \in Sem : \A t \in Range(waiters[s]) :
           status'[t] = "BLOCKED" /\ pc'[t] = "down",
         \A t \in Thread : status'[t] = "BLOCKED" /\ pc'[t] = "down" =>
           status[t] = "BLOCKED" /\ pc[t] = "down"
  PROVE  WaitersListed'
BY DEF WaitersListed

\* A step that leaves every thread under construction as it is.
LEMMA FrameChild ==
  ASSUME ChildInv, child' = child,
         \A t \in Thread : child[t] # NULL =>
           status'[child[t]] = "BLOCKED" /\ pc'[child[t]] = "run"
  PROVE  ChildInv'
BY Zenon DEF ChildInv

-----------------------------------------------------------------------------
(* The scheduler.                                                          *)

\* What schedule() does to the run queue, the CPU and the statuses, when
\* next_thread_to_run() has somebody to return.
LEMMA ScheduleEffect ==
  ASSUME TypeOK,
         NEW queue \in Seq(Thread), IsInjective(queue),
         NEW st \in [Thread -> Status],
         queue = <<>> => idle_thread \in Thread,
         schedule(queue, st)
  PROVE  /\ ready_list' \in Seq(Thread) /\ IsInjective(ready_list')
         /\ current' \in Thread
         /\ current' \in Range(queue) \/ (queue = <<>> /\ current' = idle_thread)
         /\ Range(ready_list') = Range(queue) \ {current'}
         /\ status' \in [Thread -> Status]
         /\ status'[current'] = "RUNNING"
         /\ \A t \in Thread \ {current, current'} : status'[t] = st[t]
         /\ current # current' =>
              status'[current] = IF st[current] = "DYING"
                                    /\ current # initial_thread
                                   THEN "FREE" ELSE st[current]
         /\ thread_ticks' = 0
<1> DEFINE next == next_thread_to_run(queue)
<1>1. /\ ready_list' = IF queue = <<>> THEN queue ELSE Tail(queue)
      /\ current' = next
      /\ status' = [reap(st) EXCEPT ![next] = "RUNNING"]
      /\ thread_ticks' = 0
  BY Zenon DEF schedule
<1>2. current \in Thread
  BY Zenon DEF TypeOK, ThreadsTypeOK
<1>3. reap(st) \in [Thread -> Status]
  BY <1>2, Zenon DEF reap, Status
<1>4. CASE queue = <<>>
  <2>1. next = idle_thread /\ next \in Thread
    BY <1>4, Zenon DEF next_thread_to_run
  <2>2. ready_list' = <<>> /\ Range(queue) = {} /\ Range(ready_list') = {}
        /\ IsInjective(ready_list')
    BY <1>1, <1>4, EmptyQueue, Zenon
  <2> HIDE DEF next
  <2> QED BY <1>1, <1>2, <1>3, <1>4, <2>1, <2>2, Zenon DEF reap, Status
<1>5. CASE queue # <<>>
  <2>1. next = Head(queue)
    BY <1>5, Zenon DEF next_thread_to_run
  <2>2. /\ next \in Thread
        /\ Tail(queue) \in Seq(Thread) /\ IsInjective(Tail(queue))
        /\ Range(queue) = Range(Tail(queue)) \cup {next}
        /\ next \notin Range(Tail(queue))
    BY <1>5, <2>1, TailQueue
  <2>3. ready_list' = Tail(queue)
    BY <1>1, <1>5, Zenon
  <2> HIDE DEF next
  <2> QED BY <1>1, <1>2, <1>3, <2>2, <2>3, Zenon DEF reap, Status
<1> QED BY <1>4, <1>5, Zenon

\* A thread that calls into the kernel or is interrupted always leaves
\* somebody to be run next.
LEMMA NextExists ==
  ASSUME Inv, pc[current] \notin {"boot", "idle_init"}
  PROVE  ready_list = <<>> => idle_thread \in Thread
<1>1. SUFFICES ASSUME ready_list = <<>>, idle_thread = NULL PROVE FALSE
  BY Zenon DEF Inv, TypeOK, ThreadsTypeOK
<1>2. Range(ready_list) = {}
  BY <1>1, EmptyQueue, Zenon
<1> QED BY <1>1, <1>2, Zenon DEF Inv, SomebodyRuns

-----------------------------------------------------------------------------
(* Semaphores.                                                             *)

\* A thread that sleeps in sema_down() keeps the invariant.
LEMMA SleepInv ==
  ASSUME Inv,
         NEW s \in Sem, s \in Thread => s = current,
         pc[current] \notin IdleLabel \cup {"boot", "idle_init"},
         child[current] # NULL <=> s = tid_lock,
         cv[current] # NULL => s \in (Lock \ {tid_lock}) \cup {current},
         waiters' = [waiters EXCEPT ![s] = Append(@, current)],
         thread_block,
         Goto("down"),
         obj' = [obj EXCEPT ![current] = s],
         UNCHANGED value, keepCreate, UNCHANGED <<holder, cond_waiters, cv>>
  PROVE  Inv'
<1> DEFINE st == [status EXCEPT ![current] = "BLOCKED"]
<1>a. TypeOK /\ current \in Thread /\ NULL \notin Thread
  BY ThreadAssumption, Zenon DEF Inv, TypeOK, ThreadsTypeOK
<1>b. /\ ready_list \in Seq(Thread) /\ IsInjective(ready_list)
      /\ status \in [Thread -> Status]
      /\ st \in [Thread -> Status]
  BY Zenon DEF Inv, TypeOK, ThreadsTypeOK, ListMembership, ReadyListed, Status
<1>c. status[current] = "RUNNING" /\ current \notin Range(ready_list)
      /\ current # idle_thread
  BY <1>a, Zenon DEF Inv, ListMembership, OneRunning, ReadyListed, IdleInv
<1>d. Range(ready_list) \subseteq Thread
  BY <1>b, QueueRange, Zenon
<1>1. /\ ready_list' \in Seq(Thread) /\ IsInjective(ready_list')
      /\ current' \in Thread
      /\ \/ current' \in Range(ready_list)
         \/ ready_list = <<>> /\ current' = idle_thread
      /\ Range(ready_list') = Range(ready_list) \ {current'}
      /\ status' \in [Thread -> Status]
      /\ status'[current'] = "RUNNING"
      /\ \A t \in Thread \ {current, current'} : status'[t] = status[t]
      /\ current # current' /\ status'[current] = "BLOCKED"
      /\ thread_ticks' = 0
  <2>1. schedule(ready_list, st)
    BY Zenon DEF thread_block
  <2>2. ready_list = <<>> => idle_thread \in Thread
    BY NextExists, Zenon
  <2> HIDE DEF st
  <2>3. /\ st[current] = "BLOCKED"
        /\ \A t \in Thread \ {current} : st[t] = status[t]
    BY <1>a, <1>b, Zenon DEF st
  <2> QED BY <1>a, <1>b, <1>c, <2>1, <2>2, <2>3, ScheduleEffect
<1>e. /\ waiters \in [Sem -> Seq(Thread)] /\ pc \in [Thread -> Label]
      /\ obj \in [Thread -> Sem \cup {NULL}]
      /\ pc' = [pc EXCEPT ![current] = "down"]
  BY Zenon DEF Inv, TypeOK, Goto
<1>f. /\ waiters'[s] \in Seq(Thread)
      /\ Range(waiters'[s]) = Range(waiters[s]) \cup {current}
      /\ current \notin Range(waiters[s])
      /\ IsInjective(waiters'[s])
      /\ \A r \in Sem \ {s} : waiters'[r] = waiters[r]
  <2>1. current \notin Range(waiters[s]) /\ IsInjective(waiters[s])
    BY <1>a, <1>c, Zenon DEF Inv, ListMembership, WaitersListed
  <2>2. waiters'[s] = Append(waiters[s], current)
        /\ \A r \in Sem \ {s} : waiters'[r] = waiters[r]
    BY <1>e, Zenon
  <2> QED BY <1>a, <1>e, <2>1, <2>2, AppendQueue
<1>g. status[current'] = "READY" \/ pc[current'] \in IdleLabel
  BY <1>1, Zenon DEF Inv, ListMembership, ReadyListed, IdleInv
<1>h. \A t \in Thread : child[t] # NULL =>
        child[t] \in Thread /\ child[t] # current /\ child[t] # current'
  <2>1. \A t \in Thread : child[t] # NULL =>
          /\ child[t] \in Thread
          /\ status[child[t]] = "BLOCKED" /\ pc[child[t]] = "run"
    BY Zenon DEF Inv, TypeOK, ChildInv
  <2> QED BY <2>1, <1>c, <1>g, Zenon DEF IdleLabel
<1>2. TypeOK'
  <2>1. 0 \in 0 .. (TIME_SLICE - 1)
    BY ThreadAssumption
  <2> QED BY <1>1, <1>a, <1>e, <1>f, <2>1, Zenon
       DEF TypeOK, ThreadsTypeOK, keepCreate, Label
<1>3. LocalInv'
  BY <1>1, <1>a, <1>e, <1>c
     DEF Inv, LocalInv, LocalOK, InCreate, InCond, keepCreate, IdleLabel
<1>4. ChildInv'
  BY <1>1, <1>a, <1>e, <1>h DEF Inv, ChildInv, keepCreate
<1>5. SomebodyRuns'
  BY <1>1, <1>a, <1>e, <1>c, Zenon DEF Inv, SomebodyRuns, keepCreate
<1>6. IdleInv'
  BY <1>1, <1>a, <1>e, <1>c DEF Inv, IdleInv, IdleNeverQueued, IdleLabel, keepCreate
<1>7. OneRunning'
  BY <1>1, <1>c, Zenon DEF Inv, ListMembership, OneRunning
<1>8. ReadyListed'
  BY <1>1, <1>a, <1>c, <1>d, Zenon DEF Inv, ListMembership, ReadyListed, keepCreate
<1>9. WaitersListed'
  <2>1. ASSUME NEW r \in Sem, NEW t \in Range(waiters'[r])
        PROVE  status'[t] = "BLOCKED" /\ pc'[t] = "down" /\ obj'[t] = r
    <3>1. CASE t = current
      BY <3>1, <2>1, <1>1, <1>a, <1>c, <1>e, <1>f
         DEF Inv, ListMembership, WaitersListed
    <3>2. CASE t # current
      <4>1. t \in Range(waiters[r])
        BY <3>2, <2>1, <1>f, Zenon
      <4>2. /\ t \in Thread /\ status[t] = "BLOCKED" 
            /\ pc[t] = "down" /\ obj[t] = r
        BY <4>1, <1>e, QueueRange DEF Inv, ListMembership, WaitersListed
      <4> QED BY <4>2, <3>2, <1>1, <1>e, <1>g, Zenon DEF IdleLabel
    <3> QED BY <3>1, <3>2, Zenon
  <2>2. ASSUME NEW r \in Sem PROVE IsInjective(waiters'[r])
    BY <1>f DEF Inv, ListMembership, WaitersListed
  <2>3. ASSUME NEW t \in Thread, status'[t] = "BLOCKED", pc'[t] = "down"
        PROVE  t \in Range(waiters'[obj'[t]])
    <3>1. CASE t = current
      BY <3>1, <1>a, <1>e, <1>f, Zenon
    <3>2. CASE t # current
      <4>1. status[t] = "BLOCKED" /\ pc[t] = "down" /\ obj'[t] = obj[t]
        BY <3>2, <2>3, <1>1, <1>a, <1>e, Zenon
      <4>2. obj[t] \in Sem /\ t \in Range(waiters[obj[t]])
        BY <4>1, Zenon DEF Inv, LocalInv, LocalOK, ListMembership, WaitersListed
      <4> QED BY <4>1, <4>2, <1>f, Zenon
    <3> QED BY <3>1, <3>2, Zenon
  <2> QED BY <2>1, <2>2, <2>3, Zenon DEF WaitersListed
<1> QED BY <1>2, <1>3, <1>4, <1>5, <1>6, <1>7, <1>8, <1>9, Zenon DEF Inv, ListMembership

-----------------------------------------------------------------------------
(* Steps that leave the lists alone.                                       *)

\* A step of the running thread that changes neither a status nor a list of
\* threads preserves the invariant if it leaves the thread's own variables
\* in order.
LEMMA LocalStepInv ==
  ASSUME Inv, TypeOK', LocalOK(current)',
         NEW label, NEW o, NEW c,
         pc[current] \notin IdleLabel \cup {"boot", "idle_init"},
         label \notin IdleLabel \cup {"boot", "idle_init", "down"},
         pc' = [pc EXCEPT ![current] = label],
         obj' = [obj EXCEPT ![current] = o],
         cv' = [cv EXCEPT ![current] = c],
         UNCHANGED <<switchVars, waiters, idle_thread, child>>
  PROVE  Inv'
<1>a. /\ current \in Thread /\ current' = current
      /\ pc \in [Thread -> Label] /\ obj \in [Thread -> Sem \cup {NULL}]
      /\ cv \in [Thread -> Cond \cup {NULL}]
      /\ child \in [Thread -> Thread \cup {NULL}]
      /\ waiters \in [Sem -> Seq(Thread)]
      /\ status' = status /\ ready_list' = ready_list /\ waiters' = waiters
      /\ idle_thread' = idle_thread /\ child' = child
  BY Zenon DEF Inv, TypeOK, ThreadsTypeOK, switchVars
<1>b. /\ \A t \in Thread \ {current} :
           pc'[t] = pc[t] /\ obj'[t] = obj[t] /\ cv'[t] = cv[t]
      /\ pc'[current] = label
  BY <1>a, Zenon
<1>c. status[current] = "RUNNING"
  BY <1>a, Zenon DEF Inv, ListMembership, OneRunning
<1>1. LocalInv'
  <2>1. ASSUME NEW t \in Thread \ {current} PROVE LocalOK(t)'
    <3>1. LocalOK(t)
      BY Zenon DEF Inv, LocalInv
    <3>2. /\ pc'[t] = pc[t] /\ obj'[t] = obj[t] /\ cv'[t] = cv[t]
          /\ child'[t] = child[t] /\ status'[t] = status[t]
      BY <1>a, <1>b, Zenon
    <3> QED BY <3>1, <3>2 DEF LocalOK, InCreate, InCond
  <2>2. ASSUME NEW t \in Thread, t = current PROVE LocalOK(t)'
    BY <2>2, <1>a, Zenon
  <2> QED BY <2>1, <2>2, Zenon DEF LocalInv
<1>2. ChildInv'
  <2>1. \A t \in Thread : child[t] # NULL => child[t] \in Thread \ {current}
    BY <1>a, <1>c, Zenon DEF Inv, ChildInv
  <2> QED BY <1>a, <1>b, <2>1 DEF Inv, ChildInv
<1>3. SomebodyRuns'
  BY <1>a, <1>b, Zenon DEF Inv, SomebodyRuns
<1>4. IdleInv'
  BY <1>a, <1>b DEF Inv, IdleInv, IdleNeverQueued, IdleLabel
<1>5. ListMembership'
  <2>1. OneRunning' /\ ReadyListed'
    BY <1>a, Zenon DEF Inv, ListMembership, OneRunning, ReadyListed
  <2>2. \A s \in Sem : \A t \in Range(waiters[s]) : t \in Thread \ {current}
    BY <1>a, <1>c, QueueRange DEF Inv, ListMembership, WaitersListed
  <2>3. WaitersListed'
    BY <1>a, <1>b, <2>2 DEF Inv, ListMembership, WaitersListed
  <2> QED BY <2>1, <2>3, Zenon DEF ListMembership
<1> QED BY <1>1, <1>2, <1>3, <1>4, <1>5, Zenon DEF Inv

\* The other outcome of sema_down(): the thread takes a unit.
LEMMA TakeInv ==
  ASSUME Inv,
         NEW s \in Sem, s \in Thread => s = current,
         pc[current] \notin IdleLabel \cup {"boot", "idle_init"},
         child[current] # NULL <=> s = tid_lock,
         cv[current] # NULL => s \in (Lock \ {tid_lock}) \cup {current},
         value[s] > 0,
         value' = [value EXCEPT ![s] = @ - 1],
         Goto(AfterDown(s)),
         obj' = [obj EXCEPT ![current] = IF s \in Lock THEN s ELSE NULL],
         UNCHANGED <<waiters, status, ready_list, current, thread_ticks>>,
         keepCreate, UNCHANGED <<holder, cond_waiters, cv>>
  PROVE  Inv'
<1> DEFINE label == AfterDown(s)
           o == IF s \in Lock THEN s ELSE NULL
<1>a. /\ TypeOK /\ current \in Thread /\ current' = current
      /\ status[current] = "RUNNING"
      /\ cv \in [Thread -> Cond \cup {NULL}]
      /\ pc \in [Thread -> Label] /\ obj \in [Thread -> Sem \cup {NULL}]
  BY Zenon DEF Inv, TypeOK, ThreadsTypeOK, ListMembership, OneRunning
<1>b. /\ label \in {"set_holder", "reacquire", "run"}
      /\ label = "set_holder" <=> s \in Lock
      /\ label = "reacquire" => cv[current] # NULL
      /\ cv[current] # NULL => label # "run"
  BY <1>a, SynchAssumption, Zenon DEF AfterDown
<1>c. o \in Sem \cup {NULL}
  BY Zenon DEF Sem
<1>d. pc' = [pc EXCEPT ![current] = label] /\ obj' = [obj EXCEPT ![current] = o]
  BY Zenon DEF Goto
<1>e. s \in Lock => o = s
  BY Zenon
<1>f. s = tid_lock => s \in Lock
  BY SynchAssumption, Zenon
<1> HIDE DEF label, o
<1>1. TypeOK'
  <2>1. value' \in [Sem -> Nat]
    BY <1>a, CountDown, Zenon DEF TypeOK
  <2>2. pc' \in [Thread -> Label] /\ obj' \in [Thread -> Sem \cup {NULL}]
    BY <1>a, <1>b, <1>c, <1>d DEF Label
  <2> QED BY <1>a, <2>1, <2>2, Zenon DEF TypeOK, ThreadsTypeOK, keepCreate
<1>2. LocalOK(current)'
  <2>1. /\ pc'[current] = label /\ obj'[current] = o
        /\ cv'[current] = cv[current] /\ child'[current] = child[current]
        /\ status'[current] = "RUNNING" /\ cv[current] \in Cond \cup {NULL}
    BY <1>a, <1>d, Zenon DEF keepCreate
  <2>2. CASE label = "set_holder"
    <3>1. s \in Lock /\ o = s /\ (cv[current] # NULL => s # tid_lock)
      BY <2>2, <1>a, <1>b, <1>e, SynchAssumption, Zenon
    <3> QED BY <2>1, <2>2, <3>1, <1>a, Zenon DEF LocalOK, InCreate, InCond
  <2>3. CASE label \in {"reacquire", "run"}
    BY <2>1, <2>3, <1>a, <1>b, <1>f, Zenon DEF LocalOK, InCreate, InCond
  <2> QED BY <2>2, <2>3, <1>b, Zenon
<1>3. cv' = [cv EXCEPT ![current] = cv[current]]
  BY <1>a, Zenon
<1> QED
  BY <1>1, <1>2, <1>3, <1>b, <1>d, LocalStepInv, Zenon
     DEF switchVars, keepCreate, IdleLabel

\* sema_down(), called or resumed.
LEMMA SemaDownInv ==
  ASSUME Inv,
         NEW s \in Sem, s \in Thread => s = current,
         pc[current] \notin IdleLabel \cup {"boot", "idle_init"},
         child[current] # NULL <=> s = tid_lock,
         cv[current] # NULL => s \in (Lock \ {tid_lock}) \cup {current},
         sema_down(s), keepCreate, UNCHANGED <<holder, cond_waiters, cv>>
  PROVE  Inv'
BY SleepInv, TakeInv, Zenon DEF sema_down

\* thread_unblock() of a blocked thread that sleeps on no semaphore once the
\* step is done: what it does to the run queue and the statuses.
LEMMA UnblockEffect ==
  ASSUME Inv, NEW n \in Thread, status[n] = "BLOCKED", n # idle_thread,
         thread_unblock(n), UNCHANGED <<current, idle_thread>>
  PROVE  /\ ready_list' \in Seq(Thread)
         /\ Range(ready_list') = Range(ready_list) \cup {n}
         /\ status' \in [Thread -> Status]
         /\ status'[n] = "READY"
         /\ \A t \in Thread \ {n} : status'[t] = status[t]
         /\ n # current
         /\ OneRunning' /\ ReadyListed' /\ IdleNeverQueued'
<1>a. /\ ready_list \in Seq(Thread) /\ status \in [Thread -> Status]
      /\ current \in Thread
      /\ IsInjective(ready_list) /\ n \notin Range(ready_list)
  BY Zenon DEF Inv, TypeOK, ThreadsTypeOK, ListMembership, ReadyListed
<1>b. /\ ready_list' = Append(ready_list, n)
      /\ status' = [status EXCEPT ![n] = "READY"]
  BY Zenon DEF thread_unblock
<1>c. /\ ready_list' \in Seq(Thread)
      /\ Range(ready_list') = Range(ready_list) \cup {n}
      /\ IsInjective(ready_list')
  BY <1>a, <1>b, AppendQueue
<1>d. /\ status' \in [Thread -> Status]
      /\ status'[n] = "READY"
      /\ \A t \in Thread \ {n} : status'[t] = status[t]
      /\ n # current
      /\ Range(ready_list) \subseteq Thread
  BY <1>a, <1>b, QueueRange, Zenon DEF Status, Inv, ListMembership, OneRunning
<1>1. OneRunning'
  BY <1>d, Zenon DEF Inv, ListMembership, OneRunning
<1>2. ReadyListed'
  BY <1>c, <1>d, Zenon DEF Inv, ListMembership, ReadyListed
<1>3. IdleNeverQueued'
  BY <1>c, Zenon DEF Inv, IdleInv, IdleNeverQueued
<1> QED BY <1>1, <1>2, <1>3, <1>c, <1>d, Zenon

\* sema_up(), called by a thread or by an interrupt handler, and the
\* caller's next label.
LEMMA SemaUpInv ==
  ASSUME Inv,
         NEW s \in Sem, sema_up(s),
         NEW label \in Label, NEW o \in Sem \cup {NULL},
         pc[current] # "boot",
         \/ label = pc[current]
         \/ /\ label \notin {"boot", "idle_init", "down"}
            /\ pc[current] # "idle_init"
            /\ label \in IdleLabel <=> pc[current] \in IdleLabel,
         pc' = [pc EXCEPT ![current] = label],
         obj' = [obj EXCEPT ![current] = o],
         LocalOK(current)',
         keepCreate, UNCHANGED <<holder, cond_waiters, cv>>
  PROVE  Inv'
<1>a. /\ TypeOK /\ current \in Thread /\ current' = current
      /\ status[current] = "RUNNING"
      /\ pc \in [Thread -> Label] /\ obj \in [Thread -> Sem \cup {NULL}]
      /\ waiters \in [Sem -> Seq(Thread)]
      /\ child \in [Thread -> Thread \cup {NULL}]
  BY Zenon DEF Inv, TypeOK, ThreadsTypeOK, ListMembership, OneRunning, sema_up
<1>b. /\ \A t \in Thread \ {current} : pc'[t] = pc[t] /\ obj'[t] = obj[t]
      /\ pc'[current] = label
  BY <1>a, Zenon
<1>v. value' \in [Sem -> Nat]
  BY <1>a DEF TypeOK, sema_up
<1>1. /\ ready_list' \in Seq(Thread)
      /\ Range(ready_list) \subseteq Range(ready_list')
      /\ status' \in [Thread -> Status]
      /\ \A t \in Thread : \/ status'[t] = status[t]
                           \/ /\ status[t] = "BLOCKED" /\ pc[t] = "down"
                              /\ status'[t] = "READY"
      /\ waiters' \in [Sem -> Seq(Thread)]
      /\ OneRunning' /\ ReadyListed' /\ IdleNeverQueued' /\ WaitersListed'
  <2>0. idle_thread' = idle_thread
    BY Zenon DEF keepCreate
  <2>w. \A r \in Sem : \A t \in Range(waiters[r]) :
          /\ t \in Thread \ {current}
          /\ status[t] = "BLOCKED" /\ pc[t] = "down" /\ obj[t] = r
    BY <1>a, QueueRange DEF Inv, ListMembership, WaitersListed
  <2>1. CASE waiters[s] = <<>>
    <3>1. UNCHANGED <<waiters, status, ready_list>>
      BY <2>1, Zenon DEF sema_up
    <3>2. /\ ready_list' \in Seq(Thread) /\ status' \in [Thread -> Status]
          /\ OneRunning' /\ ReadyListed' /\ IdleNeverQueued'
      BY <3>1, <2>0, <1>a, Zenon
         DEF Inv, TypeOK, ThreadsTypeOK, ListMembership, OneRunning,
             ReadyListed, IdleInv, IdleNeverQueued
    <3>3. WaitersListed'
      BY <3>1, <2>w, <1>a, <1>b DEF Inv, ListMembership, WaitersListed
    <3> QED BY <3>1, <3>2, <3>3, <1>a, Zenon
  <2>2. CASE waiters[s] # <<>>
    <3> DEFINE n == Head(waiters[s])
    <3>1. /\ thread_unblock(n)
          /\ waiters' = [waiters EXCEPT ![s] = Tail(@)]
      BY <2>2, Zenon DEF sema_up
    <3>2. /\ n \in Thread
          /\ Tail(waiters[s]) \in Seq(Thread)
          /\ Range(waiters[s]) = Range(Tail(waiters[s])) \cup {n}
          /\ IsInjective(waiters[s])
          /\ IsInjective(Tail(waiters[s]))
          /\ n \notin Range(Tail(waiters[s]))
      BY <2>2, <1>a, TailQueue DEF Inv, ListMembership, WaitersListed
    <3> HIDE DEF n
    <3>3. /\ status[n] = "BLOCKED" /\ pc[n] = "down" /\ obj[n] = s
          /\ n # current /\ n # idle_thread
      BY <3>2, <2>w DEF Inv, IdleInv, IdleLabel
    <3>4. /\ ready_list' \in Seq(Thread)
          /\ Range(ready_list') = Range(ready_list) \cup {n}
          /\ status' \in [Thread -> Status]
          /\ status'[n] = "READY"
          /\ \A t \in Thread \ {n} : status'[t] = status[t]
          /\ OneRunning' /\ ReadyListed' /\ IdleNeverQueued'
      BY <3>1, <3>2, <3>3, <2>0, <1>a, UnblockEffect, Zenon
    <3>5. /\ waiters'[s] = Tail(waiters[s])
          /\ \A r \in Sem \ {s} : waiters'[r] = waiters[r]
          /\ waiters' \in [Sem -> Seq(Thread)]
      BY <3>1, <3>2, <1>a, Zenon
    <3>6. WaitersListed'
      <4>1. ASSUME NEW r \in Sem, NEW t \in Range(waiters'[r])
            PROVE  status'[t] = "BLOCKED" /\ pc'[t] = "down" /\ obj'[t] = r
        <5>1. t \in Range(waiters[r]) /\ t # n
          <6>1. CASE r = s
            BY <6>1, <4>1, <3>2, <3>5, Zenon
          <6>2. CASE r # s
            BY <6>2, <4>1, <3>3, <3>5, <2>w
          <6> QED BY <6>1, <6>2, Zenon
        <5> QED BY <5>1, <2>w, <3>4, <1>b
      <4>2. ASSUME NEW r \in Sem PROVE IsInjective(waiters'[r])
        BY <3>2, <3>5, ZenonT(60) DEF Inv, ListMembership, WaitersListed
      <4>3. ASSUME NEW t \in Thread, status'[t] = "BLOCKED", pc'[t] = "down"
            PROVE  t \in Range(waiters'[obj'[t]])
        <5>1. t # n /\ t # current /\ status[t] = "BLOCKED"
          BY <4>3, <3>4, <3>3, <1>a, Zenon
        <5>2. pc[t] = "down" /\ obj'[t] = obj[t]
          BY <5>1, <4>3, <1>b, Zenon
        <5>3. obj[t] \in Sem /\ t \in Range(waiters[obj[t]])
          BY <5>1, <5>2, Zenon DEF Inv, LocalInv, LocalOK, ListMembership, WaitersListed
        <5> QED BY <5>1, <5>2, <5>3, <3>2, <3>5, Zenon
      <4> QED BY <4>1, <4>2, <4>3, Zenon DEF WaitersListed
    <3> QED BY <3>3, <3>4, <3>5, <3>6, Zenon
  <2> QED BY <2>1, <2>2, Zenon
<1>2. TypeOK'
  BY <1>a, <1>1, <1>v, Zenon DEF TypeOK, ThreadsTypeOK, keepCreate, sema_up
<1>3. LocalInv'
  <2>1. ASSUME NEW t \in Thread \ {current} PROVE LocalOK(t)'
    <3>1. /\ pc'[t] = pc[t] /\ obj'[t] = obj[t] /\ cv' = cv /\ child' = child
          /\ status'[t] \in {"FREE", "DYING"} => status'[t] = status[t]
      BY <1>b, <1>1, Zenon DEF keepCreate
    <3> QED BY <3>1, ZenonT(60) DEF Inv, LocalInv, LocalOK, InCreate, InCond
  <2> QED BY <2>1, <1>a, Zenon DEF LocalInv
<1>4. ChildInv'
  <2>1. \A t \in Thread : child[t] # NULL =>
          /\ child[t] \in Thread \ {current}
          /\ status[child[t]] = "BLOCKED" /\ pc[child[t]] = "run"
    BY <1>a, Zenon DEF Inv, ChildInv
  <2>2. \A t \in Thread : child[t] # NULL =>
          status'[child[t]] = "BLOCKED" /\ pc'[child[t]] = "run"
    <3>1. \A t \in Thread : status[t] = "BLOCKED" /\ pc[t] = "run" =>
            status'[t] = "BLOCKED"
      BY <1>1, Zenon
    <3> QED BY <3>1, <2>1, <1>b, Zenon
  <2> QED BY <2>2, FrameChild, Zenon DEF Inv, keepCreate
<1>5. SomebodyRuns'
  BY <1>a, <1>b, <1>1, SMTT(30) DEF Inv, SomebodyRuns, keepCreate
<1>6. IdleInv'
  BY <1>a, <1>b, <1>1 DEF Inv, IdleInv, IdleLabel, keepCreate
<1> QED BY <1>1, <1>2, <1>3, <1>4, <1>5, <1>6, Zenon DEF Inv, ListMembership

-----------------------------------------------------------------------------
(* Yielding and exiting.                                                   *)

\* thread_yield(), called by a thread or on return from the timer interrupt,
\* which may also end the idle thread's hlt.
LEMMA YieldInv ==
  ASSUME Inv, thread_yield, pc[current] # "boot",
         NEW label,
         label = pc[current] \/ (pc[current] = "hlt" /\ label = "idle_loop"),
         pc' = [pc EXCEPT ![current] = label],
         keepCreate, UNCHANGED <<value, waiters, holder, cond_waiters, obj, cv>>
  PROVE  Inv'
<1> DEFINE st == [status EXCEPT ![current] = "READY"]
           q == IF current # idle_thread THEN Append(ready_list, current)
                                         ELSE ready_list
<1>a. /\ TypeOK /\ current \in Thread /\ status[current] = "RUNNING"
      /\ ready_list \in Seq(Thread) /\ IsInjective(ready_list)
      /\ current \notin Range(ready_list)
      /\ status \in [Thread -> Status] /\ pc \in [Thread -> Label]
      /\ waiters \in [Sem -> Seq(Thread)]
      /\ child \in [Thread -> Thread \cup {NULL}]
  BY Zenon DEF Inv, TypeOK, ThreadsTypeOK, ListMembership, OneRunning, ReadyListed
<1>b. /\ q \in Seq(Thread) /\ IsInjective(q)
      /\ Range(q) = IF current # idle_thread THEN Range(ready_list) \cup {current}
                                             ELSE Range(ready_list)
      /\ q = <<>> => current = idle_thread
  <2>1. CASE current # idle_thread
    BY <2>1, <1>a, AppendQueue
  <2>2. CASE current = idle_thread
    BY <2>2, <1>a, Zenon
  <2> QED BY <2>1, <2>2, Zenon
<1>c. /\ st \in [Thread -> Status] /\ st[current] = "READY"
      /\ \A t \in Thread \ {current} : st[t] = status[t]
  BY <1>a, Zenon DEF Status
<1>d. schedule(q, st)
  BY Zenon DEF thread_yield
<1> HIDE DEF st, q
<1>1. /\ ready_list' \in Seq(Thread) /\ IsInjective(ready_list')
      /\ current' \in Thread
      /\ current' \in Range(q) \/ current' = idle_thread
      /\ Range(ready_list') = Range(q) \ {current'}
      /\ status' \in [Thread -> Status]
      /\ status'[current'] = "RUNNING"
      /\ \A t \in Thread \ {current, current'} : status'[t] = status[t]
      /\ current # current' => status'[current] = "READY"
      /\ thread_ticks' = 0
  BY <1>a, <1>b, <1>c, <1>d, ScheduleEffect
<1>e. /\ Range(ready_list) \subseteq Thread
      /\ \A t \in Range(ready_list) : status[t] = "READY"
  BY <1>a, QueueRange, Zenon DEF Inv, ListMembership, ReadyListed
<1>f. \/ current' = current
      \/ status[current'] = "READY"
      \/ pc[current'] \in IdleLabel
  BY <1>1, <1>b, <1>e, Zenon DEF Inv, IdleInv
<1>g. /\ \A t \in Thread \ {current} : pc'[t] = pc[t]
      /\ pc'[current] = label
      /\ label = pc[current] \/ (pc[current] = "hlt" /\ label = "idle_loop")
      /\ idle_thread' = idle_thread /\ obj' = obj /\ waiters' = waiters
      /\ child' = child /\ cv' = cv
  BY <1>a, Zenon DEF keepCreate
<1>2. TypeOK'
  <2>1. 0 \in 0 .. (TIME_SLICE - 1)
    BY ThreadAssumption
  <2>2. pc' \in [Thread -> Label]
    BY <1>a, Zenon DEF Label
  <2> QED BY <1>1, <1>a, <2>1, <2>2, Zenon DEF TypeOK, ThreadsTypeOK, keepCreate
<1>3. LocalInv'
  <2>1. ASSUME NEW t \in Thread PROVE LocalOK(t)'
    <3>1. LocalOK(t)
      BY Zenon DEF Inv, LocalInv
    <3>2. status'[t] \in {"FREE", "DYING"} =>
            status[t] \in {"FREE", "DYING"} /\ t # current
      BY <1>1, <1>a, Zenon
    <3>3. CASE t = current
      BY <3>1, <3>2, <3>3, <1>g DEF LocalOK, InCreate, InCond
    <3>4. CASE t # current
      BY <3>1, <3>2, <3>4, <1>g DEF LocalOK, InCreate, InCond
    <3> QED BY <3>3, <3>4, Zenon
  <2> QED BY <2>1, Zenon DEF LocalInv
<1>4. ChildInv'
  <2>1. \A t \in Thread : child[t] # NULL =>
          /\ child[t] \in Thread \ {current, current'}
          /\ status[child[t]] = "BLOCKED" /\ pc[child[t]] = "run"
    BY <1>a, <1>f, Zenon DEF Inv, ChildInv, IdleLabel
  <2>2. \A t \in Thread : child[t] # NULL =>
          status'[child[t]] = "BLOCKED" /\ pc'[child[t]] = "run"
    BY <2>1, <1>1, <1>g
  <2> QED BY <2>2, <1>g, FrameChild, Zenon DEF Inv
<1>5. SomebodyRuns'
  BY <1>1, <1>a, <1>b, <1>g, ThreadAssumption DEF Inv, SomebodyRuns
<1>6. IdleInv'
  <2>1. IdleNeverQueued'
    <3>1. idle_thread \notin Range(ready_list)
      BY Zenon DEF Inv, IdleInv, IdleNeverQueued
    <3>2. idle_thread \notin Range(q)
      BY <3>1, <1>b, Zenon
    <3> QED BY <3>2, <1>1, <1>g, Zenon DEF IdleNeverQueued
  <2> QED BY <1>a, <1>g, <2>1 DEF Inv, IdleInv, IdleLabel
<1>7. OneRunning'
  BY <1>1, <1>a, Zenon DEF Inv, ListMembership, OneRunning
<1>8. ReadyListed'
  BY <1>1, <1>a, <1>b, <1>e, <1>g DEF Inv, ListMembership, ReadyListed
<1>9. WaitersListed'
  <2>1. \A r \in Sem : \A t \in Range(waiters[r]) :
          /\ t \in Thread \ {current}
          /\ status[t] = "BLOCKED" /\ pc[t] = "down" /\ obj[t] = r
    BY <1>a, QueueRange DEF Inv, ListMembership, WaitersListed
  <2>2. \A r \in Sem : \A t \in Range(waiters[r]) :
          status'[t] = "BLOCKED" /\ pc'[t] = "down"
    <3>1. \A t \in Thread \ {current} :
            status[t] = "BLOCKED" /\ pc[t] = "down" => t # current'
      BY <1>f, Zenon DEF IdleLabel
    <3>2. \A t \in Thread \ {current} :
            status[t] = "BLOCKED" /\ pc[t] = "down" => status'[t] = "BLOCKED"
      BY <3>1, <1>1, Zenon
    <3>3. ASSUME NEW r \in Sem, NEW t \in Range(waiters[r])
          PROVE  status'[t] = "BLOCKED" /\ pc'[t] = "down"
      <4>1. t \in Thread \ {current} /\ status[t] = "BLOCKED" /\ pc[t] = "down"
        BY <2>1
      <4> QED BY <4>1, <3>2, <1>g, Zenon
    <3> QED BY <3>3, Zenon
  <2>3. \A t \in Thread : status'[t] = "BLOCKED" /\ pc'[t] = "down" =>
          status[t] = "BLOCKED" /\ pc[t] = "down"
    BY <1>1, <1>g, Zenon
  <2>4. WaitersListed
    BY Zenon DEF Inv, ListMembership
  <2> QED BY <2>2, <2>3, <2>4, <1>g, FrameWaiters, Zenon
<1> QED BY <1>2, <1>3, <1>4, <1>5, <1>6, <1>7, <1>8, <1>9, Zenon DEF Inv, ListMembership

\* A thread leaves the CPU without joining a list: the idle thread blocks,
\* or a thread exits.
LEMMA LeaveInv ==
  ASSUME Inv,
         NEW new \in {"BLOCKED", "DYING"}, NEW label,
         schedule(ready_list, [status EXCEPT ![current] = new]),
         \/ new = "BLOCKED" /\ pc[current] \in IdleLabel /\ label = "hlt"
         \/ new = "DYING" /\ pc[current] = "run" /\ label = "run",
         pc' = [pc EXCEPT ![current] = label],
         all_list' \in SUBSET Thread,
         UNCHANGED <<idle_thread, child, reg, next_tid, tid,
                     value, waiters, holder, cond_waiters, obj, cv>>
  PROVE  Inv'
<1> DEFINE st == [status EXCEPT ![current] = new]
<1>a. /\ TypeOK /\ current \in Thread /\ status[current] = "RUNNING"
      /\ ready_list \in Seq(Thread) /\ IsInjective(ready_list)
      /\ current \notin Range(ready_list)
      /\ status \in [Thread -> Status] /\ pc \in [Thread -> Label]
      /\ waiters \in [Sem -> Seq(Thread)]
      /\ child \in [Thread -> Thread \cup {NULL}]
  BY Zenon DEF Inv, TypeOK, ThreadsTypeOK, ListMembership, OneRunning, ReadyListed
<1>b. ready_list = <<>> => idle_thread \in Thread
  BY NextExists, Zenon DEF IdleLabel
<1>c. /\ st \in [Thread -> Status] /\ st[current] = new
      /\ \A t \in Thread \ {current} : st[t] = status[t]
  BY <1>a, Zenon DEF Status
<1> HIDE DEF st
<1>1. /\ ready_list' \in Seq(Thread) /\ IsInjective(ready_list')
      /\ current' \in Thread
      /\ current' \in Range(ready_list) \/ current' = idle_thread
      /\ Range(ready_list') = Range(ready_list) \ {current'}
      /\ status' \in [Thread -> Status]
      /\ status'[current'] = "RUNNING"
      /\ \A t \in Thread \ {current, current'} : status'[t] = status[t]
      /\ current # current' =>
           \/ status'[current] = "BLOCKED" /\ new = "BLOCKED"
           \/ status'[current] \in {"DYING", "FREE"} /\ new = "DYING"
      /\ thread_ticks' = 0
  <2>1. schedule(ready_list, st)
    BY Zenon DEF st
  <2> QED BY <1>a, <1>b, <1>c, <2>1, ScheduleEffect
<1>e. /\ Range(ready_list) \subseteq Thread
      /\ \A t \in Range(ready_list) : status[t] = "READY"
  BY <1>a, QueueRange, Zenon DEF Inv, ListMembership, ReadyListed
<1>f. \/ status[current'] = "READY"
      \/ pc[current'] \in IdleLabel
  BY <1>1, <1>e, Zenon DEF Inv, IdleInv
<1>g. /\ \A t \in Thread \ {current} : pc'[t] = pc[t]
      /\ pc'[current] = label
      /\ idle_thread' = idle_thread /\ obj' = obj /\ waiters' = waiters
      /\ child' = child /\ cv' = cv
  BY <1>a, Zenon
<1>2. TypeOK'
  <2>1. 0 \in 0 .. (TIME_SLICE - 1)
    BY ThreadAssumption
  <2>2. pc' \in [Thread -> Label]
    BY <1>a, Zenon DEF Label
  <2> QED BY <1>1, <1>a, <2>1, <2>2, Zenon DEF TypeOK, ThreadsTypeOK
<1>3. LocalInv'
  <2>1. ASSUME NEW t \in Thread PROVE LocalOK(t)'
    <3>1. LocalOK(t)
      BY Zenon DEF Inv, LocalInv
    <3>2. CASE t = current
      BY <3>1, <3>2, <1>1, <1>g, Zenon DEF LocalOK, InCreate, InCond, IdleLabel
    <3>3. CASE t # current
      <4>1. status'[t] \in {"FREE", "DYING"} => status[t] \in {"FREE", "DYING"}
        BY <3>3, <1>1, Zenon
      <4> QED BY <3>1, <3>3, <4>1, <1>g DEF LocalOK, InCreate, InCond
    <3> QED BY <3>2, <3>3, Zenon
  <2> QED BY <2>1, Zenon DEF LocalInv
<1>4. ChildInv'
  <2>1. \A t \in Thread : child[t] # NULL =>
          /\ child[t] \in Thread \ {current, current'}
          /\ status[child[t]] = "BLOCKED" /\ pc[child[t]] = "run"
    BY <1>a, <1>f, Zenon DEF Inv, ChildInv, IdleLabel
  <2>2. \A t \in Thread : child[t] # NULL =>
          status'[child[t]] = "BLOCKED" /\ pc'[child[t]] = "run"
    BY <2>1, <1>1, <1>g, ZenonT(60)
  <2> QED BY <2>2, <1>g, FrameChild, Zenon DEF Inv
<1>5. SomebodyRuns'
  <2>1. pc[current] # "boot" /\ pc[current] # "idle_init"
    BY Zenon DEF IdleLabel
  <2> QED BY <1>1, <1>a, <1>g, <2>1, Zenon DEF Inv, SomebodyRuns
<1>6. IdleInv'
  <2>1. IdleNeverQueued'
    BY <1>1, <1>g, Zenon DEF Inv, IdleInv, IdleNeverQueued
  <2> QED BY <1>a, <1>g, <2>1 DEF Inv, IdleInv, IdleLabel
<1>7. OneRunning'
  BY <1>1, <1>a, Zenon DEF Inv, ListMembership, OneRunning
<1>8. ReadyListed'
  BY <1>1, <1>a, <1>e, <1>g, Zenon DEF Inv, ListMembership, ReadyListed
<1>9. WaitersListed'
  <2>1. \A r \in Sem : \A t \in Range(waiters[r]) :
          /\ t \in Thread \ {current}
          /\ status[t] = "BLOCKED" /\ pc[t] = "down" /\ obj[t] = r
    BY <1>a, QueueRange DEF Inv, ListMembership, WaitersListed
  <2>2. \A r \in Sem : \A t \in Range(waiters[r]) :
          status'[t] = "BLOCKED" /\ pc'[t] = "down"
    <3>1. \A t \in Thread \ {current} :
            status[t] = "BLOCKED" /\ pc[t] = "down" => t # current'
      BY <1>f, Zenon DEF IdleLabel
    <3>2. \A t \in Thread \ {current} :
            status[t] = "BLOCKED" /\ pc[t] = "down" => status'[t] = "BLOCKED"
      BY <3>1, <1>1, Zenon
    <3>3. ASSUME NEW r \in Sem, NEW t \in Range(waiters[r])
          PROVE  status'[t] = "BLOCKED" /\ pc'[t] = "down"
      <4>1. t \in Thread \ {current} /\ status[t] = "BLOCKED" /\ pc[t] = "down"
        BY <2>1, SMTT(30)
      <4> QED BY <4>1, <3>2, <1>g, Zenon
    <3> QED BY <3>3, Zenon
  <2>3. \A t \in Thread : status'[t] = "BLOCKED" /\ pc'[t] = "down" =>
          status[t] = "BLOCKED" /\ pc[t] = "down"
    BY <1>1, <1>g, Zenon
  <2>4. WaitersListed
    BY Zenon DEF Inv, ListMembership
  <2> QED BY <2>2, <2>3, <2>4, <1>g, FrameWaiters, Zenon
<1> QED BY <1>2, <1>3, <1>4, <1>5, <1>6, <1>7, <1>8, <1>9, Zenon DEF Inv, ListMembership

-----------------------------------------------------------------------------
(* Creating threads.                                                       *)

\* The first step of thread_create(): a free page becomes a blocked thread.
LEMMA ThreadCreateInv ==
  ASSUME Inv, NEW n \in Thread, ThreadCreate(n)
  PROVE  Inv'
<1>a. /\ TypeOK /\ current \in Thread /\ status[current] = "RUNNING"
      /\ n # current /\ status[n] = "FREE" /\ pc[n] = "run"
      /\ status \in [Thread -> Status] /\ pc \in [Thread -> Label]
      /\ child \in [Thread -> Thread \cup {NULL}]
      /\ waiters \in [Sem -> Seq(Thread)]
      /\ pc[current] = "run"
  BY Zenon DEF Inv, TypeOK, ThreadsTypeOK, ListMembership, OneRunning, ThreadCreate,
         At, LocalInv, LocalOK
<1>b. /\ status' = [status EXCEPT ![n] = "BLOCKED"]
      /\ child' = [child EXCEPT ![current] = n]
      /\ pc' = [pc EXCEPT ![current] = "tid_acquire"]
      /\ ready_list' = ready_list /\ current' = current
      /\ idle_thread' = idle_thread /\ waiters' = waiters
      /\ obj' = obj /\ cv' = cv
  BY Zenon DEF ThreadCreate, Goto
<1>c. /\ status'[n] = "BLOCKED" /\ child'[current] = n
      /\ pc'[current] = "tid_acquire" /\ pc'[n] = "run"
      /\ \A t \in Thread \ {n} : status'[t] = status[t]
      /\ \A t \in Thread \ {current} : pc'[t] = pc[t] /\ child'[t] = child[t]
  BY <1>a, <1>b, Zenon
<1>1. TypeOK'
  <2>1. /\ status' \in [Thread -> Status] /\ pc' \in [Thread -> Label]
        /\ child' \in [Thread -> Thread \cup {NULL}]
    BY <1>a, <1>b, Zenon DEF Status, Label
  <2>2. tid' \in [Thread -> Nat] /\ all_list' \in SUBSET Thread
    <3>1. tid' = [tid EXCEPT ![n] = 0] /\ all_list' = all_list \cup {n}
      BY Zenon DEF ThreadCreate, init_thread
    <3> QED BY <3>1, <1>a, Zenon DEF TypeOK, ThreadsTypeOK
  <2>3. UNCHANGED <<ready_list, current, thread_ticks, idle_thread, value,
                    waiters, holder, cond_waiters, obj, cv, reg, next_tid>>
    BY Zenon DEF ThreadCreate
  <2> QED BY <2>1, <2>2, <2>3, <1>a, Zenon DEF TypeOK, ThreadsTypeOK
<1>2. LocalInv'
  <2>1. ASSUME NEW t \in Thread PROVE LocalOK(t)'
    <3>1. LocalOK(t)
      BY Zenon DEF Inv, LocalInv
    <3>2. CASE t = current
      BY <3>1, <3>2, <1>a, <1>b, <1>c, ThreadAssumption
         DEF LocalOK, InCreate, InCond
    <3>3. CASE t # current
      BY <3>1, <3>3, <1>a, <1>b, <1>c, ZenonT(60) DEF LocalOK, InCreate, InCond
    <3> QED BY <3>2, <3>3, Zenon
  <2> QED BY <2>1, Zenon DEF LocalInv
<1>3. ChildInv'
  <2>1. \A t \in Thread : child[t] # NULL =>
          /\ child[t] \in Thread \ {n, current}
          /\ status[child[t]] = "BLOCKED" /\ pc[child[t]] = "run"
    BY <1>a, Zenon DEF Inv, ChildInv
  <2>2. \A t \in Thread : child'[t] # NULL =>
          status'[child'[t]] = "BLOCKED" /\ pc'[child'[t]] = "run"
    <3>1. ASSUME NEW t \in Thread, child'[t] # NULL
          PROVE  status'[child'[t]] = "BLOCKED" /\ pc'[child'[t]] = "run"
      <4>1. CASE t = current
        BY <4>1, <1>c, Zenon
      <4>2. CASE t # current
        <5>1. child'[t] = child[t]
          BY <4>2, <1>c, Zenon
        <5>2. PICK x \in Thread \ {n, current} : x = child[t]
          BY <5>1, <3>1, <2>1, Zenon
        <5>3. status[x] = "BLOCKED" /\ pc[x] = "run"
          BY <5>1, <5>2, <3>1, <2>1, Zenon
        <5>4. status'[x] = "BLOCKED" /\ pc'[x] = "run"
          BY <5>3, <1>c, Zenon
        <5> QED BY <5>1, <5>2, <5>4, Zenon
      <4> QED BY <4>1, <4>2, Zenon
    <3> QED BY <3>1, Zenon
  <2>3. ASSUME NEW t \in Thread, child'[t] # NULL,
               NEW u \in Thread, child'[u] = child'[t]
        PROVE  u = t
    <3>1. CASE t # current /\ u # current
      <4>1. child[t] # NULL /\ child[u] = child[t]
        BY <3>1, <2>3, <1>c, Zenon
      <4>2. ChildInv
        BY Zenon DEF Inv
      <4> QED BY <4>1, <4>2, Zenon DEF ChildInv
    <3>2. CASE t = current \/ u = current
      BY <3>2, <2>3, <2>1, <1>c
    <3> QED BY <3>1, <3>2, Zenon
  <2> QED BY <2>2, <2>3, Zenon DEF ChildInv
<1>4. SomebodyRuns'
  BY <1>a, <1>b, <1>c, Zenon DEF Inv, SomebodyRuns
<1>5. IdleInv'
  BY <1>a, <1>b, <1>c DEF Inv, IdleInv, IdleNeverQueued, IdleLabel
<1>6. OneRunning' /\ ReadyListed'
  BY <1>a, <1>b, <1>c DEF Inv, ListMembership, OneRunning, ReadyListed
<1>7. WaitersListed'
  <2>1. \A r \in Sem : \A t \in Range(waiters[r]) :
          /\ t \in Thread \ {current, n}
          /\ status[t] = "BLOCKED" /\ pc[t] = "down" /\ obj[t] = r
    BY <1>a, QueueRange DEF Inv, ListMembership, WaitersListed
  <2> QED BY <2>1, <1>a, <1>b, <1>c
          DEF Inv, ListMembership, WaitersListed
<1> QED BY <1>1, <1>2, <1>3, <1>4, <1>5, <1>6, <1>7, Zenon DEF Inv, ListMembership

\* The last step of thread_create(): the child is unblocked, or freed again.
LEMMA CreateEndInv ==
  ASSUME Inv, CreateUnblock \/ CreateFail
  PROVE  Inv'
<1> DEFINE n == child[current]
<1>a. /\ TypeOK /\ current \in Thread /\ status[current] = "RUNNING"
      /\ status \in [Thread -> Status] /\ pc \in [Thread -> Label]
      /\ child \in [Thread -> Thread \cup {NULL}]
      /\ reg \in [Thread -> Nat]
      /\ waiters \in [Sem -> Seq(Thread)]
      /\ pc[current] = "create_end"
  BY Zenon DEF Inv, TypeOK, ThreadsTypeOK, ListMembership, OneRunning,
         CreateUnblock, CreateFail, At
<1>b. /\ n \in Thread /\ status[n] = "BLOCKED" /\ pc[n] = "run"
      /\ n # current /\ n # idle_thread
  <2>1. n # NULL
    BY <1>a, Zenon DEF Inv, LocalInv, LocalOK, InCreate, InCond
  <2>2. status[n] = "BLOCKED" /\ pc[n] = "run" /\ n \in Thread
    BY <2>1, <1>a, Zenon DEF Inv, ChildInv
  <2> QED BY <2>2, <1>a, Zenon DEF Inv, IdleInv, IdleLabel
<1>c. /\ child' = [child EXCEPT ![current] = NULL]
      /\ pc' = [pc EXCEPT ![current] = "run"]
      /\ current' = current /\ thread_ticks' = thread_ticks
      /\ idle_thread' = idle_thread /\ waiters' = waiters
      /\ obj' = obj /\ cv' = cv /\ reg' = [reg EXCEPT ![current] = 0]
      /\ UNCHANGED <<all_list, value, holder, cond_waiters, next_tid>>
  BY Zenon DEF CreateUnblock, CreateFail, Goto, tidVars
<1>d. /\ child'[current] = NULL /\ pc'[current] = "run"
      /\ \A t \in Thread \ {current} : pc'[t] = pc[t] /\ child'[t] = child[t]
  BY <1>a, <1>c, Zenon
<1>e. /\ tid' \in [Thread -> Nat]
      /\ ready_list' \in Seq(Thread)
      /\ Range(ready_list) \subseteq Range(ready_list')
      /\ status' \in [Thread -> Status]
      /\ status'[n] \in {"READY", "FREE"}
      /\ \A t \in Thread \ {n} : status'[t] = status[t]
      /\ OneRunning' /\ ReadyListed' /\ IdleNeverQueued'
  <2>1. CASE CreateUnblock
    <3>1. thread_unblock(n) /\ tid' = [tid EXCEPT ![n] = reg[current]]
      BY <2>1, Zenon DEF CreateUnblock
    <3>2. tid' \in [Thread -> Nat]
      BY <3>1, <1>a, Zenon DEF TypeOK
    <3> HIDE DEF n
    <3> QED BY <3>1, <3>2, <1>b, <1>c, UnblockEffect, Zenon
  <2>2. CASE CreateFail
    <3>1. /\ status' = [status EXCEPT ![n] = "FREE"]
          /\ ready_list' = ready_list /\ tid' = tid
      BY <2>2, Zenon DEF CreateFail, tidVars
    <3> HIDE DEF n
    <3>2. /\ status' \in [Thread -> Status]
          /\ status'[n] = "FREE"
          /\ \A t \in Thread \ {n} : status'[t] = status[t]
      BY <3>1, <1>a, <1>b, Zenon DEF Status
    <3>3. OneRunning'
      BY <3>2, <1>a, <1>b, <1>c, Zenon DEF Inv, ListMembership, OneRunning
    <3>4. ReadyListed'
      BY <3>1, <3>2, <1>b, <1>c DEF Inv, ListMembership, ReadyListed
    <3>5. IdleNeverQueued'
      BY <3>1, <1>c, Zenon DEF Inv, IdleInv, IdleNeverQueued
    <3> QED BY <3>1, <3>2, <3>3, <3>4, <3>5, <1>a, Zenon DEF TypeOK, ThreadsTypeOK
  <2> QED BY <2>1, <2>2, ZenonT(60)
<1>f. n = child[current]
  BY Zenon
<1> HIDE DEF n
<1>1. TypeOK'
  BY <1>a, <1>c, <1>e, Zenon DEF TypeOK, ThreadsTypeOK, Label
<1>2. LocalInv'
  <2>1. ASSUME NEW t \in Thread PROVE LocalOK(t)'
    <3>1. LocalOK(t)
      BY Zenon DEF Inv, LocalInv
    <3>2. CASE t = current
      BY <3>1, <3>2, <1>a, <1>c, <1>d, Zenon DEF LocalOK, InCreate, InCond
    <3>3. CASE t # current
      BY <3>1, <3>3, <1>b, <1>c, <1>d, <1>e, ZenonT(60) DEF LocalOK, InCreate, InCond
    <3> QED BY <3>2, <3>3, Zenon
  <2> QED BY <2>1, Zenon DEF LocalInv
<1>3. ChildInv'
  <2>1. \A t \in Thread \ {current} : child[t] # NULL =>
          /\ child[t] \in Thread \ {n, current}
          /\ status[child[t]] = "BLOCKED" /\ pc[child[t]] = "run"
    BY <1>a, <1>b, <1>f, ThreadAssumption, Zenon DEF Inv, ChildInv
  <2>2. \A t \in Thread : child'[t] # NULL =>
          /\ t # current
          /\ status'[child'[t]] = "BLOCKED" /\ pc'[child'[t]] = "run"
    <3>1. ASSUME NEW t \in Thread, child'[t] # NULL
          PROVE  /\ t # current
                 /\ status'[child'[t]] = "BLOCKED" /\ pc'[child'[t]] = "run"
      <4>1. t # current
        BY <3>1, <1>d, Zenon
      <4>2. /\ child'[t] = child[t] /\ child[t] \in Thread \ {n, current}
            /\ status[child[t]] = "BLOCKED" /\ pc[child[t]] = "run"
        BY <4>1, <3>1, <2>1, <1>d, Zenon
      <4> HIDE DEF n
      <4> QED BY <4>1, <4>2, <1>d, <1>e, Zenon
    <3> QED BY <3>1, Zenon
  <2>3. ASSUME NEW t \in Thread, child'[t] # NULL,
               NEW u \in Thread, child'[u] = child'[t]
        PROVE  u = t
    <3>1. /\ child[t] = child'[t] /\ child[u] = child'[u]
      BY <2>2, <2>3, <1>d, Zenon
    <3> QED BY <3>1, <2>3, Zenon DEF Inv, ChildInv
  <2> QED BY <2>2, <2>3, Zenon DEF ChildInv
<1>4. SomebodyRuns'
  BY <1>a, <1>c, <1>d, <1>e, Zenon DEF Inv, SomebodyRuns
<1>5. IdleInv'
  <2>1. /\ \A t \in Thread : \/ pc'[t] = pc[t]
                             \/ pc[t] = "create_end" /\ pc'[t] = "run"
        /\ current' = current /\ idle_thread' = idle_thread
        /\ IdleNeverQueued'
    BY <1>a, <1>c, <1>d, <1>e, Zenon
  <2>2. IdleInv
    BY Zenon DEF Inv
  <2> QED BY <2>1, <2>2 DEF IdleInv, IdleLabel
<1>6. WaitersListed'
  <2>1. \A r \in Sem : \A t \in Range(waiters[r]) :
          /\ t \in Thread \ {current, n}
          /\ status[t] = "BLOCKED" /\ pc[t] = "down" /\ obj[t] = r
    BY <1>a, <1>b, QueueRange DEF Inv, ListMembership, WaitersListed
  <2>2. \A t \in Thread : status'[t] = "BLOCKED" /\ pc'[t] = "down" =>
          status[t] = "BLOCKED" /\ pc[t] = "down"
    BY <1>b, <1>d, <1>e, Zenon
  <2>3. \A r \in Sem : \A t \in Range(waiters[r]) :
          status'[t] = "BLOCKED" /\ pc'[t] = "down"
    <3> HIDE DEF n
    <3>1. ASSUME NEW r \in Sem, NEW t \in Range(waiters[r])
          PROVE  status'[t] = "BLOCKED" /\ pc'[t] = "down"
      <4>1. /\ t \in Thread \ {current, n}
            /\ status[t] = "BLOCKED" /\ pc[t] = "down"
        BY <2>1, Zenon
      <4> QED BY <4>1, <1>d, <1>e, Zenon
    <3> QED BY <3>1, Zenon
  <2>4. WaitersListed
    BY Zenon DEF Inv, ListMembership
  <2> QED BY <2>2, <2>3, <2>4, <1>c, FrameWaiters, Zenon
<1> QED BY <1>1, <1>2, <1>3, <1>4, <1>5, <1>6, <1>e, Zenon DEF Inv, ListMembership

\* thread_start() creates the idle thread.
LEMMA BootInv ==
  ASSUME Inv, Boot
  PROVE  Inv'
<1>1. PICK n \in Thread :
        /\ status[n] = "FREE"
        /\ init_thread(n)
        /\ thread_unblock(n)
        /\ tid' = [tid EXCEPT ![n] = next_tid]
        /\ next_tid' = next_tid + 1
        /\ pc' = [pc EXCEPT ![current] = "start_down", ![n] = "idle_init"]
        /\ UNCHANGED <<current, thread_ticks, idle_thread, value, waiters,
                       holder, cond_waiters, obj, cv, child, reg>>
  BY ZenonT(60) DEF Boot
<1>a. /\ TypeOK /\ current \in Thread /\ status[current] = "RUNNING"
      /\ n # current
      /\ ready_list \in Seq(Thread) /\ IsInjective(ready_list)
      /\ n \notin Range(ready_list)
      /\ status \in [Thread -> Status] /\ pc \in [Thread -> Label]
      /\ child \in [Thread -> Thread \cup {NULL}]
      /\ waiters \in [Sem -> Seq(Thread)]
      /\ pc[current] = "boot"
  BY <1>1, Zenon DEF Inv, TypeOK, ThreadsTypeOK, ListMembership, OneRunning,
              ReadyListed, Boot, At
<1>b. /\ idle_thread = NULL /\ \A t \in Thread \ {current} : pc[t] = "run"
  BY <1>a, Zenon DEF Inv, IdleInv
<1>c. /\ \A t \in Thread : child[t] = NULL /\ cv[t] = NULL
      /\ \A s \in Sem : Range(waiters[s]) = {}
  <2>1. \A t \in Thread : child[t] = NULL /\ cv[t] = NULL
    BY <1>a, <1>b, Zenon DEF Inv, LocalInv, LocalOK, InCreate, InCond
  <2>2. \A s \in Sem : \A t \in Range(waiters[s]) :
          t \in Thread /\ pc[t] = "down"
    BY <1>a, QueueRange DEF Inv, ListMembership, WaitersListed
  <2> QED BY <2>1, <2>2, <1>a, <1>b, Zenon
<1>d. /\ ready_list' = Append(ready_list, n)
      /\ status' = [status EXCEPT ![n] = "READY"]
      /\ current' = current /\ idle_thread' = NULL
      /\ waiters' = waiters /\ child' = child /\ obj' = obj /\ cv' = cv
  BY <1>1, <1>b, Zenon DEF thread_unblock
<1>e. /\ ready_list' \in Seq(Thread) /\ IsInjective(ready_list')
      /\ Range(ready_list') = Range(ready_list) \cup {n}
      /\ Range(ready_list) \subseteq Thread
  BY <1>a, <1>d, AppendQueue, QueueRange, Zenon
<1>f. /\ status'[n] = "READY"
      /\ \A t \in Thread \ {n} : status'[t] = status[t]
      /\ pc'[current] = "start_down" /\ pc'[n] = "idle_init"
      /\ \A t \in Thread \ {current, n} : pc'[t] = "run"
  BY <1>1, <1>a, <1>b, <1>d, Zenon
<1>2. TypeOK'
  <2>1. pc' \in [Thread -> Label] /\ status' \in [Thread -> Status]
    BY <1>1, <1>a, <1>d, Zenon DEF Label, Status
  <2>2. /\ tid' \in [Thread -> Nat] /\ next_tid' \in Nat
        /\ all_list' \in SUBSET Thread
    <3>1. /\ tid \in [Thread -> Nat] /\ next_tid \in Nat
          /\ all_list \in SUBSET Thread
      BY <1>a, ZenonT(60) DEF TypeOK, ThreadsTypeOK
    <3> QED BY <3>1, <1>1, <1>a DEF init_thread
  <2> QED BY <1>1, <1>a, <1>e, <2>1, <2>2, Zenon DEF TypeOK, ThreadsTypeOK
<1>3. LocalInv'
  <2>1. \A t \in Thread : status'[t] \in {"FREE", "DYING"} => pc'[t] = "run"
    BY <1>a, <1>f, Zenon
  <2>2. \A t \in Thread : pc'[t] \in {"start_down", "idle_init", "run"}
    BY <1>f, Zenon
  <2> QED BY <2>1, <2>2, <1>c, <1>d, ZenonT(60) DEF LocalInv, LocalOK, InCreate, InCond
<1>4. ChildInv'
  BY <1>c, <1>d, Zenon DEF ChildInv
<1>5. SomebodyRuns'
  BY <1>e, <1>f, Zenon DEF SomebodyRuns
<1>6. IdleInv'
  <2>1. IdleNeverQueued'
    BY <1>d, <1>e, ThreadAssumption, Zenon DEF IdleNeverQueued
  <2>2. \A t \in Thread : pc'[t] \in {"start_down", "idle_init", "run"}
    BY <1>f, Zenon
  <2> QED BY <2>1, <2>2, <1>d, <1>f, ThreadAssumption, Zenon DEF IdleInv, IdleLabel
<1>7. OneRunning' /\ ReadyListed'
  <2>1. OneRunning /\ ReadyListed
    BY Zenon DEF Inv, ListMembership
  <2>2. OneRunning'
    BY <2>1, <1>1, <1>a, <1>d, <1>f DEF OneRunning
  <2>3. ReadyListed'
    BY <2>1, <1>1, <1>a, <1>b, <1>d, <1>e, <1>f, Zenon DEF ReadyListed
  <2> QED BY <2>2, <2>3, Zenon
<1>8. WaitersListed'
  BY <1>a, <1>c, <1>d, <1>f, Zenon DEF Inv, ListMembership, WaitersListed
<1> QED BY <1>2, <1>3, <1>4, <1>5, <1>6, <1>7, <1>8, Zenon DEF Inv, ListMembership

\* The idle thread announces itself.
LEMMA IdleInitInv ==
  ASSUME Inv, IdleInit
  PROVE  Inv'
<1>a. /\ TypeOK /\ current \in Thread /\ status[current] = "RUNNING"
      /\ current \notin Range(ready_list)
      /\ pc \in [Thread -> Label]
      /\ child \in [Thread -> Thread \cup {NULL}]
      /\ waiters \in [Sem -> Seq(Thread)]
      /\ pc[current] = "idle_init"
  BY Zenon DEF Inv, TypeOK, ThreadsTypeOK, ListMembership, OneRunning,
         ReadyListed, IdleInit, At
<1>b. /\ idle_thread' = current /\ idle_thread = NULL
      /\ pc' = [pc EXCEPT ![current] = "idle_up"]
      /\ status' = status /\ ready_list' = ready_list /\ current' = current
      /\ waiters' = waiters /\ child' = child /\ obj' = obj /\ cv' = cv
  BY <1>a, Zenon DEF IdleInit, Goto, switchVars, Inv, IdleInv
<1>c. /\ pc'[current] = "idle_up"
      /\ \A t \in Thread \ {current} : pc'[t] = pc[t]
  BY <1>a, <1>b, Zenon
<1>2. TypeOK'
  BY <1>a, <1>b, Zenon DEF TypeOK, ThreadsTypeOK, IdleInit, switchVars, tidVars, Label
<1>3. LocalInv'
  <2>1. ASSUME NEW t \in Thread PROVE LocalOK(t)'
    <3>1. LocalOK(t)
      BY Zenon DEF Inv, LocalInv
    <3>2. CASE t = current
      BY <3>1, <3>2, <1>a, <1>b, <1>c, ZenonT(60) DEF LocalOK, InCreate, InCond
    <3>3. CASE t # current
      BY <3>1, <3>3, <1>b, <1>c, Zenon DEF LocalOK, InCreate, InCond
    <3> QED BY <3>2, <3>3, Zenon
  <2> QED BY <2>1, Zenon DEF LocalInv
<1>4. ChildInv'
  <2>1. \A t \in Thread : child[t] # NULL => child[t] \in Thread \ {current}
    BY <1>a, Zenon DEF Inv, ChildInv
  <2> QED BY <2>1, <1>b, <1>c, Zenon DEF Inv, ChildInv
<1>5. SomebodyRuns'
  BY <1>a, <1>b, ThreadAssumption, Zenon DEF SomebodyRuns
<1>6. IdleInv'
  BY <1>a, <1>b, <1>c, ThreadAssumption
     DEF Inv, IdleInv, IdleNeverQueued, IdleLabel
<1>7. OneRunning' /\ ReadyListed'
  BY <1>a, <1>b, ThreadAssumption, Zenon
     DEF Inv, ListMembership, OneRunning, ReadyListed
<1>8. WaitersListed'
  <2>1. \A s \in Sem : \A t \in Range(waiters[s]) : t \in Thread \ {current}
    <3>1. WaitersListed
      BY Zenon DEF Inv, ListMembership
    <3>2. \A s \in Sem : Range(waiters[s]) \subseteq Thread
      BY <1>a, QueueRange, Zenon
    <3>3. \A s \in Sem : \A t \in Range(waiters[s]) : status[t] = "BLOCKED"
      BY <3>1, Zenon DEF WaitersListed
    <3> QED BY <3>2, <3>3, <1>a, Zenon
  <2>2. \A t \in Thread : pc'[t] = "down" => pc[t] = "down"
    BY <1>a, <1>c, Zenon
  <2>3. \A s \in Sem : \A t \in Range(waiters[s]) :
          status'[t] = "BLOCKED" /\ pc'[t] = "down"
    <3>1. \A s \in Sem : \A t \in Range(waiters[s]) :
            status[t] = "BLOCKED" /\ pc[t] = "down"
      BY Zenon DEF Inv, ListMembership, WaitersListed
    <3> QED BY Zenon, <3>1, <2>1, <1>b, <1>c
  <2>4. WaitersListed
    BY Zenon DEF Inv, ListMembership
  <2> QED BY <2>2, <2>3, <2>4, <1>b, FrameWaiters, Zenon
<1> QED BY <1>2, <1>3, <1>4, <1>5, <1>6, <1>7, <1>8, Zenon DEF Inv, ListMembership

-----------------------------------------------------------------------------
(* The invariant.                                                          *)

\* thread_init() establishes the invariant.
LEMMA InitInv == Init => Inv
<1> SUFFICES ASSUME Init PROVE Inv
  BY Zenon
<1> USE ThreadAssumption, SynchAssumption
<1>1. TypeOK
  <2>1. 0 \in 0 .. (TIME_SLICE - 1)
    OBVIOUS
  <2> QED BY <2>1, EmptyQueue, Zenon DEF Init, TypeOK, ThreadsTypeOK, Status, Label
<1>2. LocalInv /\ ChildInv
  BY Zenon DEF Init, LocalInv, LocalOK, InCreate, InCond, ChildInv
<1>3. SomebodyRuns
  BY Zenon DEF Init, SomebodyRuns
<1>4. Range(ready_list) = {} /\ IsInjective(ready_list)
      /\ \A s \in Sem : Range(waiters[s]) = {} /\ IsInjective(waiters[s])
  BY EmptyQueue, Zenon DEF Init
<1>5. IdleInv
  BY <1>4, Zenon DEF Init, IdleInv, IdleNeverQueued, IdleLabel
<1>6. ListMembership
  BY <1>4, Zenon DEF Init, ListMembership, OneRunning, ReadyListed, WaitersListed
<1> QED BY <1>1, <1>2, <1>3, <1>5, <1>6, Zenon DEF Inv

\* The calls clients make.
LEMMA CallInv == Inv /\ Call => Inv'
<1> SUFFICES ASSUME Inv, Call PROVE Inv'
  BY Zenon
<1>a. /\ TypeOK /\ current \in Thread /\ status[current] = "RUNNING"
      /\ pc \in [Thread -> Label] /\ obj \in [Thread -> Sem \cup {NULL}]
      /\ cv \in [Thread -> Cond \cup {NULL}]
      /\ holder \in [Lock -> Thread \cup {NULL}]
      /\ cond_waiters \in [Cond -> Seq(Thread)]
      /\ waiters \in [Sem -> Seq(Thread)]
  BY Zenon DEF Inv, TypeOK, ThreadsTypeOK, ListMembership, OneRunning
<1>b. pc[current] = "run"
  BY Zenon DEF Call, SemaDown, SemaTryDown, SemaUp, LockAcquire, LockTryAcquire,
         LockRelease, CondWait, CondSignal, CondBroadcast, ThreadCreate,
         ThreadYield, ThreadExit, At
<1>c. child[current] = NULL /\ cv[current] = NULL /\ LocalOK(current)
  BY <1>a, <1>b, Zenon DEF Inv, LocalInv, LocalOK, InCreate, InCond
<1>d. /\ \A s \in Sema : s \in Sem /\ s \notin Thread /\ s \notin Lock
      /\ \A l \in Lock : l \in Sem /\ l \notin Thread
      /\ \A c \in Cond : CondLock[c] \in Lock /\ CondLock[c] # tid_lock
      /\ tid_lock \in Lock
  BY SynchAssumption, Zenon DEF Sem
<1>e. \A l \in ClientLock : l \in Lock /\ l # tid_lock
  BY Zenon DEF ClientLock
<1>1. ASSUME NEW s \in Sema, SemaDown(s) PROVE Inv'
  BY <1>1, <1>a, <1>b, <1>c, <1>d, SemaDownInv, Zenon DEF SemaDown, IdleLabel
<1>2. ASSUME NEW s \in Sema, SemaTryDown(s) PROVE Inv'
  <2>1. TypeOK'
    <3>1. value' \in [Sem -> Nat]
      BY <1>2, <1>a, <1>d, CountDown, Zenon DEF SemaTryDown, sema_try_down, TypeOK
    <3> QED BY <3>1, <1>2, <1>a, Zenon
            DEF TypeOK, ThreadsTypeOK, SemaTryDown, switchVars, keepCreate
  <2>2. LocalOK(current)'
    BY <1>2, <1>c, Zenon DEF LocalOK, InCreate, InCond, SemaTryDown, switchVars, keepCreate
  <2>3. /\ pc' = [pc EXCEPT ![current] = "run"]
        /\ obj' = [obj EXCEPT ![current] = obj[current]]
        /\ cv' = [cv EXCEPT ![current] = cv[current]]
        /\ UNCHANGED <<switchVars, waiters, idle_thread, child>>
    BY <1>2, <1>a, <1>b, Zenon DEF SemaTryDown, keepCreate
  <2> QED BY <2>1, <2>2, <2>3, <1>b, LocalStepInv, Zenon DEF IdleLabel
<1>3. ASSUME NEW s \in Sema, SemaUp(s) PROVE Inv'
  <2>1. /\ pc' = [pc EXCEPT ![current] = pc[current]]
        /\ obj' = [obj EXCEPT ![current] = obj[current]]
        /\ pc[current] \in Label /\ obj[current] \in Sem \cup {NULL}
    BY <1>3, <1>a, Zenon DEF SemaUp
  <2>2. sema_up(s) /\ keepCreate /\ UNCHANGED <<holder, cond_waiters, cv>>
    BY <1>3, Zenon DEF SemaUp
  <2>3. LocalOK(current)'
    <3>1. current' = current /\ pc' = pc /\ obj' = obj /\ cv' = cv /\ child' = child
      BY <1>3, Zenon DEF SemaUp, sema_up, keepCreate
    <3> QED BY <3>1, <1>b, <1>c, Zenon DEF LocalOK, InCreate, InCond
  <2> QED BY <2>1, <2>2, <2>3, <1>b, <1>d, SemaUpInv, Zenon
<1>4. ASSUME NEW l \in ClientLock, LockAcquire(l) PROVE Inv'
  BY <1>4, <1>a, <1>b, <1>c, <1>d, <1>e, SemaDownInv, Zenon DEF LockAcquire, IdleLabel
<1>5. ASSUME NEW l \in ClientLock, LockTryAcquire(l) PROVE Inv'
  <2>1. /\ pc' = [pc EXCEPT ![current] = "set_holder"]
        /\ obj' = [obj EXCEPT ![current] = l]
        /\ cv' = [cv EXCEPT ![current] = cv[current]]
        /\ UNCHANGED <<switchVars, waiters, idle_thread, child>>
    BY <1>5, <1>a, Zenon DEF LockTryAcquire, Goto, keepCreate
  <2>2. TypeOK'
    <3>1. value' \in [Sem -> Nat]
      BY <1>5, <1>a, <1>d, <1>e, CountDown, Zenon
         DEF LockTryAcquire, sema_try_down, TypeOK
    <3>2. pc' \in [Thread -> Label] /\ obj' \in [Thread -> Sem \cup {NULL}]
      BY <2>1, <1>a, <1>d, <1>e, Zenon DEF Label
    <3> QED BY <3>1, <3>2, <1>5, <1>a, Zenon
            DEF TypeOK, ThreadsTypeOK, LockTryAcquire, switchVars, keepCreate
  <2>3. LocalOK(current)'
    BY <2>1, <1>a, <1>c, <1>e, Zenon DEF LocalOK, InCreate, InCond, switchVars
  <2> QED BY <2>1, <2>2, <2>3, <1>b, LocalStepInv, Zenon DEF IdleLabel
<1>6. ASSUME NEW l \in ClientLock, LockRelease(l) PROVE Inv'
  <2>1. /\ pc' = [pc EXCEPT ![current] = "release_up"]
        /\ obj' = [obj EXCEPT ![current] = l]
        /\ cv' = [cv EXCEPT ![current] = cv[current]]
        /\ UNCHANGED <<switchVars, waiters, idle_thread, child>>
    BY <1>6, <1>a, Zenon DEF LockRelease, lock_release, Goto, keepCreate
  <2>2. TypeOK'
    <3>1. /\ pc' \in [Thread -> Label] /\ obj' \in [Thread -> Sem \cup {NULL}]
          /\ holder' \in [Lock -> Thread \cup {NULL}]
      BY <2>1, <1>6, <1>a, <1>d, <1>e, Zenon DEF Label, LockRelease, lock_release
    <3> QED BY <3>1, <1>6, <1>a, Zenon
            DEF TypeOK, ThreadsTypeOK, LockRelease, lock_release, switchVars,
                keepCreate
  <2>3. LocalOK(current)'
    BY <2>1, <1>a, <1>c, <1>e, Zenon DEF LocalOK, InCreate, InCond, switchVars
  <2> QED BY <2>1, <2>2, <2>3, <1>b, LocalStepInv, Zenon DEF IdleLabel
<1>7. ASSUME NEW c \in Cond, CondWait(c) PROVE Inv'
  <2>1. waiters[current] = <<>>
    <3>1. \A t \in Range(waiters[current]) :
            t \in Thread /\ status[t] = "BLOCKED" /\ pc[t] = "down"
            /\ obj[t] = current
      BY <1>a, QueueRange, Zenon DEF Inv, ListMembership, WaitersListed, Sem
    <3>2. \A t \in Range(waiters[current]) : t = current
      <4>1. \A t \in Thread : pc[t] = "down" /\ obj[t] \in Thread => obj[t] = t
        BY Zenon DEF Inv, LocalInv, LocalOK
      <4>2. ASSUME NEW t \in Range(waiters[current]) PROVE t = current
        <5>1. t \in Thread /\ pc[t] = "down" /\ obj[t] = current
          BY <3>1, Zenon
        <5> QED BY <5>1, <4>1, <1>a, Zenon
      <4> QED BY <4>2, Zenon
    <3>3. Range(waiters[current]) = {}
      BY <3>1, <3>2, <1>a, Zenon
    <3>4. waiters[current] \in Seq(Thread)
      BY <1>a, Zenon DEF Sem
    <3>5. ASSUME waiters[current] # <<>> PROVE FALSE
      <4>1. Range(waiters[current]) =
              Range(Tail(waiters[current])) \cup {Head(waiters[current])}
        BY Zenon, <3>4, <3>5, TailQueue
      <4> QED BY Zenon, <4>1, <3>3
    <3> QED BY <3>5, Zenon
  <2>2. /\ pc' = [pc EXCEPT ![current] = "cond_release"]
        /\ obj' = [obj EXCEPT ![current] = obj[current]]
        /\ cv' = [cv EXCEPT ![current] = c]
        /\ waiters' = waiters
        /\ UNCHANGED <<switchVars, idle_thread, child>>
    BY <2>1, <1>7, <1>a, Zenon DEF CondWait, Goto, keepCreate, Sem
  <2>3. TypeOK'
    <3>1. /\ pc' \in [Thread -> Label] /\ cv' \in [Thread -> Cond \cup {NULL}]
          /\ waiters' \in [Sem -> Seq(Thread)]
      BY <2>2, <1>a, Zenon DEF Label
    <3>2. value' \in [Sem -> Nat]
      <4>1. value \in [Sem -> Nat] /\ value' = [value EXCEPT ![current] = 0]
        BY <1>7, <1>a, Zenon DEF CondWait, TypeOK
      <4> QED BY <4>1, Zenon
    <3>3. cond_waiters' \in [Cond -> Seq(Thread)]
      <4>1. cond_waiters[c] \in Seq(Thread)
        BY <1>a, Zenon
      <4>2. Append(cond_waiters[c], current) \in Seq(Thread)
        BY <4>1, <1>a
      <4> QED BY <4>2, <1>7, <1>a, Zenon DEF CondWait
    <3>4. UNCHANGED <<switchVars, all_list, idle_thread, child, reg, next_tid,
                      tid, holder, obj>>
      BY <1>7, Zenon DEF CondWait, keepCreate
    <3> QED BY <3>1, <3>2, <3>3, <3>4, <1>a, Zenon DEF TypeOK, ThreadsTypeOK, switchVars
  <2>4. LocalOK(current)'
    BY <2>2, <1>a, <1>c, Zenon DEF LocalOK, InCreate, InCond, switchVars
  <2> QED BY <2>2, <2>3, <2>4, <1>b, LocalStepInv, Zenon DEF IdleLabel
<1>8. ASSUME NEW c \in Cond, CondSignal(c) PROVE Inv'
  <2> DEFINE o == Head(cond_waiters[c])
  <2>1. /\ o \in Thread /\ o \in Sem
        /\ Tail(cond_waiters[c]) \in Seq(Thread)
    BY <1>8, <1>a, TailQueue, Zenon DEF CondSignal, pop_waiter, Sem
  <2>2. /\ pc' = [pc EXCEPT ![current] = "signal_up"]
        /\ obj' = [obj EXCEPT ![current] = o]
        /\ cv' = [cv EXCEPT ![current] = cv[current]]
        /\ cond_waiters' = [cond_waiters EXCEPT ![c] = Tail(@)]
        /\ UNCHANGED <<switchVars, waiters, idle_thread, child>>
    BY <1>8, <1>a, Zenon DEF CondSignal, pop_waiter, Goto, keepCreate
  <2> HIDE DEF o
  <2>3. TypeOK'
    <3>1. /\ pc' \in [Thread -> Label] /\ obj' \in [Thread -> Sem \cup {NULL}]
          /\ cond_waiters' \in [Cond -> Seq(Thread)]
      BY <2>1, <2>2, <1>a, Zenon DEF Label
    <3> QED BY <3>1, <1>8, <1>a, Zenon
            DEF TypeOK, ThreadsTypeOK, CondSignal, switchVars, keepCreate
  <2>4. LocalOK(current)'
    BY <2>1, <2>2, <1>a, <1>c, Zenon DEF LocalOK, InCreate, InCond, switchVars
  <2> QED BY <2>2, <2>3, <2>4, <1>b, LocalStepInv, Zenon DEF IdleLabel
<1>9. ASSUME NEW c \in Cond, CondBroadcast(c) PROVE Inv'
  <2>1. /\ pc' = [pc EXCEPT ![current] = "broadcast"]
        /\ obj' = [obj EXCEPT ![current] = obj[current]]
        /\ cv' = [cv EXCEPT ![current] = c]
        /\ UNCHANGED <<switchVars, waiters, idle_thread, child>>
    BY <1>9, <1>a, Zenon DEF CondBroadcast, Goto, keepCreate
  <2>2. TypeOK'
    <3>1. /\ pc' \in [Thread -> Label] /\ cv' \in [Thread -> Cond \cup {NULL}]
      BY <2>1, <1>a, Zenon DEF Label
    <3> QED BY <3>1, <1>9, <1>a, Zenon
            DEF TypeOK, ThreadsTypeOK, CondBroadcast, switchVars, keepCreate
  <2>3. LocalOK(current)'
    BY <2>1, <1>a, <1>c, Zenon DEF LocalOK, InCreate, InCond, switchVars
  <2> QED BY <2>1, <2>2, <2>3, <1>b, LocalStepInv, Zenon DEF IdleLabel
<1>10. ASSUME NEW n \in Thread, ThreadCreate(n) PROVE Inv'
  BY <1>10, ThreadCreateInv, Zenon
<1>11. ASSUME ThreadYield PROVE Inv'
  <2>1. pc' = [pc EXCEPT ![current] = pc[current]]
    BY <1>11, <1>a, Zenon DEF ThreadYield
  <2> QED BY <2>1, <1>11, <1>b, YieldInv, Zenon DEF ThreadYield
<1>12. ASSUME ThreadExit PROVE Inv'
  <2>1. /\ pc' = [pc EXCEPT ![current] = "run"]
        /\ schedule(ready_list, [status EXCEPT ![current] = "DYING"])
        /\ all_list' \in SUBSET Thread
        /\ UNCHANGED <<idle_thread, child, reg, next_tid, tid,
                       value, waiters, holder, cond_waiters, obj, cv>>
    BY <1>12, <1>a, <1>b, Zenon
       DEF ThreadExit, thread_exit, localVars, tidVars, TypeOK, ThreadsTypeOK
  <2> QED BY <2>1, <1>b, LeaveInv, Zenon
<1> QED BY <1>1, <1>2, <1>3, <1>4, <1>5, <1>6, <1>7, <1>8, <1>9, <1>10, <1>11, Zenon,
           <1>12 DEF Call

\* What the kernel does to finish a call.
LEMMA ContinueInv == Inv /\ Continue => Inv'
<1> SUFFICES ASSUME Inv, Continue PROVE Inv'
  BY Zenon
<1>a. /\ TypeOK /\ current \in Thread /\ status[current] = "RUNNING"
      /\ pc \in [Thread -> Label] /\ obj \in [Thread -> Sem \cup {NULL}]
      /\ cv \in [Thread -> Cond \cup {NULL}]
      /\ holder \in [Lock -> Thread \cup {NULL}]
      /\ cond_waiters \in [Cond -> Seq(Thread)]
      /\ waiters \in [Sem -> Seq(Thread)]
      /\ reg \in [Thread -> Nat]
  BY Zenon DEF Inv, TypeOK, ThreadsTypeOK, ListMembership, OneRunning
<1>c. LocalOK(current)
  BY <1>a, Zenon DEF Inv, LocalInv
<1>d. /\ \A l \in Lock : l \in Sem /\ l \notin Thread /\ l # NULL
      /\ \A c \in Cond : CondLock[c] \in Lock /\ CondLock[c] # tid_lock
      /\ tid_lock \in Lock
      /\ \A t \in Thread : t \in Sem /\ t # NULL /\ t \notin Lock
      /\ NULL \notin Cond
  BY SynchAssumption, ThreadAssumption, Zenon DEF Sem
<1>1. ASSUME Boot PROVE Inv'
  BY <1>1, BootInv, Zenon
<1>2. ASSUME StartDown PROVE Inv'
  <2>1. pc[current] = "start_down" /\ child[current] = NULL /\ cv[current] = NULL
    BY <1>2, <1>c, Zenon DEF StartDown, At, LocalOK, InCreate, InCond
  <2> QED BY <2>1, <1>2, <1>a, <1>d, SemaDownInv, Zenon DEF StartDown, IdleLabel
<1>3. ASSUME IdleInit PROVE Inv'
  BY <1>3, IdleInitInv, Zenon
<1>4. ASSUME IdleUp PROVE Inv'
  <2>1. /\ pc[current] = "idle_up"
        /\ pc' = [pc EXCEPT ![current] = "idle_loop"]
        /\ obj' = [obj EXCEPT ![current] = obj[current]]
        /\ obj[current] \in Sem \cup {NULL}
        /\ initial_thread \in Sem
        /\ sema_up(initial_thread) /\ keepCreate
        /\ UNCHANGED <<holder, cond_waiters, cv>>
    BY <1>4, <1>a, <1>d, ThreadAssumption, Zenon DEF IdleUp, At, Goto
  <2>2. LocalOK(current)'
    <3>1. current' = current /\ child' = child /\ cv' = cv
      BY <2>1, Zenon DEF sema_up, keepCreate
    <3>2. status'[current] \notin {"FREE", "DYING"}
      <4>1. \A t \in Thread : status'[t] = status[t] \/ status'[t] = "READY"
        BY <2>1, <1>a, Zenon DEF sema_up, thread_unblock, TypeOK, ThreadsTypeOK
      <4> QED BY <4>1, <1>a, Zenon
    <3> QED BY <3>1, <3>2, <2>1, <1>a, <1>c, Zenon DEF LocalOK, InCreate, InCond
  <2> QED BY <2>1, <2>2, SemaUpInv, Zenon DEF IdleLabel, Label
<1>5. ASSUME IdleBlock PROVE Inv'
  <2>1. /\ pc[current] \in IdleLabel
        /\ pc' = [pc EXCEPT ![current] = "hlt"]
        /\ schedule(ready_list, [status EXCEPT ![current] = "BLOCKED"])
        /\ all_list' \in SUBSET Thread
        /\ UNCHANGED <<idle_thread, child, reg, next_tid, tid,
                       value, waiters, holder, cond_waiters, obj, cv>>
    BY <1>5, <1>a, Zenon DEF IdleBlock, At, Goto, thread_block, keepCreate, IdleLabel,
                      TypeOK, ThreadsTypeOK
  <2> QED BY <2>1, LeaveInv, Zenon
<1>6. ASSUME Resume PROVE Inv'
  <2>1. /\ pc[current] = "down" /\ obj[current] \in Sem
        /\ obj[current] \in Thread => obj[current] = current
        /\ child[current] # NULL <=> obj[current] = tid_lock
        /\ cv[current] # NULL =>
             obj[current] \in (Lock \ {tid_lock}) \cup {current}
    BY <1>6, <1>c, Zenon DEF Resume, At, LocalOK, InCreate, InCond
  <2>2. /\ sema_down(obj[current]) /\ keepCreate
        /\ UNCHANGED <<holder, cond_waiters, cv>>
    BY <1>6, Zenon DEF Resume
  <2> DEFINE s == obj[current]
  <2>3. s \in Sem /\ (s \in Thread => s = current) /\ sema_down(s)
        /\ (child[current] # NULL <=> s = tid_lock)
        /\ (cv[current] # NULL => s \in (Lock \ {tid_lock}) \cup {current})
    BY <2>1, <2>2, Zenon
  <2> HIDE DEF s
  <2> QED BY <2>1, <2>2, <2>3, SemaDownInv, Zenon DEF IdleLabel
<1>7. ASSUME SetHolder PROVE Inv'
  <2> DEFINE l == obj[current]
             label == IF l = tid_lock THEN "tid_read" ELSE "run"
  <2>1. /\ pc[current] = "set_holder" /\ l \in Lock
        /\ child[current] # NULL <=> l = tid_lock
    BY <1>7, <1>c, Zenon DEF SetHolder, At, LocalOK, InCreate, InCond
  <2>2. /\ pc' = [pc EXCEPT ![current] = label]
        /\ obj' = [obj EXCEPT ![current] = NULL]
        /\ cv' = [cv EXCEPT ![current] = NULL]
        /\ holder' = [holder EXCEPT ![l] = current]
        /\ UNCHANGED <<switchVars, waiters, idle_thread, child>>
    BY <1>7, Zenon DEF SetHolder, Goto, keepCreate
  <2>3. /\ label = "tid_read" <=> l = tid_lock
        /\ label \in {"tid_read", "run"}
    BY Zenon
  <2> HIDE DEF l, label
  <2>4. TypeOK'
    <3>1. /\ pc' \in [Thread -> Label] /\ obj' \in [Thread -> Sem \cup {NULL}]
          /\ cv' \in [Thread -> Cond \cup {NULL}]
          /\ holder' \in [Lock -> Thread \cup {NULL}]
      BY <2>1, <2>2, <2>3, <1>a, Zenon DEF Label
    <3> QED BY <3>1, <1>7, <1>a, Zenon
            DEF TypeOK, ThreadsTypeOK, SetHolder, switchVars, keepCreate
  <2>5. LocalOK(current)'
    BY <2>1, <2>2, <2>3, <1>a, Zenon DEF LocalOK, InCreate, InCond, switchVars
  <2> QED BY <2>1, <2>2, <2>3, <2>4, <2>5, LocalStepInv, Zenon DEF IdleLabel
<1>8. ASSUME ReleaseUp PROVE Inv'
  <2> DEFINE s == obj[current]
             label == AfterRelease
  <2>1. pc[current] = "release_up" /\ s \in Sem
    BY <1>8, <1>c, <1>d, Zenon DEF ReleaseUp, At, LocalOK
  <2>2. /\ sema_up(s) /\ keepCreate /\ UNCHANGED <<holder, cond_waiters, cv>>
        /\ pc' = [pc EXCEPT ![current] = label]
        /\ obj' = [obj EXCEPT ![current] = NULL]
    BY <1>8, Zenon DEF ReleaseUp, Goto
  <2>3. /\ label \in {"cond_down", "create_end", "run"}
        /\ label = "create_end" <=> child[current] # NULL
        /\ label = "cond_down" => cv[current] \in Cond
        /\ label \in {"run", "create_end"} => cv[current] = NULL
    <3>1. child[current] # NULL => cv[current] = NULL
      BY <2>1, <1>c, Zenon DEF LocalOK, InCreate, InCond
    <3> QED BY <3>1, <1>a, Zenon DEF AfterRelease
  <2> HIDE DEF s, label
  <2>4. LocalOK(current)'
    <3>1. current' = current /\ child' = child /\ cv' = cv
      BY <2>2, Zenon DEF sema_up, keepCreate
    <3>2. status'[current] \notin {"FREE", "DYING"}
      <4>1. \A t \in Thread : status'[t] = status[t] \/ status'[t] = "READY"
        BY <2>2, <1>a, Zenon DEF sema_up, thread_unblock, TypeOK, ThreadsTypeOK
      <4> QED BY <4>1, <1>a, Zenon
    <3> QED BY <3>1, <3>2, <2>2, <2>3, <1>a, Zenon DEF LocalOK, InCreate, InCond
  <2> QED BY <2>1, <2>2, <2>3, <2>4, SemaUpInv, Zenon DEF IdleLabel, Label
<1>9. ASSUME CondRelease PROVE Inv'
  <2> DEFINE l == CondLock[cv[current]]
  <2>1. /\ pc[current] = "cond_release" /\ l \in Lock /\ l # tid_lock
        /\ child[current] = NULL
    BY <1>9, <1>c, <1>d, Zenon DEF CondRelease, At, LocalOK, InCreate, InCond
  <2>2. /\ pc' = [pc EXCEPT ![current] = "release_up"]
        /\ obj' = [obj EXCEPT ![current] = l]
        /\ cv' = [cv EXCEPT ![current] = cv[current]]
        /\ holder' = [holder EXCEPT ![l] = NULL]
        /\ UNCHANGED <<switchVars, waiters, idle_thread, child>>
    BY <1>9, <1>a, Zenon DEF CondRelease, lock_release, Goto, keepCreate
  <2> HIDE DEF l
  <2>3. TypeOK'
    <3>1. /\ pc' \in [Thread -> Label] /\ obj' \in [Thread -> Sem \cup {NULL}]
          /\ holder' \in [Lock -> Thread \cup {NULL}]
      BY <2>1, <2>2, <1>a, <1>d, Zenon DEF Label
    <3> QED BY <3>1, <1>9, <1>a, Zenon
            DEF TypeOK, ThreadsTypeOK, CondRelease, lock_release, switchVars,
                keepCreate
  <2>4. LocalOK(current)'
    BY <2>1, <2>2, <1>a, Zenon DEF LocalOK, InCreate, InCond, switchVars
  <2> QED BY <2>1, <2>2, <2>3, <2>4, LocalStepInv, Zenon DEF IdleLabel
<1>10. ASSUME CondDown PROVE Inv'
  <2>1. pc[current] = "cond_down" /\ child[current] = NULL
    BY <1>10, <1>c, Zenon DEF CondDown, At, LocalOK, InCreate, InCond
  <2> QED BY <2>1, <1>10, <1>a, <1>d, SemaDownInv, Zenon DEF CondDown, IdleLabel
<1>11. ASSUME CondReacquire PROVE Inv'
  <2> DEFINE l == CondLock[cv[current]]
  <2>1. /\ pc[current] = "reacquire" /\ l \in Lock /\ l # tid_lock
        /\ l \in Sem /\ l \notin Thread
        /\ child[current] = NULL
    BY <1>11, <1>c, <1>d, Zenon DEF CondReacquire, At, LocalOK, InCreate, InCond
  <2>2. sema_down(l) /\ keepCreate /\ UNCHANGED <<holder, cond_waiters, cv>>
    BY <1>11, Zenon DEF CondReacquire
  <2> HIDE DEF l
  <2> QED BY <2>1, <2>2, SemaDownInv, Zenon DEF IdleLabel
<1>12. ASSUME BroadcastLoop PROVE Inv'
  <2> DEFINE c == cv[current]
  <2>1. pc[current] = "broadcast" /\ c \in Cond /\ child[current] = NULL
    BY <1>12, <1>c, Zenon DEF BroadcastLoop, At, LocalOK, InCreate, InCond
  <2>2. UNCHANGED <<switchVars, waiters, idle_thread, child>>
    BY <1>12, Zenon DEF BroadcastLoop, keepCreate
  <2>3. CASE pop_waiter(c) /\ UNCHANGED cv
    <3> DEFINE o == Head(cond_waiters[c])
    <3>1. /\ o \in Thread /\ o \in Sem
          /\ Tail(cond_waiters[c]) \in Seq(Thread)
      BY <2>1, <2>3, <1>a, TailQueue, Zenon DEF pop_waiter, Sem
    <3>2. /\ pc' = [pc EXCEPT ![current] = "signal_up"]
          /\ obj' = [obj EXCEPT ![current] = o]
          /\ cv' = [cv EXCEPT ![current] = cv[current]]
          /\ cond_waiters' = [cond_waiters EXCEPT ![c] = Tail(@)]
      BY <2>3, <1>a, Zenon DEF pop_waiter, Goto
    <3> HIDE DEF o
    <3>3. TypeOK'
      <4>1. /\ pc' \in [Thread -> Label]
            /\ obj' \in [Thread -> Sem \cup {NULL}]
            /\ cond_waiters' \in [Cond -> Seq(Thread)]
        BY <3>1, <3>2, <2>1, <1>a, Zenon DEF Label
      <4> QED BY <4>1, <3>2, <1>12, <1>a, Zenon
              DEF TypeOK, ThreadsTypeOK, BroadcastLoop, switchVars, keepCreate
    <3>4. LocalOK(current)'
      BY <3>1, <3>2, <2>1, <2>2, <1>a, Zenon DEF LocalOK, InCreate, InCond, switchVars
    <3> QED BY <3>2, <3>3, <3>4, <2>1, <2>2, LocalStepInv, Zenon DEF IdleLabel
  <2>4. CASE /\ Goto("run") /\ cv' = [cv EXCEPT ![current] = NULL]
             /\ UNCHANGED <<cond_waiters, obj>>
    <3>1. /\ pc' = [pc EXCEPT ![current] = "run"]
          /\ obj' = [obj EXCEPT ![current] = obj[current]]
      BY <2>4, <1>a, Zenon DEF Goto
    <3>2. TypeOK'
      <4>1. /\ pc' \in [Thread -> Label]
            /\ cv' \in [Thread -> Cond \cup {NULL}]
        BY <3>1, <2>4, <1>a, Zenon DEF Label
      <4> QED BY <4>1, <2>4, <1>12, <1>a, Zenon
              DEF TypeOK, ThreadsTypeOK, BroadcastLoop, switchVars, keepCreate
    <3>3. LocalOK(current)'
      BY <3>1, <2>1, <2>2, <2>4, <1>a, Zenon DEF LocalOK, InCreate, InCond, switchVars
    <3> QED BY <3>1, <3>2, <3>3, <2>1, <2>2, <2>4, LocalStepInv, Zenon DEF IdleLabel
  <2> QED BY <2>3, <2>4, <1>12, Zenon DEF BroadcastLoop
<1>13. ASSUME SignalUp PROVE Inv'
  <2> DEFINE s == obj[current]
             label == IF cv[current] # NULL THEN "broadcast" ELSE "run"
  <2>1. pc[current] = "signal_up" /\ s \in Sem /\ child[current] = NULL
    BY <1>13, <1>c, <1>d, Zenon DEF SignalUp, At, LocalOK, InCreate
  <2>2. /\ sema_up(s) /\ keepCreate /\ UNCHANGED <<holder, cond_waiters, cv>>
        /\ pc' = [pc EXCEPT ![current] = label]
        /\ obj' = [obj EXCEPT ![current] = NULL]
    BY <1>13, Zenon DEF SignalUp, Goto
  <2>3. /\ label \in {"broadcast", "run"}
        /\ label = "broadcast" => cv[current] \in Cond
        /\ label = "run" => cv[current] = NULL
    BY <1>a, Zenon
  <2> HIDE DEF s, label
  <2>4. LocalOK(current)'
    <3>1. current' = current /\ child' = child /\ cv' = cv
      BY <2>2, Zenon DEF sema_up, keepCreate
    <3>2. status'[current] \notin {"FREE", "DYING"}
      <4>1. \A t \in Thread : status'[t] = status[t] \/ status'[t] = "READY"
        BY <2>2, <1>a, Zenon DEF sema_up, thread_unblock, TypeOK, ThreadsTypeOK
      <4> QED BY <4>1, <1>a, Zenon
    <3> QED BY <3>1, <3>2, <2>1, <2>2, <2>3, <1>a, Zenon DEF LocalOK, InCreate, InCond
  <2> QED BY <2>1, <2>2, <2>3, <2>4, SemaUpInv, Zenon DEF IdleLabel, Label
<1>14. ASSUME TidAcquire PROVE Inv'
  <2>1. pc[current] = "tid_acquire" /\ child[current] # NULL /\ cv[current] = NULL
    BY <1>14, <1>c, Zenon DEF TidAcquire, At, LocalOK, InCreate, InCond
  <2> QED BY <2>1, <1>14, <1>a, <1>d, SemaDownInv, Zenon DEF TidAcquire, IdleLabel
<1>15. ASSUME TidRead PROVE Inv'
  <2>1. pc[current] = "tid_read" /\ child[current] # NULL /\ cv[current] = NULL
    BY <1>15, <1>c, Zenon DEF TidRead, At, LocalOK, InCreate, InCond
  <2>2. /\ pc' = [pc EXCEPT ![current] = "tid_write"]
        /\ obj' = [obj EXCEPT ![current] = obj[current]]
        /\ cv' = [cv EXCEPT ![current] = cv[current]]
        /\ UNCHANGED <<switchVars, waiters, idle_thread, child>>
    BY <1>15, <1>a, Zenon DEF TidRead, Goto
  <2>3. TypeOK'
    <3>1. pc' \in [Thread -> Label] /\ reg' \in [Thread -> Nat]
      BY <2>2, <1>15, <1>a, Zenon DEF Label, TidRead, TypeOK
    <3> QED BY <3>1, <1>15, <1>a, Zenon
            DEF TypeOK, ThreadsTypeOK, TidRead, switchVars, tidVars
  <2>4. LocalOK(current)'
    BY <2>1, <2>2, <1>a, Zenon DEF LocalOK, InCreate, InCond, switchVars
  <2> QED BY <2>1, <2>2, <2>3, <2>4, LocalStepInv, Zenon DEF IdleLabel
<1>16. ASSUME TidWrite PROVE Inv'
  <2>1. pc[current] = "tid_write" /\ child[current] # NULL /\ cv[current] = NULL
    BY <1>16, <1>c, Zenon DEF TidWrite, At, LocalOK, InCreate, InCond
  <2>2. /\ pc' = [pc EXCEPT ![current] = "tid_release"]
        /\ obj' = [obj EXCEPT ![current] = obj[current]]
        /\ cv' = [cv EXCEPT ![current] = cv[current]]
        /\ UNCHANGED <<switchVars, waiters, idle_thread, child>>
    BY <1>16, <1>a, Zenon DEF TidWrite, Goto
  <2>3. TypeOK'
    <3>1. pc' \in [Thread -> Label] /\ next_tid' \in Nat
      <4>1. pc' \in [Thread -> Label]
        BY <2>2, <1>a, Zenon DEF Label
      <4>2. next_tid' = reg[current] + 1 /\ reg[current] \in Nat
        BY <1>16, <1>a, Zenon DEF TidWrite, TypeOK
      <4> QED BY <4>1, <4>2
    <3> QED BY <3>1, <1>16, <1>a, Zenon
            DEF TypeOK, ThreadsTypeOK, TidWrite, switchVars, tidVars
  <2>4. LocalOK(current)'
    BY <2>1, <2>2, <1>a, Zenon DEF LocalOK, InCreate, InCond, switchVars
  <2> QED BY <2>1, <2>2, <2>3, <2>4, LocalStepInv, Zenon DEF IdleLabel
<1>17. ASSUME TidRelease PROVE Inv'
  <2>1. pc[current] = "tid_release" /\ child[current] # NULL /\ cv[current] = NULL
    BY <1>17, <1>c, Zenon DEF TidRelease, At, LocalOK, InCreate, InCond
  <2>2. /\ pc' = [pc EXCEPT ![current] = "release_up"]
        /\ obj' = [obj EXCEPT ![current] = tid_lock]
        /\ cv' = [cv EXCEPT ![current] = cv[current]]
        /\ holder' = [holder EXCEPT ![tid_lock] = NULL]
        /\ UNCHANGED <<switchVars, waiters, idle_thread, child>>
    BY <1>17, <1>a, Zenon DEF TidRelease, lock_release, Goto, keepCreate
  <2>3. TypeOK'
    <3>1. /\ pc' \in [Thread -> Label] /\ obj' \in [Thread -> Sem \cup {NULL}]
          /\ holder' \in [Lock -> Thread \cup {NULL}]
      BY <2>2, <1>a, <1>d, Zenon DEF Label
    <3> QED BY <3>1, <1>17, <1>a, Zenon
            DEF TypeOK, ThreadsTypeOK, TidRelease, lock_release, switchVars,
                keepCreate
  <2>4. LocalOK(current)'
    BY <2>1, <2>2, <1>a, <1>d, Zenon DEF LocalOK, InCreate, InCond, switchVars
  <2> QED BY <2>1, <2>2, <2>3, <2>4, LocalStepInv, Zenon DEF IdleLabel
<1>18. ASSUME CreateUnblock \/ CreateFail PROVE Inv'
  BY <1>18, CreateEndInv, Zenon
<1> QED BY <1>1, <1>2, <1>3, <1>4, <1>5, <1>6, <1>7, <1>8, <1>9, <1>10, <1>11, Zenon,
           <1>12, <1>13, <1>14, <1>15, <1>16, <1>17, <1>18 DEF Continue

\* Interrupts.
LEMMA InterruptInv == Inv /\ Interrupt => Inv'
<1> SUFFICES ASSUME Inv, Interrupt PROVE Inv'
  BY Zenon
<1> DEFINE label == IF pc[current] = "hlt" THEN "idle_loop" ELSE pc[current]
<1>a. /\ TypeOK /\ current \in Thread /\ status[current] = "RUNNING"
      /\ pc \in [Thread -> Label] /\ obj \in [Thread -> Sem \cup {NULL}]
  BY Zenon DEF Inv, TypeOK, ThreadsTypeOK, ListMembership, OneRunning
<1>b. /\ pc[current] # "boot" /\ pc[current] # "down"
      /\ pc' = [pc EXCEPT ![current] = label]
  BY <1>a, Zenon DEF Interrupt, TimerInterrupt, DeviceInterrupt, intr_on, EndHlt, At, Goto
<1>c. /\ label = pc[current] \/ (pc[current] = "hlt" /\ label = "idle_loop")
      /\ label \in Label
  BY <1>a, Zenon DEF Label
<1>d. LocalOK(current)
  BY <1>a, Zenon DEF Inv, LocalInv
<1> HIDE DEF label
<1>1. ASSUME TimerInterrupt PROVE Inv'
  <2>1. keepCreate /\ UNCHANGED <<value, waiters, holder, cond_waiters, obj, cv>>
    BY <1>1, Zenon DEF TimerInterrupt
  <2>2. CASE thread_yield
    BY <2>1, <2>2, <1>b, <1>c, YieldInv, Zenon
  <2>3. CASE /\ thread_ticks + 1 < TIME_SLICE /\ thread_ticks' = thread_ticks + 1
             /\ UNCHANGED <<status, ready_list, current>>
    <3>1. TypeOK'
      <4>1. thread_ticks' \in 0 .. (TIME_SLICE - 1)
        <5>1. thread_ticks \in 0 .. (TIME_SLICE - 1)
          BY <1>a, Zenon DEF TypeOK, ThreadsTypeOK
        <5>2. TIME_SLICE \in Nat /\ thread_ticks \in Nat
          BY <5>1, ThreadAssumption
        <5> QED BY <5>2, <2>3
      <4>2. pc' \in [Thread -> Label]
        BY <1>a, <1>b, <1>c, Zenon
      <4> QED BY <4>1, <4>2, <2>1, <2>3, <1>a, Zenon DEF TypeOK, ThreadsTypeOK, keepCreate
    <3>2. /\ \A t \in Thread : \/ pc'[t] = pc[t]
                               \/ pc[t] = "hlt" /\ pc'[t] = "idle_loop"
          /\ status' = status /\ ready_list' = ready_list /\ current' = current
          /\ waiters' = waiters /\ obj' = obj /\ cv' = cv /\ child' = child
          /\ idle_thread' = idle_thread
      BY <2>1, <2>3, <1>a, <1>b, <1>c, Zenon DEF keepCreate
    <3>3. LocalInv'
      <4>1. ASSUME NEW t \in Thread PROVE LocalOK(t)'
        <5>1. LocalOK(t)
          BY Zenon DEF Inv, LocalInv
        <5>2. CASE pc'[t] = pc[t]
          BY <5>1, <5>2, <3>2, Zenon DEF LocalOK, InCreate, InCond
        <5>3. CASE pc[t] = "hlt" /\ pc'[t] = "idle_loop"
          BY <5>1, <5>3, <3>2, Zenon DEF LocalOK, InCreate, InCond
        <5> QED BY <5>2, <5>3, <3>2, Zenon
      <4> QED BY <4>1, Zenon DEF LocalInv
    <3>4. ChildInv'
      <4>1. \A t \in Thread : child[t] # NULL => child[t] \in Thread
        BY <1>a, Zenon DEF TypeOK
      <4> QED BY <4>1, <3>2, ZenonT(60) DEF Inv, ChildInv
    <3>5. SomebodyRuns'
      BY <3>2, <1>a, <1>b, Zenon DEF Inv, SomebodyRuns
    <3>6. IdleInv'
      BY <3>2 DEF Inv, IdleInv, IdleNeverQueued, IdleLabel
    <3>7. OneRunning' /\ ReadyListed'
      BY <3>2, Zenon DEF Inv, ListMembership, OneRunning, ReadyListed
    <3>8. WaitersListed'
      <4>1. \A s \in Sem : \A t \in Range(waiters[s]) : t \in Thread
        BY <1>a, QueueRange, Zenon DEF TypeOK
      <4>2. WaitersListed
        BY Zenon DEF Inv, ListMembership
      <4>3. /\ \A s \in Sem : \A t \in Range(waiters[s]) :
                 status'[t] = "BLOCKED" /\ pc'[t] = "down"
            /\ \A t \in Thread : pc'[t] = "down" => pc[t] = "down"
        <5>1. \A s \in Sem : \A t \in Range(waiters[s]) :
                status[t] = "BLOCKED" /\ pc[t] = "down"
          BY <4>2, Zenon DEF WaitersListed
        <5>2. \A t \in Thread : pc'[t] = "down" <=> pc[t] = "down"
          BY <3>2, Zenon
        <5> QED BY Zenon, <5>1, <5>2, <4>1, <3>2
      <4> QED BY <4>2, <4>3, <3>2, FrameWaiters, Zenon
    <3> QED BY <3>1, <3>3, <3>4, <3>5, <3>6, <3>7, <3>8, Zenon DEF Inv, ListMembership
  <2> QED BY <2>2, <2>3, <1>1, <1>a, ThreadAssumption
          DEF TimerInterrupt, thread_tick, TypeOK, ThreadsTypeOK
<1>2. ASSUME NEW s \in Sema, DeviceInterrupt(s) PROVE Inv'
  <2>1. /\ sema_up(s) /\ keepCreate
        /\ UNCHANGED <<holder, cond_waiters, cv>>
        /\ obj' = [obj EXCEPT ![current] = obj[current]]
        /\ obj[current] \in Sem \cup {NULL} /\ s \in Sem
    BY <1>2, <1>a, Zenon DEF DeviceInterrupt, Sem
  <2>2. LocalOK(current)'
    <3>1. current' = current /\ child' = child /\ cv' = cv /\ obj' = obj
      BY <2>1, <1>a, Zenon DEF sema_up, keepCreate
    <3>2. status'[current] \notin {"FREE", "DYING"}
      <4>1. \A t \in Thread : status'[t] = status[t] \/ status'[t] = "READY"
        BY <2>1, <1>a, Zenon DEF sema_up, thread_unblock, TypeOK, ThreadsTypeOK
      <4> QED BY <4>1, <1>a, Zenon
    <3> QED BY <3>1, <3>2, <1>a, <1>b, <1>c, <1>d, Zenon DEF LocalOK, InCreate, InCond
  <2> QED BY <2>1, <2>2, <1>b, <1>c, SemaUpInv, Zenon DEF IdleLabel
<1> QED BY <1>1, <1>2, Zenon DEF Interrupt

\* Every step preserves the invariant.
LEMMA NextInv == Inv /\ [Next]_vars => Inv'
<1> SUFFICES ASSUME Inv, [Next]_vars PROVE Inv'
  BY Zenon
<1>1. CASE Next
  BY <1>1, CallInv, ContinueInv, InterruptInv, Zenon DEF Next
<1>2. CASE UNCHANGED vars
  <2> USE <1>2 DEF vars
  <2>1. TypeOK'
    BY Zenon DEF Inv, TypeOK, ThreadsTypeOK
  <2>2. LocalInv'
    BY Zenon DEF Inv, LocalInv, LocalOK, InCreate, InCond
  <2>3. ChildInv' /\ SomebodyRuns'
    BY Zenon DEF Inv, ChildInv, SomebodyRuns
  <2>4. IdleInv'
    BY Zenon DEF Inv, IdleInv, IdleNeverQueued
  <2>5. ListMembership'
    BY ZenonT(60) DEF Inv, ListMembership, OneRunning, ReadyListed, WaitersListed
  <2> QED BY <2>1, <2>2, <2>3, <2>4, <2>5, Zenon DEF Inv
<1> QED BY <1>1, <1>2, Zenon

\* The inductive invariant holds in every reachable state.
THEOREM InvHolds == Spec => []Inv
BY InitInv, NextInv, PTL DEF Spec

\* Type correctness; in particular there is always a thread on the CPU,
\* next_thread_to_run() never returns NULL (the ASSERT of schedule()).
THEOREM TypeCorrect == Spec => []TypeOK
<1>1. Inv => TypeOK
  BY Zenon DEF Inv
<1> QED BY <1>1, InvHolds, PTL

-----------------------------------------------------------------------------
(* The list of all threads.                                                *)

\* What is linked in all_list is alive, unless thread_create() can fail late.
AllInv == ~USERPROG => \A t \in all_list : status[t] \notin {"FREE", "DYING"}

\* A step that kills nobody and links nobody.
LEMMA FrameAll ==
  ASSUME TypeOK, AllInv, all_list' = all_list,
         \A t \in Thread : status'[t] \in {status[t], "RUNNING", "READY", "BLOCKED"}
  PROVE  AllInv'
BY Zenon DEF AllInv, TypeOK, ThreadsTypeOK

\* schedule() in a thread that goes on living.
LEMMA ScheduleAll ==
  ASSUME TypeOK, NEW queue, NEW x \in {"READY", "BLOCKED"},
         schedule(queue, [status EXCEPT ![current] = x])
  PROVE  \A t \in Thread : status'[t] \in {status[t], "RUNNING", "READY", "BLOCKED"}
<1> DEFINE st == [status EXCEPT ![current] = x]
           next == next_thread_to_run(queue)
<1>1. /\ status \in [Thread -> Status] /\ current \in Thread
  BY Zenon DEF TypeOK, ThreadsTypeOK
<1>2. reap(st) = st
  BY <1>1, Zenon DEF reap
<1>3. status' = [st EXCEPT ![next] = "RUNNING"]
  BY <1>2, Zenon DEF schedule
<1> QED BY <1>1, <1>3, Zenon

\* sema_down() and sema_up().
LEMMA SemaAll ==
  ASSUME TypeOK, NEW s, sema_down(s) \/ sema_up(s)
  PROVE  \A t \in Thread : status'[t] \in {status[t], "RUNNING", "READY", "BLOCKED"}
<1>1. CASE sema_down(s)
  <2>1. CASE thread_block
    BY <2>1, ScheduleAll, Zenon DEF thread_block
  <2>2. CASE status' = status
    BY <2>2, Zenon
  <2> QED BY <1>1, <2>1, <2>2, Zenon DEF sema_down
<1>2. CASE sema_up(s)
  BY <1>2, Zenon DEF sema_up, thread_unblock, TypeOK, ThreadsTypeOK
<1> QED BY <1>1, <1>2, Zenon

\* A call that a client makes.
LEMMA CallAll == Inv /\ AllInv /\ Call => AllInv'
<1> SUFFICES ASSUME Inv, AllInv, Call PROVE AllInv'
  BY Zenon
<1>a. /\ TypeOK /\ current \in Thread /\ all_list \in SUBSET Thread
      /\ status \in [Thread -> Status]
  BY Zenon DEF Inv, TypeOK, ThreadsTypeOK
<1>1. ASSUME NEW s \in Sema, SemaDown(s) \/ SemaUp(s) PROVE AllInv'
  BY <1>1, <1>a, FrameAll, SemaAll, Zenon DEF SemaDown, SemaUp, keepCreate
<1>2. ASSUME NEW l \in ClientLock, LockAcquire(l) PROVE AllInv'
  BY <1>2, <1>a, FrameAll, SemaAll, Zenon DEF LockAcquire, keepCreate
<1>3. ASSUME \/ \E s \in Sema : SemaTryDown(s)
             \/ \E l \in ClientLock : LockTryAcquire(l) \/ LockRelease(l)
             \/ \E c \in Cond : CondWait(c) \/ CondSignal(c) \/ CondBroadcast(c)
      PROVE  AllInv'
  <2>1. status' = status /\ all_list' = all_list
    BY <1>3, Zenon DEF SemaTryDown, LockTryAcquire, LockRelease, lock_release, CondWait,
                CondSignal, CondBroadcast, keepCreate, switchVars
  <2> QED BY <2>1, <1>a, FrameAll, Zenon
<1>4. ASSUME NEW n \in Thread, ThreadCreate(n) PROVE AllInv'
  <2>1. /\ status' = [status EXCEPT ![n] = "BLOCKED"]
        /\ all_list' = all_list \cup {n}
    BY <1>4, Zenon DEF ThreadCreate, init_thread
  <2> QED BY <2>1, <1>a, Zenon DEF AllInv
<1>5. ASSUME ThreadYield PROVE AllInv'
  <2>1. all_list' = all_list
    BY <1>5, Zenon DEF ThreadYield, keepCreate
  <2>2. PICK queue : schedule(queue, [status EXCEPT ![current] = "READY"])
    BY <1>5, Zenon DEF ThreadYield, thread_yield
  <2>3. \A t \in Thread : status'[t] \in {status[t], "RUNNING", "READY", "BLOCKED"}
    BY <2>2, <1>a, ScheduleAll, Zenon
  <2> QED BY <2>1, <2>3, <1>a, FrameAll, Zenon
<1>6. ASSUME ThreadExit PROVE AllInv'
  <2> DEFINE st == [status EXCEPT ![current] = "DYING"]
             next == next_thread_to_run(ready_list)
  <2>1. /\ all_list' = all_list \ {current}
        /\ status' = [reap(st) EXCEPT ![next] = "RUNNING"]
    BY <1>6, Zenon DEF ThreadExit, thread_exit, schedule
  <2>2. \A t \in Thread \ {current} : reap(st)[t] = status[t]
    BY <1>a, Zenon DEF reap
  <2>3. reap(st) \in [Thread -> Status]
    BY <1>a, Zenon DEF reap, Status
  <2> HIDE DEF next, st
  <2>4. \A t \in Thread \ {current} : status'[t] \in {status[t], "RUNNING"}
    BY <2>1, <2>2, <2>3, Zenon
  <2> QED BY <2>1, <2>4, <1>a, Zenon DEF AllInv
<1> QED BY <1>1, <1>2, <1>3, <1>4, <1>5, <1>6, Zenon DEF Call

\* A step that finishes a call, and an interrupt.
LEMMA ContinueAll == Inv /\ AllInv /\ (Continue \/ Interrupt) => AllInv'
<1> SUFFICES ASSUME Inv, AllInv, Continue \/ Interrupt PROVE AllInv'
  BY Zenon
<1>a. /\ TypeOK /\ current \in Thread /\ all_list \in SUBSET Thread
      /\ status \in [Thread -> Status]
  BY Zenon DEF Inv, TypeOK, ThreadsTypeOK
<1>1. ASSUME Boot PROVE AllInv'
  <2>1. PICK n \in Thread : /\ status' = [status EXCEPT ![n] = "READY"]
                            /\ all_list' = all_list \cup {n}
    BY <1>1, Zenon DEF Boot, init_thread, thread_unblock
  <2> QED BY <2>1, <1>a, Zenon DEF AllInv
<1>2. ASSUME NEW s, sema_down(s) \/ sema_up(s), keepCreate PROVE AllInv'
  BY <1>2, <1>a, FrameAll, SemaAll, Zenon DEF keepCreate
<1>3. ASSUME \/ StartDown \/ IdleUp \/ Resume \/ ReleaseUp \/ CondDown
             \/ CondReacquire \/ SignalUp \/ TidAcquire
             \/ \E s \in Sema : DeviceInterrupt(s)
      PROVE  AllInv'
  BY <1>2, <1>3, Zenon DEF StartDown, IdleUp, Resume, ReleaseUp, CondDown,
                    CondReacquire, SignalUp, TidAcquire, DeviceInterrupt
<1>4. ASSUME \/ IdleInit \/ SetHolder \/ CondRelease \/ BroadcastLoop
             \/ TidRead \/ TidWrite \/ TidRelease
      PROVE  AllInv'
  <2>1. status' = status /\ all_list' = all_list
    BY <1>4, Zenon DEF IdleInit, SetHolder, CondRelease, BroadcastLoop, TidRead,
                TidWrite, TidRelease, lock_release, keepCreate, switchVars
  <2> QED BY <2>1, <1>a, FrameAll, Zenon
<1>5. ASSUME IdleBlock PROVE AllInv'
  BY <1>5, <1>a, FrameAll, ScheduleAll, Zenon DEF IdleBlock, thread_block, keepCreate
<1>6. ASSUME CreateUnblock PROVE AllInv'
  <2>1. /\ status' = [status EXCEPT ![child[current]] = "READY"]
        /\ all_list' = all_list
    BY <1>6, Zenon DEF CreateUnblock, thread_unblock
  <2> QED BY <2>1, <1>a, FrameAll, Zenon
<1>7. ASSUME CreateFail PROVE AllInv'
  BY <1>7, Zenon DEF CreateFail, AllInv
<1>8. ASSUME TimerInterrupt PROVE AllInv'
  <2>1. all_list' = all_list /\ thread_tick
    BY <1>8, Zenon DEF TimerInterrupt, keepCreate
  <2>2. CASE status' = status
    BY <2>1, <2>2, <1>a, FrameAll, Zenon
  <2>3. CASE thread_yield
    <3>1. PICK queue : schedule(queue, [status EXCEPT ![current] = "READY"])
      BY <2>3, Zenon DEF thread_yield
    <3>2. \A t \in Thread : status'[t] \in {status[t], "RUNNING", "READY", "BLOCKED"}
      BY <3>1, <1>a, ScheduleAll, Zenon
    <3> QED BY <2>1, <3>2, <1>a, FrameAll, Zenon
  <2> QED BY <2>1, <2>2, <2>3, Zenon DEF thread_tick
<1> QED BY <1>1, <1>3, <1>4, <1>5, <1>6, <1>7, <1>8, Zenon DEF Continue, Interrupt

\* Every thread is on the list its status says and on no other, whatever the
\* interleaving of calls and interrupts; the idle thread is never queued once
\* it has announced itself; and all_list links live threads only, in the
\* builds in which thread_create() cannot fail after init_thread().
THEOREM ListsStaySound == Spec => []ListsSound
<1>1. Init => AllInv
  BY ThreadAssumption, Zenon DEF Init, AllInv
<1>2. Inv /\ AllInv /\ [Next]_vars => AllInv'
  <2> SUFFICES ASSUME Inv, AllInv, [Next]_vars PROVE AllInv'
    BY Zenon
  <2>1. CASE UNCHANGED vars
    BY <2>1, Zenon DEF vars, AllInv
  <2> QED BY <2>1, CallAll, ContinueAll, Zenon DEF Next
<1>3. Inv /\ AllInv => ListsSound
  BY Zenon DEF Inv, IdleInv, AllInv, ListsSound, AllListLive
<1> QED BY <1>1, <1>2, <1>3, InvHolds, PTL DEF Spec

=============================================================================
