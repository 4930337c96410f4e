----------------------------- MODULE LockProofs -----------------------------
(***************************************************************************)
(* Proofs that locks exclude (at most one thread has a lock between taking *)
(* its semaphore and giving it back, and the semaphore is at 0 exactly     *)
(* then), that allocate_tid() therefore hands out no identifier twice, and *)
(* that no unit of a semaphore is left while everybody sleeps, for any     *)
(* number of threads and locks.                                            *)
(***************************************************************************)
EXTENDS SynchProofs, FiniteSetTheorems

\* Labels at which a thread has a lock without being its holder.
HalfWay == {"set_holder", "release_up"}

\* A step that changes no lock, and in which every thread either keeps its
\* place or moves between places that have nothing to do with locks.
LEMMA FrameLock ==
  ASSUME LockInv,
         \A l \in Lock : value'[l] = value[l],
         holder' = holder,
         \A t \in Thread :
           \/ pc'[t] = pc[t] /\ obj'[t] = obj[t] /\ cv'[t] = cv[t]
           \/ pc[t] \notin HalfWay /\ pc'[t] \notin HalfWay /\ Holds(t)'
  PROVE  LockInv'
<1>1. ASSUME NEW t \in Thread, NEW l \in Lock
      PROVE  Owns(t, l)' <=> Owns(t, l)
  BY Zenon DEF Owns, HalfWay
<1>2. MutualExclusion'
  <2>1. ASSUME NEW l \in Lock
        PROVE  /\ \A t, u \in Thread : Owns(t, l)' /\ Owns(u, l)' => t = u
               /\ value'[l] = IF \E t \in Thread : Owns(t, l)' THEN 0 ELSE 1
    BY <1>1, Zenon DEF LockInv, MutualExclusion
  <2> QED BY <2>1, Zenon DEF MutualExclusion
<1>3. ASSUME NEW t \in Thread PROVE Holds(t)'
  BY DEF LockInv, Holds
<1> QED BY <1>2, <1>3, Zenon DEF LockInv

\* The running thread takes the semaphore of a lock.
LEMMA TakeLock ==
  ASSUME TypeOK, LockInv, NEW l \in Lock,
         value[l] > 0, value' = [value EXCEPT ![l] = @ - 1],
         pc[current] \notin HalfWay,
         pc' = [pc EXCEPT ![current] = "set_holder"],
         obj' = [obj EXCEPT ![current] = l],
         UNCHANGED <<holder, cv>>
  PROVE  LockInv'
<1>a. /\ current \in Thread /\ pc \in [Thread -> Label]
      /\ obj \in [Thread -> Sem \cup {NULL}] /\ value \in [Sem -> Nat]
      /\ Lock \subseteq Sem
  BY Zenon DEF TypeOK, ThreadsTypeOK, Sem
<1>b. /\ \A t \in Thread : ~Owns(t, l)
      /\ value[l] = 1
  BY <1>a DEF LockInv, MutualExclusion
<1>c. /\ pc'[current] = "set_holder" /\ obj'[current] = l
      /\ \A t \in Thread \ {current} : pc'[t] = pc[t] /\ obj'[t] = obj[t]
      /\ value'[l] = 0
      /\ \A m \in Lock \ {l} : value'[m] = value[m]
  BY <1>a, <1>b
<1>1. \A t \in Thread : Owns(t, l)' <=> t = current
  BY <1>b, <1>c, Zenon DEF Owns
<1>2. \A m \in Lock \ {l} : \A t \in Thread : Owns(t, m)' <=> Owns(t, m)
  BY <1>c, Zenon DEF Owns, HalfWay
<1>3. MutualExclusion'
  <2>1. ASSUME NEW m \in Lock
        PROVE  /\ \A t, u \in Thread : Owns(t, m)' /\ Owns(u, m)' => t = u
               /\ value'[m] = IF \E t \in Thread : Owns(t, m)' THEN 0 ELSE 1
    <3>1. CASE m = l
      BY <3>1, <1>1, <1>a, <1>c
    <3>2. CASE m # l
      BY <3>2, <1>2, <1>c, Zenon DEF LockInv, MutualExclusion
    <3> QED BY <3>1, <3>2, Zenon
  <2> QED BY <2>1, Zenon DEF MutualExclusion
<1>4. ASSUME NEW t \in Thread PROVE Holds(t)'
  BY <1>c DEF LockInv, Holds
<1> QED BY <1>3, <1>4, Zenon DEF LockInv

\* sema_down() on any semaphore.
LEMMA SemaDownLock ==
  ASSUME TypeOK, LockInv, NEW s \in Sem,
         pc[current] \notin HalfWay,
         sema_down(s), UNCHANGED <<holder, cv>>
  PROVE  LockInv'
<1>a. /\ current \in Thread /\ pc \in [Thread -> Label]
      /\ obj \in [Thread -> Sem \cup {NULL}] /\ value \in [Sem -> Nat]
      /\ Lock \subseteq Sem
  BY Zenon DEF TypeOK, ThreadsTypeOK, Sem
<1>1. CASE Goto("down") /\ obj' = [obj EXCEPT ![current] = s] /\ UNCHANGED value
  <2>1. /\ pc'[current] = "down"
        /\ \A t \in Thread \ {current} : pc'[t] = pc[t] /\ obj'[t] = obj[t]
    BY <1>1, <1>a, Zenon DEF Goto
  <2> QED BY <2>1, <1>1, FrameLock, Zenon DEF Holds, HalfWay
<1>2. CASE /\ value[s] > 0 /\ value' = [value EXCEPT ![s] = @ - 1]
           /\ Goto(AfterDown(s))
           /\ obj' = [obj EXCEPT ![current] = IF s \in Lock THEN s ELSE NULL]
  <2>1. CASE s \in Lock
    <3>1. AfterDown(s) = "set_holder"
      BY <2>1, SynchAssumption, Zenon DEF AfterDown
    <3> QED BY <3>1, <2>1, <1>2, TakeLock, Zenon DEF Goto
  <2>2. CASE s \notin Lock
    <3>1. AfterDown(s) \in {"reacquire", "run"}
      BY <2>2, Zenon DEF AfterDown
    <3>2. /\ pc'[current] \in {"reacquire", "run"}
          /\ \A t \in Thread \ {current} : pc'[t] = pc[t] /\ obj'[t] = obj[t]
          /\ \A l \in Lock : value'[l] = value[l]
      BY <3>1, <2>2, <1>2, <1>a, Zenon DEF Goto
    <3> QED BY <3>2, FrameLock, Zenon DEF Holds, HalfWay
  <2> QED BY <2>1, <2>2, Zenon
<1> QED BY <1>1, <1>2, Zenon DEF sema_down

\* The holder field follows the semaphore down ...
LEMMA SetHolderLock ==
  ASSUME Inv, LockInv, SetHolder
  PROVE  LockInv'
<1> DEFINE l == obj[current]
<1>a. /\ current \in Thread /\ pc \in [Thread -> Label]
      /\ obj \in [Thread -> Sem \cup {NULL}]
      /\ cv \in [Thread -> Cond \cup {NULL}]
      /\ holder \in [Lock -> Thread \cup {NULL}]
      /\ pc[current] = "set_holder" /\ l \in Lock
  BY Zenon DEF Inv, TypeOK, ThreadsTypeOK, SetHolder, At, LocalInv, LocalOK
<1>b. /\ holder' = [holder EXCEPT ![l] = current]
      /\ pc' = [pc EXCEPT ![current] = IF l = tid_lock THEN "tid_read" ELSE "run"]
      /\ obj' = [obj EXCEPT ![current] = NULL]
      /\ cv' = [cv EXCEPT ![current] = NULL]
      /\ value' = value
  BY Zenon DEF SetHolder, Goto
<1>c. Owns(current, l)
  BY <1>a, Zenon DEF Owns
<1> HIDE DEF l
<1>d. /\ pc'[current] \in {"tid_read", "run"}
      /\ pc'[current] = "tid_read" => l = tid_lock
      /\ holder'[l] = current
      /\ \A t \in Thread \ {current} :
           pc'[t] = pc[t] /\ obj'[t] = obj[t] /\ cv'[t] = cv[t]
      /\ \A m \in Lock \ {l} : holder'[m] = holder[m]
  BY <1>a, <1>b, Zenon
<1>e. \A t \in Thread : Owns(t, l) <=> t = current
  BY <1>a, <1>c, Zenon DEF LockInv, MutualExclusion
<1>f. l = obj[current]
  BY Zenon DEF l
<1>1. ASSUME NEW t \in Thread, NEW m \in Lock
      PROVE  Owns(t, m)' <=> Owns(t, m)
  <2>1. CASE m = l
    BY <2>1, <1>a, <1>d, <1>e, Zenon DEF Owns
  <2>2. CASE m # l
    BY <2>2, <1>a, <1>d, <1>f, Zenon DEF Owns
  <2> QED BY <2>1, <2>2, Zenon
<1>2. MutualExclusion'
  <2>1. ASSUME NEW m \in Lock
        PROVE  /\ \A t, u \in Thread : Owns(t, m)' /\ Owns(u, m)' => t = u
               /\ value'[m] = IF \E t \in Thread : Owns(t, m)' THEN 0 ELSE 1
    BY <1>1, <1>b, Zenon DEF LockInv, MutualExclusion
  <2> QED BY <2>1, Zenon DEF MutualExclusion
<1>3. ASSUME NEW t \in Thread PROVE Holds(t)'
  <2>1. CASE t = current
    BY <2>1, <1>d, Zenon DEF Holds
  <2>2. CASE t # current
    <3>1. Holds(t)
      BY Zenon DEF LockInv
    <3>2. holder[l] # t
      BY <2>2, <1>e, <1>a, Zenon DEF Owns
    <3>3. /\ pc[t] = "release_up" => obj[t] \in Lock
          /\ pc[t] = "cond_release" => CondLock[cv[t]] \in Lock
          /\ tid_lock \in Lock
      BY SynchAssumption, Zenon DEF Inv, LocalInv, LocalOK
    <3> QED BY <3>1, <3>2, <3>3, <2>2, <1>a, <1>d DEF Holds
  <2> QED BY <2>1, <2>2, Zenon
<1> QED BY <1>2, <1>3, Zenon DEF LockInv

\* ... and is cleared before the semaphore goes up.
LEMMA ReleaseLock ==
  ASSUME Inv, LockInv, NEW l \in Lock, holder[l] = current,
         pc[current] \notin HalfWay,
         lock_release(l)
  PROVE  LockInv'
<1>a. /\ current \in Thread /\ pc \in [Thread -> Label]
      /\ obj \in [Thread -> Sem \cup {NULL}]
      /\ holder \in [Lock -> Thread \cup {NULL}]
      /\ NULL \notin Thread
  BY ThreadAssumption, Zenon DEF Inv, TypeOK, ThreadsTypeOK
<1>b. /\ holder'[l] = NULL
      /\ \A m \in Lock \ {l} : holder'[m] = holder[m]
      /\ pc'[current] = "release_up" /\ obj'[current] = l
      /\ \A t \in Thread \ {current} : pc'[t] = pc[t] /\ obj'[t] = obj[t]
      /\ cv' = cv /\ value' = value
  BY <1>a, Zenon DEF lock_release, Goto
<1>c. \A t \in Thread : Owns(t, l) <=> t = current
  BY <1>a, Zenon DEF LockInv, MutualExclusion, Owns
<1>1. ASSUME NEW t \in Thread, NEW m \in Lock
      PROVE  Owns(t, m)' <=> Owns(t, m)
  <2>1. CASE m = l
    BY <2>1, <1>a, <1>b, <1>c, Zenon DEF Owns
  <2>2. CASE m # l
    BY <2>2, <1>a, <1>b, Zenon DEF Owns, HalfWay
  <2> QED BY <2>1, <2>2, Zenon
<1>2. MutualExclusion'
  <2>1. ASSUME NEW m \in Lock
        PROVE  /\ \A t, u \in Thread : Owns(t, m)' /\ Owns(u, m)' => t = u
               /\ value'[m] = IF \E t \in Thread : Owns(t, m)' THEN 0 ELSE 1
    BY <1>1, <1>b, Zenon DEF LockInv, MutualExclusion
  <2> QED BY <2>1, Zenon DEF MutualExclusion
<1>3. ASSUME NEW t \in Thread PROVE Holds(t)'
  <2>1. CASE t = current
    BY <2>1, <1>a, <1>b, Zenon DEF Holds
  <2>2. CASE t # current
    <3>1. Holds(t) /\ holder[l] # t
      BY <2>2, Zenon DEF LockInv
    <3>2. /\ pc[t] = "release_up" => obj[t] \in Lock
          /\ pc[t] = "cond_release" => CondLock[cv[t]] \in Lock
          /\ tid_lock \in Lock
      BY SynchAssumption, Zenon DEF Inv, LocalInv, LocalOK
    <3> QED BY <3>1, <3>2, <2>2, <1>a, <1>b DEF Holds
  <2> QED BY <2>1, <2>2, Zenon
<1> QED BY <1>2, <1>3, Zenon DEF LockInv

\* The semaphore goes up: nobody has the lock any more.
LEMMA ReleaseUpLock ==
  ASSUME Inv, LockInv, ReleaseUp
  PROVE  LockInv'
<1>f. PICK l \in Lock : l = obj[current]
  BY Zenon DEF Inv, ReleaseUp, At, LocalInv, LocalOK, TypeOK, ThreadsTypeOK
<1>a. /\ current \in Thread /\ pc \in [Thread -> Label]
      /\ obj \in [Thread -> Sem \cup {NULL}] /\ value \in [Sem -> Nat]
      /\ pc[current] = "release_up" /\ l \in Lock /\ Lock \subseteq Sem
  BY <1>f, Zenon DEF Inv, TypeOK, ThreadsTypeOK, ReleaseUp, At, LocalInv, LocalOK, Sem
<1>b. /\ AfterRelease \in {"cond_down", "create_end", "run"}
      /\ value' = [value EXCEPT ![l] = @ + 1]
      /\ pc' = [pc EXCEPT ![current] = AfterRelease]
      /\ obj' = [obj EXCEPT ![current] = NULL]
      /\ holder' = holder /\ cv' = cv
  BY <1>f, Zenon DEF ReleaseUp, Goto, sema_up, AfterRelease
<1>c. Owns(current, l) /\ holder[l] # current
  BY <1>a, <1>f, Zenon DEF Owns, LockInv, Holds
<1>d. \A t \in Thread : Owns(t, l) <=> t = current
  BY <1>a, <1>c, Zenon DEF LockInv, MutualExclusion
<1>e. /\ pc'[current] \in {"cond_down", "create_end", "run"}
      /\ \A t \in Thread \ {current} : pc'[t] = pc[t] /\ obj'[t] = obj[t]
      /\ value[l] = 0 /\ value'[l] = 1
      /\ \A m \in Lock \ {l} : value'[m] = value[m]
  <2>1. value[l] = 0
    BY <1>a, <1>c, Zenon DEF LockInv, MutualExclusion
  <2> QED BY <2>1, <1>a, <1>b
<1>1. \A t \in Thread : ~Owns(t, l)'
  BY <1>b, <1>c, <1>d, <1>e DEF Owns
<1>2. \A m \in Lock \ {l} : \A t \in Thread : Owns(t, m)' <=> Owns(t, m)
  BY <1>b, <1>e, <1>f DEF Owns
<1>3. MutualExclusion'
  <2>1. ASSUME NEW m \in Lock
        PROVE  /\ \A t, u \in Thread : Owns(t, m)' /\ Owns(u, m)' => t = u
               /\ value'[m] = IF \E t \in Thread : Owns(t, m)' THEN 0 ELSE 1
    <3>1. CASE m = l
      BY <3>1, <1>1, <1>e, Zenon
    <3>2. CASE m # l
      BY <3>2, <1>2, <1>e, Zenon DEF LockInv, MutualExclusion
    <3> QED BY <3>1, <3>2, Zenon
  <2> QED BY <2>1, Zenon DEF MutualExclusion
<1>4. ASSUME NEW t \in Thread PROVE Holds(t)'
  BY <1>b, <1>e DEF LockInv, Holds
<1> QED BY <1>3, <1>4, Zenon DEF LockInv

\* A call a client makes.
LEMMA CallLock == Inv /\ LockInv /\ Call => LockInv'
<1> SUFFICES ASSUME Inv, LockInv, Call PROVE LockInv'
  BY Zenon
<1>a. /\ TypeOK /\ current \in Thread /\ pc \in [Thread -> Label]
      /\ obj \in [Thread -> Sem \cup {NULL}]
      /\ cv \in [Thread -> Cond \cup {NULL}]
      /\ value \in [Sem -> Nat]
  BY Zenon DEF Inv, TypeOK, ThreadsTypeOK
<1>b. pc[current] = "run"
  BY Zenon DEF Call, SemaDown, SemaTryDown, SemaUp, LockAcquire, LockTryAcquire,
         LockRelease, CondWait, CondSignal, CondBroadcast, ThreadCreate,
         ThreadYield, ThreadExit, At
<1>d. /\ \A s \in Sema : s \in Sem /\ s \notin Lock
      /\ \A l \in Lock : l \in Sem
      /\ \A t \in Thread : t \in Sem /\ t \notin Lock
      /\ \A l \in ClientLock : l \in Lock
  BY SynchAssumption, Zenon DEF Sem, ClientLock
<1>1. ASSUME NEW s \in Sema, SemaDown(s) PROVE LockInv'
  BY <1>1, <1>a, <1>b, <1>d, SemaDownLock, Zenon DEF SemaDown, HalfWay
<1>2. ASSUME NEW s \in Sema, SemaTryDown(s) PROVE LockInv'
  <2>1. /\ \A l \in Lock : value'[l] = value[l]
        /\ holder' = holder /\ pc' = pc /\ obj' = obj /\ cv' = cv
    BY <1>2, <1>a, <1>d, Zenon DEF SemaTryDown, sema_try_down
  <2> QED BY <2>1, FrameLock, Zenon
<1>3. ASSUME NEW s \in Sema, SemaUp(s) PROVE LockInv'
  <2>1. /\ \A l \in Lock : value'[l] = value[l]
        /\ holder' = holder /\ pc' = pc /\ obj' = obj /\ cv' = cv
    BY <1>3, <1>a, <1>d, Zenon DEF SemaUp, sema_up
  <2> QED BY <2>1, FrameLock, Zenon
<1>4. ASSUME NEW l \in ClientLock, LockAcquire(l) PROVE LockInv'
  BY <1>4, <1>a, <1>b, <1>d, SemaDownLock, Zenon DEF LockAcquire, HalfWay
<1>5. ASSUME NEW l \in ClientLock, LockTryAcquire(l) PROVE LockInv'
  BY <1>5, <1>a, <1>b, <1>d, TakeLock, Zenon
     DEF LockTryAcquire, sema_try_down, Goto, HalfWay
<1>6. ASSUME NEW l \in ClientLock, LockRelease(l) PROVE LockInv'
  BY <1>6, <1>a, <1>b, <1>d, ReleaseLock, Zenon
     DEF LockRelease, lock_held_by_current_thread, HalfWay
<1>7. ASSUME NEW c \in Cond, CondWait(c) PROVE LockInv'
  <2>1. /\ \A l \in Lock : value'[l] = value[l]
        /\ holder' = holder /\ holder[CondLock[c]] = current
        /\ pc'[current] = "cond_release" /\ cv'[current] = c
        /\ \A t \in Thread \ {current} :
             pc'[t] = pc[t] /\ obj'[t] = obj[t] /\ cv'[t] = cv[t]
    BY <1>7, <1>a, <1>d DEF CondWait, Goto, lock_held_by_current_thread
  <2>2. Holds(current)'
    <3>1. current' = current
      BY <1>7, Zenon DEF CondWait, switchVars
    <3> QED BY <3>1, <2>1, Zenon DEF Holds
  <2>3. current' = current
    BY <1>7, Zenon DEF CondWait, switchVars
  <2> QED BY <2>1, <2>2, <2>3, <1>b, FrameLock, Zenon DEF HalfWay
<1>8. ASSUME NEW c \in Cond, CondSignal(c) \/ CondBroadcast(c) PROVE LockInv'
  <2>1. /\ value' = value /\ holder' = holder
        /\ pc'[current] \in {"signal_up", "broadcast"}
        /\ \A t \in Thread \ {current} :
             pc'[t] = pc[t] /\ obj'[t] = obj[t] /\ cv'[t] = cv[t]
    BY <1>8, <1>a, Zenon DEF CondSignal, CondBroadcast, pop_waiter, Goto
  <2> QED BY <2>1, <1>b, FrameLock, Zenon DEF HalfWay, Holds
<1>9. ASSUME NEW n \in Thread, ThreadCreate(n) PROVE LockInv'
  <2>1. /\ value' = value /\ holder' = holder
        /\ pc'[current] = "tid_acquire"
        /\ \A t \in Thread \ {current} :
             pc'[t] = pc[t] /\ obj'[t] = obj[t] /\ cv'[t] = cv[t]
    BY <1>9, <1>a, Zenon DEF ThreadCreate, Goto
  <2> QED BY <2>1, <1>b, FrameLock, Zenon DEF HalfWay, Holds
<1>10. ASSUME ThreadYield \/ ThreadExit PROVE LockInv'
  <2>1. value' = value /\ holder' = holder /\ pc' = pc /\ obj' = obj /\ cv' = cv
    BY <1>10, Zenon DEF ThreadYield, ThreadExit, localVars
  <2> QED BY <2>1, FrameLock, Zenon
<1> QED BY <1>1, <1>2, <1>3, <1>4, <1>5, <1>6, <1>7, <1>8, <1>9, <1>10, Zenon DEF Call

\* A step that finishes a call.
LEMMA ContinueLock == Inv /\ LockInv /\ Continue => LockInv'
<1> SUFFICES ASSUME Inv, LockInv, Continue PROVE LockInv'
  BY Zenon
<1>a. /\ TypeOK /\ current \in Thread /\ pc \in [Thread -> Label]
      /\ obj \in [Thread -> Sem \cup {NULL}]
      /\ cv \in [Thread -> Cond \cup {NULL}]
      /\ value \in [Sem -> Nat]
      /\ LocalOK(current) /\ Holds(current)
  BY Zenon DEF Inv, TypeOK, ThreadsTypeOK, LocalInv, LockInv
<1>d. /\ \A l \in Lock : l \in Sem
      /\ \A t \in Thread : t \in Sem /\ t \notin Lock
      /\ \A c \in Cond : CondLock[c] \in Lock
      /\ tid_lock \in Lock
  BY SynchAssumption, Zenon DEF Sem
<1>1. ASSUME Boot PROVE LockInv'
  <2>1. PICK n \in Thread :
          /\ status[n] = "FREE"
          /\ pc' = [pc EXCEPT ![current] = "start_down", ![n] = "idle_init"]
          /\ UNCHANGED <<value, holder, obj, cv>>
    BY <1>1, Zenon DEF Boot
  <2>2. pc[n] = "run" /\ pc[current] = "boot"
    BY <2>1, <1>1, Zenon DEF Boot, At, Inv, LocalInv, LocalOK
  <2>3. /\ pc'[n] = "idle_init" /\ pc'[current] = "start_down"
        /\ \A t \in Thread \ {n, current} : pc'[t] = pc[t]
    BY <2>1, <2>2, <1>a, Zenon
  <2> QED BY <2>1, <2>2, <2>3, FrameLock, Zenon DEF HalfWay, Holds
<1>2. ASSUME IdleInit \/ IdleBlock \/ TidRead \/ TidWrite PROVE LockInv'
  <2>1. /\ value' = value /\ holder' = holder /\ obj' = obj /\ cv' = cv
        /\ pc[current] \in {"idle_init", "idle_loop", "tid_read", "tid_write"}
        /\ pc'[current] \in {"idle_up", "hlt", "tid_write", "tid_release"}
        /\ pc'[current] \in {"tid_write", "tid_release"} =>
             pc[current] \in {"tid_read", "tid_write"}
        /\ \A t \in Thread \ {current} : pc'[t] = pc[t]
    BY <1>2, <1>a, Zenon DEF IdleInit, IdleBlock, TidRead, TidWrite, At, Goto
  <2>2. ASSUME NEW t \in Thread, t = current PROVE Holds(t)'
    BY <2>1, <2>2, <1>a, Zenon DEF Holds
  <2> QED BY <2>1, <2>2, FrameLock, Zenon DEF HalfWay
<1>3. ASSUME IdleUp PROVE LockInv'
  <2>1. /\ value' = [value EXCEPT ![initial_thread] = @ + 1]
        /\ holder' = holder /\ obj' = obj /\ cv' = cv
        /\ pc[current] = "idle_up" /\ pc'[current] = "idle_loop"
        /\ \A t \in Thread \ {current} : pc'[t] = pc[t]
    BY <1>3, <1>a, Zenon DEF IdleUp, sema_up, At, Goto
  <2>2. \A l \in Lock : value'[l] = value[l]
    BY <2>1, <1>a, <1>d, ThreadAssumption, Zenon
  <2> QED BY <2>1, <2>2, FrameLock, Zenon DEF HalfWay, Holds
<1>4. ASSUME StartDown PROVE LockInv'
  BY <1>4, <1>a, <1>d, SemaDownLock, Zenon DEF StartDown, At, HalfWay
<1>5. ASSUME Resume PROVE LockInv'
  <2>1. obj[current] \in Sem /\ pc[current] = "down"
    BY <1>5, <1>a, Zenon DEF Resume, At, LocalOK
  <2> DEFINE s == obj[current]
  <2>2. s \in Sem /\ sema_down(s) /\ UNCHANGED <<holder, cv>>
    BY <2>1, <1>5, Zenon DEF Resume
  <2> HIDE DEF s
  <2> QED BY <2>1, <2>2, <1>a, SemaDownLock, Zenon DEF HalfWay
<1>6. ASSUME SetHolder PROVE LockInv'
  BY <1>6, SetHolderLock, Zenon
<1>7. ASSUME ReleaseUp PROVE LockInv'
  BY <1>7, ReleaseUpLock, Zenon
<1>8. ASSUME CondRelease PROVE LockInv'
  <2> DEFINE l == CondLock[cv[current]]
  <2>1. /\ pc[current] = "cond_release" /\ l \in Lock /\ holder[l] = current
        /\ lock_release(l)
    BY <1>8, <1>a, <1>d, Zenon DEF CondRelease, At, LocalOK, Holds
  <2> HIDE DEF l
  <2> QED BY <2>1, ReleaseLock, Zenon DEF HalfWay
<1>9. ASSUME CondDown PROVE LockInv'
  BY <1>9, <1>a, <1>d, SemaDownLock, Zenon DEF CondDown, At, HalfWay
<1>10. ASSUME CondReacquire PROVE LockInv'
  <2> DEFINE l == CondLock[cv[current]]
  <2>1. /\ pc[current] = "reacquire" /\ l \in Sem
        /\ sema_down(l) /\ UNCHANGED <<holder, cv>>
    BY <1>10, <1>a, <1>d, Zenon DEF CondReacquire, At, LocalOK
  <2> HIDE DEF l
  <2> QED BY <2>1, <1>a, SemaDownLock, Zenon DEF HalfWay
<1>11. ASSUME BroadcastLoop PROVE LockInv'
  <2>1. /\ value' = value /\ holder' = holder
        /\ pc[current] = "broadcast" /\ pc'[current] \in {"signal_up", "run"}
        /\ \A t \in Thread \ {current} :
             pc'[t] = pc[t] /\ obj'[t] = obj[t] /\ cv'[t] = cv[t]
    BY <1>11, <1>a DEF BroadcastLoop, pop_waiter, At, Goto
  <2> QED BY <2>1, FrameLock, Zenon DEF HalfWay, Holds
<1>12. ASSUME SignalUp PROVE LockInv'
  <2>1. /\ obj[current] \in Thread
        /\ value' = [value EXCEPT ![obj[current]] = @ + 1]
        /\ holder' = holder /\ cv' = cv
        /\ pc[current] = "signal_up" /\ pc'[current] \in {"broadcast", "run"}
        /\ \A t \in Thread \ {current} : pc'[t] = pc[t] /\ obj'[t] = obj[t]
    BY <1>12, <1>a, Zenon DEF SignalUp, sema_up, At, Goto, LocalOK
  <2>2. \A l \in Lock : value'[l] = value[l]
    BY <2>1, <1>a, <1>d, Zenon
  <2> QED BY <2>1, <2>2, FrameLock, Zenon DEF HalfWay, Holds
<1>13. ASSUME TidAcquire PROVE LockInv'
  BY <1>13, <1>a, <1>d, SemaDownLock, Zenon DEF TidAcquire, At, HalfWay
<1>14. ASSUME TidRelease PROVE LockInv'
  BY <1>14, <1>a, <1>d, ReleaseLock, Zenon DEF TidRelease, At, HalfWay, Holds
<1>15. ASSUME CreateUnblock \/ CreateFail PROVE LockInv'
  <2>1. /\ value' = value /\ holder' = holder /\ obj' = obj /\ cv' = cv
        /\ pc[current] = "create_end" /\ pc'[current] = "run"
        /\ \A t \in Thread \ {current} : pc'[t] = pc[t]
    BY <1>15, <1>a, Zenon DEF CreateUnblock, CreateFail, At, Goto
  <2> QED BY <2>1, FrameLock, Zenon DEF HalfWay, Holds
<1> QED BY <1>1, <1>2, <1>3, <1>4, <1>5, <1>6, <1>7, <1>8, <1>9, <1>10, <1>11, SMTT(30),
           <1>12, <1>13, <1>14, <1>15 DEF Continue

\* An interrupt.
LEMMA InterruptLock == Inv /\ LockInv /\ Interrupt => LockInv'
<1> SUFFICES ASSUME Inv, LockInv, Interrupt PROVE LockInv'
  BY Zenon
<1>a. /\ TypeOK /\ current \in Thread /\ pc \in [Thread -> Label]
      /\ value \in [Sem -> Nat]
  BY Zenon DEF Inv, TypeOK, ThreadsTypeOK
<1>1. /\ holder' = holder /\ obj' = obj /\ cv' = cv
      /\ \A t \in Thread : \/ pc'[t] = pc[t]
                           \/ pc[t] = "hlt" /\ pc'[t] = "idle_loop"
  BY <1>a, Zenon DEF Interrupt, TimerInterrupt, DeviceInterrupt, EndHlt, At, Goto
<1>2. \A l \in Lock : value'[l] = value[l]
  <2>1. CASE TimerInterrupt
    BY <2>1, Zenon DEF TimerInterrupt
  <2>2. CASE \E s \in Sema : DeviceInterrupt(s)
    BY <2>2, <1>a, SynchAssumption DEF DeviceInterrupt, sema_up, Sem
  <2> QED BY <2>1, <2>2, Zenon DEF Interrupt
<1> QED BY <1>1, <1>2, FrameLock, Zenon DEF HalfWay, Holds

\* Locks and holders agree in every reachable state.
LEMMA LockInvHolds == Spec => []LockInv
<1>1. Init => LockInv
  <2> SUFFICES ASSUME Init PROVE LockInv
    BY Zenon
  <2>1. \A l \in Lock : value[l] = 1 /\ \A t \in Thread : ~Owns(t, l)
    BY ThreadAssumption, Zenon DEF Init, Owns, Sem
  <2>2. \A t \in Thread : Holds(t)
    BY Zenon DEF Init, Holds
  <2> QED BY <2>1, <2>2, Zenon DEF LockInv, MutualExclusion
<1>2. Inv /\ LockInv /\ [Next]_vars => LockInv'
  <2> SUFFICES ASSUME Inv, LockInv, [Next]_vars PROVE LockInv'
    BY Zenon
  <2>1. CASE Next
    BY <2>1, CallLock, ContinueLock, InterruptLock, Zenon DEF Next
  <2>2. CASE UNCHANGED vars
    BY <2>2, FrameLock, Zenon DEF vars
  <2> QED BY <2>1, <2>2, Zenon
<1> QED BY <1>1, <1>2, InvHolds, PTL DEF Spec

\* Mutual exclusion: for every lock, at most one thread has it, and its
\* semaphore is down exactly while one does.
THEOREM LocksExclude == Spec => []MutualExclusion
<1>1. LockInv => MutualExclusion
  BY Zenon DEF LockInv
<1> QED BY <1>1, LockInvHolds, PTL

-----------------------------------------------------------------------------
(* Thread identifiers.                                                     *)

\* allocate_tid() has taken an identifier for the thread that t creates.
Taken(t) ==
  \/ pc[t] \in {"tid_release", "create_end"}
  \/ pc[t] = "release_up" /\ obj[t] = tid_lock

\* next_tid is above every identifier; what allocate_tid() has read is still
\* next_tid when it writes it back; and what it has taken nobody else has.
TidInv ==
  /\ next_tid >= 2
  /\ \A t \in Thread : tid[t] < next_tid
  /\ \A t \in Thread : pc[t] = "tid_write" => reg[t] = next_tid
  /\ \A t \in Thread : Taken(t) =>
       /\ reg[t] > 0 /\ reg[t] < next_tid
       /\ \A u \in Thread : tid[u] # reg[t]
       /\ \A u \in Thread : Taken(u) /\ reg[u] = reg[t] => u = t
  /\ \A t, u \in Thread : tid[t] = tid[u] /\ tid[t] # 0 => t = u

\* A step that touches no identifier, and takes none.
LEMMA FrameTid ==
  ASSUME TidInv, UNCHANGED <<next_tid, tid, reg>>,
         \A t \in Thread : /\ pc'[t] = "tid_write" => pc[t] = "tid_write"
                           /\ Taken(t)' => Taken(t)
  PROVE  TidInv'
BY Zenon DEF TidInv

\* A step in which one thread moves, to a place where it has no identifier.
LEMMA MoveTid ==
  ASSUME TypeOK, TidInv, UNCHANGED <<next_tid, tid, reg>>,
         NEW label \in Label \ {"tid_write", "tid_release", "create_end"},
         pc' = [pc EXCEPT ![current] = label],
         label = "release_up" => obj'[current] # tid_lock,
         \A t \in Thread \ {current} : obj'[t] = obj[t]
  PROVE  TidInv'
<1>1. /\ current \in Thread /\ pc \in [Thread -> Label]
  BY Zenon DEF TypeOK, ThreadsTypeOK
<1>2. /\ pc'[current] = label
      /\ \A t \in Thread \ {current} : pc'[t] = pc[t]
  BY <1>1, Zenon
<1>3. ASSUME NEW t \in Thread
      PROVE  /\ pc'[t] = "tid_write" => pc[t] = "tid_write"
             /\ Taken(t)' => Taken(t)
  BY <1>2, Zenon DEF Taken
<1> QED BY <1>3, FrameTid, Zenon

\* sema_down(), wherever it is called.
LEMMA DownTid ==
  ASSUME TypeOK, TidInv, NEW s, sema_down(s), keepCreate
  PROVE  TidInv'
<1>1. \A t \in Thread \ {current} : obj'[t] = obj[t]
  BY Zenon DEF sema_down, TypeOK
<1>2. PICK label \in {"down", "set_holder", "reacquire", "run"} :
        pc' = [pc EXCEPT ![current] = label]
  BY Zenon DEF sema_down, Goto, AfterDown
<1> QED BY <1>1, <1>2, MoveTid, Zenon DEF keepCreate, Label

\* A call that a client makes.
LEMMA CallTid == Inv /\ TidInv /\ Call => TidInv'
<1> SUFFICES ASSUME Inv, TidInv, Call PROVE TidInv'
  BY Zenon
<1>a. /\ TypeOK /\ current \in Thread /\ pc \in [Thread -> Label]
      /\ obj \in [Thread -> Sem \cup {NULL}] /\ tid \in [Thread -> Nat]
      /\ next_tid \in Nat /\ reg \in [Thread -> Nat]
  BY Zenon DEF Inv, TypeOK, ThreadsTypeOK
<1>1. ASSUME \/ \E s \in Sema : SemaDown(s)
             \/ \E l \in ClientLock : LockAcquire(l)
      PROVE  TidInv'
  BY <1>1, <1>a, DownTid, Zenon DEF SemaDown, LockAcquire
<1>2. ASSUME \/ \E s \in Sema : SemaTryDown(s) \/ SemaUp(s)
             \/ ThreadYield \/ ThreadExit
      PROVE  TidInv'
  <2>1. UNCHANGED <<next_tid, tid, reg, pc, obj>>
    BY <1>2, Zenon DEF SemaTryDown, SemaUp, ThreadYield, ThreadExit, keepCreate,
                localVars, tidVars
  <2> QED BY <2>1, FrameTid, Zenon DEF Taken
<1>3. ASSUME NEW l \in ClientLock, LockTryAcquire(l) \/ LockRelease(l)
      PROVE  TidInv'
  <2>1. /\ UNCHANGED <<next_tid, tid, reg>>
        /\ obj'[current] = l /\ l # tid_lock
        /\ \A t \in Thread \ {current} : obj'[t] = obj[t]
    BY <1>3, <1>a, Zenon DEF LockTryAcquire, LockRelease, lock_release, keepCreate,
                      ClientLock
  <2>2. PICK label \in {"set_holder", "release_up"} :
          pc' = [pc EXCEPT ![current] = label]
    BY <1>3, Zenon DEF LockTryAcquire, LockRelease, lock_release, Goto
  <2> QED BY <2>1, <2>2, <1>a, MoveTid, Zenon DEF Label
<1>4. ASSUME NEW c \in Cond, CondWait(c) \/ CondSignal(c) \/ CondBroadcast(c)
      PROVE  TidInv'
  <2>1. /\ UNCHANGED <<next_tid, tid, reg>>
        /\ \A t \in Thread \ {current} : obj'[t] = obj[t]
    BY <1>4, <1>a, Zenon DEF CondWait, CondSignal, CondBroadcast, pop_waiter, keepCreate
  <2>2. PICK label \in {"cond_release", "signal_up", "broadcast"} :
          pc' = [pc EXCEPT ![current] = label]
    BY <1>4, Zenon DEF CondWait, CondSignal, CondBroadcast, pop_waiter, Goto
  <2> QED BY <2>1, <2>2, <1>a, MoveTid, ZenonT(60) DEF Label
<1>5. ASSUME NEW n \in Thread, ThreadCreate(n) PROVE TidInv'
  <2>1. /\ tid' = [tid EXCEPT ![n] = 0]
        /\ UNCHANGED <<next_tid, reg, obj>>
        /\ pc' = [pc EXCEPT ![current] = "tid_acquire"]
    BY <1>5, Zenon DEF ThreadCreate, Goto
  <2>2. /\ tid'[n] = 0 /\ \A t \in Thread \ {n} : tid'[t] = tid[t]
        /\ \A t \in Thread : pc'[t] \in {pc[t], "tid_acquire"}
    BY <2>1, <1>a, Zenon
  <2>3. \A t \in Thread : /\ pc'[t] = "tid_write" => pc[t] = "tid_write"
                          /\ Taken(t)' => Taken(t)
    BY <2>1, <2>2, Zenon DEF Taken
  <2>4. \A t \in Thread : tid'[t] \in {tid[t], 0}
    BY <2>2, Zenon
  <2>5. \A t, u \in Thread : tid'[t] = tid'[u] /\ tid'[t] # 0 => t = u
    BY <2>4, <1>a, Zenon DEF TidInv
  <2>6. \A t \in Thread : tid'[t] < next_tid
    BY <2>4, <1>a, SMTT(30) DEF TidInv
  <2> QED BY <2>1, <2>3, <2>4, <2>5, <2>6, <1>a DEF TidInv
<1> QED BY <1>1, <1>2, <1>3, <1>4, <1>5, Zenon DEF Call

\* allocate_tid() writes next_tid back: nobody else can be between its read
\* and its write, for tid_lock is held.
LEMMA WriteTid ==
  ASSUME Inv, LockInv, TidInv, TidWrite
  PROVE  TidInv'
<1>a. /\ current \in Thread /\ pc \in [Thread -> Label]
      /\ tid \in [Thread -> Nat] /\ next_tid \in Nat /\ reg \in [Thread -> Nat]
      /\ tid_lock \in Lock
  BY SynchAssumption, Zenon DEF Inv, TypeOK, ThreadsTypeOK
<1>1. /\ pc[current] = "tid_write" /\ next_tid' = reg[current] + 1
      /\ pc' = [pc EXCEPT ![current] = "tid_release"]
      /\ UNCHANGED <<tid, reg, obj>>
  BY Zenon DEF TidWrite, At, Goto
<1>2. reg[current] = next_tid
  BY <1>1, <1>a, Zenon DEF TidInv
<1>3. \A t \in Thread \ {current} : pc[t] # "tid_write"
  BY <1>1, <1>a, Zenon DEF LockInv, Holds
<1>4. /\ pc'[current] = "tid_release"
      /\ \A t \in Thread \ {current} : pc'[t] = pc[t]
  BY <1>1, <1>a, Zenon
<1>5. \A t \in Thread : Taken(t)' <=> Taken(t) \/ t = current
  BY <1>1, <1>4, Zenon DEF Taken
<1>6. \A t \in Thread : Taken(t) => reg[t] < next_tid
  BY Zenon DEF TidInv
<1>7. ASSUME NEW t \in Thread, Taken(t)'
      PROVE  /\ reg[t] > 0 /\ reg[t] < next_tid'
             /\ \A u \in Thread : tid[u] # reg[t]
             /\ \A u \in Thread : Taken(u)' /\ reg[u] = reg[t] => u = t
  <2>1. CASE t = current
    BY <2>1, <1>1, <1>2, <1>5, <1>6, <1>a DEF TidInv
  <2>2. CASE t # current
    <3>1. Taken(t)
      BY <2>2, <1>5, <1>7, Zenon
    <3>2. /\ reg[t] > 0 /\ reg[t] < next_tid
          /\ \A u \in Thread : tid[u] # reg[t]
          /\ \A u \in Thread : Taken(u) /\ reg[u] = reg[t] => u = t
      BY <3>1, Zenon DEF TidInv
    <3> QED BY <3>2, <1>1, <1>2, <1>5, <1>a
  <2> QED BY <2>1, <2>2, Zenon
<1>8. next_tid' = next_tid + 1
  BY <1>1, <1>2, Zenon
<1>9. \A t \in Thread : tid'[t] < next_tid' /\ pc'[t] # "tid_write"
  BY <1>1, <1>3, <1>4, <1>8, <1>a DEF TidInv
<1>10. next_tid' >= 2 /\ \A t, u \in Thread : tid'[t] = tid'[u] /\ tid'[t] # 0 => t = u
  BY <1>1, <1>8, <1>a, SMTT(30) DEF TidInv
<1> QED BY <1>1, <1>7, <1>9, <1>10, Zenon DEF TidInv

\* thread_create() gives the new thread the identifier it has taken.
LEMMA UnblockTid ==
  ASSUME Inv, TidInv, CreateUnblock
  PROVE  TidInv'
<1>a. /\ current \in Thread /\ pc \in [Thread -> Label]
      /\ tid \in [Thread -> Nat] /\ next_tid \in Nat /\ reg \in [Thread -> Nat]
  BY Zenon DEF Inv, TypeOK, ThreadsTypeOK
<1>1. /\ pc[current] = "create_end"
      /\ tid' = [tid EXCEPT ![child[current]] = reg[current]]
      /\ pc' = [pc EXCEPT ![current] = "run"]
      /\ reg' = [reg EXCEPT ![current] = 0]
      /\ UNCHANGED <<next_tid, obj>>
  BY Zenon DEF CreateUnblock, At, Goto
<1>2. PICK n : n = child[current]
  BY Zenon
<1>3. Taken(current)
  BY <1>1, Zenon DEF Taken
<1>4. /\ reg[current] > 0 /\ reg[current] < next_tid
      /\ \A u \in Thread : tid[u] # reg[current]
      /\ \A u \in Thread : Taken(u) /\ reg[u] = reg[current] => u = current
  BY <1>3, <1>a, Zenon DEF TidInv
<1>5. /\ \A t \in Thread : tid'[t] = IF t = n THEN reg[current] ELSE tid[t]
      /\ pc'[current] = "run"
      /\ \A t \in Thread \ {current} : pc'[t] = pc[t] /\ reg'[t] = reg[t]
  BY <1>1, <1>2, <1>a, Zenon
<1>6. \A t \in Thread : Taken(t)' => Taken(t) /\ t # current
  BY <1>1, <1>5, Zenon DEF Taken
<1>7. ASSUME NEW t \in Thread, Taken(t)'
      PROVE  /\ reg'[t] > 0 /\ reg'[t] < next_tid
             /\ \A u \in Thread : tid'[u] # reg'[t]
             /\ \A u \in Thread : Taken(u)' /\ reg'[u] = reg'[t] => u = t
  <2>1. Taken(t) /\ t # current /\ reg'[t] = reg[t]
    BY <1>5, <1>6, <1>7, Zenon
  <2>2. /\ reg[t] > 0 /\ reg[t] < next_tid
        /\ \A u \in Thread : tid[u] # reg[t]
        /\ \A u \in Thread : Taken(u) /\ reg[u] = reg[t] => u = t
    BY <2>1, Zenon DEF TidInv
  <2>3. reg[t] # reg[current]
    BY <2>1, <1>4, Zenon
  <2>4. \A u \in Thread : tid'[u] # reg[t]
    BY <2>2, <2>3, <1>5, Zenon
  <2>5. \A u \in Thread : Taken(u)' /\ reg'[u] = reg[t] => u = t
    BY <2>2, <1>5, <1>6, Zenon
  <2> QED BY <2>1, <2>2, <2>4, <2>5, Zenon
<1>8. \A t \in Thread : tid'[t] < next_tid /\ (pc'[t] = "tid_write" => reg'[t] = next_tid)
  <2>1. ASSUME NEW t \in Thread PROVE tid'[t] < next_tid
    BY <1>4, <1>5, Zenon DEF TidInv
  <2>2. ASSUME NEW t \in Thread, pc'[t] = "tid_write" PROVE reg'[t] = next_tid
    BY <2>2, <1>5, Zenon DEF TidInv
  <2> QED BY <2>1, <2>2, Zenon
<1>9. ASSUME NEW t \in Thread, NEW u \in Thread, tid'[t] = tid'[u], tid'[t] # 0
      PROVE  t = u
  BY <1>4, <1>5, <1>9 DEF TidInv
<1>10. next_tid >= 2
  BY Zenon DEF TidInv
<1> QED BY <1>1, <1>7, <1>8, <1>9, <1>10, Zenon DEF TidInv

\* thread_start() creates the idle thread before there is anybody else.
LEMMA BootTid ==
  ASSUME Inv, TidInv, Boot
  PROVE  TidInv'
<1>a. /\ current \in Thread /\ pc \in [Thread -> Label]
      /\ tid \in [Thread -> Nat] /\ next_tid \in Nat /\ reg \in [Thread -> Nat]
  BY Zenon DEF Inv, TypeOK, ThreadsTypeOK
<1>1. PICK n \in Thread :
        /\ tid' = [tid EXCEPT ![n] = next_tid]
        /\ next_tid' = next_tid + 1
        /\ pc' = [pc EXCEPT ![current] = "start_down", ![n] = "idle_init"]
        /\ UNCHANGED <<obj, reg>>
  BY Zenon DEF Boot
<1>2. pc[current] = "boot" /\ \A t \in Thread \ {current} : pc[t] = "run"
  BY <1>a, Zenon DEF Boot, At, Inv, IdleInv
<1>3. \A t \in Thread : pc'[t] \in {"start_down", "idle_init", "run"}
  BY <1>1, <1>2, <1>a, Zenon
<1>4. \A t \in Thread : ~Taken(t)' /\ pc'[t] # "tid_write"
  BY <1>3, Zenon DEF Taken
<1>5. \A t \in Thread : tid'[t] = IF t = n THEN next_tid ELSE tid[t]
  BY <1>1, <1>a, Zenon
<1>6. \A t \in Thread : tid'[t] < next_tid'
  BY <1>1, <1>5, <1>a DEF TidInv
<1>7. ASSUME NEW t \in Thread, NEW u \in Thread, tid'[t] = tid'[u], tid'[t] # 0
      PROVE  t = u
  BY <1>5, <1>7, <1>a DEF TidInv
<1>8. next_tid' >= 2
  BY <1>1, <1>a DEF TidInv
<1> QED BY <1>4, <1>6, <1>7, <1>8, Zenon DEF TidInv

\* A step that finishes a call.
LEMMA ContinueTid == Inv /\ LockInv /\ TidInv /\ Continue => TidInv'
<1> SUFFICES ASSUME Inv, LockInv, TidInv, Continue PROVE TidInv'
  BY Zenon
<1>a. /\ TypeOK /\ current \in Thread /\ pc \in [Thread -> Label]
      /\ obj \in [Thread -> Sem \cup {NULL}] /\ tid \in [Thread -> Nat]
      /\ next_tid \in Nat /\ reg \in [Thread -> Nat] /\ LocalOK(current)
  BY Zenon DEF Inv, TypeOK, ThreadsTypeOK, LocalInv
<1>1. ASSUME StartDown \/ Resume \/ CondDown \/ CondReacquire \/ TidAcquire
      PROVE  TidInv'
  BY <1>1, <1>a, DownTid, Zenon DEF StartDown, Resume, CondDown, CondReacquire, TidAcquire
<1>2. ASSUME \/ IdleInit \/ IdleUp \/ IdleBlock \/ SetHolder \/ BroadcastLoop
             \/ SignalUp
      PROVE  TidInv'
  <2>1. /\ UNCHANGED <<next_tid, tid, reg>>
        /\ \A t \in Thread \ {current} : obj'[t] = obj[t]
    BY <1>2, <1>a, Zenon DEF IdleInit, IdleUp, IdleBlock, SetHolder, BroadcastLoop,
                      pop_waiter, SignalUp, keepCreate, tidVars
  <2>2. PICK label \in {"idle_up", "idle_loop", "hlt", "tid_read", "run",
                        "signal_up", "broadcast"} :
          pc' = [pc EXCEPT ![current] = label]
    BY <1>2, Zenon DEF IdleInit, IdleUp, IdleBlock, SetHolder, BroadcastLoop,
                pop_waiter, SignalUp, Goto
  <2> QED BY <2>1, <2>2, <1>a, MoveTid, ZenonT(60) DEF Label
<1>3. ASSUME CondRelease PROVE TidInv'
  <2>1. CondLock[cv[current]] # tid_lock
    BY <1>3, <1>a, SynchAssumption, Zenon DEF CondRelease, At, LocalOK
  <2>2. /\ UNCHANGED <<next_tid, tid, reg>>
        /\ obj'[current] # tid_lock
        /\ \A t \in Thread \ {current} : obj'[t] = obj[t]
        /\ pc' = [pc EXCEPT ![current] = "release_up"]
    BY <1>3, <1>a, <2>1, Zenon DEF CondRelease, lock_release, keepCreate, Goto
  <2> QED BY <2>2, <1>a, MoveTid, ZenonT(60) DEF Label
<1>4. ASSUME TidRelease PROVE TidInv'
  <2>1. /\ UNCHANGED <<next_tid, tid, reg>> /\ pc[current] = "tid_release"
        /\ \A t \in Thread \ {current} : obj'[t] = obj[t] /\ pc'[t] = pc[t]
        /\ pc'[current] = "release_up"
    BY <1>4, <1>a, Zenon DEF TidRelease, lock_release, keepCreate, Goto, At
  <2>2. ASSUME NEW t \in Thread
        PROVE  /\ pc'[t] = "tid_write" => pc[t] = "tid_write"
               /\ Taken(t)' => Taken(t)
    BY <2>1, Zenon DEF Taken
  <2> QED BY <2>1, <2>2, FrameTid, Zenon
<1>5. ASSUME ReleaseUp PROVE TidInv'
  <2>1. /\ UNCHANGED <<next_tid, tid, reg>> /\ pc[current] = "release_up"
        /\ \A t \in Thread \ {current} : obj'[t] = obj[t] /\ pc'[t] = pc[t]
        /\ pc'[current] \in {"cond_down", "create_end", "run"}
        /\ pc'[current] = "create_end" => child[current] # NULL
    BY <1>5, <1>a, Zenon DEF ReleaseUp, AfterRelease, keepCreate, Goto, At
  <2>2. pc'[current] = "create_end" => obj[current] = tid_lock
    BY <2>1, <1>a, Zenon DEF LocalOK, InCreate
  <2>3. ASSUME NEW t \in Thread
        PROVE  /\ pc'[t] = "tid_write" => pc[t] = "tid_write"
               /\ Taken(t)' => Taken(t)
    BY <2>1, <2>2, Zenon DEF Taken
  <2> QED BY <2>1, <2>3, FrameTid, Zenon
<1>6. ASSUME TidRead PROVE TidInv'
  <2>1. /\ UNCHANGED <<next_tid, tid, obj>> /\ pc[current] = "tid_read"
        /\ \A t \in Thread \ {current} : reg'[t] = reg[t] /\ pc'[t] = pc[t]
        /\ pc'[current] = "tid_write" /\ reg'[current] = next_tid
    BY <1>6, <1>a, Zenon DEF TidRead, Goto, At, tidVars
  <2>2. \A t \in Thread : Taken(t)' <=> Taken(t) /\ t # current
    BY <2>1, Zenon DEF Taken
  <2>3. \A t \in Thread : pc'[t] = "tid_write" => reg'[t] = next_tid
    BY <2>1, Zenon DEF TidInv
  <2>4. ASSUME NEW t \in Thread, Taken(t)'
        PROVE  /\ reg'[t] > 0 /\ reg'[t] < next_tid
               /\ \A u \in Thread : tid[u] # reg'[t]
               /\ \A u \in Thread : Taken(u)' /\ reg'[u] = reg'[t] => u = t
    BY <2>1, <2>2, <2>4, Zenon DEF TidInv
  <2> QED BY <2>1, <2>3, <2>4, Zenon DEF TidInv
<1>7. ASSUME CreateFail PROVE TidInv'
  <2>1. /\ UNCHANGED <<next_tid, tid, obj>> /\ pc[current] = "create_end"
        /\ \A t \in Thread \ {current} : reg'[t] = reg[t] /\ pc'[t] = pc[t]
        /\ pc'[current] = "run"
    BY <1>7, <1>a, Zenon DEF CreateFail, Goto, At, tidVars
  <2>2. \A t \in Thread : Taken(t)' => Taken(t) /\ t # current
    BY <2>1, Zenon DEF Taken
  <2>3. \A t \in Thread : pc'[t] = "tid_write" => reg'[t] = next_tid
    BY <2>1, Zenon DEF TidInv
  <2>4. ASSUME NEW t \in Thread, Taken(t)'
        PROVE  /\ reg'[t] > 0 /\ reg'[t] < next_tid
               /\ \A u \in Thread : tid[u] # reg'[t]
               /\ \A u \in Thread : Taken(u)' /\ reg'[u] = reg'[t] => u = t
    BY <2>1, <2>2, <2>4, Zenon DEF TidInv
  <2> QED BY <2>1, <2>3, <2>4, Zenon DEF TidInv
<1> QED BY <1>1, <1>2, <1>3, <1>4, <1>5, <1>6, <1>7, WriteTid, UnblockTid, BootTid, Zenon
        DEF Continue

\* allocate_tid(): no two threads ever have the same identifier, although
\* every thread_create() can be interrupted between reading next_tid and
\* writing it back.
THEOREM TidsAreUnique == Spec => []UniqueTids
<1>1. Init => TidInv
  BY DEF Init, TidInv, Taken
<1>2. Inv /\ LockInv /\ TidInv /\ [Next]_vars => TidInv'
  <2> SUFFICES ASSUME Inv, LockInv, TidInv, [Next]_vars PROVE TidInv'
    BY Zenon
  <2>1. CASE Interrupt
    <3>1. /\ UNCHANGED <<next_tid, tid, reg, obj>>
          /\ \A t \in Thread : pc'[t] \in {pc[t], "idle_loop"}
      BY <2>1, Zenon DEF Inv, TypeOK, Interrupt, TimerInterrupt, DeviceInterrupt,
                  EndHlt, Goto, keepCreate
    <3> QED BY <3>1, FrameTid, Zenon DEF Taken
  <2>2. CASE UNCHANGED vars
    BY <2>2, FrameTid, Zenon DEF vars, Taken
  <2> QED BY <2>1, <2>2, CallTid, ContinueTid, Zenon DEF Next
<1>3. TidInv => UniqueTids
  BY Zenon DEF TidInv, UniqueTids
<1> QED BY <1>1, <1>2, <1>3, InvHolds, LockInvHolds, PTL DEF Spec

-----------------------------------------------------------------------------
(* Semaphores lose no wakeup.                                              *)

\* A step after which every woken thread but the running one is still woken.
StayWoken ==
  \A t \in Thread \ {current} :
    pc[t] = "down" /\ status[t] # "BLOCKED" =>
      pc'[t] = "down" /\ obj'[t] = obj[t] /\ status'[t] # "BLOCKED"

\* There are finitely many woken threads, before and after a step, and none
\* but the running one stops being woken.
LEMMA WokenBound ==
  ASSUME NEW s, StayWoken
  PROVE  /\ IsFiniteSet(Woken(s)) /\ Cardinality(Woken(s)) \in Nat
         /\ IsFiniteSet(Woken(s)') /\ Cardinality(Woken(s)') \in Nat
         /\ Cardinality(Woken(s)) <= Cardinality(Woken(s)') + 1
         /\ current \notin Woken(s) => Cardinality(Woken(s)) <= Cardinality(Woken(s)')
<1>1. Woken(s) \in SUBSET Thread /\ Woken(s)' \in SUBSET Thread
  BY Zenon DEF Woken
<1>2. /\ IsFiniteSet(Woken(s)) /\ IsFiniteSet(Woken(s)')
      /\ Cardinality(Woken(s)) \in Nat /\ Cardinality(Woken(s)') \in Nat
  BY <1>1, FiniteAssumption, FS_Subset, FS_CardinalityType, Zenon
<1>3. Woken(s) \ {current} \in SUBSET (Woken(s)')
  BY Zenon DEF StayWoken, Woken
<1>4. Cardinality(Woken(s) \ {current}) <= Cardinality(Woken(s)')
  BY <1>2, <1>3, FS_Subset, Zenon
<1>5. Cardinality(Woken(s) \ {current}) =
        IF current \in Woken(s) THEN Cardinality(Woken(s)) - 1
                                ELSE Cardinality(Woken(s))
  BY <1>2, FS_RemoveElement, Zenon
<1> QED BY <1>2, <1>4, <1>5

\* A step that makes no unit and puts nobody to sleep on a semaphore.
LEMMA FrameWoken ==
  ASSUME Inv, TypeOK', NoLostWakeup, StayWoken, pc[current] # "down",
         \A s \in Sem : \/ waiters'[s] = <<>>
                        \/ waiters'[s] = waiters[s] /\ value'[s] <= value[s]
  PROVE  NoLostWakeup'
<1> SUFFICES ASSUME NEW s \in Sem, waiters'[s] # <<>>
             PROVE  Cardinality(Woken(s)') >= value'[s]
  BY Zenon DEF NoLostWakeup
<1>1. current \notin Woken(s)
  BY Zenon DEF Woken
<1>2. Cardinality(Woken(s)) >= value[s] /\ value'[s] <= value[s]
  BY Zenon DEF NoLostWakeup
<1>3. value[s] \in Nat /\ value'[s] \in Nat
  BY Zenon DEF Inv, TypeOK
<1> QED BY <1>1, <1>2, <1>3, WokenBound

\* schedule() leaves every thread but the running one as it is, or runs it.
LEMMA ScheduleOthers ==
  ASSUME TypeOK, NEW queue, NEW x,
         schedule(queue, [status EXCEPT ![current] = x])
  PROVE  \A t \in Thread \ {current} : status'[t] \in {status[t], "RUNNING"}
<1> DEFINE st == [status EXCEPT ![current] = x]
           next == next_thread_to_run(queue)
<1>1. status \in [Thread -> Status] /\ current \in Thread
  BY Zenon DEF TypeOK, ThreadsTypeOK
<1>2. status' = [reap(st) EXCEPT ![next] = "RUNNING"]
  BY Zenon DEF schedule
<1>3. /\ \A t \in Thread \ {current} : reap(st)[t] = status[t]
      /\ DOMAIN reap(st) = Thread
  BY <1>1, Zenon DEF reap
<1> HIDE DEF next, st
<1> QED BY <1>2, <1>3, Zenon

\* sema_down(): who goes to sleep finds no unit, and who takes a unit is at
\* most one woken thread.
LEMMA DownWoken ==
  ASSUME Inv, TypeOK', NoLostWakeup, NEW s \in Sem, sema_down(s),
         pc[current] = "down" => obj[current] = s
  PROVE  NoLostWakeup'
<1>a. /\ TypeOK /\ current \in Thread /\ pc \in [Thread -> Label]
      /\ obj \in [Thread -> Sem \cup {NULL}] /\ value \in [Sem -> Nat]
      /\ waiters \in [Sem -> Seq(Thread)] /\ value' \in [Sem -> Nat]
  BY Zenon DEF Inv, TypeOK, ThreadsTypeOK
<1>1. /\ \A t \in Thread \ {current} : pc'[t] = pc[t] /\ obj'[t] = obj[t]
      /\ \A r \in Sem \ {s} : waiters'[r] = waiters[r] /\ value'[r] = value[r]
      /\ \/ value'[s] = 0
         \/ waiters'[s] = waiters[s] /\ value'[s] = value[s] - 1 /\ value[s] > 0
  BY <1>a, Zenon DEF sema_down, Goto
<1>2. \A t \in Thread \ {current} : status'[t] \in {status[t], "RUNNING"}
  BY <1>a, ScheduleOthers, ZenonT(60) DEF sema_down, thread_block
<1>3. StayWoken
  BY <1>1, <1>2, Zenon DEF StayWoken
<1>4. SUFFICES ASSUME NEW r \in Sem, waiters'[r] # <<>>
               PROVE  Cardinality(Woken(r)') >= value'[r]
  BY Zenon DEF NoLostWakeup
<1>5. CASE r # s
  <2>1. current \notin Woken(r)
    BY <1>5, Zenon DEF Woken
  <2>2. Cardinality(Woken(r)) >= value[r] /\ value'[r] = value[r]
    BY <1>1, <1>4, <1>5, Zenon DEF NoLostWakeup
  <2> QED BY <2>1, <2>2, <1>3, <1>a, WokenBound
<1>6. CASE r = s /\ value'[s] = 0
  BY <1>6, <1>3, WokenBound
<1>7. CASE r = s /\ waiters'[s] = waiters[s] /\ value'[s] = value[s] - 1 /\ value[s] > 0
  <2>1. Cardinality(Woken(r)) >= value[r]
    BY <1>4, <1>7, Zenon DEF NoLostWakeup
  <2> QED BY <2>1, <1>7, <1>3, <1>a, WokenBound
<1> QED BY <1>1, <1>5, <1>6, <1>7, Zenon

\* sema_up(): the unit it makes has the thread that it wakes.
LEMMA UpWoken ==
  ASSUME Inv, TypeOK', NoLostWakeup, NEW s \in Sem, sema_up(s),
         pc[current] # "down",
         \A t \in Thread \ {current} : pc'[t] = pc[t] /\ obj'[t] = obj[t]
  PROVE  NoLostWakeup'
<1>a. /\ TypeOK /\ current \in Thread /\ pc \in [Thread -> Label]
      /\ status \in [Thread -> Status] /\ value \in [Sem -> Nat]
      /\ waiters \in [Sem -> Seq(Thread)] /\ value' \in [Sem -> Nat]
      /\ status[current] = "RUNNING"
  BY ZenonT(60) DEF Inv, TypeOK, ThreadsTypeOK, ListMembership, OneRunning
<1>1. /\ \A r \in Sem \ {s} : waiters'[r] = waiters[r] /\ value'[r] = value[r]
      /\ value'[s] = value[s] + 1
      /\ waiters[s] = <<>> => waiters'[s] = <<>>
      /\ \A t \in Thread : status'[t] \in {status[t], "READY"}
  BY <1>a, Zenon DEF sema_up, thread_unblock
<1>2. StayWoken
  BY <1>1, Zenon DEF StayWoken
<1>3. SUFFICES ASSUME NEW r \in Sem, waiters'[r] # <<>>
               PROVE  Cardinality(Woken(r)') >= value'[r]
  BY Zenon DEF NoLostWakeup
<1>4. current \notin Woken(r)
  BY Zenon DEF Woken
<1>5. CASE r # s
  <2>1. Cardinality(Woken(r)) >= value[r] /\ value'[r] = value[r]
    BY <1>1, <1>3, <1>5, Zenon DEF NoLostWakeup
  <2> QED BY <2>1, <1>2, <1>4, <1>a, WokenBound, SMTT(30)
<1>6. CASE r = s
  <2>1. waiters[s] # <<>> /\ Cardinality(Woken(s)) >= value[s]
    BY <1>1, <1>3, <1>6, Zenon DEF NoLostWakeup
  <2>2. PICK h : h = Head(waiters[s])
    BY Zenon
  <2>3. h \in Thread /\ h \in Range(waiters[s])
    BY <2>1, <2>2, <1>a, TailQueue, SMTT(30)
  <2>4. status[h] = "BLOCKED" /\ pc[h] = "down" /\ obj[h] = s /\ h # current
    BY <2>3, <1>a, SMTT(30) DEF Inv, ListMembership, WaitersListed
  <2>5. status'[h] = "READY"
    BY <2>1, <2>2, <2>3, <1>a, Zenon DEF sema_up, thread_unblock
  <2>6. h \notin Woken(s) /\ h \in Woken(s)'
    BY <2>3, <2>4, <2>5, Zenon DEF Woken
  <2>7. Woken(s) \in SUBSET (Woken(s)')
    BY <1>2, <1>4, <1>6, Zenon DEF StayWoken, Woken
  <2>8. Woken(s) \cup {h} \in SUBSET (Woken(s)')
    BY <2>6, <2>7, Zenon
  <2>9. IsFiniteSet(Woken(s)) /\ IsFiniteSet(Woken(s)')
    BY <1>2, WokenBound, Zenon
  <2>10. Cardinality(Woken(s) \cup {h}) = Cardinality(Woken(s)) + 1
    BY <2>6, <2>9, FS_AddElement, ZenonT(60)
  <2>11. Cardinality(Woken(s) \cup {h}) <= Cardinality(Woken(s)')
    BY <2>8, <2>9, FS_Subset, Zenon
  <2> QED BY <2>1, <2>10, <2>11, <1>1, <1>2, <1>6, <1>a, WokenBound, SMTT(30)
<1> QED BY <1>5, <1>6, Zenon

\* A call that a client makes.
LEMMA CallWoken == Inv /\ TypeOK' /\ NoLostWakeup /\ Call => NoLostWakeup'
<1> SUFFICES ASSUME Inv, TypeOK', NoLostWakeup, Call PROVE NoLostWakeup'
  BY Zenon
<1>a. /\ TypeOK /\ current \in Thread /\ pc \in [Thread -> Label]
      /\ obj \in [Thread -> Sem \cup {NULL}] /\ value \in [Sem -> Nat]
      /\ waiters \in [Sem -> Seq(Thread)] /\ status \in [Thread -> Status]
      /\ current \in Sem /\ Sema \subseteq Sem /\ Lock \subseteq Sem
  BY ZenonT(60) DEF Inv, TypeOK, ThreadsTypeOK, Sem
<1>b. pc[current] = "run"
  BY Zenon DEF Call, SemaDown, SemaTryDown, SemaUp, LockAcquire, LockTryAcquire,
         LockRelease, CondWait, CondSignal, CondBroadcast, ThreadCreate,
         ThreadYield, ThreadExit, At
<1>1. ASSUME NEW s \in Sema, SemaDown(s) PROVE NoLostWakeup'
  BY <1>1, <1>a, <1>b, DownWoken, Zenon DEF SemaDown
<1>2. ASSUME NEW l \in ClientLock, LockAcquire(l) PROVE NoLostWakeup'
  BY <1>2, <1>a, <1>b, DownWoken, Zenon DEF LockAcquire, ClientLock
<1>3. ASSUME NEW s \in Sema, SemaUp(s) PROVE NoLostWakeup'
  BY <1>3, <1>a, <1>b, UpWoken, Zenon DEF SemaUp
<1>4. ASSUME \/ \E s \in Sema : SemaTryDown(s)
             \/ \E l \in ClientLock : LockTryAcquire(l) \/ LockRelease(l)
             \/ \E c \in Cond : CondWait(c) \/ CondSignal(c) \/ CondBroadcast(c)
      PROVE  NoLostWakeup'
  <2>1. /\ status' = status
        /\ \A t \in Thread \ {current} : pc'[t] = pc[t] /\ obj'[t] = obj[t]
    BY <1>4, <1>a, Zenon DEF SemaTryDown, LockTryAcquire, LockRelease, lock_release,
         CondWait, CondSignal, CondBroadcast, pop_waiter, switchVars, Goto
  <2>2. \A s \in Sem : \/ waiters'[s] = <<>>
                       \/ waiters'[s] = waiters[s] /\ value'[s] <= value[s]
    <3>1. CASE \/ \E s \in Sema : SemaTryDown(s)
               \/ \E l \in ClientLock : LockTryAcquire(l)
      <4>1. PICK r \in Sem : /\ value[r] > 0 /\ waiters' = waiters
                            /\ value' = [value EXCEPT ![r] = @ - 1]
        BY <3>1, <1>a, Zenon DEF SemaTryDown, LockTryAcquire, sema_try_down, ClientLock
      <4>2. /\ value'[r] = value[r] - 1 /\ value[r] \in Nat
            /\ \A s \in Sem \ {r} : value'[s] = value[s] /\ value[s] \in Nat
        BY <4>1, <1>a, Zenon
      <4> QED BY <4>1, <4>2
    <3>2. CASE \E c \in Cond : CondWait(c)
      BY <3>2, <1>a DEF CondWait
    <3>3. CASE waiters' = waiters /\ value' = value
      BY <3>3, <1>a
    <3> QED BY <1>4, <3>1, <3>2, <3>3, ZenonT(60)
            DEF LockRelease, lock_release, CondSignal, CondBroadcast
  <2> QED BY <2>1, <2>2, <1>b, FrameWoken, Zenon DEF StayWoken
<1>5. ASSUME NEW n \in Thread, ThreadCreate(n) PROVE NoLostWakeup'
  <2>1. /\ pc[n] = "run" /\ obj' = obj /\ value' = value /\ waiters' = waiters
        /\ \A t \in Thread \ {current} : pc'[t] = pc[t]
        /\ \A t \in Thread \ {n} : status'[t] = status[t]
    BY <1>5, <1>a, Zenon DEF ThreadCreate, Goto, Inv, LocalInv, LocalOK
  <2>2. StayWoken
    BY <2>1, Zenon DEF StayWoken
  <2> QED BY <2>1, <2>2, <1>a, <1>b, FrameWoken, SMTT(30)
<1>6. ASSUME ThreadYield \/ ThreadExit PROVE NoLostWakeup'
  <2>1. /\ pc' = pc /\ obj' = obj /\ value' = value /\ waiters' = waiters
    BY <1>6, Zenon DEF ThreadYield, ThreadExit, localVars
  <2>2. \A t \in Thread \ {current} : status'[t] \in {status[t], "RUNNING"}
    BY <1>6, <1>a, ScheduleOthers, ZenonT(60) DEF ThreadYield, ThreadExit, thread_yield, thread_exit
  <2>3. StayWoken
    BY <2>1, <2>2, Zenon DEF StayWoken
  <2> QED BY <2>1, <2>3, <1>a, <1>b, FrameWoken, SMTT(30)
<1> QED BY <1>1, <1>2, <1>3, <1>4, <1>5, <1>6, Zenon DEF Call

\* A step that finishes a call.
LEMMA ContinueWoken == Inv /\ TypeOK' /\ NoLostWakeup /\ Continue => NoLostWakeup'
<1> SUFFICES ASSUME Inv, TypeOK', NoLostWakeup, Continue PROVE NoLostWakeup'
  BY Zenon
<1>a. /\ TypeOK /\ current \in Thread /\ pc \in [Thread -> Label]
      /\ obj \in [Thread -> Sem \cup {NULL}] /\ value \in [Sem -> Nat]
      /\ waiters \in [Sem -> Seq(Thread)] /\ status \in [Thread -> Status]
      /\ current \in Sem /\ initial_thread \in Sem /\ tid_lock \in Sem
      /\ Lock \subseteq Sem /\ Thread \subseteq Sem /\ LocalOK(current)
  BY ThreadAssumption, SynchAssumption, ZenonT(60) DEF Inv, TypeOK, ThreadsTypeOK, Sem, LocalInv
<1>1. ASSUME StartDown \/ CondDown \/ TidAcquire PROVE NoLostWakeup'
  BY <1>1, <1>a, DownWoken, Zenon DEF StartDown, CondDown, TidAcquire, At
<1>2. ASSUME Resume PROVE NoLostWakeup'
  BY <1>2, <1>a, DownWoken, Zenon DEF Resume, At, LocalOK
<1>3. ASSUME CondReacquire PROVE NoLostWakeup'
  <2>1. CondLock[cv[current]] \in Sem
    BY <1>3, <1>a, SynchAssumption, Zenon DEF CondReacquire, At, LocalOK
  <2> QED BY <2>1, <1>3, <1>a, DownWoken, Zenon DEF CondReacquire, At
<1>4. ASSUME IdleUp \/ ReleaseUp \/ SignalUp PROVE NoLostWakeup'
  <2>1. PICK s \in Sem : sema_up(s)
    BY <1>4, <1>a, ZenonT(60) DEF IdleUp, ReleaseUp, SignalUp, At, LocalOK
  <2>2. /\ pc[current] # "down"
        /\ \A t \in Thread \ {current} : pc'[t] = pc[t] /\ obj'[t] = obj[t]
    BY <1>4, <1>a, Zenon DEF IdleUp, ReleaseUp, SignalUp, At, Goto
  <2> QED BY <2>1, <2>2, UpWoken, Zenon
<1>5. ASSUME \/ IdleInit \/ SetHolder \/ CondRelease \/ BroadcastLoop
             \/ TidRead \/ TidWrite \/ TidRelease
      PROVE  NoLostWakeup'
  <2>1. /\ status' = status /\ value' = value /\ waiters' = waiters
        /\ \A t \in Thread \ {current} : pc'[t] = pc[t] /\ obj'[t] = obj[t]
        /\ pc[current] # "down"
    BY <1>5, <1>a, Zenon DEF IdleInit, SetHolder, CondRelease, BroadcastLoop, TidRead,
         TidWrite, TidRelease, lock_release, pop_waiter, switchVars, Goto, At
  <2>2. StayWoken
    BY <2>1, Zenon DEF StayWoken
  <2> QED BY <2>1, <2>2, <1>a, FrameWoken
<1>6. ASSUME IdleBlock PROVE NoLostWakeup'
  <2>1. /\ obj' = obj /\ value' = value /\ waiters' = waiters
        /\ \A t \in Thread \ {current} : pc'[t] = pc[t]
        /\ pc[current] # "down"
    BY <1>6, <1>a, Zenon DEF IdleBlock, Goto, At
  <2>2. \A t \in Thread \ {current} : status'[t] \in {status[t], "RUNNING"}
    BY <1>6, <1>a, ScheduleOthers, ZenonT(60) DEF IdleBlock, thread_block
  <2>3. StayWoken
    BY <2>1, <2>2, Zenon DEF StayWoken
  <2> QED BY <2>1, <2>3, <1>a, FrameWoken
<1>7. ASSUME CreateUnblock \/ CreateFail PROVE NoLostWakeup'
  <2>1. /\ obj' = obj /\ value' = value /\ waiters' = waiters
        /\ \A t \in Thread \ {current} : pc'[t] = pc[t]
        /\ pc[current] # "down"
        /\ \A t \in Thread : status'[t] \in {status[t], "READY", "FREE"}
    BY <1>7, <1>a, Zenon DEF CreateUnblock, CreateFail, thread_unblock, Goto, At
  <2>2. StayWoken
    BY <2>1, Zenon DEF StayWoken
  <2> QED BY <2>1, <2>2, <1>a, FrameWoken, SMTT(30)
<1>8. ASSUME Boot PROVE NoLostWakeup'
  <2>1. PICK n \in Thread :
          /\ status[n] = "FREE" /\ status' = [status EXCEPT ![n] = "READY"]
          /\ pc' = [pc EXCEPT ![current] = "start_down", ![n] = "idle_init"]
          /\ UNCHANGED <<obj, value, waiters>> /\ pc[current] = "boot"
    BY <1>8, ZenonT(60) DEF Boot, thread_unblock, At
  <2>2. pc[n] = "run"
    BY <2>1, Zenon DEF Inv, LocalInv, LocalOK
  <2>3. StayWoken
    BY <2>1, <2>2, <1>a, Zenon DEF StayWoken
  <2> QED BY <2>1, <2>3, <1>a, FrameWoken
<1> QED BY <1>1, <1>2, <1>3, <1>4, <1>5, <1>6, <1>7, <1>8, Zenon DEF Continue

\* An interrupt.
LEMMA InterruptWoken == Inv /\ TypeOK' /\ NoLostWakeup /\ Interrupt => NoLostWakeup'
<1> SUFFICES ASSUME Inv, TypeOK', NoLostWakeup, Interrupt PROVE NoLostWakeup'
  BY Zenon
<1>a. /\ TypeOK /\ current \in Thread /\ pc \in [Thread -> Label]
      /\ value \in [Sem -> Nat] /\ Sema \subseteq Sem
  BY Zenon DEF Inv, TypeOK, ThreadsTypeOK, Sem
<1>b. /\ pc[current] # "down" /\ obj' = obj
      /\ \A t \in Thread \ {current} : pc'[t] = pc[t]
  BY <1>a, Zenon DEF Interrupt, TimerInterrupt, DeviceInterrupt, intr_on, EndHlt, Goto
<1>1. ASSUME NEW s \in Sema, DeviceInterrupt(s) PROVE NoLostWakeup'
  BY <1>1, <1>a, <1>b, UpWoken, Zenon DEF DeviceInterrupt
<1>2. ASSUME TimerInterrupt PROVE NoLostWakeup'
  <2>1. value' = value /\ waiters' = waiters
    BY <1>2, Zenon DEF TimerInterrupt
  <2>2. \A t \in Thread \ {current} : status'[t] \in {status[t], "RUNNING"}
    BY <1>2, <1>a, ScheduleOthers, Zenon DEF TimerInterrupt, thread_tick, thread_yield
  <2>3. StayWoken
    BY <2>2, <1>b, Zenon DEF StayWoken
  <2> QED BY <2>1, <2>3, <1>a, <1>b, FrameWoken, SMTT(30)
<1> QED BY <1>1, <1>2, Zenon DEF Interrupt

\* sema_down() and sema_up(): while threads sleep on a semaphore, each unit
\* of its value has a thread that sema_up() has woken and that will look at
\* the value again, for any number of threads that come in between.
THEOREM WakeupsArrive == Spec => []NoLostWakeup
<1>1. Init => NoLostWakeup
  BY DEF Init, NoLostWakeup
<1>2. Inv /\ Inv' /\ NoLostWakeup /\ [Next]_vars => NoLostWakeup'
  <2> SUFFICES ASSUME Inv, Inv', NoLostWakeup, [Next]_vars PROVE NoLostWakeup'
    BY Zenon
  <2>1. TypeOK'
    BY Zenon DEF Inv
  <2>2. CASE UNCHANGED vars
    BY <2>2, Zenon DEF vars, NoLostWakeup, Woken
  <2> QED BY <2>1, <2>2, CallWoken, ContinueWoken, InterruptWoken, Zenon DEF Next
<1> QED BY <1>1, <1>2, InvHolds, PTL DEF Spec
=============================================================================
