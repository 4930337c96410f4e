----------------------------- MODULE CondProofs -----------------------------
(***************************************************************************)
(* Proof that condition variables lose no signal: whatever waiter a list   *)
(* holds or a signaller has popped is on the stack of a thread still in    *)
(* that cond_wait(), and a thread in cond_wait() is on the list, about to  *)
(* be signalled or signalled, for any number of threads and conditions.    *)
(***************************************************************************)
EXTENDS SynchProofs

\* t is in cond_wait(), its waiter on its stack, and has not seen a signal.
Waiting(t) ==
  /\ cv[t] # NULL
  /\ \/ pc[t] \in {"cond_release", "release_up", "cond_down"}
     \/ pc[t] = "down" /\ obj[t] = t

\* A waiter on a condition's list belongs to a thread waiting there.
Queued ==
  \A c \in Cond :
    /\ IsInjective(cond_waiters[c])
    /\ \A t \in Range(cond_waiters[c]) : Waiting(t) /\ cv[t] = c /\ value[t] = 0

\* A waiter that has been popped is on no list, and has one signaller.
Popped ==
  \A u \in Thread : pc[u] = "signal_up" =>
    /\ Waiting(obj[u]) /\ value[obj[u]] = 0
    /\ \A c \in Cond : obj[u] \notin Range(cond_waiters[c])
    /\ \A v \in Thread : pc[v] = "signal_up" /\ obj[v] = obj[u] => v = u

\* Who waits is on the list, has been popped, or has been signalled.
Reached ==
  \A t \in Thread : Waiting(t) =>
    \/ t \in Range(cond_waiters[cv[t]])
    \/ value[t] = 1
    \/ \E u \in Thread : pc[u] = "signal_up" /\ obj[u] = t

WaiterInv == Queued /\ Popped /\ Reached

\* The lock that cond_wait() gives back is the one of its condition.
ReleaseInv ==
  \A t \in Thread :
    cv[t] # NULL /\ pc[t] = "release_up" => obj[t] = CondLock[cv[t]]

\* Until idle() has announced itself, main() waits for it in thread_start(),
\* and idle_started is down.
Starting == \E n \in Thread : pc[n] \in {"boot", "idle_init", "idle_up"}

StartInv ==
  Starting =>
    /\ value[initial_thread] = 0 /\ cv[initial_thread] = NULL
    /\ \/ pc[initial_thread] \in {"boot", "start_down"}
       \/ pc[initial_thread] = "down" /\ obj[initial_thread] = initial_thread

\* A step of the running thread.
OthersStay ==
  \A t \in Thread \ {current} : pc'[t] = pc[t] /\ obj'[t] = obj[t] /\ cv'[t] = cv[t]

\* What the lists hold and what signallers have popped are threads.
LEMMA WaiterTypes ==
  ASSUME Inv
  PROVE  /\ \A c \in Cond : Range(cond_waiters[c]) \subseteq Thread
         /\ \A u \in Thread : pc[u] = "signal_up" => obj[u] \in Thread
         /\ \A t \in Thread : Waiting(t) => cv[t] \in Cond
<1>1. \A c \in Cond : Range(cond_waiters[c]) \subseteq Thread
  BY QueueRange, Zenon DEF Inv, TypeOK
<1>2. \A u \in Thread : pc[u] = "signal_up" => obj[u] \in Thread
  BY Zenon DEF Inv, LocalInv, LocalOK
<1>3. \A t \in Thread : Waiting(t) => cv[t] \in Cond
  BY Zenon DEF Inv, TypeOK, Waiting
<1> QED BY <1>1, <1>2, <1>3, Zenon

\* A step that moves nobody into or out of the wait, and signals nobody.
LEMMA MoveWait ==
  ASSUME Inv, WaiterInv, cond_waiters' = cond_waiters, OthersStay,
         \A t \in Thread : Waiting(t) => value'[t] = value[t],
         NEW me \in Thread, me = current,
         pc[me] # "signal_up", pc'[me] # "signal_up",
         Waiting(me)' <=> Waiting(me), Waiting(me) => cv'[me] = cv[me]
  PROVE  WaiterInv'
<1>1. ASSUME NEW t \in Thread
      PROVE  /\ Waiting(t)' <=> Waiting(t)
             /\ Waiting(t) => cv'[t] = cv[t] /\ value'[t] = value[t]
             /\ pc'[t] = "signal_up" <=> pc[t] = "signal_up"
             /\ pc[t] = "signal_up" => obj'[t] = obj[t]
  <2>1. CASE t = me
    BY <2>1, Zenon
  <2>2. CASE t # me
    <3>1. pc'[t] = pc[t] /\ obj'[t] = obj[t] /\ cv'[t] = cv[t]
      BY <2>2, Zenon DEF OthersStay
    <3>2. Waiting(t)' <=> Waiting(t)
      BY <3>1, Zenon DEF Waiting
    <3> QED BY <3>1, <3>2, Zenon
  <2> QED BY <2>1, <2>2, Zenon
<1>2. Queued'
  <2> SUFFICES ASSUME NEW c \in Cond
               PROVE  /\ IsInjective(cond_waiters'[c])
                      /\ \A t \in Range(cond_waiters'[c]) :
                           Waiting(t)' /\ cv'[t] = c /\ value'[t] = 0
    BY Zenon DEF Queued
  <2> QED BY <1>1, WaiterTypes DEF WaiterInv, Queued
<1>3. Popped'
  <2> SUFFICES ASSUME NEW u \in Thread, pc'[u] = "signal_up"
               PROVE  /\ Waiting(obj[u])' /\ value'[obj[u]] = 0 /\ obj'[u] = obj[u]
                      /\ \A c \in Cond : obj[u] \notin Range(cond_waiters[c])
                      /\ \A v \in Thread :
                           pc'[v] = "signal_up" /\ obj'[v] = obj[u] => v = u
    BY DEF Popped, Waiting
  <2>1. pc[u] = "signal_up" /\ obj'[u] = obj[u] /\ obj[u] \in Thread
    BY <1>1, WaiterTypes, Zenon
  <2> QED BY <2>1, <1>1 DEF WaiterInv, Popped
<1>4. Reached'
  BY <1>1 DEF WaiterInv, Reached
<1> QED BY <1>2, <1>3, <1>4, Zenon DEF WaiterInv

\* cond_wait() joins the list.
LEMMA JoinWait ==
  ASSUME Inv, WaiterInv, NEW c \in Cond, CondWait(c)
  PROVE  WaiterInv'
<1>a. /\ current \in Thread /\ pc \in [Thread -> Label] /\ value \in [Sem -> Nat]
      /\ cv \in [Thread -> Cond \cup {NULL}] /\ Thread \subseteq Sem
      /\ cond_waiters \in [Cond -> Seq(Thread)]
      /\ c # NULL /\ pc[current] = "run"
  BY SynchAssumption, Zenon DEF Inv, TypeOK, ThreadsTypeOK, Sem, CondWait, At
<1>1. /\ value'[current] = 0 /\ cv'[current] = c /\ pc'[current] = "cond_release"
      /\ obj' = obj /\ current' = current
      /\ \A t \in Thread \ {current} :
           value'[t] = value[t] /\ pc'[t] = pc[t] /\ cv'[t] = cv[t]
      /\ cond_waiters'[c] = Append(cond_waiters[c], current)
      /\ \A d \in Cond \ {c} : cond_waiters'[d] = cond_waiters[d]
  BY <1>a, Zenon DEF CondWait, Goto, switchVars
<1>2. /\ ~Waiting(current) /\ Waiting(current)'
      /\ \A t \in Thread \ {current} : Waiting(t)' <=> Waiting(t)
  <2>1. ~Waiting(current) /\ Waiting(current)'
    BY <1>1, <1>a, Zenon DEF Waiting
  <2>2. ASSUME NEW t \in Thread \ {current} PROVE Waiting(t)' <=> Waiting(t)
    BY <1>1, Zenon DEF Waiting
  <2> QED BY <2>1, <2>2, Zenon
<1>3. /\ \A d \in Cond : current \notin Range(cond_waiters[d])
      /\ \A u \in Thread : pc[u] = "signal_up" => obj[u] # current
  BY <1>2, Zenon DEF WaiterInv, Queued, Popped
<1>4. /\ IsInjective(cond_waiters'[c])
      /\ Range(cond_waiters'[c]) = Range(cond_waiters[c]) \cup {current}
  BY <1>1, <1>3, <1>a, AppendQueue DEF WaiterInv, Queued
<1>5. Queued'
  <2> SUFFICES ASSUME NEW d \in Cond
               PROVE  /\ IsInjective(cond_waiters'[d])
                      /\ \A t \in Range(cond_waiters'[d]) :
                           Waiting(t)' /\ cv'[t] = d /\ value'[t] = 0
    BY Zenon DEF Queued
  <2>1. CASE d = c
    <3>1. ASSUME NEW t \in Range(cond_waiters[c])
          PROVE  Waiting(t)' /\ cv'[t] = c /\ value'[t] = 0
      <4>1. t \in Thread \ {current} /\ Waiting(t) /\ cv[t] = c /\ value[t] = 0
        BY <1>3, WaiterTypes, Zenon DEF WaiterInv, Queued
      <4> QED BY <4>1, <1>1, <1>2, Zenon
    <3> QED BY <2>1, <3>1, <1>1, <1>2, <1>4, Zenon
  <2>2. CASE d # c
    BY <2>2, <1>1, <1>2, <1>3, WaiterTypes DEF WaiterInv, Queued
  <2> QED BY <2>1, <2>2, Zenon
<1>6. \A u \in Thread : pc'[u] = "signal_up" => pc[u] = "signal_up" /\ u # current
  BY <1>1, Zenon
<1>7. Popped'
  <2> SUFFICES ASSUME NEW u \in Thread, pc'[u] = "signal_up"
               PROVE  /\ Waiting(obj[u])' /\ value'[obj[u]] = 0
                      /\ \A d \in Cond : obj[u] \notin Range(cond_waiters'[d])
                      /\ \A v \in Thread :
                           pc'[v] = "signal_up" /\ obj[v] = obj[u] => v = u
    BY <1>1 DEF Popped, Waiting
  <2>1. pc[u] = "signal_up" /\ obj[u] \in Thread \ {current}
    BY <1>3, <1>6, WaiterTypes, Zenon
  <2>2. /\ Waiting(obj[u]) /\ value[obj[u]] = 0
        /\ \A d \in Cond : obj[u] \notin Range(cond_waiters[d])
        /\ \A v \in Thread : pc[v] = "signal_up" /\ obj[v] = obj[u] => v = u
    BY <2>1, Zenon DEF WaiterInv, Popped
  <2>3. \A d \in Cond : obj[u] \notin Range(cond_waiters'[d])
    BY <2>1, <2>2, <1>1, <1>4, Zenon
  <2> QED BY <2>1, <2>2, <2>3, <1>1, <1>2, <1>6, Zenon
<1>8. Reached'
  <2> SUFFICES ASSUME NEW t \in Thread, Waiting(t)'
               PROVE  \/ t \in Range(cond_waiters'[cv'[t]])
                      \/ value'[t] = 1
                      \/ \E u \in Thread : pc'[u] = "signal_up" /\ obj[u] = t
    BY <1>1, Zenon DEF Reached
  <2>1. CASE t = current
    BY <2>1, <1>1, <1>4, Zenon
  <2>2. CASE t # current
    <3>1. Waiting(t) /\ cv'[t] = cv[t] /\ cv[t] \in Cond /\ value'[t] = value[t]
      BY <2>2, <1>1, <1>2, WaiterTypes, Zenon
    <3>2. Range(cond_waiters[cv[t]]) \subseteq Range(cond_waiters'[cv[t]])
      BY <3>1, <1>1, <1>4, Zenon
    <3>3. \A u \in Thread : pc[u] = "signal_up" => pc'[u] = "signal_up"
      BY <1>1, <1>a, Zenon
    <3> QED BY <3>1, <3>2, <3>3, Zenon DEF WaiterInv, Reached
  <2> QED BY <2>1, <2>2, Zenon
<1> QED BY <1>5, <1>7, <1>8, Zenon DEF WaiterInv

\* A signalled thread takes the unit of its waiter and leaves the wait.
LEMMA LeaveWait ==
  ASSUME Inv, WaiterInv, cond_waiters' = cond_waiters, OthersStay,
         NEW me \in Thread, me = current,
         \A t \in Thread \ {me} : value'[t] = value[t],
         value[me] > 0, Waiting(me), ~Waiting(me)', pc'[me] # "signal_up"
  PROVE  WaiterInv'
<1>1. pc[me] # "signal_up"
  BY Zenon DEF Waiting
<1>2. ASSUME NEW t \in Thread \ {me}
      PROVE  /\ Waiting(t)' <=> Waiting(t)
             /\ cv'[t] = cv[t] /\ value'[t] = value[t]
             /\ pc'[t] = pc[t] /\ obj'[t] = obj[t]
  BY Zenon DEF OthersStay, Waiting
<1>3. /\ \A c \in Cond : me \notin Range(cond_waiters[c])
      /\ \A u \in Thread : pc[u] = "signal_up" => obj[u] # me
  BY DEF WaiterInv, Queued, Popped
<1>4. Queued'
  <2> SUFFICES ASSUME NEW c \in Cond
               PROVE  /\ IsInjective(cond_waiters[c])
                      /\ \A t \in Range(cond_waiters[c]) :
                           Waiting(t)' /\ cv'[t] = c /\ value'[t] = 0
    BY Zenon DEF Queued
  <2> QED BY <1>2, <1>3, WaiterTypes DEF WaiterInv, Queued
<1>5. \A u \in Thread : pc'[u] = "signal_up" =>
        pc[u] = "signal_up" /\ u # me /\ obj'[u] = obj[u]
  BY <1>2, Zenon
<1>6. Popped'
  <2> SUFFICES ASSUME NEW u \in Thread, pc'[u] = "signal_up"
               PROVE  /\ Waiting(obj[u])' /\ value'[obj[u]] = 0 /\ obj'[u] = obj[u]
                      /\ \A c \in Cond : obj[u] \notin Range(cond_waiters[c])
                      /\ \A v \in Thread :
                           pc'[v] = "signal_up" /\ obj'[v] = obj[u] => v = u
    BY DEF Popped, Waiting
  <2>1. pc[u] = "signal_up" /\ obj'[u] = obj[u] /\ obj[u] \in Thread \ {me}
    BY <1>3, <1>5, WaiterTypes, Zenon
  <2> QED BY <2>1, <1>2, <1>5 DEF WaiterInv, Popped
<1>7. Reached'
  BY <1>1, <1>2 DEF WaiterInv, Reached
<1> QED BY <1>4, <1>6, <1>7, Zenon DEF WaiterInv

\* cond_signal() pops the first waiter.
LEMMA PopWait ==
  ASSUME Inv, WaiterInv, NEW c \in Cond, pop_waiter(c),
         pc[current] \in {"run", "broadcast"}, UNCHANGED <<value, cv, current>>
  PROVE  WaiterInv'
<1>a. /\ current \in Thread /\ pc \in [Thread -> Label]
      /\ obj \in [Thread -> Sem \cup {NULL}] /\ cond_waiters \in [Cond -> Seq(Thread)]
  BY Zenon DEF Inv, TypeOK, ThreadsTypeOK
<1>1. PICK h : h = Head(cond_waiters[c])
  BY Zenon
<1>2. /\ pc'[current] = "signal_up" /\ obj'[current] = h
      /\ \A t \in Thread \ {current} : pc'[t] = pc[t] /\ obj'[t] = obj[t]
      /\ cond_waiters[c] # <<>> /\ cond_waiters'[c] = Tail(cond_waiters[c])
      /\ \A d \in Cond \ {c} : cond_waiters'[d] = cond_waiters[d]
  BY <1>1, <1>a, Zenon DEF pop_waiter, Goto
<1>3. /\ h \in Thread /\ h \notin Range(cond_waiters'[c])
      /\ Range(cond_waiters[c]) = Range(cond_waiters'[c]) \cup {h}
      /\ IsInjective(cond_waiters'[c])
  BY <1>1, <1>2, <1>a, TailQueue DEF WaiterInv, Queued
<1>4. Waiting(h) /\ cv[h] = c /\ value[h] = 0
  BY <1>3, Zenon DEF WaiterInv, Queued
<1>5. ASSUME NEW t \in Thread PROVE Waiting(t)' <=> Waiting(t)
  <2>1. CASE t = current
    BY <2>1, <1>2, Zenon DEF Waiting
  <2>2. CASE t # current
    BY <2>2, <1>2, Zenon DEF Waiting
  <2> QED BY <2>1, <2>2, Zenon
<1>6. \A d \in Cond : h \notin Range(cond_waiters'[d])
  BY <1>2, <1>3, <1>4 DEF WaiterInv, Queued
<1>7. \A d \in Cond : Range(cond_waiters'[d]) \subseteq Range(cond_waiters[d])
  BY <1>2, <1>3, Zenon
<1>8. Queued'
  <2> SUFFICES ASSUME NEW d \in Cond
               PROVE  /\ IsInjective(cond_waiters'[d])
                      /\ \A t \in Range(cond_waiters'[d]) :
                           Waiting(t)' /\ cv[t] = d /\ value[t] = 0
    BY Zenon DEF Queued
  <2>1. IsInjective(cond_waiters'[d])
    BY <1>2, <1>3, Zenon DEF WaiterInv, Queued
  <2>2. ASSUME NEW t \in Range(cond_waiters'[d])
        PROVE  Waiting(t)' /\ cv[t] = d /\ value[t] = 0
    BY <1>5, <1>7, WaiterTypes, Zenon DEF WaiterInv, Queued
  <2> QED BY <2>1, <2>2, Zenon
<1>9. \A u \in Thread : pc[u] = "signal_up" => obj[u] # h
  BY <1>3, Zenon DEF WaiterInv, Popped
<1>10. Popped'
  <2> SUFFICES ASSUME NEW u \in Thread, pc'[u] = "signal_up"
               PROVE  /\ Waiting(obj[u])' /\ value[obj'[u]] = 0
                      /\ \A d \in Cond : obj'[u] \notin Range(cond_waiters'[d])
                      /\ \A v \in Thread :
                           pc'[v] = "signal_up" /\ obj'[v] = obj'[u] => v = u
    BY Zenon DEF Popped, Waiting
  <2>1. CASE u = current
    <3>1. obj'[u] = h /\ Waiting(h)'
      BY <2>1, <1>2, <1>3, <1>4, <1>5, Zenon
    <3>2. Waiting(obj[u])'
      BY <3>1, Zenon DEF Waiting
    <3>3. \A v \in Thread : pc'[v] = "signal_up" /\ obj'[v] = h => v = current
      BY <1>2, <1>9, Zenon
    <3> QED BY <2>1, <3>1, <3>2, <3>3, <1>4, <1>6, Zenon
  <2>2. CASE u # current
    <3>1. pc[u] = "signal_up" /\ obj'[u] = obj[u] /\ obj[u] \in Thread
      BY <2>2, <1>2, WaiterTypes, Zenon
    <3>2. /\ Waiting(obj[u]) /\ value[obj[u]] = 0
          /\ \A d \in Cond : obj[u] \notin Range(cond_waiters[d])
          /\ \A v \in Thread : pc[v] = "signal_up" /\ obj[v] = obj[u] => v = u
      BY <3>1, Zenon DEF WaiterInv, Popped
    <3>3. Waiting(obj[u])'
      <4>1. PICK w \in Thread : w = obj[u]
        BY <3>1, Zenon
      <4>2. Waiting(w)'
        BY <4>1, <3>2, <1>5, Zenon
      <4> QED BY <4>1, <4>2, <3>1, Zenon DEF Waiting
    <3>4. \A v \in Thread : pc'[v] = "signal_up" /\ obj'[v] = obj[u] => v = u
      BY <3>1, <3>2, <1>2, <1>9
    <3>5. \A d \in Cond : obj[u] \notin Range(cond_waiters'[d])
      BY <3>2, <1>7, Zenon
    <3> QED BY <3>1, <3>2, <3>3, <3>4, <3>5, Zenon
  <2> QED BY <2>1, <2>2, Zenon
<1>11. Reached'
  <2> SUFFICES ASSUME NEW t \in Thread, Waiting(t)'
               PROVE  \/ t \in Range(cond_waiters'[cv[t]])
                      \/ value[t] = 1
                      \/ \E u \in Thread : pc'[u] = "signal_up" /\ obj'[u] = t
    BY Zenon DEF Reached
  <2>1. CASE t = h
    BY <2>1, <1>2, <1>a, Zenon
  <2>2. CASE t # h
    <3>1. Waiting(t) /\ cv[t] \in Cond
      BY <1>5, WaiterTypes, Zenon
    <3>2. t \in Range(cond_waiters[cv[t]]) => t \in Range(cond_waiters'[cv[t]])
      BY <2>2, <3>1, <1>2, <1>3, Zenon
    <3>3. \A u \in Thread : pc[u] = "signal_up" =>
            pc'[u] = "signal_up" /\ obj'[u] = obj[u]
      BY <1>2, Zenon
    <3> QED BY <3>1, <3>2, <3>3 DEF WaiterInv, Reached
  <2> QED BY <2>1, <2>2, Zenon
<1> QED BY <1>8, <1>10, <1>11, Zenon DEF WaiterInv

\* cond_signal() ups the waiter that it has popped.
LEMMA SignalWait ==
  ASSUME Inv, WaiterInv, SignalUp
  PROVE  WaiterInv'
<1>a. /\ current \in Thread /\ pc \in [Thread -> Label] /\ value \in [Sem -> Nat]
      /\ obj \in [Thread -> Sem \cup {NULL}] /\ Thread \subseteq Sem
      /\ pc[current] = "signal_up"
  BY Zenon DEF Inv, TypeOK, ThreadsTypeOK, Sem, SignalUp, At
<1>1. PICK h \in Thread : h = obj[current]
  BY <1>a, WaiterTypes, Zenon
<1>2. /\ pc'[current] \in {"broadcast", "run"} /\ cv' = cv
      /\ cond_waiters' = cond_waiters
      /\ \A t \in Thread \ {current} : pc'[t] = pc[t] /\ obj'[t] = obj[t]
      /\ value'[h] = value[h] + 1
      /\ \A t \in Thread \ {h} : value'[t] = value[t]
  BY <1>1, <1>a, Zenon DEF SignalUp, sema_up, Goto
<1>3. /\ Waiting(h) /\ value[h] = 0
      /\ \A c \in Cond : h \notin Range(cond_waiters[c])
      /\ \A v \in Thread : pc[v] = "signal_up" /\ obj[v] = h => v = current
  BY <1>1, <1>a, Zenon DEF WaiterInv, Popped
<1>4. ASSUME NEW t \in Thread PROVE Waiting(t)' <=> Waiting(t)
  <2>1. CASE t = current
    BY <2>1, <1>2, <1>a, Zenon DEF Waiting
  <2>2. CASE t # current
    BY <2>2, <1>2, Zenon DEF Waiting
  <2> QED BY <2>1, <2>2, Zenon
<1>5. Queued'
  <2> SUFFICES ASSUME NEW c \in Cond
               PROVE  /\ IsInjective(cond_waiters[c])
                      /\ \A t \in Range(cond_waiters[c]) :
                           Waiting(t)' /\ cv[t] = c /\ value'[t] = 0
    BY <1>2, Zenon DEF Queued
  <2> QED BY <1>2, <1>3, <1>4, WaiterTypes DEF WaiterInv, Queued
<1>6. ASSUME NEW u \in Thread, pc'[u] = "signal_up"
      PROVE  pc[u] = "signal_up" /\ u # current /\ obj'[u] = obj[u]
             /\ obj[u] \in Thread \ {h}
  BY <1>2, <1>3, <1>6, WaiterTypes, Zenon
<1>7. Popped'
  <2> SUFFICES ASSUME NEW u \in Thread, pc'[u] = "signal_up"
               PROVE  /\ Waiting(obj[u])' /\ value'[obj'[u]] = 0
                      /\ \A c \in Cond : obj'[u] \notin Range(cond_waiters[c])
                      /\ \A v \in Thread :
                           pc'[v] = "signal_up" /\ obj'[v] = obj'[u] => v = u
    BY <1>2, Zenon DEF Popped, Waiting
  <2>1. PICK w \in Thread \ {h} : w = obj[u]
    BY <1>6, Zenon
  <2>2. pc[u] = "signal_up" /\ obj'[u] = w
    BY <2>1, <1>6, Zenon
  <2>3. /\ Waiting(w) /\ value[w] = 0
        /\ \A c \in Cond : w \notin Range(cond_waiters[c])
        /\ \A v \in Thread : pc[v] = "signal_up" /\ obj[v] = w => v = u
    BY <2>1, <2>2, Zenon DEF WaiterInv, Popped
  <2>4. Waiting(w)' /\ value'[w] = 0
    BY <2>3, <1>2, <1>4, Zenon
  <2>5. Waiting(obj[u])'
    BY <2>2, <2>4, Zenon DEF Waiting
  <2>6. \A v \in Thread : pc'[v] = "signal_up" /\ obj'[v] = w => v = u
    BY <2>3, <1>6, Zenon
  <2> QED BY <2>2, <2>3, <2>4, <2>5, <2>6, Zenon
<1>8. Reached'
  <2> SUFFICES ASSUME NEW t \in Thread, Waiting(t)'
               PROVE  \/ t \in Range(cond_waiters[cv[t]])
                      \/ value'[t] = 1
                      \/ \E u \in Thread : pc'[u] = "signal_up" /\ obj'[u] = t
    BY <1>2, Zenon DEF Reached
  <2>1. CASE t = h
    BY <2>1, <1>2, <1>3
  <2>2. CASE t # h
    <3>1. Waiting(t) /\ value'[t] = value[t]
      BY <2>2, <1>2, <1>4, Zenon
    <3>2. \A u \in Thread : pc[u] = "signal_up" /\ obj[u] = t =>
            pc'[u] = "signal_up" /\ obj'[u] = t
      BY <2>2, <1>1, <1>2, Zenon
    <3> QED BY <3>1, <3>2, Zenon DEF WaiterInv, Reached
  <2> QED BY <2>1, <2>2, Zenon
<1> QED BY <1>5, <1>7, <1>8, Zenon DEF WaiterInv

\* sema_down() moves the running thread and touches one value.
LEMMA DownMoves ==
  ASSUME TypeOK, NEW s \in Sem, sema_down(s), cv' = cv,
         NEW me \in Thread, me = current
  PROVE  /\ OthersStay
         /\ \A r \in Sem \ {s} : value'[r] = value[r]
         /\ \/ pc'[me] = "down" /\ obj'[me] = s /\ value' = value
            \/ pc'[me] \in {"set_holder", "reacquire", "run"} /\ value[s] > 0
<1>a. /\ pc \in [Thread -> Label] /\ value \in [Sem -> Nat]
      /\ obj \in [Thread -> Sem \cup {NULL}]
  BY Zenon DEF TypeOK
<1>1. AfterDown(s) \in {"set_holder", "reacquire", "run"}
  BY Zenon DEF AfterDown
<1>2. OthersStay
  BY <1>a, Zenon DEF OthersStay, sema_down, Goto
<1>3. \A r \in Sem \ {s} : value'[r] = value[r]
  BY <1>a, Zenon DEF sema_down
<1>4. \/ pc'[me] = "down" /\ obj'[me] = s /\ value' = value
      \/ pc'[me] \in {"set_holder", "reacquire", "run"} /\ value[s] > 0
  BY <1>1, <1>a, Zenon DEF sema_down, Goto
<1> QED BY <1>2, <1>3, <1>4, Zenon

\* sema_down(), on the waiter of the running thread or on something else.
LEMMA DownWait ==
  ASSUME Inv, WaiterInv, cond_waiters' = cond_waiters, cv' = cv,
         NEW s \in Sem, sema_down(s), s \in Thread => s = current,
         pc[current] # "signal_up",
         Waiting(current) <=> s = current /\ cv[current] # NULL
  PROVE  WaiterInv'
<1>1. PICK me \in Thread : me = current
  BY Zenon DEF Inv, TypeOK, ThreadsTypeOK
<1>2. /\ OthersStay
      /\ \A r \in Sem \ {s} : value'[r] = value[r]
      /\ \/ pc'[me] = "down" /\ obj'[me] = s /\ value' = value
         \/ pc'[me] \in {"set_holder", "reacquire", "run"} /\ value[s] > 0
  BY <1>1, DownMoves, Zenon DEF Inv
<1>3. Thread \subseteq Sem
  BY Zenon DEF Sem
<1>4. CASE pc'[me] = "down" /\ obj'[me] = s /\ value' = value
  <2>1. Waiting(me)' <=> Waiting(me)
    BY <1>1, <1>4, Zenon DEF Waiting
  <2> QED BY <2>1, <1>1, <1>2, <1>4, MoveWait, Zenon
<1>5. CASE pc'[me] \in {"set_holder", "reacquire", "run"} /\ value[s] > 0
  <2>1. ~Waiting(me)'
    BY <1>5, Zenon DEF Waiting
  <2>2. CASE Waiting(me)
    <3>1. s = me
      BY <1>1, <2>2, Zenon
    <3>2. \A t \in Thread \ {me} : value'[t] = value[t]
      BY <3>1, <1>2, <1>3, Zenon
    <3> QED BY <2>1, <2>2, <3>1, <3>2, <1>1, <1>2, <1>5, LeaveWait, Zenon
  <2>3. CASE ~Waiting(me)
    <3>1. \A t \in Thread : Waiting(t) => value'[t] = value[t]
      BY <2>3, <1>1, <1>2, <1>3, Zenon
    <3> QED BY <2>1, <2>3, <3>1, <1>1, <1>2, <1>5, MoveWait, Zenon
  <2> QED BY <2>2, <2>3, Zenon
<1> QED BY <1>2, <1>4, <1>5, Zenon

\* A step of a thread that is not in cond_wait().
LEMMA OtherWait ==
  ASSUME Inv, WaiterInv, cond_waiters' = cond_waiters, OthersStay,
         \A t \in Thread : value'[t] = value[t],
         NEW me \in Thread, me = current,
         pc[me] # "signal_up", pc'[me] # "signal_up",
         ~Waiting(me), ~Waiting(me)'
  PROVE  WaiterInv'
BY MoveWait, Zenon

\* A call that a client makes.
LEMMA CallWait == Inv /\ WaiterInv /\ Call => WaiterInv'
<1> SUFFICES ASSUME Inv, WaiterInv, Call PROVE WaiterInv'
  BY Zenon
<1>a. /\ pc \in [Thread -> Label] /\ obj \in [Thread -> Sem \cup {NULL}]
      /\ value \in [Sem -> Nat] /\ cv \in [Thread -> Cond \cup {NULL}]
      /\ Thread \subseteq Sem /\ Sema \subseteq Sem /\ Lock \subseteq Sem
  BY Zenon DEF Inv, TypeOK, Sem
<1>b. PICK me \in Thread : me = current
  BY Zenon DEF Inv, TypeOK, ThreadsTypeOK
<1>c. pc[me] = "run"
  BY <1>b, Zenon DEF Call, SemaDown, SemaTryDown, SemaUp, LockAcquire, LockTryAcquire,
         LockRelease, CondWait, CondSignal, CondBroadcast, ThreadCreate,
         ThreadYield, ThreadExit, At
<1>d. cv[me] = NULL /\ ~Waiting(me)
  BY <1>c, Zenon DEF Inv, LocalInv, LocalOK, InCond, Waiting
<1>1. ASSUME NEW s \in Sema, SemaDown(s) PROVE WaiterInv'
  BY <1>1, <1>a, <1>b, <1>c, <1>d, DownWait, SynchAssumption, Zenon DEF SemaDown
<1>2. ASSUME NEW l \in ClientLock, LockAcquire(l) PROVE WaiterInv'
  BY <1>2, <1>a, <1>b, <1>c, <1>d, DownWait, SynchAssumption, Zenon DEF LockAcquire, ClientLock
<1>3. ASSUME NEW s \in Sema, SemaTryDown(s) \/ SemaUp(s) PROVE WaiterInv'
  <2>1. \A t \in Thread : value'[t] = value[t]
    BY <1>3, <1>a, SynchAssumption DEF SemaTryDown, SemaUp, sema_try_down, sema_up
  <2>2. cond_waiters' = cond_waiters /\ UNCHANGED <<pc, obj, cv>>
    BY <1>3, Zenon DEF SemaTryDown, SemaUp
  <2>3. OthersStay /\ ~Waiting(me)'
    BY <2>2, <1>d, Zenon DEF OthersStay, Waiting
  <2> QED BY <2>1, <2>2, <2>3, <1>b, <1>c, <1>d, OtherWait, Zenon
<1>4. ASSUME NEW l \in ClientLock, LockTryAcquire(l) \/ LockRelease(l)
      PROVE  WaiterInv'
  <2>1. l \in Lock /\ l \notin Thread
    BY SynchAssumption, Zenon DEF ClientLock
  <2>2. \A t \in Thread : value'[t] = value[t]
    BY <1>4, <2>1, <1>a, Zenon DEF LockTryAcquire, LockRelease, sema_try_down, lock_release
  <2>3. /\ cond_waiters' = cond_waiters /\ cv' = cv /\ OthersStay
        /\ pc'[me] \in {"set_holder", "release_up"}
    BY <1>4, <1>a, <1>b, Zenon DEF LockTryAcquire, LockRelease, lock_release, Goto, OthersStay
  <2>4. ~Waiting(me)'
    BY <2>3, <1>d, Zenon DEF Waiting
  <2> QED BY <2>2, <2>3, <2>4, <1>b, <1>c, <1>d, OtherWait, Zenon
<1>5. ASSUME NEW c \in Cond, CondSignal(c) PROVE WaiterInv'
  BY <1>5, <1>b, <1>c, PopWait, Zenon DEF CondSignal, switchVars
<1>6. ASSUME NEW c \in Cond, CondBroadcast(c) PROVE WaiterInv'
  <2>1. /\ cond_waiters' = cond_waiters /\ value' = value /\ OthersStay
        /\ pc'[me] = "broadcast"
    BY <1>6, <1>a, <1>b, Zenon DEF CondBroadcast, Goto, OthersStay
  <2>2. ~Waiting(me)'
    BY <2>1, Zenon DEF Waiting
  <2> QED BY <2>1, <2>2, <1>b, <1>c, <1>d, OtherWait, Zenon
<1>7. ASSUME (\E n \in Thread : ThreadCreate(n)) \/ ThreadYield \/ ThreadExit
      PROVE  WaiterInv'
  <2>1. /\ cond_waiters' = cond_waiters /\ value' = value /\ OthersStay
        /\ pc'[me] \in {"run", "tid_acquire"}
    BY <1>7, <1>a, <1>b, <1>c, Zenon DEF ThreadCreate, ThreadYield, ThreadExit, Goto,
         OthersStay, localVars
  <2>2. ~Waiting(me)'
    BY <2>1, Zenon DEF Waiting
  <2> QED BY <2>1, <2>2, <1>b, <1>c, <1>d, OtherWait, Zenon
<1> QED BY <1>1, <1>2, <1>3, <1>4, <1>5, <1>6, <1>7, JoinWait, Zenon DEF Call

\* A step that finishes a call, and an interrupt.
LEMMA ContinueWait ==
  Inv /\ WaiterInv /\ StartInv /\ (Continue \/ Interrupt) => WaiterInv'
<1> SUFFICES ASSUME Inv, WaiterInv, StartInv, Continue \/ Interrupt
             PROVE  WaiterInv'
  BY Zenon
<1>a. /\ pc \in [Thread -> Label] /\ obj \in [Thread -> Sem \cup {NULL}]
      /\ value \in [Sem -> Nat] /\ cv \in [Thread -> Cond \cup {NULL}]
      /\ Thread \subseteq Sem /\ Sema \subseteq Sem /\ Lock \subseteq Sem
      /\ tid_lock \in Lock /\ initial_thread \in Thread
  BY ThreadAssumption, SynchAssumption, Zenon DEF Inv, TypeOK, Sem
<1>b. PICK me \in Thread : me = current
  BY Zenon DEF Inv, TypeOK, ThreadsTypeOK
<1>c. LocalOK(me)
  BY Zenon DEF Inv, LocalInv
<1>1. ASSUME StartDown PROVE WaiterInv'
  <2>1. pc[me] = "start_down" /\ cv[me] = NULL
    BY <1>1, <1>b, <1>c, Zenon DEF StartDown, At, LocalOK, InCond
  <2>2. ~Waiting(me)
    BY <2>1, Zenon DEF Waiting
  <2> QED BY <2>1, <2>2, <1>1, <1>a, <1>b, DownWait, Zenon DEF StartDown
<1>2. ASSUME TidAcquire PROVE WaiterInv'
  <2>1. pc[me] = "tid_acquire" /\ ~Waiting(me) /\ tid_lock \notin Thread
    BY <1>2, <1>b, SynchAssumption, Zenon DEF TidAcquire, At, Waiting
  <2> QED BY <2>1, <1>2, <1>a, <1>b, DownWait, Zenon DEF TidAcquire
<1>3. ASSUME CondReacquire PROVE WaiterInv'
  <2>1. pc[me] = "reacquire" /\ ~Waiting(me) /\ cv[me] \in Cond
    BY <1>3, <1>b, <1>c, Zenon DEF CondReacquire, At, Waiting, LocalOK
  <2>2. CondLock[cv[me]] \in Lock /\ CondLock[cv[me]] \notin Thread
    BY <2>1, SynchAssumption, Zenon
  <2> QED BY <2>1, <2>2, <1>3, <1>a, <1>b, DownWait, Zenon DEF CondReacquire
<1>4. ASSUME CondDown PROVE WaiterInv'
  <2>1. pc[me] = "cond_down" /\ cv[me] # NULL
    BY <1>4, <1>b, <1>c, SynchAssumption, Zenon DEF CondDown, At, LocalOK
  <2>2. Waiting(me)
    BY <2>1, Zenon DEF Waiting
  <2> QED BY <2>1, <2>2, <1>4, <1>a, <1>b, DownWait, Zenon DEF CondDown
<1>5. ASSUME Resume PROVE WaiterInv'
  <2>1. /\ pc[me] = "down" /\ obj[me] \in Sem
        /\ obj[me] \in Thread => obj[me] = me
    BY <1>5, <1>b, <1>c, Zenon DEF Resume, At, LocalOK
  <2>2. Waiting(me) <=> obj[me] = me /\ cv[me] # NULL
    BY <2>1, Zenon DEF Waiting
  <2> QED BY <2>1, <2>2, <1>5, <1>b, DownWait, Zenon DEF Resume
<1>6. ASSUME IdleUp PROVE WaiterInv'
  <2>1. /\ cond_waiters' = cond_waiters /\ cv' = cv /\ OthersStay
        /\ pc[me] = "idle_up" /\ pc'[me] = "idle_loop"
        /\ \A t \in Thread \ {initial_thread} : value'[t] = value[t]
    BY <1>6, <1>a, <1>b, Zenon DEF IdleUp, sema_up, Goto, At, OthersStay
  <2>2. ~Waiting(initial_thread)
    BY <2>1, Zenon DEF StartInv, Starting, Waiting
  <2>3. ~Waiting(me) /\ ~Waiting(me)'
    BY <2>1, Zenon DEF Waiting
  <2>4. \A t \in Thread : Waiting(t) => value'[t] = value[t]
    BY <2>1, <2>2, Zenon
  <2> QED BY <2>1, <2>3, <2>4, <1>b, MoveWait, Zenon
<1>7. ASSUME ReleaseUp PROVE WaiterInv'
  <2>1. obj[me] \in Lock /\ obj[me] \notin Thread /\ pc[me] = "release_up"
    BY <1>7, <1>b, <1>c, SynchAssumption, Zenon DEF ReleaseUp, At, LocalOK
  <2>2. /\ cond_waiters' = cond_waiters /\ cv' = cv /\ OthersStay
        /\ \A t \in Thread : value'[t] = value[t]
    BY <1>7, <2>1, <1>a, <1>b, Zenon DEF ReleaseUp, sema_up, Goto, OthersStay
  <2>3. /\ pc'[me] \in {"cond_down", "create_end", "run"}
        /\ pc'[me] = "cond_down" <=> cv[me] # NULL
    <3>1. pc'[me] = AfterRelease
      BY <1>7, <1>a, <1>b, Zenon DEF ReleaseUp, Goto
    <3>2. CASE cv[me] # NULL
      <4>1. child[me] = NULL
        BY <3>2, <2>1, <1>c, Zenon DEF LocalOK, InCond, InCreate
      <4> QED BY <4>1, <3>1, <3>2, <1>b, Zenon DEF AfterRelease
    <3>3. CASE cv[me] = NULL
      BY <3>1, <3>3, <1>b, Zenon DEF AfterRelease
    <3> QED BY <3>2, <3>3, Zenon
  <2>4. Waiting(me)' <=> Waiting(me)
    BY <2>1, <2>2, <2>3, Zenon DEF Waiting
  <2> QED BY <2>1, <2>2, <2>3, <2>4, <1>b, MoveWait, Zenon
<1>8. ASSUME CondRelease PROVE WaiterInv'
  <2>1. /\ cond_waiters' = cond_waiters /\ cv' = cv /\ OthersStay /\ value' = value
        /\ pc[me] = "cond_release" /\ pc'[me] = "release_up"
    BY <1>8, <1>a, <1>b, Zenon DEF CondRelease, lock_release, Goto, At, OthersStay
  <2>2. Waiting(me)' <=> Waiting(me)
    BY <2>1, Zenon DEF Waiting
  <2> QED BY <2>1, <2>2, <1>b, MoveWait, Zenon
<1>9. ASSUME TidRelease PROVE WaiterInv'
  <2>1. /\ cond_waiters' = cond_waiters /\ cv' = cv /\ OthersStay /\ value' = value
        /\ pc[me] = "tid_release" /\ pc'[me] = "release_up"
    BY <1>9, <1>a, <1>b, Zenon DEF TidRelease, lock_release, Goto, At, OthersStay
  <2>2. cv[me] = NULL
    BY <2>1, <1>c, Zenon DEF LocalOK, InCond
  <2>3. ~Waiting(me) /\ ~Waiting(me)'
    BY <2>1, <2>2, Zenon DEF Waiting
  <2> QED BY <2>1, <2>3, <1>b, OtherWait, Zenon
<1>10. ASSUME BroadcastLoop PROVE WaiterInv'
  <2>1. pc[me] = "broadcast" /\ cv[me] \in Cond
    BY <1>10, <1>b, <1>c, Zenon DEF BroadcastLoop, At, LocalOK
  <2>2. CASE pop_waiter(cv[me]) /\ UNCHANGED cv
    BY <1>10, <2>1, <2>2, <1>b, PopWait, Zenon DEF BroadcastLoop, switchVars
  <2>3. CASE /\ Goto("run") /\ cv' = [cv EXCEPT ![current] = NULL]
             /\ UNCHANGED <<cond_waiters, obj>>
    <3>1. value' = value /\ OthersStay /\ pc'[me] = "run"
      BY <1>10, <2>3, <1>a, <1>b, Zenon DEF BroadcastLoop, Goto, OthersStay
    <3>2. ~Waiting(me) /\ ~Waiting(me)'
      BY <2>1, <3>1, Zenon DEF Waiting
    <3> QED BY <2>1, <2>3, <3>1, <3>2, <1>b, OtherWait, Zenon
  <2> QED BY <1>10, <2>2, <2>3, <1>b, Zenon DEF BroadcastLoop
<1>11. ASSUME \/ IdleInit \/ IdleBlock \/ SetHolder \/ TidRead \/ TidWrite
              \/ CreateUnblock \/ CreateFail
       PROVE  WaiterInv'
  <2>1. /\ cond_waiters' = cond_waiters /\ value' = value /\ OthersStay
        /\ pc[me] \in {"idle_init", "idle_loop", "set_holder", "tid_read",
                       "tid_write", "create_end"}
        /\ pc'[me] \in {"idle_up", "hlt", "run", "tid_read", "tid_write",
                        "tid_release"}
    BY <1>11, <1>a, <1>b DEF IdleInit, IdleBlock, SetHolder, TidRead, TidWrite,
         CreateUnblock, CreateFail, Goto, At, OthersStay
  <2>2. ~Waiting(me) /\ ~Waiting(me)'
    BY <2>1, Zenon DEF Waiting
  <2> QED BY <2>1, <2>2, <1>b, OtherWait, Zenon
<1>12. ASSUME Boot PROVE WaiterInv'
  <2>1. PICK n \in Thread :
          /\ pc' = [pc EXCEPT ![current] = "start_down", ![n] = "idle_init"]
          /\ UNCHANGED <<cond_waiters, value, obj, cv>> /\ pc[current] = "boot"
    BY <1>12, Zenon DEF Boot, At
  <2>2. /\ \A t \in Thread : pc[t] \in {"boot", "run"}
        /\ \A t \in Thread : pc'[t] \in {"start_down", "idle_init", "run"}
    BY <2>1, <1>a, <1>b DEF Inv, IdleInv
  <2>3. \A t \in Thread : ~Waiting(t) /\ ~Waiting(t)'
    BY <2>2, Zenon DEF Waiting
  <2> QED BY <2>1, <2>2, <2>3, WaiterTypes, Zenon DEF WaiterInv, Queued, Popped, Reached
<1>13. ASSUME Interrupt PROVE WaiterInv'
  <2>1. /\ cond_waiters' = cond_waiters /\ UNCHANGED <<obj, cv>>
        /\ \A t \in Thread \ {me} : pc'[t] = pc[t]
        /\ \/ pc'[me] = pc[me]
           \/ pc[me] = "hlt" /\ pc'[me] = "idle_loop"
    BY <1>13, <1>a, <1>b, Zenon DEF Interrupt, TimerInterrupt, DeviceInterrupt, EndHlt,
         Goto, At
  <2>2. \A t \in Thread : value'[t] = value[t]
    <3>1. CASE TimerInterrupt
      BY <3>1, Zenon DEF TimerInterrupt
    <3>2. CASE \E s \in Sema : DeviceInterrupt(s)
      BY <3>2, <1>a, SynchAssumption DEF DeviceInterrupt, sema_up
    <3> QED BY <1>13, <3>1, <3>2, Zenon DEF Interrupt
  <2>3. \A t \in Thread : Waiting(t)' <=> Waiting(t)
    BY <2>1, Zenon DEF Waiting
  <2>4. \A t \in Thread : pc'[t] = "signal_up" <=> pc[t] = "signal_up"
    BY <2>1, Zenon
  <2>5. Queued'
    BY <2>1, <2>2, <2>3, WaiterTypes, Zenon DEF WaiterInv, Queued
  <2>6. Popped'
    <3> SUFFICES ASSUME NEW u \in Thread, pc'[u] = "signal_up"
                 PROVE  /\ Waiting(obj[u])' /\ value'[obj[u]] = 0
                        /\ \A c \in Cond : obj[u] \notin Range(cond_waiters[c])
                        /\ \A v \in Thread :
                             pc'[v] = "signal_up" /\ obj[v] = obj[u] => v = u
      BY <2>1 DEF Popped, Waiting
    <3>1. PICK w \in Thread : w = obj[u]
      BY <2>4, WaiterTypes, Zenon
    <3>2. /\ Waiting(w) /\ value[w] = 0
          /\ \A c \in Cond : w \notin Range(cond_waiters[c])
          /\ \A v \in Thread : pc[v] = "signal_up" /\ obj[v] = w => v = u
      BY <3>1, <2>4, Zenon DEF WaiterInv, Popped
    <3>3. Waiting(obj[u])'
      BY <3>1, <3>2, <2>1, <2>3, Zenon DEF Waiting
    <3> QED BY <3>1, <3>2, <3>3, <2>2, <2>4, Zenon
  <2>7. Reached'
    BY <2>1, <2>2, <2>3, <2>4 DEF WaiterInv, Reached
  <2> QED BY <2>5, <2>6, <2>7, Zenon DEF WaiterInv
<1> QED BY <1>1, <1>2, <1>3, <1>4, <1>5, <1>6, <1>7, <1>8, <1>9, <1>10, <1>11, Zenon,
           <1>12, <1>13, SignalWait DEF Continue

\* The lock that cond_wait() gives back stays the one of its condition.
LEMMA ReleaseStep == Inv /\ ReleaseInv /\ Next => ReleaseInv'
<1> SUFFICES ASSUME Inv, ReleaseInv, Next PROVE ReleaseInv'
  BY Zenon
<1>a. /\ pc \in [Thread -> Label] /\ obj \in [Thread -> Sem \cup {NULL}]
      /\ cv \in [Thread -> Cond \cup {NULL}] /\ TypeOK
  BY Zenon DEF Inv, TypeOK
<1>b. PICK me \in Thread : me = current
  BY Zenon DEF Inv, TypeOK, ThreadsTypeOK
<1>c. LocalOK(me)
  BY Zenon DEF Inv, LocalInv
<1>1. ASSUME OthersStay,
             \/ pc'[me] # "release_up"
             \/ cv'[me] # NULL => obj'[me] = CondLock[cv'[me]]
             \/ UNCHANGED <<pc, obj, cv>>
      PROVE  ReleaseInv'
  <2>1. ASSUME NEW t \in Thread, cv'[t] # NULL, pc'[t] = "release_up"
        PROVE  obj'[t] = CondLock[cv'[t]]
    BY <1>1, <2>1, <1>b DEF OthersStay, ReleaseInv
  <2> QED BY <2>1, Zenon DEF ReleaseInv
<1>2. ASSUME UNCHANGED <<obj, cv>>, UNCHANGED pc \/ (At("hlt") /\ Goto("idle_loop"))
      PROVE  ReleaseInv'
  <2>1. OthersStay
    BY <1>2, <1>a, <1>b, Zenon DEF OthersStay, Goto
  <2>2. UNCHANGED pc \/ pc'[me] # "release_up"
    BY <1>2, <1>a, <1>b, Zenon DEF Goto
  <2> QED BY <2>1, <2>2, <1>1, <1>2, Zenon
<1>3. ASSUME NEW s, sema_down(s), cv' = cv PROVE ReleaseInv'
  <2>1. AfterDown(s) \in {"set_holder", "reacquire", "run"}
    BY Zenon DEF AfterDown
  <2>2. OthersStay
    BY <1>3, <1>a, <1>b, Zenon DEF OthersStay, sema_down, Goto
  <2>3. pc'[me] # "release_up"
    BY <1>3, <2>1, <1>a, <1>b, Zenon DEF sema_down, Goto
  <2> QED BY <2>2, <2>3, <1>1, Zenon
<1>4. ASSUME Interrupt \/ ThreadYield \/ ThreadExit
             \/ \E s \in Sema : SemaUp(s) \/ SemaTryDown(s)
      PROVE  ReleaseInv'
  BY <1>2, <1>4, Zenon DEF Interrupt, TimerInterrupt, DeviceInterrupt, EndHlt,
     ThreadYield, ThreadExit, SemaUp, SemaTryDown, localVars
<1>5. ASSUME \/ \E s \in Sema : SemaDown(s)
             \/ \E l \in ClientLock : LockAcquire(l)
             \/ StartDown \/ Resume \/ CondDown \/ CondReacquire \/ TidAcquire
      PROVE  ReleaseInv'
  BY <1>3, <1>5, Zenon DEF SemaDown, LockAcquire, StartDown, Resume, CondDown,
     CondReacquire, TidAcquire
<1>6. ASSUME \/ \E l \in ClientLock : LockTryAcquire(l)
             \/ \E c \in Cond : CondWait(c) \/ CondSignal(c) \/ CondBroadcast(c)
             \/ \E n \in Thread : ThreadCreate(n)
      PROVE  ReleaseInv'
  <2>1. OthersStay
    BY <1>6, <1>a, <1>b, Zenon DEF LockTryAcquire, CondWait, CondSignal, CondBroadcast,
       pop_waiter, ThreadCreate, Goto, OthersStay
  <2>2. pc'[me] # "release_up"
    BY <1>6, <1>a, <1>b, Zenon DEF LockTryAcquire, CondWait, CondSignal, CondBroadcast,
       pop_waiter, ThreadCreate, Goto
  <2> QED BY <2>1, <2>2, <1>1, Zenon
<1>7. ASSUME \/ IdleInit \/ IdleUp \/ IdleBlock \/ SetHolder \/ BroadcastLoop
             \/ SignalUp \/ TidRead \/ TidWrite \/ CreateUnblock \/ CreateFail
      PROVE  ReleaseInv'
  <2>1. OthersStay
    BY <1>7, <1>a, <1>b, ZenonT(60) DEF IdleInit, IdleUp, IdleBlock, SetHolder, BroadcastLoop,
       pop_waiter, SignalUp, TidRead, TidWrite, CreateUnblock, CreateFail, Goto,
       OthersStay
  <2>2. pc'[me] # "release_up"
    BY <1>7, <1>a, <1>b, Zenon DEF IdleInit, IdleUp, IdleBlock, SetHolder, BroadcastLoop,
       pop_waiter, SignalUp, TidRead, TidWrite, CreateUnblock, CreateFail, Goto
  <2> QED BY <2>1, <2>2, <1>1, Zenon
<1>8. ASSUME NEW l, lock_release(l), cv[me] = NULL \/ l = CondLock[cv[me]]
      PROVE  ReleaseInv'
  <2>1. OthersStay
    BY <1>8, <1>a, <1>b, Zenon DEF lock_release, Goto, OthersStay
  <2>2. cv'[me] # NULL => obj'[me] = CondLock[cv'[me]]
    BY <1>8, <1>a, <1>b, Zenon DEF lock_release
  <2> QED BY <2>1, <2>2, <1>1, Zenon
<1>9. ASSUME CondRelease PROVE ReleaseInv'
  BY <1>8, <1>9, <1>b, Zenon DEF CondRelease
<1>10. ASSUME TidRelease \/ \E l \in ClientLock : LockRelease(l) PROVE ReleaseInv'
  <2>1. cv[me] = NULL
    BY <1>10, <1>b, <1>c, Zenon DEF TidRelease, LockRelease, At, LocalOK, InCond
  <2> QED BY <2>1, <1>8, <1>10, Zenon DEF TidRelease, LockRelease
<1>11. ASSUME ReleaseUp PROVE ReleaseInv'
  <2>1. AfterRelease # "release_up"
    BY Zenon DEF AfterRelease
  <2>2. pc'[me] # "release_up"
    BY <2>1, <1>11, <1>a, <1>b, Zenon DEF ReleaseUp, Goto
  <2>3. OthersStay
    BY <1>11, <1>a, <1>b, Zenon DEF ReleaseUp, Goto, OthersStay
  <2> QED BY <2>2, <2>3, <1>1, Zenon
<1>12. ASSUME Boot PROVE ReleaseInv'
  <2>1. PICK n \in Thread :
          /\ pc' = [pc EXCEPT ![current] = "start_down", ![n] = "idle_init"]
          /\ UNCHANGED <<obj, cv>>
    BY <1>12, Zenon DEF Boot
  <2>2. \A t \in Thread : pc'[t] \in {pc[t], "start_down", "idle_init"}
    BY <2>1, <1>a, Zenon
  <2> QED BY <2>1, <2>2, Zenon DEF ReleaseInv
<1> QED BY <1>4, <1>5, <1>6, <1>7, <1>9, <1>10, <1>11, <1>12, Zenon
        DEF Next, Call, Continue

\* A step that takes nobody into the start of the idle thread.
LEMMA StartOnce ==
  ASSUME OthersStay, NEW me \in Thread, me = current,
         pc'[me] \notin {"boot", "idle_init"},
         pc'[me] = "idle_up" => pc[me] \in {"idle_init", "idle_up"}
  PROVE  Starting' => Starting
BY Zenon DEF OthersStay, Starting

\* A step of a thread that is not main() waiting for the idle thread.
LEMMA StartMove ==
  ASSUME StartInv, OthersStay, NEW me \in Thread, me = current,
         pc'[me] \notin {"boot", "idle_init"},
         pc'[me] = "idle_up" => pc[me] \in {"idle_init", "idle_up"},
         me = initial_thread => /\ pc[me] \notin {"boot", "start_down"}
                                /\ ~(pc[me] = "down" /\ obj[me] = me),
         Starting /\ Starting' /\ me # initial_thread =>
           value'[initial_thread] = value[initial_thread]
  PROVE  StartInv'
<1> SUFFICES ASSUME Starting'
             PROVE  /\ value'[initial_thread] = 0 /\ cv'[initial_thread] = NULL
                    /\ \/ pc'[initial_thread] \in {"boot", "start_down"}
                       \/ /\ pc'[initial_thread] = "down"
                          /\ obj'[initial_thread] = initial_thread
  BY Zenon DEF StartInv
<1>1. Starting
  BY StartOnce, Zenon
<1>2. me # initial_thread
  BY <1>1, Zenon DEF StartInv
<1>3. /\ pc'[initial_thread] = pc[initial_thread]
      /\ obj'[initial_thread] = obj[initial_thread]
      /\ cv'[initial_thread] = cv[initial_thread]
  BY <1>2, ThreadAssumption, Zenon DEF OthersStay
<1> QED BY <1>1, <1>2, <1>3, Zenon DEF StartInv

\* sema_down(): main() does not get past idle_started before idle() ups it.
LEMMA DownStart ==
  ASSUME Inv, StartInv, NEW s \in Sem, sema_down(s), cv' = cv,
         s \in Thread => s = current, pc[current] # "boot",
         pc[current] = "start_down" => s = current,
         pc[current] = "down" => obj[current] = s
  PROVE  StartInv'
<1>1. PICK me \in Thread : me = current
  BY Zenon DEF Inv, TypeOK, ThreadsTypeOK
<1>2. /\ OthersStay
      /\ \A r \in Sem \ {s} : value'[r] = value[r]
      /\ \/ pc'[me] = "down" /\ obj'[me] = s /\ value' = value
         \/ pc'[me] \in {"set_holder", "reacquire", "run"} /\ value[s] > 0
  BY <1>1, DownMoves, Zenon DEF Inv
<1>3. initial_thread \in Thread /\ initial_thread \in Sem
  BY ThreadAssumption, Zenon DEF Sem
<1>4. CASE me = initial_thread /\ s = me
  <2> SUFFICES ASSUME Starting'
               PROVE  /\ value'[initial_thread] = 0 /\ cv'[initial_thread] = NULL
                      /\ pc'[initial_thread] = "down"
                      /\ obj'[initial_thread] = initial_thread
    BY Zenon DEF StartInv
  <2>1. Starting
    BY <1>1, <1>2, StartOnce, Zenon
  <2>2. value[initial_thread] = 0 /\ cv[initial_thread] = NULL
    BY <2>1, Zenon DEF StartInv
  <2> QED BY <2>2, <1>2, <1>4
<1>5. CASE ~(me = initial_thread /\ s = me)
  <2>1. me = initial_thread => /\ pc[me] \notin {"boot", "start_down"}
                               /\ ~(pc[me] = "down" /\ obj[me] = me)
    BY <1>1, <1>5, Zenon
  <2>2. me # initial_thread => value'[initial_thread] = value[initial_thread]
    BY <1>1, <1>2, <1>3, Zenon
  <2> QED BY <2>1, <2>2, <1>1, <1>2, StartMove, Zenon
<1> QED BY <1>4, <1>5, Zenon

\* The start of the idle thread.
LEMMA StartStep == Inv /\ WaiterInv /\ StartInv /\ Next => StartInv'
<1> SUFFICES ASSUME Inv, WaiterInv, StartInv, Next PROVE StartInv'
  BY Zenon
<1>a. /\ pc \in [Thread -> Label] /\ obj \in [Thread -> Sem \cup {NULL}]
      /\ value \in [Sem -> Nat] /\ cv \in [Thread -> Cond \cup {NULL}]
      /\ Thread \subseteq Sem /\ Sema \subseteq Sem /\ Lock \subseteq Sem
      /\ tid_lock \in Lock /\ initial_thread \in Thread
  BY ThreadAssumption, SynchAssumption, Zenon DEF Inv, TypeOK, Sem
<1>b. PICK me \in Thread : me = current
  BY Zenon DEF Inv, TypeOK, ThreadsTypeOK
<1>c. LocalOK(me)
  BY Zenon DEF Inv, LocalInv
<1>1. ASSUME UNCHANGED <<pc, obj, cv>>, \A t \in Thread : value'[t] = value[t]
      PROVE  StartInv'
  BY <1>1, <1>a, Zenon DEF StartInv, Starting
<1>2. ASSUME NEW s \in Sema, SemaUp(s) \/ SemaTryDown(s) PROVE StartInv'
  <2>1. \A t \in Thread : value'[t] = value[t]
    BY <1>2, <1>a, SynchAssumption DEF SemaUp, SemaTryDown, sema_up, sema_try_down
  <2> QED BY <2>1, <1>1, <1>2, Zenon DEF SemaUp, SemaTryDown
<1>3. ASSUME ThreadYield \/ ThreadExit PROVE StartInv'
  BY <1>1, <1>3, Zenon DEF ThreadYield, ThreadExit, localVars
<1>4. ASSUME Interrupt PROVE StartInv'
  <2>1. \A t \in Thread : value'[t] = value[t]
    <3>1. CASE TimerInterrupt
      BY <3>1, Zenon DEF TimerInterrupt
    <3>2. CASE \E s \in Sema : DeviceInterrupt(s)
      BY <3>2, <1>a, SynchAssumption DEF DeviceInterrupt, sema_up
    <3> QED BY <1>4, <3>1, <3>2, Zenon DEF Interrupt
  <2>2. UNCHANGED <<obj, cv>> /\ EndHlt
    BY <1>4, Zenon DEF Interrupt, TimerInterrupt, DeviceInterrupt
  <2>3. CASE UNCHANGED pc
    BY <2>1, <2>2, <2>3, <1>1, Zenon
  <2>4. CASE pc[me] = "hlt" /\ Goto("idle_loop")
    <3>1. OthersStay /\ pc'[me] = "idle_loop"
      BY <2>2, <2>4, <1>a, <1>b, Zenon DEF Goto, OthersStay
    <3> QED BY <3>1, <2>1, <2>4, <1>a, <1>b, StartMove, Zenon
  <2> QED BY <2>2, <2>3, <2>4, <1>b, Zenon DEF EndHlt, At
<1>5. ASSUME NEW s \in Sema, SemaDown(s) PROVE StartInv'
  BY <1>5, <1>a, <1>b, DownStart, SynchAssumption, Zenon DEF SemaDown, At
<1>6. ASSUME NEW l \in ClientLock, LockAcquire(l) PROVE StartInv'
  BY <1>6, <1>a, <1>b, DownStart, SynchAssumption, Zenon DEF LockAcquire, ClientLock, At
<1>7. ASSUME StartDown \/ CondDown PROVE StartInv'
  BY <1>7, <1>a, <1>b, DownStart, Zenon DEF StartDown, CondDown, At
<1>8. ASSUME TidAcquire PROVE StartInv'
  BY <1>8, <1>a, <1>b, DownStart, SynchAssumption, Zenon DEF TidAcquire, At
<1>9. ASSUME CondReacquire PROVE StartInv'
  <2>1. cv[me] \in Cond
    BY <1>9, <1>b, <1>c, Zenon DEF CondReacquire, At, LocalOK
  <2>2. CondLock[cv[me]] \in Lock /\ CondLock[cv[me]] \notin Thread
    BY <2>1, SynchAssumption, Zenon
  <2> QED BY <2>2, <1>9, <1>a, <1>b, DownStart, Zenon DEF CondReacquire, At
<1>10. ASSUME Resume PROVE StartInv'
  <2>1. obj[me] \in Sem /\ (obj[me] \in Thread => obj[me] = me)
    BY <1>10, <1>b, <1>c, Zenon DEF Resume, At, LocalOK
  <2> QED BY <2>1, <1>10, <1>b, DownStart, Zenon DEF Resume, At
<1>11. ASSUME \/ \E l \in ClientLock : LockTryAcquire(l) \/ LockRelease(l)
              \/ \E c \in Cond : CondWait(c) \/ CondSignal(c) \/ CondBroadcast(c)
              \/ \E n \in Thread : ThreadCreate(n)
       PROVE  StartInv'
  <2>1. /\ OthersStay /\ pc[me] = "run"
        /\ pc'[me] \notin {"boot", "idle_init", "idle_up"}
    BY <1>11, <1>a, <1>b DEF LockTryAcquire, LockRelease, lock_release, CondWait,
       CondSignal, CondBroadcast, pop_waiter, ThreadCreate, Goto, At, OthersStay
  <2>2. \A t \in Thread \ {me} : value'[t] = value[t]
    <3>1. CASE \E l \in ClientLock : LockTryAcquire(l)
      BY <3>1, <1>a, SynchAssumption DEF LockTryAcquire, sema_try_down, ClientLock
    <3>2. CASE \E c \in Cond : CondWait(c)
      BY <3>2, <1>a, <1>b, Zenon DEF CondWait
    <3>3. CASE value' = value
      BY <3>3, Zenon
    <3> QED BY <1>11, <3>1, <3>2, <3>3, Zenon DEF LockRelease, lock_release, CondSignal,
               CondBroadcast, ThreadCreate
  <2> QED BY <2>1, <2>2, <1>a, <1>b, StartMove, Zenon
<1>12. ASSUME \/ IdleInit \/ IdleBlock \/ SetHolder \/ CondRelease
              \/ BroadcastLoop \/ TidRead \/ TidWrite \/ TidRelease
              \/ CreateUnblock \/ CreateFail
       PROVE  StartInv'
  <2>1. /\ OthersStay /\ value' = value
        /\ pc[me] \notin {"boot", "start_down", "down"}
        /\ pc'[me] \notin {"boot", "idle_init"}
        /\ pc'[me] = "idle_up" => pc[me] = "idle_init"
    BY <1>12, <1>a, <1>b, ZenonT(60) DEF IdleInit, IdleBlock, SetHolder, CondRelease,
       BroadcastLoop, pop_waiter, TidRead, TidWrite, TidRelease, lock_release,
       CreateUnblock, CreateFail, Goto, At, OthersStay
  <2> QED BY <2>1, <1>b, StartMove, Zenon
<1>13. ASSUME ReleaseUp PROVE StartInv'
  <2>1. pc[me] = "release_up" /\ obj[me] \in Lock /\ obj[me] \notin Thread
    BY <1>13, <1>b, <1>c, SynchAssumption, Zenon DEF ReleaseUp, At, LocalOK
  <2>2. OthersStay /\ \A t \in Thread : value'[t] = value[t]
    BY <1>13, <2>1, <1>a, <1>b, Zenon DEF ReleaseUp, sema_up, Goto, OthersStay
  <2>3. pc'[me] = AfterRelease
    BY <1>13, <1>a, <1>b, Zenon DEF ReleaseUp, Goto
  <2>4. pc'[me] \notin {"boot", "idle_init", "idle_up"}
    BY <2>3, Zenon DEF AfterRelease
  <2> QED BY <2>1, <2>2, <2>4, <1>a, <1>b, StartMove, Zenon
<1>14. ASSUME SignalUp PROVE StartInv'
  <2>1. pc[me] = "signal_up" /\ obj[me] \in Thread
    BY <1>14, <1>b, <1>c, Zenon DEF SignalUp, At, LocalOK
  <2>2. /\ OthersStay /\ pc'[me] \in {"run", "broadcast"}
        /\ \A t \in Thread \ {obj[me]} : value'[t] = value[t]
    BY <1>14, <2>1, <1>a, <1>b, Zenon DEF SignalUp, sema_up, Goto, OthersStay
  <2>3. Waiting(obj[me])
    BY <2>1, Zenon DEF WaiterInv, Popped
  <2>4. Starting => obj[me] # initial_thread
    BY <2>3, Zenon DEF StartInv, Waiting
  <2> QED BY <2>1, <2>2, <2>4, <1>a, <1>b, StartMove, Zenon
<1>15. ASSUME IdleUp PROVE StartInv'
  <2>1. /\ OthersStay /\ pc[me] = "idle_up" /\ pc'[me] = "idle_loop"
    BY <1>15, <1>a, <1>b, Zenon DEF IdleUp, Goto, At, OthersStay
  <2>2. me = idle_thread /\ idle_thread # NULL
    BY <2>1, ThreadAssumption, Zenon DEF Inv, IdleInv, IdleLabel
  <2>3. \A t \in Thread \ {me} : pc[t] \notin {"boot", "idle_init", "idle_up"}
    BY <2>2, Zenon DEF Inv, IdleInv, IdleLabel
  <2>4. ~Starting'
    BY <2>1, <2>3, <1>b, Zenon DEF Starting, OthersStay
  <2> QED BY <2>4, Zenon DEF StartInv
<1>16. ASSUME Boot PROVE StartInv'
  <2>1. PICK n \in Thread :
          /\ status[n] = "FREE"
          /\ pc' = [pc EXCEPT ![current] = "start_down", ![n] = "idle_init"]
          /\ UNCHANGED <<value, obj, cv>> /\ pc[current] = "boot"
    BY <1>16, Zenon DEF Boot, At
  <2>2. me = initial_thread /\ n # me
    BY <2>1, <1>b, Zenon DEF Inv, IdleInv, ListMembership, OneRunning
  <2>3. pc'[initial_thread] = "start_down"
    BY <2>1, <2>2, <1>a, <1>b, Zenon
  <2>4. Starting
    BY <2>1, <1>b, Zenon DEF Starting
  <2> QED BY <2>1, <2>3, <2>4, Zenon DEF StartInv
<1> QED BY <1>2, <1>3, <1>4, <1>5, <1>6, <1>7, <1>8, <1>9, <1>10, <1>11, <1>12, Zenon,
           <1>13, <1>14, <1>15, <1>16 DEF Next, Call, Continue

\* cond_wait() and cond_signal(): every waiter that can still be reached is
\* on the stack of a thread that is still waiting and has not been signalled,
\* and no thread sleeps in cond_wait() that nobody can signal any more, for
\* every interleaving of waiters, signallers and interrupts.
THEOREM SignalsArrive == Spec => []WaitersSound
<1> DEFINE WInv == WaiterInv /\ ReleaseInv /\ StartInv
<1>1. Init => WInv
  <2> SUFFICES ASSUME Init PROVE WInv
    BY Zenon
  <2>1. /\ \A t \in Thread : cv[t] = NULL /\ pc[t] \in {"boot", "run"}
        /\ \A c \in Cond : cond_waiters[c] = <<>>
    BY Zenon DEF Init
  <2>2. Queued
    BY <2>1, EmptyQueue, Zenon DEF Queued
  <2>3. Popped /\ Reached /\ ReleaseInv
    BY <2>1, Zenon DEF Popped, Reached, ReleaseInv, Waiting
  <2>4. StartInv
    BY ThreadAssumption, SynchAssumption, Zenon DEF Init, StartInv, Sem
  <2> QED BY <2>2, <2>3, <2>4, Zenon DEF WaiterInv
<1>2. Inv /\ WInv /\ [Next]_vars => WInv'
  <2> SUFFICES ASSUME Inv, WInv, [Next]_vars PROVE WInv'
    BY Zenon
  <2>1. CASE Next
    BY <2>1, CallWait, ContinueWait, ReleaseStep, StartStep, Zenon DEF Next
  <2>2. CASE UNCHANGED vars
    <3>1. UNCHANGED <<pc, obj, cv, value, cond_waiters>>
      BY <2>2, Zenon DEF vars
    <3>2. WaiterInv'
      BY <3>1, SMTT(30) DEF WaiterInv, Queued, Popped, Reached, Waiting
    <3>3. ReleaseInv' /\ StartInv'
      BY <3>1, Zenon DEF ReleaseInv, StartInv, Starting
    <3> QED BY <3>2, <3>3, Zenon
  <2> QED BY <2>1, <2>2, Zenon
<1>3. Inv /\ WInv => WaitersSound
  <2> SUFFICES ASSUME Inv, WInv PROVE WaitersSound
    BY Zenon
  <2>1. ASSUME NEW t \in Thread, Waiting(t), value[t] = 0
        PROVE  AwaitsSignal(t, cv[t]) /\ cv[t] \in Cond
    BY <2>1, WaiterTypes, Zenon DEF AwaitsSignal, Waiting, ReleaseInv
  <2>2. WaiterFrameLive
    <3>1. ASSUME NEW c \in Cond
          PROVE  /\ IsInjective(cond_waiters[c])
                 /\ \A t \in Range(cond_waiters[c]) : AwaitsSignal(t, c)
      BY <2>1, WaiterTypes, Zenon DEF WaiterInv, Queued
    <3>2. ASSUME NEW u \in Thread, pc[u] = "signal_up"
          PROVE  /\ \E c \in Cond : AwaitsSignal(obj[u], c)
                 /\ \A c \in Cond : obj[u] \notin Range(cond_waiters[c])
                 /\ \A v \in Thread : pc[v] = "signal_up" /\ obj[v] = obj[u] => v = u
      BY <2>1, <3>2, WaiterTypes, Zenon DEF WaiterInv, Popped
    <3> QED BY <3>1, <3>2, Zenon DEF WaiterFrameLive
  <2>3. SignalNotLost
    <3>1. ASSUME NEW t \in Thread,
                 pc[t] = "cond_down" \/ (pc[t] = "down" /\ obj[t] = t /\ cv[t] # NULL)
          PROVE  Waiting(t)
      BY <3>1, SynchAssumption, Zenon DEF Inv, LocalInv, LocalOK, Waiting
    <3> QED BY <3>1, Zenon DEF WaiterInv, Reached, SignalNotLost
  <2> QED BY <2>2, <2>3, Zenon DEF WaitersSound
<1> HIDE DEF WInv
<1> QED BY <1>1, <1>2, <1>3, InvHolds, PTL DEF Spec
=============================================================================
