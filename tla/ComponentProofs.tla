-------------------------- MODULE ComponentProofs ---------------------------
(***************************************************************************)
(* Proofs about three components that share no state.                      *)
(*                                                                         *)
(* The console, for queues of any size and any number of threads: its      *)
(* locks and the UART's interrupts are sound, the ASSERT of wait() holds   *)
(* and nobody sleeps beside a byte, and both queues are first in, first    *)
(* out.                                                                    *)
(*                                                                         *)
(* The timer, for counters of any width: sleeps are full.                  *)
(*                                                                         *)
(* load(), for every page size, size of the address space, executable and  *)
(* number of frames: whatever the program headers say, only pages of the   *)
(* user are mapped, and when it succeeds every byte of every segment is    *)
(* where its header says.                                                  *)
(***************************************************************************)
EXTENDS Console, Timer, Loader, TLAPS

-----------------------------------------------------------------------------
(* The console.                                                            *)

N == INTQ_BUFSIZE
Name == {"txq", "buffer"}

\* t is reading, from its call of input_getc() to the return of read().
Reads(t) ==
  \/ pc[t] \in {"getc", "got"}
  \/ pc[t] \in {"acquire", "wait"} /\ on[t] = "buffer"

\* The holder of a queue's lock is the thread in wait(); only readers wait
\* on the input buffer, only writers on the transmit queue, and a writer has
\* a byte.
QueueInv ==
  /\ queue["buffer"].not_full = NULL /\ queue["txq"].not_empty = NULL
  /\ \A t \in Thread : pc[t] = "wait" => queue[on[t]].holder = t
  /\ \A n \in Name : \A t \in Thread :
       queue[n].holder = t => pc[t] = "wait" /\ on[t] = n
  /\ \A t \in Thread :
       pc[t] \in {"acquire", "wait"} /\ on[t] = "txq" => byte[t] \in Byte
  /\ SleepJustified

\* Before serial_init_queue() there is only main(), which polls.
BootInv ==
  mode # "QUEUE" =>
    /\ intq_empty(queue["txq"])
    /\ \A t \in Thread : pc[t] = "user"

\* When every reader goes through read(), nobody ever finds a queue's lock
\* taken.
ReadInv ==
  kernel_reader = {} =>
    /\ ~panicked
    /\ \A t \in Thread : pc[t] # "acquire" /\ (Reads(t) => file_lock = t)

ConsoleInv == ConsoleSafe /\ QueueInv /\ BootInv /\ ReadInv

-----------------------------------------------------------------------------
(* The operations of a queue.                                              *)

\* Positions wrap around at the end of the ring.
LEMMA Wrap ==
  ASSUME NEW x \in 0..2 * N - 1
  PROVE  x % N = IF x < N THEN x ELSE x - N
  BY IntqAssumption DEF N

LEMMA NextPos ==
  ASSUME NEW p \in 0..N - 1
  PROVE  /\ next(p) \in 0..N - 1
         /\ next(p) = IF p = N - 1 THEN 0 ELSE p + 1
  BY IntqAssumption, Wrap DEF N, next

\* What intq_getc() and intq_putc() change.
LEMMA GetcFields ==
  ASSUME NEW q \in IntqType(Thread)
  PROVE  /\ intq_getc(q) \in IntqType(Thread)
         /\ intq_getc(q).buf = [q.buf EXCEPT ![q.tail] = NULL]
         /\ intq_getc(q).head = q.head
         /\ intq_getc(q).tail = next(q.tail)
         /\ intq_getc(q).not_full = NULL
         /\ intq_getc(q).not_empty = q.not_empty
         /\ intq_getc(q).holder = q.holder
         /\ intq_getc(q).waiters = q.waiters
  BY NextPos, IntqAssumption, Zenon DEF intq_getc, IntqType, N

LEMMA PutcFields ==
  ASSUME NEW q \in IntqType(Thread), NEW b \in Byte
  PROVE  /\ intq_putc(q, b) \in IntqType(Thread)
         /\ intq_putc(q, b).buf = [q.buf EXCEPT ![q.head] = b]
         /\ intq_putc(q, b).head = next(q.head)
         /\ intq_putc(q, b).tail = q.tail
         /\ intq_putc(q, b).not_full = q.not_full
         /\ intq_putc(q, b).not_empty = NULL
         /\ intq_putc(q, b).holder = q.holder
         /\ intq_putc(q, b).waiters = q.waiters
  BY NextPos, IntqAssumption, Zenon DEF intq_putc, IntqType, N

\* The bytes of a queue are a sequence.
Held(q) == (q.head + N - q.tail) % N

LEMMA ItemsType ==
  ASSUME NEW q \in IntqType(Thread)
  PROVE  /\ Held(q) \in 0..N - 1
         /\ Held(q) = IF q.head >= q.tail THEN q.head - q.tail
                                          ELSE q.head - q.tail + N
         /\ intq_items(q) \in Seq(Byte \cup {NULL})
         /\ Len(intq_items(q)) = Held(q)
         /\ \A i \in 1..Held(q) :
              /\ (q.tail + i - 1) % N \in 0..N - 1
              /\ intq_items(q)[i] = q.buf[(q.tail + i - 1) % N]
<1>a. /\ q.head \in 0..N - 1 /\ q.tail \in 0..N - 1 /\ N \in Nat \ {0, 1}
      /\ q.buf \in [0..N - 1 -> Byte \cup {NULL}]
  BY IntqAssumption, Zenon DEF IntqType, N
<1>1. /\ Held(q) \in 0..N - 1
      /\ Held(q) = IF q.head >= q.tail THEN q.head - q.tail
                                       ELSE q.head - q.tail + N
  <2>1. PICK x \in 0..2 * N - 1 : x = q.head + N - q.tail
    BY <1>a
  <2>2. Held(q) = IF x < N THEN x ELSE x - N
    BY <2>1, Wrap, Zenon DEF Held
  <2> QED BY <2>1, <2>2, <1>a, SMTT(30)
<1>2. ASSUME NEW i \in 1..Held(q) PROVE (q.tail + i - 1) % N \in 0..N - 1
  <2>1. PICK x \in 0..2 * N - 1 : x = q.tail + i - 1
    BY <1>1, <1>a
  <2>2. x % N \in 0..N - 1
    BY <1>a, Wrap
  <2> QED BY <2>1, <2>2, Zenon
<1>3. intq_items(q) = [i \in 1..Held(q) |-> q.buf[(q.tail + i - 1) % N]]
  BY Zenon DEF intq_items, Held, N
<1>4. \A i \in 1..Held(q) : q.buf[(q.tail + i - 1) % N] \in Byte \cup {NULL}
  BY <1>2, <1>a, Zenon
<1> QED BY <1>1, <1>2, <1>3, <1>4, SMTT(30)

LEMMA FrontType ==
  ASSUME NEW q \in IntqType(Thread)
  PROVE  front(q) \in Byte \cup {NULL}
  BY Zenon DEF front, IntqType

-----------------------------------------------------------------------------
(* The invariant, for each kind of step.                                   *)

\* A step of a thread that only moves it, and changes the locks it has.
LEMMA CallStep ==
  ASSUME ConsoleInv, NEW t \in Thread, NEW label \in Label,
         calls, kernel_reader' = kernel_reader,
         {pc[t], label} \cap {"acquire", "wait"} = {},
         pc' = [pc EXCEPT ![t] = label],
         mode = "QUEUE",
         {file_lock', console_lock'} \subseteq Thread \cup {NULL},
         console_lock_depth' \in 0..MaxDepth,
         ConsoleExclusive',
         kernel_reader = {} /\ label \in {"getc", "got"} => file_lock' = t,
         \A u \in Thread \ {t} : file_lock = u => file_lock' = u
  PROVE  ConsoleInv'
<1>a. /\ pc \in [Thread -> Label]
      /\ pc'[t] = label /\ pc'[t] \notin {"acquire", "wait"}
      /\ pc[t] \notin {"acquire", "wait"}
      /\ \A u \in Thread \ {t} : pc'[u] = pc[u]
      /\ UNCHANGED <<mode, queue, ier, rbr, thr, thre, key, on, byte, asleep,
                     printed, panicked>>
  BY Zenon DEF ConsoleInv, ConsoleSafe, TypeOK, calls
<1>1. TypeOK'
  BY <1>a, Zenon DEF ConsoleInv, ConsoleSafe, TypeOK
<1>2. IerTracksQueues'
  BY <1>a, Zenon DEF ConsoleInv, ConsoleSafe, IerTracksQueues
<1>3. QueueInv'
  <2>1. SleepJustified'
    BY <1>a DEF ConsoleInv, QueueInv, SleepJustified
  <2> QED BY <2>1, <1>a DEF ConsoleInv, QueueInv
<1>4. BootInv'
  BY <1>a, Zenon DEF BootInv
<1>5. ReadInv'
  BY <1>a, Zenon DEF ConsoleInv, ReadInv, Reads
<1> QED BY <1>1, <1>2, <1>3, <1>4, <1>5, Zenon DEF ConsoleInv, ConsoleSafe

\* The waiter of queue n that is still asleep after a step that has woken
\* whom it had to: the queue is as it was, or nobody could wait for it, or
\* its waiter was reset.
Served(n) ==
  \/ queue'[n] = queue[n]
  \/ ~blocked(n, queue[n])
  \/ (IF n = "txq" THEN queue'[n].not_full ELSE queue'[n].not_empty) = NULL

\* A step of a device.
LEMMA DeviceStep ==
  ASSUME ConsoleInv,
         UNCHANGED <<key, lockVars, pc, on, byte, kernel_reader, panicked>>,
         mode' \in {"UNINIT", "POLL", "QUEUE"},
         queue' \in [Name -> IntqType(Thread)],
         ier' \in SUBSET {"XMIT", "RECV"},
         {rbr', thr'} \subseteq Byte \cup {NULL},
         thre' \in BOOLEAN, printed' \in 0..MaxPrinted,
         IerTracksQueues',
         \A n \in Name : queue'[n].holder = queue[n].holder /\ Served(n),
         queue'["buffer"].not_full = NULL, queue'["txq"].not_empty = NULL,
         asleep' = asleep \ (unblocked(queue["txq"], queue'["txq"])
                               \cup unblocked(queue["buffer"], queue'["buffer"])),
         mode' # "QUEUE" => mode # "QUEUE" /\ queue'["txq"] = queue["txq"]
  PROVE  ConsoleInv'
<1>a. /\ queue \in [Name -> IntqType(Thread)]
      /\ on \in [Thread -> Name] /\ NULL \notin Thread
  BY ConsoleAssumption, Zenon DEF ConsoleInv, ConsoleSafe, TypeOK, Name
<1>1. TypeOK'
  BY Zenon DEF ConsoleInv, ConsoleSafe, TypeOK, Name, lockVars
<1>2. ConsoleExclusive'
  BY Zenon DEF ConsoleInv, ConsoleSafe, ConsoleExclusive, lockVars
<1>3. QueueInv'
  <2>1. ASSUME NEW t \in Thread, pc[t] = "wait", t \in asleep'
        PROVE  /\ blocked(on[t], queue'[on[t]])
               /\ t = IF on[t] = "txq" THEN queue'[on[t]].not_full
                                       ELSE queue'[on[t]].not_empty
    <3> DEFINE n == on[t]
    <3>1. /\ blocked(n, queue[n])
          /\ t = IF n = "txq" THEN queue[n].not_full ELSE queue[n].not_empty
      BY <2>1, Zenon DEF ConsoleInv, QueueInv, SleepJustified
    <3>2. n \in Name /\ t \notin unblocked(queue[n], queue'[n])
      BY <2>1, <1>a, Zenon DEF Name
    <3>3. queue'[n] = queue[n]
      BY <3>1, <3>2, <1>a DEF Served, unblocked, Name
    <3> QED BY <3>1, <3>3, Zenon
  <2>2. SleepJustified'
    <3> SUFFICES ASSUME NEW t \in Thread, pc'[t] = "wait", t \in asleep'
                 PROVE  /\ blocked(on[t], queue'[on[t]])
                        /\ queue'[on[t]].holder = t
                        /\ t = IF on[t] = "txq" THEN queue'[on[t]].not_full
                                                ELSE queue'[on[t]].not_empty
      BY Zenon DEF SleepJustified, blocked, intq_full, intq_empty
    <3> QED BY <2>1, <1>a DEF ConsoleInv, QueueInv
  <2> QED BY <2>2, <1>a DEF ConsoleInv, QueueInv
<1>4. BootInv'
  BY Zenon DEF ConsoleInv, BootInv, intq_empty
<1>5. ReadInv'
  BY Zenon DEF ConsoleInv, ReadInv, Reads, lockVars
<1> QED BY <1>1, <1>2, <1>3, <1>4, <1>5, Zenon DEF ConsoleInv, ConsoleSafe

\* A thread goes to sleep in lock_acquire() on the lock of queue n.
LEMMA WaitKept ==
  ASSUME QueueInv, NEW t \in Thread, NEW n \in Name,
         queue \in [Name -> IntqType(Thread)], on \in [Thread -> Name],
         pc[t] # "wait", pc'[t] = "acquire", on'[t] = n,
         n = "txq" => byte'[t] \in Byte,
         \A u \in Thread \ {t} :
           pc'[u] = pc[u] /\ on'[u] = on[u] /\ byte'[u] = byte[u],
         \A u \in asleep' \ {t} : u \in asleep,
         \A m \in Name : /\ queue'[m].head = queue[m].head
                         /\ queue'[m].tail = queue[m].tail
                         /\ queue'[m].not_full = queue[m].not_full
                         /\ queue'[m].not_empty = queue[m].not_empty
                         /\ queue'[m].holder = queue[m].holder
  PROVE  QueueInv'
<1>1. SleepJustified'
  BY DEF QueueInv, SleepJustified, blocked, intq_full, intq_empty
<1> QED BY <1>1 DEF QueueInv, Name

\* What the loop of intq_getc() or intq_putc() finds when thread t comes to
\* queue n: the queue as it is, or as t's release of its lock leaves it.
AtLoop(t, n, q, b) ==
  /\ q \in IntqType(Thread)
  /\ q.head = queue[n].head /\ q.tail = queue[n].tail
  /\ q.not_full = queue[n].not_full /\ q.not_empty = queue[n].not_empty
  /\ \/ /\ q = queue[n]
        /\ pc[t] = IF n = "txq" THEN "put" ELSE "getc"
     \/ /\ q.holder = NULL
        /\ pc[t] = "wait" /\ on[t] = n
  /\ b \in Byte \cup {NULL}
  /\ n = "txq" => b \in Byte

LEMMA LoopStep ==
  ASSUME ConsoleInv, NEW t \in Thread, NEW n \in Name, NEW q, NEW b,
         NEW awake, Loop(t, n, b, q, awake), AtLoop(t, n, q, b),
         on' = [on EXCEPT ![t] = n],
         UNCHANGED <<mode, rbr, thr, thre, lockVars, printed, kernel_reader,
                     panicked>>
  PROVE  ConsoleInv'
<1>a. /\ queue \in [Name -> IntqType(Thread)] /\ pc \in [Thread -> Label]
      /\ on \in [Thread -> Name] /\ byte \in [Thread -> Byte \cup {NULL}]
      /\ asleep \in SUBSET Thread
      /\ NULL \notin Thread /\ NULL \notin Byte
  BY ConsoleAssumption, IntqAssumption, Zenon
     DEF ConsoleInv, ConsoleSafe, TypeOK, Name
<1>b. /\ mode = "QUEUE"
      /\ n = "txq" => console_lock = t
      /\ kernel_reader = {} /\ n = "buffer" => file_lock = t
  BY Zenon DEF ConsoleInv, ConsoleSafe, ConsoleExclusive, BootInv, ReadInv, Reads,
         AtLoop, Name
\* Nobody else is in wait() on the queue when its lock is free.
<1>c. \A u \in Thread \ {t} : q.holder = NULL => ~(pc[u] = "wait" /\ on[u] = n)
  BY <1>a DEF ConsoleInv, QueueInv, AtLoop
\* With all readers in read(), its lock is free.
<1>d. kernel_reader = {} => q.holder = NULL
  <2> SUFFICES ASSUME kernel_reader = {}, q.holder # NULL PROVE FALSE
    BY Zenon
  <2>1. q.holder \in Thread /\ q.holder = queue[n].holder /\ pc[t] # "wait"
    BY <1>a, Zenon DEF AtLoop, IntqType
  <2>2. pc[q.holder] = "wait" /\ on[q.holder] = n
    BY <2>1, Zenon DEF ConsoleInv, QueueInv
  <2>3. q.holder = t
    BY <2>1, <2>2, <1>b, <1>a, Zenon
       DEF ConsoleInv, ConsoleSafe, ConsoleExclusive, ReadInv, Reads, Name
  <2> QED BY <2>1, <2>2, <2>3, Zenon
<1>e. /\ on'[t] = n /\ \A u \in Thread \ {t} : on'[u] = on[u]
      /\ on' \in [Thread -> Name]
  BY <1>a, Zenon
<1>1. CASE /\ blocked(n, q) /\ q.holder = NULL
           /\ queue' = [queue EXCEPT ![n] = wait(n, q, t)]
           /\ asleep' = (asleep \ awake) \cup {t}
           /\ Goto(t, "wait")
           /\ byte' = [byte EXCEPT ![t] = b]
           /\ UNCHANGED <<ier, key>>
  <2> DEFINE w == wait(n, q, t)
  <2>1. /\ w \in IntqType(Thread) /\ w.holder = t
        /\ w.head = queue[n].head /\ w.tail = queue[n].tail
        /\ w.not_full = IF n = "txq" THEN t ELSE queue[n].not_full
        /\ w.not_empty = IF n = "txq" THEN queue[n].not_empty ELSE t
    BY <1>1, Zenon DEF wait, AtLoop, IntqType, Name
  <2> HIDE DEF w
  <2>2. /\ queue' \in [Name -> IntqType(Thread)] /\ queue'[n] = w
        /\ \A m \in Name \ {n} : queue'[m] = queue[m]
        /\ pc' \in [Thread -> Label] /\ pc'[t] = "wait"
        /\ \A u \in Thread \ {t} : pc'[u] = pc[u] /\ byte'[u] = byte[u]
        /\ byte' \in [Thread -> Byte \cup {NULL}] /\ byte'[t] = b
        /\ asleep' \in SUBSET Thread
        /\ \A u \in asleep' \ {t} : u \in asleep
    BY <2>1, <1>1, <1>a, Zenon DEF Goto, Label, AtLoop, w
  <2>3. TypeOK'
    BY <2>2, <1>e, <1>1, Zenon DEF ConsoleInv, ConsoleSafe, TypeOK, lockVars, Name
  <2>4. IerTracksQueues'
    BY <2>1, <2>2, <1>1
       DEF ConsoleInv, ConsoleSafe, IerTracksQueues, intq_empty, intq_full, Name
  <2>5. ConsoleExclusive'
    BY <2>2, <1>b, <1>e, Zenon
       DEF ConsoleInv, ConsoleSafe, ConsoleExclusive, lockVars
  <2>6. blocked(n, w)
    BY <2>1, <1>1, Zenon DEF AtLoop, blocked, intq_empty, intq_full
  <2>7. SleepJustified'
    <3> SUFFICES ASSUME NEW u \in Thread, pc'[u] = "wait", u \in asleep'
                 PROVE  /\ blocked(on'[u], queue'[on'[u]])
                        /\ queue'[on'[u]].holder = u
                        /\ u = IF on'[u] = "txq" THEN queue'[on'[u]].not_full
                                                 ELSE queue'[on'[u]].not_empty
      BY Zenon DEF SleepJustified, blocked, intq_full, intq_empty
    <3>1. CASE u = t
      BY <3>1, <2>1, <2>2, <2>6, <1>e, Zenon
    <3>2. CASE u # t
      <4>1. /\ pc[u] = "wait" /\ u \in asleep /\ on'[u] = on[u]
            /\ on[u] \in Name \ {n} /\ queue'[on[u]] = queue[on[u]]
        BY <3>2, <2>2, <1>c, <1>e, <1>1, <1>a
      <4> QED BY <4>1 DEF ConsoleInv, QueueInv, SleepJustified
    <3> QED BY <3>1, <3>2, Zenon
  <2>8. QueueInv'
    <3>1. /\ queue'["buffer"].not_full = NULL
          /\ queue'["txq"].not_empty = NULL
      BY <2>1, <2>2 DEF ConsoleInv, QueueInv, Name
    <3>2. \A u \in Thread : pc'[u] = "wait" => queue'[on'[u]].holder = u
      BY <2>1, <2>2, <1>1, <1>a, <1>c, <1>e DEF ConsoleInv, QueueInv
    <3>3. \A m \in Name : \A u \in Thread :
            queue'[m].holder = u => pc'[u] = "wait" /\ on'[u] = m
      <4> SUFFICES ASSUME NEW m \in Name, NEW u \in Thread, queue'[m].holder = u
                   PROVE  pc'[u] = "wait" /\ on'[u] = m
        BY Zenon
      <4>1. CASE m = n
        BY <4>1, <2>1, <2>2, <1>e, Zenon
      <4>2. CASE m # n
        <5>1. queue[m].holder = u /\ pc[u] = "wait" /\ on[u] = m
          BY <4>2, <2>2, Zenon DEF ConsoleInv, QueueInv
        <5>2. u # t
          BY <5>1, <4>2, Zenon DEF AtLoop
        <5> QED BY <5>1, <5>2, <2>2, <1>e, Zenon
      <4> QED BY <4>1, <4>2, Zenon
    <3>4. \A u \in Thread :
            pc'[u] \in {"acquire", "wait"} /\ on'[u] = "txq" => byte'[u] \in Byte
      BY <2>2, <1>e DEF ConsoleInv, QueueInv, AtLoop
    <3> QED BY <3>1, <3>2, <3>3, <3>4, <2>7, Zenon DEF QueueInv
  <2>9. BootInv'
    BY <1>b, Zenon DEF BootInv
  <2>10. ReadInv'
    BY <2>2, <1>b, <1>e, Zenon DEF ConsoleInv, ReadInv, Reads, lockVars, Name
  <2> QED BY <2>3, <2>4, <2>5, <2>8, <2>9, <2>10, Zenon DEF ConsoleInv, ConsoleSafe
<1>2. CASE /\ blocked(n, q) /\ q.holder # NULL
           /\ queue' = [queue EXCEPT ![n] = [q EXCEPT !.waiters = Append(@, t)]]
           /\ asleep' = (asleep \ awake) \cup {t}
           /\ Goto(t, "acquire")
           /\ byte' = [byte EXCEPT ![t] = b]
           /\ UNCHANGED <<ier, key>>
  <2> DEFINE w == [q EXCEPT !.waiters = Append(@, t)]
  <2>1. /\ w \in IntqType(Thread) /\ w.holder = queue[n].holder
        /\ w.head = queue[n].head /\ w.tail = queue[n].tail
        /\ w.not_full = queue[n].not_full /\ w.not_empty = queue[n].not_empty
    <3>1. Append(q.waiters, t) \in Seq(Thread)
      BY DEF AtLoop, IntqType
    <3>2. w.waiters \in Seq(Thread)
      BY <3>1, Zenon DEF AtLoop, IntqType
    <3>3. /\ q.holder = queue[n].holder
          /\ w = [q EXCEPT !.waiters = Append(q.waiters, t)]
      BY <1>2, Zenon DEF AtLoop
    <3> QED BY <3>1, <3>3, Zenon DEF AtLoop, IntqType
  <2> HIDE DEF w
  <2>2. /\ queue' \in [Name -> IntqType(Thread)] /\ queue'[n] = w
        /\ \A m \in Name \ {n} : queue'[m] = queue[m]
        /\ pc' \in [Thread -> Label] /\ pc'[t] = "acquire"
        /\ \A u \in Thread \ {t} : pc'[u] = pc[u] /\ byte'[u] = byte[u]
        /\ byte' \in [Thread -> Byte \cup {NULL}] /\ byte'[t] = b
        /\ asleep' \in SUBSET Thread
        /\ \A u \in asleep' \ {t} : u \in asleep
    BY <2>1, <1>2, <1>a, Zenon DEF Goto, Label, AtLoop, w
  <2>3. TypeOK'
    BY <2>2, <1>e, <1>2, Zenon DEF ConsoleInv, ConsoleSafe, TypeOK, lockVars, Name
  <2>4. IerTracksQueues'
    BY <2>1, <2>2, <1>2, ZenonT(60)
       DEF ConsoleInv, ConsoleSafe, IerTracksQueues, intq_empty, intq_full, Name
  <2>5. ConsoleExclusive'
    BY <2>2, <1>b, <1>e, Zenon
       DEF ConsoleInv, ConsoleSafe, ConsoleExclusive, lockVars
  <2>6. pc[t] # "wait"
    BY <1>2, Zenon DEF AtLoop
  <2>7. QueueInv'
    BY <2>1, <2>2, <2>6, <1>a, <1>e, <1>2, WaitKept DEF AtLoop, ConsoleInv
  <2>8. BootInv'
    BY <1>b, Zenon DEF BootInv
  <2>9. ReadInv'
    BY <1>d, <1>2, Zenon DEF ReadInv
  <2> QED BY <2>3, <2>4, <2>5, <2>7, <2>8, <2>9, Zenon DEF ConsoleInv, ConsoleSafe
<1>3. CASE /\ ~blocked(n, q)
           /\ LET q2 == IF n = "txq" THEN intq_putc(q, b) ELSE intq_getc(q)
              IN  /\ queue' = [queue EXCEPT ![n] = q2]
                  /\ asleep' = asleep \ (awake \cup unblocked(q, q2))
                  /\ key' = IF n = "buffer" THEN front(q) ELSE key
                  /\ Goto(t, IF n = "txq" THEN "put" ELSE "got")
                  /\ byte' = [byte EXCEPT ![t] = NULL]
           /\ serial_notify(queue')
  <2> DEFINE w == IF n = "txq" THEN intq_putc(q, b) ELSE intq_getc(q)
             label == IF n = "txq" THEN "put" ELSE "got"
  <2>1. /\ w \in IntqType(Thread) /\ w.holder = q.holder
        /\ n = "txq" => w.not_empty = NULL
        /\ n = "buffer" => w.not_full = NULL
    BY GetcFields, PutcFields, Zenon DEF AtLoop
  <2>2. /\ queue' = [queue EXCEPT ![n] = w]
        /\ asleep' = asleep \ (awake \cup unblocked(q, w))
        /\ key' = IF n = "buffer" THEN front(q) ELSE key
        /\ pc' = [pc EXCEPT ![t] = label]
        /\ byte' = [byte EXCEPT ![t] = NULL]
        /\ write_ier(queue')
    BY <1>3, <1>b, Zenon DEF Goto, serial_notify
  <2> HIDE DEF w
  <2>3. /\ queue' \in [Name -> IntqType(Thread)] /\ queue'[n] = w
        /\ \A m \in Name \ {n} : queue'[m] = queue[m]
        /\ pc' \in [Thread -> Label] /\ pc'[t] = label
        /\ \A u \in Thread \ {t} : pc'[u] = pc[u] /\ byte'[u] = byte[u]
        /\ byte' \in [Thread -> Byte \cup {NULL}]
        /\ asleep' \in SUBSET Thread /\ asleep' \subseteq asleep
        /\ key' \in Byte \cup {NULL}
    BY <2>1, <2>2, <1>a, FrontType
       DEF Label, AtLoop, ConsoleInv, ConsoleSafe, TypeOK
  <2>4. ier' \in SUBSET {"XMIT", "RECV"} /\ IerTracksQueues'
    BY <2>2, Zenon DEF write_ier, IerTracksQueues
  <2>5. TypeOK'
    BY <2>3, <2>4, <1>e DEF ConsoleInv, ConsoleSafe, TypeOK, lockVars, Name
  <2>6. ConsoleExclusive'
    BY <2>3, <1>b, <1>e, ZenonT(30)
       DEF ConsoleInv, ConsoleSafe, ConsoleExclusive, lockVars
\* A waiter that is asleep would have the queue blocked.
  <2>7. \A u \in Thread \ {t} :
          pc[u] = "wait" /\ on[u] = n /\ u \in asleep => FALSE
    BY <1>3, <1>a DEF ConsoleInv, QueueInv, SleepJustified, AtLoop, blocked,
                      intq_empty, intq_full
  <2>8. SleepJustified'
    <3> SUFFICES ASSUME NEW u \in Thread, pc'[u] = "wait", u \in asleep'
                 PROVE  /\ blocked(on'[u], queue'[on'[u]])
                        /\ queue'[on'[u]].holder = u
                        /\ u = IF on'[u] = "txq" THEN queue'[on'[u]].not_full
                                                 ELSE queue'[on'[u]].not_empty
      BY Zenon DEF SleepJustified, blocked, intq_full, intq_empty
    <3>1. /\ u # t /\ pc[u] = "wait" /\ u \in asleep /\ on'[u] = on[u]
          /\ on[u] \in Name \ {n} /\ queue'[on[u]] = queue[on[u]]
      BY <2>3, <2>7, <1>a, <1>e
    <3> QED BY <3>1 DEF ConsoleInv, QueueInv, SleepJustified
  <2>9. QueueInv'
    <3>1. /\ queue'["buffer"].not_full = NULL
          /\ queue'["txq"].not_empty = NULL
      BY <2>1, <2>3, SMTT(30) DEF ConsoleInv, QueueInv, Name
    <3>2. \A u \in Thread : pc'[u] = "wait" => queue'[on'[u]].holder = u
      BY <2>1, <2>3, <1>a, <1>c, <1>e DEF ConsoleInv, QueueInv, AtLoop
    <3>3. \A m \in Name : \A u \in Thread :
            queue'[m].holder = u => pc'[u] = "wait" /\ on'[u] = m
      BY <2>1, <2>3, <1>a, <1>e DEF ConsoleInv, QueueInv, AtLoop
    <3>4. \A u \in Thread :
            pc'[u] \in {"acquire", "wait"} /\ on'[u] = "txq" => byte'[u] \in Byte
      BY <2>3, <1>e, Zenon DEF ConsoleInv, QueueInv
    <3> QED BY <3>1, <3>2, <3>3, <3>4, <2>8, Zenon DEF QueueInv
  <2>10. BootInv'
    BY <1>b, Zenon DEF BootInv
  <2>11. ReadInv'
    BY <2>3, <1>b, <1>e, Zenon DEF ConsoleInv, ReadInv, Reads, lockVars, Name
  <2> QED BY <2>4, <2>5, <2>6, <2>9, <2>10, <2>11, Zenon DEF ConsoleInv, ConsoleSafe
<1> QED BY <1>1, <1>2, <1>3, Zenon DEF Loop

\* Woken in lock_acquire().
LEMMA AcquireStep ==
  ASSUME ConsoleInv, NEW t \in Thread, AfterAcquire(t),
         kernel_reader' = kernel_reader
  PROVE  ConsoleInv'
<1> DEFINE n == on[t]
           q == queue[n]
<1>a. /\ queue \in [Name -> IntqType(Thread)] /\ pc \in [Thread -> Label]
      /\ on \in [Thread -> Name] /\ byte \in [Thread -> Byte \cup {NULL}]
      /\ asleep \in SUBSET Thread
      /\ NULL \notin Thread /\ n \in Name /\ q \in IntqType(Thread)
  BY ConsoleAssumption, Zenon DEF ConsoleInv, ConsoleSafe, TypeOK, Name
<1>b. /\ pc[t] = "acquire" /\ mode = "QUEUE" /\ kernel_reader # {}
      /\ n = "txq" => console_lock = t /\ byte[t] \in Byte
      /\ UNCHANGED <<mode, rbr, thr, thre, lockVars, on, byte, printed>>
  BY Zenon DEF AfterAcquire, ready, ConsoleInv, ConsoleSafe, ConsoleExclusive,
         BootInv, ReadInv, QueueInv
<1>c. ReadInv' /\ BootInv'
  BY <1>b, Zenon DEF ReadInv, BootInv
<1>1. CASE /\ q.holder # NULL
           /\ queue' = [queue EXCEPT ![n] = [q EXCEPT !.waiters = Append(@, t)]]
           /\ asleep' = asleep \cup {t}
           /\ UNCHANGED <<pc, ier, key, panicked>>
  <2> DEFINE w == [q EXCEPT !.waiters = Append(q.waiters, t)]
  <2>1. /\ w \in IntqType(Thread) /\ w.holder = queue[n].holder
        /\ w.head = queue[n].head /\ w.tail = queue[n].tail
        /\ w.not_full = queue[n].not_full /\ w.not_empty = queue[n].not_empty
    <3>1. Append(q.waiters, t) \in Seq(Thread)
      BY <1>a DEF IntqType
    <3> QED BY <3>1, <1>a, Zenon DEF IntqType
  <2>2. queue' = [queue EXCEPT ![n] = w]
    BY <1>1, <1>a, Zenon
  <2> HIDE DEF w
  <2>3. /\ queue' \in [Name -> IntqType(Thread)]
        /\ \A m \in Name : /\ queue'[m].head = queue[m].head
                           /\ queue'[m].tail = queue[m].tail
                           /\ queue'[m].not_full = queue[m].not_full
                           /\ queue'[m].not_empty = queue[m].not_empty
                           /\ queue'[m].holder = queue[m].holder
        /\ asleep' \in SUBSET Thread /\ \A u \in asleep' \ {t} : u \in asleep
    BY <2>1, <2>2, <1>1, <1>a
  <2>4. TypeOK'
    BY <2>3, <1>a, <1>b, <1>1, Zenon DEF ConsoleInv, ConsoleSafe, TypeOK, lockVars, Name
  <2>5. IerTracksQueues'
    BY <2>3, <1>b, <1>1, Zenon
       DEF ConsoleInv, ConsoleSafe, IerTracksQueues, intq_empty, intq_full, Name
  <2>6. ConsoleExclusive'
    BY <1>b, <1>1, Zenon DEF ConsoleInv, ConsoleSafe, ConsoleExclusive, lockVars
  <2>7. QueueInv'
    BY <2>3, <1>a, <1>b, <1>1, WaitKept DEF ConsoleInv
  <2> QED BY <2>4, <2>5, <2>6, <2>7, <1>c, Zenon DEF ConsoleInv, ConsoleSafe
<1>2. CASE /\ q.holder = NULL /\ blocked(n, q)
           /\ queue' = [queue EXCEPT ![n] = wait(n, q, t)]
           /\ asleep' = asleep \cup {t}
           /\ Goto(t, "wait")
           /\ UNCHANGED <<ier, key, panicked>>
  <2> DEFINE w == wait(n, q, t)
  <2>1. /\ w \in IntqType(Thread) /\ w.holder = t
        /\ w.head = queue[n].head /\ w.tail = queue[n].tail
        /\ w.not_full = IF n = "txq" THEN t ELSE queue[n].not_full
        /\ w.not_empty = IF n = "txq" THEN queue[n].not_empty ELSE t
    BY <1>a, ZenonT(60) DEF wait, IntqType, Name
  <2> HIDE DEF w
  <2>2. /\ queue' \in [Name -> IntqType(Thread)] /\ queue'[n] = w
        /\ \A m \in Name \ {n} : queue'[m] = queue[m]
        /\ pc' \in [Thread -> Label] /\ pc'[t] = "wait"
        /\ \A u \in Thread \ {t} : pc'[u] = pc[u]
        /\ asleep' \in SUBSET Thread
        /\ \A u \in asleep' \ {t} : u \in asleep
    BY <2>1, <1>2, <1>a, Zenon DEF Goto, Label, w
  <2>3. TypeOK'
    BY <2>2, <1>a, <1>b, <1>2, ZenonT(30) DEF ConsoleInv, ConsoleSafe, TypeOK, lockVars, Name
  <2>4. IerTracksQueues'
    BY <2>1, <2>2, <1>b, <1>2
       DEF ConsoleInv, ConsoleSafe, IerTracksQueues, intq_empty, intq_full, Name
  <2>5. ConsoleExclusive'
    BY <2>2, <1>b, Zenon DEF ConsoleInv, ConsoleSafe, ConsoleExclusive, lockVars
  <2>6. blocked(n, w)
    BY <2>1, <1>2, ZenonT(30) DEF blocked, intq_empty, intq_full
  <2>7. \A u \in Thread \ {t} : ~(pc[u] = "wait" /\ on[u] = n)
    BY <1>2, <1>a DEF ConsoleInv, QueueInv
  <2>8. SleepJustified'
    <3> SUFFICES ASSUME NEW u \in Thread, pc'[u] = "wait", u \in asleep'
                 PROVE  /\ blocked(on[u], queue'[on[u]])
                        /\ queue'[on[u]].holder = u
                        /\ u = IF on[u] = "txq" THEN queue'[on[u]].not_full
                                                ELSE queue'[on[u]].not_empty
      BY <1>b, Zenon DEF SleepJustified, blocked, intq_full, intq_empty
    <3>1. CASE u = t
      BY <3>1, <2>1, <2>2, <2>6, ZenonT(30)
    <3>2. CASE u # t
      <4>1. /\ pc[u] = "wait" /\ u \in asleep
            /\ on[u] \in Name \ {n} /\ queue'[on[u]] = queue[on[u]]
        BY <3>2, <2>2, <2>7, <1>a, SMTT(30)
      <4> QED BY <4>1, ZenonT(30) DEF ConsoleInv, QueueInv, SleepJustified
    <3> QED BY <3>1, <3>2, Zenon
  <2>9. QueueInv'
    <3>1. /\ queue'["buffer"].not_full = NULL
          /\ queue'["txq"].not_empty = NULL
      BY <2>1, <2>2, <1>a DEF ConsoleInv, QueueInv, Name
    <3>2. \A u \in Thread : pc'[u] = "wait" => queue'[on[u]].holder = u
      BY <2>1, <2>2, <2>7, <1>a DEF ConsoleInv, QueueInv
    <3>3. \A m \in Name : \A u \in Thread :
            queue'[m].holder = u => pc'[u] = "wait" /\ on[u] = m
      BY <2>1, <2>2, <1>a, <1>b DEF ConsoleInv, QueueInv
    <3>4. \A u \in Thread :
            pc'[u] \in {"acquire", "wait"} /\ on[u] = "txq" => byte[u] \in Byte
      BY <2>2, <1>b, Zenon DEF ConsoleInv, QueueInv
    <3> QED BY <3>1, <3>2, <3>3, <3>4, <2>8, <1>b, ZenonT(30) DEF QueueInv
  <2> QED BY <2>3, <2>4, <2>5, <2>9, <1>c, Zenon DEF ConsoleInv, ConsoleSafe
<1>3. CASE panicked' = TRUE /\ UNCHANGED <<queue, asleep, pc, ier, key>>
  <2>1. TypeOK' /\ IerTracksQueues' /\ ConsoleExclusive'
    BY <1>3, <1>b, ZenonT(30) DEF ConsoleInv, ConsoleSafe, TypeOK, IerTracksQueues,
                      ConsoleExclusive, lockVars
  <2>2. QueueInv'
    BY <1>3, <1>b DEF ConsoleInv, QueueInv, SleepJustified
  <2> QED BY <2>1, <2>2, <1>c, Zenon DEF ConsoleInv, ConsoleSafe
<1> QED BY <1>1, <1>2, <1>3, Zenon DEF AfterAcquire

\* The calls, and the locks of the console.
LEMMA CallsInv ==
  ASSUME ConsoleInv, NEW t \in Thread, kernel_reader' = kernel_reader,
         \/ Call(t) \/ NextByte(t) \/ acquire_console(t)
         \/ release_console(t) \/ Return(t)
  PROVE  ConsoleInv'
<1>a. /\ pc \in [Thread -> Label] /\ NULL \notin Thread
      /\ {file_lock, console_lock} \subseteq Thread \cup {NULL}
      /\ console_lock_depth \in 0..MaxDepth /\ MaxDepth \in Nat
      /\ ConsoleExclusive
  BY ConsoleAssumption, Zenon DEF ConsoleInv, ConsoleSafe, TypeOK
<1>b. mode = "QUEUE"
  BY Zenon DEF ConsoleInv, BootInv, Call, read, write, printf, KernelRead, NextByte,
         acquire_console, release_console, Return, ready
<1>c. kernel_reader = {} => \A u \in Thread : Reads(u) => file_lock = u
  BY Zenon DEF ConsoleInv, ReadInv
<1>1. ASSUME NEW label \in Label, pc' = [pc EXCEPT ![t] = label],
             label # "put", on' = on,
             {pc[t], label} \cap {"acquire", "wait"} = {},
             UNCHANGED <<console_lock, console_lock_depth>>
      PROVE  ConsoleExclusive'
  BY <1>1, <1>a, Zenon DEF ConsoleExclusive
<1>2. CASE read(t)
  <2>1. /\ pc[t] = "user" /\ pc' = [pc EXCEPT ![t] = "getc"] /\ "getc" \in Label
        /\ file_lock = NULL /\ file_lock' = t /\ on' = on /\ calls
        /\ UNCHANGED <<console_lock, console_lock_depth>>
    BY <1>2, Zenon DEF read, ready, Goto, calls, Label
  <2>2. ConsoleExclusive'
    BY <2>1, <1>1, Zenon
  <2> QED BY <2>1, <2>2, <1>a, <1>b, CallStep, Zenon
<1>3. CASE write(t)
  <2>1. /\ pc[t] = "user" /\ pc' = [pc EXCEPT ![t] = "console"]
        /\ "console" \in Label
        /\ file_lock = NULL /\ file_lock' = t /\ on' = on /\ calls
        /\ UNCHANGED <<console_lock, console_lock_depth>>
    BY <1>3, Zenon DEF write, ready, Goto, calls, Label
  <2>2. ConsoleExclusive'
    BY <2>1, <1>1, Zenon
  <2> QED BY <2>1, <2>2, <1>a, <1>b, CallStep, Zenon
<1>4. CASE KernelRead(t) \/ printf(t) \/ NextByte(t)
  <2>1. PICK label \in {"getc", "console", "done"} :
          /\ pc[t] \in {"user", "got"} /\ pc' = [pc EXCEPT ![t] = label]
          /\ kernel_reader = {} /\ label = "getc" => pc[t] = "got"
          /\ UNCHANGED lockVars /\ on' = on /\ calls
    BY <1>4, Zenon DEF KernelRead, printf, NextByte, ready, Goto, calls
  <2>2. label \in Label
    BY Zenon DEF Label
  <2>3. ConsoleExclusive'
    BY <2>1, <2>2, <1>1, Zenon DEF lockVars
  <2>4. kernel_reader = {} /\ label \in {"getc", "got"} => file_lock' = t
    BY <2>1, <1>c, Zenon DEF Reads, lockVars
  <2> QED BY <2>1, <2>2, <2>3, <2>4, <1>a, <1>b, CallStep, Zenon DEF lockVars
<1>5. CASE acquire_console(t)
  <2>0. calls /\ on' = on /\ file_lock' = file_lock
    BY <1>5, Zenon DEF acquire_console, calls
  <2>1. CASE /\ ready(t, "console") /\ console_lock = NULL
             /\ console_lock' = t
             /\ Goto(t, "put")
             /\ UNCHANGED console_lock_depth
    <3>1. /\ pc[t] = "console" /\ pc' = [pc EXCEPT ![t] = "put"]
          /\ "put" \in Label
      BY <2>1, Zenon DEF ready, Goto, Label
    <3>2. ConsoleExclusive'
      BY <3>1, <2>0, <2>1, <1>a, Zenon DEF ConsoleExclusive
    <3> QED BY <3>1, <3>2, <2>0, <2>1, <1>a, <1>b, CallStep, Zenon
  <2>2. CASE /\ ready(t, "put") /\ console_lock = t
             /\ console_lock_depth < MaxDepth
             /\ console_lock_depth' = console_lock_depth + 1
             /\ UNCHANGED <<console_lock, pc>>
    <3>1. /\ pc[t] = "put" /\ pc' = [pc EXCEPT ![t] = "put"] /\ "put" \in Label
          /\ console_lock_depth' \in 0..MaxDepth
      BY <2>2, <1>a DEF ready, Label
    <3>2. ConsoleExclusive'
      BY <3>1, <2>0, <2>2, <1>a, Zenon DEF ConsoleExclusive
    <3> QED BY <3>1, <3>2, <2>0, <2>2, <1>a, <1>b, CallStep, Zenon
  <2> QED BY <2>1, <2>2, <1>5, Zenon DEF acquire_console
<1>6. CASE release_console(t)
  <2>0. /\ calls /\ on' = on /\ file_lock' = file_lock
        /\ pc[t] = "put" /\ console_lock = t
    BY <1>6, <1>a, Zenon DEF release_console, calls, ready, ConsoleExclusive
  <2>1. CASE /\ console_lock_depth > 0
             /\ console_lock_depth' = console_lock_depth - 1
             /\ UNCHANGED <<console_lock, pc>>
    <3>1. /\ pc' = [pc EXCEPT ![t] = "put"] /\ "put" \in Label
          /\ console_lock_depth' \in 0..MaxDepth
      BY <2>0, <2>1, <1>a DEF Label
    <3>2. ConsoleExclusive'
      BY <3>1, <2>0, <2>1, <1>a, Zenon DEF ConsoleExclusive
    <3> QED BY <3>1, <3>2, <2>0, <2>1, <1>a, <1>b, CallStep, Zenon
  <2>2. CASE /\ ~(console_lock_depth > 0)
             /\ console_lock' = NULL
             /\ Goto(t, "done")
             /\ UNCHANGED console_lock_depth
    <3>1. /\ pc' = [pc EXCEPT ![t] = "done"] /\ "done" \in Label
          /\ console_lock_depth = 0
      BY <2>2, <1>a DEF Goto, Label
    <3>2. ConsoleExclusive'
      BY <3>1, <2>0, <2>2, <1>a, Zenon DEF ConsoleExclusive
    <3> QED BY <3>1, <3>2, <2>0, <2>2, <1>a, <1>b, CallStep, Zenon
  <2> QED BY <2>1, <2>2, <1>6, Zenon DEF release_console
<1>7. CASE Return(t)
  <2>1. /\ pc[t] = "done" /\ pc' = [pc EXCEPT ![t] = "user"] /\ "user" \in Label
        /\ file_lock' = (IF file_lock = t THEN NULL ELSE file_lock)
        /\ on' = on /\ calls
        /\ UNCHANGED <<console_lock, console_lock_depth>>
    BY <1>7, Zenon DEF Return, ready, Goto, calls, Label
  <2>2. ConsoleExclusive'
    BY <2>1, <1>1, Zenon
  <2> QED BY <2>1, <2>2, <1>a, <1>b, CallStep, Zenon
<1> QED BY <1>2, <1>3, <1>4, <1>5, <1>6, <1>7, Zenon DEF Call

\* write_ier() makes the interrupts follow the queues.
LEMMA IerWritten ==
  ASSUME write_ier(queue')
  PROVE  ier' \in SUBSET {"XMIT", "RECV"} /\ IerTracksQueues'
  BY Zenon DEF write_ier, IerTracksQueues

\* The devices and their interrupt handlers.
LEMMA DeviceInv ==
  ASSUME ConsoleInv, Device, kernel_reader' = kernel_reader
  PROVE  ConsoleInv'
<1> DEFINE tx == queue["txq"]
           rx == queue["buffer"]
<1>a. /\ queue \in [Name -> IntqType(Thread)]
      /\ tx \in IntqType(Thread) /\ rx \in IntqType(Thread)
      /\ "txq" \in Name /\ "buffer" \in Name
      /\ mode \in {"UNINIT", "POLL", "QUEUE"} /\ ier \in SUBSET {"XMIT", "RECV"}
      /\ rbr \in Byte \cup {NULL} /\ thr \in Byte \cup {NULL}
      /\ thre \in BOOLEAN /\ printed \in 0..MaxPrinted
      /\ rx.not_full = NULL /\ tx.not_empty = NULL
      /\ IerTracksQueues /\ MaxPrinted \in Nat
  BY ConsoleAssumption, Zenon
     DEF ConsoleInv, ConsoleSafe, TypeOK, QueueInv, Name
<1>b. \A q : unblocked(q, q) = {}
  BY Zenon DEF unblocked
<1>1. ASSUME UNCHANGED <<queue, key, lockVars, pc, on, byte, asleep, panicked>>,
             mode' \in {"UNINIT", "POLL", "QUEUE"},
             ier' \in SUBSET {"XMIT", "RECV"},
             {rbr', thr'} \subseteq Byte \cup {NULL},
             thre' \in BOOLEAN, printed' = printed,
             IerTracksQueues', mode' # "QUEUE" => mode # "QUEUE"
      PROVE  ConsoleInv'
  <2>1. \A n \in Name : queue'[n].holder = queue[n].holder /\ Served(n)
    BY <1>1, Zenon DEF Served
  <2>2. asleep' = asleep \ (unblocked(queue["txq"], queue'["txq"])
                              \cup unblocked(queue["buffer"], queue'["buffer"]))
    BY <1>1, <1>b, Zenon
  <2> QED BY <2>1, <2>2, <1>1, <1>a, DeviceStep, Zenon
<1>2. ASSUME NEW b \in Byte, BootPutc(b) PROVE ConsoleInv'
  BY <1>2, <1>1, <1>a, Zenon DEF BootPutc, transmit, IerTracksQueues
<1>3. CASE serial_init_queue
  <2>1. write_ier(queue') /\ queue' = queue
    BY <1>3, Zenon DEF serial_init_queue, write_ier
  <2> QED BY <2>1, <1>3, <1>1, <1>a, IerWritten, Zenon DEF serial_init_queue
<1>4. ASSUME NEW b \in Byte, Arrive(b) PROVE ConsoleInv'
  BY <1>4, <1>1, <1>a, Zenon DEF Arrive, IerTracksQueues
<1>5. CASE Sent
  BY <1>5, <1>1, <1>a, Zenon DEF Sent, IerTracksQueues
\* From here on a queue changes.
<1>6. ASSUME NEW q2 \in IntqType(Thread), NEW q3 \in IntqType(Thread),
             queue' = [queue EXCEPT !["buffer"] = q3, !["txq"] = q2],
             mode' = mode, mode = "QUEUE" \/ q2 = tx,
             q2.holder = tx.holder, q3.holder = rx.holder,
             q2.not_empty = NULL, q3.not_full = NULL,
             q2 = tx \/ ~intq_full(tx) \/ q2.not_full = NULL,
             q3 = rx \/ ~intq_empty(rx) \/ q3.not_empty = NULL,
             asleep' = asleep \ (unblocked(tx, q2) \cup unblocked(rx, q3)),
             UNCHANGED <<key, lockVars, pc, on, byte, panicked>>,
             {rbr', thr'} \subseteq Byte \cup {NULL},
             thre' \in BOOLEAN, printed' \in 0..MaxPrinted,
             ier' \in SUBSET {"XMIT", "RECV"}, IerTracksQueues'
      PROVE  ConsoleInv'
  <2>1. /\ queue' \in [Name -> IntqType(Thread)]
        /\ queue'["txq"] = q2 /\ queue'["buffer"] = q3
    BY <1>6, <1>a, Zenon DEF Name
  <2>2. \A n \in Name : queue'[n].holder = queue[n].holder /\ Served(n)
    BY <2>1, <1>6, Zenon DEF Served, blocked, Name
  <2>3. /\ queue'["txq"] = queue["txq"] \/ mode = "QUEUE"
        /\ queue'["buffer"].not_full = NULL /\ queue'["txq"].not_empty = NULL
        /\ asleep' = asleep \ (unblocked(queue["txq"], queue'["txq"])
                                 \cup unblocked(queue["buffer"], queue'["buffer"]))
    BY <2>1, <1>6, Zenon
  <2> QED BY <2>1, <2>2, <2>3, <1>6, <1>a, DeviceStep, Zenon
<1>7. ASSUME NEW b \in Byte, HandlerPutc(b) PROVE ConsoleInv'
  <2> DEFINE q1 == IF intq_full(tx) THEN intq_getc(tx) ELSE tx
             q2 == intq_putc(q1, b)
  <2>1. /\ q1 \in IntqType(Thread) /\ q1.holder = tx.holder
        /\ intq_full(tx) => q1.not_full = NULL
    BY <1>a, GetcFields, Zenon
  <2> HIDE DEF q1
  <2>2. /\ q2 \in IntqType(Thread) /\ q2.holder = tx.holder
        /\ q2.not_empty = NULL
        /\ q2 = tx \/ ~intq_full(tx) \/ q2.not_full = NULL
    BY <2>1, PutcFields, Zenon
  <2>3. /\ queue' = [queue EXCEPT !["txq"] = q2]
        /\ asleep' = asleep \ unblocked(tx, q2)
        /\ mode = "QUEUE" /\ write_ier(queue')
        /\ UNCHANGED <<mode, rbr, key, lockVars, pc, on, byte, panicked>>
    BY <1>7, Zenon DEF HandlerPutc, q1
  <2>4. thr' \in Byte \cup {NULL} /\ thre' \in BOOLEAN
    BY <1>7, <1>a, FrontType, ZenonT(30) DEF HandlerPutc, transmit
  <2>5. printed' \in 0..MaxPrinted
    BY <1>7, <1>a DEF HandlerPutc
  <2> HIDE DEF q2
  <2>6. /\ queue' = [queue EXCEPT !["buffer"] = rx, !["txq"] = q2]
        /\ asleep' = asleep \ (unblocked(tx, q2) \cup unblocked(rx, rx))
    BY <2>3, <1>a, <1>b, Zenon
  <2> QED BY <2>2, <2>3, <2>4, <2>5, <2>6, <1>6, <1>a, IerWritten, Zenon
<1>8. CASE serial_flush
  <2> DEFINE items == intq_items(tx)
             q2 == [intq_init EXCEPT !.head = tx.head, !.tail = tx.head,
                      !.holder = tx.holder, !.waiters = tx.waiters]
  <2>1. /\ q2 \in IntqType(Thread) /\ q2.holder = tx.holder
        /\ q2.not_empty = NULL /\ q2.not_full = NULL /\ q2.head = q2.tail
    BY <1>a, Zenon DEF intq_init, IntqType
  <2>2. items[Len(items)] \in Byte \cup {NULL}
    BY <1>8, <1>a, ItemsType DEF serial_flush
  <2>3. /\ queue' = [queue EXCEPT !["txq"] = q2]
        /\ asleep' = asleep \ unblocked(tx, q2)
        /\ thr' = items[Len(items)] /\ thre' = FALSE
        /\ UNCHANGED <<mode, ier, rbr, key, lockVars, pc, on, byte, printed,
                       panicked>>
        /\ mode = "QUEUE"
    BY <1>8, Zenon DEF serial_flush, transmit
  <2> HIDE DEF q2, items
  <2>4. /\ queue' = [queue EXCEPT !["buffer"] = rx, !["txq"] = q2]
        /\ asleep' = asleep \ (unblocked(tx, q2) \cup unblocked(rx, rx))
        /\ queue'["buffer"] = rx /\ queue'["txq"] = q2
    BY <2>3, <1>a, <1>b, Zenon
  <2>5. IerTracksQueues'
    BY <2>1, <2>3, <2>4, <1>a, Zenon DEF IerTracksQueues, intq_empty, intq_full
  <2> QED BY <2>1, <2>2, <2>3, <2>4, <2>5, <1>6, <1>a, Zenon
<1>9. CASE serial_interrupt
  <2> DEFINE recv == ~intq_full(rx) /\ rbr # NULL
             xmit == ~intq_empty(tx) /\ thre
             q3 == IF recv THEN intq_putc(rx, rbr) ELSE rx
             q2 == IF xmit THEN intq_getc(tx) ELSE tx
  <2>1. /\ q3 \in IntqType(Thread) /\ q3.holder = rx.holder
        /\ q3.not_full = NULL
        /\ q3 = rx \/ q3.not_empty = NULL
    BY <1>a, PutcFields, Zenon
  <2>2. /\ q2 \in IntqType(Thread) /\ q2.holder = tx.holder
        /\ q2.not_empty = NULL
        /\ q2 = tx \/ q2.not_full = NULL
    BY <1>a, GetcFields, Zenon
  <2>3. /\ queue' = [queue EXCEPT !["buffer"] = q3, !["txq"] = q2]
        /\ asleep' = asleep \ (unblocked(rx, q3) \cup unblocked(tx, q2))
        /\ rbr' \in Byte \cup {NULL} /\ thr' \in Byte \cup {NULL}
        /\ thre' \in BOOLEAN /\ mode = "QUEUE" /\ write_ier(queue')
        /\ UNCHANGED <<mode, key, lockVars, pc, on, byte, printed, panicked>>
    BY <1>9, <1>a, FrontType, Zenon DEF serial_interrupt, transmit
  <2> HIDE DEF q2, q3
  <2>4. asleep' = asleep \ (unblocked(tx, q2) \cup unblocked(rx, q3))
    BY <2>3, Zenon
  <2>5. ier' \in SUBSET {"XMIT", "RECV"} /\ IerTracksQueues'
    BY <2>3, IerWritten, Zenon
  <2>6. {rbr', thr'} \subseteq Byte \cup {NULL} /\ printed' \in 0..MaxPrinted
    BY <2>3, <1>a, Zenon
  <2> QED BY <2>1, <2>2, <2>3, <2>4, <2>5, <2>6, <1>6, Zenon
<1>10. ASSUME NEW c \in Byte, keyboard_interrupt(c) PROVE ConsoleInv'
  <2> DEFINE q3 == intq_putc(rx, c)
  <2>1. /\ q3 \in IntqType(Thread) /\ q3.holder = rx.holder
        /\ q3.not_full = NULL /\ q3.not_empty = NULL
    BY <1>a, PutcFields, Zenon
  <2>2. /\ queue' = [queue EXCEPT !["buffer"] = q3]
        /\ asleep' = asleep \ unblocked(rx, queue'["buffer"])
        /\ serial_notify(queue')
        /\ UNCHANGED <<mode, rbr, thr, thre, key, lockVars, pc, on, byte,
                       printed, panicked>>
    BY <1>10, Zenon DEF keyboard_interrupt
  <2> HIDE DEF q3
  <2>3. /\ queue' = [queue EXCEPT !["buffer"] = q3, !["txq"] = tx]
        /\ asleep' = asleep \ (unblocked(tx, tx) \cup unblocked(rx, q3))
    BY <2>2, <1>a, <1>b, Zenon
  <2>4. ier' \in SUBSET {"XMIT", "RECV"} /\ IerTracksQueues'
    <3>1. CASE mode = "QUEUE"
      BY <3>1, <2>2, IerWritten, Zenon DEF serial_notify
    <3>2. CASE mode # "QUEUE"
      BY <3>2, <2>2, <1>a, Zenon DEF serial_notify, IerTracksQueues
    <3> QED BY <3>1, <3>2, Zenon
  <2> QED BY <2>1, <2>2, <2>3, <2>4, <1>6, <1>a, Zenon
<1> QED BY <1>2, <1>3, <1>4, <1>5, <1>7, <1>8, <1>9, <1>10, Zenon DEF Device

\* A thread in intq_getc() or intq_putc().
LEMMA QueueStepInv ==
  ASSUME ConsoleInv, NEW t \in Thread, kernel_reader' = kernel_reader,
         \/ input_getc(t) \/ AfterWait(t) \/ \E b \in Byte : serial_putc(t, b)
  PROVE  ConsoleInv'
<1>a. /\ queue \in [Name -> IntqType(Thread)] /\ on \in [Thread -> Name]
      /\ byte \in [Thread -> Byte \cup {NULL}]
      /\ "txq" \in Name /\ "buffer" \in Name
  BY Zenon DEF ConsoleInv, ConsoleSafe, TypeOK, Name
<1>1. CASE input_getc(t)
  <2>1. /\ Loop(t, "buffer", NULL, queue["buffer"], {})
        /\ on' = [on EXCEPT ![t] = "buffer"]
        /\ UNCHANGED <<mode, rbr, thr, thre, lockVars, printed, panicked>>
        /\ pc[t] = "getc"
    BY <1>1, Zenon DEF input_getc, ready
  <2>2. AtLoop(t, "buffer", queue["buffer"], NULL)
    BY <2>1, <1>a, Zenon DEF AtLoop
  <2> QED BY <2>1, <2>2, <1>a, LoopStep, Zenon
<1>2. ASSUME NEW b \in Byte, serial_putc(t, b) PROVE ConsoleInv'
  <2>1. /\ Loop(t, "txq", b, queue["txq"], {})
        /\ on' = [on EXCEPT ![t] = "txq"]
        /\ UNCHANGED <<mode, rbr, thr, thre, lockVars, printed, panicked>>
        /\ pc[t] = "put"
    BY <1>2, Zenon DEF serial_putc, ready
  <2>2. AtLoop(t, "txq", queue["txq"], b)
    BY <2>1, <1>a, Zenon DEF AtLoop
  <2> QED BY <2>1, <2>2, <1>a, LoopStep, Zenon
<1>3. CASE AfterWait(t)
  <2> DEFINE n == on[t]
             q == queue[n]
             woken == IF q.waiters = <<>> THEN {} ELSE {Head(q.waiters)}
             q1 == [q EXCEPT !.holder = NULL,
                      !.waiters = IF @ = <<>> THEN @ ELSE Tail(@)]
  <2>1. /\ Loop(t, n, byte[t], q1, woken)
        /\ on' = on
        /\ UNCHANGED <<mode, rbr, thr, thre, lockVars, printed, panicked>>
        /\ pc[t] = "wait"
    BY <1>3, Zenon DEF AfterWait, ready
  <2>2. /\ q1 \in IntqType(Thread) /\ q1.holder = NULL
        /\ q1.head = q.head /\ q1.tail = q.tail
        /\ q1.not_full = q.not_full /\ q1.not_empty = q.not_empty
    <3>1. q \in IntqType(Thread) /\ q.waiters \in Seq(Thread)
      BY <1>a, Zenon DEF IntqType
    <3>2. (IF q.waiters = <<>> THEN q.waiters ELSE Tail(q.waiters)) \in Seq(Thread)
      BY <3>1
    <3> QED BY <3>1, <3>2, Zenon DEF IntqType
  <2>3. n = "txq" => byte[t] \in Byte
    BY <2>1, Zenon DEF ConsoleInv, QueueInv
  <2>4. n \in Name /\ on' = [on EXCEPT ![t] = n] /\ byte[t] \in Byte \cup {NULL}
    BY <2>1, <1>a, Zenon
  <2> HIDE DEF q1, woken
  <2>5. AtLoop(t, n, q1, byte[t])
    BY <2>1, <2>2, <2>3, <2>4, Zenon DEF AtLoop
  <2> HIDE DEF n
  <2> QED BY <2>1, <2>4, <2>5, LoopStep, Zenon
<1> QED BY <1>1, <1>2, <1>3, Zenon

\* The invariant holds throughout.
LEMMA ConsoleInvHolds == Spec => []ConsoleInv
<1>1. Init => ConsoleInv
  <2> SUFFICES ASSUME Init PROVE ConsoleInv
    BY Zenon
  <2>a. /\ intq_init \in IntqType(Thread)
        /\ intq_init.head = 0 /\ intq_init.tail = 0
        /\ intq_init.not_full = NULL /\ intq_init.not_empty = NULL
        /\ intq_init.holder = NULL
    <3>1. <<>> \in Seq(Thread)
      OBVIOUS
    <3> QED BY <3>1, IntqAssumption DEF intq_init, IntqType
  <2>b. \A n \in Name : queue[n] = intq_init
    BY Zenon DEF Init, Name
  <2>1. TypeOK
    <3>1. queue \in [{"txq", "buffer"} -> IntqType(Thread)]
      BY <2>a, Zenon DEF Init
    <3>2. /\ pc \in [Thread -> Label] /\ on \in [Thread -> {"txq", "buffer"}]
          /\ byte \in [Thread -> Byte \cup {NULL}]
      BY Zenon DEF Init, Label
    <3>3. console_lock_depth \in 0..MaxDepth /\ printed \in 0..MaxPrinted
      BY ConsoleAssumption DEF Init
    <3> QED BY <3>1, <3>2, <3>3, Zenon DEF Init, TypeOK
  <2>2. IerTracksQueues /\ ConsoleExclusive
    BY Zenon DEF Init, IerTracksQueues, ConsoleExclusive
  <2>3. QueueInv
    BY <2>a, <2>b, ConsoleAssumption, Zenon DEF Init, QueueInv, SleepJustified, Name
  <2>4. BootInv
    BY <2>a, <2>b, Zenon DEF Init, BootInv, intq_empty, Name
  <2>5. ReadInv
    BY Zenon DEF Init, ReadInv, Reads
  <2> QED BY <2>1, <2>2, <2>3, <2>4, <2>5, Zenon DEF ConsoleInv, ConsoleSafe
<1>2. ConsoleInv /\ [Next]_vars => ConsoleInv'
  <2> SUFFICES ASSUME ConsoleInv, [Next]_vars PROVE ConsoleInv'
    BY Zenon
  <2>1. ASSUME NEW t \in Thread, Running(Call(t)) PROVE ConsoleInv'
    BY <2>1, CallsInv, Zenon DEF Running
  <2>2. ASSUME NEW t \in Thread, Running(Continue(t)) PROVE ConsoleInv'
    BY <2>2, CallsInv, QueueStepInv, AcquireStep, Zenon DEF Running, Continue
  <2>3. CASE Running(Device)
    BY <2>3, DeviceInv, Zenon DEF Running
  <2>4. CASE UNCHANGED vars
    <3>1. TypeOK' /\ IerTracksQueues' /\ ConsoleExclusive'
      BY <2>4, Zenon DEF vars, lockVars, ConsoleInv, ConsoleSafe, TypeOK,
                  IerTracksQueues, ConsoleExclusive
    <3>2. QueueInv' /\ BootInv' /\ ReadInv'
      BY <2>4, Zenon DEF vars, lockVars, ConsoleInv, QueueInv, SleepJustified,
                  BootInv, ReadInv, Reads
    <3> QED BY <3>1, <3>2, Zenon DEF ConsoleInv, ConsoleSafe
  <2> QED BY <2>1, <2>2, <2>3, <2>4, Zenon DEF Next
<1> QED BY <1>1, <1>2, PTL DEF Spec

\* Through every interrupt the UART's interrupts are enabled for what the
\* queues hold, and the console belongs to one thread.
THEOREM ConsoleIsSafe == Spec => []ConsoleSafe
<1>1. ConsoleInv => ConsoleSafe
  BY Zenon DEF ConsoleInv
<1> QED BY <1>1, ConsoleInvHolds, PTL

\* The ASSERT of wait() in intq.c holds as long as every reader comes through
\* read(), and nobody sleeps beside the byte or the room that it waits for.
THEOREM WaitsAreSound == Spec => []WaitsSound
<1>1. ConsoleInv => WaitsSound
  BY Zenon DEF ConsoleInv, QueueInv, ReadInv, WaitsSound, NoPanic
<1> QED BY <1>1, ConsoleInvHolds, PTL

-----------------------------------------------------------------------------
(* The queues are first in, first out.                                     *)

\* The slot of the i-th byte of a queue whose oldest byte is at p.
Slot(p, i) == (p + i - 1) % N

LEMMA SlotValue ==
  ASSUME NEW p \in 0..N - 1, NEW i \in 1..N
  PROVE  /\ Slot(p, i) \in 0..N - 1
         /\ Slot(p, i) = IF p + i - 1 < N THEN p + i - 1 ELSE p + i - 1 - N
<1>1. N \in Nat \ {0, 1}
  BY IntqAssumption, Zenon DEF N
<1>2. PICK x \in 0..2 * N - 1 : x = p + i - 1
  BY <1>1
<1>3. Slot(p, i) = IF x < N THEN x ELSE x - N
  BY <1>2, Wrap, Zenon DEF Slot
<1> QED BY <1>1, <1>2, <1>3

\* A queue that is empty holds nothing.
LEMMA EmptyItems ==
  ASSUME NEW q \in IntqType(Thread)
  PROVE  intq_empty(q) <=> intq_items(q) = <<>>
<1>1. /\ q.head \in 0..N - 1 /\ q.tail \in 0..N - 1 /\ N \in Nat \ {0, 1}
  BY IntqAssumption, Zenon DEF IntqType, N
<1>2. Held(q) = 0 <=> q.head = q.tail
  BY <1>1, ItemsType
<1>3. Len(intq_items(q)) = 0 <=> intq_items(q) = <<>>
  BY ItemsType
<1> QED BY <1>2, <1>3, ItemsType, Zenon DEF intq_empty

\* intq_getc() takes the oldest byte.
LEMMA GetcItems ==
  ASSUME NEW q \in IntqType(Thread), ~intq_empty(q)
  PROVE  /\ intq_items(q) # <<>>
         /\ front(q) = Head(intq_items(q))
         /\ intq_items(intq_getc(q)) = Tail(intq_items(q))
<1> DEFINE r == intq_getc(q)
           s == intq_items(q)
<1>a. /\ q.head \in 0..N - 1 /\ q.tail \in 0..N - 1 /\ N \in Nat \ {0, 1}
      /\ q.buf \in [0..N - 1 -> Byte \cup {NULL}]
      /\ q.head # q.tail
  BY IntqAssumption, Zenon DEF IntqType, N, intq_empty
<1>b. /\ r \in IntqType(Thread) /\ r.head = q.head /\ r.tail = next(q.tail)
      /\ r.buf = [q.buf EXCEPT ![q.tail] = NULL]
  BY GetcFields, Zenon
<1>c. next(q.tail) = IF q.tail = N - 1 THEN 0 ELSE q.tail + 1
  BY <1>a, NextPos, Zenon
<1>1. Held(q) \in 1..N - 1 /\ Held(r) = Held(q) - 1
  <2>1. /\ Held(q) = IF q.head >= q.tail THEN q.head - q.tail
                                         ELSE q.head - q.tail + N
        /\ Held(r) = IF r.head >= r.tail THEN r.head - r.tail
                                         ELSE r.head - r.tail + N
    BY <1>b, ItemsType, Zenon
  <2> QED BY <2>1, <1>a, <1>b, <1>c, SMTT(30)
<1>2. s \in Seq(Byte \cup {NULL}) /\ Len(s) = Held(q) /\ s # <<>>
  BY <1>1, ItemsType
<1>3. front(q) = Head(s)
  <2>1. Slot(q.tail, 1) = q.tail
    BY <1>a, SlotValue
  <2>2. s[1] = q.buf[Slot(q.tail, 1)]
    BY <1>1, ItemsType DEF Slot
  <2> QED BY <2>1, <2>2, <1>2 DEF front
<1>4. ASSUME NEW i \in 1..Held(r) PROVE intq_items(r)[i] = s[i + 1]
  <2>1. /\ intq_items(r)[i] = r.buf[Slot(r.tail, i)]
        /\ s[i + 1] = q.buf[Slot(q.tail, i + 1)]
    <3>1. intq_items(r)[i] = r.buf[Slot(r.tail, i)]
      BY <1>b, ItemsType, Zenon DEF Slot
    <3>2. \A k \in 1..Held(q) : s[k] = q.buf[Slot(q.tail, k)]
      BY ItemsType, Zenon DEF Slot
    <3> QED BY <3>1, <3>2, <1>1
  <2>2. /\ Slot(r.tail, i) = Slot(q.tail, i + 1)
        /\ Slot(q.tail, i + 1) # q.tail /\ Slot(q.tail, i + 1) \in 0..N - 1
    <3>1. i \in 1..N /\ i + 1 \in 1..N /\ r.tail \in 0..N - 1
      BY <1>1, <1>a, <1>b, <1>c
    <3>2. /\ Slot(r.tail, i) = IF r.tail + i - 1 < N THEN r.tail + i - 1
                                                     ELSE r.tail + i - 1 - N
          /\ Slot(q.tail, i + 1) = IF q.tail + (i + 1) - 1 < N
                                     THEN q.tail + (i + 1) - 1
                                     ELSE q.tail + (i + 1) - 1 - N
      BY <3>1, <1>a, SlotValue, Zenon
    <3>3. Slot(q.tail, i + 1) \in 0..N - 1
      BY <3>1, <1>a, SlotValue, Zenon
    <3>4. i \in 1..N - 1
      BY <1>1, <1>a, SMTT(30)
    <3> HIDE DEF r, s
    <3>5. CASE q.tail = N - 1
      BY <3>2, <3>3, <3>4, <3>5, <1>a, <1>b, <1>c, SMTT(30)
    <3>6. CASE q.tail # N - 1
      BY <3>2, <3>3, <3>4, <3>6, <1>a, <1>b, <1>c, SMTT(30)
    <3> QED BY <3>5, <3>6, Zenon
  <2> QED BY <2>1, <2>2, <1>a, <1>b, Zenon
<1>5. intq_items(r) = Tail(s)
  <2>1. /\ intq_items(r) \in Seq(Byte \cup {NULL})
        /\ Len(intq_items(r)) = Len(s) - 1
    BY <1>1, <1>2, <1>b, ItemsType, Zenon
  <2>2. /\ Tail(s) \in Seq(Byte \cup {NULL}) /\ Len(Tail(s)) = Len(s) - 1
        /\ \A i \in 1..Len(s) - 1 : Tail(s)[i] = s[i + 1]
    BY <1>2
  <2>3. \A i \in 1..Len(s) - 1 : intq_items(r)[i] = Tail(s)[i]
    BY <2>2, <1>1, <1>2, <1>4, Zenon
  <2> HIDE DEF r, s
  <2> QED BY <2>1, <2>2, <2>3
<1> QED BY <1>2, <1>3, <1>5, Zenon

\* intq_putc() adds a byte at the end.
LEMMA PutcItems ==
  ASSUME NEW q \in IntqType(Thread), NEW b \in Byte, ~intq_full(q)
  PROVE  /\ Len(intq_items(q)) < N - 1
         /\ intq_items(intq_putc(q, b)) = Append(intq_items(q), b)
<1> DEFINE r == intq_putc(q, b)
           s == intq_items(q)
<1>a. /\ q.head \in 0..N - 1 /\ q.tail \in 0..N - 1 /\ N \in Nat \ {0, 1}
      /\ q.buf \in [0..N - 1 -> Byte \cup {NULL}]
      /\ next(q.head) # q.tail
  BY IntqAssumption, Zenon DEF IntqType, N, intq_full
<1>b. /\ r \in IntqType(Thread) /\ r.tail = q.tail /\ r.head = next(q.head)
      /\ r.buf = [q.buf EXCEPT ![q.head] = b]
  BY PutcFields, Zenon
<1>c. next(q.head) = IF q.head = N - 1 THEN 0 ELSE q.head + 1
  BY <1>a, NextPos, Zenon
<1>d. Held(q) = IF q.head >= q.tail THEN q.head - q.tail
                                    ELSE q.head - q.tail + N
  BY ItemsType, ZenonT(30)
<1>1. Held(q) \in 0..N - 2 /\ Held(r) = Held(q) + 1
  <2>1. Held(r) = IF r.head >= r.tail THEN r.head - r.tail
                                      ELSE r.head - r.tail + N
    BY <1>b, ItemsType, Zenon
  <2> HIDE DEF r, s
  <2>2. CASE q.head = N - 1
    BY <2>1, <2>2, <1>a, <1>b, <1>c, <1>d, SMTT(30)
  <2>3. CASE q.head # N - 1 /\ q.head >= q.tail
    BY <2>1, <2>3, <1>a, <1>b, <1>c, <1>d, SMTT(30)
  <2>4. CASE q.head # N - 1 /\ q.head < q.tail
    BY <2>1, <2>4, <1>a, <1>b, <1>c, <1>d, SMTT(30)
  <2> QED BY <2>2, <2>3, <2>4, <1>a, SMTT(30)
<1>2. s \in Seq(Byte \cup {NULL}) /\ Len(s) = Held(q)
  BY ItemsType, Zenon
<1>3. Slot(q.tail, Held(q) + 1) = q.head
  <2>1. Held(q) + 1 \in 1..N
    BY <1>1, <1>a
  <2>2. Slot(q.tail, Held(q) + 1) =
          IF q.tail + (Held(q) + 1) - 1 < N THEN q.tail + (Held(q) + 1) - 1
                                            ELSE q.tail + (Held(q) + 1) - 1 - N
    BY <2>1, <1>a, SlotValue, Zenon
  <2> QED BY <2>2, <1>a, <1>d, SMTT(30)
<1>4. ASSUME NEW i \in 1..Held(q)
      PROVE  /\ Slot(q.tail, i) # q.head /\ Slot(q.tail, i) \in 0..N - 1
  <2>1. i \in 1..N
    BY <1>1, <1>a
  <2>2. /\ Slot(q.tail, i) \in 0..N - 1
        /\ Slot(q.tail, i) = IF q.tail + i - 1 < N THEN q.tail + i - 1
                                                   ELSE q.tail + i - 1 - N
    BY <2>1, <1>a, SlotValue, Zenon
  <2> QED BY <2>1, <2>2, <1>a, <1>d
<1>5. \A i \in 1..Held(r) : intq_items(r)[i] = r.buf[Slot(q.tail, i)]
  BY <1>b, ItemsType, Zenon DEF Slot
<1>6. \A i \in 1..Held(q) : s[i] = q.buf[Slot(q.tail, i)]
  BY ItemsType, Zenon DEF Slot
<1>7. intq_items(r) = Append(s, b)
  <2>1. /\ intq_items(r) \in Seq(Byte \cup {NULL})
        /\ Len(intq_items(r)) = Len(s) + 1
    BY <1>1, <1>2, <1>b, ItemsType, Zenon
  <2>2. /\ Append(s, b) \in Seq(Byte \cup {NULL})
        /\ Len(Append(s, b)) = Len(s) + 1
        /\ \A i \in 1..Len(s) : Append(s, b)[i] = s[i]
        /\ Append(s, b)[Len(s) + 1] = b
    BY <1>2, SMTT(30)
  <2>3. \A i \in 1..Len(s) : intq_items(r)[i] = s[i]
    BY <1>1, <1>2, <1>4, <1>5, <1>6, <1>a, <1>b, SMTT(30)
  <2>4. intq_items(r)[Len(s) + 1] = b
    BY <1>1, <1>2, <1>3, <1>5, <1>a, <1>b, SMTT(30)
  <2>5. \A i \in 1..Len(s) + 1 : intq_items(r)[i] = Append(s, b)[i]
    BY <2>2, <2>3, <2>4, <1>2
  <2> HIDE DEF r, s
  <2> QED BY <2>1, <2>2, <2>5
<1> QED BY <1>1, <1>2, <1>7, <1>a

\* What a queue holds depends on its buffer and its two positions alone.
LEMMA SameItems ==
  ASSUME NEW q, NEW r, q.buf = r.buf, q.head = r.head, q.tail = r.tail
  PROVE  /\ intq_items(q) = intq_items(r)
         /\ intq_full(q) = intq_full(r) /\ intq_empty(q) = intq_empty(r)
  BY Zenon DEF intq_items, intq_full, intq_empty

\* A full queue that gives up its oldest byte has room for one more.
LEMMA SwapItems ==
  ASSUME NEW q \in IntqType(Thread), NEW b \in Byte, intq_full(q)
  PROVE  /\ intq_items(q) # <<>>
         /\ front(q) = Head(intq_items(q))
         /\ intq_items(intq_putc(intq_getc(q), b)) = Append(Tail(intq_items(q)), b)
<1>1. /\ q.head \in 0..N - 1 /\ q.tail \in 0..N - 1 /\ N \in Nat \ {0, 1}
      /\ next(q.head) = q.tail
  BY IntqAssumption, Zenon DEF IntqType, N, intq_full
<1>2. /\ next(q.head) = IF q.head = N - 1 THEN 0 ELSE q.head + 1
      /\ next(q.tail) = IF q.tail = N - 1 THEN 0 ELSE q.tail + 1
  BY <1>1, NextPos, Zenon
<1>3. ~intq_empty(q)
  BY <1>1, <1>2 DEF intq_empty
<1>4. /\ intq_getc(q) \in IntqType(Thread) /\ intq_getc(q).head = q.head
      /\ intq_getc(q).tail = next(q.tail)
  BY <1>3, GetcFields, Zenon
<1>5. ~intq_full(intq_getc(q))
  <2>1. next(q.head) # next(q.tail)
    BY <1>1, <1>2
  <2> QED BY <2>1, <1>4, Zenon DEF intq_full
<1> QED BY <1>3, <1>4, <1>5, GetcItems, PutcItems, Zenon

\* What a queue and the byte that left it last may do in a step: the actions
\* of module Fifo.
Steps(s, x, s2, x2) ==
  \/ s2 = s /\ x2 = x
  \/ \E b \in Byte : \/ Len(s) < N - 1 /\ s2 = Append(s, b) /\ x2 = x
                     \/ s = <<>> /\ s2 = s /\ x2 = b
                     \/ s # <<>> /\ s2 = Append(Tail(s), b) /\ x2 = Head(s)
  \/ s # <<>> /\ s2 = Tail(s) /\ x2 = Head(s)
  \/ s # <<>> /\ s2 = <<>> /\ x2 = s[Len(s)]

BothStep ==
  /\ Steps(intq_items(queue["txq"]), thr, intq_items(queue'["txq"]), thr')
  /\ Steps(intq_items(queue["buffer"]), key, intq_items(queue'["buffer"]), key')

LEMMA PutcSteps ==
  ASSUME NEW q \in IntqType(Thread), NEW b \in Byte, ~intq_full(q), NEW x
  PROVE  Steps(intq_items(q), x, intq_items(intq_putc(q, b)), x)
  BY PutcItems, Zenon DEF Steps

LEMMA GetcSteps ==
  ASSUME NEW q \in IntqType(Thread), ~intq_empty(q), NEW x
  PROVE  Steps(intq_items(q), x, intq_items(intq_getc(q)), front(q))
  BY GetcItems, Zenon DEF Steps

\* A thread in the loop of intq_putc() or of intq_getc().
LEMMA LoopFifo ==
  ASSUME ConsoleInv, NEW t \in Thread, NEW n \in Name, NEW q, NEW b,
         NEW awake, Loop(t, n, b, q, awake), AtLoop(t, n, q, b),
         q.buf = queue[n].buf, thr' = thr
  PROVE  BothStep
<1>a. /\ queue \in [Name -> IntqType(Thread)] /\ q \in IntqType(Thread)
      /\ "txq" \in Name /\ "buffer" \in Name
  BY Zenon DEF ConsoleInv, ConsoleSafe, TypeOK, Name, AtLoop
<1>b. intq_items(q) = intq_items(queue[n])
  BY SameItems, Zenon DEF AtLoop
<1>1. CASE /\ UNCHANGED key
           /\ queue' = [queue EXCEPT ![n] = wait(n, q, t)]
  <2>1. /\ wait(n, q, t).buf = q.buf /\ wait(n, q, t).head = q.head
        /\ wait(n, q, t).tail = q.tail
    BY <1>a, Zenon DEF wait, IntqType
  <2>2. intq_items(wait(n, q, t)) = intq_items(queue[n])
    BY <2>1, <1>b, SameItems, Zenon
  <2>3. \A m \in Name : intq_items(queue'[m]) = intq_items(queue[m])
    BY <2>2, <1>1, <1>a, Zenon
  <2> QED BY <2>3, <1>1, <1>a, Zenon DEF BothStep, Steps
<1>2. CASE /\ UNCHANGED key
           /\ queue' = [queue EXCEPT ![n] = [q EXCEPT !.waiters = Append(@, t)]]
  <2> DEFINE w == [q EXCEPT !.waiters = Append(@, t)]
  <2>1. w.buf = q.buf /\ w.head = q.head /\ w.tail = q.tail
    BY <1>a, Zenon DEF IntqType
  <2> HIDE DEF w
  <2>2. intq_items(w) = intq_items(queue[n])
    BY <2>1, <1>b, SameItems, Zenon
  <2>3. \A m \in Name : intq_items(queue'[m]) = intq_items(queue[m])
    BY <2>2, <1>2, <1>a, Zenon DEF w
  <2> QED BY <2>3, <1>2, <1>a, Zenon DEF BothStep, Steps
<1>3. CASE /\ ~blocked(n, q)
           /\ queue' = [queue EXCEPT ![n] = IF n = "txq" THEN intq_putc(q, b)
                                                         ELSE intq_getc(q)]
           /\ key' = IF n = "buffer" THEN front(q) ELSE key
  <2>1. CASE n = "txq"
    <3>1. /\ ~intq_full(q) /\ b \in Byte /\ key' = key
          /\ queue' = [queue EXCEPT !["txq"] = intq_putc(q, b)]
      BY <1>3, <2>1, Zenon DEF blocked, AtLoop
    <3>2. /\ queue'["txq"] = intq_putc(q, b) /\ queue'["buffer"] = queue["buffer"]
      BY <3>1, <1>a, Zenon
    <3>3. Steps(intq_items(q), thr, intq_items(intq_putc(q, b)), thr)
      BY <3>1, <1>a, PutcSteps, Zenon
    <3> QED BY <3>1, <3>2, <3>3, <1>b, <2>1, Zenon DEF BothStep, Steps
  <2>2. CASE n = "buffer"
    <3>1. /\ ~intq_empty(q) /\ key' = front(q)
          /\ queue' = [queue EXCEPT !["buffer"] = intq_getc(q)]
      BY <1>3, <2>2, Zenon DEF blocked
    <3>2. /\ queue'["buffer"] = intq_getc(q) /\ queue'["txq"] = queue["txq"]
      BY <3>1, <1>a, Zenon
    <3>3. Steps(intq_items(q), key, intq_items(intq_getc(q)), front(q))
      BY <3>1, <1>a, GetcSteps, Zenon
    <3> QED BY <3>1, <3>2, <3>3, <1>b, <2>2, Zenon DEF BothStep, Steps
  <2> QED BY <2>1, <2>2, Zenon DEF Name
<1> QED BY <1>1, <1>2, <1>3, Zenon DEF Loop

\* A thread that goes on with input or output.
LEMMA QueueStepFifo ==
  ASSUME ConsoleInv, NEW t \in Thread,
         \/ input_getc(t) \/ AfterWait(t) \/ \E b \in Byte : serial_putc(t, b)
  PROVE  BothStep
<1>a. /\ queue \in [Name -> IntqType(Thread)] /\ on \in [Thread -> Name]
      /\ byte \in [Thread -> Byte \cup {NULL}]
      /\ "txq" \in Name /\ "buffer" \in Name
  BY Zenon DEF ConsoleInv, ConsoleSafe, TypeOK, Name
<1>1. CASE input_getc(t)
  <2>1. /\ Loop(t, "buffer", NULL, queue["buffer"], {})
        /\ thr' = thr /\ pc[t] = "getc"
    BY <1>1, Zenon DEF input_getc, ready
  <2>2. AtLoop(t, "buffer", queue["buffer"], NULL)
    BY <2>1, <1>a, Zenon DEF AtLoop
  <2> QED BY <2>1, <2>2, <1>a, LoopFifo, Zenon
<1>2. ASSUME NEW b \in Byte, serial_putc(t, b) PROVE BothStep
  <2>1. /\ Loop(t, "txq", b, queue["txq"], {})
        /\ thr' = thr /\ pc[t] = "put"
    BY <1>2, Zenon DEF serial_putc, ready
  <2>2. AtLoop(t, "txq", queue["txq"], b)
    BY <2>1, <1>a, Zenon DEF AtLoop
  <2> QED BY <2>1, <2>2, <1>a, LoopFifo, Zenon
<1>3. CASE AfterWait(t)
  <2> DEFINE n == on[t]
             q == queue[n]
             woken == IF q.waiters = <<>> THEN {} ELSE {Head(q.waiters)}
             q1 == [q EXCEPT !.holder = NULL,
                      !.waiters = IF @ = <<>> THEN @ ELSE Tail(@)]
  <2>1. Loop(t, n, byte[t], q1, woken) /\ thr' = thr /\ pc[t] = "wait"
    BY <1>3, Zenon DEF AfterWait, ready
  <2>2. /\ q1 \in IntqType(Thread) /\ q1.holder = NULL
        /\ q1.head = q.head /\ q1.tail = q.tail /\ q1.buf = q.buf
        /\ q1.not_full = q.not_full /\ q1.not_empty = q.not_empty
    <3>1. q \in IntqType(Thread) /\ q.waiters \in Seq(Thread)
      BY <1>a, Zenon DEF IntqType
    <3>2. (IF q.waiters = <<>> THEN q.waiters ELSE Tail(q.waiters)) \in Seq(Thread)
      BY <3>1
    <3> QED BY <3>1, <3>2, Zenon DEF IntqType
  <2>3. n = "txq" => byte[t] \in Byte
    BY <2>1, Zenon DEF ConsoleInv, QueueInv
  <2>4. n \in Name /\ byte[t] \in Byte \cup {NULL}
    BY <2>1, <1>a, Zenon
  <2> HIDE DEF q1, woken
  <2>5. AtLoop(t, n, q1, byte[t])
    BY <2>1, <2>2, <2>3, <2>4, Zenon DEF AtLoop
  <2>6. q1.buf = queue[n].buf
    BY <2>2, Zenon
  <2> HIDE DEF n
  <2> QED BY <2>1, <2>4, <2>5, <2>6, LoopFifo, Zenon
<1> QED BY <1>1, <1>2, <1>3, Zenon

\* Woken in lock_acquire(): no byte moves.
LEMMA AcquireFifo ==
  ASSUME ConsoleInv, NEW t \in Thread, AfterAcquire(t)
  PROVE  BothStep
<1> DEFINE n == on[t]
           q == queue[n]
           w == [q EXCEPT !.waiters = Append(@, t)]
<1>a. /\ queue \in [Name -> IntqType(Thread)] /\ n \in Name /\ q \in IntqType(Thread)
      /\ "txq" \in Name /\ "buffer" \in Name
  BY Zenon DEF ConsoleInv, ConsoleSafe, TypeOK, Name
<1>1. /\ thr' = thr /\ key' = key
      /\ \/ queue' = [queue EXCEPT ![n] = w]
         \/ queue' = [queue EXCEPT ![n] = wait(n, q, t)]
         \/ queue' = queue
  BY Zenon DEF AfterAcquire
<1>2. /\ w.buf = q.buf /\ w.head = q.head /\ w.tail = q.tail
      /\ wait(n, q, t).buf = q.buf /\ wait(n, q, t).head = q.head
      /\ wait(n, q, t).tail = q.tail
  BY <1>a, Zenon DEF wait, IntqType
<1> HIDE DEF w
<1>3. intq_items(w) = intq_items(q) /\ intq_items(wait(n, q, t)) = intq_items(q)
  BY <1>2, SameItems, Zenon
<1>4. \A m \in Name : intq_items(queue'[m]) = intq_items(queue[m])
  BY <1>1, <1>3, <1>a, Zenon
<1> QED BY <1>1, <1>4, <1>a, Zenon DEF BothStep, Steps

\* A step of a device.
LEMMA DeviceFifo ==
  ASSUME ConsoleInv, Device
  PROVE  BothStep
<1> DEFINE in == queue["buffer"]
           out == queue["txq"]
<1>a. /\ queue \in [Name -> IntqType(Thread)]
      /\ in \in IntqType(Thread) /\ out \in IntqType(Thread)
      /\ rbr \in Byte \cup {NULL}
      /\ "txq" \in Name /\ "buffer" \in Name
  BY Zenon DEF ConsoleInv, ConsoleSafe, TypeOK, Name
<1>1. CASE serial_init_queue \/ Sent \/ \E b \in Byte : Arrive(b)
  BY <1>1, Zenon DEF serial_init_queue, Sent, Arrive, BothStep, Steps
<1>2. ASSUME NEW b \in Byte, BootPutc(b) PROVE BothStep
  <2>1. intq_items(out) = <<>>
    BY <1>2, <1>a, EmptyItems, Zenon DEF BootPutc, ConsoleInv, BootInv
  <2> QED BY <1>2, <2>1, Zenon DEF BootPutc, transmit, BothStep, Steps
<1>3. CASE serial_flush
  <2> DEFINE d == [intq_init EXCEPT !.head = out.head, !.tail = out.head,
                     !.holder = out.holder, !.waiters = out.waiters]
  <2>1. /\ intq_items(out) # <<>> /\ thr' = intq_items(out)[Len(intq_items(out))]
        /\ queue' = [queue EXCEPT !["txq"] = d] /\ key' = key
    BY <1>3, Zenon DEF serial_flush, transmit
  <2>2. intq_items(d) = <<>>
    <3>1. d.head = out.head /\ d.tail = out.head
      BY Zenon DEF intq_init
    <3>2. d \in IntqType(Thread)
      BY <1>a, IntqAssumption, Zenon DEF intq_init, IntqType
    <3> HIDE DEF d
    <3> QED BY <3>1, <3>2, EmptyItems, Zenon DEF intq_empty
  <2> HIDE DEF d
  <2>3. queue'["txq"] = d /\ queue'["buffer"] = in
    BY <2>1, <1>a, Zenon
  <2> QED BY <2>1, <2>2, <2>3 DEF BothStep, Steps
<1>4. ASSUME NEW b \in Byte, HandlerPutc(b) PROVE BothStep
  <2>1. CASE intq_full(out)
    <3>1. /\ thr' = front(out) /\ key' = key
          /\ queue' = [queue EXCEPT !["txq"] = intq_putc(intq_getc(out), b)]
      BY <1>4, <2>1, Zenon DEF HandlerPutc, transmit
    <3>2. /\ queue'["txq"] = intq_putc(intq_getc(out), b)
          /\ queue'["buffer"] = in
      BY <3>1, <1>a, Zenon
    <3>3. Steps(intq_items(out), thr, intq_items(queue'["txq"]), thr')
      BY <3>1, <3>2, <1>a, <2>1, SwapItems, Zenon DEF Steps
    <3> QED BY <3>1, <3>2, <3>3, Zenon DEF BothStep, Steps
  <2>2. CASE ~intq_full(out)
    <3>1. /\ thr' = thr /\ key' = key
          /\ queue' = [queue EXCEPT !["txq"] = intq_putc(out, b)]
      BY <1>4, <2>2, Zenon DEF HandlerPutc
    <3>2. queue'["txq"] = intq_putc(out, b) /\ queue'["buffer"] = in
      BY <3>1, <1>a, Zenon
    <3>3. Steps(intq_items(out), thr, intq_items(queue'["txq"]), thr')
      BY <3>1, <3>2, <1>a, <2>2, PutcSteps, Zenon
    <3> QED BY <3>1, <3>2, <3>3, Zenon DEF BothStep, Steps
  <2> QED BY <2>1, <2>2, Zenon
<1>5. CASE serial_interrupt
  <2> DEFINE recv == ~intq_full(in) /\ rbr # NULL
             xmit == ~intq_empty(out) /\ thre
  <2>1. /\ key' = key /\ thr' = IF xmit THEN front(out) ELSE thr
        /\ queue' = [queue EXCEPT
                       !["buffer"] = IF recv THEN intq_putc(in, rbr) ELSE in,
                       !["txq"] = IF xmit THEN intq_getc(out) ELSE out]
    BY <1>5, Zenon DEF serial_interrupt, transmit
  <2>2. /\ queue'["buffer"] = IF recv THEN intq_putc(in, rbr) ELSE in
        /\ queue'["txq"] = IF xmit THEN intq_getc(out) ELSE out
    BY <2>1, <1>a, Zenon
  <2>3. Steps(intq_items(in), key, intq_items(queue'["buffer"]), key')
    <3>1. CASE recv
      BY <2>1, <2>2, <3>1, <1>a, PutcSteps, Zenon
    <3>2. CASE ~recv
      BY <2>1, <2>2, <3>2, Zenon DEF Steps
    <3> QED BY <3>1, <3>2, Zenon
  <2>4. Steps(intq_items(out), thr, intq_items(queue'["txq"]), thr')
    <3>1. CASE xmit
      BY <2>1, <2>2, <3>1, <1>a, GetcSteps, Zenon
    <3>2. CASE ~xmit
      BY <2>1, <2>2, <3>2, ZenonT(60) DEF Steps
    <3> QED BY <3>1, <3>2, Zenon
  <2> QED BY <2>3, <2>4, Zenon DEF BothStep
<1>6. ASSUME NEW b \in Byte, keyboard_interrupt(b) PROVE BothStep
  <2>1. /\ ~intq_full(in) /\ key' = key /\ thr' = thr
        /\ queue' = [queue EXCEPT !["buffer"] = intq_putc(in, b)]
    BY <1>6, Zenon DEF keyboard_interrupt
  <2>2. queue'["buffer"] = intq_putc(in, b) /\ queue'["txq"] = out
    BY <2>1, <1>a, Zenon
  <2>3. Steps(intq_items(in), key, intq_items(queue'["buffer"]), key')
    BY <2>1, <2>2, <1>a, PutcSteps, Zenon
  <2> QED BY <2>1, <2>2, <2>3, Zenon DEF BothStep, Steps
<1> QED BY <1>1, <1>2, <1>3, <1>4, <1>5, <1>6, Zenon DEF Device

\* The transmit queue and the input buffer each implement module Fifo: bytes
\* leave in the order in which they came, and none is lost or invented,
\* whether the interrupt handler sends them, a handler that prints makes
\* room, power-off drains the queue, or boot messages pass it by.
THEOREM QueuesAreFifo == Spec => ChannelsAreFifo
<1>1. Init => Tx!Init /\ Rx!Init
  <2> SUFFICES ASSUME Init PROVE Tx!Init /\ Rx!Init
    BY Zenon
  <2>1. intq_init \in IntqType(Thread) /\ intq_empty(intq_init)
    <3>1. <<>> \in Seq(Thread)
      OBVIOUS
    <3> QED BY <3>1, IntqAssumption DEF intq_init, IntqType, intq_empty
  <2>2. intq_items(intq_init) = <<>>
    BY <2>1, EmptyItems, Zenon
  <2> QED BY <2>2, IntqAssumption, Zenon DEF Init, Tx!Init, Rx!Init
<1>2. ConsoleInv /\ [Next]_vars => BothStep
  <2> SUFFICES ASSUME ConsoleInv, [Next]_vars PROVE BothStep
    BY Zenon
  <2>1. ASSUME NEW t \in Thread, Running(Call(t)) PROVE BothStep
    BY <2>1, Zenon DEF Running, Call, read, write, printf, KernelRead, calls,
                BothStep, Steps
  <2>2. ASSUME NEW t \in Thread,
               \/ NextByte(t) \/ acquire_console(t) \/ release_console(t)
               \/ Return(t)
        PROVE  BothStep
    BY <2>2, Zenon DEF NextByte, acquire_console, release_console, Return, calls,
                BothStep, Steps
  <2>3. ASSUME NEW t \in Thread, Running(Continue(t)) PROVE BothStep
    BY <2>2, <2>3, QueueStepFifo, AcquireFifo, Zenon DEF Running, Continue
  <2>4. CASE Running(Device)
    BY <2>4, DeviceFifo, Zenon DEF Running
  <2>5. CASE UNCHANGED vars
    BY <2>5, Zenon DEF vars, BothStep, Steps
  <2> QED BY <2>1, <2>3, <2>4, <2>5, Zenon DEF Next
<1>3. BothStep => [Tx!Next]_(Tx!vars) /\ [Rx!Next]_(Rx!vars)
  <2> SUFFICES ASSUME BothStep PROVE [Tx!Next]_(Tx!vars) /\ [Rx!Next]_(Rx!vars)
    BY Zenon
  <2>1. [Tx!Next]_(Tx!vars)
    BY Zenon DEF BothStep, Steps, N, Tx!Next, Tx!vars, Tx!Put, Tx!Pass, Tx!Swap,
           Tx!Get, Tx!Drain
  <2>2. [Rx!Next]_(Rx!vars)
    BY Zenon DEF BothStep, Steps, N, Rx!Next, Rx!vars, Rx!Put, Rx!Pass, Rx!Swap,
           Rx!Get, Rx!Drain
  <2> QED BY <2>1, <2>2, Zenon
<1>4. Spec => Tx!Spec /\ Rx!Spec
  BY <1>1, <1>2, <1>3, ConsoleInvHolds, PTL DEF Spec, Tx!Spec, Rx!Spec
<1> QED BY <1>4, Zenon DEF ChannelsAreFifo, TransmitIsFifo, ReceiveIsFifo

-----------------------------------------------------------------------------
(* The timer.                                                              *)

TimerSpec == TimerInit /\ [][TimerNext]_timerVars

\* timer_ticks() has interrupts off from its first load on, so the word that
\* it has loaded is still that of the counter; and timer_sleep() measures
\* from a time that is not before its call.
TimerInv ==
  /\ low \in 0..HALF - 1 /\ high \in Nat
  /\ {half, returned, start, asked, called} \subseteq Int
  /\ where \in {"awake", "disable", "low", "high", "started", "elapsed", "slept"}
  /\ resume \in {"awake", "started", "elapsed"}
  /\ where \in {"disable", "low", "high"} => resume # "awake"
  /\ where \in {"started", "elapsed"} => resume = where /\ returned <= ticks
  /\ where \in {"low", "high"} => ~unmasked
  /\ where = "high" => half = low
  /\ where # "awake" => called <= ticks
  /\ where = "started" => called <= returned
  /\ where \notin {"awake", "slept"} /\ resume = "elapsed" => called <= start
  /\ SleepsFully

\* An interrupt counts one tick, also when it carries into the other word.
LEMMA TickCounts ==
  ASSUME low \in 0..HALF - 1, high \in Nat, timer_interrupt
  PROVE  /\ low' \in 0..HALF - 1 /\ high' \in Nat
         /\ ticks \in Int /\ ticks' = ticks + 1
<1>1. CASE low + 1 = HALF
  <2>1. low' = 0 /\ high' = high + 1
    BY <1>1, TimerAssumption DEF timer_interrupt
  <2>2. (high + 1) * HALF = high * HALF + HALF
    BY TimerAssumption
  <2> QED BY <2>1, <2>2, <1>1, TimerAssumption DEF ticks
<1>2. CASE low + 1 # HALF
  <2>1. low + 1 \in 0..HALF - 1
    BY <1>2, TimerAssumption
  <2>2. (low + 1) % HALF = low + 1
    BY <2>1, TimerAssumption
  <2>3. high * HALF \in Int
    BY TimerAssumption
  <2> QED BY <2>1, <2>2, <2>3, <1>2, TimerAssumption DEF timer_interrupt, ticks
<1> QED BY <1>1, <1>2

\* timer_sleep() does not return before the ticks it was asked for have
\* passed, wherever the interrupts come.
THEOREM SleepsAreFull == TimerSpec => []SleepsFully
<1>1. TimerInit => TimerInv
  BY TimerAssumption DEF TimerInit, Untouched, TimerInv, SleepsFully, ticks
<1>2. TimerInv /\ [TimerNext]_timerVars => TimerInv'
  <2> SUFFICES ASSUME TimerInv, [TimerNext]_timerVars PROVE TimerInv'
    OBVIOUS
  <2>a. /\ low \in 0..HALF - 1 /\ high \in Nat /\ ticks \in Int
        /\ half \in Int /\ returned \in Int /\ start \in Int
        /\ asked \in Int /\ called \in Int
    BY TimerAssumption DEF TimerInv, ticks
  <2>1. CASE timer_interrupt
    <3>1. ticks' = ticks + 1 /\ low' \in 0..HALF - 1 /\ high' \in Nat
      BY <2>a, <2>1, TickCounts
    <3> QED BY <3>1, <2>a, <2>1 DEF TimerInv, timer_interrupt, SleepsFully
  <2>b. ASSUME UNCHANGED <<low, high>> PROVE ticks' = ticks
    BY <2>b DEF ticks
  <2>2. CASE switch_back
    BY <2>2, <2>a, <2>b DEF switch_back, TimerInv, SleepsFully
  <2>3. ASSUME NEW n \in Int, timer_sleep(n) PROVE TimerInv'
    BY <2>3, <2>a, <2>b DEF timer_sleep, TimerInv, SleepsFully
  <2>4. ASSUME NEW r \in RealTime, real_time_sleep(r[1], r[2]) PROVE TimerInv'
    <3>1. in_ticks(r[1], r[2]) \in Int
      BY TimerAssumption DEF in_ticks
    <3> QED BY <3>1, <2>3, <2>4 DEF real_time_sleep
  <2>5. CASE ticks_begin
    BY <2>5, <2>a, <2>b DEF ticks_begin, intr_disable, TimerInv, SleepsFully
  <2>6. CASE ticks_low
    BY <2>6, <2>a, <2>b DEF ticks_low, TimerInv, SleepsFully
  <2>7. CASE ticks_high
    <3>1. returned' = ticks
      BY <2>7 DEF ticks_high, TimerInv, ticks
    <3> QED BY <3>1, <2>7, <2>a, <2>b DEF ticks_high, TimerInv, SleepsFully
  <2>8. CASE started
    BY <2>8, <2>a, <2>b DEF started, TimerInv, SleepsFully
  <2>9. CASE sleep_loop
    <3>1. /\ where = "elapsed" /\ resume = "elapsed"
          /\ returned <= ticks /\ called <= start /\ called <= ticks
      BY <2>9 DEF sleep_loop, TimerInv
    <3>2. /\ ticks' = ticks /\ asked' = asked /\ called' = called
          /\ resume' = resume /\ where' \in {"slept", "disable"}
          /\ where' = "slept" => returned - start >= asked
      BY <2>9, <2>b DEF sleep_loop, time_is_up
    <3>3. SleepsFully'
      BY <3>1, <3>2, <2>a DEF SleepsFully
    <3> QED BY <3>1, <3>2, <3>3, <2>9, <2>a DEF sleep_loop, TimerInv
  <2>10. CASE go_on
    BY <2>10, <2>a, <2>b DEF go_on, TimerInv, SleepsFully
  <2>11. CASE UNCHANGED timerVars
    BY <2>11, <2>a, <2>b DEF timerVars, TimerInv, SleepsFully
  <2> QED
    BY <2>1, <2>2, <2>3, <2>4, <2>5, <2>6, <2>7, <2>8, <2>9, <2>10, <2>11,
       TimerAssumption DEF TimerNext, sleeper_step
<1>3. TimerInv => SleepsFully
  BY DEF TimerInv
<1> QED BY <1>1, <1>2, <1>3, PTL DEF TimerSpec

-----------------------------------------------------------------------------
(* The loader.                                                             *)

Aligned(x) == x % PageSize = 0

\* The byte at address x is the one that header h asks for.
Right(h, x) ==
  /\ pg_round_down(x) \in DOMAIN mapped
  /\ mapped[pg_round_down(x)].bytes[pg_ofs(x) + 1] =
       IF x - h.vaddr < h.filesz THEN h.offset + (x - h.vaddr) + 1 ELSE 0
  /\ mapped[pg_round_down(x)].writable = h.writable

Addresses(h) == h.vaddr..h.vaddr + h.memsz - 1

LoaderTypeOK ==
  /\ exe \in Executable
  /\ header \in 0..Len(exe.headers)
  /\ seg \in [upage : Nat, read : Nat, zero : Nat, pos : Nat, writable : BOOLEAN]
  /\ loading \in {"headers", "segment", "success", "failed"}

\* Where load_segment() is in the segment of header h.
Progress(h) ==
  LET done == seg.upage - pg_round_down(h.vaddr)
  IN  /\ Aligned(seg.upage) /\ done >= 0
      /\ seg.writable = h.writable
      /\ seg.read = IF done < read_bytes(h) THEN read_bytes(h) - done ELSE 0
      /\ seg.read > 0 => seg.pos = pg_round_down(h.offset) + done
      /\ seg.read + seg.zero + done = ROUND_UP(pg_ofs(h.vaddr) + h.memsz)

InSegment ==
  loading = "segment" =>
    /\ header > 0
    /\ exe.headers[header].type = "load"
    /\ validate_segment(exe.headers[header])
    /\ Progress(exe.headers[header])

\* The segments that are loaded, and the pages of the current one before
\* seg.upage, are right.
Placed ==
  loading # "failed" =>
    \A j \in 1..header :
      exe.headers[j].type = "load" =>
        \A x \in Addresses(exe.headers[j]) :
          (loading = "segment" /\ j = header => x < seg.upage) => Right(exe.headers[j], x)

Finished == loading = "success" => header = Len(exe.headers)

LoaderInv == LoaderTypeOK /\ UserPagesOnly /\ InSegment /\ Placed /\ Finished
-----------------------------------------------------------------------------
\* The sizes are numbers.
LEMMA Sizes ==
  /\ PageSize \in Nat /\ PageSize > 0 /\ UserEnd \in Nat /\ SPACE \in Nat
  /\ 2 * PageSize <= UserEnd /\ UserEnd < SPACE
  BY LoaderAssumption, SMTT(30)

\* What division by the page size is.
LEMMA Division ==
  \A x \in Nat : /\ x % PageSize \in 0..PageSize - 1
                 /\ x \div PageSize \in Nat
                 /\ x = (x \div PageSize) * PageSize + (x % PageSize)
  BY LoaderAssumption, SMTT(30)

LEMMA Multiples ==
  \A q \in Nat : q * PageSize \in Nat /\ Aligned(q * PageSize)
<1>. SUFFICES ASSUME NEW q \in Nat
              PROVE  q * PageSize \in Nat /\ (q * PageSize) % PageSize = 0
  BY Zenon DEF Aligned
<1>1. q * PageSize \in Nat
  BY Sizes, SMTT(30)
<1>2. PICK d \in Nat, m \in 0..PageSize - 1 :
        m = (q * PageSize) % PageSize /\ q * PageSize = d * PageSize + m
  BY <1>1, Division, Zenon
<1>3. CASE d < q
  <2>1. PICK n \in Nat : q = d + 1 + n
    BY <1>3
  <2>2. n * PageSize >= 0
    BY Sizes, SMTT(30)
  <2>3. q * PageSize = d * PageSize + PageSize + n * PageSize
    BY <2>1, Sizes, SMTT(30)
  <2>. QED  BY <1>2, <2>2, <2>3, Sizes, SMTT(30)
<1>4. CASE q < d
  <2>1. PICK n \in Nat : d = q + 1 + n
    BY <1>4
  <2>2. n * PageSize >= 0
    BY Sizes, SMTT(30)
  <2>3. d * PageSize = q * PageSize + PageSize + n * PageSize
    BY <2>1, Sizes, SMTT(30)
  <2>. QED  BY <1>2, <2>2, <2>3, Sizes, SMTT(30)
<1>5. CASE d = q
  BY <1>1, <1>2, <1>5, Sizes, SMTT(30)
<1>. QED  BY <1>1, <1>3, <1>4, <1>5

LEMMA AlignedIsMultiple ==
  \A x \in Nat : Aligned(x) => x = (x \div PageSize) * PageSize
  BY Division, LoaderAssumption DEF Aligned

\* Two page addresses are a page apart, or equal.
LEMMA Apart ==
  ASSUME NEW x \in Nat, NEW y \in Nat, Aligned(x), Aligned(y), x < y
  PROVE  x + PageSize <= y
<1> DEFINE q == x \div PageSize
           r == y \div PageSize
<1>1. q \in Nat /\ r \in Nat /\ x = q * PageSize /\ y = r * PageSize
  BY AlignedIsMultiple, Division, Zenon
<1>. HIDE DEF q, r
<1>2. q < r
  BY <1>1, Sizes
<1>3. q * PageSize + PageSize <= r * PageSize
  BY <1>1, <1>2, Sizes
<1>. QED  BY <1>1, <1>3, Zenon

\* The sum and the difference of page addresses are page addresses.
LEMMA AlignedSum ==
  ASSUME NEW x \in Nat, NEW y \in Nat, Aligned(x), Aligned(y)
  PROVE  Aligned(x + y) /\ (x <= y => Aligned(y - x))
<1> DEFINE q == x \div PageSize
           r == y \div PageSize
<1>1. q \in Nat /\ r \in Nat /\ x = q * PageSize /\ y = r * PageSize
  BY AlignedIsMultiple, Division, Zenon
<1>. HIDE DEF q, r
<1>2. x + y = (q + r) * PageSize
  BY <1>1, Sizes
<1>3. ASSUME x <= y PROVE r - q \in Nat /\ y - x = (r - q) * PageSize
  BY <1>1, <1>3, Sizes
<1>. QED  BY <1>1, <1>2, <1>3, Multiples

\* The page size itself, and the end of the user's memory.
LEMMA AlignedPage == Aligned(0) /\ Aligned(PageSize) /\ Aligned(UserEnd)
  BY LoaderAssumption DEF Aligned

\* pg_round_down() and pg_ofs() split an address.
LEMMA Split ==
  ASSUME NEW x \in Nat
  PROVE  /\ pg_ofs(x) \in 0..PageSize - 1
         /\ pg_round_down(x) \in Nat /\ Aligned(pg_round_down(x))
         /\ x = pg_round_down(x) + pg_ofs(x)
<1>1. x - (x % PageSize) = (x \div PageSize) * PageSize
  BY Division, Sizes
<1>. QED  BY <1>1, Division, Multiples, Sizes, Zenon DEF pg_ofs, pg_round_down

\* An address in the page at u is rounded down to u.
LEMMA InPage ==
  ASSUME NEW x \in Nat, NEW u \in Nat, Aligned(u), u <= x, x < u + PageSize
  PROVE  pg_round_down(x) = u /\ pg_ofs(x) = x - u
<1>1. /\ pg_ofs(x) \in 0..PageSize - 1
      /\ pg_round_down(x) \in Nat /\ Aligned(pg_round_down(x))
      /\ x = pg_round_down(x) + pg_ofs(x)
  BY Split, Zenon
<1>2. ~(pg_round_down(x) < u) /\ ~(u < pg_round_down(x))
  BY <1>1, Apart, Sizes
<1>. QED  BY <1>1, <1>2

\* ROUND_UP() is the next page address.
LEMMA RoundUp ==
  ASSUME NEW x \in Nat
  PROVE  /\ ROUND_UP(x) \in Nat /\ Aligned(ROUND_UP(x))
         /\ x <= ROUND_UP(x) /\ ROUND_UP(x) < x + PageSize
<1> DEFINE y == x + PageSize - 1
<1>1. y \in Nat
  BY Sizes
<1>2. /\ y % PageSize \in 0..PageSize - 1 /\ y \div PageSize \in Nat
      /\ y = (y \div PageSize) * PageSize + (y % PageSize)
  BY <1>1, Division, Zenon
<1>3. ROUND_UP(x) = (y \div PageSize) * PageSize
  BY Zenon DEF ROUND_UP
<1>4. ROUND_UP(x) \in Nat /\ Aligned(ROUND_UP(x))
  BY <1>2, <1>3, Multiples, Zenon
<1>. QED  BY <1>2, <1>3, <1>4, Sizes

\* A header of the executable is of its type.
LEMMA Headers ==
  ASSUME exe \in Executable, NEW j \in 1..Len(exe.headers)
  PROVE  exe.headers[j] \in ProgramHeader /\ Len(exe.headers) \in Nat
  BY LoaderAssumption, Zenon

\* Sums of addresses that validate_segment() lets through have not wrapped.
LEMMA NoWrap ==
  ASSUME NEW v \in 0..SPACE - 1, NEW m \in 0..SPACE - 1, m # 0, (v + m) % SPACE >= v
  PROVE  v + m < SPACE /\ (v + m) % SPACE = v + m
  BY Sizes

\* A segment that validate_segment() lets through ends, and the pages of the
\* last of its bytes too, where the user's memory does.
LEMMA Validated ==
  ASSUME NEW h \in ProgramHeader, validate_segment(h)
  PROVE  /\ h.vaddr \in Nat /\ h.memsz \in Nat /\ h.filesz \in Nat /\ h.offset \in Nat
         /\ PageSize <= pg_round_down(h.vaddr) /\ h.filesz <= h.memsz /\ h.memsz > 0
         /\ pg_ofs(h.offset) = pg_ofs(h.vaddr)
         /\ pg_round_down(h.vaddr) + ROUND_UP(pg_ofs(h.vaddr) + h.memsz) <= UserEnd
<1>1. /\ h.vaddr \in 0..SPACE - 1 /\ h.memsz \in 0..SPACE - 1
      /\ h.filesz \in 0..SPACE - 1 /\ h.offset \in 0..SPACE - 1
  BY Zenon DEF ProgramHeader
<1>2. /\ h.vaddr + h.memsz < UserEnd /\ h.vaddr >= PageSize
      /\ h.filesz <= h.memsz /\ h.memsz > 0 /\ pg_ofs(h.offset) = pg_ofs(h.vaddr)
  BY <1>1, NoWrap, Sizes DEF validate_segment, is_user_vaddr
<1> DEFINE b == pg_round_down(h.vaddr)
           o == pg_ofs(h.vaddr)
           r == ROUND_UP(o + h.memsz)
<1>3. /\ o \in 0..PageSize - 1 /\ b \in Nat /\ Aligned(b) /\ h.vaddr = b + o
  <2>1. h.vaddr \in Nat
    BY <1>1, Sizes
  <2>. QED  BY <2>1, Split, Zenon
<1>4. r \in Nat /\ Aligned(r) /\ r < o + h.memsz + PageSize
  <2>1. o + h.memsz \in Nat
    BY <1>1, <1>3, Sizes
  <2>. QED  BY <2>1, RoundUp, Zenon
<1>. HIDE DEF b, o, r
<1>5. PageSize <= b
  <2>1. ~(b < PageSize)
    <3> SUFFICES ASSUME b < PageSize PROVE FALSE
      BY Zenon
    <3>1. ~(0 < b)
      <4> SUFFICES ASSUME 0 < b PROVE FALSE
        BY Zenon
      <4>1. 0 + PageSize <= b
        BY <1>3, Apart, AlignedPage, Zenon
      <4>. QED  BY <4>1, <1>3, Sizes
    <3>. QED  BY <3>1, <1>2, <1>3, Sizes
  <2>. QED  BY <2>1, <1>3, Sizes
<1>6. b + r <= UserEnd
  <2> SUFFICES ASSUME UserEnd < b + r PROVE FALSE
    BY <1>3, <1>4, Sizes
  <2>1. Aligned(b + r) /\ Aligned(UserEnd)
    BY <1>3, <1>4, AlignedSum, AlignedPage, Zenon
  <2>2. UserEnd + PageSize <= b + r
    BY <2>1, <1>3, <1>4, Apart, Sizes
  <2>. QED  BY <2>2, <1>1, <1>2, <1>3, <1>4, Sizes
<1>. QED  BY <1>1, <1>2, <1>5, <1>6 DEF b, o, r

\* What is right stays right while nothing is mapped.
LEMMA RightStays ==
  ASSUME NEW h, NEW x, mapped' = mapped, Right(h, x)
  PROVE  Right(h, x)'
  BY Zenon DEF Right, pg_round_down, pg_ofs

\* install_page() of a page that is not mapped keeps what is right.
LEMMA InstallKeeps ==
  ASSUME NEW h, NEW x, NEW u, NEW bytes, NEW writable,
         can_install(u), install_page(u, bytes, writable), Right(h, x)
  PROVE  Right(h, x)'
  BY ZenonT(30) DEF can_install, install_page, Right, pg_round_down, pg_ofs

-----------------------------------------------------------------------------
LEMMA LoaderInitInv == LoaderInit => LoaderInv
<1> SUFFICES ASSUME LoaderInit PROVE LoaderInv
  BY Zenon
<1>1. LoaderTypeOK
  BY LoaderAssumption DEF LoaderInit, LoaderTypeOK, no_seg
<1>2. UserPagesOnly
  BY DEF LoaderInit, UserPagesOnly
<1>. QED  BY <1>1, <1>2 DEF LoaderInit, LoaderInv, InSegment, Placed, Finished

\* Failing.
LEMMA FailKeeps == LoaderInv /\ fail => LoaderInv'
  BY Zenon DEF LoaderInv, LoaderTypeOK, UserPagesOnly, InSegment, Placed, Finished, fail

\* A header that is not PT_LOAD.
LEMMA IgnoreKeeps == LoaderInv /\ ignore_header => LoaderInv'
<1> SUFFICES ASSUME LoaderInv, ignore_header PROVE LoaderInv'
  BY Zenon
<1>. USE DEF ignore_header, LoaderInv
<1>0. Len(exe.headers) \in Nat
  BY LoaderAssumption, Zenon DEF LoaderTypeOK
<1>1. LoaderTypeOK'
  BY <1>0 DEF LoaderTypeOK
<1>2. UserPagesOnly' /\ InSegment' /\ Finished'
  BY Zenon DEF UserPagesOnly, InSegment, Finished
<1>3. Placed'
  <2>0. header' = header + 1 /\ exe' = exe /\ mapped' = mapped
    BY Zenon
  <2> SUFFICES ASSUME NEW j \in 1..header + 1, exe.headers[j].type = "load",
                      NEW x \in Addresses(exe.headers[j])
               PROVE  Right(exe.headers[j], x)'
    BY <2>0, Zenon DEF Placed, Addresses
  <2>1. j \in 1..header
    BY <1>0 DEF LoaderTypeOK, phdr
  <2>2. Right(exe.headers[j], x)
    BY <2>1, Zenon DEF Placed
  <2>. QED  BY <2>0, <2>2, RightStays, Zenon
<1>. QED  BY <1>1, <1>2, <1>3, Zenon

\* load_segment() begins with the page of the segment's first byte.
LEMMA BeginKeeps == LoaderInv /\ begin_segment => LoaderInv'
<1> SUFFICES ASSUME LoaderInv, begin_segment PROVE LoaderInv'
  BY Zenon
<1>. USE DEF begin_segment, LoaderInv
<1>0. Len(exe.headers) \in Nat
  BY LoaderAssumption, ZenonT(30) DEF LoaderTypeOK
<1>1. header + 1 \in 1..Len(exe.headers) /\ header' = header + 1 /\ exe' = exe
  BY <1>0 DEF LoaderTypeOK
<1>2. phdr \in ProgramHeader /\ validate_segment(phdr)
  BY <1>1, Headers, Zenon DEF phdr, LoaderTypeOK
<1> DEFINE h == phdr
           b == pg_round_down(h.vaddr)
           o == pg_ofs(h.vaddr)
           r == ROUND_UP(o + h.memsz)
<1>3. /\ h.vaddr \in Nat /\ h.memsz \in Nat /\ h.filesz \in Nat /\ h.offset \in Nat
      /\ h.filesz <= h.memsz /\ h.memsz > 0 /\ h.writable \in BOOLEAN
  BY <1>2, Validated, Zenon DEF ProgramHeader
<1>4. /\ o \in 0..PageSize - 1 /\ b \in Nat /\ Aligned(b) /\ h.vaddr = b + o
      /\ pg_round_down(h.offset) \in Nat
  BY <1>3, Split, Zenon
<1>5. r \in Nat /\ o + h.memsz <= r
  <2>1. o + h.memsz \in Nat
    BY <1>3, <1>4, Sizes, SMTT(30)
  <2>. QED  BY <2>1, RoundUp, ZenonT(30)
<1>6. read_bytes(h) \in Nat /\ read_bytes(h) <= o + h.memsz
  BY <1>3, <1>4, Sizes, SMTT(30) DEF read_bytes
<1>7. seg' = [upage |-> b, read |-> read_bytes(h), zero |-> r - read_bytes(h),
              pos |-> pg_round_down(h.offset), writable |-> h.writable]
  BY Zenon
<1>8. exe'.headers[header'] = h /\ h.type = "load"
  BY <1>1, Zenon DEF phdr
<1>. HIDE DEF h, b, o, r, begin_segment
<1>9. LoaderTypeOK'
  <2>1. r - read_bytes(h) \in Nat
    BY <1>3, <1>4, <1>5, <1>6, Sizes
  <2>2. seg' \in [upage : Nat, read : Nat, zero : Nat, pos : Nat, writable : BOOLEAN]
    BY <2>1, <1>3, <1>4, <1>6, <1>7, Zenon
  <2>. QED  BY <2>2, <1>0, <1>1, SMTT(30) DEF LoaderTypeOK, begin_segment
<1>10. UserPagesOnly' /\ Finished'
  BY Zenon DEF UserPagesOnly, Finished, begin_segment
<1>11. InSegment'
  <2>1. (validate_segment(exe.headers[header]))'
    BY <1>1, <1>2, <1>8, Zenon DEF validate_segment, h
  <2>2. (Progress(exe.headers[header]))'
    <3>1. /\ seg'.upage = b /\ seg'.read = read_bytes(h) /\ seg'.zero = r - read_bytes(h)
          /\ seg'.pos = pg_round_down(h.offset) /\ seg'.writable = h.writable
      BY <1>7, Zenon
    <3>2. /\ Aligned(seg'.upage) /\ b - b >= 0 /\ seg'.upage - b = b - b
          /\ seg'.read = IF b - b < read_bytes(h) THEN read_bytes(h) - (b - b) ELSE 0
          /\ seg'.pos = pg_round_down(h.offset) + (b - b)
          /\ seg'.read + seg'.zero + (b - b) = r
      BY <3>1, <1>4, <1>5, <1>6, SMTT(30)
    <3>3. (Progress(exe.headers[header]))' <=>
            /\ Aligned(seg'.upage) /\ seg'.upage - b >= 0
            /\ seg'.writable = h.writable
            /\ seg'.read = IF seg'.upage - b < read_bytes(h)
                             THEN read_bytes(h) - (seg'.upage - b) ELSE 0
            /\ seg'.read > 0 => seg'.pos = pg_round_down(h.offset) + (seg'.upage - b)
            /\ seg'.read + seg'.zero + (seg'.upage - b) = r
      BY <1>8, Zenon DEF Progress, Aligned, pg_round_down, pg_ofs, ROUND_UP, read_bytes, b, r, o
    <3>. QED  BY <3>1, <3>2, <3>3, Zenon
  <2>. QED  BY <2>1, <2>2, <1>0, <1>1, <1>8, SMTT(30) DEF InSegment, LoaderTypeOK
<1>12. Placed'
  <2>0. header' = header + 1 /\ exe' = exe /\ mapped' = mapped /\ loading' = "segment"
    BY Zenon DEF begin_segment
  <2> SUFFICES ASSUME NEW j \in 1..header + 1, exe.headers[j].type = "load",
                      NEW x \in Addresses(exe.headers[j]),
                      j = header + 1 => x < seg'.upage
               PROVE  Right(exe.headers[j], x)'
    BY <2>0, Zenon DEF Placed, Addresses
  <2>1. j # header + 1
    <3> SUFFICES ASSUME j = header + 1 PROVE FALSE
      BY Zenon
    <3>1. x \in h.vaddr..h.vaddr + h.memsz - 1 /\ x < b
      BY <1>7, Zenon DEF Addresses, phdr, h
    <3>. QED  BY <3>1, <1>3, <1>4, Sizes
  <2>2. j \in 1..header
    BY <2>1 DEF LoaderTypeOK
  <2>3. Right(exe.headers[j], x)
    BY <2>2, Zenon DEF Placed, begin_segment
  <2>. QED  BY <2>0, <2>3, RightStays, Zenon
<1>. QED  BY <1>9, <1>10, <1>11, <1>12, Zenon

\* What a round of load_segment() reads and where it stops.
LEMMA Round ==
  ASSUME LoaderTypeOK, NEW h \in ProgramHeader, validate_segment(h), Progress(h),
         seg.read > 0 \/ seg.zero > 0
  PROVE  /\ page_read_bytes \in 0..PageSize /\ page_read_bytes <= seg.read
         /\ page_zero_bytes \in 0..PageSize /\ page_zero_bytes <= seg.zero
         /\ page_read_bytes + page_zero_bytes = PageSize
         /\ PageSize <= seg.upage /\ seg.upage + PageSize <= UserEnd
<1> DEFINE b == pg_round_down(h.vaddr)
           r == ROUND_UP(pg_ofs(h.vaddr) + h.memsz)
<1>1. seg.upage \in Nat /\ seg.read \in Nat /\ seg.zero \in Nat
  BY Zenon DEF LoaderTypeOK
<1>2. h.vaddr \in Nat /\ h.memsz \in Nat /\ PageSize <= b /\ b + r <= UserEnd
  BY Validated, Zenon
<1>3. b \in Nat /\ Aligned(b) /\ pg_ofs(h.vaddr) \in 0..PageSize - 1
  BY <1>2, Split, Zenon
<1>4. r \in Nat /\ Aligned(r)
  <2>1. pg_ofs(h.vaddr) + h.memsz \in Nat
    BY <1>2, <1>3, Sizes
  <2>. QED  BY <2>1, RoundUp, Zenon
<1>5. Aligned(seg.upage) /\ seg.upage - b >= 0 /\ seg.read + seg.zero + (seg.upage - b) = r
  BY Zenon DEF Progress
<1>. HIDE DEF b, r
<1>6. Aligned(seg.read + seg.zero)
  <2>1. seg.upage - b \in Nat /\ Aligned(seg.upage - b)
    BY <1>1, <1>3, <1>5, AlignedSum, SMTT(30)
  <2>2. seg.upage - b <= r /\ r - (seg.upage - b) = seg.read + seg.zero
    BY <1>1, <1>3, <1>4, <1>5
  <2>. QED  BY <2>1, <2>2, <1>4, AlignedSum, ZenonT(30)
<1>7. PageSize <= seg.read + seg.zero
  <2>1. 0 < seg.read + seg.zero /\ seg.read + seg.zero \in Nat
    BY <1>1
  <2>2. 0 + PageSize <= seg.read + seg.zero
    BY <2>1, <1>6, AlignedPage, Apart, ZenonT(30)
  <2>. QED  BY <2>2, Sizes
<1>8. PageSize <= seg.upage /\ seg.upage + PageSize <= UserEnd
  BY <1>1, <1>2, <1>3, <1>4, <1>5, <1>7, Sizes
<1>. QED  BY <1>1, <1>7, <1>8, Sizes DEF page_read_bytes, page_zero_bytes

\* The page of a round has the bytes that its header asks for.
LEMMA PageRight ==
  ASSUME LoaderTypeOK, NEW h \in ProgramHeader, validate_segment(h), Progress(h),
         NEW x \in Addresses(h), seg.upage <= x, x < seg.upage + PageSize
  PROVE  /\ pg_round_down(x) = seg.upage /\ pg_ofs(x) + 1 \in 1..PageSize
         /\ page_bytes[pg_ofs(x) + 1] =
              IF x - h.vaddr < h.filesz THEN h.offset + (x - h.vaddr) + 1 ELSE 0
<1> DEFINE b == pg_round_down(h.vaddr)
           o == pg_ofs(h.vaddr)
           d == pg_round_down(h.offset)
           i == pg_ofs(x) + 1
<1>1. seg.upage \in Nat /\ seg.read \in Nat /\ seg.pos \in Nat
  BY Zenon DEF LoaderTypeOK
<1>2. /\ h.vaddr \in Nat /\ h.memsz \in Nat /\ h.filesz \in Nat /\ h.offset \in Nat
      /\ h.filesz <= h.memsz /\ pg_ofs(h.offset) = o
  BY Validated, Zenon
<1>3. b \in Nat /\ o \in 0..PageSize - 1 /\ h.vaddr = b + o /\ d \in Nat /\ h.offset = d + o
  BY <1>2, Split, Zenon
<1>4. x \in Nat /\ h.vaddr <= x
  BY <1>2 DEF Addresses
<1>5. pg_round_down(x) = seg.upage /\ pg_ofs(x) = x - seg.upage
  BY <1>1, <1>4, InPage, Zenon DEF Progress
<1>6. i \in 1..PageSize /\ i = x - seg.upage + 1
  BY <1>1, <1>4, <1>5, Sizes
<1>7. page_bytes[i] = IF i <= page_read_bytes THEN seg.pos + i ELSE 0
  BY <1>6, Zenon DEF page_bytes
<1>8. /\ seg.upage - b >= 0
      /\ seg.read = IF seg.upage - b < read_bytes(h) THEN read_bytes(h) - (seg.upage - b) ELSE 0
      /\ seg.read > 0 => seg.pos = d + (seg.upage - b)
  BY Zenon DEF Progress
<1>. HIDE DEF b, o, d, i
<1>9. read_bytes(h) = IF h.filesz > 0 THEN o + h.filesz ELSE 0
  BY Zenon DEF read_bytes, o
<1>10. i <= page_read_bytes <=> i <= seg.read
  BY <1>1, <1>6, Sizes DEF page_read_bytes
<1>11. i <= seg.read <=> x - h.vaddr < h.filesz
  <2>1. CASE h.filesz = 0
    BY <2>1, <1>1, <1>2, <1>3, <1>4, <1>6, <1>8, <1>9, Sizes
  <2>2. CASE h.filesz > 0
    BY <2>2, <1>1, <1>2, <1>3, <1>4, <1>6, <1>8, <1>9, Sizes, SMTT(30)
  <2>. QED  BY <2>1, <2>2, <1>2
<1>12. ASSUME i <= seg.read PROVE seg.pos + i = h.offset + (x - h.vaddr) + 1
  BY <1>1, <1>2, <1>3, <1>4, <1>6, <1>8, <1>12, Sizes
<1>. QED  BY <1>5, <1>6, <1>7, <1>10, <1>11, <1>12, Zenon DEF i

\* One round of load_segment().
LEMMA LoadPageKeeps == LoaderInv /\ load_page => LoaderInv'
<1> SUFFICES ASSUME LoaderInv, load_page PROVE LoaderInv'
  BY Zenon
<1> DEFINE h == exe.headers[header]
           b == pg_round_down(h.vaddr)
           r == ROUND_UP(pg_ofs(h.vaddr) + h.memsz)
<1>1. /\ LoaderTypeOK /\ UserPagesOnly /\ InSegment /\ Placed /\ Finished
      /\ loading = "segment" /\ (seg.read > 0 \/ seg.zero > 0)
      /\ can_install(seg.upage) /\ install_page(seg.upage, page_bytes, seg.writable)
      /\ seg' = [seg EXCEPT !.read = @ - page_read_bytes, !.zero = @ - page_zero_bytes,
                            !.upage = @ + PageSize, !.pos = @ + page_read_bytes]
      /\ exe' = exe /\ header' = header /\ loading' = loading
  BY Zenon DEF LoaderInv, load_page
<1>2. header \in 1..Len(exe.headers) /\ validate_segment(h) /\ Progress(h) /\ h.type = "load"
  BY <1>1, LoaderAssumption DEF InSegment, LoaderTypeOK
<1>3. h \in ProgramHeader
  BY <1>1, <1>2, Headers, Zenon DEF LoaderTypeOK
<1>4. /\ page_read_bytes \in 0..PageSize /\ page_read_bytes <= seg.read
      /\ page_zero_bytes \in 0..PageSize /\ page_zero_bytes <= seg.zero
      /\ page_read_bytes + page_zero_bytes = PageSize
      /\ PageSize <= seg.upage /\ seg.upage + PageSize <= UserEnd
  BY <1>1, <1>2, <1>3, Round, Zenon
<1>5. seg \in [upage : Nat, read : Nat, zero : Nat, pos : Nat, writable : BOOLEAN]
  BY <1>1, Zenon DEF LoaderTypeOK
<1>6. /\ seg'.upage = seg.upage + PageSize /\ seg'.read = seg.read - page_read_bytes
      /\ seg'.zero = seg.zero - page_zero_bytes /\ seg'.pos = seg.pos + page_read_bytes
      /\ seg'.writable = seg.writable
  BY <1>1, <1>5, Zenon
<1>. HIDE DEF h, b, r
<1>7. LoaderTypeOK'
  <2>1. /\ seg.upage + PageSize \in Nat /\ seg.read - page_read_bytes \in Nat
        /\ seg.zero - page_zero_bytes \in Nat /\ seg.pos + page_read_bytes \in Nat
    BY <1>4, <1>5, Sizes
  <2>2. seg' \in [upage : Nat, read : Nat, zero : Nat, pos : Nat, writable : BOOLEAN]
    BY <2>1, <1>1, <1>5, Zenon
  <2>. QED  BY <2>2, <1>1, Zenon DEF LoaderTypeOK
<1>8. UserPagesOnly'
  <2>1. DOMAIN mapped' = DOMAIN mapped \cup {seg.upage}
    BY <1>1, Zenon DEF install_page
  <2>2. seg.upage \in PageSize..UserEnd - 1
    BY <1>4, <1>5, Sizes
  <2>. QED  BY <2>1, <2>2, <1>1, Zenon DEF UserPagesOnly
<1>9. InSegment'
  <2>1. /\ Aligned(seg.upage) /\ seg.upage - b >= 0 /\ seg.writable = h.writable
        /\ seg.read = IF seg.upage - b < read_bytes(h) THEN read_bytes(h) - (seg.upage - b) ELSE 0
        /\ seg.read > 0 => seg.pos = pg_round_down(h.offset) + (seg.upage - b)
        /\ seg.read + seg.zero + (seg.upage - b) = r
    BY <1>2, Zenon DEF Progress, b, r
  <2>2. b \in Nat /\ read_bytes(h) \in Nat /\ pg_round_down(h.offset) \in Nat
    <3>1. h.vaddr \in Nat /\ h.filesz \in Nat /\ h.offset \in Nat
      BY <1>2, <1>3, Validated, Zenon
    <3>2. b \in Nat /\ pg_ofs(h.vaddr) \in 0..PageSize - 1 /\ pg_round_down(h.offset) \in Nat
      BY <3>1, Split, Zenon DEF b
    <3>. QED  BY <3>1, <3>2, Sizes DEF read_bytes
  <2>3. Aligned(seg.upage + PageSize)
    BY <2>1, <1>5, AlignedPage, AlignedSum, Sizes, ZenonT(30)
  <2> DEFINE e == seg.upage + PageSize - b
  <2>4. seg'.upage - b = e /\ e >= 0 /\ e = (seg.upage - b) + PageSize
    BY <2>1, <2>2, <1>5, <1>6, Sizes, SMTT(30)
  <2>5. seg'.read = IF e < read_bytes(h) THEN read_bytes(h) - e ELSE 0
    BY <2>1, <2>2, <1>5, <1>6, Sizes, SMTT(30) DEF page_read_bytes
  <2>6. seg'.read > 0 => seg'.pos = pg_round_down(h.offset) + e
    BY <2>1, <2>2, <1>5, <1>6, Sizes, SMTT(30) DEF page_read_bytes
  <2>7. seg'.read + seg'.zero + e = r
    BY <2>1, <2>2, <1>4, <1>5, <1>6, Sizes
  <2>8. /\ Aligned(seg'.upage) /\ seg'.upage - b >= 0 /\ seg'.writable = h.writable
        /\ seg'.read = IF seg'.upage - b < read_bytes(h)
                         THEN read_bytes(h) - (seg'.upage - b) ELSE 0
        /\ seg'.read > 0 => seg'.pos = pg_round_down(h.offset) + (seg'.upage - b)
        /\ seg'.read + seg'.zero + (seg'.upage - b) = r
    BY <2>1, <2>3, <2>4, <2>5, <2>6, <2>7, <1>6, Zenon
  <2>9. (Progress(exe.headers[header]))'
    <3>1. exe'.headers[header'] = h
      BY <1>1, Zenon DEF h
    <3>. QED  BY <3>1, <2>8, Zenon DEF Progress, Aligned, pg_round_down, pg_ofs, ROUND_UP,
                read_bytes, b, r
  <2>10. (validate_segment(exe.headers[header]))'
    BY <1>1, <1>2, Zenon DEF validate_segment, h
  <2>. QED  BY <2>9, <2>10, <1>1, Zenon DEF InSegment
<1>10. Placed'
  <2>0. header' = header /\ exe' = exe /\ loading' = "segment"
    BY <1>1, Zenon
  <2> SUFFICES ASSUME NEW j \in 1..header, exe.headers[j].type = "load",
                      NEW x \in Addresses(exe.headers[j]),
                      j = header => x < seg'.upage
               PROVE  Right(exe.headers[j], x)'
    BY <2>0, Zenon DEF Placed, Addresses
  <2>1. CASE j # header \/ x < seg.upage
    <3>1. Right(exe.headers[j], x)
      BY <2>1, <1>1, Zenon DEF Placed
    <3>. QED  BY <3>1, <1>1, InstallKeeps, Zenon
  <2>2. CASE j = header /\ ~(x < seg.upage)
    <3>1. x \in Addresses(h) /\ exe.headers[j] = h
      BY <2>2, ZenonT(30) DEF h
    <3>2. x \in Nat /\ seg.upage <= x /\ x < seg.upage + PageSize
      <4>1. h.vaddr \in Nat /\ h.memsz \in Nat
        BY <1>2, <1>3, Validated, Zenon
      <4>. QED  BY <4>1, <3>1, <2>2, <1>5, <1>6 DEF Addresses
    <3>3. /\ pg_round_down(x) = seg.upage
          /\ page_bytes[pg_ofs(x) + 1] =
               IF x - h.vaddr < h.filesz THEN h.offset + (x - h.vaddr) + 1 ELSE 0
      BY <3>1, <3>2, <1>1, <1>2, <1>3, PageRight, Zenon
    <3>4. /\ seg.upage \in DOMAIN mapped'
          /\ mapped'[seg.upage].bytes = page_bytes /\ mapped'[seg.upage].writable = seg.writable
      BY <1>1, Zenon DEF install_page
    <3>5. seg.writable = h.writable
      BY <1>2, Zenon DEF Progress
    <3>. QED  BY <3>1, <3>3, <3>4, <3>5, <1>1, Zenon DEF Right, pg_round_down, pg_ofs, h
  <2>. QED  BY <2>1, <2>2, Zenon
<1>11. Finished'
  BY <1>1, Zenon DEF Finished
<1>. QED  BY <1>7, <1>8, <1>9, <1>10, <1>11, Zenon DEF LoaderInv

\* An offset in a page and a size add up to a natural number.
LEMMA OffsetSum ==
  ASSUME NEW ofs \in 0..PageSize - 1, NEW memsz \in Nat
  PROVE  ofs + memsz \in Nat
  BY Sizes, SMTT(30)

\* A segment of memsz bytes from vaddr on that has been followed to its rounded
\* end, from its first page first to the page upage, is before upage.
LEMMA PastSegment ==
  ASSUME NEW vaddr \in Nat, NEW memsz \in Nat, NEW first \in Nat, NEW ofs \in Nat,
         NEW upage \in Nat, NEW end \in Nat, NEW x \in vaddr..vaddr + memsz - 1,
         vaddr = first + ofs, ofs + memsz <= end, 0 + 0 + (upage - first) = end
  PROVE  x < upage
  BY SMTT(30)

\* When nothing is left of a segment, all its bytes are before seg.upage.
LEMMA EndKeeps == LoaderInv /\ end_segment => LoaderInv'
<1> SUFFICES ASSUME LoaderInv, end_segment PROVE LoaderInv'
  BY Zenon
<1>1. /\ LoaderTypeOK /\ UserPagesOnly /\ InSegment /\ Placed /\ Finished
      /\ loading = "segment" /\ seg.read = 0 /\ seg.zero = 0
      /\ loading' = "headers" /\ seg' = no_seg
      /\ exe' = exe /\ header' = header /\ mapped' = mapped
  BY Zenon DEF LoaderInv, end_segment
<1>2. LoaderTypeOK'
  BY <1>1, Zenon DEF LoaderTypeOK, no_seg
<1>3. UserPagesOnly' /\ InSegment' /\ Finished'
  BY <1>1, Zenon DEF UserPagesOnly, InSegment, Finished
<1>4. Placed'
  <2>0. header' = header /\ exe' = exe /\ mapped' = mapped
    BY <1>1, Zenon
  <2>a. ASSUME NEW j \in 1..header, exe.headers[j].type = "load",
               NEW x \in Addresses(exe.headers[j]), Right(exe.headers[j], x)
        PROVE  Right(exe.headers[j], x)'
    BY <2>a, <2>0, RightStays, Zenon
  <2> SUFFICES ASSUME NEW j \in 1..header, exe.headers[j].type = "load",
                      NEW x \in Addresses(exe.headers[j])
               PROVE  Right(exe.headers[j], x)
    BY <2>0, <2>a, Zenon DEF Placed, Addresses
  <2>1. CASE j = header
    <3> DEFINE h == exe.headers[header]
    <3>1. h \in ProgramHeader /\ validate_segment(h) /\ Progress(h)
      <4>1. header \in 1..Len(exe.headers)
        BY <1>1, LoaderAssumption DEF InSegment, LoaderTypeOK
      <4>. QED  BY <4>1, <1>1, Headers, ZenonT(30) DEF InSegment, LoaderTypeOK
    <3>2. h.vaddr \in Nat /\ h.memsz \in Nat
      BY <3>1, Validated, Zenon
    <3>3. /\ pg_round_down(h.vaddr) \in Nat /\ pg_ofs(h.vaddr) \in 0..PageSize - 1
          /\ h.vaddr = pg_round_down(h.vaddr) + pg_ofs(h.vaddr)
      BY <3>2, Split, Zenon
    <3>4. /\ ROUND_UP(pg_ofs(h.vaddr) + h.memsz) \in Nat
          /\ pg_ofs(h.vaddr) + h.memsz <= ROUND_UP(pg_ofs(h.vaddr) + h.memsz)
      <4>1. pg_ofs(h.vaddr) + h.memsz \in Nat
        BY <3>2, <3>3, OffsetSum, Zenon
      <4>. QED  BY <4>1, RoundUp, ZenonT(30)
    <3>5. seg.read + seg.zero + (seg.upage - pg_round_down(h.vaddr))
            = ROUND_UP(pg_ofs(h.vaddr) + h.memsz)
      BY <3>1, Zenon DEF Progress
    <3>6. x \in h.vaddr..h.vaddr + h.memsz - 1
      BY <2>1, Zenon DEF Addresses
    <3>7. seg.upage \in Nat
      BY <1>1, ZenonT(30) DEF LoaderTypeOK
    <3>. HIDE DEF h
    <3>8. x < seg.upage
      <4>1. pg_ofs(h.vaddr) \in Nat  BY <3>3, Sizes, SMTT(30)
      <4>2. 0 + 0 + (seg.upage - pg_round_down(h.vaddr))
              = ROUND_UP(pg_ofs(h.vaddr) + h.memsz)
        BY <3>5, <1>1, Zenon
      <4>. QED  BY <3>2, <3>3, <3>4, <3>6, <3>7, <4>1, <4>2, PastSegment, Zenon
    <3>. QED  BY <3>8, <1>1, Zenon DEF Placed
  <2>2. CASE j # header
    BY <2>2, <1>1, Zenon DEF Placed
  <2>. QED  BY <2>1, <2>2, Zenon
<1>. QED  BY <1>2, <1>3, <1>4, Zenon DEF LoaderInv

\* setup_stack() maps the last page of the user's memory.
LEMMA StackKeeps == LoaderInv /\ setup_stack => LoaderInv'
<1> SUFFICES ASSUME LoaderInv, setup_stack PROVE LoaderInv'
  BY Zenon
<1> DEFINE u == UserEnd - PageSize
           z == [i \in 1..PageSize |-> 0]
<1>1. /\ LoaderTypeOK /\ UserPagesOnly /\ InSegment /\ Placed /\ Finished
      /\ loading = "headers" /\ header = Len(exe.headers)
      /\ can_install(u) /\ install_page(u, z, TRUE)
      /\ loading' = "success" /\ exe' = exe /\ header' = header /\ seg' = seg
  BY Zenon DEF LoaderInv, setup_stack
<1>2. u \in PageSize..UserEnd - 1
  BY Sizes
<1>. HIDE DEF u, z
<1>3. LoaderTypeOK' /\ InSegment' /\ Finished'
  BY <1>1, Zenon DEF LoaderTypeOK, InSegment, Finished
<1>4. UserPagesOnly'
  <2>1. DOMAIN mapped' = DOMAIN mapped \cup {u}
    BY <1>1, Zenon DEF install_page
  <2>. QED  BY <2>1, <1>1, <1>2, Zenon DEF UserPagesOnly
<1>5. Placed'
  <2>0. exe' = exe /\ header' = header
    BY <1>1, Zenon
  <2> SUFFICES ASSUME NEW j \in 1..header, exe.headers[j].type = "load",
                      NEW x \in Addresses(exe.headers[j])
               PROVE  Right(exe.headers[j], x)'
    BY <2>0, Zenon DEF Placed, Addresses
  <2>1. Right(exe.headers[j], x)
    BY <1>1, Zenon DEF Placed
  <2>. QED  BY <2>1, <1>1, InstallKeeps, Zenon
<1>. QED  BY <1>3, <1>4, <1>5, Zenon DEF LoaderInv

\* LoaderInv is an inductive invariant of load().
LEMMA LoaderInductive == LoaderSpec => []LoaderInv
<1>1. LoaderInv /\ [LoaderNext]_loaderVars => LoaderInv'
  <2> SUFFICES ASSUME LoaderInv, [LoaderNext]_loaderVars PROVE LoaderInv'
    BY Zenon
  <2>1. CASE refuse_header \/ load_page_fails \/ setup_stack_fails
    BY <2>1, FailKeeps, Zenon DEF refuse_header, load_page_fails, setup_stack_fails
  <2>2. CASE ignore_header
    BY <2>2, IgnoreKeeps, Zenon
  <2>3. CASE begin_segment
    BY <2>3, BeginKeeps, Zenon
  <2>4. CASE load_page
    BY <2>4, LoadPageKeeps, Zenon
  <2>5. CASE end_segment
    BY <2>5, EndKeeps, Zenon
  <2>6. CASE setup_stack
    BY <2>6, StackKeeps, Zenon
  <2>7. CASE UNCHANGED loaderVars
    <3>1. exe' = exe /\ header' = header /\ seg' = seg /\ mapped' = mapped /\ loading' = loading
      BY <2>7, Zenon DEF loaderVars
    <3>2. LoaderTypeOK' /\ UserPagesOnly' /\ Finished'
      BY <3>1, Zenon DEF LoaderInv, LoaderTypeOK, UserPagesOnly, Finished
    <3>3. InSegment'
      BY <3>1, Zenon DEF LoaderInv, InSegment, Progress, Aligned, validate_segment,
         is_user_vaddr, pg_round_down, pg_ofs, ROUND_UP, read_bytes
    <3>4. Placed'
      <4>1. ASSUME NEW j \in 1..header, NEW x
            PROVE  Right(exe.headers[j], x)' <=> Right(exe.headers[j], x)
        BY <3>1, Zenon DEF Right, pg_round_down, pg_ofs
      <4>. QED  BY <4>1, <3>1, Zenon DEF LoaderInv, Placed, Addresses
    <3>. QED  BY <3>2, <3>3, <3>4, Zenon DEF LoaderInv
  <2>. QED  BY <2>1, <2>2, <2>3, <2>4, <2>5, <2>6, <2>7, Zenon DEF LoaderNext
<1>. QED  BY <1>1, LoaderInitInv, PTL DEF LoaderSpec

\* Whatever the program headers say, load() maps no page of the kernel and not
\* the first page: validate_segment()'s conditions are enough.
THEOREM LoadsUserPages == LoaderSpec => []UserPagesOnly
<1>1. LoaderInv => UserPagesOnly
  BY Zenon DEF LoaderInv
<1>. QED  BY <1>1, LoaderInductive, PTL

\* When load() succeeds, every byte of every segment is in memory as its
\* header says, and no other segment nor the stack has spoilt it.
THEOREM SegmentsAreExact == LoaderSpec => []SegmentsExact
<1>1. LoaderInv => SegmentsExact
  <2> SUFFICES ASSUME LoaderInv, loading = "success", NEW j \in 1..Len(exe.headers),
                      exe.headers[j].type = "load", NEW x \in Addresses(exe.headers[j])
               PROVE  Right(exe.headers[j], x)
    BY Zenon DEF SegmentsExact, Right, Addresses
  <2>. QED  BY Zenon DEF LoaderInv, Finished, Placed
<1>. QED  BY <1>1, LoaderInductive, PTL
=============================================================================
