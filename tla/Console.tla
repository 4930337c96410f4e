------------------------------- MODULE Console -------------------------------
(***************************************************************************)
(* Console input and output: the serial port (devices/serial.c) with its   *)
(* transmit queue, the input buffer (devices/input.c) that the serial and  *)
(* keyboard handlers fill, the recursive console lock                      *)
(* (lib/kernel/console.c) and the read() and write() system calls that     *)
(* reach them under file_lock (userprog/syscall.c).                        *)
(*                                                                         *)
(* The queues are used with interrupts off, so a step of a thread here     *)
(* runs from one thread_block() to the next, and interrupts and other      *)
(* threads come in between.  A lock other than a queue's is a variable     *)
(* that holds its owner (module Synch shows that this is what locks are).  *)
(***************************************************************************)
EXTENDS Intq, FiniteSets

CONSTANTS
  Thread,
  KernelReader,  \* choices of the threads that call input_getc() themselves
  MaxDepth,      \* bound on nested uses of the console by one thread
  MaxPrinted     \* bound on the bytes that interrupt handlers print

ASSUME ConsoleAssumption ==
  /\ NULL \notin Thread
  /\ KernelReader \subseteq SUBSET Thread
  /\ MaxDepth \in Nat
  /\ MaxPrinted \in Nat

VARIABLES
  mode,                \* of the serial driver
  queue,               \* queue["txq"] of serial.c, queue["buffer"] of input.c
  ier,                 \* the interrupt enable register
  rbr, thr, thre,      \* UART: byte received, byte sent last, room to send
  key,                 \* the byte that input_getc() returned last
  file_lock, console_lock, console_lock_depth,
  pc, on, byte,        \* where a thread is, its queue, the byte it puts
  asleep,              \* the threads that are blocked in thread_block()
  printed,             \* bytes that interrupt handlers have printed
  kernel_reader,       \* the threads that read without read(), fixed at boot
  panicked             \* an ASSERT has failed

lockVars == <<file_lock, console_lock, console_lock_depth>>
vars == <<mode, queue, ier, rbr, thr, thre, key, lockVars, pc, on, byte,
          asleep, printed, kernel_reader, panicked>>

Label == {"user", "getc", "got", "console", "put", "done", "acquire", "wait"}

TypeOK ==
  /\ mode \in {"UNINIT", "POLL", "QUEUE"}
  /\ queue \in [{"txq", "buffer"} -> IntqType(Thread)]
  /\ ier \in SUBSET {"XMIT", "RECV"}
  /\ {rbr, thr, key} \subseteq Byte \cup {NULL}
  /\ thre \in BOOLEAN
  /\ {file_lock, console_lock} \subseteq Thread \cup {NULL}
  /\ console_lock_depth \in 0..MaxDepth
  /\ pc \in [Thread -> Label]
  /\ on \in [Thread -> {"txq", "buffer"}]
  /\ byte \in [Thread -> Byte \cup {NULL}]
  /\ asleep \in SUBSET Thread
  /\ printed \in 0..MaxPrinted
  /\ kernel_reader \in KernelReader
  /\ panicked \in BOOLEAN

Init ==
  /\ mode = "UNINIT"
  /\ queue = [q \in {"txq", "buffer"} |-> intq_init]
  /\ ier = {}
  /\ rbr = NULL /\ thr = NULL /\ thre = TRUE /\ key = NULL
  /\ file_lock = NULL /\ console_lock = NULL /\ console_lock_depth = 0
  /\ pc = [t \in Thread |-> "user"]
  /\ on = [t \in Thread |-> "buffer"]
  /\ byte = [t \in Thread |-> NULL]
  /\ asleep = {}
  /\ printed = 0
  /\ kernel_reader \in KernelReader
  /\ panicked = FALSE

Goto(t, label) == pc' = [pc EXCEPT ![t] = label]

-----------------------------------------------------------------------------
(* The serial port.                                                        *)

\* The interrupts that should be on when the queues are qs.
write_ier(qs) ==
  ier' = (IF intq_empty(qs["txq"]) THEN {} ELSE {"XMIT"})
           \cup (IF intq_full(qs["buffer"]) THEN {} ELSE {"RECV"})

serial_notify(qs) == IF mode = "QUEUE" THEN write_ier(qs) ELSE UNCHANGED ier

\* outb (THR_REG, b), which putc_poll() does once a spin on LSR_THRE has seen
\* room in the UART.
transmit(b) == thr' = b /\ thre' = FALSE

\* The threads whose waiter fields an operation on a queue has reset.
unblocked(old, new) == {old.not_full, old.not_empty}
                         \ {new.not_full, new.not_empty, NULL}

\* Output before serial_init_queue(), when only main() runs.
BootPutc(b) ==
  /\ mode # "QUEUE"
  /\ mode' = "POLL"
  /\ transmit(b)
  /\ UNCHANGED <<queue, ier, rbr, key, lockVars, pc, on, byte, asleep,
                 printed, panicked>>

serial_init_queue ==
  /\ mode # "QUEUE"
  /\ mode' = "QUEUE"
  /\ write_ier(queue)
  /\ UNCHANGED <<queue, rbr, thr, thre, key, lockVars, pc, on, byte, asleep,
                 printed, panicked>>

\* serial_putc() with interrupts off, from an interrupt handler that prints:
\* a full queue sends its oldest byte by polling instead of sleeping.
HandlerPutc(b) ==
  LET q  == queue["txq"]
      q1 == IF intq_full(q) THEN intq_getc(q) ELSE q
      q2 == intq_putc(q1, b)
  IN  /\ mode = "QUEUE"
      /\ printed < MaxPrinted
      /\ IF intq_full(q) THEN transmit(front(q)) ELSE UNCHANGED <<thr, thre>>
      /\ queue' = [queue EXCEPT !["txq"] = q2]
      /\ asleep' = asleep \ unblocked(q, q2)
      /\ write_ier(queue')
      /\ printed' = printed + 1
      /\ UNCHANGED <<mode, rbr, key, lockVars, pc, on, byte, panicked>>

\* Called on the way to power-off.
serial_flush ==
  LET items == intq_items(queue["txq"])
      q == queue["txq"]
      drained == [intq_init EXCEPT !.head = q.head, !.tail = q.head,
                    !.holder = q.holder, !.waiters = q.waiters]
  IN  /\ mode = "QUEUE"
      /\ items # <<>>
      /\ transmit(items[Len(items)])
      /\ queue' = [queue EXCEPT !["txq"] = drained]
      /\ asleep' = asleep \ unblocked(q, drained)
      /\ UNCHANGED <<mode, ier, rbr, key, lockVars, pc, on, byte, printed,
                     panicked>>

\* The UART does not change while the handler runs: each of its loops makes
\* at most one pass.
serial_interrupt ==
  LET in   == queue["buffer"]
      out  == queue["txq"]
      recv == ~intq_full(in) /\ rbr # NULL
      xmit == ~intq_empty(out) /\ thre
      in2  == IF recv THEN intq_putc(in, rbr) ELSE in
      out2 == IF xmit THEN intq_getc(out) ELSE out
  IN  /\ mode = "QUEUE"
      /\ ("RECV" \in ier /\ rbr # NULL) \/ ("XMIT" \in ier /\ thre)
      /\ rbr' = IF recv THEN NULL ELSE rbr
      /\ IF xmit THEN transmit(front(out)) ELSE UNCHANGED <<thr, thre>>
      /\ queue' = [queue EXCEPT !["buffer"] = in2, !["txq"] = out2]
      /\ asleep' = asleep \ (unblocked(in, in2) \cup unblocked(out, out2))
      /\ write_ier(queue')
      /\ UNCHANGED <<mode, key, lockVars, pc, on, byte, printed, panicked>>

\* A key that finds the buffer full is dropped.
keyboard_interrupt(c) ==
  LET q == queue["buffer"]
  IN  /\ ~intq_full(q)
      /\ queue' = [queue EXCEPT !["buffer"] = intq_putc(q, c)]
      /\ asleep' = asleep \ unblocked(q, queue'["buffer"])
      /\ serial_notify(queue')
      /\ UNCHANGED <<mode, rbr, thr, thre, key, lockVars, pc, on, byte,
                     printed, panicked>>

\* The UART: a byte arrives (over one that was not read in time), or the
\* transmitter has room again.
Arrive(b) ==
  /\ rbr' = b
  /\ UNCHANGED <<mode, queue, ier, thr, thre, key, lockVars, pc, on, byte,
                 asleep, printed, panicked>>

Sent ==
  /\ ~thre
  /\ thre' = TRUE
  /\ UNCHANGED <<mode, queue, ier, rbr, thr, key, lockVars, pc, on, byte,
                 asleep, printed, panicked>>

-----------------------------------------------------------------------------
(* intq_getc() and intq_putc() in a thread.                                *)

\* What the loop of intq_putc() on txq, of intq_getc() on buffer, waits out.
blocked(name, q) == IF name = "txq" THEN intq_full(q) ELSE intq_empty(q)

\* lock_acquire() has succeeded and wait() names the thread that sleeps.
wait(name, q, t) ==
  IF name = "txq" THEN [q EXCEPT !.holder = t, !.not_full = t]
                  ELSE [q EXCEPT !.holder = t, !.not_empty = t]

\* From the loop test, where the queue is q and the threads in awake are no
\* longer asleep: sleep in wait(), sleep in lock_acquire(), or finish.
Loop(t, name, b, q, awake) ==
  \/ /\ blocked(name, q) /\ q.holder = NULL
     /\ queue' = [queue EXCEPT ![name] = wait(name, q, t)]
     /\ asleep' = (asleep \ awake) \cup {t}
     /\ Goto(t, "wait")
     /\ byte' = [byte EXCEPT ![t] = b]
     /\ UNCHANGED <<ier, key>>
  \/ /\ blocked(name, q) /\ q.holder # NULL
     /\ queue' = [queue EXCEPT ![name] = [q EXCEPT !.waiters = Append(@, t)]]
     /\ asleep' = (asleep \ awake) \cup {t}
     /\ Goto(t, "acquire")
     /\ byte' = [byte EXCEPT ![t] = b]
     /\ UNCHANGED <<ier, key>>
  \/ /\ ~blocked(name, q)
     /\ LET q2 == IF name = "txq" THEN intq_putc(q, b) ELSE intq_getc(q)
        IN  /\ queue' = [queue EXCEPT ![name] = q2]
            /\ asleep' = asleep \ (awake \cup unblocked(q, q2))
            /\ key' = IF name = "buffer" THEN front(q) ELSE key
            /\ Goto(t, IF name = "txq" THEN "put" ELSE "got")
            /\ byte' = [byte EXCEPT ![t] = NULL]
     /\ serial_notify(queue')

ready(t, label) == pc[t] = label /\ t \notin asleep

\* Bug variant: the reader does not reassess the receive interrupt.
input_getc_NoNotify(t) ==
  LET q == queue["buffer"]
  IN  /\ ready(t, "getc") /\ ~intq_empty(q)
      /\ queue' = [queue EXCEPT !["buffer"] = intq_getc(q)]
      /\ key' = front(q)
      /\ Goto(t, "got")
      /\ on' = [on EXCEPT ![t] = "buffer"]
      /\ UNCHANGED <<mode, ier, rbr, thr, thre, lockVars, byte, asleep,
                     printed, panicked>>

input_getc(t) ==
  /\ ready(t, "getc")
  /\ on' = [on EXCEPT ![t] = "buffer"]
  /\ Loop(t, "buffer", NULL, queue["buffer"], {})
  /\ UNCHANGED <<mode, rbr, thr, thre, lockVars, printed, panicked>>

serial_putc(t, b) ==
  /\ ready(t, "put")
  /\ on' = [on EXCEPT ![t] = "txq"]
  /\ Loop(t, "txq", b, queue["txq"], {})
  /\ UNCHANGED <<mode, rbr, thr, thre, lockVars, printed, panicked>>

\* Woken in the sema_down() of lock_acquire(): sleep again if the lock is
\* taken, else wait(), whose ASSERT checks that there is something to wait
\* for.
AfterAcquire(t) ==
  LET name == on[t]
      q == queue[name]
  IN  /\ ready(t, "acquire")
      /\ IF q.holder # NULL
           THEN /\ queue' = [queue EXCEPT ![name] = [q EXCEPT !.waiters = Append(@, t)]]
                /\ asleep' = asleep \cup {t}
                /\ UNCHANGED <<pc, ier, key, panicked>>
           ELSE IF blocked(name, q)
           THEN /\ queue' = [queue EXCEPT ![name] = wait(name, q, t)]
                /\ asleep' = asleep \cup {t}
                /\ Goto(t, "wait")
                /\ UNCHANGED <<ier, key, panicked>>
           ELSE /\ panicked' = TRUE
                /\ UNCHANGED <<queue, asleep, pc, ier, key>>
      /\ UNCHANGED <<mode, rbr, thr, thre, lockVars, on, byte, printed>>

\* Woken in wait(): release the queue's lock and test again.
AfterWait(t) ==
  LET name == on[t]
      q == queue[name]
      woken == IF q.waiters = <<>> THEN {} ELSE {Head(q.waiters)}
      q1 == [q EXCEPT !.holder = NULL,
                      !.waiters = IF @ = <<>> THEN @ ELSE Tail(@)]
  IN  /\ ready(t, "wait")
      /\ Loop(t, name, byte[t], q1, woken)
      /\ UNCHANGED <<mode, rbr, thr, thre, lockVars, on, printed, panicked>>

-----------------------------------------------------------------------------
(* The console lock, and the system calls.                                 *)

calls == UNCHANGED <<mode, queue, ier, rbr, thr, thre, key, on, byte, asleep,
                     printed, panicked>>

\* read() of STDIN_FILENO and write() to STDOUT_FILENO hold file_lock
\* throughout; a kernel thread's printf() does not.
read(t) ==
  /\ mode = "QUEUE" /\ ready(t, "user")
  /\ file_lock = NULL
  /\ file_lock' = t
  /\ Goto(t, "getc")
  /\ calls
  /\ UNCHANGED <<console_lock, console_lock_depth>>

write(t) ==
  /\ mode = "QUEUE" /\ ready(t, "user")
  /\ file_lock = NULL
  /\ file_lock' = t
  /\ Goto(t, "console")
  /\ calls
  /\ UNCHANGED <<console_lock, console_lock_depth>>

\* input_getc() is open to every kernel thread; no caller in the tree but
\* read() uses it.
KernelRead(t) ==
  /\ mode = "QUEUE" /\ ready(t, "user")
  /\ t \in kernel_reader
  /\ Goto(t, "getc")
  /\ calls
  /\ UNCHANGED lockVars

printf(t) ==
  /\ mode = "QUEUE" /\ ready(t, "user")
  /\ Goto(t, "console")
  /\ calls
  /\ UNCHANGED lockVars

\* A byte has been read: `while (count--)' goes round, or read() returns.
NextByte(t) ==
  /\ ready(t, "got")
  /\ \/ Goto(t, "getc")
     \/ Goto(t, "done")
  /\ calls
  /\ UNCHANGED lockVars

\* The first acquire_console() of a thread takes the lock; one it makes
\* while it has the lock (a fault or a message inside putbuf()) counts.
acquire_console(t) ==
  /\ \/ /\ ready(t, "console") /\ console_lock = NULL
        /\ console_lock' = t
        /\ Goto(t, "put")
        /\ UNCHANGED console_lock_depth
     \/ /\ ready(t, "put") /\ console_lock = t
        /\ console_lock_depth < MaxDepth
        /\ console_lock_depth' = console_lock_depth + 1
        /\ UNCHANGED <<console_lock, pc>>
  /\ calls
  /\ UNCHANGED file_lock

release_console(t) ==
  /\ ready(t, "put")
  /\ IF console_lock_depth > 0
       THEN /\ console_lock_depth' = console_lock_depth - 1
            /\ UNCHANGED <<console_lock, pc>>
       ELSE /\ console_lock' = NULL
            /\ Goto(t, "done")
            /\ UNCHANGED console_lock_depth
  /\ calls
  /\ UNCHANGED file_lock

\* The end of read() and write(), or of a printf().
Return(t) ==
  /\ ready(t, "done")
  /\ file_lock' = IF file_lock = t THEN NULL ELSE file_lock
  /\ Goto(t, "user")
  /\ calls
  /\ UNCHANGED <<console_lock, console_lock_depth>>

Call(t) == read(t) \/ write(t) \/ printf(t) \/ KernelRead(t)

\* A thread goes on with a call it is in.
Continue(t) ==
  \/ input_getc(t)
  \/ \E b \in Byte : serial_putc(t, b)
  \/ AfterAcquire(t)
  \/ AfterWait(t)
  \/ NextByte(t)
  \/ acquire_console(t)
  \/ release_console(t)
  \/ Return(t)

Device ==
  \/ serial_init_queue
  \/ serial_flush
  \/ serial_interrupt
  \/ Sent
  \/ \E b \in Byte : \/ BootPutc(b) \/ HandlerPutc(b)
                     \/ keyboard_interrupt(b) \/ Arrive(b)

\* After a failed ASSERT the kernel stops.
Running(A) == ~panicked /\ A /\ UNCHANGED kernel_reader

Next ==
  \/ \E t \in Thread : Running(Call(t)) \/ Running(Continue(t))
  \/ Running(Device)

Spec == Init /\ [][Next]_vars

\* The UART sends what it is given, an enabled interrupt is taken, and the
\* scheduler runs every thread that is ready.
Fairness ==
  /\ WF_vars(Running(Sent))
  /\ WF_vars(Running(serial_interrupt))
  /\ \A t \in Thread : WF_vars(Running(Continue(t)))

-----------------------------------------------------------------------------
(* Properties.                                                             *)

\* The ASSERT of wait() in intq.c never fails: by the time a thread has the
\* queue's lock the queue is still empty (or full), although it may have
\* slept in lock_acquire() since it looked.  That is so because read() and
\* write() hold file_lock; a thread that called input_getc() without it could
\* break the ASSERT.
NoPanic == kernel_reader = {} => ~panicked

\* A thread is never asleep in wait() while the byte, or the room, that it
\* waits for is there, and it is the thread that the queue will wake.
SleepJustified ==
  \A t \in Thread : pc[t] = "wait" /\ t \in asleep =>
    LET q == queue[on[t]]
    IN  /\ blocked(on[t], q)
        /\ q.holder = t
        /\ t = IF on[t] = "txq" THEN q.not_full ELSE q.not_empty

\* The transmit interrupt is on while there are bytes to send, and the
\* receive interrupt exactly while there is room: neither direction can
\* stall, and no interrupt is taken that cannot be served.
IerTracksQueues ==
  mode = "QUEUE" =>
    /\ ~intq_empty(queue["txq"]) => "XMIT" \in ier
    /\ "RECV" \in ier <=> ~intq_full(queue["buffer"])

\* The console lock is counted right: between a thread's outermost acquire
\* and release it is the owner, so lines of two threads are not mixed.
ConsoleExclusive ==
  /\ \A t \in Thread :
       (pc[t] = "put" \/ (pc[t] \in {"acquire", "wait"} /\ on[t] = "txq")) =>
         console_lock = t
  /\ console_lock = NULL => console_lock_depth = 0

\* The transmit queue and the input buffer are first-in first-out channels
\* that lose and invent nothing, in all three ways a byte can leave them.
Tx == INSTANCE Fifo WITH items <- intq_items(queue["txq"]), out <- thr,
                         Capacity <- INTQ_BUFSIZE - 1
Rx == INSTANCE Fifo WITH items <- intq_items(queue["buffer"]), out <- key,
                         Capacity <- INTQ_BUFSIZE - 1
TransmitIsFifo == Tx!Spec
ReceiveIsFifo == Rx!Spec

\* A thread that sleeps because the transmit queue is full gets its byte in.
WriterProceeds ==
  \A t \in Thread :
    (pc[t] \in {"acquire", "wait"} /\ on[t] = "txq") ~> pc[t] = "put"

\* A reader that sleeps while bytes are there, or that is woken for one,
\* gets one.
ReaderProceeds ==
  \A t \in Thread :
    (pc[t] \in {"getc", "acquire", "wait"} /\ on[t] = "buffer"
       /\ ~intq_empty(queue["buffer"])) ~> pc[t] = "got"

\* intq.c: nobody sleeps beside a byte or beside room, and nobody goes on to
\* wait() on an answer that has become stale.
WaitsSound == NoPanic /\ SleepJustified

\* The transmit queue and the input buffer are both first in, first out.
ChannelsAreFifo == TransmitIsFifo /\ ReceiveIsFifo

\* Through every interrupt, the UART's interrupts are enabled for what the
\* queues hold and the console belongs to one thread.
ConsoleSafe == TypeOK /\ IerTracksQueues /\ ConsoleExclusive

\* A writer for whom there will be room, and a reader for whom there is a
\* byte, go on.
WaitersProceed == WriterProceeds /\ ReaderProceeds
=============================================================================
