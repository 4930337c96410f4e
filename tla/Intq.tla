-------------------------------- MODULE Intq --------------------------------
(***************************************************************************)
(* The circular queue of devices/intq.c as a record and its operations as  *)
(* functions of the record.  A queue is only touched with interrupts off,  *)
(* so that each operation here is part of one indivisible step of module   *)
(* Console.                                                                *)
(***************************************************************************)
EXTENDS Naturals, Sequences

CONSTANTS
  Byte,          \* the bytes that are queued
  INTQ_BUFSIZE,  \* slots of a queue; one of them is always unused
  NULL

ASSUME IntqAssumption ==
  /\ INTQ_BUFSIZE \in Nat \ {0, 1}
  /\ NULL \notin Byte

next(pos) == (pos + 1) % INTQ_BUFSIZE

intq_empty(q) == q.head = q.tail

intq_full(q) == next(q.head) = q.tail

\* holder is the holder of q->lock, the thread that waits; waiters are the
\* threads asleep on that lock's semaphore, front first.
IntqType(Thread) ==
  [buf : [0..INTQ_BUFSIZE - 1 -> Byte \cup {NULL}],
   head : 0..INTQ_BUFSIZE - 1, tail : 0..INTQ_BUFSIZE - 1,
   not_full : Thread \cup {NULL}, not_empty : Thread \cup {NULL},
   holder : Thread \cup {NULL}, waiters : Seq(Thread)]

intq_init ==
  [buf |-> [i \in 0..INTQ_BUFSIZE - 1 |-> NULL], head |-> 0, tail |-> 0,
   not_full |-> NULL, not_empty |-> NULL, holder |-> NULL, waiters |-> <<>>]

\* Bug variant: the byte put last is returned first.
front_Newest(q) == q.buf[(q.head + INTQ_BUFSIZE - 1) % INTQ_BUFSIZE]

\* The byte that intq_getc() returns, the queue it leaves, and the thread
\* its signal() unblocks (NULL if there is none).
front(q) == q.buf[q.tail]

\* A slot whose byte has been taken is empty: a second read of it would
\* yield NULL, which is no byte.

\* Bug variant: the waiting writer is not signalled.
intq_getc_NoSignal(q) == [q EXCEPT !.buf = [@ EXCEPT ![q.tail] = NULL], !.tail = next(@)]

intq_getc(q) ==
  [q EXCEPT !.buf = [@ EXCEPT ![q.tail] = NULL], !.tail = next(@),
            !.not_full = NULL]

\* Bug variant: the waiting reader is not signalled.
intq_putc_NoSignal(q, b) == [q EXCEPT !.buf = [@ EXCEPT ![q.head] = b], !.head = next(@)]

intq_putc(q, b) ==
  [q EXCEPT !.buf = [@ EXCEPT ![q.head] = b], !.head = next(@),
            !.not_empty = NULL]

\* The bytes in a queue, oldest first.
intq_items(q) ==
  LET n == (q.head + INTQ_BUFSIZE - q.tail) % INTQ_BUFSIZE
  IN  [i \in 1..n |-> q.buf[(q.tail + i - 1) % INTQ_BUFSIZE]]
=============================================================================
