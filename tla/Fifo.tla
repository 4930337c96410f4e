-------------------------------- MODULE Fifo --------------------------------
(***************************************************************************)
(* What an interrupt queue promises: the bytes come out in the order in    *)
(* which they went in, none is lost, none is invented, and no more than    *)
(* Capacity of them are held.                                              *)
(***************************************************************************)
EXTENDS Naturals, Sequences

CONSTANTS Byte, Capacity

VARIABLES
  items,  \* the bytes held, oldest first
  out     \* the byte that left last

vars == <<items, out>>

Init == items = <<>> /\ out \notin Byte

Put(b) ==
  /\ Len(items) < Capacity
  /\ items' = Append(items, b)
  /\ UNCHANGED out

Get ==
  /\ items # <<>>
  /\ out' = Head(items)
  /\ items' = Tail(items)

\* A byte that finds the queue empty may pass without being held.
Pass(b) ==
  /\ items = <<>>
  /\ out' = b
  /\ UNCHANGED items

\* The oldest byte leaves to make room.
Swap(b) ==
  /\ items # <<>>
  /\ out' = Head(items)
  /\ items' = Append(Tail(items), b)

Drain ==
  /\ items # <<>>
  /\ out' = items[Len(items)]
  /\ items' = <<>>

Next ==
  \/ \E b \in Byte : Put(b) \/ Pass(b) \/ Swap(b)
  \/ Get
  \/ Drain

Spec == Init /\ [][Next]_vars
=============================================================================
