------------------------------ MODULE MCSynch ------------------------------
(* Small instances of Synch: main(), the idle thread and one or two more.  *)
EXTENDS Synch

CONSTANT monitor  \* the lock of every condition variable

MCCondLock == [c \in Cond |-> monitor]

=============================================================================
