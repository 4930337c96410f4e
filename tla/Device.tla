------------------------------- MODULE Device -------------------------------
(***************************************************************************)
(* What a disk driver promises to the block layer: each read and each      *)
(* write of a sector takes effect at one instant between its call and its  *)
(* return ("Internally synchronizes accesses to disks", ide.c).            *)
(***************************************************************************)
CONSTANTS Thread, Disk, Sector, Data, NoAccess

VARIABLES
  content,  \* the data of each sector of each disk
  access    \* each thread's access, and how far it is

vars == <<content, access>>

Access == [state : {"asked", "done"}, op : {"read", "write"}, disk : Disk,
           sector : Sector, data : Data]

Init ==
  /\ content \in [Disk -> [Sector -> Data]]
  /\ access = [t \in Thread |-> NoAccess]

Ask(t) ==
  /\ access[t] = NoAccess
  /\ \E a \in Access : a.state = "asked" /\ access' = [access EXCEPT ![t] = a]
  /\ UNCHANGED content

Read(t) ==
  LET a == access[t]
  IN  /\ a # NoAccess /\ a.state = "asked" /\ a.op = "read"
      /\ access' = [access EXCEPT ![t] =
           [state |-> "done", op |-> "read", disk |-> a.disk,
            sector |-> a.sector, data |-> content[a.disk][a.sector]]]
      /\ UNCHANGED content

Write(t) ==
  LET a == access[t]
  IN  /\ a # NoAccess /\ a.state = "asked" /\ a.op = "write"
      /\ access' = [access EXCEPT ![t] =
           [state |-> "done", op |-> "write", disk |-> a.disk,
            sector |-> a.sector, data |-> a.data]]
      /\ content' = [content EXCEPT ![a.disk][a.sector] = a.data]

Return(t) ==
  /\ access[t] # NoAccess /\ access[t].state = "done"
  /\ access' = [access EXCEPT ![t] = NoAccess]
  /\ UNCHANGED content

Next == \E t \in Thread : Ask(t) \/ Read(t) \/ Write(t) \/ Return(t)

Spec == Init /\ [][Next]_vars
=============================================================================
