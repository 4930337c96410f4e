----------------------------- MODULE MCConsole -----------------------------
(***************************************************************************)
(* An instance of Console for TLC.  `cast' says which threads and bytes    *)
(* take part: two threads that contend with a single byte, or one thread   *)
(* and two bytes whose order in the rings can be told.                     *)
(***************************************************************************)
EXTENDS Console, TLC

VARIABLE cast

Casts == {c \in [threads : SUBSET Thread, bytes : SUBSET Byte] :
            {Cardinality(c.threads), Cardinality(c.bytes)} = {1, 2}}

in_sight == {rbr, thr, key} \cup {byte[t] : t \in Thread}
              \cup UNION {{queue[q].buf[i] : i \in 0..INTQ_BUFSIZE - 1} : q \in DOMAIN queue}

\* Threads that read by themselves are of interest when two contend, and then
\* the handlers print nothing.
CastInit ==
  /\ Init /\ cast \in Casts
  /\ kernel_reader \subseteq cast.threads

CastNext ==
  /\ \/ \E t \in cast.threads : Running(Call(t)) \/ Running(Continue(t))
     \/ Running(Device)
  /\ in_sight' \subseteq cast.bytes \cup {NULL}
  /\ kernel_reader # {} => printed' = 0
  /\ UNCHANGED cast

CastSpec == CastInit /\ [][CastNext]_<<vars, cast>>

Symmetry == Permutations(Thread) \cup Permutations(Byte)
=============================================================================
