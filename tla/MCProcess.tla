----------------------------- MODULE MCProcess -----------------------------
(***************************************************************************)
(* Instances of Process for TLC.                                           *)
(***************************************************************************)
EXTENDS Process, TLC

Symmetry == Permutations(Thread \ {main}) \cup Permutations(File)
=============================================================================
