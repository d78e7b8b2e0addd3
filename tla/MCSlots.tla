------------------------------- MODULE MCSlots -------------------------------
(***************************************************************************)
(* Boards and files are interchangeable.                                   *)
(***************************************************************************)
EXTENDS Slots, TLC

Interchangeable == Permutations(Ports) \cup Permutations(Files)
=============================================================================
