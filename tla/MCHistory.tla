------------------------------ MODULE MCHistory ------------------------------
(***************************************************************************)
(* TapeMonitorHistory on a small chip.                                     *)
(***************************************************************************)
EXTENDS TapeMonitorHistory, SmallChips
=============================================================================
