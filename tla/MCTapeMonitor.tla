--------------------------- MODULE MCTapeMonitor ---------------------------
(***************************************************************************)
(* TapeMonitor on a small chip.                                            *)
(***************************************************************************)
EXTENDS TapeMonitor, SmallChips
=============================================================================
