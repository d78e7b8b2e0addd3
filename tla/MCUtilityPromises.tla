----------------------------- MODULE MCUtilityPromises -----------------------------
(***************************************************************************)
(* What the cassette utility promises, with small chips and tapes.         *)
(***************************************************************************)
EXTENDS MCUtility, UtilityPromises
=============================================================================
