----------------------------- MODULE MCSerialLink -----------------------------
(***************************************************************************)
(* Instances of the serial link for TLC.                                   *)
(***************************************************************************)
EXTENDS SerialLink, Bitwise

MCBitAnd(a, b) == a & b
===============================================================================
