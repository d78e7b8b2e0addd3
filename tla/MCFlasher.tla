------------------------------ MODULE MCFlasher ------------------------------
(***************************************************************************)
(* Sectors of two bytes; two launchers, and two ROMs to begin with.        *)
(***************************************************************************)
EXTENDS Flasher

\* Bytes 0, 1, 128 and 255.
MCBitAnd(x, y) == CASE x = 255 -> y [] y = 255 -> x [] x = y -> x [] OTHER -> 0
MCHighBit(x)   == x >= 128

ImagesSmall == {[a \in Cells |-> IF a = 0 THEN 1 ELSE 128],
                [a \in Cells |-> IF a = 3 THEN 1 ELSE 255]}
OldsSmall == {[a \in Cells |-> 1], [a \in Cells |-> IF a < 2 THEN 255 ELSE 128]}
=============================================================================
