----------------------------- MODULE SmallChips -----------------------------
(***************************************************************************)
(* Words and programs of the small instances TLC checks.                   *)
(***************************************************************************)
EXTENDS RomFat

Bits == INSTANCE Bitwise
MCBitAnd(x, y) == CASE x = y \/ y = ERASED -> x
                    [] x = ERASED -> y
                    [] OTHER -> Bits!&(x, y)
\* A stand-in for CRC16 that, like it, does not commute with BitAnd and does
\* not take the erased block to the erased word.
MCCrc16(x) == (5 * x + 3) % 16

ProgramsSmall == {<<3>>, <<5, 6>>}
ProgramsShort == {<<3>>, <<5>>, <<5, 6>>}
=============================================================================
