------------------------------ MODULE Checksums ------------------------------
(***************************************************************************)
(* The programs for CRC16 of this repository, round by round and side by   *)
(* side on the same data: the one of the GUI (C++, signed bytes in 32      *)
(* bits), the one of the three programs of the P2000T (Z80, registers a, d *)
(* and e) and the one of the scripts (Python, unbounded integers).  A      *)
(* number is the set of the bits that are one.                             *)
(***************************************************************************)
EXTENDS Integers

CONSTANTS
    LENGTH,   \* bytes of the data: 0x400, 0x1000
    Bytes     \* the bytes that occur in it

Bits(w) == 0 .. w - 1

ASSUME ChecksumsAssumption ==
    /\ LENGTH \in Nat \ {0}       \* the Z80 takes no bytes for 0x10000
    /\ Bytes \subseteq SUBSET Bits(8)

VARIABLES
    count,   \* bytes fetched
    round,   \* rounds done for the last of them
    gui,     \* crc of SerialInterface::crc16_xmodem
    z80,     \* registers of crc16
    script   \* crc of checksums.py

checksumVars == <<count, round, gui, z80, script>>

Xor(S, T)   == (S \ T) \cup (T \ S)
Shift(S, w) == {i \in Bits(w) : i > 0 /\ i - 1 \in S}     \* left, w bits kept
High(S)     == {i \in 8 .. 15 : i - 8 \in S}              \* the upper byte is S
Poly        == {0, 5, 12}                                 \* 0x1021

Z80Crc == [a : SUBSET Bits(8), d : SUBSET Bits(8), e : SUBSET Bits(8)]

ChecksumsTypeOK ==
    /\ count \in 0 .. LENGTH /\ round \in 0 .. 8
    /\ gui \in SUBSET Bits(32)
    /\ z80 \in Z80Crc
    /\ script \in SUBSET Bits(16)

ChecksumsInit ==
    /\ count = 0 /\ round = 8
    /\ gui = {} /\ script = {}
    /\ z80 \in [a : SUBSET Bits(8), d : {{}}, e : {{}}]     \* a is not set

\* A char shifted by eight: its sign fills the bits above.
Signed(b) == High(b) \cup IF 7 \in b THEN 16 .. 31 ELSE {}

Fetch(b) ==
    /\ round = 8 /\ count < LENGTH
    /\ gui' = Xor(gui, Signed(b))
    /\ script' = Xor(script, High(b))
    /\ z80' = [z80 EXCEPT !.a = Xor(b, z80.d)]
    /\ count' = count + 1 /\ round' = 0

\* Bits above the sixteenth are cleared when the polynomial is added, only.
GuiRound(crc) ==
    LET s == Shift(crc, 32) IN IF 16 \in s THEN Xor(s, Poly) \cap Bits(16) ELSE s

\* An integer grows by a bit.
ScriptRound(crc) ==
    LET s == Shift(crc, 17) IN IF 16 \in s THEN Xor(s, Poly) \cap Bits(16) ELSE s

\* Mutant: add a,a for adc a,a.
AddedA(z) == Shift(z.a, 8)

\* sla e; adc a,a
RotatedA(z) == Shift(z.a, 8) \cup (IF 7 \in z.e THEN {0} ELSE {})

\* d keeps a while e is changed; it takes the upper byte after eight rounds.
Z80Round(z) ==
    LET a == RotatedA(z)
        e == Shift(z.e, 8)
    IN  IF 7 \in z.a THEN [a |-> Xor(a, {4}), d |-> a, e |-> Xor(e, {0, 5})]
                     ELSE [a |-> a, d |-> z.d, e |-> e]
Stored(z) == IF round = 7 THEN [z EXCEPT !.d = z.a] ELSE z

Round ==
    /\ round < 8
    /\ gui' = GuiRound(gui)
    /\ script' = ScriptRound(script)
    /\ z80' = Stored(Z80Round(z80))
    /\ round' = round + 1
    /\ UNCHANGED count

ChecksumsNext == (\E b \in Bytes : Fetch(b)) \/ Round

ChecksumsSpec == ChecksumsInit /\ [][ChecksumsNext]_checksumVars

-----------------------------------------------------------------------------
\* What the functions return: (uint16_t) crc, and de.
GuiChecksum == gui \cap Bits(16)
Z80Checksum == High(z80.d) \cup z80.e

\* Whatever the data, the three programs come to the same checksum after every
\* byte: a checksum the GUI has written is green in the launcher and in the
\* cassette utility, and the flasher shows what the script has printed.
SameChecksum ==
    round = 8 => GuiChecksum = script /\ Z80Checksum = script
=============================================================================
