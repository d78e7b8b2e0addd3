------------------------------- MODULE Flasher -------------------------------
(***************************************************************************)
(* The flasher of the P2000T: it copies the launcher from the first two    *)
(* sectors of an external cartridge to the internal ROM, and shows         *)
(* checksums of what is there.  The chip (external) takes its time to wipe *)
(* a sector, and takes no command meanwhile.                               *)
(***************************************************************************)
EXTENDS Integers, Sequences

CONSTANTS
    SECTOR,          \* bytes of a sector: 0x1000
    PAGES,           \* sectors of a bank: 4
    ATTEMPTS,        \* readings of the chip before a wipe is taken as done: 1000
    Byte,            \* what a cell of a chip may hold
    BitAnd(_, _),    \* programming clears bits
    HighBit(_),      \* the bits 7 of a byte, set or not
    STATUS,          \* what is read of a chip while it wipes: bit 7 is 0
    Images,          \* the first bank of cartridges there may be
    Olds             \* what the internal ROM may hold before

BLANK == 255
Cells == 0 .. PAGES * SECTOR - 1
Launcher == 0 .. 2 * SECTOR - 1
SectorAt(s) == s * SECTOR .. (s + 1) * SECTOR - 1

ASSUME FlasherAssumption ==
    /\ SECTOR \in Nat \ {0} /\ PAGES \in Nat /\ PAGES >= 2 /\ ATTEMPTS \in Nat
    /\ BLANK \in Byte /\ STATUS \in Byte /\ ~HighBit(STATUS) /\ HighBit(BLANK)
    /\ \A x, y \in Byte : BitAnd(x, y) \in Byte
    /\ \A x \in Byte : BitAnd(BLANK, x) = x
    /\ Images \subseteq [Cells -> Byte] /\ Olds \subseteq [Cells -> Byte]
    /\ \A image \in Images, s \in 0 .. 1 : \E a \in SectorAt(s) : image[a] # STATUS

VARIABLES
    ext,     \* the first bank of the cartridge
    slot,    \* is the cartridge in its slot?
    rom,     \* the internal ROM
    wiping,  \* the sector the chip is wiping, or NoSector
    cpu,     \* the activation of main, and of the routine it has called
    high,    \* bytes at 0x9000: checksums
    shown,   \* the checksums on the screen
    fault    \* has the cartridge been out, or the chip too slow, since the start?

flasherVars == <<ext, slot, rom, wiping, cpu, high, shown, fault>>

NoSector == -1
\* crc16 of a page: pages that differ are told apart, and so are the bytes.
Crc(page, half) == <<half, page>>
Waiting == [pc |-> "key", at |-> 0, ctr |-> 0, c |-> 0]
NoBytes == [i \in 0 .. 2 * PAGES - 1 |-> <<>>]

FlasherTypeOK ==
    /\ ext \in Images /\ slot \in BOOLEAN
    /\ rom \in [Cells -> Byte] /\ wiping \in {NoSector} \cup 0 .. 1
    /\ cpu \in [pc : {"key", "wipe", "poll", "copy", "crc", "show", "done"},
                at : 0 .. PAGES * SECTOR, ctr : 0 .. ATTEMPTS, c : 0 .. 2 * PAGES]
    /\ DOMAIN high = 0 .. 2 * PAGES - 1 /\ Len(shown) <= 4
    /\ fault \in BOOLEAN

FlasherInit ==
    /\ ext \in Images /\ slot = TRUE
    /\ rom \in Olds /\ wiping = NoSector
    /\ cpu = Waiting /\ high = NoBytes /\ shown = <<>> /\ fault = FALSE

\* While a sector is wiped no cell can be read.
sst39sfrecv_internal(a) == IF wiping = NoSector THEN rom[a] ELSE STATUS
sst39sfrecv_external(a) == IF slot THEN ext[a] ELSE BLANK
\* The internal ROM when x has been programmed at a.
sst39sfwrbyte_internal(a, x) ==
    IF wiping = NoSector THEN [rom EXCEPT ![a] = BitAnd(@, x)] ELSE rom

-----------------------------------------------------------------------------
\* A key is pressed.  Both banks become 0; the internal chip has no bank port,
\* and the zero written to it is no command.
Start == /\ cpu.pc = "key"
         /\ cpu' = [cpu EXCEPT !.pc = "wipe"]
         /\ fault' = FALSE
         /\ UNCHANGED <<ext, slot, rom, wiping, high, shown>>

\* sst39sf_wipe_sector_romint, up to its loop.
SendWipe ==
    /\ cpu.pc = "wipe"
    /\ wiping' = IF wiping = NoSector THEN cpu.at ELSE wiping
    /\ cpu' = [cpu EXCEPT !.pc = "poll", !.ctr = 0]
    /\ UNCHANGED <<ext, slot, rom, high, shown, fault>>

\* Mutant: attempts are not counted.
NoAttempt == cpu.ctr

\* Bit 7 of address 0 is looked at, whichever sector is wiped.
NotYet == ~HighBit(sst39sfrecv_internal(0))
NextAttempt == cpu.ctr + 1
NextSector == IF cpu.at = 0 THEN [cpu EXCEPT !.pc = "wipe", !.at = 1, !.ctr = 0]
                            ELSE [cpu EXCEPT !.pc = "copy", !.at = 0, !.ctr = 0]

Poll ==
    /\ cpu.pc = "poll"
    /\ IF NotYet /\ cpu.ctr < ATTEMPTS
       THEN /\ cpu' = [cpu EXCEPT !.ctr = NextAttempt]
            /\ UNCHANGED fault
       ELSE /\ cpu' = NextSector
            /\ fault' = (fault \/ wiping # NoSector)
    /\ UNCHANGED <<ext, slot, rom, wiping, high, shown>>

\* Mutant: copybank0.
BankSize == PAGES * SECTOR

CopySize == 2 * SECTOR

\* copyfirsttwosectors: a byte a step.
CopyByte ==
    /\ cpu.pc = "copy"
    /\ rom' = sst39sfwrbyte_internal(cpu.at, sst39sfrecv_external(cpu.at))
    /\ cpu' = IF cpu.at + 1 < CopySize THEN [cpu EXCEPT !.at = @ + 1]
                                       ELSE [cpu EXCEPT !.pc = "crc", !.at = 0]
    /\ fault' = (fault \/ ~slot)
    /\ UNCHANGED <<ext, slot, wiping, high, shown>>

\* Mutant: the checksum is that of the cartridge.
ReadExternal(a) == sst39sfrecv_external(a)

ReadInternal(a) == sst39sfrecv_internal(a)

\* Mutant: the address is moved on by one byte.
OneByte(c) == c + 1
\* Mutant: it is moved on by two words.
TwoWords(c) == c + 4

BothBytes(c) == c + 2

\* calculatecrc16: a page is read and its checksum stored.
SumPage ==
    /\ cpu.pc = "crc"
    /\ LET page == [i \in 0 .. SECTOR - 1 |-> ReadInternal(cpu.at + i)]
       IN  high' = [high EXCEPT ![cpu.c] = Crc(page, "d"), ![cpu.c + 1] = Crc(page, "e")]
    /\ cpu' = IF cpu.at + SECTOR < PAGES * SECTOR
              THEN [cpu EXCEPT !.at = @ + SECTOR, !.c = BothBytes(@)]
              ELSE [cpu EXCEPT !.pc = "show", !.at = 0, !.c = 0]
    /\ UNCHANGED <<ext, slot, rom, wiping, shown, fault>>

Show ==
    /\ cpu.pc = "show"
    /\ shown' = <<high[0], high[1], high[2], high[3]>>
    /\ cpu' = [cpu EXCEPT !.pc = "done"]
    /\ UNCHANGED <<ext, slot, rom, wiping, high, fault>>

-----------------------------------------------------------------------------
\* The chip has wiped the sector.
WipeDone ==
    /\ wiping # NoSector
    /\ rom' = [a \in Cells |-> IF a \in SectorAt(wiping) THEN BLANK ELSE rom[a]]
    /\ wiping' = NoSector
    /\ UNCHANGED <<ext, slot, cpu, high, shown, fault>>

\* Off and on again at any time: a sector that is being wiped keeps some cells.
\* The cartridge may have been exchanged.
PowerCut ==
    /\ cpu.pc # "key"
    /\ \E wiped \in SUBSET (IF wiping = NoSector THEN {} ELSE SectorAt(wiping)) :
          rom' = [a \in Cells |-> IF a \in wiped THEN BLANK ELSE rom[a]]
    /\ wiping' = NoSector
    /\ ext' \in Images /\ slot' = TRUE
    /\ cpu' = Waiting /\ high' = NoBytes /\ shown' = <<>> /\ fault' = FALSE

\* The cartridge is taken out, or put back.
Pull == /\ slot' = ~slot
        /\ UNCHANGED <<ext, rom, wiping, cpu, high, shown, fault>>

CpuSteps == \/ SendWipe
            \/ Poll
            \/ CopyByte
            \/ SumPage
            \/ Show

FlasherNext == \/ Start
               \/ CpuSteps
               \/ WipeDone
               \/ PowerCut
               \/ Pull

FlasherSpec == FlasherInit /\ [][FlasherNext]_flasherVars
FairFlasherSpec == FlasherSpec /\ WF_flasherVars(CpuSteps)

-----------------------------------------------------------------------------
\* What checksums.py prints for a launcher.
Expected(image) ==
    LET page(s) == [i \in 0 .. SECTOR - 1 |-> image[s * SECTOR + i]]
    IN  <<Crc(page(0), "d"), Crc(page(0), "e"), Crc(page(1), "d"), Crc(page(1), "e")>>

\* If the checksums on the screen are those the script gave for a launcher,
\* that launcher is in the internal ROM, whatever went wrong on the way: a
\* chip too slow, a cartridge taken out, the power lost in an earlier attempt
\* (flasher/README.md: "verify that this checksum matches the expected").
ShownIsThere ==
    \A image \in Images :
        shown = Expected(image) => \A a \in Launcher : rom[a] = image[a]

\* The flasher repairs what an attempt cut short has left: unless the chip is
\* too slow or the cartridge out, it ends with the checksums expected.
RunRepairs == cpu.pc = "done" /\ ~fault => shown = Expected(ext)

\* The rest of the internal ROM is left alone.
RestKept == [][\A a \in Cells \ Launcher : rom'[a] = rom[a]]_flasherVars

\* Flashing ends, if the chip never does what it is told.
FlashEnds == cpu.pc = "wipe" ~> cpu.pc \in {"done", "key"}
=============================================================================
