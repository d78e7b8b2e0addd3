---------------------------- MODULE FlasherProofs ----------------------------
(***************************************************************************)
(* Theorems about the flasher, for sectors of any size, any number of them *)
(* in a bank, and any number of attempts; and about the three              *)
(* implementations of its checksum.                                        *)
(***************************************************************************)
EXTENDS Flasher, Checksums, TLAPS

(***************************************************************************)
(* The inductive invariant.                                                *)
(***************************************************************************)
\* The copy stays in the launcher, and the checksums go by sectors.
WithinBounds ==
    /\ cpu.pc \in {"wipe", "poll"} => cpu.at \in 0 .. 1
    /\ cpu.pc = "copy" => cpu.at < 2 * SECTOR
    /\ cpu.pc = "crc" => \E k \in 0 .. PAGES - 1 : cpu.at = k * SECTOR /\ cpu.c = 2 * k
    /\ cpu.pc # "crc" => cpu.c = 0
    /\ cpu.pc = "key" => cpu = Waiting /\ wiping = NoSector /\ ~fault

\* What FlasherTypeOK says of cpu.
CpuStates == [pc : {"key", "wipe", "poll", "copy", "crc", "show", "done"},
              at : 0 .. PAGES * SECTOR, ctr : 0 .. ATTEMPTS, c : 0 .. 2 * PAGES]

Wiped(s) == \A a \in SectorAt(s) : rom[a] = BLANK

\* How far a run without mishap has come.
Progress ==
    ~fault =>
        /\ cpu.pc # "poll" => wiping = NoSector
        /\ cpu.pc = "poll" => \/ wiping = cpu.at
                              \/ wiping = NoSector /\ Wiped(cpu.at)
        /\ cpu.pc \in {"wipe", "poll"} /\ cpu.at = 1 => Wiped(0)
        /\ cpu.pc = "copy" => \A a \in Launcher : rom[a] = IF a < cpu.at THEN ext[a] ELSE BLANK
        /\ cpu.pc \in {"crc", "show", "done"} => \A a \in Launcher : rom[a] = ext[a]

RomPage(s) == [i \in 0 .. SECTOR - 1 |-> rom[s * SECTOR + i]]
StatusPage == [i \in 0 .. SECTOR - 1 |-> STATUS]

\* A checksum is that of what the ROM holds, for good, or of what a chip says
\* while it wipes.
SummedUp(s) ==
    \E page \in {RomPage(s), StatusPage} :
        /\ high[2 * s] = Crc(page, "d") /\ high[2 * s + 1] = Crc(page, "e")
        /\ \/ page = RomPage(s) /\ wiping = NoSector
           \/ page = StatusPage /\ fault

ChecksumsMade ==
    /\ cpu.pc = "crc" /\ cpu.c >= 2 => SummedUp(0)
    /\ cpu.pc = "crc" /\ cpu.c >= 4 => SummedUp(1)
    /\ cpu.pc \in {"show", "done"} => SummedUp(0) /\ SummedUp(1)
    /\ shown = IF cpu.pc = "done" THEN <<high[0], high[1], high[2], high[3]>> ELSE <<>>

FlasherIInv == FlasherTypeOK /\ WithinBounds /\ Progress /\ ChecksumsMade

-----------------------------------------------------------------------------
(***************************************************************************)
(* Sizes.                                                                  *)
(***************************************************************************)
LEMMA Sizes ==
    /\ SECTOR \in Nat \ {0} /\ PAGES \in Nat /\ PAGES >= 2 /\ ATTEMPTS \in Nat
    /\ PAGES * SECTOR \in Nat /\ 2 * SECTOR <= PAGES * SECTOR
    /\ SectorAt(0) = 0 .. SECTOR - 1 /\ SectorAt(1) = SECTOR .. 2 * SECTOR - 1
    /\ Launcher = SectorAt(0) \cup SectorAt(1)
    /\ Launcher \subseteq Cells
    /\ NoSector \notin 0 .. 1
  <1>1. SECTOR \in Nat \ {0} /\ PAGES \in Nat /\ PAGES >= 2 /\ ATTEMPTS \in Nat
    BY FlasherAssumption
  <1>2. PAGES * SECTOR \in Nat /\ 2 * SECTOR <= PAGES * SECTOR
    <2>1. \A n, m \in Nat : n * m \in Nat
      OBVIOUS
    <2>2. PAGES * SECTOR = 2 * SECTOR + (PAGES - 2) * SECTOR
      BY <1>1
    <2> QED BY <1>1, <2>1, <2>2
  <1>3. SectorAt(0) = 0 .. SECTOR - 1 /\ SectorAt(1) = SECTOR .. 2 * SECTOR - 1
    BY <1>1 DEF SectorAt
  <1> QED BY <1>1, <1>2, <1>3 DEF Launcher, Cells, NoSector

LEMMA Sectors ==
    ASSUME NEW k \in 0 .. PAGES - 1
    PROVE  /\ k * SECTOR \in Nat /\ k * SECTOR + SECTOR <= PAGES * SECTOR
           /\ k * SECTOR + SECTOR = (k + 1) * SECTOR
           /\ k * SECTOR + SECTOR < PAGES * SECTOR => k + 1 \in 0 .. PAGES - 1
           /\ k * SECTOR + SECTOR >= PAGES * SECTOR => k + 1 = PAGES
  <1>1. SECTOR \in Nat \ {0} /\ PAGES \in Nat /\ k \in Nat /\ k + 1 <= PAGES
    BY Sizes
  <1>2. k * SECTOR + SECTOR = (k + 1) * SECTOR
    BY <1>1
  <1>3. k * SECTOR \in Nat
    <2>1. \A n, m \in Nat : n * m \in Nat
      OBVIOUS
    <2> QED BY <1>1, <2>1
  <1>4. CASE k + 1 = PAGES
    BY <1>1, <1>2, <1>3, <1>4
  <1>5. CASE k + 1 < PAGES
    <2>1. PICK d \in Nat : PAGES = k + 2 + d
      <3>1. PAGES - k - 2 \in Nat /\ PAGES = k + 2 + (PAGES - k - 2)
        BY <1>1, <1>5
      <3> QED BY <3>1
    <2>2. PAGES * SECTOR = (k + 1) * SECTOR + SECTOR + d * SECTOR
      BY <1>1, <2>1
    <2>3. d * SECTOR >= 0 /\ d * SECTOR \in Nat
      <3>1. \A n, m \in Nat : n * m \in Nat
        OBVIOUS
      <3> QED BY <1>1, <3>1
    <2> QED BY <1>1, <1>2, <1>3, <1>5, <2>2, <2>3
  <1> QED BY <1>1, <1>4, <1>5

\* Where the program may move on to.
LEMMA CpuMoves ==
    ASSUME NEW pc \in {"key", "wipe", "poll", "copy", "crc", "show", "done"},
           NEW at \in 0 .. PAGES * SECTOR, NEW ctr \in 0 .. ATTEMPTS, NEW c \in 0 .. 2 * PAGES
    PROVE  [pc |-> pc, at |-> at, ctr |-> ctr, c |-> c] \in CpuStates
  BY DEF CpuStates

LEMMA SmallNumbers ==
    /\ 0 \in 0 .. PAGES * SECTOR /\ 1 \in 0 .. PAGES * SECTOR
    /\ 0 \in 0 .. ATTEMPTS /\ 0 \in 0 .. 2 * PAGES
    /\ Waiting \in CpuStates
  <1>1. /\ 0 \in 0 .. PAGES * SECTOR /\ 1 \in 0 .. PAGES * SECTOR
        /\ 0 \in 0 .. ATTEMPTS /\ 0 \in 0 .. 2 * PAGES
    BY Sizes
  <1>2. Waiting \in CpuStates
    BY <1>1, CpuMoves DEF Waiting
  <1> QED BY <1>1, <1>2

LEMMA NoBytesTyped == DOMAIN NoBytes = 0 .. 2 * PAGES - 1 /\ Len(<<>>) <= 4
  BY DEF NoBytes

-----------------------------------------------------------------------------
(***************************************************************************)
(* Every step preserves the invariant.                                     *)
(***************************************************************************)
LEMMA FlasherInitInv == FlasherInit => FlasherIInv
  <1> SUFFICES ASSUME FlasherInit PROVE FlasherIInv
    OBVIOUS
  <1>1. FlasherTypeOK
    BY SmallNumbers, NoBytesTyped, FlasherAssumption DEF FlasherInit, FlasherTypeOK, CpuStates
  <1> QED BY <1>1 DEF FlasherInit, Waiting, FlasherIInv, WithinBounds, Progress, ChecksumsMade

LEMMA StartKeeps ==
    ASSUME FlasherIInv, Start
    PROVE  FlasherIInv'
  <1>1. /\ cpu = Waiting /\ wiping = NoSector /\ ~fault
        /\ cpu' = [Waiting EXCEPT !.pc = "wipe"] /\ fault' = FALSE
        /\ UNCHANGED <<ext, slot, rom, wiping, high, shown>>
    BY DEF Start, FlasherIInv, WithinBounds
  <1>2. cpu' = [pc |-> "wipe", at |-> 0, ctr |-> 0, c |-> 0]
    BY <1>1 DEF Waiting
  <1>3. FlasherTypeOK'
    BY <1>1, <1>2, Sizes DEF FlasherIInv, FlasherTypeOK
  <1> QED BY <1>1, <1>2, <1>3
       DEF Waiting, FlasherIInv, WithinBounds, Progress, ChecksumsMade

LEMMA SendWipeKeeps ==
    ASSUME FlasherIInv, SendWipe
    PROVE  FlasherIInv'
  <1>1. /\ cpu.pc = "wipe" /\ cpu.at \in 0 .. 1 /\ cpu.c = 0
        /\ cpu' = [cpu EXCEPT !.pc = "poll", !.ctr = 0]
        /\ UNCHANGED <<ext, slot, rom, high, shown, fault>>
    BY DEF SendWipe, FlasherIInv, WithinBounds
  <1>2. /\ cpu'.pc = "poll" /\ cpu'.at = cpu.at /\ cpu'.c = 0
        /\ wiping' \in {NoSector} \cup 0 .. 1
    BY <1>1 DEF SendWipe, FlasherIInv, FlasherTypeOK
  <1>3. FlasherTypeOK'
    <2>1. cpu \in CpuStates
      BY DEF FlasherIInv, FlasherTypeOK, CpuStates
    <2>2. cpu' \in CpuStates
      BY <1>1, <2>1, SmallNumbers DEF CpuStates
    <2> QED BY <1>1, <1>2, <2>2 DEF FlasherIInv, FlasherTypeOK, CpuStates
  <1>4. WithinBounds'
    BY <1>1, <1>2 DEF WithinBounds
  <1>5. Progress'
    BY <1>1, <1>2 DEF FlasherIInv, Progress, SendWipe, Wiped
  <1>6. ChecksumsMade'
    BY <1>1, <1>2 DEF FlasherIInv, ChecksumsMade
  <1> QED BY <1>3, <1>4, <1>5, <1>6 DEF FlasherIInv

LEMMA PollKeeps ==
    ASSUME FlasherIInv, Poll
    PROVE  FlasherIInv'
  <1>1. /\ cpu.pc = "poll" /\ cpu.at \in 0 .. 1 /\ cpu.c = 0
        /\ UNCHANGED <<ext, slot, rom, wiping, high, shown>>
    BY DEF Poll, FlasherIInv, WithinBounds
  <1>2. cpu \in CpuStates
    BY DEF FlasherIInv, FlasherTypeOK, CpuStates
  <1>3. CASE NotYet /\ cpu.ctr < ATTEMPTS
    <2>1. cpu' = [cpu EXCEPT !.ctr = cpu.ctr + 1] /\ fault' = fault
      BY <1>3 DEF Poll, NextAttempt
    <2>2. cpu.ctr + 1 \in 0 .. ATTEMPTS
      BY <1>2, <1>3, Sizes DEF CpuStates
    <2>3. cpu'.pc = "poll" /\ cpu'.at = cpu.at /\ cpu'.c = 0
      BY <1>1, <1>2, <2>1
    <2>4. FlasherTypeOK'
      BY <1>1, <1>2, <2>1, <2>2 DEF FlasherIInv, FlasherTypeOK, CpuStates
    <2> QED BY <1>1, <2>1, <2>3, <2>4
         DEF FlasherIInv, WithinBounds, Progress, Wiped, ChecksumsMade
  <1>4. CASE ~(NotYet /\ cpu.ctr < ATTEMPTS)
    <2>1. cpu' = NextSector /\ fault' = (fault \/ wiping # NoSector)
      BY <1>4 DEF Poll
    <2>2. ~fault' => ~fault /\ wiping = NoSector /\ Wiped(cpu.at)
      BY <1>1, <2>1, Sizes DEF FlasherIInv, Progress
    <2>3. CASE cpu.at = 0
      <3>1. cpu' = [cpu EXCEPT !.pc = "wipe", !.at = 1, !.ctr = 0]
        BY <2>1, <2>3 DEF NextSector
      <3>2. cpu'.pc = "wipe" /\ cpu'.at = 1 /\ cpu'.c = 0
        BY <1>1, <1>2, <3>1
      <3>3. FlasherTypeOK'
        <4>1. cpu' \in CpuStates
          BY <1>2, <3>1, SmallNumbers DEF CpuStates
        <4>2. fault' \in BOOLEAN
          BY <2>1 DEF FlasherIInv, FlasherTypeOK
        <4> QED BY <1>1, <4>1, <4>2 DEF FlasherIInv, FlasherTypeOK, CpuStates
      <3>4. Progress'
        BY <1>1, <2>2, <2>3, <3>2 DEF Progress, Wiped
      <3> QED BY <1>1, <3>2, <3>3, <3>4 DEF FlasherIInv, WithinBounds, ChecksumsMade
    <2>4. CASE cpu.at = 1
      <3>1. cpu' = [cpu EXCEPT !.pc = "copy", !.at = 0, !.ctr = 0]
        BY <2>1, <2>4 DEF NextSector
      <3>2. cpu'.pc = "copy" /\ cpu'.at = 0 /\ cpu'.c = 0
        BY <1>1, <1>2, <3>1
      <3>3. FlasherTypeOK'
        <4>1. cpu' \in CpuStates
          BY <1>2, <3>1, SmallNumbers DEF CpuStates
        <4>2. fault' \in BOOLEAN
          BY <2>1 DEF FlasherIInv, FlasherTypeOK
        <4> QED BY <1>1, <4>1, <4>2 DEF FlasherIInv, FlasherTypeOK, CpuStates
      <3>4. ~fault' => \A a \in Launcher : rom[a] = BLANK /\ ~(a < 0)
        BY <1>1, <2>2, <2>4, Sizes DEF FlasherIInv, Progress, Wiped
      <3>5. Progress'
        BY <1>1, <2>2, <3>2, <3>4 DEF Progress
      <3> QED BY <1>1, <3>2, <3>3, <3>5, Sizes DEF FlasherIInv, WithinBounds, ChecksumsMade
    <2> QED BY <1>1, <2>3, <2>4
  <1> QED BY <1>3, <1>4

LEMMA CopyByteKeeps ==
    ASSUME FlasherIInv, CopyByte
    PROVE  FlasherIInv'
  <1>1. /\ cpu.pc = "copy" /\ cpu.at < 2 * SECTOR /\ cpu.c = 0
        /\ fault' = (fault \/ ~slot)
        /\ UNCHANGED <<ext, slot, wiping, high, shown>>
    BY DEF CopyByte, FlasherIInv, WithinBounds
  <1>2. cpu \in CpuStates
    BY DEF FlasherIInv, FlasherTypeOK, CpuStates
  <1>3. cpu.at \in Launcher /\ cpu.at \in Cells
    BY <1>1, <1>2, Sizes DEF Launcher, CpuStates
  <1>4. rom \in [Cells -> Byte] /\ ext \in [Cells -> Byte]
    BY FlasherAssumption DEF FlasherIInv, FlasherTypeOK
  <1> DEFINE x == sst39sfrecv_external(cpu.at)
  <1>5. x \in Byte /\ (slot => x = ext[cpu.at])
    BY <1>3, <1>4, FlasherAssumption DEF sst39sfrecv_external
  <1> HIDE DEF x
  <1>6. /\ rom' \in [Cells -> Byte]
        /\ \A a \in Cells : a # cpu.at => rom'[a] = rom[a]
        /\ wiping = NoSector => rom'[cpu.at] = BitAnd(rom[cpu.at], x)
    BY <1>3, <1>4, <1>5, FlasherAssumption DEF CopyByte, sst39sfwrbyte_internal, x
  <1>7. ~fault' => /\ ~fault /\ wiping = NoSector /\ slot
                   /\ rom[cpu.at] = BLANK /\ rom'[cpu.at] = ext[cpu.at]
    <2>1. SUFFICES ASSUME ~fault'
                   PROVE  /\ ~fault /\ wiping = NoSector /\ slot
                          /\ rom[cpu.at] = BLANK /\ rom'[cpu.at] = ext[cpu.at]
      OBVIOUS
    <2>2. ~fault /\ slot
      BY <1>1, <2>1 DEF FlasherIInv, FlasherTypeOK
    <2>3. wiping = NoSector /\ rom[cpu.at] = BLANK
      BY <1>1, <1>2, <1>3, <2>2 DEF FlasherIInv, Progress, CpuStates
    <2>4. BitAnd(BLANK, x) = x
      BY <1>5, FlasherAssumption
    <2> QED BY <1>5, <1>6, <2>2, <2>3, <2>4
  <1>8. ~fault' => \A a \in Launcher : rom'[a] = IF a < cpu.at + 1 THEN ext[a] ELSE BLANK
    <2>1. SUFFICES ASSUME ~fault', NEW a \in Launcher
                   PROVE  rom'[a] = IF a < cpu.at + 1 THEN ext[a] ELSE BLANK
      OBVIOUS
    <2>2. a \in Cells /\ a \in Nat /\ cpu.at \in Nat
      BY <1>2, Sizes DEF Launcher, CpuStates
    <2>3. rom[a] = IF a < cpu.at THEN ext[a] ELSE BLANK
      BY <1>1, <1>7, <2>1 DEF FlasherIInv, Progress
    <2>4. CASE a = cpu.at
      BY <1>7, <2>1, <2>2, <2>4
    <2>5. CASE a # cpu.at
      BY <1>6, <2>2, <2>3, <2>5
    <2> QED BY <2>4, <2>5
  <1>9. CASE cpu.at + 1 < CopySize
    <2>1. cpu' = [cpu EXCEPT !.at = cpu.at + 1]
      BY <1>9 DEF CopyByte
    <2>2. cpu'.pc = "copy" /\ cpu'.at = cpu.at + 1 /\ cpu'.c = 0 /\ cpu'.at < 2 * SECTOR
      BY <1>1, <1>2, <1>9, <2>1 DEF CopySize
    <2>3. cpu.at + 1 \in 0 .. PAGES * SECTOR
      BY <1>2, <2>2, Sizes DEF CpuStates
    <2>4. FlasherTypeOK'
      <3>1. cpu' \in CpuStates
        BY <1>2, <2>1, <2>3 DEF CpuStates
      <3> QED BY <1>1, <1>6, <3>1 DEF FlasherIInv, FlasherTypeOK, CpuStates
    <2>5. Progress'
      BY <1>1, <1>7, <1>8, <2>2 DEF Progress
    <2> QED BY <1>1, <2>2, <2>4, <2>5 DEF FlasherIInv, WithinBounds, ChecksumsMade
  <1>10. CASE ~(cpu.at + 1 < CopySize)
    <2>1. cpu' = [cpu EXCEPT !.pc = "crc", !.at = 0]
      BY <1>10 DEF CopyByte
    <2>2. cpu'.pc = "crc" /\ cpu'.at = 0 /\ cpu'.c = 0
      BY <1>1, <1>2, <2>1
    <2>3. FlasherTypeOK'
      <3>1. cpu' \in CpuStates
        BY <1>2, <2>1, SmallNumbers DEF CpuStates
      <3> QED BY <1>1, <1>6, <3>1 DEF FlasherIInv, FlasherTypeOK, CpuStates
    <2>4. \A a \in Launcher : a < cpu.at + 1
      BY <1>2, <1>10, Sizes DEF Launcher, CopySize, CpuStates
    <2>5. Progress'
      BY <1>1, <1>7, <1>8, <2>2, <2>4 DEF Progress
    <2>6. 0 \in 0 .. PAGES - 1 /\ 0 = 0 * SECTOR /\ 0 = 2 * 0
      BY Sizes
    <2>7. WithinBounds'
      BY <2>2, <2>6 DEF WithinBounds
    <2> QED BY <1>1, <2>2, <2>3, <2>5, <2>7 DEF FlasherIInv, ChecksumsMade
  <1> QED BY <1>9, <1>10

\* The page at hand is that of the ROM, unless the chip is wiping.
LEMMA PageRead ==
    ASSUME FlasherIInv, cpu.pc = "crc", NEW s \in 0 .. 1, cpu.at = s * SECTOR
    PROVE  LET page == [i \in 0 .. SECTOR - 1 |-> ReadInternal(cpu.at + i)]
           IN  \/ page = RomPage(s) /\ wiping = NoSector
               \/ page = StatusPage /\ fault
  <1>1. CASE wiping = NoSector
    BY <1>1 DEF ReadInternal, sst39sfrecv_internal, RomPage
  <1>2. CASE wiping # NoSector
    <2>1. fault
      BY <1>2 DEF FlasherIInv, Progress, FlasherTypeOK
    <2> QED BY <1>2, <2>1 DEF ReadInternal, sst39sfrecv_internal, StatusPage
  <1> QED BY <1>1, <1>2

LEMMA SumPageKeeps ==
    ASSUME FlasherIInv, SumPage
    PROVE  FlasherIInv'
  <1> DEFINE page == [i \in 0 .. SECTOR - 1 |-> ReadInternal(cpu.at + i)]
  <1>1. PICK k \in 0 .. PAGES - 1 : cpu.at = k * SECTOR /\ cpu.c = 2 * k
    BY DEF SumPage, FlasherIInv, WithinBounds
  <1>2. /\ cpu.pc = "crc" /\ shown = <<>>
        /\ high' = [high EXCEPT ![cpu.c] = Crc(page, "d"), ![cpu.c + 1] = Crc(page, "e")]
        /\ UNCHANGED <<ext, slot, rom, wiping, shown, fault>>
    BY DEF SumPage, FlasherIInv, ChecksumsMade
  <1>3. k = 0 \/ k = 1 =>
            \/ page = RomPage(k) /\ wiping = NoSector
            \/ page = StatusPage /\ fault
    BY <1>1, <1>2, PageRead
  <1> HIDE DEF page
  <1>4. cpu \in CpuStates
        /\ DOMAIN high = 0 .. 2 * PAGES - 1
    BY DEF FlasherIInv, FlasherTypeOK, CpuStates
  <1>5. /\ k \in Nat /\ k < PAGES /\ PAGES \in Nat /\ PAGES >= 2
        /\ DOMAIN high' = 0 .. 2 * PAGES - 1
        /\ high'[2 * k] = Crc(page, "d") /\ high'[2 * k + 1] = Crc(page, "e")
        /\ \A i \in 0 .. 2 * PAGES - 1 : i # 2 * k /\ i # 2 * k + 1 => high'[i] = high[i]
    <2>1. k \in Nat /\ k < PAGES /\ PAGES \in Nat /\ PAGES >= 2
      BY Sizes
    <2>2. 2 * k \in 0 .. 2 * PAGES - 1 /\ 2 * k + 1 \in 0 .. 2 * PAGES - 1
      BY <2>1
    <2> QED BY <1>1, <1>2, <1>4, <2>1, <2>2
  <1>6. ASSUME NEW s \in 0 .. 1, s <= k
        PROVE  SummedUp(s)'
    <2>1. CASE s = k
      <3>1. RomPage(s)' = RomPage(s) /\ StatusPage' = StatusPage
        BY <1>2 DEF RomPage, StatusPage
      <3> QED BY <1>2, <1>3, <1>5, <1>6, <2>1, <3>1 DEF SummedUp
    <2>2. CASE s < k
      <3>1. SummedUp(s)
        BY <1>1, <1>2, <1>5, <2>2 DEF FlasherIInv, ChecksumsMade
      <3>2. high'[2 * s] = high[2 * s] /\ high'[2 * s + 1] = high[2 * s + 1]
        <4>1. /\ 2 * s \in 0 .. 2 * PAGES - 1 /\ 2 * s # 2 * k /\ 2 * s # 2 * k + 1
              /\ 2 * s + 1 \in 0 .. 2 * PAGES - 1 /\ 2 * s + 1 # 2 * k /\ 2 * s + 1 # 2 * k + 1
          BY <1>5, <2>2
        <4> QED BY <1>5, <4>1
      <3>3. RomPage(s)' = RomPage(s) /\ StatusPage' = StatusPage
        BY <1>2 DEF RomPage, StatusPage
      <3> QED BY <1>2, <3>1, <3>2, <3>3 DEF SummedUp
    <2> QED BY <1>5, <1>6, <2>1, <2>2
  <1>7. CASE cpu.at + SECTOR < PAGES * SECTOR
    <2>1. cpu' = [cpu EXCEPT !.at = cpu.at + SECTOR, !.c = cpu.c + 2]
      BY <1>7 DEF SumPage, BothBytes
    <2>2. k + 1 \in 0 .. PAGES - 1 /\ cpu.at + SECTOR = (k + 1) * SECTOR
          /\ cpu.c + 2 = 2 * (k + 1)
      BY <1>1, <1>5, <1>7, Sectors
    <2>3. cpu'.pc = "crc" /\ cpu'.at = (k + 1) * SECTOR /\ cpu'.c = 2 * (k + 1)
      BY <1>2, <1>4, <2>1, <2>2
    <2>4. cpu.at + SECTOR \in 0 .. PAGES * SECTOR /\ cpu.c + 2 \in 0 .. 2 * PAGES
      BY <1>4, <1>5, <1>7, <2>2, Sizes
    <2>5. FlasherTypeOK'
      <3>1. cpu' \in CpuStates
        BY <1>4, <2>1, <2>4 DEF CpuStates
      <3> QED BY <1>2, <1>5, <3>1 DEF FlasherIInv, FlasherTypeOK, CpuStates
    <2>6. WithinBounds'
      BY <2>2, <2>3 DEF WithinBounds
    <2>7. Progress'
      BY <1>2, <2>3 DEF FlasherIInv, Progress
    <2>8. ChecksumsMade'
      BY <1>2, <1>5, <1>6, <2>3 DEF ChecksumsMade
    <2> QED BY <2>5, <2>6, <2>7, <2>8 DEF FlasherIInv
  <1>8. CASE ~(cpu.at + SECTOR < PAGES * SECTOR)
    <2>1. cpu' = [cpu EXCEPT !.pc = "show", !.at = 0, !.c = 0]
      BY <1>8 DEF SumPage
    <2>2. cpu'.pc = "show" /\ cpu'.at = 0 /\ cpu'.c = 0
      BY <1>4, <2>1
    <2>3. k >= 1
      <3>1. k + 1 = PAGES
        BY <1>1, <1>4, <1>8, Sectors, Sizes
      <3> QED BY <1>5, <3>1
    <2>4. FlasherTypeOK'
      <3>1. cpu' \in CpuStates
        BY <1>4, <2>1, SmallNumbers DEF CpuStates
      <3> QED BY <1>2, <1>5, <3>1 DEF FlasherIInv, FlasherTypeOK, CpuStates
    <2>5. Progress'
      BY <1>2, <2>2 DEF FlasherIInv, Progress
    <2>6. ChecksumsMade'
      BY <1>2, <1>5, <1>6, <2>2, <2>3 DEF ChecksumsMade
    <2> QED BY <2>2, <2>4, <2>5, <2>6 DEF FlasherIInv, WithinBounds
  <1> QED BY <1>7, <1>8

LEMMA ShowKeeps ==
    ASSUME FlasherIInv, Show
    PROVE  FlasherIInv'
  <1>1. /\ cpu.pc = "show" /\ cpu' = [cpu EXCEPT !.pc = "done"]
        /\ shown' = <<high[0], high[1], high[2], high[3]>>
        /\ UNCHANGED <<ext, slot, rom, wiping, high, fault>>
    BY DEF Show
  <1>2. cpu'.pc = "done" /\ cpu'.c = 0
    BY <1>1 DEF FlasherIInv, FlasherTypeOK, WithinBounds
  <1>3. FlasherTypeOK'
    BY <1>1 DEF FlasherIInv, FlasherTypeOK
  <1>4. SummedUp(0)' /\ SummedUp(1)'
    BY <1>1 DEF FlasherIInv, ChecksumsMade, SummedUp, RomPage, StatusPage
  <1> QED BY <1>1, <1>2, <1>3, <1>4
       DEF FlasherIInv, WithinBounds, Progress, ChecksumsMade

LEMMA WipeDoneKeeps ==
    ASSUME FlasherIInv, WipeDone
    PROVE  FlasherIInv'
  <1>1. /\ wiping \in 0 .. 1 /\ wiping' = NoSector
        /\ rom' = [a \in Cells |-> IF a \in SectorAt(wiping) THEN BLANK ELSE rom[a]]
        /\ UNCHANGED <<ext, slot, cpu, high, shown, fault>>
    BY DEF WipeDone, FlasherIInv, FlasherTypeOK
  <1>2. FlasherTypeOK'
    BY <1>1, FlasherAssumption DEF FlasherIInv, FlasherTypeOK
  <1>3. WithinBounds'
    BY <1>1, Sizes DEF FlasherIInv, WithinBounds
  <1>4. Progress'
    <2>1. SUFFICES ASSUME ~fault PROVE Progress'
      BY <1>1 DEF Progress
    <2>2. cpu.pc = "poll" /\ wiping = cpu.at
      BY <1>1, <2>1, Sizes DEF FlasherIInv, Progress
    <2>3. Wiped(cpu.at)'
      BY <1>1, <2>2, Sizes DEF Wiped
    <2>4. cpu.at = 1 => Wiped(0)'
      BY <1>1, <2>1, <2>2, Sizes DEF FlasherIInv, Progress, Wiped
    <2> QED BY <1>1, <2>2, <2>3, <2>4 DEF Progress
  <1>5. ASSUME NEW s \in 0 .. 1, SummedUp(s)
        PROVE  SummedUp(s)'
    <2>1. wiping # NoSector
      BY <1>1, Sizes
    <2>2. /\ high[2 * s] = Crc(StatusPage, "d") /\ high[2 * s + 1] = Crc(StatusPage, "e")
          /\ fault
      BY <1>5, <2>1 DEF SummedUp
    <2> QED BY <1>1, <2>2 DEF SummedUp, StatusPage
  <1>6. ChecksumsMade'
    BY <1>1, <1>5 DEF FlasherIInv, ChecksumsMade
  <1> QED BY <1>2, <1>3, <1>4, <1>6 DEF FlasherIInv

LEMMA PowerCutKeeps ==
    ASSUME FlasherIInv, PowerCut
    PROVE  FlasherIInv'
  <1>1. /\ wiping' = NoSector /\ ext' \in Images /\ slot' = TRUE
        /\ cpu' = Waiting /\ high' = NoBytes /\ shown' = <<>> /\ fault' = FALSE
    BY DEF PowerCut
  <1>2. rom' \in [Cells -> Byte]
    BY FlasherAssumption DEF PowerCut, FlasherIInv, FlasherTypeOK
  <1>3. FlasherTypeOK'
    BY <1>1, <1>2, SmallNumbers, NoBytesTyped DEF FlasherTypeOK, CpuStates
  <1> QED BY <1>1, <1>3 DEF Waiting, FlasherIInv, WithinBounds, Progress, ChecksumsMade

LEMMA FlasherStepInv == FlasherIInv /\ [FlasherNext]_flasherVars => FlasherIInv'
  <1> SUFFICES ASSUME FlasherIInv, [FlasherNext]_flasherVars PROVE FlasherIInv'
    OBVIOUS
  <1>1. CASE Pull
    <2>1. slot' \in BOOLEAN /\ UNCHANGED <<ext, rom, wiping, cpu, high, shown, fault>>
      BY <1>1 DEF Pull
    <2> QED BY <2>1 DEF FlasherIInv, FlasherTypeOK, WithinBounds, Progress, Wiped,
                       ChecksumsMade, SummedUp, RomPage, StatusPage
  <1>2. CASE UNCHANGED flasherVars
    <2>1. UNCHANGED <<ext, slot, rom, wiping, cpu, high, shown, fault>>
      BY <1>2 DEF flasherVars
    <2> QED BY <2>1 DEF FlasherIInv, FlasherTypeOK, WithinBounds, Progress, Wiped,
                       ChecksumsMade, SummedUp, RomPage, StatusPage
  <1> QED BY <1>1, <1>2, StartKeeps, SendWipeKeeps, PollKeeps, CopyByteKeeps, SumPageKeeps,
             ShowKeeps, WipeDoneKeeps, PowerCutKeeps DEF FlasherNext, CpuSteps

-----------------------------------------------------------------------------
(***************************************************************************)
(* Theorems.                                                               *)
(***************************************************************************)
\* The invariant holds of every state, whatever mishap there is and whenever
\* power is lost.
THEOREM FlasherInvariance == FlasherSpec => []FlasherIInv
  BY FlasherInitInv, FlasherStepInv, PTL DEF FlasherSpec

\* The flasher keeps within the chip and within its 16 checksum bytes
\* (calculatecrc16 in copy.asm 59-94).
THEOREM FlasherTyped == FlasherSpec => []FlasherTypeOK
  <1>1. FlasherIInv => FlasherTypeOK
    BY DEF FlasherIInv
  <1> QED BY <1>1, FlasherInvariance, PTL

\* What a sum says of a sector of the launcher.
LEMMA SumTells ==
    ASSUME NEW s \in 0 .. 1, SummedUp(s), NEW image \in Images,
           high[2 * s] = Crc([i \in 0 .. SECTOR - 1 |-> image[s * SECTOR + i]], "d")
    PROVE  \A a \in SectorAt(s) : rom[a] = image[a]
  <1> DEFINE page == [i \in 0 .. SECTOR - 1 |-> image[s * SECTOR + i]]
  <1>0. page = RomPage(s) \/ page = StatusPage
    BY DEF SummedUp, Crc
  <1>1. \A a \in SectorAt(s) : a - s * SECTOR \in 0 .. SECTOR - 1
                               /\ s * SECTOR + (a - s * SECTOR) = a
    <2>1. s = 0 \/ s = 1
      OBVIOUS
    <2> QED BY <2>1, Sizes
  <1>2. \A a \in SectorAt(s) : page[a - s * SECTOR] = image[a]
    BY <1>1
  <1> HIDE DEF page
  <1>3. page # StatusPage
    BY <1>1, <1>2, FlasherAssumption DEF StatusPage
  <1>4. \A a \in SectorAt(s) : RomPage(s)[a - s * SECTOR] = rom[a]
    BY <1>1 DEF RomPage
  <1> QED BY <1>0, <1>2, <1>3, <1>4

\* Checksums as expected tell that the launcher is in the ROM, whatever went
\* wrong before (main 64-81, _calculatecrc16).
THEOREM ShownTells == FlasherSpec => []ShownIsThere
  <1>1. FlasherIInv => ShownIsThere
    <2> SUFFICES ASSUME FlasherIInv, NEW image \in Images, shown = Expected(image)
                 PROVE  \A a \in Launcher : rom[a] = image[a]
      BY DEF ShownIsThere
    <2>1. cpu.pc = "done" /\ shown = <<high[0], high[1], high[2], high[3]>>
      BY DEF FlasherIInv, ChecksumsMade, Expected
    <2>2. /\ high[0] = Crc([i \in 0 .. SECTOR - 1 |-> image[0 * SECTOR + i]], "d")
          /\ high[2] = Crc([i \in 0 .. SECTOR - 1 |-> image[1 * SECTOR + i]], "d")
      BY <2>1 DEF Expected
    <2>3. SummedUp(0) /\ SummedUp(1)
      BY <2>1 DEF FlasherIInv, ChecksumsMade
    <2>4. \A a \in SectorAt(0) : rom[a] = image[a]
      <3>1. high[2 * 0] = Crc([i \in 0 .. SECTOR - 1 |-> image[0 * SECTOR + i]], "d")
        BY <2>2
      <3>2. 0 \in 0 .. 1
        OBVIOUS
      <3> QED BY <2>3, <3>1, <3>2, SumTells
    <2>5. \A a \in SectorAt(1) : rom[a] = image[a]
      <3>1. high[2 * 1] = Crc([i \in 0 .. SECTOR - 1 |-> image[1 * SECTOR + i]], "d")
        BY <2>2
      <3>2. 1 \in 0 .. 1
        OBVIOUS
      <3> QED BY <2>3, <3>1, <3>2, SumTells
    <2> QED BY <2>4, <2>5, Sizes
  <1> QED BY <1>1, FlasherInvariance, PTL

\* A run without mishap ends with the checksums expected, whatever an attempt
\* before it has left (main 38-81).
THEOREM RunEndsWell == FlasherSpec => []RunRepairs
  <1>1. FlasherIInv => RunRepairs
    <2> SUFFICES ASSUME FlasherIInv, cpu.pc = "done", ~fault
                 PROVE  shown = Expected(ext)
      BY DEF RunRepairs
    <2>1. /\ shown = <<high[0], high[1], high[2], high[3]>>
          /\ SummedUp(0) /\ SummedUp(1)
          /\ \A a \in Launcher : rom[a] = ext[a]
      BY DEF FlasherIInv, ChecksumsMade, Progress
    <2>2. /\ high[0] = Crc(RomPage(0), "d") /\ high[1] = Crc(RomPage(0), "e")
          /\ high[2] = Crc(RomPage(1), "d") /\ high[3] = Crc(RomPage(1), "e")
      BY <2>1 DEF SummedUp
    <2>3. \A i \in 0 .. SECTOR - 1 : 0 * SECTOR + i \in Launcher /\ 1 * SECTOR + i \in Launcher
      BY Sizes DEF Launcher
    <2>4. /\ RomPage(0) = [i \in 0 .. SECTOR - 1 |-> ext[0 * SECTOR + i]]
          /\ RomPage(1) = [i \in 0 .. SECTOR - 1 |-> ext[1 * SECTOR + i]]
      BY <2>1, <2>3 DEF RomPage
    <2> QED BY <2>1, <2>2, <2>4 DEF Expected
  <1> QED BY <1>1, FlasherInvariance, PTL

\* No step touches the ROM beyond the two sectors, a wipe cut short included
\* (_copyfirsttwosectors 17-34, main 38-48).
THEOREM RestIsKept == FlasherSpec => RestKept
  <1>1. FlasherIInv /\ [FlasherNext]_flasherVars
            => [\A a \in Cells \ Launcher : rom'[a] = rom[a]]_flasherVars
    <2> SUFFICES ASSUME FlasherIInv, FlasherNext, NEW a \in Cells \ Launcher
                 PROVE  rom'[a] = rom[a]
      OBVIOUS
    <2>1. rom \in [Cells -> Byte] /\ wiping \in {NoSector} \cup 0 .. 1
      BY DEF FlasherIInv, FlasherTypeOK
    <2>2. wiping # NoSector => a \notin SectorAt(wiping)
      BY <2>1, Sizes
    <2>3. CASE CopyByte
      <3>1. cpu.at \in Launcher
        BY <2>3, Sizes DEF CopyByte, FlasherIInv, WithinBounds, FlasherTypeOK, Launcher
      <3> QED BY <2>1, <2>3, <3>1 DEF CopyByte, sst39sfwrbyte_internal
    <2>4. CASE WipeDone \/ PowerCut
      BY <2>2, <2>4 DEF WipeDone, PowerCut
    <2>5. CASE Start \/ SendWipe \/ Poll \/ SumPage \/ Show \/ Pull
      BY <2>5 DEF Start, SendWipe, Poll, SumPage, Show, Pull
    <2> QED BY <2>3, <2>4, <2>5 DEF FlasherNext, CpuSteps
  <1> QED BY <1>1, FlasherInvariance, PTL DEF FlasherSpec, RestKept

-----------------------------------------------------------------------------
(***************************************************************************)
(* The checksum it shows: whatever the data and its length, the programs   *)
(* for CRC16 agree.                                                        *)
(***************************************************************************)
\* The sixteen bits the Z80 works on: a holds the upper byte during a byte.
Working == High(z80.a) \cup z80.e

\* Between any two rounds the GUI's crc has the sixteen bits of the script's,
\* below bits of its own that it never looks at, and so have the registers.
SameBits == /\ GuiChecksum = script
            /\ count = 0 \/ Working = script
            /\ round = 8 => Z80Checksum = script
            /\ round < 8 => count # 0

ChecksumsIInv == ChecksumsTypeOK /\ SameBits

\* A round of the GUI is one of the script on the lower sixteen bits.
LEMMA GuiRoundIsScriptRound ==
    ASSUME NEW crc \in SUBSET Bits(32)
    PROVE  /\ GuiRound(crc) \in SUBSET Bits(32)
           /\ GuiRound(crc) \cap Bits(16) = ScriptRound(crc \cap Bits(16))
  <1> DEFINE low == crc \cap Bits(16)
             s == Shift(crc, 32)
             t == Shift(low, 17)
  <1>1. s \cap Bits(17) = t
    BY DEF Shift, Bits
  <1>2. s \in SUBSET Bits(32)
    BY DEF Shift, Bits
  <1>3. 16 \in s <=> 16 \in t
    BY <1>1 DEF Bits
  <1> HIDE DEF s, t
  <1>4. CASE 16 \in t
    <2>1. Xor(s, Poly) \cap Bits(16) = Xor(t, Poly) \cap Bits(16)
      BY <1>1 DEF Xor, Bits
    <2>2. Xor(s, Poly) \cap Bits(16) \in SUBSET Bits(32)
      BY DEF Bits
    <2>3. QED
      BY <1>3, <1>4, <2>1, <2>2 DEF GuiRound, ScriptRound, s, t, Bits
  <1>5. CASE 16 \notin t
    <2>1. s \cap Bits(16) = t
      <3>1. t \subseteq Bits(17)
        BY DEF t, Shift
      <3>2. QED
        BY <1>1, <1>5, <3>1 DEF Bits
    <2>2. QED
      BY <1>2, <1>3, <1>5, <2>1 DEF GuiRound, ScriptRound, s, t
  <1>6. QED
    BY <1>4, <1>5

\* A round of the script stays within sixteen bits.
LEMMA ScriptRoundType ==
    ASSUME NEW crc \in SUBSET Bits(16)
    PROVE  ScriptRound(crc) \in SUBSET Bits(16)
  <1>1. CASE 16 \in Shift(crc, 17)
    BY <1>1 DEF ScriptRound
  <1>2. CASE 16 \notin Shift(crc, 17)
    BY <1>2 DEF ScriptRound, Shift, Bits
  <1>3. QED
    BY <1>1, <1>2

\* A round of the registers is one of the script on the bits they hold.
LEMMA Z80RoundIsScriptRound ==
    ASSUME NEW z \in Z80Crc
    PROVE  /\ Z80Round(z) \in Z80Crc
           /\ High(Z80Round(z).a) \cup Z80Round(z).e = ScriptRound(High(z.a) \cup z.e)
  <1> DEFINE t == Shift(High(z.a) \cup z.e, 17)
             a == RotatedA(z)
             e == Shift(z.e, 8)
  <1>0. z.a \in SUBSET Bits(8) /\ z.d \in SUBSET Bits(8) /\ z.e \in SUBSET Bits(8)
    BY DEF Z80Crc
  <1>1. a \in SUBSET Bits(8) /\ e \in SUBSET Bits(8)
    BY <1>0 DEF RotatedA, Shift, Bits
  <1>2. 16 \in t <=> 7 \in z.a
    BY <1>0 DEF Shift, High, Bits
  <1>3. t \cap Bits(16) = High(a) \cup e
    BY <1>0 DEF RotatedA, Shift, High, Bits
  <1>4. t \in SUBSET Bits(17)
    BY DEF Shift
  <1> HIDE DEF t, a, e
  <1>5. CASE 7 \in z.a
    <2>1. Z80Round(z) = [a |-> Xor(a, {4}), d |-> a, e |-> Xor(e, {0, 5})]
      BY <1>5 DEF Z80Round, a, e
    <2>2. Xor(a, {4}) \in SUBSET Bits(8) /\ Xor(e, {0, 5}) \in SUBSET Bits(8)
      BY <1>1 DEF Xor, Bits
    <2>3. High(Xor(a, {4})) \cup Xor(e, {0, 5}) = Xor(t, Poly) \cap Bits(16)
      BY <1>1, <1>3, <1>4 DEF Xor, High, Poly, Bits
    <2>4. ScriptRound(High(z.a) \cup z.e) = Xor(t, Poly) \cap Bits(16)
      BY <1>2, <1>5 DEF ScriptRound, t
    <2>5. Z80Round(z) \in Z80Crc
      BY <1>1, <2>1, <2>2 DEF Z80Crc
    <2>6. QED
      BY <2>1, <2>3, <2>4, <2>5
  <1>6. CASE 7 \notin z.a
    <2>1. Z80Round(z) = [a |-> a, d |-> z.d, e |-> e]
      BY <1>6 DEF Z80Round, a, e
    <2>2. t = High(a) \cup e
      <3>1. 16 \notin t
        BY <1>2, <1>6
      <3>2. ASSUME NEW i \in t PROVE i \in Bits(16)
        <4>1. i \in 0 .. 16 /\ i # 16
          BY <1>4, <3>1, <3>2 DEF Bits
        <4>2. QED
          BY <4>1 DEF Bits
      <3>3. t \cap Bits(16) = t
        BY <3>2
      <3>4. QED
        BY <1>3, <3>3
    <2>3. QED
      BY <1>0, <1>1, <1>2, <1>6, <2>1, <2>2 DEF Z80Crc, ScriptRound, t
  <1>7. QED
    BY <1>5, <1>6

LEMMA ChecksumsInitInv == ChecksumsInit => ChecksumsIInv
  <1> SUFFICES ASSUME ChecksumsInit PROVE ChecksumsIInv
    OBVIOUS
  <1>1. ChecksumsTypeOK
    BY ChecksumsAssumption DEF ChecksumsInit, ChecksumsTypeOK, Z80Crc, Bits
  <1>2. SameBits
    BY DEF ChecksumsInit, SameBits, GuiChecksum, Z80Checksum, High, Bits
  <1>3. QED
    BY <1>1, <1>2 DEF ChecksumsIInv

LEMMA FetchInv ==
    ASSUME ChecksumsIInv, NEW b \in Bytes, Fetch(b)
    PROVE  ChecksumsIInv'
  <1>1. /\ b \in SUBSET Bits(8)
        /\ z80 \in Z80Crc /\ z80.d \in SUBSET Bits(8) /\ z80.e \in SUBSET Bits(8)
        /\ script \in SUBSET Bits(16) /\ gui \in SUBSET Bits(32)
        /\ gui \cap Bits(16) = script /\ High(z80.d) \cup z80.e = script
        /\ count \in 0 .. LENGTH /\ count < LENGTH
    BY ChecksumsAssumption
       DEF ChecksumsIInv, ChecksumsTypeOK, SameBits, GuiChecksum, Z80Checksum,
           Fetch, Z80Crc
  <1>2. /\ gui' = Xor(gui, Signed(b)) /\ script' = Xor(script, High(b))
        /\ z80' = [z80 EXCEPT !.a = Xor(b, z80.d)]
        /\ count' = count + 1 /\ round' = 0
    BY DEF Fetch
  <1>3. gui' \in SUBSET Bits(32) /\ gui' \cap Bits(16) = script'
    <2>1. Signed(b) \in SUBSET Bits(32) /\ Signed(b) \cap Bits(16) = High(b)
      BY DEF Signed, High, Bits
    <2>2. QED
      BY <1>1, <1>2, <2>1 DEF Xor
  <1>4. script' \in SUBSET Bits(16)
    BY <1>1, <1>2 DEF Xor, High, Bits
  <1>5. /\ z80' \in Z80Crc
        /\ z80'.a = Xor(b, z80.d) /\ z80'.e = z80.e
    <2>1. Xor(b, z80.d) \in SUBSET Bits(8)
      BY <1>1 DEF Xor
    <2>2. QED
      BY <1>1, <1>2, <2>1 DEF Z80Crc
  <1>6. High(Xor(b, z80.d)) \cup z80.e = Xor(High(z80.d) \cup z80.e, High(b))
    BY <1>1 DEF Xor, High, Bits
  <1>7. High(z80'.a) \cup z80'.e = script'
    BY <1>1, <1>2, <1>5, <1>6
  <1>8. ChecksumsTypeOK'
    BY <1>1, <1>2, <1>3, <1>4, <1>5, ChecksumsAssumption DEF ChecksumsTypeOK
  <1>9. SameBits'
    BY <1>1, <1>2, <1>3, <1>7 DEF SameBits, GuiChecksum, Working
  <1>10. QED
    BY <1>8, <1>9 DEF ChecksumsIInv

LEMMA RoundInv ==
    ASSUME ChecksumsIInv, Round
    PROVE  ChecksumsIInv'
  <1> DEFINE z == Z80Round(z80)
  <1>1. /\ gui \in SUBSET Bits(32) /\ script \in SUBSET Bits(16) /\ z80 \in Z80Crc
        /\ round \in 0 .. 8 /\ round < 8 /\ count \in 0 .. LENGTH /\ count # 0
        /\ gui \cap Bits(16) = script /\ High(z80.a) \cup z80.e = script
    BY DEF ChecksumsIInv, ChecksumsTypeOK, SameBits, GuiChecksum, Working, Round
  <1>2. /\ gui' = GuiRound(gui) /\ script' = ScriptRound(script)
        /\ z80' = Stored(z)
        /\ round' = round + 1 /\ count' = count
    BY DEF Round
  <1>3. gui' \in SUBSET Bits(32) /\ gui' \cap Bits(16) = script'
    BY <1>1, <1>2, GuiRoundIsScriptRound
  <1>4. script' \in SUBSET Bits(16)
    BY <1>1, <1>2, ScriptRoundType
  <1>5. z \in Z80Crc /\ High(z.a) \cup z.e = script'
    BY <1>1, <1>2, Z80RoundIsScriptRound
  <1> HIDE DEF z
  <1>6. /\ z80' \in Z80Crc /\ z80'.a = z.a /\ z80'.e = z.e
        /\ round = 7 => z80'.d = z.a
    BY <1>2, <1>5 DEF Stored, Z80Crc
  <1>7. ChecksumsTypeOK'
    BY <1>1, <1>2, <1>3, <1>4, <1>6 DEF ChecksumsTypeOK
  <1>8. SameBits'
    BY <1>1, <1>2, <1>3, <1>5, <1>6 DEF SameBits, GuiChecksum, Working, Z80Checksum
  <1>9. QED
    BY <1>7, <1>8 DEF ChecksumsIInv

LEMMA ChecksumsStepInv == ChecksumsIInv /\ [ChecksumsNext]_checksumVars => ChecksumsIInv'
  <1> SUFFICES ASSUME ChecksumsIInv, [ChecksumsNext]_checksumVars PROVE ChecksumsIInv'
    OBVIOUS
  <1>1. CASE \E b \in Bytes : Fetch(b)
    BY <1>1, FetchInv
  <1>2. CASE Round
    BY <1>2, RoundInv
  <1>3. CASE UNCHANGED checksumVars
    BY <1>3 DEF checksumVars, ChecksumsIInv, ChecksumsTypeOK, SameBits, GuiChecksum,
                Working, Z80Checksum
  <1>4. QED
    BY <1>1, <1>2, <1>3 DEF ChecksumsNext

\* The programs of the GUI, the P2000T and the scripts give the same checksum
\* for every sequence of bytes of every length.
THEOREM ChecksumsAgree == ChecksumsSpec => []SameChecksum
  <1>1. ChecksumsIInv => SameChecksum
    BY DEF ChecksumsIInv, SameBits, SameChecksum
  <1>2. QED
    BY <1>1, ChecksumsInitInv, ChecksumsStepInv, PTL DEF ChecksumsSpec

\* The crc of the script never grows beyond sixteen bits, nor the registers
\* beyond eight.
THEOREM ChecksumsTyped == ChecksumsSpec => []ChecksumsTypeOK
  <1>1. ChecksumsIInv => ChecksumsTypeOK
    BY DEF ChecksumsIInv
  <1>2. QED
    BY <1>1, ChecksumsInitInv, ChecksumsStepInv, PTL DEF ChecksumsSpec
=============================================================================
