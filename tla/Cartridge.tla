----------------------------- MODULE Cartridge -----------------------------
(***************************************************************************)
(* What the bytes of a cartridge mean to whoever reads them afresh: the    *)
(* files on it, as build_linked_list follows them.                         *)
(***************************************************************************)
EXTENDS RomFat

\* The blocks linked from l; longer than the chip has blocks if cyclic.
ChainOf(rom, l) ==
    LET walk[n \in 0 .. NBANKS * NBLOCKS] ==
            IF n = 0 THEN <<l>>
            ELSE LET s == walk[n - 1]
                     k == rom[NextCell(s[Len(s)])]
                 IN  IF Len(s) = n /\ k # NoLoc THEN Append(s, k) ELSE s
    IN  walk[NBANKS * NBLOCKS]

BlocksOf(rom, l) == LET s == ChainOf(rom, l) IN {s[i] : i \in DOMAIN s}

Good(rom, l, i, n) == /\ rom[UsedCell(l)] = USED
                      /\ rom[CrcCell(l)] = Crc16(rom[DataCell(l)])
                      /\ rom[HdrCell(l)] = (i - 1) + 256 * n

\* A file that reads back: its chain ends, and every block is marked used,
\* numbered, and matches its checksum.
Sound(rom, l) ==
    LET s == ChainOf(rom, l)
    IN  /\ Len(s) <= NBANKS * NBLOCKS
        /\ \A i \in DOMAIN s : Good(rom, s[i], i, Len(s))

FilesOn(rom) ==
    [l \in {l \in Starts(rom) : Sound(rom, l)} |->
        LET s == ChainOf(rom, l) IN [i \in DOMAIN s |-> rom[DataCell(s[i])]]]

Formatted(rom) == \A l \in Locs : rom[FmtCell(l)] = FORMATTED

\* Every file listed reads back and no two share a block.
AllFilesSound(rom) ==
    /\ \A l \in Starts(rom) : Sound(rom, l)
    /\ \A l, k \in Starts(rom) :
          l # k => BlocksOf(rom, l) \cap BlocksOf(rom, k) = {}

\* Every block is either part of a file, or free and erased: none is lost,
\* and a block is ready to be programmed when it is free.
AllBlocksAccounted(rom) ==
    \A l \in Locs :
        \/ \E k \in Starts(rom) : l \in BlocksOf(rom, k)
        \/ /\ rom[UsedCell(l)] = ERASED
           /\ rom[NextCell(l)] = ERASED
           /\ rom[CrcCell(l)] = ERASED
           /\ rom[HdrCell(l)] = ERASED
           /\ rom[DataCell(l)] = ERASED
=============================================================================
