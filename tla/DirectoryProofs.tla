-------------------------- MODULE DirectoryProofs --------------------------
(***************************************************************************)
(* Theorems about the directory a cartridge holds: what add_file,          *)
(* delete_file and the synchronization after them leave on the chip is     *)
(* sound, for chips and programs of every size.  The chip as the cache     *)
(* would leave it (Target) is a directory in order whenever the GUI is not *)
(* in the middle of an operation; in the middle of one it is a directory   *)
(* with one file being linked (Growing) or one being wiped (Shrinking).    *)
(* What it holds is also compared with what it held when the task began:   *)
(* the same files, one more, all but one, or none (HistInv).               *)
(***************************************************************************)
EXTENDS TapeMonitorProofs, TapeMonitorHistory

-----------------------------------------------------------------------------
(***************************************************************************)
(* Preambles.                                                              *)
(***************************************************************************)
\* Nothing follows the first 0xFF of a preamble.
PreambleEnds(rom) ==
    \A b \in Bank : \A i, j \in Slot :
        i < j /\ rom[PreCell(b, i)] = ERASED => rom[PreCell(b, j)] = ERASED

\* No block is named twice.
NamedOnce(rom) ==
    \A b \in Bank : \A i, j \in Slot :
        rom[PreCell(b, i)] # ERASED /\ rom[PreCell(b, i)] = rom[PreCell(b, j)] => i = j

\* Chip new has the preambles of rom, but for entry i of bank b.
EntryChanged(rom, new, b, i) ==
    \A c \in Bank, j \in Slot : c # b \/ j # i => new[PreCell(c, j)] = rom[PreCell(c, j)]

LEMMA LocIsBoth ==
    ASSUME NEW l \in Locs
    PROVE  Loc(BankOf(l), BlockOf(l)) = l
<1>1. PICK b \in Bank, k \in Block : l = Loc(b, k)
  BY DEF Locs
<1> QED BY <1>1, LocSplit

LEMMA PreValue ==
    ASSUME NEW rom \in Memory, NEW b \in Bank, NEW i \in Slot
    PROVE  /\ PreCell(b, i) \in PreCells /\ PreCell(b, i) \in Cell
           /\ rom[PreCell(b, i)] \in Block \cup {ERASED}
           /\ \A k \in Block : k # ERASED
<1>1. PreCell(b, i) \in PreCells /\ PreCell(b, i) \in Cell /\ PreCell(b, i)[1] = "pre"
  BY DEF PreCell, PreCells, Cell
<1>2. rom[PreCell(b, i)] \in ValuesOf("pre")
  BY <1>1 DEF Memory
<1>3. ValuesOf("pre") = Block \cup {ERASED}
  BY DEF ValuesOf
<1>4. \A k \in Block : k # ERASED
  BY GeometryAssumption DEF Block, ERASED
<1> QED BY <1>1, <1>2, <1>3, <1>4

\* Every entry of such a preamble names a file.
LEMMA StartsAre ==
    ASSUME NEW rom \in Memory, PreambleEnds(rom), NEW l \in Locs
    PROVE  l \in Starts(rom) <=> \E i \in Slot : rom[PreCell(BankOf(l), i)] = BlockOf(l)
<1>1. ASSUME l \in Starts(rom)
      PROVE  \E i \in Slot : rom[PreCell(BankOf(l), i)] = BlockOf(l)
  <2>1. PICK e \in PreCells : Listed(rom, e[2], e[3]) /\ l = Loc(e[2], rom[e])
    BY <1>1 DEF Starts
  <2>2. e[2] \in Bank /\ e[3] \in Slot /\ e = PreCell(e[2], e[3])
    BY DEF PreCells, PreCell
  <2>3. e[3] \in 0 .. e[3]
    BY <2>2 DEF Slot
  <2>4. rom[e] \in Block
    BY <2>1, <2>2, <2>3, PreValue DEF Listed
  <2>5. BankOf(l) = e[2] /\ BlockOf(l) = rom[e]
    BY <2>1, <2>2, <2>4, LocSplit
  <2> QED BY <2>2, <2>5
<1>2. ASSUME NEW i \in Slot, rom[PreCell(BankOf(l), i)] = BlockOf(l)
      PROVE  l \in Starts(rom)
  <2> DEFINE b == BankOf(l)
             e == PreCell(b, i)
  <2>1. b \in Bank /\ BlockOf(l) \in Block /\ Loc(b, BlockOf(l)) = l
    BY LocParts, LocIsBoth
  <2>2. e \in PreCells /\ e[2] = b /\ e[3] = i /\ rom[e] = BlockOf(l) /\ rom[e] # ERASED
    BY <1>2, <2>1, PreValue DEF PreCell
  <2>3. \A j \in 0 .. i : j \in Slot /\ (j = i \/ j < i)
    BY GeometryAssumption DEF Slot
  <2>4. Listed(rom, b, i)
    BY <2>1, <2>2, <2>3 DEF Listed, PreambleEnds
  <2> HIDE DEF e, b
  <2> QED BY <2>1, <2>2, <2>4 DEF Starts
<1> QED BY <1>1, <1>2

\* The starts of files are told by the preambles.
LEMMA SamePreambles ==
    ASSUME NEW rom, NEW new,
           \A b \in Bank, i \in Slot : new[PreCell(b, i)] = rom[PreCell(b, i)]
    PROVE  Starts(new) = Starts(rom)
<1>1. ASSUME NEW e \in PreCells
      PROVE  new[e] = rom[e] /\ Listed(new, e[2], e[3]) = Listed(rom, e[2], e[3])
  <2>1. e[2] \in Bank /\ e[3] \in Slot /\ e = PreCell(e[2], e[3])
    BY DEF PreCells, PreCell
  <2>2. \A j \in 0 .. e[3] : j \in Slot
    BY <2>1, GeometryAssumption DEF Slot
  <2> QED BY <2>1, <2>2 DEF Listed
<1> QED BY <1>1 DEF Starts

\* The first 0xFF of a preamble is overwritten.
LEMMA EntryAdded ==
    ASSUME NEW rom \in Memory, NEW new \in Memory, PreambleEnds(rom), NEW l \in Locs,
           NEW i \in Slot, rom[PreCell(BankOf(l), i)] = ERASED,
           \A j \in 0 .. i - 1 : rom[PreCell(BankOf(l), j)] # ERASED,
           new[PreCell(BankOf(l), i)] = BlockOf(l), EntryChanged(rom, new, BankOf(l), i)
    PROVE  /\ PreambleEnds(new)
           /\ Starts(new) = Starts(rom) \cup {l}
           /\ NamedOnce(rom) /\ l \notin Starts(rom) => NamedOnce(new)
<1> DEFINE b == BankOf(l)
<1>1. b \in Bank /\ BlockOf(l) \in Block /\ BlockOf(l) # ERASED
  BY LocParts, PreValue
<1>2. \A c \in Bank, j \in Slot : new[PreCell(c, j)] = IF c = b /\ j = i THEN BlockOf(l)
                                                       ELSE rom[PreCell(c, j)]
  BY DEF EntryChanged
<1>3. rom[PreCell(b, i)] = ERASED
  OBVIOUS
<1>4. \A j \in Slot : j < i => rom[PreCell(b, j)] # ERASED
  BY GeometryAssumption DEF Slot
<1>5. \A j \in Slot : i < j => rom[PreCell(b, j)] = ERASED
  BY <1>1, <1>3 DEF PreambleEnds
<1>6. PreambleEnds(new)
  <2> SUFFICES ASSUME NEW c \in Bank, NEW m \in Slot, NEW n \in Slot, m < n,
                      new[PreCell(c, m)] = ERASED
               PROVE  new[PreCell(c, n)] = ERASED
    BY DEF PreambleEnds
  <2>1. rom[PreCell(c, m)] = ERASED /\ ~(c = b /\ m = i)
    BY <1>1, <1>2
  <2>2. rom[PreCell(c, n)] = ERASED
    BY <2>1 DEF PreambleEnds
  <2>3. ~(c = b /\ n = i)
    BY <1>4, <2>1
  <2> QED BY <1>2, <2>2, <2>3
<1>7. ASSUME NEW k \in Locs PROVE k \in Starts(new) <=> k \in Starts(rom) \/ k = l
  <2>1. BankOf(k) \in Bank /\ BlockOf(k) \in Block /\ BlockOf(k) # ERASED
    BY LocParts, PreValue
  <2>2. BankOf(k) = b /\ BlockOf(k) = BlockOf(l) => k = l
    BY LocIsBoth
  <2> HIDE DEF b
  <2>3. (\E j \in Slot : new[PreCell(BankOf(k), j)] = BlockOf(k))
           <=> (\E j \in Slot : rom[PreCell(BankOf(k), j)] = BlockOf(k)) \/ k = l
    <3>1. CASE k = l
      BY <1>2, <2>1, <3>1 DEF b
    <3>2. CASE k # l
      <4>1. ASSUME NEW j \in Slot
            PROVE  new[PreCell(BankOf(k), j)] = BlockOf(k)
                   <=> rom[PreCell(BankOf(k), j)] = BlockOf(k)
        <5>1. CASE BankOf(k) = b /\ j = i
          BY <1>2, <1>3, <2>1, <2>2, <3>2, <5>1
        <5>2. CASE ~(BankOf(k) = b /\ j = i)
          BY <1>2, <2>1, <5>2
        <5> QED BY <5>1, <5>2
      <4> QED BY <3>2, <4>1
    <3> QED BY <3>1, <3>2
  <2> QED BY <1>6, <2>3, StartsAre
<1>8. Starts(new) = Starts(rom) \cup {l}
  BY <1>7, StartsInLocs
<1>9. ASSUME NamedOnce(rom), l \notin Starts(rom) PROVE NamedOnce(new)
  <2>1. \A j \in Slot : rom[PreCell(b, j)] # BlockOf(l)
    BY <1>9, StartsAre
  <2> SUFFICES ASSUME NEW c \in Bank, NEW m \in Slot, NEW n \in Slot,
                      new[PreCell(c, m)] # ERASED, new[PreCell(c, m)] = new[PreCell(c, n)]
               PROVE  m = n
    BY DEF NamedOnce
  <2>2. CASE c = b /\ m = i
    BY <1>2, <2>1, <2>2
  <2>3. CASE c = b /\ n = i
    BY <1>2, <2>1, <2>3
  <2>4. CASE ~(c = b /\ m = i) /\ ~(c = b /\ n = i)
    BY <1>2, <1>9, <2>4 DEF NamedOnce
  <2> QED BY <2>2, <2>3, <2>4
<1> QED BY <1>6, <1>8, <1>9

\* Entry p of bank b is taken out, those after it move up.
EntryOut(rom, new, b, p) ==
    /\ \A c \in Bank, j \in Slot : c # b => new[PreCell(c, j)] = rom[PreCell(c, j)]
    /\ \A j \in Slot : new[PreCell(b, j)] =
          IF j < p THEN rom[PreCell(b, j)]
          ELSE IF j + 1 \in Slot THEN rom[PreCell(b, j + 1)] ELSE ERASED

LEMMA EntryTaken ==
    ASSUME NEW rom \in Memory, NEW new \in Memory, PreambleEnds(rom), NamedOnce(rom),
           NEW l \in Locs, NEW p \in Slot, rom[PreCell(BankOf(l), p)] = BlockOf(l),
           EntryOut(rom, new, BankOf(l), p)
    PROVE  /\ PreambleEnds(new) /\ NamedOnce(new)
           /\ Starts(new) = Starts(rom) \ {l}
<1> DEFINE b == BankOf(l)
           up(j) == IF j < p THEN j ELSE j + 1
<1>1. b \in Bank /\ BlockOf(l) \in Block /\ BlockOf(l) # ERASED
  BY LocParts, PreValue
<1>2. \A c \in Bank, j \in Slot : c # b => new[PreCell(c, j)] = rom[PreCell(c, j)]
  BY DEF EntryOut
<1>3. \A j \in Slot : new[PreCell(b, j)] =
          IF up(j) \in Slot THEN rom[PreCell(b, up(j))] ELSE ERASED
  BY DEF EntryOut
<1>4. \A i, j \in Slot : i < j => up(i) < up(j)
  BY GeometryAssumption DEF Slot
<1>5. \A i, j \in Slot : up(i) = up(j) => i = j
  BY GeometryAssumption DEF Slot
<1>6. \A i \in Slot : up(i) # p
  BY GeometryAssumption DEF Slot
<1>7. \A i \in Slot : i # p => \E j \in Slot : up(j) = i
  <2> SUFFICES ASSUME NEW i \in Slot, i # p PROVE \E j \in Slot : up(j) = i
    OBVIOUS
  <2>1. CASE i < p
    BY <2>1
  <2>2. CASE ~(i < p)
    <3>1. i - 1 \in Slot /\ up(i - 1) = i
      BY <2>2, GeometryAssumption DEF Slot
    <3> QED BY <3>1
  <2> QED BY <2>1, <2>2
<1>8. \A i \in Slot : \A j \in Slot : i < j /\ up(j) \in Slot => up(i) \in Slot
  BY GeometryAssumption DEF Slot
<1>9. rom[PreCell(b, p)] = BlockOf(l)
  OBVIOUS
<1> HIDE DEF b, up
<1>10. PreambleEnds(new)
  <2> SUFFICES ASSUME NEW c \in Bank, NEW m \in Slot, NEW n \in Slot, m < n,
                      new[PreCell(c, m)] = ERASED
               PROVE  new[PreCell(c, n)] = ERASED
    BY DEF PreambleEnds
  <2>1. CASE c # b
    BY <1>2, <2>1 DEF PreambleEnds
  <2>2. CASE c = b /\ up(n) \in Slot
    <3>1. up(m) \in Slot /\ rom[PreCell(b, up(m))] = ERASED /\ up(m) < up(n)
      BY <1>3, <1>4, <1>8, <2>2
    <3>2. rom[PreCell(b, up(n))] = ERASED
      BY <1>1, <2>2, <3>1 DEF PreambleEnds
    <3> QED BY <1>3, <2>2, <3>2
  <2>3. CASE c = b /\ up(n) \notin Slot
    BY <1>3, <2>3
  <2> QED BY <2>1, <2>2, <2>3
<1>11. NamedOnce(new)
  <2> SUFFICES ASSUME NEW c \in Bank, NEW m \in Slot, NEW n \in Slot,
                      new[PreCell(c, m)] # ERASED, new[PreCell(c, m)] = new[PreCell(c, n)]
               PROVE  m = n
    BY DEF NamedOnce
  <2>1. CASE c # b
    BY <1>2, <2>1 DEF NamedOnce
  <2>2. CASE c = b
    <3>1. /\ up(m) \in Slot /\ rom[PreCell(b, up(m))] # ERASED
          /\ up(n) \in Slot /\ rom[PreCell(b, up(m))] = rom[PreCell(b, up(n))]
      BY <1>3, <2>2
    <3>2. up(m) = up(n)
      BY <1>1, <3>1 DEF NamedOnce
    <3> QED BY <1>5, <3>2
  <2> QED BY <2>1, <2>2
<1>12. ASSUME NEW k \in Locs PROVE k \in Starts(new) <=> k \in Starts(rom) /\ k # l
  <2>1. BankOf(k) \in Bank /\ BlockOf(k) \in Block /\ BlockOf(k) # ERASED
    BY LocParts, PreValue
  <2>2. BankOf(k) = b /\ BlockOf(k) = BlockOf(l) => k = l
    BY LocIsBoth DEF b
  <2>3. (\E j \in Slot : new[PreCell(BankOf(k), j)] = BlockOf(k))
           <=> (\E j \in Slot : rom[PreCell(BankOf(k), j)] = BlockOf(k)) /\ k # l
    <3>1. CASE BankOf(k) # b
      BY <1>2, <2>1, <3>1 DEF b
    <3>2. CASE BankOf(k) = b
      <4>1. ASSUME NEW j \in Slot, new[PreCell(BankOf(k), j)] = BlockOf(k)
            PROVE  k # l /\ \E i \in Slot : rom[PreCell(BankOf(k), i)] = BlockOf(k)
        <5>1. up(j) \in Slot /\ rom[PreCell(b, up(j))] = BlockOf(k)
          BY <1>3, <2>1, <3>2, <4>1
        <5>2. k # l
          <6>1. up(j) # p
            BY <1>6
          <6>2. rom[PreCell(b, up(j))] # rom[PreCell(b, p)]
            BY <1>1, <2>1, <5>1, <6>1 DEF NamedOnce
          <6> QED BY <1>9, <5>1, <6>2
        <5> QED BY <3>2, <5>1, <5>2
      <4>2. ASSUME NEW i \in Slot, rom[PreCell(BankOf(k), i)] = BlockOf(k), k # l
            PROVE  \E j \in Slot : new[PreCell(BankOf(k), j)] = BlockOf(k)
        <5>1. i # p
          BY <1>9, <2>2, <3>2, <4>2
        <5>2. PICK j \in Slot : up(j) = i
          BY <1>7, <5>1
        <5> QED BY <1>3, <3>2, <4>2, <5>2
      <4> QED BY <4>1, <4>2
    <3> QED BY <3>1, <3>2
  <2> QED BY <1>10, <2>3, StartsAre
<1>13. Starts(new) = Starts(rom) \ {l}
  BY <1>12, StartsInLocs
<1> QED BY <1>10, <1>11, <1>13

-----------------------------------------------------------------------------
(***************************************************************************)
(* A cartridge in order: the directory, its files and the free blocks.     *)
(***************************************************************************)
BlankBlock(rom, l) == /\ rom[UsedCell(l)] = ERASED
                      /\ rom[NextCell(l)] = ERASED
                      /\ rom[CrcCell(l)] = ERASED
                      /\ rom[HdrCell(l)] = ERASED
                      /\ rom[DataCell(l)] = ERASED

Directory(rom) == /\ PreambleEnds(rom) /\ NamedOnce(rom)
                  /\ Upward(rom)
                  /\ AllFilesSound(rom)
                  /\ AllBlocksAccounted(rom)

LEMMA AccountedIs ==
    ASSUME NEW rom
    PROVE  AllBlocksAccounted(rom) <=>
              \A l \in Locs : \/ \E k \in Starts(rom) : l \in BlocksOf(rom, k)
                              \/ BlankBlock(rom, l)
BY DEF AllBlocksAccounted, BlankBlock

\* The blocks of a file.
LEMMA BlocksAre ==
    ASSUME NEW rom \in Memory, Upward(rom), NEW l \in Locs
    PROVE  /\ BlocksOf(rom, l) = {ChainOf(rom, l)[i] : i \in 1 .. Len(ChainOf(rom, l))}
           /\ BlocksOf(rom, l) \subseteq Locs
           /\ l \in BlocksOf(rom, l)
           /\ ChainOf(rom, l) \in Seq(Locs) /\ Len(ChainOf(rom, l)) \in Nat \ {0}
           /\ DOMAIN ChainOf(rom, l) = 1 .. Len(ChainOf(rom, l))
<1> DEFINE s == ChainOf(rom, l)
<1>1. s \in Seq(Locs) /\ Len(s) \in Nat \ {0} /\ s[1] = l
  BY ChainEnds DEF Path
<1>2. BlocksOf(rom, l) = {s[i] : i \in DOMAIN s}
  BY DEF BlocksOf
<1> HIDE DEF s
<1>3. DOMAIN s = 1 .. Len(s) /\ \A i \in 1 .. Len(s) : s[i] \in Locs
  BY <1>1
<1>4. 1 \in 1 .. Len(s)
  BY <1>1
<1> QED BY <1>1, <1>2, <1>3, <1>4 DEF s

LEMMA SoundIsUsed ==
    ASSUME NEW rom \in Memory, Upward(rom), NEW l \in Locs, Sound(rom, l),
           NEW k \in BlocksOf(rom, l)
    PROVE  k \in Locs /\ rom[UsedCell(k)] = USED
<1>1. PICK i \in DOMAIN ChainOf(rom, l) : k = ChainOf(rom, l)[i]
  BY DEF BlocksOf
<1>2. Good(rom, ChainOf(rom, l)[i], i, Len(ChainOf(rom, l)))
  BY DEF Sound
<1> QED BY <1>1, <1>2, BlocksAre DEF Good

\* What the directory says of one of its files.
LEMMA FileOf ==
    ASSUME NEW rom \in Memory, Directory(rom), NEW l \in Starts(rom)
    PROVE  /\ l \in Locs /\ Sound(rom, l) /\ BlocksOf(rom, l) \subseteq Locs
           /\ l \in BlocksOf(rom, l)
           /\ \A k \in BlocksOf(rom, l) : rom[UsedCell(k)] = USED
<1>1. l \in Locs /\ Sound(rom, l) /\ Upward(rom)
  BY StartsInLocs DEF Directory, AllFilesSound
<1> QED BY <1>1, SoundIsUsed, BlocksAre

\* A block that is not marked used is blank, and in no file.
LEMMA FreeIsBlank ==
    ASSUME NEW rom \in Memory, Directory(rom), NEW l \in Locs, rom[UsedCell(l)] = ERASED
    PROVE  /\ BlankBlock(rom, l) /\ l \notin Starts(rom)
           /\ \A k \in Starts(rom) : l \notin BlocksOf(rom, k)
<1>1. \A k \in Starts(rom) : l \notin BlocksOf(rom, k)
  <2> SUFFICES ASSUME NEW k \in Starts(rom), l \in BlocksOf(rom, k) PROVE FALSE
    OBVIOUS
  <2>1. rom[UsedCell(l)] = USED
    BY FileOf
  <2> QED BY <2>1 DEF USED, ERASED
<1>2. l \notin Starts(rom)
  BY <1>1, FileOf
<1>3. BlankBlock(rom, l)
  BY <1>1, AccountedIs DEF Directory
<1> QED BY <1>1, <1>2, <1>3

\* A file none of whose blocks is touched.
LEMMA FileStays ==
    ASSUME NEW rom \in Memory, NEW new \in Memory, Upward(rom), NEW l \in Locs,
           \A k \in BlocksOf(rom, l) : SameBlock(rom, new, k)
    PROVE  /\ BlocksOf(new, l) = BlocksOf(rom, l)
           /\ Sound(new, l) <=> Sound(rom, l)
           /\ SameFile(rom, new, l)
<1>1. ChainOf(new, l) = ChainOf(rom, l) /\ Sound(new, l) = Sound(rom, l)
  BY SameChain
<1>2. SameFile(rom, new, l)
  BY FileKept
<1>3. Sound(rom, l) \in BOOLEAN /\ Sound(new, l) \in BOOLEAN
  BY DEF Sound
<1> QED BY <1>1, <1>2, <1>3 DEF BlocksOf

\* The links of a cartridge in order.
LEMMA LinksInOrder ==
    ASSUME NEW rom \in Memory, Directory(rom)
    PROVE  LinkedOnce(rom) /\ StartsUnlinked(rom)
<1>1. ASSUME NEW k \in Locs, rom[NextCell(k)] # NoLoc
      PROVE  \E l \in Starts(rom) : \E i \in 1 .. Len(ChainOf(rom, l)) - 1 :
                /\ l \in Locs /\ k = ChainOf(rom, l)[i]
                /\ rom[NextCell(k)] = ChainOf(rom, l)[i + 1]
  <2>1. ~BlankBlock(rom, k)
    BY <1>1 DEF BlankBlock, NoLoc
  <2>2. PICK l \in Starts(rom) : k \in BlocksOf(rom, l)
    BY <2>1, AccountedIs DEF Directory
  <2> DEFINE s == ChainOf(rom, l)
  <2>3. l \in Locs /\ Upward(rom)
    BY StartsInLocs DEF Directory
  <2>4. PICK i \in 1 .. Len(s) : k = s[i]
    BY <2>2, <2>3, BlocksAre
  <2>5. Path(rom, s) /\ Ends(rom, s)
    BY <2>3, ChainEnds
  <2>6. Len(s) \in Nat
    BY <2>5 DEF Path
  <2> HIDE DEF s
  <2>7. i # Len(s)
    BY <1>1, <2>4, <2>5 DEF Ends
  <2>8. i \in 1 .. Len(s) - 1
    BY <2>6, <2>7
  <2>9. rom[NextCell(k)] = s[i + 1]
    BY <2>4, <2>5, <2>8 DEF Path
  <2> QED BY <2>3, <2>4, <2>8, <2>9 DEF s
<1>2. \A l \in Starts(rom) : l \in Locs /\ Path(rom, ChainOf(rom, l)) /\ ChainOf(rom, l)[1] = l
                             /\ Len(ChainOf(rom, l)) \in Nat \ {0}
  BY StartsInLocs, ChainEnds DEF Directory, Path
<1>3. ASSUME NEW l \in Starts(rom), NEW m \in Starts(rom), NEW i \in 1 .. Len(ChainOf(rom, l)),
             NEW j \in 1 .. Len(ChainOf(rom, m)), ChainOf(rom, l)[i] = ChainOf(rom, m)[j]
      PROVE  l = m /\ i = j
  <2>1. ChainOf(rom, l)[i] \in BlocksOf(rom, l) /\ ChainOf(rom, m)[j] \in BlocksOf(rom, m)
    <3>1. l \in Locs /\ m \in Locs /\ Upward(rom)
      BY <1>2 DEF Directory
    <3>2. BlocksOf(rom, l) = {ChainOf(rom, l)[n] : n \in 1 .. Len(ChainOf(rom, l))}
      BY <3>1, BlocksAre
    <3>3. BlocksOf(rom, m) = {ChainOf(rom, m)[n] : n \in 1 .. Len(ChainOf(rom, m))}
      BY <3>1, BlocksAre
    <3> QED BY <3>2, <3>3
  <2>2. l = m
    BY <1>3, <2>1 DEF Directory, AllFilesSound
  <2> DEFINE s == ChainOf(rom, l)
  <2>3. Path(rom, s) /\ s \in Seq(Locs) /\ Len(s) \in Nat /\ s[i] = s[j]
        /\ i \in 1 .. Len(s) /\ j \in 1 .. Len(s)
    BY <1>2, <1>3, <2>2 DEF Path
  <2> HIDE DEF s
  <2>4. s[i] \in Nat /\ s[j] \in Nat
    BY <2>3, LocParts
  <2>5. ~(i < j)
    <3>1. i < j => s[i] < s[j]
      BY <2>3, PathGoesUp DEF Directory
    <3> QED BY <2>3, <2>4, <3>1
  <2>6. ~(j < i)
    <3>1. j < i => s[j] < s[i]
      BY <2>3, PathGoesUp DEF Directory
    <3> QED BY <2>3, <2>4, <3>1
  <2> QED BY <2>2, <2>3, <2>5, <2>6
<1>4. LinkedOnce(rom)
  <2> SUFFICES ASSUME NEW k \in Locs, NEW m \in Locs, rom[NextCell(k)] = rom[NextCell(m)],
                      rom[NextCell(k)] # NoLoc
               PROVE  k = m
    BY DEF LinkedOnce
  <2>1. PICK l \in Starts(rom) : \E i \in 1 .. Len(ChainOf(rom, l)) - 1 :
                /\ l \in Locs /\ k = ChainOf(rom, l)[i]
                /\ rom[NextCell(k)] = ChainOf(rom, l)[i + 1]
    BY <1>1
  <2>2. PICK i \in 1 .. Len(ChainOf(rom, l)) - 1 :
                /\ k = ChainOf(rom, l)[i]
                /\ rom[NextCell(k)] = ChainOf(rom, l)[i + 1]
    BY <2>1
  <2>3. PICK h \in Starts(rom) : \E i2 \in 1 .. Len(ChainOf(rom, h)) - 1 :
                /\ h \in Locs /\ m = ChainOf(rom, h)[i2]
                /\ rom[NextCell(m)] = ChainOf(rom, h)[i2 + 1]
    BY <1>1
  <2>4. PICK j \in 1 .. Len(ChainOf(rom, h)) - 1 :
                /\ m = ChainOf(rom, h)[j]
                /\ rom[NextCell(m)] = ChainOf(rom, h)[j + 1]
    BY <2>3
  <2>5. i + 1 \in 1 .. Len(ChainOf(rom, l)) /\ j + 1 \in 1 .. Len(ChainOf(rom, h))
    BY <1>2, <2>2, <2>4
  <2>6. l = h /\ i + 1 = j + 1
    BY <1>3, <2>2, <2>4, <2>5
  <2>7. i = j
    BY <2>2, <2>4, <2>6
  <2> QED BY <2>2, <2>4, <2>6, <2>7
<1>5. StartsUnlinked(rom)
  <2> SUFFICES ASSUME NEW h \in Starts(rom), NEW k \in Locs, rom[NextCell(k)] = h
               PROVE  FALSE
    BY DEF StartsUnlinked, Unlinked
  <2>1. h # NoLoc
    BY <1>2, LocParts DEF NoLoc
  <2>2. PICK l \in Starts(rom) : \E i \in 1 .. Len(ChainOf(rom, l)) - 1 :
                /\ l \in Locs /\ k = ChainOf(rom, l)[i]
                /\ rom[NextCell(k)] = ChainOf(rom, l)[i + 1]
    BY <1>1, <2>1
  <2>3. PICK i \in 1 .. Len(ChainOf(rom, l)) - 1 : h = ChainOf(rom, l)[i + 1]
    BY <2>2
  <2>4. i + 1 \in 1 .. Len(ChainOf(rom, l)) /\ 1 \in 1 .. Len(ChainOf(rom, h))
    BY <1>2
  <2>5. ChainOf(rom, h)[1] = h
    BY <1>2
  <2>6. i + 1 = 1
    BY <1>3, <2>3, <2>4, <2>5
  <2> QED BY <2>3, <2>6
<1> QED BY <1>4, <1>5

-----------------------------------------------------------------------------
(***************************************************************************)
(* A file that is being added.                                             *)
(***************************************************************************)
\* Block l is written as the j-th of n, with word w.
Filled(rom, l, j, n, w) == /\ rom[UsedCell(l)] = USED
                           /\ rom[DataCell(l)] = w
                           /\ rom[CrcCell(l)] = Crc16(w)
                           /\ rom[HdrCell(l)] = (j - 1) + 256 * n

\* Chip new is chip rom with a file begun: o names its first block, how many
\* of its n blocks are written and linked, what they hold, and the next one.
Growing(rom, new, o, n) ==
    /\ PreambleEnds(new) /\ NamedOnce(new)
    /\ Starts(new) = Starts(rom) \cup {o.start}
    /\ Upward(new)
    /\ o.start \in Locs /\ o.at \in Locs /\ o.i \in Nat
    /\ LET s == ChainOf(new, o.start)
       IN  /\ Len(s) = o.i + 1 /\ s[o.i + 1] = o.at
           /\ \A j \in 1 .. o.i : Filled(new, s[j], j, n, o.prog[j])
           /\ \A j \in 1 .. o.i + 1 : rom[UsedCell(s[j])] = ERASED
           /\ \A k \in Locs : (\A j \in 1 .. o.i : k # s[j]) => SameBlock(rom, new, k)
    /\ \A k \in Locs : k < o.at => new[UsedCell(k)] = USED

LEMMA SamePreambleFacts ==
    ASSUME NEW rom, NEW new,
           \A b \in Bank, i \in Slot : new[PreCell(b, i)] = rom[PreCell(b, i)]
    PROVE  /\ Starts(new) = Starts(rom)
           /\ PreambleEnds(rom) => PreambleEnds(new)
           /\ NamedOnce(rom) => NamedOnce(new)
BY SamePreambles DEF PreambleEnds, NamedOnce

LEMMA GrowBegins ==
    ASSUME NEW rom \in Memory, NEW new \in Memory, Directory(rom), NEW l \in Locs,
           rom[UsedCell(l)] = ERASED, \A k \in Locs : k < l => rom[UsedCell(k)] = USED,
           NEW i \in Slot, rom[PreCell(BankOf(l), i)] = ERASED,
           \A j \in 0 .. i - 1 : rom[PreCell(BankOf(l), j)] # ERASED,
           new[PreCell(BankOf(l), i)] = BlockOf(l), EntryChanged(rom, new, BankOf(l), i),
           \A k \in Locs : SameBlock(rom, new, k),
           NEW o, o.start = l, o.at = l, o.i = 0, NEW n
    PROVE  Growing(rom, new, o, n)
<1>1. BlankBlock(rom, l) /\ l \notin Starts(rom)
  BY FreeIsBlank
<1>2. PreambleEnds(new) /\ NamedOnce(new) /\ Starts(new) = Starts(rom) \cup {o.start}
  BY <1>1, EntryAdded DEF Directory
<1>3. Upward(new)
  BY DEF Directory, Upward, SameBlock
<1>4. ChainOf(new, l) = <<l>>
  <2> DEFINE s == <<l>>
  <2>1. s \in Seq(Locs) /\ Len(s) = 1 /\ s[1] = l
    OBVIOUS
  <2> HIDE DEF s
  <2>2. Path(new, s)
    BY <2>1 DEF Path
  <2>3. Ends(new, s)
    BY <1>1, <2>1 DEF Ends, BlankBlock, SameBlock, NoLoc
  <2>4. Len(s) <= NBANKS * NBLOCKS + 1
    BY <2>1, LocsFinite
  <2>5. ChainOf(new, s[1]) = s
    BY <2>2, <2>3, <2>4, ChainIs
  <2> QED BY <2>1, <2>5 DEF s
<1>5. \A k \in Locs : k < o.at => new[UsedCell(k)] = USED
  BY DEF SameBlock
<1>6. LET s == ChainOf(new, o.start)
      IN  /\ Len(s) = o.i + 1 /\ s[o.i + 1] = o.at
          /\ \A j \in 1 .. o.i : Filled(new, s[j], j, n, o.prog[j])
          /\ \A j \in 1 .. o.i + 1 : rom[UsedCell(s[j])] = ERASED
          /\ \A k \in Locs : (\A j \in 1 .. o.i : k # s[j]) => SameBlock(rom, new, k)
  BY <1>4
<1> QED BY <1>2, <1>3, <1>5, <1>6 DEF Growing

\* The blocks written so far.
LEMMA GrowingFacts ==
    ASSUME NEW rom \in Memory, NEW new \in Memory, Directory(rom), NEW o, NEW n,
           Growing(rom, new, o, n),
           NEW s, s = ChainOf(new, o.start)
    PROVE  /\ Path(new, s) /\ Ends(new, s) /\ s[1] = o.start /\ Len(s) = o.i + 1
           /\ s[o.i + 1] = o.at /\ \A j \in 1 .. o.i + 1 : s[j] \in Locs
           /\ \A j \in 1 .. o.i : s[j] # o.at
           /\ \A j \in 1 .. o.i + 1 : rom[UsedCell(s[j])] = ERASED
           /\ BlankBlock(new, o.at)
           /\ o.i \in Nat /\ o.at \in Locs /\ o.start \in Locs /\ o.i + 1 \in Nat \ {0}
<1>1. Path(new, s) /\ Ends(new, s) /\ s[1] = o.start /\ Len(s) = o.i + 1 /\ o.i \in Nat
      /\ s[o.i + 1] = o.at
  BY ChainEnds DEF Growing
<1>2. s \in Seq(Locs)
  BY <1>1 DEF Path
<1>3. \A j \in 1 .. o.i + 1 : s[j] \in Locs
  BY <1>1, <1>2
<1>4. ASSUME NEW j \in 1 .. o.i PROVE s[j] # o.at
  <2>1. j \in 1 .. Len(s) /\ o.i + 1 \in 1 .. Len(s) /\ j < o.i + 1
    BY <1>1
  <2>2. s[j] < s[o.i + 1]
    BY <1>1, <2>1, PathGoesUp DEF Growing
  <2>3. s[j] \in Nat
    BY <1>3, <2>1, LocParts
  <2> QED BY <1>1, <2>2, <2>3
<1>5. \A j \in 1 .. o.i + 1 : rom[UsedCell(s[j])] = ERASED
  BY DEF Growing
<1>6. SameBlock(rom, new, o.at) /\ o.at \in Locs
  BY <1>4 DEF Growing
<1>7. rom[UsedCell(o.at)] = ERASED
  BY <1>1, <1>5
<1>8. BlankBlock(rom, o.at)
  BY <1>6, <1>7, FreeIsBlank
<1>9. BlankBlock(new, o.at)
  BY <1>6, <1>8 DEF SameBlock, BlankBlock
<1>10. o.start \in Locs
  BY DEF Growing
<1>11. o.i + 1 \in Nat \ {0}
  BY <1>1
<1> QED BY <1>1, <1>3, <1>4, <1>5, <1>6, <1>9, <1>10, <1>11

\* Chip later is chip new with the next block written.
GrownBy(new, later, o, n) ==
    /\ \A b \in Bank, i \in Slot : later[PreCell(b, i)] = new[PreCell(b, i)]
    /\ \A k \in Locs : k # o.at => SameBlock(new, later, k)
    /\ Filled(later, o.at, o.i + 1, n, o.prog[o.i + 1])

LEMMA GrowthKeeps ==
    ASSUME NEW rom \in Memory, NEW new \in Memory, NEW later \in Memory, Directory(rom),
           NEW o, NEW n, Growing(rom, new, o, n), GrownBy(new, later, o, n),
           NEW s, s = ChainOf(new, o.start)
    PROVE  /\ PreambleEnds(later) /\ NamedOnce(later)
           /\ Starts(later) = Starts(rom) \cup {o.start}
           /\ \A j \in 1 .. o.i + 1 : Filled(later, s[j], j, n, o.prog[j])
           /\ \A k \in Locs : (\A j \in 1 .. o.i + 1 : k # s[j]) => SameBlock(rom, later, k)
           /\ \A k \in Locs : k <= o.at => later[UsedCell(k)] = USED
           /\ \A j \in 1 .. o.i : later[NextCell(s[j])] = s[j + 1]
<1>1. PreambleEnds(later) /\ NamedOnce(later) /\ Starts(later) = Starts(rom) \cup {o.start}
  BY SamePreambleFacts DEF GrownBy, Growing
<1>2. /\ Path(new, s) /\ Len(s) = o.i + 1 /\ s[o.i + 1] = o.at
      /\ \A j \in 1 .. o.i + 1 : s[j] \in Locs
      /\ \A j \in 1 .. o.i : s[j] # o.at
      /\ o.i \in Nat /\ o.at \in Locs
  BY GrowingFacts
<1>3. ASSUME NEW j \in 1 .. o.i
      PROVE  SameBlock(new, later, s[j]) /\ j \in 1 .. o.i + 1 /\ j \in 1 .. Len(s) - 1
  BY <1>2 DEF GrownBy
<1>4. ASSUME NEW j \in 1 .. o.i + 1
      PROVE  Filled(later, s[j], j, n, o.prog[j])
  <2>1. CASE j = o.i + 1
    BY <1>2, <2>1 DEF GrownBy
  <2>2. CASE j # o.i + 1
    <3>1. j \in 1 .. o.i
      BY <1>2, <2>2
    <3>2. Filled(new, s[j], j, n, o.prog[j])
      BY <3>1 DEF Growing
    <3> QED BY <1>3, <3>1, <3>2 DEF Filled, SameBlock
  <2> QED BY <2>1, <2>2
<1>5. ASSUME NEW k \in Locs, \A j \in 1 .. o.i + 1 : k # s[j]
      PROVE  SameBlock(rom, later, k)
  <2>1. k # o.at /\ \A j \in 1 .. o.i : k # s[j]
    BY <1>2, <1>3, <1>5
  <2>2. SameBlock(rom, new, k)
    BY <2>1 DEF Growing
  <2>3. SameBlock(new, later, k)
    BY <2>1 DEF GrownBy
  <2> QED BY <2>2, <2>3 DEF SameBlock
<1>6. ASSUME NEW k \in Locs, k <= o.at PROVE later[UsedCell(k)] = USED
  <2>1. CASE k = o.at
    BY <2>1 DEF GrownBy, Filled
  <2>2. CASE k # o.at
    <3>1. k < o.at
      BY <1>2, <1>6, <2>2, LocParts
    <3>2. new[UsedCell(k)] = USED
      BY <3>1 DEF Growing
    <3> QED BY <2>2, <3>2 DEF GrownBy, SameBlock
  <2> QED BY <2>1, <2>2
<1>7. ASSUME NEW j \in 1 .. o.i PROVE later[NextCell(s[j])] = s[j + 1]
  <2>1. new[NextCell(s[j])] = s[j + 1]
    BY <1>2, <1>3 DEF Path
  <2> QED BY <1>3, <2>1 DEF SameBlock
<1> QED BY <1>1, <1>4, <1>5, <1>6, <1>7

\* The block written is linked to the first that is free.
LEMMA GrowGoesOn ==
    ASSUME NEW rom \in Memory, NEW new \in Memory, NEW later \in Memory, Directory(rom),
           NEW o, NEW n, Growing(rom, new, o, n), GrownBy(new, later, o, n),
           NEW nxt \in Locs, later[UsedCell(nxt)] = ERASED,
           \A k \in Locs : k < nxt => later[UsedCell(k)] = USED,
           later[NextCell(o.at)] = nxt,
           NEW p, p.start = o.start, p.at = nxt, p.i = o.i + 1, p.prog = o.prog
    PROVE  Growing(rom, later, p, n)
<1> DEFINE s == ChainOf(new, o.start)
           t == Append(s, nxt)
           d == o.i + 1
<1>1. /\ Path(new, s) /\ s[1] = o.start /\ Len(s) = d /\ s[d] = o.at
      /\ \A j \in 1 .. d : s[j] \in Locs /\ rom[UsedCell(s[j])] = ERASED
      /\ \A j \in 1 .. o.i : s[j] # o.at
      /\ o.i \in Nat /\ o.at \in Locs /\ o.start \in Locs /\ d \in Nat \ {0}
  BY GrowingFacts
<1>2. /\ PreambleEnds(later) /\ NamedOnce(later)
      /\ Starts(later) = Starts(rom) \cup {o.start}
      /\ \A j \in 1 .. d : Filled(later, s[j], j, n, o.prog[j])
      /\ \A k \in Locs : (\A j \in 1 .. d : k # s[j]) => SameBlock(rom, later, k)
      /\ \A k \in Locs : k <= o.at => later[UsedCell(k)] = USED
      /\ \A j \in 1 .. o.i : later[NextCell(s[j])] = s[j + 1]
  BY GrowthKeeps
<1>3. s \in Seq(Locs)
  BY <1>1 DEF Path
<1> HIDE DEF s
<1>4. /\ t \in Seq(Locs) /\ Len(t) = d + 1 /\ t[d + 1] = nxt
      /\ \A j \in 1 .. d : t[j] = s[j]
  BY <1>1, <1>3
<1>5. o.at < nxt
  <2>1. ~(nxt <= o.at)
    BY <1>2 DEF USED, ERASED
  <2> QED BY <1>1, <2>1, LocParts
<1>6. Upward(later)
  <2> SUFFICES ASSUME NEW k \in Locs, later[NextCell(k)] # NoLoc
               PROVE  k < later[NextCell(k)]
    BY DEF Upward
  <2>1. CASE k = o.at
    BY <1>5, <2>1
  <2>2. CASE k # o.at
    <3>1. later[NextCell(k)] = new[NextCell(k)]
      BY <2>2 DEF GrownBy, SameBlock
    <3> QED BY <3>1 DEF Growing, Upward
  <2> QED BY <2>1, <2>2
<1>7. \A j \in 1 .. d : nxt # s[j]
  <2>1. \A j \in 1 .. d : later[UsedCell(s[j])] = USED
    BY <1>2 DEF Filled
  <2> QED BY <2>1 DEF USED, ERASED
<1>8. SameBlock(rom, later, nxt)
  BY <1>2, <1>7
<1>9. BlankBlock(rom, nxt) /\ rom[UsedCell(nxt)] = ERASED
  BY <1>8, FreeIsBlank DEF SameBlock
<1> HIDE DEF t
<1>10. Path(later, t)
  <2>1. ASSUME NEW j \in 1 .. d PROVE later[NextCell(t[j])] = t[j + 1]
    <3>1. CASE j = d
      BY <1>1, <1>4, <3>1
    <3>2. CASE j # d
      <4>1. j \in 1 .. o.i /\ j + 1 \in 1 .. d
        BY <1>1, <3>2
      <4> QED BY <1>2, <1>4, <4>1
    <3> QED BY <3>1, <3>2
  <2>2. Len(t) - 1 = d /\ Len(t) \in Nat \ {0}
    BY <1>1, <1>4
  <2> QED BY <1>4, <2>1, <2>2 DEF Path
<1>11. Ends(later, t)
  BY <1>4, <1>8, <1>9 DEF Ends, SameBlock, BlankBlock, NoLoc
<1>12. ChainOf(later, o.start) = t
  <2>1. Len(t) <= NBANKS * NBLOCKS
    BY <1>6, <1>10, PathIsShort
  <2>2. Len(t) <= NBANKS * NBLOCKS + 1
    BY <1>1, <1>4, <2>1, LocsFinite
  <2>3. ChainOf(later, t[1]) = t
    BY <1>10, <1>11, <2>2, ChainIs
  <2>4. t[1] = o.start
    BY <1>1, <1>4
  <2> QED BY <2>3, <2>4
<1>13. /\ Len(t) = p.i + 1 /\ t[p.i + 1] = p.at
       /\ \A j \in 1 .. p.i : Filled(later, t[j], j, n, p.prog[j])
       /\ \A j \in 1 .. p.i + 1 : rom[UsedCell(t[j])] = ERASED
       /\ \A k \in Locs : (\A j \in 1 .. p.i : k # t[j]) => SameBlock(rom, later, k)
  <2>1. ASSUME NEW j \in 1 .. d + 1 PROVE rom[UsedCell(t[j])] = ERASED
    <3>1. CASE j = d + 1
      BY <1>4, <1>9, <3>1
    <3>2. CASE j # d + 1
      <4>1. j \in 1 .. d
        BY <1>1, <3>2
      <4> QED BY <1>1, <1>4, <4>1
    <3> QED BY <3>1, <3>2
  <2> QED BY <1>2, <1>4, <2>1
<1>14. p.start \in Locs /\ p.at \in Locs /\ p.i \in Nat
  BY <1>1
<1> QED BY <1>2, <1>6, <1>12, <1>13, <1>14 DEF Growing

\* With its last block written the file is one of the directory.
LEMMA GrowEnds ==
    ASSUME NEW rom \in Memory, NEW new \in Memory, NEW later \in Memory, Directory(rom),
           NEW o, NEW n, Growing(rom, new, o, n), GrownBy(new, later, o, n), o.i + 1 = n,
           later[NextCell(o.at)] = new[NextCell(o.at)]
    PROVE  /\ Directory(later)
           /\ Added(rom, later, o.start, [j \in 1 .. n |-> o.prog[j]])
<1> DEFINE s == ChainOf(new, o.start)
           d == o.i + 1
           h == o.start
           c == [j \in 1 .. n |-> o.prog[j]]
<1>1. /\ Path(new, s) /\ Ends(new, s) /\ s[1] = h /\ Len(s) = d /\ s[d] = o.at
      /\ \A j \in 1 .. d : s[j] \in Locs /\ rom[UsedCell(s[j])] = ERASED
      /\ \A j \in 1 .. o.i : s[j] # o.at
      /\ BlankBlock(new, o.at)
      /\ o.i \in Nat /\ o.at \in Locs /\ h \in Locs /\ d \in Nat \ {0}
  BY GrowingFacts
<1>2. /\ PreambleEnds(later) /\ NamedOnce(later)
      /\ Starts(later) = Starts(rom) \cup {h}
      /\ \A j \in 1 .. d : Filled(later, s[j], j, n, o.prog[j])
      /\ \A k \in Locs : (\A j \in 1 .. d : k # s[j]) => SameBlock(rom, later, k)
      /\ \A j \in 1 .. o.i : later[NextCell(s[j])] = s[j + 1]
  BY GrowthKeeps
<1>3. s \in Seq(Locs) /\ DOMAIN s = 1 .. d
  BY <1>1 DEF Path
<1> HIDE DEF s
<1>4. Upward(later)
  <2> SUFFICES ASSUME NEW k \in Locs PROVE later[NextCell(k)] = new[NextCell(k)]
    BY DEF Upward, Growing
  <2> QED BY DEF GrownBy, SameBlock
<1>5. ChainOf(later, h) = s
  <2>1. Path(later, s)
    <3>1. Len(s) - 1 = o.i /\ Len(s) \in Nat \ {0}
      BY <1>1
    <3> QED BY <1>2, <1>3, <3>1 DEF Path
  <2>2. Ends(later, s)
    BY <1>1 DEF Ends
  <2>3. Len(s) <= NBANKS * NBLOCKS
    BY <1>4, <2>1, PathIsShort
  <2>4. Len(s) <= NBANKS * NBLOCKS + 1
    BY <1>1, <2>3, LocsFinite
  <2>5. ChainOf(later, s[1]) = s
    BY <2>1, <2>2, <2>4, ChainIs
  <2> QED BY <1>1, <2>5
<1>6. Sound(later, h) /\ Held(later, h) = c
  <2>1. Len(s) <= NBANKS * NBLOCKS
    BY <1>4, <1>5, ChainEnds, <1>1
  <2>2. \A j \in 1 .. d : Good(later, s[j], j, d)
    BY <1>2 DEF Filled, Good
  <2>3. Sound(later, h)
    BY <1>1, <1>3, <1>5, <2>1, <2>2 DEF Sound
  <2>4. Held(later, h) = c
    BY <1>2, <1>3, <1>5 DEF Held, Filled
  <2> QED BY <2>3, <2>4
<1>7. BlocksOf(later, h) = {s[j] : j \in 1 .. d}
  BY <1>3, <1>5 DEF BlocksOf
<1>8. ASSUME NEW l \in Starts(rom)
      PROVE  /\ BlocksOf(later, l) = BlocksOf(rom, l)
             /\ Sound(later, l) /\ SameFile(rom, later, l)
             /\ BlocksOf(rom, l) \cap BlocksOf(later, h) = {}
  <2>1. l \in Locs /\ Sound(rom, l) /\ BlocksOf(rom, l) \subseteq Locs
        /\ \A k \in BlocksOf(rom, l) : rom[UsedCell(k)] = USED
    BY FileOf
  <2>2. \A k \in BlocksOf(rom, l) : \A j \in 1 .. d : k # s[j]
    BY <1>1, <2>1 DEF USED, ERASED
  <2>3. \A k \in BlocksOf(rom, l) : SameBlock(rom, later, k)
    BY <1>2, <2>1, <2>2
  <2>4. BlocksOf(later, l) = BlocksOf(rom, l) /\ Sound(later, l) /\ SameFile(rom, later, l)
    BY <2>1, <2>3, FileStays DEF Directory
  <2> QED BY <1>7, <2>2, <2>4
<1>9. AllFilesSound(later)
  <2>1. \A l \in Starts(later) : Sound(later, l)
    BY <1>2, <1>6, <1>8
  <2>2. ASSUME NEW l \in Starts(later), NEW k \in Starts(later), l # k
        PROVE  BlocksOf(later, l) \cap BlocksOf(later, k) = {}
    <3>1. CASE l \in Starts(rom) /\ k \in Starts(rom)
      BY <1>8, <2>2, <3>1 DEF Directory, AllFilesSound
    <3>2. CASE l \in Starts(rom) /\ k = h
      BY <1>8, <3>2
    <3>3. CASE l = h /\ k \in Starts(rom)
      BY <1>8, <3>3
    <3> QED BY <1>2, <2>2, <3>1, <3>2, <3>3
  <2> QED BY <2>1, <2>2 DEF AllFilesSound
<1>10. AllBlocksAccounted(later)
  <2> SUFFICES ASSUME NEW l \in Locs
               PROVE  \/ \E k \in Starts(later) : l \in BlocksOf(later, k)
                      \/ BlankBlock(later, l)
    BY AccountedIs
  <2>1. CASE \E j \in 1 .. d : l = s[j]
    BY <1>2, <1>7, <2>1
  <2>2. CASE \A j \in 1 .. d : l # s[j]
    <3>1. SameBlock(rom, later, l)
      BY <1>2, <2>2
    <3>2. CASE \E k \in Starts(rom) : l \in BlocksOf(rom, k)
      BY <1>2, <1>8, <3>2
    <3>3. CASE BlankBlock(rom, l)
      BY <3>1, <3>3 DEF BlankBlock, SameBlock
    <3> QED BY <3>2, <3>3, AccountedIs DEF Directory
  <2> QED BY <2>1, <2>2
<1>11. Directory(later)
  BY <1>2, <1>4, <1>9, <1>10 DEF Directory
<1>12. Added(rom, later, h, c)
  <2>1. h \notin Starts(rom)
    <3>1. 1 \in 1 .. d
      BY <1>1
    <3>2. rom[UsedCell(h)] = ERASED
      BY <1>1, <3>1
    <3> QED BY <1>1, <3>2, FreeIsBlank
  <2>2. h \notin DOMAIN FilesOn(rom)
    BY <2>1, FilesOnIs
  <2>3. \A l \in Starts(rom) \ {h} : SameFile(rom, later, l)
    BY <1>8
  <2> HIDE DEF c, h
  <2> QED BY <1>2, <1>6, <2>2, <2>3, OneMore
<1> QED BY <1>11, <1>12

-----------------------------------------------------------------------------
(***************************************************************************)
(* A file that is being removed.                                           *)
(***************************************************************************)
\* Chip new is chip rom without the entry of file h, and with the blocks of
\* its chain wiped up to those that are left.
Shrinking(rom, new, h, left) ==
    /\ PreambleEnds(new) /\ NamedOnce(new)
    /\ h \in Starts(rom) /\ Starts(new) = Starts(rom) \ {h}
    /\ LET c == ChainOf(rom, h)
           d == Len(c) - Len(left)
       IN  /\ d \in Nat
           /\ \A j \in 1 .. Len(left) : left[j] = c[d + j]
           /\ \A j \in 1 .. d : BlankBlock(new, c[j])
           /\ \A k \in Locs : (\A j \in 1 .. d : k # c[j]) => SameBlock(rom, new, k)

LEMMA ShrinkBegins ==
    ASSUME NEW rom \in Memory, NEW new \in Memory, Directory(rom), NEW h \in Starts(rom),
           NEW p \in Slot, rom[PreCell(BankOf(h), p)] = BlockOf(h),
           EntryOut(rom, new, BankOf(h), p), \A k \in Locs : SameBlock(rom, new, k)
    PROVE  Shrinking(rom, new, h, ChainOf(rom, h))
<1>1. h \in Locs /\ Upward(rom)
  BY FileOf DEF Directory
<1>2. PreambleEnds(new) /\ NamedOnce(new) /\ Starts(new) = Starts(rom) \ {h}
  BY <1>1, EntryTaken DEF Directory
<1> DEFINE c == ChainOf(rom, h)
<1>3. Len(c) \in Nat
  BY <1>1, ChainEnds DEF Path
<1> HIDE DEF c
<1>4. /\ Len(c) - Len(c) = 0
      /\ \A j \in 1 .. Len(c) : c[j] = c[(Len(c) - Len(c)) + j]
  BY <1>3
<1> QED BY <1>2, <1>4 DEF Shrinking, c

\* Chip later is chip new with block l wiped.
ShrunkBy(new, later, l) ==
    /\ \A b \in Bank, i \in Slot : later[PreCell(b, i)] = new[PreCell(b, i)]
    /\ \A k \in Locs : k # l => SameBlock(new, later, k)
    /\ BlankBlock(later, l)

LEMMA ShrinkGoesOn ==
    ASSUME NEW rom \in Memory, NEW new \in Memory, NEW later \in Memory, Directory(rom),
           NEW h, NEW left \in Seq(Locs), left # <<>>, Shrinking(rom, new, h, left),
           ShrunkBy(new, later, left[1])
    PROVE  Shrinking(rom, later, h, Tail(left))
<1> DEFINE c == ChainOf(rom, h)
           d == Len(c) - Len(left)
           e == Len(c) - Len(Tail(left))
<1>1. /\ Len(left) \in Nat \ {0} /\ Len(Tail(left)) = Len(left) - 1
      /\ \A j \in 1 .. Len(left) - 1 : Tail(left)[j] = left[j + 1]
  OBVIOUS
<1>2. h \in Locs /\ c \in Seq(Locs) /\ Len(c) \in Nat
  BY FileOf, ChainEnds DEF Shrinking, Directory, Path
<1>3. /\ d \in Nat
      /\ \A j \in 1 .. Len(left) : left[j] = c[d + j]
      /\ \A j \in 1 .. d : BlankBlock(new, c[j])
      /\ \A k \in Locs : (\A j \in 1 .. d : k # c[j]) => SameBlock(rom, new, k)
      /\ h \in Starts(rom)
  BY DEF Shrinking
<1>4. PreambleEnds(later) /\ NamedOnce(later) /\ Starts(later) = Starts(rom) \ {h}
  BY SamePreambleFacts DEF ShrunkBy, Shrinking
<1> HIDE DEF c
<1>5. e = d + 1 /\ e \in Nat /\ e \in 1 .. Len(c) /\ left[1] = c[e]
  BY <1>1, <1>2, <1>3
<1> HIDE DEF d, e
<1>6. \A j \in 1 .. Len(Tail(left)) : Tail(left)[j] = c[e + j]
  <2> SUFFICES ASSUME NEW j \in 1 .. Len(Tail(left)) PROVE Tail(left)[j] = c[e + j]
    OBVIOUS
  <2>1. j \in 1 .. Len(left) - 1 /\ j + 1 \in 1 .. Len(left)
    BY <1>1
  <2>2. Tail(left)[j] = left[j + 1] /\ left[j + 1] = c[d + (j + 1)]
    BY <1>1, <1>3, <2>1
  <2>3. d + (j + 1) = e + j
    BY <1>3, <1>5, <2>1
  <2> QED BY <2>2, <2>3
<1>7. ASSUME NEW j \in 1 .. e PROVE BlankBlock(later, c[j])
  <2>1. CASE c[j] = left[1]
    BY <2>1 DEF ShrunkBy
  <2>2. CASE c[j] # left[1]
    <3>1. j \in 1 .. d /\ c[j] \in Locs
      BY <1>2, <1>5, <1>3, <2>2
    <3>2. BlankBlock(new, c[j]) /\ SameBlock(new, later, c[j])
      BY <1>3, <2>2, <3>1 DEF ShrunkBy
    <3> QED BY <3>2 DEF BlankBlock, SameBlock
  <2> QED BY <2>1, <2>2
<1>8. ASSUME NEW k \in Locs, \A j \in 1 .. e : k # c[j] PROVE SameBlock(rom, later, k)
  <2>1. \A j \in 1 .. d : j \in 1 .. e
    BY <1>3, <1>5
  <2>2. SameBlock(rom, new, k)
    BY <1>3, <1>8, <2>1
  <2>3. e \in 1 .. e
    BY <1>5
  <2>4. k # left[1]
    BY <1>5, <1>8, <2>3
  <2>5. SameBlock(new, later, k)
    BY <2>4 DEF ShrunkBy
  <2> QED BY <2>2, <2>5 DEF SameBlock
<1> QED BY <1>3, <1>4, <1>5, <1>6, <1>7, <1>8 DEF Shrinking, c, e

\* The chip, or the file store, has lost file h.
Removed(rom, new, h) ==
    /\ h \in DOMAIN FilesOn(rom)
    /\ FilesOn(new) = [k \in DOMAIN FilesOn(rom) \ {h} |-> FilesOn(rom)[k]]

LEMMA ShrinkEnds ==
    ASSUME NEW rom \in Memory, NEW new \in Memory, Directory(rom), NEW h,
           Shrinking(rom, new, h, <<>>)
    PROVE  Directory(new) /\ Removed(rom, new, h)
<1> DEFINE c == ChainOf(rom, h)
<1>1. h \in Starts(rom) /\ h \in Locs /\ Upward(rom)
  BY FileOf DEF Shrinking, Directory
<1>2. Len(c) \in Nat /\ BlocksOf(rom, h) = {c[j] : j \in 1 .. Len(c)} /\ c \in Seq(Locs)
  BY <1>1, BlocksAre
<1> HIDE DEF c
<1>3. /\ PreambleEnds(new) /\ NamedOnce(new) /\ Starts(new) = Starts(rom) \ {h}
      /\ \A k \in BlocksOf(rom, h) : BlankBlock(new, k)
      /\ \A k \in Locs : k \notin BlocksOf(rom, h) => SameBlock(rom, new, k)
  <2>1. Len(c) - Len(<<>>) = Len(c)
    BY <1>2
  <2> QED BY <1>2, <2>1 DEF Shrinking, c
<1>4. Upward(new)
  <2> SUFFICES ASSUME NEW k \in Locs, new[NextCell(k)] # NoLoc
               PROVE  k < new[NextCell(k)]
    BY DEF Upward
  <2>1. SameBlock(rom, new, k)
    BY <1>3 DEF BlankBlock, NoLoc
  <2> QED BY <1>1, <2>1 DEF Upward, SameBlock
<1>5. ASSUME NEW l \in Starts(new)
      PROVE  /\ l \in Starts(rom) /\ l # h /\ BlocksOf(new, l) = BlocksOf(rom, l)
             /\ Sound(new, l) /\ SameFile(rom, new, l)
  <2>1. l \in Starts(rom) /\ l # h
    BY <1>3
  <2>2. l \in Locs /\ Sound(rom, l) /\ BlocksOf(rom, l) \subseteq Locs
    BY <2>1, FileOf
  <2>3. \A k \in BlocksOf(rom, l) : k \notin BlocksOf(rom, h)
    BY <1>1, <2>1 DEF Directory, AllFilesSound
  <2>4. \A k \in BlocksOf(rom, l) : SameBlock(rom, new, k)
    BY <1>3, <2>2, <2>3
  <2> QED BY <1>1, <2>1, <2>2, <2>4, FileStays
<1>6. AllFilesSound(new)
  <2>1. ASSUME NEW l \in Starts(new), NEW k \in Starts(new), l # k
        PROVE  BlocksOf(new, l) \cap BlocksOf(new, k) = {}
    BY <1>5, <2>1 DEF Directory, AllFilesSound
  <2> QED BY <1>5, <2>1 DEF AllFilesSound
<1>7. AllBlocksAccounted(new)
  <2> SUFFICES ASSUME NEW l \in Locs
               PROVE  \/ \E k \in Starts(new) : l \in BlocksOf(new, k)
                      \/ BlankBlock(new, l)
    BY AccountedIs
  <2>1. CASE l \in BlocksOf(rom, h)
    BY <1>3, <2>1
  <2>2. CASE l \notin BlocksOf(rom, h)
    <3>1. SameBlock(rom, new, l)
      BY <1>3, <2>2
    <3>2. CASE \E k \in Starts(rom) : l \in BlocksOf(rom, k)
      <4>1. PICK k \in Starts(rom) : l \in BlocksOf(rom, k)
        BY <3>2
      <4>2. k \in Starts(new)
        BY <1>3, <2>2, <4>1
      <4> QED BY <1>5, <4>1, <4>2
    <3>3. CASE BlankBlock(rom, l)
      BY <3>1, <3>3 DEF BlankBlock, SameBlock
    <3> QED BY <3>2, <3>3, AccountedIs DEF Directory
  <2> QED BY <2>1, <2>2
<1>8. Directory(new)
  BY <1>3, <1>4, <1>6, <1>7 DEF Directory
<1>9. Removed(rom, new, h)
  <2>1. \A l \in Starts(rom) : Sound(rom, l)
    BY DEF Directory, AllFilesSound
  <2>2. FilesOn(rom) = [l \in Starts(rom) |-> Held(rom, l)]
    BY <2>1, FilesOnIs
  <2>3. FilesOn(new) = [l \in Starts(rom) \ {h} |-> Held(new, l)]
    BY <1>3, <1>5, FilesOnIs
  <2>4. \A l \in Starts(rom) \ {h} : Held(new, l) = Held(rom, l)
    BY <1>3, <1>5 DEF SameFile
  <2> QED BY <1>1, <2>2, <2>3, <2>4 DEF Removed
<1> QED BY <1>8, <1>9

\* A formatted chip, and a new one, hold nothing.
LEMMA BlankDirectory ==
    ASSUME NEW rom \in Memory,
           \A x \in Cell : x[1] # "fmt" => rom[x] = ERASED
    PROVE  Directory(rom) /\ FilesOn(rom) = [l \in {} |-> <<>>]
<1>1. \A b \in Bank, i \in Slot : rom[PreCell(b, i)] = ERASED
  BY PreValue DEF PreCell
<1>2. \A l \in Locs : BlankBlock(rom, l)
  <2> SUFFICES ASSUME NEW l \in Locs PROVE BlankBlock(rom, l)
    OBVIOUS
  <2>1. {NextCell(l), CrcCell(l), UsedCell(l), HdrCell(l), DataCell(l)} \subseteq Cell
    BY CellsOfLoc DEF Cell
  <2>2. \A x \in {NextCell(l), CrcCell(l), UsedCell(l), HdrCell(l), DataCell(l)} : x[1] # "fmt"
    BY DEF NextCell, CrcCell, UsedCell, HdrCell, DataCell
  <2> QED BY <2>1, <2>2 DEF BlankBlock
<1>3. PreambleEnds(rom) /\ NamedOnce(rom)
  BY <1>1 DEF PreambleEnds, NamedOnce
<1>4. Starts(rom) = {}
  <2>1. \A l \in Locs : l \notin Starts(rom)
    BY <1>1, <1>3, StartsAre, LocParts, PreValue
  <2> QED BY <2>1, StartsInLocs
<1>5. Upward(rom)
  BY <1>2 DEF Upward, BlankBlock, NoLoc
<1>6. AllFilesSound(rom)
  BY <1>4 DEF AllFilesSound
<1>7. AllBlocksAccounted(rom)
  BY <1>2, AccountedIs
<1>8. FilesOn(rom) = [l \in {} |-> <<>>]
  BY <1>4, FilesOnIs
<1> QED BY <1>3, <1>5, <1>6, <1>7, <1>8 DEF Directory

LEMMA UpToSize ==
    ASSUME NEW n \in Nat
    PROVE  IsFiniteSet(0 .. n - 1) /\ Cardinality(0 .. n - 1) = n
<1>1. IsFiniteSet(0 .. n - 1) /\ Cardinality(0 .. n - 1) = IF 0 > n - 1 THEN 0 ELSE (n - 1) - 0 + 1
  BY FS_Interval
<1> QED BY <1>1

LEMMA UpToWithout ==
    ASSUME NEW n \in Nat, NEW p \in 0 .. n - 1
    PROVE  Cardinality((0 .. n - 1) \ {p}) = n - 1
BY UpToSize, FS_RemoveElement

\* The slots in use come first.
LEMMA FirstErased ==
    ASSUME NEW rom \in Memory, PreambleEnds(rom), NEW b \in Bank
    PROVE  \E n \in 0 .. SLOTS : \A i \in Slot : rom[PreCell(b, i)] # ERASED <=> i < n
<1> DEFINE S == {i \in Slot : rom[PreCell(b, i)] = ERASED} \cup {SLOTS}
<1>1. S \in SUBSET Nat /\ S # {} /\ SLOTS \in Nat
  BY GeometryAssumption DEF Slot
<1>2. PICK n \in S : \A i \in S : n <= i
  BY <1>1, LeastNumber
<1>3. n \in 0 .. SLOTS
  BY <1>1, <1>2
<1>4. ASSUME NEW i \in Slot PROVE rom[PreCell(b, i)] # ERASED <=> i < n
  <2>0. i \in Nat /\ n \in Nat /\ i < SLOTS
    BY <1>1, <1>3 DEF Slot
  <2>1. CASE rom[PreCell(b, i)] = ERASED
    <3>1. n <= i
      BY <1>2, <2>1
    <3> QED BY <2>0, <2>1, <3>1
  <2>2. CASE rom[PreCell(b, i)] # ERASED
    <3>1. n # i
      BY <1>2, <2>0, <2>2
    <3>2. ~(n < i)
      <4> SUFFICES ASSUME n < i PROVE FALSE
        OBVIOUS
      <4>1. n \in Slot /\ rom[PreCell(b, n)] = ERASED
        BY <1>2, <2>0
      <4> QED BY <2>2, <4>1 DEF PreambleEnds
    <3> QED BY <2>0, <2>2, <3>1, <3>2
  <2> QED BY <2>1, <2>2
<1> QED BY <1>3, <1>4

PreambleIs(mem, rom, b) == \A i \in Slot : mem[PreCell(b, i)] = rom[PreCell(b, i)]

\* The preamble of bank b of rom with entry p struck out.
Struck(rom, w, b, p) ==
    /\ DOMAIN w = {PreCell(b, i) : i \in Slot}
    /\ \A j \in Slot : w[PreCell(b, j)] =
          IF j < p THEN rom[PreCell(b, j)]
          ELSE IF j + 1 \in Slot THEN rom[PreCell(b, j + 1)] ELSE ERASED

\* delete_file rewrites the preamble without the entry of the file: what
\* follows it moves up by one.
LEMMA EntryLeavesPreamble ==
    ASSUME NEW rom \in Memory, PreambleEnds(rom), NamedOnce(rom), NEW b \in Bank,
           NEW k \in Block, NEW p \in Slot, rom[PreCell(b, p)] = k,
           NEW mem, PreambleIs(mem, rom, b)
    PROVE  Struck(rom, PreambleWithout(mem, b, k), b, p)
<1> DEFINE w == PreambleWithout(mem, b, k)
<1>0. \A i \in Slot : mem[PreCell(b, i)] = rom[PreCell(b, i)]
  BY DEF PreambleIs
<1> SUFFICES Struck(rom, w, b, p)
  OBVIOUS
<1> HIDE DEF w
<1>1. PICK n \in 0 .. SLOTS : \A i \in Slot : rom[PreCell(b, i)] # ERASED <=> i < n
  BY FirstErased
<1>2. /\ Slot = 0 .. SLOTS - 1 /\ SLOTS \in Nat /\ n \in Nat /\ n <= SLOTS
      /\ p \in 0 .. n - 1 /\ p \in Nat /\ n \in Nat \ {0}
  BY <1>1, PreValue, GeometryAssumption DEF Slot
<1> DEFINE kept == {i \in Slot : Listed(mem, b, i) /\ mem[PreCell(b, i)] # k}
           rank(i) == Cardinality({j \in kept : j < i})
<1>3. \A i \in Slot : Listed(mem, b, i) <=> i < n
  <2> SUFFICES ASSUME NEW i \in Slot PROVE Listed(mem, b, i) <=> i < n
    OBVIOUS
  <2>1. \A j \in 0 .. i : j \in Slot /\ j <= i
    BY <1>2
  <2>2. i \in 0 .. i
    BY <1>2
  <2>3. CASE i < n
    <3>1. \A j \in 0 .. i : j < n
      BY <1>2, <2>1, <2>3
    <3> QED BY <1>0, <1>1, <2>1, <2>3, <3>1 DEF Listed
  <2>4. CASE ~(i < n)
    BY <1>0, <1>1, <2>2, <2>4 DEF Listed
  <2> QED BY <2>3, <2>4
<1>4. kept = (0 .. n - 1) \ {p}
  <2>1. ASSUME NEW i \in kept PROVE i \in (0 .. n - 1) \ {p}
    BY <1>0, <1>2, <1>3
  <2>2. ASSUME NEW i \in (0 .. n - 1) \ {p} PROVE i \in kept
    <3>1. i \in Slot /\ i < n /\ i # p
      BY <1>2
    <3>2. rom[PreCell(b, i)] # ERASED
      BY <1>1, <3>1
    <3>3. rom[PreCell(b, i)] # k
      BY <3>1, <3>2 DEF NamedOnce
    <3> QED BY <1>0, <1>3, <3>1, <3>3
  <2> QED BY <2>1, <2>2
<1> HIDE DEF kept
<1>5. ASSUME NEW i \in kept PROVE rank(i) = IF i < p THEN i ELSE i - 1
  <2>1. i \in Nat /\ i < n /\ i # p
    BY <1>2, <1>4
  <2>2. CASE i < p
    <3>1. {j \in kept : j < i} = 0 .. i - 1
      BY <1>2, <1>4, <2>1, <2>2
    <3> QED BY <2>1, <2>2, <3>1, UpToSize
  <2>3. CASE ~(i < p)
    <3>1. {j \in kept : j < i} = (0 .. i - 1) \ {p}
      BY <1>2, <1>4, <2>1, <2>3
    <3>2. p \in 0 .. i - 1
      BY <1>2, <2>1, <2>3
    <3> QED BY <2>1, <2>3, <3>1, <3>2, UpToWithout
  <2> QED BY <2>2, <2>3
<1>6. Cardinality(kept) = n - 1
  BY <1>2, <1>4, UpToWithout
<1> HIDE DEF rank
<1>7. w = [x \in {"pre"} \X {b} \X Slot |->
             IF \E i \in kept : rank(i) = x[3]
             THEN mem[PreCell(b, CHOOSE i \in kept : rank(i) = x[3])]
             ELSE IF x[3] < Cardinality(kept) + 2 THEN ERASED ELSE mem[x]]
  BY DEF PreambleWithout, kept, rank, w
<1>8. {"pre"} \X {b} \X Slot = {PreCell(b, i) : i \in Slot}
  BY DEF PreCell
<1>9. DOMAIN w = {PreCell(b, i) : i \in Slot}
  BY <1>7, <1>8
<1>10. ASSUME NEW j \in Slot
       PROVE  w[PreCell(b, j)] =
                 IF j < p THEN rom[PreCell(b, j)]
                 ELSE IF j + 1 \in Slot THEN rom[PreCell(b, j + 1)] ELSE ERASED
  <2>1. w[PreCell(b, j)] = IF \E i \in kept : rank(i) = j
                           THEN mem[PreCell(b, CHOOSE i \in kept : rank(i) = j)]
                           ELSE IF j < Cardinality(kept) + 2 THEN ERASED
                           ELSE mem[PreCell(b, j)]
    <3>1. PreCell(b, j) \in {"pre"} \X {b} \X Slot /\ PreCell(b, j)[3] = j
      BY DEF PreCell
    <3> QED BY <1>7, <3>1
  <2> DEFINE u == IF j < p THEN j ELSE j + 1
  <2>2. CASE u < n
    <3>1. u \in kept
      BY <1>2, <1>4, <2>2
    <3>2. rank(u) = j
      BY <1>2, <1>5, <3>1
    <3>3. \A i \in kept : rank(i) = j => i = u
      <4> SUFFICES ASSUME NEW i \in kept, rank(i) = j PROVE i = u
        OBVIOUS
      <4>1. j = IF i < p THEN i ELSE i - 1
        BY <1>5
      <4>2. i \in Nat /\ i # p
        BY <1>4
      <4> QED BY <1>2, <4>1, <4>2
    <3>4. (CHOOSE i \in kept : rank(i) = j) = u
      BY <3>1, <3>2, <3>3
    <3>5. w[PreCell(b, j)] = mem[PreCell(b, u)]
      BY <2>1, <3>1, <3>2, <3>4
    <3>6. u \in Slot
      BY <1>2, <2>2
    <3>7. w[PreCell(b, j)] = rom[PreCell(b, u)]
      BY <1>0, <3>5, <3>6
    <3> QED BY <3>6, <3>7
  <2>3. CASE ~(u < n)
    <3>1. ~(j < p)
      BY <1>2, <2>3
    <3>2. ~\E i \in kept : rank(i) = j
      <4> SUFFICES ASSUME NEW i \in kept, rank(i) = j PROVE FALSE
        OBVIOUS
      <4>1. j = IF i < p THEN i ELSE i - 1
        BY <1>5
      <4>2. i \in Nat /\ i # p /\ i < n
        BY <1>2, <1>4
      <4> QED BY <1>2, <2>3, <4>1, <4>2
    <3>3. w[PreCell(b, j)] = ERASED
      <4>1. CASE j < n + 1
        <5>1. j < Cardinality(kept) + 2
          BY <1>2, <1>6, <4>1
        <5> QED BY <2>1, <3>2, <5>1
      <4>2. CASE ~(j < n + 1)
        <5>1. ~(j < Cardinality(kept) + 2) /\ ~(j < n)
          BY <1>2, <1>6, <4>2
        <5>2. mem[PreCell(b, j)] = ERASED
          BY <1>0, <1>1, <5>1
        <5> QED BY <2>1, <3>2, <5>1, <5>2
      <4> QED BY <4>1, <4>2
    <3>4. j + 1 \in Slot => rom[PreCell(b, j + 1)] = ERASED
      <4>1. ~(j + 1 < n)
        BY <2>3, <3>1
      <4> QED BY <1>1, <4>1
    <3> QED BY <3>1, <3>3, <3>4
  <2> QED BY <2>2, <2>3
<1> QED BY <1>9, <1>10 DEF Struck

-----------------------------------------------------------------------------
(***************************************************************************)
(* The invariant of the directory.                                         *)
(***************************************************************************)
\* The chip as it will be when everything changed has been written.
Target == After(Mirror, chip)

\* A file more, a file less, or the same files.
StoredAs(prog) == [j \in 1 .. NrBlocks(prog) |-> prog[j]]
Becomes(rom, new) ==
    \/ FilesOn(new) = FilesOn(rom)
    \/ \E h \in Locs, prog \in Programs :
          NrBlocks(prog) # 0 /\ Added(rom, new, h, StoredAs(prog))
    \/ \E h \in Locs : Removed(rom, new, h)

\* Blocks seen lead from block l to block at.
Following(rom, l, seen, at) ==
    IF seen = <<>> THEN at = l
    ELSE seen[1] = l /\ Path(rom, seen) /\ at = rom[NextCell(seen[Len(seen)])]

KnownFiles == \A l \in DOMAIN files :
    /\ l \in Starts(chip)
    /\ files[l].blocks # <<>> => Following(chip, l, files[l].blocks, NoLoc)

LinkTrue ==
    op.pc = "link" => /\ Following(chip, op.start, op.seen, op.at)
                      /\ op.goal # "check" => op.start \in Starts(chip)

DirKept ==
    /\ sync = NoSync /\ op.pc # "format" => Directory(chip)
    /\ sync # NoSync \/ op.pc = "emit" => Directory(Target)
    /\ op.pc = "emit" => Becomes(chip, Target)
    /\ op.pc = "add" => Growing(chip, Target, op, NrBlocks(op.prog))
    /\ op.pc = "wipe" => \E h \in Locs : Shrinking(chip, Target, h, op.blocks)
    /\ LinkTrue
    /\ sync = NoSync /\ op.pc \notin {"format", "reaccess", "index"} => KnownFiles

\* The check after a sync is made of a file that is in the directory.
CheckKept ==
    /\ op.pc # "alarm"
    /\ lastbankblock # NoLoc =>
          \/ (op.pc = "emit" \/ sync # NoSync) /\ lastbankblock \in Starts(Target)
          \/ op.pc = "link" /\ op.goal = "check"
          \/ op.pc = "throw"
    /\ op.pc = "link" /\ op.goal = "check" =>
          /\ op.start \in Starts(chip)
          /\ \A i \in DOMAIN op.seen : cache_status[MetaPage(op.seen[i])] # CACHE_UNKNOWN

NoEmpty  == \A p \in Programs : NrBlocks(p) # 0

Cautious == ~UseMenuInSync /\ ~SpanningDelete
DirInv == CacheInv /\ (Cautious /\ crashes = 0 => DirKept /\ (NoEmpty => CheckKept))

-----------------------------------------------------------------------------
(***************************************************************************)
(* What the chip will be.                                                  *)
(***************************************************************************)
LEMMA AllTracked ==
    ASSUME ~SpanningDelete
    PROVE  Tracked = Cell
BY DEF Tracked

LEMMA AfterType ==
    ASSUME NEW m \in CacheType, NEW rom \in Memory
    PROVE  After(m, rom) \in Memory
<1>1. \A x \in Cell : After(m, rom)[x] \in ValuesOf(x[1])
  <2>1. \A x \in Cell : m.c[x] \in ValuesOf(x[1]) /\ rom[x] \in ValuesOf(x[1])
    BY MemoryValue DEF CacheType
  <2> QED BY <2>1 DEF After
<1>2. After(m, rom) = [x \in Cell |-> After(m, rom)[x]]
  BY DEF After
<1> QED BY <1>1, <1>2, MemoryByCell

LEMMA AfterIsChip ==
    ASSUME NEW m, NEW rom \in Memory, NoDirty(m.s)
    PROVE  After(m, rom) = rom
<1>1. \A s : ~ToWrite(m.s, s)
  BY NoDirtyClean
<1>2. rom = [x \in Cell |-> rom[x]]
  BY DEF Memory
<1> QED BY <1>1, <1>2 DEF After

\* What is in the cache, of a page that has been read, is what is to come.
LEMMA HeldIsAfter ==
    ASSUME ~SpanningDelete, NEW m \in CacheType, NEW rom, Right(m, rom), NEW x \in Cell,
           m.s[PageOf[x]] # CACHE_UNKNOWN
    PROVE  m.c[x] = After(m, rom)[x]
<1>1. After(m, rom)[x] = IF ToWrite(m.s, SectorOf[PageOf[x]]) THEN m.c[x] ELSE rom[x]
  BY DEF After
<1>2. ASSUME ~ToWrite(m.s, SectorOf[PageOf[x]]) PROVE m.c[x] = rom[x]
  <2>1. PageOf[x] \in Page /\ m.s[PageOf[x]] = CACHE_SYNCED
    BY <1>2, PageOfCell, StatusFacts DEF ToWrite, CacheType
  <2>2. x \in Tracked
    BY AllTracked
  <2>3. CASE Erasing(m.s)
    BY <1>2, <2>1, <2>2, <2>3 DEF Right, DeleteRight, HeldElsewhere
  <2>4. CASE ~Erasing(m.s)
    BY <2>1, <2>2, <2>4 DEF Right, AddRight, HeldOrBlank
  <2> QED BY <2>3, <2>4
<1> QED BY <1>1, <1>2

LEMMA AfterRead ==
    ASSUME NEW m, NEW rom, NEW P, NEW f, IsRead(m, rom, P, f), Clean(m.s, P)
    PROVE  After(f, rom) = After(m, rom)
<1>1. ASSUME NEW x \in Cell
      PROVE  (IF ToWrite(f.s, SectorOf[PageOf[x]]) THEN f.c[x] ELSE rom[x])
             = (IF ToWrite(m.s, SectorOf[PageOf[x]]) THEN m.c[x] ELSE rom[x])
  <2>1. ToWrite(f.s, SectorOf[PageOf[x]]) <=> ToWrite(m.s, SectorOf[PageOf[x]])
    BY ReadStatuses
  <2>2. ToWrite(m.s, SectorOf[PageOf[x]]) => f.c[x] = m.c[x]
    BY PageOfCell DEF IsRead, Clean
  <2> QED BY <2>1, <2>2
<1> QED BY <1>1 DEF After

\* What is written over sectors that have been read, and are to be written.
LEMMA AfterWrite ==
    ASSUME ~SpanningDelete, NEW m \in CacheType, NEW rom, Right(m, rom),
           NEW w, NEW P, NEW st \in Dirty, NEW n, IsWrite(m, w, P, st, n),
           \A x \in Cell : x \in DOMAIN w => ToWrite(n.s, SectorOf[PageOf[x]]),
           \A p \in Page : p \in P => SectorLoaded(m.s, SectorOf[p])
    PROVE  \A x \in Cell : After(n, rom)[x] = IF x \in DOMAIN w THEN w[x]
                                              ELSE After(m, rom)[x]
<1> SUFFICES ASSUME NEW x \in Cell
             PROVE  After(n, rom)[x] = IF x \in DOMAIN w THEN w[x] ELSE After(m, rom)[x]
  OBVIOUS
<1> DEFINE s == SectorOf[PageOf[x]]
<1>1. /\ After(n, rom)[x] = IF ToWrite(n.s, s) THEN n.c[x] ELSE rom[x]
      /\ After(m, rom)[x] = IF ToWrite(m.s, s) THEN m.c[x] ELSE rom[x]
  BY DEF After
<1>2. n.c[x] = IF x \in DOMAIN w THEN w[x] ELSE m.c[x]
  BY DEF IsWrite
<1>3. CASE x \in DOMAIN w
  BY <1>1, <1>2, <1>3
<1>4. CASE x \notin DOMAIN w
  <2>1. ToWrite(m.s, s) => ToWrite(n.s, s)
    BY DEF ToWrite, IsWrite
  <2>2. ASSUME ToWrite(n.s, s), ~ToWrite(m.s, s) PROVE m.c[x] = rom[x]
    <3>1. PICK p \in Page : SectorOf[p] = s /\ n.s[p] \in Dirty
      BY <2>2 DEF ToWrite
    <3>2. p \in P
      BY <2>2, <3>1 DEF ToWrite, IsWrite
    <3>3. SectorLoaded(m.s, s) /\ PageOf[x] \in PagesIn[s]
      BY <3>1, <3>2, PageOfCell, SectorOfIsSector
    <3>4. m.s[PageOf[x]] # CACHE_UNKNOWN
      BY <3>3 DEF SectorLoaded
    <3>5. m.c[x] = After(m, rom)[x]
      BY <3>4, HeldIsAfter
    <3> QED BY <1>1, <2>2, <3>5
  <2> QED BY <1>1, <1>2, <1>4, <2>1, <2>2
<1> QED BY <1>3, <1>4

\* An erase of a sector that is to be written takes nothing from it.
LEMMA AfterErase ==
    ASSUME NEW m, NEW rom, NEW s, ToWrite(m.s, s)
    PROVE  After(m, Erased(rom, s)) = After(m, rom)
<1>1. ASSUME NEW x \in Cell
      PROVE  (IF ToWrite(m.s, SectorOf[PageOf[x]]) THEN m.c[x] ELSE Erased(rom, s)[x])
             = (IF ToWrite(m.s, SectorOf[PageOf[x]]) THEN m.c[x] ELSE rom[x])
  BY DEF Erased, InSector
<1> QED BY <1>1 DEF After

\* A sector burnt holds what the cache held.
LEMMA BurntIsHeld ==
    ASSUME ~SpanningDelete, IInv, Kept, sync.pc = "burn", NEW x \in Cell,
           InSector(x, sync.sector)
    PROVE  Burnt(chip, sync.sector, sync.image)[x] = contents[x]
<1>1. sync # NoSync
  BY DEF NoSync
<1>2. /\ sync \in SyncRec /\ chip \in Memory
      /\ Mirror \in CacheType /\ Mirror.c = contents /\ Mirror.s = sync.status
      /\ sync.image = contents /\ Right(Mirror, chip) /\ LoadedPages(Mirror.s)
  BY <1>1, ThreadFacts
<1>3. /\ NextSector(sync.sector)
      /\ Erasing(sync.status) => chip[x] = ERASED
  BY <1>1 DEF Kept, ThreadAlone
<1>4. Burnt(chip, sync.sector, sync.image)[x] = BitAnd(chip[x], contents[x])
  BY <1>2 DEF Burnt
<1>5. chip[x] \in Word /\ contents[x] \in Word
  BY <1>2, MemoryValue DEF CacheType
<1>6. chip[x] = ERASED \/ chip[x] = contents[x]
  <2>1. CASE Erasing(Mirror.s)
    BY <1>2, <1>3, <2>1
  <2>2. CASE ~Erasing(Mirror.s)
    <3>1. ToWrite(Mirror.s, sync.sector)
      BY <1>1, <1>2, <1>3, NextIsFirst
    <3>2. PICK p \in Page : SectorOf[p] = sync.sector /\ Mirror.s[p] \in Dirty
      BY <3>1 DEF ToWrite
    <3>3. SectorLoaded(Mirror.s, sync.sector)
      BY <1>2, <3>2 DEF LoadedPages
    <3>4. PageOf[x] \in Page /\ PageOf[x] \in PagesIn[sync.sector]
      BY PageOfCell, SectorOfIsSector DEF InSector
    <3>5. Mirror.s[PageOf[x]] # CACHE_UNKNOWN /\ Mirror.s[PageOf[x]] \in Status
      BY <1>2, <3>3, <3>4 DEF SectorLoaded, CacheType
    <3>6. x \in Tracked /\ HeldOrBlank(Mirror, chip)
      BY <1>2, <2>2, AllTracked DEF Right, AddRight
    <3> QED BY <1>2, <3>5, <3>6, StatusFacts DEF HeldOrBlank
  <2> QED BY <2>1, <2>2
<1> QED BY <1>4, <1>5, <1>6, WordAssumption

\* A burn brings the chip nearer to what it is to be.
LEMMA AfterBurn ==
    ASSUME ~SpanningDelete, IInv, Kept, sync.pc = "burn",
           NEW n, IsSynced(Mirror, sync.sector, n), NEW new,
           new = Burnt(chip, sync.sector, sync.image)
    PROVE  After(n, new) = After(Mirror, chip)
<1>1. sync # NoSync
  BY DEF NoSync
<1>2. /\ Mirror.c = contents /\ Mirror.s = sync.status /\ LoadedPages(Mirror.s)
      /\ NextSector(sync.sector)
  BY <1>1, ThreadFacts DEF Kept, ThreadAlone
<1>3. ToWrite(Mirror.s, sync.sector)
  BY <1>1, <1>2, NextIsFirst
<1>4. \A t : ToWrite(n.s, t) <=> ToWrite(Mirror.s, t) /\ t # sync.sector
  BY <1>2, <1>3, SyncedStatuses
<1>5. ASSUME NEW x \in Cell
      PROVE  (IF ToWrite(n.s, SectorOf[PageOf[x]]) THEN n.c[x] ELSE new[x])
             = (IF ToWrite(Mirror.s, SectorOf[PageOf[x]]) THEN Mirror.c[x] ELSE chip[x])
  <2>1. CASE SectorOf[PageOf[x]] = sync.sector
    <3>1. new[x] = contents[x]
      BY <2>1, BurntIsHeld DEF InSector
    <3> QED BY <1>2, <1>3, <1>4, <2>1, <3>1
  <2>2. CASE SectorOf[PageOf[x]] # sync.sector
    <3>1. new[x] = chip[x]
      BY <2>2 DEF Burnt, InSector
    <3> QED BY <1>4, <2>2, <3>1 DEF IsSynced
  <2> QED BY <2>1, <2>2
<1> QED BY <1>5 DEF After

-----------------------------------------------------------------------------
(***************************************************************************)
(* What a step leaves to show.                                             *)
(***************************************************************************)
LEMMA TargetAlone ==
    ASSUME sync = NoSync
    PROVE  Target = After(Cache, chip)
BY DEF Target, Mirror, Pending, Cache

LEMMA TargetNext ==
    ASSUME sync' = NoSync, NEW m \in CacheType, SetCache(m)
    PROVE  Target' = After(m, chip')
<1>1. m = [c |-> m.c, s |-> m.s]
  BY DEF CacheType
<1>2. Mirror' = m
  BY <1>1 DEF SetCache, Mirror, Pending
<1> QED BY <1>2 DEF Target

LEMMA TargetIsChip ==
    ASSUME Alone, op.pc \notin {"add", "wipe", "emit", "throw"}
    PROVE  Target = chip
BY AloneFacts, TargetAlone, AfterIsChip DEF Alone

LEMMA RestDir ==
    ASSUME sync' = NoSync, op'.pc \notin {"format", "emit", "add", "wipe", "link"},
           Directory(chip'), op'.pc \in {"reaccess", "index"} \/ KnownFiles'
    PROVE  DirKept'
BY DEF DirKept, LinkTrue

LEMMA LinkDir ==
    ASSUME sync' = NoSync, op'.pc = "link", Directory(chip'), KnownFiles', LinkTrue'
    PROVE  DirKept'
BY DEF DirKept

LEMMA FormatDir ==
    ASSUME sync' = NoSync, op'.pc = "format"
    PROVE  DirKept'
BY DEF DirKept, LinkTrue

LEMMA RestCheck ==
    ASSUME op'.pc \notin {"alarm", "link"}, lastbankblock' = NoLoc \/ op'.pc = "throw"
    PROVE  CheckKept'
BY DEF CheckKept

LEMMA NothingToCheck ==
    ASSUME CheckKept, sync = NoSync, op.pc \notin {"emit", "link", "throw"}
    PROVE  lastbankblock = NoLoc
BY DEF CheckKept

LEMMA KnownStay ==
    ASSUME KnownFiles, UNCHANGED <<chip, files>>
    PROVE  KnownFiles'
BY DEF KnownFiles

LEMMA NoneKnown ==
    ASSUME files' = NoFiles
    PROVE  KnownFiles'
BY DEF KnownFiles, NoFiles

-----------------------------------------------------------------------------
(***************************************************************************)
(* The directory read, and formatting.                                     *)
(***************************************************************************)
LEMMA DirectoryIsRead ==
    ASSUME ~SpanningDelete, NEW m \in CacheType, chip \in Memory, NoDirty(m.s), Right(m, chip)
    PROVE  Starts(WithDirectory(m).c) = Starts(chip)
<1> DEFINE m1 == read_block(m, chip, PrePages)
           S == {MetaSector(BankOf(l)) : l \in Starts(m1.c)}
           n == WithDirectory(m)
<1>1. n \in CacheType /\ NoDirty(n.s) /\ Right(n, chip)
  BY DirectoryRight
<1>2. m1 \in CacheType
  BY ReadType
<1>3. n = read_sector(m1, chip, S)
  BY DEF WithDirectory
<1>4. ASSUME NEW b \in Bank PROVE m1.s[PrePage(b)] = CACHE_SYNCED
  <2>1. PrePage(b) \in PrePages /\ PrePage(b) \in Page
    BY PrePageIsPage DEF PrePages
  <2> QED BY <2>1 DEF read_block, Fetch
<1> HIDE DEF m1
<1>5. S \subseteq Sector
  <2>1. Starts(m1.c) \subseteq Locs
    BY <1>2, StartsInLocs DEF CacheType
  <2> QED BY <2>1, LocParts, MetaSectorOf
<1> HIDE DEF S, n
<1>6. ASSUME NEW b \in Bank PROVE n.s[PrePage(b)] # CACHE_UNKNOWN
  <2>1. n.s[PrePage(b)] = IF SectorOf[PrePage(b)] \in Unread(m1, S) THEN CACHE_SYNCED
                          ELSE m1.s[PrePage(b)]
    BY <1>3, <1>5, ReadSectorCells, PrePageIsPage
  <2> QED BY <1>4, <2>1, StatusFacts
<1>7. ASSUME NEW b \in Bank, NEW i \in Slot PROVE n.c[PreCell(b, i)] = chip[PreCell(b, i)]
  <2>1. PreCell(b, i) \in Cell /\ PageOf[PreCell(b, i)] = PrePage(b)
    <3>1. PreCell(b, i) \in PreCells /\ PreCell(b, i)[2] = b
      BY DEF PreCell, PreCells
    <3> QED BY <3>1, PreCellOf
  <2>2. n.c[PreCell(b, i)] = After(n, chip)[PreCell(b, i)]
    BY <1>1, <1>6, <2>1, HeldIsAfter
  <2> QED BY <1>1, <2>2, AfterIsChip
<1>8. Starts(n.c) = Starts(chip)
  BY <1>7, SamePreambles
<1> QED BY <1>8 DEF n

LEMMA IndexDir ==
    ASSUME ~SpanningDelete, NEW m \in CacheType, chip \in Memory, NoDirty(m.s),
           Right(m, chip), index_files(m), chip' = chip
    PROVE  KnownFiles' /\ DOMAIN files' = Starts(chip)
<1>1. files' = [l \in Starts(chip) |-> [blocks |-> <<>>, loaded |-> FALSE]]
  BY DirectoryIsRead DEF index_files
<1> QED BY <1>1 DEF KnownFiles

LEMMA AccessDir ==
    ASSUME ~SpanningDelete, Alone, DirKept, Access, UNCHANGED <<chip, sync, lastbankblock>>,
           op.pc \in {"off", "nofat", "idle", "reaccess"}
    PROVE  DirKept' /\ (CheckKept => CheckKept')
<1> DEFINE checked == {b \in Bank : \A b2 \in BadBanks : b <= b2}
           S == {MetaSector(b) : b \in checked}
           m == read_sector(Fresh, chip, S)
<1>1. chip \in Memory /\ FreeIn(chip) /\ sync = NoSync /\ sync' = NoSync
  BY AloneFacts DEF Alone
<1>2. S \subseteq Sector
  BY MetaSectorOf
<1> HIDE DEF S
<1>3. m \in CacheType /\ NoDirty(m.s) /\ Right(m, chip)
  BY <1>1, <1>2, FreshType, FreshRight, ReadType, ReadLoads, NoDirtyLoaded, ReadSectorRight
<1>4. \/ index_files(m) /\ At("idle")
      \/ files' = NoFiles /\ At("ask")
  BY DEF Access, S
<1> HIDE DEF m
<1>5. KnownFiles'
  BY <1>1, <1>3, <1>4, IndexDir, NoneKnown
<1>6. op'.pc \in {"idle", "ask"}
  BY <1>4 DEF At
<1>7. Directory(chip')
  BY <1>1 DEF DirKept
<1>8. CheckKept => lastbankblock' = NoLoc
  BY <1>1, NothingToCheck
<1> QED BY <1>1, <1>5, <1>6, <1>7, <1>8, RestDir, RestCheck

LEMMA DeclineDir ==
    ASSUME Alone, DirKept, DeclineFormat, UNCHANGED sync
    PROVE  DirKept' /\ (CheckKept => CheckKept')
<1>1. /\ sync = NoSync /\ sync' = NoSync /\ op.pc = "ask" /\ op'.pc = "nofat"
      /\ files' = NoFiles /\ chip' = chip /\ lastbankblock' = lastbankblock
  BY DEF Alone, DeclineFormat, At
<1>2. Directory(chip')
  BY <1>1 DEF DirKept
<1>3. CheckKept => lastbankblock' = NoLoc
  BY <1>1, NothingToCheck
<1> QED BY <1>1, <1>2, <1>3, NoneKnown, RestDir, RestCheck

LEMMA StartFormatDir ==
    ASSUME Alone, NEW again, StartFormat(again), op.pc \in {"ask", "idle"}, UNCHANGED sync
    PROVE  DirKept' /\ (CheckKept => CheckKept')
<1>1. /\ sync = NoSync /\ sync' = NoSync /\ op'.pc = "format"
      /\ lastbankblock' = lastbankblock
  BY DEF Alone, StartFormat
<1>2. CheckKept => lastbankblock' = NoLoc
  BY <1>1, NothingToCheck
<1> QED BY <1>1, <1>2, FormatDir, RestCheck

LEMMA FormatEraseDir ==
    ASSUME Alone, FormatErase, UNCHANGED sync
    PROVE  DirKept' /\ (CheckKept => CheckKept')
<1>1. op.pc = "format" /\ op \in Formatting
  BY OpCases DEF FormatErase, Alone, IInv, TypeOK, FatTypeOK
<1>2. /\ sync = NoSync /\ sync' = NoSync /\ op'.pc = "format"
      /\ lastbankblock' = lastbankblock
  BY <1>1 DEF Alone, FormatErase, Formatting
<1>3. CheckKept => lastbankblock' = NoLoc
  BY <1>1, <1>2, NothingToCheck
<1> QED BY <1>2, <1>3, FormatDir, RestCheck

\* The last burn of a format: all banks are blank but for its marks.
LEMMA LastBankBurnt ==
    ASSUME Alone, FormatBurn, op.pc = "format", op \in Formatting, op.bank + 1 \notin Bank
    PROVE  \A x \in Cell : x[1] # "fmt" => chip'[x] = ERASED
<1>1. /\ op.sector \in Nat /\ op.sector > LastSector
      /\ op.bank \in Bank /\ op.bank \in Int /\ NBANKS \in Int
  <2>1. op.sector \in 0 .. LastSector + 1 /\ op.bank \in Bank /\ op.sector > LastSector
    BY DEF FormatBurn, Formatting
  <2> QED BY <2>1, LastSectorNat, GeometryAssumption DEF Bank
<1> SUFFICES ASSUME NEW x \in Cell, x[1] # "fmt" PROVE chip'[x] = ERASED
  OBVIOUS
<1>2. PICK n \in 0 .. LastSector : SectorOf[PageOf[x]] = <<x[2], n>> /\ x[2] \in Bank
  BY SectorOfCell
<1>3. x[2] < op.bank \/ (x[2] = op.bank /\ n < op.sector)
  <2>1. x[2] \in Int /\ n \in Int /\ n <= LastSector /\ LastSector \in Int
    BY <1>2, LastSectorNat, GeometryAssumption DEF Bank
  <2>2. x[2] <= op.bank
    BY <1>1, <1>2, GeometryAssumption DEF Bank
  <2> QED BY <1>1, <2>1, <2>2
<1>4. chip[x] = ERASED
  BY <1>2, <1>3 DEF Alone, Kept, FormatProgress
<1>5. chip'[x] = chip[x] \/ chip'[x] = BitAnd(chip[x], ERASED)
  BY DEF FormatBurn, burn_sector, Burnt, FormatImage
<1> QED BY <1>4, <1>5, WordAssumption

\* The format leaves an empty directory.
LEMMA FormatBurnDir ==
    ASSUME Alone, FormatBurn, UNCHANGED sync
    PROVE  DirKept' /\ (CheckKept => CheckKept')
<1>1. /\ op.pc = "format" /\ op \in Formatting /\ sync' = NoSync /\ sync = NoSync
      /\ chip \in Memory /\ lastbankblock' = lastbankblock
  BY OpCases, AloneFacts DEF FormatBurn, Alone, IInv, TypeOK, FatTypeOK
<1>2. CheckKept => lastbankblock' = NoLoc
  BY <1>1, NothingToCheck
<1>3. CASE op.bank + 1 \in Bank
  <2>1. op'.pc = "format"
    BY <1>1, <1>3 DEF FormatBurn, Formatting
  <2> QED BY <1>1, <1>2, <2>1, FormatDir, RestCheck
<1>4. CASE op.bank + 1 \notin Bank
  <2>1. op'.pc \in {"reaccess", "index"}
    BY <1>4 DEF FormatBurn, At
  <2>2. \A x \in Cell : x[1] # "fmt" => chip'[x] = ERASED
    BY <1>1, <1>4, LastBankBurnt
  <2>3. chip' \in Memory
    BY <1>1, BlankAndZeros, BurntType DEF FormatBurn, burn_sector
  <2>4. Directory(chip')
    BY <2>2, <2>3, BlankDirectory
  <2> QED BY <1>1, <1>2, <2>1, <2>4, RestDir, RestCheck
<1> QED BY <1>3, <1>4

LEMMA IndexFormattedDir ==
    ASSUME ~SpanningDelete, Alone, DirKept, IndexFormatted, UNCHANGED sync
    PROVE  DirKept' /\ (CheckKept => CheckKept')
<1>1. /\ op.pc = "index" /\ op'.pc = "idle" /\ chip' = chip /\ index_files(Cache)
      /\ lastbankblock' = lastbankblock
  BY DEF IndexFormatted, At
<1>2. /\ Cache \in CacheType /\ chip \in Memory /\ Right(Cache, chip)
      /\ NoDirty(Cache.s) /\ sync' = NoSync /\ sync = NoSync
  BY <1>1, AloneFacts DEF Alone
<1>3. KnownFiles'
  BY <1>1, <1>2, IndexDir
<1>4. Directory(chip')
  BY <1>1, <1>2 DEF DirKept
<1>5. CheckKept => lastbankblock' = NoLoc
  BY <1>1, <1>2, NothingToCheck
<1> QED BY <1>1, <1>2, <1>3, <1>4, <1>5, RestDir, RestCheck

LEMMA SmallStepDir ==
    ASSUME Alone, DirKept, CloseAlarm \/ AddRagged, UNCHANGED sync
    PROVE  DirKept' /\ (CheckKept => CheckKept')
<1>1. /\ op.pc \in {"alarm", "idle"} /\ op'.pc \in {"idle", "throw"}
      /\ UNCHANGED <<chip, files, lastbankblock>> /\ sync = NoSync /\ sync' = NoSync
  BY DEF CloseAlarm, AddRagged, At, Alone
<1>2. Directory(chip') /\ KnownFiles'
  BY <1>1, KnownStay DEF DirKept
<1>3. CheckKept => lastbankblock' = NoLoc
  BY <1>1, NothingToCheck
<1> QED BY <1>1, <1>2, <1>3, RestDir, RestCheck

-----------------------------------------------------------------------------
(***************************************************************************)
(* Files followed.                                                         *)
(***************************************************************************)
LEMMA FollowOn ==
    ASSUME NEW rom, NEW l \in Locs, NEW seen \in Seq(Locs), NEW at \in Locs,
           Following(rom, l, seen, at)
    PROVE  Following(rom, l, Append(seen, at), rom[NextCell(at)])
<1> DEFINE s == Append(seen, at)
           n == Len(seen)
<1>1. n \in Nat /\ s \in Seq(Locs) /\ Len(s) = n + 1 /\ s # <<>> /\ s[n + 1] = at
  OBVIOUS
<1>2. \A i \in 1 .. n : s[i] = seen[i]
  OBVIOUS
<1> SUFFICES Following(rom, l, s, rom[NextCell(at)])
  OBVIOUS
<1> HIDE DEF s
<1>3. CASE seen = <<>>
  <2>1. n = 0 /\ at = l
    BY <1>3 DEF Following
  <2>2. s[1] = l /\ Path(rom, s)
    BY <1>1, <2>1 DEF Path
  <2> QED BY <1>1, <2>1, <2>2 DEF Following
<1>4. CASE seen # <<>>
  <2>1. n >= 1 /\ seen[1] = l /\ Path(rom, seen) /\ at = rom[NextCell(seen[n])]
    BY <1>4 DEF Following
  <2>2. ASSUME NEW i \in 1 .. Len(s) - 1 PROVE rom[NextCell(s[i])] = s[i + 1]
    <3>1. i \in 1 .. n /\ n \in Nat
      BY <1>1
    <3>2. CASE i = n
      BY <1>1, <1>2, <2>1, <3>1, <3>2
    <3>3. CASE i # n
      <4>1. i \in 1 .. n - 1 /\ i + 1 \in 1 .. n
        BY <3>1, <3>3
      <4> QED BY <1>2, <2>1, <4>1 DEF Path
    <3> QED BY <3>2, <3>3
  <2>3. Len(s) \in Nat \ {0}
    BY <1>1
  <2>4. Path(rom, s) /\ s[1] = l
    BY <1>1, <1>2, <2>1, <2>2, <2>3 DEF Path
  <2> QED BY <1>1, <2>4 DEF Following
<1> QED BY <1>3, <1>4

\* Links followed to the end are the chain of the file.
LEMMA FollowedIs ==
    ASSUME NEW rom \in Memory, Upward(rom), NEW l, NEW seen, seen # <<>>,
           Following(rom, l, seen, NoLoc)
    PROVE  /\ ChainOf(rom, l) = seen /\ seen[1] = l
           /\ Len(seen) \in Nat \ {0} /\ DOMAIN seen = 1 .. Len(seen) /\ l \in Locs
<1>1. Path(rom, seen) /\ Ends(rom, seen) /\ seen[1] = l
  BY DEF Following, Ends
<1>2. Len(seen) <= NBANKS * NBLOCKS /\ seen \in Seq(Locs) /\ Len(seen) \in Nat \ {0}
  BY <1>1, PathIsShort DEF Path
<1>3. Len(seen) <= NBANKS * NBLOCKS + 1
  BY <1>2, LocsFinite
<1>4. DOMAIN seen = 1 .. Len(seen) /\ seen[1] \in Locs
  BY <1>2
<1> QED BY <1>1, <1>2, <1>3, <1>4, ChainIs

LEMMA StartListDir ==
    ASSUME Alone, DirKept, op.pc = "idle", NEW l \in DOMAIN files, NEW goal, goal # "check",
           StartLink(goal, l, files[l].blocks),
           UNCHANGED <<sync, chip, files, lastbankblock>>
    PROVE  DirKept' /\ (CheckKept => CheckKept')
<1>1. sync = NoSync /\ sync' = NoSync
  BY DEF Alone
<1>2. Directory(chip') /\ KnownFiles'
  BY <1>1, KnownStay DEF DirKept
<1>3. /\ op'.pc = "link" /\ op'.goal = goal /\ op'.start = l /\ op'.seen = files[l].blocks
      /\ op'.at = IF files[l].blocks = <<>> THEN l ELSE NoLoc
  BY DEF StartLink
<1>4. l \in Starts(chip) /\ Following(chip, op'.start, op'.seen, op'.at)
  <2>1. KnownFiles
    BY <1>1 DEF DirKept
  <2>2. CASE files[l].blocks = <<>>
    BY <1>3, <2>1, <2>2 DEF KnownFiles, Following
  <2>3. CASE files[l].blocks # <<>>
    BY <1>3, <2>1, <2>3 DEF KnownFiles
  <2> QED BY <2>1, <2>2, <2>3 DEF KnownFiles
<1>5. LinkTrue'
  BY <1>3, <1>4 DEF LinkTrue
<1>6. CheckKept => CheckKept'
  <2>1. CheckKept => lastbankblock' = NoLoc
    BY <1>1, NothingToCheck
  <2> QED BY <1>3, <2>1 DEF CheckKept
<1> QED BY <1>1, <1>2, <1>3, <1>5, <1>6, LinkDir

\* A page read while nothing is to be written holds what the chip holds.
LEMMA PageIsRead ==
    ASSUME ~SpanningDelete, NEW m \in CacheType, chip \in Memory, NoDirty(m.s),
           Right(m, chip), NEW P, NEW f, f = read_block(m, chip, P)
    PROVE  /\ \A p \in Page : p \in P => f.s[p] # CACHE_UNKNOWN
           /\ \A p \in Page : m.s[p] # CACHE_UNKNOWN => f.s[p] # CACHE_UNKNOWN
           /\ \A x \in Cell : f.s[PageOf[x]] # CACHE_UNKNOWN => f.c[x] = chip[x]
<1>1. f \in CacheType /\ NoDirty(f.s) /\ Right(f, chip)
  BY ReadType, ReadLoads, ReadBlockRight
<1>2. \A p \in Page : f.s[p] = IF p \in P /\ m.s[p] # CACHE_SYNCED THEN CACHE_SYNCED ELSE m.s[p]
  BY DEF read_block, Fetch
<1>3. ASSUME NEW x \in Cell, f.s[PageOf[x]] # CACHE_UNKNOWN PROVE f.c[x] = chip[x]
  <2>1. f.c[x] = After(f, chip)[x]
    BY <1>1, <1>3, HeldIsAfter
  <2> QED BY <1>1, <2>1, AfterIsChip
<1> QED BY <1>2, <1>3, StatusFacts

LEMMA LinkStepDir ==
    ASSUME ~SpanningDelete, Alone, DirKept, LinkStep, UNCHANGED sync
    PROVE  DirKept' /\ (CheckKept => CheckKept')
<1>1. /\ op.pc = "link" /\ op.at # NoLoc /\ op \in Linking
      /\ UNCHANGED <<chip, files, lastbankblock>>
  BY OpCases DEF LinkStep, Alone, IInv, TypeOK, FatTypeOK
<1>2. /\ Cache \in CacheType /\ chip \in Memory /\ NoDirty(Cache.s)
      /\ Right(Cache, chip) /\ sync = NoSync /\ sync' = NoSync /\ Cache.s = cache_status
  BY <1>1, AloneFacts DEF Alone
<1>3. Directory(chip') /\ KnownFiles' /\ LinkTrue
  BY <1>1, <1>2, KnownStay DEF DirKept
<1>4. CASE Len(op.seen) >= MAX_LINKS \/ ~port
  <2>1. op'.pc = "throw"
    BY <1>4 DEF LinkStep, At
  <2> QED BY <1>2, <1>3, <2>1, RestDir, RestCheck
<1>5. CASE ~(Len(op.seen) >= MAX_LINKS \/ ~port)
  <2> DEFINE m == read_block(Cache, chip, {MetaPage(op.at)})
  <2>1. /\ op.at \in Locs /\ op.start \in Locs /\ op.seen \in Seq(Locs)
    BY <1>1 DEF Linking
  <2>2. /\ op'.pc = "link" /\ op'.goal = op.goal /\ op'.start = op.start
        /\ op'.seen = Append(op.seen, op.at) /\ op'.at = m.c[NextCell(op.at)]
        /\ cache_status' = m.s
    BY <1>1, <1>5 DEF LinkStep, Linking, SetCache
  <2>3. /\ \A p \in Page : p \in {MetaPage(op.at)} => m.s[p] # CACHE_UNKNOWN
        /\ \A p \in Page : Cache.s[p] # CACHE_UNKNOWN => m.s[p] # CACHE_UNKNOWN
        /\ \A x \in Cell : m.s[PageOf[x]] # CACHE_UNKNOWN => m.c[x] = chip[x]
    BY <1>2, PageIsRead
  <2> HIDE DEF m
  <2>4. /\ MetaPage(op.at) \in Page /\ NextCell(op.at) \in Cell
        /\ PageOf[NextCell(op.at)] = MetaPage(op.at)
    BY <2>1, PagesOfLoc, CellsOfBlock
  <2>5. op'.at = chip[NextCell(op.at)]
    BY <2>2, <2>3, <2>4
  <2>6. LinkTrue'
    <3>1. Following(chip, op.start, op.seen, op.at)
      BY <1>1, <1>3 DEF LinkTrue
    <3>2. Following(chip, op'.start, op'.seen, op'.at)
      BY <2>1, <2>2, <2>5, <3>1, FollowOn
    <3> QED BY <1>1, <1>3, <2>2, <3>2 DEF LinkTrue
  <2>7. ASSUME CheckKept PROVE CheckKept'
    <3>1. lastbankblock # NoLoc => op.goal = "check"
      BY <1>1, <1>2, <2>7 DEF CheckKept
    <3>2. ASSUME op.goal = "check", NEW i \in DOMAIN op'.seen
          PROVE  m.s[MetaPage(op'.seen[i])] # CACHE_UNKNOWN
      <4>1. \/ i \in DOMAIN op.seen /\ op'.seen[i] = op.seen[i]
            \/ op'.seen[i] = op.at
        BY <2>1, <2>2
      <4>2. CASE op'.seen[i] = op.at
        BY <2>3, <2>4, <4>2
      <4>3. CASE i \in DOMAIN op.seen /\ op'.seen[i] = op.seen[i]
        <5>1. op.seen[i] \in Locs
          BY <2>1, <4>3
        <5>2. cache_status[MetaPage(op.seen[i])] # CACHE_UNKNOWN
          BY <1>1, <2>7, <3>2, <4>3 DEF CheckKept
        <5> QED BY <1>2, <2>3, <4>3, <5>1, <5>2, PagesOfLoc
      <4> QED BY <4>1, <4>2, <4>3
    <3>3. op.goal = "check" => op.start \in Starts(chip)
      BY <1>1, <2>7 DEF CheckKept
    <3> QED BY <1>1, <2>2, <3>1, <3>2, <3>3 DEF CheckKept
  <2> QED BY <1>2, <1>3, <2>2, <2>6, <2>7, LinkDir
<1> QED BY <1>4, <1>5

LEMMA FinishGetDir ==
    ASSUME Alone, DirKept, FinishGet, UNCHANGED sync
    PROVE  DirKept' /\ (CheckKept => CheckKept')
<1>1. /\ op.pc = "link" /\ op.at = NoLoc /\ op.goal \in {"open", "save"}
      /\ chip' = chip /\ lastbankblock' = lastbankblock
  BY DEF FinishGet, Linked
<1>2. sync = NoSync /\ sync' = NoSync
  BY DEF Alone
<1>3. Directory(chip') /\ KnownFiles /\ LinkTrue
  BY <1>1, <1>2 DEF DirKept
<1>4. op'.pc \in {"idle", "throw"}
  BY DEF FinishGet, At
<1>5. KnownFiles'
  <2>1. CASE ~port
    <3>1. files' = files
      BY <2>1 DEF FinishGet
    <3> QED BY <1>1, <1>3, <3>1 DEF KnownFiles
  <2>2. CASE port
    <3>1. files' = [files EXCEPT ![op.start] = [blocks |-> op.seen, loaded |-> TRUE]]
      BY <2>2 DEF FinishGet
    <3> SUFFICES ASSUME NEW l \in DOMAIN files'
                 PROVE  /\ l \in Starts(chip)
                        /\ files'[l].blocks # <<>> =>
                              Following(chip, l, files'[l].blocks, NoLoc)
      BY <1>1 DEF KnownFiles
    <3>2. l \in DOMAIN files
      BY <3>1
    <3>3. CASE l = op.start
      <4>1. files'[l].blocks = op.seen
        BY <3>1, <3>2, <3>3
      <4>2. Following(chip, l, op.seen, NoLoc)
        BY <1>1, <1>3, <3>3 DEF LinkTrue
      <4> QED BY <1>3, <3>2, <4>1, <4>2 DEF KnownFiles
    <3>4. CASE l # op.start
      <4>1. files'[l] = files[l]
        BY <3>1, <3>2, <3>4
      <4> QED BY <1>3, <3>2, <4>1 DEF KnownFiles
    <3> QED BY <3>3, <3>4
  <2> QED BY <2>1, <2>2
<1>6. CheckKept => lastbankblock' = NoLoc
  BY <1>1, <1>2 DEF CheckKept
<1> QED BY <1>1, <1>2, <1>3, <1>4, <1>5, <1>6, RestDir, RestCheck

\* check_file: the checksums of a file in the directory are right.
LEMMA NothingWrong ==
    ASSUME ~SpanningDelete, Alone, DirKept, CheckKept, Linked("check"),
           NEW l \in Range(op.seen), NEW P, DataPage(l) \in P, NEW m,
           m = ReadAnew(Cache, P)
    PROVE  m.c[CrcCell(l)] = Crc16(m.c[DataCell(l)])
<1>1. /\ op.pc = "link" /\ op.at = NoLoc /\ op.goal = "check" /\ op \in Linking
  BY OpCases DEF Linked, Alone, IInv, TypeOK, FatTypeOK
<1>2. /\ Cache \in CacheType /\ chip \in Memory /\ NoDirty(Cache.s)
      /\ Right(Cache, chip) /\ sync = NoSync /\ Cache.s = cache_status
  BY <1>1, AloneFacts DEF Alone
<1>3. PICK i \in DOMAIN op.seen : l = op.seen[i]
  BY DEF Range
<1>4. op.seen \in Seq(Locs) /\ l \in Locs /\ op.seen # <<>>
  BY <1>1, <1>3 DEF Linking
<1>5. Good(chip, l, i, Len(op.seen))
  <2>1. Directory(chip) /\ Following(chip, op.start, op.seen, NoLoc)
    BY <1>1, <1>2 DEF DirKept, LinkTrue
  <2>2. op.start \in Starts(chip)
    BY <1>1 DEF CheckKept
  <2>3. Sound(chip, op.start) /\ Upward(chip)
    BY <1>2, <2>1, <2>2, FileOf DEF Directory
  <2>4. ChainOf(chip, op.start) = op.seen
    BY <1>2, <1>4, <2>1, <2>3, FollowedIs
  <2> QED BY <1>3, <2>3, <2>4 DEF Sound
<1>6. IsRead(Cache, chip, P, m)
  BY <1>2, ReadAnewIsRead
<1>7. /\ DataCell(l) \in Cell /\ PageOf[DataCell(l)] = DataPage(l)
      /\ CrcCell(l) \in Cell /\ PageOf[CrcCell(l)] = MetaPage(l)
  BY <1>4, CellsOfBlock
<1>8. m.c[DataCell(l)] = chip[DataCell(l)]
  BY <1>6, <1>7 DEF IsRead
<1>9. m.c[CrcCell(l)] = chip[CrcCell(l)]
  <2>1. Cache.s[MetaPage(l)] # CACHE_UNKNOWN
    BY <1>1, <1>2, <1>3 DEF CheckKept
  <2>2. Cache.c[CrcCell(l)] = After(Cache, chip)[CrcCell(l)]
    BY <1>2, <1>7, <2>1, HeldIsAfter
  <2>3. Cache.c[CrcCell(l)] = chip[CrcCell(l)]
    BY <1>2, <2>2, AfterIsChip
  <2> QED BY <1>6, <1>7, <2>3 DEF IsRead
<1> QED BY <1>5, <1>8, <1>9 DEF Good

LEMMA CheckFileDir ==
    ASSUME ~SpanningDelete, Alone, DirKept, CheckFile, UNCHANGED sync
    PROVE  DirKept' /\ (CheckKept => CheckKept')
<1> DEFINE blocks == Range(op.seen)
           P == {DataPage(l) : l \in blocks}
           m == ReadAnew(Cache, P)
           wrong == {l \in blocks : m.c[CrcCell(l)] # Crc16(m.c[DataCell(l)])}
<1>1. Linked("check") /\ op.pc = "link" /\ UNCHANGED <<chip, files>>
  BY DEF CheckFile, Linked
<1>2. \/ op'.pc = "idle" /\ lastbankblock' = NoLoc
      \/ op'.pc = "alarm" /\ lastbankblock' = NoLoc /\ wrong # {}
      \/ op'.pc = "throw"
  <2>1. \/ At(IF wrong = {} THEN "idle" ELSE "alarm") /\ lastbankblock' = NoLoc
        \/ At("throw")
    BY DEF CheckFile
  <2> HIDE DEF wrong
  <2>2. CASE wrong = {}
    BY <2>1, <2>2 DEF At
  <2>3. CASE wrong # {}
    BY <2>1, <2>3 DEF At
  <2> QED BY <2>2, <2>3
<1>3. sync = NoSync /\ sync' = NoSync
  BY DEF Alone
<1>4. Directory(chip') /\ KnownFiles'
  BY <1>1, <1>3, KnownStay DEF DirKept
<1>5. ASSUME CheckKept PROVE wrong = {}
  <2> SUFFICES ASSUME NEW l \in blocks PROVE m.c[CrcCell(l)] = Crc16(m.c[DataCell(l)])
    OBVIOUS
  <2>1. DataPage(l) \in P
    OBVIOUS
  <2> HIDE DEF P
  <2> QED BY <1>1, <1>5, <2>1, NothingWrong
<1> HIDE DEF wrong
<1>6. CheckKept => CheckKept'
  BY <1>2, <1>5, RestCheck
<1> QED BY <1>2, <1>3, <1>4, <1>6, RestDir

-----------------------------------------------------------------------------
(***************************************************************************)
(* add_file.                                                               *)
(***************************************************************************)
BlockFields(l) == {NextCell(l), UsedCell(l), CrcCell(l), HdrCell(l), DataCell(l)}

LEMMA FieldsApart ==
    ASSUME NEW k \in Locs
    PROVE  /\ BlockFields(k) \subseteq Cell
           /\ \A x \in BlockFields(k) : \A b, i : x # PreCell(b, i)
           /\ \A l \in Locs : k # l => BlockFields(k) \cap (BlockFields(l) \cup {FmtCell(l)}) = {}
<1>1. BlockFields(k) \subseteq Cell
  BY CellsOfBlock DEF BlockFields
<1>2. \A x \in BlockFields(k) : \A b, i : x # PreCell(b, i)
  BY DEF BlockFields, PreCell, NextCell, UsedCell, CrcCell, HdrCell, DataCell
<1>3. ASSUME NEW l \in Locs, k # l
      PROVE  BlockFields(k) \cap (BlockFields(l) \cup {FmtCell(l)}) = {}
  <2>1. BankOf(k) # BankOf(l) \/ BlockOf(k) # BlockOf(l)
    BY <1>3, SameBlockSameLoc
  <2>2. \A x \in BlockFields(k) : x[2] = BankOf(k) /\ x[3] = BlockOf(k)
    BY DEF BlockFields, NextCell, UsedCell, CrcCell, HdrCell, DataCell
  <2>3. \A x \in BlockFields(l) \cup {FmtCell(l)} : x[2] = BankOf(l) /\ x[3] = BlockOf(l)
    BY DEF BlockFields, NextCell, UsedCell, CrcCell, HdrCell, DataCell, FmtCell
  <2> QED BY <2>1, <2>2, <2>3
<1> QED BY <1>1, <1>2, <1>3

LEMMA SameBlockBut ==
    ASSUME NEW rom, NEW new, NEW W, \A x \in Cell : x \notin W => new[x] = rom[x],
           NEW k \in Locs, BlockFields(k) \cap W = {}
    PROVE  SameBlock(rom, new, k)
BY FieldsApart DEF SameBlock, BlockFields

\* What the scan of the metadata finds free is what is to be free.
LEMMA ScanTells ==
    ASSUME ~SpanningDelete, NEW m \in CacheType, chip \in Memory, LoadedPages(m.s),
           Right(m, chip)
    PROVE  FreeBlocks(m, chip) = {l \in Locs : After(m, chip)[UsedCell(l)] = ERASED}
<1> DEFINE n == ScannedAll(m, chip)
           S == {MetaSector(b) : b \in Bank}
<1>1. n \in CacheType
  BY ScannedAllLoads
<1>2. PICK P : IsRead(m, chip, P, n) /\ Clean(m.s, P)
  BY ScanIsRead
<1>3. n = read_sector(m, chip, S) /\ S \subseteq Sector
  BY ScanSectors DEF ScannedAll
<1> HIDE DEF n
<1>4. Right(n, chip) /\ After(n, chip) = After(m, chip)
  BY <1>2, ReadRight, AfterRead
<1>5. ASSUME NEW l \in Locs PROVE n.c[UsedCell(l)] = After(m, chip)[UsedCell(l)]
  <2>1. MetaSector(BankOf(l)) \in S
    BY ScanSectors
  <2> HIDE DEF S
  <2>2. SectorLoaded(n.s, MetaSector(BankOf(l)))
    BY <1>3, <2>1, ReadSectorLoads
  <2>3. /\ UsedCell(l) \in Cell /\ PageOf[UsedCell(l)] = MetaPage(l)
        /\ MetaPage(l) \in PagesIn[MetaSector(BankOf(l))]
    BY CellsOfBlock, PagesOfLoc, MetaSectorOf, SectorOfIsSector
  <2>4. n.s[PageOf[UsedCell(l)]] # CACHE_UNKNOWN
    BY <2>2, <2>3 DEF SectorLoaded
  <2> QED BY <1>1, <1>4, <2>3, <2>4, HeldIsAfter
<1>6. FreeBlocks(m, chip) = {l \in Locs : n.c[UsedCell(l)] = ERASED}
  BY DEF FreeBlocks, n
<1> QED BY <1>5, <1>6

\* find_next_free_block.
LEMMA FirstFree ==
    ASSUME ~SpanningDelete, NEW m \in CacheType, chip \in Memory, LoadedPages(m.s),
           Right(m, chip), NEW l, IsFirst(l, FreeBlocks(m, chip)),
           NEW n, n = ScannedTo(m, chip, l)
    PROVE  /\ l \in Locs /\ n \in CacheType /\ LoadedPages(n.s)
           /\ Right(n, chip) /\ After(n, chip) = After(m, chip)
           /\ SectorLoaded(n.s, MetaSector(BankOf(l)))
           /\ After(m, chip)[UsedCell(l)] = ERASED
           /\ \A k \in Locs : k < l => After(m, chip)[UsedCell(k)] = USED
           /\ NoDirty(m.s) => NoDirty(n.s)
           /\ Erasing(n.s) <=> Erasing(m.s)
<1>1. l \in FreeBlocks(m, chip) /\ \A k \in FreeBlocks(m, chip) : l <= k
  BY DEF IsFirst
<1>2. l \in Locs /\ After(m, chip)[UsedCell(l)] = ERASED
  BY <1>1, ScanTells
<1>3. /\ n \in CacheType /\ LoadedPages(n.s) /\ SectorLoaded(n.s, MetaSector(BankOf(l)))
      /\ NoDirty(m.s) => NoDirty(n.s)
  BY <1>2, ScannedToLoads
<1>4. PICK P : IsRead(m, chip, P, n) /\ Clean(m.s, P)
  BY <1>2, ScanIsRead
<1>5. Right(n, chip) /\ After(n, chip) = After(m, chip) /\ (Erasing(n.s) <=> Erasing(m.s))
  BY <1>4, ReadRight, AfterRead, ReadStatuses
<1>6. ASSUME NEW k \in Locs, k < l PROVE After(m, chip)[UsedCell(k)] = USED
  <2>1. k \notin FreeBlocks(m, chip)
    <3>1. k \in Nat /\ l \in Nat
      BY <1>2, LocParts
    <3> QED BY <1>1, <1>6, <3>1
  <2>2. After(m, chip)[UsedCell(k)] # ERASED
    BY <2>1, ScanTells
  <2>3. After(m, chip) \in Memory /\ UsedCell(k) \in Cell
    BY AfterType, CellsOfBlock
  <2>4. After(m, chip)[UsedCell(k)] \in {USED, ERASED}
    <3>1. After(m, chip)[UsedCell(k)] \in ValuesOf("used")
      BY <2>3, MemoryValue DEF UsedCell
    <3> QED BY <3>1 DEF ValuesOf
  <2> QED BY <2>2, <2>4
<1> QED BY <1>2, <1>3, <1>5, <1>6

\* The first block of a file is entered.
LEMMA EntryBegins ==
    ASSUME ~SpanningDelete, chip \in Memory, Directory(chip),
           NEW m \in CacheType, Right(m, chip), NoDirty(m.s),
           NEW l \in Locs, SectorLoaded(m.s, MetaSector(BankOf(l))),
           chip[UsedCell(l)] = ERASED, \A k \in Locs : k < l => chip[UsedCell(k)] = USED,
           NEW i \in Slot, m.c[PreCell(BankOf(l), i)] = ERASED,
           \A j \in 0 .. i - 1 : m.c[PreCell(BankOf(l), j)] # ERASED,
           NEW w, DOMAIN w = {PreCell(BankOf(l), i)}, w[PreCell(BankOf(l), i)] = BlockOf(l),
           NEW n \in CacheType,
           IsWrite(m, w, {PrePage(BankOf(l))}, CACHE_WRITE_NONERASE, n),
           NEW o, o.start = l, o.at = l, o.i = 0, NEW c
    PROVE  Growing(chip, After(n, chip), o, c)
<1> DEFINE b == BankOf(l)
           later == After(n, chip)
<1>1. b \in Bank /\ BlockOf(l) \in Block /\ PrePage(b) \in Page
      /\ SectorOf[PrePage(b)] = MetaSector(b)
  BY LocParts, PrePageIsPage, MetaSectorOf
<1> HIDE DEF b
<1>2. ASSUME NEW j \in Slot
      PROVE  PreCell(b, j) \in Cell /\ PageOf[PreCell(b, j)] = PrePage(b)
  <2>1. PreCell(b, j) \in PreCells /\ PreCell(b, j)[2] = b
    BY <1>1 DEF PreCell, PreCells
  <2> QED BY <2>1, PreCellOf
<1>3. After(m, chip) = chip
  BY AfterIsChip
<1>4. ASSUME NEW j \in Slot PROVE m.c[PreCell(b, j)] = chip[PreCell(b, j)]
  <2>1. PrePage(b) \in PagesIn[MetaSector(b)]
    BY <1>1, SectorOfIsSector
  <2>2. m.s[PageOf[PreCell(b, j)]] # CACHE_UNKNOWN
    BY <1>2, <2>1 DEF SectorLoaded, b
  <2> QED BY <1>2, <1>3, <2>2, HeldIsAfter
<1>5. \A x \in Cell : later[x] = IF x \in DOMAIN w THEN w[x] ELSE chip[x]
  <2>1. IsWrite(m, w, {PrePage(b)}, CACHE_WRITE_NONERASE, n) /\ DOMAIN w = {PreCell(b, i)}
    BY DEF b
  <2>2. ASSUME NEW x \in Cell, x \in DOMAIN w PROVE ToWrite(n.s, SectorOf[PageOf[x]])
    <3>1. PageOf[x] = PrePage(b) /\ n.s[PrePage(b)] = CACHE_WRITE_NONERASE
      BY <1>1, <1>2, <2>1, <2>2 DEF IsWrite
    <3> QED BY <1>1, <3>1, StatusFacts DEF ToWrite
  <2> DEFINE P == {PrePage(b)}
  <2>3. \A p \in Page : p \in P => SectorLoaded(m.s, SectorOf[p])
    BY <1>1 DEF b
  <2>4. IsWrite(m, w, P, CACHE_WRITE_NONERASE, n) /\ CACHE_WRITE_NONERASE \in Dirty
    BY <2>1, StatusFacts
  <2> HIDE DEF P
  <2>5. \A x \in Cell : later[x] = IF x \in DOMAIN w THEN w[x] ELSE After(m, chip)[x]
    BY <2>2, <2>3, <2>4, AfterWrite
  <2> QED BY <1>3, <2>5
<1>6. later \in Memory
  BY AfterType
<1> HIDE DEF later
<1>7. later[PreCell(b, i)] = BlockOf(l) /\ chip[PreCell(b, i)] = ERASED
  BY <1>2, <1>4, <1>5 DEF b
<1>8. \A j \in 0 .. i - 1 : chip[PreCell(b, j)] # ERASED
  <2>1. \A j \in 0 .. i - 1 : j \in Slot
    BY GeometryAssumption DEF Slot
  <2> QED BY <1>4, <2>1 DEF b
<1>9. EntryChanged(chip, later, b, i)
  <2> SUFFICES ASSUME NEW c1 \in Bank, NEW j \in Slot, c1 # b \/ j # i
               PROVE  later[PreCell(c1, j)] = chip[PreCell(c1, j)]
    BY DEF EntryChanged
  <2>1. PreCell(c1, j) \in Cell /\ PreCell(c1, j) # PreCell(b, i)
    BY DEF PreCell, PreCells, Cell
  <2> QED BY <1>5, <2>1 DEF b
<1>10. ASSUME NEW k \in Locs PROVE SameBlock(chip, later, k)
  <2>1. \A x \in Cell : x \notin {PreCell(b, i)} => later[x] = chip[x]
    BY <1>5 DEF b
  <2>2. BlockFields(k) \cap {PreCell(b, i)} = {}
    BY FieldsApart
  <2> QED BY <2>1, <2>2, SameBlockBut
<1>11. Growing(chip, later, o, c)
  BY <1>6, <1>7, <1>8, <1>9, <1>10, GrowBegins DEF b
<1> QED BY <1>11 DEF later

-----------------------------------------------------------------------------
LEMMA AddProgramDir ==
    ASSUME ~SpanningDelete, Alone, DirKept, NEW prog \in Programs, slot_add_program(prog),
           UNCHANGED sync
    PROVE  DirKept' /\ (NoEmpty /\ CheckKept => CheckKept')
<1>1. op.pc = "idle" /\ UNCHANGED <<chip, files>>
  BY DEF slot_add_program
<1>2. /\ Cache \in CacheType /\ chip \in Memory /\ NoDirty(Cache.s)
      /\ LoadedPages(Cache.s) /\ sync = NoSync /\ sync' = NoSync
      /\ Right(Cache, chip)
  BY <1>1, AloneFacts DEF Alone
<1>3. After(Cache, chip) = chip
  BY <1>2, AfterIsChip
<1>4. Directory(chip) /\ Directory(chip') /\ KnownFiles'
  BY <1>1, <1>2, KnownStay DEF DirKept
<1>5. CASE FreeBlocks(Cache, chip) = {}
  <2>1. op'.pc = "throw"
    BY <1>5 DEF slot_add_program, At
  <2> QED BY <1>2, <1>4, <2>1, RestDir, RestCheck
<1>6. CASE FreeBlocks(Cache, chip) # {}
  <2>1. PICK l \in FreeBlocks(Cache, chip), i \in Slot :
            LET m == ScannedTo(Cache, chip, l)
                b == BankOf(l)
            IN  /\ IsFirst(l, FreeBlocks(Cache, chip))
                /\ m.c[PreCell(b, i)] = ERASED
                /\ \A j \in 0 .. i - 1 : m.c[PreCell(b, j)] # ERASED
                /\ IF NrBlocks(prog) = 0
                   THEN SetCache(m) /\ At("emit")
                   ELSE /\ SetCache(update_cache_status(
                                Put(m, [x \in {PreCell(b, i)} |-> BlockOf(l)]),
                                {PrePage(b)}, CACHE_WRITE_NONERASE))
                        /\ op' = [pc |-> "add", prog |-> prog, start |-> l,
                                  at |-> l, i |-> 0]
                        /\ UNCHANGED lastbankblock
    BY <1>6 DEF slot_add_program
  <2> DEFINE m == ScannedTo(Cache, chip, l)
             b == BankOf(l)
             w == [x \in {PreCell(b, i)} |-> BlockOf(l)]
             n == update_cache_status(Put(m, w), {PrePage(b)}, CACHE_WRITE_NONERASE)
  <2>2. /\ IsFirst(l, FreeBlocks(Cache, chip)) /\ m.c[PreCell(b, i)] = ERASED
        /\ \A j \in 0 .. i - 1 : m.c[PreCell(b, j)] # ERASED
        /\ IF NrBlocks(prog) = 0
           THEN SetCache(m) /\ At("emit")
           ELSE /\ SetCache(n) /\ UNCHANGED lastbankblock
                /\ op' = [pc |-> "add", prog |-> prog, start |-> l, at |-> l, i |-> 0]
    BY <2>1
  <2> HIDE DEF m
  <2>3. /\ l \in Locs /\ m \in CacheType /\ LoadedPages(m.s) /\ NoDirty(m.s)
        /\ Right(m, chip) /\ After(m, chip) = chip
        /\ SectorLoaded(m.s, MetaSector(b))
        /\ chip[UsedCell(l)] = ERASED
        /\ \A k \in Locs : k < l => chip[UsedCell(k)] = USED
    BY <1>2, <1>3, <2>2, FirstFree DEF m
  <2>4. CASE NrBlocks(prog) = 0
    <3>1. SetCache(m) /\ op'.pc = "emit"
      BY <2>2, <2>4 DEF At
    <3>2. Target' = chip
      BY <1>1, <1>2, <2>3, <3>1, TargetNext
    <3>3. Becomes(chip', Target')
      BY <1>1, <3>2 DEF Becomes
    <3>4. Directory(Target')
      BY <1>4, <3>2
    <3>5. DirKept'
      BY <1>2, <1>4, <3>1, <3>3, <3>4 DEF DirKept, LinkTrue
    <3> QED BY <2>4, <3>5 DEF NoEmpty
  <2>5. CASE NrBlocks(prog) # 0
    <3>1. /\ SetCache(n) /\ op'.pc = "add" /\ op'.start = l /\ op'.at = l /\ op'.i = 0
          /\ lastbankblock' = lastbankblock
      BY <2>2, <2>5
    <3>2. /\ IsWrite(m, w, {PrePage(b)}, CACHE_WRITE_NONERASE, n)
          /\ DOMAIN w = {PreCell(b, i)} /\ w[PreCell(b, i)] = BlockOf(l)
      BY <2>3, WriteIsWrite
    <3>3. \A x \in Cell : x \in DOMAIN w => w[x] \in ValuesOf(x[1])
      BY <2>3, LocParts DEF PreCell, ValuesOf
    <3>4. b \in Bank
      BY <2>3, LocParts
    <3> HIDE DEF w
    <3>5. n \in CacheType
      BY <2>3, <3>3, <3>4, PrePageIsPage, MetaSectorOf, WriteMarked, DirtyStatuses
    <3> HIDE DEF n
    <3>6. Growing(chip, After(n, chip), op', NrBlocks(op'.prog))
      BY <1>2, <1>4, <2>2, <2>3, <3>1, <3>2, <3>5, EntryBegins
    <3>7. Target' = After(n, chip)
      BY <1>1, <1>2, <3>1, <3>5, TargetNext
    <3>8. Growing(chip', Target', op', NrBlocks(op'.prog))
      BY <1>1, <3>6, <3>7
    <3>9. DirKept'
      BY <1>2, <1>4, <3>1, <3>8 DEF DirKept, LinkTrue
    <3>10. CheckKept => lastbankblock' = NoLoc
      BY <1>1, <1>2, <3>1, NothingToCheck
    <3> QED BY <3>1, <3>9, <3>10, RestCheck
  <2> QED BY <2>4, <2>5
<1> QED BY <1>5, <1>6

\* One turn of the loop of add_file, as the chip will show it.
LEMMA BlockToCome ==
    ASSUME ~SpanningDelete, NEW m \in CacheType, NEW prog \in Programs, NEW i \in Nat,
           i < Len(prog), NEW l \in Locs, chip \in Memory,
           LoadedPages(m.s), SectorLoaded(m.s, MetaSector(BankOf(l))),
           AddRight(m, chip), ~Erasing(m.s), m.c[UsedCell(l)] = ERASED,
           NEW n, n = BlockWritten(m, prog, i, l)
    PROVE  \A x \in Cell : After(n, chip)[x] =
               IF x = UsedCell(l) THEN USED
               ELSE IF x = HdrCell(l) THEN Header(prog, i)
               ELSE IF x = DataCell(l) THEN prog[i + 1]
               ELSE IF x = CrcCell(l) THEN Crc16(prog[i + 1])
               ELSE After(m, chip)[x]
<1> DEFINE d == DescriptorWritten(m, prog, i, l)
           u == [x \in {UsedCell(l), HdrCell(l)} |->
                    IF x = UsedCell(l) THEN USED ELSE Header(prog, i)]
           P == {MetaPage(l)}
           Q == {DataPage(l)}
<1>1. d \in CacheType /\ LoadedPages(d.s)
  BY DescriptorLoads
<1>2. IsWrite(m, u, P, CACHE_WRITE_NONERASE, d)
  BY WriteIsWrite DEF DescriptorWritten
<1>3. /\ DOMAIN u = {UsedCell(l), HdrCell(l)} /\ u[UsedCell(l)] = USED
      /\ u[HdrCell(l)] = Header(prog, i)
  BY CellsApart
<1>4. /\ MetaPage(l) \in Page /\ DataPage(l) \in Page
      /\ SectorOf[MetaPage(l)] = MetaSector(BankOf(l))
      /\ PageOf[UsedCell(l)] = MetaPage(l) /\ PageOf[HdrCell(l)] = MetaPage(l)
      /\ PageOf[CrcCell(l)] = MetaPage(l) /\ PageOf[DataCell(l)] = DataPage(l)
  BY PagesOfLoc, MetaSectorOf, CellsOfBlock
<1>5. CACHE_WRITE_NONERASE \in Dirty
  BY StatusFacts
<1> HIDE DEF d, u
<1>6. Filling(d, chip, l)
  BY <1>1, <1>2, <1>3, DescriptorRight
<1>7. \A x \in Cell : After(d, chip)[x] = IF x \in DOMAIN u THEN u[x] ELSE After(m, chip)[x]
  <2>1. \A x \in Cell : x \in DOMAIN u => ToWrite(d.s, SectorOf[PageOf[x]])
    BY <1>2, <1>3, <1>4, <1>5 DEF IsWrite, ToWrite
  <2>2. \A p \in Page : p \in P => SectorLoaded(m.s, SectorOf[p])
    BY <1>4
  <2>3. Right(m, chip)
    BY DEF Right
  <2> HIDE DEF P
  <2> QED BY <1>2, <1>5, <2>1, <2>2, <2>3, AfterWrite
<1> DEFINE S == {SectorOf[DataPage(l)]}
           r == read_sector(d, chip, S)
<1>8. S \subseteq Sector /\ SectorOf[DataPage(l)] \in S
  BY SectorsApart
<1> HIDE DEF S
<1>9. PICK R : IsRead(d, chip, R, r) /\ Clean(d.s, R)
  BY <1>1, <1>8, ReadSectorIsRead
<1>10. /\ r \in CacheType /\ SectorLoaded(r.s, SectorOf[DataPage(l)])
       /\ Filling(r, chip, l) /\ After(r, chip) = After(d, chip)
  <2>1. r \in CacheType /\ SectorLoaded(r.s, SectorOf[DataPage(l)])
    BY <1>1, <1>8, ReadType, ReadSectorLoads
  <2> HIDE DEF r
  <2> QED BY <1>6, <1>9, <2>1, FillingRead, AfterRead
<1> DEFINE v == [x \in {DataCell(l), CrcCell(l)} |->
                    IF x = DataCell(l) THEN prog[i + 1] ELSE Crc16(prog[i + 1])]
<1>11. n = update_cache_status(Put(r, v), Q, CACHE_WRITE_NONERASE)
  BY DEF BlockWritten, DataWritten, d, S
<1>12. /\ DOMAIN v = {DataCell(l), CrcCell(l)} /\ v[DataCell(l)] = prog[i + 1]
       /\ v[CrcCell(l)] = Crc16(prog[i + 1])
  <2>1. CrcCell(l) # DataCell(l)
    BY DEF CrcCell, DataCell
  <2> QED BY <2>1
<1> HIDE DEF r, v
<1>13. IsWrite(r, v, Q, CACHE_WRITE_NONERASE, n)
  BY <1>10, <1>11, WriteIsWrite
<1>14. \A x \in Cell : After(n, chip)[x] = IF x \in DOMAIN v THEN v[x] ELSE After(r, chip)[x]
  <2>1. n.s[MetaPage(l)] \in Dirty
    <3>1. r.s[MetaPage(l)] \in Dirty /\ MetaPage(l) # DataPage(l)
      BY <1>10 DEF Filling, MetaPage, DataPage
    <3> QED BY <1>4, <1>13, <3>1 DEF IsWrite
  <2>2. n.s[DataPage(l)] \in Dirty
    BY <1>4, <1>5, <1>13 DEF IsWrite
  <2>3. \A x \in Cell : x \in DOMAIN v => ToWrite(n.s, SectorOf[PageOf[x]])
    BY <1>4, <1>12, <2>1, <2>2 DEF ToWrite
  <2>4. \A p \in Page : p \in Q => SectorLoaded(r.s, SectorOf[p])
    BY <1>10
  <2>5. Right(r, chip)
    BY <1>10, FillingRight
  <2> HIDE DEF Q
  <2> QED BY <1>5, <1>10, <1>13, <2>3, <2>4, <2>5, AfterWrite
<1>15. UsedCell(l) \notin DOMAIN v /\ HdrCell(l) \notin DOMAIN v
       /\ UsedCell(l) # HdrCell(l)
  BY <1>12 DEF UsedCell, HdrCell, CrcCell, DataCell
<1> QED BY <1>3, <1>7, <1>10, <1>12, <1>14, <1>15

LEMMA HeaderOf ==
    ASSUME NEW prog \in Programs, NEW i \in Nat, i < NrBlocks(prog)
    PROVE  Header(prog, i) = i + 256 * NrBlocks(prog) /\ i < Len(prog)
<1>1. Len(prog) \in Nat
  BY GeometryAssumption
<1> DEFINE n == Len(prog)
           c == NrBlocks(prog)
<1>2. c = n % 256 /\ c <= n
  BY NrBlocksBound DEF NrBlocks
<1>3. \A k \in Nat : k % 256 \in 0 .. 255
  OBVIOUS
<1>4. \A k \in 0 .. 255 : k % 256 = k
  OBVIOUS
<1> HIDE DEF n, c
<1>5. c \in 0 .. 255
  BY <1>1, <1>2, <1>3 DEF n
<1>6. i < c
  BY DEF c
<1>7. i \in 0 .. 255 /\ i % 256 = i /\ i < n
  BY <1>1, <1>2, <1>4, <1>5, <1>6 DEF n
<1> QED BY <1>2, <1>7 DEF Header, n, c

\* Of the chip to come, a turn of the loop of add_file changes one block.
OneTurn(new, now, o, c) ==
    \A x \in Cell : now[x] =
        IF x = UsedCell(o.at) THEN USED
        ELSE IF x = HdrCell(o.at) THEN o.i + 256 * c
        ELSE IF x = DataCell(o.at) THEN o.prog[o.i + 1]
        ELSE IF x = CrcCell(o.at) THEN Crc16(o.prog[o.i + 1])
        ELSE new[x]

LEMMA TurnGrows ==
    ASSUME NEW new, NEW now, NEW o, o.at \in Locs, NEW c,
           o.i \in Nat, OneTurn(new, now, o, c)
    PROVE  GrownBy(new, now, o, c) /\ now[NextCell(o.at)] = new[NextCell(o.at)]
<1> DEFINE at == o.at
           hdr == o.i + 256 * c
<1>0. \A x \in Cell : now[x] =
          IF x = UsedCell(at) THEN USED
          ELSE IF x = HdrCell(at) THEN hdr
          ELSE IF x = DataCell(at) THEN o.prog[o.i + 1]
          ELSE IF x = CrcCell(at) THEN Crc16(o.prog[o.i + 1])
          ELSE new[x]
  BY DEF OneTurn
<1>1. /\ BlockFields(at) \subseteq Cell
      /\ \A x \in Cell : x \notin BlockFields(at) => now[x] = new[x]
  BY <1>0, FieldsApart DEF BlockFields
<1>2. /\ now[UsedCell(at)] = USED /\ now[HdrCell(at)] = hdr
      /\ now[DataCell(at)] = o.prog[o.i + 1] /\ now[CrcCell(at)] = Crc16(o.prog[o.i + 1])
      /\ now[NextCell(at)] = new[NextCell(at)]
  <2>1. {UsedCell(at), HdrCell(at), DataCell(at), CrcCell(at), NextCell(at)} \subseteq Cell
    BY <1>1 DEF BlockFields
  <2>2. /\ UsedCell(at) # HdrCell(at) /\ UsedCell(at) # DataCell(at)
        /\ UsedCell(at) # CrcCell(at) /\ UsedCell(at) # NextCell(at)
        /\ HdrCell(at) # DataCell(at) /\ HdrCell(at) # CrcCell(at)
        /\ HdrCell(at) # NextCell(at) /\ DataCell(at) # CrcCell(at)
        /\ DataCell(at) # NextCell(at) /\ CrcCell(at) # NextCell(at)
    BY DEF UsedCell, HdrCell, DataCell, CrcCell, NextCell
  <2> HIDE DEF at
  <2> QED BY <1>0, <2>1, <2>2 DEF at
<1>3. Filled(now, at, o.i + 1, c, o.prog[o.i + 1])
  <2>1. (o.i + 1) - 1 = o.i
    OBVIOUS
  <2> QED BY <1>2, <2>1 DEF Filled
<1>4. \A k \in Locs : k # at => SameBlock(new, now, k)
  <2> SUFFICES ASSUME NEW k \in Locs, k # at PROVE SameBlock(new, now, k)
    OBVIOUS
  <2>1. BlockFields(k) \cap BlockFields(at) = {}
    BY FieldsApart
  <2> QED BY <1>1, <2>1, SameBlockBut
<1>5. \A b \in Bank, i \in Slot : now[PreCell(b, i)] = new[PreCell(b, i)]
  <2> SUFFICES ASSUME NEW b \in Bank, NEW i \in Slot
               PROVE  now[PreCell(b, i)] = new[PreCell(b, i)]
    OBVIOUS
  <2>1. PreCell(b, i) \in Cell
    BY DEF PreCell, PreCells, Cell
  <2>2. PreCell(b, i) \notin BlockFields(at)
    BY FieldsApart
  <2> QED BY <1>1, <2>1, <2>2
<1> QED BY <1>1, <1>2, <1>3, <1>4, <1>5 DEF GrownBy

LinkedTo(now, later, l, nxt) ==
    \A x \in Cell : later[x] = IF x = NextCell(l) THEN nxt ELSE now[x]

LEMMA LinkedTurnGrows ==
    ASSUME NEW new, NEW now, NEW later, NEW o, o.at \in Locs, NEW c,
           GrownBy(new, now, o, c), NEW nxt, LinkedTo(now, later, o.at, nxt)
    PROVE  /\ GrownBy(new, later, o, c) /\ later[NextCell(o.at)] = nxt
           /\ \A k \in Locs : later[UsedCell(k)] = now[UsedCell(k)]
<1> DEFINE at == o.at
<1>1. GrownBy(new, now, o, c)
  OBVIOUS
<1>0. \A x \in Cell : later[x] = IF x = NextCell(at) THEN nxt ELSE now[x]
  BY DEF LinkedTo
<1>2. NextCell(at) \in Cell /\ later[NextCell(at)] = nxt
  BY <1>0, CellsOfBlock
<1>3. ASSUME NEW k \in Locs
      PROVE  /\ later[UsedCell(k)] = now[UsedCell(k)]
             /\ later[CrcCell(k)] = now[CrcCell(k)]
             /\ later[HdrCell(k)] = now[HdrCell(k)]
             /\ later[DataCell(k)] = now[DataCell(k)]
             /\ k # at => later[NextCell(k)] = now[NextCell(k)]
  <2>1. {UsedCell(k), CrcCell(k), HdrCell(k), DataCell(k), NextCell(k)} \subseteq Cell
    BY CellsOfBlock
  <2>2. /\ UsedCell(k) # NextCell(at) /\ CrcCell(k) # NextCell(at)
        /\ HdrCell(k) # NextCell(at) /\ DataCell(k) # NextCell(at)
    BY DEF UsedCell, HdrCell, DataCell, CrcCell, NextCell
  <2>3. k # at => NextCell(k) # NextCell(at)
    BY FieldsApart DEF BlockFields
  <2> QED BY <1>0, <2>1, <2>2, <2>3
<1>4. ASSUME NEW b \in Bank, NEW i \in Slot PROVE later[PreCell(b, i)] = now[PreCell(b, i)]
  BY <1>0 DEF PreCell, PreCells, Cell, NextCell
<1>5. \A k \in Locs : k # at => SameBlock(new, later, k)
  BY <1>1, <1>3 DEF GrownBy, SameBlock
<1>6. Filled(later, at, o.i + 1, c, o.prog[o.i + 1])
  BY <1>1, <1>3 DEF GrownBy, Filled
<1> QED BY <1>1, <1>2, <1>3, <1>4, <1>5, <1>6 DEF GrownBy

\* A cell written to the cache, in a sector that is to be written.
LEMMA AfterPut ==
    ASSUME ~SpanningDelete, NEW m \in CacheType, NEW rom, Right(m, rom), NEW w, NEW y,
           DOMAIN w = {y}, NEW st \in Dirty, NEW n, IsWrite(m, w, {}, st, n),
           ToWrite(n.s, SectorOf[PageOf[y]])
    PROVE  \A x \in Cell : After(n, rom)[x] = IF x = y THEN w[y] ELSE After(m, rom)[x]
<1> DEFINE Q == {}
<1>1. IsWrite(m, w, Q, st, n) /\ \A p \in Page : p \in Q => SectorLoaded(m.s, SectorOf[p])
  OBVIOUS
<1> HIDE DEF Q
<1>2. \A x \in Cell : x \in DOMAIN w => ToWrite(n.s, SectorOf[PageOf[x]])
  OBVIOUS
<1>3. \A x \in Cell : After(n, rom)[x] = IF x \in DOMAIN w THEN w[x] ELSE After(m, rom)[x]
  BY <1>1, <1>2, AfterWrite
<1> QED BY <1>3

\* One turn of the loop of add_file.
TurnCache == BlockWritten(Cache, op.prog, op.i, op.at)

LEMMA TurnOfAdd ==
    ASSUME ~SpanningDelete, Alone, DirKept, AddBlock, UNCHANGED sync
    PROVE  /\ op.pc = "add" /\ op \in Adding /\ UNCHANGED <<chip, files>>
           /\ sync = NoSync /\ sync' = NoSync /\ chip \in Memory
           /\ op.prog \in Programs /\ op.start \in Locs /\ op.at \in Locs
           /\ op.i \in Nat /\ op.i < NrBlocks(op.prog)
           /\ TurnCache \in CacheType /\ LoadedPages(TurnCache.s)
           /\ Filling(TurnCache, chip, op.at)
           /\ Directory(chip)
           /\ Growing(chip, Target, op, NrBlocks(op.prog))
           /\ Target \in Memory /\ After(TurnCache, chip) \in Memory
           /\ GrownBy(Target, After(TurnCache, chip), op, NrBlocks(op.prog))
           /\ After(TurnCache, chip)[NextCell(op.at)] = Target[NextCell(op.at)]
<1>1. op.pc = "add" /\ op \in Adding /\ UNCHANGED <<chip, files>>
  BY OpCases DEF AddBlock, Alone, IInv, TypeOK, FatTypeOK
<1> DEFINE c == NrBlocks(op.prog)
           m == TurnCache
           now == After(m, chip)
<1>2. /\ op.prog \in Programs /\ op.at \in Locs /\ op.start \in Locs
      /\ op.i \in Nat /\ op.i < c
      /\ SectorLoaded(cache_status, MetaSector(BankOf(op.at)))
  BY <1>1 DEF Adding, Alone, IInv, LoopsGuarded
<1>3. op.i < Len(op.prog) /\ Header(op.prog, op.i) = op.i + 256 * c
  BY <1>2, HeaderOf
<1>4. /\ Cache \in CacheType /\ chip \in Memory /\ LoadedPages(Cache.s)
      /\ Cache.s = cache_status /\ Cache.c = contents
      /\ Right(Cache, chip) /\ sync = NoSync /\ sync' = NoSync
  BY <1>1, AloneFacts DEF Alone
<1>5. ~Erasing(Cache.s) /\ Cache.c[UsedCell(op.at)] = ERASED
  BY <1>1, <1>4 DEF Alone, Kept, Acting
<1>6. AddRight(Cache, chip)
  BY <1>4, <1>5, RightFree
<1>7. m \in CacheType /\ LoadedPages(m.s)
  BY <1>2, <1>3, <1>4, BlockWrittenLoads DEF TurnCache
<1>8. Filling(m, chip, op.at)
  BY <1>2, <1>3, <1>4, <1>5, <1>6, BlockWrittenRight DEF TurnCache
<1>9. Target = After(Cache, chip) /\ Target \in Memory /\ now \in Memory
  BY <1>4, <1>7, TargetAlone, AfterType
<1>10. \A x \in Cell : now[x] =
               IF x = UsedCell(op.at) THEN USED
               ELSE IF x = HdrCell(op.at) THEN Header(op.prog, op.i)
               ELSE IF x = DataCell(op.at) THEN op.prog[op.i + 1]
               ELSE IF x = CrcCell(op.at) THEN Crc16(op.prog[op.i + 1])
               ELSE After(Cache, chip)[x]
  BY <1>2, <1>3, <1>4, <1>5, <1>6, BlockToCome DEF TurnCache
<1> HIDE DEF c, m, now
<1>11. Directory(chip) /\ Growing(chip, Target, op, c)
  BY <1>1, <1>4 DEF DirKept, c
<1>12. OneTurn(Target, now, op, c)
  BY <1>3, <1>9, <1>10 DEF OneTurn
<1>13. GrownBy(Target, now, op, c) /\ now[NextCell(op.at)] = Target[NextCell(op.at)]
  BY <1>2, <1>12, TurnGrows
<1> QED BY <1>1, <1>2, <1>4, <1>7, <1>8, <1>9, <1>11, <1>13 DEF c, m, now

LEMMA AddBlockDir ==
    ASSUME ~SpanningDelete, Alone, DirKept, AddBlock, UNCHANGED sync
    PROVE  DirKept' /\ (CheckKept => CheckKept')
<1> DEFINE c == NrBlocks(op.prog)
           at == op.at
           m == TurnCache
           new == Target
           now == After(m, chip)
<1>1. /\ op.pc = "add" /\ op \in Adding /\ UNCHANGED <<chip, files>>
      /\ sync = NoSync /\ sync' = NoSync /\ chip \in Memory
  BY TurnOfAdd
<1>2. /\ op.prog \in Programs /\ op.start \in Locs /\ at \in Locs
      /\ op.i \in Nat /\ op.i < c
  BY TurnOfAdd
<1>3. m \in CacheType /\ LoadedPages(m.s) /\ Filling(m, chip, at) /\ Right(m, chip)
  BY TurnOfAdd, FillingRight
<1>4. /\ Directory(chip) /\ Growing(chip, new, op, c) /\ new \in Memory /\ now \in Memory
      /\ GrownBy(new, now, op, c) /\ now[NextCell(at)] = new[NextCell(at)]
  BY TurnOfAdd
<1> HIDE DEF c
<1>5. Directory(chip') /\ KnownFiles'
  BY <1>1, <1>4, KnownStay DEF DirKept
<1>6. CheckKept => lastbankblock = NoLoc
  BY <1>1, NothingToCheck
<1>7. CASE FreeBlocks(m, chip) = {}
  <2>1. op'.pc = "throw"
    BY <1>7 DEF AddBlock, At, TurnCache
  <2> QED BY <1>1, <1>5, <2>1, RestDir, RestCheck
<1>8. CASE FreeBlocks(m, chip) # {}
  <2>1. PICK nxt \in FreeBlocks(m, chip) :
            LET m1 == ScannedTo(m, chip, nxt)
            IN  /\ IsFirst(nxt, FreeBlocks(m, chip))
                /\ IF op.i = c - 1
                   THEN SetCache(m1) /\ At("emit") /\ lastbankblock' = op.start
                   ELSE /\ SetCache(Put(m1, [x \in {NextCell(at)} |-> nxt]))
                        /\ op' = [op EXCEPT !.i = @ + 1, !.at = nxt]
                        /\ UNCHANGED lastbankblock
    BY <1>8 DEF AddBlock, c, TurnCache
  <2> DEFINE m1 == ScannedTo(m, chip, nxt)
             w == [x \in {NextCell(at)} |-> nxt]
             n == Put(m1, w)
  <2>2. /\ IsFirst(nxt, FreeBlocks(m, chip))
        /\ IF op.i = c - 1
           THEN SetCache(m1) /\ At("emit") /\ lastbankblock' = op.start
           ELSE /\ SetCache(n) /\ UNCHANGED lastbankblock
                /\ op' = [op EXCEPT !.i = @ + 1, !.at = nxt]
    BY <2>1
  <2> HIDE DEF m
  <2>3. /\ nxt \in Locs /\ m1 \in CacheType /\ LoadedPages(m1.s)
        /\ Right(m1, chip) /\ After(m1, chip) = now
        /\ now[UsedCell(nxt)] = ERASED
        /\ \A k \in Locs : k < nxt => now[UsedCell(k)] = USED
    BY <1>1, <1>3, <2>2, FirstFree
  <2>4. PICK P : IsRead(m, chip, P, m1) /\ Clean(m.s, P)
    BY <1>3, <2>3, ScanIsRead
  <2> HIDE DEF m1
  <2>5. Filling(m1, chip, at)
    BY <1>2, <1>3, <2>4, FillingRead
  <2> HIDE DEF new, now
  <2>6. CASE op.i = c - 1
    <3>1. SetCache(m1) /\ op'.pc = "emit" /\ lastbankblock' = op.start
      BY <2>2, <2>6 DEF At
    <3>2. Target' = now
      BY <1>1, <2>3, <3>1, TargetNext
    <3>3. op.i + 1 = c
      BY <1>2, <2>6, NrBlocksBound DEF c
    <3>4. Directory(now) /\ Added(chip, now, op.start, StoredAs(op.prog))
      BY <1>1, <1>4, <3>3, GrowEnds DEF StoredAs, c
    <3>5. op.start \in Starts(now)
      BY <1>1, <1>4, GrowthKeeps
    <3>6. Becomes(chip', Target')
      <4>1. c # 0
        BY <1>2
      <4> QED BY <1>1, <1>2, <3>2, <3>4, <4>1 DEF Becomes, c
    <3>7. DirKept'
      BY <1>1, <1>5, <3>1, <3>2, <3>4, <3>6 DEF DirKept, LinkTrue
    <3>8. CheckKept'
      BY <3>1, <3>2, <3>5 DEF CheckKept
    <3> QED BY <3>7, <3>8
  <2>7. CASE op.i # c - 1
    <3>1. /\ SetCache(n) /\ op'.pc = "add" /\ op'.at = nxt /\ op'.i = op.i + 1
          /\ op'.start = op.start /\ op'.prog = op.prog /\ lastbankblock' = lastbankblock
      BY <1>1, <2>2, <2>7 DEF Adding
    <3>2. /\ IsWrite(m1, w, {}, CACHE_WRITE_NONERASE, n) /\ DOMAIN w = {NextCell(at)}
          /\ w[NextCell(at)] = nxt
      BY <2>3, WriteIsWrite
    <3>3. \A x \in Cell : x \in DOMAIN w => w[x] \in ValuesOf(x[1])
      BY <2>3 DEF NextCell, ValuesOf
    <3> HIDE DEF w
    <3>4. n \in CacheType
      BY <2>3, <3>3, PutType
    <3> HIDE DEF n
    <3> DEFINE later == After(n, chip)
    <3>5. \A x \in Cell : later[x] = IF x = NextCell(at) THEN nxt ELSE now[x]
      <4>1. PageOf[NextCell(at)] = MetaPage(at) /\ MetaPage(at) \in Page
        BY <1>2, CellsOfBlock, PagesOfLoc
      <4>2. n.s[MetaPage(at)] \in Dirty
        BY <2>5, <3>2, <4>1 DEF Filling, IsWrite
      <4>3. ToWrite(n.s, SectorOf[PageOf[NextCell(at)]]) /\ CACHE_WRITE_NONERASE \in Dirty
        BY <4>1, <4>2, StatusFacts DEF ToWrite
      <4>4. \A x \in Cell : After(n, chip)[x] = IF x = NextCell(at) THEN w[NextCell(at)]
                                                ELSE After(m1, chip)[x]
        <5>1. m1 \in CacheType /\ Right(m1, chip)
          BY <2>3
        <5> HIDE DEF at, later
        <5> QED BY <3>2, <4>3, <5>1, AfterPut
      <4> QED BY <2>3, <3>2, <4>4
    <3>6. later \in Memory
      BY <1>1, <3>4, AfterType
    <3>7. Target' = later
      BY <1>1, <3>1, <3>4, TargetNext
    <3> HIDE DEF later
    <3>8. /\ GrownBy(new, later, op, c) /\ later[NextCell(at)] = nxt
          /\ \A k \in Locs : later[UsedCell(k)] = now[UsedCell(k)]
      <4>1. op.at \in Locs /\ op.i \in Nat
        BY <1>2
      <4>2. GrownBy(new, now, op, c)
        BY <1>4
      <4>3. \A x \in Cell : later[x] = IF x = NextCell(op.at) THEN nxt ELSE now[x]
        BY <3>5
      <4>4. LinkedTo(now, later, op.at, nxt)
        BY <4>3 DEF LinkedTo
      <4>5. /\ GrownBy(new, later, op, c) /\ later[NextCell(op.at)] = nxt
            /\ \A k \in Locs : later[UsedCell(k)] = now[UsedCell(k)]
        BY <4>1, <4>2, <4>4, LinkedTurnGrows
      <4> QED BY <4>5
    <3>9. Growing(chip, later, op', c)
      BY <1>1, <1>4, <2>3, <3>1, <3>6, <3>8, GrowGoesOn
    <3>10. Growing(chip', Target', op', NrBlocks(op'.prog))
      BY <1>1, <3>1, <3>7, <3>9 DEF c
    <3>11. DirKept'
      BY <1>1, <1>4, <1>5, <3>1, <3>10 DEF DirKept, LinkTrue
    <3> QED BY <1>6, <3>1, <3>11, RestCheck
  <2> QED BY <2>6, <2>7
<1> QED BY <1>7, <1>8

-----------------------------------------------------------------------------
(***************************************************************************)
(* delete_file.                                                            *)
(***************************************************************************)
\* What a cache that holds the sector of preamble b says of it.
LEMMA PreambleHeld ==
    ASSUME ~SpanningDelete, chip \in Memory, NEW m \in CacheType, Right(m, chip),
           NoDirty(m.s), NEW b \in Bank, SectorLoaded(m.s, MetaSector(b)), NEW j \in Slot
    PROVE  /\ PreCell(b, j) \in Cell /\ PageOf[PreCell(b, j)] = PrePage(b)
           /\ m.c[PreCell(b, j)] = chip[PreCell(b, j)]
<1>1. PreCell(b, j) \in Cell /\ PageOf[PreCell(b, j)] = PrePage(b)
  <2>1. PreCell(b, j) \in PreCells /\ PreCell(b, j)[2] = b
    BY DEF PreCell, PreCells
  <2> QED BY <2>1, PreCellOf
<1>2. PrePage(b) \in PagesIn[MetaSector(b)]
  BY PrePageIsPage, MetaSectorOf, SectorOfIsSector
<1>3. m.s[PageOf[PreCell(b, j)]] # CACHE_UNKNOWN
  BY <1>1, <1>2 DEF SectorLoaded
<1> QED BY <1>1, <1>3, AfterIsChip, HeldIsAfter

\* A name struck from its preamble, in a cache that holds the sector.
LEMMA EntryLeaves ==
    ASSUME ~SpanningDelete, chip \in Memory, Directory(chip),
           NEW m \in CacheType, Right(m, chip), NoDirty(m.s),
           NEW h \in Starts(chip), NEW b, b = BankOf(h), SectorLoaded(m.s, MetaSector(b)),
           NEW p \in Slot, chip[PreCell(b, p)] = BlockOf(h),
           NEW w, Struck(chip, w, b, p), NEW n \in CacheType,
           IsWrite(m, w, {PrePage(b)}, CACHE_WRITE_ERASE, n)
    PROVE  Shrinking(chip, After(n, chip), h, ChainOf(chip, h))
<1> DEFINE later == After(n, chip)
<1>1. /\ h \in Locs /\ b \in Bank /\ BlockOf(h) \in Block /\ PrePage(b) \in Page
      /\ SectorOf[PrePage(b)] = MetaSector(b)
  BY FileOf, LocParts, PrePageIsPage, MetaSectorOf DEF Directory
<1>2. /\ DOMAIN w = {PreCell(b, i) : i \in Slot}
      /\ \A j \in Slot : w[PreCell(b, j)] =
            IF j < p THEN chip[PreCell(b, j)]
            ELSE IF j + 1 \in Slot THEN chip[PreCell(b, j + 1)] ELSE ERASED
  BY DEF Struck
<1>3. ASSUME NEW j \in Slot
      PROVE  PreCell(b, j) \in Cell /\ PageOf[PreCell(b, j)] = PrePage(b)
  BY <1>1, PreambleHeld
<1>4. After(m, chip) = chip
  BY AfterIsChip
<1>7. \A x \in Cell : later[x] = IF x \in DOMAIN w THEN w[x] ELSE chip[x]
  <2>2. ASSUME NEW x \in Cell, x \in DOMAIN w PROVE ToWrite(n.s, SectorOf[PageOf[x]])
    <3>1. PageOf[x] = PrePage(b) /\ n.s[PrePage(b)] = CACHE_WRITE_ERASE
      BY <1>1, <1>2, <1>3, <2>2 DEF IsWrite
    <3> QED BY <1>1, <3>1, StatusFacts DEF ToWrite
  <2> DEFINE P == {PrePage(b)}
  <2>3. \A q \in Page : q \in P => SectorLoaded(m.s, SectorOf[q])
    BY <1>1
  <2>4. IsWrite(m, w, P, CACHE_WRITE_ERASE, n) /\ CACHE_WRITE_ERASE \in Dirty
    BY StatusFacts
  <2> HIDE DEF P
  <2>5. \A x \in Cell : later[x] = IF x \in DOMAIN w THEN w[x] ELSE After(m, chip)[x]
    BY <2>2, <2>3, <2>4, AfterWrite
  <2> QED BY <1>4, <2>5
<1>8. later \in Memory
  BY AfterType
<1> HIDE DEF later
<1>9. EntryOut(chip, later, b, p)
  <2>1. ASSUME NEW c \in Bank, NEW j \in Slot, c # b
        PROVE  later[PreCell(c, j)] = chip[PreCell(c, j)]
    <3>1. PreCell(c, j) \in Cell
      BY DEF PreCell, PreCells, Cell
    <3>2. PreCell(c, j) \notin DOMAIN w
      BY <1>2, <2>1 DEF PreCell
    <3> QED BY <1>7, <3>1, <3>2
  <2>2. ASSUME NEW j \in Slot
        PROVE  later[PreCell(b, j)] =
                   IF j < p THEN chip[PreCell(b, j)]
                   ELSE IF j + 1 \in Slot THEN chip[PreCell(b, j + 1)] ELSE ERASED
    BY <1>2, <1>3, <1>7
  <2> QED BY <2>1, <2>2 DEF EntryOut
<1>10. ASSUME NEW k \in Locs PROVE SameBlock(chip, later, k)
  <2> DEFINE D == DOMAIN w
  <2>1. \A x \in Cell : x \notin D => later[x] = chip[x]
    BY <1>7
  <2>2. BlockFields(k) \cap D = {}
    BY <1>1, <1>2, FieldsApart
  <2> HIDE DEF D
  <2> QED BY <2>1, <2>2, SameBlockBut
<1>11. Shrinking(chip, later, h, ChainOf(chip, h))
  BY <1>8, <1>9, <1>10, ShrinkBegins
<1> QED BY <1>11 DEF later

LEMMA DeleteEntryDir ==
    ASSUME ~SpanningDelete, Alone, DirKept, DeleteEntry, UNCHANGED sync
    PROVE  DirKept' /\ (CheckKept => CheckKept')
<1>1. /\ op.pc = "link" /\ op.goal = "delete" /\ op.at = NoLoc
      /\ op \in Linking /\ chip' = chip /\ lastbankblock' = lastbankblock
  BY OpCases DEF DeleteEntry, Linked, Alone, IInv, TypeOK, FatTypeOK
<1>2. op.seen \in Seq(Locs) /\ op.seen # <<>>
  BY <1>1 DEF Linking, Alone, IInv, LoopsGuarded
<1>3. /\ Cache \in CacheType /\ chip \in Memory /\ NoDirty(Cache.s)
      /\ LoadedPages(Cache.s)
      /\ Right(Cache, chip) /\ sync = NoSync /\ sync' = NoSync
  BY <1>1, AloneFacts DEF Alone
<1> DEFINE h == op.start
<1>4. Directory(chip) /\ h \in Starts(chip) /\ Following(chip, h, op.seen, NoLoc) /\ KnownFiles
  BY <1>1, <1>3 DEF DirKept, LinkTrue
<1>5. ChainOf(chip, h) = op.seen /\ op.seen[1] = h /\ h \in Locs
  BY <1>2, <1>3, <1>4, FollowedIs DEF Directory
<1> DEFINE b == BankOf(h)
           S == {MetaSector(b)}
           m == read_sector(Cache, chip, S)
           w == PreambleWithout(m.c, b, BlockOf(h))
           n == update_cache_status(Put(m, w), {PrePage(b)}, CACHE_WRITE_ERASE)
<1>6. /\ SetCache(n) /\ op'.pc = "wipe" /\ op'.blocks = op.seen
      /\ files' = [files EXCEPT ![h].blocks = op.seen]
  BY <1>5 DEF DeleteEntry
<1>7. b \in Bank /\ BlockOf(h) \in Block
  BY <1>5, LocParts
<1> HIDE DEF b
<1>8. S \subseteq Sector /\ MetaSector(b) \in S
  BY <1>7, MetaSectorOf
<1> HIDE DEF S, h
<1>9. /\ m \in CacheType /\ NoDirty(m.s) /\ SectorLoaded(m.s, MetaSector(b))
      /\ Right(m, chip)
  BY <1>3, <1>8, ReadType, ReadLoads, ReadSectorLoads, ReadSectorRight
<1> HIDE DEF m
<1>10. \A x \in Cell : x \in DOMAIN w => w[x] \in ValuesOf(x[1])
  BY <1>7, <1>9, PreambleWithoutType DEF CacheType
<1> HIDE DEF w
<1>11. n \in CacheType
  BY <1>9, <1>10, PutType, UpdateType, DirtyStatuses
<1>12. IsWrite(m, w, {PrePage(b)}, CACHE_WRITE_ERASE, n)
  BY <1>9, WriteIsWrite
<1> HIDE DEF n
<1>13. Shrinking(chip, After(n, chip), h, op.seen)
  <2>1. Shrinking(chip, After(n, chip), h, ChainOf(chip, h))
    <3>1. PICK p \in Slot : chip[PreCell(b, p)] = BlockOf(h)
      BY <1>3, <1>4, <1>5, StartsAre DEF Directory, b
    <3> DEFINE mem == m.c
               k   == BlockOf(h)
    <3>2. /\ w = PreambleWithout(mem, b, k) /\ k \in Block /\ chip[PreCell(b, p)] = k
          /\ PreambleIs(mem, chip, b)
      BY <1>3, <1>7, <1>9, <3>1, PreambleHeld DEF w, PreambleIs
    <3> HIDE DEF mem, k
    <3>3. Struck(chip, w, b, p)
      BY <1>3, <1>4, <1>7, <3>1, <3>2, EntryLeavesPreamble DEF Directory
    <3>4. b = BankOf(h)
      BY DEF b
    <3> QED BY <1>3, <1>4, <1>9, <1>11, <1>12, <3>1, <3>3, <3>4, EntryLeaves
  <2> QED BY <1>5, <2>1
<1>14. Target' = After(n, chip)
  BY <1>1, <1>3, <1>6, <1>11, TargetNext
<1>15. KnownFiles'
  <2>1. DOMAIN files' = DOMAIN files
    BY <1>6
  <2>2. ASSUME NEW k \in DOMAIN files, k # h PROVE files'[k] = files[k]
    BY <1>6, <2>2
  <2>3. h \in DOMAIN files => files'[h].blocks = op.seen
    <3>1. PICK D \in SUBSET Locs : files \in [D -> FileRec]
      BY DEF Alone, IInv, TypeOK, FatTypeOK
    <3> QED BY <1>6, <3>1 DEF FileRec
  <2> QED BY <1>1, <1>4, <2>1, <2>2, <2>3 DEF KnownFiles
<1>16. DirKept'
  <2>1. \E k \in Locs : Shrinking(chip', Target', k, op'.blocks)
    BY <1>1, <1>5, <1>6, <1>13, <1>14
  <2> QED BY <1>1, <1>3, <1>4, <1>6, <1>15, <2>1 DEF DirKept, LinkTrue
<1>17. CheckKept => CheckKept'
  <2>1. CheckKept => lastbankblock = NoLoc
    BY <1>1, <1>3 DEF CheckKept
  <2> QED BY <1>1, <1>6, <2>1, RestCheck
<1> QED BY <1>16, <1>17

-----------------------------------------------------------------------------
\* A block wiped in the cache is to be blank on the chip, and nothing else changes.
LEMMA WipedAway ==
    ASSUME ~SpanningDelete, NEW r \in CacheType, NEW rom, Right(r, rom), NEW l \in Locs,
           NEW w, DOMAIN w = WipedCells(l),
           \A x \in DOMAIN w : x # FmtCell(l) => w[x] = ERASED,
           SectorLoaded(r.s, SectorOf[DataPage(l)]),
           ToWrite(r.s, MetaSector(BankOf(l))),
           NEW n, IsWrite(r, w, {DataPage(l)}, CACHE_WRITE_ERASE, n)
    PROVE  ShrunkBy(After(r, rom), After(n, rom), l)
<1> DEFINE new   == After(r, rom)
           later == After(n, rom)
           P     == {DataPage(l)}
<1>1. /\ SectorOf[MetaPage(l)] = MetaSector(BankOf(l)) /\ DataPage(l) \in Page
      /\ MetaPage(l) \in Page
  BY MetaSectorOf, PagesOfLoc
<1>2. WipedCells(l) = BlockFields(l) \cup {FmtCell(l)}
  BY DEF WipedCells, BlockFields
<1>3. ToWrite(n.s, MetaSector(BankOf(l))) /\ ToWrite(n.s, SectorOf[DataPage(l)])
  <2>1. \A p \in Page : r.s[p] \in Dirty => n.s[p] \in Dirty
    BY StatusFacts DEF IsWrite
  <2>2. n.s[DataPage(l)] \in Dirty
    BY <1>1, StatusFacts DEF IsWrite
  <2> QED BY <1>1, <2>1, <2>2 DEF ToWrite
<1>4. ASSUME NEW x \in Cell, x \in DOMAIN w PROVE ToWrite(n.s, SectorOf[PageOf[x]])
  <2>1. PageOf[x] = MetaPage(l) \/ PageOf[x] = DataPage(l)
    BY <1>4, CellsOfBlock DEF WipedCells
  <2> QED BY <1>1, <1>3, <2>1
<1>5. IsWrite(r, w, P, CACHE_WRITE_ERASE, n) /\ CACHE_WRITE_ERASE \in Dirty
      /\ \A p \in Page : p \in P => SectorLoaded(r.s, SectorOf[p])
  BY StatusFacts
<1> HIDE DEF P
<1>6. \A x \in Cell : later[x] = IF x \in DOMAIN w THEN w[x] ELSE new[x]
  BY <1>4, <1>5, AfterWrite
<1> HIDE DEF new, later
<1>7. \A b \in Bank, i \in Slot : later[PreCell(b, i)] = new[PreCell(b, i)]
  <2> SUFFICES ASSUME NEW b \in Bank, NEW i \in Slot
               PROVE  later[PreCell(b, i)] = new[PreCell(b, i)]
    OBVIOUS
  <2>1. PreCell(b, i) \in Cell
    BY DEF PreCell, PreCells, Cell
  <2>2. PreCell(b, i) \notin DOMAIN w
    BY DEF WipedCells, PreCell, FmtCell, NextCell, UsedCell, CrcCell, HdrCell, DataCell
  <2> QED BY <1>6, <2>1, <2>2
<1>8. \A k \in Locs : k # l => SameBlock(new, later, k)
  <2> SUFFICES ASSUME NEW k \in Locs, k # l PROVE SameBlock(new, later, k)
    OBVIOUS
  <2> DEFINE W == WipedCells(l)
  <2>1. BlockFields(k) \cap W = {}
    BY <1>2, FieldsApart
  <2>2. \A x \in Cell : x \notin W => later[x] = new[x]
    BY <1>6
  <2> HIDE DEF W
  <2> QED BY <2>1, <2>2, SameBlockBut
<1>9. BlankBlock(later, l)
  <2>1. ASSUME NEW x \in BlockFields(l) PROVE later[x] = ERASED
    <3>1. x \in Cell /\ x # FmtCell(l) /\ x \in DOMAIN w
      <4>1. x # FmtCell(l)
        BY DEF BlockFields, FmtCell, NextCell, UsedCell, CrcCell, HdrCell, DataCell
      <4> QED BY <1>2, <4>1, FieldsApart
    <3> QED BY <1>6, <3>1
  <2> QED BY <2>1 DEF BlankBlock, BlockFields
<1>10. ShrunkBy(new, later, l)
  BY <1>7, <1>8, <1>9 DEF ShrunkBy
<1> QED BY <1>10 DEF new, later

LEMMA WipeBlockDir ==
    ASSUME ~SpanningDelete, Alone, DirKept, WipeBlock, UNCHANGED sync
    PROVE  DirKept' /\ (CheckKept => CheckKept')
<1>1. /\ op.pc = "wipe" /\ op \in Wiping /\ chip' = chip /\ files' = files
      /\ lastbankblock' = lastbankblock
  BY OpCases DEF WipeBlock, Alone, IInv, TypeOK, FatTypeOK
<1>2. op.blocks \in Seq(Locs) /\ op.blocks # <<>>
  BY <1>1 DEF Wiping, Alone, IInv, LoopsGuarded
<1>3. /\ Cache \in CacheType /\ chip \in Memory /\ LoadedPages(Cache.s)
      /\ Cache.s = cache_status /\ Right(Cache, chip) /\ sync = NoSync /\ sync' = NoSync
  BY <1>1, AloneFacts DEF Alone
<1>4. Erasing(Cache.s) /\ DeleteRight(Cache, chip)
  BY <1>1, <1>3 DEF Alone, Kept, Acting, Right
<1>5. \A i \in DOMAIN op.blocks : ToWrite(Cache.s, MetaSector(BankOf(op.blocks[i])))
  BY <1>1, <1>3 DEF Alone, Kept, Acting
<1> DEFINE l == op.blocks[1]
           meta == [x \in {FmtCell(l), NextCell(l), CrcCell(l), UsedCell(l),
                           HdrCell(l)} |-> FormatImage(x)]
           data == [x \in {DataCell(l)} |-> ERASED]
           S == {SectorOf[DataPage(l)]}
           n == update_cache_status(Put(read_sector(Put(Cache, meta), chip, S), data),
                                    {DataPage(l)}, CACHE_WRITE_ERASE)
           r == read_sector(Cache, chip, S)
           w == [x \in WipedCells(l) |-> FormatImage(x)]
<1>6. l \in Locs /\ 1 \in DOMAIN op.blocks
  BY <1>2, FirstOfSeq, EmptySeq, LenProperties
<1>7. SetCache(n)
  BY DEF WipeBlock
<1>8. \A x \in Cell : x \in DOMAIN meta => meta[x] \in ValuesOf(x[1])
  BY ConstantsAreValues
<1>9. Put(Cache, meta) \in CacheType
  <2> HIDE DEF meta
  <2> QED BY <1>3, <1>8, PutType
<1>10. IsWrite(r, w, {DataPage(l)}, CACHE_WRITE_ERASE, n)
  <2>1. /\ DOMAIN meta = {FmtCell(l), NextCell(l), CrcCell(l), UsedCell(l), HdrCell(l)}
        /\ \A x \in DOMAIN meta : meta[x] = FormatImage(x)
        /\ DOMAIN data = {DataCell(l)} /\ data[DataCell(l)] = ERASED
    OBVIOUS
  <2> HIDE DEF meta, data, l
  <2> QED BY <1>3, <1>6, <1>9, <2>1, WipeIsWrite
<1>11. ToWrite(Cache.s, MetaSector(BankOf(l)))
  BY <1>5, <1>6
<1>12. DOMAIN w = WipedCells(l) /\ \A x \in DOMAIN w : x # FmtCell(l) => w[x] = ERASED
  BY DEF WipedCells, FormatImage, FmtCell, NextCell, CrcCell, UsedCell, HdrCell, DataCell
<1>13. n \in CacheType
  <2>1. \A x \in Cell : x \in DOMAIN data => data[x] \in ValuesOf(x[1])
    BY ConstantsAreValues
  <2> HIDE DEF data, meta, l
  <2> DEFINE q == read_sector(Put(Cache, meta), chip, S)
  <2>2. q \in CacheType
    BY <1>3, <1>9, ReadType
  <2> HIDE DEF q
  <2>3. Put(q, data) \in CacheType
    BY <2>1, <2>2, PutType
  <2>4. n = update_cache_status(Put(q, data), {DataPage(l)}, CACHE_WRITE_ERASE)
    BY DEF q
  <2> QED BY <2>3, <2>4, UpdateType, DirtyStatuses
<1>14. S \subseteq Sector /\ SectorOf[DataPage(l)] \in S
  BY <1>6, SectorsApart
<1>15. SectorLoaded(r.s, SectorOf[DataPage(l)]) /\ r \in CacheType
  <2> HIDE DEF S, l
  <2> QED BY <1>3, <1>14, ReadType, ReadSectorLoads
<1>16. /\ DeleteRight(r, chip) /\ Erasing(r.s) /\ \A s : ToWrite(r.s, s) <=> ToWrite(Cache.s, s)
       /\ After(r, chip) = After(Cache, chip)
  <2> HIDE DEF S, l
  <2>1. PICK P : IsRead(Cache, chip, P, r) /\ Clean(Cache.s, P)
    BY <1>3, <1>14, ReadSectorIsRead
  <2> HIDE DEF r
  <2> QED BY <1>4, <2>1, ReadDeleteRight, ReadStatuses, AfterRead
<1> HIDE DEF l, n, r, w
<1>17. ShrunkBy(After(Cache, chip), After(n, chip), l)
  <2>1. Right(r, chip) /\ ToWrite(r.s, MetaSector(BankOf(l)))
    BY <1>11, <1>16 DEF Right
  <2>2. ShrunkBy(After(r, chip), After(n, chip), l)
    BY <1>6, <1>10, <1>12, <1>15, <2>1, WipedAway
  <2> QED BY <1>16, <2>2
<1> DEFINE new   == After(Cache, chip)
           later == After(n, chip)
<1>18. new \in Memory /\ later \in Memory /\ Target = new /\ Target' = later
  BY <1>1, <1>3, <1>7, <1>13, AfterType, TargetAlone, TargetNext
<1> HIDE DEF new, later
<1>19. Directory(chip) /\ KnownFiles'
  BY <1>1, <1>3, KnownStay DEF DirKept
<1>20. PICK h \in Locs : Shrinking(chip, new, h, op.blocks)
  BY <1>1, <1>18 DEF DirKept
<1>21. ShrunkBy(new, later, op.blocks[1])
  BY <1>17 DEF new, later, l
<1>22. Shrinking(chip, later, h, Tail(op.blocks))
  BY <1>2, <1>3, <1>18, <1>19, <1>20, <1>21, ShrinkGoesOn
<1>23. CheckKept => lastbankblock = NoLoc
  BY <1>1, <1>3, NothingToCheck
<1>24. CheckKept => CheckKept'
  <2>1. op'.pc \in {"emit", "wipe"}
    BY <1>1 DEF WipeBlock, At, Wiping
  <2> QED BY <1>1, <1>23, <2>1, RestCheck
<1>25. CASE Len(op.blocks) = 1
  <2>1. op'.pc = "emit"
    BY <1>25 DEF WipeBlock, At
  <2>2. Tail(op.blocks) = <<>>
    <3> DEFINE s == op.blocks
               t == Tail(s)
    <3>1. s \in Seq(Locs) /\ s # <<>> /\ Len(s) = 1
      BY <1>2, <1>25
    <3> HIDE DEF s
    <3>2. t \in Seq(Locs) /\ Len(t) = Len(s) - 1
      BY <3>1, HeadTailProperties
    <3> HIDE DEF t
    <3>3. t = <<>>
      BY <3>1, <3>2, EmptySeq
    <3> QED BY <3>3 DEF t, s
  <2>3. Directory(later) /\ Removed(chip, later, h)
    BY <1>3, <1>18, <1>19, <1>22, <2>2, ShrinkEnds
  <2>4. Becomes(chip', Target')
    BY <1>1, <1>18, <1>20, <2>3 DEF Becomes
  <2>5. DirKept'
    BY <1>1, <1>3, <1>18, <1>19, <2>1, <2>3, <2>4 DEF DirKept, LinkTrue
  <2> QED BY <1>24, <2>5
<1>26. CASE Len(op.blocks) # 1
  <2>1. op'.pc = "wipe" /\ op'.blocks = Tail(op.blocks)
    BY <1>1, <1>26 DEF WipeBlock, Wiping
  <2>2. \E k \in Locs : Shrinking(chip', Target', k, op'.blocks)
    BY <1>1, <1>18, <1>20, <1>22, <2>1
  <2>3. DirKept'
    BY <1>1, <1>3, <1>19, <2>1, <2>2 DEF DirKept, LinkTrue
  <2> QED BY <1>24, <2>3
<1> QED BY <1>25, <1>26

-----------------------------------------------------------------------------
(***************************************************************************)
(* The synchronization, and the directory.                                 *)
(***************************************************************************)
LEMMA StartSyncShows ==
    ASSUME Kept, slot_start_sync
    PROVE  /\ op.pc = "emit" /\ op'.pc = "idle" /\ sync = NoSync /\ sync' # NoSync
           /\ Target' = Target /\ Pending' = Pending /\ UNCHANGED <<chip, lastbankblock>>
<1>1. op.pc = "emit" /\ sync = NoSync /\ Mirror = Cache
  BY DEF slot_start_sync, Kept, ThreadAlone, Mirror, Pending, Cache
<1>2. /\ sync'.pc = "scan" /\ sync'.status = cache_status /\ op'.pc = "idle"
      /\ UNCHANGED <<chip, contents, cache_status, lastbankblock>>
  BY DEF slot_start_sync, StartSync, Cache, At
<1>3. sync' # NoSync
  BY <1>2 DEF NoSync
<1>4. Pending' = Pending
  BY <1>1, <1>2, <1>3 DEF Pending
<1>5. Target' = Target
  BY <1>2, <1>4 DEF Target, Mirror
<1> QED BY <1>1, <1>2, <1>3, <1>4, <1>5

LEMMA StartSyncDir ==
    ASSUME Kept, DirKept, slot_start_sync
    PROVE  DirKept' /\ (CheckKept => CheckKept')
<1>1. /\ op.pc = "emit" /\ op'.pc = "idle" /\ sync' # NoSync
      /\ Target' = Target /\ UNCHANGED <<chip, lastbankblock>>
  BY StartSyncShows
<1>2. Directory(Target)
  BY <1>1 DEF DirKept
<1>3. DirKept'
  BY <1>1, <1>2 DEF DirKept, LinkTrue
<1>4. CheckKept => CheckKept'
  BY <1>1 DEF CheckKept
<1> QED BY <1>3, <1>4

LEMMA SyncCompleteDir ==
    ASSUME ~SpanningDelete, IInv, Kept, DirKept, slot_sync_complete
    PROVE  DirKept' /\ (CheckKept => CheckKept')
<1>1. sync.pc = "done" /\ sync # NoSync /\ op.pc = "idle"
  BY DEF slot_sync_complete, NoSync
<1>2. Mirror \in CacheType /\ Right(Mirror, chip) /\ chip \in Memory
      /\ Mirror.s = sync.status
  BY <1>1, ThreadFacts
<1>3. NoDirty(Mirror.s)
  BY <1>1, <1>2 DEF IInv, WritesAwaitSync
<1>4. Target = chip /\ Directory(chip)
  BY <1>1, <1>2, <1>3, AfterIsChip DEF Target, DirKept
<1>5. index_files(Mirror) /\ sync' = NoSync /\ chip' = chip /\ lastbankblock' = lastbankblock
  BY <1>1, MirrorIs DEF slot_sync_complete, CacheAfterSync
<1>6. KnownFiles'
  BY <1>2, <1>3, <1>5, IndexDir
<1>7. CASE lastbankblock # NoLoc
  <2>1. op' = [pc |-> "link", goal |-> "check", start |-> lastbankblock,
               at |-> lastbankblock, seen |-> <<>>]
    BY <1>7 DEF slot_sync_complete, StartLink
  <2>2. /\ op'.pc = "link" /\ op'.goal = "check" /\ op'.start = lastbankblock
        /\ op'.at = lastbankblock /\ op'.seen = <<>>
    BY <2>1
  <2>3. LinkTrue'
    BY <2>2 DEF LinkTrue, Following
  <2>4. CheckKept => lastbankblock \in Starts(chip)
    BY <1>1, <1>4, <1>7 DEF CheckKept
  <2>5. DOMAIN op'.seen = {}
    BY <2>2
  <2>6. CheckKept => CheckKept'
    BY <1>5, <2>2, <2>4, <2>5 DEF CheckKept
  <2> QED BY <1>4, <1>5, <1>6, <2>2, <2>3, <2>6, LinkDir
<1>8. CASE lastbankblock = NoLoc
  <2>1. op'.pc = "idle"
    BY <1>8 DEF slot_sync_complete, At
  <2> QED BY <1>4, <1>5, <1>6, <1>8, <2>1, RestDir, RestCheck
<1> QED BY <1>7, <1>8

LEMMA PrepareShows ==
    ASSUME IInv, Kept, PrepareSector, UNCHANGED fatVars
    PROVE  /\ sync # NoSync /\ sync' # NoSync /\ op.pc = "idle"
           /\ UNCHANGED <<op, lastbankblock>>
           /\ Target' = Target /\ Pending' = Pending
           /\ ~Erasing(Pending) => chip' = chip
<1>1. sync.pc = "scan" /\ sync # NoSync
  BY DEF PrepareSector, NoSync
<1>2. PICK s \in Sector :
          /\ NextSector(s)
          /\ IF NeedsErase(sync.status, s) THEN erase_sector(s) ELSE UNCHANGED chip
          /\ sync' = [sync EXCEPT !.pc = "burn", !.sector = s]
  BY DEF PrepareSector
<1>3. /\ sync \in SyncRec /\ op.pc = "idle" /\ Mirror.s = sync.status
  BY <1>1, ThreadFacts
<1>4. /\ sync'.pc = "burn" /\ sync'.status = sync.status /\ sync' # NoSync
      /\ UNCHANGED <<contents, op, lastbankblock>>
  BY <1>2, <1>3 DEF SyncRec, NoSync, fatVars
<1>5. Mirror' = Mirror /\ Pending' = Pending /\ Pending = sync.status
  BY <1>1, <1>4 DEF Mirror, Pending
<1>6. chip' = Erased(chip, s) \/ chip' = chip
  BY <1>2 DEF erase_sector
<1>7. After(Mirror, chip') = Target
  BY <1>1, <1>2, <1>3, <1>6, NextIsFirst, AfterErase DEF Target
<1>8. Target' = Target
  BY <1>5, <1>7 DEF Target
<1>9. ~Erasing(Pending) => chip' = chip
  <2>1. NeedsErase(sync.status, s) => Erasing(sync.status)
    BY DEF NeedsErase, Erasing, DirtyPages, PagesIn
  <2> QED BY <1>2, <1>5, <2>1
<1> QED BY <1>1, <1>3, <1>4, <1>5, <1>8, <1>9

LEMMA BurnShows ==
    ASSUME ~SpanningDelete, IInv, Kept, BurnSector, UNCHANGED fatVars
    PROVE  /\ sync # NoSync /\ sync' # NoSync /\ op.pc = "idle"
           /\ UNCHANGED <<op, lastbankblock>>
           /\ Target' = Target
           /\ ~Erasing(Pending) => ~Erasing(Pending')
           /\ chip' = Burnt(chip, sync.sector, sync.image)
<1>1. sync.pc = "burn" /\ sync # NoSync
  BY DEF BurnSector, NoSync
<1>2. /\ sync \in SyncRec /\ op.pc = "idle"
      /\ Mirror.c = contents /\ Mirror.s = sync.status
  BY <1>1, ThreadFacts
<1> DEFINE n == [c |-> contents, s |-> Synced(sync.status, sync.sector)]
<1>3. /\ sync'.pc = "scan" /\ sync'.status = Synced(sync.status, sync.sector)
      /\ sync' # NoSync /\ UNCHANGED <<contents, op, lastbankblock>>
  BY <1>2 DEF BurnSector, SyncRec, NoSync, fatVars
<1>4. IsSynced(Mirror, sync.sector, n)
  BY <1>2 DEF IsSynced, Synced
<1>5. chip' = Burnt(chip, sync.sector, sync.image)
  BY DEF BurnSector, burn_sector
<1>6. Mirror' = n
  BY <1>3 DEF Mirror, Pending
<1> HIDE DEF n
<1>7. After(n, chip') = After(Mirror, chip)
  BY <1>1, <1>4, <1>5, AfterBurn
<1>8. Target' = Target
  BY <1>6, <1>7 DEF Target
<1>9. ~Erasing(Pending) => ~Erasing(Pending')
  BY <1>1, <1>3, StatusFacts DEF Pending, Erasing, Synced
<1> QED BY <1>1, <1>2, <1>3, <1>5, <1>8, <1>9

LEMMA FinishShows ==
    ASSUME IInv, Kept, FinishSync, UNCHANGED fatVars
    PROVE  /\ sync # NoSync /\ sync' # NoSync /\ op.pc = "idle"
           /\ UNCHANGED <<op, lastbankblock>>
           /\ Target' = Target /\ Pending' = Pending /\ chip' = chip
<1>1. sync.pc = "scan" /\ chip' = chip /\ sync # NoSync
  BY DEF FinishSync, NoSync
<1>2. sync \in SyncRec /\ op.pc = "idle"
  BY <1>1, ThreadFacts
<1>3. /\ sync'.pc = "done" /\ sync'.status = sync.status /\ sync' # NoSync
      /\ UNCHANGED <<contents, op, lastbankblock>>
  BY <1>2 DEF FinishSync, SyncRec, NoSync, fatVars
<1>4. Pending' = Pending
  BY <1>1, <1>3 DEF Pending
<1>5. Target' = Target
  BY <1>1, <1>3, <1>4 DEF Target, Mirror
<1> QED BY <1>1, <1>2, <1>3, <1>4, <1>5

LEMMA ThreadDir ==
    ASSUME ~SpanningDelete, IInv, Kept, DirKept, Thread
    PROVE  DirKept' /\ (CheckKept => CheckKept')
<1>1. UNCHANGED fatVars /\ (PrepareSector \/ BurnSector \/ FinishSync)
  BY DEF Thread
<1>2. /\ sync # NoSync /\ sync' # NoSync /\ op.pc = "idle"
      /\ UNCHANGED <<op, lastbankblock>> /\ Target' = Target
  BY <1>1, PrepareShows, BurnShows, FinishShows
<1>3. Directory(Target') /\ op'.pc = "idle"
  BY <1>2 DEF DirKept
<1>4. DirKept'
  BY <1>2, <1>3 DEF DirKept, LinkTrue
<1>5. CheckKept => CheckKept'
  BY <1>2, <1>3 DEF CheckKept
<1> QED BY <1>4, <1>5

-----------------------------------------------------------------------------
(***************************************************************************)
(* The ends of the process, and the directory.                             *)
(***************************************************************************)
LEMMA NotifyDir ==
    ASSUME IInv, Kept, DirKept, notify
    PROVE  DirKept' /\ (CheckKept => CheckKept')
<1>1. op.pc = "throw" /\ Dies /\ ProcessGone
  BY DEF notify, Dies
<1>2. sync = NoSync
  BY <1>1 DEF Kept, ThreadAlone
<1>3. chip' = chip
  BY <1>1, <1>2 DEF Dies, NoSync
<1>4. /\ sync' = NoSync /\ op'.pc = "off" /\ files' = NoFiles /\ lastbankblock' = NoLoc
  BY <1>1 DEF ProcessGone, At
<1>5. Directory(chip')
  BY <1>1, <1>2, <1>3 DEF DirKept
<1> QED BY <1>4, <1>5, NoneKnown, RestDir, RestCheck

\* No burn of a synchronization is rejected.
LEMMA NeverRejected ==
    ASSUME ~SpanningDelete, IInv, Kept
    PROVE  ~BurnRejected
<1> SUFFICES ASSUME BurnRejected PROVE FALSE
  OBVIOUS
<1>1. sync.pc = "burn" /\ sync # NoSync
  BY DEF BurnRejected, NoSync
<1>2. PICK x \in Cell : /\ InSector(x, sync.sector)
                        /\ Burnt(chip, sync.sector, sync.image)[x] # sync.image[x]
  BY DEF BurnRejected
<1>3. sync.image = contents
  BY <1>1, ThreadFacts
<1>4. Burnt(chip, sync.sector, sync.image)[x] = contents[x]
  BY <1>1, <1>2, BurntIsHeld
<1> QED BY <1>2, <1>3, <1>4

-----------------------------------------------------------------------------
(***************************************************************************)
(* The directory, every step.                                              *)
(***************************************************************************)
LEMMA GuiDir ==
    ASSUME ~SpanningDelete, IInv, Kept, DirKept, Gui
    PROVE  DirKept' /\ (CheckKept => CheckKept')
<1>1. op.pc # "idle" /\ UNCHANGED sync
  BY DEF Gui, FormatErase, FormatBurn, IndexFormatted, AccessFormatted, LinkStep,
         FinishGet, AddBlock, DeleteEntry, WipeBlock, CheckFile, Linked
<1>2. Alone
  BY <1>1 DEF Alone, Kept, ThreadAlone
<1>3. CASE FormatErase
  BY <1>1, <1>2, <1>3, FormatEraseDir
<1>4. CASE FormatBurn
  BY <1>1, <1>2, <1>4, FormatBurnDir
<1>5. CASE IndexFormatted
  BY <1>1, <1>2, <1>5, IndexFormattedDir
<1>6. CASE AccessFormatted
  BY <1>1, <1>2, <1>6, AccessDir DEF AccessFormatted
<1>7. CASE LinkStep
  BY <1>1, <1>2, <1>7, LinkStepDir
<1>8. CASE FinishGet
  BY <1>1, <1>2, <1>8, FinishGetDir
<1>9. CASE AddBlock
  BY <1>1, <1>2, <1>9, AddBlockDir
<1>10. CASE DeleteEntry
  BY <1>1, <1>2, <1>10, DeleteEntryDir
<1>11. CASE WipeBlock
  BY <1>1, <1>2, <1>11, WipeBlockDir
<1>12. CASE CheckFile
  BY <1>1, <1>2, <1>12, CheckFileDir
<1> QED BY <1>3, <1>4, <1>5, <1>6, <1>7, <1>8, <1>9, <1>10, <1>11, <1>12 DEF Gui

LEMMA UserDir ==
    ASSUME Cautious, IInv, Kept, DirKept, User
    PROVE  DirKept' /\ (NoEmpty /\ CheckKept => CheckKept')
<1>1. sync.pc = "none" /\ UNCHANGED sync /\ ~SpanningDelete
  BY DEF User, ButtonsEnabled, Cautious
<1>2. Alone
  BY <1>1, SyncCases DEF Alone, IInv, TypeOK
<1>3. CASE slot_access_fat
  BY <1>1, <1>2, <1>3, AccessDir DEF slot_access_fat
<1>4. CASE DeclineFormat
  BY <1>1, <1>2, <1>4, DeclineDir
<1>5. CASE AcceptFormat \/ slot_format_rom
  <2>1. PICK again \in BOOLEAN : StartFormat(again)
    BY <1>5 DEF AcceptFormat, slot_format_rom
  <2>2. op.pc \in {"ask", "idle"}
    BY <1>5 DEF AcceptFormat, slot_format_rom
  <2> QED BY <1>1, <1>2, <2>1, <2>2, StartFormatDir
<1>6. CASE CloseAlarm \/ AddRagged
  BY <1>1, <1>2, <1>6, SmallStepDir
<1>7. CASE \E l \in Locs : slot_select_file(l) \/ slot_save(l)
  <2>1. PICK l \in Locs : slot_select_file(l) \/ slot_save(l)
    BY <1>7
  <2>2. PICK goal \in {"open", "save"} : StartGet(goal, l)
    BY <2>1 DEF slot_select_file, slot_save
  <2>3. /\ op.pc = "idle" /\ l \in DOMAIN files /\ goal # "check"
        /\ StartLink(goal, l, files[l].blocks) /\ UNCHANGED <<chip, files, lastbankblock>>
    BY <2>2 DEF StartGet
  <2> QED BY <1>1, <1>2, <2>3, StartListDir
<1>8. CASE \E p \in Programs : slot_add_program(p)
  BY <1>1, <1>2, <1>8, AddProgramDir
<1>9. CASE \E l \in DOMAIN files : MayDelete(l) /\ DeleteButton(l)
  <2>1. PICK l \in DOMAIN files : DeleteButton(l)
    BY <1>9
  <2>2. /\ op.pc = "idle" /\ l \in DOMAIN files /\ "delete" # "check"
        /\ StartLink("delete", l, files[l].blocks) /\ UNCHANGED <<chip, files, lastbankblock>>
    BY <2>1 DEF DeleteButton
  <2> QED BY <1>1, <1>2, <2>2, StartListDir
<1> QED BY <1>3, <1>4, <1>5, <1>6, <1>7, <1>8, <1>9 DEF User, ButtonsEnabled, Cautious

LEMMA StutterDir ==
    ASSUME DirKept, UNCHANGED vars
    PROVE  DirKept' /\ (CheckKept => CheckKept')
<1>1. UNCHANGED <<chip, contents, cache_status, files, lastbankblock, op, sync>>
  BY DEF vars
<1>2. Target' = Target
  BY <1>1 DEF Target, Mirror, Pending
<1>3. DirKept'
  BY <1>1, <1>2 DEF DirKept, LinkTrue, KnownFiles
<1>4. CheckKept => CheckKept'
  BY <1>1, <1>2 DEF CheckKept
<1> QED BY <1>3, <1>4

LEMMA NextDir ==
    ASSUME Cautious, IInv, Kept, DirKept, [Next]_vars, crashes' = 0
    PROVE  DirKept' /\ (NoEmpty /\ CheckKept => CheckKept')
<1>0. ~SpanningDelete
  BY DEF Cautious
<1>1. CASE User
  BY <1>1, UserDir
<1>2. CASE Gui
  BY <1>0, <1>2, GuiDir
<1>3. CASE slot_start_sync
  BY <1>3, StartSyncDir
<1>4. CASE slot_sync_complete
  BY <1>0, <1>4, SyncCompleteDir
<1>5. CASE Thread
  BY <1>0, <1>5, ThreadDir
<1>6. CASE notify
  BY <1>6, NotifyDir
<1>7. CASE ThreadDies
  BY <1>7, PortNotLost DEF ThreadDies
<1>8. CASE Crash
  <2>1. crashes \in Nat /\ crashes' = crashes + 1
    BY <1>8 DEF Crash, IInv, TypeOK
  <2> QED BY <2>1
<1>9. CASE BurnRejected
  BY <1>0, <1>9, NeverRejected
<1>10. CASE UNCHANGED vars
  BY <1>10, StutterDir
<1> QED BY <1>1, <1>2, <1>3, <1>4, <1>5, <1>6, <1>7, <1>8, <1>9, <1>10 DEF Next

LEMMA NextDirInv == DirInv /\ [Next]_vars => DirInv'
<1> SUFFICES ASSUME DirInv, [Next]_vars PROVE DirInv'
  OBVIOUS
<1>1. CacheInv /\ CacheInv' /\ IInv
  BY NextCacheInv DEF DirInv, CacheInv
<1>2. ASSUME Cautious, crashes' = 0
      PROVE  DirKept' /\ (NoEmpty => CheckKept')
  <2>1. crashes = 0
    BY <1>1, <1>2, CrashesGrow
  <2>2. Kept /\ DirKept /\ (NoEmpty => CheckKept)
    BY <1>1, <1>2, <2>1 DEF DirInv, CacheInv, Cautious
  <2> QED BY <1>1, <1>2, <2>2, NextDir
<1>3. Cautious' <=> Cautious
  BY DEF Cautious
<1>4. NoEmpty' <=> NoEmpty
  BY DEF NoEmpty, NrBlocks
<1> QED BY <1>1, <1>2, <1>3, <1>4 DEF DirInv

LEMMA InitDirInv == Init => DirInv
<1> SUFFICES ASSUME Init PROVE DirInv
  OBVIOUS
<1>1. /\ chip = Blank /\ op.pc = "off" /\ sync = NoSync /\ files = NoFiles
      /\ lastbankblock = NoLoc
  BY DEF Init, FatInit, SyncInit
<1>2. CacheInv
  BY InitCacheInv
<1>3. chip \in Memory
  BY <1>2 DEF CacheInv, IInv, TypeOK
<1>4. \A x \in Cell : x[1] # "fmt" => chip[x] = ERASED
  BY <1>1, BlankCases DEF Blank
<1>5. Directory(chip)
  BY <1>3, <1>4, BlankDirectory
<1>6. KnownFiles
  BY <1>1 DEF KnownFiles, NoFiles
<1>7. DirKept /\ CheckKept
  BY <1>1, <1>5, <1>6 DEF DirKept, LinkTrue, CheckKept
<1> QED BY <1>2, <1>7 DEF DirInv

\* The invariant of the directory is inductive: what the cache and the chip
\* hold together is a directory in order, at every step of an add, a delete
\* and their synchronizations.
THEOREM DirectoryInvariance == Spec => []DirInv
<1> QED BY InitDirInv, NextDirInv, PTL DEF Spec

LEMMA QuietDirectory ==
    ASSUME DirInv, Cautious, crashes = 0, Quiet
    PROVE  Directory(chip)
<1>1. IInv /\ DirKept
  BY DEF DirInv, CacheInv
<1>2. sync = NoSync /\ op.pc # "format"
  BY <1>1, SyncCases DEF Quiet, IInv, TypeOK
<1> QED BY <1>1, <1>2 DEF DirKept

\* Whatever the user adds and deletes, in whatever order, every file listed
\* reads back from the chip between tasks and no two share a block
\* (add_file, delete_file, SyncThread::run, slot_sync_complete).
THEOREM DirectoryStaysSound ==
    ASSUME ~UseMenuInSync, ~SpanningDelete
    PROVE  Spec => [](crashes = 0 => DirectorySound)
<1>1. DirInv => (crashes = 0 => DirectorySound)
  BY QuietDirectory DEF Cautious, DirectorySound, Directory
<1> QED BY <1>1, DirectoryInvariance, PTL

\* Between tasks every block is in a file or free and erased: neither
\* add_file nor delete_file leaks a block.
THEOREM NoBlockLeaks ==
    ASSUME ~UseMenuInSync, ~SpanningDelete
    PROVE  Spec => [](crashes = 0 => BlocksAccounted)
<1>1. DirInv => (crashes = 0 => BlocksAccounted)
  BY QuietDirectory DEF Cautious, BlocksAccounted, Directory
<1> QED BY <1>1, DirectoryInvariance, PTL

\* mainwindow.cpp:1045 never reports a file that was burnt undisturbed, if no
\* program of 0 (or 256) blocks is added.
THEOREM AlarmsAreTrue ==
    ASSUME ~UseMenuInSync, ~SpanningDelete, \A p \in Programs : NrBlocks(p) # 0
    PROVE  Spec => [](crashes = 0 => NoFalseAlarm)
<1>1. NoEmpty /\ Cautious
  BY DEF NoEmpty, Cautious
<1>2. DirInv => (crashes = 0 => NoFalseAlarm)
  BY <1>1 DEF DirInv, CheckKept, NoFalseAlarm
<1> QED BY <1>2, DirectoryInvariance, PTL
-----------------------------------------------------------------------------
(***************************************************************************)
(* The files on the chip, from one task to the next.                       *)
(***************************************************************************)
\* Files are the files of store, and file h with contents c.
OneFileMore(store, here, h, c) ==
    /\ h \notin DOMAIN store
    /\ here = [k \in DOMAIN store \cup {h} |-> IF k = h THEN c ELSE store[k]]
OneFileLess(store, here, h) ==
    /\ h \in DOMAIN store
    /\ here = [k \in DOMAIN store \ {h} |-> store[k]]
\* What a task may leave of the files it has found.
TaskTurns(store, here) ==
    \/ here = store
    \/ here = [l \in {} |-> <<>>]
    \/ \E h \in Locs, p \in Programs : OneFileMore(store, here, h, p)
    \/ \E h \in Locs : OneFileLess(store, here, h)
FilesKept(store, here) == \A l \in DOMAIN store : l \in DOMAIN here /\ here[l] = store[l]

\* Everything of file l is on chip rom as it will be on chip new.
Intact(rom, new, l) ==
    /\ \E i \in Slot :
          /\ new[PreCell(BankOf(l), i)] = BlockOf(l)
          /\ \A j \in 0 .. i : /\ new[PreCell(BankOf(l), j)] # ERASED
                               /\ rom[PreCell(BankOf(l), j)] = new[PreCell(BankOf(l), j)]
    /\ \A k \in BlocksOf(new, l) : SameBlock(new, rom, k)
AllIntact(store, rom, new) == \A l \in DOMAIN store : Intact(rom, new, l)

\* What an add and its synchronization keep, and what they store.
AddTask ==
    /\ op.pc \in {"format", "wipe"} => task # "add"
    /\ op.pc = "add" => asked = op.prog
    /\ op.pc = "emit" \/ sync # NoSync =>
          /\ task = "add" <=> lastbankblock # NoLoc
          /\ task = "add" =>
                /\ ~Erasing(Pending)
                /\ OneFileMore(stored, FilesOn(Target), lastbankblock, asked)
                /\ AllIntact(stored, chip, Target)
    /\ op.pc = "link" /\ op.goal = "check" =>
          task = "add" /\ OneFileMore(stored, FilesOn(chip), op.start, asked)
    /\ task = "add" /\ sync = NoSync => FilesKept(stored, FilesOn(chip))

\* A task that has not changed anything yet.
Unchanged == op.pc \in {"idle", "add", "wipe"} \/ (op.pc = "link" /\ op.goal # "check")

HistKept ==
    /\ sync = NoSync /\ op.pc # "format" => TaskTurns(stored, FilesOn(chip))
    /\ sync # NoSync \/ op.pc = "emit" => TaskTurns(stored, FilesOn(Target))
    /\ sync = NoSync /\ Unchanged => stored = FilesOn(chip)
    /\ AddTask

\* A step that makes the program quiet shows what the task has done.
TurnShown == Quiet' => TaskTurns(stored, FilesOn(chip'))

ByteSized == \A p \in Programs : Len(p) \in 1 .. 255
HistInv == DirInv /\ (Cautious /\ ByteSized /\ crashes = 0 => HistKept)

\* The variables of the history, with a step.
HistTurn ==
    /\ task' = IF Quiet' THEN "none" ELSE TaskOf(op', lastbankblock')
    /\ asked' = IF op'.pc = "add" THEN op'.prog
                ELSE IF task' = "add" THEN asked ELSE <<>>
    /\ stored' = IF Quiet' THEN FilesOn(chip') ELSE stored
-----------------------------------------------------------------------------
(***************************************************************************)
(* What is intact on the chip.                                             *)
(***************************************************************************)
LEMMA FilesAre ==
    ASSUME NEW rom
    PROVE  /\ DOMAIN FilesOn(rom) = {k \in Starts(rom) : Sound(rom, k)}
           /\ \A k \in DOMAIN FilesOn(rom) : FilesOn(rom)[k] = Held(rom, k)
BY FilesOnIs

\* What is not erased on chip rom, chip new leaves alone.
LEMMA IntactFile ==
    ASSUME NEW rom \in Memory, NEW new \in Memory, Directory(rom),
           \A x \in Cell : new[x] = rom[x] \/ rom[x] = ERASED,
           NEW l \in Starts(rom), \A k \in BlocksOf(rom, l) : SameBlock(rom, new, k)
    PROVE  Intact(rom, new, l)
<1>1. l \in Locs /\ PreambleEnds(rom) /\ Upward(rom)
  BY FileOf DEF Directory
<1>2. PICK i \in Slot : rom[PreCell(BankOf(l), i)] = BlockOf(l)
  BY <1>1, StartsAre
<1>3. BankOf(l) \in Bank /\ BlockOf(l) \in Block
  BY <1>1, LocParts
<1>4. rom[PreCell(BankOf(l), i)] # ERASED
  BY <1>2, <1>3, PreValue
<1>5. ASSUME NEW j \in 0 .. i
      PROVE  /\ new[PreCell(BankOf(l), j)] # ERASED
             /\ rom[PreCell(BankOf(l), j)] = new[PreCell(BankOf(l), j)]
  <2>1. j \in Slot /\ (j < i \/ j = i)
    BY GeometryAssumption DEF Slot
  <2>2. rom[PreCell(BankOf(l), j)] # ERASED
    BY <1>1, <1>3, <1>4, <2>1 DEF PreambleEnds
  <2>3. PreCell(BankOf(l), j) \in Cell
    BY <1>3, <2>1, PreValue
  <2> QED BY <2>2, <2>3
<1>6. i \in 0 .. i
  BY DEF Slot
<1>7. BlocksOf(new, l) = BlocksOf(rom, l)
  BY <1>1, FileStays
<1>8. \A k \in BlocksOf(new, l) : SameBlock(new, rom, k)
  BY <1>7 DEF SameBlock
<1>9. new[PreCell(BankOf(l), i)] = BlockOf(l)
  BY <1>2, <1>5, <1>6
<1> QED BY <1>5, <1>8, <1>9 DEF Intact

\* Cells that become what they are to be disturb nothing.
LEMMA IntactStays ==
    ASSUME NEW rom, NEW new \in Memory, NEW later, Upward(new), NEW l \in Locs,
           Intact(rom, new, l), \A x \in Cell : later[x] = rom[x] \/ later[x] = new[x]
    PROVE  Intact(later, new, l)
<1>1. PICK i \in Slot :
          /\ new[PreCell(BankOf(l), i)] = BlockOf(l)
          /\ \A j \in 0 .. i : /\ new[PreCell(BankOf(l), j)] # ERASED
                               /\ rom[PreCell(BankOf(l), j)] = new[PreCell(BankOf(l), j)]
  BY DEF Intact
<1>2. ASSUME NEW j \in 0 .. i
      PROVE  later[PreCell(BankOf(l), j)] = new[PreCell(BankOf(l), j)]
  <2>1. j \in Slot
    BY GeometryAssumption DEF Slot
  <2>2. PreCell(BankOf(l), j) \in Cell
    BY <2>1, LocParts, PreValue
  <2> QED BY <1>1, <2>2
<1>3. ASSUME NEW k \in BlocksOf(new, l)
      PROVE  SameBlock(new, later, k)
  <2>1. k \in Locs
    BY BlocksAre
  <2>2. {NextCell(k), UsedCell(k), CrcCell(k), HdrCell(k), DataCell(k)} \subseteq Cell
    BY <2>1, CellsOfBlock
  <2>3. SameBlock(new, rom, k)
    BY DEF Intact
  <2> QED BY <2>2, <2>3 DEF SameBlock
<1> QED BY <1>1, <1>2, <1>3 DEF Intact

\* A file that is intact reads back.
LEMMA IntactReads ==
    ASSUME NEW rom \in Memory, NEW new \in Memory, Upward(new), NEW l \in Locs,
           l \in DOMAIN FilesOn(new), Intact(rom, new, l)
    PROVE  l \in DOMAIN FilesOn(rom) /\ FilesOn(rom)[l] = FilesOn(new)[l]
<1>1. PICK i \in Slot :
          /\ new[PreCell(BankOf(l), i)] = BlockOf(l)
          /\ \A j \in 0 .. i : /\ new[PreCell(BankOf(l), j)] # ERASED
                               /\ rom[PreCell(BankOf(l), j)] = new[PreCell(BankOf(l), j)]
  BY DEF Intact
<1>2. i \in 0 .. i
  BY DEF Slot
<1>3. rom[PreCell(BankOf(l), i)] = BlockOf(l) /\ Listed(rom, BankOf(l), i)
  BY <1>1, <1>2 DEF Listed
<1>4. PreCell(BankOf(l), i) \in PreCells /\ Loc(BankOf(l), BlockOf(l)) = l
  BY LocParts, PreValue, LocIsBoth
<1>5. l \in Starts(rom)
  <2> DEFINE e == PreCell(BankOf(l), i)
  <2>1. e \in PreCells /\ e[2] = BankOf(l) /\ e[3] = i
    BY <1>4 DEF PreCell
  <2>2. Listed(rom, e[2], e[3]) /\ l = Loc(e[2], rom[e])
    BY <1>3, <1>4, <2>1
  <2> QED BY <2>1, <2>2 DEF Starts
<1>6. \A k \in BlocksOf(new, l) : SameBlock(new, rom, k)
  BY DEF Intact
<1>7. (Sound(rom, l) <=> Sound(new, l)) /\ SameFile(new, rom, l)
  BY <1>6, FileStays
<1> QED BY <1>5, <1>7, FilesAre DEF SameFile

\* As long as nothing is to be erased the chip keeps what is written on it.
LEMMA OnlyBlanksChange ==
    ASSUME ~SpanningDelete, NEW m \in CacheType, NEW rom, Right(m, rom), ~Erasing(m.s),
           LoadedPages(m.s), NEW x \in Cell
    PROVE  After(m, rom)[x] = rom[x] \/ rom[x] = ERASED
<1>1. After(m, rom)[x] = IF ToWrite(m.s, SectorOf[PageOf[x]]) THEN m.c[x] ELSE rom[x]
  BY DEF After
<1>2. CASE ToWrite(m.s, SectorOf[PageOf[x]])
  <2>1. PageOf[x] \in Page
    BY PageOfCell
  <2>2. m.s[PageOf[x]] # CACHE_UNKNOWN
    BY <1>2, <2>1, SectorOfIsSector DEF ToWrite, LoadedPages, SectorLoaded
  <2>3. m.s[PageOf[x]] = CACHE_SYNCED \/ m.s[PageOf[x]] \in Dirty
    BY <2>1, <2>2, StatusFacts DEF CacheType
  <2>4. x \in Tracked /\ HeldOrBlank(m, rom)
    BY AllTracked DEF Right, AddRight
  <2>5. m.c[x] = rom[x] \/ rom[x] = ERASED
    BY <2>3, <2>4 DEF HeldOrBlank
  <2> QED BY <1>1, <1>2, <2>5
<1> QED BY <1>1, <1>2
-----------------------------------------------------------------------------
(***************************************************************************)
(* The steps, and what they leave of the files.                            *)
(***************************************************************************)
LEMMA TurnFacts ==
    ASSUME HistTurn
    PROVE  /\ Quiet' => stored' = FilesOn(chip') /\ task' = "none"
           /\ ~Quiet' => stored' = stored
           /\ op'.pc = "add" => task' = "add" /\ asked' = op'.prog
           /\ op'.pc = "emit" /\ lastbankblock' # NoLoc => task' = "add"
           /\ op'.pc = "wipe" => task' = "delete"
           /\ op'.pc = "format" => task' = "format"
           /\ op'.pc # "add" /\ task' = "add" => asked' = asked
           /\ /\ ~Quiet' /\ op'.pc \notin {"add", "wipe", "format"}
              /\ op'.pc = "emit" => lastbankblock' = NoLoc
              => task' = task
<1>1. Quiet' => op'.pc = "idle"
  BY DEF Quiet
<1>2. op'.pc = "add" => TaskOf(op', lastbankblock') = "add"
  BY DEF TaskOf
<1>3. op'.pc = "emit" /\ lastbankblock' # NoLoc => TaskOf(op', lastbankblock') = "add"
  BY DEF TaskOf
<1>4. op'.pc = "wipe" => TaskOf(op', lastbankblock') = "delete"
  BY DEF TaskOf
<1>5. op'.pc = "format" => TaskOf(op', lastbankblock') = "format"
  BY DEF TaskOf
<1>6. ASSUME op'.pc \notin {"add", "wipe", "format"}, op'.pc = "emit" => lastbankblock' = NoLoc
      PROVE  TaskOf(op', lastbankblock') = task
  BY <1>6 DEF TaskOf
<1> QED BY <1>1, <1>2, <1>3, <1>4, <1>5, <1>6 DEF HistTurn

\* A step that leaves the chip alone, and begins and ends no synchronization.
LEMMA ChipUntouched ==
    ASSUME HistTurn, HistKept, sync = NoSync, sync' = NoSync, chip' = chip,
           op.pc # "format", op'.pc \notin {"add", "emit", "format"},
           op'.pc = "wipe" => Unchanged,
           op'.pc = "link" /\ op'.goal # "check" => Unchanged,
           op'.pc = "link" /\ op'.goal = "check" =>
               op.pc = "link" /\ op.goal = "check" /\ op'.start = op.start
    PROVE  HistKept' /\ TurnShown
<1>1. TaskTurns(stored, FilesOn(chip'))
  BY DEF HistKept
<1>2. CASE Quiet'
  <2>1. stored' = FilesOn(chip') /\ task' = "none" /\ op'.pc = "idle"
    BY <1>2, TurnFacts DEF Quiet
  <2>2. TaskTurns(stored', FilesOn(chip'))
    BY <2>1 DEF TaskTurns
  <2>3. AddTask'
    BY <2>1 DEF AddTask
  <2> QED BY <1>1, <2>1, <2>2, <2>3 DEF HistKept, TurnShown
<1>3. CASE ~Quiet'
  <2>1. stored' = stored /\ op'.pc # "idle"
    BY <1>3, TurnFacts DEF Quiet, NoSync
  <2>2. task' = "add" => task = "add" /\ op'.pc # "wipe" /\ asked' = asked
    BY <1>3, TurnFacts
  <2>3. op'.pc = "link" => task' = task
    BY <1>3, TurnFacts
  <2>4. Unchanged' => stored' = FilesOn(chip')
    BY <2>1 DEF Unchanged, HistKept
  <2>5. ASSUME op'.pc = "link", op'.goal = "check"
        PROVE  task' = "add" /\ OneFileMore(stored', FilesOn(chip'), op'.start, asked')
    BY <2>1, <2>2, <2>3, <2>5 DEF HistKept, AddTask
  <2>6. task' = "add" => FilesKept(stored', FilesOn(chip'))
    BY <2>1, <2>2 DEF HistKept, AddTask
  <2>7. AddTask'
    BY <2>2, <2>5, <2>6 DEF AddTask
  <2> QED BY <1>1, <1>3, <2>1, <2>4, <2>7 DEF HistKept, TurnShown
<1> QED BY <1>2, <1>3

\* A stutter.
LEMMA HistStutter ==
    ASSUME HistKept, UNCHANGED histVars
    PROVE  HistKept'
<1>1. UNCHANGED <<chip, contents, cache_status, files, lastbankblock, op, sync,
                  task, asked, stored>>
  BY DEF histVars, vars
<1>2. Target' = Target /\ Pending' = Pending
  BY <1>1 DEF Target, Mirror, Pending
<1>3. Unchanged' <=> Unchanged
  BY <1>1 DEF Unchanged
<1>4. AddTask'
  BY <1>1, <1>2 DEF HistKept, AddTask
<1> QED BY <1>1, <1>2, <1>3, <1>4 DEF HistKept

LEMMA WholeProgram ==
    ASSUME ByteSized, NEW p \in Programs
    PROVE  NrBlocks(p) = Len(p) /\ NrBlocks(p) # 0 /\ StoredAs(p) = p
<1>1. Len(p) \in 1 .. 255
  BY DEF ByteSized
<1>2. NrBlocks(p) = Len(p)
  <2>1. \A n \in 1 .. 255 : n % 256 = n
    OBVIOUS
  <2> QED BY <1>1, <2>1 DEF NrBlocks
<1>3. p \in Seq(Word)
  BY GeometryAssumption
<1>4. DOMAIN p = 1 .. Len(p) /\ p = [j \in 1 .. Len(p) |-> p[j]]
  BY <1>3, LenProperties
<1>5. StoredAs(p) = [j \in 1 .. Len(p) |-> p[j]]
  BY <1>2 DEF StoredAs
<1>6. NrBlocks(p) # 0
  BY <1>1, <1>2
<1> QED BY <1>2, <1>4, <1>5, <1>6

LEMMA BecomesTurns ==
    ASSUME ByteSized, NEW rom, NEW new, Becomes(rom, new)
    PROVE  TaskTurns(FilesOn(rom), FilesOn(new))
<1>1. CASE FilesOn(new) = FilesOn(rom)
  BY <1>1 DEF TaskTurns
<1>2. ASSUME NEW h \in Locs, NEW prog \in Programs, Added(rom, new, h, StoredAs(prog))
      PROVE  OneFileMore(FilesOn(rom), FilesOn(new), h, prog)
  BY <1>2, WholeProgram DEF Added, OneFileMore
<1>3. ASSUME NEW h \in Locs, Removed(rom, new, h)
      PROVE  OneFileLess(FilesOn(rom), FilesOn(new), h)
  BY <1>3 DEF Removed, OneFileLess
<1> QED BY <1>1, <1>2, <1>3 DEF Becomes, TaskTurns

LEMMA MoreKeeps ==
    ASSUME NEW store, NEW here, NEW h, NEW c, OneFileMore(store, here, h, c)
    PROVE  FilesKept(store, here) /\ h \in DOMAIN here /\ here[h] = c
           /\ DOMAIN store \subseteq DOMAIN here
BY DEF OneFileMore, FilesKept

\* The format of the chip.
LEMMA FormattingHist ==
    ASSUME HistTurn, sync' = NoSync, op'.pc = "format"
    PROVE  HistKept' /\ TurnShown
<1>1. task' = "format" /\ ~Quiet'
  BY TurnFacts DEF Quiet
<1>2. AddTask'
  BY <1>1 DEF AddTask
<1> QED BY <1>1, <1>2 DEF HistKept, TurnShown, Unchanged

LEMMA FormatBurnHist ==
    ASSUME Alone, HistTurn, HistKept, FormatBurn, UNCHANGED sync
    PROVE  HistKept' /\ TurnShown
<1>1. op.pc = "format" /\ op \in Formatting /\ sync' = NoSync
  BY OpCases DEF FormatBurn, Alone, IInv, TypeOK, FatTypeOK
<1>2. CASE op.bank + 1 \in Bank
  <2>1. op'.pc = "format"
    BY <1>1, <1>2 DEF FormatBurn, Formatting
  <2> QED BY <1>1, <2>1, FormattingHist
<1>3. CASE op.bank + 1 \notin Bank
  <2>1. op'.pc \in {"reaccess", "index"}
    BY <1>3 DEF FormatBurn, At
  <2>2. chip' \in Memory
    BY <1>1, AloneFacts, BlankAndZeros, BurntType DEF FormatBurn, burn_sector
  <2>3. FilesOn(chip') = [l \in {} |-> <<>>]
    BY <1>1, <1>3, <2>2, LastBankBurnt, BlankDirectory
  <2>4. ~Quiet' /\ task' = task
    <3>1. ~Quiet'
      BY <2>1 DEF Quiet
    <3> QED BY <2>1, <3>1, TurnFacts
  <2>5. task # "add"
    BY <1>1 DEF HistKept, AddTask
  <2>6. AddTask'
    BY <1>1, <2>1, <2>4, <2>5 DEF AddTask
  <2>7. TaskTurns(stored', FilesOn(chip'))
    BY <2>3 DEF TaskTurns
  <2> QED BY <1>1, <2>1, <2>4, <2>6, <2>7 DEF HistKept, TurnShown, Unchanged
<1> QED BY <1>2, <1>3

\* add_file.
LEMMA AddProgramHist ==
    ASSUME ByteSized, Alone, HistTurn, HistKept, NEW prog \in Programs, slot_add_program(prog),
           UNCHANGED sync
    PROVE  HistKept' /\ TurnShown
<1>1. op.pc = "idle" /\ chip' = chip /\ sync = NoSync /\ sync' = NoSync
  BY DEF slot_add_program, Alone
<1>2. NrBlocks(prog) # 0
  BY WholeProgram
<1>3. op'.pc = "throw" \/ op'.pc = "add"
  <2>1. CASE FreeBlocks(Cache, chip) = {}
    BY <2>1 DEF slot_add_program, At
  <2>2. CASE FreeBlocks(Cache, chip) # {}
    <3>1. PICK l \in FreeBlocks(Cache, chip), i \in Slot :
              IF NrBlocks(prog) = 0
              THEN At("emit")
              ELSE op' = [pc |-> "add", prog |-> prog, start |-> l, at |-> l, i |-> 0]
      BY <2>2 DEF slot_add_program
    <3> QED BY <1>2, <3>1
  <2> QED BY <2>1, <2>2
<1>4. CASE op'.pc = "throw"
  BY <1>1, <1>4, ChipUntouched
<1>5. CASE op'.pc = "add"
  <2>1. ~Quiet'
    BY <1>5 DEF Quiet
  <2>2. task' = "add" /\ asked' = op'.prog /\ stored' = stored
    BY <1>5, <2>1, TurnFacts
  <2>3. stored' = FilesOn(chip')
    BY <1>1, <2>2 DEF HistKept, Unchanged
  <2>4. FilesKept(stored', FilesOn(chip'))
    BY <2>3 DEF FilesKept
  <2>5. AddTask'
    BY <1>1, <1>5, <2>2, <2>4 DEF AddTask
  <2>6. TaskTurns(stored', FilesOn(chip'))
    BY <2>3 DEF TaskTurns
  <2> QED BY <1>1, <1>5, <2>1, <2>3, <2>5, <2>6 DEF HistKept, TurnShown
<1> QED BY <1>3, <1>4, <1>5

\* delete_file.
LEMMA WipeBlockHist ==
    ASSUME ByteSized, Alone, DirKept', CheckKept, HistTurn, HistKept, WipeBlock,
           UNCHANGED sync
    PROVE  HistKept' /\ TurnShown
<1>1. op.pc = "wipe" /\ chip' = chip /\ sync = NoSync /\ sync' = NoSync
      /\ lastbankblock' = lastbankblock
  BY DEF WipeBlock, Alone
<1>2. stored = FilesOn(chip) /\ task # "add"
  BY <1>1 DEF HistKept, Unchanged, AddTask
<1>3. CASE Len(op.blocks) # 1
  <2>1. op'.pc = "wipe"
    <3>1. op \in Wiping
      BY <1>1, OpCases DEF Alone, IInv, TypeOK, FatTypeOK
    <3> QED BY <1>1, <1>3, <3>1 DEF WipeBlock, Wiping
  <2> QED BY <1>1, <2>1, ChipUntouched DEF Unchanged
<1>4. CASE Len(op.blocks) = 1
  <2>1. op'.pc = "emit"
    BY <1>4 DEF WipeBlock, At
  <2>2. lastbankblock' = NoLoc
    BY <1>1, NothingToCheck
  <2>3. ~Quiet'
    BY <2>1 DEF Quiet
  <2>4. stored' = stored /\ task' = task
    BY <2>1, <2>2, <2>3, TurnFacts
  <2>5. Becomes(chip', Target')
    BY <2>1 DEF DirKept
  <2>6. TaskTurns(stored', FilesOn(Target')) /\ TaskTurns(stored', FilesOn(chip'))
    BY <1>1, <1>2, <2>4, <2>5, BecomesTurns DEF TaskTurns
  <2>7. AddTask'
    BY <1>1, <1>2, <2>1, <2>2, <2>4 DEF AddTask
  <2> QED BY <1>1, <2>1, <2>3, <2>6, <2>7 DEF HistKept, TurnShown, Unchanged
<1> QED BY <1>3, <1>4

\* The signal of add_file and delete_file.
LEMMA StartSyncHist ==
    ASSUME Kept, HistTurn, HistKept, slot_start_sync
    PROVE  HistKept' /\ TurnShown
<1>1. /\ op.pc = "emit" /\ op'.pc = "idle" /\ sync = NoSync /\ sync' # NoSync
      /\ Target' = Target /\ Pending' = Pending /\ UNCHANGED <<chip, lastbankblock>>
  BY StartSyncShows
<1>2. ~Quiet'
  BY DEF slot_start_sync, StartSync, Quiet
<1>3. stored' = stored /\ task' = task /\ (task' = "add" => asked' = asked)
  BY <1>1, <1>2, TurnFacts
<1>4. AddTask'
  BY <1>1, <1>3 DEF AddTask, HistKept
<1> QED BY <1>1, <1>2, <1>3, <1>4 DEF HistKept, TurnShown

\* A file that grows on blank blocks leaves the others intact.
LEMMA GrownIntact ==
    ASSUME NEW rom \in Memory, NEW new \in Memory, NEW later \in Memory, Directory(rom),
           NEW o, NEW n, Growing(rom, new, o, n), GrownBy(new, later, o, n),
           \A x \in Cell : later[x] = rom[x] \/ rom[x] = ERASED
    PROVE  AllIntact(FilesOn(rom), rom, later)
<1> SUFFICES ASSUME NEW l \in DOMAIN FilesOn(rom) PROVE Intact(rom, later, l)
  BY DEF AllIntact
<1>1. l \in Starts(rom)
  BY FilesAre
<1>2. \A k \in BlocksOf(rom, l) : k \in Locs /\ rom[UsedCell(k)] = USED
  BY <1>1, FileOf
<1> DEFINE s == ChainOf(new, o.start)
<1>3. \A j \in 1 .. o.i + 1 : rom[UsedCell(s[j])] = ERASED
  BY GrowingFacts
<1>4. \A k \in Locs : (\A j \in 1 .. o.i + 1 : k # s[j]) => SameBlock(rom, later, k)
  BY GrowthKeeps
<1>5. \A k \in BlocksOf(rom, l) : SameBlock(rom, later, k)
  <2> HIDE DEF s
  <2> QED BY <1>2, <1>3, <1>4 DEF USED, ERASED
<1> QED BY <1>1, <1>5, IntactFile

\* The last block of a file, as the chip will show it.
LEMMA LastBlock ==
    ASSUME ~SpanningDelete, Alone, DirKept, AddBlock, UNCHANGED sync, op'.pc = "emit"
    PROVE  /\ op.prog \in Programs /\ lastbankblock' = op.start /\ op.start \in Locs
           /\ ~Erasing(Pending')
           /\ Added(chip, Target', op.start, StoredAs(op.prog))
           /\ AllIntact(FilesOn(chip), chip, Target')
<1> DEFINE c == NrBlocks(op.prog)
           m == TurnCache
           new == Target
           now == After(m, chip)
<1>1. /\ op.pc = "add" /\ op \in Adding /\ chip' = chip
      /\ sync = NoSync /\ sync' = NoSync /\ chip \in Memory
  BY TurnOfAdd
<1>2. /\ op.prog \in Programs /\ op.start \in Locs /\ op.at \in Locs
      /\ op.i \in Nat /\ op.i < c
  BY TurnOfAdd
<1>3. m \in CacheType /\ LoadedPages(m.s) /\ Right(m, chip) /\ ~Erasing(m.s)
  BY TurnOfAdd, FillingRight
<1>4. /\ Directory(chip) /\ Growing(chip, new, op, c) /\ new \in Memory /\ now \in Memory
      /\ GrownBy(new, now, op, c) /\ now[NextCell(op.at)] = new[NextCell(op.at)]
  BY TurnOfAdd
<1> HIDE DEF c
<1>5. FreeBlocks(m, chip) # {}
  <2> SUFFICES ASSUME FreeBlocks(m, chip) = {} PROVE FALSE
    OBVIOUS
  <2>1. op' = [pc |-> "throw"]
    BY DEF AddBlock, At, TurnCache
  <2> QED BY <2>1
<1>6. PICK nxt \in FreeBlocks(m, chip) :
            /\ IsFirst(nxt, FreeBlocks(m, chip))
            /\ IF op.i = c - 1
               THEN SetCache(ScannedTo(m, chip, nxt)) /\ lastbankblock' = op.start
               ELSE op' = [op EXCEPT !.i = @ + 1, !.at = nxt]
  BY <1>5 DEF AddBlock, c, TurnCache
<1> HIDE DEF m
<1>7. op.i = c - 1
  <2> SUFFICES ASSUME op.i # c - 1 PROVE FALSE
    OBVIOUS
  <2>1. op' = [op EXCEPT !.i = @ + 1, !.at = nxt]
    BY <1>6
  <2>2. op'.pc = op.pc
    BY <1>1, <2>1 DEF Adding
  <2> QED BY <1>1, <2>2
<1> DEFINE m1 == ScannedTo(m, chip, nxt)
<1>8. m1 \in CacheType /\ After(m1, chip) = now /\ ~Erasing(m1.s)
  BY <1>1, <1>3, <1>6, FirstFree
<1>9. \A x \in Cell : now[x] = chip[x] \/ chip[x] = ERASED
  BY <1>1, <1>3, OnlyBlanksChange
<1> HIDE DEF m1, new, now
<1>10. SetCache(m1) /\ lastbankblock' = op.start
  BY <1>6, <1>7 DEF m1
<1>11. Target' = now /\ ~Erasing(Pending')
  <2>1. Target' = now
    BY <1>1, <1>8, <1>10, TargetNext
  <2>2. cache_status' = m1.s
    BY <1>10 DEF SetCache
  <2>3. Pending' = m1.s
    BY <1>1, <2>2 DEF Pending
  <2> QED BY <1>8, <2>1, <2>3
<1>12. op.i + 1 = c
  BY <1>2, <1>7, NrBlocksBound DEF c
<1>13. Added(chip, now, op.start, StoredAs(op.prog))
  BY <1>1, <1>4, <1>12, GrowEnds DEF StoredAs, c
<1>14. AllIntact(FilesOn(chip), chip, now)
  BY <1>1, <1>4, <1>9, GrownIntact
<1> QED BY <1>2, <1>10, <1>11, <1>13, <1>14

LEMMA AddBlockHist ==
    ASSUME ~SpanningDelete, ByteSized, Alone, DirKept, HistTurn, HistKept, AddBlock,
           UNCHANGED sync
    PROVE  HistKept' /\ TurnShown
<1>1. op.pc = "add" /\ op \in Adding /\ chip' = chip /\ sync = NoSync /\ sync' = NoSync
  BY OpCases DEF AddBlock, Alone, IInv, TypeOK, FatTypeOK
<1>2. stored = FilesOn(chip) /\ asked = op.prog
  BY <1>1 DEF HistKept, Unchanged, AddTask
<1>3. op'.pc \in {"throw", "emit"} \/ (op'.pc = "add" /\ op'.prog = op.prog)
  <2> DEFINE m == BlockWritten(Cache, op.prog, op.i, op.at)
  <2>1. CASE FreeBlocks(m, chip) = {}
    <3>1. op' = [pc |-> "throw"]
      BY <2>1 DEF AddBlock, At
    <3> QED BY <3>1
  <2>2. CASE FreeBlocks(m, chip) # {}
    <3>1. PICK nxt \in FreeBlocks(m, chip) :
              IF op.i = NrBlocks(op.prog) - 1 THEN op' = [pc |-> "emit"]
              ELSE op' = [op EXCEPT !.i = @ + 1, !.at = nxt]
      BY <2>2 DEF AddBlock, At
    <3> HIDE DEF m
    <3>2. CASE op.i = NrBlocks(op.prog) - 1
      BY <3>1, <3>2
    <3>3. CASE op.i # NrBlocks(op.prog) - 1
      <4>1. op' = [op EXCEPT !.i = @ + 1, !.at = nxt]
        BY <3>1, <3>3
      <4>2. op'.pc = op.pc /\ op'.prog = op.prog
        BY <1>1, <4>1 DEF Adding
      <4> QED BY <1>1, <4>2
    <3> QED BY <3>2, <3>3
  <2> QED BY <2>1, <2>2
<1>4. CASE op'.pc = "throw"
  BY <1>1, <1>4, ChipUntouched
<1>5. CASE op'.pc = "add" /\ op'.prog = op.prog
  <2>1. ~Quiet'
    BY <1>5 DEF Quiet
  <2>2. task' = "add" /\ asked' = op'.prog /\ stored' = FilesOn(chip')
    BY <1>1, <1>2, <1>5, <2>1, TurnFacts
  <2>3. FilesKept(stored', FilesOn(chip')) /\ TaskTurns(stored', FilesOn(chip'))
    BY <2>2 DEF FilesKept, TaskTurns
  <2>4. AddTask'
    BY <1>1, <1>5, <2>2, <2>3 DEF AddTask
  <2> QED BY <1>1, <1>5, <2>1, <2>2, <2>3, <2>4 DEF HistKept, TurnShown
<1>6. CASE op'.pc = "emit"
  <2>1. /\ op.prog \in Programs /\ lastbankblock' = op.start /\ op.start \in Locs
        /\ ~Erasing(Pending')
        /\ Added(chip, Target', op.start, StoredAs(op.prog))
        /\ AllIntact(FilesOn(chip), chip, Target')
    BY <1>6, LastBlock
  <2>2. ~Quiet' /\ lastbankblock' # NoLoc
    BY <1>6, <2>1, LocParts DEF Quiet
  <2>3. task' = "add" /\ stored' = FilesOn(chip)
    BY <1>2, <1>6, <2>2, TurnFacts
  <2>4. asked' = op.prog
    BY <1>2, <1>6, <2>3, TurnFacts
  <2>5. StoredAs(op.prog) = op.prog
    BY <2>1, WholeProgram
  <2>6. OneFileMore(stored', FilesOn(Target'), lastbankblock', asked')
    BY <2>1, <2>3, <2>4, <2>5 DEF Added, OneFileMore
  <2>7. AllIntact(stored', chip', Target')
    BY <1>1, <2>1, <2>3
  <2>8. TaskTurns(stored', FilesOn(Target'))
    BY <2>1, <2>4, <2>6 DEF TaskTurns
  <2>9. TaskTurns(stored', FilesOn(chip')) /\ FilesKept(stored', FilesOn(chip'))
    BY <1>1, <2>3 DEF TaskTurns, FilesKept
  <2>10. AddTask'
    BY <1>6, <2>1, <2>2, <2>3, <2>6, <2>7, <2>9 DEF AddTask
  <2> QED BY <1>1, <1>6, <2>2, <2>8, <2>9, <2>10 DEF HistKept, TurnShown, Unchanged
<1> QED BY <1>3, <1>4, <1>5, <1>6

\* A cell the thread has changed is what it is to be.
LEMMA TowardsTarget ==
    ASSUME ~SpanningDelete, IInv, Kept, Thread, ~Erasing(Pending), NEW x \in Cell
    PROVE  chip'[x] = chip[x] \/ chip'[x] = Target[x]
<1>1. UNCHANGED fatVars /\ (PrepareSector \/ BurnSector \/ FinishSync)
  BY DEF Thread
<1>2. CASE PrepareSector
  BY <1>1, <1>2, PrepareShows
<1>3. CASE FinishSync
  BY <1>1, <1>3, FinishShows
<1>4. CASE BurnSector
  <2>1. chip' = Burnt(chip, sync.sector, sync.image) /\ sync.pc = "burn" /\ sync # NoSync
    BY <1>1, <1>4, BurnShows DEF BurnSector
  <2>2. CASE InSector(x, sync.sector)
    <3>1. chip'[x] = contents[x]
      BY <2>1, <2>2, BurntIsHeld
    <3>2. Mirror.c = contents /\ Mirror.s = sync.status
      BY <2>1, ThreadFacts
    <3>3. ToWrite(Mirror.s, SectorOf[PageOf[x]])
      BY <2>1, <2>2, <3>2, NextIsFirst DEF Kept, ThreadAlone, InSector
    <3> QED BY <3>1, <3>2, <3>3 DEF Target, After
  <2>3. CASE ~InSector(x, sync.sector)
    BY <2>1, <2>3 DEF Burnt
  <2> QED BY <2>2, <2>3
<1> QED BY <1>1, <1>2, <1>3, <1>4

\* What is intact on the way to the chip to come stays so.
LEMMA IntactOnTheWay ==
    ASSUME IInv, Kept, NEW store, NEW here, NEW h, NEW c, Directory(Target), sync # NoSync,
           OneFileMore(store, FilesOn(Target), h, c), AllIntact(store, chip, Target),
           NEW later, \A x \in Cell : later[x] = chip[x] \/ later[x] = Target[x]
    PROVE  AllIntact(store, later, Target)
<1> SUFFICES ASSUME NEW l \in DOMAIN store PROVE Intact(later, Target, l)
  BY DEF AllIntact
<1>1. Target \in Memory
  BY ThreadFacts, AfterType DEF Target
<1>2. l \in Starts(Target)
  BY MoreKeeps, FilesAre
<1>3. l \in Locs /\ Upward(Target)
  BY <1>1, <1>2, FileOf DEF Directory
<1>4. Intact(chip, Target, l)
  BY DEF AllIntact
<1> QED BY <1>1, <1>3, <1>4, IntactStays

LEMMA ThreadHist ==
    ASSUME ~SpanningDelete, IInv, Kept, DirKept, HistTurn, HistKept, Thread
    PROVE  HistKept' /\ TurnShown
<1>1. UNCHANGED fatVars /\ (PrepareSector \/ BurnSector \/ FinishSync)
  BY DEF Thread
<1>2. /\ sync # NoSync /\ sync' # NoSync /\ op.pc = "idle"
      /\ UNCHANGED <<op, lastbankblock>> /\ Target' = Target
      /\ ~Erasing(Pending) => ~Erasing(Pending')
  BY <1>1, PrepareShows, BurnShows, FinishShows
<1>3. ~Quiet'
  <2>1. sync \in SyncRec
    BY <1>2, ThreadFacts
  <2> QED BY <1>1, <2>1 DEF Quiet, PrepareSector, BurnSector, FinishSync, SyncRec
<1>4. stored' = stored /\ task' = task /\ (task' = "add" => asked' = asked)
  BY <1>2, <1>3, TurnFacts
<1>5. ASSUME task = "add"
      PROVE  AllIntact(stored, chip', Target)
  <2>1. \A x \in Cell : chip'[x] = chip[x] \/ chip'[x] = Target[x]
    BY <1>2, <1>5, TowardsTarget DEF HistKept, AddTask
  <2>2. OneFileMore(stored, FilesOn(Target), lastbankblock, asked)
        /\ AllIntact(stored, chip, Target) /\ Directory(Target)
    BY <1>2, <1>5 DEF HistKept, AddTask, DirKept
  <2> QED BY <1>2, <2>1, <2>2, IntactOnTheWay
<1>6. AddTask'
  BY <1>2, <1>4, <1>5 DEF HistKept, AddTask
<1> QED BY <1>2, <1>3, <1>4, <1>6 DEF HistKept, TurnShown

\* The end of a synchronization shows what it was for.
LEMMA SyncCompleteHist ==
    ASSUME ~SpanningDelete, IInv, Kept, DirKept, HistTurn, HistKept, slot_sync_complete
    PROVE  HistKept' /\ TurnShown
<1>1. /\ sync.pc = "done" /\ sync # NoSync /\ sync' = NoSync /\ op.pc = "idle"
      /\ chip' = chip /\ lastbankblock' = lastbankblock
  BY DEF slot_sync_complete, NoSync
<1>2. Mirror \in CacheType /\ chip \in Memory /\ Mirror.s = sync.status
  BY <1>1, ThreadFacts
<1>3. Target = chip
  BY <1>1, <1>2, AfterIsChip DEF Target, IInv, WritesAwaitSync
<1>4. TaskTurns(stored, FilesOn(chip'))
  BY <1>1, <1>3 DEF HistKept
<1>5. CASE lastbankblock # NoLoc
  <2>1. op' = [pc |-> "link", goal |-> "check", start |-> lastbankblock,
               at |-> lastbankblock, seen |-> <<>>]
    BY <1>5 DEF slot_sync_complete, StartLink
  <2>2. op'.pc = "link" /\ op'.goal = "check" /\ op'.start = lastbankblock
    BY <2>1
  <2>3. ~Quiet'
    BY <2>2 DEF Quiet
  <2>4. task = "add" /\ OneFileMore(stored, FilesOn(chip), lastbankblock, asked)
    BY <1>1, <1>3, <1>5 DEF HistKept, AddTask
  <2>5. task' = "add" /\ stored' = stored /\ asked' = asked
    BY <2>2, <2>3, <2>4, TurnFacts
  <2>6. FilesKept(stored', FilesOn(chip'))
    BY <1>1, <2>4, <2>5, MoreKeeps
  <2>7. AddTask'
    BY <1>1, <2>2, <2>4, <2>5, <2>6 DEF AddTask
  <2> QED BY <1>1, <1>4, <2>2, <2>3, <2>5, <2>7 DEF HistKept, TurnShown, Unchanged
<1>6. CASE lastbankblock = NoLoc
  <2>1. op'.pc = "idle" /\ Quiet'
    BY <1>1, <1>6 DEF slot_sync_complete, At, Quiet, NoSync
  <2>2. stored' = FilesOn(chip') /\ task' = "none"
    BY <2>1, TurnFacts
  <2>3. AddTask' /\ TaskTurns(stored', FilesOn(chip'))
    BY <1>1, <2>1, <2>2 DEF AddTask, TaskTurns
  <2> QED BY <1>1, <1>4, <2>1, <2>2, <2>3 DEF HistKept, TurnShown
<1> QED BY <1>5, <1>6

LEMMA NotifyHist ==
    ASSUME IInv, Kept, HistTurn, HistKept, notify
    PROVE  HistKept' /\ TurnShown
<1>1. op.pc = "throw" /\ Dies /\ ProcessGone
  BY DEF notify, Dies
<1>2. sync = NoSync
  BY <1>1 DEF Kept, ThreadAlone
<1>3. chip' = chip
  BY <1>1, <1>2 DEF Dies, NoSync
<1>4. sync' = NoSync /\ op'.pc = "off"
  BY <1>1 DEF ProcessGone, At
<1> QED BY <1>1, <1>2, <1>3, <1>4, ChipUntouched

\* The slots and loops that read only.
LEMMA ReadingHist ==
    ASSUME Alone, HistTurn, HistKept, UNCHANGED sync,
           \/ slot_access_fat \/ DeclineFormat \/ CloseAlarm \/ AddRagged
           \/ IndexFormatted \/ AccessFormatted \/ FinishGet \/ CheckFile \/ DeleteEntry
    PROVE  HistKept' /\ TurnShown
<1>1. sync = NoSync /\ sync' = NoSync
  BY DEF Alone
<1>2. chip' = chip /\ op.pc # "format"
  BY DEF slot_access_fat, DeclineFormat, CloseAlarm, AddRagged, IndexFormatted,
         AccessFormatted, FinishGet, CheckFile, DeleteEntry, Linked
<1>3. CASE slot_access_fat \/ AccessFormatted
  <2>1. op'.pc \in {"idle", "ask"}
    BY <1>3 DEF slot_access_fat, AccessFormatted, Access, At
  <2> QED BY <1>1, <1>2, <2>1, ChipUntouched
<1>4. CASE DeclineFormat \/ CloseAlarm \/ AddRagged \/ IndexFormatted \/ FinishGet
  <2>1. op'.pc \in {"nofat", "idle", "throw"}
    BY <1>4 DEF DeclineFormat, CloseAlarm, AddRagged, IndexFormatted, FinishGet, At
  <2> QED BY <1>1, <1>2, <2>1, ChipUntouched
<1>5. CASE CheckFile
  <2>1. op'.pc \in {"idle", "alarm", "throw"}
    BY <1>5 DEF CheckFile, At
  <2> QED BY <1>1, <1>2, <2>1, ChipUntouched
<1>6. CASE DeleteEntry
  <2>1. op'.pc = "wipe" /\ op.pc = "link" /\ op.goal = "delete"
    BY <1>6 DEF DeleteEntry, Linked
  <2>2. Unchanged
    BY <2>1 DEF Unchanged
  <2> QED BY <1>1, <1>2, <2>1, <2>2, ChipUntouched
<1> QED BY <1>3, <1>4, <1>5, <1>6

LEMMA StartListHist ==
    ASSUME Alone, HistTurn, HistKept, UNCHANGED <<sync, chip>>, op.pc = "idle",
           NEW goal, goal # "check", NEW l, NEW cached, StartLink(goal, l, cached)
    PROVE  HistKept' /\ TurnShown
<1>1. sync = NoSync /\ sync' = NoSync /\ Unchanged
  BY DEF Alone, Unchanged
<1>2. op'.pc = "link" /\ op'.goal = goal
  BY DEF StartLink
<1> QED BY <1>1, <1>2, ChipUntouched

LEMMA LinkStepHist ==
    ASSUME Alone, HistTurn, HistKept, UNCHANGED sync, LinkStep
    PROVE  HistKept' /\ TurnShown
<1>1. sync = NoSync /\ sync' = NoSync /\ chip' = chip /\ op.pc = "link"
  BY DEF Alone, LinkStep
<1>2. op \in Linking
  BY <1>1, OpCases DEF Alone, IInv, TypeOK, FatTypeOK
<1>3. CASE Len(op.seen) >= MAX_LINKS \/ ~port
  <2>1. op'.pc = "throw"
    BY <1>3 DEF LinkStep, At
  <2> QED BY <1>1, <2>1, ChipUntouched
<1>4. CASE ~(Len(op.seen) >= MAX_LINKS \/ ~port)
  <2>1. op'.pc = "link" /\ op'.goal = op.goal /\ op'.start = op.start
    BY <1>2, <1>4 DEF LinkStep, Linking
  <2> QED BY <1>1, <2>1, ChipUntouched DEF Unchanged
<1> QED BY <1>3, <1>4
-----------------------------------------------------------------------------
(***************************************************************************)
(* The files, every step.                                                  *)
(***************************************************************************)
LEMMA GuiHist ==
    ASSUME ~SpanningDelete, ByteSized, IInv, Kept, DirKept, DirKept', CheckKept,
           HistTurn, HistKept, Gui
    PROVE  HistKept' /\ TurnShown
<1>1. op.pc # "idle" /\ UNCHANGED sync
  BY DEF Gui, FormatErase, FormatBurn, IndexFormatted, AccessFormatted, LinkStep,
         FinishGet, AddBlock, DeleteEntry, WipeBlock, CheckFile, Linked
<1>2. Alone
  BY <1>1 DEF Alone, Kept, ThreadAlone
<1>3. CASE FormatErase
  <2>1. op'.pc = "format" /\ sync' = NoSync
    <3>1. op \in Formatting
      BY <1>2, <1>3, OpCases DEF FormatErase, Alone, IInv, TypeOK, FatTypeOK
    <3> QED BY <1>1, <1>2, <1>3, <3>1 DEF FormatErase, Formatting, Alone
  <2> QED BY <2>1, FormattingHist
<1>4. CASE FormatBurn
  BY <1>1, <1>2, <1>4, FormatBurnHist
<1>5. CASE IndexFormatted \/ AccessFormatted \/ FinishGet \/ CheckFile \/ DeleteEntry
  BY <1>1, <1>2, <1>5, ReadingHist
<1>6. CASE LinkStep
  BY <1>1, <1>2, <1>6, LinkStepHist
<1>7. CASE AddBlock
  BY <1>1, <1>2, <1>7, AddBlockHist
<1>8. CASE WipeBlock
  BY <1>1, <1>2, <1>8, WipeBlockHist
<1> QED BY <1>3, <1>4, <1>5, <1>6, <1>7, <1>8 DEF Gui

LEMMA UserHist ==
    ASSUME Cautious, ByteSized, IInv, Kept, HistTurn, HistKept, User
    PROVE  HistKept' /\ TurnShown
<1>1. sync.pc = "none" /\ UNCHANGED sync
  BY DEF User, ButtonsEnabled, Cautious
<1>2. Alone
  BY <1>1, SyncCases DEF Alone, IInv, TypeOK
<1>3. CASE slot_access_fat \/ DeclineFormat \/ CloseAlarm \/ AddRagged
  BY <1>1, <1>2, <1>3, ReadingHist
<1>4. CASE AcceptFormat \/ slot_format_rom
  <2>1. op'.pc = "format" /\ sync' = NoSync
    BY <1>1, <1>2, <1>4 DEF AcceptFormat, slot_format_rom, StartFormat, Alone
  <2> QED BY <2>1, FormattingHist
<1>5. CASE \E l \in Locs : slot_select_file(l) \/ slot_save(l)
  <2>1. PICK l \in Locs : slot_select_file(l) \/ slot_save(l)
    BY <1>5
  <2>2. PICK goal \in {"open", "save"} : StartGet(goal, l)
    BY <2>1 DEF slot_select_file, slot_save
  <2>3. /\ op.pc = "idle" /\ goal # "check" /\ chip' = chip
        /\ StartLink(goal, l, files[l].blocks)
    BY <2>2 DEF StartGet
  <2> QED BY <1>1, <1>2, <2>3, StartListHist
<1>6. CASE \E p \in Programs : slot_add_program(p)
  BY <1>1, <1>2, <1>6, AddProgramHist
<1>7. CASE \E l \in DOMAIN files : MayDelete(l) /\ DeleteButton(l)
  <2>1. PICK l \in DOMAIN files : DeleteButton(l)
    BY <1>7
  <2>2. /\ op.pc = "idle" /\ "delete" # "check" /\ chip' = chip
        /\ StartLink("delete", l, files[l].blocks)
    BY <2>1 DEF DeleteButton
  <2> QED BY <1>1, <1>2, <2>2, StartListHist
<1> QED BY <1>3, <1>4, <1>5, <1>6, <1>7 DEF User, ButtonsEnabled, Cautious

LEMMA NextHist ==
    ASSUME Cautious, ByteSized, IInv, Kept, DirKept, DirKept', CheckKept,
           HistTurn, HistKept, Next, crashes' = 0
    PROVE  HistKept' /\ TurnShown
<1>0. ~SpanningDelete
  BY DEF Cautious
<1>1. CASE User
  BY <1>1, UserHist
<1>2. CASE Gui
  BY <1>0, <1>2, GuiHist
<1>3. CASE slot_start_sync
  BY <1>3, StartSyncHist
<1>4. CASE slot_sync_complete
  BY <1>0, <1>4, SyncCompleteHist
<1>5. CASE Thread
  BY <1>0, <1>5, ThreadHist
<1>6. CASE notify
  BY <1>6, NotifyHist
<1>7. CASE ThreadDies
  BY <1>7, PortNotLost DEF ThreadDies
<1>8. CASE Crash
  <2>1. crashes \in Nat /\ crashes' = crashes + 1
    BY <1>8 DEF Crash, IInv, TypeOK
  <2> QED BY <2>1
<1>9. CASE BurnRejected
  BY <1>0, <1>9, NeverRejected
<1> QED BY <1>1, <1>2, <1>3, <1>4, <1>5, <1>6, <1>7, <1>8, <1>9 DEF Next

LEMMA SizedFacts ==
    ASSUME ByteSized
    PROVE  NoEmpty
BY WholeProgram DEF NoEmpty

LEMMA TurnIs ==
    ASSUME HistNext
    PROVE  Next /\ HistTurn
BY DEF HistNext, HistTurn

\* Both invariants hold what the history shows.
LEMMA HistParts ==
    ASSUME HistInv, Cautious, ByteSized, crashes = 0
    PROVE  IInv /\ Kept /\ DirKept /\ CheckKept /\ HistKept
BY SizedFacts DEF HistInv, DirInv, CacheInv, Cautious

LEMMA NextHistInv == HistInv /\ [HistNext]_histVars => HistInv'
<1> SUFFICES ASSUME HistInv, [HistNext]_histVars PROVE HistInv'
  OBVIOUS
<1>1. [Next]_vars
  BY TurnIs DEF histVars
<1>2. DirInv /\ DirInv' /\ IInv
  BY <1>1, NextDirInv DEF HistInv, DirInv, CacheInv
<1>3. ASSUME Cautious, ByteSized, crashes' = 0
      PROVE  HistKept'
  <2>1. crashes = 0
    BY <1>1, <1>2, <1>3, CrashesGrow
  <2>2. IInv /\ Kept /\ DirKept /\ CheckKept /\ HistKept
    BY <1>3, <2>1, HistParts
  <2>3. DirKept'
    <3>1. Cautious'
      BY <1>3 DEF Cautious
    <3> QED BY <1>2, <1>3, <3>1 DEF DirInv
  <2>4. CASE HistNext
    BY <1>3, <2>2, <2>3, <2>4, TurnIs, NextHist
  <2>5. CASE UNCHANGED histVars
    BY <2>2, <2>5, HistStutter
  <2> QED BY <2>4, <2>5
<1>4. (Cautious' <=> Cautious) /\ (ByteSized' <=> ByteSized)
  BY DEF Cautious, ByteSized
<1> QED BY <1>2, <1>3, <1>4 DEF HistInv

LEMMA InitHistInv == HistInit => HistInv
<1> SUFFICES ASSUME HistInit PROVE HistInv
  OBVIOUS
<1>1. DirInv
  BY InitDirInv DEF HistInit
<1>2. op.pc = "off" /\ task = "none" /\ stored = FilesOn(chip) /\ sync = NoSync
  BY DEF HistInit, Init, FatInit, SyncInit
<1>3. TaskTurns(stored, FilesOn(chip)) /\ AddTask
  BY <1>2 DEF TaskTurns, AddTask
<1> QED BY <1>1, <1>2, <1>3 DEF HistInv, HistKept, Unchanged

\* The invariant of the files and the tasks is inductive: on the way from one
\* quiet state to the next the chip, and the chip to come, hold the files of
\* the first, one more, all but one, or none.
THEOREM HistoryInvariance == HistSpec => []HistInv
<1> QED BY InitHistInv, NextHistInv, PTL DEF HistSpec

\* A file that was checked is there.
LEMMA CheckedIsThere ==
    ASSUME HistInv, Cautious, ByteSized, crashes = 0, Linked("check")
    PROVE  /\ op.start \in DOMAIN FilesOn(chip)
           /\ Len(op.seen) >= Len(asked)
           /\ \A i \in DOMAIN asked : chip[DataCell(op.seen[i])] = asked[i]
<1>1. IInv /\ Kept /\ DirKept /\ HistKept
  BY HistParts
<1>2. op.pc = "link" /\ op.at = NoLoc /\ op.goal = "check"
  BY DEF Linked
<1>3. sync = NoSync /\ chip \in Memory
  BY <1>1, <1>2 DEF Kept, ThreadAlone, IInv, TypeOK
<1>4. Upward(chip)
  BY <1>1, <1>2, <1>3 DEF DirKept, Directory
<1>5. op.seen # <<>> /\ Following(chip, op.start, op.seen, NoLoc)
  BY <1>1, <1>2 DEF IInv, LoopsGuarded, DirKept, LinkTrue
<1>6. /\ ChainOf(chip, op.start) = op.seen
      /\ Len(op.seen) \in Nat \ {0} /\ DOMAIN op.seen = 1 .. Len(op.seen)
  BY <1>3, <1>4, <1>5, FollowedIs
<1>7. OneFileMore(stored, FilesOn(chip), op.start, asked)
  BY <1>1, <1>2 DEF HistKept, AddTask
<1>8. op.start \in DOMAIN FilesOn(chip) /\ FilesOn(chip)[op.start] = asked
  BY <1>7, MoreKeeps
<1>9. asked = Held(chip, op.start)
  BY <1>8, FilesAre
<1>10. asked = [i \in DOMAIN op.seen |-> chip[DataCell(op.seen[i])]]
  BY <1>6, <1>9 DEF Held
<1>11. Len(asked) = Len(op.seen)
  BY <1>6, <1>10
<1> QED BY <1>6, <1>8, <1>10, <1>11

\* A check that raises no alarm vouches for the file it has checked, and for
\* its data (fileallocationtable.cpp:429, check_file).
THEOREM ChecksAreTrue ==
    ASSUME ~UseMenuInSync, ~SpanningDelete, MaxCrashes = 0,
           \A p \in Programs : Len(p) \in 1 .. 255
    PROVE  HistSpec => CheckVouches /\ CheckVouchesData
<1>1. Cautious /\ ByteSized
  BY DEF Cautious, ByteSized
<1>2. ASSUME HistInv
      PROVE  Linked("check") => /\ op.start \in DOMAIN FilesOn(chip)
                                /\ Len(op.seen) >= Len(asked)
                                /\ \A i \in DOMAIN asked : chip[DataCell(op.seen[i])] = asked[i]
  <2>1. crashes = 0
    BY <1>2 DEF HistInv, DirInv, CacheInv, IInv, TypeOK
  <2> QED BY <1>1, <1>2, <2>1, CheckedIsThere
<1>3. HistInv => [Linked("check") /\ op'.pc = "idle" => op.start \in DOMAIN FilesOn(chip)]_histVars
  BY <1>2
<1>4. HistInv => [Linked("check") /\ op'.pc = "idle" =>
          /\ Len(op.seen) >= Len(asked)
          /\ \A i \in DOMAIN asked : chip[DataCell(op.seen[i])] = asked[i]]_histVars
  BY <1>2
<1> QED BY <1>3, <1>4, HistoryInvariance, PTL DEF CheckVouches, CheckVouchesData

\* While an add is under way the files of others are there.
LEMMA OthersAreThere ==
    ASSUME HistInv, Cautious, ByteSized, crashes = 0, task = "add", sync # NoSync,
           NEW later \in Memory, \A x \in Cell : later[x] = chip[x] \/ later[x] = Target[x]
    PROVE  FilesKept(stored, FilesOn(later))
<1>1. IInv /\ Kept /\ DirKept /\ HistKept
  BY HistParts
<1>2. /\ OneFileMore(stored, FilesOn(Target), lastbankblock, asked)
      /\ AllIntact(stored, chip, Target) /\ Directory(Target)
  BY <1>1 DEF HistKept, AddTask, DirKept
<1>3. AllIntact(stored, later, Target)
  BY <1>1, <1>2, IntactOnTheWay
<1>4. Target \in Memory /\ Upward(Target)
  BY <1>1, <1>2, ThreadFacts, AfterType DEF Target, Directory
<1>5. ASSUME NEW l \in DOMAIN stored
      PROVE  l \in DOMAIN FilesOn(later) /\ FilesOn(later)[l] = stored[l]
  <2>1. l \in DOMAIN FilesOn(Target) /\ FilesOn(Target)[l] = stored[l]
    BY <1>2, MoreKeeps DEF FilesKept
  <2>2. l \in Locs
    BY <1>2, <1>4, <2>1, FilesAre, FileOf
  <2>3. Intact(later, Target, l)
    BY <1>3 DEF AllIntact
  <2> QED BY <1>4, <2>1, <2>2, <2>3, IntactReads
<1> QED BY <1>5 DEF FilesKept

LEMMA OthersAreKept ==
    ASSUME HistInv, Cautious, ByteSized, crashes = 0
    PROVE  AddKeepsOthers
<1> SUFFICES ASSUME task = "add" PROVE FilesKept(stored, FilesOn(chip))
  BY DEF AddKeepsOthers, FilesKept
<1>1. IInv /\ HistKept
  BY HistParts
<1>2. CASE sync = NoSync
  BY <1>1, <1>2 DEF HistKept, AddTask
<1>3. CASE sync # NoSync
  <2>1. chip \in Memory
    BY <1>1 DEF IInv, TypeOK
  <2> QED BY <1>3, <2>1, OthersAreThere
<1> QED BY <1>2, <1>3

\* The death of the process leaves a cell as it was or as it was to be.
LEMMA HalfWay ==
    ASSUME HistInv, Cautious, ByteSized, crashes = 0, sync # NoSync, Dies, NEW x \in Cell
    PROVE  chip'[x] = chip[x] \/ chip'[x] = Target[x]
<1>1. IInv /\ Kept /\ ~SpanningDelete
  BY HistParts DEF Cautious
<1>2. op.pc = "idle" /\ Mirror.c = contents /\ Mirror.s = sync.status
  BY <1>1, ThreadFacts
<1>3. CASE chip' = chip
  BY <1>3
<1>4. CASE chip' # chip
  <2>1. sync.pc = "burn" /\ HalfBurnt(sync.sector, sync.image)
    BY <1>2, <1>4 DEF Dies
  <2>2. PICK n : chip' = PartlyBurnt(chip, sync.sector, sync.image, n)
    BY <2>1 DEF HalfBurnt
  <2>3. chip'[x] = chip[x] \/ (/\ InSector(x, sync.sector)
                                /\ chip'[x] = Burnt(chip, sync.sector, sync.image)[x])
    BY <2>2 DEF PartlyBurnt, Burnt
  <2>4. ASSUME InSector(x, sync.sector)
        PROVE  Burnt(chip, sync.sector, sync.image)[x] = Target[x]
    <3>1. Burnt(chip, sync.sector, sync.image)[x] = contents[x]
      BY <1>1, <2>1, <2>4, BurntIsHeld
    <3>2. ToWrite(Mirror.s, SectorOf[PageOf[x]])
      BY <1>1, <1>2, <2>1, <2>4, NextIsFirst DEF Kept, ThreadAlone, InSector
    <3> QED BY <1>2, <3>1, <3>2 DEF Target, After
  <2> QED BY <2>3, <2>4
<1> QED BY <1>3, <1>4

\* A crash in the midst of an add leaves the files of others.
LEMMA CrashKeepsOthers ==
    ASSUME HistInv, HistInv', Cautious, ByteSized, crashes = 0, HistNext, crashes' # 0
    PROVE  AddKeepsOthers'
<1>1. IInv /\ Kept /\ DirKept /\ HistKept /\ Next /\ HistTurn
  BY HistParts, TurnIs
<1>2. Dies
  BY <1>1 DEF Next, User, Gui, slot_start_sync, slot_sync_complete, Thread, notify,
      ThreadDies, Crash, BurnRejected
<1>3. op'.pc = "off" /\ sync' = NoSync /\ chip' \in Memory
  BY <1>2 DEF Dies, ProcessGone, At, HistInv, DirInv, CacheInv, IInv, TypeOK
<1>4. ~Quiet'
  BY <1>3 DEF Quiet
<1>5. stored' = stored /\ task' = task
  BY <1>1, <1>3, <1>4, TurnFacts
<1> SUFFICES ASSUME task = "add" PROVE FilesKept(stored, FilesOn(chip'))
  BY <1>5 DEF AddKeepsOthers, FilesKept
<1>6. CASE sync = NoSync
  <2>1. op.pc # "format"
    BY <1>1 DEF HistKept, AddTask
  <2>2. chip' = chip
    BY <1>2, <1>6, <2>1 DEF Dies, NoSync
  <2> QED BY <1>1, <1>6, <2>2 DEF HistKept, AddTask
<1>7. CASE sync # NoSync
  BY <1>2, <1>3, <1>7, HalfWay, OthersAreThere
<1> QED BY <1>6, <1>7

\* Adding a file leaves every file of others as it was, and so does the first
\* crash, wherever it comes (add_file, SyncThread::run).
THEOREM AddSparesOthers ==
    ASSUME ~UseMenuInSync, ~SpanningDelete, \A p \in Programs : Len(p) \in 1 .. 255
    PROVE  HistSpec => /\ [](crashes = 0 => AddKeepsOthers)
                       /\ [][crashes = 0 => AddKeepsOthers']_histVars
<1>1. Cautious /\ ByteSized
  BY DEF Cautious, ByteSized
<1>2. HistInv => (crashes = 0 => AddKeepsOthers)
  BY <1>1, OthersAreKept
<1>3. HistInv /\ HistInv' /\ [HistNext]_histVars
         => [crashes = 0 => (crashes = 0)' \/ AddKeepsOthers']_histVars
  BY <1>1, CrashKeepsOthers
<1> QED BY <1>2, <1>3, HistoryInvariance, PTL DEF HistSpec

\* The cartridge implements a store of whole files: between two quiet states
\* it gains one file as a whole, loses one as a whole, or is wiped, and what
\* it gains has room (add_file, delete_file, SyncThread::run).
THEOREM StoreIsImplemented ==
    ASSUME ~UseMenuInSync, ~SpanningDelete, MaxCrashes = 0,
           \A p \in Programs : Len(p) \in 1 .. 255
    PROVE  HistSpec => StoreImplemented
<1>1. Cautious /\ ByteSized /\ ~SpanningDelete
  BY DEF Cautious, ByteSized
<1>2. HistInv => crashes = 0
  BY DEF HistInv, DirInv, CacheInv, IInv, TypeOK
<1>3. HistInit => Store!StoreInit
  <2> SUFFICES ASSUME HistInit PROVE stored = [h \in {} |-> <<>>]
    BY DEF Store!StoreInit
  <2>1. chip = Blank /\ chip \in Memory /\ stored = FilesOn(chip)
    BY BlankAndZeros DEF HistInit, Init
  <2>2. \A x \in Cell : x[1] # "fmt" => chip[x] = ERASED
    BY <2>1 DEF Blank
  <2> QED BY <2>1, <2>2, BlankDirectory
<1>4. ASSUME HistInv, HistInv', HistNext, Quiet'
      PROVE  TaskTurns(stored, stored') /\ Directory(chip') /\ chip' \in Memory
             /\ stored' = FilesOn(chip')
  <2>1. crashes = 0 /\ crashes' = 0
    BY <1>4 DEF HistInv, DirInv, CacheInv, IInv, TypeOK
  <2>2. IInv /\ Kept /\ DirKept /\ CheckKept /\ HistKept
    BY <1>1, <1>4, <2>1, HistParts
  <2>3. Cautious'
    BY <1>1 DEF Cautious
  <2>4. DirKept' /\ IInv'
    BY <1>4, <2>1, <2>3 DEF HistInv, DirInv, CacheInv
  <2>5. Next /\ HistTurn
    BY <1>4, TurnIs
  <2>6. TurnShown
    BY <1>1, <2>1, <2>2, <2>4, <2>5, NextHist
  <2>7. stored' = FilesOn(chip')
    BY <1>4, <2>5, TurnFacts
  <2>8. sync' = NoSync /\ op'.pc = "idle" /\ chip' \in Memory
    BY <1>4, <2>4 DEF Quiet, IInv, TypeOK, SyncTypeOK, SyncRec, NoSync
  <2> QED BY <1>4, <2>4, <2>6, <2>7, <2>8 DEF TurnShown, DirKept
<1>5. ASSUME HistInv, HistInv', [HistNext]_histVars
      PROVE  [Store!StoreNext]_stored
  <2> SUFFICES ASSUME stored' # stored PROVE Store!StoreNext
    OBVIOUS
  <2>1. HistNext /\ Quiet'
    BY <1>5, TurnIs, TurnFacts DEF histVars
  <2>2. /\ TaskTurns(stored, stored') /\ Directory(chip') /\ chip' \in Memory
        /\ stored' = FilesOn(chip')
    BY <1>4, <1>5, <2>1
  <2>3. CASE stored' = [l \in {} |-> <<>>]
    BY <2>3 DEF Store!StoreNext, Store!Wipe
  <2>4. ASSUME NEW h \in Locs, OneFileLess(stored, stored', h)
        PROVE  Store!StoreNext
    <3>1. Store!Remove(h)
      BY <2>4 DEF OneFileLess, Store!Remove
    <3> QED BY <3>1 DEF Store!StoreNext
  <2>5. ASSUME NEW h \in Locs, NEW p \in Programs, OneFileMore(stored, stored', h, p)
        PROVE  Store!StoreNext
    <3>1. /\ h \notin DOMAIN stored
          /\ stored' = [k \in DOMAIN stored \cup {h} |-> IF k = h THEN p ELSE stored[k]]
      BY <2>5 DEF OneFileMore
    <3>2. FilesOn(chip') = [k \in DOMAIN stored \cup {h} |-> IF k = h THEN p ELSE stored[k]]
      BY <2>2, <3>1
    <3>3. Upward(chip') /\ LinkedOnce(chip') /\ StartsUnlinked(chip')
      BY <2>2, LinksInOrder DEF Directory
    <3>4. Len(p) \in Nat /\ DOMAIN p = 1 .. Len(p)
      BY GeometryAssumption, LenProperties
    <3>5. Cardinality(Pieces(stored)) + Len(p) <= NBANKS * NBLOCKS
      BY <2>2, <3>1, <3>2, <3>3, <3>4, RoomForOneMore
    <3>6. Store!Occupied = Cardinality(Pieces(stored))
      <4>1. \A S : Store!Cardinality(S) = Cardinality(S)
        BY Zenon DEF Store!Cardinality, Cardinality
      <4> QED BY <4>1 DEF Store!Occupied, Pieces
    <3>7. Store!Add(h, p)
      BY <3>1, <3>5, <3>6 DEF Store!Add
    <3>8. p \in {c \in Programs : c # <<>>}
      <4>1. Len(p) # 0
        BY <1>1, WholeProgram
      <4> QED BY <4>1
    <3> QED BY <3>7, <3>8 DEF Store!StoreNext
  <2> QED BY <2>2, <2>3, <2>4, <2>5 DEF TaskTurns
<1> QED BY <1>3, <1>5, HistoryInvariance, PTL DEF HistSpec, StoreImplemented, Store!StoreSpec
=============================================================================
