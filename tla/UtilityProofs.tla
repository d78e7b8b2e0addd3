--------------------------- MODULE UtilityProofs ---------------------------
(***************************************************************************)
(* Theorems about the cassette utility, for chips of every size and any    *)
(* tapes of whole files, however the tape fails and wherever the power is  *)
(* lost.                                                                   *)
(***************************************************************************)
EXTENDS UtilityPromises, RomFatProofs

-----------------------------------------------------------------------------
(***************************************************************************)
(* The inductive invariant: the chip, at every write of a cell.            *)
(***************************************************************************)
\* A free block is erased, and ready to be programmed.
FreeIsErased(rom) ==
    \A l \in Locs : rom[UsedCell(l)] = ERASED =>
        /\ rom[NextCell(l)] = ERASED
        /\ rom[CrcCell(l)] = ERASED
        /\ rom[HdrCell(l)] = ERASED
        /\ rom[DataCell(l)] = ERASED

\* Blocks are used from the first one on.
UsedFromFirst(rom) ==
    \A k, l \in Locs : k < l /\ rom[UsedCell(k)] = ERASED => rom[UsedCell(l)] = ERASED

\* Links and preambles name blocks that are used.
NamesUsed(rom) ==
    /\ \A l \in Locs : rom[NextCell(l)] # NoLoc => rom[UsedCell(rom[NextCell(l)])] = USED
    /\ \A l \in Starts(rom) : rom[UsedCell(l)] = USED

\* Nothing follows the first 0xFF of a preamble.
PreambleEnds(rom) ==
    \A b \in Bank : \A i, j \in Slot :
        i < j /\ rom[PreCell(b, i)] = ERASED => rom[PreCell(b, j)] = ERASED

ChipIInv(rom) == /\ FreeIsErased(rom)
                 /\ UsedFromFirst(rom)
                 /\ NamesUsed(rom)
                 /\ PreambleEnds(rom)
                 /\ Upward(rom)
                 /\ LinkedOnce(rom)
                 /\ StartsUnlinked(rom)

-----------------------------------------------------------------------------
(***************************************************************************)
(* The tape to come: whole files, and the rest of the one that is read.    *)
(***************************************************************************)
Whole(t)   == \A k \in DOMAIN t : k > 1 /\ t[k - 1].left = 1
                                     => \E p \in Programs : FileAt(t, k, p)
AtStart(t) == t # <<>> => \E p \in Programs : FileAt(t, 1, p)

\* n blocks of program p have been read from tape t, it goes on with the others.
Ahead(p, n, t) ==
    /\ n \in 1 .. Len(p) /\ Len(p) = t.left + n - 1
    /\ \A j \in n + 1 .. Len(p) :
          /\ j - n \in DOMAIN t.rest
          /\ t.rest[j - n] = [word |-> p[j], left |-> Len(p) - j + 1]

InFile == {"offer", "skip", "write", "entry", "more"}
TapeIInv(t, u) ==
    /\ Whole(t.rest)
    /\ u.pc = "next" => AtStart(t.rest)
    /\ u.pc \in InFile /\ t.left <= 1 => AtStart(t.rest)
    /\ u.pc = "offer" => \E p \in Programs : Ahead(p, 1, t) /\ p[1] = t.word
    /\ u.pc \in {"write", "entry", "more"} =>
          \E p \in Programs : /\ Ahead(p, u.i + 1, t)
                              /\ Len(p) = u.total
                              /\ Len(u.data) = u.i + 1
                              /\ \A j \in 1 .. u.i + 1 : u.data[j] = p[j]

-----------------------------------------------------------------------------
(***************************************************************************)
(* The file that is being stored.                                          *)
(***************************************************************************)
\* Block l is written as the j-th of n, with word w.
Filled(rom, l, j, n, w) == /\ rom[UsedCell(l)] = USED
                           /\ rom[DataCell(l)] = w
                           /\ rom[CrcCell(l)] = Crc16(w)
                           /\ rom[HdrCell(l)] = (j - 1) + 256 * n

\* s are the first n blocks of the file, written and linked.
Copied(rom, s, n, u) ==
    /\ s \in [1 .. n -> Locs]
    /\ n > 0 => s[1] = u.start
    /\ \A j \in 1 .. n : Filled(rom, s[j], j, u.total, u.data[j])
    /\ \A j \in 1 .. n - 1 : rom[NextCell(s[j])] = s[j + 1]

\* The first n blocks are stored, and block l is the last of them.
Stored(rom, n, u, l) == \E s \in [1 .. n -> Locs] : Copied(rom, s, n, u) /\ s[n] = l

\* The last of its blocks makes a file of what was stored, others change none.
Grows(rom, new, n, u) ==
    IF n = u.total THEN Added(rom, new, u.start, [j \in 1 .. n |-> u.data[j]])
                   ELSE FilesOn(new) = FilesOn(rom)

\* Nothing leads to block l.
Fresh(rom, l) == Unlinked(rom, l) /\ l \notin Starts(rom) /\ rom[NextCell(l)] = NoLoc

\* How many writes block i of a file takes.
Count(i) == IF i = 0 THEN 4 ELSE 5

\* The first k writes of w, which has n, have been made, and the others not.
Written(rom, w, n, k) ==
    \A j \in 1 .. n : rom[w[j][1]] = IF j <= k THEN w[j][2] ELSE ERASED

\* todo is what is left of w, which has n, after its first k.
Left(todo, w, n, k) == todo = [j \in 1 .. n - k |-> w[j + k]]

\* The writes for block u.at, which follows the blocks of s.
WritesOf(u, s) == Writes(u.at, IF u.i = 0 THEN NoLoc ELSE s[u.i], u.i, u.total,
                         u.data[u.i + 1])

Writing(rom, u, s, k) ==
    LET w == WritesOf(u, s)
        n == Count(u.i)
    IN  /\ Copied(rom, s, u.i, u)
        /\ u.at \in Locs /\ Fresh(rom, u.at)
        /\ IF u.i = 0 THEN u.start = u.at
                      ELSE u.start \in Starts(rom) /\ s[u.i] < u.at
        /\ k < n
        /\ Left(u.todo, w, n, k)
        /\ Written(rom, w, n, k)
        /\ k = 0 => \A l \in Locs : l < u.at => rom[UsedCell(l)] = USED

StoringIInv(rom, u) ==
    /\ u.pc = "write" => \E s \in [1 .. u.i -> Locs], k \in 0 .. 4 : Writing(rom, u, s, k)
    /\ u.pc = "entry" => /\ u.i = 0 /\ u.at = u.start /\ Fresh(rom, u.start)
                         /\ Filled(rom, u.start, 1, u.total, u.data[1])
    /\ u.pc = "more" =>
          IF u.at = NoLoc
          THEN \A l \in Locs : rom[UsedCell(l)] = USED
          ELSE /\ u.start \in Starts(rom) /\ rom[NextCell(u.at)] = NoLoc
               /\ Stored(rom, u.i + 1, u, u.at)

\* As long as the power stays, each used block is the first of a file, or
\* linked, or is being written.
Reachable(rom, l) == l \in Starts(rom) \/ ~Unlinked(rom, l)
NoneAstray ==
    cuts = 0 => \A l \in Locs :
        \/ chip[UsedCell(l)] = ERASED
        \/ Reachable(chip, l)
        \/ util.pc \in {"write", "entry"} /\ l = util.at

UtilIInv == /\ UtilTypeOK
            /\ ChipIInv(chip)
            /\ TapeIInv(tape, util)
            /\ StoringIInv(chip, util)
            /\ NoneAstray

-----------------------------------------------------------------------------
(***************************************************************************)
(* What writing one cell changes.                                          *)
(***************************************************************************)
FieldCell(f, l) == <<f, BankOf(l), BlockOf(l)>>

\* Chip new is chip rom but for cell x, which holds v.
SetTo(rom, x, v, new) == new = [rom EXCEPT ![x] = v]

LEMMA LocIsParts ==
    ASSUME NEW k \in Locs, NEW l \in Locs, BankOf(k) = BankOf(l), BlockOf(k) = BlockOf(l)
    PROVE  k = l
<1>1. PICK b \in Bank, i \in Block : k = Loc(b, i)
  BY DEF Locs
<1>2. PICK c \in Bank, j \in Block : l = Loc(c, j)
  BY DEF Locs
<1>3. BankOf(k) = b /\ BlockOf(k) = i /\ BankOf(l) = c /\ BlockOf(l) = j
  BY <1>1, <1>2, LocSplit
<1> QED BY <1>1, <1>2, <1>3

LEMMA FieldIsCell ==
    ASSUME NEW f \in MetaFields \cup {"data"}, NEW l \in Locs
    PROVE  FieldCell(f, l) \in Cell /\ FieldCell(f, l)[1] = f
BY LocParts DEF FieldCell, Cell, MetaCells, DataCells

LEMMA CellsAreFields ==
    ASSUME NEW l
    PROVE  /\ NextCell(l) = FieldCell("next", l) /\ CrcCell(l) = FieldCell("crc", l)
           /\ UsedCell(l) = FieldCell("used", l) /\ HdrCell(l) = FieldCell("hdr", l)
           /\ DataCell(l) = FieldCell("data", l)
BY DEF FieldCell, NextCell, CrcCell, UsedCell, HdrCell, DataCell

LEMMA SetCell ==
    ASSUME NEW rom \in Memory, NEW x \in Cell, NEW v \in ValuesOf(x[1]),
           NEW new, SetTo(rom, x, v, new)
    PROVE  /\ new \in Memory /\ new[x] = v
           /\ \A y \in Cell : y # x => new[y] = rom[y]
<1>0. new = [rom EXCEPT ![x] = v]
  BY DEF SetTo
<1>1. rom \in [Cell -> Word]
  BY DEF Memory
<1>2. new = [y \in Cell |-> new[y]]
  BY <1>0, <1>1
<1>3. \A y \in Cell : new[y] = IF y = x THEN v ELSE rom[y]
  BY <1>0, <1>1
<1>4. \A y \in Cell : new[y] \in ValuesOf(y[1])
  BY <1>3, MemoryValue
<1> QED BY <1>2, <1>3, <1>4, MemoryByCell

LEMMA SetField ==
    ASSUME NEW rom \in Memory, NEW f \in MetaFields \cup {"data"}, NEW l \in Locs,
           NEW v \in ValuesOf(f), NEW new, SetTo(rom, FieldCell(f, l), v, new)
    PROVE  /\ new \in Memory
           /\ \A g \in MetaFields \cup {"data"}, k \in Locs :
                 g # f \/ k # l => new[FieldCell(g, k)] = rom[FieldCell(g, k)]
           /\ new[FieldCell(f, l)] = v
           /\ \A b \in Bank, i \in Slot : new[PreCell(b, i)] = rom[PreCell(b, i)]
<1>1. FieldCell(f, l) \in Cell /\ FieldCell(f, l)[1] = f
  BY FieldIsCell
<1>2. new \in Memory /\ new[FieldCell(f, l)] = v
      /\ \A y \in Cell : y # FieldCell(f, l) => new[y] = rom[y]
  <2> DEFINE x == FieldCell(f, l)
  <2>1. x \in Cell /\ v \in ValuesOf(x[1]) /\ SetTo(rom, x, v, new)
    BY <1>1
  <2> HIDE DEF x
  <2>2. new \in Memory
    BY <2>1, SetCell
  <2>3. new[x] = v /\ \A y \in Cell : y # x => new[y] = rom[y]
    BY <2>1, SetCell
  <2> QED BY <2>2, <2>3 DEF x
<1>3. ASSUME NEW g \in MetaFields \cup {"data"}, NEW k \in Locs
      PROVE  g # f \/ k # l => new[FieldCell(g, k)] = rom[FieldCell(g, k)]
  <2>1. FieldCell(g, k) \in Cell
    BY FieldIsCell
  <2>2. FieldCell(g, k) = FieldCell(f, l) <=> g = f /\ k = l
    BY LocIsParts DEF FieldCell
  <2> QED BY <1>2, <2>1, <2>2
<1>4. ASSUME NEW b \in Bank, NEW i \in Slot
      PROVE  new[PreCell(b, i)] = rom[PreCell(b, i)]
  <2>1. PreCell(b, i) \in Cell /\ PreCell(b, i) # FieldCell(f, l)
    BY DEF PreCell, FieldCell, Cell, PreCells, MetaFields
  <2> QED BY <1>2, <2>1
<1> QED BY <1>1, <1>2, <1>3, <1>4

\* The starts of files are told by the preambles.
LEMMA SamePreambles ==
    ASSUME NEW rom, NEW new,
           \A b \in Bank, i \in Slot : new[PreCell(b, i)] = rom[PreCell(b, i)]
    PROVE  Starts(new) = Starts(rom)
<1>1. ASSUME NEW e \in PreCells
      PROVE  new[e] = rom[e] /\ Listed(new, e[2], e[3]) = Listed(rom, e[2], e[3])
  <2>1. e[2] \in Bank /\ e[3] \in Slot /\ e = PreCell(e[2], e[3])
    BY DEF PreCells, PreCell
  <2>2. \A j \in 0 .. e[3] : j \in Slot
    BY <2>1, GeometryAssumption DEF Slot
  <2> QED BY <2>1, <2>2 DEF Listed
<1> QED BY <1>1 DEF Starts

LEMMA WriteCell ==
    ASSUME NEW rom \in Memory, NEW f \in MetaFields \cup {"data"}, NEW l \in Locs,
           NEW v \in ValuesOf(f), NEW new, SetTo(rom, FieldCell(f, l), v, new)
    PROVE  /\ new \in Memory
           /\ Starts(new) = Starts(rom)
           /\ PreambleEnds(rom) => PreambleEnds(new)
           /\ \A k \in Locs :
                 /\ f # "next" \/ k # l => new[NextCell(k)] = rom[NextCell(k)]
                 /\ f # "used" \/ k # l => new[UsedCell(k)] = rom[UsedCell(k)]
                 /\ f # "crc"  \/ k # l => new[CrcCell(k)] = rom[CrcCell(k)]
                 /\ f # "hdr"  \/ k # l => new[HdrCell(k)] = rom[HdrCell(k)]
                 /\ f # "data" \/ k # l => new[DataCell(k)] = rom[DataCell(k)]
           /\ new[FieldCell(f, l)] = v
<1>a. new \in Memory
  BY SetField
<1>b. \A b \in Bank, i \in Slot : new[PreCell(b, i)] = rom[PreCell(b, i)]
  BY SetField
<1>c. new[FieldCell(f, l)] = v
  BY SetField
<1>d. \A g \in MetaFields \cup {"data"}, k \in Locs :
          g # f \/ k # l => new[FieldCell(g, k)] = rom[FieldCell(g, k)]
  BY SetField
<1>1. /\ new \in Memory
      /\ \A g \in MetaFields \cup {"data"}, k \in Locs :
            g # f \/ k # l => new[FieldCell(g, k)] = rom[FieldCell(g, k)]
      /\ new[FieldCell(f, l)] = v
      /\ \A b \in Bank, i \in Slot : new[PreCell(b, i)] = rom[PreCell(b, i)]
  BY <1>a, <1>b, <1>c, <1>d
<1>2. Starts(new) = Starts(rom)
  BY <1>1, SamePreambles
<1>3. PreambleEnds(rom) => PreambleEnds(new)
  BY <1>1 DEF PreambleEnds
<1>4. {"next", "used", "crc", "hdr", "data"} \subseteq MetaFields \cup {"data"}
  BY DEF MetaFields
<1>5. ASSUME NEW k \in Locs
      PROVE  /\ f # "next" \/ k # l => new[NextCell(k)] = rom[NextCell(k)]
             /\ f # "used" \/ k # l => new[UsedCell(k)] = rom[UsedCell(k)]
             /\ f # "crc"  \/ k # l => new[CrcCell(k)] = rom[CrcCell(k)]
             /\ f # "hdr"  \/ k # l => new[HdrCell(k)] = rom[HdrCell(k)]
             /\ f # "data" \/ k # l => new[DataCell(k)] = rom[DataCell(k)]
  <2>1. ASSUME NEW g \in MetaFields \cup {"data"}, f # g \/ k # l
        PROVE  new[FieldCell(g, k)] = rom[FieldCell(g, k)]
    BY <1>1, <2>1
  <2> QED BY <1>4, <2>1, CellsAreFields
<1> QED BY <1>1, <1>2, <1>3, <1>5

-----------------------------------------------------------------------------
(***************************************************************************)
(* What the writes of copyblock and write_startbyte do to the chip.        *)
(***************************************************************************)
LEMMA FieldValues ==
    /\ {"next", "used", "crc", "hdr", "data"} \subseteq MetaFields \cup {"data"}
    /\ USED \in ValuesOf("used") /\ ERASED \in ValuesOf("used")
    /\ USED # ERASED
    /\ \A l \in Locs : l \in ValuesOf("next")
    /\ \A v \in Word : v \in ValuesOf("crc") /\ v \in ValuesOf("hdr") /\ v \in ValuesOf("data")
    /\ \A v \in ValuesOf("used") : v \in {USED, ERASED}
BY DEF MetaFields, ValuesOf, USED, ERASED

LEMMA UsedOrErased ==
    ASSUME NEW rom \in Memory, NEW l \in Locs
    PROVE  rom[UsedCell(l)] \in {USED, ERASED}
<1>1. UsedCell(l) \in Cell /\ UsedCell(l)[1] = "used"
  BY CellsOfLoc DEF Cell, UsedCell
<1>2. rom[UsedCell(l)] \in ValuesOf("used")
  BY <1>1, MemoryValue
<1> QED BY <1>2, FieldValues

LEMMA FreshIsApart ==
    ASSUME NEW rom \in Memory, Upward(rom), NEW h \in Locs, NEW l,
           Unlinked(rom, l), l # h
    PROVE  l \notin BlocksOf(rom, h)
<1> DEFINE s == ChainOf(rom, h)
<1>1. Path(rom, s) /\ s[1] = h
  BY ChainEnds
<1> HIDE DEF s
<1>2. s \in Seq(Locs) /\ Len(s) \in Nat \ {0} /\ DOMAIN s = 1 .. Len(s)
  BY <1>1, LenProperties DEF Path
<1>3. ASSUME NEW i \in DOMAIN s PROVE s[i] # l
  <2>1. CASE i = 1
    BY <1>1, <2>1
  <2>2. CASE i # 1
    <3>1. i - 1 \in 1 .. Len(s) - 1 /\ i - 1 \in 1 .. Len(s) /\ (i - 1) + 1 = i
      BY <1>2, <2>2
    <3>2. rom[NextCell(s[i - 1])] = s[i] /\ s[i - 1] \in Locs
      BY <1>1, <1>2, <3>1, ElementOfSeq DEF Path
    <3> QED BY <3>2 DEF Unlinked
  <2> QED BY <2>1, <2>2
<1> QED BY <1>3 DEF BlocksOf, s

\* Writing to a block that nothing leads to harms no file.
LEMMA OthersKept ==
    ASSUME NEW rom \in Memory, NEW new \in Memory, Upward(rom),
           Starts(new) = Starts(rom), NEW l, Fresh(rom, l),
           \A k \in Locs \ {l} : SameBlock(rom, new, k)
    PROVE  FilesOn(new) = FilesOn(rom)
<1>1. ASSUME NEW h \in Starts(rom) PROVE SameFile(rom, new, h)
  <2>1. h \in Locs /\ l # h
    BY StartsInLocs DEF Fresh
  <2>2. l \notin BlocksOf(rom, h)
    BY <2>1, FreshIsApart DEF Fresh
  <2>3. \A k \in BlocksOf(rom, h) : k \in Locs
    <3>1. Path(rom, ChainOf(rom, h))
      BY <2>1, ChainEnds
    <3> QED BY <3>1, ElementOfSeq, LenProperties DEF BlocksOf, Path
  <2>4. \A k \in BlocksOf(rom, h) : SameBlock(rom, new, k)
    BY <2>2, <2>3
  <2> QED BY <2>1, <2>4, FileKept
<1> QED BY <1>1, AllKept

LEMMA MarkUsed ==
    ASSUME NEW rom \in Memory, ChipIInv(rom), NEW l \in Locs,
           \A k \in Locs : k < l => rom[UsedCell(k)] = USED, Fresh(rom, l),
           rom[UsedCell(l)] = ERASED,
           NEW new, SetTo(rom, UsedCell(l), USED, new)
    PROVE  ChipIInv(new) /\ FilesOn(new) = FilesOn(rom)
<1>1. SetTo(rom, FieldCell("used", l), USED, new) /\ UsedCell(l) = FieldCell("used", l)
  BY CellsAreFields
<1>2. /\ new \in Memory
      /\ Starts(new) = Starts(rom)
      /\ PreambleEnds(rom) => PreambleEnds(new)
      /\ \A k \in Locs :
            /\ new[NextCell(k)] = rom[NextCell(k)]
            /\ k # l => new[UsedCell(k)] = rom[UsedCell(k)]
            /\ new[CrcCell(k)] = rom[CrcCell(k)]
            /\ new[HdrCell(k)] = rom[HdrCell(k)]
            /\ new[DataCell(k)] = rom[DataCell(k)]
      /\ new[UsedCell(l)] = USED
  BY <1>1, FieldValues, WriteCell, CellsAreFields
<1>3. \A k \in Locs : k \in Nat
  BY LocParts
<1>4. USED # ERASED
  BY FieldValues
<1>5. \A k \in Locs : new[UsedCell(k)] = ERASED => rom[UsedCell(k)] = ERASED
  BY <1>2, <1>4
<1>6. FreeIsErased(new)
  BY <1>2, <1>5 DEF FreeIsErased, ChipIInv
<1>7. UsedFromFirst(new)
  <2> SUFFICES ASSUME NEW k \in Locs, NEW m \in Locs, k < m, new[UsedCell(k)] = ERASED
               PROVE  new[UsedCell(m)] = ERASED
    BY DEF UsedFromFirst
  <2>1. rom[UsedCell(k)] = ERASED /\ rom[UsedCell(m)] = ERASED
    BY <1>5 DEF UsedFromFirst, ChipIInv
  <2>2. m # l
    BY <1>4, <2>1
  <2> QED BY <1>2, <2>1, <2>2
<1>8. NamesUsed(new)
  <2>1. ASSUME NEW k \in Locs, new[NextCell(k)] # NoLoc
        PROVE  new[UsedCell(new[NextCell(k)])] = USED
    <3>1. rom[NextCell(k)] # NoLoc /\ rom[NextCell(k)] \in Locs
      BY <1>2, <2>1, NextIsLoc
    <3>2. rom[UsedCell(rom[NextCell(k)])] = USED
      BY <3>1 DEF NamesUsed, ChipIInv
    <3> QED BY <1>2, <3>1, <3>2
  <2>2. ASSUME NEW k \in Starts(new) PROVE new[UsedCell(k)] = USED
    <3>1. k \in Locs /\ rom[UsedCell(k)] = USED
      BY <1>2, StartsInLocs DEF NamesUsed, ChipIInv
    <3> QED BY <1>2, <3>1
  <2> QED BY <2>1, <2>2 DEF NamesUsed
<1>9. PreambleEnds(new) /\ Upward(new) /\ LinkedOnce(new) /\ StartsUnlinked(new)
  <2>1. PreambleEnds(new)
    BY <1>2 DEF ChipIInv
  <2>2. Upward(new)
    BY <1>2 DEF ChipIInv, Upward
  <2>3. LinkedOnce(new)
    BY <1>2 DEF ChipIInv, LinkedOnce
  <2>4. StartsUnlinked(new)
    BY <1>2 DEF ChipIInv, StartsUnlinked, Unlinked
  <2> QED BY <2>1, <2>2, <2>3, <2>4
<1>10. FilesOn(new) = FilesOn(rom)
  <2>1. \A k \in Locs \ {l} : SameBlock(rom, new, k)
    BY <1>2 DEF SameBlock
  <2>2. Upward(rom)
    BY DEF ChipIInv
  <2> QED BY <1>2, <2>1, <2>2, OthersKept
<1> QED BY <1>6, <1>7, <1>8, <1>9, <1>10 DEF ChipIInv

LEMMA FillField ==
    ASSUME NEW rom \in Memory, ChipIInv(rom), NEW l \in Locs, Fresh(rom, l),
           rom[UsedCell(l)] = USED,
           NEW f \in {"crc", "hdr", "data"}, NEW v \in Word,
           NEW new, SetTo(rom, FieldCell(f, l), v, new)
    PROVE  ChipIInv(new) /\ FilesOn(new) = FilesOn(rom)
<1>1. f \in MetaFields \cup {"data"} /\ v \in ValuesOf(f) /\ f # "next" /\ f # "used"
  BY FieldValues
<1>2. /\ new \in Memory
      /\ Starts(new) = Starts(rom)
      /\ PreambleEnds(rom) => PreambleEnds(new)
      /\ \A k \in Locs :
            /\ new[NextCell(k)] = rom[NextCell(k)]
            /\ new[UsedCell(k)] = rom[UsedCell(k)]
            /\ k # l => new[CrcCell(k)] = rom[CrcCell(k)]
            /\ k # l => new[HdrCell(k)] = rom[HdrCell(k)]
            /\ k # l => new[DataCell(k)] = rom[DataCell(k)]
  BY <1>1, WriteCell
<1>3. USED # ERASED
  BY FieldValues
<1>4. FreeIsErased(new)
  BY <1>2, <1>3 DEF FreeIsErased, ChipIInv
<1>5. UsedFromFirst(new)
  BY <1>2 DEF UsedFromFirst, ChipIInv
<1>6. NamesUsed(new)
  <2>1. ASSUME NEW k \in Locs, new[NextCell(k)] # NoLoc
        PROVE  new[UsedCell(new[NextCell(k)])] = USED
    <3>1. rom[NextCell(k)] # NoLoc /\ rom[NextCell(k)] \in Locs
      BY <1>2, <2>1, NextIsLoc
    <3>2. rom[UsedCell(rom[NextCell(k)])] = USED
      BY <3>1 DEF NamesUsed, ChipIInv
    <3> QED BY <1>2, <3>1, <3>2
  <2>2. ASSUME NEW k \in Starts(new) PROVE new[UsedCell(k)] = USED
    <3>1. k \in Locs /\ rom[UsedCell(k)] = USED
      BY <1>2, StartsInLocs DEF NamesUsed, ChipIInv
    <3> QED BY <1>2, <3>1
  <2> QED BY <2>1, <2>2 DEF NamesUsed
<1>7. PreambleEnds(new)
  BY <1>2 DEF ChipIInv
<1>8. Upward(new)
  BY <1>2 DEF ChipIInv, Upward
<1>9. LinkedOnce(new)
  BY <1>2 DEF ChipIInv, LinkedOnce
<1>10. StartsUnlinked(new)
  BY <1>2 DEF ChipIInv, StartsUnlinked, Unlinked
<1>11. FilesOn(new) = FilesOn(rom)
  <2>1. \A k \in Locs \ {l} : SameBlock(rom, new, k)
    BY <1>2 DEF SameBlock
  <2>2. Upward(rom)
    BY DEF ChipIInv
  <2> QED BY <1>2, <2>1, <2>2, OthersKept
<1> QED BY <1>4, <1>5, <1>6, <1>7, <1>8, <1>9, <1>10, <1>11 DEF ChipIInv

LEMMA LinkBlock ==
    ASSUME NEW rom \in Memory, ChipIInv(rom), NEW l \in Locs, Fresh(rom, l),
           rom[UsedCell(l)] = USED,
           NEW p \in Locs, rom[UsedCell(p)] = USED, rom[NextCell(p)] = NoLoc, p < l,
           NEW new, SetTo(rom, NextCell(p), l, new)
    PROVE  ChipIInv(new)
<1>1. SetTo(rom, FieldCell("next", p), l, new) /\ NextCell(p) = FieldCell("next", p)
  BY CellsAreFields
<1>2. /\ new \in Memory
      /\ Starts(new) = Starts(rom)
      /\ PreambleEnds(rom) => PreambleEnds(new)
      /\ \A k \in Locs :
            /\ k # p => new[NextCell(k)] = rom[NextCell(k)]
            /\ new[UsedCell(k)] = rom[UsedCell(k)]
            /\ new[CrcCell(k)] = rom[CrcCell(k)]
            /\ new[HdrCell(k)] = rom[HdrCell(k)]
            /\ new[DataCell(k)] = rom[DataCell(k)]
      /\ new[NextCell(p)] = l
  BY <1>1, FieldValues, WriteCell
<1>3. USED # ERASED /\ \A k \in Locs : k \in Nat /\ k # NoLoc
  BY FieldValues, LocParts
<1>4. FreeIsErased(new)
  BY <1>2, <1>3 DEF FreeIsErased, ChipIInv
<1>5. UsedFromFirst(new)
  BY <1>2 DEF UsedFromFirst, ChipIInv
<1>6. NamesUsed(new)
  <2>1. ASSUME NEW k \in Locs, new[NextCell(k)] # NoLoc
        PROVE  new[UsedCell(new[NextCell(k)])] = USED
    <3>1. CASE k = p
      BY <1>2, <3>1
    <3>2. CASE k # p
      <4>1. rom[NextCell(k)] # NoLoc /\ rom[NextCell(k)] \in Locs
        BY <1>2, <2>1, <3>2, NextIsLoc
      <4>2. rom[UsedCell(rom[NextCell(k)])] = USED
        BY <4>1 DEF NamesUsed, ChipIInv
      <4> QED BY <1>2, <3>2, <4>1, <4>2
    <3> QED BY <3>1, <3>2
  <2>2. ASSUME NEW k \in Starts(new) PROVE new[UsedCell(k)] = USED
    <3>1. k \in Locs /\ rom[UsedCell(k)] = USED
      BY <1>2, StartsInLocs DEF NamesUsed, ChipIInv
    <3> QED BY <1>2, <3>1
  <2> QED BY <2>1, <2>2 DEF NamesUsed
<1>7. PreambleEnds(new)
  BY <1>2 DEF ChipIInv
<1>8. Upward(new)
  BY <1>2 DEF ChipIInv, Upward
<1>9. LinkedOnce(new)
  <2>1. \A k \in Locs : rom[NextCell(k)] # l
    BY DEF Fresh, Unlinked
  <2> QED BY <1>2, <2>1 DEF ChipIInv, LinkedOnce
<1>10. StartsUnlinked(new)
  <2>1. l \notin Starts(rom)
    BY DEF Fresh
  <2> QED BY <1>2, <2>1 DEF ChipIInv, StartsUnlinked, Unlinked
<1> QED BY <1>4, <1>5, <1>6, <1>7, <1>8, <1>9, <1>10 DEF ChipIInv

\* The first 0xFF of a preamble is overwritten.
LEMMA EnterStart ==
    ASSUME NEW rom \in Memory, ChipIInv(rom), NEW l \in Locs, Fresh(rom, l),
           rom[UsedCell(l)] = USED,
           NEW i \in Slot, rom[PreCell(BankOf(l), i)] = ERASED,
           \A j \in 0 .. i - 1 : rom[PreCell(BankOf(l), j)] # ERASED,
           NEW new, SetTo(rom, PreCell(BankOf(l), i), BlockOf(l), new)
    PROVE  /\ new \in Memory /\ ChipIInv(new)
           /\ Starts(new) = Starts(rom) \cup {l}
           /\ \A k \in Locs : SameBlock(rom, new, k)
<1> DEFINE b == BankOf(l)
<1>1. b \in Bank /\ BlockOf(l) \in Block /\ Loc(b, BlockOf(l)) = l
  <2>1. PICK c \in Bank, j \in Block : l = Loc(c, j)
    BY DEF Locs
  <2> QED BY <2>1, LocSplit
<1> HIDE DEF b
<1>2. PreCell(b, i) \in Cell /\ PreCell(b, i)[1] = "pre" /\ BlockOf(l) \in ValuesOf("pre")
      /\ BlockOf(l) # ERASED
  <2>1. PreCell(b, i) \in Cell /\ PreCell(b, i)[1] = "pre"
    BY <1>1 DEF PreCell, Cell, PreCells
  <2>2. \A n \in Block : n # ERASED
    BY GeometryAssumption DEF Block, ERASED
  <2>3. \A n \in Block : n \in ValuesOf("pre")
    BY DEF ValuesOf
  <2> QED BY <1>1, <2>1, <2>2, <2>3
<1>3. new \in Memory /\ \A y \in Cell : new[y] = IF y = PreCell(b, i) THEN BlockOf(l) ELSE rom[y]
  <2> DEFINE x == PreCell(b, i)
             v == BlockOf(l)
  <2>1. x \in Cell /\ v \in ValuesOf(x[1]) /\ SetTo(rom, x, v, new)
    BY <1>2 DEF b
  <2> HIDE DEF x, v
  <2>2. new \in Memory
    BY <2>1, SetCell
  <2>3. new[x] = v /\ \A y \in Cell : y # x => new[y] = rom[y]
    BY <2>1, SetCell
  <2> QED BY <2>2, <2>3 DEF x, v
<1>4. \A k \in Locs : SameBlock(rom, new, k)
  <2>1. ASSUME NEW k \in Locs, NEW f \in MetaFields \cup {"data"}
        PROVE  new[FieldCell(f, k)] = rom[FieldCell(f, k)]
    <3>1. FieldCell(f, k) \in Cell /\ FieldCell(f, k) # PreCell(b, i)
      BY FieldIsCell DEF FieldCell, PreCell, MetaFields
    <3> QED BY <1>3, <3>1
  <2> QED BY <2>1, FieldValues, CellsAreFields DEF SameBlock
<1>5. \A c \in Bank, j \in Slot : /\ PreCell(c, j) \in PreCells /\ PreCell(c, j) \in Cell
                                  /\ new[PreCell(c, j)] = IF c = b /\ j = i THEN BlockOf(l)
                                                          ELSE rom[PreCell(c, j)]
  <2>1. \A c \in Bank, j \in Slot : PreCell(c, j) \in PreCells /\ PreCell(c, j) \in Cell
    BY DEF PreCell, PreCells, Cell
  <2>2. \A c \in Bank, j \in Slot : PreCell(c, j) = PreCell(b, i) <=> c = b /\ j = i
    BY DEF PreCell
  <2> QED BY <1>3, <2>1, <2>2
<1>6. /\ rom[PreCell(b, i)] = ERASED
      /\ \A j \in Slot : j < i => rom[PreCell(b, j)] # ERASED
      /\ \A j \in Slot : i < j => rom[PreCell(b, j)] = ERASED
  <2>1. \A j \in Slot : j < i => j \in 0 .. i - 1
    BY GeometryAssumption DEF Slot
  <2>2. \A j \in Slot : i < j => rom[PreCell(b, j)] = ERASED
    BY <1>1 DEF ChipIInv, PreambleEnds, b
  <2> QED BY <2>1, <2>2 DEF b
<1>7. PreambleEnds(new)
  <2> SUFFICES ASSUME NEW c \in Bank, NEW m \in Slot, NEW n \in Slot, m < n,
                      new[PreCell(c, m)] = ERASED
               PROVE  new[PreCell(c, n)] = ERASED
    BY DEF PreambleEnds
  <2>1. rom[PreCell(c, m)] = ERASED /\ ~(c = b /\ m = i)
    BY <1>2, <1>5
  <2>2. rom[PreCell(c, n)] = ERASED
    BY <2>1 DEF PreambleEnds, ChipIInv
  <2>3. ~(c = b /\ n = i)
    BY <1>6, <2>1
  <2> QED BY <1>5, <2>2, <2>3
<1>8. \A e \in PreCells : e[2] \in Bank /\ e[3] \in Slot /\ e = PreCell(e[2], e[3])
  BY DEF PreCells, PreCell
<1>9. \A c \in Bank, j \in Slot : Listed(new, c, j) <=> Listed(rom, c, j) \/ (c = b /\ j = i)
  <2> SUFFICES ASSUME NEW c \in Bank, NEW j \in Slot
               PROVE  Listed(new, c, j) <=> Listed(rom, c, j) \/ (c = b /\ j = i)
    OBVIOUS
  <2>0. \A n \in 0 .. j : n \in Slot /\ j \in Slot /\ j \in 0 .. j /\ n <= j
    BY GeometryAssumption DEF Slot
  <2>1. CASE c # b
    BY <1>5, <2>0, <2>1 DEF Listed
  <2>2. CASE c = b /\ j < i
    <3>1. \A n \in 0 .. j : n # i
      BY <2>2 DEF Slot
    <3> QED BY <1>5, <2>0, <2>2, <3>1 DEF Listed
  <2>3. CASE c = b /\ j = i
    <3>1. \A n \in 0 .. j : n = i \/ n < i
      BY <2>3 DEF Slot
    <3>2. \A n \in 0 .. j : new[PreCell(b, n)] # ERASED
      BY <1>1, <1>2, <1>5, <1>6, <2>0, <3>1
    <3> QED BY <2>3, <3>2 DEF Listed
  <2>4. CASE c = b /\ i < j
    <3>1. rom[PreCell(b, j)] = ERASED /\ new[PreCell(b, j)] = ERASED
      BY <1>1, <1>5, <1>6, <2>4 DEF Slot
    <3>2. j \in 0 .. j /\ j # i
      BY <2>4 DEF Slot
    <3> QED BY <2>4, <3>1, <3>2 DEF Listed
  <2> QED BY <2>1, <2>2, <2>3, <2>4 DEF Slot
<1>10. Starts(new) = Starts(rom) \cup {l}
  <2>1. ~Listed(rom, b, i)
    <3>1. i \in 0 .. i
      BY DEF Slot
    <3> QED BY <1>6, <3>1 DEF Listed
  <2>2. ASSUME NEW h \in Starts(new) PROVE h \in Starts(rom) \cup {l}
    <3>1. PICK e \in PreCells : Listed(new, e[2], e[3]) /\ h = Loc(e[2], new[e])
      BY DEF Starts
    <3>2. CASE e[2] = b /\ e[3] = i
      BY <1>1, <1>5, <1>8, <3>1, <3>2
    <3>3. CASE ~(e[2] = b /\ e[3] = i)
      <4>1. Listed(rom, e[2], e[3]) /\ new[e] = rom[e]
        BY <1>5, <1>8, <1>9, <3>1, <3>3
      <4> QED BY <3>1, <4>1 DEF Starts
    <3> QED BY <3>2, <3>3
  <2>3. ASSUME NEW h \in Starts(rom) PROVE h \in Starts(new)
    <3>1. PICK e \in PreCells : Listed(rom, e[2], e[3]) /\ h = Loc(e[2], rom[e])
      BY DEF Starts
    <3>2. Listed(new, e[2], e[3]) /\ new[e] = rom[e]
      BY <1>5, <1>8, <1>9, <2>1, <3>1
    <3> QED BY <3>1, <3>2 DEF Starts
  <2>4. l \in Starts(new)
    <3> DEFINE e == PreCell(b, i)
    <3>1. e \in PreCells /\ e[2] = b /\ e[3] = i /\ new[e] = BlockOf(l)
      BY <1>1, <1>5 DEF PreCell
    <3>2. Listed(new, e[2], e[3]) /\ l = Loc(e[2], new[e])
      BY <1>1, <1>9, <3>1
    <3> HIDE DEF e
    <3> QED BY <3>1, <3>2 DEF Starts
  <2> QED BY <2>2, <2>3, <2>4
<1>11. FreeIsErased(new)
  BY <1>4 DEF FreeIsErased, ChipIInv, SameBlock
<1>12. UsedFromFirst(new)
  BY <1>4 DEF UsedFromFirst, ChipIInv, SameBlock
<1>13. NamesUsed(new)
  <2>1. ASSUME NEW k \in Locs, new[NextCell(k)] # NoLoc
        PROVE  new[UsedCell(new[NextCell(k)])] = USED
    <3>1. rom[NextCell(k)] # NoLoc /\ rom[NextCell(k)] \in Locs /\ rom[NextCell(k)] = new[NextCell(k)]
      BY <1>4, <2>1, NextIsLoc DEF SameBlock
    <3>2. rom[UsedCell(rom[NextCell(k)])] = USED
      BY <3>1 DEF NamesUsed, ChipIInv
    <3> QED BY <1>4, <3>1, <3>2 DEF SameBlock
  <2>2. ASSUME NEW k \in Starts(new) PROVE new[UsedCell(k)] = USED
    <3>1. k \in Locs /\ rom[UsedCell(k)] = USED
      BY <1>10, StartsInLocs DEF NamesUsed, ChipIInv
    <3> QED BY <1>4, <3>1 DEF SameBlock
  <2> QED BY <2>1, <2>2 DEF NamesUsed
<1>14. Upward(new)
  BY <1>4 DEF ChipIInv, Upward, SameBlock
<1>15. LinkedOnce(new)
  BY <1>4 DEF ChipIInv, LinkedOnce, SameBlock
<1>16. StartsUnlinked(new)
  BY <1>4, <1>10 DEF ChipIInv, StartsUnlinked, Unlinked, SameBlock, Fresh
<1> QED BY <1>3, <1>4, <1>7, <1>10, <1>11, <1>12, <1>13, <1>14, <1>15, <1>16 DEF ChipIInv

-----------------------------------------------------------------------------
(***************************************************************************)
(* When the file that is stored becomes one of the files on the chip.      *)
(***************************************************************************)
\* Blocks copied and linked are the chain of their first, and a file if they
\* are all that it has.
LEMMA CopiedIsFile ==
    ASSUME NEW rom \in Memory, Upward(rom), NEW n \in Nat \ {0}, NEW u, u.total \in Nat,
           NEW s, Copied(rom, s, n, u), rom[NextCell(s[n])] = NoLoc
    PROVE  /\ ChainOf(rom, u.start) = s /\ Path(rom, s)
           /\ Len(s) = n /\ DOMAIN s = 1 .. n /\ s[1] = u.start
           /\ Sound(rom, u.start) <=> n = u.total
           /\ Held(rom, u.start) = [j \in 1 .. n |-> u.data[j]]
<1>1. s \in [1 .. n -> Locs] /\ s[1] = u.start
  BY DEF Copied
<1>2. s \in Seq(Locs) /\ Len(s) = n /\ DOMAIN s = 1 .. n
  BY <1>1
<1>3. Path(rom, s)
  BY <1>2 DEF Path, Copied
<1>4. Ends(rom, s)
  BY <1>2 DEF Ends
<1>5. n <= NBANKS * NBLOCKS
  BY <1>2, <1>3, PathIsShort
<1>6. ChainOf(rom, u.start) = s
  <2>1. Len(s) <= NBANKS * NBLOCKS + 1
    BY <1>2, <1>5, LocsFinite
  <2> QED BY <1>1, <1>3, <1>4, <2>1, ChainIs
<1>7. \A j \in 1 .. n : /\ rom[UsedCell(s[j])] = USED
                        /\ rom[DataCell(s[j])] = u.data[j]
                        /\ rom[CrcCell(s[j])] = Crc16(u.data[j])
                        /\ rom[HdrCell(s[j])] = (j - 1) + 256 * u.total
  BY DEF Copied, Filled
<1>8. Sound(rom, u.start) <=> n = u.total
  <2>1. Sound(rom, u.start) <=> \A j \in 1 .. n : Good(rom, s[j], j, n)
    BY <1>2, <1>5, <1>6 DEF Sound
  <2>2. CASE n = u.total
    BY <1>7, <2>1, <2>2 DEF Good
  <2>3. CASE n # u.total
    <3>1. rom[HdrCell(s[1])] # (1 - 1) + 256 * n
      BY <1>7, <2>3
    <3>2. ~Good(rom, s[1], 1, n) /\ 1 \in 1 .. n
      BY <3>1 DEF Good
    <3> QED BY <2>1, <2>3, <3>2
  <2> QED BY <2>2, <2>3
<1>9. Held(rom, u.start) = [j \in 1 .. n |-> u.data[j]]
  BY <1>2, <1>6, <1>7 DEF Held
<1> QED BY <1>1, <1>2, <1>3, <1>6, <1>8, <1>9

LEMMA LinkFiles ==
    ASSUME NEW rom \in Memory, ChipIInv(rom), NEW l \in Locs, Fresh(rom, l),
           NEW n \in Nat, n # 0, NEW u, u.total \in Nat, n < u.total,
           NEW s, Copied(rom, s, n, u), u.start \in Starts(rom),
           Filled(rom, l, n + 1, u.total, u.data[n + 1]),
           rom[NextCell(s[n])] = NoLoc, s[n] < l,
           NEW new, SetTo(rom, NextCell(s[n]), l, new)
    PROVE  /\ ChipIInv(new)
           /\ Stored(new, n + 1, u, l)
           /\ u.start \in Starts(new) /\ new[NextCell(l)] = NoLoc
           /\ Grows(rom, new, n + 1, u)
<1> DEFINE p == s[n]
<1>1. s \in [1 .. n -> Locs] /\ s[1] = u.start /\ p \in Locs /\ n \in 1 .. n
  BY DEF Copied
<1>2. rom[UsedCell(p)] = USED /\ rom[UsedCell(l)] = USED
  BY DEF Copied, Filled
<1>3. rom[NextCell(p)] = NoLoc /\ p < l /\ SetTo(rom, NextCell(p), l, new)
  OBVIOUS
<1>4. \A j \in 1 .. n - 1 : s[j] # p
  <2>1. \A j \in 1 .. n - 1 : rom[NextCell(s[j])] = s[j + 1] /\ s[j + 1] \in Locs
    BY <1>1 DEF Copied
  <2> QED BY <1>3, <2>1, LocParts
<1>5. \A j \in 1 .. n : s[j] # l
  <2>1. \A j \in 1 .. n - 1 : rom[NextCell(s[j])] = s[j + 1] /\ s[j] \in Locs
    BY <1>1 DEF Copied
  <2>2. \A j \in 1 .. n : j = 1 \/ (j - 1 \in 1 .. n - 1 /\ (j - 1) + 1 = j)
    OBVIOUS
  <2>3. \A j \in 1 .. n - 1 : rom[NextCell(s[j])] # l
    BY <2>1 DEF Fresh, Unlinked
  <2>4. s[1] # l
    BY <1>1 DEF Fresh
  <2> QED BY <2>1, <2>2, <2>3, <2>4
<1> HIDE DEF p
<1>6. ChipIInv(new)
  BY <1>1, <1>2, <1>3, LinkBlock
<1>7. /\ new \in Memory /\ Starts(new) = Starts(rom)
      /\ \A k \in Locs :
            /\ k # p => new[NextCell(k)] = rom[NextCell(k)]
            /\ new[UsedCell(k)] = rom[UsedCell(k)]
            /\ new[CrcCell(k)] = rom[CrcCell(k)]
            /\ new[HdrCell(k)] = rom[HdrCell(k)]
            /\ new[DataCell(k)] = rom[DataCell(k)]
      /\ new[NextCell(p)] = l
  <2>1. SetTo(rom, FieldCell("next", p), l, new) /\ NextCell(p) = FieldCell("next", p)
    BY <1>3, CellsAreFields
  <2> QED BY <1>1, <2>1, FieldValues, WriteCell
<1> DEFINE t == [j \in 1 .. n + 1 |-> IF j = n + 1 THEN l ELSE s[j]]
<1>8. t \in [1 .. n + 1 -> Locs] /\ t[n + 1] = l /\ t[1] = u.start /\ \A j \in 1 .. n : t[j] = s[j]
  BY <1>1
<1> HIDE DEF t
<1>9. \A j \in 1 .. n + 1 : Filled(new, t[j], j, u.total, u.data[j])
  <2>1. ASSUME NEW j \in 1 .. n PROVE Filled(new, t[j], j, u.total, u.data[j])
    <3>1. Filled(rom, s[j], j, u.total, u.data[j]) /\ s[j] \in Locs /\ t[j] = s[j]
      BY <1>1, <1>8 DEF Copied
    <3> QED BY <1>7, <3>1 DEF Filled
  <2>2. Filled(new, t[n + 1], n + 1, u.total, u.data[n + 1])
    BY <1>7, <1>8 DEF Filled
  <2> QED BY <2>1, <2>2
<1>10. \A j \in 1 .. n : new[NextCell(t[j])] = t[j + 1]
  <2>1. ASSUME NEW j \in 1 .. n - 1 PROVE new[NextCell(t[j])] = t[j + 1]
    <3>1. rom[NextCell(s[j])] = s[j + 1] /\ s[j] \in Locs /\ s[j] # p
          /\ j \in 1 .. n /\ j + 1 \in 1 .. n
      BY <1>1, <1>4 DEF Copied
    <3> QED BY <1>7, <1>8, <3>1
  <2>2. new[NextCell(t[n])] = t[n + 1]
    BY <1>1, <1>7, <1>8 DEF p
  <2> QED BY <2>1, <2>2
<1>11. Copied(new, t, n + 1, u)
  BY <1>8, <1>9, <1>10 DEF Copied
<1>12. new[NextCell(l)] = NoLoc
  BY <1>1, <1>5, <1>7 DEF Fresh, p
<1>13. /\ ChainOf(rom, u.start) = s /\ Path(rom, s) /\ Len(s) = n /\ ~Sound(rom, u.start)
       /\ DOMAIN s = 1 .. n
  <2>1. Upward(rom) /\ rom[NextCell(s[n])] = NoLoc
    BY DEF ChipIInv
  <2>2. ChainOf(rom, u.start) = s /\ Path(rom, s)
    BY <2>1, CopiedIsFile
  <2>3. Len(s) = n /\ DOMAIN s = 1 .. n
    BY <2>1, CopiedIsFile
  <2>4. Sound(rom, u.start) <=> n = u.total
    BY <2>1, CopiedIsFile
  <2> QED BY <2>2, <2>3, <2>4
<1>14. /\ Sound(new, u.start) <=> n + 1 = u.total
       /\ Held(new, u.start) = [j \in 1 .. n + 1 |-> u.data[j]]
  <2>1. Upward(new) /\ n + 1 \in Nat \ {0} /\ new[NextCell(t[n + 1])] = NoLoc
    BY <1>6, <1>8, <1>12 DEF ChipIInv
  <2> QED BY <1>7, <1>11, <2>1, CopiedIsFile
<1>15. ASSUME NEW h \in Starts(rom) \ {u.start} PROVE SameFile(rom, new, h)
  <2>1. h \in Locs /\ Upward(rom) /\ LinkedOnce(rom) /\ Unlinked(rom, h) /\ Unlinked(rom, u.start)
    BY StartsInLocs DEF ChipIInv, StartsUnlinked
  <2>2. Path(rom, ChainOf(rom, h)) /\ ChainOf(rom, h)[1] = h
    BY <2>1, ChainEnds
  <2>3. \A i \in 1 .. Len(ChainOf(rom, h)) : ChainOf(rom, h)[i] # s[n]
    BY <1>1, <1>13, <2>1, <2>2, PathsDisjoint
  <2>4. \A k \in BlocksOf(rom, h) : k \in Locs /\ k # p
    BY <2>2, <2>3, ElementOfSeq, LenProperties DEF BlocksOf, Path, p
  <2>5. \A k \in BlocksOf(rom, h) : SameBlock(rom, new, k)
    BY <1>7, <2>4 DEF SameBlock
  <2> QED BY <1>7, <2>1, <2>5, FileKept
<1>16. u.start \notin DOMAIN FilesOn(rom)
  BY <1>13, FilesOnIs
<1>17. Starts(new) = Starts(rom) \cup {u.start}
  BY <1>7
<1>18. IF n + 1 = u.total
       THEN Added(rom, new, u.start, [j \in 1 .. n + 1 |-> u.data[j]])
       ELSE FilesOn(new) = FilesOn(rom)
  <2> DEFINE h == u.start
             c == [j \in 1 .. n + 1 |-> u.data[j]]
  <2>1. /\ Starts(new) = Starts(rom) \cup {h} /\ h \notin DOMAIN FilesOn(rom)
        /\ \A k \in Starts(rom) \ {h} : SameFile(rom, new, k)
        /\ Held(new, h) = c
    BY <1>14, <1>15, <1>16, <1>17
  <2>2. Sound(new, h) <=> n + 1 = u.total
    BY <1>14
  <2> HIDE DEF h, c
  <2>3. IF Sound(new, h) THEN Added(rom, new, h, c) ELSE FilesOn(new) = FilesOn(rom)
    BY <2>1, OneMore
  <2> QED BY <2>2, <2>3 DEF h, c
<1>19. Stored(new, n + 1, u, l)
  BY <1>8, <1>11 DEF Stored
<1>20. Grows(rom, new, n + 1, u)
  BY <1>18 DEF Grows
<1> QED BY <1>6, <1>7, <1>12, <1>19, <1>20

LEMMA EnterFiles ==
    ASSUME NEW rom \in Memory, ChipIInv(rom), NEW u, u.total \in Nat,
           u.start \in Locs, Fresh(rom, u.start),
           Filled(rom, u.start, 1, u.total, u.data[1]),
           NEW i \in Slot, rom[PreCell(BankOf(u.start), i)] = ERASED,
           \A j \in 0 .. i - 1 : rom[PreCell(BankOf(u.start), j)] # ERASED,
           NEW new, SetTo(rom, PreCell(BankOf(u.start), i), BlockOf(u.start), new)
    PROVE  /\ ChipIInv(new)
           /\ Stored(new, 1, u, u.start)
           /\ u.start \in Starts(new) /\ new[NextCell(u.start)] = NoLoc
           /\ \A k \in Locs : SameBlock(rom, new, k)
           /\ Starts(new) = Starts(rom) \cup {u.start}
           /\ Grows(rom, new, 1, u)
<1>1. rom[UsedCell(u.start)] = USED
  BY DEF Filled
<1>2. /\ new \in Memory /\ ChipIInv(new)
      /\ Starts(new) = Starts(rom) \cup {u.start}
      /\ \A k \in Locs : SameBlock(rom, new, k)
  BY <1>1, EnterStart
<1> DEFINE t == [j \in 1 .. 1 |-> u.start]
<1>3. t \in [1 .. 1 -> Locs] /\ t[1] = u.start
  OBVIOUS
<1> HIDE DEF t
<1>4. Copied(new, t, 1, u)
  <2>1. Filled(new, u.start, 1, u.total, u.data[1])
    BY <1>2 DEF Filled, SameBlock
  <2> QED BY <1>3, <2>1 DEF Copied
<1>5. new[NextCell(u.start)] = NoLoc
  BY <1>2 DEF Fresh, SameBlock
<1>6. /\ Sound(new, u.start) <=> 1 = u.total
      /\ Held(new, u.start) = [j \in 1 .. 1 |-> u.data[j]]
  <2>1. Upward(new) /\ 1 \in Nat \ {0} /\ new[NextCell(t[1])] = NoLoc
    BY <1>2, <1>3, <1>5 DEF ChipIInv
  <2>2. PICK n \in Nat \ {0} : n = 1
    OBVIOUS
  <2>3. Upward(new) /\ new[NextCell(t[n])] = NoLoc /\ Copied(new, t, n, u)
    BY <1>4, <2>1, <2>2
  <2>4. Sound(new, u.start) <=> n = u.total
    BY <1>2, <2>3, CopiedIsFile
  <2>5. Held(new, u.start) = [j \in 1 .. n |-> u.data[j]]
    BY <1>2, <2>3, CopiedIsFile
  <2> QED BY <2>2, <2>4, <2>5
<1>7. ASSUME NEW h \in Starts(rom) \ {u.start} PROVE SameFile(rom, new, h)
  <2>1. h \in Locs /\ Upward(rom)
    BY StartsInLocs DEF ChipIInv
  <2>2. Path(rom, ChainOf(rom, h))
    BY <2>1, ChainEnds
  <2>3. \A k \in BlocksOf(rom, h) : k \in Locs
    BY <2>2, ElementOfSeq, LenProperties DEF BlocksOf, Path
  <2> QED BY <1>2, <2>1, <2>3, FileKept
<1>8. u.start \notin DOMAIN FilesOn(rom)
  <2>1. u.start \notin Starts(rom)
    BY DEF Fresh
  <2> QED BY <2>1, FilesOnIs
<1>9. IF 1 = u.total
      THEN Added(rom, new, u.start, [j \in 1 .. 1 |-> u.data[j]])
      ELSE FilesOn(new) = FilesOn(rom)
  <2> DEFINE h == u.start
             c == [j \in 1 .. 1 |-> u.data[j]]
  <2>1. /\ Starts(new) = Starts(rom) \cup {h} /\ h \notin DOMAIN FilesOn(rom)
        /\ \A k \in Starts(rom) \ {h} : SameFile(rom, new, k)
        /\ Held(new, h) = c
    BY <1>2, <1>6, <1>7, <1>8
  <2>2. Sound(new, h) <=> 1 = u.total
    BY <1>6
  <2> HIDE DEF h, c
  <2>3. IF Sound(new, h) THEN Added(rom, new, h, c) ELSE FilesOn(new) = FilesOn(rom)
    BY <2>1, OneMore
  <2> QED BY <2>2, <2>3 DEF h, c
<1>10. Stored(new, 1, u, u.start)
  BY <1>3, <1>4 DEF Stored
<1>11. Grows(rom, new, 1, u)
  BY <1>9 DEF Grows
<1> QED BY <1>2, <1>5, <1>10, <1>11

-----------------------------------------------------------------------------
(***************************************************************************)
(* The tape.                                                               *)
(***************************************************************************)
LEMMA BlockParts ==
    ASSUME NEW e \in TapeBlock
    PROVE  e.word \in Word /\ e.left \in 1 .. 255
BY DEF TapeBlock

LEMMA TapeWhole ==
    ASSUME NEW t \in Tapes
    PROVE  t \in Seq(TapeBlock) /\ Whole(t) /\ AtStart(t)
<1>1. t \in Seq(TapeBlock)
  BY TapeAssumption
<1>2. Whole(t)
  BY TapeAssumption DEF Whole
<1>3. AtStart(t)
  <2>1. t # <<>> => 1 \in DOMAIN t
    BY <1>1, LenProperties, EmptySeq
  <2> QED BY <2>1, TapeAssumption DEF AtStart
<1> QED BY <1>1, <1>2, <1>3

\* Reading a block leaves whole files, and the last block of a file is
\* followed by a file.
LEMMA TailWhole ==
    ASSUME NEW t \in Seq(TapeBlock), t # <<>>, Whole(t)
    PROVE  /\ Tail(t) \in Seq(TapeBlock) /\ Whole(Tail(t))
           /\ Head(t) \in TapeBlock /\ Head(t) = t[1]
           /\ Head(t).left = 1 => AtStart(Tail(t))
           /\ Len(t) \in Nat \ {0} /\ Len(Tail(t)) = Len(t) - 1
           /\ \A j \in 1 .. Len(t) - 1 : Tail(t)[j] = t[j + 1]
<1>1. /\ Tail(t) \in Seq(TapeBlock) /\ Head(t) = t[1] /\ Head(t) \in TapeBlock
      /\ Len(t) \in Nat \ {0} /\ Len(Tail(t)) = Len(t) - 1
  BY HeadTailProperties, EmptySeq, LenProperties
<1>2. \A j \in 1 .. Len(t) - 1 : Tail(t)[j] = t[j + 1]
  BY <1>1, HeadTailProperties
<1> DEFINE r == Tail(t)
<1>3. DOMAIN t = 1 .. Len(t) /\ DOMAIN r = 1 .. Len(t) - 1
  BY <1>1, LenProperties
<1>4. r \in Seq(TapeBlock) /\ \A j \in 1 .. Len(t) - 1 : r[j] = t[j + 1]
  BY <1>1, <1>2
<1> HIDE DEF r
<1>5. ASSUME NEW k \in 1 .. Len(t) - 1, t[k].left = 1
      PROVE  \E p \in Programs : FileAt(r, k, p)
  <2>1. k + 1 \in DOMAIN t /\ k + 1 > 1 /\ t[(k + 1) - 1].left = 1
    BY <1>1, <1>3, <1>5
  <2>2. PICK p \in Programs : FileAt(t, k + 1, p)
    BY <2>1 DEF Whole
  <2>3. p \in Seq(Word) /\ DOMAIN p = 1 .. Len(p) /\ Len(p) \in Nat
    BY GeometryAssumption, LenProperties
  <2>4. ASSUME NEW j \in DOMAIN p
        PROVE  /\ k + j - 1 \in DOMAIN r
               /\ r[k + j - 1] = [word |-> p[j], left |-> Len(p) - j + 1]
    <3>1. /\ (k + 1) + j - 1 \in DOMAIN t
          /\ t[(k + 1) + j - 1] = [word |-> p[j], left |-> Len(p) - j + 1]
      BY <2>2 DEF FileAt
    <3>2. j \in Nat \ {0} /\ k \in Nat \ {0} /\ (k + j - 1) + 1 = (k + 1) + j - 1
      BY <1>1, <2>3
    <3>3. k + j - 1 \in 1 .. Len(t) - 1
      BY <1>1, <1>3, <3>1, <3>2
    <3> QED BY <1>3, <1>4, <3>1, <3>2, <3>3
  <2>5. FileAt(r, k, p)
    BY <2>2, <2>4 DEF FileAt
  <2> QED BY <2>5
<1>6. Whole(r)
  <2>1. ASSUME NEW k \in DOMAIN r, k > 1, r[k - 1].left = 1
        PROVE  \E p \in Programs : FileAt(r, k, p)
    <3>1. k \in 1 .. Len(t) - 1 /\ k - 1 \in 1 .. Len(t) - 1 /\ (k - 1) + 1 = k
      BY <1>1, <1>3, <2>1
    <3>2. t[k].left = 1
      BY <1>4, <2>1, <3>1
    <3> QED BY <1>5, <3>1, <3>2
  <2> QED BY <2>1 DEF Whole
<1>7. Head(t).left = 1 => AtStart(r)
  <2> SUFFICES ASSUME Head(t).left = 1, r # <<>> PROVE \E p \in Programs : FileAt(r, 1, p)
    BY DEF AtStart
  <2>1. Len(r) \in Nat \ {0}
    BY <1>4, EmptySeq, LenProperties
  <2>2. 1 \in 1 .. Len(t) - 1
    BY <1>1, <2>1 DEF r
  <2> QED BY <1>1, <1>5, <2>2
<1> QED BY <1>1, <1>2, <1>6, <1>7 DEF r

LEMMA TapeParts ==
    ASSUME NEW t \in Tape
    PROVE  /\ t.rest \in Seq(TapeBlock) /\ t.status \in {"ok", "M", "E"}
           /\ t.left \in 0 .. 255 /\ t.word \in Word
BY DEF Tape

\* What a call of tape_read_block can do to tape t.
TakesBlock(t, v) ==
    /\ t.rest # <<>>
    /\ v = [rest |-> Tail(t.rest), status |-> "ok",
            left |-> Head(t.rest).left, word |-> Head(t.rest).word]
LosesBlock(t, v, n) ==
    /\ t.rest # <<>>
    /\ n \in {t.left, Head(t.rest).left}
    /\ v = [rest |-> Tail(t.rest), status |-> "E", left |-> n, word |-> t.word]
KeepsBlocks(t, v) == v.rest = t.rest /\ v.left = t.left /\ v.status # "ok"

LEMMA ReadOutcomes ==
    ASSUME tape \in Tape, tape_read_block
    PROVE  \/ TakesBlock(tape, tape')
           \/ tape' \in Tape /\ KeepsBlocks(tape, tape')
           \/ \E n : LosesBlock(tape, tape', n)
<1>1. CASE tape.status = "M" /\ UNCHANGED tape
  BY <1>1 DEF KeepsBlocks
<1>2. CASE TakesBlock(tape, tape')
  BY <1>2
<1>3. CASE tape.rest = <<>> /\ tape' = [tape EXCEPT !.status = "M"]
  BY <1>3 DEF Tape, KeepsBlocks
<1>4. CASE ReadFails
  <2>1. CASE tape' = [tape EXCEPT !.status = "E"]
    BY <2>1 DEF Tape, KeepsBlocks
  <2>2. ASSUME NEW n \in {tape.left, Head(tape.rest).left},
               tape' = [tape EXCEPT !.rest = Tail(@), !.left = n, !.status = "E"]
        PROVE  LosesBlock(tape, tape', n)
    <3>1. tape.rest # <<>>
      BY <1>4 DEF ReadFails
    <3>2. tape' = [rest |-> Tail(tape.rest), status |-> "E", left |-> n, word |-> tape.word]
      BY <2>2 DEF Tape
    <3> QED BY <2>2, <3>1, <3>2 DEF LosesBlock
  <2> QED BY <1>4, <2>1, <2>2 DEF ReadFails
<1> QED BY <1>1, <1>2, <1>3, <1>4 DEF tape_read_block, TakesBlock

LEMMA HeadParts ==
    ASSUME NEW t \in Tape, t.rest # <<>>, Whole(t.rest)
    PROVE  /\ Tail(t.rest) \in Seq(TapeBlock) /\ Whole(Tail(t.rest))
           /\ Head(t.rest).left \in 1 .. 255 /\ Head(t.rest).word \in Word
           /\ Head(t.rest).left = 1 => AtStart(Tail(t.rest))
<1>1. t.rest \in Seq(TapeBlock)
  BY TapeParts
<1>2. /\ Tail(t.rest) \in Seq(TapeBlock) /\ Whole(Tail(t.rest))
      /\ Head(t.rest) \in TapeBlock
      /\ Head(t.rest).left = 1 => AtStart(Tail(t.rest))
  BY <1>1, TailWhole
<1>3. Head(t.rest).left \in 1 .. 255 /\ Head(t.rest).word \in Word
  BY <1>2, BlockParts
<1> QED BY <1>2, <1>3

LEMMA BlockTaken ==
    ASSUME NEW t \in Tape, NEW v, Whole(t.rest), TakesBlock(t, v)
    PROVE  /\ v \in Tape /\ Whole(v.rest) /\ v.left \in 1 .. 255
           /\ v.left <= 1 => AtStart(v.rest)
<1> DEFINE h == Head(t.rest)
           r == Tail(t.rest)
<1>1. /\ r \in Seq(TapeBlock) /\ Whole(r) /\ h.left \in 1 .. 255 /\ h.word \in Word
      /\ h.left = 1 => AtStart(r)
  BY HeadParts DEF TakesBlock
<1>2. v = [rest |-> r, status |-> "ok", left |-> h.left, word |-> h.word]
  BY DEF TakesBlock
<1> HIDE DEF h, r
<1>3. v \in Tape
  BY <1>1, <1>2 DEF Tape
<1>4. v.rest = r /\ v.left = h.left
  BY <1>2
<1>5. v.left <= 1 => h.left = 1
  <2>1. h.left \in 1 .. 255
    BY <1>1
  <2>2. v.left = h.left
    BY <1>4
  <2> QED BY <2>1, <2>2
<1> QED BY <1>1, <1>3, <1>4, <1>5

LEMMA BlockLost ==
    ASSUME NEW t \in Tape, NEW v, NEW n, Whole(t.rest), LosesBlock(t, v, n)
    PROVE  /\ v \in Tape /\ Whole(v.rest)
           /\ t.left > 1 /\ v.left <= 1 => AtStart(v.rest)
<1> DEFINE h == Head(t.rest)
           r == Tail(t.rest)
<1>1. /\ r \in Seq(TapeBlock) /\ Whole(r) /\ h.left \in 1 .. 255 /\ h.word \in Word
      /\ h.left = 1 => AtStart(r)
  BY HeadParts DEF LosesBlock
<1>2. v = [rest |-> r, status |-> "E", left |-> n, word |-> t.word] /\ n \in {t.left, h.left}
  BY DEF LosesBlock
<1>3. t.left \in 0 .. 255 /\ t.word \in Word
  BY TapeParts
<1> HIDE DEF h, r
<1>4. n \in 0 .. 255
  <2>1. h.left \in 1 .. 255
    BY <1>1
  <2> QED BY <1>2, <1>3, <2>1
<1>5. v \in Tape
  BY <1>1, <1>2, <1>3, <1>4 DEF Tape
<1>6. v.rest = r /\ v.left = n
  BY <1>2
<1>7. t.left > 1 /\ n <= 1 => h.left = 1
  <2>1. h.left \in 1 .. 255
    BY <1>1
  <2> QED BY <1>2, <1>3, <2>1
<1> QED BY <1>1, <1>5, <1>6, <1>7

\* Whatever a call does, the tape keeps its shape.
LEMMA BlockRead ==
    ASSUME tape \in Tape, Whole(tape.rest), tape_read_block
    PROVE  /\ tape' \in Tape /\ Whole(tape'.rest)
           /\ tape.left > 1 /\ tape'.left <= 1 => AtStart(tape'.rest)
           /\ tape'.status = "ok" => TakesBlock(tape, tape')
<1>1. tape.left \in 0 .. 255
  BY TapeParts
<1>2. CASE TakesBlock(tape, tape')
  BY <1>2, BlockTaken
<1>3. CASE tape' \in Tape /\ KeepsBlocks(tape, tape')
  BY <1>1, <1>3 DEF KeepsBlocks
<1>4. ASSUME NEW n, LosesBlock(tape, tape', n)
      PROVE  /\ tape' \in Tape /\ Whole(tape'.rest) /\ tape'.status # "ok"
             /\ tape.left > 1 /\ tape'.left <= 1 => AtStart(tape'.rest)
  <2>1. tape'.status # "ok"
    BY <1>4 DEF LosesBlock
  <2> QED BY <1>4, <2>1, BlockLost
<1> QED BY <1>2, <1>3, <1>4, ReadOutcomes

\* The first block of a file is read.
LEMMA FirstRead ==
    ASSUME NEW a \in Tape, NEW v, Whole(a.rest), AtStart(a.rest), TakesBlock(a, v)
    PROVE  \E p \in Programs : Ahead(p, 1, v) /\ p[1] = v.word
<1>0. a.rest # <<>>
  BY DEF TakesBlock
<1>1. PICK t \in Seq(TapeBlock) : t = a.rest /\ t # <<>> /\ Whole(t)
  BY <1>0, TapeParts
<1>2. /\ Head(t) = t[1] /\ Len(t) \in Nat \ {0} /\ Len(Tail(t)) = Len(t) - 1
      /\ Tail(t) \in Seq(TapeBlock)
      /\ \A j \in 1 .. Len(t) - 1 : Tail(t)[j] = t[j + 1]
  BY <1>1, TailWhole
<1>3. PICK p \in Programs : FileAt(t, 1, p)
  BY <1>1 DEF AtStart
<1>4. p \in Seq(Word) /\ DOMAIN p = 1 .. Len(p) /\ Len(p) \in Nat \ {0}
  BY <1>3, GeometryAssumption, LenProperties, EmptySeq DEF FileAt
<1>5. v.rest = Tail(t) /\ v.left = t[1].left /\ v.word = t[1].word
  BY <1>1, <1>2 DEF TakesBlock
<1>6. DOMAIN t = 1 .. Len(t) /\ DOMAIN Tail(t) = 1 .. Len(t) - 1
  BY <1>2, LenProperties
<1>7. \A j \in 1 .. Len(p) : /\ j \in 1 .. Len(t)
                             /\ t[j] = [word |-> p[j], left |-> Len(p) - j + 1]
  <2>1. \A j \in 1 .. Len(p) : 1 + j - 1 = j
    BY <1>4
  <2> QED BY <1>3, <1>4, <1>6, <2>1 DEF FileAt
<1>8. t[1].left = Len(p) /\ t[1].word = p[1]
  <2>1. t[1] = [word |-> p[1], left |-> Len(p) - 1 + 1]
    BY <1>4, <1>7
  <2> QED BY <1>4, <2>1
<1>9. ASSUME NEW j \in 1 + 1 .. Len(p)
      PROVE  /\ j - 1 \in DOMAIN Tail(t)
             /\ Tail(t)[j - 1] = [word |-> p[j], left |-> Len(p) - j + 1]
  <2>1. j - 1 \in 1 .. Len(t) - 1 /\ (j - 1) + 1 = j /\ j \in 1 .. Len(p)
    <3>1. j \in 1 .. Len(p) /\ j - 1 \in Nat \ {0} /\ (j - 1) + 1 = j
      BY <1>4
    <3>2. j \in 1 .. Len(t)
      BY <1>7, <3>1
    <3> QED BY <1>2, <3>1, <3>2
  <2> QED BY <1>2, <1>6, <1>7, <2>1
<1>10. 1 \in 1 .. Len(p) /\ Len(p) = v.left + 1 - 1
  BY <1>4, <1>5, <1>8
<1>11. Ahead(p, 1, v)
  BY <1>5, <1>9, <1>10 DEF Ahead
<1> QED BY <1>5, <1>8, <1>11

\* The next block of a file is read.
LEMMA NextRead ==
    ASSUME NEW a \in Tape, NEW v, Whole(a.rest), a.left > 1, TakesBlock(a, v),
           NEW p \in Programs, NEW n \in Nat, Ahead(p, n, a)
    PROVE  /\ Ahead(p, n + 1, v)
           /\ v.word = p[n + 1]
           /\ n + 1 <= Len(p)
<1>0. a.rest # <<>>
  BY DEF TakesBlock
<1>1. PICK t \in Seq(TapeBlock), left \in 0 .. 255 :
         t = a.rest /\ t # <<>> /\ Whole(t) /\ left = a.left /\ left > 1
  BY <1>0, TapeParts
<1>2. /\ Head(t) = t[1] /\ Len(t) \in Nat \ {0} /\ Len(Tail(t)) = Len(t) - 1
      /\ Tail(t) \in Seq(TapeBlock)
      /\ \A j \in 1 .. Len(t) - 1 : Tail(t)[j] = t[j + 1]
  BY <1>1, TailWhole
<1>3. p \in Seq(Word) /\ Len(p) \in Nat
  BY GeometryAssumption, LenProperties
<1>4. v.rest = Tail(t) /\ v.left = t[1].left /\ v.word = t[1].word
  BY <1>1, <1>2 DEF TakesBlock
<1>5. DOMAIN t = 1 .. Len(t) /\ DOMAIN Tail(t) = 1 .. Len(t) - 1
  BY <1>2, LenProperties
<1>6. n \in 1 .. Len(p) /\ Len(p) = left + n - 1
  BY <1>1 DEF Ahead
<1>7. \A j \in n + 1 .. Len(p) : /\ j - n \in 1 .. Len(t)
                                 /\ t[j - n] = [word |-> p[j], left |-> Len(p) - j + 1]
  BY <1>1, <1>5 DEF Ahead
<1>8. n + 1 \in n + 1 .. Len(p) /\ (n + 1) - n = 1 /\ n + 1 \in 1 .. Len(p)
  BY <1>1, <1>3, <1>6
<1>9. t[1] = [word |-> p[n + 1], left |-> Len(p) - (n + 1) + 1]
  BY <1>7, <1>8
<1>10. ASSUME NEW j \in (n + 1) + 1 .. Len(p)
       PROVE  /\ j - (n + 1) \in DOMAIN Tail(t)
              /\ Tail(t)[j - (n + 1)] = [word |-> p[j], left |-> Len(p) - j + 1]
  <2>1. /\ j \in n + 1 .. Len(p) /\ j - (n + 1) \in Nat \ {0}
        /\ (j - (n + 1)) + 1 = j - n
    BY <1>3
  <2>2. j - n \in 1 .. Len(t)
    BY <1>7, <2>1
  <2>3. j - (n + 1) \in 1 .. Len(t) - 1
    BY <1>2, <2>1, <2>2
  <2> QED BY <1>2, <1>5, <1>7, <2>1, <2>3
<1>11. Len(p) = v.left + (n + 1) - 1 /\ v.word = p[n + 1]
  <2>1. v.left = Len(p) - (n + 1) + 1 /\ v.word = p[n + 1]
    BY <1>4, <1>9
  <2> QED BY <1>3, <2>1
<1>12. Ahead(p, n + 1, v)
  BY <1>4, <1>8, <1>10, <1>11 DEF Ahead
<1> QED BY <1>8, <1>11, <1>12

-----------------------------------------------------------------------------
(***************************************************************************)
(* The activation of main while a file is stored.                          *)
(***************************************************************************)
LEMMA UtilParts ==
    ASSUME NEW u \in Util
    PROVE  \/ u.pc \in {"off", "ask", "next", "offer", "skip"} /\ u = [pc |-> u.pc]
           \/ u.pc \in {"write", "entry", "more"} /\ u \in Storing
<1>1. CASE u \in Storing
  BY <1>1 DEF Storing
<1>2. CASE u \in [pc : {"off", "ask", "next", "offer", "skip"}]
  BY <1>2
<1> QED BY <1>1, <1>2 DEF Util

LEMMA StoringParts ==
    ASSUME NEW u \in Storing
    PROVE  /\ u.start \in Locs /\ u.at \in Locs \cup {NoLoc} /\ u.i \in Nat
           /\ u.total \in 1 .. 255 /\ u.data \in Seq(Word) /\ u.todo \in Seq(Cell \X Word)
           /\ u.pc \in {"write", "entry", "more"}
           /\ u = [pc |-> u.pc, start |-> u.start, at |-> u.at, i |-> u.i,
                   total |-> u.total, data |-> u.data, todo |-> u.todo]
BY DEF Storing

\* A step of the loop that only moves on in its writes.
MovesOn(u, q, w, v) == v = [pc |-> q, start |-> u.start, at |-> u.at, i |-> u.i,
                            total |-> u.total, data |-> u.data, todo |-> w]

LEMMA MovedOn ==
    ASSUME NEW u \in Storing, NEW q \in {"write", "entry", "more"}, NEW v,
           NEW w \in Seq(Cell \X Word), MovesOn(u, q, w, v)
    PROVE  /\ v \in Storing /\ v.pc = q /\ v.start = u.start /\ v.at = u.at /\ v.i = u.i
           /\ v.total = u.total /\ v.data = u.data /\ v.todo = w
<1>1. /\ u.start \in Locs /\ u.at \in Locs \cup {NoLoc} /\ u.i \in Nat
      /\ u.total \in 1 .. 255 /\ u.data \in Seq(Word)
  BY StoringParts
<1> QED BY <1>1 DEF MovesOn, Storing

LEMMA SmallMod ==
    ASSUME NEW n \in 1 .. 255, NEW i \in Nat, i < n
    PROVE  i % 256 = i /\ n % 256 = n /\ i \in 0 .. n
OBVIOUS

\* The header of a block fits its bytes.
LEMMA HeaderFits ==
    ASSUME NEW p \in Programs, NEW n \in 1 .. 255, n = Len(p), NEW i \in Nat, i < n
    PROVE  i + 256 * n \in Word
<1>0. i % 256 = i
  BY SmallMod
<1>a. n % 256 = n
  BY SmallMod
<1>1. i \in 0 .. n
  BY SmallMod
<1>2. Header(p, i) \in Word
  BY <1>1, WordAssumption
<1>3. Header(p, i) = (i % 256) + 256 * (n % 256)
  BY DEF Header
<1> QED BY <1>0, <1>a, <1>2, <1>3

\* The writes of copyblock.
LEMMA FourOrFive ==
    ASSUME NEW S, NEW a \in S, NEW b \in S, NEW c \in S, NEW d \in S, NEW e \in S
    PROVE  /\ <<a, b, c, d>> \o <<>> = <<a, b, c, d>>
           /\ <<a, b, c, d>> \o <<e>> = <<a, b, c, d, e>>
<1>1. <<a, b, c, d>> \in Seq(S)
  OBVIOUS
<1>2. <<a, b, c, d>> \o <<>> = <<a, b, c, d>>
  BY <1>1, ConcatEmptySeq
<1>3. <<a, b, c, d>> \o <<e>> = Append(<<a, b, c, d>>, e)
  <2> DEFINE s == <<a, b, c, d>>
  <2>1. s \in Seq(S)
    BY <1>1
  <2> HIDE DEF s
  <2> QED BY <2>1, AppendIsConcat
<1>4. Append(<<a, b, c, d>>, e) = <<a, b, c, d, e>>
  <2> DEFINE s == <<a, b, c, d>>
             t == <<a, b, c, d, e>>
  <2>1. /\ s \in Seq(S) /\ Len(s) = 4 /\ t \in Seq(S) /\ Len(t) = 5
        /\ t[5] = e /\ \A i \in 1 .. 4 : t[i] = s[i]
    BY <1>1
  <2> HIDE DEF s, t
  <2>c. s \in Seq(S)
    BY <2>1
  <2>a. /\ Append(s, e) \in Seq(S) /\ Len(Append(s, e)) = Len(s) + 1
        /\ \A i \in 1 .. Len(s) : Append(s, e)[i] = s[i]
    BY <2>c, AppendProperties
  <2>b. Append(s, e)[Len(s) + 1] = e
    BY <2>1, AppendProperties
  <2>2. /\ Append(s, e) \in Seq(S) /\ Len(Append(s, e)) = 5
        /\ Append(s, e)[5] = e /\ \A i \in 1 .. 4 : Append(s, e)[i] = s[i]
    BY <2>1, <2>a, <2>b
  <2>3. \A i \in 1 .. 5 : Append(s, e)[i] = t[i]
    BY <2>1, <2>2
  <2>4. Append(s, e) = t
    BY <2>1, <2>2, <2>3, SeqEqual
  <2> QED BY <2>4 DEF s, t
<1> QED BY <1>2, <1>3, <1>4

LEMMA CountIs ==
    ASSUME NEW i \in Nat
    PROVE  Count(i) \in {4, 5} /\ (Count(i) = 5 <=> i # 0)
BY DEF Count

\* w are the writes of copyblock for block l, the i-th of a file.
AreWrites(w, l, prev, i, hdr, word) ==
    w = <<<<UsedCell(l), USED>>, <<DataCell(l), word>>, <<HdrCell(l), hdr>>,
          <<CrcCell(l), Crc16(word)>>>> \o Link(prev, i, l)

LEMMA PartsOf ==
    ASSUME NEW i \in Nat, NEW a, NEW b, NEW c, NEW d, NEW e, NEW w,
           w = <<a, b, c, d>> \o (IF i = 0 THEN <<>> ELSE <<e>>)
    PROVE  /\ Len(w) = Count(i)
           /\ w[1] = a /\ w[2] = b /\ w[3] = c /\ w[4] = d
           /\ i # 0 => w[5] = e
<1> DEFINE S == {a, b, c, d, e}
<1>1. a \in S /\ b \in S /\ c \in S /\ d \in S /\ e \in S
  OBVIOUS
<1> HIDE DEF S
<1>2. <<a, b, c, d>> \o <<>> = <<a, b, c, d>>
  BY <1>1, FourOrFive
<1>3. <<a, b, c, d>> \o <<e>> = <<a, b, c, d, e>>
  BY <1>1, FourOrFive
<1>4. CASE i = 0
  <2>1. w = <<a, b, c, d>>
    BY <1>2, <1>4
  <2>2. Len(<<a, b, c, d>>) = 4
    OBVIOUS
  <2>3. w[1] = a /\ w[2] = b
    BY <2>1
  <2>4. w[3] = c /\ w[4] = d
    BY <2>1
  <2> QED BY <1>4, <2>1, <2>2, <2>3, <2>4 DEF Count
<1>5. CASE i # 0
  <2>1. w = <<a, b, c, d, e>>
    BY <1>3, <1>5
  <2>2. Len(<<a, b, c, d, e>>) = 5
    OBVIOUS
  <2>3. w[1] = a /\ w[2] = b
    BY <2>1
  <2>4. w[3] = c /\ w[4] = d
    BY <2>1
  <2>5. w[5] = e
    <3>1. <<a, b, c, d, e>>[5] = e
      OBVIOUS
    <3> QED BY <2>1, <3>1, Zenon
  <2> QED BY <1>5, <2>1, <2>2, <2>3, <2>4, <2>5 DEF Count
<1> QED BY <1>4, <1>5

LEMMA WritesAre ==
    ASSUME NEW i \in Nat, NEW l, NEW prev, NEW hdr, NEW word, NEW w,
           AreWrites(w, l, prev, i, hdr, word)
    PROVE  /\ w[1] = <<UsedCell(l), USED>>
           /\ w[2] = <<DataCell(l), word>>
           /\ w[3] = <<HdrCell(l), hdr>>
           /\ w[4] = <<CrcCell(l), Crc16(word)>>
           /\ i # 0 => w[5] = <<NextCell(prev), l>>
           /\ Len(w) = Count(i)
<1> DEFINE a == <<UsedCell(l), USED>>
           b == <<DataCell(l), word>>
           c == <<HdrCell(l), hdr>>
           d == <<CrcCell(l), Crc16(word)>>
           e == <<NextCell(prev), l>>
<1>1. w = <<a, b, c, d>> \o (IF i = 0 THEN <<>> ELSE <<e>>)
  BY DEF AreWrites, Link
<1> HIDE DEF a, b, c, d, e
<1>2. w[1] = a
  BY <1>1, PartsOf
<1>3. w[2] = b
  BY <1>1, PartsOf
<1>4. w[3] = c
  BY <1>1, PartsOf
<1>5. w[4] = d
  BY <1>1, PartsOf
<1>6. i # 0 => w[5] = e
  BY <1>1, PartsOf
<1>7. Len(w) = Count(i)
  BY <1>1, PartsOf
<1> QED BY <1>2, <1>3, <1>4, <1>5, <1>6, <1>7 DEF a, b, c, d, e

\* Which cells they are, and that their values fit.
LEMMA WritesFit ==
    ASSUME NEW l \in Locs, NEW prev \in Locs \cup {NoLoc}, NEW i \in Nat, i # 0 => prev \in Locs,
           NEW hdr \in Word, NEW word \in Word, NEW w, AreWrites(w, l, prev, i, hdr, word),
           NEW j \in 1 .. Count(i)
    PROVE  w[j] \in Cell \X Word
<1>1. /\ w[1] = <<UsedCell(l), USED>>
      /\ w[2] = <<DataCell(l), word>>
      /\ w[3] = <<HdrCell(l), hdr>>
      /\ w[4] = <<CrcCell(l), Crc16(word)>>
      /\ i # 0 => w[5] = <<NextCell(prev), l>>
  <2>1. w[1] = <<UsedCell(l), USED>>
    BY WritesAre
  <2>2. w[2] = <<DataCell(l), word>>
    BY WritesAre
  <2>3. w[3] = <<HdrCell(l), hdr>>
    BY WritesAre
  <2>4. w[4] = <<CrcCell(l), Crc16(word)>>
    BY WritesAre
  <2>5. i # 0 => w[5] = <<NextCell(prev), l>>
    BY WritesAre
  <2> QED BY <2>1, <2>2, <2>3, <2>4, <2>5
<1>2. {UsedCell(l), DataCell(l), HdrCell(l), CrcCell(l)} \subseteq Cell
  BY CellsOfLoc DEF Cell
<1>3. i # 0 => NextCell(prev) \in Cell
  BY CellsOfLoc DEF Cell
<1>4. USED \in Word /\ Crc16(word) \in Word /\ l \in Word
  BY WordAssumption DEF USED
<1>5. j \in 1 .. 5 /\ (i = 0 => j # 5)
  BY CountIs
<1>6. CASE j = 5
  BY <1>1, <1>3, <1>4, <1>5, <1>6
<1>7. CASE j \in {1, 2, 3, 4}
  <2>1. <<UsedCell(l), USED>> \in Cell \X Word /\ <<DataCell(l), word>> \in Cell \X Word
        /\ <<HdrCell(l), hdr>> \in Cell \X Word
        /\ <<CrcCell(l), Crc16(word)>> \in Cell \X Word
    BY <1>2, <1>4
  <2> QED BY <1>1, <1>7, <2>1
<1> QED BY <1>5, <1>6, <1>7

\* They go to different cells.
LEMMA WritesApart ==
    ASSUME NEW l, NEW prev, NEW i \in Nat, NEW hdr, NEW word,
           NEW w, AreWrites(w, l, prev, i, hdr, word),
           NEW j \in 1 .. Count(i), NEW k \in 1 .. Count(i), j # k
    PROVE  w[j][1] # w[k][1]
<1>1. /\ w[1] = <<UsedCell(l), USED>>
      /\ w[2] = <<DataCell(l), word>>
      /\ w[3] = <<HdrCell(l), hdr>>
      /\ w[4] = <<CrcCell(l), Crc16(word)>>
      /\ i # 0 => w[5] = <<NextCell(prev), l>>
  <2>1. w[1] = <<UsedCell(l), USED>>
    BY WritesAre
  <2>2. w[2] = <<DataCell(l), word>>
    BY WritesAre
  <2>3. w[3] = <<HdrCell(l), hdr>>
    BY WritesAre
  <2>4. w[4] = <<CrcCell(l), Crc16(word)>>
    BY WritesAre
  <2>5. i # 0 => w[5] = <<NextCell(prev), l>>
    BY WritesAre
  <2> QED BY <2>1, <2>2, <2>3, <2>4, <2>5
<1> DEFINE f == <<"used", "data", "hdr", "crc", "next">>
<1>2. ASSUME NEW m \in 1 .. Count(i) PROVE w[m][1][1] = f[m] /\ m \in 1 .. 5
  <2>1. m \in 1 .. 5 /\ (m = 5 => i # 0)
    BY CountIs
  <2> QED BY <1>1, <2>1 DEF UsedCell, DataCell, HdrCell, CrcCell, NextCell
<1>3. w[j][1][1] = f[j] /\ w[k][1][1] = f[k] /\ j \in 1 .. 5 /\ k \in 1 .. 5
  BY <1>2
<1>4. \A a, b \in 1 .. 5 : a # b => f[a] # f[b]
  OBVIOUS
<1> HIDE DEF f
<1> QED BY <1>3, <1>4

\* What is left of them after one more.
LEMMA TodoTail ==
    ASSUME NEW w, NEW c \in Nat, NEW k \in Nat, k < c, NEW S, NEW todo \in Seq(S),
           Left(todo, w, c, k)
    PROVE  /\ Len(todo) = c - k /\ todo[1] = w[k + 1]
           /\ Left(Tail(todo), w, c, k + 1)
           /\ Tail(todo) \in Seq(S)
<1>0. todo = [j \in 1 .. c - k |-> w[j + k]]
  BY DEF Left
<1>1. Len(todo) = c - k
  <2>1. DOMAIN todo = 1 .. c - k /\ c - k \in Nat
    BY <1>0
  <2> QED BY <2>1, LenProperties
<1>2. todo[1] = w[k + 1]
  <2>1. 1 \in 1 .. c - k
    OBVIOUS
  <2>2. todo[1] = w[1 + k]
    BY <1>0, <2>1
  <2> QED BY <2>2
<1>3. todo # <<>>
  BY <1>1
<1>4. /\ Tail(todo) \in Seq(S) /\ Len(Tail(todo)) = Len(todo) - 1
      /\ \A j \in 1 .. Len(todo) - 1 : Tail(todo)[j] = todo[j + 1]
  BY <1>3, HeadTailProperties
<1> DEFINE r == Tail(todo)
<1>5. PICK n \in Nat : n = c - (k + 1)
  OBVIOUS
<1>a. Len(todo) - 1 = n
  BY <1>1, <1>5
<1>6. r \in Seq(S) /\ Len(r) = n /\ \A j \in 1 .. n : r[j] = todo[j + 1]
  BY <1>4, <1>a
<1>7. ASSUME NEW j \in 1 .. n PROVE r[j] = w[j + (k + 1)]
  <2>1. j + 1 \in 1 .. c - k /\ (j + 1) + k = j + (k + 1)
    BY <1>5
  <2>2. todo[j + 1] = w[(j + 1) + k]
    BY <1>0, <2>1
  <2> QED BY <1>6, <2>1, <2>2
<1> HIDE DEF r
<1>8. r = [j \in 1 .. n |-> r[j]]
  BY <1>6, LenProperties
<1>9. r = [j \in 1 .. n |-> w[j + (k + 1)]]
  BY <1>7, <1>8
<1> QED BY <1>1, <1>2, <1>5, <1>6, <1>9 DEF r, Left

-----------------------------------------------------------------------------
(***************************************************************************)
(* One write of copyblock.                                                 *)
(***************************************************************************)
LEMMA FitsField ==
    ASSUME NEW f \in MetaFields \cup {"data"}, NEW l \in Locs, NEW v \in ValuesOf(f), v \in Word,
           NEW e, e = <<FieldCell(f, l), v>>
    PROVE  e[1] \in Cell /\ e[2] \in ValuesOf(e[1][1]) /\ e[2] \in Word
<1>1. FieldCell(f, l) \in Cell /\ FieldCell(f, l)[1] = f
  BY FieldIsCell
<1> QED BY <1>1

LEMMA WriteFits ==
    ASSUME NEW i \in Nat, NEW l \in Locs, NEW prev, i # 0 => prev \in Locs,
           NEW hdr \in Word, NEW word \in Word, NEW w, AreWrites(w, l, prev, i, hdr, word),
           NEW j \in 1 .. Count(i)
    PROVE  w[j][1] \in Cell /\ w[j][2] \in ValuesOf(w[j][1][1]) /\ w[j][2] \in Word
<1>1. j \in 1 .. 5 /\ (i = 0 => j # 5)
  BY CountIs
<1>2. USED \in Word /\ Crc16(word) \in Word /\ l \in Word
  BY WordAssumption DEF USED
<1>3. CASE j = 1
  <2>1. w[j] = <<FieldCell("used", l), USED>>
    BY <1>3, WritesAre, CellsAreFields
  <2> QED BY <1>2, <2>1, FitsField, FieldValues
<1>4. CASE j = 2
  <2>1. w[j] = <<FieldCell("data", l), word>>
    BY <1>4, WritesAre, CellsAreFields
  <2> QED BY <2>1, FitsField, FieldValues
<1>5. CASE j = 3
  <2>1. w[j] = <<FieldCell("hdr", l), hdr>>
    BY <1>5, WritesAre, CellsAreFields
  <2> QED BY <2>1, FitsField, FieldValues
<1>6. CASE j = 4
  <2>1. w[j] = <<FieldCell("crc", l), Crc16(word)>>
    BY <1>6, WritesAre, CellsAreFields
  <2> QED BY <1>2, <2>1, FitsField, FieldValues
<1>7. CASE j = 5
  <2>1. w[j] = <<FieldCell("next", prev), l>> /\ prev \in Locs
    BY <1>1, <1>7, WritesAre, CellsAreFields
  <2> QED BY <1>2, <2>1, FitsField, FieldValues
<1> QED BY <1>1, <1>3, <1>4, <1>5, <1>6, <1>7

LEMMA WriteGoesOn ==
    ASSUME NEW i \in Nat, NEW l \in Locs, NEW prev, i # 0 => prev \in Locs,
           NEW hdr \in Word, NEW word \in Word, NEW w, AreWrites(w, l, prev, i, hdr, word),
           NEW rom \in Memory, NEW k \in Nat, k < Count(i), Written(rom, w, Count(i), k),
           NEW new, SetTo(rom, w[k + 1][1], w[k + 1][2], new)
    PROVE  /\ new \in Memory /\ rom[w[k + 1][1]] = ERASED
           /\ Written(new, w, Count(i), k + 1)
<1>0. PICK n \in {4, 5} : n = Count(i)
  BY CountIs
<1>1. k + 1 \in 1 .. n /\ k < n
  BY <1>0
<1> DEFINE x == w[k + 1][1]
           v == w[k + 1][2]
<1>2. x \in Cell /\ v \in ValuesOf(x[1]) /\ SetTo(rom, x, v, new)
  BY <1>0, <1>1, WriteFits
<1>3. new \in Memory
  <2> HIDE DEF x, v
  <2> QED BY <1>2, SetCell
<1>4. new[x] = v /\ \A y \in Cell : y # x => new[y] = rom[y]
  <2> HIDE DEF x, v
  <2> QED BY <1>2, SetCell
<1>5. \A j \in 1 .. n : rom[w[j][1]] = IF j <= k THEN w[j][2] ELSE ERASED
  BY <1>0 DEF Written
<1>6. rom[x] = ERASED
  BY <1>1, <1>5
<1>7. ASSUME NEW j \in 1 .. n
      PROVE  new[w[j][1]] = IF j <= k + 1 THEN w[j][2] ELSE ERASED
  <2>1. CASE j = k + 1
    BY <1>4, <2>1
  <2>2. CASE j # k + 1
    <3>1. w[j][1] # x
      BY <1>0, <1>1, <2>2, WritesApart
    <3>2. w[j][1] \in Cell
      BY <1>0, WriteFits
    <3>3. new[w[j][1]] = rom[w[j][1]]
      BY <1>4, <3>1, <3>2
    <3> HIDE DEF x, v
    <3> QED BY <1>1, <1>5, <2>2, <3>3
  <2> QED BY <2>1, <2>2
<1>8. Written(new, w, Count(i), k + 1)
  BY <1>0, <1>7 DEF Written
<1> QED BY <1>3, <1>6, <1>8

\* All four writes to the block: it is filled.
LEMMA WritesFill ==
    ASSUME NEW i \in Nat, NEW l, NEW prev, NEW hdr, NEW word, NEW w,
           AreWrites(w, l, prev, i, hdr, word),
           NEW rom, NEW k \in Nat, k >= 4, Written(rom, w, Count(i), k)
    PROVE  /\ rom[UsedCell(l)] = USED
           /\ rom[DataCell(l)] = word
           /\ rom[HdrCell(l)] = hdr
           /\ rom[CrcCell(l)] = Crc16(word)
<1>0. PICK n \in {4, 5} : n = Count(i)
  BY CountIs
<1>1. \A j \in 1 .. 4 : rom[w[j][1]] = w[j][2]
  BY <1>0 DEF Written
<1>2. rom[w[1][1]] = w[1][2] /\ rom[w[2][1]] = w[2][2]
  BY <1>1
<1>3. rom[w[3][1]] = w[3][2] /\ rom[w[4][1]] = w[4][2]
  BY <1>1
<1>4. rom[UsedCell(l)] = USED
  <2>1. w[1] = <<UsedCell(l), USED>>
    BY WritesAre
  <2> QED BY <1>2, <2>1
<1>5. rom[DataCell(l)] = word
  <2>1. w[2] = <<DataCell(l), word>>
    BY WritesAre
  <2> QED BY <1>2, <2>1
<1>6. rom[HdrCell(l)] = hdr
  <2>1. w[3] = <<HdrCell(l), hdr>>
    BY WritesAre
  <2> QED BY <1>3, <2>1
<1>7. rom[CrcCell(l)] = Crc16(word)
  <2>1. w[4] = <<CrcCell(l), Crc16(word)>>
    BY WritesAre
  <2> QED BY <1>3, <2>1
<1> QED BY <1>4, <1>5, <1>6, <1>7

\* The blocks copied before are others than the one that is written.
LEMMA CopiedApart ==
    ASSUME NEW rom, NEW l, Fresh(rom, l), NEW n \in Nat, NEW u, NEW s, Copied(rom, s, n, u),
           n # 0 => u.start \in Starts(rom), NEW j \in 1 .. n
    PROVE  s[j] # l /\ s[j] \in Locs
<1>1. s \in [1 .. n -> Locs] /\ s[1] = u.start
  BY DEF Copied
<1>2. CASE j = 1
  <2>1. l \notin Starts(rom) /\ u.start \in Starts(rom)
    BY DEF Fresh
  <2> QED BY <1>1, <1>2, <2>1
<1>3. CASE j # 1
  <2>1. j - 1 \in 1 .. n - 1 /\ j - 1 \in 1 .. n /\ (j - 1) + 1 = j
    BY <1>3
  <2>2. rom[NextCell(s[j - 1])] = s[(j - 1) + 1] /\ s[j - 1] \in Locs
    BY <1>1, <2>1 DEF Copied
  <2>3. rom[NextCell(s[j - 1])] # l
    BY <2>2 DEF Fresh, Unlinked
  <2> QED BY <1>1, <2>1, <2>2, <2>3
<1> QED BY <1>2, <1>3

LEMMA CopiedKept ==
    ASSUME NEW rom, NEW new, NEW l, Fresh(rom, l), NEW n \in Nat, NEW u, NEW s,
           Copied(rom, s, n, u), n # 0 => u.start \in Starts(rom),
           \A k \in Locs \ {l} : SameBlock(rom, new, k)
    PROVE  Copied(new, s, n, u)
<1>1. \A j \in 1 .. n : SameBlock(rom, new, s[j])
  BY CopiedApart
<1>2. \A j \in 1 .. n : Filled(new, s[j], j, u.total, u.data[j])
  BY <1>1 DEF Copied, Filled, SameBlock
<1>3. \A j \in 1 .. n - 1 : new[NextCell(s[j])] = s[j + 1]
  BY <1>1 DEF Copied, SameBlock
<1> QED BY <1>2, <1>3 DEF Copied

\* A write to the block itself: what it leaves of the rest of the chip.
OnlyBlock(rom, new, l) ==
    /\ ChipIInv(new) /\ FilesOn(new) = FilesOn(rom)
    /\ Starts(new) = Starts(rom) /\ Fresh(new, l)
    /\ \A m \in Locs \ {l} : SameBlock(rom, new, m)
    /\ \A m \in Locs : new[NextCell(m)] = rom[NextCell(m)]

LEMMA OnlyField ==
    ASSUME NEW rom \in Memory, NEW l \in Locs, Fresh(rom, l),
           NEW f \in {"used", "crc", "hdr", "data"}, NEW v \in ValuesOf(f),
           NEW new, SetTo(rom, FieldCell(f, l), v, new),
           ChipIInv(new), FilesOn(new) = FilesOn(rom)
    PROVE  OnlyBlock(rom, new, l)
<1>1. f \in MetaFields \cup {"data"} /\ f # "next"
  BY DEF MetaFields
<1>2. /\ Starts(new) = Starts(rom)
      /\ \A k \in Locs :
            /\ new[NextCell(k)] = rom[NextCell(k)]
            /\ k # l => new[UsedCell(k)] = rom[UsedCell(k)]
            /\ k # l => new[CrcCell(k)] = rom[CrcCell(k)]
            /\ k # l => new[HdrCell(k)] = rom[HdrCell(k)]
            /\ k # l => new[DataCell(k)] = rom[DataCell(k)]
  <2>1. Starts(new) = Starts(rom)
    BY <1>1, WriteCell
  <2>2. ASSUME NEW k \in Locs
        PROVE  /\ new[NextCell(k)] = rom[NextCell(k)]
               /\ k # l => new[UsedCell(k)] = rom[UsedCell(k)]
               /\ k # l => new[CrcCell(k)] = rom[CrcCell(k)]
               /\ k # l => new[HdrCell(k)] = rom[HdrCell(k)]
               /\ k # l => new[DataCell(k)] = rom[DataCell(k)]
    BY <1>1, WriteCell
  <2> QED BY <2>1, <2>2
<1>3. \A m \in Locs \ {l} : SameBlock(rom, new, m)
  BY <1>2 DEF SameBlock
<1>4. Fresh(new, l)
  BY <1>2 DEF Fresh, Unlinked
<1> QED BY <1>2, <1>3, <1>4 DEF OnlyBlock

LEMMA WriteToBlock ==
    ASSUME NEW i \in Nat, NEW l \in Locs, NEW prev, NEW hdr \in Word, NEW word \in Word,
           NEW w, AreWrites(w, l, prev, i, hdr, word),
           NEW rom \in Memory, ChipIInv(rom), Fresh(rom, l),
           NEW k \in 0 .. 3, Written(rom, w, Count(i), k),
           k = 0 => \A m \in Locs : m < l => rom[UsedCell(m)] = USED,
           NEW new, SetTo(rom, w[k + 1][1], w[k + 1][2], new)
    PROVE  OnlyBlock(rom, new, l)
<1>0. PICK n \in {4, 5} : n = Count(i)
  BY CountIs
<1>1. rom[UsedCell(l)] = IF k = 0 THEN ERASED ELSE USED
  <2>1. rom[w[1][1]] = IF 1 <= k THEN w[1][2] ELSE ERASED
    BY <1>0 DEF Written
  <2>2. w[1] = <<UsedCell(l), USED>>
    BY WritesAre
  <2> QED BY <2>1, <2>2
<1>2. USED \in ValuesOf("used") /\ Crc16(word) \in Word
  BY FieldValues, WordAssumption
<1>3. CASE k = 0
  <2>1. w[1] = <<UsedCell(l), USED>>
    BY WritesAre
  <2>2. SetTo(rom, UsedCell(l), USED, new)
    BY <1>3, <2>1
  <2>3. ChipIInv(new) /\ FilesOn(new) = FilesOn(rom)
    BY <1>1, <1>3, <2>2, MarkUsed
  <2>4. SetTo(rom, FieldCell("used", l), USED, new)
    BY <2>2, CellsAreFields
  <2> QED BY <1>2, <2>3, <2>4, OnlyField
<1>4. ASSUME NEW f \in {"crc", "hdr", "data"}, NEW v \in Word, k # 0,
             SetTo(rom, FieldCell(f, l), v, new)
      PROVE  OnlyBlock(rom, new, l)
  <2>1. ChipIInv(new)
    BY <1>1, <1>4, FillField
  <2>2. FilesOn(new) = FilesOn(rom)
    BY <1>1, <1>4, FillField
  <2>3. v \in ValuesOf(f)
    BY FieldValues
  <2> QED BY <1>4, <2>1, <2>2, <2>3, OnlyField
<1>5. CASE k = 1
  <2>1. w[2] = <<FieldCell("data", l), word>>
    BY WritesAre, CellsAreFields
  <2> QED BY <1>4, <1>5, <2>1
<1>6. CASE k = 2
  <2>1. w[3] = <<FieldCell("hdr", l), hdr>>
    BY WritesAre, CellsAreFields
  <2> QED BY <1>4, <1>6, <2>1
<1>7. CASE k = 3
  <2>1. w[4] = <<FieldCell("crc", l), Crc16(word)>>
    BY WritesAre, CellsAreFields
  <2> QED BY <1>2, <1>4, <1>7, <2>1
<1> QED BY <1>3, <1>5, <1>6, <1>7

\* The activation while block u.at is written: its parts.
LEMMA WritingParts ==
    ASSUME NEW rom, NEW u \in Storing, NEW s, NEW k, Writing(rom, u, s, k),
           NEW prev, prev = (IF u.i = 0 THEN NoLoc ELSE s[u.i]),
           NEW w, w = WritesOf(u, s)
    PROVE  /\ AreWrites(w, u.at, prev, u.i, u.i + 256 * u.total, u.data[u.i + 1])
           /\ Copied(rom, s, u.i, u) /\ u.at \in Locs /\ Fresh(rom, u.at)
           /\ u.i = 0 => u.start = u.at
           /\ u.i # 0 => u.start \in Starts(rom) /\ prev < u.at /\ prev \in Locs
           /\ k < Count(u.i)
           /\ Left(u.todo, w, Count(u.i), k)
           /\ Written(rom, w, Count(u.i), k)
           /\ k = 0 => \A l \in Locs : l < u.at => rom[UsedCell(l)] = USED
<1>1. AreWrites(w, u.at, prev, u.i, u.i + 256 * u.total, u.data[u.i + 1])
  BY DEF AreWrites, WritesOf, Writes
<1>2. Copied(rom, s, u.i, u) /\ u.at \in Locs /\ Fresh(rom, u.at)
  BY DEF Writing
<1>3. u.i = 0 => u.start = u.at
  BY DEF Writing
<1>4. u.i # 0 => u.start \in Starts(rom) /\ prev < u.at
  BY DEF Writing
<1>5. u.i # 0 => prev \in Locs
  <2>1. PICK i \in Nat : i = u.i
    BY StoringParts
  <2>2. s \in [1 .. i -> Locs]
    BY <1>2, <2>1 DEF Copied
  <2>3. i # 0 => i \in 1 .. i
    OBVIOUS
  <2> QED BY <2>1, <2>2, <2>3
<1>6. /\ k < Count(u.i)
      /\ Left(u.todo, w, Count(u.i), k)
      /\ Written(rom, w, Count(u.i), k)
  BY DEF Writing
<1>7. k = 0 => \A l \in Locs : l < u.at => rom[UsedCell(l)] = USED
  BY DEF Writing
<1> QED BY <1>1, <1>2, <1>3, <1>4, <1>5, <1>6, <1>7

LEMMA CopiedSame ==
    ASSUME NEW rom, NEW s, NEW n, NEW u, NEW v, Copied(rom, s, n, u),
           v.start = u.start, v.total = u.total,
           \A j \in 1 .. n : v.data[j] = u.data[j]
    PROVE  Copied(rom, s, n, v)
BY DEF Copied

\* The first write of those that are left.
LEMMA NextTodo ==
    ASSUME NEW rom, NEW u \in Storing, NEW s, NEW k \in Nat, Writing(rom, u, s, k)
    PROVE  /\ Len(u.todo) = Count(u.i) - k
           /\ u.todo[1] = WritesOf(u, s)[k + 1]
           /\ Left(Tail(u.todo), WritesOf(u, s), Count(u.i), k + 1)
           /\ Tail(u.todo) \in Seq(Cell \X Word)
<1> DEFINE S == Cell \X Word
<1>1. u.i \in Nat /\ u.todo \in Seq(S)
  BY StoringParts
<1>2. Count(u.i) \in Nat
  BY <1>1, CountIs
<1> HIDE DEF S
<1>a. PICK c \in Nat : c = Count(u.i)
  BY <1>2
<1>b. PICK todo \in Seq(S) : todo = u.todo
  BY <1>1
<1>c. PICK w : w = WritesOf(u, s)
  OBVIOUS
<1>3. c = Count(u.i) /\ w = WritesOf(u, s) /\ todo = u.todo
  BY <1>a, <1>b, <1>c
<1>4. k < c /\ Left(todo, w, c, k)
  <2>1. k < Count(u.i)
    BY DEF Writing
  <2>2. Left(u.todo, WritesOf(u, s), Count(u.i), k)
    BY DEF Writing
  <2>3. k < c
    BY <1>a, <2>1
  <2>4. Left(todo, w, c, k)
    BY <1>a, <1>b, <1>c, <2>2
  <2> QED BY <2>3, <2>4
<1>5. Len(todo) = c - k
  <2>1. todo = [j \in 1 .. c - k |-> w[j + k]]
    BY <1>4 DEF Left
  <2>2. DOMAIN todo = 1 .. c - k /\ c - k \in Nat
    BY <1>4, <2>1
  <2> QED BY <2>2, LenProperties
<1>6. todo[1] = w[k + 1]
  BY <1>4, TodoTail
<1>7. Left(Tail(todo), w, c, k + 1)
  BY <1>4, TodoTail
<1>8. Tail(todo) \in Seq(S)
  BY <1>4, TodoTail
<1> QED BY <1>3, <1>5, <1>6, <1>7, <1>8 DEF S

LEMMA GoOnWriting ==
    ASSUME NEW rom \in Memory, ChipIInv(rom), NEW u \in Storing, NEW s, NEW k \in Nat,
           Writing(rom, u, s, k), k + 1 < Count(u.i),
           u.data[u.i + 1] \in Word, u.i + 256 * u.total \in Word,
           NEW new, SetTo(rom, u.todo[1][1], u.todo[1][2], new),
           NEW v, MovesOn(u, "write", Tail(u.todo), v)
    PROVE  /\ new \in Memory /\ OnlyBlock(rom, new, u.at)
           /\ v \in Storing /\ Writing(new, v, s, k + 1)
<1>y. PICK i \in Nat, c \in {4, 5} : i = u.i /\ c = Count(i)
  BY StoringParts, CountIs
<1>1. PICK l, prev, hdr, word, w :
         /\ i = u.i /\ c = Count(i) /\ l = u.at /\ w = WritesOf(u, s)
         /\ prev = (IF u.i = 0 THEN NoLoc ELSE s[u.i])
         /\ hdr = u.i + 256 * u.total /\ word = u.data[u.i + 1]
  BY <1>y
<1>2. AreWrites(w, l, prev, i, hdr, word)
  BY <1>1, WritingParts
<1>3. l \in Locs /\ hdr \in Word /\ word \in Word
  BY <1>1, WritingParts
<1>4. Fresh(rom, l) /\ Copied(rom, s, i, u)
  BY <1>1, WritingParts
<1>5. i # 0 => prev \in Locs
  BY <1>1, WritingParts
<1>6. Written(rom, w, c, k)
  BY <1>1, WritingParts
<1>7. k = 0 => \A m \in Locs : m < l => rom[UsedCell(m)] = USED
  BY <1>1, WritingParts
<1>8. SetTo(rom, w[k + 1][1], w[k + 1][2], new)
  <2>1. u.todo[1] = WritesOf(u, s)[k + 1]
    BY NextTodo
  <2> QED BY <1>1, <2>1
<1>9. k \in 0 .. 3 /\ k < c
  BY <1>1
<1>10. OnlyBlock(rom, new, l)
  BY <1>1, <1>2, <1>3, <1>4, <1>6, <1>7, <1>8, <1>9, WriteToBlock
<1>11. new \in Memory
  BY <1>1, <1>2, <1>3, <1>5, <1>6, <1>8, <1>9, WriteGoesOn
<1>12. Written(new, w, c, k + 1)
  BY <1>1, <1>2, <1>3, <1>5, <1>6, <1>8, <1>9, WriteGoesOn
<1>13. Tail(u.todo) \in Seq(Cell \X Word)
  BY NextTodo
<1>14. /\ v \in Storing /\ v.start = u.start /\ v.at = u.at /\ v.i = u.i
       /\ v.total = u.total /\ v.data = u.data /\ v.todo = Tail(u.todo)
  <2> DEFINE r == Tail(u.todo)
  <2>1. MovesOn(u, "write", r, v) /\ r \in Seq(Cell \X Word)
    BY <1>13
  <2> HIDE DEF r
  <2>2. v \in Storing
    BY <2>1, MovedOn
  <2>3. v.start = u.start /\ v.at = u.at /\ v.i = u.i
    BY <2>1, MovedOn
  <2>4. v.total = u.total /\ v.data = u.data /\ v.todo = r
    BY <2>1, MovedOn
  <2> QED BY <2>2, <2>3, <2>4 DEF r
<1>15. Left(v.todo, w, c, k + 1)
  <2>1. Left(Tail(u.todo), WritesOf(u, s), Count(u.i), k + 1)
    BY NextTodo
  <2> QED BY <1>1, <1>14, <2>1
<1>16. i # 0 => u.start \in Starts(rom) /\ prev < l
  BY <1>1, WritingParts
<1>17. i = 0 => u.start = l
  BY <1>1, WritingParts
<1>18. Copied(new, s, i, v)
  <2>1. \A m \in Locs \ {l} : SameBlock(rom, new, m)
    BY <1>10 DEF OnlyBlock
  <2>2. Copied(new, s, i, u)
    BY <1>4, <1>16, <2>1, CopiedKept
  <2> QED BY <1>14, <2>2, CopiedSame
<1>19. Starts(new) = Starts(rom) /\ Fresh(new, l)
  BY <1>10 DEF OnlyBlock
<1>20. WritesOf(v, s) = w
  BY <1>1, <1>14 DEF WritesOf
<1>21. k + 1 < c /\ k + 1 # 0
  BY <1>1
<1>22. Writing(new, v, s, k + 1)
  <2>1. v.i = i /\ v.at = l /\ v.start = u.start /\ Count(v.i) = c
    BY <1>1, <1>14
  <2>2. IF v.i = 0 THEN v.start = v.at ELSE v.start \in Starts(new) /\ s[v.i] < v.at
    BY <1>1, <1>16, <1>17, <1>19, <2>1
  <2> QED BY <1>3, <1>12, <1>15, <1>18, <1>19, <1>20, <1>21, <2>1, <2>2 DEF Writing
<1> QED BY <1>1, <1>10, <1>11, <1>14, <1>22

\* The first block of a file is written.
LEMMA FirstWritten ==
    ASSUME NEW rom \in Memory, ChipIInv(rom), NEW u \in Storing, NEW s, NEW k \in Nat,
           Writing(rom, u, s, k), k + 1 = Count(u.i), u.i = 0,
           u.data[u.i + 1] \in Word, u.i + 256 * u.total \in Word,
           NEW new, SetTo(rom, u.todo[1][1], u.todo[1][2], new)
    PROVE  /\ new \in Memory /\ OnlyBlock(rom, new, u.at) /\ u.at = u.start
           /\ Filled(new, u.start, 1, u.total, u.data[1])
<1>a. PICK total \in 1 .. 255 : total = u.total
  BY StoringParts
<1>y. PICK i \in Nat, c \in {4, 5} : i = u.i /\ c = Count(i)
  BY StoringParts, CountIs
<1>b. PICK l, prev, hdr, word, w :
         /\ i = u.i /\ c = Count(i) /\ l = u.at /\ w = WritesOf(u, s)
         /\ prev = (IF u.i = 0 THEN NoLoc ELSE s[u.i])
         /\ hdr = u.i + 256 * u.total /\ word = u.data[u.i + 1]
  BY <1>y
<1>1. /\ i = u.i /\ c = Count(i) /\ l = u.at /\ w = WritesOf(u, s)
      /\ prev = (IF u.i = 0 THEN NoLoc ELSE s[u.i]) /\ total \in Nat
      /\ hdr = u.i + 256 * total /\ word = u.data[u.i + 1] /\ total = u.total
  BY <1>a, <1>b
<1>2. AreWrites(w, l, prev, i, hdr, word)
  BY <1>1, WritingParts
<1>3. l \in Locs /\ hdr \in Word /\ word \in Word
  BY <1>1, WritingParts
<1>4. Fresh(rom, l) /\ u.start = l
  BY <1>1, WritingParts
<1>5. i = 0
  BY <1>1
<1>6. Written(rom, w, c, k)
  BY <1>1, WritingParts
<1>8. SetTo(rom, w[k + 1][1], w[k + 1][2], new)
  <2>1. u.todo[1] = WritesOf(u, s)[k + 1]
    BY NextTodo
  <2> QED BY <1>1, <2>1
<1>9. k = 3 /\ k \in 0 .. 3 /\ k < c
  <2>1. k + 1 = c
    BY <1>1
  <2>2. c = 4
    BY <1>1, <1>5 DEF Count
  <2> QED BY <2>1, <2>2
<1>10. OnlyBlock(rom, new, l)
  BY <1>1, <1>2, <1>3, <1>4, <1>6, <1>8, <1>9, WriteToBlock
<1>11. new \in Memory
  BY <1>1, <1>2, <1>3, <1>5, <1>6, <1>8, <1>9, WriteGoesOn
<1>12. Written(new, w, c, k + 1)
  BY <1>1, <1>2, <1>3, <1>5, <1>6, <1>8, <1>9, WriteGoesOn
<1>13. Filled(new, l, i + 1, total, word)
  <2>1. PICK m \in Nat : m = k + 1 /\ m >= 4
    BY <1>9
  <2>2. hdr = (i + 1 - 1) + 256 * total
    <3>1. i \in Nat /\ hdr = i + 256 * total
      BY <1>1
    <3> QED BY <3>1
  <2>3. Written(new, w, Count(i), m)
    BY <1>1, <1>12, <2>1
  <2>4. new[UsedCell(l)] = USED /\ new[DataCell(l)] = word
    BY <1>2, <2>1, <2>3, WritesFill
  <2>5. new[HdrCell(l)] = hdr /\ new[CrcCell(l)] = Crc16(word)
    BY <1>2, <2>1, <2>3, WritesFill
  <2> QED BY <2>2, <2>4, <2>5 DEF Filled
<1>14. i + 1 = 1 /\ u.i + 1 = 1
  BY <1>5
<1> QED BY <1>1, <1>4, <1>10, <1>11, <1>13, <1>14

\* A later block of a file is linked to the one before.
LEMMA NowLinked ==
    ASSUME NEW rom \in Memory, ChipIInv(rom), NEW u \in Storing, NEW s, NEW k \in Nat,
           Writing(rom, u, s, k), k + 1 = Count(u.i), u.i # 0, u.i < u.total,
           u.data[u.i + 1] \in Word, u.i + 256 * u.total \in Word,
           NEW new, SetTo(rom, u.todo[1][1], u.todo[1][2], new)
    PROVE  /\ new \in Memory /\ ChipIInv(new)
           /\ Stored(new, u.i + 1, u, u.at)
           /\ u.start \in Starts(new) /\ new[NextCell(u.at)] = NoLoc
           /\ Grows(rom, new, u.i + 1, u)
           /\ \E p \in Locs : rom[NextCell(p)] = NoLoc /\ SetTo(rom, NextCell(p), u.at, new)
<1>a. PICK total \in 1 .. 255 : total = u.total
  BY StoringParts
<1>y. PICK i \in Nat, c \in {4, 5} : i = u.i /\ c = Count(i)
  BY StoringParts, CountIs
<1>b. PICK l, prev, hdr, word, w :
         /\ i = u.i /\ c = Count(i) /\ l = u.at /\ w = WritesOf(u, s)
         /\ prev = (IF u.i = 0 THEN NoLoc ELSE s[u.i])
         /\ hdr = u.i + 256 * u.total /\ word = u.data[u.i + 1]
  BY <1>y
<1>1. /\ i = u.i /\ c = Count(i) /\ l = u.at /\ w = WritesOf(u, s)
      /\ prev = s[i] /\ total \in Nat
      /\ hdr = u.i + 256 * total /\ word = u.data[u.i + 1] /\ total = u.total
  BY <1>a, <1>b
<1>c. prev = (IF u.i = 0 THEN NoLoc ELSE s[u.i])
  BY <1>b
<1>2. AreWrites(w, l, prev, i, hdr, word)
  BY <1>1, <1>c, WritingParts
<1>3. l \in Locs /\ hdr \in Word /\ word \in Word
  BY <1>1, WritingParts
<1>4. Fresh(rom, l) /\ Copied(rom, s, i, u)
  BY <1>1, WritingParts
<1>5. u.start \in Starts(rom) /\ prev < l /\ prev \in Locs
  BY <1>1, <1>c, WritingParts
<1>6. Written(rom, w, c, k)
  BY <1>1, WritingParts
<1>7. i # 0 /\ i \in Nat \ {0} /\ i < total
  BY <1>1
<1>8. SetTo(rom, w[k + 1][1], w[k + 1][2], new)
  <2>1. u.todo[1] = WritesOf(u, s)[k + 1]
    BY NextTodo
  <2> QED BY <1>1, <2>1
<1>9. k = 4 /\ c = 5
  <2>1. k + 1 = c
    BY <1>1
  <2>2. c = 5
    BY <1>1, <1>7 DEF Count
  <2> QED BY <2>1, <2>2
<1>10. w[5] = <<NextCell(prev), l>>
  BY <1>2, <1>7, WritesAre
<1>11. SetTo(rom, NextCell(prev), l, new)
  <2>1. k + 1 = 5
    BY <1>9
  <2>2. SetTo(rom, w[5][1], w[5][2], new)
    BY <1>8, <2>1
  <2> QED BY <1>10, <2>2
<1>12. new \in Memory
  <2>1. k < c
    BY <1>9
  <2>2. k < Count(i) /\ Written(rom, w, Count(i), k)
    BY <1>1, <1>6, <2>1
  <2> QED BY <1>2, <1>3, <1>5, <1>8, <2>2, WriteGoesOn
<1>13. Filled(rom, l, i + 1, total, word)
  <2>1. hdr = (i + 1 - 1) + 256 * total
    <3>1. i \in Nat /\ hdr = i + 256 * total
      BY <1>1
    <3> QED BY <3>1
  <2>2. PICK m \in Nat : m = k /\ m >= 4
    BY <1>9
  <2>3. Written(rom, w, Count(i), m)
    BY <1>1, <1>6, <2>2
  <2>4. rom[UsedCell(l)] = USED /\ rom[DataCell(l)] = word
    BY <1>2, <2>2, <2>3, WritesFill
  <2>5. rom[HdrCell(l)] = hdr /\ rom[CrcCell(l)] = Crc16(word)
    BY <1>2, <2>2, <2>3, WritesFill
  <2> QED BY <2>1, <2>4, <2>5 DEF Filled
<1>14. rom[NextCell(prev)] = NoLoc
  <2>1. rom[w[5][1]] = ERASED
    BY <1>6, <1>9 DEF Written
  <2> QED BY <1>10, <2>1 DEF NoLoc
<1>15. /\ Filled(rom, l, i + 1, u.total, u.data[i + 1])
       /\ u.total \in Nat /\ i < u.total
  BY <1>1, <1>7, <1>13
<1>16. /\ rom[NextCell(s[i])] = NoLoc /\ s[i] < l
       /\ SetTo(rom, NextCell(s[i]), l, new)
  BY <1>1, <1>5, <1>11, <1>14
<1>17. ChipIInv(new) /\ Stored(new, i + 1, u, l)
  BY <1>3, <1>4, <1>5, <1>7, <1>15, <1>16, LinkFiles
<1>18. u.start \in Starts(new) /\ new[NextCell(l)] = NoLoc /\ Grows(rom, new, i + 1, u)
  BY <1>3, <1>4, <1>5, <1>7, <1>15, <1>16, LinkFiles
<1>19. \E p \in Locs : rom[NextCell(p)] = NoLoc /\ SetTo(rom, NextCell(p), u.at, new)
  BY <1>1, <1>5, <1>11, <1>14
<1> QED BY <1>1, <1>12, <1>17, <1>18, <1>19

-----------------------------------------------------------------------------
(***************************************************************************)
(* copyblock takes the first free block.                                   *)
(***************************************************************************)
\* The writes are a sequence, none of which is made yet.
LEMMA NothingWritten ==
    ASSUME NEW i \in Nat, NEW l \in Locs, NEW prev \in Locs \cup {NoLoc},
           i # 0 => prev \in Locs, NEW hdr \in Word, NEW word \in Word,
           NEW w, AreWrites(w, l, prev, i, hdr, word),
           NEW rom, FreeIsErased(rom), rom[UsedCell(l)] = ERASED,
           i # 0 => rom[NextCell(prev)] = NoLoc
    PROVE  /\ w \in Seq(Cell \X Word)
           /\ Left(w, w, Count(i), 0)
           /\ Written(rom, w, Count(i), 0)
<1> DEFINE S == Cell \X Word
           a == <<UsedCell(l), USED>>
           b == <<DataCell(l), word>>
           c == <<HdrCell(l), hdr>>
           d == <<CrcCell(l), Crc16(word)>>
           e == <<NextCell(prev), l>>
<1>1. w = <<a, b, c, d>> \o (IF i = 0 THEN <<>> ELSE <<e>>)
  BY DEF AreWrites, Link
<1>2. w[1] = a /\ w[2] = b /\ w[3] = c /\ w[4] = d
  BY WritesAre
<1>3. i # 0 => w[5] = e
  BY WritesAre
<1>4. Count(i) \in {4, 5} /\ (Count(i) = 5 <=> i # 0)
  BY CountIs
<1>5. \A j \in 1 .. Count(i) : w[j] \in S
  BY WritesFit
<1>6. \A j \in 1 .. Count(i) : rom[w[j][1]] = ERASED
  <2>1. /\ rom[a[1]] = ERASED /\ rom[b[1]] = ERASED /\ rom[c[1]] = ERASED
        /\ rom[d[1]] = ERASED
    BY DEF FreeIsErased
  <2>2. i # 0 => rom[e[1]] = ERASED
    BY DEF NoLoc
  <2> HIDE DEF a, b, c, d, e
  <2>3. ASSUME NEW j \in 1 .. Count(i)
        PROVE  rom[w[j][1]] = ERASED
    <3>1. j \in {1, 2, 3, 4} \/ (j = 5 /\ i # 0)
      BY <1>4
    <3> QED BY <1>2, <1>3, <2>1, <2>2, <3>1
  <2> QED BY <2>3
<1> HIDE DEF S, a, b, c, d, e
<1>7. w \in Seq(S) /\ Len(w) = Count(i)
  <2>1. a \in S /\ b \in S /\ c \in S /\ d \in S
    BY <1>2, <1>4, <1>5
  <2>2. CASE i = 0
    <3>1. w = <<a, b, c, d>>
      BY <1>1, <2>1, <2>2, FourOrFive
    <3>2. <<a, b, c, d>> \in Seq(S) /\ Len(<<a, b, c, d>>) = 4
      BY <2>1
    <3> QED BY <1>4, <2>2, <3>1, <3>2
  <2>3. CASE i # 0
    <3>1. e \in S
      BY <1>3, <1>4, <1>5, <2>3
    <3>2. w = <<a, b, c, d, e>>
      BY <1>1, <2>1, <2>3, <3>1, FourOrFive
    <3>3. <<a, b, c, d, e>> \in Seq(S) /\ Len(<<a, b, c, d, e>>) = 5
      BY <2>1, <3>1
    <3> QED BY <1>4, <2>3, <3>2, <3>3
  <2> QED BY <2>2, <2>3
<1>8. Left(w, w, Count(i), 0)
  <2>1. PICK n \in Nat : n = Count(i)
    BY <1>4
  <2>2. w = [j \in 1 .. n |-> w[j]]
    BY <1>7, <2>1, LenProperties
  <2>3. n - 0 = n /\ \A j \in 1 .. n : j + 0 = j
    OBVIOUS
  <2>4. w = [j \in 1 .. n - 0 |-> w[j + 0]]
    BY <2>2, <2>3
  <2> QED BY <2>1, <2>4 DEF Left
<1>9. Written(rom, w, Count(i), 0)
  <2>1. \A j \in 1 .. Count(i) : ~(j <= 0)
    BY <1>4
  <2> QED BY <1>6, <2>1 DEF Written
<1> QED BY <1>7, <1>8, <1>9 DEF S

\* What copyblock makes of the utility when it has found block l.
Begins(v, l, prev, start, i, total, data) ==
    v = [pc |-> "write", start |-> start, at |-> l, i |-> i, total |-> total,
         data |-> data, todo |-> Writes(l, prev, i, total, data[Len(data)])]

\* Nothing leads to a free block, and those before it are used.
LEMMA FreeIsFresh ==
    ASSUME NEW rom \in Memory, ChipIInv(rom), NEW l \in Locs, rom[UsedCell(l)] = ERASED
    PROVE  /\ Fresh(rom, l)
           /\ \A p \in Locs : rom[UsedCell(p)] = USED => p < l
<1>0. USED # ERASED /\ l # NoLoc
  BY FieldValues, LocParts
<1>1. Unlinked(rom, l)
  BY <1>0 DEF Unlinked, ChipIInv, NamesUsed
<1>2. l \notin Starts(rom)
  BY <1>0 DEF ChipIInv, NamesUsed
<1>3. rom[NextCell(l)] = NoLoc
  BY DEF ChipIInv, FreeIsErased, NoLoc
<1>4. ASSUME NEW p \in Locs, rom[UsedCell(p)] = USED
      PROVE  p < l
  <2>1. p # l /\ p \in Nat /\ l \in Nat
    BY <1>0, <1>4, LocParts
  <2>2. ~(l < p)
    BY <1>0, <1>4 DEF ChipIInv, UsedFromFirst
  <2> QED BY <2>1, <2>2
<1> QED BY <1>1, <1>2, <1>3, <1>4 DEF Fresh

\* Block l is the first free one.
FreeFirst(rom, l) == /\ l \in Locs /\ rom[UsedCell(l)] = ERASED
                     /\ \A m \in Locs : rom[UsedCell(m)] = ERASED => l <= m

\* Block i of total, the last of data, has a header of two bytes.
Numbered(i, total, data) == Len(data) = i + 1 /\ i + 256 * total \in Word

\* Block l follows block prev of the file, the last of s, or is its first.
Follows(rom, s, i, prev, start, l) ==
    /\ i = 0 => start = l /\ prev = NoLoc
    /\ i # 0 => /\ prev \in Locs /\ prev = s[i] /\ start \in Starts(rom)
                /\ rom[NextCell(prev)] = NoLoc /\ rom[UsedCell(prev)] = USED

LEMMA BlockBegun ==
    ASSUME NEW rom \in Memory, ChipIInv(rom), NEW l, FreeFirst(rom, l),
           NEW prev \in Locs \cup {NoLoc}, NEW start \in Locs, NEW i \in Nat,
           NEW total \in 1 .. 255, NEW data \in Seq(Word), Numbered(i, total, data),
           NEW v, Begins(v, l, prev, start, i, total, data),
           NEW s, Copied(rom, s, i, v), Follows(rom, s, i, prev, start, l)
    PROVE  v \in Storing /\ v.pc = "write" /\ Writing(rom, v, s, 0)
<1>a. /\ l \in Locs /\ rom[UsedCell(l)] = ERASED
      /\ \A m \in Locs : rom[UsedCell(m)] = ERASED => l <= m
  BY DEF FreeFirst
<1>b. Len(data) = i + 1 /\ i + 256 * total \in Word
  BY DEF Numbered
<1>c. /\ i = 0 => start = l /\ prev = NoLoc
      /\ i # 0 => prev \in Locs /\ prev = s[i] /\ start \in Starts(rom)
      /\ i # 0 => rom[NextCell(prev)] = NoLoc /\ rom[UsedCell(prev)] = USED
  BY DEF Follows
<1> USE <1>a, <1>b, <1>c
<1> DEFINE word == data[Len(data)]
           w == Writes(l, prev, i, total, word)
           hdr == i + 256 * total
<1>1. word \in Word /\ word = data[i + 1]
  <2>1. i + 1 \in 1 .. Len(data)
    OBVIOUS
  <2> QED BY <2>1, ElementOfSeq
<1>2. /\ v = [pc |-> "write", start |-> start, at |-> l, i |-> i, total |-> total,
              data |-> data, todo |-> w]
      /\ AreWrites(w, l, prev, i, hdr, word) /\ hdr \in Word
  BY DEF Begins, AreWrites, Writes
<1> HIDE DEF word, hdr, w
<1>3. w \in Seq(Cell \X Word) /\ Left(w, w, Count(i), 0) /\ Written(rom, w, Count(i), 0)
  BY <1>1, <1>2, NothingWritten DEF ChipIInv
<1>4. v \in Storing /\ v.pc = "write"
  BY <1>2, <1>3 DEF Storing
<1>5. /\ v.start = start /\ v.at = l /\ v.i = i /\ v.total = total /\ v.data = data
      /\ v.todo = w
  BY <1>2
<1>6. Fresh(rom, l)
  BY FreeIsFresh
<1>7. i # 0 => prev < l
  BY FreeIsFresh
<1>8. ASSUME NEW m \in Locs, m < l PROVE rom[UsedCell(m)] = USED
  <2>1. l \in Nat /\ m \in Nat
    BY LocParts
  <2>2. rom[UsedCell(m)] # ERASED
    BY <1>8, <2>1
  <2> QED BY <2>2, UsedOrErased
<1>9. WritesOf(v, s) = w
  <2>1. prev = IF v.i = 0 THEN NoLoc ELSE s[v.i]
    BY <1>5
  <2>2. v.data[v.i + 1] = word
    BY <1>1, <1>5
  <2> QED BY <1>5, <2>1, <2>2 DEF WritesOf, w
<1>10. IF v.i = 0 THEN v.start = v.at ELSE v.start \in Starts(rom) /\ s[v.i] < v.at
  BY <1>5, <1>7
<1>11. 0 < Count(v.i)
  BY <1>5, CountIs
<1>12. Copied(rom, s, v.i, v) /\ v.at \in Locs /\ Fresh(rom, v.at)
  BY <1>5, <1>6
<1>13. Left(v.todo, w, Count(v.i), 0) /\ Written(rom, w, Count(v.i), 0)
  BY <1>3, <1>5
<1>14. \A m \in Locs : m < v.at => rom[UsedCell(m)] = USED
  BY <1>5, <1>8
<1>15. Writing(rom, v, s, 0)
  BY <1>9, <1>10, <1>11, <1>12, <1>13, <1>14 DEF Writing
<1> QED BY <1>4, <1>15

-----------------------------------------------------------------------------
(***************************************************************************)
(* The steps between two files.                                            *)
(***************************************************************************)
Resting == {"off", "ask", "next", "offer", "skip"}

LEMMA RestIInv ==
    ASSUME NEW rom, NEW t, NEW q \in Resting, NEW v, v = [pc |-> q], Whole(t.rest),
           q = "next" => AtStart(t.rest),
           q \in {"offer", "skip"} /\ t.left <= 1 => AtStart(t.rest),
           q = "offer" => \E p \in Programs : Ahead(p, 1, t) /\ p[1] = t.word
    PROVE  v \in Util /\ v.pc = q /\ TapeIInv(t, v) /\ StoringIInv(rom, v)
<1>1. v \in Util /\ v.pc = q
  BY DEF Util, Resting
<1>2. q \notin {"write", "entry", "more"}
  BY DEF Resting
<1>3. TapeIInv(t, v)
  BY <1>1, <1>2 DEF TapeIInv, InFile
<1>4. StoringIInv(rom, v)
  BY <1>1, <1>2 DEF StoringIInv
<1> QED BY <1>1, <1>3, <1>4

LEMMA RestStep ==
    ASSUME UtilIInv, NEW q \in Resting, Goto(q), UNCHANGED chip,
           tape' \in Tape, Whole(tape'.rest),
           q = "next" => AtStart(tape'.rest),
           q \in {"offer", "skip"} /\ tape'.left <= 1 => AtStart(tape'.rest),
           q = "offer" => \E p \in Programs : Ahead(p, 1, tape') /\ p[1] = tape'.word,
           cuts' \in 0 .. MaxPowerCuts,
           cuts' = 0 => cuts = 0 /\ util.pc \notin {"write", "entry"}
    PROVE  UtilIInv' /\ chip' = chip
<1>1. util' \in Util /\ util'.pc = q /\ TapeIInv(tape', util') /\ StoringIInv(chip', util')
  BY RestIInv DEF Goto
<1>2. UtilTypeOK'
  BY <1>1 DEF UtilIInv, UtilTypeOK
<1>3. ChipIInv(chip')
  BY DEF UtilIInv
<1>4. NoneAstray'
  BY DEF UtilIInv, NoneAstray, Reachable
<1> QED BY <1>1, <1>2, <1>3, <1>4 DEF UtilIInv

LEMMA SwitchOnKeeps ==
    ASSUME UtilIInv, SwitchOn
    PROVE  UtilIInv' /\ chip' = chip
<1>1. Goto("ask") /\ "ask" \in Resting /\ UNCHANGED <<chip, tape, cuts>> /\ util.pc = "off"
  BY DEF SwitchOn, Resting
<1>2. tape' \in Tape /\ cuts' \in 0 .. MaxPowerCuts
  BY <1>1 DEF UtilIInv, UtilTypeOK
<1>3. Whole(tape'.rest)
  BY <1>1 DEF UtilIInv, TapeIInv
<1> QED BY <1>1, <1>2, <1>3, RestStep

LEMMA EndProgramKeeps ==
    ASSUME UtilIInv, EndProgram
    PROVE  UtilIInv' /\ chip' = chip
<1>1. Goto("off") /\ "off" \in Resting /\ UNCHANGED <<chip, tape, cuts>> /\ util.pc = "ask"
  BY DEF EndProgram, Resting
<1>2. tape' \in Tape /\ cuts' \in 0 .. MaxPowerCuts
  BY <1>1 DEF UtilIInv, UtilTypeOK
<1>3. Whole(tape'.rest)
  BY <1>1 DEF UtilIInv, TapeIInv
<1> QED BY <1>1, <1>2, <1>3, RestStep

LEMMA StartTapeKeeps ==
    ASSUME UtilIInv, StartTape
    PROVE  UtilIInv' /\ chip' = chip
<1>1. Goto("next") /\ "next" \in Resting /\ UNCHANGED <<chip, cuts>> /\ util.pc = "ask"
  BY DEF StartTape, Resting
<1>2. cuts' \in 0 .. MaxPowerCuts
  BY <1>1 DEF UtilIInv, UtilTypeOK
<1>3. PICK t \in Tapes : tape' = [tape EXCEPT !.rest = t, !.status = "ok"]
  BY DEF StartTape, tape_rewind
<1>4. t \in Seq(TapeBlock) /\ Whole(t) /\ AtStart(t)
  BY TapeWhole
<1>5. tape' \in Tape /\ tape'.rest = t
  BY <1>3, <1>4 DEF UtilIInv, UtilTypeOK, Tape
<1>6. Whole(tape'.rest) /\ AtStart(tape'.rest)
  BY <1>4, <1>5
<1> QED BY <1>1, <1>2, <1>5, <1>6, RestStep

LEMMA ReadProgramKeeps ==
    ASSUME UtilIInv, ReadProgram
    PROVE  UtilIInv' /\ chip' = chip
<1>1. UNCHANGED <<chip, cuts>> /\ util.pc = "next"
  BY DEF ReadProgram
<1>2. cuts' \in 0 .. MaxPowerCuts /\ tape \in Tape
  BY <1>1 DEF UtilIInv, UtilTypeOK
<1>3. Whole(tape.rest) /\ AtStart(tape.rest)
  BY <1>1 DEF UtilIInv, TapeIInv
<1>4. "ask" \in Resting /\ "offer" \in Resting
  BY DEF Resting
<1>5. CASE tape.status = "M"
  <2>1. Goto("ask") /\ tape' = tape
    BY <1>5 DEF ReadProgram
  <2>2. tape' \in Tape /\ Whole(tape'.rest)
    BY <1>2, <1>3, <2>1
  <2> QED BY <1>1, <1>2, <1>4, <2>1, <2>2, RestStep
<1>6. CASE tape.status # "M"
  <2>1. tape_read_block
    BY <1>6 DEF ReadProgram
  <2>2. tape' \in Tape /\ Whole(tape'.rest) /\ (tape'.status = "ok" => TakesBlock(tape, tape'))
    BY <1>2, <1>3, <2>1, BlockRead
  <2>3. CASE tape'.status # "ok"
    <3>1. Goto("ask")
      BY <1>6, <2>3 DEF ReadProgram
    <3> QED BY <1>1, <1>2, <1>4, <2>2, <3>1, RestStep
  <2>4. CASE tape'.status = "ok"
    <3>1. Goto("offer")
      BY <1>6, <2>4 DEF ReadProgram
    <3>2. TakesBlock(tape, tape')
      BY <2>2, <2>4
    <3>3. \E p \in Programs : Ahead(p, 1, tape') /\ p[1] = tape'.word
      BY <1>2, <1>3, <3>2, FirstRead
    <3>4. tape'.left <= 1 => AtStart(tape'.rest)
      BY <1>2, <1>3, <3>2, BlockTaken
    <3> QED BY <1>1, <1>2, <1>4, <2>2, <3>1, <3>3, <3>4, RestStep
  <2> QED BY <2>3, <2>4
<1> QED BY <1>5, <1>6

LEMMA SkipProgramKeeps ==
    ASSUME UtilIInv, SkipProgram
    PROVE  UtilIInv' /\ chip' = chip
<1>1. Goto("skip") /\ "skip" \in Resting /\ UNCHANGED <<chip, tape, cuts>> /\ util.pc = "offer"
  BY DEF SkipProgram, Resting
<1>2. tape' \in Tape /\ cuts' \in 0 .. MaxPowerCuts
  BY <1>1 DEF UtilIInv, UtilTypeOK
<1>3. Whole(tape'.rest) /\ (tape'.left <= 1 => AtStart(tape'.rest))
  BY <1>1 DEF UtilIInv, TapeIInv, InFile
<1> QED BY <1>1, <1>2, <1>3, RestStep

LEMMA SkipBlockKeeps ==
    ASSUME UtilIInv, SkipBlock
    PROVE  UtilIInv' /\ chip' = chip
<1>1. UNCHANGED <<chip, cuts>> /\ util.pc = "skip"
  BY DEF SkipBlock
<1>2. cuts' \in 0 .. MaxPowerCuts /\ tape \in Tape /\ util \in Util
  BY <1>1 DEF UtilIInv, UtilTypeOK
<1>3. Whole(tape.rest) /\ (tape.left <= 1 => AtStart(tape.rest))
  BY <1>1 DEF UtilIInv, TapeIInv, InFile
<1>4. "skip" \in Resting /\ "next" \in Resting
  BY DEF Resting
<1>5. CASE tape.left > 1
  <2>1. tape_read_block /\ util' = util
    BY <1>5 DEF SkipBlock
  <2>2. tape' \in Tape /\ Whole(tape'.rest) /\ (tape'.left <= 1 => AtStart(tape'.rest))
    BY <1>2, <1>3, <1>5, <2>1, BlockRead
  <2>3. Goto("skip")
    <3>1. util = [pc |-> util.pc]
      BY <1>1, <1>2, UtilParts
    <3> QED BY <1>1, <2>1, <3>1 DEF Goto
  <2> QED BY <1>1, <1>2, <1>4, <2>2, <2>3, RestStep
<1>6. CASE ~(tape.left > 1)
  <2>1. Goto("next") /\ tape' = tape
    BY <1>6 DEF SkipBlock
  <2>2. tape.left <= 1
    <3>1. PICK n \in 0 .. 255 : n = tape.left
      BY <1>2, TapeParts
    <3>2. ~(n > 1)
      BY <1>6, <3>1
    <3>3. n <= 1
      BY <3>2
    <3> QED BY <3>1, <3>3
  <2>3. tape' \in Tape /\ Whole(tape'.rest) /\ AtStart(tape'.rest)
    BY <1>2, <1>3, <2>1, <2>2
  <2> QED BY <1>1, <1>2, <1>4, <2>1, <2>3, RestStep
<1> QED BY <1>5, <1>6

LEMMA ReportCopiedKeeps ==
    ASSUME UtilIInv, ReportCopied
    PROVE  UtilIInv' /\ chip' = chip
<1>1. /\ Goto("next") /\ "next" \in Resting /\ UNCHANGED <<chip, tape, cuts>>
      /\ util.pc = "more" /\ tape.left <= 1
  BY DEF ReportCopied, Resting
<1>2. tape' \in Tape /\ cuts' \in 0 .. MaxPowerCuts
  BY <1>1 DEF UtilIInv, UtilTypeOK
<1>3. Whole(tape'.rest) /\ AtStart(tape'.rest)
  BY <1>1 DEF UtilIInv, TapeIInv, InFile
<1> QED BY <1>1, <1>2, <1>3, RestStep

LEMMA PowerCutKeeps ==
    ASSUME UtilIInv, PowerCut
    PROVE  UtilIInv' /\ chip' = chip
<1>1. Goto("off") /\ "off" \in Resting /\ UNCHANGED <<chip, tape>>
  BY DEF PowerCut, Resting
<1>2. tape' \in Tape
  BY <1>1 DEF UtilIInv, UtilTypeOK
<1>3. cuts' \in 0 .. MaxPowerCuts /\ cuts' # 0
  BY TapeAssumption DEF UtilIInv, UtilTypeOK, PowerCut
<1>4. Whole(tape'.rest)
  BY <1>1 DEF UtilIInv, TapeIInv
<1> QED BY <1>1, <1>2, <1>3, <1>4, RestStep

-----------------------------------------------------------------------------
(***************************************************************************)
(* The steps that begin a block.                                           *)
(***************************************************************************)
LEMMA TapeWhileStoring ==
    ASSUME NEW t, NEW v, v.pc \in {"write", "entry", "more"}, Whole(t.rest),
           t.left <= 1 => AtStart(t.rest), NEW p \in Programs,
           Ahead(p, v.i + 1, t), Len(p) = v.total, Len(v.data) = v.i + 1,
           \A j \in 1 .. v.i + 1 : v.data[j] = p[j]
    PROVE  TapeIInv(t, v)
BY DEF TapeIInv

LEMMA StepToWrite ==
    ASSUME UtilIInv, UNCHANGED <<chip, cuts>>, tape' \in Tape, TapeIInv(tape', util'),
           util.pc \notin {"write", "entry"},
           util' \in Storing, util'.pc = "write", NEW s, Writing(chip, util', s, 0)
    PROVE  UtilIInv' /\ chip' = chip
<1>1. UtilTypeOK' /\ ChipIInv(chip')
  BY DEF UtilIInv, UtilTypeOK, Util
<1>2. NoneAstray'
  BY DEF UtilIInv, NoneAstray, Reachable
<1>3. s \in [1 .. util'.i -> Locs] /\ 0 \in 0 .. 4
  BY DEF Writing, Copied
<1>4. Writing(chip', util', s, 0)
  OBVIOUS
<1>5. StoringIInv(chip', util')
  BY <1>3, <1>4 DEF StoringIInv
<1> QED BY <1>1, <1>2, <1>5 DEF UtilIInv

\* The block copyblock takes is free, and no free one lies before it.
LEMMA FirstFree ==
    ASSUME chip \in Memory, NEW l, IsFirst(l, FreeOnChip)
    PROVE  l \in Locs /\ FreeFirst(chip, l)
BY DEF IsFirst, FreeOnChip, FreeFirst

LEMMA StoreProgramKeeps ==
    ASSUME UtilIInv, StoreProgram
    PROVE  UtilIInv' /\ chip' = chip
<1>1. UNCHANGED <<chip, tape, cuts>> /\ util.pc = "offer"
  BY DEF StoreProgram
<1>2. cuts' \in 0 .. MaxPowerCuts /\ tape \in Tape /\ tape' \in Tape /\ chip \in Memory
  BY <1>1 DEF UtilIInv, UtilTypeOK
<1>3. Whole(tape.rest) /\ (tape.left <= 1 => AtStart(tape.rest))
  BY <1>1 DEF UtilIInv, TapeIInv, InFile
<1>4. PICK p \in Programs : Ahead(p, 1, tape) /\ p[1] = tape.word
  BY <1>1 DEF UtilIInv, TapeIInv
<1>5. CASE FreeOnChip = {}
  <2>1. Goto("off") /\ "off" \in Resting
    BY <1>5 DEF StoreProgram, copyblock, Resting
  <2>2. Whole(tape'.rest)
    BY <1>1, <1>3
  <2> QED BY <1>1, <1>2, <2>1, <2>2, RestStep
<1>6. CASE FreeOnChip # {}
  <2> DEFINE data == <<tape.word>>
             d == data
  <2>1. PICK l : /\ IsFirst(l, FreeOnChip)
                 /\ util' = [pc |-> "write", start |-> IF 0 = 0 THEN l ELSE NoLoc,
                             at |-> l, i |-> 0, total |-> tape.left, data |-> data,
                             todo |-> Writes(l, NoLoc, 0, tape.left, data[Len(data)])]
    BY <1>6 DEF StoreProgram, copyblock
  <2>2. l \in Locs /\ FreeFirst(chip, l)
    BY <1>2, <2>1, FirstFree
  <2>4. PICK total \in 0 .. 255 : total = tape.left
    BY <1>2, TapeParts
  <2>5. Len(p) = total /\ total \in 1 .. 255
    <3>1. PICK n \in Nat : n = Len(p)
      BY GeometryAssumption, LenProperties
    <3>2. 1 \in 1 .. Len(p) /\ Len(p) = tape.left + 1 - 1
      BY <1>4 DEF Ahead
    <3>3. 1 <= n /\ n = total
      BY <2>4, <3>1, <3>2
    <3> QED BY <3>1, <3>3
  <2>6. data \in Seq(Word) /\ Len(data) = 1 /\ data[1] = tape.word
    BY <1>2, TapeParts
  <2> HIDE DEF data
  <2>7. Begins(util', l, NoLoc, l, 0, total, data)
    BY <2>1, <2>4 DEF Begins
  <2>8. 0 + 256 * total \in Word
    <3>1. PICK i \in Nat : i = 0
      OBVIOUS
    <3>2. total \in 1 .. 255 /\ total = Len(p) /\ i < total
      BY <2>5, <3>1
    <3>3. i + 256 * total \in Word
      BY <3>2, HeaderFits
    <3> QED BY <3>1, <3>3
  <2> DEFINE s == [j \in 1 .. 0 |-> l]
  <2>9. Copied(chip, s, 0, util')
    BY <2>2 DEF Copied
  <2> HIDE DEF s
  <2>10. NoLoc \in Locs \cup {NoLoc} /\ 0 \in Nat /\ ChipIInv(chip)
    BY DEF UtilIInv
  <2>a. Numbered(0, total, data) /\ Follows(chip, s, 0, NoLoc, l, l)
    BY <2>6, <2>8 DEF Numbered, Follows
  <2>11. util' \in Storing /\ util'.pc = "write" /\ Writing(chip, util', s, 0)
    BY <1>2, <2>2, <2>5, <2>6, <2>7, <2>9, <2>10, <2>a, BlockBegun
  <2>12. util'.i = 0 /\ util'.total = total /\ util'.data = data
    BY <2>7 DEF Begins
  <2>13. TapeIInv(tape', util')
    <3>1. Ahead(p, util'.i + 1, tape')
      BY <1>1, <1>4, <2>12
    <3>2. Len(p) = util'.total /\ Len(util'.data) = util'.i + 1
      BY <2>5, <2>6, <2>12
    <3>3. \A j \in 1 .. util'.i + 1 : util'.data[j] = p[j]
      BY <1>4, <2>6, <2>12
    <3>4. Whole(tape'.rest) /\ (tape'.left <= 1 => AtStart(tape'.rest))
      BY <1>1, <1>3
    <3> QED BY <2>11, <3>1, <3>2, <3>3, <3>4, TapeWhileStoring
  <2> QED BY <1>1, <1>2, <2>11, <2>13, StepToWrite
<1> QED BY <1>5, <1>6

\* NextBlock has read the next block of the file.
LEMMA NextBlockRead ==
    ASSUME UtilIInv, util.pc = "more", tape.left > 1, tape_read_block, tape'.status = "ok",
           NEW i \in Nat, i = util.i + 1
    PROVE  /\ tape' \in Tape /\ Whole(tape'.rest)
           /\ tape'.left <= 1 => AtStart(tape'.rest)
           /\ tape'.word \in Word
           /\ \E p \in Programs :
                 /\ Ahead(p, i + 1, tape') /\ Len(p) = util.total /\ i < util.total
                 /\ Len(Append(util.data, tape'.word)) = i + 1
                 /\ Append(util.data, tape'.word)[i + 1] = tape'.word
                 /\ \A j \in 1 .. i : Append(util.data, tape'.word)[j] = util.data[j]
                 /\ \A j \in 1 .. i + 1 : Append(util.data, tape'.word)[j] = p[j]
<1>1. tape \in Tape /\ util \in Storing
  BY UtilParts DEF UtilIInv, UtilTypeOK
<1>2. Whole(tape.rest)
  BY DEF UtilIInv, TapeIInv
<1>3. PICK p \in Programs : /\ Ahead(p, util.i + 1, tape)
                            /\ Len(p) = util.total /\ Len(util.data) = util.i + 1
                            /\ \A j \in 1 .. util.i + 1 : util.data[j] = p[j]
  BY DEF UtilIInv, TapeIInv
<1>4. tape' \in Tape /\ Whole(tape'.rest) /\ TakesBlock(tape, tape')
  BY <1>1, <1>2, BlockRead
<1>5. tape'.left <= 1 => AtStart(tape'.rest)
  BY <1>1, <1>2, <1>4, BlockTaken
<1>6. tape'.word \in Word
  BY <1>4, TapeParts
<1>7. Ahead(p, i, tape)
  BY <1>3
<1>8. Ahead(p, i + 1, tape') /\ tape'.word = p[i + 1] /\ i + 1 <= Len(p)
  BY <1>1, <1>2, <1>4, <1>7, NextRead
<1>9. PICK d \in Seq(Word) : d = util.data
  BY <1>1, StoringParts
<1>10. PICK word \in Word : word = tape'.word
  BY <1>6
<1>11. Len(d) = i /\ \A j \in 1 .. i : d[j] = p[j]
  BY <1>3, <1>9
<1>12. /\ Len(Append(d, word)) = Len(d) + 1
       /\ \A j \in 1 .. Len(d) : Append(d, word)[j] = d[j]
       /\ Append(d, word)[Len(d) + 1] = word
  BY AppendProperties
<1>13. Len(Append(d, word)) = i + 1 /\ Append(d, word)[i + 1] = word
  BY <1>11, <1>12
<1>14. \A j \in 1 .. i : Append(d, word)[j] = d[j]
  BY <1>11, <1>12
<1>15. \A j \in 1 .. i + 1 : Append(d, word)[j] = p[j]
  <2>1. p[i + 1] = word
    BY <1>8, <1>10
  <2>2. \A j \in 1 .. i + 1 : j = i + 1 \/ j \in 1 .. i
    OBVIOUS
  <2> QED BY <1>11, <1>13, <1>14, <2>1, <2>2
<1>16. Len(p) = util.total /\ i < util.total
  <2>1. PICK n \in Nat : n = Len(p)
    BY GeometryAssumption, LenProperties
  <2>2. i < n
    BY <1>8, <2>1
  <2> QED BY <1>3, <2>1, <2>2
<1> QED BY <1>4, <1>5, <1>6, <1>8, <1>9, <1>10, <1>13, <1>14, <1>15, <1>16

\* copyblock goes on without a block when the chip is full.
Overflows(v, start, i, total, data) ==
    v = [pc |-> "more", start |-> start, at |-> NoLoc, i |-> i, total |-> total,
         data |-> data, todo |-> <<>>]

LEMMA StepToFull ==
    ASSUME UtilIInv, UNCHANGED <<chip, cuts>>, tape' \in Tape, TapeIInv(tape', util'),
           util.pc \notin {"write", "entry"}, FreeOnChip = {},
           NEW start \in Locs, NEW i \in Nat, NEW total \in 1 .. 255, NEW data \in Seq(Word),
           Overflows(util', start, i, total, data)
    PROVE  UtilIInv' /\ chip' = chip
<1>1. util' \in Storing /\ util'.pc = "more" /\ util'.at = NoLoc
  <2>1. <<>> \in Seq(Cell \X Word)
    BY EmptySeq
  <2> QED BY <2>1 DEF Overflows, Storing
<1>2. \A l \in Locs : chip'[UsedCell(l)] = USED
  <2>1. chip \in Memory
    BY DEF UtilIInv, UtilTypeOK
  <2>2. \A l \in Locs : chip[UsedCell(l)] # ERASED
    BY DEF FreeOnChip
  <2> QED BY <2>1, <2>2, UsedOrErased
<1>3. StoringIInv(chip', util')
  BY <1>1, <1>2 DEF StoringIInv
<1>4. UtilTypeOK' /\ ChipIInv(chip')
  BY <1>1 DEF UtilIInv, UtilTypeOK, Util
<1>5. NoneAstray'
  BY DEF UtilIInv, NoneAstray, Reachable
<1> QED BY <1>3, <1>4, <1>5 DEF UtilIInv

\* The last block that was copied, when there is a free one.
LEMMA LastCopied ==
    ASSUME UtilIInv, util.pc = "more", NEW l \in Locs, chip[UsedCell(l)] = ERASED,
           NEW i \in Nat, i = util.i + 1
    PROVE  /\ util.at \in Locs /\ util.start \in Starts(chip)
           /\ chip[NextCell(util.at)] = NoLoc /\ chip[UsedCell(util.at)] = USED
           /\ \E s : Copied(chip, s, i, util) /\ s[i] = util.at
<1>1. util.at # NoLoc
  BY FieldValues DEF UtilIInv, StoringIInv
<1>2. /\ util.start \in Starts(chip) /\ chip[NextCell(util.at)] = NoLoc
      /\ Stored(chip, util.i + 1, util, util.at)
  BY <1>1 DEF UtilIInv, StoringIInv
<1>3. PICK s \in [1 .. i -> Locs] : Copied(chip, s, i, util) /\ s[i] = util.at
  BY <1>2 DEF Stored
<1>4. i \in 1 .. i
  <2>1. util.i \in Nat
    BY UtilParts, StoringParts DEF UtilIInv, UtilTypeOK
  <2>2. PICK k \in Nat : k = util.i
    BY <2>1
  <2> QED BY <2>2
<1>5. util.at \in Locs
  BY <1>3, <1>4
<1>6. chip[UsedCell(util.at)] = USED
  BY <1>3, <1>4 DEF Copied, Filled
<1> QED BY <1>2, <1>3, <1>5, <1>6

LEMMA NextBlockKeeps ==
    ASSUME UtilIInv, NextBlock
    PROVE  UtilIInv' /\ chip' = chip
<1>1. /\ UNCHANGED <<chip, cuts>> /\ util.pc = "more" /\ tape.left > 1 /\ tape_read_block
  BY DEF NextBlock
<1>2. cuts' \in 0 .. MaxPowerCuts /\ tape \in Tape /\ chip \in Memory /\ util \in Storing
  BY <1>1, UtilParts DEF UtilIInv, UtilTypeOK
<1>3. Whole(tape.rest) /\ ChipIInv(chip)
  BY <1>1 DEF UtilIInv, TapeIInv
<1>4. tape' \in Tape /\ Whole(tape'.rest)
  BY <1>1, <1>2, <1>3, BlockRead
<1>5. CASE tape'.status # "ok"
  <2>1. Goto("off") /\ "off" \in Resting
    BY <1>5 DEF NextBlock, GiveUp, Resting
  <2> QED BY <1>1, <1>2, <1>4, <2>1, RestStep
<1>6. CASE tape'.status = "ok"
  <2>1. PICK n \in Nat : n = util.i
    BY <1>2, StoringParts
  <2>2. PICK i \in Nat : i = util.i + 1 /\ i # 0
    BY <2>1
  <2>3. PICK total \in 1 .. 255 : total = util.total
    BY <1>2, StoringParts
  <2>4. PICK start \in Locs : start = util.start
    BY <1>2, StoringParts
  <2>5. PICK prev \in Locs \cup {NoLoc} : prev = util.at
    BY <1>2, StoringParts
  <2>6. PICK word \in Word : word = tape'.word
    BY <1>4, TapeParts
  <2>7. PICK d \in Seq(Word) : d = util.data
    BY <1>2, StoringParts
  <2>8. PICK data \in Seq(Word) : data = Append(util.data, tape'.word)
    BY <2>6, <2>7, AppendProperties
  <2>9. copyblock(util.at, util.start, util.i + 1, util.total, Append(util.data, tape'.word))
    BY <1>6 DEF NextBlock
  <2>10. copyblock(prev, start, i, total, data)
    BY <2>2, <2>3, <2>4, <2>5, <2>8, <2>9
  <2>11. PICK p \in Programs :
            /\ Ahead(p, i + 1, tape') /\ Len(p) = util.total /\ i < util.total
            /\ Len(Append(util.data, tape'.word)) = i + 1
            /\ Append(util.data, tape'.word)[i + 1] = tape'.word
            /\ \A j \in 1 .. i : Append(util.data, tape'.word)[j] = util.data[j]
            /\ \A j \in 1 .. i + 1 : Append(util.data, tape'.word)[j] = p[j]
    BY <1>1, <1>6, <2>2, NextBlockRead
  <2>12. tape'.left <= 1 => AtStart(tape'.rest)
    BY <1>1, <1>6, <2>2, NextBlockRead
  <2>13. /\ Ahead(p, i + 1, tape') /\ Len(p) = total /\ i < total /\ Len(data) = i + 1
         /\ \A j \in 1 .. i : data[j] = util.data[j]
         /\ \A j \in 1 .. i + 1 : data[j] = p[j]
    BY <2>3, <2>8, <2>11
  <2>14. ASSUME util'.pc \in {"write", "entry", "more"}, util'.i = i, util'.total = total,
                util'.data = data
         PROVE  TapeIInv(tape', util')
    BY <1>4, <2>12, <2>13, <2>14, TapeWhileStoring
  <2>15. CASE FreeOnChip = {}
    <3>1. Overflows(util', start, i, total, data)
      BY <2>2, <2>10, <2>15 DEF copyblock, Overflows
    <3>2. /\ util'.pc \in {"write", "entry", "more"} /\ util'.i = i /\ util'.total = total
          /\ util'.data = data
      BY <3>1 DEF Overflows
    <3>3. TapeIInv(tape', util')
      BY <2>14, <3>2
    <3> QED BY <1>1, <1>4, <2>15, <3>1, <3>3, StepToFull
  <2>16. CASE FreeOnChip # {}
    <3>1. PICK l : IsFirst(l, FreeOnChip) /\ Begins(util', l, prev, start, i, total, data)
      BY <2>2, <2>10, <2>16 DEF copyblock, Begins
    <3>2. l \in Locs /\ FreeFirst(chip, l)
      BY <1>2, <3>1, FirstFree
    <3>3. chip[UsedCell(l)] = ERASED
      BY <3>2 DEF FreeFirst
    <3>4. /\ util'.pc \in {"write", "entry", "more"} /\ util'.i = i /\ util'.total = total
          /\ util'.data = data /\ util'.start = start
      BY <3>1 DEF Begins
    <3>5. TapeIInv(tape', util')
      BY <2>14, <3>4
    <3>6. util.at \in Locs /\ util.start \in Starts(chip)
      BY <1>1, <2>2, <3>2, <3>3, LastCopied
    <3>7. chip[NextCell(util.at)] = NoLoc /\ chip[UsedCell(util.at)] = USED
      BY <1>1, <2>2, <3>2, <3>3, LastCopied
    <3>8. PICK s : Copied(chip, s, i, util) /\ s[i] = util.at
      BY <1>1, <2>2, <3>2, <3>3, LastCopied
    <3>9. Copied(chip, s, i, util')
      BY <2>3, <2>4, <2>13, <3>4, <3>8, CopiedSame
    <3>10. prev \in Locs /\ prev = s[i] /\ start \in Starts(chip)
      BY <2>4, <2>5, <3>6, <3>8
    <3>11. chip[NextCell(prev)] = NoLoc /\ chip[UsedCell(prev)] = USED
      BY <2>5, <3>7
    <3>12. i + 256 * total \in Word
      BY <2>13, HeaderFits
    <3>13. util' \in Storing /\ util'.pc = "write" /\ Writing(chip, util', s, 0)
      <4>1. Follows(chip, s, i, prev, start, l)
        BY <2>2, <3>10, <3>11 DEF Follows
      <4>2. Numbered(i, total, data)
        BY <2>13, <3>12 DEF Numbered
      <4>3. Begins(util', l, prev, start, i, total, data)
        BY <3>1
      <4> QED BY <1>2, <1>3, <3>2, <3>9, <4>1, <4>2, <4>3, BlockBegun
    <3> QED BY <1>1, <1>4, <3>5, <3>13, StepToWrite
  <2> QED BY <2>15, <2>16
<1> QED BY <1>5, <1>6

-----------------------------------------------------------------------------
(***************************************************************************)
(* The steps that write a cell.                                            *)
(***************************************************************************)
\* No file changes but one, which is added as a whole.
FilesStep(rom, new) ==
    \/ FilesOn(new) = FilesOn(rom)
    \/ \E h \in Locs, p \in Programs : p # <<>> /\ Added(rom, new, h, p)

LEMMA TapeStays ==
    ASSUME NEW t, NEW u, TapeIInv(t, u), NEW v,
           u.pc \in {"write", "entry", "more"}, v.pc \in {"write", "entry", "more"},
           v.i = u.i, v.total = u.total, v.data = u.data
    PROVE  TapeIInv(t, v)
BY DEF TapeIInv, InFile

LEMMA StoredSame ==
    ASSUME NEW rom, NEW n, NEW l, NEW u, NEW v, Stored(rom, n, u, l),
           v.start = u.start, v.total = u.total, v.data = u.data
    PROVE  Stored(rom, n, v, l)
<1>1. PICK s \in [1 .. n -> Locs] : Copied(rom, s, n, u) /\ s[n] = l
  BY DEF Stored
<1>2. Copied(rom, s, n, v)
  BY <1>1, CopiedSame
<1> QED BY <1>1, <1>2 DEF Stored

\* The words and headers that are written fit.
LEMMA StoringFits ==
    ASSUME NEW t, NEW u \in Storing, TapeIInv(t, u)
    PROVE  /\ u.data[u.i + 1] \in Word /\ u.i + 256 * u.total \in Word /\ u.i < u.total
<1>1. PICK i \in Nat : i = u.i
  BY StoringParts
<1>2. PICK total \in 1 .. 255 : total = u.total
  BY StoringParts
<1>3. PICK data \in Seq(Word) : data = u.data
  BY StoringParts
<1>4. PICK p \in Programs : Ahead(p, i + 1, t) /\ Len(p) = total /\ Len(data) = i + 1
  BY <1>1, <1>2, <1>3, StoringParts DEF TapeIInv
<1>5. i < total
  <2>1. i + 1 \in 1 .. Len(p)
    BY <1>4 DEF Ahead
  <2> QED BY <1>4, <2>1
<1>6. i + 256 * total \in Word
  BY <1>4, <1>5, HeaderFits
<1>7. data[i + 1] \in Word
  <2>1. i + 1 \in 1 .. Len(data)
    BY <1>4
  <2> QED BY <2>1, ElementOfSeq
<1>8. i < u.total
  BY <1>2, <1>5
<1> QED BY <1>1, <1>2, <1>3, <1>6, <1>7, <1>8

LEMMA GrowsByProgram ==
    ASSUME NEW t, NEW u \in Storing, TapeIInv(t, u),
           NEW rom, NEW new, Grows(rom, new, u.i + 1, u)
    PROVE  FilesStep(rom, new)
<1>1. PICK i \in Nat : i = u.i
  BY StoringParts
<1>2. PICK data : data = u.data
  OBVIOUS
<1>3. PICK p \in Programs : /\ Ahead(p, i + 1, t) /\ Len(p) = u.total
                            /\ \A j \in 1 .. i + 1 : data[j] = p[j]
  BY <1>1, <1>2, StoringParts DEF TapeIInv
<1>4. CASE i + 1 # u.total
  BY <1>1, <1>4 DEF Grows, FilesStep
<1>5. CASE i + 1 = u.total
  <2>1. Len(p) = i + 1 /\ p \in Seq(Word)
    BY <1>3, <1>5, GeometryAssumption
  <2>2. p = [j \in 1 .. i + 1 |-> p[j]]
    BY <2>1, LenProperties
  <2>3. p = [j \in 1 .. i + 1 |-> data[j]]
    BY <1>3, <2>2
  <2>4. p # <<>>
    BY <2>1
  <2>5. Added(rom, new, u.start, [j \in 1 .. i + 1 |-> data[j]])
    BY <1>1, <1>2, <1>5 DEF Grows
  <2>6. Added(rom, new, u.start, p)
    BY <2>3, <2>5
  <2> QED BY <2>4, <2>6, StoringParts DEF FilesStep
<1> QED BY <1>4, <1>5

\* The cell that is written is erased.
LEMMA ProgramsCell ==
    ASSUME NEW rom \in Memory, NEW t, NEW u \in Storing, TapeIInv(t, u),
           NEW s, NEW k \in Nat, Writing(rom, u, s, k)
    PROVE  /\ rom[u.todo[1][1]] = ERASED /\ u.todo[1][2] \in Word
           /\ BitAnd(rom[u.todo[1][1]], u.todo[1][2]) = u.todo[1][2]
<1>y. PICK i \in Nat, c \in {4, 5} : i = u.i /\ c = Count(i)
  BY StoringParts, CountIs
<1>1. PICK l, prev, hdr, word, w :
         /\ i = u.i /\ c = Count(i) /\ l = u.at /\ w = WritesOf(u, s)
         /\ prev = (IF u.i = 0 THEN NoLoc ELSE s[u.i])
         /\ hdr = u.i + 256 * u.total /\ word = u.data[u.i + 1]
  BY <1>y
<1>2. AreWrites(w, l, prev, i, hdr, word)
  BY <1>1, WritingParts
<1>3. l \in Locs /\ hdr \in Word /\ word \in Word
  BY <1>1, WritingParts, StoringFits
<1>4. i # 0 => prev \in Locs
  BY <1>1, WritingParts
<1>5. Written(rom, w, c, k) /\ k < c
  BY <1>1, WritingParts
<1>6. u.todo[1] = w[k + 1]
  BY <1>1, NextTodo
<1>7. PICK j \in 1 .. c : j = k + 1
  BY <1>5
<1>8. rom[w[j][1]] = ERASED
  <2>1. ~(j <= k)
    BY <1>7
  <2> QED BY <1>5, <2>1 DEF Written
<1>9. w[j][2] \in Word
  BY <1>1, <1>2, <1>3, <1>4, WriteFits
<1>10. BitAnd(ERASED, w[j][2]) = w[j][2]
  BY <1>9, WordAssumption
<1>11. u.todo[1] = w[j]
  BY <1>6, <1>7
<1> QED BY <1>8, <1>9, <1>10, <1>11

\* What the utility is after a write that was the k-th for block i of a file.
AfterWrite(i, k) == IF k < Count(i) THEN "write" ELSE IF i = 0 THEN "entry" ELSE "more"

LEMMA WriteStep ==
    ASSUME UtilIInv, sst39sf_write_byte, NEW s, NEW k \in Nat, Writing(chip, util, s, k)
    PROVE  /\ SetTo(chip, util.todo[1][1], util.todo[1][2], chip')
           /\ MovesOn(util, AfterWrite(util.i, k + 1), Tail(util.todo), util')
<1>1. chip \in Memory /\ util \in Storing /\ TapeIInv(tape, util)
  BY UtilParts DEF UtilIInv, UtilTypeOK, sst39sf_write_byte
<1>2. BitAnd(chip[util.todo[1][1]], util.todo[1][2]) = util.todo[1][2]
  BY <1>1, ProgramsCell
<1>3. chip' = [chip EXCEPT ![util.todo[1][1]]
                   = BitAnd(chip[util.todo[1][1]], util.todo[1][2])]
  BY DEF sst39sf_write_byte
<1>4. SetTo(chip, util.todo[1][1], util.todo[1][2], chip')
  BY <1>2, <1>3 DEF SetTo
<1>5. PICK c \in Nat : c = Count(util.i)
  BY <1>1, StoringParts, CountIs
<1>6. Len(util.todo) = Count(util.i) - k
  BY <1>1, NextTodo
<1>7. Len(util.todo) = c - k
  BY <1>5, <1>6
<1>8. Len(util.todo) > 1 <=> k + 1 < c
  BY <1>7
<1>9. util' = [util EXCEPT !.todo = Tail(util.todo),
                           !.pc = IF Len(util.todo) > 1 THEN "write"
                                  ELSE IF util.i = 0 THEN "entry" ELSE "more"]
  BY DEF sst39sf_write_byte
<1>10. util' = [util EXCEPT !.todo = Tail(util.todo), !.pc = AfterWrite(util.i, k + 1)]
  BY <1>5, <1>8, <1>9 DEF AfterWrite
<1>11. util = [pc |-> util.pc, start |-> util.start, at |-> util.at, i |-> util.i,
               total |-> util.total, data |-> util.data, todo |-> util.todo]
  BY <1>1, StoringParts
<1> DEFINE q == AfterWrite(util.i, k + 1)
           r == Tail(util.todo)
<1>12. util' = [util EXCEPT !.todo = r, !.pc = q]
  BY <1>10
<1> HIDE DEF q, r
<1>13. util' = [pc |-> q, start |-> util.start, at |-> util.at, i |-> util.i,
                total |-> util.total, data |-> util.data, todo |-> r]
  BY <1>11, <1>12
<1>14. MovesOn(util, q, r, util')
  BY <1>13 DEF MovesOn
<1> QED BY <1>4, <1>14 DEF q, r

\* No block goes astray while one is written, nor when it has been linked.
LEMMA BlockNotAstray ==
    ASSUME UtilIInv, UNCHANGED cuts, util.pc = "write", util'.pc \in {"write", "entry"},
           util'.at = util.at, OnlyBlock(chip, chip', util.at)
    PROVE  NoneAstray'
<1> SUFFICES ASSUME cuts = 0, NEW l \in Locs, l # util.at, chip'[UsedCell(l)] # ERASED
             PROVE  Reachable(chip', l)
  BY DEF NoneAstray
<1>1. SameBlock(chip, chip', l)
  BY DEF OnlyBlock
<1>2. chip[UsedCell(l)] # ERASED
  BY <1>1 DEF SameBlock
<1>3. Reachable(chip, l)
  BY <1>2 DEF UtilIInv, NoneAstray
<1> QED BY <1>3 DEF Reachable, OnlyBlock, Unlinked

\* The write that links a block harms no link.
LEMMA LinkNotAstray ==
    ASSUME UtilIInv, UNCHANGED cuts, chip' \in Memory,
           NEW p \in Locs, chip[NextCell(p)] = NoLoc, NEW l \in Locs, l = util.at,
           SetTo(chip, NextCell(p), l, chip')
    PROVE  NoneAstray'
<1>1. chip \in Memory
  BY DEF UtilIInv, UtilTypeOK
<1>2. /\ Starts(chip') = Starts(chip)
      /\ \A k \in Locs : /\ k # p => chip'[NextCell(k)] = chip[NextCell(k)]
                         /\ chip'[UsedCell(k)] = chip[UsedCell(k)]
      /\ chip'[NextCell(p)] = l
  <2>1. SetTo(chip, FieldCell("next", p), l, chip') /\ NextCell(p) = FieldCell("next", p)
    BY CellsAreFields
  <2> QED BY <1>1, <2>1, FieldValues, WriteCell
<1> SUFFICES ASSUME cuts = 0, NEW m \in Locs, chip'[UsedCell(m)] # ERASED
             PROVE  Reachable(chip', m)
  BY DEF NoneAstray
<1>3. CASE m = l
  BY <1>2, <1>3 DEF Reachable, Unlinked
<1>4. CASE m # l
  <2>1. Reachable(chip, m)
    BY <1>2, <1>4 DEF UtilIInv, NoneAstray
  <2>2. CASE m \in Starts(chip)
    BY <1>2, <2>2 DEF Reachable
  <2>3. CASE m \notin Starts(chip)
    <3>1. PICK k \in Locs : chip[NextCell(k)] = m
      BY <2>1, <2>3 DEF Reachable, Unlinked
    <3>2. k # p
      BY <3>1, LocParts
    <3> QED BY <1>2, <3>1, <3>2 DEF Reachable, Unlinked
  <2> QED BY <2>2, <2>3
<1> QED BY <1>3, <1>4

LEMMA WriteByteKeeps ==
    ASSUME UtilIInv, sst39sf_write_byte
    PROVE  UtilIInv' /\ FilesStep(chip, chip')
<1>1. /\ chip \in Memory /\ util \in Storing /\ TapeIInv(tape, util) /\ ChipIInv(chip)
      /\ util.pc = "write" /\ UNCHANGED <<tape, cuts>>
  BY UtilParts DEF UtilIInv, UtilTypeOK, sst39sf_write_byte
<1>2. PICK s \in [1 .. util.i -> Locs], k \in 0 .. 4 : Writing(chip, util, s, k)
  BY <1>1 DEF UtilIInv, StoringIInv
<1>3. k \in Nat
  OBVIOUS
<1>4. /\ util.data[util.i + 1] \in Word /\ util.i + 256 * util.total \in Word
      /\ util.i < util.total
  BY <1>1, StoringFits
<1>5. SetTo(chip, util.todo[1][1], util.todo[1][2], chip')
  BY <1>2, <1>3, WriteStep
<1>6. MovesOn(util, AfterWrite(util.i, k + 1), Tail(util.todo), util')
  BY <1>2, <1>3, WriteStep
<1> DEFINE q == AfterWrite(util.i, k + 1)
           r == Tail(util.todo)
<1>7. q \in {"write", "entry", "more"}
  BY DEF AfterWrite
<1>8. r \in Seq(Cell \X Word)
  BY <1>1, <1>2, <1>3, NextTodo
<1>9. MovesOn(util, q, r, util')
  BY <1>6
<1> HIDE DEF q, r
<1>10. util' \in Storing /\ util'.pc = q /\ util'.start = util.start
  BY <1>1, <1>7, <1>8, <1>9, MovedOn
<1>11. util'.at = util.at /\ util'.i = util.i /\ util'.total = util.total
  BY <1>1, <1>7, <1>8, <1>9, MovedOn
<1>12. util'.data = util.data
  BY <1>1, <1>7, <1>8, <1>9, MovedOn
<1>13. TapeIInv(tape', util')
  <2>1. TapeIInv(tape, util')
    BY <1>1, <1>7, <1>10, <1>11, <1>12, TapeStays
  <2> QED BY <1>1, <2>1
<1>14. util' \in Util /\ tape' \in Tape /\ cuts' \in 0 .. MaxPowerCuts
  BY <1>1, <1>10 DEF UtilIInv, UtilTypeOK, Util
<1>15. ASSUME chip' \in Memory, ChipIInv(chip'), StoringIInv(chip', util'), NoneAstray'
       PROVE  UtilIInv'
  BY <1>13, <1>14, <1>15 DEF UtilIInv, UtilTypeOK
<1>16. PICK c \in Nat : c = Count(util.i) /\ k < c
  <2>1. Count(util.i) \in Nat
    BY <1>1, StoringParts, CountIs
  <2>2. k < Count(util.i)
    BY <1>2 DEF Writing
  <2> QED BY <2>1, <2>2
<1>17. CASE k + 1 < c
  <2>1. q = "write" /\ k + 1 < Count(util.i)
    BY <1>16, <1>17 DEF AfterWrite, q
  <2>2. MovesOn(util, "write", Tail(util.todo), util')
    BY <1>9, <2>1 DEF r
  <2>3. chip' \in Memory /\ OnlyBlock(chip, chip', util.at)
    BY <1>1, <1>2, <1>3, <1>4, <1>5, <2>1, <2>2, GoOnWriting
  <2>4. Writing(chip', util', s, k + 1)
    BY <1>1, <1>2, <1>3, <1>4, <1>5, <2>1, <2>2, GoOnWriting
  <2>5. StoringIInv(chip', util')
    <3>1. c \in {4, 5}
      BY <1>1, <1>16, StoringParts, CountIs
    <3>2. k + 1 \in 0 .. 4
      BY <1>17, <3>1
    <3>3. s \in [1 .. util'.i -> Locs]
      BY <1>11
    <3> QED BY <1>10, <2>1, <2>4, <3>2, <3>3 DEF StoringIInv
  <2>6. NoneAstray'
    BY <1>1, <1>10, <1>11, <2>1, <2>3, BlockNotAstray
  <2> QED BY <1>15, <2>3, <2>5, <2>6 DEF OnlyBlock, FilesStep
<1>18. CASE ~(k + 1 < c)
  <2>1. k + 1 = Count(util.i) /\ ~(k + 1 < Count(util.i))
    BY <1>16, <1>18
  <2>2. CASE util.i = 0
    <3>1. q = "entry"
      BY <2>1, <2>2 DEF AfterWrite, q
    <3>2. chip' \in Memory /\ OnlyBlock(chip, chip', util.at) /\ util.at = util.start
      BY <1>1, <1>2, <1>3, <1>4, <1>5, <2>1, <2>2, FirstWritten
    <3>3. Filled(chip', util.start, 1, util.total, util.data[1])
      BY <1>1, <1>2, <1>3, <1>4, <1>5, <2>1, <2>2, FirstWritten
    <3>4. StoringIInv(chip', util')
      BY <1>10, <1>11, <1>12, <2>2, <3>1, <3>2, <3>3 DEF StoringIInv, OnlyBlock
    <3>5. NoneAstray'
      BY <1>1, <1>10, <1>11, <3>1, <3>2, BlockNotAstray
    <3> QED BY <1>15, <3>2, <3>4, <3>5 DEF OnlyBlock, FilesStep
  <2>3. CASE util.i # 0
    <3>1. q = "more"
      BY <2>1, <2>3 DEF AfterWrite, q
    <3>2. chip' \in Memory /\ ChipIInv(chip')
      BY <1>1, <1>2, <1>3, <1>4, <1>5, <2>1, <2>3, NowLinked
    <3>3. Stored(chip', util.i + 1, util, util.at)
      BY <1>1, <1>2, <1>3, <1>4, <1>5, <2>1, <2>3, NowLinked
    <3>4. util.start \in Starts(chip') /\ chip'[NextCell(util.at)] = NoLoc
      BY <1>1, <1>2, <1>3, <1>4, <1>5, <2>1, <2>3, NowLinked
    <3>5. Grows(chip, chip', util.i + 1, util)
      BY <1>1, <1>2, <1>3, <1>4, <1>5, <2>1, <2>3, NowLinked
    <3>6. PICK p \in Locs : chip[NextCell(p)] = NoLoc /\ SetTo(chip, NextCell(p), util.at, chip')
      BY <1>1, <1>2, <1>3, <1>4, <1>5, <2>1, <2>3, NowLinked
    <3>7. util.at \in Locs
      BY <1>2 DEF Writing
    <3>8. NoneAstray'
      BY <1>1, <3>2, <3>6, <3>7, LinkNotAstray
    <3>9. Stored(chip', util'.i + 1, util', util'.at)
      <4>1. Stored(chip', util.i + 1, util', util.at)
        BY <1>10, <1>11, <1>12, <3>3, StoredSame
      <4> QED BY <1>11, <4>1
    <3>10. util'.at # NoLoc
      BY <1>11, <3>7, LocParts
    <3>11. StoringIInv(chip', util')
      BY <1>10, <1>11, <3>1, <3>4, <3>9, <3>10 DEF StoringIInv
    <3>12. FilesStep(chip, chip')
      BY <1>1, <3>5, GrowsByProgram
    <3> QED BY <1>15, <3>2, <3>8, <3>11, <3>12
  <2> QED BY <2>2, <2>3
<1> QED BY <1>17, <1>18

LEMMA WriteStartKeeps ==
    ASSUME UtilIInv, write_startbyte
    PROVE  UtilIInv' /\ FilesStep(chip, chip')
<1>1. /\ chip \in Memory /\ util \in Storing /\ TapeIInv(tape, util) /\ ChipIInv(chip)
      /\ util.pc = "entry" /\ UNCHANGED <<tape, cuts>>
  BY UtilParts DEF UtilIInv, UtilTypeOK, write_startbyte
<1>2. /\ util.i = 0 /\ util.at = util.start /\ Fresh(chip, util.start)
      /\ Filled(chip, util.start, 1, util.total, util.data[1])
  BY <1>1 DEF UtilIInv, StoringIInv
<1>3. util.start \in Locs /\ util.total \in Nat
  <2>1. PICK total \in 1 .. 255 : total = util.total
    BY <1>1, StoringParts
  <2>2. total \in Nat
    OBVIOUS
  <2> QED BY <1>1, <2>1, <2>2, StoringParts
<1>4. PICK i \in Slot :
         /\ chip[PreCell(BankOf(util.start), i)] = ERASED
         /\ \A j \in 0 .. i - 1 : chip[PreCell(BankOf(util.start), j)] # ERASED
         /\ SetTo(chip, PreCell(BankOf(util.start), i), BlockOf(util.start), chip')
  BY DEF write_startbyte, SetTo
<1>5. ChipIInv(chip') /\ Stored(chip', 1, util, util.start)
  BY <1>1, <1>2, <1>3, <1>4, EnterFiles
<1>6. util.start \in Starts(chip') /\ chip'[NextCell(util.start)] = NoLoc
  BY <1>1, <1>2, <1>3, <1>4, EnterFiles
<1>7. /\ \A k \in Locs : SameBlock(chip, chip', k)
      /\ Starts(chip') = Starts(chip) \cup {util.start}
  BY <1>1, <1>2, <1>3, <1>4, EnterFiles
<1>8. Grows(chip, chip', 1, util)
  BY <1>1, <1>2, <1>3, <1>4, EnterFiles
<1>9. chip' \in Memory
  <2>1. chip[UsedCell(util.start)] = USED
    BY <1>2 DEF Filled
  <2> QED BY <1>1, <1>2, <1>3, <1>4, <2>1, EnterStart
<1> DEFINE r == util.todo
<1>10. MovesOn(util, "more", r, util') /\ r \in Seq(Cell \X Word)
  <2>1. util = [pc |-> util.pc, start |-> util.start, at |-> util.at, i |-> util.i,
                total |-> util.total, data |-> util.data, todo |-> util.todo]
    BY <1>1, StoringParts
  <2>2. util' = [util EXCEPT !.pc = "more"]
    BY DEF write_startbyte
  <2>3. util' = [pc |-> "more", start |-> util.start, at |-> util.at, i |-> util.i,
                 total |-> util.total, data |-> util.data, todo |-> util.todo]
    BY <2>1, <2>2
  <2> QED BY <1>1, <2>3, StoringParts DEF MovesOn
<1> HIDE DEF r
<1>11. util' \in Storing /\ util'.pc = "more" /\ util'.start = util.start
  BY <1>1, <1>10, MovedOn
<1>12. util'.at = util.at /\ util'.i = util.i /\ util'.total = util.total
  BY <1>1, <1>10, MovedOn
<1>13. util'.data = util.data
  BY <1>1, <1>10, MovedOn
<1>14. TapeIInv(tape', util')
  <2>1. TapeIInv(tape, util')
    BY <1>1, <1>11, <1>12, <1>13, TapeStays
  <2> QED BY <1>1, <2>1
<1>15. StoringIInv(chip', util')
  <2>1. Stored(chip', 1, util', util.start)
    BY <1>5, <1>11, <1>12, <1>13, StoredSame
  <2>2. Stored(chip', util'.i + 1, util', util'.at)
    BY <1>2, <1>12, <2>1
  <2>3. util.start # NoLoc /\ util'.at = util.start
    BY <1>2, <1>3, <1>12, LocParts
  <2> QED BY <1>6, <1>11, <2>2, <2>3 DEF StoringIInv
<1>16. UtilTypeOK'
  BY <1>1, <1>9, <1>11 DEF UtilIInv, UtilTypeOK, Util
<1>17. NoneAstray'
  <2> SUFFICES ASSUME cuts = 0, NEW l \in Locs, chip'[UsedCell(l)] # ERASED
               PROVE  Reachable(chip', l)
    BY <1>1 DEF NoneAstray
  <2>1. chip[UsedCell(l)] # ERASED
    BY <1>7 DEF SameBlock
  <2>2. Reachable(chip, l) \/ l = util.start
    BY <1>2, <2>1 DEF UtilIInv, NoneAstray
  <2> QED BY <1>7, <2>2 DEF Reachable, Unlinked, SameBlock
<1>18. FilesStep(chip, chip')
  <2>1. Grows(chip, chip', util.i + 1, util)
    BY <1>2, <1>8
  <2> QED BY <1>1, <2>1, GrowsByProgram
<1> QED BY <1>5, <1>14, <1>15, <1>16, <1>17, <1>18 DEF UtilIInv

-----------------------------------------------------------------------------
(***************************************************************************)
(* The invariant.                                                          *)
(***************************************************************************)
LEMMA FormatCells ==
    ASSUME chip = [x \in Cell |-> FormatImage(x)]
    PROVE  /\ \A l \in Locs : /\ chip[NextCell(l)] = ERASED /\ chip[CrcCell(l)] = ERASED
                              /\ chip[UsedCell(l)] = ERASED /\ chip[HdrCell(l)] = ERASED
                              /\ chip[DataCell(l)] = ERASED
           /\ \A b \in Bank, i \in Slot : chip[PreCell(b, i)] = ERASED
           /\ Starts(chip) = {}
<1>1. ASSUME NEW x \in Cell, x[1] # "fmt" PROVE chip[x] = ERASED
  BY <1>1 DEF FormatImage
<1>2. ASSUME NEW l \in Locs
      PROVE  /\ chip[NextCell(l)] = ERASED /\ chip[CrcCell(l)] = ERASED
             /\ chip[UsedCell(l)] = ERASED /\ chip[HdrCell(l)] = ERASED
             /\ chip[DataCell(l)] = ERASED
  <2>1. \A f \in MetaFields \cup {"data"} : f # "fmt" => chip[FieldCell(f, l)] = ERASED
    BY <1>1, FieldIsCell
  <2> QED BY <2>1, FieldValues, CellsAreFields
<1>3. ASSUME NEW b \in Bank, NEW i \in Slot PROVE chip[PreCell(b, i)] = ERASED
  <2>1. PreCell(b, i) \in Cell /\ PreCell(b, i)[1] # "fmt"
    BY DEF PreCell, Cell, PreCells
  <2> QED BY <1>1, <2>1
<1>4. ASSUME NEW e \in PreCells PROVE ~Listed(chip, e[2], e[3])
  <2>1. e[2] \in Bank /\ e[3] \in Slot /\ e[3] \in 0 .. e[3]
    BY GeometryAssumption DEF PreCells, Slot
  <2> QED BY <1>3, <2>1 DEF Listed
<1>5. Starts(chip) = {}
  BY <1>4 DEF Starts
<1> QED BY <1>2, <1>3, <1>5

LEMMA UtilStarts ==
    ASSUME UtilInit
    PROVE  UtilIInv
<1>1. /\ chip = [x \in Cell |-> FormatImage(x)] /\ util = [pc |-> "off"] /\ cuts = 0
      /\ tape = [rest |-> <<>>, status |-> "ok", left |-> 0, word |-> ERASED]
  BY DEF UtilInit
<1>2. \A l \in Locs : /\ chip[NextCell(l)] = ERASED /\ chip[CrcCell(l)] = ERASED
                      /\ chip[UsedCell(l)] = ERASED /\ chip[HdrCell(l)] = ERASED
                      /\ chip[DataCell(l)] = ERASED
  BY <1>1, FormatCells
<1>3. Starts(chip) = {} /\ \A b \in Bank, i \in Slot : chip[PreCell(b, i)] = ERASED
  BY <1>1, FormatCells
<1>4. ChipIInv(chip)
  <2>1. FreeIsErased(chip) /\ UsedFromFirst(chip)
    BY <1>2 DEF FreeIsErased, UsedFromFirst
  <2>2. NamesUsed(chip) /\ PreambleEnds(chip)
    BY <1>2, <1>3 DEF NamesUsed, PreambleEnds, NoLoc
  <2>3. Upward(chip) /\ StartsUnlinked(chip)
    BY <1>2, <1>3 DEF Upward, StartsUnlinked, NoLoc
  <2>4. LinkedOnce(chip)
    BY <1>2 DEF LinkedOnce, NoLoc
  <2> QED BY <2>1, <2>2, <2>3, <2>4 DEF ChipIInv
<1>5. chip \in Memory
  BY <1>1, BlankAndZeros
<1>6. tape \in Tape /\ tape.rest = <<>>
  <2>1. ERASED \in Word
    BY WordAssumption
  <2>2. <<>> \in Seq(TapeBlock)
    BY EmptySeq
  <2> QED BY <1>1, <2>1, <2>2 DEF Tape
<1>7. Whole(tape.rest) /\ AtStart(tape.rest)
  BY <1>6 DEF Whole, AtStart
<1>8. util \in Util /\ TapeIInv(tape, util) /\ StoringIInv(chip, util)
  <2>1. "off" \in Resting
    BY DEF Resting
  <2> QED BY <1>1, <1>7, <2>1, RestIInv
<1>9. NoneAstray
  BY <1>2 DEF NoneAstray
<1>10. UtilTypeOK
  BY <1>1, <1>5, <1>6, <1>8, TapeAssumption DEF UtilTypeOK
<1> QED BY <1>4, <1>8, <1>9, <1>10 DEF UtilIInv

\* Every step keeps the invariant, and changes the files by one at most.
LEMMA UtilKeeps ==
    ASSUME UtilIInv, [UtilNext]_utilVars
    PROVE  UtilIInv' /\ (chip' = chip \/ FilesStep(chip, chip'))
<1>1. CASE SwitchOn
  BY <1>1, SwitchOnKeeps
<1>2. CASE StartTape
  BY <1>2, StartTapeKeeps
<1>3. CASE EndProgram
  BY <1>3, EndProgramKeeps
<1>4. CASE StoreProgram
  BY <1>4, StoreProgramKeeps
<1>5. CASE SkipProgram
  BY <1>5, SkipProgramKeeps
<1>6. CASE sst39sf_write_byte
  BY <1>6, WriteByteKeeps
<1>7. CASE write_startbyte
  BY <1>7, WriteStartKeeps
<1>8. CASE ReadProgram
  BY <1>8, ReadProgramKeeps
<1>9. CASE NextBlock
  BY <1>9, NextBlockKeeps
<1>10. CASE ReportCopied
  BY <1>10, ReportCopiedKeeps
<1>11. CASE SkipBlock
  BY <1>11, SkipBlockKeeps
<1>12. CASE PowerCut
  BY <1>12, PowerCutKeeps
<1>13. CASE UNCHANGED utilVars
  BY <1>13 DEF utilVars, UtilIInv, UtilTypeOK, NoneAstray
<1> QED BY <1>1, <1>2, <1>3, <1>4, <1>5, <1>6, <1>7, <1>8, <1>9, <1>10, <1>11, <1>12, <1>13
        DEF UtilNext, StoringSteps

\* The invariant holds of the utility, however the tape fails and the power is lost.
THEOREM UtilInvariance == UtilSpec => []UtilIInv
<1>1. UtilInit => UtilIInv
  BY UtilStarts
<1>2. UtilIInv /\ [UtilNext]_utilVars => UtilIInv'
  BY UtilKeeps
<1> QED BY <1>1, <1>2, PTL DEF UtilSpec

\* The variables of the utility have their types (main.c, copy.c).
THEOREM UtilTyped == UtilSpec => []UtilTypeOK
<1>1. UtilIInv => UtilTypeOK
  BY DEF UtilIInv
<1> QED BY <1>1, UtilInvariance, PTL

-----------------------------------------------------------------------------
(***************************************************************************)
(* No block is lost.                                                       *)
(***************************************************************************)
\* Every used block that is reachable is in a chain of the directory: the
\* least that were not would be linked from one before it.
LEMMA ReachedFromStart ==
    ASSUME NEW rom \in Memory, ChipIInv(rom),
           \A l \in Locs : rom[UsedCell(l)] = ERASED \/ Reachable(rom, l),
           NEW l \in Locs, rom[UsedCell(l)] # ERASED
    PROVE  \E k \in Starts(rom) : l \in BlocksOf(rom, k)
<1> DEFINE Lost(m) == /\ m \in Locs /\ rom[UsedCell(m)] # ERASED
                      /\ \A k \in Starts(rom) : m \notin BlocksOf(rom, k)
           S == {m \in Locs : Lost(m)}
<1> SUFFICES ASSUME S # {} PROVE FALSE
  OBVIOUS
<1>1. S \in SUBSET Nat
  BY LocParts
<1>2. PICK m \in S : \A n \in S : m <= n
  <2> HIDE DEF S
  <2> QED BY <1>1, LeastNumber
<1>3. /\ m \in Locs /\ rom[UsedCell(m)] # ERASED
      /\ \A k \in Starts(rom) : m \notin BlocksOf(rom, k)
  OBVIOUS
<1>4. Upward(rom)
  BY DEF ChipIInv
<1>5. CASE m \in Starts(rom)
  <2>1. Path(rom, ChainOf(rom, m)) /\ ChainOf(rom, m)[1] = m
    BY <1>3, <1>4, ChainEnds
  <2>2. 1 \in DOMAIN ChainOf(rom, m)
    BY <2>1, LenProperties DEF Path
  <2>3. m \in BlocksOf(rom, m)
    BY <2>1, <2>2 DEF BlocksOf
  <2> QED BY <1>3, <1>5, <2>3
<1>6. CASE m \notin Starts(rom)
  <2>1. PICK p \in Locs : rom[NextCell(p)] = m
    BY <1>3, <1>6 DEF Reachable, Unlinked
  <2>2. m # NoLoc /\ p \in Nat /\ m \in Nat
    BY <1>3, LocParts
  <2>3. p < m
    BY <1>4, <2>1, <2>2 DEF Upward
  <2>4. rom[UsedCell(p)] # ERASED
    BY <2>1, <2>2 DEF ChipIInv, FreeIsErased, NoLoc
  <2>5. p \notin S
    BY <1>2, <2>2, <2>3
  <2>6. PICK k \in Starts(rom) : p \in BlocksOf(rom, k)
    BY <2>1, <2>4, <2>5
  <2>7. k \in Locs
    BY StartsInLocs
  <2> DEFINE s == ChainOf(rom, k)
  <2>8. Path(rom, s) /\ Ends(rom, s)
    BY <1>4, <2>7, ChainEnds
  <2>9. PICK i \in DOMAIN s : s[i] = p
    BY <2>6 DEF BlocksOf
  <2> HIDE DEF s
  <2>10. PICK n \in Nat : n = Len(s) /\ DOMAIN s = 1 .. n
    BY <2>8, LenProperties DEF Path
  <2>11. i # n
    BY <2>1, <2>2, <2>8, <2>9, <2>10 DEF Ends
  <2>12. i \in 1 .. n - 1 /\ i + 1 \in 1 .. n
    BY <2>10, <2>11
  <2>13. s[i + 1] = m
    BY <2>1, <2>8, <2>9, <2>10, <2>12 DEF Path
  <2>14. m \in BlocksOf(rom, k)
    BY <2>10, <2>12, <2>13 DEF BlocksOf, s
  <2> QED BY <1>3, <2>14
<1> QED BY <1>5, <1>6

\* As long as the power stays, every block belongs to a file or is free and
\* erased whenever the utility waits (main.c, copy.c).
THEOREM NoBlockAstray == UtilSpec => []NoBlockLost
<1>1. ASSUME UtilIInv PROVE NoBlockLost
  <2> SUFFICES ASSUME cuts = 0, util.pc \notin {"write", "entry"}
               PROVE  AllBlocksAccounted(chip)
    BY DEF NoBlockLost
  <2>1. chip \in Memory /\ ChipIInv(chip)
    BY <1>1 DEF UtilIInv, UtilTypeOK
  <2>2. \A l \in Locs : chip[UsedCell(l)] = ERASED \/ Reachable(chip, l)
    BY <1>1 DEF UtilIInv, NoneAstray
  <2>3. ASSUME NEW l \in Locs, chip[UsedCell(l)] = ERASED
        PROVE  /\ chip[UsedCell(l)] = ERASED
               /\ chip[NextCell(l)] = ERASED
               /\ chip[CrcCell(l)] = ERASED
               /\ chip[HdrCell(l)] = ERASED
               /\ chip[DataCell(l)] = ERASED
    BY <2>1, <2>3 DEF ChipIInv, FreeIsErased
  <2>4. ASSUME NEW l \in Locs, chip[UsedCell(l)] # ERASED
        PROVE  \E k \in Starts(chip) : l \in BlocksOf(chip, k)
    BY <2>1, <2>2, <2>4, ReachedFromStart
  <2> QED BY <2>3, <2>4 DEF AllBlocksAccounted
<1> QED BY <1>1, UtilInvariance, PTL

-----------------------------------------------------------------------------
(***************************************************************************)
(* The files on the chip.                                                  *)
(***************************************************************************)
WatchedIInv == UtilIInv /\ stored = FilesOn(chip)

LEMMA WatchedInvariance == WatchedSpec => []WatchedIInv
<1>1. WatchedInit => WatchedIInv
  BY UtilStarts DEF WatchedInit, WatchedIInv
<1>2. ASSUME WatchedIInv, [WatchedNext]_watchedVars
      PROVE  WatchedIInv'
  <2>1. [UtilNext]_utilVars
    BY <1>2 DEF WatchedNext, watchedVars
  <2>2. UtilIInv'
    BY <1>2, <2>1, UtilKeeps DEF WatchedIInv
  <2>3. CASE WatchedNext
    <3>1. chip' = chip => stored' = stored
      BY <2>3 DEF WatchedNext
    <3>2. chip' # chip => stored' = FilesOn(chip')
      BY <2>3 DEF WatchedNext
    <3> QED BY <1>2, <2>2, <3>1, <3>2 DEF WatchedIInv
  <2>4. CASE UNCHANGED watchedVars
    BY <1>2, <2>2, <2>4 DEF watchedVars, utilVars, WatchedIInv
  <2> QED BY <1>2, <2>3, <2>4
<1> QED BY <1>1, <1>2, PTL DEF WatchedSpec

\* What is reported as copied has been stored.
LEMMA ReportedIsStored ==
    ASSUME UtilIInv, ReportCopied, util.at # NoLoc
    PROVE  /\ util.start \in DOMAIN FilesOn(chip)
           /\ FilesOn(chip)[util.start] = util.data
<1>1. util.pc = "more" /\ tape.left <= 1
  BY DEF ReportCopied
<1>2. chip \in Memory /\ util \in Storing /\ tape \in Tape /\ ChipIInv(chip)
  BY <1>1, UtilParts DEF UtilIInv, UtilTypeOK
<1>3. /\ util.start \in Starts(chip) /\ chip[NextCell(util.at)] = NoLoc
      /\ Stored(chip, util.i + 1, util, util.at)
  BY <1>1 DEF UtilIInv, StoringIInv
<1>4. PICK i \in Nat : i = util.i
  BY <1>2, StoringParts
<1>5. PICK total \in 1 .. 255 : total = util.total
  BY <1>2, StoringParts
<1>6. PICK data \in Seq(Word) : data = util.data
  BY <1>2, StoringParts
<1>7. PICK left \in 0 .. 255 : left = tape.left
  BY <1>2, TapeParts
<1>8. PICK p \in Programs : Ahead(p, i + 1, tape) /\ Len(p) = total /\ Len(data) = i + 1
  BY <1>1, <1>4, <1>5, <1>6 DEF UtilIInv, TapeIInv
<1>9. PICK n \in Nat : n = i + 1 /\ n # 0
  OBVIOUS
<1>10. n = total
  <2>1. n \in 1 .. Len(p) /\ Len(p) = tape.left + n - 1
    BY <1>8, <1>9 DEF Ahead
  <2>2. n <= total /\ total = left + n - 1
    BY <1>7, <1>8, <2>1
  <2>3. left <= 1
    BY <1>1, <1>7
  <2> QED BY <2>2, <2>3
<1>11. PICK s \in [1 .. n -> Locs] : Copied(chip, s, n, util) /\ s[n] = util.at
  BY <1>3, <1>4, <1>9 DEF Stored
<1>12. chip[NextCell(s[n])] = NoLoc /\ Upward(chip)
  BY <1>2, <1>3, <1>11 DEF ChipIInv
<1>13. n \in Nat \ {0} /\ util.total \in Nat
  <2>1. total \in Nat
    OBVIOUS
  <2> QED BY <1>5, <1>9, <2>1
<1>14. Sound(chip, util.start) <=> n = util.total
  BY <1>2, <1>11, <1>12, <1>13, CopiedIsFile
<1>15. Held(chip, util.start) = [j \in 1 .. n |-> util.data[j]]
  BY <1>2, <1>11, <1>12, <1>13, CopiedIsFile
<1>16. util.data = [j \in 1 .. n |-> util.data[j]]
  <2>1. data = [j \in 1 .. n |-> data[j]]
    BY <1>8, <1>9, LenProperties
  <2> QED BY <1>6, <2>1
<1>17. Sound(chip, util.start)
  BY <1>5, <1>10, <1>14
<1>18. /\ DOMAIN FilesOn(chip) = {k \in Starts(chip) : Sound(chip, k)}
       /\ \A k \in {k \in Starts(chip) : Sound(chip, k)} : FilesOn(chip)[k] = Held(chip, k)
  BY FilesOnIs
<1> QED BY <1>3, <1>15, <1>16, <1>17, <1>18

\* A file reported as copied reads back from the chip as it was on the tape,
\* as long as a block is free (main.c:120).
THEOREM CopiedIsThere == WatchedSpec => CopiedWhileRoom
<1>1. ASSUME WatchedIInv, [WatchedNext]_watchedVars
      PROVE  [util.pc = "more" /\ util'.pc = "next" /\ util.at # NoLoc =>
                /\ util.start \in DOMAIN stored
                /\ stored[util.start] = util.data]_utilVars
  <2> SUFFICES ASSUME util.pc = "more", util'.pc = "next", util.at # NoLoc
               PROVE  util.start \in DOMAIN stored /\ stored[util.start] = util.data
    OBVIOUS
  <2>1. UtilNext
    BY <1>1 DEF WatchedNext, watchedVars, utilVars
  <2>2. ReportCopied
    <3>1. ~SwitchOn /\ ~StartTape /\ ~EndProgram /\ ~StoreProgram /\ ~SkipProgram
      BY DEF SwitchOn, StartTape, EndProgram, StoreProgram, SkipProgram
    <3>2. ~sst39sf_write_byte /\ ~write_startbyte /\ ~ReadProgram /\ ~SkipBlock
      BY DEF sst39sf_write_byte, write_startbyte, ReadProgram, SkipBlock
    <3>3. ~PowerCut
      BY DEF PowerCut, Goto
    <3>4. ~NextBlock
      <4> SUFFICES ASSUME NextBlock PROVE FALSE
        OBVIOUS
      <4>1. \/ Goto("off")
            \/ copyblock(util.at, util.start, util.i + 1, util.total,
                         Append(util.data, tape'.word))
        BY DEF NextBlock, GiveUp
      <4>2. util'.pc \in {"off", "more", "write"}
        BY <4>1 DEF copyblock, Goto
      <4> QED BY <4>2
    <3> QED BY <2>1, <3>1, <3>2, <3>3, <3>4 DEF UtilNext, StoringSteps
  <2> QED BY <1>1, <2>2, ReportedIsStored DEF WatchedIInv
<1> QED BY <1>1, WatchedInvariance, PTL DEF WatchedSpec, CopiedWhileRoom

\* The chip is a store of whole files after every write of a cell, whenever
\* the power is lost (copyblock, write_startbyte).
THEOREM CopyAtomic == WatchedSpec => CopyIsAtomic
<1>1. WatchedInit => Store!StoreInit
  <2> SUFFICES ASSUME WatchedInit PROVE stored = [h \in {} |-> <<>>]
    BY DEF Store!StoreInit
  <2>1. Starts(chip) = {}
    BY FormatCells DEF WatchedInit, UtilInit
  <2>2. {k \in Starts(chip) : Sound(chip, k)} = {}
    BY <2>1
  <2>3. FilesOn(chip) = [l \in {} |-> Held(chip, l)]
    BY <2>2, FilesOnIs
  <2>4. FilesOn(chip) = [h \in {} |-> <<>>]
    BY <2>3
  <2> QED BY <2>4 DEF WatchedInit
<1>2. ASSUME WatchedIInv, WatchedIInv', [WatchedNext]_watchedVars
      PROVE  [Store!StoreNext]_stored
  <2>1. [UtilNext]_utilVars
    BY <1>2 DEF WatchedNext, watchedVars
  <2>2. chip' = chip \/ FilesStep(chip, chip')
    BY <1>2, <2>1, UtilKeeps DEF WatchedIInv
  <2>3. stored = FilesOn(chip) /\ stored' = FilesOn(chip')
    BY <1>2 DEF WatchedIInv
  <2>4. CASE stored' = stored
    BY <2>4
  <2>5. CASE stored' # stored
    <3>1. PICK h \in Locs, p \in Programs : p # <<>> /\ Added(chip, chip', h, p)
      BY <2>2, <2>3, <2>5 DEF FilesStep
    <3>2. /\ h \notin DOMAIN stored
          /\ stored' = [k \in DOMAIN stored \cup {h} |-> IF k = h THEN p ELSE stored[k]]
      BY <2>3, <3>1 DEF Added
    <3>3. FilesOn(chip') = [k \in DOMAIN stored \cup {h} |-> IF k = h THEN p ELSE stored[k]]
      BY <2>3, <3>2
    <3>4. chip' \in Memory /\ Upward(chip') /\ LinkedOnce(chip') /\ StartsUnlinked(chip')
      BY <1>2 DEF WatchedIInv, UtilIInv, UtilTypeOK, ChipIInv
    <3>5. Len(p) \in Nat /\ DOMAIN p = 1 .. Len(p)
      BY GeometryAssumption, LenProperties
    <3>6. Cardinality(Pieces(stored)) + Len(p) <= NBANKS * NBLOCKS
      BY <3>2, <3>3, <3>4, <3>5, RoomForOneMore
    <3>7. Store!Occupied = Cardinality(Pieces(stored))
      <4>1. \A S : Store!Cardinality(S) = Cardinality(S)
        BY Zenon DEF Store!Cardinality, Cardinality
      <4> QED BY <4>1 DEF Store!Occupied, Pieces
    <3>8. Store!Add(h, p)
      BY <3>2, <3>6, <3>7 DEF Store!Add
    <3>9. p \in {c \in Programs : c # <<>>}
      BY <3>1
    <3> QED BY <3>8, <3>9 DEF Store!StoreNext
  <2> QED BY <2>4, <2>5
<1> QED BY <1>1, <1>2, WatchedInvariance, PTL DEF WatchedSpec, CopyIsAtomic, Store!StoreSpec
=============================================================================
