------------------------------- MODULE RomFat -------------------------------
(***************************************************************************)
(* The layout of a data cartridge (docs/fat.md): banks of NBLOCKS storage  *)
(* blocks, each bank led by one metadata sector that holds a preamble (the *)
(* start blocks of the files that begin in this bank) and one descriptor   *)
(* per block.  The module also holds what a flash chip does to a cell and  *)
(* the cache arithmetic of FileAllocationTable, as operators on values.    *)
(*                                                                         *)
(* Memory is a function from cells to words.  A cell stands for the bytes  *)
(* the code always writes together: a preamble entry, one field of a       *)
(* descriptor, or the 0x400 bytes of a block.                              *)
(***************************************************************************)
EXTENDS Integers, FiniteSets, Sequences

CONSTANTS
    NBANKS,            \* 2, 4 or 8 by chip type
    NBLOCKS,           \* storage blocks per bank: 60
    METAS_PER_PAGE,    \* block descriptors in a 256-byte page: 4
    BLOCKS_PER_SECTOR, \* blocks of data in a 4k sector: 4
    SLOTS,             \* entries the preamble page can hold: 256
    MAX_LINKS,         \* links followed before a chain counts as cyclic: 256
    Programs,          \* the CAS files a user may add: sequences of words,
                       \* one word per 0x400 bytes of data
    Word,              \* the words a cell may hold
    BitAnd(_, _),      \* bitwise and of two words
    Crc16(_)           \* crc16_xmodem of the block that holds a word

ERASED == 65535
Bank   == 0 .. NBANKS - 1
Block  == 0 .. NBLOCKS - 1
Slot   == 0 .. SLOTS - 1

\* A block of the chip is named as the link field on the chip names it: the
\* bank in the first byte, the block in the second.
Loc(b, k)  == 256 * b + k
Locs       == {Loc(b, k) : b \in Bank, k \in Block}
BankOf(l)  == l \div 256
BlockOf(l) == l % 256

\* The geometry of the code: bank and block numbers and 0xFF fit a byte.
ASSUME GeometryAssumption ==
    /\ NBANKS \in 1 .. 255
    /\ NBLOCKS \in 1 .. 255
    /\ SLOTS \in Nat /\ SLOTS > NBLOCKS
    /\ METAS_PER_PAGE \in Nat \ {0}
    /\ BLOCKS_PER_SECTOR \in Nat \ {0}
    /\ MAX_LINKS \in Nat \ {0}
    /\ Programs \subseteq Seq(Word)

-----------------------------------------------------------------------------
(***************************************************************************)
(* Cells, pages and sectors.                                               *)
(***************************************************************************)
PreCell(b, i)  == <<"pre", b, i>>
FmtCell(l)     == <<"fmt", BankOf(l), BlockOf(l)>>   \* bytes 00-02
NextCell(l)    == <<"next", BankOf(l), BlockOf(l)>>  \* bytes 03-04
CrcCell(l)     == <<"crc", BankOf(l), BlockOf(l)>>   \* bytes 06-07
UsedCell(l)    == <<"used", BankOf(l), BlockOf(l)>>  \* byte 08
HdrCell(l)     == <<"hdr", BankOf(l), BlockOf(l)>>   \* bytes 09-0A, 20-3F
DataCell(l)    == <<"data", BankOf(l), BlockOf(l)>>

MetaFields == {"fmt", "next", "crc", "used", "hdr"}
PreCells   == {"pre"} \X Bank \X Slot
MetaCells  == MetaFields \X Bank \X Block
DataCells  == {"data"} \X Bank \X Block
Cell       == PreCells \cup MetaCells \cup DataCells

\* A data page stands for the four 256-byte pages of a block: the code marks
\* and reads them together.
PrePage(b)  == <<"pre", b, 0>>
MetaPage(l) == <<"meta", BankOf(l), BlockOf(l) \div METAS_PER_PAGE>>
DataPage(l) == <<"data", BankOf(l), BlockOf(l)>>

PrePages == {PrePage(b) : b \in Bank}
MetaPages == {MetaPage(l) : l \in Locs}
Page == PrePages \cup MetaPages \cup DataCells

PageOf == [x \in Cell |->
              CASE x[1] = "pre"  -> PrePage(x[2])
                [] x[1] = "data" -> x
                [] OTHER         -> <<"meta", x[2], x[3] \div METAS_PER_PAGE>>]

\* Sector 0 of a bank holds its metadata, the others its blocks.
MetaSector(b) == <<b, 0>>
SectorOf == [p \in Page |->
                IF p[1] = "data" THEN <<p[2], 1 + p[3] \div BLOCKS_PER_SECTOR>>
                                 ELSE MetaSector(p[2])]
Sector  == {SectorOf[p] : p \in Page}
PagesIn == [s \in Sector |-> {p \in Page : SectorOf[p] = s}]

SectorBefore(s, t) == \/ s[1] < t[1]
                      \/ s[1] = t[1] /\ s[2] < t[2]
\* Position of a page in its sector, and of a cell among its sector's bytes.
PageIndex(p) == IF p[1] = "meta" THEN 1 + p[3] ELSE p[3]
FieldRank == [f \in MetaFields |->
                CASE f = "fmt" -> 0 [] f = "next" -> 1 [] f = "crc" -> 2
                  [] f = "used" -> 3 [] OTHER -> 4]
CellIndex(x) == IF x[1] \in MetaFields THEN SLOTS + 5 * x[3] + FieldRank[x[1]]
                                       ELSE x[3]

-----------------------------------------------------------------------------
(***************************************************************************)
(* What a cell can hold.  FORMATTED in an "fmt" cell says that its three   *)
(* bytes are the bank, 0x00 and the upper byte of the block's address.     *)
(***************************************************************************)
USED      == 0
FORMATTED == 1
NoLoc     == ERASED                   \* <<0xFF, 0xFF>>

ValuesOf(f) == CASE f = "pre"  -> Block \cup {ERASED}
                 [] f = "fmt"  -> {0, FORMATTED, ERASED}
                 [] f = "next" -> Locs \cup {ERASED}
                 [] f = "used" -> {USED, ERASED}
                 [] OTHER      -> Word
Memory == {m \in [Cell -> Word] : \A x \in Cell : m[x] \in ValuesOf(x[1])}

\* The bytes add_file writes at 09 (current block) and 0A (total blocks).
Header(prog, i) == (i % 256) + 256 * (Len(prog) % 256)

\* Programming a flash chip can only clear bits.
ASSUME WordAssumption ==
    /\ {0, 1, ERASED} \cup Block \cup Locs \subseteq Word
    /\ \A x \in Word : /\ BitAnd(x, x) = x
                       /\ BitAnd(x, ERASED) = x
                       /\ BitAnd(ERASED, x) = x
                       /\ Crc16(x) \in Word
    /\ \A f \in MetaFields \cup {"pre", "data"} :
          \A x, y \in ValuesOf(f) : BitAnd(x, y) \in ValuesOf(f)
    /\ \A p \in Programs : \A i \in 0 .. Len(p) : Header(p, i) \in Word

Blank == [x \in Cell |-> ERASED]
Zeros == [x \in Cell |-> 0]           \* std::vector<char>(n, 0x00)

\* What format_chip burns into a sector it has erased.
FormatImage(x) == IF x[1] = "fmt" THEN FORMATTED ELSE ERASED

-----------------------------------------------------------------------------
(***************************************************************************)
(* The cache: m.c is contents, m.s is cache_status.                        *)
(***************************************************************************)
CACHE_UNKNOWN        == 0
CACHE_SYNCED         == 1
CACHE_WRITE_NONERASE == 2
CACHE_WRITE_ERASE    == 3
Status == 0 .. 3
Dirty  == {CACHE_WRITE_NONERASE, CACHE_WRITE_ERASE}

\* Read the pages P of chip rom into the cache.
Fetch(m, rom, P) ==
    [c |-> [x \in Cell |-> IF PageOf[x] \in P THEN rom[x] ELSE m.c[x]],
     s |-> [p \in Page |-> IF p \in P THEN CACHE_SYNCED ELSE m.s[p]]]

\* read_block of every page of P: any status but SYNCED reads the chip.
read_block(m, rom, P) == Fetch(m, rom, {p \in P : m.s[p] # CACHE_SYNCED})

\* Mutant: only the first page of a sector is looked at.
UnreadFirst(m, S) ==
    {t \in S : \E p \in PagesIn[t] :
        /\ m.s[p] = CACHE_UNKNOWN
        /\ \A q \in PagesIn[t] : PageIndex(p) <= PageIndex(q)}

\* read_sector of every sector of S: one unknown page reloads all of them.
Unread(m, S) == {t \in S : \E p \in PagesIn[t] : m.s[p] = CACHE_UNKNOWN}
read_sector(m, rom, S) == Fetch(m, rom, UNION {PagesIn[t] : t \in Unread(m, S)})

update_cache_status(m, P, st) ==
    [m EXCEPT !.s = [p \in Page |-> IF p \in P THEN st ELSE m.s[p]]]

\* Overwrite the cells in the domain of w.
Put(m, w) ==
    [m EXCEPT !.c = [x \in Cell |-> IF x \in DOMAIN w THEN w[x] ELSE m.c[x]]]

\* find_next_free_block: banks are loaded one by one up to the first that
\* has a free block, which is the first free block of the chip.
ScannedAll(m, rom) == read_sector(m, rom, {MetaSector(b) : b \in Bank})
FreeBlocks(m, rom) == {l \in Locs : ScannedAll(m, rom).c[UsedCell(l)] = ERASED}
IsFirst(l, S) == l \in S /\ \A k \in S : l <= k
ScannedTo(m, rom, l) ==
    read_sector(m, rom, {MetaSector(b) : b \in 0 .. BankOf(l)})

-----------------------------------------------------------------------------
(***************************************************************************)
(* The directory: a preamble lists blocks up to its first 0xFF.            *)
(***************************************************************************)
\* Slot i of bank b lies before the 0xFF that ends the preamble.
Listed(mem, b, i) == \A j \in 0 .. i : mem[PreCell(b, j)] # ERASED
Starts(mem) == {Loc(e[2], mem[e]) : e \in {e \in PreCells : Listed(mem, e[2], e[3])}}
=============================================================================
