---------------------------- MODULE RomFatProofs ----------------------------
(***************************************************************************)
(* Lemmas about the layout of a cartridge, the operators of the cache, and *)
(* the chains of blocks that make files.                                   *)
(***************************************************************************)
EXTENDS Cartridge, FiniteSetTheorems, SequenceTheorems, TLAPS

-----------------------------------------------------------------------------
(***************************************************************************)
(* Locations.                                                              *)
(***************************************************************************)
LEMMA LocSplit ==
    ASSUME NEW b \in Bank, NEW k \in Block
    PROVE  /\ Loc(b, k) \in Locs
           /\ BankOf(Loc(b, k)) = b
           /\ BlockOf(Loc(b, k)) = k
           /\ Loc(b, k) \in Nat /\ Loc(b, k) < NoLoc
<1>1. b \in Nat /\ b <= 254 /\ k \in Nat /\ k <= 254
  BY GeometryAssumption DEF Bank, Block
<1>2. (256 * b + k) \div 256 = b /\ (256 * b + k) % 256 = k
  BY <1>1
<1> QED BY <1>1, <1>2 DEF Locs, Loc, BankOf, BlockOf, NoLoc, ERASED

LEMMA LocParts ==
    ASSUME NEW l \in Locs
    PROVE  /\ BankOf(l) \in Bank
           /\ BlockOf(l) \in Block
           /\ l \in Nat /\ l < NoLoc
<1>1. PICK b \in Bank, k \in Block : l = Loc(b, k)
  BY DEF Locs
<1> QED BY <1>1, LocSplit

-----------------------------------------------------------------------------
(***************************************************************************)
(* Cells, pages and sectors.                                               *)
(***************************************************************************)
LEMMA DivNat ==
    ASSUME NEW a \in Nat, NEW d \in Nat \ {0}
    PROVE  a \div d \in Nat
OBVIOUS

LEMMA CellsOfLoc ==
    ASSUME NEW l \in Locs
    PROVE  /\ {FmtCell(l), NextCell(l), CrcCell(l), UsedCell(l), HdrCell(l)}
                  \subseteq MetaCells
           /\ DataCell(l) \in DataCells
BY LocParts DEF FmtCell, NextCell, CrcCell, UsedCell, HdrCell, DataCell,
                MetaCells, DataCells, MetaFields

LEMMA PagesOfLoc ==
    ASSUME NEW l \in Locs
    PROVE  MetaPage(l) \in Page /\ DataPage(l) \in Page
BY LocParts DEF Page, MetaPages, MetaPage, DataPage, DataCells

LEMMA PrePageIsPage ==
    ASSUME NEW b \in Bank
    PROVE  PrePage(b) \in Page
BY DEF Page, PrePages

LEMMA SectorOfIsSector ==
    ASSUME NEW p \in Page
    PROVE  SectorOf[p] \in Sector /\ p \in PagesIn[SectorOf[p]]
BY DEF Sector, PagesIn

\* The metadata sector of a bank is the sector of its preamble page and of
\* the descriptors of its blocks.
LEMMA MetaSectorOf ==
    /\ \A b \in Bank : /\ MetaSector(b) \in Sector
                       /\ SectorOf[PrePage(b)] = MetaSector(b)
    /\ \A l \in Locs : SectorOf[MetaPage(l)] = MetaSector(BankOf(l))
<1>1. ASSUME NEW b \in Bank
      PROVE  SectorOf[PrePage(b)] = MetaSector(b)
  BY PrePageIsPage DEF SectorOf, PrePage, MetaSector
<1>2. ASSUME NEW l \in Locs
      PROVE  SectorOf[MetaPage(l)] = MetaSector(BankOf(l))
  BY PagesOfLoc DEF SectorOf, MetaPage, MetaSector
<1> QED BY <1>1, <1>2, PrePageIsPage, SectorOfIsSector

-----------------------------------------------------------------------------
(***************************************************************************)
(* Values of cells.                                                        *)
(***************************************************************************)
LEMMA FieldOfCell ==
    ASSUME NEW x \in Cell
    PROVE  x[1] \in MetaFields \cup {"pre", "data"}
BY DEF Cell, PreCells, MetaCells, DataCells

LEMMA ValuesInWord ==
    ASSUME NEW x \in Cell
    PROVE  ValuesOf(x[1]) \subseteq Word
BY WordAssumption DEF ValuesOf, FORMATTED, USED

LEMMA ConstantsAreValues ==
    ASSUME NEW x \in Cell
    PROVE  /\ 0 \in ValuesOf(x[1])
           /\ ERASED \in ValuesOf(x[1])
           /\ FormatImage(x) \in ValuesOf(x[1])
<1>1. 0 \in Block /\ 0 \in Bank
  BY GeometryAssumption DEF Block, Bank
<1>2. Loc(0, 0) \in Locs /\ Loc(0, 0) = 0
  BY <1>1, LocSplit DEF Loc
<1>3. 0 \in Word /\ ERASED \in Word
  BY WordAssumption
<1>4. 0 \in ValuesOf(x[1]) /\ ERASED \in ValuesOf(x[1])
  BY <1>1, <1>2, <1>3 DEF ValuesOf, USED
<1>5. x[1] = "fmt" => FORMATTED \in ValuesOf(x[1])
  BY DEF ValuesOf
<1> QED BY <1>4, <1>5 DEF FormatImage

LEMMA MemoryValue ==
    ASSUME NEW m \in Memory, NEW x \in Cell
    PROVE  m[x] \in ValuesOf(x[1]) /\ m[x] \in Word
BY DEF Memory

LEMMA MemoryByCell ==
    ASSUME NEW m, m = [x \in Cell |-> m[x]],
           \A x \in Cell : m[x] \in ValuesOf(x[1])
    PROVE  m \in Memory
BY ValuesInWord DEF Memory

LEMMA StartsInLocs ==
    ASSUME NEW mem \in Memory
    PROVE  Starts(mem) \subseteq Locs
<1> SUFFICES ASSUME NEW e \in PreCells, Listed(mem, e[2], e[3])
             PROVE  Loc(e[2], mem[e]) \in Locs
  BY DEF Starts
<1>1. e[1] = "pre" /\ e[2] \in Bank /\ e[3] \in Slot /\ e = <<e[1], e[2], e[3]>>
  BY DEF PreCells
<1>2. e \in Cell /\ e = PreCell(e[2], e[3]) /\ e[3] \in 0 .. e[3]
  BY <1>1 DEF Cell, PreCell, Slot
<1>3. mem[e] # ERASED
  BY <1>2 DEF Listed
<1>4. mem[e] \in Block
  BY <1>1, <1>2, <1>3, MemoryValue DEF ValuesOf
<1> QED BY <1>1, <1>4, LocSplit

-----------------------------------------------------------------------------
(***************************************************************************)
(* Types of the operators of the cache.                                    *)
(***************************************************************************)
CacheType == [c : Memory, s : [Page -> Status]]

LEMMA FetchType ==
    ASSUME NEW m \in CacheType, NEW rom \in Memory, NEW P
    PROVE  Fetch(m, rom, P) \in CacheType
<1> DEFINE c == [x \in Cell |-> IF PageOf[x] \in P THEN rom[x] ELSE m.c[x]]
           s == [p \in Page |-> IF p \in P THEN CACHE_SYNCED ELSE m.s[p]]
<1>1. m.c \in Memory /\ m.s \in [Page -> Status]
  BY DEF CacheType
<1>2. \A x \in Cell : c[x] \in ValuesOf(x[1])
  BY <1>1, MemoryValue
<1>3. c \in Memory
  BY <1>2, MemoryByCell
<1>4. CACHE_SYNCED \in Status
  BY DEF CACHE_SYNCED, Status
<1>5. s \in [Page -> Status]
  BY <1>1, <1>4
<1> HIDE DEF c, s
<1>6. [c |-> c, s |-> s] \in CacheType
  BY <1>3, <1>5 DEF CacheType
<1> QED BY <1>6 DEF Fetch, c, s

LEMMA ReadType ==
    ASSUME NEW m \in CacheType, NEW rom \in Memory, NEW P
    PROVE  read_block(m, rom, P) \in CacheType /\ read_sector(m, rom, P) \in CacheType
BY FetchType DEF read_block, read_sector

LEMMA UpdateType ==
    ASSUME NEW m \in CacheType, NEW P, NEW st \in Status
    PROVE  update_cache_status(m, P, st) \in CacheType
BY DEF update_cache_status, CacheType

LEMMA PutType ==
    ASSUME NEW m \in CacheType, NEW w,
           \A x \in Cell : x \in DOMAIN w => w[x] \in ValuesOf(x[1])
    PROVE  Put(m, w) \in CacheType
<1> DEFINE c == [x \in Cell |-> IF x \in DOMAIN w THEN w[x] ELSE m.c[x]]
<1>1. m.c \in Memory
  BY DEF CacheType
<1>2. \A x \in Cell : c[x] \in ValuesOf(x[1])
  BY <1>1, MemoryValue
<1>3. c \in Memory
  BY <1>2, MemoryByCell
<1> HIDE DEF c
<1>4. [m EXCEPT !.c = c] \in CacheType
  BY <1>3 DEF CacheType
<1> QED BY <1>4 DEF Put, c

LEMMA CacheTypeParts ==
    ASSUME NEW c \in Memory, NEW s \in [Page -> Status]
    PROVE  [c |-> c, s |-> s] \in CacheType
BY DEF CacheType

LEMMA BlankAndZeros ==
    /\ Blank \in Memory
    /\ Zeros \in Memory
    /\ [x \in Cell |-> FormatImage(x)] \in Memory
<1>1. Blank \in Memory
  BY ConstantsAreValues, MemoryByCell DEF Blank
<1>2. Zeros \in Memory
  BY ConstantsAreValues, MemoryByCell DEF Zeros
<1>3. [x \in Cell |-> FormatImage(x)] \in Memory
  <2> DEFINE image == [x \in Cell |-> FormatImage(x)]
  <2>1. \A x \in Cell : image[x] \in ValuesOf(x[1])
    BY ConstantsAreValues
  <2>2. image = [x \in Cell |-> image[x]]
    OBVIOUS
  <2> HIDE DEF image
  <2>3. image \in Memory
    BY <2>1, <2>2, MemoryByCell
  <2> QED BY <2>3 DEF image
<1> QED BY <1>1, <1>2, <1>3

-----------------------------------------------------------------------------
(***************************************************************************)
(* No sector with a page to write has a page that was never read.          *)
(***************************************************************************)
SectorLoaded(st, s) == \A q \in PagesIn[s] : st[q] # CACHE_UNKNOWN
NoDirty(st)         == \A p \in Page : st[p] \notin Dirty
LoadedPages(st)     == \A p \in Page : st[p] \in Dirty => SectorLoaded(st, SectorOf[p])

LEMMA PagesInPage ==
    ASSUME NEW s \in Sector
    PROVE  PagesIn[s] \subseteq Page /\ \A p \in PagesIn[s] : SectorOf[p] = s
BY DEF PagesIn

\* Reading pages loses no sector and dirties no page.
LEMMA FetchLoads ==
    ASSUME NEW m \in CacheType, NEW rom, NEW P
    PROVE  /\ \A s \in Sector : SectorLoaded(m.s, s) =>
                                    SectorLoaded(Fetch(m, rom, P).s, s)
           /\ NoDirty(m.s) => NoDirty(Fetch(m, rom, P).s)
           /\ LoadedPages(m.s) => LoadedPages(Fetch(m, rom, P).s)
           /\ \A p \in Page : p \in P => Fetch(m, rom, P).s[p] = CACHE_SYNCED
<1> DEFINE st == Fetch(m, rom, P).s
<1>1. \A p \in Page : st[p] = IF p \in P THEN CACHE_SYNCED ELSE m.s[p]
  BY DEF Fetch
<1>2. CACHE_SYNCED # CACHE_UNKNOWN /\ CACHE_SYNCED \notin Dirty
  BY DEF CACHE_SYNCED, CACHE_UNKNOWN, Dirty, CACHE_WRITE_ERASE, CACHE_WRITE_NONERASE
<1> HIDE DEF st
<1>3. ASSUME NEW s \in Sector, SectorLoaded(m.s, s)
      PROVE  SectorLoaded(st, s)
  BY <1>1, <1>2, <1>3, PagesInPage DEF SectorLoaded
<1>4. NoDirty(m.s) => NoDirty(st)
  BY <1>1, <1>2 DEF NoDirty
<1>5. LoadedPages(m.s) => LoadedPages(st)
  BY <1>1, <1>2, <1>3, SectorOfIsSector DEF LoadedPages
<1> QED BY <1>1, <1>3, <1>4, <1>5 DEF st

LEMMA ReadLoads ==
    ASSUME NEW m \in CacheType, NEW rom, NEW P
    PROVE  /\ \A s \in Sector :
                 SectorLoaded(m.s, s) => /\ SectorLoaded(read_block(m, rom, P).s, s)
                                         /\ SectorLoaded(read_sector(m, rom, P).s, s)
           /\ NoDirty(m.s) => /\ NoDirty(read_block(m, rom, P).s)
                              /\ NoDirty(read_sector(m, rom, P).s)
           /\ LoadedPages(m.s) => /\ LoadedPages(read_block(m, rom, P).s)
                                  /\ LoadedPages(read_sector(m, rom, P).s)
BY FetchLoads DEF read_block, read_sector

\* What read_sector is for: afterwards nothing of the sector is unknown.
LEMMA ReadSectorLoads ==
    ASSUME NEW m \in CacheType, NEW rom, NEW S, S \subseteq Sector, NEW s \in S
    PROVE  SectorLoaded(read_sector(m, rom, S).s, s)
<1>1. CASE s \in Unread(m, S)
  <2>1. \A q \in PagesIn[s] :
            read_sector(m, rom, S).s[q] = CACHE_SYNCED
    BY <1>1, FetchLoads, PagesInPage DEF read_sector
  <2> QED BY <2>1 DEF SectorLoaded, CACHE_SYNCED, CACHE_UNKNOWN
<1>2. CASE s \notin Unread(m, S)
  <2>1. SectorLoaded(m.s, s)
    BY <1>2 DEF Unread, SectorLoaded
  <2> QED BY <2>1, ReadLoads
<1> QED BY <1>1, <1>2

\* Marking pages of loaded sectors for writing.
LEMMA MarkLoads ==
    ASSUME NEW m \in CacheType, NEW P, NEW st \in Dirty,
           LoadedPages(m.s),
           \A p \in Page : p \in P => SectorLoaded(m.s, SectorOf[p])
    PROVE  /\ LoadedPages(update_cache_status(m, P, st).s)
           /\ \A s \in Sector : SectorLoaded(m.s, s) =>
                   SectorLoaded(update_cache_status(m, P, st).s, s)
<1> DEFINE new == update_cache_status(m, P, st).s
<1>1. \A p \in Page : new[p] = IF p \in P THEN st ELSE m.s[p]
  BY DEF update_cache_status, CacheType
<1>2. st # CACHE_UNKNOWN
  BY DEF CACHE_UNKNOWN, Dirty, CACHE_WRITE_ERASE, CACHE_WRITE_NONERASE
<1> HIDE DEF new
<1>3. ASSUME NEW s \in Sector, SectorLoaded(m.s, s)
      PROVE  SectorLoaded(new, s)
  BY <1>1, <1>2, <1>3, PagesInPage DEF SectorLoaded
<1>4. LoadedPages(new)
  BY <1>1, <1>3, SectorOfIsSector DEF LoadedPages
<1> QED BY <1>3, <1>4 DEF new

-----------------------------------------------------------------------------
(***************************************************************************)
(* Numbers and sequences.                                                  *)
(***************************************************************************)
\* A set of numbers that is not empty has a least one.
LEMMA LeastNumber ==
    ASSUME NEW S \in SUBSET Nat, S # {}
    PROVE  \E n \in S : \A m \in S : n <= m
<1>1. PICK k \in S : TRUE
  OBVIOUS
<1> DEFINE U == {0 .. n : n \in {i \in S : i <= k}}
<1>2. IsWellFoundedOn(StrictSubsetOrdering(0 .. k), FiniteSubsetsOf(0 .. k))
  BY FS_StrictSubsetOrderingWellFounded
<1>3. U \subseteq FiniteSubsetsOf(0 .. k) /\ U # {}
  <2>1. ASSUME NEW n \in S, n <= k PROVE 0 .. n \in FiniteSubsetsOf(0 .. k)
    <3>1. IsFiniteSet(0 .. n)
      BY FS_Interval
    <3>2. 0 .. n \in SUBSET (0 .. k)
      BY <2>1
    <3> QED BY <3>1, <3>2 DEF FiniteSubsetsOf
  <2> QED BY <2>1
<1>4. PICK X \in U : \A Y \in U : ~(<<Y, X>> \in StrictSubsetOrdering(0 .. k))
  <2> HIDE DEF U
  <2> QED BY <1>2, <1>3, WFMin
<1>5. PICK n \in S : n <= k /\ X = 0 .. n
  OBVIOUS
<1>6. ASSUME NEW m \in S, m < n PROVE FALSE
  <2>1. 0 .. m \in U
    BY <1>5, <1>6
  <2>2. 0 .. m \subseteq X /\ 0 .. m # X /\ X \subseteq 0 .. k
    <3>1. n \in X /\ n \notin 0 .. m
      BY <1>5, <1>6
    <3> QED BY <1>5, <1>6, <3>1
  <2>3. <<0 .. m, X>> \in StrictSubsetOrdering(0 .. k)
    BY <2>2 DEF StrictSubsetOrdering
  <2> QED BY <1>4, <2>1, <2>3
<1> QED BY <1>5, <1>6

\* A chip has no more blocks than banks times blocks per bank.
LEMMA LocsFinite ==
    /\ IsFiniteSet(Locs)
    /\ Cardinality(Locs) \in Nat
    /\ Cardinality(Locs) <= NBANKS * NBLOCKS
    /\ NBANKS * NBLOCKS \in Nat \ {0}
<1>0. NBANKS \in Nat \ {0} /\ NBLOCKS \in Nat \ {0}
  BY GeometryAssumption
<1>1. IsFiniteSet(Bank) /\ Cardinality(Bank) = NBANKS
  BY <1>0, FS_Interval DEF Bank
<1>2. IsFiniteSet(Block) /\ Cardinality(Block) = NBLOCKS
  BY <1>0, FS_Interval DEF Block
<1>3. IsFiniteSet(Bank \X Block) /\ Cardinality(Bank \X Block) = NBANKS * NBLOCKS
  BY <1>1, <1>2, FS_Product
<1> DEFINE f == [e \in Bank \X Block |-> Loc(e[1], e[2])]
<1>4. f \in Surjection(Bank \X Block, Locs)
  <2>1. f \in [Bank \X Block -> Locs]
    BY LocSplit
  <2>2. ASSUME NEW l \in Locs PROVE \E e \in Bank \X Block : f[e] = l
    <3>1. PICK b \in Bank, k \in Block : l = Loc(b, k)
      BY DEF Locs
    <3>2. <<b, k>> \in Bank \X Block /\ f[<<b, k>>] = l
      BY <3>1
    <3> QED BY <3>2
  <2> QED BY <2>1, <2>2 DEF Surjection
<1> HIDE DEF f
<1>5. IsFiniteSet(Locs) /\ Cardinality(Locs) <= NBANKS * NBLOCKS
  BY <1>3, <1>4, FS_Surjection
<1>6. Cardinality(Locs) \in Nat
  BY <1>5, FS_CardinalityType
<1>7. NBANKS * NBLOCKS \in Nat \ {0}
  BY <1>0
<1> QED BY <1>5, <1>6, <1>7

-----------------------------------------------------------------------------
(***************************************************************************)
(* Chains.                                                                 *)
(***************************************************************************)
\* Blocks each of which is linked to the next one, and the last to none.
Path(rom, s) == /\ s \in Seq(Locs) /\ Len(s) \in Nat \ {0}
                /\ \A i \in 1 .. Len(s) - 1 : rom[NextCell(s[i])] = s[i + 1]
Ends(rom, s) == rom[NextCell(s[Len(s)])] = NoLoc

LEMMA NextIsLoc ==
    ASSUME NEW rom \in Memory, NEW l \in Locs
    PROVE  rom[NextCell(l)] \in Locs \cup {NoLoc}
<1>1. NextCell(l) \in Cell /\ NextCell(l)[1] = "next"
  BY CellsOfLoc DEF Cell, NextCell
<1>2. rom[NextCell(l)] \in ValuesOf("next")
  BY <1>1, MemoryValue
<1> QED BY <1>2 DEF ValuesOf, NoLoc

\* One step of the walk of ChainOf.
Walked(rom, s, n) ==
    LET k == rom[NextCell(s[Len(s)])]
    IN  IF Len(s) = n /\ k # NoLoc THEN Append(s, k) ELSE s

Reached(rom, l, s, n) == /\ Path(rom, s) /\ s[1] = l /\ Len(s) <= n + 1
                         /\ Len(s) <= n => Ends(rom, s)

LEMMA WalkStep ==
    ASSUME NEW rom \in Memory, NEW l \in Locs, NEW n \in Nat \ {0}, NEW s,
           Reached(rom, l, s, n - 1)
    PROVE  Reached(rom, l, Walked(rom, s, n), n)
<1> DEFINE k == rom[NextCell(s[Len(s)])]
<1>1. s \in Seq(Locs) /\ Len(s) \in Nat \ {0} /\ s[1] = l /\ Len(s) <= n
  BY DEF Reached, Path
<1>2. s[Len(s)] \in Locs
  BY <1>1, ElementOfSeq
<1>3. k \in Locs \cup {NoLoc}
  BY <1>2, NextIsLoc
<1>4. CASE Len(s) = n /\ k # NoLoc
  <2> DEFINE t == Append(s, k)
  <2>1. Walked(rom, s, n) = t
    BY <1>4 DEF Walked
  <2>2. /\ t \in Seq(Locs) /\ Len(t) = n + 1 /\ t[n + 1] = k
        /\ \A i \in 1 .. n : t[i] = s[i]
    BY <1>1, <1>3, <1>4, AppendProperties
  <2> HIDE DEF t
  <2>3. ASSUME NEW i \in 1 .. n PROVE rom[NextCell(t[i])] = t[i + 1]
    <3>1. CASE i = n
      BY <1>4, <2>2, <3>1
    <3>2. CASE i # n
      <4>1. i \in 1 .. Len(s) - 1 /\ i + 1 \in 1 .. n
        BY <1>4, <3>2
      <4>2. rom[NextCell(s[i])] = s[i + 1]
        BY <4>1 DEF Reached, Path
      <4> QED BY <2>2, <4>1, <4>2
    <3> QED BY <3>1, <3>2
  <2>4. t[1] = l
    BY <1>1, <2>2
  <2> QED BY <2>1, <2>2, <2>3, <2>4 DEF Reached, Path
<1>5. CASE ~(Len(s) = n /\ k # NoLoc)
  <2>1. Walked(rom, s, n) = s
    BY <1>5 DEF Walked
  <2>2. Ends(rom, s)
    BY <1>1, <1>5 DEF Ends, Reached
  <2> QED BY <1>1, <2>1, <2>2 DEF Reached
<1> QED BY <1>4, <1>5

\* What ChainOf computes: a path from l that ends, or is longer than the chip.
LEMMA ChainShape ==
    ASSUME NEW rom \in Memory, NEW l \in Locs
    PROVE  Reached(rom, l, ChainOf(rom, l), NBANKS * NBLOCKS)
<1> DEFINE N == NBANKS * NBLOCKS
           Walk(f, m) == f = [n \in 0 .. m |-> IF n = 0 THEN <<l>>
                                               ELSE Walked(rom, f[n - 1], n)]
<1>0. N \in Nat
  BY LocsFinite
<1> HIDE DEF N
<1>1. ASSUME NEW f, Walk(f, N)
      PROVE  Reached(rom, l, f[N], N)
  <2> DEFINE Bad == {n \in 0 .. N : ~ Reached(rom, l, f[n], n)}
  <2>1. SUFFICES ASSUME Bad # {} PROVE FALSE
    BY <1>0
  <2>2. PICK n \in Bad : \A m \in Bad : n <= m
    <3>1. Bad \in SUBSET Nat
      BY <1>0
    <3> HIDE DEF Bad
    <3> QED BY <2>1, <3>1, LeastNumber
  <2>3. CASE n = 0
    <3>1. f[0] = <<l>>
      BY <1>0, <1>1
    <3>2. <<l>> \in Seq(Locs) /\ Len(<<l>>) = 1 /\ <<l>>[1] = l
      OBVIOUS
    <3>3. Reached(rom, l, <<l>>, 0)
      BY <3>2 DEF Reached, Path
    <3> QED BY <2>2, <2>3, <3>1, <3>3
  <2>4. CASE n # 0
    <3>1. n \in Nat \ {0} /\ n - 1 \in 0 .. N /\ n \in 0 .. N
      BY <1>0, <2>2, <2>4
    <3>2. Reached(rom, l, f[n - 1], n - 1)
      BY <2>2, <3>1
    <3>3. f[n] = Walked(rom, f[n - 1], n)
      BY <1>1, <2>4, <3>1
    <3>4. Reached(rom, l, f[n], n)
      BY <3>1, <3>2, <3>3, WalkStep
    <3> QED BY <2>2, <3>4
  <2> QED BY <2>3, <2>4
<1>2. \E f : Walk(f, N)
  <2> DEFINE Bad == {n \in 0 .. N : ~ \E f : Walk(f, n)}
  <2>1. SUFFICES ASSUME Bad # {} PROVE FALSE
    BY <1>0
  <2>2. PICK n \in Bad : \A m \in Bad : n <= m
    <3>1. Bad \in SUBSET Nat
      BY <1>0
    <3> HIDE DEF Bad
    <3> QED BY <2>1, <3>1, LeastNumber
  <2>3. CASE n = 0
    <3> DEFINE g == [k \in 0 .. 0 |-> <<l>>]
    <3>1. Walk(g, 0)
      OBVIOUS
    <3> HIDE DEF g
    <3> QED BY <2>2, <2>3, <3>1
  <2>4. CASE n # 0
    <3>1. n - 1 \in 0 .. N /\ n \in Nat \ {0}
      BY <1>0, <2>2, <2>4
    <3>2. n - 1 \notin Bad
      <4> HIDE DEF Bad
      <4> QED BY <2>2, <3>1
    <3>3. PICK f : Walk(f, n - 1)
      <4> HIDE DEF Walk
      <4> QED BY <3>1, <3>2
    <3> DEFINE g == [k \in 0 .. n |-> IF k = n THEN Walked(rom, f[n - 1], n) ELSE f[k]]
    <3>4. Walk(g, n)
      <4>1. \A k \in 0 .. n : g[k] = IF k = 0 THEN <<l>> ELSE Walked(rom, g[k - 1], k)
        BY <3>1, <3>3
      <4>2. g = [k \in 0 .. n |-> g[k]]
        OBVIOUS
      <4> HIDE DEF g
      <4> QED BY <4>1, <4>2
    <3> HIDE DEF g
    <3> QED BY <2>2, <3>4
  <2> QED BY <2>3, <2>4
<1> DEFINE F == CHOOSE f : Walk(f, N)
<1>3. Walk(F, N)
  <2> HIDE DEF Walk
  <2> QED BY <1>2
<1>4. ChainOf(rom, l) = F[N]
  BY DEF ChainOf, Walked, N
<1> HIDE DEF F
<1>5. Reached(rom, l, F[N], N)
  BY <1>1, <1>3
<1> QED BY <1>4, <1>5 DEF N

\* Two paths from the same block agree as far as both go.
LEMMA PathsAgree ==
    ASSUME NEW rom, NEW s, NEW t, Path(rom, s), Path(rom, t), s[1] = t[1],
           NEW i \in 1 .. Len(s), i <= Len(t)
    PROVE  s[i] = t[i]
<1> DEFINE Bad == {j \in 1 .. Len(s) : j <= Len(t) /\ s[j] # t[j]}
<1>0. Len(s) \in Nat /\ Len(t) \in Nat
  BY DEF Path
<1>1. SUFFICES ASSUME Bad # {} PROVE FALSE
  OBVIOUS
<1>2. PICK j \in Bad : \A m \in Bad : j <= m
  <2>1. Bad \in SUBSET Nat
    BY <1>0
  <2> HIDE DEF Bad
  <2> QED BY <1>1, <2>1, LeastNumber
<1>3. j \in Nat /\ j > 1 /\ j <= Len(s) /\ j <= Len(t) /\ s[j] # t[j]
  BY <1>0, <1>2
<1>4. j - 1 \in 1 .. Len(s) - 1 /\ j - 1 \in 1 .. Len(t) - 1 /\ (j - 1) + 1 = j
  BY <1>0, <1>3
<1>5. s[j - 1] = t[j - 1]
  BY <1>0, <1>2, <1>4
<1>6. rom[NextCell(s[j - 1])] = s[j] /\ rom[NextCell(t[j - 1])] = t[j]
  BY <1>4 DEF Path
<1> QED BY <1>3, <1>5, <1>6

\* A path that ends, and is hardly longer than the chip, is what ChainOf finds.
LEMMA ChainIs ==
    ASSUME NEW rom \in Memory, NEW s, Path(rom, s), Ends(rom, s),
           Len(s) <= NBANKS * NBLOCKS + 1
    PROVE  ChainOf(rom, s[1]) = s
<1> DEFINE t == ChainOf(rom, s[1])
           N == NBANKS * NBLOCKS
<1>0. N \in Nat /\ Len(s) <= N + 1
  BY LocsFinite
<1>1. s \in Seq(Locs) /\ Len(s) \in Nat \ {0} /\ s[1] \in Locs
  BY ElementOfSeq DEF Path
<1>2. Path(rom, t) /\ t[1] = s[1] /\ Len(t) <= N + 1 /\ (Len(t) <= N => Ends(rom, t))
  BY <1>1, ChainShape DEF Reached
<1> HIDE DEF t, N
<1>3. t \in Seq(Locs) /\ Len(t) \in Nat \ {0}
  BY <1>2 DEF Path
<1>4. NoLoc \notin Locs
  BY LocParts
<1>5. ASSUME Len(t) < Len(s) PROVE FALSE
  <2>1. Len(t) \in 1 .. Len(s) /\ Len(t) \in 1 .. Len(s) - 1 /\ Len(t) + 1 \in 1 .. Len(s)
    BY <1>1, <1>3, <1>5
  <2>2. rom[NextCell(t[Len(t)])] = NoLoc
    BY <1>0, <1>1, <1>2, <1>3, <1>5 DEF Ends
  <2>3. s[Len(t)] = t[Len(t)]
    BY <1>2, <1>3, <2>1, PathsAgree
  <2>4. rom[NextCell(s[Len(t)])] = s[Len(t) + 1]
    BY <2>1 DEF Path
  <2>5. s[Len(t) + 1] \in Locs
    BY <1>1, <2>1, ElementOfSeq
  <2> QED BY <1>4, <2>2, <2>3, <2>4, <2>5
<1>6. ASSUME Len(s) < Len(t) PROVE FALSE
  <2>1. Len(s) \in 1 .. Len(s) /\ Len(s) \in 1 .. Len(t) - 1 /\ Len(s) + 1 \in 1 .. Len(t)
    BY <1>1, <1>3, <1>6
  <2>2. rom[NextCell(s[Len(s)])] = NoLoc
    BY DEF Ends
  <2>3. s[Len(s)] = t[Len(s)]
    BY <1>2, <1>3, <1>6, <2>1, PathsAgree
  <2>4. rom[NextCell(t[Len(s)])] = t[Len(s) + 1]
    BY <1>2, <2>1 DEF Path
  <2>5. t[Len(s) + 1] \in Locs
    BY <1>3, <2>1, ElementOfSeq
  <2> QED BY <1>4, <2>2, <2>3, <2>4, <2>5
<1>7. Len(t) = Len(s)
  BY <1>1, <1>3, <1>5, <1>6
<1>8. \A i \in 1 .. Len(s) : s[i] = t[i]
  BY <1>1, <1>2, <1>7, PathsAgree
<1>9. s = t
  BY <1>1, <1>3, <1>7, <1>8, SeqEqual
<1> QED BY <1>9 DEF t

-----------------------------------------------------------------------------
(***************************************************************************)
(* Chips whose links go upward.                                            *)
(***************************************************************************)
Upward(rom) == \A l \in Locs : rom[NextCell(l)] # NoLoc => l < rom[NextCell(l)]
LinkedOnce(rom) ==
    \A k, l \in Locs : rom[NextCell(k)] = rom[NextCell(l)] /\ rom[NextCell(k)] # NoLoc
                           => k = l
Unlinked(rom, l) == \A k \in Locs : rom[NextCell(k)] # l

LEMMA PathGoesUp ==
    ASSUME NEW rom, Upward(rom), NEW s, Path(rom, s),
           NEW i \in 1 .. Len(s), NEW j \in 1 .. Len(s), i < j
    PROVE  s[i] < s[j]
<1> DEFINE Bad == {n \in 1 .. Len(s) : i < n /\ ~(s[i] < s[n])}
<1>0. Len(s) \in Nat /\ s \in Seq(Locs) /\ NoLoc \notin Locs
  BY LocParts DEF Path
<1>1. SUFFICES ASSUME Bad # {} PROVE FALSE
  OBVIOUS
<1>2. PICK n \in Bad : \A m \in Bad : n <= m
  <2>1. Bad \in SUBSET Nat
    BY <1>0
  <2> HIDE DEF Bad
  <2> QED BY <1>1, <2>1, LeastNumber
<1>3. n - 1 \in 1 .. Len(s) - 1 /\ n - 1 \in 1 .. Len(s) /\ n \in 1 .. Len(s)
      /\ (n - 1) + 1 = n /\ i < n
  BY <1>0, <1>2
<1>4. s[i] \in Nat /\ s[n - 1] \in Nat /\ s[n] \in Nat /\ s[n] # NoLoc /\ s[n - 1] \in Locs
  BY <1>0, <1>3, ElementOfSeq, LocParts
<1>5. rom[NextCell(s[n - 1])] = s[n]
  BY <1>3 DEF Path
<1>6. s[n - 1] < s[n]
  BY <1>4, <1>5 DEF Upward
<1>7. CASE i = n - 1
  BY <1>2, <1>6, <1>7
<1>8. CASE i # n - 1
  <2>1. n - 1 \notin Bad
    BY <1>0, <1>2, <1>3
  <2>2. s[i] < s[n - 1]
    BY <1>3, <1>8, <2>1
  <2>3. s[i] < s[n]
    BY <1>4, <1>6, <2>2
  <2> QED BY <1>2, <2>3
<1> QED BY <1>7, <1>8

\* Such a path is never longer than the chip.
LEMMA PathIsShort ==
    ASSUME NEW rom, Upward(rom), NEW s, Path(rom, s)
    PROVE  Len(s) <= NBANKS * NBLOCKS
<1>1. s \in Seq(Locs) /\ Len(s) \in Nat /\ NBANKS * NBLOCKS \in Nat
  BY LocsFinite DEF Path
<1> DEFINE f == [i \in 1 .. Len(s) |-> s[i]]
<1>2. f \in [1 .. Len(s) -> Locs]
  BY <1>1, ElementOfSeq
<1>3. ASSUME NEW i \in 1 .. Len(s), NEW j \in 1 .. Len(s), f[i] = f[j]
      PROVE  i = j
  <2>1. s[i] \in Nat /\ s[j] \in Nat /\ s[i] = s[j]
    BY <1>1, <1>3, ElementOfSeq, LocParts
  <2>2. ~(i < j) /\ ~(j < i)
    BY <2>1, PathGoesUp
  <2> QED BY <1>1, <2>2
<1>4. f \in Injection(1 .. Len(s), Locs)
  BY <1>2, <1>3 DEF Injection, IsInjective
<1> HIDE DEF f
<1>5. Cardinality(1 .. Len(s)) <= Cardinality(Locs)
  BY <1>4, LocsFinite, FS_Injection
<1>6. Cardinality(1 .. Len(s)) = IF 1 > Len(s) THEN 0 ELSE Len(s) - 1 + 1
  <2>1. 1 \in Int /\ Len(s) \in Int
    BY <1>1
  <2> QED BY <2>1, FS_Interval
<1>7. Len(s) <= Cardinality(Locs)
  BY <1>1, <1>5, <1>6
<1> QED BY <1>1, <1>7, LocsFinite

\* So a chain ends, and ChainOf finds it all.
LEMMA ChainEnds ==
    ASSUME NEW rom \in Memory, Upward(rom), NEW l \in Locs
    PROVE  /\ Path(rom, ChainOf(rom, l)) /\ Ends(rom, ChainOf(rom, l))
           /\ ChainOf(rom, l)[1] = l
           /\ Len(ChainOf(rom, l)) <= NBANKS * NBLOCKS
BY ChainShape, PathIsShort DEF Reached

\* Chains that begin with two blocks without a link to them share no block.
LEMMA PathsDisjoint ==
    ASSUME NEW rom, LinkedOnce(rom), NEW s, NEW t, Path(rom, s), Path(rom, t),
           Unlinked(rom, s[1]), Unlinked(rom, t[1]), s[1] # t[1],
           NEW i \in 1 .. Len(s), NEW j \in 1 .. Len(t)
    PROVE  s[i] # t[j]
<1> DEFINE Bad == {n \in 1 .. Len(s) : \E m \in 1 .. Len(t) : s[n] = t[m]}
<1>0. Len(s) \in Nat /\ s \in Seq(Locs) /\ Len(t) \in Nat /\ t \in Seq(Locs)
      /\ NoLoc \notin Locs
  BY LocParts DEF Path
<1>1. SUFFICES ASSUME Bad # {} PROVE FALSE
  OBVIOUS
<1>2. PICK n \in Bad : \A m \in Bad : n <= m
  <2>1. Bad \in SUBSET Nat
    BY <1>0
  <2> HIDE DEF Bad
  <2> QED BY <1>1, <2>1, LeastNumber
<1>3. PICK m \in 1 .. Len(t) : s[n] = t[m]
  BY <1>2
<1>4. n \in 1 .. Len(s)
  BY <1>2
<1>5. n # 1
  <2>1. SUFFICES ASSUME n = 1 PROVE FALSE
    OBVIOUS
  <2>2. m # 1
    BY <1>3, <2>1
  <2>3. m - 1 \in 1 .. Len(t) - 1 /\ m - 1 \in 1 .. Len(t) /\ (m - 1) + 1 = m
    BY <1>0, <2>2
  <2>4. rom[NextCell(t[m - 1])] = t[m]
    BY <2>3 DEF Path
  <2>5. t[m - 1] \in Locs
    BY <1>0, <2>3, ElementOfSeq
  <2> QED BY <1>3, <2>1, <2>4, <2>5 DEF Unlinked
<1>6. n - 1 \in 1 .. Len(s) - 1 /\ n - 1 \in 1 .. Len(s) /\ (n - 1) + 1 = n /\ n - 1 < n
  BY <1>0, <1>4, <1>5
<1>7. rom[NextCell(s[n - 1])] = s[n] /\ s[n - 1] \in Locs /\ s[n] \in Locs
  BY <1>0, <1>4, <1>6, ElementOfSeq DEF Path
<1>8. m # 1
  BY <1>3, <1>7 DEF Unlinked
<1>9. m - 1 \in 1 .. Len(t) - 1 /\ m - 1 \in 1 .. Len(t) /\ (m - 1) + 1 = m
  BY <1>0, <1>8
<1>10. rom[NextCell(t[m - 1])] = t[m] /\ t[m - 1] \in Locs
  BY <1>0, <1>9, ElementOfSeq DEF Path
<1>11. s[n - 1] = t[m - 1]
  BY <1>0, <1>3, <1>7, <1>10 DEF LinkedOnce
<1>12. n - 1 \in Bad
  BY <1>6, <1>9, <1>11
<1> QED BY <1>0, <1>2, <1>6, <1>12

-----------------------------------------------------------------------------
(***************************************************************************)
(* Files.                                                                  *)
(***************************************************************************)
\* The two chips hold the same in the descriptor and the data of a block.
SameBlock(rom, new, l) == /\ new[NextCell(l)] = rom[NextCell(l)]
                          /\ new[UsedCell(l)] = rom[UsedCell(l)]
                          /\ new[CrcCell(l)] = rom[CrcCell(l)]
                          /\ new[HdrCell(l)] = rom[HdrCell(l)]
                          /\ new[DataCell(l)] = rom[DataCell(l)]

\* Bytes of other blocks do not matter to a chain, and to what it holds.
LEMMA SameChain ==
    ASSUME NEW rom \in Memory, NEW new \in Memory, Upward(rom), NEW l \in Locs,
           \A k \in BlocksOf(rom, l) : SameBlock(rom, new, k)
    PROVE  /\ ChainOf(new, l) = ChainOf(rom, l)
           /\ Sound(new, l) = Sound(rom, l)
           /\ \A i \in DOMAIN ChainOf(rom, l) :
                 new[DataCell(ChainOf(rom, l)[i])] = rom[DataCell(ChainOf(rom, l)[i])]
<1> DEFINE s == ChainOf(rom, l)
<1>1. Path(rom, s) /\ Ends(rom, s) /\ s[1] = l /\ Len(s) <= NBANKS * NBLOCKS
  BY ChainEnds
<1>2. \A i \in DOMAIN s : SameBlock(rom, new, s[i])
  BY DEF BlocksOf
<1> HIDE DEF s
<1>3. s \in Seq(Locs) /\ Len(s) \in Nat \ {0} /\ DOMAIN s = 1 .. Len(s)
  BY <1>1, LenProperties DEF Path
<1>4. Path(new, s)
  <2>1. ASSUME NEW i \in 1 .. Len(s) - 1 PROVE new[NextCell(s[i])] = s[i + 1]
    BY <1>1, <1>2, <1>3 DEF Path, SameBlock
  <2> QED BY <1>3, <2>1 DEF Path
<1>5. Ends(new, s)
  BY <1>1, <1>2, <1>3 DEF Ends, SameBlock
<1>6. ChainOf(new, l) = s
  <2>1. Len(s) <= NBANKS * NBLOCKS + 1
    BY <1>1, <1>3, LocsFinite
  <2> QED BY <1>1, <1>4, <1>5, <2>1, ChainIs
<1>7. Sound(new, l) = Sound(rom, l)
  <2>1. ASSUME NEW i \in DOMAIN s
        PROVE  Good(new, s[i], i, Len(s)) = Good(rom, s[i], i, Len(s))
    BY <1>2 DEF Good, SameBlock
  <2>2. (\A i \in DOMAIN s : Good(new, s[i], i, Len(s)))
            = (\A i \in DOMAIN s : Good(rom, s[i], i, Len(s)))
    BY <2>1
  <2>3. Sound(new, l) = (Len(s) <= NBANKS * NBLOCKS /\
            \A i \in DOMAIN s : Good(new, s[i], i, Len(s)))
    BY <1>6 DEF Sound
  <2>4. Sound(rom, l) = (Len(s) <= NBANKS * NBLOCKS /\
            \A i \in DOMAIN s : Good(rom, s[i], i, Len(s)))
    BY DEF Sound, s
  <2> QED BY <2>2, <2>3, <2>4
<1>8. \A i \in DOMAIN s : new[DataCell(s[i])] = rom[DataCell(s[i])]
  BY <1>2 DEF SameBlock
<1> QED BY <1>6, <1>7, <1>8 DEF s

\* What the file in the directory at l holds, if it is sound.
Held(rom, l) == [i \in DOMAIN ChainOf(rom, l) |-> rom[DataCell(ChainOf(rom, l)[i])]]
SameFile(rom, new, l) == Sound(new, l) = Sound(rom, l) /\ Held(new, l) = Held(rom, l)

LEMMA FilesOnIs ==
    ASSUME NEW rom
    PROVE  FilesOn(rom) = [l \in {k \in Starts(rom) : Sound(rom, k)} |-> Held(rom, l)]
BY DEF FilesOn, Held

LEMMA FileKept ==
    ASSUME NEW rom \in Memory, NEW new \in Memory, Upward(rom), NEW l \in Locs,
           \A k \in BlocksOf(rom, l) : SameBlock(rom, new, k)
    PROVE  SameFile(rom, new, l)
<1>1. ChainOf(new, l) = ChainOf(rom, l) /\ Sound(new, l) = Sound(rom, l)
  BY SameChain
<1>2. \A i \in DOMAIN ChainOf(rom, l) :
         new[DataCell(ChainOf(rom, l)[i])] = rom[DataCell(ChainOf(rom, l)[i])]
  BY SameChain
<1>3. Held(new, l) = Held(rom, l)
  BY <1>1, <1>2 DEF Held
<1> QED BY <1>1, <1>3 DEF SameFile

LEMMA AllKept ==
    ASSUME NEW rom, NEW new, Starts(new) = Starts(rom),
           \A l \in Starts(rom) : SameFile(rom, new, l)
    PROVE  FilesOn(new) = FilesOn(rom)
<1>1. {k \in Starts(new) : Sound(new, k)} = {k \in Starts(rom) : Sound(rom, k)}
  BY DEF SameFile
<1>2. \A l \in {k \in Starts(rom) : Sound(rom, k)} : Held(new, l) = Held(rom, l)
  BY DEF SameFile
<1> QED BY <1>1, <1>2, FilesOnIs

\* The files on chip new are those on rom, and file h with contents c.
Added(rom, new, h, c) ==
    /\ h \notin DOMAIN FilesOn(rom)
    /\ FilesOn(new) = [k \in DOMAIN FilesOn(rom) \cup {h} |->
                          IF k = h THEN c ELSE FilesOn(rom)[k]]

\* The files of others are kept, and h becomes one if it is sound.
LEMMA OneMore ==
    ASSUME NEW rom, NEW new, NEW h, Starts(new) = Starts(rom) \cup {h},
           \A l \in Starts(rom) \ {h} : SameFile(rom, new, l),
           h \notin DOMAIN FilesOn(rom), NEW c, Held(new, h) = c
    PROVE  IF Sound(new, h) THEN Added(rom, new, h, c) ELSE FilesOn(new) = FilesOn(rom)
<1> DEFINE D == {k \in Starts(rom) : Sound(rom, k)}
           E == {k \in Starts(new) : Sound(new, k)}
<1>1. FilesOn(rom) = [l \in D |-> Held(rom, l)] /\ FilesOn(new) = [l \in E |-> Held(new, l)]
  BY FilesOnIs
<1>2. h \notin D
  BY <1>1
<1>3. E = IF Sound(new, h) THEN D \cup {h} ELSE D
  BY <1>2 DEF SameFile
<1>4. \A l \in D : Held(new, l) = Held(rom, l)
  BY <1>2 DEF SameFile
<1> HIDE DEF D, E
<1> QED BY <1>1, <1>2, <1>3, <1>4 DEF Added

-----------------------------------------------------------------------------
(***************************************************************************)
(* Capacity.                                                               *)
(***************************************************************************)
StartsUnlinked(rom) == \A l \in Starts(rom) : Unlinked(rom, l)

\* Each block of each file.
Pieces(files) == UNION {{h} \X DOMAIN files[h] : h \in DOMAIN files}

LEMMA FilesFit ==
    ASSUME NEW rom \in Memory, Upward(rom), LinkedOnce(rom), StartsUnlinked(rom)
    PROVE  /\ IsFiniteSet(Pieces(FilesOn(rom)))
           /\ Cardinality(Pieces(FilesOn(rom))) <= NBANKS * NBLOCKS
           /\ Cardinality(Pieces(FilesOn(rom))) \in Nat
<1> DEFINE P == Pieces(FilesOn(rom))
           f == [e \in P |-> ChainOf(rom, e[1])[e[2]]]
<1>1. ASSUME NEW e \in P
      PROVE  /\ e[1] \in Starts(rom) /\ e[1] \in Locs
             /\ e[2] \in 1 .. Len(ChainOf(rom, e[1]))
             /\ e = <<e[1], e[2]>>
             /\ Path(rom, ChainOf(rom, e[1])) /\ ChainOf(rom, e[1])[1] = e[1]
  <2>1. PICK h \in DOMAIN FilesOn(rom) : e \in {h} \X DOMAIN FilesOn(rom)[h]
    BY DEF Pieces
  <2>2. h \in Starts(rom) /\ FilesOn(rom)[h] = Held(rom, h)
    BY FilesOnIs
  <2>3. h \in Locs
    BY <2>2, StartsInLocs
  <2>4. DOMAIN Held(rom, h) = DOMAIN ChainOf(rom, h)
    BY DEF Held
  <2>5. Path(rom, ChainOf(rom, h)) /\ ChainOf(rom, h)[1] = h
    BY <2>3, ChainEnds
  <2>6. DOMAIN ChainOf(rom, h) = 1 .. Len(ChainOf(rom, h))
    BY <2>5, LenProperties DEF Path
  <2> QED BY <2>1, <2>2, <2>3, <2>4, <2>5, <2>6
<1>2. f \in [P -> Locs]
  <2>1. ASSUME NEW e \in P PROVE ChainOf(rom, e[1])[e[2]] \in Locs
    BY <1>1, ElementOfSeq DEF Path
  <2> HIDE DEF P
  <2> QED BY <2>1
<1>3. ASSUME NEW a \in P, NEW b \in P, f[a] = f[b]
      PROVE  a = b
  <2> DEFINE s == ChainOf(rom, a[1])
             t == ChainOf(rom, b[1])
  <2>1. s[a[2]] = t[b[2]]
    BY <1>3
  <2>2. /\ a[2] \in 1 .. Len(s) /\ Path(rom, s) /\ s[1] = a[1]
        /\ b[2] \in 1 .. Len(t) /\ Path(rom, t) /\ t[1] = b[1]
        /\ a = <<a[1], a[2]>> /\ b = <<b[1], b[2]>>
        /\ Unlinked(rom, a[1]) /\ Unlinked(rom, b[1])
    BY <1>1 DEF StartsUnlinked
  <2>3. a[1] = b[1]
    <3> HIDE DEF s, t, P
    <3> QED BY <2>1, <2>2, PathsDisjoint
  <2>4. a[2] = b[2]
    <3>1. t = s
      BY <2>3
    <3> HIDE DEF s, t, P
    <3>2. /\ s \in Seq(Locs) /\ Len(s) \in Nat /\ s[a[2]] = s[b[2]]
          /\ a[2] \in 1 .. Len(s) /\ b[2] \in 1 .. Len(s)
      BY <2>1, <2>2, <3>1 DEF Path
    <3>3. s[a[2]] \in Nat /\ s[b[2]] \in Nat
      BY <3>2, ElementOfSeq, LocParts
    <3>4. ~(a[2] < b[2]) /\ ~(b[2] < a[2])
      BY <2>2, <3>2, <3>3, PathGoesUp
    <3> QED BY <3>2, <3>4
  <2> QED BY <2>2, <2>3, <2>4
<1>4. f \in Injection(P, Locs)
  <2> HIDE DEF P
  <2>1. \A a, b \in P : f[a] = f[b] => a = b
    BY <1>3
  <2> HIDE DEF f
  <2> QED BY <1>2, <2>1 DEF Injection, IsInjective
<1> HIDE DEF f, P
<1>5. IsFiniteSet(P) /\ Cardinality(P) <= Cardinality(Locs)
  BY <1>4, LocsFinite, FS_Injection
<1>6. Cardinality(P) \in Nat
  BY <1>5, FS_CardinalityType
<1>7. Cardinality(P) <= NBANKS * NBLOCKS
  BY <1>5, <1>6, LocsFinite
<1> QED BY <1>5, <1>6, <1>7 DEF P

\* A file that was added had room.
LEMMA RoomForOneMore ==
    ASSUME NEW rom \in Memory, Upward(rom), LinkedOnce(rom), StartsUnlinked(rom),
           NEW files, NEW h, h \notin DOMAIN files, NEW c, Len(c) \in Nat,
           DOMAIN c = 1 .. Len(c),
           FilesOn(rom) = [k \in DOMAIN files \cup {h} |-> IF k = h THEN c ELSE files[k]]
    PROVE  Cardinality(Pieces(files)) + Len(c) <= NBANKS * NBLOCKS
<1> DEFINE P == Pieces(files)
           Q == {h} \X (1 .. Len(c))
           R == Pieces(FilesOn(rom))
<1>1. IsFiniteSet(R) /\ Cardinality(R) <= NBANKS * NBLOCKS /\ Cardinality(R) \in Nat
  BY FilesFit
<1>2. R = P \cup Q
  <2> DEFINE all == [k \in DOMAIN files \cup {h} |-> IF k = h THEN c ELSE files[k]]
  <2>1. FilesOn(rom) = all
    OBVIOUS
  <2>2. all[h] = c /\ (\A k \in DOMAIN files : all[k] = files[k])
        /\ DOMAIN all = DOMAIN files \cup {h}
    OBVIOUS
  <2> HIDE DEF all
  <2>3. \A e : e \in Pieces(all) <=> \E k \in DOMAIN all : e \in {k} \X DOMAIN all[k]
    BY DEF Pieces
  <2>4. \A e : e \in Pieces(files) <=> \E k \in DOMAIN files : e \in {k} \X DOMAIN files[k]
    BY DEF Pieces
  <2>5. \A e : e \in Pieces(all) <=> e \in Pieces(files) \/ e \in {h} \X DOMAIN c
    BY <2>2, <2>3, <2>4
  <2> QED BY <2>1, <2>5
<1>3. P \cap Q = {}
  BY DEF Pieces
<1>4. IsFiniteSet(P) /\ IsFiniteSet(Q)
  <2>1. P \in SUBSET R /\ Q \in SUBSET R
    BY <1>2
  <2> HIDE DEF P, Q, R
  <2> QED BY <1>1, <2>1, FS_Subset
<1>5. Cardinality(Q) = Len(c)
  <2>1. 1 \in Int /\ Len(c) \in Int
    OBVIOUS
  <2>2. IsFiniteSet(1 .. Len(c)) /\ Cardinality(1 .. Len(c)) = Len(c)
    <3>1. Cardinality(1 .. Len(c)) = IF 1 > Len(c) THEN 0 ELSE Len(c) - 1 + 1
      BY <2>1, FS_Interval
    <3>2. IsFiniteSet(1 .. Len(c))
      BY <2>1, FS_Interval
    <3> QED BY <3>1, <3>2
  <2>3. IsFiniteSet({h}) /\ Cardinality({h}) = 1
    BY FS_Singleton
  <2>4. \A U, V : IsFiniteSet(U) /\ IsFiniteSet(V) /\ Cardinality(U) = 1
                    => Cardinality(U \X V) = 1 * Cardinality(V)
    BY FS_Product, Zenon
  <2>5. Cardinality(Q) = 1 * Cardinality(1 .. Len(c))
    BY <2>2, <2>3, <2>4
  <2> HIDE DEF Q
  <2> QED BY <2>2, <2>5
<1> HIDE DEF P, Q, R
<1>6. Cardinality(R) = Cardinality(P) + Cardinality(Q) - Cardinality(P \cap Q)
  BY <1>2, <1>4, FS_Union
<1>7. Cardinality(P \cap Q) = 0
  BY <1>3, FS_EmptySet
<1>8. Cardinality(P) \in Nat
  BY <1>4, FS_CardinalityType
<1> QED BY <1>1, <1>5, <1>6, <1>7, <1>8 DEF P
=============================================================================
