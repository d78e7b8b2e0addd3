------------------------- MODULE TapeMonitorProofs -------------------------
(***************************************************************************)
(* Theorems about the program, for chips and programs of every size: its   *)
(* types, the order of reads and writes in its cache (IInv), and what the  *)
(* cache says of the chip (CacheInv).                                      *)
(***************************************************************************)
EXTENDS TapeMonitor, RomFatProofs, SequenceTheorems

(***************************************************************************)
(* The inductive invariant.                                                *)
(***************************************************************************)
\* Each loop has something left to do, and add_file writes into a descriptor
\* whose sector find_next_free_block has read.
LoopsGuarded ==
    /\ op.pc = "link" => op.at # NoLoc \/ op.seen # <<>>
    /\ op.pc = "wipe" => op.blocks # <<>>
    /\ op.pc = "add" => /\ op.i < NrBlocks(op.prog)
                        /\ SectorLoaded(cache_status, MetaSector(BankOf(op.at)))

\* Only an add or a delete leaves changes, and they wait for its sync alone.
WritesAwaitSync ==
    /\ sync = NoSync /\ op.pc \notin {"add", "wipe", "emit", "throw"}
          => NoDirty(cache_status)
    /\ sync.pc = "done" => NoDirty(sync.status)

\* The loop of the thread has not come past a sector with a change, and none
\* comes before the sector it is about to burn.
DirtyAhead(th) ==
    \A p \in Page : th.status[p] \in Dirty =>
        /\ SectorOf[p] \in th.ahead
        /\ th.pc = "burn" => \/ SectorOf[p] = th.sector
                             \/ SectorBefore(th.sector, SectorOf[p])

ThreadAhead == sync # NoSync => DirtyAhead(sync)

IInv == /\ TypeOK
        /\ LoopsGuarded
        /\ DirtySectorLoaded
        /\ WritesAwaitSync
        /\ ThreadAhead

-----------------------------------------------------------------------------
(***************************************************************************)
(* Activations.                                                            *)
(***************************************************************************)
LEMMA OpCases ==
    ASSUME NEW o \in Op
    PROVE  /\ o.pc = "format" => o \in Formatting
           /\ o.pc = "link" => o \in Linking
           /\ o.pc = "add" => o \in Adding
           /\ o.pc = "wipe" => o \in Wiping
           /\ o.pc \notin {"format", "link", "add", "wipe"} => o \in Waiting
BY DEF Op, Waiting, Formatting, Linking, Adding, Wiping

LEMMA WaitingOps ==
    ASSUME NEW pc \in {"off", "nofat", "ask", "reaccess", "index", "idle",
                       "emit", "alarm", "throw"},
           At(pc)
    PROVE  op' \in Op /\ op'.pc = pc
BY DEF At, Op, Waiting

LEMMA SyncCases ==
    ASSUME SyncTypeOK
    PROVE  /\ sync # NoSync <=> sync.pc # "none"
           /\ sync # NoSync => sync \in SyncRec
BY DEF SyncTypeOK, NoSync, SyncRec

LEMMA NrBlocksBound ==
    ASSUME NEW p \in Programs
    PROVE  NrBlocks(p) \in Nat /\ NrBlocks(p) <= Len(p)
<1>1. Len(p) \in Nat
  BY GeometryAssumption
<1>2. \A n \in Nat : n % 256 \in Nat /\ n % 256 <= n
  OBVIOUS
<1> QED BY <1>1, <1>2 DEF NrBlocks

LEMMA LastSectorNat == LastSector \in Nat
<1>1. NBLOCKS - 1 \in Nat
  BY GeometryAssumption
<1>2. BLOCKS_PER_SECTOR \in Nat \ {0}
  BY GeometryAssumption
<1>3. (NBLOCKS - 1) \div BLOCKS_PER_SECTOR \in Nat
  BY <1>1, <1>2, DivNat
<1> QED BY <1>3 DEF LastSector

LEMMA LoadedIsLoadedPages ==
    ASSUME NEW st
    PROVE  Loaded(st) <=> LoadedPages(st)
BY DEF Loaded, LoadedPages, SectorLoaded

-----------------------------------------------------------------------------
(***************************************************************************)
(* The initial state.                                                      *)
(***************************************************************************)
LEMMA FreshType ==
    /\ Fresh \in CacheType
    /\ Fresh.c \in Memory /\ Fresh.s \in [Page -> Status]
    /\ NoDirty(Fresh.s)
<1>1. CACHE_UNKNOWN \in Status /\ CACHE_UNKNOWN \notin Dirty
  BY DEF CACHE_UNKNOWN, Status, Dirty, CACHE_WRITE_ERASE, CACHE_WRITE_NONERASE
<1>2. Fresh.c \in Memory
  BY BlankAndZeros DEF Fresh
<1>3. Fresh.s \in [Page -> Status] /\ NoDirty(Fresh.s)
  BY <1>1 DEF Fresh, NoDirty
<1> QED BY <1>2, <1>3, CacheTypeParts DEF Fresh

LEMMA NoFilesType == \E S \in SUBSET Locs : NoFiles \in [S -> FileRec]
<1>1. NoFiles \in [{} -> FileRec]
  BY DEF NoFiles
<1> QED BY <1>1

LEMMA NoDirtyLoaded ==
    ASSUME NEW st, NoDirty(st)
    PROVE  LoadedPages(st)
BY DEF NoDirty, LoadedPages

LEMMA InitIInv == Init => IInv
<1> SUFFICES ASSUME Init PROVE IInv
  OBVIOUS
<1>1. op = [pc |-> "off"] /\ sync = NoSync
  BY DEF Init, FatInit, SyncInit
<1>2. op \in Op /\ op.pc = "off"
  BY <1>1 DEF Op, Waiting
<1>3. TypeOK
  <2>1. chip \in Memory /\ port \in BOOLEAN
    BY BlankAndZeros DEF Init
  <2>2. crashes \in 0 .. MaxCrashes
    BY UseAssumption DEF Init
  <2>3. FatTypeOK
    BY <1>2, FreshType, NoFilesType DEF Init, FatInit, FatTypeOK
  <2>4. SyncTypeOK
    BY <1>1 DEF SyncTypeOK
  <2> QED BY <2>1, <2>2, <2>3, <2>4 DEF TypeOK
<1>4. LoopsGuarded
  BY <1>2 DEF LoopsGuarded
<1>5. NoDirty(cache_status)
  BY FreshType DEF Init, FatInit
<1>6. DirtySectorLoaded
  BY <1>1, <1>5, NoDirtyLoaded, LoadedIsLoadedPages DEF DirtySectorLoaded
<1>7. WritesAwaitSync
  BY <1>1, <1>5 DEF WritesAwaitSync, NoSync
<1>8. ThreadAhead
  BY <1>1 DEF ThreadAhead
<1> QED BY <1>3, <1>4, <1>6, <1>7, <1>8 DEF IInv

-----------------------------------------------------------------------------
(***************************************************************************)
(* What the steps of the GUI thread have in common.                        *)
(***************************************************************************)
LEMMA CacheIsTyped ==
    ASSUME TypeOK
    PROVE  /\ Cache \in CacheType
           /\ Cache.c = contents /\ Cache.s = cache_status
           /\ chip \in Memory
BY CacheTypeParts DEF TypeOK, FatTypeOK, Cache

LEMMA SetCacheType ==
    ASSUME NEW m \in CacheType, SetCache(m)
    PROVE  /\ contents' \in Memory
           /\ cache_status' \in [Page -> Status]
           /\ cache_status' = m.s
BY DEF SetCache, CacheType

CacheChange == /\ contents' \in Memory
               /\ cache_status' \in [Page -> Status]
FilesChange == \E S \in SUBSET Locs : files' \in [S -> FileRec]

\* A step of the GUI thread leaves the other thread alone.
LEMMA GuiStep ==
    ASSUME IInv, UNCHANGED <<sync, crashes>>,
           chip' \in Memory, port' \in BOOLEAN, CacheChange, FilesChange,
           lastbankblock' \in Locs \cup {NoLoc}, op' \in Op,
           LoopsGuarded', LoadedPages(cache_status'),
           sync = NoSync /\ op'.pc \notin {"add", "wipe", "emit", "throw"}
               => NoDirty(cache_status')
    PROVE  IInv'
<1>1. TypeOK'
  BY DEF IInv, TypeOK, FatTypeOK, SyncTypeOK, CacheChange, FilesChange
<1>2. DirtySectorLoaded'
  BY LoadedIsLoadedPages DEF IInv, DirtySectorLoaded
<1>3. WritesAwaitSync'
  BY DEF IInv, WritesAwaitSync
<1>4. ThreadAhead'
  BY DEF IInv, ThreadAhead, DirtyAhead
<1> QED BY <1>1, <1>2, <1>3, <1>4 DEF IInv

LEMMA LoopsGuardedWaiting ==
    ASSUME op'.pc \notin {"link", "wipe", "add"}
    PROVE  LoopsGuarded'
BY DEF LoopsGuarded

\* A step that ends in a waiting activation with nothing to write.
LEMMA GuiRest ==
    ASSUME IInv, UNCHANGED <<sync, crashes>>,
           chip' \in Memory, port' \in BOOLEAN, CacheChange, FilesChange,
           lastbankblock' \in Locs \cup {NoLoc}, op' \in Op,
           op'.pc \notin {"link", "wipe", "add"},
           LoadedPages(cache_status'),
           sync = NoSync => NoDirty(cache_status')
    PROVE  IInv'
BY LoopsGuardedWaiting, GuiStep

\* A step that reads pages, or none, and writes none.
LEMMA IndexFiles ==
    ASSUME NEW m \in CacheType, chip \in Memory, index_files(m)
    PROVE  /\ CacheChange /\ FilesChange
           /\ NoDirty(m.s) => NoDirty(cache_status')
           /\ LoadedPages(m.s) => LoadedPages(cache_status')
<1> DEFINE m1 == read_block(m, chip, PrePages)
           S == {MetaSector(BankOf(l)) : l \in Starts(m1.c)}
           m2 == read_sector(m1, chip, S)
<1>1. m1 \in CacheType /\ m2 \in CacheType
  <2>1. m1 \in CacheType
    BY ReadType
  <2> HIDE DEF m1
  <2> QED BY <2>1, ReadType
<1>2. WithDirectory(m) = m2
  BY DEF WithDirectory
<1>3. /\ NoDirty(m.s) => NoDirty(m2.s)
      /\ LoadedPages(m.s) => LoadedPages(m2.s)
  <2>1. /\ NoDirty(m.s) => NoDirty(m1.s)
        /\ LoadedPages(m.s) => LoadedPages(m1.s)
    BY ReadLoads
  <2> HIDE DEF m1
  <2>2. /\ NoDirty(m1.s) => NoDirty(m2.s)
        /\ LoadedPages(m1.s) => LoadedPages(m2.s)
    BY <1>1, ReadLoads
  <2> QED BY <2>1, <2>2
<1> HIDE DEF m1, m2
<1>4. SetCache(m2)
  BY <1>2 DEF index_files
<1>5. CacheChange /\ cache_status' = m2.s
  BY <1>1, <1>4, SetCacheType DEF CacheChange
<1>6. FilesChange
  <2>1. m2.c \in Memory
    BY <1>1 DEF CacheType
  <2>2. Starts(m2.c) \subseteq Locs
    BY <2>1, StartsInLocs
  <2>3. files' = [l \in Starts(m2.c) |-> [blocks |-> <<>>, loaded |-> FALSE]]
    BY <1>2 DEF index_files
  <2>4. files' \in [Starts(m2.c) -> FileRec]
    BY <2>3 DEF FileRec
  <2> QED BY <2>2, <2>4 DEF FilesChange
<1> QED BY <1>3, <1>5, <1>6

-----------------------------------------------------------------------------
(***************************************************************************)
(* slot_access_fat and format_chip.                                        *)
(***************************************************************************)
LEMMA AccessStep ==
    ASSUME IInv, Access, UNCHANGED <<chip, port, lastbankblock, sync, crashes>>
    PROVE  IInv'
<1> DEFINE checked == {b \in Bank : \A b2 \in BadBanks : b <= b2}
           m == read_sector(Fresh, chip, {MetaSector(b) : b \in checked})
<1>1. chip \in Memory
  BY DEF IInv, TypeOK
<1>2. m \in CacheType /\ NoDirty(m.s)
  BY <1>1, FreshType, ReadType, ReadLoads
<1>3. \/ index_files(m) /\ At("idle")
      \/ SetCache(m) /\ files' = NoFiles /\ At("ask")
  BY DEF Access
<1> HIDE DEF m
<1>4. /\ CacheChange /\ FilesChange /\ NoDirty(cache_status')
  <2>1. CASE index_files(m)
    BY <1>1, <1>2, <2>1, IndexFiles
  <2>2. CASE SetCache(m) /\ files' = NoFiles
    BY <1>2, <2>2, SetCacheType, NoFilesType DEF CacheChange, FilesChange
  <2> QED BY <1>3, <2>1, <2>2
<1>5. op' \in Op /\ op'.pc \in {"idle", "ask"}
  BY <1>3, WaitingOps
<1>6. /\ port' \in BOOLEAN /\ chip' \in Memory
      /\ lastbankblock' \in Locs \cup {NoLoc}
  BY DEF IInv, TypeOK, FatTypeOK
<1>7. LoadedPages(cache_status')
  BY <1>4, NoDirtyLoaded
<1> QED BY <1>4, <1>5, <1>6, <1>7, GuiRest

LEMMA DeclineFormatStep ==
    ASSUME IInv, DeclineFormat, UNCHANGED <<sync, crashes>>
    PROVE  IInv'
<1>1. CacheChange /\ NoDirty(cache_status') /\ LoadedPages(cache_status')
  BY FreshType, NoDirtyLoaded DEF DeclineFormat, SetCache, CacheChange
<1>2. FilesChange
  BY NoFilesType DEF DeclineFormat, FilesChange
<1>3. op' \in Op /\ op'.pc = "nofat"
  BY WaitingOps DEF DeclineFormat
<1>4. /\ port' \in BOOLEAN /\ chip' \in Memory
      /\ lastbankblock' \in Locs \cup {NoLoc}
  BY DEF DeclineFormat, IInv, TypeOK, FatTypeOK
<1> QED BY <1>1, <1>2, <1>3, <1>4, GuiRest

\* A step that leaves the cache and the chip alone, into a loop that is
\* guarded or a waiting activation.
LEMMA CacheUntouched ==
    ASSUME IInv, UNCHANGED <<sync, crashes, contents, cache_status, files>>,
           chip' \in Memory, port' \in BOOLEAN,
           lastbankblock' \in Locs \cup {NoLoc}, op' \in Op,
           op.pc \notin {"add", "wipe", "emit", "throw"}, LoopsGuarded'
    PROVE  IInv'
<1>1. CacheChange /\ FilesChange
  BY DEF CacheChange, FilesChange, IInv, TypeOK, FatTypeOK
<1>2. LoadedPages(cache_status')
  BY LoadedIsLoadedPages DEF IInv, DirtySectorLoaded
<1>3. sync = NoSync => NoDirty(cache_status')
  BY DEF IInv, WritesAwaitSync
<1> QED BY <1>1, <1>2, <1>3, GuiStep

LEMMA StartFormatStep ==
    ASSUME IInv, NEW again \in BOOLEAN, StartFormat(again),
           op.pc \in {"ask", "idle"}, UNCHANGED <<sync, crashes>>
    PROVE  IInv'
<1>1. op' \in Formatting
  BY LastSectorNat, GeometryAssumption DEF StartFormat, Formatting, Bank
<1>2. op' \in Op /\ op'.pc = "format"
  BY <1>1 DEF Op, Formatting
<1>3. LoopsGuarded'
  BY <1>2, LoopsGuardedWaiting
<1>4. /\ port' \in BOOLEAN /\ chip' \in Memory
      /\ lastbankblock' \in Locs \cup {NoLoc}
  BY DEF StartFormat, open_port, IInv, TypeOK, FatTypeOK
<1> QED BY <1>2, <1>3, <1>4, CacheUntouched DEF StartFormat

\* Erasing and programming keep the values of each kind of cell.
LEMMA ErasedType ==
    ASSUME NEW rom \in Memory, NEW s
    PROVE  Erased(rom, s) \in Memory
<1> DEFINE new == Erased(rom, s)
<1>1. \A x \in Cell : new[x] \in ValuesOf(x[1])
  BY ConstantsAreValues, MemoryValue DEF Erased
<1>2. new = [x \in Cell |-> new[x]]
  BY DEF Erased
<1> HIDE DEF new
<1>3. new \in Memory
  BY <1>1, <1>2, MemoryByCell
<1> QED BY <1>3 DEF new

LEMMA BitAndValue ==
    ASSUME NEW rom \in Memory, NEW image \in Memory, NEW x \in Cell
    PROVE  BitAnd(rom[x], image[x]) \in ValuesOf(x[1])
BY MemoryValue, FieldOfCell, WordAssumption

LEMMA BurntType ==
    ASSUME NEW rom \in Memory, NEW s, NEW image \in Memory, NEW n
    PROVE  Burnt(rom, s, image) \in Memory /\ PartlyBurnt(rom, s, image, n) \in Memory
<1> DEFINE new == Burnt(rom, s, image)
           part == PartlyBurnt(rom, s, image, n)
<1>1. \A x \in Cell : new[x] \in ValuesOf(x[1]) /\ part[x] \in ValuesOf(x[1])
  BY BitAndValue, MemoryValue DEF Burnt, PartlyBurnt
<1>2. new = [x \in Cell |-> new[x]] /\ part = [x \in Cell |-> part[x]]
  BY DEF Burnt, PartlyBurnt
<1> HIDE DEF new, part
<1>3. new \in Memory /\ part \in Memory
  BY <1>1, <1>2, MemoryByCell
<1> QED BY <1>3 DEF new, part

LEMMA FormatEraseStep ==
    ASSUME IInv, FormatErase, UNCHANGED <<sync, crashes>>
    PROVE  IInv'
<1>1. op \in Formatting
  BY OpCases DEF FormatErase, IInv, TypeOK, FatTypeOK
<1>2. op' \in Formatting
  BY <1>1, LastSectorNat DEF FormatErase, Formatting
<1>3. op' \in Op /\ op'.pc = "format"
  BY <1>2 DEF Op, Formatting
<1>4. chip' \in Memory
  BY ErasedType DEF FormatErase, erase_sector, IInv, TypeOK
<1>5. LoopsGuarded'
  BY <1>3, LoopsGuardedWaiting
<1>6. port' \in BOOLEAN /\ lastbankblock' \in Locs \cup {NoLoc}
  BY DEF FormatErase, IInv, TypeOK, FatTypeOK
<1> QED BY <1>3, <1>4, <1>5, <1>6, CacheUntouched DEF FormatErase

LEMMA FormatBurnStep ==
    ASSUME IInv, FormatBurn, UNCHANGED <<sync, crashes>>
    PROVE  IInv'
<1>1. op \in Formatting
  BY OpCases DEF FormatBurn, IInv, TypeOK, FatTypeOK
<1>2. chip' \in Memory
  BY BurntType, BlankAndZeros DEF FormatBurn, burn_sector, IInv, TypeOK
<1>3. lastbankblock' \in Locs \cup {NoLoc}
  BY DEF FormatBurn, IInv, TypeOK, FatTypeOK
<1>4. CASE op.bank + 1 \in Bank
  <2>1. op' \in Formatting
    <3>1. op' = [op EXCEPT !.bank = @ + 1, !.sector = 0]
      BY <1>4 DEF FormatBurn
    <3>2. 0 \in 0 .. LastSector + 1
      BY LastSectorNat
    <3> QED BY <1>1, <1>4, <3>1, <3>2 DEF Formatting
  <2>2. op' \in Op /\ op'.pc = "format"
    BY <2>1 DEF Op, Formatting
  <2>3. LoopsGuarded'
    BY <2>2, LoopsGuardedWaiting
  <2>4. port' \in BOOLEAN
    BY <1>4 DEF FormatBurn, IInv, TypeOK
  <2> QED BY <1>2, <1>3, <1>4, <2>2, <2>3, <2>4, CacheUntouched DEF FormatBurn
<1>5. CASE op.bank + 1 \notin Bank
  <2> DEFINE m == update_cache_status(Cache, Page, CACHE_UNKNOWN)
  <2>1. CACHE_UNKNOWN \in Status /\ CACHE_UNKNOWN \notin Dirty
    BY DEF CACHE_UNKNOWN, Status, Dirty, CACHE_WRITE_ERASE, CACHE_WRITE_NONERASE
  <2>2. m \in CacheType
    BY <2>1, CacheIsTyped, UpdateType DEF IInv
  <2>3. NoDirty(m.s)
    BY <2>1, CacheIsTyped DEF IInv, NoDirty, update_cache_status, CacheType
  <2>4. SetCache(m)
    BY <1>5 DEF FormatBurn
  <2> HIDE DEF m
  <2>5. CacheChange /\ NoDirty(cache_status')
    BY <2>2, <2>3, <2>4, SetCacheType DEF CacheChange
  <2>6. FilesChange
    BY DEF FormatBurn, FilesChange, IInv, TypeOK, FatTypeOK
  <2>7. op' \in Op /\ op'.pc \in {"reaccess", "index"}
    BY <1>5, WaitingOps DEF FormatBurn
  <2>8. port' \in BOOLEAN
    BY <1>5 DEF FormatBurn, close_port
  <2> QED BY <1>2, <1>3, <2>5, <2>6, <2>7, <2>8, NoDirtyLoaded, GuiRest
<1> QED BY <1>4, <1>5

LEMMA IndexFormattedStep ==
    ASSUME IInv, IndexFormatted, UNCHANGED <<sync, crashes>>
    PROVE  IInv'
<1>1. index_files(Cache) /\ Cache \in CacheType /\ Cache.s = cache_status
  BY CacheIsTyped DEF IndexFormatted, IInv
<1>2. chip \in Memory /\ chip' \in Memory /\ port' \in BOOLEAN
  BY DEF IndexFormatted, IInv, TypeOK
<1>3. sync = NoSync => NoDirty(cache_status)
  BY DEF IndexFormatted, IInv, WritesAwaitSync
<1>4. LoadedPages(cache_status)
  BY LoadedIsLoadedPages DEF IInv, DirtySectorLoaded
<1>5. /\ CacheChange /\ FilesChange /\ LoadedPages(cache_status')
      /\ sync = NoSync => NoDirty(cache_status')
  BY <1>1, <1>2, <1>3, <1>4, IndexFiles
<1>6. op' \in Op /\ op'.pc = "idle"
  BY WaitingOps DEF IndexFormatted
<1>7. lastbankblock' \in Locs \cup {NoLoc}
  BY DEF IndexFormatted, IInv, TypeOK, FatTypeOK
<1> QED BY <1>2, <1>5, <1>6, <1>7, GuiRest

-----------------------------------------------------------------------------
(***************************************************************************)
(* Linked lists, get_file.                                                 *)
(***************************************************************************)
LEMMA StartLinkOp ==
    ASSUME NEW goal \in {"open", "save", "delete", "check"}, NEW l \in Locs,
           NEW cached \in Seq(Locs), StartLink(goal, l, cached)
    PROVE  /\ op' \in Op /\ op'.pc = "link" /\ LoopsGuarded'
           /\ port' \in BOOLEAN
<1>1. op' \in Linking
  BY DEF StartLink, Linking
<1>2. op' \in Op /\ op'.pc = "link"
  BY <1>1 DEF Op, Linking
<1>3. op'.at # NoLoc \/ op'.seen # <<>>
  BY LocParts DEF StartLink
<1>4. LoopsGuarded'
  BY <1>2, <1>3 DEF LoopsGuarded
<1> QED BY <1>2, <1>4 DEF StartLink, open_port

LEMMA BlocksOfFile ==
    ASSUME FatTypeOK, NEW l \in DOMAIN files
    PROVE  /\ l \in Locs
           /\ files[l] \in FileRec
           /\ files[l].blocks \in Seq(Locs)
<1>1. PICK S \in SUBSET Locs : files \in [S -> FileRec]
  BY DEF FatTypeOK
<1>2. l \in S /\ files[l] \in FileRec
  BY <1>1
<1> QED BY <1>2 DEF FileRec

LEMMA StartListStep ==
    ASSUME IInv, NEW goal \in {"open", "save", "delete"}, NEW l \in DOMAIN files,
           op.pc = "idle", StartLink(goal, l, files[l].blocks),
           UNCHANGED <<chip, contents, cache_status, files, lastbankblock>>,
           UNCHANGED <<sync, crashes>>
    PROVE  IInv'
<1>1. l \in Locs /\ files[l].blocks \in Seq(Locs)
  BY BlocksOfFile DEF IInv, TypeOK
<1>2. /\ op' \in Op /\ op'.pc = "link" /\ LoopsGuarded'
      /\ port' \in BOOLEAN
  BY <1>1, StartLinkOp
<1>3. chip' \in Memory /\ lastbankblock' \in Locs \cup {NoLoc}
  BY DEF IInv, TypeOK, FatTypeOK
<1> QED BY <1>2, <1>3, CacheUntouched

\* A step that only reads pages.
LEMMA ReadStep ==
    ASSUME IInv, UNCHANGED <<sync, crashes>>, NEW P,
           SetCache(read_block(Cache, chip, P)),
           chip' \in Memory, port' \in BOOLEAN, FilesChange,
           lastbankblock' \in Locs \cup {NoLoc}, op' \in Op,
           op.pc \notin {"add", "wipe", "emit", "throw"}, LoopsGuarded'
    PROVE  IInv'
<1>1. Cache \in CacheType /\ Cache.s = cache_status /\ chip \in Memory
  BY CacheIsTyped DEF IInv
<1> DEFINE m == read_block(Cache, chip, P)
<1>2. /\ m \in CacheType
      /\ LoadedPages(Cache.s) => LoadedPages(m.s)
      /\ NoDirty(Cache.s) => NoDirty(m.s)
  BY <1>1, ReadType, ReadLoads
<1> HIDE DEF m
<1>3. CacheChange /\ cache_status' = m.s
  BY <1>2, SetCacheType DEF CacheChange, m
<1>4. LoadedPages(cache_status')
  BY <1>1, <1>2, <1>3, LoadedIsLoadedPages DEF IInv, DirtySectorLoaded
<1>5. sync = NoSync => NoDirty(cache_status')
  BY <1>1, <1>2, <1>3 DEF IInv, WritesAwaitSync
<1> QED BY <1>3, <1>4, <1>5, GuiStep

LEMMA LinkStepStep ==
    ASSUME IInv, LinkStep, UNCHANGED <<sync, crashes>>
    PROVE  IInv'
<1>1. /\ op \in Linking /\ op.at \in Locs
      /\ chip' \in Memory /\ port' \in BOOLEAN
      /\ lastbankblock' \in Locs \cup {NoLoc} /\ FilesChange
  <2>1. op \in Linking
    BY OpCases DEF LinkStep, IInv, TypeOK, FatTypeOK
  <2> QED BY <2>1 DEF LinkStep, Linking, IInv, TypeOK, FatTypeOK, FilesChange
<1>2. CASE Len(op.seen) >= MAX_LINKS \/ ~port
  <2>1. op' \in Op /\ op'.pc = "throw"
    BY <1>2, WaitingOps DEF LinkStep
  <2>2. LoopsGuarded'
    BY <2>1, LoopsGuardedWaiting
  <2> QED BY <1>1, <1>2, <2>1, <2>2, CacheUntouched DEF LinkStep
<1>3. CASE ~(Len(op.seen) >= MAX_LINKS \/ ~port)
  <2> DEFINE m == read_block(Cache, chip, {MetaPage(op.at)})
             next == m.c[NextCell(op.at)]
  <2>1. SetCache(m) /\ op' = [op EXCEPT !.seen = Append(@, op.at), !.at = next]
    BY <1>3 DEF LinkStep
  <2>2. next \in Locs \cup {NoLoc}
    <3>1. m \in CacheType
      BY CacheIsTyped, ReadType DEF IInv
    <3>2. NextCell(op.at) \in Cell
      BY <1>1, CellsOfLoc DEF Cell
    <3> HIDE DEF m
    <3>3. m.c[NextCell(op.at)] \in ValuesOf("next")
      BY <3>1, <3>2, MemoryValue DEF NextCell, CacheType
    <3> QED BY <3>3 DEF ValuesOf, NoLoc
  <2> HIDE DEF next
  <2>3. op' \in Linking /\ op'.seen # <<>>
    <3>1. op.seen \in Seq(Locs)
      BY <1>1 DEF Linking
    <3>2. Append(op.seen, op.at) \in Seq(Locs) /\ Append(op.seen, op.at) # <<>>
      BY <1>1, <3>1
    <3> QED BY <1>1, <2>1, <2>2, <3>2 DEF Linking
  <2>4. op' \in Op /\ op'.pc = "link" /\ LoopsGuarded'
    BY <2>3 DEF Op, Linking, LoopsGuarded
  <2>5. op.pc = "link"
    BY DEF LinkStep
  <2> QED BY <1>1, <2>1, <2>4, <2>5, ReadStep
<1> QED BY <1>2, <1>3

LEMMA FinishGetStep ==
    ASSUME IInv, FinishGet, UNCHANGED <<sync, crashes>>
    PROVE  IInv'
<1>1. op.pc = "link" /\ op \in Linking
  BY OpCases DEF FinishGet, Linked, IInv, TypeOK, FatTypeOK
<1>2. /\ chip' \in Memory /\ port' \in BOOLEAN
      /\ lastbankblock' \in Locs \cup {NoLoc}
  BY DEF FinishGet, close_port, IInv, TypeOK, FatTypeOK
<1>3. CASE ~port
  <2>1. op' \in Op /\ op'.pc = "throw"
    BY <1>3, WaitingOps DEF FinishGet
  <2>2. LoopsGuarded'
    BY <2>1, LoopsGuardedWaiting
  <2> QED BY <1>1, <1>2, <1>3, <2>1, <2>2, CacheUntouched DEF FinishGet
<1>4. CASE port
  <2>1. PICK P : SetCache(read_block(Cache, chip, P))
    BY <1>4 DEF FinishGet
  <2>2. PICK S \in SUBSET Locs : files \in [S -> FileRec]
    BY DEF IInv, TypeOK, FatTypeOK
  <2>3. [blocks |-> op.seen, loaded |-> TRUE] \in FileRec
    BY <1>1 DEF Linking, FileRec
  <2>4. FilesChange
    BY <1>4, <2>2, <2>3 DEF FinishGet, FilesChange
  <2>5. op' \in Op /\ op'.pc = "idle"
    BY <1>4, WaitingOps DEF FinishGet
  <2>6. LoopsGuarded'
    BY <2>5, LoopsGuardedWaiting
  <2> QED BY <1>1, <1>2, <2>1, <2>4, <2>5, <2>6, ReadStep
<1> QED BY <1>3, <1>4

-----------------------------------------------------------------------------
(***************************************************************************)
(* check_file.                                                             *)
(***************************************************************************)
LEMMA ReadAnewLoads ==
    ASSUME NEW m \in CacheType, NEW P, chip \in Memory
    PROVE  /\ ReadAnew(m, P) \in CacheType
           /\ LoadedPages(m.s) => LoadedPages(ReadAnew(m, P).s)
           /\ NoDirty(m.s) => NoDirty(ReadAnew(m, P).s)
<1> DEFINE u == update_cache_status(m, P, CACHE_UNKNOWN)
           r == ReadAnew(m, P)
           f == Fetch(m, chip, P)
<1>1. u \in CacheType
  BY UpdateType DEF CACHE_UNKNOWN, Status
<1>2. r \in CacheType
  <2> HIDE DEF u
  <2>1. r = read_block(u, chip, P)
    BY DEF ReadAnew, u
  <2> QED BY <1>1, <2>1, ReadType
<1>3. CACHE_UNKNOWN # CACHE_SYNCED
  BY DEF CACHE_UNKNOWN, CACHE_SYNCED
<1>4. \A p \in Page : u.s[p] = IF p \in P THEN CACHE_UNKNOWN ELSE m.s[p]
  BY DEF update_cache_status, CacheType
<1>5. \A p \in Page : f.s[p] = IF p \in P THEN CACHE_SYNCED ELSE m.s[p]
  BY DEF Fetch
<1>6. \A p \in Page : r.s[p] = IF p \in P /\ u.s[p] # CACHE_SYNCED
                               THEN CACHE_SYNCED ELSE u.s[p]
  <2> HIDE DEF u
  <2>1. r = Fetch(u, chip, {p \in P : u.s[p] # CACHE_SYNCED})
    BY DEF ReadAnew, read_block, u
  <2> QED BY <2>1 DEF Fetch
<1> HIDE DEF u, r, f
<1>7. \A p \in Page : r.s[p] = f.s[p]
  BY <1>3, <1>4, <1>5, <1>6
<1>8. /\ LoadedPages(m.s) => LoadedPages(f.s)
      /\ NoDirty(m.s) => NoDirty(f.s)
  BY FetchLoads DEF f
<1>9. ASSUME NEW s \in Sector, SectorLoaded(f.s, s) PROVE SectorLoaded(r.s, s)
  BY <1>7, <1>9, PagesInPage DEF SectorLoaded
<1>10. LoadedPages(f.s) => LoadedPages(r.s)
  BY <1>7, <1>9, SectorOfIsSector DEF LoadedPages
<1>11. NoDirty(f.s) => NoDirty(r.s)
  BY <1>7 DEF NoDirty
<1> QED BY <1>2, <1>8, <1>10, <1>11 DEF r

LEMMA CheckFileStep ==
    ASSUME IInv, CheckFile, UNCHANGED <<sync, crashes>>
    PROVE  IInv'
<1> DEFINE blocks == Range(op.seen)
           m == ReadAnew(Cache, {DataPage(l) : l \in blocks})
           n == read_block(m, chip, UNION {StrayPages(l) : l \in blocks})
<1>1. op.pc = "link"
  BY DEF CheckFile, Linked
<1>2. chip' \in Memory /\ port \in BOOLEAN /\ FilesChange
  BY DEF CheckFile, IInv, TypeOK, FatTypeOK, FilesChange
<1>3. CASE /\ SetCache(n)
           /\ At("idle") \/ At("alarm")
           /\ lastbankblock' = NoLoc
           /\ close_port
  <2>1. Cache \in CacheType /\ Cache.s = cache_status /\ chip \in Memory
    BY CacheIsTyped DEF IInv
  <2>2. /\ m \in CacheType
        /\ LoadedPages(Cache.s) => LoadedPages(m.s)
        /\ NoDirty(Cache.s) => NoDirty(m.s)
    BY <2>1, ReadAnewLoads
  <2> HIDE DEF m
  <2>3. /\ n \in CacheType
        /\ LoadedPages(m.s) => LoadedPages(n.s)
        /\ NoDirty(m.s) => NoDirty(n.s)
    BY <2>1, <2>2, ReadType, ReadLoads
  <2> HIDE DEF n
  <2>4. CacheChange /\ cache_status' = n.s
    BY <1>3, <2>3, SetCacheType DEF CacheChange
  <2>5. LoadedPages(cache_status')
    BY <2>1, <2>2, <2>3, <2>4, LoadedIsLoadedPages DEF IInv, DirtySectorLoaded
  <2>6. sync = NoSync => NoDirty(cache_status')
    BY <1>1, <2>1, <2>2, <2>3, <2>4 DEF IInv, WritesAwaitSync
  <2>7. op' \in Op /\ op'.pc \in {"idle", "alarm"}
    BY <1>3, WaitingOps
  <2> QED BY <1>2, <1>3, <2>4, <2>5, <2>6, <2>7, GuiRest DEF close_port
<1>4. CASE At("throw") /\ UNCHANGED <<contents, cache_status, lastbankblock, port>>
  <2>1. op' \in Op /\ op'.pc = "throw"
    BY <1>4, WaitingOps
  <2>2. lastbankblock' \in Locs \cup {NoLoc}
    BY <1>4 DEF IInv, TypeOK, FatTypeOK
  <2>3. LoopsGuarded'
    BY <2>1, LoopsGuardedWaiting
  <2> QED BY <1>1, <1>2, <1>4, <2>1, <2>2, <2>3, CacheUntouched DEF CheckFile
<1>5. \/ /\ SetCache(n)
         /\ At("idle") \/ At("alarm")
         /\ lastbankblock' = NoLoc
         /\ close_port
      \/ At("throw") /\ UNCHANGED <<contents, cache_status, lastbankblock, port>>
  BY DEF CheckFile
<1> QED BY <1>3, <1>4, <1>5

LEMMA WaitingStep ==
    ASSUME IInv, UNCHANGED <<sync, crashes>>,
           UNCHANGED <<chip, contents, cache_status, files, lastbankblock>>,
           port' \in BOOLEAN, op.pc \in {"idle", "alarm"},
           At("idle") \/ At("throw")
    PROVE  IInv'
<1>1. op' \in Op /\ op'.pc \in {"idle", "throw"}
  BY WaitingOps
<1>2. LoopsGuarded'
  BY <1>1, LoopsGuardedWaiting
<1>3. chip' \in Memory /\ lastbankblock' \in Locs \cup {NoLoc}
  BY DEF IInv, TypeOK, FatTypeOK
<1> QED BY <1>1, <1>2, <1>3, CacheUntouched

-----------------------------------------------------------------------------
(***************************************************************************)
(* add_file.                                                               *)
(***************************************************************************)
LEMMA ScannedToLoads ==
    ASSUME NEW m \in CacheType, NEW l \in Locs, chip \in Memory
    PROVE  /\ ScannedTo(m, chip, l) \in CacheType
           /\ SectorLoaded(ScannedTo(m, chip, l).s, MetaSector(BankOf(l)))
           /\ LoadedPages(m.s) => LoadedPages(ScannedTo(m, chip, l).s)
           /\ NoDirty(m.s) => NoDirty(ScannedTo(m, chip, l).s)
           /\ \A s \in Sector : SectorLoaded(m.s, s) =>
                                   SectorLoaded(ScannedTo(m, chip, l).s, s)
<1> DEFINE S == {MetaSector(b) : b \in 0 .. BankOf(l)}
<1>1. BankOf(l) \in Bank /\ 0 .. BankOf(l) \subseteq Bank
  BY LocParts, GeometryAssumption DEF Bank
<1>2. S \subseteq Sector
  BY <1>1, MetaSectorOf
<1>3. BankOf(l) \in 0 .. BankOf(l)
  BY <1>1, GeometryAssumption DEF Bank
<1>4. MetaSector(BankOf(l)) \in S
  BY <1>3
<1> HIDE DEF S
<1>5. ScannedTo(m, chip, l) = read_sector(m, chip, S)
  BY DEF ScannedTo, S
<1> QED BY <1>2, <1>4, <1>5, ReadType, ReadLoads, ReadSectorLoads

LEMMA ScannedAllLoads ==
    ASSUME NEW m \in CacheType, chip \in Memory
    PROVE  /\ ScannedAll(m, chip) \in CacheType
           /\ LoadedPages(m.s) => LoadedPages(ScannedAll(m, chip).s)
BY ReadType, ReadLoads DEF ScannedAll

LEMMA FreeBlocksAreLocs ==
    ASSUME NEW m
    PROVE  FreeBlocks(m, chip) \subseteq Locs
BY DEF FreeBlocks

LEMMA PutStatus ==
    ASSUME NEW m \in CacheType, NEW w
    PROVE  Put(m, w).s = m.s
BY DEF Put, CacheType

\* The step that starts or ends with no block left.
LEMMA NoBlockLeft ==
    ASSUME IInv, UNCHANGED <<sync, crashes, chip, files, lastbankblock>>,
           NEW m \in CacheType, LoadedPages(m.s),
           SetCache(ScannedAll(m, chip)), At("throw"), port' \in BOOLEAN
    PROVE  IInv'
<1>1. chip \in Memory /\ FilesChange /\ lastbankblock' \in Locs \cup {NoLoc}
  BY DEF IInv, TypeOK, FatTypeOK, FilesChange
<1>2. CacheChange /\ LoadedPages(cache_status')
  BY <1>1, ScannedAllLoads, SetCacheType DEF CacheChange
<1>3. op' \in Op /\ op'.pc = "throw"
  BY WaitingOps
<1>4. LoopsGuarded'
  BY <1>3, LoopsGuardedWaiting
<1> QED BY <1>1, <1>2, <1>3, <1>4, GuiStep

LEMMA DirtyStatuses ==
    /\ CACHE_WRITE_ERASE \in Dirty /\ CACHE_WRITE_NONERASE \in Dirty
    /\ Dirty \subseteq Status
BY DEF Dirty, Status, CACHE_WRITE_ERASE, CACHE_WRITE_NONERASE

\* Overwriting cells of one page whose sector is loaded, and marking it.
LEMMA WriteMarked ==
    ASSUME NEW m \in CacheType, NEW w, NEW p \in Page, NEW st \in Dirty,
           \A x \in Cell : x \in DOMAIN w => w[x] \in ValuesOf(x[1]),
           LoadedPages(m.s), SectorLoaded(m.s, SectorOf[p])
    PROVE  LET n == update_cache_status(Put(m, w), {p}, st)
           IN  /\ n \in CacheType
               /\ LoadedPages(n.s)
               /\ \A s \in Sector : SectorLoaded(m.s, s) => SectorLoaded(n.s, s)
<1> DEFINE k == Put(m, w)
           n == update_cache_status(k, {p}, st)
<1>1. k \in CacheType /\ k.s = m.s
  BY PutType, PutStatus
<1> HIDE DEF k
<1>2. n \in CacheType
  BY <1>1, UpdateType, DirtyStatuses
<1>3. LoadedPages(n.s) /\ \A s \in Sector : SectorLoaded(m.s, s) => SectorLoaded(n.s, s)
  BY <1>1, MarkLoads
<1> QED BY <1>2, <1>3 DEF k

LEMMA AddProgramStep ==
    ASSUME IInv, NEW prog \in Programs, slot_add_program(prog),
           UNCHANGED <<sync, crashes>>
    PROVE  IInv'
<1>1. /\ Cache \in CacheType /\ Cache.s = cache_status /\ chip \in Memory
      /\ LoadedPages(Cache.s)
  BY CacheIsTyped, LoadedIsLoadedPages DEF IInv, DirtySectorLoaded
<1>2. op.pc = "idle" /\ chip' \in Memory /\ FilesChange
  BY DEF slot_add_program, IInv, TypeOK, FatTypeOK, FilesChange
<1>3. CASE FreeBlocks(Cache, chip) = {}
  <2>1. /\ SetCache(ScannedAll(Cache, chip)) /\ At("throw") /\ port' \in BOOLEAN
        /\ UNCHANGED <<chip, files, lastbankblock>>
    BY <1>3 DEF slot_add_program, open_port
  <2> QED BY <1>1, <2>1, NoBlockLeft
<1>4. CASE FreeBlocks(Cache, chip) # {}
  <2>1. PICK l \in FreeBlocks(Cache, chip), i \in Slot :
            LET m == ScannedTo(Cache, chip, l)
                b == BankOf(l)
            IN  IF NrBlocks(prog) = 0
                THEN /\ SetCache(m)
                     /\ At("emit")
                     /\ lastbankblock' = l
                     /\ close_port
                ELSE /\ SetCache(update_cache_status(
                             Put(m, [x \in {PreCell(b, i)} |-> BlockOf(l)]),
                             {PrePage(b)}, CACHE_WRITE_NONERASE))
                     /\ op' = [pc |-> "add", prog |-> prog, start |-> l,
                               at |-> l, i |-> 0]
                     /\ open_port
                     /\ UNCHANGED lastbankblock
    BY <1>4 DEF slot_add_program
  <2> DEFINE m == ScannedTo(Cache, chip, l)
             b == BankOf(l)
             n == update_cache_status(
                      Put(m, [x \in {PreCell(b, i)} |-> BlockOf(l)]),
                      {PrePage(b)}, CACHE_WRITE_NONERASE)
  <2>2. l \in Locs /\ b \in Bank /\ BlockOf(l) \in Block
    BY FreeBlocksAreLocs, LocParts
  <2>3. /\ m \in CacheType /\ LoadedPages(m.s)
        /\ SectorLoaded(m.s, MetaSector(b))
    BY <1>1, <2>2, ScannedToLoads
  <2> HIDE DEF m
  <2>4. CASE NrBlocks(prog) = 0
    <3>1. SetCache(m) /\ At("emit") /\ lastbankblock' = l /\ close_port
      BY <2>1, <2>4 DEF m
    <3>2. CacheChange /\ LoadedPages(cache_status')
      BY <2>3, <3>1, SetCacheType DEF CacheChange
    <3>3. op' \in Op /\ op'.pc = "emit"
      BY <3>1, WaitingOps
    <3>4. LoopsGuarded'
      BY <3>3, LoopsGuardedWaiting
    <3> QED BY <1>2, <2>2, <3>1, <3>2, <3>3, <3>4, GuiStep DEF close_port
  <2>5. CASE NrBlocks(prog) # 0
    <3>1. /\ SetCache(n)
          /\ op' = [pc |-> "add", prog |-> prog, start |-> l, at |-> l, i |-> 0]
          /\ open_port /\ lastbankblock' = lastbankblock
      BY <2>1, <2>5 DEF m
    <3>2. /\ n \in CacheType /\ LoadedPages(n.s)
          /\ SectorLoaded(n.s, MetaSector(b))
      <4>1. PrePage(b) \in Page /\ SectorOf[PrePage(b)] = MetaSector(b)
        BY <2>2, PrePageIsPage, MetaSectorOf
      <4>2. MetaSector(b) \in Sector
        BY <2>2, MetaSectorOf
      <4> DEFINE w == [x \in {PreCell(b, i)} |-> BlockOf(l)]
      <4>3. \A x \in Cell : x \in DOMAIN w => w[x] \in ValuesOf(x[1])
        BY <2>2 DEF PreCell, ValuesOf
      <4> HIDE DEF w
      <4>4. CACHE_WRITE_NONERASE \in Dirty
        BY DirtyStatuses
      <4> QED BY <2>3, <4>1, <4>2, <4>3, <4>4, WriteMarked DEF w
    <3> HIDE DEF n
    <3>3. CacheChange /\ cache_status' = n.s
      BY <3>1, <3>2, SetCacheType DEF CacheChange
    <3>4. op' \in Op /\ op'.pc = "add" /\ op'.i = 0 /\ op'.prog = prog /\ op'.at = l
      BY <2>2, <3>1 DEF Op, Adding
    <3>5. 0 < NrBlocks(prog)
      BY <2>5, NrBlocksBound
    <3>6. LoopsGuarded'
      BY <3>2, <3>3, <3>4, <3>5 DEF LoopsGuarded
    <3>7. lastbankblock' \in Locs \cup {NoLoc} /\ port' \in BOOLEAN
      BY <3>1 DEF open_port, IInv, TypeOK, FatTypeOK
    <3> QED BY <1>2, <3>2, <3>3, <3>4, <3>6, <3>7, GuiStep
  <2> QED BY <2>4, <2>5
<1> QED BY <1>3, <1>4

\* A block of the file is written into a descriptor whose sector is loaded.
LEMMA BlockWrittenLoads ==
    ASSUME NEW m \in CacheType, NEW prog \in Programs, NEW i \in Nat,
           i < Len(prog), NEW l \in Locs, chip \in Memory,
           LoadedPages(m.s), SectorLoaded(m.s, MetaSector(BankOf(l)))
    PROVE  /\ BlockWritten(m, prog, i, l) \in CacheType
           /\ LoadedPages(BlockWritten(m, prog, i, l).s)
<1>1. /\ MetaPage(l) \in Page /\ SectorOf[MetaPage(l)] = MetaSector(BankOf(l))
      /\ DataPage(l) \in Page /\ SectorOf[DataPage(l)] \in Sector
  BY PagesOfLoc, MetaSectorOf, SectorOfIsSector
<1>2. CACHE_WRITE_NONERASE \in Dirty
  BY DirtyStatuses
<1>3. Header(prog, i) \in Word /\ prog[i + 1] \in Word
  BY GeometryAssumption, WordAssumption
<1>4. Crc16(prog[i + 1]) \in Word
  BY <1>3, WordAssumption
<1> DEFINE d == DescriptorWritten(m, prog, i, l)
<1>5. d \in CacheType /\ LoadedPages(d.s)
  <2> DEFINE w == [x \in {UsedCell(l), HdrCell(l)} |->
                      IF x = UsedCell(l) THEN USED ELSE Header(prog, i)]
  <2>1. \A x \in Cell : x \in DOMAIN w => w[x] \in ValuesOf(x[1])
    BY <1>3 DEF UsedCell, HdrCell, ValuesOf
  <2> HIDE DEF w
  <2>2. LET n == update_cache_status(Put(m, w), {MetaPage(l)}, CACHE_WRITE_NONERASE)
        IN  n \in CacheType /\ LoadedPages(n.s)
    BY <1>1, <1>2, <2>1, WriteMarked
  <2> QED BY <2>2 DEF DescriptorWritten, w
<1> HIDE DEF d
<1> DEFINE S == {SectorOf[DataPage(l)]}
           r == read_sector(d, chip, S)
<1>6. /\ r \in CacheType /\ LoadedPages(r.s)
      /\ SectorLoaded(r.s, SectorOf[DataPage(l)])
  <2>1. S \subseteq Sector /\ SectorOf[DataPage(l)] \in S
    BY <1>1
  <2> HIDE DEF S
  <2> QED BY <1>5, <2>1, ReadType, ReadLoads, ReadSectorLoads
<1> DEFINE v == [x \in {DataCell(l), CrcCell(l)} |->
                    IF x = DataCell(l) THEN prog[i + 1] ELSE Crc16(prog[i + 1])]
           n == update_cache_status(Put(r, v), {DataPage(l)}, CACHE_WRITE_NONERASE)
<1>7. \A x \in Cell : x \in DOMAIN v => v[x] \in ValuesOf(x[1])
  BY <1>3, <1>4 DEF DataCell, CrcCell, ValuesOf
<1>8. BlockWritten(m, prog, i, l) = n
  BY DEF BlockWritten, DataWritten, d
<1> HIDE DEF r, v
<1>9. n \in CacheType /\ LoadedPages(n.s)
  BY <1>1, <1>2, <1>6, <1>7, WriteMarked
<1> QED BY <1>8, <1>9

LEMMA AddBlockStep ==
    ASSUME IInv, AddBlock, UNCHANGED <<sync, crashes>>
    PROVE  IInv'
<1>1. op.pc = "add" /\ op \in Adding
  BY OpCases DEF AddBlock, IInv, TypeOK, FatTypeOK
<1>2. /\ op.prog \in Programs /\ op.start \in Locs /\ op.at \in Locs
      /\ op.i \in Nat /\ op.i < NrBlocks(op.prog)
      /\ SectorLoaded(cache_status, MetaSector(BankOf(op.at)))
  BY <1>1 DEF Adding, IInv, LoopsGuarded
<1>3. NrBlocks(op.prog) \in Nat /\ op.i < Len(op.prog)
  <2>1. Len(op.prog) \in Nat
    BY <1>2, GeometryAssumption
  <2> QED BY <1>2, <2>1, NrBlocksBound
<1>4. /\ Cache \in CacheType /\ Cache.s = cache_status /\ chip \in Memory
      /\ LoadedPages(Cache.s)
  BY CacheIsTyped, LoadedIsLoadedPages DEF IInv, DirtySectorLoaded
<1>5. chip' \in Memory /\ FilesChange /\ port \in BOOLEAN
  BY DEF AddBlock, IInv, TypeOK, FatTypeOK, FilesChange
<1> DEFINE m == BlockWritten(Cache, op.prog, op.i, op.at)
           last == op.i = NrBlocks(op.prog) - 1
<1>6. m \in CacheType /\ LoadedPages(m.s)
  BY <1>2, <1>3, <1>4, BlockWrittenLoads
<1>7. CASE FreeBlocks(m, chip) = {}
  <2>1. /\ SetCache(ScannedAll(m, chip)) /\ At("throw")
        /\ UNCHANGED <<port, lastbankblock, chip, files>>
    BY <1>7 DEF AddBlock
  <2> HIDE DEF m
  <2> QED BY <1>5, <1>6, <2>1, NoBlockLeft
<1>8. CASE FreeBlocks(m, chip) # {}
  <2>1. PICK nxt \in FreeBlocks(m, chip) :
            LET m1 == ScannedTo(m, chip, nxt)
            IN  IF last
                THEN /\ SetCache(m1)
                     /\ At("emit")
                     /\ lastbankblock' = op.start
                     /\ close_port
                ELSE /\ SetCache(Put(m1, [x \in {NextCell(op.at)} |-> nxt]))
                     /\ op' = [op EXCEPT !.i = @ + 1, !.at = nxt]
                     /\ UNCHANGED <<lastbankblock, port>>
    BY <1>8 DEF AddBlock
  <2> HIDE DEF m
  <2> DEFINE m1 == ScannedTo(m, chip, nxt)
  <2>2. nxt \in Locs
    BY FreeBlocksAreLocs
  <2>3. /\ m1 \in CacheType /\ LoadedPages(m1.s)
        /\ SectorLoaded(m1.s, MetaSector(BankOf(nxt)))
    BY <1>4, <1>6, <2>2, ScannedToLoads
  <2>4. CASE last
    <3>1. SetCache(m1) /\ At("emit") /\ lastbankblock' = op.start /\ close_port
      BY <2>1, <2>4
    <3> HIDE DEF m1
    <3>2. CacheChange /\ LoadedPages(cache_status')
      BY <2>3, <3>1, SetCacheType DEF CacheChange
    <3>3. op' \in Op /\ op'.pc = "emit"
      BY <3>1, WaitingOps
    <3>4. LoopsGuarded'
      BY <3>3, LoopsGuardedWaiting
    <3> QED BY <1>2, <1>5, <3>1, <3>2, <3>3, <3>4, GuiStep DEF close_port
  <2>5. CASE ~last
    <3> DEFINE w == [x \in {NextCell(op.at)} |-> nxt]
    <3>1. /\ SetCache(Put(m1, w))
          /\ op' = [op EXCEPT !.i = @ + 1, !.at = nxt]
          /\ lastbankblock' = lastbankblock /\ port' = port
      BY <2>1, <2>5
    <3> HIDE DEF m1
    <3>2. \A x \in Cell : x \in DOMAIN w => w[x] \in ValuesOf(x[1])
      BY <2>2 DEF NextCell, ValuesOf
    <3> HIDE DEF w
    <3>3. Put(m1, w) \in CacheType /\ Put(m1, w).s = m1.s
      BY <2>3, <3>2, PutType, PutStatus
    <3>4. CacheChange /\ cache_status' = m1.s
      BY <3>1, <3>3, SetCacheType DEF CacheChange
    <3>5. /\ op' \in Adding /\ op'.i = op.i + 1 /\ op'.at = nxt
          /\ op'.prog = op.prog
      <4>1. op.i + 1 \in Nat
        BY <1>2
      <4> QED BY <1>1, <2>2, <3>1, <4>1 DEF Adding
    <3>6. op'.i < NrBlocks(op'.prog)
      BY <1>2, <1>3, <2>5, <3>5
    <3>7. op' \in Op /\ op'.pc = "add"
      BY <3>5 DEF Op, Adding
    <3>8. LoopsGuarded'
      BY <2>3, <3>4, <3>5, <3>6, <3>7 DEF LoopsGuarded
    <3>9. lastbankblock' \in Locs \cup {NoLoc} /\ port' \in BOOLEAN
      BY <1>5, <3>1 DEF IInv, TypeOK, FatTypeOK
    <3> QED BY <1>5, <2>3, <3>4, <3>7, <3>8, <3>9, GuiStep
  <2> QED BY <2>4, <2>5
<1> QED BY <1>7, <1>8

-----------------------------------------------------------------------------
(***************************************************************************)
(* delete_file.                                                            *)
(***************************************************************************)
LEMMA FirstOfSeq ==
    ASSUME NEW s \in Seq(Locs), s # <<>>
    PROVE  /\ s[1] \in Locs
           /\ Len(s) # 1 => Tail(s) \in Seq(Locs) /\ Tail(s) # <<>>
<1>1. Len(s) \in Nat \ {0} /\ s \in [1 .. Len(s) -> Locs]
  BY EmptySeq, LenProperties
<1>2. 1 \in 1 .. Len(s)
  BY <1>1
<1>3. s[1] \in Locs
  BY <1>1, <1>2
<1>4. Tail(s) \in Seq(Locs) /\ Len(Tail(s)) = Len(s) - 1
  BY HeadTailProperties
<1>5. Len(s) # 1 => Len(Tail(s)) # 0
  BY <1>1, <1>4
<1> QED BY <1>3, <1>4, <1>5, EmptySeq

\* The entries that remain are entries there were, and the rest is 0xFF or
\* as it was.
LEMMA PreambleWithoutType ==
    ASSUME NEW mem \in Memory, NEW b \in Bank, NEW k
    PROVE  \A x \in Cell : x \in DOMAIN PreambleWithout(mem, b, k) =>
               PreambleWithout(mem, b, k)[x] \in ValuesOf(x[1])
<1> DEFINE kept    == {i \in Slot : Listed(mem, b, i) /\ mem[PreCell(b, i)] # k}
           rank(i) == Cardinality({j \in kept : j < i})
           moved   == [x \in {"pre"} \X {b} \X Slot |->
                          IF \E i \in kept : rank(i) = x[3]
                          THEN mem[PreCell(b, CHOOSE i \in kept : rank(i) = x[3])]
                          ELSE IF x[3] < Cardinality(kept) + 2 THEN ERASED ELSE mem[x]]
<1> SUFFICES ASSUME NEW x \in Cell, x \in {"pre"} \X {b} \X Slot
             PROVE  moved[x] \in ValuesOf(x[1])
  BY DEF PreambleWithout
<1>1. x[1] = "pre"
  OBVIOUS
<1>2. ASSUME NEW i \in Slot PROVE mem[PreCell(b, i)] \in ValuesOf("pre")
  <2>1. PreCell(b, i) \in Cell /\ PreCell(b, i)[1] = "pre"
    BY DEF PreCell, PreCells, Cell
  <2> QED BY <2>1, MemoryValue
<1>3. CASE \E i \in kept : rank(i) = x[3]
  <2>1. (CHOOSE i \in kept : rank(i) = x[3]) \in kept
    BY <1>3
  <2>2. moved[x] = mem[PreCell(b, CHOOSE i \in kept : rank(i) = x[3])]
    BY <1>3
  <2> QED BY <1>1, <1>2, <2>1, <2>2
<1>4. CASE ~ \E i \in kept : rank(i) = x[3]
  <2>1. moved[x] = ERASED \/ moved[x] = mem[x]
    BY <1>4
  <2> QED BY <2>1, MemoryValue, ConstantsAreValues
<1> QED BY <1>3, <1>4

LEMMA DeleteEntryStep ==
    ASSUME IInv, DeleteEntry, UNCHANGED <<sync, crashes>>
    PROVE  IInv'
<1>1. op.pc = "link" /\ op \in Linking /\ op.at = NoLoc
  BY OpCases DEF DeleteEntry, Linked, IInv, TypeOK, FatTypeOK
<1>2. op.seen \in Seq(Locs) /\ op.seen # <<>>
  BY <1>1 DEF Linking, IInv, LoopsGuarded
<1> DEFINE b == BankOf(op.seen[1])
           k == BlockOf(op.seen[1])
           m == read_sector(Cache, chip, {MetaSector(b)})
           w == PreambleWithout(m.c, b, k)
           n == update_cache_status(Put(m, w), {PrePage(b)}, CACHE_WRITE_ERASE)
<1>3. b \in Bank
  BY <1>2, FirstOfSeq, LocParts
<1>4. /\ Cache \in CacheType /\ chip \in Memory /\ LoadedPages(Cache.s)
  BY CacheIsTyped, LoadedIsLoadedPages DEF IInv, DirtySectorLoaded
<1>5. /\ MetaSector(b) \in Sector /\ PrePage(b) \in Page
      /\ SectorOf[PrePage(b)] = MetaSector(b)
  BY <1>3, MetaSectorOf, PrePageIsPage
<1> HIDE DEF b
<1>6. m \in CacheType /\ LoadedPages(m.s) /\ SectorLoaded(m.s, MetaSector(b))
  BY <1>4, <1>5, ReadType, ReadLoads, ReadSectorLoads
<1> HIDE DEF m
<1>7. \A x \in Cell : x \in DOMAIN w => w[x] \in ValuesOf(x[1])
  BY <1>3, <1>6, PreambleWithoutType DEF CacheType
<1> HIDE DEF w
<1>8. n \in CacheType /\ LoadedPages(n.s)
  BY <1>5, <1>6, <1>7, WriteMarked, DirtyStatuses
<1>9. SetCache(n)
  BY DEF DeleteEntry, w, m, b
<1> HIDE DEF n
<1>10. CacheChange /\ LoadedPages(cache_status')
  BY <1>8, <1>9, SetCacheType DEF CacheChange
<1>11. FilesChange
  <2>1. PICK S \in SUBSET Locs : files \in [S -> FileRec]
    BY DEF IInv, TypeOK, FatTypeOK
  <2>2. files' = [files EXCEPT ![op.start].blocks = op.seen]
    BY DEF DeleteEntry
  <2>3. files' \in [S -> FileRec]
    BY <1>2, <2>1, <2>2 DEF FileRec
  <2> QED BY <2>3 DEF FilesChange
<1>12. op' \in Op /\ op'.pc = "wipe" /\ op'.blocks # <<>>
  BY <1>2 DEF DeleteEntry, Op, Wiping
<1>13. LoopsGuarded'
  BY <1>12 DEF LoopsGuarded
<1>14. /\ chip' \in Memory /\ port' \in BOOLEAN
       /\ lastbankblock' \in Locs \cup {NoLoc}
  BY DEF DeleteEntry, IInv, TypeOK, FatTypeOK
<1> QED BY <1>10, <1>11, <1>12, <1>13, <1>14, GuiStep

LEMMA WipeBlockStep ==
    ASSUME IInv, WipeBlock, UNCHANGED <<sync, crashes>>
    PROVE  IInv'
<1>1. op.pc = "wipe" /\ op \in Wiping
  BY OpCases DEF WipeBlock, IInv, TypeOK, FatTypeOK
<1>2. op.blocks \in Seq(Locs) /\ op.blocks # <<>>
  BY <1>1 DEF Wiping, IInv, LoopsGuarded
<1> DEFINE l == op.blocks[1]
           meta == [x \in {FmtCell(l), NextCell(l), CrcCell(l), UsedCell(l),
                           HdrCell(l)} |-> FormatImage(x)]
           data == [x \in {DataCell(l)} |-> ERASED]
           p == Put(Cache, meta)
           m == read_sector(p, chip, {SectorOf[DataPage(l)]})
           n == update_cache_status(Put(m, data), {DataPage(l)}, CACHE_WRITE_ERASE)
<1>3. l \in Locs
  BY <1>2, FirstOfSeq
<1>4. /\ Cache \in CacheType /\ chip \in Memory /\ LoadedPages(Cache.s)
  BY CacheIsTyped, LoadedIsLoadedPages DEF IInv, DirtySectorLoaded
<1>5. SetCache(n)
  BY DEF WipeBlock
<1>6. \A x \in Cell : /\ x \in DOMAIN meta => meta[x] \in ValuesOf(x[1])
                      /\ x \in DOMAIN data => data[x] \in ValuesOf(x[1])
  BY ConstantsAreValues
<1>7. DataPage(l) \in Page /\ SectorOf[DataPage(l)] \in Sector
  BY <1>3, PagesOfLoc, SectorOfIsSector
<1> HIDE DEF l, meta, data
<1>8. p \in CacheType /\ LoadedPages(p.s)
  BY <1>4, <1>6, PutType, PutStatus
<1> HIDE DEF p
<1>9. /\ m \in CacheType /\ LoadedPages(m.s)
      /\ SectorLoaded(m.s, SectorOf[DataPage(l)])
  BY <1>4, <1>7, <1>8, ReadType, ReadLoads, ReadSectorLoads
<1> HIDE DEF m
<1>10. n \in CacheType /\ LoadedPages(n.s)
  BY <1>6, <1>7, <1>9, WriteMarked, DirtyStatuses
<1> HIDE DEF n
<1>11. CacheChange /\ LoadedPages(cache_status')
  BY <1>5, <1>10, SetCacheType DEF CacheChange
<1>12. /\ op' \in Op /\ op'.pc \in {"emit", "wipe"}
       /\ op'.pc = "wipe" => op'.blocks # <<>>
  <2>1. CASE Len(op.blocks) = 1
    BY <2>1, WaitingOps DEF WipeBlock
  <2>2. CASE Len(op.blocks) # 1
    <3>1. op' = [op EXCEPT !.blocks = Tail(op.blocks)]
      BY <2>2 DEF WipeBlock
    <3>2. Tail(op.blocks) \in Seq(Locs) /\ Tail(op.blocks) # <<>>
      BY <1>2, <2>2, FirstOfSeq
    <3>3. op' \in Wiping /\ op'.blocks # <<>>
      BY <1>1, <3>1, <3>2 DEF Wiping
    <3> QED BY <3>3 DEF Op, Wiping
  <2> QED BY <2>1, <2>2
<1>13. LoopsGuarded'
  BY <1>12 DEF LoopsGuarded
<1>14. /\ chip' \in Memory /\ port' \in BOOLEAN /\ FilesChange
       /\ lastbankblock' \in Locs \cup {NoLoc}
  BY DEF WipeBlock, close_port, IInv, TypeOK, FatTypeOK, FilesChange
<1> QED BY <1>11, <1>12, <1>13, <1>14, GuiStep

-----------------------------------------------------------------------------
(***************************************************************************)
(* The synchronization and the end of the process.                         *)
(***************************************************************************)
LEMMA StartSyncStep == IInv /\ slot_start_sync => IInv'
<1> SUFFICES ASSUME IInv, slot_start_sync PROVE IInv'
  OBVIOUS
<1>1. /\ contents \in Memory /\ cache_status \in [Page -> Status]
      /\ LoadedPages(cache_status)
  BY LoadedIsLoadedPages DEF IInv, TypeOK, FatTypeOK, DirtySectorLoaded
<1>2. sync' = [pc |-> "scan", image |-> contents, status |-> cache_status,
               sector |-> MetaSector(0), ahead |-> Sector]
  BY DEF slot_start_sync, StartSync, Cache
<1>3. MetaSector(0) \in Sector
  BY MetaSectorOf, GeometryAssumption DEF Bank
<1>4. sync' \in SyncRec /\ sync'.pc = "scan" /\ sync'.status = cache_status
  BY <1>1, <1>2, <1>3 DEF SyncRec
<1>5. sync' # NoSync
  BY <1>4 DEF NoSync
<1>6. op' \in Op /\ op'.pc = "idle"
  BY WaitingOps DEF slot_start_sync
<1>7. TypeOK'
  BY <1>4, <1>6 DEF slot_start_sync, StartSync, open_port, IInv, TypeOK,
                    FatTypeOK, SyncTypeOK
<1>8. DirtySectorLoaded'
  BY <1>1, <1>4, LoadedIsLoadedPages DEF DirtySectorLoaded, slot_start_sync
<1>9. LoopsGuarded'
  BY <1>6, LoopsGuardedWaiting
<1>10. WritesAwaitSync'
  BY <1>4, <1>5 DEF WritesAwaitSync
<1>11. ThreadAhead'
  BY <1>2, SectorOfIsSector DEF ThreadAhead, DirtyAhead
<1> QED BY <1>7, <1>8, <1>9, <1>10, <1>11 DEF IInv

LEMMA SyncCompleteStep == IInv /\ slot_sync_complete => IInv'
<1> SUFFICES ASSUME IInv, slot_sync_complete PROVE IInv'
  OBVIOUS
<1>1. sync \in SyncRec /\ sync # NoSync /\ sync.pc = "done"
  BY SyncCases DEF slot_sync_complete, IInv, TypeOK
<1>2. /\ sync.status \in [Page -> Status]
      /\ NoDirty(sync.status) /\ LoadedPages(sync.status)
  BY <1>1, NoDirtyLoaded DEF SyncRec, IInv, WritesAwaitSync
<1>3. contents \in Memory /\ chip \in Memory
  BY DEF IInv, TypeOK, FatTypeOK
<1> DEFINE m == CacheAfterSync
<1>4. m \in CacheType /\ m.s = sync.status
  BY <1>2, <1>3, CacheTypeParts DEF CacheAfterSync
<1>5. index_files(m)
  BY DEF slot_sync_complete
<1> HIDE DEF m
<1>6. CacheChange /\ FilesChange /\ NoDirty(cache_status')
  BY <1>2, <1>3, <1>4, <1>5, IndexFiles
<1>7. op' \in Op /\ LoopsGuarded' /\ port' \in BOOLEAN
  <2>1. CASE lastbankblock # NoLoc
    <3>1. lastbankblock \in Locs /\ <<>> \in Seq(Locs)
      BY <2>1 DEF IInv, TypeOK, FatTypeOK
    <3>2. StartLink("check", lastbankblock, <<>>)
      BY <2>1 DEF slot_sync_complete
    <3> QED BY <3>1, <3>2, StartLinkOp
  <2>2. CASE lastbankblock = NoLoc
    <3>1. At("idle") /\ port' = port
      BY <2>2 DEF slot_sync_complete
    <3>2. op' \in Op /\ op'.pc = "idle"
      BY <3>1, WaitingOps
    <3> QED BY <3>1, <3>2, LoopsGuardedWaiting DEF IInv, TypeOK
  <2> QED BY <2>1, <2>2
<1>8. sync' = NoSync
  BY DEF slot_sync_complete
<1>9. TypeOK'
  BY <1>6, <1>7, <1>8 DEF slot_sync_complete, CacheChange, FilesChange, IInv,
                          TypeOK, FatTypeOK, SyncTypeOK
<1>10. DirtySectorLoaded'
  BY <1>6, <1>8, NoDirtyLoaded, LoadedIsLoadedPages DEF DirtySectorLoaded
<1>11. WritesAwaitSync'
  BY <1>6, <1>8 DEF WritesAwaitSync, NoSync
<1>12. ThreadAhead'
  BY <1>8 DEF ThreadAhead
<1> QED BY <1>7, <1>9, <1>10, <1>11, <1>12 DEF IInv

\* A sector that is marked synced keeps every other one as it was.
LEMMA SyncedLoads ==
    ASSUME NEW st \in [Page -> Status], NEW s, LoadedPages(st)
    PROVE  /\ Synced(st, s) \in [Page -> Status]
           /\ LoadedPages(Synced(st, s))
<1> DEFINE new == Synced(st, s)
<1>1. CACHE_SYNCED \in Status \ Dirty /\ CACHE_SYNCED # CACHE_UNKNOWN
  BY DEF Status, Dirty, CACHE_SYNCED, CACHE_UNKNOWN, CACHE_WRITE_ERASE,
         CACHE_WRITE_NONERASE
<1>2. \A p \in Page : new[p] = IF SectorOf[p] = s THEN CACHE_SYNCED ELSE st[p]
  BY DEF Synced
<1>3. new \in [Page -> Status]
  BY <1>1 DEF Synced
<1> HIDE DEF new
<1>4. ASSUME NEW t \in Sector, SectorLoaded(st, t) PROVE SectorLoaded(new, t)
  BY <1>1, <1>2, <1>4, PagesInPage DEF SectorLoaded
<1>5. LoadedPages(new)
  BY <1>1, <1>2, <1>4, SectorOfIsSector DEF LoadedPages
<1> QED BY <1>3, <1>5 DEF new

LEMMA ThreadKeepsGui ==
    ASSUME IInv, UNCHANGED <<fatVars, crashes>>, sync # NoSync,
           chip' \in Memory, port' \in BOOLEAN,
           sync' \in SyncRec, LoadedPages(sync'.status),
           sync'.pc = "done" => NoDirty(sync'.status), DirtyAhead(sync')
    PROVE  IInv'
<1>1. TypeOK'
  BY DEF fatVars, IInv, TypeOK, FatTypeOK, SyncTypeOK
<1>2. LoopsGuarded'
  BY DEF fatVars, IInv, LoopsGuarded
<1>3. DirtySectorLoaded'
  BY LoadedIsLoadedPages DEF fatVars, IInv, DirtySectorLoaded
<1>4. sync' # NoSync
  BY DEF SyncRec, NoSync
<1>5. WritesAwaitSync'
  BY <1>4 DEF WritesAwaitSync
<1>6. ThreadAhead'
  BY DEF ThreadAhead, DirtyAhead
<1> QED BY <1>1, <1>2, <1>3, <1>5, <1>6 DEF IInv

LEMMA ThreadStep == IInv /\ Thread => IInv'
<1> SUFFICES ASSUME IInv, Thread PROVE IInv'
  OBVIOUS
<1>1. UNCHANGED <<fatVars, crashes>> /\ chip \in Memory /\ port \in BOOLEAN
  BY DEF Thread, IInv, TypeOK
<1>2. ASSUME sync.pc # "none"
      PROVE  /\ sync \in SyncRec /\ sync # NoSync
             /\ sync.status \in [Page -> Status] /\ LoadedPages(sync.status)
             /\ DirtyAhead(sync)
  BY <1>2, SyncCases, LoadedIsLoadedPages DEF IInv, TypeOK, DirtySectorLoaded,
     SyncRec, ThreadAhead
<1>3. CASE PrepareSector
  <2>1. PICK s \in Sector : /\ NextSector(s)
                           /\ sync' = [sync EXCEPT !.pc = "burn", !.sector = s]
    BY <1>3 DEF PrepareSector
  <2>2. /\ sync' \in SyncRec /\ sync'.pc = "burn" /\ sync'.status = sync.status
        /\ sync # NoSync /\ sync'.sector = s /\ sync'.ahead = sync.ahead
    BY <1>2, <1>3, <2>1 DEF PrepareSector, SyncRec
  <2>3. chip' \in Memory /\ port' = port
    BY <1>1, <1>3, ErasedType DEF PrepareSector, erase_sector
  <2>4. ASSUME NEW p \in Page, sync.status[p] \in Dirty
        PROVE  /\ SectorOf[p] \in sync.ahead
               /\ SectorOf[p] = s \/ SectorBefore(s, SectorOf[p])
    <3>1. SectorOf[p] \in sync.ahead
      BY <1>2, <1>3, <2>4 DEF PrepareSector, DirtyAhead
    <3>2. SectorOf[p] \in SectorsToWrite
      BY <2>4, <3>1, SectorOfIsSector DEF SectorsToWrite, DirtySectors, DirtyPages
    <3> QED BY <2>1, <3>1, <3>2 DEF NextSector
  <2>5. DirtyAhead(sync')
    BY <2>2, <2>4 DEF DirtyAhead
  <2> QED BY <1>1, <1>2, <1>3, <2>2, <2>3, <2>5, ThreadKeepsGui DEF PrepareSector
<1>4. CASE BurnSector
  <2>1. sync \in SyncRec /\ sync # NoSync /\ sync.image \in Memory
    BY <1>2, <1>4 DEF BurnSector, SyncRec
  <2> DEFINE st == Synced(sync.status, sync.sector)
  <2>2. st \in [Page -> Status] /\ LoadedPages(st)
    BY <1>2, <1>4, SyncedLoads DEF BurnSector
  <2> DEFINE left == {s \in Sector : SectorBefore(sync.sector, s)}
  <2>3. sync' = [sync EXCEPT !.pc = "scan", !.sector = MetaSector(0), !.status = st,
                             !.ahead = left]
    BY <1>4 DEF BurnSector
  <2>4. MetaSector(0) \in Sector
    BY MetaSectorOf, GeometryAssumption DEF Bank
  <2>7. ASSUME NEW p \in Page, st[p] \in Dirty
        PROVE  SectorOf[p] \in left
    <3>1. SectorOf[p] # sync.sector /\ sync.status[p] \in Dirty
      BY <2>7 DEF Synced, Dirty, CACHE_SYNCED, CACHE_WRITE_ERASE,
                  CACHE_WRITE_NONERASE
    <3> QED BY <1>2, <1>4, <3>1, SectorOfIsSector DEF BurnSector, DirtyAhead
  <2>8. left \in SUBSET Sector
    OBVIOUS
  <2> HIDE DEF st, left
  <2>5. /\ sync' \in SyncRec /\ sync'.pc = "scan" /\ sync'.status = st
        /\ sync'.ahead = left
    BY <2>1, <2>2, <2>3, <2>4, <2>8 DEF SyncRec
  <2>6. chip' \in Memory /\ port' = port
    BY <1>1, <1>4, <2>1, BurntType DEF BurnSector, burn_sector
  <2>9. DirtyAhead(sync')
    BY <2>5, <2>7 DEF DirtyAhead
  <2> QED BY <1>1, <2>1, <2>2, <2>5, <2>6, <2>9, ThreadKeepsGui
<1>5. CASE FinishSync
  <2>1. /\ sync \in SyncRec /\ sync # NoSync /\ LoadedPages(sync.status)
        /\ sync' = [sync EXCEPT !.pc = "done"]
    BY <1>2, <1>5 DEF FinishSync
  <2>2. /\ sync' \in SyncRec /\ sync'.pc = "done" /\ sync'.status = sync.status
        /\ sync'.ahead = sync.ahead
    BY <2>1 DEF SyncRec
  <2>3. NoDirty(sync.status)
    <3> SUFFICES ASSUME NEW p \in Page, sync.status[p] \in Dirty PROVE FALSE
      BY DEF NoDirty
    <3>1. SectorOf[p] \in Sector /\ p \in DirtyPages(sync.status, SectorOf[p])
      BY SectorOfIsSector DEF DirtyPages
    <3>2. SectorOf[p] \in SectorsToWrite
      BY <1>2, <1>5, <3>1 DEF FinishSync, DirtyAhead, SectorsToWrite, DirtySectors
    <3> QED BY <1>5, <3>2 DEF FinishSync
  <2>4. chip' \in Memory /\ port' \in BOOLEAN
    BY <1>1, <1>5 DEF FinishSync, close_port
  <2>5. DirtyAhead(sync')
    BY <1>2, <1>5, <2>2 DEF FinishSync, DirtyAhead
  <2> QED BY <1>1, <2>1, <2>2, <2>3, <2>4, <2>5, ThreadKeepsGui
<1> QED BY <1>3, <1>4, <1>5 DEF Thread

\* Whatever becomes of the chip, the next process starts with nothing.
LEMMA GoneStep ==
    ASSUME IInv, ProcessGone, chip' \in Memory, crashes' \in 0 .. MaxCrashes
    PROVE  IInv'
<1>1. op' \in Op /\ op'.pc = "off"
  BY WaitingOps DEF ProcessGone
<1>2. sync' = NoSync /\ port' = FALSE
  BY DEF ProcessGone
<1>3. /\ contents' \in Memory /\ cache_status' \in [Page -> Status]
      /\ NoDirty(cache_status')
  BY FreshType DEF ProcessGone
<1>4. \E S \in SUBSET Locs : files' \in [S -> FileRec]
  BY NoFilesType DEF ProcessGone
<1>5. lastbankblock' \in Locs \cup {NoLoc}
  BY DEF ProcessGone
<1>6. TypeOK'
  BY <1>1, <1>2, <1>3, <1>4, <1>5 DEF TypeOK, FatTypeOK, SyncTypeOK
<1>7. LoopsGuarded'
  BY <1>1, LoopsGuardedWaiting
<1>8. DirtySectorLoaded'
  BY <1>2, <1>3, NoDirtyLoaded, LoadedIsLoadedPages DEF DirtySectorLoaded
<1>9. WritesAwaitSync'
  BY <1>2, <1>3 DEF WritesAwaitSync, NoSync
<1>10. ThreadAhead'
  BY <1>2 DEF ThreadAhead
<1> QED BY <1>6, <1>7, <1>8, <1>9, <1>10 DEF IInv

LEMMA DiesChip ==
    ASSUME IInv, Dies
    PROVE  chip' \in Memory
<1>1. chip \in Memory
  BY DEF IInv, TypeOK
<1>2. CASE UNCHANGED chip
  BY <1>1, <1>2
<1>3. CASE sync.pc = "burn" /\ HalfBurnt(sync.sector, sync.image)
  <2>1. sync.image \in Memory
    BY <1>3, SyncCases DEF IInv, TypeOK, SyncRec
  <2> QED BY <1>1, <1>3, <2>1, BurntType DEF HalfBurnt
<1>4. CASE HalfBurnt(MetaSector(op.bank), [x \in Cell |-> FormatImage(x)])
  BY <1>1, <1>4, BurntType, BlankAndZeros DEF HalfBurnt
<1> QED BY <1>2, <1>3, <1>4 DEF Dies

LEMMA DeathStep ==
    ASSUME IInv, notify \/ ThreadDies \/ Crash \/ BurnRejected
    PROVE  IInv'
<1>1. crashes \in 0 .. MaxCrashes /\ chip \in Memory
  BY DEF IInv, TypeOK
<1>2. CASE notify \/ ThreadDies
  <2>1. Dies /\ ProcessGone /\ crashes' = crashes
    BY <1>2 DEF notify, ThreadDies, Dies
  <2> QED BY <1>1, <2>1, DiesChip, GoneStep
<1>3. CASE Crash
  <2>1. Dies /\ ProcessGone
    BY <1>3 DEF Crash, Dies
  <2>2. crashes' \in 0 .. MaxCrashes
    BY <1>1, <1>3, UseAssumption DEF Crash
  <2> QED BY <2>1, <2>2, DiesChip, GoneStep
<1>4. CASE BurnRejected
  <2>1. ProcessGone /\ crashes' = crashes
    BY <1>4 DEF BurnRejected
  <2>2. sync.image \in Memory
    BY <1>4, SyncCases DEF BurnRejected, IInv, TypeOK, SyncRec
  <2>3. chip' \in Memory
    BY <1>1, <1>4, <2>2, BurntType DEF BurnRejected
  <2> QED BY <1>1, <2>1, <2>3, GoneStep
<1> QED BY <1>2, <1>3, <1>4

-----------------------------------------------------------------------------
(***************************************************************************)
(* The theorems.                                                           *)
(***************************************************************************)
LEMMA UserStep == IInv /\ User => IInv'
<1> SUFFICES ASSUME IInv, User PROVE IInv'
  OBVIOUS
<1>1. UNCHANGED <<sync, crashes>>
  BY DEF User
<1>2. CASE slot_access_fat
  BY <1>1, <1>2, AccessStep DEF slot_access_fat
<1>3. CASE DeclineFormat
  BY <1>1, <1>3, DeclineFormatStep
<1>4. CASE AcceptFormat \/ slot_format_rom
  BY <1>1, <1>4, StartFormatStep DEF AcceptFormat, slot_format_rom
<1>5. CASE CloseAlarm
  BY <1>1, <1>5, WaitingStep DEF CloseAlarm, IInv, TypeOK
<1>6. CASE \E l \in Locs : slot_select_file(l) \/ slot_save(l)
  <2>1. PICK l \in Locs : slot_select_file(l) \/ slot_save(l)
    BY <1>6
  <2>2. PICK goal \in {"open", "save", "delete"} : StartGet(goal, l)
    BY <2>1 DEF slot_select_file, slot_save
  <2> QED BY <1>1, <2>2, StartListStep DEF StartGet
<1>7. CASE \E p \in Programs : slot_add_program(p)
  BY <1>1, <1>7, AddProgramStep
<1>8. CASE AddRagged
  BY <1>1, <1>8, WaitingStep DEF AddRagged, open_port
<1>9. CASE \E l \in DOMAIN files : DeleteButton(l)
  BY <1>1, <1>9, StartListStep DEF DeleteButton
<1> QED BY <1>2, <1>3, <1>4, <1>5, <1>6, <1>7, <1>8, <1>9 DEF User

LEMMA GuiSteps == IInv /\ Gui => IInv'
<1> SUFFICES ASSUME IInv, Gui PROVE IInv'
  OBVIOUS
<1>1. UNCHANGED <<sync, crashes>>
  BY DEF Gui
<1>2. CASE FormatErase
  BY <1>1, <1>2, FormatEraseStep
<1>3. CASE FormatBurn
  BY <1>1, <1>3, FormatBurnStep
<1>4. CASE IndexFormatted
  BY <1>1, <1>4, IndexFormattedStep
<1>5. CASE AccessFormatted
  BY <1>1, <1>5, AccessStep DEF AccessFormatted
<1>6. CASE LinkStep
  BY <1>1, <1>6, LinkStepStep
<1>7. CASE FinishGet
  BY <1>1, <1>7, FinishGetStep
<1>8. CASE AddBlock
  BY <1>1, <1>8, AddBlockStep
<1>9. CASE DeleteEntry
  BY <1>1, <1>9, DeleteEntryStep
<1>10. CASE WipeBlock
  BY <1>1, <1>10, WipeBlockStep
<1>11. CASE CheckFile
  BY <1>1, <1>11, CheckFileStep
<1> QED BY <1>2, <1>3, <1>4, <1>5, <1>6, <1>7, <1>8, <1>9, <1>10, <1>11 DEF Gui

LEMMA StutterStep == IInv /\ UNCHANGED vars => IInv'
BY DEF vars, IInv, TypeOK, FatTypeOK, SyncTypeOK, LoopsGuarded,
       DirtySectorLoaded, WritesAwaitSync, ThreadAhead, DirtyAhead

\* The invariant is inductive: no call, callback or death breaks it.
LEMMA NextIInv == IInv /\ [Next]_vars => IInv'
<1> SUFFICES ASSUME IInv, [Next]_vars PROVE IInv'
  OBVIOUS
<1>1. CASE User
  BY <1>1, UserStep
<1>2. CASE Gui
  BY <1>2, GuiSteps
<1>3. CASE slot_start_sync
  BY <1>3, StartSyncStep
<1>4. CASE slot_sync_complete
  BY <1>4, SyncCompleteStep
<1>5. CASE Thread
  BY <1>5, ThreadStep
<1>6. CASE notify \/ ThreadDies \/ Crash \/ BurnRejected
  BY <1>6, DeathStep
<1>7. CASE UNCHANGED vars
  BY <1>7, StutterStep
<1> QED BY <1>1, <1>2, <1>3, <1>4, <1>5, <1>6, <1>7 DEF Next

\* The inductive invariant holds in every run.
THEOREM Invariance == Spec => []IInv
<1> QED BY InitIInv, NextIInv, PTL DEF Spec

\* Every variable keeps its type: in particular each cell of the chip holds
\* a value of its kind after any interleaving of erases, burns and deaths,
\* and no file is ever entered at a block the chip does not have.
THEOREM TypeCorrect == Spec => []TypeOK
<1>1. IInv => TypeOK
  BY DEF IInv
<1> QED BY <1>1, Invariance, PTL

\* add_file, delete_file, SyncThread::run: what is burnt was read before.
THEOREM BurnsWhatWasRead == Spec => []DirtySectorLoaded
<1>1. IInv => DirtySectorLoaded
  BY DEF IInv
<1> QED BY <1>1, Invariance, PTL

\* slot_start_sync, slot_sync_complete: with the buttons enabled no change
\* waits in the cache, so read_block overwrites none.
THEOREM QuietIsWritten == Spec => []NothingPending
<1>1. IInv => NothingPending
  <2> SUFFICES ASSUME IInv, Quiet PROVE NoDirty(cache_status)
    BY DEF NothingPending, NoDirty
  <2>1. sync = NoSync
    BY SyncCases DEF Quiet, IInv, TypeOK
  <2> QED BY <2>1 DEF Quiet, IInv, WritesAwaitSync
<1> QED BY <1>1, Invariance, PTL

-----------------------------------------------------------------------------
(***************************************************************************)
(* What the cache says of the chip.                                        *)
(***************************************************************************)
\* The cells the claims are about.  A deletion that spans two banks wipes
\* descriptors in contents alone, so of them nothing is claimed if it may.
Tracked == IF SpanningDelete THEN PreCells \cup DataCells ELSE Cell

\* What add_file expects to be erased in a block that is not used.
Blanks(l) == IF SpanningDelete THEN {DataCell(l)}
             ELSE {DataCell(l), NextCell(l), CrcCell(l), HdrCell(l)}

Erasing(st)    == \E p \in Page : st[p] = CACHE_WRITE_ERASE
ToWrite(st, s) == \E p \in Page : SectorOf[p] = s /\ st[p] \in Dirty

FreeIn(rom) == \A l \in Locs : rom[UsedCell(l)] = ERASED =>
                   \A x \in Blanks(l) : rom[x] = ERASED

\* A block that is free in contents is blank on chip rom, and its descriptor
\* is blank in contents.
FreeInCache(m, rom) ==
    \A l \in Locs :
        m.s[MetaPage(l)] # CACHE_UNKNOWN /\ m.c[UsedCell(l)] = ERASED =>
            \A x \in Blanks(l) : /\ rom[x] = ERASED
                                 /\ x # DataCell(l) => m.c[x] = ERASED

\* The chip once the sectors to write have been erased and burnt.
After(m, rom) ==
    [x \in Cell |-> IF ToWrite(m.s, SectorOf[PageOf[x]]) THEN m.c[x] ELSE rom[x]]

\* The parts of AddRight.
HeldOrBlank(m, rom) ==
    \A x \in Tracked :
        /\ m.s[PageOf[x]] = CACHE_SYNCED => m.c[x] = rom[x]
        /\ m.s[PageOf[x]] \in Dirty => m.c[x] = rom[x] \/ rom[x] = ERASED
UsedFirst(m, rom) ==
    \A l \in Locs : m.s[DataPage(l)] \in Dirty =>
        /\ m.c[UsedCell(l)] = USED
        /\ m.s[MetaPage(l)] \in Dirty \/ rom[UsedCell(l)] = USED

\* While nothing is to be erased: a synced page holds what the chip holds, a
\* page to write differs from it in erased cells only, and no block gets data
\* before it is marked used.
AddRight(m, rom) == /\ HeldOrBlank(m, rom)
                    /\ FreeIn(rom)
                    /\ UsedFirst(m, rom)
                    /\ FreeInCache(m, rom)

\* The parts of DeleteRight.
HeldElsewhere(m, rom) ==
    \A x \in Tracked :
        m.s[PageOf[x]] = CACHE_SYNCED /\ ~ToWrite(m.s, SectorOf[PageOf[x]])
            => m.c[x] = rom[x]
AllErase(m) == \A p \in Page : m.s[p] # CACHE_WRITE_NONERASE

\* While sectors are to be erased: each of them is burnt whole, and leaves
\* free blocks blank.
DeleteRight(m, rom) == /\ AllErase(m)
                       /\ HeldElsewhere(m, rom)
                       /\ FreeIn(After(m, rom))
                       /\ FreeInCache(m, After(m, rom))

Right(m, rom) == IF Erasing(m.s) THEN DeleteRight(m, rom) ELSE AddRight(m, rom)

-----------------------------------------------------------------------------
(***************************************************************************)
(* Cells, their pages and sectors.                                         *)
(***************************************************************************)
LEMMA PageOfCell ==
    ASSUME NEW x \in Cell
    PROVE  PageOf[x] \in Page /\ SectorOf[PageOf[x]] \in Sector
<1>1. CASE x \in PreCells
  <2>1. PageOf[x] = PrePage(x[2]) /\ x[2] \in Bank
    BY <1>1 DEF PageOf, PreCells
  <2> QED BY <2>1, PrePageIsPage, SectorOfIsSector
<1>2. CASE x \in DataCells
  <2>1. PageOf[x] = x
    BY <1>2 DEF PageOf, DataCells
  <2> QED BY <1>2, <2>1, SectorOfIsSector DEF Page
<1>3. CASE x \in MetaCells
  <2>1. x[1] \in MetaFields /\ x[2] \in Bank /\ x[3] \in Block
    BY <1>3 DEF MetaCells
  <2>2. PageOf[x] = <<"meta", x[2], x[3] \div METAS_PER_PAGE>>
    BY <2>1 DEF PageOf, MetaFields
  <2>3. Loc(x[2], x[3]) \in Locs /\ PageOf[x] = MetaPage(Loc(x[2], x[3]))
    BY <2>1, <2>2, LocSplit DEF MetaPage
  <2> QED BY <2>3, PagesOfLoc, SectorOfIsSector
<1> QED BY <1>1, <1>2, <1>3 DEF Cell

\* The cells of a block: all of its descriptor lie on one page, and its data
\* is a page of its own.
LEMMA CellsOfBlock ==
    ASSUME NEW l \in Locs
    PROVE  /\ {FmtCell(l), NextCell(l), CrcCell(l), UsedCell(l), HdrCell(l),
               DataCell(l)} \subseteq Cell
           /\ \A x \in {FmtCell(l), NextCell(l), CrcCell(l), UsedCell(l), HdrCell(l)} :
                 PageOf[x] = MetaPage(l)
           /\ PageOf[DataCell(l)] = DataPage(l)
           /\ \A x \in Cell : PageOf[x] = DataPage(l) => x = DataCell(l)
<1>1. /\ {FmtCell(l), NextCell(l), CrcCell(l), UsedCell(l), HdrCell(l),
          DataCell(l)} \subseteq Cell
  BY CellsOfLoc DEF Cell
<1>2. \A x \in {FmtCell(l), NextCell(l), CrcCell(l), UsedCell(l), HdrCell(l)} :
          /\ x[1] # "pre" /\ x[1] # "data"
          /\ x[2] = BankOf(l) /\ x[3] = BlockOf(l)
  BY DEF FmtCell, NextCell, CrcCell, UsedCell, HdrCell
<1>3. \A x \in {FmtCell(l), NextCell(l), CrcCell(l), UsedCell(l), HdrCell(l)} :
          PageOf[x] = MetaPage(l)
  <2> SUFFICES ASSUME NEW x \in Cell, x[1] # "pre", x[1] # "data",
                      x[2] = BankOf(l), x[3] = BlockOf(l)
               PROVE  PageOf[x] = MetaPage(l)
    BY <1>1, <1>2
  <2> QED BY DEF PageOf, MetaPage
<1>4. PageOf[DataCell(l)] = DataPage(l)
  BY <1>1 DEF PageOf, DataCell, DataPage
<1>5. ASSUME NEW x \in Cell, PageOf[x] = DataPage(l) PROVE x = DataCell(l)
  <2>1. PageOf[x] = <<"data", BankOf(l), BlockOf(l)>>
    BY <1>5 DEF DataPage
  <2>2. x[1] # "pre"
    BY <2>1 DEF PageOf, PrePage
  <2>3. x[1] = "data"
    BY <2>1, <2>2 DEF PageOf
  <2> QED BY <2>1, <2>3 DEF PageOf, DataCell
<1> QED BY <1>1, <1>3, <1>4, <1>5

LEMMA PreCellOf ==
    ASSUME NEW x \in PreCells
    PROVE  /\ x \in Cell /\ x[2] \in Bank /\ x[3] \in Slot
           /\ x = PreCell(x[2], x[3])
           /\ PageOf[x] = PrePage(x[2])
BY DEF PreCells, Cell, PreCell, PageOf

\* Data lies in sectors of its own.
LEMMA SectorsApart ==
    ASSUME NEW l \in Locs
    PROVE  /\ SectorOf[DataPage(l)] \in Sector
           /\ SectorOf[DataPage(l)][1] = BankOf(l)
           /\ SectorOf[DataPage(l)][2] >= 1
           /\ \A b : SectorOf[DataPage(l)] # MetaSector(b)
<1>1. DataPage(l) \in Page /\ BlockOf(l) \in Nat
  BY PagesOfLoc, LocParts, GeometryAssumption DEF Block
<1>2. SectorOf[DataPage(l)] = <<BankOf(l), 1 + BlockOf(l) \div BLOCKS_PER_SECTOR>>
  BY <1>1 DEF SectorOf, DataPage
<1>3. BlockOf(l) \div BLOCKS_PER_SECTOR \in Nat
  BY <1>1, DivNat, GeometryAssumption
<1>4. 1 + BlockOf(l) \div BLOCKS_PER_SECTOR >= 1
  BY <1>3
<1>5. \A b : SectorOf[DataPage(l)] # MetaSector(b)
  BY <1>2, <1>3, <1>4 DEF MetaSector
<1> QED BY <1>1, <1>2, <1>4, <1>5, SectorOfIsSector

LEMMA SameBlockSameLoc ==
    ASSUME NEW k \in Locs, NEW l \in Locs, BankOf(k) = BankOf(l), BlockOf(k) = BlockOf(l)
    PROVE  k = l
<1>1. PICK b \in Bank, i \in Block : k = Loc(b, i)
  BY DEF Locs
<1>2. PICK c \in Bank, j \in Block : l = Loc(c, j)
  BY DEF Locs
<1>3. BankOf(k) = b /\ BlockOf(k) = i /\ BankOf(l) = c /\ BlockOf(l) = j
  BY <1>1, <1>2, LocSplit
<1> QED BY <1>1, <1>2, <1>3

BlockCells(l) == {NextCell(l), CrcCell(l), UsedCell(l), HdrCell(l)}

\* No two blocks share a cell, nor a block and a preamble.
LEMMA CellsApart ==
    ASSUME NEW k \in Locs, NEW l \in Locs
    PROVE  /\ \A x \in BlockCells(k) : x # DataCell(l) /\ x # FmtCell(l) /\ x \notin PreCells
           /\ DataCell(k) \notin PreCells /\ UsedCell(k) # HdrCell(l)
           /\ UsedCell(k) \notin {NextCell(l), CrcCell(l), HdrCell(l)}
           /\ UsedCell(k) = UsedCell(l) => k = l
           /\ DataCell(k) = DataCell(l) => k = l
           /\ DataPage(k) = DataPage(l) => k = l
           /\ k # l => BlockCells(k) \cap BlockCells(l) = {}
<1>1. k = l <=> BankOf(k) = BankOf(l) /\ BlockOf(k) = BlockOf(l)
  BY SameBlockSameLoc
<1>2. /\ \A x \in BlockCells(k) : x # DataCell(l) /\ x # FmtCell(l) /\ x \notin PreCells
      /\ DataCell(k) \notin PreCells /\ UsedCell(k) # HdrCell(l)
      /\ UsedCell(k) \notin {NextCell(l), CrcCell(l), HdrCell(l)}
  BY DEF BlockCells, NextCell, CrcCell, UsedCell, HdrCell, DataCell, FmtCell, PreCells
<1>3. /\ UsedCell(k) = UsedCell(l) => k = l
      /\ DataCell(k) = DataCell(l) => k = l
      /\ DataPage(k) = DataPage(l) => k = l
  BY <1>1 DEF UsedCell, DataCell, DataPage
<1>4. k # l => BlockCells(k) \cap BlockCells(l) = {}
  BY <1>1 DEF BlockCells, NextCell, CrcCell, UsedCell, HdrCell
<1> QED BY <1>2, <1>3, <1>4

LEMMA BlankCases ==
    ASSUME NEW l \in Locs, NEW x \in Blanks(l)
    PROVE  /\ x \in Cell /\ x \in Tracked
           /\ \/ x = DataCell(l) /\ PageOf[x] = DataPage(l)
              \/ /\ ~SpanningDelete /\ x \in {NextCell(l), CrcCell(l), HdrCell(l)}
                 /\ x # DataCell(l) /\ PageOf[x] = MetaPage(l)
           /\ DataCell(l) \in Blanks(l)
<1>1. /\ \/ x = DataCell(l)
         \/ ~SpanningDelete /\ x \in {NextCell(l), CrcCell(l), HdrCell(l)}
      /\ DataCell(l) \in Blanks(l)
  <2>1. CASE SpanningDelete
    BY <2>1 DEF Blanks
  <2>2. CASE ~SpanningDelete
    BY <2>2 DEF Blanks
  <2> QED BY <2>1, <2>2
<1>2. DataCell(l) \in DataCells /\ {NextCell(l), CrcCell(l), HdrCell(l)} \subseteq Cell
  BY CellsOfLoc, CellsOfBlock
<1>3. x # DataCell(l) => x \in {NextCell(l), CrcCell(l), HdrCell(l)}
  BY <1>1
<1>4. NextCell(l) # DataCell(l) /\ CrcCell(l) # DataCell(l) /\ HdrCell(l) # DataCell(l)
  BY DEF NextCell, CrcCell, HdrCell, DataCell
<1>5. x \in Cell /\ x \in Tracked
  BY <1>1, <1>2 DEF Tracked, Cell
<1>6. PageOf[DataCell(l)] = DataPage(l)
      /\ \A y \in {NextCell(l), CrcCell(l), HdrCell(l)} : PageOf[y] = MetaPage(l)
  BY CellsOfBlock
<1> QED BY <1>1, <1>3, <1>4, <1>5, <1>6

LEMMA TrackedCells == Tracked \subseteq Cell /\ DataCells \subseteq Tracked /\ PreCells \subseteq Tracked
BY DEF Tracked, Cell

LEMMA StatusFacts ==
    /\ CACHE_UNKNOWN # CACHE_SYNCED
    /\ CACHE_UNKNOWN \notin Dirty /\ CACHE_SYNCED \notin Dirty
    /\ CACHE_WRITE_ERASE \in Dirty /\ CACHE_WRITE_NONERASE \in Dirty
    /\ CACHE_WRITE_ERASE # CACHE_WRITE_NONERASE
    /\ \A v \in Status : v \in {CACHE_UNKNOWN, CACHE_SYNCED} \/ v \in Dirty
    /\ \A v \in Dirty : v # CACHE_WRITE_ERASE => v = CACHE_WRITE_NONERASE
BY DEF CACHE_UNKNOWN, CACHE_SYNCED, CACHE_WRITE_ERASE, CACHE_WRITE_NONERASE, Dirty, Status

LEMMA UsedValues ==
    /\ USED # ERASED
    /\ \A m \in Memory, l \in Locs : m[UsedCell(l)] \in {USED, ERASED}
<1>1. ASSUME NEW m \in Memory, NEW l \in Locs PROVE m[UsedCell(l)] \in {USED, ERASED}
  <2>1. UsedCell(l) \in Cell /\ UsedCell(l)[1] = "used"
    BY CellsOfBlock DEF UsedCell
  <2>2. m[UsedCell(l)] \in ValuesOf("used")
    BY <2>1, MemoryValue
  <2> QED BY <2>2 DEF ValuesOf
<1> QED BY <1>1 DEF USED, ERASED

-----------------------------------------------------------------------------
(***************************************************************************)
(* Reading pages.                                                          *)
(***************************************************************************)
\* Cache f is cache m with the pages P read from chip rom.
IsRead(m, rom, P, f) ==
    /\ \A x \in Cell : f.c[x] = IF PageOf[x] \in P THEN rom[x] ELSE m.c[x]
    /\ \A p \in Page : f.s[p] = IF p \in P THEN CACHE_SYNCED ELSE m.s[p]

LEMMA FetchIsRead ==
    ASSUME NEW m, NEW rom, NEW P
    PROVE  IsRead(m, rom, P, Fetch(m, rom, P))
BY PageOfCell DEF IsRead, Fetch

\* No page of P lies in a sector with a page to write.
Clean(st, P) == \A p \in Page : p \in P => ~ToWrite(st, SectorOf[p])

LEMMA ReadStatuses ==
    ASSUME NEW m, NEW rom, NEW P, NEW f, IsRead(m, rom, P, f), Clean(m.s, P)
    PROVE  /\ \A p \in Page : p \in P => f.s[p] = CACHE_SYNCED /\ m.s[p] \notin Dirty
           /\ \A p \in Page : f.s[p] \in Dirty <=> m.s[p] \in Dirty
           /\ \A p \in Page : f.s[p] \in Dirty => f.s[p] = m.s[p]
           /\ \A s : ToWrite(f.s, s) <=> ToWrite(m.s, s)
           /\ Erasing(f.s) <=> Erasing(m.s)
           /\ AllErase(m) => AllErase(f)
<1>1. \A p \in Page : p \in P => f.s[p] = CACHE_SYNCED /\ m.s[p] \notin Dirty
  BY DEF IsRead, Clean, ToWrite
<1>2. \A p \in Page : p \notin P => f.s[p] = m.s[p]
  BY DEF IsRead
<1>3. \A p \in Page : f.s[p] \in Dirty <=> m.s[p] \in Dirty
  BY <1>1, <1>2, StatusFacts
<1>4. \A p \in Page : f.s[p] \in Dirty => f.s[p] = m.s[p]
  BY <1>1, <1>2, StatusFacts
<1>5. \A s : ToWrite(f.s, s) <=> ToWrite(m.s, s)
  BY <1>3 DEF ToWrite
<1>6. Erasing(f.s) <=> Erasing(m.s)
  BY <1>3, <1>4, StatusFacts DEF Erasing
<1>7. AllErase(m) => AllErase(f)
  BY <1>1, <1>2, StatusFacts DEF AllErase
<1> QED BY <1>1, <1>3, <1>4, <1>5, <1>6, <1>7

\* Where reading tells nothing new of free blocks.
LEMMA ReadFree ==
    ASSUME NEW m, NEW rom, NEW P, NEW f, IsRead(m, rom, P, f), Clean(m.s, P),
           NEW later, FreeIn(later), FreeInCache(m, later),
           \A x \in Cell : PageOf[x] \in P => later[x] = rom[x]
    PROVE  FreeInCache(f, later)
<1> SUFFICES ASSUME NEW l \in Locs, f.s[MetaPage(l)] # CACHE_UNKNOWN,
                    f.c[UsedCell(l)] = ERASED, NEW x \in Blanks(l)
             PROVE  later[x] = ERASED /\ (x # DataCell(l) => f.c[x] = ERASED)
  BY DEF FreeInCache
<1>1. /\ UsedCell(l) \in Cell /\ PageOf[UsedCell(l)] = MetaPage(l)
      /\ MetaPage(l) \in Page
  BY CellsOfBlock, PagesOfLoc
<1>2. x \in Cell /\ (x # DataCell(l) => PageOf[x] = MetaPage(l))
  BY BlankCases
<1>3. CASE MetaPage(l) \in P
  <2>1. later[UsedCell(l)] = ERASED
    BY <1>1, <1>3 DEF IsRead
  <2>2. later[x] = ERASED
    BY <2>1 DEF FreeIn
  <2>3. x # DataCell(l) => f.c[x] = later[x]
    BY <1>2, <1>3 DEF IsRead
  <2> QED BY <2>2, <2>3
<1>4. CASE MetaPage(l) \notin P
  <2>1. m.s[MetaPage(l)] # CACHE_UNKNOWN /\ m.c[UsedCell(l)] = ERASED
    BY <1>1, <1>4 DEF IsRead
  <2>2. later[x] = ERASED /\ (x # DataCell(l) => m.c[x] = ERASED)
    BY <2>1 DEF FreeInCache
  <2>3. x # DataCell(l) => f.c[x] = m.c[x]
    BY <1>2, <1>4 DEF IsRead
  <2> QED BY <2>2, <2>3
<1> QED BY <1>3, <1>4

LEMMA ReadAddRight ==
    ASSUME NEW m, NEW rom, NEW P, NEW f, IsRead(m, rom, P, f), Clean(m.s, P),
           AddRight(m, rom)
    PROVE  AddRight(f, rom)
<1>1. /\ HeldOrBlank(m, rom) /\ FreeIn(rom) /\ UsedFirst(m, rom)
      /\ FreeInCache(m, rom)
  BY DEF AddRight
<1>2. HeldOrBlank(f, rom)
  <2> SUFFICES ASSUME NEW x \in Tracked
               PROVE  /\ f.s[PageOf[x]] = CACHE_SYNCED => f.c[x] = rom[x]
                      /\ f.s[PageOf[x]] \in Dirty => f.c[x] = rom[x] \/ rom[x] = ERASED
    BY DEF HeldOrBlank
  <2>1. x \in Cell /\ PageOf[x] \in Page
    BY TrackedCells, PageOfCell
  <2>2. CASE PageOf[x] \in P
    BY <2>1, <2>2 DEF IsRead
  <2>3. CASE PageOf[x] \notin P
    <3>1. f.c[x] = m.c[x] /\ f.s[PageOf[x]] = m.s[PageOf[x]]
      BY <2>1, <2>3 DEF IsRead
    <3> QED BY <1>1, <3>1 DEF HeldOrBlank
  <2> QED BY <2>2, <2>3
<1>3. UsedFirst(f, rom)
  <2> SUFFICES ASSUME NEW l \in Locs, f.s[DataPage(l)] \in Dirty
               PROVE  /\ f.c[UsedCell(l)] = USED
                      /\ f.s[MetaPage(l)] \in Dirty \/ rom[UsedCell(l)] = USED
    BY DEF UsedFirst
  <2>1. /\ UsedCell(l) \in Cell /\ PageOf[UsedCell(l)] = MetaPage(l)
        /\ MetaPage(l) \in Page /\ DataPage(l) \in Page
    BY CellsOfBlock, PagesOfLoc
  <2>2. m.s[DataPage(l)] \in Dirty
    BY <2>1, ReadStatuses
  <2>3. /\ m.c[UsedCell(l)] = USED
        /\ m.s[MetaPage(l)] \in Dirty \/ rom[UsedCell(l)] = USED
    BY <1>1, <2>2 DEF UsedFirst
  <2>4. f.s[MetaPage(l)] \in Dirty <=> m.s[MetaPage(l)] \in Dirty
    BY <2>1, ReadStatuses
  <2>5. MetaPage(l) \in P => m.s[MetaPage(l)] \notin Dirty
    BY <2>1, ReadStatuses
  <2>6. f.c[UsedCell(l)] = IF MetaPage(l) \in P THEN rom[UsedCell(l)] ELSE m.c[UsedCell(l)]
    BY <2>1 DEF IsRead
  <2> QED BY <2>3, <2>4, <2>5, <2>6
<1>4. FreeInCache(f, rom)
  BY <1>1, ReadFree
<1> QED BY <1>1, <1>2, <1>3, <1>4 DEF AddRight

LEMMA ReadDeleteRight ==
    ASSUME NEW m, NEW rom, NEW P, NEW f, IsRead(m, rom, P, f), Clean(m.s, P),
           DeleteRight(m, rom)
    PROVE  DeleteRight(f, rom) /\ After(f, rom) = After(m, rom)
<1>1. /\ AllErase(m) /\ HeldElsewhere(m, rom) /\ FreeIn(After(m, rom))
      /\ FreeInCache(m, After(m, rom))
  BY DEF DeleteRight
<1>2. \A s : ToWrite(f.s, s) <=> ToWrite(m.s, s)
  BY ReadStatuses
<1>3. \A x \in Cell : PageOf[x] \in P => ~ToWrite(m.s, SectorOf[PageOf[x]])
  BY PageOfCell DEF Clean
<1>4. After(f, rom) = After(m, rom)
  <2>1. ASSUME NEW x \in Cell
        PROVE  (IF ToWrite(f.s, SectorOf[PageOf[x]]) THEN f.c[x] ELSE rom[x])
               = (IF ToWrite(m.s, SectorOf[PageOf[x]]) THEN m.c[x] ELSE rom[x])
    BY <1>2, <1>3 DEF IsRead
  <2> QED BY <2>1 DEF After
<1>5. HeldElsewhere(f, rom)
  <2> SUFFICES ASSUME NEW x \in Tracked, f.s[PageOf[x]] = CACHE_SYNCED,
                      ~ToWrite(f.s, SectorOf[PageOf[x]])
               PROVE  f.c[x] = rom[x]
    BY DEF HeldElsewhere
  <2>1. x \in Cell /\ PageOf[x] \in Page
    BY TrackedCells, PageOfCell
  <2>2. CASE PageOf[x] \in P
    BY <2>1, <2>2 DEF IsRead
  <2>3. CASE PageOf[x] \notin P
    <3>1. f.c[x] = m.c[x] /\ f.s[PageOf[x]] = m.s[PageOf[x]]
      BY <2>1, <2>3 DEF IsRead
    <3> QED BY <1>1, <1>2, <3>1 DEF HeldElsewhere
  <2> QED BY <2>2, <2>3
<1>6. \A x \in Cell : PageOf[x] \in P => After(m, rom)[x] = rom[x]
  BY <1>3 DEF After
<1>7. FreeInCache(f, After(m, rom))
  <2> DEFINE later == After(m, rom)
  <2>1. FreeIn(later) /\ FreeInCache(m, later)
        /\ \A x \in Cell : PageOf[x] \in P => later[x] = rom[x]
    BY <1>1, <1>6
  <2> HIDE DEF later
  <2>2. FreeInCache(f, later)
    BY <2>1, ReadFree
  <2> QED BY <2>2 DEF later
<1>8. AllErase(f)
  BY <1>1, ReadStatuses
<1> QED BY <1>1, <1>4, <1>5, <1>7, <1>8 DEF DeleteRight

LEMMA ReadRight ==
    ASSUME NEW m, NEW rom, NEW P, NEW f, IsRead(m, rom, P, f), Clean(m.s, P),
           Right(m, rom)
    PROVE  Right(f, rom)
<1>1. Erasing(f.s) <=> Erasing(m.s)
  BY ReadStatuses
<1> QED BY <1>1, ReadAddRight, ReadDeleteRight DEF Right

\* With nothing to write any page may be read.
LEMMA NoDirtyClean ==
    ASSUME NEW st, NoDirty(st)
    PROVE  /\ \A P : Clean(st, P)
           /\ \A s : ~ToWrite(st, s)
           /\ ~Erasing(st)
BY StatusFacts DEF NoDirty, Clean, ToWrite, Erasing

\* read_sector reads no sector with a page to write.
LEMMA UnreadClean ==
    ASSUME NEW m, LoadedPages(m.s), NEW S, S \subseteq Sector
    PROVE  Clean(m.s, UNION {PagesIn[t] : t \in Unread(m, S)})
<1> SUFFICES ASSUME NEW p \in Page, NEW t \in Unread(m, S), p \in PagesIn[t],
                    NEW q \in Page, SectorOf[q] = SectorOf[p], m.s[q] \in Dirty
             PROVE  FALSE
  BY DEF Clean, ToWrite
<1>1. t \in Sector /\ SectorOf[p] = t
  BY PagesInPage DEF Unread
<1>2. SectorLoaded(m.s, t)
  BY <1>1 DEF LoadedPages
<1> QED BY <1>2 DEF Unread, SectorLoaded

LEMMA ReadBlockRight ==
    ASSUME NEW m, NEW rom, NEW P, NoDirty(m.s), Right(m, rom)
    PROVE  Right(read_block(m, rom, P), rom)
<1> DEFINE Q == {p \in P : m.s[p] # CACHE_SYNCED}
<1>1. read_block(m, rom, P) = Fetch(m, rom, Q)
  BY DEF read_block
<1> HIDE DEF Q
<1>2. IsRead(m, rom, Q, Fetch(m, rom, Q)) /\ Clean(m.s, Q)
  BY FetchIsRead, NoDirtyClean
<1>3. Right(Fetch(m, rom, Q), rom)
  BY <1>2, ReadRight
<1> QED BY <1>1, <1>3

LEMMA ReadSectorIsRead ==
    ASSUME NEW m, NEW rom, NEW S, S \subseteq Sector, LoadedPages(m.s)
    PROVE  \E P : /\ P = UNION {PagesIn[t] : t \in Unread(m, S)}
                  /\ IsRead(m, rom, P, read_sector(m, rom, S)) /\ Clean(m.s, P)
BY FetchIsRead, UnreadClean DEF read_sector

LEMMA ReadSectorRight ==
    ASSUME NEW m, NEW rom, NEW S, S \subseteq Sector, LoadedPages(m.s), Right(m, rom)
    PROVE  Right(read_sector(m, rom, S), rom)
BY ReadSectorIsRead, ReadRight
\* read_sector reads whole sectors.
LEMMA ReadSectorCells ==
    ASSUME NEW m, NEW rom, NEW S, S \subseteq Sector
    PROVE  /\ \A x \in Cell : read_sector(m, rom, S).c[x] =
                 IF SectorOf[PageOf[x]] \in Unread(m, S) THEN rom[x] ELSE m.c[x]
           /\ \A p \in Page : read_sector(m, rom, S).s[p] =
                 IF SectorOf[p] \in Unread(m, S) THEN CACHE_SYNCED ELSE m.s[p]
<1> DEFINE P == UNION {PagesIn[t] : t \in Unread(m, S)}
           f == read_sector(m, rom, S)
<1>1. IsRead(m, rom, P, f)
  BY FetchIsRead DEF read_sector
<1>2. \A p \in Page : p \in P <=> SectorOf[p] \in Unread(m, S)
  <2>1. Unread(m, S) \subseteq Sector
    BY DEF Unread
  <2> QED BY <2>1, PagesInPage, SectorOfIsSector
<1> HIDE DEF P, f
<1>3. \A x \in Cell : f.c[x] = IF SectorOf[PageOf[x]] \in Unread(m, S)
                               THEN rom[x] ELSE m.c[x]
  BY <1>1, <1>2, PageOfCell DEF IsRead
<1>4. \A p \in Page : f.s[p] = IF SectorOf[p] \in Unread(m, S)
                               THEN CACHE_SYNCED ELSE m.s[p]
  BY <1>1, <1>2 DEF IsRead
<1> QED BY <1>3, <1>4 DEF f

LEMMA ScanSectors ==
    /\ {MetaSector(b) : b \in Bank} \subseteq Sector
    /\ \A l \in Locs : /\ {MetaSector(b) : b \in 0 .. BankOf(l)} \subseteq Sector
                       /\ MetaSector(BankOf(l)) \in {MetaSector(b) : b \in 0 .. BankOf(l)}
                       /\ MetaSector(BankOf(l)) \in {MetaSector(b) : b \in Bank}
<1>1. ASSUME NEW l \in Locs
      PROVE  BankOf(l) \in Bank /\ 0 .. BankOf(l) \subseteq Bank /\ BankOf(l) \in 0 .. BankOf(l)
  BY LocParts, GeometryAssumption DEF Bank
<1> QED BY <1>1, MetaSectorOf

\* A block is free or not, whichever of the two scans is looked at.
LEMMA ScansAgree ==
    ASSUME NEW m, NEW rom, NEW l \in Locs
    PROVE  ScannedTo(m, rom, l).c[UsedCell(l)] = ScannedAll(m, rom).c[UsedCell(l)]
<1> DEFINE S == {MetaSector(b) : b \in 0 .. BankOf(l)}
           T == {MetaSector(b) : b \in Bank}
           s == MetaSector(BankOf(l))
<1>1. S \subseteq Sector /\ T \subseteq Sector /\ s \in S /\ s \in T
  BY ScanSectors
<1>2. ScannedTo(m, rom, l) = read_sector(m, rom, S) /\ ScannedAll(m, rom) = read_sector(m, rom, T)
  BY DEF ScannedTo, ScannedAll
<1>3. UsedCell(l) \in Cell /\ SectorOf[PageOf[UsedCell(l)]] = s
  BY CellsOfBlock, MetaSectorOf
<1> HIDE DEF S, T, s
<1>4. s \in Unread(m, S) <=> s \in Unread(m, T)
  BY <1>1 DEF Unread
<1> QED BY <1>1, <1>2, <1>3, <1>4, ReadSectorCells

\* A scan of a cache with loaded sectors.
LEMMA ScanIsRead ==
    ASSUME NEW m, NEW rom, LoadedPages(m.s)
    PROVE  /\ \E P : IsRead(m, rom, P, ScannedAll(m, rom)) /\ Clean(m.s, P)
           /\ \A l \in Locs :
                 \E P : IsRead(m, rom, P, ScannedTo(m, rom, l)) /\ Clean(m.s, P)
<1>1. \E P : IsRead(m, rom, P, ScannedAll(m, rom)) /\ Clean(m.s, P)
  BY ScanSectors, ReadSectorIsRead DEF ScannedAll
<1>2. ASSUME NEW l \in Locs
      PROVE  \E P : IsRead(m, rom, P, ScannedTo(m, rom, l)) /\ Clean(m.s, P)
  <2> DEFINE S == {MetaSector(b) : b \in 0 .. BankOf(l)}
  <2>1. S \subseteq Sector /\ ScannedTo(m, rom, l) = read_sector(m, rom, S)
    BY ScanSectors DEF ScannedTo
  <2> HIDE DEF S
  <2> QED BY <2>1, ReadSectorIsRead
<1> QED BY <1>1, <1>2

-----------------------------------------------------------------------------
(***************************************************************************)
(* From one kind of change to the other.                                   *)
(***************************************************************************)
LEMMA RightFree ==
    ASSUME NEW m, NEW rom, Right(m, rom), ~Erasing(m.s)
    PROVE  FreeIn(rom) /\ AddRight(m, rom)
BY DEF Right, AddRight

\* An empty cache is right about any chip whose free blocks are blank.
LEMMA UnknownRight ==
    ASSUME NEW m, NEW rom, FreeIn(rom), \A p \in Page : m.s[p] = CACHE_UNKNOWN
    PROVE  Right(m, rom)
<1>1. ~Erasing(m.s)
  BY StatusFacts DEF Erasing
<1>2. HeldOrBlank(m, rom)
  BY StatusFacts, TrackedCells, PageOfCell DEF HeldOrBlank
<1>3. UsedFirst(m, rom)
  BY StatusFacts, PagesOfLoc DEF UsedFirst
<1>4. FreeInCache(m, rom)
  BY PagesOfLoc DEF FreeInCache
<1> QED BY <1>1, <1>2, <1>3, <1>4 DEF Right, AddRight

\* With nothing left to write the chip is as it was to become.
LEMMA DeleteDone ==
    ASSUME NEW m, NEW rom \in Memory, DeleteRight(m, rom), NoDirty(m.s)
    PROVE  AddRight(m, rom)
<1>1. \A s : ~ToWrite(m.s, s)
  BY NoDirtyClean
<1>2. After(m, rom) = rom
  <2>1. rom = [x \in Cell |-> rom[x]]
    BY DEF Memory
  <2> QED BY <1>1, <2>1 DEF After
<1>3. HeldOrBlank(m, rom)
  BY <1>1, TrackedCells, PageOfCell DEF HeldOrBlank, DeleteRight, HeldElsewhere, NoDirty
<1>4. UsedFirst(m, rom)
  BY PagesOfLoc DEF UsedFirst, NoDirty
<1> QED BY <1>2, <1>3, <1>4 DEF DeleteRight, AddRight

\* Pages to write are all to be erased, or none is.
LEMMA EndOfErasing ==
    ASSUME NEW m \in CacheType, AllErase(m), ~Erasing(m.s)
    PROVE  NoDirty(m.s)
BY StatusFacts DEF AllErase, Erasing, NoDirty

-----------------------------------------------------------------------------
(***************************************************************************)
(* Writing into the cache.                                                 *)
(***************************************************************************)
\* Cache n is cache m with w written over it and the pages P marked.
IsWrite(m, w, P, st, n) ==
    /\ \A x \in Cell : n.c[x] = IF x \in DOMAIN w THEN w[x] ELSE m.c[x]
    /\ \A p \in Page : n.s[p] = IF p \in P THEN st ELSE m.s[p]

LEMMA WriteIsWrite ==
    ASSUME NEW m \in CacheType, NEW w, NEW P, NEW st
    PROVE  /\ IsWrite(m, w, P, st, update_cache_status(Put(m, w), P, st))
           /\ IsWrite(m, w, {}, st, Put(m, w))
<1>1. \A x \in Cell : Put(m, w).c[x] = IF x \in DOMAIN w THEN w[x] ELSE m.c[x]
  BY DEF Put, CacheType
<1>2. Put(m, w).s = m.s
  BY PutStatus
<1> DEFINE k == Put(m, w)
           n == update_cache_status(k, P, st)
<1>3. n.c = k.c /\ \A p \in Page : n.s[p] = IF p \in P THEN st ELSE k.s[p]
  <2>1. k = [m EXCEPT !.c = k.c]
    BY DEF Put, CacheType
  <2>2. n = [k EXCEPT !.s = [p \in Page |-> IF p \in P THEN st ELSE k.s[p]]]
    BY DEF update_cache_status
  <2>3. n = [[m EXCEPT !.c = k.c] EXCEPT !.s = [p \in Page |-> IF p \in P THEN st ELSE k.s[p]]]
    BY <2>1, <2>2
  <2> HIDE DEF k, n
  <2> QED BY <2>3 DEF CacheType
<1> HIDE DEF k, n
<1> QED BY <1>1, <1>2, <1>3 DEF IsWrite, k, n
\* What add_file may write: erased cells of pages that are marked.
LEMMA AddWrites ==
    ASSUME NEW m, NEW rom, NEW w, NEW P, NEW n, AddRight(m, rom), ~Erasing(m.s),
           IsWrite(m, w, P, CACHE_WRITE_NONERASE, n),
           \A x \in Tracked : x \in DOMAIN w =>
               n.s[PageOf[x]] \in Dirty /\ rom[x] = ERASED,
           \A x \in Tracked : PageOf[x] \in P /\ x \notin DOMAIN w =>
               m.s[PageOf[x]] \in Dirty \cup {CACHE_SYNCED},
           UsedFirst(n, rom),
           \A l \in Locs :
               n.s[MetaPage(l)] # CACHE_UNKNOWN /\ n.c[UsedCell(l)] = ERASED =>
                   /\ m.s[MetaPage(l)] # CACHE_UNKNOWN
                   /\ m.c[UsedCell(l)] = ERASED
                   /\ \A x \in Blanks(l) : x # DataCell(l) => x \notin DOMAIN w
    PROVE  AddRight(n, rom) /\ ~Erasing(n.s)
<1>1. HeldOrBlank(m, rom) /\ FreeIn(rom) /\ FreeInCache(m, rom)
  BY DEF AddRight
<1>2. HeldOrBlank(n, rom)
  <2> SUFFICES ASSUME NEW x \in Tracked
               PROVE  /\ n.s[PageOf[x]] = CACHE_SYNCED => n.c[x] = rom[x]
                      /\ n.s[PageOf[x]] \in Dirty => n.c[x] = rom[x] \/ rom[x] = ERASED
    BY DEF HeldOrBlank
  <2>1. x \in Cell /\ PageOf[x] \in Page
    BY TrackedCells, PageOfCell
  <2>2. CASE x \in DOMAIN w
    BY <2>2, StatusFacts
  <2>3. CASE x \notin DOMAIN w
    <3>1. n.c[x] = m.c[x]
      BY <2>1, <2>3 DEF IsWrite
    <3>2. PageOf[x] \in P => m.s[PageOf[x]] \in Dirty \cup {CACHE_SYNCED}
                             /\ n.s[PageOf[x]] = CACHE_WRITE_NONERASE
      BY <2>1, <2>3 DEF IsWrite
    <3>3. PageOf[x] \notin P => n.s[PageOf[x]] = m.s[PageOf[x]]
      BY <2>1 DEF IsWrite
    <3> QED BY <1>1, <3>1, <3>2, <3>3, StatusFacts DEF HeldOrBlank
  <2> QED BY <2>2, <2>3
<1>3. FreeInCache(n, rom)
  <2> SUFFICES ASSUME NEW l \in Locs, n.s[MetaPage(l)] # CACHE_UNKNOWN,
                      n.c[UsedCell(l)] = ERASED, NEW x \in Blanks(l)
               PROVE  rom[x] = ERASED /\ (x # DataCell(l) => n.c[x] = ERASED)
    BY DEF FreeInCache
  <2>1. /\ m.s[MetaPage(l)] # CACHE_UNKNOWN /\ m.c[UsedCell(l)] = ERASED
        /\ x # DataCell(l) => x \notin DOMAIN w
    OBVIOUS
  <2>2. rom[x] = ERASED /\ (x # DataCell(l) => m.c[x] = ERASED)
    BY <1>1, <2>1 DEF FreeInCache
  <2>3. x \in Cell
    BY BlankCases
  <2> QED BY <2>1, <2>2, <2>3 DEF IsWrite
<1>4. ~Erasing(n.s)
  BY StatusFacts DEF IsWrite, Erasing
<1> QED BY <1>1, <1>2, <1>3, <1>4 DEF AddRight

\* The entry of a new file is written over a 0xFF of the preamble.
LEMMA EntryWritten ==
    ASSUME NEW m \in CacheType, NEW rom, NEW b \in Bank, NEW i \in Slot, NEW w, NEW n,
           AddRight(m, rom), NoDirty(m.s), SectorLoaded(m.s, MetaSector(b)),
           m.c[PreCell(b, i)] = ERASED, DOMAIN w = {PreCell(b, i)},
           IsWrite(m, w, {PrePage(b)}, CACHE_WRITE_NONERASE, n)
    PROVE  /\ AddRight(n, rom) /\ ~Erasing(n.s)
           /\ \A l \in Locs : n.c[UsedCell(l)] = m.c[UsedCell(l)]
<1>1. /\ PreCell(b, i) \in PreCells /\ PreCell(b, i) \in Tracked
      /\ PageOf[PreCell(b, i)] = PrePage(b) /\ PrePage(b) \in Page
  <2>1. PreCell(b, i) \in PreCells
    BY DEF PreCell, PreCells
  <2>2. PageOf[PreCell(b, i)] = PrePage(b)
    BY <2>1 DEF PageOf, PreCell, Cell
  <2> QED BY <2>1, <2>2, TrackedCells, PrePageIsPage
<1>2. m.s[PrePage(b)] = CACHE_SYNCED
  <2>1. PrePage(b) \in PagesIn[MetaSector(b)]
    BY <1>1, MetaSectorOf, SectorOfIsSector
  <2>2. m.s[PrePage(b)] \in Status /\ m.s[PrePage(b)] \notin Dirty
    BY <1>1 DEF CacheType, NoDirty
  <2>3. m.s[PrePage(b)] # CACHE_UNKNOWN
    BY <2>1 DEF SectorLoaded
  <2> QED BY <2>2, <2>3, StatusFacts
<1>3. rom[PreCell(b, i)] = ERASED
  BY <1>1, <1>2 DEF AddRight, HeldOrBlank
<1>4. \A x \in Tracked : x \in DOMAIN w => n.s[PageOf[x]] \in Dirty /\ rom[x] = ERASED
  BY <1>1, <1>3, StatusFacts DEF IsWrite
<1>5. \A x \in Tracked : PageOf[x] \in {PrePage(b)} /\ x \notin DOMAIN w =>
          m.s[PageOf[x]] \in Dirty \cup {CACHE_SYNCED}
  BY <1>2
<1>6. ASSUME NEW l \in Locs
      PROVE  /\ MetaPage(l) # PrePage(b) /\ DataPage(l) # PrePage(b)
             /\ n.s[MetaPage(l)] = m.s[MetaPage(l)] /\ n.s[DataPage(l)] = m.s[DataPage(l)]
             /\ UsedCell(l) \notin DOMAIN w
             /\ n.c[UsedCell(l)] = m.c[UsedCell(l)]
  <2>1. MetaPage(l) # PrePage(b) /\ DataPage(l) # PrePage(b)
    BY DEF MetaPage, DataPage, PrePage
  <2>2. UsedCell(l) \notin DOMAIN w
    BY <1>1, CellsApart DEF BlockCells
  <2> QED BY <2>1, <2>2, PagesOfLoc, CellsOfBlock DEF IsWrite
<1>7. UsedFirst(n, rom)
  BY <1>6, PagesOfLoc DEF UsedFirst, NoDirty
<1>8. ASSUME NEW l \in Locs, NEW x \in Blanks(l), x # DataCell(l)
      PROVE  x \notin DOMAIN w
  BY <1>1, <1>8, BlankCases, CellsApart DEF BlockCells
<1>9. ~Erasing(m.s)
  BY NoDirtyClean
<1>10. AddRight(n, rom) /\ ~Erasing(n.s)
  BY <1>4, <1>5, <1>6, <1>7, <1>8, <1>9, AddWrites
<1> QED BY <1>6, <1>10

\* add_file at work on block l: its descriptor is marked used, and the block
\* was blank on the chip.
Filling(m, rom, l) ==
    /\ AddRight(m, rom) /\ ~Erasing(m.s)
    /\ \A x \in Blanks(l) : rom[x] = ERASED
    /\ m.c[UsedCell(l)] = USED
    /\ m.s[MetaPage(l)] \in Dirty

\* Descriptor cells of which something is claimed are blank in a free block.
LEMMA TrackedBlank ==
    ASSUME NEW l \in Locs, NEW x \in {NextCell(l), CrcCell(l), HdrCell(l)}, x \in Tracked
    PROVE  x \in Blanks(l)
<1>1. x \notin PreCells \cup DataCells
  BY DEF NextCell, CrcCell, HdrCell, PreCells, DataCells
<1>2. ~SpanningDelete
  BY <1>1 DEF Tracked
<1> QED BY <1>2 DEF Blanks

LEMMA DescriptorRight ==
    ASSUME NEW m \in CacheType, NEW rom \in Memory, NEW l \in Locs, NEW w, NEW d,
           AddRight(m, rom), ~Erasing(m.s),
           SectorLoaded(m.s, MetaSector(BankOf(l))), m.c[UsedCell(l)] = ERASED,
           DOMAIN w = {UsedCell(l), HdrCell(l)}, w[UsedCell(l)] = USED,
           IsWrite(m, w, {MetaPage(l)}, CACHE_WRITE_NONERASE, d)
    PROVE  Filling(d, rom, l)
<1>1. /\ UsedCell(l) \in Cell /\ PageOf[UsedCell(l)] = MetaPage(l)
      /\ HdrCell(l) \in Cell /\ PageOf[HdrCell(l)] = MetaPage(l)
      /\ MetaPage(l) \in Page
  BY CellsOfBlock, PagesOfLoc
<1>2. m.s[MetaPage(l)] \in Dirty \cup {CACHE_SYNCED} /\ m.s[MetaPage(l)] # CACHE_UNKNOWN
  <2>1. MetaPage(l) \in PagesIn[MetaSector(BankOf(l))]
    BY <1>1, MetaSectorOf, SectorOfIsSector
  <2>2. m.s[MetaPage(l)] # CACHE_UNKNOWN /\ m.s[MetaPage(l)] \in Status
    BY <1>1, <2>1 DEF CacheType, SectorLoaded
  <2> QED BY <2>2, StatusFacts
<1>3. \A x \in Blanks(l) : rom[x] = ERASED
  BY <1>2 DEF AddRight, FreeInCache
<1>4. /\ d.c[UsedCell(l)] = USED /\ d.s[MetaPage(l)] = CACHE_WRITE_NONERASE
      /\ d.s[MetaPage(l)] \in Dirty
  BY <1>1, StatusFacts DEF IsWrite
<1>5. ASSUME NEW x \in Tracked, x \in DOMAIN w
      PROVE  d.s[PageOf[x]] \in Dirty /\ rom[x] = ERASED
  <2>1. CASE x = UsedCell(l)
    <3>1. m.c[x] = rom[x] \/ rom[x] = ERASED
      BY <1>1, <1>2, <2>1 DEF AddRight, HeldOrBlank
    <3> QED BY <1>1, <1>4, <2>1, <3>1
  <2>2. CASE x = HdrCell(l)
    <3>1. x \in Blanks(l)
      BY <2>2, TrackedBlank
    <3> QED BY <1>1, <1>3, <1>4, <2>2, <3>1
  <2> QED BY <1>5, <2>1, <2>2
<1>6. \A x \in Tracked : PageOf[x] \in {MetaPage(l)} /\ x \notin DOMAIN w =>
          m.s[PageOf[x]] \in Dirty \cup {CACHE_SYNCED}
  BY <1>2
<1>7. ASSUME NEW k \in Locs
      PROVE  /\ DataPage(k) # MetaPage(l)
             /\ MetaPage(k) \in Page /\ DataPage(k) \in Page /\ UsedCell(k) \in Cell
             /\ k # l => UsedCell(k) \notin DOMAIN w
             /\ d.s[DataPage(k)] = m.s[DataPage(k)]
             /\ k # l => d.c[UsedCell(k)] = m.c[UsedCell(k)]
             /\ MetaPage(k) # MetaPage(l) => d.s[MetaPage(k)] = m.s[MetaPage(k)]
  <2>1. DataPage(k) # MetaPage(l)
    BY DEF DataPage, MetaPage
  <2>2. k # l => UsedCell(k) \notin DOMAIN w
    BY CellsApart
  <2>3. MetaPage(k) \in Page /\ DataPage(k) \in Page /\ UsedCell(k) \in Cell
    BY PagesOfLoc, CellsOfBlock
  <2> QED BY <2>1, <2>2, <2>3 DEF IsWrite
<1>8. UsedFirst(d, rom)
  <2> SUFFICES ASSUME NEW k \in Locs, d.s[DataPage(k)] \in Dirty
               PROVE  /\ d.c[UsedCell(k)] = USED
                      /\ d.s[MetaPage(k)] \in Dirty \/ rom[UsedCell(k)] = USED
    BY DEF UsedFirst
  <2>1. /\ m.c[UsedCell(k)] = USED
        /\ m.s[MetaPage(k)] \in Dirty \/ rom[UsedCell(k)] = USED
    BY <1>7 DEF AddRight, UsedFirst
  <2> QED BY <1>4, <1>7, <2>1
<1>9. ASSUME NEW k \in Locs, d.s[MetaPage(k)] # CACHE_UNKNOWN, d.c[UsedCell(k)] = ERASED
      PROVE  /\ m.s[MetaPage(k)] # CACHE_UNKNOWN
             /\ m.c[UsedCell(k)] = ERASED
             /\ \A x \in Blanks(k) : x # DataCell(k) => x \notin DOMAIN w
  <2>1. k # l
    BY <1>4, <1>9, UsedValues
  <2>2. ASSUME NEW x \in Blanks(k), x # DataCell(k) PROVE x \notin DOMAIN w
    <3>1. x \in BlockCells(k) /\ UsedCell(l) \in BlockCells(l) /\ HdrCell(l) \in BlockCells(l)
      BY <2>2, BlankCases DEF BlockCells
    <3> QED BY <2>1, <3>1, CellsApart
  <2> QED BY <1>2, <1>7, <1>9, <2>1, <2>2
<1>10. AddRight(d, rom) /\ ~Erasing(d.s)
  BY <1>5, <1>6, <1>8, <1>9, AddWrites
<1> QED BY <1>3, <1>4, <1>10 DEF Filling

\* Reading leaves a block that is being filled alone.
LEMMA FillingRead ==
    ASSUME NEW m, NEW rom, NEW l \in Locs, NEW P, NEW f,
           Filling(m, rom, l), IsRead(m, rom, P, f), Clean(m.s, P)
    PROVE  Filling(f, rom, l)
<1>1. AddRight(f, rom) /\ ~Erasing(f.s)
  BY ReadAddRight, ReadStatuses DEF Filling
<1>2. MetaPage(l) \in Page /\ UsedCell(l) \in Cell /\ PageOf[UsedCell(l)] = MetaPage(l)
  BY PagesOfLoc, CellsOfBlock
<1>3. f.s[MetaPage(l)] \in Dirty /\ MetaPage(l) \notin P
  BY <1>2, ReadStatuses DEF Filling
<1>4. f.c[UsedCell(l)] = USED
  BY <1>2, <1>3 DEF IsRead, Filling
<1> QED BY <1>1, <1>3, <1>4 DEF Filling

\* The data and its checksum, or the link, once the descriptor is marked.
LEMMA BlockFilled ==
    ASSUME NEW m \in CacheType, NEW rom \in Memory, NEW l \in Locs, NEW w, NEW P, NEW n,
           Filling(m, rom, l), IsWrite(m, w, P, CACHE_WRITE_NONERASE, n),
           \/ DOMAIN w = {DataCell(l), CrcCell(l)} /\ P = {DataPage(l)}
           \/ DOMAIN w = {NextCell(l)} /\ P = {}
    PROVE  /\ Filling(n, rom, l)
           /\ \A k \in Locs : n.c[UsedCell(k)] = m.c[UsedCell(k)]
<1>1. /\ MetaPage(l) \in Page /\ DataPage(l) \in Page
      /\ PageOf[DataCell(l)] = DataPage(l)
      /\ PageOf[CrcCell(l)] = MetaPage(l) /\ PageOf[NextCell(l)] = MetaPage(l)
  BY CellsOfBlock, PagesOfLoc
<1>2. /\ AddRight(m, rom) /\ ~Erasing(m.s) /\ \A x \in Blanks(l) : rom[x] = ERASED
      /\ m.c[UsedCell(l)] = USED /\ m.s[MetaPage(l)] \in Dirty
  BY DEF Filling
<1>3. ASSUME NEW k \in Locs
      PROVE  /\ MetaPage(k) \notin P /\ MetaPage(k) \in Page
             /\ n.s[MetaPage(k)] = m.s[MetaPage(k)]
             /\ UsedCell(k) \notin DOMAIN w
             /\ n.c[UsedCell(k)] = m.c[UsedCell(k)]
  <2>1. MetaPage(k) # DataPage(l)
    BY DEF DataPage, MetaPage
  <2>2. UsedCell(k) \notin {DataCell(l), CrcCell(l), NextCell(l)}
    BY CellsApart DEF BlockCells
  <2>3. MetaPage(k) \in Page /\ UsedCell(k) \in Cell
    BY PagesOfLoc, CellsOfBlock
  <2>4. MetaPage(k) \notin P /\ UsedCell(k) \notin DOMAIN w
    BY <2>1, <2>2
  <2> QED BY <2>3, <2>4 DEF IsWrite
<1>4. ASSUME NEW x \in Tracked, x \in DOMAIN w
      PROVE  n.s[PageOf[x]] \in Dirty /\ rom[x] = ERASED
  <2>1. CASE x = DataCell(l)
    <3>1. P = {DataPage(l)}
      <4>1. DataCell(l) # NextCell(l)
        BY CellsApart DEF BlockCells
      <4> QED BY <1>4, <2>1, <4>1
    <3>2. rom[x] = ERASED
      BY <1>2, <2>1 DEF Blanks
    <3> QED BY <1>1, <2>1, <3>1, <3>2, StatusFacts DEF IsWrite
  <2>2. CASE x \in {CrcCell(l), NextCell(l)}
    <3>1. x \in Blanks(l)
      BY <2>2, TrackedBlank
    <3> QED BY <1>1, <1>2, <1>3, <2>2, <3>1
  <2> QED BY <1>4, <2>1, <2>2
<1>5. ASSUME NEW x \in Tracked, PageOf[x] \in P, x \notin DOMAIN w PROVE FALSE
  <2>1. P = {DataPage(l)} /\ DOMAIN w = {DataCell(l), CrcCell(l)}
    BY <1>5
  <2> QED BY <1>5, <2>1, TrackedCells, CellsOfBlock
<1>6. UsedFirst(n, rom)
  <2> SUFFICES ASSUME NEW k \in Locs, n.s[DataPage(k)] \in Dirty
               PROVE  /\ n.c[UsedCell(k)] = USED
                      /\ n.s[MetaPage(k)] \in Dirty \/ rom[UsedCell(k)] = USED
    BY DEF UsedFirst
  <2>1. CASE k = l
    BY <1>2, <1>3, <2>1
  <2>2. CASE k # l
    <3>1. DataPage(k) \notin P
      BY <2>2, CellsApart
    <3>2. m.s[DataPage(k)] \in Dirty
      BY <3>1, PagesOfLoc DEF IsWrite
    <3> QED BY <1>2, <1>3, <3>2 DEF AddRight, UsedFirst
  <2> QED BY <2>1, <2>2
<1>7. ASSUME NEW k \in Locs, n.s[MetaPage(k)] # CACHE_UNKNOWN, n.c[UsedCell(k)] = ERASED
      PROVE  /\ m.s[MetaPage(k)] # CACHE_UNKNOWN
             /\ m.c[UsedCell(k)] = ERASED
             /\ \A x \in Blanks(k) : x # DataCell(k) => x \notin DOMAIN w
  <2>1. k # l
    BY <1>2, <1>3, <1>7, UsedValues
  <2>2. ASSUME NEW x \in Blanks(k), x # DataCell(k) PROVE x \notin DOMAIN w
    <3>1. x \in BlockCells(k) /\ CrcCell(l) \in BlockCells(l) /\ NextCell(l) \in BlockCells(l)
      BY <2>2, BlankCases DEF BlockCells
    <3>2. x # CrcCell(l) /\ x # NextCell(l) /\ x # DataCell(l)
      BY <2>1, <3>1, CellsApart
    <3> QED BY <3>2
  <2> QED BY <1>3, <1>7, <2>2
<1>8. AddRight(n, rom) /\ ~Erasing(n.s)
  <2>1. \A x \in Tracked : PageOf[x] \in P /\ x \notin DOMAIN w =>
            m.s[PageOf[x]] \in Dirty \cup {CACHE_SYNCED}
    BY <1>5
  <2> QED BY <1>2, <1>4, <1>6, <1>7, <2>1, AddWrites
<1>9. n.c[UsedCell(l)] = USED /\ n.s[MetaPage(l)] \in Dirty
  BY <1>2, <1>3
<1> QED BY <1>2, <1>3, <1>8, <1>9 DEF Filling

LEMMA DescriptorLoads ==
    ASSUME NEW m \in CacheType, NEW prog \in Programs, NEW i \in Nat,
           i < Len(prog), NEW l \in Locs, LoadedPages(m.s),
           SectorLoaded(m.s, MetaSector(BankOf(l)))
    PROVE  /\ DescriptorWritten(m, prog, i, l) \in CacheType
           /\ LoadedPages(DescriptorWritten(m, prog, i, l).s)
<1> DEFINE w == [x \in {UsedCell(l), HdrCell(l)} |->
                    IF x = UsedCell(l) THEN USED ELSE Header(prog, i)]
<1>1. MetaPage(l) \in Page /\ SectorOf[MetaPage(l)] = MetaSector(BankOf(l))
  BY PagesOfLoc, MetaSectorOf
<1>2. Header(prog, i) \in Word /\ CACHE_WRITE_NONERASE \in Dirty
  BY GeometryAssumption, WordAssumption, DirtyStatuses
<1>3. \A x \in Cell : x \in DOMAIN w => w[x] \in ValuesOf(x[1])
  BY <1>2 DEF UsedCell, HdrCell, ValuesOf
<1> HIDE DEF w
<1>4. LET n == update_cache_status(Put(m, w), {MetaPage(l)}, CACHE_WRITE_NONERASE)
      IN  n \in CacheType /\ LoadedPages(n.s)
  BY <1>1, <1>2, <1>3, WriteMarked
<1> QED BY <1>4 DEF DescriptorWritten, w

\* One turn of the loop of add_file, up to the search for the next block.
LEMMA BlockWrittenRight ==
    ASSUME NEW m \in CacheType, NEW prog \in Programs, NEW i \in Nat,
           i < Len(prog), NEW l \in Locs, chip \in Memory,
           LoadedPages(m.s), SectorLoaded(m.s, MetaSector(BankOf(l))),
           AddRight(m, chip), ~Erasing(m.s), m.c[UsedCell(l)] = ERASED
    PROVE  Filling(BlockWritten(m, prog, i, l), chip, l)
<1> DEFINE d == DescriptorWritten(m, prog, i, l)
           u == [x \in {UsedCell(l), HdrCell(l)} |->
                    IF x = UsedCell(l) THEN USED ELSE Header(prog, i)]
<1>1. d \in CacheType /\ LoadedPages(d.s)
  BY DescriptorLoads
<1>2. IsWrite(m, u, {MetaPage(l)}, CACHE_WRITE_NONERASE, d)
  BY WriteIsWrite DEF DescriptorWritten
<1>3. DOMAIN u = {UsedCell(l), HdrCell(l)} /\ u[UsedCell(l)] = USED
  OBVIOUS
<1> HIDE DEF d, u
<1>4. Filling(d, chip, l)
  BY <1>1, <1>2, <1>3, DescriptorRight
<1> DEFINE S == {SectorOf[DataPage(l)]}
           r == read_sector(d, chip, S)
<1>5. S \subseteq Sector
  BY SectorsApart
<1> HIDE DEF S
<1>6. r \in CacheType /\ Filling(r, chip, l)
  BY <1>1, <1>4, <1>5, ReadType, ReadSectorIsRead, FillingRead
<1> DEFINE v == [x \in {DataCell(l), CrcCell(l)} |->
                    IF x = DataCell(l) THEN prog[i + 1] ELSE Crc16(prog[i + 1])]
           n == update_cache_status(Put(r, v), {DataPage(l)}, CACHE_WRITE_NONERASE)
<1>7. BlockWritten(m, prog, i, l) = n
  BY DEF BlockWritten, DataWritten, d, S
<1>8. DOMAIN v = {DataCell(l), CrcCell(l)}
  OBVIOUS
<1> HIDE DEF r, v
<1>9. IsWrite(r, v, {DataPage(l)}, CACHE_WRITE_NONERASE, n)
  BY <1>6, WriteIsWrite
<1> HIDE DEF n
<1>10. Filling(n, chip, l)
  BY <1>6, <1>8, <1>9, BlockFilled
<1> QED BY <1>7, <1>10

-----------------------------------------------------------------------------
(***************************************************************************)
(* Deleting in the cache.                                                  *)
(***************************************************************************)
\* Only data lies in a sector of data.
LEMMA DataSectorCells ==
    ASSUME NEW x \in Cell, NEW l \in Locs, SectorOf[PageOf[x]] = SectorOf[DataPage(l)]
    PROVE  x \in DataCells
<1>1. CASE x \in PreCells
  <2>1. SectorOf[PageOf[x]] = MetaSector(x[2])
    BY <1>1, PreCellOf, MetaSectorOf
  <2> QED BY <2>1, SectorsApart
<1>2. CASE x \in MetaCells
  <2>1. x[1] \in MetaFields /\ x[2] \in Bank /\ x[3] \in Block
    BY <1>2 DEF MetaCells
  <2>2. Loc(x[2], x[3]) \in Locs /\ PageOf[x] = MetaPage(Loc(x[2], x[3]))
    BY <2>1, LocSplit DEF PageOf, MetaFields, MetaPage
  <2>3. SectorOf[PageOf[x]] = MetaSector(BankOf(Loc(x[2], x[3])))
    BY <2>2, MetaSectorOf
  <2> QED BY <2>3, SectorsApart
<1> QED BY <1>1, <1>2 DEF Cell

\* The preamble is written anew, and its sector is to be erased.
LEMMA EntryRemoved ==
    ASSUME NEW m \in CacheType, NEW rom \in Memory, NEW b \in Bank, NEW w, NEW n,
           AddRight(m, rom), NoDirty(m.s), SectorLoaded(m.s, MetaSector(b)),
           DOMAIN w \subseteq PreCells, \A x \in DOMAIN w : x[2] = b,
           IsWrite(m, w, {PrePage(b)}, CACHE_WRITE_ERASE, n)
    PROVE  /\ DeleteRight(n, rom) /\ Erasing(n.s)
           /\ ToWrite(n.s, MetaSector(b))
<1>1. PrePage(b) \in Page /\ SectorOf[PrePage(b)] = MetaSector(b)
  BY PrePageIsPage, MetaSectorOf
<1>2. n.s[PrePage(b)] = CACHE_WRITE_ERASE
      /\ \A p \in Page : p # PrePage(b) => n.s[p] = m.s[p] /\ n.s[p] \notin Dirty
  BY <1>1 DEF IsWrite, NoDirty
<1>3. Erasing(n.s) /\ \A s : ToWrite(n.s, s) <=> s = MetaSector(b)
  BY <1>1, <1>2, StatusFacts DEF Erasing, ToWrite
<1>4. AllErase(n)
  BY <1>2, StatusFacts DEF AllErase
<1>5. \A x \in Cell : x \notin PreCells => n.c[x] = m.c[x]
  BY DEF IsWrite
<1> DEFINE later == After(n, rom)
<1>6. \A x \in Cell : later[x] = IF SectorOf[PageOf[x]] = MetaSector(b)
                                 THEN n.c[x] ELSE rom[x]
  BY <1>3 DEF After
<1> HIDE DEF later
<1>7. ASSUME NEW l \in Locs
      PROVE  /\ UsedCell(l) \in Cell /\ n.c[UsedCell(l)] = m.c[UsedCell(l)]
             /\ SectorOf[PageOf[UsedCell(l)]] = MetaSector(BankOf(l))
             /\ n.s[MetaPage(l)] = m.s[MetaPage(l)]
             /\ MetaSector(BankOf(l)) = MetaSector(b) => m.s[MetaPage(l)] # CACHE_UNKNOWN
  <2>1. UsedCell(l) \in Cell /\ UsedCell(l) \notin PreCells
        /\ PageOf[UsedCell(l)] = MetaPage(l) /\ MetaPage(l) \in Page
    BY CellsOfBlock, CellsApart, PagesOfLoc DEF BlockCells
  <2>2. MetaPage(l) # PrePage(b)
    BY DEF MetaPage, PrePage
  <2>3. SectorOf[MetaPage(l)] = MetaSector(BankOf(l))
    BY MetaSectorOf
  <2>4. MetaSector(BankOf(l)) = MetaSector(b) => m.s[MetaPage(l)] # CACHE_UNKNOWN
    BY <2>1, <2>3, SectorOfIsSector DEF SectorLoaded
  <2> QED BY <1>2, <1>5, <2>1, <2>2, <2>3, <2>4
<1>8. ASSUME NEW l \in Locs, NEW x \in Blanks(l)
      PROVE  /\ x \in Cell /\ n.c[x] = m.c[x]
             /\ x = DataCell(l) => SectorOf[PageOf[x]] # MetaSector(b)
             /\ x # DataCell(l) => SectorOf[PageOf[x]] = MetaSector(BankOf(l))
  <2>1. x \in Cell
    BY BlankCases
  <2>2. x = DataCell(l) => PageOf[x] = DataPage(l) /\ x \notin PreCells
    BY CellsOfBlock, CellsApart
  <2>3. x # DataCell(l) => PageOf[x] = MetaPage(l) /\ x \notin PreCells
    BY BlankCases, CellsApart DEF BlockCells
  <2> QED BY <1>5, <2>1, <2>2, <2>3, SectorsApart, MetaSectorOf
<1>9. HeldElsewhere(n, rom)
  <2> SUFFICES ASSUME NEW x \in Tracked, n.s[PageOf[x]] = CACHE_SYNCED,
                      SectorOf[PageOf[x]] # MetaSector(b)
               PROVE  n.c[x] = rom[x]
    BY <1>3 DEF HeldElsewhere
  <2>1. x \in Cell /\ PageOf[x] \in Page /\ PageOf[x] # PrePage(b)
    BY <1>1, TrackedCells, PageOfCell
  <2>2. x \notin DOMAIN w
    <3> SUFFICES ASSUME x \in DOMAIN w PROVE FALSE
      OBVIOUS
    <3>1. PageOf[x] = PrePage(x[2]) /\ x[2] = b
      BY PreCellOf
    <3> QED BY <2>1, <3>1
  <2>3. n.c[x] = m.c[x] /\ n.s[PageOf[x]] = m.s[PageOf[x]]
    BY <1>2, <2>1, <2>2 DEF IsWrite
  <2> QED BY <2>3 DEF AddRight, HeldOrBlank
<1>10. FreeIn(later)
  <2> SUFFICES ASSUME NEW l \in Locs, later[UsedCell(l)] = ERASED, NEW x \in Blanks(l)
               PROVE  later[x] = ERASED
    BY DEF FreeIn
  <2>1. CASE MetaSector(BankOf(l)) = MetaSector(b)
    <3>1. m.c[UsedCell(l)] = ERASED /\ m.s[MetaPage(l)] # CACHE_UNKNOWN
      BY <1>6, <1>7, <2>1
    <3>2. rom[x] = ERASED /\ (x # DataCell(l) => m.c[x] = ERASED)
      BY <3>1 DEF AddRight, FreeInCache
    <3> QED BY <1>6, <1>8, <2>1, <3>2
  <2>2. CASE MetaSector(BankOf(l)) # MetaSector(b)
    <3>1. rom[UsedCell(l)] = ERASED
      BY <1>6, <1>7, <2>2
    <3>2. rom[x] = ERASED
      BY <3>1 DEF AddRight, FreeIn
    <3> QED BY <1>6, <1>8, <2>2, <3>2
  <2> QED BY <2>1, <2>2
<1>11. FreeInCache(n, later)
  <2> SUFFICES ASSUME NEW l \in Locs, n.s[MetaPage(l)] # CACHE_UNKNOWN,
                      n.c[UsedCell(l)] = ERASED, NEW x \in Blanks(l)
               PROVE  later[x] = ERASED /\ (x # DataCell(l) => n.c[x] = ERASED)
    BY DEF FreeInCache
  <2>1. m.c[UsedCell(l)] = ERASED /\ m.s[MetaPage(l)] # CACHE_UNKNOWN
    BY <1>7
  <2>2. rom[x] = ERASED /\ (x # DataCell(l) => m.c[x] = ERASED)
    BY <2>1 DEF AddRight, FreeInCache
  <2> QED BY <1>6, <1>8, <2>2
<1> QED BY <1>3, <1>4, <1>9, <1>10, <1>11 DEF DeleteRight, later

WipedCells(l) == {FmtCell(l), NextCell(l), CrcCell(l), UsedCell(l), HdrCell(l), DataCell(l)}

\* A block is wiped in a cache that holds the sector of its data.
LEMMA BlockWiped ==
    ASSUME NEW r \in CacheType, NEW rom \in Memory, NEW l \in Locs, NEW w, NEW n,
           DeleteRight(r, rom), SectorLoaded(r.s, SectorOf[DataPage(l)]),
           ~SpanningDelete => ToWrite(r.s, MetaSector(BankOf(l))),
           DOMAIN w = WipedCells(l), \A x \in DOMAIN w : x # FmtCell(l) => w[x] = ERASED,
           IsWrite(r, w, {DataPage(l)}, CACHE_WRITE_ERASE, n)
    PROVE  /\ DeleteRight(n, rom) /\ Erasing(n.s)
           /\ \A s : ToWrite(r.s, s) => ToWrite(n.s, s)
<1> DEFINE d == SectorOf[DataPage(l)]
<1>1. DataPage(l) \in Page /\ d \in Sector /\ \A b : d # MetaSector(b)
  BY PagesOfLoc, SectorsApart
<1>2. n.s[DataPage(l)] = CACHE_WRITE_ERASE
      /\ \A p \in Page : p # DataPage(l) => n.s[p] = r.s[p]
  BY <1>1 DEF IsWrite
<1> HIDE DEF d
<1>3. Erasing(n.s) /\ \A s : ToWrite(n.s, s) <=> ToWrite(r.s, s) \/ s = d
  <2>1. Erasing(n.s)
    BY <1>1, <1>2 DEF Erasing
  <2>2. ASSUME NEW s, ToWrite(n.s, s) PROVE ToWrite(r.s, s) \/ s = d
    BY <1>2, <2>2 DEF ToWrite, d
  <2>3. ASSUME NEW s, ToWrite(r.s, s) PROVE ToWrite(n.s, s)
    <3>1. PICK p \in Page : SectorOf[p] = s /\ r.s[p] \in Dirty
      BY <2>3 DEF ToWrite
    <3>2. n.s[p] \in Dirty
      BY <1>2, <3>1, StatusFacts
    <3> QED BY <3>1, <3>2 DEF ToWrite
  <2>4. ToWrite(n.s, d)
    BY <1>1, <1>2, StatusFacts DEF ToWrite, d
  <2> QED BY <2>1, <2>2, <2>3, <2>4
<1>4. AllErase(n)
  BY <1>2, StatusFacts DEF DeleteRight, AllErase
<1> DEFINE old == After(r, rom)
           later == After(n, rom)
<1>5. \A x \in Cell : /\ old[x] = IF ToWrite(r.s, SectorOf[PageOf[x]]) THEN r.c[x] ELSE rom[x]
                      /\ later[x] = IF ToWrite(n.s, SectorOf[PageOf[x]]) THEN n.c[x] ELSE rom[x]
  BY DEF After
<1>6. /\ HeldElsewhere(r, rom) /\ FreeIn(old) /\ FreeInCache(r, old)
  BY DEF DeleteRight
<1> HIDE DEF old, later
<1>7. \A x \in Cell : x \notin DOMAIN w => n.c[x] = r.c[x]
  BY DEF IsWrite
<1>8. ASSUME NEW x \in Cell, x \notin DOMAIN w PROVE later[x] = old[x]
  <2>1. n.c[x] = r.c[x]
    BY <1>7, <1>8
  <2>2. CASE SectorOf[PageOf[x]] # d
    BY <1>3, <1>5, <2>1, <2>2
  <2>3. CASE SectorOf[PageOf[x]] = d /\ ToWrite(r.s, d)
    BY <1>3, <1>5, <2>1, <2>3
  <2>4. CASE SectorOf[PageOf[x]] = d /\ ~ToWrite(r.s, d)
    <3>1. x \in Tracked /\ PageOf[x] \in Page
      BY <2>4, DataSectorCells, TrackedCells, PageOfCell DEF d
    <3>2. r.s[PageOf[x]] = CACHE_SYNCED
      <4>1. r.s[PageOf[x]] \in Status /\ r.s[PageOf[x]] \notin Dirty
        BY <2>4, <3>1 DEF CacheType, ToWrite
      <4>2. r.s[PageOf[x]] # CACHE_UNKNOWN
        BY <2>4, <3>1, SectorOfIsSector DEF SectorLoaded, d
      <4> QED BY <4>1, <4>2, StatusFacts
    <3>3. r.c[x] = rom[x]
      BY <1>6, <2>4, <3>1, <3>2 DEF HeldElsewhere
    <3> QED BY <1>3, <1>5, <2>1, <2>4, <3>3
  <2> QED BY <2>2, <2>3, <2>4
<1>9. ASSUME NEW x \in Blanks(l) PROVE later[x] = ERASED /\ n.c[x] = ERASED
  <2>1. x \in Cell /\ x \in DOMAIN w /\ x # FmtCell(l)
    <3>1. x \in {DataCell(l), NextCell(l), CrcCell(l), HdrCell(l)} /\ x \in Cell
      BY BlankCases
    <3>2. FmtCell(l) \notin {DataCell(l), NextCell(l), CrcCell(l), HdrCell(l)}
      BY DEF FmtCell, DataCell, NextCell, CrcCell, HdrCell
    <3> QED BY <3>1, <3>2 DEF WipedCells
  <2>2. n.c[x] = ERASED
    BY <2>1 DEF IsWrite
  <2>3. ToWrite(n.s, SectorOf[PageOf[x]])
    <3>1. CASE x = DataCell(l)
      BY <1>3, <3>1, CellsOfBlock DEF d
    <3>2. CASE x # DataCell(l)
      <4>1. ~SpanningDelete /\ PageOf[x] = MetaPage(l)
        BY <3>2, BlankCases
      <4>2. SectorOf[PageOf[x]] = MetaSector(BankOf(l))
        BY <4>1, MetaSectorOf
      <4> QED BY <1>3, <4>1, <4>2
    <3> QED BY <3>1, <3>2
  <2> QED BY <1>5, <2>1, <2>2, <2>3
<1>10. ASSUME NEW k \in Locs, k # l
       PROVE  /\ UsedCell(k) \in Cell /\ UsedCell(k) \notin DOMAIN w
              /\ \A x \in Blanks(k) : x \in Cell /\ x \notin DOMAIN w
              /\ n.s[MetaPage(k)] = r.s[MetaPage(k)]
  <2>1. \A x \in BlockCells(k) : x \notin DOMAIN w
    BY <1>10, CellsApart DEF WipedCells, BlockCells
  <2>2. DataCell(k) \notin DOMAIN w
    <3>1. DataCell(k) # DataCell(l)
      BY <1>10, CellsApart
    <3>2. DataCell(k) \notin BlockCells(l) /\ DataCell(k) # FmtCell(l)
      <4>1. \A x \in BlockCells(l) : x # DataCell(k)
        BY CellsApart
      <4>2. DataCell(k) # FmtCell(l)
        BY DEF DataCell, FmtCell
      <4> QED BY <4>1, <4>2
    <3> QED BY <3>1, <3>2 DEF WipedCells, BlockCells
  <2>3. ASSUME NEW x \in Blanks(k)
        PROVE  x \in Cell /\ (x = DataCell(k) \/ x \in BlockCells(k))
    BY BlankCases DEF BlockCells
  <2>4. UsedCell(k) \in Cell /\ UsedCell(k) \in BlockCells(k)
    BY CellsOfBlock DEF BlockCells
  <2>5. MetaPage(k) \in Page /\ MetaPage(k) # DataPage(l)
    BY PagesOfLoc DEF MetaPage, DataPage
  <2> QED BY <1>2, <2>1, <2>2, <2>3, <2>4, <2>5
<1>11. FreeIn(later)
  <2> SUFFICES ASSUME NEW k \in Locs, later[UsedCell(k)] = ERASED, NEW x \in Blanks(k)
               PROVE  later[x] = ERASED
    BY DEF FreeIn
  <2>1. CASE k = l
    BY <1>9, <2>1
  <2>2. CASE k # l
    <3>1. old[UsedCell(k)] = ERASED
      BY <1>8, <1>10, <2>2
    <3>2. old[x] = ERASED
      BY <1>6, <3>1 DEF FreeIn
    <3> QED BY <1>8, <1>10, <2>2, <3>2
  <2> QED BY <2>1, <2>2
<1>12. FreeInCache(n, later)
  <2> SUFFICES ASSUME NEW k \in Locs, n.s[MetaPage(k)] # CACHE_UNKNOWN,
                      n.c[UsedCell(k)] = ERASED, NEW x \in Blanks(k)
               PROVE  later[x] = ERASED /\ (x # DataCell(k) => n.c[x] = ERASED)
    BY DEF FreeInCache
  <2>1. CASE k = l
    BY <1>9, <2>1
  <2>2. CASE k # l
    <3>1. r.s[MetaPage(k)] # CACHE_UNKNOWN /\ r.c[UsedCell(k)] = ERASED
      BY <1>7, <1>10, <2>2
    <3>2. old[x] = ERASED /\ (x # DataCell(k) => r.c[x] = ERASED)
      BY <1>6, <3>1 DEF FreeInCache
    <3> QED BY <1>7, <1>8, <1>10, <2>2, <3>2
  <2> QED BY <2>1, <2>2
<1>13. HeldElsewhere(n, rom)
  <2> SUFFICES ASSUME NEW x \in Tracked, n.s[PageOf[x]] = CACHE_SYNCED,
                      ~ToWrite(n.s, SectorOf[PageOf[x]])
               PROVE  n.c[x] = rom[x]
    BY DEF HeldElsewhere
  <2>1. x \in Cell /\ PageOf[x] \in Page /\ SectorOf[PageOf[x]] # d
    BY <1>3, TrackedCells, PageOfCell
  <2>2. r.s[PageOf[x]] = CACHE_SYNCED /\ ~ToWrite(r.s, SectorOf[PageOf[x]])
    BY <1>2, <1>3, <2>1 DEF d
  <2>3. x \notin DOMAIN w
    <3> SUFFICES ASSUME x \in DOMAIN w PROVE FALSE
      OBVIOUS
    <3>1. x # DataCell(l)
      BY <2>1, CellsOfBlock DEF d
    <3>2. x \in {FmtCell(l), NextCell(l), CrcCell(l), UsedCell(l), HdrCell(l)}
      BY <3>1 DEF WipedCells
    <3>3. PageOf[x] = MetaPage(l)
      BY <3>2, CellsOfBlock
    <3>4. x \notin PreCells \cup DataCells
      BY <3>2 DEF FmtCell, NextCell, CrcCell, UsedCell, HdrCell, PreCells, DataCells
    <3>5. ~SpanningDelete
      BY <3>4 DEF Tracked
    <3> QED BY <1>3, <2>2, <3>3, <3>5, MetaSectorOf
  <2> QED BY <1>6, <1>7, <2>1, <2>2, <2>3 DEF HeldElsewhere
<1> QED BY <1>3, <1>4, <1>11, <1>12, <1>13 DEF DeleteRight, later

-----------------------------------------------------------------------------
(***************************************************************************)
(* The thread: a sector is erased if need be, burnt, and marked synced.    *)
(***************************************************************************)
LEMMA PageIndexNat ==
    ASSUME NEW p \in Page
    PROVE  PageIndex(p) \in Nat
<1>1. CASE p \in PrePages
  BY <1>1 DEF PrePages, PrePage, PageIndex
<1>2. CASE p \in MetaPages
  <2>1. PICK l \in Locs : p = MetaPage(l)
    BY <1>2 DEF MetaPages
  <2>2. BlockOf(l) \in Nat /\ METAS_PER_PAGE \in Nat \ {0}
    BY LocParts, GeometryAssumption DEF Block
  <2>3. BlockOf(l) \div METAS_PER_PAGE \in Nat
    BY <2>2, DivNat
  <2>4. p[1] = "meta" /\ p[3] \in Nat
    BY <2>1, <2>3 DEF MetaPage
  <2> QED BY <2>4 DEF PageIndex
<1>3. CASE p \in DataCells
  <2>1. p[1] = "data" /\ p[3] \in Nat
    BY <1>3, GeometryAssumption DEF DataCells, Block
  <2> QED BY <2>1 DEF PageIndex
<1> QED BY <1>1, <1>2, <1>3 DEF Page

LEMMA DirtyIsToWrite ==
    ASSUME NEW st
    PROVE  \A s : s \in DirtySectors(st) <=> s \in Sector /\ ToWrite(st, s)
BY DEF DirtySectors, DirtyPages, PagesIn, ToWrite

\* The first page to write of a sector tells what they all are.
LEMMA EraseIsTold ==
    ASSUME NEW m, NEW s \in Sector, ToWrite(m.s, s)
    PROVE  /\ AllErase(m) => NeedsErase(m.s, s)
           /\ ~Erasing(m.s) => ~NeedsErase(m.s, s)
<1> DEFINE D == DirtyPages(m.s, s)
<1>1. D \subseteq Page /\ D # {} /\ \A p \in D : m.s[p] \in Dirty
  BY DEF DirtyPages, PagesIn, ToWrite
<1> HIDE DEF D
<1>2. \E p \in D : \A q \in D : PageIndex(p) <= PageIndex(q)
  <2> DEFINE I == {PageIndex(p) : p \in D}
  <2>1. I \in SUBSET Nat /\ I # {}
    BY <1>1, PageIndexNat
  <2>2. PICK n \in I : \A k \in I : n <= k
    <3> HIDE DEF I
    <3> QED BY <2>1, LeastNumber
  <2> QED BY <2>2
<1>3. AllErase(m) => NeedsErase(m.s, s)
  BY <1>1, <1>2, StatusFacts DEF AllErase, NeedsErase, D
<1>4. ~Erasing(m.s) => ~NeedsErase(m.s, s)
  BY <1>1 DEF Erasing, NeedsErase, D
<1> QED BY <1>3, <1>4

LEMMA SectorErased ==
    ASSUME NEW m, NEW rom, NEW s, NEW new, DeleteRight(m, rom), ToWrite(m.s, s),
           new = Erased(rom, s)
    PROVE  /\ DeleteRight(m, new)
           /\ \A x \in Cell : InSector(x, s) => new[x] = ERASED
<1>1. \A x \in Cell : new[x] = IF SectorOf[PageOf[x]] = s THEN ERASED ELSE rom[x]
  BY DEF Erased, InSector
<1>2. After(m, new) = After(m, rom)
  <2>1. ASSUME NEW x \in Cell
        PROVE  (IF ToWrite(m.s, SectorOf[PageOf[x]]) THEN m.c[x] ELSE new[x])
               = (IF ToWrite(m.s, SectorOf[PageOf[x]]) THEN m.c[x] ELSE rom[x])
    BY <1>1
  <2> QED BY <2>1 DEF After
<1>3. HeldElsewhere(m, new)
  BY <1>1, TrackedCells DEF DeleteRight, HeldElsewhere
<1> QED BY <1>1, <1>2, <1>3 DEF DeleteRight, InSector

\* Cache n is cache m once sector s has been burnt.
IsSynced(m, s, n) == /\ n.c = m.c
                     /\ \A p \in Page : n.s[p] = IF SectorOf[p] = s THEN CACHE_SYNCED
                                                 ELSE m.s[p]

LEMMA SyncedStatuses ==
    ASSUME NEW m, NEW s, NEW n, IsSynced(m, s, n), LoadedPages(m.s), ToWrite(m.s, s)
    PROVE  /\ \A t : ToWrite(n.s, t) <=> ToWrite(m.s, t) /\ t # s
           /\ \A p \in Page : n.s[p] # CACHE_UNKNOWN <=> m.s[p] # CACHE_UNKNOWN
           /\ \A p \in Page : n.s[p] \in Dirty => n.s[p] = m.s[p] /\ SectorOf[p] # s
           /\ \A p \in Page : SectorOf[p] = s => m.s[p] # CACHE_UNKNOWN
<1>1. \A p \in Page : n.s[p] \in Dirty => n.s[p] = m.s[p] /\ SectorOf[p] # s
  BY StatusFacts DEF IsSynced
<1>2. \A t : ToWrite(n.s, t) <=> ToWrite(m.s, t) /\ t # s
  BY <1>1 DEF IsSynced, ToWrite
<1>3. \A p \in Page : SectorOf[p] = s => m.s[p] # CACHE_UNKNOWN
  <2>1. SectorLoaded(m.s, s)
    BY DEF LoadedPages, ToWrite
  <2> QED BY <2>1, SectorOfIsSector DEF SectorLoaded
<1>4. \A p \in Page : n.s[p] # CACHE_UNKNOWN <=> m.s[p] # CACHE_UNKNOWN
  BY <1>3, StatusFacts DEF IsSynced
<1> QED BY <1>1, <1>2, <1>3, <1>4

LEMMA BurntDelete ==
    ASSUME NEW m \in CacheType, NEW rom \in Memory, NEW s, NEW n \in CacheType, NEW new,
           DeleteRight(m, rom), LoadedPages(m.s), ToWrite(m.s, s),
           \A x \in Cell : InSector(x, s) => rom[x] = ERASED,
           IsSynced(m, s, n), new = Burnt(rom, s, m.c), new \in Memory
    PROVE  Right(n, new)
<1>1. \A x \in Cell : new[x] = IF SectorOf[PageOf[x]] = s THEN m.c[x] ELSE rom[x]
  <2>1. \A x \in Cell : m.c[x] \in Word
    BY MemoryValue DEF CacheType
  <2> QED BY <2>1, WordAssumption DEF Burnt, InSector
<1>2. \A t : ToWrite(n.s, t) <=> ToWrite(m.s, t) /\ t # s
  BY SyncedStatuses
<1>3. After(n, new) = After(m, rom)
  <2>1. ASSUME NEW x \in Cell
        PROVE  (IF ToWrite(n.s, SectorOf[PageOf[x]]) THEN n.c[x] ELSE new[x])
               = (IF ToWrite(m.s, SectorOf[PageOf[x]]) THEN m.c[x] ELSE rom[x])
    BY <1>1, <1>2 DEF IsSynced
  <2> QED BY <2>1 DEF After
<1>4. AllErase(n)
  BY StatusFacts DEF DeleteRight, AllErase, IsSynced
<1>5. HeldElsewhere(n, new)
  <2> SUFFICES ASSUME NEW x \in Tracked, n.s[PageOf[x]] = CACHE_SYNCED,
                      ~ToWrite(n.s, SectorOf[PageOf[x]])
               PROVE  n.c[x] = new[x]
    BY DEF HeldElsewhere
  <2>1. x \in Cell /\ PageOf[x] \in Page
    BY TrackedCells, PageOfCell
  <2>2. CASE SectorOf[PageOf[x]] = s
    BY <1>1, <2>1, <2>2 DEF IsSynced
  <2>3. CASE SectorOf[PageOf[x]] # s
    <3>1. m.s[PageOf[x]] = CACHE_SYNCED /\ ~ToWrite(m.s, SectorOf[PageOf[x]])
      BY <1>2, <2>1, <2>3 DEF IsSynced
    <3> QED BY <1>1, <2>1, <2>3, <3>1 DEF IsSynced, DeleteRight, HeldElsewhere
  <2> QED BY <2>2, <2>3
<1>6. FreeInCache(n, After(n, new))
  <2>1. FreeInCache(m, After(n, new))
    BY <1>3 DEF DeleteRight
  <2>2. \A l \in Locs : n.s[MetaPage(l)] # CACHE_UNKNOWN => m.s[MetaPage(l)] # CACHE_UNKNOWN
    BY SyncedStatuses, PagesOfLoc
  <2> QED BY <2>1, <2>2 DEF FreeInCache, IsSynced
<1>7. DeleteRight(n, new)
  BY <1>3, <1>4, <1>5, <1>6 DEF DeleteRight
<1> QED BY <1>4, <1>7, EndOfErasing, DeleteDone DEF Right

LEMMA UsedBits ==
    ASSUME NEW u \in {USED, ERASED}, NEW v \in {USED, ERASED}
    PROVE  BitAnd(u, v) = IF u = USED \/ v = USED THEN USED ELSE ERASED
<1>1. USED \in Word /\ ERASED \in Word
  BY WordAssumption DEF USED
<1> QED BY <1>1, WordAssumption

\* The sector of the metadata is written before those of the data.
LEMMA MetaFirst ==
    ASSUME NEW st, NEW l \in Locs,
           \A t : ToWrite(st, t) => \/ t = SectorOf[DataPage(l)]
                                    \/ SectorBefore(SectorOf[DataPage(l)], t)
    PROVE  st[MetaPage(l)] \notin Dirty
<1> SUFFICES ASSUME st[MetaPage(l)] \in Dirty PROVE FALSE
  OBVIOUS
<1> DEFINE d == SectorOf[DataPage(l)]
           s == MetaSector(BankOf(l))
<1>1. ToWrite(st, s)
  BY PagesOfLoc, MetaSectorOf DEF ToWrite
<1>2. d[1] = BankOf(l) /\ d[2] >= 1 /\ d # s
  BY SectorsApart
<1>3. s[1] = BankOf(l) /\ s[2] = 0
  BY DEF MetaSector
<1>4. SectorBefore(d, s)
  BY <1>1, <1>2
<1>5. BankOf(l) \in Int /\ d[2] \in Int
  <2>1. BankOf(l) \in Int
    BY LocParts, GeometryAssumption DEF Bank
  <2>2. BlockOf(l) \div BLOCKS_PER_SECTOR \in Nat
    BY LocParts, DivNat, GeometryAssumption DEF Block
  <2>3. d[2] = 1 + BlockOf(l) \div BLOCKS_PER_SECTOR
    BY PagesOfLoc DEF SectorOf, DataPage
  <2> QED BY <2>1, <2>2, <2>3
<1> HIDE DEF d, s
<1> QED BY <1>2, <1>3, <1>4, <1>5 DEF SectorBefore

\* Programming over erased cells, and over those that do not change.
LEMMA BurntAdd ==
    ASSUME NEW m \in CacheType, NEW rom \in Memory, NEW s, NEW n, NEW new,
           AddRight(m, rom), ~Erasing(m.s), LoadedPages(m.s), ToWrite(m.s, s),
           \A t : ToWrite(m.s, t) => t = s \/ SectorBefore(s, t),
           IsSynced(m, s, n), new = Burnt(rom, s, m.c)
    PROVE  AddRight(n, new) /\ ~Erasing(n.s)
<1>1. /\ HeldOrBlank(m, rom) /\ FreeIn(rom) /\ UsedFirst(m, rom)
      /\ FreeInCache(m, rom)
  BY DEF AddRight
<1>2. \A x \in Cell : new[x] = IF SectorOf[PageOf[x]] = s THEN BitAnd(rom[x], m.c[x])
                               ELSE rom[x]
  BY DEF Burnt, InSector
<1>3. \A x \in Cell : rom[x] \in Word /\ m.c[x] \in Word
  BY MemoryValue DEF CacheType
<1>4. n.c = m.c
  BY DEF IsSynced
<1>5. ASSUME NEW x \in Tracked, SectorOf[PageOf[x]] = s PROVE new[x] = m.c[x]
  <2>1. x \in Cell /\ PageOf[x] \in Page
    BY TrackedCells, PageOfCell
  <2>2. m.s[PageOf[x]] \in Status /\ m.s[PageOf[x]] # CACHE_UNKNOWN
    BY <1>5, <2>1, SyncedStatuses DEF CacheType
  <2>3. m.c[x] = rom[x] \/ rom[x] = ERASED
    BY <1>1, <2>2, StatusFacts DEF HeldOrBlank
  <2> QED BY <1>2, <1>3, <1>5, <2>1, <2>3, WordAssumption
<1>6. \A x \in Cell : SectorOf[PageOf[x]] # s => new[x] = rom[x]
  BY <1>2
\* The used marks, before and after.
<1>7. ASSUME NEW l \in Locs
      PROVE  /\ UsedCell(l) \in Cell /\ PageOf[UsedCell(l)] = MetaPage(l)
             /\ MetaPage(l) \in Page /\ DataPage(l) \in Page
             /\ rom[UsedCell(l)] \in {USED, ERASED} /\ m.c[UsedCell(l)] \in {USED, ERASED}
             /\ SectorOf[MetaPage(l)] = s => new[UsedCell(l)] =
                   IF rom[UsedCell(l)] = USED \/ m.c[UsedCell(l)] = USED THEN USED ELSE ERASED
             /\ SectorOf[MetaPage(l)] # s => new[UsedCell(l)] = rom[UsedCell(l)]
  <2>1. /\ UsedCell(l) \in Cell /\ PageOf[UsedCell(l)] = MetaPage(l)
        /\ MetaPage(l) \in Page /\ DataPage(l) \in Page
    BY CellsOfBlock, PagesOfLoc
  <2>2. rom[UsedCell(l)] \in {USED, ERASED} /\ m.c[UsedCell(l)] \in {USED, ERASED}
    BY UsedValues DEF CacheType
  <2> QED BY <1>2, <2>1, <2>2, UsedBits
\* The data of a block that is not used.
<1>8. ASSUME NEW l \in Locs, rom[DataCell(l)] = ERASED, m.s[DataPage(l)] \notin Dirty
      PROVE  new[DataCell(l)] = ERASED
  <2>1. DataCell(l) \in Cell /\ PageOf[DataCell(l)] = DataPage(l) /\ DataPage(l) \in Page
        /\ DataCell(l) \in Tracked
    BY CellsOfBlock, PagesOfLoc, CellsOfLoc, TrackedCells
  <2>2. CASE SectorOf[DataPage(l)] = s
    <3>1. m.s[DataPage(l)] = CACHE_SYNCED
      BY <1>8, <2>1, <2>2, SyncedStatuses, StatusFacts DEF CacheType
    <3>2. m.c[DataCell(l)] = rom[DataCell(l)]
      BY <1>1, <2>1, <3>1 DEF HeldOrBlank
    <3> QED BY <1>5, <1>8, <2>1, <2>2, <3>2
  <2>3. CASE SectorOf[DataPage(l)] # s
    BY <1>6, <1>8, <2>1, <2>3
  <2> QED BY <2>2, <2>3
<1>9. HeldOrBlank(n, new)
  <2> SUFFICES ASSUME NEW x \in Tracked
               PROVE  /\ n.s[PageOf[x]] = CACHE_SYNCED => n.c[x] = new[x]
                      /\ n.s[PageOf[x]] \in Dirty => n.c[x] = new[x] \/ new[x] = ERASED
    BY DEF HeldOrBlank
  <2>1. x \in Cell /\ PageOf[x] \in Page
    BY TrackedCells, PageOfCell
  <2>2. CASE SectorOf[PageOf[x]] = s
    BY <1>4, <1>5, <2>2
  <2>3. CASE SectorOf[PageOf[x]] # s
    <3>1. n.s[PageOf[x]] = m.s[PageOf[x]] /\ new[x] = rom[x]
      BY <1>6, <2>1, <2>3 DEF IsSynced
    <3> QED BY <1>1, <1>4, <3>1 DEF HeldOrBlank
  <2> QED BY <2>2, <2>3
<1>10. ASSUME NEW l \in Locs, NEW x \in Blanks(l), x # DataCell(l), rom[x] = ERASED,
              SectorOf[MetaPage(l)] = s => m.c[x] = ERASED
       PROVE  new[x] = ERASED
  <2>1. x \in Tracked /\ x \in Cell /\ PageOf[x] = MetaPage(l)
    BY <1>10, BlankCases
  <2> QED BY <1>5, <1>6, <1>10, <2>1
<1>11. FreeIn(new)
  <2> SUFFICES ASSUME NEW l \in Locs, new[UsedCell(l)] = ERASED, NEW x \in Blanks(l)
               PROVE  new[x] = ERASED
    BY DEF FreeIn
  <2>1. /\ rom[UsedCell(l)] = ERASED
        /\ SectorOf[MetaPage(l)] = s => m.c[UsedCell(l)] = ERASED
    BY <1>7, UsedValues
  <2>2. rom[x] = ERASED
    BY <1>1, <2>1 DEF FreeIn
  <2>3. CASE x # DataCell(l)
    <3>1. SectorOf[MetaPage(l)] = s => m.s[MetaPage(l)] # CACHE_UNKNOWN
      BY <1>7, SyncedStatuses
    <3>2. SectorOf[MetaPage(l)] = s => m.c[x] = ERASED
      BY <1>1, <2>1, <2>3, <3>1 DEF FreeInCache
    <3> QED BY <1>10, <2>2, <2>3, <3>2
  <2>4. CASE x = DataCell(l)
    <3>1. CASE m.s[DataPage(l)] \notin Dirty
      BY <1>8, <2>2, <2>4, <3>1
    <3>2. CASE m.s[DataPage(l)] \in Dirty
      <4>1. m.c[UsedCell(l)] = USED /\ m.s[MetaPage(l)] \in Dirty
        BY <1>1, <2>1, <3>2, UsedValues DEF UsedFirst
      <4>2. SectorOf[DataPage(l)] # s
        BY <4>1, MetaFirst
      <4> QED BY <1>6, <2>2, <2>4, <4>2, CellsOfBlock
    <3> QED BY <3>1, <3>2
  <2> QED BY <2>3, <2>4
<1>12. UsedFirst(n, new)
  <2> SUFFICES ASSUME NEW l \in Locs, n.s[DataPage(l)] \in Dirty
               PROVE  /\ n.c[UsedCell(l)] = USED
                      /\ n.s[MetaPage(l)] \in Dirty \/ new[UsedCell(l)] = USED
    BY DEF UsedFirst
  <2>1. m.s[DataPage(l)] \in Dirty
    BY <1>7, SyncedStatuses
  <2>2. /\ m.c[UsedCell(l)] = USED
        /\ m.s[MetaPage(l)] \in Dirty \/ rom[UsedCell(l)] = USED
    BY <1>1, <2>1 DEF UsedFirst
  <2>3. CASE SectorOf[MetaPage(l)] = s
    BY <1>4, <1>7, <2>2, <2>3
  <2>4. CASE SectorOf[MetaPage(l)] # s
    <3>1. n.s[MetaPage(l)] = m.s[MetaPage(l)]
      BY <1>7, <2>4 DEF IsSynced
    <3> QED BY <1>4, <1>7, <2>2, <2>4, <3>1
  <2> QED BY <2>3, <2>4
<1>13. FreeInCache(n, new)
  <2> SUFFICES ASSUME NEW l \in Locs, n.s[MetaPage(l)] # CACHE_UNKNOWN,
                      n.c[UsedCell(l)] = ERASED, NEW x \in Blanks(l)
               PROVE  new[x] = ERASED /\ (x # DataCell(l) => n.c[x] = ERASED)
    BY DEF FreeInCache
  <2>1. m.s[MetaPage(l)] # CACHE_UNKNOWN /\ m.c[UsedCell(l)] = ERASED
    BY <1>4, <1>7, SyncedStatuses
  <2>2. rom[x] = ERASED /\ (x # DataCell(l) => m.c[x] = ERASED)
    BY <1>1, <2>1 DEF FreeInCache
  <2>3. m.s[DataPage(l)] \notin Dirty
    BY <1>1, <2>1, UsedValues DEF UsedFirst
  <2>4. new[x] = ERASED
    BY <1>8, <1>10, <2>2, <2>3
  <2> QED BY <1>4, <2>2, <2>4
<1>14. ~Erasing(n.s)
  BY StatusFacts DEF Erasing, IsSynced
<1> QED BY <1>9, <1>11, <1>12, <1>13, <1>14 DEF AddRight

-----------------------------------------------------------------------------
(***************************************************************************)
(* The invariant of the cache.                                             *)
(***************************************************************************)
\* The cache as it will be when the thread, if there is one, has ended.
Pending == IF sync = NoSync THEN cache_status ELSE sync.status
Mirror  == [c |-> contents, s |-> Pending]

\* While the thread runs, on what slot_start_sync gave it, the GUI is idle.
\* A sector about to be burnt is the first to write, and erased if any is.
ThreadAlone ==
    sync # NoSync =>
        /\ op.pc = "idle"
        /\ sync.image = contents
        /\ sync.pc \in {"scan", "burn"} => port
        /\ \A p \in Page : sync.status[p] \in {cache_status[p], CACHE_SYNCED}
        /\ sync.pc = "burn" =>
              /\ NextSector(sync.sector)
              /\ Erasing(sync.status) =>
                    \A x \in Cell : InSector(x, sync.sector) => chip[x] = ERASED

\* What the loops of the GUI thread rely on.
Acting ==
    /\ op.pc \in {"add", "throw"} => ~Erasing(cache_status)
    /\ op.pc = "wipe" => Erasing(cache_status)
    /\ op.pc = "add" => contents[UsedCell(op.at)] = ERASED
    /\ op.pc = "link" /\ op.goal = "delete" /\ ~SpanningDelete =>
          /\ op.at = NoLoc
          /\ \A i \in DOMAIN op.seen : BankOf(op.seen[i]) = BankOf(op.seen[1])
    /\ op.pc = "wipe" /\ ~SpanningDelete =>
          \A i \in DOMAIN op.blocks :
              ToWrite(cache_status, MetaSector(BankOf(op.blocks[i])))

\* Banks and sectors that format_chip has been through are erased, but for the
\* marks of the format.
FormatProgress ==
    op.pc = "format" =>
        \A x \in Cell :
            x[1] # "fmt" /\ (\/ x[2] < op.bank
                             \/ x[2] = op.bank /\ SectorOf[PageOf[x]][2] < op.sector)
                => chip[x] = ERASED

Kept == /\ op.pc # "format" => Right(Mirror, chip)
        /\ ThreadAlone
        /\ Acting
        /\ FormatProgress

CacheInv == IInv /\ (crashes = 0 /\ ~UseMenuInSync => Kept)

\* The GUI thread at work, without the other one.
Alone == IInv /\ Kept /\ sync = NoSync

LEMMA AloneFacts ==
    ASSUME Alone
    PROVE  /\ Cache \in CacheType /\ chip \in Memory
           /\ Cache.c = contents /\ Cache.s = cache_status
           /\ op.pc # "format" => Right(Cache, chip)
           /\ LoadedPages(Cache.s)
           /\ op.pc \notin {"add", "wipe", "emit", "throw"} =>
                 /\ NoDirty(Cache.s) /\ ~Erasing(Cache.s)
                 /\ op.pc # "format" => FreeIn(chip) /\ AddRight(Cache, chip)
<1>1. /\ Cache \in CacheType /\ chip \in Memory
      /\ Cache.c = contents /\ Cache.s = cache_status
  BY CacheIsTyped DEF Alone, IInv
<1>2. Mirror = Cache
  BY DEF Alone, Mirror, Pending, Cache
<1>3. op.pc # "format" => Right(Cache, chip)
  BY <1>2 DEF Alone, Kept
<1>4. LoadedPages(Cache.s)
  BY <1>1, LoadedIsLoadedPages DEF Alone, IInv, DirtySectorLoaded
<1>5. op.pc \notin {"add", "wipe", "emit", "throw"} => NoDirty(Cache.s)
  BY <1>1 DEF Alone, IInv, WritesAwaitSync
<1>6. NoDirty(Cache.s) => ~Erasing(Cache.s)
  BY NoDirtyClean
<1>7. op.pc # "format" /\ ~Erasing(Cache.s) => FreeIn(chip) /\ AddRight(Cache, chip)
  BY <1>3, RightFree
<1> QED BY <1>1, <1>3, <1>4, <1>5, <1>6, <1>7

LEMMA AloneKept ==
    ASSUME sync' = NoSync, NEW m \in CacheType, SetCache(m), Acting',
           op'.pc # "format", Right(m, chip')
    PROVE  Kept'
<1>1. m = [c |-> m.c, s |-> m.s]
  BY DEF CacheType
<1>2. Mirror' = m
  BY <1>1 DEF SetCache, Mirror, Pending
<1>3. ThreadAlone'
  BY DEF ThreadAlone
<1> QED BY <1>2, <1>3 DEF Kept, FormatProgress

LEMMA RestKept ==
    ASSUME sync' = NoSync, NEW m \in CacheType, SetCache(m), Right(m, chip'),
           op'.pc \notin {"format", "add", "wipe", "link"},
           op'.pc = "throw" => ~Erasing(m.s)
    PROVE  Kept'
<1>1. Acting'
  BY DEF Acting, SetCache
<1> QED BY <1>1, AloneKept

\* A step that changes neither the chip nor the cache, between waits.
LEMMA UntouchedKept ==
    ASSUME Alone, UNCHANGED <<sync, chip, contents, cache_status>>,
           op.pc \notin {"format", "add", "wipe", "emit", "throw"},
           op'.pc # "format", Acting' \/ op'.pc \in {"idle", "throw"}
    PROVE  Kept'
<1>1. /\ Cache \in CacheType /\ Right(Cache, chip) /\ ~Erasing(Cache.s)
  BY AloneFacts
<1>2. SetCache(Cache) /\ sync' = NoSync
  BY DEF SetCache, Cache, Alone
<1>3. CASE Acting'
  BY <1>1, <1>2, <1>3, AloneKept
<1>4. CASE op'.pc \in {"idle", "throw"}
  BY <1>1, <1>2, <1>4, RestKept
<1> QED BY <1>3, <1>4

-----------------------------------------------------------------------------
(***************************************************************************)
(* Reading the directory.                                                  *)
(***************************************************************************)
LEMMA DirectoryRight ==
    ASSUME NEW m \in CacheType, chip \in Memory, NoDirty(m.s), Right(m, chip)
    PROVE  LET n == WithDirectory(m)
           IN  n \in CacheType /\ NoDirty(n.s) /\ Right(n, chip)
<1> DEFINE m1 == read_block(m, chip, PrePages)
           S == {MetaSector(BankOf(l)) : l \in Starts(m1.c)}
           n == read_sector(m1, chip, S)
<1>1. m1 \in CacheType /\ NoDirty(m1.s) /\ Right(m1, chip)
  BY ReadType, ReadLoads, ReadBlockRight
<1>2. WithDirectory(m) = n
  BY DEF WithDirectory
<1> HIDE DEF m1
<1>3. S \subseteq Sector
  <2>1. Starts(m1.c) \subseteq Locs
    BY <1>1, StartsInLocs DEF CacheType
  <2> QED BY <2>1, LocParts, MetaSectorOf
<1> HIDE DEF S
<1>4. n \in CacheType /\ NoDirty(n.s) /\ Right(n, chip)
  BY <1>1, <1>3, ReadType, ReadLoads, NoDirtyLoaded, ReadSectorRight
<1> QED BY <1>2, <1>4

LEMMA FreshRight ==
    ASSUME NEW rom, FreeIn(rom)
    PROVE  Right(Fresh, rom)
BY UnknownRight DEF Fresh

LEMMA IndexKept ==
    ASSUME NEW m \in CacheType, chip \in Memory, NoDirty(m.s), Right(m, chip),
           index_files(m), sync' = NoSync, chip' = chip,
           op'.pc # "format", Acting' \/ op'.pc = "idle"
    PROVE  Kept'
<1> DEFINE n == WithDirectory(m)
<1>1. n \in CacheType /\ Right(n, chip') /\ SetCache(n)
  BY DirectoryRight DEF index_files
<1> HIDE DEF n
<1>2. CASE Acting'
  BY <1>1, <1>2, AloneKept
<1>3. CASE op'.pc = "idle"
  BY <1>1, <1>3, RestKept
<1> QED BY <1>2, <1>3

LEMMA AccessKept ==
    ASSUME Alone, Access, UNCHANGED <<chip, sync>>,
           op.pc \notin {"format", "add", "wipe", "emit", "throw"}
    PROVE  Kept'
<1> DEFINE checked == {b \in Bank : \A b2 \in BadBanks : b <= b2}
           S == {MetaSector(b) : b \in checked}
           m == read_sector(Fresh, chip, S)
<1>1. chip \in Memory /\ FreeIn(chip) /\ sync' = NoSync
  BY AloneFacts DEF Alone
<1>2. S \subseteq Sector
  BY MetaSectorOf
<1> HIDE DEF S
<1>3. m \in CacheType /\ NoDirty(m.s) /\ Right(m, chip)
  BY <1>1, <1>2, FreshType, FreshRight, ReadType, ReadLoads, NoDirtyLoaded, ReadSectorRight
<1>4. \/ index_files(m) /\ At("idle")
      \/ SetCache(m) /\ At("ask")
  BY DEF Access, S
<1> HIDE DEF m
<1>5. CASE index_files(m) /\ At("idle")
  <2>1. op'.pc = "idle"
    BY <1>5 DEF At
  <2> QED BY <1>1, <1>3, <1>5, <2>1, IndexKept
<1>6. CASE SetCache(m) /\ At("ask")
  <2>1. op'.pc = "ask"
    BY <1>6 DEF At
  <2> QED BY <1>1, <1>3, <1>6, <2>1, RestKept
<1> QED BY <1>4, <1>5, <1>6

LEMMA DeclineKept ==
    ASSUME Alone, DeclineFormat, UNCHANGED sync
    PROVE  Kept'
<1>1. FreeIn(chip) /\ sync' = NoSync
  BY AloneFacts DEF Alone, DeclineFormat
<1>2. Right(Fresh, chip') /\ Fresh \in CacheType /\ SetCache(Fresh)
  BY <1>1, FreshRight, FreshType DEF DeclineFormat
<1>3. op'.pc = "nofat"
  BY DEF DeclineFormat, At
<1> QED BY <1>1, <1>2, <1>3, RestKept

-----------------------------------------------------------------------------
(***************************************************************************)
(* Formatting.                                                             *)
(***************************************************************************)
LEMMA SectorOfCell ==
    ASSUME NEW x \in Cell
    PROVE  \E n \in 0 .. LastSector : SectorOf[PageOf[x]] = <<x[2], n>> /\ x[2] \in Bank
<1>1. 0 \in 0 .. LastSector
  BY LastSectorNat
<1>2. CASE x \in PreCells
  <2>1. SectorOf[PageOf[x]] = MetaSector(x[2]) /\ x[2] \in Bank
    BY <1>2, PreCellOf, MetaSectorOf
  <2> QED BY <1>1, <2>1 DEF MetaSector
<1>3. CASE x \in MetaCells
  <2>1. x[1] \in MetaFields /\ x[2] \in Bank /\ x[3] \in Block
    BY <1>3 DEF MetaCells
  <2>2. Loc(x[2], x[3]) \in Locs /\ PageOf[x] = MetaPage(Loc(x[2], x[3]))
    BY <2>1, LocSplit DEF PageOf, MetaFields, MetaPage
  <2>3. SectorOf[PageOf[x]] = MetaSector(x[2])
    BY <2>1, <2>2, LocSplit, MetaSectorOf
  <2> QED BY <1>1, <2>1, <2>3 DEF MetaSector
<1>4. CASE x \in DataCells
  <2>1. x[1] = "data" /\ x[2] \in Bank /\ x[3] \in Block /\ x \in Page /\ PageOf[x] = x
    BY <1>4 DEF DataCells, Page, PageOf
  <2>2. SectorOf[PageOf[x]] = <<x[2], 1 + x[3] \div BLOCKS_PER_SECTOR>>
    BY <2>1 DEF SectorOf
  <2>3. 1 + x[3] \div BLOCKS_PER_SECTOR \in 0 .. LastSector
    <3>1. x[3] \in Nat /\ NBLOCKS - 1 \in Nat /\ x[3] <= NBLOCKS - 1
          /\ BLOCKS_PER_SECTOR \in Nat \ {0}
      BY <2>1, GeometryAssumption DEF Block
    <3>2. \A a, b \in Nat, d \in Nat \ {0} : a <= b => a \div d \in Nat /\ a \div d <= b \div d
      OBVIOUS
    <3> QED BY <3>1, <3>2, LastSectorNat DEF LastSector
  <2> QED BY <2>1, <2>2, <2>3
<1> QED BY <1>2, <1>3, <1>4 DEF Cell

LEMMA FormatKept ==
    ASSUME sync' = NoSync, op'.pc = "format", FormatProgress'
    PROVE  Kept'
BY DEF Kept, ThreadAlone, Acting

LEMMA StartFormatKept ==
    ASSUME Alone, NEW again, StartFormat(again), UNCHANGED sync
    PROVE  Kept'
<1>1. /\ op'.pc = "format" /\ op'.bank = 0 /\ op'.sector = 0
      /\ sync' = NoSync
  BY DEF StartFormat, Alone
<1>2. ASSUME NEW x \in Cell
      PROVE  ~(x[2] < 0) /\ ~(SectorOf[PageOf[x]][2] < 0)
  <2>1. PICK n \in 0 .. LastSector : SectorOf[PageOf[x]] = <<x[2], n>> /\ x[2] \in Bank
    BY SectorOfCell
  <2> QED BY <2>1, GeometryAssumption, LastSectorNat DEF Bank
<1>3. FormatProgress'
  BY <1>1, <1>2 DEF FormatProgress
<1> QED BY <1>1, <1>3, FormatKept

LEMMA FormatEraseKept ==
    ASSUME Alone, FormatErase, UNCHANGED sync
    PROVE  Kept'
<1>1. op.pc = "format" /\ op \in Formatting /\ sync' = NoSync
  BY OpCases DEF FormatErase, Alone, IInv, TypeOK, FatTypeOK
<1>2. /\ op'.pc = "format" /\ op'.bank = op.bank /\ op'.sector = op.sector + 1
      /\ op.sector \in Nat /\ op.bank \in Nat
  BY <1>1, LastSectorNat, GeometryAssumption DEF FormatErase, Formatting, Bank
<1>3. ASSUME NEW x \in Cell, x[1] # "fmt",
             \/ x[2] < op.bank
             \/ x[2] = op.bank /\ SectorOf[PageOf[x]][2] < op.sector + 1
      PROVE  chip'[x] = ERASED
  <2>1. PICK n \in 0 .. LastSector : SectorOf[PageOf[x]] = <<x[2], n>> /\ x[2] \in Bank
    BY SectorOfCell
  <2>2. chip'[x] = IF SectorOf[PageOf[x]] = <<op.bank, op.sector>> THEN ERASED ELSE chip[x]
    BY DEF FormatErase, erase_sector, Erased, InSector
  <2>3. CASE x[2] = op.bank /\ n = op.sector
    BY <2>1, <2>2, <2>3
  <2>4. CASE ~(x[2] = op.bank /\ n = op.sector)
    <3>1. x[2] < op.bank \/ (x[2] = op.bank /\ n < op.sector)
      BY <1>2, <1>3, <2>1, <2>4, LastSectorNat
    <3>2. chip[x] = ERASED
      BY <1>1, <1>3, <2>1, <3>1 DEF Alone, Kept, FormatProgress
    <3> QED BY <2>2, <3>2
  <2> QED BY <2>3, <2>4
<1>4. FormatProgress'
  BY <1>2, <1>3 DEF FormatProgress
<1> QED BY <1>1, <1>2, <1>4, FormatKept

LEMMA FormatBurnKept ==
    ASSUME Alone, FormatBurn, UNCHANGED sync
    PROVE  Kept'
<1>1. /\ op.pc = "format" /\ op \in Formatting /\ sync' = NoSync
      /\ Cache \in CacheType /\ chip \in Memory
  BY OpCases, AloneFacts DEF FormatBurn, Alone, IInv, TypeOK, FatTypeOK
<1>2. /\ op.sector \in Nat /\ op.sector > LastSector
      /\ op.bank \in Bank /\ op.bank \in Int /\ NBANKS \in Int
  <2>1. op.sector \in 0 .. LastSector + 1 /\ op.bank \in Bank /\ op.sector > LastSector
    BY <1>1 DEF FormatBurn, Formatting
  <2> QED BY <2>1, LastSectorNat, GeometryAssumption DEF Bank
<1>3. ASSUME NEW x \in Cell, x[1] # "fmt", x[2] <= op.bank
      PROVE  chip'[x] = ERASED
  <2>1. PICK n \in 0 .. LastSector : SectorOf[PageOf[x]] = <<x[2], n>> /\ x[2] \in Bank
    BY SectorOfCell
  <2>2. x[2] < op.bank \/ (x[2] = op.bank /\ n < op.sector)
    <3>1. x[2] \in Int /\ n \in Int /\ n <= LastSector /\ LastSector \in Int
      BY <2>1, LastSectorNat, GeometryAssumption DEF Bank
    <3> QED BY <1>2, <1>3, <3>1
  <2>3. chip[x] = ERASED
    BY <1>1, <1>3, <2>1, <2>2 DEF Alone, Kept, FormatProgress
  <2>4. chip'[x] = chip[x] \/ chip'[x] = BitAnd(chip[x], ERASED)
    BY <1>3 DEF FormatBurn, burn_sector, Burnt, FormatImage
  <2> QED BY <2>3, <2>4, WordAssumption
<1>4. CASE op.bank + 1 \in Bank
  <2>1. op'.pc = "format" /\ op'.bank = op.bank + 1 /\ op'.sector = 0
    BY <1>1, <1>4 DEF FormatBurn, Formatting
  <2>2. ASSUME NEW x \in Cell, x[1] # "fmt",
               x[2] < op.bank + 1 \/ (x[2] = op.bank + 1 /\ SectorOf[PageOf[x]][2] < 0)
        PROVE  x[2] <= op.bank
    <3>1. PICK n \in 0 .. LastSector : SectorOf[PageOf[x]] = <<x[2], n>> /\ x[2] \in Bank
      BY SectorOfCell
    <3>2. x[2] \in Int /\ SectorOf[PageOf[x]][2] = n /\ n \in Nat
      BY <3>1, LastSectorNat, GeometryAssumption DEF Bank
    <3> QED BY <1>2, <2>2, <3>2
  <2>3. FormatProgress'
    BY <1>3, <2>1, <2>2 DEF FormatProgress
  <2> QED BY <1>1, <2>1, <2>3, FormatKept
<1>5. CASE op.bank + 1 \notin Bank
  <2> DEFINE m == update_cache_status(Cache, Page, CACHE_UNKNOWN)
  <2>1. m \in CacheType /\ SetCache(m) /\ \A p \in Page : m.s[p] = CACHE_UNKNOWN
    <3>1. SetCache(m)
      BY <1>5 DEF FormatBurn
    <3>2. m \in CacheType
      BY <1>1, UpdateType DEF Status, CACHE_UNKNOWN
    <3>3. \A p \in Page : m.s[p] = CACHE_UNKNOWN
      BY <1>1 DEF update_cache_status, CacheType
    <3> QED BY <3>1, <3>2, <3>3
  <2> HIDE DEF m
  <2>2. ASSUME NEW x \in Cell, x[1] # "fmt" PROVE chip'[x] = ERASED
    <3>1. PICK n \in 0 .. LastSector : SectorOf[PageOf[x]] = <<x[2], n>> /\ x[2] \in Bank
      BY SectorOfCell
    <3>2. x[2] <= op.bank
      BY <1>2, <1>5, <3>1, GeometryAssumption DEF Bank
    <3> QED BY <1>3, <2>2, <3>2
  <2>3. FreeIn(chip')
    <3>1. ASSUME NEW l \in Locs, NEW x \in Blanks(l) PROVE x \in Cell /\ x[1] # "fmt"
      <4>1. x \in Cell /\ x \in {DataCell(l), NextCell(l), CrcCell(l), HdrCell(l)}
        BY BlankCases
      <4> QED BY <4>1 DEF DataCell, NextCell, CrcCell, HdrCell
    <3> QED BY <2>2, <3>1 DEF FreeIn
  <2>4. op'.pc \in {"reaccess", "index"}
    BY <1>5 DEF FormatBurn, At
  <2> QED BY <1>1, <2>1, <2>3, <2>4, UnknownRight, RestKept
<1> QED BY <1>4, <1>5

LEMMA IndexFormattedKept ==
    ASSUME Alone, IndexFormatted, UNCHANGED sync
    PROVE  Kept'
<1>1. op.pc = "index" /\ op'.pc = "idle" /\ chip' = chip /\ index_files(Cache)
  BY DEF IndexFormatted, At
<1>2. /\ Cache \in CacheType /\ chip \in Memory /\ Right(Cache, chip)
      /\ NoDirty(Cache.s) /\ sync' = NoSync
  BY <1>1, AloneFacts DEF Alone
<1> QED BY <1>1, <1>2, IndexKept

-----------------------------------------------------------------------------
(***************************************************************************)
(* Linked lists, get_file, check_file.                                     *)
(***************************************************************************)
LEMMA SmallStepKept ==
    ASSUME Alone, CloseAlarm \/ AddRagged, UNCHANGED sync
    PROVE  Kept'
<1>1. /\ op.pc \in {"alarm", "idle"} /\ op'.pc \in {"idle", "throw"}
      /\ UNCHANGED <<chip, contents, cache_status>>
  BY DEF CloseAlarm, AddRagged, At
<1> QED BY <1>1, UntouchedKept

\* A file that is opened, saved or checked is not deleted.
LEMMA StartLinkActing ==
    ASSUME NEW goal \in {"open", "save", "check"}, NEW l, NEW cached,
           StartLink(goal, l, cached)
    PROVE  Acting' /\ op'.pc = "link"
<1>1. op'.pc = "link" /\ op'.goal = goal
  BY DEF StartLink
<1>2. goal # "delete"
  OBVIOUS
<1> QED BY <1>1, <1>2 DEF Acting

LEMMA StartGetKept ==
    ASSUME Alone, NEW goal \in {"open", "save"}, NEW l, StartGet(goal, l),
           UNCHANGED sync
    PROVE  Kept'
<1>1. op.pc = "idle" /\ UNCHANGED <<chip, contents, cache_status>>
  BY DEF StartGet
<1>2. Acting' /\ op'.pc = "link"
  BY StartLinkActing DEF StartGet
<1> QED BY <1>1, <1>2, UntouchedKept

\* delete_file is given a file whose blocks, if need be, lie in one bank.
LEMMA DeleteButtonKept ==
    ASSUME Alone, NEW l \in DOMAIN files, MayDelete(l), DeleteButton(l),
           UNCHANGED sync
    PROVE  Kept'
<1>1. op.pc = "idle" /\ UNCHANGED <<chip, contents, cache_status>>
  BY DEF DeleteButton
<1>2. /\ op'.pc = "link" /\ op'.seen = files[l].blocks
      /\ files[l].blocks # <<>> => op'.at = NoLoc
  BY DEF DeleteButton, StartLink
<1>3. files[l].blocks \in Seq(Locs)
  BY BlocksOfFile DEF Alone, IInv, TypeOK
<1>4. ASSUME ~SpanningDelete
      PROVE  /\ op'.at = NoLoc
             /\ \A i \in DOMAIN op'.seen : BankOf(op'.seen[i]) = BankOf(op'.seen[1])
  <2>1. files[l].blocks # <<>> /\ ~Spans(l)
    BY <1>4 DEF MayDelete
  <2>2. \A i \in DOMAIN files[l].blocks : BankOf(files[l].blocks[i]) = BankOf(l)
    BY <2>1 DEF Spans, Range
  <2>3. 1 \in DOMAIN files[l].blocks
    BY <1>3, <2>1, EmptySeq, LenProperties
  <2> QED BY <1>2, <2>1, <2>2, <2>3
<1>5. Acting'
  BY <1>2, <1>4 DEF Acting
<1> QED BY <1>1, <1>2, <1>5, UntouchedKept

\* A step that only reads pages while nothing is to be written.
LEMMA ReadKept ==
    ASSUME Alone, op.pc = "link", NEW P, SetCache(read_block(Cache, chip, P)),
           UNCHANGED <<sync, chip>>,
           op'.pc # "format", Acting' \/ op'.pc \in {"idle", "alarm"}
    PROVE  Kept'
<1>1. /\ Cache \in CacheType /\ chip \in Memory /\ NoDirty(Cache.s)
      /\ Right(Cache, chip) /\ sync' = NoSync
  BY AloneFacts DEF Alone
<1> DEFINE m == read_block(Cache, chip, P)
<1>2. m \in CacheType /\ Right(m, chip')
  BY <1>1, ReadType, ReadBlockRight
<1> HIDE DEF m
<1>3. SetCache(m)
  BY DEF m
<1>4. CASE Acting'
  BY <1>1, <1>2, <1>3, <1>4, AloneKept
<1>5. CASE op'.pc \in {"idle", "alarm"}
  BY <1>1, <1>2, <1>3, <1>5, RestKept
<1> QED BY <1>4, <1>5

LEMMA LinkStepKept ==
    ASSUME Alone, LinkStep, UNCHANGED sync
    PROVE  Kept'
<1>1. op.pc = "link" /\ op.at # NoLoc /\ chip' = chip /\ op \in Linking
  BY OpCases DEF LinkStep, Alone, IInv, TypeOK, FatTypeOK
<1>2. CASE Len(op.seen) >= MAX_LINKS \/ ~port
  <2>1. op'.pc = "throw" /\ UNCHANGED <<contents, cache_status>>
    BY <1>2 DEF LinkStep, At
  <2> QED BY <1>1, <2>1, UntouchedKept
<1>3. CASE ~(Len(op.seen) >= MAX_LINKS \/ ~port)
  <2>1. SetCache(read_block(Cache, chip, {MetaPage(op.at)}))
    BY <1>3 DEF LinkStep
  <2>2. op'.pc = "link" /\ op'.goal = op.goal
    BY <1>1, <1>3 DEF LinkStep, Linking
  <2>3. ~SpanningDelete => op.goal # "delete"
    BY <1>1 DEF Alone, Kept, Acting
  <2>4. Acting'
    BY <2>2, <2>3 DEF Acting
  <2> QED BY <1>1, <2>1, <2>2, <2>4, ReadKept
<1> QED BY <1>2, <1>3

LEMMA FinishGetKept ==
    ASSUME Alone, FinishGet, UNCHANGED sync
    PROVE  Kept'
<1>1. op.pc = "link" /\ chip' = chip
  BY DEF FinishGet, Linked
<1>2. CASE ~port
  <2>1. op'.pc = "throw" /\ UNCHANGED <<contents, cache_status>>
    BY <1>2 DEF FinishGet, At
  <2> QED BY <1>1, <2>1, UntouchedKept
<1>3. CASE port
  <2>1. op'.pc = "idle"
    BY <1>3 DEF FinishGet, At
  <2>2. PICK P : SetCache(read_block(Cache, chip, P))
    BY <1>3 DEF FinishGet
  <2> QED BY <1>1, <2>1, <2>2, ReadKept
<1> QED BY <1>2, <1>3

\* check_file reads the data again, whatever the cache says.
LEMMA ReadAnewIsRead ==
    ASSUME NEW m \in CacheType, NEW P
    PROVE  IsRead(m, chip, P, ReadAnew(m, P))
<1> DEFINE u == update_cache_status(m, P, CACHE_UNKNOWN)
           Q == {p \in P : u.s[p] # CACHE_SYNCED}
<1>1. u.c = m.c /\ \A p \in Page : u.s[p] = IF p \in P THEN CACHE_UNKNOWN ELSE m.s[p]
  BY DEF update_cache_status, CacheType
<1>2. ReadAnew(m, P) = Fetch(u, chip, Q)
  BY DEF ReadAnew, read_block
<1>3. \A p \in Page : p \in Q <=> p \in P
  BY <1>1, StatusFacts
<1> HIDE DEF u, Q
<1>4. IsRead(u, chip, Q, ReadAnew(m, P))
  BY <1>2, FetchIsRead
<1> QED BY <1>1, <1>3, <1>4, PageOfCell DEF IsRead

LEMMA CheckFileKept ==
    ASSUME Alone, CheckFile, UNCHANGED sync
    PROVE  Kept'
<1> DEFINE blocks == Range(op.seen)
           D == {DataPage(l) : l \in blocks}
           m == ReadAnew(Cache, D)
           S == UNION {StrayPages(l) : l \in blocks}
           n == read_block(m, chip, S)
<1>1. op.pc = "link" /\ chip' = chip
  BY DEF CheckFile, Linked
<1>2. \/ SetCache(n) /\ op'.pc \in {"idle", "alarm"}
      \/ UNCHANGED <<contents, cache_status>> /\ op'.pc = "throw"
  BY DEF CheckFile, At
<1>3. /\ Cache \in CacheType /\ chip \in Memory /\ NoDirty(Cache.s)
      /\ Right(Cache, chip) /\ sync' = NoSync
  BY <1>1, AloneFacts DEF Alone
<1> HIDE DEF D
<1>4. m \in CacheType /\ NoDirty(m.s) /\ Right(m, chip)
  <2>1. m \in CacheType /\ NoDirty(m.s)
    BY <1>3, ReadAnewLoads
  <2>2. IsRead(Cache, chip, D, m) /\ Clean(Cache.s, D)
    BY <1>3, ReadAnewIsRead, NoDirtyClean
  <2> HIDE DEF m
  <2>3. Right(m, chip)
    BY <1>3, <2>2, ReadRight
  <2> QED BY <2>1, <2>3
<1> HIDE DEF m, S
<1>5. n \in CacheType /\ Right(n, chip')
  BY <1>1, <1>3, <1>4, ReadType, ReadBlockRight
<1> HIDE DEF n
<1>6. CASE SetCache(n) /\ op'.pc \in {"idle", "alarm"}
  BY <1>3, <1>5, <1>6, RestKept
<1>7. CASE UNCHANGED <<contents, cache_status>> /\ op'.pc = "throw"
  BY <1>1, <1>7, UntouchedKept
<1> QED BY <1>2, <1>6, <1>7

-----------------------------------------------------------------------------
(***************************************************************************)
(* add_file.                                                               *)
(***************************************************************************)
LEMMA AddingActing ==
    ASSUME op'.pc = "add", ~Erasing(cache_status'), contents'[UsedCell(op'.at)] = ERASED
    PROVE  Acting'
BY DEF Acting

\* A scan of the metadata leaves the block it stops at free.
LEMMA FreeIsErased ==
    ASSUME NEW m, NEW l \in FreeBlocks(m, chip)
    PROVE  l \in Locs /\ ScannedTo(m, chip, l).c[UsedCell(l)] = ERASED
BY ScansAgree DEF FreeBlocks

LEMMA AddProgramKept ==
    ASSUME Alone, NEW prog \in Programs, slot_add_program(prog), UNCHANGED sync
    PROVE  Kept'
<1>1. op.pc = "idle" /\ chip' = chip
  BY DEF slot_add_program
<1>2. /\ Cache \in CacheType /\ chip \in Memory /\ NoDirty(Cache.s)
      /\ LoadedPages(Cache.s) /\ sync' = NoSync
      /\ Right(Cache, chip) /\ AddRight(Cache, chip) /\ ~Erasing(Cache.s)
  BY <1>1, AloneFacts DEF Alone
<1>3. CASE FreeBlocks(Cache, chip) = {}
  <2> DEFINE m == ScannedAll(Cache, chip)
  <2>1. SetCache(m) /\ op'.pc = "throw"
    BY <1>3 DEF slot_add_program, At
  <2>2. m \in CacheType
    BY <1>2, ScannedAllLoads
  <2>3. PICK P : IsRead(Cache, chip, P, m) /\ Clean(Cache.s, P)
    BY <1>2, ScanIsRead
  <2> HIDE DEF m
  <2>4. Right(m, chip) /\ ~Erasing(m.s)
    BY <1>2, <2>3, ReadRight, ReadStatuses
  <2> QED BY <1>1, <1>2, <2>1, <2>2, <2>4, RestKept
<1>4. CASE FreeBlocks(Cache, chip) # {}
  <2>1. PICK l \in FreeBlocks(Cache, chip), i \in Slot :
            LET m == ScannedTo(Cache, chip, l)
                b == BankOf(l)
            IN  /\ m.c[PreCell(b, i)] = ERASED
                /\ IF NrBlocks(prog) = 0
                   THEN SetCache(m) /\ At("emit")
                   ELSE /\ SetCache(update_cache_status(
                                Put(m, [x \in {PreCell(b, i)} |-> BlockOf(l)]),
                                {PrePage(b)}, CACHE_WRITE_NONERASE))
                        /\ op' = [pc |-> "add", prog |-> prog, start |-> l,
                                  at |-> l, i |-> 0]
    BY <1>4 DEF slot_add_program
  <2> DEFINE m == ScannedTo(Cache, chip, l)
             b == BankOf(l)
             w == [x \in {PreCell(b, i)} |-> BlockOf(l)]
             n == update_cache_status(Put(m, w), {PrePage(b)}, CACHE_WRITE_NONERASE)
  <2>2. l \in Locs /\ m.c[UsedCell(l)] = ERASED
    BY FreeIsErased
  <2>3. b \in Bank /\ BlockOf(l) \in Block
    BY <2>2, LocParts
  <2>4. /\ m \in CacheType /\ LoadedPages(m.s) /\ NoDirty(m.s)
        /\ SectorLoaded(m.s, MetaSector(b))
    BY <1>2, <2>2, ScannedToLoads
  <2>5. PICK P : IsRead(Cache, chip, P, m) /\ Clean(Cache.s, P)
    BY <1>2, <2>2, ScanIsRead
  <2>6. m.c[PreCell(b, i)] = ERASED
    BY <2>1
  <2>7. IF NrBlocks(prog) = 0
        THEN SetCache(m) /\ At("emit")
        ELSE /\ SetCache(n)
             /\ op' = [pc |-> "add", prog |-> prog, start |-> l, at |-> l, i |-> 0]
    BY <2>1
  <2> HIDE DEF m, b
  <2>8. Right(m, chip) /\ AddRight(m, chip)
    BY <1>2, <2>5, ReadRight, ReadAddRight
  <2>9. CASE NrBlocks(prog) = 0
    <3>1. SetCache(m) /\ op'.pc = "emit"
      BY <2>7, <2>9 DEF At
    <3> QED BY <1>1, <1>2, <2>4, <2>8, <3>1, RestKept
  <2>10. CASE NrBlocks(prog) # 0
    <3>1. SetCache(n) /\ op'.pc = "add" /\ op'.at = l
      BY <2>7, <2>10
    <3>2. IsWrite(m, w, {PrePage(b)}, CACHE_WRITE_NONERASE, n) /\ DOMAIN w = {PreCell(b, i)}
      BY <2>4, WriteIsWrite
    <3>3. \A x \in Cell : x \in DOMAIN w => w[x] \in ValuesOf(x[1])
      BY <2>3 DEF PreCell, ValuesOf
    <3> HIDE DEF w
    <3>4. n \in CacheType
      BY <2>3, <2>4, <3>3, PrePageIsPage, MetaSectorOf, WriteMarked, DirtyStatuses
    <3> HIDE DEF n
    <3>5. /\ AddRight(n, chip) /\ ~Erasing(n.s)
          /\ n.c[UsedCell(l)] = m.c[UsedCell(l)]
      BY <2>2, <2>3, <2>4, <2>6, <2>8, <3>2, EntryWritten
    <3>6. Right(n, chip')
      BY <1>1, <3>5 DEF Right
    <3>7. Acting'
      BY <2>2, <3>1, <3>5, AddingActing DEF SetCache
    <3> QED BY <1>2, <3>1, <3>4, <3>6, <3>7, AloneKept
  <2> QED BY <2>9, <2>10
<1> QED BY <1>3, <1>4

LEMMA FillingRight ==
    ASSUME NEW m, NEW rom, NEW l, Filling(m, rom, l)
    PROVE  Right(m, rom) /\ ~Erasing(m.s)
BY DEF Filling, Right

\* The link to the next block.
LEMMA LinkFilled ==
    ASSUME NEW m \in CacheType, NEW rom \in Memory, NEW l \in Locs, NEW w, NEW n,
           Filling(m, rom, l), IsWrite(m, w, {}, CACHE_WRITE_NONERASE, n),
           DOMAIN w = {NextCell(l)}
    PROVE  /\ Filling(n, rom, l)
           /\ \A k \in Locs : n.c[UsedCell(k)] = m.c[UsedCell(k)]
<1> DEFINE P == {}
<1>1. IsWrite(m, w, P, CACHE_WRITE_NONERASE, n) /\ P = {}
  OBVIOUS
<1> HIDE DEF P
<1>2. DOMAIN w = {NextCell(l)} /\ P = {}
  BY <1>1
<1>3. \/ DOMAIN w = {DataCell(l), CrcCell(l)} /\ P = {DataPage(l)}
      \/ DOMAIN w = {NextCell(l)} /\ P = {}
  BY <1>2
<1>4. Filling(n, rom, l)
  BY <1>1, <1>3, BlockFilled
<1>5. ASSUME NEW k \in Locs PROVE n.c[UsedCell(k)] = m.c[UsedCell(k)]
  BY CellsOfBlock, CellsApart DEF IsWrite
<1> QED BY <1>4, <1>5

LEMMA AddBlockKept ==
    ASSUME Alone, AddBlock, UNCHANGED sync
    PROVE  Kept'
<1>1. op.pc = "add" /\ op \in Adding /\ chip' = chip
  BY OpCases DEF AddBlock, Alone, IInv, TypeOK, FatTypeOK
<1>2. /\ op.prog \in Programs /\ op.at \in Locs
      /\ op.i \in Nat /\ op.i < NrBlocks(op.prog)
      /\ SectorLoaded(cache_status, MetaSector(BankOf(op.at)))
  BY <1>1 DEF Adding, Alone, IInv, LoopsGuarded
<1>3. op.i < Len(op.prog)
  <2>1. Len(op.prog) \in Nat
    BY <1>2, GeometryAssumption
  <2> QED BY <1>2, <2>1, NrBlocksBound
<1>4. /\ Cache \in CacheType /\ chip \in Memory /\ LoadedPages(Cache.s)
      /\ Cache.s = cache_status /\ Cache.c = contents
      /\ Right(Cache, chip) /\ sync' = NoSync
  BY <1>1, AloneFacts DEF Alone
<1>5. ~Erasing(Cache.s) /\ Cache.c[UsedCell(op.at)] = ERASED
  BY <1>1, <1>4 DEF Alone, Kept, Acting
<1>6. AddRight(Cache, chip)
  BY <1>4, <1>5, RightFree
<1> DEFINE m == BlockWritten(Cache, op.prog, op.i, op.at)
<1>7. m \in CacheType /\ LoadedPages(m.s)
  BY <1>2, <1>3, <1>4, BlockWrittenLoads
<1>8. Filling(m, chip, op.at)
  BY <1>2, <1>3, <1>4, <1>5, <1>6, BlockWrittenRight
<1>9. CASE FreeBlocks(m, chip) = {}
  <2> DEFINE m1 == ScannedAll(m, chip)
  <2>1. SetCache(m1) /\ op'.pc = "throw"
    BY <1>9 DEF AddBlock, At
  <2> HIDE DEF m
  <2>2. m1 \in CacheType
    BY <1>4, <1>7, ScannedAllLoads
  <2>3. PICK P : IsRead(m, chip, P, m1) /\ Clean(m.s, P)
    BY <1>7, ScanIsRead
  <2> HIDE DEF m1
  <2>4. Filling(m1, chip, op.at)
    BY <1>2, <1>8, <2>3, FillingRead
  <2> QED BY <1>1, <1>4, <2>1, <2>2, <2>4, FillingRight, RestKept
<1>10. CASE FreeBlocks(m, chip) # {}
  <2>1. PICK nxt \in FreeBlocks(m, chip) :
            LET m1 == ScannedTo(m, chip, nxt)
            IN  \/ SetCache(m1) /\ At("emit")
                \/ /\ SetCache(Put(m1, [x \in {NextCell(op.at)} |-> nxt]))
                   /\ op' = [op EXCEPT !.i = @ + 1, !.at = nxt]
    BY <1>10 DEF AddBlock
  <2> HIDE DEF m
  <2> DEFINE m1 == ScannedTo(m, chip, nxt)
             w == [x \in {NextCell(op.at)} |-> nxt]
             n == Put(m1, w)
  <2>2. nxt \in Locs /\ m1.c[UsedCell(nxt)] = ERASED
    BY FreeIsErased
  <2>3. m1 \in CacheType
    BY <1>4, <1>7, <2>2, ScannedToLoads
  <2>4. PICK P : IsRead(m, chip, P, m1) /\ Clean(m.s, P)
    BY <1>7, <2>2, ScanIsRead
  <2>5. \/ SetCache(m1) /\ At("emit")
        \/ SetCache(n) /\ op' = [op EXCEPT !.i = @ + 1, !.at = nxt]
    BY <2>1
  <2> HIDE DEF m1
  <2>6. Filling(m1, chip, op.at)
    BY <1>2, <1>8, <2>4, FillingRead
  <2>7. CASE SetCache(m1) /\ At("emit")
    <3>1. op'.pc = "emit"
      BY <2>7 DEF At
    <3> QED BY <1>1, <1>4, <2>3, <2>6, <2>7, <3>1, FillingRight, RestKept
  <2>8. CASE SetCache(n) /\ op' = [op EXCEPT !.i = @ + 1, !.at = nxt]
    <3>1. op'.pc = "add" /\ op'.at = nxt
      BY <1>1, <2>8 DEF Adding
    <3>2. IsWrite(m1, w, {}, CACHE_WRITE_NONERASE, n) /\ DOMAIN w = {NextCell(op.at)}
      BY <2>3, WriteIsWrite
    <3>3. \A x \in Cell : x \in DOMAIN w => w[x] \in ValuesOf(x[1])
      BY <2>2 DEF NextCell, ValuesOf
    <3> HIDE DEF w
    <3>4. n \in CacheType
      BY <2>3, <3>3, PutType
    <3> HIDE DEF n
    <3>5. Filling(n, chip, op.at) /\ n.c[UsedCell(nxt)] = m1.c[UsedCell(nxt)]
      <4>1. op.at \in Locs /\ chip \in Memory
        BY <1>2, <1>4
      <4>2. /\ Filling(n, chip, op.at)
            /\ \A k \in Locs : n.c[UsedCell(k)] = m1.c[UsedCell(k)]
        BY <2>3, <2>6, <3>2, <4>1, LinkFilled
      <4> QED BY <2>2, <4>2
    <3>6. Right(n, chip') /\ ~Erasing(n.s)
      BY <1>1, <3>5, FillingRight
    <3>7. Acting'
      BY <2>2, <2>8, <3>1, <3>5, <3>6, AddingActing DEF SetCache
    <3> QED BY <1>4, <2>8, <3>1, <3>4, <3>6, <3>7, AloneKept
  <2> QED BY <2>5, <2>7, <2>8
<1> QED BY <1>9, <1>10

-----------------------------------------------------------------------------
(***************************************************************************)
(* delete_file.                                                            *)
(***************************************************************************)
LEMMA DeleteEntryKept ==
    ASSUME Alone, DeleteEntry, UNCHANGED sync
    PROVE  Kept'
<1>1. /\ op.pc = "link" /\ op.goal = "delete" /\ op.at = NoLoc
      /\ op \in Linking /\ chip' = chip
  BY OpCases DEF DeleteEntry, Linked, Alone, IInv, TypeOK, FatTypeOK
<1>2. op.seen \in Seq(Locs) /\ op.seen # <<>>
  BY <1>1 DEF Linking, Alone, IInv, LoopsGuarded
<1>3. /\ Cache \in CacheType /\ chip \in Memory /\ NoDirty(Cache.s)
      /\ Right(Cache, chip) /\ LoadedPages(Cache.s) /\ sync' = NoSync
  BY <1>1, AloneFacts DEF Alone
<1> DEFINE b == BankOf(op.seen[1])
           k == BlockOf(op.seen[1])
           S == {MetaSector(b)}
           m == read_sector(Cache, chip, S)
           w == PreambleWithout(m.c, b, k)
           n == update_cache_status(Put(m, w), {PrePage(b)}, CACHE_WRITE_ERASE)
<1>4. SetCache(n) /\ op'.pc = "wipe" /\ op'.blocks = op.seen
  BY DEF DeleteEntry
<1>5. b \in Bank
  BY <1>2, FirstOfSeq, LocParts
<1>6. ~SpanningDelete => \A i \in DOMAIN op.seen : BankOf(op.seen[i]) = b
  BY <1>1 DEF Alone, Kept, Acting
<1> HIDE DEF b
<1>7. S \subseteq Sector /\ MetaSector(b) \in S
  BY <1>5, MetaSectorOf
<1> HIDE DEF S
<1>8. /\ m \in CacheType /\ NoDirty(m.s) /\ LoadedPages(m.s) /\ SectorLoaded(m.s, MetaSector(b))
      /\ Right(m, chip)
  BY <1>3, <1>7, ReadType, ReadLoads, ReadSectorLoads, ReadSectorRight
<1> HIDE DEF m
<1>9. AddRight(m, chip)
  BY <1>8, NoDirtyClean, RightFree
<1>10. DOMAIN w \subseteq PreCells /\ \A x \in DOMAIN w : x[2] = b
  <2>1. DOMAIN w = {"pre"} \X {b} \X Slot
    BY DEF PreambleWithout
  <2> HIDE DEF w
  <2> QED BY <1>5, <2>1 DEF PreCells
<1>11. \A x \in Cell : x \in DOMAIN w => w[x] \in ValuesOf(x[1])
  BY <1>5, <1>8, PreambleWithoutType DEF CacheType
<1> HIDE DEF w
<1>12. IsWrite(m, w, {PrePage(b)}, CACHE_WRITE_ERASE, n)
  BY <1>8, WriteIsWrite
<1>13. n \in CacheType
  BY <1>5, <1>8, <1>11, PrePageIsPage, MetaSectorOf, WriteMarked, DirtyStatuses
<1> HIDE DEF n
<1>14. DeleteRight(n, chip) /\ Erasing(n.s) /\ ToWrite(n.s, MetaSector(b))
  BY <1>3, <1>5, <1>8, <1>9, <1>10, <1>12, EntryRemoved
<1>15. Right(n, chip')
  BY <1>1, <1>14 DEF Right
<1>16. Acting'
  <2>1. cache_status' = n.s
    BY <1>4 DEF SetCache
  <2>2. ASSUME ~SpanningDelete, NEW i \in DOMAIN op'.blocks
        PROVE  ToWrite(cache_status', MetaSector(BankOf(op'.blocks[i])))
    BY <1>4, <1>6, <1>14, <2>1, <2>2
  <2> QED BY <1>4, <1>14, <2>1, <2>2 DEF Acting
<1> QED BY <1>3, <1>4, <1>13, <1>15, <1>16, AloneKept

\* The order of the code, descriptor, read_sector, data, comes to one write
\* over a cache that holds the sector of the data.
LEMMA WipeIsWrite ==
    ASSUME NEW m \in CacheType, chip \in Memory, NEW l \in Locs, NEW meta, NEW data,
           DOMAIN meta = {FmtCell(l), NextCell(l), CrcCell(l), UsedCell(l), HdrCell(l)},
           \A x \in DOMAIN meta : meta[x] = FormatImage(x),
           DOMAIN data = {DataCell(l)}, data[DataCell(l)] = ERASED,
           Put(m, meta) \in CacheType,
           NEW n, n = update_cache_status(
                          Put(read_sector(Put(m, meta), chip, {SectorOf[DataPage(l)]}), data),
                          {DataPage(l)}, CACHE_WRITE_ERASE),
           NEW w, w = [x \in WipedCells(l) |-> FormatImage(x)]
    PROVE  IsWrite(read_sector(m, chip, {SectorOf[DataPage(l)]}), w, {DataPage(l)},
                   CACHE_WRITE_ERASE, n)
<1> DEFINE S == {SectorOf[DataPage(l)]}
           p == Put(m, meta)
           q == read_sector(p, chip, S)
           r == read_sector(m, chip, S)
<1>1. S \subseteq Sector
  BY SectorsApart
<1>2. p.s = m.s /\ \A x \in Cell : p.c[x] = IF x \in DOMAIN meta THEN meta[x] ELSE m.c[x]
  BY PutStatus, WriteIsWrite DEF IsWrite
<1>3. p \in CacheType
  OBVIOUS
<1> HIDE DEF p
<1>4. Unread(p, S) = Unread(m, S) /\ Unread(m, S) \subseteq S
  BY <1>2 DEF Unread
<1>5. q \in CacheType
  BY <1>3, ReadType
<1>6. n = update_cache_status(Put(q, data), {DataPage(l)}, CACHE_WRITE_ERASE)
  BY DEF p, S
<1>7. /\ \A x \in Cell : q.c[x] = IF SectorOf[PageOf[x]] \in Unread(m, S) THEN chip[x] ELSE p.c[x]
      /\ \A g \in Page : q.s[g] = IF SectorOf[g] \in Unread(m, S) THEN CACHE_SYNCED ELSE p.s[g]
  <2>1. /\ \A x \in Cell : q.c[x] = IF SectorOf[PageOf[x]] \in Unread(p, S) THEN chip[x] ELSE p.c[x]
        /\ \A g \in Page : q.s[g] = IF SectorOf[g] \in Unread(p, S) THEN CACHE_SYNCED ELSE p.s[g]
    BY <1>1, ReadSectorCells
  <2> HIDE DEF q
  <2> QED BY <1>4, <2>1
<1>8. /\ \A x \in Cell : r.c[x] = IF SectorOf[PageOf[x]] \in Unread(m, S) THEN chip[x] ELSE m.c[x]
      /\ \A g \in Page : r.s[g] = IF SectorOf[g] \in Unread(m, S) THEN CACHE_SYNCED ELSE m.s[g]
  BY <1>1, ReadSectorCells
<1> HIDE DEF q, r
<1>9. IsWrite(q, data, {DataPage(l)}, CACHE_WRITE_ERASE, n)
  BY <1>5, <1>6, WriteIsWrite
<1>10. \A x \in DOMAIN meta : SectorOf[PageOf[x]] \notin Unread(m, S)
  <2> SUFFICES ASSUME NEW x \in DOMAIN meta PROVE SectorOf[PageOf[x]] # SectorOf[DataPage(l)]
    BY <1>4 DEF S
  <2>1. PageOf[x] = MetaPage(l)
    BY CellsOfBlock
  <2> QED BY <2>1, MetaSectorOf, SectorsApart
<1>11. DOMAIN w = DOMAIN meta \cup {DataCell(l)} /\ DataCell(l) \notin DOMAIN meta
  <2>1. DataCell(l) \notin {FmtCell(l), NextCell(l), CrcCell(l), UsedCell(l), HdrCell(l)}
    BY DEF DataCell, FmtCell, NextCell, CrcCell, UsedCell, HdrCell
  <2> QED BY <2>1 DEF WipedCells
<1>12. w[DataCell(l)] = ERASED /\ \A x \in DOMAIN meta : w[x] = meta[x]
  BY <1>11 DEF FormatImage, DataCell
<1>13. ASSUME NEW x \in Cell PROVE n.c[x] = IF x \in DOMAIN w THEN w[x] ELSE r.c[x]
  <2>1. n.c[x] = IF x \in DOMAIN data THEN data[x] ELSE q.c[x]
    BY <1>9 DEF IsWrite
  <2>2. CASE x = DataCell(l)
    BY <1>11, <1>12, <2>1, <2>2
  <2>3. CASE x \in DOMAIN meta
    BY <1>2, <1>7, <1>10, <1>11, <1>12, <2>1, <2>3
  <2>4. CASE x # DataCell(l) /\ x \notin DOMAIN meta
    BY <1>2, <1>7, <1>8, <1>11, <2>1, <2>4
  <2> QED BY <2>2, <2>3, <2>4
<1>14. ASSUME NEW g \in Page
       PROVE  n.s[g] = IF g \in {DataPage(l)} THEN CACHE_WRITE_ERASE ELSE r.s[g]
  <2>1. n.s[g] = IF g \in {DataPage(l)} THEN CACHE_WRITE_ERASE ELSE q.s[g]
    BY <1>9 DEF IsWrite
  <2>2. q.s[g] = r.s[g]
    BY <1>2, <1>7, <1>8
  <2> QED BY <2>1, <2>2
<1>15. IsWrite(r, w, {DataPage(l)}, CACHE_WRITE_ERASE, n)
  BY <1>13, <1>14 DEF IsWrite
<1> QED BY <1>15 DEF r, S

LEMMA WipeBlockKept ==
    ASSUME Alone, WipeBlock, UNCHANGED sync
    PROVE  Kept'
<1>1. op.pc = "wipe" /\ op \in Wiping /\ chip' = chip
  BY OpCases DEF WipeBlock, Alone, IInv, TypeOK, FatTypeOK
<1>2. op.blocks \in Seq(Locs) /\ op.blocks # <<>>
  BY <1>1 DEF Wiping, Alone, IInv, LoopsGuarded
<1>3. /\ Cache \in CacheType /\ chip \in Memory /\ LoadedPages(Cache.s)
      /\ Cache.s = cache_status /\ Right(Cache, chip) /\ sync' = NoSync
  BY <1>1, AloneFacts DEF Alone
<1>4. Erasing(Cache.s) /\ DeleteRight(Cache, chip)
  BY <1>1, <1>3 DEF Alone, Kept, Acting, Right
<1>5. ~SpanningDelete =>
          \A i \in DOMAIN op.blocks : ToWrite(Cache.s, MetaSector(BankOf(op.blocks[i])))
  BY <1>1, <1>3 DEF Alone, Kept, Acting
<1> DEFINE l == op.blocks[1]
           meta == [x \in {FmtCell(l), NextCell(l), CrcCell(l), UsedCell(l),
                           HdrCell(l)} |-> FormatImage(x)]
           data == [x \in {DataCell(l)} |-> ERASED]
           S == {SectorOf[DataPage(l)]}
           n == update_cache_status(Put(read_sector(Put(Cache, meta), chip, S), data),
                                    {DataPage(l)}, CACHE_WRITE_ERASE)
           r == read_sector(Cache, chip, S)
           w == [x \in WipedCells(l) |-> FormatImage(x)]
<1>6. l \in Locs /\ 1 \in DOMAIN op.blocks
  BY <1>2, FirstOfSeq, EmptySeq, LenProperties
<1>7. SetCache(n)
  BY DEF WipeBlock
<1>8. \A x \in Cell : x \in DOMAIN meta => meta[x] \in ValuesOf(x[1])
  BY ConstantsAreValues
<1>9. Put(Cache, meta) \in CacheType
  <2> HIDE DEF meta
  <2> QED BY <1>3, <1>8, PutType
<1>10. IsWrite(r, w, {DataPage(l)}, CACHE_WRITE_ERASE, n)
  <2>1. /\ DOMAIN meta = {FmtCell(l), NextCell(l), CrcCell(l), UsedCell(l), HdrCell(l)}
        /\ \A x \in DOMAIN meta : meta[x] = FormatImage(x)
        /\ DOMAIN data = {DataCell(l)} /\ data[DataCell(l)] = ERASED
    OBVIOUS
  <2> HIDE DEF meta, data, l
  <2> QED BY <1>3, <1>6, <1>9, <2>1, WipeIsWrite
<1>11. ~SpanningDelete => ToWrite(Cache.s, MetaSector(BankOf(l)))
  BY <1>5, <1>6
<1>12. DOMAIN w = WipedCells(l) /\ \A x \in DOMAIN w : x # FmtCell(l) => w[x] = ERASED
  BY DEF WipedCells, FormatImage, FmtCell, NextCell, CrcCell, UsedCell, HdrCell, DataCell
<1>13. n \in CacheType
  <2>1. \A x \in Cell : x \in DOMAIN data => data[x] \in ValuesOf(x[1])
    BY ConstantsAreValues
  <2> HIDE DEF data, meta, l
  <2> DEFINE q == read_sector(Put(Cache, meta), chip, S)
  <2>2. q \in CacheType
    BY <1>3, <1>9, ReadType
  <2> HIDE DEF q
  <2>3. Put(q, data) \in CacheType
    BY <2>1, <2>2, PutType
  <2>4. n = update_cache_status(Put(q, data), {DataPage(l)}, CACHE_WRITE_ERASE)
    BY DEF q
  <2> QED BY <2>3, <2>4, UpdateType, DirtyStatuses
<1>14. S \subseteq Sector /\ SectorOf[DataPage(l)] \in S
  BY <1>6, SectorsApart
<1>15. SectorLoaded(r.s, SectorOf[DataPage(l)]) /\ r \in CacheType
  <2> HIDE DEF S, l
  <2> QED BY <1>3, <1>14, ReadType, ReadSectorLoads
<1>16. DeleteRight(r, chip) /\ \A s : ToWrite(r.s, s) <=> ToWrite(Cache.s, s)
  <2> HIDE DEF S, l
  <2>1. PICK P : IsRead(Cache, chip, P, r) /\ Clean(Cache.s, P)
    BY <1>3, <1>14, ReadSectorIsRead
  <2> HIDE DEF r
  <2> QED BY <1>4, <2>1, ReadDeleteRight, ReadStatuses
<1> HIDE DEF l, n, r, w
<1>17. /\ DeleteRight(n, chip) /\ Erasing(n.s)
       /\ \A s : ToWrite(r.s, s) => ToWrite(n.s, s)
  BY <1>3, <1>6, <1>10, <1>11, <1>12, <1>15, <1>16, BlockWiped
<1>18. Right(n, chip')
  BY <1>1, <1>17 DEF Right
<1>19. CASE Len(op.blocks) = 1
  <2>1. op'.pc = "emit"
    BY <1>19 DEF WipeBlock, At
  <2> QED BY <1>3, <1>7, <1>13, <1>18, <2>1, RestKept
<1>20. CASE Len(op.blocks) # 1
  <2>1. op'.pc = "wipe" /\ op'.blocks = Tail(op.blocks)
    BY <1>1, <1>20 DEF WipeBlock, Wiping
  <2>2. \A i \in DOMAIN Tail(op.blocks) : i + 1 \in DOMAIN op.blocks
                                          /\ Tail(op.blocks)[i] = op.blocks[i + 1]
    BY <1>2, LenProperties, HeadTailProperties
  <2>3. cache_status' = n.s
    BY <1>7 DEF SetCache
  <2>4. ASSUME ~SpanningDelete, NEW i \in DOMAIN op'.blocks
        PROVE  ToWrite(cache_status', MetaSector(BankOf(op'.blocks[i])))
    BY <1>5, <1>16, <1>17, <2>1, <2>2, <2>3, <2>4
  <2>5. Acting'
    BY <1>17, <2>1, <2>3, <2>4 DEF Acting
  <2> QED BY <1>3, <1>7, <1>13, <1>18, <2>1, <2>5, AloneKept
<1> QED BY <1>19, <1>20

-----------------------------------------------------------------------------
(***************************************************************************)
(* The synchronization.                                                    *)
(***************************************************************************)
LEMMA ThreadFacts ==
    ASSUME IInv, Kept, sync # NoSync
    PROVE  /\ sync \in SyncRec /\ chip \in Memory /\ op.pc = "idle"
           /\ Mirror \in CacheType /\ Mirror.c = contents /\ Mirror.s = sync.status
           /\ sync.image = contents /\ LoadedPages(Mirror.s)
           /\ Right(Mirror, chip)
<1>1. /\ sync \in SyncRec /\ chip \in Memory
      /\ contents \in Memory /\ sync.status \in [Page -> Status]
  BY SyncCases DEF IInv, TypeOK, FatTypeOK, SyncRec
<1>2. Mirror = [c |-> contents, s |-> sync.status]
  BY DEF Mirror, Pending
<1>3. Mirror \in CacheType /\ Mirror.c = contents /\ Mirror.s = sync.status
  BY <1>1, <1>2, CacheTypeParts
<1>4. op.pc = "idle" /\ sync.image = contents /\ Right(Mirror, chip)
  BY DEF Kept, ThreadAlone
<1>5. LoadedPages(Mirror.s)
  BY <1>3, LoadedIsLoadedPages DEF IInv, DirtySectorLoaded
<1> QED BY <1>1, <1>3, <1>4, <1>5

LEMMA ThreadKept ==
    ASSUME op'.pc = "idle", ThreadAlone', sync' # NoSync,
           NEW m, m = [c |-> contents', s |-> sync'.status], Right(m, chip')
    PROVE  Kept'
<1>1. Mirror' = m
  BY DEF Mirror, Pending
<1> QED BY <1>1 DEF Kept, Acting, FormatProgress

LEMMA MirrorIs ==
    ASSUME sync # NoSync
    PROVE  Mirror = [c |-> contents, s |-> sync.status]
BY DEF Mirror, Pending

LEMMA StartSyncKept ==
    ASSUME IInv, Kept, slot_start_sync
    PROVE  Kept'
<1>1. op.pc = "emit" /\ sync = NoSync /\ Mirror = Cache
  BY DEF slot_start_sync, Kept, ThreadAlone, Mirror, Pending, Cache
<1>2. Right(Cache, chip)
  BY <1>1 DEF Kept
<1>3. /\ sync'.pc = "scan" /\ sync'.image = contents /\ sync'.status = cache_status
      /\ port' /\ op'.pc = "idle"
      /\ UNCHANGED <<chip, contents, cache_status>>
  BY DEF slot_start_sync, StartSync, Cache, At, open_port
<1>4. sync' # NoSync
  BY <1>3 DEF NoSync
<1>5. ThreadAlone'
  BY <1>3 DEF ThreadAlone
<1>6. Cache = [c |-> contents', s |-> sync'.status]
  BY <1>3 DEF Cache
<1>7. Right(Cache, chip')
  BY <1>2, <1>3
<1> QED BY <1>3, <1>4, <1>5, <1>6, <1>7, ThreadKept

LEMMA SyncCompleteKept ==
    ASSUME IInv, Kept, slot_sync_complete
    PROVE  Kept'
<1>1. sync.pc = "done" /\ sync # NoSync
  BY DEF slot_sync_complete, NoSync
<1>2. Mirror \in CacheType /\ Right(Mirror, chip) /\ chip \in Memory
      /\ Mirror.s = sync.status
  BY <1>1, ThreadFacts
<1>3. NoDirty(Mirror.s)
  BY <1>1, <1>2 DEF IInv, WritesAwaitSync
<1>4. index_files(Mirror) /\ sync' = NoSync /\ chip' = chip
  BY <1>1, MirrorIs DEF slot_sync_complete, CacheAfterSync
<1>5. op'.pc # "format" /\ (Acting' \/ op'.pc = "idle")
  <2>1. CASE lastbankblock # NoLoc
    <3>1. StartLink("check", lastbankblock, <<>>)
      BY <2>1 DEF slot_sync_complete
    <3>2. Acting' /\ op'.pc = "link"
      BY <3>1, StartLinkActing
    <3> QED BY <3>2
  <2>2. CASE lastbankblock = NoLoc
    BY <2>2 DEF slot_sync_complete, At
  <2> QED BY <2>1, <2>2
<1> QED BY <1>2, <1>3, <1>4, <1>5, IndexKept

\* What the loop of the thread has chosen comes first of what is to write.
LEMMA NextIsFirst ==
    ASSUME IInv, sync # NoSync, NEW s, NextSector(s)
    PROVE  /\ s \in Sector /\ ToWrite(sync.status, s)
           /\ \A t : ToWrite(sync.status, t) => t = s \/ SectorBefore(s, t)
<1>1. \A t : ToWrite(sync.status, t) => t \in Sector /\ t \in sync.ahead
  BY SectorOfIsSector DEF ToWrite, IInv, ThreadAhead, DirtyAhead
<1> QED BY <1>1, DirtyIsToWrite DEF NextSector, SectorsToWrite

LEMMA PrepareKept ==
    ASSUME IInv, Kept, PrepareSector, UNCHANGED fatVars
    PROVE  Kept'
<1>1. sync.pc = "scan" /\ port /\ port' = port /\ sync # NoSync
  BY DEF PrepareSector, NoSync
<1>2. PICK s \in Sector :
          /\ NextSector(s)
          /\ IF NeedsErase(sync.status, s) THEN erase_sector(s) ELSE UNCHANGED chip
          /\ sync' = [sync EXCEPT !.pc = "burn", !.sector = s]
  BY DEF PrepareSector
<1>3. /\ sync \in SyncRec /\ chip \in Memory /\ op.pc = "idle"
      /\ Mirror \in CacheType /\ Mirror.c = contents /\ Mirror.s = sync.status
      /\ sync.image = contents /\ Right(Mirror, chip)
  BY <1>1, ThreadFacts
<1>4. /\ sync'.pc = "burn" /\ sync'.sector = s /\ sync'.status = sync.status
      /\ sync'.image = sync.image /\ sync' # NoSync /\ sync'.ahead = sync.ahead
      /\ op' = op /\ contents' = contents /\ cache_status' = cache_status
  BY <1>2, <1>3 DEF SyncRec, NoSync, fatVars
<1>5. ToWrite(Mirror.s, s) /\ s \in Sector
  BY <1>1, <1>2, <1>3, NextIsFirst
<1>6. /\ Right(Mirror, chip')
      /\ Erasing(Mirror.s) => \A x \in Cell : InSector(x, s) => chip'[x] = ERASED
  <2>1. CASE Erasing(Mirror.s)
    <3>1. DeleteRight(Mirror, chip)
      BY <1>3, <2>1 DEF Right
    <3>2. NeedsErase(Mirror.s, s)
      BY <1>5, <3>1, EraseIsTold DEF DeleteRight
    <3>3. chip' = Erased(chip, s)
      BY <1>2, <1>3, <3>2 DEF erase_sector
    <3>4. DeleteRight(Mirror, chip') /\ \A x \in Cell : InSector(x, s) => chip'[x] = ERASED
      BY <1>5, <3>1, <3>3, SectorErased
    <3> QED BY <2>1, <3>4 DEF Right
  <2>2. CASE ~Erasing(Mirror.s)
    <3>1. ~NeedsErase(Mirror.s, s)
      BY <1>5, <2>2, EraseIsTold
    <3>2. chip' = chip
      BY <1>2, <1>3, <3>1
    <3> QED BY <1>3, <2>2, <3>2
  <2> QED BY <2>1, <2>2
<1>7. NextSector(sync.sector)'
  BY <1>2, <1>4 DEF NextSector, SectorsToWrite
<1>8. ThreadAlone'
  <2>1. \A p \in Page : sync.status[p] \in {cache_status[p], CACHE_SYNCED}
    BY <1>1 DEF Kept, ThreadAlone
  <2> QED BY <1>1, <1>3, <1>4, <1>6, <1>7, <2>1 DEF ThreadAlone, InSector
<1>9. Mirror = [c |-> contents', s |-> sync'.status]
  BY <1>1, <1>4, MirrorIs
<1> QED BY <1>3, <1>4, <1>6, <1>8, <1>9, ThreadKept

\* The sector chosen, burnt.
LEMMA BurntRight ==
    ASSUME IInv, Kept, sync.pc = "burn", NEW n \in CacheType,
           IsSynced(Mirror, sync.sector, n), NEW new,
           new = Burnt(chip, sync.sector, sync.image)
    PROVE  Right(n, new)
<1>1. sync # NoSync
  BY DEF NoSync
<1>2. /\ sync \in SyncRec /\ chip \in Memory
      /\ Mirror \in CacheType /\ Mirror.c = contents /\ Mirror.s = sync.status
      /\ sync.image = contents /\ Right(Mirror, chip) /\ LoadedPages(Mirror.s)
  BY <1>1, ThreadFacts
<1> DEFINE s == sync.sector
           m == Mirror
<1>3. NextSector(s) /\ (Erasing(m.s) => \A x \in Cell : InSector(x, s) => chip[x] = ERASED)
  BY <1>1, <1>2 DEF Kept, ThreadAlone
<1>4. /\ ToWrite(m.s, s)
      /\ \A t : ToWrite(m.s, t) => t = s \/ SectorBefore(s, t)
  BY <1>1, <1>2, <1>3, NextIsFirst
<1>5. new = Burnt(chip, s, m.c) /\ new \in Memory
  BY <1>2, BurntType DEF CacheType
<1>6. /\ m \in CacheType /\ Right(m, chip) /\ LoadedPages(m.s)
      /\ IsSynced(m, s, n)
  BY <1>2
<1> HIDE DEF s, m
<1>7. CASE Erasing(m.s)
  <2>1. DeleteRight(m, chip)
    BY <1>6, <1>7 DEF Right
  <2> QED BY <1>2, <1>3, <1>4, <1>5, <1>6, <1>7, <2>1, BurntDelete
<1>8. CASE ~Erasing(m.s)
  <2>1. AddRight(m, chip)
    BY <1>6, <1>8 DEF Right
  <2>2. AddRight(n, new) /\ ~Erasing(n.s)
    BY <1>2, <1>4, <1>5, <1>6, <1>8, <2>1, BurntAdd
  <2> QED BY <2>2 DEF Right
<1> QED BY <1>7, <1>8

LEMMA BurnKept ==
    ASSUME IInv, Kept, BurnSector, UNCHANGED fatVars
    PROVE  Kept'
<1>1. sync.pc = "burn" /\ port /\ port' = port /\ sync # NoSync
  BY DEF BurnSector, NoSync
<1>2. /\ sync \in SyncRec /\ chip \in Memory /\ op.pc = "idle"
      /\ Mirror \in CacheType /\ Mirror.c = contents /\ Mirror.s = sync.status
      /\ sync.image = contents /\ LoadedPages(Mirror.s)
  BY <1>1, ThreadFacts
<1> DEFINE st == Synced(sync.status, sync.sector)
           n == [c |-> contents, s |-> st]
<1>3. /\ sync'.pc = "scan" /\ sync'.status = st /\ sync'.image = sync.image
      /\ sync' # NoSync
      /\ op' = op /\ contents' = contents /\ cache_status' = cache_status
  BY <1>2 DEF BurnSector, SyncRec, NoSync, fatVars
<1>4. \A p \in Page : st[p] = IF SectorOf[p] = sync.sector THEN CACHE_SYNCED
                              ELSE sync.status[p]
  BY DEF Synced
<1>5. st \in [Page -> Status]
  BY <1>2, SyncedLoads DEF CacheType
<1> HIDE DEF st
<1>6. n \in CacheType
  BY <1>2, <1>5, CacheTypeParts DEF CacheType
<1>7. IsSynced(Mirror, sync.sector, n)
  BY <1>2, <1>4 DEF IsSynced
<1>8. Right(n, chip')
  <2>1. chip' = Burnt(chip, sync.sector, sync.image)
    BY DEF BurnSector, burn_sector
  <2> HIDE DEF n
  <2> QED BY <1>1, <1>6, <1>7, <2>1, BurntRight
<1>9. ThreadAlone'
  <2>1. \A p \in Page : sync.status[p] \in {cache_status[p], CACHE_SYNCED}
    BY <1>1 DEF Kept, ThreadAlone
  <2>2. \A p \in Page : sync'.status[p] \in {cache_status'[p], CACHE_SYNCED}
    BY <1>3, <1>4, <2>1
  <2> QED BY <1>1, <1>2, <1>3, <2>2 DEF ThreadAlone
<1>10. n = [c |-> contents', s |-> sync'.status]
  BY <1>3
<1> HIDE DEF n
<1> QED BY <1>2, <1>3, <1>8, <1>9, <1>10, ThreadKept

LEMMA FinishKept ==
    ASSUME IInv, Kept, FinishSync, UNCHANGED fatVars
    PROVE  Kept'
<1>1. sync.pc = "scan" /\ chip' = chip /\ sync # NoSync
  BY DEF FinishSync, NoSync
<1>2. sync \in SyncRec /\ op.pc = "idle" /\ Right(Mirror, chip)
  BY <1>1, ThreadFacts
<1>3. /\ sync'.pc = "done" /\ sync'.status = sync.status /\ sync'.image = sync.image
      /\ sync' # NoSync
      /\ op' = op /\ contents' = contents /\ cache_status' = cache_status
  BY <1>2 DEF FinishSync, SyncRec, NoSync, fatVars
<1>4. ThreadAlone'
  BY <1>1, <1>3 DEF Kept, ThreadAlone
<1>5. Mirror = [c |-> contents', s |-> sync'.status]
  BY <1>1, <1>3, MirrorIs
<1>6. Right(Mirror, chip')
  BY <1>1, <1>2
<1> QED BY <1>2, <1>3, <1>4, <1>5, <1>6, ThreadKept

-----------------------------------------------------------------------------
(***************************************************************************)
(* The ends of the process that no one asked for.                          *)
(***************************************************************************)
LEMMA GoneKept ==
    ASSUME ProcessGone, FreeIn(chip')
    PROVE  Kept'
<1>1. Right(Fresh, chip') /\ Fresh \in CacheType /\ SetCache(Fresh)
  BY FreshRight, FreshType DEF ProcessGone, SetCache
<1>2. op'.pc = "off" /\ sync' = NoSync
  BY DEF ProcessGone, At
<1> QED BY <1>1, <1>2, RestKept

LEMMA NotifyKept ==
    ASSUME IInv, Kept, notify
    PROVE  Kept'
<1>1. op.pc = "throw" /\ Dies /\ ProcessGone
  BY DEF notify, Dies
<1>2. sync = NoSync
  BY <1>1 DEF Kept, ThreadAlone
<1>3. UNCHANGED chip
  BY <1>1, <1>2 DEF Dies, NoSync
<1>4. Alone
  BY <1>2 DEF Alone
<1>5. Right(Cache, chip) /\ ~Erasing(Cache.s)
  BY <1>1, <1>4, AloneFacts DEF Kept, Acting
<1>6. FreeIn(chip')
  BY <1>3, <1>5, RightFree
<1> QED BY <1>1, <1>6, GoneKept

LEMMA PortNotLost ==
    ASSUME IInv, Kept
    PROVE  ~PortLost
<1> SUFFICES ASSUME PortLost PROVE FALSE
  OBVIOUS
<1>1. sync # NoSync /\ sync.pc \in {"scan", "burn"} /\ ~port
  BY DEF PortLost, NoSync
<1> QED BY <1>1 DEF Kept, ThreadAlone

\* A burn is rejected over cells that were not erased: only an add burns
\* such cells, and what it leaves is as it was to be.
LEMMA RejectedKept ==
    ASSUME IInv, Kept, BurnRejected
    PROVE  Kept'
<1>1. sync.pc = "burn" /\ sync # NoSync /\ ProcessGone
      /\ chip' = Burnt(chip, sync.sector, sync.image)
  BY DEF BurnRejected, NoSync
<1>2. /\ sync \in SyncRec /\ chip \in Memory
      /\ Mirror \in CacheType /\ Mirror.c = contents /\ Mirror.s = sync.status
      /\ sync.image = contents /\ Right(Mirror, chip) /\ LoadedPages(Mirror.s)
  BY <1>1, ThreadFacts
<1>3. ~Erasing(sync.status)
  <2> SUFFICES ASSUME Erasing(sync.status) PROVE FALSE
    OBVIOUS
  <2>1. \A x \in Cell : InSector(x, sync.sector) => chip[x] = ERASED
    BY <1>1 DEF Kept, ThreadAlone
  <2>2. PICK x \in Cell : /\ InSector(x, sync.sector)
                          /\ Burnt(chip, sync.sector, sync.image)[x] # sync.image[x]
    BY DEF BurnRejected
  <2>3. sync.image[x] \in Word
    BY <1>2, MemoryValue DEF SyncRec
  <2> QED BY <2>1, <2>2, <2>3, WordAssumption DEF Burnt
<1> DEFINE n == [c |-> contents, s |-> Synced(sync.status, sync.sector)]
<1>4. IsSynced(Mirror, sync.sector, n)
  BY <1>2 DEF IsSynced, Synced
<1> HIDE DEF n
<1>5. NextSector(sync.sector)
  BY <1>1 DEF Kept, ThreadAlone
<1>6. /\ ToWrite(Mirror.s, sync.sector)
      /\ \A t : ToWrite(Mirror.s, t) => t = sync.sector \/ SectorBefore(sync.sector, t)
  BY <1>1, <1>2, <1>5, NextIsFirst
<1>7. AddRight(Mirror, chip) /\ ~Erasing(Mirror.s)
  BY <1>2, <1>3, RightFree
<1>8. chip' = Burnt(chip, sync.sector, Mirror.c)
  BY <1>1, <1>2
<1>9. AddRight(n, chip')
  BY <1>2, <1>4, <1>6, <1>7, <1>8, BurntAdd
<1> QED BY <1>1, <1>9, GoneKept DEF AddRight

-----------------------------------------------------------------------------
(***************************************************************************)
(* Every step.                                                             *)
(***************************************************************************)
LEMMA GuiKept ==
    ASSUME IInv, Kept, Gui
    PROVE  Kept'
<1>1. op.pc # "idle" /\ UNCHANGED sync
  BY DEF Gui, FormatErase, FormatBurn, IndexFormatted, AccessFormatted, LinkStep,
         FinishGet, AddBlock, DeleteEntry, WipeBlock, CheckFile, Linked
<1>2. Alone
  BY <1>1 DEF Alone, Kept, ThreadAlone
<1>3. CASE FormatErase
  BY <1>1, <1>2, <1>3, FormatEraseKept
<1>4. CASE FormatBurn
  BY <1>1, <1>2, <1>4, FormatBurnKept
<1>5. CASE IndexFormatted
  BY <1>1, <1>2, <1>5, IndexFormattedKept
<1>6. CASE AccessFormatted
  BY <1>1, <1>2, <1>6, AccessKept DEF AccessFormatted
<1>7. CASE LinkStep
  BY <1>1, <1>2, <1>7, LinkStepKept
<1>8. CASE FinishGet
  BY <1>1, <1>2, <1>8, FinishGetKept
<1>9. CASE AddBlock
  BY <1>1, <1>2, <1>9, AddBlockKept
<1>10. CASE DeleteEntry
  BY <1>1, <1>2, <1>10, DeleteEntryKept
<1>11. CASE WipeBlock
  BY <1>1, <1>2, <1>11, WipeBlockKept
<1>12. CASE CheckFile
  BY <1>1, <1>2, <1>12, CheckFileKept
<1> QED BY <1>3, <1>4, <1>5, <1>6, <1>7, <1>8, <1>9, <1>10, <1>11, <1>12 DEF Gui

LEMMA UserKept ==
    ASSUME IInv, Kept, User, ~UseMenuInSync
    PROVE  Kept'
<1>1. sync.pc = "none" /\ UNCHANGED sync
  BY DEF User, ButtonsEnabled
<1>2. Alone
  BY <1>1, SyncCases DEF Alone, IInv, TypeOK
<1>3. CASE slot_access_fat
  BY <1>1, <1>2, <1>3, AccessKept DEF slot_access_fat
<1>4. CASE DeclineFormat
  BY <1>1, <1>2, <1>4, DeclineKept
<1>5. CASE AcceptFormat \/ slot_format_rom
  <2>1. PICK again \in BOOLEAN : StartFormat(again)
    BY <1>5 DEF AcceptFormat, slot_format_rom
  <2> QED BY <1>1, <1>2, <2>1, StartFormatKept
<1>6. CASE CloseAlarm \/ AddRagged
  BY <1>1, <1>2, <1>6, SmallStepKept
<1>7. CASE \E l \in Locs : slot_select_file(l) \/ slot_save(l)
  <2>1. PICK l \in Locs : slot_select_file(l) \/ slot_save(l)
    BY <1>7
  <2>2. PICK goal \in {"open", "save"} : StartGet(goal, l)
    BY <2>1 DEF slot_select_file, slot_save
  <2> QED BY <1>1, <1>2, <2>2, StartGetKept
<1>8. CASE \E p \in Programs : slot_add_program(p)
  BY <1>1, <1>2, <1>8, AddProgramKept
<1>9. CASE \E l \in DOMAIN files : MayDelete(l) /\ DeleteButton(l)
  BY <1>1, <1>2, <1>9, DeleteButtonKept
<1> QED BY <1>3, <1>4, <1>5, <1>6, <1>7, <1>8, <1>9 DEF User

LEMMA ThreadStepKept ==
    ASSUME IInv, Kept, Thread
    PROVE  Kept'
BY PrepareKept, BurnKept, FinishKept DEF Thread

LEMMA StutterKept ==
    ASSUME Kept, UNCHANGED vars
    PROVE  Kept'
<1>1. UNCHANGED <<chip, port, contents, cache_status, op, sync>>
  BY DEF vars
<1>2. Mirror' = Mirror
  BY <1>1 DEF Mirror, Pending
<1>3. ThreadAlone'
  BY <1>1 DEF Kept, ThreadAlone, NextSector, SectorsToWrite
<1>4. Acting'
  BY <1>1 DEF Kept, Acting
<1>5. FormatProgress'
  BY <1>1 DEF Kept, FormatProgress
<1> QED BY <1>1, <1>2, <1>3, <1>4, <1>5 DEF Kept

LEMMA NextKept ==
    ASSUME IInv, Kept, [Next]_vars, crashes' = 0, ~UseMenuInSync
    PROVE  Kept'
<1>1. CASE User
  BY <1>1, UserKept
<1>2. CASE Gui
  BY <1>2, GuiKept
<1>3. CASE slot_start_sync
  BY <1>3, StartSyncKept
<1>4. CASE slot_sync_complete
  BY <1>4, SyncCompleteKept
<1>5. CASE Thread
  BY <1>5, ThreadStepKept
<1>6. CASE notify
  BY <1>6, NotifyKept
<1>7. CASE ThreadDies
  BY <1>7, PortNotLost DEF ThreadDies
<1>8. CASE Crash
  <2>1. crashes \in Nat /\ crashes' = crashes + 1
    BY <1>8 DEF Crash, IInv, TypeOK
  <2> QED BY <2>1
<1>9. CASE BurnRejected
  BY <1>9, RejectedKept
<1>10. CASE UNCHANGED vars
  BY <1>10, StutterKept
<1> QED BY <1>1, <1>2, <1>3, <1>4, <1>5, <1>6, <1>7, <1>8, <1>9, <1>10 DEF Next

\* No step lowers the count of crashes.
LEMMA CrashesGrow ==
    ASSUME IInv, [Next]_vars, crashes' = 0
    PROVE  crashes = 0
<1>1. crashes' = crashes \/ crashes' = crashes + 1
  BY DEF Next, User, Gui, slot_start_sync, slot_sync_complete, Thread, notify,
         ThreadDies, Crash, BurnRejected, vars
<1>2. crashes \in Nat
  BY DEF IInv, TypeOK
<1> QED BY <1>1, <1>2

LEMMA NextCacheInv == CacheInv /\ [Next]_vars => CacheInv'
<1> SUFFICES ASSUME CacheInv, [Next]_vars PROVE CacheInv'
  OBVIOUS
<1>1. IInv /\ IInv'
  BY NextIInv DEF CacheInv
<1>2. ASSUME crashes' = 0, ~UseMenuInSync PROVE Kept'
  <2>1. Kept
    BY <1>1, <1>2, CrashesGrow DEF CacheInv
  <2> QED BY <1>1, <1>2, <2>1, NextKept
<1> QED BY <1>1, <1>2 DEF CacheInv

LEMMA InitCacheInv == Init => CacheInv
<1> SUFFICES ASSUME Init PROVE CacheInv
  OBVIOUS
<1>1. FreeIn(chip)
  BY BlankCases DEF Init, FreeIn, Blank
<1>2. /\ op.pc = "off" /\ sync = NoSync
      /\ contents = Fresh.c /\ cache_status = Fresh.s
  BY DEF Init, FatInit, SyncInit
<1>3. Mirror = [c |-> Fresh.c, s |-> Fresh.s]
  BY <1>2 DEF Mirror, Pending
<1>4. Mirror = Fresh
  BY <1>3 DEF Fresh
<1>5. Right(Mirror, chip)
  BY <1>1, <1>4, FreshRight
<1>6. ThreadAlone /\ Acting /\ FormatProgress
  BY <1>2 DEF ThreadAlone, Acting, FormatProgress
<1> QED BY <1>5, <1>6, InitIInv DEF CacheInv, Kept

\* What the invariant says of a cell in the GUI's cache, sync or no sync.
LEMMA KeptInStep ==
    ASSUME IInv, Kept, op.pc # "format", NEW x \in Tracked
    PROVE  InStep(x)
<1> DEFINE p == PageOf[x]
           s == SectorOf[p]
<1>1. p \in Page /\ s \in Sector
  BY TrackedCells, PageOfCell
<1>2. DirtyPages(cache_status, s) # {} <=> ToWrite(cache_status, s)
  BY <1>1, DirtyIsToWrite DEF DirtySectors
<1> SUFFICES ASSUME cache_status[p] = CACHE_SYNCED, ~ToWrite(cache_status, s)
             PROVE  contents[x] = chip[x]
  BY <1>2 DEF InStep
<1>3. Pending[p] = CACHE_SYNCED /\ ~ToWrite(Pending, s)
  <2>1. CASE sync = NoSync
    BY <2>1 DEF Pending
  <2>2. CASE sync # NoSync
    <3>1. \A q \in Page : sync.status[q] \in {cache_status[q], CACHE_SYNCED}
      BY <2>2 DEF Kept, ThreadAlone
    <3>2. Pending = sync.status
      BY <2>2 DEF Pending
    <3> QED BY <1>1, <3>1, <3>2, StatusFacts DEF ToWrite
  <2> QED BY <2>1, <2>2
<1>4. Right(Mirror, chip) /\ Mirror.c = contents /\ Mirror.s = Pending
  BY DEF Kept, Mirror
<1>5. CASE Erasing(Mirror.s)
  BY <1>3, <1>4, <1>5 DEF Right, DeleteRight, HeldElsewhere
<1>6. CASE ~Erasing(Mirror.s)
  BY <1>3, <1>4, <1>6 DEF Right, AddRight, HeldOrBlank
<1> QED BY <1>5, <1>6

\* The invariant of the cache is inductive: while the menu is left alone in a
\* synchronization and no crash has come between, every read, add, delete,
\* format and burn leaves the cache right about the chip.
THEOREM CacheInvariance == Spec => []CacheInv
<1> QED BY InitCacheInv, NextCacheInv, PTL DEF Spec

\* fileallocationtable.h:79, for preambles and data: read_block, add_file,
\* delete_file and SyncThread::run together never leave a page marked synced
\* that differs from the chip, unless its sector is still to be written.
THEOREM DataStaysCoherent ==
    ASSUME ~UseMenuInSync
    PROVE  Spec => []DataCoherent
<1>1. CacheInv => DataCoherent
  BY KeptInStep, TrackedCells DEF CacheInv, DataCoherent
<1> QED BY <1>1, CacheInvariance, PTL

\* The same for every cell, the descriptors included, when no file of two
\* banks is deleted.
THEOREM CacheStaysCoherent ==
    ASSUME ~UseMenuInSync, ~SpanningDelete
    PROVE  Spec => [](crashes = 0 => Coherent)
<1>1. Tracked = Cell
  BY DEF Tracked
<1>2. CacheInv => (crashes = 0 => Coherent)
  BY <1>1, KeptInStep DEF CacheInv, Coherent
<1> QED BY <1>2, CacheInvariance, PTL
=============================================================================
