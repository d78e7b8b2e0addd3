------------------------ MODULE FileAllocationTable ------------------------
(***************************************************************************)
(* The FileAllocationTable object and the MainWindow slots that call it.   *)
(* All of this runs on the GUI thread: op is that thread's activation,     *)
(* "idle" while it waits in the event loop.  A loop of the code is one     *)
(* action per iteration.  An exception leaves op at "throw".               *)
(***************************************************************************)
EXTENDS RomChip, Functions

VARIABLES
    contents,       \* FileAllocationTable::contents
    cache_status,   \* FileAllocationTable::cache_status
    files,          \* start block -> what is cached of the file
    lastbankblock,  \* MainWindow::lastbankblock
    op              \* activation of the GUI thread

fatVars == <<contents, cache_status, files, lastbankblock, op>>

Cache       == [c |-> contents, s |-> cache_status]
SetCache(m) == contents' = m.c /\ cache_status' = m.s

LastSector == 1 + (NBLOCKS - 1) \div BLOCKS_PER_SECTOR

FileRec == [blocks : Seq(Locs), loaded : BOOLEAN]

\* The activations: one that waits or is about to end, and the loops.
Waiting    == [pc : {"off", "nofat", "ask", "reaccess", "index", "idle", "emit",
                     "alarm", "throw"}]
Formatting == [pc : {"format"}, bank : Bank, sector : 0 .. LastSector + 1,
               again : BOOLEAN]
Linking    == [pc : {"link"}, goal : {"open", "save", "delete", "check"},
               start : Locs, at : Locs \cup {NoLoc}, seen : Seq(Locs)]
Adding     == [pc : {"add"}, prog : Programs, start : Locs, at : Locs, i : Nat]
Wiping     == [pc : {"wipe"}, blocks : Seq(Locs)]
Op == Waiting \cup Formatting \cup Linking \cup Adding \cup Wiping

FatTypeOK ==
    /\ contents \in Memory
    /\ cache_status \in [Page -> Status]
    /\ \E S \in SUBSET Locs : files \in [S -> FileRec]
    /\ lastbankblock \in Locs \cup {NoLoc}
    /\ op \in Op

At(pc)   == op' = [pc |-> pc]
NoFiles  == [l \in {} |-> [blocks |-> <<>>, loaded |-> FALSE]]
Fresh    == [c |-> Zeros, s |-> [p \in Page |-> CACHE_UNKNOWN]]

FatInit ==
    /\ contents = Fresh.c /\ cache_status = Fresh.s
    /\ files = NoFiles
    /\ lastbankblock = NoLoc
    /\ op = [pc |-> "off"]

-----------------------------------------------------------------------------
(***************************************************************************)
(* index_files / read_files.                                               *)
(***************************************************************************)
\* The directory read through cache m, and the metadata sector of each file.
WithDirectory(m) ==
    LET m1 == read_block(m, chip, PrePages)
    IN  read_sector(m1, chip, {MetaSector(BankOf(l)) : l \in Starts(m1.c)})

index_files(m) ==
    /\ SetCache(WithDirectory(m))
    /\ files' = [l \in Starts(WithDirectory(m).c) |->
                    [blocks |-> <<>>, loaded |-> FALSE]]

-----------------------------------------------------------------------------
(***************************************************************************)
(* slot_access_fat, check_fat, format_chip.                                *)
(***************************************************************************)
BadBanks == {b \in Bank : \E k \in Block : chip[FmtCell(Loc(b, k))] # FORMATTED}

\* A new object is checked bank by bank up to the first unformatted one.
Access ==
    LET checked == {b \in Bank : \A b2 \in BadBanks : b <= b2}
        m == read_sector(Fresh, chip, {MetaSector(b) : b \in checked})
    IN  IF BadBanks = {}
        THEN /\ index_files(m)
             /\ At("idle")
        ELSE /\ SetCache(m)
             /\ files' = NoFiles
             /\ At("ask")

slot_access_fat ==
    /\ op.pc \in {"off", "nofat", "idle"}
    /\ Access
    /\ UNCHANGED <<chip, port, lastbankblock>>

\* slot_format_rom ends with a call of slot_access_fat.
AccessFormatted ==
    /\ op.pc = "reaccess"
    /\ Access
    /\ UNCHANGED <<chip, port, lastbankblock>>

DeclineFormat ==
    /\ op.pc = "ask"
    /\ SetCache(Fresh) /\ files' = NoFiles     \* delete fat; fat = nullptr
    /\ At("nofat")
    /\ UNCHANGED <<chip, port, lastbankblock>>

StartFormat(again) ==
    /\ op' = [pc |-> "format", bank |-> 0, sector |-> 0, again |-> again]
    /\ open_port
    /\ UNCHANGED <<chip, contents, cache_status, files, lastbankblock>>

AcceptFormat    == op.pc = "ask" /\ StartFormat(FALSE)
slot_format_rom == op.pc = "idle" /\ StartFormat(TRUE)

FormatErase ==
    /\ op.pc = "format" /\ op.sector <= LastSector
    /\ erase_sector(<<op.bank, op.sector>>)
    /\ op' = [op EXCEPT !.sector = @ + 1]
    /\ UNCHANGED <<port, contents, cache_status, files, lastbankblock>>

FormatBurn ==
    /\ op.pc = "format" /\ op.sector > LastSector
    /\ burn_sector(MetaSector(op.bank), [x \in Cell |-> FormatImage(x)])
    /\ IF op.bank + 1 \in Bank
       THEN /\ op' = [op EXCEPT !.bank = @ + 1, !.sector = 0]
            /\ UNCHANGED <<port, contents, cache_status>>
       ELSE /\ At(IF op.again THEN "reaccess" ELSE "index")
            /\ close_port
            /\ SetCache(update_cache_status(Cache, Page, CACHE_UNKNOWN))
    /\ UNCHANGED <<files, lastbankblock>>

IndexFormatted ==
    /\ op.pc = "index"
    /\ index_files(Cache)
    /\ At("idle")
    /\ UNCHANGED <<chip, port, lastbankblock>>

-----------------------------------------------------------------------------
(***************************************************************************)
(* build_linked_list and build_linked_list_bankblock: one descriptor per   *)
(* step.  A file whose blocks are cached is not walked again.              *)
(***************************************************************************)
StartLink(goal, l, cached) ==
    /\ op' = [pc |-> "link", goal |-> goal, start |-> l,
              at |-> IF cached = <<>> THEN l ELSE NoLoc, seen |-> cached]
    /\ open_port

\* check_port_open throws once a thread that has ended has closed the port.
LinkStep ==
    /\ op.pc = "link" /\ op.at # NoLoc
    /\ IF Len(op.seen) >= MAX_LINKS \/ ~port
       THEN /\ At("throw")
            /\ UNCHANGED <<contents, cache_status>>
       ELSE LET m == read_block(Cache, chip, {MetaPage(op.at)})
            IN  /\ SetCache(m)
                /\ op' = [op EXCEPT !.seen = Append(@, op.at),
                                    !.at = m.c[NextCell(op.at)]]
    /\ UNCHANGED <<chip, port, files, lastbankblock>>

Linked(goal) == op.pc = "link" /\ op.at = NoLoc /\ op.goal = goal

\* get_file, for the Open button, File > Save and Tools > Run.
StartGet(goal, l) ==
    /\ op.pc = "idle" /\ l \in DOMAIN files
    /\ StartLink(goal, l, files[l].blocks)
    /\ UNCHANGED <<chip, contents, cache_status, files, lastbankblock>>

slot_select_file(l) == StartGet("open", l)
slot_save(l)        == StartGet("save", l)

\* attach_filedata; create_cas_file then reads the descriptors once more.
FinishGet ==
    /\ Linked("open") \/ Linked("save")
    /\ IF port
       THEN /\ LET data == IF files[op.start].loaded THEN {}
                           ELSE {DataPage(l) : l \in Range(op.seen)}
                   meta == IF op.goal = "open" THEN {}
                           ELSE {MetaPage(l) : l \in Range(op.seen)}
               IN  SetCache(read_block(Cache, chip, data \cup meta))
            /\ files' = [files EXCEPT ![op.start] =
                            [blocks |-> op.seen, loaded |-> TRUE]]
            /\ At("idle")
       ELSE /\ At("throw")
            /\ UNCHANGED <<contents, cache_status, files>>
    /\ close_port
    /\ UNCHANGED <<chip, lastbankblock>>

-----------------------------------------------------------------------------
(***************************************************************************)
(* add_file.                                                               *)
(***************************************************************************)
NrBlocks(prog) == Len(prog) % 256                 \* uint8_t nrblocks

\* The first block is sought, and entered in the preamble of its bank.
slot_add_program(prog) ==
    /\ op.pc = "idle"
    /\ IF FreeBlocks(Cache, chip) = {}
       THEN /\ SetCache(ScannedAll(Cache, chip))
            /\ At("throw")
            /\ open_port
            /\ UNCHANGED lastbankblock
       ELSE \E l \in FreeBlocks(Cache, chip), i \in Slot :
            LET m == ScannedTo(Cache, chip, l)
                b == BankOf(l)
            IN  /\ IsFirst(l, FreeBlocks(Cache, chip))
                /\ m.c[PreCell(b, i)] = ERASED
                /\ \A j \in 0 .. i - 1 : m.c[PreCell(b, j)] # ERASED
                /\ IF NrBlocks(prog) = 0
                   THEN /\ SetCache(m)
                        /\ At("emit")
                        /\ lastbankblock' = l
                        /\ close_port
                   ELSE /\ SetCache(update_cache_status(
                                Put(m, [x \in {PreCell(b, i)} |-> BlockOf(l)]),
                                {PrePage(b)}, CACHE_WRITE_NONERASE))
                        /\ op' = [pc |-> "add", prog |-> prog, start |-> l,
                                  at |-> l, i |-> 0]
                        /\ open_port
                        /\ UNCHANGED lastbankblock
    /\ UNCHANGED <<chip, files>>

\* A CAS file cut short within a block is refused, by an exception.
AddRagged ==
    /\ op.pc = "idle"
    /\ At("throw")
    /\ open_port
    /\ UNCHANGED <<chip, contents, cache_status, files, lastbankblock>>

\* Mutant: the used marker and the block numbers change places.
DescriptorSwapped(m, prog, i, l) ==
    update_cache_status(
        Put(m, [x \in {UsedCell(l), HdrCell(l)} |->
                   IF x = HdrCell(l) THEN USED ELSE Header(prog, i)]),
        {MetaPage(l)}, CACHE_WRITE_NONERASE)

\* Mutant: the page of the descriptor is not marked.
DescriptorUnmarked(m, prog, i, l) ==
    Put(m, [x \in {UsedCell(l), HdrCell(l)} |->
               IF x = UsedCell(l) THEN USED ELSE Header(prog, i)])

\* The descriptor of block i of prog at l is filled in and marked.
DescriptorWritten(m, prog, i, l) ==
    update_cache_status(
        Put(m, [x \in {UsedCell(l), HdrCell(l)} |->
                   IF x = UsedCell(l) THEN USED ELSE Header(prog, i)]),
        {MetaPage(l)}, CACHE_WRITE_NONERASE)

\* Mutant: the checksum is taken before the data is copied.
ChecksumTooEarly(m, word, l) ==
    update_cache_status(
        Put(read_sector(m, chip, {SectorOf[DataPage(l)]}),
            [x \in {DataCell(l), CrcCell(l)} |->
                IF x = DataCell(l) THEN word ELSE Crc16(m.c[DataCell(l)])]),
        {DataPage(l)}, CACHE_WRITE_NONERASE)

\* The data and its checksum, once the sector of the data is in the cache.
DataWritten(m, word, l) ==
    update_cache_status(
        Put(read_sector(m, chip, {SectorOf[DataPage(l)]}),
            [x \in {DataCell(l), CrcCell(l)} |->
                IF x = DataCell(l) THEN word ELSE Crc16(word)]),
        {DataPage(l)}, CACHE_WRITE_NONERASE)

BlockWritten(m, prog, i, l) ==
    DataWritten(DescriptorWritten(m, prog, i, l), prog[i + 1], l)

\* find_next_free_block runs after the last block too.
AddBlock ==
    /\ op.pc = "add"
    /\ LET m == BlockWritten(Cache, op.prog, op.i, op.at)
           last == op.i = NrBlocks(op.prog) - 1
       IN  IF FreeBlocks(m, chip) = {}
           THEN /\ SetCache(ScannedAll(m, chip))
                /\ At("throw")
                /\ UNCHANGED <<port, lastbankblock>>
           ELSE \E nxt \in FreeBlocks(m, chip) :
                LET m1 == ScannedTo(m, chip, nxt)
                IN  /\ IsFirst(nxt, FreeBlocks(m, chip))
                    /\ IF last
                       THEN /\ SetCache(m1)
                            /\ At("emit")
                            /\ lastbankblock' = op.start
                            /\ close_port
                       ELSE /\ SetCache(Put(m1, [x \in {NextCell(op.at)} |-> nxt]))
                            /\ op' = [op EXCEPT !.i = @ + 1, !.at = nxt]
                            /\ UNCHANGED <<lastbankblock, port>>
    /\ UNCHANGED <<chip, files>>

-----------------------------------------------------------------------------
(***************************************************************************)
(* delete_file.                                                            *)
(***************************************************************************)
DeleteButton(l) ==
    /\ op.pc = "idle" /\ l \in DOMAIN files
    /\ StartLink("delete", l, files[l].blocks)
    /\ UNCHANGED <<chip, contents, cache_status, files, lastbankblock>>

\* Mutant: the entries after the deleted one are lost.
PreambleUpTo(mem, b, k) ==
    [x \in {"pre"} \X {b} \X Slot |->
        IF \E j \in 0 .. x[3] : Listed(mem, b, j) /\ mem[PreCell(b, j)] = k
        THEN ERASED ELSE mem[x]]

\* The preamble of bank b without block k: the entries kept move up, and two
\* 0xFF follow them.
PreambleWithout(mem, b, k) ==
    LET kept    == {i \in Slot : Listed(mem, b, i) /\ mem[PreCell(b, i)] # k}
        rank(i) == Cardinality({j \in kept : j < i})
    IN  [x \in {"pre"} \X {b} \X Slot |->
            IF \E i \in kept : rank(i) = x[3]
            THEN mem[PreCell(b, CHOOSE i \in kept : rank(i) = x[3])]
            ELSE IF x[3] < Cardinality(kept) + 2 THEN ERASED ELSE mem[x]]

DeleteEntry ==
    /\ Linked("delete")
    /\ LET b == BankOf(op.seen[1])
           m == read_sector(Cache, chip, {MetaSector(b)})
       IN  SetCache(update_cache_status(
               Put(m, PreambleWithout(m.c, b, BlockOf(op.seen[1]))),
               {PrePage(b)}, CACHE_WRITE_ERASE))
    /\ files' = [files EXCEPT ![op.start].blocks = op.seen]
    /\ op' = [pc |-> "wipe", blocks |-> op.seen]
    /\ UNCHANGED <<chip, port, lastbankblock>>

\* The descriptor is wiped in contents; only the data pages are marked.
WipeBlock ==
    /\ op.pc = "wipe"
    /\ LET l == op.blocks[1]
           meta == [x \in {FmtCell(l), NextCell(l), CrcCell(l), UsedCell(l),
                           HdrCell(l)} |-> FormatImage(x)]
           data == [x \in {DataCell(l)} |-> ERASED]
           m == read_sector(Put(Cache, meta), chip, {SectorOf[DataPage(l)]})
       IN  SetCache(update_cache_status(Put(m, data), {DataPage(l)},
                                        CACHE_WRITE_ERASE))
    /\ IF Len(op.blocks) = 1
       THEN /\ At("emit")
            /\ close_port
       ELSE /\ op' = [op EXCEPT !.blocks = Tail(@)]
            /\ UNCHANGED port
    /\ UNCHANGED <<chip, files, lastbankblock>>

-----------------------------------------------------------------------------
(***************************************************************************)
(* check_file, and the end of slot_sync_complete that reports its result.  *)
(***************************************************************************)
\* The page read for the stored checksum: the byte address over 100, decimal.
StrayNumber(l) == (65536 * BankOf(l) + 64 * BlockOf(l) + 256) \div 100
OutOfCache(l)  == StrayNumber(l) >= 256 * NBANKS
\* The page of this chip that has that number, if it is modelled.
StrayPages(l) ==
    LET b == StrayNumber(l) \div 256
        r == StrayNumber(l) % 256
    IN  {CASE r = 0  -> PrePage(b)
           [] r < 16 -> <<"meta", b, r - 1>>
           [] OTHER  -> <<"data", b, (r - 16) \div 4>>} \cap Page

\* Mutant: check_file believes the cache.
ReadCached(m, P) == read_block(m, chip, P)

\* The data pages P are read from the chip whatever the cache knows.
ReadAnew(m, P) ==
    read_block(update_cache_status(m, P, CACHE_UNKNOWN), chip, P)

CheckFile ==
    /\ Linked("check")
    /\ LET blocks == Range(op.seen)
           m == ReadAnew(Cache, {DataPage(l) : l \in blocks})
           wrong == {l \in blocks : m.c[CrcCell(l)] # Crc16(m.c[DataCell(l)])}
       IN  \/ /\ SetCache(read_block(m, chip, UNION {StrayPages(l) : l \in blocks}))
              /\ At(IF wrong = {} THEN "idle" ELSE "alarm")
              /\ lastbankblock' = NoLoc
              /\ close_port
           \* cache_status is indexed out of bounds: the process may die
           \/ /\ \E l \in blocks : OutOfCache(l)
              /\ At("throw")
              /\ UNCHANGED <<contents, cache_status, lastbankblock, port>>
    /\ UNCHANGED <<chip, files>>

\* The modal "blocks were not flashed correctly" window is closed.
CloseAlarm ==
    /\ op.pc = "alarm"
    /\ At("idle")
    /\ UNCHANGED <<chip, port, contents, cache_status, files, lastbankblock>>
=============================================================================
