---------------------------- MODULE TapeMonitor ----------------------------
(***************************************************************************)
(* The whole program at work on one chip: the GUI thread, the              *)
(* synchronization thread it starts, and the ways the process ends.        *)
(***************************************************************************)
EXTENDS FileAllocationTable, SyncThread

CONSTANTS
    MaxCrashes,        \* bound on deaths of the process from outside
    SpanningDelete,    \* may the user delete a file that lies in two banks?
    UseMenuInSync      \* may the user pick File > Save during a sync?

ASSUME UseAssumption == /\ MaxCrashes \in Nat
                        /\ SpanningDelete \in BOOLEAN
                        /\ UseMenuInSync \in BOOLEAN

VARIABLE crashes       \* deaths so far

vars == <<chip, port, contents, cache_status, files, lastbankblock, op, sync,
          crashes>>

TypeOK == /\ chip \in Memory
          /\ port \in BOOLEAN
          /\ FatTypeOK
          /\ SyncTypeOK
          /\ crashes \in 0 .. MaxCrashes

Init == /\ chip = Blank
        /\ port = FALSE
        /\ FatInit
        /\ SyncInit
        /\ crashes = 0

Quiet == op.pc = "idle" /\ sync.pc = "none"

-----------------------------------------------------------------------------
(***************************************************************************)
(* The user.  disable_all_buttons leaves only the menu to use in a sync.   *)
(***************************************************************************)
ButtonsEnabled == sync.pc = "none"

Spans(l) == \E k \in Range(files[l].blocks) : BankOf(k) # BankOf(l)
\* A user who avoids spanning files opens a file before he deletes it.
MayDelete(l) == SpanningDelete \/ (files[l].blocks # <<>> /\ ~Spans(l))

User ==
    /\ \/ /\ ButtonsEnabled
          /\ \/ slot_access_fat
             \/ DeclineFormat
             \/ AcceptFormat
             \/ CloseAlarm
             \/ slot_format_rom
             \/ \E l \in Locs : slot_select_file(l)
             \/ \E p \in Programs : slot_add_program(p)
             \/ AddRagged
             \/ \E l \in DOMAIN files : MayDelete(l) /\ DeleteButton(l)
       \/ /\ ButtonsEnabled \/ UseMenuInSync
          /\ \E l \in Locs : slot_save(l)
    /\ UNCHANGED <<sync, crashes>>

\* The rest of a slot once the user has started it.
Gui ==
    /\ \/ FormatErase
       \/ FormatBurn
       \/ IndexFormatted
       \/ AccessFormatted
       \/ LinkStep
       \/ FinishGet
       \/ AddBlock
       \/ DeleteEntry
       \/ WipeBlock
       \/ CheckFile
    /\ UNCHANGED <<sync, crashes>>

-----------------------------------------------------------------------------
(***************************************************************************)
(* The synchronization.                                                    *)
(***************************************************************************)
slot_start_sync ==
    /\ op.pc = "emit"
    /\ StartSync(Cache)
    /\ At("idle")
    /\ UNCHANGED <<chip, contents, cache_status, files, lastbankblock, crashes>>

\* Mutant: the GUI keeps its own statuses.
CacheKept == Cache

CacheAfterSync == [c |-> contents, s |-> sync.status]

\* The queued sync_complete: the thread's statuses replace the GUI's, the
\* directory is read again and a file just added is checked.
slot_sync_complete ==
    /\ op.pc = "idle" /\ sync.pc = "done"
    /\ index_files(CacheAfterSync)
    /\ sync' = NoSync
    /\ IF lastbankblock # NoLoc
       THEN StartLink("check", lastbankblock, <<>>)
       ELSE At("idle") /\ UNCHANGED port
    /\ UNCHANGED <<chip, lastbankblock, crashes>>

Thread ==
    /\ PrepareSector \/ BurnSector \/ FinishSync
    /\ UNCHANGED <<fatVars, crashes>>

-----------------------------------------------------------------------------
(***************************************************************************)
(* The end of the process.  All it held is lost; a sector being burnt may  *)
(* be left half written.                                                   *)
(***************************************************************************)
ProcessGone ==
    /\ contents' = Fresh.c /\ cache_status' = Fresh.s
    /\ files' = NoFiles
    /\ lastbankblock' = NoLoc
    /\ At("off")
    /\ sync' = NoSync
    /\ port' = FALSE

HalfBurnt(s, image) ==
    \E n \in {CellIndex(x) : x \in {x \in Cell : InSector(x, s)}} :
        chip' = PartlyBurnt(chip, s, image, n)

Dies ==
    /\ ProcessGone
    /\ \/ UNCHANGED chip
       \/ sync.pc = "burn" /\ HalfBurnt(sync.sector, sync.image)
       \/ /\ op.pc = "format" /\ op.sector > LastSector
          /\ HalfBurnt(MetaSector(op.bank), [x \in Cell |-> FormatImage(x)])

\* FATFlasherGUI::notify rethrows what a slot has thrown.
notify == op.pc = "throw" /\ Dies /\ UNCHANGED crashes

\* The thread dereferences a port that is gone.
ThreadDies == PortLost /\ Dies /\ UNCHANGED crashes

\* The user quits, the process is killed or the cable is pulled.
Crash == /\ crashes < MaxCrashes
         /\ op.pc # "off"
         /\ Dies
         /\ crashes' = crashes + 1

\* A burn whose result differs from what was sent may be reported by its
\* checksum, and the exception ends the process.
BurnRejected ==
    /\ sync.pc = "burn" /\ port
    /\ \E x \in Cell : /\ InSector(x, sync.sector)
                       /\ Burnt(chip, sync.sector, sync.image)[x] # sync.image[x]
    /\ chip' = Burnt(chip, sync.sector, sync.image)
    /\ ProcessGone
    /\ UNCHANGED crashes

-----------------------------------------------------------------------------
Next == \/ User
        \/ Gui
        \/ slot_start_sync
        \/ slot_sync_complete
        \/ Thread
        \/ notify
        \/ ThreadDies
        \/ Crash
        \/ BurnRejected

Fairness == /\ WF_vars(Gui)
            /\ WF_vars(slot_start_sync)
            /\ SF_vars(slot_sync_complete)
            /\ WF_vars(Thread \/ ThreadDies)

Spec     == Init /\ [][Next]_vars
FairSpec == Spec /\ Fairness

-----------------------------------------------------------------------------
(***************************************************************************)
(* Properties.                                                             *)
(***************************************************************************)
\* A sector is burnt whole: no sector with a page to write has a page the
\* cache has never read, whose bytes would be burnt as zeros.  Both for the
\* GUI's cache and for the thread's copy (read_sector before every write).
Loaded(status) ==
    \A p \in Page : status[p] \in Dirty =>
        \A q \in PagesIn[SectorOf[p]] : status[q] # CACHE_UNKNOWN
DirtySectorLoaded == /\ Loaded(cache_status)
                     /\ sync # NoSync => Loaded(sync.status)

\* When the buttons are enabled again nothing waits to be written, so a
\* page that read_block reloads loses no change.
NothingPending == Quiet => \A p \in Page : cache_status[p] \notin Dirty

\* fileallocationtable.h:79: a page marked synced holds what the chip holds.
\* Sectors with a page still to be written are excepted, and a chip being
\* formatted.
InStep(x) ==
    \/ contents[x] = chip[x]
    \/ cache_status[PageOf[x]] # CACHE_SYNCED
    \/ DirtyPages(cache_status, SectorOf[PageOf[x]]) # {}
Coherent     == op.pc # "format" => \A x \in Cell : InStep(x)

\* The same for the preambles and the data of the blocks alone, as long as no
\* crash has left a free block with data in it.
DataCoherent ==
    crashes = 0 /\ op.pc # "format" => \A x \in PreCells \cup DataCells : InStep(x)

\* The program ends with an exception only for want of a block: never once
\* the last block of a file has been placed (fileallocationtable.cpp:413).
LastBlockPlaced ==
    [][op.pc = "add" /\ op'.pc = "throw" => op.i < NrBlocks(op.prog) - 1]_vars

\* mainwindow.cpp:797: what is changed is written without being asked for,
\* unless the program has ended first.
ChangesAreWritten ==
    (\E p \in Page : cache_status[p] \in Dirty)
        ~> (op.pc \in {"throw", "off"} \/ \A p \in Page : cache_status[p] \notin Dirty)
=============================================================================
