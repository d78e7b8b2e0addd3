----------------------------- MODULE SyncThread -----------------------------
(***************************************************************************)
(* SyncThread::run: a worker thread with its own copies of contents and    *)
(* cache_status that burns every sector with a dirty page, in ascending    *)
(* order, and then queues sync_complete for the GUI thread.                *)
(***************************************************************************)
EXTENDS RomChip

VARIABLE sync    \* the thread, or NoSync

NoSync == [pc |-> "none"]
SyncRec == [pc : {"scan", "burn", "done"}, image : Memory,
            status : [Page -> Status], sector : Sector,
            ahead : SUBSET Sector]    \* those the loop has not come past

SyncTypeOK == sync \in {NoSync} \cup SyncRec

SyncInit == sync = NoSync

\* slot_start_sync hands over copies; the run opens the port.
StartSync(m) ==
    /\ sync' = [pc |-> "scan", image |-> m.c, status |-> m.s,
                sector |-> MetaSector(0), ahead |-> Sector]
    /\ open_port

DirtyPages(status, s) == {p \in PagesIn[s] : status[p] \in Dirty}

\* Mutant: the loop ends one sector early.
DirtySectorsButLast(status) ==
    {s \in Sector : DirtyPages(status, s) # {} /\ \E t \in Sector : SectorBefore(s, t)}

DirtySectors(status)  == {s \in Sector : DirtyPages(status, s) # {}}

\* Mutants: no sector, or every sector, is erased before it is burnt.
NeverErase(status, s)  == FALSE
AlwaysErase(status, s) == TRUE

\* The first dirty page of a sector decides whether the sector is erased.
NeedsErase(status, s) ==
    \E p \in DirtyPages(status, s) :
        /\ status[p] = CACHE_WRITE_ERASE
        /\ \A q \in DirtyPages(status, s) : PageIndex(p) <= PageIndex(q)

\* The loop visits every sector once.
SectorsToWrite == DirtySectors(sync.status) \cap sync.ahead
NextSector(s) == /\ s \in SectorsToWrite
                 /\ \A t \in SectorsToWrite : t = s \/ SectorBefore(s, t)

\* The loop reaches the next sector to write, and erases it if need be.
PrepareSector ==
    /\ sync.pc = "scan" /\ port
    /\ \E s \in Sector :
        /\ NextSector(s)
        /\ IF NeedsErase(sync.status, s) THEN erase_sector(s)
                                         ELSE UNCHANGED chip
        /\ sync' = [sync EXCEPT !.pc = "burn", !.sector = s]
    /\ UNCHANGED port

\* Mutant: the whole bank of the sector is marked.
SyncedBank(status, s) ==
    [p \in Page |-> IF SectorOf[p][1] = s[1] THEN CACHE_SYNCED ELSE status[p]]

Synced(status, s) ==
    [p \in Page |-> IF SectorOf[p] = s THEN CACHE_SYNCED ELSE status[p]]

BurnSector ==
    /\ sync.pc = "burn" /\ port
    /\ burn_sector(sync.sector, sync.image)
    /\ sync' = [sync EXCEPT !.pc = "scan", !.sector = MetaSector(0),
                            !.status = Synced(sync.status, sync.sector),
                            !.ahead = {s \in Sector : SectorBefore(sync.sector, s)}]
    /\ UNCHANGED port

FinishSync ==
    /\ sync.pc = "scan"
    /\ SectorsToWrite = {}
    /\ sync' = [sync EXCEPT !.pc = "done"]
    /\ close_port
    /\ UNCHANGED chip

\* The thread must use a port that the GUI thread has closed under it.
PortLost ==
    /\ ~port
    /\ \/ sync.pc = "burn"
       \/ sync.pc = "scan" /\ SectorsToWrite # {}
=============================================================================
