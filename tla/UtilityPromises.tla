-------------------------- MODULE UtilityPromises --------------------------
(***************************************************************************)
(* What the cassette utility promises of the cartridge it writes to.       *)
(***************************************************************************)
EXTENDS CassetteUtility, Cartridge

VARIABLE stored   \* the files on the chip

watchedVars == <<utilVars, stored>>
WatchedInit == UtilInit /\ stored = FilesOn(chip)
WatchedNext == /\ UtilNext
               /\ stored' = IF UNCHANGED chip THEN stored ELSE FilesOn(chip')
WatchedSpec == WatchedInit /\ [][WatchedNext]_watchedVars
FairWatchedSpec == WatchedSpec /\ WF_utilVars(StoringSteps)

\* Whenever the utility waits for the user or for the tape, even a tape that
\* has failed in the middle of a file or a chip that is full, no block is lost:
\* each belongs to a file in the directory or is free and erased (main.c calls
\* write_startbyte before it reads on, and copyblock links what it has
\* written).  Only a loss of power may lose a block.
NoBlockLost ==
    cuts = 0 /\ util.pc \notin {"write", "entry"} => AllBlocksAccounted(chip)

\* main.c:120: a file reported as copied reads back from the chip as it was on
\* the tape, as long as a block of the chip is free, also on what a loss of
\* power has left.
CopiedWhileRoom ==
    [][util.pc = "more" /\ util'.pc = "next" /\ util.at # NoLoc =>
          /\ util.start \in DOMAIN stored
          /\ stored[util.start] = util.data]_utilVars

\* The chip is a store of whole files after every write of a cell: a file
\* appears all at once, with the last write to it, and no write harms another
\* file, whenever the power is lost (copyblock, write_startbyte).
Store == INSTANCE FileStore WITH store <- stored, Handle <- Locs,
             Content <- {p \in Programs : p # <<>>},
             Capacity <- NBANKS * NBLOCKS
CopyIsAtomic == Store!StoreSpec
=============================================================================
