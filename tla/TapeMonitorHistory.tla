------------------------- MODULE TapeMonitorHistory -------------------------
(***************************************************************************)
(* The program together with what it found on the chip when its last task  *)
(* began, to relate the cartridge after a task to the cartridge before.    *)
(***************************************************************************)
EXTENDS TapeMonitor, Cartridge

VARIABLES
    task,     \* what the user has asked for since the last quiet state
    asked,    \* the program he has asked to add
    stored    \* the files on the chip in the last quiet state

histVars == <<vars, task, asked, stored>>

HistInit == /\ Init
            /\ task = "none"
            /\ asked = <<>>
            /\ stored = FilesOn(chip)

\* A task is known by the first activation that only it has.
TaskOf(o, last) == CASE o.pc = "add"    -> "add"
                     [] o.pc = "emit" /\ last # NoLoc -> "add"
                     [] o.pc = "wipe"   -> "delete"
                     [] o.pc = "format" -> "format"
                     [] OTHER           -> task

HistNext ==
    /\ Next
    /\ task' = IF Quiet' THEN "none" ELSE TaskOf(op', lastbankblock')
    /\ asked' = IF op'.pc = "add" THEN op'.prog
                ELSE IF task' = "add" THEN asked ELSE <<>>
    /\ stored' = IF Quiet' THEN FilesOn(chip') ELSE stored

HistSpec == HistInit /\ [][HistNext]_histVars

-----------------------------------------------------------------------------
\* Between tasks every file in the directory reads back from the chip
\* itself, and no two share a block (add_file, delete_file, SyncThread::run).
DirectorySound == Quiet /\ Formatted(chip) => AllFilesSound(chip)

\* Between tasks every block is in a file or is free and erased: deleting
\* leaks no block, and what is free can be programmed without an erase.
BlocksAccounted == Quiet /\ Formatted(chip) => AllBlocksAccounted(chip)

\* Adding a file, even one the process dies over, leaves every sound file of
\* the chip as it was: a sync of an added file erases nothing.
AddKeepsOthers ==
    task = "add" =>
        LET now == FilesOn(chip)
        IN  \A l \in DOMAIN stored : l \in DOMAIN now /\ now[l] = stored[l]

\* fileallocationtable.cpp:429, "Check wether a file is valid": a check that
\* raises no alarm vouches for a file that reads back from the chip.
CheckVouches ==
    [][Linked("check") /\ op'.pc = "idle" => op.start \in DOMAIN FilesOn(chip)]_histVars

\* Whatever a crash has left behind, a check that raises no alarm vouches for
\* the data: the blocks written hold the program, on the chip.
CheckVouchesData ==
    [][Linked("check") /\ op'.pc = "idle" =>
          /\ Len(op.seen) >= Len(asked)
          /\ \A i \in DOMAIN asked : chip[DataCell(op.seen[i])] = asked[i]]_histVars

\* An add whose burn went undisturbed is not reported as wrong
\* (mainwindow.cpp:1045).
NoFalseAlarm == op.pc # "alarm"

\* The cartridge implements a store of whole files: what a task does becomes
\* visible when the program is quiet again.
Store == INSTANCE FileStore WITH store <- stored, Handle <- Locs,
             Content <- {p \in Programs : p # <<>>},
             Capacity <- NBANKS * NBLOCKS
StoreImplemented == Store!StoreSpec
=============================================================================
