-------------------------------- MODULE Slots --------------------------------
(***************************************************************************)
(* The slots of MainWindow and what they share: the port, the FAT, the     *)
(* table of files, the buttons, and the file shown.  A slot runs to its    *)
(* end unless it runs the event loop itself: Save in its dialog, Save all  *)
(* after every file.  What is on a chip when the FAT is accessed may be    *)
(* anything, for the user exchanges chips at will; what add and delete do  *)
(* to the bytes is FileAllocationTable's.                                  *)
(***************************************************************************)
EXTENDS Integers, Sequences, SequencesExt

CONSTANTS Ports, Files, MaxFiles, None

VARIABLES
    status,   \* "up", or why the program has ended
    ports,    \* port_identifiers, as scanned last
    serial,   \* serial_interface
    old,      \* the interface the FAT holds, None if it is serial
    stuck,    \* ports that interfaces out of reach hold open
    banks,    \* has nrbanks been set?
    fat,      \* None for the null pointer
    table,    \* the files in the rows of filetable
    enabled,  \* buttons and menu entries that are enabled
    shown,    \* the file in the hex viewer
    selected, \* selected_file, 0 if none was
    sync,     \* is the synchronization thread running?
    dialog,   \* the name slot_save suggests while it asks for one
    loop,     \* the activation of slot_save_all
    mishaps   \* has a format been declined, or an identification failed?

guiVars == <<serial, old, stuck, banks, fat, table, enabled, sync, mishaps>>
viewVars == <<shown, selected, dialog>>
slotVars == <<status, ports, guiVars, viewVars, loop>>

Button == {"scan", "select", "identify", "access", "rows", "add", "save_all", "format"}
Directory == {s \in BoundedSeq(Files, MaxFiles) : IsInjective(s)}

\* port is null, a port that is open, or one that could not be opened; a
\* finished thread that was released keeps its interface for good.
Interface == [port : Ports, state : {"closed", "open", "dead"}, kept : BOOLEAN]
Fat == [files : Directory, next : Directory]
Activation == [i : 1 .. MaxFiles + 1, saved : SUBSET Files, unopened : SUBSET Files,
               first : Directory, cut : BOOLEAN]

\* None is no file, nor anything that may be held.
ASSUME SlotsAssumption ==
    MaxFiles \in Nat /\ None \notin Files \cup Interface \cup Fat \cup Activation

SlotsTypeOK ==
    /\ status \in {"up", "quit", "failed", "noport", "null", "range"}
    /\ ports \subseteq Ports /\ stuck \subseteq Ports
    /\ serial \in Interface \cup {None} /\ old \in Interface \cup {None}
    /\ banks \in BOOLEAN /\ (fat # None => banks)
    /\ fat \in Fat \cup {None}
    /\ table \in Directory /\ enabled \subseteq Button
    /\ shown \in Files \cup {None} /\ selected \in 0 .. MaxFiles
    /\ sync \in BOOLEAN /\ mishaps \subseteq {"declined", "unidentified"}
    /\ dialog \in Files \cup {None}
    /\ loop \in Activation \cup {None}

\* Mutant: the actions are not disabled at first.
AllButScanned == Button \ {"select", "identify", "access"}

AtFirst == {"scan", "rows"}

SlotsInit ==
    /\ status = "up" /\ ports = {} /\ serial = None /\ old = None /\ stuck = {}
    /\ banks = FALSE /\ fat = None /\ table = <<>> /\ enabled = AtFirst
    /\ shown = None /\ selected = 0 /\ sync = FALSE /\ dialog = None
    /\ loop = None /\ mishaps = {}

-----------------------------------------------------------------------------
(***************************************************************************)
(* The port.                                                               *)
(***************************************************************************)
\* The operating system gives a port to one interface at a time.
Taken(p, other) == p \in stuck \/ (other # None /\ other.port = p /\ other.state = "open")

\* open_port does not look at whether the port has been opened.
Opened(s, other) ==
    IF s.state # "closed" THEN s
    ELSE [s EXCEPT !.state = IF Taken(s.port, other) THEN "dead" ELSE "open"]

\* Mutant: the port stays open.
LeftOpen(s) == [s EXCEPT !.state = "open"]

Closed(s) == [s EXCEPT !.state = "closed"]

\* The interface of the FAT, and the one that may be in its way.
FatSerial == IF old = None THEN serial ELSE old
FatOther  == IF old = None THEN None ELSE serial
FatReaches == Opened(FatSerial, FatOther).state = "open"
FatCloses == IF old = None THEN serial' = Closed(serial) /\ UNCHANGED old
                           ELSE old' = Closed(old) /\ UNCHANGED serial

\* An interface that nobody holds any longer closes its port.
Abandoned(s) == IF s # None /\ s.kept /\ s.state = "open" THEN {s.port} ELSE {}

End(why) == status' = why /\ UNCHANGED <<ports, guiVars, viewVars, loop>>
Up == status = "up" /\ dialog = None
Pressed(b) == Up /\ b \in enabled

-----------------------------------------------------------------------------
(***************************************************************************)
(* The slots of the serial interface and of the chip.                      *)
(***************************************************************************)
SelectedPort(p) == [port |-> p, state |-> "closed", kept |-> FALSE]

\* The interface before is destroyed, unless the FAT or a thread holds it.
SelectPort(p, buttons) ==
    LET held == fat # None /\ old = None
        before == IF held THEN serial ELSE old
        gone   == IF held THEN {} ELSE Abandoned(serial)
    IN  IF p \in stuck \cup gone \/ (before # None /\ before.port = p /\ before.state = "open")
        THEN status' = "noport" /\ enabled' = buttons /\ UNCHANGED <<serial, old, stuck>>
        ELSE /\ serial' = SelectedPort(p)
             /\ old' = before /\ stuck' = stuck \cup gone
             /\ enabled' = buttons \cup {"identify"}
             /\ UNCHANGED status

\* A single board is selected at once; the box can be used from one board on.
scan_com_devices ==
    /\ Pressed("scan")
    /\ \E found \in SUBSET Ports :
          LET buttons == IF found = {} THEN enabled ELSE enabled \cup {"select"}
          IN  /\ ports' = found
              /\ \/ \E p \in found : found = {p} /\ SelectPort(p, buttons)
                 \/ /\ ~ \E p \in found : found = {p}
                    /\ enabled' = buttons
                    /\ UNCHANGED <<status, serial, old, stuck>>
    /\ UNCHANGED <<banks, fat, table, sync, mishaps, viewVars, loop>>

select_com_port ==
    /\ Pressed("select")
    /\ \E p \in ports : SelectPort(p, enabled)
    /\ UNCHANGED <<ports, banks, fat, table, sync, mishaps, viewVars, loop>>

\* Without an item in the box "No port has been set" is thrown.
SelectNone == Pressed("select") /\ ports = {} /\ End("failed")

\* The id is read and known, or it is not.
read_chip_id ==
    /\ Pressed("identify")
    /\ Opened(serial, old).state = "open"
    /\ serial' = Closed(serial)
    /\ \/ /\ banks' = TRUE /\ table' = <<>>
          /\ enabled' = enabled \cup {"access"}
       \/ UNCHANGED <<banks, table, enabled>>
    /\ UNCHANGED <<status, ports, old, stuck, fat, sync, mishaps, viewVars, loop>>

\* An exception of get_chip_id is caught, the port stays open.
IdentifyFails ==
    /\ Pressed("identify")
    /\ serial' = Opened(serial, old)
    /\ mishaps' = mishaps \cup {"unidentified"}
    /\ UNCHANGED <<status, ports, old, stuck, banks, fat, table, enabled, sync,
                   viewVars, loop>>

\* An exception of any other slot ends the program, and so does one of the
\* thread; a board may fail at any time.
BoardFails == /\ status = "up" /\ serial # None
              /\ End("failed")

exit == Up /\ End("quit")

-----------------------------------------------------------------------------
(***************************************************************************)
(* The slots of the FAT.                                                   *)
(***************************************************************************)
Cut == loop' = IF loop = None THEN None ELSE [loop EXCEPT !.cut = TRUE]

\* index_files makes a button per row.
Indexed(files, buttons) ==
    table' = files /\ enabled' = buttons \cup {"identify", "rows"}

\* The FAT is built anew, with the current interface; the old one goes.
Rebuilt == old' = None /\ stuck' = stuck \cup Abandoned(old)
NewFat(files) ==
    /\ fat' = [files |-> files, next |-> files]
    /\ Indexed(files, (enabled \ {"access"}) \cup {"add", "save_all", "format"})
    /\ UNCHANGED mishaps

\* What destroys the FAT frees its interface before the new one is opened.
Reached == Opened(serial, IF old # None /\ old.kept THEN old ELSE None).state = "open"

\* The chip is formatted, or is to be.
slot_access_fat ==
    /\ Pressed("access") /\ Reached
    /\ Rebuilt /\ serial' = Closed(serial)
    /\ \E files \in Directory : NewFat(files)
    /\ Cut
    /\ UNCHANGED <<status, ports, banks, sync, viewVars>>

\* The FAT formats through its own interface and closes it, then the chip is
\* accessed through the current one: on another board it holds anything.
CanFormat  == fat # None /\ FatReaches /\ Opened(serial, None).state = "open"
Formatted  == CanFormat /\ old' = None /\ UNCHANGED stuck
OtherBoard == FatSerial.port # serial.port

DeclineFormat ==
    /\ \/ Pressed("access") /\ Reached /\ Rebuilt
       \/ Pressed("format") /\ Formatted /\ OtherBoard
    /\ serial' = Closed(serial)
    /\ fat' = None /\ mishaps' = mishaps \cup {"declined"}
    /\ enabled' = enabled \cup {"access", "identify"}
    /\ Cut
    /\ UNCHANGED <<status, ports, banks, table, sync, viewVars>>

slot_format_rom ==
    /\ Pressed("format") /\ Formatted
    /\ serial' = Closed(serial)
    /\ \E files \in IF OtherBoard THEN Directory ELSE {<<>>} : NewFat(files)
    /\ Cut
    /\ UNCHANGED <<status, ports, banks, sync, viewVars>>

\* The port cannot be had, and so there is an exception.
OutOfReach ==
    /\ \/ Pressed("access") /\ ~Reached
       \/ Pressed("format") /\ fat # None /\ ~CanFormat
       \/ fat # None /\ ~FatReaches /\ (\E b \in {"add", "rows"} : Pressed(b))
    /\ End("failed")

\* A slot that uses the FAT although there is none.
NullUsed ==
    /\ fat = None
    /\ \/ \E b \in {"add", "format", "save_all"} : Pressed(b)
       \/ Pressed("rows") /\ table # <<>>
       \/ Up /\ shown # None
       \/ Up /\ loop # None
    /\ End("null")

\* The row pressed is the number of a file.
slot_select_file(row) ==
    /\ Pressed("rows") /\ row \in DOMAIN table /\ fat # None /\ FatReaches
    /\ FatCloses
    /\ shown' = IF row \in DOMAIN fat.files THEN fat.files[row] ELSE shown
    /\ selected' = row
    /\ UNCHANGED <<status, ports, stuck, banks, fat, table, enabled, sync, mishaps,
                   dialog, loop>>

\* Mutant: the menu stays.
DisabledRows == {"identify", "access", "scan", "select", "rows"}

Disabled == {"identify", "access", "scan", "select", "rows", "add", "save_all", "format"}

\* A change of the FAT, and slot_start_sync.
StartSync(next) ==
    /\ fat' = [fat EXCEPT !.next = next]
    /\ sync' = TRUE
    /\ enabled' = enabled \ Disabled
    /\ FatCloses

DeleteRow(row) ==
    /\ Pressed("rows") /\ row \in DOMAIN table /\ fat # None /\ FatReaches
    /\ row \in DOMAIN fat.files
    /\ StartSync(RemoveAt(fat.files, row))
    /\ Cut
    /\ UNCHANGED <<status, ports, stuck, banks, table, mishaps, viewVars>>

\* A file is added to some bank; it comes last there.
slot_add_program ==
    /\ Pressed("add") /\ fat # None /\ FatReaches
    /\ Len(fat.files) < MaxFiles
    /\ \E f \in Files \ Range(fat.files), k \in 1 .. Len(fat.files) + 1 :
          StartSync(InsertAt(fat.files, k, f))
    /\ UNCHANGED <<status, ports, stuck, banks, table, mishaps, viewVars, loop>>

\* Mutant: the FAT is read again, the table is not made again.
TableKept(files) == table

\* Mutant: the rows of before are not removed.
RowsAdded(files) == table \o files

TableOf(files) == files

\* The thread is done, and the event loop runs: in a dialog, too.
slot_sync_complete ==
    /\ status = "up" /\ sync
    /\ IF Opened(serial, old).state = "open" /\ FatReaches
       THEN /\ serial' = [Closed(serial) EXCEPT !.kept = TRUE]
            /\ old' = IF old = None THEN None ELSE Closed(old)
            /\ fat' = [fat EXCEPT !.files = fat.next]
            /\ Indexed(TableOf(fat.next), Button)
            /\ sync' = FALSE
            /\ UNCHANGED <<status, ports, stuck, banks, mishaps, viewVars, loop>>
       ELSE End("failed")

-----------------------------------------------------------------------------
(***************************************************************************)
(* Saving and running.                                                     *)
(***************************************************************************)
\* The file a row number now stands for.
SelectedFile == fat.files[selected]
CanSave == shown # None /\ fat # None /\ FatReaches

slot_save ==
    /\ Up /\ CanSave /\ selected \in DOMAIN fat.files
    /\ FatCloses
    /\ dialog' = SelectedFile
    /\ UNCHANGED <<status, ports, stuck, banks, fat, table, enabled, sync, mishaps,
                   shown, selected, loop>>

SaveCancelled ==
    /\ status = "up" /\ dialog # None
    /\ dialog' = None
    /\ UNCHANGED <<status, ports, guiVars, shown, selected, loop>>

SaveConfirmed ==
    /\ status = "up" /\ dialog # None /\ CanSave /\ selected \in DOMAIN fat.files
    /\ FatCloses
    /\ dialog' = None
    /\ UNCHANGED <<status, ports, stuck, banks, fat, table, enabled, sync, mishaps,
                   shown, selected, loop>>

slot_run ==
    /\ Up /\ CanSave /\ selected \in DOMAIN fat.files
    /\ FatCloses
    /\ UNCHANGED <<status, ports, stuck, banks, fat, table, enabled, sync, mishaps,
                   shown, selected, dialog, loop>>

\* The row selected is beyond the files there are: files[id] is undefined.
RowGone ==
    /\ status = "up" /\ CanSave /\ selected \notin DOMAIN fat.files
    /\ End("range")

slot_save_all ==
    /\ Pressed("save_all") /\ loop = None /\ fat # None
    /\ loop' = [i |-> 1, saved |-> {}, unopened |-> {}, first |-> fat.files,
                cut |-> FALSE]
    /\ UNCHANGED <<status, ports, guiVars, viewVars>>

\* Mutant: the counter of the file names is used.
FromTwo(i) == i + 1

\* The file at hand.
FileNumber(i) == i

AtHand == {f \in Files : /\ FileNumber(loop.i) \in DOMAIN fat.files
                          /\ fat.files[FileNumber(loop.i)] = f}

\* A file is saved, unless it cannot be opened under its name; then other slots
\* may run.
SaveNext ==
    /\ Up /\ loop # None /\ fat # None /\ loop.i <= Len(fat.files)
    /\ IF FatReaches
       THEN /\ FatCloses
            /\ \/ loop' = [loop EXCEPT !.i = @ + 1, !.saved = @ \cup AtHand]
               \/ loop' = [loop EXCEPT !.i = @ + 1, !.unopened = @ \cup AtHand]
            /\ UNCHANGED <<status, ports, stuck, banks, fat, table, enabled, sync,
                           mishaps, viewVars>>
       ELSE End("failed")

SaveAllDone ==
    /\ Up /\ loop # None /\ fat # None /\ loop.i > Len(fat.files)
    /\ loop' = None
    /\ UNCHANGED <<status, ports, guiVars, viewVars>>

-----------------------------------------------------------------------------
SlotsNext == \/ scan_com_devices
             \/ select_com_port
             \/ SelectNone
             \/ read_chip_id
             \/ IdentifyFails
             \/ BoardFails
             \/ exit
             \/ slot_access_fat
             \/ DeclineFormat
             \/ slot_format_rom
             \/ OutOfReach
             \/ NullUsed
             \/ \E row \in 1 .. MaxFiles : slot_select_file(row) \/ DeleteRow(row)
             \/ slot_add_program
             \/ slot_sync_complete
             \/ slot_save
             \/ SaveCancelled
             \/ SaveConfirmed
             \/ slot_run
             \/ RowGone
             \/ slot_save_all
             \/ SaveNext
             \/ SaveAllDone

SlotsSpec == SlotsInit /\ [][SlotsNext]_slotVars

-----------------------------------------------------------------------------
(***************************************************************************)
(* Properties.                                                             *)
(***************************************************************************)
\* The rows whose buttons can be pressed are those of the files of the FAT,
\* whatever slots the event loop has run inside others: what is deleted or
\* opened is what the row shows.
RowsAreFiles ==
    status = "up" /\ "rows" \in enabled /\ fat # None => table \in {<<>>, fat.files}

\* While a synchronization runs, its FAT and its port stay, no change is made
\* and no second one is started: not from the menu, nor from within Save all.
OneSync ==
    [][sync /\ sync' => fat' = fat /\ (serial' # None /\ serial'.port = serial.port)]_slotVars

\* Save all comes to every file that was there all the time, though it runs the
\* event loop between files and the FAT may be read again there, unless one has
\* been deleted, or the FAT exchanged, in between: it leaves out only those that
\* could not be opened under their names, of which the user is not told.
SaveAllWhole ==
    status = "up" /\ loop # None /\ fat # None /\ ~loop.cut /\ loop.i > Len(fat.files)
        => Range(loop.first) \subseteq loop.saved \cup loop.unopened

\* The FAT is never used while there is none, except after a declined format.
NullAfterDecline == status = "null" => "declined" \in mishaps

\* A board that is selected can be opened, unless an identification has failed:
\* only then does an interface of before hold the port open.
PortAfterFailure == status = "noport" => "unidentified" \in mishaps

\* What Save and Run take is the file that is shown, under its own name
\* (mainwindow.cpp:765-766: the box shows "the currently selected file").
SavedIsShown ==
    [][/\ SaveConfirmed => dialog = shown /\ SelectedFile = shown
       /\ slot_run => SelectedFile = shown]_slotVars
=============================================================================
