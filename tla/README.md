# A TLA+ model of the P2000T tape monitor

The P2000T tape monitor stores cassette programs on flash cartridges
(SST39SF010/020/040) for a Philips P2000T. A Qt program on a PC formats,
reads and writes a cartridge through a reader board on a serial port; Z80
programs on the P2000T copy tapes to a cartridge, load programs from it, and
put the loader into the machine's own ROM. This directory holds TLA+ modules
that model the Qt program with its worker thread, its slots and its serial
protocol, and the four Z80 programs; TLC configurations that check them on
small instances; and proofs, checked by TLAPS, that hold for any size.

All paths below are relative to the repository (its `src/` left out).

## The system

### Components

| Component | Source | State | Operations |
|---|---|---|---|
| `FileAllocationTable` | `gui/src/fileallocationtable.*` | `contents` (a copy of the chip), `cache_status` (per 256-byte page: unknown, synced, to write, to erase and write), `files` | `check_fat`, `format_chip`, `read_files`, `get_file`, `create_cas_file`, `add_file`, `check_file`, `delete_file` |
| `SyncThread` | `gui/src/syncthread.*` | its own copies of `contents` and `cache_status` | `run`: burn every sector with a dirty page |
| `MainWindow` | `gui/src/mainwindow.*` | the serial interface selected, the number of banks, `fat`, the table of rows, the buttons enabled, the file shown, `selected_file`, a Save all under way | the slots of buttons and menus; `slot_start_sync`, `slot_sync_complete` |
| `SerialInterface` | `gui/src/serial_interface.*` | the `port` object and its read buffer, shared by both threads | `open_port`, `close_port`, identification, read, erase and burn commands |
| `FATFlasherGUI` | `gui/src/fatflashergui.*` | none | `notify`: any exception of a slot ends the program |
| reader board | another repository | the command it is at | echo a command, carry it out, answer |
| cartridge | `docs/fat.md` | the bytes of the flash chip | erase a sector; program bytes (bits can only be cleared) |
| cassette utility (Z80) | `cassette-utility/` | the tape buffer, the chip | copy a tape to a cartridge |
| launcher (Z80) | `launcher/` | page and list of blocks in external RAM, the number typed, the keys | list programs, load and validate one |
| BASIC bootstrap (Z80) | `basicmod/bootstrap.asm` | none | load the launcher, copy a loaded program to its address |
| flasher (Z80) | `flasher/` | the internal ROM, checksums | wipe, copy and sum the launcher's sectors |
| checksums | `crc16_xmodem`, `crc16.asm`, `launcher/checksums.py` | none | CRC16, three times |
| `FlashThread`, `ReadThread` | `gui/src/` | none used | nothing constructs them |
| `ThreadRun`, hex view, block map, dialogs, log window | `gui/src/` | display, files of the PC | display and I/O |

### How they interact

* `MainWindow` calls `FileAllocationTable` directly, on the GUI thread. A slot
  runs to its end before the event loop takes the next event, except that a
  dialog, and `slot_save_all` between two files, run the event loop themselves.
* `add_file` and `delete_file` change only `contents` and `cache_status`, and
  end with `emit signal_sync_needed`, which calls `slot_start_sync` at once:
  the buttons are disabled and a `SyncThread` is started with **copies** of
  both vectors.
* The thread erases and burns sectors through the **shared**
  `SerialInterface`, closes the port and emits `sync_complete`, which is
  **queued** for the GUI thread. `slot_sync_complete` then replaces the GUI's
  statuses by the thread's, reads the directory again, and, when a file was
  just added, walks its chain, reads its data from the chip again and compares
  checksums.
* `SerialInterface` writes a command of eight characters; the board echoes it
  and answers. A wait goes on while bytes arrive or too few have, and gives up
  after a number of rounds; what arrives later stays on the line or in the
  buffer. An exception ends the program, but in `read_chip_id`, which catches
  it and leaves the port open.
* A `SerialInterface` is held by the window, by the FAT that was built with it,
  and by the last thread; it keeps its port as long as one of them lives and it
  has not been closed.
* The cassette utility uses the same layout without a cache: it reads the
  chip byte by byte and writes to it the same way, as the tape delivers blocks.
* The launcher reads the same layout. It copies the blocks of a program to the
  external RAM, which also holds the page of programs and the list of blocks,
  leaves the address and the size there, and returns to the bootstrap, which
  copies the program to where it runs.
* The flasher copies the launcher from a cartridge to the internal ROM, where
  the bootstrap reads it. Its user compares the checksums on the screen with
  those that `checksums.py` prints.
* The chip is the only thing that survives a process or a loss of power.

### What is hard here

* A page must be read before it is changed, and a whole *sector* is burnt.
* What is written depends on statuses of pages, some of them never set by the
  code that changes the page (`delete_file` relies on the preamble page to
  carry the descriptors of the same bank along).
* Two threads share a port, and two menus stay enabled while the thread runs.
* Slots run within slots: a file may be deleted, the chip accessed again or a
  synchronization end between two files of Save all, or in a Save dialog.
* Row numbers outlive the rows they were taken from.
* An answer is known by its echo only, and may come after its command was given
  up; a command or an answer may be garbled.
* The process may die between any two steps, in a burn too.
* Programming cannot set bits: a block is reusable only if it was erased.
* Boundaries: the last free block, the second bank, a file of no blocks, a
  copy of zero bytes, the last page of the list, a program that reaches the
  memory that says where it is.
* The cassette utility stores a file while it is still reading it: the tape may
  fail, the chip fill up, and the power go between any two writes.
* Keys are collected by an interrupt while a key is handled.
* The flasher does not wait for ever for a chip that is slow, and rewrites the
  ROM the machine starts from.

`PROJECT.json` lists the hazards at their lines, with the properties that
would catch each of them going wrong.

### What makes each component correct

* cache: no unread page is burnt; a synced page equals the chip; nothing
  unwritten when the user has the buttons again.
* directory: every file listed reads back, no two files share a block, every
  block is in a file or is free *and erased*.
* whole program: the cartridge behaves as a store of whole files, an add never
  harms another file (whatever crashes), a check without alarm means the data
  is on the chip, and every change is written in the end.
* slots: a button acts on what its row shows; nothing that can be opened is left
  out by Save all; a synchronization is alone; a board that can be selected can
  be opened.
* serial link: what is read is what the chip holds, what was erased or burnt wrongly
  is noticed, no command waits for ever.
* cassette utility: no block lost, every file whole or absent.
* launcher: what starts is the file whose number was typed, whole; green means
  loaded; a load ends, unless the chain is cyclic or overwrites its own list.
* flasher: checksums as expected mean that the launcher is there; a later run
  repairs what an earlier one left; the rest of the ROM is not touched.

## The modules

```
RomFat ── layout, values, cache arithmetic        Cartridge ── what bytes mean
  │                                                    │
RomChip ── chip, port                                  │      FileStore
  ├───────────────┐                                    │   (abstract store)
FileAllocationTable  SyncThread                        │         │
  └───────┬───────┘                                    │         │
     TapeMonitor ── whole program ───────────── TapeMonitorHistory
          │                                            │
     MCTapeMonitor (+ SmallChips)               MCHistory (+ SmallChips)

RomFat ── CassetteUtility ── UtilityPromises (+ Cartridge, FileStore)
                │                  │
            MCUtility ────── MCUtilityPromises (+ SmallChips)

Cartridge, Bootstrap ── Launcher ── MCLauncher (+ SmallChips)

Slots ── MCSlots    SerialLink ── MCSerialLink    Flasher ── MCFlasher    Checksums

RomFatProofs ─┬─ TapeMonitorProofs ── DirectoryProofs (+ TapeMonitorHistory)
              ├─ UtilityProofs
              └─ LauncherProofs

SerialLinkProofs    SlotsProofs    FlasherProofs (Flasher and Checksums)
```

* **RomFat**: the layout of a cartridge as cells, pages and sectors, and the
  functions that compute on `contents` and `cache_status` without touching the
  chip. A *cell* is a group of bytes that the code always writes together: one
  preamble entry, one field of a descriptor (`fmt` 00-02, `next` 03-04, `crc`
  06-07, `used` 08, `hdr` 09-0A and 20-3F) or the 0x400 bytes of a block. A
  block is named as the link field names it, `256 * bank + block`.
* **RomChip**: the chip and the port. Erase and program act on one sector.
* **FileAllocationTable**: the object and the slots that call it. `op` is the
  activation of the GUI thread: a loop whose iterations touch the chip or may
  throw (format, the walk of a chain, the blocks of a file) is one action per
  iteration; everything between two of them is one action. The actions carry
  the names of the functions they model. An exception is `op.pc = "throw"`.
* **SyncThread**: `sync` is the thread with its copies; its loop goes over the
  sectors once, in their order. It alternates between the next one with a dirty
  page, with the erase it may need (`scan`), and the burn (`burn`), until the
  last sector has been passed (`done`, the queued `sync_complete`).
* **TapeMonitor**: composes them: the user, who may use the buttons when they
  are enabled; the GUI's slots; the thread; and the ways a process ends.
* **Cartridge**: what a chip's bytes mean to someone who reads them afresh.
* **FileStore**: the promise: a store of files that are added, removed and
  wiped as a whole, within the capacity.
* **TapeMonitorHistory**: adds three history variables (the current task, the
  program asked for, the files found when the last task ended), to state
  properties that relate the chip after a task to the chip before.
* **Slots**: every slot of the window, and what they share. Each is one action;
  where a slot throws, the program ends (`status`). Saving is a step that reads
  the name, a dialog in which the event loop runs, and a step that reads the
  contents; `loop` is `slot_save_all` between two files, with those it has saved
  and those it could not open. A format goes through the interface of the FAT
  and the access after it through that of the window, which may be another
  board's. `serial` is the interface of the window and `old` that of the FAT,
  when another port was selected since; `stuck` are ports held by an interface
  nobody refers to. A directory is a sequence of files here; `TapeMonitor` has
  their bytes.
* **SerialLink**: `host` is the activation of `SerialInterface`, in the flush,
  in a wait (`capture`, `echo`, `crc`) or idle; `buf` is the read buffer of the
  port, `wire` and `line` what is under way. A message is an echo or an answer;
  the code counts bytes, and so `Bytes` does. Which slots close the port is left
  open (`Back`), as both occur.
* **CassetteUtility**: `main` of the utility, over the layout of `RomFat`.
  `util` is its activation: asking for a tape (`ask`), reading the next program
  (`next`), offering it (`offer`), storing it (`write`, `entry`, `more`) or
  skipping it (`skip`). `copyblock` chooses a block and lists the writes it
  makes, in their order; `sst39sf_write_byte` makes them one at a time, so that
  a `PowerCut` may come between any two. `tape` is what the tape still holds
  and the status, block counter and buffer the monitor ROM keeps.
* **UtilityPromises**: what the utility promises of the cartridge, and a history
  variable with the files on it, by which it implements `FileStore`.
* **Bootstrap**: the routines of `bootstrap.asm` as operators on memory, with
  the 16-bit addresses, the count of zero that goes round 0x10000 times, and every
  store they make: the program, the screen, their variables and BASIC's pointers.
* **Launcher**: `main` is the activation of `main` and
  `handle_keybuffer_return`, `keys` the monitor's key buffer, which the keyboard
  fills at any time. `Seek` is the loop that the searches of `programs.c` share.
  Loading has an action per link and per block. The page of programs and the
  list of blocks lie in `ram`, where a program that is large enough
  overwrites them.
* **Flasher**: `main` of the flasher with its wipe, its polls, a byte of the
  copy and a page of the checksums per step; the chip, which takes its time; and
  its user, who pulls the cartridge or the plug.
* **Checksums**: the three implementations of CRC16, bit by bit in lockstep on
  the same data: signed characters in 32 bits, the registers a, d and e, and
  unbounded integers.

### Abstractions, and why they lose nothing the properties need

* A word of data stands for 0x400 bytes, and the four pages of a block are one
  page: the code reads and marks the four together. `Crc16` and `BitAnd` are
  parameters; the theorems hold for every function with the laws of
  `WordAssumption` (`BitAndAssumption` for the serial link), TLC uses one that
  like CRC16 does not commute with "and" and does not take erased data to the
  erased checksum.
* The three format bytes of a descriptor are one cell that holds `FORMATTED`,
  zero or erased. Reading a byte of the chip has the effect of reading its
  cell.
* File names and sizes are part of the `hdr` cell, of which the block number
  and the block count are kept.
* Between "the user picked a file" and the first step of its walk nothing else
  can happen on the GUI thread, so it is one action.
* Within a sector the reader board writes bytes in ascending order, so an
  interrupted burn leaves a prefix written (`PartlyBurnt`).
* The check of a burn by its CRC (`BurnRejected`) may find a difference; it is
  not forced to, as the board may report the checksum of what it received.
  That the checksum tells is what `SerialLink` assumes and uses.
* What is read or written beyond the end of a vector (`check_file`, a selected
  row that is gone) is undefined: the model lets the process die, or go on
  where it might.
* The cassette utility writes a cell in one step, so a link, a checksum or a
  block half written is not distinguished from one not yet written.
* A tape holds whole files (`TapeAssumption`): wherever a file begins, a program
  of `Programs` follows, block for block, each with the number of blocks left,
  as the monitor ROM writes them (`FileAt`).
* The tape routine of the monitor ROM is not in the repository. A failed read
  leaves the tape where it is or passes the block, with or without its header
  taken; a tape that has ended keeps the status `M` until it is rewound.
* The reader board is not in the repository either. It takes commands in order,
  echoes what it heard, and may answer late or never; while it waits for the
  data of a burn it may give up. Of an answer, the properties need the bytes of
  the chip id, the contents of a sector and the checksum of a burn. Programming
  leaves the "and" of what the sector held and of the data (`BitAnd`); the board
  may take the checksum of the data or of the sector, and a checksum tells one
  content from another. A garbled answer to a read is not modelled: nothing in
  the protocol could tell.
* The launcher's list of blocks, once overwritten by the program itself, goes on
  at each step with any block or none, and the address becomes any of
  `SpiltAddresses`. What the validation then shows is left out.
* A byte of memory in `Bootstrap` is a tuple that says where it comes from, and
  `WordOf` the word that two of them make: of the two halves of an address, that
  address. What the launcher and the monitor ROM write themselves (stack, keys,
  variables, video memory) is not in it: what `StartedIsAsked` says of the rest
  of memory is about the stores of the bootstrap.
* In `Flasher` the checksum of a page tells its contents, and a chip that is
  being wiped is not a launcher: an image that reads like a busy chip all over a
  sector is excluded (`FlasherAssumption`).
* `None` in `Slots` is the null pointer: not a file, an interface, a FAT or a
  loop (`SlotsAssumption`).

## Runs

The chips are small, the structure is that of a large one: blocks share
descriptor pages and data sectors (two per page and two per sector), a metadata
sector holds several pages, the last sector of the larger chip is half used,
and there are files of one and of two blocks, so that a file can lie in two
banks, fill the chip exactly, and not fit.

| Run | Instance | What may happen | Shows |
|---|---|---|---|
| `core` | 2 banks x 3 blocks | none from outside | types, cache, directory, no leaked block, no false alarm, refinement of `FileStore` |
| `liveness` | 1 x 2 | File > Save during a synchronization, one crash | whole sectors are burnt; nothing stays unwritten; every change is written |
| `crash` | 2 x 2 | one crash, spanning deletes | adds keep other files; a check without alarm vouches for the data; preambles and data of the cache agree with the chip until the crash |
| `tape` | 2 x 3 | tapes that fail, one loss of power | no block lost; files copied as on tape while there is room; refinement of `FileStore` at every write; it comes back from reading and storing, however the tape fails |
| `launcher` | 2 x 3, pages of 2 programs, memory of 18 bytes | three cartridges (files in two banks and in any order of blocks, wrong data, a cycle, a bank without files, one file that reaches the page and the list), any keys, power off and on | rows are numbered as they load; what starts was asked for; green is loaded; a load ends if the chain is not cyclic and does not reach the list |
| `link` | 2 sectors, 2 kinds of chip, data with bits in common | a slow or silent board, one garbled message, chips exchanged, sectors burnt that are not erased | reads are true; harm is noticed; the number of banks is that of a chip that was there; every command ends |
| `slots` | 2 boards, 2 files | every slot, at any time the event loop runs; boards that fail, files that cannot be opened | rows are files; Save all leaves out only what cannot be opened; the null pointer and the lost port have one cause each; a synchronization is alone |
| `flash` | 3 sectors of 2 bytes, 2 polls | a slow chip, cartridge out, power lost at any step | checksums tell; a run repairs; the rest is kept; flashing ends |
| `checksums` | 4 bytes of data, 6 values | none | the three CRC16 agree |
| `unsound_vouched` | 2 x 2 | spanning deletes | **violated**: `CheckVouches` |
| `exact_fill` | 2 x 2 | none | **violated**: `LastBlockPlaced` |
| `saved_other` | 2 boards, 2 files | as `slots` | **violated**: `SavedIsShown` |

The parameters that bound a run on a chip: `NBANKS`, `NBLOCKS`,
`METAS_PER_PAGE`, `BLOCKS_PER_SECTOR` and `SLOTS` (the geometry), `MAX_LINKS`
(larger than the number of blocks, so that only a cyclic chain reaches it),
`Programs` and `Word` (the contents), `MaxCrashes`, `SpanningDelete` and
`UseMenuInSync` (what the user and the world may do). Two programs, of one and
two blocks, are enough for two files to compete for blocks, one before and one
after the other in a bank, and for blocks to be freed and used again in another
order. One crash is enough for a restart on what it left and for every task
after it. No run bounds the number of adds, deletes, formats and
synchronizations.

The two tapes hold a program of one block and one of two, in either order, and
may be put in again and again until the chip of six blocks is full, so that a
file meets a full chip at its first and at its second block, and lies in two
banks. `MaxPowerCuts` bounds the losses of power; a read may fail at any time.
`CopyIsAtomic` is a refinement through `FilesOn`: a file is in the store when it
is in a preamble and reads back, so a torn file is not, and never shows as one
that is shorter than on the tape.

In `launcher` three programs and pages of two give a last page that begins in
the first; five areas of RAM, the fourth of them the page and the fifth the
list, give programs that end before the page, reach it and reach the list; two
keys can be typed ahead. The headers give a length of zero, one that leaves out
the last byte and ones that ask for more than the blocks have, and deploy
addresses from which a copy comes to the end of memory and goes on at its start;
with 18 bytes of memory, of which the screen, the variables of the bootstrap,
BASIC's pointers and the launcher are separate parts, a copy may reach each of
them. A list that its own program has overwritten is followed for `MAXCOPIED`
blocks at most, and the address there is one of `SpiltAddresses`. The run has
402,673 states. In `link`, `MaxPending` bounds what is under way when a command
is sent (one late answer), `TRIES` the rounds of a wait and `MaxGarbled` the
messages changed; an answer may be late by any number of commands; the run has
1,295,470 states. In `slots`, `MaxFiles` is the capacity of the chip. Two boards
are needed to lose a port to another interface; two files to have one in front
of another. Boards are interchangeable, and so are files, and no property of
`slots` names one: symmetry is used in that run, which has no liveness property;
it has 5,986,332 states.

Deadlock is checked in every run but `slots`, `saved_other` and `checksums`. In
the former two the program ends when its user leaves it or an exception does;
`checksums` ends with its data. In the others there is always something to do,
as a user can always start or access again.

### The three violations

1. `unsound_vouched`: `delete_file` wipes the descriptors of all blocks in
   `contents` but marks only the preamble page of the *first* block's bank.
   For a file in two banks the descriptors in the second bank are wiped in the
   cache, marked synced, and unchanged on the chip (`Coherent` fails there).
   A later add takes such a block, and the chip keeps the "and" of the old and
   the new descriptor; `check_file` takes chain and checksums from the cache
   and raises no alarm. Without such deletes and without crashes `CheckVouches`
   is proved (`ChecksAreTrue`).
2. `exact_fill`: `add_file` looks for a next block after the last one, and ends
   the program when there is none.
3. `saved_other`: `selected_file` is the number of a row and is never reset. After
   a delete of a row above it, or another access, the hex view shows one file
   and Save and Run take another, or none.

`core` leaves spanning deletes out by a constant, so that it shows that nothing
else goes wrong; the second behaviour is part of every run with two banks: the
program dies of it, and the properties hold all the same.

### Known behaviours that are in the models, without a run of their own

* `check_file` divides an address by 100 for 0x100 and makes a
  `std::runtime_error` that is not thrown: it reads beyond its vectors, and the
  process may die there.
* A file of no blocks would be added as such and then checked against an erased
  checksum; the programs of the runs have a block or more.
* File > Save during a synchronization closes the port under the thread, which
  may die of it (`ThreadDies`); `liveness` has it.
* A tape file that meets a full chip at a later block is cut short and reported
  as copied; `CopiedWhileRoom` is about files that fit.
* Skipping a tape file waits for a block counter and never looks at the status,
  so a tape that ends within it is skipped for ever; `ComesBackFromStoring` is
  about reading a program and storing it, and says nothing of the skipping loop.
* A program of more than 0x7000 bytes reaches the page of programs, and one of
  more than 0x7C00 the list of its own blocks: `StartedIsAsked` is about programs
  below the page, `GreenIsLoaded` and `LoadEnds` about those below the list. Beyond,
  what the launcher takes for its list are bytes of the program, and a load may go
  on for ever.
* A header may say that a program has no bytes, and the bootstrap then copies 64K:
  over the screen, its own variables and whatever else is RAM. `StartedIsAsked`
  says so. It goes wrong further when the copy covers the place where the deploy
  address is kept, which is read again for BASIC's pointers; of these nothing is
  said then.
* Save all passes over a file that cannot be opened and says nothing of it;
  `SaveAllWhole` says that nothing else is left out.
* After a declined format, and after a failed identification, a slot may use a
  null pointer or find the port taken. `NullAfterDecline` and `PortAfterFailure`
  say that these are the only ways to get there.

## Fairness

* `FairSpec` (TapeMonitor) assumes weak fairness of `Gui` (a slot once called
  runs on), of `slot_start_sync` (a direct call) and of the thread, which runs
  on or dies (`Thread \/ ThreadDies`; a running `QThread` is scheduled), and
  strong fairness of `slot_sync_complete`, a queued signal, which Qt's event
  loop delivers although slots of the menu run again and again before it. The
  user, crashes and rejected burns are not fair. `ChangesAreWritten` allows for
  the end of the program.
* `FairUtilSpec` and `FairWatchedSpec` (CassetteUtility) assume weak fairness of
  the steps that read and store a program (`StoringSteps`), and of nothing else:
  the loop that skips one may go on for ever with reads that fail.
* `FairLauncherSpec` (its `LoadSteps`)
  and `FairFlasherSpec` assume weak fairness of what the program does by itself:
  a single program on a single processor runs on. Answers and keys of the user,
  the chip's wipe and losses of power are not fair: `LoadEnds` and `FlashEnds`
  do not rest on them.
* `FairLinkSpec` assumes weak fairness of the steps of `SerialInterface` only;
  the board owes nothing, and still `CommandEnds`.
* `Slots` and `Checksums` state no liveness, and no fairness.

## Proofs

### TapeMonitorProofs (with RomFatProofs)

For every value of the constants that satisfies `GeometryAssumption`,
`WordAssumption` and `UseAssumption`:

| Theorem | Statement |
|---|---|
| `Invariance` | `Spec => []IInv` |
| `TypeCorrect` | `Spec => []TypeOK` |
| `BurnsWhatWasRead` | `Spec => []DirtySectorLoaded` |
| `QuietIsWritten` | `Spec => []NothingPending` |
| `CacheInvariance` | `Spec => []CacheInv` |
| `DataStaysCoherent` | `~UseMenuInSync` gives `Spec => []DataCoherent` |
| `CacheStaysCoherent` | `~UseMenuInSync` and `~SpanningDelete` give `Spec => [](crashes = 0 => Coherent)` |

Neither `DirtySectorLoaded` nor `NothingPending` is inductive. `IInv` is the
conjunction of

* `TypeOK`;
* `DirtySectorLoaded`, for the cache and for the thread's copy;
* `LoopsGuarded`: what the loops of the GUI thread rely on between two
  iterations. The walk of a chain has a block to go to or has seen one;
  `delete_file` has a block left to wipe; `add_file` has a block left to write,
  and the metadata sector it writes it to has been read;
* `WritesAwaitSync`: without a synchronization under way, the GUI's cache has a
  dirty page only in the middle of an add or a delete, or after an exception;
  and a thread that is `done` has no dirty page;
* `ThreadAhead`: every dirty page of the thread's copy is in a sector that its loop
  has not passed, so that its single pass leaves none.

The argument. A page becomes dirty in five places: the preamble, a descriptor
and a block of data in `add_file`, the preamble and a block of data in
`delete_file`. Each comes after a `read_sector` of its sector, and that of a
descriptor is the one `find_next_free_block` made when it chose the block.
`read_sector` leaves no page of its sector unknown, and nothing makes a
page unknown again but `format_chip` and `check_file`, which run when nothing
is dirty: that is where `WritesAwaitSync` is needed, and why a page that
`read_block` reloads loses no change. When the thread ends, its statuses have
no dirty page, and they replace the GUI's. The lemmas on `Fetch`, `read_block`,
`read_sector`, `update_cache_status` and `Put` are in `RomFatProofs`: what each
preserves of the types, of `SectorLoaded` and of `NoDirty`.

That a synced page holds what the chip holds needs to know what the thread will
have made of the chip when it ends, and for this what an add and a delete may
leave in the cache. `CacheInv` is `IInv` with, as long as no crash has
happened and the menu is left alone in a synchronization, `Kept`:

* `Right`: what the cache says of the chip, with the statuses as the thread will
  leave them (`Mirror`). While nothing is to be erased (`AddRight`) a synced
  page holds what the chip holds; a page to write differs from the chip only in
  cells that are erased there, so that programming, which can only clear bits,
  leaves what was meant (`HeldOrBlank`); and a free block is blank, on the chip
  (`FreeIn`) and on it as the cache sees it (`FreeInCache`). While sectors are to
  be erased (`DeleteRight`) all pages to write are marked so, a synced page of
  another sector holds what the chip holds, and the chip *after* these sectors
  have been written (`After`) will have blank free blocks;
* `UsedFirst`, part of `AddRight`: a block with data to write is marked used, on
  the chip or in a sector that the thread reaches before that of the data. A
  rejected burn may end the program between two sectors of an add, and still
  leaves no free block with data;
* `ThreadAlone`: the thread works on what the GUI handed over, with the port
  open, and a sector about to be burnt is the first to write, and erased if
  any page is to be;
* `Acting`, `FormatProgress`: what the loops of an add, a delete and a format
  have done so far. A format makes the chip blank but for its marks.

The cells it is about (`Tracked`) are all of them, or preambles and data if
files that lie in two banks may be deleted: then `delete_file` wipes descriptors
that are never written (`unsound_vouched`). The two conditions are real. A crash
between the erase and the burn of a sector, or the death of a thread whose port
the menu has closed, leaves data in a block that is not marked used; an add that
takes the block burns over it.

TLC checks `TypeOK` and `Coherent` in `core`, `DirtySectorLoaded` and
`NothingPending` in `liveness`, `DataCoherent` in `crash`, on the same module the
proofs are about. It checked `CacheInv` on the instances of `core` (635 thousand
states) and `crash` (686 thousand) before it was proved.

### DirectoryProofs (with TapeMonitorProofs)

| Theorem | Statement |
|---|---|
| `DirectoryInvariance` | `Spec => []DirInv` |
| `DirectoryStaysSound` | `~UseMenuInSync` and `~SpanningDelete` give `Spec => [](crashes = 0 => DirectorySound)` |
| `NoBlockLeaks` | the same for `BlocksAccounted` |
| `AlarmsAreTrue` | the same for `NoFalseAlarm`, if every program has a number of blocks that is not 0 modulo 256 |
| `HistoryInvariance` | `HistSpec => []HistInv` |
| `ChecksAreTrue` | under the same conditions, with programs of 1 to 255 blocks and no crash: `HistSpec => CheckVouches /\ CheckVouchesData` |
| `AddSparesOthers` | under the same conditions, with programs of 1 to 255 blocks: `HistSpec => [](crashes = 0 => AddKeepsOthers)`, and `AddKeepsOthers` holds after the first crash too |
| `StoreIsImplemented` | under the conditions of `ChecksAreTrue`: `HistSpec => StoreImplemented`, the GUI implements `FileStore` |

The conditions are those under which the properties hold: a spanning delete
leaves descriptors in the cache that are not on the chip (`unsound_vouched`), the
menu can take the port from the thread, and a crash in a synchronization leaves
a half-written directory (`crash` says what holds after one). The exceptions of
the program's own, which end it too, are all included. A program whose number of
blocks is 0 in a byte is entered nowhere and then checked, and the check of an
erased block raises an alarm. Of a program of more than 255 blocks only as
many are added as its number of blocks says modulo 256 (`nrblocks` is a byte): so
that a file holds what was asked for is proved of programs of 1 to 255 blocks.

`Directory` says of a chip that its preambles end at the first 0xFF and name
no block twice, that links lead upwards, that all files read back, that no two
share a block and that every block is in a file or blank. Of the chip itself this
holds only between tasks. The invariant `DirInv` is `CacheInv` with, under the
conditions above, `DirKept` and `CheckKept`:

* while no synchronization is under way the chip is a `Directory`;
* from the end of an add or a delete to the end of its synchronization `Target`
  is, the chip as it will be once the pages to write have been written
  (`After`, with the statuses of the thread);
* in the middle of an add `Target` is the directory on the chip with a file begun
  (`Growing`): entered in its preamble, so many blocks filled and linked, the
  next one blank and all blocks before that one used; in the middle of a delete it is
  the directory without the file's entry, with so many of its blocks blank
  (`Shrinking`);
* the walk of a chain has followed that of the chip, and the blocks that `files`
  keeps of a file are its chain (`LinkTrue`, `KnownFiles`): so the delete wipes
  the file's blocks, all of them and no other;
* the check after an add is of a file in the directory (`CheckKept`), with
  descriptors that have been read.

The argument. By `Right` (of `CacheInv`) the cache shows what the chip will be,
and a write to the cache changes `Target` there and nowhere else. Because blocks are
taken from the first free one on and freed blocks are blank, a new link leads
upwards to a blank block, and the chain of the file that grows is longer by one
(`GrowthKeeps`); other chains have no cell in common with it. In a delete
the blocks wiped are of one file, and no other file has a link to them. The thread's
steps leave `Target` alone, and when no page is left to write it is the chip. That no
sector is burnt over another content (`NeverRejected`) follows too: in such a run
no burn is rejected.

The last four theorems compare the files on the chip with those it held when
the task began, which the history keeps in `stored`. `HistInv` is `DirInv` with,
under the conditions above, `HistKept`:

* `TaskTurns`: outside a synchronization the chip, and in one `Target`, holds the
  files of `stored`, one more, all but one, or none, and as long as the task has
  changed nothing, exactly those of `stored`;
* `AddTask`: in the synchronization of an add no sector that is still to be
  written is erased, `Target` holds the new file with what was asked for as its
  contents, and what the files of `stored` are made of (their entries, with the
  entries before them, their links, descriptors and data) is on the chip already
  as it is in `Target` (`AllIntact`);
* when the chain is followed for the check, the new file is on the chip.

An add only programs bits of erased cells, so on the way every cell of the chip
is as it was or as it will be. A file that is `Intact` reads back from such a
chip, with its contents: hence `AddSparesOthers`, in the middle of a
synchronization and in the crash that ends it. When the program is quiet the chip
is `Target`, so the turn of the task is a step of `FileStore`. That the new
file has room follows from the disjoint chains (`RoomForOneMore`). The walk of the
check has seen the chain of the file, which has as many blocks as the program:
`ChecksAreTrue`. Its condition that no file in two banks is deleted is needed,
as `unsound_vouched` shows; the store loses and mangles files in a crash, hence
the condition on crashes.

TLC checked `DirInv` and `HistKept` on the instance of `core` (635 thousand states)
before they were proved.

### UtilityProofs (with RomFatProofs)

For chips of any size, any programs, tapes of whole files that may fail at any
block, and any number of losses of power (`GeometryAssumption`,
`WordAssumption`, `UseAssumption`, `TapeAssumption`):

| Theorem | Statement |
|---|---|
| `UtilInvariance` | `UtilSpec => []UtilIInv` |
| `UtilTyped` | `UtilSpec => []UtilTypeOK` |
| `NoBlockAstray` | `UtilSpec => []NoBlockLost` |
| `CopiedIsThere` | `WatchedSpec => CopiedWhileRoom` |
| `CopyAtomic` | `WatchedSpec => CopyIsAtomic`: the utility implements `FileStore` |

Chains are what these properties are about, and none is inductive. `UtilIInv` is
the conjunction of

* `UtilTypeOK`;
* `ChipIInv`, what holds of the chip after every single write, and so after a
  loss of power too: a block not marked used is erased (`FreeIsErased`); blocks
  are used from the first one on (`UsedFromFirst`); preambles and links name
  used blocks (`NamesUsed`); after the first erased entry of a preamble all are
  (`PreambleEnds`); links lead upwards (`Upward`), no two to the same block
  (`LinkedOnce`) and none to the start of a file (`StartsUnlinked`);
* `TapeIInv`: what is still on the tape are whole files, and what has been read
  of one is the beginning of a program whose rest comes next (`Ahead`);
* `StoringIInv`: in the middle of a file, the blocks before are filled and linked
  (`Copied`), of the writes of this block the first so many have been made and
  the cells of the others are erased, and nothing leads to it yet (`Fresh`);
* `NoneAstray`: without a loss of power every used block is reached from an
  entry of a preamble, but the one being written.

The argument. Since links lead upwards a chain is not cyclic and ends after at
most as many steps as there are blocks (`MAX_LINKS` is never met), and since each
block is linked once two chains share none. A write to a block nothing leads to
changes no file (`OnlyBlock`); only two kinds of write can change what
a reader finds: the entry in the preamble and the link to the next block. Until
the last block is linked the chain is shorter than its descriptors say, so
the file does not read back and is in no store; the entry of a file of one block
or the last link of a longer one then adds it whole, as on the tape. For the
capacity of `FileStore` the blocks of disjoint chains are counted. That no
block is lost follows by way of the least lost block: it is linked from a
lower one or from a preamble, and a lower one is reached.

TLC checked `UtilIInv` on the instance of `tape` (622,966 states) before it was
proved.

The chain of a file is a recursive function. Facts about it for every length are
proved without the induction rule, from the least number at which one fails
(`LeastNumber` in `RomFatProofs`); the lemmas there say when two chips have the
same chain, that an upward chain ends, and where it can be cut.

### LauncherProofs (with RomFatProofs)

For chips, cartridges, pages, key buffers and memories of any size and for any
keys (`GeometryAssumption`, `WordAssumption`, `MemoryAssumption`,
`LauncherAssumption`):

| Theorem | Statement |
|---|---|
| `LauncherInvariance` | `LauncherSpec => []LauncherIInv` |
| `LauncherTyped` | `LauncherSpec => []LauncherTypeOK` |
| `RowsNumbered` | `LauncherSpec => []RowsAreNumbered` |
| `AskedIsStarted` | `LauncherSpec => []StartedIsAsked` |
| `GreenMeansLoaded` | `LauncherSpec => []GreenIsLoaded` |

Of the cartridge nothing is assumed but its layout and that each preamble ends
within its page: links may lead anywhere, also in a circle, and descriptors may
say anything. Nothing is assumed of the length and the address in a header: `add_file`
corrects the file length (`fileallocationtable.cpp:346-350`, bytes 0x22-0x23), but the
launcher takes the record length (0x24-0x25), which may be zero or more than the blocks
have. `StartedIsAsked` says what is copied for each of them.

`LauncherIInv` adds to the types and to the properties

* `SetUp`: memory is as the bootstrap left it until a program is started, and
  the launcher's loop runs with a cartridge only;
* `PageFits`: a page begins at the first program, or so that it is full;
* `LoadIInv`: while a program is loaded the list of blocks is a path that begins
  where the number typed says; when it is complete it is the whole chain, and
  the areas of the RAM hold the data of as many of its blocks as have been
  copied. This is claimed only of programs that do not reach the list itself;
* `ReadyIInv`: from then until the start the blocks, the deploy address and the
  size stay, for all that the keys still pending may scroll or show. This is claimed
  only of sound programs that do not reach the page, at the lower address.

The argument for the directory. The launcher has no table of programs: to show a
row and to load a number it counts through the preambles anew (`Seek`). What it
finds is compared with `Directory`, which numbers the entries at once: number `n`
is the entry before which there are `n - 1`. So many lie in the banks before
(`Before`) and in the slots before, and a bank has as many as there are slots up to
its first `0xFF` (`EndOf`, `BeforeNext`). Each round of the loop keeps the number
of programs seen equal to that count (`RoundKeeps`), and a loop of `NBANKS * SLOTS`
rounds is enough to come to the end. TLC checked `LauncherIInv` on the instance
of `launcher` (402,673 states) before it was proved.

### SerialLinkProofs

For any chip, data and bounds on rounds, messages and garbled ones
(`LinkAssumption`, `BitAndAssumption`): `LinkInvariance` (`[]LinkIInv`),
`LinkTyped`, `ReadsAreTrue` (`[]ReadIsTrue`), `HarmNoticed` (`[]HarmIsNoticed`)
and `BanksAreThere` (`KnownIsThere`).

What was sent and has not been handled, the read buffer, the line, the command
the board is at and the wire, is one queue. Why may a late answer never be
taken for another one? Because an answer is known by its echo, and a command
cannot be given while an older one with the same name is under way.
`LinkIInv` says which commands that queue can hold while a port is being opened
(`WhenStarting`: what lies behind a `READINFO` are more of them, so once one is
answered nothing older is left), between two commands (`WhenBetween`) and in
one (`WhenWorking`); that an answer follows its echo (`EchoAnswered`); that the
command waited for is under way exactly once, last of all, and what the chip and
the answer are at each of its stages (`OnWire`, `OnBoard`, `OnLine`, `InBuffer`,
`NotYet`); and that after the data of a burn is sent nothing else is
under way, and a checksum tells what was burnt or what the sector
then holds (`Burning`). TLC checked it on the
instance of `link` first.

### SlotsProofs

For any boards, files and capacity (`SlotsAssumption`): `SlotsInvariance`
(`[]SlotsIInv`), `SlotsTyped`, `RowsShowFiles` (`[]RowsAreFiles`), `FatIsThere`
(`[]NullAfterDecline`), `PortIsFree` (`[]PortAfterFailure`), `SyncIsAlone`
(`OneSync`) and `OnlyUnopenedLeftOut` (`[]SaveAllWhole`).

`SlotsIInv` adds to the types what the code relies on without saying so:
buttons that need a board or the number of banks are enabled only when there
is one (`KnownWhenUsed`); a synchronization has a FAT and no button
(`SyncAlone`); without a FAT nothing that uses one is enabled, shown or under
way, unless a format was declined (`NoFat`); between two slots no interface
keeps its port open, unless an identification failed (`PortsFree`); the table
is empty or that of the FAT whenever its buttons can be pressed (`RowsMatch`).

For Save all the loop needs `SaveAllIInv`: every file it found at its start is
saved, or could not be opened, or lies at its counter or beyond
(`SavedOrAhead`). An add in between may move files, but only to later rows; and
since the rows change when the synchronization ends and not when the file is
added, the directory that is to come must already be one in which every file has
moved to the same or a later row (`MovedOn`), and the same as the one there is
when no synchronization is under way (`Settled`).

### FlasherProofs

For sectors of any size, any number of them and of polls, and any contents
(`FlasherAssumption`): `FlasherInvariance` (`[]FlasherIInv`), `FlasherTyped`,
`ShownTells` (`[]ShownIsThere`), `RunEndsWell` (`[]RunRepairs`) and `RestIsKept`
(`RestKept`).

`WithinBounds` says where the program is in the chip and among the checksums;
`Progress` how far a run without mishap has come (which sectors are wiped, which
bytes are copied); `ChecksumsMade` what each checksum was made of: the page that
the ROM holds and will hold, as no wipe is under way any more, or what a chip
says while it wipes. The latter happens only after a mishap, and no launcher
has such a page: so checksums as expected were made of the ROM.

### FlasherProofs, on Checksums

For data of any length and content: `ChecksumsAgree` (`[]SameChecksum`) and
`ChecksumsTyped`. The invariant relates the three after every round, in the
middle of a byte too: the lower sixteen bits of the C++ sum are the script's; the
bits above, which the sign of a character and the shifts have set, never come
back into them (a reduction clears them, a test looks at bit sixteen only, which
is moved there from below); a and e are the script's upper and lower byte, and d
lags behind until the eighth round.

### What stays with TLC

The liveness properties (`ChangesAreWritten`, `ComesBackFromStoring`,
 `LoadEnds`, `CommandEnds`, `FlashEnds`): fairness is
beyond the prover. Of the whole GUI program what holds of the directory after
a crash and after deletes of files in two banks: the runs `crash` and
`unsound_vouched` are about those, and the theorems on `AddKeepsOthers`,
`CheckVouchesData` and `StoreImplemented` are not, but for the first crash in an
add.

## Not modelled, and why

* `read_bank`, `read_block_cache_bank`, `burn_block` and `write_address`: no
  slot reaches them.
* `FlashThread` and `ReadThread`: never constructed.
* The contents of a file as the PC stores it (CAS layout, names, sizes), the
  hex view, the block map, the dialogs' looks, logging, File > Open, the
  emulator that `slot_run` starts: display and I/O.
* The board's firmware, the monitor ROM and the chips: in other repositories or
  hardware; modelled from how the code here uses them and marked external.
* Packaging, build scripts, CI and the PCB: no behaviour of the system.
* Two programs with one cartridge in turn without a new access in between (a
  cache that outlives the change of hands), and a link of which one byte is
  written: hazards without a property, with the reason at each of them.

## Plan

Done: the core with its history and its abstract store, the cassette utility,
the slots, the serial link, the launcher with the bootstrap, the flasher and the
checksums; theorems on each of them.
What could follow:

* **CartridgeInTurn**: the program and the cassette utility on one cartridge
  in turn, with a link that is written in two bytes.
