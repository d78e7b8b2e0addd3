------------------------------- MODULE Launcher -------------------------------
(***************************************************************************)
(* The launcher of the P2000T: it lists the programs of a cartridge, page  *)
(* by page, and loads the one whose number is typed to the external RAM,   *)
(* from where the bootstrap copies it.  The page on screen and the list of *)
(* blocks to load are kept in that RAM too.                                *)
(***************************************************************************)
EXTENDS Cartridge, Bootstrap

CONSTANTS
    Cartridges,      \* the cartridges a user may put in
    PAGE,            \* programs shown at a time: 16
    MAXDIGITS,       \* digits of a number typed: 3
    KEYBUFFER,       \* keys the monitor keeps: 12
    Digits,          \* the digit keys the user presses
    AREAS,           \* 0x400-byte areas of the external RAM: 32
    LIST_AREA,       \* the one that holds the page, at 0x7000: 28
    LINK_AREA,       \* the one with list of blocks and sizes, at 0x7D00: 31
    MAXCOPIED,       \* bound on the blocks copied by a list that was overwritten
    SpiltAddresses,  \* what the bytes of a program may say where the address was
    BLOCKBYTES,      \* bytes in a block: 0x400
    Noise,           \* what the external RAM may hold when switched on
    HeaderSize(_),   \* the number of bytes a program's header gives
    HeaderDeploy(_)  \* the address it is to be copied to

ASSUME LauncherAssumption ==
    /\ Cartridges \subseteq Memory
    \* A bank has fewer files than a preamble has entries.
    /\ \A m \in Cartridges, b \in Bank : \E i \in Slot : m[PreCell(b, i)] = ERASED
    /\ PAGE \in Nat \ {0} /\ MAXDIGITS \in Nat /\ KEYBUFFER \in Nat \ {0}
    /\ Digits \subseteq 0 .. 9
    /\ {LIST_AREA, LINK_AREA, AREAS, MAXCOPIED} \subseteq Nat
    /\ LIST_AREA < LINK_AREA /\ LINK_AREA < AREAS
    /\ SpiltAddresses \subseteq Address
    /\ BLOCKBYTES \in Nat \ {0} /\ Noise \subseteq Word
    /\ \A w \in Word : HeaderSize(w) \in Address /\ HeaderDeploy(w) \in Address

VARIABLES
    rom,     \* the cartridge in the slot, NoCartridge if there is none
    ram,     \* areas of the external RAM: the page, or the word of a block
    out,     \* deploy address and size, at its end
    mem,     \* the memory of the machine
    keys,    \* keymem: the keys pressed and not yet forgotten
    main,    \* the activation of main and handle_keybuffer_return
    screen   \* the programs shown and the colours of the blocks checked

launcherVars == <<rom, ram, out, mem, keys, main, screen>>

NoCartridge == <<>>
Key == ({"n", "p", "v", "back", "enter"} \X {0}) \cup ({"digit"} \X Digits)

\* A word of data in an area, or the page of programs.
Area == [kind : {"word"}, word : Word] \cup [kind : {"page"}, rows : Seq(Locs)]
WordArea(w)    == [kind |-> "word", word |-> w]
PageArea(rows) == [kind |-> "page", rows |-> rows]
ByteOf(area, j) == <<"ram", area, j>>
ramByte ==
    [j \in Address |-> ByteOf(ram[(j \div BLOCKBYTES) % AREAS], j % BLOCKBYTES)]

Main == [pc : {"boot", "nochip", "loop", "reset", "link", "copy", "wait", "running"},
         offset : Nat, typed : Seq(0 .. 9), validate : BOOLEAN,
         pos : Nat,               \* i, the key to look at next
         exit : BOOLEAN,          \* exit_loop = 0
         number : Nat,            \* progid, 0 if none was asked for
         link : Seq(Locs), ctr : Nat, size : Address]

LauncherTypeOK ==
    /\ rom \in Cartridges \cup {NoCartridge}
    /\ ram \in [0 .. AREAS - 1 -> Area]
    /\ \A a \in 0 .. AREAS - 1 : ram[a].kind = "page" => a = LIST_AREA
    /\ out \in [deploy : Address, size : Address]
    /\ DOMAIN mem = Writable
    /\ keys \in Seq(Key) /\ Len(keys) <= KEYBUFFER
    /\ main \in Main /\ Len(main.typed) <= MAXDIGITS
    /\ screen \in [first : Nat, rows : Seq(Locs), green : Seq(BOOLEAN)]

\* What the launcher's own variables are when it has just been loaded.
Started == [pc |-> "boot", offset |-> 0, typed |-> <<>>, validate |-> TRUE, pos |-> 1,
            exit |-> FALSE, number |-> 0, link |-> <<>>, ctr |-> 0, size |-> 0]
Dark == [first |-> 0, rows |-> <<>>, green |-> <<>>]
NothingOut == [deploy |-> 0, size |-> 0]
Cold == inject([a \in Writable |-> ZERO])
LauncherImage == [a \in 0 .. NUMBYTES - 1 |-> <<"code", a>>]

SomeRom == Cartridges \cup {NoCartridge}
SomeRam == {[a \in 0 .. AREAS - 1 |-> WordArea(w)] : w \in Noise}

LauncherInit ==
    /\ rom \in SomeRom
    /\ ram \in SomeRam
    /\ out = NothingOut
    /\ mem = Cold
    /\ keys = <<>>
    /\ main = Started
    /\ screen = Dark

-----------------------------------------------------------------------------
(***************************************************************************)
(* The directory as the launcher reads it: the loop that all its searches  *)
(* share steps through the preambles, a 0xFF leads to the next bank.       *)
(***************************************************************************)
\* One round of the loop: c.n programs have been seen, the last one at c.at.
ReadEntry(c) ==
    LET e == rom[PreCell(c.bank, c.addr)]
    IN  IF e = ERASED THEN [c EXCEPT !.bank = @ + 1, !.addr = 0]
                      ELSE [c EXCEPT !.addr = @ + 1, !.n = @ + 1,
                                     !.at = Loc(c.bank, e)]

\* Where the loop stands when n programs have been seen, or no bank is left.
Seek(n) ==
    LET loop[k \in 0 .. NBANKS * SLOTS] ==
            IF k = 0 THEN [bank |-> 0, addr |-> 0, n |-> 0, at |-> NoLoc]
            ELSE LET c == loop[k - 1]
                 IN  IF c.n < n /\ c.bank < NBANKS THEN ReadEntry(c) ELSE c
    IN  loop[NBANKS * SLOTS]

get_number_programs == Seek(NBANKS * SLOTS).n
find_bankblock(id)  == Seek(id).at

\* Mutant: one program too few is skipped.
PageFrom(offset, n) == [i \in 1 .. n |-> find_bankblock(offset + i - 1)]

\* The programs read_programs_offset writes to the page.
ProgramsFrom(offset, n) == [i \in 1 .. n |-> find_bankblock(offset + i)]

\* read_programs_offset and print_programs.
ShowPage(offset) ==
    LET left == get_number_programs - offset
        n    == IF left < PAGE THEN left ELSE PAGE
        rows == ProgramsFrom(offset, n)
    IN  /\ ram' = [ram EXCEPT ![LIST_AREA] = PageArea(rows)]
        /\ screen' = [first |-> offset, rows |-> rows, green |-> <<>>]

-----------------------------------------------------------------------------
(***************************************************************************)
(* Power, reset and the keyboard.                                          *)
(***************************************************************************)
\* Off and on again, the cartridge changed or not, or a reset, which the
\* external RAM outlives.
SwitchOn == /\ main.pc # "boot"
            /\ rom' \in SomeRom
            /\ ram' \in SomeRam \cup {ram}
            /\ mem' = Cold
            /\ keys' = <<>>
            /\ main' = Started
            /\ screen' = Dark
            /\ out' = NothingOut

\* loadcode of the bootstrap and init of the launcher, which goes no further
\* without a chip; then main, up to its loop.
Boot == /\ main.pc = "boot"
        /\ mem' = loadcode(mem, LauncherImage)
        /\ IF rom = NoCartridge
           THEN /\ main' = [main EXCEPT !.pc = "nochip"]
                /\ UNCHANGED <<ram, screen>>
           ELSE /\ main' = [main EXCEPT !.pc = "loop"]
                /\ ShowPage(0)
        /\ UNCHANGED <<rom, out, keys>>

Press(k) == /\ main.pc \notin {"boot", "running"}
            /\ Len(keys) < KEYBUFFER
            /\ keys' = Append(keys, k)
            /\ UNCHANGED <<rom, ram, out, mem, main, screen>>

-----------------------------------------------------------------------------
(***************************************************************************)
(* The keys of the loop of main.                                           *)
(***************************************************************************)
\* The key at hand, and the loop gone on to the next one.
AtKey(k) == main.pc = "loop" /\ main.pos <= Len(keys) /\ keys[main.pos] = k
Passed == [main EXCEPT !.pos = @ + 1]

\* Mutant: the last page may begin too late.
PastTheEnd(offset, n) == IF offset + PAGE < n THEN offset + PAGE ELSE n - PAGE

NextOffset(offset, n) ==
    IF offset + PAGE < n - PAGE THEN offset + PAGE ELSE n - PAGE
PreviousOffset(offset) == IF offset > PAGE THEN offset - PAGE ELSE 0

Scroll(k, offset) ==
    /\ AtKey(k)
    /\ IF get_number_programs <= PAGE
       THEN main' = Passed /\ UNCHANGED <<ram, screen>>
       ELSE main' = [Passed EXCEPT !.offset = offset] /\ ShowPage(offset)
    /\ UNCHANGED <<rom, out, mem, keys>>
PageDown == Scroll(<<"n", 0>>, NextOffset(main.offset, get_number_programs))
PageUp   == Scroll(<<"p", 0>>, PreviousOffset(main.offset))

ToggleValidation ==
    /\ AtKey(<<"v", 0>>)
    /\ main' = [Passed EXCEPT !.validate = ~@]
    /\ UNCHANGED <<rom, ram, out, mem, keys, screen>>

\* handle_key
TypeDigit == \E d \in Digits :
    /\ AtKey(<<"digit", d>>)
    /\ main' = IF Len(main.typed) < MAXDIGITS
               THEN [Passed EXCEPT !.typed = Append(@, d)] ELSE Passed
    /\ UNCHANGED <<rom, ram, out, mem, keys, screen>>
Backspace ==
    /\ AtKey(<<"back", 0>>)
    /\ main' = [Passed EXCEPT !.typed =
                    IF @ = <<>> THEN @ ELSE SubSeq(@, 1, Len(@) - 1)]
    /\ UNCHANGED <<rom, ram, out, mem, keys, screen>>

\* strtoul of the key buffer
strtoul(typed) ==
    LET value[k \in 0 .. Len(typed)] ==
            IF k = 0 THEN 0 ELSE 10 * value[k - 1] + typed[k]
    IN  value[Len(typed)]

\* Enter, with a number that is none.
EnterInvalid ==
    /\ AtKey(<<"enter", 0>>)
    /\ strtoul(main.typed) \notin 1 .. get_number_programs
    /\ main' = [Passed EXCEPT !.typed = <<>>, !.exit = FALSE, !.number = 0]
    /\ ShowPage(main.offset)
    /\ UNCHANGED <<rom, out, mem, keys>>

get_deploy_location(l) == HeaderDeploy(rom[HdrCell(l)])
prgsize(l)             == HeaderSize(rom[HdrCell(l)])

\* Enter: the deploy address is written, and the walk of the chain begins.
EnterNumber ==
    /\ AtKey(<<"enter", 0>>)
    /\ strtoul(main.typed) \in 1 .. get_number_programs
    /\ LET id == strtoul(main.typed)
           l  == find_bankblock(id)
       IN  /\ out' = [out EXCEPT !.deploy = get_deploy_location(l)]
           /\ main' = [main EXCEPT !.pc = "link", !.number = id, !.link = <<l>>,
                                   !.size = prgsize(l)]
    /\ screen' = [Dark EXCEPT !.first = main.offset]
    /\ UNCHANGED <<rom, ram, mem, keys>>

\* The round ends; keys pressed before they are forgotten are lost.
RoundDone == /\ main.pc = "loop" /\ keys # <<>> /\ main.pos > Len(keys)
             /\ main' = [main EXCEPT !.pc = "reset"]
             /\ UNCHANGED <<rom, ram, out, mem, keys, screen>>

\* keymem[0x0C] = 0.  If a program is loaded main returns to the bootstrap.
ForgetKeys ==
    /\ main.pc = "reset"
    /\ keys' = <<>>
    /\ IF main.exit
       THEN /\ main' = [Started EXCEPT !.pc = "running", !.number = main.number]
            /\ mem' = loadrom(zeroram(mem), ramByte, out)
       ELSE /\ main' = [main EXCEPT !.pc = "loop", !.pos = 1]
            /\ UNCHANGED mem
    /\ UNCHANGED <<rom, ram, out, screen>>

-----------------------------------------------------------------------------
(***************************************************************************)
(* Loading a program.                                                      *)
(***************************************************************************)
\* Mutant: the bank of the first block stays set.
LinkInFirstBank(s) == rom[NextCell(Loc(BankOf(s[1]), BlockOf(s[Len(s)])))]

\* The link of the last block of s, in the bank of that block.
LinkAfter(s) == rom[NextCell(s[Len(s)])]

\* build_linked_list goes on until a link is 0xFF; a cyclic chain is walked
\* for ever, which is no further step here.
BuildLinkedList ==
    /\ main.pc = "link"
    /\ LET next == LinkAfter(main.link)
       IN  IF next = NoLoc
           THEN main' = [main EXCEPT !.pc = "copy", !.ctr = 0]
           ELSE /\ Len(main.link) <= NBANKS * NBLOCKS
                /\ main' = [main EXCEPT !.link = Append(@, next)]
    /\ UNCHANGED <<rom, ram, out, mem, keys, screen>>

\* What the bytes of a program may say where the list of blocks was: that it
\* ends, or any block.
Spilt == {<<>>} \cup {<<l>> : l \in Locs}

\* Mutant: the second block of the list is taken first.
SecondFirst(k) == IF Len(main.link) < 2 \/ k > 2 THEN main.link[k] ELSE main.link[3 - k]

\* The k-th entry of the list of blocks.
Listing(k) == main.link[k]

\* copyprogramlinkedlist, one block.  The one that falls on the list of blocks
\* and on the address after it overwrites them; from then on each entry is
\* whatever the bytes of the program say.  As long as none says that the list
\* ends the copying goes on, which beyond MAXCOPIED blocks is no further step.
CopyBlock ==
    /\ main.pc = "copy" /\ main.ctr < Len(main.link)
    /\ main.ctr > LINK_AREA => main.ctr < MAXCOPIED
    /\ ram' = [ram EXCEPT ![main.ctr % AREAS] =
                   WordArea(rom[DataCell(Listing(main.ctr + 1))])]
    /\ IF main.ctr < LINK_AREA
       THEN main' = [main EXCEPT !.ctr = @ + 1]
       ELSE \E s \in Spilt :
               main' = [main EXCEPT !.link = SubSeq(@, 1, main.ctr + 1) \o s,
                                    !.ctr = @ + 1]
    /\ IF main.ctr % AREAS = LINK_AREA
       THEN \E a \in SpiltAddresses : out' = [out EXCEPT !.deploy = a]
       ELSE UNCHANGED out
    /\ UNCHANGED <<rom, mem, keys, screen>>

\* The end of handle_keybuffer_return: the size is written last.
Loaded == /\ out' = [out EXCEPT !.size = main.size]
          /\ main' = [Passed EXCEPT !.pc = "loop", !.exit = TRUE, !.link = <<>>,
                                   !.ctr = 0, !.size = 0]

AllCopied == main.pc = "copy" /\ main.ctr = Len(main.link)

FinishUnchecked == /\ AllCopied /\ ~main.validate
                   /\ Loaded
                   /\ UNCHANGED <<rom, ram, mem, keys, screen>>

\* validatelinkedlist colours each block, and a key is waited for.
CheckWord(k) == LET a == ram[(k - 1) % AREAS]
                IN  a.kind = "word" /\ Crc16(a.word) = rom[CrcCell(main.link[k])]
ValidateLinkedList ==
    /\ AllCopied /\ main.validate /\ main.ctr <= LINK_AREA
    /\ screen' = [screen EXCEPT !.green = [k \in DOMAIN main.link |-> CheckWord(k)]]
    /\ keys' = <<>>
    /\ main' = [main EXCEPT !.pc = "wait"]
    /\ UNCHANGED <<rom, ram, out, mem>>

\* A list that was overwritten is read as it is now; the colours of what it
\* lists are left out, and it may have no end.
ValidateSpilt ==
    /\ AllCopied /\ main.validate /\ main.ctr > LINK_AREA
    /\ keys' = <<>>
    /\ main' = [main EXCEPT !.pc = "wait"]
    /\ UNCHANGED <<rom, ram, out, mem, screen>>

AnyKey == /\ main.pc = "wait" /\ keys # <<>>
          /\ Loaded
          /\ UNCHANGED <<rom, ram, mem, keys, screen>>

\* The keyboard is fair to nobody; the processor runs on.
LoadSteps == \/ BuildLinkedList
             \/ CopyBlock
             \/ FinishUnchecked
             \/ ValidateLinkedList

LauncherNext == \/ SwitchOn
                \/ Boot
                \/ \E k \in Key : Press(k)
                \/ PageDown
                \/ PageUp
                \/ ToggleValidation
                \/ TypeDigit
                \/ Backspace
                \/ EnterInvalid
                \/ EnterNumber
                \/ RoundDone
                \/ ForgetKeys
                \/ LoadSteps
                \/ ValidateSpilt
                \/ AnyKey

LauncherSpec == LauncherInit /\ [][LauncherNext]_launcherVars
FairLauncherSpec == LauncherSpec /\ WF_launcherVars(LoadSteps)

-----------------------------------------------------------------------------
(***************************************************************************)
(* What the launcher promises.                                             *)
(***************************************************************************)
\* The directory, bank by bank, each in the order of its preamble.
Directory ==
    LET before(b) == Cardinality({e \in PreCells : e[2] < b /\ Listed(rom, e[2], e[3])})
        all == {e \in Bank \X Slot : Listed(rom, e[1], e[2])}
    IN  [n \in 1 .. Cardinality(all) |->
            LET e == CHOOSE e \in all : before(e[1]) + e[2] + 1 = n
            IN  Loc(e[1], rom[PreCell(e[1], e[2])])]

AtMenu == main.pc \in {"loop", "reset"} /\ ~main.exit

\* Row i of a page shows the program that number first + i loads, and every
\* page but that of a small directory is full (read_programs_offset 79-163,
\* find_bankblock 322-359 and the scrolling of main 47-73 agree).
RowsAreNumbered ==
    AtMenu => /\ screen.rows = [i \in 1 .. Len(screen.rows) |->
                                    Directory[screen.first + i]]
              /\ Len(screen.rows) = IF Len(Directory) < PAGE THEN Len(Directory)
                                                             ELSE PAGE
Asked == Directory[main.number]
AskedData == FilesOn(rom)[Asked]
AskedSize == prgsize(Asked)
AskedSafe == Asked \in DOMAIN FilesOn(rom) /\ Len(AskedData) <= LIST_AREA

\* The bytes the header asks for: none of them means all that there are.
Extent == IF AskedSize = 0 THEN MEMSIZE ELSE AskedSize
AskedOffset(a) == Offset(a, get_deploy_location(Asked))
Covers(a) == AskedOffset(a) < Extent
InData(a) == AskedOffset(a) < BLOCKBYTES * Len(AskedData)
AskedByte(a) == ByteOf(WordArea(AskedData[1 + AskedOffset(a) \div BLOCKBYTES]),
                       AskedOffset(a) % BLOCKBYTES)

\* What BASIC starts is the program whose number was typed, byte for byte, at
\* the address and of the length in its header, as far as its blocks have
\* data; beyond that length only the screen and the bootstrap's variables are
\* written, and BASIC's pointers hold its start and end, unless it covers the
\* place where its address is kept.  So it is whatever keys were pressed
\* before and after, and whatever an earlier load has left in the external
\* RAM, for programs below 0x7000 bytes, which do not reach the page of
\* programs, that are sound on the cartridge
\* (handle_keybuffer_return 154-204, copyprogramlinkedlist 384-412, copydata).
StartedIsAsked ==
    main.pc = "running" /\ AskedSafe =>
        /\ \A a \in Writable \ BasicPointers :
              /\ Covers(a) /\ InData(a) => mem[a] = AskedByte(a)
              /\ ~Covers(a) /\ a \notin Screen \cup BootVariables =>
                    mem[a] = IF a \in CodeArea THEN ZERO ELSE Cold[a]
        /\ ~Covers(DEPLOYADDR) /\ ~Covers(DEPLOYADDR + 1) =>
              /\ WordAt(mem, BASICSTART) = get_deploy_location(Asked)
              /\ \A i \in {0, 2, 4} :
                    WordAt(mem, BASICEND + i)
                        = (get_deploy_location(Asked) + AskedSize) % MEMSIZE

\* The colours tell a program that has been loaded whole from one that has
\* not: all blocks are green if it is sound on the cartridge, and if they are
\* all green the RAM holds data with the checksums of the chain
\* (validatelinkedlist 414-447).
GreenIsLoaded ==
    main.pc = "wait" /\ Len(ChainOf(rom, Asked)) <= LINK_AREA =>
        /\ Asked \in DOMAIN FilesOn(rom) => \A k \in DOMAIN screen.green : screen.green[k]
        /\ (\A k \in DOMAIN screen.green : screen.green[k]) =>
               \A k \in DOMAIN ChainOf(rom, Asked) :
                   /\ ram[k - 1] = WordArea(rom[DataCell(ChainOf(rom, Asked)[k])])
                   /\ Crc16(rom[DataCell(ChainOf(rom, Asked)[k])])
                          = rom[CrcCell(ChainOf(rom, Asked)[k])]

Cyclic == Len(ChainOf(rom, Asked)) > NBANKS * NBLOCKS

\* Once the number of a program that does not reach the list of its blocks is
\* entered, loading ends: with a question for a key, at the menu or in the
\* program (no loop of programs.c 258-447 runs for ever unless the chain on
\* the cartridge is cyclic, or overwrites its own list).
LoadEnds ==
    main.pc = "link" /\ ~Cyclic /\ Len(ChainOf(rom, Asked)) <= LINK_AREA
        ~> main.pc \in {"wait", "loop", "boot", "running"}
=============================================================================
