--------------------------- MODULE CassetteUtility ---------------------------
(***************************************************************************)
(* The cassette utility of the P2000T: it reads programs from a tape and   *)
(* writes them to the cartridge byte by byte, without a cache.  Writes are *)
(* one action each, for the power may go between any two of them.          *)
(***************************************************************************)
EXTENDS RomFat

CONSTANTS
    Tapes,         \* the tapes a user may put in: sequences of TapeBlock
    TapeFails,     \* may the reading of a block fail?
    MaxPowerCuts   \* bound on losses of power while the utility runs

\* A block of tape: its data, and the blocks left of its file with this one.
TapeBlock == [word : Word, left : 1 .. 255]

\* Program p is on tape t from its k-th block on, with the count of what is left.
FileAt(t, k, p) == /\ p # <<>>
                   /\ \A j \in DOMAIN p :
                         /\ k + j - 1 \in DOMAIN t
                         /\ t[k + j - 1] = [word |-> p[j], left |-> Len(p) - j + 1]

\* The monitor ROM writes whole files to a tape, one after the other.
ASSUME TapeAssumption ==
    /\ Tapes \subseteq Seq(TapeBlock)
    /\ \A t \in Tapes : \A k \in DOMAIN t :
          k = 1 \/ t[k - 1].left = 1 => \E p \in Programs : FileAt(t, k, p)
    /\ TapeFails \in BOOLEAN
    /\ MaxPowerCuts \in Nat

VARIABLES
    chip,   \* what the flash holds
    tape,   \* the tape to come, CASSTAT, BLOCKCTR and BUFFER
    util,   \* the activation of main, "off" if it does not run
    cuts    \* losses of power so far

utilVars == <<chip, tape, util, cuts>>

\* "M" is the status that ends the reading of a tape; "E" any other error.
Tape == [rest : Seq(TapeBlock), status : {"ok", "M", "E"}, left : 0 .. 255,
         word : Word]

\* The loop that stores a file: data is what the tape held of it so far.
Storing == [pc : {"write", "entry", "more"}, start : Locs, at : Locs \cup {NoLoc},
            i : Nat, total : 1 .. 255, data : Seq(Word),
            todo : Seq(Cell \X Word)]
Util == [pc : {"off", "ask", "next", "offer", "skip"}] \cup Storing

UtilTypeOK == /\ chip \in Memory
              /\ tape \in Tape
              /\ util \in Util
              /\ cuts \in 0 .. MaxPowerCuts

UtilInit == /\ chip = [x \in Cell |-> FormatImage(x)]
            /\ tape = [rest |-> <<>>, status |-> "ok", left |-> 0, word |-> ERASED]
            /\ util = [pc |-> "off"]
            /\ cuts = 0

Goto(pc) == util' = [pc |-> pc]

-----------------------------------------------------------------------------
(***************************************************************************)
(* The tape.  What the monitor ROM's routine does when a read fails is not *)
(* in this repository: the tape may stay before the block or pass it, with *)
(* or without its header taken.                                            *)
(***************************************************************************)
tape_rewind == \E t \in Tapes :
    tape' = [tape EXCEPT !.rest = t, !.status = "ok"]

ReadFails ==
    /\ TapeFails
    /\ tape.rest # <<>>
    /\ \/ tape' = [tape EXCEPT !.status = "E"]
       \/ \E n \in {tape.left, Head(tape.rest).left} :
             tape' = [tape EXCEPT !.rest = Tail(@), !.left = n, !.status = "E"]

tape_read_block ==
    \/ tape.status = "M" /\ UNCHANGED tape
    \/ /\ tape.status # "M" /\ tape.rest # <<>>
       /\ tape' = [rest |-> Tail(tape.rest), status |-> "ok",
                   left |-> Head(tape.rest).left, word |-> Head(tape.rest).word]
    \/ /\ tape.status # "M" /\ tape.rest = <<>>
       /\ tape' = [tape EXCEPT !.status = "M"]
    \/ tape.status # "M" /\ ReadFails

-----------------------------------------------------------------------------
(***************************************************************************)
(* copyblock and write_startbyte.                                          *)
(***************************************************************************)
FreeOnChip == {l \in Locs : chip[UsedCell(l)] = ERASED}

\* Mutants: no block is taken for the first; the second is, too.
LinkAlways(prev, i, l) == <<<<NextCell(prev), l>>>>
LinkFromThird(prev, i, l) == IF i <= 1 THEN <<>> ELSE <<<<NextCell(prev), l>>>>

\* The write that links block i of a file to the one before.
Link(prev, i, l) == IF i = 0 THEN <<>> ELSE <<<<NextCell(prev), l>>>>

\* Mutant: the block is marked last.
MarkLast(l, prev, i, total, word) ==
    <<<<DataCell(l), word>>, <<HdrCell(l), i + 256 * total>>,
      <<CrcCell(l), Crc16(word)>>>> \o Link(prev, i, l) \o <<<<UsedCell(l), USED>>>>

\* Mutant: the total is that of the blocks copied so far.
CountSoFar(l, prev, i, total, word) ==
    <<<<UsedCell(l), USED>>, <<DataCell(l), word>>,
      <<HdrCell(l), i + 256 * (i + 1)>>, <<CrcCell(l), Crc16(word)>>>>
        \o Link(prev, i, l)

\* What copyblock writes to block l, in its order, and last the link to it.
Writes(l, prev, i, total, word) ==
    <<<<UsedCell(l), USED>>, <<DataCell(l), word>>,
      <<HdrCell(l), i + 256 * total>>, <<CrcCell(l), Crc16(word)>>>>
        \o Link(prev, i, l)

\* copyblock of the block in the buffer.  A chip that is full ends the
\* utility at the first block of a file, and goes unnoticed at later ones.
copyblock(prev, start, i, total, data) ==
    IF FreeOnChip = {}
    THEN IF i = 0 THEN Goto("off")
                  ELSE util' = [pc |-> "more", start |-> start, at |-> NoLoc, i |-> i,
                                total |-> total, data |-> data, todo |-> <<>>]
    ELSE \E l \in FreeOnChip :
            /\ IsFirst(l, FreeOnChip)
            /\ util' = [pc |-> "write", start |-> IF i = 0 THEN l ELSE start,
                        at |-> l, i |-> i, total |-> total, data |-> data,
                        todo |-> Writes(l, prev, i, total, data[Len(data)])]

sst39sf_write_byte ==
    /\ util.pc = "write"
    /\ chip' = [chip EXCEPT ![util.todo[1][1]] = BitAnd(@, util.todo[1][2])]
    /\ util' = [util EXCEPT !.todo = Tail(@),
                            !.pc = IF Len(util.todo) > 1 THEN "write"
                                   ELSE IF util.i = 0 THEN "entry" ELSE "more"]
    /\ UNCHANGED <<tape, cuts>>

\* The first 0xFF of the preamble is overwritten.
write_startbyte ==
    /\ util.pc = "entry"
    /\ \E i \in Slot :
        LET b == BankOf(util.start)
        IN  /\ chip[PreCell(b, i)] = ERASED
            /\ \A j \in 0 .. i - 1 : chip[PreCell(b, j)] # ERASED
            /\ chip' = [chip EXCEPT ![PreCell(b, i)] = BlockOf(util.start)]
    /\ util' = [util EXCEPT !.pc = "more"]
    /\ UNCHANGED <<tape, cuts>>

-----------------------------------------------------------------------------
(***************************************************************************)
(* main.                                                                   *)
(***************************************************************************)
SwitchOn == /\ util.pc = "off"
            /\ Goto("ask")
            /\ UNCHANGED <<chip, tape, cuts>>

\* "Start reading tape?"
StartTape == /\ util.pc = "ask"
             /\ tape_rewind
             /\ Goto("next")
             /\ UNCHANGED <<chip, cuts>>
EndProgram == /\ util.pc = "ask"
              /\ Goto("off")
              /\ UNCHANGED <<chip, tape, cuts>>

ReadProgram ==
    /\ util.pc = "next"
    /\ IF tape.status = "M"
       THEN Goto("ask") /\ UNCHANGED tape
       ELSE /\ tape_read_block
            /\ Goto(IF tape'.status = "ok" THEN "offer" ELSE "ask")
    /\ UNCHANGED <<chip, cuts>>

\* "Copy program to ROM?"
StoreProgram ==
    /\ util.pc = "offer"
    /\ copyblock(NoLoc, NoLoc, 0, tape.left, <<tape.word>>)
    /\ UNCHANGED <<chip, tape, cuts>>
SkipProgram == /\ util.pc = "offer"
               /\ Goto("skip")
               /\ UNCHANGED <<chip, tape, cuts>>

\* Mutant: a block that cannot be read is tried again.
TryAgain == UNCHANGED util

\* A tape that fails within a file ends the utility.
GiveUp == Goto("off")

NextBlock ==
    /\ util.pc = "more" /\ tape.left > 1
    /\ tape_read_block
    /\ IF tape'.status = "ok"
       THEN copyblock(util.at, util.start, util.i + 1, util.total,
                      Append(util.data, tape'.word))
       ELSE GiveUp
    /\ UNCHANGED <<chip, cuts>>

\* "Copied: ... to ROM"
ReportCopied == /\ util.pc = "more" /\ tape.left <= 1
                /\ Goto("next")
                /\ UNCHANGED <<chip, tape, cuts>>

\* The status of the tape is not looked at.
SkipBlock == /\ util.pc = "skip"
             /\ IF tape.left > 1 THEN tape_read_block /\ UNCHANGED util
                                 ELSE Goto("next") /\ UNCHANGED tape
             /\ UNCHANGED <<chip, cuts>>

PowerCut == /\ util.pc # "off" /\ cuts < MaxPowerCuts
            /\ cuts' = cuts + 1
            /\ Goto("off")
            /\ UNCHANGED <<chip, tape>>

StoringSteps == \/ sst39sf_write_byte
                \/ write_startbyte
                \/ ReadProgram
                \/ NextBlock
                \/ ReportCopied

UtilNext == \/ SwitchOn
            \/ StartTape
            \/ EndProgram
            \/ StoreProgram
            \/ SkipProgram
            \/ StoringSteps
            \/ SkipBlock
            \/ PowerCut

UtilSpec == UtilInit /\ [][UtilNext]_utilVars
\* The processor runs on.  Nothing is assumed of the skipping of a program:
\* it goes on for as long as its reads fail.
FairUtilSpec == UtilSpec /\ WF_utilVars(StoringSteps)

-----------------------------------------------------------------------------
WaitsForUser == util.pc \in {"off", "ask", "offer"}

\* The utility comes back to its user (main.c:133, "All done reading this tape")
\* from reading a program and from storing one, however the tape fails: the
\* loop of main.c:108 looks at the status of every read.  The one that skips a
\* program (main.c:124) does not, and of its end nothing is said.
ComesBackFromStoring == (util.pc \notin {"off", "skip"}) ~> WaitsForUser
=============================================================================
