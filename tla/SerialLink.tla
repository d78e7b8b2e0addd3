------------------------------ MODULE SerialLink ------------------------------
(***************************************************************************)
(* The protocol between SerialInterface and the reader board: a command of *)
(* eight characters, echoed by the board, and its answer.  The board is    *)
(* external: it takes commands in order, and may take any time to answer.  *)
(* An exception of any slot but read_chip_id ends the program.             *)
(***************************************************************************)
EXTENDS Integers, Sequences, FiniteSets

CONSTANTS
    Sectors,      \* sectors of the chip
    Blocks,       \* sectors of which a single block is read, its first
    DeviceIds,    \* ids of the chips that are put into the socket
    Data,         \* what a sector may be burnt with
    BitAnd(_, _),    \* bits that are set in both: programming only clears bits
    TRIES,        \* rounds without progress before a wait gives up: 100
    MaxPending,   \* bound on messages under way when a command is sent
    MaxGarbled    \* bound on messages changed on their way

ASSUME LinkAssumption ==
    /\ Blocks \subseteq Sectors
    /\ DeviceIds \subseteq 0 .. 255 /\ Data \subseteq 0 .. 255
    /\ TRIES \in Nat /\ MaxPending \in Nat /\ MaxGarbled \in Nat

ERASED == 255
Content == Data \cup {ERASED}

ASSUME BitAndAssumption ==
    \A a, b \in Content : BitAnd(a, b) \in Content /\ BitAnd(a, BitAnd(a, b)) = BitAnd(a, b)

VARIABLES
    host,      \* the activation of SerialInterface, and what it is waiting for
    port,      \* is the port open?
    buf,       \* the read buffer of the port
    wire,      \* what is on its way to the board
    line,      \* what is on its way to the host
    board,     \* what the board is doing
    chip,      \* what is in the socket: its device id and its sectors
    meant,     \* the sectors as the program believes them to be
    banks,     \* nrbanks of MainWindow, 0 if not known
    late,      \* has an identification failed since the program was started?
    got,       \* the sector read last and what was read, or Nothing
    garbled    \* messages changed so far

linkVars == <<host, port, buf, wire, line, board, chip, meant, banks, late, got,
              garbled>>

Nothing == <<>>

\* The text of a command, and the bytes of its answer.
Command(op, arg) == [op |-> op, arg |-> arg]
Texts == [op : {"READINFO", "DEVIDSST"}, arg : {0}]
             \cup [op : {"RDBK"}, arg : Blocks]
             \cup [op : {"RDSECT", "ESST", "WRSECT"}, arg : Sectors]
AnswerSize(op) == CASE op = "READINFO" -> 16 [] op = "RDSECT" -> 4096
                    [] op = "RDBK" -> 256    [] OTHER -> 2
Junk == Command("junk", 0)

\* What the board sends.  val is a sequence of bytes or of sectors.
Echo(t)      == [part |-> "echo", text |-> t, val |-> <<>>]
Answer(t, v) == [part |-> "answer", text |-> t, val |-> v]
SizeOf(m) == IF m.part = "echo" THEN 8 ELSE AnswerSize(m.text.op)

\* bytesAvailable
Bytes(q) == LET upto[k \in 0 .. Len(q)] ==
                    IF k = 0 THEN 0 ELSE upto[k - 1] + SizeOf(q[k])
            IN  upto[Len(q)]

Message == [part : {"echo", "answer"}, text : Texts \cup {Junk},
            val : Seq(0 .. 255)]
Sent == [text : Texts, data : Content]

Host == [pc : {"down", "idle", "flush", "capture", "echo", "crc"},
         text : Texts, data : Content, ctr : 0 .. TRIES, seen : Nat]
Chip == [id : DeviceIds, sector : [Sectors -> Content]]

LinkTypeOK ==
    /\ host \in Host
    /\ port \in {"open", "closed"} /\ (port = "closed" => buf = <<>>)
    /\ buf \in Seq(Message) /\ line \in Seq(Message) /\ wire \in Seq(Sent)
    /\ board \in [pc : {"idle"}] \cup [pc : {"busy", "data"}, text : Texts]
    /\ board.pc = "data" => board.text.op = "WRSECT"
    /\ chip \in Chip /\ meant \in [Sectors -> Content]
    /\ banks \in {0, 2, 4, 8} /\ late \in BOOLEAN
    /\ got = Nothing \/ got \in [arg : Sectors, val : Seq(0 .. 255)]
    /\ garbled \in 0 .. MaxGarbled

Resting(pc) ==
    [pc |-> pc, text |-> Command("READINFO", 0), data |-> ERASED, ctr |-> 0, seen |-> 0]

AnyChip == [id : DeviceIds, sector : [Sectors -> {ERASED}]]

LinkInit ==
    /\ host = Resting("down")
    /\ port = "closed" /\ buf = <<>> /\ wire = <<>> /\ line = <<>>
    /\ board = [pc |-> "idle"]
    /\ chip \in AnyChip /\ meant = chip.sector
    /\ banks = 0 /\ late = FALSE /\ got = Nothing /\ garbled = 0

boardVars == <<wire, line, board, chip, garbled>>

-----------------------------------------------------------------------------
(***************************************************************************)
(* The port and the commands.                                              *)
(***************************************************************************)
\* open_port does nothing if the port is open.
open_port == port' = "open"

\* Mutant: what has been received outlives the port.
PortShut == /\ port' = "closed" /\ UNCHANGED buf
            /\ line' \in {line, <<>>}

\* close_port drops what has been received; what is under way may be lost.
close_port == /\ port' = "closed" /\ buf' = <<>>
              /\ line' \in {line, <<>>}
LeavePort  == UNCHANGED <<port, line>>

\* Write the eight characters, and wait for what comes back.
Write(t, d) == wire' = Append(wire, [text |-> t, data |-> d])
Wait(pc, t, d) ==
    host' = [pc |-> pc, text |-> t, data |-> d, ctr |-> 0, seen |-> 0]

\* send_command_capture_response, up to its wait.
Request(op, arg) ==
    /\ open_port
    /\ Write(Command(op, arg), ERASED)
    /\ Wait("capture", Command(op, arg), ERASED)

\* The program is started: select_com_port, up to the flush of get_board_info.
select_com_port ==
    /\ host.pc = "down"
    /\ open_port
    /\ Wait("flush", Command("READINFO", 0), ERASED)
    /\ banks' = 0 /\ late' = FALSE /\ got' = Nothing
    /\ UNCHANGED <<buf, meant, boardVars>>

\* flush_buffer drops what has come within 100 ms, then the command is sent.
get_board_info ==
    /\ host.pc = "flush"
    /\ Len(wire) + Len(line) <= MaxPending
    /\ buf' \in {buf, <<>>}
    /\ Request("READINFO", 0)
    /\ UNCHANGED <<line, board, chip, garbled, meant, banks, late, got>>

Idle == host.pc = "idle" /\ Len(wire) + Len(line) + Len(buf) <= MaxPending

read_chip_id ==
    /\ Idle
    /\ Request("DEVIDSST", 0)
    /\ UNCHANGED <<buf, line, board, chip, garbled, meant, banks, late, got>>

\* Reads, erases and burns are made once the chip is known.
read_block(s) ==
    /\ Idle /\ banks # 0
    /\ Request("RDBK", s)
    /\ UNCHANGED <<buf, line, board, chip, garbled, meant, banks, late, got>>
read_sector(s) ==
    /\ Idle /\ banks # 0
    /\ Request("RDSECT", s)
    /\ UNCHANGED <<buf, line, board, chip, garbled, meant, banks, late, got>>
erase_sector(s) ==
    /\ Idle /\ banks # 0
    /\ Request("ESST", s)
    /\ UNCHANGED <<buf, line, board, chip, garbled, meant, banks, late, got>>

\* burn_sector, up to the wait for the echo in send_command.
burn_sector(s, d) ==
    /\ Idle /\ banks # 0
    /\ open_port
    /\ Write(Command("WRSECT", s), ERASED)
    /\ Wait("echo", Command("WRSECT", s), d)
    /\ UNCHANGED <<buf, line, board, chip, garbled, meant, banks, late, got>>

-----------------------------------------------------------------------------
(***************************************************************************)
(* wait_for_response: the loop goes on while bytes arrive or too few have. *)
(***************************************************************************)
Needed == CASE host.pc = "capture" -> 8 + AnswerSize(host.text.op)
            [] host.pc = "echo"    -> 8
            [] OTHER               -> 2
Waiting == host.pc \in {"capture", "echo", "crc"}
Arrived == Bytes(buf) # host.seen
GoesOn  == Waiting /\ (Arrived \/ Bytes(buf) < Needed)
Done    == Waiting /\ ~GoesOn

\* Mutant: rounds are not counted.
Uncounted == host.ctr

NextCtr == IF Arrived THEN host.ctr ELSE host.ctr + 1

WaitRound ==
    /\ GoesOn /\ NextCtr <= TRIES
    /\ host' = [host EXCEPT !.ctr = NextCtr, !.seen = Bytes(buf)]
    /\ UNCHANGED <<port, buf, meant, banks, late, got, boardVars>>

\* An exception: the program ends, and with it its port; read_chip_id catches
\* it and leaves the port open.
Exception ==
    IF host.text.op = "DEVIDSST"
    THEN /\ host' = Resting("idle")
         /\ late' = TRUE
         /\ buf' = <<>> /\ LeavePort
    ELSE /\ host' = Resting("down") /\ UNCHANGED late
         /\ close_port

GiveUpWaiting ==
    /\ GoesOn /\ NextCtr > TRIES
    /\ Exception
    /\ UNCHANGED <<wire, board, chip, garbled, meant, banks, got>>

\* Mutant: the number in the echo is not compared.
EchoedOp(t) == Len(buf) >= 2 /\ buf[1].part = "echo" /\ buf[1].text.op = t.op

\* The first eight bytes are the command; two messages hold enough bytes.
EchoMatches(t) == Len(buf) >= 2 /\ buf[1].part = "echo" /\ buf[1].text = t
\* What has arrived is the command, or begins with it: strcmp stops at a NUL,
\* with which an answer may begin.
OnlyEcho(t)  == buf = <<Echo(t)>>
EchoFirst(t) == buf # <<>> /\ buf[1] = Echo(t) /\ (Len(buf) > 1 => buf[2].part = "answer")

\* Bytes are signed: the one added makes up for a borrow of the second byte.
Signed(b) == IF b < 128 THEN b ELSE b - 256
get_chip_id(v) == (((Signed(v[1]) + 1) % 65536) * 256 + (Signed(v[2]) % 65536)) % 65536

\* Mutant: two chips are mixed up.
BanksMixedUp(id) == CASE id = 49077 -> 2 [] id = 49078 -> 8 [] id = 49079 -> 4
                      [] OTHER -> 0

\* 0xBFB5, 0xBFB6 and 0xBFB7; 0 is an id the program does not know.
BanksOf(id) == CASE id = 49077 -> 2 [] id = 49078 -> 4 [] id = 49079 -> 8
                 [] OTHER -> 0

\* A command has been answered: its slot goes on, and may close the port.
Back == /\ host' = Resting("idle") /\ UNCHANGED late
        /\ close_port \/ (buf' = <<>> /\ LeavePort)
BackClosed == host' = Resting("idle") /\ close_port /\ UNCHANGED late

\* send_command_capture_response compares the echo, and returns what follows.
EchoWrong ==
    /\ Done /\ host.pc = "capture" /\ ~EchoMatches(host.text)
    /\ Exception
    /\ UNCHANGED <<wire, board, chip, garbled, meant, banks, got>>

BoardKnown ==
    /\ Done /\ host.text.op = "READINFO" /\ EchoMatches(host.text)
    /\ BackClosed
    /\ meant' = chip.sector
    /\ UNCHANGED <<wire, board, chip, garbled, banks, got>>

\* The port is closed before the id is looked at; an unknown one changes
\* nothing.
ChipKnown ==
    /\ Done /\ host.text.op = "DEVIDSST" /\ EchoMatches(host.text)
    /\ BackClosed
    /\ LET n == BanksOf(get_chip_id(buf[2].val))
       IN  banks' = IF n = 0 THEN banks ELSE n
    /\ UNCHANGED <<wire, board, chip, garbled, meant, got>>

DataRead ==
    /\ Done /\ host.text.op \in {"RDBK", "RDSECT"} /\ EchoMatches(host.text)
    /\ Back
    /\ got' = [arg |-> host.text.arg, val |-> buf[2].val]
    /\ UNCHANGED <<wire, board, chip, garbled, meant, banks>>

SectorErased ==
    /\ Done /\ host.text.op = "ESST" /\ EchoMatches(host.text)
    /\ Back
    /\ meant' = [meant EXCEPT ![host.text.arg] = ERASED]
    /\ got' = Nothing
    /\ UNCHANGED <<wire, board, chip, garbled, banks>>

\* burn_sector after the echo: the data is sent, and its checksum awaited.
SendData ==
    /\ Done /\ host.pc = "echo"
    /\ \/ /\ EchoFirst(host.text)
          /\ Write(host.text, host.data)
          /\ Wait("crc", host.text, host.data)
          /\ buf' = <<>>
          /\ UNCHANGED <<port, line, late>>
       \/ ~OnlyEcho(host.text) /\ Exception /\ UNCHANGED wire
    /\ UNCHANGED <<board, chip, garbled, meant, banks, got>>

\* Mutant: any checksum will do.
AnyChecksum(m, d) == m.part = "answer"

\* The checksum of the board is that of the data; crc16 tells data apart.  It
\* is not known of what the board takes it.
ChecksumIs(m, d) == m.part = "answer" /\ m.val = <<d>>

SectorBurnt ==
    /\ Done /\ host.pc = "crc"
    /\ IF ChecksumIs(buf[1], host.data)
       THEN /\ Back
            /\ meant' = [meant EXCEPT ![host.text.arg] = BitAnd(@, host.data)]
       ELSE Exception /\ UNCHANGED meant
    /\ got' = Nothing
    /\ UNCHANGED <<wire, board, chip, garbled, banks>>

-----------------------------------------------------------------------------
(***************************************************************************)
(* The board and the line (external).                                      *)
(***************************************************************************)
hostVars == <<host, meant, banks, late, got>>

\* The board takes the next command and echoes it.
Take ==
    /\ wire # <<>> /\ board.pc = "idle"
    /\ wire' = Tail(wire)
    /\ line' = Append(line, Echo(Head(wire).text))
    /\ board' = [pc |-> IF Head(wire).text.op = "WRSECT" THEN "data" ELSE "busy",
                 text |-> Head(wire).text]
    /\ UNCHANGED <<hostVars, port, buf, chip, garbled>>

\* It carries it out and answers.
CarryOut ==
    /\ board.pc = "busy"
    /\ chip' = IF board.text.op = "ESST"
               THEN [chip EXCEPT !.sector[board.text.arg] = ERASED] ELSE chip
    /\ line' = Append(line, Answer(board.text,
                  CASE board.text.op = "DEVIDSST" -> <<191, chip.id>>
                    [] board.text.op \in {"RDBK", "RDSECT"} -> <<chip.sector[board.text.arg]>>
                    [] OTHER                      -> <<0>>))
    /\ board' = [pc |-> "idle"]
    /\ UNCHANGED <<hostVars, port, buf, wire, garbled>>

\* Waiting for data it takes what comes; a command is too short for it.  The
\* checksum is that of what has come, or of what the sector holds then.
TakeData ==
    /\ wire # <<>> /\ board.pc = "data"
    /\ wire' = Tail(wire)
    /\ IF Head(wire).text.op = "WRSECT" /\ Head(wire).data # ERASED
       THEN LET held == BitAnd(chip.sector[board.text.arg], Head(wire).data)
            IN  /\ chip' = [chip EXCEPT !.sector[board.text.arg] = held]
                /\ \E sum \in {Head(wire).data, held} :
                      line' = Append(line, Answer(board.text, <<sum>>))
                /\ board' = [pc |-> "idle"]
       ELSE UNCHANGED <<chip, line, board>>
    /\ UNCHANGED <<hostVars, port, buf, garbled>>

BoardGivesUp == /\ board.pc = "data"
                /\ board' = [pc |-> "idle"]
                /\ UNCHANGED <<hostVars, port, buf, wire, line, chip, garbled>>

Receive == /\ line # <<>> /\ port = "open"
           /\ buf' = Append(buf, Head(line))
           /\ line' = Tail(line)
           /\ UNCHANGED <<hostVars, port, wire, board, chip, garbled>>

\* A digit of a command, a byte of data, an echo or a checksum is changed.  (The
\* answers to the other commands carry nothing that would tell.)
GarbleWire ==
    /\ wire # <<>> /\ garbled < MaxGarbled
    /\ \E t \in Texts, d \in Data :
          /\ t.op = wire[1].text.op
          /\ wire' = [wire EXCEPT ![1] =
                        [text |-> t, data |-> IF @.data = ERASED THEN ERASED ELSE d]]
    /\ garbled' = garbled + 1
    /\ UNCHANGED <<hostVars, port, buf, line, board, chip>>
GarbleLine ==
    /\ line # <<>> /\ garbled < MaxGarbled
    /\ line[1].part = "echo" \/ line[1].text.op = "WRSECT"
    /\ line' = [line EXCEPT ![1] = IF @.part = "echo" THEN Echo(Junk)
                                   ELSE Answer(@.text, <<>>)]
    /\ garbled' = garbled + 1
    /\ UNCHANGED <<hostVars, port, buf, wire, board, chip>>

\* Another chip is put into the socket while no command is under way.
Swap == /\ host.pc = "idle"
        /\ chip' \in AnyChip
        /\ meant' = chip'.sector /\ got' = Nothing
        /\ UNCHANGED <<host, port, buf, wire, line, board, banks, late, garbled>>

-----------------------------------------------------------------------------
HostSteps == \/ get_board_info
             \/ WaitRound
             \/ GiveUpWaiting
             \/ EchoWrong
             \/ BoardKnown
             \/ ChipKnown
             \/ DataRead
             \/ SectorErased
             \/ SendData
             \/ SectorBurnt

BoardSteps == \/ Take
              \/ CarryOut
              \/ TakeData
              \/ BoardGivesUp
              \/ Receive

LinkNext == \/ HostSteps
            \/ BoardSteps
            \/ select_com_port
            \/ read_chip_id
            \/ \E s \in Blocks : read_block(s)
            \/ \E s \in Sectors : read_sector(s) \/ erase_sector(s)
            \/ \E s \in Sectors, d \in Data : burn_sector(s, d)
            \/ GarbleWire
            \/ GarbleLine
            \/ Swap

\* The program runs; the board may fall silent at any time.
LinkSpec == LinkInit /\ [][LinkNext]_linkVars
FairLinkSpec == LinkSpec /\ WF_linkVars(HostSteps)

-----------------------------------------------------------------------------
(***************************************************************************)
(* Properties.                                                             *)
(***************************************************************************)
\* What was read last is what the sector holds: no answer to another command,
\* nor to an earlier one that came late, is taken for it.
ReadIsTrue == host.pc = "idle" /\ got # Nothing => got.val = <<chip.sector[got.arg]>>

\* Whenever the program goes on after a command, the chip holds what its
\* erases and burns make of it: the sector that was named is blank, or has lost
\* the bits that the data does not have, and no other one has changed.  So a
\* command, data, echo or checksum that was changed on its way has been noticed
\* (burn_sector, send_command and send_command_capture_response).  It does not
\* say that a sector holds the data burnt, unless the sector was blank.
HarmIsNoticed == host.pc = "idle" => chip.sector = meant

\* The banks of a chip: SST39SF010, 020 and 040.
BanksOfChip == [id \in 181 .. 183 |-> CASE id = 181 -> 2 [] id = 182 -> 4 [] id = 183 -> 8]

\* As long as every identification has been answered, the number of banks the
\* program takes over is that of the chip in the socket.
KnownIsThere ==
    [][banks' \notin {banks, 0} /\ ~late
          => chip.id \in 181 .. 183 /\ banks' = BanksOfChip[chip.id]]_linkVars

\* No command waits forever, whatever the board does.
CommandEnds == Waiting ~> ~Waiting
=============================================================================
