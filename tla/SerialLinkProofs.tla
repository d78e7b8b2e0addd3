--------------------------- MODULE SerialLinkProofs ---------------------------
(***************************************************************************)
(* Theorems about the serial link, for any chip, any data, any bound on    *)
(* the rounds of a wait, on the messages under way and on those garbled.   *)
(*                                                                         *)
(* What was sent and has not been handled yet forms one queue: the buffer  *)
(* of the port, the line, the command the board is at, the wire.  The      *)
(* inductive invariant says in which order commands can lie in it.         *)
(***************************************************************************)
EXTENDS SerialLink, SequenceTheorems, FiniteSetTheorems, TLAPS

-----------------------------------------------------------------------------
(***************************************************************************)
(* The inductive invariant.                                                *)
(***************************************************************************)
Work == {"RDBK", "RDSECT", "ESST", "WRSECT"}

\* Every message of a queue, and everything under way, has its op in S.
Only(q, S) == \A i \in 1 .. Len(q) : q[i].text.op \in S
BoardOnly(S) == board.pc # "idle" => board.text.op \in S
PipeOnly(S) == Only(buf, S) /\ Only(line, S) /\ BoardOnly(S) /\ Only(wire, S)

\* What was sent after an X, and is still under way, is an X (or junk).
Behind(X) == {X, "junk"}
Ends(q, X) == \A i, j \in 1 .. Len(q) :
                 i < j /\ q[i].text.op = X => q[j].text.op \in Behind(X)
Has(q, X) == \E i \in 1 .. Len(q) : q[i].text.op = X
NothingBehind(X) ==
    /\ Ends(buf, X) /\ Ends(line, X) /\ Ends(wire, X)
    /\ Has(buf, X) => Only(line, Behind(X))
    /\ Has(buf, X) \/ Has(line, X) => BoardOnly(Behind(X))
    /\ Has(buf, X) \/ Has(line, X) \/ (board.pc # "idle" /\ board.text.op = X)
          => Only(wire, Behind(X))

\* The answer follows its echo.
IsAnswer(m, t) == m.part = "answer" /\ m.text = t
IsEcho(m) == m.part = "echo" /\ m.text.op \notin {"WRSECT", "junk"}
BoardAt(t) == board.pc = "busy" /\ board.text = t
EchoAnswered ==
    /\ \A i \in 1 .. Len(buf) : IsEcho(buf[i]) =>
          IF i < Len(buf) THEN IsAnswer(buf[i + 1], buf[i].text)
          ELSE IF line # <<>> THEN IsAnswer(line[1], buf[i].text)
          ELSE BoardAt(buf[i].text)
    /\ \A i \in 1 .. Len(line) : IsEcho(line[i]) =>
          IF i < Len(line) THEN IsAnswer(line[i + 1], line[i].text)
          ELSE BoardAt(line[i].text)

BoardSane == /\ board.pc = "data" => board.text.op = "WRSECT"
             /\ board.pc = "busy" => board.text.op # "WRSECT"

HostSane == /\ host.pc \in {"echo", "crc"} => host.text.op = "WRSECT"
            /\ host.pc = "capture" => host.text.op # "WRSECT"

\* Identifying the board, identifying the chip or nothing, working.
Starting == host.pc \in {"down", "flush"}
               \/ (host.pc = "capture" /\ host.text.op = "READINFO")
Between  == host.pc = "idle" \/ (host.pc = "capture" /\ host.text.op = "DEVIDSST")
Working  == host.pc \in {"capture", "echo"} /\ host.text.op \in Work

WhenStarting ==
    Starting => /\ NothingBehind("READINFO")
                /\ host.pc # "down" => banks = 0 /\ got = Nothing /\ ~late

WhenBetween ==
    Between => /\ PipeOnly({"READINFO", "DEVIDSST", "junk"})
               /\ NothingBehind("DEVIDSST")
               /\ banks # 0 => PipeOnly({"DEVIDSST", "junk"})
               /\ host.pc = "idle" /\ ~late => PipeOnly({"READINFO", "junk"})
               /\ chip.sector = meant

WhenWorking == Working => PipeOnly({"DEVIDSST", host.text.op, "junk"})

\* The command that is waited for is under way once, behind all the others.
Once == Working \/ (Between /\ host.pc = "capture" /\ ~late)
Mine(x) == x.text.op = host.text.op
Effect(m) ==
    CASE host.text.op = "ESST" -> chip.sector = [meant EXCEPT ![m.text.arg] = ERASED]
      [] host.text.op \in {"RDBK", "RDSECT"} -> m.val = <<chip.sector[m.text.arg]>>
      [] host.text.op = "DEVIDSST" -> m.val = <<191, chip.id>>
      [] OTHER -> TRUE

OnWire ==
    Once => \A i \in 1 .. Len(wire) : Mine(wire[i]) =>
        /\ i = Len(wire) /\ wire[i].data = ERASED
        /\ board.pc # "idle" => ~Mine(board)
        /\ \A j \in 1 .. Len(line) : ~Mine(line[j])
        /\ \A j \in 1 .. Len(buf) : ~Mine(buf[j])

OnBoard ==
    Once /\ board.pc # "idle" /\ Mine(board) =>
        /\ wire = <<>>
        /\ \A j \in 1 .. Len(line) : Mine(line[j]) => line[j].part = "echo"
        /\ \A j \in 1 .. Len(buf) : Mine(buf[j]) => buf[j].part = "echo"

Last(m) == IF m.part = "answer" THEN board.pc = "idle" /\ Effect(m)
           ELSE board.pc # "idle" => board.text = m.text
OnLine ==
    Once => \A i \in 1 .. Len(line) : Mine(line[i]) =>
        /\ wire = <<>> /\ Last(line[i])
        /\ host.pc = "echo" => line[i].part = "echo"
        /\ host.pc = "echo" \/ line[i].part = "answer" => i = Len(line)

InBuffer ==
    Once => \A i \in 1 .. Len(buf) : Mine(buf[i]) =>
        /\ wire = <<>> /\ Last(buf[i])
        /\ host.pc = "echo" => buf[i].part = "echo"
        /\ host.pc = "echo" \/ buf[i].part = "answer" => i = Len(buf) /\ line = <<>>

\* Until it is carried out, the chip is as it was.
NotYet ==
    Working => \/ chip.sector = meant
               \/ host.text.op = "ESST" /\ wire = <<>> /\ board.pc = "idle"

\* A checksum is sent when all is done, and says what has been burnt.
Tells(m) == m.part = "answer" =>
    /\ board.pc = "idle"
    /\ \A d \in Content : m.val = <<d>> =>
          chip.sector = [meant EXCEPT ![host.text.arg] = BitAnd(meant[host.text.arg], d)]

\* Once the data of a burn is sent nothing else is under way.
Burning ==
    host.pc = "crc" =>
        /\ PipeOnly({"WRSECT", "junk"})
        /\ Len(wire) + Len(buf) + Len(line) <= 1
        /\ board.pc # "busy"
        /\ wire # <<>> /\ board.pc # "idle" => board.text = host.text
        /\ wire # <<>> \/ board.pc # "idle" => chip.sector = meant
        /\ \A i \in 1 .. Len(buf) : Tells(buf[i])
        /\ \A i \in 1 .. Len(line) : Tells(line[i])

GotIsMeant == host.pc # "down" /\ got # Nothing => got.val = <<meant[got.arg]>>

QueueInv == EchoAnswered /\ BoardSane /\ HostSane
               /\ WhenStarting /\ WhenBetween /\ WhenWorking
OnceInv == OnWire /\ OnBoard /\ OnLine /\ InBuffer /\ NotYet /\ Burning

LinkIInv == LinkTypeOK /\ QueueInv /\ OnceInv /\ GotIsMeant

-----------------------------------------------------------------------------
(***************************************************************************)
(* Commands, messages and their number of bytes.                           *)
(***************************************************************************)
Ops == {"READINFO", "DEVIDSST"} \cup Work

\* The arguments of a command are those that its op allows, and junk is none.
LEMMA TextFacts ==
    /\ \A t \in Texts : /\ t.op \in Ops /\ t.op # "junk"
                        /\ t.op \in Work => t.arg \in Sectors
    /\ \A s \in Sectors : Command("RDSECT", s) \in Texts /\ Command("ESST", s) \in Texts
                             /\ Command("WRSECT", s) \in Texts
    /\ \A s \in Blocks : Command("RDBK", s) \in Texts
    /\ Command("READINFO", 0) \in Texts /\ Command("DEVIDSST", 0) \in Texts
    /\ Junk.op = "junk" /\ Junk \notin Texts
  BY LinkAssumption, SMT DEF Texts, Command, Junk, Ops, Work

LEMMA ContentFacts == Content \subseteq 0 .. 255 /\ ERASED \in Content
  BY LinkAssumption DEF Content, ERASED

\* What the board sends is a message.
LEMMA MessageFacts ==
    /\ \A t \in Texts : Echo(t) \in Message
    /\ Echo(Junk) \in Message
    /\ \A t \in Texts, v \in Seq(0 .. 255) : Answer(t, v) \in Message
    /\ \A m \in Message : /\ m.part \in {"echo", "answer"}
                          /\ m.text \in Texts \cup {Junk} /\ m.val \in Seq(0 .. 255)
  <1>1. <<>> \in Seq(0 .. 255)
    OBVIOUS
  <1>2. QED
    BY <1>1 DEF Message, Echo, Answer

\* A set of numbers that is not empty has a least one.
LEMMA LeastNumber ==
    ASSUME NEW S \in SUBSET Nat, S # {}
    PROVE  \E n \in S : \A m \in S : n <= m
  <1>1. PICK k \in S : TRUE
    OBVIOUS
  <1> DEFINE U == {0 .. n : n \in {i \in S : i <= k}}
  <1>2. IsWellFoundedOn(StrictSubsetOrdering(0 .. k), FiniteSubsetsOf(0 .. k))
    BY FS_StrictSubsetOrderingWellFounded
  <1>3. U \subseteq FiniteSubsetsOf(0 .. k) /\ U # {}
    <2>1. ASSUME NEW n \in S, n <= k PROVE 0 .. n \in FiniteSubsetsOf(0 .. k)
      <3>1. IsFiniteSet(0 .. n)
        BY FS_Interval
      <3>2. 0 .. n \in SUBSET (0 .. k)
        BY <2>1
      <3>3. QED
        BY <3>1, <3>2 DEF FiniteSubsetsOf
    <2>2. QED
      BY <2>1
  <1>4. PICK X \in U : \A Y \in U : ~(<<Y, X>> \in StrictSubsetOrdering(0 .. k))
    <2> HIDE DEF U
    <2> QED BY <1>2, <1>3, WFMin
  <1>5. PICK n \in S : n <= k /\ X = 0 .. n
    OBVIOUS
  <1>6. ASSUME NEW m \in S, m < n PROVE FALSE
    <2>1. 0 .. m \in U
      BY <1>5, <1>6
    <2>2. 0 .. m \subseteq X /\ 0 .. m # X /\ X \subseteq 0 .. k
      <3>1. n \in X /\ n \notin 0 .. m
        BY <1>5, <1>6
      <3>2. QED
        BY <1>5, <1>6, <3>1
    <2>3. <<0 .. m, X>> \in StrictSubsetOrdering(0 .. k)
      BY <2>2 DEF StrictSubsetOrdering
    <2>4. QED
      BY <1>4, <2>1, <2>3
  <1>7. QED
    BY <1>5, <1>6

\* Every message has its size.
LEMMA SizeFacts == \A m \in Message : SizeOf(m) \in Nat
  BY DEF SizeOf, AnswerSize

\* A queue of messages has a number of bytes, and none has none.
LEMMA BytesFacts ==
    ASSUME NEW q \in Seq(Message)
    PROVE  Bytes(q) \in Nat /\ Bytes(<<>>) = 0
  <1> DEFINE Sums(p, f, n) == f = [k \in 0 .. n |-> IF k = 0 THEN 0
                                                    ELSE f[k - 1] + SizeOf(p[k])]
  <1>1. ASSUME NEW p \in Seq(Message), NEW f, Sums(p, f, Len(p))
        PROVE  f[Len(p)] \in Nat
    <2> DEFINE Bad == {k \in 0 .. Len(p) : f[k] \notin Nat}
    <2>1. SUFFICES ASSUME Bad # {} PROVE FALSE
      BY LenProperties
    <2>2. PICK k \in Bad : \A m \in Bad : k <= m
      <3>1. Bad \in SUBSET Nat
        BY LenProperties
      <3> HIDE DEF Bad
      <3>2. QED
        BY <2>1, <3>1, LeastNumber
    <2>3. k # 0
      BY <1>1, <2>2
    <2>4. f[k - 1] \in Nat
      BY <2>2, <2>3, LenProperties
    <2>5. SizeOf(p[k]) \in Nat
      BY <2>2, <2>3, SizeFacts, LenProperties
    <2>6. f[k] = f[k - 1] + SizeOf(p[k])
      BY <1>1, <2>2, <2>3
    <2>7. QED
      BY <2>2, <2>4, <2>5, <2>6
  <1>2. ASSUME NEW p \in Seq(Message)
        PROVE  \E f : Sums(p, f, Len(p))
    <2> DEFINE Bad == {n \in 0 .. Len(p) : ~ \E f : Sums(p, f, n)}
    <2>1. SUFFICES ASSUME Bad # {} PROVE FALSE
      BY LenProperties
    <2>2. PICK n \in Bad : \A m \in Bad : n <= m
      <3>1. Bad \in SUBSET Nat
        BY LenProperties
      <3> HIDE DEF Bad
      <3>2. QED
        BY <2>1, <3>1, LeastNumber
    <2>3. CASE n = 0
      <3> DEFINE g == [k \in 0 .. 0 |-> 0]
      <3>1. Sums(p, g, 0)
        OBVIOUS
      <3> HIDE DEF g
      <3>2. QED
        BY <2>2, <2>3, <3>1
    <2>4. CASE n # 0
      <3>1. n - 1 \in 0 .. Len(p) /\ n \in Nat \ {0}
        BY <2>2, <2>4, LenProperties
      <3>2. n - 1 \notin Bad
        <4> HIDE DEF Bad
        <4>1. QED
          BY <2>2, <3>1
      <3>5. PICK f : Sums(p, f, n - 1)
        <4> HIDE DEF Sums
        <4>1. QED
          BY <3>1, <3>2
      <3> DEFINE g == [k \in 0 .. n |-> IF k = n THEN f[n - 1] + SizeOf(p[n]) ELSE f[k]]
      <3>3. Sums(p, g, n)
        <4>1. \A k \in 0 .. n : g[k] = IF k = 0 THEN 0 ELSE g[k - 1] + SizeOf(p[k])
          BY <3>1, <3>5
        <4>2. g = [k \in 0 .. n |-> g[k]]
          OBVIOUS
        <4> HIDE DEF g
        <4>3. QED
          BY <4>1, <4>2
      <3> HIDE DEF g
      <3>4. QED
        BY <2>2, <3>3
    <2>5. QED
      BY <2>3, <2>4
  <1>3. ASSUME NEW p \in Seq(Message)
        PROVE  \E f : Sums(p, f, Len(p)) /\ Bytes(p) = f[Len(p)]
    <2> DEFINE F == CHOOSE f : Sums(p, f, Len(p))
    <2>1. Sums(p, F, Len(p))
      <3> HIDE DEF Sums
      <3>1. QED
        BY <1>2
    <2>2. Bytes(p) = F[Len(p)]
      BY DEF Bytes
    <2> HIDE DEF F
    <2>3. QED
      BY <2>1, <2>2
  <1>4. Bytes(q) \in Nat
    BY <1>1, <1>3
  <1>5. Bytes(<<>>) = 0
    <2>1. PICK f : Sums(<<>>, f, Len(<<>>)) /\ Bytes(<<>>) = f[Len(<<>>)]
      BY <1>3, EmptySeq
    <2>2. QED
      BY <2>1, EmptySeq
  <1>6. QED
    BY <1>4, <1>5

-----------------------------------------------------------------------------
(***************************************************************************)
(* Queues: what taking from one and putting into one does.                 *)
(***************************************************************************)
Popped(p, q) == Len(p) = Len(q) - 1 /\ \A i \in 1 .. Len(p) : p[i] = q[i + 1]
Pushed(p, q, m) == /\ Len(p) = Len(q) + 1
                   /\ \A i \in 1 .. Len(q) : p[i] = q[i]
                   /\ p[Len(q) + 1] = m
Changed(p, q, m) == /\ Len(p) = Len(q)
                    /\ \A i \in 1 .. Len(q) : p[i] = IF i = 1 THEN m ELSE q[i]

LEMMA PushFacts ==
    ASSUME NEW S, NEW q \in Seq(S), NEW m \in S
    PROVE  Append(q, m) \in Seq(S) /\ Pushed(Append(q, m), q, m)
  BY AppendProperties DEF Pushed

LEMMA PopFacts ==
    ASSUME NEW S, NEW q \in Seq(S), q # <<>>
    PROVE  /\ Head(q) = q[1] /\ q[1] \in S /\ Len(q) \in Nat \ {0}
           /\ Tail(q) \in Seq(S) /\ Popped(Tail(q), q)
  BY HeadTailProperties, EmptySeq DEF Popped

\* What the answers of the board carry is bytes.
LEMMA AnswerBytes ==
    ASSUME LinkTypeOK
    PROVE  /\ <<191, chip.id>> \in Seq(0 .. 255)
           /\ \A s \in Sectors : <<chip.sector[s]>> \in Seq(0 .. 255)
           /\ \A d \in Content : <<d>> \in Seq(0 .. 255)
           /\ <<0>> \in Seq(0 .. 255)
  <1>1. chip.id \in 0 .. 255 /\ \A s \in Sectors : chip.sector[s] \in 0 .. 255
    BY LinkAssumption, ContentFacts DEF LinkTypeOK, Chip
  <1>2. \A d \in Content : d \in 0 .. 255
    BY ContentFacts
  <1>3. \A x \in 0 .. 255 : <<x>> \in Seq(0 .. 255)
    OBVIOUS
  <1>4. ASSUME NEW x \in 0 .. 255 PROVE <<191, x>> \in Seq(0 .. 255)
    <2>1. 191 \in 0 .. 255
      OBVIOUS
    <2>2. QED
      BY <2>1
  <1>5. <<191, chip.id>> \in Seq(0 .. 255)
    BY <1>1, <1>4
  <1>6. \A s \in Sectors : <<chip.sector[s]>> \in Seq(0 .. 255)
    BY <1>1, <1>3
  <1>7. (\A d \in Content : <<d>> \in Seq(0 .. 255)) /\ <<0>> \in Seq(0 .. 255)
    BY <1>2, <1>3
  <1>8. QED
    BY <1>5, <1>6, <1>7

-----------------------------------------------------------------------------
(***************************************************************************)
(* What each step of the board and of the line does to the queue.          *)
(***************************************************************************)
LEMMA TakeShape ==
    ASSUME LinkTypeOK, Take
    PROVE  /\ wire[1] \in Sent /\ Len(wire) \in Nat \ {0} /\ board.pc = "idle"
           /\ wire' \in Seq(Sent) /\ Popped(wire', wire)
           /\ line' \in Seq(Message) /\ Pushed(line', line, Echo(wire[1].text))
           /\ board' = [pc |-> IF wire[1].text.op = "WRSECT" THEN "data" ELSE "busy",
                        text |-> wire[1].text]
           /\ UNCHANGED <<hostVars, port, buf, chip, garbled>>
  <1>1. wire \in Seq(Sent) /\ wire # <<>> /\ line \in Seq(Message)
    BY DEF LinkTypeOK, Take
  <1>2. Head(wire) = wire[1] /\ wire[1] \in Sent /\ Len(wire) \in Nat \ {0}
        /\ Tail(wire) \in Seq(Sent) /\ Popped(Tail(wire), wire)
    BY <1>1, PopFacts
  <1>3. Echo(wire[1].text) \in Message
    BY <1>2, MessageFacts DEF Sent
  <1>4. QED
    BY <1>1, <1>2, <1>3, PushFacts DEF Take

LEMMA CarryOutShape ==
    ASSUME LinkTypeOK, CarryOut
    PROVE  /\ board.pc = "busy" /\ board.text \in Texts
           /\ chip' \in Chip
           /\ chip'.id = chip.id
           /\ chip'.sector = IF board.text.op = "ESST"
                             THEN [chip.sector EXCEPT ![board.text.arg] = ERASED]
                             ELSE chip.sector
           /\ \E v \in Seq(0 .. 255) :
                 /\ line' \in Seq(Message) /\ Pushed(line', line, Answer(board.text, v))
                 /\ board.text.op = "DEVIDSST" => v = <<191, chip.id>>
                 /\ board.text.op \in {"RDBK", "RDSECT"}
                       => v = <<chip.sector[board.text.arg]>>
           /\ board' = [pc |-> "idle"]
           /\ UNCHANGED <<hostVars, port, buf, wire, garbled>>
  <1>1. board.pc = "busy" /\ board.text \in Texts /\ chip \in Chip /\ line \in Seq(Message)
    BY DEF LinkTypeOK, CarryOut
  <1>2. board.text.op \in Work => board.text.arg \in Sectors
    BY <1>1, TextFacts
  <1>3. chip'.id = chip.id /\ chip' \in Chip
        /\ chip'.sector = IF board.text.op = "ESST"
                          THEN [chip.sector EXCEPT ![board.text.arg] = ERASED]
                          ELSE chip.sector
    BY <1>1, <1>2, ContentFacts DEF CarryOut, Chip, Work
  <1> DEFINE v == CASE board.text.op = "DEVIDSST" -> <<191, chip.id>>
                    [] board.text.op \in {"RDBK", "RDSECT"} -> <<chip.sector[board.text.arg]>>
                    [] OTHER -> <<0>>
  <1>4. /\ v \in Seq(0 .. 255)
        /\ board.text.op = "DEVIDSST" => v = <<191, chip.id>>
        /\ board.text.op \in {"RDBK", "RDSECT"} => v = <<chip.sector[board.text.arg]>>
    <2>1. CASE board.text.op = "DEVIDSST"
      BY <2>1, AnswerBytes
    <2>2. CASE board.text.op \in {"RDBK", "RDSECT"}
      BY <2>2, <1>2, AnswerBytes DEF Work
    <2>3. CASE board.text.op \notin {"DEVIDSST", "RDBK", "RDSECT"}
      BY <2>3, AnswerBytes
    <2>4. QED
      BY <2>1, <2>2, <2>3
  <1>5. line' = Append(line, Answer(board.text, v))
    BY DEF CarryOut
  <1> HIDE DEF v
  <1>6. Answer(board.text, v) \in Message
    BY <1>1, <1>4, MessageFacts
  <1>7. line' \in Seq(Message) /\ Pushed(line', line, Answer(board.text, v))
    BY <1>1, <1>5, <1>6, PushFacts
  <1>8. board' = [pc |-> "idle"] /\ UNCHANGED <<hostVars, port, buf, wire, garbled>>
    BY DEF CarryOut
  <1>9. QED
    BY <1>1, <1>3, <1>4, <1>7, <1>8

LEMMA TakeDataShape ==
    ASSUME LinkTypeOK, TakeData
    PROVE  /\ wire[1] \in Sent /\ Len(wire) \in Nat \ {0}
           /\ board.pc = "data" /\ board.text \in Texts /\ board.text.arg \in Sectors
           /\ wire' \in Seq(Sent) /\ Popped(wire', wire)
           /\ UNCHANGED <<hostVars, port, buf, garbled>>
           /\ \/ UNCHANGED <<chip, line, board>>
              \/ /\ wire[1].text.op = "WRSECT" /\ wire[1].data # ERASED
                 /\ chip' = [chip EXCEPT !.sector[board.text.arg] =
                                BitAnd(chip.sector[board.text.arg], wire[1].data)]
                 /\ line' \in Seq(Message)
                 /\ \E sum \in {wire[1].data, BitAnd(chip.sector[board.text.arg], wire[1].data)} :
                       sum \in Content /\ Pushed(line', line, Answer(board.text, <<sum>>))
                 /\ board' = [pc |-> "idle"]
  <1>1. wire \in Seq(Sent) /\ wire # <<>> /\ line \in Seq(Message) /\ board.text \in Texts
        /\ board.pc = "data" /\ chip \in Chip /\ board.text.arg \in Sectors
    <2>1. board.pc = "data" /\ board.text \in Texts /\ board.text.op = "WRSECT"
      BY DEF LinkTypeOK, TakeData
    <2>2. QED
      BY <2>1, TextFacts DEF LinkTypeOK, TakeData, Work
  <1>2. Head(wire) = wire[1] /\ wire[1] \in Sent /\ Len(wire) \in Nat \ {0}
        /\ Tail(wire) \in Seq(Sent) /\ Popped(Tail(wire), wire)
    BY <1>1, PopFacts
  <1>3. wire' \in Seq(Sent) /\ Popped(wire', wire)
        /\ UNCHANGED <<hostVars, port, buf, garbled>>
    BY <1>2 DEF TakeData
  <1>4. CASE wire[1].text.op = "WRSECT" /\ wire[1].data # ERASED
    <2> DEFINE held == BitAnd(chip.sector[board.text.arg], wire[1].data)
    <2>1. PICK sum \in {wire[1].data, held} :
             /\ chip' = [chip EXCEPT !.sector[board.text.arg] = held]
             /\ line' = Append(line, Answer(board.text, <<sum>>))
             /\ board' = [pc |-> "idle"]
      BY <1>2, <1>4 DEF TakeData
    <2>2. chip' = [chip EXCEPT !.sector[board.text.arg] = held] /\ board' = [pc |-> "idle"]
      BY <2>1
    <2>3. wire[1].data \in Content
      BY <1>2 DEF Sent
    <2>4. CASE sum = wire[1].data
      <3>1. /\ line' \in Seq(Message)
            /\ Pushed(line', line, Answer(board.text, <<wire[1].data>>))
        BY <1>1, <2>1, <2>3, <2>4, MessageFacts, AnswerBytes, PushFacts
      <3> HIDE DEF held
      <3> QED BY <1>1, <1>2, <1>3, <1>4, <2>2, <2>3, <3>1 DEF held
    <2>5. CASE sum = held
      <3>2. held \in Content
        BY <1>1, <2>3, BitAndAssumption DEF Chip
      <3> HIDE DEF held
      <3>3. /\ line' \in Seq(Message)
            /\ Pushed(line', line, Answer(board.text, <<held>>))
        BY <1>1, <2>1, <2>5, <3>2, MessageFacts, AnswerBytes, PushFacts
      <3> QED BY <1>1, <1>2, <1>3, <1>4, <2>2, <3>2, <3>3 DEF held
    <2> QED BY <2>1, <2>4, <2>5
  <1>5. CASE ~(wire[1].text.op = "WRSECT" /\ wire[1].data # ERASED)
    BY <1>1, <1>2, <1>3, <1>5 DEF TakeData
  <1>6. QED
    BY <1>4, <1>5

LEMMA ReceiveShape ==
    ASSUME LinkTypeOK, Receive
    PROVE  /\ Len(line) \in Nat \ {0} /\ line[1] \in Message /\ line # <<>>
           /\ line' \in Seq(Message) /\ Popped(line', line)
           /\ buf' \in Seq(Message) /\ Pushed(buf', buf, line[1])
           /\ UNCHANGED <<hostVars, port, wire, board, chip, garbled>>
  <1>1. line \in Seq(Message) /\ line # <<>> /\ buf \in Seq(Message)
    BY DEF LinkTypeOK, Receive
  <1>2. Head(line) = line[1] /\ line[1] \in Message /\ Len(line) \in Nat \ {0}
        /\ Tail(line) \in Seq(Message) /\ Popped(Tail(line), line)
    BY <1>1, PopFacts
  <1>3. QED
    BY <1>1, <1>2, PushFacts DEF Receive

LEMMA GarbleWireShape ==
    ASSUME LinkTypeOK, GarbleWire
    PROVE  /\ Len(wire) \in Nat \ {0} /\ wire[1] \in Sent
           /\ \E w \in Sent : /\ wire' \in Seq(Sent) /\ Changed(wire', wire, w)
                              /\ w.text.op = wire[1].text.op
                              /\ wire[1].data = ERASED => w.data = ERASED
           /\ garbled' \in 0 .. MaxGarbled
           /\ UNCHANGED <<hostVars, port, buf, line, board, chip>>
  <1>1. wire \in Seq(Sent) /\ wire # <<>>
    BY DEF LinkTypeOK, GarbleWire
  <1>2. wire[1] \in Sent /\ Len(wire) \in Nat \ {0}
    BY <1>1, PopFacts
  <1>3. PICK t \in Texts, d \in Data :
           /\ t.op = wire[1].text.op
           /\ wire' = [wire EXCEPT ![1] =
                         [text |-> t, data |-> IF @.data = ERASED THEN ERASED ELSE d]]
    BY DEF GarbleWire
  <1> DEFINE w == [text |-> t, data |-> IF wire[1].data = ERASED THEN ERASED ELSE d]
  <1>4. w \in Sent
    BY DEF Sent, Content
  <1>5. [text |-> t, data |-> IF wire[1].data = ERASED THEN ERASED ELSE d] = w
    OBVIOUS
  <1>6. wire' = [wire EXCEPT ![1] = w]
    BY <1>1, <1>2, <1>3, <1>5, LenProperties
  <1>7. w.text.op = wire[1].text.op /\ (wire[1].data = ERASED => w.data = ERASED)
    BY <1>3
  <1> HIDE DEF w
  <1>8. wire' \in Seq(Sent) /\ Changed(wire', wire, w)
    BY <1>1, <1>2, <1>4, <1>6, ExceptSeq DEF Changed
  <1>9. garbled' \in 0 .. MaxGarbled
    BY LinkAssumption DEF GarbleWire, LinkTypeOK
  <1>10. QED
    BY <1>2, <1>4, <1>7, <1>8, <1>9 DEF GarbleWire

LEMMA GarbleLineShape ==
    ASSUME LinkTypeOK, GarbleLine
    PROVE  /\ Len(line) \in Nat \ {0} /\ line[1] \in Message
           /\ \E m \in Message : /\ line' \in Seq(Message) /\ Changed(line', line, m)
                                 /\ \/ line[1].part = "echo" /\ m = Echo(Junk)
                                    \/ /\ line[1].part = "answer"
                                       /\ line[1].text.op = "WRSECT"
                                       /\ m = Answer(line[1].text, <<>>)
           /\ garbled' \in 0 .. MaxGarbled
           /\ UNCHANGED <<hostVars, port, buf, wire, board, chip>>
  <1>1. line \in Seq(Message) /\ line # <<>>
    BY DEF LinkTypeOK, GarbleLine
  <1>2. line[1] \in Message /\ Len(line) \in Nat \ {0}
    BY <1>1, PopFacts
  <1> DEFINE m == IF line[1].part = "echo" THEN Echo(Junk) ELSE Answer(line[1].text, <<>>)
  <1>3. line' = [line EXCEPT ![1] = m]
    BY <1>1, <1>2, LenProperties DEF GarbleLine
  <1>4. m \in Message
    <2>1. <<>> \in Seq(0 .. 255)
      OBVIOUS
    <2>2. line[1].part # "echo" => line[1].text \in Texts
      BY <1>2, MessageFacts, TextFacts DEF GarbleLine
    <2>3. QED
      BY <2>1, <2>2, MessageFacts
  <1>5. \/ line[1].part = "echo" /\ m = Echo(Junk)
        \/ /\ line[1].part = "answer" /\ line[1].text.op = "WRSECT"
           /\ m = Answer(line[1].text, <<>>)
    BY <1>2 DEF GarbleLine, Message, Answer
  <1> HIDE DEF m
  <1>6. line' \in Seq(Message) /\ Changed(line', line, m)
    BY <1>1, <1>2, <1>3, <1>4, ExceptSeq DEF Changed
  <1>7. garbled' \in 0 .. MaxGarbled
    BY LinkAssumption DEF GarbleLine, LinkTypeOK
  <1>8. QED
    BY <1>2, <1>4, <1>5, <1>6, <1>7 DEF GarbleLine

-----------------------------------------------------------------------------
(***************************************************************************)
(* Types.                                                                  *)
(***************************************************************************)
HostVarsTyped ==
    /\ host \in Host /\ meant \in [Sectors -> Content]
    /\ banks \in {0, 2, 4, 8} /\ late \in BOOLEAN
    /\ got = Nothing \/ got \in [arg : Sectors, val : Seq(0 .. 255)]

\* The program at rest, and the program that has sent a command.
LEMMA RestingTyped ==
    \A pc \in {"down", "idle"} : Resting(pc) \in Host /\ Resting(pc).pc = pc
  BY TextFacts, ContentFacts, LinkAssumption DEF Resting, Host

LEMMA WaitTyped ==
    ASSUME NEW pc \in {"flush", "capture", "echo", "crc"}, NEW t \in Texts,
           NEW d \in Content, Wait(pc, t, d)
    PROVE  host' \in Host
  BY LinkAssumption DEF Wait, Host

LEMMA WriteTyped ==
    ASSUME LinkTypeOK, NEW t \in Texts, NEW d \in Content, Write(t, d)
    PROVE  /\ wire' \in Seq(Sent)
           /\ Pushed(wire', wire, [text |-> t, data |-> d])
  <1>1. [text |-> t, data |-> d] \in Sent
    BY DEF Sent
  <1>2. QED
    BY <1>1, PushFacts DEF Write, LinkTypeOK

LEMMA RequestTyped ==
    ASSUME LinkTypeOK, NEW op, NEW arg, Command(op, arg) \in Texts, Request(op, arg)
    PROVE  /\ host' \in Host /\ wire' \in Seq(Sent) /\ port' = "open"
           /\ Pushed(wire', wire, [text |-> Command(op, arg), data |-> ERASED])
           /\ host'.pc = "capture" /\ host'.text = Command(op, arg)
  <1>1. host' \in Host
    BY WaitTyped, ContentFacts DEF Request
  <1>2. wire' \in Seq(Sent) /\ Pushed(wire', wire, [text |-> Command(op, arg), data |-> ERASED])
    BY WriteTyped, ContentFacts DEF Request
  <1>3. QED
    BY <1>1, <1>2 DEF Request, open_port, Wait

LEMMA EmptyTyped == <<>> \in Seq(Message) /\ <<>> \in Seq(Sent)
  OBVIOUS

\* The port may be closed, what is in the buffer is gone.
LEMMA ExceptionTyped ==
    ASSUME LinkTypeOK, Exception
    PROVE  /\ host' \in Host /\ late' \in BOOLEAN /\ buf' = <<>> /\ line' \in {line, <<>>}
           /\ port' \in {"open", "closed"} /\ line' \in Seq(Message)
           /\ IF host.text.op = "DEVIDSST" THEN host'.pc = "idle" /\ late'
              ELSE host'.pc = "down" /\ late' = late
  <1>1. line \in Seq(Message) /\ port \in {"open", "closed"} /\ late \in BOOLEAN
    BY DEF LinkTypeOK
  <1>2. CASE host.text.op = "DEVIDSST"
    BY <1>1, <1>2, RestingTyped, EmptyTyped DEF Exception, LeavePort
  <1>3. CASE host.text.op # "DEVIDSST"
    BY <1>1, <1>3, RestingTyped, EmptyTyped DEF Exception, close_port
  <1>4. QED
    BY <1>2, <1>3

LEMMA BackTyped ==
    ASSUME LinkTypeOK, Back \/ BackClosed
    PROVE  /\ host' \in Host /\ late' = late /\ buf' = <<>> /\ line' \in {line, <<>>}
           /\ port' \in {"open", "closed"} /\ line' \in Seq(Message)
           /\ host'.pc = "idle"
  <1>1. line \in Seq(Message) /\ port \in {"open", "closed"}
    BY DEF LinkTypeOK
  <1>2. host' = Resting("idle") /\ late' = late /\ buf' = <<>>
        /\ line' \in {line, <<>>} /\ port' \in {port, "closed"}
    BY DEF Back, BackClosed, close_port, LeavePort
  <1>3. QED
    BY <1>1, <1>2, RestingTyped, EmptyTyped

\* What was waited for has come: there is a message in the buffer.
LEMMA DoneFacts ==
    ASSUME LinkTypeOK, Done
    PROVE  Len(buf) \in Nat \ {0} /\ buf[1] \in Message /\ buf # <<>>
  <1>1. buf \in Seq(Message)
    BY DEF LinkTypeOK
  <1>2. Bytes(buf) \in Nat /\ Bytes(<<>>) = 0
    BY <1>1, BytesFacts
  <1>3. Needed \in Nat \ {0}
    BY DEF Needed, AnswerSize
  <1>4. buf # <<>>
    BY <1>2, <1>3 DEF Done, GoesOn
  <1>5. QED
    BY <1>1, <1>4, PopFacts

\* The first message of the buffer is the echo waited for.
LEMMA EchoFacts ==
    ASSUME LinkTypeOK, Done, EchoMatches(host.text)
    PROVE  /\ Len(buf) >= 2 /\ Len(buf) \in Nat /\ buf[1].part = "echo"
           /\ buf[1].text = host.text /\ buf[1] \in Message /\ buf[2] \in Message
           /\ host.text \in Texts
  <1>1. Len(buf) >= 2 /\ buf \in Seq(Message) /\ Len(buf) \in Nat
    BY LenProperties DEF EchoMatches, LinkTypeOK
  <1>2. buf[1] \in Message /\ buf[2] \in Message
    BY <1>1, ElementOfSeq
  <1>3. QED
    BY <1>1, <1>2 DEF EchoMatches, LinkTypeOK, Host

\* The steps of the board and of the line.
Moves == \/ Take \/ CarryOut \/ TakeData \/ BoardGivesUp \/ Receive
         \/ GarbleWire \/ GarbleLine

LEMMA MovesTyped == ASSUME LinkTypeOK, Moves PROVE LinkTypeOK'
  <1>1. CASE Take
    <2>1. wire' \in Seq(Sent) /\ line' \in Seq(Message)
          /\ UNCHANGED <<host, meant, banks, late, got, port, buf, chip, garbled>>
      BY <1>1, TakeShape DEF hostVars
    <2>2. board' \in [pc : {"busy", "data"}, text : Texts]
          /\ (board'.pc = "data" => board'.text.op = "WRSECT")
      BY <1>1, TakeShape DEF Sent
    <2>3. QED
      BY <2>1, <2>2 DEF LinkTypeOK
  <1>2. CASE CarryOut
    <2>1. line' \in Seq(Message) /\ chip' \in Chip /\ board' \in [pc : {"idle"}]
          /\ UNCHANGED <<host, meant, banks, late, got, port, buf, wire, garbled>>
      BY <1>2, CarryOutShape DEF hostVars
    <2>2. QED
      BY <2>1 DEF LinkTypeOK
  <1>3. CASE TakeData
    <2>1. wire' \in Seq(Sent) /\ line' \in Seq(Message)
          /\ UNCHANGED <<host, meant, banks, late, got, port, buf, garbled>>
      BY <1>3, TakeDataShape DEF hostVars, LinkTypeOK
    <2>2. board' \in [pc : {"idle"}] \cup [pc : {"busy", "data"}, text : Texts]
          /\ (board'.pc = "data" => board'.text.op = "WRSECT")
      BY <1>3, TakeDataShape DEF LinkTypeOK
    <2>3. chip' \in Chip
      <3>1. CASE UNCHANGED chip
        BY <3>1 DEF LinkTypeOK
      <3> DEFINE held == BitAnd(chip.sector[board.text.arg], wire[1].data)
      <3>2. CASE chip' = [chip EXCEPT !.sector[board.text.arg] = held]
        <4>1. wire[1].data \in Content /\ chip \in Chip /\ board.text.arg \in Sectors
          BY <1>3, TakeDataShape DEF Sent, LinkTypeOK
        <4>2. held \in Content
          BY <4>1, BitAndAssumption DEF Chip
        <4> HIDE DEF held
        <4>3. QED
          BY <3>2, <4>1, <4>2 DEF Chip
      <3>3. QED
        BY <1>3, <3>1, <3>2, TakeDataShape
    <2>4. QED
      BY <2>1, <2>2, <2>3 DEF LinkTypeOK
  <1>4. CASE BoardGivesUp
    BY <1>4 DEF BoardGivesUp, hostVars, LinkTypeOK
  <1>5. CASE Receive
    <2>1. line' \in Seq(Message) /\ buf' \in Seq(Message) /\ port = "open"
          /\ UNCHANGED <<host, meant, banks, late, got, port, wire, board, chip, garbled>>
      BY <1>5, ReceiveShape DEF hostVars, Receive
    <2>2. QED
      BY <2>1 DEF LinkTypeOK
  <1>6. CASE GarbleWire
    <2>1. wire' \in Seq(Sent) /\ garbled' \in 0 .. MaxGarbled
          /\ UNCHANGED <<host, meant, banks, late, got, port, buf, line, board, chip>>
      BY <1>6, GarbleWireShape DEF hostVars
    <2>2. QED
      BY <2>1 DEF LinkTypeOK
  <1>7. CASE GarbleLine
    <2>1. line' \in Seq(Message) /\ garbled' \in 0 .. MaxGarbled
          /\ UNCHANGED <<host, meant, banks, late, got, port, buf, wire, board, chip>>
      BY <1>7, GarbleLineShape DEF hostVars
    <2>2. QED
      BY <2>1 DEF LinkTypeOK
  <1>8. QED
    BY <1>1, <1>2, <1>3, <1>4, <1>5, <1>6, <1>7 DEF Moves

\* A command is sent, from rest or when the program is started.
Sends == \/ get_board_info
         \/ read_chip_id
         \/ \E s \in Blocks : read_block(s)
         \/ \E s \in Sectors : read_sector(s) \/ erase_sector(s)
         \/ \E s \in Sectors, d \in Data : burn_sector(s, d)

\* What they have in common.
Sent1(op, arg, d, pc) ==
    /\ Command(op, arg) \in Texts /\ d \in Content
    /\ host' \in Host /\ host'.pc = pc /\ host'.text = Command(op, arg)
    /\ host'.data = d
    /\ wire' \in Seq(Sent) /\ Pushed(wire', wire, [text |-> Command(op, arg), data |-> ERASED])
    /\ port' = "open" /\ buf' \in {buf, <<>>}
    /\ UNCHANGED <<line, board, chip, garbled, meant, banks, late, got>>

LEMMA SendsShape ==
    ASSUME LinkTypeOK, Sends
    PROVE  \/ host.pc = "flush" /\ Sent1("READINFO", 0, ERASED, "capture")
           \/ host.pc = "idle" /\ Sent1("DEVIDSST", 0, ERASED, "capture") /\ buf' = buf
           \/ /\ host.pc = "idle" /\ banks # 0 /\ buf' = buf
              /\ \/ \E s \in Blocks : Sent1("RDBK", s, ERASED, "capture")
                 \/ \E s \in Sectors : Sent1("RDSECT", s, ERASED, "capture")
                 \/ \E s \in Sectors : Sent1("ESST", s, ERASED, "capture")
                 \/ \E s \in Sectors, d \in Data : Sent1("WRSECT", s, d, "echo")
  <1>0. ASSUME NEW op, NEW arg, Command(op, arg) \in Texts, Request(op, arg),
               buf' \in {buf, <<>>},
               UNCHANGED <<line, board, chip, garbled, meant, banks, late, got>>
        PROVE  Sent1(op, arg, ERASED, "capture")
    <2>1. host'.data = ERASED
      BY <1>0 DEF Request, Wait
    <2>2. QED
      BY <1>0, <2>1, RequestTyped, ContentFacts DEF Sent1
  <1>1. CASE get_board_info
    BY <1>0, <1>1, TextFacts DEF get_board_info
  <1>2. CASE read_chip_id
    BY <1>0, <1>2, TextFacts DEF read_chip_id, Idle
  <1>3. ASSUME NEW s \in Blocks, read_block(s)
        PROVE  host.pc = "idle" /\ banks # 0 /\ buf' = buf /\ Sent1("RDBK", s, ERASED, "capture")
    BY <1>0, <1>3, TextFacts DEF read_block, Idle
  <1>4. ASSUME NEW s \in Sectors, read_sector(s)
        PROVE  host.pc = "idle" /\ banks # 0 /\ buf' = buf /\ Sent1("RDSECT", s, ERASED, "capture")
    BY <1>0, <1>4, TextFacts DEF read_sector, Idle
  <1>5. ASSUME NEW s \in Sectors, erase_sector(s)
        PROVE  host.pc = "idle" /\ banks # 0 /\ buf' = buf /\ Sent1("ESST", s, ERASED, "capture")
    BY <1>0, <1>5, TextFacts DEF erase_sector, Idle
  <1>6. ASSUME NEW s \in Sectors, NEW d \in Data, burn_sector(s, d)
        PROVE  host.pc = "idle" /\ banks # 0 /\ buf' = buf /\ Sent1("WRSECT", s, d, "echo")
    <2>1. Command("WRSECT", s) \in Texts /\ d \in Content /\ ERASED \in Content
      BY TextFacts, ContentFacts DEF Content
    <2>2. host' \in Host
      BY <1>6, <2>1, WaitTyped DEF burn_sector
    <2>3. wire' \in Seq(Sent)
          /\ Pushed(wire', wire, [text |-> Command("WRSECT", s), data |-> ERASED])
      BY <1>6, <2>1, WriteTyped DEF burn_sector
    <2>4. host'.pc = "echo" /\ host'.text = Command("WRSECT", s) /\ host'.data = d
      BY <1>6 DEF burn_sector, Wait
    <2>5. QED
      BY <1>6, <2>1, <2>2, <2>3, <2>4 DEF burn_sector, open_port, Idle, Sent1
  <1>7. QED
    BY <1>1, <1>2, <1>3, <1>4, <1>5, <1>6 DEF Sends

LEMMA SendsTyped == ASSUME LinkTypeOK, Sends PROVE LinkTypeOK'
  <1>1. /\ host' \in Host /\ wire' \in Seq(Sent) /\ port' = "open" /\ buf' \in {buf, <<>>}
        /\ UNCHANGED <<line, board, chip, garbled, meant, banks, late, got>>
    BY SendsShape DEF Sent1
  <1>2. buf' \in Seq(Message)
    BY <1>1, EmptyTyped DEF LinkTypeOK
  <1>3. QED
    BY <1>1, <1>2 DEF LinkTypeOK

\* The steps of the program that end a wait, or start the program.
Ends1 == GiveUpWaiting \/ EchoWrong \/ BoardKnown \/ ChipKnown \/ DataRead \/ SectorErased
            \/ SectorBurnt

\* What happens to the queue when a wait ends: a beginning of it is dropped.
LEMMA EndsShape ==
    ASSUME LinkTypeOK, Ends1
    PROVE  /\ host' \in Host /\ late' \in BOOLEAN /\ port' \in {"open", "closed"}
           /\ buf' = <<>> /\ line' \in {line, <<>>} /\ line' \in Seq(Message)
           /\ UNCHANGED <<wire, board, chip, garbled>>
           /\ IF host'.pc = "idle" THEN TRUE ELSE host'.pc = "down" /\ late' = late
  <1>1. CASE Exception /\ UNCHANGED <<wire, board, chip, garbled>>
    BY <1>1, ExceptionTyped
  <1>2. CASE (Back \/ BackClosed) /\ UNCHANGED <<wire, board, chip, garbled>>
    BY <1>2, BackTyped DEF LinkTypeOK
  <1>3. QED
    BY <1>1, <1>2 DEF Ends1, GiveUpWaiting, EchoWrong, BoardKnown, ChipKnown, DataRead,
                      SectorErased, SectorBurnt

LEMMA EndsTyped == ASSUME LinkTypeOK, Ends1 PROVE LinkTypeOK'
  <1>1. /\ host' \in Host /\ late' \in BOOLEAN /\ port' \in {"open", "closed"}
        /\ buf' = <<>> /\ line' \in Seq(Message) /\ UNCHANGED <<wire, board, chip, garbled>>
    BY EndsShape
  <1>2. meant' \in [Sectors -> Content]
    <2>1. CASE SectorErased
      <3>1. meant' = [meant EXCEPT ![host.text.arg] = ERASED]
        BY <2>1 DEF SectorErased
      <3>2. QED
        BY <3>1, ContentFacts DEF LinkTypeOK
    <2>2. CASE SectorBurnt
      <3> DEFINE held == BitAnd(meant[host.text.arg], host.data)
      <3>1. meant' = meant \/ meant' = [meant EXCEPT ![host.text.arg] = held]
        BY <2>2 DEF SectorBurnt
      <3>2. host.data \in Content /\ meant \in [Sectors -> Content]
        BY DEF LinkTypeOK, Host
      <3>3. host.text.arg \in Sectors => held \in Content
        BY <3>2, BitAndAssumption
      <3> HIDE DEF held
      <3>4. QED
        BY <3>1, <3>2, <3>3
    <2>3. CASE BoardKnown
      BY <2>3 DEF BoardKnown, LinkTypeOK, Chip
    <2>4. CASE UNCHANGED meant
      BY <2>4 DEF LinkTypeOK
    <2>5. QED
      BY <2>1, <2>2, <2>3, <2>4 DEF Ends1, GiveUpWaiting, EchoWrong, ChipKnown, DataRead
  <1>3. banks' \in {0, 2, 4, 8}
    <2>1. CASE ChipKnown
      <3>1. banks' \in {banks, 2, 4, 8}
        <4>1. \A id : BanksOf(id) \in {0, 2, 4, 8}
          BY DEF BanksOf
        <4>2. QED
          BY <2>1, <4>1, Zenon DEF ChipKnown
      <3>2. QED
        BY <3>1 DEF LinkTypeOK
    <2>2. CASE UNCHANGED banks
      BY <2>2 DEF LinkTypeOK
    <2>3. QED
      BY <2>1, <2>2 DEF Ends1, GiveUpWaiting, EchoWrong, BoardKnown, DataRead,
                        SectorErased, SectorBurnt
  <1>4. got' = Nothing \/ got' \in [arg : Sectors, val : Seq(0 .. 255)]
    <2>1. CASE DataRead
      <3>1. host.text.arg \in Sectors
        BY <2>1, TextFacts DEF DataRead, LinkTypeOK, Host, Work
      <3>2. buf[2].val \in Seq(0 .. 255)
        BY <2>1, EchoFacts, MessageFacts DEF DataRead
      <3>3. QED
        BY <2>1, <3>1, <3>2 DEF DataRead
    <2>2. CASE got' \in {got, Nothing}
      BY <2>2 DEF LinkTypeOK
    <2>3. QED
      BY <2>1, <2>2 DEF Ends1, GiveUpWaiting, EchoWrong, BoardKnown, ChipKnown,
                        SectorErased, SectorBurnt
  <1>5. QED
    BY <1>1, <1>2, <1>3, <1>4 DEF LinkTypeOK

\* The data of a burn is sent, or the echo was wrong.
LEMMA SendDataShape ==
    ASSUME LinkTypeOK, SendData, HostSane
    PROVE  /\ host.pc = "echo" /\ host.text.op = "WRSECT" /\ host.text \in Texts
           /\ host.data \in Content
           /\ \/ /\ EchoFirst(host.text)
                 /\ host' \in Host /\ host'.pc = "crc" /\ host'.text = host.text
                 /\ host'.data = host.data
                 /\ wire' \in Seq(Sent)
                 /\ Pushed(wire', wire, [text |-> host.text, data |-> host.data])
                 /\ buf' = <<>>
                 /\ UNCHANGED <<port, line, late, board, chip, garbled, meant, banks, got>>
              \/ /\ host' \in Host /\ host'.pc = "down" /\ late' = late
                 /\ buf' = <<>> /\ line' \in {line, <<>>} /\ line' \in Seq(Message)
                 /\ port' \in {"open", "closed"}
                 /\ UNCHANGED <<wire, board, chip, garbled, meant, banks, got>>
  <1>1. host.pc = "echo" /\ host.text.op = "WRSECT" /\ host.text \in Texts
        /\ host.data \in Content
    BY DEF SendData, HostSane, LinkTypeOK, Host
  <1>2. CASE /\ EchoFirst(host.text)
             /\ Write(host.text, host.data) /\ Wait("crc", host.text, host.data)
             /\ buf' = <<>> /\ UNCHANGED <<port, line, late>>
    <2>1. UNCHANGED <<board, chip, garbled, meant, banks, got>>
      BY DEF SendData
    <2>2. host' \in Host /\ wire' \in Seq(Sent)
          /\ Pushed(wire', wire, [text |-> host.text, data |-> host.data])
      BY <1>1, <1>2, WaitTyped, WriteTyped
    <2>3. host'.pc = "crc" /\ host'.text = host.text /\ host'.data = host.data
      BY <1>2 DEF Wait
    <2>4. QED
      BY <1>1, <1>2, <2>1, <2>2, <2>3
  <1>3. CASE Exception /\ UNCHANGED wire
    <2>1. UNCHANGED <<wire, board, chip, garbled, meant, banks, got>>
      BY <1>3 DEF SendData
    <2>2. QED
      BY <1>1, <1>3, <2>1, ExceptionTyped
  <1>4. QED
    BY <1>2, <1>3 DEF SendData

LEMMA SendDataTyped == ASSUME LinkTypeOK, HostSane, SendData PROVE LinkTypeOK'
  <1>1. CASE /\ host' \in Host /\ wire' \in Seq(Sent) /\ buf' = <<>>
             /\ UNCHANGED <<port, line, late, board, chip, garbled, meant, banks, got>>
    BY <1>1, EmptyTyped DEF LinkTypeOK
  <1>2. CASE /\ host' \in Host /\ late' = late
             /\ buf' = <<>> /\ line' \in Seq(Message) /\ port' \in {"open", "closed"}
             /\ UNCHANGED <<wire, board, chip, garbled, meant, banks, got>>
    BY <1>2, EmptyTyped DEF LinkTypeOK
  <1>3. QED
    BY <1>1, <1>2, SendDataShape

LEMMA WaitRoundShape ==
    ASSUME LinkTypeOK, WaitRound
    PROVE  /\ host' \in Host /\ host'.pc = host.pc /\ host'.text = host.text
           /\ host'.data = host.data
           /\ UNCHANGED <<port, buf, meant, banks, late, got, boardVars>>
  <1>1. host \in Host /\ buf \in Seq(Message)
    BY DEF LinkTypeOK
  <1>2. NextCtr \in 0 .. TRIES /\ Bytes(buf) \in Nat
    BY <1>1, BytesFacts, LinkAssumption DEF WaitRound, NextCtr, Host
  <1>3. host' = [host EXCEPT !.ctr = NextCtr, !.seen = Bytes(buf)]
    BY DEF WaitRound
  <1>4. host' \in Host /\ host'.pc = host.pc /\ host'.text = host.text /\ host'.data = host.data
    BY <1>1, <1>2, <1>3 DEF Host
  <1>5. QED
    BY <1>4 DEF WaitRound

LEMMA StartShape ==
    ASSUME LinkTypeOK, select_com_port
    PROVE  /\ host.pc = "down" /\ host' \in Host /\ host'.pc = "flush" /\ port' = "open"
           /\ banks' = 0 /\ late' = FALSE /\ got' = Nothing
           /\ UNCHANGED <<buf, meant, boardVars>>
  <1>1. Wait("flush", Command("READINFO", 0), ERASED)
    BY DEF select_com_port
  <1>2. host' \in Host
    BY <1>1, WaitTyped, TextFacts, ContentFacts
  <1>3. QED
    BY <1>1, <1>2 DEF select_com_port, open_port, Wait

LEMMA SwapShape ==
    ASSUME LinkTypeOK, Swap
    PROVE  /\ host.pc = "idle" /\ chip' \in Chip /\ meant' = chip'.sector
           /\ meant' \in [Sectors -> Content] /\ got' = Nothing
           /\ UNCHANGED <<host, port, buf, wire, line, board, banks, late, garbled>>
  BY ContentFacts DEF Swap, AnyChip, Chip

\* The types hold in every step.
LEMMA StepTyped ==
    ASSUME LinkTypeOK, HostSane, [LinkNext]_linkVars PROVE LinkTypeOK'
  <1>1. CASE WaitRound
    BY <1>1, WaitRoundShape DEF LinkTypeOK, boardVars
  <1>2. CASE select_com_port
    BY <1>2, StartShape DEF LinkTypeOK, boardVars
  <1>3. CASE Swap
    BY <1>3, SwapShape DEF LinkTypeOK
  <1>4. CASE UNCHANGED linkVars
    BY <1>4 DEF linkVars, LinkTypeOK
  <1>5. QED
    BY <1>1, <1>2, <1>3, <1>4, MovesTyped, SendsTyped, EndsTyped, SendDataTyped
       DEF LinkNext, HostSteps, BoardSteps, Moves, Sends, Ends1

-----------------------------------------------------------------------------
(***************************************************************************)
(* The order of the queue is kept by what the board and the line do, by    *)
(* dropping a beginning of it, and by sending the next command.            *)
(***************************************************************************)
QueueTyped ==
    /\ buf \in Seq(Message) /\ line \in Seq(Message) /\ wire \in Seq(Sent)
    /\ board \in [pc : {"idle"}] \cup [pc : {"busy", "data"}, text : Texts]

\* A beginning of the queue is dropped; nothing is; a command is put behind it.
Dropped == buf' = <<>> /\ line' \in {line, <<>>} /\ UNCHANGED <<wire, board>>
Same    == UNCHANGED <<buf, line, wire, board>>
SentW(w) == Pushed(wire', wire, w) /\ buf' \in {buf, <<>>} /\ UNCHANGED <<line, board>>

LEMMA QueueFacts ==
    ASSUME LinkTypeOK
    PROVE  /\ QueueTyped
           /\ Len(buf) \in Nat /\ Len(line) \in Nat /\ Len(wire) \in Nat
           /\ (buf = <<>> <=> Len(buf) = 0) /\ (line = <<>> <=> Len(line) = 0)
           /\ (wire = <<>> <=> Len(wire) = 0)
  <1>1. QueueTyped
    BY DEF LinkTypeOK, QueueTyped
  <1>2. QED
    BY <1>1, EmptySeq, LenProperties DEF QueueTyped

LEMMA EchoParts ==
    /\ \A t : Echo(t).part = "echo" /\ Echo(t).text = t
    /\ \A t, v : Answer(t, v).part = "answer" /\ Answer(t, v).text = t /\ Answer(t, v).val = v
    /\ Echo(Junk).text.op = "junk"
  BY TextFacts DEF Echo, Answer

\* The lengths of two queues.
Lengths(p, q) == Len(p) \in Nat /\ Len(q) \in Nat

LEMMA PoppedFacts ==
    ASSUME NEW p, NEW q, Lengths(p, q), Popped(p, q), Len(q) # 0
    PROVE  /\ \A S : Only(q, S) => Only(p, S) /\ q[1].text.op \in S
           /\ \A X : /\ Ends(q, X) => Ends(p, X)
                     /\ Has(p, X) \/ q[1].text.op = X => Has(q, X)
                     /\ Ends(q, X) /\ q[1].text.op = X => Only(p, Behind(X))
  <1>1. ASSUME NEW S, Only(q, S) PROVE Only(p, S) /\ q[1].text.op \in S
    BY <1>1 DEF Only, Popped, Lengths
  <1>2. ASSUME NEW X, Ends(q, X) PROVE Ends(p, X)
    BY <1>2 DEF Ends, Popped, Lengths
  <1>3. ASSUME NEW X, Has(p, X) \/ q[1].text.op = X PROVE Has(q, X)
    BY <1>3 DEF Has, Popped, Lengths
  <1>4. ASSUME NEW X, Ends(q, X), q[1].text.op = X PROVE Only(p, Behind(X))
    BY <1>4 DEF Ends, Only, Popped, Lengths
  <1>5. QED
    BY <1>1, <1>2, <1>3, <1>4

LEMMA PushedFacts ==
    ASSUME NEW p, NEW q, NEW m, Lengths(p, q), Pushed(p, q, m)
    PROVE  /\ \A S : Only(q, S) /\ m.text.op \in S => Only(p, S)
           /\ \A X : /\ Ends(q, X) /\ (Has(q, X) => m.text.op \in Behind(X)) => Ends(p, X)
                     /\ Has(p, X) => Has(q, X) \/ m.text.op = X
  <1>1. ASSUME NEW S, Only(q, S), m.text.op \in S PROVE Only(p, S)
    BY <1>1 DEF Only, Pushed, Lengths
  <1>2. ASSUME NEW X, Ends(q, X), Has(q, X) => m.text.op \in Behind(X) PROVE Ends(p, X)
    <2>1. SUFFICES ASSUME NEW i \in 1 .. Len(p), NEW j \in 1 .. Len(p), i < j,
                          p[i].text.op = X
                   PROVE  p[j].text.op \in Behind(X)
      BY DEF Ends
    <2>2. i \in 1 .. Len(q) /\ p[i] = q[i]
      BY <2>1 DEF Pushed, Lengths
    <2>3. CASE j = Len(q) + 1
      BY <1>2, <2>1, <2>2, <2>3 DEF Pushed, Has
    <2>4. CASE j # Len(q) + 1
      <3>1. j \in 1 .. Len(q) /\ p[j] = q[j]
        BY <2>4 DEF Pushed, Lengths
      <3>2. QED
        BY <1>2, <2>1, <2>2, <3>1 DEF Ends
    <2>5. QED
      BY <2>3, <2>4
  <1>3. ASSUME NEW X, Has(p, X) PROVE Has(q, X) \/ m.text.op = X
    BY <1>3 DEF Has, Pushed, Lengths
  <1>4. QED
    BY <1>1, <1>2, <1>3

LEMMA ChangedFacts ==
    ASSUME NEW p, NEW q, NEW m, Lengths(p, q), Changed(p, q, m),
           m.text.op \in {q[1].text.op, "junk"}, Len(q) # 0
    PROVE  /\ \A S : Only(q, S) /\ "junk" \in S => Only(p, S)
           /\ \A X : X # "junk" => /\ Ends(q, X) => Ends(p, X)
                                   /\ Has(p, X) => Has(q, X)
  <1>1. ASSUME NEW S, Only(q, S), "junk" \in S PROVE Only(p, S)
    BY <1>1 DEF Only, Changed, Lengths
  <1>2. ASSUME NEW X, X # "junk", Ends(q, X) PROVE Ends(p, X)
    BY <1>2 DEF Ends, Changed, Lengths, Behind
  <1>3. ASSUME NEW X, X # "junk", Has(p, X) PROVE Has(q, X)
    BY <1>3 DEF Has, Changed, Lengths
  <1>4. QED
    BY <1>1, <1>2, <1>3

\* Where a message of the changed queue comes from.
LEMMA PushedSplit ==
    ASSUME NEW p, NEW q, NEW m, Lengths(p, q), Pushed(p, q, m)
    PROVE  \A j \in 1 .. Len(p) : \/ p[j] = m /\ j = Len(p)
                                  \/ j \in 1 .. Len(q) /\ p[j] = q[j] /\ j # Len(p)
  BY DEF Lengths, Pushed

LEMMA PoppedSplit ==
    ASSUME NEW p, NEW q, Lengths(p, q), Popped(p, q), Len(q) # 0
    PROVE  /\ 1 \in 1 .. Len(q)
           /\ \A j \in 1 .. Len(p) : /\ j + 1 \in 1 .. Len(q) /\ p[j] = q[j + 1]
                                     /\ j + 1 = Len(q) => j = Len(p)
  BY DEF Lengths, Popped

LEMMA AllLengths ==
    ASSUME LinkTypeOK, LinkTypeOK'
    PROVE  Lengths(buf', buf) /\ Lengths(line', line) /\ Lengths(wire', wire)
  BY LenProperties DEF LinkTypeOK, Lengths

LEMMA OnlyMoves ==
    ASSUME LinkTypeOK, Moves, NEW S, "junk" \in S, PipeOnly(S)
    PROVE  PipeOnly(S)'
  <1>0. Lengths(buf', buf) /\ Lengths(line', line) /\ Lengths(wire', wire)
    BY AllLengths, MovesTyped
  <1>1. CASE Take
    BY <1>1, TakeShape, EchoParts, <1>0,
       PoppedFacts, PushedFacts, ChangedFacts
       DEF PipeOnly, BoardOnly
  <1>2. CASE CarryOut
    BY <1>2, CarryOutShape, EchoParts, <1>0,
       PoppedFacts, PushedFacts, ChangedFacts
       DEF PipeOnly, BoardOnly
  <1>3. CASE TakeData
    BY <1>3, TakeDataShape, EchoParts, <1>0,
       PoppedFacts, PushedFacts, ChangedFacts
       DEF PipeOnly, BoardOnly
  <1>4. CASE BoardGivesUp
    BY <1>4, EchoParts, <1>0,
       PoppedFacts, PushedFacts, ChangedFacts
       DEF PipeOnly, BoardOnly, BoardGivesUp, hostVars
  <1>5. CASE Receive
    BY <1>5, ReceiveShape, EchoParts, <1>0,
       PoppedFacts, PushedFacts, ChangedFacts
       DEF PipeOnly, BoardOnly, Message
  <1>6. CASE GarbleWire
    BY <1>6, GarbleWireShape, EchoParts, <1>0,
       PoppedFacts, PushedFacts, ChangedFacts
       DEF PipeOnly, BoardOnly
  <1>7. CASE GarbleLine
    BY <1>7, GarbleLineShape, EchoParts, <1>0,
       PoppedFacts, PushedFacts, ChangedFacts
       DEF PipeOnly, BoardOnly
  <1>8. QED
    BY <1>1, <1>2, <1>3, <1>4, <1>5, <1>6, <1>7 DEF Moves

LEMMA OnlyDropped ==
    ASSUME LinkTypeOK, Dropped \/ Same, NEW S, PipeOnly(S)
    PROVE  PipeOnly(S)'
  BY QueueFacts DEF Dropped, Same, PipeOnly, Only, BoardOnly

LEMMA OnlySent ==
    ASSUME LinkTypeOK, NEW w, SentW(w), NEW S, w.text.op \in S, PipeOnly(S)
    PROVE  PipeOnly(S)'
  BY QueueFacts DEF SentW, PipeOnly, Only, BoardOnly, Pushed

LEMMA BehindMoves ==
    ASSUME LinkTypeOK, Moves, NEW X, X # "junk", NothingBehind(X)
    PROVE  NothingBehind(X)'
  <1>0. Lengths(buf', buf) /\ Lengths(line', line) /\ Lengths(wire', wire)
    BY AllLengths, MovesTyped
  <1>1. CASE Take
    <2>1. /\ Len(wire) # 0 /\ Popped(wire', wire) /\ Pushed(line', line, Echo(wire[1].text))
          /\ Echo(wire[1].text).text = wire[1].text /\ buf' = buf
          /\ board.pc = "idle" /\ board'.text = wire[1].text
      BY <1>1, TakeShape, EchoParts
    <2>2. Has(buf, X) \/ Has(line, X) => wire[1].text.op \in Behind(X)
      BY <2>1, <1>0, PoppedFacts DEF NothingBehind
    <2>3. Ends(buf', X) /\ Ends(line', X) /\ Ends(wire', X)
      BY <2>1, <2>2, <1>0, PoppedFacts, PushedFacts DEF NothingBehind
    <2>4. Has(buf', X) => Only(line', Behind(X))
      BY <2>1, <2>2, <1>0, PushedFacts DEF NothingBehind
    <2>5. Has(line', X) => Has(line, X) \/ wire[1].text.op = X
      BY <2>1, <1>0, PushedFacts
    <2>6. Has(buf', X) \/ Has(line', X) => wire[1].text.op \in Behind(X)
      BY <2>1, <2>2, <2>5 DEF Behind
    <2>7. Has(buf, X) \/ Has(line, X) \/ wire[1].text.op = X => Only(wire', Behind(X))
      BY <2>1, <1>0, PoppedFacts DEF NothingBehind
    <2>8. QED
      BY <2>1, <2>3, <2>4, <2>5, <2>6, <2>7 DEF NothingBehind, BoardOnly
  <1>2. CASE CarryOut
    BY <1>2, CarryOutShape, EchoParts, <1>0,
       PoppedFacts, PushedFacts, ChangedFacts
       DEF NothingBehind, BoardOnly, Behind
  <1>3. CASE TakeData
    BY <1>3, TakeDataShape, EchoParts, <1>0,
       PoppedFacts, PushedFacts, ChangedFacts
       DEF NothingBehind, BoardOnly, Behind
  <1>4. CASE BoardGivesUp
    BY <1>4, EchoParts, <1>0,
       PoppedFacts, PushedFacts, ChangedFacts
       DEF NothingBehind, BoardOnly, Behind, BoardGivesUp, hostVars
  <1>5. CASE Receive
    <2>1. /\ Len(line) # 0 /\ Popped(line', line) /\ Pushed(buf', buf, line[1])
          /\ wire' = wire /\ board' = board
      BY <1>5, ReceiveShape
    <2>2. Has(buf', X) => Has(buf, X) \/ Has(line, X)
      BY <2>1, <1>0, PoppedFacts, PushedFacts
    <2>3. Has(line', X) => Has(line, X)
      BY <2>1, <1>0, PoppedFacts
    <2>4. Ends(buf', X) /\ Ends(line', X) /\ Ends(wire', X)
      BY <2>1, <1>0, PoppedFacts, PushedFacts DEF NothingBehind
    <2>5. Has(buf', X) => Only(line', Behind(X))
      <3>1. Has(buf', X) => Has(buf, X) \/ line[1].text.op = X
        BY <2>1, <1>0, PushedFacts
      <3>2. QED
        BY <3>1, <2>1, <1>0, PoppedFacts DEF NothingBehind
    <2>6. QED
      BY <2>1, <2>2, <2>3, <2>4, <2>5 DEF NothingBehind, BoardOnly
  <1>6. CASE GarbleWire
    BY <1>6, GarbleWireShape, EchoParts, <1>0,
       PoppedFacts, PushedFacts, ChangedFacts
       DEF NothingBehind, BoardOnly, Behind
  <1>7. CASE GarbleLine
    BY <1>7, GarbleLineShape, EchoParts, <1>0,
       PoppedFacts, PushedFacts, ChangedFacts
       DEF NothingBehind, BoardOnly, Behind
  <1>8. QED
    BY <1>1, <1>2, <1>3, <1>4, <1>5, <1>6, <1>7 DEF Moves

LEMMA BehindDropped ==
    ASSUME LinkTypeOK, Dropped \/ Same, NEW X, NothingBehind(X)
    PROVE  NothingBehind(X)'
  <1>1. \A S, Y : ~Has(<<>>, Y) /\ Ends(<<>>, Y) /\ Only(<<>>, S)
    BY DEF Has, Ends, Only
  <1>2. CASE Same
    BY <1>2 DEF Same, NothingBehind, BoardOnly
  <1>3. CASE Dropped
    <2>1. buf' = <<>> /\ UNCHANGED <<wire, board>>
      BY <1>3 DEF Dropped
    <2>2. CASE line' = line
      BY <1>1, <2>1, <2>2 DEF NothingBehind, BoardOnly
    <2>3. CASE line' = <<>>
      BY <1>1, <2>1, <2>3 DEF NothingBehind, BoardOnly
    <2>4. QED
      BY <1>3, <2>2, <2>3 DEF Dropped
  <1>4. QED
    BY <1>2, <1>3

\* An X may always be sent; anything may if there is no X.
LEMMA BehindSent ==
    ASSUME LinkTypeOK, NEW w, SentW(w), NEW X, w.text.op = X, NothingBehind(X)
    PROVE  NothingBehind(X)'
  <1>1. Lengths(wire', wire)
    BY QueueFacts DEF SentW, Pushed, Lengths
  <1>2. (\A Y : ~Has(<<>>, Y) /\ Ends(<<>>, Y)) /\ X \in Behind(X)
    BY DEF Has, Ends, Behind
  <1>3. QED
    BY <1>1, <1>2, PushedFacts DEF SentW, NothingBehind, BoardOnly

LEMMA BehindNone ==
    ASSUME NEW X, NEW S, X \notin S, PipeOnly(S)
    PROVE  NothingBehind(X)
  BY DEF PipeOnly, NothingBehind, Ends, Has, Behind, Only, BoardOnly

\* EchoAnswered for one message of the buffer, or of the line.
AnsweredInBuffer(i) ==
    IF i < Len(buf) THEN IsAnswer(buf[i + 1], buf[i].text)
    ELSE IF line # <<>> THEN IsAnswer(line[1], buf[i].text) ELSE BoardAt(buf[i].text)
AnsweredOnLine(i) ==
    IF i < Len(line) THEN IsAnswer(line[i + 1], line[i].text) ELSE BoardAt(line[i].text)

\* A message that comes last is put on the line: when the board is at no command
\* that was echoed, or with the answer to it.
LEMMA AnsweredPut ==
    ASSUME QueueTyped, QueueTyped', EchoAnswered, UNCHANGED buf, NEW m, Pushed(line', line, m),
           Lengths(buf', buf), Lengths(line', line),
           IsEcho(m) => board'.pc = "busy" /\ board'.text = m.text,
           \A t \in Texts : BoardAt(t) => IsAnswer(m, t)
    PROVE  EchoAnswered'
  <1>1. (line = <<>> <=> Len(line) = 0) /\ line' # <<>>
    BY EmptySeq DEF QueueTyped, Pushed, Lengths
  <1>2. \A t : BoardAt(t) => t \in Texts
    BY DEF BoardAt, QueueTyped
  <1>3. ASSUME NEW i \in 1 .. Len(buf), IsEcho(buf[i]) PROVE AnsweredInBuffer(i)'
    <2>1. AnsweredInBuffer(i)
      BY <1>3 DEF EchoAnswered, AnsweredInBuffer
    <2>2. CASE i < Len(buf)
      BY <2>1, <2>2 DEF AnsweredInBuffer
    <2>3. CASE i >= Len(buf) /\ line # <<>>
      <3>1. line'[1] = line[1]
        BY <1>1, <2>3 DEF Pushed, Lengths
      <3>2. QED
        BY <1>1, <2>1, <2>3, <3>1 DEF AnsweredInBuffer, Lengths
    <2>4. CASE i >= Len(buf) /\ line = <<>>
      <3>1. line'[1] = m
        BY <1>1, <2>4 DEF Pushed, Lengths
      <3>2. QED
        BY <1>1, <1>2, <2>1, <2>4, <3>1 DEF AnsweredInBuffer, Lengths
    <2>5. QED
      BY <2>2, <2>3, <2>4 DEF Lengths
  <1>4. ASSUME NEW i \in 1 .. Len(line'), IsEcho(line'[i]) PROVE AnsweredOnLine(i)'
    <2>1. CASE i = Len(line) + 1
      BY <1>4, <2>1 DEF AnsweredOnLine, Pushed, Lengths, BoardAt
    <2>2. CASE i < Len(line)
      <3>1. line'[i] = line[i] /\ line'[i + 1] = line[i + 1] /\ AnsweredOnLine(i)
        BY <1>4, <2>2 DEF Pushed, Lengths, EchoAnswered, AnsweredOnLine
      <3>2. QED
        BY <1>4, <2>2, <3>1 DEF AnsweredOnLine, Pushed, Lengths
    <2>3. CASE i = Len(line)
      <3>1. line'[i] = line[i] /\ line'[i + 1] = m /\ AnsweredOnLine(i)
        BY <1>4, <2>3 DEF Pushed, Lengths, EchoAnswered, AnsweredOnLine
      <3>2. QED
        BY <1>2, <1>4, <2>3, <3>1 DEF AnsweredOnLine, Pushed, Lengths
    <2>4. QED
      BY <1>4, <2>1, <2>2, <2>3 DEF Pushed, Lengths
  <1>5. QED
    BY <1>3, <1>4 DEF EchoAnswered, AnsweredInBuffer, AnsweredOnLine

LEMMA AnsweredMoves ==
    ASSUME LinkTypeOK, Moves, EchoAnswered, BoardSane
    PROVE  EchoAnswered' /\ BoardSane'
  <1>0. /\ Lengths(buf', buf) /\ Lengths(line', line) /\ Lengths(wire', wire)
        /\ LinkTypeOK' /\ QueueTyped /\ QueueTyped'
    BY AllLengths, MovesTyped, QueueFacts DEF LinkTypeOK, QueueTyped
  <1>1. CASE Take
    <2>1. /\ Pushed(line', line, Echo(wire[1].text)) /\ buf' = buf /\ board.pc = "idle"
          /\ board' = [pc |-> IF wire[1].text.op = "WRSECT" THEN "data" ELSE "busy",
                       text |-> wire[1].text]
      BY <1>1, TakeShape
    <2>2. BoardSane'
      BY <2>1 DEF BoardSane
    <2>3. IsEcho(Echo(wire[1].text))
             => board'.pc = "busy" /\ board'.text = Echo(wire[1].text).text
      BY <2>1, EchoParts DEF IsEcho
    <2>4. \A t \in Texts : ~BoardAt(t)
      BY <2>1 DEF BoardAt
    <2>5. QED
      BY <1>0, <2>1, <2>2, <2>3, <2>4, AnsweredPut
  <1>2. CASE CarryOut
    <2>1. PICK v \in Seq(0 .. 255) : Pushed(line', line, Answer(board.text, v))
      BY <1>2, CarryOutShape
    <2>2. buf' = buf /\ board.pc = "busy" /\ board' = [pc |-> "idle"]
      BY <1>2, CarryOutShape
    <2>3. BoardSane'
      BY <2>2 DEF BoardSane
    <2>4. ~IsEcho(Answer(board.text, v))
      BY EchoParts DEF IsEcho
    <2>5. \A t \in Texts : BoardAt(t) => IsAnswer(Answer(board.text, v), t)
      BY EchoParts DEF BoardAt, IsAnswer
    <2>6. QED
      BY <1>0, <2>1, <2>2, <2>3, <2>4, <2>5, AnsweredPut
  <1>3. CASE TakeData
    <2>1. buf' = buf /\ board.pc = "data" /\ \A t \in Texts : ~BoardAt(t)
      BY <1>3, TakeDataShape DEF BoardAt
    <2>2. CASE UNCHANGED <<chip, line, board>>
      BY <2>1, <2>2 DEF EchoAnswered, BoardSane, IsEcho, IsAnswer, BoardAt
    <2>3. ASSUME NEW v, Pushed(line', line, Answer(board.text, v)), board' = [pc |-> "idle"]
          PROVE  EchoAnswered' /\ BoardSane'
      <3>1. BoardSane'
        BY <2>3 DEF BoardSane
      <3>2. ~IsEcho(Answer(board.text, v))
        BY EchoParts DEF IsEcho
      <3>3. QED
        BY <1>0, <2>1, <2>3, <3>1, <3>2, AnsweredPut
    <2>4. QED
      BY <1>3, <2>2, <2>3, TakeDataShape
  <1>4. CASE BoardGivesUp
    BY <1>4, QueueFacts DEF BoardGivesUp, hostVars, EchoAnswered, BoardSane, IsEcho,
       IsAnswer, BoardAt
  <1>5. CASE Receive
    <2>1. /\ Len(line) # 0 /\ line # <<>> /\ Popped(line', line) /\ Pushed(buf', buf, line[1])
          /\ board' = board
      BY <1>5, ReceiveShape
    <2>2. line' # <<>> <=> Len(line) > 1
      BY <1>0, <2>1, EmptySeq DEF QueueTyped, Popped, Lengths
    <2>3. ASSUME NEW i \in 1 .. Len(line'), IsEcho(line'[i]) PROVE AnsweredOnLine(i)'
      <3>1. i + 1 \in 1 .. Len(line) /\ line'[i] = line[i + 1]
            /\ (i < Len(line') => line'[i + 1] = line[i + 2])
        BY <1>0, <2>1, <2>3 DEF Popped, Lengths
      <3>2. AnsweredOnLine(i + 1)
        BY <2>3, <3>1 DEF EchoAnswered, AnsweredOnLine
      <3>3. QED
        BY <1>0, <2>1, <3>1, <3>2 DEF AnsweredOnLine, Popped, Lengths, BoardAt
    <2>4. ASSUME NEW i \in 1 .. Len(buf'), IsEcho(buf'[i]) PROVE AnsweredInBuffer(i)'
      <3>1. CASE i <= Len(buf)
        <4>1. buf'[i] = buf[i] /\ i \in 1 .. Len(buf)
              /\ buf'[i + 1] = IF i < Len(buf) THEN buf[i + 1] ELSE line[1]
          BY <1>0, <2>1, <2>4, <3>1 DEF Pushed, Lengths
        <4>2. AnsweredInBuffer(i)
          BY <2>4, <4>1 DEF EchoAnswered, AnsweredInBuffer
        <4>3. QED
          BY <1>0, <2>1, <3>1, <4>1, <4>2 DEF AnsweredInBuffer, Pushed, Lengths
      <3>2. CASE i = Len(buf) + 1
        <4>1. buf'[i] = line[1] /\ 1 \in 1 .. Len(line)
              /\ (line' # <<>> => line'[1] = line[2])
          BY <1>0, <2>1, <2>2, <3>2 DEF Pushed, Popped, Lengths
        <4>2. AnsweredOnLine(1)
          BY <2>4, <4>1 DEF EchoAnswered, AnsweredOnLine
        <4>3. QED
          BY <1>0, <2>1, <2>2, <3>2, <4>1, <4>2 DEF AnsweredInBuffer, AnsweredOnLine,
             Pushed, Lengths, BoardAt
      <3>3. QED
        BY <1>0, <2>1, <2>4, <3>1, <3>2 DEF Pushed, Lengths
    <2>5. BoardSane'
      BY <2>1 DEF BoardSane
    <2>6. QED
      BY <2>3, <2>4, <2>5 DEF EchoAnswered, AnsweredInBuffer, AnsweredOnLine
  <1>6. CASE GarbleWire
    BY <1>6, GarbleWireShape, QueueFacts, EchoParts
       DEF EchoAnswered, BoardSane, IsEcho, IsAnswer, BoardAt, Popped, Pushed, Changed
  <1>7. CASE GarbleLine
    BY <1>7, GarbleLineShape, QueueFacts, EchoParts
       DEF EchoAnswered, BoardSane, IsEcho, IsAnswer, BoardAt, Popped, Pushed, Changed
  <1>8. QED
    BY <1>1, <1>2, <1>3, <1>4, <1>5, <1>6, <1>7 DEF Moves

LEMMA AnsweredOthers ==
    ASSUME LinkTypeOK, EchoAnswered, BoardSane,
           Dropped \/ Same \/ (buf' \in {buf, <<>>} /\ UNCHANGED <<line, board>>)
    PROVE  EchoAnswered' /\ BoardSane'
  BY QueueFacts DEF Dropped, Same, EchoAnswered, BoardSane, IsEcho, IsAnswer, BoardAt

-----------------------------------------------------------------------------
(***************************************************************************)
(* The command that is waited for, in the steps of the board and the line. *)
(***************************************************************************)
OnceParts == OnWire /\ OnBoard /\ OnLine /\ InBuffer

\* In these steps the program and what it waits for stay the same.
LEMMA MovesKeep ==
    ASSUME LinkTypeOK, Moves
    PROVE  /\ UNCHANGED <<host, meant, banks, late, got>>
           /\ LinkTypeOK'
           /\ Lengths(buf', buf) /\ Lengths(line', line) /\ Lengths(wire', wire)
           /\ (Once' <=> Once) /\ \A x : Mine(x)' <=> Mine(x)
           /\ (wire' = <<>> <=> Len(wire') = 0) /\ (line' = <<>> <=> Len(line') = 0)
           /\ (wire = <<>> <=> Len(wire) = 0) /\ (line = <<>> <=> Len(line) = 0)
  <1>1. UNCHANGED <<host, meant, banks, late, got>>
    BY TakeShape, CarryOutShape, TakeDataShape, ReceiveShape, GarbleWireShape,
       GarbleLineShape DEF Moves, BoardGivesUp, hostVars
  <1>2. LinkTypeOK'
    BY MovesTyped
  <1>3. Lengths(buf', buf) /\ Lengths(line', line) /\ Lengths(wire', wire)
    BY <1>2, AllLengths
  <1>4. (Once' <=> Once) /\ \A x : Mine(x)' <=> Mine(x)
    BY <1>1 DEF Once, Working, Between, Mine
  <1>5. /\ (wire' = <<>> <=> Len(wire') = 0) /\ (line' = <<>> <=> Len(line') = 0)
        /\ (wire = <<>> <=> Len(wire) = 0) /\ (line = <<>> <=> Len(line) = 0)
    BY <1>2, EmptySeq DEF LinkTypeOK
  <1>6. QED
    BY <1>1, <1>2, <1>3, <1>4, <1>5

\* The effect of a command, as long as the chip stays as it is.
LEMMA EffectKept ==
    ASSUME UNCHANGED <<host, meant, chip>> PROVE \A m : Effect(m)' <=> Effect(m)
  BY DEF Effect

\* What is under way while a command is waited for: its op, or DEVIDSST's.
LEMMA OnceOps ==
    ASSUME LinkTypeOK, QueueInv, Once
    PROVE  /\ board.pc # "idle" => board.text.op \in {"READINFO", "DEVIDSST", host.text.op, "junk"}
           /\ host.text.op \in Work \cup {"DEVIDSST"}
           /\ host.pc = "echo" <=> host.text.op = "WRSECT"
  <1>1. CASE Working
    BY <1>1 DEF QueueInv, WhenWorking, PipeOnly, BoardOnly, Working, HostSane
  <1>2. CASE Between /\ host.pc = "capture"
    BY <1>2 DEF QueueInv, WhenBetween, PipeOnly, BoardOnly, Between, HostSane
  <1>3. QED
    BY <1>1, <1>2 DEF Once

LEMMA OnceTake ==
    ASSUME LinkTypeOK, QueueInv, Once, OnceParts, Take PROVE OnceParts'
  <1>0. /\ UNCHANGED <<host, meant>> /\ Once'
        /\ Lengths(buf', buf) /\ Lengths(line', line) /\ Lengths(wire', wire)
        /\ (wire' = <<>> <=> Len(wire') = 0) /\ (wire = <<>> <=> Len(wire) = 0)
    BY MovesKeep DEF Moves
  <1>1. /\ Len(wire) # 0 /\ Popped(wire', wire) /\ Pushed(line', line, Echo(wire[1].text))
        /\ Echo(wire[1].text).text = wire[1].text /\ Echo(wire[1].text).part = "echo"
        /\ buf' = buf /\ chip' = chip
        /\ board.pc = "idle" /\ board'.text = wire[1].text
    BY TakeShape, EchoParts
  <1>2. /\ \A j \in 1 .. Len(line) : ~Mine(line[j])
        /\ \A j \in 1 .. Len(buf) : ~Mine(buf[j])
    BY <1>0, <1>1 DEF OnceParts, OnLine, InBuffer
  <1>3. \A i \in 1 .. Len(wire') : wire'[i] = wire[i + 1] /\ i + 1 \in 1 .. Len(wire)
    BY <1>0, <1>1 DEF Popped, Lengths
  <1>4. 1 \in 1 .. Len(wire)
    BY <1>0, <1>1 DEF Lengths
  <1>5. \A j \in 1 .. Len(line') : \/ line'[j] = Echo(wire[1].text) /\ j = Len(line')
                                   \/ j \in 1 .. Len(line) /\ line'[j] = line[j]
    <2>1. PICK e : e = Echo(wire[1].text)
      OBVIOUS
    <2>2. Pushed(line', line, e) /\ Lengths(line', line)
      BY <1>0, <1>1, <2>1
    <2>3. \A j \in 1 .. Len(line') : \/ line'[j] = e /\ j = Len(line')
                                     \/ j \in 1 .. Len(line) /\ line'[j] = line[j]
      BY <2>2, PushedSplit
    <2>4. QED
      BY <2>1, <2>3
  <1>6. CASE Mine(wire[1])
    <2>1. Len(wire) = 1 /\ wire' = <<>>
      BY <1>0, <1>1, <1>4, <1>6 DEF OnceParts, OnWire, Popped
    <2>2. OnWire' /\ InBuffer'
      BY <1>0, <1>1, <1>2, <2>1 DEF OnWire, InBuffer, Mine
    <2>3. OnBoard' /\ OnLine'
      BY <1>0, <1>1, <1>2, <1>5, <2>1 DEF OnBoard, OnLine, Mine, Last
    <2>4. QED
      BY <2>2, <2>3 DEF OnceParts
  <1>7. CASE ~Mine(wire[1])
    <2>1. \A j \in 1 .. Len(line') : ~Mine(line'[j])
      BY <1>1, <1>2, <1>5, <1>7 DEF Mine
    <2>2. board'.text.op # host.text.op
      BY <1>1, <1>7 DEF Mine
    <2>3. OnWire'
      <3>1. SUFFICES ASSUME NEW i \in 1 .. Len(wire'), Mine(wire'[i])
                     PROVE  i = Len(wire') /\ wire'[i].data = ERASED
        BY <1>0, <1>1, <1>2, <2>1, <2>2 DEF OnWire, Mine
      <3>2. i + 1 = Len(wire) /\ wire[i + 1].data = ERASED
        BY <1>3, <3>1 DEF OnceParts, OnWire
      <3>3. QED
        BY <1>0, <1>1, <1>3, <3>2 DEF Popped, Lengths
    <2>4. OnBoard' /\ OnLine' /\ InBuffer'
      BY <1>0, <1>1, <1>2, <2>1, <2>2 DEF OnBoard, OnLine, InBuffer, Mine
    <2>5. QED
      BY <2>3, <2>4 DEF OnceParts
  <1>8. QED
    BY <1>6, <1>7

LEMMA OnceCarryOut ==
    ASSUME LinkTypeOK, QueueInv, Once, OnceParts, NotYet, WhenBetween, CarryOut
    PROVE  OnceParts'
  <1>0. /\ UNCHANGED <<host, meant>> /\ Once' /\ \A x : Mine(x)' <=> Mine(x)
        /\ Lengths(line', line) /\ (line = <<>> <=> Len(line) = 0)
    BY MovesKeep DEF Moves
  <1>1. PICK v \in Seq(0 .. 255) :
           /\ Pushed(line', line, Answer(board.text, v))
           /\ board.text.op = "DEVIDSST" => v = <<191, chip.id>>
           /\ board.text.op \in {"RDBK", "RDSECT"} => v = <<chip.sector[board.text.arg]>>
    BY CarryOutShape
  <1>2. /\ board.pc = "busy" /\ board' = [pc |-> "idle"] /\ buf' = buf /\ wire' = wire
        /\ chip'.id = chip.id
        /\ chip'.sector = IF board.text.op = "ESST"
                          THEN [chip.sector EXCEPT ![board.text.arg] = ERASED]
                          ELSE chip.sector
    BY CarryOutShape
  <1>9. PICK a : a = Answer(board.text, v)
    OBVIOUS
  <1>3. a.part = "answer" /\ a.text = board.text /\ a.val = v
    BY <1>9, EchoParts
  <1>4. \A j \in 1 .. Len(line') : \/ line'[j] = a /\ j = Len(line')
                                   \/ j \in 1 .. Len(line) /\ line'[j] = line[j]
    BY <1>0, <1>1, <1>9, PushedSplit
  <1>5. CASE Mine(board)
    <2>1. wire = <<>> /\ host.pc # "echo"
      BY <1>2, <1>5, OnceOps DEF OnceParts, OnBoard, QueueInv, BoardSane, Mine
    <2>2. /\ \A j \in 1 .. Len(line) : Mine(line[j]) => line[j].part = "echo"
          /\ \A j \in 1 .. Len(buf) : Mine(buf[j]) => buf[j].part = "echo"
      BY <1>2, <1>5 DEF OnceParts, OnBoard
    <2>3. Effect(a)'
      <3>1. CASE host.text.op = "ESST"
        <4>1. chip.sector = meant
          BY <1>2, <3>1 DEF NotYet, Working, Once, Between, WhenBetween
        <4>2. QED
          BY <1>0, <1>2, <1>3, <1>5, <3>1, <4>1 DEF Effect, Mine
      <3>2. CASE host.text.op # "ESST"
        <4>1. chip'.sector = chip.sector /\ board.text.op = host.text.op
          BY <1>2, <1>5, <3>2 DEF Mine
        <4>2. QED
          BY <1>0, <1>1, <1>2, <1>3, <3>2, <4>1 DEF Effect
      <3>3. QED
        BY <3>1, <3>2
    <2>4. OnWire' /\ OnBoard'
      BY <1>2, <2>1 DEF OnWire, OnBoard
    <2>5. OnLine'
      <3>1. SUFFICES ASSUME NEW i \in 1 .. Len(line'), Mine(line[i])'
                     PROVE  /\ wire' = <<>> /\ Last(line[i])'
                            /\ line'[i].part = "answer" => i = Len(line')
        BY <1>0, <2>1 DEF OnLine
      <3>2. CASE line'[i] = a /\ i = Len(line')
        BY <1>2, <1>3, <2>1, <2>3, <3>2 DEF Last
      <3>3. CASE i \in 1 .. Len(line) /\ line'[i] = line[i]
        BY <1>0, <1>2, <2>1, <2>2, <3>1, <3>3 DEF Last
      <3>4. QED
        BY <1>4, <3>2, <3>3
    <2>6. InBuffer'
      BY <1>0, <1>2, <2>1, <2>2 DEF InBuffer, Last
    <2>7. QED
      BY <2>4, <2>5, <2>6 DEF OnceParts
  <1>6. CASE ~Mine(board)
    <2>1. chip'.sector = chip.sector
      <3>1. board.text.op # "ESST"
        BY <1>2, <1>6, OnceOps DEF Mine
      <3>2. QED
        BY <1>2, <3>1
    <2>2. /\ \A j \in 1 .. Len(line) : ~Mine(line[j])
          /\ \A j \in 1 .. Len(buf) : ~Mine(buf[j])
      BY <1>2, <1>6 DEF OnceParts, OnLine, InBuffer, Last, Mine
    <2>3. \A j \in 1 .. Len(line') : ~Mine(line'[j])
      BY <1>3, <1>4, <1>6, <2>2 DEF Mine
    <2>4. QED
      BY <1>0, <1>2, <2>2, <2>3 DEF OnceParts, OnWire, OnBoard, OnLine, InBuffer, Mine
  <1>7. QED
    BY <1>5, <1>6

\* Data is taken only when a burn is under way.
LEMMA OnceTakeData ==
    ASSUME LinkTypeOK, QueueInv, Once, OnceParts, TakeData
    PROVE  FALSE
  <1>1. board.pc = "data" /\ board.text.op = "WRSECT" /\ wire # <<>>
    BY TakeDataShape, QueueFacts DEF QueueInv, BoardSane, TakeData
  <1>2. Mine(board)
    BY <1>1, OnceOps DEF Mine
  <1>3. QED
    BY <1>1, <1>2 DEF OnceParts, OnBoard

LEMMA OnceGivesUp ==
    ASSUME LinkTypeOK, QueueInv, Once, OnceParts, BoardGivesUp
    PROVE  OnceParts'
  <1>1. /\ UNCHANGED <<host, meant, chip, wire, line, buf>> /\ board' = [pc |-> "idle"] /\ Once'
        /\ \A x : Mine(x)' <=> Mine(x)
    BY MovesKeep DEF Moves, BoardGivesUp
  <1>2. \A m : Effect(m)' <=> Effect(m)
    BY <1>1, EffectKept
  <1>3. OnWire' /\ OnBoard'
    BY <1>1 DEF OnceParts, OnWire, OnBoard
  <1>4. \A m : Last(m) => Last(m)'
    BY <1>1, <1>2 DEF Last
  <1>5. OnLine' /\ InBuffer'
    BY <1>1, <1>4 DEF OnceParts, OnLine, InBuffer
  <1>6. QED
    BY <1>3, <1>5 DEF OnceParts

LEMMA OnceReceive ==
    ASSUME LinkTypeOK, QueueInv, Once, OnceParts, Receive
    PROVE  OnceParts'
  <1>0. /\ UNCHANGED <<host, meant>> /\ Once' /\ \A x : Mine(x)' <=> Mine(x)
        /\ Lengths(buf', buf) /\ Lengths(line', line)
        /\ (line' = <<>> <=> Len(line') = 0) /\ line # <<>>
    BY MovesKeep DEF Moves, Receive
  <1>1. /\ Len(line) # 0 /\ Popped(line', line) /\ Pushed(buf', buf, line[1])
        /\ UNCHANGED <<wire, board, chip>>
    BY ReceiveShape
  <1>2. \A m : Last(m) <=> Last(m)'
    BY <1>0, <1>1, EffectKept DEF Last
  <1>3. /\ 1 \in 1 .. Len(line)
        /\ \A j \in 1 .. Len(line') : /\ j + 1 \in 1 .. Len(line) /\ line'[j] = line[j + 1]
                                      /\ j + 1 = Len(line) => j = Len(line')
    BY <1>0, <1>1, PoppedSplit
  <1>4. \A j \in 1 .. Len(buf') : \/ buf'[j] = line[1] /\ j = Len(buf')
                                  \/ j \in 1 .. Len(buf) /\ buf'[j] = buf[j]
    BY <1>0, <1>1, PushedSplit
  <1>5. Len(line) = 1 => line' = <<>>
    BY <1>0, <1>1 DEF Popped
  <1>6. OnWire'
    BY <1>0, <1>1, <1>3, <1>4 DEF OnceParts, OnWire
  <1>7. OnBoard'
    BY <1>0, <1>1, <1>3, <1>4 DEF OnceParts, OnBoard
  <1>8. OnLine'
    BY <1>0, <1>1, <1>2, <1>3 DEF OnceParts, OnLine
  <1>9. InBuffer'
    <2>1. SUFFICES ASSUME NEW i \in 1 .. Len(buf'), Mine(buf[i])'
                   PROVE  /\ wire' = <<>> /\ Last(buf[i])'
                          /\ host.pc = "echo" => buf'[i].part = "echo"
                          /\ host.pc = "echo" \/ buf'[i].part = "answer"
                                => i = Len(buf') /\ line' = <<>>
      BY <1>0 DEF InBuffer
    <2>2. CASE buf'[i] = line[1] /\ i = Len(buf')
      BY <1>0, <1>1, <1>2, <1>3, <1>5, <2>1, <2>2 DEF OnceParts, OnLine
    <2>3. CASE i \in 1 .. Len(buf) /\ buf'[i] = buf[i]
      BY <1>0, <1>1, <1>2, <2>1, <2>3 DEF OnceParts, InBuffer
    <2>4. QED
      BY <1>4, <2>2, <2>3
  <1>10. QED
    BY <1>6, <1>7, <1>8, <1>9 DEF OnceParts

LEMMA OnceGarbleWire ==
    ASSUME LinkTypeOK, QueueInv, Once, OnceParts, GarbleWire
    PROVE  OnceParts'
  <1>0. /\ UNCHANGED <<host, meant>> /\ Once'
        /\ (wire' = <<>> <=> Len(wire') = 0) /\ (wire = <<>> <=> Len(wire) = 0)
    BY MovesKeep DEF Moves
  <1>1. PICK w \in Sent : /\ Changed(wire', wire, w) /\ w.text.op = wire[1].text.op
                          /\ wire[1].data = ERASED => w.data = ERASED
    BY GarbleWireShape
  <1>2. UNCHANGED <<buf, line, board, chip>> /\ Len(wire) # 0
    BY GarbleWireShape
  <1>3. \A m : Last(m) <=> Last(m)'
    BY <1>0, <1>2, EffectKept DEF Last
  <1>4. wire' # <<>> /\ wire # <<>> /\ Len(wire') = Len(wire)
    BY <1>0, <1>1, <1>2 DEF Changed
  <1>5. /\ \A j \in 1 .. Len(line) : ~Mine(line[j])
        /\ \A j \in 1 .. Len(buf) : ~Mine(buf[j])
        /\ board.pc # "idle" => ~Mine(board)
    BY <1>4 DEF OnceParts, OnLine, InBuffer, OnBoard
  <1>6. \A i \in 1 .. Len(wire) : /\ wire'[i].text.op = wire[i].text.op
                                  /\ wire[i].data = ERASED => wire'[i].data = ERASED
    BY <1>1 DEF Changed
  <1>7. OnWire'
    BY <1>0, <1>2, <1>4, <1>5, <1>6 DEF OnceParts, OnWire, Mine
  <1>8. QED
    BY <1>0, <1>2, <1>5, <1>7 DEF OnceParts, OnBoard, OnLine, InBuffer, Mine

LEMMA OnceGarbleLine ==
    ASSUME LinkTypeOK, QueueInv, Once, OnceParts, GarbleLine
    PROVE  OnceParts'
  <1>0. /\ UNCHANGED <<host, meant>> /\ Once' /\ \A x : Mine(x)' <=> Mine(x)
        /\ (line' = <<>> <=> Len(line') = 0) /\ (line = <<>> <=> Len(line) = 0)
        /\ Lengths(line', line)
    BY MovesKeep DEF Moves
  <1>1. PICK m \in Message :
          /\ Changed(line', line, m)
          /\ \/ line[1].part = "echo" /\ m = Echo(Junk)
             \/ /\ line[1].part = "answer" /\ line[1].text.op = "WRSECT"
                /\ m = Answer(line[1].text, <<>>)
    BY GarbleLineShape
  <1>2. UNCHANGED <<buf, wire, board, chip>> /\ Len(line) # 0
    BY GarbleLineShape
  <1>3. \A x : Last(x) <=> Last(x)'
    BY <1>0, <1>2, EffectKept DEF Last
  <1>4. ~Mine(m)
    <2>1. CASE m = Echo(Junk)
      BY <2>1, EchoParts, OnceOps DEF Mine, Work
    <2>2. CASE line[1].part = "answer" /\ line[1].text.op = "WRSECT"
               /\ m = Answer(line[1].text, <<>>)
      <3>1. 1 \in 1 .. Len(line) /\ m.text = line[1].text
        BY <1>0, <1>2, <2>2, EchoParts DEF Lengths
      <3>2. QED
        BY <2>2, <3>1, OnceOps DEF Mine, OnceParts, OnLine
    <2>3. QED
      BY <1>1, <2>1, <2>2
  <1>5. Len(line') = Len(line) /\ \A i \in 1 .. Len(line) : line'[i] = m \/ line'[i] = line[i]
    BY <1>1 DEF Changed
  <1>6. OnWire' /\ OnBoard' /\ OnLine'
    BY <1>0, <1>2, <1>3, <1>4, <1>5 DEF OnceParts, OnWire, OnBoard, OnLine
  <1>7. InBuffer'
    BY <1>0, <1>2, <1>3, <1>5 DEF OnceParts, InBuffer
  <1>8. QED
    BY <1>6, <1>7 DEF OnceParts

LEMMA OnceMoves ==
    ASSUME LinkTypeOK, QueueInv, OnceParts, NotYet, Moves
    PROVE  OnceParts'
  <1>1. Once' <=> Once
    BY MovesKeep
  <1>2. CASE ~Once
    BY <1>1, <1>2 DEF OnceParts, OnWire, OnBoard, OnLine, InBuffer
  <1>3. CASE Once
    BY <1>3, OnceTake, OnceCarryOut, OnceTakeData, OnceGivesUp, OnceReceive, OnceGarbleWire,
       OnceGarbleLine DEF Moves, QueueInv
  <1>4. QED
    BY <1>2, <1>3

\* The chip is as it was until the command is carried out.
LEMMA NotYetMoves ==
    ASSUME LinkTypeOK, QueueInv, OnceParts, NotYet, Moves
    PROVE  NotYet'
  <1>0. UNCHANGED <<host, meant>>
    BY MovesKeep
  <1>1. SUFFICES ASSUME Working
                 PROVE  \/ chip'.sector = meant
                        \/ host.text.op = "ESST" /\ wire' = <<>> /\ board'.pc = "idle"
    BY <1>0 DEF NotYet, Working
  <1>2. Once /\ \/ chip.sector = meant
                \/ host.text.op = "ESST" /\ wire = <<>> /\ board.pc = "idle"
    BY <1>1 DEF NotYet, Once
  <1>3. CASE Take
    BY <1>2, <1>3, TakeShape, QueueFacts
  <1>4. CASE CarryOut
    <2>1. /\ board.pc = "busy" /\ board' = [pc |-> "idle"] /\ wire' = wire
          /\ board.text.op # "ESST" => chip'.sector = chip.sector
      BY <1>4, CarryOutShape
    <2>2. CASE board.text.op = "ESST"
      <3>1. host.text.op = "ESST"
        BY <1>2, <2>1, <2>2, OnceOps
      <3>2. wire = <<>>
        BY <1>2, <2>1, <2>2, <3>1 DEF OnceParts, OnBoard, Mine
      <3>3. QED
        BY <2>1, <3>1, <3>2
    <2>3. QED
      BY <1>2, <2>1, <2>2
  <1>5. CASE TakeData
    BY <1>2, <1>5, OnceTakeData
  <1>6. CASE BoardGivesUp
    BY <1>2, <1>6 DEF BoardGivesUp
  <1>7. CASE Receive
    BY <1>2, <1>7, ReceiveShape
  <1>8. CASE GarbleWire
    BY <1>2, <1>8, GarbleWireShape, QueueFacts
  <1>9. CASE GarbleLine
    BY <1>2, <1>9, GarbleLineShape
  <1>10. QED
    BY <1>3, <1>4, <1>5, <1>6, <1>7, <1>8, <1>9 DEF Moves

\* What the board and the line do keeps the order of the queue.
LEMMA QueueMoves ==
    ASSUME LinkTypeOK, QueueInv, Moves
    PROVE  QueueInv'
  <1>0. UNCHANGED <<host, meant, banks, late, got>>
    BY MovesKeep
  <1>1. EchoAnswered' /\ BoardSane' /\ HostSane'
    BY <1>0, AnsweredMoves DEF QueueInv, HostSane
  <1>2. WhenStarting'
    <2>1. NothingBehind("READINFO") => NothingBehind("READINFO")'
      BY BehindMoves
    <2>2. QED
      BY <1>0, <2>1 DEF QueueInv, WhenStarting, Starting
  <1>3. WhenBetween'
    <2>1. SUFFICES ASSUME Between
                   PROVE  /\ PipeOnly({"READINFO", "DEVIDSST", "junk"})'
                          /\ NothingBehind("DEVIDSST")'
                          /\ banks # 0 => PipeOnly({"DEVIDSST", "junk"})'
                          /\ host.pc = "idle" /\ ~late => PipeOnly({"READINFO", "junk"})'
                          /\ chip'.sector = meant
      BY <1>0 DEF WhenBetween, Between
    <2>2. /\ PipeOnly({"READINFO", "DEVIDSST", "junk"}) /\ NothingBehind("DEVIDSST")
          /\ banks # 0 => PipeOnly({"DEVIDSST", "junk"})
          /\ host.pc = "idle" /\ ~late => PipeOnly({"READINFO", "junk"})
          /\ chip.sector = meant
      BY <2>1 DEF QueueInv, WhenBetween
    <2>3. chip'.sector = chip.sector
      <3>1. board.pc # "idle" => board.text.op \notin {"ESST", "WRSECT"}
        BY <2>2 DEF PipeOnly, BoardOnly
      <3>2. QED
        BY <3>1, TakeShape, CarryOutShape, TakeDataShape, ReceiveShape, GarbleWireShape,
           GarbleLineShape DEF Moves, BoardGivesUp, QueueInv, BoardSane
    <2>4. QED
      BY <2>2, <2>3, OnlyMoves, BehindMoves
  <1>4. WhenWorking'
    <2>1. PICK S : S = {"DEVIDSST", host.text.op, "junk"}
      OBVIOUS
    <2>2. PipeOnly(S) => PipeOnly(S)'
      BY <2>1, OnlyMoves
    <2>3. QED
      BY <1>0, <2>1, <2>2 DEF QueueInv, WhenWorking, Working
  <1>5. QED
    BY <1>1, <1>2, <1>3, <1>4 DEF QueueInv

\* The data of a burn is taken by the board, or lost.
LEMMA BurningMoves ==
    ASSUME LinkTypeOK, Burning, Moves
    PROVE  Burning'
  <1>0. /\ UNCHANGED <<host, meant>>
        /\ Lengths(buf', buf) /\ Lengths(line', line) /\ Lengths(wire', wire)
        /\ (wire' = <<>> <=> Len(wire') = 0) /\ (wire = <<>> <=> Len(wire) = 0)
    BY MovesKeep
  <1>1. SUFFICES ASSUME host.pc = "crc"
                 PROVE  /\ PipeOnly({"WRSECT", "junk"})'
                        /\ Len(wire') + Len(buf') + Len(line') <= 1
                        /\ board'.pc # "busy"
                        /\ wire' # <<>> /\ board'.pc # "idle" => board'.text = host.text
                        /\ wire' # <<>> \/ board'.pc # "idle" => chip'.sector = meant
                        /\ \A i \in 1 .. Len(buf') : Tells(buf[i])'
                        /\ \A i \in 1 .. Len(line') : Tells(line[i])'
    BY <1>0 DEF Burning
  <1>2. /\ PipeOnly({"WRSECT", "junk"})
        /\ Len(wire) + Len(buf) + Len(line) <= 1
        /\ board.pc # "busy"
        /\ wire # <<>> /\ board.pc # "idle" => board.text = host.text
        /\ wire # <<>> \/ board.pc # "idle" => chip.sector = meant
        /\ \A i \in 1 .. Len(buf) : Tells(buf[i])
        /\ \A i \in 1 .. Len(line) : Tells(line[i])
    BY <1>1 DEF Burning
  <1>3. PipeOnly({"WRSECT", "junk"})'
    BY <1>2, OnlyMoves
  <1>4. UNCHANGED chip /\ (board'.pc = board.pc \/ board'.pc = "idle")
           => \A m : Tells(m) => Tells(m)'
    BY <1>0 DEF Tells
  <1>5. CASE Take
    <2>1. /\ Len(wire) # 0 /\ Popped(wire', wire) /\ Pushed(line', line, Echo(wire[1].text))
          /\ wire[1] \in Sent /\ UNCHANGED <<chip, buf>>
          /\ board' = [pc |-> IF wire[1].text.op = "WRSECT" THEN "data" ELSE "busy",
                       text |-> wire[1].text]
      BY <1>5, TakeShape
    <2>2. Len(buf) = 0 /\ Len(line) = 0 /\ Len(wire) = 1
      <3>1. Len(wire) # 0 /\ Len(wire) + Len(buf) + Len(line) <= 1
        BY <1>2, <2>1
      <3>2. Len(wire) \in Nat /\ Len(buf) \in Nat /\ Len(line) \in Nat
        BY QueueFacts
      <3>3. \A a, b, c \in Nat : a # 0 /\ a + b + c <= 1 => b = 0 /\ c = 0 /\ a = 1
        OBVIOUS
      <3>4. QED
        BY <3>1, <3>2, <3>3, Zenon
    <2>3. wire[1].text.op = "WRSECT"
      BY <1>0, <1>2, <2>1, <2>2, TextFacts DEF PipeOnly, Only, Sent
    <2>4. wire' = <<>> /\ Len(line') = 1 /\ line'[1].part = "echo"
      BY <1>0, <2>1, <2>2, EchoParts DEF Popped, Pushed, Lengths
    <2>5. QED
      BY <1>0, <1>2, <1>3, <2>1, <2>2, <2>3, <2>4 DEF Tells
  <1>6. CASE CarryOut
    BY <1>2, <1>6, CarryOutShape
  <1>7. CASE TakeData
    <2>1. /\ Len(wire) # 0 /\ Popped(wire', wire) /\ wire[1] \in Sent /\ buf' = buf
          /\ board.pc = "data"
      BY <1>7, TakeDataShape
    <2>2. Len(buf) = 0 /\ Len(line) = 0 /\ Len(wire) = 1 /\ wire' = <<>>
      BY <1>0, <1>2, <2>1 DEF Lengths, Popped
    <2>3. CASE UNCHANGED <<chip, line, board>>
      BY <1>0, <1>2, <1>3, <2>1, <2>2, <2>3
    <2> DEFINE d == wire[1].data
               held == BitAnd(chip.sector[board.text.arg], d)
    <2>4. ASSUME NEW sum \in {d, held},
                 chip' = [chip EXCEPT !.sector[board.text.arg] = held],
                 Pushed(line', line, Answer(board.text, <<sum>>)),
                 board' = [pc |-> "idle"]
          PROVE  Burning'
      <3>1. Len(line') = 1 /\ line'[1].val = <<sum>>
        BY <2>2, <2>4, EchoParts DEF Pushed
      <3>2. board.text = host.text /\ chip.sector = meant
        BY <1>2, <2>1
      <3>3. d \in Content /\ meant[host.text.arg] \in Content
        BY <1>7, <2>1, <3>2, TakeDataShape DEF LinkTypeOK, Chip, Sent
      <3>4. held = BitAnd(meant[host.text.arg], d)
        BY <3>2
      <3>5. chip'.sector = [meant EXCEPT ![host.text.arg] = held]
        <4> HIDE DEF held
        <4> QED BY <2>4, <3>2 DEF LinkTypeOK, Chip
      <3>6. BitAnd(meant[host.text.arg], sum) = held
        <4> HIDE DEF d, held
        <4> QED BY <2>4, <3>3, <3>4, BitAndAssumption
      <3>7. Tells(line[1])'
        <4>1. UNCHANGED <<meant, host>>
          BY <1>7, TakeDataShape DEF hostVars
        <4> HIDE DEF d, held
        <4>2. \A x : line'[1].val = <<x>> => x = sum
          BY <3>1
        <4>3. QED
          BY <2>4, <3>5, <3>6, <4>1, <4>2 DEF Tells
      <3> HIDE DEF d, held
      <3>8. QED
        BY <1>0, <1>2, <1>3, <2>1, <2>2, <2>4, <3>1, <3>7 DEF Burning
    <2>5. CASE UNCHANGED <<chip, line, board>>
      BY <2>3, <2>5
    <2>6. CASE ~UNCHANGED <<chip, line, board>>
      <3>1. PICK sum \in {d, held} :
               /\ chip' = [chip EXCEPT !.sector[board.text.arg] = held]
               /\ Pushed(line', line, Answer(board.text, <<sum>>))
               /\ board' = [pc |-> "idle"]
        BY <1>7, <2>6, TakeDataShape
      <3> HIDE DEF d, held
      <3>2. Burning'
        BY <2>4, <3>1
      <3>3. QED
        BY <1>0, <1>1, <3>2 DEF Burning
    <2>7. QED
      BY <2>5, <2>6
  <1>8. CASE BoardGivesUp
    BY <1>0, <1>2, <1>3, <1>4, <1>8 DEF BoardGivesUp
  <1>9. CASE Receive
    <2>1. /\ Len(line) # 0 /\ Popped(line', line) /\ Pushed(buf', buf, line[1])
          /\ UNCHANGED <<wire, board, chip>>
      BY <1>9, ReceiveShape
    <2>2. Len(line) = 1 /\ Len(line') = 0 /\ Len(buf) = 0 /\ Len(buf') = 1 /\ Len(wire) = 0
      BY <1>0, <1>2, <2>1 DEF Popped, Pushed, Lengths
    <2>3. buf'[1] = line[1] /\ Tells(line[1])
      BY <1>2, <2>1, <2>2 DEF Pushed
    <2>4. Tells(buf[1])'
      BY <1>4, <2>1, <2>3
    <2>5. QED
      BY <1>0, <1>2, <1>3, <2>1, <2>2, <2>4
  <1>10. CASE GarbleWire
    <2>1. UNCHANGED <<buf, line, board, chip>> /\ Len(wire') = Len(wire)
      BY <1>10, GarbleWireShape DEF Changed
    <2>2. QED
      BY <1>0, <1>2, <1>3, <1>4, <2>1
  <1>11. CASE GarbleLine
    <2>1. UNCHANGED <<buf, wire, board, chip>> /\ Len(line) # 0
      BY <1>11, GarbleLineShape
    <2>2. PICK m \in Message :
             /\ Changed(line', line, m)
             /\ m = Echo(Junk) \/ (line[1].part = "answer" /\ m = Answer(line[1].text, <<>>))
      BY <1>11, GarbleLineShape
    <2>3. Tells(line[1]) /\ Len(line) = 1 /\ Len(line') = 1 /\ line'[1] = m
      BY <1>0, <1>2, <2>1, <2>2 DEF Changed, Lengths
    <2>4. Tells(m)
      <3>1. \A d : <<d>> # <<>>
        OBVIOUS
      <3>2. CASE m = Echo(Junk)
        BY <3>2, EchoParts DEF Tells
      <3>3. CASE line[1].part = "answer" /\ m = Answer(line[1].text, <<>>)
        <4>1. m.val = <<>>
          BY <3>3, EchoParts
        <4>2. board.pc = "idle"
          BY <2>3, <3>3 DEF Tells
        <4>3. QED
          BY <3>1, <4>1, <4>2, Zenon DEF Tells
      <3>4. QED
        BY <2>2, <3>2, <3>3
    <2>5. Tells(line[1])'
      BY <1>4, <2>1, <2>3, <2>4
    <2>6. QED
      BY <1>0, <1>2, <1>3, <1>4, <2>1, <2>3, <2>5
  <1>12. QED
    BY <1>5, <1>6, <1>7, <1>8, <1>9, <1>10, <1>11 DEF Moves

\* The board and the line keep the invariant.
LEMMA MovesInvariant == ASSUME LinkIInv, Moves PROVE LinkIInv'
  <1>1. LinkTypeOK' /\ QueueInv' /\ OnceParts' /\ NotYet' /\ Burning'
    BY MovesTyped, QueueMoves, OnceMoves, NotYetMoves, BurningMoves
       DEF LinkIInv, OnceInv, OnceParts
  <1>2. GotIsMeant'
    BY MovesKeep DEF LinkIInv, GotIsMeant
  <1>3. QED
    BY <1>1, <1>2 DEF LinkIInv, OnceInv, OnceParts

-----------------------------------------------------------------------------
(***************************************************************************)
(* The steps of the program.                                               *)
(***************************************************************************)
\* What is allowed under way may be more; nothing is if nothing is under way.
LEMMA OnlyMore ==
    /\ \A S, T : S \subseteq T /\ PipeOnly(S) => PipeOnly(T)
    /\ wire = <<>> /\ line = <<>> /\ buf = <<>> /\ board.pc = "idle" => \A S : PipeOnly(S)
  <1>1. ASSUME NEW S, NEW T, S \subseteq T, PipeOnly(S) PROVE PipeOnly(T)
    BY <1>1 DEF PipeOnly, Only, BoardOnly
  <1>2. \A S : Only(<<>>, S)
    BY DEF Only
  <1>3. QED
    BY <1>1, <1>2 DEF PipeOnly, BoardOnly

LEMMA OnlyMoreNext ==
    /\ \A S, T : S \subseteq T /\ PipeOnly(S)' => PipeOnly(T)'
    /\ wire' = <<>> /\ line' = <<>> /\ buf' = <<>> /\ board'.pc = "idle" => \A S : PipeOnly(S)'
  <1>1. ASSUME NEW S, NEW T, S \subseteq T, PipeOnly(S)' PROVE PipeOnly(T)'
    BY <1>1 DEF PipeOnly, Only, BoardOnly
  <1>2. \A S : Only(<<>>, S)
    BY DEF Only
  <1>3. QED
    BY <1>1, <1>2 DEF PipeOnly, BoardOnly

\* A command that is not under way is sent: it is under way once.
LEMMA OnceSent ==
    ASSUME LinkTypeOK, LinkTypeOK', NEW op, NEW arg, NEW d, NEW pc, Sent1(op, arg, d, pc),
           buf' = buf, NEW S, op \notin S, PipeOnly(S)
    PROVE  OnceParts'
  <1>1. /\ Pushed(wire', wire, [text |-> Command(op, arg), data |-> ERASED])
        /\ UNCHANGED <<buf, line, board>> /\ host'.text.op = op
    BY DEF Sent1, Command
  <1>2. Lengths(wire', wire)
    BY AllLengths
  <1>3. PICK w : w = [text |-> Command(op, arg), data |-> ERASED]
    OBVIOUS
  <1>4. \A i \in 1 .. Len(wire') : \/ wire'[i] = w /\ i = Len(wire')
                                   \/ i \in 1 .. Len(wire) /\ wire'[i] = wire[i]
    BY <1>1, <1>2, <1>3, PushedSplit
  <1>5. w.data = ERASED
    BY <1>3
  <1>6. /\ \A i \in 1 .. Len(wire) : wire[i].text.op # op
        /\ \A i \in 1 .. Len(line) : line[i].text.op # op
        /\ \A i \in 1 .. Len(buf) : buf[i].text.op # op
        /\ board.pc # "idle" => board.text.op # op
    BY DEF PipeOnly, Only, BoardOnly
  <1>7. OnWire'
    BY <1>1, <1>4, <1>5, <1>6 DEF OnWire, Mine
  <1>8. OnBoard' /\ OnLine' /\ InBuffer'
    BY <1>1, <1>6 DEF OnBoard, OnLine, InBuffer, Mine
  <1>9. QED
    BY <1>7, <1>8 DEF OnceParts

\* The program sends a command.
LEMMA SendsInvariant == ASSUME LinkIInv, Sends PROVE LinkIInv'
  <1>0. LinkTypeOK /\ QueueInv /\ OnceInv /\ GotIsMeant /\ LinkTypeOK'
    BY SendsTyped DEF LinkIInv
  <1>1. ASSUME NEW op, NEW arg, NEW d, NEW pc, Sent1(op, arg, d, pc)
        PROVE  /\ SentW([text |-> Command(op, arg), data |-> ERASED])
               /\ [text |-> Command(op, arg), data |-> ERASED].text.op = op
               /\ host'.pc = pc /\ host'.text.op = op
               /\ UNCHANGED <<chip, meant, banks, late, got>>
               /\ EchoAnswered' /\ BoardSane'
    <2>1. UNCHANGED <<line, board>> /\ buf' \in {buf, <<>>}
      BY <1>1 DEF Sent1
    <2>2. EchoAnswered' /\ BoardSane'
      BY <1>0, <2>1, AnsweredOthers DEF QueueInv
    <2>3. QED
      BY <1>1, <2>2 DEF Sent1, SentW, Command
  <1>2. ASSUME NEW op, NEW arg, NEW d, NEW pc, Sent1(op, arg, d, pc)
        PROVE  /\ \A S : op \in S /\ PipeOnly(S) => PipeOnly(S)'
               /\ NothingBehind(op) => NothingBehind(op)'
    <2>1. PICK w : w = [text |-> Command(op, arg), data |-> ERASED]
      OBVIOUS
    <2>2. SentW(w) /\ w.text.op = op
      BY <1>1, <1>2, <2>1
    <2>3. QED
      BY <1>0, <2>2, OnlySent, BehindSent
  <1>3. CASE host.pc = "flush" /\ Sent1("READINFO", 0, ERASED, "capture")
    <2>1. host'.pc = "capture" /\ host'.text.op = "READINFO"
          /\ UNCHANGED <<chip, meant, banks, late, got>> /\ EchoAnswered' /\ BoardSane'
      BY <1>1, <1>3
    <2>2. NothingBehind("READINFO")' /\ banks = 0 /\ got = Nothing /\ ~late
      BY <1>0, <1>2, <1>3 DEF QueueInv, WhenStarting, Starting
    <2>3. QueueInv'
      BY <2>1, <2>2 DEF QueueInv, HostSane, WhenStarting, WhenBetween, WhenWorking, Between,
         Working, Work
    <2>4. OnceInv'
      BY <2>1 DEF OnceInv, OnWire, OnBoard, OnLine, InBuffer, NotYet, Burning, Once, Between,
         Working, Work
    <2>5. QED
      BY <1>0, <2>1, <2>2, <2>3, <2>4 DEF LinkIInv, GotIsMeant
  <1>4. CASE host.pc = "idle" /\ Sent1("DEVIDSST", 0, ERASED, "capture") /\ buf' = buf
    <2>1. host'.pc = "capture" /\ host'.text.op = "DEVIDSST"
          /\ UNCHANGED <<chip, meant, banks, late, got>> /\ EchoAnswered' /\ BoardSane'
      BY <1>1, <1>4
    <2>2. /\ PipeOnly({"READINFO", "DEVIDSST", "junk"}) /\ NothingBehind("DEVIDSST")
          /\ banks # 0 => PipeOnly({"DEVIDSST", "junk"})
          /\ ~late => PipeOnly({"READINFO", "junk"})
          /\ chip.sector = meant
      BY <1>0, <1>4 DEF QueueInv, WhenBetween, Between
    <2>3. /\ PipeOnly({"READINFO", "DEVIDSST", "junk"})' /\ NothingBehind("DEVIDSST")'
          /\ banks # 0 => PipeOnly({"DEVIDSST", "junk"})'
      BY <1>2, <1>4, <2>2
    <2>4. QueueInv'
      BY <2>1, <2>2, <2>3 DEF QueueInv, HostSane, WhenStarting, WhenBetween, WhenWorking,
         Starting, Working, Work
    <2>5. OnceParts'
      <3>1. CASE late
        BY <2>1, <3>1 DEF OnceParts, OnWire, OnBoard, OnLine, InBuffer, Once, Between,
           Working, Work
      <3>2. CASE ~late
        BY <1>0, <1>4, <2>2, <3>2, OnceSent
      <3>3. QED
        BY <3>1, <3>2
    <2>6. NotYet' /\ Burning'
      BY <2>1 DEF NotYet, Burning, Working, Work
    <2>7. QED
      BY <1>0, <1>4, <2>1, <2>4, <2>5, <2>6 DEF LinkIInv, OnceInv, OnceParts, GotIsMeant
  <1>5. ASSUME NEW op \in Work, NEW arg, NEW d, NEW pc \in {"capture", "echo"},
               host.pc = "idle", banks # 0, buf' = buf, Sent1(op, arg, d, pc),
               pc = "echo" <=> op = "WRSECT"
        PROVE  LinkIInv'
    <2>1. host'.pc = pc /\ host'.text.op = op
          /\ UNCHANGED <<chip, meant, banks, late, got>> /\ EchoAnswered' /\ BoardSane'
      BY <1>1, <1>5
    <2>2. PipeOnly({"DEVIDSST", "junk"}) /\ chip.sector = meant
      BY <1>0, <1>5 DEF QueueInv, WhenBetween, Between
    <2>3. PICK S : S = {"DEVIDSST", op, "junk"}
      OBVIOUS
    <2>4. PipeOnly(S)'
      <3>1. PipeOnly(S)
        BY <2>2, <2>3, OnlyMore
      <3>2. QED
        BY <1>2, <1>5, <2>3, <3>1
    <2>5. QueueInv'
      BY <1>5, <2>1, <2>3, <2>4 DEF QueueInv, HostSane, WhenStarting, WhenBetween, WhenWorking,
         Starting, Between, Working, Work
    <2>6. OnceParts'
      <3>1. op \notin {"DEVIDSST", "junk"}
        BY DEF Work
      <3>2. QED
        BY <1>0, <1>5, <2>2, <3>1, OnceSent
    <2>7. NotYet' /\ Burning'
      BY <1>5, <2>1, <2>2 DEF NotYet, Burning
    <2>8. QED
      BY <1>0, <1>5, <2>1, <2>5, <2>6, <2>7 DEF LinkIInv, OnceInv, OnceParts, GotIsMeant
  <1>6. QED
    BY <1>0, <1>3, <1>4, <1>5, SendsShape DEF Work

\* What the queue is when a wait has ended, one way or the other.
LEMMA EndsKeep ==
    ASSUME LinkIInv, Ends1
    PROVE  /\ LinkTypeOK' /\ EchoAnswered' /\ BoardSane' /\ HostSane'
           /\ \A S : PipeOnly(S) => PipeOnly(S)'
           /\ \A X : NothingBehind(X) => NothingBehind(X)'
           /\ WhenWorking' /\ OnceInv'
           /\ host'.pc \in {"idle", "down"}
           /\ UNCHANGED <<wire, board, chip>> /\ buf' = <<>> /\ line' \in {line, <<>>}
  <1>1. LinkTypeOK /\ QueueInv /\ LinkTypeOK'
    BY EndsTyped DEF LinkIInv
  <1>2. /\ Dropped /\ UNCHANGED <<wire, board, chip>>
        /\ host'.pc \in {"idle", "down"}
    BY <1>1, EndsShape DEF Dropped
  <1>3. EchoAnswered' /\ BoardSane'
    BY <1>1, <1>2, AnsweredOthers DEF QueueInv
  <1>4. HostSane' /\ WhenWorking' /\ OnceInv'
    BY <1>2 DEF HostSane, WhenWorking, OnceInv, OnWire, OnBoard, OnLine, InBuffer, NotYet,
       Burning, Once, Between, Working
  <1>5. \A S : PipeOnly(S) => PipeOnly(S)'
    BY <1>1, <1>2, OnlyDropped
  <1>6. \A X : NothingBehind(X) => NothingBehind(X)'
    BY <1>1, <1>2, BehindDropped
  <1>7. QED
    BY <1>1, <1>2, <1>3, <1>4, <1>5, <1>6 DEF Dropped

\* A wait ends with an exception.
LEMMA ExceptionInvariant ==
    ASSUME LinkIInv, Ends1, Waiting, Exception, UNCHANGED <<meant, banks>>,
           got' \in {got, Nothing}
    PROVE  LinkIInv'
  <1>0. /\ LinkTypeOK /\ QueueInv /\ OnceInv /\ GotIsMeant
        /\ host.pc \in {"capture", "echo", "crc"} /\ host.text.op \in Ops
    BY TextFacts DEF LinkIInv, Waiting, LinkTypeOK, Host
  <1>1. /\ LinkTypeOK' /\ EchoAnswered' /\ BoardSane' /\ HostSane'
        /\ \A S : PipeOnly(S) => PipeOnly(S)'
        /\ \A X : NothingBehind(X) => NothingBehind(X)'
        /\ WhenWorking' /\ OnceInv' /\ UNCHANGED chip
    BY EndsKeep
  <1>2. CASE host.text.op = "DEVIDSST"
    <2>1. host'.pc = "idle" /\ late'
      BY <1>0, <1>2, ExceptionTyped
    <2>2. host.pc = "capture"
      BY <1>0, <1>2 DEF QueueInv, HostSane
    <2>3. /\ PipeOnly({"READINFO", "DEVIDSST", "junk"}) /\ NothingBehind("DEVIDSST")
          /\ banks # 0 => PipeOnly({"DEVIDSST", "junk"})
          /\ chip.sector = meant
      BY <1>0, <1>2, <2>2 DEF QueueInv, WhenBetween, Between
    <2>4. WhenBetween'
      BY <1>1, <2>1, <2>3 DEF WhenBetween
    <2>5. WhenStarting'
      BY <2>1 DEF WhenStarting, Starting
    <2>6. GotIsMeant'
      BY <1>0, <2>2 DEF GotIsMeant
    <2>7. QED
      BY <1>1, <2>4, <2>5, <2>6 DEF LinkIInv, QueueInv
  <1>3. CASE host.text.op # "DEVIDSST"
    <2>1. host'.pc = "down"
      BY <1>0, <1>3, ExceptionTyped
    <2>2. NothingBehind("READINFO")
      <3>1. CASE Starting
        BY <1>0, <3>1 DEF QueueInv, WhenStarting
      <3>2. CASE Working
        <4>1. PICK S : S = {"DEVIDSST", host.text.op, "junk"}
          OBVIOUS
        <4>2. PipeOnly(S) /\ "READINFO" \notin S
          BY <1>0, <3>2, <4>1 DEF QueueInv, WhenWorking, Working, Work
        <4>3. QED
          BY <4>2, BehindNone
      <3>3. CASE host.pc = "crc"
        BY <1>0, <3>3, BehindNone DEF OnceInv, Burning
      <3>4. QED
        BY <1>0, <1>3, <3>1, <3>2, <3>3 DEF Starting, Working, Ops, QueueInv, HostSane, Work
    <2>3. WhenStarting' /\ WhenBetween' /\ GotIsMeant'
      BY <1>1, <2>1, <2>2 DEF WhenStarting, WhenBetween, Between, GotIsMeant
    <2>4. QED
      BY <1>1, <2>3 DEF LinkIInv, QueueInv
  <1>4. QED
    BY <1>2, <1>3

\* The answer to the command that is waited for has come, and nothing else is
\* under way.
LEMMA AnswerCame ==
    ASSUME LinkIInv, Done, EchoMatches(host.text), Once, host.text.op # "WRSECT"
    PROVE  /\ buf[2].part = "answer" /\ buf[2].text = host.text /\ buf[2] \in Message
           /\ wire = <<>> /\ line = <<>> /\ board.pc = "idle"
           /\ Effect(buf[2])
  <1>0. LinkTypeOK /\ QueueInv /\ InBuffer
    BY DEF LinkIInv, OnceInv
  <1>1. /\ Len(buf) >= 2 /\ Len(buf) \in Nat /\ buf[1].part = "echo"
        /\ buf[1].text = host.text /\ buf[2] \in Message /\ host.text \in Texts
    BY <1>0, EchoFacts
  <1>2. IsEcho(buf[1])
    BY <1>1, TextFacts DEF IsEcho
  <1>3. buf[2].part = "answer" /\ buf[2].text = host.text
    <2>1. 1 \in 1 .. Len(buf) /\ 1 < Len(buf) /\ buf[1 + 1] = buf[2]
      BY <1>1
    <2>2. QED
      BY <1>0, <1>1, <1>2, <2>1 DEF QueueInv, EchoAnswered, IsAnswer
  <1>4. Mine(buf[2]) /\ 2 \in 1 .. Len(buf)
    BY <1>1, <1>3 DEF Mine
  <1>5. wire = <<>> /\ Last(buf[2]) /\ line = <<>>
    BY <1>0, <1>3, <1>4 DEF InBuffer
  <1>6. QED
    BY <1>1, <1>3, <1>5 DEF Last

\* A wait ends with what was waited for.
LEMMA EndsInvariant == ASSUME LinkIInv, Ends1 PROVE LinkIInv'
  <1>0. LinkTypeOK /\ QueueInv /\ OnceInv /\ GotIsMeant
    BY DEF LinkIInv
  <1>1. /\ LinkTypeOK' /\ EchoAnswered' /\ BoardSane' /\ HostSane'
        /\ \A S : PipeOnly(S) => PipeOnly(S)'
        /\ \A X : NothingBehind(X) => NothingBehind(X)'
        /\ WhenWorking' /\ OnceInv' /\ UNCHANGED <<wire, board, chip>>
        /\ buf' = <<>> /\ line' \in {line, <<>>}
    BY EndsKeep
  <1>2. CASE GiveUpWaiting \/ EchoWrong
    BY <1>2, ExceptionInvariant DEF GiveUpWaiting, EchoWrong, GoesOn, Done
  <1>3. ASSUME host'.pc = "idle", WhenBetween', GotIsMeant' PROVE LinkIInv'
    BY <1>1, <1>3 DEF LinkIInv, QueueInv, WhenStarting, Starting
  <1>4. ASSUME wire = <<>>, line = <<>>, board.pc = "idle", host'.pc = "idle",
               chip.sector = meant', GotIsMeant'
        PROVE  LinkIInv'
    <2>1. \A S : PipeOnly(S)'
      BY <1>1, <1>4, OnlyMoreNext
    <2>2. NothingBehind("DEVIDSST")'
      <3>1. \A X, S : ~Has(<<>>, X) /\ Ends(<<>>, X) /\ Only(<<>>, S)
        BY DEF Has, Ends, Only
      <3>2. wire' = <<>> /\ line' = <<>> /\ buf' = <<>> /\ board'.pc = "idle"
        BY <1>1, <1>4
      <3>3. QED
        BY <3>1, <3>2 DEF NothingBehind, BoardOnly
    <2>3. QED
      BY <1>1, <1>3, <1>4, <2>1, <2>2 DEF WhenBetween
  <1>5. CASE BoardKnown
    <2>1. /\ host.text.op = "READINFO" /\ EchoMatches(host.text) /\ Done /\ host'.pc = "idle"
          /\ meant' = chip.sector /\ UNCHANGED <<banks, got>>
      BY <1>0, <1>5, BackTyped DEF BoardKnown
    <2>2. host.pc = "capture"
      BY <1>0, <2>1 DEF QueueInv, HostSane, Done, Waiting
    <2>3. NothingBehind("READINFO") /\ banks = 0 /\ got = Nothing
      BY <1>0, <2>1, <2>2 DEF QueueInv, WhenStarting, Starting
    <2>4. Has(buf, "READINFO")
      BY <1>0, <2>1, EchoFacts DEF Has
    <2>5. PipeOnly({"READINFO", "junk"})'
      <3>1. /\ Only(line, Behind("READINFO")) /\ BoardOnly(Behind("READINFO"))
            /\ Only(wire, Behind("READINFO"))
        BY <2>3, <2>4 DEF NothingBehind
      <3>2. \A S : Only(<<>>, S)
        BY DEF Only
      <3>3. QED
        BY <1>1, <3>1, <3>2 DEF PipeOnly, BoardOnly, Behind
    <2>6. PipeOnly({"READINFO", "DEVIDSST", "junk"})'
      BY <2>5, OnlyMoreNext
    <2>7. NothingBehind("DEVIDSST")'
      <3>1. \A X : ~Has(<<>>, X) /\ Ends(<<>>, X)
        BY DEF Has, Ends
      <3>2. ~Has(line, "DEVIDSST")' /\ Ends(line, "DEVIDSST")' /\ Ends(wire, "DEVIDSST")'
            /\ (board.pc # "idle" => board.text.op # "DEVIDSST")'
        BY <2>5 DEF PipeOnly, Only, Has, Ends, BoardOnly
      <3>3. QED
        BY <1>1, <3>1, <3>2 DEF NothingBehind
    <2>8. WhenBetween'
      BY <1>1, <2>1, <2>3, <2>5, <2>6, <2>7 DEF WhenBetween
    <2>9. GotIsMeant'
      BY <2>1, <2>3 DEF GotIsMeant
    <2>10. QED
      BY <1>3, <2>1, <2>8, <2>9
  <1>6. CASE ChipKnown
    <2>1. /\ host.text.op = "DEVIDSST" /\ EchoMatches(host.text) /\ Done /\ host'.pc = "idle"
          /\ UNCHANGED <<meant, late, got>>
      BY <1>0, <1>6, BackTyped DEF ChipKnown
    <2>2. host.pc = "capture"
      BY <1>0, <2>1 DEF QueueInv, HostSane, Done, Waiting
    <2>3. NothingBehind("DEVIDSST") /\ chip.sector = meant
      BY <1>0, <2>1, <2>2 DEF QueueInv, WhenBetween, Between
    <2>4. Has(buf, "DEVIDSST")
      BY <1>0, <2>1, EchoFacts DEF Has
    <2>5. PipeOnly({"DEVIDSST", "junk"})'
      <3>1. /\ Only(line, Behind("DEVIDSST")) /\ BoardOnly(Behind("DEVIDSST"))
            /\ Only(wire, Behind("DEVIDSST"))
        BY <2>3, <2>4 DEF NothingBehind
      <3>2. \A S : Only(<<>>, S)
        BY DEF Only
      <3>3. QED
        BY <1>1, <3>1, <3>2 DEF PipeOnly, BoardOnly, Behind
    <2>6. PipeOnly({"READINFO", "DEVIDSST", "junk"})'
      BY <2>5, OnlyMoreNext
    <2>7. NothingBehind("DEVIDSST")'
      BY <1>1, <2>3
    <2>8. ~late => PipeOnly({"READINFO", "junk"})'
      <3>1. SUFFICES ASSUME ~late PROVE PipeOnly({"READINFO", "junk"})'
        OBVIOUS
      <3>2. wire = <<>> /\ line = <<>> /\ board.pc = "idle"
        BY <2>1, <2>2, <3>1, AnswerCame DEF Once, Between
      <3>3. QED
        BY <1>1, <3>2, OnlyMoreNext
    <2>9. WhenBetween'
      BY <1>1, <2>1, <2>3, <2>5, <2>6, <2>7, <2>8 DEF WhenBetween
    <2>10. GotIsMeant'
      BY <1>0, <2>1, <2>2 DEF GotIsMeant
    <2>11. QED
      BY <1>3, <2>1, <2>9, <2>10
  <1>7. CASE DataRead
    <2>1. /\ host.text.op \in {"RDBK", "RDSECT"} /\ EchoMatches(host.text) /\ Done
          /\ host'.pc = "idle" /\ UNCHANGED meant
          /\ got' = [arg |-> host.text.arg, val |-> buf[2].val]
      BY <1>0, <1>7, BackTyped DEF DataRead
    <2>2. Working /\ Once
      BY <1>0, <2>1 DEF QueueInv, HostSane, Done, Waiting, Working, Work, Once
    <2>3. /\ buf[2].text = host.text /\ wire = <<>> /\ line = <<>> /\ board.pc = "idle"
          /\ Effect(buf[2])
      BY <2>1, <2>2, AnswerCame
    <2>4. buf[2].val = <<chip.sector[host.text.arg]>>
      BY <2>1, <2>3 DEF Effect
    <2>5. chip.sector = meant
      BY <1>0, <2>1, <2>2 DEF OnceInv, NotYet
    <2>6. GotIsMeant'
      BY <2>1, <2>4, <2>5 DEF GotIsMeant
    <2>7. QED
      BY <1>4, <2>1, <2>3, <2>5, <2>6
  <1>8. CASE SectorErased
    <2>1. /\ host.text.op = "ESST" /\ EchoMatches(host.text) /\ Done
          /\ host'.pc = "idle" /\ meant' = [meant EXCEPT ![host.text.arg] = ERASED]
          /\ got' = Nothing
      BY <1>0, <1>8, BackTyped DEF SectorErased
    <2>2. Working /\ Once
      BY <1>0, <2>1 DEF QueueInv, HostSane, Done, Waiting, Working, Work, Once
    <2>3. /\ buf[2].text = host.text /\ wire = <<>> /\ line = <<>> /\ board.pc = "idle"
          /\ Effect(buf[2])
      BY <2>1, <2>2, AnswerCame
    <2>4. chip.sector = meant'
      BY <2>1, <2>3 DEF Effect
    <2>5. QED
      BY <1>4, <2>1, <2>3, <2>4 DEF GotIsMeant
  <1>9. CASE SectorBurnt
    <2>1. Done /\ host.pc = "crc" /\ got' = Nothing /\ UNCHANGED banks
      BY <1>9 DEF SectorBurnt
    <2>2. CASE ~ChecksumIs(buf[1], host.data)
      BY <1>9, <2>1, <2>2, ExceptionInvariant DEF SectorBurnt, Done
    <2>3. CASE ChecksumIs(buf[1], host.data)
      <3>1. /\ host'.pc = "idle"
            /\ meant' = [meant EXCEPT ![host.text.arg] =
                            BitAnd(meant[host.text.arg], host.data)]
        BY <1>0, <1>9, <2>3, BackTyped DEF SectorBurnt
      <3>2. Len(buf) \in Nat \ {0}
        BY <1>0, <2>1, DoneFacts
      <3>3. wire = <<>> /\ line = <<>>
        <4>1. Len(wire) + Len(buf) + Len(line) <= 1
          BY <1>0, <2>1 DEF OnceInv, Burning
        <4>2. \A a, b, c \in Nat : a + b + c <= 1 /\ b # 0 => a = 0 /\ c = 0
          OBVIOUS
        <4>3. Len(wire) \in Nat /\ Len(line) \in Nat
          BY <1>0, QueueFacts
        <4>4. Len(wire) = 0 /\ Len(line) = 0
          BY <3>2, <4>1, <4>2, <4>3, Zenon
        <4>5. QED
          BY <1>0, <4>4, QueueFacts
      <3>4. Tells(buf[1])
        BY <1>0, <2>1, <3>2 DEF OnceInv, Burning
      <3>5. host.data \in Content
        BY <1>0 DEF LinkTypeOK, Host
      <3>6. board.pc = "idle" /\ chip.sector = meant'
        BY <2>3, <3>1, <3>4, <3>5 DEF Tells, ChecksumIs
      <3>7. QED
        BY <1>4, <2>1, <3>1, <3>3, <3>6 DEF GotIsMeant
    <2>4. QED
      BY <2>2, <2>3
  <1>10. QED
    BY <1>2, <1>5, <1>6, <1>7, <1>8, <1>9 DEF Ends1

\* The data of a burn is sent, or the echo was wrong.
LEMMA SendDataInvariant == ASSUME LinkIInv, SendData PROVE LinkIInv'
  <1>0. LinkTypeOK /\ QueueInv /\ OnceInv /\ GotIsMeant /\ HostSane
    BY DEF LinkIInv, QueueInv
  <1>1. LinkTypeOK'
    BY <1>0, SendDataTyped
  <1>2. /\ host.pc = "echo" /\ host.text.op = "WRSECT" /\ host.text \in Texts
        /\ host.data \in Content /\ Working /\ Once
    BY <1>0, SendDataShape DEF Working, Work, Once
  <1>3. EchoAnswered' /\ BoardSane'
    <2>1. Dropped \/ (buf' \in {buf, <<>>} /\ UNCHANGED <<line, board>>)
      BY <1>0, SendDataShape DEF Dropped
    <2>2. QED
      BY <1>0, <2>1, AnsweredOthers DEF QueueInv
  <1>4. CASE /\ EchoFirst(host.text)
             /\ host' \in Host /\ host'.pc = "crc" /\ host'.text = host.text
             /\ host'.data = host.data
             /\ wire' \in Seq(Sent)
             /\ Pushed(wire', wire, [text |-> host.text, data |-> host.data])
             /\ buf' = <<>>
             /\ UNCHANGED <<port, line, late, board, chip, garbled, meant, banks, got>>
    <2>1. /\ 1 \in 1 .. Len(buf) /\ buf[1].part = "echo" /\ buf[1].text = host.text
      <3>1. buf # <<>> /\ buf[1] = Echo(host.text)
        BY <1>4 DEF EchoFirst
      <3>2. QED
        BY <1>0, <3>1, EchoParts, QueueFacts
    <2>2. /\ wire = <<>> /\ line = <<>>
          /\ board.pc # "idle" => board.text = host.text
      <3>1. Mine(buf[1])
        BY <2>1 DEF Mine
      <3>2. wire = <<>> /\ Last(buf[1]) /\ line = <<>>
        BY <1>0, <1>2, <2>1, <3>1 DEF OnceInv, InBuffer
      <3>3. QED
        BY <2>1, <3>2 DEF Last
    <2>3. board.pc # "busy"
      BY <1>0, <1>2, <2>2 DEF QueueInv, BoardSane
    <2>4. chip.sector = meant
      BY <1>0, <1>2 DEF OnceInv, NotYet
    <2>5. Len(wire) = 0 /\ Len(line) = 0 /\ Len(wire') = 1 /\ wire'[1].text = host.text
      <3>1. PICK w : w = [text |-> host.text, data |-> host.data]
        OBVIOUS
      <3>2. Pushed(wire', wire, w) /\ w.text = host.text
        BY <1>4, <3>1
      <3>3. Len(wire) = 0 /\ Len(line) = 0
        BY <1>0, <2>2, QueueFacts
      <3>4. QED
        BY <3>2, <3>3 DEF Pushed
    <2>6. Burning'
      <3>1. PipeOnly({"WRSECT", "junk"})'
        <4>1. \A S : Only(<<>>, S)
          BY DEF Only
        <4>2. Only(wire', {"WRSECT", "junk"})
          BY <1>2, <2>5 DEF Only
        <4>3. QED
          BY <1>2, <1>4, <2>2, <4>1, <4>2 DEF PipeOnly, BoardOnly
      <3>2. Len(buf') = 0 /\ Len(line') = 0 /\ Len(wire') = 1
        BY <1>4, <2>5
      <3>3. QED
        BY <1>4, <2>2, <2>3, <2>4, <3>1, <3>2 DEF Burning
    <2>7. QueueInv'
      BY <1>2, <1>3, <1>4 DEF QueueInv, HostSane, WhenStarting, WhenBetween, WhenWorking,
         Starting, Between, Working
    <2>8. OnceInv'
      BY <1>4, <2>6 DEF OnceInv, OnWire, OnBoard, OnLine, InBuffer, NotYet, Once, Between,
         Working
    <2>9. GotIsMeant'
      BY <1>0, <1>2, <1>4 DEF GotIsMeant
    <2>10. QED
      BY <1>1, <2>7, <2>8, <2>9 DEF LinkIInv
  <1>5. CASE /\ host' \in Host /\ host'.pc = "down" /\ late' = late
             /\ buf' = <<>> /\ line' \in {line, <<>>}
             /\ UNCHANGED <<wire, board, chip, garbled, meant, banks, got>>
    <2>1. NothingBehind("READINFO")
      <3>1. PICK S : S = {"DEVIDSST", host.text.op, "junk"}
        OBVIOUS
      <3>2. PipeOnly(S) /\ "READINFO" \notin S
        BY <1>0, <1>2, <3>1 DEF QueueInv, WhenWorking
      <3>3. QED
        BY <3>2, BehindNone
    <2>2. NothingBehind("READINFO")'
      BY <1>0, <1>5, <2>1, BehindDropped DEF Dropped
    <2>3. QueueInv' /\ OnceInv'
      BY <1>3, <1>5, <2>2 DEF QueueInv, HostSane, WhenStarting, WhenBetween, WhenWorking,
         Starting, Between, Working, OnceInv, OnWire, OnBoard, OnLine, InBuffer, NotYet,
         Burning, Once
    <2>4. QED
      BY <1>1, <1>5, <2>3 DEF LinkIInv, GotIsMeant
  <1>6. QED
    BY <1>0, <1>4, <1>5, SendDataShape

\* The program, and the queue, stay as they are.
LEMMA SameInvariant ==
    ASSUME LinkIInv, LinkTypeOK', host'.pc = host.pc, host'.text = host.text,
           UNCHANGED <<buf, line, wire, board, chip, meant, banks, late, got>>
    PROVE  LinkIInv'
  <1>1. /\ (Starting' <=> Starting) /\ (Between' <=> Between) /\ (Working' <=> Working)
        /\ (Once' <=> Once)
    BY DEF Starting, Between, Working, Once
  <1>2. QueueInv'
    BY <1>1 DEF LinkIInv, QueueInv, EchoAnswered, BoardSane, HostSane, WhenStarting,
       WhenBetween, WhenWorking, PipeOnly, BoardOnly, NothingBehind, BoardAt
  <1>3. \A m : Mine(m)' <=> Mine(m)
    BY DEF Mine
  <1>4. \A m : Last(m)' <=> Last(m)
    BY DEF Last, Effect
  <1>5. \A m : Tells(m)' <=> Tells(m)
    BY DEF Tells
  <1>6. OnWire' /\ OnBoard' /\ OnLine' /\ InBuffer' /\ NotYet'
    BY <1>1, <1>3, <1>4 DEF LinkIInv, OnceInv, OnWire, OnBoard, OnLine, InBuffer, NotYet
  <1>7. Burning'
    BY <1>5 DEF LinkIInv, OnceInv, Burning, PipeOnly, BoardOnly
  <1>8. QED
    BY <1>2, <1>6, <1>7 DEF LinkIInv, OnceInv, GotIsMeant

\* The program is started.
LEMMA StartInvariant == ASSUME LinkIInv, LinkTypeOK', select_com_port PROVE LinkIInv'
  <1>1. /\ host.pc = "down" /\ host'.pc = "flush" /\ banks' = 0 /\ late' = FALSE
        /\ got' = Nothing /\ UNCHANGED <<buf, line, wire, board>>
        /\ LinkTypeOK /\ QueueInv
    BY StartShape DEF LinkIInv, boardVars
  <1>2. NothingBehind("READINFO")'
    <2>1. NothingBehind("READINFO")
      BY <1>1 DEF QueueInv, WhenStarting, Starting
    <2>2. QED
      BY <1>1, <2>1, BehindDropped DEF Same
  <1>3. EchoAnswered' /\ BoardSane'
    BY <1>1, AnsweredOthers DEF QueueInv, Same
  <1>4. QueueInv' /\ OnceInv' /\ GotIsMeant'
    BY <1>1, <1>2, <1>3 DEF QueueInv, HostSane, WhenStarting, WhenBetween, WhenWorking,
       Between, Working, OnceInv, OnWire, OnBoard, OnLine, InBuffer, NotYet, Burning, Once,
       GotIsMeant
  <1>5. QED
    BY <1>4 DEF LinkIInv

\* Another chip is put into the socket.
LEMMA SwapInvariant == ASSUME LinkIInv, LinkTypeOK', Swap PROVE LinkIInv'
  <1>1. /\ host.pc = "idle" /\ host' = host /\ meant' = chip'.sector /\ got' = Nothing
        /\ UNCHANGED <<buf, line, wire, board, banks, late>>
        /\ LinkTypeOK /\ QueueInv
    BY SwapShape DEF LinkIInv
  <1>2. EchoAnswered' /\ BoardSane'
    BY <1>1, AnsweredOthers DEF QueueInv, Same
  <1>3. /\ \A S : PipeOnly(S) => PipeOnly(S)'
        /\ NothingBehind("DEVIDSST") => NothingBehind("DEVIDSST")'
    BY <1>1, OnlyDropped, BehindDropped DEF Same
  <1>4. WhenBetween'
    BY <1>1, <1>3 DEF QueueInv, WhenBetween, Between
  <1>5. QueueInv' /\ OnceInv' /\ GotIsMeant'
    BY <1>1, <1>2, <1>4 DEF QueueInv, HostSane, WhenStarting, WhenWorking,
       Starting, Working, OnceInv, OnWire, OnBoard, OnLine, InBuffer, NotYet, Burning, Once,
       Between, GotIsMeant
  <1>6. QED
    BY <1>5 DEF LinkIInv

-----------------------------------------------------------------------------
(***************************************************************************)
(* Theorems.                                                               *)
(***************************************************************************)
LEMMA InitInvariant == LinkInit => LinkIInv
  <1>1. SUFFICES ASSUME LinkInit PROVE LinkIInv
    OBVIOUS
  <1>2. /\ host \in Host /\ host.pc = "down" /\ port = "closed"
        /\ buf = <<>> /\ wire = <<>> /\ line = <<>> /\ board = [pc |-> "idle"]
        /\ chip \in AnyChip /\ meant = chip.sector
        /\ banks = 0 /\ late = FALSE /\ got = Nothing /\ garbled = 0
    BY <1>1, RestingTyped DEF LinkInit
  <1>3. LinkTypeOK
    <2>1. chip \in Chip /\ meant \in [Sectors -> Content]
      BY <1>2, ContentFacts DEF AnyChip, Chip
    <2>2. garbled \in 0 .. MaxGarbled
      BY <1>2, LinkAssumption
    <2>3. QED
      BY <1>2, <2>1, <2>2, EmptyTyped DEF LinkTypeOK
  <1>4. EchoAnswered /\ BoardSane /\ NothingBehind("READINFO")
    BY <1>2 DEF EchoAnswered, BoardSane, NothingBehind, Ends, Has, Only, BoardOnly
  <1>5. QED
    BY <1>2, <1>3, <1>4 DEF LinkIInv, QueueInv, HostSane, WhenStarting, WhenBetween,
       WhenWorking, Between, Working, OnceInv, OnWire, OnBoard, OnLine, InBuffer, NotYet,
       Burning, Once, GotIsMeant

LEMMA NextInvariant == LinkIInv /\ [LinkNext]_linkVars => LinkIInv'
  <1>1. SUFFICES ASSUME LinkIInv, [LinkNext]_linkVars PROVE LinkIInv'
    OBVIOUS
  <1>2. LinkTypeOK /\ LinkTypeOK'
    BY <1>1, StepTyped DEF LinkIInv, QueueInv
  <1>3. CASE WaitRound
    BY <1>1, <1>2, <1>3, WaitRoundShape, SameInvariant DEF boardVars
  <1>4. CASE UNCHANGED linkVars
    BY <1>1, <1>2, <1>4, SameInvariant DEF linkVars
  <1>5. QED
    BY <1>1, <1>2, <1>3, <1>4, MovesInvariant, SendsInvariant, EndsInvariant,
       SendDataInvariant, StartInvariant, SwapInvariant
       DEF LinkNext, HostSteps, BoardSteps, Moves, Sends, Ends1

\* The inductive invariant: the types, in which order commands and their answers
\* lie between the program and the board, and what the chip holds meanwhile.
THEOREM LinkInvariance == LinkSpec => []LinkIInv
  BY InitInvariant, NextInvariant, PTL DEF LinkSpec

\* Types: what is sent and received is commands, echoes and answers, whatever is
\* lost, late or changed on its way.
THEOREM LinkTyped == LinkSpec => []LinkTypeOK
  <1>1. LinkIInv => LinkTypeOK
    BY DEF LinkIInv
  <1>2. QED
    BY <1>1, LinkInvariance, PTL

\* Whenever the program goes on after a command, the chip holds what its erases
\* and burns make of it: a burn clears in the sector that was named the bits that
\* the data does not have, and nothing else has changed.  What was changed on its
\* way was noticed, of whatever the board takes its checksum.
THEOREM HarmNoticed == LinkSpec => []HarmIsNoticed
  <1>1. LinkIInv => HarmIsNoticed
    BY DEF LinkIInv, QueueInv, WhenBetween, Between, HarmIsNoticed
  <1>2. QED
    BY <1>1, LinkInvariance, PTL

\* What was read last is what the sector holds: read_block and read_sector take
\* no answer to another command, nor a late one to an earlier, for theirs.
THEOREM ReadsAreTrue == LinkSpec => []ReadIsTrue
  <1>1. LinkIInv => ReadIsTrue
    BY DEF LinkIInv, QueueInv, WhenBetween, Between, GotIsMeant, ReadIsTrue
  <1>2. QED
    BY <1>1, LinkInvariance, PTL

\* The id of an SST39SF chip, as read_chip_id computes it from two signed bytes,
\* names the banks of that chip, and no other id names any.
LEMMA IdFacts ==
    \A id \in 0 .. 255 : BanksOf(get_chip_id(<<191, id>>)) # 0 =>
        id \in 181 .. 183 /\ BanksOf(get_chip_id(<<191, id>>)) = BanksOfChip[id]
  <1>1. \A n : BanksOf(n) # 0 => /\ n \in {49077, 49078, 49079}
                                /\ BanksOf(n) = IF n = 49077 THEN 2
                                                ELSE IF n = 49078 THEN 4 ELSE 8
    BY DEF BanksOf
  <1>2. BanksOfChip[181] = 2 /\ BanksOfChip[182] = 4 /\ BanksOfChip[183] = 8
    BY DEF BanksOfChip
  <1>3. ASSUME NEW id \in 0 .. 255, BanksOf(get_chip_id(<<191, id>>)) # 0
        PROVE  id \in 181 .. 183 /\ BanksOf(get_chip_id(<<191, id>>)) = BanksOfChip[id]
    <2>1. PICK n : n = get_chip_id(<<191, id>>)
      OBVIOUS
    <2>2. /\ n = IF id < 128 THEN 49152 + id ELSE 48896 + id
          /\ n \in {49077, 49078, 49079}
          /\ BanksOf(n) = IF n = 49077 THEN 2 ELSE IF n = 49078 THEN 4 ELSE 8
      <3>1. n = IF id < 128 THEN 49152 + id ELSE 48896 + id
        BY <2>1 DEF get_chip_id, Signed
      <3>2. BanksOf(n) # 0
        BY <1>3, <2>1
      <3>3. QED
        BY <1>1, <3>1, <3>2
    <2>3. id \in {181, 182, 183} /\ n = 48896 + id
      BY <2>2
    <2>4. QED
      BY <1>2, <2>1, <2>2, <2>3
  <1>4. QED
    BY <1>3

\* As long as every identification has been answered, the number of banks that
\* the program takes over is that of the chip in the socket.
THEOREM BanksAreThere == LinkSpec => KnownIsThere
  <1> DEFINE Step == banks' \notin {banks, 0} /\ ~late
                        => chip.id \in 181 .. 183 /\ banks' = BanksOfChip[chip.id]
  <1>1. LinkIInv /\ [LinkNext]_linkVars => [Step]_linkVars
    <2>1. SUFFICES ASSUME LinkIInv, [LinkNext]_linkVars, banks' \notin {banks, 0}, ~late
                   PROVE  chip.id \in 181 .. 183 /\ banks' = BanksOfChip[chip.id]
      OBVIOUS
    <2>2. LinkTypeOK /\ QueueInv
      BY <2>1 DEF LinkIInv
    <2>3. ChipKnown
      <3>1. CASE Moves
        BY <2>1, <2>2, <3>1, MovesKeep
      <3>2. CASE Sends
        BY <2>1, <2>2, <3>2, SendsShape DEF Sent1
      <3>3. CASE SendData
        BY <2>1, <3>3 DEF SendData
      <3>4. CASE Ends1
        BY <2>1, <3>4 DEF Ends1, GiveUpWaiting, EchoWrong, BoardKnown, DataRead, SectorErased,
           SectorBurnt
      <3>5. CASE WaitRound \/ select_com_port \/ Swap \/ UNCHANGED linkVars
        BY <2>1, <3>5 DEF WaitRound, select_com_port, Swap, linkVars
      <3>6. QED
        BY <2>1, <3>1, <3>2, <3>3, <3>4, <3>5
           DEF LinkNext, HostSteps, BoardSteps, Moves, Sends, Ends1
    <2>4. /\ host.text.op = "DEVIDSST" /\ EchoMatches(host.text) /\ Done
          /\ banks' = IF BanksOf(get_chip_id(buf[2].val)) = 0 THEN banks
                      ELSE BanksOf(get_chip_id(buf[2].val))
      BY <2>3 DEF ChipKnown
    <2>5. Once
      BY <2>1, <2>2, <2>4 DEF QueueInv, HostSane, Done, Waiting, Once, Between
    <2>6. buf[2].val = <<191, chip.id>>
      BY <2>1, <2>4, <2>5, AnswerCame DEF Effect
    <2>7. chip.id \in 0 .. 255
      BY <2>2, LinkAssumption DEF LinkTypeOK, Chip
    <2>8. PICK n : n = BanksOf(get_chip_id(<<191, chip.id>>))
      OBVIOUS
    <2>9. n # 0 => chip.id \in 181 .. 183 /\ n = BanksOfChip[chip.id]
      BY <2>7, <2>8, IdFacts
    <2>10. banks' = IF n = 0 THEN banks ELSE n
      BY <2>4, <2>6, <2>8
    <2>11. QED
      BY <2>1, <2>9, <2>10
  <1>2. QED
    BY <1>1, LinkInvariance, PTL DEF LinkSpec, KnownIsThere
===============================================================================
