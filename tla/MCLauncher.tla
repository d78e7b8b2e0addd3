------------------------------ MODULE MCLauncher ------------------------------
(***************************************************************************)
(* The launcher on small cartridges.                                       *)
(***************************************************************************)
EXTENDS Launcher, SmallChips

Formatted0 == [x \in Cell |-> FormatImage(x)]
Over(m, w) == [x \in Cell |-> IF x \in DOMAIN w THEN w[x] ELSE m[x]]

\* The cells of a file in the blocks of chain, listed in the given slot.
FileCells(chain, words, slot) ==
    LET n == Len(chain)
        cellsOf(x) == {FmtCell(chain[x]), NextCell(chain[x]), CrcCell(chain[x]),
                       UsedCell(chain[x]), HdrCell(chain[x]), DataCell(chain[x])}
        entry == PreCell(BankOf(chain[1]), slot)
        indexOf(x) == CHOOSE i \in 1 .. n : x \in cellsOf(i)
    IN  [x \in {entry} \cup UNION {cellsOf(i) : i \in 1 .. n} |->
            IF x = entry THEN BlockOf(chain[1])
            ELSE LET i == indexOf(x)
                 IN  CASE x[1] = "fmt"  -> FORMATTED
                       [] x[1] = "next" -> IF i = n THEN NoLoc ELSE chain[i + 1]
                       [] x[1] = "crc"  -> Crc16(words[i])
                       [] x[1] = "used" -> USED
                       [] x[1] = "hdr"  -> (i - 1) + 256 * n
                       [] OTHER         -> words[i]]

\* Three files, one of them in two banks, in an order other than of blocks.
Mixed == Over(Over(Over(Formatted0,
            FileCells(<<2, 256>>, <<5, 6>>, 0)),
            FileCells(<<1>>, <<3>>, 1)),
            FileCells(<<258, 257>>, <<6, 9>>, 0))
\* A bank without files before one with a file in two banks, one whose data is
\* wrong and one whose chain runs in a circle.
Large == Over(Over(Over(Over(Formatted0,
            FileCells(<<256, 0, 1>>, <<3, 5, 6>>, 0)),
            FileCells(<<258>>, <<9>>, 1)),
            FileCells(<<257>>, <<6>>, 2)),
            [x \in {DataCell(258), NextCell(257)} |->
                IF x = DataCell(258) THEN 4 ELSE 257])
\* A file that reaches the page and the list of blocks.
Huge  == Over(Formatted0, FileCells(<<0, 1, 2, 256, 257>>, <<3, 5, 6, 9, 3>>, 0))

CartridgesSmall == {Mixed, Large, Huge}

\* A header of one block says zero, one of two blocks leaves the last byte
\* out, and one of three asks for more than the blocks have.
MCHeaderSize(h) ==
    LET n == h \div 256 IN CASE n = 2 -> 3 [] n = 3 -> 7 [] n \in {4, 5} -> 7 [] OTHER -> 0
MCHeaderDeploy(h) == IF h \div 256 = 2 THEN 13 ELSE 15

\* Two bytes that are no address make the one that the first is half of, or 0.
MCWordOf(x, y) == IF x[1] = "lo" THEN x[2] ELSE IF y[1] = "hi" THEN y[2] ELSE 0
=============================================================================
