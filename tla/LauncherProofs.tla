---------------------------- MODULE LauncherProofs ----------------------------
(***************************************************************************)
(* Theorems about the launcher, for chips, pages, memories and programs of *)
(* any size, and any keys.                                                 *)
(***************************************************************************)
EXTENDS Launcher, RomFatProofs

-----------------------------------------------------------------------------
(***************************************************************************)
(* The inductive invariant.                                                *)
(***************************************************************************)
\* What the bootstrap and the launcher have set up before a program is asked for.
SetUp ==
    /\ main.pc = "boot" => main = Started /\ mem = Cold
    /\ main.pc \notin {"boot", "running"} => mem = loadcode(Cold, LauncherImage)
    /\ main.pc \notin {"boot", "nochip"} => rom \in Cartridges

\* A page begins at the first program, or has as many as it can.
Fits(offset) == offset = 0 \/ offset + PAGE <= Len(Directory)
PageFits ==
    main.pc \notin {"boot", "nochip"} => Fits(main.offset)

Loading == main.pc \in {"link", "copy", "wait"}
AskedChain == ChainOf(rom, Asked)

\* The first n blocks of a program, which lie in s on m, are in r.
Holds(r, m, s, n) == \A k \in 1 .. n : r[k - 1] = WordArea(m[DataCell(s[k])])
RamHolds(n) == Holds(ram, rom, AskedChain, n)

\* What is being loaded is what was asked for.
LoadIInv ==
    /\ Loading => /\ main.number \in 1 .. Len(Directory)
                  /\ main.size = prgsize(Asked)
    /\ main.pc = "link" => /\ Path(rom, main.link)
                           /\ main.link[1] = Asked
                           /\ Len(main.link) <= NBANKS * NBLOCKS + 1
                           /\ out.deploy = get_deploy_location(Asked)
    /\ main.pc \in {"copy", "wait"} /\ Len(AskedChain) <= LINK_AREA =>
           /\ main.link = AskedChain
           /\ out.deploy = get_deploy_location(Asked)
           /\ main.ctr <= Len(AskedChain)
           /\ RamHolds(main.ctr)
    /\ main.pc = "wait" =>
           /\ main.ctr >= Len(main.link)
           /\ main.ctr <= LINK_AREA =>
                  screen.green = [k \in DOMAIN main.link |-> CheckWord(k)]

\* Between a load and the start, whatever keys are still handled.
ReadyIInv ==
    main.exit /\ main.pc \in {"loop", "reset"} =>
        /\ main.number \in 1 .. Len(Directory)
        /\ Asked \in DOMAIN FilesOn(rom) /\ Len(AskedChain) <= LIST_AREA =>
               /\ out.deploy = get_deploy_location(Asked)
               /\ out.size = prgsize(Asked)
               /\ RamHolds(Len(AskedChain))

LauncherIInv == /\ LauncherTypeOK
                /\ SetUp
                /\ PageFits
                /\ RowsAreNumbered
                /\ LoadIInv
                /\ ReadyIInv
                /\ StartedIsAsked

-----------------------------------------------------------------------------
(***************************************************************************)
(* The preambles of a cartridge.                                           *)
(***************************************************************************)
\* The number of programs that begin in bank b, and in the banks before it.
EndOf(m, b) ==
    CHOOSE i \in Slot : /\ m[PreCell(b, i)] = ERASED
                        /\ \A j \in 0 .. i - 1 : m[PreCell(b, j)] # ERASED
Entries(m, b) == {e \in PreCells : e[2] < b /\ Listed(m, e[2], e[3])}
Before(m, b)  == Cardinality(Entries(m, b))

LEMMA BankEnds ==
    ASSUME NEW m \in Cartridges, NEW b \in Bank
    PROVE  /\ EndOf(m, b) \in Slot
           /\ m[PreCell(b, EndOf(m, b))] = ERASED
           /\ \A i \in Nat : i < EndOf(m, b) => m[PreCell(b, i)] # ERASED
           /\ \A i \in Nat : Listed(m, b, i) <=> i < EndOf(m, b)
<1> DEFINE S == {i \in Slot : m[PreCell(b, i)] = ERASED}
<1>1. S \in SUBSET Nat /\ S # {} /\ SLOTS \in Nat
  BY LauncherAssumption, GeometryAssumption DEF Slot
<1>2. PICK i \in S : \A j \in S : i <= j
  <2> HIDE DEF S
  <2> QED BY <1>1, LeastNumber
<1>3. i \in Slot /\ m[PreCell(b, i)] = ERASED
  BY <1>2
<1>4. ASSUME NEW j \in 0 .. i - 1 PROVE m[PreCell(b, j)] # ERASED
  <2>1. j \in Slot /\ j \in Nat /\ i \in Nat /\ ~(i <= j)
    BY <1>1, <1>3 DEF Slot
  <2> QED BY <1>2, <2>1
<1>5. /\ EndOf(m, b) \in Slot
      /\ m[PreCell(b, EndOf(m, b))] = ERASED
      /\ \A j \in 0 .. EndOf(m, b) - 1 : m[PreCell(b, j)] # ERASED
  BY <1>3, <1>4 DEF EndOf
<1>6. EndOf(m, b) \in Nat
  BY <1>1, <1>5 DEF Slot
<1>7. \A j \in Nat : j < EndOf(m, b) => m[PreCell(b, j)] # ERASED
  BY <1>5, <1>6
<1>8. ASSUME NEW j \in Nat PROVE Listed(m, b, j) <=> j < EndOf(m, b)
  <2>1. CASE j < EndOf(m, b)
    <3>1. \A k \in 0 .. j : k \in Nat /\ k < EndOf(m, b)
      BY <1>6, <2>1
    <3> QED BY <1>7, <2>1, <3>1 DEF Listed
  <2>2. CASE ~(j < EndOf(m, b))
    <3>1. EndOf(m, b) \in 0 .. j
      BY <1>6, <2>2
    <3> QED BY <1>5, <2>2, <3>1 DEF Listed
  <2> QED BY <2>1, <2>2
<1> QED BY <1>5, <1>7, <1>8

LEMMA PreCellParts ==
    /\ \A b \in Bank, i \in Slot : /\ PreCell(b, i) \in PreCells
                                   /\ PreCell(b, i)[2] = b /\ PreCell(b, i)[3] = i
    /\ \A e \in PreCells : e[2] \in Bank /\ e[3] \in Slot /\ e = PreCell(e[2], e[3])
    /\ Bank \subseteq Nat /\ Slot \subseteq Nat
    /\ NBANKS \in Nat \ {0} /\ SLOTS \in Nat \ {0}
BY GeometryAssumption DEF PreCell, PreCells, Bank, Slot

LEMMA BankNumber ==
    ASSUME NEW b \in Bank
    PROVE  b \in Nat /\ b < NBANKS
BY GeometryAssumption DEF Bank

LEMMA EndNumber ==
    ASSUME NEW m \in Cartridges, NEW b \in Bank
    PROVE  EndOf(m, b) \in Nat /\ EndOf(m, b) < SLOTS
<1>1. EndOf(m, b) \in Slot
  BY BankEnds
<1> QED BY <1>1, GeometryAssumption DEF Slot

LEMMA PreCellsFinite ==
    /\ IsFiniteSet(PreCells)
    /\ Cardinality(PreCells) \in Nat
    /\ Cardinality(PreCells) <= NBANKS * SLOTS
    /\ NBANKS * SLOTS \in Nat
<1>0. NBANKS \in Nat /\ SLOTS \in Nat
  BY PreCellParts
<1>1. IsFiniteSet(Bank) /\ Cardinality(Bank) = NBANKS
  BY <1>0, FS_Interval DEF Bank
<1>2. IsFiniteSet(Slot) /\ Cardinality(Slot) = SLOTS
  BY <1>0, FS_Interval DEF Slot
<1>3. IsFiniteSet(Bank \X Slot) /\ Cardinality(Bank \X Slot) = NBANKS * SLOTS
  BY <1>1, <1>2, FS_Product
<1> DEFINE f == [e \in Bank \X Slot |-> PreCell(e[1], e[2])]
<1>4. f \in Surjection(Bank \X Slot, PreCells)
  <2>1. f \in [Bank \X Slot -> PreCells]
    BY PreCellParts
  <2>2. ASSUME NEW x \in PreCells PROVE \E e \in Bank \X Slot : f[e] = x
    <3>1. <<x[2], x[3]>> \in Bank \X Slot /\ f[<<x[2], x[3]>>] = x
      BY PreCellParts
    <3> QED BY <3>1
  <2> QED BY <2>1, <2>2 DEF Surjection
<1> HIDE DEF f
<1>5. IsFiniteSet(PreCells) /\ Cardinality(PreCells) <= NBANKS * SLOTS
  BY <1>3, <1>4, FS_Surjection
<1>6. Cardinality(PreCells) \in Nat
  BY <1>5, FS_CardinalityType
<1>7. NBANKS * SLOTS \in Nat
  BY <1>0
<1> QED BY <1>5, <1>6, <1>7

LEMMA EntryParts ==
    ASSUME NEW m, NEW b, NEW e \in Entries(m, b)
    PROVE  /\ e \in PreCells /\ e = PreCell(e[2], e[3])
           /\ e[2] \in Bank /\ e[2] \in Nat /\ e[3] \in Slot /\ e[3] \in Nat
           /\ e[2] < b /\ Listed(m, e[2], e[3])
<1>1. e \in PreCells /\ e[2] < b /\ Listed(m, e[2], e[3])
  BY DEF Entries
<1>2. e[2] \in Bank /\ e[3] \in Slot /\ e = PreCell(e[2], e[3])
  BY <1>1, PreCellParts
<1>3. e[2] \in Nat /\ e[3] \in Nat
  BY <1>2, PreCellParts
<1> QED BY <1>1, <1>2, <1>3

LEMMA EntriesFinite ==
    ASSUME NEW m, NEW b
    PROVE  IsFiniteSet(Entries(m, b)) /\ Before(m, b) \in Nat
<1>1. Entries(m, b) \in SUBSET PreCells
  BY DEF Entries
<1>2. IsFiniteSet(Entries(m, b))
  BY <1>1, PreCellsFinite, FS_Subset
<1> QED BY <1>2, FS_CardinalityType DEF Before

LEMMA BeforeNext ==
    ASSUME NEW m \in Cartridges, NEW b \in Bank
    PROVE  Before(m, b + 1) = Before(m, b) + EndOf(m, b)
<1> DEFINE n == EndOf(m, b)
           Q == {PreCell(b, i) : i \in 0 .. n - 1}
           f == [i \in 0 .. n - 1 |-> PreCell(b, i)]
<1>1. n \in Nat /\ n \in Slot /\ (\A i \in 0 .. n - 1 : i \in Slot)
  <2>1. n \in Slot
    BY BankEnds
  <2> QED BY <2>1, PreCellParts DEF Slot
<1>2. \A i \in Nat : Listed(m, b, i) <=> i < n
  BY BankEnds
<1> HIDE DEF n
<1>3. IsFiniteSet(Q) /\ Cardinality(Q) = n
  <2>1. f \in Bijection(0 .. n - 1, Q)
    <3>1. f \in [0 .. n - 1 -> Q]
      OBVIOUS
    <3>2. \A i, j \in 0 .. n - 1 : f[i] = f[j] => i = j
      BY DEF PreCell
    <3>3. \A x \in Q : \E i \in 0 .. n - 1 : f[i] = x
      OBVIOUS
    <3> HIDE DEF f, Q
    <3> QED BY <3>1, <3>2, <3>3 DEF Bijection, Injection, IsInjective, Surjection
  <2> HIDE DEF f, Q
  <2>2. ExistsBijection(0 .. n - 1, Q)
    BY <2>1 DEF ExistsBijection
  <2>3. 0 \in Int /\ n - 1 \in Int
    BY <1>1
  <2>4. IsFiniteSet(0 .. n - 1) /\ Cardinality(0 .. n - 1) = IF 0 > n - 1 THEN 0 ELSE (n - 1) - 0 + 1
    BY <2>3, FS_Interval
  <2>5. Cardinality(0 .. n - 1) = n
    BY <1>1, <2>4
  <2> QED BY <2>2, <2>4, <2>5, FS_Bijection
<1>4. Entries(m, b + 1) = Entries(m, b) \cup Q
  <2>1. ASSUME NEW e \in Entries(m, b + 1) PROVE e \in Entries(m, b) \cup Q
    <3>1. /\ e \in PreCells /\ e[2] \in Bank /\ e[3] \in Nat /\ e = PreCell(e[2], e[3])
          /\ e[2] < b + 1 /\ Listed(m, e[2], e[3])
      BY EntryParts
    <3>2. CASE e[2] = b
      <4>1. e[3] < n
        BY <1>2, <3>1, <3>2
      <4>2. e[3] \in 0 .. n - 1
        BY <1>1, <3>1, <4>1
      <4> QED BY <3>1, <3>2, <4>2
    <3>3. CASE e[2] # b
      <4>1. e[2] \in Nat /\ b \in Nat
        BY <3>1, PreCellParts
      <4>2. e[2] < b
        BY <3>1, <3>3, <4>1
      <4> QED BY <3>1, <4>2 DEF Entries
    <3> QED BY <3>2, <3>3
  <2>2. ASSUME NEW e \in Entries(m, b) PROVE e \in Entries(m, b + 1)
    <3>1. e \in PreCells /\ e[2] \in Nat /\ e[2] < b /\ Listed(m, e[2], e[3])
      BY EntryParts
    <3>2. e[2] < b + 1
      BY <3>1, PreCellParts
    <3> QED BY <3>1, <3>2 DEF Entries
  <2>3. ASSUME NEW i \in 0 .. n - 1 PROVE PreCell(b, i) \in Entries(m, b + 1)
    <3>1. i \in Slot /\ i \in Nat /\ i < n /\ b < b + 1
      BY <1>1, PreCellParts
    <3>2. /\ PreCell(b, i) \in PreCells
          /\ PreCell(b, i)[2] = b /\ PreCell(b, i)[3] = i
      BY <3>1, PreCellParts
    <3> QED BY <1>2, <3>1, <3>2 DEF Entries
  <2> QED BY <2>1, <2>2, <2>3
<1>5. Entries(m, b) \cap Q = {}
  BY <1>1, PreCellParts DEF Entries
<1> HIDE DEF Q
<1>6. IsFiniteSet(Entries(m, b)) /\ Before(m, b) \in Nat
  BY EntriesFinite
<1>7. Cardinality(Entries(m, b) \cup Q)
          = Cardinality(Entries(m, b)) + Cardinality(Q) - Cardinality(Entries(m, b) \cap Q)
  BY <1>3, <1>6, FS_Union
<1>8. Cardinality(Entries(m, b) \cap Q) = 0
  BY <1>5, FS_EmptySet
<1>9. Cardinality(Entries(m, b + 1)) = Cardinality(Entries(m, b)) + n
  <2>1. Cardinality(Entries(m, b)) \in Nat
    BY <1>6 DEF Before
  <2>2. Cardinality(Entries(m, b + 1)) = Cardinality(Entries(m, b)) + n - 0
    BY <1>3, <1>4, <1>7, <1>8
  <2> QED BY <1>1, <2>1, <2>2
<1> QED BY <1>9 DEF Before, n

LEMMA BeforeGrows ==
    ASSUME NEW m \in Cartridges, NEW b \in Bank, NEW d \in Nat, b < d
    PROVE  Before(m, b) + EndOf(m, b) <= Before(m, d)
<1>0. b \in Nat
  BY PreCellParts
<1>1. Entries(m, b + 1) \in SUBSET Entries(m, d)
  <2>1. ASSUME NEW e \in Entries(m, b + 1) PROVE e \in Entries(m, d)
    <3>1. /\ e \in PreCells /\ e[2] \in Nat /\ e[2] < b + 1
          /\ Listed(m, e[2], e[3])
      BY EntryParts
    <3>2. e[2] < d
      BY <1>0, <3>1
    <3> QED BY <3>1, <3>2 DEF Entries
  <2> QED BY <2>1
<1>2. IsFiniteSet(Entries(m, d))
  BY EntriesFinite
<1>3. Before(m, b + 1) <= Before(m, d)
  BY <1>1, <1>2, FS_Subset DEF Before
<1> QED BY <1>3, BeforeNext

LEMMA NoneBeforeFirst ==
    ASSUME NEW m
    PROVE  Before(m, 0) = 0
<1>1. Entries(m, 0) = {}
  <2>1. ASSUME NEW e \in Entries(m, 0) PROVE FALSE
    <3>1. e[2] \in Nat /\ e[2] < 0
      BY EntryParts
    <3> QED BY <3>1
  <2> QED BY <2>1
<1> QED BY <1>1, FS_EmptySet DEF Before

\* A preamble has room for one more entry.
LEMMA RoomInPreambles ==
    ASSUME NEW m \in Cartridges
    PROVE  Before(m, NBANKS) < NBANKS * SLOTS
<1>1. Entries(m, NBANKS) \in SUBSET PreCells
  BY DEF Entries
<1>2. 0 \in Bank
  BY PreCellParts DEF Bank
<1>3. EndOf(m, 0) \in Slot /\ ~ Listed(m, 0, EndOf(m, 0))
  <2>1. EndOf(m, 0) \in Slot /\ (Listed(m, 0, EndOf(m, 0)) <=> EndOf(m, 0) < EndOf(m, 0))
    BY <1>2, BankEnds, PreCellParts
  <2>2. EndOf(m, 0) \in Nat
    BY <2>1, PreCellParts
  <2> QED BY <2>1, <2>2
<1>4. PreCell(0, EndOf(m, 0)) \in PreCells \ Entries(m, NBANKS)
  BY <1>2, <1>3, PreCellParts DEF Entries
<1>5. /\ Before(m, NBANKS) <= Cardinality(PreCells)
      /\ Before(m, NBANKS) # Cardinality(PreCells)
  BY <1>1, <1>4, PreCellsFinite, FS_Subset DEF Before
<1> QED BY <1>5, PreCellsFinite, EntriesFinite

-----------------------------------------------------------------------------
(***************************************************************************)
(* The directory.                                                          *)
(***************************************************************************)
AllOf(m) == {e \in Bank \X Slot : Listed(m, e[1], e[2])}
EntryAt(m, n) == CHOOSE e \in AllOf(m) : Before(m, e[1]) + e[2] + 1 = n

LEMMA DirectoryIs ==
    Directory = [n \in 1 .. Cardinality(AllOf(rom)) |->
                    Loc(EntryAt(rom, n)[1],
                        rom[PreCell(EntryAt(rom, n)[1], EntryAt(rom, n)[2])])]
BY DEF Directory, AllOf, EntryAt, Before, Entries

LEMMA AllCount ==
    ASSUME NEW m
    PROVE  Cardinality(AllOf(m)) = Before(m, NBANKS)
<1> DEFINE S == Entries(m, NBANKS)
           f == [e \in S |-> <<e[2], e[3]>>]
<1>1. \A e \in S : /\ e = PreCell(e[2], e[3]) /\ e[2] \in Bank /\ e[3] \in Slot
                   /\ Listed(m, e[2], e[3])
  BY EntryParts
<1>2. \A a \in AllOf(m) : /\ PreCell(a[1], a[2]) \in S /\ a = <<a[1], a[2]>>
                          /\ PreCell(a[1], a[2])[2] = a[1]
                          /\ PreCell(a[1], a[2])[3] = a[2]
  <2>1. ASSUME NEW a \in AllOf(m)
        PROVE  /\ PreCell(a[1], a[2]) \in S /\ a = <<a[1], a[2]>>
               /\ PreCell(a[1], a[2])[2] = a[1]
               /\ PreCell(a[1], a[2])[3] = a[2]
    <3>1. a[1] \in Bank /\ a[2] \in Slot /\ Listed(m, a[1], a[2]) /\ a = <<a[1], a[2]>>
      BY DEF AllOf
    <3>2. a[1] < NBANKS
      BY <3>1, PreCellParts DEF Bank
    <3>3. /\ PreCell(a[1], a[2]) \in PreCells
          /\ PreCell(a[1], a[2])[2] = a[1] /\ PreCell(a[1], a[2])[3] = a[2]
      BY <3>1, PreCellParts
    <3> QED BY <3>1, <3>2, <3>3 DEF Entries
  <2> QED BY <2>1
<1> HIDE DEF S
<1>3. f \in [S -> AllOf(m)]
  BY <1>1 DEF AllOf
<1>4. \A e, d \in S : f[e] = f[d] => e = d
  <2>1. ASSUME NEW e \in S, NEW d \in S, f[e] = f[d] PROVE e = d
    <3>1. e[2] = d[2] /\ e[3] = d[3]
      BY <2>1
    <3> QED BY <1>1, <3>1
  <2> QED BY <2>1
<1>5. \A a \in AllOf(m) : \E e \in S : f[e] = a
  <2>1. ASSUME NEW a \in AllOf(m) PROVE \E e \in S : f[e] = a
    <3>1. PreCell(a[1], a[2]) \in S /\ f[PreCell(a[1], a[2])] = a
      BY <1>2
    <3> QED BY <3>1
  <2> QED BY <2>1
<1> HIDE DEF f
<1>6. f \in Bijection(S, AllOf(m))
  BY <1>3, <1>4, <1>5 DEF Bijection, Injection, IsInjective, Surjection
<1>7. IsFiniteSet(S)
  BY EntriesFinite DEF S
<1>8. ExistsBijection(S, AllOf(m))
  BY <1>6 DEF ExistsBijection
<1> QED BY <1>7, <1>8, FS_Bijection DEF Before, S

LEMMA DirectoryLength ==
    /\ Len(Directory) = Before(rom, NBANKS) /\ Len(Directory) \in Nat
    /\ DOMAIN Directory = 1 .. Len(Directory)
<1>1. Cardinality(AllOf(rom)) \in Nat /\ Cardinality(AllOf(rom)) = Before(rom, NBANKS)
  BY AllCount, EntriesFinite
<1> QED BY <1>1, DirectoryIs

\* Where the i-th entry of a preamble is in the directory.
LEMMA DirectoryAt ==
    ASSUME rom \in Cartridges, NEW b \in Bank, NEW i \in Nat, i < EndOf(rom, b)
    PROVE  /\ Before(rom, b) + i + 1 \in 1 .. Len(Directory)
           /\ Directory[Before(rom, b) + i + 1] = Loc(b, rom[PreCell(b, i)])
<1> DEFINE n == Before(rom, b) + i + 1
<1>0. /\ Before(rom, b) \in Nat /\ b \in Nat /\ b < NBANKS /\ NBANKS \in Nat
      /\ EndOf(rom, b) \in Slot /\ EndOf(rom, b) \in Nat
  <2>1. NBANKS \in Nat
    BY PreCellParts
  <2> QED BY <2>1, BankEnds, EndNumber, EntriesFinite, BankNumber
<1>1. Before(rom, b) + EndOf(rom, b) <= Before(rom, NBANKS)
  BY <1>0, BeforeGrows
<1>2. n \in 1 .. Len(Directory)
  BY <1>0, <1>1, DirectoryLength
<1>3. <<b, i>> \in AllOf(rom)
  <2>1. i \in Slot
    BY <1>0, PreCellParts DEF Slot
  <2>2. Listed(rom, b, i)
    BY BankEnds
  <2> QED BY <2>1, <2>2 DEF AllOf
<1>4. ASSUME NEW e \in AllOf(rom), Before(rom, e[1]) + e[2] + 1 = n
      PROVE  e = <<b, i>>
  <2>0. e[1] \in Bank /\ e[2] \in Slot /\ Listed(rom, e[1], e[2]) /\ e = <<e[1], e[2]>>
    BY DEF AllOf
  <2>1. e[1] \in Bank /\ e[2] \in Nat /\ Listed(rom, e[1], e[2]) /\ e = <<e[1], e[2]>>
    BY <2>0, PreCellParts
  <2>2. e[2] < EndOf(rom, e[1]) /\ Before(rom, e[1]) \in Nat /\ EndOf(rom, e[1]) \in Nat
        /\ e[1] \in Nat
    BY <2>1, BankEnds, EndNumber, BankNumber, EntriesFinite
  <2>3. ~(e[1] < b)
    <3>1. SUFFICES ASSUME e[1] < b PROVE FALSE
      OBVIOUS
    <3>2. Before(rom, e[1]) + EndOf(rom, e[1]) <= Before(rom, b)
      BY <1>0, <2>1, <3>1, BeforeGrows
    <3> QED BY <1>0, <1>4, <2>1, <2>2, <3>2
  <2>4. ~(b < e[1])
    <3>1. SUFFICES ASSUME b < e[1] PROVE FALSE
      OBVIOUS
    <3>2. Before(rom, b) + EndOf(rom, b) <= Before(rom, e[1])
      BY <1>0, <2>2, <3>1, BeforeGrows
    <3> QED BY <1>0, <1>4, <2>1, <2>2, <3>2
  <2>5. e[1] = b
    BY <1>0, <2>2, <2>3, <2>4
  <2>6. e[2] = i
    BY <1>0, <1>4, <2>1, <2>5
  <2> QED BY <2>1, <2>5, <2>6
<1>5. Before(rom, <<b, i>>[1]) + <<b, i>>[2] + 1 = n
  OBVIOUS
<1> HIDE DEF n
<1>6. EntryAt(rom, n) = <<b, i>>
  BY <1>3, <1>4, <1>5 DEF EntryAt
<1>7. n \in 1 .. Cardinality(AllOf(rom))
  BY <1>2, AllCount, DirectoryLength
<1>8. Directory[n] = Loc(b, rom[PreCell(b, i)])
  BY <1>6, <1>7, DirectoryIs
<1> QED BY <1>2, <1>8 DEF n

\* An entry that is listed names a block.
LEMMA EntryNamesBlock ==
    ASSUME NEW m \in Cartridges, NEW b \in Bank, NEW i \in Nat, i < EndOf(m, b)
    PROVE  m[PreCell(b, i)] \in Block /\ m[PreCell(b, i)] # ERASED
<1>1. i \in Slot /\ m[PreCell(b, i)] # ERASED
  <2>1. EndOf(m, b) \in Slot
    BY BankEnds
  <2> QED BY <2>1, BankEnds, PreCellParts DEF Slot
<1>2. PreCell(b, i) \in Cell /\ PreCell(b, i)[1] = "pre"
  BY <1>1, PreCellParts DEF Cell, PreCell
<1>3. m \in Memory
  BY LauncherAssumption
<1>4. m[PreCell(b, i)] \in ValuesOf("pre")
  BY <1>2, <1>3, MemoryValue
<1> QED BY <1>1, <1>4 DEF ValuesOf

-----------------------------------------------------------------------------
(***************************************************************************)
(* The searches: the loop of Seek goes through the directory in order.     *)
(***************************************************************************)
Round(n, c) == IF c.n < n /\ c.bank < NBANKS THEN ReadEntry(c) ELSE c

\* Where the loop is when it has seen c.n of the n programs it is to see.
Stand(c, n) ==
    /\ c \in [bank : 0 .. NBANKS, addr : Nat, n : Nat, at : Locs \cup {NoLoc}]
    /\ c.bank < NBANKS => c.addr <= EndOf(rom, c.bank)
    /\ c.bank = NBANKS => c.addr = 0
    /\ c.n = Before(rom, c.bank) + c.addr
    /\ c.n <= n
    /\ c.n > 0 => c.at = Directory[c.n] /\ c.at \in Locs

\* After k rounds it is done, or has read k entries.
Far(c, n, k) == c.n = n \/ c.bank = NBANKS \/ k <= c.bank * SLOTS + c.addr

\* What the loop goes through, as a record.
At(b, a, i, l) == [bank |-> b, addr |-> a, n |-> i, at |-> l]

LEMMA NextBank ==
    ASSUME NEW c \in [bank : Nat, addr : Nat, n : Nat, at : Nat],
           NEW d, d = [c EXCEPT !.bank = @ + 1, !.addr = 0]
    PROVE  d = At(c.bank + 1, 0, c.n, c.at)
BY DEF At

LEMMA NextEntry ==
    ASSUME NEW c \in [bank : Nat, addr : Nat, n : Nat, at : Nat], NEW l \in Nat,
           NEW d, d = [c EXCEPT !.addr = @ + 1, !.n = @ + 1, !.at = l]
    PROVE  d = At(c.bank, c.addr + 1, c.n + 1, l)
BY DEF At

LEMMA ReadEntryIs ==
    ASSUME NEW b \in Bank, NEW a \in Nat, NEW i \in Nat, NEW l \in Locs \cup {NoLoc},
           rom[PreCell(b, a)] \in Block \cup {ERASED}
    PROVE  ReadEntry(At(b, a, i, l)) =
              IF rom[PreCell(b, a)] = ERASED THEN At(b + 1, 0, i, l)
              ELSE At(b, a + 1, i + 1, Loc(b, rom[PreCell(b, a)]))
<1> DEFINE c == At(b, a, i, l)
           e == rom[PreCell(b, a)]
<1>1. b \in Nat /\ l \in Nat
  BY BankNumber, LocParts DEF NoLoc, ERASED
<1>2. /\ c \in [bank : Nat, addr : Nat, n : Nat, at : Nat]
      /\ c.bank = b /\ c.addr = a /\ c.n = i /\ c.at = l
  BY <1>1 DEF At
<1> HIDE DEF c
<1>3. CASE e = ERASED
  <2>1. ReadEntry(c) = [c EXCEPT !.bank = @ + 1, !.addr = 0]
    BY <1>2, <1>3 DEF ReadEntry
  <2>2. ReadEntry(c) = At(b + 1, 0, i, l)
    BY <1>2, <2>1, NextBank
  <2> QED BY <1>3, <2>2 DEF c
<1>4. CASE e # ERASED
  <2>1. Loc(b, e) \in Nat
    BY <1>4, LocSplit
  <2>2. ReadEntry(c) = [c EXCEPT !.addr = @ + 1, !.n = @ + 1, !.at = Loc(b, e)]
    BY <1>2, <1>4 DEF ReadEntry
  <2>3. ReadEntry(c) = At(b, a + 1, i + 1, Loc(b, e))
    <3> HIDE DEF e
    <3> QED BY <1>2, <2>1, <2>2, NextEntry
  <2> QED BY <1>4, <2>3 DEF c
<1> QED BY <1>3, <1>4

LEMMA StandParts ==
    ASSUME NEW c, NEW n, Stand(c, n)
    PROVE  \E b \in 0 .. NBANKS, a \in Nat, i \in Nat, l \in Locs \cup {NoLoc} :
              /\ c = At(b, a, i, l)
              /\ c.bank = b /\ c.addr = a /\ c.n = i /\ c.at = l
              /\ b < NBANKS => a <= EndOf(rom, b)
              /\ b = NBANKS => a = 0
              /\ i = Before(rom, b) + a
              /\ i <= n
              /\ i > 0 => l = Directory[i] /\ l \in Locs
<1>1. PICK b \in 0 .. NBANKS, a \in Nat, i \in Nat, l \in Locs \cup {NoLoc} :
         c = [bank |-> b, addr |-> a, n |-> i, at |-> l]
  BY DEF Stand
<1>2. c = At(b, a, i, l) /\ c.bank = b /\ c.addr = a /\ c.n = i /\ c.at = l
  BY <1>1 DEF At
<1>3. /\ b < NBANKS => a <= EndOf(rom, b)
      /\ b = NBANKS => a = 0
      /\ i = Before(rom, b) + a
      /\ i <= n
      /\ i > 0 => l = Directory[i] /\ l \in Locs
  BY <1>2 DEF Stand
<1> QED BY <1>2, <1>3

LEMMA RoundKeeps ==
    ASSUME rom \in Cartridges, NEW n \in Nat, NEW c, NEW k \in Nat \ {0},
           Stand(c, n), Far(c, n, k - 1)
    PROVE  Stand(Round(n, c), n) /\ Far(Round(n, c), n, k)
<1>0. NBANKS \in Nat /\ SLOTS \in Nat
  BY PreCellParts
<1>1. PICK b \in 0 .. NBANKS, a \in Nat, i \in Nat, l \in Locs \cup {NoLoc} :
         /\ c = At(b, a, i, l)
         /\ c.bank = b /\ c.addr = a /\ c.n = i /\ c.at = l
         /\ b < NBANKS => a <= EndOf(rom, b)
         /\ b = NBANKS => a = 0
         /\ i = Before(rom, b) + a
         /\ i <= n
         /\ i > 0 => l = Directory[i] /\ l \in Locs
  BY StandParts
<1>2. CASE ~(i < n /\ b < NBANKS)
  <2>1. Round(n, c) = c
    BY <1>1, <1>2 DEF Round
  <2>2. Far(c, n, k)
    BY <1>0, <1>1, <1>2 DEF Far, Stand
  <2> QED BY <2>1, <2>2
<1>3. CASE i < n /\ b < NBANKS
  <2> DEFINE e == rom[PreCell(b, a)]
  <2>1. b \in Bank /\ b \in Nat /\ a <= EndOf(rom, b) /\ i = Before(rom, b) + a
    BY <1>0, <1>1, <1>3 DEF Stand, Bank
  <2>2. k - 1 <= b * SLOTS + a
    BY <1>0, <1>1, <1>3 DEF Far
  <2>3. EndOf(rom, b) \in Nat /\ EndOf(rom, b) < SLOTS /\ Before(rom, b) \in Nat
        /\ b * SLOTS \in Nat
    BY <1>0, <2>1, EndNumber, EntriesFinite
  <2>4. Round(n, c) = IF e = ERASED THEN At(b + 1, 0, i, l)
                      ELSE At(b, a + 1, i + 1, Loc(b, e))
    <3>1. Round(n, c) = ReadEntry(c)
      BY <1>1, <1>3 DEF Round
    <3>2. rom[PreCell(b, a)] \in Block \cup {ERASED}
      <4>1. CASE a < EndOf(rom, b)
        BY <2>1, <4>1, EntryNamesBlock
      <4>2. CASE a = EndOf(rom, b)
        BY <2>1, <4>2, BankEnds
      <4> QED BY <2>1, <2>3, <4>1, <4>2
    <3> QED BY <1>1, <2>1, <3>1, <3>2, ReadEntryIs DEF e
  <2>5. i > 0 => l = Directory[i] /\ l \in Locs
    BY <1>1 DEF Stand
  <2> HIDE DEF e
  <2>6. CASE e = ERASED
    <3>1. a = EndOf(rom, b)
      <4>1. ~(a < EndOf(rom, b))
        BY <2>1, <2>6, EntryNamesBlock DEF e
      <4> QED BY <2>1, <2>3, <4>1
    <3>2. i = Before(rom, b + 1)
      BY <2>1, <3>1, BeforeNext
    <3> DEFINE d == At(b + 1, 0, i, l)
    <3>3. /\ d.bank = b + 1 /\ d.addr = 0 /\ d.n = i /\ d.at = l
          /\ d \in [bank : 0 .. NBANKS, addr : Nat, n : Nat, at : Locs \cup {NoLoc}]
      BY <1>0, <1>1, <1>3 DEF At
    <3>4. Round(n, c) = d
      BY <2>4, <2>6
    <3> HIDE DEF d
    <3>5. b + 1 < NBANKS => 0 <= EndOf(rom, b + 1)
      <4>1. SUFFICES ASSUME b + 1 < NBANKS PROVE 0 <= EndOf(rom, b + 1)
        OBVIOUS
      <4>2. b + 1 \in Bank
        BY <1>0, <2>1, <4>1 DEF Bank
      <4> QED BY <4>2, EndNumber
    <3>6. i = Before(rom, b + 1) + 0 /\ i <= n
      BY <1>1, <1>3, <3>2
    <3>7. Stand(d, n)
      BY <2>5, <3>3, <3>5, <3>6 DEF Stand
    <3>8. k <= (b + 1) * SLOTS + 0
      <4>1. (b + 1) * SLOTS = b * SLOTS + SLOTS
        BY <1>0, <2>1
      <4> QED BY <1>0, <2>2, <2>3, <3>1, <4>1
    <3>9. Far(d, n, k)
      BY <3>3, <3>8 DEF Far
    <3> QED BY <3>4, <3>7, <3>9
  <2>7. CASE e # ERASED
    <3>1. a < EndOf(rom, b)
      <4>1. a # EndOf(rom, b)
        BY <2>1, <2>7, BankEnds DEF e
      <4> QED BY <2>1, <2>3, <4>1
    <3>2. Loc(b, e) \in Locs
      BY <2>1, <3>1, EntryNamesBlock, LocSplit DEF e
    <3>3. Directory[i + 1] = Loc(b, e)
      <4>1. i + 1 = Before(rom, b) + a + 1
        BY <2>1
      <4> QED BY <2>1, <3>1, <4>1, DirectoryAt DEF e
    <3> DEFINE d == At(b, a + 1, i + 1, Loc(b, e))
    <3>4. /\ d.bank = b /\ d.addr = a + 1 /\ d.n = i + 1 /\ d.at = Loc(b, e)
          /\ d \in [bank : 0 .. NBANKS, addr : Nat, n : Nat, at : Locs \cup {NoLoc}]
      BY <1>0, <1>1, <1>3, <3>2 DEF At
    <3>5. Round(n, c) = d
      BY <2>4, <2>7
    <3> HIDE DEF d
    <3>6. /\ i + 1 = Before(rom, b) + (a + 1) /\ i + 1 <= n
          /\ a + 1 <= EndOf(rom, b)
      BY <1>1, <1>3, <2>1, <2>3, <3>1
    <3>7. Stand(d, n)
      BY <1>0, <1>3, <3>2, <3>3, <3>4, <3>6 DEF Stand
    <3>8. k <= b * SLOTS + (a + 1)
      BY <2>2, <2>3
    <3>9. Far(d, n, k)
      BY <3>4, <3>8 DEF Far
    <3> QED BY <3>5, <3>7, <3>9
  <2> QED BY <2>6, <2>7
<1> QED BY <1>2, <1>3

StartOfSeek == [bank |-> 0, addr |-> 0, n |-> 0, at |-> NoLoc]

LEMMA SeekStarts ==
    ASSUME rom \in Cartridges, NEW n \in Nat
    PROVE  Stand(StartOfSeek, n) /\ Far(StartOfSeek, n, 0)
<1>1. NBANKS \in Nat \ {0} /\ SLOTS \in Nat
  BY PreCellParts
<1>2. 0 \in Bank /\ 0 <= EndOf(rom, 0)
  <2>1. 0 \in Bank
    BY <1>1 DEF Bank
  <2> QED BY <2>1, EndNumber
<1>3. StartOfSeek.bank = 0 /\ StartOfSeek.addr = 0 /\ StartOfSeek.n = 0
      /\ StartOfSeek \in [bank : 0 .. NBANKS, addr : Nat, n : Nat, at : Locs \cup {NoLoc}]
  BY <1>1 DEF StartOfSeek
<1>4. Stand(StartOfSeek, n)
  BY <1>1, <1>2, <1>3, NoneBeforeFirst DEF Stand
<1>5. 0 <= 0 * SLOTS + 0
  BY <1>1
<1>6. Far(StartOfSeek, n, 0)
  BY <1>3, <1>5 DEF Far
<1> QED BY <1>4, <1>6

LEMMA SeekShape ==
    ASSUME rom \in Cartridges, NEW n \in Nat
    PROVE  Stand(Seek(n), n) /\ Far(Seek(n), n, NBANKS * SLOTS)
<1> DEFINE N == NBANKS * SLOTS
           Loop(f, m) == f = [k \in 0 .. m |-> IF k = 0 THEN StartOfSeek
                                               ELSE Round(n, f[k - 1])]
<1>0. N \in Nat
  BY PreCellsFinite
<1> HIDE DEF N
<1>1. ASSUME NEW f, Loop(f, N)
      PROVE  Stand(f[N], n) /\ Far(f[N], n, N)
  <2> DEFINE Bad == {k \in 0 .. N : ~ (Stand(f[k], n) /\ Far(f[k], n, k))}
  <2>1. SUFFICES ASSUME Bad # {} PROVE FALSE
    BY <1>0
  <2>2. PICK k \in Bad : \A j \in Bad : k <= j
    <3>1. Bad \in SUBSET Nat
      BY <1>0
    <3> HIDE DEF Bad
    <3> QED BY <2>1, <3>1, LeastNumber
  <2>3. CASE k = 0
    <3>1. f[0] = StartOfSeek
      BY <1>0, <1>1
    <3> QED BY <2>2, <2>3, <3>1, SeekStarts
  <2>4. CASE k # 0
    <3>1. k \in Nat \ {0} /\ k - 1 \in 0 .. N /\ k \in 0 .. N
      BY <1>0, <2>2, <2>4
    <3>2. Stand(f[k - 1], n) /\ Far(f[k - 1], n, k - 1)
      BY <2>2, <3>1
    <3>3. f[k] = Round(n, f[k - 1])
      BY <1>1, <2>4, <3>1
    <3>4. Stand(f[k], n) /\ Far(f[k], n, k)
      BY <3>1, <3>2, <3>3, RoundKeeps
    <3> QED BY <2>2, <3>4
  <2> QED BY <2>3, <2>4
<1>2. \E f : Loop(f, N)
  <2> DEFINE Bad == {k \in 0 .. N : ~ \E f : Loop(f, k)}
  <2>1. SUFFICES ASSUME Bad # {} PROVE FALSE
    BY <1>0
  <2>2. PICK k \in Bad : \A j \in Bad : k <= j
    <3>1. Bad \in SUBSET Nat
      BY <1>0
    <3> HIDE DEF Bad
    <3> QED BY <2>1, <3>1, LeastNumber
  <2>3. CASE k = 0
    <3> DEFINE g == [j \in 0 .. 0 |-> StartOfSeek]
    <3>1. Loop(g, 0)
      OBVIOUS
    <3> HIDE DEF g
    <3> QED BY <2>2, <2>3, <3>1
  <2>4. CASE k # 0
    <3>1. k - 1 \in 0 .. N /\ k \in Nat \ {0}
      BY <1>0, <2>2, <2>4
    <3>2. k - 1 \notin Bad
      <4> HIDE DEF Bad
      <4> QED BY <2>2, <3>1
    <3>3. PICK f : Loop(f, k - 1)
      <4> HIDE DEF Loop
      <4> QED BY <3>1, <3>2
    <3> DEFINE g == [j \in 0 .. k |-> IF j = k THEN Round(n, f[k - 1]) ELSE f[j]]
    <3>4. Loop(g, k)
      <4>1. \A j \in 0 .. k : g[j] = IF j = 0 THEN StartOfSeek ELSE Round(n, g[j - 1])
        BY <3>1, <3>3
      <4>2. g = [j \in 0 .. k |-> g[j]]
        OBVIOUS
      <4> HIDE DEF g
      <4> QED BY <4>1, <4>2
    <3> HIDE DEF g
    <3> QED BY <2>2, <3>4
  <2> QED BY <2>3, <2>4
<1> DEFINE F == CHOOSE f : Loop(f, N)
<1>3. Loop(F, N)
  <2> HIDE DEF Loop
  <2> QED BY <1>2
<1>4. Seek(n) = F[N]
  BY DEF Seek, Round, StartOfSeek, N
<1> HIDE DEF F
<1>5. Stand(F[N], n) /\ Far(F[N], n, N)
  BY <1>1, <1>3
<1> QED BY <1>4, <1>5 DEF N

\* After all its rounds the loop has seen n programs, or has been to every bank.
LEMMA SeekEnds ==
    ASSUME rom \in Cartridges, NEW n \in Nat
    PROVE  \/ Seek(n).n = n
           \/ Seek(n).n = Len(Directory)
<1>0. NBANKS \in Nat /\ SLOTS \in Nat
  BY PreCellParts
<1>1. PICK b \in 0 .. NBANKS, a \in Nat, i \in Nat, l \in Locs \cup {NoLoc} :
         /\ Seek(n) = At(b, a, i, l)
         /\ Seek(n).bank = b /\ Seek(n).addr = a
         /\ Seek(n).n = i /\ Seek(n).at = l
         /\ b < NBANKS => a <= EndOf(rom, b)
         /\ b = NBANKS => a = 0
         /\ i = Before(rom, b) + a
         /\ i <= n
         /\ i > 0 => l = Directory[i] /\ l \in Locs
  <2>1. Stand(Seek(n), n)
    BY SeekShape
  <2> QED BY <2>1, StandParts
<1>2. i = n \/ b = NBANKS \/ NBANKS * SLOTS <= b * SLOTS + a
  BY <1>1, SeekShape DEF Far
<1>3. CASE b = NBANKS
  <2>1. i = Before(rom, NBANKS) + 0 /\ Before(rom, NBANKS) \in Nat
    BY <1>1, <1>3, EntriesFinite
  <2> QED BY <1>1, <2>1, DirectoryLength
<1>4. CASE b # NBANKS
  <2>1. b \in Bank /\ b \in Nat /\ b + 1 <= NBANKS
    BY <1>0, <1>4 DEF Bank
  <2>2. a < SLOTS
    BY <1>0, <1>1, <2>1, EndNumber
  <2>3. (b + 1) * SLOTS <= NBANKS * SLOTS
    BY <1>0, <2>1
  <2>4. (b + 1) * SLOTS = b * SLOTS + SLOTS /\ b * SLOTS \in Nat /\ NBANKS * SLOTS \in Nat
    BY <1>0, <2>1
  <2>5. ~(NBANKS * SLOTS <= b * SLOTS + a)
    BY <1>0, <2>2, <2>3, <2>4
  <2> QED BY <1>1, <1>2, <1>4, <2>5
<1> QED BY <1>3, <1>4

LEMMA ProgramsCounted ==
    ASSUME rom \in Cartridges
    PROVE  get_number_programs = Len(Directory)
<1>1. /\ NBANKS * SLOTS \in Nat /\ Len(Directory) \in Nat
      /\ Len(Directory) < NBANKS * SLOTS
  BY PreCellsFinite, RoomInPreambles, DirectoryLength
<1>2. PICK b \in 0 .. NBANKS, a \in Nat, i \in Nat, l \in Locs \cup {NoLoc} :
         /\ Seek(NBANKS * SLOTS) = At(b, a, i, l)
         /\ Seek(NBANKS * SLOTS).bank = b /\ Seek(NBANKS * SLOTS).addr = a
         /\ Seek(NBANKS * SLOTS).n = i /\ Seek(NBANKS * SLOTS).at = l
         /\ b < NBANKS => a <= EndOf(rom, b)
         /\ b = NBANKS => a = 0
         /\ i = Before(rom, b) + a
         /\ i <= NBANKS * SLOTS
         /\ i > 0 => l = Directory[i] /\ l \in Locs
  <2>1. Stand(Seek(NBANKS * SLOTS), NBANKS * SLOTS)
    BY <1>1, SeekShape
  <2> QED BY <2>1, StandParts
<1>3. i <= Len(Directory)
  <2>2. CASE b = NBANKS
    BY <1>1, <1>2, <2>2, DirectoryLength
  <2>3. CASE b # NBANKS
    <3>1. b \in Bank /\ NBANKS \in Nat /\ b < NBANKS
      BY <2>3, PreCellParts DEF Bank
    <3>2. Before(rom, b) + EndOf(rom, b) <= Before(rom, NBANKS)
      BY <3>1, BeforeGrows
    <3>3. Before(rom, b) \in Nat /\ EndOf(rom, b) \in Nat
      BY <3>1, EntriesFinite, EndNumber
    <3> QED BY <1>1, <1>2, <3>1, <3>2, <3>3, DirectoryLength
  <2> QED BY <2>2, <2>3
<1>4. i = NBANKS * SLOTS \/ i = Len(Directory)
  BY <1>1, <1>2, SeekEnds
<1> QED BY <1>1, <1>2, <1>3, <1>4 DEF get_number_programs

LEMMA ProgramFound ==
    ASSUME rom \in Cartridges, NEW n \in 1 .. Len(Directory)
    PROVE  find_bankblock(n) = Directory[n] /\ Directory[n] \in Locs
<1>1. n \in Nat /\ n > 0 /\ n <= Len(Directory) /\ Len(Directory) \in Nat
  BY DirectoryLength
<1>2. PICK b \in 0 .. NBANKS, a \in Nat, i \in Nat, l \in Locs \cup {NoLoc} :
         /\ Seek(n) = At(b, a, i, l)
         /\ Seek(n).bank = b /\ Seek(n).addr = a
         /\ Seek(n).n = i /\ Seek(n).at = l
         /\ b < NBANKS => a <= EndOf(rom, b)
         /\ b = NBANKS => a = 0
         /\ i = Before(rom, b) + a
         /\ i <= n
         /\ i > 0 => l = Directory[i] /\ l \in Locs
  <2>1. Stand(Seek(n), n)
    BY <1>1, SeekShape
  <2> QED BY <2>1, StandParts
<1>4. i = n \/ i = Len(Directory)
  BY <1>1, <1>2, SeekEnds
<1>5. i = n
  BY <1>1, <1>2, <1>4
<1> QED BY <1>1, <1>2, <1>5 DEF find_bankblock

-----------------------------------------------------------------------------
(***************************************************************************)
(* The initial states, and a page shown.                                   *)
(***************************************************************************)
LEMMA StartedTyped ==
    /\ Started \in Main /\ Len(Started.typed) <= MAXDIGITS
    /\ DOMAIN Cold = Writable
    /\ NothingOut \in [deploy : Address, size : Address]
    /\ Dark \in [first : Nat, rows : Seq(Locs), green : Seq(BOOLEAN)]
<1>1. MAXDIGITS \in Nat /\ 0 \in Address /\ <<>> \in Seq(0 .. 9) /\ <<>> \in Seq(Locs)
      /\ <<>> \in Seq(BOOLEAN) /\ Len(<<>>) = 0
  BY LauncherAssumption, MemoryAssumption DEF Address
<1>2. Started \in Main /\ Started.typed = <<>>
  BY <1>1 DEF Started, Main
<1> QED BY <1>1, <1>2 DEF Cold, inject, NothingOut, Dark

RamTyped(r) == /\ r \in [0 .. AREAS - 1 -> Area]
               /\ \A a \in 0 .. AREAS - 1 : r[a].kind = "page" => a = LIST_AREA

LEMMA AreasInOrder ==
    /\ LIST_AREA \in Nat /\ LINK_AREA \in Nat /\ AREAS \in Nat \ {0}
    /\ LIST_AREA < LINK_AREA /\ LINK_AREA < AREAS
    /\ LIST_AREA \in 0 .. AREAS - 1
BY LauncherAssumption

LEMMA SomeRamTyped ==
    ASSUME NEW r \in SomeRam
    PROVE  RamTyped(r)
<1>1. PICK w \in Noise : r = [a \in 0 .. AREAS - 1 |-> WordArea(w)]
  BY DEF SomeRam
<1>2. WordArea(w) \in Area /\ WordArea(w).kind = "word"
  BY LauncherAssumption DEF WordArea, Area
<1>3. \A a \in 0 .. AREAS - 1 : r[a] = WordArea(w)
  BY <1>1
<1> QED BY <1>1, <1>2, <1>3 DEF RamTyped

\* What read_programs_offset shows of a page that fits.
LEMMA PageShown ==
    ASSUME rom \in Cartridges, NEW offset \in Nat, Fits(offset), RamTyped(ram),
           ShowPage(offset)
    PROVE  /\ RamTyped(ram')
           /\ screen' \in [first : Nat, rows : Seq(Locs), green : Seq(BOOLEAN)]
           /\ screen'.first = offset
           /\ screen'.rows = [i \in 1 .. Len(screen'.rows) |-> Directory[offset + i]]
           /\ Len(screen'.rows) = IF Len(Directory) < PAGE THEN Len(Directory) ELSE PAGE
           /\ \A a \in 0 .. AREAS - 1 : a # LIST_AREA => ram'[a] = ram[a]
<1> DEFINE left == Len(Directory) - offset
           n    == IF left < PAGE THEN left ELSE PAGE
           rows == [i \in 1 .. n |-> Directory[offset + i]]
<1>1. PAGE \in Nat /\ Len(Directory) \in Nat
  BY LauncherAssumption, DirectoryLength
<1>2. n \in Nat /\ offset + n <= Len(Directory)
      /\ n = IF Len(Directory) < PAGE THEN Len(Directory) ELSE PAGE
  BY <1>1 DEF Fits
<1>3. /\ ram' = [ram EXCEPT ![LIST_AREA] = PageArea(ProgramsFrom(offset, n))]
      /\ screen' = [first |-> offset, rows |-> ProgramsFrom(offset, n), green |-> <<>>]
  BY ProgramsCounted DEF ShowPage
<1> HIDE DEF n
<1>4. \A i \in 1 .. n : /\ find_bankblock(offset + i) = Directory[offset + i]
                        /\ Directory[offset + i] \in Locs
  <2>1. ASSUME NEW i \in 1 .. n
        PROVE  /\ find_bankblock(offset + i) = Directory[offset + i]
               /\ Directory[offset + i] \in Locs
    <3>1. offset + i \in 1 .. Len(Directory)
      BY <1>1, <1>2
    <3> QED BY <3>1, ProgramFound
  <2> QED BY <2>1
<1>5. ProgramsFrom(offset, n) = rows
  BY <1>4 DEF ProgramsFrom
<1>6. rows \in Seq(Locs) /\ Len(rows) = n
  BY <1>2, <1>4
<1> HIDE DEF rows
<1>7. /\ ram' = [ram EXCEPT ![LIST_AREA] = PageArea(rows)]
      /\ screen' = [first |-> offset, rows |-> rows, green |-> <<>>]
  BY <1>3, <1>5
<1>8. PageArea(rows) \in Area /\ LIST_AREA \in 0 .. AREAS - 1
  BY <1>6, AreasInOrder DEF PageArea, Area
<1>9. RamTyped(ram') /\ \A a \in 0 .. AREAS - 1 : a # LIST_AREA => ram'[a] = ram[a]
  BY <1>7, <1>8 DEF RamTyped
<1>10. <<>> \in Seq(BOOLEAN)
  OBVIOUS
<1>11. /\ screen'.first = offset /\ screen'.rows = rows
       /\ screen' \in [first : Nat, rows : Seq(Locs), green : Seq(BOOLEAN)]
  BY <1>6, <1>7, <1>10
<1>12. rows = [i \in 1 .. Len(rows) |-> Directory[offset + i]]
  BY <1>6 DEF rows
<1>13. screen'.rows = [i \in 1 .. Len(screen'.rows) |-> Directory[offset + i]]
  BY <1>11, <1>12
<1>14. Len(screen'.rows) = IF Len(Directory) < PAGE THEN Len(Directory) ELSE PAGE
  BY <1>2, <1>6, <1>11
<1> QED BY <1>9, <1>11, <1>13, <1>14

LEMMA DirectoryKept ==
    ASSUME rom' = rom
    PROVE  Directory' = Directory
BY DEF Directory

\* The page on the screen is that from offset on.
RowsShown(offset) ==
    /\ screen'.first = offset
    /\ screen'.rows = [i \in 1 .. Len(screen'.rows) |-> Directory[offset + i]]
    /\ Len(screen'.rows) = IF Len(Directory) < PAGE THEN Len(Directory) ELSE PAGE

LEMMA ShownIsNumbered ==
    ASSUME rom' = rom, NEW offset, RowsShown(offset)
    PROVE  RowsAreNumbered'
<1>1. Directory' = Directory
  BY DirectoryKept
<1> QED BY <1>1 DEF RowsAreNumbered, RowsShown

LEMMA NumberedKept ==
    ASSUME RowsAreNumbered, rom' = rom, screen' = screen, AtMenu' => AtMenu
    PROVE  RowsAreNumbered'
<1>1. Directory' = Directory
  BY DirectoryKept
<1> QED BY <1>1 DEF RowsAreNumbered

\* The page that the next key shows fits too.
LEMMA NextPageFits ==
    ASSUME rom \in Cartridges, NEW offset \in Nat, Fits(offset),
           ~(get_number_programs <= PAGE)
    PROVE  /\ NextOffset(offset, get_number_programs) \in Nat
           /\ Fits(NextOffset(offset, get_number_programs))
           /\ PreviousOffset(offset) \in Nat
           /\ Fits(PreviousOffset(offset))
<1>1. PAGE \in Nat /\ Len(Directory) \in Nat /\ get_number_programs = Len(Directory)
  BY LauncherAssumption, DirectoryLength, ProgramsCounted
<1> QED BY <1>1 DEF Fits, NextOffset, PreviousOffset

LEMMA LauncherStarts == LauncherInit => LauncherIInv
<1> SUFFICES ASSUME LauncherInit PROVE LauncherIInv
  OBVIOUS
<1>1. main = Started /\ main.pc = "boot" /\ ~main.exit /\ mem = Cold
  BY DEF LauncherInit, Started
<1>2. LauncherTypeOK
  <2>1. ram \in SomeRam /\ rom \in Cartridges \cup {NoCartridge}
        /\ out = NothingOut /\ keys = <<>> /\ screen = Dark
    BY DEF LauncherInit, SomeRom
  <2>2. RamTyped(ram)
    BY <2>1, SomeRamTyped
  <2>3. keys \in Seq(Key) /\ Len(keys) <= KEYBUFFER
    BY <2>1, LauncherAssumption
  <2> QED BY <1>1, <2>1, <2>2, <2>3, StartedTyped DEF LauncherTypeOK, RamTyped
<1>3. SetUp /\ PageFits /\ RowsAreNumbered
  BY <1>1 DEF SetUp, PageFits, RowsAreNumbered, AtMenu
<1>4. LoadIInv /\ ReadyIInv /\ StartedIsAsked
  BY <1>1 DEF LoadIInv, Loading, ReadyIInv, StartedIsAsked
<1> QED BY <1>2, <1>3, <1>4 DEF LauncherIInv

-----------------------------------------------------------------------------
(***************************************************************************)
(* The types are kept.                                                     *)
(***************************************************************************)
MainTyped(mn) == mn \in Main /\ Len(mn.typed) <= MAXDIGITS
KeysTyped(k)  == k \in Seq(Key) /\ Len(k) <= KEYBUFFER
ScreenTyped(s) == s \in [first : Nat, rows : Seq(Locs), green : Seq(BOOLEAN)]
OutTyped(o) == o \in [deploy : Address, size : Address]

LEMMA TypeParts ==
    LauncherTypeOK = (/\ rom \in Cartridges \cup {NoCartridge}
                      /\ RamTyped(ram) /\ OutTyped(out) /\ DOMAIN mem = Writable
                      /\ KeysTyped(keys) /\ MainTyped(main) /\ ScreenTyped(screen))
BY DEF LauncherTypeOK, RamTyped, OutTyped, KeysTyped, MainTyped, ScreenTyped

LEMMA TypePartsNext ==
    ASSUME rom' \in Cartridges \cup {NoCartridge},
           RamTyped(ram'), OutTyped(out'), DOMAIN mem' = Writable,
           KeysTyped(keys'), MainTyped(main'), ScreenTyped(screen')
    PROVE  LauncherTypeOK'
BY DEF LauncherTypeOK, RamTyped, OutTyped, KeysTyped, MainTyped, ScreenTyped

LEMMA HeaderTyped ==
    ASSUME rom \in Cartridges, NEW l \in Locs
    PROVE  prgsize(l) \in Address /\ get_deploy_location(l) \in Address
<1>1. HdrCell(l) \in Cell /\ rom \in Memory
  BY CellsOfLoc, LauncherAssumption DEF Cell
<1>2. rom[HdrCell(l)] \in Word
  BY <1>1, MemoryValue
<1> QED BY <1>2, LauncherAssumption DEF prgsize, get_deploy_location

LEMMA NoneTyped == KeysTyped(<<>>)
BY LauncherAssumption DEF KeysTyped

LEMMA ForgottenTyped ==
    ASSUME NEW p, MainTyped(p),
           NEW d, d = [p EXCEPT !.typed = <<>>, !.exit = FALSE, !.number = 0]
    PROVE  MainTyped(d)
<1>0. MAXDIGITS \in Nat /\ <<>> \in Seq(0 .. 9) /\ Len(<<>>) = 0
  BY LauncherAssumption
<1>1. d \in Main
  BY <1>0 DEF MainTyped, Main
<1>2. d.typed = <<>>
  BY DEF MainTyped, Main
<1> QED BY <1>0, <1>1, <1>2 DEF MainTyped

\* A key has been handled, and the loop is as it was otherwise.
LEMMA PassedTyped ==
    ASSUME MainTyped(main), NEW n \in Nat
    PROVE  /\ MainTyped(Passed)
           /\ MainTyped([Passed EXCEPT !.offset = n])
           /\ MainTyped([Passed EXCEPT !.typed = <<>>, !.exit = FALSE, !.number = 0])
<1>1. MainTyped(Passed)
  BY DEF MainTyped, Main, Passed
<1> HIDE DEF Passed
<1>2. MainTyped([Passed EXCEPT !.offset = n])
  BY <1>1 DEF MainTyped, Main
<1>3. MainTyped([Passed EXCEPT !.typed = <<>>, !.exit = FALSE, !.number = 0])
  BY <1>1, ForgottenTyped
<1> QED BY <1>1, <1>2, <1>3

LEMMA TypedIs ==
    ASSUME MainTyped(main)
    PROVE  /\ MainTyped(Passed) /\ Passed.typed = main.typed
           /\ main.typed \in Seq(0 .. 9) /\ Len(main.typed) <= MAXDIGITS
           /\ Len(main.typed) \in Nat /\ MAXDIGITS \in Nat
<1>1. MainTyped(Passed)
  BY PassedTyped
<1>2. main.typed \in Seq(0 .. 9) /\ Len(main.typed) <= MAXDIGITS
  BY DEF MainTyped, Main
<1>3. Passed.typed = main.typed
  BY DEF MainTyped, Main, Passed
<1>4. Len(main.typed) \in Nat
  BY <1>2
<1> QED BY <1>1, <1>2, <1>3, <1>4, LauncherAssumption

LEMMA DigitTyped ==
    ASSUME MainTyped(main), NEW d \in Digits, Len(main.typed) < MAXDIGITS
    PROVE  MainTyped([Passed EXCEPT !.typed = Append(@, d)])
<1> DEFINE t == main.typed
<1>0. d \in 0 .. 9
  BY LauncherAssumption
<1>1. MainTyped(Passed) /\ Passed.typed = t /\ t \in Seq(0 .. 9) /\ Len(t) \in Nat
      /\ MAXDIGITS \in Nat
  BY TypedIs
<1>2. Len(t) < MAXDIGITS
  OBVIOUS
<1> HIDE DEF t, Passed
<1>3. Append(t, d) \in Seq(0 .. 9) /\ Len(Append(t, d)) = Len(t) + 1
  BY <1>0, <1>1, AppendProperties
<1>4. [Passed EXCEPT !.typed = Append(@, d)] = [Passed EXCEPT !.typed = Append(t, d)]
  BY <1>1
<1>5. Len(Append(t, d)) <= MAXDIGITS
  BY <1>1, <1>2, <1>3
<1>6. MainTyped([Passed EXCEPT !.typed = Append(t, d)])
  BY <1>1, <1>3, <1>5 DEF MainTyped, Main
<1> QED BY <1>4, <1>6

LEMMA BackTyped ==
    ASSUME MainTyped(main), main.typed # <<>>
    PROVE  MainTyped([Passed EXCEPT !.typed = SubSeq(@, 1, Len(@) - 1)])
<1> DEFINE t == main.typed
           q == SubSeq(t, 1, Len(t) - 1)
<1>1. MainTyped(Passed) /\ Passed.typed = t /\ t \in Seq(0 .. 9) /\ Len(t) \in Nat
      /\ MAXDIGITS \in Nat /\ Len(t) <= MAXDIGITS
  BY TypedIs
<1>2. t # <<>>
  OBVIOUS
<1> HIDE DEF t, Passed
<1>3. q \in Seq(0 .. 9) /\ Len(q) <= MAXDIGITS
  <2>1. Len(t) - 1 \in Nat /\ Len(t) # 0
    BY <1>1, <1>2, EmptySeq
  <2>2. \A i \in 1 .. Len(t) - 1 : t[i] \in 0 .. 9
    BY <1>1, <2>1, ElementOfSeq
  <2>3. q \in Seq(0 .. 9) /\ Len(q) = IF 1 <= Len(t) - 1 THEN (Len(t) - 1) - 1 + 1 ELSE 0
    BY <1>1, <2>1, <2>2, SubSeqProperties
  <2> QED BY <1>1, <2>1, <2>3
<1>4. [Passed EXCEPT !.typed = SubSeq(@, 1, Len(@) - 1)] = [Passed EXCEPT !.typed = q]
  BY <1>1
<1> HIDE DEF q
<1>5. MainTyped([Passed EXCEPT !.typed = q])
  BY <1>1, <1>3 DEF MainTyped, Main
<1> QED BY <1>4, <1>5

LEMMA AskTyped ==
    ASSUME MainTyped(main), NEW id \in Nat, NEW l \in Locs, NEW z \in Address,
           NEW d, d = [main EXCEPT !.pc = "link", !.number = id, !.link = <<l>>, !.size = z]
    PROVE  MainTyped(d)
<1>0. <<l>> \in Seq(Locs)
  OBVIOUS
<1>1. d \in Main
  BY <1>0 DEF MainTyped, Main
<1>2. d.typed = main.typed
  BY DEF MainTyped, Main
<1> QED BY <1>1, <1>2 DEF MainTyped

LEMMA StepTyped ==
    ASSUME MainTyped(main), NEW s \in Seq(Locs), NEW n \in Nat
    PROVE  /\ MainTyped([main EXCEPT !.pc = "copy", !.ctr = 0])
           /\ MainTyped([main EXCEPT !.link = s])
           /\ MainTyped([main EXCEPT !.ctr = n])
           /\ MainTyped([main EXCEPT !.link = s, !.ctr = n])
           /\ MainTyped([main EXCEPT !.pc = "reset"])
           /\ MainTyped([main EXCEPT !.pc = "wait"])
           /\ MainTyped([main EXCEPT !.pc = "nochip"])
           /\ MainTyped([main EXCEPT !.pc = "loop"])
           /\ MainTyped([main EXCEPT !.pc = "loop", !.pos = 1])
<1>1. MainTyped([main EXCEPT !.pc = "copy", !.ctr = 0])
  BY DEF MainTyped, Main
<1>2. MainTyped([main EXCEPT !.link = s])
  BY DEF MainTyped, Main
<1>3. MainTyped([main EXCEPT !.ctr = n])
  BY DEF MainTyped, Main
<1>4. MainTyped([main EXCEPT !.link = s, !.ctr = n])
  BY DEF MainTyped, Main
<1>5. /\ MainTyped([main EXCEPT !.pc = "reset"])
      /\ MainTyped([main EXCEPT !.pc = "wait"])
      /\ MainTyped([main EXCEPT !.pc = "nochip"])
      /\ MainTyped([main EXCEPT !.pc = "loop"])
  BY DEF MainTyped, Main
<1>6. MainTyped([main EXCEPT !.pc = "loop", !.pos = 1])
  BY DEF MainTyped, Main
<1> QED BY <1>1, <1>2, <1>3, <1>4, <1>5, <1>6

LEMMA LoadedIs ==
    ASSUME MainTyped(main), OutTyped(out), Loaded
    PROVE  /\ MainTyped(main') /\ OutTyped(out')
           /\ main'.pc = "loop" /\ main'.exit /\ main'.number = main.number
           /\ main'.offset = main.offset
           /\ out'.size = main.size /\ out'.deploy = out.deploy
<1>0. <<>> \in Seq(Locs) /\ 0 \in Address
  BY MemoryAssumption DEF Address
<1>1. MainTyped(Passed) /\ Passed.number = main.number /\ Passed.offset = main.offset
  <2>1. MainTyped(Passed)
    BY PassedTyped
  <2> QED BY <2>1 DEF MainTyped, Main, Passed
<1>2. main' = [Passed EXCEPT !.pc = "loop", !.exit = TRUE, !.link = <<>>, !.ctr = 0, !.size = 0]
  BY DEF Loaded
<1> HIDE DEF Passed
<1>3. main' \in Main
  BY <1>0, <1>1, <1>2 DEF MainTyped, Main
<1>4. /\ main'.pc = "loop" /\ main'.exit /\ main'.number = main.number
      /\ main'.offset = main.offset
  BY <1>1, <1>2 DEF MainTyped, Main
<1>5. main'.typed = Passed.typed
  BY <1>1, <1>2 DEF MainTyped, Main
<1>6. MainTyped(main')
  BY <1>1, <1>3, <1>5 DEF MainTyped
<1>7. out' = [out EXCEPT !.size = main.size] /\ main.size \in Address
  BY DEF Loaded, MainTyped, Main
<1>8. OutTyped(out') /\ out'.size = main.size /\ out'.deploy = out.deploy
  BY <1>7 DEF OutTyped
<1> QED BY <1>4, <1>6, <1>8

LEMMA RunningTyped ==
    ASSUME MainTyped(main), NEW d, d = [Started EXCEPT !.pc = "running", !.number = main.number]
    PROVE  MainTyped(d) /\ d.pc = "running" /\ d.number = main.number /\ ~d.exit /\ d.offset = 0
<1>1. main.number \in Nat
  BY DEF MainTyped, Main
<1>2. Started \in Main /\ Len(Started.typed) <= MAXDIGITS
      /\ ~Started.exit /\ Started.offset = 0
  BY StartedTyped DEF Started
<1> HIDE DEF Started
<1>3. d \in Main /\ d.typed = Started.typed
  BY <1>1, <1>2 DEF Main
<1>4. d.pc = "running" /\ d.number = main.number /\ ~d.exit /\ d.offset = 0
  BY <1>1, <1>2 DEF Main
<1> QED BY <1>2, <1>3, <1>4 DEF MainTyped

\* The keys of the loop that change nothing but the loop.
LEMMA KeyTyped ==
    ASSUME MainTyped(main), ToggleValidation \/ TypeDigit \/ Backspace \/ RoundDone
    PROVE  /\ MainTyped(main') /\ UNCHANGED <<rom, ram, out, mem, keys, screen>>
           /\ main.pc = "loop" /\ main'.pc \in {"loop", "reset"}
           /\ main'.exit = main.exit /\ main'.number = main.number
           /\ main'.offset = main.offset
<1> DEFINE Goal == /\ MainTyped(main') /\ UNCHANGED <<rom, ram, out, mem, keys, screen>>
                   /\ main.pc = "loop" /\ main'.pc \in {"loop", "reset"}
                   /\ main'.exit = main.exit /\ main'.number = main.number
                   /\ main'.offset = main.offset
<1>0. /\ MainTyped(Passed) /\ Passed.pc = main.pc /\ Passed.exit = main.exit
      /\ Passed.number = main.number /\ Passed.offset = main.offset
  <2>1. MainTyped(Passed)
    BY PassedTyped
  <2> QED BY <2>1 DEF MainTyped, Main, Passed
<1>1. CASE ToggleValidation
  <2>1. /\ main.pc = "loop" /\ main' = [Passed EXCEPT !.validate = ~@]
        /\ UNCHANGED <<rom, ram, out, mem, keys, screen>>
    BY <1>1 DEF ToggleValidation, AtKey
  <2> HIDE DEF Passed
  <2>2. MainTyped(main') /\ main'.pc = Passed.pc /\ main'.exit = Passed.exit
        /\ main'.number = Passed.number /\ main'.offset = Passed.offset
    BY <1>0, <2>1 DEF MainTyped, Main
  <2> QED BY <1>0, <2>1, <2>2
<1>2. CASE TypeDigit
  <2>1. PICK d \in Digits :
           /\ main.pc = "loop"
           /\ main' = IF Len(main.typed) < MAXDIGITS
                      THEN [Passed EXCEPT !.typed = Append(@, d)] ELSE Passed
           /\ UNCHANGED <<rom, ram, out, mem, keys, screen>>
    BY <1>2 DEF TypeDigit, AtKey
  <2>2. MainTyped(main')
    BY <1>0, <2>1, DigitTyped
  <2> HIDE DEF Passed
  <2>3. main'.pc = Passed.pc /\ main'.exit = Passed.exit /\ main'.number = Passed.number
        /\ main'.offset = Passed.offset
    BY <1>0, <2>1 DEF MainTyped, Main
  <2> QED BY <1>0, <2>1, <2>2, <2>3
<1>3. CASE Backspace
  <2>1. /\ main.pc = "loop"
        /\ main' = [Passed EXCEPT !.typed = IF @ = <<>> THEN @ ELSE SubSeq(@, 1, Len(@) - 1)]
        /\ UNCHANGED <<rom, ram, out, mem, keys, screen>>
    BY <1>3 DEF Backspace, AtKey
  <2>2. MainTyped(main')
    <3>1. Passed.typed = main.typed
      BY TypedIs
    <3>4. main.typed # <<>> =>
              MainTyped([Passed EXCEPT !.typed = SubSeq(@, 1, Len(@) - 1)])
      BY BackTyped
    <3> HIDE DEF Passed
    <3>2. CASE main.typed = <<>>
      <4>1. main' = Passed
        BY <1>0, <2>1, <3>1, <3>2 DEF MainTyped, Main
      <4> QED BY <1>0, <4>1
    <3>3. CASE main.typed # <<>>
      <4>1. main' = [Passed EXCEPT !.typed = SubSeq(@, 1, Len(@) - 1)]
        BY <2>1, <3>1, <3>3
      <4> QED BY <3>3, <3>4, <4>1
    <3> QED BY <3>2, <3>3
  <2> HIDE DEF Passed
  <2>3. main'.pc = Passed.pc /\ main'.exit = Passed.exit /\ main'.number = Passed.number
        /\ main'.offset = Passed.offset
    BY <1>0, <2>1 DEF MainTyped, Main
  <2> QED BY <1>0, <2>1, <2>2, <2>3
<1>4. CASE RoundDone
  <2>1. /\ main.pc = "loop" /\ main' = [main EXCEPT !.pc = "reset"]
        /\ UNCHANGED <<rom, ram, out, mem, keys, screen>>
    BY <1>4 DEF RoundDone
  <2>2. MainTyped(main') /\ main'.pc = "reset" /\ main'.exit = main.exit
        /\ main'.number = main.number /\ main'.offset = main.offset
    BY <2>1 DEF MainTyped, Main
  <2> QED BY <2>1, <2>2
<1> QED BY <1>1, <1>2, <1>3, <1>4

\* What holds of the launcher in its loop, and while it loads.
LEMMA WhileOn ==
    ASSUME LauncherIInv, main.pc \notin {"boot", "nochip"}
    PROVE  /\ rom \in Cartridges /\ rom \in Memory /\ main.offset \in Nat /\ Fits(main.offset)
           /\ RamTyped(ram) /\ OutTyped(out) /\ DOMAIN mem = Writable
           /\ KeysTyped(keys) /\ MainTyped(main) /\ ScreenTyped(screen)
<1>1. /\ RamTyped(ram) /\ OutTyped(out) /\ DOMAIN mem = Writable
      /\ KeysTyped(keys) /\ MainTyped(main) /\ ScreenTyped(screen)
  BY TypeParts DEF LauncherIInv
<1>2. rom \in Cartridges /\ Fits(main.offset)
  BY DEF LauncherIInv, SetUp, PageFits
<1>3. main.offset \in Nat
  BY <1>1 DEF MainTyped, Main
<1> QED BY <1>1, <1>2, <1>3, LauncherAssumption

LEMMA BootSteps ==
    ASSUME LauncherIInv, Boot
    PROVE  /\ LauncherTypeOK' /\ rom' = rom /\ UNCHANGED <<out, keys>>
           /\ main'.pc \in {"nochip", "loop"} /\ main'.offset = 0 /\ ~main'.exit
           /\ mem' = loadcode(Cold, LauncherImage)
           /\ main'.pc = "loop" => rom \in Cartridges /\ RowsAreNumbered'
<1>0. /\ RamTyped(ram) /\ OutTyped(out) /\ KeysTyped(keys) /\ ScreenTyped(screen)
      /\ rom \in Cartridges \cup {NoCartridge} /\ main = Started /\ MainTyped(main)
      /\ mem = Cold
  BY TypeParts DEF LauncherIInv, SetUp, Boot
<1>1. /\ rom' = rom /\ UNCHANGED <<out, keys>> /\ mem' = loadcode(Cold, LauncherImage)
  BY <1>0 DEF Boot
<1>2. DOMAIN mem' = Writable
  BY <1>1 DEF loadcode
<1>3. main.offset = 0 /\ ~main.exit
  BY <1>0 DEF Started
<1>4. CASE rom = NoCartridge
  <2>1. main' = [main EXCEPT !.pc = "nochip"] /\ UNCHANGED <<ram, screen>>
    BY <1>4 DEF Boot
  <2>2. MainTyped(main')
    BY <1>0, <2>1, StepTyped, EmptySeq
  <2>3. main'.pc = "nochip" /\ main'.offset = 0 /\ ~main'.exit
    BY <1>0, <1>3, <2>1 DEF MainTyped, Main
  <2>4. LauncherTypeOK'
    BY <1>0, <1>1, <1>2, <2>1, <2>2, TypePartsNext
  <2> QED BY <1>1, <2>3, <2>4
<1>5. CASE rom # NoCartridge
  <2>1. main' = [main EXCEPT !.pc = "loop"] /\ ShowPage(0) /\ rom \in Cartridges
    BY <1>0, <1>5 DEF Boot
  <2>2. MainTyped(main')
    BY <1>0, <2>1, StepTyped, EmptySeq
  <2>3. main'.pc = "loop" /\ main'.offset = 0 /\ ~main'.exit
    BY <1>0, <1>3, <2>1 DEF MainTyped, Main
  <2>4. Fits(0) /\ 0 \in Nat
    BY DEF Fits
  <2>5. /\ RamTyped(ram') /\ ScreenTyped(screen') /\ RowsShown(0)
    BY <1>0, <2>1, <2>4, PageShown DEF ScreenTyped, RowsShown
  <2>6. LauncherTypeOK'
    BY <1>0, <1>1, <1>2, <2>2, <2>5, TypePartsNext
  <2>7. RowsAreNumbered'
    BY <1>1, <2>5, ShownIsNumbered
  <2> QED BY <1>1, <2>1, <2>3, <2>6, <2>7
<1> QED BY <1>4, <1>5

LEMMA ScrollSteps ==
    ASSUME LauncherIInv, PageDown \/ PageUp
    PROVE  /\ LauncherTypeOK' /\ UNCHANGED <<rom, out, mem, keys>>
           /\ main.pc = "loop" /\ main'.pc = "loop"
           /\ main'.exit = main.exit /\ main'.number = main.number
           /\ Fits(main'.offset)
           /\ \A a \in 0 .. AREAS - 1 : a # LIST_AREA => ram'[a] = ram[a]
           /\ RowsAreNumbered'
<1>1. /\ main.pc = "loop" /\ UNCHANGED <<rom, out, mem, keys>>
      /\ IF get_number_programs <= PAGE
         THEN main' = Passed /\ UNCHANGED <<ram, screen>>
         ELSE \E n \in {NextOffset(main.offset, get_number_programs),
                        PreviousOffset(main.offset)} :
                 main' = [Passed EXCEPT !.offset = n] /\ ShowPage(n)
  BY DEF PageDown, PageUp, Scroll, AtKey
<1>2. /\ rom \in Cartridges /\ main.offset \in Nat /\ Fits(main.offset)
      /\ RamTyped(ram) /\ OutTyped(out) /\ DOMAIN mem = Writable
      /\ KeysTyped(keys) /\ MainTyped(main) /\ ScreenTyped(screen)
  BY <1>1, WhileOn
<1>3. /\ MainTyped(Passed) /\ Passed.pc = main.pc /\ Passed.exit = main.exit
      /\ Passed.number = main.number /\ Passed.offset = main.offset
  <2>1. MainTyped(Passed)
    BY <1>2, PassedTyped
  <2> QED BY <1>2, <2>1 DEF MainTyped, Main, Passed
<1>4. CASE get_number_programs <= PAGE
  <2>1. main' = Passed /\ UNCHANGED <<ram, screen>>
    BY <1>1, <1>4
  <2>2. LauncherTypeOK'
    BY <1>1, <1>2, <1>3, <2>1, TypePartsNext
  <2>3. main'.exit = main.exit /\ main'.pc = main.pc
    BY <1>3, <2>1
  <2>4. RowsAreNumbered'
    <3>1. RowsAreNumbered
      BY DEF LauncherIInv
    <3>2. AtMenu' => AtMenu
      BY <2>3 DEF AtMenu
    <3> QED BY <1>1, <2>1, <3>1, <3>2, NumberedKept
  <2> QED BY <1>1, <1>2, <1>3, <2>1, <2>2, <2>4
<1>5. CASE ~(get_number_programs <= PAGE)
  <2>1. PICK n \in {NextOffset(main.offset, get_number_programs),
                    PreviousOffset(main.offset)} :
           main' = [Passed EXCEPT !.offset = n] /\ ShowPage(n)
    BY <1>1, <1>5
  <2>2. n \in Nat /\ Fits(n)
    BY <1>2, <1>5, NextPageFits
  <2>3. MainTyped(main')
    BY <1>2, <2>1, <2>2, PassedTyped
  <2>4. /\ main'.pc = main.pc /\ main'.exit = main.exit
        /\ main'.number = main.number /\ main'.offset = n
    <3> HIDE DEF Passed
    <3> QED BY <1>3, <2>1, <2>2 DEF MainTyped, Main
  <2>5. /\ RamTyped(ram') /\ ScreenTyped(screen') /\ RowsShown(n)
        /\ \A a \in 0 .. AREAS - 1 : a # LIST_AREA => ram'[a] = ram[a]
    BY <1>2, <2>1, <2>2, PageShown DEF ScreenTyped, RowsShown
  <2>6. LauncherTypeOK'
    BY <1>1, <1>2, <2>3, <2>5, TypePartsNext
  <2>7. RowsAreNumbered'
    BY <1>1, <2>5, ShownIsNumbered
  <2> QED BY <1>1, <2>2, <2>4, <2>5, <2>6, <2>7
<1> QED BY <1>4, <1>5

LEMMA EnterInvalidSteps ==
    ASSUME LauncherIInv, EnterInvalid
    PROVE  /\ LauncherTypeOK' /\ UNCHANGED <<rom, out, mem, keys>>
           /\ main.pc = "loop" /\ main'.pc = "loop" /\ ~main'.exit
           /\ Fits(main'.offset)
           /\ RowsAreNumbered'
<1>1. /\ main.pc = "loop" /\ UNCHANGED <<rom, out, mem, keys>> /\ ShowPage(main.offset)
      /\ main' = [Passed EXCEPT !.typed = <<>>, !.exit = FALSE, !.number = 0]
  BY DEF EnterInvalid, AtKey
<1>2. /\ rom \in Cartridges /\ main.offset \in Nat /\ Fits(main.offset)
      /\ RamTyped(ram) /\ OutTyped(out) /\ DOMAIN mem = Writable
      /\ KeysTyped(keys) /\ MainTyped(main) /\ ScreenTyped(screen)
  BY <1>1, WhileOn
<1>3. MainTyped(main')
  BY <1>1, <1>2, PassedTyped
<1>4. main'.pc = "loop" /\ ~main'.exit /\ main'.offset = main.offset
  <2>1. MainTyped(Passed) /\ Passed.pc = main.pc /\ Passed.offset = main.offset
    <3>1. MainTyped(Passed)
      BY <1>2, PassedTyped
    <3> QED BY <1>2, <3>1 DEF MainTyped, Main, Passed
  <2> HIDE DEF Passed
  <2> QED BY <1>1, <2>1 DEF MainTyped, Main
<1>5. /\ RamTyped(ram') /\ ScreenTyped(screen') /\ RowsShown(main.offset)
  BY <1>1, <1>2, PageShown DEF ScreenTyped, RowsShown
<1>6. LauncherTypeOK'
  BY <1>1, <1>2, <1>3, <1>5, TypePartsNext
<1>7. RowsAreNumbered'
  BY <1>1, <1>5, ShownIsNumbered
<1> QED BY <1>1, <1>2, <1>4, <1>6, <1>7

-----------------------------------------------------------------------------
(***************************************************************************)
(* What a step leaves alone.                                               *)
(***************************************************************************)
LEMMA AskedKept ==
    ASSUME rom' = rom, main'.number = main.number
    PROVE  Asked' = Asked /\ AskedChain' = AskedChain
<1>1. Asked' = Asked
  BY DirectoryKept DEF Asked
<1> QED BY <1>1 DEF AskedChain

LEMMA AskedIsThere ==
    ASSUME rom \in Cartridges, main.number \in 1 .. Len(Directory)
    PROVE  /\ Asked \in Locs /\ Path(rom, AskedChain) /\ AskedChain[1] = Asked
           /\ AskedChain \in Seq(Locs) /\ Len(AskedChain) \in Nat \ {0}
<1>1. Asked \in Locs
  BY ProgramFound DEF Asked
<1>2. rom \in Memory
  BY LauncherAssumption
<1>3. Path(rom, AskedChain) /\ AskedChain[1] = Asked
  BY <1>1, <1>2, ChainShape DEF Reached, AskedChain
<1> QED BY <1>1, <1>3 DEF Path

LEMMA ReadyKept ==
    ASSUME ReadyIInv, rom \in Cartridges, rom' = rom, out' = out,
           main'.number = main.number, main'.exit = main.exit,
           main.pc \in {"loop", "reset"},
           \A a \in 0 .. AREAS - 1 : a # LIST_AREA => ram'[a] = ram[a]
    PROVE  ReadyIInv'
<1> SUFFICES ASSUME main'.exit
             PROVE  /\ main'.number \in 1 .. Len(Directory')
                    /\ (Asked' \in DOMAIN FilesOn(rom') /\ Len(AskedChain') <= LIST_AREA =>
                           /\ out'.deploy = HeaderDeploy(rom'[HdrCell(Asked')])
                           /\ out'.size = HeaderSize(rom'[HdrCell(Asked')])
                           /\ Holds(ram', rom', AskedChain', Len(AskedChain')))
  BY DEF ReadyIInv, RamHolds, prgsize, get_deploy_location
<1>1. Asked' = Asked /\ AskedChain' = AskedChain /\ Directory' = Directory
  BY AskedKept, DirectoryKept
<1>2. main.number \in 1 .. Len(Directory)
  BY DEF ReadyIInv
<1>3. ASSUME Asked \in DOMAIN FilesOn(rom), Len(AskedChain) <= LIST_AREA
      PROVE  /\ out.deploy = HeaderDeploy(rom[HdrCell(Asked)])
             /\ out.size = HeaderSize(rom[HdrCell(Asked)])
             /\ Holds(ram', rom, AskedChain, Len(AskedChain))
  <2>1. /\ out.deploy = HeaderDeploy(rom[HdrCell(Asked)])
        /\ out.size = HeaderSize(rom[HdrCell(Asked)])
        /\ Holds(ram, rom, AskedChain, Len(AskedChain))
    BY <1>3 DEF ReadyIInv, RamHolds, prgsize, get_deploy_location
  <2>2. Len(AskedChain) \in Nat
    BY <1>2, AskedIsThere
  <2>3. \A k \in 1 .. Len(AskedChain) : ram'[k - 1] = ram[k - 1]
    <3>1. \A k \in 1 .. Len(AskedChain) : k - 1 \in 0 .. AREAS - 1 /\ k - 1 # LIST_AREA
      BY <1>3, <2>2, AreasInOrder
    <3> QED BY <3>1
  <2> QED BY <2>1, <2>3 DEF Holds
<1> QED BY <1>1, <1>2, <1>3

-----------------------------------------------------------------------------
(***************************************************************************)
(* The steps of power, keyboard and menu.                                  *)
(***************************************************************************)
LEMMA SwitchOnKeeps ==
    ASSUME LauncherIInv, SwitchOn
    PROVE  LauncherIInv'
<1>0. /\ rom' \in Cartridges \cup {NoCartridge} /\ ram' \in SomeRam \cup {ram}
      /\ mem' = Cold /\ keys' = <<>> /\ main' = Started /\ screen' = Dark
      /\ out' = NothingOut
  BY DEF SwitchOn, SomeRom
<1>1. main'.pc = "boot" /\ ~main'.exit
  BY <1>0 DEF Started
<1>2. LauncherTypeOK'
  <2>1. RamTyped(ram')
    BY <1>0, SomeRamTyped, TypeParts DEF LauncherIInv
  <2> QED BY <1>0, <2>1, NoneTyped, StartedTyped, TypePartsNext
          DEF OutTyped, MainTyped, ScreenTyped
<1>3. SetUp' /\ PageFits' /\ RowsAreNumbered'
  BY <1>0, <1>1 DEF SetUp, PageFits, RowsAreNumbered, AtMenu
<1>4. LoadIInv' /\ ReadyIInv' /\ StartedIsAsked'
  BY <1>1 DEF LoadIInv, Loading, ReadyIInv, StartedIsAsked
<1> QED BY <1>2, <1>3, <1>4 DEF LauncherIInv

LEMMA BootKeeps ==
    ASSUME LauncherIInv, Boot
    PROVE  LauncherIInv'
<1>0. /\ LauncherTypeOK' /\ rom' = rom /\ UNCHANGED <<out, keys>>
      /\ main'.pc \in {"nochip", "loop"} /\ main'.offset = 0 /\ ~main'.exit
      /\ mem' = loadcode(Cold, LauncherImage)
      /\ main'.pc = "loop" => rom \in Cartridges /\ RowsAreNumbered'
  BY BootSteps
<1>1. SetUp'
  BY <1>0 DEF SetUp
<1>2. PageFits'
  BY <1>0 DEF PageFits, Fits
<1>3. RowsAreNumbered'
  BY <1>0 DEF RowsAreNumbered, AtMenu
<1>4. LoadIInv' /\ ReadyIInv' /\ StartedIsAsked'
  BY <1>0 DEF LoadIInv, Loading, ReadyIInv, StartedIsAsked
<1> QED BY <1>0, <1>1, <1>2, <1>3, <1>4 DEF LauncherIInv

LEMMA SetUpKept ==
    ASSUME SetUp, rom' = rom, mem' = mem, main.pc \notin {"boot", "nochip", "running"},
           main'.pc \notin {"boot", "nochip", "running"}
    PROVE  SetUp' /\ StartedIsAsked'
BY DEF SetUp, StartedIsAsked

LEMMA FitsKept ==
    ASSUME Fits(main'.offset), rom' = rom
    PROVE  PageFits'
BY DirectoryKept DEF PageFits, Fits

LEMMA PressKeeps ==
    ASSUME LauncherIInv, NEW k \in Key, Press(k)
    PROVE  LauncherIInv'
<1>0. /\ main.pc \notin {"boot", "running"} /\ UNCHANGED <<rom, ram, out, mem, main, screen>>
      /\ Len(keys) < KEYBUFFER /\ keys' = Append(keys, k)
  BY DEF Press
<1>1. LauncherTypeOK'
  <2>1. /\ rom \in Cartridges \cup {NoCartridge}
        /\ RamTyped(ram) /\ OutTyped(out) /\ DOMAIN mem = Writable
        /\ KeysTyped(keys) /\ MainTyped(main) /\ ScreenTyped(screen)
    BY TypeParts DEF LauncherIInv
  <2>2. KEYBUFFER \in Nat
    BY LauncherAssumption
  <2>3. KeysTyped(keys')
    BY <1>0, <2>1, <2>2, AppendProperties DEF KeysTyped
  <2> QED BY <1>0, <2>1, <2>3, TypePartsNext
<1>2. Directory' = Directory /\ Asked' = Asked /\ AskedChain' = AskedChain
  BY <1>0, DirectoryKept, AskedKept
<1>3. SetUp' /\ StartedIsAsked'
  BY <1>0 DEF SetUp, StartedIsAsked, LauncherIInv
<1>4. PageFits'
  BY <1>0, <1>2 DEF PageFits, Fits, LauncherIInv
<1>5. RowsAreNumbered'
  BY <1>0, NumberedKept DEF LauncherIInv, AtMenu
<1>6. LoadIInv'
  BY <1>0, <1>2 DEF LoadIInv, Loading, RamHolds, CheckWord, prgsize, get_deploy_location,
                    LauncherIInv
<1>7. ReadyIInv'
  BY <1>0, <1>2 DEF ReadyIInv, RamHolds, prgsize, get_deploy_location, LauncherIInv
<1> QED BY <1>1, <1>3, <1>4, <1>5, <1>6, <1>7 DEF LauncherIInv

\* A step from the loop to the loop.
LEMMA MenuKeeps ==
    ASSUME LauncherIInv, LauncherTypeOK', UNCHANGED <<rom, mem>>,
           main.pc \in {"loop", "reset"}, main'.pc \in {"loop", "reset"},
           Fits(main'.offset), RowsAreNumbered', ReadyIInv'
    PROVE  LauncherIInv'
<1>1. SetUp' /\ StartedIsAsked'
  BY SetUpKept DEF LauncherIInv
<1>2. PageFits'
  BY FitsKept
<1>3. LoadIInv'
  BY DEF LoadIInv, Loading
<1> QED BY <1>1, <1>2, <1>3 DEF LauncherIInv

LEMMA KeysKeep ==
    ASSUME LauncherIInv, ToggleValidation \/ TypeDigit \/ Backspace \/ RoundDone
    PROVE  LauncherIInv'
<1>0. /\ rom \in Cartridges \cup {NoCartridge}
      /\ RamTyped(ram) /\ OutTyped(out) /\ DOMAIN mem = Writable
      /\ KeysTyped(keys) /\ MainTyped(main) /\ ScreenTyped(screen)
  BY TypeParts DEF LauncherIInv
<1>1. /\ MainTyped(main') /\ UNCHANGED <<rom, ram, out, mem, keys, screen>>
      /\ main.pc = "loop" /\ main'.pc \in {"loop", "reset"}
      /\ main'.exit = main.exit /\ main'.number = main.number
      /\ main'.offset = main.offset
  BY <1>0, KeyTyped
<1>2. rom \in Cartridges /\ Fits(main'.offset)
  BY <1>1, WhileOn
<1>3. LauncherTypeOK'
  BY <1>0, <1>1, TypePartsNext
<1>4. RowsAreNumbered'
  BY <1>1, NumberedKept DEF LauncherIInv, AtMenu
<1>5. ReadyIInv'
  BY <1>1, <1>2, ReadyKept DEF LauncherIInv
<1> QED BY <1>1, <1>2, <1>3, <1>4, <1>5, MenuKeeps

LEMMA ScrollKeeps ==
    ASSUME LauncherIInv, PageDown \/ PageUp
    PROVE  LauncherIInv'
<1>1. /\ LauncherTypeOK' /\ UNCHANGED <<rom, out, mem, keys>>
      /\ main.pc = "loop" /\ main'.pc = "loop"
      /\ main'.exit = main.exit /\ main'.number = main.number
      /\ Fits(main'.offset)
      /\ \A a \in 0 .. AREAS - 1 : a # LIST_AREA => ram'[a] = ram[a]
      /\ RowsAreNumbered'
  BY ScrollSteps
<1>2. ReadyIInv'
  BY <1>1, WhileOn, ReadyKept DEF LauncherIInv
<1> QED BY <1>1, <1>2, MenuKeeps

LEMMA EnterInvalidKeeps ==
    ASSUME LauncherIInv, EnterInvalid
    PROVE  LauncherIInv'
<1>1. /\ LauncherTypeOK' /\ UNCHANGED <<rom, out, mem, keys>>
      /\ main.pc = "loop" /\ main'.pc = "loop" /\ ~main'.exit
      /\ Fits(main'.offset)
      /\ RowsAreNumbered'
  BY EnterInvalidSteps
<1>2. ReadyIInv'
  BY <1>1 DEF ReadyIInv
<1> QED BY <1>1, <1>2, MenuKeeps

-----------------------------------------------------------------------------
(***************************************************************************)
(* The steps that load a program.                                          *)
(***************************************************************************)
\* A step to where a program is being loaded.
LEMMA LoadKeeps ==
    ASSUME LauncherIInv, LauncherTypeOK', UNCHANGED <<rom, mem>>,
           main.pc \in {"loop", "link", "copy"}, main'.pc \in {"link", "copy", "wait"},
           main'.offset = main.offset, LoadIInv'
    PROVE  LauncherIInv'
<1>1. SetUp' /\ StartedIsAsked'
  BY SetUpKept DEF LauncherIInv
<1>2. PageFits'
  BY FitsKept DEF LauncherIInv, PageFits
<1>3. RowsAreNumbered' /\ ReadyIInv'
  BY DEF RowsAreNumbered, AtMenu, ReadyIInv
<1> QED BY <1>1, <1>2, <1>3 DEF LauncherIInv

\* What the rest of a load knows of what it loads.
LEMMA WhileLoading ==
    ASSUME LauncherIInv, main.pc \in {"link", "copy", "wait"}
    PROVE  /\ rom \in Cartridges /\ rom \in Memory /\ Fits(main.offset)
           /\ RamTyped(ram) /\ OutTyped(out) /\ DOMAIN mem = Writable
           /\ KeysTyped(keys) /\ MainTyped(main) /\ ScreenTyped(screen)
           /\ main.number \in 1 .. Len(Directory) /\ main.size = prgsize(Asked)
           /\ main.link \in Seq(Locs) /\ main.ctr \in Nat /\ LoadIInv
<1>1. /\ rom \in Cartridges /\ rom \in Memory /\ Fits(main.offset)
      /\ RamTyped(ram) /\ OutTyped(out) /\ DOMAIN mem = Writable
      /\ KeysTyped(keys) /\ MainTyped(main) /\ ScreenTyped(screen)
  BY WhileOn
<1>2. main.number \in 1 .. Len(Directory) /\ main.size = prgsize(Asked) /\ LoadIInv
  BY DEF LauncherIInv, LoadIInv, Loading
<1>3. main.link \in Seq(Locs) /\ main.ctr \in Nat
  BY <1>1 DEF MainTyped, Main
<1> QED BY <1>1, <1>2, <1>3

LEMMA OnePath ==
    ASSUME NEW l \in Locs
    PROVE  Path(rom, <<l>>) /\ <<l>>[1] = l /\ Len(<<l>>) = 1 /\ <<l>> \in Seq(Locs)
<1>1. <<l>> \in Seq(Locs) /\ Len(<<l>>) = 1 /\ <<l>>[1] = l
  OBVIOUS
<1> QED BY <1>1 DEF Path

LEMMA EnterNumberKeeps ==
    ASSUME LauncherIInv, EnterNumber
    PROVE  LauncherIInv'
<1> DEFINE id == strtoul(main.typed)
           l  == find_bankblock(id)
<1>1. /\ main.pc = "loop" /\ UNCHANGED <<rom, ram, mem, keys>>
      /\ id \in 1 .. get_number_programs
      /\ out' = [out EXCEPT !.deploy = get_deploy_location(l)]
      /\ main' = [main EXCEPT !.pc = "link", !.number = id, !.link = <<l>>,
                              !.size = prgsize(l)]
      /\ screen' = [Dark EXCEPT !.first = main.offset]
  BY DEF EnterNumber, AtKey
<1>2. /\ rom \in Cartridges /\ main.offset \in Nat /\ Fits(main.offset)
      /\ RamTyped(ram) /\ OutTyped(out) /\ DOMAIN mem = Writable
      /\ KeysTyped(keys) /\ MainTyped(main) /\ ScreenTyped(screen)
  BY <1>1, WhileOn
<1> HIDE DEF id
<1>3. id \in 1 .. Len(Directory) /\ id \in Nat
  BY <1>1, <1>2, ProgramsCounted, DirectoryLength
<1>4. l = Directory[id] /\ l \in Locs
  BY <1>2, <1>3, ProgramFound
<1> HIDE DEF l
<1>5. prgsize(l) \in Address /\ get_deploy_location(l) \in Address
  BY <1>2, <1>4, HeaderTyped
<1>6. MainTyped(main')
  BY <1>1, <1>2, <1>3, <1>4, <1>5, AskTyped
<1>7. /\ main'.pc = "link" /\ main'.number = id /\ main'.link = <<l>>
      /\ main'.size = prgsize(l) /\ main'.offset = main.offset
  BY <1>1, <1>2, <1>3, <1>4, <1>5 DEF MainTyped, Main
<1>8. OutTyped(out') /\ out'.deploy = get_deploy_location(l)
  BY <1>1, <1>2, <1>5 DEF OutTyped
<1>9. ScreenTyped(screen')
  <2>1. <<>> \in Seq(Locs) /\ <<>> \in Seq(BOOLEAN)
    OBVIOUS
  <2>2. screen' = [first |-> main.offset, rows |-> <<>>, green |-> <<>>]
    BY <1>1 DEF Dark
  <2> QED BY <1>2, <2>1, <2>2 DEF ScreenTyped
<1>10. LauncherTypeOK'
  BY <1>1, <1>2, <1>6, <1>8, <1>9, TypePartsNext
<1>11. Asked' = l /\ Directory' = Directory
  <2>1. Directory' = Directory
    BY <1>1, DirectoryKept
  <2> QED BY <1>4, <1>7, <2>1 DEF Asked
<1>12. Path(rom, <<l>>) /\ <<l>>[1] = l /\ Len(<<l>>) = 1
  BY <1>4, OnePath
<1>13. LoadIInv'
  <2>1. /\ main'.number \in 1 .. Len(Directory')
        /\ main'.size = HeaderSize(rom'[HdrCell(Asked')])
    BY <1>1, <1>3, <1>7, <1>11 DEF prgsize
  <2>2. /\ Path(rom', main'.link) /\ main'.link[1] = Asked'
        /\ out'.deploy = HeaderDeploy(rom'[HdrCell(Asked')])
    BY <1>1, <1>7, <1>8, <1>11, <1>12 DEF get_deploy_location
  <2>3. Len(main'.link) <= NBANKS * NBLOCKS + 1
    <3>1. NBANKS * NBLOCKS \in Nat \ {0} /\ Len(main'.link) = 1
      BY <1>7, <1>12, LocsFinite
    <3> QED BY <3>1
  <2> QED BY <1>7, <2>1, <2>2, <2>3 DEF LoadIInv, Loading, prgsize, get_deploy_location
<1> QED BY <1>1, <1>7, <1>10, <1>13, LoadKeeps

LEMMA LinkShape ==
    ASSUME LauncherIInv, main.pc = "link"
    PROVE  /\ Path(rom, main.link) /\ main.link[1] = Asked
           /\ Len(main.link) <= NBANKS * NBLOCKS + 1
           /\ out.deploy = get_deploy_location(Asked)
           /\ main.link[Len(main.link)] \in Locs /\ Len(main.link) \in Nat \ {0}
<1>1. /\ Path(rom, main.link) /\ main.link[1] = Asked
      /\ Len(main.link) <= NBANKS * NBLOCKS + 1
      /\ out.deploy = get_deploy_location(Asked)
  BY DEF LauncherIInv, LoadIInv
<1>2. main.link \in Seq(Locs) /\ Len(main.link) \in Nat \ {0}
  BY <1>1 DEF Path
<1>3. Len(main.link) \in 1 .. Len(main.link)
  BY <1>2
<1>4. main.link[Len(main.link)] \in Locs
  BY <1>2, <1>3, ElementOfSeq
<1> QED BY <1>1, <1>2, <1>4

\* A path, and the block its last one leads to.
LEMMA PathGrows ==
    ASSUME NEW s, Path(rom, s), NEW k \in Locs, k = rom[NextCell(s[Len(s)])]
    PROVE  /\ Path(rom, Append(s, k)) /\ Append(s, k)[1] = s[1]
           /\ Len(Append(s, k)) = Len(s) + 1 /\ Append(s, k) \in Seq(Locs)
<1>1. s \in Seq(Locs) /\ Len(s) \in Nat \ {0}
  BY DEF Path
<1>2. /\ Append(s, k) \in Seq(Locs) /\ Len(Append(s, k)) = Len(s) + 1
      /\ \A i \in 1 .. Len(s) : Append(s, k)[i] = s[i]
      /\ Append(s, k)[Len(s) + 1] = k
  BY <1>1, AppendProperties
<1>3. Append(s, k)[1] = s[1]
  BY <1>1, <1>2
<1>4. ASSUME NEW i \in 1 .. Len(Append(s, k)) - 1
      PROVE  Append(s, k)[i + 1] = rom[NextCell(Append(s, k)[i])]
  <2>1. i \in 1 .. Len(s)
    BY <1>1, <1>2
  <2>2. CASE i = Len(s)
    BY <1>1, <1>2, <2>1, <2>2
  <2>3. CASE i # Len(s)
    <3>1. i \in 1 .. Len(s) - 1 /\ i + 1 \in 1 .. Len(s)
      BY <1>1, <2>1, <2>3
    <3> QED BY <1>2, <2>1, <3>1 DEF Path
  <2> QED BY <2>2, <2>3
<1> QED BY <1>1, <1>2, <1>3, <1>4 DEF Path

LEMMA BuildLinkedListKeeps ==
    ASSUME LauncherIInv, BuildLinkedList
    PROVE  LauncherIInv'
<1> DEFINE next == LinkAfter(main.link)
<1>1. /\ main.pc = "link" /\ UNCHANGED <<rom, ram, out, mem, keys, screen>>
      /\ IF next = NoLoc
         THEN main' = [main EXCEPT !.pc = "copy", !.ctr = 0]
         ELSE /\ Len(main.link) <= NBANKS * NBLOCKS
              /\ main' = [main EXCEPT !.link = Append(@, next)]
  BY DEF BuildLinkedList
<1>2. /\ rom \in Cartridges /\ rom \in Memory
      /\ RamTyped(ram) /\ OutTyped(out) /\ DOMAIN mem = Writable
      /\ KeysTyped(keys) /\ MainTyped(main) /\ ScreenTyped(screen)
      /\ main.number \in 1 .. Len(Directory) /\ main.size = prgsize(Asked)
      /\ main.link \in Seq(Locs)
  BY <1>1, WhileLoading
<1>3. /\ Path(rom, main.link) /\ main.link[1] = Asked
      /\ Len(main.link) <= NBANKS * NBLOCKS + 1
      /\ out.deploy = get_deploy_location(Asked)
      /\ main.link[Len(main.link)] \in Locs /\ Len(main.link) \in Nat \ {0}
  BY <1>1, LinkShape
<1>4. next \in Locs \cup {NoLoc}
  BY <1>2, <1>3, NextIsLoc DEF LinkAfter
<1>5. CASE next = NoLoc
  <2>1. main' = [main EXCEPT !.pc = "copy", !.ctr = 0]
    BY <1>1, <1>5
  <2>2. MainTyped(main')
    BY <1>2, <2>1, StepTyped, 0 \in Nat, EmptySeq
  <2>3. /\ main'.pc = "copy" /\ main'.ctr = 0 /\ main'.number = main.number
        /\ main'.link = main.link /\ main'.size = main.size /\ main'.offset = main.offset
    BY <1>2, <2>1 DEF MainTyped, Main
  <2>4. LauncherTypeOK'
    BY <1>1, <1>2, <2>2, TypePartsNext
  <2>5. Asked' = Asked /\ AskedChain' = AskedChain /\ Directory' = Directory
    BY <1>1, <2>3, AskedKept, DirectoryKept
  <2>6. AskedChain = main.link
    <3>1. Ends(rom, main.link)
      BY <1>5 DEF Ends, LinkAfter
    <3>2. ChainOf(rom, main.link[1]) = main.link
      BY <1>2, <1>3, <3>1, ChainIs
    <3> QED BY <1>3, <3>2 DEF AskedChain
  <2>7. LoadIInv'
    <3>1. /\ main'.number \in 1 .. Len(Directory')
          /\ main'.size = HeaderSize(rom'[HdrCell(Asked')])
      BY <1>1, <1>2, <2>3, <2>5 DEF prgsize
    <3>2. /\ main'.link = AskedChain'
          /\ out'.deploy = HeaderDeploy(rom'[HdrCell(Asked')])
          /\ main'.ctr <= Len(AskedChain')
      BY <1>1, <1>3, <2>3, <2>5, <2>6 DEF get_deploy_location
    <3>3. Holds(ram', rom', AskedChain', main'.ctr)
      BY <2>3 DEF Holds
    <3> QED BY <2>3, <3>1, <3>2, <3>3
            DEF LoadIInv, Loading, prgsize, get_deploy_location, RamHolds
  <2> QED BY <1>1, <2>3, <2>4, <2>7, LoadKeeps
<1>6. CASE next # NoLoc
  <2>1. /\ Len(main.link) <= NBANKS * NBLOCKS
        /\ main' = [main EXCEPT !.link = Append(main.link, next)]
    BY <1>1, <1>2, <1>6
  <2>2. /\ Path(rom, Append(main.link, next)) /\ Append(main.link, next)[1] = main.link[1]
        /\ Len(Append(main.link, next)) = Len(main.link) + 1
        /\ Append(main.link, next) \in Seq(Locs)
    BY <1>3, <1>4, <1>6, PathGrows DEF LinkAfter
  <2> HIDE DEF next
  <2>3. MainTyped(main')
    BY <1>2, <2>1, <2>2, StepTyped, 0 \in Nat
  <2>4. /\ main'.pc = "link" /\ main'.number = main.number
        /\ main'.link = Append(main.link, next)
        /\ main'.size = main.size /\ main'.offset = main.offset
    BY <1>1, <1>2, <2>1 DEF MainTyped, Main
  <2>5. LauncherTypeOK'
    BY <1>1, <1>2, <2>3, TypePartsNext
  <2>6. Asked' = Asked /\ Directory' = Directory
    BY <1>1, <2>4, AskedKept, DirectoryKept
  <2>7. LoadIInv'
    <3>1. /\ main'.number \in 1 .. Len(Directory')
          /\ main'.size = HeaderSize(rom'[HdrCell(Asked')])
      BY <1>1, <1>2, <2>4, <2>6 DEF prgsize
    <3>2. /\ Path(rom', main'.link) /\ main'.link[1] = Asked'
          /\ out'.deploy = HeaderDeploy(rom'[HdrCell(Asked')])
      BY <1>1, <1>3, <2>2, <2>4, <2>6 DEF get_deploy_location
    <3>3. Len(main'.link) <= NBANKS * NBLOCKS + 1
      <4>1. NBANKS * NBLOCKS \in Nat
        BY LocsFinite
      <4> QED BY <1>3, <2>1, <2>2, <2>4, <4>1
    <3> QED BY <2>4, <3>1, <3>2, <3>3 DEF LoadIInv, Loading, prgsize, get_deploy_location
  <2> QED BY <1>1, <2>4, <2>5, <2>7, LoadKeeps
<1> QED BY <1>5, <1>6

\* An area that takes the data of a block.
LEMMA BlockTyped ==
    ASSUME rom \in Memory, RamTyped(ram), NEW l \in Locs, NEW a \in 0 .. AREAS - 1,
           ram' = [ram EXCEPT ![a] = WordArea(rom[DataCell(l)])]
    PROVE  /\ RamTyped(ram') /\ ram'[a] = WordArea(rom[DataCell(l)])
           /\ \A k \in 0 .. AREAS - 1 : k # a => ram'[k] = ram[k]
<1>1. DataCell(l) \in Cell
  BY CellsOfLoc DEF Cell
<1>2. rom[DataCell(l)] \in Word
  BY <1>1, MemoryValue
<1>3. WordArea(rom[DataCell(l)]) \in Area /\ WordArea(rom[DataCell(l)]).kind = "word"
  BY <1>2 DEF WordArea, Area
<1> HIDE DEF WordArea
<1> QED BY <1>3 DEF RamTyped

LEMMA SpiltTyped ==
    ASSUME NEW s \in Seq(Locs), NEW n \in 1 .. Len(s), NEW t \in Spilt
    PROVE  SubSeq(s, 1, n) \o t \in Seq(Locs)
<1>1. SubSeq(s, 1, n) \in Seq(Locs)
  OBVIOUS
<1>2. t \in Seq(Locs)
  <2>1. t = <<>> \/ \E l \in Locs : t = <<l>>
    BY DEF Spilt
  <2>2. ASSUME NEW l \in Locs PROVE <<l>> \in Seq(Locs)
    OBVIOUS
  <2> QED BY <2>1, <2>2, EmptySeq
<1> QED BY <1>1, <1>2, ConcatProperties

LEMMA RemainderOf ==
    ASSUME NEW n \in Nat, NEW k \in Nat \ {0}
    PROVE  n % k \in 0 .. k - 1 /\ (n < k => n % k = n)
OBVIOUS

LEMMA CopySteps ==
    ASSUME LauncherIInv, CopyBlock
    PROVE  /\ main.pc = "copy" /\ UNCHANGED <<rom, mem, keys, screen>>
           /\ LauncherTypeOK'
           /\ main'.pc = "copy" /\ main'.number = main.number
           /\ main'.size = main.size /\ main'.offset = main.offset
           /\ main'.ctr = main.ctr + 1 /\ main.ctr < Len(main.link)
           /\ main.ctr < LINK_AREA => main'.link = main.link /\ out' = out
           /\ main.ctr < AREAS =>
                 /\ ram'[main.ctr] = WordArea(rom[DataCell(main.link[main.ctr + 1])])
                 /\ \A k \in 0 .. AREAS - 1 : k # main.ctr => ram'[k] = ram[k]
<1> DEFINE n == main.ctr + 1
<1>1. /\ main.pc = "copy" /\ UNCHANGED <<rom, mem, keys, screen>>
      /\ main.ctr < Len(main.link)
      /\ ram' = [ram EXCEPT ![main.ctr % AREAS] = WordArea(rom[DataCell(main.link[n])])]
      /\ IF main.ctr < LINK_AREA
         THEN main' = [main EXCEPT !.ctr = main.ctr + 1]
         ELSE \E s \in Spilt :
                 main' = [main EXCEPT !.link = SubSeq(main.link, 1, n) \o s,
                                      !.ctr = main.ctr + 1]
      /\ IF main.ctr % AREAS = LINK_AREA
         THEN \E a \in SpiltAddresses : out' = [out EXCEPT !.deploy = a]
         ELSE UNCHANGED out
  BY DEF CopyBlock, Listing
<1>2. /\ rom \in Cartridges /\ rom \in Memory
      /\ RamTyped(ram) /\ OutTyped(out) /\ DOMAIN mem = Writable
      /\ KeysTyped(keys) /\ MainTyped(main) /\ ScreenTyped(screen)
      /\ main.link \in Seq(Locs) /\ main.ctr \in Nat
  BY <1>1, WhileLoading
<1>3. n \in 1 .. Len(main.link) /\ n \in Nat /\ n = main.ctr + 1
  <2>1. Len(main.link) \in Nat /\ main.ctr \in Nat
    BY <1>2
  <2>2. main.ctr < Len(main.link)
    BY <1>1
  <2> QED BY <2>1, <2>2
<1> HIDE DEF n
<1>4. main.link[n] \in Locs
  BY <1>2, <1>3, ElementOfSeq
<1>5. /\ main.ctr % AREAS \in 0 .. AREAS - 1
      /\ main.ctr < AREAS => main.ctr % AREAS = main.ctr
  BY <1>2, AreasInOrder, RemainderOf
<1>6. /\ RamTyped(ram')
      /\ ram'[main.ctr % AREAS] = WordArea(rom[DataCell(main.link[n])])
      /\ \A k \in 0 .. AREAS - 1 : k # main.ctr % AREAS => ram'[k] = ram[k]
  <2> DEFINE a == main.ctr % AREAS
             l == main.link[n]
  <2>1. ram' = [ram EXCEPT ![a] = WordArea(rom[DataCell(l)])]
    BY <1>1
  <2>2. a \in 0 .. AREAS - 1 /\ l \in Locs
    BY <1>4, <1>5
  <2> HIDE DEF a, l
  <2>3. rom \in Memory /\ RamTyped(ram)
    BY <1>2
  <2>4. /\ RamTyped(ram') /\ ram'[a] = WordArea(rom[DataCell(l)])
        /\ \A k \in 0 .. AREAS - 1 : k # a => ram'[k] = ram[k]
    BY <2>1, <2>2, <2>3, BlockTyped
  <2> QED BY <2>4 DEF a, l
<1>7. OutTyped(out') /\ (main.ctr < LINK_AREA => out' = out)
  <2>1. CASE main.ctr % AREAS = LINK_AREA
    <3>1. PICK a \in SpiltAddresses : out' = [out EXCEPT !.deploy = a]
      BY <1>1, <2>1
    <3>2. OutTyped(out')
      BY <1>2, <3>1, LauncherAssumption DEF OutTyped
    <3>3. ~(main.ctr < LINK_AREA)
      BY <1>2, <1>5, <2>1, AreasInOrder
    <3> QED BY <3>2, <3>3
  <2>2. CASE main.ctr % AREAS # LINK_AREA
    BY <1>1, <1>2, <2>2
  <2> QED BY <2>1, <2>2
<1>8. /\ MainTyped(main')
      /\ main'.pc = "copy" /\ main'.number = main.number
      /\ main'.size = main.size /\ main'.offset = main.offset
      /\ main'.ctr = main.ctr + 1
      /\ main.ctr < LINK_AREA => main'.link = main.link
  <2>1. CASE ~(main.ctr < LINK_AREA)
    <3>1. PICK s \in Spilt :
             main' = [main EXCEPT !.link = SubSeq(main.link, 1, n) \o s, !.ctr = main.ctr + 1]
      BY <1>1, <2>1
    <3> DEFINE t == SubSeq(main.link, 1, n) \o s
    <3>2. t \in Seq(Locs)
      BY <1>2, <1>3, SpiltTyped
    <3>3. main' = [main EXCEPT !.link = t, !.ctr = n]
      BY <1>3, <3>1
    <3> HIDE DEF t
    <3>4. MainTyped(main')
      BY <1>2, <1>3, <3>2, <3>3, StepTyped
    <3>5. /\ main'.pc = main.pc /\ main'.number = main.number
          /\ main'.size = main.size /\ main'.offset = main.offset
          /\ main'.ctr = n
      BY <1>2, <3>3 DEF MainTyped, Main
    <3> QED BY <1>1, <1>3, <2>1, <3>4, <3>5
  <2>2. CASE main.ctr < LINK_AREA
    <3>1. main' = [main EXCEPT !.ctr = n]
      BY <1>1, <1>3, <2>2
    <3>2. MainTyped(main')
      BY <1>2, <1>3, <3>1, StepTyped, EmptySeq
    <3>3. /\ main'.pc = main.pc /\ main'.number = main.number
          /\ main'.size = main.size /\ main'.offset = main.offset
          /\ main'.ctr = n /\ main'.link = main.link
      BY <1>2, <3>1 DEF MainTyped, Main
    <3> QED BY <1>1, <1>3, <3>2, <3>3
  <2> QED BY <2>1, <2>2
<1>9. LauncherTypeOK'
  BY <1>1, <1>2, <1>6, <1>7, <1>8, TypePartsNext
<1> QED BY <1>1, <1>3, <1>5, <1>6, <1>7, <1>8, <1>9

LEMMA CopyBlockKeeps ==
    ASSUME LauncherIInv, CopyBlock
    PROVE  LauncherIInv'
<1>1. /\ main.pc = "copy" /\ UNCHANGED <<rom, mem, keys, screen>>
      /\ LauncherTypeOK'
      /\ main'.pc = "copy" /\ main'.number = main.number
      /\ main'.size = main.size /\ main'.offset = main.offset
      /\ main'.ctr = main.ctr + 1 /\ main.ctr < Len(main.link)
      /\ main.ctr < LINK_AREA => main'.link = main.link /\ out' = out
      /\ main.ctr < AREAS =>
            /\ ram'[main.ctr] = WordArea(rom[DataCell(main.link[main.ctr + 1])])
            /\ \A k \in 0 .. AREAS - 1 : k # main.ctr => ram'[k] = ram[k]
  BY CopySteps
<1>2. /\ rom \in Cartridges /\ main.number \in 1 .. Len(Directory)
      /\ main.size = prgsize(Asked) /\ main.ctr \in Nat
  BY <1>1, WhileLoading
<1>3. Asked' = Asked /\ AskedChain' = AskedChain /\ Directory' = Directory
  BY <1>1, AskedKept, DirectoryKept
<1>4. ASSUME Len(AskedChain) <= LINK_AREA
      PROVE  /\ main'.link = AskedChain /\ out'.deploy = get_deploy_location(Asked)
             /\ main'.ctr <= Len(AskedChain)
             /\ Holds(ram', rom, AskedChain, main'.ctr)
  <2>1. /\ main.link = AskedChain /\ out.deploy = get_deploy_location(Asked)
        /\ Holds(ram, rom, AskedChain, main.ctr)
    BY <1>1, <1>4 DEF LauncherIInv, LoadIInv, RamHolds
  <2>2. Len(AskedChain) \in Nat
    BY <1>2, AskedIsThere
  <2>3. main.ctr < Len(AskedChain) /\ main.ctr < LINK_AREA /\ main.ctr < AREAS
    BY <1>1, <1>2, <1>4, <2>1, <2>2, AreasInOrder
  <2>4. ASSUME NEW k \in 1 .. main.ctr + 1
        PROVE  ram'[k - 1] = WordArea(rom[DataCell(AskedChain[k])])
    <3>1. CASE k = main.ctr + 1
      <4>1. k - 1 = main.ctr
        BY <1>2, <3>1
      <4> QED BY <1>1, <2>1, <2>3, <3>1, <4>1
    <3>2. CASE k # main.ctr + 1
      <4>1. k \in 1 .. main.ctr /\ k - 1 \in 0 .. AREAS - 1 /\ k - 1 # main.ctr
        BY <1>2, <2>3, <3>2, AreasInOrder
      <4> QED BY <1>1, <2>1, <2>3, <4>1 DEF Holds
    <3> QED BY <3>1, <3>2
  <2>5. Holds(ram', rom, AskedChain, main'.ctr)
    BY <1>1, <2>4 DEF Holds
  <2> QED BY <1>1, <1>2, <2>1, <2>2, <2>3, <2>5
<1>5. LoadIInv'
  <2>1. /\ main'.number \in 1 .. Len(Directory')
        /\ main'.size = HeaderSize(rom'[HdrCell(Asked')])
    BY <1>1, <1>2, <1>3 DEF prgsize
  <2>2. Len(AskedChain') <= LINK_AREA =>
            /\ main'.link = AskedChain'
            /\ out'.deploy = HeaderDeploy(rom'[HdrCell(Asked')])
            /\ main'.ctr <= Len(AskedChain')
            /\ Holds(ram', rom', AskedChain', main'.ctr)
    BY <1>1, <1>3, <1>4 DEF get_deploy_location
  <2> QED BY <1>1, <2>1, <2>2 DEF LoadIInv, Loading, prgsize, get_deploy_location, RamHolds
<1> QED BY <1>1, <1>5, LoadKeeps

\* The end of a load, whether it was checked or not.
LEMMA LoadedKeeps ==
    ASSUME LauncherIInv, Loaded, UNCHANGED <<rom, ram, mem, keys, screen>>,
           main.pc \in {"copy", "wait"}, main.ctr >= Len(main.link)
    PROVE  LauncherIInv'
<1>1. /\ rom \in Cartridges /\ Fits(main.offset)
      /\ RamTyped(ram) /\ OutTyped(out) /\ DOMAIN mem = Writable
      /\ KeysTyped(keys) /\ MainTyped(main) /\ ScreenTyped(screen)
      /\ main.number \in 1 .. Len(Directory) /\ main.size = prgsize(Asked)
      /\ main.ctr \in Nat
  BY WhileLoading
<1>2. /\ MainTyped(main') /\ OutTyped(out')
      /\ main'.pc = "loop" /\ main'.exit /\ main'.number = main.number
      /\ main'.offset = main.offset
      /\ out'.size = main.size /\ out'.deploy = out.deploy
  BY <1>1, LoadedIs
<1>3. LauncherTypeOK'
  BY <1>1, <1>2, TypePartsNext
<1>4. SetUp' /\ StartedIsAsked'
  BY <1>2, SetUpKept DEF LauncherIInv
<1>5. PageFits'
  BY <1>1, <1>2, FitsKept
<1>6. RowsAreNumbered' /\ LoadIInv'
  BY <1>2 DEF RowsAreNumbered, AtMenu, LoadIInv, Loading
<1>7. Asked' = Asked /\ AskedChain' = AskedChain /\ Directory' = Directory
  BY <1>2, AskedKept, DirectoryKept
<1>8. ASSUME Len(AskedChain) <= LIST_AREA
      PROVE  /\ out.deploy = HeaderDeploy(rom[HdrCell(Asked)])
             /\ Holds(ram, rom, AskedChain, Len(AskedChain))
  <2>1. Len(AskedChain) \in Nat /\ Len(AskedChain) <= LINK_AREA
    BY <1>1, <1>8, AskedIsThere, AreasInOrder
  <2>2. /\ main.link = AskedChain /\ out.deploy = get_deploy_location(Asked)
        /\ main.ctr <= Len(AskedChain) /\ RamHolds(main.ctr)
    BY <2>1 DEF LauncherIInv, LoadIInv
  <2>3. main.ctr = Len(AskedChain)
    BY <1>1, <2>1, <2>2
  <2> QED BY <2>2, <2>3 DEF RamHolds, get_deploy_location
<1>9. ReadyIInv'
  <2>1. /\ main'.number \in 1 .. Len(Directory')
        /\ out'.size = HeaderSize(rom'[HdrCell(Asked')])
    BY <1>1, <1>2, <1>7 DEF prgsize
  <2>2. Len(AskedChain') <= LIST_AREA =>
            /\ out'.deploy = HeaderDeploy(rom'[HdrCell(Asked')])
            /\ Holds(ram', rom', AskedChain', Len(AskedChain'))
    BY <1>2, <1>7, <1>8
  <2> QED BY <2>1, <2>2 DEF ReadyIInv, RamHolds, prgsize, get_deploy_location
<1> QED BY <1>3, <1>4, <1>5, <1>6, <1>9 DEF LauncherIInv

LEMMA FinishKeeps ==
    ASSUME LauncherIInv, FinishUnchecked \/ AnyKey
    PROVE  LauncherIInv'
<1>1. CASE FinishUnchecked
  <2>1. /\ main.pc = "copy" /\ main.ctr = Len(main.link)
        /\ Loaded /\ UNCHANGED <<rom, ram, mem, keys, screen>>
    BY <1>1 DEF FinishUnchecked, AllCopied
  <2>2. main.ctr >= Len(main.link)
    <3>1. main.ctr \in Nat
      BY <2>1, WhileLoading
    <3> QED BY <2>1, <3>1
  <2> QED BY <2>1, <2>2, LoadedKeeps
<1>2. CASE AnyKey
  <2>1. main.pc = "wait" /\ Loaded /\ UNCHANGED <<rom, ram, mem, keys, screen>>
    BY <1>2 DEF AnyKey
  <2>2. main.ctr >= Len(main.link)
    BY <2>1 DEF LauncherIInv, LoadIInv
  <2> QED BY <2>1, <2>2, LoadedKeeps
<1> QED BY <1>1, <1>2

LEMMA ValidateKeeps ==
    ASSUME LauncherIInv, ValidateLinkedList
    PROVE  LauncherIInv'
<1> DEFINE green == [k \in DOMAIN main.link |-> CheckWord(k)]
<1>1. /\ main.pc = "copy" /\ main.ctr = Len(main.link)
      /\ screen' = [screen EXCEPT !.green = green]
      /\ keys' = <<>> /\ main' = [main EXCEPT !.pc = "wait"]
      /\ UNCHANGED <<rom, ram, out, mem>>
  BY DEF ValidateLinkedList, AllCopied
<1>2. /\ rom \in Cartridges /\ RamTyped(ram) /\ OutTyped(out) /\ DOMAIN mem = Writable
      /\ MainTyped(main) /\ ScreenTyped(screen)
      /\ main.number \in 1 .. Len(Directory) /\ main.size = prgsize(Asked)
      /\ main.link \in Seq(Locs) /\ main.ctr \in Nat
  BY <1>1, WhileLoading
<1>3. green \in Seq(BOOLEAN)
  <2>1. DOMAIN main.link = 1 .. Len(main.link) /\ Len(main.link) \in Nat
    BY <1>2
  <2>2. \A k \in 1 .. Len(main.link) : CheckWord(k) \in BOOLEAN
    BY DEF CheckWord
  <2> QED BY <2>1, <2>2
<1> HIDE DEF green
<1>4. ScreenTyped(screen') /\ screen'.green = green
  BY <1>1, <1>2, <1>3 DEF ScreenTyped
<1>5. /\ MainTyped(main') /\ main'.pc = "wait" /\ main'.number = main.number
      /\ main'.link = main.link /\ main'.size = main.size /\ main'.ctr = main.ctr
      /\ main'.offset = main.offset
  <2>1. MainTyped(main')
    BY <1>1, <1>2, StepTyped, EmptySeq
  <2> QED BY <1>1, <1>2, <2>1 DEF MainTyped, Main
<1>6. LauncherTypeOK'
  BY <1>1, <1>2, <1>4, <1>5, NoneTyped, TypePartsNext
<1>7. Asked' = Asked /\ AskedChain' = AskedChain /\ Directory' = Directory
  BY <1>1, <1>5, AskedKept, DirectoryKept
<1>8. LoadIInv'
  <2>1. /\ main'.number \in 1 .. Len(Directory')
        /\ main'.size = HeaderSize(rom'[HdrCell(Asked')])
    BY <1>1, <1>2, <1>5, <1>7 DEF prgsize
  <2>2. ASSUME Len(AskedChain) <= LINK_AREA
        PROVE  /\ main.link = AskedChain /\ out.deploy = HeaderDeploy(rom[HdrCell(Asked)])
               /\ main.ctr <= Len(AskedChain) /\ Holds(ram, rom, AskedChain, main.ctr)
    BY <1>1, <2>2 DEF LauncherIInv, LoadIInv, RamHolds, get_deploy_location
  <2>3. Len(AskedChain') <= LINK_AREA =>
            /\ main'.link = AskedChain'
            /\ out'.deploy = HeaderDeploy(rom'[HdrCell(Asked')])
            /\ main'.ctr <= Len(AskedChain')
            /\ Holds(ram', rom', AskedChain', main'.ctr)
    BY <1>1, <1>5, <1>7, <2>2
  <2>4. screen'.green = [k \in DOMAIN main'.link |->
                            LET a == ram'[(k - 1) % AREAS]
                            IN  a.kind = "word" /\ Crc16(a.word) = rom'[CrcCell(main'.link[k])]]
    BY <1>1, <1>4, <1>5 DEF green, CheckWord
  <2>5. main'.ctr >= Len(main'.link)
    BY <1>1, <1>2, <1>5
  <2> QED BY <1>1, <1>5, <2>1, <2>3, <2>4, <2>5
          DEF LoadIInv, Loading, prgsize, get_deploy_location, RamHolds, CheckWord
<1> QED BY <1>1, <1>5, <1>6, <1>8, LoadKeeps

LEMMA ValidateSpiltKeeps ==
    ASSUME LauncherIInv, ValidateSpilt
    PROVE  LauncherIInv'
<1>1. /\ main.pc = "copy" /\ main.ctr = Len(main.link) /\ main.ctr > LINK_AREA
      /\ keys' = <<>> /\ main' = [main EXCEPT !.pc = "wait"]
      /\ UNCHANGED <<rom, ram, out, mem, screen>>
  BY DEF ValidateSpilt, AllCopied
<1>2. /\ rom \in Cartridges /\ RamTyped(ram) /\ OutTyped(out) /\ DOMAIN mem = Writable
      /\ MainTyped(main) /\ ScreenTyped(screen)
      /\ main.number \in 1 .. Len(Directory) /\ main.size = prgsize(Asked)
      /\ main.link \in Seq(Locs) /\ main.ctr \in Nat
  BY <1>1, WhileLoading
<1>3. /\ MainTyped(main') /\ main'.pc = "wait" /\ main'.number = main.number
      /\ main'.link = main.link /\ main'.size = main.size /\ main'.ctr = main.ctr
      /\ main'.offset = main.offset
  <2>1. MainTyped(main')
    BY <1>1, <1>2, StepTyped, EmptySeq
  <2> QED BY <1>1, <1>2, <2>1 DEF MainTyped, Main
<1>4. LauncherTypeOK'
  BY <1>1, <1>2, <1>3, NoneTyped, TypePartsNext
<1>5. Asked' = Asked /\ AskedChain' = AskedChain /\ Directory' = Directory
  BY <1>1, <1>3, AskedKept, DirectoryKept
<1>6. LoadIInv'
  <2>1. /\ main'.number \in 1 .. Len(Directory')
        /\ main'.size = HeaderSize(rom'[HdrCell(Asked')])
    BY <1>1, <1>2, <1>3, <1>5 DEF prgsize
  <2>2. ~(Len(AskedChain) <= LINK_AREA)
    <3>1. Len(AskedChain) <= LINK_AREA => main.link = AskedChain
      BY <1>1 DEF LauncherIInv, LoadIInv
    <3> QED BY <1>1, <1>2, <3>1, AreasInOrder
  <2>3. main'.ctr >= Len(main'.link) /\ ~(main'.ctr <= LINK_AREA)
    BY <1>1, <1>2, <1>3, AreasInOrder
  <2> QED BY <1>3, <1>5, <2>1, <2>2, <2>3 DEF LoadIInv, Loading, prgsize
<1> QED BY <1>1, <1>3, <1>4, <1>6, LoadKeeps

-----------------------------------------------------------------------------
(***************************************************************************)
(* The start of a program.                                                 *)
(***************************************************************************)
LEMMA BlockOfByte ==
    ASSUME NEW k \in Nat \ {0}, NEW n \in Nat, NEW j \in Nat, j < k * n
    PROVE  j \div k \in 0 .. n - 1
<1> DEFINE q == j \div k
           r == j % k
<1>1. q \in Nat /\ r \in 0 .. k - 1 /\ j = k * q + r
  OBVIOUS
<1> HIDE DEF q, r
<1>2. q < n
  <2>1. SUFFICES ASSUME n <= q PROVE FALSE
    BY <1>1
  <2>2. k * n <= k * q
    <3>1. q - n \in Nat /\ k * q = k * n + k * (q - n)
      BY <1>1, <2>1
    <3>2. k * (q - n) \in Nat /\ k * n \in Nat
      BY <3>1
    <3> QED BY <3>1, <3>2
  <2>3. k * q \in Nat /\ k * n \in Nat
    BY <1>1
  <2> QED BY <1>1, <2>2, <2>3
<1>3. q \in 0 .. n - 1
  BY <1>1, <1>2
<1> QED BY <1>3 DEF q

LEMMA FileIs ==
    ASSUME NEW l \in DOMAIN FilesOn(rom)
    PROVE  /\ FilesOn(rom)[l] = Held(rom, l) /\ Sound(rom, l)
           /\ DOMAIN Held(rom, l) = DOMAIN ChainOf(rom, l)
BY FilesOnIs DEF Held

LEMMA AskedFile ==
    ASSUME rom \in Cartridges, main.number \in 1 .. Len(Directory),
           Asked \in DOMAIN FilesOn(rom)
    PROVE  /\ Len(FilesOn(rom)[Asked]) = Len(AskedChain) /\ Sound(rom, Asked)
           /\ \A k \in 1 .. Len(AskedChain) :
                 FilesOn(rom)[Asked][k] = rom[DataCell(AskedChain[k])]
<1>1. FilesOn(rom)[Asked] = Held(rom, Asked) /\ Sound(rom, Asked)
  BY FileIs
<1>2. AskedChain \in Seq(Locs) /\ Len(AskedChain) \in Nat
      /\ DOMAIN AskedChain = 1 .. Len(AskedChain)
  BY AskedIsThere
<1>3. Held(rom, Asked) = [i \in 1 .. Len(AskedChain) |-> rom[DataCell(AskedChain[i])]]
  BY <1>2 DEF Held, AskedChain
<1> HIDE DEF AskedChain
<1>4. Len(Held(rom, Asked)) = Len(AskedChain)
  BY <1>2, <1>3
<1> QED BY <1>1, <1>3, <1>4

LEMMA MemoryInOrder ==
    /\ MEMSIZE \in Nat \ {0} /\ DEPLOYADDR \in Writable /\ DEPLOYADDR + 1 \in Writable
    /\ BootVariables \subseteq Writable /\ BasicPointers \subseteq Writable
    /\ DEPLOYADDR \notin BasicPointers /\ DEPLOYADDR + 1 \notin BasicPointers
    /\ DEPLOYADDR \in BootVariables /\ DEPLOYADDR + 1 \in BootVariables
    /\ HOOK \in BootVariables /\ DEPLOYADDR \in Nat /\ BASICSTART \in Nat /\ BASICEND \in Nat
    /\ BASICSTART + 2 <= BASICEND /\ Writable \subseteq Nat
BY MemoryAssumption DEF DEPLOYADDR, Writable, BootVariables, BasicPointers

\* The deploy address that is written is the one the copy takes.
LEMMA PutIs ==
    ASSUME NEW p, DOMAIN p = Writable, NEW d \in Address, NEW put,
           put = PutWord(p, DEPLOYADDR, d)
    PROVE  /\ WordAt(put, DEPLOYADDR) = d
           /\ \A a \in Writable \ BootVariables : put[a] = p[a]
<1>1. put = [p EXCEPT ![DEPLOYADDR] = Lo(d), ![DEPLOYADDR + 1] = Hi(d)]
  BY DEF PutWord
<1>2. /\ DEPLOYADDR \in Nat /\ DEPLOYADDR \in Writable /\ DEPLOYADDR + 1 \in Writable
      /\ DEPLOYADDR \in BootVariables /\ DEPLOYADDR + 1 \in BootVariables
  BY MemoryInOrder
<1>3. put[DEPLOYADDR] = Lo(d) /\ put[DEPLOYADDR + 1] = Hi(d)
  <2>1. DEPLOYADDR # DEPLOYADDR + 1
    BY <1>2
  <2> QED BY <1>1, <1>2, <2>1
<1>4. WordAt(put, DEPLOYADDR) = d
  BY <1>3, MemoryAssumption DEF WordAt
<1>5. \A a \in Writable \ BootVariables : put[a] = p[a]
  BY <1>1, <1>2
<1> QED BY <1>4, <1>5

\* new is m with z bytes of r deployed at d.
Deploys(new, m, r, d, z) ==
    /\ \A a \in Writable \ BasicPointers :
          /\ Offset(a, d) < Count(z) => new[a] = r[Offset(a, d)]
          /\ ~(Offset(a, d) < Count(z)) /\ a \notin Screen \cup BootVariables =>
                new[a] = m[a]
    /\ ~(Offset(DEPLOYADDR, d) < Count(z)) /\ ~(Offset(DEPLOYADDR + 1, d) < Count(z)) =>
          /\ WordAt(new, BASICSTART) = d
          /\ \A i \in {0, 2, 4} : WordAt(new, BASICEND + i) = (d + z) % MEMSIZE

\* What the bootstrap's copy makes of a memory.
LEMMA Deployed ==
    ASSUME NEW m, DOMAIN m = Writable, NEW r, NEW d \in Address, NEW z \in Address,
           NEW o, o.deploy = d, o.size = z
    PROVE  Deploys(loadrom(m, r, o), m, r, d, z)
<1> DEFINE p      == printmsg(m, "Launching program")
           put    == PutWord(p, DEPLOYADDR, d)
           new    == loadrom(m, r, o)
           copied == Copied(put, r, d, z)
           start  == WordAt(copied, DEPLOYADDR)
           end    == (start + z) % MEMSIZE
<1>1. /\ WordAt(put, DEPLOYADDR) = d
      /\ \A a \in Writable \ (Screen \cup BootVariables) : put[a] = m[a]
  <2>1. DOMAIN p = Writable /\ \A a \in Writable \ Screen : p[a] = m[a]
    BY DEF printmsg
  <2> HIDE DEF p
  <2>2. put = PutWord(p, DEPLOYADDR, d)
    OBVIOUS
  <2> HIDE DEF put
  <2>3. /\ WordAt(put, DEPLOYADDR) = d
        /\ \A a \in Writable \ BootVariables : put[a] = p[a]
    BY <2>1, <2>2, PutIs
  <2> QED BY <2>1, <2>3
<1>2. new = [a \in Writable |->
                CASE a = BASICSTART     -> Lo(start)
                  [] a = BASICSTART + 1 -> Hi(start)
                  [] a \in {BASICEND, BASICEND + 2, BASICEND + 4}     -> Lo(end)
                  [] a \in {BASICEND + 1, BASICEND + 3, BASICEND + 5} -> Hi(end)
                  [] OTHER -> copied[a]]
  <2>1. new = copydata(put, r, z)
    BY DEF loadrom
  <2> HIDE DEF put
  <2> QED BY <1>1, <2>1 DEF copydata
<1>3. \A a \in Writable :
          copied[a] = IF Offset(a, d) < Count(z) THEN r[Offset(a, d)] ELSE put[a]
  BY DEF Copied
<1> HIDE DEF new, copied, start, end
<1>4. \A a \in Writable \ BasicPointers : new[a] = copied[a]
  <2>1. ASSUME NEW a \in Writable \ BasicPointers
        PROVE  /\ a # BASICSTART /\ a # BASICSTART + 1
               /\ a \notin {BASICEND, BASICEND + 2, BASICEND + 4}
               /\ a \notin {BASICEND + 1, BASICEND + 3, BASICEND + 5}
    BY MemoryInOrder DEF BasicPointers
  <2> QED BY <1>2, <2>1
<1>5. ASSUME ~(Offset(DEPLOYADDR, d) < Count(z)),
             ~(Offset(DEPLOYADDR + 1, d) < Count(z))
      PROVE  /\ WordAt(new, BASICSTART) = d
             /\ \A i \in {0, 2, 4} : WordAt(new, BASICEND + i) = (d + z) % MEMSIZE
  <2>1. start = d
    <3>1. copied[DEPLOYADDR] = put[DEPLOYADDR] /\ copied[DEPLOYADDR + 1] = put[DEPLOYADDR + 1]
      <4>1. ASSUME NEW x \in Writable, ~(Offset(x, d) < Count(z))
            PROVE  copied[x] = put[x]
        BY <1>3, <4>1
      <4>2. DEPLOYADDR \in Writable /\ DEPLOYADDR + 1 \in Writable
        BY MemoryInOrder
      <4> DEFINE x == DEPLOYADDR + 1
      <4>3. copied[x] = put[x]
        <5>1. x \in Writable /\ ~(Offset(x, d) < Count(z))
          BY <1>5, <4>2
        <5> HIDE DEF x
        <5> QED BY <4>1, <5>1
      <4>4. copied[DEPLOYADDR] = put[DEPLOYADDR]
        BY <1>5, <4>1, <4>2
      <4> QED BY <4>3, <4>4
    <3> QED BY <1>1, <3>1 DEF start, WordAt
  <2>2. end = (d + z) % MEMSIZE /\ end \in Address
    <3>1. d + z \in Nat /\ MEMSIZE \in Nat \ {0}
      BY MemoryInOrder DEF Address
    <3>2. (d + z) % MEMSIZE \in 0 .. MEMSIZE - 1
      BY <3>1, RemainderOf
    <3> QED BY <2>1, <3>2 DEF end, Address
  <2>3. /\ BASICSTART \in Writable /\ BASICSTART + 1 \in Writable
        /\ \A i \in {0, 2, 4} : BASICEND + i \in Writable /\ BASICEND + i + 1 \in Writable
    BY MemoryInOrder DEF BasicPointers
  <2>4. new[BASICSTART] = Lo(d) /\ new[BASICSTART + 1] = Hi(d)
    BY <1>2, <2>1, <2>3, MemoryInOrder
  <2>5. WordAt(new, BASICSTART) = d
    BY <2>4, MemoryAssumption DEF WordAt
  <2>6. ASSUME NEW i \in {0, 2, 4} PROVE WordAt(new, BASICEND + i) = (d + z) % MEMSIZE
    <3>1. new[BASICEND + i] = Lo(end)
      <4>1. /\ BASICEND + i # BASICSTART /\ BASICEND + i # BASICSTART + 1
            /\ BASICEND + i \in {BASICEND, BASICEND + 2, BASICEND + 4}
        BY MemoryInOrder
      <4> DEFINE x == BASICEND + i
      <4>2. x \in Writable
        BY <2>3
      <4> HIDE DEF x
      <4>3. new[x] = Lo(end)
        <5>1. /\ x # BASICSTART /\ x # BASICSTART + 1
              /\ x \in {BASICEND, BASICEND + 2, BASICEND + 4}
          BY <4>1 DEF x
        <5> QED BY <1>2, <4>2, <5>1, MemoryInOrder, SMTT(30)
      <4> QED BY <4>3 DEF x
    <3>2. new[BASICEND + i + 1] = Hi(end)
      <4>1. /\ BASICEND + i + 1 # BASICSTART /\ BASICEND + i + 1 # BASICSTART + 1
            /\ BASICEND + i + 1 \notin {BASICEND, BASICEND + 2, BASICEND + 4}
            /\ BASICEND + i + 1 \in {BASICEND + 1, BASICEND + 3, BASICEND + 5}
        BY MemoryInOrder
      <4> DEFINE x == BASICEND + i + 1
      <4>2. x \in Writable
        BY <2>3
      <4> HIDE DEF x
      <4>3. new[x] = Hi(end)
        <5>1. /\ x # BASICSTART /\ x # BASICSTART + 1
              /\ x \notin {BASICEND, BASICEND + 2, BASICEND + 4}
              /\ x \in {BASICEND + 1, BASICEND + 3, BASICEND + 5}
          BY <4>1 DEF x
        <5> QED BY <1>2, <4>2, <5>1
      <4> QED BY <4>3 DEF x
    <3> QED BY <2>2, <3>1, <3>2, MemoryAssumption DEF WordAt
  <2> QED BY <2>5, <2>6
<1>6. ASSUME NEW a \in Writable \ BasicPointers
      PROVE  /\ Offset(a, d) < Count(z) => new[a] = r[Offset(a, d)]
             /\ ~(Offset(a, d) < Count(z)) /\ a \notin Screen \cup BootVariables =>
                   new[a] = m[a]
  BY <1>1, <1>3, <1>4
<1>7. Deploys(new, m, r, d, z)
  BY <1>5, <1>6 DEF Deploys
<1> QED BY <1>7 DEF new

\* What the launcher leaves of the memory when it returns.
LEMMA LeftBehind ==
    ASSUME NEW a \in Writable \ (Screen \cup BootVariables)
    PROVE  zeroram(loadcode(Cold, LauncherImage))[a] = IF a \in CodeArea THEN ZERO ELSE Cold[a]
<1> DEFINE c == [Cold EXCEPT ![HOOK] = ZERO]
           m == printmsg(c, "Booting launcher")
<1>1. DOMAIN Cold = Writable /\ a # HOOK
  BY StartedTyped, MemoryInOrder
<1>2. c[a] = Cold[a]
  BY <1>1
<1> HIDE DEF c
<1>3. m[a] = Cold[a]
  BY <1>2 DEF printmsg
<1>4. loadcode(Cold, LauncherImage)
          = [x \in Writable |-> IF x \in CodeArea THEN LauncherImage[x - EXCODE] ELSE m[x]]
  BY DEF loadcode, c
<1> HIDE DEF m
<1> QED BY <1>3, <1>4 DEF zeroram

\* Memory m holds the program that was asked for.
HasProgram(m) ==
    /\ \A a \in Writable \ BasicPointers :
          /\ Covers(a) /\ InData(a) => m[a] = AskedByte(a)
          /\ ~Covers(a) /\ a \notin Screen \cup BootVariables =>
                m[a] = IF a \in CodeArea THEN ZERO ELSE Cold[a]
    /\ ~Covers(DEPLOYADDR) /\ ~Covers(DEPLOYADDR + 1) =>
          /\ WordAt(m, BASICSTART) = get_deploy_location(Asked)
          /\ \A i \in {0, 2, 4} :
                WordAt(m, BASICEND + i) = (get_deploy_location(Asked) + AskedSize) % MEMSIZE

LEMMA BytesStarted ==
    ASSUME LauncherIInv, main.pc = "reset", main.exit, AskedSafe,
           NEW new, new = loadrom(zeroram(mem), ramByte, out)
    PROVE  HasProgram(new)
<1> DEFINE n == Len(AskedChain)
           z == prgsize(Asked)
           d == get_deploy_location(Asked)
           left == zeroram(loadcode(Cold, LauncherImage))
<1>1. /\ rom \in Cartridges /\ rom \in Memory
      /\ main.number \in 1 .. Len(Directory) /\ mem = loadcode(Cold, LauncherImage)
  <2>1. rom \in Cartridges /\ rom \in Memory
    BY WhileOn
  <2> QED BY <2>1 DEF LauncherIInv, ReadyIInv, SetUp
<1>2. /\ Len(AskedData) = n /\ n <= LIST_AREA
      /\ \A k \in 1 .. n : AskedData[k] = rom[DataCell(AskedChain[k])]
  BY <1>1, AskedFile DEF AskedSafe, AskedData
<1>3. Asked \in Locs /\ n \in Nat \ {0}
  BY <1>1, AskedIsThere
<1>4. out.deploy = d /\ out.size = z /\ Holds(ram, rom, AskedChain, n)
  BY <1>2 DEF LauncherIInv, ReadyIInv, RamHolds, AskedSafe
<1>5. d \in Address /\ z \in Address /\ MEMSIZE \in Nat \ {0} /\ BLOCKBYTES \in Nat \ {0}
  BY <1>1, <1>3, HeaderTyped, MemoryAssumption, LauncherAssumption
<1> HIDE DEF n, z, d, left
<1>6. DOMAIN left = Writable /\ left = zeroram(mem)
  BY <1>1 DEF left, zeroram
<1>7. /\ \A a \in Writable \ BasicPointers :
             /\ Offset(a, d) < Count(z) => new[a] = ramByte[Offset(a, d)]
             /\ ~(Offset(a, d) < Count(z)) /\ a \notin Screen \cup BootVariables => new[a] = left[a]
      /\ ~(Offset(DEPLOYADDR, d) < Count(z)) /\ ~(Offset(DEPLOYADDR + 1, d) < Count(z))
         => /\ WordAt(new, BASICSTART) = d
            /\ \A i \in {0, 2, 4} : WordAt(new, BASICEND + i) = (d + z) % MEMSIZE
  <2> HIDE DEF ramByte
  <2>1. new = loadrom(left, ramByte, out)
    BY <1>6
  <2>2. Deploys(new, left, ramByte, d, z)
    BY <1>4, <1>5, <1>6, <2>1, Deployed
  <2> QED BY <2>2 DEF Deploys
<1>8. \A a : /\ Covers(a) <=> Offset(a, d) < Count(z)
             /\ InData(a) <=> Offset(a, d) < BLOCKBYTES * n
             /\ AskedByte(a) = ByteOf(WordArea(AskedData[1 + Offset(a, d) \div BLOCKBYTES]),
                                      Offset(a, d) % BLOCKBYTES)
  BY <1>2 DEF Covers, InData, AskedByte, AskedOffset, Extent, AskedSize, Count, d, z
<1>9. ASSUME NEW a \in Writable \ BasicPointers, InData(a)
      PROVE  ramByte[Offset(a, d)] = AskedByte(a)
  <2> DEFINE j == Offset(a, d)
             q == j \div BLOCKBYTES
  <2>1. j \in Address /\ j \in Nat
    BY <1>5, MemoryInOrder DEF Offset, Address
  <2>2. j < BLOCKBYTES * n
    BY <1>8, <1>9
  <2>3. q \in 0 .. n - 1
    BY <1>3, <1>5, <2>1, <2>2, BlockOfByte
  <2>4. ramByte[j] = ByteOf(ram[q % AREAS], j % BLOCKBYTES)
    BY <2>1 DEF ramByte
  <2>5. AskedByte(a) = ByteOf(WordArea(AskedData[1 + q]), j % BLOCKBYTES)
    BY <1>8
  <2> HIDE DEF q, j
  <2>6. q \in Nat /\ q < AREAS /\ 1 + q \in 1 .. n /\ (1 + q) - 1 = q
    BY <1>2, <1>3, <2>3, AreasInOrder
  <2>7. q % AREAS = q
    BY <2>6, AreasInOrder, RemainderOf
  <2>8. ram[q] = WordArea(rom[DataCell(AskedChain[1 + q])])
    BY <1>4, <2>6 DEF Holds
  <2>9. AskedData[1 + q] = rom[DataCell(AskedChain[1 + q])]
    BY <1>2, <2>6
  <2>10. ramByte[j] = AskedByte(a)
    BY <2>4, <2>5, <2>7, <2>8, <2>9
  <2> QED BY <2>10 DEF j
<1>10. \A a \in Writable \ (Screen \cup BootVariables) :
          left[a] = IF a \in CodeArea THEN ZERO ELSE Cold[a]
  BY LeftBehind DEF left
<1>11. ASSUME NEW a \in Writable \ BasicPointers
       PROVE  /\ Covers(a) /\ InData(a) => new[a] = AskedByte(a)
              /\ ~Covers(a) /\ a \notin Screen \cup BootVariables =>
                    new[a] = IF a \in CodeArea THEN ZERO ELSE Cold[a]
  <2>1. ASSUME Covers(a), InData(a) PROVE new[a] = AskedByte(a)
    <3> HIDE DEF ramByte
    <3>1. new[a] = ramByte[Offset(a, d)]
      BY <1>7, <1>8, <2>1
    <3> QED BY <1>9, <2>1, <3>1
  <2>2. ASSUME ~Covers(a), a \notin Screen \cup BootVariables
        PROVE  new[a] = IF a \in CodeArea THEN ZERO ELSE Cold[a]
    BY <1>7, <1>8, <1>10, <2>2
  <2> QED BY <2>1, <2>2
<1>12. ASSUME ~Covers(DEPLOYADDR), ~Covers(DEPLOYADDR + 1)
       PROVE  /\ WordAt(new, BASICSTART) = d
              /\ \A i \in {0, 2, 4} : WordAt(new, BASICEND + i) = (d + z) % MEMSIZE
  BY <1>7, <1>8, <1>12
<1> QED BY <1>11, <1>12 DEF HasProgram, AskedSize, d, z

\* What it was started with does not depend on what else there is.
LEMMA StartedKept ==
    ASSUME rom' = rom, Asked' = Asked, AskedSafe => HasProgram(mem')
    PROVE  StartedIsAsked'
BY DEF StartedIsAsked, HasProgram, AskedSafe, AskedData, AskedSize, Extent, Covers, InData,
       AskedByte, AskedOffset, prgsize, get_deploy_location

LEMMA ForgetKeysKeeps ==
    ASSUME LauncherIInv, ForgetKeys
    PROVE  LauncherIInv'
<1>1. /\ main.pc = "reset" /\ keys' = <<>> /\ UNCHANGED <<rom, ram, out, screen>>
      /\ IF main.exit
         THEN /\ main' = [Started EXCEPT !.pc = "running", !.number = main.number]
              /\ mem' = loadrom(zeroram(mem), ramByte, out)
         ELSE /\ main' = [main EXCEPT !.pc = "loop", !.pos = 1]
              /\ UNCHANGED mem
  BY DEF ForgetKeys
<1>2. /\ rom \in Cartridges /\ Fits(main.offset)
      /\ RamTyped(ram) /\ OutTyped(out) /\ DOMAIN mem = Writable
      /\ MainTyped(main) /\ ScreenTyped(screen)
  BY <1>1, WhileOn
<1>3. CASE main.exit
  <2>1. /\ main' = [Started EXCEPT !.pc = "running", !.number = main.number]
        /\ mem' = loadrom(zeroram(mem), ramByte, out)
    BY <1>1, <1>3
  <2>2. /\ MainTyped(main') /\ main'.pc = "running" /\ main'.number = main.number
        /\ ~main'.exit /\ main'.offset = 0
    BY <1>2, <2>1, RunningTyped
  <2>3. DOMAIN mem' = Writable
    BY <2>1 DEF loadrom, copydata
  <2>4. LauncherTypeOK'
    BY <1>1, <1>2, <2>2, <2>3, NoneTyped, TypePartsNext
  <2>5. SetUp' /\ PageFits' /\ RowsAreNumbered' /\ LoadIInv' /\ ReadyIInv'
    BY <1>1, <1>2, <2>2
       DEF SetUp, PageFits, Fits, RowsAreNumbered, AtMenu, LoadIInv, Loading, ReadyIInv
  <2>6. Asked' = Asked
    BY <1>1, <2>2, AskedKept
  <2>7. AskedSafe => HasProgram(mem')
    BY <1>1, <1>3, <2>1, BytesStarted
  <2>8. StartedIsAsked'
    BY <1>1, <2>6, <2>7, StartedKept
  <2> QED BY <2>4, <2>5, <2>8 DEF LauncherIInv
<1>4. CASE ~main.exit
  <2>1. main' = [main EXCEPT !.pc = "loop", !.pos = 1] /\ mem' = mem
    BY <1>1, <1>4
  <2>2. MainTyped(main')
    BY <1>2, <2>1, StepTyped, EmptySeq
  <2>3. /\ main'.pc = "loop" /\ main'.exit = main.exit
        /\ main'.number = main.number /\ main'.offset = main.offset
    BY <1>2, <2>1, <2>2 DEF MainTyped, Main
  <2>4. LauncherTypeOK'
    BY <1>1, <1>2, <2>1, <2>2, NoneTyped, TypePartsNext
  <2>5. RowsAreNumbered'
    BY <1>1, <1>4, NumberedKept DEF LauncherIInv, AtMenu
  <2>6. ReadyIInv'
    BY <1>4, <2>3 DEF ReadyIInv
  <2> QED BY <1>1, <1>2, <2>1, <2>3, <2>4, <2>5, <2>6, MenuKeeps
<1> QED BY <1>3, <1>4

LEMMA StutterKeeps ==
    ASSUME LauncherIInv, UNCHANGED launcherVars
    PROVE  LauncherIInv'
<1>0. UNCHANGED <<rom, ram, out, mem, keys, main, screen>>
  BY DEF launcherVars
<1>1. Directory' = Directory /\ Asked' = Asked /\ AskedChain' = AskedChain
  BY <1>0, DirectoryKept, AskedKept
<1>2. LauncherTypeOK' /\ SetUp'
  BY <1>0 DEF LauncherIInv, LauncherTypeOK, SetUp
<1>3. PageFits' /\ RowsAreNumbered'
  BY <1>0, <1>1, NumberedKept DEF LauncherIInv, PageFits, Fits, AtMenu
<1>4. LoadIInv'
  BY <1>0, <1>1 DEF LauncherIInv, LoadIInv, Loading, RamHolds, CheckWord, prgsize,
                    get_deploy_location
<1>5. ReadyIInv'
  BY <1>0, <1>1 DEF LauncherIInv, ReadyIInv, RamHolds, prgsize, get_deploy_location
<1>6. StartedIsAsked'
  <2>1. CASE main.pc = "running"
    <3>1. AskedSafe => HasProgram(mem')
      BY <1>0, <2>1 DEF LauncherIInv, StartedIsAsked, HasProgram
    <3> QED BY <1>0, <1>1, <3>1, StartedKept
  <2>2. CASE main.pc # "running"
    BY <1>0, <2>2 DEF StartedIsAsked
  <2> QED BY <2>1, <2>2
<1> QED BY <1>2, <1>3, <1>4, <1>5, <1>6 DEF LauncherIInv

LEMMA LauncherKeeps == LauncherIInv /\ [LauncherNext]_launcherVars => LauncherIInv'
<1> SUFFICES ASSUME LauncherIInv, [LauncherNext]_launcherVars PROVE LauncherIInv'
  OBVIOUS
<1>1. CASE SwitchOn
  BY <1>1, SwitchOnKeeps
<1>2. CASE Boot
  BY <1>2, BootKeeps
<1>3. CASE \E k \in Key : Press(k)
  BY <1>3, PressKeeps
<1>4. CASE PageDown \/ PageUp
  BY <1>4, ScrollKeeps
<1>5. CASE ToggleValidation \/ TypeDigit \/ Backspace \/ RoundDone
  BY <1>5, KeysKeep
<1>6. CASE EnterInvalid
  BY <1>6, EnterInvalidKeeps
<1>7. CASE EnterNumber
  BY <1>7, EnterNumberKeeps
<1>8. CASE ForgetKeys
  BY <1>8, ForgetKeysKeeps
<1>9. CASE BuildLinkedList
  BY <1>9, BuildLinkedListKeeps
<1>10. CASE CopyBlock
  BY <1>10, CopyBlockKeeps
<1>11. CASE FinishUnchecked \/ AnyKey
  BY <1>11, FinishKeeps
<1>12. CASE ValidateLinkedList
  BY <1>12, ValidateKeeps
<1>13. CASE ValidateSpilt
  BY <1>13, ValidateSpiltKeeps
<1>14. CASE UNCHANGED launcherVars
  BY <1>14, StutterKeeps
<1> QED BY <1>1, <1>2, <1>3, <1>4, <1>5, <1>6, <1>7, <1>8, <1>9, <1>10, <1>11, <1>12, <1>13,
          <1>14
        DEF LauncherNext, LoadSteps

-----------------------------------------------------------------------------
(***************************************************************************)
(* Theorems.                                                               *)
(***************************************************************************)
\* The invariant the theorems below follow from (main, handle_keybuffer and
\* what they call, programs.c 79-447).
THEOREM LauncherInvariance == LauncherSpec => []LauncherIInv
BY LauncherStarts, LauncherKeeps, PTL DEF LauncherSpec

\* The variables of main and of the memory it works in keep their types.
THEOREM LauncherTyped == LauncherSpec => []LauncherTypeOK
<1>1. LauncherIInv => LauncherTypeOK
  BY DEF LauncherIInv
<1> QED BY <1>1, LauncherInvariance, PTL

\* However the pages are scrolled, a row shows the program its number loads,
\* and no row is missing (read_programs_offset, find_bankblock).
THEOREM RowsNumbered == LauncherSpec => []RowsAreNumbered
<1>1. LauncherIInv => RowsAreNumbered
  BY DEF LauncherIInv
<1> QED BY <1>1, LauncherInvariance, PTL

\* What BASIC starts is the program asked for, byte for byte and no longer
\* than its header says, whatever that is and wherever it goes; BASIC's
\* pointers enclose it (handle_keybuffer_return, copyprogramlinkedlist, loadrom
\* and copydata).
THEOREM AskedIsStarted == LauncherSpec => []StartedIsAsked
<1>1. LauncherIInv => StartedIsAsked
  BY DEF LauncherIInv
<1> QED BY <1>1, LauncherInvariance, PTL

\* A block is green if and only if its checksum is right.
LEMMA ColoursTell ==
    ASSUME LauncherIInv, main.pc = "wait", Len(AskedChain) <= LINK_AREA
    PROVE  /\ DOMAIN screen.green = DOMAIN AskedChain
           /\ \A k \in DOMAIN AskedChain :
                 /\ ram[k - 1] = WordArea(rom[DataCell(AskedChain[k])])
                 /\ screen.green[k] <=> Crc16(rom[DataCell(AskedChain[k])])
                                            = rom[CrcCell(AskedChain[k])]
<1>1. /\ rom \in Cartridges /\ main.number \in 1 .. Len(Directory) /\ main.ctr \in Nat
  BY WhileLoading
<1>2. /\ main.link = AskedChain /\ main.ctr <= Len(AskedChain) /\ RamHolds(main.ctr)
      /\ main.ctr >= Len(main.link)
      /\ main.ctr <= LINK_AREA =>
             screen.green = [k \in DOMAIN main.link |-> CheckWord(k)]
  BY DEF LauncherIInv, LoadIInv
<1>3. Len(AskedChain) \in Nat /\ DOMAIN AskedChain = 1 .. Len(AskedChain)
  BY <1>1, AskedIsThere
<1>4. Holds(ram, rom, AskedChain, Len(AskedChain))
  <2>1. main.ctr = Len(AskedChain)
    BY <1>1, <1>2, <1>3
  <2> QED BY <1>2, <2>1 DEF RamHolds
<1>5. screen.green = [k \in DOMAIN AskedChain |-> CheckWord(k)]
  <2>1. main.ctr <= LINK_AREA
    BY <1>1, <1>2, <1>3, AreasInOrder
  <2> QED BY <1>2, <2>1
<1>6. ASSUME NEW k \in DOMAIN AskedChain
      PROVE  /\ ram[k - 1] = WordArea(rom[DataCell(AskedChain[k])])
             /\ screen.green[k] <=> Crc16(rom[DataCell(AskedChain[k])])
                                        = rom[CrcCell(AskedChain[k])]
  <2>1. ram[k - 1] = WordArea(rom[DataCell(AskedChain[k])])
    BY <1>3, <1>4 DEF Holds
  <2>2. k - 1 \in Nat /\ k - 1 < AREAS
    BY <1>3, AreasInOrder
  <2>3. (k - 1) % AREAS = k - 1
    BY <2>2, AreasInOrder, RemainderOf
  <2>4. CheckWord(k) <=> Crc16(rom[DataCell(AskedChain[k])]) = rom[CrcCell(AskedChain[k])]
    BY <1>2, <2>1, <2>3 DEF CheckWord, WordArea
  <2> QED BY <1>5, <2>1, <2>4
<1> QED BY <1>5, <1>6

\* The colours tell whether what was loaded is what was written
\* (validatelinkedlist).
THEOREM GreenMeansLoaded == LauncherSpec => []GreenIsLoaded
<1>1. ASSUME LauncherIInv PROVE GreenIsLoaded
  <2>1. SUFFICES ASSUME main.pc = "wait", Len(AskedChain) <= LINK_AREA
        PROVE  /\ Asked \in DOMAIN FilesOn(rom) =>
                      \A k \in DOMAIN screen.green : screen.green[k]
               /\ (\A k \in DOMAIN screen.green : screen.green[k]) =>
                      \A k \in DOMAIN AskedChain :
                          /\ ram[k - 1] = WordArea(rom[DataCell(AskedChain[k])])
                          /\ Crc16(rom[DataCell(AskedChain[k])]) = rom[CrcCell(AskedChain[k])]
    BY DEF GreenIsLoaded, AskedChain
  <2>2. /\ DOMAIN screen.green = DOMAIN AskedChain
        /\ \A k \in DOMAIN AskedChain :
              /\ ram[k - 1] = WordArea(rom[DataCell(AskedChain[k])])
              /\ screen.green[k] <=> Crc16(rom[DataCell(AskedChain[k])])
                                         = rom[CrcCell(AskedChain[k])]
    BY <1>1, <2>1, ColoursTell
  <2>3. ASSUME Asked \in DOMAIN FilesOn(rom), NEW k \in DOMAIN AskedChain
        PROVE  Crc16(rom[DataCell(AskedChain[k])]) = rom[CrcCell(AskedChain[k])]
    BY <2>3, FileIs DEF Sound, Good, AskedChain
  <2> QED BY <2>2, <2>3
<1> QED BY <1>1, LauncherInvariance, PTL

=============================================================================
