----------------------------- MODULE SlotsProofs -----------------------------
(***************************************************************************)
(* Theorems about the slots of MainWindow, for any boards, files and       *)
(* capacity of a chip.                                                     *)
(***************************************************************************)
EXTENDS Slots, SequenceTheorems, TLAPS

(***************************************************************************)
(* The inductive invariant.                                                *)
(***************************************************************************)
\* What needs a board, or the number of banks, is enabled only when it is known.
KnownWhenUsed ==
    /\ serial = None => enabled \subseteq {"scan", "rows", "select"} /\ ~banks /\ old = None
    /\ "access" \in enabled => banks

\* A synchronization has a FAT, and every button waits for it.
SyncAlone == sync => fat # None /\ enabled = {}

\* Without a FAT nothing that uses one is enabled, shown or under way.
NoFat ==
    fat = None => \/ "declined" \in mishaps
                  \/ /\ enabled \cap {"add", "format", "save_all"} = {}
                     /\ table = <<>> /\ shown = None /\ loop = None

\* Between two slots no interface keeps its port open.
PortsFree ==
    "unidentified" \notin mishaps =>
        /\ stuck = {}
        /\ serial # None => serial.state # "open"
        /\ old # None => old.state # "open"

RowsMatch == "rows" \in enabled /\ fat # None => table \in {<<>>, fat.files}

SlotsIInv ==
    /\ SlotsTypeOK
    /\ KnownWhenUsed
    /\ SyncAlone
    /\ NoFat
    /\ PortsFree
    /\ RowsMatch
    /\ NullAfterDecline
    /\ PortAfterFailure

\* The FAT that a synchronization brings differs from the one there is by the
\* change that is being written; as long as Save all has met no delete, a file
\* can only have moved to a later place.
Settled == fat # None /\ ~sync => fat.next = fat.files
MovedOn ==
    loop # None /\ fat # None /\ ~loop.cut =>
        \A m \in DOMAIN fat.files :
            \E q \in DOMAIN fat.next : q >= m /\ fat.next[q] = fat.files[m]

\* What Save all has found at its start has been come to, or is still ahead.
SavedOrAhead ==
    loop # None /\ fat # None /\ ~loop.cut =>
        \A n \in DOMAIN loop.first :
            \/ loop.first[n] \in loop.saved \cup loop.unopened
            \/ \E m \in DOMAIN fat.files : m >= loop.i /\ fat.files[m] = loop.first[n]

SaveAllIInv == Settled /\ MovedOn /\ SavedOrAhead

-----------------------------------------------------------------------------
(***************************************************************************)
(* Directories.                                                            *)
(***************************************************************************)
LEMMA DirectoryIs ==
    ASSUME NEW s
    PROVE  s \in Directory <=> /\ s \in Seq(Files) /\ Len(s) <= MaxFiles
                               /\ \A i, j \in 1 .. Len(s) : s[i] = s[j] => i = j
  <1>1. s \in BoundedSeq(Files, MaxFiles) <=> s \in Seq(Files) /\ Len(s) <= MaxFiles
    <2>1. ASSUME s \in BoundedSeq(Files, MaxFiles)
          PROVE  s \in Seq(Files) /\ Len(s) <= MaxFiles
      <3>1. PICK m \in 0 .. MaxFiles : s \in [1 .. m -> Files]
        BY <2>1 DEF BoundedSeq, SeqOf
      <3>2. s \in Seq(Files) /\ Len(s) = m
        BY <3>1, SlotsAssumption
      <3> QED BY <3>2, SlotsAssumption
    <2>2. ASSUME s \in Seq(Files), Len(s) <= MaxFiles
          PROVE  s \in BoundedSeq(Files, MaxFiles)
      <3>1. Len(s) \in 0 .. MaxFiles /\ s \in [1 .. Len(s) -> Files]
        BY <2>2, SlotsAssumption
      <3> QED BY <3>1 DEF BoundedSeq, SeqOf
    <2> QED BY <2>1, <2>2
  <1>2. s \in Seq(Files) => DOMAIN s = 1 .. Len(s)
    OBVIOUS
  <1> QED BY <1>1, <1>2 DEF Directory, IsInjective

LEMMA EmptyDirectory == <<>> \in Directory
  <1> DEFINE s == <<>>
  <1>1. s \in Seq(Files) /\ Len(s) = 0
    OBVIOUS
  <1> HIDE DEF s
  <1>2. Len(s) <= MaxFiles /\ \A i, j \in 1 .. Len(s) : s[i] = s[j] => i = j
    BY <1>1, SlotsAssumption
  <1> QED BY <1>1, <1>2, DirectoryIs DEF s

LEMMA RemoveKeeps ==
    ASSUME NEW s \in Directory, NEW r \in DOMAIN s
    PROVE  RemoveAt(s, r) \in Directory
  <1> DEFINE t == RemoveAt(s, r)
             u == SubSeq(s, 1, r - 1)
             v == SubSeq(s, r + 1, Len(s))
  <1>1. /\ s \in Seq(Files) /\ Len(s) \in Nat /\ Len(s) <= MaxFiles
        /\ r \in 1 .. Len(s)
        /\ \A i, j \in 1 .. Len(s) : s[i] = s[j] => i = j
        /\ \A i \in 1 .. Len(s) : s[i] \in Files
    BY DirectoryIs
  <1>2. /\ u \in Seq(Files) /\ Len(u) = r - 1
        /\ \A i \in 1 .. r - 1 : u[i] = s[i]
    BY <1>1, SubSeqProperties
  <1>3. /\ v \in Seq(Files) /\ Len(v) = Len(s) - r
        /\ \A i \in 1 .. Len(s) - r : v[i] = s[r + i]
    BY <1>1, SubSeqProperties
  <1>4. t = u \o v
    BY DEF RemoveAt
  <1> HIDE DEF t, u, v
  <1>5. /\ t \in Seq(Files) /\ Len(t) = Len(s) - 1
        /\ \A i \in 1 .. Len(t) : t[i] = IF i < r THEN s[i] ELSE s[i + 1]
    BY <1>1, <1>2, <1>3, <1>4, ConcatProperties
  <1>6. ASSUME NEW i \in 1 .. Len(t), NEW j \in 1 .. Len(t), t[i] = t[j]
        PROVE  i = j
    BY <1>1, <1>5, <1>6
  <1>7. t \in Directory
    BY <1>1, <1>5, <1>6, DirectoryIs, SlotsAssumption
  <1> QED BY <1>7 DEF t

LEMMA InsertKeeps ==
    ASSUME NEW s \in Directory, Len(s) < MaxFiles,
           NEW f \in Files \ Range(s), NEW k \in 1 .. Len(s) + 1
    PROVE  /\ InsertAt(s, k, f) \in Directory
           /\ \A m \in DOMAIN s : \E q \in DOMAIN InsertAt(s, k, f) :
                 q >= m /\ InsertAt(s, k, f)[q] = s[m]
  <1> DEFINE t == InsertAt(s, k, f)
             u == SubSeq(s, 1, k - 1)
             v == SubSeq(s, k, Len(s))
             e == <<f>>
             w == u \o e
  <1>1. /\ s \in Seq(Files) /\ Len(s) \in Nat
        /\ \A i, j \in 1 .. Len(s) : s[i] = s[j] => i = j
        /\ \A i \in 1 .. Len(s) : s[i] \in Files /\ s[i] # f
    BY DirectoryIs DEF Range
  <1>2. /\ u \in Seq(Files) /\ Len(u) = k - 1
        /\ \A i \in 1 .. k - 1 : u[i] = s[i]
    BY <1>1, SubSeqProperties
  <1>3. /\ v \in Seq(Files) /\ Len(v) = Len(s) - k + 1
        /\ \A i \in 1 .. Len(s) - k + 1 : v[i] = s[k + i - 1]
    BY <1>1, SubSeqProperties
  <1>4. e \in Seq(Files) /\ Len(e) = 1 /\ e[1] = f
    OBVIOUS
  <1>5. t = w \o v
    BY DEF InsertAt
  <1> HIDE DEF t, u, v, e
  <1>6. /\ w \in Seq(Files) /\ Len(w) = k
        /\ \A i \in 1 .. k : w[i] = IF i < k THEN s[i] ELSE f
    <2>1. /\ w \in Seq(Files) /\ Len(w) = Len(u) + Len(e)
          /\ \A i \in 1 .. Len(u) + Len(e) :
                w[i] = IF i <= Len(u) THEN u[i] ELSE e[i - Len(u)]
      BY <1>2, <1>4, ConcatProperties
    <2> HIDE DEF w
    <2>2. \A i \in 1 .. k : w[i] = IF i < k THEN s[i] ELSE f
      BY <1>2, <1>4, <2>1
    <2> QED BY <1>2, <1>4, <2>1, <2>2
  <1> HIDE DEF w
  <1>7. /\ t \in Seq(Files) /\ Len(t) = Len(s) + 1
        /\ \A i \in 1 .. Len(t) :
              t[i] = IF i < k THEN s[i] ELSE IF i = k THEN f ELSE s[i - 1]
    <2>1. /\ t \in Seq(Files) /\ Len(t) = Len(w) + Len(v)
          /\ \A i \in 1 .. Len(w) + Len(v) :
                t[i] = IF i <= Len(w) THEN w[i] ELSE v[i - Len(w)]
      BY <1>3, <1>5, <1>6, ConcatProperties
    <2>2. Len(t) = Len(s) + 1
      BY <1>1, <1>3, <1>6, <2>1
    <2>3. ASSUME NEW i \in 1 .. Len(t)
          PROVE  t[i] = IF i < k THEN s[i] ELSE IF i = k THEN f ELSE s[i - 1]
      <3>1. i \in Nat /\ i <= Len(s) + 1 /\ k \in Nat /\ k <= Len(s) + 1
        BY <1>1, <2>2
      <3>2. CASE i <= k
        BY <1>6, <2>1, <2>2, <3>1, <3>2
      <3>3. CASE i > k
        <4>1. t[i] = v[i - k] /\ i - k \in 1 .. Len(s) - k + 1
          BY <1>1, <1>6, <2>1, <2>2, <3>1, <3>3
        <4>2. k + (i - k) - 1 = i - 1
          BY <3>1
        <4> QED BY <1>3, <3>1, <3>3, <4>1, <4>2
      <3> QED BY <3>1, <3>2, <3>3
    <2> QED BY <2>1, <2>2, <2>3
  <1>8. ASSUME NEW i \in 1 .. Len(t), NEW j \in 1 .. Len(t), t[i] = t[j]
        PROVE  i = j
    <2>1. \A n \in 1 .. Len(t) :
             \/ n < k /\ n \in 1 .. Len(s) /\ t[n] = s[n]
             \/ n = k /\ t[n] = f
             \/ n > k /\ n - 1 \in 1 .. Len(s) /\ t[n] = s[n - 1]
      BY <1>1, <1>7
    <2>2. i \in Nat /\ j \in Nat /\ k \in Nat
      BY <1>1, <1>7
    <2>3. CASE i = k \/ j = k
      BY <1>1, <1>8, <2>1, <2>2, <2>3
    <2>4. CASE (i < k /\ j < k) \/ (i > k /\ j > k)
      BY <1>1, <1>8, <2>1, <2>2, <2>4
    <2>5. CASE (i < k /\ j > k) \/ (i > k /\ j < k)
      BY <1>1, <1>8, <2>1, <2>2, <2>5
    <2> QED BY <2>2, <2>3, <2>4, <2>5
  <1>9. t \in Directory
    BY <1>1, <1>7, <1>8, DirectoryIs, SlotsAssumption
  <1>10. ASSUME NEW m \in DOMAIN s
         PROVE  \E q \in DOMAIN t : q >= m /\ t[q] = s[m]
    <2>1. /\ m \in 1 .. Len(s) /\ m + 1 \in 1 .. Len(t) /\ m \in 1 .. Len(t)
          /\ DOMAIN t = 1 .. Len(t)
      BY <1>1, <1>7
    <2>2. CASE m < k
      BY <1>7, <2>1, <2>2
    <2>3. CASE m >= k
      <3>1. t[m + 1] = s[m]
        BY <1>1, <1>7, <2>1, <2>3
      <3> QED BY <2>1, <3>1
    <2> QED BY <1>1, <2>1, <2>2, <2>3
  <1> QED BY <1>9, <1>10 DEF t
-----------------------------------------------------------------------------
(***************************************************************************)
(* Interfaces and the file shown.                                          *)
(***************************************************************************)
LEMMA InterfaceKept ==
    ASSUME NEW s \in Interface, NEW o
    PROVE  /\ Opened(s, o) \in Interface
           /\ Opened(s, o).port = s.port /\ Opened(s, o).kept = s.kept
           /\ Closed(s) \in Interface /\ Closed(s).state = "closed"
           /\ Closed(s).port = s.port /\ Closed(s).kept = s.kept
           /\ s # None
  <1>1. s # None
    BY SlotsAssumption
  <1>2. s = [port |-> s.port, state |-> s.state, kept |-> s.kept]
        /\ s.port \in Ports /\ s.state \in {"closed", "open", "dead"} /\ s.kept \in BOOLEAN
    BY DEF Interface
  <1> QED BY <1>1, <1>2 DEF Opened, Closed, Interface

LEMMA FatCases ==
    ASSUME SlotsTypeOK, fat # None
    PROVE  /\ fat \in Fat /\ fat.files \in Directory /\ fat.next \in Directory
           /\ banks
  BY DEF SlotsTypeOK, Fat

LEMMA DirectoryMember ==
    ASSUME NEW s \in Directory
    PROVE  /\ DOMAIN s = 1 .. Len(s) /\ Len(s) \in 0 .. MaxFiles
           /\ \A i \in DOMAIN s : s[i] \in Files /\ s[i] # None
           /\ DOMAIN s \subseteq 1 .. MaxFiles
  <1>1. s \in Seq(Files) /\ Len(s) <= MaxFiles /\ MaxFiles \in Nat
    BY DirectoryIs, SlotsAssumption
  <1> QED BY <1>1, SlotsAssumption

\* The FAT closes one of the two ports, and leaves the rest of both alone.
LEMMA FatClosesKeeps ==
    ASSUME SlotsTypeOK, serial # None, FatCloses
    PROVE  /\ serial' \in Interface /\ serial' # None /\ serial'.port = serial.port
           /\ old' \in Interface \cup {None}
           /\ serial.state # "open" => serial'.state # "open"
           /\ old # None /\ old' # None => (old.state # "open" => old'.state # "open")
           /\ old' = None <=> old = None
  <1>1. serial \in Interface /\ (old # None => old \in Interface)
    BY DEF SlotsTypeOK
  <1>2. CASE old = None
    BY <1>1, <1>2, InterfaceKept DEF FatCloses
  <1>3. CASE old # None
    BY <1>1, <1>3, InterfaceKept DEF FatCloses
  <1> QED BY <1>2, <1>3

LEMMA NewFatIs ==
    ASSUME NEW files \in Directory, NewFat(files), enabled \subseteq Button
    PROVE  /\ fat' \in Fat /\ fat' # None /\ fat'.files = files
           /\ table' = files /\ enabled' \subseteq Button /\ "access" \notin enabled'
           /\ mishaps' = mishaps
  <1>1. fat' = [files |-> files, next |-> files]
    BY DEF NewFat
  <1>2. fat' \in Fat /\ fat'.files = files
    BY <1>1 DEF Fat
  <1> QED BY <1>2, SlotsAssumption DEF NewFat, Indexed, Button

LEMMA StartSyncIs ==
    ASSUME SlotsTypeOK, fat # None, NEW next \in Directory, StartSync(next)
    PROVE  /\ fat' \in Fat /\ fat' # None /\ fat'.files = fat.files
           /\ sync' = TRUE /\ enabled' = {}
           /\ FatCloses
  <1>1. fat' = [fat EXCEPT !.next = next]
    BY DEF StartSync
  <1>2. fat' \in Fat /\ fat'.files = fat.files
    BY <1>1, FatCases DEF Fat
  <1> QED BY <1>2, SlotsAssumption DEF StartSync, Disabled, Button, SlotsTypeOK

LEMMA LoopKept ==
    ASSUME SlotsTypeOK, Cut
    PROVE  loop' \in Activation \cup {None} /\ (loop' = None <=> loop = None)
  <1>1. CASE loop = None
    BY <1>1 DEF Cut
  <1>2. CASE loop # None
    <2>1. loop \in Activation /\ loop' = [loop EXCEPT !.cut = TRUE]
      BY <1>2 DEF SlotsTypeOK, Cut
    <2>2. loop' \in Activation
      BY <2>1 DEF Activation
    <2> QED BY <1>2, <2>2, SlotsAssumption
  <1> QED BY <1>1, <1>2

\* What there is of a port while one is being used.
LEMMA SelectPortKeeps ==
    ASSUME SlotsIInv, NEW p \in Ports,
           NEW buttons \in {enabled, enabled \cup {"select"}}, SelectPort(p, buttons)
    PROVE  /\ serial' \in Interface \cup {None} /\ old' \in Interface \cup {None}
           /\ stuck' \subseteq Ports
           /\ enabled \subseteq enabled' /\ enabled' \subseteq enabled \cup {"identify", "select"}
           /\ \/ status' = status /\ serial' # None
              \/ /\ status' = "noport" /\ "unidentified" \in mishaps
                 /\ enabled' \subseteq enabled \cup {"select"}
                 /\ UNCHANGED <<serial, old>>
           /\ PortsFree /\ "unidentified" \notin mishaps =>
                 /\ stuck' = {}
                 /\ serial' # None => serial'.state # "open"
                 /\ old' # None => old'.state # "open"
  <1> DEFINE held == fat # None /\ old = None
             before == IF held THEN serial ELSE old
             gone == IF held THEN {} ELSE Abandoned(serial)
  <1>1. serial \in Interface \cup {None} /\ old \in Interface \cup {None} /\ stuck \subseteq Ports
    BY DEF SlotsIInv, SlotsTypeOK
  <1>2. before \in Interface \cup {None}
    BY <1>1
  <1>3. gone \subseteq Ports
    BY <1>1 DEF Abandoned, Interface
  <1>4. "unidentified" \notin mishaps =>
            gone = {} /\ stuck = {} /\ (before # None => before.state # "open")
    BY <1>1 DEF SlotsIInv, PortsFree, Abandoned
  <1>5. SelectedPort(p) \in Interface /\ SelectedPort(p) # None
        /\ SelectedPort(p).state = "closed"
    <2>1. SelectedPort(p) \in Interface /\ SelectedPort(p).state = "closed"
      BY DEF SelectedPort, Interface
    <2> QED BY <2>1, InterfaceKept
  <1>6. CASE p \in stuck \cup gone \/ (before # None /\ before.port = p /\ before.state = "open")
    BY <1>1, <1>4, <1>6 DEF SelectPort, PortsFree
  <1>7. CASE ~(p \in stuck \cup gone \/ (before # None /\ before.port = p /\ before.state = "open"))
    <2>1. /\ serial' = SelectedPort(p)
          /\ old' = before /\ stuck' = stuck \cup gone
          /\ enabled' = buttons \cup {"identify"}
          /\ status' = status
      BY <1>7 DEF SelectPort
    <2> QED BY <1>1, <1>2, <1>3, <1>4, <1>5, <2>1
  <1> QED BY <1>6, <1>7

\* What a board is needed for is never reached without one.
LEMMA SerialThere ==
    ASSUME SlotsIInv,
           fat # None \/ sync \/ \E b \in Button \ AtFirst : b # "select" /\ b \in enabled
    PROVE  serial # None /\ serial \in Interface
  <1>1. serial # None
    BY DEF SlotsIInv, KnownWhenUsed, SyncAlone, SlotsTypeOK, AtFirst
  <1> QED BY <1>1 DEF SlotsIInv, SlotsTypeOK

-----------------------------------------------------------------------------
(***************************************************************************)
(* Every slot preserves the invariant.                                     *)
(***************************************************************************)
\* A slot that ends the program changes nothing else.
LEMMA EndKeeps ==
    ASSUME SlotsIInv, NEW why \in {"quit", "failed", "null", "range"}, End(why),
           why = "null" => "declined" \in mishaps
    PROVE  SlotsIInv'
  <1>1. /\ status' = why
        /\ UNCHANGED <<ports, serial, old, stuck, banks, fat, table, enabled, shown,
                       selected, sync, dialog, loop, mishaps>>
    BY DEF End, guiVars, viewVars
  <1> QED BY <1>1
       DEF SlotsIInv, SlotsTypeOK, KnownWhenUsed, SyncAlone, NoFat, PortsFree, RowsMatch,
           NullAfterDecline, PortAfterFailure

LEMMA NullUsedKeeps ==
    ASSUME SlotsIInv, NullUsed
    PROVE  SlotsIInv'
  <1>1. "declined" \in mishaps
    BY DEF SlotsIInv, NoFat, NullUsed, Pressed, Up
  <1> QED BY <1>1, EndKeeps DEF NullUsed

LEMMA SelectionKeeps ==
    ASSUME SlotsIInv, ports' \subseteq Ports, NEW p \in Ports, ~sync,
           NEW buttons \in {enabled, enabled \cup {"select"}}, SelectPort(p, buttons),
           UNCHANGED <<banks, fat, table, sync, mishaps, viewVars, loop>>
    PROVE  SlotsIInv'
  <1>1. UNCHANGED <<banks, fat, table, sync, mishaps, shown, selected, dialog, loop>>
    BY DEF viewVars
  <1>2. SlotsTypeOK'
    <2>1. SlotsTypeOK /\ (status' = status \/ status' = "noport")
      BY SelectPortKeeps DEF SlotsIInv
    <2>2. /\ serial' \in Interface \cup {None} /\ old' \in Interface \cup {None}
          /\ stuck' \subseteq Ports /\ enabled' \subseteq enabled \cup {"identify", "select"}
      BY SelectPortKeeps
    <2> QED BY <1>1, <2>1, <2>2 DEF SlotsTypeOK, Button
  <1>3. KnownWhenUsed'
    BY <1>1, SelectPortKeeps DEF SlotsIInv, KnownWhenUsed
  <1>4. SyncAlone' /\ NoFat' /\ RowsMatch'
    <2>1. \A b \in {"add", "format", "save_all", "rows"} : b \in enabled' => b \in enabled
      BY SelectPortKeeps
    <2>2. SyncAlone' /\ RowsMatch'
      BY <1>1, <2>1 DEF SlotsIInv, SyncAlone, RowsMatch
    <2>3. NoFat'
      BY <1>1, <2>1 DEF SlotsIInv, NoFat
    <2> QED BY <2>2, <2>3
  <1>5. PortsFree' /\ NullAfterDecline' /\ PortAfterFailure'
    BY <1>1, SelectPortKeeps DEF SlotsIInv, PortsFree, NullAfterDecline, PortAfterFailure
  <1> QED BY <1>2, <1>3, <1>4, <1>5 DEF SlotsIInv

LEMMA ScanKeeps ==
    ASSUME SlotsIInv, scan_com_devices
    PROVE  SlotsIInv'
  <1>1. PICK found \in SUBSET Ports :
            /\ ports' = found
            /\ \/ \E p \in found : SelectPort(p, enabled \cup {"select"})
               \/ /\ enabled' = IF found = {} THEN enabled ELSE enabled \cup {"select"}
                  /\ UNCHANGED <<status, serial, old, stuck>>
    BY DEF scan_com_devices
  <1>2. UNCHANGED <<banks, fat, table, sync, mishaps, viewVars, loop>>
    BY DEF scan_com_devices
  <1>3. ~sync
    BY DEF SlotsIInv, SyncAlone, scan_com_devices, Pressed
  <1>4. CASE \E p \in found : SelectPort(p, enabled \cup {"select"})
    BY <1>1, <1>2, <1>3, <1>4, SelectionKeeps
  <1>5. CASE /\ enabled' = IF found = {} THEN enabled ELSE enabled \cup {"select"}
             /\ UNCHANGED <<status, serial, old, stuck>>
    <2>1. UNCHANGED <<banks, fat, table, sync, mishaps, shown, selected, dialog, loop>>
      BY <1>2 DEF viewVars
    <2> QED BY <1>1, <1>3, <1>5, <2>1
         DEF Button, SlotsIInv, SlotsTypeOK, KnownWhenUsed, SyncAlone, NoFat, PortsFree, RowsMatch,
           NullAfterDecline, PortAfterFailure
  <1> QED BY <1>1, <1>4, <1>5

LEMMA SelectKeeps ==
    ASSUME SlotsIInv, select_com_port
    PROVE  SlotsIInv'
  <1>1. PICK p \in ports : SelectPort(p, enabled)
    BY DEF select_com_port
  <1>2. ports' = ports /\ ports \subseteq Ports
    BY DEF select_com_port, SlotsIInv, SlotsTypeOK
  <1>3. UNCHANGED <<banks, fat, table, sync, mishaps, viewVars, loop>>
    BY DEF select_com_port
  <1>4. ~sync
    BY DEF SlotsIInv, SyncAlone, select_com_port, Pressed
  <1> QED BY <1>1, <1>2, <1>3, <1>4, SelectionKeeps

LEMMA IdentifyKeeps ==
    ASSUME SlotsIInv, read_chip_id
    PROVE  SlotsIInv'
  <1>1. /\ serial \in Interface /\ serial' \in Interface /\ serial' # None
        /\ serial'.state = "closed"
    BY SerialThere, InterfaceKept DEF read_chip_id, Pressed, Button, AtFirst
  <1>2. UNCHANGED <<status, ports, old, stuck, fat, sync, mishaps, shown, selected,
                    dialog, loop>>
    BY DEF read_chip_id, viewVars
  <1>3. ~sync
    BY DEF SlotsIInv, SyncAlone, read_chip_id, Pressed
  <1>4. \/ banks' = TRUE /\ table' = <<>> /\ enabled' = enabled \cup {"access"}
        \/ UNCHANGED <<banks, table, enabled>>
    BY DEF read_chip_id
  <1> QED BY <1>1, <1>2, <1>3, <1>4, EmptyDirectory
       DEF Button, SlotsIInv, SlotsTypeOK, KnownWhenUsed, SyncAlone, NoFat, PortsFree, RowsMatch,
           NullAfterDecline, PortAfterFailure

LEMMA IdentifyFailsKeeps ==
    ASSUME SlotsIInv, IdentifyFails
    PROVE  SlotsIInv'
  <1>1. serial' \in Interface /\ serial' # None
    BY SerialThere, InterfaceKept DEF IdentifyFails, Pressed, Button, AtFirst
  <1>2. UNCHANGED <<status, ports, old, stuck, banks, fat, table, enabled, sync, shown,
                    selected, dialog, loop>>
    BY DEF IdentifyFails, viewVars
  <1>3. mishaps' = mishaps \cup {"unidentified"}
    BY DEF IdentifyFails
  <1> QED BY <1>1, <1>2, <1>3
       DEF SlotsIInv, SlotsTypeOK, KnownWhenUsed, SyncAlone, NoFat, PortsFree, RowsMatch,
           NullAfterDecline, PortAfterFailure

\* What building the FAT anew does to the ports.
LEMMA RebuiltKeeps ==
    ASSUME SlotsIInv, "access" \in enabled \/ fat # None,
           Rebuilt \/ Formatted, serial' = Closed(serial)
    PROVE  /\ serial' \in Interface /\ serial' # None /\ serial'.state = "closed"
           /\ old' = None /\ stuck' \subseteq Ports
           /\ "unidentified" \notin mishaps => stuck' = {}
  <1>1. serial \in Interface
    BY SerialThere DEF Button, AtFirst
  <1>2. Abandoned(old) \subseteq Ports /\ ("unidentified" \notin mishaps => Abandoned(old) = {})
    BY DEF Abandoned, SlotsIInv, SlotsTypeOK, PortsFree, Interface
  <1> QED BY <1>1, <1>2, InterfaceKept DEF Rebuilt, Formatted, SlotsIInv, SlotsTypeOK, PortsFree

LEMMA NewFatKeeps ==
    ASSUME SlotsIInv, "access" \in enabled \/ fat # None, ~sync,
           Rebuilt \/ Formatted, serial' = Closed(serial),
           NEW files \in Directory, NewFat(files), Cut,
           UNCHANGED <<status, ports, banks, sync, viewVars>>
    PROVE  SlotsIInv'
  <1>1. /\ serial' \in Interface /\ serial' # None /\ serial'.state = "closed"
        /\ old' = None /\ stuck' \subseteq Ports
        /\ "unidentified" \notin mishaps => stuck' = {}
    BY RebuiltKeeps
  <1>2. /\ fat' \in Fat /\ fat' # None /\ fat'.files = files
        /\ table' = files /\ enabled' \subseteq Button /\ "access" \notin enabled'
        /\ mishaps' = mishaps
    BY NewFatIs DEF SlotsIInv, SlotsTypeOK
  <1>3. loop' \in Activation \cup {None}
    BY LoopKept DEF SlotsIInv
  <1>4. UNCHANGED <<status, ports, banks, sync, shown, selected, dialog>>
    BY DEF viewVars
  <1>5. banks = TRUE
    BY DEF SlotsIInv, KnownWhenUsed, SlotsTypeOK
  <1> QED BY <1>1, <1>2, <1>3, <1>4, <1>5
       DEF SlotsIInv, SlotsTypeOK, KnownWhenUsed, SyncAlone, NoFat, PortsFree, RowsMatch,
           NullAfterDecline, PortAfterFailure

LEMMA AccessKeeps ==
    ASSUME SlotsIInv, slot_access_fat
    PROVE  SlotsIInv'
  <1>1. PICK files \in Directory : NewFat(files)
    BY DEF slot_access_fat
  <1>2. "access" \in enabled /\ ~sync
    BY DEF SlotsIInv, SyncAlone, slot_access_fat, Pressed
  <1> QED BY <1>1, <1>2, NewFatKeeps DEF slot_access_fat

LEMMA FormatKeeps ==
    ASSUME SlotsIInv, slot_format_rom
    PROVE  SlotsIInv'
  <1>1. fat # None /\ ~sync
    BY DEF SlotsIInv, SyncAlone, slot_format_rom, Pressed, Formatted, CanFormat
  <1>2. PICK files \in Directory : NewFat(files)
    BY EmptyDirectory DEF slot_format_rom
  <1> QED BY <1>1, <1>2, NewFatKeeps DEF slot_format_rom

LEMMA DeclineKeeps ==
    ASSUME SlotsIInv, DeclineFormat
    PROVE  SlotsIInv'
  <1>1. ("access" \in enabled \/ fat # None) /\ ~sync
    BY DEF SlotsIInv, SyncAlone, DeclineFormat, Pressed, Formatted, CanFormat
  <1>2. /\ serial' \in Interface /\ serial' # None /\ serial'.state = "closed"
        /\ old' = None /\ stuck' \subseteq Ports
        /\ "unidentified" \notin mishaps => stuck' = {}
    BY <1>1, RebuiltKeeps DEF DeclineFormat
  <1>3. loop' \in Activation \cup {None}
    BY LoopKept DEF SlotsIInv, DeclineFormat
  <1>4. /\ fat' = None /\ mishaps' = mishaps \cup {"declined"}
        /\ enabled' = enabled \cup {"access", "identify"}
        /\ UNCHANGED <<status, ports, banks, table, sync, shown, selected, dialog>>
    BY DEF DeclineFormat, viewVars
  <1> QED BY <1>1, <1>2, <1>3, <1>4
       DEF Button, SlotsIInv, SlotsTypeOK, KnownWhenUsed, SyncAlone, NoFat, PortsFree, RowsMatch,
           NullAfterDecline, PortAfterFailure

\* Slots that read the FAT: what becomes of the ports is all there is.
LEMMA ReadKeeps ==
    ASSUME SlotsIInv, fat # None, FatCloses,
           NEW s \in Files \cup {None}, shown' = s,
           selected' \in 0 .. MaxFiles, dialog' \in Files \cup {None},
           loop' \in Activation \cup {None},
           UNCHANGED <<status, ports, stuck, banks, fat, table, enabled, sync, mishaps>>
    PROVE  SlotsIInv'
  <1>1. /\ serial # None /\ serial' \in Interface /\ serial' # None
        /\ old' \in Interface \cup {None}
        /\ serial.state # "open" => serial'.state # "open"
        /\ old # None /\ old' # None => (old.state # "open" => old'.state # "open")
        /\ old' = None <=> old = None
    BY SerialThere, FatClosesKeeps DEF SlotsIInv
  <1> QED BY <1>1
       DEF SlotsIInv, SlotsTypeOK, KnownWhenUsed, SyncAlone, NoFat, PortsFree, RowsMatch,
           NullAfterDecline, PortAfterFailure

LEMMA SelectFileKeeps ==
    ASSUME SlotsIInv, NEW row \in 1 .. MaxFiles, slot_select_file(row)
    PROVE  SlotsIInv'
  <1>1. fat # None /\ FatCloses
    BY DEF slot_select_file
  <1>2. shown' \in Files \cup {None}
    BY <1>1, FatCases, DirectoryMember DEF slot_select_file, SlotsIInv, SlotsTypeOK
  <1>3. selected' \in 0 .. MaxFiles
    BY SlotsAssumption DEF slot_select_file
  <1>4. /\ dialog' \in Files \cup {None} /\ loop' \in Activation \cup {None}
        /\ UNCHANGED <<status, ports, stuck, banks, fat, table, enabled, sync, mishaps>>
    BY DEF slot_select_file, SlotsIInv, SlotsTypeOK
  <1> QED BY <1>1, <1>2, <1>3, <1>4, ReadKeeps

LEMMA SaveKeeps ==
    ASSUME SlotsIInv, slot_save \/ SaveConfirmed \/ slot_run
    PROVE  SlotsIInv'
  <1>1. fat # None /\ FatCloses
    BY DEF slot_save, SaveConfirmed, slot_run, CanSave
  <1>2. dialog' \in Files \cup {None}
    <2>1. selected \in DOMAIN fat.files => SelectedFile \in Files
      BY <1>1, FatCases, DirectoryMember DEF SlotsIInv, SelectedFile
    <2> QED BY <2>1 DEF slot_save, SaveConfirmed, slot_run, SlotsIInv, SlotsTypeOK
  <1>3. /\ shown' = shown /\ shown \in Files \cup {None}
        /\ selected' \in 0 .. MaxFiles /\ loop' \in Activation \cup {None}
        /\ UNCHANGED <<status, ports, stuck, banks, fat, table, enabled, sync, mishaps>>
    BY DEF slot_save, SaveConfirmed, slot_run, SlotsIInv, SlotsTypeOK
  <1> QED BY <1>1, <1>2, <1>3, ReadKeeps

LEMMA CancelKeeps ==
    ASSUME SlotsIInv, SaveCancelled
    PROVE  SlotsIInv'
  <1>1. /\ dialog' = None
        /\ UNCHANGED <<status, ports, serial, old, stuck, banks, fat, table, enabled, sync,
                       shown, selected, loop, mishaps>>
    BY DEF SaveCancelled, guiVars
  <1> QED BY <1>1
       DEF SlotsIInv, SlotsTypeOK, KnownWhenUsed, SyncAlone, NoFat, PortsFree, RowsMatch,
           NullAfterDecline, PortAfterFailure

\* The activation of Save all is moved on.
LEMMA SaveAllKeeps ==
    ASSUME SlotsIInv, slot_save_all \/ SaveAllDone
    PROVE  SlotsIInv'
  <1>1. fat # None /\ status' = status
        /\ UNCHANGED <<ports, serial, old, stuck, banks, fat, table, enabled, sync, shown,
                       selected, dialog, mishaps>>
    BY DEF slot_save_all, SaveAllDone, guiVars, viewVars
  <1>2. loop' \in Activation \cup {None}
    <2>1. CASE slot_save_all
      <3>1. loop' = [i |-> 1, saved |-> {}, unopened |-> {}, first |-> fat.files, cut |-> FALSE]
        BY <2>1 DEF slot_save_all
      <3>2. fat.files \in Directory /\ 1 \in 1 .. MaxFiles + 1
        BY <1>1, FatCases, SlotsAssumption DEF SlotsIInv
      <3> QED BY <3>1, <3>2 DEF Activation
    <2>2. CASE SaveAllDone
      BY <2>2 DEF SaveAllDone
    <2> QED BY <2>1, <2>2
  <1> QED BY <1>1, <1>2
       DEF SlotsIInv, SlotsTypeOK, KnownWhenUsed, SyncAlone, NoFat, PortsFree, RowsMatch,
           NullAfterDecline, PortAfterFailure

LEMMA SaveNextKeeps ==
    ASSUME SlotsIInv, SaveNext
    PROVE  SlotsIInv'
  <1>1. fat # None
    BY DEF SaveNext
  <1>2. CASE FatReaches
    <2>1. loop \in Activation /\ loop.i <= Len(fat.files) /\ Len(fat.files) \in 0 .. MaxFiles
      BY <1>1, FatCases, DirectoryMember DEF SaveNext, SlotsIInv, SlotsTypeOK
    <2>2. loop.i \in 1 .. MaxFiles + 1 /\ loop.saved \subseteq Files
          /\ loop.unopened \subseteq Files /\ loop.first \in Directory /\ loop.cut \in BOOLEAN
      BY <2>1 DEF Activation
    <2>3. /\ AtHand \subseteq Files
          /\ \/ loop' = [loop EXCEPT !.i = @ + 1, !.saved = @ \cup AtHand]
             \/ loop' = [loop EXCEPT !.i = @ + 1, !.unopened = @ \cup AtHand]
      BY <1>2 DEF SaveNext, AtHand
    <2>4. loop.i + 1 \in 1 .. MaxFiles + 1
      BY <2>1, <2>2, SlotsAssumption
    <2>5. loop' \in Activation
      BY <2>1, <2>2, <2>3, <2>4 DEF Activation
    <2>6. /\ FatCloses
          /\ UNCHANGED <<status, ports, stuck, banks, fat, table, enabled, sync, mishaps,
                         shown, selected, dialog>>
      BY <1>2 DEF SaveNext, viewVars
    <2>7. shown \in Files \cup {None} /\ selected \in 0 .. MaxFiles
          /\ dialog \in Files \cup {None}
      BY DEF SlotsIInv, SlotsTypeOK
    <2> QED BY <1>1, <2>5, <2>6, <2>7, ReadKeeps
  <1>3. CASE ~FatReaches
    BY <1>3, EndKeeps DEF SaveNext
  <1> QED BY <1>2, <1>3

\* A change of the FAT.
LEMMA ChangeKeeps ==
    ASSUME SlotsIInv, fat # None, NEW next \in Directory, StartSync(next),
           loop' \in Activation \cup {None},
           UNCHANGED <<status, ports, stuck, banks, table, mishaps, viewVars>>
    PROVE  SlotsIInv'
  <1>1. /\ fat' \in Fat /\ fat' # None /\ sync' = TRUE /\ enabled' = {} /\ FatCloses
    BY StartSyncIs DEF SlotsIInv
  <1>2. /\ serial # None /\ serial' \in Interface /\ serial' # None
        /\ old' \in Interface \cup {None}
        /\ serial.state # "open" => serial'.state # "open"
        /\ old # None /\ old' # None => (old.state # "open" => old'.state # "open")
        /\ old' = None <=> old = None
    BY <1>1, SerialThere, FatClosesKeeps DEF SlotsIInv
  <1>3. UNCHANGED <<status, ports, stuck, banks, table, mishaps, shown, selected, dialog>>
    BY DEF viewVars
  <1> QED BY <1>1, <1>2, <1>3
       DEF SlotsIInv, SlotsTypeOK, KnownWhenUsed, SyncAlone, NoFat, PortsFree, RowsMatch,
           NullAfterDecline, PortAfterFailure

LEMMA AddKeeps ==
    ASSUME SlotsIInv, slot_add_program
    PROVE  SlotsIInv'
  <1>1. fat # None /\ Len(fat.files) < MaxFiles
    BY DEF slot_add_program
  <1>2. PICK f \in Files \ Range(fat.files), k \in 1 .. Len(fat.files) + 1 :
            StartSync(InsertAt(fat.files, k, f))
    BY DEF slot_add_program
  <1>3. InsertAt(fat.files, k, f) \in Directory
    BY <1>1, FatCases, InsertKeeps DEF SlotsIInv
  <1>4. loop' \in Activation \cup {None}
        /\ UNCHANGED <<status, ports, stuck, banks, table, mishaps, viewVars>>
    BY DEF slot_add_program, SlotsIInv, SlotsTypeOK
  <1> QED BY <1>1, <1>2, <1>3, <1>4, ChangeKeeps

LEMMA DeleteKeeps ==
    ASSUME SlotsIInv, NEW row \in 1 .. MaxFiles, DeleteRow(row)
    PROVE  SlotsIInv'
  <1>1. fat # None /\ StartSync(RemoveAt(fat.files, row))
    BY DEF DeleteRow
  <1>2. RemoveAt(fat.files, row) \in Directory
    BY <1>1, FatCases, RemoveKeeps DEF SlotsIInv, DeleteRow
  <1>3. loop' \in Activation \cup {None}
        /\ UNCHANGED <<status, ports, stuck, banks, table, mishaps, viewVars>>
    BY LoopKept DEF DeleteRow, SlotsIInv
  <1> QED BY <1>1, <1>2, <1>3, ChangeKeeps

LEMMA SyncCompleteKeeps ==
    ASSUME SlotsIInv, slot_sync_complete
    PROVE  SlotsIInv'
  <1>1. sync /\ fat # None /\ fat \in Fat /\ fat.next \in Directory /\ banks = TRUE
    BY FatCases DEF slot_sync_complete, SlotsIInv, SyncAlone, SlotsTypeOK
  <1>2. CASE Opened(serial, old).state = "open" /\ FatReaches
    <2>1. /\ serial' = [Closed(serial) EXCEPT !.kept = TRUE]
          /\ old' = IF old = None THEN None ELSE Closed(old)
          /\ fat' = [fat EXCEPT !.files = fat.next]
          /\ table' = fat.next /\ enabled' = Button /\ sync' = FALSE
          /\ UNCHANGED <<status, ports, stuck, banks, mishaps, shown, selected, dialog, loop>>
      BY <1>2 DEF slot_sync_complete, Indexed, TableOf, viewVars, Button
    <2>2. serial' \in Interface /\ serial' # None /\ serial'.state = "closed"
      <3>1. Closed(serial) \in Interface /\ Closed(serial).state = "closed"
        BY <1>1, SerialThere, InterfaceKept
      <3>2. serial' \in Interface /\ serial'.state = "closed"
        BY <2>1, <3>1 DEF Interface
      <3> QED BY <3>2, InterfaceKept
    <2>3. /\ old' \in Interface \cup {None}
          /\ old' # None => old'.state = "closed"
      BY <2>1, InterfaceKept DEF SlotsIInv, SlotsTypeOK
    <2>4. fat' \in Fat /\ fat'.files = fat.next /\ fat' # None
      <3>1. fat' \in Fat /\ fat'.files = fat.next
        BY <1>1, <2>1 DEF Fat
      <3> QED BY <3>1, SlotsAssumption
    <2> QED BY <1>1, <2>1, <2>2, <2>3, <2>4
         DEF SlotsIInv, SlotsTypeOK, KnownWhenUsed, SyncAlone, NoFat, PortsFree, RowsMatch,
           NullAfterDecline, PortAfterFailure
  <1>3. CASE ~(Opened(serial, old).state = "open" /\ FatReaches)
    BY <1>3, EndKeeps DEF slot_sync_complete
  <1> QED BY <1>2, <1>3

LEMMA SlotsInitInv == SlotsInit => SlotsIInv
  <1> SUFFICES ASSUME SlotsInit PROVE SlotsIInv
    OBVIOUS
  <1>1. 0 \in 0 .. MaxFiles
    BY SlotsAssumption
  <1> QED BY <1>1, EmptyDirectory
       DEF SlotsInit, AtFirst, Button,
           SlotsIInv, SlotsTypeOK, KnownWhenUsed, SyncAlone, NoFat, PortsFree, RowsMatch,
           NullAfterDecline, PortAfterFailure

LEMMA SlotsStepInv == SlotsIInv /\ [SlotsNext]_slotVars => SlotsIInv'
  <1> SUFFICES ASSUME SlotsIInv, [SlotsNext]_slotVars PROVE SlotsIInv'
    OBVIOUS
  <1>1. CASE scan_com_devices
    BY <1>1, ScanKeeps
  <1>2. CASE select_com_port
    BY <1>2, SelectKeeps
  <1>3. CASE SelectNone \/ BoardFails \/ exit \/ OutOfReach \/ RowGone
    BY <1>3, EndKeeps DEF SelectNone, BoardFails, exit, OutOfReach, RowGone
  <1>4. CASE read_chip_id
    BY <1>4, IdentifyKeeps
  <1>5. CASE IdentifyFails
    BY <1>5, IdentifyFailsKeeps
  <1>6. CASE slot_access_fat
    BY <1>6, AccessKeeps
  <1>7. CASE DeclineFormat
    BY <1>7, DeclineKeeps
  <1>8. CASE slot_format_rom
    BY <1>8, FormatKeeps
  <1>9. CASE NullUsed
    BY <1>9, NullUsedKeeps
  <1>10. CASE \E row \in 1 .. MaxFiles : slot_select_file(row) \/ DeleteRow(row)
    BY <1>10, SelectFileKeeps, DeleteKeeps
  <1>11. CASE slot_add_program
    BY <1>11, AddKeeps
  <1>12. CASE slot_sync_complete
    BY <1>12, SyncCompleteKeeps
  <1>13. CASE slot_save \/ SaveConfirmed \/ slot_run
    BY <1>13, SaveKeeps
  <1>14. CASE SaveCancelled
    BY <1>14, CancelKeeps
  <1>15. CASE slot_save_all \/ SaveAllDone
    BY <1>15, SaveAllKeeps
  <1>16. CASE SaveNext
    BY <1>16, SaveNextKeeps
  <1>17. CASE UNCHANGED slotVars
    <2>1. UNCHANGED <<status, ports, serial, old, stuck, banks, fat, table, enabled, shown,
                      selected, sync, dialog, loop, mishaps>>
      BY <1>17 DEF slotVars, guiVars, viewVars
    <2> QED BY <2>1
         DEF SlotsIInv, SlotsTypeOK, KnownWhenUsed, SyncAlone, NoFat, PortsFree, RowsMatch,
           NullAfterDecline, PortAfterFailure
  <1> QED BY <1>1, <1>2, <1>3, <1>4, <1>5, <1>6, <1>7, <1>8, <1>9, <1>10, <1>11, <1>12,
             <1>13, <1>14, <1>15, <1>16, <1>17 DEF SlotsNext

-----------------------------------------------------------------------------
(***************************************************************************)
(* Theorems.                                                               *)
(***************************************************************************)
\* The invariant holds of every state the program reaches, for any boards,
\* files and number of files.
THEOREM SlotsInvariance == SlotsSpec => []SlotsIInv
  BY SlotsInitInv, SlotsStepInv, PTL DEF SlotsSpec

\* The slots keep their types: no row is selected and no file number saved that
\* a chip cannot have (slot_select_file, slot_save_all).
THEOREM SlotsTyped == SlotsSpec => []SlotsTypeOK
  <1>1. SlotsIInv => SlotsTypeOK
    BY DEF SlotsIInv
  <1> QED BY <1>1, SlotsInvariance, PTL

\* The rows whose buttons can be pressed are those of the files of the FAT
\* (index_files), for any number of files.
THEOREM RowsShowFiles == SlotsSpec => []RowsAreFiles
  <1>1. SlotsIInv => RowsAreFiles
    BY DEF SlotsIInv, RowsMatch, RowsAreFiles
  <1> QED BY <1>1, SlotsInvariance, PTL

\* No slot uses a FAT that is not there, but after a declined format
\* (slot_access_fat 931-938).
THEOREM FatIsThere == SlotsSpec => []NullAfterDecline
  <1>1. SlotsIInv => NullAfterDecline
    BY DEF SlotsIInv
  <1> QED BY <1>1, SlotsInvariance, PTL

\* No port is lost, however many boards there are and however often they are
\* exchanged, but after a failed identification (read_chip_id 837-884).
THEOREM PortIsFree == SlotsSpec => []PortAfterFailure
  <1>1. SlotsIInv => PortAfterFailure
    BY DEF SlotsIInv
  <1> QED BY <1>1, SlotsInvariance, PTL

\* A step that is taken while a synchronization runs, and does not end it,
\* changes neither the FAT nor the port.
LEMMA SyncStep ==
    ASSUME SlotsIInv, SlotsNext, sync, sync'
    PROVE  fat' = fat /\ serial' # None /\ serial'.port = serial.port
  <1>1. fat # None /\ enabled = {} /\ serial # None /\ serial \in Interface
    BY SerialThere DEF SlotsIInv, SyncAlone
  <1>2. \A b \in Button : ~Pressed(b)
    BY <1>1 DEF Pressed
  <1>3. CASE SelectNone \/ BoardFails \/ exit \/ OutOfReach \/ RowGone \/ NullUsed
             \/ SaveCancelled \/ slot_save_all \/ SaveAllDone
    BY <1>1, <1>3 DEF SelectNone, BoardFails, exit, OutOfReach, RowGone, NullUsed,
                      SaveCancelled, slot_save_all, SaveAllDone, End, guiVars
  <1>4. CASE slot_save \/ SaveConfirmed \/ slot_run
    <2>1. FatCloses /\ fat' = fat
      BY <1>4 DEF slot_save, SaveConfirmed, slot_run
    <2> QED BY <1>1, <2>1, FatClosesKeeps DEF SlotsIInv
  <1>5. CASE SaveNext
    <2>1. CASE FatReaches
      <3>1. FatCloses /\ fat' = fat
        BY <1>5, <2>1 DEF SaveNext
      <3> QED BY <1>1, <3>1, FatClosesKeeps DEF SlotsIInv
    <2>2. CASE ~FatReaches
      BY <1>1, <1>5, <2>2 DEF SaveNext, End, guiVars
    <2> QED BY <2>1, <2>2
  <1>6. CASE slot_sync_complete
    <2>1. ~(Opened(serial, old).state = "open" /\ FatReaches)
      BY <1>6 DEF slot_sync_complete
    <2> QED BY <1>1, <1>6, <2>1 DEF slot_sync_complete, End, guiVars
  <1>7. CASE \/ scan_com_devices \/ select_com_port \/ read_chip_id \/ IdentifyFails
             \/ slot_access_fat \/ DeclineFormat \/ slot_format_rom \/ slot_add_program
             \/ \E row \in 1 .. MaxFiles : slot_select_file(row) \/ DeleteRow(row)
    BY <1>2, <1>7 DEF Button, scan_com_devices, select_com_port, read_chip_id,
          IdentifyFails, slot_access_fat, DeclineFormat, slot_format_rom,
          slot_add_program, slot_select_file, DeleteRow
  <1> QED BY <1>3, <1>4, <1>5, <1>6, <1>7 DEF SlotsNext

\* A synchronization keeps its FAT and its port to itself, whichever slots are
\* called while it runs (disable_all_buttons 433-449).
THEOREM SyncIsAlone == SlotsSpec => OneSync
  <1>1. SlotsIInv /\ [SlotsNext]_slotVars
            => [sync /\ sync' => fat' = fat
                   /\ (serial' # None /\ serial'.port = serial.port)]_slotVars
    BY SyncStep
  <1> QED BY <1>1, SlotsInvariance, PTL DEF SlotsSpec, OneSync

-----------------------------------------------------------------------------
(***************************************************************************)
(* Save all.                                                               *)
(***************************************************************************)
\* What concerns Save all is changed by few slots.
LEMMA SaveAllUntouched ==
    ASSUME SaveAllIInv, UNCHANGED <<fat, sync, loop>>
    PROVE  SaveAllIInv'
  BY DEF SaveAllIInv, Settled, MovedOn, SavedOrAhead

\* A FAT that is exchanged, or from which a file is deleted, is not promised
\* to be saved.
LEMMA CutKeeps ==
    ASSUME SlotsIInv, Cut, fat' # None /\ ~sync' => fat'.next = fat'.files
    PROVE  SaveAllIInv'
  <1>1. loop' # None => loop'.cut = TRUE
    BY SlotsAssumption DEF Cut, SlotsIInv, SlotsTypeOK, Activation
  <1> QED BY <1>1 DEF SaveAllIInv, Settled, MovedOn, SavedOrAhead

LEMMA NewFatCuts ==
    ASSUME SlotsIInv, slot_access_fat \/ DeclineFormat \/ slot_format_rom
    PROVE  SaveAllIInv'
  <1>1. Cut
    BY DEF slot_access_fat, DeclineFormat, slot_format_rom
  <1>2. fat' # None => fat'.next = fat'.files
    BY DEF slot_access_fat, DeclineFormat, slot_format_rom, NewFat
  <1> QED BY <1>1, <1>2, CutKeeps

LEMMA AddMovesOn ==
    ASSUME SlotsIInv, SaveAllIInv, slot_add_program
    PROVE  SaveAllIInv'
  <1>1. PICK f \in Files \ Range(fat.files), k \in 1 .. Len(fat.files) + 1 :
            StartSync(InsertAt(fat.files, k, f))
    BY DEF slot_add_program
  <1>2. fat # None /\ Len(fat.files) < MaxFiles /\ loop' = loop
    BY DEF slot_add_program
  <1>3. fat \in Fat /\ fat.files \in Directory
    BY <1>2, FatCases DEF SlotsIInv
  <1> DEFINE next == InsertAt(fat.files, k, f)
  <1>4. \A m \in DOMAIN fat.files : \E q \in DOMAIN next : q >= m /\ next[q] = fat.files[m]
    BY <1>2, <1>3, InsertKeeps
  <1> HIDE DEF next
  <1>5. fat' = [fat EXCEPT !.next = next] /\ sync'
    BY <1>1 DEF StartSync, next
  <1>6. fat'.files = fat.files /\ fat'.next = next
    BY <1>3, <1>5 DEF Fat
  <1> QED BY <1>2, <1>4, <1>5, <1>6 DEF SaveAllIInv, Settled, MovedOn, SavedOrAhead

LEMMA DeleteCuts ==
    ASSUME SlotsIInv, NEW row \in 1 .. MaxFiles, DeleteRow(row)
    PROVE  SaveAllIInv'
  <1>1. Cut /\ sync'
    BY DEF DeleteRow, StartSync
  <1> QED BY <1>1, CutKeeps

LEMMA SyncCompleteMovesOn ==
    ASSUME SlotsIInv, SaveAllIInv, slot_sync_complete
    PROVE  SaveAllIInv'
  <1>1. fat # None /\ fat \in Fat /\ fat.files \in Directory /\ fat.next \in Directory
    BY FatCases DEF slot_sync_complete, SlotsIInv, SyncAlone, SlotsTypeOK
  <1>2. CASE UNCHANGED <<fat, sync, loop>>
    BY <1>2, SaveAllUntouched
  <1>3. CASE fat' = [fat EXCEPT !.files = fat.next] /\ loop' = loop
    <2>1. fat'.files = fat.next /\ fat'.next = fat.next
      BY <1>1, <1>3 DEF Fat
    <2>2. DOMAIN fat.files \subseteq Nat /\ DOMAIN fat.next \subseteq Nat
      BY <1>1, DirectoryMember
    <2>3. Settled' /\ MovedOn'
      BY <1>3, <2>1, <2>2 DEF Settled, MovedOn
    <2>4. SavedOrAhead'
      <3>1. SUFFICES ASSUME loop # None, ~loop.cut, NEW n \in DOMAIN loop.first,
                            loop.first[n] \notin loop.saved \cup loop.unopened
                     PROVE  \E q \in DOMAIN fat.next :
                               q >= loop.i /\ fat.next[q] = loop.first[n]
        BY <1>3, <2>1 DEF SavedOrAhead
      <3>2. PICK m \in DOMAIN fat.files : m >= loop.i /\ fat.files[m] = loop.first[n]
        BY <1>1, <3>1 DEF SaveAllIInv, SavedOrAhead
      <3>3. PICK q \in DOMAIN fat.next : q >= m /\ fat.next[q] = fat.files[m]
        BY <1>1, <3>1, <3>2 DEF SaveAllIInv, MovedOn
      <3>4. loop.i \in Nat
        BY <3>1, SlotsAssumption DEF SlotsIInv, SlotsTypeOK, Activation
      <3> QED BY <2>2, <3>2, <3>3, <3>4
    <2> QED BY <2>3, <2>4 DEF SaveAllIInv
  <1> QED BY <1>2, <1>3 DEF slot_sync_complete, End, guiVars

LEMMA SaveAllStarts ==
    ASSUME SlotsIInv, SaveAllIInv, slot_save_all
    PROVE  SaveAllIInv'
  <1>1. fat # None /\ fat' = fat /\ sync' = sync /\ ~sync
    BY DEF slot_save_all, Pressed, guiVars, SlotsIInv, SyncAlone
  <1>2. loop' = [i |-> 1, saved |-> {}, unopened |-> {}, first |-> fat.files, cut |-> FALSE]
    BY DEF slot_save_all
  <1>3. fat.next = fat.files
    BY <1>1 DEF SaveAllIInv, Settled
  <1>4. DOMAIN fat.files \subseteq 1 .. MaxFiles
    BY <1>1, FatCases, DirectoryMember DEF SlotsIInv
  <1>5. \A m \in DOMAIN fat.files : m >= m /\ m >= 1
    BY <1>4, SlotsAssumption
  <1> QED BY <1>1, <1>2, <1>3, <1>5 DEF SaveAllIInv, Settled, MovedOn, SavedOrAhead

LEMMA SaveNextMovesOn ==
    ASSUME SlotsIInv, SaveAllIInv, SaveNext
    PROVE  SaveAllIInv'
  <1>1. CASE ~FatReaches
    BY <1>1, SaveAllUntouched DEF SaveNext, End, guiVars
  <1>2. CASE FatReaches
    <2>1. fat # None /\ loop \in Activation /\ fat' = fat /\ sync' = sync
      BY <1>2 DEF SaveNext, SlotsIInv, SlotsTypeOK
    <2>2. fat.files \in Directory
      BY <2>1, FatCases DEF SlotsIInv
    <2>3. /\ loop'.i = loop.i + 1 /\ loop'.first = loop.first /\ loop'.cut = loop.cut
          /\ loop'.saved \cup loop'.unopened = loop.saved \cup loop.unopened \cup AtHand
      BY <1>2, <2>1 DEF SaveNext, Activation
    <2>4. Settled' /\ MovedOn'
      BY <2>1, <2>3 DEF SaveAllIInv, Settled, MovedOn, SaveNext
    <2>5. SavedOrAhead'
      <3>1. SUFFICES ASSUME ~loop.cut, NEW n \in DOMAIN loop.first
                     PROVE  \/ loop.first[n] \in loop'.saved \cup loop'.unopened
                            \/ \E m \in DOMAIN fat.files :
                                  m >= loop.i + 1 /\ fat.files[m] = loop.first[n]
        BY <2>1, <2>3 DEF SavedOrAhead
      <3>2. CASE loop.first[n] \in loop.saved \cup loop.unopened
        BY <2>3, <3>2
      <3>3. CASE loop.first[n] \notin loop.saved \cup loop.unopened
        <4>1. PICK m \in DOMAIN fat.files : m >= loop.i /\ fat.files[m] = loop.first[n]
          BY <2>1, <3>1, <3>3 DEF SaveAllIInv, SavedOrAhead, SaveNext
        <4>2. m \in Nat /\ loop.i \in Nat /\ fat.files[m] \in Files
          BY <2>1, <2>2, DirectoryMember, SlotsAssumption DEF Activation
        <4>3. CASE m = loop.i
          BY <2>3, <4>1, <4>2, <4>3 DEF AtHand, FileNumber
        <4>4. CASE m # loop.i
          BY <4>1, <4>2, <4>4
        <4> QED BY <4>3, <4>4
      <3> QED BY <3>2, <3>3
    <2> QED BY <2>4, <2>5 DEF SaveAllIInv
  <1> QED BY <1>1, <1>2

LEMMA SaveAllStep ==
    ASSUME SlotsIInv, SaveAllIInv, [SlotsNext]_slotVars
    PROVE  SaveAllIInv'
  <1>1. CASE slot_access_fat \/ DeclineFormat \/ slot_format_rom
    BY <1>1, NewFatCuts
  <1>2. CASE slot_add_program
    BY <1>2, AddMovesOn
  <1>3. CASE \E row \in 1 .. MaxFiles : DeleteRow(row)
    BY <1>3, DeleteCuts
  <1>4. CASE slot_sync_complete
    BY <1>4, SyncCompleteMovesOn
  <1>5. CASE slot_save_all
    BY <1>5, SaveAllStarts
  <1>6. CASE SaveNext
    BY <1>6, SaveNextMovesOn
  <1>7. CASE SaveAllDone
    <2>1. UNCHANGED <<fat, sync>> /\ loop' = None
      BY <1>7 DEF SaveAllDone, guiVars
    <2> QED BY <2>1 DEF SaveAllIInv, Settled, MovedOn, SavedOrAhead
  <1>8. CASE \/ SelectNone \/ BoardFails \/ exit \/ OutOfReach \/ NullUsed \/ RowGone
             \/ SaveCancelled \/ UNCHANGED slotVars
    <2>1. UNCHANGED <<fat, sync, loop>>
      BY <1>8 DEF SelectNone, BoardFails, exit, OutOfReach, NullUsed, RowGone,
                  SaveCancelled, End, slotVars, guiVars
    <2> QED BY <2>1, SaveAllUntouched
  <1>9. CASE \/ scan_com_devices \/ select_com_port \/ read_chip_id \/ IdentifyFails
             \/ slot_save \/ SaveConfirmed \/ slot_run
             \/ \E row \in 1 .. MaxFiles : slot_select_file(row)
    <2>1. UNCHANGED <<fat, sync, loop>>
      BY <1>9 DEF scan_com_devices, select_com_port, read_chip_id, IdentifyFails,
                  slot_save, SaveConfirmed, slot_run, slot_select_file
    <2> QED BY <2>1, SaveAllUntouched
  <1> QED BY <1>1, <1>2, <1>3, <1>4, <1>5, <1>6, <1>7, <1>8, <1>9 DEF SlotsNext

\* Save all comes to every file, however many there are and whatever is opened,
\* added, saved or synchronized between two of them; only a delete or another
\* FAT makes it miss one.  It stores each, but for those that cannot be opened
\* under their names, which it passes over (slot_save_all 714-727).
THEOREM OnlyUnopenedLeftOut == SlotsSpec => []SaveAllWhole
  <1>1. SlotsInit => SaveAllIInv
    BY DEF SlotsInit, SaveAllIInv, Settled, MovedOn, SavedOrAhead
  <1>2. SlotsIInv /\ SaveAllIInv /\ [SlotsNext]_slotVars => SaveAllIInv'
    BY SaveAllStep
  <1>3. SlotsIInv /\ SaveAllIInv => SaveAllWhole
    <2> SUFFICES ASSUME SlotsIInv, SaveAllIInv, loop # None, fat # None, ~loop.cut,
                        loop.i > Len(fat.files), NEW n \in DOMAIN loop.first
                 PROVE  loop.first[n] \in loop.saved \cup loop.unopened
      BY DEF SaveAllWhole, Range
    <2>1. fat.files \in Directory /\ loop.i \in Nat
      BY FatCases, SlotsAssumption DEF SlotsIInv, SlotsTypeOK, Activation
    <2>2. \A m \in DOMAIN fat.files : ~(m >= loop.i)
      BY <2>1, DirectoryMember
    <2> QED BY <2>2 DEF SaveAllIInv, SavedOrAhead
  <1> QED BY <1>1, <1>2, <1>3, SlotsInvariance, PTL DEF SlotsSpec
=============================================================================
