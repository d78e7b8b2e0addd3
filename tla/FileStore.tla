----------------------------- MODULE FileStore -----------------------------
(***************************************************************************)
(* What a cartridge promises its user: a store of files that are added,    *)
(* removed and wiped as a whole, within the capacity of the chip.          *)
(***************************************************************************)
EXTENDS Integers, Sequences, FiniteSets

CONSTANTS Handle,    \* names of files
          Content,   \* what a file may hold: non-empty sequences of blocks
          Capacity   \* blocks on the chip

VARIABLE store

Occupied == Cardinality(UNION {{h} \X DOMAIN store[h] : h \in DOMAIN store})

StoreTypeOK == \E S \in SUBSET Handle : store \in [S -> Content]

StoreInit == store = [h \in {} |-> <<>>]

Add(h, c) == /\ h \notin DOMAIN store
             /\ Occupied + Len(c) <= Capacity
             /\ store' = [k \in DOMAIN store \cup {h} |->
                             IF k = h THEN c ELSE store[k]]

Remove(h) == /\ h \in DOMAIN store
             /\ store' = [k \in DOMAIN store \ {h} |-> store[k]]

Wipe == store' = [h \in {} |-> <<>>]

StoreNext == \/ \E h \in Handle, c \in Content : Add(h, c)
             \/ \E h \in Handle : Remove(h)
             \/ Wipe

StoreSpec == StoreInit /\ [][StoreNext]_store
=============================================================================
