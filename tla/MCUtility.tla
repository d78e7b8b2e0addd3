----------------------------- MODULE MCUtility -----------------------------
(***************************************************************************)
(* The cassette utility with small chips and tapes.                        *)
(***************************************************************************)
EXTENDS CassetteUtility, SmallChips

S == INSTANCE SequencesExt
\* The tape that holds the given programs one after the other.
TapeOf(ps) == S!FlattenSeq([f \in DOMAIN ps |->
    [k \in DOMAIN ps[f] |-> [word |-> ps[f][k], left |-> Len(ps[f]) - k + 1]]])
TapesSmall == {TapeOf(<<<<3>>, <<5, 6>>>>), TapeOf(<<<<5, 6>>, <<3>>>>)}
=============================================================================
