\* One garbled message, a board that may never answer, chips being exchanged,
\* burns over sectors that are not blank.
SPECIFICATION FairLinkSpec
CONSTANTS
    Sectors = {0, 1}
    Blocks = {0}
    DeviceIds = {19, 183}
    Data = {1, 3}
    BitAnd <- MCBitAnd
    TRIES = 1
    MaxPending = 1
    MaxGarbled = 1
INVARIANTS
    LinkTypeOK
    ReadIsTrue
    HarmIsNoticed
PROPERTIES
    KnownIsThere
    CommandEnds
