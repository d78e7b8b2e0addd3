\* Two boards, two files, every slot at any time.
SPECIFICATION SlotsSpec
CONSTANTS
    Ports = {p1, p2}
    Files = {f1, f2}
    MaxFiles = 2
    None = None
SYMMETRY Interchangeable
INVARIANTS
    SlotsTypeOK
    RowsAreFiles
    SaveAllWhole
    NullAfterDecline
    PortAfterFailure
PROPERTY
    OneSync
CHECK_DEADLOCK FALSE
