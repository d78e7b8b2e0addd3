\* Four bytes of data, of bytes with and without the sign bit.
SPECIFICATION ChecksumsSpec
CONSTANTS
    LENGTH = 4
    Bytes = {{}, {0}, {7}, {0, 7}, {1, 3, 4, 6}, {0, 1, 2, 3, 4, 5, 6, 7}}
INVARIANTS
    SameChecksum
CHECK_DEADLOCK FALSE
