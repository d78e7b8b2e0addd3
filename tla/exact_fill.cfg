\* Adding a file that takes the last free block.
SPECIFICATION Spec
CONSTANTS
    NBANKS = 2
    NBLOCKS = 2
    METAS_PER_PAGE = 2
    BLOCKS_PER_SECTOR = 2
    SLOTS = 4
    MAX_LINKS = 5
    Programs <- ProgramsSmall
    Word = {0, 1, 2, 3, 4, 5, 6, 7, 8, 9, 10, 11, 12, 13, 14, 15, 256, 257, 258, 259, 512, 513, 514, 515, 768, 769, 770, 771, 65535}
    BitAnd <- MCBitAnd
    Crc16 <- MCCrc16
    MaxCrashes = 0
    SpanningDelete = FALSE
    UseMenuInSync = FALSE
PROPERTY
    LastBlockPlaced
