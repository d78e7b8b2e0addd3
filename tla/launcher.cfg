\* Three cartridges, all keys, type-ahead, power off and on.
SPECIFICATION FairLauncherSpec
CONSTANTS
    NBANKS = 2
    NBLOCKS = 3
    METAS_PER_PAGE = 2
    BLOCKS_PER_SECTOR = 2
    SLOTS = 5
    MAX_LINKS = 7
    Programs <- ProgramsSmall
    Word = {0, 1, 2, 3, 4, 5, 6, 7, 8, 9, 10, 11, 12, 13, 14, 15, 256, 257, 258, 259, 512, 513, 514, 515, 768, 769, 770, 771, 1024, 1025, 1026, 1027, 1280, 1281, 1282, 1283, 1284, 65535}
    BitAnd <- MCBitAnd
    Crc16 <- MCCrc16
    MEMSIZE = 18
    RAMSTART = 1
    SCREENSIZE = 1
    HOOK = 2
    BASICSTART = 6
    BASICEND = 8
    EXCODE = 14
    NUMBYTES = 3
    WordOf <- MCWordOf
    Cartridges <- CartridgesSmall
    PAGE = 2
    MAXDIGITS = 2
    KEYBUFFER = 2
    Digits = {1, 3}
    AREAS = 5
    LIST_AREA = 3
    LINK_AREA = 4
    MAXCOPIED = 6
    SpiltAddresses = {0, 3}
    BLOCKBYTES = 2
    Noise = {9}
    HeaderSize <- MCHeaderSize
    HeaderDeploy <- MCHeaderDeploy
INVARIANTS
    LauncherTypeOK
    RowsAreNumbered
    StartedIsAsked
    GreenIsLoaded
PROPERTY
    LoadEnds
