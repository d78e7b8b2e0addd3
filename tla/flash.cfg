\* Chips too slow, cartridges pulled, power lost at any time.
SPECIFICATION FairFlasherSpec
CONSTANTS
    SECTOR = 2
    PAGES = 3
    ATTEMPTS = 2
    Byte = {0, 1, 128, 255}
    BitAnd <- MCBitAnd
    HighBit <- MCHighBit
    STATUS = 0
    Images <- ImagesSmall
    Olds <- OldsSmall
INVARIANTS
    FlasherTypeOK
    ShownIsThere
    RunRepairs
PROPERTIES
    RestKept
    FlashEnds
