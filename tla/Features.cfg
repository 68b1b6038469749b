\* Scaled-down words; every method and dimension.
CONSTANTS
    WordBits = 8
    ByteBits = 2
    Polynomial <- Pentic
    GearTable <- SomeGear
    K <- SomeK
    B <- SomeB
    PerSF = 2
    Blocks <- SomeBlocks
    Cases <- SomeCases
SPECIFICATION FeaturesSpec
INVARIANTS DigestIsHash SuperFeaturesOfWindows
CHECK_DEADLOCK FALSE
