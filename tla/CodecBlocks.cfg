\* Two blocks of every choice of coefficients.
CONSTANTS
    BlockLen = 4
    RunMax = 1
    WordBits = 4
    MaxBits = 3
    ZigZag <- MCZigZag
    Inputs <- TwoBlocks
SPECIFICATION CodecSpec
INVARIANTS ReadsWritten Lossless
CHECK_DEADLOCK FALSE
