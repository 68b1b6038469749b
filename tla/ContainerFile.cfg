\* Two records, one or two writers, caches of five bytes passed on in blocks of two.
CONSTANTS
    p = p
    q = q
    v = v
    w = w
    Records = {p, q}
    None = None
    Writers = {v, w}
    Crews <- OneOrTwo
    Shapes <- SomeShapes
    SizesLen = 2
    CacheSize = 5
    Block = 2
SPECIFICATION FairSpec
INVARIANTS OwnBytesInOrder ReadsBack
PROPERTIES AllInFile
CHECK_DEADLOCK FALSE
