\* Two detectors, two like images: each finds the other in the table it meets first.
CONSTANTS
    a = a
    b = b
    c = c
    d = d
    Images = {a, b}
    Detectors = {t1, t2}
    None = None
    SfNum = 2
    FeatureSets <- AllFeatureSets
    Size <- EqualSizes
    BufferSize = 4
SPECIFICATION Spec
INVARIANT AllRestorable
CHECK_DEADLOCK FALSE
