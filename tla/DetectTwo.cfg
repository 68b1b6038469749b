\* Two detectors, three images, a buffer too small for the two larger ones: safety only.
CONSTANTS
    a = a
    b = b
    c = c
    d = d
    Images = {a, b, c}
    Detectors = {t1, t2}
    None = None
    SfNum = 2
    FeatureSets <- AllFeatureSets
    Size <- TightSizes
    BufferSize = 3
SPECIFICATION Spec
INVARIANTS TypeOK SpaceAccounted PinnedResident PinsBalanced ResidentCharged
CHECK_DEADLOCK FALSE
