\* One detector, four images of two sizes, room for any two of them.
CONSTANTS
    a = a
    b = b
    c = c
    d = d
    Images = {a, b, c, d}
    Detectors = {t1}
    None = None
    SfNum = 2
    FeatureSets <- AllFeatureSets
    Size <- MixedSizes
    BufferSize = 4
SPECIFICATION FairSpec
INVARIANTS NoCrash AllRestorable BestChosen
PROPERTIES AllStored
CHECK_DEADLOCK FALSE
