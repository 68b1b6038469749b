\* One good and one bad raw copy, three deltas of anything.
CONSTANTS
    r = r
    bad = bad
    x = x
    y = y
    z = z
    Raws = {r, bad}
    Decodable = {r}
    Deltas = {x, y, z}
    Bases <- AnyBases
SPECIFICATION FairSpec
INVARIANTS NoneLost NoMissedSignal PhasesApart AllRestored
PROPERTIES ImplementsRebuild NoneStarved Ends
CHECK_DEADLOCK FALSE
