\* The smallest batch: one image, one thread of each kind.
CONSTANTS
    a = a
    b = b
    Images = {a}
    NoImage = NoImage
    Readers = {r}
    Decoders = {d}
    Chains = {c}
    Writers = {w}
    Room <- RoomForOne
    Batches <- OnlyOne
SPECIFICATION FairSpec
PROPERTIES AllJoined
CHECK_DEADLOCK FALSE
