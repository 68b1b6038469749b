\* One reader, two decoders, one chain, one writer; either delta method.
CONSTANTS
    a = a
    b = b
    Images = {a, b}
    NoImage = NoImage
    Readers = {r}
    Decoders = {d1, d2}
    Chains = {c}
    Writers = {w}
    Room <- RoomForOne
    Batches <- AloneFirst
SPECIFICATION FairSpec
INVARIANTS ShutInOrder NoneOversleeps
PROPERTIES ImplementsDelivery AllStored JoinedUnlessOverslept
CHECK_DEADLOCK FALSE
