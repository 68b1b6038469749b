\* rawList: three readers, two decoders, nodes of one to three units, room for four.
CONSTANTS
    a = a
    b = b
    c = c
    d = d
    e = e
    Producers = {p1, p2, p3}
    Consumers = {c1, c2}
    Items = {a, b, c, d, e}
    NoItem = NoItem
    MemSize <- SizesOfFive
    Capacity = 4
    EndSignals = 2
    TakeSignals = 1
SPECIFICATION FairSpec
INVARIANTS TypeOK Placement SpaceAccounted NoStrandedConsumer NoStrandedProducer
PROPERTIES ImplementsDelivery AllJoined
CHECK_DEADLOCK FALSE
