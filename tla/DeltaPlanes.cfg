\* Every target, base and index of three planes; a hash is named by its block.
CONSTANTS
    a = a
    b = b
    NPlanes = 3
    Height <- MCHeight
    Width <- MCWidth
    BaseHeight <- MCBaseHeight
    BaseWidth <- MCBaseWidth
    Block = {a, b}
    Key = {a, b}
    Hash <- MCHash
SPECIFICATION Spec
INVARIANTS Faithful InsertedAreNew
SYMMETRY Names
CHECK_DEADLOCK FALSE
