SPECIFICATION Spec
CONSTANTS
    Nums = {1, 3}
    Ids = {d1, d2}
    d1 = d1
    d2 = d2
    NULL = NULL
    NumBuckets = 2
    Hash <- MCHash
    MinLength = 3
    Garbage = Garbage
    LengthBytes = 2
    HeaderLength = 3
    Packets <- MCPackets
    MaxPackets = 3
    MaxBehind = 3
INVARIANTS
    TypeOK
    TableIsListed
    OpenIsListed
PROPERTIES
    FramedSpec
CHECK_DEADLOCK FALSE
