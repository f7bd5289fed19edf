SPECIFICATION Spec
CONSTANTS
    MinLength = 3
    Garbage = Garbage
    LengthBytes = 2
    MaxRpc = 2
    Envelope = 1
    Lengths = {1, 2, 3, 4}
    MaxMessages = 3
    MaxBehind = 3
INVARIANTS
    TypeOK
    ReceivedWhole
    SentWhole
PROPERTIES
    FramedSpec
CHECK_DEADLOCK FALSE
