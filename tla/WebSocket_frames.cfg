SPECIFICATION Spec
CONSTANTS
    Requests <- MCRequests
    Frontends = {"file", "http"}
    Frames <- MCFrames
    MaxRequests = 2
    MaxItems = 4
    MaxBlocks = 2
    MaxOut = 3
INVARIANTS
    AnswersWhole
    MessagesWhole
    OnlyFaultsEnd
    CloseIsLast
PROPERTIES
    FramedSpec
CHECK_DEADLOCK FALSE
