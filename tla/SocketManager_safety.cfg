SPECIFICATION Spec
CONSTANTS
    Fds = {1, 2}
    Msgs <- MCMsgs
    MaxQueued = 2
    MaxReady = 4
INVARIANTS
    RecvFdsInv
    BlockedSendsInv
    ReportedStaysTrue
    NothingSkipped
    MaxFdInv
    CleanupClosesAll
    IndInv
PROPERTIES
    StreamsSpec
    RemovalsSpec
