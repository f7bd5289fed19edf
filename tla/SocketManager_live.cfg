SPECIFICATION FairSpec
CONSTANTS
    Fds = {1, 2}
    Msgs <- MCOneByte
    MaxQueued = 2
    MaxReady = 2
PROPERTIES
    LiveBlockedResumes
    BlockedSendsProgress
    LoopReturns
