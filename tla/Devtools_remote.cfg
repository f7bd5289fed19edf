SPECIFICATION Spec
CONSTANTS
    a = a
    b = b
    p1 = p1
    p2 = p2
    c1 = c1
    c2 = c2
    w1 = w1
    w2 = w2
    w3 = w3
    Apps = {a}
    PageIds = {p1, p2}
    AppOf <- MCAppOfOne
    Iwss = {c1, c2}
    WsIds = {w1, w2}
    Noise <- MCNoise
    RemoteClaims = TRUE
    MaxPageNum = 2
    MaxPending = 2
SYMMETRY SymmetryOfOne
INVARIANTS
    PagePointers
    OneNumPerPage
PROPERTIES
    PageNumsStable
    OnlyFaultsKill
CHECK_DEADLOCK FALSE
