SPECIFICATION Spec
CONSTANTS
    a = a
    b = b
    p1 = p1
    p2 = p2
    c1 = c1
    c2 = c2
    w1 = w1
    w2 = w2
    w3 = w3
    Apps = {a, b}
    PageIds = {p1, p2}
    AppOf <- MCAppOfTwo
    Iwss = {c1, c2}
    WsIds = {w1, w2, w3}
    Noise <- MCNoNoise
    RemoteClaims = FALSE
    MaxPageNum = 3
    MaxPending = 2
SYMMETRY SymmetryOfTwo
INVARIANTS
    OwnerIsConnected
    SessionsAgree
    ListingsAgree
CHECK_DEADLOCK FALSE
