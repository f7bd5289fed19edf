SPECIFICATION Spec
CONSTANTS
    c1 = c1
    c2 = c2
    c3 = c3
    f1 = f1
    f2 = f2
    p1 = p1
    p2 = p2
    Ifss = {f1, f2}
    Pages = {p1, p2}
    Iwss = {c1, c2, c3}
    Overlap = FALSE
INVARIANTS
    LinksLive
    NothingLeaks
PROPERTIES
    RemovalsSpec
    CascadeEnds
