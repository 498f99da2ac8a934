SPECIFICATION Spec
CONSTANTS
    p1 = p1
    p2 = p2
    t1 = t1
    t2 = t2
    t3 = t3
    c1 = c1
    c2 = c2
    c3 = c3
    Proc <- MCProc
    Trove <- MCTrove
    NoTrove = NoTrove
    Content <- MCContent
    Config <- MCConfig
    Uses <- MCUses
    Databases = {TRUE, FALSE}
    Mishaps = {"fault"}
SYMMETRY MCSymmetry
INVARIANTS
    TypeOK
    ContentsPresent
    NothingLeft
