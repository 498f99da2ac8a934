SPECIFICATION Spec
CONSTANTS
    p1 = p1
    p2 = p2
    t1 = t1
    t2 = t2
    Proc <- MCProc
    NoProc = NoProc
    Trove <- MCTrove
    MaxVersion = 1
    MaxCounter = 4
    MaxIndex = 1
    MaxHunk = 2
    Mishaps = {"fault", "crash"}
SYMMETRY MCSymmetry
INVARIANTS
    TypeOK
    OneAhead
PROPERTIES
    Retraced
