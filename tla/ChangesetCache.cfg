SPECIFICATION FairSpec
CONSTANTS
    p1 = p1
    p2 = p2
    Proc <- MCProc
    NoProc = NoProc
    Key = {1, 2}
    Limits = {1, 2}
    Mishaps = {"fault"}
INVARIANTS
    TypeOK
    OneMaker
    MadeOnce
PROPERTIES
    Served
