SPECIFICATION Spec
CONSTANTS
    p1 = p1
    p2 = p2
    Proc <- MCProc
    NoProc = NoProc
    MaxVersion = 3
    MaxHunk = 2
    Mishaps = {"fault", "statusFault", "crash"}
SYMMETRY MCSymmetry
CHECK_DEADLOCK TRUE
INVARIANTS
    TypeOK
    FilesRecoverable
    StackRecoverable
PROPERTIES
    Implements
