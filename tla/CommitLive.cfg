SPECIFICATION FairSpec
CONSTANTS
    p1 = p1
    p2 = p2
    Proc <- MCProc
    NoProc = NoProc
    MaxVersion = 2
    MaxHunk = 2
    Mishaps = {"fault", "statusFault", "lateSignal", "staleOpen", "noCounter"}
CHECK_DEADLOCK TRUE
PROPERTIES
    NoStaleUpdate
    LockFreed
