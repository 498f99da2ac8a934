SPECIFICATION FairSpec
CONSTANTS
    k1 = k1
    k2 = k2
    t1 = t1
    t2 = t2
    t3 = t3
    Trove <- MCTrove
    Match <- MCMatch
    VF <- MCVF
    Node <- MCNode
    Target <- MCTarget
    Mirrors <- MCMirrors
    Room = 2
    JobSize = 1
    SplitNodes = FALSE
    MaxClock = 3
    MaxChanges = 3
    MaxFaults = 1
PROPERTIES
    AllShown
