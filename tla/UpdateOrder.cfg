SPECIFICATION Spec
CONSTANTS
    a = a
    b = b
    NoTrove = NoTrove
    Node <- MCNode
    Dep <- MCDep
    Plans <- MCPlans
    Mishaps = {}
\* An ordering ends, and an update whose dependencies cannot be met stops.
CHECK_DEADLOCK FALSE
INVARIANTS
    TypeOK
    StepClosed
    StepsSorted
    WholePackages
    FinalsLast
