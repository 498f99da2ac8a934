SPECIFICATION FairSpec
CONSTANTS
    Jobs <- MCJobs
    Room <- MCRoom
    Mishaps = {"fault", "slow"}
INVARIANTS
    TypeOK
    InOrder
PROPERTIES
    Ends
