SPECIFICATION FairSpec
CONSTANTS
    Chains = {"para"}
    GParent = 1
    Retries = 1
    MaxHead = 3
    MaxCrashes = 1
    MaxFailures = 3
    MaxSwitches = 2
INVARIANTS
    TypeOK
    ParaChainLinked
PROPERTIES
    FinalizedIsFetched
CHECK_DEADLOCK FALSE
