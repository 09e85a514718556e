SPECIFICATION Spec
CONSTANTS
    Chains = {"parent", "para"}
    GParent = 1
    Retries = 1
    MaxHead = 2
    MaxCrashes = 1
    MaxFailures = 1
    MaxSwitches = 1
INVARIANTS
    StoreIsWhole
PROPERTIES
    StoredForGood
CHECK_DEADLOCK FALSE
