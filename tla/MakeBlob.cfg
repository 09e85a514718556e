SPECIFICATION FairSpec
CONSTANTS
    GParent = 1
    MaxParent = 5
    MaxPara = 4
    MaxCrashes = 1
INVARIANTS
    TypeOK
    FinishedWindowIsServed
    RequestsAreSound
    HeightsAreCovered
PROPERTIES
    ImplementsFeed
    PublishedForGood
    EveryBlockIsServed
CHECK_DEADLOCK FALSE
