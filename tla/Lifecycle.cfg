SPECIFICATION FairSpec
CONSTANTS
    MaxRestarts = 2
    MaxKicks = 1
    SkipRa = FALSE
    Watched = {2}
INVARIANTS
    TypeOK
    StoppedIsLeftAlone
    NotStranded
PROPERTIES
    StopsEventually
    RestartReplaces
CHECK_DEADLOCK FALSE
