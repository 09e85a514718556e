SPECIFICATION FairSpec
CONSTANTS
    Sessions = {1}
    Retries = 2
    BatchDistance = 0
    ParaAt <- RelayParaAt
    MaxRelay = 2
    MaxPara = 2
    MaxLosses = 2
    MaxRollbacks = 1
INVARIANTS
    TypeOK
    NeverAhead
    LossesAreSurvived
PROPERTIES
    BlocksFollow
CHECK_DEADLOCK FALSE
