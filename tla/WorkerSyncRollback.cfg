SPECIFICATION Spec
CONSTANTS
    Sessions = {1}
    Retries = 2
    BatchDistance = 0
    ParaAt <- RelayParaAt
    MaxRelay = 2
    MaxPara = 2
    MaxLosses = 0
    MaxRollbacks = 1
PROPERTIES
    JumpsOnError
CHECK_DEADLOCK FALSE
