SPECIFICATION FairSpec
CONSTANTS
    p1 = p1
    p2 = p2
    j1 = j1
    j2 = j2
    account = account
    Jobs = {j1, j2}
    Pools = {p1, p2}
    PoolOf <- OwnPoolOf
    OperatorOf <- OneOperator
    Calls <- SingleCalls
    MayRetry = {j2}
    TxBatchSize = 1
    TxRetryTimes = 0
    MaxFaults = 2
PROPERTIES
    EveryJobSettles
CHECK_DEADLOCK FALSE
