SPECIFICATION Spec
CONSTANTS
    p1 = p1
    p2 = p2
    j1 = j1
    j2 = j2
    account = account
    Jobs = {j1, j2}
    Pools = {p1}
    PoolOf <- OnePoolOf
    OperatorOf <- OneOperator
    Calls <- PairCalls
    MayRetry = {j2}
    TxBatchSize = 1
    TxRetryTimes = 1
    MaxFaults = 2
INVARIANTS
    TypeOK
    OutcomeIsTrue
    RunsOnce
    ChainTakesInOrder
CHECK_DEADLOCK FALSE
