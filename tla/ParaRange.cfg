SPECIFICATION FairSpec
CONSTANTS
    Readers = {r1, r2}
    BatchSize = 2
    Retries = 1
    CacheAfter = 1
    MaxPara = 3
    MaxRestarts = 1
INVARIANTS
    TypeOK
    IndexNamesBuffer
    CommittedIsServed
PROPERTIES
    BufferStaysOffered
    EveryBlockDispatched
CHECK_DEADLOCK FALSE
