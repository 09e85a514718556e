SPECIFICATION FairSpec
CONSTANTS
    Clients = {c1, c2}
    Nobody = Nobody
    PerRunner = 1
    OldWorkers = 1
    MaxWorkers = 2
    MaxPools = 1
    MaxSaves = 2
    MaxIds = 2
INVARIANTS
    TypeOK
    CommandsArrive
PROPERTIES
    AllOrNothing
    EnabledWorkersRun
CHECK_DEADLOCK FALSE
