SPECIFICATION FairSpec
CONSTANTS
    Callers = {c1, c2}
    DryCallers = {c1}
    FarCallers = {c2}
    Providers = {p1, p2}
    MaxVersion = 1
    QueueSize = 2
    Retries = 0
    Ids = {1, 2}
    MaxFaults = 1
    NoProvider = none
PROPERTIES
    EveryCallEnds
