SPECIFICATION Spec
CONSTANTS
    Callers = {c1, c2}
    DryCallers = {c1}
    FarCallers = {c2}
    Providers = {p1, p2}
    MaxVersion = 2
    QueueSize = 2
    Retries = 1
    Ids = {1, 2, 3}
    MaxFaults = 1
    NoProvider = none
INVARIANTS
    TypeOK
    NothingIsStranded
PROPERTIES
    MetaNeverGoesBack
    MissingMeansTwoProviders
