CONSTANTS
    Workers = {w1, w2}
    Hosts = {h1, h2}
    w1 = w1
    w2 = w2
    NoHost = NoHost
    Free = Free
    Ops <- ClientOps
    MaxConns = 3
SPECIFICATION Spec
INVARIANTS
    TypeOK
    HandleNeverNil
    PairConsistent
    InstallsConfiguredHost
PROPERTIES
    SlotImplemented
SYMMETRY Symmetry
