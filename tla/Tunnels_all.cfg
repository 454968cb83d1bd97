CONSTANTS
    Callers = {w1, w2}
    Free = Free
    Tunnels = {t1, t2}
    Conns = {c1}
SPECIFICATION LiveSpec
INVARIANTS
    TypeOK
    TableIsListeners
    LoopOutlivesNoTunnel
PROPERTIES
    CloseAllEmptiesTable
    LoopEnds
    ForwardingEnds
    CallsReturn
