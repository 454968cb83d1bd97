CONSTANTS
    Workers = {w1}
    Hosts = {h1, h2}
    w1 = w1
    w2 = w2
    NoHost = NoHost
    Free = Free
    Ops <- AllOps
    MaxConns = 3
SPECIFICATION LiveSpec
INVARIANTS
    RunsOnItsHost
    StateOfItsHost
    NoWorkingConnectionAbandoned
PROPERTIES
    DirectoryKept
    CallsReturn
