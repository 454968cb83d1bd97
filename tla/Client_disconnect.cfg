CONSTANTS
    Workers = {w1}
    Hosts = {h1}
    w1 = w1
    w2 = w2
    NoHost = NoHost
    Free = Free
    Ops <- AllOps
    MaxConns = 2
SPECIFICATION Spec
PROPERTIES
    DisconnectTearsDown
