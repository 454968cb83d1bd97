CONSTANTS
    Callers = {w1}
    w1 = w1
    w2 = w2
    Ops <- AllOps
    NoPane = NoPane
    Free = Free
    Named = FALSE
    Bootstrap = TRUE
    Outside = FALSE
    MaxPolls = 2
    MaxPanes = 3
SPECIFICATION LiveSpec
INVARIANTS
    TypeOK
PROPERTIES
    StaleDefaultRecovers
    CallsReturn
