CONSTANTS
    Callers = {w1, w2}
    w1 = w1
    w2 = w2
    Ops <- SplitOps
    NoPane = NoPane
    Free = Free
    Named = TRUE
    Bootstrap = TRUE
    Outside = TRUE
    MaxPolls = 1
    MaxPanes = 2
SPECIFICATION Spec
INVARIANTS
    CommandTypedOnce
    NamedPaneOnly
    OneAutoWorkspace
