CONSTANTS
    Calls = {c1, c2, c3}
    c1 = c1
    c2 = c2
    c3 = c3
    Target = Target
    KindsOf <- AnyTwo
    Dropped = {0, 1}
SPECIFICATION Spec
INVARIANTS
    TypeOK
    TextNeverLost
    ReadsWholeText
    NewFileOnce
PROPERTIES
    SuccessMeansWritten
CHECK_DEADLOCK FALSE
SYMMETRY Symmetry
