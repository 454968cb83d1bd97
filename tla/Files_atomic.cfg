CONSTANTS
    Calls = {c1}
    c1 = c1
    c2 = c2
    c3 = c3
    Target = Target
    KindsOf <- OneReplace
    Dropped = {0, 1}
SPECIFICATION Spec
INVARIANTS
    ReplaceAtomic
CHECK_DEADLOCK FALSE
