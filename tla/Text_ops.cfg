CONSTANTS
    NL = NL
    CR = CR
    a = a
    b = b
    Chars <- SomeChars
    Texts <- ShortTexts
    Targets <- SomeTargets
    Replacements <- SomeReplacements
    EditRanges <- SomeEditRanges
    ViewRanges <- SomeRanges
    ByteLimits <- SomeLimits
    MaxEdits = 1
    Lengths <- AroundLimits
    Requests <- FewOrMany
SPECIFICATION Spec
INVARIANTS
    ShownIsFound
    TruncationHonest
    PagesInOrder
    PagingAdvances
PROPERTIES
    SurgicalEdit
CHECK_DEADLOCK FALSE
