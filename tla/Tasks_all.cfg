CONSTANTS
    Callers = {w1, w2}
    MaxTasks = 2
    Codes = {0, 1}
SPECIFICATION LiveSpec
INVARIANTS
    TypeOK
    AsyncTaskCanBeFound
    CompletedMeansEnded
    ForegroundCodeFaithful
PROPERTIES
    EndedIsCollected
    RunReturns
    FutureImplemented
