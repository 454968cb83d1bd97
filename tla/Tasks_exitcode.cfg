CONSTANTS
    Callers = {w1}
    MaxTasks = 1
    Codes = {0, 1, 2}
SPECIFICATION Spec
INVARIANTS
    CompletedShowsExitCode
