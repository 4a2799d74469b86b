SPECIFICATION Spec
CONSTANTS
    NumTasks = 2
    Results = {0, 1}
    MaxDepth = 3
INVARIANTS
    UserModeKept
    ResultKept
