SPECIFICATION Spec
CONSTANTS
    NumTasks = 4
    DevQueue = {d0, d1}
    MutexQueue = {m0}
    NoQueue = NoQueue
INVARIANTS
    AwakeUnlinked

    
