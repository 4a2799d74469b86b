SPECIFICATION Spec
CONSTANTS
    NumTasks = 3
    NumDevices = 1
    NumMutex = 2
    DevFreq <- OneDevice
    TimeMod = 3
    IrqWindows = {"found", "unlinked", "picked", "switching"}
VIEW WithoutResult
CONSTRAINT SearchBound
INVARIANTS
    ContextsKept
    InOneQueue
    
    LockExclusive
    OnlyHandOverOutranks
PROPERTIES
    ImplementsFifoLock
