SPECIFICATION Spec
CONSTANTS
    NumTasks = 3
    NumDevices = 2
    NumMutex = 1
    DevFreq <- PeriodicDevices
    TimeMod = 3
    IrqWindows = {"picked"}
INVARIANTS
    MutualExclusion
