SPECIFICATION PromisesSpec
CONSTANTS
    NumTasks = 2
    NumDevices = 1
    NumMutex = 1
    DevFreq <- OneDevice
    TimeMod = 3
    IrqWindows = {"found", "unlinked", "picked", "switching"}
    d0 = d0
    d1 = d1
    NoQueue = NoQueue
VIEW PartAtWork
CHECK_DEADLOCK FALSE
INVARIANT
    SomePromiseKept
