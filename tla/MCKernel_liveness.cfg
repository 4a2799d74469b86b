SPECIFICATION FairSpec
CONSTANTS
    NumTasks = 2
    NumDevices = 2
    NumMutex = 1
    DevFreq <- PeriodicDevices
    TimeMod = 3
    IrqWindows = {"found", "unlinked"}
INVARIANTS
    SignalAhead

    
    
