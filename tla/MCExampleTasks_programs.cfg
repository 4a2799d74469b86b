SPECIFICATION TasksSpec
CONSTANTS
    NumTasks = 4
    NumDevices = 4
    NumMutex = 3
    DevFreq <- Periods
    TimeMod = 20
    IrqWindows = {"found", "unlinked", "picked", "switching"}
CONSTRAINT DispatcherQuiet
INVARIANTS
    NoLostUpdate
    ChaserResult
    WholeBursts
    ChecksSucceed
PROPERTIES
    PrintsAll
