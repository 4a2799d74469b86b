\* The programs that wait in a system call; main returns, so they may stop.
SPECIFICATION Spec
CHECK_DEADLOCK FALSE
CONSTANTS
    Keys = {4, 127, 10, 13, 65, 78}
    N = 3
    BUF_SIZE = 3
    Word = 32
    SYSTIME_PRECISION = 4
    Tenth = 1
    ITE = 3
    MaxWait = 15
    MaxColumn = 2
    Table = 5
    Argument = {7, 8}
    MaxArgs = 2
INVARIANTS
    BootComplete
    EchoFollowsLine
    AnswersOnOwnLine
    SleepsLongEnough
    RangeChecked
    ExportsReachable
PROPERTIES
    ImplementsLineEditor
    ReportsElapsed
    SleepEnds
