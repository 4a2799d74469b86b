\* One call of every function; then the client is done.
SPECIFICATION Spec
CHECK_DEADLOCK FALSE
CONSTANTS
    Long = 256
    MemSize = 6
    Byte = {0, 1, 2}
    PRINTF_BUFMAX = 3
    MaxText = 5
    NoResult = NoResult
INVARIANTS
    StringsAreRead
    TextArrives
    SupportSound
    StringsAreBuilt
    FieldIsFilled
    ReadsBack
    ScanInvertsPrint
