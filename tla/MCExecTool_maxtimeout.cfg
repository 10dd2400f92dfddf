SPECIFICATION Spec
CONSTANTS
    Procs = {p1}
    Limit = 2
    PipeCap = 3
    ReadSize = 3
    ExitCodes = {0, 1}
    Chatty = {"stdout"}
    DefaultTimeout = 2
    MaxTimeout = 4
    ReadTimeout = 1
    WriteTimeout = 4
    Millisecond = 2
    Word = 16
    TimeoutArgs = {0, 2}
    MaxWritten = 4
    Horizon = 7
CHECK_DEADLOCK FALSE
INVARIANT AnswerReachesTheClient
