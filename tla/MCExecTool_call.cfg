SPECIFICATION FairSpec
CONSTANTS
    Procs = {p1}
    Limit = 1
    PipeCap = 2
    ReadSize = 2
    ExitCodes = {0, 1}
    Chatty = {"stdout", "stderr"}
    DefaultTimeout = 2
    MaxTimeout = 4
    ReadTimeout = 1
    WriteTimeout = 4
    Millisecond = 2
    Word = 16
    TimeoutArgs = {0, 1, 3, 5}
    MaxWritten = 2
    Horizon = 7
INVARIANTS
    TypeOK
    ResultIsTrue
    ErrorHasACause
    NothingOutlivesTheCall
    RunsAtMostMax
    AnsweredInTime
PROPERTY CallEnds
CHECK_DEADLOCK FALSE
