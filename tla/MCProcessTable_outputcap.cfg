SPECIFICATION Spec
CONSTANTS
    Procs = {p1}
    Handlers = {h1}
    NoProc = NoProc
    MaxProcessCount = 1
    Limit = 2
    PipeCap = 3
    ReadSize = 3
    ExitCodes = {0, 1}
    Chatty <- StdoutOnly
INVARIANTS
    OnlyKilledBySignal
CHECK_DEADLOCK FALSE
