SPECIFICATION FairSpec
CONSTANTS
    Procs = {p1, p2}
    Handlers = {h1, h2}
    NoProc = NoProc
    MaxProcessCount = 1
    Limit = 1
    PipeCap = 2
    ReadSize = 2
    ExitCodes = {1}
    Chatty <- StdoutOnly
PROPERTIES
    ExitObserved
    CallsReturn
    Promise
CHECK_DEADLOCK FALSE
