SPECIFICATION ServerSpec
CONSTANTS
    Procs = {p1, p2}
    Handlers = {h1, h2}
    NoProc = NoProc
    MaxProcessCount = 1
    MaxBoots = 1
    MaxMissing = 1
    Limit = 1
    PipeCap = 2
    ReadSize = 2
    ExitCodes = {1}
    Chatty = {"stdout"}
SYMMETRY Symmetry
INVARIANTS
    RemovedMeansDelivered
    ReportedCodeIsReal
    LiveBounded
    ReachesItsCommand
    ToldMeansOver
    LedgerBalances
    OnlyDockerLoses
CHECK_DEADLOCK FALSE
