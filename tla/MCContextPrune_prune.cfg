SPECIFICATION Spec
CONSTANTS
    Window = 10
    CharsPerToken = 2
    ToolCharsPerToken = 1
    ImageChars = 6
    KeepLast = 1
    SoftTrimMax = 4
    MinPrunable = 5
    Marker = 3
    Suffix = 1
    Removed = 2
    Cleared = 1
    ImageText = 1
    Systems <- MCSystems
    Inputs <- MCInputs
    Replies <- MCReplies
    MaxHistory = 5
    MinMessages = 3
    PreservedTurns = 1
    TurnChars = 6
    Ellipsis = 1
    HistoryShare = 8
    ChunkCount = 2
    SummaryChars = {0, 3, 20}
INVARIANTS
    CompactionCoversTheSession
    ChunksAreBalanced
    CompactingAgainKeepsTheTurns
    OnlyTheOldestGo
    DropsWhatItMust
    GuardHolds
CHECK_DEADLOCK FALSE
