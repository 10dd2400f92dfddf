SPECIFICATION FairSpec
CONSTANTS
    Session = {s1}
    Worker = {w1}
    Inner = {i1, i2}
    Nobody = Nobody
    FlushHistories <- MCFlushHistories
    MinMessages = 2
    PreservedTurns = 1
    Budget = 3
    ChunkCount = 2
    MaxRetries = 1
    Window = 2
    CompactAt = 2
    FlushAt = 2
    MaxHistory = 4
    MaxOverflows = 0
INVARIANTS
    CallsAreBounded
PROPERTY GoroutinesEnd
