SPECIFICATION Spec
CONSTANTS
    Session = {s1, s2}
    Worker = {w1, w2}
    Inner = {i1}
    Nobody = Nobody
    FlushHistories <- MCNoHistory
    MinMessages = 2
    PreservedTurns = 1
    Budget = 3
    ChunkCount = 2
    MaxRetries = 0
    Window = 2
    CompactAt = 2
    FlushAt = 2
    MaxHistory = 4
    MaxOverflows = 1
SYMMETRY Alike
INVARIANT OneFlushPerCycle
INVARIANT OverflowForcesOnce
