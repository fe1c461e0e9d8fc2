SPECIFICATION Spec
CONSTANTS
    Chatters = {c1, c2}
    ConvIds = {v1, v2}
    DocIds = {d1}
    Workspaces = {w1, w2}
    Questions = {q1}
    NULL = NULL
    CacheSize = 1
    MemorySize = 1
    RerankTopK = 1
    AgentMaxSteps = 4
    MaxTurns = 2
    MaxFailures = 1
    Handlers = {p1}
    Workers = {p2}
    Files <- MCFiles
    Checksum <- MCChecksum
    ChunkCount <- MCChunkCount
    IngestEager = FALSE
    TasksAreSent = TRUE
    MaxRuns = 1
    MaxFaults = 0
    MaxCrashes = 0
INVARIANTS
    TypeOK
    TurnsAreWhole
    RunsAreAudited
    CitesOwnWorkspace
    DeletedNotCitedUnlessShared
SYMMETRY Symmetry
CHECK_DEADLOCK FALSE
CONSTRAINT AtMostThree
