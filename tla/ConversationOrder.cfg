SPECIFICATION Spec
CONSTANTS
    Chatters = {c1}
    ConvIds = {v1}
    DocIds = {d1}
    Workspaces = {w1}
    Questions = {q1}
    NULL = NULL
    CacheSize = 0
    MemorySize = 1
    RerankTopK = 1
    AgentMaxSteps = 4
    MaxTurns = 1
    MaxFailures = 0
    Handlers = {p1}
    Workers = {p1}
    Files <- MCFiles
    Checksum <- MCChecksum
    ChunkCount <- MCChunkCount
    IngestEager = TRUE
    TasksAreSent = FALSE
    MaxRuns = 1
    MaxFaults = 0
    MaxCrashes = 0
INVARIANTS
    OldestFirst
CHECK_DEADLOCK FALSE
