SPECIFICATION HistorySpec
CONSTANTS
    Handlers = {p1}
    Workers = {p1}
    DocIds = {d1, d2}
    Workspaces = {ws}
    NULL = NULL
    Files <- MCFiles
    Checksum <- MCChecksum
    ChunkCount <- MCChunkCount
    IngestEager = TRUE
    TasksAreSent = FALSE
    MaxRuns = 2
    MaxFaults = 0
    MaxCrashes = 0
INVARIANTS
    UploadResolves
SYMMETRY Symmetry
CHECK_DEADLOCK FALSE
