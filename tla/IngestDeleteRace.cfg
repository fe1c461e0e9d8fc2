SPECIFICATION HistorySpec
CONSTANTS
    Handlers = {p1, p2}
    Workers = {p1, p2}
    DocIds = {d1}
    Workspaces = {ws}
    NULL = NULL
    Files <- OneFile
    Checksum <- OneChecksum
    ChunkCount <- OneChunkCount
    IngestEager = TRUE
    TasksAreSent = TRUE
    MaxRuns = 2
    MaxFaults = 0
    MaxCrashes = 0
INVARIANTS
    DeletedPurged
SYMMETRY Symmetry
CHECK_DEADLOCK FALSE
