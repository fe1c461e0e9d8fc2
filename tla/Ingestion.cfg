SPECIFICATION FairHistorySpec
CONSTANTS
    Handlers = {p1, p2}
    Workers = {p1, p2}
    DocIds = {d1}
    Workspaces = {ws}
    NULL = NULL
    Files <- MCFiles
    Checksum <- MCChecksum
    ChunkCount <- MCChunkCount
    IngestEager = TRUE
    TasksAreSent = TRUE
    MaxRuns = 3
    MaxFaults = 1
    MaxCrashes = 1
INVARIANTS
    ReplayableBytes
    SingleWriter
    IndexedHasChunks
    IndexedSearchable
    DeletedPurgedUnlessShared
    RowConsistentUnlessShared
    NeverStaleUnlessShared
PROPERTIES
    ImplementsLifecycle
    UploadsGetIngested
    WorkEnds
    TaskSurvivesCrash
CHECK_DEADLOCK FALSE
