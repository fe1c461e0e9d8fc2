SPECIFICATION Spec
CONSTANTS
    LongPage = 6
    ShortPage = 3
    Documents <- MCDocuments
    Sizes = {0, 1, 2, 3, 4}
    Overlaps <- MCOverlaps
    k1 = k1
    k2 = k2
    k3 = k3
    Chunks <- MCChunks
    Overlap = {0, 1, 2}
    Cost = {0, 1, 3}
    TopK = 2
    RerankTopK = 2
    Budget = 2
    DocumentOf <- MCDocumentOf
    Ingested = {"first"}
    Cutoffs = {0, 1, 2, 3}
    WideRow = 3
    NarrowRow = 2
    Sheets <- MCSheets
    MaxEvents = 5
    MaxUpload = 1
    NoExtension = NoExtension
    DbAutoCreate = TRUE
INVARIANTS
    NothingLost
    ChunksAsConfigured
    AgreementFirst
    BestCited
    MetricsAgree
    PageTextIsKept
    SheetIsKept
    FetchedIsExtractable
    NeverRefused
    RevisionSaysItAll
    LatestServesModels
PROPERTY
    ChunkingEnds
CHECK_DEADLOCK FALSE
