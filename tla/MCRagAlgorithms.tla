-------------------------- MODULE MCRagAlgorithms --------------------------
(***************************************************************************)
(* The sequential parts: one call of one of them a behaviour, but for the  *)
(* migrations, of which any number may follow each other.                  *)
(***************************************************************************)
EXTENDS Chunker, Evaluation, UrlIngestion, Migrations

CONSTANTS
    LongPage, ShortPage,    \* bounds: characters of a page, alone and in company
    WideRow, NarrowRow,     \* bounds: cells of the header and of another row
    k1, k2, k3              \* the chunks of Retrieval

PagesUpTo(n) == UNION {[1 .. k -> BOOLEAN] : k \in 0 .. n}

MCDocuments == {<<p>> : p \in PagesUpTo(LongPage)} \cup (PagesUpTo(ShortPage) \X PagesUpTo(ShortPage))
MCOverlaps == -1 .. 4

RowsUpTo(n) == UNION {[1 .. k -> Cell] : k \in 0 .. n}

MCSheets == {<<>>} \cup (RowsUpTo(NarrowRow) \X RowsUpTo(WideRow))
                   \cup (RowsUpTo(1) \X RowsUpTo(NarrowRow) \X RowsUpTo(1))

\* Two chunks are of one document, which has a label, and one of another.
MCChunks == {k1, k2, k3}
MCDocumentOf == [x \in MCChunks |-> IF x = k3 THEN "second" ELSE "first"]

chunkerIdle == at = "idle"
retrievalIdle == done = "nothing"
extractorIdle == extraction = "none"
urlIdle == ingest = "none"
migrationIdle == ~Running /\ catalog = Empty

Init ==
    ChunkInit /\ RetrievalInit /\ ExtractorInit /\ UrlInit /\ MigrationInit

Next ==
    \/ /\ retrievalIdle /\ extractorIdle /\ urlIdle /\ migrationIdle
       /\ ChunkNext
       /\ UNCHANGED <<retrievalVars, extractorVars, urlVars, migrationVars>>
    \/ /\ chunkerIdle /\ extractorIdle /\ urlIdle /\ migrationIdle
       /\ RetrievalNext
       /\ UNCHANGED <<chunkVars, extractorVars, urlVars, migrationVars>>
    \/ /\ chunkerIdle /\ retrievalIdle /\ urlIdle /\ migrationIdle
       /\ ExtractorNext
       /\ UNCHANGED <<chunkVars, retrievalVars, urlVars, migrationVars>>
    \/ /\ chunkerIdle /\ retrievalIdle /\ extractorIdle /\ migrationIdle
       /\ UrlNext
       /\ UNCHANGED <<chunkVars, retrievalVars, extractorVars, migrationVars>>
    \/ /\ chunkerIdle /\ retrievalIdle /\ extractorIdle /\ urlIdle
       /\ MigrationNext
       /\ UNCHANGED <<chunkVars, retrievalVars, extractorVars, urlVars>>

Spec ==
    Init /\ [][Next]_<<chunkVars, retrievalVars, extractorVars, urlVars, migrationVars>>
         /\ ChunkFairness
=============================================================================
