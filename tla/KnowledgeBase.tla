--------------------------- MODULE KnowledgeBase ---------------------------
(***************************************************************************)
(* Conversations over the documents that DocumentIngestion is changing at  *)
(* the same time: retrieval reads the tables and the vector store between  *)
(* any two steps of an upload, a reprocess, a task or a delete.  What a     *)
(* search may still find of a deleted document depends on who has been at   *)
(* work on it, which is the history that DocumentHistory keeps.             *)
(***************************************************************************)
EXTENDS Conversations

CONSTANTS
    Handlers, Workers, Files, Checksum, ChunkCount,     \* as in DocumentIngestion
    IngestEager, TasksAreSent, MaxRuns, MaxFaults, MaxCrashes

VARIABLES blobs, broker, pc, req, session, tx, runs, faults, crashes, shared, escaped

Ingestion == INSTANCE DocumentHistory

ASSUME IngestionConstants == Ingestion!ConstantsAssumption

ingestionVars == <<documents, chunks, vectors, blobs, broker, pc, req, session, tx,
                   runs, faults, crashes, shared, escaped>>

vars == <<chatVars, ingestionVars>>

Init == ChatInit /\ Ingestion!HistoryInit

Next ==
    \/ ChatNext /\ UNCHANGED ingestionVars
    \/ Ingestion!HistoryNext /\ UNCHANGED chatVars

Spec == Init /\ [][Next]_vars

\* A question that is asked after a document has been deleted is not answered
\* from it, whatever failed or died under its uploads, its runs and its delete,
\* unless two of them have overlapped, which can leave its vectors behind, or the
\* answer comes out of the cache, which no delete empties.
DeletedNotCitedUnlessShared ==
    \A p \in Chatters : stage[p] # "idle" /\ ~turn[p].cached =>
        \A c \in turn[p].citations : c[1] \in turn[p].deleted => c[1] \in shared
=============================================================================
