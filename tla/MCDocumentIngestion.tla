------------------------ MODULE MCDocumentIngestion ------------------------
(***************************************************************************)
(* Values for the constants of DocumentIngestion.                          *)
(***************************************************************************)
EXTENDS DocumentHistory, TLC

\* Text, and the same bytes under a name whose extractor cannot read them.
MCFiles == {"report.txt", "report.pdf"}
MCChecksum == [f \in MCFiles |-> "r"]
MCChunkCount == [f \in MCFiles |-> IF f = "report.pdf" THEN 0 ELSE 2]

\* A single file that can be ingested, for the runs about one document.
OneFile == {"report.txt"}
OneChecksum == [f \in OneFile |-> MCChecksum[f]]
OneChunkCount == [f \in OneFile |-> MCChunkCount[f]]

\* A process that is a handler and a worker stands for a slot of either pool;
\* with Handlers = Workers the processes are interchangeable.
Symmetry == Permutations(Procs) \cup Permutations(DocIds)
=============================================================================
