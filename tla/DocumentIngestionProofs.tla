---------------------- MODULE DocumentIngestionProofs ----------------------
(***************************************************************************)
(* Proofs about DocumentIngestion, for any number of requests, workers,    *)
(* documents and files, any bounds, any interleaving, any faults and       *)
(* crashes; the last part: that DocumentIngestion implements               *)
(* DocumentLifecycle.                                                      *)
(***************************************************************************)
EXTENDS DocumentIngestion, TLAPS

Request_t == [workspace : Workspaces \cup {NULL}, file : Files \cup {NULL},
              doc : DocIds \cup {NULL}, task : BOOLEAN]

Tx_t == [run : Nat, target : Nat, cleared : Nat, inserted : BOOLEAN]

\* Rows that exist have a file, and a process at work has the document and
\* the file its steps use.
Referenced ==
    /\ \A d \in DocIds : IF Exists(d) THEN documents[d].file \in Files
                                      ELSE ~documents[d].deleted
    /\ \A p \in Procs :
        /\ pc[p] \notin {"idle", "unindex", "mark"} => req[p].file \in Files
        /\ pc[p] \notin {"idle", "insert"} => req[p].doc \in DocIds /\ Exists(req[p].doc)
        /\ pc[p] = "write" => session[p].file \in Files
        /\ req[p].task => req[p].doc \in DocIds

TypeInv == TypeOK /\ Referenced

\* What Flush writes is a row, and neither the workspace nor the file moves.
LEMMA FlushIsDocument ==
    ASSUME NEW row \in Document, NEW loaded \in Document, NEW new \in Document
    PROVE  /\ Flush(row, loaded, new) \in Document
           /\ Flush(row, loaded, new).workspace = row.workspace
           /\ Flush(row, loaded, new).file = row.file
  BY DEF Flush, Document, DocumentStatus

\* The records of an idle process, and of an id without a row, are well typed.
LEMMA NullRecords == NoDocument \in Document /\ NoReq \in Request_t /\ NoTx \in Tx_t
  BY DEF NoDocument, Document, NoReq, Request_t, NoTx, Tx_t

\* A process that ends leaves well-typed variables.
LEMMA FinishType ==
    ASSUME TypeInv, NEW p \in Procs, Finish(p),
           documents' \in [DocIds -> Document],
           \A d \in DocIds : /\ documents'[d].file = documents[d].file
                             /\ Exists(d) => documents'[d].status # "absent"
                             /\ ~Exists(d) => documents'[d] = documents[d],
           chunks' \in [DocIds -> Nat], UNCHANGED vectors,
           blobs' \subseteq DocIds, broker' \subseteq DocIds, UNCHANGED runs,
           faults' \in Nat, crashes' \in Nat
    PROVE  TypeInv'
  <1>1. /\ pc' = [pc EXCEPT ![p] = "idle"]
        /\ req' = [req EXCEPT ![p] = NoReq]
        /\ session' = [session EXCEPT ![p] = NoDocument]
        /\ tx' = [tx EXCEPT ![p] = NoTx]
    BY DEF Finish, Goto
  <1>2. TypeOK'
    BY <1>1, NullRecords DEF TypeInv, TypeOK, Request_t, Tx_t, Labels
  <1>3. Referenced'
    BY <1>1, <1>2 DEF TypeInv, TypeOK, Referenced, Exists, NoReq
  <1> QED BY <1>2, <1>3 DEF TypeInv

\* Entering run_ingestion with a row that exists is well typed.
LEMMA EnterRunType ==
    ASSUME TypeInv, NEW p \in Procs, NEW d \in DocIds, NEW row \in Document,
           NEW task \in BOOLEAN, EnterRun(p, d, row, task),
           Exists(d), row.file \in Files, UNCHANGED documents
    PROVE  /\ pc' \in [Procs -> Labels]
           /\ req' \in [Procs -> Request_t]
           /\ session' \in [Procs -> Document]
           /\ tx' \in [Procs -> Tx_t]
           /\ runs' \in [DocIds -> Nat]
           /\ Referenced'
  <1> DEFINE r == [workspace |-> row.workspace, file |-> row.file, doc |-> d, task |-> task]
             t == [NoTx EXCEPT !.run = runs[d] + 1]
  <1>1. /\ pc' = [pc EXCEPT ![p] = "start"]
        /\ req' = [req EXCEPT ![p] = r]
        /\ session' = [session EXCEPT ![p] = row]
        /\ tx' = [tx EXCEPT ![p] = t]
        /\ runs' = [runs EXCEPT ![d] = @ + 1]
    BY DEF EnterRun, Goto
  <1>2. r \in Request_t /\ r.file \in Files /\ r.doc = d
    BY DEF Request_t, Document
  <1>3. t \in Tx_t
    <2>1. runs[d] + 1 \in Nat
      BY DEF TypeInv, TypeOK
    <2> QED BY <2>1 DEF NoTx, Tx_t
  <1> HIDE DEF r, t
  <1>4. /\ pc' \in [Procs -> Labels]
        /\ req' \in [Procs -> Request_t]
        /\ session' \in [Procs -> Document]
        /\ tx' \in [Procs -> Tx_t]
        /\ runs' \in [DocIds -> Nat]
    BY <1>1, <1>2, <1>3 DEF TypeInv, TypeOK, Labels, Request_t, Tx_t
  <1>5. Referenced'
    BY <1>1, <1>2, <1>4 DEF TypeInv, TypeOK, Referenced, Exists
  <1> QED BY <1>4, <1>5

\* A commit of the pipeline writes a row.
LEMMA CommitIndexedType ==
    ASSUME TypeInv, NEW p \in Procs, pc[p] = "commit", CommitIndexed(p)
    PROVE  /\ documents' \in [DocIds -> Document]
           /\ chunks' \in [DocIds -> Nat]
           /\ \A d \in DocIds : /\ documents'[d].file = documents[d].file
                                /\ Exists(d) => documents'[d].status # "absent"
                                /\ ~Exists(d) => documents'[d] = documents[d]
  <1> DEFINE d == req[p].doc
             new == [session[p] EXCEPT !.status = "indexed", !.error = FALSE,
                                       !.chunk_count = ChunkCount[req[p].file]]
  <1>1. d \in DocIds /\ Exists(d) /\ req[p].file \in Files
    BY DEF TypeInv, Referenced
  <1>2. new \in Document /\ new.status = "indexed"
    <2>1. session[p] \in Document /\ ChunkCount[req[p].file] \in Nat
      BY <1>1, ConstantsAssumption DEF TypeInv, TypeOK
    <2> QED BY <2>1 DEF Document, DocumentStatus
  <1>3. documents' = [documents EXCEPT ![d] = Flush(documents[d], session[p], new)]
    BY DEF CommitIndexed
  <1>4. /\ Flush(documents[d], session[p], new) \in Document
        /\ Flush(documents[d], session[p], new).file = documents[d].file
    BY <1>1, <1>2, FlushIsDocument DEF TypeInv, TypeOK
  <1>5. Flush(documents[d], session[p], new).status # "absent"
    BY <1>1, <1>2 DEF Flush, Exists
  <1>6. chunks' \in [DocIds -> Nat]
    BY DEF CommitIndexed, TypeInv, TypeOK
  <1> HIDE DEF d, new
  <1> QED BY <1>1, <1>3, <1>4, <1>5, <1>6 DEF TypeInv, TypeOK, Exists

\* Every step of a request, a task or a failure keeps the types, and keeps every
\* process at work on a row that exists.
LEMMA TypeStep == TypeInv /\ [Next]_vars => TypeInv'
  <1> SUFFICES ASSUME TypeInv, [Next]_vars PROVE TypeInv'
    OBVIOUS
  <1> USE DEF Request_t, Tx_t
  <1>1. ASSUME NEW p \in Handlers, NEW w \in Workspaces, NEW f \in Files,
               CreateDocumentCheck(p, w, f)
        PROVE TypeInv'
    BY <1>1 DEF TypeInv, TypeOK, Referenced, CreateDocumentCheck, Goto, NoReq, Labels,
                Exists, store, bounds, Procs
  <1>2. ASSUME NEW p \in Procs, NEW d \in DocIds, CreateDocumentInsert(p, d)
        PROVE TypeInv'
    <2> DEFINE row == [workspace |-> req[p].workspace, file |-> req[p].file,
                       status |-> "queued", error |-> FALSE, chunk_count |-> 0,
                       deleted |-> FALSE]
    <2>1. row \in Document /\ row.file \in Files /\ row.status # "absent"
      BY <1>2 DEF CreateDocumentInsert, TypeInv, TypeOK, Referenced, Document, DocumentStatus
    <2>2. /\ documents' = [documents EXCEPT ![d] = row]
          /\ session' = [session EXCEPT ![p] = row]
          /\ req' = [req EXCEPT ![p] = [@ EXCEPT !.doc = d]]
          /\ pc' = [pc EXCEPT ![p] = "write"]
          /\ pc[p] = "insert"
          /\ UNCHANGED <<chunks, vectors, blobs, broker, tx, runs, faults, crashes>>
      BY <1>2 DEF CreateDocumentInsert, Goto, store, bounds
    <2> HIDE DEF row
    <2>3. TypeOK'
      BY <2>1, <2>2 DEF TypeInv, TypeOK, Labels
    <2>4. Referenced'
      BY <2>1, <2>2, <2>3 DEF TypeInv, TypeOK, Referenced, Exists
    <2> QED BY <2>3, <2>4 DEF TypeInv
  <1>3. ASSUME NEW p \in Procs, CreateDocumentConflict(p) PROVE TypeInv'
    <2>1. Finish(p) /\ UNCHANGED <<documents, store, broker, bounds>>
      BY <1>3 DEF CreateDocumentConflict
    <2>2. /\ documents' \in [DocIds -> Document] /\ chunks' \in [DocIds -> Nat]
          /\ blobs' \subseteq DocIds /\ broker' \subseteq DocIds
          /\ faults' \in Nat /\ crashes' \in Nat
      BY <2>1 DEF TypeInv, TypeOK, store, bounds
    <2> QED BY <2>1, <2>2, FinishType DEF Exists, store, bounds
  <1>4. ASSUME NEW p \in Procs, CreateDocumentWrite(p) PROVE TypeInv'
    <2>1. /\ req[p].doc \in DocIds
          /\ Exists(req[p].doc)
          /\ session[p] \in Document
          /\ session[p].file \in Files
          /\ UNCHANGED <<documents, chunks, vectors, broker, faults, crashes>>
          /\ blobs' \subseteq DocIds
      BY <1>4 DEF CreateDocumentWrite, TypeInv, TypeOK, Referenced
    <2>2. CASE IngestEager
      <3>1. EnterRun(p, req[p].doc, session[p], FALSE)
        BY <1>4, <2>2 DEF CreateDocumentWrite
      <3> QED BY <2>1, <3>1, EnterRunType DEF TypeInv, TypeOK
    <2>3. CASE ~IngestEager
      <3>1. Finish(p) /\ UNCHANGED runs
        BY <1>4, <2>3 DEF CreateDocumentWrite
      <3>2. /\ documents' \in [DocIds -> Document] /\ chunks' \in [DocIds -> Nat]
            /\ broker' \subseteq DocIds /\ faults' \in Nat /\ crashes' \in Nat
        BY <2>1 DEF TypeInv, TypeOK
      <3> QED BY <2>1, <3>1, <3>2, FinishType DEF Exists
    <2> QED BY <2>2, <2>3
  <1>5. ASSUME NEW p \in Handlers, NEW d \in DocIds, ReprocessDocument(p, d)
        PROVE TypeInv'
    <2>1. documents[d] \in Document /\ documents[d].file \in Files /\ Exists(d) /\ p \in Procs
      BY <1>5 DEF ReprocessDocument, Readable, TypeInv, TypeOK, Referenced, Procs
    <2> QED BY <1>5, <2>1, EnterRunType DEF ReprocessDocument, TypeInv, TypeOK, store
  <1>6. ASSUME NEW d \in DocIds, SendTask(d) PROVE TypeInv'
    BY <1>6 DEF SendTask, TypeInv, TypeOK, Referenced, Exists, store, bounds
  <1>7. ASSUME NEW p \in Workers, NEW d \in DocIds, IngestDocument(p, d)
        PROVE TypeInv'
    <2>1. documents[d] \in Document /\ documents[d].file \in Files /\ Exists(d) /\ p \in Procs
      BY <1>7 DEF IngestDocument, Readable, TypeInv, TypeOK, Referenced, Procs
    <2> QED BY <1>7, <2>1, EnterRunType DEF IngestDocument, TypeInv, TypeOK, store
  <1>8. ASSUME NEW p \in Workers, NEW d \in DocIds, IngestDocumentSkip(p, d)
        PROVE TypeInv'
    BY <1>8 DEF IngestDocumentSkip, TypeInv, TypeOK, Referenced, Exists, store, bounds
  <1>9. ASSUME NEW p \in Procs, RedeliverTask(p) PROVE TypeInv'
    BY <1>9 DEF RedeliverTask, TypeInv, TypeOK, Referenced, Exists, store, bounds
  <1>10. ASSUME NEW p \in Procs, RunIngestionStart(p) PROVE TypeInv'
    <2> DEFINE d == req[p].doc
               new == [session[p] EXCEPT !.status = "processing", !.error = FALSE]
               row == Flush(documents[d], session[p], new)
    <2>1. /\ pc[p] = "start" /\ d \in DocIds /\ Exists(d)
          /\ documents' = [documents EXCEPT ![d] = row]
          /\ session' = [session EXCEPT ![p] = new]
          /\ pc' = [pc EXCEPT ![p] = "extract"]
          /\ UNCHANGED <<chunks, vectors, blobs, broker, req, tx, runs, faults, crashes>>
      BY <1>10 DEF RunIngestionStart, Goto, store, bounds, TypeInv, Referenced
    <2>2. new \in Document /\ new.status = "processing"
      BY DEF TypeInv, TypeOK, Document, DocumentStatus
    <2>3. row \in Document /\ row.file = documents[d].file
      BY <2>1, <2>2, FlushIsDocument DEF TypeInv, TypeOK
    <2>4. row.status # "absent"
      BY <2>1, <2>2 DEF Flush, Exists
    <2> HIDE DEF d, new, row
    <2>5. TypeOK'
      BY <2>1, <2>2, <2>3 DEF TypeInv, TypeOK, Labels
    <2>6. Referenced'
      BY <2>1, <2>3, <2>4, <2>5 DEF TypeInv, TypeOK, Referenced, Exists
    <2> QED BY <2>5, <2>6 DEF TypeInv
  <1>11. ASSUME NEW p \in Procs, RunIngestionExtract(p) PROVE TypeInv'
    <2>1. CASE ChunkCount[req[p].file] = 0
      BY <1>11, <2>1 DEF RunIngestionExtract, Goto, Labels, TypeInv, TypeOK, Referenced,
                         Exists, store, bounds
    <2>2. CASE ChunkCount[req[p].file] # 0
      <3>1. [tx[p] EXCEPT !.target = chunks[req[p].doc]] \in Tx_t
        BY <1>11 DEF RunIngestionExtract, TypeInv, TypeOK, Referenced
      <3>2. /\ pc[p] = "extract" /\ pc' = [pc EXCEPT ![p] = "clear"]
            /\ tx' = [tx EXCEPT ![p] = [tx[p] EXCEPT !.target = chunks[req[p].doc]]]
            /\ UNCHANGED <<documents, store, broker, req, session, bounds>>
        BY <1>11, <2>2 DEF RunIngestionExtract, Goto
      <3> QED BY <3>1, <3>2 DEF Labels, TypeInv, TypeOK, Referenced, Exists, store, bounds
    <2> QED BY <2>1, <2>2
  <1>12. ASSUME NEW p \in Procs, RunIngestionClear(p) PROVE TypeInv'
    <2> DEFINE n == IF chunks[req[p].doc] = tx[p].target THEN tx[p].target ELSE 0
               t == [tx[p] EXCEPT !.cleared = n]
    <2>1. n \in Nat /\ tx[p] \in Tx_t
      BY <1>12 DEF RunIngestionClear, TypeInv, TypeOK, Tx_t
    <2>2. t \in Tx_t
      BY <2>1 DEF Tx_t
    <2>3. /\ pc[p] = "clear" /\ pc' = [pc EXCEPT ![p] = "purge"]
          /\ tx' = [tx EXCEPT ![p] = t]
          /\ UNCHANGED <<documents, store, broker, req, session, bounds>>
      BY <1>12 DEF RunIngestionClear, Goto
    <2> HIDE DEF n, t
    <2> QED BY <2>2, <2>3 DEF Labels, TypeInv, TypeOK, Referenced, Exists, store, bounds
  <1>13. ASSUME NEW p \in Procs, RunIngestionPurge(p) PROVE TypeInv'
    BY <1>13 DEF RunIngestionPurge, Goto, Labels, TypeInv, TypeOK, Referenced, Exists, bounds
  <1>14. ASSUME NEW p \in Procs, RunIngestionAdd(p) PROVE TypeInv'
    <2> DEFINE t == [tx[p] EXCEPT !.inserted = TRUE]
    <2>1. t \in Tx_t
      BY DEF TypeInv, TypeOK
    <2>2. /\ pc[p] = "add" /\ UNCHANGED <<documents, store, broker, req, session, bounds>>
          /\ \/ pc' = [pc EXCEPT ![p] = "index"] /\ tx' = [tx EXCEPT ![p] = t]
             \/ pc' = [pc EXCEPT ![p] = "rollback"] /\ UNCHANGED tx
      BY <1>14 DEF RunIngestionAdd, Goto
    <2> HIDE DEF t
    <2>3. tx' \in [Procs -> Tx_t] /\ pc' \in [Procs -> Labels]
      <3>1. tx \in [Procs -> Tx_t] /\ pc \in [Procs -> Labels]
        BY DEF TypeInv, TypeOK
      <3>2. tx' \in [Procs -> Tx_t]
        BY <2>1, <2>2, <3>1
      <3>3. pc' \in [Procs -> Labels]
        BY <2>2, <3>1 DEF Labels
      <3> QED BY <3>2, <3>3
    <2>4. TypeOK'
      BY <2>2, <2>3 DEF TypeInv, TypeOK, store, bounds
    <2>5. Referenced'
      BY <2>2, <2>3 DEF TypeInv, TypeOK, Referenced, Exists, store, bounds
    <2> QED BY <2>4, <2>5 DEF TypeInv
  <1>15. ASSUME NEW p \in Procs, RunIngestionIndex(p) PROVE TypeInv'
    BY <1>15 DEF RunIngestionIndex, Goto, Labels, TypeInv, TypeOK, Referenced, Exists, bounds
  <1>16. ASSUME NEW p \in Procs, RunIngestionCommit(p) PROVE TypeInv'
    BY <1>16, CommitIndexedType, FinishType
       DEF RunIngestionCommit, TypeInv, TypeOK, bounds
  <1>17. ASSUME NEW p \in Procs, RunIngestionRollback(p) PROVE TypeInv'
    BY <1>17, NullRecords DEF RunIngestionRollback, Goto, Labels, TypeInv, TypeOK, Referenced,
                              Exists, store, bounds
  <1>18. ASSUME NEW p \in Procs, RunIngestionRecord(p) PROVE TypeInv'
    <2>1. /\ documents' = [documents EXCEPT ![req[p].doc] =
                             [@ EXCEPT !.status = "failed", !.error = TRUE, !.chunk_count = 0]]
          /\ req[p].doc \in DocIds /\ Exists(req[p].doc)
          /\ Finish(p)
          /\ UNCHANGED <<chunks, vectors, blobs, broker, runs, faults, crashes>>
      BY <1>18 DEF RunIngestionRecord, store, bounds, TypeInv, Referenced
    <2>2. documents' \in [DocIds -> Document]
      <3>1. documents[req[p].doc] \in Document
        BY <2>1 DEF TypeInv, TypeOK
      <3>2. [documents[req[p].doc] EXCEPT !.status = "failed", !.error = TRUE,
                                          !.chunk_count = 0] \in Document
        BY <3>1 DEF Document, DocumentStatus
      <3> QED BY <2>1, <3>2 DEF TypeInv, TypeOK
    <2>3. \A d \in DocIds : /\ documents'[d].file = documents[d].file
                            /\ Exists(d) => documents'[d].status # "absent"
                            /\ ~Exists(d) => documents'[d] = documents[d]
      BY <2>1 DEF TypeInv, TypeOK, Document, Exists
    <2> QED BY <2>1, <2>2, <2>3, FinishType DEF TypeInv, TypeOK
  <1>19. ASSUME NEW p \in Handlers, NEW d \in DocIds, DeleteDocumentStart(p, d)
         PROVE TypeInv'
    BY <1>19 DEF DeleteDocumentStart, Readable, Goto, NoReq, Labels, TypeInv, TypeOK,
                 Referenced, Exists, store, bounds, Procs
  <1>20. ASSUME NEW p \in Procs, DeleteDocumentPurge(p) PROVE TypeInv'
    BY <1>20 DEF DeleteDocumentPurge, Goto, Labels, TypeInv, TypeOK, Referenced, Exists, bounds
  <1>21. ASSUME NEW p \in Procs, DeleteDocumentMark(p) PROVE TypeInv'
    <2> DEFINE d == req[p].doc
               new == [session[p] EXCEPT !.deleted = TRUE]
               row == Flush(documents[d], session[p], new)
    <2>1. /\ d \in DocIds /\ Exists(d)
          /\ documents' = [documents EXCEPT ![d] = row]
          /\ Finish(p)
          /\ UNCHANGED <<chunks, vectors, blobs, broker, runs, faults, crashes>>
      BY <1>21 DEF DeleteDocumentMark, store, bounds, TypeInv, Referenced
    <2>2. new \in Document /\ new.status = session[p].status
      BY DEF TypeInv, TypeOK, Document
    <2>3. row \in Document /\ row.file = documents[d].file
      BY <2>1, <2>2, FlushIsDocument DEF TypeInv, TypeOK
    <2>4. row.status # "absent"
      BY <2>1, <2>2 DEF Flush, Exists
    <2> HIDE DEF d, new, row
    <2>5. /\ documents' \in [DocIds -> Document]
          /\ \A e \in DocIds : /\ documents'[e].file = documents[e].file
                               /\ Exists(e) => documents'[e].status # "absent"
                               /\ ~Exists(e) => documents'[e] = documents[e]
      BY <2>1, <2>3, <2>4 DEF TypeInv, TypeOK, Exists
    <2> QED BY <2>1, <2>5, FinishType DEF TypeInv, TypeOK
  <1>22. ASSUME NEW p \in Procs, IngestionFault(p) PROVE TypeInv'
    <2>1. /\ pc[p] \in {"clear", "purge", "add", "index", "commit"}
          /\ pc' = [pc EXCEPT ![p] = "rollback"]
          /\ faults' \in Nat
          /\ UNCHANGED <<blobs, broker, req, session, runs, crashes>>
      BY <1>22 DEF IngestionFault, Goto, TypeInv, TypeOK
    <2>2. /\ documents' \in [DocIds -> Document]
          /\ chunks' \in [DocIds -> Nat]
          /\ vectors' \in [DocIds -> SUBSET Nat]
          /\ tx' \in [Procs -> Tx_t]
          /\ \A d \in DocIds : /\ documents'[d].file = documents[d].file
                               /\ Exists(d) => documents'[d].status # "absent"
                               /\ ~Exists(d) => documents'[d] = documents[d]
      <3>1. CASE pc[p] = "commit" /\ CommitIndexed(p) /\ UNCHANGED vectors
                 /\ tx' = [tx EXCEPT ![p] = NoTx]
        BY <3>1, CommitIndexedType, NullRecords DEF TypeInv, TypeOK
      <3>2. CASE UNCHANGED <<documents, chunks, tx>>
        BY <1>22, <3>2 DEF IngestionFault, TypeInv, TypeOK, Exists
      <3> QED BY <1>22, <3>1, <3>2 DEF IngestionFault
    <2>3. TypeOK'
      BY <2>1, <2>2 DEF TypeInv, TypeOK, Labels
    <2>4. Referenced'
      BY <2>1, <2>2 DEF TypeInv, TypeOK, Referenced, Exists
    <2> QED BY <2>3, <2>4 DEF TypeInv
  <1>23. ASSUME NEW p \in Procs, Crash(p) \/ Escape(p) PROVE TypeInv'
    <2>1. /\ Finish(p)
          /\ UNCHANGED <<documents, chunks, vectors, blobs, runs>>
      BY <1>23 DEF Crash, Escape, store
    <2>2. broker' \subseteq DocIds /\ faults' \in Nat /\ crashes' \in Nat
      BY <1>23 DEF Crash, Escape, TypeInv, TypeOK, Referenced
    <2>3. /\ documents' \in [DocIds -> Document] /\ chunks' \in [DocIds -> Nat]
          /\ blobs' \subseteq DocIds
      BY <2>1 DEF TypeInv, TypeOK
    <2> QED BY <2>1, <2>2, <2>3, FinishType DEF Exists
  <1>24. CASE UNCHANGED vars
    BY <1>24 DEF TypeInv, TypeOK, Referenced, Exists, vars
  <1> QED
    BY <1>1, <1>2, <1>3, <1>4, <1>5, <1>6, <1>7, <1>8, <1>9, <1>10, <1>11, <1>12, <1>13,
       <1>14, <1>15, <1>16, <1>17, <1>18, <1>19, <1>20, <1>21, <1>22, <1>23, <1>24
       DEF Next, Request, TakeTask, Proceed

\* The types and the references hold in every state.
THEOREM TypeCorrect == Spec => []TypeInv
  <1>1. Init => TypeInv
    <2> SUFFICES ASSUME Init PROVE TypeInv
      OBVIOUS
    <2>1. TypeOK
      BY NullRecords DEF Init, TypeOK, Labels, Request_t, Tx_t
    <2>2. Referenced
      BY DEF Init, Referenced, Exists, NoDocument, NoReq
    <2> QED BY <2>1, <2>2 DEF TypeInv
  <1> QED BY <1>1, TypeStep, PTL DEF Spec

\* Every variable keeps its type, in every instance of the system.
THEOREM TypesAreKept == Spec => []TypeOK
  <1>1. TypeInv => TypeOK
    BY DEF TypeInv
  <1> QED BY <1>1, TypeCorrect, PTL
-----------------------------------------------------------------------------
(* The rows of the documents table *)

\* What one step may do to the rows: an existing row keeps its content and its
\* deletion mark, and only a run moves its status; a new row is queued and
\* finds no other with its content.
RowMoves ==
    \A d \in DocIds :
        /\ Exists(d) =>
             /\ documents'[d].workspace = documents[d].workspace
             /\ documents'[d].file = documents[d].file
             /\ documents'[d].status # "absent"
             /\ documents[d].deleted => documents'[d].deleted
             /\ \/ documents'[d].status = documents[d].status
                \/ \E p \in Procs : InRun(p) /\ req[p].doc = d
        /\ ~Exists(d) => \/ documents'[d] = documents[d]
                         \/ /\ documents'[d].status = "queued"
                            /\ SameContent(documents'[d].workspace, documents'[d].file) = {}
                            /\ \A e \in DocIds \ {d} : documents'[e] = documents[e]

\* The steps that write the documents table.
LEMMA RowWriters ==
    ASSUME [Next]_vars
    PROVE  \/ UNCHANGED documents
           \/ \E p \in Procs, d \in DocIds : CreateDocumentInsert(p, d)
           \/ \E p \in Procs : RunIngestionStart(p)
           \/ \E p \in Procs : pc[p] = "commit" /\ CommitIndexed(p)
           \/ \E p \in Procs : RunIngestionRecord(p)
           \/ \E p \in Procs : DeleteDocumentMark(p)
  <1>1. CASE \E p \in Handlers : Request(p)
    BY <1>1 DEF Request, CreateDocumentCheck, ReprocessDocument, DeleteDocumentStart
  <1>2. CASE \E p \in Workers : TakeTask(p)
    BY <1>2 DEF TakeTask, IngestDocument, IngestDocumentSkip
  <1>3. CASE \E p \in Procs : Proceed(p)
    BY <1>3 DEF Proceed, CreateDocumentConflict, CreateDocumentWrite,
                RunIngestionExtract, RunIngestionClear, RunIngestionPurge, RunIngestionAdd,
                RunIngestionIndex, RunIngestionCommit, RunIngestionRollback,
                DeleteDocumentPurge
  <1>4. CASE \E p \in Procs : RedeliverTask(p) \/ IngestionFault(p) \/ Crash(p) \/ Escape(p)
    BY <1>4 DEF RedeliverTask, IngestionFault, Crash, Escape
  <1>5. CASE \E d \in DocIds : SendTask(d)
    BY <1>5 DEF SendTask
  <1>6. CASE UNCHANGED vars
    BY <1>6 DEF vars
  <1> QED BY <1>1, <1>2, <1>3, <1>4, <1>5, <1>6 DEF Next

\* Writing one row that stays within these moves is such a step.
LEMMA RowUpdate ==
    ASSUME TypeInv, NEW p \in Procs, NEW d \in DocIds, NEW row,
           req[p].doc = d, Exists(d), documents' = [documents EXCEPT ![d] = row],
           row.workspace = documents[d].workspace, row.file = documents[d].file,
           row.status # "absent", documents[d].deleted => row.deleted,
           InRun(p) \/ row.status = documents[d].status
    PROVE  RowMoves
  <1>1. documents'[d] = row
    BY DEF TypeInv, TypeOK
  <1>2. ASSUME NEW e \in DocIds, e # d PROVE documents'[e] = documents[e]
    BY <1>2 DEF TypeInv, TypeOK
  <1> SUFFICES ASSUME NEW e \in DocIds
               PROVE  /\ Exists(e) =>
                           /\ documents'[e].workspace = documents[e].workspace
                           /\ documents'[e].file = documents[e].file
                           /\ documents'[e].status # "absent"
                           /\ documents[e].deleted => documents'[e].deleted
                           /\ \/ documents'[e].status = documents[e].status
                              \/ \E q \in Procs : InRun(q) /\ req[q].doc = e
                      /\ ~Exists(e) => documents'[e] = documents[e]
    BY DEF RowMoves
  <1>3. CASE e = d
    BY <1>1, <1>3
  <1>4. CASE e # d
    BY <1>2, <1>4 DEF Exists
  <1> QED BY <1>3, <1>4

\* No step moves a row's workspace or file, takes back a deletion, or inserts a
\* row whose content another row of the workspace has.
LEMMA RowStep == TypeInv /\ [Next]_vars => RowMoves
  <1> SUFFICES ASSUME TypeInv, [Next]_vars PROVE RowMoves
    OBVIOUS
  <1>1. CASE UNCHANGED documents
    BY <1>1 DEF RowMoves, Exists
  <1>2. ASSUME NEW p \in Procs, NEW d \in DocIds, CreateDocumentInsert(p, d)
        PROVE  RowMoves
    <2>1. /\ ~Exists(d) /\ documents'[d].status = "queued"
          /\ SameContent(documents'[d].workspace, documents'[d].file) = {}
          /\ \A e \in DocIds \ {d} : documents'[e] = documents[e]
      BY <1>2 DEF CreateDocumentInsert, TypeInv, TypeOK
    <2> QED BY <2>1 DEF RowMoves, Exists
  <1>3. ASSUME NEW p \in Procs, RunIngestionStart(p) PROVE RowMoves
    <2> DEFINE d == req[p].doc
               new == [session[p] EXCEPT !.status = "processing", !.error = FALSE]
               row == Flush(documents[d], session[p], new)
    <2>1. d \in DocIds /\ Exists(d) /\ InRun(p) /\ session[p] \in Document
      BY <1>3 DEF RunIngestionStart, InRun, TypeInv, TypeOK, Referenced
    <2>2. documents' = [documents EXCEPT ![d] = row]
      BY <1>3 DEF RunIngestionStart
    <2>3. new.deleted = session[p].deleted /\ new.status = "processing"
      BY <2>1 DEF Document
    <2>4. /\ row.workspace = documents[d].workspace /\ row.file = documents[d].file
          /\ row.status # "absent" /\ row.deleted = documents[d].deleted
      BY <2>1, <2>3 DEF Flush, Exists
    <2> QED BY <2>1, <2>2, <2>4, RowUpdate
  <1>4. ASSUME NEW p \in Procs, pc[p] = "commit", CommitIndexed(p) PROVE RowMoves
    <2> DEFINE d == req[p].doc
               new == [session[p] EXCEPT !.status = "indexed", !.error = FALSE,
                                         !.chunk_count = ChunkCount[req[p].file]]
               row == Flush(documents[d], session[p], new)
    <2>1. d \in DocIds /\ Exists(d) /\ InRun(p) /\ session[p] \in Document
      BY <1>4 DEF InRun, TypeInv, TypeOK, Referenced
    <2>2. documents' = [documents EXCEPT ![d] = row]
      BY <1>4 DEF CommitIndexed
    <2>3. new.deleted = session[p].deleted /\ new.status = "indexed"
      BY <2>1 DEF Document
    <2>4. /\ row.workspace = documents[d].workspace /\ row.file = documents[d].file
          /\ row.status # "absent" /\ row.deleted = documents[d].deleted
      BY <2>1, <2>3 DEF Flush, Exists
    <2> QED BY <2>1, <2>2, <2>4, RowUpdate
  <1>5. ASSUME NEW p \in Procs, RunIngestionRecord(p) PROVE RowMoves
    <2> DEFINE d == req[p].doc
               row == [documents[d] EXCEPT !.status = "failed", !.error = TRUE,
                                           !.chunk_count = 0]
    <2>1. d \in DocIds /\ Exists(d) /\ InRun(p) /\ documents[d] \in Document
      BY <1>5 DEF RunIngestionRecord, InRun, TypeInv, TypeOK, Referenced
    <2>2. documents' = [documents EXCEPT ![d] = row]
      BY <1>5 DEF RunIngestionRecord
    <2>3. /\ row.workspace = documents[d].workspace /\ row.file = documents[d].file
          /\ row.status # "absent" /\ row.deleted = documents[d].deleted
      BY <2>1 DEF Document
    <2> QED BY <2>1, <2>2, <2>3, RowUpdate
  <1>6. ASSUME NEW p \in Procs, DeleteDocumentMark(p) PROVE RowMoves
    <2> DEFINE d == req[p].doc
               new == [session[p] EXCEPT !.deleted = TRUE]
               row == Flush(documents[d], session[p], new)
    <2>1. d \in DocIds /\ Exists(d) /\ session[p] \in Document
      BY <1>6 DEF DeleteDocumentMark, TypeInv, TypeOK, Referenced
    <2>2. documents' = [documents EXCEPT ![d] = row]
      BY <1>6 DEF DeleteDocumentMark
    <2>3. new.deleted = TRUE /\ new.status = session[p].status
      BY <2>1 DEF Document
    <2>4. /\ row.workspace = documents[d].workspace /\ row.file = documents[d].file
          /\ row.status = documents[d].status
          /\ documents[d].deleted => row.deleted
      BY <2>1, <2>3 DEF Flush
    <2> QED BY <2>1, <2>2, <2>4, RowUpdate DEF Exists
  <1> QED BY <1>1, <1>2, <1>3, <1>4, <1>5, <1>6, RowWriters

\* A deleted document stays deleted, whatever copies of its row the runs that
\* race with the delete hold.
THEOREM DeletionIsFinal == Spec => NoResurrection
  <1>1. TypeInv /\ [Next]_vars
          => [\A d \in DocIds : documents[d].deleted => documents'[d].deleted]_vars
    <2> SUFFICES ASSUME TypeInv, [Next]_vars, NEW d \in DocIds, documents[d].deleted
                 PROVE  documents'[d].deleted
      OBVIOUS
    <2>1. Exists(d)
      BY DEF TypeInv, Referenced
    <2> QED BY <2>1, RowStep DEF RowMoves
  <1> QED BY <1>1, TypeCorrect, PTL DEF Spec, NoResurrection

\* No two rows of a workspace hold the same content, however many uploads race.
THEOREM ContentIsUnique == Spec => []UniqueContent
  <1>1. Init => UniqueContent
    BY DEF Init, UniqueContent, Exists, NoDocument
  <1>2. TypeInv /\ UniqueContent /\ [Next]_vars => UniqueContent'
    <2> SUFFICES ASSUME TypeInv, UniqueContent, [Next]_vars,
                        NEW d \in DocIds, NEW e \in DocIds, d # e, Exists(d)', Exists(e)',
                        documents'[d].workspace = documents'[e].workspace
                 PROVE  Checksum[documents'[d].file] # Checksum[documents'[e].file]
      BY DEF UniqueContent
    <2>1. RowMoves
      BY RowStep
    <2>2. CASE Exists(d) /\ Exists(e)
      BY <2>1, <2>2 DEF RowMoves, UniqueContent
    <2>3. CASE ~Exists(d)
      <3>1. /\ SameContent(documents'[d].workspace, documents'[d].file) = {}
            /\ documents'[e] = documents[e]
        BY <2>1, <2>3 DEF RowMoves, Exists
      <3> QED BY <3>1 DEF SameContent, Exists
    <2>4. CASE ~Exists(e)
      <3>1. /\ SameContent(documents'[e].workspace, documents'[e].file) = {}
            /\ documents'[d] = documents[d]
        BY <2>1, <2>4 DEF RowMoves, Exists
      <3> QED BY <3>1 DEF SameContent, Exists
    <2> QED BY <2>2, <2>3, <2>4
  <1> QED BY <1>1, <1>2, TypeCorrect, PTL DEF Spec
-----------------------------------------------------------------------------
(* The stored bytes *)

\* A run has the bytes of its document on disk.
Bytes ==
    /\ ReplayableBytes
    /\ \A p \in Procs : InRun(p) => req[p].doc \in blobs

\* Bytes are never removed, and who enters run_ingestion has them.
LEMMA RunsHaveBytes ==
    ASSUME TypeInv, [Next]_vars
    PROVE  /\ blobs \subseteq blobs'
           /\ \A p \in Procs : InRun(p)' => \/ InRun(p) /\ req'[p] = req[p]
                                            \/ req'[p].doc \in blobs'
  <1> USE DEF InRun, Goto, TypeInv, TypeOK, store, bounds
  <1>1. ASSUME NEW p \in Handlers, Request(p)
        PROVE  UNCHANGED blobs /\ \A q \in Procs :
                 InRun(q)' => \/ InRun(q) /\ req'[q] = req[q]
                              \/ req'[q].doc \in blobs'
    <2>1. ASSUME NEW w \in Workspaces, NEW f \in Files, CreateDocumentCheck(p, w, f)
          PROVE  UNCHANGED blobs /\ \A q \in Procs :
                   InRun(q)' => \/ InRun(q) /\ req'[q] = req[q]
                                \/ req'[q].doc \in blobs'
      BY <2>1 DEF CreateDocumentCheck, Procs
    <2>2. ASSUME NEW d \in DocIds, ReprocessDocument(p, d)
          PROVE  UNCHANGED blobs /\ \A q \in Procs :
                   InRun(q)' => \/ InRun(q) /\ req'[q] = req[q]
                                \/ req'[q].doc \in blobs'
      BY <2>2 DEF ReprocessDocument, EnterRun, Procs
    <2>3. ASSUME NEW d \in DocIds, DeleteDocumentStart(p, d)
          PROVE  UNCHANGED blobs /\ \A q \in Procs :
                   InRun(q)' => \/ InRun(q) /\ req'[q] = req[q]
                                \/ req'[q].doc \in blobs'
      BY <2>3 DEF DeleteDocumentStart, Procs
    <2> QED BY <1>1, <2>1, <2>2, <2>3 DEF Request
  <1>2. ASSUME NEW p \in Workers, TakeTask(p)
        PROVE  UNCHANGED blobs /\ \A q \in Procs :
                 InRun(q)' => \/ InRun(q) /\ req'[q] = req[q]
                              \/ req'[q].doc \in blobs'
    BY <1>2 DEF TakeTask, IngestDocument, IngestDocumentSkip, EnterRun, Procs
  <1>3. ASSUME NEW p \in Procs, CreateDocumentWrite(p)
        PROVE  blobs \subseteq blobs' /\ \A q \in Procs :
                 InRun(q)' => \/ InRun(q) /\ req'[q] = req[q]
                              \/ req'[q].doc \in blobs'
    BY <1>3 DEF CreateDocumentWrite, EnterRun, Finish
  <1>4. ASSUME NEW p \in Procs, NEW d \in DocIds, CreateDocumentInsert(p, d)
        PROVE  UNCHANGED blobs /\ \A q \in Procs :
                 InRun(q)' => \/ InRun(q) /\ req'[q] = req[q]
                              \/ req'[q].doc \in blobs'
    BY <1>4 DEF CreateDocumentInsert
  <1>5. ASSUME NEW p \in Procs,
               \/ CreateDocumentConflict(p) \/ RunIngestionCommit(p)
               \/ RunIngestionRecord(p) \/ DeleteDocumentMark(p) \/ Crash(p) \/ Escape(p)
        PROVE  UNCHANGED blobs /\ \A q \in Procs :
                 InRun(q)' => \/ InRun(q) /\ req'[q] = req[q]
                              \/ req'[q].doc \in blobs'
    <2>1. Finish(p) /\ UNCHANGED blobs
      BY <1>5 DEF CreateDocumentConflict, RunIngestionCommit, RunIngestionRecord,
                  DeleteDocumentMark, Crash, Escape
    <2> QED BY <2>1 DEF Finish
  <1>6. ASSUME NEW p \in Procs,
               \/ RunIngestionStart(p) \/ RunIngestionExtract(p) \/ RunIngestionClear(p)
               \/ RunIngestionPurge(p) \/ RunIngestionAdd(p) \/ RunIngestionIndex(p)
               \/ RunIngestionRollback(p) \/ IngestionFault(p) \/ DeleteDocumentPurge(p)
               \/ RedeliverTask(p)
        PROVE  UNCHANGED blobs /\ \A q \in Procs :
                 InRun(q)' => \/ InRun(q) /\ req'[q] = req[q]
                              \/ req'[q].doc \in blobs'
    <2>1. UNCHANGED <<blobs, req>> /\ (InRun(p) \/ ~InRun(p)')
          /\ \A q \in Procs \ {p} : pc'[q] = pc[q]
      BY <1>6 DEF RunIngestionStart, RunIngestionExtract, RunIngestionClear,
                  RunIngestionPurge, RunIngestionAdd, RunIngestionIndex, RunIngestionRollback,
                  IngestionFault, DeleteDocumentPurge, RedeliverTask
    <2> QED BY <2>1
  <1>7. CASE \E d \in DocIds : SendTask(d)
    BY <1>7 DEF SendTask
  <1>8. CASE UNCHANGED vars
    BY <1>8 DEF vars
  <1> QED
    BY <1>1, <1>2, <1>3, <1>4, <1>5, <1>6, <1>7, <1>8 DEF Next, Proceed

\* No step starts a run of ingestion before write_bytes, and none removes bytes.
LEMMA BytesStep == TypeInv /\ Bytes /\ [Next]_vars => Bytes'
  <1> SUFFICES ASSUME TypeInv, Bytes, [Next]_vars PROVE Bytes'
    OBVIOUS
  <1>1. ASSUME NEW p \in Procs, InRun(p)' PROVE req'[p].doc \in blobs'
    BY <1>1, RunsHaveBytes DEF Bytes
  <1>2. ASSUME NEW d \in DocIds, documents'[d].status \notin {"absent", "queued"}
        PROVE  d \in blobs'
    <2>1. Exists(d)
      BY <1>2, RowStep DEF RowMoves, Exists
    <2>2. \/ documents'[d].status = documents[d].status
          \/ \E p \in Procs : InRun(p) /\ req[p].doc = d
      BY <2>1, RowStep DEF RowMoves
    <2>3. d \in blobs
      BY <1>2, <2>2 DEF Bytes, ReplayableBytes
    <2> QED BY <2>3, RunsHaveBytes
  <1> QED BY <1>1, <1>2 DEF Bytes, ReplayableBytes

\* A document that ingestion has touched, or is about to, has its bytes on disk.
THEOREM BytesInvariant == Spec => []Bytes
  <1>1. Init => Bytes
    BY DEF Init, Bytes, ReplayableBytes, InRun, NoDocument
  <1> QED BY <1>1, BytesStep, TypeCorrect, PTL DEF Spec

\* Whatever fails or crashes, a document that ingestion has touched can be
\* replayed from its stored bytes.
THEOREM FailedCanBeReplayed == Spec => []ReplayableBytes
  <1>1. Bytes => ReplayableBytes
    BY DEF Bytes
  <1> QED BY <1>1, BytesInvariant, PTL
-----------------------------------------------------------------------------
(* The transactions on the chunks table *)

\* Rows a run has deleted are the committed ones, and no other run has deleted
\* them too; new rows are there only from the INSERT to the end of the
\* transaction, replace all committed rows, and are no second run's.
Locks ==
    /\ \A p \in Procs :
        /\ pc[p] \in {"index", "commit"} => tx[p].inserted
        /\ tx[p].inserted => /\ pc[p] \in {"index", "commit", "rollback"}
                             /\ chunks[req[p].doc] \in {0, tx[p].cleared}
        /\ tx[p].cleared # 0 => /\ pc[p] \in {"purge", "add", "index", "commit", "rollback"}
                                /\ tx[p].cleared = chunks[req[p].doc]
    /\ \A p, q \in Procs : p # q /\ req[p].doc = req[q].doc =>
        /\ ~(tx[p].inserted /\ tx[q].inserted)
        /\ tx[p].cleared = 0 \/ tx[q].cleared = 0

\* A run keeps what it works on as long as it does not end.
LEMMA LocksKept ==
    ASSUME TypeInv, Locks, NEW p \in Procs,
           UNCHANGED <<chunks, req>>,
           \A q \in Procs \ {p} : tx'[q] = tx[q] /\ pc'[q] = pc[q],
           tx'[p].cleared \in {0, tx[p].cleared},
           tx'[p].inserted => tx[p].inserted,
           pc'[p] \in {"index", "commit"} => tx'[p].inserted,
           tx'[p].inserted => pc'[p] \in {"index", "commit", "rollback"} /\ tx'[p].cleared = tx[p].cleared,
           tx'[p].cleared # 0 => pc'[p] \in {"purge", "add", "index", "commit", "rollback"}
    PROVE  Locks'
  BY DEF Locks

\* A process that holds no rows of its own takes up or ends its work.
LEMMA LocksFree ==
    ASSUME TypeInv, Locks, NEW p \in Procs, UNCHANGED chunks,
           \A q \in Procs \ {p} : tx'[q] = tx[q] /\ pc'[q] = pc[q] /\ req'[q] = req[q],
           tx'[p].cleared = 0, ~tx'[p].inserted, pc'[p] \notin {"index", "commit"}
    PROVE  Locks'
  BY DEF Locks

\* A process without a transaction holds no locks and no new rows.
LEMMA NoTxHoldsNothing == NoTx.cleared = 0 /\ ~NoTx.inserted /\ NoTx.run = 0
  BY DEF NoTx

\* No step lets a run insert next to another one, or replaces chunk rows that an
\* open transaction has deleted or written.
LEMMA LocksStep == TypeInv /\ Locks /\ [Next]_vars => Locks'
  <1> SUFFICES ASSUME TypeInv, Locks, [Next]_vars PROVE Locks'
    OBVIOUS
  <1>1. ASSUME NEW p \in Handlers, NEW w \in Workspaces, NEW f \in Files,
               CreateDocumentCheck(p, w, f)
        PROVE  Locks'
    <2>1. p \in Procs /\ tx[p].cleared = 0 /\ ~tx[p].inserted
      BY <1>1 DEF CreateDocumentCheck, Locks, Procs
    <2> QED BY <1>1, <2>1, LocksFree DEF CreateDocumentCheck, Goto, store, TypeInv, TypeOK
  <1>2. ASSUME NEW p \in Procs, NEW d \in DocIds, CreateDocumentInsert(p, d)
        PROVE  Locks'
    <2>1. tx[p].cleared = 0 /\ ~tx[p].inserted
      BY <1>2 DEF CreateDocumentInsert, Locks
    <2> QED BY <1>2, <2>1, LocksFree DEF CreateDocumentInsert, Goto, store, TypeInv, TypeOK
  <1>3. ASSUME NEW p \in Procs, Finish(p), UNCHANGED chunks PROVE Locks'
    BY <1>3, NoTxHoldsNothing, LocksFree DEF Finish, Goto, TypeInv, TypeOK
  <1>4. ASSUME NEW p \in Procs, NEW d \in DocIds, NEW row, NEW task,
               EnterRun(p, d, row, task), UNCHANGED chunks
        PROVE  Locks'
    <2>1. /\ tx' = [tx EXCEPT ![p] = [NoTx EXCEPT !.run = runs[d] + 1]]
          /\ pc' = [pc EXCEPT ![p] = "start"]
          /\ \A q \in Procs \ {p} : req'[q] = req[q]
      BY <1>4 DEF EnterRun, Goto, TypeInv, TypeOK
    <2>2. tx'[p].cleared = 0 /\ ~tx'[p].inserted
      BY <2>1 DEF NoTx, TypeInv, TypeOK
    <2> QED BY <1>4, <2>1, <2>2, LocksFree DEF TypeInv, TypeOK
  <1>5. ASSUME NEW p \in Procs, NEW label \in Labels, Goto(p, label), UNCHANGED <<chunks, req, tx>>,
               label # "index", label = "commit" => pc[p] = "index",
               tx[p].inserted => label \in {"commit", "rollback"},
               tx[p].cleared # 0 => label \in {"add", "commit", "rollback"}
        PROVE  Locks'
    <2>1. /\ pc'[p] = label /\ \A q \in Procs \ {p} : pc'[q] = pc[q]
      BY <1>5 DEF Goto, TypeInv, TypeOK
    <2>2. label = "commit" => tx[p].inserted
      BY <1>5 DEF Locks
    <2> QED BY <1>5, <2>1, <2>2, LocksKept
  <1>6. ASSUME NEW p \in Procs, RunIngestionStart(p) PROVE Locks'
    <2>1. tx[p].cleared = 0 /\ ~tx[p].inserted
      BY <1>6 DEF RunIngestionStart, Locks
    <2> QED BY <1>5, <1>6, <2>1 DEF RunIngestionStart, store, Labels
  <1>7. ASSUME NEW p \in Procs, RunIngestionExtract(p) PROVE Locks'
    <2>1. tx[p].cleared = 0 /\ ~tx[p].inserted
      BY <1>7 DEF RunIngestionExtract, Locks
    <2>2. CASE Goto(p, "rollback") /\ UNCHANGED tx
      BY <1>5, <1>7, <2>1, <2>2 DEF RunIngestionExtract, store, Labels
    <2>3. CASE Goto(p, "clear") /\ tx' = [tx EXCEPT ![p] = [@ EXCEPT !.target = chunks[req[p].doc]]]
      <3>1. /\ pc'[p] = "clear" /\ tx'[p].cleared = 0 /\ ~tx'[p].inserted
            /\ \A q \in Procs \ {p} : tx'[q] = tx[q] /\ pc'[q] = pc[q]
        BY <2>1, <2>3 DEF Goto, TypeInv, TypeOK
      <3> QED BY <1>7, <3>1, LocksFree DEF RunIngestionExtract, store
    <2> QED BY <1>7, <2>2, <2>3 DEF RunIngestionExtract
  <1>8. ASSUME NEW p \in Procs, RunIngestionClear(p) PROVE Locks'
    <2> DEFINE d == req[p].doc
               g == tx[p].target
               c == IF chunks[d] = g THEN g ELSE 0
    <2>1. /\ pc[p] = "clear" /\ ~tx[p].inserted /\ tx[p].cleared = 0
          /\ ~LockedByOther(p, d, g)
          /\ UNCHANGED <<chunks, req>>
      BY <1>8 DEF RunIngestionClear, Locks, store
    <2>2. /\ pc'[p] = "purge" /\ tx'[p].cleared = c /\ ~tx'[p].inserted
          /\ \A q \in Procs \ {p} : tx'[q] = tx[q] /\ pc'[q] = pc[q]
      BY <1>8, <2>1 DEF RunIngestionClear, Goto, TypeInv, TypeOK
    <2>3. c # 0 => c = chunks[d] /\ \A q \in Procs \ {p} :
                      req[q].doc = d => tx[q].cleared = 0
      BY <2>1 DEF LockedByOther, Locks
    <2> HIDE DEF c
    <2> QED BY <2>1, <2>2, <2>3 DEF Locks
  <1>9. ASSUME NEW p \in Procs, RunIngestionPurge(p) PROVE Locks'
    <2>1. ~tx[p].inserted
      BY <1>9 DEF RunIngestionPurge, Locks
    <2> QED BY <1>5, <1>9, <2>1 DEF RunIngestionPurge, Labels
  <1>10. ASSUME NEW p \in Procs, RunIngestionAdd(p) PROVE Locks'
    <2> DEFINE d == req[p].doc
    <2>1. /\ pc[p] = "add" /\ ~tx[p].inserted
          /\ \A q \in Procs \ {p} : req[q].doc = d => ~tx[q].inserted
          /\ UNCHANGED <<chunks, req>>
      BY <1>10 DEF RunIngestionAdd, InsertedByOther, Locks, store
    <2>2. CASE Goto(p, "rollback") /\ UNCHANGED tx
      BY <1>5, <2>1, <2>2 DEF Labels
    <2>3. CASE /\ chunks[d] \in {0, tx[p].cleared}
               /\ Goto(p, "index") /\ tx' = [tx EXCEPT ![p] = [@ EXCEPT !.inserted = TRUE]]
      <3>1. /\ pc'[p] = "index" /\ tx'[p].inserted /\ tx'[p].cleared = tx[p].cleared
            /\ \A q \in Procs \ {p} : tx'[q] = tx[q] /\ pc'[q] = pc[q]
        BY <2>3 DEF Goto, TypeInv, TypeOK
      <3> QED BY <2>1, <2>3, <3>1 DEF Locks
    <2> QED BY <1>10, <2>2, <2>3 DEF RunIngestionAdd
  <1>11. ASSUME NEW p \in Procs, RunIngestionIndex(p) PROVE Locks'
    <2>1. pc[p] = "index" /\ Goto(p, "commit") /\ UNCHANGED <<chunks, req, tx>>
      BY <1>11 DEF RunIngestionIndex
    <2> QED BY <1>5, <2>1 DEF Labels
  <1>12. ASSUME NEW p \in Procs, pc[p] = "commit", CommitIndexed(p),
                tx' = [tx EXCEPT ![p] = NoTx], pc'[p] \notin {"index", "commit"},
                \A q \in Procs \ {p} : pc'[q] = pc[q] /\ req'[q] = req[q]
         PROVE  Locks'
    <2> DEFINE d == req[p].doc
    <2>1. /\ tx[p].inserted /\ chunks[d] \in {0, tx[p].cleared}
          /\ \A q \in Procs \ {p} : req[q].doc = d => tx[q].cleared = 0 /\ ~tx[q].inserted
      BY <1>12 DEF Locks
    <2>2. /\ tx'[p].cleared = 0 /\ ~tx'[p].inserted
          /\ \A q \in Procs \ {p} : tx'[q] = tx[q]
      BY <1>12, NoTxHoldsNothing DEF TypeInv, TypeOK
    <2>3. \A e \in DocIds \ {d} : chunks'[e] = chunks[e]
      BY <1>12 DEF CommitIndexed, TypeInv, TypeOK
    <2>4. \A q \in Procs \ {p} : tx[q].cleared # 0 \/ tx[q].inserted => req[q].doc \in DocIds \ {d}
      BY <2>1 DEF Locks, TypeInv, Referenced
    <2> QED BY <1>12, <2>1, <2>2, <2>3, <2>4 DEF Locks
  <1>13. ASSUME NEW p \in Procs, RunIngestionRollback(p) PROVE Locks'
    BY <1>13, NoTxHoldsNothing, LocksFree DEF RunIngestionRollback, Goto, store, TypeInv, TypeOK
  <1>14. ASSUME NEW p \in Handlers, NEW d \in DocIds, DeleteDocumentStart(p, d) PROVE Locks'
    <2>1. p \in Procs /\ tx[p].cleared = 0 /\ ~tx[p].inserted
      BY <1>14 DEF DeleteDocumentStart, Locks, Procs
    <2> QED BY <1>14, <2>1, LocksFree DEF DeleteDocumentStart, Goto, store, TypeInv, TypeOK
  <1>15. ASSUME NEW p \in Procs, DeleteDocumentPurge(p) PROVE Locks'
    <2>1. tx[p].cleared = 0 /\ ~tx[p].inserted
      BY <1>15 DEF DeleteDocumentPurge, Locks
    <2> QED BY <1>5, <1>15, <2>1 DEF DeleteDocumentPurge, Labels
  <1>16. ASSUME NEW p \in Procs, IngestionFault(p) PROVE Locks'
    <2>1. CASE UNCHANGED <<chunks, tx>>
      BY <1>5, <1>16, <2>1 DEF IngestionFault, Labels
    <2>2. CASE pc[p] = "commit" /\ CommitIndexed(p) /\ tx' = [tx EXCEPT ![p] = NoTx]
      BY <1>12, <1>16, <2>2 DEF IngestionFault, Goto, TypeInv, TypeOK
    <2> QED BY <1>16, <2>1, <2>2 DEF IngestionFault
  <1>17. CASE UNCHANGED <<chunks, tx, req, pc>>
    BY <1>17 DEF Locks
  <1>18. CASE \E p \in Handlers : Request(p)
    BY <1>1, <1>4, <1>14, <1>18 DEF Request, ReprocessDocument, store, Procs
  <1>19. CASE \E p \in Workers : TakeTask(p)
    BY <1>4, <1>17, <1>19 DEF TakeTask, IngestDocument, IngestDocumentSkip, store, Procs
  <1>20. ASSUME NEW p \in Procs, CreateDocumentWrite(p) PROVE Locks'
    <2>1. req[p].doc \in DocIds
      BY <1>20 DEF CreateDocumentWrite, TypeInv, Referenced
    <2> QED BY <1>3, <1>4, <1>20, <2>1 DEF CreateDocumentWrite
  <1>21. ASSUME NEW p \in Procs, RunIngestionCommit(p) PROVE Locks'
    BY <1>12, <1>21 DEF RunIngestionCommit, Finish, Goto, TypeInv, TypeOK
  <1>22. ASSUME NEW p \in Procs, CreateDocumentConflict(p) \/ RunIngestionRecord(p)
                                 \/ DeleteDocumentMark(p) \/ Crash(p) \/ Escape(p)
         PROVE  Locks'
    BY <1>3, <1>22 DEF CreateDocumentConflict, RunIngestionRecord, DeleteDocumentMark, Crash,
                       Escape, store
  <1>23. CASE \E p \in Procs : RedeliverTask(p)
    BY <1>17, <1>23 DEF RedeliverTask, store
  <1>24. CASE \E d \in DocIds : SendTask(d)
    BY <1>17, <1>24 DEF SendTask, store
  <1>25. CASE UNCHANGED vars
    BY <1>17, <1>25 DEF vars
  <1> QED
    BY <1>2, <1>6, <1>7, <1>8, <1>9, <1>10, <1>11, <1>13, <1>15, <1>16, <1>18, <1>19, <1>20,
       <1>21, <1>22, <1>23, <1>24, <1>25
       DEF Next, Proceed

\* The locks on the chunks table order the runs of a document, in every state.
THEOREM LocksInvariant == Spec => []Locks
  <1>1. Init => Locks
    BY NoTxHoldsNothing DEF Init, Locks
  <1> QED BY <1>1, LocksStep, TypeCorrect, PTL DEF Spec

\* Runs of one document are ordered by the chunks table: never two with new
\* rows in flight, and the rows replaced are the committed ones.
THEOREM RunsAreOrdered == Spec => []SingleWriter
  <1>1. Locks => SingleWriter
    BY DEF Locks, SingleWriter
  <1> QED BY <1>1, LocksInvariant, PTL
-----------------------------------------------------------------------------
(* The committed chunk rows *)

\* The number of a run that may still commit is one its document has reached.
Numbered ==
    /\ \A p \in Procs : pc[p] \in {"start", "extract", "clear", "purge", "add", "index", "commit"}
                            => tx[p].run \in 1 .. runs[req[p].doc]
    /\ IndexedHasChunks

\* How a step moves the numbers of the runs at work.
LEMMA RunsMove ==
    ASSUME TypeInv, [Next]_vars
    PROVE  /\ \A d \in DocIds : runs'[d] >= runs[d]
           /\ \A p \in Procs :
                pc'[p] \in {"start", "extract", "clear", "purge", "add", "index", "commit"} =>
                   \/ /\ pc[p] \in {"start", "extract", "clear", "purge", "add", "index", "commit"}
                      /\ req'[p].doc = req[p].doc /\ tx'[p].run = tx[p].run
                      /\ req[p].doc \in DocIds
                   \/ /\ req'[p].doc \in DocIds
                      /\ tx'[p].run = runs[req'[p].doc] + 1
                      /\ runs'[req'[p].doc] = runs[req'[p].doc] + 1
  <1> DEFINE Active == {"start", "extract", "clear", "purge", "add", "index", "commit"}
             Moved == /\ \A d \in DocIds : runs'[d] >= runs[d]
                      /\ \A p \in Procs : pc'[p] \in Active =>
                           \/ /\ pc[p] \in Active
                              /\ req'[p].doc = req[p].doc /\ tx'[p].run = tx[p].run
                              /\ req[p].doc \in DocIds
                           \/ /\ req'[p].doc \in DocIds
                              /\ tx'[p].run = runs[req'[p].doc] + 1
                              /\ runs'[req'[p].doc] = runs[req'[p].doc] + 1
  <1> SUFFICES Moved
    OBVIOUS
  <1>0. \A p \in Procs : pc[p] \in Active => req[p].doc \in DocIds
    BY DEF TypeInv, Referenced
  <1>1. ASSUME NEW p \in Procs, UNCHANGED runs,
               \A q \in Procs \ {p} : pc'[q] = pc[q] /\ req'[q] = req[q] /\ tx'[q] = tx[q],
               pc'[p] \in Active => /\ pc[p] \in Active
                                    /\ req'[p].doc = req[p].doc /\ tx'[p].run = tx[p].run
        PROVE  Moved
    <2>1. \A d \in DocIds : runs'[d] >= runs[d]
      BY <1>1 DEF TypeInv, TypeOK
    <2>2. ASSUME NEW q \in Procs, pc'[q] \in Active
          PROVE  /\ pc[q] \in Active /\ req[q].doc \in DocIds
                 /\ req'[q].doc = req[q].doc /\ tx'[q].run = tx[q].run
      BY <1>0, <1>1, <2>2
    <2> QED BY <2>1, <2>2
  <1>2. ASSUME NEW p \in Procs, NEW d \in DocIds, NEW row, NEW task, EnterRun(p, d, row, task)
        PROVE  Moved
    <2>1. runs' = [runs EXCEPT ![d] = @ + 1]
          /\ \A q \in Procs \ {p} : pc'[q] = pc[q] /\ req'[q] = req[q] /\ tx'[q] = tx[q]
      BY <1>2 DEF EnterRun, Goto, TypeInv, TypeOK
    <2>2. req'[p].doc = d /\ tx'[p].run = runs[d] + 1
      BY <1>2 DEF EnterRun, NoTx, TypeInv, TypeOK
    <2>3. \A e \in DocIds : runs'[e] >= runs[e]
      BY <2>1 DEF TypeInv, TypeOK
    <2>4. runs'[d] = runs[d] + 1
      BY <2>1 DEF TypeInv, TypeOK
    <2> QED BY <1>0, <2>1, <2>2, <2>3, <2>4
  <1>3. ASSUME NEW p \in Procs, Finish(p), UNCHANGED runs PROVE Moved
    BY <1>1, <1>3 DEF Finish, Goto, TypeInv, TypeOK
  <1>4. ASSUME UNCHANGED <<pc, req, tx, runs>> PROVE Moved
    BY <1>0, <1>4 DEF TypeInv, TypeOK
  <1>5. CASE \E p \in Handlers : Request(p)
    <2>1. ASSUME NEW p \in Handlers, NEW w \in Workspaces, NEW f \in Files,
                 CreateDocumentCheck(p, w, f)
          PROVE  Moved
      BY <1>1, <2>1 DEF CreateDocumentCheck, Goto, bounds, Procs, TypeInv, TypeOK
    <2>2. ASSUME NEW p \in Handlers, NEW d \in DocIds, DeleteDocumentStart(p, d)
          PROVE  Moved
      BY <1>1, <2>2 DEF DeleteDocumentStart, Goto, bounds, Procs, TypeInv, TypeOK
    <2> HIDE DEF Moved
    <2> QED BY <1>2, <1>5, <2>1, <2>2 DEF Request, ReprocessDocument, Procs
  <1>6. CASE \E p \in Workers : TakeTask(p)
    <2> HIDE DEF Moved
    <2> QED BY <1>2, <1>4, <1>6 DEF TakeTask, IngestDocument, IngestDocumentSkip, bounds, Procs
  <1>7. ASSUME NEW p \in Procs, NEW d \in DocIds, CreateDocumentInsert(p, d) PROVE Moved
    BY <1>1, <1>7 DEF CreateDocumentInsert, Goto, bounds, TypeInv, TypeOK
  <1>8. ASSUME NEW p \in Procs, CreateDocumentWrite(p) PROVE Moved
    <2>1. req[p].doc \in DocIds
      BY <1>8 DEF CreateDocumentWrite, TypeInv, Referenced
    <2> HIDE DEF Moved
    <2> QED BY <1>2, <1>3, <1>8, <2>1 DEF CreateDocumentWrite
  <1>9. ASSUME NEW p \in Procs,
               \/ CreateDocumentConflict(p) \/ RunIngestionCommit(p) \/ RunIngestionRecord(p)
               \/ DeleteDocumentMark(p) \/ Crash(p) \/ Escape(p)
        PROVE  Moved
    <2> HIDE DEF Moved
    <2> QED BY <1>3, <1>9 DEF CreateDocumentConflict, RunIngestionCommit, RunIngestionRecord,
                              DeleteDocumentMark, Crash, Escape, bounds
  <1>10. ASSUME NEW p \in Procs,
                \/ RunIngestionStart(p) \/ RunIngestionExtract(p) \/ RunIngestionClear(p)
                \/ RunIngestionPurge(p) \/ RunIngestionAdd(p) \/ RunIngestionIndex(p)
                \/ RunIngestionRollback(p) \/ IngestionFault(p) \/ DeleteDocumentPurge(p)
         PROVE  Moved
    <2>1. /\ UNCHANGED <<req, runs>>
          /\ \A q \in Procs \ {p} : pc'[q] = pc[q] /\ tx'[q] = tx[q]
      BY <1>10 DEF RunIngestionStart, RunIngestionExtract, RunIngestionClear,
                   RunIngestionPurge, RunIngestionAdd, RunIngestionIndex, RunIngestionRollback,
                   IngestionFault, DeleteDocumentPurge, Goto, bounds, TypeInv, TypeOK
    <2>2. pc'[p] \in Active => pc[p] \in Active /\ tx'[p].run = tx[p].run
      BY <1>10 DEF RunIngestionStart, RunIngestionExtract, RunIngestionClear,
                   RunIngestionPurge, RunIngestionAdd, RunIngestionIndex, RunIngestionRollback,
                   IngestionFault, DeleteDocumentPurge, Goto, TypeInv, TypeOK
    <2> QED BY <1>1, <2>1, <2>2
  <1>11. CASE \E p \in Procs : RedeliverTask(p)
    <2> HIDE DEF Moved
    <2> QED BY <1>4, <1>11 DEF RedeliverTask, bounds
  <1>12. CASE \E d \in DocIds : SendTask(d)
    <2> HIDE DEF Moved
    <2> QED BY <1>4, <1>12 DEF SendTask, bounds
  <1>13. CASE UNCHANGED vars
    <2> HIDE DEF Moved
    <2> QED BY <1>4, <1>13 DEF vars
  <1> HIDE DEF Moved
  <1> QED
    BY <1>5, <1>6, <1>7, <1>8, <1>9, <1>10, <1>11, <1>12, <1>13 DEF Next, Proceed

\* Only the commit of a run writes chunk rows, and only it makes a document
\* INDEXED.
LEMMA ChunksMove ==
    ASSUME TypeInv, [Next]_vars
    PROVE  \/ /\ UNCHANGED chunks
              /\ \A d \in DocIds : documents'[d].status = "indexed"
                                     => documents[d].status = "indexed"
           \/ \E p \in Procs : pc[p] = "commit" /\ CommitIndexed(p)
  <1>1. UNCHANGED chunks \/ \E p \in Procs : pc[p] = "commit" /\ CommitIndexed(p)
    <2>1. CASE \E p \in Handlers : Request(p)
      BY <2>1 DEF Request, CreateDocumentCheck, ReprocessDocument, DeleteDocumentStart, store
    <2>2. CASE \E p \in Workers : TakeTask(p)
      BY <2>2 DEF TakeTask, IngestDocument, IngestDocumentSkip, store
    <2>3. CASE \E p \in Procs : Proceed(p)
      BY <2>3 DEF Proceed, CreateDocumentInsert, CreateDocumentConflict, CreateDocumentWrite,
                  RunIngestionStart, RunIngestionExtract, RunIngestionClear,
                  RunIngestionPurge, RunIngestionAdd, RunIngestionIndex, RunIngestionCommit,
                  RunIngestionRollback, RunIngestionRecord, DeleteDocumentPurge,
                  DeleteDocumentMark, store
    <2>4. CASE \E p \in Procs : RedeliverTask(p) \/ IngestionFault(p) \/ Crash(p) \/ Escape(p)
      BY <2>4 DEF RedeliverTask, IngestionFault, Crash, Escape, store
    <2>5. CASE \E d \in DocIds : SendTask(d)
      BY <2>5 DEF SendTask, store
    <2>6. CASE UNCHANGED vars
      BY <2>6 DEF vars
    <2> QED BY <2>1, <2>2, <2>3, <2>4, <2>5, <2>6 DEF Next
  <1>2. ASSUME NEW d \in DocIds, documents'[d].status = "indexed", documents[d].status # "indexed"
        PROVE  \E p \in Procs : pc[p] = "commit" /\ CommitIndexed(p)
    <2>1. ASSUME NEW p \in Procs, NEW e \in DocIds, CreateDocumentInsert(p, e) PROVE FALSE
      BY <1>2, <2>1 DEF CreateDocumentInsert, TypeInv, TypeOK
    <2>2. ASSUME NEW p \in Procs, RunIngestionStart(p) PROVE FALSE
      <3>1. [session[p] EXCEPT !.status = "processing", !.error = FALSE].status = "processing"
        BY DEF TypeInv, TypeOK, Document
      <3> QED BY <1>2, <2>2, <3>1 DEF RunIngestionStart, Flush, TypeInv, TypeOK
    <2>3. ASSUME NEW p \in Procs, RunIngestionRecord(p) PROVE FALSE
      <3>1. [documents[d] EXCEPT !.status = "failed", !.error = TRUE,
                                 !.chunk_count = 0].status = "failed"
        BY DEF TypeInv, TypeOK, Document
      <3> QED BY <1>2, <2>3, <3>1 DEF RunIngestionRecord, TypeInv, TypeOK
    <2>4. ASSUME NEW p \in Procs, DeleteDocumentMark(p) PROVE FALSE
      <3>1. [session[p] EXCEPT !.deleted = TRUE].status = session[p].status
        BY DEF TypeInv, TypeOK, Document
      <3> QED BY <1>2, <2>4, <3>1 DEF DeleteDocumentMark, Flush, TypeInv, TypeOK
    <2> QED BY <1>2, <2>1, <2>2, <2>3, <2>4, RowWriters
  <1> QED BY <1>1, <1>2

\* No step marks a row INDEXED without chunk rows, or writes rows of a run that
\* has not been entered.
LEMMA NumberedStep == TypeInv /\ Numbered /\ [Next]_vars => Numbered'
  <1> SUFFICES ASSUME TypeInv, Numbered, [Next]_vars PROVE Numbered'
    OBVIOUS
  <1> DEFINE Active == {"start", "extract", "clear", "purge", "add", "index", "commit"}
  <1>0. runs \in [DocIds -> Nat] /\ runs' \in [DocIds -> Nat]
    BY TypeStep DEF TypeInv, TypeOK
  <1>1. ASSUME NEW p \in Procs, pc'[p] \in Active PROVE tx'[p].run \in 1 .. runs'[req'[p].doc]
    BY <1>0, <1>1, RunsMove DEF Numbered
  <1>2. IndexedHasChunks'
    <2>1. CASE /\ UNCHANGED chunks
               /\ \A d \in DocIds : documents'[d].status = "indexed"
                                      => documents[d].status = "indexed"
      BY <1>0, <2>1, RunsMove DEF Numbered, IndexedHasChunks
    <2>2. ASSUME NEW p \in Procs, pc[p] = "commit", CommitIndexed(p)
          PROVE  IndexedHasChunks'
      <3> DEFINE d == req[p].doc
      <3>1. d \in DocIds /\ tx[p].run \in 1 .. runs[d]
        BY <2>2 DEF Numbered, TypeInv, Referenced
      <3>2. chunks'[d] = tx[p].run /\ \A e \in DocIds \ {d} :
               chunks'[e] = chunks[e] /\ documents'[e] = documents[e]
        BY <2>2, <3>1 DEF CommitIndexed, TypeInv, TypeOK
      <3> QED BY <1>0, <3>1, <3>2, RunsMove DEF Numbered, IndexedHasChunks
    <2> QED BY <2>1, <2>2, ChunksMove
  <1> QED BY <1>1, <1>2 DEF Numbered

\* Committed chunk rows are those of a run that was entered, in every state.
THEOREM NumberedInvariant == Spec => []Numbered
  <1>1. Init => Numbered
    BY DEF Init, Numbered, IndexedHasChunks, NoDocument
  <1> QED BY <1>1, NumberedStep, TypeCorrect, PTL DEF Spec

\* An INDEXED document has chunk rows, and they are a run's of its own.
THEOREM IndexedMeansChunks == Spec => []IndexedHasChunks
  <1>1. Numbered => IndexedHasChunks
    BY DEF Numbered
  <1> QED BY <1>1, NumberedInvariant, PTL
-----------------------------------------------------------------------------
(* The lifecycle *)

\* Where a run is open.
Active == {"start", "extract", "clear", "purge", "add", "index", "commit"}

\* Content has a workspace.
Placed ==
    /\ \A d \in DocIds : Exists(d) => documents[d].workspace \in Workspaces
    /\ \A p \in Procs : pc[p] = "insert" => req[p].workspace \in Workspaces

\* A run at work has a number of its own, which is not the committed rows'.
Fresh ==
    /\ \A d \in DocIds : chunks[d] <= runs[d] /\ runs[d] <= MaxRuns
    /\ \A p \in Procs : pc[p] \in Active => tx[p].run # chunks[req[p].doc]
    /\ \A p, q \in Procs :
         p # q /\ pc[p] \in Active /\ pc[q] \in Active /\ req[p].doc = req[q].doc
           => tx[p].run # tx[q].run

\* A run past its start has left QUEUED behind, whatever copy of the row it holds.
Begun ==
    \A p \in Procs :
        /\ (pc[p] = "write" \/ InRun(p)) /\ session[p].status # "queued" =>
             documents[req[p].doc].status # "queued"
        /\ InRun(p) /\ pc[p] # "start" => session[p].status = "processing"

LifeInv == TypeInv /\ Numbered /\ Placed /\ Fresh /\ Begun
-----------------------------------------------------------------------------
\* One process moves at a time.
OthersStay(p) ==
    \A q \in Procs \ {p} : /\ pc'[q] = pc[q] /\ req'[q] = req[q]
                           /\ session'[q] = session[q] /\ tx'[q] = tx[q]

\* Ending is a step of one process.
LEMMA FinishStays ==
    ASSUME TypeInv, NEW p \in Procs, Finish(p)
    PROVE  OthersStay(p) /\ pc'[p] = "idle"
  BY DEF Finish, Goto, OthersStay, TypeInv, TypeOK

\* So is entering run_ingestion, which counts the run.
LEMMA EnterRunStays ==
    ASSUME TypeInv, NEW p \in Procs, NEW d \in DocIds, NEW row, NEW task, EnterRun(p, d, row, task)
    PROVE  /\ OthersStay(p) /\ pc'[p] = "start"
           /\ req'[p].doc = d /\ session'[p] = row /\ runs[d] < MaxRuns
           /\ runs' = [runs EXCEPT ![d] = runs[d] + 1]
  BY DEF EnterRun, Goto, OthersStay, TypeInv, TypeOK

\* What a process that moves takes up, with which copy of the row, and how it
\* goes on.
Takes(p) ==
    \/ pc'[p] = "insert" /\ req'[p].workspace \in Workspaces
    \/ pc'[p] = "write" /\ session'[p].status = "queued"
    \/ pc'[p] = "start" /\ pc[p] = "write" /\ req'[p].doc = req[p].doc /\ session'[p] = session[p]
    \/ /\ pc'[p] = "start" /\ UNCHANGED documents
       /\ session'[p] = documents[req'[p].doc]
    \/ RunIngestionStart(p)
    \/ /\ InRun(p) /\ InRun(p)' /\ pc[p] # "start" /\ pc'[p] # "start"
       /\ req'[p] = req[p] /\ session'[p] = session[p]
    \/ pc'[p] \in {"idle", "unindex", "mark"}

\* Every step is one process's, and takes up or goes on with a piece of work.
LEMMA OneMoves ==
    ASSUME TypeInv, [Next]_vars
    PROVE  \/ UNCHANGED <<pc, req, session, tx>>
           \/ \E p \in Procs : OthersStay(p) /\ Takes(p)
  <1> USE DEF TypeInv, TypeOK
  <1>1. ASSUME NEW p \in Handlers, Request(p) PROVE p \in Procs /\ OthersStay(p) /\ Takes(p)
    <2>1. p \in Procs
      BY DEF Procs
    <2>2. ASSUME NEW w \in Workspaces, NEW f \in Files, CreateDocumentCheck(p, w, f)
          PROVE  OthersStay(p) /\ Takes(p)
      BY <2>1, <2>2 DEF CreateDocumentCheck, Goto, NoReq, OthersStay, Takes
    <2>3. ASSUME NEW d \in DocIds, ReprocessDocument(p, d) PROVE OthersStay(p) /\ Takes(p)
      <3>1. EnterRun(p, d, documents[d], FALSE) /\ UNCHANGED documents
        BY <2>3 DEF ReprocessDocument
      <3>2. /\ OthersStay(p) /\ pc'[p] = "start"
            /\ req'[p].doc = d /\ session'[p] = documents[d]
        BY <2>1, <3>1, EnterRunStays
      <3> QED BY <3>1, <3>2 DEF Takes
    <2>4. ASSUME NEW d \in DocIds, DeleteDocumentStart(p, d) PROVE OthersStay(p) /\ Takes(p)
      BY <2>1, <2>4 DEF DeleteDocumentStart, Goto, OthersStay, Takes
    <2> QED BY <1>1, <2>1, <2>2, <2>3, <2>4 DEF Request
  <1>2. ASSUME NEW p \in Workers, NEW d \in DocIds, IngestDocument(p, d)
        PROVE  p \in Procs /\ OthersStay(p) /\ Takes(p)
    <2>1. EnterRun(p, d, documents[d], TRUE) /\ UNCHANGED documents /\ p \in Procs
      BY <1>2 DEF IngestDocument, Procs
    <2>2. /\ OthersStay(p) /\ pc'[p] = "start"
          /\ req'[p].doc = d /\ session'[p] = documents[d]
      BY <2>1, EnterRunStays
    <2> QED BY <2>1, <2>2 DEF Takes
  <1>3. ASSUME NEW p \in Procs, Proceed(p) PROVE OthersStay(p) /\ Takes(p)
    <2>1. ASSUME NEW d \in DocIds, CreateDocumentInsert(p, d) PROVE OthersStay(p) /\ Takes(p)
      BY <2>1 DEF CreateDocumentInsert, Goto, OthersStay, Takes
    <2>2. CASE \/ CreateDocumentConflict(p) \/ RunIngestionCommit(p) \/ RunIngestionRecord(p)
               \/ DeleteDocumentMark(p)
      BY <2>2, FinishStays DEF CreateDocumentConflict, RunIngestionCommit, RunIngestionRecord,
                               DeleteDocumentMark, Takes
    <2>3. CASE CreateDocumentWrite(p)
      <3>1. req[p].doc \in DocIds
        BY <2>3 DEF CreateDocumentWrite, Referenced
      <3> QED BY <2>3, <3>1, FinishStays, EnterRunStays DEF CreateDocumentWrite, Takes
    <2>4. CASE RunIngestionStart(p)
      BY <2>4 DEF RunIngestionStart, Goto, OthersStay, Takes
    <2>5. CASE \/ RunIngestionExtract(p) \/ RunIngestionClear(p) \/ RunIngestionPurge(p)
               \/ RunIngestionAdd(p) \/ RunIngestionIndex(p) \/ RunIngestionRollback(p)
      BY <2>5 DEF RunIngestionExtract, RunIngestionClear, RunIngestionPurge, RunIngestionAdd,
                  RunIngestionIndex, RunIngestionRollback, Goto, OthersStay, Takes, InRun
    <2>6. CASE DeleteDocumentPurge(p)
      BY <2>6 DEF DeleteDocumentPurge, Goto, OthersStay, Takes
    <2> QED BY <1>3, <2>1, <2>2, <2>3, <2>4, <2>5, <2>6 DEF Proceed
  <1>4. ASSUME NEW p \in Procs, IngestionFault(p) PROVE OthersStay(p) /\ Takes(p)
    BY <1>4 DEF IngestionFault, Goto, OthersStay, Takes, InRun
  <1>5. ASSUME NEW p \in Procs, Crash(p) \/ Escape(p) PROVE OthersStay(p) /\ Takes(p)
    BY <1>5, FinishStays DEF Crash, Escape, Takes
  <1>6. CASE \/ \E p \in Workers, d \in DocIds : IngestDocumentSkip(p, d)
             \/ \E p \in Procs : RedeliverTask(p)
             \/ \E d \in DocIds : SendTask(d)
             \/ UNCHANGED vars
    BY <1>6 DEF IngestDocumentSkip, RedeliverTask, SendTask, vars
  <1> QED BY <1>1, <1>2, <1>3, <1>4, <1>5, <1>6 DEF Next, TakeTask

\* Chunk rows are written by a commit, and the run it is of is over.
LEMMA ChunksWritten ==
    ASSUME TypeInv, [Next]_vars
    PROVE  \/ UNCHANGED chunks
           \/ \E p \in Procs :
                /\ pc[p] = "commit" /\ pc'[p] \notin Active
                /\ chunks' = [chunks EXCEPT ![req[p].doc] = tx[p].run]
  <1>1. CASE \E p \in Handlers : Request(p)
    BY <1>1 DEF Request, CreateDocumentCheck, ReprocessDocument, DeleteDocumentStart, store
  <1>2. CASE \E p \in Workers : TakeTask(p)
    BY <1>2 DEF TakeTask, IngestDocument, IngestDocumentSkip, store
  <1>3. ASSUME NEW p \in Procs, RunIngestionCommit(p)
        PROVE  /\ pc[p] = "commit" /\ pc'[p] \notin Active
               /\ chunks' = [chunks EXCEPT ![req[p].doc] = tx[p].run]
    BY <1>3, FinishStays DEF RunIngestionCommit, CommitIndexed, Active
  <1>4. ASSUME NEW p \in Procs, Proceed(p) PROVE UNCHANGED chunks \/ RunIngestionCommit(p)
    BY <1>4 DEF Proceed, CreateDocumentInsert, CreateDocumentConflict, CreateDocumentWrite,
                RunIngestionStart, RunIngestionExtract, RunIngestionClear,
                RunIngestionPurge, RunIngestionAdd, RunIngestionIndex,
                RunIngestionRollback, RunIngestionRecord, DeleteDocumentPurge,
                DeleteDocumentMark, store
  <1>5. ASSUME NEW p \in Procs, IngestionFault(p)
        PROVE  \/ UNCHANGED chunks
               \/ /\ pc[p] = "commit" /\ pc'[p] \notin Active
                  /\ chunks' = [chunks EXCEPT ![req[p].doc] = tx[p].run]
    BY <1>5 DEF IngestionFault, CommitIndexed, Active, Goto, TypeInv, TypeOK
  <1>6. CASE \/ \E p \in Procs : RedeliverTask(p) \/ Crash(p) \/ Escape(p)
             \/ \E d \in DocIds : SendTask(d)
             \/ UNCHANGED vars
    BY <1>6 DEF RedeliverTask, Crash, Escape, SendTask, vars, store
  <1> QED BY <1>1, <1>2, <1>3, <1>4, <1>5, <1>6 DEF Next

\* Runs are entered short of the bound.
LEMMA RunsBounded ==
    ASSUME TypeInv, Fresh, [Next]_vars
    PROVE  \A d \in DocIds : runs'[d] <= MaxRuns
  <1> DEFINE Bounded == \A d \in DocIds : runs'[d] <= MaxRuns
  <1> SUFFICES Bounded
    OBVIOUS
  <1>0. runs \in [DocIds -> Nat] /\ MaxRuns \in Nat /\ \A d \in DocIds : runs[d] <= MaxRuns
    BY ConstantsAssumption DEF TypeInv, TypeOK, Fresh
  <1>1. CASE UNCHANGED runs
    BY <1>0, <1>1
  <1>2. ASSUME NEW p \in Procs, NEW d \in DocIds, NEW row, NEW task, EnterRun(p, d, row, task)
        PROVE  Bounded
    <2>1. runs' = [runs EXCEPT ![d] = runs[d] + 1] /\ runs[d] < MaxRuns
      BY <1>2 DEF EnterRun
    <2> QED BY <1>0, <2>1
  <1> HIDE DEF Bounded
  <1>3. CASE \E p \in Handlers : Request(p)
    BY <1>1, <1>2, <1>3 DEF Request, CreateDocumentCheck, ReprocessDocument,
                            DeleteDocumentStart, bounds, Procs
  <1>4. CASE \E p \in Workers : TakeTask(p)
    BY <1>1, <1>2, <1>4 DEF TakeTask, IngestDocument, IngestDocumentSkip, bounds, Procs
  <1>5. ASSUME NEW p \in Procs, CreateDocumentWrite(p) PROVE Bounded
    <2>1. req[p].doc \in DocIds
      BY <1>5 DEF CreateDocumentWrite, TypeInv, Referenced
    <2> QED BY <1>1, <1>2, <1>5, <2>1 DEF CreateDocumentWrite
  <1>6. CASE \E p \in Procs : Proceed(p)
    BY <1>1, <1>5, <1>6
       DEF Proceed, CreateDocumentInsert, CreateDocumentConflict,
           RunIngestionStart, RunIngestionExtract, RunIngestionClear, RunIngestionPurge,
           RunIngestionAdd, RunIngestionIndex, RunIngestionCommit, RunIngestionRollback,
           RunIngestionRecord, DeleteDocumentPurge, DeleteDocumentMark, bounds
  <1>7. CASE \/ \E p \in Procs : RedeliverTask(p) \/ IngestionFault(p) \/ Crash(p) \/ Escape(p)
             \/ \E d \in DocIds : SendTask(d)
             \/ UNCHANGED vars
    BY <1>1, <1>7 DEF RedeliverTask, IngestionFault, Crash, Escape, SendTask, vars, bounds
  <1> QED BY <1>3, <1>4, <1>6, <1>7 DEF Next
-----------------------------------------------------------------------------
(* The invariant *)

\* A step enters rows with a workspace only.
LEMMA PlacedStep == TypeInv /\ Placed /\ [Next]_vars => Placed'
  <1> SUFFICES ASSUME TypeInv, Placed, [Next]_vars PROVE Placed'
    OBVIOUS
  <1>1. ASSUME NEW d \in DocIds, Exists(d)' PROVE documents'[d].workspace \in Workspaces
    <2>1. CASE Exists(d)
      BY <2>1, RowStep DEF RowMoves, Placed
    <2>2. CASE ~Exists(d)
      <3>1. documents'[d] # documents[d]
        BY <1>1, <2>2 DEF Exists
      <3>2. ASSUME NEW p \in Procs, NEW e \in DocIds, CreateDocumentInsert(p, e)
            PROVE  documents'[d].workspace \in Workspaces
        BY <3>1, <3>2 DEF CreateDocumentInsert, Placed, TypeInv, TypeOK
      <3>3. ASSUME NEW p \in Procs, NEW row, documents' = [documents EXCEPT ![req[p].doc] = row],
                   pc[p] \notin {"idle", "insert"}
            PROVE  FALSE
        BY <2>2, <3>1, <3>3 DEF TypeInv, TypeOK, Referenced
      <3>4. ASSUME NEW p \in Procs, \/ RunIngestionStart(p)
                                    \/ pc[p] = "commit" /\ CommitIndexed(p)
                                    \/ RunIngestionRecord(p) \/ DeleteDocumentMark(p)
            PROVE  FALSE
        BY <3>3, <3>4 DEF RunIngestionStart, CommitIndexed, RunIngestionRecord,
                          DeleteDocumentMark
      <3> QED BY <3>1, <3>2, <3>4, RowWriters
    <2> QED BY <2>1, <2>2
  <1>2. ASSUME NEW p \in Procs, pc'[p] = "insert" PROVE req'[p].workspace \in Workspaces
    <2>1. CASE UNCHANGED <<pc, req, session, tx>>
      BY <1>2, <2>1 DEF Placed
    <2>2. ASSUME NEW q \in Procs, OthersStay(q), Takes(q)
          PROVE  req'[p].workspace \in Workspaces
      <3>1. CASE p = q
        BY <1>2, <2>2, <3>1 DEF Takes, RunIngestionStart, Goto, InRun, Placed, TypeInv, TypeOK
      <3>2. CASE p # q
        BY <1>2, <2>2, <3>2 DEF OthersStay, Placed
      <3> QED BY <3>1, <3>2
    <2> QED BY <2>1, <2>2, OneMoves
  <1> QED BY <1>1, <1>2 DEF Placed

\* The number of a run that is entered is new, and a commit ends the run whose
\* number it publishes.
LEMMA FreshStep == TypeInv /\ Numbered /\ Fresh /\ [Next]_vars => Fresh'
  <1> SUFFICES ASSUME TypeInv, Numbered, Fresh, [Next]_vars PROVE Fresh'
    OBVIOUS
  <1>0. /\ runs \in [DocIds -> Nat] /\ runs' \in [DocIds -> Nat]
        /\ chunks \in [DocIds -> Nat] /\ chunks' \in [DocIds -> Nat]
        /\ tx \in [Procs -> Tx_t] /\ MaxRuns \in Nat
        /\ \A p \in Procs : pc[p] \in Active => req[p].doc \in DocIds
    BY TypeStep, ConstantsAssumption DEF TypeInv, TypeOK, Referenced, Active, Tx_t
  <1>1. \A p \in Procs : pc[p] \in Active => tx[p].run \in 1 .. runs[req[p].doc]
    BY DEF Numbered, Active
  <1>2. \A p \in Procs : pc'[p] \in Active =>
           \/ /\ pc[p] \in Active /\ req'[p].doc = req[p].doc /\ tx'[p].run = tx[p].run
              /\ req[p].doc \in DocIds
           \/ /\ req'[p].doc \in DocIds /\ tx'[p].run = runs[req'[p].doc] + 1
              /\ runs'[req'[p].doc] = runs[req'[p].doc] + 1
    BY RunsMove DEF Active
  <1>3. \A d \in DocIds : /\ runs'[d] >= runs[d] /\ runs'[d] <= MaxRuns
                          /\ chunks[d] <= runs[d]
    BY RunsMove, RunsBounded DEF Fresh
  <1>4. \A d \in DocIds :
          \/ chunks'[d] = chunks[d]
          \/ \E q \in Procs : /\ pc[q] \in Active /\ pc'[q] \notin Active /\ req[q].doc = d
                              /\ chunks'[d] = tx[q].run
    BY <1>0, ChunksWritten DEF Active
  <1>5. ASSUME NEW d \in DocIds PROVE chunks'[d] <= runs[d]
    BY <1>0, <1>1, <1>3, <1>4
  <1>6. ASSUME NEW p \in Procs, pc'[p] \in Active PROVE tx'[p].run # chunks'[req'[p].doc]
    <2> DEFINE d == req'[p].doc
    <2>1. d \in DocIds
      BY <1>2, <1>6
    <2>2. CASE tx'[p].run = runs[d] + 1
      BY <1>0, <1>5, <2>1, <2>2
    <2>3. CASE pc[p] \in Active /\ req[p].doc = d /\ tx'[p].run = tx[p].run
      <3>1. tx[p].run # chunks[d]
        BY <2>3 DEF Fresh
      <3>2. ASSUME NEW q \in Procs, pc[q] \in Active, pc'[q] \notin Active, req[q].doc = d
            PROVE  tx[p].run # tx[q].run
        BY <1>6, <2>3, <3>2 DEF Fresh
      <3> QED BY <1>4, <2>1, <2>3, <3>1, <3>2
    <2> QED BY <1>2, <1>6, <2>2, <2>3
  <1>7. ASSUME NEW p \in Procs, NEW q \in Procs, p # q, pc'[p] \in Active, pc'[q] \in Active,
               req'[p].doc = req'[q].doc
        PROVE  tx'[p].run # tx'[q].run
    <2> DEFINE d == req'[p].doc
    <2>1. d \in DocIds
      BY <1>2, <1>7
    <2>2. \/ \A r \in {p} : pc'[r] = pc[r] /\ req'[r] = req[r] /\ tx'[r] = tx[r]
          \/ \A r \in {q} : pc'[r] = pc[r] /\ req'[r] = req[r] /\ tx'[r] = tx[r]
      BY <1>7, OneMoves DEF OthersStay
    <2>3. ASSUME NEW a \in {p, q}, NEW b \in {p, q}, a # b,
                 pc'[a] = pc[a], req'[a] = req[a], tx'[a] = tx[a]
          PROVE  tx'[a].run # tx'[b].run
      <3>1. a \in Procs /\ b \in Procs /\ pc[a] \in Active /\ req[a].doc = d /\ req'[b].doc = d
        BY <1>7, <2>3
      <3>2. tx[a].run \in 1 .. runs[d]
        BY <1>1, <3>1
      <3>3. CASE pc[b] \in Active /\ req[b].doc = d /\ tx'[b].run = tx[b].run
        BY <2>3, <3>1, <3>3 DEF Fresh
      <3>4. CASE tx'[b].run = runs[d] + 1
        BY <1>0, <2>1, <2>3, <3>2, <3>4
      <3> QED BY <1>2, <1>7, <2>3, <3>1, <3>3, <3>4
    <2> QED BY <1>7, <2>2, <2>3
  <1>8. \A d \in DocIds : chunks'[d] <= runs'[d] /\ runs'[d] <= MaxRuns
    BY <1>0, <1>3, <1>5
  <1> QED BY <1>6, <1>7, <1>8 DEF Fresh

\* What a run that begins writes: PROCESSING, or nothing if it has loaded that.
LEMMA StartRow ==
    ASSUME TypeInv, NEW p \in Procs, RunIngestionStart(p)
    PROVE  /\ req[p].doc \in DocIds /\ Exists(req[p].doc)
           /\ documents'[req[p].doc].status = IF session[p].status = "processing"
                                              THEN documents[req[p].doc].status ELSE "processing"
           /\ session'[p].status = "processing"
           /\ pc'[p] = "extract" /\ req' = req /\ pc[p] = "start"
  <1> DEFINE new == [session[p] EXCEPT !.status = "processing", !.error = FALSE]
  <1>1. new.status = "processing"
    BY DEF TypeInv, TypeOK, Document
  <1>2. /\ documents' = [documents EXCEPT ![req[p].doc] =
                            Flush(documents[req[p].doc], session[p], new)]
        /\ session' = [session EXCEPT ![p] = new]
        /\ pc' = [pc EXCEPT ![p] = "extract"] /\ req' = req /\ pc[p] = "start"
    BY DEF RunIngestionStart, Goto
  <1>3. Flush(documents[req[p].doc], session[p], new).status =
           IF session[p].status = "processing" THEN documents[req[p].doc].status
                                               ELSE "processing"
    BY <1>1 DEF Flush
  <1>4. req[p].doc \in DocIds /\ Exists(req[p].doc)
    BY <1>2 DEF TypeInv, Referenced
  <1> HIDE DEF new
  <1> QED BY <1>1, <1>2, <1>3, <1>4 DEF TypeInv, TypeOK

\* A document does not go back to QUEUED.
LEMMA NeverQueuedAgain ==
    ASSUME TypeInv, [Next]_vars, NEW d \in DocIds, Exists(d), documents[d].status # "queued"
    PROVE  documents'[d].status # "queued"
  <1>1. ASSUME NEW p \in Procs, NEW e \in DocIds, CreateDocumentInsert(p, e)
        PROVE  documents'[d] = documents[d]
    BY <1>1 DEF CreateDocumentInsert, TypeInv, TypeOK
  <1>2. ASSUME NEW p \in Procs, RunIngestionStart(p) PROVE documents'[d].status # "queued"
    <2>1. d # req[p].doc => documents'[d] = documents[d]
      BY <1>2 DEF RunIngestionStart, TypeInv, TypeOK
    <2> QED BY <1>2, <2>1, StartRow
  <1>3. ASSUME NEW p \in Procs, pc[p] = "commit", CommitIndexed(p)
        PROVE  documents'[d].status # "queued"
    <2>1. [session[p] EXCEPT !.status = "indexed", !.error = FALSE,
                             !.chunk_count = ChunkCount[req[p].file]].status = "indexed"
      BY DEF TypeInv, TypeOK, Document
    <2> QED BY <1>3, <2>1 DEF CommitIndexed, Flush, TypeInv, TypeOK
  <1>4. ASSUME NEW p \in Procs, RunIngestionRecord(p) PROVE documents'[d].status # "queued"
    <2>1. [documents[d] EXCEPT !.status = "failed", !.error = TRUE,
                               !.chunk_count = 0].status = "failed"
      BY DEF TypeInv, TypeOK, Document
    <2> QED BY <1>4, <2>1 DEF RunIngestionRecord, TypeInv, TypeOK
  <1>5. ASSUME NEW p \in Procs, DeleteDocumentMark(p) PROVE documents'[d].status # "queued"
    <2>1. [session[p] EXCEPT !.deleted = TRUE].status = session[p].status
      BY DEF TypeInv, TypeOK, Document
    <2> QED BY <1>5, <2>1 DEF DeleteDocumentMark, Flush, TypeInv, TypeOK
  <1> QED BY <1>1, <1>2, <1>3, <1>4, <1>5, RowWriters

\* A run that has begun has left QUEUED behind, whatever copy of the row it had.
LEMMA BegunStep == TypeInv /\ Begun /\ [Next]_vars => Begun'
  <1> SUFFICES ASSUME TypeInv, Begun, [Next]_vars, NEW p \in Procs
               PROVE  /\ (pc'[p] = "write" \/ InRun(p)') /\ session'[p].status # "queued" =>
                           documents'[req'[p].doc].status # "queued"
                      /\ InRun(p)' /\ pc'[p] # "start" => session'[p].status = "processing"
    BY DEF Begun
  <1>1. CASE pc'[p] = pc[p] /\ req'[p] = req[p] /\ session'[p] = session[p]
    <2>1. pc[p] = "write" \/ InRun(p) => req[p].doc \in DocIds /\ Exists(req[p].doc)
      BY DEF InRun, TypeInv, Referenced
    <2> QED BY <1>1, <2>1, NeverQueuedAgain DEF Begun, InRun
  <1>2. CASE Takes(p)
    <2>1. CASE pc'[p] \in {"insert", "idle", "unindex", "mark"}
      BY <2>1 DEF InRun
    <2>2. CASE pc'[p] = "write" /\ session'[p].status = "queued"
      BY <2>2 DEF InRun
    <2>3. CASE /\ pc'[p] = "start" /\ pc[p] = "write" /\ req'[p].doc = req[p].doc
               /\ session'[p] = session[p]
      <3>1. req[p].doc \in DocIds /\ Exists(req[p].doc)
        BY <2>3 DEF TypeInv, Referenced
      <3> QED BY <2>3, <3>1, NeverQueuedAgain DEF Begun
    <2>4. CASE /\ pc'[p] = "start" /\ UNCHANGED documents
               /\ session'[p] = documents[req'[p].doc]
      BY <2>4
    <2>5. CASE RunIngestionStart(p)
      BY <2>5, StartRow DEF Begun, InRun
    <2>6. CASE /\ InRun(p) /\ pc[p] # "start" /\ pc'[p] # "start"
               /\ req'[p] = req[p] /\ session'[p] = session[p]
      <3>1. req[p].doc \in DocIds /\ Exists(req[p].doc)
        BY <2>6 DEF InRun, TypeInv, Referenced
      <3> QED BY <2>6, <3>1, NeverQueuedAgain DEF Begun
    <2> QED BY <1>2, <2>1, <2>2, <2>3, <2>4, <2>5, <2>6 DEF Takes
  <1> QED BY <1>1, <1>2, OneMoves DEF OthersStay

\* What the mapping rests on holds in every state.
THEOREM LifeInvariant == Spec => []LifeInv
  <1>1. Init => Placed /\ Fresh /\ Begun
    BY ConstantsAssumption DEF Init, Placed, Fresh, Begun, Exists, NoDocument, InRun, Active
  <1>2. TypeInv /\ Numbered /\ Placed /\ Fresh /\ Begun /\ [Next]_vars => Placed' /\ Fresh' /\ Begun'
    BY PlacedStep, FreshStep, BegunStep
  <1> QED BY <1>1, <1>2, TypeCorrect, NumberedInvariant, PTL DEF Spec, LifeInv
-----------------------------------------------------------------------------
(* The mapping *)

Content ==
    [d \in DocIds |-> IF Exists(d)
                      THEN <<documents[d].workspace, Checksum[documents[d].file]>> ELSE NULL]
Status == [d \in DocIds |-> documents[d].status]
Deleted == [d \in DocIds |-> documents[d].deleted]
Open == [d \in DocIds |-> {p \in Procs : RunOpen(p, d)}]

Contents == Workspaces \X {Checksum[f] : f \in Files}

Mapped == [Lifecycle!Next]_(Lifecycle!vars)

\* Content that there is has a workspace and a checksum.
LEMMA ContentThere ==
    ASSUME TypeInv, Placed, NEW d \in DocIds, Exists(d)
    PROVE  Content[d] \in Contents /\ Content[d] # NULL
  <1>1. documents[d].workspace \in Workspaces /\ documents[d].file \in Files
    BY DEF Placed, TypeInv, Referenced
  <1>2. Content[d] \in Contents
    BY <1>1 DEF Content, Contents
  <1> QED BY <1>2, ConstantsAssumption DEF Contents

(* The abstract steps, from what they come to *)

\* Nothing a client can see has changed.
LEMMA Stutters ==
    ASSUME UNCHANGED <<Content, Status, chunks, Deleted, Open>>
    PROVE  Mapped
  BY DEF Mapped, Lifecycle!vars, Content, Status, Deleted, Open

\* New content comes in, kept open by its request.
LEMMA Uploads ==
    ASSUME NEW p \in Procs, NEW d \in DocIds, NEW c \in Contents,
           Content[d] = NULL, c \notin {Content[e] : e \in DocIds},
           Content' = [Content EXCEPT ![d] = c], Status' = [Status EXCEPT ![d] = "queued"],
           Open' = [Open EXCEPT ![d] = {p}], UNCHANGED <<chunks, Deleted>>
    PROVE  Mapped
  <1>1. Lifecycle!Upload(p, d, c)
    BY DEF Lifecycle!Upload, Content, Status, Deleted, Open
  <1> QED BY <1>1 DEF Mapped, Lifecycle!Next, Contents

\* A run of a document that is not deleted is opened.
LEMMA Opens ==
    ASSUME NEW p \in Procs, NEW d \in DocIds, Content[d] # NULL, ~Deleted[d],
           Open' = [Open EXCEPT ![d] = @ \cup {p}], UNCHANGED <<Content, Status, chunks, Deleted>>
    PROVE  Mapped
  <1>1. Lifecycle!Open(p, d)
    BY DEF Lifecycle!Open, Content, Status, Deleted, Open
  <1> QED BY <1>1 DEF Mapped, Lifecycle!Next

\* An open run marks its document PROCESSING.
LEMMA Begins ==
    ASSUME NEW p \in Procs, NEW d \in DocIds, p \in Open[d],
           Status' = [Status EXCEPT ![d] = "processing"],
           UNCHANGED <<Content, chunks, Deleted, Open>>
    PROVE  Mapped
  <1>1. Lifecycle!Begin(p, d)
    BY DEF Lifecycle!Begin, Content, Status, Deleted, Open
  <1> QED BY <1>1 DEF Mapped, Lifecycle!Next

\* The verdict comes with the chunk rows of a new number.
LEMMA Indexes ==
    ASSUME NEW p \in Procs, NEW d \in DocIds, NEW run \in 1 .. MaxRuns,
           p \in Open[d], Status[d] # "queued", run # chunks[d],
           Status' = [Status EXCEPT ![d] = "indexed"], chunks' = [chunks EXCEPT ![d] = run],
           Open' \in {Open, [Open EXCEPT ![d] = @ \ {p}]}, UNCHANGED <<Content, Deleted>>
    PROVE  Mapped
  <1>1. Lifecycle!Index(p, d, run)
    BY DEF Lifecycle!Index, Content, Status, Deleted, Open
  <1> QED BY <1>1 DEF Mapped, Lifecycle!Next

\* A run fails and leaves the chunk rows alone.
LEMMA Fails ==
    ASSUME NEW p \in Procs, NEW d \in DocIds, p \in Open[d], Status[d] # "queued",
           Status' = [Status EXCEPT ![d] = "failed"],
           Open' = [Open EXCEPT ![d] = @ \ {p}], UNCHANGED <<Content, chunks, Deleted>>
    PROVE  Mapped
  <1>1. Lifecycle!Fail(p, d)
    BY DEF Lifecycle!Fail, Content, Status, Deleted, Open
  <1> QED BY <1>1 DEF Mapped, Lifecycle!Next

\* A run ends without a verdict.
LEMMA Abandons ==
    ASSUME NEW p \in Procs, NEW d \in DocIds, p \in Open[d],
           Open' = [Open EXCEPT ![d] = @ \ {p}], UNCHANGED <<Content, Status, chunks, Deleted>>
    PROVE  Mapped
  <1>1. Lifecycle!Abandon(p, d)
    BY DEF Lifecycle!Abandon, Content, Status, Deleted, Open
  <1> QED BY <1>1 DEF Mapped, Lifecycle!Next

\* A document is marked as deleted.
LEMMA Deletes ==
    ASSUME NEW d \in DocIds, Content[d] # NULL, Deleted' = [Deleted EXCEPT ![d] = TRUE],
           UNCHANGED <<Content, Status, chunks, Open>>
    PROVE  Mapped
  <1>1. Lifecycle!Delete(d)
    BY DEF Lifecycle!Delete, Content, Status, Deleted, Open
  <1> QED BY <1>1 DEF Mapped, Lifecycle!Next
-----------------------------------------------------------------------------
(* The concrete steps: the open runs and the rows *)

\* A process that keeps its run, or has none, leaves the open runs as they are.
LEMMA OpenKept ==
    ASSUME NEW p \in Procs, OthersStay(p), \A d \in DocIds : RunOpen(p, d)' <=> RunOpen(p, d)
    PROVE  Open' = Open
  <1>1. ASSUME NEW d \in DocIds, NEW q \in Procs PROVE RunOpen(q, d)' <=> RunOpen(q, d)
    <2>1. CASE q = p
      BY <2>1
    <2>2. CASE q # p
      BY <2>2 DEF OthersStay, RunOpen, InRun
    <2> QED BY <2>1, <2>2
  <1>2. \A d \in DocIds : {q \in Procs : RunOpen(q, d)}' = {q \in Procs : RunOpen(q, d)}
    BY <1>1
  <1> QED BY <1>2 DEF Open

\* A process with business in one document only opens or closes that one's run.
LEMMA OpenMoved ==
    ASSUME NEW p \in Procs, OthersStay(p), NEW d \in DocIds,
           \A e \in DocIds \ {d} : ~RunOpen(p, e) /\ ~RunOpen(p, e)'
    PROVE  /\ RunOpen(p, d)' => Open' = [Open EXCEPT ![d] = @ \cup {p}]
           /\ ~RunOpen(p, d)' => Open' = [Open EXCEPT ![d] = @ \ {p}]
  <1>1. ASSUME NEW e \in DocIds, NEW q \in Procs, q # p \/ e # d
        PROVE  RunOpen(q, e)' <=> RunOpen(q, e)
    <2>1. CASE q = p
      BY <1>1, <2>1
    <2>2. CASE q # p
      BY <2>2 DEF OthersStay, RunOpen, InRun
    <2> QED BY <2>1, <2>2
  <1>2. \A e \in DocIds \ {d} : {q \in Procs : RunOpen(q, e)}' = {q \in Procs : RunOpen(q, e)}
    BY <1>1
  <1>3. RunOpen(p, d)' =>
          {q \in Procs : RunOpen(q, d)}' = {q \in Procs : RunOpen(q, d)} \cup {p}
    BY <1>1
  <1>4. ~RunOpen(p, d)' =>
          {q \in Procs : RunOpen(q, d)}' = {q \in Procs : RunOpen(q, d)} \ {p}
    BY <1>1
  <1> QED BY <1>2, <1>3, <1>4 DEF Open

\* Without a write to the documents table a client sees no change of a row.
LEMMA RowsKept ==
    ASSUME UNCHANGED documents
    PROVE  UNCHANGED <<Content, Status, Deleted>>
  BY DEF Content, Status, Deleted, Exists

\* A write to a row that keeps its content changes its status and its mark.
LEMMA RowWritten ==
    ASSUME TypeInv, NEW d \in DocIds, NEW row, Exists(d),
           documents' = [documents EXCEPT ![d] = row],
           row.workspace = documents[d].workspace, row.file = documents[d].file,
           row.status # "absent"
    PROVE  /\ Content' = Content
           /\ Status' = [Status EXCEPT ![d] = row.status]
           /\ Deleted' = [Deleted EXCEPT ![d] = row.deleted]
  <1>1. documents'[d] = row /\ \A e \in DocIds \ {d} : documents'[e] = documents[e]
    BY DEF TypeInv, TypeOK
  <1>2. \A e \in DocIds : /\ Exists(e)' <=> Exists(e)
                          /\ documents'[e].workspace = documents[e].workspace
                          /\ documents'[e].file = documents[e].file
    BY <1>1 DEF Exists
  <1>3. Content' = Content
    BY <1>2 DEF Content
  <1>4. Status' = [Status EXCEPT ![d] = row.status]
    <2>1. documents'[d].status = row.status
          /\ \A e \in DocIds \ {d} : documents'[e].status = documents[e].status
      BY <1>1
    <2> QED BY <2>1 DEF Status
  <1>5. Deleted' = [Deleted EXCEPT ![d] = row.deleted]
    <2>1. documents'[d].deleted = row.deleted
          /\ \A e \in DocIds \ {d} : documents'[e].deleted = documents[e].deleted
      BY <1>1
    <2> QED BY <2>1 DEF Deleted
  <1> QED BY <1>3, <1>4, <1>5
-----------------------------------------------------------------------------
(* The steps *)

\* A process that has no run open opens one, of a row as it is.
LEMMA EnterRunMaps ==
    ASSUME TypeInv, Placed, NEW p \in Procs, NEW d \in DocIds, NEW task,
           pc[p] = "idle", Readable(d), EnterRun(p, d, documents[d], task),
           UNCHANGED <<documents, chunks>>
    PROVE  Mapped
  <1>1. OthersStay(p) /\ pc'[p] = "start" /\ req'[p].doc = d
    BY EnterRunStays
  <1>2. RunOpen(p, d)' /\ \A e \in DocIds \ {d} : ~RunOpen(p, e) /\ ~RunOpen(p, e)'
    BY <1>1 DEF RunOpen, InRun
  <1>3. Open' = [Open EXCEPT ![d] = @ \cup {p}]
    BY <1>1, <1>2, OpenMoved
  <1>4. Content[d] # NULL /\ ~Deleted[d]
    BY ContentThere DEF Readable, Deleted
  <1> QED BY <1>3, <1>4, RowsKept, Opens

\* A process ends without a word about its document.
LEMMA FinishMaps ==
    ASSUME TypeInv, NEW p \in Procs, Finish(p), UNCHANGED <<documents, chunks>>
    PROVE  Mapped
  <1>1. OthersStay(p) /\ \A e \in DocIds : ~RunOpen(p, e)'
    BY FinishStays DEF RunOpen, InRun
  <1>2. CASE \E d \in DocIds : RunOpen(p, d)
    <2>1. PICK d \in DocIds : RunOpen(p, d)
      BY <1>2
    <2>2. \A e \in DocIds \ {d} : ~RunOpen(p, e)
      BY <2>1 DEF RunOpen
    <2>3. Open' = [Open EXCEPT ![d] = @ \ {p}] /\ p \in Open[d]
      BY <1>1, <2>1, <2>2, OpenMoved DEF Open
    <2> QED BY <2>3, RowsKept, Abandons
  <1>3. CASE \A d \in DocIds : ~RunOpen(p, d)
    BY <1>1, <1>3, OpenKept, RowsKept, Stutters
  <1> QED BY <1>2, <1>3

\* A process goes on with its work, or takes up work that opens no run.
LEMMA GoesOnMaps ==
    ASSUME NEW p \in Procs, OthersStay(p), UNCHANGED <<documents, chunks>>,
           \A d \in DocIds : RunOpen(p, d)' <=> RunOpen(p, d)
    PROVE  Mapped
  BY OpenKept, RowsKept, Stutters

\* The INSERT uploads new content: the constraint has compared it with all rows.
LEMMA InsertMaps ==
    ASSUME TypeInv, Placed, NEW p \in Procs, NEW d \in DocIds, CreateDocumentInsert(p, d)
    PROVE  Mapped
  <1> DEFINE w == req[p].workspace
             f == req[p].file
             c == <<w, Checksum[f]>>
  <1>1. /\ pc[p] = "insert" /\ ~Exists(d) /\ SameContent(w, f) = {}
        /\ w \in Workspaces /\ f \in Files /\ UNCHANGED chunks
    BY DEF CreateDocumentInsert, Placed, TypeInv, Referenced, store
  <1>2. /\ documents'[d] = [workspace |-> w, file |-> f, status |-> "queued", error |-> FALSE,
                            chunk_count |-> 0, deleted |-> FALSE]
        /\ \A e \in DocIds \ {d} : documents'[e] = documents[e]
    BY DEF CreateDocumentInsert, TypeInv, TypeOK
  <1>3. OthersStay(p) /\ pc'[p] = "write" /\ req'[p].doc = d
    BY DEF CreateDocumentInsert, OthersStay, Goto, TypeInv, TypeOK
  <1>4. c \in Contents /\ c # NULL
    BY <1>1, ConstantsAssumption DEF Contents
  <1>5. c \notin {Content[e] : e \in DocIds}
    <2> SUFFICES ASSUME NEW e \in DocIds, Content[e] = c PROVE FALSE
      OBVIOUS
    <2>1. Exists(e)
      BY <1>4 DEF Content
    <2>2. documents[e].workspace = w /\ Checksum[documents[e].file] = Checksum[f]
      BY <2>1 DEF Content
    <2> QED BY <1>1, <2>1, <2>2 DEF SameContent
  <1>6. Content[d] = NULL /\ Content' = [Content EXCEPT ![d] = c]
    <2>1. Content[d] = NULL
      BY <1>1 DEF Content
    <2>2. Exists(d)' /\ \A e \in DocIds \ {d} : Exists(e)' <=> Exists(e)
      BY <1>2 DEF Exists
    <2>3. Content'[d] = c /\ \A e \in DocIds \ {d} : Content'[e] = Content[e]
      BY <1>2, <2>2 DEF Content
    <2>4. Content' = [e \in DocIds |-> Content'[e]] /\ Content = [e \in DocIds |-> Content[e]]
      BY DEF Content
    <2> HIDE DEF c
    <2> QED BY <2>1, <2>3, <2>4
  <1>7. Status' = [Status EXCEPT ![d] = "queued"]
    <2>1. documents'[d].status = "queued"
      BY <1>2
    <2>2. \A e \in DocIds \ {d} : documents'[e].status = documents[e].status
      BY <1>2
    <2> QED BY <2>1, <2>2 DEF Status
  <1>8. Deleted' = Deleted
    <2>1. documents'[d].deleted = FALSE /\ documents[d].deleted = FALSE
      BY <1>1, <1>2 DEF TypeInv, TypeOK, Document, Referenced
    <2>2. \A e \in DocIds : documents'[e].deleted = documents[e].deleted
      BY <1>2, <2>1
    <2> QED BY <2>2 DEF Deleted
  <1>9. Open' = [Open EXCEPT ![d] = {p}]
    <2>1. RunOpen(p, d)' /\ \A e \in DocIds \ {d} : ~RunOpen(p, e) /\ ~RunOpen(p, e)'
      BY <1>1, <1>3 DEF RunOpen, InRun
    <2>2. \A q \in Procs : ~RunOpen(q, d)
      BY <1>1 DEF RunOpen, InRun, TypeInv, Referenced
    <2>3. Open[d] = {}
      BY <2>2 DEF Open
    <2> QED BY <1>3, <2>1, <2>3, OpenMoved
  <1> HIDE DEF c
  <1> QED BY <1>1, <1>4, <1>5, <1>6, <1>7, <1>8, <1>9, Uploads

\* The first run is open before and after write_bytes; without ingest_eager it ends there.
LEMMA WriteMaps ==
    ASSUME TypeInv, NEW p \in Procs, CreateDocumentWrite(p)
    PROVE  Mapped
  <1>1. pc[p] = "write" /\ req[p].doc \in DocIds /\ UNCHANGED <<documents, chunks>>
    BY DEF CreateDocumentWrite, TypeInv, Referenced
  <1>2. CASE EnterRun(p, req[p].doc, session[p], FALSE)
    <2>1. OthersStay(p) /\ pc'[p] = "start" /\ req'[p].doc = req[p].doc
      BY <1>1, <1>2, EnterRunStays
    <2>2. \A d \in DocIds : RunOpen(p, d)' <=> RunOpen(p, d)
      BY <1>1, <2>1 DEF RunOpen, InRun
    <2> QED BY <1>1, <2>1, <2>2, GoesOnMaps
  <1>3. CASE Finish(p)
    BY <1>1, <1>3, FinishMaps
  <1> QED BY <1>2, <1>3 DEF CreateDocumentWrite

\* A run begins, or finds PROCESSING in the copy it has loaded and writes nothing.
LEMMA StartMaps ==
    ASSUME TypeInv, NEW p \in Procs, RunIngestionStart(p)
    PROVE  Mapped
  <1> DEFINE d == req[p].doc
             new == [session[p] EXCEPT !.status = "processing", !.error = FALSE]
             row == Flush(documents[d], session[p], new)
  <1>1. /\ d \in DocIds /\ Exists(d) /\ pc[p] = "start"
        /\ documents' = [documents EXCEPT ![d] = row] /\ UNCHANGED chunks
    BY DEF RunIngestionStart, TypeInv, Referenced, store
  <1>2. new.status = "processing" /\ new.deleted = session[p].deleted
    BY DEF TypeInv, TypeOK, Document
  <1>3. /\ row.workspace = documents[d].workspace /\ row.file = documents[d].file
        /\ row.status = IF session[p].status = "processing" THEN documents[d].status
                                                            ELSE "processing"
        /\ row.deleted = documents[d].deleted
    BY <1>2 DEF Flush
  <1>4. OthersStay(p) /\ pc'[p] = "extract" /\ req' = req
    BY DEF RunIngestionStart, Goto, OthersStay, TypeInv, TypeOK
  <1>5. Open' = Open /\ p \in Open[d]
    <2>1. \A e \in DocIds : RunOpen(p, e)' <=> RunOpen(p, e)
      BY <1>1, <1>4 DEF RunOpen, InRun
    <2>2. p \in Open[d]
      BY <1>1 DEF Open, RunOpen, InRun
    <2> QED BY <1>4, <2>1, <2>2, OpenKept
  <1> HIDE DEF d, new, row
  <1>6. /\ Content' = Content
        /\ Status' = [Status EXCEPT ![d] = row.status]
        /\ Deleted' = [Deleted EXCEPT ![d] = row.deleted]
    BY <1>1, <1>3, RowWritten DEF Exists
  <1>7. Deleted' = Deleted /\ (row.status = documents[d].status => Status' = Status)
    BY <1>1, <1>3, <1>6 DEF Deleted, Status
  <1>8. CASE session[p].status = "processing"
    BY <1>1, <1>3, <1>5, <1>6, <1>7, <1>8, Stutters
  <1>9. CASE session[p].status # "processing"
    BY <1>1, <1>3, <1>5, <1>6, <1>7, <1>9, Begins
  <1> QED BY <1>8, <1>9

\* A commit is the verdict, whether its process hears of it or not.
LEMMA CommitMaps ==
    ASSUME TypeInv, Numbered, Fresh, Begun, NEW p \in Procs, NEW d \in DocIds,
           req[p].doc = d, pc[p] = "commit", CommitIndexed(p), OthersStay(p),
           \/ pc'[p] = "idle"
           \/ pc'[p] = "rollback" /\ req' = req
    PROVE  Mapped
  <1> DEFINE new == [session[p] EXCEPT !.status = "indexed", !.error = FALSE,
                                       !.chunk_count = ChunkCount[req[p].file]]
             row == Flush(documents[d], session[p], new)
  <1>1. /\ Exists(d)
        /\ documents' = [documents EXCEPT ![d] = row]
        /\ chunks' = [chunks EXCEPT ![d] = tx[p].run]
    BY DEF CommitIndexed, TypeInv, Referenced
  <1>2. new.status = "indexed" /\ new.deleted = session[p].deleted
    BY DEF TypeInv, TypeOK, Document
  <1>3. session[p].status = "processing" /\ documents[d].status # "queued"
    BY DEF Begun, InRun
  <1>4. /\ row.workspace = documents[d].workspace /\ row.file = documents[d].file
        /\ row.status = "indexed" /\ row.deleted = documents[d].deleted
    BY <1>2, <1>3 DEF Flush
  <1>5. tx[p].run \in 1 .. MaxRuns /\ tx[p].run # chunks[d]
    <2>1. tx[p].run \in 1 .. runs[d] /\ runs[d] <= MaxRuns /\ tx[p].run # chunks[d]
      BY <1>1 DEF Numbered, Fresh, Active
    <2>2. runs[d] \in Nat /\ MaxRuns \in Nat
      BY <1>1, ConstantsAssumption DEF TypeInv, TypeOK
    <2> QED BY <2>1, <2>2
  <1>6. p \in Open[d] /\ Status[d] # "queued"
    BY <1>1, <1>3 DEF Open, RunOpen, InRun, Status
  <1>7. Open' \in {Open, [Open EXCEPT ![d] = @ \ {p}]}
    <2>1. CASE pc'[p] = "idle"
      <3>1. ~RunOpen(p, d)' /\ \A e \in DocIds \ {d} : ~RunOpen(p, e) /\ ~RunOpen(p, e)'
        BY <2>1 DEF RunOpen, InRun
      <3> QED BY <1>1, <3>1, OpenMoved
    <2>2. CASE pc'[p] = "rollback" /\ req' = req
      <3>1. \A e \in DocIds : RunOpen(p, e)' <=> RunOpen(p, e)
        BY <2>2 DEF RunOpen, InRun
      <3> QED BY <3>1, OpenKept
    <2> QED BY <2>1, <2>2
  <1> HIDE DEF new, row
  <1>8. /\ Content' = Content /\ Status' = [Status EXCEPT ![d] = row.status]
        /\ Deleted' = [Deleted EXCEPT ![d] = row.deleted]
    BY <1>1, <1>4, RowWritten DEF Exists
  <1>9. Deleted' = Deleted
    BY <1>1, <1>4, <1>8 DEF Deleted
  <1>10. Status' = [Status EXCEPT ![d] = "indexed"]
    BY <1>4, <1>8
  <1> QED BY <1>1, <1>5, <1>6, <1>7, <1>8, <1>9, <1>10, Indexes

\* The failure is recorded by a run that has begun.
LEMMA RecordMaps ==
    ASSUME TypeInv, Begun, NEW p \in Procs, NEW d \in DocIds, req[p].doc = d,
           RunIngestionRecord(p)
    PROVE  Mapped
  <1> DEFINE row == [documents[d] EXCEPT !.status = "failed", !.error = TRUE, !.chunk_count = 0]
  <1>1. /\ Exists(d) /\ pc[p] = "record" /\ Finish(p)
        /\ documents' = [documents EXCEPT ![d] = row] /\ UNCHANGED chunks
    BY DEF RunIngestionRecord, TypeInv, Referenced, store
  <1>2. /\ row.workspace = documents[d].workspace /\ row.file = documents[d].file
        /\ row.status = "failed" /\ row.deleted = documents[d].deleted
    BY <1>1 DEF TypeInv, TypeOK, Document
  <1>3. documents[d].status # "queued"
    BY <1>1 DEF Begun, InRun
  <1>4. p \in Open[d] /\ Status[d] # "queued"
    BY <1>1, <1>3 DEF Open, RunOpen, InRun, Status
  <1>5. OthersStay(p) /\ pc'[p] = "idle"
    BY <1>1, FinishStays
  <1>6. ~RunOpen(p, d)' /\ \A e \in DocIds \ {d} : ~RunOpen(p, e) /\ ~RunOpen(p, e)'
    BY <1>5 DEF RunOpen, InRun
  <1>7. Open' = [Open EXCEPT ![d] = @ \ {p}]
    BY <1>1, <1>5, <1>6, OpenMoved
  <1> HIDE DEF row
  <1>8. /\ Content' = Content /\ Status' = [Status EXCEPT ![d] = row.status]
        /\ Deleted' = [Deleted EXCEPT ![d] = row.deleted]
    BY <1>1, <1>2, RowWritten DEF Exists
  <1>9. Deleted' = Deleted
    BY <1>1, <1>2, <1>8 DEF Deleted
  <1>10. Status' = [Status EXCEPT ![d] = "failed"]
    BY <1>2, <1>8
  <1> QED BY <1>1, <1>4, <1>7, <1>8, <1>9, <1>10, Fails

\* The mark is set, or has been set in the copy that was loaded.
LEMMA MarkMaps ==
    ASSUME TypeInv, Placed, NEW p \in Procs, DeleteDocumentMark(p)
    PROVE  Mapped
  <1> DEFINE d == req[p].doc
             new == [session[p] EXCEPT !.deleted = TRUE]
             row == Flush(documents[d], session[p], new)
  <1>1. /\ d \in DocIds /\ Exists(d) /\ pc[p] = "mark" /\ Finish(p)
        /\ documents' = [documents EXCEPT ![d] = row] /\ UNCHANGED chunks
    BY DEF DeleteDocumentMark, TypeInv, Referenced, store
  <1>2. new.status = session[p].status /\ new.deleted = TRUE
    BY DEF TypeInv, TypeOK, Document
  <1>3. /\ row.workspace = documents[d].workspace /\ row.file = documents[d].file
        /\ row.status = documents[d].status
        /\ row.deleted = IF session[p].deleted = TRUE THEN documents[d].deleted ELSE TRUE
    BY <1>2 DEF Flush
  <1>4. OthersStay(p) /\ pc'[p] = "idle"
    BY <1>1, FinishStays
  <1>5. \A e \in DocIds : RunOpen(p, e)' <=> RunOpen(p, e)
    BY <1>1, <1>4 DEF RunOpen, InRun
  <1>6. Open' = Open
    BY <1>4, <1>5, OpenKept
  <1> HIDE DEF d, new, row
  <1>7. /\ Content' = Content /\ Status' = [Status EXCEPT ![d] = row.status]
        /\ Deleted' = [Deleted EXCEPT ![d] = row.deleted]
    BY <1>1, <1>3, RowWritten DEF Exists
  <1>8. Status' = Status
    BY <1>1, <1>3, <1>7 DEF Status
  <1>9. CASE session[p].deleted = TRUE
    <2>1. Deleted' = Deleted
      BY <1>1, <1>3, <1>7, <1>9 DEF Deleted
    <2> QED BY <1>1, <1>6, <1>7, <1>8, <2>1, Stutters
  <1>10. CASE session[p].deleted # TRUE
    <2>1. Deleted' = [Deleted EXCEPT ![d] = TRUE]
      BY <1>3, <1>7, <1>10
    <2> QED BY <1>1, <1>6, <1>7, <1>8, <2>1, ContentThere, Deletes
  <1> QED BY <1>9, <1>10

\* Every step is a step of the life cycle, or none of its business.
LEMMA StepMaps == LifeInv /\ [Next]_vars => Mapped
  <1> SUFFICES ASSUME TypeInv, Numbered, Placed, Fresh, Begun, [Next]_vars PROVE Mapped
    BY DEF LifeInv
  <1>1. ASSUME NEW p \in Handlers, Request(p) PROVE Mapped
    <2>1. p \in Procs
      BY DEF Procs
    <2>2. ASSUME NEW w \in Workspaces, NEW f \in Files, CreateDocumentCheck(p, w, f)
          PROVE  Mapped
      <3>1. /\ OthersStay(p) /\ pc[p] = "idle" /\ pc'[p] = "insert"
            /\ UNCHANGED <<documents, chunks>>
        BY <2>1, <2>2 DEF CreateDocumentCheck, Goto, OthersStay, store, TypeInv, TypeOK
      <3>2. \A d \in DocIds : RunOpen(p, d)' <=> RunOpen(p, d)
        BY <3>1 DEF RunOpen, InRun
      <3> QED BY <2>1, <3>1, <3>2, GoesOnMaps
    <2>3. ASSUME NEW d \in DocIds, ReprocessDocument(p, d) PROVE Mapped
      <3>1. /\ pc[p] = "idle" /\ Readable(d) /\ EnterRun(p, d, documents[d], FALSE)
            /\ UNCHANGED <<documents, chunks>>
        BY <2>3 DEF ReprocessDocument, store
      <3> QED BY <2>1, <3>1, EnterRunMaps
    <2>4. ASSUME NEW d \in DocIds, DeleteDocumentStart(p, d) PROVE Mapped
      <3>1. /\ OthersStay(p) /\ pc[p] = "idle" /\ pc'[p] = "unindex"
            /\ UNCHANGED <<documents, chunks>>
        BY <2>1, <2>4 DEF DeleteDocumentStart, Goto, OthersStay, store, TypeInv, TypeOK
      <3>2. \A e \in DocIds : RunOpen(p, e)' <=> RunOpen(p, e)
        BY <3>1 DEF RunOpen, InRun
      <3> QED BY <2>1, <3>1, <3>2, GoesOnMaps
    <2> QED BY <1>1, <2>2, <2>3, <2>4 DEF Request
  <1>2. ASSUME NEW p \in Workers, NEW d \in DocIds, IngestDocument(p, d) PROVE Mapped
    <2>1. /\ pc[p] = "idle" /\ Readable(d) /\ EnterRun(p, d, documents[d], TRUE)
          /\ UNCHANGED <<documents, chunks>> /\ p \in Procs
      BY <1>2 DEF IngestDocument, store, Procs
    <2> QED BY <2>1, EnterRunMaps
  <1>3. ASSUME NEW p \in Procs, CreateDocumentConflict(p) \/ Crash(p) \/ Escape(p)
        PROVE  Mapped
    BY <1>3, FinishMaps DEF CreateDocumentConflict, Crash, Escape, store
  <1>4. ASSUME NEW p \in Procs,
               \/ RunIngestionExtract(p) \/ RunIngestionClear(p) \/ RunIngestionPurge(p)
               \/ RunIngestionAdd(p) \/ RunIngestionIndex(p) \/ RunIngestionRollback(p)
               \/ DeleteDocumentPurge(p)
        PROVE  Mapped
    <2>1. OthersStay(p) /\ UNCHANGED <<documents, chunks, req>>
      BY <1>4 DEF RunIngestionExtract, RunIngestionClear, RunIngestionPurge, RunIngestionAdd,
                  RunIngestionIndex, RunIngestionRollback, DeleteDocumentPurge, Goto, OthersStay,
                  store, TypeInv, TypeOK
    <2>2. \/ InRun(p) /\ InRun(p)'
          \/ pc[p] = "unindex" /\ pc'[p] = "mark"
      BY <1>4 DEF RunIngestionExtract, RunIngestionClear, RunIngestionPurge, RunIngestionAdd,
                  RunIngestionIndex, RunIngestionRollback, DeleteDocumentPurge, Goto, InRun,
                  TypeInv, TypeOK
    <2>3. \A d \in DocIds : RunOpen(p, d)' <=> RunOpen(p, d)
      BY <2>1, <2>2 DEF RunOpen, InRun
    <2> QED BY <2>1, <2>3, GoesOnMaps
  <1>5. ASSUME NEW p \in Procs, RunIngestionCommit(p) \/ RunIngestionRecord(p) PROVE Mapped
    <2>1. req[p].doc \in DocIds
      BY <1>5 DEF RunIngestionCommit, RunIngestionRecord, TypeInv, Referenced
    <2>2. CASE RunIngestionCommit(p)
      BY <2>1, <2>2, FinishStays, CommitMaps DEF RunIngestionCommit
    <2>3. CASE RunIngestionRecord(p)
      BY <2>1, <2>3, RecordMaps
    <2> QED BY <1>5, <2>2, <2>3
  <1>6. ASSUME NEW p \in Procs, Proceed(p) PROVE Mapped
    BY <1>3, <1>4, <1>5, <1>6, InsertMaps, WriteMaps, StartMaps, MarkMaps DEF Proceed
  <1>7. ASSUME NEW p \in Procs, IngestionFault(p) PROVE Mapped
    <2>1. /\ OthersStay(p) /\ UNCHANGED req /\ InRun(p) /\ pc'[p] = "rollback"
      BY <1>7 DEF IngestionFault, Goto, OthersStay, InRun, TypeInv, TypeOK
    <2>2. CASE UNCHANGED <<documents, chunks>>
      <3>1. \A d \in DocIds : RunOpen(p, d)' <=> RunOpen(p, d)
        BY <2>1 DEF RunOpen, InRun
      <3> QED BY <2>1, <2>2, <3>1, GoesOnMaps
    <2>3. CASE pc[p] = "commit" /\ CommitIndexed(p)
      <3>1. req[p].doc \in DocIds
        BY <2>3 DEF TypeInv, Referenced
      <3> QED BY <2>1, <2>3, <3>1, CommitMaps
    <2> QED BY <1>7, <2>2, <2>3 DEF IngestionFault
  <1>8. CASE \/ \E p \in Workers, d \in DocIds : IngestDocumentSkip(p, d)
             \/ \E p \in Procs : RedeliverTask(p)
             \/ \E d \in DocIds : SendTask(d)
             \/ UNCHANGED vars
    <2>1. UNCHANGED <<documents, chunks, pc, req>>
      BY <1>8 DEF IngestDocumentSkip, RedeliverTask, SendTask, vars, store
    <2>2. Open' = Open
      BY <2>1 DEF Open, RunOpen, InRun
    <2> QED BY <2>1, <2>2, RowsKept, Stutters
  <1> QED BY <1>1, <1>2, <1>3, <1>6, <1>7, <1>8 DEF Next, TakeTask

\* The pipeline keeps the promises of the life cycle for every instance: content is
\* in a workspace once, a deletion is final and opens no run, the verdict and the
\* chunk rows are one step, and no run speaks of a document that is still QUEUED.
THEOREM PipelineImplementsLifecycle == Spec => ImplementsLifecycle
  <1>1. Init => Lifecycle!Init
    <2> SUFFICES ASSUME Init PROVE Lifecycle!Init
      OBVIOUS
    <2>1. \A d \in DocIds : ~Exists(d) /\ documents[d] = NoDocument
      BY DEF Init, Exists, NoDocument
    <2>2. \A d \in DocIds : {p \in Procs : RunOpen(p, d)} = {}
      BY DEF Init, RunOpen, InRun
    <2> QED BY <2>1, <2>2 DEF Init, Lifecycle!Init, NoDocument
  <1>2. LifeInv /\ [Next]_vars => [Lifecycle!Next]_(Lifecycle!vars)
    BY StepMaps DEF Mapped
  <1> QED BY <1>1, <1>2, LifeInvariant, PTL DEF Spec, ImplementsLifecycle, Lifecycle!Spec
=============================================================================
