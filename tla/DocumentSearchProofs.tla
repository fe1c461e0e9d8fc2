------------------------ MODULE DocumentSearchProofs ------------------------
(***************************************************************************)
(* When nothing fails and nobody dies, every interleaving of uploads,      *)
(* reprocesses, tasks and deletes leaves an INDEXED document searchable.   *)
(*                                                                         *)
(* The argument: a run commits only what its own purge and its own INSERT  *)
(* have made room for.  A second run can still empty the vector store      *)
(* behind its back, but it then waits at its INSERT until the first has    *)
(* ended, and is refused; so as long as the vectors are wrong, someone is  *)
(* still at work on the document who will mark it FAILED or deleted.       *)
(*                                                                         *)
(* Whatever fails or dies, a document that no two of them have been at     *)
(* work on at once is as a single run or delete leaves it: the one at work *)
(* has an exact copy of its row, and its vectors to itself.                *)
(***************************************************************************)
EXTENDS DocumentHistory, DocumentIngestionProofs

\* A process that has not chosen a document has none; the bytes on disk are of
\* rows that exist; and a row in the middle of its upload has no bytes yet.
Enclosed ==
    /\ \A d \in blobs : Exists(d)
    /\ \A p \in Procs :
        /\ pc[p] \in {"idle", "insert"} => req[p].doc = NULL
        /\ pc[p] = "write" => req[p].doc \notin blobs
    /\ \A p, q \in Procs :
        p # q /\ pc[p] = "write" /\ pc[q] = "write" => req[p].doc # req[q].doc

\* A process that works on no document works on none of them.
LEMMA NullIsNoDocument == NULL \notin DocIds
  BY ConstantsAssumption

\* No step gives an upload's id or bytes to anyone else before write_bytes.
LEMMA EnclosedStep == TypeInv /\ Enclosed /\ [Next]_vars => Enclosed'
  <1> SUFFICES ASSUME TypeInv, Enclosed, [Next]_vars PROVE Enclosed'
    OBVIOUS
  <1>0. \A d \in blobs : Exists(d)'
    BY RowStep DEF RowMoves, Exists, Enclosed, TypeInv, TypeOK
  <1>1. ASSUME NEW p \in Procs, UNCHANGED blobs,
               \A q \in Procs \ {p} : pc'[q] = pc[q] /\ req'[q] = req[q],
               pc'[p] \in {"idle", "insert"} => req'[p].doc = NULL,
               pc'[p] # "write"
        PROVE  Enclosed'
    <2>1. \A d \in blobs' : Exists(d)'
      BY <1>0, <1>1
    <2>2. ASSUME NEW q \in Procs
          PROVE  /\ pc'[q] \in {"idle", "insert"} => req'[q].doc = NULL
                 /\ pc'[q] = "write" => /\ q # p /\ pc[q] = "write" /\ req'[q] = req[q]
                                        /\ req'[q].doc \notin blobs'
      BY <1>1 DEF Enclosed
    <2> QED BY <2>1, <2>2 DEF Enclosed
  <1>2. ASSUME UNCHANGED <<blobs, pc, req>> PROVE Enclosed'
    BY <1>0, <1>2 DEF Enclosed
  <1>3. ASSUME NEW p \in Procs, Finish(p), UNCHANGED blobs PROVE Enclosed'
    BY <1>1, <1>3 DEF Finish, Goto, NoReq, TypeInv, TypeOK
  <1>4. ASSUME NEW p \in Procs, NEW d \in DocIds, NEW row, NEW task,
               EnterRun(p, d, row, task), UNCHANGED blobs
        PROVE  Enclosed'
    BY <1>1, <1>4 DEF EnterRun, Goto, TypeInv, TypeOK
  <1>5. CASE \E p \in Handlers : Request(p)
    <2>1. ASSUME NEW p \in Handlers, NEW w \in Workspaces, NEW f \in Files,
                 CreateDocumentCheck(p, w, f)
          PROVE  Enclosed'
      BY <1>1, <2>1 DEF CreateDocumentCheck, Goto, NoReq, store, Procs, TypeInv, TypeOK
    <2>2. ASSUME NEW p \in Handlers, NEW d \in DocIds, DeleteDocumentStart(p, d)
          PROVE  Enclosed'
      BY <1>1, <2>2 DEF DeleteDocumentStart, Goto, store, Procs, TypeInv, TypeOK
    <2> QED BY <1>4, <1>5, <2>1, <2>2 DEF Request, ReprocessDocument, store, Procs
  <1>6. CASE \E p \in Workers : TakeTask(p)
    BY <1>2, <1>4, <1>6 DEF TakeTask, IngestDocument, IngestDocumentSkip, store, Procs
  <1>7. ASSUME NEW p \in Procs, NEW d \in DocIds, CreateDocumentInsert(p, d) PROVE Enclosed'
    <2>1. /\ pc'[p] = "write" /\ req'[p].doc = d /\ UNCHANGED blobs
          /\ \A q \in Procs \ {p} : pc'[q] = pc[q] /\ req'[q] = req[q]
      BY <1>7 DEF CreateDocumentInsert, Goto, store, TypeInv, TypeOK
    <2>2. ~Exists(d) /\ d \notin blobs
      BY <1>7 DEF CreateDocumentInsert, Enclosed
    <2>3. \A q \in Procs : pc[q] = "write" => req[q].doc # d
      BY <2>2 DEF TypeInv, Referenced
    <2>4. \A e \in blobs' : Exists(e)'
      BY <1>0, <2>1
    <2>5. ASSUME NEW q \in Procs
          PROVE  /\ pc'[q] \in {"idle", "insert"} => req'[q].doc = NULL
                 /\ pc'[q] = "write" => req'[q].doc \notin blobs'
                 /\ pc'[q] = "write" /\ q # p =>
                      pc[q] = "write" /\ req'[q].doc = req[q].doc /\ req[q].doc # d
      BY <2>1, <2>2, <2>3 DEF Enclosed
    <2> QED BY <2>1, <2>4, <2>5 DEF Enclosed
  <1>8. ASSUME NEW p \in Procs, CreateDocumentWrite(p) PROVE Enclosed'
    <2>1. /\ req[p].doc \in DocIds /\ Exists(req[p].doc) /\ pc[p] = "write"
          /\ blobs' = blobs \cup {req[p].doc}
      BY <1>8 DEF CreateDocumentWrite, TypeInv, Referenced
    <2>2. /\ pc'[p] \in {"idle", "start"} /\ (pc'[p] = "idle" => req'[p].doc = NULL)
          /\ \A q \in Procs \ {p} : pc'[q] = pc[q] /\ req'[q] = req[q]
      BY <1>8 DEF CreateDocumentWrite, EnterRun, Finish, Goto, NoReq, TypeInv, TypeOK
    <2>3. \A e \in blobs' : Exists(e)'
      BY <1>0, <2>1, RowStep DEF RowMoves, Exists
    <2>4. ASSUME NEW q \in Procs
          PROVE  /\ pc'[q] \in {"idle", "insert"} => req'[q].doc = NULL
                 /\ pc'[q] = "write" => /\ q # p /\ pc[q] = "write" /\ req'[q] = req[q]
                                        /\ req'[q].doc \notin blobs'
      BY <2>1, <2>2 DEF Enclosed
    <2> QED BY <2>3, <2>4 DEF Enclosed
  <1>9. ASSUME NEW p \in Procs,
               \/ CreateDocumentConflict(p) \/ RunIngestionCommit(p) \/ RunIngestionRecord(p)
               \/ DeleteDocumentMark(p) \/ Crash(p) \/ Escape(p)
        PROVE  Enclosed'
    BY <1>3, <1>9 DEF CreateDocumentConflict, RunIngestionCommit, RunIngestionRecord,
                      DeleteDocumentMark, Crash, Escape, store
  <1>10. ASSUME NEW p \in Procs,
                \/ RunIngestionStart(p) \/ RunIngestionExtract(p) \/ RunIngestionClear(p)
                \/ RunIngestionPurge(p) \/ RunIngestionAdd(p) \/ RunIngestionIndex(p)
                \/ RunIngestionRollback(p) \/ IngestionFault(p) \/ DeleteDocumentPurge(p)
         PROVE  Enclosed'
    <2>1. /\ UNCHANGED <<req, blobs>>
          /\ \A q \in Procs \ {p} : pc'[q] = pc[q]
          /\ pc'[p] \notin {"idle", "insert", "write"}
      BY <1>10 DEF RunIngestionStart, RunIngestionExtract, RunIngestionClear,
                   RunIngestionPurge, RunIngestionAdd, RunIngestionIndex, RunIngestionRollback,
                   IngestionFault, DeleteDocumentPurge, Goto, store, TypeInv, TypeOK
    <2> QED BY <1>1, <2>1
  <1>11. CASE \E p \in Procs : RedeliverTask(p)
    BY <1>2, <1>11 DEF RedeliverTask, store
  <1>12. CASE \E d \in DocIds : SendTask(d)
    BY <1>2, <1>12 DEF SendTask, store
  <1>13. CASE UNCHANGED vars
    BY <1>2, <1>13 DEF vars
  <1> QED
    BY <1>5, <1>6, <1>7, <1>8, <1>9, <1>10, <1>11, <1>12, <1>13 DEF Next, Proceed

\* A row between its INSERT and its write_bytes belongs to its upload alone.
THEOREM EnclosedInvariant == Spec => []Enclosed
  <1>1. Init => Enclosed
    BY DEF Init, Enclosed, NoReq
  <1> QED BY <1>1, EnclosedStep, TypeCorrect, PTL DEF Spec

\* No session holds a copy of a row in which the document is deleted.
LoadedLive == \A p \in Procs : ~session[p].deleted

\* No step puts a deleted row into the session of a process that is at work.
LEMMA LoadedLiveStep == TypeInv /\ LoadedLive /\ [Next]_vars => LoadedLive'
  <1> SUFFICES ASSUME TypeInv, LoadedLive, [Next]_vars PROVE LoadedLive'
    OBVIOUS
  <1>1. ASSUME NEW p \in Procs, NEW row, ~row.deleted, session' = [session EXCEPT ![p] = row]
        PROVE  LoadedLive'
    BY <1>1 DEF LoadedLive, TypeInv, TypeOK
  <1>2. ASSUME UNCHANGED session PROVE LoadedLive'
    BY <1>2 DEF LoadedLive
  <1>3. ~NoDocument.deleted
    BY DEF NoDocument
  <1>4. CASE \E p \in Handlers : Request(p)
    BY <1>1, <1>2, <1>4 DEF Request, CreateDocumentCheck, ReprocessDocument, EnterRun,
                            DeleteDocumentStart, Readable, Procs
  <1>5. CASE \E p \in Workers : TakeTask(p)
    BY <1>1, <1>2, <1>5 DEF TakeTask, IngestDocument, IngestDocumentSkip, EnterRun, Readable,
                            Procs
  <1>6. ASSUME NEW p \in Procs, NEW d \in DocIds, CreateDocumentInsert(p, d) PROVE LoadedLive'
    <2> DEFINE row == [workspace |-> req[p].workspace, file |-> req[p].file,
                       status |-> "queued", error |-> FALSE, chunk_count |-> 0,
                       deleted |-> FALSE]
    <2>1. ~row.deleted /\ session' = [session EXCEPT ![p] = row]
      BY <1>6 DEF CreateDocumentInsert
    <2> HIDE DEF row
    <2> QED BY <1>1, <2>1
  <1>7. ASSUME NEW p \in Procs,
               \/ CreateDocumentConflict(p) \/ RunIngestionCommit(p) \/ RunIngestionRecord(p)
               \/ DeleteDocumentMark(p) \/ Crash(p) \/ Escape(p)
        PROVE  LoadedLive'
    BY <1>1, <1>3, <1>7 DEF CreateDocumentConflict, RunIngestionCommit, RunIngestionRecord,
                            DeleteDocumentMark, Crash, Escape, Finish
  <1>8. ASSUME NEW p \in Procs, CreateDocumentWrite(p) PROVE LoadedLive'
    BY <1>1, <1>3, <1>8 DEF CreateDocumentWrite, EnterRun, Finish, LoadedLive
  <1>9. ASSUME NEW p \in Procs, RunIngestionStart(p) PROVE LoadedLive'
    <2>1. ~[session[p] EXCEPT !.status = "processing", !.error = FALSE].deleted
      BY DEF LoadedLive, TypeInv, TypeOK, Document
    <2> QED BY <1>1, <1>9, <2>1 DEF RunIngestionStart
  <1>10. ASSUME NEW p \in Procs,
                \/ RunIngestionExtract(p) \/ RunIngestionClear(p) \/ RunIngestionPurge(p)
                \/ RunIngestionAdd(p) \/ RunIngestionIndex(p) \/ RunIngestionRollback(p)
                \/ IngestionFault(p) \/ DeleteDocumentPurge(p) \/ RedeliverTask(p)
         PROVE  LoadedLive'
    BY <1>2, <1>10 DEF RunIngestionExtract, RunIngestionClear, RunIngestionPurge,
                       RunIngestionAdd, RunIngestionIndex, RunIngestionRollback,
                       IngestionFault, DeleteDocumentPurge, RedeliverTask
  <1>11. CASE \E d \in DocIds : SendTask(d)
    BY <1>2, <1>11 DEF SendTask
  <1>12. CASE UNCHANGED vars
    BY <1>2, <1>12 DEF vars
  <1> QED
    BY <1>4, <1>5, <1>6, <1>7, <1>8, <1>9, <1>10, <1>11, <1>12 DEF Next, Proceed

\* Every process at work has loaded its row when it was not deleted.
THEOREM LoadedLiveInvariant == Spec => []LoadedLive
  <1>1. Init => LoadedLive
    BY DEF Init, LoadedLive, NoDocument
  <1> QED BY <1>1, LoadedLiveStep, TypeCorrect, PTL DEF Spec
-----------------------------------------------------------------------------
\* What IndexedSearchable says while nothing has failed.
AllSearchable ==
    \A d \in DocIds :
        Quiet(d) /\ Readable(d) /\ documents[d].status = "indexed"
            => vectors[d] = {chunks[d]}

\* A run at its INSERT that will not be refused or kept waiting finds no
\* vectors; so does a run about to index; and a run about to commit finds its
\* own, or someone at work who will not leave the document live and INDEXED.
SearchInv ==
    /\ \A p \in Procs :
        /\ pc[p] = "rollback" => ~tx[p].inserted
        /\ /\ pc[p] = "add"
           /\ chunks[req[p].doc] \in {0, tx[p].cleared}
           /\ \A q \in Procs \ {p} : req[q].doc = req[p].doc => ~tx[q].inserted
           => vectors[req[p].doc] = {}
        /\ pc[p] = "index" => vectors[req[p].doc] = {}
        /\ pc[p] = "commit" =>
             \/ vectors[req[p].doc] = {tx[p].run}
             \/ documents[req[p].doc].deleted
             \/ \E q \in Procs \ {p} : req[q].doc = req[p].doc /\ pc[q] \in {"add", "mark"}
    /\ AllSearchable

\* A step outside the part of a run that writes keeps this, if it leaves no
\* document that was being worked on live, INDEXED and without its vectors.
LEMMA SearchKept ==
    ASSUME TypeInv, SearchInv, NEW p \in Procs,
           UNCHANGED <<chunks, vectors>>,
           \A q \in Procs \ {p} : pc'[q] = pc[q] /\ req'[q] = req[q] /\ tx'[q] = tx[q],
           ~tx[p].inserted, ~tx'[p].inserted,
           pc'[p] \notin {"add", "index", "commit"},
           \A d \in DocIds : documents[d].deleted => documents'[d].deleted,
           pc[p] = "mark" => documents'[req[p].doc].deleted,
           pc[p] = "add" => \A q \in Procs \ {p} : req[q].doc = req[p].doc => pc[q] # "commit",
           \A d \in DocIds :
             Quiet(d)' /\ Readable(d)' /\ documents'[d].status = "indexed" =>
               \/ Quiet(d) /\ Readable(d) /\ documents[d].status = "indexed"
               \/ vectors[d] = {chunks[d]}
    PROVE  SearchInv'
  <1>1. ASSUME NEW q \in Procs, pc'[q] \in {"rollback", "add", "index", "commit"}
        PROVE  /\ pc'[q] = "rollback" => ~tx'[q].inserted
               /\ q # p => pc'[q] = pc[q] /\ req'[q] = req[q] /\ tx'[q] = tx[q]
               /\ q = p => pc'[q] = "rollback"
    BY <1>1 DEF SearchInv
  <1>2. ASSUME NEW q \in Procs, pc'[q] = "add",
               chunks'[req'[q].doc] \in {0, tx'[q].cleared},
               \A r \in Procs \ {q} : req'[r].doc = req'[q].doc => ~tx'[r].inserted
        PROVE  vectors'[req'[q].doc] = {}
    <2>1. q # p /\ pc[q] = "add" /\ req'[q] = req[q] /\ tx'[q] = tx[q]
      BY <1>1, <1>2
    <2>2. \A r \in Procs \ {q} : req[r].doc = req[q].doc => ~tx[r].inserted
      BY <1>2, <2>1
    <2> QED BY <1>2, <2>1, <2>2 DEF SearchInv
  <1>3. ASSUME NEW q \in Procs, pc'[q] = "index" PROVE vectors'[req'[q].doc] = {}
    <2>1. q # p /\ pc[q] = "index" /\ req'[q] = req[q]
      BY <1>1, <1>3
    <2> QED BY <2>1 DEF SearchInv
  <1>4. ASSUME NEW q \in Procs, pc'[q] = "commit"
        PROVE  \/ vectors'[req'[q].doc] = {tx'[q].run}
               \/ documents'[req'[q].doc].deleted
               \/ \E r \in Procs \ {q} : req'[r].doc = req'[q].doc /\ pc'[r] \in {"add", "mark"}
    <2>1. q # p /\ pc[q] = "commit" /\ req'[q] = req[q] /\ tx'[q] = tx[q]
      BY <1>1, <1>4
    <2>2. req[q].doc \in DocIds
      BY <2>1 DEF TypeInv, Referenced
    <2>3. CASE vectors[req[q].doc] = {tx[q].run} \/ documents[req[q].doc].deleted
      BY <2>1, <2>2, <2>3
    <2>4. ASSUME NEW r \in Procs \ {q}, req[r].doc = req[q].doc, pc[r] \in {"add", "mark"}
          PROVE  \/ documents'[req'[q].doc].deleted
                 \/ req'[r].doc = req'[q].doc /\ pc'[r] \in {"add", "mark"}
      BY <2>1, <2>4
    <2> QED BY <2>1, <2>3, <2>4 DEF SearchInv
  <1>5. AllSearchable'
    BY DEF SearchInv, AllSearchable
  <1> QED BY <1>1, <1>2, <1>3, <1>4, <1>5 DEF SearchInv

\* Every step that is not a failure keeps the invariant.
LEMMA SearchStep ==
    ASSUME NothingFailed', TypeInv, Bytes, Locks, Numbered, Enclosed, LoadedLive,
           SearchInv, [Next]_vars
    PROVE  SearchInv'
  <1> DEFINE SomeNowSearched(e) ==
               Quiet(e)' /\ Readable(e)' /\ documents'[e].status = "indexed"
             Searched(e) ==
               Quiet(e) /\ Readable(e) /\ documents[e].status = "indexed"
  <1>0. /\ \A d \in DocIds : documents[d].deleted => documents'[d].deleted
        /\ \A p \in Procs : tx[p].inserted => pc[p] \in {"index", "commit"}
    <2>1. ASSUME NEW d \in DocIds, documents[d].deleted PROVE documents'[d].deleted
      <3>1. Exists(d)
        BY <2>1 DEF TypeInv, Referenced
      <3> QED BY <2>1, <3>1, RowStep DEF RowMoves
    <2> QED BY <2>1 DEF Locks, SearchInv
  <1>1. ASSUME NEW p \in Procs, UNCHANGED <<documents, chunks, vectors>>,
               \A q \in Procs \ {p} : pc'[q] = pc[q] /\ req'[q] = req[q] /\ tx'[q] = tx[q],
               pc[p] \notin {"add", "mark", "index", "commit"}, ~tx'[p].inserted,
               pc'[p] \notin {"add", "index", "commit"},
               req[p].doc \in DocIds => req'[p].doc = req[p].doc
        PROVE  SearchInv'
    <2>1. \A d \in DocIds : SomeNowSearched(d) => Searched(d)
      BY <1>1 DEF Quiet, Readable, Exists
    <2>2. ~tx[p].inserted
      BY <1>0, <1>1
    <2> QED BY <1>0, <1>1, <2>1, <2>2, SearchKept
  <1>2. ASSUME UNCHANGED <<documents, chunks, vectors, pc, req, tx>> PROVE SearchInv'
    BY <1>2 DEF SearchInv, AllSearchable, Quiet, Readable, Exists
  <1>3. CASE \E p \in Handlers : Request(p)
    <2>1. ASSUME NEW p \in Handlers, NEW w \in Workspaces, NEW f \in Files,
                 CreateDocumentCheck(p, w, f)
          PROVE  SearchInv'
      <3>1. /\ p \in Procs /\ req[p].doc = NULL /\ ~tx[p].inserted /\ pc[p] = "idle"
            /\ UNCHANGED <<documents, chunks, vectors, tx>> /\ pc'[p] = "insert"
            /\ \A q \in Procs \ {p} : pc'[q] = pc[q] /\ req'[q] = req[q]
        BY <1>0, <2>1 DEF CreateDocumentCheck, Goto, store, Enclosed, Procs, TypeInv, TypeOK
      <3> QED BY <1>1, <3>1, NullIsNoDocument
    <2>2. ASSUME NEW p \in Handlers, NEW d \in DocIds, DeleteDocumentStart(p, d)
          PROVE  SearchInv'
      <3>1. /\ p \in Procs /\ req[p].doc = NULL /\ ~tx[p].inserted /\ pc[p] = "idle"
            /\ UNCHANGED <<documents, chunks, vectors, tx>> /\ pc'[p] = "unindex"
            /\ \A q \in Procs \ {p} : pc'[q] = pc[q] /\ req'[q] = req[q]
        BY <1>0, <2>2 DEF DeleteDocumentStart, Goto, store, Enclosed, Procs, TypeInv, TypeOK
      <3> QED BY <1>1, <3>1, NullIsNoDocument
    <2>3. ASSUME NEW p \in Handlers, NEW d \in DocIds, ReprocessDocument(p, d)
          PROVE  SearchInv'
      <3>1. /\ p \in Procs /\ req[p].doc = NULL /\ pc[p] = "idle"
            /\ UNCHANGED <<documents, chunks, vectors>>
        BY <2>3 DEF ReprocessDocument, store, Enclosed, Procs
      <3>2. /\ pc'[p] = "start" /\ ~tx'[p].inserted
            /\ \A q \in Procs \ {p} : pc'[q] = pc[q] /\ req'[q] = req[q] /\ tx'[q] = tx[q]
        BY <2>3 DEF ReprocessDocument, EnterRun, Goto, NoTx, Procs, TypeInv, TypeOK
      <3> QED BY <1>1, <3>1, <3>2, NullIsNoDocument
    <2> QED BY <1>3, <2>1, <2>2, <2>3 DEF Request
  <1>4. CASE \E p \in Workers : TakeTask(p)
    <2>1. ASSUME NEW p \in Workers, NEW d \in DocIds, IngestDocument(p, d)
          PROVE  SearchInv'
      <3>1. /\ p \in Procs /\ req[p].doc = NULL /\ pc[p] = "idle"
            /\ UNCHANGED <<documents, chunks, vectors>>
        BY <2>1 DEF IngestDocument, store, Enclosed, Procs
      <3>2. /\ pc'[p] = "start" /\ ~tx'[p].inserted
            /\ \A q \in Procs \ {p} : pc'[q] = pc[q] /\ req'[q] = req[q] /\ tx'[q] = tx[q]
        BY <2>1 DEF IngestDocument, EnterRun, Goto, NoTx, Procs, TypeInv, TypeOK
      <3> QED BY <1>1, <3>1, <3>2, NullIsNoDocument
    <2>2. ASSUME NEW p \in Workers, NEW d \in DocIds, IngestDocumentSkip(p, d)
          PROVE  SearchInv'
      BY <1>2, <2>2 DEF IngestDocumentSkip, store
    <2> QED BY <1>4, <2>1, <2>2 DEF TakeTask
  <1>5. ASSUME NEW p \in Procs, NEW d \in DocIds, CreateDocumentInsert(p, d) PROVE SearchInv'
    <2>1. /\ pc[p] = "insert" /\ pc'[p] = "write" /\ req[p].doc = NULL /\ req'[p].doc = d
          /\ UNCHANGED <<chunks, vectors, tx>> /\ ~tx[p].inserted
          /\ \A q \in Procs \ {p} : pc'[q] = pc[q] /\ req'[q] = req[q]
          /\ documents'[d].status = "queued"
          /\ \A e \in DocIds \ {d} : documents'[e] = documents[e]
      BY <1>0, <1>5 DEF CreateDocumentInsert, Goto, store, Enclosed, TypeInv, TypeOK
    <2>2. \A e \in DocIds : SomeNowSearched(e) => Searched(e)
      BY <2>1, NullIsNoDocument DEF Quiet, Readable, Exists
    <2> QED BY <1>0, <2>1, <2>2, SearchKept
  <1>6. ASSUME NEW p \in Procs, CreateDocumentConflict(p) PROVE SearchInv'
    <2>1. /\ req[p].doc = NULL /\ pc[p] = "insert" /\ pc'[p] = "idle" /\ ~tx'[p].inserted
          /\ UNCHANGED <<documents, chunks, vectors>>
          /\ \A q \in Procs \ {p} : pc'[q] = pc[q] /\ req'[q] = req[q] /\ tx'[q] = tx[q]
      BY <1>6 DEF CreateDocumentConflict, Finish, Goto, NoTx, store, Enclosed, TypeInv, TypeOK
    <2> QED BY <1>1, <2>1, NullIsNoDocument
  <1>7. ASSUME NEW p \in Procs, CreateDocumentWrite(p) PROVE SearchInv'
    <2> DEFINE d == req[p].doc
    <2>1. /\ pc[p] = "write" /\ d \in DocIds /\ Exists(d) /\ ~tx[p].inserted
          /\ UNCHANGED <<documents, chunks, vectors>>
      BY <1>0, <1>7 DEF CreateDocumentWrite, TypeInv, Referenced
    <2>2. /\ pc'[p] \in {"idle", "start"} /\ ~tx'[p].inserted
          /\ \A q \in Procs \ {p} : pc'[q] = pc[q] /\ req'[q] = req[q] /\ tx'[q] = tx[q]
      <3>0. /\ pc = [q \in Procs |-> pc[q]] /\ req = [q \in Procs |-> req[q]]
            /\ tx = [q \in Procs |-> tx[q]]
        BY DEF TypeInv, TypeOK
      <3>1. CASE IngestEager
        <4>1. \E r, n : /\ pc' = [pc EXCEPT ![p] = "start"] /\ req' = [req EXCEPT ![p] = r]
                        /\ tx' = [tx EXCEPT ![p] = [NoTx EXCEPT !.run = n]]
          BY <1>7, <3>1 DEF CreateDocumentWrite, EnterRun, Goto
        <4> QED BY <3>0, <4>1 DEF NoTx
      <3>2. CASE ~IngestEager
        <4>1. /\ pc' = [pc EXCEPT ![p] = "idle"] /\ req' = [req EXCEPT ![p] = NoReq]
              /\ tx' = [tx EXCEPT ![p] = NoTx]
          BY <1>7, <3>2 DEF CreateDocumentWrite, Finish, Goto
        <4> QED BY <3>0, <4>1 DEF NoTx
      <3> QED BY <3>1, <3>2
    <2>3. documents[d].status # "indexed"
      BY <2>1 DEF Enclosed, Bytes, ReplayableBytes
    <2>4. \A e \in DocIds : SomeNowSearched(e) => Searched(e)
      BY <2>1, <2>2, <2>3 DEF Quiet, Readable, Exists
    <2> QED BY <1>0, <2>1, <2>2, <2>4, SearchKept
  <1>8. ASSUME NEW p \in Procs, RunIngestionStart(p) PROVE SearchInv'
    <2> DEFINE d == req[p].doc
    <2>1. /\ pc[p] = "start" /\ pc'[p] = "extract" /\ d \in DocIds
          /\ UNCHANGED <<chunks, vectors, req, tx>> /\ ~tx[p].inserted
          /\ \A q \in Procs \ {p} : pc'[q] = pc[q]
          /\ \A e \in DocIds \ {d} : documents'[e] = documents[e]
      BY <1>0, <1>8 DEF RunIngestionStart, Goto, store, TypeInv, TypeOK, Referenced
    <2>2. \A e \in DocIds : SomeNowSearched(e) => Searched(e)
      BY <2>1 DEF Quiet, Readable, Exists
    <2> QED BY <1>0, <2>1, <2>2, SearchKept
  <1>9. ASSUME NEW p \in Procs,
               \/ RunIngestionExtract(p) \/ RunIngestionClear(p) \/ RunIngestionRollback(p)
        PROVE  SearchInv'
    <2>1. /\ pc[p] \in {"extract", "clear", "rollback"}
          /\ pc'[p] \in {"rollback", "clear", "purge", "record"}
          /\ UNCHANGED <<documents, chunks, vectors, req>>
          /\ \A q \in Procs \ {p} : pc'[q] = pc[q] /\ tx'[q] = tx[q]
      BY <1>9 DEF RunIngestionExtract, RunIngestionClear, RunIngestionRollback, Goto, store,
                  TypeInv, TypeOK
    <2>2. ~tx'[p].inserted
      <3>1. CASE RunIngestionExtract(p)
        BY <1>0, <3>1 DEF RunIngestionExtract, TypeInv, TypeOK
      <3>2. CASE RunIngestionClear(p)
        BY <1>0, <3>2 DEF RunIngestionClear, TypeInv, TypeOK
      <3>3. CASE RunIngestionRollback(p)
        BY <3>3 DEF RunIngestionRollback, NoTx, TypeInv, TypeOK
      <3> QED BY <1>9, <3>1, <3>2, <3>3
    <2> QED BY <1>1, <2>1, <2>2
  <1>10. ASSUME NEW p \in Procs, RunIngestionPurge(p) PROVE SearchInv'
    <2> DEFINE d == req[p].doc
    <2>1. /\ pc'[p] = "add" /\ pc[p] = "purge" /\ d \in DocIds
          /\ UNCHANGED <<documents, chunks, req, tx>>
          /\ \A q \in Procs \ {p} : pc'[q] = pc[q]
          /\ vectors'[d] = {} /\ \A e \in DocIds \ {d} : vectors'[e] = vectors[e]
      BY <1>10 DEF RunIngestionPurge, Goto, TypeInv, TypeOK, Referenced
    <2>2. \A q \in Procs : pc[q] \in {"add", "index", "commit"} => req[q].doc \in DocIds
      BY DEF TypeInv, Referenced
    <2>3. AllSearchable'
      BY <2>1 DEF SearchInv, AllSearchable, Quiet, Readable, Exists
    <2>4. ASSUME NEW q \in Procs, pc'[q] = "commit"
          PROVE  \/ vectors'[req'[q].doc] = {tx'[q].run}
                 \/ documents'[req'[q].doc].deleted
                 \/ \E r \in Procs \ {q} : req'[r].doc = req'[q].doc /\ pc'[r] \in {"add", "mark"}
      <3>1. q # p /\ pc[q] = "commit"
        BY <2>1, <2>4
      <3>2. CASE req[q].doc = d
        BY <2>1, <3>1, <3>2
      <3>3. CASE req[q].doc # d
        <4>1. vectors'[req'[q].doc] = vectors[req[q].doc]
          BY <2>1, <2>2, <3>1, <3>3
        <4> QED BY <2>1, <3>1, <3>3, <4>1 DEF SearchInv
      <3> QED BY <3>2, <3>3
    <2>5. ASSUME NEW q \in Procs
          PROVE  /\ pc'[q] = "rollback" => ~tx'[q].inserted
                 /\ /\ pc'[q] = "add"
                    /\ chunks'[req'[q].doc] \in {0, tx'[q].cleared}
                    /\ \A r \in Procs \ {q} : req'[r].doc = req'[q].doc => ~tx'[r].inserted
                    => vectors'[req'[q].doc] = {}
                 /\ pc'[q] = "index" => vectors'[req'[q].doc] = {}
      BY <2>1, <2>2 DEF SearchInv
    <2> QED BY <2>3, <2>4, <2>5 DEF SearchInv
  <1>11. ASSUME NEW p \in Procs, RunIngestionAdd(p) PROVE SearchInv'
    <2> DEFINE d == req[p].doc
    <2>1. /\ pc[p] = "add" /\ d \in DocIds /\ ~tx[p].inserted
          /\ UNCHANGED <<documents, chunks, vectors, req>>
          /\ \A q \in Procs \ {p} : req[q].doc = d => ~tx[q].inserted /\ pc[q] # "commit"
      BY <1>0, <1>11 DEF RunIngestionAdd, InsertedByOther, store, Locks, TypeInv, Referenced
    <2>2. CASE Goto(p, "rollback") /\ UNCHANGED tx
      <3>1. pc'[p] = "rollback" /\ \A q \in Procs \ {p} : pc'[q] = pc[q]
        BY <2>2 DEF Goto, TypeInv, TypeOK
      <3>2. \A e \in DocIds : SomeNowSearched(e) => Searched(e)
        BY <2>1 DEF Quiet, Readable, Exists
      <3> QED BY <1>0, <2>1, <2>2, <3>1, <3>2, SearchKept
    <2>3. CASE /\ chunks[d] \in {0, tx[p].cleared}
               /\ Goto(p, "index") /\ tx' = [tx EXCEPT ![p] = [@ EXCEPT !.inserted = TRUE]]
      <3>1. /\ pc'[p] = "index" /\ tx'[p].inserted
            /\ \A q \in Procs \ {p} : tx'[q] = tx[q] /\ pc'[q] = pc[q]
        BY <2>3 DEF Goto, TypeInv, TypeOK
      <3>2. vectors[d] = {}
        BY <2>1, <2>3 DEF SearchInv
      <3>3. AllSearchable'
        BY <2>1 DEF SearchInv, AllSearchable, Quiet, Readable, Exists
      <3>4. ASSUME NEW q \in Procs \ {p}, pc'[q] = "add",
                   chunks'[req'[q].doc] \in {0, tx'[q].cleared},
                   \A r \in Procs \ {q} : req'[r].doc = req'[q].doc => ~tx'[r].inserted
            PROVE  vectors'[req'[q].doc] = {}
        <4>1. req[q].doc # d
          BY <2>1, <3>1, <3>4
        <4>2. \A r \in Procs \ {q} : req[r].doc = req[q].doc => ~tx[r].inserted
          BY <2>1, <3>1, <3>4, <4>1
        <4> QED BY <2>1, <3>1, <3>4, <4>2 DEF SearchInv
      <3>5. ASSUME NEW q \in Procs \ {p}, pc'[q] = "commit"
            PROVE  \/ vectors'[req'[q].doc] = {tx'[q].run}
                   \/ documents'[req'[q].doc].deleted
                   \/ \E r \in Procs \ {q} : /\ req'[r].doc = req'[q].doc
                                             /\ pc'[r] \in {"add", "mark"}
        <4>1. req[q].doc # d /\ pc[q] = "commit"
          BY <2>1, <3>1, <3>5
        <4> QED BY <2>1, <3>1, <4>1 DEF SearchInv
      <3> QED BY <2>1, <3>1, <3>2, <3>3, <3>4, <3>5 DEF SearchInv
    <2> QED BY <1>11, <2>2, <2>3 DEF RunIngestionAdd
  <1>12. ASSUME NEW p \in Procs, RunIngestionIndex(p) PROVE SearchInv'
    <2> DEFINE d == req[p].doc
    <2>1. /\ pc[p] = "index" /\ pc'[p] = "commit" /\ d \in DocIds /\ tx[p].inserted
          /\ UNCHANGED <<documents, chunks, req, tx>>
          /\ \A q \in Procs \ {p} : pc'[q] = pc[q]
          /\ \A e \in DocIds \ {d} : vectors'[e] = vectors[e]
      BY <1>12 DEF RunIngestionIndex, Goto, Locks, TypeInv, TypeOK, Referenced
    <2>2. vectors'[d] = {tx[p].run}
      <3>1. vectors[d] = {}
        BY <2>1 DEF SearchInv
      <3> QED BY <1>12, <2>1, <3>1 DEF RunIngestionIndex, TypeInv, TypeOK
    <2>3. \A q \in Procs \ {p} : req[q].doc = d => ~tx[q].inserted /\ pc[q] \notin {"index", "commit"}
      BY <2>1 DEF Locks
    <2>4. \A q \in Procs : pc[q] \in {"add", "index", "commit"} => req[q].doc \in DocIds
      BY DEF TypeInv, Referenced
    <2>5. AllSearchable'
      BY <2>1 DEF SearchInv, AllSearchable, Quiet, Readable, Exists
    <2>6. ASSUME NEW q \in Procs \ {p}
          PROVE  /\ pc'[q] = "rollback" => ~tx'[q].inserted
                 /\ /\ pc'[q] = "add"
                    /\ chunks'[req'[q].doc] \in {0, tx'[q].cleared}
                    /\ \A r \in Procs \ {q} : req'[r].doc = req'[q].doc => ~tx'[r].inserted
                    => vectors'[req'[q].doc] = {}
                 /\ pc'[q] = "index" => vectors'[req'[q].doc] = {}
      BY <2>1, <2>3, <2>4 DEF SearchInv
    <2>7. ASSUME NEW q \in Procs \ {p}, pc'[q] = "commit"
          PROVE  \/ vectors'[req'[q].doc] = {tx'[q].run}
                 \/ documents'[req'[q].doc].deleted
                 \/ \E r \in Procs \ {q} : req'[r].doc = req'[q].doc /\ pc'[r] \in {"add", "mark"}
      <3>1. pc[q] = "commit" /\ vectors'[req'[q].doc] = vectors[req[q].doc]
        BY <2>1, <2>3, <2>4, <2>7
      <3> QED BY <2>1, <3>1 DEF SearchInv
    <2> QED BY <2>1, <2>2, <2>5, <2>6, <2>7 DEF SearchInv
  <1>13. ASSUME NEW p \in Procs, RunIngestionCommit(p) PROVE SearchInv'
    <2> DEFINE d == req[p].doc
    <2>1. /\ pc[p] = "commit" /\ pc'[p] = "idle" /\ d \in DocIds /\ tx[p].inserted
          /\ tx[p].run # 0 /\ ~tx'[p].inserted /\ UNCHANGED vectors
          /\ \A q \in Procs \ {p} : pc'[q] = pc[q] /\ req'[q] = req[q] /\ tx'[q] = tx[q]
      <3>1. pc[p] = "commit" /\ d \in DocIds /\ tx[p].inserted /\ UNCHANGED vectors
        BY <1>13 DEF RunIngestionCommit, Locks, TypeInv, Referenced
      <3>2. tx[p].run # 0
        BY <3>1 DEF Numbered, TypeInv, TypeOK
      <3>3. /\ pc'[p] = "idle" /\ ~tx'[p].inserted
            /\ \A q \in Procs \ {p} : pc'[q] = pc[q] /\ req'[q] = req[q] /\ tx'[q] = tx[q]
        BY <1>13 DEF RunIngestionCommit, Finish, Goto, NoTx, TypeInv, TypeOK
      <3> QED BY <3>1, <3>2, <3>3
    <2>2. /\ chunks'[d] = tx[p].run
          /\ \A e \in DocIds \ {d} : chunks'[e] = chunks[e] /\ documents'[e] = documents[e]
      BY <1>13, <2>1 DEF RunIngestionCommit, CommitIndexed, TypeInv, TypeOK
    <2>3. \A q \in Procs \ {p} : req[q].doc = d => /\ ~tx[q].inserted /\ tx[q].cleared = 0
                                                   /\ pc[q] \notin {"index", "commit"}
      BY <2>1 DEF Locks
    <2>4. \A q \in Procs : pc[q] \in {"add", "index", "commit"} => req[q].doc \in DocIds
      BY DEF TypeInv, Referenced
    <2>5. ASSUME NEW e \in DocIds, SomeNowSearched(e) PROVE vectors'[e] = {chunks'[e]}
      <3>1. CASE e = d
        <4>1. ~documents[d].deleted
          BY <1>0, <2>5, <3>1 DEF Readable
        <4>2. \A q \in Procs \ {p} : req[q].doc # d
          BY <2>1, <2>5, <3>1 DEF Quiet
        <4> QED BY <2>1, <2>2, <3>1, <4>1, <4>2 DEF SearchInv
      <3>2. CASE e # d
        <4>1. Searched(e)
          BY <2>1, <2>2, <2>5, <3>2 DEF Quiet, Readable, Exists
        <4> QED BY <2>1, <2>2, <3>2, <4>1 DEF SearchInv, AllSearchable
      <3> QED BY <3>1, <3>2
    <2>6. AllSearchable'
      BY <2>5 DEF AllSearchable
    <2>7. ASSUME NEW q \in Procs \ {p}, pc'[q] = "add",
                 chunks'[req'[q].doc] \in {0, tx'[q].cleared},
                 \A r \in Procs \ {q} : req'[r].doc = req'[q].doc => ~tx'[r].inserted
          PROVE  vectors'[req'[q].doc] = {}
      <3>1. pc[q] = "add" /\ req[q].doc # d /\ req[q].doc \in DocIds
        BY <2>1, <2>2, <2>3, <2>4, <2>7
      <3>2. \A r \in Procs \ {q} : req[r].doc = req[q].doc => ~tx[r].inserted
        BY <2>1, <2>7, <3>1
      <3> QED BY <2>1, <2>2, <2>7, <3>1, <3>2 DEF SearchInv
    <2>8. ASSUME NEW q \in Procs \ {p}, pc'[q] = "commit"
          PROVE  \/ vectors'[req'[q].doc] = {tx'[q].run}
                 \/ documents'[req'[q].doc].deleted
                 \/ \E r \in Procs \ {q} : req'[r].doc = req'[q].doc /\ pc'[r] \in {"add", "mark"}
      <3>1. pc[q] = "commit" /\ req[q].doc \in DocIds \ {d}
        BY <2>1, <2>3, <2>4, <2>8
      <3>2. \A r \in Procs : req[r].doc = req[q].doc => r # p
        BY <3>1
      <3> QED BY <2>1, <2>2, <3>1, <3>2 DEF SearchInv
    <2>9. ASSUME NEW q \in Procs \ {p}
          PROVE  /\ pc'[q] = "rollback" => ~tx'[q].inserted
                 /\ pc'[q] = "index" => vectors'[req'[q].doc] = {}
      BY <2>1 DEF SearchInv
    <2> QED BY <2>1, <2>6, <2>7, <2>8, <2>9 DEF SearchInv
  <1>14. ASSUME NEW p \in Procs, RunIngestionRecord(p) PROVE SearchInv'
    <2> DEFINE d == req[p].doc
    <2>1. /\ pc[p] = "record" /\ pc'[p] = "idle" /\ d \in DocIds
          /\ ~tx[p].inserted /\ ~tx'[p].inserted /\ UNCHANGED <<chunks, vectors>>
          /\ \A q \in Procs \ {p} : pc'[q] = pc[q] /\ req'[q] = req[q] /\ tx'[q] = tx[q]
      BY <1>0, <1>14 DEF RunIngestionRecord, Finish, Goto, NoTx, store, TypeInv, TypeOK,
                         Referenced
    <2>2. /\ documents'[d].status = "failed"
          /\ \A e \in DocIds \ {d} : documents'[e] = documents[e]
      BY <1>14, <2>1 DEF RunIngestionRecord, TypeInv, TypeOK, Document
    <2>3. \A e \in DocIds : SomeNowSearched(e) => Searched(e)
      BY <2>1, <2>2 DEF Quiet, Readable, Exists
    <2> QED BY <1>0, <2>1, <2>3, SearchKept
  <1>15. ASSUME NEW p \in Procs, DeleteDocumentPurge(p) PROVE SearchInv'
    <2> DEFINE d == req[p].doc
    <2>1. /\ pc'[p] = "mark" /\ pc[p] = "unindex" /\ d \in DocIds
          /\ UNCHANGED <<documents, chunks, req, tx>>
          /\ \A q \in Procs \ {p} : pc'[q] = pc[q]
          /\ vectors'[d] = {} /\ \A e \in DocIds \ {d} : vectors'[e] = vectors[e]
      BY <1>15 DEF DeleteDocumentPurge, Goto, TypeInv, TypeOK, Referenced
    <2>2. \A q \in Procs : pc[q] \in {"add", "index", "commit"} => req[q].doc \in DocIds
      BY DEF TypeInv, Referenced
    <2>3. AllSearchable'
      BY <2>1 DEF SearchInv, AllSearchable, Quiet, Readable, Exists
    <2>4. ASSUME NEW q \in Procs, pc'[q] = "commit"
          PROVE  \/ vectors'[req'[q].doc] = {tx'[q].run}
                 \/ documents'[req'[q].doc].deleted
                 \/ \E r \in Procs \ {q} : req'[r].doc = req'[q].doc /\ pc'[r] \in {"add", "mark"}
      <3>1. q # p /\ pc[q] = "commit"
        BY <2>1, <2>4
      <3>2. CASE req[q].doc = d
        BY <2>1, <3>1, <3>2
      <3>3. CASE req[q].doc # d
        <4>1. vectors'[req'[q].doc] = vectors[req[q].doc]
          BY <2>1, <2>2, <3>1, <3>3
        <4> QED BY <2>1, <3>1, <3>3, <4>1 DEF SearchInv
      <3> QED BY <3>2, <3>3
    <2>5. ASSUME NEW q \in Procs
          PROVE  /\ pc'[q] = "rollback" => ~tx'[q].inserted
                 /\ /\ pc'[q] = "add"
                    /\ chunks'[req'[q].doc] \in {0, tx'[q].cleared}
                    /\ \A r \in Procs \ {q} : req'[r].doc = req'[q].doc => ~tx'[r].inserted
                    => vectors'[req'[q].doc] = {}
                 /\ pc'[q] = "index" => vectors'[req'[q].doc] = {}
      BY <2>1, <2>2 DEF SearchInv
    <2> QED BY <2>3, <2>4, <2>5 DEF SearchInv
  <1>16. ASSUME NEW p \in Procs, DeleteDocumentMark(p) PROVE SearchInv'
    <2> DEFINE d == req[p].doc
    <2>1. /\ pc[p] = "mark" /\ pc'[p] = "idle" /\ d \in DocIds
          /\ ~tx[p].inserted /\ ~tx'[p].inserted /\ UNCHANGED <<chunks, vectors>>
          /\ \A q \in Procs \ {p} : pc'[q] = pc[q] /\ req'[q] = req[q] /\ tx'[q] = tx[q]
      BY <1>0, <1>16 DEF DeleteDocumentMark, Finish, Goto, NoTx, store, TypeInv, TypeOK,
                         Referenced
    <2>2. \A e \in DocIds \ {d} : documents'[e] = documents[e]
      BY <1>16, <2>1 DEF DeleteDocumentMark, TypeInv, TypeOK
    <2>3. documents'[d].deleted
      <3> DEFINE new == [session[p] EXCEPT !.deleted = TRUE]
      <3>1. new.deleted = TRUE /\ session[p].deleted = FALSE
        BY DEF LoadedLive, TypeInv, TypeOK, Document
      <3>2. documents'[d] = Flush(documents[d], session[p], new)
        BY <1>16, <2>1 DEF DeleteDocumentMark, TypeInv, TypeOK
      <3> HIDE DEF new
      <3>3. Flush(documents[d], session[p], new).deleted = TRUE
        BY <3>1 DEF Flush
      <3> QED BY <3>2, <3>3
    <2>4. \A e \in DocIds : SomeNowSearched(e) => Searched(e)
      BY <2>1, <2>2, <2>3 DEF Quiet, Readable, Exists
    <2> QED BY <1>0, <2>1, <2>3, <2>4, SearchKept
  <1>17. ASSUME NEW p \in Procs, IngestionFault(p) \/ Crash(p) \/ Escape(p) PROVE FALSE
    BY <1>17 DEF IngestionFault, Crash, Escape, NothingFailed, TypeInv, TypeOK
  <1>18. CASE \E p \in Procs : RedeliverTask(p)
    BY <1>2, <1>18 DEF RedeliverTask, store
  <1>19. CASE \E d \in DocIds : SendTask(d)
    BY <1>2, <1>19 DEF SendTask, store
  <1>20. CASE UNCHANGED vars
    BY <1>2, <1>20 DEF vars
  <1> QED
    BY <1>3, <1>4, <1>5, <1>6, <1>7, <1>8, <1>9, <1>10, <1>11, <1>12, <1>13, <1>14, <1>15,
       <1>16, <1>17, <1>18, <1>19, <1>20 DEF Next, Proceed

\* Failures are never forgotten.
LEMMA FailuresAreCounted ==
    ASSUME TypeInv, [Next]_vars, NothingFailed'
    PROVE  NothingFailed
  <1>1. CASE \E p \in Handlers : Request(p)
    BY <1>1 DEF Request, CreateDocumentCheck, ReprocessDocument, DeleteDocumentStart,
                NothingFailed, bounds
  <1>2. CASE \E p \in Workers : TakeTask(p)
    BY <1>2 DEF TakeTask, IngestDocument, IngestDocumentSkip, NothingFailed, bounds
  <1>3. CASE \E p \in Procs : Proceed(p)
    BY <1>3 DEF Proceed, CreateDocumentInsert, CreateDocumentConflict, CreateDocumentWrite,
                RunIngestionStart, RunIngestionExtract, RunIngestionClear,
                RunIngestionPurge, RunIngestionAdd, RunIngestionIndex, RunIngestionCommit,
                RunIngestionRollback, RunIngestionRecord, DeleteDocumentPurge,
                DeleteDocumentMark, NothingFailed, bounds
  <1>4. CASE \E p \in Procs : RedeliverTask(p)
    BY <1>4 DEF RedeliverTask, NothingFailed, bounds
  <1>5. CASE \E p \in Procs : IngestionFault(p) \/ Crash(p) \/ Escape(p)
    BY <1>5 DEF IngestionFault, Crash, Escape, NothingFailed, TypeInv, TypeOK
  <1>6. CASE \E d \in DocIds : SendTask(d)
    BY <1>6 DEF SendTask, NothingFailed, bounds
  <1>7. CASE UNCHANGED vars
    BY <1>7 DEF vars, NothingFailed
  <1> QED BY <1>1, <1>2, <1>3, <1>4, <1>5, <1>6, <1>7 DEF Next

\* As long as nothing has failed, the invariant holds.
LEMMA SearchInvariant == Spec => [](NothingFailed => SearchInv)
  <1> DEFINE Inv == NothingFailed => SearchInv
  <1>1. Init => Inv
    BY DEF Init, SearchInv, AllSearchable, Readable, Exists, NoDocument
  <1>2. TypeInv /\ Bytes /\ Locks /\ Numbered /\ Enclosed /\ LoadedLive /\ Inv /\ [Next]_vars
          => Inv'
    BY SearchStep, FailuresAreCounted
  <1> QED
    BY <1>1, <1>2, TypeCorrect, BytesInvariant, LocksInvariant, NumberedInvariant,
       EnclosedInvariant, LoadedLiveInvariant, PTL DEF Spec

\* Without failures, a live INDEXED document nobody is working on has exactly
\* the vectors of its committed chunk rows.
THEOREM SearchableWithoutFailures == Spec => []IndexedSearchable
  <1>1. (NothingFailed => SearchInv) => IndexedSearchable
    BY DEF SearchInv, AllSearchable, IndexedSearchable
  <1> QED BY <1>1, SearchInvariant, PTL
-----------------------------------------------------------------------------
(* Documents nobody has shared *)

\* At most one request or task is at work on d.
Alone(d) == \A p, q \in Procs : AtWork(p, d) /\ AtWork(q, d) => p = q

\* What the one process at work on d knows: its copy of the row is the row, and
\* from its purge on it has the vectors of d to itself.
Undisturbed(p, d) ==
    /\ pc[p] \notin {"rollback", "record"} => session[p] = documents[d]
    /\ InRun(p) => req[p].file = documents[d].file
    /\ pc[p] \in {"extract", "clear", "purge", "add", "index", "commit"} =>
         documents[d].status = "processing" /\ ~documents[d].error
    /\ pc[p] \in {"add", "index", "mark"} => vectors[d] = {}
    /\ pc[p] = "commit" => vectors[d] \subseteq {tx[p].run}

\* What its row says of d at any time, whether someone is at work on d or not.
Settled(d) ==
    /\ documents[d].status = "indexed" => RowConsistent(d) /\ vectors[d] \subseteq {chunks[d]}
    /\ Purged(d)

Solo(d) == Settled(d) /\ \A p \in Procs : AtWork(p, d) => Undisturbed(p, d)

HistoryInv == \A d \in DocIds \ shared : Alone(d) /\ Solo(d)

\* No process but p moves.
OnlyMoves(p) ==
    \A q \in Procs \ {p} : /\ pc'[q] = pc[q] /\ req'[q] = req[q]
                           /\ session'[q] = session[q] /\ tx'[q] = tx[q]

\* Nothing of d moves.
Untouched(d) == /\ documents'[d] = documents[d] /\ chunks'[d] = chunks[d]
                /\ vectors'[d] = vectors[d]

\* A session that writes its changes to the row it has loaded leaves its copy.
LEMMA FlushOfLoaded ==
    ASSUME NEW row \in Document, NEW new \in Document,
           new.workspace = row.workspace, new.file = row.file
    PROVE  Flush(row, row, new) = new
  BY DEF Flush, Document

\* A step of p that leaves d alone keeps what is known of d.
LEMMA SoloElsewhere ==
    ASSUME NEW d, Solo(d), NEW p \in Procs, OnlyMoves(p), Untouched(d), ~AtWork(p, d)'
    PROVE  Solo(d)'
  <1>1. Settled(d)'
    BY DEF Solo, Settled, RowConsistent, Purged, Untouched
  <1>2. ASSUME NEW q \in Procs, AtWork(q, d)' PROVE Undisturbed(q, d)'
    <2>1. /\ q # p /\ AtWork(q, d)
          /\ pc'[q] = pc[q] /\ req'[q] = req[q] /\ session'[q] = session[q] /\ tx'[q] = tx[q]
      BY <1>2 DEF OnlyMoves, AtWork
    <2> QED BY <2>1 DEF Solo, Undisturbed, Untouched, InRun
  <1> QED BY <1>1, <1>2 DEF Solo

\* So does a step of the one process at work on d that leaves it undisturbed.
LEMMA SoloAtWork ==
    ASSUME NEW d, Alone(d), Alone(d)', NEW p \in Procs, OnlyMoves(p),
           AtWork(p, d) \/ AtWork(p, d)', Settled(d)', AtWork(p, d)' => Undisturbed(p, d)'
    PROVE  Solo(d)'
  <1>1. ASSUME NEW q \in Procs, AtWork(q, d)' PROVE q = p
    BY <1>1 DEF Alone, AtWork, OnlyMoves
  <1> QED BY <1>1 DEF Solo

\* A step on the row by the process that has loaded it writes the new copy.
LEMMA LoadedRowWritten ==
    ASSUME TypeInv, NEW d \in DocIds, NEW row, row \in Document,
           documents' = [documents EXCEPT ![d] = Flush(@, documents[d], row)],
           row.workspace = documents[d].workspace, row.file = documents[d].file
    PROVE  documents'[d] = row
  BY FlushOfLoaded DEF TypeInv, TypeOK

\* Every step keeps what is known of a document that is not shared after it.
LEMMA SoloStep ==
    ASSUME TypeInv, Enclosed, LoadedLive, [Next]_vars,
           NEW d \in DocIds, Alone(d), Alone(d)', Solo(d)
    PROVE  Solo(d)'
  <1>0. /\ pc = [q \in Procs |-> pc[q]] /\ req = [q \in Procs |-> req[q]]
        /\ tx = [q \in Procs |-> tx[q]] /\ session = [q \in Procs |-> session[q]]
    BY DEF TypeInv, TypeOK
  <1>1. ASSUME UNCHANGED <<documents, chunks, vectors, pc, req, session, tx>> PROVE Solo(d)'
    BY <1>1 DEF Solo, Settled, Undisturbed, RowConsistent, Purged, AtWork, InRun
  <1>2. ASSUME NEW p \in Procs, Finish(p)
        PROVE  OnlyMoves(p) /\ ~AtWork(p, d)' /\ pc'[p] = "idle"
    BY <1>0, <1>2 DEF Finish, Goto, OnlyMoves, AtWork
  <1>3. ASSUME NEW p \in Procs, Finish(p), Untouched(d) PROVE Solo(d)'
    BY <1>2, <1>3, SoloElsewhere
  \* A process enters a run with the row it has loaded.
  <1>4. ASSUME NEW p \in Procs, NEW e \in DocIds, EnterRun(p, e, documents[e], req'[p].task),
               UNCHANGED <<documents, chunks, vectors>>
        PROVE  Solo(d)'
    <2>1. /\ OnlyMoves(p) /\ pc'[p] = "start" /\ req'[p].doc = e
          /\ req'[p].file = documents[e].file /\ session'[p] = documents[e]
      BY <1>0, <1>4 DEF EnterRun, Goto, OnlyMoves
    <2>2. CASE e = d
      <3>1. Settled(d)'
        BY <1>4 DEF Solo, Settled, RowConsistent, Purged
      <3>2. AtWork(p, d)' /\ Undisturbed(p, d)'
        BY <1>4, <2>1, <2>2 DEF Undisturbed, AtWork
      <3> QED BY <2>1, <3>1, <3>2, SoloAtWork
    <2>3. CASE e # d
      BY <1>4, <2>1, <2>3, SoloElsewhere DEF Untouched, AtWork
    <2> QED BY <2>2, <2>3
  <1>5. CASE \E p \in Handlers : Request(p)
    <2>1. ASSUME NEW p \in Handlers, NEW w \in Workspaces, NEW f \in Files,
                 CreateDocumentCheck(p, w, f)
          PROVE  Solo(d)'
      <3>1. p \in Procs /\ OnlyMoves(p) /\ Untouched(d) /\ req'[p].doc = NULL
        BY <1>0, <2>1 DEF CreateDocumentCheck, Goto, NoReq, OnlyMoves, Untouched, store, Procs
      <3> QED BY <3>1, SoloElsewhere, NullIsNoDocument DEF AtWork
    <2>2. ASSUME NEW p \in Handlers, NEW e \in DocIds, DeleteDocumentStart(p, e)
          PROVE  Solo(d)'
      <3>1. /\ p \in Procs /\ OnlyMoves(p) /\ UNCHANGED <<documents, chunks, vectors>>
            /\ pc'[p] = "unindex" /\ req'[p].doc = e /\ session'[p] = documents[e]
        BY <1>0, <2>2 DEF DeleteDocumentStart, Goto, NoReq, OnlyMoves, store, Procs
      <3>2. CASE e = d
        <4>1. Settled(d)'
          BY <3>1 DEF Solo, Settled, RowConsistent, Purged
        <4>2. AtWork(p, d)' /\ Undisturbed(p, d)'
          BY <3>1, <3>2 DEF Undisturbed, AtWork, InRun
        <4> QED BY <3>1, <4>1, <4>2, SoloAtWork
      <3>3. CASE e # d
        BY <3>1, <3>3, SoloElsewhere DEF Untouched, AtWork
      <3> QED BY <3>2, <3>3
    <2>3. ASSUME NEW p \in Handlers, NEW e \in DocIds, ReprocessDocument(p, e)
          PROVE  Solo(d)'
      <3>1. /\ p \in Procs /\ UNCHANGED <<documents, chunks, vectors>>
            /\ EnterRun(p, e, documents[e], FALSE) /\ req'[p].task = FALSE
        BY <1>0, <2>3 DEF ReprocessDocument, EnterRun, store, Procs
      <3> QED BY <1>4, <3>1
    <2> QED BY <1>5, <2>1, <2>2, <2>3 DEF Request
  <1>6. CASE \E p \in Workers : TakeTask(p)
    <2>1. ASSUME NEW p \in Workers, NEW e \in DocIds, IngestDocument(p, e)
          PROVE  Solo(d)'
      <3>1. /\ p \in Procs /\ UNCHANGED <<documents, chunks, vectors>>
            /\ EnterRun(p, e, documents[e], TRUE) /\ req'[p].task = TRUE
        BY <1>0, <2>1 DEF IngestDocument, EnterRun, store, Procs
      <3> QED BY <1>4, <3>1
    <2>2. ASSUME NEW p \in Workers, NEW e \in DocIds, IngestDocumentSkip(p, e)
          PROVE  Solo(d)'
      BY <1>1, <2>2 DEF IngestDocumentSkip, store
    <2> QED BY <1>6, <2>1, <2>2 DEF TakeTask
  <1>7. ASSUME NEW p \in Procs, NEW e \in DocIds, CreateDocumentInsert(p, e)
        PROVE  Solo(d)'
    <2>1. /\ OnlyMoves(p) /\ UNCHANGED <<chunks, vectors>>
          /\ pc'[p] = "write" /\ req'[p].doc = e
          /\ documents'[e] = session'[p] /\ documents'[e].status = "queued"
          /\ ~documents'[e].deleted
          /\ e # d => documents'[d] = documents[d]
      BY <1>0, <1>7 DEF CreateDocumentInsert, Goto, OnlyMoves, store, TypeInv, TypeOK
    <2>2. CASE e = d
      <3>1. Settled(d)'
        BY <2>1, <2>2 DEF Settled, Purged
      <3>2. AtWork(p, d)' /\ Undisturbed(p, d)'
        BY <2>1, <2>2 DEF Undisturbed, AtWork, InRun
      <3> QED BY <2>1, <3>1, <3>2, SoloAtWork
    <2>3. CASE e # d
      BY <2>1, <2>3, SoloElsewhere DEF Untouched, AtWork
    <2> QED BY <2>2, <2>3
  <1>8. ASSUME NEW p \in Procs, CreateDocumentWrite(p) PROVE Solo(d)'
    <2>1. CASE ~IngestEager
      BY <1>3, <1>8, <2>1 DEF CreateDocumentWrite, Untouched
    <2>2. CASE IngestEager
      <3> DEFINE e == req[p].doc
      <3>1. /\ e \in DocIds /\ pc[p] = "write" /\ UNCHANGED <<documents, chunks, vectors>>
            /\ EnterRun(p, e, session[p], FALSE)
        BY <1>8, <2>2 DEF CreateDocumentWrite, TypeInv, Referenced
      <3>2. /\ OnlyMoves(p) /\ pc'[p] = "start" /\ req'[p].doc = e
            /\ req'[p].file = session[p].file /\ session'[p] = session[p]
        BY <1>0, <3>1 DEF EnterRun, Goto, OnlyMoves
      <3>3. CASE e = d
        <4>1. AtWork(p, d) /\ session[p] = documents[d]
          BY <3>1, <3>3 DEF AtWork, Solo, Undisturbed
        <4>2. Settled(d)'
          BY <3>1 DEF Solo, Settled, RowConsistent, Purged
        <4>3. Undisturbed(p, d)'
          BY <3>1, <3>2, <4>1 DEF Undisturbed
        <4> QED BY <3>2, <4>1, <4>2, <4>3, SoloAtWork
      <3>4. CASE e # d
        BY <3>1, <3>2, <3>4, SoloElsewhere DEF Untouched, AtWork
      <3> QED BY <3>3, <3>4
    <2> QED BY <2>1, <2>2
  <1>9. ASSUME NEW p \in Procs, CreateDocumentConflict(p) PROVE Solo(d)'
    BY <1>3, <1>9 DEF CreateDocumentConflict, Untouched, store
  <1>10. ASSUME NEW p \in Procs, Crash(p) \/ Escape(p) PROVE Solo(d)'
    BY <1>3, <1>10 DEF Crash, Escape, Untouched, store
  \* From here on p goes on with the document it is at work on.
  <1>11. ASSUME NEW p \in Procs, OnlyMoves(p), req'[p] = req[p] \/ pc'[p] = "idle",
                req[p].doc # d, Untouched(d)
         PROVE  Solo(d)'
    BY <1>11, SoloElsewhere DEF AtWork
  <1>12. ASSUME NEW p \in Procs, pc[p] # "idle", req[p].doc = d
         PROVE  AtWork(p, d) /\ Undisturbed(p, d) /\ Settled(d)
    BY <1>12 DEF AtWork, Solo
  <1>13. ASSUME NEW p \in Procs, RunIngestionStart(p) PROVE Solo(d)'
    <2>1. /\ OnlyMoves(p) /\ UNCHANGED <<req, chunks, vectors, tx>> /\ pc[p] = "start"
          /\ pc'[p] = "extract"
          /\ session'[p] = [session[p] EXCEPT !.status = "processing", !.error = FALSE]
      BY <1>0, <1>13 DEF RunIngestionStart, Goto, OnlyMoves, store
    <2>2. CASE req[p].doc = d
      <3> DEFINE new == [documents[d] EXCEPT !.status = "processing", !.error = FALSE]
      <3>1. AtWork(p, d) /\ Undisturbed(p, d) /\ Settled(d)
        BY <1>12, <2>1, <2>2
      <3>2. session[p] = documents[d] /\ req[p].file = documents[d].file
        BY <2>1, <3>1 DEF Undisturbed, InRun
      <3>3. /\ new \in Document /\ new.workspace = documents[d].workspace
            /\ new.file = documents[d].file /\ new.status = "processing" /\ ~new.error
            /\ new.deleted = documents[d].deleted
        <4>1. documents[d] \in Document
          BY DEF TypeInv, TypeOK
        <4> QED BY <4>1 DEF Document, DocumentStatus
      <3>4. documents' = [documents EXCEPT ![d] = Flush(@, documents[d], new)]
        BY <1>13, <2>2, <3>2 DEF RunIngestionStart
      <3>5. session'[p] = new
        BY <2>1, <3>2
      <3> HIDE DEF new
      <3>6. documents'[d] = new
        BY <3>3, <3>4, LoadedRowWritten
      <3>7. Settled(d)'
        BY <2>1, <3>1, <3>3, <3>6 DEF Settled, Purged
      <3>8. Undisturbed(p, d)'
        BY <2>1, <3>2, <3>3, <3>5, <3>6 DEF Undisturbed
      <3> QED BY <2>1, <3>1, <3>7, <3>8, SoloAtWork
    <2>3. CASE req[p].doc # d
      BY <1>11, <1>13, <2>1, <2>3 DEF RunIngestionStart, Untouched, TypeInv, TypeOK
    <2> QED BY <2>2, <2>3
  \* Steps on the chunks table's locks, and the end of the transaction.
  <1>14. ASSUME NEW p \in Procs,
                \/ RunIngestionExtract(p) \/ RunIngestionClear(p) \/ RunIngestionAdd(p)
                \/ RunIngestionRollback(p)
         PROVE  Solo(d)'
    <2>1. /\ OnlyMoves(p) /\ UNCHANGED <<documents, chunks, vectors, req, session>>
          /\ \/ pc[p] = "extract" /\ pc'[p] \in {"clear", "rollback"}
             \/ pc[p] = "clear" /\ pc'[p] = "purge"
             \/ pc[p] = "add" /\ pc'[p] \in {"index", "rollback"}
             \/ pc[p] = "rollback" /\ pc'[p] = "record"
      BY <1>0, <1>14 DEF RunIngestionExtract, RunIngestionClear, RunIngestionAdd,
                         RunIngestionRollback, Goto, OnlyMoves, store
    <2>2. CASE req[p].doc = d
      <3>1. AtWork(p, d) /\ Undisturbed(p, d) /\ Settled(d)
        BY <1>12, <2>1, <2>2
      <3>2. Settled(d)'
        BY <2>1, <3>1 DEF Settled, RowConsistent, Purged
      <3>3. Undisturbed(p, d)'
        BY <2>1, <3>1 DEF Undisturbed, InRun
      <3> QED BY <2>1, <3>1, <3>2, <3>3, SoloAtWork
    <2>3. CASE req[p].doc # d
      BY <1>11, <2>1, <2>3 DEF Untouched
    <2> QED BY <2>2, <2>3
  \* Every vector of the document goes.
  <1>15. ASSUME NEW p \in Procs, UNCHANGED <<documents, chunks, req, session, tx>>,
                vectors' = [vectors EXCEPT ![req[p].doc] = {}],
                \/ pc[p] = "purge" /\ Goto(p, "add")
                \/ pc[p] = "purge" /\ Goto(p, "rollback")
                \/ pc[p] = "unindex" /\ Goto(p, "mark")
         PROVE  Solo(d)'
    <2>1. /\ OnlyMoves(p) /\ pc[p] \in {"purge", "unindex"}
          /\ \/ pc[p] = "purge" /\ pc'[p] \in {"add", "rollback"}
             \/ pc[p] = "unindex" /\ pc'[p] = "mark"
      BY <1>0, <1>15 DEF Goto, OnlyMoves
    <2>2. CASE req[p].doc = d
      <3>1. AtWork(p, d) /\ Undisturbed(p, d) /\ Settled(d)
        BY <1>12, <2>1, <2>2
      <3>2. vectors'[d] = {}
        BY <1>15, <2>2 DEF TypeInv, TypeOK
      <3>3. Settled(d)'
        BY <1>15, <3>1, <3>2 DEF Settled, RowConsistent, Purged
      <3>4. Undisturbed(p, d)'
        BY <1>15, <2>1, <3>1, <3>2 DEF Undisturbed, InRun
      <3> QED BY <2>1, <3>1, <3>3, <3>4, SoloAtWork
    <2>3. CASE req[p].doc # d
      BY <1>11, <1>15, <2>1, <2>3 DEF Untouched, TypeInv, TypeOK
    <2> QED BY <2>2, <2>3
  \* The vectors of the run are added.
  <1>16. ASSUME NEW p \in Procs, UNCHANGED <<documents, chunks, req, session, tx>>,
                pc[p] = "index", vectors' = [vectors EXCEPT ![req[p].doc] = @ \cup {tx[p].run}],
                Goto(p, "commit") \/ Goto(p, "rollback")
         PROVE  Solo(d)'
    <2>1. OnlyMoves(p) /\ pc'[p] \in {"commit", "rollback"}
      BY <1>0, <1>16 DEF Goto, OnlyMoves
    <2>2. CASE req[p].doc = d
      <3>1. AtWork(p, d) /\ Undisturbed(p, d) /\ Settled(d)
        BY <1>12, <1>16, <2>2
      <3>2. /\ session[p] = documents[d] /\ documents[d].status = "processing"
            /\ vectors[d] = {}
        BY <1>16, <3>1 DEF Undisturbed
      <3>3. vectors'[d] = {tx[p].run} /\ ~documents[d].deleted
        BY <1>16, <2>2, <3>2 DEF LoadedLive, TypeInv, TypeOK
      <3>4. Settled(d)'
        BY <1>16, <3>2, <3>3 DEF Settled, Purged
      <3>5. Undisturbed(p, d)'
        BY <1>16, <2>1, <3>1, <3>3 DEF Undisturbed, InRun
      <3> QED BY <2>1, <3>1, <3>4, <3>5, SoloAtWork
    <2>3. CASE req[p].doc # d
      BY <1>11, <1>16, <2>1, <2>3 DEF Untouched, TypeInv, TypeOK
    <2> QED BY <2>2, <2>3
  \* The row and the chunk rows are committed.
  <1>17. ASSUME NEW p \in Procs, pc[p] = "commit", CommitIndexed(p), UNCHANGED vectors,
                OnlyMoves(p), pc'[p] = "idle" \/ (pc'[p] = "rollback" /\ req'[p] = req[p])
         PROVE  Solo(d)'
    <2>1. CASE req[p].doc = d
      <3> DEFINE new == [documents[d] EXCEPT !.status = "indexed", !.error = FALSE,
                                             !.chunk_count = ChunkCount[req[p].file]]
      <3>1. AtWork(p, d) /\ Undisturbed(p, d) /\ Settled(d)
        BY <1>12, <1>17, <2>1
      <3>2. /\ session[p] = documents[d] /\ req[p].file = documents[d].file
            /\ vectors[d] \subseteq {tx[p].run} /\ ~documents[d].deleted
        BY <1>17, <3>1 DEF Undisturbed, InRun, LoadedLive
      <3>3. ChunkCount[req[p].file] \in Nat
        BY <1>17, ConstantsAssumption DEF TypeInv, Referenced
      <3>4. /\ new \in Document /\ new.workspace = documents[d].workspace
            /\ new.file = documents[d].file /\ ~new.error
            /\ new.chunk_count = ChunkCount[documents[d].file]
            /\ ~new.deleted
        <4>1. documents[d] \in Document
          BY DEF TypeInv, TypeOK
        <4> QED BY <3>2, <3>3, <4>1 DEF Document, DocumentStatus
      <3>5. documents' = [documents EXCEPT ![d] = Flush(@, documents[d], new)]
        BY <1>17, <2>1, <3>2 DEF CommitIndexed
      <3>6. chunks'[d] = tx[p].run
        BY <1>17, <2>1 DEF CommitIndexed, TypeInv, TypeOK
      <3> HIDE DEF new
      <3>7. documents'[d] = new
        BY <3>4, <3>5, LoadedRowWritten
      <3>8. Settled(d)'
        BY <1>17, <3>2, <3>4, <3>6, <3>7 DEF Settled, RowConsistent, Purged
      <3>9. AtWork(p, d)' => Undisturbed(p, d)'
        BY <1>17, <3>2, <3>4, <3>7 DEF Undisturbed, AtWork, InRun
      <3> QED BY <1>17, <3>1, <3>8, <3>9, SoloAtWork
    <2>2. CASE req[p].doc # d
      BY <1>11, <1>17, <2>2 DEF CommitIndexed, Untouched, TypeInv, TypeOK
    <2> QED BY <2>1, <2>2
  <1>18. ASSUME NEW p \in Procs, RunIngestionRecord(p) PROVE Solo(d)'
    <2>1. OnlyMoves(p) /\ ~AtWork(p, d)' /\ pc'[p] = "idle" /\ pc[p] = "record"
      BY <1>2, <1>18 DEF RunIngestionRecord
    <2>2. CASE req[p].doc = d
      <3>1. AtWork(p, d) /\ Settled(d)
        BY <1>12, <2>1, <2>2
      <3>2. /\ documents'[d].status = "failed" /\ documents'[d].deleted = documents[d].deleted
            /\ UNCHANGED vectors
        BY <1>18, <2>2 DEF RunIngestionRecord, store, TypeInv, TypeOK, Document
      <3>3. Settled(d)'
        BY <3>1, <3>2 DEF Settled, Purged
      <3> QED BY <2>1, <3>1, <3>3, SoloAtWork
    <2>3. CASE req[p].doc # d
      BY <1>11, <1>18, <2>1, <2>3 DEF RunIngestionRecord, Untouched, store, TypeInv, TypeOK
    <2> QED BY <2>2, <2>3
  <1>19. ASSUME NEW p \in Procs, DeleteDocumentMark(p) PROVE Solo(d)'
    <2>1. OnlyMoves(p) /\ ~AtWork(p, d)' /\ pc'[p] = "idle" /\ pc[p] = "mark"
      BY <1>2, <1>19 DEF DeleteDocumentMark
    <2>2. CASE req[p].doc = d
      <3> DEFINE new == [documents[d] EXCEPT !.deleted = TRUE]
      <3>1. AtWork(p, d) /\ Undisturbed(p, d) /\ Settled(d)
        BY <1>12, <2>1, <2>2
      <3>2. session[p] = documents[d] /\ vectors[d] = {}
        BY <2>1, <3>1 DEF Undisturbed
      <3>3. /\ new \in Document /\ new.workspace = documents[d].workspace
            /\ new.file = documents[d].file /\ new.error = documents[d].error
            /\ new.status = documents[d].status /\ new.chunk_count = documents[d].chunk_count
        <4>1. documents[d] \in Document
          BY DEF TypeInv, TypeOK
        <4> QED BY <4>1 DEF Document
      <3>4. /\ documents' = [documents EXCEPT ![d] = Flush(@, documents[d], new)]
            /\ UNCHANGED <<vectors, chunks>>
        BY <1>19, <2>2, <3>2 DEF DeleteDocumentMark, store
      <3> HIDE DEF new
      <3>5. documents'[d] = new
        BY <3>3, <3>4, LoadedRowWritten
      <3>6. Settled(d)'
        BY <3>1, <3>2, <3>3, <3>4, <3>5 DEF Settled, RowConsistent, Purged
      <3> QED BY <2>1, <3>1, <3>6, SoloAtWork
    <2>3. CASE req[p].doc # d
      BY <1>11, <1>19, <2>1, <2>3 DEF DeleteDocumentMark, Untouched, store, TypeInv, TypeOK
    <2> QED BY <2>2, <2>3
  <1>20. ASSUME NEW p \in Procs, IngestionFault(p) PROVE Solo(d)'
    <2>1. /\ pc[p] \in {"clear", "purge", "add", "index", "commit"} /\ Goto(p, "rollback")
          /\ UNCHANGED <<req, session>>
      BY <1>20 DEF IngestionFault
    <2>2. CASE UNCHANGED <<documents, chunks, vectors, tx>>
      <3>1. OnlyMoves(p) /\ pc'[p] = "rollback"
        BY <1>0, <2>1, <2>2 DEF Goto, OnlyMoves
      <3>2. CASE req[p].doc = d
        <4>1. AtWork(p, d) /\ Undisturbed(p, d) /\ Settled(d)
          BY <1>12, <2>1, <3>2
        <4>2. Settled(d)'
          BY <2>2, <4>1 DEF Settled, RowConsistent, Purged
        <4>3. Undisturbed(p, d)'
          BY <2>1, <2>2, <3>1, <4>1 DEF Undisturbed, InRun
        <4> QED BY <3>1, <4>1, <4>2, <4>3, SoloAtWork
      <3>3. CASE req[p].doc # d
        BY <1>11, <2>1, <2>2, <3>1, <3>3 DEF Untouched
      <3> QED BY <3>2, <3>3
    <2>3. CASE /\ pc[p] = "purge"
               /\ vectors' = [vectors EXCEPT ![req[p].doc] = {}]
               /\ UNCHANGED <<documents, chunks, tx>>
      BY <1>15, <2>1, <2>3
    <2>4. CASE /\ pc[p] = "index"
               /\ vectors' = [vectors EXCEPT ![req[p].doc] = @ \cup {tx[p].run}]
               /\ UNCHANGED <<documents, chunks, tx>>
      BY <1>16, <2>1, <2>4
    <2>5. CASE /\ pc[p] = "commit"
               /\ CommitIndexed(p)
               /\ tx' = [tx EXCEPT ![p] = NoTx]
               /\ UNCHANGED vectors
      <3>1. OnlyMoves(p) /\ pc'[p] = "rollback" /\ req'[p] = req[p]
        BY <1>0, <2>1, <2>5 DEF Goto, OnlyMoves
      <3> QED BY <1>17, <2>5, <3>1
    <2> QED BY <1>20, <2>2, <2>3, <2>4, <2>5 DEF IngestionFault
  <1>21. ASSUME NEW p \in Procs, \/ RunIngestionPurge(p) \/ DeleteDocumentPurge(p)
                                 \/ RunIngestionIndex(p)
         PROVE  Solo(d)'
    BY <1>15, <1>16, <1>21 DEF RunIngestionPurge, DeleteDocumentPurge, RunIngestionIndex
  <1>22. ASSUME NEW p \in Procs, RunIngestionCommit(p) PROVE Solo(d)'
    BY <1>2, <1>17, <1>22 DEF RunIngestionCommit
  <1>23. CASE \E p \in Procs : RedeliverTask(p)
    BY <1>1, <1>23 DEF RedeliverTask, store
  <1>24. CASE \E e \in DocIds : SendTask(e)
    BY <1>1, <1>24 DEF SendTask, store
  <1>25. CASE UNCHANGED vars
    BY <1>1, <1>25 DEF vars
  <1> QED
    BY <1>5, <1>6, <1>7, <1>8, <1>9, <1>10, <1>13, <1>14, <1>18, <1>19, <1>20, <1>21, <1>22,
       <1>23, <1>24, <1>25 DEF Next, Proceed

\* The history is one of the pipeline's own runs.
LEMMA HistoryIsOfThePipeline == HistorySpec => Spec
  <1>1. HistoryInit => Init
    BY DEF HistoryInit
  <1>2. [HistoryNext]_historyVars => [Next]_vars
    BY DEF HistoryNext, historyVars
  <1> QED BY <1>1, <1>2, PTL DEF HistorySpec, Spec

\* Documents no two processes have been at work on are undisturbed.
LEMMA HistoryInvariant == HistorySpec => []HistoryInv
  <1>1. HistoryInit => HistoryInv
    BY DEF HistoryInit, Init, HistoryInv, Alone, Solo, AtWork, Settled, Purged, NoDocument
  <1>2. TypeInv /\ Enclosed /\ LoadedLive /\ HistoryInv /\ [HistoryNext]_historyVars
          => HistoryInv'
    <2> SUFFICES ASSUME TypeInv, Enclosed, LoadedLive, HistoryInv,
                        [HistoryNext]_historyVars, NEW d \in DocIds, d \notin shared'
                 PROVE  Alone(d)' /\ Solo(d)'
      BY DEF HistoryInv
    <2>1. [Next]_vars /\ d \notin shared
      BY DEF HistoryNext, historyVars
    <2>2. Alone(d) /\ Solo(d)
      BY <2>1 DEF HistoryInv
    <2>3. Alone(d)'
      <3>1. CASE HistoryNext
        BY <3>1 DEF HistoryNext, Alone
      <3>2. CASE UNCHANGED historyVars
        BY <2>2, <3>2 DEF historyVars, vars, Alone, AtWork
      <3> QED BY <3>1, <3>2
    <2> QED BY <2>1, <2>2, <2>3, SoloStep
  <1> QED
    BY <1>1, <1>2, HistoryIsOfThePipeline, TypeCorrect, EnclosedInvariant, LoadedLiveInvariant,
       PTL DEF HistorySpec

\* Delete purges: a deleted document that no two requests or tasks have worked on
\* at once has no vectors to be found by, whatever failed or died.
THEOREM DeletedIsPurged == HistorySpec => []DeletedPurgedUnlessShared
  <1>1. HistoryInv => DeletedPurgedUnlessShared
    BY DEF HistoryInv, Solo, Settled, DeletedPurgedUnlessShared
  <1> QED BY <1>1, HistoryInvariant, PTL

\* The row of an INDEXED document is true of its file, and free of the error of an
\* earlier run, unless two processes have been at work on it at once.
THEOREM RowsAreConsistent == HistorySpec => []RowConsistentUnlessShared
  <1>1. HistoryInv => RowConsistentUnlessShared
    BY DEF HistoryInv, Solo, Settled, RowConsistentUnlessShared
  <1> QED BY <1>1, HistoryInvariant, PTL

\* A reprocess repairs what failures and crashes left behind: an INDEXED document
\* has no vectors of an earlier run, unless two processes were at work on it at once.
THEOREM ReprocessRepairs == HistorySpec => []NeverStaleUnlessShared
  <1>1. HistoryInv => NeverStaleUnlessShared
    BY DEF HistoryInv, Solo, Settled, NeverStaleUnlessShared
  <1> QED BY <1>1, HistoryInvariant, PTL
=============================================================================
