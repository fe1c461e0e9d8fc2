------------------------- MODULE DocumentIngestion -------------------------
(***************************************************************************)
(* The life of an uploaded document: the upload, delete and reprocess      *)
(* requests of app/services/document_service.py, the Celery task of        *)
(* app/workers/tasks.py and the pipeline they share, run_ingestion of      *)
(* app/services/ingestion/pipeline.py.                                     *)
(*                                                                         *)
(* Requests and tasks are processes.  A process runs alone between two     *)
(* awaits; at every await on the database, the vector store or the         *)
(* embedder any other process may move.  One action is one such stretch.   *)
(* A request that ends in 404 (no membership, no such document) or in the  *)
(* FileNotFoundError of a missing upload changes nothing and has no action.*)
(*                                                                         *)
(* The database is PostgreSQL at its default isolation level, as the       *)
(* settings and deploy/ have it; the vector store is Qdrant or its         *)
(* in-memory twin, outside any transaction.                                *)
(***************************************************************************)
EXTENDS Naturals

CONSTANTS
    Handlers,       \* request handlers of the API
    Workers,        \* Celery workers
    DocIds,         \* document UUIDs
    Workspaces,
    Files,          \* accepted uploads: bytes together with a filename
    Checksum,       \* Checksum[f]: SHA-256 of the bytes (the filename has no part in it)
    ChunkCount,     \* ChunkCount[f]: chunks extracted; 0 if extraction or chunking fails
    NULL,
    IngestEager,    \* settings.ingest_eager
    TasksAreSent,   \* whether someone outside src/ sends ingest_document tasks
    MaxRuns,        \* bound: ingestion runs per document
    MaxFaults,      \* bound: failed calls to the embedder, the store or the database
    MaxCrashes      \* bound: processes that die in the middle of their work

ASSUME ConstantsAssumption ==
    /\ NULL \notin Handlers \cup Workers \cup DocIds \cup Workspaces \cup Files
    /\ NULL \notin Workspaces \X {Checksum[f] : f \in Files}
    /\ ChunkCount \in [Files -> Nat]
    /\ IngestEager \in BOOLEAN
    /\ TasksAreSent \in BOOLEAN
    /\ MaxRuns \in Nat \ {0}
    /\ MaxFaults \in Nat
    /\ MaxCrashes \in Nat

Procs == Handlers \cup Workers

VARIABLES
    documents,  \* the documents table
    chunks,     \* committed chunk rows of a document, named by the run that wrote them
    vectors,    \* runs whose vectors the vector store holds for a document
    blobs,      \* documents whose bytes are under upload_dir
    broker,     \* ingest_document messages waiting in the Celery queue
    pc,         \* where each process is
    req,        \* the arguments each process works with
    session,    \* each process's ORM copy of its document row
    tx,         \* each process's open transaction on the chunks table
    runs,       \* ingestion runs entered so far, per document
    faults,
    crashes

vars == <<documents, chunks, vectors, blobs, broker, pc, req, session, tx,
          runs, faults, crashes>>
store == <<chunks, vectors, blobs>>
bounds == <<runs, faults, crashes>>
-----------------------------------------------------------------------------
DocumentStatus == {"queued", "processing", "indexed", "failed"}

\* A row of the documents table.  Rows are never removed; "absent" is an id
\* no row has been inserted for.
Document == [workspace : Workspaces \cup {NULL}, file : Files \cup {NULL},
             status : DocumentStatus \cup {"absent"}, error : BOOLEAN,
             chunk_count : Nat, deleted : BOOLEAN]

NoDocument == [workspace |-> NULL, file |-> NULL, status |-> "absent",
               error |-> FALSE, chunk_count |-> 0, deleted |-> FALSE]

NoReq == [workspace |-> NULL, file |-> NULL, doc |-> NULL, task |-> FALSE]

\* target: the rows the DELETE statement saw when it began; cleared: the rows
\* it deleted and keeps locked; inserted: new rows written, not yet committed.
\* run names the rows and the vectors this run writes.  0 stands for no rows.
NoTx == [run |-> 0, target |-> 0, cleared |-> 0, inserted |-> FALSE]

Labels == {"idle", "insert", "write", "start", "extract", "clear", "purge",
           "add", "index", "commit", "rollback", "record", "unindex", "mark"}

\* Where an error is not caught: all but run_ingestion's try block.  At "extract"
\* the first commit has taken effect, and its answer may still be lost.
Unguarded == {"insert", "write", "start", "extract", "rollback", "record", "unindex", "mark"}

Exists(d) == documents[d].status # "absent"

\* get_for_user, once the membership check has passed.
Readable(d) == Exists(d) /\ ~documents[d].deleted

\* The rows uq_workspace_checksum compares with an upload: deleted ones too.
SameContent(w, f) ==
    {d \in DocIds : /\ Exists(d)
                    /\ documents[d].workspace = w
                    /\ Checksum[documents[d].file] = Checksum[f]}

\* _get_by_checksum: only the rows that are not deleted.
GetByChecksum(w, f) == {d \in SameContent(w, f) : ~documents[d].deleted}

\* Mutant: the whole ORM copy is written back.
FlushWholeRow(row, loaded, new) == new

\* The UPDATE a session emits at commit: the columns whose value differs from
\* the one the session loaded, and no other.
Flush(row, loaded, new) ==
    [workspace   |-> row.workspace,
     file        |-> row.file,
     status      |-> IF new.status = loaded.status THEN row.status ELSE new.status,
     error       |-> IF new.error = loaded.error THEN row.error ELSE new.error,
     chunk_count |-> IF new.chunk_count = loaded.chunk_count
                     THEN row.chunk_count ELSE new.chunk_count,
     deleted     |-> IF new.deleted = loaded.deleted THEN row.deleted ELSE new.deleted]

\* Another transaction has deleted rows g of d and has not ended.
LockedByOther(p, d, g) ==
    \E q \in Procs \ {p} : req[q].doc = d /\ g # 0 /\ tx[q].cleared = g

\* Mutant: no uq_document_ordinal to wait for.
InsertedUnseen(p, d) == FALSE

\* Another transaction has inserted rows for d and has not ended.
InsertedByOther(p, d) ==
    \E q \in Procs \ {p} : req[q].doc = d /\ tx[q].inserted

Goto(p, label) == pc' = [pc EXCEPT ![p] = label]

\* The process returns its response or acknowledges its task; its session and
\* whatever its transaction held are gone.
Finish(p) ==
    /\ Goto(p, "idle")
    /\ req' = [req EXCEPT ![p] = NoReq]
    /\ session' = [session EXCEPT ![p] = NoDocument]
    /\ tx' = [tx EXCEPT ![p] = NoTx]

\* Process p enters run_ingestion for d with the row it has loaded.
EnterRun(p, d, row, task) ==
    /\ runs[d] < MaxRuns
    /\ runs' = [runs EXCEPT ![d] = @ + 1]
    /\ Goto(p, "start")
    /\ req' = [req EXCEPT ![p] = [workspace |-> row.workspace, file |-> row.file,
                                  doc |-> d, task |-> task]]
    /\ session' = [session EXCEPT ![p] = row]
    /\ tx' = [tx EXCEPT ![p] = [NoTx EXCEPT !.run = runs[d] + 1]]
-----------------------------------------------------------------------------
Init ==
    /\ documents = [d \in DocIds |-> NoDocument]
    /\ chunks = [d \in DocIds |-> 0]
    /\ vectors = [d \in DocIds |-> {}]
    /\ blobs = {}
    /\ broker = {}
    /\ pc = [p \in Procs |-> "idle"]
    /\ req = [p \in Procs |-> NoReq]
    /\ session = [p \in Procs |-> NoDocument]
    /\ tx = [p \in Procs |-> NoTx]
    /\ runs = [d \in DocIds |-> 0]
    /\ faults = 0
    /\ crashes = 0
-----------------------------------------------------------------------------
(* create_document *)

\* Membership holds and no live document has the checksum.  When one has, the
\* request returns it and nothing changes.
CreateDocumentCheck(p, w, f) ==
    /\ pc[p] = "idle"
    /\ GetByChecksum(w, f) = {}
    /\ Goto(p, "insert")
    /\ req' = [req EXCEPT ![p] = [NoReq EXCEPT !.workspace = w, !.file = f]]
    /\ UNCHANGED <<documents, store, broker, session, tx, bounds>>

\* The INSERT and its commit; refresh loads the new row.
CreateDocumentInsert(p, d) ==
    LET w == req[p].workspace
        f == req[p].file
        row == [workspace |-> w, file |-> f, status |-> "queued", error |-> FALSE,
                chunk_count |-> 0, deleted |-> FALSE]
    IN  /\ pc[p] = "insert"
        /\ ~Exists(d)
        /\ SameContent(w, f) = {}
        /\ documents' = [documents EXCEPT ![d] = row]
        /\ session' = [session EXCEPT ![p] = row]
        /\ req' = [req EXCEPT ![p] = [@ EXCEPT !.doc = d]]
        /\ Goto(p, "write")
        /\ UNCHANGED <<store, broker, tx, bounds>>

\* uq_workspace_checksum refuses the INSERT; nothing handles the
\* IntegrityError and the request ends in a 500.
CreateDocumentConflict(p) ==
    /\ pc[p] = "insert"
    /\ SameContent(req[p].workspace, req[p].file) # {}
    /\ Finish(p)
    /\ UNCHANGED <<documents, store, broker, bounds>>

\* Mutant: bytes are only kept for the worker to read.
CreateDocumentUnkept(p) ==
    /\ pc[p] = "write"
    /\ IF IngestEager
       THEN EnterRun(p, req[p].doc, session[p], FALSE) /\ UNCHANGED blobs
       ELSE Finish(p) /\ blobs' = blobs \cup {req[p].doc} /\ UNCHANGED runs
    /\ UNCHANGED <<documents, chunks, vectors, broker, faults, crashes>>

\* Mutant: ingest_eager is ignored.
CreateDocumentDeferred(p) ==
    /\ pc[p] = "write"
    /\ blobs' = blobs \cup {req[p].doc}
    /\ Finish(p)
    /\ UNCHANGED <<documents, chunks, vectors, broker, bounds>>

\* write_bytes, then run_ingestion in this request or the end of it.
CreateDocumentWrite(p) ==
    LET d == req[p].doc
    IN  /\ pc[p] = "write"
        /\ blobs' = blobs \cup {d}
        /\ IF IngestEager
           THEN EnterRun(p, d, session[p], FALSE)
           ELSE Finish(p) /\ UNCHANGED runs
        /\ UNCHANGED <<documents, chunks, vectors, broker, faults, crashes>>
-----------------------------------------------------------------------------
(* reprocess_document and the worker's _ingest_document *)

ReprocessDocument(p, d) ==
    /\ pc[p] = "idle"
    /\ Readable(d)
    /\ d \in blobs
    /\ EnterRun(p, d, documents[d], FALSE)
    /\ UNCHANGED <<documents, store, broker, faults, crashes>>

\* Someone sends the task by name; nothing under src/ does.
SendTask(d) ==
    /\ TasksAreSent
    /\ Exists(d)
    /\ d \notin broker
    /\ runs[d] < MaxRuns
    /\ broker' = broker \cup {d}
    /\ UNCHANGED <<documents, store, pc, req, session, tx, bounds>>

IngestDocument(p, d) ==
    /\ pc[p] = "idle"
    /\ d \in broker
    /\ Readable(d)
    /\ d \in blobs
    /\ broker' = broker \ {d}
    /\ EnterRun(p, d, documents[d], TRUE)
    /\ UNCHANGED <<documents, store, faults, crashes>>

\* The row is deleted, and the task returns; or the bytes are missing, and it
\* raises.  Celery acknowledges both.
IngestDocumentSkip(p, d) ==
    /\ pc[p] = "idle"
    /\ d \in broker
    /\ ~Readable(d) \/ d \notin blobs
    /\ broker' = broker \ {d}
    /\ UNCHANGED <<documents, store, pc, req, session, tx, bounds>>

\* With task_acks_late the broker keeps the message until the task ends, and
\* hands it out again when its visibility timeout passes first.
RedeliverTask(p) ==
    /\ pc[p] # "idle"
    /\ req[p].task
    /\ req[p].doc \notin broker
    /\ runs[req[p].doc] < MaxRuns
    /\ broker' = broker \cup {req[p].doc}
    /\ UNCHANGED <<documents, store, pc, req, session, tx, bounds>>
-----------------------------------------------------------------------------
(* run_ingestion *)

\* status = PROCESSING, error = None, commit.
RunIngestionStart(p) ==
    LET d == req[p].doc
        new == [session[p] EXCEPT !.status = "processing", !.error = FALSE]
    IN  /\ pc[p] = "start"
        /\ documents' = [documents EXCEPT ![d] = Flush(@, session[p], new)]
        /\ session' = [session EXCEPT ![p] = new]
        /\ Goto(p, "extract")
        /\ UNCHANGED <<store, broker, req, tx, bounds>>

\* Extraction and chunking run without an await, up to the DELETE statement,
\* which sees the chunk rows committed when it begins.
RunIngestionExtract(p) ==
    LET d == req[p].doc
    IN  /\ pc[p] = "extract"
        /\ IF ChunkCount[req[p].file] = 0
           THEN Goto(p, "rollback") /\ UNCHANGED tx
           ELSE Goto(p, "clear") /\ tx' = [tx EXCEPT ![p] = [@ EXCEPT !.target = chunks[d]]]
        /\ UNCHANGED <<documents, store, broker, req, session, bounds>>

\* The DELETE waits for a transaction that holds the same rows; rows that one
\* has replaced by then are gone, and the new ones are not touched.
RunIngestionClear(p) ==
    LET d == req[p].doc
        g == tx[p].target
    IN  /\ pc[p] = "clear"
        /\ ~LockedByOther(p, d, g)
        /\ tx' = [tx EXCEPT ![p] = [@ EXCEPT !.cleared = IF chunks[d] = g THEN g ELSE 0]]
        /\ Goto(p, "purge")
        /\ UNCHANGED <<documents, store, broker, req, session, bounds>>

\* Mutant: only the chunk rows of the earlier run are cleared.
RunIngestionUnpurged(p) ==
    /\ pc[p] = "purge"
    /\ Goto(p, "add")
    /\ UNCHANGED <<documents, store, broker, req, session, tx, bounds>>

\* store.delete_by_document: every vector of the document goes at once.
RunIngestionPurge(p) ==
    /\ pc[p] = "purge"
    /\ vectors' = [vectors EXCEPT ![req[p].doc] = {}]
    /\ Goto(p, "add")
    /\ UNCHANGED <<documents, chunks, blobs, broker, req, session, tx, bounds>>

\* Mutant: a run waits for conflicting rows to go away.
RunIngestionAddWaits(p) ==
    /\ pc[p] = "add"
    /\ ~InsertedByOther(p, req[p].doc)
    /\ chunks[req[p].doc] \in {0, tx[p].cleared}
    /\ Goto(p, "index")
    /\ tx' = [tx EXCEPT ![p] = [@ EXCEPT !.inserted = TRUE]]
    /\ UNCHANGED <<documents, store, broker, req, session, bounds>>

\* add_all and flush.  uq_document_ordinal makes the INSERT wait for a
\* transaction that has written or deleted rows of this document, and refuses
\* it if rows this transaction has not deleted are there in the end.
RunIngestionAdd(p) ==
    LET d == req[p].doc
    IN  /\ pc[p] = "add"
        /\ ~InsertedByOther(p, d)
        /\ ~LockedByOther(p, d, chunks[d])
        /\ IF chunks[d] \in {0, tx[p].cleared}
           THEN Goto(p, "index") /\ tx' = [tx EXCEPT ![p] = [@ EXCEPT !.inserted = TRUE]]
           ELSE Goto(p, "rollback") /\ UNCHANGED tx
        /\ UNCHANGED <<documents, store, broker, req, session, bounds>>

\* Embedding batch by batch, then one upsert of all records.
RunIngestionIndex(p) ==
    LET d == req[p].doc
    IN  /\ pc[p] = "index"
        /\ vectors' = [vectors EXCEPT ![d] = @ \cup {tx[p].run}]
        /\ Goto(p, "commit")
        /\ UNCHANGED <<documents, chunks, blobs, broker, req, session, tx, bounds>>

\* Mutants: the new chunk rows are lost with the session; chunk_count is not set.
CommitRowOnly(p) ==
    LET new == [session[p] EXCEPT !.status = "indexed",
                                  !.chunk_count = ChunkCount[req[p].file]]
    IN  /\ documents' = [documents EXCEPT ![req[p].doc] = Flush(@, session[p], new)]
        /\ chunks' = [chunks EXCEPT ![req[p].doc] = 0]

CommitUncounted(p) ==
    LET new == [session[p] EXCEPT !.status = "indexed", !.error = FALSE]
    IN  /\ documents' = [documents EXCEPT ![req[p].doc] = Flush(@, session[p], new)]
        /\ chunks' = [chunks EXCEPT ![req[p].doc] = tx[p].run]

\* What the commit makes durable: the row's net changes and the chunk rows.
CommitIndexed(p) ==
    LET d == req[p].doc
        new == [session[p] EXCEPT !.status = "indexed", !.error = FALSE,
                                  !.chunk_count = ChunkCount[req[p].file]]
    IN  /\ documents' = [documents EXCEPT ![d] = Flush(@, session[p], new)]
        /\ chunks' = [chunks EXCEPT ![d] = tx[p].run]

RunIngestionCommit(p) ==
    /\ pc[p] = "commit"
    /\ CommitIndexed(p)
    /\ Finish(p)
    /\ UNCHANGED <<vectors, blobs, broker, bounds>>

\* db.rollback: the open transaction is undone and the ORM copy expires.
RunIngestionRollback(p) ==
    /\ pc[p] = "rollback"
    /\ tx' = [tx EXCEPT ![p] = NoTx]
    /\ Goto(p, "record")
    /\ UNCHANGED <<documents, store, broker, req, session, bounds>>

\* The failure is recorded: on an expired copy every assigned column is written.
RunIngestionRecord(p) ==
    /\ pc[p] = "record"
    /\ documents' = [documents EXCEPT ![req[p].doc] =
                        [@ EXCEPT !.status = "failed", !.error = TRUE, !.chunk_count = 0]]
    /\ Finish(p)
    /\ UNCHANGED <<store, broker, bounds>>
-----------------------------------------------------------------------------
(* delete_document *)

DeleteDocumentStart(p, d) ==
    /\ pc[p] = "idle"
    /\ Readable(d)
    /\ Goto(p, "unindex")
    /\ req' = [req EXCEPT ![p] = [NoReq EXCEPT !.doc = d]]
    /\ session' = [session EXCEPT ![p] = documents[d]]
    /\ UNCHANGED <<documents, store, broker, tx, bounds>>

\* Mutant: the row is marked and the vectors are left behind.
DeleteDocumentMarkOnly(p) ==
    /\ pc[p] = "unindex"
    /\ Goto(p, "mark")
    /\ UNCHANGED <<documents, store, broker, req, session, tx, bounds>>

DeleteDocumentPurge(p) ==
    /\ pc[p] = "unindex"
    /\ vectors' = [vectors EXCEPT ![req[p].doc] = {}]
    /\ Goto(p, "mark")
    /\ UNCHANGED <<documents, chunks, blobs, broker, req, session, tx, bounds>>

DeleteDocumentMark(p) ==
    LET d == req[p].doc
        new == [session[p] EXCEPT !.deleted = TRUE]
    IN  /\ pc[p] = "mark"
        /\ documents' = [documents EXCEPT ![d] = Flush(@, session[p], new)]
        /\ Finish(p)
        /\ UNCHANGED <<store, broker, bounds>>
-----------------------------------------------------------------------------
(* Failures *)

\* A call inside run_ingestion's try block raises.  The call may have taken
\* effect before its answer was lost.
IngestionFault(p) ==
    /\ pc[p] \in {"clear", "purge", "add", "index", "commit"}
    /\ faults < MaxFaults
    /\ faults' = faults + 1
    /\ Goto(p, "rollback")
    /\ \/ UNCHANGED <<documents, chunks, vectors, tx>>
       \/ /\ pc[p] = "purge"
          /\ vectors' = [vectors EXCEPT ![req[p].doc] = {}]
          /\ UNCHANGED <<documents, chunks, tx>>
       \/ /\ pc[p] = "index"
          /\ vectors' = [vectors EXCEPT ![req[p].doc] = @ \cup {tx[p].run}]
          /\ UNCHANGED <<documents, chunks, tx>>
       \/ /\ pc[p] = "commit"
          /\ CommitIndexed(p)
          /\ tx' = [tx EXCEPT ![p] = NoTx]
          /\ UNCHANGED vectors
    /\ UNCHANGED <<blobs, broker, req, session, runs, crashes>>

\* Mutant: the message is acknowledged when it is taken.
CrashAckedEarly(p) ==
    /\ pc[p] # "idle"
    /\ crashes < MaxCrashes
    /\ crashes' = crashes + 1
    /\ Finish(p)
    /\ UNCHANGED <<documents, store, broker, runs, faults>>

\* The process dies: the database undoes the open transaction, and the broker
\* takes back the message of a task (task_acks_late, task_reject_on_worker_lost).
Crash(p) ==
    /\ pc[p] # "idle"
    /\ crashes < MaxCrashes
    /\ crashes' = crashes + 1
    /\ broker' = IF req[p].task THEN broker \cup {req[p].doc} ELSE broker
    /\ Finish(p)
    /\ UNCHANGED <<documents, store, runs, faults>>

\* A call outside of the try block raises, before it has taken effect or after:
\* the error escapes to the caller.  A request ends in a 500, and Celery
\* acknowledges the message of a task that raises.
Escape(p) ==
    /\ pc[p] \in Unguarded
    /\ faults < MaxFaults
    /\ faults' = faults + 1
    /\ Finish(p)
    /\ UNCHANGED <<documents, store, broker, runs, crashes>>
-----------------------------------------------------------------------------
\* New work arriving at an idle process.
Request(p) ==
    \/ \E w \in Workspaces, f \in Files : CreateDocumentCheck(p, w, f)
    \/ \E d \in DocIds : ReprocessDocument(p, d) \/ DeleteDocumentStart(p, d)

\* A worker takes the next message.
TakeTask(p) == \E d \in DocIds : IngestDocument(p, d) \/ IngestDocumentSkip(p, d)

\* The step a process that has begun its work takes next.
Proceed(p) ==
    \/ \E d \in DocIds : CreateDocumentInsert(p, d)
    \/ CreateDocumentConflict(p)
    \/ CreateDocumentWrite(p)
    \/ RunIngestionStart(p)
    \/ RunIngestionExtract(p)
    \/ RunIngestionClear(p)
    \/ RunIngestionPurge(p)
    \/ RunIngestionAdd(p)
    \/ RunIngestionIndex(p)
    \/ RunIngestionCommit(p)
    \/ RunIngestionRollback(p)
    \/ RunIngestionRecord(p)
    \/ DeleteDocumentPurge(p)
    \/ DeleteDocumentMark(p)

Next ==
    \/ \E p \in Handlers : Request(p)
    \/ \E p \in Workers : TakeTask(p)
    \/ \E p \in Procs : \/ Proceed(p) \/ RedeliverTask(p)
                      \/ IngestionFault(p) \/ Crash(p) \/ Escape(p)
    \/ \E d \in DocIds : SendTask(d)

Spec == Init /\ [][Next]_vars

\* The event loop and the workers keep running: a process that has begun goes
\* on, and a waiting message is taken.  Users and operators owe nothing.
Fairness ==
    /\ \A p \in Procs : WF_vars(Proceed(p))
    /\ \A p \in Workers : WF_vars(TakeTask(p))
-----------------------------------------------------------------------------
(* Properties *)

\* No request and no task is at work on d.
Quiet(d) == \A p \in Procs : req[p].doc # d

InRun(p) == pc[p] \in {"start", "extract", "clear", "purge", "add", "index",
                       "commit", "rollback", "record"}

\* Every variable has its type.
TypeOK ==
    /\ documents \in [DocIds -> Document]
    /\ chunks \in [DocIds -> Nat]
    /\ vectors \in [DocIds -> SUBSET Nat]
    /\ blobs \subseteq DocIds
    /\ broker \subseteq DocIds
    /\ pc \in [Procs -> Labels]
    /\ req \in [Procs -> [workspace : Workspaces \cup {NULL}, file : Files \cup {NULL},
                          doc : DocIds \cup {NULL}, task : BOOLEAN]]
    /\ session \in [Procs -> Document]
    /\ tx \in [Procs -> [run : Nat, target : Nat, cleared : Nat, inserted : BOOLEAN]]
    /\ runs \in [DocIds -> Nat]
    /\ faults \in Nat
    /\ crashes \in Nat

\* "Raw bytes are persisted so failed documents can be replayed": whatever
\* crashed or failed, a document that ingestion has touched (its status has
\* left QUEUED) has its bytes on disk, so reprocess_document can replay it.
ReplayableBytes ==
    \A d \in DocIds : documents[d].status \notin {"absent", "queued"} => d \in blobs

\* Idempotent ingestion: two rows of one workspace never hold the same
\* content, however many uploads of it race between check and INSERT.
UniqueContent ==
    \A d, e \in DocIds :
        /\ d # e
        /\ Exists(d) /\ Exists(e)
        /\ documents[d].workspace = documents[e].workspace
        => Checksum[documents[d].file] # Checksum[documents[e].file]

\* Two runs of one document never both have new chunk rows in flight, and the
\* rows a run replaces are still the committed ones when it comes to commit:
\* concurrent runs of run_ingestion are ordered by the chunks table.
SingleWriter ==
    \A p \in Procs : tx[p].inserted =>
        /\ chunks[req[p].doc] \in {0, tx[p].cleared}
        /\ \A q \in Procs \ {p} : tx[q].inserted => req[q].doc # req[p].doc

\* An INDEXED document has committed chunk rows, of its last successful run;
\* a document that never was indexed has none.
IndexedHasChunks ==
    \A d \in DocIds : documents[d].status = "indexed" => chunks[d] \in 1 .. runs[d]

\* A deleted document stays deleted: no run that loaded the row before the
\* delete writes its stale copy of deleted_at back.
NoResurrection ==
    [][\A d \in DocIds : documents[d].deleted => documents'[d].deleted]_vars

\* Nothing has failed and nobody has died so far.
NothingFailed == faults = 0 /\ crashes = 0

\* Without failures, and however its runs and deletes interleave, a live
\* INDEXED document nobody is working on is searchable: the vector store holds
\* the vectors of exactly its committed chunk rows.
IndexedSearchable ==
    NothingFailed =>
        \A d \in DocIds :
            Quiet(d) /\ Readable(d) /\ documents[d].status = "indexed"
                => vectors[d] = {chunks[d]}

\* No search finds a deleted document.
Purged(d) == documents[d].deleted => vectors[d] = {}

\* The row agrees with the file of an INDEXED document.
RowConsistent(d) ==
    /\ ~documents[d].error
    /\ documents[d].chunk_count = ChunkCount[documents[d].file]

\* Delete purges: a deleted document nobody is working on has no vectors, so
\* that searches no longer return it.
DeletedPurged == \A d \in DocIds : Quiet(d) => Purged(d)

\* p has a run of d open: the upload that will begin the first run counts.
RunOpen(p, d) == (pc[p] = "write" \/ InRun(p)) /\ req[p].doc = d

Lifecycle == INSTANCE DocumentLifecycle WITH
    Ids <- DocIds,
    Agents <- Procs,
    Contents <- Workspaces \X {Checksum[f] : f \in Files},
    Runs <- 1 .. MaxRuns,
    content <- [d \in DocIds |-> IF Exists(d)
                                 THEN <<documents[d].workspace, Checksum[documents[d].file]>>
                                 ELSE NULL],
    status <- [d \in DocIds |-> documents[d].status],
    deleted <- [d \in DocIds |-> documents[d].deleted],
    open <- [d \in DocIds |-> {p \in Procs : RunOpen(p, d)}]

\* The pipeline keeps what DocumentLifecycle promises: content is in a workspace
\* once, a deletion is final and opens no run, and no run publishes chunk rows
\* but together with its verdict or changes another's, whatever stale copy of
\* the row it works on and whoever fails or dies.
ImplementsLifecycle == Lifecycle!Spec

\* The same content uploaded twice resolves to the existing document: an
\* upload that found no document with its checksum never meets the constraint.
UploadResolves ==
    \A p \in Procs : pc[p] = "insert" => SameContent(req[p].workspace, req[p].file) = {}

\* A request or a task that has begun comes to its end: waiting for the row
\* locks of another run, it is never left waiting for good.
WorkEnds == \A p \in Procs : pc[p] # "idle" ~> pc[p] = "idle"
=============================================================================
