------------------------- MODULE DocumentLifecycle -------------------------
(***************************************************************************)
(* What ingestion promises of a document, and all a client of the API can  *)
(* count on: which steps its row and its chunk rows may take, whoever      *)
(* takes them and however many runs of run_ingestion are open at once.     *)
(* Where the bytes, the vectors, the messages and the transactions are is  *)
(* DocumentIngestion's business.                                           *)
(***************************************************************************)
CONSTANTS
    Ids,
    Agents,     \* whoever may have a run open
    Contents,   \* what uq_workspace_checksum compares
    Runs,       \* numbers of the runs of a document
    NULL

VARIABLES
    content,    \* what a document was uploaded with; NULL: there is no such document
    status,
    chunks,     \* the run whose chunk rows are committed; 0: none
    deleted,
    open        \* the agents with a run of a document open

vars == <<content, status, chunks, deleted, open>>
-----------------------------------------------------------------------------
Init ==
    /\ content = [d \in Ids |-> NULL]
    /\ status = [d \in Ids |-> "absent"]
    /\ chunks = [d \in Ids |-> 0]
    /\ deleted = [d \in Ids |-> FALSE]
    /\ open = [d \in Ids |-> {}]

\* Content is uploaded once per workspace, deleted documents included; the
\* request keeps the document open for a first run.
Upload(a, d, c) ==
    /\ content[d] = NULL
    /\ c \notin {content[e] : e \in Ids}
    /\ content' = [content EXCEPT ![d] = c]
    /\ status' = [status EXCEPT ![d] = "queued"]
    /\ open' = [open EXCEPT ![d] = {a}]
    /\ UNCHANGED <<chunks, deleted>>

\* No run is opened on a deleted document.
Open(a, d) ==
    /\ content[d] # NULL
    /\ ~deleted[d]
    /\ open' = [open EXCEPT ![d] = @ \cup {a}]
    /\ UNCHANGED <<content, status, chunks, deleted>>

Begin(a, d) ==
    /\ a \in open[d]
    /\ status' = [status EXCEPT ![d] = "processing"]
    /\ UNCHANGED <<content, chunks, deleted, open>>

\* The verdict and the new chunk rows are one step.  The run is over, unless it
\* has not heard of its own success.
Index(a, d, run) ==
    /\ a \in open[d]
    /\ status[d] # "queued"
    /\ run # chunks[d]
    /\ status' = [status EXCEPT ![d] = "indexed"]
    /\ chunks' = [chunks EXCEPT ![d] = run]
    /\ open' \in {open, [open EXCEPT ![d] = @ \ {a}]}
    /\ UNCHANGED <<content, deleted>>

\* A failure leaves the chunk rows of the last success.
Fail(a, d) ==
    /\ a \in open[d]
    /\ status[d] # "queued"
    /\ status' = [status EXCEPT ![d] = "failed"]
    /\ open' = [open EXCEPT ![d] = @ \ {a}]
    /\ UNCHANGED <<content, chunks, deleted>>

\* The run ends without a word.
Abandon(a, d) ==
    /\ a \in open[d]
    /\ open' = [open EXCEPT ![d] = @ \ {a}]
    /\ UNCHANGED <<content, status, chunks, deleted>>

Delete(d) ==
    /\ content[d] # NULL
    /\ deleted' = [deleted EXCEPT ![d] = TRUE]
    /\ UNCHANGED <<content, status, chunks, open>>

Next ==
    \E d \in Ids :
        \/ Delete(d)
        \/ \E a \in Agents :
              \/ \E c \in Contents : Upload(a, d, c)
              \/ Open(a, d)
              \/ Begin(a, d)
              \/ \E run \in Runs : Index(a, d, run)
              \/ Fail(a, d)
              \/ Abandon(a, d)

Spec == Init /\ [][Next]_vars
=============================================================================
