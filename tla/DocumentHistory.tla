-------------------------- MODULE DocumentHistory ---------------------------
(***************************************************************************)
(* DocumentIngestion with the history that the promises broken by          *)
(* overlapping work and escaped errors need: which documents two requests  *)
(* or tasks have been at work on at the same time, and from the upload or  *)
(* a run of which an error has escaped.                                    *)
(***************************************************************************)
EXTENDS DocumentIngestion

VARIABLES
    shared,     \* documents that two processes have worked on at once
    escaped     \* documents that an error has cost an upload or a run

historyVars == <<vars, shared, escaped>>

AtWork(p, d) == pc[p] # "idle" /\ req[p].doc = d

HistoryInit == Init /\ shared = {} /\ escaped = {}

HistoryNext ==
    /\ Next
    /\ shared' = shared \cup
           {d \in DocIds : \E p, q \in Procs : p # q /\ AtWork(p, d)' /\ AtWork(q, d)'}
    /\ escaped' = escaped \cup {d \in DocIds : \E p \in Procs : RunOpen(p, d) /\ Escape(p)}

HistorySpec == HistoryInit /\ [][HistoryNext]_historyVars

FairHistorySpec == HistorySpec /\ Fairness

\* Delete purges, whatever failed or died: a deleted document at rest that no two
\* requests or tasks have worked on at once has no vectors to be found by.
DeletedPurgedUnlessShared ==
    \A d \in DocIds \ shared : Quiet(d) => Purged(d)

\* What the row says of an INDEXED document is true of its file, and it has no
\* error of an earlier run, unless two runs of it have overlapped.
RowConsistentUnlessShared ==
    \A d \in DocIds \ shared : documents[d].status = "indexed" => RowConsistent(d)

\* A reprocess repairs what failures and crashes left behind: an INDEXED document
\* at rest has no vectors of an earlier run, unless runs of it have overlapped.
NeverStaleUnlessShared ==
    \A d \in DocIds \ shared :
        Quiet(d) /\ documents[d].status = "indexed" => vectors[d] \subseteq {chunks[d]}

\* An uploaded document is ingested: it does not stay QUEUED, as long as no
\* process dies under it and no error escapes from its upload.
UploadsGetIngested ==
    \A d \in DocIds : documents[d].status = "queued" ~>
        \/ documents[d].status \in {"indexed", "failed"}
        \/ documents[d].deleted
        \/ crashes > 0
        \/ d \in escaped

\* task_acks_late, task_reject_on_worker_lost: a task a worker has taken ends in a
\* verdict on its document even if the worker dies in the middle or a call of the
\* pipeline fails, short of the bound on runs.  What ends it without a verdict is
\* an error that escapes, whose message Celery acknowledges.
TaskSurvivesCrash ==
    \A d \in DocIds :
        (\E p \in Procs : req[p].task /\ req[p].doc = d) ~>
            \/ documents[d].status \in {"indexed", "failed"}
            \/ documents[d].deleted
            \/ runs[d] = MaxRuns
            \/ d \in escaped
=============================================================================
