------------------------ MODULE KnowledgeBaseProofs ------------------------
(***************************************************************************)
(* Conversations over documents that change at the same time, for any      *)
(* number of chats, documents, workspaces and processes of the pipeline.   *)
(*                                                                         *)
(* Of the pipeline the proofs use what DocumentIngestionProofs shows of    *)
(* each of its steps, and what DocumentSearchProofs shows of the documents *)
(* that no two processes have been at work on at once.                     *)
(***************************************************************************)
EXTENDS KnowledgeBase, TLAPS

Pipeline == INSTANCE DocumentSearchProofs

\* The two instances of the pipeline take the same steps.
LEMMA SameSteps == Ingestion!Next => Pipeline!Next
  BY DEF Ingestion!Next, Pipeline!Next, Ingestion!Proceed, Pipeline!Proceed,
         Ingestion!Request, Pipeline!Request, Ingestion!TakeTask, Pipeline!TakeTask,
         Ingestion!Crash, Pipeline!Crash, Ingestion!Finish, Pipeline!Finish,
         Ingestion!Goto, Pipeline!Goto, Ingestion!store, Pipeline!store,
         Ingestion!NoReq, Pipeline!NoReq, Ingestion!NoTx, Pipeline!NoTx,
         Ingestion!NoDocument, Pipeline!NoDocument, Ingestion!Procs, Pipeline!Procs,
         Ingestion!SendTask, Pipeline!SendTask,
         Ingestion!RedeliverTask, Pipeline!RedeliverTask,
         Ingestion!IngestionFault, Pipeline!IngestionFault,
         Ingestion!CommitIndexed, Pipeline!CommitIndexed, Ingestion!Flush, Pipeline!Flush,
         Ingestion!CreateDocumentCheck, Pipeline!CreateDocumentCheck,
         Ingestion!CreateDocumentInsert, Pipeline!CreateDocumentInsert,
         Ingestion!CreateDocumentConflict, Pipeline!CreateDocumentConflict,
         Ingestion!CreateDocumentWrite, Pipeline!CreateDocumentWrite,
         Ingestion!ReprocessDocument, Pipeline!ReprocessDocument,
         Ingestion!IngestDocument, Pipeline!IngestDocument,
         Ingestion!IngestDocumentSkip, Pipeline!IngestDocumentSkip,
         Ingestion!DeleteDocumentStart, Pipeline!DeleteDocumentStart,
         Ingestion!DeleteDocumentPurge, Pipeline!DeleteDocumentPurge,
         Ingestion!DeleteDocumentMark, Pipeline!DeleteDocumentMark,
         Ingestion!RunIngestionStart, Pipeline!RunIngestionStart,
         Ingestion!RunIngestionExtract, Pipeline!RunIngestionExtract,
         Ingestion!RunIngestionClear, Pipeline!RunIngestionClear,
         Ingestion!RunIngestionPurge, Pipeline!RunIngestionPurge,
         Ingestion!RunIngestionAdd, Pipeline!RunIngestionAdd,
         Ingestion!RunIngestionIndex, Pipeline!RunIngestionIndex,
         Ingestion!RunIngestionCommit, Pipeline!RunIngestionCommit,
         Ingestion!RunIngestionRollback, Pipeline!RunIngestionRollback,
         Ingestion!RunIngestionRecord, Pipeline!RunIngestionRecord,
         Ingestion!EnterRun, Pipeline!EnterRun, Ingestion!bounds, Pipeline!bounds,
         Ingestion!Exists, Pipeline!Exists, Ingestion!Readable, Pipeline!Readable,
         Ingestion!SameContent, Pipeline!SameContent,
         Ingestion!GetByChecksum, Pipeline!GetByChecksum,
         Ingestion!LockedByOther, Pipeline!LockedByOther,
         Ingestion!InsertedByOther, Pipeline!InsertedByOther,
         Ingestion!Escape, Pipeline!Escape, Ingestion!Unguarded, Pipeline!Unguarded

\* So do the two histories.
LEMMA SameHistory == Ingestion!HistoryNext => Pipeline!HistoryNext
  <1>1. \A p \in Pipeline!Procs, d \in DocIds :
           /\ Ingestion!AtWork(p, d)' <=> Pipeline!AtWork(p, d)'
           /\ Ingestion!RunOpen(p, d) /\ Ingestion!Escape(p)
                <=> Pipeline!RunOpen(p, d) /\ Pipeline!Escape(p)
    BY DEF Ingestion!AtWork, Pipeline!AtWork, Ingestion!RunOpen, Pipeline!RunOpen,
           Ingestion!InRun, Pipeline!InRun, Ingestion!Escape, Pipeline!Escape,
           Ingestion!Unguarded, Pipeline!Unguarded, Ingestion!Finish, Pipeline!Finish,
           Ingestion!Goto, Pipeline!Goto, Ingestion!store, Pipeline!store,
           Ingestion!NoReq, Pipeline!NoReq, Ingestion!NoTx, Pipeline!NoTx,
           Ingestion!NoDocument, Pipeline!NoDocument
  <1>2. Ingestion!Procs = Pipeline!Procs
    BY DEF Ingestion!Procs, Pipeline!Procs
  <1> QED BY <1>1, <1>2, SameSteps DEF Ingestion!HistoryNext, Pipeline!HistoryNext

\* A step is one of the conversations or one of the pipeline.
LEMMA StepOfOne ==
    [Next]_vars => \/ [ChatNext]_chatVars /\ UNCHANGED ingestionVars
                   \/ [Pipeline!HistoryNext]_(Pipeline!historyVars) /\ UNCHANGED chatVars
  BY SameHistory DEF Next, vars

\* To the pipeline and its history, a step of the conversations is none.
LEMMA HistoryStep == [Next]_vars => [Pipeline!HistoryNext]_(Pipeline!historyVars)
  BY StepOfOne DEF ingestionVars, Pipeline!vars, Pipeline!historyVars

\* Its history left aside, it is a step of the pipeline or none.
LEMMA PipelineStep == [Next]_vars => [Pipeline!Next]_(Pipeline!vars)
  BY HistoryStep DEF Pipeline!HistoryNext, Pipeline!historyVars

\* The documents begin as those of the pipeline do.
LEMMA PipelineInit == Init => Pipeline!HistoryInit
  BY DEF Init, Ingestion!HistoryInit, Pipeline!HistoryInit, Ingestion!Init, Pipeline!Init, Ingestion!NoDocument, Pipeline!NoDocument,
         Ingestion!NoReq, Pipeline!NoReq, Ingestion!NoTx, Pipeline!NoTx,
         Ingestion!Procs, Pipeline!Procs

\* The pipeline is run as its own specification has it.
LEMMA PipelineRuns == Spec => Pipeline!HistorySpec
  BY PipelineInit, HistoryStep, PTL DEF Spec, Pipeline!HistorySpec

\* An id without a row is in no workspace.
Blank == \A d \in DocIds : ~Pipeline!Exists(d) => documents[d].workspace = NULL

KnowledgeInv == Pipeline!TypeInv /\ Blank

\* No step moves a document out of its workspace, or takes back a deletion.
LEMMA DocumentsStay ==
    ASSUME KnowledgeInv, [Next]_vars
    PROVE  \A d \in DocIds :
             /\ documents[d].workspace \in Workspaces =>
                  documents'[d].workspace = documents[d].workspace
             /\ documents[d].deleted => documents'[d].deleted
  <1>1. Pipeline!RowMoves
    BY PipelineStep, Pipeline!RowStep, IngestionConstants
       DEF Ingestion!ConstantsAssumption, KnowledgeInv
  <1>2. NULL \notin Workspaces
    BY ChatConstants
  <1>3. ASSUME NEW d \in DocIds, documents[d].workspace \in Workspaces \/ documents[d].deleted
        PROVE  Pipeline!Exists(d)
    BY <1>2, <1>3 DEF KnowledgeInv, Blank, Pipeline!TypeInv, Pipeline!Referenced
  <1> QED BY <1>1, <1>3 DEF Pipeline!RowMoves

\* The tables and the vector store have their types, whoever reads them.
LEMMA KnowledgeInvariant == Spec => []KnowledgeInv
  <1>1. Spec => []Pipeline!TypeInv
    <2>1. Pipeline!Spec => []Pipeline!TypeInv
      BY Pipeline!TypeCorrect, IngestionConstants DEF Ingestion!ConstantsAssumption
    <2>2. Pipeline!HistorySpec => Pipeline!Spec
      BY Pipeline!HistoryIsOfThePipeline, IngestionConstants DEF Ingestion!ConstantsAssumption
    <2> QED BY <2>1, <2>2, PipelineRuns, PTL
  <1>2. Init => Blank
    BY PipelineInit DEF Pipeline!HistoryInit, Pipeline!Init, Pipeline!NoDocument, Blank
  <1>3. Pipeline!TypeInv /\ Blank /\ [Next]_vars => Blank'
    <2> SUFFICES ASSUME Pipeline!TypeInv, Blank, [Next]_vars PROVE Blank'
      OBVIOUS
    <2>1. Pipeline!RowMoves
      BY PipelineStep, Pipeline!RowStep, IngestionConstants
         DEF Ingestion!ConstantsAssumption
    <2> QED BY <2>1 DEF Blank, Pipeline!RowMoves, Pipeline!Exists
  <1> QED BY <1>1, <1>2, <1>3, PTL DEF Spec, KnowledgeInv
-----------------------------------------------------------------------------
(* Turns *)

\* The requests at work have a turn of their own: numbered when it was asked,
\* and of a conversation that exists.
Asked(p) ==
    /\ turn[p] \in Turn
    /\ turn[p].number \in 1 .. turns
    /\ conversations[turn[p].conversation] \in Workspaces
    /\ stage[p] \in {"recall", "remember", "failed"} => turn[p].kind = "agent"

AtWork(p) == stage[p] # "idle"

\* No two turns have one number, whether at work or on record.
Unlike ==
    /\ \A p, q \in Chatters :
         p # q /\ AtWork(p) /\ AtWork(q) => turn[p].number # turn[q].number
    /\ \A m \in messages : /\ m.turn <= turns
                           /\ conversations[m.conversation] \in Workspaces
                           /\ \A p \in Chatters : AtWork(p) => turn[p].number # m.turn
    /\ \A r \in agent_runs : /\ r.turn <= turns
                             /\ \A p \in Chatters : AtWork(p) => turn[p].number # r.turn

ChatInv == TypeOK /\ Unlike /\ \A p \in Chatters : AtWork(p) => Asked(p)

\* No request but p's moves.
OnlyMoves(p) ==
    \A q \in Chatters \ {p} : stage'[q] = stage[q] /\ turn'[q] = turn[q]

\* The chunks a request can find are of the documents there are.
LEMMA HitsAreChunks ==
    ASSUME KnowledgeInv, NEW w
    PROVE  DenseHits(w) \in SUBSET ChunkIds /\ KeywordHits(w) \in SUBSET ChunkIds
  BY DEF DenseHits, KeywordHits, ChunkIds, KnowledgeInv, Pipeline!TypeInv, Pipeline!TypeOK

\* What the ranking keeps is among the candidates.
LEMMA AssembledIsFound ==
    ASSUME NEW candidates, NEW kept \in Assembled(candidates)
    PROVE  kept \subseteq candidates
  BY DEF Assembled

\* Tail and Append, entry by entry.
LEMMA AppendedEntries ==
    ASSUME NEW S, NEW entries \in Seq(S), NEW entry \in S
    PROVE  LET longer == Append(entries, entry)
           IN  /\ longer \in Seq(S) /\ Tail(longer) \in Seq(S)
               /\ Len(longer) = Len(entries) + 1 /\ Len(Tail(longer)) = Len(entries)
               /\ \A i \in 1 .. Len(longer) :
                    longer[i] = entry \/ (i \in 1 .. Len(entries) /\ longer[i] = entries[i])
               /\ \A i \in 1 .. Len(entries) : Tail(longer)[i] = longer[i + 1]
  <1> DEFINE longer == Append(entries, entry)
  <1>1. /\ longer \in Seq(S) /\ Len(longer) = Len(entries) + 1
        /\ \A i \in 1 .. Len(longer) :
             longer[i] = entry \/ (i \in 1 .. Len(entries) /\ longer[i] = entries[i])
    OBVIOUS
  <1>2. /\ Tail(longer) \in Seq(S) /\ Len(Tail(longer)) = Len(longer) - 1
        /\ \A i \in 1 .. Len(Tail(longer)) : Tail(longer)[i] = longer[i + 1]
    BY <1>1
  <1> HIDE DEF longer
  <1>3. Len(entries) \in Nat
    OBVIOUS
  <1> QED BY <1>1, <1>2, <1>3

\* A bounded store is a store, of the new entry and entries it held before.
LEMMA RememberedType ==
    ASSUME NEW S, NEW entries \in Seq(S), NEW entry \in S, NEW size \in Nat
    PROVE  Remembered(entries, entry, size) \in Seq(S)
  BY AppendedEntries DEF Remembered

\* What the cache remembers are entries, whatever is added to it.
LEMMA RememberedEntries ==
    ASSUME NEW S, NEW entries \in Seq(S), NEW entry \in S, NEW size \in Nat
    PROVE  \A i \in 1 .. Len(Remembered(entries, entry, size)) :
             \/ Remembered(entries, entry, size)[i] = entry
             \/ \E j \in 1 .. Len(entries) :
                  Remembered(entries, entry, size)[i] = entries[j]
  <1> DEFINE longer == Append(entries, entry)
  <1>1. /\ Len(longer) = Len(entries) + 1 /\ Len(Tail(longer)) = Len(entries)
        /\ \A i \in 1 .. Len(longer) :
             longer[i] = entry \/ (i \in 1 .. Len(entries) /\ longer[i] = entries[i])
        /\ \A i \in 1 .. Len(entries) : Tail(longer)[i] = longer[i + 1]
        /\ Len(entries) \in Nat
    BY AppendedEntries
  <1>2. Remembered(entries, entry, size) = IF Len(longer) > size THEN Tail(longer) ELSE longer
    BY DEF Remembered
  <1> HIDE DEF longer
  <1>3. \A i \in 1 .. Len(entries) : i + 1 \in 1 .. Len(longer)
    BY <1>1
  <1> QED BY <1>1, <1>2, <1>3

\* In the memory, a number in it has been the new one, or was in it already.
LEMMA RememberedNumbers ==
    ASSUME NEW entries \in Seq(Nat), NEW n \in Nat, NEW size \in Nat
    PROVE  \A i \in 1 .. Len(Remembered(entries, n, size)) :
             \/ Remembered(entries, n, size)[i] = n
             \/ \E j \in 1 .. Len(entries) : Remembered(entries, n, size)[i] = entries[j]
  <1>1. PICK S : S = Nat
    OBVIOUS
  <1>2. entries \in Seq(S) /\ n \in S
    BY <1>1
  <1> QED BY <1>2, RememberedEntries

\* A step of p that goes on with its turn keeps what is known of the turns.
LEMMA GoesOn ==
    ASSUME ChatInv, NEW p \in Chatters, AtWork(p), OnlyMoves(p), stage'[p] # "idle",
           turn'[p] \in Turn, turn'[p].number = turn[p].number,
           turn'[p].conversation = turn[p].conversation, turn'[p].kind = turn[p].kind,
           stage'[p] \in {"recall", "remember", "failed"} => turn[p].kind = "agent",
           UNCHANGED <<conversations, messages, agent_runs, turns>>
    PROVE  Unlike' /\ \A q \in Chatters : AtWork(q)' => Asked(q)'
  <1>1. ASSUME NEW q \in Chatters, AtWork(q)'
        PROVE  AtWork(q) /\ turn'[q].number = turn[q].number
    BY <1>1 DEF AtWork, OnlyMoves
  <1>2. Unlike'
    BY <1>1 DEF ChatInv, Unlike
  <1>3. ASSUME NEW q \in Chatters, AtWork(q)' PROVE Asked(q)'
    BY <1>3 DEF ChatInv, Asked, AtWork, OnlyMoves
  <1> QED BY <1>2, <1>3

\* So does a step that ends it, with its rows on record or without.
LEMMA Ends ==
    ASSUME ChatInv, NEW p \in Chatters, AtWork(p), OnlyMoves(p), stage'[p] = "idle",
           \A m \in messages' : m \in messages \/ (/\ m.turn = turn[p].number
                                                   /\ m.conversation = turn[p].conversation),
           \A r \in agent_runs' : r \in agent_runs \/ r.turn = turn[p].number,
           UNCHANGED <<conversations, turns>>
    PROVE  Unlike' /\ \A q \in Chatters : AtWork(q)' => Asked(q)'
  <1>1. ASSUME NEW q \in Chatters, AtWork(q)'
        PROVE  /\ AtWork(q) /\ q # p /\ turn'[q] = turn[q] /\ stage'[q] = stage[q]
               /\ turn[q].number # turn[p].number
    BY <1>1 DEF AtWork, OnlyMoves, ChatInv, Unlike
  <1>2. turn[p].number <= turns /\ conversations[turn[p].conversation] \in Workspaces
    BY DEF ChatInv, Asked
  <1>3. Unlike'
    BY <1>1, <1>2 DEF ChatInv, Unlike
  <1>4. ASSUME NEW q \in Chatters, AtWork(q)' PROVE Asked(q)'
    BY <1>1, <1>4 DEF ChatInv, Asked
  <1> QED BY <1>3, <1>4

\* Every step of the conversations keeps the types and the numbers of the turns.
LEMMA ChatStep == KnowledgeInv /\ ChatInv /\ [ChatNext]_chatVars => ChatInv'
  <1> SUFFICES ASSUME KnowledgeInv, ChatInv, [ChatNext]_chatVars PROVE ChatInv'
    OBVIOUS
  <1> USE ChatConstants
  <1>0. /\ stage = [q \in Chatters |-> stage[q]] /\ turn = [q \in Chatters |-> turn[q]]
        /\ TypeOK
    BY DEF ChatInv, TypeOK
  <1>1. ASSUME NEW c \in ConvIds, NEW w \in Workspaces, CreateConversation(c, w)
        PROVE  ChatInv'
    <2>1. /\ conversations' \in [ConvIds -> Workspaces \cup {NULL}]
          /\ \A v \in ConvIds : conversations[v] \in Workspaces =>
               conversations'[v] = conversations[v]
      BY <1>1 DEF CreateConversation, ChatInv, TypeOK
    <2>2. /\ UNCHANGED <<messages, agent_runs, cache, memory, stage, turn, turns, failures>>
      BY <1>1 DEF CreateConversation
    <2>3. TypeOK'
      BY <1>0, <2>1, <2>2 DEF TypeOK
    <2>4. Unlike'
      BY <1>0, <2>1, <2>2 DEF ChatInv, Unlike, AtWork, TypeOK, Message
    <2>5. \A p \in Chatters : AtWork(p)' => Asked(p)'
      BY <1>0, <2>1, <2>2 DEF ChatInv, Asked, AtWork, Turn
    <2> QED BY <2>3, <2>4, <2>5 DEF ChatInv
  <1>2. ASSUME NEW p \in Chatters, NEW c \in ConvIds, NEW q \in Questions, NEW kind \in Kinds,
               Ask(p, c, q, kind)
        PROVE  ChatInv'
    <2> DEFINE asked == [kind |-> kind, conversation |-> c, question |-> q,
                         number |-> turns + 1, citations |-> {}, cached |-> FALSE,
                         deleted |-> {d \in DocIds : documents[d].deleted}]
    <2>1. /\ asked \in Turn /\ asked.number = turns + 1 /\ asked.kind = kind
          /\ asked.conversation = c
      BY <1>0 DEF Turn, TypeOK
    <2>2. /\ turns' = turns + 1 /\ turns \in Nat /\ conversations[c] \in Workspaces
          /\ turn' = [turn EXCEPT ![p] = asked]
          /\ UNCHANGED <<conversations, messages, agent_runs, cache, memory, failures>>
      BY <1>0, <1>2 DEF Ask, tables, TypeOK
    <2> HIDE DEF asked
    <2>3. /\ OnlyMoves(p) /\ turn'[p] = asked /\ stage[p] = "idle"
          /\ stage'[p] = FirstStage(kind) /\ stage' \in [Chatters -> Stages]
      <3>1. FirstStage(kind) \in Stages
        BY DEF FirstStage, Stages, Kinds
      <3>2. stage' = [stage EXCEPT ![p] = FirstStage(kind)] /\ stage[p] = "idle"
        BY <1>2 DEF Ask, Goto
      <3> QED BY <1>0, <2>2, <3>1, <3>2 DEF OnlyMoves, TypeOK
    <2>4. TypeOK'
      BY <1>0, <2>1, <2>2, <2>3 DEF TypeOK
    <2>5. ASSUME NEW r \in Chatters, r # p, AtWork(r)'
          PROVE  AtWork(r) /\ turn'[r] = turn[r] /\ stage'[r] = stage[r]
                 /\ turn[r].number \in 1 .. turns
      BY <2>3, <2>5 DEF AtWork, OnlyMoves, ChatInv, Asked
    <2>6. Unlike'
      <3>1. \A m \in messages : m.turn \in Nat /\ m.turn <= turns
        BY <1>0 DEF ChatInv, Unlike, TypeOK, Message
      <3>2. \A r \in agent_runs : r.turn \in Nat /\ r.turn <= turns
        BY <1>0 DEF ChatInv, Unlike, TypeOK, AgentRun
      <3>3. \A r, s \in Chatters : r # s /\ AtWork(r)' /\ AtWork(s)' =>
                                     turn'[r].number # turn'[s].number
        BY <2>1, <2>2, <2>3, <2>5 DEF ChatInv, Unlike
      <3>4. \A m \in messages : /\ m.turn <= turns'
                                /\ conversations[m.conversation] \in Workspaces
                                /\ \A r \in Chatters : AtWork(r)' => turn'[r].number # m.turn
        BY <2>1, <2>2, <2>3, <2>5, <3>1 DEF ChatInv, Unlike
      <3>5. \A m \in agent_runs : /\ m.turn <= turns'
                                  /\ \A r \in Chatters : AtWork(r)' => turn'[r].number # m.turn
        BY <2>1, <2>2, <2>3, <2>5, <3>2 DEF ChatInv, Unlike
      <3> QED BY <2>2, <3>3, <3>4, <3>5 DEF Unlike
    <2>7. \A r \in Chatters : AtWork(r)' => Asked(r)'
      <3>1. ASSUME NEW r \in Chatters, r # p, AtWork(r)' PROVE Asked(r)'
        BY <2>2, <2>5, <3>1 DEF ChatInv, Asked
      <3>2. Asked(p)'
        BY <2>1, <2>2, <2>3 DEF Asked, FirstStage, Kinds
      <3> QED BY <3>1, <3>2
    <2> QED BY <2>4, <2>6, <2>7 DEF ChatInv
  \* The steps that go on, by what they write to the turn.
  <1>3. ASSUME NEW p \in Chatters, AtWork(p), NEW label \in Stages \ {"idle"}, Goto(p, label),
               label \in {"recall", "remember", "failed"} => turn[p].kind = "agent",
               UNCHANGED tables, UNCHANGED turns, failures' \in Nat,
               cache' \in [Workspaces -> Seq(CachedAnswer)],
               memory' \in [Workspaces -> Seq(Nat)],
               \/ UNCHANGED turn
               \/ \E found \in SUBSET ChunkIds :
                    \/ turn' = [turn EXCEPT ![p].citations = found]
                    \/ turn' = [turn EXCEPT ![p].citations = found, ![p].cached = TRUE]
        PROVE  ChatInv'
    <2>1. turn[p] \in Turn
      BY <1>3 DEF ChatInv, Asked
    <2>2. /\ turn'[p] \in Turn /\ turn'[p].number = turn[p].number
          /\ turn'[p].conversation = turn[p].conversation /\ turn'[p].kind = turn[p].kind
          /\ turn' \in [Chatters -> Turn \cup {NULL}]
          /\ \A q \in Chatters \ {p} : turn'[q] = turn[q]
      <3>1. CASE UNCHANGED turn
        BY <1>0, <2>1, <3>1 DEF TypeOK
      <3>2. ASSUME NEW found \in SUBSET ChunkIds,
                   turn' = [turn EXCEPT ![p].citations = found, ![p].cached = TRUE]
            PROVE  <2>2
        <4> DEFINE t == [turn[p] EXCEPT !.citations = found, !.cached = TRUE]
        <4>1. /\ t \in Turn /\ t.number = turn[p].number
              /\ t.conversation = turn[p].conversation /\ t.kind = turn[p].kind
          BY <2>1 DEF Turn
        <4>2. turn' = [turn EXCEPT ![p] = t]
          BY <1>0, <3>2
        <4> HIDE DEF t
        <4> QED BY <1>0, <4>1, <4>2 DEF TypeOK
      <3>3. ASSUME NEW found \in SUBSET ChunkIds, turn' = [turn EXCEPT ![p].citations = found]
            PROVE  <2>2
        <4> DEFINE t == [turn[p] EXCEPT !.citations = found]
        <4>1. /\ t \in Turn /\ t.number = turn[p].number
              /\ t.conversation = turn[p].conversation /\ t.kind = turn[p].kind
          BY <2>1 DEF Turn
        <4>2. turn' = [turn EXCEPT ![p] = t]
          BY <3>3
        <4> HIDE DEF t
        <4> QED BY <1>0, <4>1, <4>2 DEF TypeOK
      <3> QED BY <1>3, <3>1, <3>2, <3>3
    <2>3. /\ OnlyMoves(p) /\ stage'[p] = label /\ stage' \in [Chatters -> Stages]
          /\ UNCHANGED <<conversations, messages, agent_runs>>
      BY <1>0, <1>3, <2>2 DEF Goto, OnlyMoves, TypeOK, tables
    <2>4. TypeOK'
      BY <1>0, <1>3, <2>2, <2>3 DEF TypeOK
    <2>5. Unlike' /\ \A q \in Chatters : AtWork(q)' => Asked(q)'
      BY <1>3, <2>2, <2>3, GoesOn
    <2> QED BY <2>4, <2>5 DEF ChatInv
  <1>4. ASSUME NEW p \in Chatters, Lookup(p) PROVE ChatInv'
    <2>1. /\ AtWork(p) /\ UNCHANGED <<tables, cache, memory, turns, failures>>
      BY <1>4 DEF Lookup, AtWork
    <2>2. CASE Goto(p, "dense") /\ UNCHANGED turn
      BY <1>0, <1>3, <2>1, <2>2 DEF Stages, TypeOK
    <2>3. ASSUME NEW hit \in Hits(WorkspaceOf(p), turn[p].question), Goto(p, "persist"),
                 turn' = [turn EXCEPT ![p].citations = hit.citations, ![p].cached = TRUE]
          PROVE  ChatInv'
      <3>1. WorkspaceOf(p) \in Workspaces
        BY <2>1 DEF ChatInv, Asked, WorkspaceOf
      <3>2. hit \in CachedAnswer
        BY <1>0, <2>3, <3>1 DEF Hits, TypeOK
      <3>3. hit.citations \in SUBSET ChunkIds
        BY <3>2 DEF CachedAnswer
      <3> QED BY <1>0, <1>3, <2>1, <2>3, <3>3 DEF Stages, TypeOK
    <2> QED BY <1>4, <2>2, <2>3 DEF Lookup
  <1>5. ASSUME NEW p \in Chatters, Recall(p) PROVE ChatInv'
    <2> DEFINE label == IF AgentMaxSteps > 1 THEN "dense" ELSE "complete"
    <2>1. /\ AtWork(p) /\ UNCHANGED <<tables, cache, memory, turn, turns, failures>>
          /\ Goto(p, label)
      BY <1>5 DEF Recall, AtWork
    <2> QED BY <1>0, <1>3, <2>1 DEF Stages, TypeOK
  <1>6. ASSUME NEW p \in Chatters, Dense(p) PROVE ChatInv'
    <2>1. /\ AtWork(p) /\ UNCHANGED <<tables, cache, memory, turns, failures>>
          /\ Goto(p, "keyword")
          /\ turn' = [turn EXCEPT ![p].citations = DenseHits(WorkspaceOf(p))]
      BY <1>6 DEF Dense, AtWork
    <2>2. DenseHits(WorkspaceOf(p)) \in SUBSET ChunkIds
      BY HitsAreChunks
    <2> QED BY <1>0, <1>3, <2>1, <2>2 DEF Stages, TypeOK
  <1>7. ASSUME NEW p \in Chatters, Keyword(p) PROVE ChatInv'
    <2>1. /\ AtWork(p) /\ UNCHANGED <<tables, cache, memory, turns, failures>>
          /\ Goto(p, "complete")
      BY <1>7 DEF Keyword, AtWork
    <2>2. PICK matching \in SUBSET KeywordHits(WorkspaceOf(p)) :
             \E kept \in Assembled(turn[p].citations \cup matching) :
                turn' = [turn EXCEPT ![p].citations = kept]
      BY <1>7 DEF Keyword
    <2>3. turn[p].citations \in SUBSET ChunkIds
      BY <2>1 DEF ChatInv, Asked, Turn
    <2>4. \A kept \in Assembled(turn[p].citations \cup matching) : kept \in SUBSET ChunkIds
      BY <2>2, <2>3, HitsAreChunks, AssembledIsFound
    <2> QED BY <1>0, <1>3, <2>1, <2>2, <2>4 DEF Stages, TypeOK
  <1>8. ASSUME NEW p \in Chatters, Complete(p) PROVE ChatInv'
    <2> DEFINE w == WorkspaceOf(p)
               entry == [question |-> turn[p].question, citations |-> turn[p].citations]
               label == IF turn[p].kind = "agent" THEN "remember" ELSE "persist"
    <2>1. /\ AtWork(p) /\ UNCHANGED <<tables, memory, turn, turns, failures>> /\ Goto(p, label)
          /\ cache' = IF turn[p].kind = "chat" /\ CacheSize > 0
                      THEN [cache EXCEPT ![w] = Remembered(@, entry, CacheSize)]
                      ELSE cache
      BY <1>8 DEF Complete, AtWork
    <2>2. w \in Workspaces /\ entry \in CachedAnswer
      BY <2>1 DEF ChatInv, Asked, WorkspaceOf, Turn, CachedAnswer
    <2>3. cache[w] \in Seq(CachedAnswer)
      BY <1>0, <2>2 DEF TypeOK
    <2>4. Remembered(cache[w], entry, CacheSize) \in Seq(CachedAnswer)
      BY <2>2, <2>3, RememberedType
    <2>5. cache' \in [Workspaces -> Seq(CachedAnswer)]
      BY <1>0, <2>1, <2>2, <2>4 DEF TypeOK
    <2>6. /\ label \in Stages \ {"idle"}
          /\ label \in {"recall", "remember", "failed"} => turn[p].kind = "agent"
      BY DEF Stages
    <2> HIDE DEF label, entry, w
    <2> QED BY <1>0, <1>3, <2>1, <2>5, <2>6 DEF TypeOK
  <1>9. ASSUME NEW p \in Chatters, Remember(p) PROVE ChatInv'
    <2> DEFINE w == WorkspaceOf(p)
    <2>1. /\ AtWork(p) /\ UNCHANGED <<tables, cache, turn, turns, failures>>
          /\ Goto(p, "persist")
          /\ memory' = IF MemorySize > 0
                       THEN [memory EXCEPT ![w] = Remembered(@, turn[p].number, MemorySize)]
                       ELSE memory
      BY <1>9 DEF Remember, AtWork
    <2>2. w \in Workspaces /\ turn[p].number \in Nat
      BY <2>1 DEF ChatInv, Asked, WorkspaceOf, Turn
    <2>3. memory[w] \in Seq(Nat)
      BY <1>0, <2>2 DEF TypeOK
    <2>4. Remembered(memory[w], turn[p].number, MemorySize) \in Seq(Nat)
      BY <2>2, <2>3, RememberedType
    <2>5. memory' \in [Workspaces -> Seq(Nat)]
      BY <1>0, <2>1, <2>2, <2>4 DEF TypeOK
    <2> HIDE DEF w
    <2> QED BY <1>0, <1>3, <2>1, <2>5 DEF Stages, TypeOK
  \* The steps that end a turn, by the rows they leave.
  <1>10. ASSUME NEW p \in Chatters, AtWork(p), Finish(p),
                messages' \subseteq messages \cup {UserMessage(p), AssistantMessage(p)},
                \A r \in agent_runs' : r \in agent_runs \/ (/\ r \in AgentRun
                                                            /\ r.turn = turn[p].number),
                UNCHANGED <<conversations, cache, memory, turns>>, failures' \in Nat
         PROVE  ChatInv'
    <2>1. /\ stage' = [stage EXCEPT ![p] = "idle"] /\ turn' = [turn EXCEPT ![p] = NULL]
      BY <1>10 DEF Finish, Goto
    <2>2. turn[p] \in Turn
      BY <1>10 DEF ChatInv, Asked
    <2>3. \A m \in {UserMessage(p), AssistantMessage(p)} :
             /\ m \in Message /\ m.turn = turn[p].number
             /\ m.conversation = turn[p].conversation
      <3>1. /\ UserMessage(p) \in Message /\ UserMessage(p).turn = turn[p].number
            /\ UserMessage(p).conversation = turn[p].conversation
        BY <2>2 DEF UserMessage, Message, Turn
      <3>2. AssistantMessage(p) = [UserMessage(p) EXCEPT !.role = "assistant",
                                                         !.citations = turn[p].citations]
        BY DEF AssistantMessage
      <3>3. turn[p].citations \in SUBSET ChunkIds
        BY <2>2 DEF Turn
      <3>4. /\ AssistantMessage(p) \in Message
            /\ AssistantMessage(p).turn = UserMessage(p).turn
            /\ AssistantMessage(p).conversation = UserMessage(p).conversation
        BY <3>1, <3>2, <3>3 DEF Message
      <3> QED BY <3>1, <3>4
    <2>4. /\ OnlyMoves(p) /\ stage'[p] = "idle" /\ stage' \in [Chatters -> Stages]
          /\ turn' \in [Chatters -> Turn \cup {NULL}]
      BY <1>0, <2>1 DEF OnlyMoves, TypeOK, Stages
    <2>5. TypeOK'
      BY <1>0, <1>10, <2>3, <2>4 DEF TypeOK
    <2>6. Unlike' /\ \A q \in Chatters : AtWork(q)' => Asked(q)'
      BY <1>10, <2>3, <2>4, Ends
    <2> QED BY <2>5, <2>6 DEF ChatInv
  <1>11. ASSUME NEW p \in Chatters, Persist(p) PROVE ChatInv'
    <2>1. /\ AtWork(p) /\ Finish(p) /\ UNCHANGED <<conversations, cache, memory, turns>>
          /\ messages' = messages \cup {UserMessage(p), AssistantMessage(p)}
          /\ failures' \in Nat
      BY <1>0, <1>11 DEF Persist, AtWork, TypeOK
    <2> DEFINE run == [conversation |-> turn[p].conversation, turn |-> turn[p].number,
                       status |-> "completed", answered |-> TRUE]
    <2>2. agent_runs' = agent_runs \/ agent_runs' = agent_runs \cup {run}
      BY <1>11 DEF Persist
    <2>3. run \in AgentRun /\ run.turn = turn[p].number
      BY <2>1 DEF ChatInv, Asked, Turn, AgentRun
    <2> HIDE DEF run
    <2> QED BY <1>10, <2>1, <2>2, <2>3
  <1>12. ASSUME NEW p \in Chatters, PersistFailed(p) PROVE ChatInv'
    <2>1. /\ AtWork(p) /\ Finish(p) /\ UNCHANGED <<conversations, cache, memory, turns>>
          /\ messages' \subseteq messages \cup {UserMessage(p), AssistantMessage(p)}
          /\ failures' \in Nat
      BY <1>0, <1>12 DEF PersistFailed, AtWork, TypeOK
    <2> DEFINE run == [conversation |-> turn[p].conversation, turn |-> turn[p].number,
                       status |-> "failed", answered |-> FALSE]
    <2>2. agent_runs' = agent_runs \cup {run}
      BY <1>12 DEF PersistFailed
    <2>3. run \in AgentRun /\ run.turn = turn[p].number
      BY <2>1 DEF ChatInv, Asked, Turn, AgentRun
    <2> HIDE DEF run
    <2> QED BY <1>10, <2>1, <2>2, <2>3
  <1>13. ASSUME NEW p \in Chatters, Fail(p) PROVE ChatInv'
    <2>1. /\ AtWork(p) /\ failures' \in Nat /\ UNCHANGED <<tables, cache, memory, turns>>
      BY <1>0, <1>13 DEF Fail, AtWork, TypeOK
    <2>2. CASE turn[p].kind = "agent" /\ Goto(p, "failed") /\ UNCHANGED turn
      BY <1>0, <1>3, <2>1, <2>2 DEF Stages, TypeOK
    <2>3. CASE Finish(p)
      BY <1>10, <2>1, <2>3 DEF tables
    <2> QED BY <1>13, <2>2, <2>3 DEF Fail
  <1>14. CASE Restart
    <2>1. /\ stage' = [p \in Chatters |-> "idle"] /\ turn' = [p \in Chatters |-> NULL]
          /\ cache' = [w \in Workspaces |-> <<>>] /\ memory' = [w \in Workspaces |-> <<>>]
          /\ failures' = failures + 1
          /\ UNCHANGED <<conversations, messages, agent_runs, turns>>
      BY <1>14 DEF Restart, tables
    <2>2. TypeOK'
      BY <1>0, <2>1 DEF TypeOK, Stages
    <2>3. Unlike' /\ \A q \in Chatters : AtWork(q)' => Asked(q)'
      BY <2>1 DEF ChatInv, Unlike, AtWork
    <2> QED BY <2>2, <2>3 DEF ChatInv
  <1>15. CASE UNCHANGED chatVars
    BY <1>15 DEF chatVars, tables, ChatInv, TypeOK, Unlike, AtWork, Asked
  <1> QED
    BY <1>1, <1>2, <1>4, <1>5, <1>6, <1>7, <1>8, <1>9, <1>11, <1>12, <1>13, <1>14, <1>15
       DEF ChatNext, Answer

\* The invariant of the chat.
LEMMA ChatInvariant == Spec => []ChatInv
  <1>1. Init => ChatInv
    BY DEF Init, ChatInit, ChatInv, TypeOK, Unlike, AtWork, Stages
  <1>2. KnowledgeInv /\ ChatInv /\ [Next]_vars => ChatInv'
    <2>1. ChatInv /\ UNCHANGED chatVars => ChatInv'
      BY DEF chatVars, tables, ChatInv, TypeOK, Unlike, AtWork, Asked
    <2> QED BY <2>1, ChatStep, StepOfOne
  <1> QED BY <1>1, <1>2, KnowledgeInvariant, PTL DEF Spec

\* Every variable of the conversations keeps its type.
THEOREM ChatTypesAreKept == Spec => []TypeOK
  <1>1. ChatInv => TypeOK
    BY DEF ChatInv
  <1> QED BY <1>1, ChatInvariant, PTL
-----------------------------------------------------------------------------
(* The record *)

\* The rows of a turn, whatever its citations.
LEMMA RowsOfTurn ==
    ASSUME NEW p
    PROVE  /\ UserMessage(p).conversation = turn[p].conversation
           /\ UserMessage(p).turn = turn[p].number
           /\ UserMessage(p).role = "user" /\ UserMessage(p).citations = {}
           /\ AssistantMessage(p).conversation = turn[p].conversation
           /\ AssistantMessage(p).turn = turn[p].number
           /\ AssistantMessage(p).role = "assistant"
           /\ AssistantMessage(p).citations = turn[p].citations
  <1> DEFINE asked == [conversation |-> turn[p].conversation, turn |-> turn[p].number,
                       role |-> "user", created_at |-> turn[p].number, citations |-> {}]
             answered == [asked EXCEPT !.role = "assistant", !.citations = turn[p].citations]
  <1>1. UserMessage(p) = asked /\ AssistantMessage(p) = answered
    BY Zenon DEF AssistantMessage, UserMessage
  <1>2. /\ answered.conversation = asked.conversation /\ answered.turn = asked.turn
        /\ answered.role = "assistant" /\ answered.citations = turn[p].citations
    OBVIOUS
  <1> HIDE DEF answered
  <1> QED BY <1>1, <1>2

\* Only a commit writes the record.
LEMMA RecordSteps ==
    ASSUME [ChatNext]_chatVars
    PROVE  \/ UNCHANGED <<messages, agent_runs>>
           \/ \E p \in Chatters : Persist(p) \/ PersistFailed(p)
  BY DEF ChatNext, Answer, CreateConversation, Ask, Lookup, Recall, Dense, Keyword, Complete,
         Remember, Fail, Restart, tables, chatVars

\* A commit adds the question, and the answer or a FAILED run to account for it.
LEMMA WholeStep == TurnsAreWhole /\ [ChatNext]_chatVars => TurnsAreWhole'
  <1> SUFFICES ASSUME TurnsAreWhole, [ChatNext]_chatVars PROVE TurnsAreWhole'
    OBVIOUS
  <1>1. CASE UNCHANGED <<messages, agent_runs>>
    BY <1>1 DEF TurnsAreWhole, Recorded
  <1>2. ASSUME NEW p \in Chatters, Persist(p) PROVE TurnsAreWhole'
    <2>1. messages' = messages \cup {UserMessage(p), AssistantMessage(p)}
      BY <1>2 DEF Persist
    <2>2. agent_runs \subseteq agent_runs'
      BY <1>2 DEF Persist
    <2> QED BY <2>1, <2>2, RowsOfTurn DEF TurnsAreWhole, Recorded
  <1>3. ASSUME NEW p \in Chatters, PersistFailed(p) PROVE TurnsAreWhole'
    <2>1. messages' = messages \cup {UserMessage(p)}
      BY <1>3 DEF PersistFailed
    <2>2. /\ agent_runs \subseteq agent_runs'
          /\ \E r \in agent_runs' : r.turn = turn[p].number /\ r.status = "failed"
      <3> DEFINE run == [conversation |-> turn[p].conversation, turn |-> turn[p].number,
                         status |-> "failed", answered |-> FALSE]
      <3>1. agent_runs' = agent_runs \cup {run}
        BY <1>3 DEF PersistFailed
      <3>2. run.turn = turn[p].number /\ run.status = "failed"
        OBVIOUS
      <3> HIDE DEF run
      <3> QED BY <3>1, <3>2
    <2> QED BY <2>1, <2>2, RowsOfTurn DEF TurnsAreWhole, Recorded
  <1> QED BY <1>1, <1>2, <1>3, RecordSteps

\* No answer is on record without its question, and no question without its
\* answer or the FAILED run that accounts for it.
THEOREM RecordIsWhole == Spec => []TurnsAreWhole
  <1>1. Init => TurnsAreWhole
    BY DEF Init, ChatInit, TurnsAreWhole
  <1>2. TurnsAreWhole /\ [Next]_vars => TurnsAreWhole'
    <2>1. TurnsAreWhole /\ UNCHANGED chatVars => TurnsAreWhole'
      BY DEF chatVars, tables, TurnsAreWhole, Recorded
    <2> QED BY <2>1, WholeStep, StepOfOne
  <1> QED BY <1>1, <1>2, PTL DEF Spec

\* What RunsAreAudited says of the runs on record.
RunsOnRecord ==
    \A r \in agent_runs :
        /\ Recorded(r.conversation, r.turn, "user")
        /\ (r.status = "completed") = Recorded(r.conversation, r.turn, "assistant")
        /\ r.answered = Recorded(r.conversation, r.turn, "assistant")

\* A remembered run is on record, or an agent has it ready to commit.
Remembering ==
    failures = 0 =>
        \A w \in Workspaces : \A i \in 1 .. Len(memory[w]) :
            \/ \E r \in agent_runs : r.turn = memory[w][i] /\ r.status = "completed"
            \/ \E p \in Chatters : /\ stage[p] = "persist" /\ turn[p].kind = "agent"
                                   /\ turn[p].number = memory[w][i]

\* The rows of one turn say nothing of another's.
LEMMA RecordedElsewhere ==
    ASSUME NEW n, messages \subseteq messages', \A m \in messages' \ messages : m.turn = n,
           NEW c, NEW k, k # n, NEW role
    PROVE  Recorded(c, k, role)' = Recorded(c, k, role)
  BY DEF Recorded

\* A commit adds a run together with the rows it speaks of.
LEMMA RunsOnRecordStep == ChatInv /\ RunsOnRecord /\ [ChatNext]_chatVars => RunsOnRecord'
  <1> SUFFICES ASSUME ChatInv, RunsOnRecord, [ChatNext]_chatVars PROVE RunsOnRecord'
    OBVIOUS
  <1>1. CASE UNCHANGED <<messages, agent_runs>>
    BY <1>1 DEF RunsOnRecord, Recorded
  <1>2. ASSUME NEW p \in Chatters, AtWork(p), messages \subseteq messages',
               \A m \in messages' \ messages : m.turn = turn[p].number,
               NEW r \in agent_runs
        PROVE  /\ Recorded(r.conversation, r.turn, "user")'
               /\ (r.status = "completed") = Recorded(r.conversation, r.turn, "assistant")'
               /\ r.answered = Recorded(r.conversation, r.turn, "assistant")'
    <2>1. r.turn # turn[p].number
      BY <1>2 DEF ChatInv, Unlike
    <2>2. /\ Recorded(r.conversation, r.turn, "user")' = Recorded(r.conversation, r.turn, "user")
          /\ Recorded(r.conversation, r.turn, "assistant")'
               = Recorded(r.conversation, r.turn, "assistant")
      BY <1>2, <2>1, RecordedElsewhere
    <2> QED BY <2>2 DEF RunsOnRecord
  <1>3. ASSUME NEW p \in Chatters, Persist(p) PROVE RunsOnRecord'
    <2>1. AtWork(p) /\ messages' = messages \cup {UserMessage(p), AssistantMessage(p)}
      BY <1>3 DEF Persist, AtWork
    <2> DEFINE run == [conversation |-> turn[p].conversation, turn |-> turn[p].number,
                       status |-> "completed", answered |-> TRUE]
    <2>2. agent_runs' \subseteq agent_runs \cup {run}
      BY <1>3 DEF Persist
    <2>3. /\ run.conversation = turn[p].conversation /\ run.turn = turn[p].number
          /\ run.status = "completed" /\ run.answered = TRUE
      OBVIOUS
    <2>4. ASSUME NEW c, NEW k, c = turn[p].conversation, k = turn[p].number
          PROVE  Recorded(c, k, "user")' /\ Recorded(c, k, "assistant")'
      BY <2>1, <2>4, RowsOfTurn DEF Recorded
    <2> HIDE DEF run
    <2>5. /\ messages \subseteq messages'
          /\ \A m \in messages' \ messages : m.turn = turn[p].number
      BY <2>1, RowsOfTurn
    <2>6. ASSUME NEW r \in agent_runs'
          PROVE  /\ Recorded(r.conversation, r.turn, "user")'
                 /\ (r.status = "completed") = Recorded(r.conversation, r.turn, "assistant")'
                 /\ r.answered = Recorded(r.conversation, r.turn, "assistant")'
      <3>1. CASE r \in agent_runs
        BY <1>2, <2>1, <2>5, <3>1
      <3>2. CASE r = run
        <4>1. /\ Recorded(r.conversation, r.turn, "user")'
              /\ Recorded(r.conversation, r.turn, "assistant")'
          BY <2>3, <2>4, <3>2
        <4>2. (r.status = "completed") = TRUE /\ r.answered = TRUE
          BY <2>3, <3>2
        <4>3. Recorded(r.conversation, r.turn, "assistant")' = TRUE
          BY <4>1 DEF Recorded
        <4> QED BY <4>1, <4>2, <4>3
      <3> QED BY <2>2, <3>1, <3>2
    <2> QED BY <2>6 DEF RunsOnRecord
  <1>4. ASSUME NEW p \in Chatters, PersistFailed(p) PROVE RunsOnRecord'
    <2>1. AtWork(p) /\ messages' = messages \cup {UserMessage(p)}
      BY <1>4 DEF PersistFailed, AtWork
    <2> DEFINE run == [conversation |-> turn[p].conversation, turn |-> turn[p].number,
                       status |-> "failed", answered |-> FALSE]
    <2>2. agent_runs' \subseteq agent_runs \cup {run}
      BY <1>4 DEF PersistFailed
    <2>3. /\ run.conversation = turn[p].conversation /\ run.turn = turn[p].number
          /\ run.status = "failed" /\ run.answered = FALSE
      OBVIOUS
    <2>4. \A m \in messages : m.turn # turn[p].number
      BY <2>1 DEF ChatInv, Unlike
    <2>5. ASSUME NEW c, NEW k, c = turn[p].conversation, k = turn[p].number
          PROVE  Recorded(c, k, "user")' /\ ~Recorded(c, k, "assistant")'
      BY <2>1, <2>4, <2>5, RowsOfTurn DEF Recorded
    <2> HIDE DEF run
    <2>6. /\ messages \subseteq messages'
          /\ \A m \in messages' \ messages : m.turn = turn[p].number
      BY <2>1, RowsOfTurn
    <2>7. ASSUME NEW r \in agent_runs'
          PROVE  /\ Recorded(r.conversation, r.turn, "user")'
                 /\ (r.status = "completed") = Recorded(r.conversation, r.turn, "assistant")'
                 /\ r.answered = Recorded(r.conversation, r.turn, "assistant")'
      <3>1. CASE r \in agent_runs
        BY <1>2, <2>1, <2>6, <3>1
      <3>2. CASE r = run
        <4>1. /\ Recorded(r.conversation, r.turn, "user")'
              /\ ~Recorded(r.conversation, r.turn, "assistant")'
          BY <2>3, <2>5, <3>2
        <4>2. (r.status = "completed") = FALSE /\ r.answered = FALSE
          BY <2>3, <3>2
        <4>3. Recorded(r.conversation, r.turn, "assistant")' = FALSE
          BY <4>1 DEF Recorded
        <4> QED BY <4>1, <4>2, <4>3
      <3> QED BY <2>2, <3>1, <3>2
    <2> QED BY <2>7 DEF RunsOnRecord
  <1> QED BY <1>1, <1>3, <1>4, RecordSteps

\* An agent that has remembered its run commits it next, unless something fails.
LEMMA RememberingStep == ChatInv /\ Remembering /\ [ChatNext]_chatVars => Remembering'
  <1> SUFFICES ASSUME ChatInv, Remembering, [ChatNext]_chatVars, failures' = 0,
                      NEW w \in Workspaces, NEW i \in 1 .. Len(memory'[w])
               PROVE  \/ \E r \in agent_runs' : r.turn = memory'[w][i] /\ r.status = "completed"
                      \/ \E p \in Chatters : /\ stage'[p] = "persist" /\ turn'[p].kind = "agent"
                                             /\ turn'[p].number = memory'[w][i]
    BY DEF Remembering
  <1> DEFINE Kept(n) ==
               \/ \E r \in agent_runs' : r.turn = n /\ r.status = "completed"
               \/ \E p \in Chatters : /\ stage'[p] = "persist" /\ turn'[p].kind = "agent"
                                      /\ turn'[p].number = n
             Known(n) ==
               \/ \E r \in agent_runs : r.turn = n /\ r.status = "completed"
               \/ \E p \in Chatters : /\ stage[p] = "persist" /\ turn[p].kind = "agent"
                                      /\ turn[p].number = n
  <1>0. /\ stage = [q \in Chatters |-> stage[q]] /\ turn = [q \in Chatters |-> turn[q]]
        /\ TypeOK /\ failures \in Nat
    BY DEF ChatInv, TypeOK
  <1>1. ASSUME failures = 0, NEW j \in 1 .. Len(memory[w]) PROVE Known(memory[w][j])
    BY <1>1 DEF Remembering
  <1>2. ASSUME NEW p \in Chatters, OnlyMoves(p), stage[p] # "persist",
               agent_runs \subseteq agent_runs', NEW n, Known(n)
        PROVE  Kept(n)
    <2>1. CASE \E r \in agent_runs : r.turn = n /\ r.status = "completed"
      BY <1>2, <2>1
    <2>2. ASSUME NEW q \in Chatters, stage[q] = "persist", turn[q].kind = "agent",
                 turn[q].number = n
          PROVE  Kept(n)
      <3>1. q # p
        BY <1>2, <2>2
      <3>2. stage'[q] = stage[q] /\ turn'[q] = turn[q]
        BY <1>2, <3>1 DEF OnlyMoves
      <3> QED BY <2>2, <3>2
    <2> QED BY <1>2, <2>1, <2>2
  <1>3. ASSUME UNCHANGED <<stage, turn, agent_runs, memory, failures>> PROVE Kept(memory'[w][i])
    BY <1>1, <1>3
  <1>4. ASSUME NEW p \in Chatters, OnlyMoves(p), stage[p] # "persist",
               agent_runs \subseteq agent_runs', UNCHANGED <<memory, failures>>
        PROVE  Kept(memory'[w][i])
    BY <1>1, <1>2, <1>4
  <1>5. ASSUME NEW p \in Chatters, NEW c \in ConvIds, NEW q \in Questions, NEW kind \in Kinds,
               Ask(p, c, q, kind)
        PROVE  Kept(memory'[w][i])
    <2>1. /\ OnlyMoves(p) /\ stage[p] = "idle" /\ UNCHANGED <<agent_runs, memory, failures>>
      BY <1>0, <1>5 DEF Ask, Goto, OnlyMoves, tables
    <2> QED BY <1>4, <2>1
  <1>6. ASSUME NEW p \in Chatters, \/ Lookup(p) \/ Recall(p) \/ Dense(p) \/ Keyword(p)
                                   \/ Complete(p)
        PROVE  Kept(memory'[w][i])
    <2>1. /\ OnlyMoves(p) /\ stage[p] # "persist" /\ UNCHANGED <<agent_runs, memory, failures>>
      BY <1>0, <1>6 DEF Lookup, Recall, Dense, Keyword, Complete, Goto, OnlyMoves, tables
    <2> QED BY <1>4, <2>1
  <1>7. ASSUME NEW p \in Chatters, Remember(p) PROVE Kept(memory'[w][i])
    <2> DEFINE v == WorkspaceOf(p)
    <2>1. /\ stage[p] = "remember" /\ stage'[p] = "persist" /\ OnlyMoves(p)
          /\ UNCHANGED <<turn, agent_runs, failures>>
          /\ \/ UNCHANGED memory
             \/ memory' = [memory EXCEPT ![v] = Remembered(@, turn[p].number, MemorySize)]
      BY <1>0, <1>7 DEF Remember, Goto, OnlyMoves, tables
    <2>2. AtWork(p) /\ turn[p].kind = "agent" /\ turn[p].number \in Nat /\ v \in Workspaces
      BY <2>1 DEF ChatInv, Asked, AtWork, WorkspaceOf, Turn
    <2>3. CASE UNCHANGED memory
      BY <1>4, <2>1, <2>3
    <2>4. CASE memory' = [memory EXCEPT ![v] = Remembered(@, turn[p].number, MemorySize)]
      <3>1. CASE w = v
        <4>1. memory[w] \in Seq(Nat) /\ memory'[w] = Remembered(memory[w], turn[p].number, MemorySize)
          BY <1>0, <2>2, <2>4, <3>1 DEF TypeOK
        <4>2. \/ memory'[w][i] = turn[p].number
              \/ \E j \in 1 .. Len(memory[w]) : memory'[w][i] = memory[w][j]
          <5> DEFINE n == turn[p].number
          <5>1. n \in Nat /\ MemorySize \in Nat /\ memory[w] \in Seq(Nat)
            BY <2>2, <4>1, ChatConstants
          <5>2. memory'[w] = Remembered(memory[w], n, MemorySize)
            BY <4>1
          <5> HIDE DEF n
          <5>3. \/ memory'[w][i] = n
                \/ \E j \in 1 .. Len(memory[w]) : memory'[w][i] = memory[w][j]
            BY <5>1, <5>2, RememberedNumbers
          <5> QED BY <5>3 DEF n
        <4>3. CASE memory'[w][i] = turn[p].number
          BY <2>1, <2>2, <4>3
        <4>4. ASSUME NEW j \in 1 .. Len(memory[w]), memory'[w][i] = memory[w][j]
              PROVE  Kept(memory'[w][i])
          <5>1. Known(memory[w][j])
            BY <1>1, <2>1
          <5>2. Kept(memory[w][j])
            BY <1>2, <2>1, <5>1
          <5> HIDE DEF Kept
          <5> QED BY <4>4, <5>2
        <4> QED BY <4>2, <4>3, <4>4
      <3>2. CASE w # v
        <4>1. memory'[w] = memory[w]
          BY <1>0, <2>2, <2>4, <3>2 DEF TypeOK
        <4> QED BY <1>1, <1>2, <2>1, <4>1
      <3> QED BY <3>1, <3>2
    <2> QED BY <2>1, <2>3, <2>4
  <1>8. ASSUME NEW p \in Chatters, Persist(p) PROVE Kept(memory'[w][i])
    <2>1. /\ OnlyMoves(p) /\ UNCHANGED <<memory, failures>> /\ agent_runs \subseteq agent_runs'
          /\ turn[p].kind = "agent" =>
               \E r \in agent_runs' : r.turn = turn[p].number /\ r.status = "completed"
      <3> DEFINE run == [conversation |-> turn[p].conversation, turn |-> turn[p].number,
                         status |-> "completed", answered |-> TRUE]
      <3>1. /\ OnlyMoves(p) /\ UNCHANGED <<memory, failures>>
            /\ agent_runs' = IF turn[p].kind = "agent" THEN agent_runs \cup {run} ELSE agent_runs
        BY <1>0, <1>8 DEF Persist, Finish, Goto, OnlyMoves
      <3>2. run.turn = turn[p].number /\ run.status = "completed"
        OBVIOUS
      <3> HIDE DEF run
      <3> QED BY <3>1, <3>2
    <2>2. Known(memory[w][i])
      BY <1>1, <2>1
    <2>3. CASE \E r \in agent_runs : r.turn = memory[w][i] /\ r.status = "completed"
      BY <2>1, <2>3
    <2>4. ASSUME NEW q \in Chatters, stage[q] = "persist", turn[q].kind = "agent",
                 turn[q].number = memory[w][i]
          PROVE  Kept(memory'[w][i])
      <3>1. CASE q = p
        BY <2>1, <2>4, <3>1
      <3>2. CASE q # p
        <4>1. stage'[q] = stage[q] /\ turn'[q] = turn[q]
          BY <2>1, <3>2 DEF OnlyMoves
        <4> QED BY <2>1, <2>4, <4>1
      <3> QED BY <3>1, <3>2
    <2> QED BY <2>2, <2>3, <2>4
  <1>9. ASSUME NEW p \in Chatters, PersistFailed(p) PROVE Kept(memory'[w][i])
    <2>1. /\ OnlyMoves(p) /\ stage[p] # "persist" /\ UNCHANGED <<memory, failures>>
          /\ agent_runs \subseteq agent_runs'
      BY <1>0, <1>9 DEF PersistFailed, Finish, Goto, OnlyMoves
    <2> QED BY <1>4, <2>1
  <1>10. ASSUME Restart \/ \E p \in Chatters : Fail(p) PROVE FALSE
    BY <1>0, <1>10 DEF Restart, Fail
  <1>11. CASE \E c \in ConvIds, v \in Workspaces : CreateConversation(c, v)
    BY <1>3, <1>11 DEF CreateConversation
  <1>12. CASE UNCHANGED chatVars
    BY <1>3, <1>12 DEF chatVars, tables
  <1> QED
    BY <1>5, <1>6, <1>7, <1>8, <1>9, <1>10, <1>11, <1>12 DEF ChatNext, Answer

\* A run says COMPLETED if and only if its answer is on record, and its objective
\* always is; what the agent remembers is on record or about to be.
THEOREM AuditIsTrue == Spec => []RunsAreAudited
  <1> DEFINE Inv == RunsOnRecord /\ Remembering
  <1>1. Init => Inv
    BY DEF Init, ChatInit, RunsOnRecord, Remembering
  <1>2. ChatInv /\ Inv /\ [Next]_vars => Inv'
    <2>1. RunsOnRecord /\ UNCHANGED chatVars => RunsOnRecord'
      BY DEF chatVars, tables, RunsOnRecord, Recorded
    <2>2. Remembering /\ UNCHANGED chatVars => Remembering'
      BY DEF chatVars, tables, Remembering
    <2> QED BY <2>1, <2>2, RunsOnRecordStep, RememberingStep, StepOfOne
  <1>3. Inv => RunsAreAudited
    BY DEF RunsOnRecord, Remembering, RunsAreAudited
  <1> QED BY <1>1, <1>2, <1>3, ChatInvariant, PTL DEF Spec
-----------------------------------------------------------------------------
(* What is cited *)

\* What a step does to the turn of a request that is at work after it.
LEMMA TurnSteps ==
    ASSUME ChatInv, [ChatNext]_chatVars, NEW p \in Chatters, AtWork(p)'
    PROVE  \/ AtWork(p) /\ turn'[p] = turn[p]
           \/ /\ turn'[p].citations = {} /\ turn'[p].conversation \in ConvIds
              /\ conversations[turn'[p].conversation] \in Workspaces
              /\ turn'[p].deleted = {d \in DocIds : documents[d].deleted}
           \/ /\ AtWork(p)
              /\ turn'[p].conversation = turn[p].conversation
              /\ turn'[p].deleted = turn[p].deleted
              /\ \/ /\ turn'[p].cached
                    /\ \E hit \in Hits(WorkspaceOf(p), turn[p].question) :
                          turn'[p].citations = hit.citations
                 \/ /\ turn'[p].cached = turn[p].cached
                    /\ \/ turn'[p].citations = DenseHits(WorkspaceOf(p))
                       \/ turn'[p].citations
                            \subseteq turn[p].citations \cup KeywordHits(WorkspaceOf(p))
  <1>0. /\ stage = [q \in Chatters |-> stage[q]] /\ turn = [q \in Chatters |-> turn[q]]
    BY DEF ChatInv, TypeOK
  <1>1. CASE turn'[p] = turn[p] /\ AtWork(p)
    BY <1>1
  <1>2. CASE ~(turn'[p] = turn[p] /\ AtWork(p))
    <2>1. ASSUME NEW q \in Chatters, OnlyMoves(q), q # p PROVE FALSE
      BY <1>2, <2>1 DEF OnlyMoves, AtWork
    <2>2. ASSUME NEW q \in Chatters, NEW c \in ConvIds, NEW a \in Questions, NEW kind \in Kinds,
                 Ask(q, c, a, kind)
          PROVE  /\ turn'[p].citations = {} /\ turn'[p].conversation \in ConvIds
                 /\ conversations[turn'[p].conversation] \in Workspaces
                 /\ turn'[p].deleted = {d \in DocIds : documents[d].deleted}
      <3>1. OnlyMoves(q)
        BY <1>0, <2>2 DEF Ask, Goto, OnlyMoves
      <3>2. q = p
        BY <2>1, <3>1
      <3>3. conversations[c] \in Workspaces
        BY <2>2 DEF Ask, ChatInv, TypeOK
      <3>4. turn'[p] = [kind |-> kind, conversation |-> c, question |-> a, number |-> turns + 1,
                        citations |-> {}, cached |-> FALSE,
                        deleted |-> {d \in DocIds : documents[d].deleted}]
        BY <1>0, <2>2, <3>2 DEF Ask
      <3> QED BY <3>3, <3>4
    <2>3. ASSUME NEW q \in Chatters, OnlyMoves(q), AtWork(q) PROVE q = p /\ turn[p] \in Turn
      BY <2>1, <2>3 DEF ChatInv, Asked
    <2>4. ASSUME NEW q \in Chatters, Lookup(q)
          PROVE  /\ AtWork(p) /\ turn'[p].conversation = turn[p].conversation
                 /\ turn'[p].deleted = turn[p].deleted /\ turn'[p].cached
                 /\ \E hit \in Hits(WorkspaceOf(p), turn[p].question) :
                       turn'[p].citations = hit.citations
      <3>1. CASE UNCHANGED turn
        <4>1. OnlyMoves(q) /\ AtWork(q)
          BY <1>0, <2>4, <3>1 DEF Lookup, Goto, OnlyMoves, AtWork
        <4> QED BY <1>2, <2>3, <3>1, <4>1
      <3>2. CASE ~UNCHANGED turn
        <4>1. PICK hit \in Hits(WorkspaceOf(q), turn[q].question) :
                 /\ turn' = [turn EXCEPT ![q].citations = hit.citations, ![q].cached = TRUE]
                 /\ Goto(q, "persist")
          BY <2>4, <3>2 DEF Lookup
        <4>2. OnlyMoves(q) /\ AtWork(q)
          BY <1>0, <2>4, <4>1 DEF Lookup, Goto, OnlyMoves, AtWork
        <4>3. q = p /\ turn[p] \in Turn
          BY <2>3, <4>2
        <4>4. turn'[p] = [turn[p] EXCEPT !.citations = hit.citations, !.cached = TRUE]
          BY <1>0, <4>1, <4>3
        <4>5. /\ turn'[p].conversation = turn[p].conversation
              /\ turn'[p].deleted = turn[p].deleted /\ turn'[p].cached = TRUE
              /\ turn'[p].citations = hit.citations
          BY <4>3, <4>4 DEF Turn
        <4> QED BY <4>1, <4>2, <4>3, <4>5
      <3> QED BY <3>1, <3>2
    <2>5. ASSUME NEW q \in Chatters, NEW found, turn' = [turn EXCEPT ![q].citations = found],
                 NEW label, Goto(q, label), AtWork(q)
          PROVE  /\ q = p /\ AtWork(p) /\ turn'[p].conversation = turn[p].conversation
                 /\ turn'[p].deleted = turn[p].deleted /\ turn'[p].cached = turn[p].cached
                 /\ turn'[p].citations = found
      <3>1. OnlyMoves(q)
        BY <1>0, <2>5 DEF Goto, OnlyMoves
      <3>2. q = p /\ turn[p] \in Turn
        BY <2>3, <2>5, <3>1
      <3>3. turn'[p] = [turn[p] EXCEPT !.citations = found]
        BY <1>0, <2>5, <3>2
      <3> QED BY <2>5, <3>2, <3>3 DEF Turn
    <2>6. ASSUME NEW q \in Chatters, Dense(q)
          PROVE  /\ AtWork(p) /\ turn'[p].conversation = turn[p].conversation
                 /\ turn'[p].deleted = turn[p].deleted /\ turn'[p].cached = turn[p].cached
                 /\ turn'[p].citations = DenseHits(WorkspaceOf(p))
      <3>1. /\ AtWork(q) /\ Goto(q, "keyword")
            /\ turn' = [turn EXCEPT ![q].citations = DenseHits(WorkspaceOf(q))]
        BY <2>6 DEF Dense, AtWork
      <3> QED BY <2>5, <3>1
    <2>7. ASSUME NEW q \in Chatters, Keyword(q)
          PROVE  /\ AtWork(p) /\ turn'[p].conversation = turn[p].conversation
                 /\ turn'[p].deleted = turn[p].deleted /\ turn'[p].cached = turn[p].cached
                 /\ turn'[p].citations \subseteq turn[p].citations \cup KeywordHits(WorkspaceOf(p))
      <3>1. AtWork(q) /\ Goto(q, "complete")
        BY <2>7 DEF Keyword, AtWork
      <3>2. PICK matching \in SUBSET KeywordHits(WorkspaceOf(q)) :
               \E kept \in Assembled(turn[q].citations \cup matching) :
                  turn' = [turn EXCEPT ![q].citations = kept]
        BY <2>7 DEF Keyword
      <3>3. PICK kept \in Assembled(turn[q].citations \cup matching) :
               turn' = [turn EXCEPT ![q].citations = kept]
        BY <3>2
      <3>4. kept \subseteq turn[q].citations \cup KeywordHits(WorkspaceOf(q))
        BY <3>2, AssembledIsFound
      <3> QED BY <2>5, <3>1, <3>3, <3>4
    <2>8. ASSUME NEW q \in Chatters,
                 \/ Recall(q) \/ Complete(q) \/ Remember(q) \/ Persist(q) \/ PersistFailed(q)
                 \/ Fail(q)
          PROVE  FALSE
      <3>1. OnlyMoves(q) /\ AtWork(q) /\ (UNCHANGED turn \/ stage'[q] = "idle")
        BY <1>0, <2>8 DEF Recall, Complete, Remember, Persist, PersistFailed, Fail, Finish,
                          Goto, OnlyMoves, AtWork
      <3>2. q = p
        BY <2>1, <3>1
      <3> QED BY <1>2, <3>1, <3>2 DEF AtWork
    <2>9. ASSUME Restart PROVE FALSE
      BY <2>9 DEF Restart, AtWork
    <2>10. ASSUME UNCHANGED <<stage, turn>> PROVE FALSE
      BY <1>2, <2>10 DEF AtWork
    <2>11. ASSUME NEW c \in ConvIds, NEW w \in Workspaces, CreateConversation(c, w) PROVE FALSE
      BY <2>10, <2>11 DEF CreateConversation
    <2>12. ASSUME UNCHANGED chatVars PROVE FALSE
      BY <2>10, <2>12 DEF chatVars
    <2> QED
      BY <2>2, <2>4, <2>6, <2>7, <2>8, <2>9, <2>11, <2>12 DEF ChatNext, Answer
  <1> QED BY <1>1, <1>2

\* Every document of these chunks is in w.
Within(citations, w) == \A c \in citations : documents[c[1]].workspace = w

\* CitesOwnWorkspace, part by part.
CiteInv ==
    /\ \A m \in messages : Within(m.citations, conversations[m.conversation])
    /\ \A w \in Workspaces : \A i \in 1 .. Len(cache[w]) : Within(cache[w][i].citations, w)
    /\ \A p \in Chatters : AtWork(p) => Within(turn[p].citations, WorkspaceOf(p))

\* Chunks stay in their workspace, and a conversation in its own.
LEMMA CitedStay ==
    ASSUME KnowledgeInv, ChatInv, [Next]_vars
    PROVE  /\ \A citations \in SUBSET ChunkIds, w \in Workspaces :
                 Within(citations, w) => Within(citations, w)'
           /\ \A c \in ConvIds : conversations[c] \in Workspaces =>
                 conversations'[c] = conversations[c]
  <1>1. ASSUME NEW citations \in SUBSET ChunkIds, NEW w \in Workspaces, Within(citations, w)
        PROVE  Within(citations, w)'
    <2>1. \A c \in citations : c[1] \in DocIds
      BY DEF ChunkIds
    <2> QED BY <1>1, <2>1, DocumentsStay DEF Within
  <1>2. ASSUME [ChatNext]_chatVars, NEW c \in ConvIds, conversations[c] \in Workspaces
        PROVE  conversations'[c] = conversations[c]
    <2>1. CASE \E v \in ConvIds, w \in Workspaces : CreateConversation(v, w)
      BY <1>2, <2>1, ChatConstants DEF CreateConversation, ChatInv, TypeOK
    <2>2. CASE ~\E v \in ConvIds, w \in Workspaces : CreateConversation(v, w)
      BY <1>2, <2>2 DEF ChatNext, Answer, Ask, Lookup, Recall, Dense, Keyword, Complete,
                        Remember, Persist, PersistFailed, Fail, Restart, tables, chatVars
    <2> QED BY <2>1, <2>2
  <1>3. UNCHANGED chatVars => UNCHANGED conversations
    BY DEF chatVars, tables
  <1> QED BY <1>1, <1>2, <1>3, StepOfOne

\* Retrieval finds chunks of its workspace, and each step keeps them there.
LEMMA CiteStep ==
    ASSUME KnowledgeInv, ChatInv, CiteInv, [Next]_vars, ChatInv'
    PROVE  CiteInv'
  <1>0. TypeOK
    BY DEF ChatInv
  <1>1. \A w : Within(DenseHits(w), w) /\ Within(KeywordHits(w), w)
    BY DEF Within, DenseHits, KeywordHits
  <1>2. ASSUME NEW m \in messages'
        PROVE  Within(m.citations, conversations[m.conversation])'
    <2>1. CASE m \in messages
      <3>1. /\ m.citations \in SUBSET ChunkIds /\ m.conversation \in ConvIds
            /\ conversations[m.conversation] \in Workspaces
            /\ Within(m.citations, conversations[m.conversation])
        BY <1>0, <2>1 DEF TypeOK, Message, ChatInv, Unlike, CiteInv
      <3>2. conversations'[m.conversation] = conversations[m.conversation]
        BY <3>1, CitedStay
      <3>3. Within(m.citations, conversations[m.conversation]) =>
              \A c \in m.citations : documents'[c[1]].workspace = conversations[m.conversation]
        BY <3>1, CitedStay DEF Within
      <3> QED BY <3>1, <3>2, <3>3 DEF Within
    <2>2. CASE m \notin messages
      <3>1. [ChatNext]_chatVars /\ UNCHANGED ingestionVars
        BY <2>2, StepOfOne DEF chatVars, tables
      <3>2. PICK p \in Chatters : Persist(p) \/ PersistFailed(p)
        BY <2>2, <3>1, RecordSteps
      <3>3. /\ m \in {UserMessage(p), AssistantMessage(p)} /\ AtWork(p)
            /\ UNCHANGED conversations
        BY <2>2, <3>2 DEF Persist, PersistFailed, AtWork
      <3>4. /\ m.conversation = turn[p].conversation
            /\ m.citations = {} \/ m.citations = turn[p].citations
        BY <3>3, RowsOfTurn
      <3>5. Within(turn[p].citations, WorkspaceOf(p))
        BY <3>3 DEF CiteInv
      <3>6. UNCHANGED documents
        BY <3>1 DEF ingestionVars
      <3> QED BY <3>3, <3>4, <3>5, <3>6 DEF Within, WorkspaceOf
    <2> QED BY <2>1, <2>2
  <1>3. ASSUME NEW w \in Workspaces, NEW i \in 1 .. Len(cache'[w])
        PROVE  Within(cache[w][i].citations, w)'
    <2>1. \A j \in 1 .. Len(cache[w]) : /\ cache[w][j].citations \in SUBSET ChunkIds
                                        /\ Within(cache[w][j].citations, w)
      <3>1. cache[w] \in Seq(CachedAnswer)
        BY <1>0 DEF TypeOK
      <3>2. \A j \in 1 .. Len(cache[w]) : cache[w][j] \in CachedAnswer
        BY <3>1
      <3> QED BY <3>2 DEF CachedAnswer, CiteInv
    <2>2. CASE UNCHANGED cache
      <3>1. /\ cache'[w][i].citations \in SUBSET ChunkIds
            /\ Within(cache'[w][i].citations, w) <=>
                 \A c \in cache'[w][i].citations : documents[c[1]].workspace = w
        BY <2>1, <2>2 DEF Within
      <3>2. \A c \in cache[w][i].citations : c[1] \in DocIds /\ documents[c[1]].workspace = w
        BY <2>1, <2>2 DEF Within, ChunkIds
      <3> QED BY <2>2, <3>2, DocumentsStay DEF Within
    <2>3. CASE ~UNCHANGED cache
      <3>1. [ChatNext]_chatVars /\ UNCHANGED ingestionVars
        BY <2>3, StepOfOne DEF chatVars
      <3>2. UNCHANGED documents
        BY <3>1 DEF ingestionVars
      <3>3. CASE Restart
        BY <3>3 DEF Restart
      <3>4. CASE ~Restart
        <4>1. PICK p \in Chatters : Complete(p)
          BY <2>3, <3>1, <3>4 DEF ChatNext, Answer, CreateConversation, Ask, Lookup, Recall,
                                  Dense, Keyword, Remember, Persist, PersistFailed, Fail,
                                  chatVars
        <4> DEFINE v == WorkspaceOf(p)
                   entry == [question |-> turn[p].question, citations |-> turn[p].citations]
        <4>2. AtWork(p) /\ cache' = [cache EXCEPT ![v] = Remembered(@, entry, CacheSize)]
          BY <2>3, <4>1 DEF Complete, AtWork
        <4>3. v \in Workspaces /\ entry \in CachedAnswer /\ Within(entry.citations, v)
          BY <4>2 DEF ChatInv, Asked, WorkspaceOf, Turn, CachedAnswer, CiteInv
        <4> HIDE DEF entry
        <4>4. CASE w # v
          <5>1. cache'[w] = cache[w]
            BY <1>0, <4>2, <4>3, <4>4 DEF TypeOK
          <5> QED BY <2>1, <3>2, <5>1 DEF Within
        <4>5. CASE w = v
          <5>1. cache[w] \in Seq(CachedAnswer) /\ cache'[w] = Remembered(cache[w], entry, CacheSize)
            BY <1>0, <4>2, <4>3, <4>5 DEF TypeOK
          <5>2. \/ cache'[w][i] = entry
                \/ \E j \in 1 .. Len(cache[w]) : cache'[w][i] = cache[w][j]
            BY <4>3, <5>1, RememberedEntries, ChatConstants
          <5> QED BY <2>1, <3>2, <4>3, <4>5, <5>2 DEF Within
        <4> QED BY <4>4, <4>5
      <3> QED BY <3>3, <3>4
    <2> QED BY <2>2, <2>3
  <1>4. ASSUME NEW p \in Chatters, AtWork(p)' PROVE Within(turn[p].citations, WorkspaceOf(p))'
    <2>1. CASE AtWork(p) /\ turn'[p] = turn[p]
      <3>1. /\ turn[p].citations \in SUBSET ChunkIds /\ turn[p].conversation \in ConvIds
            /\ conversations[turn[p].conversation] \in Workspaces
            /\ Within(turn[p].citations, WorkspaceOf(p))
        BY <2>1 DEF ChatInv, Asked, Turn, CiteInv
      <3>2. conversations'[turn[p].conversation] = conversations[turn[p].conversation]
        BY <3>1, CitedStay
      <3>3. \A c \in turn[p].citations :
              c[1] \in DocIds /\ documents[c[1]].workspace = conversations[turn[p].conversation]
        BY <3>1 DEF Within, ChunkIds, WorkspaceOf
      <3> QED BY <2>1, <3>1, <3>2, <3>3, DocumentsStay DEF Within, WorkspaceOf
    <2>2. CASE ~(AtWork(p) /\ turn'[p] = turn[p])
      <3>1. [ChatNext]_chatVars /\ UNCHANGED ingestionVars
        BY <1>4, <2>2, StepOfOne DEF chatVars, AtWork
      <3>2. UNCHANGED documents
        BY <3>1 DEF ingestionVars
      <3>3. CASE turn'[p].citations = {}
        BY <3>3 DEF Within
      <3>4. CASE /\ AtWork(p) /\ turn'[p].conversation = turn[p].conversation
                 /\ \/ \E hit \in Hits(WorkspaceOf(p), turn[p].question) :
                          turn'[p].citations = hit.citations
                    \/ turn'[p].citations = DenseHits(WorkspaceOf(p))
                    \/ turn'[p].citations
                         \subseteq turn[p].citations \cup KeywordHits(WorkspaceOf(p))
        <4>1. /\ turn[p].conversation \in ConvIds /\ WorkspaceOf(p) \in Workspaces
              /\ conversations'[turn[p].conversation] = conversations[turn[p].conversation]
          BY <3>4, CitedStay DEF ChatInv, Asked, Turn, WorkspaceOf
        <4>2. Within(turn[p].citations, WorkspaceOf(p))
          BY <3>4 DEF CiteInv
        <4>3. \A hit \in Hits(WorkspaceOf(p), turn[p].question) :
                 Within(hit.citations, WorkspaceOf(p))
          BY <4>1 DEF Hits, CiteInv
        <4>4. Within(turn'[p].citations, WorkspaceOf(p))
          BY <1>1, <3>4, <4>2, <4>3 DEF Within
        <4> QED BY <3>2, <3>4, <4>1, <4>4 DEF Within, WorkspaceOf
      <3> QED BY <1>4, <2>2, <3>1, <3>3, <3>4, TurnSteps
    <2> QED BY <2>1, <2>2
  <1> QED BY <1>2, <1>3, <1>4 DEF CiteInv

\* Tenant isolation: an answer on record, in the cache or on its way cites the
\* workspace it was asked in, whatever the pipeline does meanwhile.
THEOREM TenantsAreIsolated == Spec => []CitesOwnWorkspace
  <1>1. Init => CiteInv
    BY DEF Init, ChatInit, CiteInv, AtWork
  <1>2. KnowledgeInv /\ ChatInv /\ CiteInv /\ [Next]_vars /\ ChatInv' => CiteInv'
    BY CiteStep
  <1>3. CiteInv => CitesOwnWorkspace
    BY DEF CiteInv, CitesOwnWorkspace, Within, AtWork
  <1> QED BY <1>1, <1>2, <1>3, KnowledgeInvariant, ChatInvariant, PTL DEF Spec
-----------------------------------------------------------------------------
(* Deleted documents *)

\* The vector store has no vectors of a deleted document that has never been
\* shared, and what has been shared is never forgotten.
LEMMA UnsharedIsPurged ==
    Spec => []\A d \in DocIds \ shared : documents[d].deleted => vectors[d] = {}
  <1>1. Pipeline!HistorySpec => []Pipeline!HistoryInv
    BY Pipeline!HistoryInvariant, IngestionConstants DEF Ingestion!ConstantsAssumption
  <1>2. Pipeline!HistoryInv =>
          \A d \in DocIds \ shared : documents[d].deleted => vectors[d] = {}
    BY DEF Pipeline!HistoryInv, Pipeline!Solo, Pipeline!Settled, Pipeline!Purged
  <1> QED BY <1>1, <1>2, PipelineRuns, PTL

\* A document that has been shared stays shared.
LEMMA SharedStays == [Next]_vars => shared \subseteq shared'
  BY HistoryStep DEF Pipeline!HistoryNext, Pipeline!historyVars

\* What was deleted when a question was asked still is, and is not cited.
DeletedInv ==
    /\ \A p \in Chatters : AtWork(p) => \A d \in turn[p].deleted : documents[d].deleted
    /\ DeletedNotCitedUnlessShared

\* Without vectors of deleted documents, neither search finds one.
LEMMA DeletedStep ==
    ASSUME KnowledgeInv, ChatInv, DeletedInv, [Next]_vars,
           \A d \in DocIds \ shared : documents[d].deleted => vectors[d] = {}
    PROVE  DeletedInv'
  <1>1. ASSUME NEW w, NEW c \in DenseHits(w) \cup KeywordHits(w)
        PROVE  documents[c[1]].deleted => c[1] \in shared
    BY DEF DenseHits, KeywordHits
  <1>2. ASSUME NEW p \in Chatters, AtWork(p)'
        PROVE  /\ \A d \in turn'[p].deleted : documents'[d].deleted
               /\ ~turn'[p].cached =>
                     \A c \in turn'[p].citations : c[1] \in turn'[p].deleted => c[1] \in shared'
    <2>1. CASE AtWork(p) /\ turn'[p] = turn[p]
      <3>1. turn[p].deleted \subseteq DocIds
        BY <2>1 DEF ChatInv, Asked, Turn
      <3> QED
        BY <2>1, <3>1, DocumentsStay, SharedStays
           DEF DeletedInv, DeletedNotCitedUnlessShared, AtWork
    <2>2. CASE ~(AtWork(p) /\ turn'[p] = turn[p])
      <3>1. [ChatNext]_chatVars /\ UNCHANGED ingestionVars
        BY <1>2, <2>2, StepOfOne DEF chatVars, AtWork
      <3>2. UNCHANGED <<documents, shared>>
        BY <3>1 DEF ingestionVars
      <3>3. CASE /\ turn'[p].citations = {}
                 /\ turn'[p].deleted = {d \in DocIds : documents[d].deleted}
        BY <3>2, <3>3
      <3>4. CASE /\ AtWork(p) /\ turn'[p].deleted = turn[p].deleted
                 /\ \/ turn'[p].cached
                    \/ /\ turn'[p].cached = turn[p].cached
                       /\ \/ turn'[p].citations = DenseHits(WorkspaceOf(p))
                          \/ turn'[p].citations
                               \subseteq turn[p].citations \cup KeywordHits(WorkspaceOf(p))
        <4>1. \A d \in turn[p].deleted : documents[d].deleted
          BY <3>4 DEF DeletedInv
        <4>2. ~turn[p].cached =>
                 \A c \in turn[p].citations : c[1] \in turn[p].deleted => c[1] \in shared
          BY <3>4 DEF DeletedInv, DeletedNotCitedUnlessShared, AtWork
        <4> QED BY <1>1, <3>2, <3>4, <4>1, <4>2
      <3> QED BY <1>2, <2>2, <3>1, <3>3, <3>4, TurnSteps
    <2> QED BY <2>1, <2>2
  <1> QED BY <1>2 DEF DeletedInv, DeletedNotCitedUnlessShared, AtWork

\* A question asked after a document was deleted is not answered from it, the
\* cached answers and the documents that overlapping work has touched apart: for
\* any number of requests and tasks, whatever failed or died.
THEOREM DeletedIsNotCited == Spec => []DeletedNotCitedUnlessShared
  <1>1. Init => DeletedInv
    BY DEF Init, ChatInit, DeletedInv, DeletedNotCitedUnlessShared, AtWork
  <1>2. KnowledgeInv /\ ChatInv /\ DeletedInv /\ [Next]_vars
          /\ (\A d \in DocIds \ shared : documents[d].deleted => vectors[d] = {})
          => DeletedInv'
    BY DeletedStep
  <1>3. DeletedInv => DeletedNotCitedUnlessShared
    BY DEF DeletedInv
  <1> QED
    BY <1>1, <1>2, <1>3, UnsharedIsPurged, KnowledgeInvariant, ChatInvariant, PTL DEF Spec
=============================================================================
