---------------------------- MODULE Conversations ----------------------------
(***************************************************************************)
(* Questions and answers: generate_answer and stream_answer of             *)
(* app/services/chat_service.py, run_agent of                              *)
(* app/services/agent/orchestrator.py, the retrieval all three use, the    *)
(* semantic cache of answers and the agent's long-term memory.             *)
(*                                                                         *)
(* A request is one database transaction from its first query to its       *)
(* commit, and the two in-process stores are outside of it.  One action is *)
(* the stretch between two awaits; what is retrieved is a set of chunks,   *)
(* each named by its document and the ingestion run that wrote it.  The    *)
(* tables of the documents and the vector store are read here and changed  *)
(* elsewhere (KnowledgeBase puts the two together).  A request for a       *)
(* conversation the caller does not own ends in 404 and has no action.     *)
(***************************************************************************)
EXTENDS Naturals, Sequences, FiniteSets

CONSTANTS
    Chatters,       \* request handlers of one API process
    ConvIds,
    DocIds,
    Workspaces,
    Questions,      \* classes of messages whose embeddings are within the threshold
    NULL,
    CacheSize,      \* settings.semantic_cache_max_entries; 0 if the cache is disabled
    MemorySize,     \* settings.agent_long_term_max_entries; 0 if memory is disabled
    RerankTopK,     \* settings.rerank_top_k
    AgentMaxSteps,  \* settings.agent_max_steps
    MaxTurns,       \* bound: requests
    MaxFailures     \* bound: failed calls and restarts

ASSUME ChatConstants ==
    /\ NULL \notin ConvIds \cup Workspaces \cup Questions
    /\ CacheSize \in Nat
    /\ MemorySize \in Nat
    /\ RerankTopK \in Nat \ {0}
    /\ AgentMaxSteps \in Nat
    /\ MaxTurns \in Nat
    /\ MaxFailures \in Nat

VARIABLES
    documents, chunks, vectors,  \* as in DocumentIngestion
    conversations,  \* the conversations table: the workspace of each row
    messages,       \* the messages table
    agent_runs,     \* the agent_runs table
    cache,          \* SemanticCache, by workspace
    memory,         \* AgentMemory, by workspace: the turns it has summaries of
    stage,          \* where each request is
    turn,           \* what each request works with
    turns,          \* requests so far; their transactions begin in this order
    failures

tables == <<conversations, messages, agent_runs>>
chatVars == <<tables, cache, memory, stage, turn, turns, failures>>
-----------------------------------------------------------------------------
Stages == {"idle", "lookup", "recall", "dense", "keyword", "complete", "remember",
           "persist", "failed"}

Kinds == {"chat", "stream", "agent"}

ChunkIds == DocIds \X Nat

\* created_at is now() of the transaction that inserts the row: its beginning.
Message == [conversation : ConvIds, turn : Nat, role : {"user", "assistant"},
            created_at : Nat, citations : SUBSET ChunkIds]

AgentRun == [conversation : ConvIds, turn : Nat, status : {"completed", "failed"},
             answered : BOOLEAN]

CachedAnswer == [question : Questions, citations : SUBSET ChunkIds]

\* cached: the answer comes out of the cache; deleted: the documents that had
\* been deleted when the question was asked.
Turn == [kind : Kinds, conversation : ConvIds, question : Questions, number : Nat,
         citations : SUBSET ChunkIds, cached : BOOLEAN, deleted : SUBSET DocIds]

WorkspaceOf(p) == conversations[turn[p].conversation]

\* store.search: the vectors of the workspace.  The documents table, and with
\* it deleted_at, is not looked at.
DenseHits(w) == {c \in DocIds \X UNION {vectors[d] : d \in DocIds} :
                    documents[c[1]].workspace = w /\ c[2] \in vectors[c[1]]}

\* Mutant: the scan does not look at deleted_at.
KeywordHitsAll(w) ==
    {<<d, chunks[d]>> : d \in {e \in DocIds : documents[e].workspace = w /\ chunks[e] # 0}}

\* _keyword: chunk rows of the workspace's documents that are not deleted; those
\* that match no term of the question are left out by Keyword.
KeywordHits(w) ==
    {<<d, chunks[d]>> : d \in {e \in DocIds : /\ documents[e].workspace = w
                                             /\ ~documents[e].deleted
                                             /\ chunks[e] # 0}}

\* _fuse, _rerank and _assemble keep some of the candidates, at most
\* rerank_top_k of them, and at least one if there is one.
Assembled(candidates) ==
    IF candidates = {} THEN {{}}
    ELSE {kept \in SUBSET candidates : kept # {} /\ Cardinality(kept) <= RerankTopK}

\* Append an entry, and evict the oldest if there are too many.
Remembered(entries, entry, size) ==
    LET longer == Append(entries, entry)
    IN  IF Len(longer) > size THEN Tail(longer) ELSE longer

\* Mutant: the entries of every workspace are searched.
HitsUnscoped(w, q) ==
    UNION {{cache[v][i] : i \in {j \in 1 .. Len(cache[v]) : cache[v][j].question = q}} :
              v \in Workspaces}

\* SemanticCache.lookup: an entry of the workspace that is close enough; which of
\* several is the closest is left open.
Hits(w, q) == {cache[w][i] : i \in {j \in 1 .. Len(cache[w]) : cache[w][j].question = q}}

Goto(p, label) == stage' = [stage EXCEPT ![p] = label]

\* The response is sent, or the request has failed: nothing of it is left.
Finish(p) == Goto(p, "idle") /\ turn' = [turn EXCEPT ![p] = NULL]

\* The row of the user's turn.
UserMessage(p) ==
    [conversation |-> turn[p].conversation, turn |-> turn[p].number, role |-> "user",
     created_at |-> turn[p].number, citations |-> {}]

AssistantMessage(p) ==
    [UserMessage(p) EXCEPT !.role = "assistant", !.citations = turn[p].citations]

ChatInit ==
    /\ conversations = [c \in ConvIds |-> NULL]
    /\ messages = {}
    /\ agent_runs = {}
    /\ cache = [w \in Workspaces |-> <<>>]
    /\ memory = [w \in Workspaces |-> <<>>]
    /\ stage = [p \in Chatters |-> "idle"]
    /\ turn = [p \in Chatters |-> NULL]
    /\ turns = 0
    /\ failures = 0
-----------------------------------------------------------------------------
CreateConversation(c, w) ==
    /\ conversations[c] = NULL
    /\ conversations' = [conversations EXCEPT ![c] = w]
    /\ UNCHANGED <<messages, agent_runs, cache, memory, stage, turn, turns, failures>>

FirstStage(kind) ==
    CASE kind = "chat"   -> IF CacheSize > 0 THEN "lookup" ELSE "dense"
      [] kind = "stream" -> "dense"
      [] kind = "agent"  -> "recall"

\* Mutant: the user's turn is committed when it is asked.
AskCommitted(p, c, q, kind) ==
    /\ stage[p] = "idle"
    /\ conversations[c] # NULL
    /\ turns < MaxTurns
    /\ turns' = turns + 1
    /\ turn' = [turn EXCEPT ![p] =
           [kind |-> kind, conversation |-> c, question |-> q, number |-> turns + 1,
            citations |-> {}, cached |-> FALSE,
            deleted |-> {d \in DocIds : documents[d].deleted}]]
    /\ messages' = messages \cup {[conversation |-> c, turn |-> turns + 1, role |-> "user",
                                   created_at |-> turns + 1, citations |-> {}]}
    /\ Goto(p, FirstStage(kind))
    /\ UNCHANGED <<conversations, agent_runs, cache, memory, failures>>

\* The transaction begins.  The user's turn is inserted, and not committed.
Ask(p, c, q, kind) ==
    /\ stage[p] = "idle"
    /\ conversations[c] # NULL
    /\ turns < MaxTurns
    /\ turns' = turns + 1
    /\ turn' = [turn EXCEPT ![p] =
           [kind |-> kind, conversation |-> c, question |-> q, number |-> turns + 1,
            citations |-> {}, cached |-> FALSE,
            deleted |-> {d \in DocIds : documents[d].deleted}]]
    /\ Goto(p, FirstStage(kind))
    /\ UNCHANGED <<tables, cache, memory, failures>>

\* generate_answer, once the question is embedded.
Lookup(p) ==
    LET hits == Hits(WorkspaceOf(p), turn[p].question)
    IN  /\ stage[p] = "lookup"
        /\ \/ hits = {} /\ Goto(p, "dense") /\ UNCHANGED turn
           \/ \E hit \in hits :
                /\ turn' = [turn EXCEPT ![p].citations = hit.citations, ![p].cached = TRUE]
                /\ Goto(p, "persist")
        /\ UNCHANGED <<tables, cache, memory, turns, failures>>

\* run_agent, before its try block: the memory is read, which is never cited.
Recall(p) ==
    /\ stage[p] = "recall"
    /\ Goto(p, IF AgentMaxSteps > 1 THEN "dense" ELSE "complete")
    /\ UNCHANGED <<tables, cache, memory, turn, turns, failures>>

\* retrieve: two searches with an await between them.
Dense(p) ==
    /\ stage[p] = "dense"
    /\ turn' = [turn EXCEPT ![p].citations = DenseHits(WorkspaceOf(p))]
    /\ Goto(p, "keyword")
    /\ UNCHANGED <<tables, cache, memory, turns, failures>>

Keyword(p) ==
    /\ stage[p] = "keyword"
    /\ \E matching \in SUBSET KeywordHits(WorkspaceOf(p)) :
          \E kept \in Assembled(turn[p].citations \cup matching) :
              turn' = [turn EXCEPT ![p].citations = kept]
    /\ Goto(p, "complete")
    /\ UNCHANGED <<tables, cache, memory, turns, failures>>

\* Mutant: the entry has no question to be found by.
CompleteUnkeyed(p) ==
    LET w == WorkspaceOf(p)
    IN  /\ stage[p] = "complete"
        /\ cache' = [cache EXCEPT ![w] =
               Remembered(@, [question |-> NULL, citations |-> turn[p].citations], CacheSize)]
        /\ Goto(p, "persist")
        /\ UNCHANGED <<tables, memory, turn, turns, failures>>

\* The model has answered.  generate_answer stores the answer before the
\* commit; an agent has its answer inserted before it is remembered.
Complete(p) ==
    LET w == WorkspaceOf(p)
        entry == [question |-> turn[p].question, citations |-> turn[p].citations]
    IN  /\ stage[p] = "complete"
        /\ cache' = IF turn[p].kind = "chat" /\ CacheSize > 0
                    THEN [cache EXCEPT ![w] = Remembered(@, entry, CacheSize)]
                    ELSE cache
        /\ Goto(p, IF turn[p].kind = "agent" THEN "remember" ELSE "persist")
        /\ UNCHANGED <<tables, memory, turn, turns, failures>>

Remember(p) ==
    LET w == WorkspaceOf(p)
    IN  /\ stage[p] = "remember"
        /\ memory' = IF MemorySize > 0
                     THEN [memory EXCEPT ![w] = Remembered(@, turn[p].number, MemorySize)]
                     ELSE memory
        /\ Goto(p, "persist")
        /\ UNCHANGED <<tables, cache, turn, turns, failures>>

\* Mutant: answer_message_id is read before the answer has been inserted.
PersistUnlinked(p) ==
    /\ stage[p] = "persist"
    /\ messages' = messages \cup {UserMessage(p), AssistantMessage(p)}
    /\ agent_runs' = IF turn[p].kind = "agent"
                     THEN agent_runs \cup {[conversation |-> turn[p].conversation,
                                            turn |-> turn[p].number,
                                            status |-> "completed", answered |-> FALSE]}
                     ELSE agent_runs
    /\ Finish(p)
    /\ UNCHANGED <<conversations, cache, memory, turns, failures>>

\* The commit: both turns, and the agent's run.
Persist(p) ==
    /\ stage[p] = "persist"
    /\ messages' = messages \cup {UserMessage(p), AssistantMessage(p)}
    /\ agent_runs' = IF turn[p].kind = "agent"
                     THEN agent_runs \cup {[conversation |-> turn[p].conversation,
                                            turn |-> turn[p].number,
                                            status |-> "completed", answered |-> TRUE]}
                     ELSE agent_runs
    /\ Finish(p)
    /\ UNCHANGED <<conversations, cache, memory, turns, failures>>

\* The commit of a failed run: the user's turn stays without an answer.
PersistFailed(p) ==
    /\ stage[p] = "failed"
    /\ messages' = messages \cup {UserMessage(p)}
    /\ agent_runs' = agent_runs \cup {[conversation |-> turn[p].conversation,
                                       turn |-> turn[p].number,
                                       status |-> "failed", answered |-> FALSE]}
    /\ Finish(p)
    /\ UNCHANGED <<conversations, cache, memory, turns, failures>>

\* A call fails, or the client of a stream is gone.  run_agent catches what
\* its search and the model raise; a failed query aborts the transaction, and
\* then the run cannot be recorded either.  Everything else is rolled back.
Fail(p) ==
    /\ stage[p] # "idle"
    /\ failures < MaxFailures
    /\ failures' = failures + 1
    /\ IF turn[p].kind = "agent" /\ stage[p] \in {"dense", "complete"}
       THEN Goto(p, "failed") /\ UNCHANGED turn
       ELSE Finish(p)
    /\ UNCHANGED <<tables, cache, memory, turns>>

\* The process is started again: its requests, its cache and its memory are gone.
Restart ==
    /\ failures < MaxFailures
    /\ failures' = failures + 1
    /\ stage' = [p \in Chatters |-> "idle"]
    /\ turn' = [p \in Chatters |-> NULL]
    /\ cache' = [w \in Workspaces |-> <<>>]
    /\ memory' = [w \in Workspaces |-> <<>>]
    /\ UNCHANGED <<tables, turns>>
-----------------------------------------------------------------------------
Answer(p) ==
    \/ \E c \in ConvIds, q \in Questions, kind \in Kinds : Ask(p, c, q, kind)
    \/ Lookup(p)
    \/ Recall(p)
    \/ Dense(p)
    \/ Keyword(p)
    \/ Complete(p)
    \/ Remember(p)
    \/ Persist(p)
    \/ PersistFailed(p)
    \/ Fail(p)

ChatNext ==
    \/ \E c \in ConvIds, w \in Workspaces : CreateConversation(c, w)
    \/ \E p \in Chatters : Answer(p)
    \/ Restart
-----------------------------------------------------------------------------
(* Properties *)

\* Every variable has its type.
TypeOK ==
    /\ conversations \in [ConvIds -> Workspaces \cup {NULL}]
    /\ messages \subseteq Message
    /\ agent_runs \subseteq AgentRun
    /\ cache \in [Workspaces -> Seq(CachedAnswer)]
    /\ memory \in [Workspaces -> Seq(Nat)]
    /\ stage \in [Chatters -> Stages]
    /\ turn \in [Chatters -> Turn \cup {NULL}]
    /\ turns \in Nat
    /\ failures \in Nat

Recorded(c, n, role) ==
    \E m \in messages : m.conversation = c /\ m.turn = n /\ m.role = role

\* "A durable, auditable record": whatever failed and whoever left, no answer
\* is on record without its question, and no question without its answer,
\* unless a FAILED agent run accounts for it.
TurnsAreWhole ==
    \A m \in messages :
        IF m.role = "assistant" THEN Recorded(m.conversation, m.turn, "user")
        ELSE \/ Recorded(m.conversation, m.turn, "assistant")
             \/ \E r \in agent_runs : r.turn = m.turn /\ r.status = "failed"

\* "Runs are fully auditable": a run says COMPLETED if and only if its answer
\* is on record, its objective always is; and unless something has failed, what
\* the agent remembers are runs on record or about to be.
RunsAreAudited ==
    /\ \A r \in agent_runs :
        /\ Recorded(r.conversation, r.turn, "user")
        /\ (r.status = "completed") = Recorded(r.conversation, r.turn, "assistant")
        /\ r.answered = Recorded(r.conversation, r.turn, "assistant")
    /\ failures = 0 =>
        \A w \in Workspaces : \A i \in 1 .. Len(memory[w]) :
            \/ \E r \in agent_runs : r.turn = memory[w][i] /\ r.status = "completed"
            \/ \E p \in Chatters : stage[p] = "persist" /\ turn[p].number = memory[w][i]

\* Tenant isolation: what an answer cites, on record, in the cache or on its
\* way, is of the workspace it was asked in.
CitesOwnWorkspace ==
    LET Of(citations, w) == \A c \in citations : documents[c[1]].workspace = w
    IN  /\ \A m \in messages : Of(m.citations, conversations[m.conversation])
        /\ \A w \in Workspaces : \A i \in 1 .. Len(cache[w]) : Of(cache[w][i].citations, w)
        /\ \A p \in Chatters : stage[p] # "idle" => Of(turn[p].citations, WorkspaceOf(p))

\* "Oldest first": sorted by created_at, a question comes before its answer.
OldestFirst ==
    \A m, n \in messages :
        /\ m.conversation = n.conversation /\ m.turn = n.turn
        /\ m.role = "user" /\ n.role = "assistant"
        => m.created_at < n.created_at
=============================================================================
