# Verification of NexusAI

TLA+ models of the NexusAI back end (`src/app`), the TLC runs that check them on
small instances, and theorems about them that TLAPS proves for every instance.
NexusAI is a multi-tenant knowledge base: users upload documents into workspaces,
a pipeline cuts them into chunks and indexes them in PostgreSQL and a vector store,
and chat and agent requests answer questions from what retrieval finds.

- `PROJECT.json` lists components, runs, theorems, hazards, findings, and the source
  lines behind each definition.
- `X.tla` models a component, `MCX.tla` gives its constants values, `*.cfg` are the
  runs, `XProofs.tla` holds theorems.
- `tlc -config <run>.cfg <MC module>` repeats a run, `tlapm <X>Proofs.tla` the proofs.

Definitions marked `Mutant:` are variants of the definition that follows them, with a
plausible bug in it. None is used by a specification. They are there to show that each
property can fail: put in place of the original they break the property they are
listed with.

## The system

Requests run on asyncio in one or more API processes, tasks in Celery workers.
Everything durable is in PostgreSQL (READ COMMITTED, one session a request), in the
vector store (Qdrant, or an in-memory twin) and in files under `upload_dir`. The rate
limiter, the semantic cache and the agent's memory live in a process and die with it.
The code takes no explicit locks: what orders concurrent work is unique constraints,
row locks of UPDATE, DELETE and conflicting INSERT, and the absence of an `await`.

| Component | State | Operations | Speaks to |
|---|---|---|---|
| Document ingestion | documents, chunks, vectors, bytes on disk, task queue | create, delete, reprocess, `ingest_document`, `run_ingestion` | database, vector store, embedder, Celery |
| Chunker | none between calls | `chunk_pages` | called by ingestion |
| Authentication | users, refresh tokens | register, login, refresh, logout | database |
| Workspaces | workspaces, memberships | create, add or change a member | database; its membership test is the tenant check of all others |
| Rate limiter | hits of each caller in this process | one verdict a request | clock; first of the HTTP stack |
| Conversations and chat | conversations, messages | create, answer, stream | retrieval, cache, model |
| Agent | agent runs, messages, long-term memory | `run_agent` | retrieval as a tool, memory, model |
| Semantic cache | answers by workspace, in this process | lookup, store | chat only |
| Retrieval | none between calls | `retrieve`: two searches, fuse, rerank, assemble | chunks, documents, vectors |
| Vector stores | vectors by document | upsert, search, delete | ingestion, retrieval |
| HTTP stack | request id of each task, gauge, counters, histogram | layers in and out, error envelopes | all requests; the rate limiter is one of its layers |
| Access tokens, current user | none | sign, check | guarded endpoints |
| Extractors | state of one parser | bytes to pages | ingestion |
| URL fetcher, upload endpoint | none | URL or upload to bytes and a name | ingestion |
| Evaluation | none | metrics over `retrieve` | retrieval |
| Schema and migrations | tables, indexes, enum types, alembic's version | upgrade, downgrade, `create_all` | what all models of `app/models` rely on |
| Providers | none | complete, embed | chat, agent, ingestion |
| Schemas, configuration, logging, deployment, load test, web page | none | – | – |

### What is hard about it, and what would be right

**Ingestion.** Three kinds of request and a task share one pipeline, which awaits a
dozen times; the vector store is no part of the database transaction; a session writes
back only what differs from a copy that may be stale; workers die and tasks come back.
Right is: content is unique in a workspace, a failed document can be replayed, two runs
of one document do not mix their rows, an INDEXED document can be found, a deleted one
cannot and stays deleted, an upload is ingested in the end, and a task survives its
worker.

**Tokens.** What a refresh or a logout checks when it loads the row is not checked when
it writes. Right is: an email has one user, a token that was exchanged is revoked and
stays so, nobody can exchange it any more, and a login is good for one live token.

**Workspaces.** The actor's role is read, then the member's row, then the write happens.
Right is: one membership a user, an owner who is a member, roles given by managers, and
always a manager.

**Rate limiter.** Windows of a fixed length, a clock with fractions, a header in whole
seconds. Right is: the cap holds, the burst over a boundary is bounded, refusals are
earned, and Retry-After is enough and not too much.

**Chat and agent.** A turn is one transaction that awaits the embedder, two searches and
the model while documents change under it; cache and memory are written before the
commit. Right is: questions and answers are recorded together, runs can be audited,
citations stay in their workspace, what has been deleted is not cited, and messages are
listed in order.

**Chunker and retrieval.** Sizes and overlaps nobody validates; two rankings merged,
sorted again, cut, and packed into a budget. Right is: no text is lost, chunking ends,
chunks are bounded, agreement of the searches counts, and the best is cited.

**HTTP stack.** Each layer awaits the next in a task of its own, so that requests are
between any two layers at the same time and share the collectors and the limiter. Right
is: an answer carries its own request's id, whoever else is on the way, the collectors
add up at every scrape, and probes are neither throttled nor counted.

**Extractors and URLs.** HTML that closes what it never opened, sheets with ragged rows,
names without an extension, servers that lie about a type. Right is: no visible text and
no cell is lost, and what is fetched has an extractor.

**Migrations.** Five revisions up and down in any order, broken off in the middle, on
databases where the application has created tables first. Right is: no command is
refused for what an earlier one left behind, the revision says all there is to say about
the schema, and the latest one is what the models are written for.

## The modules

| Module | Models | Composition |
|---|---|---|
| `DocumentLifecycle` | abstract: what ingestion promises of a document | – |
| `DocumentIngestion` | `document_service`, `ingestion/pipeline`, `workers/tasks`, the broker | implements `DocumentLifecycle` by INSTANCE |
| `DocumentHistory` | which documents two processes have worked on at once, which an error has escaped from, and what holds of all others | extends `DocumentIngestion` by two history variables |
| `Sessions` | abstract: what a user's sessions promise a client | – |
| `AuthTokens` | `auth_service`, `token_service`, `user_service` | implements `Sessions` by INSTANCE |
| `Workspaces` | `workspace_service` | – |
| `RateLimiter` | `core/ratelimit` | – |
| `HttpStack` | `main`, `core/context`, `observability`, `metrics`, `security_headers`, `errors`, `api/deps` | extends `RateLimiter`, whose actions are two of its steps |
| `Conversations` | `chat_service`, `conversation_service`, `agent/*`, `semantic_cache`, the queries of `retrieval` | reads documents, chunks and vectors |
| `KnowledgeBase` | both at work on the same tables | `Conversations` extended, `DocumentHistory` by INSTANCE |
| `Chunker` | `ingestion/chunker` | – |
| `Retrieval` | `_fuse`, `_rerank`, `_assemble` of `retrieval` | – |
| `Evaluation` | `eval/metrics`, the core of `eval/harness` | extends `Retrieval`, whose citations it judges |
| `Extractors` | `ingestion/extractors` | – |
| `UrlIngestion` | `ingestion/fetcher`, the way of bytes and names through `document_service` | extends `Extractors` |
| `Migrations` | `migrations/`, the tables of `app/models` | – |

`MCRagAlgorithms` is the union of the sequential parts: a behaviour is one call of the
chunker, of retrieval and its evaluation, of an extractor or of an upload, or any
sequence of migrations.

**One action is one stretch between awaits.** `pc` (or `stage`) says at which await a
process is, `req` (or `turn`) holds its local variables, and `session` the ORM copy of
its row. The code between two awaits cannot be interleaved, and no other granularity
would be faithful: a coarser one hides the races, a finer one invents some. Where
several awaited calls follow each other without anything another process could tell
apart, they are one action, and the comment says which.

**The database** is modelled by what the code relies on. *Flush* is the UPDATE of
SQLAlchemy: the columns that differ from the loaded copy, and no other; it is why
a deletion is final and why `RowConsistentUnlessShared` has its condition. A
DELETE waits for rows another transaction has deleted and ignores rows it has replaced;
an INSERT waits for a transaction that holds conflicting keys and fails if they stay
(`LockedByOther`, `InsertedByOther`). Unique constraints are guards of INSERT, beside a
second action for the IntegrityError, which nothing in the code handles. A rollback
leaves files, vectors, cache and memory as they are.

**Ingestion.** `CreateDocumentCheck` to `CreateDocumentWrite` are `create_document`;
`RunIngestionStart` to `RunIngestionRecord` are `run_ingestion` from its first commit to
the one of its `except` block; `DeleteDocument…` is the purge and the mark, with the
await between them. `chunks[d]` and `vectors[d]` name the run that wrote them, which is
how a stale vector is told from a fresh one. `IngestionFault` makes any awaited call of
the `try` block raise, before or after it has taken effect. `Escape` is the same for the
calls outside of it (`Unguarded`), the commits of `run_ingestion` among them: nothing
catches the error, a request ends in a 500, and Celery acknowledges the message of a task
that raises, so that nobody takes the document up again. `Crash` is a process that dies,
anywhere: the broker takes the message of its task back, as `task_acks_late` and
`task_reject_on_worker_lost` have it. `RedeliverTask` is the visibility timeout of the
broker. `SendTask` is outside of `src/`: the code registers the task and never sends it.

**The life cycle.** `DocumentLifecycle` has no bytes, no vectors, no messages and no
transactions: a document is content with a status, chunk rows of a run, a mark, and the
agents that have a run of it open. The mapping is at the end of `DocumentIngestion`: a
run is open from the request that will begin it (`RunOpen`), and what happens between
those steps is a stutter. What a client can count on is there to be read in seven short
actions: content is uploaded once, a deletion is final and no run is opened after it,
the verdict INDEXED and the new chunk rows are one step, a failure leaves the rows of
the last success, and no run says anything about a document that is still QUEUED.

**Tokens.** `parent` and `login` are no columns; they record which token was exchanged
for which. `Sessions` is what of all that a client can count on, in four actions: an
email has one user, a login opens a session, a good token is exchanged for one of the
same user and session, and tokens are lost. *Good* is a token that is active, or that a
request is about to rotate that loaded it while it was; so a logout that commits late,
or a request that gives up, is where it is lost, and the two successors of
`AuthRefreshRace` are two exchanges of a token that was good all along. Lost is lost:
`OverForGood`. **Workspaces.** `managed`, `overlapped` and `givenUp` are history, no
action is guarded by them. **Rate limiter.** `admitted` and `retryAt` are history too.

**Conversations.** A request is a transaction: `Ask` is its beginning, `Persist` its
commit, and only the commit changes the tables. `created_at` is the number of the
transaction, since `now()` in PostgreSQL is when a transaction began. `Dense` and
`Keyword` are two queries with an await between them. Questions are classes of messages
within the cache's threshold of each other.

**Chunker.** A character is text or white space, nothing else matters to `strip()`;
one iteration of a loop is a step. **Retrieval.** A chunk is the number of query terms
it has and what it costs; scores of the fusion are exact fractions. What a list is
sorted by is the set of pairs the key puts in order (`MoreTerms`, `HigherScore`,
`Outranks`), and `Sorted` the one arrangement of the chunks that follows it and is
stable in their places before.

**HTTP stack.** `stage` says which layer a request is in and, on the way back, what it
has for an answer. The settings the application comes with are assumed: rate limiting
and security headers on. Three things are modelled as the code has them and not as
`main.py` or `errors.py` put it. An exception no handler is for is answered outside all
of the layers, after the request id has been reset: that answer has no id and no
security headers, which `UnhandledErrors` shows. The gauge goes down when a
stream begins, not when it ends. Users are never inactive, since nothing makes them so.

**Extractors.** A step is an event of `html.parser` or a row of a sheet. `sheet` is the
sheet as it was read, `rows` what is left of it when rows without text are dropped. The
parser is never closed, so that it keeps back a text at the end of the page that has a
`&` in it: `HoldText`, and the one exception of `PageTextIsKept`. **URLs.** A name is a
stem and an extension, and the extension of the URL wins over the content type.

**Migrations.** A schema is what decides whether a statement or an INSERT is accepted:
tables with their columns, constraints, foreign keys and enum types, indexes, labels. A
command is one transaction, as `env.py` has it: `RunMigrations` opens it, `NextRevision`
takes up the statements of the revision that is next on the way to `target`, with the
stamp alembic ends it with, `RunStatement` runs one of them, `Commit` or `Undo` ends it.

## The runs

Twelve runs: six that must pass and six in which TLC must find what the code does
against what a comment of it says.

| Run | Instance | Question |
|---|---|---|
| `Ingestion` | 2 processes, each a handler and a worker, 1 document, 2 files with the same bytes (one unreadable), 3 runs, 1 fault, 1 crash | what holds under any interleaving and failure, does the pipeline implement the life cycle, and what happens in the end? |
| `IngestDeleteRace` ✗ | 2 processes, 1 document, no failure | is a deleted document purged? |
| `IngestReupload` ✗ | 1 process, 2 documents, no failure | does an upload of known content resolve to a document? |
| `AuthSessions` | 3 requests, 2 users, 1 email, 4 tokens, life 2, clock to 2 | rotation, revocation, one live token a login, and do the tokens implement the sessions? |
| `AuthRefreshRace` ✗ | 2 requests, 3 tokens | can a rotated token be exchanged again? |
| `HttpStack` | 3 requests of 2 clients, 2 open at a time, limit 1, window 2 s, a clock of half seconds to 5 of them, 3 hits | ids, collectors, who is throttled by whom, and the limiter's cap and Retry-After inside the stack |
| `UnhandledErrors` ✗ | 1 request | has every failure the uniform envelope and the headers? |
| `WorkspaceRoles` | 2 requests, 3 users, 1 workspace, 3 memberships | roles and managers |
| `KnowledgeBase` | 2 chat, stream or agent requests, 2 workspaces, 2 conversations, a handler and a worker on 1 document and 1 run, at most 3 of these four at work at once, cache and memory of 1, 2 turns, 1 failure or restart | turns, audit, isolation, deleted documents |
| `ConversationOrder` ✗ | 1 request, no failure | are messages listed in order? |
| `RagAlgorithms` | every page of up to 6 characters and pair of pages of up to 3, sizes 0–4, overlaps -1–4; every pair of rankings of 3 chunks, overlaps 0–2, costs 0, 1, 3; every 5 events of the HTML parser; sheets of up to 3 rows of up to 3 cells; every name, type and size; every sequence of commands on the 5 revisions | the sequential parts |
| `MigratedEnums` ✗ | migrations alone | does a migrated database take what the models write? |

**Why the bounds are enough.** The races are between two actors at one document, token
or membership, and two processes have them all. The files of `Ingestion` have the same
bytes, so that the constraint of the workspace leaves one document, on which all that
overlaps meets; that a run leaves other documents alone is in the proofs, which are for
any number of them. Three runs are one, its repetition, and one that repairs both. A
fault and a crash fail one and its repetition; more of either only repeat them.
`AuthSessions` needs three requests for two that exchange a token and one that uses its
successor, and a clock that reaches a token's end. In `HttpStack` a second open request
is all it takes to be overtaken at any layer, a limit of 1 is used up by the first, the
third finds it used up and, when the clock has passed the window, renewed; the access
token expires in the middle. A second has two instants, which is what it takes for the
fraction that `int()` drops; a client refused in either half can ask again when
Retry-After is over. `HttpStackProofs` covers other numbers of requests, limits, windows
and clocks. `WorkspaceRoles` needs a third user to be added by the other two.
`KnowledgeBase` has a handler and a worker because the overlap of a delete and a run is
what leaves vectors behind; faults and crashes of ingestion are in `Ingestion`, and
`DeletedIsNotCited` is proved with them. `AtMostThree` is a constraint of the run: two
chats are interleaved with the one or the other side of such an overlap, or one chat
with both. A cache and a memory of one evict at the second entry. Six characters hold a
window between two others for every size up to 3 and overlap below it; three chunks are
in both rankings, in one, or in none. Five events open, close and leave open a skipped
element with text before, in and after it; three rows are a header, a longer and a
shorter one. The revisions are all there, so the schema needs no bound. Where the bounds
fall short the theorems below take over: all of the invariants, and both refinements,
are proved for every value of the constants.

Processes, ids, users and keys are symmetric where no definition chooses among them;
runs with liveness properties use no symmetry.

**Deadlock** is checked in `MigratedEnums` only, where a command can always be given. In
the other runs every behaviour may stop once its bounds are used up, when users ask
nothing. That nobody waits for ever is stated instead, as `WorkEnds` and `ChunkingEnds`.

**Fairness.** `Ingestion` assumes weak fairness of what goes on without anybody's help:
a process that has begun takes its next step, and a worker takes a message that waits.
The event loop and the Celery pool justify it. Nothing is assumed of users, of
`SendTask`, of faults or of crashes. Weak fairness is enough for a process that waits
for a lock because the lock's holder is itself fair, and that is what `WorkEnds` shows.
`UploadsGetIngested` is claimed short of a crash and of an error that escapes, since
either, before `write_bytes`, leaves a document QUEUED for good, and with `ingest_eager`
on, since nothing sends the task when it is off; `TaskSurvivesCrash` short of the bound
on runs and of errors that escape. `ChunkFairness` says that a function that has been
called runs.

**Properties with a condition.** Some promises hold only under a condition, and it is
written into the property or the run rather than left out:

- `IndexedSearchable` is about states that no fault and no crash has led to. A delete
  that dies between purge and mark leaves a document listed and not found.
- `DeletedPurgedUnlessShared`, `RowConsistentUnlessShared`, `NeverStaleUnlessShared` are
  about documents that no two processes have worked on at once, whatever happened to
  other documents and whatever failed or died: the history variable `shared` of
  `DocumentHistory` collects the others. Overlap breaks each of the three, the
  first as `IngestDeleteRace` shows.
- `UploadsGetIngested` and `TaskSurvivesCrash` except documents whose upload or run an
  error has escaped from, which `escaped` collects: such a document stays QUEUED or
  PROCESSING until somebody asks for a reprocess.
- `AnswersCarryTheirId` asks of the answer to an exception nobody handled only that it has
  no other request's id. What the comments promise of it is `UniformAnswers`.
- `NeverRefused` and `RevisionSaysItAll` are about databases whose tables alembic has
  made; with `db_auto_create` a first upgrade is refused by the tables that are there.
- `DeletedNotCitedUnlessShared` is about documents that no two processes have worked on at
  once, because the dense search does not look at `deleted_at` and relies on the purge. It
  excepts answers out of the cache, which no delete empties. A delete and a run that overlap
  are in the run of it.
- `OneSessionPerLogin` and `ManagedUnlessGivenUp` except sessions that were forked and
  workspaces on which requests have overlapped.
- `RunsAreAudited` excepts the memory of the agent once something has failed: it is
  written before the commit.
- `AgreementFirst` is about rankings no longer than `_RRF_K` + 1. Beyond that a first
  place in one ranking outweighs two last ones.

### What the six violations show

- `IngestDeleteRace`: a delete between the purge and the upsert of a run removes vectors
  that are then written again; the deleted document is found by searches. The comment
  of `delete_document` says that it purges.
- `IngestReupload`: the look-up by checksum skips deleted rows, the unique constraint
  does not; uploading deleted content again ends in an unhandled IntegrityError. The
  model's comment says that the same content resolves to the existing document.
- `AuthRefreshRace`: two refreshes load one token before either has committed; one
  exchanges it and commits, and the other exchanges it again, so that it has two
  successors. The comment of `auth_service` says that a rotated token can no longer be
  exchanged. With one request at a time it cannot (`RotatedIsDeadSerially`).
- `UnhandledErrors`: an endpoint raises what no handler is for, and Starlette answers
  outside all of the layers, where the id has been reset: a 500 without correlation id and
  without security headers. `main.py` has a "uniform error envelope with the correlation
  id on every failure", and `security_headers.py` headers on every response.
- `ConversationOrder`: question and answer are inserted in one transaction, so that
  their `created_at` is the same, and it is all that `list_messages` sorts by.
- `MigratedEnums`: the models' enum columns write the names of the members (`OWNER`),
  the migrations create the types with their values (`owner`). `main.py` says that
  production relies on migrations. The tests create their tables with `create_all`,
  where the labels are the names as well.

## The proofs

Eight modules of proofs, all leaves checked. They hold for all sets of processes, ids
and values and for all bounds; the assumptions are the named `ASSUME`s of the modules
(`ConstantsAssumption`, `TokenConstants`, `WorkspaceConstants`, `LimiterConstants`,
`StackConstants`, `ChatConstants`, `IngestionConstants`, `ChunkerConstants`,
`RetrievalConstants`, `EvaluationConstants`, `ExtractorConstants`, `UrlConstants`,
`DbAutoCreateType`): NULL is no id, no row and no content, numbers are numbers of the
right kind, sheets are rows of cells, chunks are finitely many and each is of a
document. TLC evaluates them in the runs.

**`DocumentIngestionProofs`.** Types alone are not inductive, since a step follows
`req[p].doc`; `Referenced` adds that a process at work has a row with a file.
`DeletionIsFinal` and `ContentIsUnique` follow from one lemma, `RowStep`: every step
leaves the rows alone, inserts one under the constraint, or changes columns of one
without its workspace and file and without taking `deleted` back. `FailedCanBeReplayed`
adds that whoever is in a run has bytes (`Bytes`). `RunsAreOrdered` rests on `Locks`:
rows a run has cleared are the committed ones and no other run's, new ones are there
from INSERT to the end only and are no second run's. `IndexedMeansChunks` adds that run
numbers are in range (`Numbered`).

Its last part is the refinement. `PipelineImplementsLifecycle`: whatever interleaves, fails
or dies, each step of the pipeline is one step of the abstract life cycle or none that
it sees, for any number of requests, workers, documents and files. There is a lemma for
each action that moves the abstract state. `LifeInv` strengthens the types by what those
steps need: content has a workspace (`Placed`); no two open runs of a document have the
same number, and none has the committed one's (`Fresh`), so that closing a run closes
that one; and a run past its start has left QUEUED behind, whatever copy of the row its
session holds (`Begun`), so that its last write is never a second beginning.

**`DocumentSearchProofs`.** `SearchableWithoutFailures` is the deepest result: without
failures no interleaving of uploads, reprocesses, tasks and deletes leaves a live
INDEXED document with vectors other than its chunks'. A second run may empty the store
behind the first one's back. It then waits at its INSERT until the first commits, and
is refused. So as long as the vectors are wrong, somebody is at work on the document
who will mark it FAILED or deleted, and `SearchInv` says so for a run about to commit.
It needs `Locks`, `Enclosed` (who works on nothing has no document) and `LoadedLive` (no
session has loaded a deleted row). `NothingFailed` cannot become true again, so the
invariant is one under that condition. The other three theorems are about failures and
crashes, without overlap. `HistoryInv` says of a document that is not in `shared` that
one process at most is at work on it (`Alone`); that at rest its vectors and its row are
what they should be (`Settled`), a property that holds while somebody is at work, too,
since each await of a run leaves it so; and that who is at work knows its row
(`Undisturbed`). It is an invariant of the document and not of the pipeline: others may
be shared. `DeletedIsPurged`, `RowsAreConsistent` and `ReprocessRepairs` can be read off
it.

**`AuthTokensProofs`.** `TokenTypes` adds to the types that a loaded token has been
issued. `TokensLast` says that a step takes no row away; `NewTokens` where a new one
comes from. `OneSessionUnlessForked` goes by the leaves of the tree of descent: in a
session nobody has forked only one token has no successor (`OneLeaf`), and all others
are revoked (`RotationRevokes`). `RevokedIsDeadSerially` assumes
that there is one process: then nothing is exchanged that was revoked before.
`RotatedIsDeadSerially` follows, the property that `AuthRefreshRace` refutes for two.
`TokensImplementSessions` is the refinement, for any number of requests at once. No step
makes a token good that was issued and is not (`NoBetter`); what is left is a lemma for
each action that moves the abstract state, and `GoodLost` for those that at most lose
tokens, the clock among them. `SessionsEndForGood` is `OverForGood` of the tokens: it
holds of every behaviour of `Sessions`.

**`HttpStackProofs`.** First the limiter on its own. `CounterInv` ties the counter to the
history: the last admissions, as many as it counts up to the limit, belong to its
window, and all others to earlier ones. The cap follows, and the burst from the cap by
arithmetic of windows, which is proved first. `RetryInv` places the end of Retry-After
in the first second of the next window. Then the layers. `IdKept` says for each stage
what a request has with it: its id in its context from the layer that sets it to the
layer that resets it, and then the parts of its answer. No step changes the context of
another request, so that `AnswersAreTraceable` follows for any number of them at once.
`StackImplementsLimiter` is the refinement: each step of the stack is a verdict, a tick
or nothing to `RateLimiter`, whose theorems then hold inside the stack
(`StackLimitHolds`, `StackRefusalsAreEarned`, `StackRetryIsEnough`). `CollectorsAgree`
counts the requests on either side of `MetricsMiddleware` by cardinality (`MetricsInv`),
and has one lemma for a request more and one for a request less. `ThrottlingIsEarned`
ties the layers to the limiter's history: the requests of a key that were let in and are
no probes are as many as the limiter has admitted of it (`LetInCounted`), so that a
request it refused had `Limit` others of its own key before it (`RefusedInTurn`).

**`WorkspacesProofs`.** A request at work has been let in by somebody who was a manager
then, and its row is the one it looked for (`Authorized`); where nothing has overlapped
that actor still is one (`Alone`), which keeps a manager in every workspace that has not
been given up (`Reachable`).

**`KnowledgeBaseProofs`.** The pipeline is an instance of `DocumentSearchProofs`, and
`PipelineRuns` shows that in `KnowledgeBase` it runs as `HistorySpec` has it, so
that the types, `RowStep` and `HistoryInv` can be cited. Of the pipeline the chat needs
little: a document keeps its workspace (`DocumentsStay`) and a deletion is final.
`ChatInv` has the types and, for a request at work, what it was asked (`Asked`) and that
its number is no other's (`Unlike`). `RecordIsWhole` follows from what one commit
inserts; `AuditIsTrue` from that and from `Remembering`, which places each number in
the agent's memory on record or in a request about to commit. `TenantsAreIsolated`
needs `CiteInv`, the property itself of tables, cache and requests together: a chunk
that is found is of the workspace that was asked in, an entry of the cache was an answer
of that workspace. `DeletedIsNotCited` is about the time between a question and
its search: `DeletedInv` says that what was deleted when the question came is deleted
still (`DeletedStep`). The keyword search skips it; the dense search finds nothing of it as
long as it has not been shared, which `UnsharedIsPurged` reads off `HistoryInv` of the
pipeline, and a document that has been shared stays in `shared` (`SharedStays`).

**`RagAlgorithmsProofs`.** One call of each sequential part, whatever it is given.
The first lemmas are the mathematics the rest needs: `SetInduction` gets induction over
the numbers from the well-foundedness of inclusion among finite sets, and `Recursion`
from that the existence of a function defined by recursion.

- *Chunker.* `Behind` bounds where the chunks of the page end, relative to the window
  that is next; `NothingLost` for the part of the page that has been passed is inductive
  with it, whatever size and overlap.
- *Extractors.* `PageInv` says that the skip depth is 1 inside of an element of `_SKIP`
  and 0 outside of it, since the depth never goes below zero and `html.parser` opens
  none in another: hence `PagesAreKept`. `KeptRows` shows that the rows with text in
  them stay, each at the place it has among them (`NextPlace`), and `SheetInv` that each
  line has the values of its row under the names of the first: hence `SheetsAreKept`.
- *URLs.* `FetchesAreExtractable` is a case distinction over where a name comes from.
- *Retrieval.* `ArrangedInOrder` shows that a finite set with a total order has an
  arrangement, by counting what is below each element; `SortedInOrder` that sorting by a
  key (a weak order) and by place returns one with nothing better behind. `KeysAreWeak`
  shows that the keys of the three sorts are weak orders, for which fractions have to be
  compared crosswise (`GreaterIsWeak`). `BothScoreHigher` is the arithmetic of
  `AgreementComesFirst`: two shares of at least 1/121 are more than one of at most 1/61.
  `SpentIs` says what `Spent` adds up to when a chunk is appended, and `CitedInv` that
  what is cited are the first chunks of the reranked list within the budget: hence
  `TheBestIsCited`.
- *Evaluation.* `SeenOnce` shows that the documents seen are an enumeration, and
  `FiguresAgree` that recall and precision count the same part of it.

**`MigrationsProofs`.** `Made(T, I, E, v)` is a schema whose tables are `T`, each as the
models declare it. One lemma a kind of statement says what it makes of such a schema and
what it asks of it (`Does`); the ten lemmas after them follow the revisions, up and down,
statement by statement, from a schema whose indexes are those of its tables to another
(`LeadsTo`). Where alembic is alone the tables and labels are exactly the revision's, so
that each statement is accepted, and that is the condition under which it has to be;
where `create_all` has been at it there may be more of them, which does not matter to
what the statements make of it. `MigrationInv` says that the committed schema is such a
one (`Sound`), and that the statements still to run lead to such a one. Then
`MigrationsNeverRefused` and `LatestIsWhatModelsDeclare` can be read off it, and
`MigrationsLeaveTheirSchema` from the fact that there is only one sound schema a revision
(`SoundIsSchema`), which the upgrades from nothing lead to as well (`OutcomeOfRun`).

`MCRagAlgorithms` lets only one of these move at a time, so that its behaviours are
behaviours of each.

**Theorems no run repeats.** `DeletionIsFinal`, `ContentIsUnique`, `EmailsAreUnique`,
`RevokedStaysRevoked`, `SessionsEndForGood`, `MembershipIsUnique`, `BurstsAreBounded`,
`RetryIsTight` and the type invariants of the proved modules hold for every instance, so
that no run spends a property on them; so does `ExchangersWereEarly`
(`LateExchangesFail`). The first two also follow from `ImplementsLifecycle`,
`SessionsEndForGood` from `ImplementsSessions`.

**Only model-checked.** Liveness (`UploadsGetIngested`, `WorkEnds`,
`TaskSurvivesCrash`, `ChunkingEnds`): fairness and ENABLED are out of the prover's
reach. What the six violating runs show, which are single counterexamples.

**What the provers do not take, and what is done instead.** The library's theorems of
induction have an operator as a parameter, which no backend can instantiate; where a
recursive function is reasoned about (`Spent`, `Kept`, `Outcome`), it is with
`SetInduction`, for the set of the numbers the claim holds for. No backend knows what
`SelectSeq` is, so that `Extractors` defines `Kept` by a recursive function. Operators
declared RECURSIVE are not used at all.

## What is not modelled, and why

- Passwords, signatures, the content of prompts, wording, logging: no property here
  tells their values apart. Section titles and token estimates of chunks likewise.
- Decoding of plain text, and PDF and DOCX, which a library reads whole. What
  `html.parser` makes of malformed tags: its events are taken as they come. Ingestion
  sees pages or an exception.
- Redirects, timeouts and errors of `httpx`: one outcome.
- Providers: one HTTP call each that answers or fails, without retries or state. It is
  an outcome in `DocumentIngestion` and `Conversations`.
- The means over the cases of an evaluation, and its sample data.
- Column types but enums, lengths and server defaults of the schema.
- Error tracking, tracing, and the counters of model calls.
- Similarity: which of several close answers the cache returns, which summaries the
  agent recalls, and how vectors rank are left open.
- `ensure_ready` of Qdrant, its consistency levels, several batches of one upsert.
- Ownership of conversations: a guard that changes nothing.
- Schemas, configuration, logging, deployment, load test, web page: no behaviour. The
  settings that matter are constants of the modules.

## The plan

The order is by what the system promises: documents, then who may see them, then what
answers are made of.

1. *Done:* `DocumentIngestion`, its runs and proofs; `AuthTokens` with proofs;
   `RateLimiter` with proofs; `Workspaces` with proofs; `Conversations` and
   `KnowledgeBase`; `Chunker` with proofs; `Retrieval`.
2. *Done:* `DocumentLifecycle`, and by TLC and TLAPS that `DocumentIngestion` implements
   it; `HttpStack` on top of `RateLimiter`; `Extractors` and `UrlIngestion`; `Evaluation`
   on top of `Retrieval`; `Migrations`.
3. *Done:* `HttpStackProofs`, with the limiter inside the stack; the three promises of
   undisturbed work, for every instance (`DocumentHistory`); `KnowledgeBaseProofs`;
   `RagAlgorithmsProofs`, for retrieval, evaluation, extractors and URLs beside the
   chunker.
4. *Done:* `Sessions`, what a login, a refresh and a logout promise, implemented by
   `AuthTokens` in the way `DocumentLifecycle` is by the pipeline, by TLC and TLAPS;
   `MigrationsProofs`, the revisions one lemma a statement.

What would come next follows the code: retries of the providers, several batches of an
upsert, or a task that `create_document` sends itself would each be an action more of
`DocumentIngestion` or `Conversations`, and a step more of its proofs.
