----------------------------- MODULE Migrations -----------------------------
(***************************************************************************)
(* The database schema as the alembic revisions 0001 to 0005 of            *)
(* migrations/versions build it and take it down, one DDL statement a      *)
(* step, and as the ORM models of app/models declare it.  migrations/      *)
(* env.py runs all the statements of a command in one transaction, which   *)
(* PostgreSQL commits or undoes as a whole.  With db_auto_create the   *)
(* application also creates tables itself when it starts.                  *)
(*                                                                         *)
(* Of a column the module keeps whether it may be NULL; of an enum type    *)
(* its labels.  Lengths, numeric types and server defaults are left out.   *)
(***************************************************************************)
EXTENDS Naturals, Sequences

CONSTANT DbAutoCreate       \* settings.db_auto_create
ASSUME DbAutoCreateType == DbAutoCreate \in BOOLEAN

VARIABLES
    catalog,    \* the committed schema
    work,       \* the schema as the open transaction sees it
    plan,       \* the statements of the revision at hand that are left
    target,     \* the revision the command is to reach
    created     \* whether the application has created tables itself

migrationVars == <<catalog, work, plan, target, created>>

\* A command has its transaction open.
Running == target # catalog.version
-----------------------------------------------------------------------------
(* Schemas *)

\* A table: its columns, by whether they may be NULL, its UNIQUE constraints,
\* its foreign keys, and the enum types of its columns.
Table(required, optional, uniques, refs, enums) ==
    [required |-> required, optional |-> optional, uniques |-> uniques,
     refs |-> refs, enums |-> enums]

Ref(column, table, ondelete) == [column |-> column, table |-> table, ondelete |-> ondelete]

NoTable == <<>>
NoLabels == {}

\* A name is mapped to NoTable, or NoLabels, when there is no such table or type.
TableNames == {"users", "workspaces", "memberships", "documents", "chunks", "embeddings",
               "conversations", "messages", "refresh_tokens", "agent_runs"}

TypeNames == {"membership_role", "document_status", "message_role", "agent_run_status"}

Empty == [tables |-> [t \in TableNames |-> NoTable], indexes |-> {},
          types |-> [e \in TypeNames |-> NoLabels], version |-> 0]

Index(table, column, unique) == [table |-> table, column |-> column, unique |-> unique]
-----------------------------------------------------------------------------
(* Statements *)

CreateTable(name, table, labels) ==
    [op |-> "create_table", name |-> name, table |-> table, labels |-> labels]
CreateIndex(table, column, unique) == [op |-> "create_index", index |-> Index(table, column, unique)]
DropIndex(table, column) == [op |-> "drop_index", table |-> table, column |-> column]
DropTable(name) == [op |-> "drop_table", name |-> name]
DropType(name) == [op |-> "drop_type", name |-> name]
Stamp(version) == [op |-> "stamp", version |-> version]

HasTable(s, t) == s.tables[t] # NoTable
HasType(s, e) == s.types[e] # NoLabels
OtherTables(s, t) == {u \in TableNames \ {t} : HasTable(s, u)}

\* What PostgreSQL accepts.  create_table also creates the enum types of the
\* columns, which must not be there; drop_type looks first.
Accepts(s, c) ==
    CASE c.op = "create_table" ->
            /\ ~HasTable(s, c.name)
            /\ \A r \in c.table.refs : HasTable(s, r.table)
            /\ \A e \in c.table.enums : ~HasType(s, e)
      [] c.op = "create_index" ->
            /\ HasTable(s, c.index.table)
            /\ c.index.column \in s.tables[c.index.table].required
            /\ \A i \in s.indexes : <<i.table, i.column>> # <<c.index.table, c.index.column>>
      [] c.op = "drop_index" ->
            \E i \in s.indexes : i.table = c.table /\ i.column = c.column
      [] c.op = "drop_table" ->
            /\ HasTable(s, c.name)
            /\ \A t \in OtherTables(s, c.name) : \A r \in s.tables[t].refs : r.table # c.name
      [] c.op = "drop_type" ->
            \A t \in TableNames : HasTable(s, t) => c.name \notin s.tables[t].enums
      [] c.op = "stamp" -> TRUE

\* What it does.  Indexes go with their table, types do not.
Execute(s, c) ==
    CASE c.op = "create_table" ->
            [s EXCEPT !.tables[c.name] = c.table,
                      !.types = [e \in TypeNames |->
                                   IF e \in c.table.enums THEN c.labels ELSE s.types[e]]]
      [] c.op = "create_index" -> [s EXCEPT !.indexes = @ \cup {c.index}]
      [] c.op = "drop_index" ->
            [s EXCEPT !.indexes = {i \in @ : <<i.table, i.column>> # <<c.table, c.column>>}]
      [] c.op = "drop_table" ->
            [s EXCEPT !.tables[c.name] = NoTable, !.indexes = {i \in @ : i.table # c.name}]
      [] c.op = "drop_type" -> [s EXCEPT !.types[c.name] = NoLabels]
      [] c.op = "stamp" -> [s EXCEPT !.version = c.version]
-----------------------------------------------------------------------------
(* The revisions *)

Stamped == {"id", "created_at", "updated_at"}

UsersTable ==
    Table(Stamped \cup {"email", "hashed_password", "is_active"}, {"full_name", "deleted_at"},
          {}, {}, {})

WorkspacesTable ==
    Table(Stamped \cup {"name", "owner_id", "plan"}, {"deleted_at"},
          {}, {Ref("owner_id", "users", "RESTRICT")}, {})

MembershipsTable ==
    Table(Stamped \cup {"user_id", "workspace_id", "role"}, {}, {{"user_id", "workspace_id"}},
          {Ref("user_id", "users", "CASCADE"), Ref("workspace_id", "workspaces", "CASCADE")},
          {"membership_role"})

InitialUpgrade == <<
    CreateTable("users", UsersTable, {}),
    CreateIndex("users", "email", TRUE),
    CreateTable("workspaces", WorkspacesTable, {}),
    CreateTable("memberships", MembershipsTable, {"owner", "admin", "member", "viewer"})>>

\* Mutant: workspaces go before the memberships that refer to them.
InitialDowngradeReversed == <<
    DropTable("workspaces"), DropTable("memberships"), DropIndex("users", "email"),
    DropTable("users"), DropType("membership_role")>>

InitialDowngrade == <<
    DropTable("memberships"), DropTable("workspaces"), DropIndex("users", "email"),
    DropTable("users"), DropType("membership_role")>>

DocumentsTable ==
    Table(Stamped \cup {"workspace_id", "filename", "mime_type", "size_bytes", "checksum",
                        "status", "chunk_count"},
          {"error", "deleted_at"}, {{"workspace_id", "checksum"}},
          {Ref("workspace_id", "workspaces", "CASCADE")}, {"document_status"})

\* Mutant: no uq_document_ordinal.
ChunksTableUnordered ==
    Table(Stamped \cup {"document_id", "ordinal", "text", "token_count"}, {"page", "section"},
          {}, {Ref("document_id", "documents", "CASCADE")}, {})

ChunksTable ==
    Table(Stamped \cup {"document_id", "ordinal", "text", "token_count"}, {"page", "section"},
          {{"document_id", "ordinal"}}, {Ref("document_id", "documents", "CASCADE")}, {})

EmbeddingsTable ==
    Table(Stamped \cup {"chunk_id", "vector_id", "model", "dimension"}, {},
          {{"chunk_id"}}, {Ref("chunk_id", "chunks", "CASCADE")}, {})

DocumentsUpgrade == <<
    CreateTable("documents", DocumentsTable, {"queued", "processing", "indexed", "failed"}),
    CreateIndex("documents", "workspace_id", FALSE),
    CreateIndex("documents", "status", FALSE),
    CreateTable("chunks", ChunksTable, {}),
    CreateIndex("chunks", "document_id", FALSE),
    CreateTable("embeddings", EmbeddingsTable, {})>>

DocumentsDowngrade == <<
    DropTable("embeddings"), DropIndex("chunks", "document_id"), DropTable("chunks"),
    DropIndex("documents", "status"), DropIndex("documents", "workspace_id"),
    DropTable("documents"), DropType("document_status")>>

ConversationsTable ==
    Table(Stamped \cup {"workspace_id", "user_id", "title"}, {}, {},
          {Ref("workspace_id", "workspaces", "CASCADE"), Ref("user_id", "users", "CASCADE")}, {})

MessagesTable ==
    Table(Stamped \cup {"conversation_id", "role", "content", "tokens"}, {"citations"}, {},
          {Ref("conversation_id", "conversations", "CASCADE")}, {"message_role"})

ConversationsUpgrade == <<
    CreateTable("conversations", ConversationsTable, {}),
    CreateIndex("conversations", "workspace_id", FALSE),
    CreateIndex("conversations", "user_id", FALSE),
    CreateTable("messages", MessagesTable, {"system", "user", "assistant"}),
    CreateIndex("messages", "conversation_id", FALSE)>>

ConversationsDowngrade == <<
    DropIndex("messages", "conversation_id"), DropTable("messages"),
    DropIndex("conversations", "user_id"), DropIndex("conversations", "workspace_id"),
    DropTable("conversations"), DropType("message_role")>>

RefreshTokensTable ==
    Table(Stamped \cup {"user_id", "jti", "expires_at"}, {"revoked_at"}, {},
          {Ref("user_id", "users", "CASCADE")}, {})

RefreshTokensUpgrade == <<
    CreateTable("refresh_tokens", RefreshTokensTable, {}),
    CreateIndex("refresh_tokens", "user_id", FALSE),
    CreateIndex("refresh_tokens", "jti", TRUE)>>

RefreshTokensDowngrade == <<
    DropIndex("refresh_tokens", "jti"), DropIndex("refresh_tokens", "user_id"),
    DropTable("refresh_tokens")>>

AgentRunsTable ==
    Table(Stamped \cup {"conversation_id", "status", "objective", "steps", "tool_calls",
                        "cost_usd", "latency_ms"},
          {"answer_message_id", "error"}, {},
          {Ref("conversation_id", "conversations", "CASCADE"),
           Ref("answer_message_id", "messages", "SET_NULL")}, {"agent_run_status"})

AgentRunsUpgrade == <<
    CreateTable("agent_runs", AgentRunsTable, {"running", "completed", "failed"}),
    CreateIndex("agent_runs", "conversation_id", FALSE)>>

\* Mutant: the type outlives its table.
AgentRunsDowngradeKeepsType == <<
    DropIndex("agent_runs", "conversation_id"), DropTable("agent_runs")>>

AgentRunsDowngrade == <<
    DropIndex("agent_runs", "conversation_id"), DropTable("agent_runs"),
    DropType("agent_run_status")>>

Upgrades == <<InitialUpgrade, DocumentsUpgrade, ConversationsUpgrade, RefreshTokensUpgrade,
              AgentRunsUpgrade>>

Downgrades == <<InitialDowngrade, DocumentsDowngrade, ConversationsDowngrade,
                RefreshTokensDowngrade, AgentRunsDowngrade>>

Latest == Len(Upgrades)

Upgrade(v) == Upgrades[v + 1] \o <<Stamp(v + 1)>>
Downgrade(v) == Downgrades[v] \o <<Stamp(v - 1)>>
-----------------------------------------------------------------------------
(* The models *)

\* What Base.metadata declares, with the columns of the mixins of db/base.py.
UUIDMixin == {"id"}
TimestampMixin == {"created_at", "updated_at"}
SoftDeleteMixin == {"deleted_at"}
Keyed == UUIDMixin \cup TimestampMixin

UserModel == Table(Keyed \cup {"email", "hashed_password", "is_active"},
                   SoftDeleteMixin \cup {"full_name"}, {}, {}, {})

WorkspaceModel == Table(Keyed \cup {"name", "owner_id", "plan"}, SoftDeleteMixin, {},
                        {Ref("owner_id", "users", "RESTRICT")}, {})

MembershipModel ==
    Table(Keyed \cup {"user_id", "workspace_id", "role"}, {}, {{"user_id", "workspace_id"}},
          {Ref("user_id", "users", "CASCADE"), Ref("workspace_id", "workspaces", "CASCADE")},
          {"membership_role"})

DocumentModel ==
    Table(Keyed \cup {"workspace_id", "filename", "mime_type", "size_bytes", "checksum",
                      "status", "chunk_count"},
          SoftDeleteMixin \cup {"error"}, {{"workspace_id", "checksum"}},
          {Ref("workspace_id", "workspaces", "CASCADE")}, {"document_status"})

ChunkModel ==
    Table(Keyed \cup {"document_id", "ordinal", "text", "token_count"}, {"page", "section"},
          {{"document_id", "ordinal"}}, {Ref("document_id", "documents", "CASCADE")}, {})

EmbeddingModel ==
    Table(Keyed \cup {"chunk_id", "vector_id", "model", "dimension"}, {}, {{"chunk_id"}},
          {Ref("chunk_id", "chunks", "CASCADE")}, {})

ConversationModel ==
    Table(Keyed \cup {"workspace_id", "user_id", "title"}, {}, {},
          {Ref("workspace_id", "workspaces", "CASCADE"), Ref("user_id", "users", "CASCADE")}, {})

MessageModel ==
    Table(Keyed \cup {"conversation_id", "role", "content", "tokens"}, {"citations"}, {},
          {Ref("conversation_id", "conversations", "CASCADE")}, {"message_role"})

RefreshTokenModel ==
    Table(Keyed \cup {"user_id", "jti", "expires_at"}, {"revoked_at"}, {},
          {Ref("user_id", "users", "CASCADE")}, {})

AgentRunModel ==
    Table(Keyed \cup {"conversation_id", "status", "objective", "steps", "tool_calls",
                      "cost_usd", "latency_ms"},
          {"answer_message_id", "error"}, {},
          {Ref("conversation_id", "conversations", "CASCADE"),
           Ref("answer_message_id", "messages", "SET_NULL")}, {"agent_run_status"})

Models == [users |-> UserModel, workspaces |-> WorkspaceModel, memberships |-> MembershipModel,
           documents |-> DocumentModel, chunks |-> ChunkModel, embeddings |-> EmbeddingModel,
           conversations |-> ConversationModel, messages |-> MessageModel,
           refresh_tokens |-> RefreshTokenModel, agent_runs |-> AgentRunModel]

\* Columns declared with index=True, and whether unique=True goes with it.
ModelIndexes ==
    {Index("users", "email", TRUE), Index("documents", "workspace_id", FALSE),
     Index("documents", "status", FALSE), Index("chunks", "document_id", FALSE),
     Index("conversations", "workspace_id", FALSE), Index("conversations", "user_id", FALSE),
     Index("messages", "conversation_id", FALSE), Index("refresh_tokens", "user_id", FALSE),
     Index("refresh_tokens", "jti", TRUE), Index("agent_runs", "conversation_id", FALSE)}

\* SAEnum(Role, name=...) without values_callable: what the models write, and
\* the labels create_all gives the type, are the names of the members.
ModelLabels ==
    [membership_role  |-> {"OWNER", "ADMIN", "MEMBER", "VIEWER"},
     document_status  |-> {"QUEUED", "PROCESSING", "INDEXED", "FAILED"},
     message_role     |-> {"SYSTEM", "USER", "ASSISTANT"},
     agent_run_status |-> {"RUNNING", "COMPLETED", "FAILED"}]
-----------------------------------------------------------------------------
MigrationInit ==
    /\ catalog = Empty
    /\ work = Empty
    /\ plan = <<>>
    /\ target = 0
    /\ created = FALSE

\* alembic upgrade, to head or to any revision, and alembic downgrade.
RunMigrations(to) ==
    /\ ~Running
    /\ to # catalog.version
    /\ target' = to
    /\ UNCHANGED <<catalog, work, plan, created>>

\* The next revision on the way, with the stamp alembic ends it with.
NextRevision ==
    /\ Running
    /\ plan = <<>>
    /\ work.version # target
    /\ plan' = IF work.version < target THEN Upgrade(work.version) ELSE Downgrade(work.version)
    /\ UNCHANGED <<catalog, work, target, created>>

RunStatement ==
    /\ plan # <<>>
    /\ Accepts(work, Head(plan))
    /\ work' = Execute(work, Head(plan))
    /\ plan' = Tail(plan)
    /\ UNCHANGED <<catalog, target, created>>

Commit ==
    /\ Running
    /\ plan = <<>>
    /\ work.version = target
    /\ catalog' = work
    /\ UNCHANGED <<work, plan, target, created>>

\* A statement is refused, or alembic dies or loses its connection: the database
\* undoes the transaction.
Undo ==
    /\ Running
    /\ work' = catalog
    /\ plan' = <<>>
    /\ target' = catalog.version
    /\ UNCHANGED <<catalog, created>>

\* create_all at startup: the tables that are missing, their indexes and those of
\* their types that are missing; what is there is left as it is.
CreateAll ==
    LET new == {t \in TableNames : ~HasTable(catalog, t)}
        schema ==
          [tables  |-> [t \in TableNames |-> IF t \in new THEN Models[t] ELSE catalog.tables[t]],
           indexes |-> catalog.indexes \cup {i \in ModelIndexes : i.table \in new},
           types   |-> [e \in TypeNames |->
                          IF ~HasType(catalog, e) /\ \E t \in new : e \in Models[t].enums
                          THEN ModelLabels[e] ELSE catalog.types[e]],
           version |-> catalog.version]
    IN  /\ DbAutoCreate
        /\ ~Running
        /\ new # {}
        /\ catalog' = schema
        /\ work' = schema
        /\ created' = TRUE
        /\ UNCHANGED <<plan, target>>

MigrationNext ==
    \/ \E to \in 0 .. Latest : RunMigrations(to)
    \/ NextRevision
    \/ RunStatement
    \/ Commit
    \/ Undo
    \/ CreateAll

MigrationSpec == MigrationInit /\ [][MigrationNext]_migrationVars
-----------------------------------------------------------------------------
(* Properties *)

\* What statements make of a schema.
Outcome(s, statements) ==
    LET after[n \in 0 .. Len(statements)] ==
            IF n = 0 THEN s ELSE Execute(after[n - 1], statements[n])
    IN  after[Len(statements)]

\* The schema of a revision: what the upgrades to it make of an empty database.
Schema[v \in 0 .. Latest] == IF v = 0 THEN Empty ELSE Outcome(Schema[v - 1], Upgrade(v - 1))

\* Every revision can be taken from every other, up or down and as often as one
\* likes: PostgreSQL refuses no statement of it, for a table or a type that an
\* earlier one has left behind or has not made yet, unless the application has
\* created tables on its own.
NeverRefused == plan # <<>> /\ ~created => Accepts(work, Head(plan))

\* The schema is the revision's, whatever way led there: a downgrade leaves
\* nothing of what it undoes, and a command that broke off leaves nothing at all.
RevisionSaysItAll == ~created => catalog = Schema[catalog.version]

\* A database at the latest revision has the tables, the constraints and the
\* indexes the models are written for.  Where the application has made tables of
\* its own this revision is not reached: an upgrade that meets them is refused.
LatestServesModels ==
    catalog.version = Latest => catalog.tables = Models /\ catalog.indexes = ModelIndexes

\* "Production keeps this off and relies on migrations instead": on a database
\* at the latest revision every value a model may write is a label of its type.
LabelsAccepted ==
    catalog.version = Latest =>
        \A e \in TypeNames : ModelLabels[e] \subseteq catalog.types[e]
=============================================================================
