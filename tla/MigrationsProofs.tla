-------------------------- MODULE MigrationsProofs --------------------------
(***************************************************************************)
(* Proofs about Migrations: which statements are accepted, and what they   *)
(* make of the schema, for any sequence of commands, broken off anywhere,  *)
(* with create_all at any time between them.                               *)
(*                                                                         *)
(* The argument: a schema that is a revision's is made by each revision,   *)
(* one lemma a statement, into another revision's.  With create_all there  *)
(* may be more tables, and labels of its own, but each table is as the     *)
(* models declare it and has its indexes.                                  *)
(***************************************************************************)
EXTENDS Migrations, RagAlgorithmsProofs     \* for SetInduction

-----------------------------------------------------------------------------
(* Statements *)

\* The revisions create the tables that the models declare.
LEMMA RevisionsCreateModels ==
    /\ UsersTable = Models["users"]
    /\ WorkspacesTable = Models["workspaces"]
    /\ MembershipsTable = Models["memberships"]
    /\ DocumentsTable = Models["documents"]
    /\ ChunksTable = Models["chunks"]
    /\ EmbeddingsTable = Models["embeddings"]
    /\ ConversationsTable = Models["conversations"]
    /\ MessagesTable = Models["messages"]
    /\ RefreshTokensTable = Models["refresh_tokens"]
    /\ AgentRunsTable = Models["agent_runs"]
<1>1. Stamped = Keyed
  BY DEF Stamped, Keyed, UUIDMixin, TimestampMixin
<1>2. /\ UsersTable = UserModel
      /\ WorkspacesTable = WorkspaceModel
  <2>1. {"full_name", "deleted_at"} = SoftDeleteMixin \cup {"full_name"}
    BY DEF SoftDeleteMixin
  <2> QED
  BY <1>1, <2>1 DEF UsersTable, UserModel, WorkspacesTable, WorkspaceModel, SoftDeleteMixin
<1>3. /\ MembershipsTable = MembershipModel
      /\ DocumentsTable = DocumentModel
  <2>1. {"error", "deleted_at"} = SoftDeleteMixin \cup {"error"}
    BY DEF SoftDeleteMixin
  <2> QED
  BY <1>1, <2>1 DEF MembershipsTable, MembershipModel, DocumentsTable, DocumentModel
<1>4. /\ ChunksTable = ChunkModel
      /\ EmbeddingsTable = EmbeddingModel
      /\ ConversationsTable = ConversationModel
      /\ MessagesTable = MessageModel
      /\ RefreshTokensTable = RefreshTokenModel
      /\ AgentRunsTable = AgentRunModel
  BY <1>1 DEF ChunksTable, ChunkModel, EmbeddingsTable, EmbeddingModel, ConversationsTable,
     ConversationModel, MessagesTable, MessageModel, RefreshTokensTable, RefreshTokenModel,
     AgentRunsTable, AgentRunModel
<1> QED
  BY <1>2, <1>3, <1>4 DEF Models

\* The tables that a table refers to, and the enum types of its columns.
Refers == [users |-> {}, workspaces |-> {"users"}, memberships |-> {"users", "workspaces"},
           documents |-> {"workspaces"}, chunks |-> {"documents"}, embeddings |-> {"chunks"},
           conversations |-> {"workspaces", "users"}, messages |-> {"conversations"},
           refresh_tokens |-> {"users"}, agent_runs |-> {"conversations", "messages"}]

TypesOf(t) ==
    CASE t = "memberships" -> {"membership_role"}
      [] t = "documents" -> {"document_status"}
      [] t = "messages" -> {"message_role"}
      [] t = "agent_runs" -> {"agent_run_status"}
      [] OTHER -> {}

\* What a statement may ask of a table that is there.
LEMMA ModelShape ==
    ASSUME NEW t \in TableNames
    PROVE  /\ Models[t] # NoTable
           /\ \A r \in Models[t].refs : r.table \in Refers[t]
           /\ Models[t].enums = TypesOf(t)
           /\ \A i \in ModelIndexes : i.table = t => i.column \in Models[t].required
<1>1. ASSUME NEW r, NEW o, NEW u, NEW f, NEW e
      PROVE  Table(r, o, u, f, e) # NoTable
  <2>1. "required" \in DOMAIN Table(r, o, u, f, e)
    BY DEF Table
  <2>2. "required" \notin DOMAIN NoTable
    BY DEF NoTable
  <2> QED
    BY <2>1, <2>2
<1>2. CASE t = "users"
  <2>1. Models[t] = UserModel /\ UserModel # NoTable
    BY <1>1, <1>2 DEF Models, UserModel
  <2> QED
    BY <1>2, <2>1 DEF UserModel, Table, Ref, Refers, TypesOf, ModelIndexes, Index
<1>3. CASE t = "workspaces"
  <2>1. Models[t] = WorkspaceModel /\ WorkspaceModel # NoTable
    BY <1>1, <1>3 DEF Models, WorkspaceModel
  <2> QED
    BY <1>3, <2>1 DEF WorkspaceModel, Table, Ref, Refers, TypesOf, ModelIndexes, Index
<1>4. CASE t = "memberships"
  <2>1. Models[t] = MembershipModel /\ MembershipModel # NoTable
    BY <1>1, <1>4 DEF Models, MembershipModel
  <2> QED
    BY <1>4, <2>1 DEF MembershipModel, Table, Ref, Refers, TypesOf, ModelIndexes, Index
<1>5. CASE t = "documents"
  <2>1. Models[t] = DocumentModel /\ DocumentModel # NoTable
    BY <1>1, <1>5 DEF Models, DocumentModel
  <2> QED
    BY <1>5, <2>1 DEF DocumentModel, Table, Ref, Refers, TypesOf, ModelIndexes, Index
<1>6. CASE t = "chunks"
  <2>1. Models[t] = ChunkModel /\ ChunkModel # NoTable
    BY <1>1, <1>6 DEF Models, ChunkModel
  <2> QED
    BY <1>6, <2>1 DEF ChunkModel, Table, Ref, Refers, TypesOf, ModelIndexes, Index
<1>7. CASE t = "embeddings"
  <2>1. Models[t] = EmbeddingModel /\ EmbeddingModel # NoTable
    BY <1>1, <1>7 DEF Models, EmbeddingModel
  <2> QED
    BY <1>7, <2>1 DEF EmbeddingModel, Table, Ref, Refers, TypesOf, ModelIndexes, Index
<1>8. CASE t = "conversations"
  <2>1. Models[t] = ConversationModel /\ ConversationModel # NoTable
    BY <1>1, <1>8 DEF Models, ConversationModel
  <2> QED
    BY <1>8, <2>1 DEF ConversationModel, Table, Ref, Refers, TypesOf, ModelIndexes, Index
<1>9. CASE t = "messages"
  <2>1. Models[t] = MessageModel /\ MessageModel # NoTable
    BY <1>1, <1>9 DEF Models, MessageModel
  <2> QED
    BY <1>9, <2>1 DEF MessageModel, Table, Ref, Refers, TypesOf, ModelIndexes, Index
<1>10. CASE t = "refresh_tokens"
  <2>1. Models[t] = RefreshTokenModel /\ RefreshTokenModel # NoTable
    BY <1>1, <1>10 DEF Models, RefreshTokenModel
  <2> QED
    BY <1>10, <2>1 DEF RefreshTokenModel, Table, Ref, Refers, TypesOf, ModelIndexes, Index
<1>11. CASE t = "agent_runs"
  <2>1. Models[t] = AgentRunModel /\ AgentRunModel # NoTable
    BY <1>1, <1>11 DEF Models, AgentRunModel
  <2> QED
    BY <1>11, <2>1 DEF AgentRunModel, Table, Ref, Refers, TypesOf, ModelIndexes, Index
<1>12. \/ t = "users"
       \/ t = "workspaces"
       \/ t = "memberships"
       \/ t = "documents"
       \/ t = "chunks"
       \/ t = "embeddings"
       \/ t = "conversations"
       \/ t = "messages"
       \/ t = "refresh_tokens"
       \/ t = "agent_runs"
  BY DEF TableNames
<1> QED
  BY <1>2, <1>3, <1>4, <1>5, <1>6, <1>7, <1>8, <1>9, <1>10, <1>11, <1>12

\* A schema with the tables T, as the models declare them.
Made(T, I, E, v) ==
    [tables |-> [t \in TableNames |-> IF t \in T THEN Models[t] ELSE NoTable],
     indexes |-> I,
     types |-> [e \in TypeNames |-> E[e]],
     version |-> v]

\* A statement takes a schema to another and, when alembic has it to itself, is accepted.
Does(s, c, next) == next = Execute(s, c) /\ (~created => Accepts(s, c))

\* What each statement makes of such a schema, and what it asks of it.
LEMMA CreatesTable ==
    ASSUME NEW T \in SUBSET TableNames, NEW I, NEW E, NEW v, NEW t \in TableNames, NEW labels,
           NEW F, \A e \in TypeNames : F[e] = IF e \in TypesOf(t) THEN labels ELSE E[e],
           ~created => t \notin T /\ Refers[t] \subseteq T /\ \A e \in TypesOf(t) : E[e] = NoLabels
    PROVE  Does(Made(T, I, E, v), CreateTable(t, Models[t], labels), Made(T \cup {t}, I, F, v))
<1> DEFINE s == Made(T, I, E, v)
           c == CreateTable(t, Models[t], labels)
<1>1. c.op = "create_table" /\ c.name = t /\ c.table = Models[t] /\ c.labels = labels
  BY DEF CreateTable
<1>2. /\ s.tables = [u \in TableNames |-> IF u \in T THEN Models[u] ELSE NoTable]
      /\ s.types = [e \in TypeNames |-> E[e]]
  BY DEF Made
<1>3. /\ Models[t].enums = TypesOf(t)
      /\ TypesOf(t) \subseteq TypeNames
      /\ \A r \in Models[t].refs : r.table \in Refers[t]
  BY ModelShape DEF TypesOf, TypeNames
<1>4. Execute(s, c) = Made(T \cup {t}, I, F, v)
  <2>1. Execute(s, c) = [s EXCEPT !.tables[t] = Models[t],
                                  !.types = [e \in TypeNames |->
                                      IF e \in TypesOf(t) THEN labels ELSE s.types[e]]]
    BY <1>1, <1>3 DEF Execute
  <2>2. [s.tables EXCEPT ![t] = Models[t]] =
            [u \in TableNames |-> IF u \in T \cup {t} THEN Models[u] ELSE NoTable]
    BY <1>2
  <2>3. [e \in TypeNames |-> IF e \in TypesOf(t) THEN labels ELSE s.types[e]] =
            [e \in TypeNames |-> F[e]]
    BY <1>2
  <2> QED
    BY <2>1, <2>2, <2>3 DEF Made
<1>5. ASSUME ~created PROVE Accepts(s, c)
  <2>1. ~HasTable(s, t) /\ \A e \in TypesOf(t) : ~HasType(s, e)
    BY <1>2, <1>3, <1>5 DEF HasTable, HasType
  <2>2. \A r \in Models[t].refs : HasTable(s, r.table)
    BY <1>2, <1>3, <1>5, ModelShape DEF HasTable
  <2> QED
    BY <1>1, <1>3, <2>1, <2>2 DEF Accepts
<1> QED
  BY <1>4, <1>5 DEF Does

LEMMA CreatesIndex ==
    ASSUME NEW T \in SUBSET TableNames, NEW I, NEW E, NEW v, NEW table, NEW column, NEW unique,
           Index(table, column, unique) \in ModelIndexes, table \in TableNames,
           ~created => table \in T /\ \A i \in I : i.table = table => i.column # column
    PROVE  Does(Made(T, I, E, v), CreateIndex(table, column, unique),
                Made(T, I \cup {Index(table, column, unique)}, E, v))
<1> DEFINE s == Made(T, I, E, v)
           c == CreateIndex(table, column, unique)
<1>1. c.op = "create_index" /\ c.index = Index(table, column, unique)
  BY DEF CreateIndex
<1>2. Index(table, column, unique).table = table /\ Index(table, column, unique).column = column
  BY DEF Index
<1>3. Execute(s, c) = Made(T, I \cup {Index(table, column, unique)}, E, v)
  BY <1>1 DEF Execute, Made
<1>4. ASSUME ~created PROVE Accepts(s, c)
  <2>1. s.tables[table] = Models[table] /\ s.indexes = I
    BY <1>4 DEF Made
  <2>2. Models[table] # NoTable /\ column \in Models[table].required
    BY <1>2, ModelShape
  <2> QED
    BY <1>1, <1>2, <1>4, <2>1, <2>2 DEF Accepts, HasTable
<1> QED
  BY <1>3, <1>4 DEF Does

LEMMA DropsIndex ==
    ASSUME NEW T, NEW I, NEW E, NEW v, NEW table, NEW column,
           ~created => \E i \in I : i.table = table /\ i.column = column
    PROVE  Does(Made(T, I, E, v), DropIndex(table, column),
                Made(T, {i \in I : <<i.table, i.column>> # <<table, column>>}, E, v))
<1> DEFINE s == Made(T, I, E, v)
           c == DropIndex(table, column)
<1>1. c.op = "drop_index" /\ c.table = table /\ c.column = column
  BY DEF DropIndex
<1>2. Execute(s, c) = Made(T, {i \in I : <<i.table, i.column>> # <<table, column>>}, E, v)
  BY <1>1 DEF Execute, Made
<1>3. ~created => Accepts(s, c)
  BY <1>1 DEF Accepts, Made
<1> QED
  BY <1>2, <1>3 DEF Does

LEMMA DropsTable ==
    ASSUME NEW T \in SUBSET TableNames, NEW I, NEW E, NEW v, NEW t \in TableNames,
           ~created => t \in T /\ \A u \in T \ {t} : t \notin Refers[u]
    PROVE  Does(Made(T, I, E, v), DropTable(t), Made(T \ {t}, {i \in I : i.table # t}, E, v))
<1> DEFINE s == Made(T, I, E, v)
           c == DropTable(t)
<1>1. c.op = "drop_table" /\ c.name = t
  BY DEF DropTable
<1>2. s.tables = [u \in TableNames |-> IF u \in T THEN Models[u] ELSE NoTable]
  BY DEF Made
<1>3. Execute(s, c) = Made(T \ {t}, {i \in I : i.table # t}, E, v)
  BY <1>1 DEF Execute, Made
<1>4. ASSUME ~created PROVE Accepts(s, c)
  <2>1. HasTable(s, t)
    BY <1>2, <1>4, ModelShape DEF HasTable
  <2>2. ASSUME NEW u \in OtherTables(s, t), NEW r \in s.tables[u].refs PROVE r.table # t
    BY <1>2, <1>4, ModelShape DEF OtherTables, HasTable
  <2> QED
    BY <1>1, <2>1, <2>2 DEF Accepts
<1> QED
  BY <1>3, <1>4 DEF Does

LEMMA DropsType ==
    ASSUME NEW T \in SUBSET TableNames, NEW I, NEW E, NEW v, NEW e \in TypeNames,
           NEW F, \A x \in TypeNames : F[x] = IF x = e THEN NoLabels ELSE E[x],
           ~created => \A t \in T : e \notin TypesOf(t)
    PROVE  Does(Made(T, I, E, v), DropType(e), Made(T, I, F, v))
<1> DEFINE s == Made(T, I, E, v)
           c == DropType(e)
<1>1. c.op = "drop_type" /\ c.name = e
  BY DEF DropType
<1>2. s.tables = [u \in TableNames |-> IF u \in T THEN Models[u] ELSE NoTable]
  BY DEF Made
<1>3. Execute(s, c) = Made(T, I, F, v)
  BY <1>1 DEF Execute, Made
<1>4. ~created => Accepts(s, c)
  BY <1>1, <1>2, ModelShape DEF Accepts, HasTable
<1> QED
  BY <1>3, <1>4 DEF Does

LEMMA Stamps ==
    ASSUME NEW T, NEW I, NEW E, NEW v, NEW w
    PROVE  Does(Made(T, I, E, v), Stamp(w), Made(T, I, E, w))
BY DEF Does, Stamp, Made, Execute, Accepts
-----------------------------------------------------------------------------
\* The tables of each revision, and the enum types, with their labels.
Revision == <<{"users", "workspaces", "memberships"}, {"documents", "chunks", "embeddings"},
              {"conversations", "messages"}, {"refresh_tokens"}, {"agent_runs"}>>

TypesIn == <<{"membership_role"}, {"document_status"}, {"message_role"}, {}, {"agent_run_status"}>>

LabelsOf == [membership_role |-> {"owner", "admin", "member", "viewer"},
             document_status |-> {"queued", "processing", "indexed", "failed"},
             message_role |-> {"system", "user", "assistant"},
             agent_run_status |-> {"running", "completed", "failed"}]

TablesAt(v) == UNION {Revision[n] : n \in 1 .. v}

LabelsAt(v) ==
    [e \in TypeNames |-> IF \E n \in 1 .. v : e \in TypesIn[n] THEN LabelsOf[e] ELSE NoLabels]

\* The indexes of the tables T.
On(T) == {i \in ModelIndexes : i.table \in T}

\* The tables and the labels are a revision's, if alembic has the schema to itself.
AsAt(v, T, E) == ~created => T = TablesAt(v) /\ \A e \in TypeNames : E[e] = LabelsAt(v)[e]

\* Statements take a schema to another.
Runs(s, p, next) ==
    /\ \E S : p \in Seq(S)
    /\ \E h : /\ h[1] = s /\ h[Len(p) + 1] = next
              /\ \A n \in 1 .. Len(p) : Does(h[n], p[n], h[n + 1])

\* Statements take a schema with the tables T to one with the tables V.
LeadsTo(T, E, v, p, V, n) ==
    \E F : Runs(Made(T, On(T), E, v), p, Made(V, On(V), F, v)) /\ AsAt(n, V, F)

\* The indexes that the revisions create are the models'.
LEMMA IndexesDeclared ==
    /\ Index("users", "email", TRUE) \in ModelIndexes
    /\ Index("documents", "workspace_id", FALSE) \in ModelIndexes
    /\ Index("documents", "status", FALSE) \in ModelIndexes
    /\ Index("chunks", "document_id", FALSE) \in ModelIndexes
    /\ Index("conversations", "workspace_id", FALSE) \in ModelIndexes
    /\ Index("conversations", "user_id", FALSE) \in ModelIndexes
    /\ Index("messages", "conversation_id", FALSE) \in ModelIndexes
    /\ Index("refresh_tokens", "user_id", FALSE) \in ModelIndexes
    /\ Index("refresh_tokens", "jti", TRUE) \in ModelIndexes
    /\ Index("agent_runs", "conversation_id", FALSE) \in ModelIndexes
BY DEF ModelIndexes

\* The tables of each revision, by name.
LEMMA TablesOfRevisions ==
    /\ TablesAt(0) = {}
    /\ TablesAt(1) = {"users", "workspaces", "memberships"}
    /\ TablesAt(2) = {"users", "workspaces", "memberships", "documents", "chunks", "embeddings"}
    /\ TablesAt(3) = {"users", "workspaces", "memberships", "documents", "chunks", "embeddings",
                      "conversations", "messages"}
    /\ TablesAt(4) = {"users", "workspaces", "memberships", "documents", "chunks", "embeddings",
                      "conversations", "messages", "refresh_tokens"}
    /\ TablesAt(5) = {"users", "workspaces", "memberships", "documents", "chunks", "embeddings",
                      "conversations", "messages", "refresh_tokens", "agent_runs"}
<1>1. TablesAt(0) = {}
  BY DEF TablesAt
<1>2. TablesAt(1) = TablesAt(0) \cup Revision[1]
  BY DEF TablesAt
<1>3. TablesAt(2) = TablesAt(1) \cup Revision[2]
  BY DEF TablesAt
<1>4. TablesAt(3) = TablesAt(2) \cup Revision[3]
  BY DEF TablesAt
<1>5. TablesAt(4) = TablesAt(3) \cup Revision[4]
  BY DEF TablesAt
<1>6. TablesAt(5) = TablesAt(4) \cup Revision[5]
  BY DEF TablesAt
<1> QED
  BY <1>1, <1>2, <1>3, <1>4, <1>5, <1>6 DEF Revision

\* Revision 0001, up.
LEMMA InitialUpgradeRuns ==
    ASSUME NEW T \in SUBSET TableNames, NEW E, NEW v, AsAt(0, T, E)
    PROVE  LeadsTo(T, E, v, InitialUpgrade, T \cup Revision[1], 1)
<1> DEFINE I0 == On(T)
           labels == {"owner", "admin", "member", "viewer"}
           F == [e \in TypeNames |-> IF e = "membership_role" THEN labels ELSE E[e]]
           T1 == T \cup {"users"}
           I1 == I0 \cup {Index("users", "email", TRUE)}
           T2 == T1 \cup {"workspaces"}
           T3 == T2 \cup {"memberships"}
           s0 == Made(T, I0, E, v)
           s1 == Made(T1, I0, E, v)
           s2 == Made(T1, I1, E, v)
           s3 == Made(T2, I1, E, v)
           s4 == Made(T3, I1, F, v)
           c1 == CreateTable("users", UsersTable, {})
           c2 == CreateIndex("users", "email", TRUE)
           c3 == CreateTable("workspaces", WorkspacesTable, {})
           c4 == CreateTable("memberships", MembershipsTable, labels)
<1>1. ~created => T = {} /\ E["membership_role"] = NoLabels
  BY TablesOfRevisions DEF AsAt, LabelsAt, TypesIn, TypeNames
<1>2. Does(s0, c1, s1)
  <2>1. /\ ~created => /\ "users" \notin T /\ Refers["users"] \subseteq T
                       /\ \A e \in TypesOf("users") : E[e] = NoLabels
        /\ \A e \in TypeNames : E[e] = IF e \in TypesOf("users") THEN {} ELSE E[e]
    BY <1>1 DEF Refers, TypesOf
  <2> QED
    BY <2>1, CreatesTable, RevisionsCreateModels DEF TableNames
<1>3. Does(s1, c2, s2)
  <2>1. ~created => /\ "users" \in T1
                    /\ \A i \in I0 : i.table = "users" => i.column # "email"
    BY <1>1 DEF On, Index
  <2> QED
    BY <2>1, CreatesIndex, IndexesDeclared DEF TableNames
<1>4. Does(s2, c3, s3)
  <2>1. /\ ~created => /\ "workspaces" \notin T1 /\ Refers["workspaces"] \subseteq T1
                       /\ \A e \in TypesOf("workspaces") : E[e] = NoLabels
        /\ \A e \in TypeNames : E[e] = IF e \in TypesOf("workspaces") THEN {} ELSE E[e]
    BY <1>1 DEF Refers, TypesOf
  <2> QED
    BY <2>1, CreatesTable, RevisionsCreateModels DEF TableNames
<1>5. Does(s3, c4, s4)
  <2>1. /\ ~created => /\ "memberships" \notin T2 /\ Refers["memberships"] \subseteq T2
                       /\ \A e \in TypesOf("memberships") : E[e] = NoLabels
        /\ \A e \in TypeNames : F[e] = IF e \in TypesOf("memberships") THEN labels ELSE E[e]
    BY <1>1 DEF Refers, TypesOf
  <2> QED
    BY <2>1, CreatesTable, RevisionsCreateModels DEF TableNames
<1>6. Runs(s0, InitialUpgrade, s4)
  <2> DEFINE h == <<s0, s1, s2, s3, s4>>
             p == <<c1, c2, c3, c4>>
  <2> HIDE DEF s0, s1, s2, s3, s4, c1, c2, c3, c4
  <2>1. h[1] = s0 /\ h[4 + 1] = s4
    OBVIOUS
  <2>2. \A n \in 1 .. 4 : Does(h[n], p[n], h[n + 1])
    BY <1>2, <1>3, <1>4, <1>5
  <2>3. p \in Seq({c1, c2, c3, c4}) /\ Len(p) = 4
    OBVIOUS
  <2>4. Runs(s0, p, s4)
    <3> HIDE DEF h, p
    <3> QED
      BY <2>1, <2>2, <2>3 DEF Runs
  <2> QED
    BY <2>4 DEF c1, c2, c3, c4, InitialUpgrade
<1>7. T3 = T \cup Revision[1]
  BY DEF Revision
<1>8. I1 = On(T \cup Revision[1])
  BY DEF Revision, On, ModelIndexes, Index
<1>9. AsAt(1, T \cup Revision[1], F)
  BY <1>1, TablesOfRevisions DEF AsAt, LabelsAt, LabelsOf, TypesIn, TypeNames, Revision
<1> QED
  BY <1>6, <1>7, <1>8, <1>9 DEF LeadsTo

\* Revision 0002, up.
LEMMA DocumentsUpgradeRuns ==
    ASSUME NEW T \in SUBSET TableNames, NEW E, NEW v, AsAt(1, T, E)
    PROVE  LeadsTo(T, E, v, DocumentsUpgrade, T \cup Revision[2], 2)
<1> DEFINE I0 == On(T)
           labels == {"queued", "processing", "indexed", "failed"}
           F == [e \in TypeNames |-> IF e = "document_status" THEN labels ELSE E[e]]
           T1 == T \cup {"documents"}
           I1 == I0 \cup {Index("documents", "workspace_id", FALSE)}
           I2 == I1 \cup {Index("documents", "status", FALSE)}
           T2 == T1 \cup {"chunks"}
           I3 == I2 \cup {Index("chunks", "document_id", FALSE)}
           T3 == T2 \cup {"embeddings"}
           s0 == Made(T, I0, E, v)
           s1 == Made(T1, I0, F, v)
           s2 == Made(T1, I1, F, v)
           s3 == Made(T1, I2, F, v)
           s4 == Made(T2, I2, F, v)
           s5 == Made(T2, I3, F, v)
           s6 == Made(T3, I3, F, v)
           c1 == CreateTable("documents", DocumentsTable, labels)
           c2 == CreateIndex("documents", "workspace_id", FALSE)
           c3 == CreateIndex("documents", "status", FALSE)
           c4 == CreateTable("chunks", ChunksTable, {})
           c5 == CreateIndex("chunks", "document_id", FALSE)
           c6 == CreateTable("embeddings", EmbeddingsTable, {})
<1>1. ~created => T = {"users", "workspaces", "memberships"} /\ E["document_status"] = NoLabels
  BY TablesOfRevisions DEF AsAt, LabelsAt, TypesIn, TypeNames
<1>2. Does(s0, c1, s1)
  <2>1. /\ ~created => /\ "documents" \notin T /\ Refers["documents"] \subseteq T
                       /\ \A e \in TypesOf("documents") : E[e] = NoLabels
        /\ \A e \in TypeNames : F[e] = IF e \in TypesOf("documents") THEN labels ELSE E[e]
    BY <1>1 DEF Refers, TypesOf
  <2> QED
    BY <2>1, CreatesTable, RevisionsCreateModels DEF TableNames
<1>3. Does(s1, c2, s2)
  <2>1. ~created => /\ "documents" \in T1
                    /\ \A i \in I0 : i.table = "documents" => i.column # "workspace_id"
    BY <1>1 DEF On, Index
  <2> QED
    BY <2>1, CreatesIndex, IndexesDeclared DEF TableNames
<1>4. Does(s2, c3, s3)
  <2>1. ~created => /\ "documents" \in T1
                    /\ \A i \in I1 : i.table = "documents" => i.column # "status"
    BY <1>1 DEF On, Index
  <2> QED
    BY <2>1, CreatesIndex, IndexesDeclared DEF TableNames
<1>5. Does(s3, c4, s4)
  <2>1. /\ ~created => /\ "chunks" \notin T1 /\ Refers["chunks"] \subseteq T1
                       /\ \A e \in TypesOf("chunks") : F[e] = NoLabels
        /\ \A e \in TypeNames : F[e] = IF e \in TypesOf("chunks") THEN {} ELSE F[e]
    BY <1>1 DEF Refers, TypesOf
  <2> QED
    BY <2>1, CreatesTable, RevisionsCreateModels DEF TableNames
<1>6. Does(s4, c5, s5)
  <2>1. ~created => /\ "chunks" \in T2
                    /\ \A i \in I2 : i.table = "chunks" => i.column # "document_id"
    BY <1>1 DEF On, Index
  <2> QED
    BY <2>1, CreatesIndex, IndexesDeclared DEF TableNames
<1>7. Does(s5, c6, s6)
  <2>1. /\ ~created => /\ "embeddings" \notin T2 /\ Refers["embeddings"] \subseteq T2
                       /\ \A e \in TypesOf("embeddings") : F[e] = NoLabels
        /\ \A e \in TypeNames : F[e] = IF e \in TypesOf("embeddings") THEN {} ELSE F[e]
    BY <1>1 DEF Refers, TypesOf
  <2> QED
    BY <2>1, CreatesTable, RevisionsCreateModels DEF TableNames
<1>8. Runs(s0, DocumentsUpgrade, s6)
  <2> DEFINE h == <<s0, s1, s2, s3, s4, s5, s6>>
             p == <<c1, c2, c3, c4, c5, c6>>
  <2> HIDE DEF s0, s1, s2, s3, s4, s5, s6, c1, c2, c3, c4, c5, c6
  <2>1. h[1] = s0 /\ h[6 + 1] = s6
    OBVIOUS
  <2>2. \A n \in 1 .. 6 : Does(h[n], p[n], h[n + 1])
    BY <1>2, <1>3, <1>4, <1>5, <1>6, <1>7
  <2>3. p \in Seq({c1, c2, c3, c4, c5, c6}) /\ Len(p) = 6
    OBVIOUS
  <2>4. Runs(s0, p, s6)
    <3> HIDE DEF h, p
    <3> QED
      BY <2>1, <2>2, <2>3 DEF Runs
  <2> QED
    BY <2>4 DEF c1, c2, c3, c4, c5, c6, DocumentsUpgrade
<1>9. T3 = T \cup Revision[2]
  BY DEF Revision
<1>10. I3 = On(T \cup Revision[2])
  BY DEF Revision, On, ModelIndexes, Index
<1>11. AsAt(2, T \cup Revision[2], F)
  BY <1>1, TablesOfRevisions DEF AsAt, LabelsAt, LabelsOf, TypesIn, TypeNames, Revision
<1> QED
  BY <1>8, <1>9, <1>10, <1>11 DEF LeadsTo

\* Revision 0003, up.
LEMMA ConversationsUpgradeRuns ==
    ASSUME NEW T \in SUBSET TableNames, NEW E, NEW v, AsAt(2, T, E)
    PROVE  LeadsTo(T, E, v, ConversationsUpgrade, T \cup Revision[3], 3)
<1> DEFINE I0 == On(T)
           labels == {"system", "user", "assistant"}
           F == [e \in TypeNames |-> IF e = "message_role" THEN labels ELSE E[e]]
           T1 == T \cup {"conversations"}
           I1 == I0 \cup {Index("conversations", "workspace_id", FALSE)}
           I2 == I1 \cup {Index("conversations", "user_id", FALSE)}
           T2 == T1 \cup {"messages"}
           I3 == I2 \cup {Index("messages", "conversation_id", FALSE)}
           s0 == Made(T, I0, E, v)
           s1 == Made(T1, I0, E, v)
           s2 == Made(T1, I1, E, v)
           s3 == Made(T1, I2, E, v)
           s4 == Made(T2, I2, F, v)
           s5 == Made(T2, I3, F, v)
           c1 == CreateTable("conversations", ConversationsTable, {})
           c2 == CreateIndex("conversations", "workspace_id", FALSE)
           c3 == CreateIndex("conversations", "user_id", FALSE)
           c4 == CreateTable("messages", MessagesTable, labels)
           c5 == CreateIndex("messages", "conversation_id", FALSE)
<1>1. ~created => T = {"users", "workspaces", "memberships", "documents", "chunks", "embeddings"}
                 /\ E["message_role"] = NoLabels
  BY TablesOfRevisions DEF AsAt, LabelsAt, TypesIn, TypeNames
<1>2. Does(s0, c1, s1)
  <2>1. /\ ~created => /\ "conversations" \notin T /\ Refers["conversations"] \subseteq T
                       /\ \A e \in TypesOf("conversations") : E[e] = NoLabels
        /\ \A e \in TypeNames : E[e] = IF e \in TypesOf("conversations") THEN {} ELSE E[e]
    BY <1>1 DEF Refers, TypesOf
  <2> QED
    BY <2>1, CreatesTable, RevisionsCreateModels DEF TableNames
<1>3. Does(s1, c2, s2)
  <2>1. ~created => /\ "conversations" \in T1
                    /\ \A i \in I0 : i.table = "conversations" => i.column # "workspace_id"
    BY <1>1 DEF On, Index
  <2> QED
    BY <2>1, CreatesIndex, IndexesDeclared DEF TableNames
<1>4. Does(s2, c3, s3)
  <2>1. ~created => /\ "conversations" \in T1
                    /\ \A i \in I1 : i.table = "conversations" => i.column # "user_id"
    BY <1>1 DEF On, Index
  <2> QED
    BY <2>1, CreatesIndex, IndexesDeclared DEF TableNames
<1>5. Does(s3, c4, s4)
  <2>1. /\ ~created => /\ "messages" \notin T1 /\ Refers["messages"] \subseteq T1
                       /\ \A e \in TypesOf("messages") : E[e] = NoLabels
        /\ \A e \in TypeNames : F[e] = IF e \in TypesOf("messages") THEN labels ELSE E[e]
    BY <1>1 DEF Refers, TypesOf
  <2> QED
    BY <2>1, CreatesTable, RevisionsCreateModels DEF TableNames
<1>6. Does(s4, c5, s5)
  <2>1. ~created => /\ "messages" \in T2
                    /\ \A i \in I2 : i.table = "messages" => i.column # "conversation_id"
    BY <1>1 DEF On, Index
  <2> QED
    BY <2>1, CreatesIndex, IndexesDeclared DEF TableNames
<1>7. Runs(s0, ConversationsUpgrade, s5)
  <2> DEFINE h == <<s0, s1, s2, s3, s4, s5>>
             p == <<c1, c2, c3, c4, c5>>
  <2> HIDE DEF s0, s1, s2, s3, s4, s5, c1, c2, c3, c4, c5
  <2>1. h[1] = s0 /\ h[5 + 1] = s5
    OBVIOUS
  <2>2. \A n \in 1 .. 5 : Does(h[n], p[n], h[n + 1])
    BY <1>2, <1>3, <1>4, <1>5, <1>6
  <2>3. p \in Seq({c1, c2, c3, c4, c5}) /\ Len(p) = 5
    OBVIOUS
  <2>4. Runs(s0, p, s5)
    <3> HIDE DEF h, p
    <3> QED
      BY <2>1, <2>2, <2>3 DEF Runs
  <2> QED
    BY <2>4 DEF c1, c2, c3, c4, c5, ConversationsUpgrade
<1>8. T2 = T \cup Revision[3]
  BY DEF Revision
<1>9. I3 = On(T \cup Revision[3])
  BY DEF Revision, On, ModelIndexes, Index
<1>10. AsAt(3, T \cup Revision[3], F)
  BY <1>1, TablesOfRevisions DEF AsAt, LabelsAt, LabelsOf, TypesIn, TypeNames, Revision
<1> QED
  BY <1>7, <1>8, <1>9, <1>10 DEF LeadsTo

\* Revision 0004, up.
LEMMA RefreshTokensUpgradeRuns ==
    ASSUME NEW T \in SUBSET TableNames, NEW E, NEW v, AsAt(3, T, E)
    PROVE  LeadsTo(T, E, v, RefreshTokensUpgrade, T \cup Revision[4], 4)
<1> DEFINE I0 == On(T)
           T1 == T \cup {"refresh_tokens"}
           I1 == I0 \cup {Index("refresh_tokens", "user_id", FALSE)}
           I2 == I1 \cup {Index("refresh_tokens", "jti", TRUE)}
           s0 == Made(T, I0, E, v)
           s1 == Made(T1, I0, E, v)
           s2 == Made(T1, I1, E, v)
           s3 == Made(T1, I2, E, v)
           c1 == CreateTable("refresh_tokens", RefreshTokensTable, {})
           c2 == CreateIndex("refresh_tokens", "user_id", FALSE)
           c3 == CreateIndex("refresh_tokens", "jti", TRUE)
<1>1. ~created => T = {"users", "workspaces", "memberships", "documents", "chunks", "embeddings",
                      "conversations", "messages"}
  BY TablesOfRevisions DEF AsAt
<1>2. Does(s0, c1, s1)
  <2>1. /\ ~created => /\ "refresh_tokens" \notin T /\ Refers["refresh_tokens"] \subseteq T
                       /\ \A e \in TypesOf("refresh_tokens") : E[e] = NoLabels
        /\ \A e \in TypeNames : E[e] = IF e \in TypesOf("refresh_tokens") THEN {} ELSE E[e]
    BY <1>1 DEF Refers, TypesOf
  <2> QED
    BY <2>1, CreatesTable, RevisionsCreateModels DEF TableNames
<1>3. Does(s1, c2, s2)
  <2>1. ~created => /\ "refresh_tokens" \in T1
                    /\ \A i \in I0 : i.table = "refresh_tokens" => i.column # "user_id"
    BY <1>1 DEF On, Index
  <2> QED
    BY <2>1, CreatesIndex, IndexesDeclared DEF TableNames
<1>4. Does(s2, c3, s3)
  <2>1. ~created => /\ "refresh_tokens" \in T1
                    /\ \A i \in I1 : i.table = "refresh_tokens" => i.column # "jti"
    BY <1>1 DEF On, Index
  <2> QED
    BY <2>1, CreatesIndex, IndexesDeclared DEF TableNames
<1>5. Runs(s0, RefreshTokensUpgrade, s3)
  <2> DEFINE h == <<s0, s1, s2, s3>>
             p == <<c1, c2, c3>>
  <2> HIDE DEF s0, s1, s2, s3, c1, c2, c3
  <2>1. h[1] = s0 /\ h[3 + 1] = s3
    OBVIOUS
  <2>2. \A n \in 1 .. 3 : Does(h[n], p[n], h[n + 1])
    BY <1>2, <1>3, <1>4
  <2>3. p \in Seq({c1, c2, c3}) /\ Len(p) = 3
    OBVIOUS
  <2>4. Runs(s0, p, s3)
    <3> HIDE DEF h, p
    <3> QED
      BY <2>1, <2>2, <2>3 DEF Runs
  <2> QED
    BY <2>4 DEF c1, c2, c3, RefreshTokensUpgrade
<1>6. T1 = T \cup Revision[4]
  BY DEF Revision
<1>7. I2 = On(T \cup Revision[4])
  BY DEF Revision, On, ModelIndexes, Index
<1>8. AsAt(4, T \cup Revision[4], E)
  BY <1>1, TablesOfRevisions DEF AsAt, LabelsAt, LabelsOf, TypesIn, TypeNames, Revision
<1> QED
  BY <1>5, <1>6, <1>7, <1>8 DEF LeadsTo

\* Revision 0005, up.
LEMMA AgentRunsUpgradeRuns ==
    ASSUME NEW T \in SUBSET TableNames, NEW E, NEW v, AsAt(4, T, E)
    PROVE  LeadsTo(T, E, v, AgentRunsUpgrade, T \cup Revision[5], 5)
<1> DEFINE I0 == On(T)
           labels == {"running", "completed", "failed"}
           F == [e \in TypeNames |-> IF e = "agent_run_status" THEN labels ELSE E[e]]
           T1 == T \cup {"agent_runs"}
           I1 == I0 \cup {Index("agent_runs", "conversation_id", FALSE)}
           s0 == Made(T, I0, E, v)
           s1 == Made(T1, I0, F, v)
           s2 == Made(T1, I1, F, v)
           c1 == CreateTable("agent_runs", AgentRunsTable, labels)
           c2 == CreateIndex("agent_runs", "conversation_id", FALSE)
<1>1. ~created => T = {"users", "workspaces", "memberships", "documents", "chunks", "embeddings",
                      "conversations", "messages", "refresh_tokens"}
                 /\ E["agent_run_status"] = NoLabels
  BY TablesOfRevisions DEF AsAt, LabelsAt, TypesIn, TypeNames
<1>2. Does(s0, c1, s1)
  <2>1. /\ ~created => /\ "agent_runs" \notin T /\ Refers["agent_runs"] \subseteq T
                       /\ \A e \in TypesOf("agent_runs") : E[e] = NoLabels
        /\ \A e \in TypeNames : F[e] = IF e \in TypesOf("agent_runs") THEN labels ELSE E[e]
    BY <1>1 DEF Refers, TypesOf
  <2> QED
    BY <2>1, CreatesTable, RevisionsCreateModels DEF TableNames
<1>3. Does(s1, c2, s2)
  <2>1. ~created => /\ "agent_runs" \in T1
                    /\ \A i \in I0 : i.table = "agent_runs" => i.column # "conversation_id"
    BY <1>1 DEF On, Index
  <2> QED
    BY <2>1, CreatesIndex, IndexesDeclared DEF TableNames
<1>4. Runs(s0, AgentRunsUpgrade, s2)
  <2> DEFINE h == <<s0, s1, s2>>
             p == <<c1, c2>>
  <2> HIDE DEF s0, s1, s2, c1, c2
  <2>1. h[1] = s0 /\ h[2 + 1] = s2
    OBVIOUS
  <2>2. \A n \in 1 .. 2 : Does(h[n], p[n], h[n + 1])
    BY <1>2, <1>3
  <2>3. p \in Seq({c1, c2}) /\ Len(p) = 2
    OBVIOUS
  <2>4. Runs(s0, p, s2)
    <3> HIDE DEF h, p
    <3> QED
      BY <2>1, <2>2, <2>3 DEF Runs
  <2> QED
    BY <2>4 DEF c1, c2, AgentRunsUpgrade
<1>5. T1 = T \cup Revision[5]
  BY DEF Revision
<1>6. I1 = On(T \cup Revision[5])
  BY DEF Revision, On, ModelIndexes, Index
<1>7. AsAt(5, T \cup Revision[5], F)
  BY <1>1, TablesOfRevisions DEF AsAt, LabelsAt, LabelsOf, TypesIn, TypeNames, Revision
<1> QED
  BY <1>4, <1>5, <1>6, <1>7 DEF LeadsTo

\* Revision 0001, down.
LEMMA InitialDowngradeRuns ==
    ASSUME NEW T \in SUBSET TableNames, NEW E, NEW v, AsAt(1, T, E)
    PROVE  LeadsTo(T, E, v, InitialDowngrade, T \ Revision[1], 0)
<1> DEFINE I0 == On(T)
           F == [e \in TypeNames |-> IF e = "membership_role" THEN NoLabels ELSE E[e]]
           T1 == T \ {"memberships"}
           I1 == {i \in I0 : i.table # "memberships"}
           T2 == T1 \ {"workspaces"}
           I2 == {i \in I1 : i.table # "workspaces"}
           I3 == {i \in I2 : <<i.table, i.column>> # <<"users", "email">>}
           T3 == T2 \ {"users"}
           I4 == {i \in I3 : i.table # "users"}
           s0 == Made(T, I0, E, v)
           s1 == Made(T1, I1, E, v)
           s2 == Made(T2, I2, E, v)
           s3 == Made(T2, I3, E, v)
           s4 == Made(T3, I4, E, v)
           s5 == Made(T3, I4, F, v)
           c1 == DropTable("memberships")
           c2 == DropTable("workspaces")
           c3 == DropIndex("users", "email")
           c4 == DropTable("users")
           c5 == DropType("membership_role")
<1>1. ~created => T = {"users", "workspaces", "memberships"}
  BY TablesOfRevisions DEF AsAt
<1>2. Does(s0, c1, s1)
  <2>1. ~created => /\ "memberships" \in T
                    /\ \A u \in T \ {"memberships"} : "memberships" \notin Refers[u]
    BY <1>1 DEF Refers
  <2> QED
    BY <2>1, DropsTable DEF TableNames
<1>3. Does(s1, c2, s2)
  <2>1. ~created => /\ "workspaces" \in T1
                    /\ \A u \in T1 \ {"workspaces"} : "workspaces" \notin Refers[u]
    BY <1>1 DEF Refers
  <2> QED
    BY <2>1, DropsTable DEF TableNames
<1>4. Does(s2, c3, s3)
  <2>1. ~created => \E i \in I2 : i.table = "users" /\ i.column = "email"
    BY <1>1, IndexesDeclared DEF On, Index
  <2> QED
    BY <2>1, DropsIndex
<1>5. Does(s3, c4, s4)
  <2>1. ~created => /\ "users" \in T2
                    /\ \A u \in T2 \ {"users"} : "users" \notin Refers[u]
    BY <1>1 DEF Refers
  <2> QED
    BY <2>1, DropsTable DEF TableNames
<1>6. Does(s4, c5, s5)
  <2>1. ~created => \A t \in T3 : "membership_role" \notin TypesOf(t)
    BY <1>1 DEF TypesOf
  <2> QED
    BY <2>1, DropsType DEF TypeNames
<1>7. Runs(s0, InitialDowngrade, s5)
  <2> DEFINE h == <<s0, s1, s2, s3, s4, s5>>
             p == <<c1, c2, c3, c4, c5>>
  <2> HIDE DEF s0, s1, s2, s3, s4, s5, c1, c2, c3, c4, c5
  <2>1. h[1] = s0 /\ h[5 + 1] = s5
    OBVIOUS
  <2>2. \A n \in 1 .. 5 : Does(h[n], p[n], h[n + 1])
    BY <1>2, <1>3, <1>4, <1>5, <1>6
  <2>3. p \in Seq({c1, c2, c3, c4, c5}) /\ Len(p) = 5
    OBVIOUS
  <2>4. Runs(s0, p, s5)
    <3> HIDE DEF h, p
    <3> QED
      BY <2>1, <2>2, <2>3 DEF Runs
  <2> QED
    BY <2>4 DEF c1, c2, c3, c4, c5, InitialDowngrade
<1>8. T3 = T \ Revision[1]
  BY DEF Revision
<1>9. I4 = On(T \ Revision[1])
  BY DEF Revision, On, ModelIndexes, Index
<1>10. AsAt(0, T \ Revision[1], F)
  BY <1>1, TablesOfRevisions DEF AsAt, LabelsAt, LabelsOf, TypesIn, TypeNames, Revision
<1> QED
  BY <1>7, <1>8, <1>9, <1>10 DEF LeadsTo

\* Revision 0002, down.
LEMMA DocumentsDowngradeRuns ==
    ASSUME NEW T \in SUBSET TableNames, NEW E, NEW v, AsAt(2, T, E)
    PROVE  LeadsTo(T, E, v, DocumentsDowngrade, T \ Revision[2], 1)
<1> DEFINE I0 == On(T)
           F == [e \in TypeNames |-> IF e = "document_status" THEN NoLabels ELSE E[e]]
           T1 == T \ {"embeddings"}
           I1 == {i \in I0 : i.table # "embeddings"}
           I2 == {i \in I1 : <<i.table, i.column>> # <<"chunks", "document_id">>}
           T2 == T1 \ {"chunks"}
           I3 == {i \in I2 : i.table # "chunks"}
           I4 == {i \in I3 : <<i.table, i.column>> # <<"documents", "status">>}
           I5 == {i \in I4 : <<i.table, i.column>> # <<"documents", "workspace_id">>}
           T3 == T2 \ {"documents"}
           I6 == {i \in I5 : i.table # "documents"}
           s0 == Made(T, I0, E, v)
           s1 == Made(T1, I1, E, v)
           s2 == Made(T1, I2, E, v)
           s3 == Made(T2, I3, E, v)
           s4 == Made(T2, I4, E, v)
           s5 == Made(T2, I5, E, v)
           s6 == Made(T3, I6, E, v)
           s7 == Made(T3, I6, F, v)
           c1 == DropTable("embeddings")
           c2 == DropIndex("chunks", "document_id")
           c3 == DropTable("chunks")
           c4 == DropIndex("documents", "status")
           c5 == DropIndex("documents", "workspace_id")
           c6 == DropTable("documents")
           c7 == DropType("document_status")
<1>1. ~created => T = {"users", "workspaces", "memberships", "documents", "chunks", "embeddings"}
  BY TablesOfRevisions DEF AsAt
<1>2. Does(s0, c1, s1)
  <2>1. ~created => /\ "embeddings" \in T
                    /\ \A u \in T \ {"embeddings"} : "embeddings" \notin Refers[u]
    BY <1>1 DEF Refers
  <2> QED
    BY <2>1, DropsTable DEF TableNames
<1>3. Does(s1, c2, s2)
  <2>1. ~created => \E i \in I1 : i.table = "chunks" /\ i.column = "document_id"
    BY <1>1, IndexesDeclared DEF On, Index
  <2> QED
    BY <2>1, DropsIndex
<1>4. Does(s2, c3, s3)
  <2>1. ~created => /\ "chunks" \in T1
                    /\ \A u \in T1 \ {"chunks"} : "chunks" \notin Refers[u]
    BY <1>1 DEF Refers
  <2> QED
    BY <2>1, DropsTable DEF TableNames
<1>5. Does(s3, c4, s4)
  <2>1. ~created => \E i \in I3 : i.table = "documents" /\ i.column = "status"
    BY <1>1, IndexesDeclared DEF On, Index
  <2> QED
    BY <2>1, DropsIndex
<1>6. Does(s4, c5, s5)
  <2>1. ~created => \E i \in I4 : i.table = "documents" /\ i.column = "workspace_id"
    BY <1>1, IndexesDeclared DEF On, Index
  <2> QED
    BY <2>1, DropsIndex
<1>7. Does(s5, c6, s6)
  <2>1. ~created => /\ "documents" \in T2
                    /\ \A u \in T2 \ {"documents"} : "documents" \notin Refers[u]
    BY <1>1 DEF Refers
  <2> QED
    BY <2>1, DropsTable DEF TableNames
<1>8. Does(s6, c7, s7)
  <2>1. ~created => \A t \in T3 : "document_status" \notin TypesOf(t)
    BY <1>1 DEF TypesOf
  <2> QED
    BY <2>1, DropsType DEF TypeNames
<1>9. Runs(s0, DocumentsDowngrade, s7)
  <2> DEFINE h == <<s0, s1, s2, s3, s4, s5, s6, s7>>
             p == <<c1, c2, c3, c4, c5, c6, c7>>
  <2> HIDE DEF s0, s1, s2, s3, s4, s5, s6, s7, c1, c2, c3, c4, c5, c6, c7
  <2>1. h[1] = s0 /\ h[7 + 1] = s7
    OBVIOUS
  <2>2. \A n \in 1 .. 7 : Does(h[n], p[n], h[n + 1])
    BY <1>2, <1>3, <1>4, <1>5, <1>6, <1>7, <1>8
  <2>3. p \in Seq({c1, c2, c3, c4, c5, c6, c7}) /\ Len(p) = 7
    OBVIOUS
  <2>4. Runs(s0, p, s7)
    <3> HIDE DEF h, p
    <3> QED
      BY <2>1, <2>2, <2>3 DEF Runs
  <2> QED
    BY <2>4 DEF c1, c2, c3, c4, c5, c6, c7, DocumentsDowngrade
<1>10. T3 = T \ Revision[2]
  BY DEF Revision
<1>11. I6 = On(T \ Revision[2])
  BY DEF Revision, On, ModelIndexes, Index
<1>12. AsAt(1, T \ Revision[2], F)
  BY <1>1, TablesOfRevisions DEF AsAt, LabelsAt, LabelsOf, TypesIn, TypeNames, Revision
<1> QED
  BY <1>9, <1>10, <1>11, <1>12 DEF LeadsTo

\* Revision 0003, down.
LEMMA ConversationsDowngradeRuns ==
    ASSUME NEW T \in SUBSET TableNames, NEW E, NEW v, AsAt(3, T, E)
    PROVE  LeadsTo(T, E, v, ConversationsDowngrade, T \ Revision[3], 2)
<1> DEFINE I0 == On(T)
           F == [e \in TypeNames |-> IF e = "message_role" THEN NoLabels ELSE E[e]]
           I1 == {i \in I0 : <<i.table, i.column>> # <<"messages", "conversation_id">>}
           T1 == T \ {"messages"}
           I2 == {i \in I1 : i.table # "messages"}
           I3 == {i \in I2 : <<i.table, i.column>> # <<"conversations", "user_id">>}
           I4 == {i \in I3 : <<i.table, i.column>> # <<"conversations", "workspace_id">>}
           T2 == T1 \ {"conversations"}
           I5 == {i \in I4 : i.table # "conversations"}
           s0 == Made(T, I0, E, v)
           s1 == Made(T, I1, E, v)
           s2 == Made(T1, I2, E, v)
           s3 == Made(T1, I3, E, v)
           s4 == Made(T1, I4, E, v)
           s5 == Made(T2, I5, E, v)
           s6 == Made(T2, I5, F, v)
           c1 == DropIndex("messages", "conversation_id")
           c2 == DropTable("messages")
           c3 == DropIndex("conversations", "user_id")
           c4 == DropIndex("conversations", "workspace_id")
           c5 == DropTable("conversations")
           c6 == DropType("message_role")
<1>1. ~created => T = {"users", "workspaces", "memberships", "documents", "chunks", "embeddings",
                      "conversations", "messages"}
  BY TablesOfRevisions DEF AsAt
<1>2. Does(s0, c1, s1)
  <2>1. ~created => \E i \in I0 : i.table = "messages" /\ i.column = "conversation_id"
    BY <1>1, IndexesDeclared DEF On, Index
  <2> QED
    BY <2>1, DropsIndex
<1>3. Does(s1, c2, s2)
  <2>1. ~created => /\ "messages" \in T
                    /\ \A u \in T \ {"messages"} : "messages" \notin Refers[u]
    BY <1>1 DEF Refers
  <2> QED
    BY <2>1, DropsTable DEF TableNames
<1>4. Does(s2, c3, s3)
  <2>1. ~created => \E i \in I2 : i.table = "conversations" /\ i.column = "user_id"
    BY <1>1, IndexesDeclared DEF On, Index
  <2> QED
    BY <2>1, DropsIndex
<1>5. Does(s3, c4, s4)
  <2>1. ~created => \E i \in I3 : i.table = "conversations" /\ i.column = "workspace_id"
    BY <1>1, IndexesDeclared DEF On, Index
  <2> QED
    BY <2>1, DropsIndex
<1>6. Does(s4, c5, s5)
  <2>1. ~created => /\ "conversations" \in T1
                    /\ \A u \in T1 \ {"conversations"} : "conversations" \notin Refers[u]
    BY <1>1 DEF Refers
  <2> QED
    BY <2>1, DropsTable DEF TableNames
<1>7. Does(s5, c6, s6)
  <2>1. ~created => \A t \in T2 : "message_role" \notin TypesOf(t)
    BY <1>1 DEF TypesOf
  <2> QED
    BY <2>1, DropsType DEF TypeNames
<1>8. Runs(s0, ConversationsDowngrade, s6)
  <2> DEFINE h == <<s0, s1, s2, s3, s4, s5, s6>>
             p == <<c1, c2, c3, c4, c5, c6>>
  <2> HIDE DEF s0, s1, s2, s3, s4, s5, s6, c1, c2, c3, c4, c5, c6
  <2>1. h[1] = s0 /\ h[6 + 1] = s6
    OBVIOUS
  <2>2. \A n \in 1 .. 6 : Does(h[n], p[n], h[n + 1])
    BY <1>2, <1>3, <1>4, <1>5, <1>6, <1>7
  <2>3. p \in Seq({c1, c2, c3, c4, c5, c6}) /\ Len(p) = 6
    OBVIOUS
  <2>4. Runs(s0, p, s6)
    <3> HIDE DEF h, p
    <3> QED
      BY <2>1, <2>2, <2>3 DEF Runs
  <2> QED
    BY <2>4 DEF c1, c2, c3, c4, c5, c6, ConversationsDowngrade
<1>9. T2 = T \ Revision[3]
  BY DEF Revision
<1>10. I5 = On(T \ Revision[3])
  BY DEF Revision, On, ModelIndexes, Index
<1>11. AsAt(2, T \ Revision[3], F)
  BY <1>1, TablesOfRevisions DEF AsAt, LabelsAt, LabelsOf, TypesIn, TypeNames, Revision
<1> QED
  BY <1>8, <1>9, <1>10, <1>11 DEF LeadsTo

\* Revision 0004, down.
LEMMA RefreshTokensDowngradeRuns ==
    ASSUME NEW T \in SUBSET TableNames, NEW E, NEW v, AsAt(4, T, E)
    PROVE  LeadsTo(T, E, v, RefreshTokensDowngrade, T \ Revision[4], 3)
<1> DEFINE I0 == On(T)
           I1 == {i \in I0 : <<i.table, i.column>> # <<"refresh_tokens", "jti">>}
           I2 == {i \in I1 : <<i.table, i.column>> # <<"refresh_tokens", "user_id">>}
           T1 == T \ {"refresh_tokens"}
           I3 == {i \in I2 : i.table # "refresh_tokens"}
           s0 == Made(T, I0, E, v)
           s1 == Made(T, I1, E, v)
           s2 == Made(T, I2, E, v)
           s3 == Made(T1, I3, E, v)
           c1 == DropIndex("refresh_tokens", "jti")
           c2 == DropIndex("refresh_tokens", "user_id")
           c3 == DropTable("refresh_tokens")
<1>1. ~created => T = {"users", "workspaces", "memberships", "documents", "chunks", "embeddings",
                      "conversations", "messages", "refresh_tokens"}
  BY TablesOfRevisions DEF AsAt
<1>2. Does(s0, c1, s1)
  <2>1. ~created => \E i \in I0 : i.table = "refresh_tokens" /\ i.column = "jti"
    BY <1>1, IndexesDeclared DEF On, Index
  <2> QED
    BY <2>1, DropsIndex
<1>3. Does(s1, c2, s2)
  <2>1. ~created => \E i \in I1 : i.table = "refresh_tokens" /\ i.column = "user_id"
    BY <1>1, IndexesDeclared DEF On, Index
  <2> QED
    BY <2>1, DropsIndex
<1>4. Does(s2, c3, s3)
  <2>1. ~created => /\ "refresh_tokens" \in T
                    /\ \A u \in T \ {"refresh_tokens"} : "refresh_tokens" \notin Refers[u]
    BY <1>1 DEF Refers
  <2> QED
    BY <2>1, DropsTable DEF TableNames
<1>5. Runs(s0, RefreshTokensDowngrade, s3)
  <2> DEFINE h == <<s0, s1, s2, s3>>
             p == <<c1, c2, c3>>
  <2> HIDE DEF s0, s1, s2, s3, c1, c2, c3
  <2>1. h[1] = s0 /\ h[3 + 1] = s3
    OBVIOUS
  <2>2. \A n \in 1 .. 3 : Does(h[n], p[n], h[n + 1])
    BY <1>2, <1>3, <1>4
  <2>3. p \in Seq({c1, c2, c3}) /\ Len(p) = 3
    OBVIOUS
  <2>4. Runs(s0, p, s3)
    <3> HIDE DEF h, p
    <3> QED
      BY <2>1, <2>2, <2>3 DEF Runs
  <2> QED
    BY <2>4 DEF c1, c2, c3, RefreshTokensDowngrade
<1>6. T1 = T \ Revision[4]
  BY DEF Revision
<1>7. I3 = On(T \ Revision[4])
  BY DEF Revision, On, ModelIndexes, Index
<1>8. AsAt(3, T \ Revision[4], E)
  BY <1>1, TablesOfRevisions DEF AsAt, LabelsAt, LabelsOf, TypesIn, TypeNames, Revision
<1> QED
  BY <1>5, <1>6, <1>7, <1>8 DEF LeadsTo

\* Revision 0005, down.
LEMMA AgentRunsDowngradeRuns ==
    ASSUME NEW T \in SUBSET TableNames, NEW E, NEW v, AsAt(5, T, E)
    PROVE  LeadsTo(T, E, v, AgentRunsDowngrade, T \ Revision[5], 4)
<1> DEFINE I0 == On(T)
           F == [e \in TypeNames |-> IF e = "agent_run_status" THEN NoLabels ELSE E[e]]
           I1 == {i \in I0 : <<i.table, i.column>> # <<"agent_runs", "conversation_id">>}
           T1 == T \ {"agent_runs"}
           I2 == {i \in I1 : i.table # "agent_runs"}
           s0 == Made(T, I0, E, v)
           s1 == Made(T, I1, E, v)
           s2 == Made(T1, I2, E, v)
           s3 == Made(T1, I2, F, v)
           c1 == DropIndex("agent_runs", "conversation_id")
           c2 == DropTable("agent_runs")
           c3 == DropType("agent_run_status")
<1>1. ~created => T = {"users", "workspaces", "memberships", "documents", "chunks", "embeddings",
                      "conversations", "messages", "refresh_tokens", "agent_runs"}
  BY TablesOfRevisions DEF AsAt
<1>2. Does(s0, c1, s1)
  <2>1. ~created => \E i \in I0 : i.table = "agent_runs" /\ i.column = "conversation_id"
    BY <1>1, IndexesDeclared DEF On, Index
  <2> QED
    BY <2>1, DropsIndex
<1>3. Does(s1, c2, s2)
  <2>1. ~created => /\ "agent_runs" \in T
                    /\ \A u \in T \ {"agent_runs"} : "agent_runs" \notin Refers[u]
    BY <1>1 DEF Refers
  <2> QED
    BY <2>1, DropsTable DEF TableNames
<1>4. Does(s2, c3, s3)
  <2>1. ~created => \A t \in T1 : "agent_run_status" \notin TypesOf(t)
    BY <1>1 DEF TypesOf
  <2> QED
    BY <2>1, DropsType DEF TypeNames
<1>5. Runs(s0, AgentRunsDowngrade, s3)
  <2> DEFINE h == <<s0, s1, s2, s3>>
             p == <<c1, c2, c3>>
  <2> HIDE DEF s0, s1, s2, s3, c1, c2, c3
  <2>1. h[1] = s0 /\ h[3 + 1] = s3
    OBVIOUS
  <2>2. \A n \in 1 .. 3 : Does(h[n], p[n], h[n + 1])
    BY <1>2, <1>3, <1>4
  <2>3. p \in Seq({c1, c2, c3}) /\ Len(p) = 3
    OBVIOUS
  <2>4. Runs(s0, p, s3)
    <3> HIDE DEF h, p
    <3> QED
      BY <2>1, <2>2, <2>3 DEF Runs
  <2> QED
    BY <2>4 DEF c1, c2, c3, AgentRunsDowngrade
<1>6. T1 = T \ Revision[5]
  BY DEF Revision
<1>7. I2 = On(T \ Revision[5])
  BY DEF Revision, On, ModelIndexes, Index
<1>8. AsAt(4, T \ Revision[5], F)
  BY <1>1, TablesOfRevisions DEF AsAt, LabelsAt, LabelsOf, TypesIn, TypeNames, Revision
<1> QED
  BY <1>5, <1>6, <1>7, <1>8 DEF LeadsTo

-----------------------------------------------------------------------------
\* A schema that alembic leaves: at least the revision's tables are there, as the
\* models declare them and with their indexes; and if the application has created
\* none, nothing but the revision's tables, and its labels.
Sound(s) ==
    \E T \in SUBSET TableNames : \E E :
        /\ s = Made(T, On(T), E, s.version)
        /\ s.version \in 0 .. 5
        /\ TablesAt(s.version) \subseteq T
        /\ AsAt(s.version, T, E)

\* The statements that are left of a revision lead to such a schema, and are accepted.
MigrationInv ==
    /\ target \in 0 .. 5
    /\ Sound(catalog)
    /\ ~Running => work = catalog /\ plan = <<>>
    /\ \E next : Sound(next) /\ Runs(work, plan, next)

\* Of runs: of no statement, of one more, and of all but the first.
LEMMA RunsNone ==
    ASSUME NEW s, NEW next
    PROVE  Runs(s, <<>>, next) <=> next = s
<1>1. <<>> \in Seq({}) /\ Len(<<>>) = 0
  OBVIOUS
<1>2. ASSUME Runs(s, <<>>, next) PROVE next = s
  BY <1>1, <1>2 DEF Runs
<1>3. Runs(s, <<>>, s)
  <2> DEFINE h == <<s>>
  <2>1. h[1] = s /\ h[0 + 1] = s
    OBVIOUS
  <2> HIDE DEF h
  <2> QED
    BY <1>1, <2>1 DEF Runs
<1> QED
  BY <1>2, <1>3

LEMMA RunsOneMore ==
    ASSUME NEW s, NEW p, NEW m, NEW c, NEW next, Runs(s, p, m), Does(m, c, next)
    PROVE  Runs(s, p \o <<c>>, next)
<1>1. PICK S : p \in Seq(S)
  BY DEF Runs
<1>2. PICK h : h[1] = s /\ h[Len(p) + 1] = m /\ \A n \in 1 .. Len(p) : Does(h[n], p[n], h[n + 1])
  BY DEF Runs
<1> DEFINE g == [n \in 1 .. Len(p) + 2 |-> IF n = Len(p) + 2 THEN next ELSE h[n]]
           q == p \o <<c>>
<1>3. Len(p) \in Nat /\ Len(q) = Len(p) + 1 /\ q \in Seq(S \cup {c})
  BY <1>1
<1>4. g[1] = s /\ g[Len(q) + 1] = next
  BY <1>2, <1>3
<1>5. ASSUME NEW n \in 1 .. Len(q) PROVE Does(g[n], q[n], g[n + 1])
  <2>1. CASE n = Len(q)
    <3>1. q[n] = c /\ g[n] = m /\ g[n + 1] = next
      BY <1>1, <1>2, <1>3, <2>1
    <3> QED
      BY <3>1
  <2>2. CASE n \in 1 .. Len(p)
    <3>1. q[n] = p[n] /\ g[n] = h[n] /\ g[n + 1] = h[n + 1]
      BY <1>1, <1>3, <2>2
    <3> QED
      BY <3>1, <1>2, <2>2
  <2> QED
    BY <2>1, <2>2, <1>3
<1> HIDE DEF g, q
<1>6. Runs(s, q, next)
  BY <1>3, <1>4, <1>5 DEF Runs
<1> QED
  BY <1>6 DEF q

LEMMA RunsRest ==
    ASSUME NEW s, NEW p, NEW next, Runs(s, p, next), p # <<>>
    PROVE  \E m : Does(s, Head(p), m) /\ Runs(m, Tail(p), next)
<1>1. PICK S : p \in Seq(S)
  BY DEF Runs
<1>2. PICK h : h[1] = s /\ h[Len(p) + 1] = next /\ \A n \in 1 .. Len(p) : Does(h[n], p[n], h[n + 1])
  BY DEF Runs
<1> DEFINE g == [n \in 1 .. Len(p) |-> h[n + 1]]
           q == Tail(p)
<1>3. Len(p) \in Nat \ {0} /\ Len(q) = Len(p) - 1 /\ q \in Seq(S)
  BY <1>1
<1>4. Does(s, Head(p), h[2])
  BY <1>1, <1>2, <1>3
<1>5. g[1] = h[2] /\ g[Len(q) + 1] = next
  BY <1>2, <1>3
<1>6. ASSUME NEW n \in 1 .. Len(q) PROVE Does(g[n], q[n], g[n + 1])
  <2>1. q[n] = p[n + 1] /\ g[n] = h[n + 1] /\ g[n + 1] = h[n + 1 + 1] /\ n + 1 \in 1 .. Len(p)
    BY <1>1, <1>3
  <2> QED
    BY <1>2, <2>1
<1>7. Runs(h[2], q, next)
  <2> HIDE DEF g, q
  <2> QED
    BY <1>3, <1>5, <1>6 DEF Runs
<1> QED
  BY <1>4, <1>7

\* What statements lead to is their outcome.
LEMMA OutcomeOfRun ==
    ASSUME NEW s, NEW p, NEW next, Runs(s, p, next)
    PROVE  Outcome(s, p) = next
<1>1. PICK h : h[1] = s /\ h[Len(p) + 1] = next /\ \A n \in 1 .. Len(p) : Does(h[n], p[n], h[n + 1])
  BY DEF Runs
<1>2. Len(p) \in Nat
  BY DEF Runs
<1> DEFINE Follow(f) == f = [n \in 0 .. Len(p) |-> IF n = 0 THEN s ELSE Execute(f[n - 1], p[n])]
           after == CHOOSE f : Follow(f)
           S == {n \in Nat : n <= Len(p) => after[n] = h[n + 1]}
<1>3. Follow([n \in 0 .. Len(p) |-> h[n + 1]])
  <2>1. ASSUME NEW n \in 0 .. Len(p)
        PROVE  h[n + 1] = IF n = 0 THEN s
                          ELSE Execute([k \in 0 .. Len(p) |-> h[k + 1]][n - 1], p[n])
    <3>1. CASE n = 0
      BY <1>1, <3>1
    <3>2. CASE n # 0
      <4>1. n \in 1 .. Len(p) /\ n - 1 \in 0 .. Len(p) /\ n - 1 + 1 = n
        BY <1>2, <3>2
      <4>2. h[n + 1] = Execute(h[n], p[n])
        BY <1>1, <4>1 DEF Does
      <4> QED
        BY <3>2, <4>1, <4>2
    <3> QED
      BY <3>1, <3>2
  <2> QED
    BY <2>1
<1>4. Follow(after)
  <2> HIDE DEF Follow
  <2> QED
    BY <1>3
<1>5. 0 \in S
  <2>1. after[0] = s
    <3> HIDE DEF after
    <3> QED
      BY <1>2, <1>4
  <2> QED
    BY <1>1, <2>1
<1>6. ASSUME NEW n \in Nat, n \in S PROVE n + 1 \in S
  <2> SUFFICES ASSUME n + 1 <= Len(p) PROVE after[n + 1] = h[n + 1 + 1]
    OBVIOUS
  <2>1. n + 1 \in 1 .. Len(p) /\ n + 1 \in 0 .. Len(p) /\ n + 1 - 1 = n /\ n + 1 # 0
    BY <1>2
  <2>2. after[n + 1] = Execute(after[n], p[n + 1])
    <3> HIDE DEF after
    <3> QED
      BY <1>4, <2>1
  <2>3. h[n + 1 + 1] = Execute(h[n + 1], p[n + 1])
    BY <1>1, <2>1 DEF Does
  <2>4. after[n] = h[n + 1]
    BY <1>2, <1>6
  <2> QED
    BY <2>2, <2>3, <2>4
<1>7. Nat \subseteq S
  <2> HIDE DEF S
  <2> QED
    BY <1>5, <1>6, SetInduction
<1>8. after[Len(p)] = next
  BY <1>1, <1>2, <1>7
<1> QED
  BY <1>8 DEF Outcome

\* Every revision, up and down.
LEMMA UpgradeLeadsTo ==
    ASSUME NEW v \in 0 .. 4, NEW T \in SUBSET TableNames, NEW E, AsAt(v, T, E)
    PROVE  LeadsTo(T, E, v, Upgrades[v + 1], T \cup Revision[v + 1], v + 1)
<1>1. CASE v = 0
  BY <1>1, InitialUpgradeRuns DEF Upgrades
<1>2. CASE v = 1
  BY <1>2, DocumentsUpgradeRuns DEF Upgrades
<1>3. CASE v = 2
  BY <1>3, ConversationsUpgradeRuns DEF Upgrades
<1>4. CASE v = 3
  BY <1>4, RefreshTokensUpgradeRuns DEF Upgrades
<1>5. CASE v = 4
  BY <1>5, AgentRunsUpgradeRuns DEF Upgrades
<1> QED
  BY <1>1, <1>2, <1>3, <1>4, <1>5

LEMMA DowngradeLeadsTo ==
    ASSUME NEW v \in 1 .. 5, NEW T \in SUBSET TableNames, NEW E, AsAt(v, T, E)
    PROVE  LeadsTo(T, E, v, Downgrades[v], T \ Revision[v], v - 1)
<1>1. CASE v = 1
  BY <1>1, InitialDowngradeRuns DEF Downgrades
<1>2. CASE v = 2
  BY <1>2, DocumentsDowngradeRuns DEF Downgrades
<1>3. CASE v = 3
  BY <1>3, ConversationsDowngradeRuns DEF Downgrades
<1>4. CASE v = 4
  BY <1>4, RefreshTokensDowngradeRuns DEF Downgrades
<1>5. CASE v = 5
  BY <1>5, AgentRunsDowngradeRuns DEF Downgrades
<1> QED
  BY <1>1, <1>2, <1>3, <1>4, <1>5

\* From a sound schema a revision and its stamp lead to a sound schema.
LEMMA UpgradeIsSound ==
    ASSUME NEW s, Sound(s), s.version < 5
    PROVE  \E next : /\ Sound(next) /\ next.version = s.version + 1
                     /\ Runs(s, Upgrade(s.version), next)
<1> DEFINE v == s.version
<1>0. PICK T \in SUBSET TableNames : \E E :
          s = Made(T, On(T), E, v) /\ v \in 0 .. 5 /\ TablesAt(v) \subseteq T /\ AsAt(v, T, E)
  BY DEF Sound
<1>1. PICK E : s = Made(T, On(T), E, v) /\ v \in 0 .. 5 /\ TablesAt(v) \subseteq T /\ AsAt(v, T, E)
  BY <1>0
<1>2. v \in 0 .. 4
  BY <1>1
<1> DEFINE V == T \cup Revision[v + 1]
<1>3. PICK F : /\ Runs(Made(T, On(T), E, v), Upgrades[v + 1], Made(V, On(V), F, v))
               /\ AsAt(v + 1, V, F)
  BY <1>1, <1>2, UpgradeLeadsTo DEF LeadsTo
<1> DEFINE next == Made(V, On(V), F, v + 1)
<1>4. Runs(s, Upgrade(v), next)
  BY <1>1, <1>3, Stamps, RunsOneMore DEF Upgrade
<1>5. next.version = v + 1
  BY DEF Made
<1>6. Revision[v + 1] \subseteq TableNames
  BY <1>2 DEF Revision, TableNames
<1>7. TablesAt(v + 1) \subseteq V
  BY <1>1, <1>2, TablesOfRevisions DEF Revision
<1>8. Sound(next)
  BY <1>2, <1>3, <1>5, <1>6, <1>7 DEF Sound
<1> QED
  BY <1>4, <1>5, <1>8

LEMMA DowngradeIsSound ==
    ASSUME NEW s, Sound(s), s.version > 0
    PROVE  \E next : /\ Sound(next) /\ next.version = s.version - 1
                     /\ Runs(s, Downgrade(s.version), next)
<1> DEFINE v == s.version
<1>0. PICK T \in SUBSET TableNames : \E E :
          s = Made(T, On(T), E, v) /\ v \in 0 .. 5 /\ TablesAt(v) \subseteq T /\ AsAt(v, T, E)
  BY DEF Sound
<1>1. PICK E : s = Made(T, On(T), E, v) /\ v \in 0 .. 5 /\ TablesAt(v) \subseteq T /\ AsAt(v, T, E)
  BY <1>0
<1>2. v \in 1 .. 5
  BY <1>1
<1> DEFINE V == T \ Revision[v]
<1>3. PICK F : /\ Runs(Made(T, On(T), E, v), Downgrades[v], Made(V, On(V), F, v))
               /\ AsAt(v - 1, V, F)
  BY <1>1, <1>2, DowngradeLeadsTo DEF LeadsTo
<1> DEFINE next == Made(V, On(V), F, v - 1)
<1>4. Runs(s, Downgrade(v), next)
  BY <1>1, <1>3, Stamps, RunsOneMore DEF Downgrade
<1>5. next.version = v - 1
  BY DEF Made
<1>6. TablesAt(v - 1) \subseteq V
  BY <1>1, <1>2, TablesOfRevisions DEF Revision
<1>7. Sound(next)
  BY <1>2, <1>3, <1>5, <1>6 DEF Sound
<1> QED
  BY <1>4, <1>5, <1>7
-----------------------------------------------------------------------------
\* Every action keeps MigrationInv.
LEMMA LatestIsFive == Latest = 5
BY DEF Latest, Upgrades

LEMMA EmptyIsSound == Sound(Empty) /\ Empty.version = 0
<1> DEFINE E == [e \in TypeNames |-> NoLabels]
<1>1. Empty = Made({}, On({}), E, 0)
  BY DEF Empty, Made, On
<1>2. AsAt(0, {}, E)
  BY TablesOfRevisions DEF AsAt, LabelsAt
<1>3. Empty.version = 0
  BY DEF Empty
<1> QED
  BY <1>1, <1>2, <1>3, TablesOfRevisions DEF Sound

LEMMA MigrationInitInv == MigrationInit => MigrationInv
<1> SUFFICES ASSUME MigrationInit PROVE MigrationInv
  OBVIOUS
<1>1. Runs(work, plan, Empty)
  BY RunsNone DEF MigrationInit
<1> QED
  BY <1>1, EmptyIsSound DEF MigrationInit, MigrationInv, Running

\* What does not touch created leaves what is sound, and what statements do, as it was.
LEMMA CreatedKept ==
    ASSUME created' = created
    PROVE  /\ \A s : Sound(s) <=> Sound(s)'
           /\ \A s, p, next : Runs(s, p, next) <=> Runs(s, p, next)'
BY DEF Sound, AsAt, Runs, Does

LEMMA RunMigrationsInv ==
    ASSUME MigrationInv, NEW to \in 0 .. Latest, RunMigrations(to)
    PROVE  MigrationInv'
<1>1. to \in 0 .. 5 /\ created' = created
  BY LatestIsFive DEF RunMigrations
<1>2. Running'
  BY DEF RunMigrations, Running
<1> QED
  BY <1>1, <1>2, CreatedKept DEF MigrationInv, RunMigrations

LEMMA NextRevisionInv ==
    ASSUME MigrationInv, NextRevision
    PROVE  MigrationInv'
<1>1. created' = created /\ Running' /\ work.version # target
  BY DEF NextRevision, Running
<1>2. Sound(work)
  BY RunsNone DEF MigrationInv, NextRevision
<1>3. work.version \in 0 .. 5 /\ target \in 0 .. 5
  BY <1>2 DEF Sound, MigrationInv
<1>4. \E next : Sound(next) /\ Runs(work, plan', next)
  <2>1. CASE work.version < target
    <3>1. plan' = Upgrade(work.version) /\ work.version < 5
      BY <1>3, <2>1 DEF NextRevision
    <3> QED
      BY <1>2, <3>1, UpgradeIsSound
  <2>2. CASE ~(work.version < target)
    <3>1. plan' = Downgrade(work.version) /\ work.version > 0
      BY <1>1, <1>3, <2>2 DEF NextRevision
    <3> QED
      BY <1>2, <3>1, DowngradeIsSound
  <2> QED
    BY <2>1, <2>2
<1> QED
  BY <1>1, <1>4, CreatedKept DEF MigrationInv, NextRevision

LEMMA RunStatementInv ==
    ASSUME MigrationInv, RunStatement
    PROVE  MigrationInv'
<1>1. created' = created /\ Running /\ Running'
  BY DEF RunStatement, MigrationInv, Running
<1>2. PICK next : Sound(next) /\ Runs(work, plan, next)
  BY DEF MigrationInv
<1>3. Runs(work', plan', next)
  BY <1>2, RunsRest DEF RunStatement, Does
<1> QED
  BY <1>1, <1>2, <1>3, CreatedKept DEF MigrationInv, RunStatement

LEMMA CommitInv ==
    ASSUME MigrationInv, Commit
    PROVE  MigrationInv'
<1>1. created' = created /\ ~Running'
  BY DEF Commit, Running
<1>2. Sound(work) /\ Runs(work, <<>>, work)
  BY RunsNone DEF MigrationInv, Commit
<1> QED
  BY <1>1, <1>2, CreatedKept DEF MigrationInv, Commit

LEMMA UndoInv ==
    ASSUME MigrationInv, Undo
    PROVE  MigrationInv'
<1>1. created' = created /\ ~Running'
  BY DEF Undo, Running
<1>2. Sound(catalog) /\ Runs(catalog, <<>>, catalog) /\ catalog.version \in 0 .. 5
  BY RunsNone DEF MigrationInv, Sound
<1> QED
  BY <1>1, <1>2, CreatedKept DEF MigrationInv, Undo

\* create_all leaves all of the models' tables.
LEMMA CreateAllInv ==
    ASSUME MigrationInv, CreateAll
    PROVE  MigrationInv'
<1> DEFINE v == catalog.version
<1>1. PICK T \in SUBSET TableNames : \E E :
          catalog = Made(T, On(T), E, v) /\ v \in 0 .. 5 /\ TablesAt(v) \subseteq T
  BY DEF MigrationInv, Sound
<1>2. PICK E : catalog = Made(T, On(T), E, v)
  BY <1>1
<1>3. {t \in TableNames : ~HasTable(catalog, t)} = TableNames \ T
  BY <1>2, ModelShape DEF Made, HasTable
<1> DEFINE new == TableNames \ T
           F == [e \in TypeNames |->
                    IF ~HasType(catalog, e) /\ \E t \in new : e \in Models[t].enums
                    THEN ModelLabels[e] ELSE catalog.types[e]]
<1>4. catalog' = [tables |-> [t \in TableNames |->
                                IF t \in new THEN Models[t] ELSE catalog.tables[t]],
                  indexes |-> catalog.indexes \cup {i \in ModelIndexes : i.table \in new},
                  types |-> F,
                  version |-> v]
  BY <1>3 DEF CreateAll
<1>5. /\ [t \in TableNames |-> IF t \in new THEN Models[t] ELSE catalog.tables[t]] =
              [t \in TableNames |-> IF t \in TableNames THEN Models[t] ELSE NoTable]
      /\ catalog.indexes \cup {i \in ModelIndexes : i.table \in new} = On(TableNames)
      /\ F = [e \in TypeNames |-> F[e]]
  BY <1>2 DEF Made, On
<1>6. \E G : catalog' = Made(TableNames, On(TableNames), G, v)
  <2>1. catalog' = Made(TableNames, On(TableNames), F, v)
    <3> HIDE DEF F
    <3> QED
      BY <1>4, <1>5 DEF Made
  <2> QED
    BY <2>1
<1>7. created' = TRUE /\ work' = catalog' /\ plan' = <<>> /\ target' = target
  BY DEF CreateAll, MigrationInv
<1>8. catalog'.version = v
  BY <1>6 DEF Made
<1>9. Sound(catalog)'
  <2>1. PICK G : catalog' = Made(TableNames, On(TableNames), G, catalog'.version)
    BY <1>6, <1>8
  <2>2. AsAt(catalog.version, TableNames, G)'
    BY <1>7 DEF AsAt
  <2>3. catalog'.version \in 0 .. 5 /\ TablesAt(catalog'.version) \subseteq TableNames
    BY <1>1, <1>8
  <2> QED
    BY <2>1, <2>2, <2>3 DEF Sound
<1>10. Runs(work, plan, catalog)'
  <2> DEFINE h == <<work'>>
  <2>1. h[1] = work' /\ h[0 + 1] = catalog'
    BY <1>7
  <2>2. <<>> \in Seq({}) /\ Len(<<>>) = 0
    OBVIOUS
  <2> HIDE DEF h
  <2> QED
    BY <1>7, <2>1, <2>2 DEF Runs
<1>11. ~Running'
  BY <1>7, <1>8 DEF CreateAll, Running
<1> QED
  BY <1>7, <1>9, <1>10, <1>11 DEF MigrationInv

LEMMA MigrationNextInv ==
    MigrationInv /\ [MigrationNext]_migrationVars => MigrationInv'
<1> SUFFICES ASSUME MigrationInv, [MigrationNext]_migrationVars PROVE MigrationInv'
  OBVIOUS
<1>1. CASE UNCHANGED migrationVars
  BY <1>1, CreatedKept DEF migrationVars, MigrationInv, Running
<1> QED
  BY <1>1, RunMigrationsInv, NextRevisionInv, RunStatementInv, CommitInv, UndoInv, CreateAllInv
  DEF MigrationNext

\* Alembic, interrupted or not, and create_all keep the schema sound.
THEOREM MigrationsKeepInv == MigrationSpec => []MigrationInv
<1> QED
  BY MigrationInitInv, MigrationNextInv, PTL DEF MigrationSpec

\* From any revision every other is reached with no statement refused, as often as
\* one likes and whatever breaks off, as long as alembic has the schema to itself.
THEOREM MigrationsNeverRefused == MigrationSpec => []NeverRefused
<1>1. ASSUME MigrationInv, plan # <<>>, ~created PROVE Accepts(work, Head(plan))
  BY <1>1, RunsRest DEF MigrationInv, Does
<1>2. MigrationInv => NeverRefused
  BY <1>1 DEF NeverRefused
<1> QED
  BY <1>2, MigrationsKeepInv, PTL

\* Without create_all a sound schema is the revision's.
LEMMA SoundIsSchema ==
    ASSUME ~created, NEW v \in 0 .. 5
    PROVE  \A s : Sound(s) /\ s.version = v => s = Schema[v]
<1> DEFINE At(n) == CHOOSE s : Sound(s) /\ s.version = n
           Follow(f) == f = [n \in 0 .. Latest |->
                                IF n = 0 THEN Empty ELSE Outcome(f[n - 1], Upgrade(n - 1))]
<1>1. ASSUME NEW s, NEW r, Sound(s), Sound(r), s.version = r.version PROVE s = r
  <2>1. ASSUME NEW x, Sound(x)
        PROVE  x = Made(TablesAt(x.version), On(TablesAt(x.version)),
                        LabelsAt(x.version), x.version)
    BY <2>1 DEF Sound, AsAt, Made
  <2> QED
    BY <1>1, <2>1
<1>2. Sound(Empty) /\ At(0) = Empty
  BY <1>1, EmptyIsSound
<1>3. ASSUME NEW n \in 0 .. 4, Sound(At(n)), At(n).version = n
      PROVE  /\ Sound(At(n + 1)) /\ At(n + 1).version = n + 1
             /\ At(n + 1) = Outcome(At(n), Upgrade(n))
  <2>1. PICK next : Sound(next) /\ next.version = n + 1 /\ Runs(At(n), Upgrade(n), next)
    <3> HIDE DEF At
    <3> QED
      BY <1>3, UpgradeIsSound
  <2>2. At(n + 1) = next
    BY <1>1, <2>1
  <2> HIDE DEF At
  <2> QED
    BY <2>1, <2>2, OutcomeOfRun
<1> HIDE DEF At
<1>4. /\ Sound(At(0)) /\ At(0).version = 0
      /\ Sound(At(1)) /\ At(1).version = 1
      /\ Sound(At(2)) /\ At(2).version = 2
      /\ Sound(At(3)) /\ At(3).version = 3
      /\ Sound(At(4)) /\ At(4).version = 4
      /\ Sound(At(5)) /\ At(5).version = 5
  <2>1. Sound(At(0)) /\ At(0).version = 0
    BY <1>2, EmptyIsSound
  <2>2. Sound(At(1)) /\ At(1).version = 1
    BY <1>3, <2>1
  <2>3. Sound(At(2)) /\ At(2).version = 2
    BY <1>3, <2>2
  <2>4. Sound(At(3)) /\ At(3).version = 3
    BY <1>3, <2>3
  <2>5. Sound(At(4)) /\ At(4).version = 4
    BY <1>3, <2>4
  <2>6. Sound(At(5)) /\ At(5).version = 5
    BY <1>3, <2>5
  <2> QED
    BY <2>1, <2>2, <2>3, <2>4, <2>5, <2>6
<1>5. \A n \in 0 .. 5 : Sound(At(n)) /\ At(n).version = n
  BY <1>4
<1>6. Follow([n \in 0 .. Latest |-> At(n)])
  <2> DEFINE g == [n \in 0 .. Latest |-> At(n)]
  <2>1. ASSUME NEW n \in 0 .. 5
        PROVE  At(n) = IF n = 0 THEN Empty ELSE Outcome(g[n - 1], Upgrade(n - 1))
    <3>1. CASE n = 0
      BY <1>2, <3>1
    <3>2. CASE n # 0
      <4>1. n - 1 \in 0 .. 4 /\ n - 1 + 1 = n /\ n - 1 \in 0 .. 5
        BY <3>2
      <4>2. g[n - 1] = At(n - 1)
        BY <4>1, LatestIsFive
      <4> QED
        BY <1>3, <1>5, <3>2, <4>1, <4>2
    <3> QED
      BY <3>1, <3>2
  <2> QED
    BY <2>1, LatestIsFive
<1>7. Follow(Schema)
  <2> HIDE DEF Follow
  <2>1. Follow(CHOOSE f : Follow(f))
    BY <1>6
  <2>2. Schema = CHOOSE f : Follow(f)
    BY DEF Schema, Follow
  <2> QED
    BY <2>1, <2>2
<1>8. ASSUME NEW n \in 0 .. 5
      PROVE  Schema[n] = IF n = 0 THEN Empty ELSE Outcome(Schema[n - 1], Upgrade(n - 1))
  BY <1>7, LatestIsFive
<1>9. ASSUME NEW n \in 0 .. 4, Schema[n] = At(n) PROVE Schema[n + 1] = At(n + 1)
  <2>1. n + 1 \in 0 .. 5 /\ n + 1 # 0 /\ n + 1 - 1 = n /\ n \in 0 .. 5
    OBVIOUS
  <2> QED
    BY <1>3, <1>5, <1>8, <1>9, <2>1
<1>10. Schema[v] = At(v)
  <2>1. Schema[0] = At(0)
    BY <1>2, <1>8
  <2>2. Schema[1] = At(1)
    BY <1>9, <2>1
  <2>3. Schema[2] = At(2)
    BY <1>9, <2>2
  <2>4. Schema[3] = At(3)
    BY <1>9, <2>3
  <2>5. Schema[4] = At(4)
    BY <1>9, <2>4
  <2>6. Schema[5] = At(5)
    BY <1>9, <2>5
  <2>7. v \in {0, 1, 2, 3, 4, 5}
    OBVIOUS
  <2> QED
    BY <2>1, <2>2, <2>3, <2>4, <2>5, <2>6, <2>7
<1> QED
  BY <1>1, <1>5, <1>10

\* The committed schema is what the upgrades to its revision make of an empty
\* database, whichever way up and down led there, unless create_all has been at it.
THEOREM MigrationsLeaveTheirSchema == MigrationSpec => []RevisionSaysItAll
<1>1. ASSUME MigrationInv, ~created PROVE catalog = Schema[catalog.version]
  <2>1. Sound(catalog) /\ catalog.version \in 0 .. 5
    BY <1>1 DEF MigrationInv, Sound
  <2> QED
    BY <1>1, <2>1, SoundIsSchema
<1>2. MigrationInv => RevisionSaysItAll
  BY <1>1 DEF RevisionSaysItAll
<1> QED
  BY <1>2, MigrationsKeepInv, PTL

\* At the latest revision the database has the tables, constraints and indexes of
\* the models, by whatever upgrades, downgrades and broken-off commands it came there.
THEOREM LatestIsWhatModelsDeclare == MigrationSpec => []LatestServesModels
<1>1. ASSUME MigrationInv, catalog.version = Latest
      PROVE  catalog.tables = Models /\ catalog.indexes = ModelIndexes
  <2>1. PICK T \in SUBSET TableNames : \E E :
            catalog = Made(T, On(T), E, catalog.version) /\ TablesAt(catalog.version) \subseteq T
    BY <1>1 DEF MigrationInv, Sound
  <2>2. T = TableNames
    BY <1>1, <2>1, LatestIsFive, TablesOfRevisions DEF TableNames
  <2>3. Models = [t \in TableNames |-> Models[t]]
    BY DEF Models, TableNames
  <2>4. catalog.tables = [t \in TableNames |-> Models[t]] /\ catalog.indexes = On(TableNames)
    BY <2>1, <2>2 DEF Made
  <2>5. On(TableNames) = ModelIndexes
    BY DEF On, ModelIndexes, Index, TableNames
  <2> QED
    BY <2>3, <2>4, <2>5
<1>2. MigrationInv => LatestServesModels
  BY <1>1 DEF LatestServesModels
<1> QED
  BY <1>2, MigrationsKeepInv, PTL
=============================================================================
