----------------------------- MODULE Migrations -----------------------------
(***************************************************************************)
(* The schema migrations a state store runs whenever it is opened.  SQLite *)
(* runs seven batches whose statements commit one by one, and records each *)
(* batch in schema_migrations when it is through; the version is read once *)
(* at the start.  Postgres runs each file as one implicit transaction,     *)
(* records it in a second, and compares the checksums of the files it      *)
(* finds recorded.  pgvector does the same with files of its own, after it *)
(* has made sure of the extension, and looks each of them up before it     *)
(* runs it.  Openers may stop anywhere and may overlap.  An index is       *)
(* created IF NOT EXISTS and is left out; so are files that have changed.  *)
(***************************************************************************)
EXTENDS Integers, Sequences

CONSTANTS
    Openers,   \* processes that open the store
    OldRows,      \* navigation nodes that are written to it
    OldVersions, \* versions of the schema a project may come with
    MaxOpens   \* bound on the opens of a behaviour

ASSUME MigrationsAssumption == OldVersions \subseteq 0 .. 7 /\ MaxOpens \in Nat

CURRENT_SCHEMA_VERSION == 7

VARIABLES
    backendKind,    \* "sqlite", "postgres" or "pgvector"
    schema,    \* tables: the tables and columns there are, versions: those
               \* recorded, data: the rows of each version of the nodes table
    opener,    \* what each process is doing
    opens,     \* opens so far
    saved,     \* history: rows whose write was acknowledged
    torn,      \* history: the batches an opener stopped in
    overlap    \* history: two openers have been migrating at a time

migVars == <<backendKind, schema, opener, opens, saved, torn, overlap>>

Tables == {"project_profiles", "approvals", "audit_events", "conversation_sources", "aaak_lessons",
           "nodes", "tunnels", "nodes_v2", "tunnels_v2", "diary_entries", "diary_entries_fts",
           "outcome", "error_kind"} \union
          {"pgvector_migrations", "vector", "chunks", "entities", "relations"}
Closed == [phase |-> "closed", todo |-> <<>>]

MigTypeOK ==
    /\ backendKind \in {"sqlite", "postgres", "pgvector"} /\ opens \in 0 .. MaxOpens
    /\ schema.tables \subseteq Tables /\ schema.versions \subseteq 0 .. 7
    /\ schema.nodes \subseteq OldRows /\ schema.nodes_v2 \subseteq OldRows
    /\ \A o \in Openers : opener[o].phase \in {"closed", "migrating", "failed", "refused", "open"}
    /\ saved \subseteq OldRows /\ torn \subseteq 0 .. 7 /\ overlap \in BOOLEAN

-----------------------------------------------------------------------------
(* A statement, and what it does to the schema; Broken when it fails.       *)
Sql(does, on, to) == [does |-> does, on |-> on, to |-> to]
Exists(t) == Sql("create if not exists", t, t)
Create(t) == Sql("create", t, t)
Copy(from, to) == Sql("copy", from, to)
Drop(t) == Sql("drop", t, t)
Rename(from, to) == Sql("rename", from, to)
AddColumn(c) == Sql("create", c, c)   \* ALTER TABLE ADD COLUMN has no IF NOT EXISTS
Record(n) == Sql("record", n, n)

RowsOf(s, t) == IF t = "nodes" THEN s.nodes ELSE IF t = "nodes_v2" THEN s.nodes_v2 ELSE {}
SetRows(s, t, rows) ==
    [s EXCEPT !.nodes = IF t = "nodes" THEN rows ELSE @, !.nodes_v2 = IF t = "nodes_v2" THEN rows ELSE @]

Fails(s, q) ==
    CASE q.does = "create" -> q.on \in s.tables
      [] q.does = "copy"   -> \/ {q.on, q.to} \ s.tables # {}
                              \/ q.to = "nodes_v2" /\ RowsOf(s, q.on) \cap RowsOf(s, q.to) # {}
      [] q.does = "drop"   -> q.on \notin s.tables
      [] q.does = "rename" -> q.on \notin s.tables \/ q.to \in s.tables
      [] q.does = "record" -> q.on \in s.versions
      [] OTHER             -> FALSE

Effect(s, q) ==
    CASE q.does \in {"create", "create if not exists"} -> [s EXCEPT !.tables = @ \union {q.on}]
      [] q.does = "copy"   -> SetRows(s, q.to, RowsOf(s, q.to) \union RowsOf(s, q.on))
      [] q.does = "drop"   -> SetRows([s EXCEPT !.tables = @ \ {q.on}], q.on, {})
      [] q.does = "rename" -> SetRows(SetRows([s EXCEPT !.tables = (@ \ {q.on}) \union {q.to}],
                                              q.to, RowsOf(s, q.on)), q.on, {})
      [] q.does = "record" -> [s EXCEPT !.versions = @ \union {q.on}]

Batch1 == <<Exists("project_profiles"), Exists("approvals"), Exists("audit_events")>>
Batch2 == <<Exists("conversation_sources")>>
Batch3 == <<Exists("aaak_lessons")>>
Batch4 == <<Exists("nodes"), Exists("tunnels")>>
MutBatch5 ==   \* the old tables make room before the copies
    <<Create("nodes_v2"), Create("tunnels_v2"), Drop("tunnels"), Drop("nodes"),
      Rename("nodes_v2", "nodes"), Rename("tunnels_v2", "tunnels")>>
Batch5 == <<Create("nodes_v2"), Copy("nodes", "nodes_v2"), Create("tunnels_v2"), Copy("tunnels", "tunnels_v2"),
            Drop("tunnels"), Drop("nodes"), Rename("nodes_v2", "nodes"), Rename("tunnels_v2", "tunnels")>>
Batch6 == <<Exists("diary_entries"), Exists("diary_entries_fts")>>
Batch7 == <<AddColumn("outcome"), AddColumn("error_kind")>>
Batches == <<Batch1, Batch2, Batch3, Batch4, Batch5, Batch6, Batch7>>

Migrate(n) == Batches[n] \o <<Record(n)>>
Pending[current \in 0 .. CURRENT_SCHEMA_VERSION] ==   \* what is left after that version
    IF current = CURRENT_SCHEMA_VERSION THEN <<>> ELSE Migrate(current + 1) \o Pending[current + 1]

Version(s) == IF s.versions = {} THEN 0 ELSE CHOOSE n \in s.versions : \A m \in s.versions : m <= n

(* A project that an older version of the code left at version n.           *)
Produces(n) == {q.to : q \in {Batches[n][i] : i \in DOMAIN Batches[n]}} \ {"nodes_v2", "tunnels_v2"}
OldSchema(n, rows) ==
    [tables |-> UNION {Produces(i) : i \in 1 .. n}, versions |-> 1 .. n, nodes |-> rows, nodes_v2 |-> {}]

MigInit ==
    /\ backendKind \in {"sqlite", "postgres", "pgvector"}
    /\ \E n \in OldVersions, rows \in SUBSET OldRows :
          /\ n < 4 \/ backendKind # "sqlite" => rows = {}
          /\ backendKind # "sqlite" => n = 0
          /\ schema = OldSchema(n, rows)
          /\ saved = rows
    /\ opener = [o \in Openers |-> Closed]
    /\ opens = 0 /\ torn = {} /\ overlap = FALSE

-----------------------------------------------------------------------------
Migrating(except) == {o \in Openers \ {except} : opener[o].phase = "migrating"}

(* apply_all: file 0 makes the tracking table, file 1 everything else; a    *)
(* file that is recorded is not run again.                                  *)
PostgresFile(n) == <<Sql("file", n, n), Record(n)>>
PostgresPending(s) == (IF 0 \in s.versions THEN <<>> ELSE PostgresFile(0)) \o
                      (IF 1 \in s.versions THEN <<>> ELSE PostgresFile(1))

(* pgvector: the extension, the tracking table whenever the store is opened *)
(* and its record, then file by file, each unless it is recorded.           *)
VectorFiles == <<"vector", "chunks", "entities", "relations">>
UnlessRecorded(n, statements) == <<Sql("check", n, Len(statements))>> \o statements
PreflightVectorExtension == <<Sql("create if not exists", "vector", "host")>>
UpsertOrVerify(n) == UnlessRecorded(n, <<Record(n)>>)
VectorFrom[n \in 1 .. Len(VectorFiles) + 1] ==
    IF n > Len(VectorFiles) THEN <<>>
    ELSE UnlessRecorded(n, <<Exists(VectorFiles[n]), Record(n)>>) \o VectorFrom[n + 1]
VectorPending ==
    PreflightVectorExtension \o <<Exists("pgvector_migrations")>> \o UpsertOrVerify(0) \o VectorFrom[1]

ToRun(kind, s) ==
    CASE kind = "sqlite" -> Pending[Version(s)]
      [] kind = "postgres" -> PostgresPending(s)
      [] kind = "pgvector" -> VectorPending

(* open: connect, then read the version and decide what is to be run.       *)
Open(o) ==
    /\ opener[o].phase \in {"closed", "failed", "refused"} /\ opens < MaxOpens
    /\ opens' = opens + 1
    /\ opener' = [opener EXCEPT ![o] = [phase |-> "migrating", todo |-> ToRun(backendKind, schema)]]
    /\ overlap' = (overlap \/ Migrating(o) # {})
    /\ UNCHANGED <<backendKind, schema, saved, torn>>

SqlStatement(o) ==
    /\ opener[o].phase = "migrating" /\ opener[o].todo # <<>>
    /\ LET q == Head(opener[o].todo) IN
       IF Fails(schema, q)
         THEN /\ opener' = [opener EXCEPT ![o] = [phase |-> "failed", todo |-> <<>>]]
              /\ UNCHANGED schema
         ELSE /\ schema' = IF q.does \in {"file", "check"} THEN schema ELSE Effect(schema, q)
              /\ opener' = [opener EXCEPT ![o].todo =
                    IF q.does = "check" /\ q.on \in schema.versions THEN SubSeq(@, q.to + 2, Len(@))
                                                                  ELSE Tail(@)]
    /\ UNCHANGED <<backendKind, opens, saved, torn, overlap>>

(* The host does not have the extension, or the role may not create it.     *)
PreflightFails(o) ==
    /\ backendKind = "pgvector" /\ "vector" \notin schema.tables
    /\ opener[o].phase = "migrating" /\ opener[o].todo = VectorPending
    /\ opener' = [opener EXCEPT ![o] = [phase |-> "refused", todo |-> <<>>]]
    /\ UNCHANGED <<backendKind, schema, opens, saved, torn, overlap>>

Opened(o) ==
    /\ opener[o].phase = "migrating" /\ opener[o].todo = <<>>
    /\ opener' = [opener EXCEPT ![o].phase = "open"]
    /\ UNCHANGED <<backendKind, schema, opens, saved, torn, overlap>>

(* upsert_navigation_node on an open store.                                 *)
Use(o, r) ==
    /\ backendKind = "sqlite" /\ opener[o].phase = "open"
    /\ "nodes" \in schema.tables
    /\ schema' = [schema EXCEPT !.nodes = @ \union {r}]
    /\ saved' = saved \union {r}
    /\ UNCHANGED <<backendKind, opener, opens, torn, overlap>>

(* The process stops: in the middle of batch n, or with the store open.     *)
BatchOf(todo) == CHOOSE n \in 0 .. 7 : Record(n) \in {todo[i] : i \in DOMAIN todo}
                   /\ \A m \in 0 .. n - 1 : Record(m) \notin {todo[i] : i \in DOMAIN todo}
Stop(o) ==
    /\ opener[o].phase \in {"migrating", "open"}
    /\ torn' = IF opener[o].todo = <<>> THEN torn ELSE torn \union {BatchOf(opener[o].todo)}
    /\ opener' = [opener EXCEPT ![o] = Closed]
    /\ UNCHANGED <<backendKind, schema, opens, saved, overlap>>

MigNext == \E o \in Openers :
    Open(o) \/ SqlStatement(o) \/ PreflightFails(o) \/ Opened(o) \/ Stop(o) \/ \E r \in OldRows : Use(o, r)

MigSpec == MigInit /\ [][MigNext]_migVars

-----------------------------------------------------------------------------
(* A recorded version says that its batch is complete, and an open store    *)
(* has the whole schema, whatever stopped where, as long as no two          *)
(* processes were migrating at a time.  (A process that read the version    *)
(* late redoes a batch that another has finished.)  With pgvector, where    *)
(* every file is looked up when its turn comes, even then.                  *)
RecordedIsApplied ==
    /\ backendKind = "sqlite" /\ ~overlap =>
        /\ \A n \in schema.versions :   \* batch 5 replaces the tables of batch 4
              Produces(n) \subseteq schema.tables \/ (n = 4 /\ 5 \notin schema.versions)
        /\ \A o \in Openers : opener[o].phase = "open" => schema.versions = 1 .. 7
    /\ backendKind = "pgvector" =>
        /\ \A n \in schema.versions \ {0} : VectorFiles[n] \in schema.tables
        /\ \A o \in Openers : opener[o].phase = "open" => schema.versions = 0 .. Len(VectorFiles)

(* Rebuilding the navigation tables never loses a node, wherever it stops:  *)
(* an acknowledged node is in the old table or in the new one.  Two         *)
(* overlapping migrations are the exception.                                *)
NodesSurvive == ~overlap => saved \subseteq schema.nodes \union schema.nodes_v2

(* A store that cannot be opened was stopped inside batch 5 or batch 7,     *)
(* which cannot be run twice, or two processes migrated it at a time; a     *)
(* stop in any other batch, or between a batch and its record in the other  *)
(* batches, is repaired by the next open.                                   *)
OpenFailsOnlyAfterATear ==
    \A o \in Openers : opener[o].phase = "failed" => overlap \/ torn \cap {5, 7} # {}

(* Wherever openers stop, what is recorded is there, no node is lost, and   *)
(* the next open gets through but for the two batches that run once.        *)
MigrationsAreSafe == RecordedIsApplied /\ NodesSurvive /\ OpenFailsOnlyAfterATear
=============================================================================
