# Formal models of the-one-mcp

This directory holds TLA+ models of the MCP broker in `src/crates/`, the TLC
configurations that check them, and proofs that TLAPS checks.  Paths below are
relative to `src/crates/`; `broker.rs` is `the-one-mcp/src/broker.rs` and
`lib.rs` is `the-one-memory/src/lib.rs`.

    tlc -workers 2 -config MCProjectMemory.cfg MCProjectMemory.tla
    tlapm ProjectMemory_proofs.tla

## 1. Inventory

The broker is one asynchronous (tokio) process.  Clients reach it over stdio,
one request at a time, or over HTTP (SSE, streamable), where requests overlap.
Every project has a directory `.the-one/` and rows in a state store (SQLite,
Postgres or Redis); its search index lives in memory, with points in a vector
backend (Qdrant, pgvector, Redis) or without a backend (local).

| Component | State | Operations | Interacts with | What is hard | What makes it correct |
|---|---|---|---|---|---|
| Conversation memory (`broker.rs`) | `memory_by_project`: project -> engine; `conversation_sources`, lessons, audit rows | `memory_search`, `memory_wake_up`, `memory_ingest_conversation`, `ingest_docs`, restart | state store (rows), engine (chunks), watcher (spawns it) | handlers suspend between reading rows, taking the write lock and writing rows; fallback engines replace the present one; a restart keeps the rows only | what search finds is durable or was reported; acknowledged means durable; the engine holds what is persisted |
| Memory palace (`broker.rs`, `storage/*.rs`) | navigation nodes, tunnels, the order Redis keeps of them | upsert, link, sync by an ingest, list by pages, traverse | state store | the parent is judged before the node is written; pages are offsets into a list that changes | parents are of a kind that may contain; a walk skips nothing; a traverse is complete below its cap |
| State-store and pool caches (`broker.rs`) | `state_by_project`, `combined_pg_pool_by_project` | get-or-init of each, `with_state_store`, `shutdown` | every handler; the engine build shares the pool | racing misses, losers, a shutdown in two steps | one store per project, one pool under both roles, no leaked pool |
| Memory engine (`lib.rs`) | `chunks`, `by_id`; points of the backend | tree, single-file and conversation ingest, `remove_by_path`, four search modes | vector backend, knowledge graph | two copies of the index, operations that fail half way, chunk ids that are reused | a chunk has a point for its own text; a point has a chunk; no mode loses what another finds |
| Chunkers (`chunker*.rs`) | none | cut markdown, text and code of six languages | engine | fallbacks in three levels, line ranges, blocks that exceed the limit | no line is lost or cut twice; ranges and headings are those of the lines |
| Watcher (`watcher.rs`, `broker.rs`) | debouncer, bridge thread, channel, task | deliver an event, apply it | engine under the write lock, images | events lag behind the disk; engines are replaced below it | an idle watcher means a current index; an edit gets there |
| Images (`broker.rs`, `image_ingest.rs`) | a point per content, thumbnails | ingest, rescan, remove, clear, search, watcher | vector store, files | one file is read three times; the id of a point is a hash of the content | an ingested image is found; a removed one is not |
| Tools (`broker.rs`, `tool_catalog.rs`) | `catalog.db` (SQLite, for all projects), points, `session_approvals`, approvals in the store, `overrides.json`, `tools_embedded` | `tool_add`, `remove`, `disable`, `update`, `install`, `enable`, `search`, `suggest`, `list`, `info`, `run` | state store, manifests, Qdrant | opening and importing under separate locks; approval and its record are two writes; load-change-save without a lock | tools are never lost; an answer shows tools there are; an allowed action was approved |
| Router and provider pool (`the-one-router`) | health and cooldown per provider, round-robin index | `classify` | HTTP providers | results of overlapping calls arrive in any order | the rules answer only when every provider was cooling down or failed |
| Knowledge graph (`graph*.rs`, `lib.rs`) | graph in the engine, `knowledge_graph.json`, vectors of entities and relations | extract, merge, save, install, search | engine, language model | load-change-save without a lock; the engine is replaced meanwhile | what was extracted is kept and is searched |
| State stores (`storage/*.rs`) | tables or keys; `schema_migrations` | the `StateStore` trait, three times; the migrations | - | SQLite migrations commit statement by statement; Redis writes a record and its index apart | the three stores answer alike; wherever a migration stops the data survive |
| Vector stores (`qdrant.rs`, `pg_vector.rs`, `redis_vectors.rs`) | points, collections, indexes | the `VectorBackend` trait, three times | - | shared servers; an index made for another dimension; keys and sets written apart | what was stored is found, what was deleted is not |
| Configuration (`config.rs`) | `config.json`, its temporary file | load in five layers, `update_project_config`, selection of the backends | everything | two updates share the temporary file | what was acknowledged is what is loaded; no half selection |
| Project state (`project.rs`, `manifests.rs`) | profile row, `fingerprint.json`, `project.json` | `project_init`, `project_refresh` | state store, file system | profile and fingerprint are taken and stored at different times | a cached profile is that of the fingerprint |
| Managed documents (`docs_manager.rs`) | files under `.the-one/docs` and its `.trash` | create, update, move, delete, list, restore, empty | watcher, tree ingest | checks and writes are apart | no document is lost or overwritten unasked |
| Backup (`backup.rs`) | an archive, the directory restored into | backup, restore | state store, files | files are copied one by one while they change | a backup that nothing overlapped is current; a restore is exact |
| Transports and JSON-RPC (`transport/*.rs`) | frames, answers, correlation ids | stdio, SSE and streamable HTTP; dispatch of every tool | all handlers | notifications, malformed frames, answers out of order | each request is answered once; errors can be traced; what is advertised is served |
| Capability registry, UI, adapters, command line | none that changes | - | broker | - | - |

`PROJECT.json` lists the hazards, each at the line where it bites, with the
properties that cover it or the reason none does.

## 2. Modules

| Module | Models | Checked by | Proved in |
|---|---|---|---|
| `ProjectMemory` | one project's engine and conversation rows, handlers as processes | `MCConversationMemory`, part conversations; `MCProjectMemory` | `ProjectMemory_proofs` |
| `StoreCell` | what a get-or-init cache promises: a write-once cell per project | through `ImplementsCell` | |
| `StateStoreCache` | state-store and pool caches, engine builds, shutdown | `MCStateStoreCache` | `StateStores_proofs` |
| `MemoryEngine` | the chunk index and its copy in the backend | `MCServices`, `MCMemoryEngine` | `Services_proofs` |
| `AutoIndex` | EXTENDS `MemoryEngine`: the watcher, and the requests that build, refill and replace the engine | `MCAutoIndex` (2 runs) | `Services_proofs` |
| `ProjectState` | init and refresh of one project root, with overlapping requests, edits and crashes | `MCProjectState` | `ProjectState_proofs` |
| `DocShelf` | what the managed folder promises: atomic operations for clients that keep apart | through `ImplementsShelf` | |
| `DocsStore` | the managed documents and their trash as system calls of overlapping requests | `MCDocsStore` | `DocsStore_proofs` |
| `RowStores` | the upserts, lists and searches of SQLite, PostgreSQL and Redis, statement by statement | `MCStores`, part rows | `StateStores_proofs` |
| `Listings` | what a list of a store shows: rows in an order, those of a filter, the first so many | with `RowStores` and `Navigation` | `StateStores_proofs` |
| `Migrations` | the schema migrations of SQLite, PostgreSQL and pgvector | part migrations | `Stores_proofs` |
| `Navigation` | nodes, tunnels, pages and traverse of the memory palace on the three stores | `MCConversationMemory`, parts graph, pages, tunnels | `StateStores_proofs` |
| `VectorStores` | Qdrant, pgvector and Redis: collections, upserts, deletes, searches, request by request | part vectors | `Stores_proofs` |
| `KnowledgeGraph` | extraction, its file, installation in the engine, the search modes | part entities, `MCKnowledgeGraph` | `Stores_proofs` |
| `Backup` | the archive taken file by file, its restore | part backup | `Stores_proofs` |
| `ImageIndex` | the image points, their files and their watcher | part images | `Stores_proofs` |
| `ToolCatalog` | the catalog, its import, its points, the answers about it, the enabled families | `MCServices`, part catalog | `Services_proofs` |
| `ToolRun` | approvals, audit rows and the router's decision | part runs | `Services_proofs` |
| `ProviderPool` | the pool of model providers | part pool | `Services_proofs` |
| `Configuration` | `config.json`, the layers, the selection of the backends | part config | `Services_proofs` |
| `Chunking` | the chunkers, every file of a few lines | part chunks, `MCChunking` | `Services_proofs` |
| `DataInduction` | no code: lemmas on lists, folds and numbers that come one by one | | itself |
| `JsonRpc` | transports, dispatcher, tools and their arguments | parts front, calls (`MCJsonRpc` gives the frames) | `Services_proofs` |

`MCStores`, `MCServices` and `MCConversationMemory` bring together modules that
share no variable: the variable `part` chooses one of them in the initial state, its actions are the
only ones of the behaviour, and the others stay in one initial state.  A run of one
of them is a run of each of its parts, with the same constants.  Parts graph,
pages and tunnels are three selections of the actions of `Navigation`.
`StateStores_proofs`, `Stores_proofs` and `Services_proofs` hold the proofs of
several modules that share no variable; each theorem is about the specification
of one of them.  `MCStores_proofs` and the end of `Services_proofs` compose them:
a behaviour of `MCStores` or of `MCServices` is one of each part, or leaves it alone.

### ProjectMemory

The state is what a request can observe: `kind` and `indexed` are the entry of
`memory_by_project`, `sources`, `nodes`, `lessons`, `audits` the rows, and `pc`,
`after`, `carry`, `want` the locals of each suspended handler.  A handler is
split where it awaits: `ensure_project_memory_loaded` into the look
(`StartRead`), the listing (`ListSources`), and build and insert
(`InstallHydrated`); `memory_ingest_conversation` into the listing
(`StartIngest`), everything under the write lock (`DirectIngest`,
`FallbackIngest`, `IngestFails`) and the closure (`Commit`).  The write lock is
held from the look at the map to the drop, so no process variable is needed for
it.  `Commit(h, n)` succeeds for the first `n` of its four writes.  Palace,
navigation and lesson features are taken as switched on; a wake-up lists all
rows (its filters and its limit only shrink the list).  `env` is the
deployment: whether requests overlap, which operations clients use, which
faults occur, and which store keeps the rows.  `older` says which row was
written before which: `ListConversationSources`, from which a loader and a
fallback rehydrate, has every row on SQLite and Postgres and all but the oldest
on Redis.  `acked` and `failed` are history.

### StateStoreCache

Every `.read().await` and `.write().await` of the get-or-init pattern is a
step; pools, stores and engines are names.  An engine build holds the write
lock of `memory_by_project` (`memoryLock`) while it goes through the pool
cache.  `InstallLocal` stands for everything that puts an engine without a pool
in the map.  `shutdown` is two steps.

### MemoryEngine

Of a file its version is kept, of a version how many chunks it is cut into; a
chunk id is the path and a position, so `points[f][i]` is the version whose
text the point of chunk `i` of `f` embeds.  The failing variants stop between
the in-memory change and the last batch, at any chunk (batches of 64 in the
code, of 1 here, which has more outcomes).  `dirty` is history: the files whose
last operation answered Err half way.  Only operations on the docs that the
engine has to be told about are here; search is what the properties say.

### AutoIndex

`noticed` is the debouncer, `queue` the channel, `watching` the watcher task.
`Deliver` asks whether the path exists as the bridge thread does, `Process`
applies one event under the lock as the task does, and asks again
(`Vanished`).  `request` is the request that holds the write lock.  `walked`
says that the tree was ingested into the present engine; without it the
watcher makes no promise about files that were there before.

### ProjectState

`owner`, `print` and `rows` are `project.json`, `fingerprint.json` and the
profile rows of the SQLite database; each read and write of them is a step, in
the order of `project_init` and `project_refresh`.  The tree is a version of the
signal files, which the fingerprint covers, and `deploys`, the files that decide
the risk level and that it does not cover.  A request may stop after any step
(`Fails`).  `env` says whether requests overlap, whether the user edits while
they run, restores earlier files, or adds deployment files.  `raced` (an edit
between the profile and the fingerprint of an init) and `contested` (two first
requests bind the root to different ids) are history.

### DocsStore and DocShelf

`disk` maps a place (a document, or a path in the trash) to the text of the file
there.  A request is the sequence of its looks, its `open` and its `write`, or
its `rename`; counting the documents is a walk of several steps.  `open[h]`
follows the file a request has open through renames and removals, as a file
descriptor does.  Paths that the validation rejects, sizes and reads are left
out; a directory that a concurrent clean-up removes is a request that `Fails`.
The refinement takes a write to happen when the file is opened: `Shown` is the
text that will be there once the writer is done.

### RowStores and Migrations

A method of the `StateStore` trait is the sequence of the statements it sends, a
statement the writes that take effect together, and any other broker, a failure
or a stop may come between two.  `family` is the kind of record (source, lesson,
diary entry, approval): the families differ in how they are ordered, filtered and
searched.  `db` has the rows, the sorted set that Redis keeps beside them, and
the FTS5 table of SQLite.  `sure` is history: what an acknowledged call left,
until calls contended for it.  `Migrations` runs the batches of each store with
a stop between any two statements where the store commits each (SQLite) and
between files where it does not; `OldVersions` are the schemas a database may
come with.  `Pending[n]` is the list of statements after version n, `todo` what
an opener has left of it; `torn` and `overlap` are history.

### Navigation

`nodes` and `tunnels` are the tables or hashes, `recent` and `ends` the sorted
set and the sets that Redis keeps of them.  A request judges, then starts with
the sequence of its writes in `nav[b].todo`, which it executes one by one or
leaves half done.  `walk` is a client that follows the cursors of a list while
others write: `touched` are the nodes that were written meanwhile, `moved` says
whether a write `Moves` a row within the order of the list.  `Traverse` is the
breadth-first search of the code, a fold over the turns of its loop, and `Near`
the reference it is compared with.  A query for tunnels answers all it selects or
any `TunnelLimit` of them (`Limited`): its cursor is dropped, and nothing tells
that there are more.  `rekinded` and `linked` are history, and so is `walk.cut`:
a page of the walk had more tunnels than that.

### VectorStores

`points` has the points of each space: a collection, a table or an index.
`shared` says that two projects have one, because their names sanitise to the
same or because Redis was configured with one index name.  `made` is the
dimension a space was created with.  No request to Qdrant asks it to wait: it
answers Ok to what it has accepted (`Accepting`) and applies that later
(`Apply`), in its order, or fails it and tells nobody (`Lose`).  `points` is what
the accepted operations make of a space, `unapplied` what the space was before
each of those that are not applied yet, so that searches read the oldest of
these (`Applied`).  `kept`, `foreign`, `hurt` and `lost` are history.

### KnowledgeGraph

An entity is its normalised name, a relation a pair of names.  `extractor[x]` is
the state of one `graph_extract`: what it has loaded, what the model has found
so far, and whether the file is written and read back.  `builder` is a rebuild
of the engine that has read the file and not yet taken the lock.  The file may
be absent, whole or torn, since it is written in place.  `engine.local` marks an
engine that was made without the file (`BuildsLocal`): the one of a first search,
and the one that takes the place of an engine whose store failed.  It has an
empty graph until an extraction installs one.  The four search modes are
operators of the state, of the model's reply, of what the store ranks and of the
number of hits asked for; each is the set of its answers, since the scores decide
which chunks are among the first `top_k` (`Top`).  The hybrid mode cuts the union
of its two halves at `top_k`.

### Backup, ImageIndex

A file of `Backup` is its version; the database is `Db` with the log `Wal`, and
`ReadBack` is what SQLite makes of a pair that need not belong together.  A file
is opened and its size taken (`AppendOpens`), then read to its end
(`AppendStreams`).  One that is changed in place between the two is archived in no
version (`Mixed`), and if its size changed the entry is `damaged`: what the header
announces is not what follows, and whoever unpacks the archive may pass over the
entries behind it (`UnpackPassesOver`) or take what it reads there for the end.
The directory it is unpacked into grows by an entry a step; the manifest is the
last one, so that it is judged when all the others have been unpacked
(`RestoreEnds`).
In `ImageIndex` the point of a content names one file and embeds the bytes that
were there when the model looked, which may be later ones; `settled` is history,
what the last request about a picture left when nothing overlapped it.

### ToolCatalog, ToolRun, ProviderPool

`caller[c]` goes through the look at `catalog`, the open, the count, the import
of one file after the other and the store of the handle, as `ensure_catalog`
does under separate locks, and then through the statements of its request.
`families` is `overrides.json`, with the load and the save of `tool_enable` apart.
`ToolRun` splits `tool_run` where it awaits: the decision, the session approval,
the closure on the store, the audit row.  In `ProviderPool` a request fixes its
order of providers when it begins (one of `OrdersOf`: a sort by latency leaves
providers with equal ones in any order) and records each outcome under the lock
of that provider; time is a counter that cooldowns are compared with.

### Configuration

`content` maps inodes to texts, `configFile` and `tmpFile` the two names to
inodes, so that two updates which write one temporary file can mix their texts
and rename each other's.  A setting stands for all that are read alike: a
string, a flag of the memory palace, a limit, one that is in the file only.
`limits`, `vector_pgvector` and `state_postgres` are `Blocks`: a layer that gives
one of their settings gives all of them, the others with their defaults
(`Filled`), and replaces the block below it as a whole (`Over`).  `state_redis` is
`Unread`: an update keeps it in the file and `Merge` does not copy it.
`LoadConfig` is the five layers in order with the clamps, `FromEnv` the selection
of the state and vector stores.  A `config.json` may be there at the beginning.

### Chunking

The file grows by a line a step; a line is what the chunkers can tell of it (its
size, its fence, its braces, whether it begins an item).  `ChunkFile` is
`chunk_file` with its dispatch, its fallbacks and its splitters; the properties
compare it with the file.  Each loop over the lines is a record of its locals
taken `Through` the lines of its range by the body of the loop (`MarkdownLine`,
`TextLine`, `ScanLine` and the like); what the code does after the
loop is applied to the last record.  `rust_ts` is Rust with tree-sitter, `rust` the
regular expressions; `java` stands for every language cut by tree-sitter only.

### JsonRpc

A frame is what the reader can tell of it: garbled, without `method`, with or
without `id`, the call and the arguments given.  stdio takes a line when the
last one is answered, HTTP runs every post alone; a broken pipe makes a
connection `deaf`, a line that is not UTF-8 ends it.  The broker answers a
success or an error of `ErrorKinds`.  `docs.save` is its update and its create,
with other posts between them.

## 3. Runs

| Run | Size | Shows |
|---|---|---|
| `conversation_memory` | 2 handlers, 2 transcripts, 4 deployments; 2 brokers and a reader, 3 nodes, 3 requests; 1.9 million states | rows and engine agree through failures, fallbacks, races and restarts; the palace keeps its kinds, traverses find what is near, pages skip nothing |
| `project_memory_restart` | one at a time, only restarts | violation: after a restart an ingest that comes first leaves the persisted conversations out (`LoadedIsComplete`) |
| `state_store_cache` | 3 handlers, 2 projects, 3 pools, 2 stores, 418 thousand states | one store per project, shared open pool, no leak |
| `memory_engine_remove` | a doc and a transcript, versions of 0, 1 and 2 chunks | violation: a removal that answers Ok leaves points |
| `auto_index` | a doc, a transcript, 2 versions, 4 edits, every fault, 272 thousand states | an idle watcher means a current index; edits get there |
| `auto_index_search_first` | one edit, no fault | violation: an engine loaded by a search has no watcher |
| `project_state` | 2 requests, 2 ids, 3 versions, 3 environments, 3.0 million states | a saved fingerprint has a profile; a reused profile is that of the fingerprint |
| `docs_store` | 2 requests, 2 or 3 documents, 2 texts, a limit of 1, 3 environments, 2.0 million states | atomic for clients that keep apart; no torn document; the limit nearly kept |
| `stores` | six parts, 2.5 million states | all that is kept in stores, see below |
| `services` | eight parts, 1.4 million states | all the broker does besides storing, see below |
| `graph_search` | one engine, its vectors and its graph | violation: the chunks that the vectors of entities find are dropped (`SemanticHitsCount`) |
| `chunking_bodies` | Rust files of at most four lines | violation: lines of a body are in no chunk (`BodiesAreIndexed`) |

### Bounds

Two handlers meet in every pair of operations, which is all the races of
`ProjectMemory` need (one reads, one writes); the proofs cover the rest.  In
`StateStoreCache` three handlers let two lose a race to a third, a second
project shows that keys do not mix.  Versions of 0, 1 and 2 chunks cover a file
that grows, shrinks and has no chunk.  Four edits let a file be written,
rewritten, deleted and written again while its first event is still queued;
three versions (`MaxVersion`) let an edit fall before and another one into a
request; two requests race for a document, three documents let the limit of one
be exceeded by more than the property allows; `MaxEdits` bounds the queue.

In `MCStores`: two brokers, two keys and three writes (`MaxTick`) let a write
fall between the two halves of another and a third one follow; a default limit
of 2 and a diary window of 1 put a record behind the window.  Old schemas of
versions 0, 4 and 6 stand before the first batch and before each of the two that
cannot be repeated; three opens let a stop be followed by an overlap.  Two projects, points, engines and
dimensions let each disturb the other.  Three extractions or rebuilds
(`MaxSteps`), one chunk each; `MinFetch`, 10 in the code, is 3, since what
matters is whether it is below or above the three-fold and the two-fold of the hits asked
for; one commit, one edit, one backup and one restore,
which suffice to fall between any two files; three pictures, one of them
watched, with two contents, so that two have the same, and two changes
(`MaxShots`) and requests (`MaxAsks`).

In `MCConversationMemory`: one of the two transcripts lies below the docs root
(`UnderDocs`); three nodes are a drawer, a closet and a room; pages of one
node, a cap of three and one tunnel (`TunnelLimit`) make every list and traverse
meet its limit.  In part graph two brokers send every write there is; in part
pages they write drawers, closets and a tunnel while a client reads, so that the
second half of one write can come after a whole other one; in part tunnels they
write a whole palace and two tunnels, one more than a page shows.  The four
deployments are stdio on SQLite and on Redis, where only the backend, a build and
the store fail, concurrent clients with sound models on Postgres, and concurrent
clients with every fault on Redis.  Three requests (`MaxWrites`) are two that race
and one before them.

In `MCServices`: three tools, two of them in the files of the catalog, and three
requests or restarts (`MaxToolCalls`); two families of which one may be enabled;
two actions, of which one needs an approval, two stores, four runs (`MaxRuns`);
two providers, cooldowns of 1, 2 and 3 ticks, a clock up to 2 (`MaxClock`); five
settings: a string, a flag, two limits that are one block (`Blocks`), and one of
`state_redis` (`Unread`), two values of which one is the default of the block
(`Default`) and the other is below what a limit may be, two updates (`MaxUpdates`); files of at
most four lines (`MaxLines`) in eight grammars with a chunk limit of two tokens,
so that blocks exceed it; two connections with a script of frames (`MCScript`)
for the framing and every call with every argument left out (`MCOffers`) for the
dispatcher, over a transport that answers in order and one that does not.

Clients and names are symmetric where no liveness is checked.  Deadlock is not
checked where the bounds on requests let a behaviour end; a palace whose requests
are used up rests (`AtRest`), so that the conversations are checked for it.

### Properties

* `SearchableIsAccounted`, `AckedIsDurable`: rows and engine agree through
  failing writes, fallbacks, races and restarts.  `SequentialMissesOnlyTheOldest`:
  with stdio clients that only ingest conversations the fallback loses nothing,
  except that on Redis it loses the row that was written longest ago;
  `OnlyLateLoadersForget`: with a healthy backend and any concurrency only the
  loader that inserts blindly does, and a docs ingest forgets no more than what
  has its root as a prefix.
* `ImplementsCell`, `RolesShareThePool`, `NoPoolLeak`.
* `HeldIsSearchable`, `SingleLeavesNoOrphans` (in `services`): no chunk without
  its point, no orphan after single-file operations.
* `CaughtUpIsCurrent`, `WatchedDocsAreReflected` (liveness).
* `SavedPrintHasProfile`, `ReuseMatchesFingerprint`: profile and fingerprint are
  two writes to two stores; the second property names the circumstances in which
  they agree (`Orderly`), the rest of the runs' environments break it.
* `NoTornDocs`, `LimitIsNearlyKept`, `ImplementsShelf`.
* `StoresAgree`, `CreationTimeIsKept`: what was acknowledged is read from each of
  the three stores, and an edit of a diary entry keeps its creation time; the
  two properties name the cases of Redis where they do not.
* `MigrationsAreSafe`: what is recorded is applied, no node is lost, and the next
  open gets through unless an opener stopped in batch 5 or 7 of SQLite or two of
  them overlapped.
* `ParentsAreTyped`; `TraverseIsComplete` and `WalkSkipsNothing`: every node that
  is near is visited and no node is skipped by a walk; every tunnel that was
  acknowledged is shown, unless more than `TunnelLimit` were asked for.
* `StoredIsFound`, `DeletedIsGone`: across shared servers and other dimensions,
  once what was accepted is applied, and unless Qdrant has failed what it
  had accepted (`lost`).
* `GraphIsKept`: what extractions found is in the file, whatever engine took the
  place of another, and in the engine unless that was made without the file.
  `SearchesFind`: a search for one end of a relation answers with the chunks of
  both, and the hybrid mode with what each of its halves finds, or each with as
  many chunks as were asked for.
* `BackupsAreFaithful`: which files an archive has in which version although they
  change meanwhile, when the database in it is whole, and what a restore leaves
  behind a damaged entry.  `ImagesAreFound`.
* `SearchIsTrue`, `ToolsAreKept`, `FamiliesAreBounded`; `ApprovalsHold`,
  `AnsweredIsAudited`; `RulesAreTheLastResort`.
* `ConfiguresAsAsked`: `UpdatesAreSeen` for the file (what was acknowledged last is
  loaded, where an update of one setting of a block sets the others of that block
  and nothing else), `SelectionIsSound` for the environment.
* `TextIsChunked`, `ChunksAreLabelled`.
* `AnswersAreSound`: `AnswersFit` (each request once, by its id),
  `ErrorsAreTraceable` (correlation ids), `AdvertisedIsServed` (the schemas of
  `tools/list`), `SaveIsUpsert`.
* `StoresTypeOK` and `ServicesTypeOK` are the type invariants of the composed
  modules; the modules that are not composed are proved to keep theirs.

### Fairness

Only `AutoIndex` has liveness; the other specifications state no fairness.
`Deliver` is weakly fair: the bridge thread is a thread of its own that blocks on nothing but its channel.  The steps of a
request (`Finish`) are weakly fair: a request that holds the lock ends.
`Process` is strongly fair: the task is enabled only while the lock is free, and
tokio's `RwLock` queues waiters first come, first served, so that requests
cannot keep it out for ever.  Nothing is assumed of edits, requests, restarts.

## 4. Proofs

| Theorem | Property | Argument |
|---|---|---|
| `ProjectMemory_proofs!TypeCorrect` | `TypeOK` | inductive with the assumptions on `UnderDocs` and `Deployments` |
| `Accounted`, `Durable` | `SearchableIsAccounted`, `AckedIsDurable` | what a handler has listed is persisted and rows are never deleted, so a rehydrated engine holds rows and the handler's own transcript only |
| `SequentialMissesLittle` | `SequentialMissesOnlyTheOldest` | with one handler active at a time its listing is the present one, which lacks at most the row that all others were written after; while the engine lacks it, an ingest of another transcript only makes that one newer |
| `LateLoaders` | `OnlyLateLoadersForget` | step by step, from type correctness and the reach of each kind of engine |
| `StateStores_proofs!CacheImplementsCell` | `ImplementsCell` | every step is a `Get`, a `Release`, an `Empty` or a stutter of `StoreCell` |
| `PoolsDoNotLeak`, `RolesShare` | `NoPoolLeak`, `RolesShareThePool` | `SInv`: racers own their pool, the cached pool is open and builders hold the cached one until a shutdown |
| `ParentsStayTyped` | `ParentsAreTyped` | `NavInv`: each write of a node still pending is typed already, or its parent is written before it in the same request; this is stable, because nodes are never deleted and those that change kind are remembered |
| `WalksSkipNothing` | `WalkSkipsNothing` | `PagesInv`: a row the client was not told of, and that was left alone, has at least `offset` rows before it.  A page tells all that were at `offset` to `offset + limit`, and a write only puts rows before it, unless it `Moves` one; an acknowledged tunnel is at both of its ends on Redis, whose sets hold only tunnels at their node, and where no more than `TunnelLimit` are asked for the answer is all of them (`LimitedIs`, `TunnelsAnswered`).  The lemmas about `Listings` say that what `InOrder` and `Among` give has each row once, at the place its predecessors count to |
| `PalaceIsTyped` | `NavTypeOK` | `BoundsInv`: a request records its line of the audit log last, so that the lines and the requests that will still record one are not more than the requests there were; pending tunnels have sorted ends |
| `TraversesAreComplete` | `TraverseIsComplete` | from `NavInv` and `StoreInv` (what `PagesInv` says of the store), by induction over the pages of a node's children and over the turns of the loop: what is visited or queued is near, each once and in the order of its depth, and, up to `TunnelLimit` of them, has the tunnels between those visited (`TunnelsAnswered`); a loop that ends below the cap has seen all that is near |
| `StoresAlwaysAgree` | `StoresAgree` | `RowInv`: while something is certain of a record no call is at it, its row is what was acknowledged and the sorted set of Redis has its time; a call that is alone at a record has done what its list no longer has (`CallOK`); no two calls have one time, so that the order of a list leaves no choice |
| `CreationTimeIsAlwaysKept` | `CreationTimeIsKept` | step by step from `RowInv`: an upsert leaves the creation time of the row it finds, and Redis misses that row only behind its window or when another call put it there |
| `Services_proofs!HeldFilesAreSearchable` | `HeldIsSearchable` | inductive with `TypeOK`: a failing step marks the file dirty, and every success writes all ids of the new version |
| `NoOrphansAfterSingle` | `SingleLeavesNoOrphans` | from `TypeOK`: the delete comes first, then only ids of the new version are written |
| `IdleMeansCurrent` (and `WatcherTypeCorrect`) | `CaughtUpIsCurrent` | `WatchInv`: without a watcher there are no events, with one there is an engine; of a file that is not noticed and whose tree was walked, the last queued event says whether it is there, or none is queued and the engine holds what is on disk |
| `ProjectState_proofs!PrintsHaveProfiles` | `SavedPrintHasProfile` | what each request carries at each step (`LocalsInv`) and who may be past the check (`OwnerInv`) |
| `ReuseIsConsistent` | `ReuseMatchesFingerprint` | nothing stored is newer than the tree (`NotAhead`); then one invariant for a user who waits (`QuietInv`) and one for sequential requests (`SequentialInv`, `UnracedInv`) |
| `DocsStore_proofs!OnlyFaultsTear` | `NoTornDocs` | inductive: a torn file has a writer, and renames move the two together |
| `StoreImplementsShelf` | `ImplementsShelf` | what a request has checked stays so until it acts (`ApartInv`); each open, rename, removal and half-done write is one operation of the shelf, all else a stutter |
| `LimitIsNearlyRespected` | `LimitIsNearlyKept` | `CreatorsInv`: when the documents are `k` or more above the limit, the requests that may still create one after having missed more than `k` of them are at most all handlers but `k` + 1; a request that starts to count then finds the folder full |
| `Services_proofs!ApprovalsAreRespected` | `ApprovalsHold` | `RunInv`: an approval in force was asked for, one that was acknowledged is in force, and each call carries what it has seen of the two at its step |
| `AnswersAreAudited` | `AnsweredIsAudited` | a call that is answered has written its row before; the rules and the providers decide alike |
| `AnswersAreTrue` | `SearchIsTrue` | every answer is filtered by the table, and `inventory` only holds what was found on the host |
| `FamiliesStayBounded` | `FamiliesAreBounded` | `ToolInv`: unless two overlapped, the one loader holds all the families there are; each save is checked against the limit |
| `ToolsStay` | `ToolsAreKept` | step by step: imports only add, a removal deletes a user tool |
| `RulesAreAlwaysTheLastResort` | `RulesAreTheLastResort` | `Partition`: the providers still to look at, those a request has picked, and those that were cooling down are all of them; picking, sorting and trying move each from one set to the next |
| `Stores_proofs!StoredIsAlwaysFound`, `DeletedIsAlwaysGone` | `StoredIsFound`, `DeletedIsGone` | `VecInv`: what each call has sent is there and what it has still to send is in its list (`PutInv`, `GoneInv`); calls that meet know it or have hurt the points they share (`MeetInv`); on Redis a hash is in the set of its source, will be, or was hurt (`MemberInv`).  On Qdrant all of this is about `points`, what was accepted, which is what searches read once `unapplied` is empty; what a call has sent is there or in `lost`, and a later operation on it that is accepted takes it out of `lost` |
| `TheGraphIsAlwaysKept` | `GraphIsKept` | `GraphInv`: without mishaps extractions and rebuilds come one after the other, the file is torn only while one of them saves it, and each carries the graph of the file with what it has found; an engine has the graph of the file, or is `local` and has none.  An extraction starts from the file and not from the engine, so that an empty one is never saved over it |
| `SearchesAlwaysFind` | `SearchesFind` | both ends of a relation are entities of every graph there is, in the file, in the engine and on its way between them; of the first `k` of a set, that they are all of it or `k` (`TopIsAllOrFull`); and that the hybrid mode fetches at least what the others do, so that what is cut from its union was cut by `top_k` |
| `BackupsAreAlwaysFaithful` | `BackupsAreFaithful` | `BackupInv`: each entry has a version between that of the beginning and the present one or its file was touched while it was read, each file that was passed is an entry or has its reason, and a damaged entry is of a file that was touched; the log is empty or ahead of the database, which a checkpoint alone changes; a restore has put in place what it has read and nothing else, and has passed over nothing that is not behind a damaged entry |
| `ImagesAreAlwaysFound` | `ImagesAreFound` | `ImageInv`: work that is alone on a picture is the only work on it, and nothing is certain of a picture while there is work on it |
| `MigrationsAreAlwaysSafe` | `MigrationsAreSafe` | `MigInv`, by store.  SQLite: the recorded versions are the first ones; the opener that moves is in the batch after the last of them, the list it has left says after which statement, and unless 5 or 7 was torn that says which tables there are (`Untorn`); nodes are in the old table, in the new one, or in both.  PostgreSQL: what an opener has still to record is not recorded.  pgvector: every opener has what it has passed by, even when openers overlap |
| `Services_proofs!AlwaysConfiguredAsAsked` | `ConfiguresAsAsked` | `ConfInv`: until two updates overlap, `config.json` is whole and has what was acknowledged, and the one update there is has merged its change into that, block by block; the inodes in use are never more than the updates and the file that was there before; the accepted selections are found by cases |
| `AnswersAreAlwaysSound` | `AnswersAreSound` | `RpcInv`: over stdio the frames are done in order and what `docs.save` missed is still missing (`OrderInv`); every answer is to a frame that is done, with its id; a correlation is below the counter, which only grows |
| `FilesAreChunked` | `TextIsChunked` | for each loop, over the lines it has read: what is done is `Laid` in the order of the file, what is open follows it, and together they hold the lines read so far (`Opened`, `Within`); of code, that the items found lie apart and in order (`ItemsLaid`), of which each yields its own lines |
| `ChunksAreAlwaysLabelled` | `ChunksAreLabelled` | `SectionStates`: the hierarchy after a line is made of the headings above it which no later one of its level or less follows; text is flushed before it reaches the limit (`Small`) |
| `MCStores_proofs!StoresAreTyped` | `StoresTypeOK` | `PartsBehave`: a behaviour of the composition is one of each part or leaves it alone; then from the invariants of the parts, with the statements of a migration typed by induction over the versions |
| `Services_proofs!ServicesAreTyped` | `ServicesTypeOK` | `ServicesBehave`, the same for the eight parts of `MCServices`, and the types in their invariants |

They hold for any number of handlers (finite in `DocsStore`), files, versions,
stores, tools, families, nodes, projects, providers and connections; points,
pictures, chunks, records and nodes are finite sets.  The
other assumptions are those the modules state with `ASSUME`, which TLC
evaluates.  `AnswersAreAlwaysSound` is about any script in which only requests
have an id and only a `tools/call` names a tool (`IsLine`), as in those of
`MCJsonRpc`.  No part of a run can disturb
another, so that a theorem of a component's
specification is one of the run.

Induction over data is done by the least counterexample.  The library's
induction theorems take an operator, which no installed prover instantiates, but
that every set of numbers has a least one needs none (`LeastNumber` of
`DataInduction`), and with it a set that has 0 and the successor of each of its
numbers has all of them (`CountingUp`); each induction names the set of numbers
for which its claim holds.
The same module shows that a fold over a list exists and has the value of its
last step (`FoldExists`), that a finite set of numbers has a largest one
(`MaxIs`), and that a walk over pages has its pages (`PagesExist`).  The loops of
`Chunking` are a recursive function over the lines of their range (`Through`):
`StepsExist` gives it its values, `StepsStay` carries an invariant of the loop's
body through it.  Where the domain of a recursive function is a few numbers
(`Pending`, `VectorFrom`) it is given by cases.

Model-checked only is `WatchedDocsAreReflected`: liveness under fairness is out of
the prover's reach.

## 5. What the models show of the code

Where a document of the repository says otherwise and a run shows it, the entry
is under `findings` in `PROJECT.json`: `project_memory_restart`,
`memory_engine_remove`, `auto_index_search_first`, `graph_search` and
`chunking_bodies`.  The following is in the models too; the properties name these
cases as their exceptions.

* On Redis the node and its time in the sorted set are two writes.  When the
  second of an older request comes after both of a newer one, it sets the time
  of the node back: another node, which nobody touched, slips onto a page that a
  client has read already, and the client skips it.
* Redis casts the limit `usize::MAX` of the hydration to -1 and leaves out the
  oldest source (`redis.rs:551`): an engine that is rebuilt does not find that
  conversation, although its row is there.  The unfiltered list of tunnels of
  Redis is empty.
* A stop inside batch 5 or 7 of SQLite leaves a database that no later open can
  migrate.
* A node with children may be given another kind; its children stay.  Of more
  than `NAVIGATION_TUNNELS_MAX` tunnels a page and a traverse show that many and
  do not tell that there are others (`broker.rs:3568`, `3700`).
* Requests to Qdrant do not carry `wait=true` (`qdrant.rs:288`, `393`, `520`, `739`,
  `886`): after an Ok the points may be missing, or be found still, until Qdrant
  has applied the operation, and one that it then fails, such as a put of
  vectors of another dimension, is reported to nobody.
* Point ids of pgvector are not scoped by project, and project ids that sanitise
  to one share a collection.  A collection that exists is accepted with any
  dimension; Redis then does not index the points.  A delete on Redis that races
  with an upsert leaves hashes that no later delete finds.
* Overlapping extractions lose one another's entities; a torn graph file counts
  as an empty graph and the next extraction saves over it.  The engine that a
  first search or wake-up builds (`broker.rs:2220`), and the one that replaces an
  engine whose store failed an ingest (`2616`, `2886`), has no graph although there
  is a file, and its graph searches find nothing until an extraction; the file
  stays as it is, since an extraction loads it first (`graph_extractor.rs:112`).
* The hybrid mode cuts the union of its halves at `top_k` (`lib.rs:1135`), so that a
  chunk that one mode alone would return may be missing.
* Two updates of the configuration share `config.json.tmp`, although
  `docs/guides/configuration.md` says it is written atomically.  A malformed
  boolean variable unsets the setting instead of being ignored.  `limits`,
  `vector_pgvector` and `state_postgres` replace each other as whole blocks
  (`config.rs:922`, `1473`, `1533`): an update that names some limits sets those it
  leaves out to their defaults, and the form of the embedded UI leaves out the
  four limits on images.  `state_redis` is documented as read from `config.json`
  (`config.rs:154`, `599`), but `merge` never copies it.
* A backup copies `state.db` and its log one after the other; a backup that
  fails leaves an archive without a manifest, which restores with a warning.
  `include_qdrant_local` is ignored: segments of a local Qdrant are archived always,
  where `backup.rs:18` says only on demand.  A file that changes in place while it
  is read is archived in a mixture of its versions, and one whose size changes
  spoils what follows it in the archive, while the backup answers Ok.  The manifest
  is said to be validated before anything is unpacked (`backup.rs:25`), but it is
  the last entry and is judged when everything has been unpacked.
* Images with the same bytes share a point, which names the last; an edit of
  an image leaves the point of its former content; a rescan skips hidden
  directories, `.the-one/images` among them, and removes nothing; `max_images`
  bounds one rescan.
* `tool_add` of an id of the catalog turns it into a user tool, and `tool_remove`
  then deletes it.  An import that failed is not repeated while the table has
  rows.
* A session approval is in force even when its request answered an error, since
  the set is written before the store is asked.
* Restores and moves do not look at the limit on documents, and an update opens a
  file anew that was deleted after it looked, so that overlapping updates exceed
  the limit further than overlapping creates.  A refresh does not
  see new deployment files.  Of two overlapping `tool_enable` one is lost.
* Frames with `id: null` are dropped without being executed.  A line of stdio
  without `method` is answered as a parse error without its id, and one that is
  not UTF-8 ends the loop.  Errors of tools have one code.  `docs.save` falls back to a
  create on any error of the update.  The enumeration that `tools/list` gives for
  `maintain` lacks some of the actions that are served.
* `code` chunks of the regular expressions lose bodies (the finding); those of
  tree-sitter keep no prelude; a part of a split item carries the range of the
  whole item.

## 6. Plan

Done: all modules of section 2 with their runs, and the theorems of section 4.
What is left, in the order of its worth:

1. `DocsStore` composed with `AutoIndex`: the managed operations as the source of
   the watcher's events, with moves and restores.
2. The combined Redis client cache, which is keyed by the project's id alone.
3. That a chunk of markdown or of code keeps to the limit, but for a single line:
   no property states it yet.

## 7. Not modelled

* Inference: embedding, reranking, OCR, the extraction prompts and the language
  models; scores and the order of hits.  They are pure computations, or answers
  from outside that the models choose freely.
* Wire formats, TLS, HTTP framing, pragmas and connection setup of the clients;
  HNSW parameters.  The SSE channel opens and never sends anything.
* The text of transcripts, lessons, chunks and descriptions, except for the
  lines that chunkers cut by.
* `the-one-core/src/backup.rs`, an older backup that only the embedded UI calls;
  it copies the database without its log.
* The capability registry, a catalogue that is loaded once; the embedded UI, the
  adapters and the command line, which forward to the handlers that are modelled.
