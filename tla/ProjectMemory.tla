---------------------------- MODULE ProjectMemory ----------------------------
(***************************************************************************)
(* The conversation memory of one project in the MCP broker: the volatile  *)
(* memory engine kept in memory_by_project, the durable conversation       *)
(* sources kept in the state store, and the request handlers that relate   *)
(* the two.  Handlers are asynchronous and interleave at their awaits; the *)
(* write lock of memory_by_project makes everything done under it one step *)
(* here.  A restart loses the engine and the handlers and keeps the store. *)
(* Markdown chunks, search ranking and palace filters are abstracted away: *)
(* of an engine only the set of conversations it can find is kept.         *)
(***************************************************************************)
EXTENDS Naturals

CONSTANTS
    Handler,     \* request slots of the transport
    Conv,        \* conversation transcripts, named by their canonical path
    UnderDocs,   \* transcripts whose path has the ingested docs root as prefix
    Deployments  \* the ways the broker may be run, see Deployment

FaultKinds ==
    {"restart",  \* the broker process stops and starts again
     "build",    \* build_memory_engine fails
     "backend",  \* the configured vector backend rejects a delete or upsert
     "local",    \* the local engine cannot be built or rehydrated
     "docs",     \* walking the docs tree fails with an i/o error
     "store"}    \* the state store fails a read or a write

RequestKinds == {"search", "wake_up", "ingest", "docs"}

ASSUME UnderDocsAssumption == UnderDocs \subseteq Conv
(* A deployment serves one request at a time (stdio) or many (HTTP), has    *)
(* clients that call some of the operations, meets some of the faults, and  *)
(* keeps its rows in one of the stores.                                     *)
Deployment ==
    [sequential: BOOLEAN, requests: SUBSET RequestKinds, faults: SUBSET FaultKinds,
     store: {"sqlite", "postgres", "redis"}]

ASSUME DeploymentsAssumption == Deployments \subseteq Deployment

VARIABLES
    env,      \* the deployment, fixed when the broker is installed
    kind,     \* the engine in the map: none, configured backend, or local
    indexed,  \* conversations whose chunks the engine holds
    sources,  \* rows of conversation_sources
    older,    \* pairs of rows, the first of which was written before the second
    nodeRows,   \* conversations whose navigation nodes were written
    lessons,  \* conversations whose AAAK lessons were written
    audits,   \* conversations whose ingest was audited as ok
    pc,       \* where each handler is suspended
    after,    \* where a reader continues once the engine is loaded
    carry,    \* the transcript each ingest handler carries, {} for readers
    want,     \* conversation sources each handler has listed
    acked,    \* history: conversations whose ingest was answered Ok
    failed    \* history: ingests answered Err after touching the engine

engineVars == <<kind, indexed>>
storeVars  == <<sources, older, nodeRows, lessons, audits>>
handlerVars == <<pc, after, carry, want>>
vars == <<env, engineVars, storeVars, handlerVars, acked, failed>>

PC == {"idle",        \* no request
       "listing",     \* ensure_project_memory_loaded saw no engine
       "building",    \* ... has listed the sources, builds a local engine
       "searching",   \* memory_search is about to read the engine
       "recalling",   \* memory_wake_up is about to list its sources
       "waking",      \* ... has listed them, reads their documents
       "ingesting",   \* ingest has listed sources, waits for the write lock
       "committing"}  \* ingest has dropped the lock, writes the store

TypeOK ==
    /\ env \in Deployments
    /\ kind \in {"none", "configured", "local"}
    /\ indexed \in SUBSET Conv
    /\ sources \in SUBSET Conv
    /\ older \in SUBSET (sources \X sources)
    /\ nodeRows \in SUBSET Conv
    /\ lessons \in SUBSET Conv
    /\ audits \in SUBSET Conv
    /\ pc \in [Handler -> PC]
    /\ after \in [Handler -> {"idle", "searching", "recalling"}]
    /\ carry \in [Handler -> SUBSET Conv]
    /\ want \in [Handler -> SUBSET Conv]
    /\ acked \in SUBSET Conv
    /\ failed \in SUBSET Conv

Init ==
    /\ env \in Deployments
    /\ kind = "none"
    /\ indexed = {}
    /\ sources = {} /\ older = {} /\ nodeRows = {} /\ lessons = {} /\ audits = {}
    /\ pc = [h \in Handler |-> "idle"]
    /\ after = [h \in Handler |-> "idle"]
    /\ carry = [h \in Handler |-> {}]
    /\ want = [h \in Handler |-> {}]
    /\ acked = {}
    /\ failed = {}

-----------------------------------------------------------------------------
(* Request admission, and the end of a request, which drops its locals.     *)

(* serve_pipe awaits dispatch before it reads the next line; the HTTP       *)
(* transports dispatch every request as it arrives.                         *)
CanStart(h, request) ==
    /\ request \in env.requests
    /\ pc[h] = "idle"
    /\ env.sequential => \A g \in Handler : pc[g] = "idle"

Goto(h, to) == pc' = [pc EXCEPT ![h] = to]

Finish(h) ==
    /\ Goto(h, "idle")
    /\ after' = [after EXCEPT ![h] = "idle"]
    /\ carry' = [carry EXCEPT ![h] = {}]
    /\ want' = [want EXCEPT ![h] = {}]

(* memory_search and memory_wake_up start with ensure_project_memory_loaded: *)
(* the engine is looked up under the read lock, which is released at once.   *)
StartRead(h, next) ==
    /\ IF kind = "none"
         THEN Goto(h, "listing") /\ after' = [after EXCEPT ![h] = next]
         ELSE Goto(h, next) /\ UNCHANGED after
    /\ UNCHANGED <<env, engineVars, storeVars, carry, want, acked, failed>>

StartSearch(h) == CanStart(h, "search") /\ StartRead(h, "searching")
StartWakeUp(h) == CanStart(h, "wake_up") /\ StartRead(h, "recalling")

(* list_conversation_sources(usize::MAX).  SQL answers every row; Redis     *)
(* casts the limit to -1 and asks for the ranks 0 to -2, newest first: all  *)
(* rows but the one written longest ago.                                    *)
ListConversationSources ==
    IF env.store = "redis" THEN {c \in sources : \E d \in sources : <<d, c>> \in older}
    ELSE sources

ListSources(h) ==
    /\ pc[h] = "listing"
    /\ Goto(h, "building")
    /\ want' = [want EXCEPT ![h] = ListConversationSources]
    /\ UNCHANGED <<env, engineVars, storeVars, after, carry, acked, failed>>

(* The engine is built and hydrated without any lock; every listed source   *)
(* is ingested into it, and the finished engine is inserted without looking *)
(* whether another one arrived meanwhile.                                   *)
InstallHydrated(h) ==
    /\ pc[h] = "building"
    /\ kind' = "local"
    /\ indexed' = want[h]
    /\ Goto(h, after[h])
    /\ UNCHANGED <<env, storeVars, after, carry, want, acked, failed>>

(* An unreadable docs tree or transcript, or a missing embedding model,     *)
(* aborts the whole hydration: wake-up answers Err, search finds nothing.   *)
LoadFails(h) ==
    /\ \/ pc[h] = "listing" /\ "store" \in env.faults
       \/ pc[h] = "building" /\ "local" \in env.faults
    /\ Finish(h)
    /\ UNCHANGED <<env, engineVars, storeVars, acked, failed>>

(* Reading the engine answers the request; wake-up first lists the sources  *)
(* it will read the documents of, with a limit of its own.                  *)
ReadEngine(h) ==
    /\ pc[h] \in {"searching", "waking"}
    /\ Finish(h)
    /\ UNCHANGED <<env, engineVars, storeVars, acked, failed>>

ListForWakeUp(h) ==
    /\ pc[h] = "recalling"
    /\ Goto(h, "waking")
    /\ want' = [want EXCEPT ![h] = sources]
    /\ UNCHANGED <<env, engineVars, storeVars, after, carry, acked, failed>>

-----------------------------------------------------------------------------
(* memory_ingest_conversation (memory_capture_hook delegates to it).        *)

(* The existing sources are listed before the write lock is requested.      *)
StartIngest(h, c) ==
    /\ CanStart(h, "ingest")
    /\ Goto(h, "ingesting")
    /\ carry' = [carry EXCEPT ![h] = {c}]
    /\ want' = [want EXCEPT ![h] = ListConversationSources]
    /\ UNCHANGED <<env, engineVars, storeVars, after, acked, failed>>

(* Under the write lock a missing engine is built from the configuration;   *)
(* persisted conversations are not loaded into it.                          *)
BuildFails(h) ==
    /\ pc[h] = "ingesting"
    /\ kind = "none" /\ "build" \in env.faults
    /\ Finish(h)
    /\ UNCHANGED <<env, engineVars, storeVars, acked, failed>>

Built == IF kind = "none" THEN "configured" ELSE kind

MutDirectRebuilds(h) ==   \* the engine is rebuilt although one is loaded
    /\ pc[h] = "ingesting"
    /\ kind' = "configured"
    /\ indexed' = carry[h]
    /\ Goto(h, "committing")
    /\ UNCHANGED <<env, storeVars, after, carry, want, acked, failed>>

DirectIngest(h) ==
    /\ pc[h] = "ingesting"
    /\ kind' = Built
    /\ indexed' = indexed \union carry[h]
    /\ Goto(h, "committing")
    /\ UNCHANGED <<env, storeVars, after, carry, want, acked, failed>>

(* A local engine has no backend, so only a configured one can refuse.      *)
BackendRefuses == Built = "configured" /\ "backend" \in env.faults

MutFallbackFresh(h) ==   \* the fallback engine is not rehydrated
    /\ pc[h] = "ingesting"
    /\ BackendRefuses
    /\ kind' = "local"
    /\ indexed' = carry[h]
    /\ Goto(h, "committing")
    /\ UNCHANGED <<env, storeVars, after, carry, want, acked, failed>>

(* The engine is replaced by a local one rehydrated from the sources listed *)
(* earlier and the transcript being ingested.                               *)
FallbackIngest(h) ==
    /\ pc[h] = "ingesting"
    /\ BackendRefuses
    /\ kind' = "local"
    /\ indexed' = want[h] \union carry[h]
    /\ Goto(h, "committing")
    /\ UNCHANGED <<env, storeVars, after, carry, want, acked, failed>>

(* The fallback fails too: the engine keeps what the direct attempt left,   *)
(* the chunks removed (delete refused) or already added (upsert refused).   *)
IngestFails(h) ==
    /\ pc[h] = "ingesting"
    /\ BackendRefuses /\ "local" \in env.faults
    /\ kind' = Built
    /\ indexed' \in {indexed \ carry[h], indexed \union carry[h]}
    /\ failed' = failed \union carry[h]
    /\ Finish(h)
    /\ UNCHANGED <<env, storeVars, acked>>

(* Upserting a row makes it the newest.                                     *)
UpsertSource(cs) ==
    /\ sources' = sources \union cs
    /\ older' = {p \in older : p[2] \notin cs /\ p[1] \notin cs} \union ((sources \ cs) \X cs)

MutCommitSilent(h, n) ==   \* a failed closure is not reported
    /\ pc[h] = "committing"
    /\ n < 4 => "store" \in env.faults
    /\ IF n >= 1 THEN UpsertSource(carry[h]) ELSE UNCHANGED <<sources, older>>
    /\ Finish(h)
    /\ UNCHANGED <<env, engineVars, nodeRows, lessons, audits, acked, failed>>

MutCommitLenient(h, n) ==   \* failing to write the nodes is not an error
    /\ pc[h] = "committing"
    /\ n < 4 => "store" \in env.faults
    /\ IF n >= 1 THEN UpsertSource(carry[h]) ELSE UNCHANGED <<sources, older>>
    /\ nodeRows'   = IF n >= 2 THEN nodeRows \union carry[h] ELSE nodeRows
    /\ lessons' = lessons \union carry[h]
    /\ acked'   = acked \union carry[h]
    /\ Finish(h)
    /\ UNCHANGED <<env, engineVars, audits, failed>>

(* One closure under the store's mutex writes the source row, the           *)
(* navigation nodes, the lessons and the audit row, each committed on its   *)
(* own; n of them succeed.  Only a failing audit is not an error.           *)
Commit(h, n) ==
    /\ pc[h] = "committing"
    /\ n < 4 => "store" \in env.faults
    /\ IF n >= 1 THEN UpsertSource(carry[h]) ELSE UNCHANGED <<sources, older>>
    /\ nodeRows'   = IF n >= 2 THEN nodeRows \union carry[h] ELSE nodeRows
    /\ lessons' = IF n >= 3 THEN lessons \union carry[h] ELSE lessons
    /\ audits'  = IF n >= 4 THEN audits \union carry[h] ELSE audits
    /\ acked'   = IF n >= 3 THEN acked \union carry[h] ELSE acked
    /\ failed'  = IF n >= 3 THEN failed ELSE failed \union carry[h]
    /\ Finish(h)
    /\ UNCHANGED <<env, engineVars>>

-----------------------------------------------------------------------------
(* ingest_docs (docs_reindex delegates to it), all of it under the write    *)
(* lock: replacing the chunks of the tree drops everything whose path has   *)
(* the docs root as a prefix, and a failure replaces the engine.            *)
IngestDocs(h) ==
    /\ CanStart(h, "docs")
    /\ kind' = Built
    /\ indexed' = indexed \ UnderDocs
    /\ UNCHANGED <<env, storeVars, handlerVars, acked, failed>>

(* The fresh local engine of the fallback is not rehydrated; whether the    *)
(* retry then succeeds makes no difference to the conversations.            *)
IngestDocsFallback(h) ==
    /\ CanStart(h, "docs")
    /\ BackendRefuses \/ "docs" \in env.faults
    /\ kind' = "local"
    /\ indexed' = {}
    /\ UNCHANGED <<env, storeVars, handlerVars, acked, failed>>

(* The process stops: engines and handlers are gone, the store remains.     *)
Restart ==
    /\ "restart" \in env.faults
    /\ kind' = "none"
    /\ indexed' = {}
    /\ pc' = [h \in Handler |-> "idle"]
    /\ after' = [h \in Handler |-> "idle"]
    /\ carry' = [h \in Handler |-> {}]
    /\ want' = [h \in Handler |-> {}]
    /\ UNCHANGED <<env, storeVars, acked, failed>>

-----------------------------------------------------------------------------
HandlerStep(h) ==
    \/ ListSources(h)
    \/ InstallHydrated(h)
    \/ LoadFails(h)
    \/ ReadEngine(h)
    \/ ListForWakeUp(h)
    \/ BuildFails(h)
    \/ DirectIngest(h)
    \/ FallbackIngest(h)
    \/ IngestFails(h)
    \/ \E n \in 0 .. 4 : Commit(h, n)

Request(h) ==
    \/ StartSearch(h)
    \/ StartWakeUp(h)
    \/ \E c \in Conv : StartIngest(h, c)
    \/ IngestDocs(h)
    \/ IngestDocsFallback(h)

Next == Restart \/ \E h \in Handler : Request(h) \/ HandlerStep(h)

Spec == Init /\ [][Next]_vars

-----------------------------------------------------------------------------
(* What search can find is durable, or an ingest is about to make it so, or *)
(* the caller of an ingest was told that it failed: no interleaving,        *)
(* failure or restart leaves a conversation searchable that nobody will     *)
(* ever see again after a restart without having been told.                 *)
SearchableIsAccounted ==
    \A c \in indexed :
        \/ c \in sources
        \/ c \in failed
        \/ \E h \in Handler : pc[h] = "committing" /\ c \in carry[h]

(* An ingest answered Ok survives every later failure and restart, with its *)
(* navigation nodes and lessons.                                            *)
AckedIsDurable == acked \subseteq (sources \intersect nodeRows \intersect lessons)

(* A loaded engine finds every persisted conversation.                      *)
LoadedIsComplete == kind # "none" => sources \subseteq indexed

(* What a loaded engine does not find is on Redis and the row written       *)
(* longest ago, one row at the most.                                        *)
MissesOnlyTheOldest ==
    kind # "none" => \A c \in sources \ indexed :
        env.store = "redis" /\ \A d \in sources \ {c} : <<c, d>> \in older

(* That is what stdio clients that ingest only conversations get as long as *)
(* nothing but the backend, the build of an engine and the store fails: the *)
(* fallback rehydrates the engine it replaces from the list of the rows.    *)
(* Restarts, docs ingests and concurrency break it.                         *)
StdioConversations ==
    /\ env.sequential
    /\ "docs" \notin env.requests
    /\ env.faults \subseteq {"build", "backend", "store"}

SequentialMissesOnlyTheOldest == StdioConversations => MissesOnlyTheOldest

(* With a healthy backend, and while no reader is between seeing no engine  *)
(* and installing its own, no request makes a loaded engine forget a        *)
(* conversation, whatever runs concurrently: the late installer is the only *)
(* one that does.  A docs ingest forgets those whose path begins with the   *)
(* root it replaces the chunks of, and no other.                            *)
Healthy == env.faults \subseteq {"restart", "build", "store"}

Loading == \E h \in Handler : pc[h] \in {"listing", "building"}

OnlyLateLoadersForget ==
    [][Healthy /\ kind # "none" /\ kind' # "none" /\ ~Loading
        => indexed \ UnderDocs \subseteq indexed']_vars

=============================================================================
