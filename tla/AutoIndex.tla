------------------------------ MODULE AutoIndex ------------------------------
(***************************************************************************)
(* Auto-indexing: the file watcher of a project keeps the memory engine in *)
(* step with .the-one/docs.  Edits of the docs reach the watcher task      *)
(* through a debouncer, a thread that classifies each path by whether it   *)
(* exists at that moment, and an unbounded channel; the task applies one   *)
(* event at a time under the write lock of memory_by_project.  The watcher *)
(* is spawned by the ingest that first builds the engine, and by nothing   *)
(* else.  Requests come one at a time (stdio); the task and the editor of  *)
(* the docs run beside them.  The engine is that of MemoryEngine.          *)
(***************************************************************************)
EXTENDS MemoryEngine, Sequences

CONSTANTS
    Faults,    \* what may fail, see FaultKinds
    MaxEdits   \* bound on the edits of the docs

FaultKinds == {"backend",   \* the backend refuses a delete or an upsert
               "local",     \* a local engine cannot be built
               "walk",      \* the docs tree cannot be walked
               "restart"}   \* the broker stops and starts again

ASSUME AutoIndexAssumption == Faults \subseteq FaultKinds /\ MaxEdits \in Nat

VARIABLES
    request,   \* where the request that holds the memory write lock is
    watching,  \* the watcher exists and watches .the-one/docs
    walked,    \* the docs tree has been ingested into the present engine
    noticed,   \* edited files the debouncer has not delivered
    queue,     \* the channel: files, and whether they existed
    edits      \* the number of edits so far

allVars == <<vars, request, watching, walked, noticed, queue, edits>>

Requests == {"none",          \* the lock is free
             "reindex",       \* ingest_docs is about to ingest the tree
             "fallback",      \* ... which failed, builds a local engine
             "retry",         \* ... and ingests the tree into that
             "conversation"}  \* memory_ingest_conversation has an engine

AutoTypeOK ==
    /\ TypeOK
    /\ request \in Requests
    /\ watching \in BOOLEAN
    /\ walked \in BOOLEAN
    /\ noticed \in SUBSET Docs
    /\ queue \in Seq([file: Docs, exists: BOOLEAN])
    /\ edits \in 0 .. MaxEdits

AutoInit ==
    /\ Init
    /\ request = "none"
    /\ watching = FALSE
    /\ walked = FALSE
    /\ noticed = {}
    /\ queue = <<>>
    /\ edits = 0

-----------------------------------------------------------------------------
(* An editor, or docs.save, writes or deletes a file of the docs.           *)
Change(f, v) ==
    /\ edits < MaxEdits
    /\ edits' = edits + 1
    /\ Edit(f, v)
    /\ noticed' = IF watching THEN noticed \union {f} ELSE noticed
    /\ UNCHANGED <<request, watching, walked, queue>>

MutDeliver(f) ==   \* every event is taken for an upsert
    /\ f \in noticed
    /\ noticed' = noticed \ {f}
    /\ queue' = Append(queue, [file |-> f, exists |-> TRUE])
    /\ UNCHANGED <<vars, request, watching, walked, edits>>

(* The debouncer delivers a file once; the bridge thread asks whether the   *)
(* path exists now and sends an Upserted or a Removed event.                *)
Deliver(f) ==
    /\ f \in noticed
    /\ noticed' = noticed \ {f}
    /\ queue' = Append(queue, [file |-> f, exists |-> disk[f] # None])
    /\ UNCHANGED <<vars, request, watching, walked, edits>>

(* ingest_single_markdown asks again whether the file exists and answers    *)
(* Err without touching the engine when it does not.                        *)
Vanished(event) == event.exists /\ disk[event.file] = None

Apply(event) ==
    LET f == event.file IN
    \/ Vanished(event) /\ UNCHANGED vars
    \/ event.exists /\ Ingest(f)
    \/ ~event.exists /\ RemoveByPath(f)
    \/ /\ "backend" \in Faults
       /\ IF event.exists THEN \E n \in Index : IngestFails(f, n) ELSE RemoveFails(f)

MutProcess ==   \* the task stops at the first event it cannot apply
    /\ queue # <<>> /\ request = "none"
    /\ kind # "none" /\ ~Vanished(Head(queue))
    /\ Apply(Head(queue))
    /\ queue' = Tail(queue)
    /\ UNCHANGED <<request, watching, walked, noticed, edits>>

(* The task waits for the write lock and applies the next event; without an *)
(* engine it skips it, and an Err is counted and forgotten.                 *)
Process ==
    /\ queue # <<>> /\ request = "none"
    /\ IF kind = "none" THEN UNCHANGED vars ELSE Apply(Head(queue))
    /\ queue' = Tail(queue)
    /\ UNCHANGED <<request, watching, walked, noticed, edits>>

-----------------------------------------------------------------------------
(* A request that needs an engine to ingest into takes the write lock and   *)
(* builds one from the configuration if there is none; the watcher is       *)
(* spawned only with a new engine, and watches the docs only if their       *)
(* directory exists then.                                                   *)
Begin(r, spawned) ==
    /\ request = "none"
    /\ request' = r
    /\ IF kind = "none"
         THEN Build /\ watching' = spawned /\ walked' = FALSE
         ELSE UNCHANGED <<vars, watching, walked>>
    /\ UNCHANGED <<noticed, queue, edits>>

(* docs_reindex creates the directory first.                                *)
StartReindex == Begin("reindex", TRUE)

(* memory_ingest_conversation has read the transcript before.               *)
StartConversation ==
    /\ \E t \in Transcripts : disk[t] # None
    /\ \E exists \in BOOLEAN : Begin("conversation", exists)

ReindexTree ==
    /\ request \in {"reindex", "retry"}
    /\ IngestTree
    /\ request' = "none"
    /\ walked' = TRUE
    /\ UNCHANGED <<watching, noticed, queue, edits>>

(* The walk or the backend fails: a first failure leads to the fallback, a  *)
(* second one is the answer.                                                *)
TreeFails ==
    /\ request \in {"reindex", "retry"}
    /\ \/ "walk" \in Faults /\ UNCHANGED vars
       \/ /\ "backend" \in Faults
          /\ \E done \in SUBSET File, f \in File, n \in Index : IngestTreeFails(done, f, n)
    /\ request' = IF request = "reindex" THEN "fallback" ELSE "none"
    /\ UNCHANGED <<watching, walked, noticed, queue, edits>>

(* The fallback puts an empty local engine in the map and retries.          *)
Fallback ==
    /\ request = "fallback"
    /\ NewEngine("local")
    /\ request' = "retry"
    /\ walked' = FALSE
    /\ UNCHANGED <<watching, noticed, queue, edits>>

(* build_rehydrated_local_engine: a local engine with the docs on disk and  *)
(* the transcripts in use takes the place of the present one.               *)
Rehydrate(transcripts) ==
    /\ kind' = "local"
    /\ held' = [f \in File |-> IF f \in Docs \union transcripts THEN disk[f] ELSE None]
    /\ dirty' = {}
    /\ walked' = TRUE
    /\ UNCHANGED <<disk, points, watching, noticed, queue, edits>>

IngestConversation ==
    /\ request = "conversation"
    /\ \E t \in Transcripts : Ingest(t)
    /\ request' = "none"
    /\ UNCHANGED <<watching, walked, noticed, queue, edits>>

ConversationFallback ==
    /\ request = "conversation"
    /\ kind = "configured" /\ "backend" \in Faults
    /\ \E transcripts \in SUBSET Transcripts : Rehydrate(transcripts)
    /\ request' = "none"

(* No local engine: the request answers Err and the engine keeps what the   *)
(* failed attempt left in it.                                               *)
GiveUp ==
    /\ "local" \in Faults
    /\ \/ request = "fallback" /\ UNCHANGED vars
       \/ /\ request = "conversation" /\ "backend" \in Faults
          /\ \E t \in Transcripts :
                RemoveFails(t) \/ \E n \in Index : IngestFails(t, n)
    /\ request' = "none"
    /\ UNCHANGED <<watching, walked, noticed, queue, edits>>

(* A search that finds no engine loads a local one; it spawns no watcher.   *)
Load ==
    /\ request = "none" /\ kind = "none"
    /\ \E transcripts \in SUBSET Transcripts : Rehydrate(transcripts)
    /\ UNCHANGED request

Stop ==
    /\ "restart" \in Faults
    /\ Restart
    /\ request' = "none"
    /\ watching' = FALSE
    /\ walked' = FALSE
    /\ noticed' = {}
    /\ queue' = <<>>
    /\ UNCHANGED edits

-----------------------------------------------------------------------------
Finish ==
    ReindexTree \/ TreeFails \/ Fallback \/ IngestConversation \/ ConversationFallback \/ GiveUp

AutoNext ==
    \/ \E f \in Docs, v \in Version \union {None} : Change(f, v)
    \/ \E f \in Docs : Deliver(f)
    \/ Process
    \/ StartReindex
    \/ StartConversation
    \/ Finish
    \/ Load
    \/ Stop

AutoSpec == AutoInit /\ [][AutoNext]_allVars

(* The bridge thread and the watcher task run; requests end; tokio's lock   *)
(* is granted in the order of the requests for it, so no stream of requests *)
(* keeps the task out.                                                      *)
Fairness ==
    /\ \A f \in Docs : WF_allVars(Deliver(f))
    /\ SF_allVars(Process)
    /\ WF_allVars(Finish)

FairSpec == AutoSpec /\ Fairness

-----------------------------------------------------------------------------
Reflected(f) == held[f] = disk[f]

(* When the watcher has nothing left to do the index is current: once the   *)
(* tree has been ingested, each edit of the docs is in the engine, in       *)
(* flight to it, or was answered with an Err, however edits, the two looks  *)
(* at the file, reindexing and fallbacks interleave.                        *)
CaughtUpIsCurrent ==
    watching /\ walked /\ request = "none" /\ noticed = {} /\ queue = <<>>
        => \A f \in Docs \ dirty : Reflected(f)

(* ... and the watcher gets there: an edit of the docs of a watched engine  *)
(* is reflected, unless the watcher or the engine goes away or the backend  *)
(* refuses.                                                                 *)
WatchedDocsAreReflected ==
    \A f \in Docs :
        watching /\ walked /\ ~Reflected(f)
            ~> Reflected(f) \/ f \in dirty \/ ~watching \/ ~walked

(* "changes to your docs [...] are now reflected in search results          *)
(* automatically": with auto-indexing on, in any loaded engine.             *)
DocsAreReflected ==
    \A f \in Docs :
        kind # "none" /\ ~Reflected(f)
            ~> Reflected(f) \/ f \in dirty \/ kind = "none"
=============================================================================
