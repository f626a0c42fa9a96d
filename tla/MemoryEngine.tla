----------------------------- MODULE MemoryEngine -----------------------------
(***************************************************************************)
(* The chunk index of one project's memory engine and its copy in the      *)
(* vector backend.  The engine keeps the chunks in memory, the backend one *)
(* point per chunk id, and a chunk id is the path and the position of the  *)
(* chunk, so a point can carry the embedding of an older version of the    *)
(* chunk it is named after.  Every operation takes the engine exclusively; *)
(* what makes the two drift apart are operations that fail half way, and   *)
(* restarts, which empty the engine but not the backend.  Of a file only   *)
(* its version is kept, and of a version how many chunks it is cut into.   *)
(***************************************************************************)
EXTENDS Naturals, Functions

CONSTANTS
    Docs,         \* markdown files under the docs root
    Transcripts,  \* conversation transcripts
    Version,      \* contents a file may have
    Chunks,       \* how many chunks each version is cut into
    MaxChunks,    \* no version has more chunks
    None          \* no content, no point

ASSUME ChunksAssumption ==
    /\ MaxChunks \in Nat
    /\ Chunks \in [Version -> 0 .. MaxChunks]
    /\ None \notin Version

File == Docs \union Transcripts
Index == 0 .. MaxChunks - 1

VARIABLES
    disk,    \* the content of each file
    kind,    \* the engine: none, on the configured backend, or local
    held,    \* the version whose chunks the engine holds for each file
    points,  \* the version embedded in the point of each chunk id
    dirty    \* history: files whose last operation answered Err half way

vars == <<disk, kind, held, points, dirty>>

NoPoints == [i \in Index |-> None]

TypeOK ==
    /\ disk \in [File -> Version \union {None}]
    /\ kind \in {"none", "configured", "local"}
    /\ held \in [File -> Version \union {None}]
    /\ points \in [File -> [Index -> Version \union {None}]]
    /\ dirty \in SUBSET File

Init ==
    /\ disk \in [File -> Version \union {None}]
    /\ kind = "none"
    /\ held = [f \in File |-> None]
    /\ points = [f \in File |-> NoPoints]
    /\ dirty = {}

(* The positions of the chunks of a version.                                *)
Ids(v) == IF v = None THEN {} ELSE 0 .. Chunks[v] - 1

(* The points of a file after those at S have been upserted.                *)
Upsert(row, v, S) == [i \in Index |-> IF i \in S THEN v ELSE row[i]]

-----------------------------------------------------------------------------
Edit(f, v) ==
    /\ disk[f] # v
    /\ disk' = [disk EXCEPT ![f] = v]
    /\ UNCHANGED <<kind, held, points, dirty>>

(* A new engine starts with no chunks, whatever the backend still has.      *)
NewEngine(k) ==
    /\ kind' = k
    /\ held' = [f \in File |-> None]
    /\ dirty' = {}
    /\ UNCHANGED <<disk, points>>

Build == kind = "none" /\ NewEngine("configured")

(* Loading from disk and falling back put a fresh local engine in the map.  *)
Localize == kind # "local" /\ NewEngine("local")

Restart == kind # "none" /\ NewEngine("none")

-----------------------------------------------------------------------------
(* remove_by_path, which the ingest of a single file starts with: a file    *)
(* the engine holds no chunk of is left alone in the backend as well.       *)
Swept(f) == IF Ids(held[f]) # {} /\ kind = "configured" THEN NoPoints ELSE points[f]

MutRemoveByPath(f) ==   \* the backend keeps the points of a removed file
    /\ kind # "none"
    /\ held' = [held EXCEPT ![f] = None]
    /\ dirty' = dirty \ {f}
    /\ UNCHANGED <<disk, kind, points>>

RemoveByPath(f) ==
    /\ kind # "none"
    /\ held' = [held EXCEPT ![f] = None]
    /\ points' = [points EXCEPT ![f] = Swept(f)]
    /\ dirty' = dirty \ {f}
    /\ UNCHANGED <<disk, kind>>

(* The chunks leave the engine before the backend refuses the delete.       *)
RemoveFails(f) ==
    /\ kind = "configured"
    /\ Ids(held[f]) # {}
    /\ held' = [held EXCEPT ![f] = None]
    /\ dirty' = dirty \union {f}
    /\ UNCHANGED <<disk, kind, points>>

MutIngest(f) ==   \* only the chunks that were not there before are upserted
    /\ kind # "none"
    /\ disk[f] # None
    /\ held' = [held EXCEPT ![f] = disk[f]]
    /\ points' = IF kind = "configured"
                   THEN [points EXCEPT ![f] = Upsert(points[f], disk[f], Ids(disk[f]) \ Ids(held[f]))]
                   ELSE points
    /\ dirty' = dirty \ {f}
    /\ UNCHANGED <<disk, kind>>

(* ingest_single_markdown and ingest_conversation: remove, add, upsert.     *)
Ingest(f) ==
    /\ kind # "none"
    /\ disk[f] # None
    /\ held' = [held EXCEPT ![f] = disk[f]]
    /\ points' = IF kind = "configured"
                   THEN [points EXCEPT ![f] = Upsert(Swept(f), disk[f], Ids(disk[f]))]
                   ELSE points
    /\ dirty' = dirty \ {f}
    /\ UNCHANGED <<disk, kind>>

(* The backend refuses after n chunks: the engine holds all of them, the    *)
(* backend those of the batches before.                                     *)
IngestFails(f, n) ==
    /\ kind = "configured"
    /\ disk[f] # None
    /\ n < Chunks[disk[f]]
    /\ held' = [held EXCEPT ![f] = disk[f]]
    /\ points' = [points EXCEPT ![f] = Upsert(Swept(f), disk[f], 0 .. n - 1)]
    /\ dirty' = dirty \union {f}
    /\ UNCHANGED <<disk, kind>>

(* ingest_markdown_tree replaces the chunks of the whole docs root, then    *)
(* upserts every chunk the engine holds, transcripts included; it deletes   *)
(* no point.                                                                *)
Walked == [f \in File |-> IF f \in Docs THEN disk[f] ELSE held[f]]

IngestTree ==
    /\ kind # "none"
    /\ held' = Walked
    /\ points' = IF kind = "configured"
                   THEN [f \in File |-> Upsert(points[f], Walked[f], Ids(Walked[f]))]
                   ELSE points
    /\ dirty' = {}
    /\ UNCHANGED <<disk, kind>>

(* The backend refuses after the files in done and n chunks of f; the order *)
(* of the files is that of the directory walk.  An unreadable file fails    *)
(* the walk before anything has changed, which is no step.                  *)
IngestTreeFails(done, f, n) ==
    LET sent(g) == IF g \in done THEN Ids(Walked[g]) ELSE IF g = f THEN 0 .. n - 1 ELSE {}
    IN
    /\ kind = "configured"
    /\ f \notin done
    /\ Walked[f] # None
    /\ n < Chunks[Walked[f]]
    /\ held' = Walked
    /\ points' = [g \in File |-> Upsert(points[g], Walked[g], sent(g))]
    /\ dirty' = dirty \union Docs
    /\ UNCHANGED <<disk, kind>>

-----------------------------------------------------------------------------
Single(f) ==
    \/ RemoveByPath(f)
    \/ RemoveFails(f)
    \/ Ingest(f)
    \/ \E n \in Index : IngestFails(f, n)

Tree ==
    \/ IngestTree
    \/ \E done \in SUBSET File, f \in File, n \in Index : IngestTreeFails(done, f, n)

Next ==
    \/ \E f \in File, v \in Version \union {None} : Edit(f, v)
    \/ Build
    \/ Localize
    \/ Restart
    \/ \E f \in File : Single(f)
    \/ Tree

Spec == Init /\ [][Next]_vars

-----------------------------------------------------------------------------
(* A search asks the backend for points and answers with the chunks of the  *)
(* same ids.  As long as no operation on a file has answered Err, each      *)
(* chunk the engine holds of it has a point, and the point embeds this very *)
(* version of the chunk: search neither misses the file nor answers with a  *)
(* chunk for what an older one said.                                        *)
HeldIsSearchable ==
    kind = "configured" =>
        \A f \in File \ dirty : \A i \in Ids(held[f]) : points[f][i] = held[f]

(* Points no chunk answers for take places in a search that it then leaves  *)
(* empty.  A successful operation on one file that a configured engine      *)
(* already held leaves none for this file.                                  *)
Orphans(f) == {i \in Index : points[f][i] # None} \ Ids(held[f])

SingleLeavesNoOrphans ==
    [][\A f \in File :
         kind = "configured" /\ Ids(held[f]) # {} /\ (Ingest(f) \/ RemoveByPath(f))
            => Orphans(f)' = {}]_vars

(* "Remove all chunks for a given file path from the in-memory index and    *)
(* Qdrant": after a remove_by_path that answers Ok no point is left.        *)
RemoveEmptiesBackend ==
    [][\A f \in File : kind = "configured" /\ RemoveByPath(f) => points'[f] = NoPoints]_vars
=============================================================================
