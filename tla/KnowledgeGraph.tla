---------------------------- MODULE KnowledgeGraph ----------------------------
(***************************************************************************)
(* The knowledge graph of a project: entities and relations that a model   *)
(* finds in the chunks, accumulated in knowledge_graph.json, held by the   *)
(* engine and searched with the chunks.  An extraction loads the file,     *)
(* asks the model chunk by chunk, writes the file and installs what it     *)
(* reads back; others run meanwhile, the engine is rebuilt, and the        *)
(* process stops anywhere.                                                 *)
(***************************************************************************)
EXTENDS Integers, FiniteSets, Sequences, SequencesExt

CONSTANTS
    Names,       \* normalised names of entities
    Chunks,      \* chunk ids
    Extractors,  \* graph_extract calls that may overlap
    MaxSteps,    \* bound on extractions, rebuilds and reindexes
    MAX_CHUNKS,  \* THE_ONE_GRAPH_MAX_CHUNKS
    MinFetch     \* what a search asks a store for at least (10)

ASSUME KnowledgeGraphAssumption ==
    IsFiniteSet(Chunks) /\ MaxSteps \in Nat /\ MAX_CHUNKS \in Nat \ {0} /\ MinFetch \in Nat

Edge == [source: Names, target: Names, chunk: Chunks]
Graph == [entities: [Names -> SUBSET Chunks], edges: [Names -> SUBSET Edge]]
NewGraph == [entities |-> [n \in Names |-> {}], edges |-> [n \in Names |-> {}]]

VARIABLES
    file,      \* knowledge_graph.json: absent, whole or torn
    engine,    \* the engine of the project: there, held: its chunks, graph,
               \* local: made by new_local, without a store and a graph
    entityVectors,  \* the chunks that the vector of an entity names
    relationVectors,  \* the points of relations, with the chunk each names
    extractor, \* what each extraction is doing
    builder,   \* a rebuild that has loaded the graph
    steps,
    reported,  \* history: <<entity, chunk>> that an extraction wrote
    mishaps    \* history: "overlap", "torn"

graphVars == <<file, engine, entityVectors, relationVectors, extractor, builder, steps, reported, mishaps>>

Done == [phase |-> "idle"]

GraphTypeOK ==
    /\ file.state \in {"absent", "whole", "torn"} /\ file.stored \in [entities: [Names -> SUBSET Chunks],
                                                                   relations: SUBSET Edge]
    /\ {engine.there, engine.local} \subseteq BOOLEAN /\ engine.held \subseteq Chunks /\ engine.graph \in Graph
    /\ entityVectors \in [Names -> SUBSET Chunks] /\ relationVectors \subseteq Edge
    /\ \A x \in Extractors : extractor[x].phase \in {"idle", "asking", "saving", "saved", "loaded"}
    /\ builder.phase \in {"idle", "loaded"} /\ steps \in 0 .. MaxSteps
    /\ reported \subseteq Names \X Chunks /\ mishaps \subseteq {"overlap", "torn"}

GraphInit ==
    /\ file = [state |-> "absent", stored |-> [entities |-> NewGraph.entities, relations |-> {}]]
    /\ engine \in [there: BOOLEAN, local: {FALSE}, held: SUBSET Chunks, graph: {NewGraph}]
    /\ entityVectors = NewGraph.entities /\ relationVectors = {}
    /\ extractor = [x \in Extractors |-> Done] /\ builder = Done
    /\ steps = 0 /\ reported = {} /\ mishaps = {}

-----------------------------------------------------------------------------
(* The graph.  A relation is listed under both of its ends.                 *)
SameEdge(d, e) == d.source = e.source /\ d.target = e.target

Listed(edges) ==
    [n \in Names |-> {e \in edges : e.source = n \/ e.target = n}]

(* merge_extraction: the chunks of an entity accumulate; a relation that is *)
(* known under its source keeps the chunk it was first found in.            *)
MergeExtraction(g, found, chunk) ==
    LET new == {e \in {[source |-> p[1], target |-> p[2], chunk |-> chunk] : p \in found.pairs} :
                   ~\E d \in g.edges[e.source] : SameEdge(d, e)}
    IN [entities |-> [n \in Names |-> g.entities[n] \union (IF n \in found.names THEN {chunk} ELSE {})],
        edges |-> [n \in Names |-> g.edges[n] \union Listed(new)[n]]]

(* ExtractionResult::merge, for the answers of the gleaning rounds.         *)
MergeAnswers(first, more) ==
    [names |-> first.names \union more.names, pairs |-> first.pairs \union more.pairs]

SaveToFile(g) ==
    LET all == UNION {g.edges[n] : n \in Names} IN
    [entities |-> g.entities,
     relations |-> {CHOOSE d \in all : SameEdge(d, e) : e \in all}]

MutLoadFromFile ==   \* a relation is listed under its source alone
    IF file.state = "whole"
      THEN [entities |-> file.stored.entities,
            edges |-> [n \in Names |-> {e \in file.stored.relations : e.source = n}]]
      ELSE NewGraph
LoadFromFile ==
    IF file.state = "whole"
      THEN [entities |-> file.stored.entities, edges |-> Listed(file.stored.relations)]
      ELSE NewGraph
Readable == file.state # "torn"

(* The first k of what is ranked: which ones, where there are more, is left *)
(* to the scores.                                                           *)
Top(k, S) == IF Cardinality(S) <= k THEN {S} ELSE kSubset(k, S)

(* search: the k first of the entities whose name contains a term, each     *)
(* with the chunks of the entities that a relation links it to.             *)
Neighbours(g, n) ==
    {IF e.source = n THEN e.target ELSE e.source : e \in g.edges[n]}
Related(g, n) == g.entities[n] \union UNION {g.entities[m] : m \in Neighbours(g, n)}
GraphSearch(g, terms, k) ==
    {UNION {Related(g, n) : n \in hits} : hits \in Top(k, {n \in terms : g.entities[n] # {}})}

-----------------------------------------------------------------------------
(* graph_extract.                                                           *)
Extracting == {x \in Extractors : extractor[x] # Done}

(* The chunks are copied under the lock, then extract_and_persist loads the *)
(* file: one that does not parse counts as an empty graph.  Where graphs    *)
(* are disabled it asks nothing and writes nothing.                         *)
ExtractStart(x, enabled) ==
    /\ extractor[x] = Done /\ engine.there /\ steps < MaxSteps
    /\ steps' = steps + 1
    /\ LET all == SetToSeq(engine.held)
           chosen == SubSeq(all, 1, IF Len(all) < MAX_CHUNKS THEN Len(all) ELSE MAX_CHUNKS) IN
       extractor' = [extractor EXCEPT ![x] =
          IF enabled THEN [phase |-> "asking", graph |-> LoadFromFile, todo |-> chosen]
                     ELSE [phase |-> "saved", graph |-> NewGraph]]
    /\ mishaps' = IF Extracting # {} \/ builder # Done THEN mishaps \union {"overlap"} ELSE mishaps
    /\ UNCHANGED <<file, engine, entityVectors, relationVectors, builder, reported>>

(* What a model may find in a chunk, and the outcomes of asking it once: no *)
(* answer, a bad status, no content and text that does not parse are one.   *)
Found == {[names |-> {n}, pairs |-> {}] : n \in Names} \union
         {[names |-> {p[1], p[2]}, pairs |-> {p}] : p \in {q \in Names \X Names : q[1] # q[2]}}
Nothing == [names |-> {}, pairs |-> {}]
Failed == [failed |-> TRUE]
ExtractOne == Found \union {Nothing, Failed}

(* extract_with_gleaning: the chunk is skipped when the first answer fails; *)
(* a later round that fails leaves what was found before.                   *)
ExtractChunk(x, first, more) ==
    /\ extractor[x].phase = "asking" /\ extractor[x].todo # <<>>
    /\ extractor' = [extractor EXCEPT
          ![x].todo = Tail(@),
          ![x].graph = IF first = Failed THEN @
                       ELSE MergeExtraction(@, IF more = Failed THEN first ELSE MergeAnswers(first, more),
                                            Head(extractor[x].todo))]
    /\ UNCHANGED <<file, engine, entityVectors, relationVectors, builder, steps, reported, mishaps>>

(* fs::write truncates the file, then writes it.                            *)
SaveTruncates(x) ==
    /\ extractor[x].phase = "asking" /\ extractor[x].todo = <<>>
    /\ file' = [file EXCEPT !.state = "torn"]
    /\ extractor' = [extractor EXCEPT ![x].phase = "saving"]
    /\ UNCHANGED <<engine, entityVectors, relationVectors, builder, steps, reported, mishaps>>

SaveWrites(x) ==
    /\ extractor[x].phase = "saving"
    /\ file' = [state |-> "whole", stored |-> SaveToFile(extractor[x].graph)]
    /\ reported' = reported \union {p \in Names \X Chunks : p[2] \in extractor[x].graph.entities[p[1]]}
    /\ extractor' = [extractor EXCEPT ![x].phase = "saved"]
    /\ UNCHANGED <<engine, entityVectors, relationVectors, builder, steps, mishaps>>

(* A failed save is an error of the result, and the call goes on.           *)
SaveFails(x) ==
    /\ \/ extractor[x].phase = "asking" /\ extractor[x].todo = <<>> /\ UNCHANGED mishaps
       \/ extractor[x].phase = "saving" /\ mishaps' = mishaps \union {"torn"}
    /\ extractor' = [extractor EXCEPT ![x].phase = "saved"]
    /\ UNCHANGED <<file, engine, entityVectors, relationVectors, builder, steps, reported>>

(* Back in graph_extract: the file is read before the lock on the engines.  *)
ExtractReload(x) ==
    /\ extractor[x].phase = "saved"
    /\ extractor' = [extractor EXCEPT ![x] =
          IF file.state = "whole" THEN [phase |-> "loaded", graph |-> LoadFromFile] ELSE Done]
    /\ UNCHANGED <<file, engine, entityVectors, relationVectors, builder, steps, reported, mishaps>>

(* upsert_entity_vectors and upsert_relation_vectors: a point for each      *)
(* entity that has chunks and each pair of ends; what is not in the graph   *)
(* any more keeps its point.                                                *)
UpsertEntityVectors(g) ==
    [n \in Names |-> IF g.entities[n] = {} THEN entityVectors[n] ELSE g.entities[n]]
UpsertRelationVectors(g) ==
    LET new == SaveToFile(g).relations IN
    new \union {d \in relationVectors : ~\E e \in new : SameEdge(d, e)}

MutExtractInstall(x, entities, relations) ==   \* the vectors, but not the graph of the engine
    /\ extractor[x].phase = "loaded"
    /\ entityVectors' = IF entities /\ engine.there THEN extractor[x].graph.entities ELSE entityVectors
    /\ extractor' = [extractor EXCEPT ![x] = Done]
    /\ UNCHANGED <<file, engine, relationVectors, builder, steps, reported, mishaps>>

(* entities, relations: whether the store took the points of each.          *)
ExtractInstall(x, entities, relations) ==
    /\ extractor[x].phase = "loaded"
    /\ IF engine.there
       THEN LET g == extractor[x].graph IN
            /\ engine' = [engine EXCEPT !.graph = g]
            /\ entityVectors' = IF entities /\ ~engine.local THEN UpsertEntityVectors(g) ELSE entityVectors
            /\ relationVectors' = IF relations /\ ~engine.local THEN UpsertRelationVectors(g) ELSE relationVectors
       ELSE UNCHANGED <<engine, entityVectors, relationVectors>>
    /\ extractor' = [extractor EXCEPT ![x] = Done]
    /\ UNCHANGED <<file, builder, steps, reported, mishaps>>

(* The engine is built (or rebuilt) with the graph of the file, then put    *)
(* into the map.                                                            *)
BuildLoads ==
    /\ builder = Done /\ steps < MaxSteps
    /\ steps' = steps + 1
    /\ builder' = [phase |-> "loaded", graph |-> LoadFromFile]
    /\ mishaps' = mishaps \union (IF Extracting # {} THEN {"overlap"} ELSE {})
                          \union (IF file.state = "torn" THEN {"torn"} ELSE {})
    /\ UNCHANGED <<file, engine, entityVectors, relationVectors, extractor, reported>>
BuildInserts ==
    /\ builder # Done
    /\ engine' = [engine EXCEPT !.there = TRUE, !.local = FALSE, !.graph = builder.graph]
    /\ builder' = Done
    /\ UNCHANGED <<file, entityVectors, relationVectors, extractor, steps, reported, mishaps>>

(* The engine of the first request that only reads, and the one that takes  *)
(* the place of an engine whose store failed an ingest: it reads no file.   *)
BuildsLocal(held) ==
    /\ steps < MaxSteps
    /\ steps' = steps + 1
    /\ engine' = [there |-> TRUE, local |-> TRUE, held |-> held, graph |-> NewGraph]
    /\ UNCHANGED <<file, entityVectors, relationVectors, extractor, builder, reported, mishaps>>

(* Documents are ingested and removed; nothing is taken from the graph.     *)
Reindex(held) ==
    /\ engine.there /\ steps < MaxSteps /\ held # engine.held
    /\ steps' = steps + 1
    /\ engine' = [engine EXCEPT !.held = held]
    /\ UNCHANGED <<file, entityVectors, relationVectors, extractor, builder, reported, mishaps>>

ProcessStops ==
    /\ engine.there
    /\ engine' = [engine EXCEPT !.there = FALSE, !.local = FALSE, !.graph = NewGraph]
    /\ extractor' = [x \in Extractors |-> Done] /\ builder' = Done
    /\ mishaps' = IF file.state = "torn" THEN mishaps \union {"torn"} ELSE mishaps
    /\ UNCHANGED <<file, entityVectors, relationVectors, steps, reported>>

GraphNext ==
    \/ \E x \in Extractors :
          \/ \E enabled \in BOOLEAN : ExtractStart(x, enabled)
          \/ SaveTruncates(x) \/ SaveWrites(x) \/ SaveFails(x) \/ ExtractReload(x)
          \/ \E first, more \in ExtractOne : ExtractChunk(x, first, more)
          \/ \E entities, relations \in BOOLEAN : ExtractInstall(x, entities, relations)
    \/ BuildLoads \/ BuildInserts \/ ProcessStops
    \/ \E held \in SUBSET Chunks : BuildsLocal(held) \/ Reindex(held)

GraphSpec == GraphInit /\ [][GraphNext]_graphVars

-----------------------------------------------------------------------------
(* extract_query_keywords: the words a model takes from the query, none     *)
(* when graphs or this step are disabled or the model does not answer.      *)
QueryReplies == [asked: BOOLEAN, low: SUBSET Names, high: SUBSET Names]
NotAsked == [asked |-> FALSE, low |-> {}, high |-> {}]
NoKeywords == [low |-> {}, high |-> {}]
ExtractQueryKeywords(reply) ==
    IF reply.asked THEN [low |-> reply.low, high |-> reply.high] ELSE NoKeywords

(* The searches of the engine.  The scores of the chunks that the vectors   *)
(* name are collected, then replaced by a new map.                          *)
SemanticChunks(keywords) ==
    (UNION {entityVectors[n] : n \in keywords.low}) \union
    {e.chunk : e \in {d \in relationVectors : {d.source, d.target} \intersect keywords.high # {}}}
SearchGraph(terms, reply, k) ==
    UNION {IF SemanticChunks(ExtractQueryKeywords(reply)) = {} /\ named = {} THEN {{}}
           ELSE Top(k, named \intersect engine.held) : named \in GraphSearch(engine.graph, terms, k)}

(* The store answers with the n nearest of its points; near lists them all, *)
(* those of chunks that the engine does not hold too: these are dropped     *)
(* once they were counted.  Before a reranker a search asks for more.       *)
Nearest(near, n) == {near[i] : i \in {j \in DOMAIN near : j <= n}} \intersect engine.held
AtLeastMinFetch(n) == IF n < MinFetch THEN MinFetch ELSE n
VectorFetch(k, reranked) == IF reranked THEN AtLeastMinFetch(3 * k) ELSE k

(* What may be out of order: the provider, the sparse provider, the vector  *)
(* store, the persistence of Redis where it is required; or there is no     *)
(* vector store at all and the words of the query are looked for.  Each     *)
(* search is the set of its answers, of k chunks at most.                   *)
Faults == {{}, {"provider"}, {"sparse"}, {"store"}, {"persistence"}, {"absent"}}
SearchKeyword(near, k) == Top(k, {near[i] : i \in DOMAIN near} \intersect engine.held)
SearchDense(near, faults, k, reranked) ==
    IF faults \intersect {"provider", "store", "persistence"} # {} THEN {{}}
    ELSE Top(k, Nearest(near, VectorFetch(k, reranked)))
SearchVector(near, sparse, faults, k, reranked) ==   \* Redis has no sparse vectors
    IF "absent" \in faults THEN SearchKeyword(near, k)
    ELSE IF "provider" \in faults THEN {{}}
    ELSE IF faults \intersect {"sparse", "store", "persistence"} # {} THEN SearchDense(near, faults, k, reranked)
    ELSE Top(k, Nearest(near, VectorFetch(k, reranked)) \union Nearest(sparse, VectorFetch(k, reranked)))

(* The hybrid mode of a query for which the graph search answers found.     *)
HybridHits(near, faults, k) ==
    IF "absent" \in faults THEN SearchKeyword(near, k)
    ELSE IF "store" \in faults THEN {{}} ELSE {Nearest(near, AtLeastMinFetch(2 * k))}
SearchHybridMode(near, found, faults, k) ==
    IF faults \intersect {"provider", "persistence"} # {} THEN {found}
    ELSE UNION {Top(k, found \union hits) : hits \in HybridHits(near, faults, k)}

-----------------------------------------------------------------------------
(* What an extraction has written stays in the file through later           *)
(* extractions, rebuilds and restarts, unless two of them overlapped or a   *)
(* write was cut short: then the next extraction starts from nothing, or    *)
(* from before the other's result, and replaces the file.                   *)
ExtractionsAccumulate ==
    mishaps = {} /\ file.state = "whole" =>
        \A p \in reported : p[2] \in file.stored.entities[p[1]]

(* When no extraction or rebuild is under way the engine answers from the   *)
(* graph that is in the file, with the same exceptions.  One that was made  *)
(* without it answers from no graph, until an extraction gives it the file. *)
EngineHasTheFile ==
    engine.there /\ Extracting = {} /\ builder = Done /\ mishaps = {} =>
        engine.graph = LoadFromFile \/ (engine.local /\ engine.graph = NewGraph)

(* What extractions found is not lost: it is in the file, whatever engine   *)
(* the project had, and in the engine that answers from it.                 *)
GraphIsKept == ExtractionsAccumulate /\ EngineHasTheFile

(* A relation is found from either end, however often the graph was merged, *)
(* saved and loaded: a search for one entity answers with what the engine   *)
(* holds of the chunks of both, or with as many chunks as it was asked for. *)
Limits == 1 .. Cardinality(Chunks)
BothEndsAreFound ==
    \A e \in UNION {engine.graph.edges[n] : n \in Names}, k \in Limits :
        \A n \in {e.source, e.target} :
            engine.graph.entities[n] # {} =>
                \A found \in SearchGraph({n}, NotAsked, k) :
                    \/ Cardinality(found) = k
                    \/ (engine.graph.entities[e.source] \union engine.graph.entities[e.target])
                          \intersect engine.held \subseteq found

(* The hybrid mode finds what the other modes find, or as many chunks as it *)
(* was asked for, whatever is out of order.  Two things are given up: the   *)
(* chunks that only the sparse vectors find, as it asks the store for dense *)
(* vectors alone; and, where a reranker is at work, what the vector mode    *)
(* finds among the further points that it alone asks for.                   *)
Rankings == UNION {{s \in [1 .. n -> Chunks] : IsInjective(s)} : n \in 0 .. Cardinality(Chunks)}
HybridLosesNothing ==
    engine.there => \A k \in Limits :
        \A found \in UNION {SearchGraph(terms, NotAsked, k) : terms \in SUBSET Names} :
            \A near \in Rankings, worded \in Chunks, faults \in Faults, reranked \in BOOLEAN :
                (reranked => 3 * k <= AtLeastMinFetch(2 * k)) =>
                    \A answer \in SearchVector(near, <<worded>>, faults, k, reranked),
                       hybrid \in SearchHybridMode(near, found, faults, k) :
                        Cardinality(hybrid) = k \/ found \union (answer \ {worded}) \subseteq hybrid

(* No mode loses what another finds, and no search what a merge has found.  *)
SearchesFind == BothEndsAreFound /\ HybridLosesNothing

(* docs/guides/graph-rag.md:298: the vectors of the entities take part in   *)
(* search_graph when there are any.                                         *)
SemanticHitsCount ==
    engine.there => \A n \in Names, terms \in SUBSET Names :
        \A found \in SearchGraph(terms, [asked |-> TRUE, low |-> {n}, high |-> {}], Cardinality(Chunks)) :
            entityVectors[n] \intersect engine.held \subseteq found
=============================================================================
