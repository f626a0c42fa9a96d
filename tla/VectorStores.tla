----------------------------- MODULE VectorStores -----------------------------
(***************************************************************************)
(* The vector stores behind the VectorBackend trait: Qdrant collections, a *)
(* table of pgvector, hashes of Redis under a RediSearch index.  Two       *)
(* projects share a server; they share a collection when their names       *)
(* sanitise to one, and a Redis index when it is configured by one name.   *)
(* A method is the sequence of the requests it sends, an engine may be     *)
(* built with another embedding provider at any time, and a request may be *)
(* the last that is sent.  What Qdrant answers Ok it has accepted, and     *)
(* applies later: no request asks it to wait.                              *)
(***************************************************************************)
EXTENDS Integers, FiniteSets, Sequences, SequencesExt

CONSTANTS
    Projects, Points,   \* the ids of the points; the chunks are of one source
    Clients,            \* engines that call at a time
    MaxRequests,        \* bound on the calls
    Dims,               \* dimensions a provider may have
    MIGRATED_DIM,
    NoPoint, NoShape

PointKinds == {"chunk", "entity", "relation", "image"}
Shapes == [dim: Dims, hybrid: BOOLEAN]

ASSUME VectorStoresAssumption ==
    /\ MIGRATED_DIM \in Dims /\ MaxRequests \in Nat /\ IsFiniteSet(Points)
    /\ NoPoint \notin [owner: Projects, shape: Shapes] /\ NoShape \notin Shapes

VARIABLES
    vectors,   \* store: which one, kind: the points a behaviour is about,
               \* shared: the projects have one collection or index
    points,    \* points[s][i]: the owner and the shape of point i of space s,
               \* as the operations accepted so far leave it
    unapplied, \* Qdrant: what the points of a space were before each operation
               \* that it has accepted and not applied, the oldest first
    made,      \* the shape a collection or index was created with
    members,   \* Redis: the set of the keys of the source
    client,    \* what each engine is doing
    requests,  \* calls so far
    kept,      \* history: what the last acknowledged call of a project left
    foreign,   \* history: points that another project has written since
    hurt,      \* history: points of a call that failed, stopped or overlapped
    lost       \* history: points whose last operation Qdrant accepted and failed

vectorVars == <<vectors, points, unapplied, made, members, client, requests, kept, foreign, hurt, lost>>

Resting == [phase |-> "rest"]
Space(p) == IF vectors.store = "pgvector" \/ vectors.shared THEN "shared" ELSE p
Spaces == Projects \union {"shared"}
Contents == [Points -> [owner: Projects, shape: Shapes] \union {NoPoint}]

VecTypeOK ==
    /\ vectors \in [store: {"qdrant", "pgvector", "redis"}, kind: PointKinds, shared: BOOLEAN]
    /\ points \in [Spaces -> Contents] /\ unapplied \in [Spaces -> Seq(Contents)]
    /\ made \in [Spaces -> Shapes \union {NoShape}] /\ members \in [Spaces -> SUBSET Points]
    /\ requests \in 0 .. MaxRequests
    /\ \A c \in Clients : client[c].phase \in {"rest", "call"}
    /\ kept \in [Projects -> [Points -> {"none", "unknown", "out", "in"}]]
    /\ foreign \subseteq Projects \X Points /\ hurt \subseteq Spaces \X Points /\ lost \subseteq Spaces \X Points

VecInit ==
    /\ vectors \in [store: {"qdrant", "pgvector", "redis"}, kind: PointKinds, shared: BOOLEAN]
    /\ vectors.kind = "image" => vectors.store = "qdrant"
    /\ vectors.store = "pgvector" => ~vectors.shared   \* its table is shared anyway
    /\ points = [s \in Spaces |-> [i \in Points |-> NoPoint]] /\ unapplied = [s \in Spaces |-> <<>>]
    /\ made = [s \in Spaces |-> NoShape] /\ members = [s \in Spaces |-> {}]
    /\ client = [c \in Clients |-> Resting] /\ requests = 0
    /\ kept = [p \in Projects |-> [i \in Points |-> "none"]]
    /\ foreign = {} /\ hurt = {} /\ lost = {}

-----------------------------------------------------------------------------
(* The requests to a server, for a project and the points it names.         *)
Request(sends, ids, shape) == << [sends |-> sends, ids |-> ids, shape |-> shape] >>

(* Each of these requests for the first point, then for the next.           *)
OneByOne(sends, ids, shape) ==
    [k \in 1 .. Len(sends) * Cardinality(ids) |->
        [sends |-> sends[((k - 1) % Len(sends)) + 1], shape |-> shape,
         ids |-> {SetToSeq(ids)[((k - 1) \div Len(sends)) + 1]}]]

(* Qdrant.  A collection that exists is fine, whatever it was created for.  *)
EnsureCollection(shape) == Request("create", {}, shape)
EnsureHybridCollection(shape) == Request("create", {}, shape)
CreateGraphCollection(shape) == Request("create", {}, shape)
CreateImageCollection(shape) == Request("create", {}, shape)
UpsertPoints(ids, shape) == Request("put", ids, shape)
UpsertHybridPoints(ids, shape) == Request("put", ids, shape)
UpsertEntityPoints(ids, shape) == Request("put", ids, shape)
UpsertRelationPoints(ids, shape) == Request("put", ids, shape)
UpsertImagePoints(ids, shape) == Request("put", ids, shape)
DeleteBySourcePath == Request("delete all", Points, NoShape)
DeleteImageBySourcePath == Request("delete all", Points, NoShape)
DeleteImageCollection == Request("drop", Points, NoShape)

QdrantUpsert(ids, shape) ==
    CASE vectors.kind = "chunk" /\ ~shape.hybrid -> EnsureCollection(shape) \o UpsertPoints(ids, shape)
      [] vectors.kind = "chunk" /\ shape.hybrid  -> EnsureHybridCollection(shape) \o UpsertHybridPoints(ids, shape)
      [] vectors.kind = "entity"   -> CreateGraphCollection(shape) \o UpsertEntityPoints(ids, shape)
      [] vectors.kind = "relation" -> CreateGraphCollection(shape) \o UpsertRelationPoints(ids, shape)
      [] vectors.kind = "image"    -> CreateImageCollection(shape) \o UpsertImagePoints(ids, shape)

(* pgvector: one statement each, and no dimension but the migrated one.     *)
PgEnsureCollection(shape) == Request("require", {}, shape)
PgEnsureEntityCollection(shape) == Request("require", {}, shape)
PgEnsureRelationCollection(shape) == Request("require", {}, shape)
PgUpsertChunks(ids, shape) == Request("put", ids, shape)
PgUpsertEntities(ids, shape) == Request("put", ids, shape)
PgUpsertRelations(ids, shape) == Request("put", ids, shape)
PgDeleteBySourcePath == Request("delete own", Points, NoShape)

PgUpsert(ids, shape) ==
    CASE vectors.kind = "chunk"    -> PgEnsureCollection(shape) \o PgUpsertChunks(ids, shape)
      [] vectors.kind = "entity"   -> PgEnsureEntityCollection(shape) \o PgUpsertEntities(ids, shape)
      [] vectors.kind = "relation" -> PgEnsureRelationCollection(shape) \o PgUpsertRelations(ids, shape)

(* Redis: a hash for each point; a chunk also has its key in the set of its *)
(* source, and the delete goes by that set.                                 *)
EnsureIndex(shape) == Request("create", {}, shape)
EnsureEntityIndex(shape) == Request("create", {}, shape)
EnsureRelationIndex(shape) == Request("create", {}, shape)
MutRedisUpsertChunks(ids, shape) ==   \* the set of the source comes at the end, for one key
    OneByOne(<<"put">>, ids, shape)
    \o Request("sadd", {CHOOSE i \in ids : TRUE}, shape)
RedisUpsertChunks(ids, shape) == OneByOne(<<"put", "sadd">>, ids, shape)
RedisUpsertEntities(ids, shape) == OneByOne(<<"put">>, ids, shape)
RedisUpsertRelations(ids, shape) == OneByOne(<<"put">>, ids, shape)
RedisDeleteBySourcePath == Request("smembers", Points, NoShape)
RedisDeleteMembers(ids) ==
    IF ids = {} THEN <<>>
    ELSE OneByOne(<<"del">>, ids, NoShape) \o Request("del set", {}, NoShape)

RedisUpsert(ids, shape) ==
    CASE vectors.kind = "chunk"    -> EnsureIndex(shape) \o RedisUpsertChunks(ids, shape)
      [] vectors.kind = "entity"   -> EnsureEntityIndex(shape) \o RedisUpsertEntities(ids, shape)
      [] vectors.kind = "relation" -> EnsureRelationIndex(shape) \o RedisUpsertRelations(ids, shape)

Upserts(ids, shape) ==
    CASE vectors.store = "qdrant"   -> QdrantUpsert(ids, shape)
      [] vectors.store = "pgvector" -> PgUpsert(ids, shape)
      [] vectors.store = "redis"    -> RedisUpsert(ids, shape)
Deletes ==
    CASE vectors.store = "qdrant"   -> IF vectors.kind = "image" THEN DeleteImageBySourcePath ELSE DeleteBySourcePath
      [] vectors.store = "pgvector" -> PgDeleteBySourcePath
      [] vectors.store = "redis"    -> RedisDeleteBySourcePath

-----------------------------------------------------------------------------
(* What the servers do.  Qdrant refuses an operation on points at once only *)
(* when there is no such collection; what it accepts it may yet fail, and a *)
(* put of vectors of another shape it always fails, after its Ok.           *)
Accepting(q) == vectors.store = "qdrant" /\ q.sends \in {"put", "delete all"}
Refused(s, q) ==
    \/ q.sends = "require" /\ q.shape.dim # MIGRATED_DIM
    \/ Accepting(q) /\ made[s] = NoShape
Unfit(s, q) == Accepting(q) /\ q.sends = "put" /\ made[s] # q.shape

(* ON CONFLICT (id) DO UPDATE also takes the project of the new row.        *)
MutStoredOnce(s, p, q) ==   \* ON CONFLICT DO NOTHING
    [i \in Points |->
        CASE i \in q.ids /\ q.sends = "put" /\ points[s][i] = NoPoint -> [owner |-> p, shape |-> q.shape]
          [] i \in q.ids /\ q.sends \in {"delete all", "drop", "del"} -> NoPoint
          [] i \in q.ids /\ q.sends = "delete own" /\ points[s][i] # NoPoint /\ points[s][i].owner = p -> NoPoint
          [] OTHER -> points[s][i]]
Stored(s, p, q) ==
    [i \in Points |->
        CASE i \in q.ids /\ q.sends = "put" -> [owner |-> p, shape |-> q.shape]
          [] i \in q.ids /\ q.sends \in {"delete all", "drop", "del"} -> NoPoint
          [] i \in q.ids /\ q.sends = "delete own" /\ points[s][i] # NoPoint /\ points[s][i].owner = p -> NoPoint
          [] OTHER -> points[s][i]]

Serve(s, p, q) ==
    /\ points' = [points EXCEPT ![s] = Stored(s, p, q)]
    /\ made' = [made EXCEPT ![s] = IF q.sends = "create" /\ @ = NoShape THEN q.shape
                                   ELSE IF q.sends = "drop" THEN NoShape ELSE @]
    /\ members' = [members EXCEPT ![s] = IF q.sends = "sadd" THEN @ \union q.ids
                                         ELSE IF q.sends = "del set" THEN {} ELSE @]
    /\ unapplied' = [unapplied EXCEPT ![s] = IF Accepting(q) THEN Append(@, points[s])
                                             ELSE IF q.sends = "drop" THEN <<>> ELSE @]
    /\ lost' = IF Accepting(q) THEN lost \ ({s} \X q.ids) ELSE lost

Lose(s, q) ==
    /\ Accepting(q) /\ lost' = lost \union ({s} \X q.ids)
    /\ UNCHANGED <<points, unapplied, made, members>>

(* The searches.  RediSearch does not index a hash whose vector has not the *)
(* dimension of the index.                                                  *)
Applied(s) == IF unapplied[s] = <<>> THEN points[s] ELSE Head(unapplied[s])
QdrantSearch(p) == {i \in Points : Applied(Space(p))[i] # NoPoint}
QdrantSearchHybrid(p) == {i \in Points : Applied(Space(p))[i] # NoPoint}
QdrantSearchEntities(p) == {i \in Points : Applied(Space(p))[i] # NoPoint}
QdrantSearchRelations(p) == {i \in Points : Applied(Space(p))[i] # NoPoint}
QdrantSearchImages(p) == {i \in Points : Applied(Space(p))[i] # NoPoint}
PgSearchChunks(p) == {i \in Points : points["shared"][i] # NoPoint /\ points["shared"][i].owner = p}
PgSearchEntities(p) == {i \in Points : points["shared"][i] # NoPoint /\ points["shared"][i].owner = p}
PgSearchRelations(p) == {i \in Points : points["shared"][i] # NoPoint /\ points["shared"][i].owner = p}
Indexed(s) == {i \in Points : points[s][i] # NoPoint /\ points[s][i].shape = made[s]}
RedisSearchChunks(p) == Indexed(Space(p))
RedisSearchEntities(p) == Indexed(Space(p))
RedisSearchRelations(p) == Indexed(Space(p))

Search(p) ==
    CASE vectors.store = "qdrant" ->
            (CASE vectors.kind = "chunk" -> QdrantSearch(p) \union QdrantSearchHybrid(p)
               [] vectors.kind = "entity" -> QdrantSearchEntities(p)
               [] vectors.kind = "relation" -> QdrantSearchRelations(p)
               [] vectors.kind = "image" -> QdrantSearchImages(p))
      [] vectors.store = "pgvector" ->
            (CASE vectors.kind = "chunk" -> PgSearchChunks(p) [] vectors.kind = "entity" -> PgSearchEntities(p)
               [] vectors.kind = "relation" -> PgSearchRelations(p))
      [] vectors.store = "redis" ->
            (CASE vectors.kind = "chunk" -> RedisSearchChunks(p) [] vectors.kind = "entity" -> RedisSearchEntities(p)
               [] vectors.kind = "relation" -> RedisSearchRelations(p))

-----------------------------------------------------------------------------
Meets(c, s, ids) == {d \in Clients \ {c} : client[d] # Resting /\ Space(client[d].project) = s
                                            /\ client[d].ids \cap ids # {}}

Call(c, p, ids, does, todo) ==
    /\ client[c] = Resting /\ requests < MaxRequests
    /\ requests' = requests + 1
    /\ client' = [d \in Clients |->
          IF d = c THEN [phase |-> "call", project |-> p, ids |-> ids, does |-> does, todo |-> todo,
                         alone |-> Meets(c, Space(p), ids) = {}]
          ELSE IF d \in Meets(c, Space(p), ids) THEN [client[d] EXCEPT !.alone = FALSE] ELSE client[d]]
    /\ kept' = [kept EXCEPT ![p] = [i \in Points |-> IF i \in ids THEN "unknown" ELSE @[i]]]
    /\ foreign' = {f \in foreign : ~(f[1] = p /\ f[2] \in ids)} \union
                  {f \in Projects \X ids : f[1] # p /\ Space(f[1]) = Space(p)
                                           /\ (vectors.store = "pgvector" => does = "in")}
    /\ hurt' = hurt \union (IF Meets(c, Space(p), ids) = {} THEN {} ELSE {Space(p)} \X ids)
    /\ UNCHANGED <<vectors, points, unapplied, made, members, lost>>

(* upsert_chunks_to_backend, upsert_entity_vectors, upsert_relation_vectors *)
(* and image_ingest: the collection is ensured, then written.               *)
Upsert(c, p, ids, shape) ==
    /\ ids # {}
    /\ shape.hybrid => vectors.store = "qdrant" /\ vectors.kind = "chunk"
    /\ Call(c, p, ids, "in", Upserts(ids, shape))

Delete(c, p) ==
    /\ vectors.kind \in {"chunk", "image"}
    /\ Call(c, p, Points, "out", Deletes)

ImageClear(c, p) == vectors.kind = "image" /\ Call(c, p, Points, "out", DeleteImageCollection)

Fail(c) ==
    /\ client' = [client EXCEPT ![c] = Resting]
    /\ hurt' = hurt \union {Space(client[c].project)} \X client[c].ids
    /\ UNCHANGED <<vectors, points, unapplied, made, members, requests, kept, foreign, lost>>

Send(c) ==
    /\ client[c] # Resting /\ client[c].todo # <<>>
    /\ LET s == Space(client[c].project)
           q == Head(client[c].todo) IN
       IF Refused(s, q) THEN Fail(c)
       ELSE /\ \/ ~Unfit(s, q) /\ Serve(s, client[c].project, q)
               \/ Lose(s, q)
            /\ client' = [client EXCEPT ![c].todo =
                  IF q.sends = "smembers" THEN RedisDeleteMembers(members[s]) ELSE Tail(@)]
            /\ UNCHANGED <<vectors, requests, kept, foreign, hurt>>

Acknowledge(c) ==
    /\ client[c] # Resting /\ client[c].todo = <<>>
    /\ kept' = IF ~client[c].alone THEN kept
               ELSE [kept EXCEPT ![client[c].project] =
                        [i \in Points |-> IF i \in client[c].ids THEN client[c].does ELSE @[i]]]
    /\ client' = [client EXCEPT ![c] = Resting]
    /\ UNCHANGED <<vectors, points, unapplied, made, members, requests, foreign, hurt, lost>>

(* The server does not answer, or the process stops.                        *)
Break(c) == client[c] # Resting /\ Fail(c)

(* Qdrant applies what it has accepted in its order, sooner or later.       *)
Apply(s) ==
    /\ unapplied[s] # <<>>
    /\ unapplied' = [unapplied EXCEPT ![s] = Tail(@)]
    /\ UNCHANGED <<vectors, points, made, members, client, requests, kept, foreign, hurt, lost>>

VecNext ==
    \/ \E c \in Clients :
          \/ \E p \in Projects, ids \in SUBSET Points, shape \in Shapes : Upsert(c, p, ids, shape)
          \/ \E p \in Projects : Delete(c, p) \/ ImageClear(c, p)
          \/ Send(c) \/ Acknowledge(c) \/ Break(c)
    \/ \E s \in Spaces : Apply(s)

VecSpec == VecInit /\ [][VecNext]_vectorVars

-----------------------------------------------------------------------------
(* A point that a project was told is stored is found by its searches once  *)
(* the store has applied what it accepted.  Three things lose it in         *)
(* silence: another project that writes a point of the same id, which takes *)
(* the row on pgvector and replaces the point in a shared collection; on    *)
(* Redis an index made for another dimension, which accepts the hash and    *)
(* does not index it; and Qdrant, where it fails what it has answered Ok.   *)
StoredIsFound ==
    \A p \in Projects, i \in Points :
        kept[p][i] = "in" /\ unapplied[Space(p)] = <<>> /\ i \notin Search(p) =>
            \/ <<p, i>> \in foreign \/ <<Space(p), i>> \in lost
            \/ /\ vectors.store = "redis"
               /\ points[Space(p)][i] # NoPoint /\ points[Space(p)][i].shape # made[Space(p)]

(* No point of a source is found after an acknowledged delete of it that    *)
(* the store has applied, however late: not by a put that was sent before   *)
(* either.  Unless another project has written it, or Qdrant has failed     *)
(* what it accepted; or, on Redis, a call on it had failed or overlapped    *)
(* before: a hash whose key is not in the set of the source stays for ever. *)
DeletedIsGone ==
    \A p \in Projects, i \in Points :
        kept[p][i] = "out" /\ unapplied[Space(p)] = <<>> /\ i \in Search(p) =>
            \/ <<p, i>> \in foreign \/ <<Space(p), i>> \in lost
            \/ vectors.store = "redis" /\ <<Space(p), i>> \in hurt
=============================================================================
