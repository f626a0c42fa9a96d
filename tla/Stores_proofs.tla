--------------------------- MODULE Stores_proofs ----------------------------
(***************************************************************************)
(* The proofs about what else is kept in stores and in files: the points of*)
(* the vector stores, the knowledge graph, backups, images and the         *)
(* migrations of the schema.  They share no state.                         *)
(***************************************************************************)
EXTENDS VectorStores, KnowledgeGraph, Backup, ImageIndex, Migrations,
        FiniteSetTheorems, SequenceTheorems, TLAPS

(***************************************************************************)
(* What is stored is found and what is deleted is gone, for any projects,  *)
(* points, clients and stores.                                             *)
(***************************************************************************)

Point == [owner: Projects, shape: Shapes]
Query == [sends: {"create", "require", "put", "sadd", "delete all", "drop", "delete own",
                  "smembers", "del", "del set"},
          ids: SUBSET Points, shape: Shapes \union {NoShape}]
Calling == [phase: {"call"}, project: Projects, ids: SUBSET Points, does: {"in", "out"},
            todo: Seq(Query), alone: BOOLEAN]
Active == {c \in Clients : client[c] # Resting}

VecShape ==
    /\ VecTypeOK
    /\ client \in [Clients -> Calling \union {Resting}]
    /\ vectors.kind = "image" => vectors.store = "qdrant"
    /\ vectors.store # "qdrant" => lost = {} /\ unapplied = [s \in Spaces |-> <<>>]

(* Where a point of a project is, and whether it is its own.                *)
At(p, i) == points[Space(p)][i]
Standing(p, i) == At(p, i) # NoPoint /\ (vectors.store = "pgvector" => At(p, i).owner = p)

-----------------------------------------------------------------------------
(* What is left to be sent.                                                 *)
Sends(todo, names, i) == \E k \in 1 .. Len(todo) : todo[k].sends \in names /\ i \in todo[k].ids
OnlySends(todo, names) == \A k \in 1 .. Len(todo) : todo[k].sends \in names
Within(todo, ids) == \A k \in 1 .. Len(todo) : todo[k].ids \subseteq ids
PutsShapes(todo) == \A k \in 1 .. Len(todo) : todo[k].sends = "put" => todo[k].shape \in Shapes

(* A point that is put is added to the set of the source later on.          *)
AddsLater(todo) ==
    \A k \in 1 .. Len(todo) : todo[k].sends = "put" =>
        \E l \in k + 1 .. Len(todo) : todo[l].sends = "sadd" /\ todo[k].ids \subseteq todo[l].ids

UpsertQueries == {"create", "require", "put", "sadd"}
DeleteQueries(store) ==
    IF store = "qdrant" THEN {"delete all", "drop"}
    ELSE IF store = "pgvector" THEN {"delete own"} ELSE {"smembers", "del", "del set"}

UpsertTodo(todo) ==
    /\ OnlySends(todo, UpsertQueries) /\ PutsShapes(todo)
    /\ vectors.store = "redis" /\ vectors.kind = "chunk" => AddsLater(todo)

DeleteTodo(todo) ==
    /\ OnlySends(todo, DeleteQueries(vectors.store))
    /\ vectors.store = "redis" =>
          \/ todo = RedisDeleteBySourcePath
          \/ \A k \in 1 .. Len(todo) : todo[k].sends # "smembers" /\ (todo[k].sends = "del set" => k = Len(todo))

TodoInv ==
    \A c \in Active :
        /\ Within(client[c].todo, client[c].ids)
        /\ client[c].does = "in" => UpsertTodo(client[c].todo)
        /\ client[c].does = "out" => client[c].ids = Points /\ DeleteTodo(client[c].todo)
                                     /\ (vectors.store = "redis" => vectors.kind = "chunk")

-----------------------------------------------------------------------------
(* Calls that meet are not alone, and have hurt the points they share.      *)
MeetInv ==
    \A c, d \in Active : c # d /\ Space(client[c].project) = Space(client[d].project) =>
        /\ client[c].ids \cap client[d].ids # {} => ~client[c].alone
        /\ \A i \in client[c].ids \cap client[d].ids : <<Space(client[c].project), i>> \in hurt

(* While a call is under way nothing is certain of its points, to its own   *)
(* project; to another that shares the space they are foreign or uncertain. *)
KnownFor(c, p, i) ==
    /\ p = client[c].project => kept[p][i] = "unknown"
    /\ /\ p # client[c].project /\ Space(p) = Space(client[c].project)
       /\ vectors.store = "pgvector" => client[c].does = "in"
       => <<p, i>> \in foreign \/ kept[p][i] = "unknown"
KnownInv == \A c \in Active, p \in Projects : \A i \in client[c].ids : KnownFor(c, p, i)

(* A call that is alone has written its points or is going to.              *)
PutInv ==
    \A c \in Active : client[c].does = "in" /\ client[c].alone =>
        \A i \in client[c].ids :
            \/ Standing(client[c].project, i) \/ Sends(client[c].todo, {"put"}, i)
            \/ <<Space(client[c].project), i>> \in lost

GoneFor(c, i) ==
    /\ vectors.store # "redis" /\ client[c].alone =>
          \/ ~Standing(client[c].project, i) \/ <<Space(client[c].project), i>> \in lost
          \/ Sends(client[c].todo, {"delete all", "drop", "delete own"}, i)
    /\ vectors.store = "redis" /\ <<Space(client[c].project), i>> \notin hurt =>
          \/ ~Standing(client[c].project, i) \/ Sends(client[c].todo, {"del"}, i)
          \/ Sends(client[c].todo, {"smembers"}, i) /\ i \in members[Space(client[c].project)]
GoneInv == \A c \in Active : client[c].does = "out" => \A i \in Points : GoneFor(c, i)

(* Redis: a hash is in the set of its source, or will be, or was hurt.      *)
MemberInv ==
    vectors.store = "redis" /\ vectors.kind = "chunk" =>
        \A s \in Spaces, i \in Points : points[s][i] # NoPoint =>
            \/ i \in members[s] \/ <<s, i>> \in hurt
            \/ \E c \in Active : Space(client[c].project) = s /\ Sends(client[c].todo, {"sadd"}, i)

(* What was acknowledged.                                                   *)
KeptInv ==
    \A p \in Projects, i \in Points : <<p, i>> \notin foreign =>
        /\ kept[p][i] = "in" => Standing(p, i) \/ <<Space(p), i>> \in lost
        /\ kept[p][i] = "out" => \/ ~Standing(p, i) \/ <<Space(p), i>> \in lost
                                 \/ vectors.store = "redis" /\ <<Space(p), i>> \in hurt

VecInv ==
    VecShape /\ TodoInv /\ MeetInv /\ KnownInv /\ PutInv /\ GoneInv /\ MemberInv /\ KeptInv

-----------------------------------------------------------------------------
(* SetToSeq goes through the whole of a finite set.                         *)
LEMMA SetToSeqIsAll ==
    ASSUME NEW S, IsFiniteSet(S)
    PROVE  /\ Cardinality(S) \in Nat
           /\ SetToSeq(S) \in [1 .. Cardinality(S) -> S]
           /\ \A x \in S : \E k \in 1 .. Cardinality(S) : SetToSeq(S)[k] = x
<1> DEFINE n == Cardinality(S)
<1>1. n \in Nat /\ ExistsBijection(1 .. n, S)
  BY FS_CardinalityType
<1>2. PICK g \in Bijection(1 .. n, S) : TRUE
  BY <1>1 DEF ExistsBijection
<1>3. g \in [1 .. n -> S] /\ IsInjective(g)
  BY <1>2 DEF Bijection, Injection
<1>4. SetToSeq(S) \in [1 .. n -> S] /\ IsInjective(SetToSeq(S))
  BY <1>3 DEF SetToSeq
<1>5. SetToSeq(S) \in Injection(1 .. n, S)
  BY <1>4 DEF Injection
<1>6. Cardinality(1 .. n) = n /\ IsFiniteSet(1 .. n)
  BY <1>1, FS_Interval
<1>7. SetToSeq(S) \in Surjection(1 .. n, S)
  BY <1>1, <1>5, <1>6, FS_Injection
<1> QED
  BY <1>1, <1>4, <1>7 DEF Surjection

(* One request for each point.                                              *)
LEMMA OneForEach ==
    ASSUME NEW name, NEW ids, NEW shape, IsFiniteSet(ids)
    PROVE  LET todo == OneByOne(<<name>>, ids, shape) IN
           /\ Len(todo) \in Nat /\ DOMAIN todo = 1 .. Len(todo)
           /\ todo \in Seq([sends: {name}, ids: SUBSET ids, shape: {shape}])
           /\ \A i \in ids : \E k \in 1 .. Len(todo) : i \in todo[k].ids
<1> DEFINE n == Cardinality(ids)
           todo == OneByOne(<<name>>, ids, shape)
<1>1. n \in Nat /\ SetToSeq(ids) \in [1 .. n -> ids]
      /\ \A x \in ids : \E k \in 1 .. n : SetToSeq(ids)[k] = x
  BY SetToSeqIsAll
<1>2. /\ <<name>>[1] = name /\ Len(<<name>>) = 1
      /\ \A k \in 1 .. n : ((k - 1) % 1) + 1 = 1 /\ ((k - 1) \div 1) + 1 = k
  BY <1>1
<1>3. todo = [k \in 1 .. n |-> [sends |-> name, shape |-> shape, ids |-> {SetToSeq(ids)[k]}]]
  <2> DEFINE one == <<name>>
  <2>1. one[1] = name /\ Len(one) = 1 /\ 1 .. Len(one) * n = 1 .. n
    BY <1>1
  <2>2. \A k \in 1 .. n : ((k - 1) % Len(one)) + 1 = 1 /\ ((k - 1) \div Len(one)) + 1 = k
    BY <1>2, <2>1
  <2>3. todo = [k \in 1 .. Len(one) * n |->
                   [sends |-> one[((k - 1) % Len(one)) + 1], shape |-> shape,
                    ids |-> {SetToSeq(ids)[((k - 1) \div Len(one)) + 1]}]]
    BY DEF OneByOne
  <2> HIDE DEF one, n, todo
  <2> QED
    BY <2>1, <2>2, <2>3
<1> HIDE DEF n, todo
<1>4. Len(todo) = n /\ DOMAIN todo = 1 .. n
  BY <1>1, <1>3
<1>5. todo \in Seq([sends: {name}, ids: SUBSET ids, shape: {shape}])
  BY <1>1, <1>3
<1>6. \A i \in ids : \E k \in 1 .. Len(todo) : i \in todo[k].ids
  BY <1>1, <1>3, <1>4
<1> QED
  BY <1>1, <1>4, <1>5, <1>6 DEF todo

(* The same for a hash and the set of the source, the set right behind it.  *)
LEMMA PutAndAddForEach ==
    ASSUME NEW ids, NEW shape, IsFiniteSet(ids)
    PROVE  LET todo == OneByOne(<<"put", "sadd">>, ids, shape) IN
           /\ Len(todo) \in Nat /\ DOMAIN todo = 1 .. Len(todo)
           /\ todo \in Seq([sends: {"put", "sadd"}, ids: SUBSET ids, shape: {shape}])
           /\ \A i \in ids : \E k \in 1 .. Len(todo) : todo[k].sends = "put" /\ i \in todo[k].ids
           /\ \A k \in 1 .. Len(todo) : todo[k].sends = "put" =>
                 \E l \in k + 1 .. Len(todo) : todo[l].sends = "sadd" /\ todo[k].ids \subseteq todo[l].ids
<1> DEFINE n == Cardinality(ids)
           todo == OneByOne(<<"put", "sadd">>, ids, shape)
           two == <<"put", "sadd">>
<1>1. n \in Nat /\ SetToSeq(ids) \in [1 .. n -> ids]
      /\ \A x \in ids : \E k \in 1 .. n : SetToSeq(ids)[k] = x
  BY SetToSeqIsAll
<1>2. two[1] = "put" /\ two[2] = "sadd" /\ Len(two) = 2
  OBVIOUS
<1>3. \A k \in 1 .. 2 * n : /\ ((k - 1) % 2) + 1 \in {1, 2}
                            /\ ((k - 1) \div 2) + 1 \in 1 .. n
  BY <1>1
<1>4. todo = [k \in 1 .. 2 * n |->
                 [sends |-> two[((k - 1) % 2) + 1], shape |-> shape,
                  ids |-> {SetToSeq(ids)[((k - 1) \div 2) + 1]}]]
  BY <1>2 DEF OneByOne
<1> HIDE DEF n, todo, two
<1>5. Len(todo) = 2 * n /\ DOMAIN todo = 1 .. 2 * n /\ 2 * n \in Nat
  BY <1>1, <1>4
<1>6. \A k \in 1 .. 2 * n : todo[k] \in [sends: {"put", "sadd"}, ids: SUBSET ids, shape: {shape}]
  <2> TAKE k \in 1 .. 2 * n
  <2>1. two[((k - 1) % 2) + 1] \in {"put", "sadd"}
    BY <1>2, <1>3
  <2>2. SetToSeq(ids)[((k - 1) \div 2) + 1] \in ids
    BY <1>1, <1>3
  <2> QED
    BY <1>4, <2>1, <2>2
<1>7. todo \in Seq([sends: {"put", "sadd"}, ids: SUBSET ids, shape: {shape}])
  <2> DEFINE R == [sends: {"put", "sadd"}, ids: SUBSET ids, shape: {shape}]
  <2>1. todo = [k \in 1 .. 2 * n |-> todo[k]]
    BY <1>4
  <2> HIDE DEF R
  <2>2. \A k \in 1 .. 2 * n : todo[k] \in R
    BY <1>6 DEF R
  <2>3. todo \in [1 .. 2 * n -> R]
    BY <2>1, <2>2
  <2>4. todo \in Seq(R)
    BY <1>5, <2>3
  <2> QED
    BY <2>4 DEF R
<1>8. \A i \in ids : \E k \in 1 .. Len(todo) : todo[k].sends = "put" /\ i \in todo[k].ids
  <2> TAKE i \in ids
  <2>1. PICK j \in 1 .. n : SetToSeq(ids)[j] = i
    BY <1>1
  <2> DEFINE k == 2 * j - 1
  <2>2. k \in 1 .. 2 * n /\ ((k - 1) % 2) + 1 = 1 /\ ((k - 1) \div 2) + 1 = j
    BY <1>1
  <2> QED
    BY <1>2, <1>4, <1>5, <2>1, <2>2
<1>9. ASSUME NEW k \in 1 .. Len(todo), todo[k].sends = "put"
      PROVE  \E l \in k + 1 .. Len(todo) : todo[l].sends = "sadd" /\ todo[k].ids \subseteq todo[l].ids
  <2>1. two[((k - 1) % 2) + 1] = "put"
    BY <1>4, <1>5, <1>9
  <2>2. ((k - 1) % 2) + 1 = 1
    BY <1>2, <1>3, <1>5, <2>1
  <2>3. k + 1 \in 1 .. 2 * n /\ ((k + 1 - 1) % 2) + 1 = 2 /\ ((k + 1 - 1) \div 2) = ((k - 1) \div 2)
    BY <1>1, <1>5, <2>2
  <2>4. todo[k].ids = {SetToSeq(ids)[((k - 1) \div 2) + 1]}
    BY <1>4, <1>5
  <2>5. /\ todo[k + 1].sends = two[((k + 1 - 1) % 2) + 1]
        /\ todo[k + 1].ids = {SetToSeq(ids)[((k + 1 - 1) \div 2) + 1]}
    BY <1>4, <2>3
  <2>6. todo[k + 1].sends = "sadd" /\ todo[k].ids \subseteq todo[k + 1].ids
    BY <1>2, <2>3, <2>4, <2>5
  <2>7. k + 1 \in k + 1 .. Len(todo)
    BY <1>1, <1>5, <2>3
  <2> QED
    BY <2>6, <2>7
<1> QED
  BY <1>5, <1>7, <1>8, <1>9 DEF todo

(* What an upsert of these points is made of.                               *)
Writes(todo, ids) ==
    /\ todo \in Seq(Query) /\ Within(todo, ids) /\ UpsertTodo(todo)
    /\ \A i \in ids : Sends(todo, {"put"}, i)

LEMMA Ensured ==
    ASSUME NEW name \in {"create", "require"}, NEW shape \in Shapes, NEW ids \in SUBSET Points,
           NEW todo, Writes(todo, ids)
    PROVE  Writes(Request(name, {}, shape) \o todo, ids)
<1> DEFINE q == [sends |-> name, ids |-> {}, shape |-> shape]
           all == Request(name, {}, shape) \o todo
<1>1. todo \in Seq(Query) /\ q \in Query /\ <<q>> \in Seq(Query) /\ Len(<<q>>) = 1 /\ <<q>>[1] = q
  <2>1. todo \in Seq(Query)
    BY DEF Writes
  <2>2. q \in Query
    BY DEF Query
  <2> QED
    BY <2>1, <2>2
<1>2. Request(name, {}, shape) = <<q>>
  BY DEF Request
<1> HIDE DEF q
<1>3. /\ all \in Seq(Query) /\ Len(all) = Len(todo) + 1 /\ Len(todo) \in Nat
      /\ all[1] = q /\ \A k \in 2 .. Len(todo) + 1 : all[k] = todo[k - 1]
  <2>1. all = <<q>> \o todo
    BY <1>2
  <2> HIDE DEF all
  <2>2. /\ all \in Seq(Query) /\ Len(all) = 1 + Len(todo)
        /\ \A k \in 1 .. 1 + Len(todo) : all[k] = IF k <= 1 THEN <<q>>[k] ELSE todo[k - 1]
    BY <1>1, <2>1, ConcatProperties
  <2> QED
    BY <1>1, <2>2
<1>4. q.sends = name /\ q.ids = {}
  BY DEF q
<1> HIDE DEF all
<1>5. \A k \in 1 .. Len(all) : \/ all[k] = q
                               \/ k - 1 \in 1 .. Len(todo) /\ all[k] = todo[k - 1]
  BY <1>3
<1>6. \A k \in 1 .. Len(todo) : k + 1 \in 1 .. Len(all) /\ all[k + 1] = todo[k]
  BY <1>3
<1>7. Within(all, ids)
  BY <1>4, <1>5 DEF Within, Writes
<1>8. OnlySends(all, UpsertQueries) /\ PutsShapes(all)
  BY <1>4, <1>5 DEF OnlySends, PutsShapes, UpsertQueries, UpsertTodo, Writes
<1>9. \A i \in ids : Sends(all, {"put"}, i)
  BY <1>6 DEF Sends, Writes
<1>10. ASSUME AddsLater(todo) PROVE AddsLater(all)
  <2> SUFFICES ASSUME NEW k \in 1 .. Len(all), all[k].sends = "put"
               PROVE  \E l \in k + 1 .. Len(all) : all[l].sends = "sadd" /\ all[k].ids \subseteq all[l].ids
    BY DEF AddsLater
  <2>1. k - 1 \in 1 .. Len(todo) /\ all[k] = todo[k - 1]
    BY <1>4, <1>5
  <2>2. PICK l \in k - 1 + 1 .. Len(todo) : todo[l].sends = "sadd" /\ todo[k - 1].ids \subseteq todo[l].ids
    BY <1>10, <2>1 DEF AddsLater
  <2>3. l \in 1 .. Len(todo) /\ l + 1 \in k + 1 .. Len(all)
    BY <1>3, <2>1, <2>2
  <2> QED
    BY <1>6, <2>1, <2>2, <2>3
<1> QED
  BY <1>3, <1>7, <1>8, <1>9, <1>10 DEF Writes, UpsertTodo, all

(* One request for all of the points, where no set is kept.                 *)
LEMMA PutAtOnce ==
    ASSUME NEW ids \in SUBSET Points, NEW shape \in Shapes, vectors.store # "redis"
    PROVE  Writes(Request("put", ids, shape), ids)
<1> DEFINE q == [sends |-> "put", ids |-> ids, shape |-> shape]
<1>1. q \in Query /\ q.sends = "put" /\ q.ids = ids /\ q.shape = shape
  BY DEF Query
<1>2. Request("put", ids, shape) = <<q>>
  BY DEF Request
<1> HIDE DEF q
<1>3. <<q>> \in Seq(Query) /\ Len(<<q>>) = 1 /\ <<q>>[1] = q
  BY <1>1
<1>4. Within(<<q>>, ids) /\ OnlySends(<<q>>, UpsertQueries) /\ PutsShapes(<<q>>)
  BY <1>1, <1>3 DEF Within, OnlySends, PutsShapes, UpsertQueries
<1>5. \A i \in ids : Sends(<<q>>, {"put"}, i)
  BY <1>1, <1>3 DEF Sends
<1> QED
  BY <1>2, <1>3, <1>4, <1>5 DEF Writes, UpsertTodo

LEMMA PutOneByOne ==
    ASSUME NEW ids \in SUBSET Points, NEW shape \in Shapes, vectors.kind # "chunk", IsFiniteSet(ids)
    PROVE  Writes(OneByOne(<<"put">>, ids, shape), ids)
<1> DEFINE todo == OneByOne(<<"put">>, ids, shape)
           R == [sends: {"put"}, ids: SUBSET ids, shape: {shape}]
<1>1. /\ Len(todo) \in Nat /\ todo \in Seq(R)
      /\ \A i \in ids : \E k \in 1 .. Len(todo) : i \in todo[k].ids
  BY OneForEach
<1>2. R \subseteq Query
  BY DEF Query
<1> HIDE DEF todo
<1>3. todo \in Seq(Query)
  BY <1>1, <1>2, SeqMonotonic
<1>4. \A k \in 1 .. Len(todo) : todo[k] \in R
  BY <1>1, ElementOfSeq
<1>5. Within(todo, ids) /\ OnlySends(todo, UpsertQueries) /\ PutsShapes(todo)
  BY <1>4 DEF Within, OnlySends, PutsShapes, UpsertQueries
<1>6. \A i \in ids : Sends(todo, {"put"}, i)
  BY <1>1, <1>4 DEF Sends
<1> QED
  BY <1>3, <1>5, <1>6 DEF Writes, UpsertTodo, todo

LEMMA PutAndAdd ==
    ASSUME NEW ids \in SUBSET Points, NEW shape \in Shapes, IsFiniteSet(ids)
    PROVE  Writes(OneByOne(<<"put", "sadd">>, ids, shape), ids)
<1> DEFINE todo == OneByOne(<<"put", "sadd">>, ids, shape)
           R == [sends: {"put", "sadd"}, ids: SUBSET ids, shape: {shape}]
<1>1. /\ Len(todo) \in Nat /\ todo \in Seq(R)
      /\ \A i \in ids : \E k \in 1 .. Len(todo) : todo[k].sends = "put" /\ i \in todo[k].ids
      /\ \A k \in 1 .. Len(todo) : todo[k].sends = "put" =>
            \E l \in k + 1 .. Len(todo) : todo[l].sends = "sadd" /\ todo[k].ids \subseteq todo[l].ids
  BY PutAndAddForEach
<1>2. R \subseteq Query
  BY DEF Query
<1> HIDE DEF todo
<1>3. todo \in Seq(Query)
  BY <1>1, <1>2, SeqMonotonic
<1>4. \A k \in 1 .. Len(todo) : todo[k] \in R
  BY <1>1, ElementOfSeq
<1>5. Within(todo, ids) /\ OnlySends(todo, UpsertQueries) /\ PutsShapes(todo)
  BY <1>4 DEF Within, OnlySends, PutsShapes, UpsertQueries
<1>6. (\A i \in ids : Sends(todo, {"put"}, i)) /\ AddsLater(todo)
  BY <1>1, <1>4 DEF Sends, AddsLater
<1> QED
  BY <1>3, <1>5, <1>6 DEF Writes, UpsertTodo, todo

LEMMA UpsertsWrite ==
    ASSUME VecShape, NEW ids \in SUBSET Points, NEW shape \in Shapes
    PROVE  Writes(Upserts(ids, shape), ids)
<1>1. IsFiniteSet(ids)
  BY VectorStoresAssumption, FS_Subset
<1>2. vectors.store \in {"qdrant", "pgvector", "redis"} /\ vectors.kind \in PointKinds
      /\ (vectors.kind = "image" => vectors.store = "qdrant") /\ shape.hybrid \in BOOLEAN
  BY DEF VecShape, VecTypeOK, Shapes
<1>3. CASE vectors.store = "qdrant"
  <2>1. Upserts(ids, shape) = Request("create", {}, shape) \o Request("put", ids, shape)
    BY <1>2, <1>3 DEF Upserts, QdrantUpsert, PointKinds, EnsureCollection, EnsureHybridCollection,
       CreateGraphCollection, CreateImageCollection, UpsertPoints, UpsertHybridPoints, UpsertEntityPoints,
       UpsertRelationPoints, UpsertImagePoints
  <2> QED
    BY <1>3, <2>1, PutAtOnce, Ensured
<1>4. CASE vectors.store = "pgvector"
  <2>1. Upserts(ids, shape) = Request("require", {}, shape) \o Request("put", ids, shape)
    BY <1>2, <1>4 DEF Upserts, PgUpsert, PointKinds, PgEnsureCollection, PgEnsureEntityCollection,
       PgEnsureRelationCollection, PgUpsertChunks, PgUpsertEntities, PgUpsertRelations
  <2> QED
    BY <1>4, <2>1, PutAtOnce, Ensured
<1>5. CASE vectors.store = "redis"
  <2>1. CASE vectors.kind = "chunk"
    <3>1. Upserts(ids, shape) = Request("create", {}, shape) \o OneByOne(<<"put", "sadd">>, ids, shape)
      BY <1>5, <2>1 DEF Upserts, RedisUpsert, EnsureIndex, RedisUpsertChunks
    <3> QED
      BY <1>1, <3>1, PutAndAdd, Ensured
  <2>2. CASE vectors.kind # "chunk"
    <3>1. Upserts(ids, shape) = Request("create", {}, shape) \o OneByOne(<<"put">>, ids, shape)
      BY <1>2, <1>5, <2>2 DEF Upserts, RedisUpsert, PointKinds, EnsureEntityIndex, EnsureRelationIndex,
         RedisUpsertEntities, RedisUpsertRelations
    <3> QED
      BY <1>1, <2>2, <3>1, PutOneByOne, Ensured
  <2> QED
    BY <2>1, <2>2
<1> QED
  BY <1>2, <1>3, <1>4, <1>5

(* What a delete of a source is made of.                                    *)
Removers == IF vectors.store = "redis" THEN {"smembers"} ELSE {"delete all", "drop", "delete own"}
Removes(todo) ==
    /\ todo \in Seq(Query) /\ DeleteTodo(todo)
    /\ \A i \in Points : Sends(todo, Removers, i)

LEMMA RemovedAtOnce ==
    ASSUME NEW name \in Removers, name \in DeleteQueries(vectors.store),
           vectors.store = "redis" => name = "smembers"
    PROVE  Removes(Request(name, Points, NoShape))
<1> DEFINE q == [sends |-> name, ids |-> Points, shape |-> NoShape]
<1>1. q \in Query /\ q.sends = name /\ q.ids = Points
  BY DEF Query, Removers
<1>2. Request(name, Points, NoShape) = <<q>>
  BY DEF Request
<1>3. vectors.store = "redis" => <<q>> = RedisDeleteBySourcePath
  BY DEF RedisDeleteBySourcePath, Request
<1> HIDE DEF q
<1>4. <<q>> \in Seq(Query) /\ Len(<<q>>) = 1 /\ <<q>>[1] = q
  BY <1>1
<1>5. OnlySends(<<q>>, DeleteQueries(vectors.store)) /\ \A i \in Points : Sends(<<q>>, Removers, i)
  BY <1>1, <1>4 DEF OnlySends, Sends
<1> QED
  BY <1>2, <1>3, <1>4, <1>5 DEF Removes, DeleteTodo

LEMMA DeletesRemove ==
    ASSUME VecShape, vectors.kind \in {"chunk", "image"}
    PROVE  Removes(Deletes) /\ (vectors.kind = "image" => Removes(DeleteImageCollection))
<1>1. vectors.store \in {"qdrant", "pgvector", "redis"} /\ (vectors.kind = "image" => vectors.store = "qdrant")
  BY DEF VecShape, VecTypeOK
<1>2. CASE vectors.store = "qdrant"
  <2>1. Removes(Request("delete all", Points, NoShape)) /\ Removes(Request("drop", Points, NoShape))
    <3>1. /\ "delete all" \in Removers /\ "delete all" \in DeleteQueries(vectors.store)
          /\ "drop" \in Removers /\ "drop" \in DeleteQueries(vectors.store)
      BY <1>2 DEF Removers, DeleteQueries
    <3> QED
      BY <1>2, <3>1, RemovedAtOnce
  <2> QED
    BY <1>2, <2>1 DEF Deletes, DeleteImageBySourcePath, DeleteBySourcePath, DeleteImageCollection
<1>3. CASE vectors.store = "pgvector"
  <2>1. Removes(Request("delete own", Points, NoShape))
    <3>1. "delete own" \in Removers /\ "delete own" \in DeleteQueries(vectors.store)
      BY <1>3 DEF Removers, DeleteQueries
    <3> QED
      BY <1>3, <3>1, RemovedAtOnce
  <2> QED
    BY <1>1, <1>3, <2>1 DEF Deletes, PgDeleteBySourcePath
<1>4. CASE vectors.store = "redis"
  <2>1. Removes(Request("smembers", Points, NoShape))
    <3>1. "smembers" \in Removers /\ "smembers" \in DeleteQueries(vectors.store)
      BY <1>4 DEF Removers, DeleteQueries
    <3> QED
      BY <1>4, <3>1, RemovedAtOnce
  <2> QED
    BY <1>1, <1>4, <2>1 DEF Deletes, RedisDeleteBySourcePath
<1> QED
  BY <1>1, <1>2, <1>3, <1>4

(* Redis deletes each key of the set it has read, and the set at the end.   *)
LEMMA MembersAreDeleted ==
    ASSUME NEW ids \in SUBSET Points, vectors.store = "redis"
    PROVE  LET todo == RedisDeleteMembers(ids) IN
           /\ todo \in Seq(Query) /\ Within(todo, Points) /\ DeleteTodo(todo)
           /\ \A i \in ids : Sends(todo, {"del"}, i)
<1> DEFINE R == [sends: {"del"}, ids: SUBSET ids, shape: {NoShape}]
           dels == OneByOne(<<"del">>, ids, NoShape)
           q == [sends |-> "del set", ids |-> {}, shape |-> NoShape]
           all == dels \o <<q>>
<1>1. CASE ids = {}
  <2>1. RedisDeleteMembers(ids) = <<>> /\ <<>> \in Seq(Query) /\ Len(<<>>) = 0
    BY <1>1 DEF RedisDeleteMembers
  <2>2. Within(<<>>, Points) /\ OnlySends(<<>>, DeleteQueries("redis"))
    BY DEF Within, OnlySends
  <2>3. DeleteTodo(<<>>)
    BY <2>2 DEF DeleteTodo
  <2> QED
    BY <1>1, <2>1, <2>2, <2>3
<1>2. CASE ids # {}
  <2>1. IsFiniteSet(ids)
    BY VectorStoresAssumption, FS_Subset
  <2>2. /\ Len(dels) \in Nat /\ dels \in Seq(R)
        /\ \A i \in ids : \E k \in 1 .. Len(dels) : i \in dels[k].ids
    BY <2>1, OneForEach
  <2>3. R \subseteq Query /\ q \in Query /\ q.sends = "del set" /\ q.ids = {}
    BY DEF Query
  <2>4. RedisDeleteMembers(ids) = all
    BY <1>2 DEF RedisDeleteMembers, Request
  <2> HIDE DEF dels, q
  <2>5. \A k \in 1 .. Len(dels) : dels[k] \in R
    BY <2>2, ElementOfSeq
  <2> HIDE DEF R
  <2>6. dels \in Seq(Query) /\ <<q>> \in Seq(Query) /\ Len(<<q>>) = 1 /\ <<q>>[1] = q
    <3>1. dels \in Seq(Query)
      BY <2>2, <2>3, SeqMonotonic
    <3>2. q \in Query
      BY <2>3
    <3>3. <<q>> \in Seq(Query) /\ Len(<<q>>) = 1 /\ <<q>>[1] = q
      BY <3>2
    <3> QED
      BY <3>1, <3>3
  <2>7. /\ all \in Seq(Query) /\ Len(all) = Len(dels) + 1
        /\ \A k \in 1 .. Len(dels) + 1 : all[k] = IF k <= Len(dels) THEN dels[k] ELSE <<q>>[k - Len(dels)]
    BY <2>6, ConcatProperties
  <2> HIDE DEF all
  <2>8. /\ \A k \in 1 .. Len(dels) : k \in 1 .. Len(all) /\ all[k] = dels[k]
        /\ all[Len(all)] = q /\ Len(all) \in Nat
        /\ \A k \in 1 .. Len(all) : k = Len(all) \/ k \in 1 .. Len(dels)
    BY <2>2, <2>6, <2>7
  <2>9. \A k \in 1 .. Len(dels) : dels[k].sends = "del" /\ dels[k].ids \subseteq ids
    BY <2>5 DEF R
  <2>10. Within(all, Points)
    BY <2>3, <2>8, <2>9 DEF Within
  <2>11. OnlySends(all, DeleteQueries("redis"))
    BY <2>3, <2>8, <2>9 DEF OnlySends, DeleteQueries
  <2>12. \A k \in 1 .. Len(all) : all[k].sends # "smembers" /\ (all[k].sends = "del set" => k = Len(all))
    BY <2>3, <2>8, <2>9
  <2>13. \A i \in ids : Sends(all, {"del"}, i)
    BY <2>2, <2>8, <2>9 DEF Sends
  <2> QED
    BY <2>4, <2>7, <2>10, <2>11, <2>12, <2>13 DEF DeleteTodo
<1> QED
  BY <1>1, <1>2

(* The first request is sent: what is true of the others.                   *)
LEMMA FirstAndRest ==
    ASSUME NEW todo \in Seq(Query), todo # <<>>
    PROVE  /\ Len(todo) \in Nat \ {0} /\ Head(todo) \in Query /\ Head(todo) = todo[1]
           /\ Tail(todo) \in Seq(Query) /\ Len(Tail(todo)) = Len(todo) - 1
           /\ \A k \in 1 .. Len(Tail(todo)) : k + 1 \in 1 .. Len(todo) /\ Tail(todo)[k] = todo[k + 1]
           /\ \A k \in 1 .. Len(todo) : k = 1 \/ (k - 1 \in 1 .. Len(Tail(todo)) /\ todo[k] = Tail(todo)[k - 1])
<1>1. /\ Len(todo) \in Nat \ {0} /\ Head(todo) \in Query /\ Head(todo) = todo[1]
      /\ Tail(todo) \in Seq(Query) /\ Len(Tail(todo)) = Len(todo) - 1
      /\ \A k \in 1 .. Len(Tail(todo)) : Tail(todo)[k] = todo[k + 1]
  BY EmptySeq, HeadTailProperties
<1> QED
  BY <1>1

LEMMA RestSends ==
    ASSUME NEW todo \in Seq(Query), todo # <<>>, NEW names, NEW i
    PROVE  /\ Sends(todo, names, i) => Sends(Tail(todo), names, i) \/ (Head(todo).sends \in names /\ i \in Head(todo).ids)
           /\ Sends(Tail(todo), names, i) => Sends(todo, names, i)
  BY FirstAndRest DEF Sends

LEMMA RestIsWithin ==
    ASSUME NEW todo \in Seq(Query), todo # <<>>, NEW ids, Within(todo, ids)
    PROVE  Within(Tail(todo), ids) /\ Head(todo).ids \subseteq ids
  BY FirstAndRest DEF Within

LEMMA RestIsOnly ==
    ASSUME NEW todo \in Seq(Query), todo # <<>>, NEW names, OnlySends(todo, names)
    PROVE  OnlySends(Tail(todo), names) /\ Head(todo).sends \in names
  BY FirstAndRest DEF OnlySends

LEMMA RestAddsLater ==
    ASSUME NEW todo \in Seq(Query), todo # <<>>, AddsLater(todo)
    PROVE  /\ AddsLater(Tail(todo))
           /\ Head(todo).sends = "put" => \A i \in Head(todo).ids : Sends(Tail(todo), {"sadd"}, i)
<1> DEFINE rest == Tail(todo)
<1>1. /\ Len(todo) \in Nat \ {0} /\ Head(todo) = todo[1] /\ Len(rest) = Len(todo) - 1
      /\ \A k \in 1 .. Len(rest) : k + 1 \in 1 .. Len(todo) /\ rest[k] = todo[k + 1]
      /\ \A k \in 1 .. Len(todo) : k = 1 \/ (k - 1 \in 1 .. Len(rest) /\ todo[k] = rest[k - 1])
  BY FirstAndRest
<1> HIDE DEF rest
<1>2. ASSUME NEW k \in 1 .. Len(todo), todo[k].sends = "put"
      PROVE  \E l \in k .. Len(rest) : l \in 1 .. Len(rest) /\ rest[l].sends = "sadd" /\ todo[k].ids \subseteq rest[l].ids
  <2>1. PICK l \in k + 1 .. Len(todo) : todo[l].sends = "sadd" /\ todo[k].ids \subseteq todo[l].ids
    BY <1>2 DEF AddsLater
  <2>2. l \in 1 .. Len(todo) /\ l # 1 /\ l - 1 \in k .. Len(rest)
    BY <1>1, <2>1
  <2> QED
    BY <1>1, <2>1, <2>2
<1>3. AddsLater(rest)
  <2> SUFFICES ASSUME NEW k \in 1 .. Len(rest), rest[k].sends = "put"
               PROVE  \E l \in k + 1 .. Len(rest) : rest[l].sends = "sadd" /\ rest[k].ids \subseteq rest[l].ids
    BY DEF AddsLater
  <2>1. k + 1 \in 1 .. Len(todo) /\ rest[k] = todo[k + 1]
    BY <1>1
  <2> QED
    BY <1>2, <2>1
<1>4. Head(todo).sends = "put" => \A i \in Head(todo).ids : Sends(rest, {"sadd"}, i)
  <2>1. 1 \in 1 .. Len(todo)
    BY <1>1
  <2> QED
    BY <1>1, <1>2, <2>1 DEF Sends
<1> QED
  BY <1>3, <1>4 DEF rest

LEMMA RestOfUpsert ==
    ASSUME NEW todo \in Seq(Query), todo # <<>>, UpsertTodo(todo)
    PROVE  UpsertTodo(Tail(todo)) /\ Head(todo).sends \in UpsertQueries
           /\ (Head(todo).sends = "put" => Head(todo).shape \in Shapes)
<1>1. OnlySends(Tail(todo), UpsertQueries) /\ Head(todo).sends \in UpsertQueries
  BY RestIsOnly DEF UpsertTodo
<1>2. PutsShapes(Tail(todo)) /\ (Head(todo).sends = "put" => Head(todo).shape \in Shapes)
  BY FirstAndRest DEF UpsertTodo, PutsShapes
<1> QED
  BY <1>1, <1>2, RestAddsLater DEF UpsertTodo

LEMMA RestOfDelete ==
    ASSUME NEW todo \in Seq(Query), todo # <<>>, DeleteTodo(todo),
           vectors.store \in {"qdrant", "pgvector", "redis"}
    PROVE  /\ Head(todo).sends \in DeleteQueries(vectors.store)
           /\ Head(todo).sends # "smembers" => DeleteTodo(Tail(todo))
           /\ Head(todo).sends = "del set" /\ vectors.store = "redis" => \A i : ~Sends(todo, {"del"}, i)
           /\ \A i : vectors.store = "redis" => \/ Head(todo).sends = "smembers" /\ ~Sends(todo, {"del"}, i)
                                                \/ Head(todo).sends # "smembers" /\ ~Sends(todo, {"smembers"}, i)
           /\ \A i : ~Sends(todo, {"sadd"}, i)
<1>4. \A i : ~Sends(todo, {"sadd"}, i)
  <2>1. "sadd" \notin DeleteQueries(vectors.store)
    BY DEF DeleteQueries
  <2> QED
    BY <2>1 DEF DeleteTodo, OnlySends, Sends
<1>1. OnlySends(Tail(todo), DeleteQueries(vectors.store)) /\ Head(todo).sends \in DeleteQueries(vectors.store)
  BY RestIsOnly DEF DeleteTodo
<1>2. CASE vectors.store = "redis" /\ todo # RedisDeleteBySourcePath
  <2>1. \A k \in 1 .. Len(todo) : todo[k].sends # "smembers" /\ (todo[k].sends = "del set" => k = Len(todo))
    BY <1>2 DEF DeleteTodo
  <2> DEFINE rest == Tail(todo)
             n == Len(todo)
             m == Len(rest)
  <2>2. /\ n \in Nat \ {0} /\ m = n - 1 /\ Head(todo) = todo[1]
        /\ \A k \in 1 .. m : rest[k] = todo[k + 1]
    BY FirstAndRest
  <2>3. \A k \in 1 .. n : todo[k].sends # "smembers" /\ (todo[k].sends = "del set" => k = n)
    BY <2>1
  <2> HIDE DEF rest, n, m
  <2>4. \A k \in 1 .. m : rest[k].sends # "smembers" /\ (rest[k].sends = "del set" => k = m)
    <3> TAKE k \in 1 .. m
    <3>1. k + 1 \in 1 .. n /\ rest[k] = todo[k + 1] /\ (k + 1 = n => k = m)
      BY <2>2
    <3> QED
      BY <2>3, <3>1
  <2>5. todo[1].sends = "del set" => n = 1
    <3>1. 1 \in 1 .. n
      BY <2>2
    <3> QED
      BY <2>3, <3>1
  <2>7. todo[1].sends = "del set" => \A i : ~Sends(todo, {"del"}, i)
    <3>1. ASSUME todo[1].sends = "del set", NEW k \in 1 .. n
          PROVE  todo[k].sends = "del set"
      <4>1. n = 1
        BY <2>5, <3>1
      <4>2. k = 1
        BY <4>1
      <4> QED
        BY <3>1, <4>2
    <3> QED
      BY <3>1 DEF Sends, n
  <2>6. \A i : ~Sends(todo, {"smembers"}, i) /\ Head(todo).sends # "smembers"
    <3>1. 1 \in 1 .. n
      BY <2>2
    <3> QED
      BY <2>2, <2>3, <3>1 DEF Sends, n
  <2> QED
    BY <1>1, <1>4, <2>2, <2>4, <2>6, <2>7 DEF DeleteTodo, rest, n, m
<1>3. CASE vectors.store = "redis" /\ todo = RedisDeleteBySourcePath
  <2>1. Head(todo).sends = "smembers" /\ Len(todo) = 1 /\ todo[1].sends = "smembers"
    BY <1>3 DEF RedisDeleteBySourcePath, Request
  <2>2. \A i : ~Sends(todo, {"del"}, i)
    BY <2>1 DEF Sends
  <2> QED
    BY <1>1, <1>4, <2>1, <2>2
<1>5. CASE vectors.store # "redis"
  BY <1>1, <1>4, <1>5 DEF DeleteTodo
<1> QED
  BY <1>2, <1>3, <1>5

-----------------------------------------------------------------------------
LEMMA BusyClient ==
    ASSUME VecShape, NEW c \in Active
    PROVE  /\ c \in Clients /\ client[c] \in Calling
           /\ client[c].project \in Projects /\ client[c].ids \in SUBSET Points
           /\ client[c].does \in {"in", "out"} /\ client[c].todo \in Seq(Query)
           /\ client[c].alone \in BOOLEAN /\ client[c].phase = "call"
           /\ Space(client[c].project) \in Spaces
<1>1. client[c] \in Calling /\ c \in Clients
  BY DEF Active, VecShape
<1> QED
  BY <1>1 DEF Calling, Space, Spaces

LEMMA CallingIsBusy == \A x \in Calling : x # Resting
  BY DEF Calling, Resting

LEMMA SameSpace == vectors' = vectors => \A p \in Projects : Space(p)' = Space(p)
  BY DEF Space

(* A call begins.                                                           *)
LEMMA CallKeeps ==
    ASSUME VecInv, NEW c \in Clients, NEW p \in Projects, NEW ids \in SUBSET Points,
           NEW does \in {"in", "out"}, NEW todo \in Seq(Query), Within(todo, ids),
           does = "in" => UpsertTodo(todo) /\ \A i \in ids : Sends(todo, {"put"}, i),
           does = "out" => ids = Points /\ Removes(todo) /\ (vectors.store = "redis" => vectors.kind = "chunk"),
           Call(c, p, ids, does, todo)
    PROVE  VecInv'
<1> DEFINE met == Meets(c, Space(p), ids)
<1>1. /\ client[c] = Resting /\ c \notin Active /\ requests' = requests + 1 /\ requests < MaxRequests
      /\ vectors' = vectors /\ points' = points /\ made' = made /\ members' = members
      /\ unapplied' = unapplied /\ lost' = lost /\ VecShape
  BY DEF Call, Active, VecInv
<1>2. \A x \in Projects : Space(x)' = Space(x)
  BY <1>1, SameSpace
<1>3. /\ client'[c] \in Calling /\ client'[c].project = p /\ client'[c].ids = ids
      /\ client'[c].does = does /\ client'[c].todo = todo /\ client'[c].alone = (met = {})
  BY DEF Call, Calling
<1>4. ASSUME NEW d \in Active
      PROVE  /\ d \in Clients \ {c} /\ client'[d] \in Calling
             /\ client'[d].project = client[d].project /\ client'[d].ids = client[d].ids
             /\ client'[d].does = client[d].does /\ client'[d].todo = client[d].todo
             /\ client'[d].alone => client[d].alone
             /\ d \in met => ~client'[d].alone
  <2>1. d \in Clients \ {c} /\ client[d] \in Calling
    BY <1>1, BusyClient
  <2>2. client'[d] = IF d \in met THEN [client[d] EXCEPT !.alone = FALSE] ELSE client[d]
    BY <2>1 DEF Call
  <2> HIDE DEF met
  <2> QED
    BY <2>1, <2>2 DEF Calling
<1>5. \A d \in Clients : d # c /\ d \notin Active => client'[d] = Resting
  BY DEF Call, Active, Meets
<1>6. Active' = Active \union {c}
  BY <1>3, <1>4, <1>5, CallingIsBusy DEF Active
<1>7. ASSUME NEW d \in Active, Space(client[d].project) = Space(p), client[d].ids \cap ids # {}
      PROVE  /\ ~client'[d].alone /\ ~client'[c].alone
             /\ \A i \in ids : <<Space(p), i>> \in hurt'
  <2>1. d \in met
    BY <1>1, <1>7 DEF Meets, Active
  <2>2. hurt' = hurt \union {Space(p)} \X ids
    BY <2>1 DEF Call
  <2> QED
    BY <1>3, <1>4, <2>1, <2>2
<1>8. hurt \subseteq hurt'
  BY DEF Call
<1>9. /\ kept' \in [Projects -> [Points -> {"none", "unknown", "out", "in"}]]
      /\ \A q \in Projects, i \in Points :
            kept'[q][i] = IF q = p /\ i \in ids THEN "unknown" ELSE kept[q][i]
  BY <1>1 DEF Call, VecShape, VecTypeOK
<1>10. /\ foreign' \subseteq Projects \X Points
       /\ \A q \in Projects, i \in Points : <<q, i>> \in foreign /\ ~(q = p /\ i \in ids) => <<q, i>> \in foreign'
       /\ \A q \in Projects, i \in ids :
             q # p /\ Space(q) = Space(p) /\ (vectors.store = "pgvector" => does = "in") => <<q, i>> \in foreign'
       /\ \A q \in Projects, i \in Points : <<q, i>> \in foreign' => <<q, i>> \in foreign \/ i \in ids
  BY <1>1 DEF Call, VecShape, VecTypeOK
<1>11. \A q \in Projects, i \in Points : <<q, i>> \notin foreign' => <<q, i>> \notin foreign \/ kept'[q][i] = "unknown"
  BY <1>9, <1>10
<1>12. VecShape'
  <2>1. client' \in [Clients -> Calling \union {Resting}]
    BY <1>3, <1>4, <1>5 DEF Call
  <2>2. hurt' \subseteq Spaces \X Points
    BY <1>1 DEF Call, VecShape, VecTypeOK, Space, Spaces
  <2>3. \A d \in Clients : client'[d].phase \in {"rest", "call"}
    BY <2>1 DEF Calling, Resting
  <2>4. requests' \in 0 .. MaxRequests
    BY <1>1, VectorStoresAssumption DEF VecShape, VecTypeOK
  <2> QED
    BY <1>1, <1>9, <1>10, <2>1, <2>2, <2>3, <2>4 DEF VecShape, VecTypeOK, Spaces, Contents
<1> HIDE DEF met
<1>13. TodoInv'
  <2>1. \A t : (UpsertTodo(t)' <=> UpsertTodo(t)) /\ (DeleteTodo(t)' <=> DeleteTodo(t))
    BY <1>1 DEF UpsertTodo, DeleteTodo
  <2> QED
    BY <1>1, <1>3, <1>4, <1>6, <2>1 DEF TodoInv, VecInv, Removes
<1>14. MeetInv'
  BY <1>1, <1>2, <1>3, <1>4, <1>6, <1>7, <1>8, BusyClient DEF MeetInv, VecInv
<1>15. KnownInv'
  <2> SUFFICES ASSUME NEW d \in Active', NEW q \in Projects, NEW i \in client'[d].ids
               PROVE  KnownFor(d, q, i)'
    BY DEF KnownInv
  <2>1. CASE d = c
    <3>1. Space(client[c].project)' = Space(p) /\ Space(q)' = Space(q)
      BY <1>1, <1>3 DEF Space
    <3> QED
      BY <1>1, <1>3, <1>9, <1>10, <2>1, <3>1 DEF KnownFor
  <2>2. CASE d # c
    <3>1. /\ d \in Active /\ i \in Points /\ i \in client[d].ids
          /\ client'[d].project = client[d].project /\ client'[d].does = client[d].does
          /\ client[d].project \in Projects
      BY <1>1, <1>4, <1>6, <2>2, BusyClient
    <3>2. KnownFor(d, q, i)
      BY <3>1 DEF KnownInv, VecInv
    <3>3. Space(client[d].project)' = Space(client[d].project) /\ Space(q)' = Space(q)
      BY <1>1, <3>1 DEF Space
    <3> QED
      BY <1>1, <1>9, <1>11, <3>1, <3>2, <3>3 DEF KnownFor
  <2> QED
    BY <2>1, <2>2
<1>16. \A q \in Projects, i \in Points : (Standing(q, i)' <=> Standing(q, i))
  BY <1>1, <1>2 DEF Standing, At
<1>17. PutInv'
  BY <1>1, <1>2, <1>3, <1>4, <1>6, <1>16, BusyClient DEF PutInv, VecInv
<1>18. GoneInv'
  <2> SUFFICES ASSUME NEW d \in Active', client'[d].does = "out", NEW i \in Points
               PROVE  GoneFor(d, i)'
    BY DEF GoneInv
  <2>1. CASE d = c
    <3>1. does = "out" /\ ids = Points /\ Sends(todo, Removers, i)
      BY <1>3, <2>1 DEF Removes
    <3>2. vectors.store # "redis" => Sends(todo, {"delete all", "drop", "delete own"}, i)
      BY <3>1 DEF Removers
    <3>3. ASSUME vectors.store = "redis", <<Space(p), i>> \notin hurt', Standing(p, i)
          PROVE  Sends(todo, {"smembers"}, i) /\ i \in members[Space(p)]
      <4>1. vectors.kind = "chunk" /\ Sends(todo, {"smembers"}, i)
        BY <3>1, <3>3 DEF Removers
      <4>2. Space(p) \in Spaces /\ points[Space(p)][i] # NoPoint
        BY <3>3 DEF Space, Spaces, Standing, At
      <4>3. \/ i \in members[Space(p)]
            \/ \E e \in Active : Space(client[e].project) = Space(p) /\ Sends(client[e].todo, {"sadd"}, i)
        BY <1>8, <3>3, <4>1, <4>2 DEF MemberInv, VecInv
      <4>4. ASSUME NEW e \in Active, Space(client[e].project) = Space(p), Sends(client[e].todo, {"sadd"}, i)
            PROVE  FALSE
        <5>1. i \in client[e].ids
          BY <4>4 DEF TodoInv, VecInv, Within, Sends
        <5> QED
          BY <1>7, <3>1, <3>3, <4>4, <5>1
      <4> QED
        BY <4>1, <4>3, <4>4
    <3>4. Space(client[c].project)' = Space(p) /\ (Standing(client[c].project, i)' <=> Standing(p, i))
      BY <1>1, <1>3 DEF Space, Standing, At
    <3> QED
      BY <1>1, <1>3, <2>1, <3>2, <3>3, <3>4 DEF GoneFor
  <2>2. CASE d # c
    <3>1. /\ d \in Active /\ client'[d].project = client[d].project /\ client'[d].todo = client[d].todo
          /\ client[d].does = "out" /\ (client'[d].alone => client[d].alone) /\ client[d].project \in Projects
      BY <1>1, <1>4, <1>6, <2>2, BusyClient
    <3>2. GoneFor(d, i)
      BY <3>1 DEF GoneInv, VecInv
    <3>3. /\ Space(client[d].project)' = Space(client[d].project)
          /\ Standing(client[d].project, i)' <=> Standing(client[d].project, i)
      BY <1>1, <3>1 DEF Space, Standing, At
    <3> QED
      BY <1>1, <1>8, <3>1, <3>2, <3>3 DEF GoneFor
  <2> QED
    BY <2>1, <2>2
<1>19. MemberInv'
  BY <1>1, <1>2, <1>3, <1>4, <1>6, <1>8, BusyClient DEF MemberInv, VecInv
<1>20. KeptInv'
  BY <1>1, <1>2, <1>8, <1>9, <1>11, <1>16 DEF KeptInv, VecInv
<1> QED
  BY <1>12, <1>13, <1>14, <1>15, <1>17, <1>18, <1>19, <1>20 DEF VecInv

(* A call ends, acknowledged or not: the others are left as they are.       *)
LEMMA EndedCall ==
    ASSUME VecInv, NEW c \in Active, client' = [client EXCEPT ![c] = Resting], UNCHANGED vectors
    PROVE  /\ Active' = Active \ {c}
           /\ client' \in [Clients -> Calling \union {Resting}]
           /\ \A d \in Active \ {c} : client'[d] = client[d]
           /\ TodoInv'
<1>1. client \in [Clients -> Calling \union {Resting}] /\ c \in Clients
  BY DEF VecInv, VecShape, Active
<1>2. Active' = Active \ {c} /\ \A d \in Active \ {c} : client'[d] = client[d] /\ d \in Clients
  BY <1>1 DEF Active
<1>3. TodoInv'
  <2>1. \A t : (UpsertTodo(t)' <=> UpsertTodo(t)) /\ (DeleteTodo(t)' <=> DeleteTodo(t))
    BY DEF UpsertTodo, DeleteTodo
  <2> QED
    BY <1>2, <2>1 DEF TodoInv, VecInv
<1> QED
  BY <1>1, <1>2, <1>3

LEMMA FailKeeps ==
    ASSUME VecInv, NEW c \in Active, Fail(c)
    PROVE  VecInv'
<1>1. /\ client' = [client EXCEPT ![c] = Resting] /\ VecShape
      /\ hurt' = hurt \union {Space(client[c].project)} \X client[c].ids
      /\ UNCHANGED <<vectors, points, unapplied, made, members, requests, kept, foreign, lost>>
  BY DEF Fail, VecInv
<1>2. /\ Active' = Active \ {c} /\ client' \in [Clients -> Calling \union {Resting}]
      /\ \A d \in Active' : d \in Active /\ client'[d] = client[d]
      /\ TodoInv'
  BY <1>1, EndedCall
<1>3. \A p \in Projects : Space(p)' = Space(p)
  BY <1>1, SameSpace
<1>4. VecShape'
  <2>1. hurt' \subseteq Spaces \X Points
    BY <1>1, BusyClient DEF VecShape, VecTypeOK
  <2>2. \A d \in Clients : client'[d].phase \in {"rest", "call"}
    BY <1>2 DEF Calling, Resting
  <2> QED
    BY <1>1, <1>2, <2>1, <2>2 DEF VecShape, VecTypeOK, Spaces, Contents
<1>5. \A p, i : (Standing(p, i)' <=> Standing(p, i)) /\ Space(p)' = Space(p)
  BY <1>1 DEF Standing, At, Space
<1>6. \A d \in Active' : /\ Space(client[d].project)' = Space(client[d].project)
                          /\ \A i : Standing(client[d].project, i)' <=> Standing(client[d].project, i)
  BY <1>1, <1>2 DEF Standing, At, Space
<1>7. MeetInv'
  BY <1>1, <1>2, <1>6 DEF MeetInv, VecInv
<1>8. KnownInv'
  <2> SUFFICES ASSUME NEW d \in Active', NEW q \in Projects, NEW i \in client'[d].ids
               PROVE  KnownFor(d, q, i)'
    BY DEF KnownInv
  <2>1. d \in Active /\ client'[d] = client[d] /\ KnownFor(d, q, i)
    BY <1>2 DEF KnownInv, VecInv
  <2> QED
    BY <1>1, <1>5, <1>6, <2>1 DEF KnownFor
<1>9. PutInv'
  BY <1>1, <1>2, <1>6 DEF PutInv, VecInv
<1>10. GoneInv'
  <2> SUFFICES ASSUME NEW d \in Active', client'[d].does = "out", NEW i \in Points
               PROVE  GoneFor(d, i)'
    BY DEF GoneInv
  <2>1. d \in Active /\ client'[d] = client[d] /\ GoneFor(d, i)
    BY <1>2 DEF GoneInv, VecInv
  <2> QED
    <3>1. /\ Space(client[d].project)' = Space(client[d].project)
          /\ Standing(client[d].project, i)' <=> Standing(client[d].project, i)
      BY <1>6
    <3>2. vectors' = vectors /\ members' = members /\ hurt \subseteq hurt' /\ lost' = lost
      BY <1>1
    <3> QED
      BY <2>1, <3>1, <3>2 DEF GoneFor
<1>11. MemberInv'
  <2> SUFFICES ASSUME vectors.store = "redis", vectors.kind = "chunk",
                      NEW s \in Spaces, NEW i \in Points, points[s][i] # NoPoint
               PROVE  \/ i \in members[s] \/ <<s, i>> \in hurt'
                      \/ \E d \in Active' : Space(client[d].project)' = s /\ Sends(client'[d].todo, {"sadd"}, i)
    BY <1>1 DEF MemberInv, Spaces
  <2>1. \/ i \in members[s] \/ <<s, i>> \in hurt
        \/ \E d \in Active : Space(client[d].project) = s /\ Sends(client[d].todo, {"sadd"}, i)
    BY DEF MemberInv, VecInv
  <2>2. ASSUME Space(client[c].project) = s, Sends(client[c].todo, {"sadd"}, i)
        PROVE  <<s, i>> \in hurt'
    <3>1. i \in client[c].ids
      BY <2>2 DEF TodoInv, VecInv, Within, Sends
    <3> QED
      BY <1>1, <2>2, <3>1
  <2> QED
    BY <1>1, <1>2, <1>6, <2>1, <2>2
<1>12. KeptInv'
  BY <1>1, <1>5 DEF KeptInv, VecInv
<1> QED
  BY <1>2, <1>4, <1>7, <1>8, <1>9, <1>10, <1>11, <1>12 DEF VecInv

LEMMA AcknowledgeKeeps ==
    ASSUME VecInv, NEW c \in Active, Acknowledge(c)
    PROVE  VecInv'
<1>1. /\ client' = [client EXCEPT ![c] = Resting] /\ VecShape /\ client[c].todo = <<>>
      /\ UNCHANGED <<vectors, points, unapplied, made, members, requests, foreign, hurt, lost>>
  BY DEF Acknowledge, VecInv
<1>2. /\ Active' = Active \ {c} /\ client' \in [Clients -> Calling \union {Resting}]
      /\ \A d \in Active' : d \in Active /\ client'[d] = client[d]
      /\ TodoInv'
  BY <1>1, EndedCall
<1>3. /\ c \in Clients /\ client[c].project \in Projects /\ client[c].ids \in SUBSET Points
      /\ client[c].does \in {"in", "out"}
  BY <1>1, BusyClient
<1>4. /\ kept' \in [Projects -> [Points -> {"none", "unknown", "out", "in"}]]
      /\ \A q \in Projects, i \in Points :
            kept'[q][i] = IF client[c].alone /\ q = client[c].project /\ i \in client[c].ids
                          THEN client[c].does ELSE kept[q][i]
  BY <1>1, <1>3 DEF Acknowledge, VecShape, VecTypeOK
<1>5. VecShape'
  <2>1. \A d \in Clients : client'[d].phase \in {"rest", "call"}
    BY <1>2 DEF Calling, Resting
  <2> QED
    BY <1>1, <1>2, <1>4, <2>1 DEF VecShape, VecTypeOK, Spaces, Contents
<1>6. \A p, i : (Standing(p, i)' <=> Standing(p, i)) /\ Space(p)' = Space(p)
  BY <1>1 DEF Standing, At, Space
<1>7. \A d \in Active' : /\ Space(client[d].project)' = Space(client[d].project)
                          /\ \A i : Standing(client[d].project, i)' <=> Standing(client[d].project, i)
  BY <1>1, <1>2 DEF Standing, At, Space
<1>8. \A names, i : ~Sends(<<>>, names, i)
  BY DEF Sends
<1>9. MeetInv'
  BY <1>1, <1>2, <1>7 DEF MeetInv, VecInv
<1>10. KnownInv'
  <2> SUFFICES ASSUME NEW d \in Active', NEW q \in Projects, NEW i \in client'[d].ids
               PROVE  KnownFor(d, q, i)'
    BY DEF KnownInv
  <2>1. /\ d \in Active \ {c} /\ client'[d] = client[d] /\ i \in client[d].ids /\ i \in Points
        /\ client[d].project \in Projects
    BY <1>1, <1>2, BusyClient
  <2>2. KnownFor(d, q, i)
    BY <2>1 DEF KnownInv, VecInv
  <2>3. Space(client[d].project) = Space(client[c].project) /\ i \in client[c].ids => ~client[c].alone
    BY <2>1 DEF MeetInv, VecInv
  <2> QED
    BY <1>1, <1>4, <1>6, <1>7, <2>1, <2>2, <2>3 DEF KnownFor
<1>11. PutInv'
  BY <1>1, <1>2, <1>7 DEF PutInv, VecInv
<1>12. GoneInv'
  <2> SUFFICES ASSUME NEW d \in Active', client'[d].does = "out", NEW i \in Points
               PROVE  GoneFor(d, i)'
    BY DEF GoneInv
  <2>1. d \in Active /\ client'[d] = client[d] /\ GoneFor(d, i)
    BY <1>2 DEF GoneInv, VecInv
  <2> QED
    <3>1. /\ Space(client[d].project)' = Space(client[d].project)
          /\ Standing(client[d].project, i)' <=> Standing(client[d].project, i)
      BY <1>7
    <3>2. vectors' = vectors /\ members' = members /\ hurt \subseteq hurt' /\ lost' = lost
      BY <1>1
    <3> QED
      BY <2>1, <3>1, <3>2 DEF GoneFor
<1>13. MemberInv'
  <2> SUFFICES ASSUME vectors.store = "redis", vectors.kind = "chunk",
                      NEW s \in Spaces, NEW i \in Points, points[s][i] # NoPoint
               PROVE  \/ i \in members[s] \/ <<s, i>> \in hurt
                      \/ \E d \in Active' : Space(client[d].project)' = s /\ Sends(client'[d].todo, {"sadd"}, i)
    BY <1>1 DEF MemberInv, Spaces
  <2>1. \/ i \in members[s] \/ <<s, i>> \in hurt
        \/ \E d \in Active : Space(client[d].project) = s /\ Sends(client[d].todo, {"sadd"}, i)
    BY DEF MemberInv, VecInv
  <2> QED
    BY <1>1, <1>2, <1>7, <1>8, <2>1
<1>14. KeptInv'
  <2> SUFFICES ASSUME NEW q \in Projects, NEW i \in Points, <<q, i>> \notin foreign
               PROVE  /\ kept'[q][i] = "in" => Standing(q, i) \/ <<Space(q), i>> \in lost
                      /\ kept'[q][i] = "out" => \/ ~Standing(q, i) \/ <<Space(q), i>> \in lost
                                                \/ vectors.store = "redis" /\ <<Space(q), i>> \in hurt
    BY <1>1, <1>6 DEF KeptInv
  <2>1. CASE client[c].alone /\ q = client[c].project /\ i \in client[c].ids
    <3>1. client[c].does = "in" => Standing(q, i) \/ <<Space(q), i>> \in lost
      BY <1>1, <1>8, <2>1 DEF PutInv, VecInv
    <3>2. client[c].does = "out" => \/ ~Standing(q, i) \/ <<Space(q), i>> \in lost
                                    \/ vectors.store = "redis" /\ <<Space(q), i>> \in hurt
      BY <1>1, <1>8, <2>1 DEF GoneInv, GoneFor, VecInv
    <3> QED
      BY <1>4, <2>1, <3>1, <3>2
  <2>2. CASE ~(client[c].alone /\ q = client[c].project /\ i \in client[c].ids)
    BY <1>4, <2>2 DEF KeptInv, VecInv
  <2> QED
    BY <2>1, <2>2
<1> QED
  BY <1>2, <1>5, <1>9, <1>10, <1>11, <1>12, <1>13, <1>14 DEF VecInv

(* A request is served.                                                     *)
LEMMA ServeKeeps ==
    ASSUME VecInv, NEW c \in Active, client[c].todo # <<>>,
           NEW s, s = Space(client[c].project), NEW q, q = Head(client[c].todo),
           Serve(s, client[c].project, q),
           client' = [client EXCEPT ![c].todo = IF q.sends = "smembers" THEN RedisDeleteMembers(members[s]) ELSE Tail(@)],
           UNCHANGED <<vectors, requests, kept, foreign, hurt>>
    PROVE  VecInv'
<1> DEFINE p == client[c].project
           rest == client'[c].todo
<1>1. /\ c \in Clients /\ p \in Projects /\ client[c].ids \in SUBSET Points /\ client[c].todo \in Seq(Query)
      /\ client[c].does \in {"in", "out"} /\ s \in Spaces /\ client[c] \in Calling /\ VecShape
      /\ client \in [Clients -> Calling \union {Resting}]
  BY BusyClient DEF VecInv, VecShape
<1>2. q \in Query /\ q.ids \subseteq client[c].ids /\ Within(Tail(client[c].todo), client[c].ids)
  BY <1>1, FirstAndRest, RestIsWithin DEF TodoInv, VecInv
<1>3. client[c].does = "in" => q.sends \in UpsertQueries /\ UpsertTodo(Tail(client[c].todo))
                               /\ (q.sends = "put" => q.shape \in Shapes)
  BY <1>1, RestOfUpsert DEF TodoInv, VecInv
<1>0. vectors.store \in {"qdrant", "pgvector", "redis"}
  BY <1>1 DEF VecShape, VecTypeOK
<1>4. client[c].does = "out" =>
         /\ q.sends \in DeleteQueries(vectors.store)
         /\ q.sends # "smembers" => DeleteTodo(Tail(client[c].todo))
         /\ q.sends = "del set" /\ vectors.store = "redis" => \A i : ~Sends(client[c].todo, {"del"}, i)
         /\ client[c].ids = Points /\ (vectors.store = "redis" => vectors.kind = "chunk")
         /\ \A i : vectors.store = "redis" => \/ q.sends = "smembers" /\ ~Sends(client[c].todo, {"del"}, i)
                                              \/ q.sends # "smembers" /\ ~Sends(client[c].todo, {"smembers"}, i)
         /\ \A i : ~Sends(client[c].todo, {"sadd"}, i)
  BY <1>0, <1>1, RestOfDelete DEF TodoInv, VecInv
<1>5. /\ client[c].does = "in" => q.sends # "smembers" /\ q.sends \notin {"delete all", "drop", "delete own", "del", "del set"}
      /\ client[c].does = "out" => /\ q.sends \notin UpsertQueries /\ (q.sends = "smembers" => vectors.store = "redis")
                                   /\ vectors.store = "redis" <=> q.sends \in {"smembers", "del", "del set"}
                                   /\ vectors.store = "pgvector" <=> q.sends = "delete own"
  <2>1. CASE client[c].does = "in"
    BY <1>3, <2>1 DEF UpsertQueries
  <2>2. CASE client[c].does = "out"
    <3>1. DeleteQueries(vectors.store) \in {{"delete all", "drop"}, {"delete own"}, {"smembers", "del", "del set"}}
      BY <1>0 DEF DeleteQueries
    <3>2. /\ vectors.store = "redis" <=> q.sends \in {"smembers", "del", "del set"}
          /\ vectors.store = "pgvector" <=> q.sends = "delete own"
      BY <1>0, <1>4, <2>2 DEF DeleteQueries
    <3> QED
      BY <1>4, <2>2, <3>1, <3>2 DEF UpsertQueries
  <2> QED
    BY <1>1, <2>1, <2>2
<1>6. members[s] \in SUBSET Points
  BY <1>1 DEF VecShape, VecTypeOK
<1>7. /\ rest = (IF q.sends = "smembers" THEN RedisDeleteMembers(members[s]) ELSE Tail(client[c].todo))
      /\ client'[c].project = p /\ client'[c].ids = client[c].ids /\ client'[c].does = client[c].does
      /\ client'[c].alone = client[c].alone
      /\ \A d \in Clients \ {c} : client'[d] = client[d]
  BY <1>1 DEF Calling
<1>8. /\ rest \in Seq(Query) /\ Within(rest, client[c].ids)
      /\ client[c].does = "in" => UpsertTodo(rest)
      /\ client[c].does = "out" => DeleteTodo(rest)
  <2>1. CASE q.sends = "smembers"
    BY <1>1, <1>4, <1>5, <1>6, <1>7, <2>1, MembersAreDeleted
  <2>2. CASE q.sends # "smembers"
    BY <1>1, <1>2, <1>3, <1>4, <1>7, <2>2, FirstAndRest
  <2> QED
    BY <2>1, <2>2
<1> HIDE DEF rest
<1>9. client'[c] \in Calling /\ client' \in [Clients -> Calling \union {Resting}]
  <2>1. client'[c] \in Calling
    BY <1>1, <1>7, <1>8 DEF Calling, rest
  <2> QED
    BY <1>1, <2>1
<1>10. /\ Active' = Active
       /\ \A d \in Active : /\ client'[d].project = client[d].project /\ client'[d].ids = client[d].ids
                             /\ client'[d].does = client[d].does /\ client'[d].alone = client[d].alone
                             /\ (d # c => client'[d].todo = client[d].todo)
  BY <1>1, <1>7, <1>9, CallingIsBusy DEF Active
<1>11. \A x, i : Space(x)' = Space(x)
  BY DEF Space
<1>12. \A d \in Active : Space(client[d].project)' = Space(client[d].project)
  BY <1>10 DEF Space
<1>13. /\ points' \in [Spaces -> [Points -> [owner: Projects, shape: Shapes] \union {NoPoint}]]
       /\ \A t \in Spaces, i \in Points : t # s \/ i \notin q.ids => points'[t][i] = points[t][i]
       /\ \A i \in q.ids :
             /\ q.sends = "put" => points'[s][i] = [owner |-> p, shape |-> q.shape]
             /\ q.sends \in {"delete all", "drop", "del"} => points'[s][i] = NoPoint
             /\ q.sends = "delete own" => points'[s][i] = IF points[s][i] # NoPoint /\ points[s][i].owner = p
                                                           THEN NoPoint ELSE points[s][i]
             /\ q.sends \in {"create", "require", "sadd", "smembers", "del set"} => points'[s][i] = points[s][i]
  <2>1. points' = [points EXCEPT ![s] = Stored(s, p, q)]
    BY DEF Serve
  <2>2. points \in [Spaces -> [Points -> [owner: Projects, shape: Shapes] \union {NoPoint}]]
    BY <1>1 DEF VecShape, VecTypeOK, Contents
  <2>3. \A i \in Points : points[s][i] \in [owner: Projects, shape: Shapes] \union {NoPoint}
    BY <1>1, <2>2
  <2>4. q.sends = "put" => q.shape \in Shapes
    BY <1>1, <1>3, <1>5 DEF UpsertQueries
  <2>5. Stored(s, p, q) \in [Points -> [owner: Projects, shape: Shapes] \union {NoPoint}]
    BY <1>1, <2>3, <2>4 DEF Stored
  <2>6. \A i \in Points : i \notin q.ids => Stored(s, p, q)[i] = points[s][i]
    BY DEF Stored
  <2>7. \A i \in q.ids :
             /\ q.sends = "put" => Stored(s, p, q)[i] = [owner |-> p, shape |-> q.shape]
             /\ q.sends \in {"delete all", "drop", "del"} => Stored(s, p, q)[i] = NoPoint
             /\ q.sends = "delete own" => Stored(s, p, q)[i] = IF points[s][i] # NoPoint /\ points[s][i].owner = p
                                                             THEN NoPoint ELSE points[s][i]
             /\ q.sends \in {"create", "require", "sadd", "smembers", "del set"} => Stored(s, p, q)[i] = points[s][i]
    BY <1>1, <1>2 DEF Stored
  <2> HIDE DEF p
  <2> QED
    BY <1>1, <2>1, <2>2, <2>5, <2>6, <2>7
<1>14. /\ members' \in [Spaces -> SUBSET Points]
       /\ \A t \in Spaces \ {s} : members'[t] = members[t]
       /\ q.sends # "del set" => members[s] \subseteq members'[s]
       /\ q.sends = "sadd" => q.ids \subseteq members'[s]
  BY <1>1, <1>2 DEF Serve, VecShape, VecTypeOK
<1>30. /\ unapplied' \in [Spaces -> Seq(Contents)] /\ lost' = (IF Accepting(q) THEN lost \ ({s} \X q.ids) ELSE lost)
       /\ vectors.store # "qdrant" => lost' = {} /\ unapplied' = [t \in Spaces |-> <<>>]
  <2>1. unapplied \in [Spaces -> Seq(Contents)] /\ points[s] \in Contents
    BY <1>1 DEF VecShape, VecTypeOK
  <2>2. lost' = IF Accepting(q) THEN lost \ ({s} \X q.ids) ELSE lost
    BY DEF Serve
  <2>3. Append(unapplied[s], points[s]) \in Seq(Contents) /\ <<>> \in Seq(Contents)
    BY <1>1, <2>1
  <2>4. unapplied' = [unapplied EXCEPT ![s] = IF Accepting(q) THEN Append(@, points[s])
                                              ELSE IF q.sends = "drop" THEN <<>> ELSE @]
    BY DEF Serve
  <2>5. unapplied' \in [Spaces -> Seq(Contents)]
    BY <1>1, <2>1, <2>3, <2>4
  <2>6. ASSUME vectors.store # "qdrant"
        PROVE  lost' = {} /\ unapplied' = [t \in Spaces |-> <<>>]
    BY <1>1, <2>2, <2>4, <2>6 DEF VecShape, Accepting
  <2> QED
    BY <2>2, <2>5, <2>6
<1>15. made' \in [Spaces -> Shapes \union {NoShape}]
  BY <1>1, <1>2 DEF Serve, VecShape, VecTypeOK, Query
<1>16. VecShape'
  <2>1. \A d \in Clients : client'[d].phase \in {"rest", "call"}
    BY <1>9 DEF Calling, Resting
  <2> QED
    BY <1>1, <1>9, <1>13, <1>14, <1>15, <1>30, <2>1 DEF VecShape, VecTypeOK, Spaces, Contents
<1>17. TodoInv'
  <2>1. \A t : (UpsertTodo(t)' <=> UpsertTodo(t)) /\ (DeleteTodo(t)' <=> DeleteTodo(t))
    BY DEF UpsertTodo, DeleteTodo
  <2> QED
    BY <1>8, <1>10, <2>1 DEF TodoInv, VecInv, rest
<1>18. MeetInv'
  BY <1>10, <1>12 DEF MeetInv, VecInv
<1>19. KnownInv'
  <2> SUFFICES ASSUME NEW d \in Active, NEW x \in Projects, NEW i \in client[d].ids
               PROVE  KnownFor(d, x, i)'
    BY <1>10 DEF KnownInv
  <2> QED
    BY <1>10, <1>11, <1>12 DEF KnownInv, KnownFor, VecInv
<1>20. ASSUME NEW x \in Projects, NEW i \in Points, Space(x) # s \/ i \notin q.ids
       PROVE  Standing(x, i)' <=> Standing(x, i)
  <2>1. Space(x) \in Spaces /\ Space(x)' = Space(x)
    BY DEF Space, Spaces
  <2> QED
    BY <1>13, <1>20, <2>1 DEF Standing, At
<1>21. ASSUME NEW d \in Active, d # c, NEW i \in client[d].ids, Space(client[d].project) = s, i \in client[c].ids
       PROVE  ~client[d].alone /\ <<s, i>> \in hurt
  BY <1>21 DEF MeetInv, VecInv
<1>22. q.sends # "smembers" => \A names, i :
          Sends(client[c].todo, names, i) => Sends(rest, names, i) \/ (q.sends \in names /\ i \in q.ids)
  BY <1>1, <1>7, RestSends
<1>23. ASSUME NEW d \in Active, d # c, NEW i \in client[d].ids,
              client[d].alone \/ <<Space(client[d].project), i>> \notin hurt
       PROVE  Standing(client[d].project, i)' <=> Standing(client[d].project, i)
  <2>1. client[d].project \in Projects /\ i \in Points
    BY <1>1, BusyClient
  <2>2. Space(client[d].project) # s \/ i \notin q.ids
    BY <1>2, <1>21, <1>23
  <2>3. \A x \in Projects : Space(x) # s \/ i \notin q.ids => (Standing(x, i)' <=> Standing(x, i))
    BY <1>20, <2>1
  <2>4. Standing(client[d].project, i)' <=> \E x \in Projects : x = client[d].project /\ Standing(x, i)'
    BY <1>10, <2>1 DEF Standing, At, Space
  <2> QED
    BY <2>1, <2>2, <2>3, <2>4
<1>24. \A i : /\ Standing(client[c].project, i)' <=>
                     points'[s][i] # NoPoint /\ (vectors.store = "pgvector" => points'[s][i].owner = p)
              /\ Standing(client[c].project, i) <=>
                     points[s][i] # NoPoint /\ (vectors.store = "pgvector" => points[s][i].owner = p)
  BY <1>7 DEF Standing, At, Space
<1>25. PutInv'
  <2> SUFFICES ASSUME NEW d \in Active, client[d].does = "in", client[d].alone, NEW i \in client[d].ids
               PROVE  \/ Standing(client[d].project, i)' \/ Sends(client'[d].todo, {"put"}, i)
                      \/ <<Space(client[d].project), i>> \in lost'
    BY <1>10, <1>12 DEF PutInv
  <2>1. \/ Standing(client[d].project, i) \/ Sends(client[d].todo, {"put"}, i)
        \/ <<Space(client[d].project), i>> \in lost
    BY DEF PutInv, VecInv
  <2>2. CASE d # c
    <3>1. <<Space(client[d].project), i>> \in lost => <<Space(client[d].project), i>> \in lost'
      BY <1>2, <1>21, <1>30, <2>2
    <3> QED
      BY <1>10, <1>23, <2>1, <2>2, <3>1
  <2>3. CASE d = c
    <3>1. q.sends # "smembers" /\ i \in Points
      BY <1>1, <1>5, <2>3
    <3>2. \/ Standing(client[c].project, i) \/ Sends(rest, {"put"}, i) \/ (q.sends = "put" /\ i \in q.ids)
          \/ <<s, i>> \in lost
      BY <1>22, <2>1, <2>3, <3>1
    <3>5. <<s, i>> \in lost => <<s, i>> \in lost' \/ (q.sends = "put" /\ i \in q.ids)
      <4>1. q.sends # "delete all"
        BY <1>5, <2>3
      <4>2. Accepting(q) => q.sends = "put"
        BY <4>1 DEF Accepting
      <4>3. <<s, i>> \in lost /\ ~(Accepting(q) /\ i \in q.ids) => <<s, i>> \in lost'
        BY <1>30
      <4> QED
        BY <4>2, <4>3
    <3>3. CASE q.sends = "put" /\ i \in q.ids
      <4>1. points'[s][i] = [owner |-> p, shape |-> q.shape] /\ q.shape \in Shapes
        BY <1>3, <1>13, <2>3, <3>3
      <4>2. points'[s][i] # NoPoint /\ points'[s][i].owner = p
        BY <1>1, <4>1, VectorStoresAssumption
      <4> QED
        BY <1>24, <2>3, <4>2
    <3>4. CASE ~(q.sends = "put" /\ i \in q.ids)
      <4>1. points'[s][i] = points[s][i]
        BY <1>1, <1>3, <1>13, <2>3, <3>1, <3>4 DEF UpsertQueries
      <4> QED
        BY <1>24, <2>3, <3>2, <3>4, <3>5, <4>1 DEF rest
    <3> QED
      BY <3>3, <3>4
  <2> QED
    BY <2>2, <2>3
<1>29. vectors' = vectors /\ hurt' = hurt
  OBVIOUS
<1>26. GoneInv'
  <2> SUFFICES ASSUME NEW d \in Active, client[d].does = "out", NEW i \in Points
               PROVE  GoneFor(d, i)'
    BY <1>10 DEF GoneInv
  <2>1. GoneFor(d, i) /\ client[d].ids = Points
    BY DEF GoneInv, TodoInv, VecInv
  <2>2. CASE d # c
    <3>1. /\ client'[d].todo = client[d].todo /\ client'[d].alone = client[d].alone
          /\ Space(client[d].project)' = Space(client[d].project) /\ Space(client[d].project) \in Spaces
      BY <1>1, <1>10, <1>12, <2>2, BusyClient
    <3>2. client[d].alone \/ <<Space(client[d].project), i>> \notin hurt =>
              (Standing(client[d].project, i)' <=> Standing(client[d].project, i))
      BY <1>23, <2>1, <2>2
    <3>3. vectors.store = "redis" /\ <<Space(client[d].project), i>> \notin hurt /\ i \in members[Space(client[d].project)]
          => i \in members'[Space(client[d].project)]
      <4>1. q.sends = "del set" => client[c].ids = Points
        BY <1>1, <1>4, <1>5
      <4>2. Space(client[d].project) = s /\ <<Space(client[d].project), i>> \notin hurt => q.sends # "del set"
        BY <1>21, <2>1, <2>2, <4>1
      <4> QED
        BY <1>14, <3>1, <4>2
    <3> DEFINE here == Space(client[d].project)
    <3>7. client[d].alone /\ <<here, i>> \in lost => <<here, i>> \in lost'
      BY <1>2, <1>21, <1>30, <2>1, <2>2
    <3>4. vectors.store # "redis" /\ client[d].alone =>
              \/ ~Standing(client[d].project, i)' \/ <<here, i>> \in lost'
              \/ Sends(client'[d].todo, {"delete all", "drop", "delete own"}, i)
      BY <2>1, <3>1, <3>2, <3>7 DEF GoneFor
    <3>5. vectors.store = "redis" /\ <<here, i>> \notin hurt =>
              \/ ~Standing(client[d].project, i)' \/ Sends(client'[d].todo, {"del"}, i)
              \/ Sends(client'[d].todo, {"smembers"}, i) /\ i \in members'[here]
      BY <2>1, <3>1, <3>2, <3>3 DEF GoneFor
    <3>6. Space(client[d].project)' = here /\ client'[d].alone = client[d].alone
      BY <3>1
    <3> QED
      BY <1>29, <3>4, <3>5, <3>6 DEF GoneFor
  <2>3. CASE d = c
    <3>1. client[c].does = "out" /\ client[c].ids = Points
      BY <2>1, <2>3
    <3>2. ASSUME vectors.store # "redis", client[c].alone
          PROVE  \/ ~Standing(client[c].project, i)' \/ <<s, i>> \in lost'
                 \/ Sends(rest, {"delete all", "drop", "delete own"}, i)
      <4>1. /\ q.sends \in {"delete all", "drop", "delete own"} /\ q.sends # "smembers"
            /\ vectors.store = "pgvector" <=> q.sends = "delete own"
        BY <1>0, <1>4, <1>5, <3>1, <3>2 DEF DeleteQueries
      <4>2. \/ ~Standing(client[c].project, i) \/ Sends(rest, {"delete all", "drop", "delete own"}, i)
            \/ i \in q.ids \/ <<s, i>> \in lost
        BY <1>22, <2>1, <2>3, <3>2, <4>1 DEF GoneFor
      <4>5. i \notin q.ids /\ <<s, i>> \in lost => <<s, i>> \in lost'
        BY <1>30
      <4>3. i \in q.ids => ~Standing(client[c].project, i)'
        <5>1. CASE q.sends \in {"delete all", "drop"}
          BY <1>13, <1>24, <5>1
        <5>2. CASE q.sends = "delete own"
          <6>1. i \in q.ids => points'[s][i] = IF points[s][i] # NoPoint /\ points[s][i].owner = p THEN NoPoint ELSE points[s][i]
            BY <1>13, <5>2
          <6> QED
            BY <1>24, <4>1, <5>2, <6>1
        <5> QED
          BY <4>1, <5>1, <5>2
      <4>4. i \notin q.ids => (Standing(client[c].project, i)' <=> Standing(client[c].project, i))
        BY <1>1, <1>13, <1>24
      <4> QED
        BY <4>2, <4>3, <4>4, <4>5
    <3>3. ASSUME vectors.store = "redis", <<s, i>> \notin hurt
          PROVE  ~Standing(client[c].project, i)' \/ Sends(rest, {"del"}, i)
      <4>1. /\ q.sends \in {"smembers", "del", "del set"}
            /\ \/ q.sends = "smembers" /\ ~Sends(client[c].todo, {"del"}, i)
               \/ q.sends # "smembers" /\ ~Sends(client[c].todo, {"smembers"}, i)
        BY <1>4, <1>5, <3>1, <3>3
      <4>2. \/ ~Standing(client[c].project, i) \/ Sends(client[c].todo, {"del"}, i)
            \/ Sends(client[c].todo, {"smembers"}, i) /\ i \in members[s]
        BY <2>1, <2>3, <3>3 DEF GoneFor
      <4>3. q.sends # "del" \/ i \notin q.ids => (Standing(client[c].project, i)' <=> Standing(client[c].project, i))
        BY <1>1, <1>13, <1>24, <4>1
      <4>4. CASE q.sends = "smembers"
        <5>1. i \in members[s] => Sends(rest, {"del"}, i)
          BY <1>6, <1>7, <3>3, <4>4, MembersAreDeleted
        <5> QED
          BY <4>1, <4>2, <4>3, <4>4, <5>1
      <4>5. CASE q.sends \in {"del", "del set"}
        <5>1. ~Standing(client[c].project, i) \/ Sends(rest, {"del"}, i) \/ (q.sends = "del" /\ i \in q.ids)
          BY <1>22, <4>1, <4>2, <4>5
        <5>2. q.sends = "del" /\ i \in q.ids => ~Standing(client[c].project, i)'
          BY <1>13, <1>24
        <5> QED
          BY <4>3, <5>1, <5>2
      <4> QED
        BY <4>1, <4>4, <4>5
    <3>4. Space(client[c].project)' = s /\ client'[c].todo = rest /\ client'[c].alone = client[c].alone
      BY <1>7, <1>12 DEF rest
    <3> HIDE DEF p
    <3> QED
      BY <1>29, <2>3, <3>2, <3>3, <3>4 DEF GoneFor
  <2> QED
    BY <2>2, <2>3
<1>27. MemberInv'
  <2> SUFFICES ASSUME vectors.store = "redis", vectors.kind = "chunk",
                      NEW t \in Spaces, NEW i \in Points, points'[t][i] # NoPoint
               PROVE  \/ i \in members'[t] \/ <<t, i>> \in hurt
                      \/ \E d \in Active : Space(client[d].project) = t /\ Sends(client'[d].todo, {"sadd"}, i)
    BY <1>10, <1>12 DEF MemberInv, Spaces
  <2>1. points[t][i] # NoPoint =>
           \/ i \in members[t] \/ <<t, i>> \in hurt
           \/ \E d \in Active : Space(client[d].project) = t /\ Sends(client[d].todo, {"sadd"}, i)
    BY DEF MemberInv, VecInv
  <2>2. CASE t # s
    BY <1>10, <1>13, <1>14, <2>1, <2>2
  <2>3. CASE t = s /\ q.sends = "put" /\ i \in q.ids
    <3>1. client[c].does = "in" /\ q.sends # "smembers"
      BY <1>1, <1>5, <2>3 DEF UpsertQueries
    <3>2. AddsLater(client[c].todo)
      BY <3>1 DEF TodoInv, UpsertTodo, VecInv
    <3>3. Sends(rest, {"sadd"}, i)
      BY <1>1, <1>7, <2>3, <3>1, <3>2, RestAddsLater
    <3> QED
      BY <2>3, <3>3 DEF rest
  <2>4. CASE t = s /\ ~(q.sends = "put" /\ i \in q.ids)
    <3>1. points[s][i] # NoPoint
      BY <1>2, <1>13, <2>4 DEF Query
    <3>2. CASE q.sends = "del set"
      <4>1. client[c].does = "out" /\ ~Sends(client[c].todo, {"smembers"}, i)
        BY <1>1, <1>4, <1>5, <3>2
      <4>2. ~Sends(client[c].todo, {"del"}, i)
        BY <1>4, <3>2, <4>1
      <4>3. Standing(client[c].project, i)
        BY <1>24, <3>1
      <4> QED
        BY <2>4, <4>1, <4>2, <4>3 DEF GoneInv, GoneFor, VecInv
    <3>3. CASE q.sends # "del set"
      <4>1. ASSUME Sends(client[c].todo, {"sadd"}, i)
            PROVE  Sends(rest, {"sadd"}, i) \/ i \in members'[s]
        <5>1. q.sends # "smembers"
          BY <1>1, <1>4, <1>5, <4>1
        <5>2. Sends(rest, {"sadd"}, i) \/ (q.sends \in {"sadd"} /\ i \in q.ids)
          BY <1>22, <4>1, <5>1
        <5> QED
          BY <1>14, <5>2
      <4> QED
        BY <1>10, <1>14, <2>1, <2>4, <3>1, <3>3, <4>1 DEF rest
    <3> QED
      BY <3>2, <3>3
  <2> QED
    BY <2>2, <2>3, <2>4
<1>28. KeptInv'
  <2> SUFFICES ASSUME NEW x \in Projects, NEW i \in Points, <<x, i>> \notin foreign
               PROVE  /\ kept[x][i] = "in" => Standing(x, i)' \/ <<Space(x), i>> \in lost'
                      /\ kept[x][i] = "out" => \/ ~Standing(x, i)' \/ <<Space(x), i>> \in lost'
                                               \/ vectors.store = "redis" /\ <<Space(x), i>> \in hurt
    BY <1>11 DEF KeptInv
  <2>1. /\ kept[x][i] = "in" => Standing(x, i) \/ <<Space(x), i>> \in lost
        /\ kept[x][i] = "out" => \/ ~Standing(x, i) \/ <<Space(x), i>> \in lost
                                 \/ vectors.store = "redis" /\ <<Space(x), i>> \in hurt
    BY DEF KeptInv, VecInv
  <2>2. CASE Space(x) # s \/ i \notin q.ids
    <3>1. <<Space(x), i>> \in lost => <<Space(x), i>> \in lost'
      BY <1>30, <2>2
    <3> QED
      BY <1>20, <2>1, <2>2, <3>1
  <2>3. CASE Space(x) = s /\ i \in q.ids
    <3>1. KnownFor(c, x, i)
      BY <1>2, <2>3 DEF KnownInv, VecInv
    <3>2. CASE kept[x][i] = "unknown"
      BY <3>2
    <3>3. CASE kept[x][i] # "unknown"
      <4>1. x # p /\ vectors.store = "pgvector" /\ client[c].does = "out" /\ q.sends = "delete own"
        BY <1>1, <1>5, <2>3, <3>1, <3>3 DEF KnownFor
      <4>2. Standing(x, i) <=> points[s][i] # NoPoint /\ points[s][i].owner = x
        BY <2>3, <4>1 DEF Standing, At
      <4>3. Standing(x, i)' <=> points'[s][i] # NoPoint /\ points'[s][i].owner = x
        BY <2>3, <4>1 DEF Standing, At, Space
      <4>4. Standing(x, i)' <=> Standing(x, i)
        BY <1>13, <2>3, <4>1, <4>2, <4>3
      <4>5. lost' = lost
        BY <1>30, <4>1 DEF Accepting
      <4> QED
        BY <2>1, <4>4, <4>5
    <3> QED
      BY <3>2, <3>3
  <2> QED
    BY <2>2, <2>3
<1> QED
  BY <1>16, <1>17, <1>18, <1>19, <1>25, <1>26, <1>27, <1>28 DEF VecInv

(* An operation that is accepted and fails later leaves the points as they  *)
(* are, and the call goes on.                                               *)
LEMMA LoseKeeps ==
    ASSUME VecInv, NEW c \in Active, client[c].todo # <<>>,
           NEW s, s = Space(client[c].project), NEW q, q = Head(client[c].todo), Lose(s, q),
           client' = [client EXCEPT ![c].todo = IF q.sends = "smembers" THEN RedisDeleteMembers(members[s]) ELSE Tail(@)],
           UNCHANGED <<vectors, requests, kept, foreign, hurt>>
    PROVE  VecInv'
<1> DEFINE rest == Tail(client[c].todo)
<1>1. /\ c \in Clients /\ client[c] \in Calling /\ client[c].todo \in Seq(Query) /\ s \in Spaces /\ VecShape
      /\ client \in [Clients -> Calling \union {Resting}] /\ client[c].does \in {"in", "out"}
      /\ client[c].ids \in SUBSET Points
  BY BusyClient DEF VecInv, VecShape
<1>2. /\ vectors.store = "qdrant" /\ q.sends \in {"put", "delete all"} /\ lost' = lost \union ({s} \X q.ids)
      /\ UNCHANGED <<vectors, points, unapplied, made, members, requests, kept, foreign, hurt>>
  BY DEF Lose, Accepting
<1>3. q \in Query /\ q.ids \subseteq client[c].ids /\ rest \in Seq(Query) /\ Within(rest, client[c].ids)
  BY <1>1, FirstAndRest, RestIsWithin DEF TodoInv, VecInv
<1>4. client[c].does = "in" => UpsertTodo(rest)
  BY <1>1, RestOfUpsert DEF TodoInv, VecInv
<1>5. client[c].does = "out" => client[c].ids = Points /\ DeleteTodo(rest)
  BY <1>1, <1>2, RestOfDelete DEF TodoInv, VecInv
<1>6. /\ client'[c].todo = rest /\ client'[c] \in Calling
      /\ client'[c].project = client[c].project /\ client'[c].ids = client[c].ids
      /\ client'[c].does = client[c].does /\ client'[c].alone = client[c].alone
      /\ client' \in [Clients -> Calling \union {Resting}]
      /\ \A d \in Clients \ {c} : client'[d] = client[d]
  BY <1>1, <1>2, <1>3 DEF Calling
<1>7. /\ Active' = Active
      /\ \A d \in Active : /\ client'[d].project = client[d].project /\ client'[d].ids = client[d].ids
                            /\ client'[d].does = client[d].does /\ client'[d].alone = client[d].alone
                            /\ (d # c => client'[d].todo = client[d].todo)
  BY <1>1, <1>6, CallingIsBusy DEF Active
<1>8. \A names, i : Sends(client[c].todo, names, i) => Sends(rest, names, i) \/ (q.sends \in names /\ i \in q.ids)
  BY <1>1, RestSends
<1> HIDE DEF rest
<1>9. \A p, i : (Standing(p, i)' <=> Standing(p, i)) /\ Space(p)' = Space(p)
  BY <1>2 DEF Standing, At, Space
<1>10. \A d \in Active : Space(client[d].project)' = Space(client[d].project)
  BY <1>2, <1>7 DEF Space
<1>18. \A d \in Active : \A i : Standing(client[d].project, i)' <=> Standing(client[d].project, i)
  BY <1>2, <1>7 DEF Standing, At, Space
<1>19. vectors' = vectors /\ foreign' = foreign /\ kept' = kept /\ hurt' = hurt
  BY <1>2
<1>11. VecShape'
  <2>1. \A d \in Clients : client'[d].phase \in {"rest", "call"}
    BY <1>6 DEF Calling, Resting
  <2>2. lost' \subseteq Spaces \X Points
    BY <1>1, <1>2, <1>3 DEF VecShape, VecTypeOK
  <2> QED
    BY <1>1, <1>2, <1>6, <2>1, <2>2 DEF VecShape, VecTypeOK, Spaces, Contents
<1>12. TodoInv'
  <2>1. \A t : (UpsertTodo(t)' <=> UpsertTodo(t)) /\ (DeleteTodo(t)' <=> DeleteTodo(t))
    BY <1>2 DEF UpsertTodo, DeleteTodo
  <2>2. ASSUME NEW d \in Active
        PROVE  /\ Within(client'[d].todo, client[d].ids)
               /\ client[d].does = "in" => UpsertTodo(client'[d].todo)
               /\ client[d].does = "out" => /\ client[d].ids = Points /\ DeleteTodo(client'[d].todo)
                                            /\ vectors.store = "redis" => vectors.kind = "chunk"
    <3>1. CASE d = c
      BY <1>2, <1>3, <1>4, <1>5, <1>6, <3>1
    <3>2. CASE d # c
      BY <1>7, <3>2 DEF TodoInv, VecInv
    <3> QED
      BY <3>1, <3>2
  <2> QED
    BY <1>7, <1>19, <2>1, <2>2 DEF TodoInv
<1>13. MeetInv'
  BY <1>7, <1>10, <1>19 DEF MeetInv, VecInv
<1>14. KnownInv'
  <2> SUFFICES ASSUME NEW d \in Active, NEW x \in Projects, NEW i \in client[d].ids
               PROVE  KnownFor(d, x, i)'
    BY <1>7 DEF KnownInv
  <2>1. Space(x)' = Space(x)
    BY <1>9
  <2> QED
    BY <1>7, <1>10, <1>19, <2>1 DEF KnownInv, KnownFor, VecInv
<1>15. PutInv'
  <2> SUFFICES ASSUME NEW d \in Active, client[d].does = "in", client[d].alone, NEW i \in client[d].ids
               PROVE  \/ Standing(client[d].project, i) \/ Sends(client'[d].todo, {"put"}, i)
                      \/ <<Space(client[d].project), i>> \in lost'
    BY <1>7, <1>10, <1>18 DEF PutInv
  <2>1. \/ Standing(client[d].project, i) \/ Sends(client[d].todo, {"put"}, i)
        \/ <<Space(client[d].project), i>> \in lost
    BY DEF PutInv, VecInv
  <2> QED
    BY <1>2, <1>6, <1>7, <1>8, <2>1
<1>16. GoneInv'
  <2> SUFFICES ASSUME NEW d \in Active, client[d].does = "out", NEW i \in Points
               PROVE  GoneFor(d, i)'
    BY <1>7 DEF GoneInv
  <2>1. GoneFor(d, i)
    BY DEF GoneInv, VecInv
  <2>2. client[d].alone =>
          \/ ~Standing(client[d].project, i) \/ <<Space(client[d].project), i>> \in lost'
          \/ Sends(client'[d].todo, {"delete all", "drop", "delete own"}, i)
    BY <1>2, <1>6, <1>7, <1>8, <2>1 DEF GoneFor
  <2> QED
    BY <1>2, <1>7, <1>10, <1>18, <2>2 DEF GoneFor
<1>17. MemberInv' /\ KeptInv'
  BY <1>2, <1>9 DEF MemberInv, KeptInv, VecInv
<1> QED
  BY <1>11, <1>12, <1>13, <1>14, <1>15, <1>16, <1>17 DEF VecInv

LEMMA ApplyKeeps == ASSUME VecInv, NEW s \in Spaces, Apply(s) PROVE VecInv'
<1>1. /\ VecShape /\ unapplied[s] # <<>> /\ unapplied' = [unapplied EXCEPT ![s] = Tail(@)]
      /\ UNCHANGED <<vectors, points, made, members, client, requests, kept, foreign, hurt, lost>>
  BY DEF Apply, VecInv
<1>2. unapplied \in [Spaces -> Seq(Contents)]
  BY <1>1 DEF VecShape, VecTypeOK
<1>3. Tail(unapplied[s]) \in Seq(Contents)
  BY <1>1, <1>2
<1>4. vectors.store = "qdrant"
  BY <1>1 DEF VecShape
<1>5. VecShape'
  BY <1>1, <1>2, <1>3, <1>4 DEF VecShape, VecTypeOK, Spaces, Contents
<1> USE <1>1
<1>6. TodoInv'
  BY DEF VecInv, Active, TodoInv, UpsertTodo, DeleteTodo
<1>7. MeetInv'
  BY DEF VecInv, Active, MeetInv, Space
<1>8. KnownInv' /\ PutInv'
  BY DEF VecInv, Active, KnownInv, KnownFor, PutInv, Standing, At, Space
<1>9. GoneInv'
  BY DEF VecInv, Active, GoneInv, GoneFor, Standing, At, Space
<1>10. MemberInv' /\ KeptInv'
  BY DEF VecInv, Active, MemberInv, KeptInv, Standing, At, Space, Spaces
<1> QED
  BY <1>5, <1>6, <1>7, <1>8, <1>9, <1>10 DEF VecInv

-----------------------------------------------------------------------------
LEMMA VecInitInv == VecInit => VecInv
<1> SUFFICES ASSUME VecInit PROVE VecInv
  OBVIOUS
<1>1. Active = {}
  BY DEF VecInit, Active
<1>2. VecShape
  BY VectorStoresAssumption DEF VecInit, VecShape, VecTypeOK, Spaces, Contents, Resting
<1>3. KeptInv /\ MemberInv
  BY DEF VecInit, KeptInv, MemberInv, Spaces
<1> QED
  BY <1>1, <1>2, <1>3 DEF VecInv, TodoInv, MeetInv, KnownInv, PutInv, GoneInv

LEMMA VecStepInv == VecInv /\ [VecNext]_vectorVars => VecInv'
<1> SUFFICES ASSUME VecInv, [VecNext]_vectorVars PROVE VecInv'
  OBVIOUS
<1>0. VecShape
  BY DEF VecInv
<1>1. ASSUME NEW c \in Clients, NEW p \in Projects, NEW ids \in SUBSET Points, NEW shape \in Shapes,
             Upsert(c, p, ids, shape)
      PROVE  VecInv'
  <2>1. Writes(Upserts(ids, shape), ids)
    BY <1>0, UpsertsWrite
  <2>2. Call(c, p, ids, "in", Upserts(ids, shape))
    BY <1>1 DEF Upsert
  <2> QED
    BY <2>1, <2>2, CallKeeps DEF Writes
<1>2. ASSUME NEW c \in Clients, NEW p \in Projects, Delete(c, p) \/ ImageClear(c, p)
      PROVE  VecInv'
  <2>1. ASSUME NEW todo \in Seq(Query)
        PROVE  Within(todo, Points)
    <3>1. \A k \in 1 .. Len(todo) : todo[k] \in Query
      BY ElementOfSeq
    <3> QED
      BY <3>1 DEF Within, Query
  <2>2. PICK todo : Removes(todo) /\ Call(c, p, Points, "out", todo)
    BY <1>0, <1>2, DeletesRemove DEF Delete, ImageClear
  <2>3. vectors.store = "redis" => vectors.kind = "chunk"
    BY <1>0, <1>2 DEF Delete, ImageClear, VecShape
  <2> QED
    BY <2>1, <2>2, <2>3, CallKeeps DEF Removes
<1>3. ASSUME NEW c \in Clients, Send(c)
      PROVE  VecInv'
  <2> DEFINE s == Space(client[c].project)
             q == Head(client[c].todo)
  <2>1. c \in Active /\ client[c].todo # <<>>
    BY <1>3 DEF Send, Active
  <2>2. CASE Refused(s, q)
    BY <1>3, <2>1, <2>2, FailKeeps DEF Send
  <2>3. CASE ~Refused(s, q) /\ Serve(s, client[c].project, q)
    BY <1>3, <2>1, <2>3, ServeKeeps DEF Send
  <2>4. CASE ~Refused(s, q) /\ Lose(s, q)
    BY <1>3, <2>1, <2>4, LoseKeeps DEF Send
  <2> QED
    BY <1>3, <2>2, <2>3, <2>4 DEF Send
<1>4. ASSUME NEW c \in Clients, Acknowledge(c)
      PROVE  VecInv'
  BY <1>4, AcknowledgeKeeps DEF Acknowledge, Active
<1>5. ASSUME NEW c \in Clients, Break(c)
      PROVE  VecInv'
  BY <1>5, FailKeeps DEF Break, Active
<1>7. ASSUME NEW s \in Spaces, Apply(s)
      PROVE  VecInv'
  BY <1>7, ApplyKeeps
<1>6. CASE UNCHANGED vectorVars
  <2> USE <1>6 DEF vectorVars
  <2>0. VecShape'
    BY DEF VecInv, VecShape, VecTypeOK, Spaces, Contents
  <2>5. TodoInv'
    BY DEF VecInv, Active, TodoInv, UpsertTodo, DeleteTodo
  <2>1. MeetInv'
    BY DEF VecInv, Active, MeetInv, Space
  <2>2. KnownInv' /\ PutInv'
    BY DEF VecInv, Active, KnownInv, KnownFor, PutInv, Standing, At, Space
  <2>3. GoneInv'
    BY DEF VecInv, Active, GoneInv, GoneFor, Standing, At, Space
  <2>4. MemberInv' /\ KeptInv'
    BY DEF VecInv, Active, MemberInv, KeptInv, Standing, At, Space, Spaces
  <2> QED
    BY <2>0, <2>1, <2>2, <2>3, <2>4, <2>5 DEF VecInv
<1> QED
  BY <1>1, <1>2, <1>3, <1>4, <1>5, <1>6, <1>7 DEF VecNext

THEOREM VectorsAreInvariant == VecSpec => []VecInv
  BY VecInitInv, VecStepInv, PTL DEF VecSpec

(* What a search shows of the points that stand.                            *)
LEMMA SearchShowsStanding ==
    ASSUME VecShape, NEW p \in Projects, NEW i \in Points, unapplied[Space(p)] = <<>>
    PROVE  /\ i \in Search(p) => Standing(p, i)
           /\ Standing(p, i) => \/ i \in Search(p)
                                \/ vectors.store = "redis" /\ At(p, i).shape # made[Space(p)]
<1>1. /\ vectors.store \in {"qdrant", "pgvector", "redis"} /\ vectors.kind \in PointKinds
      /\ (vectors.kind = "image" => vectors.store = "qdrant")
  BY DEF VecShape, VecTypeOK
<1>2. CASE vectors.store = "qdrant"
  BY <1>1, <1>2 DEF Search, PointKinds, QdrantSearch, QdrantSearchHybrid, QdrantSearchEntities,
     QdrantSearchRelations, QdrantSearchImages, Applied, Standing, At
<1>3. CASE vectors.store = "pgvector"
  BY <1>1, <1>3 DEF Search, PointKinds, PgSearchChunks, PgSearchEntities, PgSearchRelations, Standing, At, Space
<1>4. CASE vectors.store = "redis"
  BY <1>1, <1>4 DEF Search, PointKinds, RedisSearchChunks, RedisSearchEntities, RedisSearchRelations, Indexed,
     Standing, At
<1> QED
  BY <1>1, <1>2, <1>3, <1>4

(* A point that a project was told is stored is found by its searches once  *)
(* what the store accepted is applied, unless another project has written   *)
(* it, a Redis index does not take it or Qdrant failed it after its Ok.     *)
THEOREM StoredIsAlwaysFound == VecSpec => []StoredIsFound
<1>1. VecInv => StoredIsFound
  BY SearchShowsStanding DEF VecInv, KeptInv, StoredIsFound, Standing, At
<1> QED
  BY <1>1, VectorsAreInvariant, PTL

(* No point of a source is found after an acknowledged delete of it that    *)
(* is applied, unless another project has written it, Qdrant failed what it *)
(* had accepted, or a call on it was hurt on Redis.                         *)
THEOREM DeletedIsAlwaysGone == VecSpec => []DeletedIsGone
<1>1. VecInv => DeletedIsGone
  BY SearchShowsStanding DEF VecInv, KeptInv, DeletedIsGone
<1> QED
  BY <1>1, VectorsAreInvariant, PTL

-----------------------------------------------------------------------------
(***************************************************************************)
(* What extractions found is kept, and both ends of a relation are found.  *)
(***************************************************************************)

FileContent == [entities: [Names -> SUBSET Chunks], relations: SUBSET Edge]
Asked == [phase: {"asking", "saving", "saved"}, graph: Graph, todo: Seq(Chunks)]
Loaded == [phase: {"saved", "loaded"}, graph: Graph]
Answers == [names: SUBSET Names, pairs: SUBSET (Names \X Names)]

(* Every relation is listed under both of its ends.                         *)
TwoEnds(g) == \A n \in Names : \A e \in g.edges[n] : e \in g.edges[e.source] /\ e \in g.edges[e.target]

GraphShape ==
    /\ file \in [state: {"absent", "whole", "torn"}, stored: FileContent]
    /\ engine \in [there: BOOLEAN, local: BOOLEAN, held: SUBSET Chunks, graph: Graph] /\ TwoEnds(engine.graph)
    /\ extractor \in [Extractors -> {Done} \union Asked \union Loaded]
    /\ \A x \in Extracting : TwoEnds(extractor[x].graph)
    /\ builder \in {Done} \union [phase: {"loaded"}, graph: Graph] /\ (builder # Done => TwoEnds(builder.graph))
    /\ reported \subseteq Names \X Chunks

Has(entities, pairs) == \A p \in pairs : p[2] \in entities[p[1]]

(* Without mishaps, extractions and builds come one after the other.        *)
OneAtATime ==
    mishaps = {} =>
        /\ \A x, y \in Extracting : x = y
        /\ builder # Done => Extracting = {}
        /\ file.state = "torn" <=> \E x \in Extracting : extractor[x].phase = "saving"

ReportedInv ==
    /\ file.state = "absent" => reported = {}
    /\ mishaps = {} =>
        /\ file.state = "whole" => Has(file.stored.entities, reported)
        /\ \A x \in Extracting : extractor[x].phase \in {"asking", "saving"} => Has(extractor[x].graph.entities, reported)

(* The engine has the graph of the file, or none where it was made without, *)
(* but for an extraction that is about to write it, or has written it and   *)
(* will install it.                                                         *)
HasTheFile == engine.graph = LoadFromFile \/ (engine.local /\ engine.graph = NewGraph)
EngineInv ==
    mishaps = {} =>
        /\ builder # Done => builder.graph = LoadFromFile
        /\ \A x \in Extracting : extractor[x].phase = "loaded" => extractor[x].graph = LoadFromFile
        /\ /\ engine.there
           /\ file.state = "absent" \/ \A x \in Extracting : extractor[x].phase = "asking"
           => HasTheFile

GraphInv == GraphShape /\ OneAtATime /\ ReportedInv /\ EngineInv

-----------------------------------------------------------------------------
(* The operators of the graph.                                              *)
LEMMA SetToSeqIsSeq == ASSUME NEW S, IsFiniteSet(S) PROVE SetToSeq(S) \in Seq(S)
<1>1. Cardinality(S) \in Nat BY FS_CardinalityType
<1>4. PICK f : f \in Bijection(1 .. Cardinality(S), S) BY FS_CardinalityType DEF ExistsBijection
<1>5. f \in [1 .. Cardinality(S) -> S] /\ IsInjective(f)
  BY <1>4 DEF Bijection, Injection, IsInjective
<1>6. SetToSeq(S) \in [1 .. Cardinality(S) -> S] BY <1>5 DEF SetToSeq
<1> QED BY <1>1, <1>6

LEMMA ListedIsBothEnds ==
    ASSUME NEW edges \in SUBSET Edge
    PROVE  /\ Listed(edges) \in [Names -> SUBSET Edge]
           /\ \A n \in Names, e \in Edge : e \in Listed(edges)[n] <=> e \in edges /\ (e.source = n \/ e.target = n)
BY DEF Listed

LEMMA NewGraphIsGraph == NewGraph \in Graph /\ TwoEnds(NewGraph)
BY DEF NewGraph, Graph, TwoEnds

LEMMA LoadedIsGraph ==
    ASSUME file \in [state: {"absent", "whole", "torn"}, stored: FileContent]
    PROVE  LoadFromFile \in Graph /\ TwoEnds(LoadFromFile)
<1>1. CASE file.state = "whole"
  <2>1. file.stored.entities \in [Names -> SUBSET Chunks] /\ file.stored.relations \in SUBSET Edge
    BY DEF FileContent
  <2>2. LoadFromFile = [entities |-> file.stored.entities, edges |-> Listed(file.stored.relations)]
    BY <1>1 DEF LoadFromFile
  <2>3. LoadFromFile \in Graph BY <2>1, <2>2, ListedIsBothEnds DEF Graph
  <2>4. TwoEnds(LoadFromFile)
    <3> SUFFICES ASSUME NEW n \in Names, NEW e \in LoadFromFile.edges[n]
                 PROVE  e \in LoadFromFile.edges[e.source] /\ e \in LoadFromFile.edges[e.target]
      BY DEF TwoEnds
    <3>1. LoadFromFile.edges = Listed(file.stored.relations) BY <2>2
    <3>2. e \in Edge /\ e \in file.stored.relations BY <2>1, <3>1, ListedIsBothEnds
    <3>3. e.source \in Names /\ e.target \in Names BY <3>2 DEF Edge
    <3> QED BY <2>1, <3>1, <3>2, <3>3, ListedIsBothEnds
  <2> QED BY <2>3, <2>4
<1>2. CASE file.state # "whole" BY <1>2, NewGraphIsGraph DEF LoadFromFile
<1> QED BY <1>1, <1>2

LEMMA SavedIsFileContent ==
    ASSUME NEW g \in Graph
    PROVE  SaveToFile(g) \in FileContent /\ SaveToFile(g).entities = g.entities
<1> DEFINE all == UNION {g.edges[n] : n \in Names}
<1>1. all \subseteq Edge BY DEF Graph
<1>2. \A e \in all : (CHOOSE d \in all : SameEdge(d, e)) \in all
  <2> TAKE e \in all
  <2>1. SameEdge(e, e) BY DEF SameEdge
  <2> QED BY <2>1
<1>3. {CHOOSE d \in all : SameEdge(d, e) : e \in all} \subseteq Edge BY <1>1, <1>2
<1>4. SaveToFile(g) = [entities |-> g.entities, relations |-> {CHOOSE d \in all : SameEdge(d, e) : e \in all}]
  BY DEF SaveToFile
<1>5. g.entities \in [Names -> SUBSET Chunks] BY DEF Graph
<1> HIDE DEF all
<1> QED BY <1>3, <1>4, <1>5 DEF FileContent

LEMMA MergedIsGraph ==
    ASSUME NEW g \in Graph, TwoEnds(g), NEW found \in Answers, NEW chunk \in Chunks
    PROVE  LET m == MergeExtraction(g, found, chunk) IN
           /\ m \in Graph /\ TwoEnds(m)
           /\ \A n \in Names : g.entities[n] \subseteq m.entities[n]
<1> DEFINE m == MergeExtraction(g, found, chunk)
           offered == {[source |-> p[1], target |-> p[2], chunk |-> chunk] : p \in found.pairs}
           new == {e \in offered : ~\E d \in g.edges[e.source] : SameEdge(d, e)}
           entities == [n \in Names |-> g.entities[n] \union (IF n \in found.names THEN {chunk} ELSE {})]
           edges == [n \in Names |-> g.edges[n] \union Listed(new)[n]]
<1>1. m = [entities |-> entities, edges |-> edges] BY DEF MergeExtraction
<1>2. g.entities \in [Names -> SUBSET Chunks] /\ g.edges \in [Names -> SUBSET Edge] BY DEF Graph
<1>3. new \in SUBSET Edge BY DEF Answers, Edge
<1>4. entities \in [Names -> SUBSET Chunks] BY <1>2
<1> HIDE DEF new
<1>5. edges \in [Names -> SUBSET Edge] BY <1>2, <1>3, ListedIsBothEnds
<1>6. m \in Graph BY <1>1, <1>4, <1>5 DEF Graph
<1>7. TwoEnds(m)
  <2> SUFFICES ASSUME NEW n \in Names, NEW e \in edges[n]
               PROVE  e \in edges[e.source] /\ e \in edges[e.target]
    BY <1>1 DEF TwoEnds
  <2>1. e \in Edge /\ e.source \in Names /\ e.target \in Names BY <1>5 DEF Edge
  <2>2. CASE e \in g.edges[n] BY <2>1, <2>2 DEF TwoEnds
  <2>3. CASE e \in Listed(new)[n]
    <3>1. e \in new BY <1>3, <2>1, <2>3, ListedIsBothEnds
    <3>2. e \in Listed(new)[e.source] /\ e \in Listed(new)[e.target] BY <1>3, <2>1, <3>1, ListedIsBothEnds
    <3> QED BY <2>1, <3>2
  <2> QED BY <2>2, <2>3
<1>8. \A n \in Names : g.entities[n] \subseteq m.entities[n] BY <1>1
<1> HIDE DEF m
<1>9. /\ m \in Graph /\ TwoEnds(m)
      /\ \A n \in Names : g.entities[n] \subseteq m.entities[n]
  BY <1>6, <1>7, <1>8
<1> QED BY <1>9 DEF m

LEMMA AnswersAreAnswers ==
    ASSUME NEW first \in ExtractOne \ {Failed}, NEW more \in ExtractOne
    PROVE  (IF more = Failed THEN first ELSE MergeAnswers(first, more)) \in Answers
<1>1. Found \union {Nothing} \subseteq Answers BY DEF Found, Nothing, Answers
<1>2. \A a, b \in Answers : MergeAnswers(a, b) \in Answers BY DEF MergeAnswers, Answers
<1>3. first \in Answers /\ (more # Failed => more \in Answers) BY <1>1 DEF ExtractOne
<1> QED BY <1>2, <1>3

-----------------------------------------------------------------------------
(* The shape of an extraction after a step of it.                           *)
LEMMA ExtractionShape ==
    ASSUME GraphShape, NEW x \in Extracting
    PROVE  /\ x \in Extractors /\ extractor[x] \in Asked \union Loaded
           /\ extractor[x].phase \in {"asking", "saving", "saved", "loaded"}
           /\ extractor[x].graph \in Graph /\ TwoEnds(extractor[x].graph)
           /\ extractor[x].phase \in {"asking", "saving"} => extractor[x] \in Asked
BY DEF GraphShape, Extracting, Asked, Loaded

(* x goes on as job; job is not idle.                                       *)
LEMMA ExtractorGoesOn ==
    ASSUME GraphShape, NEW x \in Extractors, NEW job \in Asked \union Loaded, TwoEnds(job.graph),
           extractor' = [extractor EXCEPT ![x] = job]
    PROVE  /\ extractor' \in [Extractors -> {Done} \union Asked \union Loaded]
           /\ Extracting' = Extracting \union {x} /\ extractor'[x] = job
           /\ \A y \in Extractors \ {x} : extractor'[y] = extractor[y]
           /\ \A y \in Extracting' : TwoEnds(extractor'[y].graph)
<1>1. extractor' \in [Extractors -> {Done} \union Asked \union Loaded] /\ extractor'[x] = job
  BY DEF GraphShape
<1>2. \A y \in Extractors \ {x} : extractor'[y] = extractor[y] BY DEF GraphShape
<1>3. job # Done
  <2>1. job.phase # "idle" BY DEF Asked, Loaded
  <2> QED BY <2>1 DEF Done
<1>4. Extracting' = Extracting \union {x} BY <1>1, <1>2, <1>3 DEF Extracting
<1>5. \A y \in Extracting' : TwoEnds(extractor'[y].graph)
  <2> SUFFICES ASSUME NEW y \in Extracting' PROVE TwoEnds(extractor'[y].graph) OBVIOUS
  <2>1. CASE y = x BY <1>1, <2>1
  <2>2. CASE y # x BY <1>2, <1>4, <2>2 DEF GraphShape, Extracting
  <2> QED BY <2>1, <2>2
<1> QED BY <1>1, <1>2, <1>4, <1>5

(* x is through.                                                            *)
LEMMA ExtractorEnds ==
    ASSUME GraphShape, NEW x \in Extractors, extractor' = [extractor EXCEPT ![x] = Done]
    PROVE  /\ extractor' \in [Extractors -> {Done} \union Asked \union Loaded]
           /\ Extracting' = Extracting \ {x}
           /\ \A y \in Extracting' : extractor'[y] = extractor[y] /\ TwoEnds(extractor'[y].graph)
<1>1. extractor' \in [Extractors -> {Done} \union Asked \union Loaded] /\ extractor'[x] = Done
  BY DEF GraphShape
<1>2. \A y \in Extractors \ {x} : extractor'[y] = extractor[y] BY DEF GraphShape
<1>3. Extracting' = Extracting \ {x} BY <1>1, <1>2 DEF Extracting
<1> QED BY <1>1, <1>2, <1>3 DEF GraphShape, Extracting

LEMMA TheOnlyOne ==
    ASSUME GraphInv, mishaps = {}, NEW x \in Extracting
    PROVE  Extracting = {x} /\ builder = Done
BY DEF GraphInv, OneAtATime

-----------------------------------------------------------------------------
LEMMA ExtractStartKeeps ==
    ASSUME GraphInv, NEW x \in Extractors, NEW enabled \in BOOLEAN, ExtractStart(x, enabled)
    PROVE  GraphInv'
<1> DEFINE all == SetToSeq(engine.held)
           chosen == SubSeq(all, 1, IF Len(all) < MAX_CHUNKS THEN Len(all) ELSE MAX_CHUNKS)
           job == IF enabled THEN [phase |-> "asking", graph |-> LoadFromFile, todo |-> chosen]
                             ELSE [phase |-> "saved", graph |-> NewGraph]
<1>s. GraphShape /\ OneAtATime /\ ReportedInv /\ EngineInv BY DEF GraphInv
<1>1. extractor' = [extractor EXCEPT ![x] = job] /\ UNCHANGED <<file, engine, builder, reported>>
  BY DEF ExtractStart
<1>2. chosen \in Seq(Chunks)
  <2>1. IsFiniteSet(engine.held) /\ engine.held \subseteq Chunks
    BY <1>s, KnowledgeGraphAssumption, FS_Subset DEF GraphShape
  <2>2. all \in Seq(Chunks) BY <2>1, SetToSeqIsSeq
  <2> HIDE DEF all
  <2>3. MAX_CHUNKS \in Nat /\ Len(all) \in Nat BY <2>2, KnowledgeGraphAssumption
  <2>4. (IF Len(all) < MAX_CHUNKS THEN Len(all) ELSE MAX_CHUNKS) \in 0 .. Len(all)
    BY <2>3
  <2> QED BY <2>2, <2>4
<1>3. /\ job \in Asked \union Loaded /\ TwoEnds(job.graph) /\ job.phase \in {"asking", "saved"}
      /\ job.phase = "asking" => job.graph = LoadFromFile
  BY <1>2, <1>s, LoadedIsGraph, NewGraphIsGraph DEF Asked, Loaded, GraphShape
<1> HIDE DEF job
<1>4. /\ extractor' \in [Extractors -> {Done} \union Asked \union Loaded]
      /\ Extracting' = Extracting \union {x} /\ extractor'[x] = job
      /\ \A y \in Extractors \ {x} : extractor'[y] = extractor[y]
      /\ \A y \in Extracting' : TwoEnds(extractor'[y].graph)
  BY <1>s, <1>1, <1>3, ExtractorGoesOn
<1>5. GraphShape' BY <1>s, <1>1, <1>4 DEF GraphShape
<1>6. mishaps' = {} => /\ mishaps = {} /\ Extracting = {} /\ builder = Done
                       /\ Extracting' = {x} /\ file.state # "torn"
  <2>1. mishaps' = {} => mishaps = {} /\ Extracting = {} /\ builder = Done BY DEF ExtractStart
  <2> QED BY <1>4, <2>1, <1>s DEF OneAtATime
<1>7. OneAtATime' BY <1>1, <1>3, <1>4, <1>6 DEF OneAtATime
<1>8. ReportedInv'
  <2>1. file'.state = "absent" => reported' = {} BY <1>s, <1>1 DEF ReportedInv
  <2>2. ASSUME mishaps' = {} PROVE file'.state = "whole" => Has(file'.stored.entities, reported')
    BY <1>s, <1>1, <1>6, <2>2 DEF ReportedInv, Has
  <2>3. ASSUME mishaps' = {}, job.phase = "asking" PROVE Has(job.graph.entities, reported)
    <3>1. CASE file.state = "whole"
      BY <1>s, <1>3, <1>6, <2>3, <3>1 DEF ReportedInv, LoadFromFile
    <3>2. CASE file.state # "whole"
      <4>1. reported = {} BY <1>s, <1>6, <2>3, <3>2 DEF ReportedInv, GraphShape
      <4> QED BY <4>1 DEF Has
    <3> QED BY <3>1, <3>2
  <2>4. ASSUME mishaps' = {}, NEW y \in Extracting', extractor'[y].phase \in {"asking", "saving"}
        PROVE  Has(extractor'[y].graph.entities, reported')
    <3>1. y = x /\ extractor'[y] = job /\ job.phase = "asking" BY <1>3, <1>4, <1>6, <2>4
    <3> QED BY <1>1, <2>3, <2>4, <3>1 DEF Has
  <2> QED BY <2>1, <2>2, <2>4 DEF ReportedInv
<1>9. EngineInv'
  <2>1. LoadFromFile' = LoadFromFile BY <1>1 DEF LoadFromFile
  <2>2. mishaps' = {} => \A y \in Extracting' : extractor'[y].phase # "loaded"
    BY <1>3, <1>4, <1>6
  <2>3. ASSUME mishaps' = {}, engine'.there PROVE HasTheFile'
    BY <1>s, <1>1, <1>6, <2>1, <2>3 DEF EngineInv, HasTheFile
  <2> QED BY <1>1, <1>6, <2>2, <2>3 DEF EngineInv, HasTheFile
<1> QED BY <1>5, <1>7, <1>8, <1>9 DEF GraphInv

LEMMA ExtractChunkKeeps ==
    ASSUME GraphInv, NEW x \in Extractors, NEW first \in ExtractOne, NEW more \in ExtractOne,
           ExtractChunk(x, first, more)
    PROVE  GraphInv'
<1> DEFINE old == extractor[x]
           found == IF more = Failed THEN first ELSE MergeAnswers(first, more)
           graph == IF first = Failed THEN old.graph ELSE MergeExtraction(old.graph, found, Head(old.todo))
           job == [old EXCEPT !.todo = Tail(old.todo), !.graph = graph]
<1>s. GraphShape /\ OneAtATime /\ ReportedInv /\ EngineInv BY DEF GraphInv
<1>1. old.phase = "asking" /\ old.todo # <<>> /\ x \in Extracting
  BY DEF ExtractChunk, Extracting, Done
<1>2. old \in Asked /\ old.graph \in Graph /\ TwoEnds(old.graph) BY <1>s, <1>1, ExtractionShape
<1>3. /\ extractor' = [extractor EXCEPT ![x] = job]
      /\ UNCHANGED <<file, engine, builder, reported, mishaps>>
  BY <1>s, <1>1 DEF ExtractChunk, GraphShape
<1>4. Head(old.todo) \in Chunks /\ Tail(old.todo) \in Seq(Chunks) BY <1>1, <1>2 DEF Asked
<1>5. /\ graph \in Graph /\ TwoEnds(graph)
      /\ \A n \in Names : old.graph.entities[n] \subseteq graph.entities[n]
  <2>1. CASE first = Failed BY <1>2, <2>1
  <2>2. CASE first # Failed
    <3>1. found \in Answers BY <2>2, AnswersAreAnswers
    <3> HIDE DEF found, old
    <3>2. graph = MergeExtraction(old.graph, found, Head(old.todo)) BY <2>2
    <3> QED BY <1>2, <1>4, <3>1, <3>2, MergedIsGraph
  <2> QED BY <2>1, <2>2
<1> HIDE DEF graph
<1>6. job \in Asked /\ job.phase = "asking" /\ job.graph = graph BY <1>1, <1>2, <1>4, <1>5 DEF Asked
<1> HIDE DEF job
<1>7. /\ extractor' \in [Extractors -> {Done} \union Asked \union Loaded]
      /\ Extracting' = Extracting \union {x} /\ extractor'[x] = job
      /\ \A y \in Extractors \ {x} : extractor'[y] = extractor[y]
      /\ \A y \in Extracting' : TwoEnds(extractor'[y].graph)
  BY <1>s, <1>3, <1>5, <1>6, ExtractorGoesOn
<1>8. GraphShape' BY <1>s, <1>3, <1>7 DEF GraphShape
<1>9. mishaps' = {} => mishaps = {} /\ Extracting = {x} /\ builder = Done /\ Extracting' = {x}
  BY <1>1, <1>3, <1>7, TheOnlyOne
<1>10. OneAtATime' BY <1>1, <1>3, <1>6, <1>7, <1>9, <1>s DEF OneAtATime
<1>11. ReportedInv'
  <2>1. ASSUME mishaps' = {} PROVE Has(graph.entities, reported)
    <3>1. Has(old.graph.entities, reported) BY <1>1, <1>9, <1>s, <2>1 DEF ReportedInv
    <3>2. \A p \in reported : p[1] \in Names BY <1>s DEF GraphShape
    <3> QED BY <1>5, <3>1, <3>2 DEF Has
  <2>2. ASSUME mishaps' = {}, NEW y \in Extracting' PROVE Has(extractor'[y].graph.entities, reported')
    <3>1. y = x /\ extractor'[y].graph = graph BY <1>6, <1>7, <1>9, <2>2
    <3> QED BY <1>3, <2>1, <2>2, <3>1 DEF Has
  <2>3. (file'.state = "absent" => reported' = {})
        /\ (mishaps' = {} /\ file'.state = "whole" => Has(file'.stored.entities, reported'))
    BY <1>s, <1>3 DEF ReportedInv, Has
  <2> QED BY <2>2, <2>3 DEF ReportedInv
<1>12. EngineInv'
  <2>1. LoadFromFile' = LoadFromFile BY <1>3 DEF LoadFromFile
  <2>2. mishaps' = {} => \A y \in Extracting' : extractor'[y].phase # "loaded"
    BY <1>6, <1>7, <1>9
  <2>3. ASSUME mishaps' = {}, engine'.there PROVE HasTheFile'
    BY <1>s, <1>1, <1>3, <1>9, <2>1, <2>3 DEF EngineInv, HasTheFile
  <2> QED BY <1>3, <1>9, <2>2, <2>3 DEF EngineInv, HasTheFile
<1> QED BY <1>8, <1>10, <1>11, <1>12 DEF GraphInv

(* An extraction that has asked goes on with the graph it has.              *)
LEMMA SavingGoesOn ==
    ASSUME GraphInv, NEW x \in Extractors, extractor[x].phase \in {"asking", "saving"},
           NEW phase \in {"saving", "saved"}, extractor' = [extractor EXCEPT ![x].phase = phase],
           \/ UNCHANGED <<engine, builder>> /\ file' \in [state: {"absent", "whole", "torn"}, stored: FileContent]
           \/ UNCHANGED <<engine, builder, file>>,
           reported' \subseteq Names \X Chunks, mishaps' = {} => mishaps = {}
    PROVE  /\ GraphShape' /\ x \in Extracting /\ extractor[x].graph \in Graph
           /\ extractor'[x].phase = phase /\ extractor'[x].graph = extractor[x].graph
           /\ mishaps' = {} => mishaps = {} /\ Extracting = {x} /\ Extracting' = {x} /\ builder = Done
<1> DEFINE job == [extractor[x] EXCEPT !.phase = phase]
<1>s. GraphShape BY DEF GraphInv
<1>1. x \in Extracting BY DEF Extracting, Done
<1>2. extractor[x] \in Asked /\ extractor[x].graph \in Graph /\ TwoEnds(extractor[x].graph)
  BY <1>s, <1>1, ExtractionShape
<1>3. extractor' = [extractor EXCEPT ![x] = job] BY <1>s DEF GraphShape
<1>4. job \in Asked /\ job.phase = phase /\ job.graph = extractor[x].graph BY <1>2 DEF Asked
<1> HIDE DEF job
<1>5. /\ extractor' \in [Extractors -> {Done} \union Asked \union Loaded]
      /\ Extracting' = Extracting \union {x} /\ extractor'[x] = job
      /\ \A y \in Extracting' : TwoEnds(extractor'[y].graph)
  BY <1>s, <1>2, <1>3, <1>4, ExtractorGoesOn
<1>6. GraphShape' BY <1>s, <1>5 DEF GraphShape
<1>7. mishaps' = {} => mishaps = {} /\ Extracting = {x} /\ Extracting' = {x} /\ builder = Done
  BY <1>1, <1>5, TheOnlyOne
<1> QED BY <1>1, <1>2, <1>4, <1>5, <1>6, <1>7

LEMMA SaveTruncatesKeeps == ASSUME GraphInv, NEW x \in Extractors, SaveTruncates(x) PROVE GraphInv'
<1>s. GraphShape /\ OneAtATime /\ ReportedInv /\ EngineInv BY DEF GraphInv
<1>1. /\ extractor[x].phase = "asking" /\ extractor' = [extractor EXCEPT ![x].phase = "saving"]
      /\ file' = [file EXCEPT !.state = "torn"] /\ UNCHANGED <<engine, builder, reported, mishaps>>
  BY DEF SaveTruncates
<1>2. file' \in [state: {"absent", "whole", "torn"}, stored: FileContent] /\ file'.state = "torn"
  BY <1>s, <1>1 DEF GraphShape
<1>3. /\ GraphShape' /\ x \in Extracting
      /\ extractor'[x].phase = "saving" /\ extractor'[x].graph = extractor[x].graph
      /\ mishaps' = {} => mishaps = {} /\ Extracting = {x} /\ Extracting' = {x} /\ builder = Done
  <2>1. reported' \subseteq Names \X Chunks BY <1>s, <1>1 DEF GraphShape
  <2> QED BY <1>1, <1>2, <2>1, SavingGoesOn
<1>4. OneAtATime' BY <1>1, <1>2, <1>3 DEF OneAtATime
<1>5. ReportedInv'
  BY <1>s, <1>1, <1>2, <1>3 DEF ReportedInv
<1>6. EngineInv' BY <1>1, <1>2, <1>3 DEF EngineInv, HasTheFile
<1> QED BY <1>3, <1>4, <1>5, <1>6 DEF GraphInv

LEMMA SaveWritesKeeps == ASSUME GraphInv, NEW x \in Extractors, SaveWrites(x) PROVE GraphInv'
<1> DEFINE graph == extractor[x].graph
<1>s. GraphShape /\ OneAtATime /\ ReportedInv /\ EngineInv BY DEF GraphInv
<1>1. /\ extractor[x].phase = "saving" /\ extractor' = [extractor EXCEPT ![x].phase = "saved"]
      /\ file' = [state |-> "whole", stored |-> SaveToFile(graph)] /\ UNCHANGED <<engine, builder, mishaps>>
      /\ reported' = reported \union {p \in Names \X Chunks : p[2] \in graph.entities[p[1]]}
  BY DEF SaveWrites
<1>2. reported' \subseteq Names \X Chunks BY <1>s, <1>1 DEF GraphShape
<1>3. graph \in Graph /\ x \in Extracting
  <2>1. x \in Extracting BY <1>1 DEF Extracting, Done
  <2> QED BY <1>s, <2>1, ExtractionShape
<1>4. /\ file' \in [state: {"absent", "whole", "torn"}, stored: FileContent] /\ file'.state = "whole"
      /\ file'.stored.entities = graph.entities
  BY <1>1, <1>3, SavedIsFileContent
<1>5. /\ GraphShape'
      /\ extractor'[x].phase = "saved"
      /\ mishaps' = {} => mishaps = {} /\ Extracting = {x} /\ Extracting' = {x} /\ builder = Done
  BY <1>1, <1>2, <1>4, SavingGoesOn
<1>6. OneAtATime' BY <1>1, <1>4, <1>5 DEF OneAtATime
<1>7. ReportedInv'
  <2>1. ASSUME mishaps' = {} PROVE Has(graph.entities, reported')
    <3>1. Has(graph.entities, reported) BY <1>s, <1>1, <1>3, <1>5, <2>1 DEF ReportedInv
    <3> QED BY <1>1, <3>1 DEF Has
  <2> QED BY <1>4, <1>5, <2>1 DEF ReportedInv
<1>8. EngineInv' BY <1>1, <1>4, <1>5 DEF EngineInv, HasTheFile
<1> QED BY <1>5, <1>6, <1>7, <1>8 DEF GraphInv

LEMMA SaveFailsKeeps == ASSUME GraphInv, NEW x \in Extractors, SaveFails(x) PROVE GraphInv'
<1>s. GraphShape /\ OneAtATime /\ ReportedInv /\ EngineInv BY DEF GraphInv
<1>1. /\ extractor[x].phase \in {"asking", "saving"} /\ extractor' = [extractor EXCEPT ![x].phase = "saved"]
      /\ UNCHANGED <<file, engine, builder, reported>>
      /\ mishaps' = {} => mishaps = {} /\ extractor[x].phase = "asking"
  BY DEF SaveFails
<1>2. reported' \subseteq Names \X Chunks BY <1>s, <1>1 DEF GraphShape
<1>3. /\ GraphShape' /\ x \in Extracting
      /\ extractor'[x].phase = "saved"
      /\ mishaps' = {} => mishaps = {} /\ Extracting = {x} /\ Extracting' = {x} /\ builder = Done
  BY <1>1, <1>2, SavingGoesOn
<1>4. OneAtATime' BY <1>s, <1>1, <1>3 DEF OneAtATime
<1>5. ReportedInv' BY <1>s, <1>1, <1>3 DEF ReportedInv
<1>6. EngineInv'
  <2>1. LoadFromFile' = LoadFromFile BY <1>1 DEF LoadFromFile
  <2> QED BY <1>s, <1>1, <1>3, <2>1 DEF EngineInv, HasTheFile
<1> QED BY <1>3, <1>4, <1>5, <1>6 DEF GraphInv

LEMMA ExtractReloadKeeps == ASSUME GraphInv, NEW x \in Extractors, ExtractReload(x) PROVE GraphInv'
<1>s. GraphShape /\ OneAtATime /\ ReportedInv /\ EngineInv BY DEF GraphInv
<1>1. /\ extractor[x].phase = "saved" /\ x \in Extracting
      /\ UNCHANGED <<file, engine, builder, reported, mishaps>>
      /\ extractor' = [extractor EXCEPT ![x] =
           IF file.state = "whole" THEN [phase |-> "loaded", graph |-> LoadFromFile] ELSE Done]
  BY DEF ExtractReload, Extracting, Done
<1>l. LoadFromFile' = LoadFromFile BY <1>1 DEF LoadFromFile
<1>2. CASE file.state = "whole"
  <2> DEFINE job == [phase |-> "loaded", graph |-> LoadFromFile]
  <2>1. job \in Loaded /\ TwoEnds(job.graph) /\ job.phase = "loaded" /\ job.graph = LoadFromFile
    BY <1>s, LoadedIsGraph DEF Loaded, GraphShape
  <2>2. extractor' = [extractor EXCEPT ![x] = job] BY <1>1, <1>2
  <2> HIDE DEF job
  <2>3. /\ extractor' \in [Extractors -> {Done} \union Asked \union Loaded]
        /\ Extracting' = Extracting \union {x} /\ extractor'[x] = job
        /\ \A y \in Extracting' : TwoEnds(extractor'[y].graph)
    BY <1>s, <2>1, <2>2, ExtractorGoesOn
  <2>4. GraphShape' BY <1>s, <1>1, <2>3 DEF GraphShape
  <2>5. mishaps' = {} => mishaps = {} /\ Extracting = {x} /\ Extracting' = {x} /\ builder = Done
    BY <1>1, <2>3, TheOnlyOne
  <2>6. OneAtATime' BY <1>1, <1>2, <2>1, <2>3, <2>5 DEF OneAtATime
  <2>7. ReportedInv' BY <1>s, <1>1, <1>2, <2>1, <2>3, <2>5 DEF ReportedInv
  <2>8. EngineInv' BY <1>s, <1>1, <1>2, <1>l, <2>1, <2>3, <2>5 DEF EngineInv, HasTheFile
  <2> QED BY <2>4, <2>6, <2>7, <2>8 DEF GraphInv
<1>3. CASE file.state # "whole"
  <2>1. extractor' = [extractor EXCEPT ![x] = Done] BY <1>1, <1>3
  <2>2. /\ extractor' \in [Extractors -> {Done} \union Asked \union Loaded]
        /\ Extracting' = Extracting \ {x}
        /\ \A y \in Extracting' : extractor'[y] = extractor[y] /\ TwoEnds(extractor'[y].graph)
    BY <1>s, <2>1, ExtractorEnds
  <2>3. GraphShape' BY <1>s, <1>1, <2>2 DEF GraphShape
  <2>4. mishaps' = {} => mishaps = {} /\ Extracting = {x} /\ Extracting' = {} /\ builder = Done
    BY <1>1, <2>2, TheOnlyOne
  <2>5. mishaps' = {} => file.state = "absent"
    BY <1>s, <1>1, <1>3, <2>4 DEF OneAtATime, GraphShape
  <2>6. OneAtATime' BY <1>1, <2>4, <2>5 DEF OneAtATime
  <2>7. ReportedInv' BY <1>s, <1>1, <2>4 DEF ReportedInv
  <2>8. EngineInv' BY <1>s, <1>1, <1>l, <2>4, <2>5 DEF EngineInv, HasTheFile
  <2> QED BY <2>3, <2>6, <2>7, <2>8 DEF GraphInv
<1> QED BY <1>2, <1>3

LEMMA ExtractInstallKeeps ==
    ASSUME GraphInv, NEW x \in Extractors, NEW entities \in BOOLEAN, NEW relations \in BOOLEAN,
           ExtractInstall(x, entities, relations)
    PROVE  GraphInv'
<1> DEFINE graph == extractor[x].graph
<1>s. GraphShape /\ OneAtATime /\ ReportedInv /\ EngineInv BY DEF GraphInv
<1>1. /\ extractor[x].phase = "loaded" /\ x \in Extracting
      /\ UNCHANGED <<file, builder, reported, mishaps>>
      /\ extractor' = [extractor EXCEPT ![x] = Done]
      /\ engine' = IF engine.there THEN [engine EXCEPT !.graph = graph] ELSE engine
  BY DEF ExtractInstall, Extracting, Done
<1>2. graph \in Graph /\ TwoEnds(graph) BY <1>s, <1>1, ExtractionShape
<1>3. /\ engine' \in [there: BOOLEAN, local: BOOLEAN, held: SUBSET Chunks, graph: Graph]
      /\ engine'.there = engine.there /\ engine'.graph = IF engine.there THEN graph ELSE engine.graph
      /\ engine'.local = engine.local
  BY <1>s, <1>1, <1>2 DEF GraphShape
<1>4. /\ extractor' \in [Extractors -> {Done} \union Asked \union Loaded]
      /\ Extracting' = Extracting \ {x}
      /\ \A y \in Extracting' : extractor'[y] = extractor[y] /\ TwoEnds(extractor'[y].graph)
  BY <1>s, <1>1, ExtractorEnds
<1>5. TwoEnds(engine'.graph) BY <1>s, <1>2, <1>3 DEF GraphShape
<1>6. GraphShape' BY <1>s, <1>1, <1>3, <1>4, <1>5 DEF GraphShape
<1>7. mishaps' = {} => mishaps = {} /\ Extracting = {x} /\ Extracting' = {} /\ builder = Done
  BY <1>1, <1>4, TheOnlyOne
<1>8. OneAtATime' BY <1>s, <1>1, <1>7 DEF OneAtATime
<1>9. ReportedInv' BY <1>s, <1>1, <1>7 DEF ReportedInv
<1>10. EngineInv'
  <2>1. LoadFromFile' = LoadFromFile BY <1>1 DEF LoadFromFile
  <2> QED BY <1>s, <1>1, <1>3, <1>7, <2>1 DEF EngineInv, HasTheFile
<1> QED BY <1>6, <1>8, <1>9, <1>10 DEF GraphInv

LEMMA BuildKeeps ==
    ASSUME GraphInv, BuildLoads \/ BuildInserts \/ \E held \in SUBSET Chunks : Reindex(held)
    PROVE  GraphInv'
<1>s. GraphShape /\ OneAtATime /\ ReportedInv /\ EngineInv BY DEF GraphInv
<1>1. CASE BuildLoads
  <2>1. /\ builder = Done /\ builder' = [phase |-> "loaded", graph |-> LoadFromFile]
        /\ UNCHANGED <<file, engine, extractor, reported>>
        /\ mishaps' = {} => mishaps = {} /\ Extracting = {} /\ file.state # "torn"
    BY <1>1 DEF BuildLoads
  <2>2. LoadFromFile \in Graph /\ TwoEnds(LoadFromFile) /\ LoadFromFile' = LoadFromFile
    BY <1>s, <2>1, LoadedIsGraph DEF GraphShape, LoadFromFile
  <2>3. Extracting' = Extracting BY <2>1 DEF Extracting
  <2>4. builder'.graph = LoadFromFile /\ builder' \in [phase: {"loaded"}, graph: Graph] BY <2>1, <2>2
  <2>5. GraphShape' BY <1>s, <2>1, <2>2, <2>3, <2>4 DEF GraphShape
  <2>6. OneAtATime' BY <1>s, <2>1, <2>3 DEF OneAtATime
  <2>7. ReportedInv' BY <1>s, <2>1, <2>3 DEF ReportedInv
  <2>8. EngineInv' BY <1>s, <2>1, <2>2, <2>3, <2>4 DEF EngineInv, HasTheFile
  <2> QED BY <2>5, <2>6, <2>7, <2>8 DEF GraphInv
<1>2. CASE BuildInserts
  <2>1. /\ builder # Done /\ builder' = Done /\ engine' = [engine EXCEPT !.there = TRUE, !.local = FALSE, !.graph = builder.graph]
        /\ UNCHANGED <<file, extractor, reported, mishaps>>
    BY <1>2 DEF BuildInserts
  <2>2. builder.graph \in Graph /\ TwoEnds(builder.graph) BY <1>s, <2>1 DEF GraphShape
  <2>3. engine' \in [there: BOOLEAN, local: BOOLEAN, held: SUBSET Chunks, graph: Graph] /\ engine'.graph = builder.graph
    BY <1>s, <2>1, <2>2 DEF GraphShape
  <2>4. Extracting' = Extracting /\ LoadFromFile' = LoadFromFile BY <2>1 DEF Extracting, LoadFromFile
  <2>5. GraphShape' BY <1>s, <2>1, <2>2, <2>3, <2>4 DEF GraphShape
  <2>6. OneAtATime' BY <1>s, <2>1, <2>4 DEF OneAtATime
  <2>7. ReportedInv' BY <1>s, <2>1, <2>4 DEF ReportedInv
  <2>8. EngineInv' BY <1>s, <2>1, <2>3, <2>4 DEF EngineInv, HasTheFile
  <2> QED BY <2>5, <2>6, <2>7, <2>8 DEF GraphInv
<1>3. ASSUME NEW held \in SUBSET Chunks, Reindex(held) PROVE GraphInv'
  <2>1. engine' = [engine EXCEPT !.held = held] /\ UNCHANGED <<file, builder, extractor, reported, mishaps>>
    BY <1>3 DEF Reindex
  <2>2. /\ engine' \in [there: BOOLEAN, local: BOOLEAN, held: SUBSET Chunks, graph: Graph]
        /\ engine'.graph = engine.graph /\ engine'.there = engine.there /\ engine'.local = engine.local
    BY <1>s, <2>1 DEF GraphShape
  <2>3. Extracting' = Extracting /\ LoadFromFile' = LoadFromFile BY <2>1 DEF Extracting, LoadFromFile
  <2>4. GraphShape' BY <1>s, <2>1, <2>2, <2>3 DEF GraphShape
  <2>5. OneAtATime' /\ ReportedInv' BY <1>s, <2>1, <2>3 DEF OneAtATime, ReportedInv
  <2>6. EngineInv' BY <1>s, <2>1, <2>2, <2>3 DEF EngineInv, HasTheFile
  <2> QED BY <2>4, <2>5, <2>6 DEF GraphInv
<1> QED BY <1>1, <1>2, <1>3

LEMMA BuildsLocalKeeps == ASSUME GraphInv, NEW held \in SUBSET Chunks, BuildsLocal(held) PROVE GraphInv'
<1>s. GraphShape /\ OneAtATime /\ ReportedInv /\ EngineInv BY DEF GraphInv
<1>1. /\ engine' = [there |-> TRUE, local |-> TRUE, held |-> held, graph |-> NewGraph]
      /\ UNCHANGED <<file, extractor, builder, reported, mishaps>>
  BY DEF BuildsLocal
<1>2. /\ engine' \in [there: BOOLEAN, local: BOOLEAN, held: SUBSET Chunks, graph: Graph]
      /\ engine'.local /\ engine'.graph = NewGraph
  BY <1>1, NewGraphIsGraph
<1>3. Extracting' = Extracting /\ LoadFromFile' = LoadFromFile BY <1>1 DEF Extracting, LoadFromFile
<1>4. GraphShape' BY <1>s, <1>1, <1>2, <1>3, NewGraphIsGraph DEF GraphShape
<1>5. OneAtATime' /\ ReportedInv' BY <1>s, <1>1, <1>3 DEF OneAtATime, ReportedInv
<1>6. EngineInv' BY <1>s, <1>1, <1>2, <1>3 DEF EngineInv, HasTheFile
<1> QED BY <1>4, <1>5, <1>6 DEF GraphInv

LEMMA ProcessStopsKeeps == ASSUME GraphInv, ProcessStops PROVE GraphInv'
<1>s. GraphShape /\ OneAtATime /\ ReportedInv /\ EngineInv BY DEF GraphInv
<1>1. /\ engine' = [engine EXCEPT !.there = FALSE, !.local = FALSE, !.graph = NewGraph]
      /\ extractor' = [x \in Extractors |-> Done] /\ builder' = Done /\ UNCHANGED <<file, reported>>
      /\ mishaps' = {} => mishaps = {} /\ file.state # "torn"
  BY DEF ProcessStops
<1>2. /\ engine' \in [there: BOOLEAN, local: BOOLEAN, held: SUBSET Chunks, graph: Graph]
      /\ engine'.graph = NewGraph /\ ~engine'.there
  BY <1>s, <1>1, NewGraphIsGraph DEF GraphShape
<1>3. Extracting' = {} BY <1>1 DEF Extracting
<1>4. GraphShape' BY <1>s, <1>1, <1>2, <1>3, NewGraphIsGraph DEF GraphShape
<1>5. OneAtATime' /\ ReportedInv' BY <1>s, <1>1, <1>3 DEF OneAtATime, ReportedInv
<1>6. EngineInv' BY <1>1, <1>2, <1>3 DEF EngineInv, HasTheFile
<1> QED BY <1>4, <1>5, <1>6 DEF GraphInv

LEMMA GraphInit_Inv == GraphInit => GraphInv
<1> SUFFICES ASSUME GraphInit PROVE GraphInv OBVIOUS
<1>1. Extracting = {} /\ LoadFromFile = NewGraph /\ engine.graph = NewGraph
  BY DEF GraphInit, Extracting, LoadFromFile
<1>2. GraphShape
  <2>1. file \in [state: {"absent", "whole", "torn"}, stored: FileContent]
    BY DEF GraphInit, FileContent, NewGraph
  <2>2. engine \in [there: BOOLEAN, local: BOOLEAN, held: SUBSET Chunks, graph: Graph] BY NewGraphIsGraph DEF GraphInit
  <2> QED BY <1>1, <2>1, <2>2, NewGraphIsGraph DEF GraphInit, GraphShape
<1>3. OneAtATime /\ ReportedInv /\ EngineInv
  BY <1>1 DEF GraphInit, OneAtATime, ReportedInv, EngineInv, HasTheFile
<1> QED BY <1>2, <1>3 DEF GraphInv

LEMMA GraphNext_Inv == GraphInv /\ [GraphNext]_graphVars => GraphInv'
<1> SUFFICES ASSUME GraphInv, [GraphNext]_graphVars PROVE GraphInv' OBVIOUS
<1>1. ASSUME NEW x \in Extractors,
             \/ \E enabled \in BOOLEAN : ExtractStart(x, enabled)
             \/ SaveTruncates(x) \/ SaveWrites(x) \/ SaveFails(x) \/ ExtractReload(x)
             \/ \E first, more \in ExtractOne : ExtractChunk(x, first, more)
             \/ \E entities, relations \in BOOLEAN : ExtractInstall(x, entities, relations)
      PROVE  GraphInv'
  BY <1>1, ExtractStartKeeps, ExtractChunkKeeps, SaveTruncatesKeeps, SaveWritesKeeps, SaveFailsKeeps,
     ExtractReloadKeeps, ExtractInstallKeeps
<1>2. CASE BuildLoads \/ BuildInserts \/ \E held \in SUBSET Chunks : Reindex(held) BY <1>2, BuildKeeps
<1>3. ASSUME NEW held \in SUBSET Chunks, BuildsLocal(held) PROVE GraphInv' BY <1>3, BuildsLocalKeeps
<1>5. CASE ProcessStops BY <1>5, ProcessStopsKeeps
<1>4. CASE UNCHANGED graphVars
  BY <1>4 DEF graphVars, GraphInv, GraphShape, OneAtATime, ReportedInv, EngineInv, HasTheFile, Extracting, LoadFromFile
<1> QED BY <1>1, <1>2, <1>3, <1>4, <1>5 DEF GraphNext

-----------------------------------------------------------------------------
LEMMA InvIsKept == GraphInv => GraphIsKept
<1> SUFFICES ASSUME GraphInv PROVE GraphIsKept OBVIOUS
<1>1. ExtractionsAccumulate BY DEF GraphInv, ReportedInv, ExtractionsAccumulate, Has
<1>2. EngineHasTheFile BY DEF GraphInv, EngineInv, HasTheFile, EngineHasTheFile
<1> QED BY <1>1, <1>2 DEF GraphIsKept

(* What is ranked first: all of it, or as much as was asked for.            *)
LEMMA TopIsAllOrFull ==
    ASSUME NEW k, NEW S, NEW T \in Top(k, S)
    PROVE  T \subseteq S /\ (T = S \/ Cardinality(T) = k)
BY DEF Top, kSubset

LEMMA TopOfOne ==
    ASSUME NEW k \in Nat \ {0}, NEW n
    PROVE  Top(k, {n}) = {{n}}
<1>1. Cardinality({n}) = 1 BY FS_Singleton
<1>2. Cardinality({n}) <= k BY <1>1
<1> QED BY <1>2 DEF Top

LEMMA LimitsArePositive == Limits \subseteq Nat \ {0}
<1>1. Cardinality(Chunks) \in Nat BY KnowledgeGraphAssumption, FS_CardinalityType
<1> QED BY <1>1 DEF Limits

LEMMA InvFindsBothEnds == GraphInv => BothEndsAreFound
<1> DEFINE g == engine.graph
<1> SUFFICES ASSUME GraphInv, NEW e \in UNION {g.edges[m] : m \in Names}, NEW k \in Limits,
                    NEW n \in {e.source, e.target}, g.entities[n] # {},
                    NEW found \in SearchGraph({n}, NotAsked, k)
             PROVE  \/ Cardinality(found) = k
                    \/ (g.entities[e.source] \union g.entities[e.target]) \intersect engine.held \subseteq found
  BY DEF BothEndsAreFound
<1>1. g \in Graph /\ TwoEnds(g) BY DEF GraphInv, GraphShape
<1>2. PICK m \in Names : e \in g.edges[m] OBVIOUS
<1>3. e \in g.edges[n] BY <1>1, <1>2 DEF TwoEnds
<1>4. g.entities[e.source] \union g.entities[e.target] \subseteq Related(g, n)
  <2> DEFINE other == IF e.source = n THEN e.target ELSE e.source
  <2>1. other \in Neighbours(g, n) /\ {n, other} = {e.source, e.target} BY <1>3 DEF Neighbours
  <2> HIDE DEF g
  <2> QED BY <2>1 DEF Related
<1>5. GraphSearch(g, {n}, k) = {Related(g, n)}
  <2>1. {l \in {n} : g.entities[l] # {}} = {n} OBVIOUS
  <2>2. Top(k, {n}) = {{n}} BY TopOfOne, LimitsArePositive
  <2>3. GraphSearch(g, {n}, k) = {UNION {Related(g, l) : l \in hits} : hits \in {{n}}}
    BY <2>1, <2>2 DEF GraphSearch
  <2>4. UNION {Related(g, l) : l \in {n}} = Related(g, n) OBVIOUS
  <2> HIDE DEF g
  <2>5. {UNION {Related(g, l) : l \in hits} : hits \in {{n}}} = {UNION {Related(g, l) : l \in {n}}} OBVIOUS
  <2> QED BY <2>3, <2>4, <2>5
<1> DEFINE nothing == SemanticChunks(ExtractQueryKeywords(NotAsked)) = {} /\ Related(g, n) = {}
<1>6. found \in (IF nothing THEN {{}} ELSE Top(k, Related(g, n) \intersect engine.held))
  BY <1>5 DEF SearchGraph
<1>7. CASE nothing
  <2> HIDE DEF g
  <2> QED BY <1>4, <1>7
<1>8. CASE ~nothing
  <2>1. found = Related(g, n) \intersect engine.held \/ Cardinality(found) = k BY <1>6, <1>8, TopIsAllOrFull
  <2> HIDE DEF g, nothing
  <2> QED BY <1>4, <2>1
<1> QED BY <1>7, <1>8

(* The hybrid mode asks the store for no fewer points than the others.      *)
LEMMA NearestGrows ==
    ASSUME NEW near, NEW m \in Nat, NEW n \in Nat, m <= n, DOMAIN near \subseteq Nat
    PROVE  Nearest(near, m) \subseteq Nearest(near, n)
<1>1. {j \in DOMAIN near : j <= m} \subseteq {j \in DOMAIN near : j <= n} OBVIOUS
<1> QED BY <1>1 DEF Nearest

LEMMA HybridFetchesMore ==
    ASSUME NEW k \in Nat, NEW reranked \in BOOLEAN, reranked => 3 * k <= AtLeastMinFetch(2 * k)
    PROVE  /\ VectorFetch(k, reranked) \in Nat /\ AtLeastMinFetch(2 * k) \in Nat
           /\ VectorFetch(k, reranked) <= AtLeastMinFetch(2 * k)
BY KnowledgeGraphAssumption DEF VectorFetch, AtLeastMinFetch

LEMMA RankingsAreLists ==
    ASSUME NEW near \in Rankings
    PROVE  DOMAIN near \subseteq Nat
<1>1. PICK n \in 0 .. Cardinality(Chunks) : near \in [1 .. n -> Chunks] BY DEF Rankings
<1> QED BY <1>1

LEMMA GraphAnswersAreHeld ==
    ASSUME NEW terms, NEW k, NEW found \in SearchGraph(terms, NotAsked, k)
    PROVE  found \subseteq engine.held
<1>1. PICK named \in GraphSearch(engine.graph, terms, k) :
           found \in {{}} \/ found \in Top(k, named \intersect engine.held)
  BY DEF SearchGraph
<1> QED BY <1>1, TopIsAllOrFull

(* What is cut from k chunks and more is k of them.                         *)
LEMMA TopOfMoreIsFull ==
    ASSUME NEW k \in Nat, NEW S \in SUBSET Chunks, NEW part \in SUBSET S, Cardinality(part) = k,
           NEW T \in Top(k, S)
    PROVE  Cardinality(T) = k
<1>1. /\ IsFiniteSet(S) /\ Cardinality(S) \in Nat
      /\ Cardinality(part) <= Cardinality(S)
  BY KnowledgeGraphAssumption, FS_Subset, FS_CardinalityType
<1> QED BY <1>1 DEF Top, kSubset

LEMMA HybridSearch == GraphInv => HybridLosesNothing
<1> SUFFICES ASSUME GraphInv, NEW k \in Limits, NEW terms \in SUBSET Names,
                    NEW found \in SearchGraph(terms, NotAsked, k), NEW near \in Rankings, NEW worded \in Chunks,
                    NEW faults \in Faults, NEW reranked \in BOOLEAN,
                    reranked => 3 * k <= AtLeastMinFetch(2 * k),
                    NEW answer \in SearchVector(near, <<worded>>, faults, k, reranked),
                    NEW hybrid \in SearchHybridMode(near, found, faults, k)
             PROVE  Cardinality(hybrid) = k \/ found \union (answer \ {worded}) \subseteq hybrid
  BY DEF HybridLosesNothing
<1>1. k \in Nat /\ found \subseteq engine.held /\ engine.held \subseteq Chunks
  BY LimitsArePositive, GraphAnswersAreHeld DEF GraphInv, GraphShape
<1> DEFINE wide == Nearest(near, AtLeastMinFetch(2 * k))
           all == {near[i] : i \in DOMAIN near} \intersect engine.held
<1>2. Nearest(near, VectorFetch(k, reranked)) \subseteq wide
  BY <1>1, HybridFetchesMore, NearestGrows, RankingsAreLists
<1>3. Nearest(<<worded>>, VectorFetch(k, reranked)) \subseteq {worded} BY DEF Nearest
<1> HIDE DEF wide
<1>4. CASE faults \intersect {"provider", "persistence"} # {}
  <2>1. hybrid = found BY <1>4 DEF SearchHybridMode
  <2>2. answer = {} BY <1>4 DEF Faults, SearchVector, SearchDense
  <2> QED BY <2>1, <2>2
<1>5. CASE faults \intersect {"provider", "persistence"} = {}
  <2>1. PICK hits \in HybridHits(near, faults, k) : hybrid \in Top(k, found \union hits)
    BY <1>5 DEF SearchHybridMode
  <2>2. hybrid = found \union hits \/ Cardinality(hybrid) = k BY <2>1, TopIsAllOrFull
  <2>3. CASE "absent" \in faults
    <3>1. hits \in Top(k, all) /\ answer \in Top(k, all) BY <2>3, <2>1 DEF HybridHits, SearchVector, SearchKeyword
    <3>5. all \subseteq engine.held OBVIOUS
    <3> HIDE DEF all
    <3>2. hits \subseteq all /\ answer \subseteq all /\ (hits = all \/ Cardinality(hits) = k)
      BY <3>1, TopIsAllOrFull
    <3>3. CASE hits = all BY <2>2, <3>2, <3>3
    <3>4. CASE hits # all
      <4>1. hits \subseteq found \union hits /\ found \union hits \subseteq Chunks
        BY <1>1, <3>2, <3>5
      <4> QED BY <1>1, <2>1, <3>2, <3>4, <4>1, TopOfMoreIsFull
    <3> QED BY <3>3, <3>4
  <2>4. CASE "store" \in faults
    <3>1. answer = {} BY <2>4 DEF Faults, SearchVector, SearchDense
    <3>2. hits = {} BY <2>1, <2>4 DEF Faults, HybridHits
    <3> QED BY <2>2, <3>1, <3>2
  <2>5. CASE faults \intersect {"absent", "store"} = {}
    <3>1. hits = wide BY <2>1, <2>5 DEF HybridHits, wide
    <3>2. answer \ {worded} \subseteq wide
      <4>1. CASE "sparse" \in faults
        <5>1. answer \in Top(k, Nearest(near, VectorFetch(k, reranked)))
          BY <1>5, <2>5, <4>1 DEF Faults, SearchVector, SearchDense
        <5> QED BY <1>2, <5>1, TopIsAllOrFull
      <4>2. CASE "sparse" \notin faults
        <5>1. answer \in Top(k, Nearest(near, VectorFetch(k, reranked))
                                 \union Nearest(<<worded>>, VectorFetch(k, reranked)))
          BY <1>5, <2>5, <4>2 DEF SearchVector
        <5>2. answer \subseteq Nearest(near, VectorFetch(k, reranked))
                                 \union Nearest(<<worded>>, VectorFetch(k, reranked))
          BY <5>1, TopIsAllOrFull
        <5> QED BY <1>2, <1>3, <5>2
      <4> QED BY <4>1, <4>2
    <3> QED BY <2>2, <3>1, <3>2
  <2> QED BY <2>3, <2>4, <2>5
<1> QED BY <1>4, <1>5

(* Whatever extractions, rebuilds and restarts do to the graph: unless two  *)
(* of them overlapped or a write was cut short, what extractions found is   *)
(* in knowledge_graph.json and in the graph of the engine                   *)
(* (extract_and_persist and graph_extract).                                 *)
THEOREM TheGraphIsAlwaysKept == GraphSpec => []GraphIsKept
<1> QED BY GraphInit_Inv, GraphNext_Inv, InvIsKept, PTL DEF GraphSpec

(* A search for one end of a relation finds the chunks of the other, and    *)
(* the hybrid mode finds what the other modes find, whatever merges, saves, *)
(* reloads and mishaps there were (KnowledgeGraph::search and               *)
(* search_hybrid_mode).                                                     *)
THEOREM SearchesAlwaysFind == GraphSpec => []SearchesFind
<1>1. GraphInv => SearchesFind BY InvFindsBothEnds, HybridSearch DEF SearchesFind
<1> QED BY <1>1, GraphInit_Inv, GraphNext_Inv, PTL DEF GraphSpec

-----------------------------------------------------------------------------
(***************************************************************************)
(* Backups have what was there, and restores put it in place.              *)
(***************************************************************************)

Entry == Saved \X (Nat \union {Mixed})
Archive == [entries: Seq(Entry), manifest: {"none", "current", "older"}, whole: BOOLEAN, damaged: SUBSET Nat]
Taking == [phase: {"walking", "done"}, made: Nat, images: BOOLEAN, left: SUBSET Saved,
           reading: {<<>>} \union (Saved \X Nat), began: [Saved -> Nat],
           gone: SUBSET Saved, touched: SUBSET Saved, commits: Nat, checkpointed: BOOLEAN]
Restoring == [phase: {"unpacking", "ok", "failed", "refused"}, made: Nat, rest: Seq(Entry), before: [Saved -> Int],
              warned: BOOLEAN]

(* Every file is in an archive once.                                        *)
Distinct(entries) == \A j, k \in DOMAIN entries : entries[j][1] = entries[k][1] => j = k

BackupShape ==
    /\ live \in [Saved -> Nat] /\ commits \in Nat /\ edits \in Nat /\ target \in [Saved -> Int]
    /\ archive \in {NoArchive} \union Archive /\ (archive # NoArchive => Distinct(archive.entries))
    /\ backup \in [phase: {"none"}, made: Nat] \union Taking
    /\ backup.phase # "none" => archive \in Archive /\ Distinct(archive.entries)
    /\ restore \in [phase: {"none"}, made: Nat] \union Restoring
    /\ restore.phase # "none" => /\ archive \in Archive /\ Distinct(archive.entries)
                                 /\ backup.phase = "none"

Begun == backup.phase \in {"walking", "done"}
Reads(f) == backup.reading # <<>> /\ backup.reading[1] = f

(* Either the log is empty or it is ahead of the file.                      *)
CommitInv ==
    \/ live[Wal] = 0 /\ live[Db] = commits
    \/ live[Wal] # 0 /\ live[Wal] = commits /\ live[Db] < commits

(* What the files were when the backup began, and what they are.            *)
LiveInv ==
    /\ CommitInv
    /\ \A f \in Saved \ Database : live[f] <= edits + 1
    /\ Begun =>
        /\ \A f \in Saved \ Database :
             /\ backup.began[f] <= edits + 1
             /\ IF live[f] = 0 THEN backup.began[f] = 0 \/ f \in backup.gone ELSE live[f] >= backup.began[f]
        /\ ~backup.checkpointed =>
             /\ live[Db] = backup.began[Db] /\ backup.commits <= commits
             /\ IF live[Wal] = 0 THEN backup.began[Db] = backup.commits /\ backup.began[Wal] = 0
                ELSE live[Wal] >= backup.commits /\ live[Wal] > backup.began[Db]
             /\ backup.began[Wal] = 0 => backup.began[Db] = backup.commits

(* What is read or has been read of f, in a backup under way or done, where *)
(* nobody changed it meanwhile.                                             *)
CopyInv(f, v) ==
    /\ f \notin backup.left /\ ~ShouldSkip(f, backup.images)
    /\ f \notin backup.touched =>
         /\ v \in Nat
         /\ f \notin Database => /\ v >= backup.began[f] /\ v <= edits + 1
                                 /\ live[f] # 0 => v <= live[f]
         /\ ~backup.checkpointed =>
              /\ f = Db => v = backup.began[Db]
              /\ f = Wal => IF v = 0 THEN backup.began[Db] = backup.commits
                            ELSE v >= backup.commits /\ v > backup.began[Db]

(* Why a file that was passed is not in the archive.                        *)
MissInv(f) ==
    \/ ShouldSkip(f, backup.images)
    \/ f \notin Database /\ (backup.began[f] = 0 \/ f \in backup.gone)
    \/ f \in Database /\ (backup.checkpointed \/ backup.began[f] = 0)

TakenInv ==
    Begun =>
        /\ \A k \in DOMAIN archive.entries : CopyInv(archive.entries[k][1], archive.entries[k][2])
        /\ backup.reading # <<>> =>
             /\ CopyInv(backup.reading[1], backup.reading[2])
             /\ \A k \in DOMAIN archive.entries : archive.entries[k][1] # backup.reading[1]
        /\ \A f \in backup.left : ~ShouldSkip(f, backup.images)
        /\ \A f \in Saved \ backup.left : InArchive(f) \/ Reads(f) \/ MissInv(f)
        /\ \A k \in archive.damaged : k \in DOMAIN archive.entries /\ archive.entries[k][1] \in backup.touched
        /\ backup.phase = "done" => backup.left = {} /\ backup.reading = <<>>

(* How far a restore is, and what it has put in place: what was passed over *)
(* is behind a damaged entry.                                               *)
UnpackedInv ==
    /\ Passed \in Nat
    /\ \A k \in 1 .. Len(restore.rest) : restore.rest[k] = archive.entries[Passed + k]
    /\ \A k \in 1 .. Passed :
         \/ target[archive.entries[k][1]] = archive.entries[k][2]
         \/ /\ target[archive.entries[k][1]] = restore.before[archive.entries[k][1]]
            /\ \E d \in archive.damaged : d < k
    /\ \A f \in Saved : (\A k \in 1 .. Passed : archive.entries[k][1] # f) => target[f] = restore.before[f]

RestoreInv ==
    /\ restore.phase \in {"unpacking", "ok"} =>
         /\ UnpackedInv
         /\ ~restore.warned => restore.before[Db] = 0 /\ restore.before[Wal] = 0
    /\ restore.phase = "ok" =>
         /\ restore.rest = <<>> \/ Astray
         /\ ~restore.warned => archive.manifest \notin {"none", "older"}
    /\ restore.phase = "refused" => target = restore.before

BackupInv == BackupShape /\ LiveInv /\ TakenInv /\ RestoreInv

-----------------------------------------------------------------------------
(* Where an archive has a file.                                             *)
LEMMA ArchivedIsEntry ==
    ASSUME archive \in Archive, Distinct(archive.entries), NEW k \in DOMAIN archive.entries
    PROVE  InArchive(archive.entries[k][1]) /\ Archived(archive.entries[k][1]) = archive.entries[k][2]
<1> DEFINE f == archive.entries[k][1]
           K == CHOOSE l \in DOMAIN archive.entries : archive.entries[l][1] = f
<1>1. InArchive(f) BY DEF InArchive
<1>2. K \in DOMAIN archive.entries /\ archive.entries[K][1] = f OBVIOUS
<1>3. K = k BY <1>2 DEF Distinct
<1>4. Archived(f) = archive.entries[K][2] BY <1>1 DEF Archived
<1> QED BY <1>1, <1>3, <1>4

LEMMA ArchivedHasEntry ==
    ASSUME archive \in Archive, Distinct(archive.entries), NEW f, InArchive(f)
    PROVE  \E k \in DOMAIN archive.entries : archive.entries[k][1] = f /\ Archived(f) = archive.entries[k][2]
<1>1. PICK k \in DOMAIN archive.entries : archive.entries[k][1] = f BY DEF InArchive
<1>2. Archived(archive.entries[k][1]) = archive.entries[k][2] BY ArchivedIsEntry
<1> QED BY <1>1, <1>2

LEMMA EntryTypes ==
    ASSUME archive \in Archive, NEW k \in DOMAIN archive.entries
    PROVE  k \in 1 .. Len(archive.entries) /\ archive.entries[k][1] \in Saved /\ archive.entries[k][2] \in Int
BY DEF Archive, Entry, Mixed

LEMMA OneLater == \A v, e, d \in Nat : v <= e + 1 /\ e <= d => v <= d + 1
OBVIOUS

LEMMA RestoreIsKept ==
    ASSUME RestoreInv, UNCHANGED <<archive, restore, target>> PROVE RestoreInv'
BY DEF RestoreInv, UnpackedInv, Passed, Astray

-----------------------------------------------------------------------------
(* The project goes on.                                                     *)
LEMMA CopiesAreKept ==
    ASSUME Begun, edits \in Nat, edits' \in Nat, edits <= edits', live' \in [Saved -> Nat],
           live \in [Saved -> Nat], backup \in Taking,
           backup'.left \subseteq backup.left, backup'.images = backup.images,
           backup'.began = backup.began, backup'.commits = backup.commits, backup.touched \subseteq backup'.touched,
           backup.checkpointed => backup'.checkpointed,
           \A f \in Saved \ Database : live'[f] = live[f] \/ live'[f] = 0 \/ live'[f] > edits,
           NEW f \in Saved, NEW v, CopyInv(f, v)
    PROVE  /\ f \notin backup'.left /\ ~ShouldSkip(f, backup'.images)
           /\ f \notin backup'.touched =>
                /\ v \in Nat
                /\ f \notin Database => /\ v >= backup'.began[f] /\ v <= edits' + 1
                                        /\ live'[f] # 0 => v <= live'[f]
                /\ ~backup'.checkpointed =>
                     /\ f = Db => v = backup'.began[Db]
                     /\ f = Wal => IF v = 0 THEN backup'.began[Db] = backup'.commits
                                   ELSE v >= backup'.commits /\ v > backup'.began[Db]
<1>1. f \notin backup'.left /\ ~ShouldSkip(f, backup'.images) BY DEF CopyInv
<1>2. SUFFICES ASSUME f \notin backup'.touched
               PROVE  /\ v \in Nat
                      /\ f \notin Database => /\ v >= backup'.began[f] /\ v <= edits' + 1
                                              /\ live'[f] # 0 => v <= live'[f]
                      /\ ~backup'.checkpointed =>
                           /\ f = Db => v = backup'.began[Db]
                           /\ f = Wal => IF v = 0 THEN backup'.began[Db] = backup'.commits
                                         ELSE v >= backup'.commits /\ v > backup'.began[Db]
  BY <1>1
<1>3. /\ v \in Nat
      /\ f \notin Database => v >= backup.began[f] /\ v <= edits + 1 /\ (live[f] # 0 => v <= live[f])
      /\ ~backup.checkpointed =>
           /\ f = Db => v = backup.began[Db]
           /\ f = Wal => IF v = 0 THEN backup.began[Db] = backup.commits
                         ELSE v >= backup.commits /\ v > backup.began[Db]
  BY <1>2 DEF CopyInv
<1>4. f \notin Database => v <= edits' + 1 BY <1>3, OneLater
<1>5. f \notin Database /\ live'[f] # 0 => v <= live'[f]
  <2>1. f \notin Database => live'[f] = live[f] \/ live'[f] = 0 \/ live'[f] > edits OBVIOUS
  <2>2. live'[f] \in Nat /\ live[f] \in Nat OBVIOUS
  <2> QED BY <2>1, <2>2, <1>3
<1> QED BY <1>3, <1>4, <1>5

LEMMA TakenIsKept ==
    ASSUME TakenInv, UNCHANGED archive, Begun' <=> Begun, edits \in Nat, edits' \in Nat, edits <= edits',
           live' \in [Saved -> Nat],
           BackupShape,
           Begun => /\ backup'.phase = backup.phase /\ backup'.left = backup.left /\ backup'.images = backup.images
                    /\ backup'.began = backup.began /\ backup'.commits = backup.commits
                    /\ backup'.reading = backup.reading /\ backup.touched \subseteq backup'.touched
                    /\ backup.gone \subseteq backup'.gone /\ (backup.checkpointed => backup'.checkpointed)
                    /\ \A f \in Saved \ Database : live'[f] = live[f] \/ live'[f] = 0 \/ live'[f] > edits
    PROVE  TakenInv'
<1>1. SUFFICES ASSUME Begun PROVE TakenInv' BY DEF TakenInv
<1>2. archive \in Archive /\ backup \in Taking /\ live \in [Saved -> Nat] BY <1>1 DEF BackupShape, Begun
<1>3. \A k \in DOMAIN archive'.entries : CopyInv(archive.entries[k][1], archive.entries[k][2])'
  <2> SUFFICES ASSUME NEW k \in DOMAIN archive.entries
               PROVE  CopyInv(archive.entries[k][1], archive.entries[k][2])'
    OBVIOUS
  <2>1. CopyInv(archive.entries[k][1], archive.entries[k][2]) /\ archive.entries[k][1] \in Saved
    BY <1>1, <1>2, EntryTypes DEF TakenInv
  <2> QED BY <2>1, <1>1, <1>2, CopiesAreKept DEF CopyInv
<1>4. backup'.reading # <<>> =>
        /\ CopyInv(backup.reading[1], backup.reading[2])'
        /\ \A k \in DOMAIN archive'.entries : archive'.entries[k][1] # backup'.reading[1]
  <2> SUFFICES ASSUME backup.reading # <<>>
               PROVE  /\ CopyInv(backup.reading[1], backup.reading[2])'
                      /\ \A k \in DOMAIN archive.entries : archive.entries[k][1] # backup.reading[1]
    BY <1>1
  <2>1. CopyInv(backup.reading[1], backup.reading[2]) /\ backup.reading[1] \in Saved
        /\ \A k \in DOMAIN archive.entries : archive.entries[k][1] # backup.reading[1]
    BY <1>1, <1>2 DEF TakenInv, Taking
  <2> QED BY <2>1, <1>1, <1>2, CopiesAreKept DEF CopyInv
<1>5. \A f \in Saved \ backup.left : InArchive(f)' \/ Reads(f)' \/ MissInv(f)'
  BY <1>1 DEF TakenInv, InArchive, Reads, MissInv, ShouldSkip
<1>6. /\ \A k \in archive.damaged : k \in DOMAIN archive.entries /\ archive.entries[k][1] \in backup'.touched
      /\ \A f \in backup.left : ~ShouldSkip(f, backup.images)
      /\ backup.phase = "done" => backup.left = {} /\ backup.reading = <<>>
  BY <1>1 DEF TakenInv
<1> QED BY <1>1, <1>3, <1>4, <1>5, <1>6 DEF TakenInv

LEMMA DatabaseIsApart ==
    /\ Db \in Saved /\ Wal \in Saved /\ Db # Wal
    /\ Database \cap (Plain \union Images \union Caches \union Shared) = {}
BY BackupAssumption DEF Saved, Database

LEMMA FilesBeingRead == \A files \in SUBSET Saved : BeingRead(files) \in SUBSET Saved
BY DEF BeingRead

LEMMA CommitKeepsIt == ASSUME BackupInv, CommitState PROVE BackupInv'
<1>1. restore.phase = "none" BY DEF CommitState, Working
<1>2. /\ live' = [live EXCEPT ![Wal] = commits + 1] /\ commits' = commits + 1
      /\ UNCHANGED <<edits, archive, restore, target>>
      /\ backup' = IF Walking THEN [backup EXCEPT !.touched = @ \union BeingRead({Wal})] ELSE backup
  BY DEF CommitState
<1>3. BackupShape BY DEF BackupInv
<1>4. Begun => backup \in Taking BY <1>3 DEF BackupShape, Begun
<1>5. /\ backup' \in [phase: {"none"}, made: Nat] \union Taking /\ backup'.phase = backup.phase
      /\ Begun => /\ backup'.left = backup.left /\ backup'.images = backup.images
                  /\ backup'.reading = backup.reading /\ backup.touched \subseteq backup'.touched
                  /\ backup'.began = backup.began /\ backup'.commits = backup.commits
                  /\ backup'.gone = backup.gone /\ backup'.checkpointed = backup.checkpointed
  <2>1. BeingRead({Wal}) \in SUBSET Saved BY DatabaseIsApart, FilesBeingRead
  <2> QED BY <2>1, <1>2, <1>3, <1>4 DEF BackupShape, Begun, Walking, Taking
<1>6. live' \in [Saved -> Nat] /\ commits' \in Nat /\ edits \in Nat
  <2>1. live \in [Saved -> Nat] /\ commits \in Nat /\ edits \in Nat BY <1>3 DEF BackupShape
  <2>2. commits' \in Nat /\ commits + 1 \in Nat BY <1>2, <2>1
  <2> QED BY <1>2, <2>1, <2>2
<1>7. BackupShape' BY <1>2, <1>3, <1>5, <1>6 DEF BackupShape
<1>8. /\ live'[Wal] = commits + 1 /\ \A f \in Saved \ {Wal} : live'[f] = live[f]
      /\ commits \in Nat /\ live[Db] \in Nat /\ live[Wal] \in Nat
  BY <1>2, <1>3, DatabaseIsApart DEF BackupShape
<1>9. LiveInv'
  <2>1. CommitInv' BY <1>2, <1>8, DatabaseIsApart DEF BackupInv, LiveInv, CommitInv
  <2>2. \A f \in Saved \ Database : live'[f] = live[f] BY <1>8 DEF Database
  <2>3. ASSUME Begun, ~backup.checkpointed
        PROVE  /\ live'[Db] = backup.began[Db] /\ backup.commits <= commits'
               /\ live'[Wal] # 0 /\ live'[Wal] >= backup.commits /\ live'[Wal] > backup.began[Db]
               /\ backup.began[Wal] = 0 => backup.began[Db] = backup.commits
    <3>1. backup.commits \in Nat BY <1>4, <2>3 DEF Taking
    <3>2. live[Db] <= commits BY <1>8 DEF BackupInv, LiveInv, CommitInv
    <3>3. live'[Db] = live[Db] BY <1>8, DatabaseIsApart
    <3>4. /\ live[Db] = backup.began[Db] /\ backup.commits <= commits
          /\ backup.began[Wal] = 0 => backup.began[Db] = backup.commits
      BY <2>3 DEF BackupInv, LiveInv
    <3> QED BY <3>1, <3>2, <3>3, <3>4, <1>2, <1>8
  <2> QED BY <2>1, <2>2, <2>3, <1>2, <1>5 DEF BackupInv, LiveInv, Begun
<1>10. TakenInv'
  <2>1. \A f \in Saved \ Database : live'[f] = live[f] BY <1>8 DEF Database
  <2> QED BY <1>2, <1>3, <1>5, <1>6, <2>1, TakenIsKept DEF BackupInv, Begun
<1>11. RestoreInv' BY <1>1, <1>2 DEF RestoreInv
<1> QED BY <1>7, <1>9, <1>10, <1>11 DEF BackupInv

LEMMA CheckpointKeepsIt == ASSUME BackupInv, Checkpoint PROVE BackupInv'
<1>1. restore.phase = "none" /\ backup.phase # "done" BY DEF Checkpoint, Working, Walking
<1>2. /\ live[Wal] # 0 /\ live' = [live EXCEPT ![Db] = live[Wal], ![Wal] = 0]
      /\ UNCHANGED <<commits, edits, archive, restore, target>>
      /\ backup' = IF Walking THEN [backup EXCEPT !.checkpointed = TRUE, !.touched = @ \union BeingRead(Database)]
                   ELSE backup
  BY DEF Checkpoint
<1>3. BackupShape BY DEF BackupInv
<1>4. Begun => backup \in Taking BY <1>3 DEF BackupShape, Begun
<1>5. /\ backup' \in [phase: {"none"}, made: Nat] \union Taking /\ backup'.phase = backup.phase
      /\ Begun => /\ backup'.left = backup.left /\ backup'.images = backup.images
                  /\ backup'.reading = backup.reading /\ backup.touched \subseteq backup'.touched
                  /\ backup'.began = backup.began /\ backup'.commits = backup.commits
                  /\ backup'.gone = backup.gone /\ backup'.checkpointed
  <2>1. BeingRead(Database) \in SUBSET Saved BY DatabaseIsApart, FilesBeingRead DEF Database
  <2> QED BY <2>1, <1>1, <1>2, <1>3, <1>4 DEF BackupShape, Begun, Walking, Taking
<1>6. BackupShape' BY <1>2, <1>3, <1>5, DatabaseIsApart DEF BackupShape
<1>7. /\ live'[Wal] = 0 /\ live'[Db] = live[Wal] /\ \A f \in Saved \ Database : live'[f] = live[f]
      /\ commits \in Nat /\ live[Db] \in Nat /\ live[Wal] \in Nat
  BY <1>2, <1>3, DatabaseIsApart DEF BackupShape, Database
<1>8. LiveInv'
  <2>1. CommitInv' BY <1>2, <1>7 DEF BackupInv, LiveInv, CommitInv
  <2> QED BY <2>1, <1>2, <1>5, <1>7 DEF BackupInv, LiveInv, Begun
<1>9. TakenInv'
  <2>1. live' \in [Saved -> Nat] /\ edits \in Nat BY <1>2, <1>3, <1>6 DEF BackupShape
  <2> QED BY <1>2, <1>3, <1>5, <1>7, <2>1, TakenIsKept DEF BackupInv, Begun
<1>10. RestoreInv' BY <1>1, <1>2 DEF RestoreInv
<1> QED BY <1>6, <1>8, <1>9, <1>10 DEF BackupInv

LEMMA EditKeepsIt == ASSUME BackupInv, NEW f \in Saved, EditFile(f) PROVE BackupInv'
<1>1. restore.phase = "none" /\ backup.phase # "done" /\ f \notin Database BY DEF EditFile, Working, Walking, Database
<1>2. edits' = edits + 1 /\ UNCHANGED <<commits, archive, restore, target>> BY DEF EditFile
<1>3. BackupShape BY DEF BackupInv
<1>4. Begun => backup \in Taking BY <1>3 DEF BackupShape, Begun
<1>5. \/ /\ live' = [live EXCEPT ![f] = edits + 2]
         /\ backup' = backup \/ backup' = IF Walking THEN [backup EXCEPT !.touched = @ \union BeingRead({f})] ELSE backup
      \/ live' = [live EXCEPT ![f] = 0] /\ backup' = IF Walking THEN [backup EXCEPT !.gone = @ \union {f}] ELSE backup
  BY DEF EditFile
<1>6. /\ backup' \in [phase: {"none"}, made: Nat] \union Taking /\ backup'.phase = backup.phase
      /\ Begun => /\ backup'.left = backup.left /\ backup'.images = backup.images
                  /\ backup'.reading = backup.reading /\ backup.touched \subseteq backup'.touched
                  /\ backup'.began = backup.began /\ backup'.commits = backup.commits
                  /\ backup.gone \subseteq backup'.gone /\ backup'.checkpointed = backup.checkpointed
                  /\ live'[f] = 0 => f \in backup'.gone
  <2>1. edits + 2 # 0 /\ edits \in Nat /\ BeingRead({f}) \in SUBSET Saved BY <1>3, FilesBeingRead DEF BackupShape
  <2>2. CASE live' = [live EXCEPT ![f] = edits + 2] /\ backup' = backup BY <2>1, <2>2, <1>3 DEF BackupShape
  <2>3. CASE /\ live' = [live EXCEPT ![f] = edits + 2]
             /\ backup' = IF Walking THEN [backup EXCEPT !.touched = @ \union BeingRead({f})] ELSE backup
    <3>1. CASE Walking BY <2>1, <2>3, <1>3, <1>4, <3>1 DEF BackupShape, Begun, Walking, Taking
    <3>2. CASE ~Walking BY <2>1, <2>3, <1>1, <1>3, <3>2 DEF BackupShape, Begun, Walking
    <3> QED BY <3>1, <3>2
  <2>4. CASE live' = [live EXCEPT ![f] = 0] /\ backup' = IF Walking THEN [backup EXCEPT !.gone = @ \union {f}] ELSE backup
    <3>1. CASE Walking BY <2>4, <1>3, <1>4, <3>1 DEF BackupShape, Begun, Walking, Taking
    <3>2. CASE ~Walking BY <2>4, <1>1, <1>3, <3>2 DEF BackupShape, Begun, Walking
    <3> QED BY <3>1, <3>2
  <2> QED BY <2>2, <2>3, <2>4, <1>5
<1>7. live' \in [Saved -> Nat] /\ edits \in Nat /\ edits' \in Nat /\ edits <= edits'
  BY <1>2, <1>3, <1>5 DEF BackupShape
<1>8. BackupShape' BY <1>2, <1>3, <1>6, <1>7 DEF BackupShape
<1>9. /\ live'[f] = edits + 2 \/ live'[f] = 0
      /\ \A g \in Saved \ {f} : live'[g] = live[g]
  BY <1>3, <1>5 DEF BackupShape
<1>10. LiveInv'
  <2>1. live'[Db] = live[Db] /\ live'[Wal] = live[Wal] BY <1>1, <1>9, DatabaseIsApart DEF Database
  <2>2. CommitInv' BY <1>2, <2>1 DEF BackupInv, LiveInv, CommitInv
  <2>3. \A g \in Saved \ Database : live'[g] <= edits' + 1
    <3>1. SUFFICES ASSUME NEW g \in Saved \ Database PROVE live'[g] <= edits' + 1 OBVIOUS
    <3>2. live[g] <= edits + 1 /\ live[g] \in Nat /\ live'[g] \in Nat
      BY <1>3, <1>7 DEF BackupInv, LiveInv, BackupShape
    <3> QED BY <3>2, <1>2, <1>7, <1>9
  <2>4. ASSUME Begun, NEW g \in Saved \ Database
        PROVE  /\ backup.began[g] <= edits' + 1
               /\ IF live'[g] = 0 THEN backup.began[g] = 0 \/ g \in backup'.gone ELSE live'[g] >= backup.began[g]
    <3>1. backup.began[g] \in Nat BY <1>4, <2>4 DEF Taking
    <3>2. /\ backup.began[g] <= edits + 1
          /\ IF live[g] = 0 THEN backup.began[g] = 0 \/ g \in backup.gone ELSE live[g] >= backup.began[g]
      BY <2>4 DEF BackupInv, LiveInv
    <3>3. backup.began[g] <= edits' + 1 BY <3>1, <3>2, <1>2, <1>7
    <3>4. CASE g = f /\ live'[f] = edits + 2 BY <3>1, <3>2, <3>3, <3>4, <1>7
    <3>5. CASE g = f /\ live'[f] = 0 BY <3>3, <3>5, <1>6, <2>4
    <3>6. CASE g # f BY <3>2, <3>3, <3>6, <1>6, <1>9, <2>4
    <3> QED BY <3>4, <3>5, <3>6, <1>9
  <2>5. Begun' <=> Begun BY <1>6 DEF Begun
  <2>6. Begun /\ ~backup.checkpointed =>
             /\ live[Db] = backup.began[Db] /\ backup.commits <= commits
             /\ IF live[Wal] = 0 THEN backup.began[Db] = backup.commits /\ backup.began[Wal] = 0
                ELSE live[Wal] >= backup.commits /\ live[Wal] > backup.began[Db]
             /\ backup.began[Wal] = 0 => backup.began[Db] = backup.commits
    BY DEF BackupInv, LiveInv
  <2> QED BY <2>1, <2>2, <2>3, <2>4, <2>5, <2>6, <1>2, <1>6 DEF LiveInv
<1>11. TakenInv'
  <2>1. \A g \in Saved \ Database : live'[g] = live[g] \/ live'[g] = 0 \/ live'[g] > edits
    BY <1>7, <1>9
  <2> QED BY <1>2, <1>3, <1>6, <1>7, <2>1, TakenIsKept DEF BackupInv, Begun
<1>12. RestoreInv' BY <1>1, <1>2 DEF RestoreInv
<1> QED BY <1>8, <1>10, <1>11, <1>12 DEF BackupInv

-----------------------------------------------------------------------------
(* create_backup.                                                           *)
LEMMA CreateKeepsIt == ASSUME BackupInv, NEW images \in BOOLEAN, CreateBackup(images) PROVE BackupInv'
<1>1. /\ restore.phase = "none" /\ UNCHANGED <<live, commits, edits, restore, target>>
      /\ archive' = [entries |-> <<>>, manifest |-> "none", whole |-> FALSE, damaged |-> {}]
      /\ backup' = [phase |-> "walking", made |-> backup.made + 1, images |-> images,
                    left |-> {f \in Saved : ~ShouldSkip(f, images)}, reading |-> <<>>, began |-> live,
                    gone |-> {}, touched |-> {}, commits |-> commits, checkpointed |-> FALSE]
  BY DEF CreateBackup
<1>2. BackupShape BY DEF BackupInv
<1>3. live \in [Saved -> Nat] /\ commits \in Nat /\ edits \in Nat BY <1>2 DEF BackupShape
<1>4. archive' \in Archive /\ archive'.entries = <<>> /\ archive'.damaged = {} /\ Distinct(archive'.entries)
  BY <1>1 DEF Archive, Distinct
<1>5. backup' \in Taking
  <2>1. backup.made + 1 \in Nat BY <1>2 DEF BackupShape, Taking
  <2> QED BY <1>1, <1>3, <2>1 DEF Taking
<1>6. BackupShape' BY <1>1, <1>2, <1>4, <1>5 DEF BackupShape
<1>7. LiveInv'
  <2>1. CommitInv' /\ CommitInv BY <1>1 DEF BackupInv, LiveInv, CommitInv
  <2>2. \A f \in Saved \ Database : live[f] <= edits + 1 BY DEF BackupInv, LiveInv
  <2>3. \A f \in Saved \ Database : live[f] >= live[f] BY <1>3
  <2>4. /\ commits <= commits
        /\ IF live[Wal] = 0 THEN live[Db] = commits /\ live[Wal] = 0 ELSE live[Wal] >= commits /\ live[Wal] > live[Db]
        /\ live[Wal] = 0 => live[Db] = commits
    BY <1>3, <2>1, DatabaseIsApart DEF CommitInv
  <2> QED BY <1>1, <2>1, <2>2, <2>3, <2>4 DEF LiveInv
<1>8. TakenInv'
  <2>1. \A f \in Saved \ backup'.left : MissInv(f)' BY <1>1 DEF MissInv, ShouldSkip
  <2>2. \A f \in backup'.left : ~ShouldSkip(f, backup'.images) BY <1>1
  <2> QED BY <2>1, <2>2, <1>1, <1>4 DEF TakenInv, ShouldSkip
<1>9. RestoreInv' BY <1>1 DEF RestoreInv
<1> QED BY <1>6, <1>7, <1>8, <1>9 DEF BackupInv

LEMMA LiveIsKept ==   \* by a step of the backup itself
    ASSUME BackupInv, UNCHANGED <<live, commits, edits>>,
           Begun' => /\ Begun /\ backup'.began = backup.began /\ backup'.commits = backup.commits
                     /\ backup'.gone = backup.gone /\ backup'.checkpointed = backup.checkpointed
    PROVE  LiveInv'
BY DEF BackupInv, LiveInv, CommitInv

(* What is read of a file that has just been opened is what the project has.*)
LEMMA OpenedIsCopy ==
    ASSUME BackupInv, Begun, NEW f \in backup.left
    PROVE  /\ live[f] \in Nat
           /\ f \notin Database /\ live[f] # 0 =>
                live[f] >= backup.began[f] /\ live[f] <= edits + 1 /\ live[f] <= live[f]
           /\ ~backup.checkpointed =>
                /\ f = Db => live[f] = backup.began[Db]
                /\ f = Wal => IF live[f] = 0 THEN backup.began[Db] = backup.commits
                              ELSE live[f] >= backup.commits /\ live[f] > backup.began[Db]
           /\ live[f] = 0 => MissInv(f)
<1>1. backup \in Taking /\ live \in [Saved -> Nat] /\ f \in Saved /\ live[f] \in Nat
  BY DEF BackupInv, BackupShape, Begun, Taking
<1>2. backup.began[f] \in Nat BY <1>1 DEF Taking
<1>3. f \notin Database =>
        /\ live[f] <= edits + 1
        /\ IF live[f] = 0 THEN backup.began[f] = 0 \/ f \in backup.gone ELSE live[f] >= backup.began[f]
  BY <1>1 DEF BackupInv, LiveInv
<1>4. ~backup.checkpointed =>
        /\ live[Db] = backup.began[Db]
        /\ IF live[Wal] = 0 THEN backup.began[Db] = backup.commits /\ backup.began[Wal] = 0
           ELSE live[Wal] >= backup.commits /\ live[Wal] > backup.began[Db]
  BY DEF BackupInv, LiveInv
<1>5. live[f] = 0 => MissInv(f) BY <1>1, <1>3, <1>4 DEF MissInv, Database
<1>6. live[f] <= live[f] BY <1>1
<1> QED BY <1>1, <1>2, <1>3, <1>4, <1>5, <1>6

LEMMA AppendOpensKeepsIt == ASSUME BackupInv, NEW f \in Saved, AppendOpens(f) PROVE BackupInv'
<1> DEFINE E == archive.entries
<1>1. PICK present \in BOOLEAN :
         /\ f \notin Database \/ live[f] # 0 => present = (live[f] # 0)
         /\ backup' = [backup EXCEPT !.left = @ \ {f}, !.reading = IF present THEN <<f, live[f]>> ELSE <<>>]
  BY DEF AppendOpens
<1>2. /\ backup.phase = "walking" /\ backup.reading = <<>> /\ f \in backup.left
      /\ UNCHANGED <<live, commits, edits, archive, restore, target>>
  BY DEF AppendOpens, Walking
<1>3. BackupShape BY DEF BackupInv
<1>4. restore.phase = "none" BY <1>2, <1>3 DEF BackupShape
<1>5. backup \in Taking /\ archive \in Archive /\ Begun
      /\ live \in [Saved -> Nat] /\ edits \in Nat /\ commits \in Nat
  BY <1>2, <1>3 DEF BackupShape, Begun
<1>6. /\ backup' \in Taking /\ backup'.phase = "walking" /\ backup'.left = backup.left \ {f} /\ backup'.images = backup.images
      /\ backup'.began = backup.began /\ backup'.commits = backup.commits /\ backup'.gone = backup.gone
      /\ backup'.checkpointed = backup.checkpointed /\ backup'.touched = backup.touched
      /\ backup'.reading = IF present THEN <<f, live[f]>> ELSE <<>>
  <2>1. (IF present THEN <<f, live[f]>> ELSE <<>>) \in {<<>>} \union (Saved \X Nat) BY <1>5
  <2> HIDE DEF E
  <2> QED BY <2>1, <1>1, <1>2, <1>5 DEF Taking
<1>7. BackupShape' BY <1>2, <1>3, <1>4, <1>6 DEF BackupShape
<1>8. LiveInv' BY <1>2, <1>5, <1>6, LiveIsKept
<1>9. RestoreInv' BY <1>2, <1>4 DEF RestoreInv
<1>10. TakenInv'
  <2>1. \A k \in DOMAIN E : CopyInv(E[k][1], E[k][2])'
    <3> SUFFICES ASSUME NEW k \in DOMAIN E PROVE CopyInv(E[k][1], E[k][2])' OBVIOUS
    <3>1. CopyInv(E[k][1], E[k][2]) /\ E[k][1] \in Saved BY <1>5, EntryTypes DEF BackupInv, TakenInv
    <3> QED BY <3>1, <1>2, <1>5, <1>6 DEF CopyInv, ShouldSkip
  <2>2. \A k \in DOMAIN E : E[k][1] # f
    BY <1>2, <1>5 DEF BackupInv, TakenInv, CopyInv
  <2>3. backup'.reading # <<>> =>
          /\ CopyInv(backup.reading[1], backup.reading[2])'
          /\ \A k \in DOMAIN E : E[k][1] # backup'.reading[1]
    <3> SUFFICES ASSUME present
                 PROVE  /\ CopyInv(backup.reading[1], backup.reading[2])'
                        /\ \A k \in DOMAIN E : E[k][1] # backup'.reading[1]
      BY <1>6
    <3>1. backup'.reading = <<f, live[f]>> /\ backup'.reading[1] = f /\ backup'.reading[2] = live[f] BY <1>6
    <3>2. f \notin backup'.left /\ ~ShouldSkip(f, backup'.images)
      BY <1>2, <1>5, <1>6 DEF BackupInv, TakenInv
    <3>3. f \notin Database => live[f] # 0 BY <1>1
    <3>4. CopyInv(backup.reading[1], backup.reading[2])'
      BY <3>1, <3>2, <3>3, <1>2, <1>5, <1>6, OpenedIsCopy DEF CopyInv
    <3> QED BY <3>1, <3>4, <2>2
  <2>4. \A g \in backup'.left : ~ShouldSkip(g, backup'.images) BY <1>5, <1>6 DEF BackupInv, TakenInv
  <2>5. ASSUME NEW g \in Saved \ backup'.left PROVE InArchive(g)' \/ Reads(g)' \/ MissInv(g)'
    <3>1. CASE g = f
      <4>1. CASE present BY <4>1, <3>1, <1>6 DEF Reads
      <4>2. CASE ~present
        <5>1. live[f] = 0 BY <4>2, <1>1
        <5>2. MissInv(f) BY <5>1, <1>2, <1>5, OpenedIsCopy
        <5> QED BY <5>2, <3>1, <1>2, <1>6 DEF MissInv, ShouldSkip
      <4> QED BY <4>1, <4>2
    <3>2. CASE g # f
      <4>1. InArchive(g) \/ MissInv(g) BY <3>2, <1>2, <1>5, <1>6 DEF BackupInv, TakenInv, Reads
      <4> QED BY <4>1, <1>2, <1>6 DEF InArchive, MissInv, ShouldSkip
    <3> QED BY <3>1, <3>2
  <2>6. \A k \in archive.damaged : k \in DOMAIN E /\ E[k][1] \in backup'.touched
    BY <1>5, <1>6 DEF BackupInv, TakenInv
  <2> QED BY <2>1, <2>3, <2>4, <2>5, <2>6, <1>2, <1>6 DEF TakenInv
<1> QED BY <1>7, <1>8, <1>9, <1>10 DEF BackupInv

LEMMA AppendStreamsKeepsIt == ASSUME BackupInv, AppendStreams PROVE BackupInv'
<1> DEFINE E == archive.entries
           n == Len(E) + 1
           f == backup.reading[1]
           e == IF f \in backup.touched THEN <<f, Mixed>> ELSE backup.reading
<1>1. PICK resized \in BOOLEAN :
         /\ resized => f \in backup.touched
         /\ archive' = [archive EXCEPT !.entries = Append(@, e),
                           !.damaged = @ \union (IF resized THEN {Len(archive.entries) + 1} ELSE {})]
  BY DEF AppendStreams
<1>2. /\ backup.phase = "walking" /\ backup.reading # <<>> /\ backup' = [backup EXCEPT !.reading = <<>>]
      /\ UNCHANGED <<live, commits, edits, restore, target>>
  BY DEF AppendStreams, Walking
<1>3. BackupShape BY DEF BackupInv
<1>4. restore.phase = "none" BY <1>2, <1>3 DEF BackupShape
<1>5. backup \in Taking /\ archive \in Archive /\ Distinct(E) /\ Begun
      /\ live \in [Saved -> Nat] /\ edits \in Nat /\ commits \in Nat
  BY <1>2, <1>3 DEF BackupShape, Begun
<1>6. /\ backup' \in Taking /\ backup'.phase = "walking" /\ backup'.left = backup.left /\ backup'.images = backup.images
      /\ backup'.began = backup.began /\ backup'.commits = backup.commits /\ backup'.gone = backup.gone
      /\ backup'.checkpointed = backup.checkpointed /\ backup'.touched = backup.touched /\ backup'.reading = <<>>
  BY <1>2, <1>5 DEF Taking
<1>7. /\ backup.reading \in Saved \X Nat /\ f \in Saved /\ e \in Entry /\ e[1] = f
      /\ f \in backup.touched \/ e = backup.reading
  BY <1>2, <1>5 DEF Taking, Entry
<1>8. /\ E \in Seq(Entry) /\ DOMAIN E = 1 .. Len(E) /\ Len(E) \in Nat /\ n \in Nat /\ n \notin DOMAIN E
      /\ archive.damaged \in SUBSET Nat
  BY <1>5 DEF Archive
<1>9. Append(E, e) \in Seq(Entry) BY <1>7, <1>8
<1> HIDE DEF e
<1>10. /\ archive' \in Archive /\ archive'.entries = Append(E, e)
       /\ archive'.damaged = archive.damaged \union (IF resized THEN {n} ELSE {})
  BY <1>1, <1>5, <1>8, <1>9 DEF Archive
<1>11. /\ DOMAIN archive'.entries = DOMAIN E \union {n} /\ archive'.entries[n] = e
       /\ \A k \in DOMAIN E : archive'.entries[k] = E[k]
  BY <1>7, <1>8, <1>10
<1>12. /\ \A k \in DOMAIN E : CopyInv(E[k][1], E[k][2]) /\ E[k][1] # f
       /\ CopyInv(f, backup.reading[2])
  BY <1>2, <1>5 DEF BackupInv, TakenInv
<1>13. Distinct(archive'.entries) BY <1>5, <1>7, <1>11, <1>12 DEF Distinct
<1>14. BackupShape' BY <1>2, <1>3, <1>4, <1>6, <1>10, <1>13 DEF BackupShape
<1>15. LiveInv' BY <1>2, <1>5, <1>6, LiveIsKept
<1>16. RestoreInv' BY <1>2, <1>4 DEF RestoreInv
<1>17. TakenInv'
  <2>1. ASSUME NEW k \in DOMAIN archive'.entries
        PROVE  CopyInv(archive.entries[k][1], archive.entries[k][2])'
    <3>1. CASE k \in DOMAIN E
      <4>1. CopyInv(E[k][1], E[k][2]) /\ archive'.entries[k] = E[k] BY <3>1, <1>11, <1>12
      <4> QED BY <4>1, <1>2, <1>6 DEF CopyInv, ShouldSkip
    <3>2. CASE k = n
      <4>1. archive'.entries[k][1] = f /\ archive'.entries[k][2] = e[2] BY <3>2, <1>7, <1>11
      <4>2. f \notin backup.touched => e[2] = backup.reading[2] BY <1>7
      <4> QED BY <4>1, <4>2, <1>2, <1>6, <1>12 DEF CopyInv, ShouldSkip
    <3> QED BY <3>1, <3>2, <1>11
  <2>2. ASSUME NEW g \in Saved \ backup'.left PROVE InArchive(g)' \/ Reads(g)' \/ MissInv(g)'
    <3>1. InArchive(g) \/ Reads(g) \/ MissInv(g) BY <1>5, <1>6 DEF BackupInv, TakenInv
    <3>2. CASE InArchive(g) BY <3>2, <1>11 DEF InArchive
    <3>3. CASE Reads(g) BY <3>3, <1>7, <1>11 DEF InArchive, Reads
    <3>4. CASE MissInv(g) BY <3>4, <1>2, <1>6 DEF MissInv, ShouldSkip
    <3> QED BY <3>1, <3>2, <3>3, <3>4
  <2>3. \A g \in backup'.left : ~ShouldSkip(g, backup'.images) BY <1>5, <1>6 DEF BackupInv, TakenInv
  <2>4. \A k \in archive'.damaged : k \in DOMAIN archive'.entries /\ archive'.entries[k][1] \in backup'.touched
    <3>1. \A k \in archive.damaged : k \in DOMAIN E /\ E[k][1] \in backup.touched
      BY <1>5 DEF BackupInv, TakenInv
    <3> QED BY <3>1, <1>1, <1>6, <1>7, <1>10, <1>11
  <2> QED BY <2>1, <2>2, <2>3, <2>4, <1>6 DEF TakenInv
<1> QED BY <1>14, <1>15, <1>16, <1>17 DEF BackupInv

LEMMA ManifestKeepsIt == ASSUME BackupInv, AppendManifest PROVE BackupInv'
<1>1. /\ backup.phase = "walking" /\ backup.left = {} /\ backup.reading = <<>>
      /\ backup' = [backup EXCEPT !.phase = "done"]
      /\ UNCHANGED <<live, commits, edits, restore, target>>
      /\ archive' = [archive EXCEPT !.manifest = "current", !.whole = TRUE]
  BY DEF AppendManifest, Walking
<1>2. BackupShape BY DEF BackupInv
<1>3. restore.phase = "none" BY <1>1, <1>2 DEF BackupShape
<1>4. backup \in Taking /\ archive \in Archive /\ Distinct(archive.entries) /\ Begun
  BY <1>1, <1>2 DEF BackupShape, Begun
<1>5. /\ backup' \in Taking /\ backup'.phase = "done" /\ backup'.left = backup.left /\ backup'.images = backup.images
      /\ backup'.began = backup.began /\ backup'.commits = backup.commits /\ backup'.gone = backup.gone
      /\ backup'.checkpointed = backup.checkpointed /\ backup'.touched = backup.touched
      /\ backup'.reading = backup.reading
      /\ archive' \in Archive /\ archive'.entries = archive.entries /\ archive'.damaged = archive.damaged
  BY <1>1, <1>4 DEF Taking, Archive
<1>6. BackupShape' BY <1>1, <1>2, <1>3, <1>4, <1>5 DEF BackupShape
<1>7. LiveInv' BY <1>1, <1>4, <1>5, LiveIsKept
<1>8. TakenInv'
  <2>1. \A k \in DOMAIN archive.entries : CopyInv(archive.entries[k][1], archive.entries[k][2])
    BY <1>4 DEF BackupInv, TakenInv
  <2>2. \A f \in Saved \ backup.left : InArchive(f) \/ MissInv(f) BY <1>1, <1>4 DEF BackupInv, TakenInv, Reads
  <2>3. \A k \in DOMAIN archive'.entries : CopyInv(archive.entries[k][1], archive.entries[k][2])'
    BY <2>1, <1>1, <1>5 DEF CopyInv, ShouldSkip
  <2>4. \A f \in Saved \ backup'.left : InArchive(f)' \/ MissInv(f)'
    BY <2>2, <1>1, <1>5 DEF InArchive, MissInv, ShouldSkip
  <2>5. \A k \in archive'.damaged : k \in DOMAIN archive'.entries /\ archive'.entries[k][1] \in backup'.touched
    BY <1>4, <1>5 DEF BackupInv, TakenInv
  <2> QED BY <2>3, <2>4, <2>5, <1>1, <1>5 DEF TakenInv
<1>9. RestoreInv' BY <1>1, <1>3 DEF RestoreInv
<1> QED BY <1>6, <1>7, <1>8, <1>9 DEF BackupInv

LEMMA BreakKeepsIt == ASSUME BackupInv, NEW whole \in BOOLEAN, BackupBreaks(whole) PROVE BackupInv'
<1>1. /\ backup.phase = "walking" /\ backup' = [NoBackup EXCEPT !.made = backup.made]
      /\ UNCHANGED <<live, commits, edits, restore, target>> /\ archive' = [archive EXCEPT !.whole = whole]
  BY DEF BackupBreaks, Walking
<1>2. BackupShape BY DEF BackupInv
<1>3. restore.phase = "none" /\ backup \in Taking /\ archive \in Archive /\ Distinct(archive.entries)
  BY <1>1, <1>2 DEF BackupShape
<1>4. /\ backup' \in [phase: {"none"}, made: Nat] /\ backup'.phase = "none"
      /\ archive' \in Archive /\ archive'.entries = archive.entries
  BY <1>1, <1>3 DEF NoBackup, Taking, Archive
<1>5. BackupShape' BY <1>1, <1>2, <1>3, <1>4 DEF BackupShape
<1>6. LiveInv' BY <1>1, <1>4, LiveIsKept DEF Begun
<1>7. TakenInv' /\ RestoreInv' BY <1>1, <1>3, <1>4 DEF TakenInv, Begun, RestoreInv
<1> QED BY <1>5, <1>6, <1>7 DEF BackupInv

-----------------------------------------------------------------------------
(* restore_backup.                                                          *)
LEMMA RestoringKeepsTheRest ==   \* a restore changes neither project nor archive
    ASSUME BackupInv, UNCHANGED <<live, commits, edits, archive>>, restore' \in Restoring,
           backup' \in [phase: {"none"}, made: Nat], target' \in [Saved -> Int],
           archive \in Archive, Distinct(archive.entries), RestoreInv'
    PROVE  BackupInv'
<1>1. BackupShape' BY DEF BackupInv, BackupShape
<1>2. LiveInv' BY LiveIsKept DEF Begun
<1>3. TakenInv' BY DEF TakenInv, Begun
<1> QED BY <1>1, <1>2, <1>3 DEF BackupInv

LEMMA RestoreBegins == ASSUME BackupInv, NEW overwrite \in BOOLEAN, RestoreBackup(overwrite) PROVE BackupInv'
<1>1. /\ archive # NoArchive /\ UNCHANGED <<live, commits, edits, archive, target>>
      /\ backup' = [NoBackup EXCEPT !.made = backup.made]
      /\ restore' = [phase |-> IF Occupied /\ ~overwrite THEN "refused" ELSE "unpacking",
                     made |-> restore.made + 1, rest |-> archive.entries, before |-> target, warned |-> Occupied]
  BY DEF RestoreBackup
<1>2. /\ archive \in Archive /\ Distinct(archive.entries) /\ target \in [Saved -> Int]
      /\ restore \in [phase: {"none"}, made: Nat] \union Restoring
      /\ backup \in [phase: {"none"}, made: Nat] \union Taking
  BY <1>1 DEF BackupInv, BackupShape
<1>3. archive.entries \in Seq(Entry) BY <1>2 DEF Archive
<1>4. restore.made + 1 \in Nat /\ backup.made \in Nat BY <1>2 DEF Restoring, Taking
<1>5. Occupied \in BOOLEAN BY DEF Occupied
<1>6. restore' \in Restoring /\ backup' \in [phase: {"none"}, made: Nat]
  BY <1>1, <1>2, <1>3, <1>4, <1>5 DEF Restoring, NoBackup
<1>7. RestoreInv'
  <2>1. /\ restore'.rest = archive'.entries /\ restore'.before = target' /\ restore'.warned = Occupied
        /\ restore'.phase \in {"refused", "unpacking"}
    BY <1>1
  <2>2. Len(archive.entries) \in Nat /\ Len(archive.entries) - Len(archive.entries) = 0 BY <1>3
  <2>3. Passed' = 0 BY <2>1, <2>2, <1>1 DEF Passed
  <2>4. UnpackedInv'
    <3>1. \A k \in 1 .. Len(restore'.rest) : restore'.rest[k] = archive'.entries[0 + k] BY <2>1
    <3> QED BY <2>1, <2>3, <3>1 DEF UnpackedInv
  <2>5. ~Occupied => target[Db] = 0 /\ target[Wal] = 0
    BY DatabaseIsApart DEF Occupied, Database
  <2> QED BY <2>1, <2>4, <2>5, <1>1 DEF RestoreInv
<1> QED BY <1>1, <1>2, <1>6, <1>7, RestoringKeepsTheRest

LEMMA InRestore ==
    ASSUME BackupInv, restore.phase = "unpacking"
    PROVE  /\ backup \in [phase: {"none"}, made: Nat] /\ archive \in Archive /\ Distinct(archive.entries)
           /\ restore \in Restoring /\ target \in [Saved -> Int] /\ UnpackedInv
           /\ archive.entries \in Seq(Entry) /\ restore.rest \in Seq(Entry)
           /\ ~restore.warned => restore.before[Db] = 0 /\ restore.before[Wal] = 0
BY DEF BackupInv, BackupShape, RestoreInv, Restoring, Archive, Taking

LEMMA OneFurther ==
    /\ \A n, k \in Nat : n + (k + 1) = n + 1 + k
    /\ \A e, r \in Nat : e - (r - 1) = (e - r) + 1
    /\ \A n \in Nat : n + 1 \in Nat /\ n + 1 \in 1 .. n + 1
                       /\ \A k \in 1 .. n : k \in 1 .. n + 1 /\ k # n + 1
    /\ \A n, e, r \in Nat : n = e - r /\ r >= 1 => n + 1 \in 1 .. e /\ 1 \in 1 .. r
OBVIOUS

LEMMA UnpackKeepsIt == ASSUME BackupInv, UnpackEntry PROVE BackupInv'
<1> DEFINE E == archive.entries
           R == restore.rest
           n == Passed
           g == E[n + 1][1]
<1>1. restore.phase = "unpacking" /\ R # <<>> /\ restore' = [restore EXCEPT !.rest = Tail(R)]
      /\ target' = [target EXCEPT ![Head(R)[1]] = Head(R)[2]] /\ UNCHANGED <<live, commits, edits, archive, backup>>
  BY DEF UnpackEntry
<1>2. /\ backup \in [phase: {"none"}, made: Nat] /\ archive \in Archive /\ Distinct(E)
      /\ restore \in Restoring /\ target \in [Saved -> Int]
      /\ UnpackedInv /\ E \in Seq(Entry) /\ R \in Seq(Entry)
      /\ ~restore.warned => restore.before[Db] = 0 /\ restore.before[Wal] = 0
  BY <1>1, InRestore
<1>3. /\ Len(R) \in Nat /\ Len(R) >= 1 /\ Len(E) \in Nat /\ n \in Nat /\ n = Len(E) - Len(R)
      /\ Tail(R) \in Seq(Entry) /\ Len(Tail(R)) = Len(R) - 1 /\ Head(R) = R[1] /\ Head(R) \in Entry
      /\ \A k \in 1 .. Len(R) - 1 : Tail(R)[k] = R[k + 1]
  BY <1>1, <1>2 DEF UnpackedInv, Passed
<1>4. R[1] = E[n + 1] /\ n + 1 \in DOMAIN E /\ DOMAIN E = 1 .. Len(E)
  <2>1. n + 1 \in 1 .. Len(E) /\ 1 \in 1 .. Len(R) BY <1>3, OneFurther
  <2>2. R[1] = E[n + 1] BY <2>1, <1>2 DEF UnpackedInv
  <2>3. DOMAIN E = 1 .. Len(E) BY <1>2
  <2> QED BY <2>1, <2>2, <2>3
<1>5. restore' \in Restoring /\ restore'.rest = Tail(R) /\ restore'.before = restore.before
      /\ restore'.warned = restore.warned /\ restore'.phase = "unpacking"
  BY <1>1, <1>2, <1>3 DEF Restoring
<1>6. Head(R)[1] \in Saved /\ Head(R)[2] \in Int BY <1>3 DEF Entry, Mixed
<1>7. target' \in [Saved -> Int] BY <1>1, <1>2, <1>6
<1>8. Passed' = n + 1
  <2>1. Passed' = Len(E) - (Len(R) - 1) BY <1>1, <1>3, <1>5 DEF Passed
  <2> QED BY <2>1, <1>3, OneFurther
<1>9. UnpackedInv'
  <2>1. \A k \in 1 .. Len(Tail(R)) : Tail(R)[k] = E[n + 1 + k]
    <3> SUFFICES ASSUME NEW k \in 1 .. Len(Tail(R)) PROVE Tail(R)[k] = E[n + 1 + k] OBVIOUS
    <3>1. k + 1 \in 1 .. Len(R) /\ Tail(R)[k] = R[k + 1] BY <1>3
    <3>2. R[k + 1] = E[n + (k + 1)] BY <3>1, <1>2 DEF UnpackedInv
    <3>3. n + (k + 1) = n + 1 + k
      <4>1. k \in Nat BY <1>3
      <4> QED BY <4>1, <1>3, OneFurther
    <3> QED BY <3>1, <3>2, <3>3
  <2>2. \A k \in 1 .. n : k \in DOMAIN E /\ n + 1 # k BY <1>3, <1>4
  <2>3. \A k \in 1 .. n : E[k][1] # g BY <2>2, <1>2, <1>4 DEF Distinct
  <2>4. \A k \in 1 .. n + 1 : k \in 1 .. n \/ k = n + 1 BY <1>3
  <2>5. target'[g] = E[n + 1][2] BY <1>1, <1>2, <1>3, <1>4, <1>6
  <2>6. \A f \in Saved : f # g => target'[f] = target[f] BY <1>1, <1>2, <1>3, <1>4
  <2>7. \A k \in 1 .. n : E[k][1] \in Saved BY <2>2, <1>2, EntryTypes
  <2>8. \A k \in 1 .. n + 1 :
          \/ target'[E[k][1]] = E[k][2]
          \/ target'[E[k][1]] = restore.before[E[k][1]] /\ \E d \in archive.damaged : d < k
    <3>1. \A k \in 1 .. n :
            \/ target[E[k][1]] = E[k][2]
            \/ target[E[k][1]] = restore.before[E[k][1]] /\ \E d \in archive.damaged : d < k
      BY <1>2 DEF UnpackedInv
    <3>2. \A k \in 1 .. n : target'[E[k][1]] = target[E[k][1]] BY <2>3, <2>6, <2>7
    <3> HIDE DEF E, n
    <3> QED BY <2>4, <2>5, <3>1, <3>2
  <2>9. n + 1 \in 1 .. n + 1 /\ \A k \in 1 .. n : k \in 1 .. n + 1 BY <1>3, OneFurther
  <2>10. \A f \in Saved : (\A k \in 1 .. n + 1 : E[k][1] # f) => target'[f] = restore.before[f]
    BY <2>6, <2>9, <1>2 DEF UnpackedInv
  <2>11. n + 1 \in Nat BY <1>3
  <2> QED BY <2>1, <2>8, <2>10, <2>11, <1>1, <1>5, <1>8 DEF UnpackedInv
<1>10. RestoreInv' BY <1>2, <1>5, <1>9 DEF RestoreInv
<1> QED BY <1>1, <1>2, <1>5, <1>7, <1>10, RestoringKeepsTheRest

LEMMA FurtherOn ==
    \A d, n, r, e \in Nat : d = e - r /\ n <= r =>
      /\ \A k \in 1 .. r - n : n + k \in 1 .. r /\ d + (n + k) = d + n + k
      /\ \A k \in 1 .. d + n : k \in 1 .. e /\ (k \in 1 .. d \/ k > d)
      /\ \A k \in 1 .. d : k \in 1 .. d + n /\ k \in 1 .. e
      /\ \A k \in 1 .. d + n : k > d => \A j \in 1 .. d : j # k
      /\ e - (r - n) = d + n /\ d + n \in Nat
OBVIOUS

(* What is passed over stays as it was, and is behind a damaged entry.      *)
LEMMA PassesOverKeepsIt == ASSUME BackupInv, UnpackPassesOver PROVE BackupInv'
<1> DEFINE E == archive.entries
           R == restore.rest
           d == Passed
<1>1. PICK n \in 1 .. Len(R) : restore' = [restore EXCEPT !.rest = SubSeq(R, n + 1, Len(R))]
  BY DEF UnpackPassesOver
<1>2. restore.phase = "unpacking" /\ d \in archive.damaged /\ UNCHANGED <<live, commits, edits, archive, backup, target>>
  BY DEF UnpackPassesOver, Astray
<1>3. /\ backup \in [phase: {"none"}, made: Nat] /\ archive \in Archive /\ Distinct(E)
      /\ restore \in Restoring /\ target \in [Saved -> Int]
      /\ UnpackedInv /\ E \in Seq(Entry) /\ R \in Seq(Entry)
      /\ ~restore.warned => restore.before[Db] = 0 /\ restore.before[Wal] = 0
  BY <1>2, InRestore
<1>4. Len(R) \in Nat /\ Len(E) \in Nat /\ d \in Nat /\ d = Len(E) - Len(R) /\ n \in Nat /\ n >= 1 /\ n <= Len(R)
  BY <1>3 DEF UnpackedInv, Passed
<1>further. /\ \A k \in 1 .. Len(R) - n : n + k \in 1 .. Len(R) /\ d + (n + k) = d + n + k
            /\ \A k \in 1 .. d + n : k \in 1 .. Len(E) /\ (k \in 1 .. d \/ k > d)
            /\ \A k \in 1 .. d : k \in 1 .. d + n /\ k \in 1 .. Len(E)
            /\ \A k \in 1 .. d + n : k > d => \A j \in 1 .. d : j # k
            /\ Len(E) - (Len(R) - n) = d + n /\ d + n \in Nat
  BY <1>4, FurtherOn, Zenon
<1>5. /\ SubSeq(R, n + 1, Len(R)) \in Seq(Entry) /\ Len(SubSeq(R, n + 1, Len(R))) = Len(R) - n
      /\ \A k \in 1 .. Len(R) - n : SubSeq(R, n + 1, Len(R))[k] = R[n + k]
  BY <1>3, <1>4
<1>6. restore' \in Restoring /\ restore'.rest = SubSeq(R, n + 1, Len(R)) /\ restore'.before = restore.before
      /\ restore'.warned = restore.warned /\ restore'.phase = "unpacking"
  BY <1>1, <1>2, <1>3, <1>5 DEF Restoring
<1>7. Passed' = d + n
  <2>1. Passed' = Len(E) - (Len(R) - n) BY <1>2, <1>5, <1>6 DEF Passed
  <2> QED BY <2>1, <1>further
<1>8. UnpackedInv'
  <2>1. \A k \in 1 .. Len(R) - n : restore'.rest[k] = E[d + n + k]
    <3> SUFFICES ASSUME NEW k \in 1 .. Len(R) - n PROVE restore'.rest[k] = E[d + n + k] OBVIOUS
    <3>1. n + k \in 1 .. Len(R) /\ d + (n + k) = d + n + k BY <1>further
    <3>2. R[n + k] = E[d + (n + k)] BY <3>1, <1>3 DEF UnpackedInv
    <3> QED BY <3>1, <3>2, <1>5, <1>6
  <2>2. \A k \in 1 .. d + n : k \in 1 .. Len(E) /\ (k \in 1 .. d \/ k > d) BY <1>further
  <2>3. \A k \in 1 .. d : k \in 1 .. d + n /\ k \in 1 .. Len(E) BY <1>further
  <2>4. \A k \in 1 .. d + n :
          \/ target[E[k][1]] = E[k][2]
          \/ target[E[k][1]] = restore.before[E[k][1]] /\ \E i \in archive.damaged : i < k
    <3> SUFFICES ASSUME NEW k \in 1 .. d + n
                 PROVE  \/ target[E[k][1]] = E[k][2]
                        \/ target[E[k][1]] = restore.before[E[k][1]] /\ \E i \in archive.damaged : i < k
      OBVIOUS
    <3>1. CASE k \in 1 .. d BY <3>1, <1>3 DEF UnpackedInv
    <3>2. CASE k > d
      <4>1. k \in DOMAIN E /\ E[k][1] \in Saved BY <2>2, <1>3, EntryTypes
      <4>2. \A j \in 1 .. d : j \in DOMAIN E /\ j # k
        <5>1. DOMAIN E = 1 .. Len(E) BY <1>3
        <5> QED BY <5>1, <2>3, <3>2, <1>further
      <4>3. \A j \in 1 .. d : E[j][1] # E[k][1] BY <4>1, <4>2, <1>3 DEF Distinct
      <4>4. target[E[k][1]] = restore.before[E[k][1]] BY <4>1, <4>3, <1>3 DEF UnpackedInv
      <4>5. d < k BY <3>2, <1>4
      <4> QED BY <4>4, <4>5, <1>2
    <3> QED BY <2>2, <3>1, <3>2
  <2>5. \A f \in Saved : (\A k \in 1 .. d + n : E[k][1] # f) => target[f] = restore.before[f]
    BY <2>3, <1>3 DEF UnpackedInv
  <2>6. d + n \in Nat BY <1>4
  <2> HIDE DEF d
  <2> QED BY <2>1, <2>4, <2>5, <2>6, <1>2, <1>5, <1>6, <1>7 DEF UnpackedInv
<1>9. RestoreInv' BY <1>3, <1>6, <1>8 DEF RestoreInv
<1> QED BY <1>2, <1>3, <1>6, <1>9, RestoringKeepsTheRest

LEMMA RestoreStops ==
    ASSUME BackupInv, RestoreEnds \/ RestoreBreaks
    PROVE  BackupInv'
<1>1. restore.phase = "unpacking" /\ UNCHANGED <<live, commits, edits, archive, backup, target>>
  BY DEF RestoreEnds, RestoreBreaks
<1>2. /\ backup \in [phase: {"none"}, made: Nat] /\ archive \in Archive /\ Distinct(archive.entries)
      /\ restore \in Restoring /\ target \in [Saved -> Int] /\ UnpackedInv
      /\ ~restore.warned => restore.before[Db] = 0 /\ restore.before[Wal] = 0
  BY <1>1, InRestore
<1>3. /\ restore' \in Restoring /\ restore'.rest = restore.rest /\ restore'.before = restore.before
      /\ \/ restore'.phase = "failed"
         \/ /\ restore'.phase = "ok" /\ (restore.rest = <<>> \/ Astray)
            /\ ~restore'.warned => ~restore.warned /\ archive.manifest \notin {"none", "older"}
  <2>1. CASE RestoreEnds
    <3> DEFINE w == restore.warned \/ archive.manifest = "none"
               p == IF archive.whole /\ archive.manifest # "older" THEN "ok" ELSE "failed"
    <3>1. w \in BOOLEAN /\ p \in {"ok", "failed"} OBVIOUS
    <3>2. CASE restore' = [restore EXCEPT !.phase = p, !.warned = w] /\ restore.rest = <<>>
      <4>1. restore' \in Restoring /\ restore'.rest = restore.rest /\ restore'.before = restore.before
            /\ restore'.phase = p /\ restore'.warned = w
        BY <3>1, <3>2, <1>2 DEF Restoring
      <4> QED BY <3>2, <4>1
    <3>3. CASE Astray /\ restore' = [restore EXCEPT !.phase = "ok", !.warned = TRUE]
      BY <3>3, <1>2 DEF Restoring
    <3> QED BY <2>1, <3>2, <3>3 DEF RestoreEnds
  <2>2. CASE RestoreBreaks BY <2>2, <1>2 DEF RestoreBreaks, Restoring
  <2> QED BY <2>1, <2>2
<1>4. UnpackedInv' /\ Passed' = Passed BY <1>1, <1>2, <1>3 DEF UnpackedInv, Passed
<1>5. RestoreInv' BY <1>1, <1>2, <1>3, <1>4 DEF RestoreInv, Astray
<1> QED BY <1>1, <1>2, <1>3, <1>5, RestoringKeepsTheRest

-----------------------------------------------------------------------------
(* What the invariant says of a finished backup and a finished restore.     *)
LEMMA BackupIsGood == ASSUME BackupInv PROVE BackupIsCurrent
<1> SUFFICES ASSUME backup.phase = "done" PROVE BackupIsCurrent BY DEF BackupIsCurrent
<1>1. /\ archive \in Archive /\ Distinct(archive.entries) /\ backup \in Taking /\ Begun
      /\ backup.left = {} /\ backup.reading = <<>> /\ live \in [Saved -> Nat]
  BY DEF BackupInv, BackupShape, TakenInv, Begun
<1>2. \A f : InArchive(f) => CopyInv(f, Archived(f))
  BY <1>1, ArchivedHasEntry DEF BackupInv, TakenInv
<1>3. \A f \in Saved : InArchive(f) \/ MissInv(f) BY <1>1 DEF BackupInv, TakenInv, Reads
<1>4. ASSUME NEW f \in Saved \ Database
      PROVE  /\ backup.began[f] # 0 /\ f \notin backup.gone /\ f \notin Caches /\ (f \in Images => backup.images) =>
                  InArchive(f)
             /\ InArchive(f) => f \notin Caches /\ (f \in Images => backup.images)
             /\ InArchive(f) /\ f \notin backup.touched =>
                  Archived(f) >= backup.began[f] /\ (live[f] # 0 => Archived(f) <= live[f])
  BY <1>2, <1>3 DEF CopyInv, MissInv, ShouldSkip
<1>5. ASSUME ~backup.checkpointed, Database \intersect backup.touched = {}
      PROVE  ReadBack(Archived(Db), Archived(Wal)) >= backup.commits
  <2>1. /\ ~ShouldSkip(Db, backup.images) /\ ~ShouldSkip(Wal, backup.images)
        /\ Db \notin backup.touched /\ Wal \notin backup.touched
    BY <1>5, DatabaseIsApart DEF ShouldSkip, Database
  <2>2. backup.commits \in Nat /\ backup.began[Db] \in Nat BY <1>1, DatabaseIsApart DEF Taking
  <2>3. Archived(Db) = IF InArchive(Db) THEN backup.began[Db] ELSE 0 BY <1>2, <1>5, <2>1 DEF CopyInv, Archived
  <2>4. InArchive(Db) \/ backup.began[Db] = 0 BY <2>1, <1>3, <1>5, DatabaseIsApart DEF MissInv, Database
  <2>5. Archived(Db) = backup.began[Db] BY <2>3, <2>4
  <2>6. CASE InArchive(Wal)
    <3>1. /\ Archived(Wal) \in Nat
          /\ IF Archived(Wal) = 0 THEN backup.began[Db] = backup.commits
             ELSE Archived(Wal) >= backup.commits /\ Archived(Wal) > backup.began[Db]
      BY <1>2, <1>5, <2>1, <2>6 DEF CopyInv
    <3>2. CASE Archived(Wal) = 0 BY <3>1, <3>2, <2>2, <2>5 DEF ReadBack
    <3>3. CASE Archived(Wal) # 0
      <4>1. ~(Archived(Db) > Archived(Wal)) BY <3>1, <3>3, <2>2, <2>5
      <4> QED BY <4>1, <3>1, <3>3 DEF ReadBack
    <3> QED BY <3>2, <3>3
  <2>7. CASE ~InArchive(Wal)
    <3>1. Archived(Wal) = 0 BY <2>7 DEF Archived
    <3>2. backup.began[Wal] = 0 BY <2>1, <2>7, <1>3, <1>5, DatabaseIsApart DEF MissInv, Database
    <3>3. backup.began[Db] = backup.commits BY <3>2, <1>1, <1>5 DEF BackupInv, LiveInv
    <3> QED BY <3>1, <3>3, <2>2, <2>5 DEF ReadBack
  <2> QED BY <2>6, <2>7
<1>6. \A k \in archive.damaged : archive.entries[k][1] \in backup.touched BY <1>1 DEF BackupInv, TakenInv
<1> QED BY <1>4, <1>5, <1>6 DEF BackupIsCurrent

LEMMA RestoreIsGood == ASSUME BackupInv PROVE RestoreIsExact
<1> DEFINE E == archive.entries
           restored(f) == IF InArchive(f) THEN Archived(f) ELSE restore.before[f]
<1>1. restore.phase = "refused" => target = restore.before BY DEF BackupInv, RestoreInv
<1>2. ASSUME restore.phase = "ok"
      PROVE  /\ \A f \in Saved :
                   \/ target[f] = restored(f)
                   \/ /\ InArchive(f) /\ target[f] = restore.before[f]
                      /\ \E k \in archive.damaged : \A j \in 1 .. k : E[j][1] # f
             /\ ~restore.warned =>
                  /\ archive.manifest = "current"
                  /\ archive.damaged = {} => ReadBack(target[Db], target[Wal]) = ReadBack(Archived(Db), Archived(Wal))
  <2>1. /\ archive \in Archive /\ Distinct(E) /\ UnpackedInv /\ (restore.rest = <<>> \/ Passed \in archive.damaged)
        /\ restore \in Restoring
    BY <1>2 DEF BackupInv, BackupShape, RestoreInv, Astray
  <2>2. /\ DOMAIN E = 1 .. Len(E) /\ Passed \in Nat /\ Len(E) \in Nat
        /\ restore.rest = <<>> => Passed = Len(E)
        /\ archive.damaged \in SUBSET Nat
    BY <2>1 DEF Passed, Archive, UnpackedInv
  <2>3. ASSUME NEW f \in Saved
        PROVE  \/ target[f] = restored(f)
               \/ /\ InArchive(f) /\ target[f] = restore.before[f]
                  /\ \E k \in archive.damaged : \A j \in 1 .. k : E[j][1] # f
    <3>1. CASE ~InArchive(f)
      <4>1. \A k \in 1 .. Passed : E[k][1] # f
        <5>1. Len(restore.rest) \in Nat BY <2>1 DEF Restoring
        <5>2. \A a, b \in Nat : a - b <= a OBVIOUS
        <5>3. Passed <= Len(E) BY <5>1, <5>2, <2>2 DEF Passed
        <5> QED BY <5>3, <3>1, <2>2 DEF InArchive
      <4> QED BY <4>1, <3>1, <2>1 DEF UnpackedInv
    <3>2. CASE InArchive(f)
      <4>1. PICK k \in DOMAIN E : E[k][1] = f /\ Archived(f) = E[k][2] BY <3>2, <2>1, ArchivedHasEntry
      <4>2. \A d \in Nat : d < k => \A j \in 1 .. d : E[j][1] # f
        <5> SUFFICES ASSUME NEW d \in Nat, d < k, NEW j \in 1 .. d PROVE E[j][1] # f OBVIOUS
        <5>1. j \in DOMAIN E /\ j # k BY <2>2
        <5> QED BY <5>1, <4>1, <2>1 DEF Distinct
      <4>3. CASE k \in 1 .. Passed BY <4>1, <4>2, <4>3, <3>2, <2>1, <2>2 DEF UnpackedInv
      <4>4. CASE k \notin 1 .. Passed
        <5>1. Passed < k BY <4>4, <2>2
        <5>2. restore.rest # <<>> BY <5>1, <2>2
        <5>3. Passed \in archive.damaged /\ \A j \in 1 .. Passed : E[j][1] # f BY <5>1, <5>2, <4>2, <2>1, <2>2
        <5>4. target[f] = restore.before[f] BY <5>3, <2>1 DEF UnpackedInv
        <5> QED BY <5>3, <5>4, <3>2
      <4> QED BY <4>3, <4>4
    <3> QED BY <3>1, <3>2
  <2>4. ASSUME ~restore.warned
        PROVE  /\ archive.manifest = "current"
               /\ archive.damaged = {} => target[Db] = Archived(Db) /\ target[Wal] = Archived(Wal)
    <3>1. restore.before[Db] = 0 /\ restore.before[Wal] = 0 /\ archive.manifest # "older" /\ archive.manifest # "none"
      BY <1>2, <2>4 DEF BackupInv, RestoreInv
    <3>2. archive.manifest = "current" BY <3>1, <2>1 DEF Archive
    <3> QED BY <3>1, <3>2, <2>3, DatabaseIsApart DEF Archived
  <2> QED BY <2>3, <2>4
<1> QED BY <1>1, <1>2 DEF RestoreIsExact

LEMMA FirstBackup == ASSUME BackupInit PROVE BackupInv
<1>1. live \in [Saved -> {0, 1}] /\ live[Db] = 0 /\ live[Wal] = 0 /\ commits = 0 /\ edits = 0
      /\ backup = NoBackup /\ restore = NoRestore
  BY DEF BackupInit
<1>2. target \in [Saved -> Int]
  <2>1. [f \in Saved |-> 0] \in [Saved -> Int] OBVIOUS
  <2>2. [f \in Saved |-> IF f \in Plain \union {Db, Wal} THEN Foreign ELSE 0] \in [Saved -> Int] BY DEF Foreign
  <2> QED BY <2>1, <2>2 DEF BackupInit
<1>3. archive \in {NoArchive} \union Archive /\ (archive # NoArchive => Distinct(archive.entries))
  <2> DEFINE e == <<CHOOSE f \in Plain : TRUE, 1>>
  <2>1. e \in Entry BY BackupAssumption DEF Entry, Saved
  <2>2. << e >> \in Seq(Entry) /\ DOMAIN << e >> = {1} BY <2>1
  <2>3. [entries |-> << e >>, manifest |-> "older", whole |-> TRUE, damaged |-> {}] \in Archive BY <2>2 DEF Archive
  <2>4. Distinct(<< e >>) BY <2>2 DEF Distinct
  <2>5. archive \in {NoArchive, [entries |-> << e >>, manifest |-> "older", whole |-> TRUE, damaged |-> {}]} BY DEF BackupInit
  <2>6. [entries |-> << e >>, manifest |-> "older", whole |-> TRUE, damaged |-> {}].entries = << e >> OBVIOUS
  <2> HIDE DEF e
  <2>7. CASE archive = NoArchive BY <2>7
  <2>8. CASE archive = [entries |-> << e >>, manifest |-> "older", whole |-> TRUE, damaged |-> {}]
    <3>1. archive \in Archive /\ archive.entries = << e >> BY <2>3, <2>6, <2>8
    <3> QED BY <3>1, <2>4
  <2> QED BY <2>5, <2>7, <2>8
<1>4. BackupShape
  <2>1. live \in [Saved -> Nat] BY <1>1
  <2> QED BY <1>1, <1>2, <1>3, <2>1 DEF BackupShape, NoBackup, NoRestore
<1>5. LiveInv
  <2>1. \A f \in Saved : live[f] <= 0 + 1 BY <1>1
  <2> QED BY <1>1, <2>1 DEF LiveInv, CommitInv, Begun, NoBackup
<1>6. TakenInv /\ RestoreInv BY <1>1 DEF TakenInv, RestoreInv, Begun, NoBackup, NoRestore
<1> QED BY <1>4, <1>5, <1>6 DEF BackupInv

LEMMA BackupStepKeepsIt == ASSUME BackupInv, [BackupNext]_backupVars PROVE BackupInv'
<1>1. CASE BackupNext
  BY <1>1, CommitKeepsIt, CheckpointKeepsIt, EditKeepsIt, AppendOpensKeepsIt, AppendStreamsKeepsIt, CreateKeepsIt, BreakKeepsIt,
     RestoreBegins,
     ManifestKeepsIt, UnpackKeepsIt, PassesOverKeepsIt, RestoreStops
     DEF BackupNext
<1>2. CASE UNCHANGED backupVars
  <2>1. UNCHANGED <<live, commits, edits, archive, backup, restore, target>> BY <1>2 DEF backupVars
  <2> USE <2>1
  <2>2. BackupShape' BY DEF BackupInv, BackupShape
  <2>3. LiveInv' BY LiveIsKept DEF Begun
  <2>4. RestoreInv' BY RestoreIsKept DEF BackupInv
  <2>5. TakenInv'
    BY DEF BackupInv, TakenInv, Begun, CopyInv, MissInv, Reads, InArchive, ShouldSkip
  <2> QED BY <2>2, <2>3, <2>4, <2>5 DEF BackupInv
<1> QED BY <1>1, <1>2

(* A backup that was answered has what was there all along, and all commits *)
(* it was asked to have; a restore that succeeds has put all of it in place *)
(* (create_backup and restore_backup in backup.rs).                         *)
THEOREM BackupsAreAlwaysFaithful == BackupSpec => []BackupsAreFaithful
<1>1. BackupInit => BackupInv BY FirstBackup
<1>2. BackupInv /\ [BackupNext]_backupVars => BackupInv' BY BackupStepKeepsIt
<1>3. BackupInv => BackupsAreFaithful BY BackupIsGood, RestoreIsGood DEF BackupsAreFaithful
<1> QED BY <1>1, <1>2, <1>3, PTL DEF BackupSpec

-----------------------------------------------------------------------------
(***************************************************************************)
(* The images that were ingested are found, and those removed are gone.    *)
(***************************************************************************)

Job == [step: {"idle", "scan", "read", "embed", "upsert", "remove", "clear"}, path: Pictures \union {NoPicture},
        hash: Bytes \union {NoBytes}, vector: Bytes \union {NoBytes}, todo: Seq(Pictures), done: Nat, alone: BOOLEAN]
OnePicture == {"read", "embed", "upsert", "remove"}

JobInv(job) ==
    /\ job.step \in OnePicture => job.path \in Pictures
    /\ job.step \in {"embed", "upsert"} => job.hash \in Bytes
    /\ job.step = "scan" => job.todo # <<>> /\ job.path = NoPicture

ImageShape ==
    /\ pictures \in [Pictures -> Bytes \union {NoBytes}]
    /\ imagePoints \in [Bytes -> [path: Pictures \union {NoPicture}, vector: Bytes \union {NoBytes}]]
    /\ events \in Seq([path: Pictures, upserted: BOOLEAN]) /\ unseen \subseteq Pictures
    /\ jobs \in [Imagers -> Job] /\ \A u \in Imagers : JobInv(jobs[u])
    /\ settled \in [Pictures -> [state: {"unknown", "found", "gone"}, bytes: Bytes \union {NoBytes}]]

(* Work that is alone on a picture is the only work on it.                  *)
Keeps(job, p) == job.step # "idle" /\ (job.path = p \/ job.step = "clear")
AloneInv ==
    \A u, v \in Imagers : u # v /\ jobs[u].step \in OnePicture /\ jobs[u].alone => ~Keeps(jobs[v], jobs[u].path)

(* Nothing is known of a picture while there is work on it.                 *)
SettledInv == \A p \in Pictures : settled[p].state # "unknown" => Busy(p) = {}

ImageInv ==
    /\ ImageShape /\ AloneInv /\ SettledInv /\ ImagesAreFound
    /\ \A p \in Pictures : settled[p].state = "found" => settled[p].bytes \in Bytes

-----------------------------------------------------------------------------
(* The order of a rescan is a sequence of files.                            *)
LEMMA OrdersAreSequences == discover_images \subseteq Pictures /\ Orders(discover_images) \subseteq Seq(Pictures)
<1>1. discover_images \subseteq Pictures BY DEF discover_images
<1>2. IsFiniteSet(discover_images) BY <1>1, ImageAssumption, FS_Subset
<1>3. Cardinality(discover_images) \in Nat BY <1>2, FS_CardinalityType
<1>4. [1 .. Cardinality(discover_images) -> discover_images] \subseteq Seq(Pictures) BY <1>1, <1>3
<1> QED BY <1>1, <1>4 DEF Orders

LEMMA IdleJobIsJob == IdleJob \in Job /\ JobInv(IdleJob)
BY DEF IdleJob, Job, JobInv, OnePicture

NewJob(step, p) == [IdleJob EXCEPT !.step = step, !.path = p]

LEMMA NewJobIsJob ==
    ASSUME NEW step \in {"read", "remove"}, NEW p \in Pictures
    PROVE  NewJob(step, p) \in Job /\ JobInv(NewJob(step, p)) /\ NewJob(step, p).step = step
<1>1. /\ NewJob(step, p) \in Job
      /\ NewJob(step, p).step = step /\ NewJob(step, p).path = p
  BY IdleJobIsJob DEF Job, NewJob
<1> QED BY <1>1 DEF JobInv, OnePicture

LEMMA EndsIsJob ==
    ASSUME ImageShape, NEW u \in Imagers
    PROVE  /\ Ends(u) \in Job /\ JobInv(Ends(u))
           /\ Ends(u).step \in {"idle", "scan"} /\ Ends(u).path = NoPicture
           /\ jobs[u].todo = <<>> <=> Ends(u).step = "idle"
<1>1. jobs[u] \in Job BY DEF ImageShape
<1>2. CASE jobs[u].todo = <<>>
  BY <1>2, IdleJobIsJob DEF Ends, IdleJob
<1>3. CASE jobs[u].todo # <<>>
  BY <1>1, <1>3 DEF Ends, Job, JobInv, OnePicture
<1> QED BY <1>2, <1>3

(* A job that rests, or looks for its next file, keeps no picture busy.     *)
LEMMA AJobEnds ==
    ASSUME ImageShape, AloneInv, NEW u \in Imagers, NEW job \in Job, JobInv(job),
           job.step \in {"idle", "scan"}, job.path = NoPicture, jobs' = [jobs EXCEPT ![u] = job]
    PROVE  /\ jobs' \in [Imagers -> Job] /\ \A v \in Imagers : JobInv(jobs'[v])
           /\ \A p \in Pictures : Busy(p)' = Busy(p) \ {u}
           /\ AloneInv'
<1>1. jobs' \in [Imagers -> Job] /\ \A v \in Imagers : JobInv(jobs'[v])
  BY DEF ImageShape
<1>2. \A p \in Pictures : Busy(p)' = Busy(p) \ {u}
  BY ImageAssumption DEF ImageShape, Busy
<1>3. AloneInv'
  <2> SUFFICES ASSUME NEW v \in Imagers, NEW w \in Imagers \ {v}, jobs'[v].step \in OnePicture, jobs'[v].alone
               PROVE  ~Keeps(jobs'[w], jobs'[v].path)
    BY DEF AloneInv
  <2>1. v # u /\ jobs'[v] = jobs[v] BY DEF ImageShape, OnePicture
  <2>2. ~Keeps(jobs[w], jobs[v].path) /\ jobs[v].path \in Pictures
    BY <2>1 DEF AloneInv, ImageShape, JobInv
  <2> QED BY <2>1, <2>2, ImageAssumption DEF ImageShape, Keeps
<1> QED BY <1>1, <1>2, <1>3

(* A job that goes on with its picture keeps it busy.                       *)
LEMMA AJobGoesOn ==
    ASSUME ImageShape, AloneInv, NEW u \in Imagers, NEW job \in Job, JobInv(job),
           jobs[u].step \in OnePicture, job.step \in OnePicture,
           job.path = jobs[u].path, job.alone = jobs[u].alone, jobs' = [jobs EXCEPT ![u] = job]
    PROVE  /\ jobs' \in [Imagers -> Job] /\ \A v \in Imagers : JobInv(jobs'[v])
           /\ \A p \in Pictures : Busy(p)' = Busy(p)
           /\ AloneInv'
<1>1. jobs' \in [Imagers -> Job] /\ \A v \in Imagers : JobInv(jobs'[v])
  BY DEF ImageShape
<1>2. \A p \in Pictures : Busy(p)' = Busy(p)
  BY DEF ImageShape, Busy, OnePicture
<1>3. AloneInv'
  <2> SUFFICES ASSUME NEW v \in Imagers, NEW w \in Imagers \ {v}, jobs'[v].step \in OnePicture, jobs'[v].alone
               PROVE  ~Keeps(jobs'[w], jobs'[v].path)
    BY DEF AloneInv
  <2>1. jobs'[v].path = jobs[v].path /\ jobs[v].step \in OnePicture /\ jobs[v].alone
    BY DEF ImageShape
  <2>2. ~Keeps(jobs[w], jobs[v].path)
    BY <2>1 DEF AloneInv
  <2>3. CASE w = u BY <2>1, <2>2, <2>3 DEF ImageShape, Keeps, OnePicture
  <2>4. CASE w # u BY <2>1, <2>2, <2>4 DEF ImageShape
  <2> QED BY <2>3, <2>4
<1> QED BY <1>1, <1>2, <1>3

(* A job that begins takes a picture of which nothing is known from then on. *)
LEMMA AJobBegins ==
    ASSUME ImageInv, NEW u \in Imagers, NEW job \in Job, JobInv(job),
           jobs[u].step \in {"idle", "scan"}, job.step \in {"read", "remove"}, BeginsAs(u, job),
           UNCHANGED <<imagePoints, twins>>
    PROVE  /\ jobs' \in [Imagers -> Job] /\ \A v \in Imagers : JobInv(jobs'[v])
           /\ settled' \in [Pictures -> [state: {"unknown", "found", "gone"}, bytes: Bytes \union {NoBytes}]]
           /\ AloneInv' /\ SettledInv' /\ ImagesAreFound'
           /\ \A p \in Pictures : settled'[p].state = "found" => settled'[p].bytes \in Bytes
<1> USE DEF ImageInv, ImageShape
<1> DEFINE p == job.path
<1>p. p \in Pictures BY DEF JobInv, OnePicture
<1>j. /\ jobs' = [v \in Imagers |->
                     IF v = u THEN [job EXCEPT !.alone = Busy(p) \ {u} = {}]
                     ELSE IF v \in Busy(p) THEN [jobs[v] EXCEPT !.alone = FALSE] ELSE jobs[v]]
      /\ settled' = [settled EXCEPT ![p] = Unsettled]
  BY DEF BeginsAs
<1>u. /\ jobs'[u] = [job EXCEPT !.alone = Busy(p) \ {u} = {}]
      /\ jobs'[u] \in Job /\ jobs'[u].step = job.step /\ jobs'[u].path = p
      /\ jobs'[u].alone <=> Busy(p) \ {u} = {}
      /\ jobs'[u].hash = job.hash /\ jobs'[u].todo = job.todo
  <2>1. jobs'[u] = [job EXCEPT !.alone = Busy(p) \ {u} = {}] BY <1>j
  <2> HIDE DEF p
  <2>2. (Busy(p) \ {u} = {}) \in BOOLEAN OBVIOUS
  <2>3. jobs'[u].alone <=> Busy(p) \ {u} = {} BY <2>1 DEF Job
  <2>4. jobs'[u] \in Job BY <2>1, <2>2 DEF Job
  <2>5. jobs'[u].step = job.step /\ jobs'[u].path = job.path /\ jobs'[u].hash = job.hash /\ jobs'[u].todo = job.todo
    BY <2>1 DEF Job
  <2> QED BY <2>1, <2>3, <2>4, <2>5 DEF p
<1>v. \A v \in Imagers \ {u} :
         /\ jobs'[v] \in Job /\ jobs'[v].step = jobs[v].step /\ jobs'[v].path = jobs[v].path
         /\ jobs'[v].hash = jobs[v].hash /\ jobs'[v].todo = jobs[v].todo
         /\ jobs'[v].alone => jobs'[v] = jobs[v] /\ v \notin Busy(p)
  BY <1>j DEF Job
<1>1. jobs' \in [Imagers -> Job] BY <1>j, <1>u, <1>v
<1>2. \A v \in Imagers : JobInv(jobs'[v]) BY <1>u, <1>v DEF JobInv
<1>3. \A q \in Pictures \ {p} : Busy(q)' = Busy(q)
  <2> SUFFICES ASSUME NEW q \in Pictures \ {p}, NEW v \in Imagers PROVE v \in Busy(q)' <=> v \in Busy(q)
    BY DEF Busy
  <2>1. CASE v = u
    <3>1. jobs[u].path # q \/ jobs[u].step = "idle" BY ImageAssumption DEF JobInv
    <3> QED BY <2>1, <3>1, <1>u DEF Busy
  <2>2. CASE v # u BY <2>2, <1>v DEF Busy
  <2> QED BY <2>1, <2>2
<1>4. AloneInv'
  <2> SUFFICES ASSUME NEW v \in Imagers, NEW w \in Imagers \ {v}, jobs'[v].step \in OnePicture, jobs'[v].alone
               PROVE  ~Keeps(jobs'[w], jobs'[v].path)
    BY DEF AloneInv
  <2>1. CASE v = u
    <3>1. w \notin Busy(p) /\ jobs'[w].step = jobs[w].step /\ jobs'[w].path = jobs[w].path BY <2>1, <1>u, <1>v
    <3>2. jobs'[v].path = p BY <2>1, <1>u
    <3> QED BY <3>1, <3>2 DEF Busy, Keeps
  <2>2. CASE v # u
    <3>1. jobs'[v] = jobs[v] /\ v \notin Busy(p) BY <2>2, <1>v
    <3>2. jobs[v].path # p BY <3>1 DEF Busy, OnePicture
    <3>3. ~Keeps(jobs[w], jobs[v].path) BY <3>1 DEF AloneInv
    <3>4. CASE w = u BY <1>u, <3>1, <3>2, <3>4 DEF Keeps
    <3>5. CASE w # u BY <1>v, <3>1, <3>3, <3>5 DEF Keeps
    <3> QED BY <3>4, <3>5
  <2> QED BY <2>1, <2>2
<1>5. settled' \in [Pictures -> [state: {"unknown", "found", "gone"}, bytes: Bytes \union {NoBytes}]]
  BY <1>j DEF Unsettled
<1>6. \A q \in Pictures : settled'[q].state # "unknown" => q # p /\ settled'[q] = settled[q]
  BY <1>j, <1>p DEF Unsettled
<1>7. SettledInv'
  BY <1>3, <1>6 DEF SettledInv
<1>8. ImagesAreFound' BY <1>6 DEF ImagesAreFound
<1> QED BY <1>1, <1>2, <1>4, <1>5, <1>6, <1>7, <1>8

-----------------------------------------------------------------------------
LEMMA ShapeIsKept ==
    ASSUME ImageShape, UNCHANGED <<pictures, imagePoints>>,
           jobs' \in [Imagers -> Job], \A v \in Imagers : JobInv(jobs'[v]),
           settled' \in [Pictures -> [state: {"unknown", "found", "gone"}, bytes: Bytes \union {NoBytes}]],
           events' \in Seq([path: Pictures, upserted: BOOLEAN]), unseen' \subseteq Pictures
    PROVE  ImageShape'
BY DEF ImageShape

(* What is known is kept by a step that touches no point and frees pictures. *)
LEMMA NothingLearnt ==
    ASSUME ImageInv, \A p \in Pictures : Busy(p)' \subseteq Busy(p), UNCHANGED <<imagePoints, settled, twins>>
    PROVE  /\ SettledInv' /\ ImagesAreFound'
           /\ settled' \in [Pictures -> [state: {"unknown", "found", "gone"}, bytes: Bytes \union {NoBytes}]]
           /\ \A p \in Pictures : settled'[p].state = "found" => settled'[p].bytes \in Bytes
<1>1. SettledInv' BY DEF ImageInv, SettledInv
<1>2. ImagesAreFound' BY DEF ImageInv, ImagesAreFound
<1> QED BY <1>1, <1>2 DEF ImageInv, ImageShape

(* ... and so is it when work on a picture ends without a result.           *)
LEMMA AJobIsGivenUp ==
    ASSUME ImageInv, NEW u \in Imagers, jobs[u].step \in OnePicture, EndsAs(u, "unknown", NoBytes),
           UNCHANGED <<imagePoints, twins>>
    PROVE  /\ jobs' \in [Imagers -> Job] /\ \A v \in Imagers : JobInv(jobs'[v])
           /\ settled' \in [Pictures -> [state: {"unknown", "found", "gone"}, bytes: Bytes \union {NoBytes}]]
           /\ AloneInv' /\ SettledInv' /\ ImagesAreFound'
           /\ \A p \in Pictures : settled'[p].state = "found" => settled'[p].bytes \in Bytes
<1> USE DEF ImageInv
<1>1. jobs' = [jobs EXCEPT ![u] = Ends(u)] BY DEF EndsAs
<1>2. /\ jobs' \in [Imagers -> Job] /\ \A v \in Imagers : JobInv(jobs'[v])
      /\ \A p \in Pictures : Busy(p)' = Busy(p) \ {u}
      /\ AloneInv'
  <2> HIDE DEF ImageInv
  <2>1. ImageShape /\ AloneInv BY DEF ImageInv
  <2> QED BY <1>1, <2>1, EndsIsJob, AJobEnds
<1>3. \A q \in Pictures : settled'[q] = settled[q] \/ settled'[q].state = "unknown"
  BY DEF EndsAs, ImageShape
<1>4. settled' \in [Pictures -> [state: {"unknown", "found", "gone"}, bytes: Bytes \union {NoBytes}]]
  BY DEF EndsAs, ImageShape
<1>5. SettledInv' BY <1>2, <1>3 DEF SettledInv
<1>6. ImagesAreFound'
  <2> SUFFICES ASSUME NEW q \in Pictures, settled'[q].state \in {"found", "gone"}
               PROVE  settled'[q] = settled[q] /\ imagePoints' = imagePoints /\ twins' = twins
    BY DEF ImagesAreFound
  <2> QED BY <1>3
<1> QED BY <1>2, <1>3, <1>4, <1>5, <1>6

LEMMA GivingUpKeeps ==
    ASSUME ImageInv, NEW u \in Imagers, jobs[u].step \in OnePicture, EndsAs(u, "unknown", NoBytes),
           UNCHANGED <<pictures, imagePoints, events, unseen, twins>>
    PROVE  ImageInv'
<1>1. /\ jobs' \in [Imagers -> Job] /\ \A v \in Imagers : JobInv(jobs'[v])
      /\ settled' \in [Pictures -> [state: {"unknown", "found", "gone"}, bytes: Bytes \union {NoBytes}]]
      /\ AloneInv' /\ SettledInv' /\ ImagesAreFound'
      /\ \A p \in Pictures : settled'[p].state = "found" => settled'[p].bytes \in Bytes
  BY AJobIsGivenUp
<1>2. ImageShape /\ unseen' \subseteq Pictures /\ events' \in Seq([path: Pictures, upserted: BOOLEAN])
  BY DEF ImageInv, ImageShape
<1>3. ImageShape' BY <1>1, <1>2, ShapeIsKept
<1> QED BY <1>1, <1>3 DEF ImageInv

LEMMA BeginningKeeps ==
    ASSUME ImageInv, NEW u \in Imagers, NEW job \in Job, JobInv(job),
           jobs[u].step \in {"idle", "scan"}, job.step \in {"read", "remove"}, BeginsAs(u, job),
           UNCHANGED <<pictures, imagePoints, unseen, twins>>,
           events' = events \/ events' \in Seq([path: Pictures, upserted: BOOLEAN])
    PROVE  ImageInv'
<1>1. /\ jobs' \in [Imagers -> Job] /\ \A v \in Imagers : JobInv(jobs'[v])
      /\ settled' \in [Pictures -> [state: {"unknown", "found", "gone"}, bytes: Bytes \union {NoBytes}]]
      /\ AloneInv' /\ SettledInv' /\ ImagesAreFound'
      /\ \A p \in Pictures : settled'[p].state = "found" => settled'[p].bytes \in Bytes
  BY AJobBegins
<1>2. ImageShape /\ unseen' \subseteq Pictures /\ events' \in Seq([path: Pictures, upserted: BOOLEAN])
  BY DEF ImageInv, ImageShape
<1>3. ImageShape' BY <1>1, <1>2, ShapeIsKept
<1> QED BY <1>1, <1>3 DEF ImageInv

(* ... and a step that frees pictures, and no more, keeps all of it.        *)
LEMMA FreeingKeeps ==
    ASSUME ImageInv, \A p \in Pictures : Busy(p)' \subseteq Busy(p), AloneInv',
           jobs' \in [Imagers -> Job], \A v \in Imagers : JobInv(jobs'[v]),
           UNCHANGED <<pictures, imagePoints, events, unseen, settled, twins>>
    PROVE  ImageInv'
<1>1. /\ SettledInv' /\ ImagesAreFound'
      /\ settled' \in [Pictures -> [state: {"unknown", "found", "gone"}, bytes: Bytes \union {NoBytes}]]
      /\ \A p \in Pictures : settled'[p].state = "found" => settled'[p].bytes \in Bytes
  BY NothingLearnt
<1>2. ImageShape /\ unseen' \subseteq Pictures /\ events' \in Seq([path: Pictures, upserted: BOOLEAN])
  BY DEF ImageInv, ImageShape
<1>3. ImageShape' BY <1>1, <1>2, ShapeIsKept
<1> QED BY <1>1, <1>3 DEF ImageInv

LEMMA UpsertKeeps == ASSUME ImageInv, NEW u \in Imagers, UpsertPicture(u) PROVE ImageInv'
<1> DEFINE job == jobs[u]
           J == [Ends(u) EXCEPT !.done = IF job.todo = <<>> THEN 0 ELSE job.done + 1]
           p == job.path
<1> USE DEF ImageInv
<1>1. /\ job \in Job /\ JobInv(job) /\ job.step = "upsert" /\ p \in Pictures /\ job.hash \in Bytes
      /\ jobs' = [jobs EXCEPT ![u] = J] /\ u \in Busy(p)
  BY DEF UpsertPicture, ImageShape, JobInv, Busy, OnePicture
<1>2. J \in Job /\ JobInv(J) /\ J.step \in {"idle", "scan"} /\ J.path = NoPicture
  <2>1. /\ Ends(u) \in Job /\ JobInv(Ends(u))
        /\ Ends(u).step \in {"idle", "scan"} /\ Ends(u).path = NoPicture
    BY EndsIsJob
  <2> HIDE DEF job
  <2>2. (IF job.todo = <<>> THEN 0 ELSE job.done + 1) \in Nat BY <1>1 DEF Job
  <2> DEFINE n == IF job.todo = <<>> THEN 0 ELSE job.done + 1
  <2> HIDE DEF n
  <2>3. J = [Ends(u) EXCEPT !.done = n] /\ n \in Nat BY <2>2 DEF n
  <2>4. J \in Job /\ J.step = Ends(u).step /\ J.path = Ends(u).path /\ J.todo = Ends(u).todo /\ J.hash = Ends(u).hash
    BY <2>1, <2>3 DEF Job
  <2> QED BY <2>1, <2>4 DEF JobInv
<1> HIDE DEF J
<1>3. /\ jobs' \in [Imagers -> Job] /\ \A v \in Imagers : JobInv(jobs'[v])
      /\ \A q \in Pictures : Busy(q)' = Busy(q) \ {u}
      /\ AloneInv'
  <2>1. ImageShape /\ AloneInv BY DEF ImageInv
  <2> HIDE DEF ImageInv
  <2> QED BY <1>1, <1>2, <2>1, AJobEnds
<1>4. job.alone => Busy(p) = {u}
  BY <1>1 DEF AloneInv, Keeps, Busy, OnePicture
<1>5. /\ imagePoints' = [imagePoints EXCEPT ![job.hash] = [path |-> p, vector |-> job.vector]]
      /\ twins' = IF imagePoints[job.hash].path \in {NoPicture, p} THEN twins ELSE twins \union {job.hash}
      /\ settled' = IF job.alone /\ job.hash = job.vector
                    THEN [settled EXCEPT ![p] = [state |-> "found", bytes |-> job.hash]] ELSE settled
  BY DEF UpsertPicture
<1>6. settled[p].state = "unknown" BY <1>1 DEF SettledInv, ImageShape
<1>7. imagePoints' \in [Bytes -> [path: Pictures \union {NoPicture}, vector: Bytes \union {NoBytes}]]
  BY <1>1, <1>5 DEF ImageShape, Job
<1>8. settled' \in [Pictures -> [state: {"unknown", "found", "gone"}, bytes: Bytes \union {NoBytes}]]
  BY <1>1, <1>5 DEF ImageShape
<1>9. ImageShape' BY <1>3, <1>7, <1>8 DEF UpsertPicture, ImageShape
<1>10. \A q \in Pictures \ {p} : settled'[q] = settled[q] BY <1>5 DEF ImageShape
<1>11. SettledInv'
  <2> SUFFICES ASSUME NEW q \in Pictures, settled'[q].state # "unknown" PROVE Busy(q)' = {} BY DEF SettledInv
  <2>1. CASE q = p BY <2>1, <1>1, <1>3, <1>4, <1>5, <1>6
  <2>2. CASE q # p BY <2>2, <1>3, <1>10 DEF SettledInv
  <2> QED BY <2>1, <2>2
<1>12. \A q \in Pictures : settled'[q].state = "found" => settled'[q].bytes \in Bytes
  <2> SUFFICES ASSUME NEW q \in Pictures, settled'[q].state = "found" PROVE settled'[q].bytes \in Bytes OBVIOUS
  <2>1. CASE q = p BY <2>1, <1>1, <1>5, <1>6 DEF ImageShape
  <2>2. CASE q # p BY <2>2, <1>10
  <2> QED BY <2>1, <2>2
<1>13. ImagesAreFound'
  <2> SUFFICES ASSUME NEW q \in Pictures
               PROVE  /\ settled'[q].state = "found" /\ settled'[q].bytes \notin twins'
                          => imagePoints'[settled'[q].bytes] = [path |-> q, vector |-> settled'[q].bytes]
                      /\ settled'[q].state = "gone" => \A b \in Bytes : imagePoints'[b].path # q
    BY DEF ImagesAreFound
  <2>1. CASE q = p BY <2>1, <1>1, <1>5, <1>6 DEF ImageShape
  <2>2. CASE q # p
    <3>1. CASE settled[q].state = "found" /\ settled[q].bytes \notin twins'
      <4>1. /\ settled[q].bytes \in Bytes /\ settled[q].bytes \notin twins
            /\ imagePoints[settled[q].bytes] = [path |-> q, vector |-> settled[q].bytes]
        BY <3>1, <1>5 DEF ImagesAreFound
      <4>2. settled[q].bytes # job.hash
        BY <4>1, <3>1, <2>2, <1>5, ImageAssumption
      <4> QED BY <4>1, <4>2, <3>1, <2>2, <1>10, <1>5 DEF ImageShape
    <3>2. CASE settled[q].state = "gone"
      BY <3>2, <2>2, <1>1, <1>5, <1>10 DEF ImagesAreFound, ImageShape
    <3> QED BY <3>1, <3>2, <2>2, <1>10
  <2> QED BY <2>1, <2>2
<1> QED BY <1>3, <1>9, <1>11, <1>12, <1>13

LEMMA RemoveKeeps == ASSUME ImageInv, NEW u \in Imagers, RemovePicture(u) PROVE ImageInv'
<1> DEFINE job == jobs[u]
           p == job.path
<1> USE DEF ImageInv
<1>1. /\ job \in Job /\ JobInv(job) /\ job.step = "remove" /\ p \in Pictures
      /\ jobs' = [jobs EXCEPT ![u] = Ends(u)] /\ u \in Busy(p)
  BY DEF RemovePicture, EndsAs, ImageShape, JobInv, Busy, OnePicture
<1>3. /\ jobs' \in [Imagers -> Job] /\ \A v \in Imagers : JobInv(jobs'[v])
      /\ \A q \in Pictures : Busy(q)' = Busy(q) \ {u}
      /\ AloneInv'
  <2>1. ImageShape /\ AloneInv BY DEF ImageInv
  <2> HIDE DEF ImageInv
  <2> QED BY <1>1, <2>1, AJobEnds, EndsIsJob
<1>4. job.alone => Busy(p) = {u}
  BY <1>1 DEF AloneInv, Keeps, Busy, OnePicture
<1>5. /\ imagePoints' = [b \in Bytes |-> IF imagePoints[b].path = p THEN NoImagePoint ELSE imagePoints[b]]
      /\ twins' = twins
      /\ settled' = IF job.alone THEN [settled EXCEPT ![p] = [state |-> "gone", bytes |-> NoBytes]] ELSE settled
  BY DEF RemovePicture, EndsAs
<1>6. settled[p].state = "unknown" BY <1>1 DEF SettledInv, ImageShape
<1>7. imagePoints' \in [Bytes -> [path: Pictures \union {NoPicture}, vector: Bytes \union {NoBytes}]]
  BY <1>1, <1>5 DEF ImageShape, NoImagePoint
<1>8. settled' \in [Pictures -> [state: {"unknown", "found", "gone"}, bytes: Bytes \union {NoBytes}]]
  BY <1>1, <1>5 DEF ImageShape
<1>9. ImageShape' BY <1>3, <1>7, <1>8 DEF RemovePicture, ImageShape
<1>10. \A q \in Pictures \ {p} : settled'[q] = settled[q] BY <1>5 DEF ImageShape
<1>11. SettledInv'
  <2> SUFFICES ASSUME NEW q \in Pictures, settled'[q].state # "unknown" PROVE Busy(q)' = {} BY DEF SettledInv
  <2>1. CASE q = p BY <2>1, <1>1, <1>3, <1>4, <1>5, <1>6
  <2>2. CASE q # p BY <2>2, <1>3, <1>10 DEF SettledInv
  <2> QED BY <2>1, <2>2
<1>12. \A q \in Pictures : settled'[q].state = "found" => q # p /\ settled'[q].bytes \in Bytes
  <2> SUFFICES ASSUME NEW q \in Pictures, settled'[q].state = "found" PROVE q # p /\ settled'[q].bytes \in Bytes
    OBVIOUS
  <2>1. q # p BY <1>1, <1>5, <1>6 DEF ImageShape
  <2> QED BY <2>1, <1>10
<1>13. ImagesAreFound'
  <2> SUFFICES ASSUME NEW q \in Pictures
               PROVE  /\ settled'[q].state = "found" /\ settled'[q].bytes \notin twins'
                          => imagePoints'[settled'[q].bytes] = [path |-> q, vector |-> settled'[q].bytes]
                      /\ settled'[q].state = "gone" => \A b \in Bytes : imagePoints'[b].path # q
    BY DEF ImagesAreFound
  <2>1. CASE q = p BY <2>1, <1>1, <1>5, <1>12, ImageAssumption DEF ImageShape, NoImagePoint
  <2>2. CASE q # p
    <3>1. CASE settled[q].state = "found" /\ settled[q].bytes \notin twins
      <4>1. /\ settled[q].bytes \in Bytes
            /\ imagePoints[settled[q].bytes] = [path |-> q, vector |-> settled[q].bytes]
        BY <3>1 DEF ImagesAreFound
      <4> QED BY <4>1, <3>1, <2>2, <1>10, <1>5
    <3>2. CASE settled[q].state = "gone"
      BY <3>2, <2>2, <1>1, <1>5, <1>10, ImageAssumption DEF ImagesAreFound, ImageShape, NoImagePoint
    <3> QED BY <3>1, <3>2, <2>2, <1>5, <1>10
  <2> QED BY <2>1, <2>2
<1> QED BY <1>3, <1>9, <1>11, <1>12, <1>13

LEMMA ClearKeeps == ASSUME ImageInv, NEW u \in Imagers, ClearPictures(u) PROVE ImageInv'
<1> USE DEF ImageInv
<1>1. /\ jobs[u].step = "clear" /\ jobs' = [jobs EXCEPT ![u] = IdleJob]
      /\ imagePoints' = [b \in Bytes |-> NoImagePoint]
  BY DEF ClearPictures
<1>2. /\ jobs' \in [Imagers -> Job] /\ \A v \in Imagers : JobInv(jobs'[v])
      /\ \A q \in Pictures : Busy(q)' = Busy(q) \ {u}
      /\ AloneInv'
  <2>1. ImageShape /\ AloneInv BY DEF ImageInv
  <2>2. IdleJob.step = "idle" /\ IdleJob.path = NoPicture BY DEF IdleJob
  <2> HIDE DEF ImageInv
  <2> QED BY <1>1, <2>1, <2>2, AJobEnds, IdleJobIsJob
<1>3. \A q \in Pictures : u \in Busy(q) /\ settled[q].state = "unknown"
  BY <1>1 DEF Busy, SettledInv
<1>4. \A q \in Pictures : settled'[q].state \in {"unknown", "gone"}
  BY <1>3 DEF ClearPictures
<1>5. settled' \in [Pictures -> [state: {"unknown", "found", "gone"}, bytes: Bytes \union {NoBytes}]]
  BY DEF ClearPictures, ImageShape
<1>6. imagePoints' \in [Bytes -> [path: Pictures \union {NoPicture}, vector: Bytes \union {NoBytes}]]
  BY <1>1 DEF NoImagePoint
<1>7. ImageShape' BY <1>2, <1>5, <1>6 DEF ImageShape, ClearPictures
<1>8. SettledInv'
  <2>1. CASE \E v \in Imagers \ {u} : jobs[v].step # "idle"
    BY <2>1, <1>3 DEF ClearPictures, SettledInv
  <2>2. CASE \A v \in Imagers \ {u} : jobs[v].step = "idle"
    BY <2>2, <1>2 DEF SettledInv, Busy
  <2> QED BY <2>1, <2>2
<1>9. ImagesAreFound' BY <1>1, <1>4, ImageAssumption DEF ImagesAreFound, NoImagePoint
<1> QED BY <1>2, <1>4, <1>7, <1>8, <1>9

-----------------------------------------------------------------------------
LEMMA ImageInit_Inv == ImageInit => ImageInv
<1> SUFFICES ASSUME ImageInit PROVE ImageInv OBVIOUS
<1>1. ImageShape
  BY IdleJobIsJob, ImageAssumption DEF ImageInit, ImageShape, NoImagePoint, Unsettled
<1>2. AloneInv BY DEF ImageInit, AloneInv, IdleJob, OnePicture
<1>3. SettledInv /\ ImagesAreFound /\ \A p \in Pictures : settled[p].state = "found" => settled[p].bytes \in Bytes
  BY DEF ImageInit, SettledInv, ImagesAreFound, Unsettled
<1> QED BY <1>1, <1>2, <1>3 DEF ImageInv

LEMMA RequestKeeps ==
    ASSUME ImageInv, NEW u \in Viewers
    PROVE  /\ \A p \in Pictures : image_ingest(u, p) => ImageInv'
           /\ \A p \in Pictures, relative \in BOOLEAN : image_delete(u, p, relative) => ImageInv'
           /\ (image_clear(u) => ImageInv') /\ (image_rescan(u) => ImageInv')
<1>u. u \in Imagers BY DEF Imagers
<1>i. ImageShape /\ AloneInv /\ SettledInv /\ ImagesAreFound BY DEF ImageInv
<1>1. ASSUME NEW p \in Pictures, image_ingest(u, p) PROVE ImageInv'
  <2> DEFINE job == NewJob("read", p)
  <2>1. job \in Job /\ JobInv(job) /\ job.step = "read" BY NewJobIsJob
  <2>2. jobs[u].step = "idle" /\ BeginsAs(u, job) BY <1>1 DEF image_ingest, Asks, NewJob
  <2> HIDE DEF job
  <2>3. UNCHANGED <<pictures, imagePoints, events, unseen, twins>> BY <1>1 DEF image_ingest
  <2> QED BY <1>u, <2>1, <2>2, <2>3, BeginningKeeps
<1>2. ASSUME NEW p \in Pictures, NEW relative \in BOOLEAN, image_delete(u, p, relative) PROVE ImageInv'
  <2> DEFINE job == NewJob("remove", p)
  <2>1. job \in Job /\ JobInv(job) /\ job.step = "remove" BY NewJobIsJob
  <2>2. CASE relative
    BY <1>2, <1>i, <2>2 DEF image_delete, ImageInv, ImageShape, AloneInv, SettledInv, Busy, ImagesAreFound
  <2>3. CASE ~relative
    <3>1. jobs[u].step = "idle" /\ BeginsAs(u, job) BY <1>2, <2>3 DEF image_delete, Asks, NewJob
    <3> HIDE DEF job
    <3>2. UNCHANGED <<pictures, imagePoints, events, unseen, twins>> BY <1>2 DEF image_delete
    <3> QED BY <1>u, <2>1, <3>1, <3>2, BeginningKeeps
  <2> QED BY <2>2, <2>3
<1>3. ASSUME image_clear(u) PROVE ImageInv'
  <2>1. jobs' = [v \in Imagers |-> IF v = u THEN [IdleJob EXCEPT !.step = "clear"] ELSE [jobs[v] EXCEPT !.alone = FALSE]]
    BY <1>3 DEF image_clear
  <2>2. jobs' \in [Imagers -> Job] /\ \A v \in Imagers : JobInv(jobs'[v])
    <3> DEFINE clear == [IdleJob EXCEPT !.step = "clear"]
    <3>1. clear \in Job /\ clear.step = "clear" BY IdleJobIsJob DEF Job
    <3> HIDE DEF clear
    <3>2. JobInv(clear) BY <3>1 DEF JobInv, OnePicture
    <3>3. ASSUME NEW v \in Imagers
          PROVE [jobs[v] EXCEPT !.alone = FALSE] \in Job /\ JobInv([jobs[v] EXCEPT !.alone = FALSE])
      <4>1. jobs[v] \in Job /\ JobInv(jobs[v]) BY <1>i DEF ImageShape
      <4> QED BY <4>1 DEF Job, JobInv
    <3>4. jobs' = [v \in Imagers |-> IF v = u THEN clear ELSE [jobs[v] EXCEPT !.alone = FALSE]]
      BY <2>1 DEF clear
    <3> QED BY <3>1, <3>2, <3>3, <3>4
  <2>3. \A v \in Imagers : jobs'[v].step \in OnePicture => ~jobs'[v].alone
    BY <1>i, <2>1 DEF ImageShape, IdleJob, Job, OnePicture
  <2>4. settled' = [p \in Pictures |-> Unsettled] BY <1>3 DEF image_clear
  <2>5. ImageShape'
    <3>1. settled' \in [Pictures -> [state: {"unknown", "found", "gone"}, bytes: Bytes \union {NoBytes}]]
      BY <2>4 DEF Unsettled
    <3>2. UNCHANGED <<pictures, imagePoints, events, unseen>> BY <1>3 DEF image_clear
    <3> QED BY <1>i, <2>2, <3>1, <3>2, ShapeIsKept DEF ImageShape
  <2>6. AloneInv' BY <2>3 DEF AloneInv
  <2>7. SettledInv' /\ ImagesAreFound' /\ \A p \in Pictures : settled'[p].state = "found" => settled'[p].bytes \in Bytes
    BY <2>4 DEF SettledInv, ImagesAreFound, Unsettled
  <2> QED BY <2>5, <2>6, <2>7 DEF ImageInv
<1>4. ASSUME image_rescan(u) PROVE ImageInv'
  <2>1. PICK order \in Orders(discover_images) :
           jobs' = IF imageEnabled /\ order # <<>>
                   THEN [jobs EXCEPT ![u] = [IdleJob EXCEPT !.step = "scan", !.todo = order]] ELSE jobs
    BY <1>4 DEF image_rescan
  <2>2. order \in Seq(Pictures) BY OrdersAreSequences
  <2>3. jobs[u].step = "idle" BY <1>4 DEF image_rescan, Asks
  <2>4. CASE imageEnabled /\ order # <<>>
    <3> DEFINE job == [IdleJob EXCEPT !.step = "scan", !.todo = order]
    <3>1. job \in Job /\ JobInv(job) /\ job.step = "scan" /\ job.path = NoPicture
      <4>1. job \in Job /\ job.step = "scan" /\ job.path = IdleJob.path /\ job.todo = order
        BY <2>2, IdleJobIsJob DEF Job
      <4> HIDE DEF job
      <4> QED BY <2>4, <4>1 DEF JobInv, OnePicture, IdleJob
    <3>2. jobs' = [jobs EXCEPT ![u] = job] BY <2>1, <2>4
    <3> HIDE DEF job
    <3>3. /\ jobs' \in [Imagers -> Job] /\ \A v \in Imagers : JobInv(jobs'[v])
          /\ \A p \in Pictures : Busy(p)' = Busy(p) \ {u}
          /\ AloneInv'
      BY <1>i, <1>u, <3>1, <3>2, AJobEnds
    <3>4. UNCHANGED <<pictures, imagePoints, events, unseen, settled, twins>> BY <1>4 DEF image_rescan
    <3>5. \A p \in Pictures : Busy(p)' \subseteq Busy(p) BY <3>3
    <3> QED BY <3>3, <3>4, <3>5, FreeingKeeps
  <2>5. CASE ~(imageEnabled /\ order # <<>>)
    BY <1>4, <1>i, <2>1, <2>5 DEF image_rescan, ImageInv, ImageShape, AloneInv, SettledInv, Busy, ImagesAreFound
  <2> QED BY <2>4, <2>5
<1> QED BY <1>1, <1>2, <1>3, <1>4

LEMMA JobStepKeeps == ASSUME ImageInv, NEW u \in Imagers, JobSteps(u) PROVE ImageInv'
<1>i. ImageShape /\ AloneInv /\ SettledInv /\ ImagesAreFound BY DEF ImageInv
<1>j. jobs[u] \in Job /\ JobInv(jobs[u]) BY <1>i DEF ImageShape
<1>1. CASE RescanNext(u)
  <2>1. jobs[u].step = "scan" /\ jobs[u].todo \in Seq(Pictures) /\ jobs[u].todo # <<>>
    BY <1>1, <1>j DEF RescanNext, Job, JobInv
  <2>2. CASE jobs[u].done >= MAX_IMAGES
    <3>1. jobs' = [jobs EXCEPT ![u] = IdleJob] /\ UNCHANGED <<settled, imagePoints, twins>>
      BY <1>1, <2>2 DEF RescanNext
    <3>2. /\ jobs' \in [Imagers -> Job] /\ \A v \in Imagers : JobInv(jobs'[v])
          /\ \A p \in Pictures : Busy(p)' = Busy(p) \ {u}
          /\ AloneInv'
      <4>1. IdleJob.step = "idle" /\ IdleJob.path = NoPicture BY DEF IdleJob
      <4> QED BY <1>i, <3>1, <4>1, IdleJobIsJob, AJobEnds
    <3>3. UNCHANGED <<pictures, imagePoints, events, unseen, settled, twins>> BY <1>1, <3>1 DEF RescanNext
    <3>4. \A p \in Pictures : Busy(p)' \subseteq Busy(p) BY <3>2
    <3> QED BY <3>2, <3>3, <3>4, FreeingKeeps
  <2>3. CASE ~(jobs[u].done >= MAX_IMAGES)
    <3> DEFINE job == [jobs[u] EXCEPT !.step = "read", !.path = Head(jobs[u].todo), !.todo = Tail(@), !.alone = TRUE]
    <3>1. Head(jobs[u].todo) \in Pictures /\ Tail(jobs[u].todo) \in Seq(Pictures) BY <2>1
    <3>2. job \in Job /\ JobInv(job) /\ job.step = "read"
      <4>1. job \in Job /\ job.step = "read" /\ job.path \in Pictures BY <1>j, <3>1 DEF Job
      <4> HIDE DEF job
      <4> QED BY <4>1 DEF JobInv, OnePicture
    <3>3. BeginsAs(u, job) BY <1>1, <2>3 DEF RescanNext
    <3> HIDE DEF job
    <3>4. UNCHANGED <<pictures, imagePoints, events, unseen, twins>> BY <1>1 DEF RescanNext
    <3> QED BY <2>1, <3>2, <3>3, <3>4, BeginningKeeps
  <2> QED BY <2>2, <2>3
<1>2. CASE ReadPicture(u)
  <2>1. jobs[u].step = "read" /\ jobs[u].path \in Pictures BY <1>2, <1>j DEF ReadPicture, JobInv, OnePicture
  <2>2. CASE ~imageEnabled \/ pictures[jobs[u].path] = NoBytes
    <3>1. EndsAs(u, "unknown", NoBytes) BY <1>2, <2>2 DEF ReadPicture
    <3>2. UNCHANGED <<pictures, imagePoints, events, unseen, twins>> BY <1>2 DEF ReadPicture
    <3> QED BY <2>1, <3>1, <3>2, GivingUpKeeps DEF OnePicture
  <2>3. CASE ~(~imageEnabled \/ pictures[jobs[u].path] = NoBytes)
    <3> DEFINE job == [jobs[u] EXCEPT !.step = "embed", !.hash = pictures[jobs[u].path]]
    <3>1. pictures[jobs[u].path] \in Bytes BY <1>i, <2>1, <2>3 DEF ImageShape
    <3>2. /\ job \in Job /\ JobInv(job) /\ job.step = "embed"
          /\ job.path = jobs[u].path /\ job.alone = jobs[u].alone
      BY <1>j, <2>1, <3>1 DEF Job, JobInv, OnePicture
    <3>3. jobs' = [jobs EXCEPT ![u] = job] /\ UNCHANGED settled
      BY <1>2, <1>i, <2>3 DEF ReadPicture, ImageShape
    <3> HIDE DEF job
    <3>4. /\ jobs' \in [Imagers -> Job] /\ \A v \in Imagers : JobInv(jobs'[v])
          /\ \A p \in Pictures : Busy(p)' = Busy(p)
          /\ AloneInv'
      BY <1>i, <2>1, <3>2, <3>3, AJobGoesOn DEF OnePicture
    <3>5. UNCHANGED <<pictures, imagePoints, events, unseen, settled, twins>> BY <1>2, <3>3 DEF ReadPicture
    <3>6. \A p \in Pictures : Busy(p)' \subseteq Busy(p) BY <3>4
    <3> QED BY <3>4, <3>5, <3>6, FreeingKeeps
  <2> QED BY <2>2, <2>3
<1>3. CASE EmbedPicture(u)
  <2>1. jobs[u].step = "embed" /\ jobs[u].path \in Pictures BY <1>3, <1>j DEF EmbedPicture, JobInv, OnePicture
  <2>2. CASE pictures[jobs[u].path] = NoBytes
    <3>1. EndsAs(u, "unknown", NoBytes) BY <1>3, <2>2 DEF EmbedPicture
    <3>2. UNCHANGED <<pictures, imagePoints, events, unseen, twins>> BY <1>3 DEF EmbedPicture
    <3> QED BY <2>1, <3>1, <3>2, GivingUpKeeps DEF OnePicture
  <2>3. CASE pictures[jobs[u].path] # NoBytes
    <3> DEFINE job == [jobs[u] EXCEPT !.step = "upsert", !.vector = pictures[jobs[u].path]]
    <3>1. pictures[jobs[u].path] \in Bytes BY <1>i, <2>1, <2>3 DEF ImageShape
    <3>2. /\ job \in Job /\ JobInv(job) /\ job.step = "upsert"
          /\ job.path = jobs[u].path /\ job.alone = jobs[u].alone
      BY <1>j, <2>1, <3>1 DEF Job, JobInv, OnePicture
    <3>3. jobs' = [jobs EXCEPT ![u] = job] /\ UNCHANGED settled
      BY <1>3, <1>i, <2>3 DEF EmbedPicture, ImageShape
    <3> HIDE DEF job
    <3>4. /\ jobs' \in [Imagers -> Job] /\ \A v \in Imagers : JobInv(jobs'[v])
          /\ \A p \in Pictures : Busy(p)' = Busy(p)
          /\ AloneInv'
      BY <1>i, <2>1, <3>2, <3>3, AJobGoesOn DEF OnePicture
    <3>5. UNCHANGED <<pictures, imagePoints, events, unseen, settled, twins>> BY <1>3, <3>3 DEF EmbedPicture
    <3>6. \A p \in Pictures : Busy(p)' \subseteq Busy(p) BY <3>4
    <3> QED BY <3>4, <3>5, <3>6, FreeingKeeps
  <2> QED BY <2>2, <2>3
<1>4. CASE UpsertPicture(u) BY <1>4, UpsertKeeps
<1>5. CASE RemovePicture(u) BY <1>5, RemoveKeeps
<1>6. CASE ClearPictures(u) BY <1>6, ClearKeeps
<1>7. CASE PictureFails(u)
  <2>1. jobs' = [jobs EXCEPT ![u] = Ends(u)] BY <1>7 DEF PictureFails
  <2>2. /\ jobs' \in [Imagers -> Job] /\ \A v \in Imagers : JobInv(jobs'[v])
        /\ \A p \in Pictures : Busy(p)' = Busy(p) \ {u}
        /\ AloneInv'
    BY <1>i, <2>1, EndsIsJob, AJobEnds
  <2>3. UNCHANGED <<pictures, imagePoints, events, unseen, settled, twins>> BY <1>7 DEF PictureFails
  <2>4. \A p \in Pictures : Busy(p)' \subseteq Busy(p) BY <2>2
  <2> QED BY <2>2, <2>3, <2>4, FreeingKeeps
<1> QED BY <1>1, <1>2, <1>3, <1>4, <1>5, <1>6, <1>7 DEF JobSteps

LEMMA ImageNext_Inv == ImageInv /\ [ImageNext]_imageVars => ImageInv'
<1> SUFFICES ASSUME ImageInv, [ImageNext]_imageVars PROVE ImageInv' OBVIOUS
<1>i. ImageShape /\ AloneInv /\ SettledInv /\ ImagesAreFound BY DEF ImageInv
<1>1. ASSUME NEW p \in Pictures, NEW b \in Bytes \union {NoBytes}, ChangePicture(p, b) PROVE ImageInv'
  BY <1>1, <1>i DEF ChangePicture, ImageInv, ImageShape, AloneInv, SettledInv, Busy, ImagesAreFound
<1>2. ASSUME NEW p \in Pictures, DebouncePicture(p) PROVE ImageInv'
  <2>1. events' \in Seq([path: Pictures, upserted: BOOLEAN])
    BY <1>2, <1>i DEF DebouncePicture, ImageShape
  <2>2. ImageShape' BY <1>2, <1>i, <2>1 DEF DebouncePicture, ImageShape
  <2> QED BY <1>2, <1>i, <2>2 DEF DebouncePicture, ImageInv, AloneInv, SettledInv, Busy, ImagesAreFound
<1>3. CASE maybe_spawn_watcher
  <2> DEFINE event == Head(events)
             job == [IdleJob EXCEPT !.step = IF event.upserted THEN "read" ELSE "remove", !.path = event.path]
  <2>1. event \in [path: Pictures, upserted: BOOLEAN] /\ events' \in Seq([path: Pictures, upserted: BOOLEAN])
    <3>1. events \in Seq([path: Pictures, upserted: BOOLEAN]) /\ events # <<>> /\ events' = Tail(events)
      BY <1>3, <1>i DEF maybe_spawn_watcher, ImageShape
    <3> DEFINE E == [path: Pictures, upserted: BOOLEAN]
    <3> HIDE DEF E
    <3>2. \A s \in Seq(E) : s # <<>> => Head(s) \in E /\ Tail(s) \in Seq(E) OBVIOUS
    <3> QED BY <3>1, <3>2 DEF E
  <2>2. Watcher \in Imagers /\ jobs[Watcher].step = "idle" /\ BeginsAs(Watcher, job)
    BY <1>3 DEF maybe_spawn_watcher, Imagers
  <2> HIDE DEF event
  <2>3. job \in Job /\ JobInv(job) /\ job.step \in {"read", "remove"}
    <3> DEFINE step == IF event.upserted THEN "read" ELSE "remove"
    <3> DEFINE p == event.path
    <3>1. step \in {"read", "remove"} /\ p \in Pictures BY <2>1
    <3>2. job = NewJob(step, p) BY DEF NewJob
    <3> HIDE DEF job, step, p
    <3> QED BY <3>1, <3>2, NewJobIsJob
  <2> HIDE DEF job
  <2>4. UNCHANGED <<pictures, imagePoints, unseen, twins>> BY <1>3 DEF maybe_spawn_watcher
  <2> QED BY <1>i, <2>1, <2>2, <2>3, <2>4, BeginningKeeps
<1>4. CASE \E u \in Viewers, p \in Pictures : image_ingest(u, p) \/ \E relative \in BOOLEAN : image_delete(u, p, relative)
  BY <1>4, RequestKeeps
<1>5. CASE \E u \in Viewers : image_clear(u) \/ image_rescan(u)
  BY <1>5, RequestKeeps
<1>6. CASE \E u \in Imagers : JobSteps(u) BY <1>6, JobStepKeeps
<1>7. CASE UNCHANGED imageVars
  BY <1>7, <1>i DEF imageVars, ImageInv, ImageShape, AloneInv, SettledInv, Busy, ImagesAreFound
<1> QED BY <1>1, <1>2, <1>3, <1>4, <1>5, <1>6, <1>7 DEF ImageNext

-----------------------------------------------------------------------------
(* Whatever requests, the watcher and a rescan are doing at the same time:  *)
(* an image that was ingested by work that nothing overlapped is found by   *)
(* its bytes, and one that was removed is named by no point                 *)
(* (image_ingest_standalone and image_remove_standalone).                   *)
THEOREM ImagesAreAlwaysFound == ImageSpec => []ImagesAreFound
<1>1. ImageInv => ImagesAreFound BY DEF ImageInv
<1> QED BY <1>1, ImageInit_Inv, ImageNext_Inv, PTL DEF ImageSpec

-----------------------------------------------------------------------------
(***************************************************************************)
(* Wherever openers of a store stop, its schema can be gone on with.       *)
(***************************************************************************)

Changes == {"create if not exists", "create", "copy", "drop", "rename"}
Marks == {"record", "check", "file"}
Phases == {"closed", "migrating", "failed", "refused", "open"}
ChangeOf == [does: Changes, on: Tables, to: Tables]
MarkOf == [does: Marks, on: 0 .. 7, to: Nat]
Host == Sql("create if not exists", "vector", "host")
SqlOf == ChangeOf \union MarkOf \union {Host}
Left(n) == ChangeOf \union {Record(m) : m \in n .. 7}   \* what an opener may still have to execute in batch n
Schema == [tables: SUBSET Tables, versions: SUBSET (0 .. 7), nodes: SUBSET OldRows, nodes_v2: SUBSET OldRows]

MigShape ==
    /\ backendKind \in {"sqlite", "postgres", "pgvector"} /\ schema \in Schema
    /\ opener \in [Openers -> [phase: Phases, todo: Seq(SqlOf)]]
    /\ saved \subseteq OldRows /\ overlap \in BOOLEAN
    /\ ~overlap => \A o, p \in Openers : opener[o].phase = "migrating" /\ opener[p].phase = "migrating" => o = p

Moving == {o \in Openers : opener[o].phase = "migrating"}
Torn == torn \cap {5, 7} # {}

-----------------------------------------------------------------------------
(* SQLite.                                                                  *)

(* What is left when j statements of batch n have been executed.            *)
After(s, j, t) == SubSeq(s, j + 1, Len(s)) \o t
Rest(n, j) == After(Migrate(n), j, Pending[n])

(* What is there between two batches and inside one, whatever stopped.      *)
SchemaAt(v) ==
    /\ schema.versions = 1 .. v
    /\ \A i \in 1 .. v : Produces(i) \subseteq schema.tables \/ (i = 4 /\ v = 4)
    /\ "nodes" \notin schema.tables => schema.nodes = {}
    /\ "nodes_v2" \notin schema.tables => schema.nodes_v2 = {}
    /\ saved \subseteq schema.nodes \union schema.nodes_v2

(* What an opener has done of batch n, whatever it found.                   *)
Executed(s, n, j) ==
    /\ n # 5 => \A i \in 1 .. j : Batches[n][i].on \in s.tables
    /\ n = 5 => /\ j \in 2 .. 5 => s.nodes \subseteq s.nodes_v2
                /\ j >= 7 => "nodes" \in s.tables
                /\ j = 8 => "tunnels" \in s.tables

(* Where batches 5 and 7 have not been torn, which of their tables there    *)
(* are follows from the statements executed.                                *)
Untorn(s, n, j) ==
    /\ n = 5 => /\ "nodes" \in s.tables <=> j # 6
                /\ "tunnels" \in s.tables <=> j \notin 5 .. 7
                /\ "nodes_v2" \in s.tables <=> j \in 1 .. 6
                /\ "tunnels_v2" \in s.tables <=> j \in 3 .. 7
                /\ j <= 1 => s.nodes_v2 = {}
    /\ n # 5 => {"nodes_v2", "tunnels_v2"} \cap s.tables = {}
    /\ n < 7 => {"outcome", "error_kind"} \cap s.tables = {}
    /\ n = 7 => /\ "outcome" \in s.tables <=> j >= 1
                /\ "error_kind" \in s.tables <=> j >= 2

(* An opener is somewhere in the batch after the last one that is recorded. *)
Amid(o, v, j) ==
    /\ v < 7 /\ j \in 0 .. Len(Batches[v + 1])
    /\ opener[o].todo = Rest(v + 1, j) /\ Executed(schema, v + 1, j)
    /\ Torn \/ Untorn(schema, v + 1, j)

SqliteAt(v) ==
    /\ SchemaAt(v)
    /\ \A o \in Openers : /\ opener[o].phase = "open" => v = 7
                          /\ opener[o].phase = "failed" => Torn
    /\ \A o \in Moving : (v = 7 /\ opener[o].todo = <<>>) \/ \E j \in 0 .. 8 : Amid(o, v, j)
    /\ Moving = {} \/ v = 7 => Torn \/ Untorn(schema, v + 1, 0)

SqliteInv == backendKind = "sqlite" /\ ~overlap => \E v \in 0 .. 7 : SqliteAt(v)

-----------------------------------------------------------------------------
(* PostgreSQL: what is left to be recorded is not recorded yet.             *)
Unrecorded(todo, s) ==
    \A i \in DOMAIN todo :
       /\ todo[i].does \in {"file", "record"}
       /\ todo[i].does = "record" =>
             /\ todo[i].on \notin s.versions
             /\ \A k \in DOMAIN todo : todo[k].does = "record" /\ todo[k].on = todo[i].on => k = i

PostgresInv ==
    backendKind = "postgres" /\ ~overlap =>
        /\ \A o \in Openers : opener[o].phase # "failed"
        /\ \A o \in Moving : Unrecorded(opener[o].todo, schema)

-----------------------------------------------------------------------------
(* pgvector: an opener has what it has passed by; only overlapping openers  *)
(* find recorded what they had looked up.                                   *)
VectorFile(n) == <<Exists(VectorFiles[n]), Record(n)>>
Recorded(s, n) == 0 .. n - 1 \subseteq s.versions

VectorAt(todo, s, over) ==
    \/ todo = VectorPending
    \/ todo = <<Exists("pgvector_migrations")>> \o UpsertOrVerify(0) \o VectorFrom[1]
    \/ todo = UpsertOrVerify(0) \o VectorFrom[1]
    \/ todo = <<Record(0)>> \o VectorFrom[1] /\ (~over => 0 \notin s.versions)
    \/ \E n \in 1 .. 5 : todo = VectorFrom[n] /\ Recorded(s, n)
    \/ \E n \in 1 .. 4 : todo = VectorFile(n) \o VectorFrom[n + 1] /\ Recorded(s, n) /\ (~over => n \notin s.versions)
    \/ \E n \in 1 .. 4 : /\ todo = <<Record(n)>> \o VectorFrom[n + 1] /\ Recorded(s, n)
                         /\ VectorFiles[n] \in s.tables /\ (~over => n \notin s.versions)

VectorInv ==
    backendKind = "pgvector" =>
        /\ schema.versions \subseteq 0 .. 4
        /\ \A n \in schema.versions \ {0} : VectorFiles[n] \in schema.tables
        /\ \A o \in Openers : /\ opener[o].phase = "open" => schema.versions = 0 .. 4
                              /\ opener[o].phase = "failed" => overlap
        /\ \A o \in Moving : VectorAt(opener[o].todo, schema, overlap)

MigInv == MigShape /\ SqliteInv /\ PostgresInv /\ VectorInv /\ (backendKind # "sqlite" => saved = {})

-----------------------------------------------------------------------------
(* Lists of statements.                                                     *)
Splits(s, q, t) == s # <<>> /\ Head(s) = q /\ Tail(s) = t

LEMMA OneBefore ==
    ASSUME NEW S, NEW q \in S, NEW t \in Seq(S)
    PROVE  <<q>> \o t \in Seq(S) /\ Splits(<<q>> \o t, q, t)
BY DEF Splits

LEMMA TwoBefore ==
    ASSUME NEW S, NEW q \in S, NEW r \in S, NEW t \in Seq(S)
    PROVE  <<q, r>> \o t \in Seq(S) /\ Splits(<<q, r>> \o t, q, <<r>> \o t)
BY DEF Splits

LEMMA ThreeBefore ==
    ASSUME NEW S, NEW q \in S, NEW r \in S, NEW u \in S, NEW t \in Seq(S)
    PROVE  <<q, r, u>> \o t \in Seq(S) /\ Splits(<<q, r, u>> \o t, q, <<r, u>> \o t)
BY DEF Splits

LEMMA SkipTwo ==
    ASSUME NEW S, NEW q \in S, NEW r \in S, NEW t \in Seq(S)
    PROVE  SubSeq(<<q, r>> \o t, 3, Len(<<q, r>> \o t)) = t
OBVIOUS

LEMMA SkipThree ==
    ASSUME NEW S, NEW q \in S, NEW r \in S, NEW u \in S, NEW t \in Seq(S)
    PROVE  SubSeq(<<q, r, u>> \o t, 4, Len(<<q, r, u>> \o t)) = t
OBVIOUS

LEMMA Joined ==
    ASSUME NEW S, NEW s \in Seq(S), NEW t \in Seq(S)
    PROVE  /\ s \o t \in Seq(S) /\ Len(s \o t) = Len(s) + Len(t)
           /\ \A i \in 1 .. Len(s) : (s \o t)[i] = s[i]
           /\ \A i \in 1 .. Len(t) : (s \o t)[Len(s) + i] = t[i]
OBVIOUS

LEMMA SameList ==
    ASSUME NEW S, NEW s \in Seq(S), NEW t \in Seq(S), Len(s) = Len(t), \A i \in 1 .. Len(s) : s[i] = t[i]
    PROVE  s = t
OBVIOUS

Leaves(S, s, j, t) ==
    /\ After(s, j, t) \in Seq(S) /\ After(s, j, t) # <<>> /\ Head(After(s, j, t)) = s[j + 1]
    /\ Tail(After(s, j, t)) = IF j + 1 < Len(s) THEN After(s, j + 1, t) ELSE t
    /\ Len(After(s, j, t)) = Len(s) - j + Len(t)
    /\ \A i \in 1 .. Len(s) - j : After(s, j, t)[i] = s[j + i]

(* What is left of a list once its first j elements have been taken.        *)
LEMMA Leaving ==
    ASSUME NEW S, NEW s \in Seq(S), NEW t \in Seq(S), NEW j \in 0 .. Len(s) - 1
    PROVE  Leaves(S, s, j, t)
<1> DEFINE k == Len(s) - j
           head == SubSeq(s, j + 1, Len(s))
           rest == head \o t
<1>0. /\ After(s, j, t) = SubSeq(s, j + 1, Len(s)) \o t
      /\ After(s, j + 1, t) = SubSeq(s, j + 2, Len(s)) \o t
  <2>1. (j + 1) + 1 = j + 2 OBVIOUS
  <2> QED BY <2>1 DEF After
<1>1. k \in Nat /\ k >= 1 /\ j \in Nat /\ Len(s) \in Nat /\ Len(t) \in Nat /\ k + j = Len(s) OBVIOUS
<1>2. /\ head \in Seq(S) /\ Len(head) = k
      /\ \A i \in 1 .. k : head[i] = s[j + i]
  BY <1>1
<1> HIDE DEF head, k
<1>3. /\ rest \in Seq(S) /\ Len(rest) = k + Len(t)
      /\ \A i \in 1 .. k : rest[i] = s[j + i]
      /\ \A i \in 1 .. Len(t) : rest[k + i] = t[i]
  BY <1>1, <1>2
<1>4. rest # <<>> /\ Head(rest) = s[j + 1] BY <1>1, <1>3
<1>5. Tail(rest) \in Seq(S) /\ Len(Tail(rest)) = k + Len(t) - 1 /\ \A i \in 1 .. k + Len(t) - 1 : Tail(rest)[i] = rest[i + 1]
  BY <1>1, <1>3
<1>6. CASE k = 1
  <2>1. j + 1 = Len(s) BY <1>1, <1>6
  <2>2. Len(Tail(rest)) = Len(t) /\ \A i \in 1 .. Len(t) : Tail(rest)[i] = t[i]
    BY <1>1, <1>3, <1>5, <1>6
  <2>3. Tail(rest) = t BY <1>5, <2>2
  <2>4. After(s, j, t) = rest BY <1>0 DEF head
  <2>5. Len(rest) = Len(s) - j + Len(t) /\ 1 .. Len(s) - j = 1 .. k BY <1>1, <1>3 DEF k
  <2> HIDE DEF rest
  <2> QED BY <1>3, <1>4, <2>1, <2>3, <2>4, <2>5 DEF Leaves
<1>7. CASE k # 1
  <2> DEFINE next == SubSeq(s, j + 2, Len(s))
  <2>1. j + 1 < Len(s) /\ k - 1 \in Nat BY <1>1, <1>7
  <2>2. /\ next \in Seq(S) /\ Len(next) = k - 1 /\ \A i \in 1 .. k - 1 : next[i] = s[j + 1 + i]
    BY <1>1, <2>1
  <2> HIDE DEF next
  <2>3. /\ next \o t \in Seq(S) /\ Len(next \o t) = k - 1 + Len(t)
        /\ \A i \in 1 .. k - 1 : (next \o t)[i] = s[j + 1 + i]
        /\ \A i \in 1 .. Len(t) : (next \o t)[k - 1 + i] = t[i]
    <3>1. /\ next \o t \in Seq(S) /\ Len(next \o t) = k - 1 + Len(t)
          /\ \A i \in 1 .. k - 1 : (next \o t)[i] = next[i]
          /\ \A i \in 1 .. Len(t) : (next \o t)[k - 1 + i] = t[i]
      <4>1. next \in Seq(S) BY <2>2
      <4>2. /\ next \o t \in Seq(S) /\ Len(next \o t) = Len(next) + Len(t)
            /\ \A i \in 1 .. Len(next) : (next \o t)[i] = next[i]
            /\ \A i \in 1 .. Len(t) : (next \o t)[Len(next) + i] = t[i]
        BY <4>1, Joined
      <4> QED BY <2>2, <4>2
    <3> QED BY <2>2, <3>1
  <2> HIDE DEF rest
  <2>4. ASSUME NEW i \in 1 .. k + Len(t) - 1 PROVE Tail(rest)[i] = (next \o t)[i]
    <3>1. CASE i <= k - 1
      <4>1. i \in 1 .. k - 1 /\ i + 1 \in 1 .. k /\ j + (i + 1) = j + 1 + i BY <1>1, <2>1, <3>1
      <4> QED BY <1>3, <1>5, <2>3, <4>1
    <3>2. CASE i > k - 1
      <4>1. i - (k - 1) \in 1 .. Len(t) /\ k + (i - (k - 1)) = i + 1 /\ k - 1 + (i - (k - 1)) = i
        BY <1>1, <2>1, <3>2
      <4>2. Tail(rest)[i] = rest[i + 1] BY <1>5
      <4>3. rest[i + 1] = t[i - (k - 1)] BY <1>3, <4>1
      <4>4. (next \o t)[i] = t[i - (k - 1)] BY <2>3, <4>1
      <4> QED BY <4>2, <4>3, <4>4
    <3>3. i <= k - 1 \/ i > k - 1 BY <1>1, <2>1
    <3> QED BY <3>1, <3>2, <3>3
  <2>5. Tail(rest) = next \o t
    <3>1. Len(next \o t) = Len(Tail(rest)) BY <1>1, <1>5, <2>3
    <3> QED BY <1>5, <2>3, <2>4, <3>1, SameList
  <2>6. After(s, j, t) = rest /\ After(s, j + 1, t) = next \o t BY <1>0 DEF head, next, rest
  <2>7. Len(rest) = Len(s) - j + Len(t) /\ 1 .. Len(s) - j = 1 .. k BY <1>1, <1>3 DEF k
  <2> QED BY <1>3, <1>4, <2>1, <2>5, <2>6, <2>7 DEF Leaves
<1> QED BY <1>6, <1>7

-----------------------------------------------------------------------------
(* The statements of SQLite.                                                *)
LEMMA BatchesAre ==
    /\ Batches \in Seq(Seq(ChangeOf)) /\ Len(Batches) = 7
    /\ Batches[1] = Batch1 /\ Batches[2] = Batch2 /\ Batches[3] = Batch3 /\ Batches[4] = Batch4
    /\ Batches[5] = Batch5 /\ Batches[6] = Batch6 /\ Batches[7] = Batch7
    /\ Len(Batch1) = 3 /\ Len(Batch2) = 1 /\ Len(Batch3) = 1 /\ Len(Batch4) = 2
    /\ Len(Batch5) = 8 /\ Len(Batch6) = 2 /\ Len(Batch7) = 2
<1>1. Batch1 \in Seq(ChangeOf) /\ Batch2 \in Seq(ChangeOf) /\ Batch3 \in Seq(ChangeOf) /\ Batch4 \in Seq(ChangeOf)
  BY DEF Batch1, Batch2, Batch3, Batch4, Exists, Sql, ChangeOf, Tables, Changes
<1>2. Batch6 \in Seq(ChangeOf) /\ Batch7 \in Seq(ChangeOf)
  BY DEF Batch6, Batch7, Exists, AddColumn, Sql, ChangeOf, Tables, Changes
<1>3. Batch5 \in Seq(ChangeOf)
  <2>1. \A t \in {"nodes", "tunnels", "nodes_v2", "tunnels_v2"} : Create(t) \in ChangeOf /\ Drop(t) \in ChangeOf
    BY DEF Create, Drop, Sql, ChangeOf, Tables, Changes
  <2>2. \A t, u \in {"nodes", "tunnels", "nodes_v2", "tunnels_v2"} : Copy(t, u) \in ChangeOf /\ Rename(t, u) \in ChangeOf
    BY DEF Copy, Rename, Sql, ChangeOf, Tables, Changes
  <2> QED BY <2>1, <2>2 DEF Batch5
<1>4. Len(Batch1) = 3 /\ Len(Batch2) = 1 /\ Len(Batch3) = 1 /\ Len(Batch4) = 2 /\ Len(Batch5) = 8
      /\ Len(Batch6) = 2 /\ Len(Batch7) = 2
  BY DEF Batch1, Batch2, Batch3, Batch4, Batch5, Batch6, Batch7
<1> QED BY <1>1, <1>2, <1>3, <1>4 DEF Batches

LEMMA SqlOfIs ==
    /\ ChangeOf \subseteq SqlOf /\ MarkOf \subseteq SqlOf /\ Host \in SqlOf
    /\ \A n \in 0 .. 7 : Record(n) \in SqlOf /\ Record(n).does = "record" /\ Record(n).on = n
<1>1. ChangeOf \subseteq SqlOf /\ MarkOf \subseteq SqlOf /\ Host \in SqlOf BY DEF SqlOf
<1>2. ASSUME NEW n \in 0 .. 7 PROVE Record(n) \in MarkOf /\ Record(n).does = "record" /\ Record(n).on = n
  <2>1. n \in Nat OBVIOUS
  <2> QED BY <2>1 DEF Record, Sql, MarkOf, Marks
<1> QED BY <1>1, <1>2

LEMMA MigrateIs ==
    ASSUME NEW n \in 1 .. 7
    PROVE  /\ Batches[n] \in Seq(ChangeOf) /\ Len(Batches[n]) \in 1 .. 8
           /\ Record(n) \in SqlOf /\ Migrate(n) \in Seq(SqlOf) /\ Len(Migrate(n)) = Len(Batches[n]) + 1
           /\ Migrate(n)[Len(Batches[n]) + 1] = Record(n)
           /\ \A j \in 1 .. Len(Batches[n]) : Migrate(n)[j] = Batches[n][j] /\ Batches[n][j] \in ChangeOf
<1>1. Batches[n] \in Seq(ChangeOf) /\ Len(Batches[n]) \in 1 .. 8
  <2>1. n = 1 \/ n = 2 \/ n = 3 \/ n = 4 \/ n = 5 \/ n = 6 \/ n = 7 OBVIOUS
  <2>2. Len(Batches[n]) \in 1 .. 8 BY <2>1, BatchesAre
  <2>3. Batches \in Seq(Seq(ChangeOf)) /\ n \in 1 .. Len(Batches) BY BatchesAre
  <2>4. Batches[n] \in Seq(ChangeOf) BY <2>3
  <2> QED BY <2>2, <2>4
<1>2. Record(n) \in SqlOf
  <2>1. n \in 0 .. 7 OBVIOUS
  <2> QED BY <2>1, SqlOfIs
<1> DEFINE batch == Batches[n]
           last == <<Record(n)>>
<1>3. last \in Seq(SqlOf) /\ Len(last) = 1 /\ last[1] = Record(n) BY <1>2
<1>4. Migrate(n) = batch \o last BY DEF Migrate
<1>5. batch \in Seq(SqlOf) /\ \A j \in 1 .. Len(batch) : batch[j] \in ChangeOf
  <2> HIDE DEF batch
  <2>1. batch \in Seq(ChangeOf) BY <1>1 DEF batch
  <2>2. \A j \in 1 .. Len(batch) : batch[j] \in ChangeOf BY <2>1
  <2>3. ChangeOf \subseteq SqlOf BY SqlOfIs
  <2> QED BY <2>1, <2>2, <2>3
<1> HIDE DEF last, batch
<1>6. /\ batch \o last \in Seq(SqlOf) /\ Len(batch \o last) = Len(batch) + Len(last)
      /\ \A i \in 1 .. Len(batch) : (batch \o last)[i] = batch[i]
      /\ \A i \in 1 .. Len(last) : (batch \o last)[Len(batch) + i] = last[i]
  <2>1. batch \in Seq(SqlOf) /\ last \in Seq(SqlOf) BY <1>3, <1>5
  <2> QED BY <2>1, Joined
<1>7. (batch \o last)[Len(batch) + 1] = Record(n) BY <1>3, <1>6
<1> QED BY <1>1, <1>2, <1>3, <1>4, <1>5, <1>6, <1>7 DEF batch

(* The recursive function is what its definition says.                      *)
LEMMA PendingIs ==
    /\ Pending[7] = <<>>
    /\ \A n \in 0 .. 6 : Pending[n] = Migrate(n + 1) \o Pending[n + 1]
<1> DEFINE q6 == Migrate(7) \o <<>>
           q5 == Migrate(6) \o q6
           q4 == Migrate(5) \o q5
           q3 == Migrate(4) \o q4
           q2 == Migrate(3) \o q3
           q1 == Migrate(2) \o q2
           q0 == Migrate(1) \o q1
           P == [n \in 0 .. 7 |-> CASE n = 7 -> <<>> [] n = 6 -> q6 [] n = 5 -> q5 [] n = 4 -> q4
                                    [] n = 3 -> q3 [] n = 2 -> q2 [] n = 1 -> q1 [] n = 0 -> q0]
           Step(f) == [n \in 0 .. 7 |-> IF n = 7 THEN <<>> ELSE Migrate(n + 1) \o f[n + 1]]
<1>1. P = Step(P)
  <2>1. P[7] = <<>> /\ P[6] = q6 /\ P[5] = q5 /\ P[4] = q4 /\ P[3] = q3 /\ P[2] = q2 /\ P[1] = q1 /\ P[0] = q0
    <3> HIDE DEF q0, q1, q2, q3, q4, q5, q6
    <3> QED OBVIOUS
  <2>2. \A n \in 0 .. 7 : P[n] = IF n = 7 THEN <<>> ELSE Migrate(n + 1) \o P[n + 1]
    <3> HIDE DEF P
    <3>1. P[6] = Migrate(7) \o P[7] /\ P[5] = Migrate(6) \o P[6] /\ P[4] = Migrate(5) \o P[5] BY <2>1
    <3>2. P[3] = Migrate(4) \o P[4] /\ P[2] = Migrate(3) \o P[3] /\ P[1] = Migrate(2) \o P[2] BY <2>1
    <3>3. P[0] = Migrate(1) \o P[1] BY <2>1
    <3> HIDE DEF q0, q1, q2, q3, q4, q5, q6
    <3>4. ASSUME NEW n \in 0 .. 6 PROVE P[n] = Migrate(n + 1) \o P[n + 1]
      <4>1. \/ n = 0 /\ n + 1 = 1
            \/ n = 1 /\ n + 1 = 2
            \/ n = 2 /\ n + 1 = 3
            \/ n = 3 /\ n + 1 = 4
            \/ n = 4 /\ n + 1 = 5
            \/ n = 5 /\ n + 1 = 6
            \/ n = 6 /\ n + 1 = 7
        OBVIOUS
      <4> QED BY <4>1, <3>1, <3>2, <3>3
    <3>5. ASSUME NEW n \in 0 .. 7 PROVE n = 7 \/ (n \in 0 .. 6 /\ n # 7) OBVIOUS
    <3> QED BY <2>1, <3>4, <3>5
  <2>3. P = [n \in 0 .. 7 |-> P[n]] OBVIOUS
  <2> HIDE DEF P
  <2> QED BY <2>2, <2>3
<1>2. Pending = CHOOSE f : f = Step(f) BY DEF Pending, CURRENT_SCHEMA_VERSION
<1> HIDE DEF P, Step
<1>3. Pending = Step(Pending) BY <1>1, <1>2
<1> DEFINE R == Pending
<1>4. R = [n \in 0 .. 7 |-> IF n = 7 THEN <<>> ELSE Migrate(n + 1) \o R[n + 1]] BY <1>3 DEF Step
<1> HIDE DEF R
<1>5. ASSUME NEW n \in 0 .. 7 PROVE R[n] = IF n = 7 THEN <<>> ELSE Migrate(n + 1) \o R[n + 1] BY <1>4
<1>6. R[7] = <<>> BY <1>5
<1>7. \A n \in 0 .. 6 : n \in 0 .. 7 /\ n # 7 OBVIOUS
<1> QED BY <1>5, <1>6, <1>7 DEF R

LEMMA ProducesAre ==
    /\ Produces(1) = {"project_profiles", "approvals", "audit_events"} /\ Produces(2) = {"conversation_sources"}
    /\ Produces(3) = {"aaak_lessons"} /\ Produces(4) = {"nodes", "tunnels"} /\ Produces(5) = {"nodes", "tunnels"}
    /\ Produces(6) = {"diary_entries", "diary_entries_fts"} /\ Produces(7) = {"outcome", "error_kind"}
<1>1. \A n \in 1 .. 7 : Produces(n) = {Batches[n][i].to : i \in 1 .. Len(Batches[n])} \ {"nodes_v2", "tunnels_v2"}
  <2> SUFFICES ASSUME NEW n \in 1 .. 7
               PROVE  Produces(n) = {Batches[n][i].to : i \in 1 .. Len(Batches[n])} \ {"nodes_v2", "tunnels_v2"}
    OBVIOUS
  <2>1. Batches[n] \in Seq(ChangeOf) BY MigrateIs
  <2>2. DOMAIN Batches[n] = 1 .. Len(Batches[n]) BY <2>1
  <2> QED BY <2>2 DEF Produces
<1>2. Produces(1) = {"project_profiles", "approvals", "audit_events"}
  <2>1. Batch1[1].to = "project_profiles" /\ Batch1[2].to = "approvals" /\ Batch1[3].to = "audit_events"
    BY DEF Batch1, Exists, Sql
  <2>2. Produces(1) = {Batch1[i].to : i \in 1 .. 3} \ {"nodes_v2", "tunnels_v2"}
    <3>1. Batches[1] = Batch1 /\ Len(Batches[1]) = 3 /\ 1 \in 1 .. 7 BY BatchesAre
    <3>2. Produces(1) = {Batches[1][i].to : i \in 1 .. Len(Batches[1])} \ {"nodes_v2", "tunnels_v2"}
      BY <1>1, <3>1
    <3> QED BY <3>1, <3>2
  <2>3. 1 .. 3 = {1, 2, 3} OBVIOUS
  <2> QED BY <2>1, <2>2, <2>3
<1>3. Produces(2) = {"conversation_sources"}
  <2>1. Batch2[1].to = "conversation_sources"
    BY DEF Batch2, Exists, Sql
  <2>2. Produces(2) = {Batch2[i].to : i \in 1 .. 1} \ {"nodes_v2", "tunnels_v2"}
    <3>1. Batches[2] = Batch2 /\ Len(Batches[2]) = 1 /\ 2 \in 1 .. 7 BY BatchesAre
    <3>2. Produces(2) = {Batches[2][i].to : i \in 1 .. Len(Batches[2])} \ {"nodes_v2", "tunnels_v2"}
      BY <1>1, <3>1
    <3> QED BY <3>1, <3>2
  <2>3. 1 .. 1 = {1} OBVIOUS
  <2> QED BY <2>1, <2>2, <2>3
<1>4. Produces(3) = {"aaak_lessons"}
  <2>1. Batch3[1].to = "aaak_lessons"
    BY DEF Batch3, Exists, Sql
  <2>2. Produces(3) = {Batch3[i].to : i \in 1 .. 1} \ {"nodes_v2", "tunnels_v2"}
    <3>1. Batches[3] = Batch3 /\ Len(Batches[3]) = 1 /\ 3 \in 1 .. 7 BY BatchesAre
    <3>2. Produces(3) = {Batches[3][i].to : i \in 1 .. Len(Batches[3])} \ {"nodes_v2", "tunnels_v2"}
      BY <1>1, <3>1
    <3> QED BY <3>1, <3>2
  <2>3. 1 .. 1 = {1} OBVIOUS
  <2> QED BY <2>1, <2>2, <2>3
<1>5. Produces(4) = {"nodes", "tunnels"}
  <2>1. Batch4[1].to = "nodes" /\ Batch4[2].to = "tunnels"
    BY DEF Batch4, Exists, Sql
  <2>2. Produces(4) = {Batch4[i].to : i \in 1 .. 2} \ {"nodes_v2", "tunnels_v2"}
    <3>1. Batches[4] = Batch4 /\ Len(Batches[4]) = 2 /\ 4 \in 1 .. 7 BY BatchesAre
    <3>2. Produces(4) = {Batches[4][i].to : i \in 1 .. Len(Batches[4])} \ {"nodes_v2", "tunnels_v2"}
      BY <1>1, <3>1
    <3> QED BY <3>1, <3>2
  <2>3. 1 .. 2 = {1, 2} OBVIOUS
  <2> QED BY <2>1, <2>2, <2>3
<1>6. Produces(5) = {"nodes", "tunnels"}
  <2>1. Batch5[1].to = "nodes_v2" /\ Batch5[2].to = "nodes_v2" /\ Batch5[3].to = "tunnels_v2" /\ Batch5[4].to = "tunnels_v2" /\ Batch5[5].to = "tunnels" /\ Batch5[6].to = "nodes" /\ Batch5[7].to = "nodes" /\ Batch5[8].to = "tunnels"
    BY DEF Batch5, Create, Copy, Drop, Rename, Sql
  <2>2. Produces(5) = {Batch5[i].to : i \in 1 .. 8} \ {"nodes_v2", "tunnels_v2"}
    <3>1. Batches[5] = Batch5 /\ Len(Batches[5]) = 8 /\ 5 \in 1 .. 7 BY BatchesAre
    <3>2. Produces(5) = {Batches[5][i].to : i \in 1 .. Len(Batches[5])} \ {"nodes_v2", "tunnels_v2"}
      BY <1>1, <3>1
    <3> QED BY <3>1, <3>2
  <2>3. 1 .. 8 = {1, 2, 3, 4, 5, 6, 7, 8} OBVIOUS
  <2> QED BY <2>1, <2>2, <2>3
<1>7. Produces(6) = {"diary_entries", "diary_entries_fts"}
  <2>1. Batch6[1].to = "diary_entries" /\ Batch6[2].to = "diary_entries_fts"
    BY DEF Batch6, Exists, Sql
  <2>2. Produces(6) = {Batch6[i].to : i \in 1 .. 2} \ {"nodes_v2", "tunnels_v2"}
    <3>1. Batches[6] = Batch6 /\ Len(Batches[6]) = 2 /\ 6 \in 1 .. 7 BY BatchesAre
    <3>2. Produces(6) = {Batches[6][i].to : i \in 1 .. Len(Batches[6])} \ {"nodes_v2", "tunnels_v2"}
      BY <1>1, <3>1
    <3> QED BY <3>1, <3>2
  <2>3. 1 .. 2 = {1, 2} OBVIOUS
  <2> QED BY <2>1, <2>2, <2>3
<1>8. Produces(7) = {"outcome", "error_kind"}
  <2>1. Batch7[1].to = "outcome" /\ Batch7[2].to = "error_kind"
    BY DEF Batch7, AddColumn, Sql
  <2>2. Produces(7) = {Batch7[i].to : i \in 1 .. 2} \ {"nodes_v2", "tunnels_v2"}
    <3>1. Batches[7] = Batch7 /\ Len(Batches[7]) = 2 /\ 7 \in 1 .. 7 BY BatchesAre
    <3>2. Produces(7) = {Batches[7][i].to : i \in 1 .. Len(Batches[7])} \ {"nodes_v2", "tunnels_v2"}
      BY <1>1, <3>1
    <3> QED BY <3>1, <3>2
  <2>3. 1 .. 2 = {1, 2} OBVIOUS
  <2> QED BY <2>1, <2>2, <2>3
<1> QED BY <1>2, <1>3, <1>4, <1>5, <1>6, <1>7, <1>8

LEMMA LeftIs ==
    /\ \A n \in 0 .. 8 : Left(n) \subseteq SqlOf
    /\ \A n \in 1 .. 7 : Migrate(n) \in Seq(Left(n)) /\ Left(n + 1) \subseteq Left(n)
    /\ \A n \in 0 .. 7 : Pending[n] \in Seq(Left(n + 1))
<1>1. ASSUME NEW n \in 0 .. 8 PROVE Left(n) \subseteq SqlOf
  <2>1. \A m \in n .. 7 : m \in 0 .. 7 OBVIOUS
  <2>2. \A m \in n .. 7 : Record(m) \in SqlOf BY <2>1, SqlOfIs
  <2>3. ChangeOf \subseteq SqlOf BY SqlOfIs
  <2> QED BY <2>2, <2>3 DEF Left
<1>2. ASSUME NEW n \in 1 .. 7 PROVE Migrate(n) \in Seq(Left(n)) /\ Left(n + 1) \subseteq Left(n)
  <2>1. Left(n + 1) \subseteq Left(n) BY DEF Left
  <2>2. /\ Migrate(n) \in Seq(SqlOf) /\ Len(Migrate(n)) = Len(Batches[n]) + 1 /\ Len(Batches[n]) \in 1 .. 8
        /\ Migrate(n)[Len(Batches[n]) + 1] = Record(n)
        /\ \A j \in 1 .. Len(Batches[n]) : Migrate(n)[j] \in ChangeOf
    BY MigrateIs
  <2>3. \A j \in 1 .. Len(Migrate(n)) : Migrate(n)[j] \in Left(n)
    <3>1. ASSUME NEW j \in 1 .. Len(Migrate(n)) PROVE j = Len(Batches[n]) + 1 \/ j \in 1 .. Len(Batches[n])
      BY <2>2
    <3> QED BY <2>2, <3>1 DEF Left
  <2>4. Migrate(n) = [j \in 1 .. Len(Migrate(n)) |-> Migrate(n)[j]] /\ Len(Migrate(n)) \in Nat BY <2>2
  <2> QED BY <2>1, <2>3, <2>4
<1>3. \A n \in 0 .. 6 : n + 1 \in 1 .. 7 /\ (n + 1) + 1 = n + 2 OBVIOUS
<1>4. ASSUME NEW n \in 0 .. 6, Pending[n + 1] \in Seq(Left(n + 2)) PROVE Pending[n] \in Seq(Left(n + 1))
  <2>1. Migrate(n + 1) \in Seq(Left(n + 1)) /\ Left(n + 2) \subseteq Left(n + 1) BY <1>2, <1>3
  <2>2. Pending[n + 1] \in Seq(Left(n + 1)) BY <1>4, <2>1
  <2>3. Pending[n] = Migrate(n + 1) \o Pending[n + 1] BY PendingIs
  <2> QED BY <2>1, <2>2, <2>3, Joined
<1>5. Pending[7] \in Seq(Left(8)) BY PendingIs
<1> DEFINE IsList(n) == Pending[n] \in Seq(Left(n + 1))
<1>6. \A n \in 0 .. 6 : IsList(n + 1) => IsList(n) BY <1>3, <1>4
<1>7. IsList(7) BY <1>5
<1> HIDE DEF IsList
<1>8. IsList(6) BY <1>6, <1>7
<1>9. IsList(5) BY <1>6, <1>8
<1>10. IsList(4) BY <1>6, <1>9
<1>11. IsList(3) BY <1>6, <1>10
<1>12. IsList(2) BY <1>6, <1>11
<1>13. IsList(1) BY <1>6, <1>12
<1>14. IsList(0) BY <1>6, <1>13
<1>15. \A n \in 0 .. 7 : IsList(n) BY <1>7, <1>8, <1>9, <1>10, <1>11, <1>12, <1>13, <1>14
<1> QED BY <1>1, <1>2, <1>15 DEF IsList

(* The next statement of a batch, and what is left after it.                *)
LEMMA RestIs ==
    ASSUME NEW n \in 1 .. 7, NEW j \in 0 .. Len(Batches[n])
    PROVE  /\ Rest(n, j) \in Seq(Left(n)) /\ Rest(n, j) # <<>>
           /\ Record(n) \in {Rest(n, j)[i] : i \in DOMAIN Rest(n, j)}
           /\ j < Len(Batches[n]) => Head(Rest(n, j)) = Batches[n][j + 1] /\ Tail(Rest(n, j)) = Rest(n, j + 1)
           /\ j = Len(Batches[n]) => Head(Rest(n, j)) = Record(n) /\ Tail(Rest(n, j)) = Pending[n]
<1> DEFINE s == Migrate(n)
           t == Pending[n]
           k == Len(Batches[n])
<1>1. /\ k \in 1 .. 8 /\ Len(s) = k + 1 /\ s[k + 1] = Record(n)
      /\ \A i \in 1 .. k : s[i] = Batches[n][i]
  BY MigrateIs
<1>2. s \in Seq(Left(n)) /\ t \in Seq(Left(n))
  <2>1. n \in 0 .. 7 OBVIOUS
  <2>2. t \in Seq(Left(n + 1)) /\ Left(n + 1) \subseteq Left(n) /\ s \in Seq(Left(n)) BY <2>1, LeftIs
  <2> HIDE DEF s, t
  <2> QED BY <2>2
<1> DEFINE rest == After(s, j, t)
<1>3. j \in 0 .. Len(s) - 1 BY <1>1
<1>4. /\ rest \in Seq(Left(n)) /\ rest # <<>> /\ Head(rest) = s[j + 1]
      /\ Tail(rest) = IF j + 1 < Len(s) THEN After(s, j + 1, t) ELSE t
      /\ Len(rest) = Len(s) - j + Len(t)
      /\ \A i \in 1 .. Len(s) - j : rest[i] = s[j + i]
  <2> HIDE DEF s, t
  <2> DEFINE S == Left(n)
  <2>1. s \in Seq(S) /\ t \in Seq(S) /\ j \in 0 .. Len(s) - 1 BY <1>2, <1>3
  <2> HIDE DEF S
  <2>2. Leaves(S, s, j, t) BY <2>1, Leaving
  <2> QED BY <2>2 DEF S, Leaves
<1>5. rest = Rest(n, j) BY DEF Rest
<1>6. After(s, j + 1, t) = Rest(n, j + 1) BY DEF Rest
<1>7. Record(n) \in {rest[i] : i \in DOMAIN rest}
  <2> HIDE DEF s, t, rest
  <2>1. Len(t) \in Nat BY <1>2
  <2>2. Len(s) - j \in 1 .. Len(s) - j /\ j + (Len(s) - j) = k + 1 BY <1>1, <1>3
  <2>3. rest[Len(s) - j] = Record(n) BY <1>1, <1>4, <2>2
  <2>4. DOMAIN rest = 1 .. Len(rest) BY <1>4
  <2>5. Len(s) - j \in DOMAIN rest BY <1>4, <2>1, <2>2, <2>4
  <2> QED BY <2>3, <2>5
<1> HIDE DEF s, t, rest
<1>8. CASE j < k
  <2>1. j + 1 < Len(s) /\ j + 1 \in 1 .. k /\ j # k BY <1>1, <1>8
  <2>2. Head(rest) = Batches[n][j + 1] BY <1>1, <1>4, <2>1
  <2> QED BY <1>4, <1>5, <1>6, <1>7, <2>1, <2>2
<1>9. CASE j = k
  <2>1. ~(j + 1 < Len(s)) /\ j + 1 = k + 1 BY <1>1, <1>9
  <2>2. Tail(rest) = t BY <1>4, <2>1
  <2>3. Head(rest) = Record(n) BY <1>1, <1>4, <2>1
  <2> QED BY <1>1, <1>4, <1>5, <1>7, <1>9, <2>2, <2>3 DEF t
<1>10. j < k \/ j = k BY <1>1
<1> QED BY <1>8, <1>9, <1>10

LEMMA PendingIsRest == ASSUME NEW n \in 0 .. 6 PROVE Pending[n] = Rest(n + 1, 0)
<1>1. n + 1 \in 1 .. 7 OBVIOUS
<1>2. Migrate(n + 1) \in Seq(SqlOf) BY <1>1, MigrateIs
<1> DEFINE s == Migrate(n + 1)
<1>3. SubSeq(s, 1, Len(s)) = s
  <2> HIDE DEF s
  <2>1. s \in Seq(SqlOf) BY <1>2 DEF s
  <2>2. /\ SubSeq(s, 1, Len(s)) \in Seq(SqlOf) /\ Len(SubSeq(s, 1, Len(s))) = Len(s)
        /\ \A i \in 1 .. Len(s) : SubSeq(s, 1, Len(s))[i] = s[i]
    BY <2>1
  <2> QED BY <2>1, <2>2, SameList
<1>4. 0 + 1 = 1 OBVIOUS
<1> QED BY <1>3, <1>4, PendingIs DEF Rest, After

(* An opener that stops, stops in the batch it was in.                      *)
LEMMA BatchOfRest ==
    ASSUME NEW n \in 1 .. 7, NEW j \in 0 .. Len(Batches[n])
    PROVE  BatchOf(Rest(n, j)) = n
<1> DEFINE items == {Rest(n, j)[i] : i \in DOMAIN Rest(n, j)}
<1>1. Record(n) \in items /\ Rest(n, j) \in Seq(Left(n)) BY RestIs
<1>2. items \subseteq Left(n) BY <1>1
<1> HIDE DEF items
<1>3. ASSUME NEW m \in 0 .. 7, m < n PROVE Record(m) \notin items
  <2>1. Record(m).does = "record" /\ Record(m).on = m BY DEF Record, Sql
  <2>2. Record(m) \notin ChangeOf BY <2>1 DEF ChangeOf, Changes
  <2>3. \A k \in n .. 7 : Record(k).on = k BY DEF Record, Sql
  <2>4. \A k \in n .. 7 : k # m BY <1>3
  <2>5. \A k \in n .. 7 : Record(k) # Record(m) BY <2>1, <2>3, <2>4
  <2> QED BY <1>2, <2>2, <2>5 DEF Left
<1> DEFINE Is(k) == Record(k) \in items /\ \A m \in 0 .. k - 1 : Record(m) \notin items
<1>4. Is(n)
  <2>1. \A m \in 0 .. n - 1 : m \in 0 .. 7 /\ m < n OBVIOUS
  <2> QED BY <1>1, <1>3, <2>1
<1>5. ASSUME NEW k \in 0 .. 7, Is(k) PROVE k = n
  <2>1. k < n \/ k = n \/ n \in 0 .. k - 1 OBVIOUS
  <2> QED BY <1>1, <1>3, <1>5, <2>1
<1>6. n \in 0 .. 7 OBVIOUS
<1>7. BatchOf(Rest(n, j)) = CHOOSE k \in 0 .. 7 : Is(k) BY DEF BatchOf, items
<1> HIDE DEF Is
<1> QED BY <1>4, <1>5, <1>6, <1>7

-----------------------------------------------------------------------------
(* What each statement does to the schema.                                  *)
LEMMA SetRowsIs ==
    ASSUME NEW s \in Schema, NEW t, NEW rows \in SUBSET OldRows
    PROVE  /\ SetRows(s, t, rows) \in Schema /\ RowsOf(s, t) \subseteq OldRows
           /\ SetRows(s, t, rows).tables = s.tables /\ SetRows(s, t, rows).versions = s.versions
           /\ SetRows(s, t, rows).nodes = IF t = "nodes" THEN rows ELSE s.nodes
           /\ SetRows(s, t, rows).nodes_v2 = IF t = "nodes_v2" THEN rows ELSE s.nodes_v2
BY DEF SetRows, RowsOf, Schema

Alters(s, e, tables, old, new) ==
    /\ e \in Schema /\ e.tables = tables /\ e.versions = s.versions
    /\ e.nodes = old /\ e.nodes_v2 = new

LEMMA CreateDoes ==
    ASSUME NEW s \in Schema, NEW q, q.does = "create" \/ q.does = "create if not exists", q.on \in Tables
    PROVE  /\ Alters(s, Effect(s, q), s.tables \union {q.on}, s.nodes, s.nodes_v2)
           /\ q.does = "create if not exists" => ~Fails(s, q)
           /\ q.does = "create" /\ q.on \notin s.tables => ~Fails(s, q)
BY DEF Effect, Schema, Fails, Alters

LEMMA RecordDoes ==
    ASSUME NEW s \in Schema, NEW n \in 0 .. 7
    PROVE  /\ Effect(s, Record(n)) = [s EXCEPT !.versions = @ \union {n}]
           /\ Effect(s, Record(n)) \in Schema /\ Effect(s, Record(n)).tables = s.tables
           /\ Effect(s, Record(n)).versions = s.versions \union {n}
           /\ Effect(s, Record(n)).nodes = s.nodes /\ Effect(s, Record(n)).nodes_v2 = s.nodes_v2
           /\ Fails(s, Record(n)) <=> n \in s.versions
<1>1. Record(n).does = "record" /\ Record(n).on = n BY DEF Record, Sql
<1>2. Effect(s, Record(n)) = [s EXCEPT !.versions = @ \union {n}] BY <1>1 DEF Effect
<1>3. Fails(s, Record(n)) <=> n \in s.versions BY <1>1 DEF Fails
<1> QED BY <1>2, <1>3 DEF Schema

LEMMA CopyDoes ==
    ASSUME NEW s \in Schema, NEW q, q.does = "copy"
    PROVE  /\ Effect(s, q) \in Schema
           /\ q.on = "nodes" /\ q.to = "nodes_v2" =>
                 /\ Alters(s, Effect(s, q), s.tables, s.nodes, s.nodes_v2 \union s.nodes)
                 /\ {"nodes", "nodes_v2"} \subseteq s.tables /\ s.nodes_v2 = {} => ~Fails(s, q)
                 /\ ~Fails(s, q) => "nodes_v2" \in s.tables
           /\ q.on = "tunnels" /\ q.to = "tunnels_v2" =>
                 /\ Alters(s, Effect(s, q), s.tables, s.nodes, s.nodes_v2)
                 /\ {"tunnels", "tunnels_v2"} \subseteq s.tables => ~Fails(s, q)
<1>1. Effect(s, q) = SetRows(s, q.to, RowsOf(s, q.to) \union RowsOf(s, q.on)) BY DEF Effect
<1>2. RowsOf(s, q.to) \union RowsOf(s, q.on) \in SUBSET OldRows BY DEF RowsOf, Schema
<1>3. /\ Effect(s, q) \in Schema
      /\ Effect(s, q).tables = s.tables /\ Effect(s, q).versions = s.versions
      /\ Effect(s, q).nodes = IF q.to = "nodes" THEN RowsOf(s, q.to) \union RowsOf(s, q.on) ELSE s.nodes
      /\ Effect(s, q).nodes_v2 = IF q.to = "nodes_v2" THEN RowsOf(s, q.to) \union RowsOf(s, q.on) ELSE s.nodes_v2
  BY <1>1, <1>2, SetRowsIs
<1>4. Fails(s, q) <=> \/ {q.on, q.to} \ s.tables # {}
                      \/ q.to = "nodes_v2" /\ RowsOf(s, q.on) \cap RowsOf(s, q.to) # {}
  BY DEF Fails
<1>5. RowsOf(s, "nodes") = s.nodes /\ RowsOf(s, "nodes_v2") = s.nodes_v2 BY DEF RowsOf
<1> QED BY <1>3, <1>4, <1>5 DEF Alters

LEMMA DropDoes ==
    ASSUME NEW s \in Schema, NEW q, q.does = "drop"
    PROVE  /\ Alters(s, Effect(s, q), s.tables \ {q.on}, IF q.on = "nodes" THEN {} ELSE s.nodes,
                  IF q.on = "nodes_v2" THEN {} ELSE s.nodes_v2)
           /\ q.on \in s.tables => ~Fails(s, q)
<1> DEFINE e == [s EXCEPT !.tables = @ \ {q.on}]
<1>1. /\ e \in Schema /\ e.tables = s.tables \ {q.on} /\ e.versions = s.versions
      /\ e.nodes = s.nodes /\ e.nodes_v2 = s.nodes_v2
  BY DEF Schema
<1>2. Effect(s, q) = SetRows(e, q.on, {}) BY DEF Effect
<1>3. Fails(s, q) <=> q.on \notin s.tables BY DEF Fails
<1> HIDE DEF e
<1>4. {} \in SUBSET OldRows OBVIOUS
<1> QED BY <1>1, <1>2, <1>3, <1>4, SetRowsIs DEF Alters

LEMMA RenameDoes ==
    ASSUME NEW s \in Schema, NEW q, q.does = "rename", q.to \in Tables
    PROVE  /\ Effect(s, q) \in Schema
           /\ q.on = "nodes_v2" /\ q.to = "nodes" =>
                 Alters(s, Effect(s, q), (s.tables \ {q.on}) \union {q.to}, s.nodes_v2, {})
           /\ q.on = "tunnels_v2" /\ q.to = "tunnels" =>
                 Alters(s, Effect(s, q), (s.tables \ {q.on}) \union {q.to}, s.nodes, s.nodes_v2)
           /\ Fails(s, q) <=> q.on \notin s.tables \/ q.to \in s.tables
<1> DEFINE e == [s EXCEPT !.tables = (@ \ {q.on}) \union {q.to}]
           f == SetRows(e, q.to, RowsOf(s, q.on))
<1>1. /\ e \in Schema /\ e.tables = (s.tables \ {q.on}) \union {q.to} /\ e.versions = s.versions
      /\ e.nodes = s.nodes /\ e.nodes_v2 = s.nodes_v2
  BY DEF Schema
<1>2. Effect(s, q) = SetRows(f, q.on, {}) BY DEF Effect
<1>3. Fails(s, q) <=> q.on \notin s.tables \/ q.to \in s.tables BY DEF Fails
<1>4. {} \in SUBSET OldRows /\ RowsOf(s, q.on) \in SUBSET OldRows BY SetRowsIs
<1> HIDE DEF e
<1>5. /\ f \in Schema /\ f.tables = e.tables /\ f.versions = e.versions
      /\ f.nodes = IF q.to = "nodes" THEN RowsOf(s, q.on) ELSE e.nodes
      /\ f.nodes_v2 = IF q.to = "nodes_v2" THEN RowsOf(s, q.on) ELSE e.nodes_v2
  BY <1>1, <1>4, SetRowsIs
<1> HIDE DEF f
<1>6. /\ Effect(s, q) \in Schema /\ Effect(s, q).tables = f.tables /\ Effect(s, q).versions = f.versions
      /\ Effect(s, q).nodes = IF q.on = "nodes" THEN {} ELSE f.nodes
      /\ Effect(s, q).nodes_v2 = IF q.on = "nodes_v2" THEN {} ELSE f.nodes_v2
  BY <1>2, <1>4, <1>5, SetRowsIs
<1>7. RowsOf(s, "nodes_v2") = s.nodes_v2 BY DEF RowsOf
<1> QED BY <1>1, <1>3, <1>5, <1>6, <1>7 DEF Alters

LEMMA EffectIs ==
    ASSUME NEW s \in Schema, NEW q \in SqlOf, q.does # "file", q.does # "check"
    PROVE  Effect(s, q) \in Schema
<1>1. CASE q \in ChangeOf
  <2>1. q.does \in Changes /\ q.on \in Tables /\ q.to \in Tables BY <1>1 DEF ChangeOf
  <2>2. CASE q.does = "create" \/ q.does = "create if not exists"
    <3>1. Alters(s, Effect(s, q), s.tables \union {q.on}, s.nodes, s.nodes_v2) BY <2>1, <2>2, CreateDoes
    <3> QED BY <3>1 DEF Alters
  <2>3. CASE q.does = "copy" BY <2>1, <2>3, CopyDoes
  <2>4. CASE q.does = "drop" BY <2>1, <2>4, DropDoes DEF Alters
  <2>5. CASE q.does = "rename" BY <2>1, <2>5, RenameDoes
  <2> QED BY <2>1, <2>2, <2>3, <2>4, <2>5 DEF Changes
<1>2. CASE q \in MarkOf
  <2>1. q.does = "record" /\ q.on \in 0 .. 7 BY <1>2 DEF MarkOf, Marks
  <2>2. Effect(s, q) = [s EXCEPT !.versions = @ \union {q.on}] BY <2>1 DEF Effect
  <2> QED BY <2>1, <2>2 DEF Schema
<1>3. CASE q = Host
  <2>1. q.does = "create if not exists" /\ q.on = "vector" BY <1>3 DEF Host, Sql
  <2>2. q.on \in Tables /\ (q.does = "create" \/ q.does = "create if not exists") BY <2>1 DEF Tables
  <2>3. Alters(s, Effect(s, q), s.tables \union {q.on}, s.nodes, s.nodes_v2) BY <2>2, CreateDoes
  <2> QED BY <2>3 DEF Alters
<1> QED BY <1>1, <1>2, <1>3 DEF SqlOf

-----------------------------------------------------------------------------
(* A batch of SQLite, statement by statement.                               *)
Is(q, does, on, to) == q.does = does /\ q.on = on /\ q.to = to

LEMMA FifthIs ==
    /\ Is(Batches[5][1], "create", "nodes_v2", "nodes_v2") /\ Is(Batches[5][2], "copy", "nodes", "nodes_v2")
    /\ Is(Batches[5][3], "create", "tunnels_v2", "tunnels_v2") /\ Is(Batches[5][4], "copy", "tunnels", "tunnels_v2")
    /\ Is(Batches[5][5], "drop", "tunnels", "tunnels") /\ Is(Batches[5][6], "drop", "nodes", "nodes")
    /\ Is(Batches[5][7], "rename", "nodes_v2", "nodes") /\ Is(Batches[5][8], "rename", "tunnels_v2", "tunnels")
<1>1. Batches[5] = Batch5 BY BatchesAre
<1>2. /\ Is(Batch5[1], "create", "nodes_v2", "nodes_v2") /\ Is(Batch5[2], "copy", "nodes", "nodes_v2")
      /\ Is(Batch5[3], "create", "tunnels_v2", "tunnels_v2") /\ Is(Batch5[4], "copy", "tunnels", "tunnels_v2")
  BY DEF Is, Batch5, Create, Copy, Sql
<1>3. /\ Is(Batch5[5], "drop", "tunnels", "tunnels") /\ Is(Batch5[6], "drop", "nodes", "nodes")
      /\ Is(Batch5[7], "rename", "nodes_v2", "nodes") /\ Is(Batch5[8], "rename", "tunnels_v2", "tunnels")
  BY DEF Is, Batch5, Drop, Rename, Sql
<1> QED BY <1>1, <1>2, <1>3

LEMMA SeventhIs ==
    Is(Batches[7][1], "create", "outcome", "outcome") /\ Is(Batches[7][2], "create", "error_kind", "error_kind")
<1>1. Batches[7] = Batch7 BY BatchesAre
<1>2. Is(Batch7[1], "create", "outcome", "outcome") /\ Is(Batch7[2], "create", "error_kind", "error_kind")
  BY DEF Is, Batch7, AddColumn, Sql
<1> QED BY <1>1, <1>2

Once == {"nodes_v2", "tunnels_v2", "outcome", "error_kind"}   \* made by statements that run only once

LEMMA OthersAre ==
    ASSUME NEW n \in 1 .. 7, n # 5, n # 7, NEW i \in 1 .. Len(Batches[n])
    PROVE  /\ Batches[n][i].does = "create if not exists" /\ Batches[n][i].on = Batches[n][i].to
           /\ Batches[n][i].on \in Tables \ Once
<1> DEFINE Good(q) == q.does = "create if not exists" /\ q.on = q.to /\ q.on \in Tables \ Once
<1>1. \A t \in Tables \ Once : Good(Exists(t)) BY DEF Exists, Sql
<1>2. \A t \in {"project_profiles", "approvals", "audit_events", "conversation_sources", "aaak_lessons",
                "nodes", "tunnels", "diary_entries", "diary_entries_fts"} : t \in Tables \ Once
  BY DEF Tables, Once
<1>3. \A t \in {"project_profiles", "approvals", "audit_events", "conversation_sources", "aaak_lessons",
                "nodes", "tunnels", "diary_entries", "diary_entries_fts"} : Good(Exists(t))
  BY <1>1, <1>2
<1> HIDE DEF Good
<1>4. Good(Batch1[1]) /\ Good(Batch1[2]) /\ Good(Batch1[3]) BY <1>3 DEF Batch1
<1>5. Good(Batch2[1]) /\ Good(Batch3[1]) BY <1>3 DEF Batch2, Batch3
<1>6. Good(Batch4[1]) /\ Good(Batch4[2]) BY <1>3 DEF Batch4
<1>7. Good(Batch6[1]) /\ Good(Batch6[2]) BY <1>3 DEF Batch6
<1>8. n = 1 \/ n = 2 \/ n = 3 \/ n = 4 \/ n = 6 OBVIOUS
<1>9. CASE n = 1
  <2>1. Batches[n] = Batch1 /\ Len(Batches[n]) = 3 BY <1>9, BatchesAre
  <2>2. i = 1 \/ i = 2 \/ i = 3 BY <2>1
  <2> QED BY <1>4, <2>1, <2>2 DEF Good
<1>10. CASE n = 2 \/ n = 3
  <2>1. (Batches[n] = Batch2 \/ Batches[n] = Batch3) /\ Len(Batches[n]) = 1 BY <1>10, BatchesAre
  <2>2. i = 1 BY <2>1
  <2> QED BY <1>5, <2>1, <2>2 DEF Good
<1>11. CASE n = 4 \/ n = 6
  <2>1. (Batches[n] = Batch4 \/ Batches[n] = Batch6) /\ Len(Batches[n]) = 2 BY <1>11, BatchesAre
  <2>2. i = 1 \/ i = 2 BY <2>1
  <2> QED BY <1>6, <1>7, <2>1, <2>2 DEF Good
<1> QED BY <1>8, <1>9, <1>10, <1>11

(* What a statement leaves alone.                                           *)
Fifth == {"nodes", "tunnels", "nodes_v2", "tunnels_v2"}

LEMMA BatchesStay ==
    ASSUME NEW v \in 0 .. 6, SchemaAt(v), schema'.versions = schema.versions,
           schema.tables \subseteq schema'.tables \/ (v = 4 /\ schema.tables \ Fifth \subseteq schema'.tables)
    PROVE  /\ schema'.versions = 1 .. v
           /\ \A i \in 1 .. v : Produces(i) \subseteq schema'.tables \/ (i = 4 /\ v = 4)
<1>1. schema'.versions = 1 .. v BY DEF SchemaAt
<1>2. ASSUME NEW i \in 1 .. v PROVE Produces(i) \subseteq schema'.tables \/ (i = 4 /\ v = 4)
  <2>1. Produces(i) \subseteq schema.tables \/ (i = 4 /\ v = 4) BY DEF SchemaAt
  <2>2. CASE schema.tables \subseteq schema'.tables BY <2>1, <2>2
  <2>3. CASE v = 4 /\ schema.tables \ Fifth \subseteq schema'.tables
    <3>1. i = 1 \/ i = 2 \/ i = 3 \/ i = 4 BY <2>3
    <3>2. Produces(1) \cap Fifth = {} /\ Produces(2) \cap Fifth = {} /\ Produces(3) \cap Fifth = {}
      BY ProducesAre DEF Fifth
    <3>3. i # 4 => Produces(i) \cap Fifth = {} BY <3>1, <3>2
    <3> QED BY <2>1, <2>3, <3>3
  <2> QED BY <2>2, <2>3
<1> QED BY <1>1, <1>2

LEMMA SameTables ==
    ASSUME NEW v \in 0 .. 6, SchemaAt(v), schema'.versions = schema.versions, saved' = saved,
           schema.tables \subseteq schema'.tables \/ (v = 4 /\ schema.tables \ Fifth \subseteq schema'.tables),
           "nodes" \notin schema'.tables => schema'.nodes = {},
           "nodes_v2" \notin schema'.tables => schema'.nodes_v2 = {},
           schema.nodes \union schema.nodes_v2 \subseteq schema'.nodes \union schema'.nodes_v2
    PROVE  SchemaAt(v)'
<1>1. /\ schema'.versions = 1 .. v
      /\ \A i \in 1 .. v : Produces(i) \subseteq schema'.tables \/ (i = 4 /\ v = 4)
  BY BatchesStay
<1>2. saved' \subseteq schema'.nodes \union schema'.nodes_v2 BY DEF SchemaAt
<1> QED BY <1>1, <1>2 DEF SchemaAt, Produces

Advances(v, j) == SchemaAt(v) /\ Executed(schema, v + 1, j) /\ (Torn \/ Untorn(schema, v + 1, j))
LEMMA CreatesNext ==
    ASSUME NEW v \in 0 .. 6, v # 4, NEW j \in 0 .. Len(Batches[v + 1]) - 1
    PROVE  /\ Batches[v + 1][j + 1].does = "create" \/ Batches[v + 1][j + 1].does = "create if not exists"
           /\ Batches[v + 1][j + 1].on \in Tables
           /\ v < 6 => Batches[v + 1][j + 1].does = "create if not exists" /\ Batches[v + 1][j + 1].on \notin Once
           /\ v = 6 => \/ j = 0 /\ Batches[v + 1][j + 1].on = "outcome"
                       \/ j = 1 /\ Batches[v + 1][j + 1].on = "error_kind"
<1>1. v + 1 \in 1 .. 7 /\ v + 1 # 5 /\ Len(Batches[v + 1]) \in 1 .. 8
  <2>1. v + 1 \in 1 .. 7 /\ v + 1 # 5 OBVIOUS
  <2> QED BY <2>1, MigrateIs
<1>2. j + 1 \in 1 .. Len(Batches[v + 1]) BY <1>1
<1>3. CASE v = 6
  <2>1. Len(Batches[7]) = 2 BY BatchesAre
  <2>2. v + 1 = 7 /\ ~(v < 6) BY <1>3
  <2>3. (j = 0 /\ j + 1 = 1) \/ (j = 1 /\ j + 1 = 2)
    <3>1. Batches[v + 1] = Batches[7] BY <2>2
    <3>2. Len(Batches[v + 1]) - 1 = 1 BY <2>1, <3>1
    <3>3. j \in 0 .. 1 BY <3>2
    <3> QED BY <3>3
  <2>4. "outcome" \in Tables /\ "error_kind" \in Tables BY DEF Tables
  <2> DEFINE q == Batches[v + 1][j + 1]
  <2>5. \/ j = 0 /\ q = Batches[7][1] /\ q.does = "create" /\ q.on = "outcome"
        \/ j = 1 /\ q = Batches[7][2] /\ q.does = "create" /\ q.on = "error_kind"
    BY <2>2, <2>3, SeventhIs DEF Is
  <2> HIDE DEF q
  <2>6. /\ q.does = "create" /\ q.on \in Tables
        /\ (j = 0 /\ q.on = "outcome") \/ (j = 1 /\ q.on = "error_kind")
    BY <2>4, <2>5
  <2> QED BY <2>2, <2>6 DEF q
<1>4. CASE v # 6
  <2>1. v + 1 # 7 BY <1>4
  <2> DEFINE q == Batches[v + 1][j + 1]
  <2>2. q.does = "create if not exists" /\ q.on \in Tables \ Once BY <1>1, <1>2, <2>1, OthersAre
  <2> QED BY <1>4, <2>2
<1> QED BY <1>3, <1>4

(* A statement of a batch other than 5 makes what it makes, or fails torn.  *)
LEMMA CreatesAdvance ==
    ASSUME NEW v \in 0 .. 6, v # 4, NEW j \in 0 .. Len(Batches[v + 1]) - 1, Advances(v, j), schema \in Schema
    PROVE  /\ Fails(schema, Batches[v + 1][j + 1]) => Torn
           /\ schema' = Effect(schema, Batches[v + 1][j + 1]) /\ torn' = torn /\ saved' = saved =>
                 schema' \in Schema /\ Advances(v, j + 1)'
<1> DEFINE q == Batches[v + 1][j + 1]
           n == v + 1
<1>1. /\ q.does = "create" \/ q.does = "create if not exists"
      /\ q.on \in Tables
      /\ v < 6 => q.does = "create if not exists" /\ q.on \notin Once
      /\ v = 6 => (j = 0 /\ q.on = "outcome") \/ (j = 1 /\ q.on = "error_kind")
  BY CreatesNext
<1>2. n \in 1 .. 7 /\ n # 5 /\ j \in Nat /\ (n < 7 <=> v < 6) /\ (n = 7 <=> v = 6) /\ (v < 6 \/ v = 6) OBVIOUS
<1>3. SchemaAt(v) /\ (\A i \in 1 .. j : Batches[n][i].on \in schema.tables) /\ (Torn \/ Untorn(schema, n, j))
  BY <1>2 DEF Advances, Executed
<1>4. /\ Alters(schema, Effect(schema, q), schema.tables \union {q.on}, schema.nodes, schema.nodes_v2)
      /\ q.does = "create if not exists" => ~Fails(schema, q)
      /\ q.does = "create" /\ q.on \notin schema.tables => ~Fails(schema, q)
  <2> HIDE DEF q
  <2> QED BY <1>1, CreateDoes
<1>5. ASSUME Fails(schema, q) PROVE Torn
  <2>1. v = 6 /\ q.on \in schema.tables
    <3> HIDE DEF q, n
    <3> QED BY <1>1, <1>2, <1>4, <1>5
  <2>2. Untorn(schema, n, j) => FALSE
    <3> HIDE DEF q
    <3>1. n = 7 BY <1>2, <2>1
    <3>2. (j = 0 /\ ~(j >= 1) /\ q.on = "outcome") \/ (j = 1 /\ ~(j >= 2) /\ q.on = "error_kind") 
      <4>1. (j = 0 => ~(j >= 1)) /\ (j = 1 => ~(j >= 2)) OBVIOUS
      <4> QED BY <1>1, <2>1, <4>1
    <3> HIDE DEF n
    <3> QED BY <2>1, <3>1, <3>2 DEF Untorn
  <2> QED BY <1>3, <2>2
<1>6. ASSUME schema' = Effect(schema, q), torn' = torn, saved' = saved
      PROVE  schema' \in Schema /\ Advances(v, j + 1)'
  <2>1. /\ schema' \in Schema /\ schema'.tables = schema.tables \union {q.on} /\ schema'.versions = schema.versions
        /\ schema'.nodes = schema.nodes /\ schema'.nodes_v2 = schema.nodes_v2
    BY <1>4, <1>6 DEF Alters
  <2>2. SchemaAt(v)'
    <3>1. /\ schema.tables \subseteq schema'.tables
          /\ "nodes" \notin schema'.tables => schema'.nodes = {}
          /\ "nodes_v2" \notin schema'.tables => schema'.nodes_v2 = {}
          /\ schema.nodes \union schema.nodes_v2 \subseteq schema'.nodes \union schema'.nodes_v2
      BY <1>3, <2>1 DEF SchemaAt
    <3> QED BY <1>3, <1>6, <2>1, <3>1, SameTables
  <2>3. Executed(schema, n, j + 1)'
    <3>1. ASSUME NEW i \in 1 .. j + 1 PROVE Batches[n][i].on \in schema'.tables
      <4>1. i \in 1 .. j \/ i = j + 1 BY <1>2
      <4> QED BY <1>3, <2>1, <4>1
    <3> QED BY <1>2, <3>1 DEF Executed
  <2>4. Untorn(schema, n, j) => Untorn(schema, n, j + 1)'
    <3> HIDE DEF q
    <3> SUFFICES ASSUME Untorn(schema, n, j) PROVE Untorn(schema, n, j + 1)' OBVIOUS
    <3>1. {"nodes_v2", "tunnels_v2"} \cap schema'.tables = {}
      <4>1. q.on \notin {"nodes_v2", "tunnels_v2"}
        <5> HIDE DEF n
        <5> QED BY <1>1, <1>2 DEF Once
      <4> QED BY <1>2, <2>1, <4>1 DEF Untorn
    <3>2. n < 7 => {"outcome", "error_kind"} \cap schema'.tables = {}
      <4>1. n < 7 => q.on \notin {"outcome", "error_kind"} BY <1>1, <1>2 DEF Once
      <4> QED BY <2>1, <4>1 DEF Untorn
    <3>3. n = 7 => /\ "outcome" \in schema'.tables <=> j + 1 >= 1
                   /\ "error_kind" \in schema'.tables <=> j + 1 >= 2
      <4> SUFFICES ASSUME n = 7 PROVE /\ "outcome" \in schema'.tables <=> j + 1 >= 1
                                      /\ "error_kind" \in schema'.tables <=> j + 1 >= 2
        OBVIOUS
      <4>1. \/ j = 0 /\ ~(j >= 1) /\ ~(j >= 2) /\ j + 1 >= 1 /\ ~(j + 1 >= 2) /\ q.on = "outcome"
            \/ j = 1 /\ j >= 1 /\ ~(j >= 2) /\ j + 1 >= 1 /\ j + 1 >= 2 /\ q.on = "error_kind"
        <5>1. (j = 0 => ~(j >= 1) /\ ~(j >= 2) /\ j + 1 >= 1 /\ ~(j + 1 >= 2)) OBVIOUS
        <5>2. (j = 1 => j >= 1 /\ ~(j >= 2) /\ j + 1 >= 1 /\ j + 1 >= 2) OBVIOUS
        <5>3. v = 6 BY <1>2
        <5> QED BY <1>1, <5>1, <5>2, <5>3
      <4>2. /\ "outcome" \in schema.tables <=> j >= 1
            /\ "error_kind" \in schema.tables <=> j >= 2
        <5> HIDE DEF n
        <5> QED BY DEF Untorn
      <4> QED BY <2>1, <4>1, <4>2
    <3> QED BY <1>2, <3>1, <3>2, <3>3 DEF Untorn
  <2>5. Torn' = Torn BY <1>6 DEF Torn
  <2> QED BY <1>3, <2>1, <2>2, <2>3, <2>4, <2>5 DEF Advances
<1> QED BY <1>5, <1>6

(* Batch 5: which of its tables there are after each statement.             *)
There(s, n, t, n2, t2) ==
    /\ "nodes" \in s.tables <=> n
    /\ "tunnels" \in s.tables <=> t
    /\ "nodes_v2" \in s.tables <=> n2
    /\ "tunnels_v2" \in s.tables <=> t2
    /\ {"outcome", "error_kind"} \cap s.tables = {}

LEMMA UntornFifth ==
    ASSUME NEW s
    PROVE  /\ Untorn(s, 5, 0) <=> There(s, TRUE, TRUE, FALSE, FALSE) /\ s.nodes_v2 = {}
           /\ Untorn(s, 5, 1) <=> There(s, TRUE, TRUE, TRUE, FALSE) /\ s.nodes_v2 = {}
           /\ Untorn(s, 5, 2) <=> There(s, TRUE, TRUE, TRUE, FALSE)
           /\ Untorn(s, 5, 3) <=> There(s, TRUE, TRUE, TRUE, TRUE)
           /\ Untorn(s, 5, 4) <=> There(s, TRUE, TRUE, TRUE, TRUE)
           /\ Untorn(s, 5, 5) <=> There(s, TRUE, FALSE, TRUE, TRUE)
           /\ Untorn(s, 5, 6) <=> There(s, FALSE, FALSE, TRUE, TRUE)
           /\ Untorn(s, 5, 7) <=> There(s, TRUE, FALSE, FALSE, TRUE)
           /\ Untorn(s, 5, 8) <=> There(s, TRUE, TRUE, FALSE, FALSE)
BY DEF Untorn, There

LEMMA ExecutedFifth ==
    ASSUME NEW s
    PROVE  /\ Executed(s, 5, 1)
           /\ \A j \in 2 .. 5 : Executed(s, 5, j) <=> s.nodes \subseteq s.nodes_v2
           /\ Executed(s, 5, 6)
           /\ Executed(s, 5, 7) <=> "nodes" \in s.tables
           /\ Executed(s, 5, 8) <=> {"nodes", "tunnels"} \subseteq s.tables
BY DEF Executed

(* A statement of batch 5 moves the tables on and loses no node.            *)
LEMMA FifthAdvances ==
    ASSUME NEW j \in 0 .. 7, Advances(4, j), schema \in Schema
    PROVE  /\ Fails(schema, Batches[5][j + 1]) => Torn
           /\ schema' = Effect(schema, Batches[5][j + 1]) /\ torn' = torn /\ saved' = saved =>
                 Fails(schema, Batches[5][j + 1]) \/ (schema' \in Schema /\ Advances(4, j + 1)')
<1> DEFINE q == Batches[5][j + 1]
           e == Effect(schema, q)
           Turned(tables, old, new) ==
              /\ Untorn(schema, 5, j) => ~Fails(schema, q)
              /\ Alters(schema, e, tables, old, new)
              /\ ~Fails(schema, q) =>
                    /\ schema.tables \ Fifth \subseteq tables
                    /\ "nodes" \notin tables => old = {}
                    /\ "nodes_v2" \notin tables => new = {}
                    /\ schema.nodes \union schema.nodes_v2 \subseteq old \union new
                    /\ Executed(e, 5, j + 1)
                    /\ Untorn(schema, 5, j) => Untorn(e, 5, j + 1)
<1>1. SchemaAt(4) /\ Executed(schema, 5, j) /\ (Torn \/ Untorn(schema, 5, j))
  <2>1. 4 + 1 = 5 OBVIOUS
  <2> QED BY <2>1 DEF Advances
<1>2. /\ "nodes" \notin schema.tables => schema.nodes = {}
      /\ "nodes_v2" \notin schema.tables => schema.nodes_v2 = {}
  BY <1>1 DEF SchemaAt
<1>3. {"nodes", "tunnels", "nodes_v2", "tunnels_v2"} \subseteq Tables BY DEF Tables
<1> HIDE DEF q
<1>4. ASSUME NEW tables, NEW old, NEW new, Turned(tables, old, new)
      PROVE  /\ Fails(schema, q) => Torn
             /\ schema' = e /\ torn' = torn /\ saved' = saved =>
                   Fails(schema, q) \/ (schema' \in Schema /\ Advances(4, j + 1)')
  <2>1. Fails(schema, q) => Torn BY <1>1, <1>4
  <2>2. ASSUME schema' = e, torn' = torn, saved' = saved, ~Fails(schema, q)
        PROVE  schema' \in Schema /\ Advances(4, j + 1)'
    <3>1. /\ schema' \in Schema /\ schema'.versions = schema.versions
          /\ schema'.tables = tables /\ schema'.nodes = old /\ schema'.nodes_v2 = new
      BY <1>4, <2>2 DEF Alters
    <3>2. Executed(schema', 5, j + 1) /\ (Untorn(schema, 5, j) => Untorn(schema', 5, j + 1)) BY <1>4, <2>2
    <3>3. Torn' = Torn BY <2>2 DEF Torn
    <3>4. SchemaAt(4)' BY <1>1, <1>4, <2>2, <3>1, SameTables
    <3>5. 4 + 1 = 5 OBVIOUS
    <3> QED BY <1>1, <3>1, <3>2, <3>3, <3>4, <3>5 DEF Advances
  <2> QED BY <2>1, <2>2
<1> DEFINE Goal == /\ Fails(schema, q) => Torn
                   /\ schema' = e /\ torn' = torn /\ saved' = saved =>
                         Fails(schema, q) \/ (schema' \in Schema /\ Advances(4, j + 1)')
<1> HIDE DEF Goal
<1> SUFFICES Goal BY DEF Goal, q
<1>10. CASE j = 0
  <2>1. q.does = "create" /\ q.on = "nodes_v2" /\ q.to = "nodes_v2" /\ j + 1 = 1 BY <1>10, FifthIs DEF Is, q
  <2>2. /\ Alters(schema, e, schema.tables \union {"nodes_v2"}, schema.nodes, schema.nodes_v2)
        /\ "nodes_v2" \notin schema.tables => ~Fails(schema, q)
    BY <1>3, <2>1, CreateDoes
  <2> HIDE DEF e
  <2>3. Turned(schema.tables \union {"nodes_v2"}, schema.nodes, schema.nodes_v2)
    BY <1>1, <1>2, <1>10, <2>1, <2>2, UntornFifth, ExecutedFifth DEF There, Fifth, Alters
  <2> QED BY <1>4, <2>3 DEF Goal
<1>11. CASE j = 1
  <2>1. q.does = "copy" /\ q.on = "nodes" /\ q.to = "nodes_v2" /\ j + 1 = 2 BY <1>11, FifthIs DEF Is, q
  <2>2. /\ Alters(schema, e, schema.tables, schema.nodes, schema.nodes_v2 \union schema.nodes)
        /\ {"nodes", "nodes_v2"} \subseteq schema.tables /\ schema.nodes_v2 = {} => ~Fails(schema, q)
        /\ ~Fails(schema, q) => "nodes_v2" \in schema.tables
    BY <1>3, <2>1, CopyDoes
  <2> HIDE DEF e
  <2>3. Turned(schema.tables, schema.nodes, schema.nodes_v2 \union schema.nodes)
    BY <1>1, <1>2, <1>11, <2>1, <2>2, UntornFifth, ExecutedFifth DEF There, Fifth, Alters
  <2> QED BY <1>4, <2>3 DEF Goal
<1>12. CASE j = 2
  <2>1. q.does = "create" /\ q.on = "tunnels_v2" /\ q.to = "tunnels_v2" /\ j + 1 = 3 BY <1>12, FifthIs DEF Is, q
  <2>2. /\ Alters(schema, e, schema.tables \union {"tunnels_v2"}, schema.nodes, schema.nodes_v2)
        /\ "tunnels_v2" \notin schema.tables => ~Fails(schema, q)
    BY <1>3, <2>1, CreateDoes
  <2> HIDE DEF e
  <2>3. Turned(schema.tables \union {"tunnels_v2"}, schema.nodes, schema.nodes_v2)
    BY <1>1, <1>2, <1>12, <2>1, <2>2, UntornFifth, ExecutedFifth DEF There, Fifth, Alters
  <2> QED BY <1>4, <2>3 DEF Goal
<1>13. CASE j = 3
  <2>1. q.does = "copy" /\ q.on = "tunnels" /\ q.to = "tunnels_v2" /\ j + 1 = 4 BY <1>13, FifthIs DEF Is, q
  <2>2. /\ Alters(schema, e, schema.tables, schema.nodes, schema.nodes_v2)
        /\ {"tunnels", "tunnels_v2"} \subseteq schema.tables => ~Fails(schema, q)
    BY <1>3, <2>1, CopyDoes
  <2> HIDE DEF e
  <2>3. Turned(schema.tables, schema.nodes, schema.nodes_v2)
    BY <1>1, <1>2, <1>13, <2>1, <2>2, UntornFifth, ExecutedFifth DEF There, Fifth, Alters
  <2> QED BY <1>4, <2>3 DEF Goal
<1>14. CASE j = 4
  <2>1. q.does = "drop" /\ q.on = "tunnels" /\ q.to = "tunnels" /\ j + 1 = 5 BY <1>14, FifthIs DEF Is, q
  <2>2. /\ Alters(schema, e, schema.tables \ {"tunnels"}, schema.nodes, schema.nodes_v2)
        /\ "tunnels" \in schema.tables => ~Fails(schema, q)
    BY <1>3, <2>1, DropDoes
  <2> HIDE DEF e
  <2>3. Turned(schema.tables \ {"tunnels"}, schema.nodes, schema.nodes_v2)
    BY <1>1, <1>2, <1>14, <2>1, <2>2, UntornFifth, ExecutedFifth DEF There, Fifth, Alters
  <2> QED BY <1>4, <2>3 DEF Goal
<1>15. CASE j = 5
  <2>1. q.does = "drop" /\ q.on = "nodes" /\ q.to = "nodes" /\ j + 1 = 6 BY <1>15, FifthIs DEF Is, q
  <2>2. /\ Alters(schema, e, schema.tables \ {"nodes"}, {}, schema.nodes_v2)
        /\ "nodes" \in schema.tables => ~Fails(schema, q)
    BY <1>3, <2>1, DropDoes
  <2> HIDE DEF e
  <2>3. Turned(schema.tables \ {"nodes"}, {}, schema.nodes_v2)
    BY <1>1, <1>2, <1>15, <2>1, <2>2, UntornFifth, ExecutedFifth DEF There, Fifth, Alters
  <2> QED BY <1>4, <2>3 DEF Goal
<1>16. CASE j = 6
  <2>1. q.does = "rename" /\ q.on = "nodes_v2" /\ q.to = "nodes" /\ j + 1 = 7 BY <1>16, FifthIs DEF Is, q
  <2>2. /\ Alters(schema, e, (schema.tables \ {"nodes_v2"}) \union {"nodes"}, schema.nodes_v2, {})
        /\ Fails(schema, q) <=> "nodes_v2" \notin schema.tables \/ "nodes" \in schema.tables
    BY <1>3, <2>1, RenameDoes
  <2> HIDE DEF e
  <2>3. Turned((schema.tables \ {"nodes_v2"}) \union {"nodes"}, schema.nodes_v2, {})
    BY <1>1, <1>2, <1>16, <2>1, <2>2, UntornFifth, ExecutedFifth DEF There, Fifth, Alters
  <2> QED BY <1>4, <2>3 DEF Goal
<1>17. CASE j = 7
  <2>1. q.does = "rename" /\ q.on = "tunnels_v2" /\ q.to = "tunnels" /\ j + 1 = 8 BY <1>17, FifthIs DEF Is, q
  <2>2. /\ Alters(schema, e, (schema.tables \ {"tunnels_v2"}) \union {"tunnels"}, schema.nodes, schema.nodes_v2)
        /\ Fails(schema, q) <=> "tunnels_v2" \notin schema.tables \/ "tunnels" \in schema.tables
    BY <1>3, <2>1, RenameDoes
  <2> HIDE DEF e
  <2>3. Turned((schema.tables \ {"tunnels_v2"}) \union {"tunnels"}, schema.nodes, schema.nodes_v2)
    BY <1>1, <1>2, <1>17, <2>1, <2>2, UntornFifth, ExecutedFifth DEF There, Fifth, Alters
  <2> QED BY <1>4, <2>3 DEF Goal
<1>18. j = 0 \/ j = 1 \/ j = 2 \/ j = 3 \/ j = 4 \/ j = 5 \/ j = 6 \/ j = 7 OBVIOUS
<1> QED BY <1>10, <1>11, <1>12, <1>13, <1>14, <1>15, <1>16, <1>17, <1>18

LEMMA NothingExecuted == ASSUME NEW s, NEW n PROVE Executed(s, n, 0)
<1>1. 1 .. 0 = {} /\ 0 \notin 2 .. 5 /\ ~(0 >= 7) /\ 0 # 8 OBVIOUS
<1> QED BY <1>1 DEF Executed

(* Once a batch is recorded, the next one has not begun.                    *)
LEMMA UntornNext ==
    ASSUME NEW v \in 0 .. 6, SchemaAt(v), Executed(schema, v + 1, Len(Batches[v + 1])),
           Untorn(schema, v + 1, Len(Batches[v + 1]))
    PROVE  Untorn(schema, v + 2, 0)
<1>1. CASE v = 4
  <2>1. v + 1 = 5 /\ v + 2 = 6 /\ Len(Batches[v + 1]) = 8
    <3>1. v + 1 = 5 /\ v + 2 = 6 BY <1>1
    <3> QED BY <3>1, BatchesAre
  <2>2. There(schema, TRUE, TRUE, FALSE, FALSE) BY <2>1, UntornFifth
  <2>3. 6 # 5 /\ 6 < 7 /\ 6 # 7 OBVIOUS
  <2> QED BY <2>1, <2>2, <2>3 DEF Untorn, There
<1>2. CASE v = 3
  <2>1. v + 1 = 4 /\ v + 2 = 5 /\ Len(Batches[v + 1]) = 2 /\ 4 # 5 /\ 4 < 7
    <3>1. v + 1 = 4 /\ v + 2 = 5 BY <1>2
    <3> QED BY <3>1, BatchesAre
  <2>2. \A i \in 1 .. 2 : Batches[4][i].on \in schema.tables BY <2>1 DEF Executed
  <2>3. Batches[4][1].on = "nodes" /\ Batches[4][2].on = "tunnels"
    <3>1. Batch4[1].on = "nodes" /\ Batch4[2].on = "tunnels" BY DEF Batch4, Exists, Sql
    <3> QED BY <3>1, BatchesAre
  <2>4. "nodes" \in schema.tables /\ "tunnels" \in schema.tables
    <3>1. 1 \in 1 .. 2 /\ 2 \in 1 .. 2 OBVIOUS
    <3> QED BY <2>2, <2>3, <3>1
  <2>5. {"nodes_v2", "tunnels_v2"} \cap schema.tables = {} /\ {"outcome", "error_kind"} \cap schema.tables = {}
    BY <2>1 DEF Untorn
  <2>6. schema.nodes_v2 = {} BY <2>5 DEF SchemaAt
  <2>7. There(schema, TRUE, TRUE, FALSE, FALSE) BY <2>4, <2>5 DEF There
  <2> QED BY <2>1, <2>6, <2>7, UntornFifth
<1>3. CASE v # 3 /\ v # 4
  <2>1. v + 1 # 5 /\ v + 2 # 5 /\ (v + 2 < 7 => v + 1 < 7) /\ (v + 2 = 7 => v + 1 < 7) /\ ~(0 >= 1) /\ ~(0 >= 2)
    BY <1>3
  <2>2. {"nodes_v2", "tunnels_v2"} \cap schema.tables = {} BY <2>1 DEF Untorn
  <2>3. v + 1 < 7 => {"outcome", "error_kind"} \cap schema.tables = {} BY DEF Untorn
  <2> QED BY <2>1, <2>2, <2>3 DEF Untorn
<1> QED BY <1>1, <1>2, <1>3

(* A batch that is through has made what it makes.                          *)
LEMMA BatchMade ==
    ASSUME NEW n \in 1 .. 7, Executed(schema, n, Len(Batches[n]))
    PROVE  Produces(n) \subseteq schema.tables
<1>1. CASE n = 5
  <2>1. Len(Batches[n]) = 8 BY <1>1, BatchesAre
  <2>2. {"nodes", "tunnels"} \subseteq schema.tables BY <1>1, <2>1, ExecutedFifth
  <2> QED BY <1>1, <2>2, ProducesAre
<1>2. CASE n # 5
  <2>1. \A i \in 1 .. Len(Batches[n]) : Batches[n][i].on \in schema.tables BY <1>2 DEF Executed
  <2>2. \A i \in 1 .. Len(Batches[n]) : Batches[n][i].on = Batches[n][i].to
    <3>1. CASE n = 7
      <4>1. Len(Batches[7]) = 2 BY BatchesAre
      <4>2. \A i \in 1 .. 2 : i = 1 \/ i = 2 OBVIOUS
      <4> QED BY <3>1, <4>1, <4>2, SeventhIs DEF Is
    <3>2. CASE n # 7 BY <1>2, <3>2, OthersAre
    <3> QED BY <3>1, <3>2
  <2>3. DOMAIN Batches[n] = 1 .. Len(Batches[n])
    <3>1. Batches[n] \in Seq(ChangeOf) BY MigrateIs
    <3> QED BY <3>1
  <2>4. Produces(n) \subseteq {Batches[n][i].to : i \in 1 .. Len(Batches[n])} BY <2>3 DEF Produces
  <2> QED BY <2>1, <2>2, <2>4
<1> QED BY <1>1, <1>2

(* The record of a batch ends it.                                           *)
LEMMA RecordAdvances ==
    ASSUME NEW v \in 0 .. 6, Advances(v, Len(Batches[v + 1])), schema \in Schema
    PROVE  /\ ~Fails(schema, Record(v + 1))
           /\ schema' = Effect(schema, Record(v + 1)) /\ torn' = torn /\ saved' = saved =>
                 /\ schema' \in Schema /\ SchemaAt(v + 1)'
                 /\ Executed(schema, v + 2, 0)' /\ (Torn \/ Untorn(schema, v + 2, 0))'
<1> DEFINE n == v + 1
<1>1. n \in 1 .. 7 /\ n \in 0 .. 7 /\ n \notin 1 .. v OBVIOUS
<1>2. SchemaAt(v) /\ Executed(schema, n, Len(Batches[n])) /\ (Torn \/ Untorn(schema, n, Len(Batches[n])))
  BY DEF Advances
<1>3. schema.versions = 1 .. v BY <1>2 DEF SchemaAt
<1>4. Fails(schema, Record(n)) <=> n \in schema.versions
  <2> HIDE DEF n
  <2> QED BY <1>1, RecordDoes
<1>5. ASSUME schema' = Effect(schema, Record(n)), torn' = torn, saved' = saved
      PROVE  /\ schema' \in Schema /\ SchemaAt(n)'
             /\ Executed(schema, v + 2, 0)' /\ (Torn \/ Untorn(schema, v + 2, 0))'
  <2>1. schema' = [schema EXCEPT !.versions = @ \union {n}]
    <3> HIDE DEF n
    <3> QED BY <1>1, <1>5, RecordDoes
  <2>2. /\ schema' \in Schema /\ schema'.tables = schema.tables /\ schema'.versions = schema.versions \union {n}
        /\ schema'.nodes = schema.nodes /\ schema'.nodes_v2 = schema.nodes_v2
    <3> HIDE DEF n
    <3> QED BY <1>1, <2>1 DEF Schema
  <2>3. schema'.versions = 1 .. n BY <1>3, <2>2
  <2>4. Produces(n) \subseteq schema.tables BY <1>1, <1>2, BatchMade
  <2>5. ASSUME NEW i \in 1 .. n PROVE Produces(i) \subseteq schema'.tables
    <3>1. CASE i = n BY <2>2, <2>4, <3>1
    <3>2. CASE i # n
      <4>1. i \in 1 .. v BY <3>2
      <4>2. Produces(i) \subseteq schema.tables \/ (i = 4 /\ v = 4) BY <1>2, <4>1 DEF SchemaAt
      <4>3. CASE i = 4 /\ v = 4
        <5>1. n = 5 BY <4>3
        <5>2. Produces(4) = Produces(5) BY ProducesAre
        <5> QED BY <2>2, <2>4, <4>3, <5>1, <5>2
      <4> QED BY <2>2, <4>2, <4>3
    <3> QED BY <3>1, <3>2
  <2>6. SchemaAt(n)'
    <3>1. /\ "nodes" \notin schema'.tables => schema'.nodes = {}
          /\ "nodes_v2" \notin schema'.tables => schema'.nodes_v2 = {}
          /\ saved' \subseteq schema'.nodes \union schema'.nodes_v2
      BY <1>2, <1>5, <2>2 DEF SchemaAt
    <3> HIDE DEF n
    <3> QED BY <2>3, <2>5, <3>1 DEF SchemaAt, Produces
  <2>7. Executed(schema', v + 2, 0) BY NothingExecuted
  <2>8. Torn' = Torn BY <1>5 DEF Torn
  <2>9. Untorn(schema, n, Len(Batches[n])) => Untorn(schema', v + 2, 0)
    <3>1. Untorn(schema, n, Len(Batches[n])) => Untorn(schema, v + 2, 0) BY <1>2, UntornNext
    <3>2. Untorn(schema, v + 2, 0) => Untorn(schema', v + 2, 0) BY <2>2 DEF Untorn
    <3> QED BY <3>1, <3>2
  <2> QED BY <1>2, <2>2, <2>6, <2>7, <2>8, <2>9
<1> QED BY <1>1, <1>3, <1>4, <1>5

-----------------------------------------------------------------------------
(* The steps of openers of a SQLite store.                                  *)
LEMMA OpenerTurns ==
    ASSUME MigShape, NEW o \in Openers, NEW x, opener' = [opener EXCEPT ![o] = x]
    PROVE  opener'[o] = x /\ \A p \in Openers : p # o => opener'[p] = opener[p]
BY DEF MigShape

LEMMA VersionIs == ASSUME NEW v \in 0 .. 7, schema.versions = 1 .. v PROVE Version(schema) = v
<1>1. CASE v = 0
  <2>1. 1 .. v = {} BY <1>1
  <2> QED BY <1>1, <2>1 DEF Version
<1>2. CASE v # 0
  <2> DEFINE Greatest(n) == \A m \in 1 .. v : m <= n
  <2>1. v \in 1 .. v /\ Greatest(v) BY <1>2
  <2>2. \A n \in 1 .. v : Greatest(n) => n = v BY <2>1
  <2>3. Version(schema) = CHOOSE n \in 1 .. v : Greatest(n) BY <2>1 DEF Version
  <2> HIDE DEF Greatest
  <2> QED BY <2>1, <2>2, <2>3
<1> QED BY <1>1, <1>2

(* One opener moves, and has just begun batch v + 1 or is through.          *)
LEMMA Begins ==
    ASSUME MigShape', NEW o \in Openers, NEW v \in 0 .. 7, SchemaAt(v)', Moving' = {o}, opener'[o].todo = Pending[v],
           (Torn \/ Untorn(schema, v + 1, 0))',
           \A p \in Openers : (opener'[p].phase = "open" => v = 7) /\ (opener'[p].phase = "failed" => Torn')
    PROVE  SqliteAt(v)'
<1>1. CASE v = 7
  <2>1. opener'[o].todo = <<>> BY <1>1, PendingIs
  <2> QED BY <1>1, <2>1 DEF SqliteAt
<1>2. CASE v # 7
  <2>1. v \in 0 .. 6 /\ v < 7 BY <1>2
  <2>2. opener'[o].todo = Rest(v + 1, 0) BY <2>1, PendingIsRest
  <2>3. Len(Batches[v + 1]) \in 1 .. 8
    <3>1. v + 1 \in 1 .. 7 BY <2>1
    <3> QED BY <3>1, MigrateIs
  <2>4. 0 \in 0 .. Len(Batches[v + 1]) /\ 0 \in 0 .. 8 BY <2>3
  <2>5. Executed(schema', v + 1, 0) BY NothingExecuted
  <2>6. Amid(o, v, 0)' BY <2>1, <2>2, <2>4, <2>5 DEF Amid
  <2> QED BY <2>4, <2>6 DEF SqliteAt
<1> QED BY <1>1, <1>2

LEMMA SqliteOpens ==
    ASSUME MigInv, MigShape', NEW o \in Openers, Open(o), backendKind = "sqlite", ~overlap'
    PROVE  \E v \in 0 .. 7 : SqliteAt(v)'
<1>1. ~overlap /\ Migrating(o) = {} BY DEF Open
<1>2. PICK v \in 0 .. 7 : SqliteAt(v) BY <1>1 DEF MigInv, SqliteInv
<1>3. opener[o].phase # "migrating" BY DEF Open
<1>4. Moving = {} BY <1>1, <1>3 DEF Moving, Migrating
<1>5. Version(schema) = v
  <2>1. schema.versions = 1 .. v BY <1>2 DEF SqliteAt, SchemaAt
  <2> QED BY <2>1, VersionIs
<1>6. opener' = [opener EXCEPT ![o] = [phase |-> "migrating", todo |-> Pending[v]]] BY <1>5 DEF Open, ToRun
<1>7. MigShape BY DEF MigInv
<1>8. /\ opener'[o].phase = "migrating" /\ opener'[o].todo = Pending[v]
      /\ \A p \in Openers : p # o => opener'[p] = opener[p]
  <2> DEFINE x == [phase |-> "migrating", todo |-> Pending[v]]
  <2> HIDE DEF x
  <2>1. opener' = [opener EXCEPT ![o] = x] BY <1>6 DEF x
  <2>2. opener'[o] = x /\ \A p \in Openers : p # o => opener'[p] = opener[p] BY <1>7, <2>1, OpenerTurns
  <2> QED BY <2>2 DEF x
<1>9. Moving' = {o} BY <1>4, <1>8 DEF Moving
<1>10. schema' = schema /\ saved' = saved /\ torn' = torn BY DEF Open
<1>11. SchemaAt(v)' BY <1>2, <1>10 DEF SqliteAt, SchemaAt
<1>12. (Torn \/ Untorn(schema, v + 1, 0))' BY <1>2, <1>4, <1>10 DEF SqliteAt, Torn
<1>13. \A p \in Openers : (opener'[p].phase = "open" => v = 7) /\ (opener'[p].phase = "failed" => Torn')
  BY <1>2, <1>8, <1>10 DEF SqliteAt, Torn
<1> QED BY <1>8, <1>9, <1>11, <1>12, <1>13, Begins

(* What a statement changes, by whether it fails.                           *)
LEMMA StatementTurns ==
    ASSUME MigShape, NEW o \in Openers, SqlStatement(o)
    PROVE  /\ opener[o].phase = "migrating" /\ opener[o].todo # <<>> /\ opener[o].todo \in Seq(SqlOf)
           /\ \A p \in Openers : p # o => opener'[p] = opener[p]
           /\ backendKind' = backendKind /\ saved' = saved /\ torn' = torn /\ overlap' = overlap
           /\ Fails(schema, Head(opener[o].todo)) => schema' = schema /\ opener'[o].phase = "failed"
           /\ ~Fails(schema, Head(opener[o].todo)) =>
                 /\ opener'[o].phase = "migrating"
                 /\ schema' = IF Head(opener[o].todo).does \in {"file", "check"} THEN schema
                              ELSE Effect(schema, Head(opener[o].todo))
                 /\ opener'[o].todo =
                       IF Head(opener[o].todo).does = "check" /\ Head(opener[o].todo).on \in schema.versions
                       THEN SubSeq(opener[o].todo, Head(opener[o].todo).to + 2, Len(opener[o].todo))
                       ELSE Tail(opener[o].todo)
<1> DEFINE q == Head(opener[o].todo)
           left == IF q.does = "check" /\ q.on \in schema.versions
                   THEN SubSeq(opener[o].todo, q.to + 2, Len(opener[o].todo)) ELSE Tail(opener[o].todo)
<1>1. opener[o] \in [phase: Phases, todo: Seq(SqlOf)] BY DEF MigShape
<1>2. opener[o].todo \in Seq(SqlOf) BY <1>1
<1>3. /\ opener[o].phase = "migrating" /\ opener[o].todo # <<>>
      /\ backendKind' = backendKind /\ saved' = saved /\ torn' = torn /\ overlap' = overlap
  BY DEF SqlStatement
<1>4. CASE Fails(schema, q)
  <2> DEFINE x == [phase |-> "failed", todo |-> <<>>]
  <2>1. schema' = schema /\ opener' = [opener EXCEPT ![o] = x] BY <1>4 DEF SqlStatement
  <2>2. x.phase = "failed" OBVIOUS
  <2> HIDE DEF x, q
  <2>3. opener'[o] = x /\ \A p \in Openers : p # o => opener'[p] = opener[p] BY <2>1, OpenerTurns
  <2> QED BY <1>2, <1>3, <1>4, <2>1, <2>2, <2>3 DEF q
<1>5. CASE ~Fails(schema, q)
  <2> DEFINE x == [opener[o] EXCEPT !.todo = left]
  <2>1. schema' = IF q.does \in {"file", "check"} THEN schema ELSE Effect(schema, q) BY <1>5 DEF SqlStatement
  <2>2. opener' = [opener EXCEPT ![o].todo = left] BY <1>5 DEF SqlStatement
  <2> HIDE DEF q, left
  <2>3. opener' = [opener EXCEPT ![o] = x] BY <2>2
  <2>4. x.phase = "migrating" /\ x.todo = left BY <1>1, <1>3
  <2> HIDE DEF x
  <2>5. opener'[o] = x /\ \A p \in Openers : p # o => opener'[p] = opener[p] BY <2>3, OpenerTurns
  <2> QED BY <1>2, <1>3, <1>5, <2>1, <2>4, <2>5 DEF q, left
<1> QED BY <1>4, <1>5

LEMMA OnlyOneMoves ==
    ASSUME MigShape, ~overlap, NEW o \in Openers, opener[o].phase = "migrating"
    PROVE  Moving = {o}
BY DEF MigShape, Moving

LEMMA SqliteRuns ==
    ASSUME MigInv, MigShape', NEW o \in Openers, SqlStatement(o), backendKind = "sqlite", ~overlap'
    PROVE  \E v \in 0 .. 7 : SqliteAt(v)'
<1> DEFINE q == Head(opener[o].todo)
<1>1. MigShape BY DEF MigInv
<1>2. /\ opener[o].phase = "migrating" /\ opener[o].todo # <<>>
      /\ \A p \in Openers : p # o => opener'[p] = opener[p]
      /\ saved' = saved /\ torn' = torn /\ ~overlap
      /\ Fails(schema, q) => schema' = schema /\ opener'[o].phase = "failed"
      /\ ~Fails(schema, q) =>
            /\ opener'[o].phase = "migrating"
            /\ schema' = IF q.does \in {"file", "check"} THEN schema ELSE Effect(schema, q)
            /\ opener'[o].todo = IF q.does = "check" /\ q.on \in schema.versions
                                 THEN SubSeq(opener[o].todo, q.to + 2, Len(opener[o].todo))
                                 ELSE Tail(opener[o].todo)
  BY <1>1, StatementTurns
<1>3. PICK v \in 0 .. 7 : SqliteAt(v) BY <1>2 DEF MigInv, SqliteInv
<1>4. Moving = {o} BY <1>1, <1>2, OnlyOneMoves
<1>5. PICK j \in 0 .. 8 : Amid(o, v, j)
  <2>1. (v = 7 /\ opener[o].todo = <<>>) \/ \E j \in 0 .. 8 : Amid(o, v, j) BY <1>3, <1>4 DEF SqliteAt
  <2> QED BY <1>2, <2>1
<1> DEFINE n == v + 1
<1>6. v \in 0 .. 6 /\ n \in 1 .. 7 /\ v # 7
  <2>1. v < 7 BY <1>5 DEF Amid
  <2> QED BY <2>1
<1>7. /\ j \in 0 .. Len(Batches[n]) /\ opener[o].todo = Rest(n, j) /\ Advances(v, j)
  BY <1>3, <1>5 DEF Amid, SqliteAt, Advances
<1>8. schema \in Schema /\ Len(Batches[n]) \in 1 .. 8
  <2>1. schema \in Schema BY <1>1 DEF MigShape
  <2> HIDE DEF n
  <2> QED BY <1>6, <2>1, MigrateIs
<1>9. /\ \A p \in Openers : p # o => opener[p].phase # "open" /\ opener[p].phase # "migrating"
      /\ \A p \in Openers : opener[p].phase = "failed" => Torn
  BY <1>3, <1>4, <1>6 DEF SqliteAt, Moving
<1>10. Torn' = Torn BY <1>2 DEF Torn
<1>11. ASSUME Fails(schema, q), Torn PROVE SqliteAt(v)'
  <2>1. schema' = schema /\ opener'[o].phase = "failed" BY <1>2, <1>11
  <2>2. Moving' = {} BY <1>2, <1>9, <2>1 DEF Moving
  <2>3. SchemaAt(v)' BY <1>2, <1>3, <2>1 DEF SqliteAt, SchemaAt
  <2>4. \A p \in Openers : (opener'[p].phase = "open" => v = 7) /\ (opener'[p].phase = "failed" => Torn')
    BY <1>2, <1>9, <1>10, <1>11, <2>1
  <2> QED BY <1>10, <1>11, <2>2, <2>3, <2>4 DEF SqliteAt
<1>12. CASE j < Len(Batches[n])
  <2>1. q = Batches[n][j + 1] /\ Tail(opener[o].todo) = Rest(n, j + 1)
    <3> HIDE DEF n
    <3> QED BY <1>6, <1>7, <1>12, RestIs
  <2>2. j \in 0 .. Len(Batches[n]) - 1 /\ j + 1 \in 1 .. Len(Batches[n]) /\ j + 1 \in 0 .. Len(Batches[n])
        /\ j + 1 \in 0 .. 8
    <3> DEFINE k == Len(Batches[n])
    <3>1. j \in 0 .. k /\ k \in 1 .. 8 /\ j < k BY <1>7, <1>8, <1>12
    <3> HIDE DEF k, n
    <3>2. j \in 0 .. k - 1 /\ j + 1 \in 1 .. k /\ j + 1 \in 0 .. k /\ j + 1 \in 0 .. 8 BY <3>1
    <3> QED BY <3>2 DEF k
  <2>3. q.does \in Changes
    <3>1. q \in ChangeOf
      <4> HIDE DEF n
      <4> QED BY <1>6, <2>1, <2>2, MigrateIs
    <3> QED BY <3>1 DEF ChangeOf
  <2>4. q.does # "file" /\ q.does # "check" BY <2>3 DEF Changes
  <2>5. /\ Fails(schema, q) => Torn
        /\ schema' = Effect(schema, q) => Fails(schema, q) \/ Advances(v, j + 1)'
    <3>1. CASE v = 4
      <4>1. Len(Batches[5]) = 8 /\ n = 5 BY <3>1, BatchesAre
      <4>2. j \in 0 .. 7 BY <2>2, <4>1
      <4>3. Advances(4, j) BY <1>7, <3>1
      <4>4. /\ Fails(schema, Batches[5][j + 1]) => Torn
            /\ schema' = Effect(schema, Batches[5][j + 1]) =>
                  Fails(schema, Batches[5][j + 1]) \/ Advances(4, j + 1)'
        BY <1>2, <1>8, <4>2, <4>3, FifthAdvances
      <4> QED BY <2>1, <3>1, <4>1, <4>4
    <3>2. CASE v # 4
      <4>1. /\ Fails(schema, Batches[v + 1][j + 1]) => Torn
            /\ schema' = Effect(schema, Batches[v + 1][j + 1]) => Advances(v, j + 1)'
        BY <1>2, <1>6, <1>7, <1>8, <2>2, <3>2, CreatesAdvance
      <4> QED BY <2>1, <4>1
    <3> QED BY <3>1, <3>2
  <2>6. ASSUME ~Fails(schema, q) PROVE SqliteAt(v)'
    <3>1. /\ opener'[o].phase = "migrating" /\ schema' = Effect(schema, q)
          /\ opener'[o].todo = Rest(n, j + 1)
      BY <1>2, <2>1, <2>4, <2>6
    <3>2. Advances(v, j + 1)' BY <2>5, <2>6, <3>1
    <3>3. Moving' = {o} BY <1>2, <1>9, <3>1 DEF Moving
    <3>4. \A p \in Openers : (opener'[p].phase = "open" => v = 7) /\ (opener'[p].phase = "failed" => Torn')
      BY <1>2, <1>9, <1>10, <3>1
    <3>5. Amid(o, v, j + 1)'
      <4>1. v < 7 BY <1>6
      <4> QED BY <2>2, <3>1, <3>2, <4>1 DEF Amid, Advances
    <3>6. SchemaAt(v)' BY <3>2 DEF Advances
    <3>7. ~(Moving' = {} \/ v = 7) BY <1>6, <3>3
    <3> QED BY <2>2, <3>3, <3>4, <3>5, <3>6, <3>7 DEF SqliteAt
  <2> QED BY <1>11, <2>5, <2>6
<1>13. CASE j = Len(Batches[n])
  <2>1. q = Record(n) /\ Tail(opener[o].todo) = Pending[n]
    <3> HIDE DEF n
    <3> QED BY <1>6, <1>7, <1>13, RestIs
  <2>2. q.does # "file" /\ q.does # "check"
    <3>1. q.does = "record" BY <2>1 DEF Record, Sql
    <3> QED BY <3>1
  <2>3. Advances(v, Len(Batches[v + 1])) BY <1>7, <1>13
  <2>4. /\ ~Fails(schema, Record(v + 1))
        /\ schema' = Effect(schema, Record(v + 1)) =>
              SchemaAt(v + 1)' /\ (Torn \/ Untorn(schema, v + 2, 0))'
    BY <1>2, <1>6, <1>8, <2>3, RecordAdvances
  <2>5. ~Fails(schema, q) BY <2>1, <2>4
  <2>6. /\ opener'[o].phase = "migrating" /\ schema' = Effect(schema, q) /\ opener'[o].todo = Pending[n]
    BY <1>2, <2>1, <2>2, <2>5
  <2>7. SchemaAt(n)' /\ (Torn \/ Untorn(schema, n + 1, 0))'
    <3>1. n + 1 = v + 2 OBVIOUS
    <3> QED BY <2>1, <2>4, <2>6, <3>1
  <2>8. Moving' = {o} BY <1>2, <1>9, <2>6 DEF Moving
  <2>9. \A p \in Openers : (opener'[p].phase = "open" => n = 7) /\ (opener'[p].phase = "failed" => Torn')
    BY <1>2, <1>9, <1>10, <2>6
  <2>10. n \in 0 .. 7 BY <1>6
  <2>11. SqliteAt(n)'
    <3> HIDE DEF n
    <3> QED BY <2>6, <2>7, <2>8, <2>9, <2>10, Begins
  <2> QED BY <2>10, <2>11
<1>14. j < Len(Batches[n]) \/ j = Len(Batches[n]) BY <1>7, <1>8
<1> QED BY <1>12, <1>13, <1>14

LEMMA SqliteIsOpened ==
    ASSUME MigInv, NEW o \in Openers, Opened(o), backendKind = "sqlite", ~overlap'
    PROVE  \E v \in 0 .. 7 : SqliteAt(v)'
<1>1. MigShape /\ ~overlap /\ schema' = schema /\ saved' = saved /\ torn' = torn BY DEF MigInv, Opened
<1>2. opener[o].phase = "migrating" /\ opener[o].todo = <<>> BY DEF Opened
<1>3. opener'[o].phase = "open" /\ \A p \in Openers : p # o => opener'[p] = opener[p]
  <2> DEFINE x == [opener[o] EXCEPT !.phase = "open"]
  <2>1. opener[o] \in [phase: Phases, todo: Seq(SqlOf)] BY <1>1 DEF MigShape
  <2>2. x.phase = "open" BY <2>1
  <2>3. opener' = [opener EXCEPT ![o] = x] BY DEF Opened
  <2> HIDE DEF x
  <2> QED BY <1>1, <2>2, <2>3, OpenerTurns
<1>4. PICK v \in 0 .. 7 : SqliteAt(v) BY <1>1 DEF MigInv, SqliteInv
<1>5. Moving = {o} BY <1>1, <1>2, OnlyOneMoves
<1>6. v = 7
  <2>1. v = 7 \/ \E j \in 0 .. 8 : Amid(o, v, j) BY <1>4, <1>5 DEF SqliteAt
  <2>2. ASSUME NEW j \in 0 .. 8, Amid(o, v, j) PROVE FALSE
    <3>1. v + 1 \in 1 .. 7 /\ j \in 0 .. Len(Batches[v + 1]) /\ opener[o].todo = Rest(v + 1, j)
      BY <2>2 DEF Amid
    <3> QED BY <1>2, <3>1, RestIs
  <2> QED BY <2>1, <2>2
<1>7. Moving' = {}
  <2>1. \A p \in Openers : p # o => opener[p].phase # "migrating" BY <1>5 DEF Moving
  <2> QED BY <1>3, <2>1 DEF Moving
<1>8. SchemaAt(v)' BY <1>1, <1>4 DEF SqliteAt, SchemaAt
<1>9. (Torn \/ Untorn(schema, v + 1, 0))' BY <1>1, <1>4, <1>6 DEF SqliteAt, Torn
<1>10. \A p \in Openers : (opener'[p].phase = "open" => v = 7) /\ (opener'[p].phase = "failed" => Torn')
  BY <1>1, <1>3, <1>4, <1>6 DEF SqliteAt, Torn
<1> QED BY <1>7, <1>8, <1>9, <1>10 DEF SqliteAt

LEMMA SqliteIsUsed ==
    ASSUME MigInv, NEW o \in Openers, NEW r \in OldRows, Use(o, r), ~overlap'
    PROVE  \E v \in 0 .. 7 : SqliteAt(v)'
<1>1. /\ MigShape /\ ~overlap /\ opener' = opener /\ torn' = torn /\ backendKind = "sqlite"
      /\ opener[o].phase = "open" /\ "nodes" \in schema.tables
      /\ schema' = [schema EXCEPT !.nodes = @ \union {r}] /\ saved' = saved \union {r}
  BY DEF MigInv, Use
<1>2. PICK v \in 0 .. 7 : SqliteAt(v) BY <1>1 DEF MigInv, SqliteInv
<1>3. v = 7 BY <1>1, <1>2 DEF SqliteAt
<1>4. /\ schema'.tables = schema.tables /\ schema'.versions = schema.versions
      /\ schema'.nodes = schema.nodes \union {r} /\ schema'.nodes_v2 = schema.nodes_v2
  BY <1>1 DEF MigShape, Schema
<1>5. SchemaAt(v)' BY <1>1, <1>2, <1>4 DEF SqliteAt, SchemaAt
<1>6. Moving' = Moving /\ Torn' = Torn BY <1>1 DEF Moving, Torn
<1>7. Torn' \/ Untorn(schema', v + 1, 0)
  <2>1. Torn \/ Untorn(schema, v + 1, 0) BY <1>2, <1>3 DEF SqliteAt
  <2>2. v + 1 # 5 /\ v + 1 = 8 BY <1>3
  <2> QED BY <1>4, <1>6, <2>1, <2>2 DEF Untorn
<1>8. \A p \in Moving : v = 7 /\ opener[p].todo = <<>>
  <2>1. \A p \in Moving : \A j \in 0 .. 8 : ~Amid(p, v, j) BY <1>3 DEF Amid
  <2> QED BY <1>2, <2>1 DEF SqliteAt
<1> QED BY <1>1, <1>2, <1>3, <1>5, <1>6, <1>7, <1>8 DEF SqliteAt

LEMMA SqliteStops ==
    ASSUME MigInv, NEW o \in Openers, Stop(o), backendKind = "sqlite", ~overlap'
    PROVE  \E v \in 0 .. 7 : SqliteAt(v)'
<1>1. MigShape /\ ~overlap /\ schema' = schema /\ saved' = saved BY DEF MigInv, Stop
<1>2. torn' = IF opener[o].todo = <<>> THEN torn ELSE torn \union {BatchOf(opener[o].todo)} BY DEF Stop
<1>3. Torn => Torn' BY <1>2 DEF Torn
<1>4. opener'[o].phase = "closed" /\ \A p \in Openers : p # o => opener'[p] = opener[p]
  <2>1. opener' = [opener EXCEPT ![o] = Closed] BY DEF Stop
  <2>2. Closed.phase = "closed" BY DEF Closed
  <2> QED BY <1>1, <2>1, <2>2, OpenerTurns
<1>5. PICK v \in 0 .. 7 : SqliteAt(v) BY <1>1 DEF MigInv, SqliteInv
<1>6. SchemaAt(v)' BY <1>1, <1>5 DEF SqliteAt, SchemaAt
<1>7. \A p \in Openers : (opener'[p].phase = "open" => v = 7) /\ (opener'[p].phase = "failed" => Torn')
  BY <1>3, <1>4, <1>5 DEF SqliteAt
<1>8. Moving' = Moving \ {o} BY <1>4 DEF Moving
<1>9. CASE opener[o].phase = "migrating"
  <2>1. Moving = {o} BY <1>1, <1>9, OnlyOneMoves
  <2>2. Moving' = {} BY <1>8, <2>1
  <2>3. Torn' \/ Untorn(schema', v + 1, 0)
    <3>1. (v = 7 /\ opener[o].todo = <<>>) \/ \E j \in 0 .. 8 : Amid(o, v, j) BY <1>5, <2>1 DEF SqliteAt
    <3>2. CASE v = 7 BY <1>1, <1>3, <1>5, <3>2 DEF SqliteAt
    <3>3. ASSUME NEW j \in 0 .. 8, Amid(o, v, j) PROVE Torn' \/ Untorn(schema', v + 1, 0)
      <4>1. /\ v < 7 /\ v + 1 \in 1 .. 7 /\ j \in 0 .. Len(Batches[v + 1]) /\ opener[o].todo = Rest(v + 1, j)
            /\ Torn \/ Untorn(schema, v + 1, j)
        BY <3>3 DEF Amid
      <4>2. opener[o].todo # <<>> /\ BatchOf(opener[o].todo) = v + 1 BY <4>1, RestIs, BatchOfRest
      <4>3. v + 1 \in torn' BY <1>2, <4>2
      <4>4. CASE v + 1 \in {5, 7} BY <4>3, <4>4 DEF Torn
      <4>5. CASE v + 1 \notin {5, 7} /\ Untorn(schema, v + 1, j) BY <1>1, <4>5 DEF Untorn
      <4> QED BY <1>3, <4>1, <4>4, <4>5
    <3> QED BY <3>1, <3>2, <3>3
  <2> QED BY <1>6, <1>7, <2>2, <2>3 DEF SqliteAt
<1>10. CASE opener[o].phase = "open"
  <2>1. v = 7 BY <1>5, <1>10 DEF SqliteAt
  <2>2. Torn' \/ Untorn(schema', v + 1, 0) BY <1>1, <1>3, <1>5, <2>1 DEF SqliteAt
  <2>3. \A p \in Moving : opener[p].todo = <<>>
    <3>1. \A p \in Moving : \A j \in 0 .. 8 : ~Amid(p, v, j) BY <2>1 DEF Amid
    <3> QED BY <1>5, <3>1 DEF SqliteAt
  <2>4. \A p \in Moving' : opener'[p].todo = <<>>
    <3>1. \A p \in Moving' : p \in Moving /\ p \in Openers /\ p # o BY <1>8 DEF Moving
    <3> QED BY <1>4, <2>3, <3>1
  <2> QED BY <1>6, <1>7, <2>1, <2>2, <2>4 DEF SqliteAt
<1> QED BY <1>9, <1>10 DEF Stop

-----------------------------------------------------------------------------
(* The statements of pgvector.                                              *)
Check(n) == Sql("check", n, 2)
Make(n) == Exists(VectorFiles[n])

LEMMA VectorStatements ==
    /\ \A n \in 1 .. 4 : /\ Check(n) \in SqlOf /\ Check(n).does = "check" /\ Check(n).on = n /\ Check(n).to = 2
                         /\ Make(n) \in SqlOf /\ Make(n).does = "create if not exists" /\ Make(n).on = VectorFiles[n]
                         /\ VectorFiles[n] \in Tables
    /\ Len(VectorFiles) = 4
<1>1. ASSUME NEW n \in 1 .. 4
      PROVE Check(n) \in MarkOf /\ Check(n).does = "check" /\ Check(n).on = n /\ Check(n).to = 2
  <2>1. n \in 0 .. 7 /\ 2 \in Nat OBVIOUS
  <2> QED BY <2>1 DEF Check, Sql, MarkOf, Marks
<1>2. ASSUME NEW t \in Tables
      PROVE  Exists(t) \in ChangeOf /\ Exists(t).does = "create if not exists" /\ Exists(t).on = t
  BY DEF Exists, Sql, ChangeOf, Changes
<1>3. /\ VectorFiles[1] = "vector" /\ VectorFiles[2] = "chunks" /\ VectorFiles[3] = "entities"
      /\ VectorFiles[4] = "relations" /\ Len(VectorFiles) = 4
  BY DEF VectorFiles
<1>4. "vector" \in Tables /\ "chunks" \in Tables /\ "entities" \in Tables /\ "relations" \in Tables
  BY DEF Tables
<1>5. ASSUME NEW n \in 1 .. 4 PROVE VectorFiles[n] \in Tables
  <2>1. n = 1 \/ n = 2 \/ n = 3 \/ n = 4 OBVIOUS
  <2> QED BY <1>3, <1>4, <2>1
<1> QED BY <1>1, <1>2, <1>3, <1>5, SqlOfIs DEF Make

LEMMA VectorFromIs ==
    /\ VectorFrom[5] = <<>>
    /\ \A n \in 1 .. 4 : VectorFrom[n] = (<<Check(n)>> \o <<Make(n), Record(n)>>) \o VectorFrom[n + 1]
<1> DEFINE F(n) == <<Check(n)>> \o <<Make(n), Record(n)>>
           q4 == F(4) \o <<>>
           q3 == F(3) \o q4
           q2 == F(2) \o q3
           q1 == F(1) \o q2
           P == [n \in 1 .. 5 |-> CASE n = 5 -> <<>> [] n = 4 -> q4 [] n = 3 -> q3 [] n = 2 -> q2 [] n = 1 -> q1]
           Step(f) == [n \in 1 .. 5 |-> IF n > 4 THEN <<>> ELSE F(n) \o f[n + 1]]
<1>1. P = Step(P)
  <2>1. P[5] = <<>> /\ P[4] = q4 /\ P[3] = q3 /\ P[2] = q2 /\ P[1] = q1
    <3> HIDE DEF q1, q2, q3, q4
    <3> QED OBVIOUS
  <2>2. \A n \in 1 .. 5 : P[n] = IF n > 4 THEN <<>> ELSE F(n) \o P[n + 1]
    <3> HIDE DEF P, F
    <3>1. P[4] = F(4) \o P[5] /\ P[3] = F(3) \o P[4] /\ P[2] = F(2) \o P[3] /\ P[1] = F(1) \o P[2] BY <2>1
    <3> HIDE DEF q1, q2, q3, q4
    <3>2. ASSUME NEW n \in 1 .. 5 PROVE P[n] = IF n > 4 THEN <<>> ELSE F(n) \o P[n + 1]
      <4>1. \/ n = 1 /\ n + 1 = 2 /\ ~(n > 4)
            \/ n = 2 /\ n + 1 = 3 /\ ~(n > 4)
            \/ n = 3 /\ n + 1 = 4 /\ ~(n > 4)
            \/ n = 4 /\ n + 1 = 5 /\ ~(n > 4)
            \/ n = 5 /\ n > 4
        OBVIOUS
      <4> QED BY <2>1, <3>1, <4>1
    <3> QED BY <3>2
  <2>3. P = [n \in 1 .. 5 |-> P[n]] OBVIOUS
  <2> HIDE DEF P
  <2> QED BY <2>2, <2>3
<1>2. Len(VectorFiles) = 4 /\ 4 + 1 = 5 BY DEF VectorFiles
<1>3. \A n : UnlessRecorded(n, <<Exists(VectorFiles[n]), Record(n)>>) = F(n)
  <2>1. \A n : Len(<<Exists(VectorFiles[n]), Record(n)>>) = 2 OBVIOUS
  <2> QED BY <2>1 DEF UnlessRecorded, Check, Make
<1> DEFINE Given(f) == [n \in 1 .. Len(VectorFiles) + 1 |->
                          IF n > Len(VectorFiles) THEN <<>>
                          ELSE UnlessRecorded(n, <<Exists(VectorFiles[n]), Record(n)>>) \o f[n + 1]]
<1>4. VectorFrom = CHOOSE f : f = Given(f) BY DEF VectorFrom
<1>5. ASSUME NEW f PROVE Given(f) = Step(f)
  <2> HIDE DEF F
  <2> QED BY <1>2, <1>3
<1> HIDE DEF P, Step, Given
<1>6. P = Given(P) BY <1>1, <1>5
<1>7. VectorFrom = Given(VectorFrom) BY <1>4, <1>6
<1>8. VectorFrom = Step(VectorFrom) BY <1>5, <1>7
<1> DEFINE R == VectorFrom
<1>9. R = [n \in 1 .. 5 |-> IF n > 4 THEN <<>> ELSE F(n) \o R[n + 1]] BY <1>8 DEF Step
<1> HIDE DEF R, F
<1>10. ASSUME NEW n \in 1 .. 5 PROVE R[n] = IF n > 4 THEN <<>> ELSE F(n) \o R[n + 1] BY <1>9
<1>11. R[5] = <<>> BY <1>10
<1>12. \A n \in 1 .. 4 : n \in 1 .. 5 /\ ~(n > 4) OBVIOUS
<1>13. \A n \in 1 .. 4 : R[n] = F(n) \o R[n + 1] BY <1>10, <1>12
<1> QED BY <1>11, <1>13 DEF R, F

LEMMA Pairs ==
    ASSUME NEW a, NEW b, NEW c
    PROVE  <<a>> \o <<b>> = <<a, b>> /\ <<a>> \o <<b, c>> = <<a, b, c>>
<1> DEFINE S == {a, b, c}
<1>1. <<a>> \in Seq(S) /\ <<b>> \in Seq(S) /\ <<b, c>> \in Seq(S) /\ <<a, b>> \in Seq(S) /\ <<a, b, c>> \in Seq(S)
  OBVIOUS
<1>2. <<a>> \o <<b>> = <<a, b>>
  <2>1. <<a>> \o <<b>> \in Seq(S) /\ Len(<<a>> \o <<b>>) = 2 /\ (<<a>> \o <<b>>)[1] = a /\ (<<a>> \o <<b>>)[2] = b
    BY <1>1
  <2>2. \A i \in 1 .. 2 : i = 1 \/ i = 2 OBVIOUS
  <2>3. \A i \in 1 .. 2 : (<<a>> \o <<b>>)[i] = <<a, b>>[i] BY <2>1, <2>2
  <2> HIDE DEF S
  <2> QED BY <1>1, <2>1, <2>3, SameList
<1>3. <<a>> \o <<b, c>> = <<a, b, c>>
  <2>1. /\ <<a>> \o <<b, c>> \in Seq(S) /\ Len(<<a>> \o <<b, c>>) = 3
        /\ (<<a>> \o <<b, c>>)[1] = a /\ (<<a>> \o <<b, c>>)[2] = b /\ (<<a>> \o <<b, c>>)[3] = c
    BY <1>1
  <2>2. \A i \in 1 .. 3 : i = 1 \/ i = 2 \/ i = 3 OBVIOUS
  <2>3. \A i \in 1 .. 3 : (<<a>> \o <<b, c>>)[i] = <<a, b, c>>[i] BY <2>1, <2>2
  <2> HIDE DEF S
  <2> QED BY <1>1, <2>1, <2>3, SameList
<1> QED BY <1>2, <1>3

LEMMA TwoPairs ==
    ASSUME NEW S, NEW q \in S, NEW r \in S, NEW u \in S, NEW w \in S
    PROVE  <<q, r>> \o <<u, w>> = <<q, r, u, w>>
<1> DEFINE s == <<q, r>> \o <<u, w>>
<1>1. <<q, r, u, w>> \in Seq(S) /\ Len(<<q, r, u, w>>) = 4 OBVIOUS
<1>2. s \in Seq(S) /\ Len(s) = 4 /\ s[1] = q /\ s[2] = r /\ s[3] = u /\ s[4] = w OBVIOUS
<1> HIDE DEF s
<1>3. \A i \in 1 .. 4 : i = 1 \/ i = 2 \/ i = 3 \/ i = 4 OBVIOUS
<1>4. \A i \in 1 .. 4 : s[i] = <<q, r, u, w>>[i] BY <1>2, <1>3
<1>5. s = <<q, r, u, w>> BY <1>1, <1>2, <1>4, SameList
<1> QED BY <1>5 DEF s

LEMMA FourBefore ==
    ASSUME NEW S, NEW q \in S, NEW r \in S, NEW u \in S, NEW w \in S, NEW t \in Seq(S)
    PROVE  <<q, r, u, w>> \o t \in Seq(S) /\ Splits(<<q, r, u, w>> \o t, q, <<r, u, w>> \o t)
BY DEF Splits

Tracking == Exists("pgvector_migrations")
Check0 == Sql("check", 0, 1)

LEMMA VectorListsAre ==
    /\ \A n \in 1 .. 5 : VectorFrom[n] \in Seq(SqlOf)
    /\ \A n \in 1 .. 4 : VectorFrom[n] = <<Check(n), Make(n), Record(n)>> \o VectorFrom[n + 1]
    /\ \A n \in 1 .. 4 : VectorFile(n) = <<Make(n), Record(n)>>
    /\ Tracking \in SqlOf /\ Check0 \in SqlOf /\ Host \in SqlOf
    /\ VectorPending = <<Host, Tracking, Check0, Record(0)>> \o VectorFrom[1]
    /\ <<Exists("pgvector_migrations")>> \o UpsertOrVerify(0) \o VectorFrom[1]
          = <<Tracking, Check0, Record(0)>> \o VectorFrom[1]
    /\ UpsertOrVerify(0) \o VectorFrom[1] = <<Check0, Record(0)>> \o VectorFrom[1]
<1>1. \A n \in 1 .. 4 : VectorFrom[n] = <<Check(n), Make(n), Record(n)>> \o VectorFrom[n + 1]
  BY VectorFromIs, Pairs
<1>2. ASSUME NEW n \in 1 .. 4, VectorFrom[n + 1] \in Seq(SqlOf) PROVE VectorFrom[n] \in Seq(SqlOf)
  <2>1. Check(n) \in SqlOf /\ Make(n) \in SqlOf /\ Record(n) \in SqlOf
    <3>1. n \in 0 .. 7 OBVIOUS
    <3> QED BY <3>1, VectorStatements, SqlOfIs
  <2>2. <<Check(n), Make(n), Record(n)>> \o VectorFrom[n + 1] \in Seq(SqlOf) BY <1>2, <2>1, ThreeBefore
  <2> QED BY <1>1, <2>2
<1>3. VectorFrom[5] \in Seq(SqlOf) BY VectorFromIs
<1>4. VectorFrom[4] \in Seq(SqlOf)
  <2>1. 4 + 1 = 5 /\ 4 \in 1 .. 4 OBVIOUS
  <2> QED BY <1>2, <1>3, <2>1
<1>5. VectorFrom[3] \in Seq(SqlOf)
  <2>1. 3 + 1 = 4 /\ 3 \in 1 .. 4 OBVIOUS
  <2> QED BY <1>2, <1>4, <2>1
<1>6. VectorFrom[2] \in Seq(SqlOf)
  <2>1. 2 + 1 = 3 /\ 2 \in 1 .. 4 OBVIOUS
  <2> QED BY <1>2, <1>5, <2>1
<1>7. VectorFrom[1] \in Seq(SqlOf)
  <2>1. 1 + 1 = 2 /\ 1 \in 1 .. 4 OBVIOUS
  <2> QED BY <1>2, <1>6, <2>1
<1>8. ASSUME NEW n \in 1 .. 5 PROVE VectorFrom[n] \in Seq(SqlOf)
  <2>1. n = 1 \/ n = 2 \/ n = 3 \/ n = 4 \/ n = 5 OBVIOUS
  <2> QED BY <1>3, <1>4, <1>5, <1>6, <1>7, <2>1
<1>9. \A n \in 1 .. 4 : VectorFile(n) = <<Make(n), Record(n)>> BY DEF VectorFile, Make
<1>10. Tracking \in SqlOf
  <2>1. "pgvector_migrations" \in Tables BY DEF Tables
  <2>2. Tracking \in ChangeOf BY <2>1 DEF Tracking, Exists, Sql, ChangeOf, Changes
  <2> QED BY <2>2, SqlOfIs
<1>11. Check0 \in SqlOf
  <2>1. Check0 \in MarkOf BY DEF Check0, Sql, MarkOf, Marks
  <2> QED BY <2>1, SqlOfIs
<1>12. Host \in SqlOf /\ Record(0) \in SqlOf
  <2>1. 0 \in 0 .. 7 OBVIOUS
  <2> QED BY <2>1, SqlOfIs
<1>13. UpsertOrVerify(0) = <<Check0, Record(0)>>
  <2>1. Len(<<Record(0)>>) = 1 OBVIOUS
  <2> QED BY <2>1, Pairs DEF UpsertOrVerify, UnlessRecorded, Check0
<1>14. <<Tracking>> \o <<Check0, Record(0)>> = <<Tracking, Check0, Record(0)>> BY Pairs
<1>15. (PreflightVectorExtension \o <<Tracking>>) \o <<Check0, Record(0)>> = <<Host, Tracking, Check0, Record(0)>>
  <2>1. PreflightVectorExtension = <<Host>> BY DEF PreflightVectorExtension, Host
  <2>2. <<Host>> \o <<Tracking>> = <<Host, Tracking>> BY Pairs
  <2>3. <<Host, Tracking>> \o <<Check0, Record(0)>> = <<Host, Tracking, Check0, Record(0)>>
    BY <1>10, <1>11, <1>12, TwoPairs
  <2> QED BY <2>1, <2>2, <2>3
<1> QED BY <1>1, <1>8, <1>9, <1>10, <1>11, <1>12, <1>13, <1>14, <1>15 DEF VectorPending, Tracking

(* What the next statement is, and what is left after it.                   *)
LEMMA VectorTurns ==
    ASSUME NEW todo, VectorAt(todo, schema, overlap), todo # <<>>
    PROVE  \/ Head(todo) \in {Host, Tracking} /\ VectorAt(Tail(todo), schema, overlap)
           \/ Head(todo) = Check0 /\ Tail(todo) = <<Record(0)>> \o VectorFrom[1]
              /\ SubSeq(todo, 3, Len(todo)) = VectorFrom[1]
           \/ Head(todo) = Record(0) /\ Tail(todo) = VectorFrom[1] /\ (~overlap => 0 \notin schema.versions)
           \/ \E n \in 1 .. 4 : /\ Head(todo) = Check(n) /\ Recorded(schema, n)
                                /\ Tail(todo) = VectorFile(n) \o VectorFrom[n + 1]
                                /\ SubSeq(todo, 4, Len(todo)) = VectorFrom[n + 1]
           \/ \E n \in 1 .. 4 : /\ Head(todo) = Make(n) /\ Recorded(schema, n) /\ (~overlap => n \notin schema.versions)
                                /\ Tail(todo) = <<Record(n)>> \o VectorFrom[n + 1]
           \/ \E n \in 1 .. 4 : /\ Head(todo) = Record(n) /\ Recorded(schema, n) /\ (~overlap => n \notin schema.versions)
                                /\ Tail(todo) = VectorFrom[n + 1] /\ VectorFiles[n] \in schema.tables
<1>1. Record(0) \in SqlOf /\ VectorFrom[1] \in Seq(SqlOf) /\ Tracking \in SqlOf /\ Check0 \in SqlOf /\ Host \in SqlOf
  <2>1. 0 \in 0 .. 7 /\ 1 \in 1 .. 5 OBVIOUS
  <2> QED BY <2>1, SqlOfIs, VectorListsAre
<1>2. \A n \in 1 .. 4 : Record(n) \in SqlOf /\ Make(n) \in SqlOf /\ Check(n) \in SqlOf /\ VectorFrom[n + 1] \in Seq(SqlOf)
  <2>1. \A n \in 1 .. 4 : n \in 0 .. 7 /\ n + 1 \in 1 .. 5 OBVIOUS
  <2> QED BY <2>1, SqlOfIs, VectorStatements, VectorListsAre
<1>3. CASE todo = VectorPending
  <2>1. todo = <<Host, Tracking, Check0, Record(0)>> \o VectorFrom[1] BY <1>3, VectorListsAre
  <2>2. Head(todo) = Host /\ Tail(todo) = <<Tracking, Check0, Record(0)>> \o VectorFrom[1]
    <3>1. Splits(todo, Host, <<Tracking, Check0, Record(0)>> \o VectorFrom[1]) BY <1>1, <2>1, FourBefore
    <3> QED BY <3>1 DEF Splits
  <2>3. VectorAt(Tail(todo), schema, overlap) BY <2>2, VectorListsAre DEF VectorAt
  <2> QED BY <2>2, <2>3
<1>4. CASE todo = <<Exists("pgvector_migrations")>> \o UpsertOrVerify(0) \o VectorFrom[1]
  <2>1. todo = <<Tracking, Check0, Record(0)>> \o VectorFrom[1] BY <1>4, VectorListsAre
  <2>2. Head(todo) = Tracking /\ Tail(todo) = <<Check0, Record(0)>> \o VectorFrom[1]
    <3>1. Splits(todo, Tracking, <<Check0, Record(0)>> \o VectorFrom[1]) BY <1>1, <2>1, ThreeBefore
    <3> QED BY <3>1 DEF Splits
  <2>3. VectorAt(Tail(todo), schema, overlap) BY <2>2, VectorListsAre DEF VectorAt
  <2> QED BY <2>2, <2>3
<1>5. CASE todo = UpsertOrVerify(0) \o VectorFrom[1]
  <2>1. todo = <<Check0, Record(0)>> \o VectorFrom[1] BY <1>5, VectorListsAre
  <2>2. Head(todo) = Check0 /\ Tail(todo) = <<Record(0)>> \o VectorFrom[1]
    <3>1. Splits(todo, Check0, <<Record(0)>> \o VectorFrom[1]) BY <1>1, <2>1, TwoBefore
    <3> QED BY <3>1 DEF Splits
  <2>3. SubSeq(todo, 3, Len(todo)) = VectorFrom[1] BY <1>1, <2>1, SkipTwo
  <2> QED BY <2>2, <2>3
<1>6. CASE todo = <<Record(0)>> \o VectorFrom[1] /\ (~overlap => 0 \notin schema.versions)
  <2>1. Head(todo) = Record(0) /\ Tail(todo) = VectorFrom[1]
    <3>1. Splits(todo, Record(0), VectorFrom[1]) BY <1>1, <1>6, OneBefore
    <3> QED BY <3>1 DEF Splits
  <2> QED BY <1>6, <2>1
<1>7. ASSUME NEW n \in 1 .. 5, todo = VectorFrom[n], Recorded(schema, n)
      PROVE  \E m \in 1 .. 4 : /\ Head(todo) = Check(m) /\ Recorded(schema, m)
                               /\ Tail(todo) = VectorFile(m) \o VectorFrom[m + 1]
                               /\ SubSeq(todo, 4, Len(todo)) = VectorFrom[m + 1]
  <2>1. n # 5 BY <1>7, VectorFromIs
  <2>2. n \in 1 .. 4 BY <2>1
  <2>3. todo = <<Check(n), Make(n), Record(n)>> \o VectorFrom[n + 1] BY <1>7, <2>2, VectorListsAre
  <2>4. Head(todo) = Check(n) /\ Tail(todo) = <<Make(n), Record(n)>> \o VectorFrom[n + 1]
    <3>1. Splits(todo, Check(n), <<Make(n), Record(n)>> \o VectorFrom[n + 1]) BY <1>2, <2>2, <2>3, ThreeBefore
    <3> QED BY <3>1 DEF Splits
  <2>5. SubSeq(todo, 4, Len(todo)) = VectorFrom[n + 1] BY <1>2, <2>2, <2>3, SkipThree
  <2>6. VectorFile(n) = <<Make(n), Record(n)>> BY <2>2, VectorListsAre
  <2> QED BY <1>7, <2>2, <2>4, <2>5, <2>6
<1>8. ASSUME NEW n \in 1 .. 4, todo = VectorFile(n) \o VectorFrom[n + 1]
      PROVE  Head(todo) = Make(n) /\ Tail(todo) = <<Record(n)>> \o VectorFrom[n + 1]
  <2>1. todo = <<Make(n), Record(n)>> \o VectorFrom[n + 1] BY <1>8, VectorListsAre
  <2>2. Splits(todo, Make(n), <<Record(n)>> \o VectorFrom[n + 1]) BY <1>2, <2>1, TwoBefore
  <2> QED BY <2>2 DEF Splits
<1>9. ASSUME NEW n \in 1 .. 4, todo = <<Record(n)>> \o VectorFrom[n + 1]
      PROVE  Head(todo) = Record(n) /\ Tail(todo) = VectorFrom[n + 1]
  <2>1. Splits(todo, Record(n), VectorFrom[n + 1]) BY <1>2, <1>9, OneBefore
  <2> QED BY <2>1 DEF Splits
<1> QED BY <1>3, <1>4, <1>5, <1>6, <1>7, <1>8, <1>9 DEF VectorAt

(* What one opener does leaves the others where they are in their files.    *)
LEMMA VectorGoesOn ==
    ASSUME MigInv, backendKind = "pgvector", NEW o \in Openers,
           \A p \in Openers : p # o => opener'[p] = opener[p],
           schema.tables \subseteq schema'.tables, schema.versions \subseteq schema'.versions,
           schema'.versions \subseteq 0 .. 4, \A n \in schema'.versions \ {0} : VectorFiles[n] \in schema'.tables,
           overlap => overlap',
           overlap' \/ schema'.versions = schema.versions \/ Moving \subseteq {o},
           opener'[o].phase = "migrating" => VectorAt(opener'[o].todo, schema', overlap'),
           opener'[o].phase = "open" => schema'.versions = 0 .. 4,
           opener'[o].phase = "failed" => overlap'
    PROVE  VectorInv'
<1>1. /\ \A p \in Openers : /\ opener[p].phase = "open" => schema.versions = 0 .. 4
                            /\ opener[p].phase = "failed" => overlap
      /\ \A p \in Moving : VectorAt(opener[p].todo, schema, overlap)
  BY DEF MigInv, VectorInv
<1>2. ASSUME NEW p \in Openers
      PROVE  (opener'[p].phase = "open" => schema'.versions = 0 .. 4) /\ (opener'[p].phase = "failed" => overlap')
  <2>1. CASE p = o BY <2>1
  <2>2. CASE p # o BY <1>1, <2>2
  <2> QED BY <2>1, <2>2
<1>3. ASSUME NEW todo, VectorAt(todo, schema, overlap), overlap' \/ schema'.versions = schema.versions
      PROVE VectorAt(todo, schema', overlap')
  <2>1. \A n \in 1 .. 5 : Recorded(schema, n) => Recorded(schema', n) BY DEF Recorded
  <2>2. \A n \in 1 .. 4 : n \in 1 .. 5 OBVIOUS
  <2>3. \A n : (~overlap => n \notin schema.versions) => (~overlap' => n \notin schema'.versions) BY <1>3
  <2> QED BY <1>3, <2>1, <2>2, <2>3 DEF VectorAt
<1>4. ASSUME NEW p \in Moving' PROVE VectorAt(opener'[p].todo, schema', overlap')
  <2>1. p \in Openers /\ opener'[p].phase = "migrating" BY DEF Moving
  <2>2. CASE p = o BY <2>1, <2>2
  <2>3. CASE p # o
    <3>1. opener'[p] = opener[p] /\ p \in Moving BY <2>1, <2>3 DEF Moving
    <3>2. VectorAt(opener[p].todo, schema, overlap) /\ (overlap' \/ schema'.versions = schema.versions)
      BY <1>1, <2>3, <3>1
    <3>3. VectorAt(opener[p].todo, schema', overlap') BY <1>3, <3>2
    <3> QED BY <3>1, <3>3
  <2> QED BY <2>2, <2>3
<1> QED BY <1>2, <1>4 DEF VectorInv

LEMMA VectorRuns ==
    ASSUME MigInv, NEW o \in Openers, SqlStatement(o), backendKind = "pgvector"
    PROVE  VectorInv'
<1> DEFINE todo == opener[o].todo
           q == Head(todo)
<1>1. MigShape /\ VectorInv BY DEF MigInv
<1>2. /\ opener[o].phase = "migrating" /\ todo # <<>>
      /\ \A p \in Openers : p # o => opener'[p] = opener[p]
      /\ overlap' = overlap
      /\ Fails(schema, q) => schema' = schema /\ opener'[o].phase = "failed"
      /\ ~Fails(schema, q) =>
            /\ opener'[o].phase = "migrating"
            /\ schema' = IF q.does \in {"file", "check"} THEN schema ELSE Effect(schema, q)
            /\ opener'[o].todo = IF q.does = "check" /\ q.on \in schema.versions
                                 THEN SubSeq(todo, q.to + 2, Len(todo)) ELSE Tail(todo)
  BY <1>1, StatementTurns
<1>3. /\ schema.versions \subseteq 0 .. 4 /\ schema \in Schema
      /\ \A n \in schema.versions \ {0} : VectorFiles[n] \in schema.tables
      /\ VectorAt(todo, schema, overlap)
  BY <1>1, <1>2 DEF VectorInv, Moving, MigShape
<1> HIDE DEF q, todo
(* A lookup.                                                                *)
<1>4. ASSUME NEW n \in 0 .. 7, NEW k \in 1 .. 2, q = Sql("check", n, k),
             VectorAt(Tail(todo), schema, overlap) \/ n \in schema.versions,
             n \in schema.versions => VectorAt(SubSeq(todo, k + 2, Len(todo)), schema, overlap)
      PROVE  VectorInv'
  <2>1. q.does = "check" /\ q.on = n /\ q.to = k BY <1>4 DEF Sql
  <2>2. ~Fails(schema, q) BY <2>1 DEF Fails
  <2>3. schema' = schema /\ opener'[o].phase = "migrating" BY <1>2, <2>1, <2>2
  <2>4. VectorAt(opener'[o].todo, schema', overlap')
    <3>1. CASE n \in schema.versions
      <4>1. opener'[o].todo = SubSeq(todo, k + 2, Len(todo)) BY <1>2, <2>1, <2>2, <3>1
      <4> QED BY <1>2, <1>4, <2>3, <3>1, <4>1
    <3>2. CASE n \notin schema.versions
      <4>1. opener'[o].todo = Tail(todo) BY <1>2, <2>1, <2>2, <3>2
      <4> QED BY <1>2, <1>4, <2>3, <3>2, <4>1
    <3> QED BY <3>1, <3>2
  <2> QED BY <1>2, <1>3, <2>3, <2>4, VectorGoesOn
(* A table or the extension, unless it is there.                            *)
<1>5. ASSUME NEW t \in Tables, q.does = "create if not exists", q.on = t,
             VectorAt(Tail(todo), [schema EXCEPT !.tables = @ \union {t}], overlap)
      PROVE  VectorInv'
  <2>1. ~Fails(schema, q) BY <1>5 DEF Fails
  <2>2. Effect(schema, q) = [schema EXCEPT !.tables = @ \union {t}] BY <1>5 DEF Effect
  <2>3. q.does \notin {"file", "check"} /\ q.does # "check" BY <1>5
  <2>4. /\ schema' = [schema EXCEPT !.tables = @ \union {t}] /\ opener'[o].phase = "migrating"
        /\ opener'[o].todo = Tail(todo)
    BY <1>2, <2>1, <2>2, <2>3
  <2>5. schema'.tables = schema.tables \union {t} /\ schema'.versions = schema.versions BY <1>3, <2>4 DEF Schema
  <2>6. VectorAt(opener'[o].todo, schema', overlap') BY <1>2, <1>5, <2>4
  <2> QED BY <1>2, <1>3, <2>4, <2>5, <2>6, VectorGoesOn
(* A record.                                                                *)
<1>6. ASSUME NEW n \in 0 .. 4, q = Record(n), ~overlap => n \notin schema.versions,
             n # 0 => VectorFiles[n] \in schema.tables, Recorded(schema, n), Tail(todo) = VectorFrom[n + 1]
      PROVE  VectorInv'
  <2>1. n \in 0 .. 7 /\ n + 1 \in 1 .. 5 OBVIOUS
  <2>2. CASE n \in schema.versions
    <3>1. Fails(schema, q) BY <1>3, <1>6, <2>1, <2>2, RecordDoes
    <3>2. schema' = schema /\ opener'[o].phase = "failed" /\ overlap' BY <1>2, <1>6, <2>2, <3>1
    <3> QED BY <1>2, <1>3, <3>2, VectorGoesOn
  <2>3. CASE n \notin schema.versions
    <3>1. ~Fails(schema, q) /\ Effect(schema, q) = [schema EXCEPT !.versions = @ \union {n}]
      BY <1>3, <1>6, <2>1, <2>3, RecordDoes
    <3>2. q.does \notin {"file", "check"} /\ q.does # "check" BY <1>6 DEF Record, Sql
    <3>3. /\ schema' = [schema EXCEPT !.versions = @ \union {n}] /\ opener'[o].phase = "migrating"
          /\ opener'[o].todo = VectorFrom[n + 1]
      BY <1>2, <1>6, <3>1, <3>2
    <3>4. schema'.tables = schema.tables /\ schema'.versions = schema.versions \union {n}
      BY <1>3, <3>3 DEF Schema
    <3>5. Recorded(schema', n + 1)
      <4>1. 0 .. (n + 1) - 1 = (0 .. n - 1) \union {n} OBVIOUS
      <4> QED BY <1>6, <3>4, <4>1 DEF Recorded
    <3>6. VectorAt(opener'[o].todo, schema', overlap') BY <2>1, <3>3, <3>5 DEF VectorAt
    <3>7. overlap' \/ Moving \subseteq {o}
      <4>1. ~overlap => Moving = {o} BY <1>1, <1>2, OnlyOneMoves
      <4> QED BY <1>2, <4>1
    <3>8. \A m \in schema'.versions \ {0} : VectorFiles[m] \in schema'.tables BY <1>3, <1>6, <3>4
    <3>9. schema'.versions \subseteq 0 .. 4 BY <1>3, <3>4
    <3> QED BY <1>2, <1>3, <3>3, <3>4, <3>6, <3>7, <3>8, <3>9, VectorGoesOn
  <2> QED BY <2>2, <2>3
<1>7. ASSUME NEW t
      PROVE  /\ [schema EXCEPT !.tables = @ \union {t}].versions = schema.versions
             /\ [schema EXCEPT !.tables = @ \union {t}].tables = schema.tables \union {t}
  BY <1>3 DEF Schema
<1>8. CASE q \in {Host, Tracking} /\ VectorAt(Tail(todo), schema, overlap)
  <2>1. "vector" \in Tables /\ "pgvector_migrations" \in Tables BY DEF Tables
  <2>2. PICK t \in Tables : q.does = "create if not exists" /\ q.on = t
    <3>1. Host.does = "create if not exists" /\ Host.on = "vector" BY DEF Host, Sql
    <3>2. Tracking.does = "create if not exists" /\ Tracking.on = "pgvector_migrations"
      BY DEF Tracking, Exists, Sql
    <3>3. q = Host \/ q = Tracking BY <1>8
    <3> QED BY <2>1, <3>1, <3>2, <3>3
  <2> DEFINE s == [schema EXCEPT !.tables = @ \union {t}]
  <2>3. s.versions = schema.versions /\ s.tables = schema.tables \union {t} BY <1>7
  <2> HIDE DEF s
  <2>4. \A n : Recorded(schema, n) => Recorded(s, n) BY <2>3 DEF Recorded
  <2>5. VectorAt(Tail(todo), s, overlap) BY <1>8, <2>3, <2>4 DEF VectorAt
  <2> QED BY <1>5, <2>2, <2>5 DEF s
<1>9. CASE /\ q = Check0 /\ Tail(todo) = <<Record(0)>> \o VectorFrom[1]
           /\ SubSeq(todo, 3, Len(todo)) = VectorFrom[1]
  <2>1. 0 \in 0 .. 7 /\ 1 \in 1 .. 2 /\ 1 + 2 = 3 /\ 1 \in 1 .. 5 /\ 0 .. 1 - 1 = {0} OBVIOUS
  <2>2. q = Sql("check", 0, 1) BY <1>9 DEF Check0
  <2>3. 0 \notin schema.versions => VectorAt(Tail(todo), schema, overlap) BY <1>9 DEF VectorAt
  <2>4. ASSUME 0 \in schema.versions PROVE VectorAt(SubSeq(todo, 1 + 2, Len(todo)), schema, overlap)
    <3>1. Recorded(schema, 1) BY <2>1, <2>4 DEF Recorded
    <3>2. SubSeq(todo, 1 + 2, Len(todo)) = VectorFrom[1] BY <1>9, <2>1
    <3> QED BY <2>1, <3>1, <3>2 DEF VectorAt
  <2> QED BY <1>4, <2>1, <2>2, <2>3, <2>4
<1>10. CASE q = Record(0) /\ Tail(todo) = VectorFrom[1] /\ (~overlap => 0 \notin schema.versions)
  <2>1. 0 \in 0 .. 4 /\ 0 + 1 = 1 /\ 0 .. 0 - 1 = {} OBVIOUS
  <2>2. Recorded(schema, 0) BY <2>1 DEF Recorded
  <2> QED BY <1>6, <1>10, <2>1, <2>2
<1>11. ASSUME NEW n \in 1 .. 4, q = Check(n), Recorded(schema, n), Tail(todo) = VectorFile(n) \o VectorFrom[n + 1],
              SubSeq(todo, 4, Len(todo)) = VectorFrom[n + 1]
       PROVE  VectorInv'
  <2>1. n \in 0 .. 7 /\ 2 \in 1 .. 2 /\ 2 + 2 = 4 /\ n + 1 \in 1 .. 5 /\ 0 .. (n + 1) - 1 = (0 .. n - 1) \union {n}
    OBVIOUS
  <2>2. q = Sql("check", n, 2) BY <1>11 DEF Check
  <2>3. n \notin schema.versions => VectorAt(Tail(todo), schema, overlap) BY <1>11 DEF VectorAt
  <2>4. ASSUME n \in schema.versions PROVE VectorAt(SubSeq(todo, 2 + 2, Len(todo)), schema, overlap)
    <3>1. Recorded(schema, n + 1) BY <1>11, <2>1, <2>4 DEF Recorded
    <3>2. SubSeq(todo, 2 + 2, Len(todo)) = VectorFrom[n + 1] BY <1>11, <2>1
    <3> QED BY <2>1, <3>1, <3>2 DEF VectorAt
  <2> QED BY <1>4, <2>1, <2>2, <2>3, <2>4
<1>12. ASSUME NEW n \in 1 .. 4, q = Make(n), Recorded(schema, n), ~overlap => n \notin schema.versions,
              Tail(todo) = <<Record(n)>> \o VectorFrom[n + 1]
       PROVE  VectorInv'
  <2> DEFINE t == VectorFiles[n]
             s == [schema EXCEPT !.tables = @ \union {t}]
  <2>1. t \in Tables /\ q.does = "create if not exists" /\ q.on = t BY <1>12, VectorStatements
  <2>2. s.versions = schema.versions /\ s.tables = schema.tables \union {t} BY <1>7
  <2> HIDE DEF s
  <2>3. Recorded(s, n) BY <1>12, <2>2 DEF Recorded
  <2>4. VectorAt(Tail(todo), s, overlap) BY <1>12, <2>2, <2>3 DEF VectorAt
  <2> HIDE DEF t
  <2> QED BY <1>5, <2>1, <2>4 DEF s
<1>13. ASSUME NEW n \in 1 .. 4, q = Record(n), Recorded(schema, n), ~overlap => n \notin schema.versions,
              Tail(todo) = VectorFrom[n + 1], VectorFiles[n] \in schema.tables
       PROVE  VectorInv'
  <2>1. n \in 0 .. 4 OBVIOUS
  <2> QED BY <1>6, <1>13, <2>1
<1>14. \/ q \in {Host, Tracking} /\ VectorAt(Tail(todo), schema, overlap)
       \/ q = Check0 /\ Tail(todo) = <<Record(0)>> \o VectorFrom[1] /\ SubSeq(todo, 3, Len(todo)) = VectorFrom[1]
       \/ q = Record(0) /\ Tail(todo) = VectorFrom[1] /\ (~overlap => 0 \notin schema.versions)
       \/ \E n \in 1 .. 4 : /\ q = Check(n) /\ Recorded(schema, n)
                            /\ Tail(todo) = VectorFile(n) \o VectorFrom[n + 1]
                            /\ SubSeq(todo, 4, Len(todo)) = VectorFrom[n + 1]
       \/ \E n \in 1 .. 4 : /\ q = Make(n) /\ Recorded(schema, n) /\ (~overlap => n \notin schema.versions)
                            /\ Tail(todo) = <<Record(n)>> \o VectorFrom[n + 1]
       \/ \E n \in 1 .. 4 : /\ q = Record(n) /\ Recorded(schema, n) /\ (~overlap => n \notin schema.versions)
                            /\ Tail(todo) = VectorFrom[n + 1] /\ VectorFiles[n] \in schema.tables
  BY <1>2, <1>3, VectorTurns DEF q
<1> QED BY <1>8, <1>9, <1>10, <1>11, <1>12, <1>13, <1>14
(* Openers that have overlapped have overlapped for good.                   *)
LEMMA OverlapStays == ASSUME MigNext, overlap PROVE overlap'
<1>1. PICK o \in Openers : Open(o) \/ SqlStatement(o) \/ PreflightFails(o) \/ Opened(o) \/ Stop(o)
                             \/ \E r \in OldRows : Use(o, r)
  BY DEF MigNext
<1>2. CASE Open(o)
  <2>1. overlap' = (overlap \/ Migrating(o) # {}) BY <1>2 DEF Open
  <2> QED BY <2>1, Zenon
<1>3. CASE ~Open(o)
  <2>1. overlap' = overlap BY <1>1, <1>3 DEF SqlStatement, PreflightFails, Opened, Stop, Use
  <2> QED BY <2>1, Zenon
<1> QED BY <1>2, <1>3

LEMMA VectorOthers ==
    ASSUME MigInv, NEW o \in Openers, backendKind = "pgvector",
           Open(o) \/ PreflightFails(o) \/ Opened(o) \/ Stop(o)
    PROVE  VectorInv'
<1>1. /\ MigShape
      /\ schema.versions \subseteq 0 .. 4
      /\ \A n \in schema.versions \ {0} : VectorFiles[n] \in schema.tables
      /\ \A p \in Moving : VectorAt(opener[p].todo, schema, overlap)
  BY DEF MigInv, VectorInv
<1>2. schema' = schema /\ (overlap => overlap')
  <2>1. MigNext BY DEF MigNext
  <2>2. schema' = schema BY DEF Open, PreflightFails, Opened, Stop
  <2> QED BY <2>1, <2>2, OverlapStays
<1>3. ASSUME NEW x, opener' = [opener EXCEPT ![o] = x], x.phase \notin {"open", "failed"},
             x.phase = "migrating" => VectorAt(x.todo, schema, overlap')
      PROVE  VectorInv'
  <2>1. opener'[o] = x /\ \A p \in Openers : p # o => opener'[p] = opener[p] BY <1>1, <1>3, OpenerTurns
  <2>2. /\ opener'[o].phase = "migrating" => VectorAt(opener'[o].todo, schema', overlap')
        /\ opener'[o].phase # "open" /\ opener'[o].phase # "failed"
    BY <1>2, <1>3, <2>1
  <2> QED BY <1>1, <1>2, <2>1, <2>2, VectorGoesOn
<1>4. CASE Open(o)
  <2> DEFINE x == [phase |-> "migrating", todo |-> VectorPending]
  <2>1. opener' = [opener EXCEPT ![o] = x] BY <1>4 DEF Open, ToRun
  <2>2. x.phase = "migrating" /\ x.todo = VectorPending OBVIOUS
  <2> HIDE DEF x
  <2>3. VectorAt(x.todo, schema, overlap') BY <2>2 DEF VectorAt
  <2> QED BY <1>3, <2>1, <2>2, <2>3
<1>5. CASE PreflightFails(o)
  <2> DEFINE x == [phase |-> "refused", todo |-> <<>>]
  <2>1. opener' = [opener EXCEPT ![o] = x] BY <1>5 DEF PreflightFails
  <2>2. x.phase = "refused" OBVIOUS
  <2> HIDE DEF x
  <2> QED BY <1>3, <2>1, <2>2
<1>6. CASE Stop(o)
  <2>1. opener' = [opener EXCEPT ![o] = Closed] BY <1>6 DEF Stop
  <2>2. Closed.phase = "closed" BY DEF Closed
  <2> QED BY <1>3, <2>1, <2>2
<1>7. CASE Opened(o)
  <2> DEFINE x == [opener[o] EXCEPT !.phase = "open"]
  <2>1. opener[o].phase = "migrating" /\ opener[o].todo = <<>> /\ opener' = [opener EXCEPT ![o] = x]
    BY <1>7 DEF Opened
  <2>2. x.phase = "open"
    <3>1. opener[o] \in [phase: Phases, todo: Seq(SqlOf)] BY <1>1 DEF MigShape
    <3> QED BY <3>1
  <2> HIDE DEF x
  <2>3. opener'[o] = x /\ \A p \in Openers : p # o => opener'[p] = opener[p] BY <1>1, <2>1, OpenerTurns
  <2>4. VectorAt(<<>>, schema, overlap) BY <1>1, <2>1 DEF Moving
  <2>5. Recorded(schema, 5)
    <3>1. Record(0) \in SqlOf /\ VectorFrom[1] \in Seq(SqlOf) /\ Tracking \in SqlOf /\ Check0 \in SqlOf /\ Host \in SqlOf
      <4>1. 0 \in 0 .. 7 /\ 1 \in 1 .. 5 OBVIOUS
      <4> QED BY <4>1, SqlOfIs, VectorListsAre
    <3>2. \A n \in 1 .. 4 : /\ Record(n) \in SqlOf /\ Make(n) \in SqlOf /\ Check(n) \in SqlOf
                            /\ VectorFrom[n + 1] \in Seq(SqlOf)
      <4>1. \A n \in 1 .. 4 : n \in 0 .. 7 /\ n + 1 \in 1 .. 5 OBVIOUS
      <4> QED BY <4>1, SqlOfIs, VectorStatements, VectorListsAre
    <3>3. VectorPending # <<>> BY <3>1, VectorListsAre, FourBefore DEF Splits
    <3>4. <<Exists("pgvector_migrations")>> \o UpsertOrVerify(0) \o VectorFrom[1] # <<>>
      BY <3>1, VectorListsAre, ThreeBefore DEF Splits
    <3>5. UpsertOrVerify(0) \o VectorFrom[1] # <<>>
      <4>1. Splits(UpsertOrVerify(0) \o VectorFrom[1], Check0, <<Record(0)>> \o VectorFrom[1])
        BY <3>1, VectorListsAre, TwoBefore
      <4> QED BY <4>1 DEF Splits
    <3>6. <<Record(0)>> \o VectorFrom[1] # <<>> BY <3>1, OneBefore DEF Splits
    <3>7. ASSUME NEW n \in 1 .. 4
          PROVE  /\ VectorFrom[n] # <<>> /\ VectorFile(n) \o VectorFrom[n + 1] # <<>>
                 /\ <<Record(n)>> \o VectorFrom[n + 1] # <<>>
      <4>1. VectorFrom[n] # <<>>
        <5>1. Splits(VectorFrom[n], Check(n), <<Make(n), Record(n)>> \o VectorFrom[n + 1])
          BY <3>2, VectorListsAre, ThreeBefore
        <5> QED BY <5>1 DEF Splits
      <4>2. VectorFile(n) \o VectorFrom[n + 1] # <<>>
        <5>1. Splits(VectorFile(n) \o VectorFrom[n + 1], Make(n), <<Record(n)>> \o VectorFrom[n + 1])
          BY <3>2, VectorListsAre, TwoBefore
        <5> QED BY <5>1 DEF Splits
      <4>3. <<Record(n)>> \o VectorFrom[n + 1] # <<>>
        <5>1. Splits(<<Record(n)>> \o VectorFrom[n + 1], Record(n), VectorFrom[n + 1]) BY <3>2, OneBefore
        <5> QED BY <5>1 DEF Splits
      <4> QED BY <4>1, <4>2, <4>3
    <3>8. \E n \in 1 .. 5 : <<>> = VectorFrom[n] /\ Recorded(schema, n)
      BY <2>4, <3>3, <3>4, <3>5, <3>6, <3>7 DEF VectorAt
    <3>9. \A n \in 1 .. 5 : n = 5 \/ n \in 1 .. 4 OBVIOUS
    <3> QED BY <3>7, <3>8, <3>9
  <2>6. schema'.versions = 0 .. 4
    <3>1. 0 .. 5 - 1 = 0 .. 4 OBVIOUS
    <3> QED BY <1>1, <1>2, <2>5, <3>1 DEF Recorded
  <2>7. opener'[o].phase = "open" BY <2>2, <2>3
  <2> QED BY <1>1, <1>2, <2>3, <2>6, <2>7, VectorGoesOn
<1> QED BY <1>4, <1>5, <1>6, <1>7

-----------------------------------------------------------------------------
(* The steps of openers of a PostgreSQL store.                              *)
LEMMA PostgresPendingIs ==
    ASSUME NEW s
    PROVE  PostgresPending(s) \in Seq(SqlOf) /\ Unrecorded(PostgresPending(s), s)
<1> DEFINE File(n) == Sql("file", n, n)
<1>1. \A n \in 0 .. 1 : /\ File(n) \in SqlOf /\ Record(n) \in SqlOf /\ File(n).does = "file"
                        /\ Record(n).does = "record" /\ Record(n).on = n
  <2>1. ASSUME NEW n \in 0 .. 1 PROVE File(n) \in MarkOf /\ File(n).does = "file"
    <3>1. n \in 0 .. 7 /\ n \in Nat OBVIOUS
    <3> QED BY <3>1 DEF Sql, MarkOf, Marks
  <2>2. \A n \in 0 .. 1 : n \in 0 .. 7 OBVIOUS
  <2> HIDE DEF File
  <2> QED BY <2>1, <2>2, SqlOfIs
<1>2. PostgresFile(0) = <<File(0), Record(0)>> /\ PostgresFile(1) = <<File(1), Record(1)>> BY DEF PostgresFile
<1> HIDE DEF File
<1>3. 0 \in 0 .. 1 /\ 1 \in 0 .. 1 /\ <<>> \in Seq(SqlOf) OBVIOUS
<1>4. <<File(0), Record(0)>> \in Seq(SqlOf) /\ <<File(1), Record(1)>> \in Seq(SqlOf)
      /\ <<File(0), Record(0), File(1), Record(1)>> \in Seq(SqlOf)
  BY <1>1, <1>3
<1>5. <<File(0), Record(0)>> \o <<File(1), Record(1)>> = <<File(0), Record(0), File(1), Record(1)>>
  BY <1>1, <1>3, TwoPairs
<1>6. \A t \in Seq(SqlOf) : t \o <<>> = t /\ <<>> \o t = t OBVIOUS
<1>7. CASE 0 \in s.versions /\ 1 \in s.versions
  <2>1. PostgresPending(s) = <<>> BY <1>3, <1>6, <1>7 DEF PostgresPending
  <2>2. DOMAIN <<>> = {} OBVIOUS
  <2> QED BY <1>3, <2>1, <2>2 DEF Unrecorded
<1>8. ASSUME NEW n \in 0 .. 1, n \notin s.versions, PostgresPending(s) = <<File(n), Record(n)>>
      PROVE  Unrecorded(PostgresPending(s), s)
  <2> DEFINE t == <<File(n), Record(n)>>
  <2>1. t[1] = File(n) /\ t[2] = Record(n) /\ DOMAIN t = 1 .. 2 OBVIOUS
  <2>2. \A i \in 1 .. 2 : i = 1 \/ i = 2 OBVIOUS
  <2>3. t[1].does = "file" /\ t[2].does = "record" /\ t[2].on = n BY <1>1, <2>1
  <2> HIDE DEF t
  <2>4. Unrecorded(t, s) BY <1>8, <2>1, <2>2, <2>3 DEF Unrecorded
  <2> QED BY <1>8, <2>4 DEF t
<1>9. CASE 0 \in s.versions /\ 1 \notin s.versions
  <2>1. PostgresPending(s) = <<File(1), Record(1)>> BY <1>2, <1>4, <1>6, <1>9 DEF PostgresPending
  <2> QED BY <1>3, <1>4, <1>8, <1>9, <2>1
<1>10. CASE 0 \notin s.versions /\ 1 \in s.versions
  <2>1. PostgresPending(s) = <<File(0), Record(0)>> BY <1>2, <1>4, <1>6, <1>10 DEF PostgresPending
  <2> QED BY <1>3, <1>4, <1>8, <1>10, <2>1
<1>11. CASE 0 \notin s.versions /\ 1 \notin s.versions
  <2> DEFINE t == <<File(0), Record(0), File(1), Record(1)>>
  <2>1. PostgresPending(s) = t BY <1>2, <1>5, <1>11 DEF PostgresPending
  <2>2. t[1] = File(0) /\ t[2] = Record(0) /\ t[3] = File(1) /\ t[4] = Record(1) /\ DOMAIN t = 1 .. 4 OBVIOUS
  <2>3. \A i \in 1 .. 4 : i = 1 \/ i = 2 \/ i = 3 \/ i = 4 OBVIOUS
  <2>4. /\ t[1].does = "file" /\ t[2].does = "record" /\ t[2].on = 0
        /\ t[3].does = "file" /\ t[4].does = "record" /\ t[4].on = 1
    BY <1>1, <1>3, <2>2
  <2> HIDE DEF t
  <2>5. Unrecorded(t, s) BY <1>11, <2>2, <2>3, <2>4 DEF Unrecorded
  <2> QED BY <1>4, <2>1, <2>5 DEF t
<1> QED BY <1>7, <1>9, <1>10, <1>11

LEMMA PostgresKept ==
    ASSUME MigInv, MigNext, backendKind = "postgres", ~overlap'
    PROVE  PostgresInv'
<1>1. PICK o \in Openers : Open(o) \/ SqlStatement(o) \/ PreflightFails(o) \/ Opened(o) \/ Stop(o)
                             \/ \E r \in OldRows : Use(o, r)
  BY DEF MigNext
<1>2. MigShape /\ ~overlap BY OverlapStays DEF MigInv
<1>3. /\ \A p \in Openers : opener[p].phase # "failed"
      /\ \A p \in Moving : Unrecorded(opener[p].todo, schema)
  BY <1>2 DEF MigInv, PostgresInv
<1>4. ASSUME \A p \in Openers : p # o => opener'[p] = opener[p],
             opener'[o].phase # "failed", schema' = schema \/ Moving = {o},
             opener'[o].phase = "migrating" => Unrecorded(opener'[o].todo, schema')
      PROVE  PostgresInv'
  <2>1. \A p \in Openers : opener'[p].phase # "failed" BY <1>3, <1>4
  <2>2. ASSUME NEW p \in Moving' PROVE Unrecorded(opener'[p].todo, schema')
    <3>1. p \in Openers /\ opener'[p].phase = "migrating" BY DEF Moving
    <3>2. CASE p = o BY <1>4, <3>1, <3>2
    <3>3. CASE p # o
      <4>1. p \in Moving /\ opener'[p] = opener[p] BY <1>4, <3>1, <3>3 DEF Moving
      <4>2. schema' = schema BY <1>4, <3>3, <4>1
      <4> QED BY <1>3, <4>1, <4>2
    <3> QED BY <3>2, <3>3
  <2> QED BY <2>1, <2>2 DEF PostgresInv, Unrecorded
<1>5. ASSUME NEW x, opener' = [opener EXCEPT ![o] = x], schema' = schema, x.phase # "failed",
             x.phase = "migrating" => Unrecorded(x.todo, schema)
      PROVE  PostgresInv'
  <2>1. opener'[o] = x /\ \A p \in Openers : p # o => opener'[p] = opener[p] BY <1>2, <1>5, OpenerTurns
  <2> QED BY <1>4, <1>5, <2>1
<1>6. CASE Open(o)
  <2> DEFINE x == [phase |-> "migrating", todo |-> PostgresPending(schema)]
  <2>1. opener' = [opener EXCEPT ![o] = x] /\ schema' = schema BY <1>6 DEF Open, ToRun
  <2>2. x.phase # "failed" /\ x.todo = PostgresPending(schema) OBVIOUS
  <2> HIDE DEF x
  <2> QED BY <1>5, <2>1, <2>2, PostgresPendingIs
<1>7. CASE SqlStatement(o)
  <2> DEFINE todo == opener[o].todo
             q == Head(todo)
  <2>1. /\ opener[o].phase = "migrating" /\ todo # <<>> /\ todo \in Seq(SqlOf)
        /\ \A p \in Openers : p # o => opener'[p] = opener[p]
        /\ ~Fails(schema, q) =>
              /\ opener'[o].phase = "migrating"
              /\ schema' = IF q.does \in {"file", "check"} THEN schema ELSE Effect(schema, q)
              /\ opener'[o].todo = IF q.does = "check" /\ q.on \in schema.versions
                                   THEN SubSeq(todo, q.to + 2, Len(todo)) ELSE Tail(todo)
    BY <1>2, <1>7, StatementTurns
  <2>2. Moving = {o} /\ Unrecorded(todo, schema)
    <3>1. Moving = {o} BY <1>2, <2>1, OnlyOneMoves
    <3> QED BY <1>3, <3>1
  <2> HIDE DEF q, todo
  <2>3. q = todo[1] /\ 1 \in DOMAIN todo BY <2>1 DEF q
  <2>4. q.does = "file" \/ q.does = "record" BY <2>2, <2>3 DEF Unrecorded
  <2>5. ~Fails(schema, q)
    <3>1. q.does = "record" => q.on \notin schema.versions BY <2>2, <2>3 DEF Unrecorded
    <3> QED BY <2>4, <3>1 DEF Fails
  <2>6. /\ opener'[o].phase = "migrating" /\ opener'[o].todo = Tail(todo)
        /\ q.does = "file" => schema' = schema
        /\ q.does = "record" => schema' = Effect(schema, q)
    BY <2>1, <2>4, <2>5
  <2>7. schema'.versions \subseteq IF q.does = "record" THEN schema.versions \union {q.on} ELSE schema.versions
    <3>1. schema \in Schema BY <1>2 DEF MigShape
    <3>2. CASE q.does = "file" BY <2>6, <3>2
    <3>3. CASE q.does = "record"
      <4>1. Effect(schema, q) = [schema EXCEPT !.versions = @ \union {q.on}] BY <3>3 DEF Effect
      <4> QED BY <2>6, <3>1, <3>3, <4>1 DEF Schema
    <3> QED BY <2>4, <3>2, <3>3
  <2>8. Unrecorded(Tail(todo), schema')
    <3>1. \A i \in DOMAIN Tail(todo) : i + 1 \in DOMAIN todo /\ Tail(todo)[i] = todo[i + 1] /\ i + 1 # 1 /\ i \in Int
      BY <2>1
    <3>2. ASSUME NEW i \in DOMAIN Tail(todo) PROVE Tail(todo)[i].does \in {"file", "record"}
      BY <2>2, <3>1 DEF Unrecorded
    <3>3. ASSUME NEW i \in DOMAIN Tail(todo), Tail(todo)[i].does = "record"
          PROVE  Tail(todo)[i].on \notin schema'.versions
      <4>1. todo[i + 1].does = "record" /\ i + 1 \in DOMAIN todo /\ i + 1 # 1 BY <3>1, <3>3
      <4>2. todo[i + 1].on \notin schema.versions BY <2>2, <4>1 DEF Unrecorded
      <4>3. q.does = "record" => q.on # todo[i + 1].on BY <2>2, <2>3, <4>1 DEF Unrecorded
      <4> QED BY <2>7, <3>1, <4>2, <4>3
    <3>4. ASSUME NEW i \in DOMAIN Tail(todo), NEW k \in DOMAIN Tail(todo), Tail(todo)[i].does = "record",
                 Tail(todo)[k].does = "record", Tail(todo)[k].on = Tail(todo)[i].on
          PROVE  k = i
      <4>1. k + 1 = i + 1 BY <2>2, <3>1, <3>4 DEF Unrecorded
      <4> QED BY <3>1, <4>1
    <3> QED BY <3>2, <3>3, <3>4 DEF Unrecorded
  <2>9. opener'[o].phase # "failed" BY <2>6
  <2> QED BY <1>4, <2>1, <2>2, <2>6, <2>8, <2>9
<1>8. CASE Opened(o)
  <2> DEFINE x == [opener[o] EXCEPT !.phase = "open"]
  <2>1. opener' = [opener EXCEPT ![o] = x] /\ schema' = schema BY <1>8 DEF Opened
  <2>2. x.phase = "open"
    <3>1. opener[o] \in [phase: Phases, todo: Seq(SqlOf)] BY <1>2 DEF MigShape
    <3> QED BY <3>1
  <2> HIDE DEF x
  <2> QED BY <1>5, <2>1, <2>2
<1>9. CASE Stop(o)
  <2>1. opener' = [opener EXCEPT ![o] = Closed] /\ schema' = schema BY <1>9 DEF Stop
  <2>2. Closed.phase = "closed" BY DEF Closed
  <2> QED BY <1>5, <2>1, <2>2
<1> QED BY <1>1, <1>6, <1>7, <1>8, <1>9 DEF PreflightFails, Use

-----------------------------------------------------------------------------
(* Every list an opener takes is one of statements.                         *)
LEMMA ToRunIs == ASSUME MigShape PROVE ToRun(backendKind, schema) \in Seq(SqlOf)
<1>1. CASE backendKind = "sqlite"
  <2>1. schema.versions \subseteq 0 .. 7 BY DEF MigShape, Schema
  <2>2. Version(schema) \in 0 .. 7
    <3>1. CASE schema.versions = {} BY <3>1 DEF Version
    <3>2. CASE schema.versions # {}
      <4> DEFINE Greatest(n) == \A m \in schema.versions : m <= n
      <4>1. \E n \in schema.versions : Greatest(n)
        <5>1. \A m \in schema.versions : m = 0 \/ m = 1 \/ m = 2 \/ m = 3 \/ m = 4 \/ m = 5 \/ m = 6 \/ m = 7
          BY <2>1
        <5>2. CASE 7 \in schema.versions BY <5>1, <5>2
        <5>3. CASE 7 \notin schema.versions /\ 6 \in schema.versions BY <5>1, <5>3
        <5>4. CASE schema.versions \cap {6, 7} = {} /\ 5 \in schema.versions BY <5>1, <5>4
        <5>5. CASE schema.versions \cap {5, 6, 7} = {} /\ 4 \in schema.versions BY <5>1, <5>5
        <5>6. CASE schema.versions \cap {4, 5, 6, 7} = {} /\ 3 \in schema.versions BY <5>1, <5>6
        <5>7. CASE schema.versions \cap {3, 4, 5, 6, 7} = {} /\ 2 \in schema.versions BY <5>1, <5>7
        <5>8. CASE schema.versions \cap {2, 3, 4, 5, 6, 7} = {} /\ 1 \in schema.versions BY <5>1, <5>8
        <5>9. CASE schema.versions \cap {1, 2, 3, 4, 5, 6, 7} = {} BY <3>2, <5>1, <5>9
        <5> QED BY <5>2, <5>3, <5>4, <5>5, <5>6, <5>7, <5>8, <5>9
      <4>2. Version(schema) = CHOOSE n \in schema.versions : Greatest(n) BY <3>2 DEF Version
      <4> HIDE DEF Greatest
      <4>3. Version(schema) \in schema.versions BY <4>1, <4>2
      <4> QED BY <2>1, <4>3
    <3> QED BY <3>1, <3>2
  <2>3. Pending[Version(schema)] \in Seq(SqlOf)
    <3>1. \A n \in 0 .. 7 : n + 1 \in 0 .. 8 OBVIOUS
    <3>2. \A n \in 0 .. 7 : Pending[n] \in Seq(Left(n + 1)) /\ Left(n + 1) \subseteq SqlOf BY <3>1, LeftIs
    <3>3. ASSUME NEW S, NEW T, S \subseteq T, NEW t \in Seq(S) PROVE t \in Seq(T) BY <3>3
    <3>4. ASSUME NEW n \in 0 .. 7 PROVE Pending[n] \in Seq(SqlOf)
      <4>1. Pending[n] \in Seq(Left(n + 1)) /\ Left(n + 1) \subseteq SqlOf BY <3>2
      <4> QED BY <3>3, <4>1
    <3> QED BY <2>2, <3>4
  <2> QED BY <1>1, <2>3 DEF ToRun
<1>2. CASE backendKind = "postgres" BY <1>2, PostgresPendingIs DEF ToRun
<1>3. CASE backendKind = "pgvector"
  <2>1. Record(0) \in SqlOf /\ VectorFrom[1] \in Seq(SqlOf)
    <3>1. 0 \in 0 .. 7 /\ 1 \in 1 .. 5 OBVIOUS
    <3> QED BY <3>1, SqlOfIs, VectorListsAre
  <2>2. <<Host, Tracking, Check0, Record(0)>> \o VectorFrom[1] \in Seq(SqlOf)
    BY <2>1, VectorListsAre, FourBefore
  <2> QED BY <1>3, <2>2, VectorListsAre DEF ToRun
<1> QED BY <1>1, <1>2, <1>3 DEF MigShape

LEMMA ShapeKept == ASSUME MigInv, MigNext PROVE MigShape'
<1>1. MigShape BY DEF MigInv
<1>2. /\ backendKind \in {"sqlite", "postgres", "pgvector"} /\ schema \in Schema
      /\ opener \in [Openers -> [phase: Phases, todo: Seq(SqlOf)]] /\ saved \subseteq OldRows /\ overlap \in BOOLEAN
      /\ ~overlap => \A o, p \in Openers : opener[o].phase = "migrating" /\ opener[p].phase = "migrating" => o = p
  BY <1>1 DEF MigShape
<1>3. PICK o \in Openers : Open(o) \/ SqlStatement(o) \/ PreflightFails(o) \/ Opened(o) \/ Stop(o)
                             \/ \E r \in OldRows : Use(o, r)
  BY DEF MigNext
(* A step of an opener that does not begin to migrate.                      *)
<1>4. ASSUME NEW x \in [phase: Phases, todo: Seq(SqlOf)], opener' = [opener EXCEPT ![o] = x],
             opener[o].phase # "migrating" => x.phase # "migrating",
             backendKind' = backendKind, schema' \in Schema, saved' \subseteq OldRows, overlap' = overlap
      PROVE  MigShape'
  <2>1. opener' \in [Openers -> [phase: Phases, todo: Seq(SqlOf)]] BY <1>2, <1>4
  <2>2. opener'[o] = x /\ \A p \in Openers : p # o => opener'[p] = opener[p] BY <1>1, <1>4, OpenerTurns
  <2>3. \A p \in Openers : opener'[p].phase = "migrating" => opener[p].phase = "migrating" BY <1>4, <2>2
  <2>4. ~overlap' =>
            \A q, p \in Openers : opener'[q].phase = "migrating" /\ opener'[p].phase = "migrating" => q = p
    BY <1>2, <1>4, <2>3
  <2> QED BY <1>2, <1>4, <2>1, <2>4 DEF MigShape
<1>5. opener[o] \in [phase: Phases, todo: Seq(SqlOf)] BY <1>2
<1>6. CASE Open(o)
  <2> DEFINE x == [phase |-> "migrating", todo |-> ToRun(backendKind, schema)]
  <2>1. x \in [phase: Phases, todo: Seq(SqlOf)] /\ x.phase = "migrating"
    <3>1. ToRun(backendKind, schema) \in Seq(SqlOf) BY <1>1, ToRunIs
    <3> QED BY <3>1 DEF Phases
  <2>2. opener' = [opener EXCEPT ![o] = x] /\ backendKind' = backendKind /\ schema' = schema /\ saved' = saved
    BY <1>6 DEF Open
  <2>3. overlap' = (overlap \/ Migrating(o) # {}) BY <1>6 DEF Open
  <2> HIDE DEF x
  <2>4. opener' \in [Openers -> [phase: Phases, todo: Seq(SqlOf)]] BY <1>2, <2>1, <2>2
  <2>5. opener'[o] = x /\ \A p \in Openers : p # o => opener'[p] = opener[p] BY <1>1, <2>2, OpenerTurns
  <2>6. overlap' \in BOOLEAN BY <2>3
  <2>7. ASSUME ~overlap', NEW p \in Openers, opener'[p].phase = "migrating" PROVE p = o
    <3>1. Migrating(o) = {} BY <2>3, <2>7, Zenon
    <3>2. CASE p # o
      <4>1. p \in Migrating(o) BY <2>5, <2>7, <3>2 DEF Migrating
      <4> QED BY <3>1, <4>1
    <3> QED BY <3>2
  <2> QED BY <1>2, <2>2, <2>4, <2>6, <2>7 DEF MigShape
<1>7. CASE SqlStatement(o)
  <2> DEFINE todo == opener[o].todo
             q == Head(todo)
             left == IF q.does = "check" /\ q.on \in schema.versions
                     THEN SubSeq(todo, q.to + 2, Len(todo)) ELSE Tail(todo)
  <2>1. todo \in Seq(SqlOf) /\ todo # <<>> /\ backendKind' = backendKind /\ saved' = saved /\ overlap' = overlap
        /\ opener[o].phase = "migrating"
    BY <1>5, <1>7 DEF SqlStatement
  <2>2. q \in SqlOf
    <3> HIDE DEF todo
    <3> QED BY <2>1
  <2>3. CASE Fails(schema, q)
    <3> DEFINE x == [phase |-> "failed", todo |-> <<>>]
    <3>1. schema' = schema /\ opener' = [opener EXCEPT ![o] = x] BY <1>7, <2>3 DEF SqlStatement
    <3>2. <<>> \in Seq(SqlOf) OBVIOUS
    <3>3. x \in [phase: Phases, todo: Seq(SqlOf)] BY <3>2 DEF Phases
    <3> HIDE DEF x
    <3> QED BY <1>2, <1>4, <2>1, <3>1, <3>3
  <2>4. CASE ~Fails(schema, q)
    <3> DEFINE x == [opener[o] EXCEPT !.todo = left]
    <3>1. schema' = IF q.does \in {"file", "check"} THEN schema ELSE Effect(schema, q)
      BY <1>7, <2>4 DEF SqlStatement
    <3>2. opener' = [opener EXCEPT ![o].todo = left] BY <1>7, <2>4 DEF SqlStatement
    <3>3. schema' \in Schema
      <4> HIDE DEF q
      <4>1. CASE q.does = "file" \/ q.does = "check" BY <1>2, <3>1, <4>1
      <4>2. CASE q.does # "file" /\ q.does # "check" BY <1>2, <2>2, <3>1, <4>2, EffectIs
      <4> QED BY <4>1, <4>2
    <3>4. left \in Seq(SqlOf)
      <4>1. Tail(todo) \in Seq(SqlOf)
        <5> HIDE DEF todo
        <5> QED BY <2>1
      <4>2. q.does = "check" => SubSeq(todo, q.to + 2, Len(todo)) \in Seq(SqlOf)
        <5> HIDE DEF todo, q
        <5> SUFFICES ASSUME q.does = "check" PROVE SubSeq(todo, q.to + 2, Len(todo)) \in Seq(SqlOf) OBVIOUS
        <5>1. q \notin ChangeOf /\ q # Host
          <6>1. Host.does = "create if not exists" BY DEF Host, Sql
          <6> QED BY <6>1 DEF ChangeOf, Changes
        <5>2. q \in MarkOf BY <2>2, <5>1 DEF SqlOf
        <5>3. q.to \in Nat BY <5>2 DEF MarkOf
        <5> QED BY <2>1, <5>3
      <4> HIDE DEF todo, q
      <4> QED BY <4>1, <4>2
    <3> HIDE DEF left
    <3>5. opener' = [opener EXCEPT ![o] = x] BY <3>2
    <3>6. x \in [phase: Phases, todo: Seq(SqlOf)] BY <1>5, <3>4
    <3> HIDE DEF x
    <3> QED BY <1>2, <1>4, <2>1, <3>3, <3>5, <3>6
  <2> QED BY <2>3, <2>4
<1>8. CASE PreflightFails(o)
  <2> DEFINE x == [phase |-> "refused", todo |-> <<>>]
  <2>1. opener' = [opener EXCEPT ![o] = x] /\ backendKind' = backendKind /\ schema' = schema /\ saved' = saved
        /\ overlap' = overlap
    BY <1>8 DEF PreflightFails
  <2>2. <<>> \in Seq(SqlOf) OBVIOUS
  <2>3. x \in [phase: Phases, todo: Seq(SqlOf)] /\ x.phase = "refused" BY <2>2 DEF Phases
  <2> HIDE DEF x
  <2> QED BY <1>2, <1>4, <2>1, <2>3
<1>9. CASE Opened(o)
  <2> DEFINE x == [opener[o] EXCEPT !.phase = "open"]
  <2>1. opener' = [opener EXCEPT ![o] = x] /\ backendKind' = backendKind /\ schema' = schema /\ saved' = saved
        /\ overlap' = overlap
    BY <1>9 DEF Opened
  <2>2. x \in [phase: Phases, todo: Seq(SqlOf)] /\ x.phase = "open" BY <1>5 DEF Phases
  <2> HIDE DEF x
  <2> QED BY <1>2, <1>4, <2>1, <2>2
<1>10. CASE Stop(o)
  <2>1. opener' = [opener EXCEPT ![o] = Closed] /\ backendKind' = backendKind /\ schema' = schema /\ saved' = saved
        /\ overlap' = overlap
    BY <1>10 DEF Stop
  <2>2. <<>> \in Seq(SqlOf) OBVIOUS
  <2>3. Closed \in [phase: Phases, todo: Seq(SqlOf)] /\ Closed.phase = "closed" BY <2>2 DEF Closed, Phases
  <2> QED BY <1>2, <1>4, <2>1, <2>3
<1>11. ASSUME NEW r \in OldRows, Use(o, r) PROVE MigShape'
  <2>1. /\ schema' = [schema EXCEPT !.nodes = @ \union {r}] /\ saved' = saved \union {r}
        /\ backendKind' = backendKind /\ opener' = opener /\ overlap' = overlap
    BY <1>11 DEF Use
  <2>2. schema' \in Schema BY <1>2, <2>1 DEF Schema
  <2>3. saved' \subseteq OldRows BY <1>2, <2>1
  <2> QED BY <1>2, <2>1, <2>2, <2>3 DEF MigShape
<1> QED BY <1>3, <1>6, <1>7, <1>8, <1>9, <1>10, <1>11

(* The invariant holds at first, for every old version.                     *)
LEMMA MigInvInit == MigInit => MigInv
<1> SUFFICES ASSUME MigInit PROVE MigInv OBVIOUS
<1>1. PICK n \in OldVersions, rows \in SUBSET OldRows :
         /\ n < 4 \/ backendKind # "sqlite" => rows = {}
         /\ backendKind # "sqlite" => n = 0
         /\ schema = OldSchema(n, rows) /\ saved = rows
  BY DEF MigInit
<1> DEFINE tables == UNION {Produces(i) : i \in 1 .. n}
<1>2. n \in 0 .. 7 BY MigrationsAssumption
<1>3. /\ schema.tables = tables /\ schema.versions = 1 .. n /\ schema.nodes = rows /\ schema.nodes_v2 = {}
      /\ schema = [tables |-> tables, versions |-> 1 .. n, nodes |-> rows, nodes_v2 |-> {}]
  BY <1>1 DEF OldSchema
<1>4. /\ backendKind \in {"sqlite", "postgres", "pgvector"} /\ overlap = FALSE /\ saved = rows
      /\ \A o \in Openers : opener[o] = Closed
      /\ opener = [o \in Openers |-> Closed]
  BY <1>1 DEF MigInit
<1>5. Closed.phase = "closed" /\ Closed \in [phase: Phases, todo: Seq(SqlOf)]
  <2>1. <<>> \in Seq(SqlOf) OBVIOUS
  <2> QED BY <2>1 DEF Closed, Phases
<1>6. Moving = {} BY <1>4, <1>5 DEF Moving
<1>7. tables \subseteq Tables \ {"nodes_v2", "tunnels_v2"}
  <2>1. ASSUME NEW i \in 1 .. n PROVE Produces(i) \subseteq Tables \ {"nodes_v2", "tunnels_v2"}
    <3>1. i = 1 \/ i = 2 \/ i = 3 \/ i = 4 \/ i = 5 \/ i = 6 \/ i = 7 BY <1>2
    <3> QED BY <3>1, ProducesAre DEF Tables
  <2> QED BY <2>1
<1>8. MigShape
  <2>1. schema \in Schema
    <3>1. 1 .. n \subseteq 0 .. 7 BY <1>2
    <3>2. tables \in SUBSET Tables BY <1>7
    <3> HIDE DEF tables
    <3> QED BY <1>3, <3>1, <3>2 DEF Schema
  <2>2. opener \in [Openers -> [phase: Phases, todo: Seq(SqlOf)]] BY <1>4, <1>5
  <2>3. \A o, p \in Openers : opener[o].phase = "migrating" /\ opener[p].phase = "migrating" => o = p
    BY <1>4, <1>5
  <2> QED BY <1>4, <2>1, <2>2, <2>3 DEF MigShape
<1>9. SqliteInv
  <2> SUFFICES ASSUME backendKind = "sqlite" PROVE SqliteAt(n) BY <1>2 DEF SqliteInv
  <2>1. \A i \in 1 .. n : Produces(i) \subseteq schema.tables BY <1>3
  <2>2. "nodes" \notin schema.tables => schema.nodes = {}
    <3>1. CASE n < 4 BY <1>1, <1>3, <3>1
    <3>2. CASE ~(n < 4)
      <4>1. 4 \in 1 .. n BY <1>2, <3>2
      <4> QED BY <2>1, <4>1, ProducesAre
    <3> QED BY <3>1, <3>2
  <2>3. SchemaAt(n)
    <3> HIDE DEF tables
    <3> QED BY <1>3, <1>4, <2>1, <2>2 DEF SchemaAt
  <2>4. {"nodes_v2", "tunnels_v2"} \cap schema.tables = {} BY <1>3, <1>7
  <2>5. n < 7 => {"outcome", "error_kind"} \cap schema.tables = {}
    <3> SUFFICES ASSUME n < 7 PROVE {"outcome", "error_kind"} \cap tables = {} BY <1>3
    <3>1. ASSUME NEW i \in 1 .. n PROVE {"outcome", "error_kind"} \cap Produces(i) = {}
      <4>1. i = 1 \/ i = 2 \/ i = 3 \/ i = 4 \/ i = 5 \/ i = 6 BY <1>2
      <4> QED BY <4>1, ProducesAre
    <3> QED BY <3>1
  <2>6. n = 4 => {"nodes", "tunnels"} \subseteq schema.tables
    <3>1. n = 4 => 4 \in 1 .. n OBVIOUS
    <3> QED BY <2>1, <3>1, ProducesAre
  <2>7. Untorn(schema, n + 1, 0)
    <3> HIDE DEF tables
    <3>1. /\ n + 1 = 5 <=> n = 4
          /\ n + 1 < 7 => n < 7
          /\ n + 1 = 7 => n < 7
      BY <1>2
    <3> QED BY <1>3, <2>4, <2>5, <2>6, <3>1 DEF Untorn
  <2> QED BY <1>4, <1>5, <1>6, <2>3, <2>7 DEF SqliteAt
<1>10. PostgresInv BY <1>4, <1>5, <1>6 DEF PostgresInv
<1>11. VectorInv
  <2> SUFFICES ASSUME backendKind = "pgvector" PROVE VectorInv BY DEF VectorInv
  <2>1. n = 0 BY <1>1
  <2>2. schema.versions = {} BY <1>3, <2>1
  <2> QED BY <1>4, <1>5, <1>6, <2>2 DEF VectorInv
<1>12. backendKind # "sqlite" => saved = {} BY <1>1
<1> QED BY <1>8, <1>9, <1>10, <1>11, <1>12 DEF MigInv

LEMMA MigInvNext == MigInv /\ [MigNext]_migVars => MigInv'
<1> SUFFICES ASSUME MigInv, [MigNext]_migVars PROVE MigInv' OBVIOUS
<1>1. CASE UNCHANGED migVars
  <2>1. /\ backendKind' = backendKind /\ schema' = schema /\ opener' = opener /\ saved' = saved
        /\ torn' = torn /\ overlap' = overlap
    BY <1>1 DEF migVars
  <2>2. MigShape' BY <2>1 DEF MigInv, MigShape
  <2>3. \A v \in 0 .. 7 : SqliteAt(v)' <=> SqliteAt(v)
    BY <2>1 DEF SqliteAt, SchemaAt, Moving, Torn, Amid, Executed, Untorn
  <2>4. SqliteInv' BY <2>1, <2>3 DEF MigInv, SqliteInv
  <2>5. PostgresInv' BY <2>1 DEF MigInv, PostgresInv, Moving
  <2>6. VectorInv' BY <2>1 DEF MigInv, VectorInv, Moving
  <2> QED BY <2>1, <2>2, <2>4, <2>5, <2>6 DEF MigInv
<1>2. CASE MigNext
  <2>1. MigShape' BY <1>2, ShapeKept
  <2>2. PICK o \in Openers : Open(o) \/ SqlStatement(o) \/ PreflightFails(o) \/ Opened(o) \/ Stop(o)
                               \/ \E r \in OldRows : Use(o, r)
    BY <1>2 DEF MigNext
  <2>3. backendKind' = backendKind
    BY <2>2 DEF Open, SqlStatement, PreflightFails, Opened, Stop, Use
  <2>4. SqliteInv'
    <3> SUFFICES ASSUME backendKind = "sqlite", ~overlap' PROVE \E v \in 0 .. 7 : SqliteAt(v)'
      BY <2>3 DEF SqliteInv
    <3>1. ~PreflightFails(o) BY DEF PreflightFails
    <3> QED BY <2>1, <2>2, <3>1, SqliteOpens, SqliteRuns, SqliteIsOpened, SqliteIsUsed, SqliteStops
  <2>5. PostgresInv'
    <3>1. CASE backendKind = "postgres" /\ ~overlap' BY <1>2, <3>1, PostgresKept
    <3>2. CASE ~(backendKind = "postgres" /\ ~overlap') BY <2>3, <3>2 DEF PostgresInv
    <3> QED BY <3>1, <3>2
  <2>6. VectorInv'
    <3>1. CASE backendKind = "pgvector"
      <4>1. \A r \in OldRows : ~Use(o, r) BY <3>1 DEF Use
      <4> QED BY <2>2, <3>1, <4>1, VectorRuns, VectorOthers
    <3>2. CASE backendKind # "pgvector" BY <2>3, <3>2 DEF VectorInv
    <3> QED BY <3>1, <3>2
  <2>7. backendKind' # "sqlite" => saved' = {}
    <3>1. backendKind # "sqlite" => saved' = saved
      BY <2>2 DEF Open, SqlStatement, PreflightFails, Opened, Stop, Use
    <3> QED BY <2>3, <3>1 DEF MigInv
  <2> QED BY <2>1, <2>4, <2>5, <2>6, <2>7 DEF MigInv
<1> QED BY <1>1, <1>2

LEMMA MigInvIsSafe == MigInv => MigrationsAreSafe
<1> SUFFICES ASSUME MigInv PROVE MigrationsAreSafe OBVIOUS
<1>1. ASSUME backendKind = "sqlite", ~overlap
      PROVE  \E v \in 0 .. 7 : SqliteAt(v)
  BY <1>1 DEF MigInv, SqliteInv
<1>2. RecordedIsApplied
  <2>1. ASSUME backendKind = "sqlite", ~overlap
        PROVE  /\ \A n \in schema.versions : Produces(n) \subseteq schema.tables \/ (n = 4 /\ 5 \notin schema.versions)
               /\ \A o \in Openers : opener[o].phase = "open" => schema.versions = 1 .. 7
    <3>1. PICK v \in 0 .. 7 : SqliteAt(v) BY <1>1, <2>1
    <3>2. /\ schema.versions = 1 .. v
          /\ \A i \in 1 .. v : Produces(i) \subseteq schema.tables \/ (i = 4 /\ v = 4)
          /\ \A o \in Openers : opener[o].phase = "open" => v = 7
      BY <3>1 DEF SqliteAt, SchemaAt
    <3>3. v = 4 => 5 \notin 1 .. v OBVIOUS
    <3> QED BY <3>2, <3>3
  <2>2. ASSUME backendKind = "pgvector"
        PROVE  /\ \A n \in schema.versions \ {0} : VectorFiles[n] \in schema.tables
               /\ \A o \in Openers : opener[o].phase = "open" => schema.versions = 0 .. Len(VectorFiles)
    BY <2>2, VectorStatements DEF MigInv, VectorInv
  <2> QED BY <2>1, <2>2 DEF RecordedIsApplied
<1>3. NodesSurvive
  <2>1. CASE backendKind = "sqlite" /\ ~overlap BY <1>1, <2>1 DEF NodesSurvive, SqliteAt, SchemaAt
  <2>2. CASE ~(backendKind = "sqlite" /\ ~overlap) BY <2>2 DEF NodesSurvive, MigInv
  <2> QED BY <2>1, <2>2
<1>4. OpenFailsOnlyAfterATear
  <2> SUFFICES ASSUME NEW o \in Openers, opener[o].phase = "failed", ~overlap PROVE Torn
    BY DEF OpenFailsOnlyAfterATear, Torn
  <2>1. CASE backendKind = "sqlite" BY <1>1, <2>1 DEF SqliteAt
  <2>2. CASE backendKind = "postgres" BY <2>2 DEF MigInv, PostgresInv
  <2>3. CASE backendKind = "pgvector" BY <2>3 DEF MigInv, VectorInv
  <2> QED BY <2>1, <2>2, <2>3 DEF MigInv, MigShape
<1> QED BY <1>2, <1>3, <1>4 DEF MigrationsAreSafe

(* Wherever any number of processes that open a store stop, what is        *)
(* recorded is there, no node is lost, and the next open gets through but  *)
(* for the batches that run once (open, run_migrations, apply_all).        *)
THEOREM MigrationsAreAlwaysSafe == MigSpec => []MigrationsAreSafe
<1>1. MigSpec => []MigInv BY MigInvInit, MigInvNext, PTL DEF MigSpec
<1> QED BY <1>1, MigInvIsSafe, PTL

=============================================================================
