------------------------- MODULE StateStores_proofs -------------------------
(***************************************************************************)
(* The proofs about the state stores: the cache of a broker that holds     *)
(* them, the lists that they show, the rows of the conversation, and the   *)
(* nodes of the memory palace.  They share the lists and nothing else.     *)
(***************************************************************************)
EXTENDS StateStoreCache, Listings, RowStores, Navigation,
        DataInduction, SequencesExt, SequenceTheorems, FiniteSetTheorems, TLAPS

(***************************************************************************)
(* Proofs about StateStoreCache for any number of handlers, projects,      *)
(* pools and stores: the caches implement a write-once cell per project,   *)
(* no connection pool leaks, and both trait roles share the cached pool.   *)
(***************************************************************************)

(* A handler with a request works on a project and holds what its position  *)
(* in the code says it holds.                                               *)
Located ==
    \A h \in Handler :
        /\ pc[h] # "idle" => project[h] \in Project
        /\ pc[h] \in {"race", "store"} => mine[h] \in Pool
        /\ pc[h] \in {"insert", "using"} => got[h] \in Store

TInv == TypeOK /\ Located

LEMMA TypedInit == Init => TInv
  BY DEF Init, TInv, TypeOK, Located, PC

LEMMA TypedStep == TInv /\ [Next]_vars => TInv'
<1> SUFFICES ASSUME TInv, [Next]_vars
             PROVE  TInv'
  OBVIOUS
<1> USE DEF TInv, TypeOK, Located, PC, Goto
<1>1. ASSUME NEW h \in Handler, NEW p \in Project,
             AccessHit(h, p) \/ AccessMiss(h, p) \/ BuildEngine(h, p)
      PROVE  TInv'
  <2>1. CASE AccessHit(h, p)
    BY <2>1 DEF AccessHit, caches, built
  <2>2. CASE AccessMiss(h, p)
    BY <2>2 DEF AccessMiss, caches, built
  <2>3. CASE BuildEngine(h, p)
    BY <2>3 DEF BuildEngine, caches, built
  <2>4. QED
    BY <1>1, <2>1, <2>2, <2>3
<1>2. ASSUME NEW h \in Handler, HandlerStep(h)
      PROVE  TInv'
  <2>1. CASE PoolHit(h)
    BY <2>1 DEF PoolHit, caches, built
  <2>2. CASE PoolMiss(h)
    BY <2>2 DEF PoolMiss, caches, built
  <2>3. ASSUME NEW q \in Pool, BuildPool(h, q)
        PROVE  TInv'
    BY <2>3 DEF BuildPool, caches
  <2>4. CASE BuildFails(h) \/ StoreFails(h) \/ RunClosure(h)
    BY <2>4 DEF BuildFails, StoreFails, RunClosure, Finish, caches, built
  <2>5. CASE InsertPool(h)
    BY <2>5 DEF InsertPool
  <2>6. ASSUME NEW s \in Store, BuildStore(h, s)
        PROVE  TInv'
    BY <2>6 DEF BuildStore, caches
  <2>7. CASE InsertEngine(h)
    BY <2>7 DEF InsertEngine, Finish, built
  <2>8. CASE InsertStore(h)
    BY <2>8 DEF InsertStore, built
  <2>9. QED
    BY <1>2, <2>1, <2>2, <2>3, <2>4, <2>5, <2>6, <2>7, <2>8 DEF HandlerStep
<1>3. ASSUME NEW p \in Project, InstallLocal(p)
      PROVE  TInv'
  BY <1>3 DEF InstallLocal, built
<1>4. CASE ShutdownPools \/ ShutdownStores
  BY <1>4 DEF ShutdownPools, ShutdownStores, built
<1>5. CASE UNCHANGED vars
  BY <1>5 DEF vars
<1>6. QED
  BY <1>1, <1>2, <1>3, <1>4, <1>5 DEF Next, NewRequest

(* Every variable keeps its type: a handler that reaches the point where a  *)
(* pool or a store is inserted has one, for a project it was asked for.     *)
THEOREM TypeCorrect == Spec => []TypeOK
<1>1. TInv => TypeOK
  BY DEF TInv
<1>2. QED
  BY <1>1, TypedInit, TypedStep, PTL DEF Spec

-----------------------------------------------------------------------------
(* The step simulation: inserting a store or hitting the cache is Get,      *)
(* finishing a closure is Release, clearing the map is Empty, and every     *)
(* other step leaves the cells and the stores in use as they are.           *)
LEMMA CellStep == TInv /\ [Next]_vars => [Cell!Next]_(Cell!vars)
<1> SUFFICES ASSUME TInv, [Next]_vars
             PROVE  [Cell!Next]_(Cell!vars)
  OBVIOUS
<1> USE DEF TInv, TypeOK, Located, PC, Goto
<1>1. ASSUME NEW h \in Handler, NEW p \in Project, AccessHit(h, p)
      PROVE  Cell!Next
  <2>1. PICK s \in Store : s = storeCache[p]
    BY <1>1 DEF AccessHit
  <2>2. Cell!Get(h, p, s)
    BY <1>1, <2>1 DEF AccessHit, caches, Cell!Get
  <2>3. QED
    BY <2>2 DEF Cell!Next
<1>2. ASSUME NEW h \in Handler, InsertStore(h)
      PROVE  Cell!Next
  <2>1. PICK p \in Project : p = project[h]
    BY <1>2 DEF InsertStore
  <2>2. PICK s \in Store : s = IF storeCache[p] = None THEN got[h] ELSE storeCache[p]
    BY <1>2 DEF InsertStore
  <2>3. Cell!Get(h, p, s)
    BY <1>2, <2>1, <2>2 DEF InsertStore, Cell!Get
  <2>4. QED
    BY <2>3 DEF Cell!Next
<1>3. ASSUME NEW h \in Handler, RunClosure(h)
      PROVE  Cell!Next
  <2>1. Cell!Release(h)
    BY <1>3 DEF RunClosure, Finish, caches, Cell!Release
  <2>2. QED
    BY <2>1 DEF Cell!Next
<1>4. ASSUME ShutdownStores
      PROVE  Cell!Next
  <2>1. Cell!Empty
    BY <1>4 DEF ShutdownStores, built, Cell!Empty
  <2>2. QED
    BY <2>1 DEF Cell!Next
<1>5. ASSUME NEW h \in Handler, NEW p \in Project,
             AccessMiss(h, p) \/ BuildEngine(h, p)
      PROVE  UNCHANGED Cell!vars
  BY <1>5 DEF AccessMiss, BuildEngine, caches, built, Cell!vars
<1>6. ASSUME NEW h \in Handler,
             \/ PoolHit(h) \/ PoolMiss(h) \/ InsertPool(h)
             \/ \E q \in Pool : BuildPool(h, q)
      PROVE  UNCHANGED Cell!vars
  BY <1>6 DEF PoolHit, PoolMiss, InsertPool, BuildPool, caches, built, Cell!vars
<1>7. ASSUME NEW h \in Handler,
             BuildFails(h) \/ StoreFails(h) \/ InsertEngine(h)
      PROVE  UNCHANGED Cell!vars
  BY <1>7 DEF BuildFails, StoreFails, InsertEngine, Finish, caches, built, Cell!vars
<1>8. ASSUME NEW h \in Handler, NEW s \in Store, BuildStore(h, s)
      PROVE  UNCHANGED Cell!vars
  BY <1>8 DEF BuildStore, caches, Cell!vars
<1>9. ASSUME ShutdownPools \/ (\E p \in Project : InstallLocal(p)) \/ UNCHANGED vars
      PROVE  UNCHANGED Cell!vars
  BY <1>9 DEF ShutdownPools, InstallLocal, built, vars, Cell!vars
<1>10. QED
  BY <1>1, <1>2, <1>3, <1>4, <1>5, <1>6, <1>7, <1>8, <1>9
     DEF Next, NewRequest, HandlerStep

(* However the misses of concurrent requests race, a project has one store  *)
(* that every request gets until a shutdown (get_or_init_state_store).      *)
THEOREM CacheImplementsCell == Spec => ImplementsCell
<1>1. Init => Cell!Init
  BY DEF Init, Cell!Init
<1>2. QED
  BY <1>1, TypedInit, TypedStep, CellStep, PTL DEF Spec, ImplementsCell, Cell!Spec

-----------------------------------------------------------------------------
LEMMA LeakStep == TInv /\ NoPoolLeak /\ [Next]_vars => NoPoolLeak'
<1> SUFFICES ASSUME TInv, NoPoolLeak, [Next]_vars
             PROVE  NoPoolLeak'
  OBVIOUS
<1> USE DEF TInv, TypeOK, Located, PC, Goto, NoPoolLeak
<1>1. ASSUME NEW h \in Handler, NEW p \in Project,
             AccessHit(h, p) \/ AccessMiss(h, p) \/ BuildEngine(h, p)
      PROVE  NoPoolLeak'
  BY <1>1 DEF AccessHit, AccessMiss, BuildEngine, caches, built
<1>2. ASSUME NEW h \in Handler, HandlerStep(h)
      PROVE  NoPoolLeak'
  <2>1. CASE PoolHit(h) \/ PoolMiss(h)
    BY <2>1 DEF PoolHit, PoolMiss, caches, built
  <2>2. ASSUME NEW q \in Pool, BuildPool(h, q)
        PROVE  NoPoolLeak'
    BY <2>2 DEF BuildPool, caches
  <2>3. CASE BuildFails(h) \/ StoreFails(h) \/ RunClosure(h)
    BY <2>3 DEF BuildFails, StoreFails, RunClosure, Finish, caches, built
  <2>4. CASE InsertPool(h)
    <3>1. CASE poolCache[project[h]] = None
      BY <2>4, <3>1, NamesAssumption DEF InsertPool
    <3>2. CASE poolCache[project[h]] # None
      BY <2>4, <3>2 DEF InsertPool
    <3>3. QED
      BY <3>1, <3>2
  <2>5. ASSUME NEW s \in Store, BuildStore(h, s)
        PROVE  NoPoolLeak'
    BY <2>5 DEF BuildStore, caches
  <2>6. CASE InsertEngine(h)
    BY <2>6 DEF InsertEngine, Finish, built
  <2>7. CASE InsertStore(h)
    BY <2>7 DEF InsertStore, built
  <2>8. QED
    BY <1>2, <2>1, <2>2, <2>3, <2>4, <2>5, <2>6, <2>7 DEF HandlerStep
<1>3. ASSUME NEW p \in Project, InstallLocal(p)
      PROVE  NoPoolLeak'
  BY <1>3 DEF InstallLocal, built
<1>4. CASE ShutdownPools
  BY <1>4, NamesAssumption DEF ShutdownPools
<1>5. CASE ShutdownStores
  BY <1>5 DEF ShutdownStores, built
<1>6. CASE UNCHANGED vars
  BY <1>6 DEF vars
<1>7. QED
  BY <1>1, <1>2, <1>3, <1>4, <1>5, <1>6 DEF Next, NewRequest

(* Every pool that get_or_init_combined_pg_pool opens is closed, cached, or *)
(* still held by the request that opened it.                                *)
THEOREM PoolsDoNotLeak == Spec => []NoPoolLeak
<1>1. Init => NoPoolLeak
  BY DEF Init, NoPoolLeak
<1>2. QED
  BY <1>1, TypedInit, TypedStep, LeakStep, PTL DEF Spec

-----------------------------------------------------------------------------
(* Sharing needs to know what the requests in flight hold.  A pool that is  *)
(* still racing is open and nobody else's, so closing a loser's pool closes *)
(* no cached one.                                                           *)
RacersOwnTheirPool ==
    \A h \in Handler :
        pc[h] = "race" =>
            /\ mine[h] \in poolsMade \ closed
            /\ \A p \in Project : poolCache[p] # mine[h]
            /\ \A g \in Handler \ {h} : pc[g] = "race" => mine[g] # mine[h]

(* Only pools that were built are closed, and the cached ones are not.      *)
CachedIsOpen ==
    /\ closed \subseteq poolsMade
    /\ \A p \in Project : poolCache[p] # None => poolCache[p] \in poolsMade \ closed

(* Until a shutdown, a request about to build on a pool has the cached one, *)
(* and so has a store about to be inserted.                                 *)
BuildersShareThePool ==
    down = "up" =>
        \A h \in Handler :
            /\ pc[h] = "store" => mine[h] = poolCache[project[h]]
            /\ pc[h] = "insert" =>
                   /\ poolOf[got[h]] = poolCache[project[h]]
                   /\ poolCache[project[h]] # None

SInv == RacersOwnTheirPool /\ CachedIsOpen /\ BuildersShareThePool /\ RolesShareThePool

LEMMA ShareStep == TInv /\ SInv /\ [Next]_vars => SInv'
<1> SUFFICES ASSUME TInv, SInv, [Next]_vars
             PROVE  SInv'
  OBVIOUS
<1> USE NamesAssumption
    DEF TInv, TypeOK, Located, PC, Goto, SInv, RacersOwnTheirPool, CachedIsOpen,
        BuildersShareThePool, RolesShareThePool
<1>1. ASSUME NEW h \in Handler, NEW p \in Project,
             AccessHit(h, p) \/ AccessMiss(h, p) \/ BuildEngine(h, p)
      PROVE  SInv'
  BY <1>1 DEF AccessHit, AccessMiss, BuildEngine, caches, built
<1>2. ASSUME NEW h \in Handler, HandlerStep(h)
      PROVE  SInv'
  <2>1. CASE PoolHit(h) \/ PoolMiss(h)
    BY <2>1 DEF PoolHit, PoolMiss, caches, built
  <2>2. ASSUME NEW q \in Pool, BuildPool(h, q)
        PROVE  SInv'
    <3>1. RacersOwnTheirPool'
      BY <2>2 DEF BuildPool, caches
    <3>2. CachedIsOpen' /\ BuildersShareThePool' /\ RolesShareThePool'
      BY <2>2 DEF BuildPool, caches
    <3>3. QED
      BY <3>1, <3>2
  <2>3. CASE BuildFails(h) \/ StoreFails(h) \/ RunClosure(h)
    BY <2>3 DEF BuildFails, StoreFails, RunClosure, Finish, caches, built
  <2>4. CASE InsertPool(h)
    <3>1. CASE poolCache[project[h]] = None
      <4>1. RacersOwnTheirPool'
        BY <2>4, <3>1 DEF InsertPool
      <4>2. CachedIsOpen'
        BY <2>4, <3>1 DEF InsertPool
      <4>3. BuildersShareThePool'
        BY <2>4, <3>1 DEF InsertPool
      <4>4. RolesShareThePool'
        BY <2>4, <3>1 DEF InsertPool
      <4>5. QED
        BY <4>1, <4>2, <4>3, <4>4
    <3>2. CASE poolCache[project[h]] # None
      <4>1. RacersOwnTheirPool'
        BY <2>4, <3>2 DEF InsertPool
      <4>2. CachedIsOpen'
        BY <2>4, <3>2 DEF InsertPool
      <4>3. BuildersShareThePool'
        BY <2>4, <3>2 DEF InsertPool
      <4>4. RolesShareThePool'
        BY <2>4, <3>2 DEF InsertPool
      <4>5. QED
        BY <4>1, <4>2, <4>3, <4>4
    <3>3. QED
      BY <3>1, <3>2
  <2>5. ASSUME NEW s \in Store, BuildStore(h, s)
        PROVE  SInv'
    <3>1. RacersOwnTheirPool' /\ CachedIsOpen'
      BY <2>5 DEF BuildStore, caches
    <3>2. BuildersShareThePool'
      BY <2>5 DEF BuildStore, caches
    <3>3. RolesShareThePool'
      BY <2>5 DEF BuildStore, caches
    <3>4. QED
      BY <3>1, <3>2, <3>3
  <2>6. CASE InsertEngine(h)
    BY <2>6 DEF InsertEngine, Finish, built
  <2>7. CASE InsertStore(h)
    <3>1. RacersOwnTheirPool' /\ CachedIsOpen' /\ BuildersShareThePool'
      BY <2>7 DEF InsertStore, built
    <3>2. RolesShareThePool'
      BY <2>7 DEF InsertStore, built
    <3>3. QED
      BY <3>1, <3>2
  <2>8. QED
    BY <1>2, <2>1, <2>2, <2>3, <2>4, <2>5, <2>6, <2>7 DEF HandlerStep
<1>3. ASSUME NEW p \in Project, InstallLocal(p)
      PROVE  SInv'
  BY <1>3 DEF InstallLocal, built
<1>4. CASE ShutdownPools
  BY <1>4 DEF ShutdownPools
<1>5. CASE ShutdownStores
  BY <1>5 DEF ShutdownStores, built
<1>6. CASE UNCHANGED vars
  BY <1>6 DEF vars
<1>7. QED
  BY <1>1, <1>2, <1>3, <1>4, <1>5, <1>6 DEF Next, NewRequest

(* Until a shutdown the cached store and the engine of a project sit on the *)
(* one cached, open pool of the project, however their builds interleave.   *)
THEOREM RolesShare == Spec => []RolesShareThePool
<1>1. Init => SInv
  BY DEF Init, SInv, RacersOwnTheirPool, CachedIsOpen, BuildersShareThePool,
         RolesShareThePool
<1>2. SInv => RolesShareThePool
  BY DEF SInv
<1>3. QED
  BY <1>1, <1>2, TypedInit, TypedStep, ShareStep, PTL DEF Spec

-----------------------------------------------------------------------------
(***************************************************************************)
(* What the lists of a store show.                                         *)
(***************************************************************************)

(* R puts the elements of S in a strict total order, and s lists them so.   *)
TotalOn(S, R) ==
    /\ \A a \in S : <<a, a>> \notin R
    /\ \A a, b \in S : a = b \/ <<a, b>> \in R \/ <<b, a>> \in R
    /\ \A a, b, c \in S : <<a, b>> \in R /\ <<b, c>> \in R => <<a, c>> \in R

ListsInOrder(S, R, s) ==
    /\ s \in [1 .. Cardinality(S) -> S]
    /\ \A i, j \in 1 .. Cardinality(S) : i < j => <<s[i], s[j]>> \in R

(* A finite set can be listed in any total order: an element goes where the *)
(* number of those before it says.                                          *)
LEMMA CanBeListed ==
    ASSUME NEW S, IsFiniteSet(S), NEW R, TotalOn(S, R)
    PROVE  \E s : ListsInOrder(S, R, s)
<1> DEFINE n == Cardinality(S)
           before(a) == {b \in S : <<b, a>> \in R}
           rank == [a \in S |-> Cardinality(before(a))]
<1>1. n \in Nat
  BY FS_CardinalityType
<1>2. ASSUME NEW a \in S
      PROVE  IsFiniteSet(before(a)) /\ Cardinality(before(a)) \in 0 .. n - 1
  <2>1. before(a) \in SUBSET (S \ {a})
    BY DEF TotalOn
  <2>2. IsFiniteSet(S \ {a}) /\ Cardinality(S \ {a}) = n - 1
    BY FS_RemoveElement
  <2>3. IsFiniteSet(before(a)) /\ Cardinality(before(a)) <= n - 1
    BY <2>1, <2>2, FS_Subset
  <2>4. Cardinality(before(a)) \in Nat
    BY <2>3, FS_CardinalityType
  <2> QED BY <1>1, <2>3, <2>4
<1>3. ASSUME NEW a \in S, NEW b \in S, <<a, b>> \in R
      PROVE  rank[a] < rank[b]
  <2>1. before(a) \subseteq before(b) /\ a \in before(b) /\ a \notin before(a)
    BY <1>3 DEF TotalOn
  <2>2. before(a) \in SUBSET before(b) /\ before(a) # before(b)
    BY <2>1
  <2>3. Cardinality(before(a)) <= Cardinality(before(b)) /\ Cardinality(before(a)) # Cardinality(before(b))
    BY <2>2, <1>2, FS_Subset
  <2> QED BY <2>3, <1>2
<1> HIDE DEF rank
<1>4. rank \in Injection(S, 0 .. n - 1)
  <2>1. rank \in [S -> 0 .. n - 1]
    BY <1>2 DEF rank
  <2>2. ASSUME NEW a \in S, NEW b \in S, rank[a] = rank[b] PROVE a = b
    <3>1. rank[a] \in Int /\ rank[b] \in Int
      BY <2>1
    <3>2. ~(rank[a] < rank[b]) /\ ~(rank[b] < rank[a])
      BY <2>2, <3>1
    <3> QED BY <1>3, <3>2 DEF TotalOn
  <2> QED BY <2>1, <2>2 DEF Injection, IsInjective
<1>5. IsFiniteSet(0 .. n - 1) /\ Cardinality(0 .. n - 1) = n
  BY <1>1, FS_Interval
<1>6. rank \in Surjection(S, 0 .. n - 1)
  BY <1>4, <1>5, FS_Injection
<1> DEFINE s == [i \in 1 .. n |-> CHOOSE a \in S : rank[a] = i - 1]
<1>7. ASSUME NEW i \in 1 .. n
      PROVE  s[i] \in S /\ rank[s[i]] = i - 1
  <2>1. i - 1 \in 0 .. n - 1
    BY <1>1
  <2>2. \E a \in S : rank[a] = i - 1
    BY <1>6, <2>1 DEF Surjection
  <2> QED BY <2>2
<1> HIDE DEF s
<1>8. ListsInOrder(S, R, s)
  <2>1. s \in [1 .. n -> S]
    BY <1>7 DEF s
  <2>2. ASSUME NEW i \in 1 .. n, NEW j \in 1 .. n, i < j
        PROVE  <<s[i], s[j]>> \in R
    <3>1. rank[s[i]] < rank[s[j]]
      BY <1>7, <2>2
    <3>2. s[i] \in S /\ s[j] \in S
      BY <1>7
    <3>3. CASE s[i] = s[j]
      <4>1. rank[s[i]] \in Int
        BY <1>7
      <4> QED BY <3>1, <3>3, <4>1
    <3>4. CASE <<s[j], s[i]>> \in R
      <4>1. rank[s[j]] < rank[s[i]]
        BY <1>3, <3>2, <3>4
      <4>2. rank[s[i]] = i - 1 /\ rank[s[j]] = j - 1
        BY <1>7
      <4> QED BY <3>1, <4>1, <4>2
    <3> QED BY <3>2, <3>3, <3>4 DEF TotalOn
  <2> QED BY <2>1, <2>2 DEF ListsInOrder
<1> QED BY <1>8

(* A list of S in an order lists each of S once, and what is before the     *)
(* i-th is i - 1 elements or more.                                          *)
LEMMA ListShows ==
    ASSUME NEW S, IsFiniteSet(S), NEW R, TotalOn(S, R), NEW s, ListsInOrder(S, R, s)
    PROVE  /\ Cardinality(S) \in Nat /\ s \in Seq(S) /\ Len(s) = Cardinality(S)
           /\ DOMAIN s = 1 .. Cardinality(S)
           /\ \A i, j \in 1 .. Cardinality(S) : s[i] = s[j] => i = j
           /\ \A a \in S : \E i \in 1 .. Cardinality(S) : s[i] = a
<1> DEFINE n == Cardinality(S)
<1>1. n \in Nat
  BY FS_CardinalityType
<1>2. s \in [1 .. n -> S]
  BY DEF ListsInOrder
<1>3. \A i, j \in 1 .. n : s[i] = s[j] => i = j
  <2> SUFFICES ASSUME NEW i \in 1 .. n, NEW j \in 1 .. n, s[i] = s[j], i < j PROVE FALSE
    BY <1>1
  <2> QED BY <1>2 DEF ListsInOrder, TotalOn
<1>4. s \in Injection(1 .. n, S)
  BY <1>2, <1>3 DEF Injection, IsInjective
<1>5. Cardinality(1 .. n) = n
  BY <1>1, FS_Interval
<1>6. s \in Surjection(1 .. n, S)
  BY <1>4, <1>5, FS_Injection
<1>7. \A a \in S : \E i \in 1 .. n : s[i] = a
  BY <1>6 DEF Surjection
<1>8. s \in Seq(S) /\ Len(s) = n
  BY <1>1, <1>2
<1> QED BY <1>1, <1>2, <1>3, <1>7, <1>8

(* The elements of s before the i-th are before it in the order.            *)
LEMMA PlaceIsBounded ==
    ASSUME NEW S, IsFiniteSet(S), NEW R, TotalOn(S, R), NEW s, ListsInOrder(S, R, s),
           NEW i \in 1 .. Cardinality(S), NEW T, IsFiniteSet(T),
           \A a \in S : <<a, s[i]>> \in R => a \in T
    PROVE  i <= Cardinality(T) + 1
<1> DEFINE n == Cardinality(S)
           f == [j \in 1 .. i - 1 |-> s[j]]
<1>1. n \in Nat /\ \A j, k \in 1 .. n : s[j] = s[k] => j = k
  BY ListShows
<1>2. \A j \in 1 .. i - 1 : j \in 1 .. n /\ j < i
  BY <1>1
<1>3. \A j \in 1 .. i - 1 : s[j] \in T
  BY <1>2 DEF ListsInOrder
<1>4. f \in Injection(1 .. i - 1, T)
  BY <1>1, <1>2, <1>3 DEF Injection, IsInjective
<1>5. Cardinality(1 .. i - 1) <= Cardinality(T)
  BY <1>4, FS_Injection
<1>6. Cardinality(1 .. i - 1) = i - 1
  BY <1>1, FS_Interval
<1>7. Cardinality(T) \in Nat
  BY FS_CardinalityType
<1> QED BY <1>1, <1>5, <1>6, <1>7

(* An element is where the number of those before it says.                  *)
LEMMA PlaceIs ==
    ASSUME NEW S, IsFiniteSet(S), NEW R, TotalOn(S, R), NEW s, ListsInOrder(S, R, s),
           NEW i \in 1 .. Cardinality(S)
    PROVE  i = Cardinality({a \in S : <<a, s[i]>> \in R}) + 1
<1> DEFINE n == Cardinality(S)
           T == {a \in S : <<a, s[i]>> \in R}
           at == [a \in T |-> CHOOSE j \in 1 .. n : s[j] = a]
<1>1. /\ n \in Nat /\ \A j, k \in 1 .. n : s[j] = s[k] => j = k
      /\ \A a \in S : \E j \in 1 .. n : s[j] = a
  BY ListShows
<1>2. IsFiniteSet(T) /\ Cardinality(T) \in Nat
  BY FS_Subset, FS_CardinalityType
<1>3. i <= Cardinality(T) + 1
  BY <1>2, PlaceIsBounded
<1>4. ASSUME NEW a \in T PROVE at[a] \in 1 .. i - 1 /\ s[at[a]] = a
  <2>1. at[a] \in 1 .. n /\ s[at[a]] = a
    BY <1>1
  <2> HIDE DEF at
  <2>2. s[i] \in S /\ <<a, s[i]>> \in R
    BY DEF ListsInOrder
  <2>3. CASE at[a] = i
    BY <2>1, <2>2, <2>3 DEF TotalOn
  <2>4. CASE i < at[a]
    <3>1. <<s[i], a>> \in R
      BY <2>1, <2>4 DEF ListsInOrder
    <3> QED BY <2>2, <3>1 DEF TotalOn
  <2> QED BY <1>1, <2>1, <2>3, <2>4
<1> HIDE DEF at
<1>5. at \in Injection(T, 1 .. i - 1)
  <2>1. at \in [T -> 1 .. i - 1]
    BY <1>4 DEF at
  <2> QED BY <1>4, <2>1 DEF Injection, IsInjective
<1>6. i - 1 \in Nat
  BY <1>1
<1>7. IsFiniteSet(1 .. i - 1) /\ Cardinality(1 .. i - 1) = i - 1
  BY <1>6, FS_Interval
<1>8. Cardinality(T) <= i - 1
  BY <1>2, <1>5, <1>7, FS_Injection
<1> QED BY <1>1, <1>2, <1>3, <1>8

(* The items of a list that belong to T, in their order.                    *)
LEMMA AmongKeeps ==
    ASSUME NEW s, NEW T, NEW m \in Nat, DOMAIN s = 1 .. m
    PROVE  /\ Among(s, T) \in Seq(T)
           /\ ToSet(Among(s, T)) = {s[i] : i \in 1 .. m} \cap T
           /\ Len(Among(s, T)) <= m
           /\ \A i \in 1 .. m : s[i] \in T =>
                 \E q \in 1 .. Len(Among(s, T)) : q <= i /\ Among(s, T)[q] = s[i]
           /\ (\A i \in 1 .. m : s[i] \in T) => Len(Among(s, T)) = m
<1> DEFINE S == {i \in DOMAIN s : s[i] \in T}
           R == {p \in (1 .. m) \X (1 .. m) : p[1] < p[2]}
           at == InOrder(S, LAMBDA i, j : i < j)
<1>1. IsFiniteSet(S)
  <2>1. IsFiniteSet(1 .. m)
    BY FS_Interval
  <2> QED BY <2>1, FS_Subset
<1>2. TotalOn(S, R)
  BY DEF TotalOn
<1>3. ListsInOrder(S, R, at)
  <2>1. PICK l : ListsInOrder(S, R, l)
    BY <1>1, <1>2, CanBeListed
  <2>2. /\ l \in [1 .. Cardinality(S) -> S]
        /\ \A i, j \in 1 .. Cardinality(S) : i < j => l[i] < l[j]
    BY <2>1 DEF ListsInOrder
  <2>3. /\ at \in [1 .. Cardinality(S) -> S]
        /\ \A i, j \in 1 .. Cardinality(S) : i < j => at[i] < at[j]
    BY <2>2 DEF InOrder
  <2> QED BY <2>3 DEF ListsInOrder
<1> HIDE DEF at, R, S
<1>4. /\ Cardinality(S) \in Nat /\ at \in Seq(S) /\ Len(at) = Cardinality(S)
      /\ DOMAIN at = 1 .. Cardinality(S)
      /\ \A a \in S : \E i \in 1 .. Cardinality(S) : at[i] = a
  BY <1>1, <1>2, <1>3, ListShows
<1>5. Among(s, T) = [k \in DOMAIN at |-> s[at[k]]]
  BY DEF Among, at, S
<1>6. \A k \in 1 .. Cardinality(S) : at[k] \in 1 .. m /\ s[at[k]] \in T
  BY <1>3 DEF ListsInOrder, S
<1>7. Among(s, T) \in Seq(T)
  <2>1. Among(s, T) \in [1 .. Cardinality(S) -> T]
    BY <1>4, <1>5, <1>6
  <2> QED BY <1>4, <2>1
<1>8. ToSet(Among(s, T)) = {s[i] : i \in 1 .. m} \cap T
  <2>1. ToSet(Among(s, T)) = {s[at[k]] : k \in 1 .. Cardinality(S)}
    <3>1. DOMAIN Among(s, T) = 1 .. Cardinality(S) /\ \A k \in 1 .. Cardinality(S) : Among(s, T)[k] = s[at[k]]
      BY <1>4, <1>5
    <3> QED BY <3>1 DEF ToSet
  <2>2. ASSUME NEW k \in 1 .. Cardinality(S) PROVE s[at[k]] \in {s[i] : i \in 1 .. m} \cap T
    BY <1>6
  <2>3. ASSUME NEW i \in 1 .. m, s[i] \in T PROVE s[i] \in {s[at[k]] : k \in 1 .. Cardinality(S)}
    <3>1. i \in S
      BY <2>3 DEF S
    <3> QED BY <1>4, <3>1
  <2> QED BY <2>1, <2>2, <2>3
<1>9. /\ Len(Among(s, T)) = Cardinality(S) /\ Cardinality(S) <= m
      /\ (\A i \in 1 .. m : s[i] \in T) => Cardinality(S) = m
  <2>1. S \in SUBSET (1 .. m) /\ ((\A i \in 1 .. m : s[i] \in T) => S = 1 .. m)
    BY DEF S
  <2>2. IsFiniteSet(1 .. m) /\ Cardinality(1 .. m) = m
    BY FS_Interval
  <2>3. Cardinality(S) <= m
    BY <2>1, <2>2, FS_Subset
  <2>4. Len(Among(s, T)) = Cardinality(S)
    BY <1>4, <1>5
  <2> QED BY <2>1, <2>2, <2>3, <2>4
<1>10. ASSUME NEW i \in 1 .. m, s[i] \in T
       PROVE  \E q \in 1 .. Cardinality(S) : q <= i /\ Among(s, T)[q] = s[i]
  <2>1. i \in S
    BY <1>10 DEF S
  <2>2. PICK q \in 1 .. Cardinality(S) : at[q] = i
    BY <1>4, <2>1
  <2>3. Among(s, T)[q] = s[i]
    BY <1>4, <1>5, <2>2
  <2> DEFINE B == 1 .. i - 1
  <2>4. IsFiniteSet(B) /\ Cardinality(B) = i - 1
    BY FS_Interval
  <2>5. \A a \in S : <<a, at[q]>> \in R => a \in B
    BY <2>2 DEF S, R
  <2>6. q <= Cardinality(B) + 1
    BY <1>1, <1>2, <1>3, <2>4, <2>5, PlaceIsBounded
  <2>7. q <= i
    BY <1>4, <2>2, <2>4, <2>6
  <2> QED BY <2>3, <2>7
<1> QED BY <1>7, <1>8, <1>9, <1>10

LEMMA AmongShows ==
    ASSUME NEW s, NEW T, NEW m \in Nat, DOMAIN s = 1 .. m
    PROVE  /\ Among(s, T) \in Seq(T)
           /\ ToSet(Among(s, T)) = {s[i] : i \in 1 .. m} \cap T
BY AmongKeeps

LEMMA AmongIsAt ==
    ASSUME NEW s, NEW T, NEW m \in Nat, DOMAIN s = 1 .. m, NEW i \in 1 .. m, s[i] \in T
    PROVE  \E q \in 1 .. Len(Among(s, T)) : q <= i /\ Among(s, T)[q] = s[i]
BY AmongKeeps

LEMMA AmongIsAll ==
    ASSUME NEW s, NEW T, NEW m \in Nat, DOMAIN s = 1 .. m, \A i \in 1 .. m : s[i] \in T
    PROVE  Len(Among(s, T)) = m
BY AmongKeeps

(* The first of a list.                                                     *)
LEMMA FirstShows ==
    ASSUME NEW U, NEW s \in Seq(U), NEW n \in Nat
    PROVE  /\ First(n, s) \in Seq(U)
           /\ Len(First(n, s)) = IF n < Len(s) THEN n ELSE Len(s)
           /\ \A i \in 1 .. Len(First(n, s)) : First(n, s)[i] = s[i]
           /\ ToSet(First(n, s)) \subseteq U
           /\ \A i \in 1 .. Len(s) : i <= n => s[i] \in ToSet(First(n, s))
           /\ n >= Len(s) => ToSet(First(n, s)) = ToSet(s)
<1> DEFINE m == IF n < Len(s) THEN n ELSE Len(s)
<1>1. m \in 0 .. Len(s) /\ Len(s) \in Nat
  OBVIOUS
<1>2. First(n, s) \in Seq(U) /\ Len(First(n, s)) = m /\ \A i \in 1 .. m : First(n, s)[i] = s[i]
  BY <1>1 DEF First
<1>3. ToSet(First(n, s)) = {First(n, s)[i] : i \in 1 .. m}
  BY <1>2 DEF ToSet
<1>4. ToSet(s) = {s[i] : i \in 1 .. Len(s)}
  BY DEF ToSet
<1>5. \A i \in 1 .. m : s[i] \in U
  OBVIOUS
<1>6. ToSet(First(n, s)) = {s[i] : i \in 1 .. m}
  BY <1>2, <1>3
<1>7. n >= Len(s) => m = Len(s)
  OBVIOUS
<1>8. \A i \in 1 .. Len(s) : i <= n => i \in 1 .. m
  OBVIOUS
<1> QED BY <1>1, <1>2, <1>4, <1>5, <1>6, <1>7, <1>8

(* What a list in an order shows.                                           *)
Shows(s, S) == s \in Seq(S) /\ Len(s) = Cardinality(S) /\ ToSet(s) = S

LEMMA ListedShows ==
    ASSUME NEW S, IsFiniteSet(S), NEW R, TotalOn(S, R), NEW s, ListsInOrder(S, R, s)
    PROVE  Shows(s, S)
<1>1. /\ s \in Seq(S) /\ Len(s) = Cardinality(S) /\ DOMAIN s = 1 .. Cardinality(S)
      /\ \A a \in S : \E i \in 1 .. Cardinality(S) : s[i] = a
  BY ListShows
<1>2. \A i \in 1 .. Cardinality(S) : s[i] \in S
  BY DEF ListsInOrder
<1> QED BY <1>1, <1>2 DEF Shows, ToSet

-----------------------------------------------------------------------------
(***************************************************************************)
(* The proofs about the records of the state stores, for any keys, labels, *)
(* brokers and limits.                                                     *)
(***************************************************************************)

(* What a call is doing: the writes it still has to send.                   *)
RowOps == [does: {"put", "merge", "delete", "zadd", "zrem", "unindex", "index"}, row: Row]
Calls == [phase: {"lookup", "write"}, key: Keys, row: Row, left: Row \union {NoRow},
          todo: Seq(Seq(RowOps)), alone: BOOLEAN, hidden: BOOLEAN]
RowDb == [rows: [Keys -> Row \union {NoRow}], zset: [Keys -> 0 .. MaxTick], text: [Keys -> Labels \union {0}]]

RowShape ==
    /\ backend \in Backends /\ family \in Families /\ tick \in 0 .. MaxTick
    /\ db \in RowDb
    /\ call \in [Writers -> Calls \union {Idle}]
    /\ sure \in [Keys -> Row \union {NoRow, Unknown}]

Acts(w) == call[w] # Idle

(* All the statements of a call, and what they leave: the record, and its   *)
(* place in the sorted set of Redis.  An approval that is refused is no     *)
(* record on Redis.                                                         *)
PlanOf(c) == IF c.left = NoRow THEN DeleteLesson(c.row) ELSE UpsertRow(c.row)
RecordOf(r) == IF family = "approval" /\ backend = "redis" /\ r # NoRow /\ r.label # 1 THEN NoRow ELSE r
PlaceOf(r) == IF r = NoRow THEN 0 ELSE r.at
HasZset == backend = "redis" /\ family # "approval"

(* A call sends its statements in their order.                              *)
CallInv(c) ==
    /\ c.row.key = c.key /\ c.row.at <= tick
    /\ c.left = c.row \/ (c.left = NoRow /\ family = "lesson")
    /\ c.phase = "lookup" => family = "diary"
    /\ c.phase = "write" => c.todo \in {PlanOf(c), Tail(PlanOf(c)), <<>>}

(* A call that no other overlaps finds what it wrote.                       *)
WroteInv(c) ==
    /\ family # "diary" /\ c.phase = "write" /\ c.todo # PlanOf(c) =>
          db.rows[c.key] = RecordOf(c.left)
    /\ family # "diary" /\ c.phase = "write" /\ c.todo = <<>> /\ HasZset =>
          db.zset[c.key] = PlaceOf(c.left)

(* ... and its lookup found the entry, unless that was hidden.              *)
BornInv(c) ==
    family = "diary" /\ backend = "redis" /\ c.phase = "write" /\ c.todo = PlanOf(c)
    /\ ~c.hidden /\ db.rows[c.key] # NoRow
    => c.row.born = db.rows[c.key].born

(* What was acknowledged is there, and no call is changing it.              *)
SureInv(k) ==
    sure[k] # Unknown =>
        /\ \A w \in Writers : Acts(w) => call[w].key # k
        /\ family # "diary" => db.rows[k] = RecordOf(sure[k])
        /\ family # "diary" /\ HasZset => db.zset[k] = PlaceOf(sure[k])

(* No two calls have the same time.                                         *)
TimesDiffer ==
    /\ \A k \in Keys : db.zset[k] <= tick
    /\ \A k, l \in Keys : db.zset[k] = db.zset[l] /\ db.zset[k] # 0 => k = l
    /\ \A w \in Writers, k \in Keys : Acts(w) /\ db.zset[k] = call[w].row.at => k = call[w].key
    /\ \A w, x \in Writers : Acts(w) /\ Acts(x) /\ call[w].row.at = call[x].row.at => w = x

KeysInv == \A k \in Keys : db.rows[k] # NoRow => db.rows[k].key = k

(* The FTS5 table has the words of the entries.                             *)
TextInv ==
    family = "diary" /\ backend = "sqlite" =>
        \A k \in Keys : db.rows[k] # NoRow => db.text[k] = db.rows[k].label

CallOK(w) ==
    Acts(w) =>
        /\ CallInv(call[w])
        /\ call[w].alone =>
              /\ WroteInv(call[w]) /\ BornInv(call[w])
              /\ \A x \in Writers \ {w} : Acts(x) => call[x].key # call[w].key

RowInv ==
    /\ RowShape /\ KeysInv /\ TextInv /\ TimesDiffer
    /\ \A w \in Writers : CallOK(w)
    /\ \A k \in Keys : SureInv(k)

-----------------------------------------------------------------------------
(* The writes of a statement.                                               *)
(* The store after the writes of a statement, one after the other.          *)
Ran(d, st) == FoldLeft(Run, d, st)

LEMMA RunOne ==
    ASSUME NEW d, NEW v PROVE Ran(d, <<v>>) = Run(d, v)
<1> DEFINE st == <<v>>
           Fn(g) == [s \in SUBSET DOMAIN st |->
                        IF s = {} THEN d ELSE Run(g[s \ {Max(s)}], st[Max(s)])]
           iter == CHOOSE g : g = Fn(g)
           h == [s \in SUBSET DOMAIN st |-> IF s = {} THEN d ELSE Run(d, v)]
<1>1. Ran(d, st) = iter[DOMAIN st]
  BY DEF Ran, FoldLeft, MapThenFoldSet
<1>2. DOMAIN st = {1} /\ st[1] = v
  OBVIOUS
<1> HIDE DEF st
<1>3. Max({1}) = 1
  BY DEF Max
<1>4. h = Fn(h)
  <2>1. ASSUME NEW s \in SUBSET DOMAIN st
        PROVE  h[s] = IF s = {} THEN d ELSE Run(h[s \ {Max(s)}], st[Max(s)])
    <3>1. s = {} \/ s = {1}
      BY <1>2
    <3>2. CASE s = {1}
      <4>1. s \ {Max(s)} = {} /\ st[Max(s)] = v
        BY <1>2, <1>3, <3>2
      <4>2. h[{}] = d
        OBVIOUS
      <4>3. h[s] = Run(d, v)
        BY <3>2
      <4> QED BY <3>2, <4>1, <4>2, <4>3
    <3> QED BY <3>1, <3>2
  <2> QED BY <2>1
<1>5. iter = Fn(iter)
  BY <1>4
<1> HIDE DEF iter, h
<1>6. iter[{}] = d
  BY <1>5
<1>7. iter[{1}] = Run(iter[{1} \ {Max({1})}], st[Max({1})])
  BY <1>2, <1>5
<1>8. {1} \ {1} = {}
  OBVIOUS
<1> QED BY <1>1, <1>2, <1>3, <1>6, <1>7, <1>8 DEF st

LEMMA RunThree ==
    ASSUME NEW d, NEW v1, NEW v2, NEW v3
    PROVE  Ran(d, <<v1, v2, v3>>) = Run(Run(Run(d, v1), v2), v3)
<1> DEFINE st == <<v1, v2, v3>>
           Fn(g) == [s \in SUBSET DOMAIN st |->
                        IF s = {} THEN d ELSE Run(g[s \ {Max(s)}], st[Max(s)])]
           iter == CHOOSE g : g = Fn(g)
           after(i, s, e) == IF i \in s THEN Run(e, st[i]) ELSE e
           h == [s \in SUBSET DOMAIN st |-> after(3, s, after(2, s, after(1, s, d)))]
<1>1. Ran(d, st) = iter[DOMAIN st]
  BY DEF Ran, FoldLeft, MapThenFoldSet
<1>2. DOMAIN st = {1, 2, 3} /\ st[1] = v1 /\ st[2] = v2 /\ st[3] = v3
  OBVIOUS
<1> HIDE DEF st
<1>3. ASSUME NEW s \in SUBSET {1, 2, 3}, s # {}
      PROVE  \/ Max(s) = 3 /\ 3 \in s
             \/ Max(s) = 2 /\ 2 \in s /\ 3 \notin s
             \/ Max(s) = 1 /\ s = {1}
  <2>1. \E x \in s : \A y \in s : x >= y
    <3>1. CASE 3 \in s
      BY <3>1
    <3>2. CASE 3 \notin s /\ 2 \in s
      BY <3>2
    <3>3. CASE 3 \notin s /\ 2 \notin s
      <4>1. s = {1}
        BY <1>3, <3>3
      <4> QED BY <4>1
    <3> QED BY <3>1, <3>2, <3>3
  <2>2. Max(s) \in s /\ \A y \in s : Max(s) >= y
    BY <2>1 DEF Max
  <2>3. PICK m \in {1, 2, 3} : m = Max(s) /\ m \in s /\ \A y \in s : m >= y
    BY <2>2
  <2>4. CASE m = 1
    <3>1. 2 \notin s /\ 3 \notin s /\ 1 \in s
      BY <2>3, <2>4
    <3> QED BY <2>3, <2>4, <3>1
  <2>5. m = 2 => 3 \notin s
    BY <2>3
  <2> QED BY <2>3, <2>4, <2>5
<1>4. h = Fn(h)
  <2>1. ASSUME NEW s \in SUBSET DOMAIN st
        PROVE  h[s] = IF s = {} THEN d ELSE Run(h[s \ {Max(s)}], st[Max(s)])
    <3> DEFINE t == s \ {Max(s)}
    <3>1. t \in SUBSET DOMAIN st
      OBVIOUS
    <3>2. h[t] = after(3, t, after(2, t, after(1, t, d)))
      BY <3>1
    <3>3. CASE s = {}
      BY <3>3
    <3>4. CASE s # {} /\ Max(s) = 3 /\ 3 \in s
      <4>1. 3 \notin t /\ (2 \in t <=> 2 \in s) /\ (1 \in t <=> 1 \in s)
        BY <3>4
      <4>2. h[t] = after(2, s, after(1, s, d))
        BY <3>2, <4>1
      <4>3. h[s] = Run(after(2, s, after(1, s, d)), st[3])
        BY <3>4
      <4> QED BY <3>4, <4>2, <4>3
    <3>5. CASE s # {} /\ Max(s) = 2 /\ 2 \in s /\ 3 \notin s
      <4>1. 3 \notin t /\ 2 \notin t /\ (1 \in t <=> 1 \in s)
        BY <3>5
      <4>2. h[t] = after(1, s, d)
        BY <3>2, <4>1
      <4>3. h[s] = Run(after(1, s, d), st[2])
        BY <3>5
      <4> QED BY <3>5, <4>2, <4>3
    <3>6. CASE s # {} /\ Max(s) = 1 /\ s = {1}
      <4>1. t = {}
        BY <3>6
      <4>2. h[t] = d
        BY <3>2, <4>1
      <4>3. h[s] = Run(d, st[1])
        BY <3>6
      <4> QED BY <3>6, <4>2, <4>3
    <3> QED BY <1>2, <1>3, <3>3, <3>4, <3>5, <3>6
  <2> QED BY <2>1
<1>5. iter = Fn(iter)
  BY <1>4
<1> HIDE DEF iter, h
<1>6. \A s \in SUBSET {1, 2, 3} :
         iter[s] = IF s = {} THEN d ELSE Run(iter[s \ {Max(s)}], st[Max(s)])
  BY <1>2, <1>5
<1>7. Max({1}) = 1 /\ Max({1, 2}) = 2 /\ Max({1, 2, 3}) = 3
  BY <1>3
<1>8. {1} \ {1} = {} /\ {1, 2} \ {2} = {1} /\ {1, 2, 3} \ {3} = {1, 2}
  OBVIOUS
<1>9. iter[{}] = d
  BY <1>6
<1>10. iter[{1}] = Run(d, v1)
  BY <1>2, <1>6, <1>7, <1>8, <1>9
<1>11. iter[{1, 2}] = Run(Run(d, v1), v2)
  BY <1>2, <1>6, <1>7, <1>8, <1>10
<1>12. iter[{1, 2, 3}] = Run(Run(Run(d, v1), v2), v3)
  BY <1>2, <1>6, <1>7, <1>8, <1>11
<1> QED BY <1>1, <1>2, <1>12 DEF st

(* A statement and then another.                                            *)
LEMMA OneThenOne ==
    ASSUME NEW a, NEW b PROVE <<a>> \o <<b>> = <<a, b>>
<1> DEFINE U == {a, b}
<1>1. <<a>> \in Seq(U) /\ <<b>> \in Seq(U) /\ <<a, b>> \in Seq(U)
  OBVIOUS
<1> HIDE DEF U
<1>2. <<a>> \o <<b>> \in Seq(U) /\ Len(<<a>> \o <<b>>) = 2 /\ (<<a>> \o <<b>>)[1] = a /\ (<<a>> \o <<b>>)[2] = b
  BY <1>1
<1>3. \A i \in 1 .. Len(<<a, b>>) : (<<a>> \o <<b>>)[i] = <<a, b>>[i]
  BY <1>2
<1> QED BY <1>1, <1>2, <1>3, SeqEqual

(* What each write leaves of a store.                                       *)
WithRow(d, k, row) == [d EXCEPT !.rows[k] = row]
WithPlace(d, k, at) == [d EXCEPT !.zset[k] = at]
WithText(d, k, label) == [d EXCEPT !.text[k] = label]
Merged(d, r) == IF d.rows[r.key] = NoRow THEN r ELSE [r EXCEPT !.born = d.rows[r.key].born]

LEMMA RunIs ==
    ASSUME NEW d \in RowDb, NEW r \in Row
    PROVE  /\ Run(d, Write("put", r)) = WithRow(d, r.key, r)
           /\ Run(d, Write("merge", r)) = WithRow(d, r.key, Merged(d, r))
           /\ Run(d, Write("delete", r)) = WithRow(d, r.key, NoRow)
           /\ Run(d, Write("zadd", r)) = WithPlace(d, r.key, r.at)
           /\ Run(d, Write("zrem", r)) = WithPlace(d, r.key, 0)
           /\ Run(d, Write("unindex", r)) = WithText(d, r.key, 0)
           /\ Run(d, Write("index", r)) = WithText(d, r.key, r.label)
BY DEF Run, Write, RowDb, Row, WithRow, WithPlace, WithText, Merged

LEMMA WithRowIs ==
    ASSUME NEW d \in RowDb, NEW k \in Keys, NEW row \in Row \union {NoRow}
    PROVE  /\ WithRow(d, k, row) \in RowDb
           /\ WithRow(d, k, row).rows = [d.rows EXCEPT ![k] = row]
           /\ WithRow(d, k, row).zset = d.zset /\ WithRow(d, k, row).text = d.text
BY DEF RowDb, WithRow

LEMMA WithPlaceIs ==
    ASSUME NEW d \in RowDb, NEW k \in Keys, NEW at \in 0 .. MaxTick
    PROVE  /\ WithPlace(d, k, at) \in RowDb
           /\ WithPlace(d, k, at).zset = [d.zset EXCEPT ![k] = at]
           /\ WithPlace(d, k, at).rows = d.rows /\ WithPlace(d, k, at).text = d.text
BY DEF RowDb, WithPlace

LEMMA WithTextIs ==
    ASSUME NEW d \in RowDb, NEW k \in Keys, NEW label \in Labels \union {0}
    PROVE  /\ WithText(d, k, label) \in RowDb
           /\ WithText(d, k, label).text = [d.text EXCEPT ![k] = label]
           /\ WithText(d, k, label).rows = d.rows /\ WithText(d, k, label).zset = d.zset
BY DEF RowDb, WithText

LEMMA WriteIsWrite ==
    ASSUME NEW r \in Row
    PROVE  \A does \in {"put", "merge", "delete", "zadd", "zrem", "unindex", "index"} :
              /\ Write(does, r) \in RowOps
              /\ <<Write(does, r)>> \in Seq(RowOps)
              /\ Statement(does, r) = << <<Write(does, r)>> >> /\ Statement(does, r) \in Seq(Seq(RowOps))
BY DEF Write, RowOps, Statement

(* The statements of an upsert and of a delete.                             *)
LEMMA UpsertIs ==
    ASSUME RowShape, NEW r \in Row
    PROVE  /\ UpsertRow(r) \in Seq(Seq(RowOps))
           /\ family \in {"source", "lesson"} \/ (family = "diary" /\ backend = "redis") =>
                 UpsertRow(r) = IF backend = "redis" THEN << <<Write("put", r)>>, <<Write("zadd", r)>> >>
                                                     ELSE << <<Write("put", r)>> >>
           /\ family = "diary" /\ backend = "sqlite" =>
                 UpsertRow(r) = << <<Write("merge", r), Write("unindex", r), Write("index", r)>> >>
           /\ family = "diary" /\ backend = "postgres" => UpsertRow(r) = << <<Write("merge", r)>> >>
           /\ family = "approval" =>
                 UpsertRow(r) = IF backend # "redis" \/ r.label = 1 THEN << <<Write("put", r)>> >>
                                                                   ELSE << <<Write("delete", r)>> >>
<1>1. [r EXCEPT !.label = r.label] = r /\ (r.label = 1 => [r EXCEPT !.label = 1] = r)
  BY DEF Row
<1>2. Statement("put", r) = << <<Write("put", r)>> >> /\ Statement("zadd", r) = << <<Write("zadd", r)>> >>
      /\ Statement("merge", r) = << <<Write("merge", r)>> >> /\ Statement("delete", r) = << <<Write("delete", r)>> >>
  BY DEF Statement
<1>3. Statement("put", r) \o Statement("zadd", r) = << <<Write("put", r)>>, <<Write("zadd", r)>> >>
  BY <1>2, OneThenOne
<1>4. CASE family = "source"
  <2>1. UpsertRow(r) = IF backend = "redis" THEN << <<Write("put", r)>>, <<Write("zadd", r)>> >>
                                            ELSE << <<Write("put", r)>> >>
    <3>1. CASE backend = "redis"
      BY <1>3, <1>4, <3>1 DEF UpsertRow, RedisUpsertSource
    <3>2. CASE backend = "sqlite"
      BY <1>2, <1>4, <3>2 DEF UpsertRow, SqliteUpsertSource
    <3>3. CASE backend = "postgres"
      BY <1>2, <1>4, <3>3 DEF UpsertRow, PostgresUpsertSource
    <3> QED BY <3>1, <3>2, <3>3 DEF RowShape, Backends
  <2> QED BY <1>4, <2>1, WriteIsWrite
<1>5. CASE family = "lesson"
  <2>1. UpsertRow(r) = IF backend = "redis" THEN << <<Write("put", r)>>, <<Write("zadd", r)>> >>
                                            ELSE << <<Write("put", r)>> >>
    <3>1. CASE backend = "redis"
      BY <1>3, <1>5, <3>1 DEF UpsertRow, RedisUpsertLesson
    <3>2. CASE backend = "sqlite"
      BY <1>2, <1>5, <3>2 DEF UpsertRow, SqliteUpsertLesson
    <3>3. CASE backend = "postgres"
      BY <1>2, <1>5, <3>3 DEF UpsertRow, PostgresUpsertLesson
    <3> QED BY <3>1, <3>2, <3>3 DEF RowShape, Backends
  <2> QED BY <1>5, <2>1, WriteIsWrite
<1>6. CASE family = "diary"
  <2>1. CASE backend = "redis"
    <3>1. UpsertRow(r) = << <<Write("put", r)>>, <<Write("zadd", r)>> >>
      BY <1>3, <1>6, <2>1 DEF UpsertRow, RedisUpsertDiary
    <3> QED BY <1>6, <2>1, <3>1, WriteIsWrite
  <2>2. CASE backend = "sqlite"
    <3>1. UpsertRow(r) = << <<Write("merge", r), Write("unindex", r), Write("index", r)>> >>
      BY <1>6, <2>2 DEF UpsertRow, SqliteUpsertDiary
    <3> QED BY <1>6, <2>2, <3>1, WriteIsWrite
  <2>3. CASE backend = "postgres"
    <3>1. UpsertRow(r) = << <<Write("merge", r)>> >>
      BY <1>2, <1>6, <2>3 DEF UpsertRow, PostgresUpsertDiary
    <3> QED BY <1>6, <2>3, <3>1, WriteIsWrite
  <2> QED BY <2>1, <2>2, <2>3 DEF RowShape, Backends
<1>7. CASE family = "approval"
  <2>1. UpsertRow(r) = IF backend # "redis" \/ r.label = 1 THEN << <<Write("put", r)>> >>
                                                          ELSE << <<Write("delete", r)>> >>
    BY <1>1, <1>2, <1>7
       DEF UpsertRow, SqliteSetApproval, PostgresSetApproval, RedisSetApproval, RowShape, Backends
  <2> QED BY <1>7, <2>1, WriteIsWrite
<1> QED BY <1>4, <1>5, <1>6, <1>7 DEF RowShape, Families

LEMMA DeleteIs ==
    ASSUME RowShape, NEW r \in Row
    PROVE  /\ DeleteLesson(r) \in Seq(Seq(RowOps))
           /\ DeleteLesson(r) = IF backend = "redis" THEN << <<Write("delete", r)>>, <<Write("zrem", r)>> >>
                                                     ELSE << <<Write("delete", r)>> >>
<1>1. Statement("zrem", r) = << <<Write("zrem", r)>> >> /\ Statement("delete", r) = << <<Write("delete", r)>> >>
  BY DEF Statement
<1>2. DeleteLesson(r) = IF backend = "redis" THEN << <<Write("delete", r)>>, <<Write("zrem", r)>> >>
                                             ELSE << <<Write("delete", r)>> >>
  <2>1. CASE backend = "redis"
    <3>1. DeleteLesson(r) = Statement("delete", r) \o Statement("zrem", r)
      BY <2>1 DEF DeleteLesson, RedisDeleteLesson
    <3> QED BY <1>1, <2>1, <3>1, OneThenOne
  <2>2. CASE backend = "sqlite"
    BY <1>1, <2>2 DEF DeleteLesson, SqliteDeleteLesson
  <2>3. CASE backend = "postgres"
    BY <1>1, <2>3 DEF DeleteLesson, PostgresDeleteLesson
  <2> QED BY <2>1, <2>2, <2>3 DEF RowShape, Backends
<1> QED BY <1>2, WriteIsWrite

LEMMA Steps ==
    ASSUME NEW a, NEW b
    PROVE  /\ Head(<<a>>) = a /\ Tail(<<a>>) = <<>> /\ <<a>> # <<>>
           /\ Head(<<a, b>>) = a /\ Tail(<<a, b>>) = <<b>> /\ <<a, b>> # <<>> /\ <<a, b>> # <<b>>
OBVIOUS

(* The statements of a call: two for the stores with an index of their own, *)
(* one for the others.                                                      *)
LEMMA PlanIs ==
    ASSUME RowShape, RowStoresAssumption, NEW c \in Calls, CallInv(c)
    PROVE  /\ PlanOf(c) \in Seq(Seq(RowOps))
           /\ \/ /\ HasZset /\ c.left = c.row
                 /\ PlanOf(c) = << <<Write("put", c.row)>>, <<Write("zadd", c.row)>> >>
              \/ /\ HasZset /\ c.left = NoRow /\ family # "diary"
                 /\ PlanOf(c) = << <<Write("delete", c.row)>>, <<Write("zrem", c.row)>> >>
              \/ /\ ~HasZset /\ family # "diary" /\ RecordOf(c.left) = NoRow
                 /\ PlanOf(c) = << <<Write("delete", c.row)>> >>
              \/ /\ ~HasZset /\ family # "diary" /\ c.left = c.row /\ RecordOf(c.left) = c.row
                 /\ PlanOf(c) = << <<Write("put", c.row)>> >>
              \/ /\ family = "diary" /\ backend = "sqlite" /\ c.left = c.row
                 /\ PlanOf(c) = << <<Write("merge", c.row), Write("unindex", c.row), Write("index", c.row)>> >>
              \/ /\ family = "diary" /\ backend = "postgres" /\ c.left = c.row
                 /\ PlanOf(c) = << <<Write("merge", c.row)>> >>
<1>1. c.row \in Row /\ c.row # NoRow
  BY DEF Calls, RowStoresAssumption
<1>2. CASE c.left = NoRow /\ family = "lesson"
  <2>1. PlanOf(c) = DeleteLesson(c.row)
    BY <1>2 DEF PlanOf
  <2> QED BY <1>1, <1>2, <2>1, DeleteIs DEF HasZset, RecordOf
<1>3. CASE c.left = c.row
  <2>1. PlanOf(c) = UpsertRow(c.row)
    BY <1>1, <1>3 DEF PlanOf
  <2>2. CASE family \in {"source", "lesson"}
    BY <1>1, <1>3, <2>1, <2>2, UpsertIs DEF HasZset, RecordOf
  <2>3. CASE family = "diary"
    BY <1>1, <1>3, <2>1, <2>3, UpsertIs DEF HasZset, RowShape, Backends
  <2>4. CASE family = "approval"
    BY <1>1, <1>3, <2>1, <2>4, UpsertIs DEF HasZset, RecordOf
  <2> QED BY <2>2, <2>3, <2>4 DEF RowShape, Families
<1> QED BY <1>2, <1>3 DEF CallInv

LEMMA ExecuteRuns ==
    ASSUME NEW w, Execute(w) PROVE db' = Ran(db, Head(call[w].todo))
BY DEF Execute, Ran

(* What a statement of a call does to the store.                            *)
LEMMA ExecuteDoes ==
    ASSUME RowStoresAssumption, RowInv, NEW w \in Writers, Execute(w)
    PROVE  LET c == call[w]
               k == c.key
           IN  /\ c \in Calls /\ c.phase = "write" /\ CallInv(c)
               /\ db' \in RowDb
               /\ \A l \in Keys \ {k} : /\ db'.rows[l] = db.rows[l]
                                        /\ db'.zset[l] = db.zset[l]
                                        /\ db'.text[l] = db.text[l]
               /\ c.todo = PlanOf(c) =>
                     /\ db'.zset = db.zset
                     /\ family # "diary" => db'.rows[k] = RecordOf(c.left)
                     /\ family = "diary" => db'.rows[k] = IF backend = "redis" \/ db.rows[k] = NoRow THEN c.row
                                                          ELSE [c.row EXCEPT !.born = db.rows[k].born]
                     /\ family = "diary" /\ backend = "sqlite" => db'.text[k] = c.row.label
                     /\ Tail(c.todo) = <<>> => ~HasZset
               /\ c.todo # PlanOf(c) =>
                     /\ db'.rows = db.rows /\ db'.text = db.text
                     /\ db'.zset[k] = PlaceOf(c.left) /\ Tail(c.todo) = <<>>
               /\ Tail(c.todo) \in {Tail(PlanOf(c)), <<>>} /\ Tail(c.todo) # PlanOf(c)
               /\ Tail(c.todo) \in Seq(Seq(RowOps))
<1> DEFINE c == call[w]
           k == c.key
           r == c.row
<1>1. c \in Calls /\ c.phase = "write" /\ c.todo # <<>>
  BY DEF RowInv, RowShape, Execute, Idle
<1>2. CallInv(c) /\ c.todo \in {PlanOf(c), Tail(PlanOf(c))}
  BY <1>1 DEF RowInv, CallOK, Acts, Idle, CallInv, Execute
<1>3. RowShape /\ db \in RowDb
  BY DEF RowInv, RowShape
<1>4. r \in Row /\ r.key = k /\ k \in Keys /\ r.at \in 1 .. MaxTick /\ r.label \in Labels /\ r # NoRow
  BY <1>1, <1>2 DEF Calls, CallInv, Row, RowStoresAssumption
<1>5. db' = Ran(db, Head(c.todo))
  BY ExecuteRuns
<1>6. /\ Ran(db, <<Write("put", r)>>) = WithRow(db, k, r)
      /\ Ran(db, <<Write("merge", r)>>) = WithRow(db, k, Merged(db, r))
      /\ Ran(db, <<Write("delete", r)>>) = WithRow(db, k, NoRow)
      /\ Ran(db, <<Write("zadd", r)>>) = WithPlace(db, k, r.at)
      /\ Ran(db, <<Write("zrem", r)>>) = WithPlace(db, k, 0)
  <2>1. \A v : Ran(db, <<v>>) = Run(db, v)
    BY RunOne
  <2>2. r \in Row /\ r.key = k
    BY <1>4
  <2> HIDE DEF r, k
  <2> QED BY <1>3, <2>1, <2>2, RunIs
<1>13. /\ Merged(db, r) \in Row
       /\ Merged(db, r) = IF db.rows[k] = NoRow THEN r ELSE [r EXCEPT !.born = db.rows[k].born]
  BY <1>3, <1>4 DEF RowDb, Row, Merged
<1>7. PlanOf(c) \in Seq(Seq(RowOps)) /\ <<>> \in Seq(Seq(RowOps))
  BY <1>1, <1>2, <1>3, PlanIs
<1> HIDE DEF c, k, r
<1>8. CASE HasZset /\ c.left = r /\ PlanOf(c) = << <<Write("put", r)>>, <<Write("zadd", r)>> >>
  <2>1. CASE c.todo = PlanOf(c)
    <3>1. Head(c.todo) = <<Write("put", r)>> /\ Tail(c.todo) = << <<Write("zadd", r)>> >>
          /\ Tail(c.todo) # PlanOf(c) /\ Tail(c.todo) # <<>> /\ Tail(c.todo) = Tail(PlanOf(c))
      BY <1>8, <2>1, Steps
    <3>2. /\ db' \in RowDb /\ db'.rows = [db.rows EXCEPT ![k] = r]
          /\ db'.zset = db.zset /\ db'.text = db.text
      <4>1. db' = WithRow(db, k, r)
        BY <1>5, <1>6, <3>1
      <4>2. r \in Row \union {NoRow}
        BY <1>4, <1>13
      <4> QED BY <1>3, <1>4, <4>1, <4>2, WithRowIs
    <3>3. RecordOf(c.left) = r
      BY <1>8 DEF RecordOf, HasZset
    <3>4. << <<Write("zadd", r)>> >> \in Seq(Seq(RowOps))
      BY <1>4, WriteIsWrite
    <3>5. family = "diary" => backend = "redis"
      BY <1>8 DEF HasZset
    <3> QED BY <1>1, <1>2, <1>3, <1>4, <2>1, <3>1, <3>2, <3>3, <3>4, <3>5 DEF RowDb, c, k, r
  <2>2. CASE c.todo = Tail(PlanOf(c))
    <3>1. Head(c.todo) = <<Write("zadd", r)>> /\ Tail(c.todo) = <<>> /\ c.todo # PlanOf(c) /\ PlanOf(c) # <<>>
      BY <1>8, <2>2, Steps
    <3>2. db' = WithPlace(db, k, r.at)
      BY <1>5, <1>6, <3>1
    <3>3. PlaceOf(c.left) = r.at
      BY <1>4, <1>8 DEF PlaceOf
    <3>4. r.at \in 0 .. MaxTick
      BY <1>4
    <3>5. /\ db' \in RowDb /\ db'.rows = db.rows /\ db'.text = db.text /\ db'.zset[k] = r.at
          /\ \A l \in Keys \ {k} : db'.zset[l] = db.zset[l]
      <4>1. db' \in RowDb /\ db'.rows = db.rows /\ db'.text = db.text /\ db'.zset = [db.zset EXCEPT ![k] = r.at]
        BY <1>3, <1>4, <3>2, <3>4, WithPlaceIs
      <4> QED BY <1>3, <1>4, <4>1 DEF RowDb
    <3> QED BY <1>1, <1>2, <1>7, <3>1, <3>3, <3>5 DEF c, k
  <2> QED BY <1>2, <2>1, <2>2
<1>9. CASE HasZset /\ c.left = NoRow /\ family # "diary"
           /\ PlanOf(c) = << <<Write("delete", r)>>, <<Write("zrem", r)>> >>
  <2>1. CASE c.todo = PlanOf(c)
    <3>1. Head(c.todo) = <<Write("delete", r)>> /\ Tail(c.todo) = << <<Write("zrem", r)>> >>
          /\ Tail(c.todo) # PlanOf(c) /\ Tail(c.todo) # <<>> /\ Tail(c.todo) = Tail(PlanOf(c))
      BY <1>9, <2>1, Steps
    <3>2. /\ db' \in RowDb /\ db'.rows = [db.rows EXCEPT ![k] = NoRow]
          /\ db'.zset = db.zset /\ db'.text = db.text
      <4>1. db' = WithRow(db, k, NoRow)
        BY <1>5, <1>6, <3>1
      <4>2. NoRow \in Row \union {NoRow}
        BY <1>4, <1>13
      <4> QED BY <1>3, <1>4, <4>1, <4>2, WithRowIs
    <3>3. RecordOf(c.left) = NoRow
      BY <1>9 DEF RecordOf
    <3>4. << <<Write("zrem", r)>> >> \in Seq(Seq(RowOps))
      BY <1>4, WriteIsWrite
    <3> QED BY <1>1, <1>2, <1>3, <1>4, <1>9, <2>1, <3>1, <3>2, <3>3, <3>4 DEF RowDb, c, k, r
  <2>2. CASE c.todo = Tail(PlanOf(c))
    <3>1. Head(c.todo) = <<Write("zrem", r)>> /\ Tail(c.todo) = <<>> /\ c.todo # PlanOf(c) /\ PlanOf(c) # <<>>
      BY <1>9, <2>2, Steps
    <3>2. db' = WithPlace(db, k, 0)
      BY <1>5, <1>6, <3>1
    <3>3. PlaceOf(c.left) = 0
      BY <1>9 DEF PlaceOf
    <3>4. 0 \in 0 .. MaxTick
      BY DEF RowStoresAssumption
    <3>5. /\ db' \in RowDb /\ db'.rows = db.rows /\ db'.text = db.text /\ db'.zset[k] = 0
          /\ \A l \in Keys \ {k} : db'.zset[l] = db.zset[l]
      <4>1. db' \in RowDb /\ db'.rows = db.rows /\ db'.text = db.text /\ db'.zset = [db.zset EXCEPT ![k] = 0]
        BY <1>3, <1>4, <3>2, <3>4, WithPlaceIs
      <4> QED BY <1>3, <1>4, <4>1 DEF RowDb
    <3> QED BY <1>1, <1>2, <1>7, <3>1, <3>3, <3>5 DEF c, k
  <2> QED BY <1>2, <2>1, <2>2
<1>10. ASSUME NEW st, PlanOf(c) = <<st>>
       PROVE  c.todo = PlanOf(c) /\ Head(c.todo) = st /\ Tail(c.todo) = <<>> /\ PlanOf(c) # <<>> /\ Tail(c.todo) \in Seq(Seq(RowOps))
  <2>1. Head(<<st>>) = st /\ Tail(<<st>>) = <<>> /\ <<st>> # <<>>
    BY Steps
  <2>2. c.todo # <<>>
    BY <1>1 DEF c
  <2>3. c.todo = PlanOf(c)
    BY <1>2, <1>10, <2>1, <2>2
  <2> QED BY <1>7, <1>10, <2>1, <2>3
<1>11. CASE ~HasZset /\ family # "diary" /\ RecordOf(c.left) = NoRow /\ PlanOf(c) = << <<Write("delete", r)>> >>
  <2>1. /\ db' \in RowDb /\ db'.rows = [db.rows EXCEPT ![k] = NoRow]
        /\ db'.zset = db.zset /\ db'.text = db.text
    <3>1. db' = WithRow(db, k, NoRow)
      BY <1>5, <1>6, <1>10, <1>11
    <3>2. NoRow \in Row \union {NoRow}
      BY <1>4, <1>13
    <3> QED BY <1>3, <1>4, <3>1, <3>2, WithRowIs
  <2> QED BY <1>1, <1>2, <1>3, <1>4, <1>10, <1>11, <2>1 DEF RowDb, c, k, r
<1>12. CASE ~HasZset /\ family # "diary" /\ RecordOf(c.left) = r /\ PlanOf(c) = << <<Write("put", r)>> >>
  <2>1. /\ db' \in RowDb /\ db'.rows = [db.rows EXCEPT ![k] = r]
        /\ db'.zset = db.zset /\ db'.text = db.text
    <3>1. db' = WithRow(db, k, r)
      BY <1>5, <1>6, <1>10, <1>12
    <3>2. r \in Row \union {NoRow}
      BY <1>4, <1>13
    <3> QED BY <1>3, <1>4, <3>1, <3>2, WithRowIs
  <2> QED BY <1>1, <1>2, <1>3, <1>4, <1>10, <1>12, <2>1 DEF RowDb, c, k, r
<1>14. CASE family = "diary" /\ backend = "postgres" /\ PlanOf(c) = << <<Write("merge", r)>> >>
  <2>1. /\ db' \in RowDb /\ db'.rows = [db.rows EXCEPT ![k] = Merged(db, r)]
        /\ db'.zset = db.zset /\ db'.text = db.text
    <3>1. PICK row : row = Merged(db, r)
      OBVIOUS
    <3>2. db' = WithRow(db, k, row)
      BY <1>5, <1>6, <1>10, <1>14, <3>1
    <3>3. row \in Row \union {NoRow}
      BY <1>4, <1>13, <3>1
    <3>4. /\ db' \in RowDb /\ db'.rows = [db.rows EXCEPT ![k] = row]
          /\ db'.zset = db.zset /\ db'.text = db.text
      BY <1>3, <1>4, <3>2, <3>3, WithRowIs
    <3> QED BY <3>1, <3>4
  <2>2. ~HasZset
    BY <1>14 DEF HasZset
  <2> QED BY <1>1, <1>2, <1>3, <1>4, <1>10, <1>13, <1>14, <2>1, <2>2 DEF RowDb, c, k, r
<1>15. CASE family = "diary" /\ backend = "sqlite"
            /\ PlanOf(c) = << <<Write("merge", r), Write("unindex", r), Write("index", r)>> >>
  <2> DEFINE d1 == WithRow(db, k, Merged(db, r))
             d2 == WithText(d1, k, 0)
             d3 == WithText(d2, k, r.label)
  <2>1. db' = Run(Run(Run(db, Write("merge", r)), Write("unindex", r)), Write("index", r))
    BY <1>5, <1>10, <1>15, RunThree
  <2>2. /\ d1 \in RowDb /\ d1.rows = [db.rows EXCEPT ![k] = Merged(db, r)]
        /\ d1.zset = db.zset /\ d1.text = db.text
    BY <1>3, <1>4, <1>13, WithRowIs
  <2>3. /\ d2 \in RowDb /\ d2.rows = d1.rows /\ d2.zset = d1.zset
        /\ d2.text = [d1.text EXCEPT ![k] = 0]
    BY <1>4, <2>2, WithTextIs
  <2>4. /\ d3 \in RowDb /\ d3.rows = d2.rows /\ d3.zset = d2.zset
        /\ d3.text = [d2.text EXCEPT ![k] = r.label]
    <3> DEFINE label == r.label
    <3>1. label \in Labels \union {0} /\ k \in Keys /\ d2 \in RowDb
      BY <1>4, <2>3
    <3> HIDE DEF k, d2, label
    <3>2. /\ WithText(d2, k, label) \in RowDb
          /\ WithText(d2, k, label).text = [d2.text EXCEPT ![k] = label]
          /\ WithText(d2, k, label).rows = d2.rows /\ WithText(d2, k, label).zset = d2.zset
      BY <3>1, WithTextIs
    <3> QED BY <3>2 DEF label
  <2>5. r \in Row /\ r.key = k
    BY <1>4
  <2> HIDE DEF r, k
  <2>6. Run(db, Write("merge", r)) = d1
    BY <1>3, <2>5, RunIs
  <2> HIDE DEF d1
  <2>7. Run(d1, Write("unindex", r)) = d2
    BY <2>2, <2>5, RunIs
  <2> HIDE DEF d2
  <2>9. Run(d2, Write("index", r)) = d3
    BY <2>3, <2>5, RunIs
  <2>10. db' = d3
    BY <2>1, <2>6, <2>7, <2>9
  <2>8. ~HasZset
    BY <1>15 DEF HasZset
  <2> HIDE DEF d3
  <2> QED BY <1>1, <1>2, <1>3, <1>4, <1>10, <1>13, <1>15, <2>2, <2>3, <2>4, <2>8, <2>10 DEF RowDb, c, k, r
<1> QED BY <1>1, <1>2, <1>3, <1>8, <1>9, <1>11, <1>12, <1>14, <1>15, PlanIs DEF c, r

-----------------------------------------------------------------------------
(* The lists.                                                               *)
LEMMA RowsAre ==
    ASSUME RowStoresAssumption, RowInv
    PROVE  /\ Rows \subseteq Row /\ IsFiniteSet(Rows)
           /\ \A r \in Rows : r.key \in Keys /\ db.rows[r.key] = r
           /\ \A k \in Keys : db.rows[k] # NoRow => db.rows[k] \in Rows
           /\ Cardinality(Rows) <= Cardinality({k \in Keys : db.rows[k] # NoRow})
<1> DEFINE K == {k \in Keys : db.rows[k] # NoRow}
           f == [k \in K |-> db.rows[k]]
<1>1. IsFiniteSet(K)
  BY FS_Subset DEF RowStoresAssumption
<1>2. f \in Surjection(K, Rows)
  BY DEF Rows, Surjection
<1>3. IsFiniteSet(Rows) /\ Cardinality(Rows) <= Cardinality(K)
  BY <1>1, <1>2, FS_Surjection
<1>4. Rows \subseteq Row
  BY DEF Rows, RowInv, RowShape, RowDb
<1>5. \A r \in Rows : r.key \in Keys /\ db.rows[r.key] = r
  BY DEF Rows, RowInv, KeysInv
<1>6. \A k \in Keys : db.rows[k] # NoRow => db.rows[k] \in Rows
  BY DEF Rows
<1> QED BY <1>3, <1>4, <1>5, <1>6

LEMMA NewestShows ==
    ASSUME RowStoresAssumption, RowInv, NEW S \in SUBSET Rows
    PROVE  Shows(InOrder(S, Newest), S)
<1> DEFINE R == {p \in S \X S : Newest(p[1], p[2])}
<1>1. IsFiniteSet(S) /\ \A r \in S : r \in Row /\ r.at \in Int /\ r.key \in Int
  <2>1. Rows \subseteq Row /\ IsFiniteSet(Rows)
    BY RowsAre
  <2>2. IsFiniteSet(S)
    BY <2>1, FS_Subset
  <2>3. Keys \subseteq Int /\ Labels \subseteq Int /\ 1 .. MaxTick \subseteq Int
    BY DEF RowStoresAssumption
  <2> QED BY <2>1, <2>2, <2>3 DEF Row
<1>2. \A r, s \in S : r.key = s.key => r = s
  BY RowsAre
<1>3. TotalOn(S, R)
  <2>1. \A a, b \in S : <<a, b>> \in R <=> Newest(a, b)
    OBVIOUS
  <2> HIDE DEF R
  <2> QED BY <1>1, <1>2, <2>1 DEF TotalOn, Newest
<1>4. PICK l : ListsInOrder(S, R, l)
  BY <1>1, <1>3, CanBeListed
<1>5. l \in [1 .. Cardinality(S) -> S] /\ \A i, j \in 1 .. Cardinality(S) : i < j => Newest(l[i], l[j])
  BY <1>4 DEF ListsInOrder
<1> DEFINE s == InOrder(S, Newest)
<1>6. s \in [1 .. Cardinality(S) -> S] /\ \A i, j \in 1 .. Cardinality(S) : i < j => Newest(s[i], s[j])
  BY <1>5 DEF InOrder
<1>7. ListsInOrder(S, R, s)
  BY <1>6 DEF ListsInOrder
<1> QED BY <1>1, <1>3, <1>7, ListedShows

LEMMA SurestShows ==
    ASSUME RowStoresAssumption, RowInv, NEW S \in SUBSET Rows
    PROVE  Shows(InOrder(S, Surest), S)
<1> DEFINE R == {p \in S \X S : Surest(p[1], p[2])}
<1>1. IsFiniteSet(S) /\ \A r \in S : r \in Row /\ r.label \in Int /\ r.key \in Int
  <2>1. Rows \subseteq Row /\ IsFiniteSet(Rows)
    BY RowsAre
  <2>2. IsFiniteSet(S)
    BY <2>1, FS_Subset
  <2>3. Keys \subseteq Int /\ Labels \subseteq Int /\ 1 .. MaxTick \subseteq Int
    BY DEF RowStoresAssumption
  <2> QED BY <2>1, <2>2, <2>3 DEF Row
<1>2. \A r, s \in S : r.key = s.key => r = s
  BY RowsAre
<1>3. TotalOn(S, R)
  <2>1. \A a, b \in S : <<a, b>> \in R <=> Surest(a, b)
    OBVIOUS
  <2> HIDE DEF R
  <2> QED BY <1>1, <1>2, <2>1 DEF TotalOn, Surest
<1>4. PICK l : ListsInOrder(S, R, l)
  BY <1>1, <1>3, CanBeListed
<1>5. l \in [1 .. Cardinality(S) -> S] /\ \A i, j \in 1 .. Cardinality(S) : i < j => Surest(l[i], l[j])
  BY <1>4 DEF ListsInOrder
<1> DEFINE s == InOrder(S, Surest)
<1>6. s \in [1 .. Cardinality(S) -> S] /\ \A i, j \in 1 .. Cardinality(S) : i < j => Surest(s[i], s[j])
  BY <1>5 DEF InOrder
<1>7. ListsInOrder(S, R, s)
  BY <1>6 DEF ListsInOrder
<1> QED BY <1>1, <1>3, <1>7, ListedShows

LEMMA LatestShows ==
    ASSUME RowStoresAssumption, RowInv, NEW S \in SUBSET Rows
    PROVE  Shows(InOrder(S, Latest), S)
<1> DEFINE R == {p \in S \X S : Latest(p[1], p[2])}
<1>1. IsFiniteSet(S) /\ \A r \in S : r \in Row /\ r.key \in Int
  <2>1. Rows \subseteq Row /\ IsFiniteSet(Rows)
    BY RowsAre
  <2>2. IsFiniteSet(S)
    BY <2>1, FS_Subset
  <2>3. Keys \subseteq Int /\ Labels \subseteq Int /\ 1 .. MaxTick \subseteq Int
    BY DEF RowStoresAssumption
  <2> QED BY <2>1, <2>2, <2>3 DEF Row
<1>2. \A r, s \in S : r.key = s.key => r = s
  BY RowsAre
<1>3. TotalOn(S, R)
  <2>1. \A a, b \in S : <<a, b>> \in R <=> Latest(a, b)
    OBVIOUS
  <2> HIDE DEF R
  <2> QED BY <1>1, <1>2, <2>1 DEF TotalOn, Latest
<1>4. PICK l : ListsInOrder(S, R, l)
  BY <1>1, <1>3, CanBeListed
<1>5. l \in [1 .. Cardinality(S) -> S] /\ \A i, j \in 1 .. Cardinality(S) : i < j => Latest(l[i], l[j])
  BY <1>4 DEF ListsInOrder
<1> DEFINE s == InOrder(S, Latest)
<1>6. s \in [1 .. Cardinality(S) -> S] /\ \A i, j \in 1 .. Cardinality(S) : i < j => Latest(s[i], s[j])
  BY <1>5 DEF InOrder
<1>7. ListsInOrder(S, R, s)
  BY <1>6 DEF ListsInOrder
<1> QED BY <1>1, <1>3, <1>7, ListedShows

(* The sorted set of Redis, newest first.                                   *)
Placed == {k \in Keys : db.zset[k] # 0}
Touched == InOrder(Placed, LastTouched)
TouchedBefore == {p \in Placed \X Placed : LastTouched(p[1], p[2])}

LEMMA TouchedIs ==
    ASSUME RowStoresAssumption, RowInv
    PROVE  /\ IsFiniteSet(Placed) /\ TotalOn(Placed, TouchedBefore) /\ ListsInOrder(Placed, TouchedBefore, Touched)
           /\ Shows(Touched, Placed) /\ Cardinality(Placed) \in Nat
           /\ \A k \in Placed : k \in Keys /\ k \in Int /\ db.zset[k] \in Int
           /\ \A k, l \in Placed : <<k, l>> \in TouchedBefore <=> LastTouched(k, l)
<1>1. IsFiniteSet(Placed) /\ \A k \in Placed : k \in Keys /\ k \in Int /\ db.zset[k] \in Int
  BY FS_Subset DEF Placed, RowStoresAssumption, RowInv, RowShape, RowDb
<1>2. \A k, l \in Placed : <<k, l>> \in TouchedBefore <=> LastTouched(k, l)
  BY DEF TouchedBefore
<1>3. TotalOn(Placed, TouchedBefore)
  BY <1>1, <1>2 DEF TotalOn, LastTouched
<1>4. PICK s : ListsInOrder(Placed, TouchedBefore, s)
  BY <1>1, <1>3, CanBeListed
<1>5. /\ s \in [1 .. Cardinality(Placed) -> Placed]
      /\ \A i, j \in 1 .. Cardinality(Placed) : i < j => LastTouched(s[i], s[j])
  BY <1>2, <1>4 DEF ListsInOrder
<1>6. /\ Touched \in [1 .. Cardinality(Placed) -> Placed]
      /\ \A i, j \in 1 .. Cardinality(Placed) : i < j => LastTouched(Touched[i], Touched[j])
  BY <1>5 DEF Touched, InOrder
<1>7. ListsInOrder(Placed, TouchedBefore, Touched)
  BY <1>2, <1>6 DEF ListsInOrder
<1>8. Shows(Touched, Placed)
  BY <1>1, <1>3, <1>7, ListedShows
<1>9. Cardinality(Placed) \in Nat
  BY <1>1, FS_CardinalityType
<1> QED BY <1>1, <1>2, <1>3, <1>7, <1>8, <1>9

(* A range of the sorted set from its start.                                *)
LEMMA RangeShows ==
    ASSUME RowStoresAssumption, RowInv, NEW n \in Nat \ {0}
    PROVE  /\ RevRange(0, n - 1) \in Seq(Placed)
           /\ \A k \in Placed : Cardinality({l \in Keys : db.zset[l] > db.zset[k]}) < n =>
                 k \in ToSet(RevRange(0, n - 1))
           /\ Cardinality(Placed) <= n => Placed \subseteq ToSet(RevRange(0, n - 1))
<1>1. /\ IsFiniteSet(Placed) /\ TotalOn(Placed, TouchedBefore) /\ ListsInOrder(Placed, TouchedBefore, Touched)
      /\ Touched \in Seq(Placed) /\ Len(Touched) = Cardinality(Placed) /\ ToSet(Touched) = Placed
      /\ Cardinality(Placed) \in Nat
  BY TouchedIs DEF Shows
<1> DEFINE m == IF n < Len(Touched) THEN n ELSE Len(Touched)
<1>2. RevRange(0, n - 1) = First(n, Touched)
  BY <1>1 DEF RevRange, First, Touched, Placed
<1>3. /\ First(n, Touched) \in Seq(Placed)
      /\ \A i \in 1 .. Len(Touched) : i <= n => Touched[i] \in ToSet(First(n, Touched))
      /\ n >= Len(Touched) => ToSet(First(n, Touched)) = ToSet(Touched)
  BY <1>1, FirstShows
<1>4. ASSUME NEW k \in Placed, Cardinality({l \in Keys : db.zset[l] > db.zset[k]}) < n
      PROVE  k \in ToSet(First(n, Touched))
  <2> DEFINE T == {l \in Keys : db.zset[l] > db.zset[k]}
  <2>1. PICK i \in 1 .. Cardinality(Placed) : Touched[i] = k
    BY <1>1, ListShows
  <2>2. IsFiniteSet(T) /\ Cardinality(T) \in Nat
    BY FS_Subset, FS_CardinalityType DEF RowStoresAssumption
  <2>3. \A l \in Placed : <<l, Touched[i]>> \in TouchedBefore => l \in T
    <3> SUFFICES ASSUME NEW l \in Placed, <<l, k>> \in TouchedBefore PROVE l \in T
      BY <2>1
    <3>1. LastTouched(l, k)
      BY TouchedIs
    <3>2. db.zset[l] = db.zset[k] => l = k
      BY DEF RowInv, TimesDiffer, Placed
    <3>3. l # k
      BY <1>1 DEF TotalOn
    <3> QED BY <3>1, <3>2, <3>3 DEF LastTouched, Placed
  <2> HIDE DEF T
  <2>4. i <= Cardinality(T) + 1
    BY <1>1, <2>1, <2>2, <2>3, PlaceIsBounded
  <2>5. Cardinality(T) < n
    BY <1>4 DEF T
  <2>6. i <= n /\ i \in 1 .. Len(Touched)
    BY <1>1, <2>1, <2>2, <2>4, <2>5
  <2> QED BY <1>3, <2>1, <2>6
<1> QED BY <1>1, <1>2, <1>3, <1>4

(* ZREVRANGE 0 to -2: all but the last.                                     *)
LEMMA AllButLastShows ==
    ASSUME RowStoresAssumption, RowInv, NEW k \in Placed
    PROVE  /\ RevRange(0, -2) \in Seq(Placed)
           /\ k \notin ToSet(RevRange(0, -2)) => \A l \in Placed : db.zset[l] >= db.zset[k]
<1> DEFINE n == Cardinality(Placed)
<1>1. /\ IsFiniteSet(Placed) /\ TotalOn(Placed, TouchedBefore) /\ ListsInOrder(Placed, TouchedBefore, Touched)
      /\ Touched \in Seq(Placed) /\ Len(Touched) = n /\ ToSet(Touched) = Placed
      /\ n \in Nat
      /\ \A l \in Placed : db.zset[l] \in Int
      /\ \A l, m \in Placed : <<l, m>> \in TouchedBefore <=> LastTouched(l, m)
  BY TouchedIs DEF Shows
<1>2. PICK i \in 1 .. n : Touched[i] = k
  BY <1>1, ListShows
<1>3. n # 0 /\ n - 1 \in Nat
  BY <1>1, <1>2
<1>4. RevRange(0, -2) = First(n - 1, Touched)
  <2> DEFINE stop == n + (-2)
  <2>1. RevRange(0, -2) = SubSeq(Touched, 0 + 1, IF stop + 1 < Len(Touched) THEN stop + 1 ELSE Len(Touched))
    <3>1. -2 < 0
      OBVIOUS
    <3> QED BY <1>1, <3>1 DEF RevRange, Touched, Placed
  <2>2. stop + 1 = n - 1 /\ n - 1 < n /\ 0 + 1 = 1
    BY <1>1
  <2> HIDE DEF stop, n
  <2> QED BY <1>1, <2>1, <2>2 DEF First
<1>5. /\ First(n - 1, Touched) \in Seq(Placed)
      /\ \A j \in 1 .. Len(Touched) : j <= n - 1 => Touched[j] \in ToSet(First(n - 1, Touched))
  BY <1>1, <1>3, FirstShows
<1> SUFFICES ASSUME k \notin ToSet(RevRange(0, -2)), NEW l \in Placed PROVE db.zset[l] >= db.zset[k]
  BY <1>4, <1>5
<1>6. i = n
  BY <1>1, <1>2, <1>4, <1>5
<1>7. PICK j \in 1 .. n : Touched[j] = l
  BY <1>1, ListShows
<1>8. CASE j = n
  BY <1>1, <1>2, <1>6, <1>7, <1>8
<1>9. CASE j < i
  <2>1. <<l, k>> \in TouchedBefore
    BY <1>1, <1>2, <1>7, <1>9 DEF ListsInOrder
  <2> QED BY <1>1, <2>1 DEF LastTouched
<1> QED BY <1>1, <1>6, <1>7, <1>8, <1>9

(* The records that a list of keys names.                                   *)
LEMMA RecordsShow ==
    ASSUME RowStoresAssumption, RowInv, NEW keys \in Seq(Placed)
    PROVE  /\ Records(keys) \in Seq(Rows)
           /\ ToSet(Records(keys)) \subseteq Rows
           /\ \A k \in ToSet(keys) : db.rows[k] # NoRow => db.rows[k] \in ToSet(Records(keys))
<1> DEFINE rows == [i \in DOMAIN keys |-> db.rows[keys[i]]]
<1>1. Len(keys) \in Nat /\ DOMAIN rows = 1 .. Len(keys)
  OBVIOUS
<1>2. /\ Among(rows, Rows) \in Seq(Rows)
      /\ ToSet(Among(rows, Rows)) = {rows[i] : i \in 1 .. Len(keys)} \cap Rows
  <2>1. PICK m \in Nat : m = Len(keys) /\ DOMAIN rows = 1 .. m
    BY <1>1
  <2>2. PICK T : T = Rows
    OBVIOUS
  <2> HIDE DEF rows
  <2>3. Among(rows, T) \in Seq(T) /\ ToSet(Among(rows, T)) = {rows[i] : i \in 1 .. m} \cap T
    BY <2>1, AmongShows
  <2> QED BY <2>1, <2>2, <2>3
<1>3. Records(keys) = Among(rows, Rows)
  BY DEF Records
<1>4. ASSUME NEW k \in ToSet(keys), db.rows[k] # NoRow
      PROVE  db.rows[k] \in ToSet(Records(keys))
  <2>1. PICK i \in 1 .. Len(keys) : keys[i] = k
    BY DEF ToSet
  <2>2. rows[i] = db.rows[k]
    BY <2>1
  <2>3. k \in Keys
    BY <2>1 DEF Placed
  <2>4. db.rows[k] \in Rows
    BY <1>4, <2>3, RowsAre
  <2> HIDE DEF rows
  <2> QED BY <1>2, <1>3, <2>2, <2>4
<1> QED BY <1>2, <1>3, <1>4

(* The lookup of memory_diary_add finds an entry or none, and on Redis the  *)
(* entry of the day unless it is hidden.                                    *)
LEMMA FoundIs ==
    ASSUME RowStoresAssumption, RowInv, NEW k \in Keys
    PROVE  LET found == [sqlite |-> SqliteListDiary(k, k, 1), postgres |-> PostgresListDiary(k, k, 1),
                         redis |-> RedisListDiary(k, k, 1)][backend]
           IN  /\ found = <<>> \/ found[1] \in Row
               /\ backend = "redis" /\ ~Hidden(k) /\ db.rows[k] # NoRow => found # <<>> /\ found[1] = db.rows[k]
<1> DEFINE S == InRange(k, k)
           W == Window(1)
<1>1. /\ S \in SUBSET Rows /\ Rows \subseteq Row /\ IsFiniteSet(Rows)
      /\ \A r \in S : r.key = k /\ r = db.rows[k]
      /\ db.rows[k] # NoRow => db.rows[k] \in S
  <2>1. \A r \in Rows : r.key \in Keys /\ r.key \in Int /\ db.rows[r.key] = r
    <3>1. \A r \in Rows : r.key \in Keys /\ db.rows[r.key] = r
      BY RowsAre
    <3>2. Keys \subseteq Int
      BY DEF RowStoresAssumption
    <3> QED BY <3>1, <3>2
  <2>2. k \in Int /\ (db.rows[k] # NoRow => db.rows[k].key = k)
    BY DEF RowStoresAssumption, RowInv, KeysInv
  <2>3. \A r \in S : r.key = k
    BY <2>1, <2>2 DEF InRange
  <2>4. db.rows[k] # NoRow => db.rows[k] \in S
    BY <2>2, RowsAre DEF InRange
  <2> QED BY <2>1, <2>3, <2>4, RowsAre DEF InRange
<1>2. W \in Nat \ {0} /\ DefaultLimit \in Nat \ {0}
  BY DEF Window, RowStoresAssumption
<1> HIDE DEF S, W
<1>3. ASSUME NEW s \in Seq(S)
      PROVE  /\ First(1, s) = <<>> \/ First(1, s)[1] \in S
             /\ s # <<>> => First(1, s) # <<>> /\ First(1, s)[1] \in S
  <2>1. First(1, s) \in Seq(S) /\ Len(First(1, s)) = IF 1 < Len(s) THEN 1 ELSE Len(s)
    BY <1>3, FirstShows
  <2>2. First(1, s) # <<>> => First(1, s)[1] \in S
    BY <2>1
  <2>3. s # <<>> => Len(s) # 0 /\ Len(s) \in Nat
    BY <1>3
  <2>4. ASSUME s # <<>> PROVE Len(First(1, s)) = 1
    <3> DEFINE m == Len(s)
               x == Len(First(1, s))
    <3>1. m \in Nat /\ m # 0 /\ x = IF 1 < m THEN 1 ELSE m
      BY <2>1, <2>3, <2>4
    <3> HIDE DEF m, x
    <3>2. x = 1
      BY <3>1
    <3> QED BY <3>2 DEF x
  <2>5. s # <<>> => First(1, s) # <<>>
    BY <2>4
  <2> QED BY <2>2, <2>5
<1>4. SqliteListDiary(k, k, 1) = First(1, InOrder(S, Latest)) /\ PostgresListDiary(k, k, 1) = First(1, InOrder(S, Latest))
  BY DEF SqliteListDiary, PostgresListDiary, Decode, S
<1>5. InOrder(S, Latest) \in Seq(S)
  BY <1>1, LatestShows DEF Shows
<1> DEFINE keys == RevRange(0, W - 1)
           records == Records(keys)
           keptRows == Among(records, S)
<1>6. RedisListDiary(k, k, 1) = First(1, keptRows)
  BY DEF RedisListDiary, S, W
<1>7. /\ keys \in Seq(Placed)
      /\ \A l \in Placed : Cardinality({j \in Keys : db.zset[j] > db.zset[l]}) < W => l \in ToSet(keys)
  BY <1>2, RangeShows
<1>8. /\ records \in Seq(Rows)
      /\ \A l \in ToSet(keys) : db.rows[l] # NoRow => db.rows[l] \in ToSet(records)
  BY <1>7, RecordsShow
<1> HIDE DEF keys, records
<1>9. keptRows \in Seq(S) /\ ToSet(keptRows) = ToSet(records) \cap S
  <2> DEFINE m == Len(records)
  <2>1. m \in Nat /\ DOMAIN records = 1 .. m
    BY <1>8
  <2>2. ToSet(records) = {records[i] : i \in 1 .. m}
    BY <2>1 DEF ToSet
  <2> HIDE DEF m
  <2>3. Among(records, S) \in Seq(S) /\ ToSet(Among(records, S)) = {records[i] : i \in 1 .. m} \cap S
    BY <2>1, AmongShows
  <2> QED BY <2>2, <2>3
<1>10. ASSUME ~Hidden(k), db.rows[k] # NoRow
       PROVE  keptRows # <<>>
  <2>1. db.zset[k] = db.rows[k].at /\ db.rows[k].at # 0
    BY <1>10 DEF Hidden, RowInv, RowShape, RowDb, Row
  <2>2. k \in Placed
    BY <2>1 DEF Placed
  <2>3. ~(Cardinality({l \in Keys : db.zset[l] > db.zset[k]}) >= W)
    BY <1>10 DEF Hidden, W
  <2>4. Cardinality({l \in Keys : db.zset[l] > db.zset[k]}) \in Nat
    BY FS_Subset, FS_CardinalityType DEF RowStoresAssumption
  <2>5. k \in ToSet(keys)
    BY <1>2, <1>7, <2>2, <2>3, <2>4
  <2>6. db.rows[k] \in ToSet(keptRows)
    BY <1>1, <1>8, <1>9, <1>10, <2>5
  <2> QED BY <2>6 DEF ToSet
<1> HIDE DEF keptRows
<1>11. CASE backend = "sqlite"
  BY <1>1, <1>3, <1>4, <1>5, <1>11
<1>12. CASE backend = "postgres"
  BY <1>1, <1>3, <1>4, <1>5, <1>12
<1>13. CASE backend = "redis"
  BY <1>1, <1>3, <1>6, <1>9, <1>10, <1>13
<1> QED BY <1>11, <1>12, <1>13 DEF RowInv, RowShape, Backends

-----------------------------------------------------------------------------
(* The steps.                                                               *)
LEMMA PlanStays ==
    ASSUME NEW c, UNCHANGED <<backend, family>>
    PROVE  PlanOf(c)' = PlanOf(c) /\ RecordOf(c)' = RecordOf(c) /\ HasZset' = HasZset
BY DEF PlanOf, RecordOf, HasZset, UpsertRow, DeleteLesson

(* A call that is left alone by a step stays as it should be.               *)
LEMMA OtherCallStays ==
    ASSUME RowInv, UNCHANGED <<backend, family>>, tick' \in Nat, tick <= tick', NEW w \in Writers, Acts(w),
           \/ call'[w] = call[w]
           \/ call'[w] = [call[w] EXCEPT !.alone = FALSE],
           call'[w].alone =>
              /\ db'.rows[call[w].key] = db.rows[call[w].key]
              /\ db'.zset[call[w].key] = db.zset[call[w].key]
              /\ \A x \in Writers \ {w} : Acts(x)' => call'[x].key # call[w].key
    PROVE  CallOK(w)'
<1>1. call[w] \in Calls /\ call[w] # Idle
  BY DEF RowInv, RowShape, Acts
<1> PICK c : c = call[w]
  OBVIOUS
<1> PICK n : n = call'[w]
  OBVIOUS
<1>2. /\ n.phase = c.phase /\ n.key = c.key /\ n.row = c.row /\ n.left = c.left
      /\ n.todo = c.todo /\ n.hidden = c.hidden /\ (n.alone => c.alone)
  BY <1>1 DEF Calls
<1>3. CallInv(c) /\ (c.alone => WroteInv(c) /\ BornInv(c))
  BY DEF RowInv, CallOK
<1>4. tick \in Nat /\ c.row.at \in Nat
  BY <1>1 DEF RowInv, RowShape, Calls, Row
<1>5. PlanOf(n)' = PlanOf(c) /\ RecordOf(n.left)' = RecordOf(c.left) /\ HasZset' = HasZset
  <2>1. PlanOf(n)' = PlanOf(n) /\ RecordOf(n.left)' = RecordOf(n.left) /\ HasZset' = HasZset
    BY PlanStays
  <2>2. PlanOf(n) = PlanOf(c)
    BY <1>2 DEF PlanOf
  <2> QED BY <1>2, <2>1, <2>2
<1>6. CallInv(n)'
  BY <1>2, <1>3, <1>4, <1>5 DEF CallInv
<1>7. n.alone => WroteInv(n)' /\ BornInv(n)'
  BY <1>2, <1>3, <1>5 DEF WroteInv, BornInv
<1>8. CallInv(call[w])' /\ (n.alone => WroteInv(call[w])' /\ BornInv(call[w])')
  BY <1>6, <1>7
<1>9. n.alone => \A x \in Writers \ {w} : Acts(x)' => call'[x].key # n.key
  BY <1>2
<1> QED BY <1>8, <1>9 DEF CallOK

LEMMA InitRowInv ==
    ASSUME RowStoresAssumption, RowInit PROVE RowInv
<1>1. RowShape
  BY DEF RowInit, RowShape, RowDb, RowStoresAssumption
<1>2. \A w \in Writers : ~Acts(w)
  BY DEF RowInit, Acts
<1>3. KeysInv /\ TextInv /\ TimesDiffer
  BY <1>2 DEF RowInit, KeysInv, TextInv, TimesDiffer
<1>4. \A k \in Keys : SureInv(k)
  BY <1>2 DEF RowInit, SureInv, RecordOf, PlaceOf
<1> QED BY <1>1, <1>2, <1>3, <1>4 DEF RowInv, CallOK

(* The store stays, and the calls but one; the times stay apart.            *)
LEMMA StoreStays ==
    ASSUME RowInv, UNCHANGED <<backend, family, db>>
    PROVE  KeysInv' /\ TextInv'
BY DEF RowInv, KeysInv, TextInv

LEMMA PlanNotEmpty ==
    ASSUME RowShape, NEW r \in Row PROVE UpsertRow(r) # <<>> /\ DeleteLesson(r) # <<>>
<1>1. \A a, b : <<a>> # <<>> /\ <<a, b>> # <<>>
  OBVIOUS
<1>2. DeleteLesson(r) # <<>>
  BY <1>1, DeleteIs
<1>3. UpsertRow(r) # <<>>
  BY <1>1, UpsertIs DEF RowShape, Backends, Families
<1> QED BY <1>2, <1>3

LEMMA BeginKeeps ==
    ASSUME RowStoresAssumption, RowInv, NEW w \in Writers, NEW k \in Keys,
           NEW phase \in {"lookup", "write"}, NEW r \in Row, r.key = k, r.at = tick + 1,
           NEW left, left = r \/ (left = NoRow /\ family = "lesson"),
           NEW todo \in Seq(Seq(RowOps)),
           phase = "lookup" => family = "diary",
           phase = "write" => family # "diary" /\ todo = (IF left = NoRow THEN DeleteLesson(r) ELSE UpsertRow(r)),
           Begin(w, phase, k, r, left, todo)
    PROVE  RowInv'
<1> PICK alone \in BOOLEAN : alone = (Others(w, k) = {})
  OBVIOUS
<1> PICK hidden \in BOOLEAN : hidden = Hidden(k)
  BY DEF Hidden
<1> DEFINE n == [phase |-> phase, key |-> k, row |-> r, left |-> left, todo |-> todo,
                 alone |-> alone, hidden |-> hidden]
<1>1. /\ call[w] = Idle /\ tick < MaxTick /\ tick' = tick + 1
      /\ call' = [Contend(k) EXCEPT ![w] = n]
      /\ sure' = [sure EXCEPT ![k] = Unknown]
      /\ UNCHANGED <<backend, family, db>>
  BY DEF Begin
<1>2. RowShape /\ tick \in Nat /\ MaxTick \in Nat
  BY DEF RowInv, RowShape, RowStoresAssumption
<1>3. n \in Calls /\ n # Idle
  BY DEF Calls, Idle
<1>4. /\ call'[w] = n
      /\ \A x \in Writers \ {w} :
            call'[x] = IF Acts(x) /\ call[x].key = k THEN [call[x] EXCEPT !.alone = FALSE] ELSE call[x]
      /\ DOMAIN call' = Writers
  BY <1>1 DEF Contend, Acts
<1> HIDE DEF n
<1>5. ASSUME NEW x \in Writers \ {w}
      PROVE  /\ Acts(x)' <=> Acts(x)
             /\ Acts(x) => /\ call'[x] \in Calls
                           /\ call'[x] = call[x] \/ call'[x] = [call[x] EXCEPT !.alone = FALSE]
                           /\ call'[x].key = call[x].key /\ call'[x].row = call[x].row
                           /\ call'[x].alone => call[x].key # k
             /\ ~Acts(x) => call'[x] = Idle
  <2>1. CASE ~Acts(x)
    BY <1>4, <2>1 DEF Acts
  <2>2. CASE Acts(x) /\ call[x].key # k
    BY <1>2, <1>4, <2>2 DEF Acts, RowShape
  <2>3. CASE Acts(x) /\ call[x].key = k
    <3>1. call[x] \in Calls
      BY <1>2, <2>3 DEF Acts, RowShape
    <3>2. call'[x] = [call[x] EXCEPT !.alone = FALSE]
      BY <1>4, <2>3
    <3>3. [call[x] EXCEPT !.alone = FALSE] \in Calls /\ [call[x] EXCEPT !.alone = FALSE] # Idle
          /\ [call[x] EXCEPT !.alone = FALSE].alone = FALSE
          /\ [call[x] EXCEPT !.alone = FALSE].key = call[x].key
          /\ [call[x] EXCEPT !.alone = FALSE].row = call[x].row
      BY <3>1 DEF Calls, Idle
    <3> QED BY <2>3, <3>2, <3>3 DEF Acts
  <2> QED BY <2>1, <2>2, <2>3
<1>6. Acts(w)' /\ ~Acts(w)
  BY <1>1, <1>3, <1>4 DEF Acts
<1>7. RowShape'
  <2>1. call' \in [Writers -> Calls \union {Idle}]
    <3>1. \A x \in Writers : call'[x] \in Calls \union {Idle}
      BY <1>3, <1>4, <1>5
    <3>2. call' = [x \in Writers |-> call'[x]]
      BY <1>1 DEF Contend
    <3> QED BY <3>1, <3>2
  <2>2. sure' \in [Keys -> Row \union {NoRow, Unknown}] /\ tick' \in 0 .. MaxTick
    BY <1>1, <1>2 DEF RowShape
  <2> QED BY <1>1, <1>2, <2>1, <2>2 DEF RowShape
<1>8. TimesDiffer'
  <2>1. TimesDiffer /\ \A l \in Keys : db.zset[l] \in Nat /\ db.zset[l] <= tick
    BY <1>2 DEF RowInv, TimesDiffer, RowShape, RowDb
  <2>2. ASSUME NEW x \in Writers, Acts(x)
        PROVE  call[x].row.at \in Nat /\ call[x].row.at <= tick
    BY <1>2, <2>2 DEF RowInv, CallOK, CallInv, RowShape, Acts, Calls, Row
  <2>3. call'[w].row.at = tick + 1 /\ call'[w].key = k
    BY <1>4 DEF n
  <2>4. \A l \in Keys : db'.zset[l] <= tick' /\ db'.zset[l] # tick + 1
    BY <1>1, <1>2, <2>1
  <2>5. \A x \in Writers \ {w} : Acts(x)' => call'[x].row.at # tick + 1 /\ call'[x].row = call[x].row
                                             /\ call'[x].key = call[x].key /\ Acts(x)
    <3> SUFFICES ASSUME NEW x \in Writers \ {w}, Acts(x)'
                 PROVE  /\ call'[x].row.at # tick + 1 /\ call'[x].row = call[x].row
                        /\ call'[x].key = call[x].key /\ Acts(x)
      OBVIOUS
    <3>1. Acts(x) /\ call'[x].row = call[x].row /\ call'[x].key = call[x].key
      BY <1>5
    <3>2. call[x].row.at \in Nat /\ call[x].row.at <= tick
      BY <2>2, <3>1
    <3>3. call[x].row.at # tick + 1
      BY <1>2, <3>2
    <3> QED BY <3>1, <3>3
  <2>6. \A x \in Writers, l \in Keys : Acts(x)' /\ db'.zset[l] = call'[x].row.at => l = call'[x].key
    BY <1>1, <2>1, <2>3, <2>4, <2>5 DEF TimesDiffer
  <2>7. \A x, y \in Writers : Acts(x)' /\ Acts(y)' /\ call'[x].row.at = call'[y].row.at => x = y
    BY <2>1, <2>3, <2>5 DEF TimesDiffer
  <2>8. \A l, m \in Keys : db'.zset[l] = db'.zset[m] /\ db'.zset[l] # 0 => l = m
    BY <1>1, <2>1 DEF TimesDiffer
  <2> QED BY <2>4, <2>6, <2>7, <2>8 DEF TimesDiffer
<1>9. ASSUME NEW x \in Writers \ {w} PROVE CallOK(x)'
  <2>1. CASE ~Acts(x)
    BY <1>5, <2>1 DEF CallOK
  <2>2. CASE Acts(x)
    <3>1. call'[x].alone => call[x].alone /\ call[x].key # k
      <4>1. call[x] \in Calls
        BY <1>2, <2>2 DEF Acts, RowShape
      <4> QED BY <1>5, <2>2, <4>1 DEF Calls
    <3>2. call'[x].alone => \A y \in Writers \ {x} : Acts(y)' => call'[y].key # call[x].key
      <4> SUFFICES ASSUME call'[x].alone, NEW y \in Writers \ {x}, Acts(y)'
                   PROVE  call'[y].key # call[x].key
        OBVIOUS
      <4>1. CASE y = w
        BY <1>4, <3>1, <4>1 DEF n
      <4>2. CASE y # w
        <5>1. Acts(y) /\ call'[y].key = call[y].key
          BY <1>5, <4>2
        <5> QED BY <2>2, <3>1, <5>1 DEF RowInv, CallOK
      <4> QED BY <4>1, <4>2
    <3>3. tick' \in Nat /\ tick <= tick'
      BY <1>1, <1>2
    <3>4. call'[x] = call[x] \/ call'[x] = [call[x] EXCEPT !.alone = FALSE]
      BY <1>5, <2>2
    <3>5. x \in Writers /\ UNCHANGED <<backend, family>>
      BY <1>1
    <3>6. call'[x].alone =>
            /\ db'.rows[call[x].key] = db.rows[call[x].key]
            /\ db'.zset[call[x].key] = db.zset[call[x].key]
            /\ \A y \in Writers \ {x} : Acts(y)' => call'[y].key # call[x].key
      BY <1>1, <3>2
    <3> QED BY <2>2, <3>3, <3>4, <3>5, <3>6, OtherCallStays
  <2> QED BY <2>1, <2>2
<1>10. CallOK(w)'
  <2>1. /\ n.phase = phase /\ n.key = k /\ n.row = r /\ n.left = left /\ n.todo = todo /\ n.alone = alone
        /\ n.hidden = hidden
    BY DEF n
  <2>2. PlanOf(n)' = PlanOf(n)
    BY <1>1, PlanStays
  <2>3. phase = "write" => family # "diary" /\ todo = PlanOf(n)
    BY <2>1 DEF PlanOf
  <2>4. CallInv(n)'
    BY <1>1, <2>1, <2>2, <2>3 DEF CallInv
  <2>5. WroteInv(n)'
    <3>1. phase = "write" => PlanOf(n) # <<>>
      <4>1. UpsertRow(r) # <<>> /\ DeleteLesson(r) # <<>>
        BY <1>2, PlanNotEmpty
      <4> QED BY <2>1, <4>1 DEF PlanOf
    <3> QED BY <1>1, <2>1, <2>2, <2>3, <3>1 DEF WroteInv
  <2>6. BornInv(n)'
    BY <1>1, <2>1, <2>2, <2>3 DEF BornInv
  <2>7. alone => \A x \in Writers \ {w} : Acts(x)' => call'[x].key # k
    BY <1>5 DEF Others, Acts
  <2> QED BY <1>4, <2>1, <2>4, <2>5, <2>6, <2>7 DEF CallOK
<1>11. ASSUME NEW l \in Keys PROVE SureInv(l)'
  <2>1. CASE l = k
    BY <1>1, <1>2, <2>1 DEF SureInv, RowShape
  <2>2. CASE l # k
    <3>1. sure'[l] = sure[l] /\ SureInv(l)
      BY <1>1, <1>2, <2>2 DEF RowInv, RowShape
    <3>2. RecordOf(sure[l])' = RecordOf(sure[l]) /\ HasZset' = HasZset
      <4>1. PICK y : y = sure[l]
        OBVIOUS
      <4> QED BY <1>1, <3>1, <4>1, PlanStays
    <3>3. sure[l] # Unknown => \A x \in Writers : Acts(x)' => call'[x].key # l
      BY <1>4, <1>5, <2>2, <3>1 DEF SureInv, n
    <3> QED BY <1>1, <3>1, <3>2, <3>3 DEF SureInv
  <2> QED BY <2>1, <2>2
<1> QED BY <1>1, <1>7, <1>8, <1>9, <1>10, <1>11, StoreStays DEF RowInv

(* A step of one call, on its own key, leaves the others and what was       *)
(* acknowledged as they should be.                                          *)
LEMMA OthersStay ==
    ASSUME RowInv, NEW w \in Writers, Acts(w), NEW n, call' = [call EXCEPT ![w] = n],
           n = Idle \/ n.key = call[w].key, UNCHANGED <<backend, family, tick>>,
           \A l \in Keys \ {call[w].key} : db'.rows[l] = db.rows[l] /\ db'.zset[l] = db.zset[l]
    PROVE  /\ \A x \in Writers \ {w} : CallOK(x)'
           /\ \A l \in Keys : sure'[l] = sure[l] => SureInv(l)'
<1>1. /\ call \in [Writers -> Calls \union {Idle}] /\ tick \in Nat
      /\ call'[w] = n /\ \A x \in Writers \ {w} : call'[x] = call[x]
      /\ call[w] \in Calls /\ call[w].key \in Keys
  BY DEF RowInv, RowShape, Acts, Calls
<1>2. ASSUME NEW x \in Writers \ {w} PROVE CallOK(x)'
  <2>1. CASE ~Acts(x)
    BY <1>1, <2>1 DEF CallOK, Acts
  <2>2. CASE Acts(x)
    <3>1. call[x] \in Calls /\ call[x].key \in Keys
      BY <1>1, <2>2 DEF Acts, Calls
    <3>2. call[x].alone => call[x].key # call[w].key
      BY <2>2 DEF RowInv, CallOK
    <3>3. call[x].alone => /\ db'.rows[call[x].key] = db.rows[call[x].key]
                           /\ db'.zset[call[x].key] = db.zset[call[x].key]
      BY <3>1, <3>2
    <3>4. call[x].alone => \A y \in Writers \ {x} : Acts(y)' => call'[y].key # call[x].key
      <4> SUFFICES ASSUME call[x].alone, NEW y \in Writers \ {x}, Acts(y)' PROVE call'[y].key # call[x].key
        OBVIOUS
      <4>1. CASE y = w
        BY <1>1, <3>2, <4>1 DEF Acts
      <4>2. CASE y # w
        BY <1>1, <2>2, <4>2 DEF RowInv, CallOK, Acts
      <4> QED BY <4>1, <4>2
    <3>5. tick' \in Nat /\ tick <= tick' /\ call'[x] = call[x]
      BY <1>1
    <3> QED BY <2>2, <3>3, <3>4, <3>5, OtherCallStays
  <2> QED BY <2>1, <2>2
<1>3. ASSUME NEW l \in Keys, sure'[l] = sure[l] PROVE SureInv(l)'
  <2> SUFFICES ASSUME sure[l] # Unknown PROVE SureInv(l)'
    BY <1>3 DEF SureInv
  <2>1. SureInv(l)
    BY DEF RowInv
  <2>2. call[w].key # l
    BY <2>1 DEF SureInv
  <2>3. RecordOf(sure[l])' = RecordOf(sure[l]) /\ HasZset' = HasZset
    <3>1. PICK y : y = sure[l]
      OBVIOUS
    <3> QED BY <1>3, <3>1, PlanStays
  <2>4. \A x \in Writers : Acts(x)' => call'[x].key # l
    BY <1>1, <2>1, <2>2 DEF SureInv, Acts
  <2>5. db'.rows[l] = db.rows[l] /\ db'.zset[l] = db.zset[l]
    BY <2>2
  <2> QED BY <1>3, <2>1, <2>3, <2>4, <2>5 DEF SureInv
<1> QED BY <1>2, <1>3

LEMMA InterruptKeeps ==
    ASSUME RowStoresAssumption, RowInv, NEW w \in Writers, Interrupt(w) PROVE RowInv'
<1>1. /\ Acts(w) /\ call' = [call EXCEPT ![w] = Idle] /\ UNCHANGED <<backend, family, db, tick, sure>>
  BY DEF Interrupt, Acts
<1>2. RowShape'
  BY <1>1 DEF RowInv, RowShape
<1>3. call'[w] = Idle /\ ~Acts(w)' /\ \A x \in Writers \ {w} : call'[x] = call[x]
  BY <1>1 DEF RowInv, RowShape, Acts
<1>4. TimesDiffer'
  BY <1>1, <1>3 DEF RowInv, TimesDiffer, Acts
<1>5. (\A x \in Writers \ {w} : CallOK(x)') /\ \A l \in Keys : SureInv(l)'
  <2>1. PICK n : n = Idle
    OBVIOUS
  <2>2. /\ \A x \in Writers \ {w} : CallOK(x)'
        /\ \A l \in Keys : sure'[l] = sure[l] => SureInv(l)'
    BY <1>1, <2>1, OthersStay
  <2> QED BY <1>1, <2>2
<1>6. CallOK(w)'
  BY <1>3 DEF CallOK
<1> QED BY <1>1, <1>2, <1>4, <1>5, <1>6, StoreStays DEF RowInv

LEMMA AnswerKeeps ==
    ASSUME RowStoresAssumption, RowInv, NEW w \in Writers, Answer(w) PROVE RowInv'
<1> PICK c : c = call[w]
  OBVIOUS
<1>1. /\ Acts(w) /\ c \in Calls /\ c.phase = "write" /\ c.todo = <<>> /\ call' = [call EXCEPT ![w] = Idle]
      /\ sure' = [sure EXCEPT ![c.key] = IF c.alone THEN c.left ELSE @]
      /\ UNCHANGED <<backend, family, db, tick>>
  BY DEF Answer, Acts, Idle, RowInv, RowShape
<1>2. c.key \in Keys /\ c.left \in Row \union {NoRow} /\ c.row \in Row
  BY <1>1 DEF Calls
<1>3. RowShape'
  BY <1>1, <1>2 DEF RowInv, RowShape
<1>4. call'[w] = Idle /\ ~Acts(w)' /\ \A x \in Writers \ {w} : call'[x] = call[x]
  BY <1>1 DEF RowInv, RowShape, Acts
<1>5. TimesDiffer'
  BY <1>1, <1>4 DEF RowInv, TimesDiffer, Acts
<1>6. /\ \A x \in Writers \ {w} : CallOK(x)'
      /\ \A l \in Keys : sure'[l] = sure[l] => SureInv(l)'
  <2>1. PICK n : n = Idle
    OBVIOUS
  <2> QED BY <1>1, <2>1, OthersStay
<1>7. CallOK(w)'
  BY <1>4 DEF CallOK
<1>8. ASSUME NEW l \in Keys PROVE SureInv(l)'
  <2>1. CASE l = c.key /\ c.alone
    <3>1. CallInv(c) /\ WroteInv(c) /\ \A x \in Writers \ {w} : Acts(x) => call[x].key # l
      BY <1>1, <2>1 DEF RowInv, CallOK
    <3>2. PlanOf(c) # <<>>
      <4>1. UpsertRow(c.row) # <<>> /\ DeleteLesson(c.row) # <<>>
        BY <1>2, PlanNotEmpty DEF RowInv
      <4> QED BY <4>1 DEF PlanOf
    <3>3. sure'[l] = c.left
      BY <1>1, <2>1 DEF RowInv, RowShape
    <3>4. RecordOf(c.left)' = RecordOf(c.left) /\ HasZset' = HasZset
      <4>1. PICK y : y = c.left
        OBVIOUS
      <4> QED BY <1>1, <4>1, PlanStays
    <3>5. \A x \in Writers : Acts(x)' => call'[x].key # l
      BY <1>4, <3>1 DEF Acts
    <3>6. family # "diary" => db'.rows[l] = RecordOf(c.left)
      BY <1>1, <2>1, <3>1, <3>2 DEF WroteInv
    <3>7. family # "diary" /\ HasZset => db'.zset[l] = PlaceOf(c.left)
      BY <1>1, <2>1, <3>1 DEF WroteInv
    <3> QED BY <1>1, <3>3, <3>4, <3>5, <3>6, <3>7 DEF SureInv
  <2>2. CASE ~(l = c.key /\ c.alone)
    BY <1>1, <1>6, <2>2 DEF RowInv, RowShape
  <2> QED BY <2>1, <2>2
<1> QED BY <1>1, <1>3, <1>5, <1>6, <1>7, <1>8, StoreStays DEF RowInv

LEMMA LookupKeeps ==
    ASSUME RowStoresAssumption, RowInv, NEW w \in Writers, DiaryLookup(w) PROVE RowInv'
<1>0. PICK c : c = call[w]
  OBVIOUS
<1> DEFINE k == c.key
<1>1. Acts(w) /\ c \in Calls /\ c.phase = "lookup" /\ family = "diary"
  BY <1>0 DEF DiaryLookup, Acts, Idle, RowInv, RowShape, CallOK, CallInv
<1>2. k \in Keys /\ c.row \in Row /\ c.row.key = k
  BY <1>0, <1>1 DEF Calls, RowInv, CallOK, CallInv
<1>19. PICK found : found = [sqlite |-> SqliteListDiary(k, k, 1), postgres |-> PostgresListDiary(k, k, 1),
                          redis |-> RedisListDiary(k, k, 1)][backend]
  OBVIOUS
<1>20. PICK r : r = [c.row EXCEPT !.born = IF found = <<>> THEN @ ELSE found[1].born]
  OBVIOUS
<1>21. PICK todo : todo = UpsertRow(r)
  OBVIOUS
<1>22. PICK hidden \in BOOLEAN : hidden = Hidden(k)
  BY DEF Hidden
<1>23. PICK n : n = [c EXCEPT !.phase = "write", !.row = r, !.left = r, !.todo = todo, !.hidden = hidden]
  OBVIOUS
<1>3. call' = [call EXCEPT ![w] = n] /\ UNCHANGED <<backend, family, db, tick, sure>>
  BY <1>0, <1>19, <1>20, <1>21, <1>22, <1>23 DEF DiaryLookup, RowInv, RowShape
<1>4. found = <<>> \/ found[1] \in Row
  BY <1>2, <1>19, FoundIs
<1>5. backend = "redis" /\ ~hidden /\ db.rows[k] # NoRow => r.born = db.rows[k].born
  <2>1. backend = "redis" /\ ~hidden /\ db.rows[k] # NoRow => found # <<>> /\ found[1] = db.rows[k]
    BY <1>2, <1>19, <1>22, FoundIs
  <2> QED BY <1>2, <1>20, <2>1 DEF Row
<1>6. r \in Row /\ r.key = k /\ r.at = c.row.at
  BY <1>2, <1>4, <1>20 DEF Row
<1>7. todo \in Seq(Seq(RowOps))
  BY <1>6, <1>21, UpsertIs DEF RowInv
<1>8. /\ n \in Calls /\ n.phase = "write" /\ n.key = k /\ n.row = r /\ n.left = r /\ n.todo = todo
      /\ n.hidden = hidden /\ n.alone = c.alone
  <2>1. c = [phase |-> c.phase, key |-> c.key, row |-> c.row, left |-> c.left, todo |-> c.todo,
             alone |-> c.alone, hidden |-> c.hidden]
    BY <1>1 DEF Calls
  <2>2. n = [phase |-> "write", key |-> c.key, row |-> r, left |-> r, todo |-> todo,
             alone |-> c.alone, hidden |-> hidden]
    BY <1>23, <2>1
  <2>3. c.key \in Keys /\ c.alone \in BOOLEAN
    BY <1>1 DEF Calls
  <2> QED BY <1>6, <1>7, <2>2, <2>3 DEF Calls
<1>9. n # Idle
  BY <1>8 DEF Idle
<1>10. call'[w] = n /\ \A x \in Writers \ {w} : call'[x] = call[x]
  BY <1>3 DEF RowInv, RowShape
<1>11. RowShape'
  BY <1>3, <1>8 DEF RowInv, RowShape
<1>12. TimesDiffer'
  <2>1. call'[w].row.at = call[w].row.at /\ call'[w].key = call[w].key
    BY <1>0, <1>6, <1>8, <1>10
  <2>2. \A x \in Writers : Acts(x)' => Acts(x) /\ call'[x].row.at = call[x].row.at /\ call'[x].key = call[x].key
    BY <1>1, <1>10, <2>1 DEF Acts
  <2> QED BY <1>3, <2>2 DEF RowInv, TimesDiffer
<1>13. /\ \A x \in Writers \ {w} : CallOK(x)'
       /\ \A l \in Keys : SureInv(l)'
  <2>1. /\ \A x \in Writers \ {w} : CallOK(x)'
        /\ \A l \in Keys : sure'[l] = sure[l] => SureInv(l)'
    <3>1. n = Idle \/ n.key = call[w].key
      BY <1>0, <1>8
    <3> QED BY <1>1, <1>3, <3>1, OthersStay
  <2> QED BY <1>3, <2>1
<1>14. PlanOf(n)' = PlanOf(n) /\ PlanOf(n) = todo
  <2>1. r # NoRow
    BY <1>6 DEF RowStoresAssumption
  <2>2. PlanOf(n) = todo
    BY <1>8, <1>21, <2>1 DEF PlanOf
  <2>3. PlanOf(n)' = PlanOf(n)
    BY <1>3, PlanStays
  <2> QED BY <2>2, <2>3
<1>15. CallInv(n)'
  <2>1. c.row.at <= tick
    BY <1>0, <1>1 DEF RowInv, CallOK, CallInv
  <2> QED BY <1>1, <1>3, <1>6, <1>8, <1>14, <2>1 DEF CallInv
<1>16. WroteInv(n)' /\ BornInv(n)'
  BY <1>1, <1>3, <1>5, <1>8 DEF WroteInv, BornInv
<1>17. n.alone => \A x \in Writers \ {w} : Acts(x)' => call'[x].key # n.key
  <2>1. c.alone => \A x \in Writers \ {w} : Acts(x) => call[x].key # k
    BY <1>0, <1>1 DEF RowInv, CallOK
  <2> QED BY <1>8, <1>10, <2>1 DEF Acts
<1>18. CallOK(w)'
  BY <1>10, <1>15, <1>16, <1>17 DEF CallOK
<1> QED BY <1>3, <1>11, <1>12, <1>13, <1>18, StoreStays DEF RowInv

LEMMA ExecuteKeeps ==
    ASSUME RowStoresAssumption, RowInv, NEW w \in Writers, Execute(w) PROVE RowInv'
<1>1. PICK c : c = call[w]
  OBVIOUS
<1> DEFINE k == c.key
<1>2. /\ c \in Calls /\ c.phase = "write" /\ CallInv(c)
      /\ db' \in RowDb
      /\ \A l \in Keys \ {k} : /\ db'.rows[l] = db.rows[l] /\ db'.zset[l] = db.zset[l]
                               /\ db'.text[l] = db.text[l]
      /\ c.todo = PlanOf(c) =>
            /\ db'.zset = db.zset
            /\ family # "diary" => db'.rows[k] = RecordOf(c.left)
            /\ family = "diary" => db'.rows[k] = IF backend = "redis" \/ db.rows[k] = NoRow THEN c.row
                                                 ELSE [c.row EXCEPT !.born = db.rows[k].born]
            /\ family = "diary" /\ backend = "sqlite" => db'.text[k] = c.row.label
            /\ Tail(c.todo) = <<>> => ~HasZset
      /\ c.todo # PlanOf(c) =>
            /\ db'.rows = db.rows /\ db'.text = db.text
            /\ db'.zset[k] = PlaceOf(c.left) /\ Tail(c.todo) = <<>>
      /\ Tail(c.todo) \in {Tail(PlanOf(c)), <<>>} /\ Tail(c.todo) # PlanOf(c)
      /\ Tail(c.todo) \in Seq(Seq(RowOps))
  BY <1>1, ExecuteDoes
<1>3. PICK rest : rest = Tail(c.todo)
  OBVIOUS
<1>4. PICK n : n = [c EXCEPT !.todo = rest]
  OBVIOUS
<1>5. Acts(w) /\ call' = [call EXCEPT ![w] = n] /\ UNCHANGED <<backend, family, tick, sure>>
  BY <1>1, <1>3, <1>4 DEF Execute, RowInv, RowShape, Acts, Idle
<1>6. /\ n \in Calls /\ n.phase = "write" /\ n.key = k /\ n.row = c.row /\ n.left = c.left /\ n.todo = rest
      /\ n.hidden = c.hidden /\ n.alone = c.alone
  BY <1>2, <1>3, <1>4 DEF Calls
<1>7. n # Idle
  BY <1>6 DEF Idle
<1>8. call'[w] = n /\ \A x \in Writers \ {w} : call'[x] = call[x]
  BY <1>5 DEF RowInv, RowShape
<1>9. /\ k \in Keys /\ c.row \in Row /\ c.row.key = k /\ c.row.at <= tick /\ c.row.at \in Nat
      /\ c.left = c.row \/ c.left = NoRow
  BY <1>2 DEF Calls, CallInv, Row
<1>10. RowShape'
  BY <1>2, <1>5, <1>6 DEF RowInv, RowShape
<1>11. KeysInv'
  <2> SUFFICES ASSUME NEW l \in Keys, db'.rows[l] # NoRow PROVE db'.rows[l].key = l
    BY DEF KeysInv
  <2>1. CASE l # k \/ c.todo # PlanOf(c)
    BY <1>2, <2>1 DEF RowInv, KeysInv
  <2>2. CASE l = k /\ c.todo = PlanOf(c) /\ family # "diary"
    BY <1>2, <1>9, <2>2 DEF RecordOf
  <2>3. CASE l = k /\ c.todo = PlanOf(c) /\ family = "diary"
    <3>1. db'.rows[k] = c.row \/ db'.rows[k] = [c.row EXCEPT !.born = db.rows[k].born]
      BY <1>2, <2>3
    <3> QED BY <1>9, <2>3, <3>1 DEF Row
  <2> QED BY <2>1, <2>2, <2>3
<1>12. TextInv'
  <2> SUFFICES ASSUME family = "diary", backend = "sqlite", NEW l \in Keys, db'.rows[l] # NoRow
               PROVE  db'.text[l] = db'.rows[l].label
    BY <1>5 DEF TextInv
  <2>1. CASE l # k \/ c.todo # PlanOf(c)
    BY <1>2, <2>1 DEF RowInv, TextInv
  <2>2. CASE l = k /\ c.todo = PlanOf(c)
    <3>1. db'.rows[k] = c.row \/ db'.rows[k] = [c.row EXCEPT !.born = db.rows[k].born]
      BY <1>2, <2>2
    <3> QED BY <1>2, <1>9, <2>2, <3>1 DEF Row
  <2> QED BY <2>1, <2>2
<1>13. TimesDiffer'
  <2>1. \A x \in Writers : Acts(x)' => Acts(x) /\ call'[x].row.at = call[x].row.at /\ call'[x].key = call[x].key
    BY <1>1, <1>5, <1>6, <1>8 DEF Acts
  <2>2. \A l \in Keys : db'.zset[l] = db.zset[l]
                        \/ (l = k /\ (db'.zset[l] = 0 \/ db'.zset[l] = call[w].row.at))
    <3> SUFFICES ASSUME NEW l \in Keys, db'.zset[l] # db.zset[l]
                 PROVE  l = k /\ (db'.zset[l] = 0 \/ db'.zset[l] = c.row.at)
      BY <1>1
    <3>1. l = k
      BY <1>2
    <3>2. db'.zset[k] = PlaceOf(c.left)
      BY <1>2, <3>1
    <3> QED BY <1>9, <3>1, <3>2 DEF PlaceOf
  <2>3. Acts(w) /\ call[w].key = k /\ call[w].row.at <= tick /\ call[w].row.at # 0
    <3>1. c.row.at # 0
      BY <1>9 DEF Row
    <3> QED BY <1>1, <1>5, <1>9, <3>1
  <2>4. TimesDiffer /\ tick \in Nat
    BY DEF RowInv, RowShape
  <2>5. \A l \in Keys : db'.zset[l] <= tick
    <3> SUFFICES ASSUME NEW l \in Keys PROVE db'.zset[l] <= tick
      OBVIOUS
    <3>1. db.zset[l] <= tick
      BY <2>4 DEF TimesDiffer
    <3>2. 0 <= tick
      BY <2>4
    <3>3. db'.zset[l] = db.zset[l] \/ db'.zset[l] = 0 \/ db'.zset[l] = call[w].row.at
      BY <2>2
    <3>4. CASE db'.zset[l] = 0
      BY <3>2, <3>4
    <3>5. CASE db'.zset[l] = call[w].row.at
      BY <2>3, <3>5
    <3> QED BY <3>1, <3>3, <3>4, <3>5
  <2>6. \A l, m \in Keys : db'.zset[l] = db'.zset[m] /\ db'.zset[l] # 0 => l = m
    BY <2>2, <2>3, <2>4 DEF TimesDiffer
  <2>7. \A x \in Writers, l \in Keys : Acts(x) /\ db'.zset[l] = call[x].row.at => l = call[x].key
    <3> SUFFICES ASSUME NEW x \in Writers, NEW l \in Keys, Acts(x), db'.zset[l] = call[x].row.at
                 PROVE  l = call[x].key
      OBVIOUS
    <3>1. call[x].row.at # 0
      BY DEF RowInv, RowShape, Acts, Calls, Row
    <3> QED BY <2>2, <2>3, <2>4, <3>1 DEF TimesDiffer
  <2> QED BY <1>5, <2>1, <2>4, <2>5, <2>6, <2>7 DEF TimesDiffer
<1>14. /\ \A x \in Writers \ {w} : CallOK(x)'
       /\ \A l \in Keys : SureInv(l)'
  <2>1. n = Idle \/ n.key = call[w].key
    BY <1>1, <1>6
  <2>2. \A l \in Keys \ {call[w].key} : db'.rows[l] = db.rows[l] /\ db'.zset[l] = db.zset[l]
    BY <1>1, <1>2
  <2>3. /\ \A x \in Writers \ {w} : CallOK(x)'
        /\ \A l \in Keys : sure'[l] = sure[l] => SureInv(l)'
    BY <1>5, <2>1, <2>2, OthersStay
  <2> QED BY <1>5, <2>3
<1>15. PlanOf(n)' = PlanOf(c) /\ PlanOf(n)' # rest
  <2>1. PlanOf(n) = PlanOf(c)
    BY <1>6 DEF PlanOf
  <2>2. PlanOf(n)' = PlanOf(n)
    BY <1>5, PlanStays
  <2> QED BY <1>2, <1>3, <2>1, <2>2
<1>16. CallInv(n)'
  BY <1>2, <1>3, <1>5, <1>6, <1>15 DEF CallInv
<1>17. c.alone => WroteInv(n)'
  <2> SUFFICES ASSUME c.alone PROVE WroteInv(n)'
    OBVIOUS
  <2>1. WroteInv(c)
    BY <1>1, <1>5 DEF RowInv, CallOK
  <2>2. RecordOf(n.left)' = RecordOf(c.left) /\ HasZset' = HasZset
    BY <1>5, <1>6, PlanStays
  <2>3. family # "diary" => db'.rows[k] = RecordOf(c.left)
    BY <1>2, <2>1 DEF WroteInv
  <2>4. rest = <<>> /\ HasZset => db'.zset[k] = PlaceOf(c.left)
    BY <1>2, <1>3
  <2> QED BY <1>5, <1>6, <2>2, <2>3, <2>4 DEF WroteInv
<1>18. BornInv(n)'
  BY <1>6, <1>15 DEF BornInv
<1>19. n.alone => \A x \in Writers \ {w} : Acts(x)' => call'[x].key # n.key
  <2>1. c.alone => \A x \in Writers \ {w} : Acts(x) => call[x].key # k
    BY <1>1, <1>5 DEF RowInv, CallOK
  <2> QED BY <1>6, <1>8, <2>1 DEF Acts
<1>20. CallOK(w)'
  BY <1>6, <1>8, <1>16, <1>17, <1>18, <1>19 DEF CallOK
<1> QED BY <1>10, <1>11, <1>12, <1>13, <1>14, <1>20 DEF RowInv

LEMMA RowStep ==
    ASSUME RowStoresAssumption, RowInv, [RowNext]_rowVars PROVE RowInv'
<1>1. CASE UNCHANGED rowVars
  <2>1. KeysInv' /\ TextInv' /\ TimesDiffer'
    BY <1>1 DEF RowInv, KeysInv, TextInv, TimesDiffer, Acts, rowVars
  <2>2. RowShape'
    BY <1>1 DEF RowInv, RowShape, rowVars
  <2>3. ASSUME NEW w \in Writers PROVE CallOK(w)'
    <3>1. CASE ~Acts(w)
      BY <1>1, <3>1 DEF CallOK, Acts, rowVars
    <3>2. CASE Acts(w)
      <4>1. call[w].alone => \A x \in Writers \ {w} : Acts(x)' => call'[x].key # call[w].key
        BY <1>1, <3>2 DEF RowInv, CallOK, Acts, rowVars
      <4>2. tick' \in Nat /\ tick <= tick' /\ tick' = tick /\ call'[w] = call[w] /\ UNCHANGED <<backend, family>> /\ db' = db
        BY <1>1 DEF RowInv, RowShape, rowVars
      <4> QED BY <3>2, <4>1, <4>2, OtherCallStays
    <3> QED BY <3>1, <3>2
  <2>4. ASSUME NEW l \in Keys PROVE SureInv(l)'
    <3>1. PICK y : y = sure[l]
      OBVIOUS
    <3>2. RecordOf(y)' = RecordOf(y) /\ HasZset' = HasZset
      BY <1>1, PlanStays DEF rowVars
    <3>3. SureInv(l)
      BY DEF RowInv
    <3> QED BY <1>1, <3>1, <3>2, <3>3 DEF SureInv, Acts, rowVars
  <2> QED BY <2>1, <2>2, <2>3, <2>4 DEF RowInv
<1>2. ASSUME NEW w \in Writers, NEW k \in Keys, NEW label \in Labels, tick < MaxTick
      PROVE  NewRow(k, label) \in Row /\ NewRow(k, label).key = k /\ NewRow(k, label).at = tick + 1
  BY <1>2 DEF NewRow, Row, RowInv, RowShape, RowStoresAssumption
<1>3. RowShape /\ \A r \in Row : UpsertRow(r) \in Seq(Seq(RowOps)) /\ DeleteLesson(r) \in Seq(Seq(RowOps))
  BY UpsertIs, DeleteIs DEF RowInv
<1>4. ASSUME NEW w \in Writers, NEW k \in Keys, NEW label \in Labels, BeginUpsert(w, k, label) PROVE RowInv'
  <2>1. PICK r : r = NewRow(k, label)
    OBVIOUS
  <2>2. PICK todo : todo = UpsertRow(r)
    OBVIOUS
  <2>3. family # "diary" /\ Begin(w, "write", k, r, r, todo)
    BY <1>4, <2>1, <2>2 DEF BeginUpsert
  <2>4. r \in Row /\ r.key = k /\ r.at = tick + 1
    BY <1>2, <2>1, <2>3 DEF Begin
  <2>5. todo \in Seq(Seq(RowOps))
    BY <1>3, <2>2, <2>4
  <2>6. r # NoRow
    BY <2>4 DEF RowStoresAssumption
  <2> QED BY <2>2, <2>3, <2>4, <2>5, <2>6, BeginKeeps
<1>5. ASSUME NEW w \in Writers, NEW k \in Keys, NEW label \in Labels, BeginDiaryAdd(w, k, label) PROVE RowInv'
  <2>1. PICK r : r = NewRow(k, label)
    OBVIOUS
  <2>2. PICK todo : todo = <<>>
    OBVIOUS
  <2>3. family = "diary" /\ Begin(w, "lookup", k, r, r, todo)
    BY <1>5, <2>1, <2>2 DEF BeginDiaryAdd
  <2>4. r \in Row /\ r.key = k /\ r.at = tick + 1
    BY <1>2, <2>1, <2>3 DEF Begin
  <2>5. todo \in Seq(Seq(RowOps))
    BY <2>2
  <2> QED BY <2>3, <2>4, <2>5, BeginKeeps
<1>6. ASSUME NEW w \in Writers, NEW k \in Keys, BeginDelete(w, k) PROVE RowInv'
  <2>1. PICK label \in Labels : label = CHOOSE l \in Labels : TRUE
    BY DEF RowStoresAssumption
  <2>2. PICK r : r = NewRow(k, label)
    OBVIOUS
  <2>3. PICK todo : todo = DeleteLesson(r)
    OBVIOUS
  <2>4. family = "lesson" /\ Begin(w, "write", k, r, NoRow, todo)
    BY <1>6, <2>1, <2>2, <2>3 DEF BeginDelete
  <2>5. r \in Row /\ r.key = k /\ r.at = tick + 1
    BY <1>2, <2>2, <2>4 DEF Begin
  <2>6. todo \in Seq(Seq(RowOps))
    BY <1>3, <2>3, <2>5
  <2> QED BY <2>3, <2>4, <2>5, <2>6, BeginKeeps
<1> QED BY <1>1, <1>4, <1>5, <1>6, LookupKeeps, ExecuteKeeps, AnswerKeeps, InterruptKeeps DEF RowNext

-----------------------------------------------------------------------------
(* Every state of a behaviour is one of those: a call sends its statements  *)
(* in order, no two have the same time, what was acknowledged is there.     *)
THEOREM RowsAlwaysHold == RowSpec => []RowInv
<1>1. RowInit => RowInv
  BY InitRowInv, RowStoresAssumption
<1>2. RowInv /\ [RowNext]_rowVars => RowInv'
  BY RowStep, RowStoresAssumption
<1> QED BY <1>1, <1>2, PTL DEF RowSpec

(* A list of the rows cut to n of them.                                     *)
LEMMA CutListShows ==
    ASSUME RowStoresAssumption, RowInv, NEW s, Shows(s, Rows), NEW n \in Nat
    PROVE  /\ ToSet(First(n, s)) \subseteq Rows
           /\ Cardinality(Rows) <= n => ToSet(First(n, s)) = Rows
<1>1. s \in Seq(Rows) /\ Len(s) = Cardinality(Rows) /\ ToSet(s) = Rows
  BY DEF Shows
<1>2. /\ ToSet(First(n, s)) \subseteq Rows
      /\ n >= Len(s) => ToSet(First(n, s)) = ToSet(s)
  BY <1>1, FirstShows
<1>3. Len(s) \in Nat
  BY <1>1
<1> QED BY <1>1, <1>2, <1>3

(* What a list asked for n records shows, on every backend: records that    *)
(* are there, and with room for all, each that has its place.               *)
Complete(list) ==
    \A k \in Keys : db.rows[k] # NoRow /\ (backend = "redis" => db.zset[k] # 0) => db.rows[k] \in ToSet(list)

LEMMA ListsShow ==
    ASSUME RowStoresAssumption, RowInv, NEW n \in Nat \ {0}
    PROVE  /\ ToSet(ListSources(n)) \subseteq Rows /\ ToSet(ListLessons(n)) \subseteq Rows
           /\ Cardinality(Taken) <= n => Complete(ListSources(n)) /\ Complete(ListLessons(n))
<1>1. /\ IsFiniteSet(Rows) /\ \A k \in Keys : db.rows[k] # NoRow => db.rows[k] \in Rows
      /\ Rows \in SUBSET Rows
      /\ Cardinality(Rows) \in Nat
      /\ {r \in Rows : r.label \in Labels} = Rows
  <2>1. IsFiniteSet(Rows) /\ Rows \subseteq Row /\ \A k \in Keys : db.rows[k] # NoRow => db.rows[k] \in Rows
    BY RowsAre
  <2> QED BY <2>1, FS_CardinalityType DEF Row
<1>2. SqlLimit(n) = n /\ Decode(n) = n
  BY DEF SqlLimit, Decode, Unlimited
<1>3. CASE backend # "redis"
  <2>1. Taken = {k \in Keys : db.rows[k] # NoRow}
    BY <1>3 DEF Taken
  <2>2. Cardinality(Taken) \in Nat /\ Cardinality(Rows) <= Cardinality(Taken)
    <3>1. IsFiniteSet({k \in Keys : db.rows[k] # NoRow})
      BY FS_Subset DEF RowStoresAssumption
    <3> QED BY <2>1, <3>1, RowsAre, FS_CardinalityType
  <2>3. ListSources(n) = First(n, InOrder(Rows, Newest)) /\ ListLessons(n) = First(n, InOrder(Rows, Surest))
    <3>1. ListSources(n) = First(n, InOrder(Rows, Newest))
      <4>1. InOrder({r \in Rows : r.label \in Labels}, Newest) = InOrder(Rows, Newest)
        BY <1>1
      <4>2. ListSources(n) = First(n, InOrder({r \in Rows : r.label \in Labels}, Newest))
        BY <1>2, <1>3 DEF RowInv, RowShape, Backends, ListSources, SqliteListSources, PostgresListSources
      <4> QED BY <4>1, <4>2
    <3>2. ListLessons(n) = First(n, InOrder(Rows, Surest))
      BY <1>2, <1>3 DEF RowInv, RowShape, Backends, ListLessons, SqliteListLessons, PostgresListLessons
    <3> QED BY <3>1, <3>2
  <2>4. Shows(InOrder(Rows, Newest), Rows) /\ Shows(InOrder(Rows, Surest), Rows)
    BY <1>1, NewestShows, SurestShows
  <2>5. /\ ToSet(ListSources(n)) \subseteq Rows /\ ToSet(ListLessons(n)) \subseteq Rows
        /\ Cardinality(Rows) <= n => ToSet(ListSources(n)) = Rows /\ ToSet(ListLessons(n)) = Rows
    BY <2>3, <2>4, CutListShows
  <2>6. Cardinality(Taken) <= n => Cardinality(Rows) <= n
    BY <1>1, <2>2
  <2> QED BY <1>1, <2>5, <2>6 DEF Complete
<1>4. CASE backend = "redis"
  <2>1. ListSources(n) = Records(RevRange(0, n - 1)) /\ ListLessons(n) = Records(RevRange(0, n - 1))
    BY <1>4 DEF ListSources, ListLessons, RedisListSources, RedisListLessons
  <2>2. Taken = Placed
    BY <1>4 DEF Taken, Placed
  <2>3. /\ RevRange(0, n - 1) \in Seq(Placed)
        /\ Cardinality(Placed) <= n => Placed \subseteq ToSet(RevRange(0, n - 1))
    BY RangeShows
  <2>4. /\ ToSet(Records(RevRange(0, n - 1))) \subseteq Rows
        /\ \A k \in ToSet(RevRange(0, n - 1)) :
              db.rows[k] # NoRow => db.rows[k] \in ToSet(Records(RevRange(0, n - 1)))
    BY <2>3, RecordsShow
  <2>5. \A k \in Keys : db.zset[k] # 0 => k \in Placed
    BY DEF Placed
  <2>6. Cardinality(Taken) <= n => Complete(Records(RevRange(0, n - 1)))
    BY <1>4, <2>2, <2>3, <2>4, <2>5 DEF Complete
  <2> QED BY <2>1, <2>4, <2>6
<1> QED BY <1>3, <1>4

(* What was acknowledged is in the store, and so in the lists.              *)
LEMMA SureIsStored ==
    ASSUME RowStoresAssumption, RowInv, NEW k \in Keys, sure[k] # Unknown, family # "diary"
    PROVE  /\ db.rows[k] = RecordOf(sure[k])
           /\ family # "approval" => db.rows[k] = sure[k]
           /\ family # "approval" /\ backend = "redis" /\ sure[k] # NoRow => db.zset[k] # 0
<1>1. SureInv(k) /\ sure[k] \in Row \union {NoRow}
  BY DEF RowInv, RowShape
<1>2. sure[k] # NoRow => sure[k].at # 0
  BY <1>1 DEF Row
<1> QED BY <1>1, <1>2 DEF SureInv, RecordOf, HasZset, PlaceOf

LEMMA AcknowledgedRead ==
    ASSUME RowStoresAssumption, RowInv PROVE AcknowledgedIsRead
<1> SUFFICES ASSUME NEW k \in Keys, sure[k] # Unknown
             PROVE  /\ family = "approval" => Approved(k) = (sure[k] # NoRow /\ sure[k].label = 1)
                    /\ family \in {"source", "lesson"} =>
                          \A n \in 1 .. Cardinality(Keys) :
                             LET list == ToSet(IF family = "source" THEN ListSources(n) ELSE ListLessons(n)) IN
                             IF sure[k] = NoRow THEN \A r \in list : r.key # k
                                                ELSE Cardinality(Taken) <= n => sure[k] \in list
  BY DEF AcknowledgedIsRead
<1>1. family = "approval" => Approved(k) = (sure[k] # NoRow /\ sure[k].label = 1)
  <2> SUFFICES ASSUME family = "approval" PROVE Approved(k) = (sure[k] # NoRow /\ sure[k].label = 1)
    OBVIOUS
  <2>1. db.rows[k] = RecordOf(sure[k])
    BY SureIsStored
  <2>2. CASE backend = "redis"
    BY <2>1, <2>2 DEF Approved, RedisIsApproved, RecordOf
  <2>3. CASE backend # "redis"
    <3>1. db.rows[k] = sure[k]
      BY <2>1, <2>3 DEF RecordOf
    <3>2. Approved(k) = (db.rows[k] # NoRow /\ db.rows[k].label = 1)
      BY <2>3 DEF Approved, SqliteIsApproved, PostgresIsApproved, RowInv, RowShape, Backends
    <3> QED BY <3>1, <3>2
  <2> QED BY <2>2, <2>3
<1>2. ASSUME family \in {"source", "lesson"}, NEW n \in 1 .. Cardinality(Keys), NEW list,
             list = ListSources(n) \/ list = ListLessons(n)
      PROVE  IF sure[k] = NoRow THEN \A r \in ToSet(list) : r.key # k
                                ELSE Cardinality(Taken) <= n => sure[k] \in ToSet(list)
  <2>1. n \in Nat \ {0}
    BY FS_CardinalityType DEF RowStoresAssumption
  <2>2. db.rows[k] = sure[k] /\ (backend = "redis" /\ sure[k] # NoRow => db.zset[k] # 0)
    BY <1>2, SureIsStored
  <2>3. ToSet(list) \subseteq Rows /\ (Cardinality(Taken) <= n => Complete(list))
    BY <1>2, <2>1, ListsShow
  <2>4. CASE sure[k] = NoRow
    <3>1. \A r \in Rows : r \in Row /\ db.rows[r.key] = r
      BY RowsAre
    <3>2. NoRow \notin Row
      BY DEF RowStoresAssumption
    <3> QED BY <2>2, <2>3, <2>4, <3>1, <3>2
  <2>5. CASE sure[k] # NoRow
    BY <2>2, <2>3, <2>5 DEF Complete
  <2> QED BY <2>4, <2>5
<1> QED BY <1>1, <1>2

LEMMA HydrationMisses ==
    ASSUME RowStoresAssumption, RowInv PROVE HydrationMissesOnlyTheOldest
<1> SUFFICES ASSUME family = "source", NEW k \in Keys, sure[k] \in Row, sure[k] \notin ToSet(ListSources(Unlimited))
             PROVE  /\ backend = "redis" /\ db.zset[k] # 0
                    /\ \A l \in Keys : db.zset[l] # 0 => db.zset[l] >= db.zset[k]
  BY DEF HydrationMissesOnlyTheOldest
<1>1. sure[k] # Unknown /\ sure[k] # NoRow
  BY DEF RowStoresAssumption
<1>2. db.rows[k] = sure[k] /\ (backend = "redis" => db.zset[k] # 0)
  BY <1>1, SureIsStored
<1>3. CASE backend # "redis"
  <2>1. /\ IsFiniteSet(Rows) /\ Rows \in SUBSET Rows /\ Cardinality(Rows) \in Nat
        /\ {r \in Rows : r.label \in Labels} = Rows /\ db.rows[k] \in Rows
    <3>1. IsFiniteSet(Rows) /\ Rows \subseteq Row /\ db.rows[k] \in Rows
      BY <1>1, <1>2, RowsAre
    <3> QED BY <3>1, FS_CardinalityType DEF Row
  <2>2. SqlLimit(Unlimited) = Cardinality(Keys)
    BY DEF SqlLimit
  <2>3. ListSources(Unlimited) = First(Cardinality(Keys), InOrder(Rows, Newest))
    BY <1>3, <2>1, <2>2 DEF RowInv, RowShape, Backends, ListSources, SqliteListSources, PostgresListSources
  <2>4. Cardinality(Rows) <= Cardinality(Keys) /\ Cardinality(Keys) \in Nat
    <3> DEFINE K == {l \in Keys : db.rows[l] # NoRow}
    <3>1. IsFiniteSet(Keys) /\ K \in SUBSET Keys
      BY DEF RowStoresAssumption
    <3>2. IsFiniteSet(K) /\ Cardinality(K) <= Cardinality(Keys)
      BY <3>1, FS_Subset
    <3>3. Cardinality(K) \in Nat /\ Cardinality(Keys) \in Nat
      BY <3>1, <3>2, FS_CardinalityType
    <3>4. Cardinality(Rows) <= Cardinality(K)
      BY RowsAre
    <3> QED BY <2>1, <3>2, <3>3, <3>4
  <2>5. Shows(InOrder(Rows, Newest), Rows)
    BY <2>1, NewestShows
  <2>6. ToSet(ListSources(Unlimited)) = Rows
    BY <2>3, <2>4, <2>5, CutListShows
  <2> QED BY <1>2, <2>1, <2>6
<1>4. CASE backend = "redis"
  <2>1. ListSources(Unlimited) = Records(RevRange(0, -2))
    <3>1. Unlimited - 1 = -2
      BY DEF Unlimited
    <3> QED BY <1>4, <3>1 DEF ListSources, RedisListSources
  <2>2. k \in Placed
    BY <1>2, <1>4 DEF Placed
  <2>3. RevRange(0, -2) \in Seq(Placed)
    BY <2>2, AllButLastShows
  <2>4. k \notin ToSet(RevRange(0, -2))
    BY <1>1, <1>2, <2>1, <2>3, RecordsShow
  <2>5. \A l \in Placed : db.zset[l] >= db.zset[k]
    BY <2>2, <2>4, AllButLastShows
  <2> QED BY <1>2, <1>4, <2>5 DEF Placed
<1> QED BY <1>3, <1>4

LEMMA DiaryAgrees ==
    ASSUME RowStoresAssumption, RowInv PROVE DiarySearchesAgree
<1> SUFFICES ASSUME family = "diary", backend = "sqlite", NEW word \in Labels
             PROVE  SqliteSearch(word, TRUE) = SqliteSearch(word, FALSE)
  BY DEF DiarySearchesAgree
<1>1. \A r \in Rows : db.text[r.key] = r.label
  <2>1. \A r \in Rows : r \in Row /\ r.key \in Keys /\ db.rows[r.key] = r
    BY RowsAre
  <2>2. NoRow \notin Row /\ TextInv
    BY DEF RowStoresAssumption, RowInv
  <2> QED BY <2>1, <2>2 DEF TextInv
<1> QED BY <1>1 DEF SqliteSearch, SqliteSearchFts, SqliteSearchLike

(* The three stores answer alike: an acknowledged call that no other        *)
(* overlapped is what the next read answers, hydration misses a source only *)
(* for the limit Redis takes for -1, and the two searches of the diary find *)
(* the same entries.                                                        *)
THEOREM StoresAlwaysAgree == RowSpec => []StoresAgree
<1>1. RowInv => StoresAgree
  BY AcknowledgedRead, HydrationMisses, DiaryAgrees, RowStoresAssumption DEF StoresAgree
<1> QED BY <1>1, RowsAlwaysHold, PTL

(* Editing the entry of a day keeps the time it was created, unless, on     *)
(* Redis, another broker wrote it after the lookup or the lookup missed it. *)
THEOREM CreationTimeIsAlwaysKept == RowSpec => CreationTimeIsKept
<1> DEFINE TimeKept == \A k \in Keys :
        /\ db.rows[k] # NoRow /\ db'.rows[k] # NoRow
        /\ db.rows[k].born # db'.rows[k].born /\ family = "diary"
        => /\ backend = "redis"
           /\ \E w \in Writers : /\ call[w] # Idle /\ call[w].key = k
                                 /\ ~call[w].alone \/ call[w].hidden
<1>1. ASSUME RowInv, [RowNext]_rowVars PROVE [TimeKept]_rowVars
  <2> SUFFICES ASSUME NEW k \in Keys, db.rows[k] # NoRow, db'.rows[k] # NoRow,
                      db.rows[k].born # db'.rows[k].born, family = "diary"
               PROVE  /\ backend = "redis"
                      /\ \E w \in Writers : /\ call[w] # Idle /\ call[w].key = k
                                            /\ ~call[w].alone \/ call[w].hidden
    OBVIOUS
  <2>1. PICK w \in Writers : Execute(w)
    <3>1. db' # db
      OBVIOUS
    <3> QED BY <1>1, <3>1 DEF RowNext, rowVars, BeginUpsert, BeginDiaryAdd, BeginDelete, Begin,
               DiaryLookup, Answer, Interrupt
  <2>2. PICK c : c = call[w]
    OBVIOUS
  <2>3. /\ c \in Calls /\ c.phase = "write"
        /\ \A l \in Keys \ {c.key} : db'.rows[l] = db.rows[l]
        /\ c.todo = PlanOf(c) =>
              db'.rows[c.key] = IF backend = "redis" \/ db.rows[c.key] = NoRow THEN c.row
                                ELSE [c.row EXCEPT !.born = db.rows[c.key].born]
        /\ c.todo # PlanOf(c) => db'.rows = db.rows
    BY <1>1, <2>1, <2>2, ExecuteDoes, RowStoresAssumption
  <2>4. c.key = k /\ c.todo = PlanOf(c)
    BY <2>3
  <2>5. backend = "redis" /\ db'.rows[k] = c.row
    <3>1. c.row \in Row
      BY <2>3 DEF Calls
    <3>2. [c.row EXCEPT !.born = db.rows[k].born].born = db.rows[k].born
      BY <3>1 DEF Row
    <3> QED BY <2>3, <2>4, <3>2
  <2>6. c # Idle
    BY <2>3 DEF Idle
  <2>7. c.alone /\ ~c.hidden => c.row.born = db.rows[k].born
    BY <1>1, <2>2, <2>3, <2>4, <2>5, <2>6 DEF RowInv, CallOK, Acts, BornInv
  <2>8. ~c.alone \/ c.hidden
    BY <2>5, <2>7
  <2> QED BY <2>2, <2>4, <2>5, <2>6, <2>8
<1>2. [][TimeKept]_rowVars => CreationTimeIsKept
  BY DEF CreationTimeIsKept
<1> HIDE DEF TimeKept
<1>3. RowSpec => [][TimeKept]_rowVars
  BY <1>1, RowsAlwaysHold, PTL DEF RowSpec
<1> QED BY <1>2, <1>3

-----------------------------------------------------------------------------
(***************************************************************************)
(* The parents of the nodes of the memory palace, and what the pages of    *)
(* their lists show, for any nodes, brokers, stores and sizes of a page.   *)
(***************************************************************************)

(* The writes that a request sends to the store.                            *)
NavWrite == [does: {"node", "recent"}, node: Node]
         \union [does: {"tunnel"}, tunnel: Ids \X Ids]
         \union {w \in [does: {"end"}, at: Ids, tunnel: Ids \X Ids] : w.at \in {w.tunnel[1], w.tunnel[2]}}
         \union [does: {"audit"}]

(* A parent of this kind may have a child of that kind.                     *)
MayContain(parentKind, kind) ==
    kind # "drawer" /\ (parentKind = "drawer" \/ (parentKind = "closet" /\ kind = "room"))

(* What ParentsAreTyped says of one node.                                   *)
Typed(n, at, changed) ==
    \/ n.kind = "drawer" /\ n.parent = 0
    \/ /\ n.kind # "drawer" /\ n.parent \in Ids /\ at[n.parent] # NoNode
       /\ MayContain(at[n.parent].kind, n.kind) \/ n.parent \in changed

(* w puts the parent of n where n may be.                                   *)
PutsParent(w, n) == w.does = "node" /\ w.node.id = n.parent /\ MayContain(w.node.kind, n.kind)

(* Each node that is still to be written is typed, or its parent will be    *)
(* written before it.                                                       *)
PendingTyped(todo, at, changed) ==
    \A k \in 1 .. Len(todo) : todo[k].does = "node" =>
        \/ Typed(todo[k].node, at, changed)
        \/ \E j \in 1 .. k - 1 : PutsParent(todo[j], todo[k].node)

NavShape ==
    /\ navStore \in {"sqlite", "postgres", "redis"}
    /\ nodes \in [Ids -> Node \union {NoNode}]
    /\ nav \in [Brokers -> [phase: {"free", "node", "sync", "tunnel"}, todo: Seq(NavWrite)]]
    /\ writes \in Nat

NavInv ==
    /\ NavShape
    /\ \A b \in Brokers : PendingTyped(nav[b].todo, nodes, rekinded)
    /\ \A i \in Present : Typed(nodes[i], nodes, rekinded)

-----------------------------------------------------------------------------
(* Sequences of writes.                                                     *)
LEMMA NodeIsNode ==
    ASSUME NEW n \in Node PROVE PutNode(n) \in NavWrite /\ Recent(n) \in NavWrite
BY DEF PutNode, Recent, NavWrite

(* The writes of a node: the node first, then what says nothing of parents. *)
LEMMA UpsertNodeIs ==
    ASSUME NavShape, NEW n \in Node
    PROVE  /\ UpsertNode(n) \in Seq(NavWrite) /\ 1 \in 1 .. Len(UpsertNode(n))
           /\ UpsertNode(n)[1].does = "node" /\ UpsertNode(n)[1].node = n
           /\ \A k \in 1 .. Len(UpsertNode(n)) : UpsertNode(n)[k].does = "node" => UpsertNode(n)[k].node = n
<1>1. UpsertNode(n) = <<PutNode(n)>> \/ UpsertNode(n) = <<PutNode(n), Recent(n)>>
  BY DEF UpsertNode, SqliteUpsertNode, PostgresUpsertNode, RedisUpsertNode, NavShape
<1>2. Recent(n).does # "node" /\ PutNode(n).does = "node" /\ PutNode(n).node = n
  BY DEF Recent, PutNode
<1>3. CASE UpsertNode(n) = <<PutNode(n)>>
  BY <1>2, <1>3, NodeIsNode
<1>4. CASE UpsertNode(n) = <<PutNode(n), Recent(n)>>
  BY <1>2, <1>4, NodeIsNode
<1> QED BY <1>1, <1>3, <1>4

(* Writes one after the other.                                              *)
LEMMA PendingConcat ==
    ASSUME NEW s \in Seq(NavWrite), NEW t \in Seq(NavWrite), NEW at, NEW changed,
           PendingTyped(s, at, changed),
           \A k \in 1 .. Len(t) : t[k].does = "node" =>
               \/ Typed(t[k].node, at, changed)
               \/ \E j \in 1 .. Len(s) : PutsParent(s[j], t[k].node)
    PROVE  s \o t \in Seq(NavWrite) /\ PendingTyped(s \o t, at, changed)
<1>1. /\ s \o t \in Seq(NavWrite) /\ Len(s \o t) = Len(s) + Len(t) /\ Len(s) \in Nat /\ Len(t) \in Nat
      /\ \A k \in 1 .. Len(s) + Len(t) : (s \o t)[k] = IF k <= Len(s) THEN s[k] ELSE t[k - Len(s)]
  BY ConcatProperties, LenProperties
<1>2. ASSUME NEW k \in 1 .. Len(s \o t), (s \o t)[k].does = "node"
      PROVE  \/ Typed((s \o t)[k].node, at, changed)
             \/ \E j \in 1 .. k - 1 : PutsParent((s \o t)[j], (s \o t)[k].node)
  <2>1. CASE k <= Len(s)
    <3>1. (s \o t)[k] = s[k] /\ \A j \in 1 .. k - 1 : (s \o t)[j] = s[j]
      BY <1>1, <2>1
    <3> QED BY <1>1, <1>2, <2>1, <3>1 DEF PendingTyped
  <2>2. CASE k > Len(s)
    <3>1. (s \o t)[k] = t[k - Len(s)] /\ k - Len(s) \in 1 .. Len(t)
      BY <1>1, <2>2
    <3>2. \A j \in 1 .. Len(s) : j \in 1 .. k - 1 /\ (s \o t)[j] = s[j]
      BY <1>1, <2>2
    <3> QED BY <1>2, <3>1, <3>2
  <2> QED BY <1>1, <2>1, <2>2
<1> QED BY <1>1, <1>2 DEF PendingTyped

LEMMA PendingOne ==
    ASSUME NavShape, NEW n \in Node, NEW at, NEW changed, Typed(n, at, changed)
    PROVE  PendingTyped(UpsertNode(n), at, changed)
BY UpsertNodeIs DEF PendingTyped

-----------------------------------------------------------------------------
LEMMA NavInitInv == NavInit => NavInv
<1> SUFFICES ASSUME NavInit PROVE NavInv
  OBVIOUS
<1>1. /\ nodes = [i \in Ids |-> NoNode] /\ nav = [b \in Brokers |-> Free] /\ writes = 0
      /\ navStore \in {"sqlite", "postgres", "redis"}
  BY DEF NavInit
<1>2. \A b \in Brokers : nav[b].todo = <<>>
  BY <1>1 DEF Free
<1>3. NavShape
  BY <1>1 DEF NavShape, Free
<1>4. Present = {}
  BY <1>1 DEF Present
<1> QED BY <1>2, <1>3, <1>4 DEF NavInv, PendingTyped

(* A request that begins: the others are as they were.                      *)
LEMMA StartInv ==
    ASSUME NavInv, NEW b \in Brokers, NEW phase \in {"node", "sync", "tunnel"}, NEW todo \in Seq(NavWrite),
           PendingTyped(todo, nodes, rekinded), Start(b, phase, todo)
    PROVE  NavInv'
<1>1. /\ nav' = [nav EXCEPT ![b] = [phase |-> phase, todo |-> todo]] /\ writes' = writes + 1
      /\ UNCHANGED <<navStore, nodes, rekinded>>
  BY DEF Start, Untouched
<1>2. NavShape'
  BY <1>1 DEF NavInv, NavShape
<1>3. ASSUME NEW c \in Brokers PROVE PendingTyped(nav'[c].todo, nodes', rekinded')
  <2>1. CASE c = b
    BY <1>1, <2>1 DEF NavInv, NavShape
  <2>2. CASE c # b
    BY <1>1, <2>2 DEF NavInv, NavShape
  <2> QED BY <2>1, <2>2
<1>4. \A i \in Present' : Typed(nodes'[i], nodes', rekinded')
  BY <1>1 DEF NavInv, Present
<1> QED BY <1>2, <1>3, <1>4 DEF NavInv

LEMMA NewNodeIs ==
    ASSUME NavShape, writes < MaxWrites, NEW i \in Ids, NEW kind \in NodeKinds, NEW label \in NodeLabels,
           NEW parent \in Ids \union {0}
    PROVE  /\ NewNode(i, kind, label, parent) \in Node
           /\ NewNode(i, kind, label, parent).id = i /\ NewNode(i, kind, label, parent).kind = kind
           /\ NewNode(i, kind, label, parent).parent = parent
BY NavigationAssumption DEF NavShape, NewNode, Node

LEMMA UpsertRequestInv ==
    ASSUME NavInv, NEW b \in Brokers, NEW i \in Ids, NEW kind \in NodeKinds, NEW label \in NodeLabels,
           NEW parent \in Ids \union {0}, UpsertNodeRequest(b, i, kind, label, parent)
    PROVE  NavInv'
<1> DEFINE n == NewNode(i, kind, label, parent)
<1>1. /\ parent # 0 => nodes[parent] # NoNode
      /\ ParentAllowed(kind, IF parent = 0 THEN NoNode ELSE nodes[parent])
      /\ Start(b, "node", Append(UpsertNode(n), RecordAudit))
      /\ writes < MaxWrites
  BY DEF UpsertNodeRequest, Start
<1>2. n \in Node /\ n.id = i /\ n.kind = kind /\ n.parent = parent
  BY <1>1, NewNodeIs DEF NavInv
<1>3. Typed(n, nodes, rekinded)
  BY <1>1, <1>2 DEF Typed, MayContain, ParentAllowed, NodeKinds
<1> HIDE DEF n
<1>4. /\ UpsertNode(n) \in Seq(NavWrite) /\ RecordAudit \in NavWrite /\ RecordAudit.does # "node"
      /\ PendingTyped(UpsertNode(n), nodes, rekinded)
  BY <1>2, <1>3, UpsertNodeIs, PendingOne DEF NavInv, RecordAudit, NavWrite
<1>5. /\ Append(UpsertNode(n), RecordAudit) \in Seq(NavWrite)
      /\ PendingTyped(Append(UpsertNode(n), RecordAudit), nodes, rekinded)
  <2>1. Append(UpsertNode(n), RecordAudit) = UpsertNode(n) \o <<RecordAudit>>
    BY <1>4, AppendIsConcat
  <2>2. <<RecordAudit>> \in Seq(NavWrite) /\ \A k \in 1 .. Len(<<RecordAudit>>) : <<RecordAudit>>[k].does # "node"
    BY <1>4
  <2>3. /\ UpsertNode(n) \o <<RecordAudit>> \in Seq(NavWrite)
        /\ PendingTyped(UpsertNode(n) \o <<RecordAudit>>, nodes, rekinded)
    BY <1>4, <2>2, PendingConcat
  <2> QED BY <2>1, <2>3
<1> QED BY <1>1, <1>5, StartInv

(* The ingest of a conversation writes a drawer, a closet and a room, each  *)
(* after its parent.                                                        *)
LEMMA SyncNodesInv ==
    ASSUME NavInv, NEW b \in Brokers, NEW label \in NodeLabels, NEW hall \in BOOLEAN, NEW room \in BOOLEAN,
           SyncNodes(b, label, hall, room)
    PROVE  NavInv'
<1> DEFINE drawer == NewNode(1, "drawer", label, 0)
           closet == NewNode(2, "closet", label, 1)
           chamber == NewNode(3, "room", label, IF hall THEN 2 ELSE 1)
           first == UpsertNode(drawer)
           second == IF hall THEN UpsertNode(closet) ELSE <<>>
           third == IF room THEN UpsertNode(chamber) ELSE <<>>
<1>1. Start(b, "sync", first \o second \o third) /\ writes < MaxWrites
  BY DEF SyncNodes, Start
<1>2. /\ drawer \in Node /\ drawer.id = 1 /\ drawer.kind = "drawer" /\ drawer.parent = 0
      /\ closet \in Node /\ closet.id = 2 /\ closet.kind = "closet" /\ closet.parent = 1
      /\ chamber \in Node /\ chamber.kind = "room" /\ chamber.parent = IF hall THEN 2 ELSE 1
  BY <1>1, NewNodeIs, NavigationAssumption DEF NavInv, NodeKinds
<1> HIDE DEF drawer, closet, chamber
<1>3. NavShape
  BY DEF NavInv
<1>4. /\ first \in Seq(NavWrite) /\ PendingTyped(first, nodes, rekinded)
      /\ 1 \in 1 .. Len(first) /\ first[1].does = "node" /\ first[1].node = drawer
  BY <1>2, <1>3, UpsertNodeIs, PendingOne DEF Typed
<1>5. /\ second \in Seq(NavWrite)
      /\ \A k \in 1 .. Len(second) : second[k].does = "node" => second[k].node = closet
      /\ hall => 1 \in 1 .. Len(second) /\ second[1].does = "node" /\ second[1].node = closet
  <2>1. CASE hall
    BY <1>2, <1>3, <2>1, UpsertNodeIs
  <2>2. CASE ~hall
    BY <2>2
  <2> QED BY <2>1, <2>2
<1>6. third \in Seq(NavWrite) /\ \A k \in 1 .. Len(third) : third[k].does = "node" => third[k].node = chamber
  <2>1. CASE room
    BY <1>2, <1>3, <2>1, UpsertNodeIs
  <2>2. CASE ~room
    BY <2>2
  <2> QED BY <2>1, <2>2
<1>7. /\ PutsParent(first[1], closet) /\ (~hall => PutsParent(first[1], chamber))
      /\ hall => 1 \in 1 .. Len(second) /\ PutsParent(second[1], chamber)
  BY <1>2, <1>4, <1>5 DEF PutsParent, MayContain
<1> HIDE DEF first, second, third
<1>8. first \o second \in Seq(NavWrite) /\ PendingTyped(first \o second, nodes, rekinded)
  BY <1>4, <1>5, <1>7, PendingConcat
<1>9. \E j \in 1 .. Len(first \o second) : PutsParent((first \o second)[j], chamber)
  <2>1. /\ Len(first \o second) = Len(first) + Len(second) /\ Len(first) \in Nat /\ Len(second) \in Nat
        /\ \A k \in 1 .. Len(first) + Len(second) :
              (first \o second)[k] = IF k <= Len(first) THEN first[k] ELSE second[k - Len(first)]
    BY <1>4, <1>5, ConcatProperties, LenProperties
  <2>2. CASE ~hall
    BY <1>4, <1>7, <2>1, <2>2
  <2>3. CASE hall
    <3>1. Len(first) + 1 \in 1 .. Len(first \o second) /\ (first \o second)[Len(first) + 1] = second[1]
      BY <1>7, <2>1, <2>3
    <3> QED BY <1>7, <2>3, <3>1
  <2> QED BY <2>2, <2>3
<1>10. (first \o second) \o third \in Seq(NavWrite) /\ PendingTyped((first \o second) \o third, nodes, rekinded)
  BY <1>6, <1>8, <1>9, PendingConcat
<1> QED BY <1>1, <1>10, StartInv

LEMMA LinkTunnelInv ==
    ASSUME NavInv, NEW b \in Brokers, NEW i \in Ids, NEW j \in Ids, LinkTunnel(b, i, j)
    PROVE  NavInv'
<1>1. PICK t \in Ids \X Ids : Start(b, "tunnel", UpsertTunnel(t))
  BY DEF LinkTunnel
<1>2. /\ PutTunnel(t) \in NavWrite /\ AddEnd(t[1], t) \in NavWrite /\ AddEnd(t[2], t) \in NavWrite
      /\ PutTunnel(t).does # "node" /\ AddEnd(t[1], t).does # "node" /\ AddEnd(t[2], t).does # "node"
  BY DEF PutTunnel, AddEnd, NavWrite
<1>3. UpsertTunnel(t) \in {<<PutTunnel(t)>>, <<PutTunnel(t), AddEnd(t[1], t), AddEnd(t[2], t)>>}
  BY DEF UpsertTunnel, SqliteUpsertTunnel, PostgresUpsertTunnel, RedisUpsertTunnel, NavInv, NavShape
<1>4. UpsertTunnel(t) \in Seq(NavWrite) /\ PendingTyped(UpsertTunnel(t), nodes, rekinded)
  <2>1. CASE UpsertTunnel(t) = <<PutTunnel(t)>>
    BY <1>2, <2>1 DEF PendingTyped
  <2>2. CASE UpsertTunnel(t) = <<PutTunnel(t), AddEnd(t[1], t), AddEnd(t[2], t)>>
    <3>1. UpsertTunnel(t) \in Seq(NavWrite)
      BY <1>2, <2>2
    <3>2. \A k \in 1 .. Len(UpsertTunnel(t)) : UpsertTunnel(t)[k].does # "node"
      BY <1>2, <2>2
    <3> QED BY <3>1, <3>2 DEF PendingTyped
  <2> QED BY <1>3, <2>1, <2>2
<1> QED BY <1>1, <1>4, StartInv

-----------------------------------------------------------------------------
(* A node that is typed stays so: nodes are never deleted, and one whose    *)
(* kind changes is remembered.                                              *)
LEMMA TypedStays ==
    ASSUME NEW at, NEW after, NEW changed, NEW changed2, changed \subseteq changed2,
           \A i \in Ids : at[i] # NoNode => after[i] # NoNode /\ (after[i].kind = at[i].kind \/ i \in changed2),
           NEW n, Typed(n, at, changed)
    PROVE  Typed(n, after, changed2)
BY DEF Typed

LEMMA ExecuteInv ==
    ASSUME NavInv, NEW b \in Brokers, ExecuteWrite(b)
    PROVE  NavInv'
<1> DEFINE todo == nav[b].todo
           w == Head(todo)
<1>1. /\ todo \in Seq(NavWrite) /\ todo # <<>> /\ w \in NavWrite /\ w = todo[1]
      /\ Tail(todo) \in Seq(NavWrite) /\ Len(todo) \in Nat \ {0} /\ Len(Tail(todo)) = Len(todo) - 1
      /\ \A k \in 1 .. Len(Tail(todo)) : Tail(todo)[k] = todo[k + 1]
  <2>1. todo \in Seq(NavWrite) /\ todo # <<>>
    BY DEF ExecuteWrite, NavInv, NavShape
  <2> QED BY <2>1, HeadTailProperties, LenProperties, ElementOfSeq
<1>2. /\ nodes' = IF w.does = "node" THEN [nodes EXCEPT ![w.node.id] = w.node] ELSE nodes
      /\ rekinded' = IF w.does = "node" /\ nodes[w.node.id] # NoNode /\ nodes[w.node.id].kind # w.node.kind
                       THEN rekinded \union {w.node.id} ELSE rekinded
      /\ nav' = IF Len(nav[b].todo) = 1 THEN [nav EXCEPT ![b] = Free] ELSE [nav EXCEPT ![b].todo = Tail(@)]
      /\ UNCHANGED <<navStore, writes>>
  BY DEF ExecuteWrite
<1>3. w.does = "node" => w.node \in Node /\ w.node.id \in Ids /\ w.node # NoNode
  <2>1. w.does = "node" => w.node \in Node
    BY <1>1 DEF NavWrite
  <2> QED BY <2>1, NoNodeAssumption DEF Node
<1>4. nodes' \in [Ids -> Node \union {NoNode}]
  BY <1>2, <1>3 DEF NavInv, NavShape
<1>5. /\ rekinded \subseteq rekinded'
      /\ \A i \in Ids : nodes[i] # NoNode => nodes'[i] # NoNode /\ (nodes'[i].kind = nodes[i].kind \/ i \in rekinded')
  BY <1>2, <1>3 DEF NavInv, NavShape
<1>6. \A n : Typed(n, nodes, rekinded) => Typed(n, nodes', rekinded')
  BY <1>5, TypedStays
<1>7. w.does = "node" => Typed(w.node, nodes, rekinded)
  BY <1>1 DEF NavInv, PendingTyped
<1>8. ASSUME NEW n \in Node, w.does = "node", PutsParent(w, n) PROVE Typed(n, nodes', rekinded')
  <2>1. nodes'[n.parent] = w.node
    BY <1>2, <1>3, <1>8 DEF PutsParent, NavInv, NavShape
  <2> QED BY <1>3, <1>8, <2>1 DEF PutsParent, Typed, MayContain
<1>9. PendingTyped(Tail(todo), nodes', rekinded')
  <2> SUFFICES ASSUME NEW k \in 1 .. Len(Tail(todo)), Tail(todo)[k].does = "node"
               PROVE  \/ Typed(Tail(todo)[k].node, nodes', rekinded')
                      \/ \E j \in 1 .. k - 1 : PutsParent(Tail(todo)[j], Tail(todo)[k].node)
    BY DEF PendingTyped
  <2>1. /\ k + 1 \in 1 .. Len(todo) /\ todo[k + 1] = Tail(todo)[k] /\ todo[k + 1] \in NavWrite
        /\ todo[k + 1].does = "node"
    BY <1>1, ElementOfSeq
  <2>2. todo[k + 1].node \in Node
    BY <2>1 DEF NavWrite
  <2>3. CASE Typed(todo[k + 1].node, nodes, rekinded)
    BY <1>6, <2>1, <2>3
  <2>4. ASSUME NEW j \in 1 .. k, PutsParent(todo[j], todo[k + 1].node)
        PROVE  \/ Typed(todo[k + 1].node, nodes', rekinded')
               \/ \E i \in 1 .. k - 1 : PutsParent(Tail(todo)[i], todo[k + 1].node)
    <3>1. CASE j = 1
      BY <1>1, <1>8, <2>2, <2>4, <3>1 DEF PutsParent
    <3>2. CASE j # 1
      <4>1. j - 1 \in 1 .. k - 1 /\ j - 1 \in 1 .. Len(Tail(todo)) /\ Tail(todo)[j - 1] = todo[j]
        <5>1. j \in Nat /\ k \in Nat /\ 1 <= j /\ j <= k /\ k <= Len(Tail(todo)) BY <1>1
        <5>2. j - 1 \in 1 .. k - 1 /\ j - 1 \in 1 .. Len(Tail(todo)) BY <5>1, <3>2, <1>1
        <5>3. (j - 1) + 1 = j BY <5>1
        <5> QED BY <1>1, <5>2, <5>3
      <4> QED BY <2>4, <4>1
    <3> QED BY <3>1, <3>2
  <2>5. \/ Typed(todo[k + 1].node, nodes, rekinded)
        \/ \E j \in 1 .. k : PutsParent(todo[j], todo[k + 1].node)
    BY <2>1 DEF NavInv, PendingTyped
  <2> QED BY <2>1, <2>3, <2>4, <2>5
<1>10. /\ nav' \in [Brokers -> [phase: {"free", "node", "sync", "tunnel"}, todo: Seq(NavWrite)]]
       /\ nav'[b].todo \in {<<>>, Tail(todo)}
       /\ \A c \in Brokers : c # b => nav'[c] = nav[c]
  <2> DEFINE next == [nav[b] EXCEPT !.todo = Tail(todo)]
  <2>1. next \in [phase: {"free", "node", "sync", "tunnel"}, todo: Seq(NavWrite)] /\ next.todo = Tail(todo)
    BY <1>1 DEF NavInv, NavShape
  <2>2. Free \in [phase: {"free", "node", "sync", "tunnel"}, todo: Seq(NavWrite)] /\ Free.todo = <<>>
    BY DEF Free
  <2>3. nav' = [nav EXCEPT ![b] = Free] \/ nav' = [nav EXCEPT ![b] = next]
    BY <1>2 DEF NavInv, NavShape
  <2> HIDE DEF next, todo
  <2> QED BY <2>1, <2>2, <2>3 DEF NavInv, NavShape
<1>11. ASSUME NEW c \in Brokers PROVE PendingTyped(nav'[c].todo, nodes', rekinded')
  <2>1. CASE c = b
    <3>1. PendingTyped(<<>>, nodes', rekinded')
      BY DEF PendingTyped
    <3> HIDE DEF todo
    <3> QED BY <1>9, <1>10, <2>1, <3>1
  <2>2. CASE c # b
    BY <1>6, <1>10, <2>2 DEF NavInv, PendingTyped
  <2> QED BY <2>1, <2>2
<1>12. ASSUME NEW i \in Present' PROVE Typed(nodes'[i], nodes', rekinded')
  <2>1. i \in Ids /\ nodes'[i] # NoNode
    BY <1>12 DEF Present
  <2>2. CASE w.does = "node" /\ i = w.node.id
    BY <1>2, <1>3, <1>6, <1>7, <2>1, <2>2 DEF NavInv, NavShape
  <2>3. CASE ~(w.does = "node" /\ i = w.node.id)
    <3>1. nodes'[i] = nodes[i]
      BY <1>2, <1>3, <2>1, <2>3 DEF NavInv, NavShape
    <3> QED BY <1>6, <2>1, <3>1 DEF NavInv, Present
  <2> QED BY <2>2, <2>3
<1> QED BY <1>2, <1>4, <1>10, <1>11, <1>12 DEF NavInv, NavShape

LEMMA FailsInv ==
    ASSUME NavInv, NEW b \in Brokers, WriteFails(b)
    PROVE  NavInv'
<1>1. nav' = [nav EXCEPT ![b] = Free] /\ UNCHANGED <<navStore, nodes, writes, rekinded>>
  BY DEF WriteFails, Untouched
<1>2. NavShape' /\ \A c \in Brokers : nav'[c].todo = <<>> \/ nav'[c] = nav[c]
  BY <1>1 DEF NavInv, NavShape, Free
<1> QED BY <1>1, <1>2 DEF NavInv, PendingTyped, Present

LEMMA NavNextInv == NavInv /\ [NavNext]_navVars => NavInv'
<1> SUFFICES ASSUME NavInv, [NavNext]_navVars PROVE NavInv'
  OBVIOUS
<1>1. CASE UNCHANGED <<navStore, nodes, nav, writes, rekinded>>
  BY <1>1 DEF NavInv, NavShape, Present
<1>2. CASE Reading \/ UNCHANGED navVars
  BY <1>1, <1>2 DEF Reading, NextPage, BeginWalk, navVars
<1> QED BY <1>2, UpsertRequestInv, SyncNodesInv, LinkTunnelInv, ExecuteInv, FailsInv DEF NavNext, Writing

LEMMA NavInvariance == NavSpec => []NavInv
BY NavInitInv, NavNextInv, PTL DEF NavSpec

-----------------------------------------------------------------------------
(* However brokers overlap and stop, a node is under a parent of a kind     *)
(* that may hold it, unless that parent has been written again under        *)
(* another kind (memory_navigation_upsert_node, broker.rs:3382).            *)
THEOREM ParentsStayTyped == NavSpec => []ParentsAreTyped
<1>1. NavInv => ParentsAreTyped
  BY DEF NavInv, NavShape, ParentsAreTyped, Typed, MayContain, Present
<1> QED BY <1>1, NavInvariance, PTL

-----------------------------------------------------------------------------
(* Pages.  A write of a time in nav_idx comes after the write of its node.  *)
PendingRecent(todo, at) ==
    \A k \in 1 .. Len(todo) : todo[k].does = "recent" =>
        \/ at[todo[k].node.id] # NoNode
        \/ k # 1 /\ todo[k - 1] = PutNode(todo[k].node)

(* The tunnel that a broker is linking, and what is there of it.            *)
Linking(todo, t) ==
    \/ navStore # "redis" /\ todo = <<PutTunnel(t)>>
    \/ navStore = "redis" /\ todo = <<PutTunnel(t), AddEnd(t[1], t), AddEnd(t[2], t)>>
    \/ navStore = "redis" /\ todo = <<AddEnd(t[1], t), AddEnd(t[2], t)>> /\ t \in tunnels
    \/ navStore = "redis" /\ todo = <<AddEnd(t[2], t)>> /\ t \in tunnels /\ t \in ends[t[1]]

StoreInv ==
    /\ recent \in [Ids -> Nat] /\ tunnels \subseteq Ids \X Ids
    /\ ends \in [Ids -> SUBSET (Ids \X Ids)]
    /\ audit \in Nat
    /\ \A i \in Ids : nodes[i] # NoNode => nodes[i].id = i
    /\ \A i \in Ids : recent[i] # 0 => nodes[i] # NoNode
    /\ \A i \in Ids : \A t \in ends[i] : i \in {t[1], t[2]}
    /\ linked \subseteq tunnels
    /\ navStore = "redis" => \A t \in linked : t \in ends[t[1]] /\ t \in ends[t[2]]
    /\ \A b \in Brokers : /\ PendingRecent(nav[b].todo, nodes)
                          /\ nav[b].phase = "tunnel" => \E t \in Ids \X Ids : Linking(nav[b].todo, t)

(* What a walk has to show still, and the rows before one of them.          *)
WalkShape ==
    walk = NoWalk \/
    walk \in [phase: {"walking", "done"}, list: Lists, offset: Nat, got: SUBSET Int, old: SUBSET Int,
              touched: SUBSET Ids, moved: BOOLEAN, linked: SUBSET linked, shown: SUBSET (Ids \X Ids),
              cut: BOOLEAN]

Untold == IF walk.list = "audit" THEN walk.old \ walk.got ELSE (walk.old \ walk.touched) \ walk.got

OnTheList(i) ==
    IF walk.list = "audit" THEN i \in 1 .. audit
    ELSE i \in Ids /\ nodes[i] # NoNode /\ Wants(walk.list, nodes[i]) /\ (navStore = "redis" => recent[i] # 0)

Earlier(i) ==
    IF walk.list = "audit" THEN i + 1 .. audit
    ELSE IF navStore = "redis" THEN {j \in Ids : recent[j] # 0 /\ Later(j, i)}
    ELSE {j \in Present : Wants(walk.list, nodes[j]) /\ Before(nodes[j], nodes[i])}

Excused ==
    \/ walk.list # "audit" /\ walk.moved
    \/ walk.list \in NodeKinds /\ navStore = "redis" /\ Cardinality(Present) > RawWindow

(* A row that was there and is not told yet is on a page still to come.     *)
WalkInv ==
    walk # NoWalk =>
        /\ walk.phase = "walking" => \A i \in Untold : OnTheList(i)
        /\ ~Excused => \A i \in Untold : walk.phase = "walking" /\ walk.offset <= Cardinality(Earlier(i))
        /\ \/ walk.list = "audit" \/ (walk.list = "nodes" /\ navStore = "redis") \/ walk.cut
           \/ {t \in walk.linked : {t[1], t[2]} \intersect walk.got # {}} \subseteq walk.shown

PagesInv == StoreInv /\ WalkShape /\ WalkInv

-----------------------------------------------------------------------------
(* What a page shows.                                                       *)
LEMMA SliceShows ==
    ASSUME NEW U, NEW s \in Seq(U), NEW o \in Nat, NEW n \in Nat
    PROVE  /\ Slice(s, o, n) \in Seq(U)
           /\ \A k \in 1 .. Len(s) : o < k /\ k <= o + n =>
                 k - o \in 1 .. Len(Slice(s, o, n)) /\ Slice(s, o, n)[k - o] = s[k]
           /\ o + n <= Len(s) => Len(Slice(s, o, n)) = n
           /\ Len(Slice(s, o, n)) <= n
           /\ \A q \in 1 .. Len(Slice(s, o, n)) : o + q \in 1 .. Len(s) /\ Slice(s, o, n)[q] = s[o + q]
<1> DEFINE m == IF o + n < Len(s) THEN o + n ELSE Len(s)
           t == Slice(s, o, n)
<1>1. Len(s) \in Nat /\ m \in Nat /\ m <= Len(s) /\ m <= o + n
  OBVIOUS
<1>2. t = SubSeq(s, o + 1, m)
  BY DEF Slice
<1>3. /\ t \in Seq(U) /\ Len(t) = IF o + 1 <= m THEN m - o ELSE 0
      /\ \A q \in 1 .. Len(t) : t[q] = s[o + q]
  <2>1. CASE o + 1 <= m
    <3>1. /\ SubSeq(s, o + 1, m) \in Seq(U) /\ Len(SubSeq(s, o + 1, m)) = m - (o + 1) + 1
          /\ \A q \in 1 .. m - (o + 1) + 1 : SubSeq(s, o + 1, m)[q] = s[(o + 1) + q - 1]
      BY <1>1, <2>1, SubSeqProperties
    <3>2. m - (o + 1) + 1 = m - o
      BY <1>1
    <3> HIDE DEF m, t
    <3>3. Len(t) = m - o /\ t \in Seq(U)
      BY <1>2, <3>1, <3>2
    <3>4. ASSUME NEW q \in 1 .. Len(t) PROVE t[q] = s[o + q]
      <4>1. q \in 1 .. m - (o + 1) + 1 /\ (o + 1) + q - 1 = o + q
        BY <1>1, <3>2, <3>3
      <4> QED BY <1>2, <3>1, <4>1
    <3> QED BY <2>1, <3>3, <3>4
  <2>2. CASE ~(o + 1 <= m)
    <3>1. SubSeq(s, o + 1, m) = <<>>
      BY <1>1, <2>2, SubSeqEmpty
    <3> HIDE DEF m, t
    <3>2. t = <<>>
      BY <1>2, <3>1
    <3>3. t \in Seq(U) /\ Len(t) = 0
      BY <3>2
    <3> QED BY <2>2, <3>3
  <2> QED BY <2>1, <2>2
<1> HIDE DEF t
<1>4. \A k \in 1 .. Len(s) : o < k /\ k <= o + n => k - o \in 1 .. Len(t) /\ t[k - o] = s[k]
  <2> SUFFICES ASSUME NEW k \in 1 .. Len(s), o < k, k <= o + n PROVE k - o \in 1 .. Len(t) /\ t[k - o] = s[k]
    OBVIOUS
  <2>1. k <= m /\ o + 1 <= m /\ o + (k - o) = k
    BY <1>1
  <2> HIDE DEF m
  <2> QED BY <1>1, <1>3, <2>1
<1>5. /\ o + n <= Len(s) => Len(t) = n
      /\ Len(t) <= n
      /\ \A q \in 1 .. Len(t) : o + q \in 1 .. Len(s)
  BY <1>1, <1>3
<1> QED BY <1>3, <1>4, <1>5 DEF t

LEMMA SliceIs ==
    ASSUME NEW U, NEW s \in Seq(U), NEW o \in Nat, NEW n \in Nat
    PROVE  /\ Slice(s, o, n) \in Seq(U) /\ Len(Slice(s, o, n)) <= n
           /\ o + n <= Len(s) => Len(Slice(s, o, n)) = n
BY SliceShows

LEMMA SliceAt ==
    ASSUME NEW U, NEW s \in Seq(U), NEW o \in Nat, NEW n \in Nat, NEW k \in 1 .. Len(s), o < k, k <= o + n
    PROVE  k - o \in 1 .. Len(Slice(s, o, n)) /\ Slice(s, o, n)[k - o] = s[k]
BY SliceShows

(* A row that is after the offset is on the page or after the next offset.  *)
LEMMA PageShows ==
    ASSUME NEW U, NEW s \in Seq(U), NEW o \in Nat, NEW at \in Nat, PageLimit \in Nat \ {0},
           NEW k \in 1 .. Len(s), o < k
    PROVE  LET p == FromPeek(Slice(s, o, FetchLimit), at)
           IN  s[k] \in ToSet(p.items) \/ (p.more /\ o + PageLimit < k)
<1> DEFINE t == Slice(s, o, FetchLimit)
<1>1. FetchLimit = PageLimit + 1 /\ FetchLimit \in Nat
  BY DEF FetchLimit
<1>2. /\ t \in Seq(U)
      /\ k <= o + FetchLimit => k - o \in 1 .. Len(t) /\ t[k - o] = s[k]
      /\ o + FetchLimit <= Len(s) => Len(t) = FetchLimit
  <2>1. PICK n \in Nat : n = FetchLimit
    BY <1>1
  <2>2. /\ Slice(s, o, n) \in Seq(U)
        /\ \A i \in 1 .. Len(s) : o < i /\ i <= o + n =>
              i - o \in 1 .. Len(Slice(s, o, n)) /\ Slice(s, o, n)[i - o] = s[i]
        /\ o + n <= Len(s) => Len(Slice(s, o, n)) = n
    BY SliceIs, SliceAt
  <2> QED BY <2>1, <2>2
<1> HIDE DEF t
<1>3. \A i \in 1 .. Len(t) : i <= PageLimit => t[i] \in ToSet(First(PageLimit, t))
  BY <1>2, FirstShows
<1>4. FromPeek(t, at).items = First(PageLimit, t) /\ FromPeek(t, at).more = (Len(t) > PageLimit)
  BY DEF FromPeek
<1>5. CASE k <= o + PageLimit
  <2>1. k - o \in 1 .. Len(t) /\ t[k - o] = s[k] /\ k - o <= PageLimit
    BY <1>1, <1>2, <1>5
  <2> QED BY <1>3, <1>4, <2>1 DEF t
<1>6. CASE ~(k <= o + PageLimit)
  <2>1. o + FetchLimit <= Len(s) /\ o + PageLimit < k
    BY <1>1, <1>6
  <2>2. Len(t) > PageLimit
    BY <1>1, <1>2, <2>1
  <2> QED BY <1>4, <2>1, <2>2 DEF t
<1> QED BY <1>5, <1>6

(* A page has rows of the list only, and tells the offset of the next.      *)
LEMMA PageIs ==
    ASSUME NEW U, NEW t \in Seq(U), NEW o \in Nat, PageLimit \in Nat \ {0}
    PROVE  ToSet(FromPeek(t, o).items) \subseteq U /\ FromPeek(t, o).next = o + PageLimit
           /\ FromPeek(t, o).more \in BOOLEAN /\ FromPeek(t, o).items \in Seq(U)
<1>1. ToSet(First(PageLimit, t)) \subseteq U /\ First(PageLimit, t) \in Seq(U)
  BY FirstShows
<1> QED BY <1>1 DEF FromPeek

(* The audit log: the event of number a is behind those after it.           *)
LEMMA AuditPageShows ==
    ASSUME NEW o \in Nat, audit \in Nat, PageLimit \in Nat \ {0}, navStore \in {"sqlite", "postgres", "redis"}
    PROVE  LET p == AuditPaged(o)
           IN  /\ p.next = o + PageLimit /\ ToSet(p.items) \subseteq Int /\ p.more \in BOOLEAN
               /\ \A a \in 1 .. audit : o <= audit - a =>
                     a \in ToSet(p.items) \/ (p.more /\ o + PageLimit <= audit - a)
<1> DEFINE c == IF o + FetchLimit < audit THEN o + FetchLimit ELSE audit
           p == AuditPaged(o)
<1>1. FetchLimit = PageLimit + 1 /\ FetchLimit \in Nat
  BY DEF FetchLimit
<1>2. PICK n \in Nat : /\ n = audit \/ (n = o + FetchLimit /\ n < audit)
                       /\ p = FromPeek(Slice(NewestNodes(n), o, FetchLimit), o)
  <2>1. CASE navStore \in {"sqlite", "postgres"}
    BY <2>1 DEF AuditPaged, SqliteAuditPaged, PostgresAuditPaged
  <2>2. CASE navStore = "redis"
    <3>1. p = FromPeek(Slice(NewestNodes(c), o, FetchLimit), o)
      BY <2>2 DEF AuditPaged, RedisAuditPaged
    <3>2. c \in Nat /\ (c = audit \/ (c = o + FetchLimit /\ c < audit))
      BY <1>1
    <3> QED BY <3>1, <3>2
  <2> QED BY <2>1, <2>2
<1> HIDE DEF p
<1> DEFINE s == NewestNodes(n)
<1>3. /\ s \in Seq(Int) /\ Len(s) = n
      /\ \A k \in 1 .. n : s[k] = audit + 1 - k
  BY DEF NewestNodes
<1> HIDE DEF s
<1>4. Slice(s, o, FetchLimit) \in Seq(Int)
  BY <1>1, <1>3, SliceIs
<1>5. p.next = o + PageLimit /\ ToSet(p.items) \subseteq Int /\ p.more \in BOOLEAN
  BY <1>2, <1>4, PageIs DEF s
<1>6. ASSUME NEW a \in 1 .. audit, o <= audit - a
      PROVE  a \in ToSet(p.items) \/ (p.more /\ o + PageLimit <= audit - a)
  <2> DEFINE k == audit + 1 - a
  <2>1. k \in Nat /\ 1 <= k /\ k <= audit /\ o < k /\ audit + 1 - k = a /\ k - 1 = audit - a
    BY <1>6
  <2> HIDE DEF k
  <2>2. CASE k <= n
    <3>1. k \in 1 .. Len(s)
      BY <1>3, <2>1, <2>2
    <3>2. s[k] \in ToSet(p.items) \/ (p.more /\ o + PageLimit < k)
      BY <1>2, <1>3, <2>1, <3>1, PageShows DEF s
    <3>3. s[k] = a
      BY <1>3, <2>1, <3>1
    <3>4. o + PageLimit < k => o + PageLimit <= audit - a
      BY <2>1
    <3> QED BY <3>2, <3>3, <3>4
  <2>3. CASE n < k
    <3>1. n = o + FetchLimit
      BY <1>2, <2>1, <2>3
    <3>2. Len(Slice(s, o, FetchLimit)) = FetchLimit
      <4>1. PICK m \in Nat : m = FetchLimit
        BY <1>1
      <4>2. o + m <= Len(s)
        BY <1>3, <3>1, <4>1
      <4>3. Len(Slice(s, o, m)) = m
        BY <1>3, <4>2, SliceIs
      <4> QED BY <4>1, <4>3
    <3>3. p.more = (Len(Slice(s, o, FetchLimit)) > PageLimit)
      BY <1>2 DEF FromPeek, s
    <3>4. o + PageLimit <= audit - a
      BY <1>1, <2>1, <2>3, <3>1
    <3>5. FetchLimit > PageLimit
      BY <1>1
    <3> QED BY <3>2, <3>3, <3>4, <3>5
  <2> QED BY <2>1, <2>2, <2>3
<1> QED BY <1>5, <1>6 DEF p

-----------------------------------------------------------------------------
(* The order of the nodes.                                                  *)
LEMMA KeptAre ==
    ASSUME NavInv, StoreInv
    PROVE  /\ IsFiniteSet(Present) /\ Cardinality(Present) \in Nat /\ IsFiniteSet(Kept) /\ Kept \subseteq Node
           /\ \A n \in Kept : n.id \in Present /\ nodes[n.id] = n
           /\ \A i \in Present : i \in Ids /\ nodes[i] \in Kept /\ nodes[i] \in Node /\ nodes[i].id = i
           /\ Ids \subseteq Int /\ NodeLabels \subseteq Int
<1>1. Present \in SUBSET Ids /\ IsFiniteSet(Ids)
  BY NavigationAssumption DEF Present
<1>2. IsFiniteSet(Present) /\ Cardinality(Present) \in Nat
  BY <1>1, FS_Subset, FS_CardinalityType
<1>3. \A i \in Present : i \in Ids /\ nodes[i] \in Kept /\ nodes[i] \in Node /\ nodes[i].id = i
  BY DEF Present, Kept, NavInv, NavShape, StoreInv
<1>4. \A n \in Kept : n.id \in Present /\ nodes[n.id] = n /\ n \in Node
  BY <1>3 DEF Kept
<1> DEFINE f == [i \in Present |-> nodes[i]]
<1>5. f \in Surjection(Present, Kept)
  BY DEF Kept, Surjection
<1>6. IsFiniteSet(Kept)
  BY <1>2, <1>5, FS_Surjection
<1>7. Ids \subseteq Int /\ NodeLabels \subseteq Int
  BY NavigationAssumption
<1> QED BY <1>2, <1>3, <1>4, <1>6, <1>7

SqlBefore(W) == {p \in W \X W : Before(p[1], p[2])}

LEMMA SqlOrder ==
    ASSUME NavInv, StoreInv, NEW W \in SUBSET Kept
    PROVE  /\ IsFiniteSet(W) /\ TotalOn(W, SqlBefore(W))
           /\ ListsInOrder(W, SqlBefore(W), InOrder(W, Before))
           /\ \A m, n \in W : <<m, n>> \in SqlBefore(W) <=> Before(m, n)
<1> DEFINE R == SqlBefore(W)
<1>1. IsFiniteSet(W)
  BY KeptAre, FS_Subset
<1>2. \A n \in W : /\ n.id \in Int /\ n.label \in Int
                   /\ n.kind \in NodeKinds
  <2>1. W \subseteq Node /\ Ids \subseteq Int /\ NodeLabels \subseteq Int
    BY KeptAre
  <2> QED BY <2>1 DEF Node
<1>3. \A m, n \in W : m.id = n.id => m = n
  BY KeptAre
<1>4. \A m, n \in W : <<m, n>> \in R <=> Before(m, n)
  BY DEF SqlBefore
<1>5. \A a, b \in NodeKinds : /\ KindRank[a] \in Int /\ KindRank[b] \in Int
                              /\ KindRank[a] = KindRank[b] => a = b
  BY DEF KindRank, NodeKinds
<1>6. \A n \in W : KindRank[n.kind] \in Int
  BY <1>2, <1>5
<1>7. \A m, n \in W : KindRank[m.kind] = KindRank[n.kind] => m.kind = n.kind
  BY <1>2, <1>5
<1> HIDE DEF R
<1>8. TotalOn(W, R)
  <2>1. \A a \in W : <<a, a>> \notin R
    BY <1>2, <1>4, <1>6 DEF Before
  <2>2. \A a, b \in W : a = b \/ <<a, b>> \in R \/ <<b, a>> \in R
    <3> SUFFICES ASSUME NEW a \in W, NEW b \in W, a # b PROVE Before(a, b) \/ Before(b, a)
      BY <1>4
    <3>1. a.id # b.id
      BY <1>3
    <3> QED BY <1>2, <1>6, <1>7, <3>1 DEF Before
  <2>3. \A a, b, c \in W : <<a, b>> \in R /\ <<b, c>> \in R => <<a, c>> \in R
    <3> SUFFICES ASSUME NEW a \in W, NEW b \in W, NEW c \in W, Before(a, b), Before(b, c) PROVE Before(a, c)
      BY <1>4
    <3>1. CASE KindRank[a.kind] < KindRank[b.kind]
      BY <1>2, <1>6, <3>1 DEF Before
    <3>2. CASE ~(KindRank[a.kind] < KindRank[b.kind])
      <4>1. a.kind = b.kind
        BY <3>2 DEF Before
      <4> QED BY <1>2, <1>6, <4>1 DEF Before
    <3> QED BY <3>1, <3>2
  <2> QED BY <2>1, <2>2, <2>3 DEF TotalOn
<1>9. PICK l : ListsInOrder(W, R, l)
  BY <1>1, <1>8, CanBeListed
<1>10. l \in [1 .. Cardinality(W) -> W] /\ \A i, j \in 1 .. Cardinality(W) : i < j => Before(l[i], l[j])
  BY <1>4, <1>9 DEF ListsInOrder
<1> DEFINE s == InOrder(W, Before)
<1>11. s \in [1 .. Cardinality(W) -> W] /\ \A i, j \in 1 .. Cardinality(W) : i < j => Before(s[i], s[j])
  BY <1>10 DEF InOrder
<1>12. ListsInOrder(W, R, s)
  BY <1>4, <1>11 DEF ListsInOrder
<1> QED BY <1>1, <1>4, <1>8, <1>12 DEF R

(* A row with at least o others before it is on the page at o, or has as    *)
(* many before it as the next page begins after.                            *)
LEMMA SqlPageShows ==
    ASSUME NavInv, StoreInv, NEW W \in SUBSET Kept, NEW o \in Nat, NEW n \in W,
           o <= Cardinality({m \in W : Before(m, n)})
    PROVE  LET p == FromPeek(Slice(InOrder(W, Before), o, FetchLimit), o)
           IN  n \in ToSet(p.items) \/ (p.more /\ o + PageLimit <= Cardinality({m \in W : Before(m, n)}))
<1> DEFINE s == InOrder(W, Before)
           T == {m \in W : Before(m, n)}
<1>1. /\ IsFiniteSet(W) /\ TotalOn(W, SqlBefore(W)) /\ ListsInOrder(W, SqlBefore(W), s)
      /\ \A a, b \in W : <<a, b>> \in SqlBefore(W) <=> Before(a, b)
  BY SqlOrder
<1> HIDE DEF s
<1>2. /\ s \in Seq(W) /\ Len(s) = Cardinality(W)
      /\ \A a \in W : \E k \in 1 .. Cardinality(W) : s[k] = a
  BY <1>1, ListShows
<1>3. PICK k \in 1 .. Cardinality(W) : s[k] = n
  BY <1>2
<1>4. k = Cardinality({a \in W : <<a, s[k]>> \in SqlBefore(W)}) + 1
  BY <1>1, PlaceIs
<1>5. {a \in W : <<a, s[k]>> \in SqlBefore(W)} = T
  BY <1>1, <1>3
<1>6. IsFiniteSet(T) /\ Cardinality(T) \in Nat
  BY <1>1, FS_Subset, FS_CardinalityType
<1>7. PageLimit \in Nat \ {0} /\ o <= Cardinality(T) /\ k = Cardinality(T) + 1
  BY <1>4, <1>5, NavigationAssumption
<1> HIDE DEF T
<1>8. k \in 1 .. Len(s) /\ o < k
  BY <1>2, <1>6, <1>7
<1> DEFINE p == FromPeek(Slice(s, o, FetchLimit), o)
<1>9. s[k] \in ToSet(p.items) \/ (p.more /\ o + PageLimit < k)
  BY <1>2, <1>7, <1>8, PageShows
<1>10. o + PageLimit < k => o + PageLimit <= Cardinality(T)
  BY <1>6, <1>7
<1> HIDE DEF p
<1>11. n \in ToSet(p.items) \/ (p.more /\ o + PageLimit <= Cardinality(T))
  BY <1>3, <1>9, <1>10
<1> QED BY <1>11 DEF p, s, T

RecentIds == {i \in Ids : recent[i] # 0}
LaterOf == {p \in RecentIds \X RecentIds : Later(p[1], p[2])}
ByTime == InOrder(RecentIds, Later)

LEMMA RedisOrder ==
    ASSUME NavInv, StoreInv
    PROVE  /\ IsFiniteSet(RecentIds) /\ TotalOn(RecentIds, LaterOf) /\ ListsInOrder(RecentIds, LaterOf, ByTime)
           /\ \A i, j \in RecentIds : <<i, j>> \in LaterOf <=> Later(i, j)
           /\ RecentIds \subseteq Present /\ Cardinality(RecentIds) <= Cardinality(Present)
<1>1. /\ IsFiniteSet(RecentIds)
      /\ \A i \in RecentIds : i \in Int /\ recent[i] \in Int
  BY FS_Subset, NavigationAssumption DEF RecentIds, StoreInv
<1>2. \A i, j \in RecentIds : <<i, j>> \in LaterOf <=> Later(i, j)
  BY DEF LaterOf
<1>3. TotalOn(RecentIds, LaterOf)
  BY <1>1, <1>2 DEF TotalOn, Later
<1>4. PICK s : ListsInOrder(RecentIds, LaterOf, s)
  BY <1>1, <1>3, CanBeListed
<1>5. /\ s \in [1 .. Cardinality(RecentIds) -> RecentIds]
      /\ \A i, j \in 1 .. Cardinality(RecentIds) : i < j => Later(s[i], s[j])
  BY <1>2, <1>4 DEF ListsInOrder
<1>6. /\ ByTime \in [1 .. Cardinality(RecentIds) -> RecentIds]
      /\ \A i, j \in 1 .. Cardinality(RecentIds) : i < j => Later(ByTime[i], ByTime[j])
  BY <1>5 DEF ByTime, InOrder
<1>7. ListsInOrder(RecentIds, LaterOf, ByTime)
  BY <1>2, <1>6 DEF ListsInOrder
<1>8. RecentIds \in SUBSET Present /\ IsFiniteSet(Present)
  BY KeptAre DEF RecentIds, StoreInv, Present
<1>9. Cardinality(RecentIds) <= Cardinality(Present)
  BY <1>8, FS_Subset
<1> QED BY <1>1, <1>2, <1>3, <1>7, <1>8, <1>9

LEMMA WindowIs == RawWindow \in Nat /\ FetchLimit \in Nat /\ FetchLimit = PageLimit + 1 /\ FetchLimit <= RawWindow
                  /\ PageLimit \in Nat \ {0}
<1>1. PageLimit \in Nat \ {0} /\ PageWindowFactor \in Nat \ {0} /\ MinPageWindow \in Nat \ {0}
  BY NavigationAssumption
<1>2. FetchLimit = PageLimit + 1 /\ FetchLimit \in Nat
  BY <1>1 DEF FetchLimit
<1>3. \A a, b \in Nat : b # 0 => a <= a * b /\ a * b \in Nat
  OBVIOUS
<1>4. FetchLimit <= FetchLimit * PageWindowFactor /\ FetchLimit * PageWindowFactor \in Nat
  BY <1>1, <1>2, <1>3
<1> QED BY <1>1, <1>2, <1>4 DEF RawWindow

(* The same on Redis, for the unfiltered list or nodes that fit the window. *)
LEMMA RedisPageShows ==
    ASSUME NavInv, StoreInv, NEW W \in SUBSET Kept, NEW o \in Nat, NEW i \in RecentIds, nodes[i] \in W,
           W = Kept \/ Cardinality(Present) <= RawWindow,
           o <= Cardinality({j \in Ids : recent[j] # 0 /\ Later(j, i)})
    PROVE  LET p == RedisNodesPaged(W, o)
           IN  \/ nodes[i] \in ToSet(p.items)
               \/ p.more /\ o + PageLimit <= Cardinality({j \in Ids : recent[j] # 0 /\ Later(j, i)})
<1> DEFINE T == {j \in Ids : recent[j] # 0 /\ Later(j, i)}
<1>1. /\ IsFiniteSet(RecentIds) /\ TotalOn(RecentIds, LaterOf) /\ ListsInOrder(RecentIds, LaterOf, ByTime)
      /\ \A a, b \in RecentIds : <<a, b>> \in LaterOf <=> Later(a, b)
      /\ RecentIds \subseteq Present /\ Cardinality(RecentIds) <= Cardinality(Present)
  BY RedisOrder
<1>2. /\ ByTime \in Seq(RecentIds) /\ Len(ByTime) = Cardinality(RecentIds)
      /\ \A a \in RecentIds : \E k \in 1 .. Cardinality(RecentIds) : ByTime[k] = a
  BY <1>1, ListShows
<1>3. PICK k \in 1 .. Cardinality(RecentIds) : ByTime[k] = i
  BY <1>2
<1>4. k = Cardinality({a \in RecentIds : <<a, ByTime[k]>> \in LaterOf}) + 1
  BY <1>1, PlaceIs
<1>5. {a \in RecentIds : <<a, ByTime[k]>> \in LaterOf} = T
  <2>1. \A a : a \in T <=> a \in RecentIds /\ Later(a, i)
    BY DEF RecentIds
  <2> QED BY <1>1, <1>3, <2>1
<1>6. IsFiniteSet(T) /\ Cardinality(T) \in Nat
  BY FS_Subset, FS_CardinalityType, NavigationAssumption
<1>7. o <= Cardinality(T) /\ k = Cardinality(T) + 1
  BY <1>4, <1>5
<1> HIDE DEF T
<1>8. k \in 1 .. Len(ByTime) /\ o < k
  BY <1>2, <1>6, <1>7
<1>9. PICK rw \in Nat, fl \in Nat : rw = RawWindow /\ fl = FetchLimit /\ fl = PageLimit + 1 /\ fl <= rw
  BY WindowIs
<1>10. PageLimit \in Nat \ {0}
  BY WindowIs
<1> DEFINE ids == Slice(ByTime, o, rw)
           rows == [q \in DOMAIN ids |-> nodes[ids[q]]]
           f == Among(rows, W)
           p == FromPeek(Slice(f, 0, fl), o)
<1>11. p = RedisNodesPaged(W, o)
  BY <1>9 DEF RedisNodesPaged, ByTime, RecentIds
<1>12. /\ ids \in Seq(RecentIds) /\ Len(ids) <= rw /\ (o + rw <= Len(ByTime) => Len(ids) = rw)
       /\ k <= o + rw => k - o \in 1 .. Len(ids) /\ ids[k - o] = i
  <2>1. /\ Slice(ByTime, o, rw) \in Seq(RecentIds) /\ Len(Slice(ByTime, o, rw)) <= rw
        /\ o + rw <= Len(ByTime) => Len(Slice(ByTime, o, rw)) = rw
    BY <1>2, SliceIs
  <2>2. k <= o + rw => k - o \in 1 .. Len(Slice(ByTime, o, rw)) /\ Slice(ByTime, o, rw)[k - o] = ByTime[k]
    BY <1>2, <1>8, SliceAt
  <2> QED BY <1>3, <2>1, <2>2
<1> HIDE DEF ids
<1>13. PICK m \in Nat : m = Len(ids) /\ DOMAIN ids = 1 .. m /\ DOMAIN rows = 1 .. m
  BY <1>12
<1>14. \A q \in 1 .. m : rows[q] = nodes[ids[q]] /\ rows[q] \in Kept
  <2>1. \A q \in 1 .. m : ids[q] \in RecentIds /\ rows[q] = nodes[ids[q]]
    BY <1>12, <1>13
  <2> QED BY <1>1, <2>1, KeptAre
<1> HIDE DEF rows
<1>15. /\ Among(rows, W) \in Seq(W)
       /\ \A q \in 1 .. m : rows[q] \in W => \E r \in 1 .. Len(Among(rows, W)) : r <= q /\ Among(rows, W)[r] = rows[q]
       /\ (\A q \in 1 .. m : rows[q] \in W) => Len(Among(rows, W)) = m
  <2>1. Among(rows, W) \in Seq(W)
    BY <1>13, AmongShows
  <2>2. ASSUME NEW q \in 1 .. m, rows[q] \in W
        PROVE  \E r \in 1 .. Len(Among(rows, W)) : r <= q /\ Among(rows, W)[r] = rows[q]
    BY <1>13, <2>2, AmongIsAt
  <2>3. (\A q \in 1 .. m : rows[q] \in W) => Len(Among(rows, W)) = m
    BY <1>13, AmongIsAll
  <2> QED BY <2>1, <2>2, <2>3
<1> HIDE DEF f
<1>16. CASE k <= o + rw
  <2>1. k - o \in 1 .. m /\ rows[k - o] = nodes[i]
    BY <1>12, <1>13, <1>14, <1>16
  <2>2. PICK r \in 1 .. Len(f) : r <= k - o /\ f[r] = nodes[i]
    BY <1>15, <2>1 DEF f
  <2>3. f \in Seq(W)
    BY <1>15 DEF f
  <2>4. 0 < r /\ r \in 1 .. Len(f)
    BY <2>2
  <2>5. f[r] \in ToSet(FromPeek(Slice(f, 0, FetchLimit), o).items)
        \/ (FromPeek(Slice(f, 0, FetchLimit), o).more /\ 0 + PageLimit < r)
    BY <1>10, <2>3, <2>4, PageShows
  <2>6. 0 + PageLimit < r => o + PageLimit <= Cardinality(T)
    BY <1>6, <1>7, <1>10, <2>2
  <2>7. p = FromPeek(Slice(f, 0, FetchLimit), o)
    BY <1>9
  <2> HIDE DEF p
  <2> QED BY <1>11, <2>2, <2>5, <2>6, <2>7 DEF T
<1>17. CASE ~(k <= o + rw)
  <2>2. Cardinality(Present) \in Nat
    BY KeptAre
  <2>3. rw < Cardinality(RecentIds) /\ Cardinality(RecentIds) \in Nat /\ o + rw <= Len(ByTime)
    BY <1>2, <1>8, <1>17
  <2>4. W = Kept
    BY <1>1, <1>9, <2>2, <2>3
  <2>5. Len(f) = rw /\ f \in Seq(W)
    BY <1>12, <1>13, <1>14, <1>15, <2>3, <2>4 DEF f
  <2>6. Len(Slice(f, 0, fl)) = fl
    <3>1. 0 + fl <= Len(f)
      BY <1>9, <2>5
    <3> QED BY <2>5, <3>1, SliceIs
  <2>7. p.more
    <3>1. fl > PageLimit
      BY <1>9, <1>10
    <3> QED BY <2>6, <3>1 DEF FromPeek
  <2>8. o + PageLimit <= Cardinality(T)
    BY <1>6, <1>7, <1>9, <1>10, <1>17
  <2> HIDE DEF p
  <2> QED BY <1>11, <2>7, <2>8 DEF T
<1> QED BY <1>16, <1>17

-----------------------------------------------------------------------------
(* What the requests leave to write.                                        *)
LEMMA RecentOne ==
    ASSUME NavShape, NEW n \in Node, NEW at
    PROVE  UpsertNode(n) \in Seq(NavWrite) /\ PendingRecent(UpsertNode(n), at)
<1>1. UpsertNode(n) = <<PutNode(n)>> \/ UpsertNode(n) = <<PutNode(n), Recent(n)>>
  BY DEF UpsertNode, SqliteUpsertNode, PostgresUpsertNode, RedisUpsertNode, NavShape
<1>2. PutNode(n).does = "node" /\ Recent(n).does = "recent" /\ Recent(n).node = n
  BY DEF Recent, PutNode
<1>3. PendingRecent(<<PutNode(n)>>, at)
  BY <1>2 DEF PendingRecent
<1>4. PendingRecent(<<PutNode(n), Recent(n)>>, at)
  BY <1>2 DEF PendingRecent
<1> QED BY <1>1, <1>3, <1>4, UpsertNodeIs

LEMMA RecentConcat ==
    ASSUME NEW s \in Seq(NavWrite), NEW t \in Seq(NavWrite), NEW at, PendingRecent(s, at), PendingRecent(t, at)
    PROVE  s \o t \in Seq(NavWrite) /\ PendingRecent(s \o t, at)
<1>1. PICK m \in Nat, n \in Nat :
         /\ s \o t \in Seq(NavWrite) /\ Len(s \o t) = m + n /\ Len(s) = m /\ Len(t) = n
         /\ \A k \in 1 .. m + n : (s \o t)[k] = IF k <= m THEN s[k] ELSE t[k - m]
  BY ConcatProperties, LenProperties
<1> DEFINE u == s \o t
<1>2. ASSUME NEW k \in 1 .. m + n, u[k].does = "recent"
      PROVE  \/ at[u[k].node.id] # NoNode
             \/ k # 1 /\ u[k - 1] = PutNode(u[k].node)
  <2>1. CASE k <= m
    <3>1. k \in 1 .. m /\ u[k] = s[k] /\ (k # 1 => u[k - 1] = s[k - 1])
      BY <1>1, <2>1
    <3> QED BY <1>1, <1>2, <3>1 DEF PendingRecent
  <2>2. CASE k > m
    <3>1. k - m \in 1 .. n /\ u[k] = t[k - m]
      BY <1>1, <2>2
    <3>2. k - m # 1 => k # 1 /\ u[k - 1] = t[(k - m) - 1]
      <4>1. k - m # 1 => k # 1 /\ k - 1 \in 1 .. m + n /\ ~(k - 1 <= m) /\ (k - 1) - m = (k - m) - 1
        BY <2>2
      <4> QED BY <1>1, <4>1
    <3>3. PICK q \in 1 .. n : q = k - m
      BY <3>1
    <3>4. \/ at[t[q].node.id] # NoNode
          \/ q # 1 /\ t[q - 1] = PutNode(t[q].node)
      BY <1>1, <1>2, <3>1, <3>3 DEF PendingRecent
    <3> QED BY <3>1, <3>2, <3>3, <3>4
  <2>3. k <= m \/ k > m
    OBVIOUS
  <2> QED BY <2>1, <2>2, <2>3
<1> QED BY <1>1, <1>2 DEF PendingRecent

(* Nodes are never deleted.                                                 *)
LEMMA RecentStays ==
    ASSUME NEW todo \in Seq(NavWrite), NEW at, NEW after, PendingRecent(todo, at),
           \A i \in Ids : at[i] # NoNode => after[i] # NoNode
    PROVE  PendingRecent(todo, after)
<1>1. \A k \in 1 .. Len(todo) : todo[k].does = "recent" => todo[k].node.id \in Ids
  <2>1. \A k \in 1 .. Len(todo) : todo[k] \in NavWrite
    BY ElementOfSeq
  <2> QED BY <2>1 DEF NavWrite, Node
<1> QED BY <1>1 DEF PendingRecent

(* The first write is made.                                                 *)
LEMMA RecentTail ==
    ASSUME NEW todo \in Seq(NavWrite), todo # <<>>, NEW at, NEW after, PendingRecent(todo, at),
           \A i \in Ids : at[i] # NoNode => after[i] # NoNode,
           todo[1].does = "node" => after[todo[1].node.id] # NoNode
    PROVE  PendingRecent(Tail(todo), after)
<1>1. PICK m \in Nat : /\ Len(todo) = m + 1 /\ Len(Tail(todo)) = m
                       /\ \A k \in 1 .. m : Tail(todo)[k] = todo[k + 1]
  BY HeadTailProperties, LenProperties
<1>2. PendingRecent(todo, after)
  BY RecentStays
<1> DEFINE u == Tail(todo)
<1>3. \A k \in 1 .. m : k + 1 \in 1 .. m + 1 /\ k + 1 # 1 /\ (k + 1) - 1 = k
                        /\ (k # 1 => k - 1 \in 1 .. m /\ u[k - 1] = todo[k])
  BY <1>1
<1>4. ASSUME NEW k \in 1 .. m, u[k].does = "recent"
      PROVE  \/ after[u[k].node.id] # NoNode
             \/ k # 1 /\ u[k - 1] = PutNode(u[k].node)
  <2>1. u[k] = todo[k + 1] /\ k + 1 \in 1 .. Len(todo)
    BY <1>1, <1>3
  <2>2. after[u[k].node.id] # NoNode \/ todo[k] = PutNode(u[k].node)
    BY <1>2, <1>3, <1>4, <2>1 DEF PendingRecent
  <2>3. \A n : PutNode(n).does = "node" /\ PutNode(n).node = n
    BY DEF PutNode
  <2>4. k = 1 /\ todo[k] = PutNode(u[k].node) => after[u[k].node.id] # NoNode
    BY <2>3
  <2> QED BY <1>3, <2>2, <2>4
<1> QED BY <1>1, <1>4 DEF PendingRecent

-----------------------------------------------------------------------------
(* The stores keep their parts together.                                    *)
LEMMA StartStore ==
    ASSUME NavInv, StoreInv, NEW b \in Brokers, NEW phase \in {"node", "sync", "tunnel"}, NEW todo \in Seq(NavWrite),
           PendingRecent(todo, nodes), phase = "tunnel" => \E t \in Ids \X Ids : Linking(todo, t),
           Start(b, phase, todo)
    PROVE  StoreInv'
<1>1. /\ nav' = [nav EXCEPT ![b] = [phase |-> phase, todo |-> todo]]
      /\ UNCHANGED <<navStore, nodes, recent, tunnels, ends, audit, linked>>
  BY DEF Start, Untouched
<1>2. \A c \in Brokers : (nav'[c].todo = todo /\ nav'[c].phase = phase) \/ nav'[c] = nav[c]
  BY <1>1 DEF NavInv, NavShape
<1>3. ASSUME NEW c \in Brokers
      PROVE  /\ PendingRecent(nav'[c].todo, nodes)
             /\ nav'[c].phase = "tunnel" => \E t \in Ids \X Ids : Linking(nav'[c].todo, t)
  BY <1>2 DEF StoreInv
<1> QED BY <1>1, <1>3 DEF StoreInv, Linking

LEMMA UpsertRequestStore ==
    ASSUME NavInv, StoreInv, NEW b \in Brokers, NEW i \in Ids, NEW kind \in NodeKinds, NEW label \in NodeLabels,
           NEW parent \in Ids \union {0}, UpsertNodeRequest(b, i, kind, label, parent)
    PROVE  StoreInv'
<1> DEFINE n == NewNode(i, kind, label, parent)
<1>1. Start(b, "node", Append(UpsertNode(n), RecordAudit)) /\ writes < MaxWrites
  BY DEF UpsertNodeRequest, Start
<1>2. n \in Node
  BY <1>1, NewNodeIs DEF NavInv
<1> HIDE DEF n
<1>3. UpsertNode(n) \in Seq(NavWrite) /\ PendingRecent(UpsertNode(n), nodes)
  BY <1>2, RecentOne DEF NavInv
<1>4. RecordAudit \in NavWrite /\ RecordAudit.does # "recent"
  BY DEF RecordAudit, NavWrite
<1>5. <<RecordAudit>> \in Seq(NavWrite) /\ PendingRecent(<<RecordAudit>>, nodes)
  BY <1>4 DEF PendingRecent
<1>6. Append(UpsertNode(n), RecordAudit) = UpsertNode(n) \o <<RecordAudit>>
  BY <1>3, <1>4, AppendIsConcat
<1>7. /\ UpsertNode(n) \o <<RecordAudit>> \in Seq(NavWrite)
      /\ PendingRecent(UpsertNode(n) \o <<RecordAudit>>, nodes)
  BY <1>3, <1>5, RecentConcat
<1> QED BY <1>1, <1>6, <1>7, StartStore

LEMMA SyncNodesStore ==
    ASSUME NavInv, StoreInv, NEW b \in Brokers, NEW label \in NodeLabels, NEW hall \in BOOLEAN, NEW room \in BOOLEAN,
           SyncNodes(b, label, hall, room)
    PROVE  StoreInv'
<1> DEFINE drawer == NewNode(1, "drawer", label, 0)
           closet == NewNode(2, "closet", label, 1)
           chamber == NewNode(3, "room", label, IF hall THEN 2 ELSE 1)
           first == UpsertNode(drawer)
           second == IF hall THEN UpsertNode(closet) ELSE <<>>
           third == IF room THEN UpsertNode(chamber) ELSE <<>>
<1>1. Start(b, "sync", first \o second \o third) /\ writes < MaxWrites
  BY DEF SyncNodes, Start
<1>2. drawer \in Node /\ closet \in Node /\ chamber \in Node
  BY <1>1, NewNodeIs, NavigationAssumption DEF NavInv, NodeKinds
<1> HIDE DEF drawer, closet, chamber
<1>3. <<>> \in Seq(NavWrite) /\ PendingRecent(<<>>, nodes)
  BY DEF PendingRecent
<1>4. /\ first \in Seq(NavWrite) /\ PendingRecent(first, nodes)
      /\ second \in Seq(NavWrite) /\ PendingRecent(second, nodes)
      /\ third \in Seq(NavWrite) /\ PendingRecent(third, nodes)
  BY <1>2, <1>3, RecentOne DEF NavInv
<1> HIDE DEF first, second, third
<1>5. first \o second \in Seq(NavWrite) /\ PendingRecent(first \o second, nodes)
  BY <1>4, RecentConcat
<1>6. (first \o second) \o third \in Seq(NavWrite) /\ PendingRecent((first \o second) \o third, nodes)
  BY <1>4, <1>5, RecentConcat
<1> QED BY <1>1, <1>6, StartStore

LEMMA LinkTunnelStore ==
    ASSUME NavInv, StoreInv, NEW b \in Brokers, NEW i \in Ids, NEW j \in Ids, LinkTunnel(b, i, j)
    PROVE  StoreInv'
<1>1. PICK t \in Ids \X Ids : Start(b, "tunnel", UpsertTunnel(t))
  BY DEF LinkTunnel
<1>2. /\ PutTunnel(t) \in NavWrite /\ AddEnd(t[1], t) \in NavWrite /\ AddEnd(t[2], t) \in NavWrite
      /\ PutTunnel(t).does = "tunnel" /\ AddEnd(t[1], t).does = "end" /\ AddEnd(t[2], t).does = "end"
  BY DEF PutTunnel, AddEnd, NavWrite
<1>3. \/ navStore # "redis" /\ UpsertTunnel(t) = <<PutTunnel(t)>>
      \/ navStore = "redis" /\ UpsertTunnel(t) = <<PutTunnel(t), AddEnd(t[1], t), AddEnd(t[2], t)>>
  BY DEF UpsertTunnel, SqliteUpsertTunnel, PostgresUpsertTunnel, RedisUpsertTunnel, NavInv, NavShape
<1>4. Linking(UpsertTunnel(t), t)
  BY <1>3 DEF Linking
<1>5. UpsertTunnel(t) \in Seq(NavWrite) /\ PendingRecent(UpsertTunnel(t), nodes)
  <2>1. CASE UpsertTunnel(t) = <<PutTunnel(t)>>
    BY <1>2, <2>1 DEF PendingRecent
  <2>2. CASE UpsertTunnel(t) = <<PutTunnel(t), AddEnd(t[1], t), AddEnd(t[2], t)>>
    <3>1. UpsertTunnel(t) \in Seq(NavWrite)
      BY <1>2, <2>2
    <3>2. \A k \in 1 .. Len(UpsertTunnel(t)) : UpsertTunnel(t)[k].does # "recent"
      BY <1>2, <2>2
    <3> QED BY <3>1, <3>2 DEF PendingRecent
  <2> QED BY <1>3, <2>1, <2>2
<1> QED BY <1>1, <1>4, <1>5, StartStore

(* What a write changes.                                                    *)
LEMMA WriteDoes ==
    ASSUME NavInv, NEW b \in Brokers, ExecuteWrite(b)
    PROVE  \E w \in NavWrite :
           /\ nav[b].todo # <<>> /\ w = nav[b].todo[1] /\ w = Head(nav[b].todo)
           /\ nodes' = IF w.does = "node" THEN [nodes EXCEPT ![w.node.id] = w.node] ELSE nodes
           /\ recent' = IF w.does = "recent" THEN [recent EXCEPT ![w.node.id] = w.node.at] ELSE recent
           /\ tunnels' = IF w.does = "tunnel" THEN tunnels \union {w.tunnel} ELSE tunnels
           /\ ends' = IF w.does = "end" THEN [ends EXCEPT ![w.at] = @ \union {w.tunnel}] ELSE ends
           /\ audit' = IF w.does = "audit" THEN audit + 1 ELSE audit
           /\ walk' = IF walk.phase # "walking" \/ w.does \notin {"node", "recent"} THEN walk
                      ELSE [walk EXCEPT !.touched = @ \union {w.node.id}, !.moved = @ \/ Moves(w)]
           /\ linked' = IF Len(nav[b].todo) = 1 /\ nav[b].phase = "tunnel" THEN linked \union {w.tunnel} ELSE linked
           /\ \/ Len(nav[b].todo) = 1 /\ nav' = [nav EXCEPT ![b] = Free]
              \/ Len(nav[b].todo) # 1 /\ nav' = [nav EXCEPT ![b].todo = Tail(nav[b].todo)]
           /\ navStore' = navStore
           /\ w.does \in {"node", "recent"} => w.node \in Node /\ w.node.id \in Ids /\ w.node # NoNode /\ w.node.at \in Nat
           /\ w.does \in {"tunnel", "end"} => w.tunnel \in Ids \X Ids
           /\ w.does = "end" => w.at \in Ids /\ w.at \in {w.tunnel[1], w.tunnel[2]}
<1> DEFINE todo == nav[b].todo
<1>1. todo \in Seq(NavWrite) /\ todo # <<>>
  BY DEF ExecuteWrite, NavInv, NavShape
<1>2. PICK w \in NavWrite : w = Head(todo) /\ w = todo[1]
  BY <1>1, HeadTailProperties, LenProperties, ElementOfSeq
<1>3. /\ w.does \in {"node", "recent"} => w.node \in Node
      /\ w.does \in {"tunnel", "end"} => w.tunnel \in Ids \X Ids
      /\ w.does = "end" => w.at \in Ids /\ w.at \in {w.tunnel[1], w.tunnel[2]}
  BY DEF NavWrite
<1>4. w.node \in Node => w.node.id \in Ids /\ w.node # NoNode /\ w.node.at \in Nat
  BY NoNodeAssumption, NavigationAssumption DEF Node
<1>5. nav' = IF Len(todo) = 1 THEN [nav EXCEPT ![b] = Free] ELSE [nav EXCEPT ![b].todo = Tail(@)]
  BY DEF ExecuteWrite
<1>6. \/ Len(nav[b].todo) = 1 /\ nav' = [nav EXCEPT ![b] = Free]
      \/ Len(nav[b].todo) # 1 /\ nav' = [nav EXCEPT ![b].todo = Tail(nav[b].todo)]
  BY <1>5
<1>7. /\ nodes' = IF w.does = "node" THEN [nodes EXCEPT ![w.node.id] = w.node] ELSE nodes
      /\ recent' = IF w.does = "recent" THEN [recent EXCEPT ![w.node.id] = w.node.at] ELSE recent
      /\ tunnels' = IF w.does = "tunnel" THEN tunnels \union {w.tunnel} ELSE tunnels
      /\ ends' = IF w.does = "end" THEN [ends EXCEPT ![w.at] = @ \union {w.tunnel}] ELSE ends
      /\ audit' = IF w.does = "audit" THEN audit + 1 ELSE audit
      /\ walk' = IF walk.phase # "walking" \/ w.does \notin {"node", "recent"} THEN walk
                 ELSE [walk EXCEPT !.touched = @ \union {w.node.id}, !.moved = @ \/ Moves(w)]
      /\ linked' = IF Len(todo) = 1 /\ nav[b].phase = "tunnel" THEN linked \union {w.tunnel} ELSE linked
      /\ navStore' = navStore
  BY <1>2 DEF ExecuteWrite
<1> QED BY <1>1, <1>2, <1>3, <1>4, <1>6, <1>7

(* What a tunnel needs is written in order: the tunnel, then its ends.      *)
LEMMA LinkingGoesOn ==
    ASSUME NavInv, StoreInv, NEW b \in Brokers, ExecuteWrite(b), NEW t \in Ids \X Ids, Linking(nav[b].todo, t)
    PROVE  /\ Len(nav[b].todo) # 1 => Linking(nav[b].todo, t)'
           /\ Len(nav[b].todo) = 1 => /\ nav[b].todo[1].tunnel = t /\ t \in tunnels'
                                      /\ navStore = "redis" => t \in ends'[t[1]] /\ t \in ends'[t[2]]
<1>1. PICK w \in NavWrite :
        /\ w = nav[b].todo[1]
        /\ tunnels' = IF w.does = "tunnel" THEN tunnels \union {w.tunnel} ELSE tunnels
        /\ ends' = IF w.does = "end" THEN [ends EXCEPT ![w.at] = @ \union {w.tunnel}] ELSE ends
        /\ navStore' = navStore
        /\ \/ Len(nav[b].todo) = 1 /\ nav' = [nav EXCEPT ![b] = Free]
           \/ Len(nav[b].todo) # 1 /\ nav' = [nav EXCEPT ![b].todo = Tail(nav[b].todo)]
  BY WriteDoes
<1>2. /\ t[1] \in Ids /\ t[2] \in Ids /\ ends \in [Ids -> SUBSET (Ids \X Ids)]
      /\ PutTunnel(t).does = "tunnel" /\ PutTunnel(t).tunnel = t
      /\ \A i : AddEnd(i, t).does = "end" /\ AddEnd(i, t).tunnel = t /\ AddEnd(i, t).at = i
  BY DEF PutTunnel, AddEnd, StoreInv
<1> DEFINE todo == nav[b].todo
           left == nav'[b].todo
<1>3. Len(todo) # 1 => left = Tail(todo)
  BY <1>1 DEF NavInv, NavShape
<1>4. Linking(nav[b].todo, t)' <=>
        \/ navStore' # "redis" /\ left = <<PutTunnel(t)>>
        \/ navStore' = "redis" /\ left = <<PutTunnel(t), AddEnd(t[1], t), AddEnd(t[2], t)>>
        \/ navStore' = "redis" /\ left = <<AddEnd(t[1], t), AddEnd(t[2], t)>> /\ t \in tunnels'
        \/ navStore' = "redis" /\ left = <<AddEnd(t[2], t)>> /\ t \in tunnels' /\ t \in ends'[t[1]]
  BY DEF Linking, PutTunnel, AddEnd
<1>5. \/ navStore # "redis" /\ todo = <<PutTunnel(t)>>
      \/ navStore = "redis" /\ todo = <<PutTunnel(t), AddEnd(t[1], t), AddEnd(t[2], t)>>
      \/ navStore = "redis" /\ todo = <<AddEnd(t[1], t), AddEnd(t[2], t)>> /\ t \in tunnels
      \/ navStore = "redis" /\ todo = <<AddEnd(t[2], t)>> /\ t \in tunnels /\ t \in ends[t[1]]
  BY DEF Linking
<1>6. w = todo[1]
  BY <1>1
<1> HIDE DEF todo, left
<1> DEFINE done == /\ todo[1].tunnel = t /\ t \in tunnels'
                   /\ navStore = "redis" => t \in ends'[t[1]] /\ t \in ends'[t[2]]
<1> SUFFICES (Len(todo) # 1 => Linking(nav[b].todo, t)') /\ (Len(todo) = 1 => done)
  BY DEF todo
<1>7. CASE navStore # "redis" /\ todo = <<PutTunnel(t)>>
  BY <1>1, <1>2, <1>6, <1>7
<1>8. CASE navStore = "redis" /\ todo = <<PutTunnel(t), AddEnd(t[1], t), AddEnd(t[2], t)>>
  <2>1. Len(todo) = 3 /\ Tail(todo) = <<AddEnd(t[1], t), AddEnd(t[2], t)>> /\ w = PutTunnel(t)
    BY <1>6, <1>8
  <2>2. t \in tunnels'
    BY <1>1, <1>2, <2>1
  <2> QED BY <1>1, <1>3, <1>4, <1>8, <2>1, <2>2
<1>9. CASE navStore = "redis" /\ todo = <<AddEnd(t[1], t), AddEnd(t[2], t)>> /\ t \in tunnels
  <2>1. Len(todo) = 2 /\ Tail(todo) = <<AddEnd(t[2], t)>> /\ w = AddEnd(t[1], t)
    BY <1>6, <1>9
  <2>2. t \in tunnels' /\ t \in ends'[t[1]]
    BY <1>1, <1>2, <1>9, <2>1
  <2> QED BY <1>1, <1>3, <1>4, <1>9, <2>1, <2>2
<1>10. CASE navStore = "redis" /\ todo = <<AddEnd(t[2], t)>> /\ t \in tunnels /\ t \in ends[t[1]]
  <2>1. Len(todo) = 1 /\ w = AddEnd(t[2], t)
    BY <1>6, <1>10
  <2>2. t \in tunnels' /\ t \in ends'[t[1]] /\ t \in ends'[t[2]]
    BY <1>1, <1>2, <1>10, <2>1
  <2> QED BY <1>2, <1>6, <2>1, <2>2
<1> QED BY <1>5, <1>7, <1>8, <1>9, <1>10

LEMMA ExecuteStore ==
    ASSUME NavInv, StoreInv, NEW b \in Brokers, ExecuteWrite(b)
    PROVE  StoreInv'
<1> DEFINE todo == nav[b].todo
<1>1. PICK w \in NavWrite :
        /\ todo # <<>> /\ w = todo[1]
        /\ nodes' = IF w.does = "node" THEN [nodes EXCEPT ![w.node.id] = w.node] ELSE nodes
        /\ recent' = IF w.does = "recent" THEN [recent EXCEPT ![w.node.id] = w.node.at] ELSE recent
        /\ tunnels' = IF w.does = "tunnel" THEN tunnels \union {w.tunnel} ELSE tunnels
        /\ ends' = IF w.does = "end" THEN [ends EXCEPT ![w.at] = @ \union {w.tunnel}] ELSE ends
        /\ audit' = IF w.does = "audit" THEN audit + 1 ELSE audit
        /\ linked' = IF Len(todo) = 1 /\ nav[b].phase = "tunnel" THEN linked \union {w.tunnel} ELSE linked
        /\ \/ Len(todo) = 1 /\ nav' = [nav EXCEPT ![b] = Free]
           \/ Len(todo) # 1 /\ nav' = [nav EXCEPT ![b].todo = Tail(todo)]
        /\ navStore' = navStore
        /\ w.does \in {"node", "recent"} => w.node \in Node /\ w.node.id \in Ids /\ w.node # NoNode /\ w.node.at \in Nat
        /\ w.does \in {"tunnel", "end"} => w.tunnel \in Ids \X Ids
        /\ w.does = "end" => w.at \in Ids /\ w.at \in {w.tunnel[1], w.tunnel[2]}
  BY WriteDoes
<1>2. /\ recent \in [Ids -> Nat] /\ tunnels \subseteq Ids \X Ids /\ ends \in [Ids -> SUBSET (Ids \X Ids)]
      /\ audit \in Nat /\ nodes \in [Ids -> Node \union {NoNode}]
  BY DEF StoreInv, NavInv, NavShape
<1>3. recent' \in [Ids -> Nat] /\ tunnels' \subseteq Ids \X Ids /\ ends' \in [Ids -> SUBSET (Ids \X Ids)] /\ audit' \in Nat
  BY <1>1, <1>2
<1>4. \A i \in Ids : nodes[i] # NoNode => nodes'[i] # NoNode
  BY <1>1, <1>2
<1>5. \A i \in Ids : nodes'[i] # NoNode => nodes'[i].id = i
  BY <1>1, <1>2 DEF StoreInv
<1>6. w.does = "recent" => nodes[w.node.id] # NoNode
  <2>1. PendingRecent(todo, nodes) /\ 1 \in 1 .. Len(todo)
    <3>1. todo \in Seq(NavWrite) /\ todo # <<>>
      BY <1>1 DEF NavInv, NavShape
    <3> QED BY <3>1, LenProperties DEF StoreInv
  <2> QED BY <1>1, <2>1 DEF PendingRecent
<1>7. \A i \in Ids : recent'[i] # 0 => nodes'[i] # NoNode
  BY <1>1, <1>2, <1>4, <1>6 DEF StoreInv
<1>8. tunnels \subseteq tunnels' /\ \A i \in Ids : ends[i] \subseteq ends'[i]
  BY <1>1, <1>2
<1>9. Len(todo) = 1 /\ nav[b].phase = "tunnel" =>
         /\ w.tunnel \in Ids \X Ids /\ w.tunnel \in tunnels'
         /\ navStore = "redis" => w.tunnel \in ends'[w.tunnel[1]] /\ w.tunnel \in ends'[w.tunnel[2]]
  <2> SUFFICES ASSUME Len(todo) = 1, nav[b].phase = "tunnel"
               PROVE  /\ w.tunnel \in Ids \X Ids /\ w.tunnel \in tunnels'
                      /\ navStore = "redis" => w.tunnel \in ends'[w.tunnel[1]] /\ w.tunnel \in ends'[w.tunnel[2]]
    OBVIOUS
  <2>1. PICK t \in Ids \X Ids : Linking(todo, t)
    BY DEF StoreInv
  <2>2. todo[1].tunnel = t /\ t \in tunnels' /\ (navStore = "redis" => t \in ends'[t[1]] /\ t \in ends'[t[2]])
    BY <2>1, LinkingGoesOn
  <2> QED BY <1>1, <2>2
<1>10. linked' \subseteq tunnels'
  BY <1>1, <1>8, <1>9 DEF StoreInv
<1>11. navStore' = "redis" => \A t \in linked' : t \in ends'[t[1]] /\ t \in ends'[t[2]]
  <2> SUFFICES ASSUME navStore = "redis", NEW t \in linked' PROVE t \in ends'[t[1]] /\ t \in ends'[t[2]]
    BY <1>1
  <2>1. CASE t \in linked
    <3>1. t \in Ids \X Ids /\ t[1] \in Ids /\ t[2] \in Ids
      BY <1>2, <2>1 DEF StoreInv
    <3> QED BY <1>8, <2>1, <3>1 DEF StoreInv
  <2>2. CASE t \notin linked
    BY <1>1, <1>9, <2>2
  <2> QED BY <2>1, <2>2
<1>12. ASSUME NEW c \in Brokers
       PROVE  /\ PendingRecent(nav'[c].todo, nodes')
              /\ nav'[c].phase = "tunnel" => \E t \in Ids \X Ids : Linking(nav[c].todo, t)'
  <2>1. CASE c # b
    <3>1. nav'[c] = nav[c]
      BY <1>1, <2>1 DEF NavInv, NavShape
    <3>2. nav[c].todo \in Seq(NavWrite) /\ PendingRecent(nav[c].todo, nodes)
      BY DEF NavInv, NavShape, StoreInv
    <3>3. PendingRecent(nav[c].todo, nodes')
      BY <1>4, <3>2, RecentStays
    <3>4. \A t \in Ids \X Ids : Linking(nav[c].todo, t) => Linking(nav[c].todo, t)'
      <4>1. \A t \in Ids \X Ids : t[1] \in Ids /\ t[2] \in Ids
        OBVIOUS
      <4> QED BY <1>1, <1>8, <3>1, <4>1 DEF Linking, PutTunnel, AddEnd
    <3>5. nav[c].phase = "tunnel" => \E t \in Ids \X Ids : Linking(nav[c].todo, t)
      BY DEF StoreInv
    <3> QED BY <3>1, <3>3, <3>4, <3>5
  <2>2. CASE c = b /\ Len(todo) = 1
    <3>1. nav'[c] = Free
      BY <1>1, <2>2 DEF NavInv, NavShape
    <3> QED BY <3>1 DEF Free, PendingRecent
  <2>3. CASE c = b /\ Len(todo) # 1
    <3>1. nav'[b].todo = Tail(todo) /\ nav'[b].phase = nav[b].phase
      BY <1>1, <2>3 DEF NavInv, NavShape
    <3>2. PendingRecent(Tail(todo), nodes')
      <4>1. todo \in Seq(NavWrite) /\ todo # <<>> /\ PendingRecent(todo, nodes)
        BY <1>1 DEF NavInv, NavShape, StoreInv
      <4>2. todo[1].does = "node" => nodes'[todo[1].node.id] # NoNode
        BY <1>1, <1>2
      <4> HIDE DEF todo
      <4> QED BY <1>4, <4>1, <4>2, RecentTail
    <3>3. nav[b].phase = "tunnel" => \E t \in Ids \X Ids : Linking(nav[b].todo, t)'
      <4>1. nav[b].phase = "tunnel" => \E t \in Ids \X Ids : Linking(nav[b].todo, t)
        BY DEF StoreInv
      <4> QED BY <2>3, <4>1, LinkingGoesOn
    <3> QED BY <2>3, <3>1, <3>2, <3>3
  <2> QED BY <2>1, <2>2, <2>3
<1>13. \A i \in Ids : \A t \in ends'[i] : i \in {t[1], t[2]}
  <2>1. \A i \in Ids : \A t \in ends'[i] : t \in ends[i] \/ (w.does = "end" /\ i = w.at /\ t = w.tunnel)
    BY <1>1, <1>2
  <2> QED BY <1>1, <2>1 DEF StoreInv
<1> QED BY <1>3, <1>5, <1>7, <1>10, <1>11, <1>12, <1>13 DEF StoreInv

LEMMA FailsStore ==
    ASSUME NavInv, StoreInv, NEW b \in Brokers, WriteFails(b)
    PROVE  StoreInv'
<1>1. nav' = [nav EXCEPT ![b] = Free] /\ UNCHANGED <<navStore, nodes, recent, tunnels, ends, audit, linked>>
  BY DEF WriteFails, Untouched
<1>2. ASSUME NEW c \in Brokers
      PROVE  /\ PendingRecent(nav'[c].todo, nodes)
             /\ nav'[c].phase = "tunnel" => \E t \in Ids \X Ids : Linking(nav'[c].todo, t)
  <2>1. nav'[c] = Free \/ nav'[c] = nav[c]
    BY <1>1 DEF NavInv, NavShape
  <2>2. CASE nav'[c] = Free
    BY <2>2 DEF Free, PendingRecent
  <2>3. CASE nav'[c] = nav[c]
    BY <2>3 DEF StoreInv
  <2> QED BY <2>1, <2>2, <2>3
<1> QED BY <1>1, <1>2 DEF StoreInv, Linking

LEMMA StoreInit == NavInit => PagesInv
<1> SUFFICES ASSUME NavInit PROVE PagesInv
  OBVIOUS
<1>1. /\ nodes = [i \in Ids |-> NoNode] /\ recent = [i \in Ids |-> 0]
      /\ tunnels = {} /\ ends = [i \in Ids |-> {}] /\ audit = 0
      /\ nav = [b \in Brokers |-> Free] /\ linked = {} /\ walk = NoWalk
  BY DEF NavInit
<1>2. \A b \in Brokers : nav[b].todo = <<>> /\ nav[b].phase = "free"
  BY <1>1 DEF Free
<1>3. StoreInv
  BY <1>1, <1>2 DEF StoreInv, PendingRecent
<1> QED BY <1>1, <1>3 DEF PagesInv, WalkShape, WalkInv

-----------------------------------------------------------------------------
(* What a reader still waits for.                                           *)
LEMMA EarlierIs ==
    ASSUME NavInv, StoreInv, NEW i, OnTheList(i)
    PROVE  IsFiniteSet(Earlier(i)) /\ Cardinality(Earlier(i)) \in Nat
<1>1. CASE walk.list = "audit"
  <2>1. i + 1 \in Int /\ audit \in Int
    BY <1>1 DEF OnTheList, StoreInv
  <2> QED BY <1>1, <2>1, FS_Interval, FS_CardinalityType DEF Earlier
<1>2. CASE walk.list # "audit"
  <2>1. Earlier(i) \in SUBSET Ids /\ IsFiniteSet(Ids)
    BY <1>2, NavigationAssumption DEF Earlier, Present
  <2> QED BY <2>1, FS_Subset, FS_CardinalityType
<1> QED BY <1>1, <1>2

LEMMA EarlierAfter ==
    ASSUME StoreInv', NEW i, OnTheList(i)'
    PROVE  IsFiniteSet(Earlier(i)') /\ Cardinality(Earlier(i)') \in Nat
<1>1. CASE walk'.list = "audit"
  <2>1. i + 1 \in Int /\ audit' \in Int /\ Earlier(i)' = i + 1 .. audit'
    BY <1>1 DEF OnTheList, StoreInv, Earlier
  <2> QED BY <2>1, FS_Interval, FS_CardinalityType
<1>2. CASE walk'.list # "audit"
  <2>1. Earlier(i)' \in SUBSET Ids /\ IsFiniteSet(Ids)
    BY <1>2, NavigationAssumption DEF Earlier, Present
  <2> QED BY <2>1, FS_Subset, FS_CardinalityType
<1> QED BY <1>1, <1>2

LEMMA WriteListed ==
    ASSUME NavInv, StoreInv, NEW b \in Brokers, ExecuteWrite(b), walk'.list = walk.list,
           NEW i, OnTheList(i), NEW x, x = nav[b].todo[1],
           walk.list # "audit" /\ x.does \in {"node", "recent"} => x.node.id # i
    PROVE  OnTheList(i)' /\ (walk.list # "audit" => nodes'[i] = nodes[i] /\ recent'[i] = recent[i])
<1>1. PICK w \in NavWrite :
        /\ w = x
        /\ nodes' = IF w.does = "node" THEN [nodes EXCEPT ![w.node.id] = w.node] ELSE nodes
        /\ recent' = IF w.does = "recent" THEN [recent EXCEPT ![w.node.id] = w.node.at] ELSE recent
        /\ audit' = IF w.does = "audit" THEN audit + 1 ELSE audit
        /\ navStore' = navStore
        /\ w.does \in {"node", "recent"} => w.node \in Node /\ w.node.id \in Ids /\ w.node # NoNode /\ w.node.at \in Nat
  BY WriteDoes
<1>2. recent \in [Ids -> Nat] /\ audit \in Nat /\ nodes \in [Ids -> Node \union {NoNode}]
  BY DEF StoreInv, NavInv, NavShape
<1>3. CASE walk.list = "audit"
  BY <1>1, <1>2, <1>3 DEF OnTheList
<1>4. CASE walk.list # "audit"
  <2>1. /\ i \in Ids /\ nodes[i] # NoNode /\ Wants(walk.list, nodes[i]) /\ (navStore = "redis" => recent[i] # 0)
        /\ nodes'[i] = nodes[i] /\ recent'[i] = recent[i]
    BY <1>1, <1>2, <1>4 DEF OnTheList
  <2> QED BY <1>1, <1>4, <2>1 DEF OnTheList, Wants
<1> QED BY <1>3, <1>4

(* Rows are only added, and each write moves what it writes, or nothing.    *)
LEMMA WriteKeeps ==
    ASSUME NavInv, StoreInv, NEW b \in Brokers, ExecuteWrite(b), walk'.list = walk.list,
           NEW i, OnTheList(i), NEW x, x = nav[b].todo[1],
           walk.list # "audit" /\ x.does \in {"node", "recent"} => ~Moves(x) /\ x.node.id # i
    PROVE  Earlier(i) \subseteq Earlier(i)'
<1>1. PICK w \in NavWrite :
        /\ w = x
        /\ nodes' = IF w.does = "node" THEN [nodes EXCEPT ![w.node.id] = w.node] ELSE nodes
        /\ recent' = IF w.does = "recent" THEN [recent EXCEPT ![w.node.id] = w.node.at] ELSE recent
        /\ audit' = IF w.does = "audit" THEN audit + 1 ELSE audit
        /\ navStore' = navStore
        /\ w.does \in {"node", "recent"} => w.node \in Node /\ w.node.id \in Ids /\ w.node # NoNode /\ w.node.at \in Nat
  BY WriteDoes
<1>2. recent \in [Ids -> Nat] /\ audit \in Nat /\ nodes \in [Ids -> Node \union {NoNode}] /\ Ids \subseteq Int
  BY NavigationAssumption DEF StoreInv, NavInv, NavShape
<1>3. CASE walk.list = "audit"
  <2>1. i \in 1 .. audit /\ audit' \in Nat /\ audit <= audit'
    BY <1>1, <1>2, <1>3 DEF OnTheList
  <2>2. Earlier(i) = i + 1 .. audit /\ Earlier(i)' = i + 1 .. audit'
    BY <1>3 DEF Earlier
  <2> QED BY <1>2, <2>1, <2>2
<1>4. CASE walk.list # "audit"
  <2>1. /\ i \in Ids /\ nodes[i] # NoNode /\ (navStore = "redis" => recent[i] # 0)
        /\ nodes'[i] = nodes[i] /\ recent'[i] = recent[i]
    BY <1>4, WriteListed DEF OnTheList
  <2>2. CASE navStore = "redis"
    <3>1. \A j \in Ids : recent[j] # 0 => recent'[j] # 0 /\ recent'[j] >= recent[j]
      <4>1. CASE w.does = "recent"
        <5>1. ~(recent[w.node.id] > w.node.at)
          BY <1>1, <1>4, <2>2, <4>1 DEF Moves
        <5> QED BY <1>1, <1>2, <4>1, <5>1
      <4>2. CASE w.does # "recent"
        BY <1>1, <1>2, <4>2
      <4> QED BY <4>1, <4>2
    <3>2. \A j \in Ids : recent[j] \in Int /\ recent'[j] \in Int /\ j \in Int
      BY <1>1, <1>2
    <3>3. Earlier(i) = {j \in Ids : recent[j] # 0 /\ (recent[j] > recent[i] \/ (recent[j] = recent[i] /\ j > i))}
      BY <1>4, <2>2 DEF Earlier, Later
    <3>4. Earlier(i)' = {j \in Ids : recent'[j] # 0 /\ (recent'[j] > recent'[i] \/ (recent'[j] = recent'[i] /\ j > i))}
      BY <1>1, <1>4, <2>2 DEF Earlier, Later
    <3> QED BY <2>1, <3>1, <3>2, <3>3, <3>4
  <2>3. CASE navStore # "redis"
    <3>1. \A j \in Ids : nodes[j] # NoNode =>
            nodes'[j] # NoNode /\ nodes'[j].kind = nodes[j].kind /\ nodes'[j].label = nodes[j].label
                               /\ nodes'[j].id = nodes[j].id
      <4>1. CASE w.does = "node"
        <5>1. \/ nodes[w.node.id] = NoNode
              \/ nodes[w.node.id].kind = w.node.kind /\ nodes[w.node.id].label = w.node.label
          BY <1>1, <1>4, <2>3, <4>1 DEF Moves
        <5> QED BY <1>1, <1>2, <4>1, <5>1 DEF StoreInv
      <4>2. CASE w.does # "node"
        BY <1>1, <1>2, <4>2
      <4> QED BY <4>1, <4>2
    <3>2. Earlier(i) = {j \in Present : Wants(walk.list, nodes[j]) /\ Before(nodes[j], nodes[i])}
      BY <1>4, <2>3 DEF Earlier
    <3>3. Earlier(i)' = {j \in Present' : Wants(walk.list, nodes'[j]) /\ Before(nodes'[j], nodes'[i])}
      BY <1>1, <1>4, <2>3 DEF Earlier, Wants, Before
    <3>4. ASSUME NEW j \in Present, Wants(walk.list, nodes[j]), Before(nodes[j], nodes[i])
          PROVE  j \in Present' /\ Wants(walk.list, nodes'[j]) /\ Before(nodes'[j], nodes'[i])
      <4>1. j \in Ids /\ nodes[j] # NoNode
        BY DEF Present
      <4>2. /\ nodes'[j] # NoNode /\ nodes'[j].kind = nodes[j].kind /\ nodes'[j].label = nodes[j].label
            /\ nodes'[j].id = nodes[j].id
        BY <3>1, <4>1
      <4> QED BY <2>1, <3>4, <4>1, <4>2 DEF Present, Wants, Before
    <3> QED BY <3>2, <3>3, <3>4
  <2> QED BY <2>2, <2>3
<1> QED BY <1>3, <1>4

LEMMA WriteWalk ==
    ASSUME NavInv, PagesInv, NEW b \in Brokers, ExecuteWrite(b), NavInv', StoreInv'
    PROVE  WalkShape' /\ WalkInv'
<1>1. PICK w \in NavWrite :
        /\ w = nav[b].todo[1]
        /\ nodes' = IF w.does = "node" THEN [nodes EXCEPT ![w.node.id] = w.node] ELSE nodes
        /\ walk' = IF walk.phase # "walking" \/ w.does \notin {"node", "recent"} THEN walk
                   ELSE [walk EXCEPT !.touched = @ \union {w.node.id}, !.moved = @ \/ Moves(w)]
        /\ linked' = IF Len(nav[b].todo) = 1 /\ nav[b].phase = "tunnel" THEN linked \union {w.tunnel} ELSE linked
        /\ navStore' = navStore
        /\ w.does \in {"node", "recent"} => w.node \in Node /\ w.node.id \in Ids /\ w.node # NoNode
  BY WriteDoes
<1>2. CASE walk = NoWalk
  <2>1. walk' = NoWalk
    BY <1>1, <1>2 DEF NoWalk
  <2> QED BY <2>1 DEF WalkShape, WalkInv
<1>3. CASE walk # NoWalk
  <2>1. walk \in [phase: {"walking", "done"}, list: Lists, offset: Nat, got: SUBSET Int, old: SUBSET Int,
                  touched: SUBSET Ids, moved: BOOLEAN, linked: SUBSET linked, shown: SUBSET (Ids \X Ids),
                  cut: BOOLEAN]
    BY <1>3 DEF PagesInv, WalkShape
  <2>2. linked \subseteq linked' /\ Moves(w) \in BOOLEAN
    BY <1>1 DEF Moves
  <2>3. /\ walk'.phase = walk.phase /\ walk'.list = walk.list /\ walk'.offset = walk.offset /\ walk'.got = walk.got
        /\ walk'.old = walk.old /\ walk'.linked = walk.linked /\ walk'.shown = walk.shown /\ walk'.cut = walk.cut
        /\ walk.touched \subseteq walk'.touched /\ (walk.moved => walk'.moved)
    BY <1>1, <2>1
  <2>4. WalkShape'
    <3>1. CASE walk.phase # "walking" \/ w.does \notin {"node", "recent"}
      <4>1. walk' = walk
        BY <1>1, <3>1
      <4> QED BY <2>1, <2>2, <4>1 DEF WalkShape
    <3>2. CASE walk.phase = "walking" /\ w.does \in {"node", "recent"}
      <4>1. walk' = [walk EXCEPT !.touched = walk.touched \union {w.node.id}, !.moved = walk.moved \/ Moves(w)]
        BY <1>1, <3>2
      <4>2. walk.touched \union {w.node.id} \in SUBSET Ids /\ (walk.moved \/ Moves(w)) \in BOOLEAN
        BY <1>1, <2>1, <2>2, <3>2
      <4>4. walk' \in [phase: {"walking", "done"}, list: Lists, offset: Nat, got: SUBSET Int, old: SUBSET Int,
                       touched: SUBSET Ids, moved: BOOLEAN, linked: SUBSET linked, shown: SUBSET (Ids \X Ids),
                       cut: BOOLEAN]
        BY <2>1, <4>1, <4>2
      <4> QED BY <2>2, <4>4 DEF WalkShape
    <3> QED BY <3>1, <3>2
  <2>5. Excused => Excused'
    <3>1. Present \subseteq Present' /\ IsFiniteSet(Present')
      BY <1>1, KeptAre, NavigationAssumption, FS_Subset DEF Present, NavInv, NavShape
    <3>2. Cardinality(Present) <= Cardinality(Present') /\ Cardinality(Present) \in Nat /\ Cardinality(Present') \in Nat
      BY <3>1, FS_Subset, FS_CardinalityType
    <3>3. RawWindow \in Nat /\ RawWindow' = RawWindow
      BY WindowIs DEF RawWindow, FetchLimit
    <3>4. CASE walk.list # "audit" /\ walk.moved
      BY <2>3, <3>4 DEF Excused
    <3>5. CASE walk.list \in NodeKinds /\ navStore = "redis" /\ Cardinality(Present) > RawWindow
      <4>1. Cardinality(Present') > RawWindow
        BY <3>2, <3>3, <3>5
      <4> QED BY <1>1, <2>3, <3>3, <3>5, <4>1 DEF Excused
    <3> QED BY <3>4, <3>5 DEF Excused
  <2>6. Untold' \subseteq Untold
    BY <2>3 DEF Untold
  <2>7. walk'.list = "audit" \/ (walk'.list = "nodes" /\ navStore' = "redis") \/ walk'.cut
        \/ {t \in walk'.linked : {t[1], t[2]} \intersect walk'.got # {}} \subseteq walk'.shown
    BY <1>1, <1>3, <2>3 DEF PagesInv, WalkInv
  <2>8. CASE walk.phase = "done"
    <3>1. ~Excused' => Untold' = {}
      BY <1>3, <2>5, <2>6, <2>8 DEF PagesInv, WalkInv
    <3> QED BY <2>3, <2>4, <2>7, <2>8, <3>1 DEF WalkInv
  <2>9. CASE walk.phase = "walking"
    <3>1. ASSUME NEW i \in Untold'
          PROVE  OnTheList(i)' /\ (~Excused' => walk'.offset <= Cardinality(Earlier(i)'))
      <4>1. OnTheList(i) /\ (~Excused => walk.offset <= Cardinality(Earlier(i))) /\ StoreInv
        BY <1>3, <2>6, <2>9 DEF PagesInv, WalkInv
      <4>2. walk.list # "audit" /\ w.does \in {"node", "recent"} => w.node.id # i
        BY <1>1, <2>1, <2>3, <2>9 DEF Untold
      <4>3. OnTheList(i)'
        BY <1>1, <2>3, <4>1, <4>2, WriteListed
      <4>4. CASE walk.list # "audit" /\ w.does \in {"node", "recent"} /\ Moves(w)
        <5>1. Excused'
          BY <1>1, <2>1, <2>3, <2>9, <4>4 DEF Excused
        <5> QED BY <4>3, <5>1
      <4>5. CASE ~(walk.list # "audit" /\ w.does \in {"node", "recent"} /\ Moves(w))
        <5>1. Earlier(i) \subseteq Earlier(i)'
          BY <1>1, <2>3, <4>1, <4>2, <4>5, WriteKeeps
        <5>2. IsFiniteSet(Earlier(i)') /\ Cardinality(Earlier(i)') \in Nat
          BY <4>3, EarlierAfter
        <5>3. Cardinality(Earlier(i)) <= Cardinality(Earlier(i)') /\ Cardinality(Earlier(i)) \in Nat
          BY <4>1, <5>1, <5>2, FS_Subset, EarlierIs
        <5> QED BY <2>1, <2>3, <2>5, <4>1, <4>3, <5>2, <5>3
      <4> QED BY <4>4, <4>5
    <3> QED BY <2>3, <2>4, <2>7, <2>9, <3>1 DEF WalkInv
  <2> QED BY <2>1, <2>8, <2>9
<1> QED BY <1>2, <1>3

LEMMA WalkStays ==
    ASSUME PagesInv, UNCHANGED <<navStore, nodes, recent, audit, walk, linked>>
    PROVE  WalkShape' /\ WalkInv'
<1>1. Present' = Present /\ RawWindow' = RawWindow
  BY DEF Present, RawWindow, FetchLimit
<1>2. Excused' = Excused /\ Untold' = Untold
  BY <1>1 DEF Excused, Untold
<1>3. ASSUME NEW i PROVE OnTheList(i)' = OnTheList(i) /\ Earlier(i)' = Earlier(i)
  BY <1>1 DEF OnTheList, Earlier, Later, Before, Wants
<1>4. WalkShape'
  BY DEF PagesInv, WalkShape
<1>5. WalkInv'
  <2> SUFFICES ASSUME walk # NoWalk
               PROVE  /\ walk.phase = "walking" => \A i \in Untold : OnTheList(i)'
                      /\ ~Excused => \A i \in Untold : walk.phase = "walking" /\ walk.offset <= Cardinality(Earlier(i)')
                      /\ \/ walk.list = "audit" \/ (walk.list = "nodes" /\ navStore = "redis") \/ walk.cut
                         \/ {t \in walk.linked : {t[1], t[2]} \intersect walk.got # {}} \subseteq walk.shown
    BY <1>2 DEF WalkInv
  <2> QED BY <1>3 DEF PagesInv, WalkInv
<1> QED BY <1>4, <1>5

LEMMA BeginWalkKeeps ==
    ASSUME NavInv, PagesInv, NEW list \in Lists, BeginWalk(list)
    PROVE  StoreInv' /\ WalkShape' /\ WalkInv'
<1>1. /\ walk' = [phase |-> "walking", list |-> list, offset |-> 0, got |-> {}, old |-> PageRows(list),
                  touched |-> {}, moved |-> FALSE, linked |-> linked, shown |-> {}, cut |-> FALSE]
      /\ UNCHANGED <<navStore, nodes, recent, tunnels, ends, audit, nav, linked>>
  BY DEF BeginWalk
<1>2. StoreInv'
  BY <1>1 DEF PagesInv, StoreInv, Linking
<1>3. PageRows(list) \in SUBSET Int
  <2>1. Ids \subseteq Int /\ audit \in Int
    BY NavigationAssumption DEF PagesInv, StoreInv
  <2>2. \A i \in PageRows(list) : i \in 1 .. audit \/ i \in Ids
    BY DEF PageRows, Present
  <2>3. \A i \in 1 .. audit : i \in Int
    BY <2>1
  <2> QED BY <2>1, <2>2, <2>3
<1>4. WalkShape'
  BY <1>1, <1>3 DEF WalkShape
<1>5. ASSUME NEW i \in PageRows(list) PROVE OnTheList(i)'
  BY <1>1 DEF PageRows, OnTheList, Present, Wants
<1>6. \A i \in PageRows(list) : 0 <= Cardinality(Earlier(i)')
  BY <1>2, <1>5, EarlierAfter
<1>7. Untold' \subseteq PageRows(list)
  BY <1>1 DEF Untold
<1>8. {t \in walk'.linked : {t[1], t[2]} \intersect walk'.got # {}} \subseteq walk'.shown
  BY <1>1
<1>9. walk'.phase = "walking" /\ walk'.offset = 0
  BY <1>1
<1> QED BY <1>2, <1>4, <1>5, <1>6, <1>7, <1>8, <1>9 DEF WalkInv

-----------------------------------------------------------------------------
(* The next page.                                                           *)
LEMMA NodesPageIs ==
    ASSUME NavInv, StoreInv, NEW W \in SUBSET Kept, NEW o \in Nat
    PROVE  /\ NodesPaged(W, o).next = o + PageLimit /\ NodesPaged(W, o).more \in BOOLEAN
           /\ ToSet(NodesPaged(W, o).items) \subseteq W /\ NodesPaged(W, o).items \in Seq(W)
<1>1. PageLimit \in Nat \ {0} /\ RawWindow \in Nat /\ FetchLimit \in Nat
  BY WindowIs
<1>2. CASE navStore # "redis"
  <2>1. InOrder(W, Before) \in Seq(W)
    BY SqlOrder, ListShows
  <2>2. NodesPaged(W, o) = FromPeek(Slice(InOrder(W, Before), o, FetchLimit), o)
    BY <1>2 DEF NodesPaged, SqliteNodesPaged, PostgresNodesPaged, NavInv, NavShape
  <2>3. Slice(InOrder(W, Before), o, FetchLimit) \in Seq(W)
    BY <1>1, <2>1, SliceIs
  <2> QED BY <1>1, <2>2, <2>3, PageIs
<1>3. CASE navStore = "redis"
  <2> DEFINE ids == Slice(ByTime, o, RawWindow)
             rows == [k \in DOMAIN ids |-> nodes[ids[k]]]
             f == Among(rows, W)
  <2>1. NodesPaged(W, o) = FromPeek(Slice(f, 0, FetchLimit), o)
    BY <1>3 DEF NodesPaged, RedisNodesPaged, ByTime, RecentIds
  <2>2. ids \in Seq(RecentIds)
    <3>1. ByTime \in Seq(RecentIds)
      BY RedisOrder, ListShows
    <3> QED BY <1>1, <3>1, SliceIs
  <2> HIDE DEF ids
  <2>3. PICK m \in Nat : DOMAIN rows = 1 .. m
    BY <2>2
  <2> HIDE DEF rows
  <2>4. f \in Seq(W)
    BY <2>3, AmongShows
  <2> HIDE DEF f
  <2>5. PICK t \in Seq(W) : t = Slice(f, 0, FetchLimit)
    BY <1>1, <2>4, SliceIs
  <2>6. NodesPaged(W, o) = FromPeek(t, o)
    BY <2>1, <2>5
  <2> QED BY <1>1, <2>6, PageIs
<1> QED BY <1>2, <1>3

LEMMA EarlierRows ==
    ASSUME NavInv, StoreInv, walk.list # "audit", navStore # "redis", NEW i, OnTheList(i)
    PROVE  Cardinality({m \in {n \in Kept : Wants(walk.list, n)} : Before(m, nodes[i])}) = Cardinality(Earlier(i))
<1> DEFINE T == {m \in {n \in Kept : Wants(walk.list, n)} : Before(m, nodes[i])}
           E == Earlier(i)
           f == [j \in E |-> nodes[j]]
<1>1. E = {j \in Present : Wants(walk.list, nodes[j]) /\ Before(nodes[j], nodes[i])}
  BY DEF Earlier
<1>2. /\ \A n \in Kept : n.id \in Present /\ nodes[n.id] = n
      /\ \A j \in Present : nodes[j] \in Kept /\ nodes[j].id = j
  BY KeptAre
<1>3. f \in [E -> T] /\ (\A j, k \in E : f[j] = f[k] => j = k) /\ \A m \in T : \E j \in E : f[j] = m
  BY <1>1, <1>2
<1>4. f \in Bijection(E, T)
  <2> PICK g : g = f
    OBVIOUS
  <2> HIDE DEF f, E, T
  <2>1. g \in [E -> T] /\ (\A j, k \in E : g[j] = g[k] => j = k) /\ \A m \in T : \E j \in E : g[j] = m
    BY <1>3
  <2>2. g \in Injection(E, T) /\ g \in Surjection(E, T)
    BY <2>1 DEF Injection, Surjection, IsInjective
  <2> QED BY <2>2 DEF Bijection
<1>5. IsFiniteSet(E)
  BY EarlierIs
<1> HIDE DEF E, T, f
<1>6. Cardinality(T) = Cardinality(E)
  BY <1>4, <1>5, FS_Bijection DEF ExistsBijection
<1> QED BY <1>6 DEF E, T

(* A row that is not told yet is on the page, or on one after it.           *)
LEMMA NextNodesShow ==
    ASSUME NavInv, StoreInv, NEW o \in Nat, walk.list # "audit", ~Excused, walk.list \in Lists, NEW i, OnTheList(i),
           o <= Cardinality(Earlier(i))
    PROVE  LET p == NodesPaged({n \in Kept : Wants(walk.list, n)}, o)
           IN  \/ i \in {n.id : n \in ToSet(p.items)}
               \/ p.more /\ o + PageLimit <= Cardinality(Earlier(i))
<1> DEFINE W == {n \in Kept : Wants(walk.list, n)}
           p == NodesPaged(W, o)
<1>1. /\ i \in Present /\ i \in Ids /\ nodes[i] \in W /\ nodes[i].id = i /\ W \in SUBSET Kept
      /\ navStore = "redis" => i \in RecentIds
  <2>1. i \in Present /\ i \in Ids /\ (navStore = "redis" => i \in RecentIds)
    BY DEF OnTheList, Present, RecentIds
  <2> QED BY <2>1, KeptAre DEF OnTheList
<1> HIDE DEF W
<1>2. CASE navStore # "redis"
  <2>1. p = FromPeek(Slice(InOrder(W, Before), o, FetchLimit), o)
    BY <1>2 DEF NodesPaged, SqliteNodesPaged, PostgresNodesPaged, NavInv, NavShape
  <2>2. Cardinality({m \in W : Before(m, nodes[i])}) = Cardinality(Earlier(i))
    BY <1>2, EarlierRows DEF W
  <2>3. nodes[i] \in ToSet(p.items) \/ (p.more /\ o + PageLimit <= Cardinality(Earlier(i)))
    BY <1>1, <2>1, <2>2, SqlPageShows
  <2> QED BY <1>1, <2>3 DEF W
<1>3. CASE navStore = "redis"
  <2>1. p = RedisNodesPaged(W, o)
    BY <1>3 DEF NodesPaged
  <2>2. Earlier(i) = {j \in Ids : recent[j] # 0 /\ Later(j, i)}
    BY <1>3 DEF Earlier
  <2>3. W = Kept \/ Cardinality(Present) <= RawWindow
    <3>1. CASE walk.list = "nodes"
      BY <3>1 DEF W, Wants
    <3>2. CASE walk.list # "nodes"
      <4>1. walk.list \in NodeKinds
        BY <3>2 DEF Lists
      <4>2. Cardinality(Present) \in Nat /\ RawWindow \in Nat
        BY KeptAre, WindowIs
      <4> QED BY <1>3, <4>1, <4>2 DEF Excused
    <3> QED BY <3>1, <3>2
  <2>4. nodes[i] \in ToSet(p.items) \/ (p.more /\ o + PageLimit <= Cardinality(Earlier(i)))
    BY <1>1, <1>3, <2>1, <2>2, <2>3, RedisPageShows
  <2> QED BY <1>1, <2>4 DEF W
<1> QED BY <1>2, <1>3

LEMMA TunnelsAreFinite == StoreInv => \A ts : ts \subseteq tunnels => IsFiniteSet(ts)
<1> SUFFICES ASSUME StoreInv, NEW ts, ts \subseteq tunnels PROVE IsFiniteSet(ts)
  OBVIOUS
<1>1. IsFiniteSet(Ids \X Ids)
  BY NavigationAssumption, FS_Product
<1>2. ts \subseteq Ids \X Ids
  BY DEF StoreInv
<1> QED BY <1>1, <1>2, FS_Subset

LEMMA FewOrMany ==
    ASSUME StoreInv, NEW ids
    PROVE  \/ Cardinality(TunnelsAt(ids)) > TunnelLimit
           \/ Cardinality(TunnelsAt(ids)) <= TunnelLimit
<1>1. IsFiniteSet(TunnelsAt(ids))
  <2>1. TunnelsAt(ids) \subseteq tunnels
    BY DEF TunnelsAt
  <2> QED BY <2>1, TunnelsAreFinite
<1>2. Cardinality(TunnelsAt(ids)) \in Nat /\ TunnelLimit \in Nat
  BY <1>1, FS_CardinalityType, NavigationAssumption
<1> QED BY <1>2

(* A query that is not cut short answers with all that it selects.          *)
LEMMA LimitedIs ==
    ASSUME NEW ts, NEW some \in Limited(ts)
    PROVE  some \subseteq ts /\ (Cardinality(ts) <= TunnelLimit => some = ts)
BY DEF Limited

(* What a query for the tunnels at some nodes answers.                      *)
LEMMA TunnelsAnswered ==
    ASSUME NavInv, StoreInv, NEW ids \in SUBSET Ids, NEW some \in TunnelsFor(ids)
    PROVE  /\ some \subseteq tunnels
           /\ Cardinality(TunnelsAt(ids)) <= TunnelLimit =>
                 \A t \in linked : t[1] \in ids \/ t[2] \in ids => t \in some
<1>1. navStore \in {"sqlite", "postgres", "redis"} /\ linked \subseteq tunnels /\ TunnelsAt(ids) \subseteq tunnels
  BY DEF NavInv, NavShape, StoreInv, TunnelsAt
<1>2. CASE navStore # "redis"
  <2>1. some \in Limited(TunnelsAt(ids))
    BY <1>1, <1>2 DEF TunnelsFor, SqliteTunnelsFor, PostgresTunnelsFor
  <2>2. some \subseteq TunnelsAt(ids) /\ (Cardinality(TunnelsAt(ids)) <= TunnelLimit => some = TunnelsAt(ids))
    BY <2>1, LimitedIs
  <2>3. \A t \in linked : t[1] \in ids \/ t[2] \in ids => t \in TunnelsAt(ids)
    BY <1>1 DEF TunnelsAt
  <2> QED BY <1>1, <2>2, <2>3
<1>3. CASE navStore = "redis"
  <2> DEFINE found == (UNION {ends[i] : i \in ids}) \cap tunnels
  <2>1. some \in Limited(found)
    BY <1>3 DEF TunnelsFor, RedisTunnelsFor
  <2>2. found \subseteq TunnelsAt(ids)
    BY DEF StoreInv, TunnelsAt
  <2>3. \A t \in linked : t[1] \in ids \/ t[2] \in ids => t \in found
    BY <1>1, <1>3 DEF StoreInv
  <2> HIDE DEF found
  <2>4. some \subseteq found /\ (Cardinality(found) <= TunnelLimit => some = found)
    BY <2>1, LimitedIs
  <2>5. Cardinality(TunnelsAt(ids)) <= TunnelLimit => Cardinality(found) <= TunnelLimit
    <3>1. IsFiniteSet(TunnelsAt(ids)) /\ IsFiniteSet(found) /\ Cardinality(found) <= Cardinality(TunnelsAt(ids))
      BY <1>1, <2>2, TunnelsAreFinite, FS_Subset
    <3>2. Cardinality(found) \in Nat /\ Cardinality(TunnelsAt(ids)) \in Nat /\ TunnelLimit \in Nat
      BY <3>1, FS_CardinalityType, NavigationAssumption
    <3> QED BY <3>1, <3>2
  <2>6. found \subseteq tunnels
    BY <1>1, <2>2
  <2> QED BY <2>3, <2>4, <2>5, <2>6
<1> QED BY <1>2, <1>3

LEMMA NextPageKeeps ==
    ASSUME NavInv, PagesInv, NextPage
    PROVE  StoreInv' /\ WalkShape' /\ WalkInv'
<1> DEFINE page == IF walk.list = "audit" THEN AuditPaged(walk.offset)
                   ELSE NodesPaged({n \in Kept : Wants(walk.list, n)}, walk.offset)
           items == IF walk.list = "audit" THEN ToSet(page.items) ELSE {n.id : n \in ToSet(page.items)}
           asked == IF walk.list = "audit" THEN {} ELSE IF walk.list = "nodes" THEN Ids ELSE items
           many == Cardinality(TunnelsAt(asked)) > TunnelLimit
           answers == CASE walk.list = "audit" -> {{}}
                        [] walk.list = "nodes" -> TunnelsPaged(0)
                        [] OTHER -> TunnelsFor(items)
<1>0. PICK told \in answers :
        walk' = [walk EXCEPT !.phase = IF page.more THEN "walking" ELSE "done",
                             !.offset = page.next, !.got = @ \union items, !.shown = @ \union told,
                             !.cut = @ \/ many]
  BY DEF NextPage
<1>1. /\ walk.phase = "walking"
      /\ walk' = [walk EXCEPT !.phase = IF page.more THEN "walking" ELSE "done",
                              !.offset = page.next, !.got = @ \union items, !.shown = @ \union told,
                              !.cut = @ \/ many]
      /\ UNCHANGED <<navStore, nodes, recent, tunnels, ends, audit, nav, linked>>
  BY <1>0 DEF NextPage
<1>2. StoreInv /\ StoreInv'
  BY <1>1 DEF PagesInv, StoreInv, Linking
<1>3. walk # NoWalk
  BY <1>1 DEF NoWalk
<1>4. walk \in [phase: {"walking", "done"}, list: Lists, offset: Nat, got: SUBSET Int, old: SUBSET Int,
                touched: SUBSET Ids, moved: BOOLEAN, linked: SUBSET linked, shown: SUBSET (Ids \X Ids),
                cut: BOOLEAN]
  BY <1>3 DEF PagesInv, WalkShape
<1>5. navStore \in {"sqlite", "postgres", "redis"} /\ audit \in Nat /\ PageLimit \in Nat \ {0}
  BY <1>2, WindowIs DEF NavInv, NavShape, StoreInv
<1>6. /\ page.more \in BOOLEAN /\ page.next = walk.offset + PageLimit /\ items \subseteq Int
      /\ walk.list # "audit" => items \subseteq Ids
  <2>1. CASE walk.list = "audit"
    BY <1>4, <1>5, <2>1, AuditPageShows
  <2>2. CASE walk.list # "audit"
    <3> DEFINE W == {n \in Kept : Wants(walk.list, n)}
    <3>1. W \in SUBSET Kept
      OBVIOUS
    <3> HIDE DEF W
    <3>2. /\ NodesPaged(W, walk.offset).next = walk.offset + PageLimit /\ NodesPaged(W, walk.offset).more \in BOOLEAN
          /\ ToSet(NodesPaged(W, walk.offset).items) \subseteq W
      BY <1>2, <1>4, <3>1, NodesPageIs
    <3>3. page = NodesPaged(W, walk.offset)
      BY <2>2 DEF W
    <3>4. \A n \in Kept : n.id \in Int /\ n.id \in Ids
      BY <1>2, KeptAre DEF Present
    <3> QED BY <2>2, <3>1, <3>2, <3>3, <3>4
  <2> QED BY <2>1, <2>2
(* The tunnels that were linked when the walk began are there still.        *)
<1>7. /\ told \subseteq tunnels
      /\ ~many /\ walk.list \notin {"audit", "nodes"} =>
            \A t \in walk.linked : {t[1], t[2]} \intersect items # {} => t \in told
      /\ ~many /\ walk.list = "nodes" /\ navStore # "redis" => walk.linked \subseteq told
  <2>1. walk.linked \subseteq linked /\ linked \subseteq tunnels /\ tunnels \subseteq Ids \X Ids
    BY <1>2, <1>4 DEF StoreInv
  <2>2. CASE walk.list \notin {"audit", "nodes"}
    <3>1. told \in TunnelsFor(items) /\ asked = items
      BY <2>2
    <3>2. items \subseteq Ids
      BY <1>6, <2>2
    <3> HIDE DEF items, page, asked, answers
    <3>3. /\ told \subseteq tunnels
          /\ Cardinality(TunnelsAt(items)) <= TunnelLimit =>
                \A t \in linked : t[1] \in items \/ t[2] \in items => t \in told
      BY <1>2, <3>1, <3>2, TunnelsAnswered
    <3>4. ~many => Cardinality(TunnelsAt(items)) <= TunnelLimit
      BY <1>2, <3>1, FewOrMany
    <3> QED BY <2>1, <2>2, <3>3, <3>4
  <2>3. CASE walk.list = "nodes"
    <3>1. told \in TunnelsPaged(0) /\ asked = Ids
      BY <2>3
    <3>2. TunnelsAt(Ids) = tunnels
      BY <2>1 DEF TunnelsAt
    <3> HIDE DEF items, page, asked, answers
    <3>3. ~many => Cardinality(tunnels) <= TunnelLimit
      <4>1. many = (Cardinality(TunnelsAt(Ids)) > TunnelLimit)
        BY <3>1
      <4> QED BY <1>2, <3>2, <4>1, FewOrMany
    <3>4. told \in Limited(IF navStore = "redis" THEN {} ELSE tunnels)
      BY <1>5, <3>1 DEF TunnelsPaged, SqliteTunnelsPaged, PostgresTunnelsPaged, RedisTunnelsPaged
    <3>5. /\ told \subseteq (IF navStore = "redis" THEN {} ELSE tunnels)
          /\ navStore # "redis" /\ Cardinality(tunnels) <= TunnelLimit => told = tunnels
      BY <3>4, LimitedIs
    <3> QED BY <2>1, <2>3, <3>3, <3>5
  <2>4. CASE walk.list = "audit"
    <3>1. told = {}
      BY <2>4
    <3> QED BY <2>4, <3>1
  <2> QED BY <2>2, <2>3, <2>4
<1>9. ASSUME NEW i \in Untold, ~Excused
      PROVE  i \in items \/ (page.more /\ walk.offset + PageLimit <= Cardinality(Earlier(i)))
  <2>1. OnTheList(i) /\ walk.offset <= Cardinality(Earlier(i))
    BY <1>1, <1>3, <1>9 DEF PagesInv, WalkInv
  <2>2. CASE walk.list = "audit"
    <3>1. i \in 1 .. audit /\ Earlier(i) = i + 1 .. audit
      BY <2>1, <2>2 DEF OnTheList, Earlier
    <3>2. Cardinality(i + 1 .. audit) = audit - i
      <4>1. i + 1 \in Int /\ audit \in Int /\ i <= audit
        BY <1>5, <3>1
      <4>2. Cardinality(i + 1 .. audit) = IF i + 1 > audit THEN 0 ELSE audit - (i + 1) + 1
        BY <4>1, FS_Interval
      <4> QED BY <3>1, <4>1, <4>2
    <3> DEFINE p == AuditPaged(walk.offset)
    <3>3. i \in ToSet(p.items) \/ (p.more /\ walk.offset + PageLimit <= audit - i)
      BY <1>4, <1>5, <2>1, <3>1, <3>2, AuditPageShows
    <3>4. page = p /\ items = ToSet(p.items)
      BY <2>2
    <3> HIDE DEF p, page, items
    <3> QED BY <3>1, <3>2, <3>3, <3>4
  <2>3. CASE walk.list # "audit"
    BY <1>2, <1>4, <1>9, <2>1, <2>3, NextNodesShow
  <2> QED BY <2>2, <2>3
<1> HIDE DEF page, items, asked, many, answers
<1>10. /\ walk'.phase = IF page.more THEN "walking" ELSE "done"
       /\ walk'.offset = walk.offset + PageLimit /\ walk'.got = walk.got \union items
       /\ walk'.shown = walk.shown \union told
       /\ walk'.list = walk.list /\ walk'.old = walk.old /\ walk'.touched = walk.touched
       /\ walk'.moved = walk.moved /\ walk'.linked = walk.linked /\ walk'.cut = (walk.cut \/ many)
  BY <1>1, <1>4, <1>6
<1>11. WalkShape'
  <2>1. told \subseteq Ids \X Ids
    BY <1>2, <1>7 DEF StoreInv
  <2>2. /\ (IF page.more THEN "walking" ELSE "done") \in {"walking", "done"} /\ page.next \in Nat
        /\ walk.got \union items \in SUBSET Int /\ walk.shown \union told \in SUBSET (Ids \X Ids)
        /\ (walk.cut \/ many) \in BOOLEAN
    <3>1. walk.offset + PageLimit \in Nat /\ walk.shown \subseteq Ids \X Ids /\ walk.got \subseteq Int
      BY <1>4, <1>5
    <3>2. page.next \in Nat
      BY <1>6, <3>1
    <3> QED BY <1>6, <2>1, <3>1, <3>2
  <2>3. walk' \in [phase: {"walking", "done"}, list: Lists, offset: Nat, got: SUBSET Int, old: SUBSET Int,
                   touched: SUBSET Ids, moved: BOOLEAN, linked: SUBSET linked, shown: SUBSET (Ids \X Ids),
                   cut: BOOLEAN]
    BY <1>1, <1>4, <2>2
  <2> QED BY <1>1, <2>3 DEF WalkShape
<1>12. /\ Untold' = Untold \ items /\ Excused' = Excused
       /\ \A i : OnTheList(i)' = OnTheList(i) /\ Earlier(i)' = Earlier(i)
  <2>1. Present' = Present /\ RawWindow' = RawWindow
    BY <1>1 DEF Present, RawWindow, FetchLimit
  <2>2. Untold' = Untold \ items
    BY <1>10 DEF Untold
  <2>3. Excused' = Excused
    BY <1>1, <1>10, <2>1 DEF Excused
  <2>4. ASSUME NEW i PROVE OnTheList(i)' = OnTheList(i) /\ Earlier(i)' = Earlier(i)
    BY <1>1, <1>10, <2>1 DEF OnTheList, Earlier, Later, Before, Wants
  <2> QED BY <2>2, <2>3, <2>4
<1>13. \A i \in Untold' : OnTheList(i)'
  BY <1>1, <1>3, <1>12 DEF PagesInv, WalkInv
<1>14. ~Excused' => \A i \in Untold' : walk'.phase = "walking" /\ walk'.offset <= Cardinality(Earlier(i)')
  BY <1>9, <1>10, <1>12
<1>15. \/ walk'.list = "audit" \/ (walk'.list = "nodes" /\ navStore' = "redis") \/ walk'.cut
       \/ {t \in walk'.linked : {t[1], t[2]} \intersect walk'.got # {}} \subseteq walk'.shown
  <2> SUFFICES ASSUME walk.list # "audit", ~(walk.list = "nodes" /\ navStore = "redis"), ~walk.cut, ~many,
                      NEW t \in walk.linked, {t[1], t[2]} \intersect (walk.got \union items) # {}
               PROVE  t \in walk.shown \union told
    BY <1>1, <1>10
  <2>1. CASE {t[1], t[2]} \intersect walk.got # {}
    BY <1>3, <2>1 DEF PagesInv, WalkInv
  <2>2. CASE {t[1], t[2]} \intersect items # {}
    BY <1>7, <2>2
  <2> QED BY <2>1, <2>2
<1> QED BY <1>2, <1>11, <1>13, <1>14, <1>15 DEF WalkInv

-----------------------------------------------------------------------------
LEMMA PagesNext == NavInv /\ NavInv' /\ PagesInv /\ [NavNext]_navVars => PagesInv'
<1> SUFFICES ASSUME NavInv, NavInv', PagesInv, [NavNext]_navVars PROVE PagesInv'
  OBVIOUS
<1>1. CASE UNCHANGED navVars
  <2>1. UNCHANGED <<navStore, nodes, recent, tunnels, ends, audit, nav, walk, linked>>
    BY <1>1 DEF navVars
  <2>2. StoreInv'
    BY <2>1 DEF PagesInv, StoreInv, Linking
  <2> QED BY <2>1, <2>2, WalkStays DEF PagesInv
<1>2. CASE Reading
  BY <1>2, BeginWalkKeeps, NextPageKeeps DEF Reading, PagesInv
<1>3. ASSUME NEW b \in Brokers, Writing(b) PROVE PagesInv'
  <2>1. StoreInv'
    BY <1>3, UpsertRequestStore, SyncNodesStore, LinkTunnelStore, ExecuteStore, FailsStore DEF Writing, PagesInv
  <2>2. CASE ExecuteWrite(b)
    BY <2>1, <2>2, WriteWalk DEF PagesInv
  <2>3. CASE ~ExecuteWrite(b)
    <3>1. UNCHANGED <<navStore, nodes, recent, audit, walk, linked>>
      BY <1>3, <2>3 DEF Writing, UpsertNodeRequest, SyncNodes, LinkTunnel, Start, WriteFails, Untouched
    <3> QED BY <2>1, <3>1, WalkStays DEF PagesInv
  <2> QED BY <2>2, <2>3
<1> QED BY <1>1, <1>2, <1>3 DEF NavNext

(* A client that follows the cursors of a list to its end has seen every    *)
(* row that was there when it began and was left alone, and the tunnels at  *)
(* the nodes it has seen, however brokers write and stop between its pages, *)
(* for any number of nodes and any size of a page                           *)
(* (memory_navigation_list, broker.rs:3522, and Page::from_peek).           *)
THEOREM WalksSkipNothing == NavSpec => []WalkSkipsNothing
<1>1. PagesInv => WalkSkipsNothing
  <2> SUFFICES ASSUME PagesInv, walk.phase = "done" PROVE WalkSkipsNothing
    BY DEF WalkSkipsNothing
  <2>1. walk # NoWalk
    BY DEF NoWalk
  <2>2. ~Excused => Untold = {}
    BY <2>1 DEF PagesInv, WalkInv
  <2>3. \/ Excused
        \/ walk.old \ (IF walk.list = "audit" THEN {} ELSE walk.touched) \subseteq walk.got
    BY <2>2 DEF Untold
  <2> QED BY <2>1, <2>3 DEF PagesInv, WalkInv, Excused, WalkSkipsNothing
<1> QED BY <1>1, StoreInit, PagesNext, NavInvariance, PTL DEF NavSpec

-----------------------------------------------------------------------------
(* Bounds.  A request records at most one line in the audit log, at its end, *)
(* so that the log is not longer than the requests there were.              *)
LogsAudit(todo) == \E k \in 1 .. Len(todo) : todo[k].does = "audit"

Bounded(todo) ==
    \A k \in 1 .. Len(todo) :
        /\ todo[k].does \in {"tunnel", "end"} => todo[k].tunnel \in Pair
        /\ todo[k].does = "audit" => k = Len(todo)

Recorders == {b \in Brokers : LogsAudit(nav[b].todo)}

BoundsInv ==
    /\ recent \in [Ids -> 0 .. MaxWrites] /\ tunnels \subseteq Pair /\ ends \in [Ids -> SUBSET Pair]
    /\ rekinded \subseteq Ids /\ writes \in 0 .. MaxWrites
    /\ \A b \in Brokers : Bounded(nav[b].todo)
    /\ IsFiniteSet(Recorders) /\ audit + Cardinality(Recorders) <= writes

(* Recorders do not become more by requests that end.                       *)
LEMMA FewerRecord ==
    ASSUME NavInv, StoreInv, BoundsInv, NEW S \in SUBSET Recorders
    PROVE  /\ IsFiniteSet(S) /\ Cardinality(S) \in Nat /\ Cardinality(Recorders) \in Nat
           /\ Cardinality(S) <= Cardinality(Recorders) /\ audit \in Nat /\ writes \in Nat
           /\ audit + Cardinality(S) <= writes
<1>1. IsFiniteSet(S) /\ Cardinality(S) <= Cardinality(Recorders)
  BY FS_Subset DEF BoundsInv
<1>2. Cardinality(S) \in Nat /\ Cardinality(Recorders) \in Nat
  BY <1>1, FS_CardinalityType DEF BoundsInv
<1> QED BY <1>1, <1>2 DEF BoundsInv, StoreInv, NavInv, NavShape

LEMMA StartBounds ==
    ASSUME NavInv, StoreInv, BoundsInv, NEW b \in Brokers, NEW phase \in {"node", "sync", "tunnel"},
           NEW todo \in Seq(NavWrite), Bounded(todo), Start(b, phase, todo)
    PROVE  BoundsInv'
<1>1. /\ nav' = [nav EXCEPT ![b] = [phase |-> phase, todo |-> todo]] /\ writes' = writes + 1 /\ writes < MaxWrites
      /\ UNCHANGED <<recent, tunnels, ends, audit, rekinded>>
  BY DEF Start, Untouched
<1>2. \A c \in Brokers : nav'[c].todo = IF c = b THEN todo ELSE nav[c].todo
  BY <1>1 DEF NavInv, NavShape
<1>3. \A c \in Brokers : Bounded(nav'[c].todo)
  BY <1>2 DEF BoundsInv
<1>4. Recorders' \subseteq Recorders \union {b}
  BY <1>2 DEF Recorders
<1>5. /\ IsFiniteSet(Recorders \union {b}) /\ Cardinality(Recorders \union {b}) <= Cardinality(Recorders) + 1
      /\ Cardinality(Recorders) \in Nat
  <2>1. IsFiniteSet(Recorders)
    BY DEF BoundsInv
  <2> QED BY <2>1, FS_AddElement, FS_CardinalityType
<1>6. /\ IsFiniteSet(Recorders') /\ Cardinality(Recorders') <= Cardinality(Recorders \union {b})
      /\ Cardinality(Recorders') \in Nat /\ Cardinality(Recorders \union {b}) \in Nat
  BY <1>4, <1>5, FS_Subset, FS_CardinalityType
<1>7. audit + Cardinality(Recorders) <= writes /\ writes \in 0 .. MaxWrites /\ audit \in Nat
  BY DEF BoundsInv, StoreInv
<1>8. audit' + Cardinality(Recorders') <= writes' /\ writes' \in 0 .. MaxWrites
  <2>1. MaxWrites \in Nat
    BY NavigationAssumption
  <2> QED BY <1>1, <1>5, <1>6, <1>7, <2>1
<1> QED BY <1>1, <1>3, <1>6, <1>8 DEF BoundsInv

(* The writes of a node, one after the other, say nothing of tunnels or the  *)
(* audit log.                                                               *)
OfNodes(todo) == \A k \in 1 .. Len(todo) : todo[k].does \in {"node", "recent"}

LEMMA NodesOnly ==
    ASSUME NavShape, NEW n \in Node
    PROVE  UpsertNode(n) \in Seq(NavWrite) /\ OfNodes(UpsertNode(n))
<1>1. UpsertNode(n) = <<PutNode(n)>> \/ UpsertNode(n) = <<PutNode(n), Recent(n)>>
  BY DEF UpsertNode, SqliteUpsertNode, PostgresUpsertNode, RedisUpsertNode, NavShape
<1>2. Recent(n).does = "recent" /\ PutNode(n).does = "node"
  BY DEF Recent, PutNode
<1>3. CASE UpsertNode(n) = <<PutNode(n)>>
  BY <1>2, <1>3, NodeIsNode DEF OfNodes
<1>4. CASE UpsertNode(n) = <<PutNode(n), Recent(n)>>
  BY <1>2, <1>4, NodeIsNode DEF OfNodes
<1> QED BY <1>1, <1>3, <1>4

LEMMA NodesConcat ==
    ASSUME NEW s \in Seq(NavWrite), NEW t \in Seq(NavWrite), OfNodes(s), OfNodes(t)
    PROVE  s \o t \in Seq(NavWrite) /\ OfNodes(s \o t)
<1>1. /\ s \o t \in Seq(NavWrite) /\ Len(s \o t) = Len(s) + Len(t) /\ Len(s) \in Nat /\ Len(t) \in Nat
      /\ \A k \in 1 .. Len(s) + Len(t) : (s \o t)[k] = IF k <= Len(s) THEN s[k] ELSE t[k - Len(s)]
  BY ConcatProperties, LenProperties
<1>2. ASSUME NEW k \in 1 .. Len(s \o t) PROVE (s \o t)[k].does \in {"node", "recent"}
  <2>1. CASE k <= Len(s)
    BY <1>1, <2>1 DEF OfNodes
  <2>2. CASE k > Len(s)
    <3>1. k - Len(s) \in 1 .. Len(t) /\ (s \o t)[k] = t[k - Len(s)]
      BY <1>1, <2>2
    <3> QED BY <3>1 DEF OfNodes
  <2> QED BY <1>1, <2>1, <2>2
<1> QED BY <1>1, <1>2 DEF OfNodes

LEMMA UpsertRequestBounds ==
    ASSUME NavInv, StoreInv, BoundsInv, NEW b \in Brokers, NEW i \in Ids, NEW kind \in NodeKinds,
           NEW label \in NodeLabels, NEW parent \in Ids \union {0}, UpsertNodeRequest(b, i, kind, label, parent)
    PROVE  BoundsInv'
<1> DEFINE n == NewNode(i, kind, label, parent)
           s == UpsertNode(n)
<1>1. Start(b, "node", Append(s, RecordAudit)) /\ writes < MaxWrites
  BY DEF UpsertNodeRequest, Start
<1>2. n \in Node
  BY <1>1, NewNodeIs DEF NavInv
<1> HIDE DEF n
<1>3. s \in Seq(NavWrite) /\ OfNodes(s)
  BY <1>2, NodesOnly DEF NavInv
<1>4. RecordAudit \in NavWrite /\ RecordAudit.does = "audit"
  BY DEF RecordAudit, NavWrite
<1> HIDE DEF s
<1>5. /\ Append(s, RecordAudit) \in Seq(NavWrite) /\ Len(Append(s, RecordAudit)) = Len(s) + 1 /\ Len(s) \in Nat
      /\ Append(s, RecordAudit)[Len(s) + 1] = RecordAudit
      /\ \A k \in 1 .. Len(s) : Append(s, RecordAudit)[k] = s[k]
  BY <1>3, <1>4, AppendProperties, LenProperties
<1>6. Bounded(Append(s, RecordAudit))
  <2> SUFFICES ASSUME NEW k \in 1 .. Len(s) + 1
               PROVE  /\ Append(s, RecordAudit)[k].does \in {"tunnel", "end"} => Append(s, RecordAudit)[k].tunnel \in Pair
                      /\ Append(s, RecordAudit)[k].does = "audit" => k = Len(s) + 1
    BY <1>5 DEF Bounded
  <2>1. CASE k = Len(s) + 1
    BY <1>4, <1>5, <2>1
  <2>2. CASE k # Len(s) + 1
    <3>1. k \in 1 .. Len(s)
      BY <1>5, <2>2
    <3> QED BY <1>3, <1>5, <3>1 DEF OfNodes
  <2> QED BY <2>1, <2>2
<1> QED BY <1>1, <1>5, <1>6, StartBounds

LEMMA SyncNodesBounds ==
    ASSUME NavInv, StoreInv, BoundsInv, NEW b \in Brokers, NEW label \in NodeLabels, NEW hall \in BOOLEAN,
           NEW room \in BOOLEAN, SyncNodes(b, label, hall, room)
    PROVE  BoundsInv'
<1> DEFINE drawer == NewNode(1, "drawer", label, 0)
           closet == NewNode(2, "closet", label, 1)
           chamber == NewNode(3, "room", label, IF hall THEN 2 ELSE 1)
           first == UpsertNode(drawer)
           second == IF hall THEN UpsertNode(closet) ELSE <<>>
           third == IF room THEN UpsertNode(chamber) ELSE <<>>
<1>1. Start(b, "sync", first \o second \o third) /\ writes < MaxWrites
  BY DEF SyncNodes, Start
<1>2. drawer \in Node /\ closet \in Node /\ chamber \in Node
  BY <1>1, NewNodeIs, NavigationAssumption DEF NavInv, NodeKinds
<1> HIDE DEF drawer, closet, chamber
<1>3. <<>> \in Seq(NavWrite) /\ OfNodes(<<>>)
  BY DEF OfNodes
<1>4. /\ first \in Seq(NavWrite) /\ OfNodes(first) /\ second \in Seq(NavWrite) /\ OfNodes(second)
      /\ third \in Seq(NavWrite) /\ OfNodes(third)
  BY <1>2, <1>3, NodesOnly DEF NavInv
<1> HIDE DEF first, second, third
<1>5. (first \o second) \o third \in Seq(NavWrite) /\ OfNodes((first \o second) \o third)
  BY <1>4, NodesConcat
<1>6. Bounded((first \o second) \o third)
  BY <1>5 DEF OfNodes, Bounded
<1> QED BY <1>1, <1>5, <1>6, StartBounds

LEMMA LinkTunnelBounds ==
    ASSUME NavInv, StoreInv, BoundsInv, NEW b \in Brokers, NEW i \in Ids, NEW j \in Ids, LinkTunnel(b, i, j)
    PROVE  BoundsInv'
<1>1. PICK t \in Pair : Start(b, "tunnel", UpsertTunnel(t))
  BY NavigationAssumption DEF LinkTunnel, Pair
<1>2. /\ PutTunnel(t) \in NavWrite /\ AddEnd(t[1], t) \in NavWrite /\ AddEnd(t[2], t) \in NavWrite
      /\ PutTunnel(t).does = "tunnel" /\ AddEnd(t[1], t).does = "end" /\ AddEnd(t[2], t).does = "end"
      /\ PutTunnel(t).tunnel = t /\ AddEnd(t[1], t).tunnel = t /\ AddEnd(t[2], t).tunnel = t
  BY DEF PutTunnel, AddEnd, NavWrite, Pair
<1>3. UpsertTunnel(t) \in {<<PutTunnel(t)>>, <<PutTunnel(t), AddEnd(t[1], t), AddEnd(t[2], t)>>}
  BY DEF UpsertTunnel, SqliteUpsertTunnel, PostgresUpsertTunnel, RedisUpsertTunnel, NavInv, NavShape
<1>4. UpsertTunnel(t) \in Seq(NavWrite) /\ Bounded(UpsertTunnel(t))
  <2>1. CASE UpsertTunnel(t) = <<PutTunnel(t)>>
    BY <1>2, <2>1 DEF Bounded
  <2>2. CASE UpsertTunnel(t) = <<PutTunnel(t), AddEnd(t[1], t), AddEnd(t[2], t)>>
    <3>1. UpsertTunnel(t) \in Seq(NavWrite)
      BY <1>2, <2>2
    <3>2. \A k \in 1 .. Len(UpsertTunnel(t)) :
              UpsertTunnel(t)[k].does \in {"tunnel", "end"} /\ UpsertTunnel(t)[k].tunnel = t
      BY <1>2, <2>2
    <3> QED BY <3>1, <3>2 DEF Bounded
  <2> QED BY <1>3, <2>1, <2>2
<1> QED BY <1>1, <1>4, StartBounds

LEMMA ExecuteBounds ==
    ASSUME NavInv, StoreInv, BoundsInv, NEW b \in Brokers, ExecuteWrite(b)
    PROVE  BoundsInv'
<1> DEFINE todo == nav[b].todo
           rest == Tail(todo)
<1>1. PICK w \in NavWrite :
      /\ todo # <<>> /\ w = todo[1]
      /\ recent' = IF w.does = "recent" THEN [recent EXCEPT ![w.node.id] = w.node.at] ELSE recent
      /\ tunnels' = IF w.does = "tunnel" THEN tunnels \union {w.tunnel} ELSE tunnels
      /\ ends' = IF w.does = "end" THEN [ends EXCEPT ![w.at] = @ \union {w.tunnel}] ELSE ends
      /\ audit' = IF w.does = "audit" THEN audit + 1 ELSE audit
      /\ \/ Len(todo) = 1 /\ nav' = [nav EXCEPT ![b] = Free]
         \/ Len(todo) # 1 /\ nav' = [nav EXCEPT ![b].todo = rest]
      /\ w.does \in {"node", "recent"} => w.node \in Node /\ w.node.id \in Ids
      /\ w.does = "end" => w.at \in Ids
  BY WriteDoes, Zenon
<1>2. /\ todo \in Seq(NavWrite) /\ rest \in Seq(NavWrite) /\ Len(todo) \in Nat \ {0} /\ Len(rest) = Len(todo) - 1
      /\ \A k \in 1 .. Len(rest) : rest[k] = todo[k + 1]
  <2>1. todo \in Seq(NavWrite) /\ todo # <<>>
    BY <1>1 DEF NavInv, NavShape
  <2> QED BY <2>1, HeadTailProperties, LenProperties
<1>3. writes' = writes /\ rekinded' \subseteq Ids
  <2>1. /\ writes' = writes
        /\ LET v == Head(nav[b].todo) IN
           rekinded' = IF v.does = "node" /\ nodes[v.node.id] # NoNode /\ nodes[v.node.id].kind # v.node.kind
                         THEN rekinded \union {v.node.id} ELSE rekinded
    BY DEF ExecuteWrite
  <2>2. Head(nav[b].todo) = w
    BY <1>1, <1>2, HeadTailProperties
  <2> QED BY <1>1, <2>1, <2>2 DEF BoundsInv
<1>4. w.does \in {"tunnel", "end"} => w.tunnel \in Pair
  BY <1>1, <1>2 DEF BoundsInv, Bounded
<1>5. recent' \in [Ids -> 0 .. MaxWrites]
  <2>1. w.does = "recent" => w.node.at \in 0 .. MaxWrites
    BY <1>1, NavigationAssumption DEF Node
  <2> QED BY <1>1, <2>1 DEF BoundsInv
<1>6. tunnels' \subseteq Pair /\ ends' \in [Ids -> SUBSET Pair]
  BY <1>1, <1>4 DEF BoundsInv
<1>7. nav'[b].todo \in {<<>>, rest} /\ \A c \in Brokers \ {b} : nav'[c] = nav[c]
  <2>1. nav \in [Brokers -> [phase: {"free", "node", "sync", "tunnel"}, todo: Seq(NavWrite)]]
    BY DEF NavInv, NavShape
  <2>2. CASE nav' = [nav EXCEPT ![b] = Free]
    BY <2>1, <2>2 DEF Free
  <2>3. CASE nav' = [nav EXCEPT ![b].todo = rest]
    <3> DEFINE next == [nav[b] EXCEPT !.todo = rest]
    <3>1. next.todo = rest
      BY <2>1
    <3>2. nav' = [nav EXCEPT ![b] = next]
      BY <2>3
    <3> HIDE DEF next, rest, todo
    <3> QED BY <2>1, <3>1, <3>2
  <2> QED BY <1>1, <2>2, <2>3
<1> HIDE DEF rest, todo
<1>8. Bounded(todo)
  BY DEF BoundsInv, todo
<1>9. Bounded(<<>>) /\ ~LogsAudit(<<>>)
  BY DEF Bounded, LogsAudit
<1>10. Bounded(rest) /\ (LogsAudit(rest) => LogsAudit(todo))
  <2>1. \A k \in 1 .. Len(rest) : k + 1 \in 1 .. Len(todo) /\ rest[k] = todo[k + 1]
    BY <1>2
  <2>2. Bounded(rest)
    BY <1>2, <1>8, <2>1 DEF Bounded
  <2>3. LogsAudit(rest) => LogsAudit(todo)
    BY <2>1 DEF LogsAudit
  <2> QED BY <2>2, <2>3
<1>11. ASSUME NEW c \in Brokers PROVE Bounded(nav'[c].todo)
  BY <1>7, <1>9, <1>10 DEF BoundsInv
<1>12. Recorders' \subseteq Recorders
  BY <1>7, <1>9, <1>10 DEF Recorders, todo
<1>13. IsFiniteSet(Recorders') /\ audit' + Cardinality(Recorders') <= writes
  <2>1. CASE w.does # "audit"
    BY <1>1, <1>12, <2>1, FewerRecord
  <2>2. CASE w.does = "audit"
    <3>1. Len(todo) = 1 /\ LogsAudit(todo)
      BY <1>1, <1>2, <1>8, <2>2 DEF Bounded, LogsAudit
    <3>2. b \in Recorders /\ b \notin Recorders'
      <4>1. rest = <<>>
        BY <1>2, <3>1, EmptySeq
      <4> QED BY <1>7, <1>9, <3>1, <4>1 DEF Recorders, todo
    <3>3. IsFiniteSet(Recorders \ {b}) /\ Cardinality(Recorders \ {b}) = Cardinality(Recorders) - 1
      BY <3>2, FS_RemoveElement DEF BoundsInv
    <3>4. IsFiniteSet(Recorders') /\ Cardinality(Recorders') <= Cardinality(Recorders \ {b})
      BY <1>12, <3>2, <3>3, FS_Subset
    <3>5. Cardinality(Recorders') \in Nat /\ Cardinality(Recorders) \in Nat /\ audit \in Nat /\ writes \in Nat
      BY <3>4, FS_CardinalityType DEF BoundsInv, StoreInv, NavInv, NavShape
    <3>6. audit' = audit + 1 /\ audit + Cardinality(Recorders) <= writes
      BY <1>1, <2>2 DEF BoundsInv
    <3> QED BY <3>3, <3>4, <3>5, <3>6
  <2> QED BY <2>1, <2>2
<1> QED BY <1>3, <1>5, <1>6, <1>11, <1>13 DEF BoundsInv

LEMMA FailsBounds ==
    ASSUME NavInv, StoreInv, BoundsInv, NEW b \in Brokers, WriteFails(b)
    PROVE  BoundsInv'
<1>1. nav' = [nav EXCEPT ![b] = Free] /\ UNCHANGED <<recent, tunnels, ends, audit, writes, rekinded>>
  BY DEF WriteFails, Untouched
<1>2. \A c \in Brokers : nav'[c].todo = <<>> \/ nav'[c] = nav[c]
  BY <1>1 DEF NavInv, NavShape, Free
<1>3. Bounded(<<>>) /\ ~LogsAudit(<<>>)
  BY DEF Bounded, LogsAudit
<1>4. Recorders' \subseteq Recorders /\ \A c \in Brokers : Bounded(nav'[c].todo)
  BY <1>2, <1>3 DEF Recorders, BoundsInv
<1>5. IsFiniteSet(Recorders') /\ audit + Cardinality(Recorders') <= writes
  BY <1>4, FewerRecord
<1> QED BY <1>1, <1>4, <1>5 DEF BoundsInv

LEMMA BoundsInit == NavInit => BoundsInv
<1> SUFFICES ASSUME NavInit PROVE BoundsInv
  OBVIOUS
<1>1. \A b \in Brokers : nav[b].todo = <<>>
  BY DEF NavInit, Free
<1>2. Bounded(<<>>) /\ ~LogsAudit(<<>>)
  BY DEF Bounded, LogsAudit
<1>3. Recorders = {}
  BY <1>1, <1>2 DEF Recorders
<1>4. IsFiniteSet(Recorders) /\ Cardinality(Recorders) = 0
  BY <1>3, FS_EmptySet
<1> QED BY <1>1, <1>2, <1>4, NavigationAssumption DEF NavInit, BoundsInv

LEMMA BoundsNext == NavInv /\ PagesInv /\ BoundsInv /\ [NavNext]_navVars => BoundsInv'
<1> SUFFICES ASSUME NavInv, StoreInv, BoundsInv, [NavNext]_navVars PROVE BoundsInv'
  BY DEF PagesInv
<1>1. CASE UNCHANGED <<recent, tunnels, ends, audit, writes, rekinded, nav>>
  BY <1>1 DEF BoundsInv, Recorders
<1>2. CASE Reading \/ UNCHANGED navVars
  BY <1>1, <1>2 DEF Reading, NextPage, BeginWalk, navVars
<1> QED BY <1>2, UpsertRequestBounds, SyncNodesBounds, LinkTunnelBounds, ExecuteBounds, FailsBounds DEF NavNext, Writing

(* The tables and sets of the palace hold what the code can put there: in    *)
(* particular a tunnel is stored under its sorted ends, and every line of    *)
(* the audit log is of one request (memory_navigation_upsert_node,           *)
(* broker.rs:3382, and memory_navigation_link_tunnel, 3462).                 *)
THEOREM PalaceIsTyped == NavSpec => []NavTypeOK
<1>1. NavInv /\ PagesInv /\ BoundsInv => NavTypeOK
  <2> SUFFICES ASSUME NavInv, PagesInv, BoundsInv PROVE NavTypeOK
    OBVIOUS
  <2>1. audit \in 0 .. MaxWrites
    <3>1. Cardinality(Recorders) \in Nat /\ audit \in Nat /\ writes \in 0 .. MaxWrites
      BY FS_CardinalityType DEF BoundsInv, PagesInv, StoreInv
    <3> QED BY <3>1, NavigationAssumption DEF BoundsInv
  <2>2. walk.phase \in {"none", "walking", "done"}
    BY DEF PagesInv, WalkShape, NoWalk
  <2>3. linked \subseteq Pair
    BY DEF PagesInv, StoreInv, BoundsInv
  <2> QED BY <2>1, <2>2, <2>3 DEF NavInv, NavShape, BoundsInv, NavTypeOK
<1> QED BY <1>1, StoreInit, PagesNext, NavInvariance, BoundsInit, BoundsNext, PTL DEF NavSpec


-----------------------------------------------------------------------------
(* The traverse is complete.  The pages of the children of a node show all  *)
(* of them; a turn of the loop keeps what a breadth-first search keeps; and *)
(* one turn for each id there is empties the queue.                         *)

LEMMA PeekIsMore ==
    ASSUME NEW t, NEW o PROVE FromPeek(t, o).more = (Len(t) > PageLimit) /\ FromPeek(t, o).next = o + PageLimit
BY DEF FromPeek

(* A page with another after it is not beyond the rows there are.           *)
LEMMA MoreIsBounded ==
    ASSUME NavInv, StoreInv, NEW W \in SUBSET Kept, NEW o \in Nat, NodesPaged(W, o).more
    PROVE  o < Cardinality(Ids)
<1>1. PageLimit \in Nat \ {0} /\ RawWindow \in Nat /\ FetchLimit \in Nat
  BY WindowIs
<1>2. IsFiniteSet(Ids) /\ Cardinality(Ids) \in Nat
  BY NavigationAssumption, FS_CardinalityType
<1>3. ASSUME NEW U, NEW s \in Seq(U), NEW n \in Nat, Len(Slice(s, o, n)) > 0 PROVE o < Len(s)
  BY <1>3, SMT DEF Slice
<1>4. CASE navStore # "redis"
  <2> DEFINE s == InOrder(W, Before)
  <2>1. s \in Seq(W) /\ Len(s) = Cardinality(W)
    BY SqlOrder, ListShows
  <2>2. NodesPaged(W, o) = FromPeek(Slice(s, o, FetchLimit), o)
    BY <1>4 DEF NodesPaged, SqliteNodesPaged, PostgresNodesPaged, NavInv, NavShape
  <2> HIDE DEF s
  <2>3. Len(Slice(s, o, FetchLimit)) > PageLimit
    <3>1. NodesPaged(W, o).more = (Len(Slice(s, o, FetchLimit)) > PageLimit)
      BY <2>2, PeekIsMore
    <3> QED BY <3>1
  <2>4. Slice(s, o, FetchLimit) \in Seq(W)
    BY <1>1, <2>1, SliceIs
  <2>5. o < Cardinality(W)
    BY <1>1, <1>3, <2>1, <2>3, <2>4
  <2>6. Cardinality(W) <= Cardinality(Ids)
    <3> DEFINE f == [n \in W |-> n.id]
    <3>1. \A n \in W : n.id \in Ids /\ nodes[n.id] = n
      BY KeptAre
    <3>2. f \in Injection(W, Ids)
      BY <3>1 DEF Injection, IsInjective
    <3> QED BY <1>2, <3>2, FS_Injection
  <2>7. Cardinality(W) \in Nat
    BY <2>1
  <2> QED BY <1>2, <2>5, <2>6, <2>7
<1>5. CASE navStore = "redis"
  <2> DEFINE ids == Slice(ByTime, o, RawWindow)
             rows == [k \in DOMAIN ids |-> nodes[ids[k]]]
             f == Among(rows, W)
  <2>1. NodesPaged(W, o) = FromPeek(Slice(f, 0, FetchLimit), o)
    BY <1>5 DEF NodesPaged, RedisNodesPaged, ByTime, RecentIds
  <2>2. ByTime \in Seq(RecentIds) /\ Len(ByTime) = Cardinality(RecentIds)
    BY RedisOrder, ListShows
  <2>3. ids \in Seq(RecentIds)
    BY <1>1, <2>2, SliceIs
  <2> HIDE DEF ids
  <2>4. Len(ids) \in Nat /\ DOMAIN rows = 1 .. Len(ids)
    BY <2>3
  <2>5. f \in Seq(W) /\ Len(f) <= Len(ids)
    <3> HIDE DEF rows
    <3> QED BY <2>4, AmongKeeps
  <2> HIDE DEF f
  <2>6. Len(Slice(f, 0, FetchLimit)) > PageLimit
    <3>1. NodesPaged(W, o).more = (Len(Slice(f, 0, FetchLimit)) > PageLimit)
      BY <2>1, PeekIsMore
    <3> QED BY <3>1
  <2>7. Len(Slice(f, 0, FetchLimit)) <= Len(f)
    BY <1>1, <2>5, SMT DEF Slice
  <2>8. Slice(f, 0, FetchLimit) \in Seq(W)
    BY <1>1, <2>5, SliceIs
  <2>9. Len(ids) > 0
    BY <1>1, <2>4, <2>5, <2>6, <2>7, <2>8
  <2>10. o < Cardinality(RecentIds)
    BY <1>1, <1>3, <2>2, <2>9 DEF ids
  <2>11. RecentIds \in SUBSET Ids
    BY DEF RecentIds
  <2>12. Cardinality(RecentIds) <= Cardinality(Ids) /\ Cardinality(RecentIds) \in Nat
    BY <1>2, <2>11, FS_Subset, FS_CardinalityType
  <2> QED BY <1>2, <2>10, <2>12
<1> QED BY <1>4, <1>5

(* A row that o others at most are before is on the page at o, or has as    *)
(* many before it as the next page begins after.                            *)
AllIndexed == navStore # "redis" \/ (Cardinality(Present) <= RawWindow /\ \A i \in Present : recent[i] # 0)
Ahead(W, n) ==
    IF navStore = "redis" THEN Cardinality({j \in Ids : recent[j] # 0 /\ Later(j, n.id)})
    ELSE Cardinality({m \in W : Before(m, n)})

LEMMA NodesPageShows ==
    ASSUME NavInv, StoreInv, AllIndexed, NEW W \in SUBSET Kept, NEW o \in Nat, NEW n \in W, o <= Ahead(W, n)
    PROVE  n \in ToSet(NodesPaged(W, o).items) \/ (NodesPaged(W, o).more /\ o + PageLimit <= Ahead(W, n))
<1>1. CASE navStore = "redis"
  <2>1. n.id \in Present /\ nodes[n.id] = n
    BY KeptAre
  <2>2. n.id \in RecentIds
    BY <1>1, <2>1 DEF AllIndexed, RecentIds, Present
  <2>3. NodesPaged(W, o) = RedisNodesPaged(W, o)
    BY <1>1 DEF NodesPaged
  <2> QED BY <1>1, <2>1, <2>2, <2>3, RedisPageShows DEF AllIndexed, Ahead
<1>2. CASE navStore # "redis"
  <2>1. NodesPaged(W, o) = FromPeek(Slice(InOrder(W, Before), o, FetchLimit), o)
    BY <1>2 DEF NodesPaged, SqliteNodesPaged, PostgresNodesPaged, NavInv, NavShape
  <2> QED BY <1>2, <2>1, SqlPageShows DEF Ahead
<1> QED BY <1>1, <1>2

(* The pages of the children of a node, put together, show just them.        *)
LEMMA ChildPagesShow ==
    ASSUME NavInv, StoreInv, AllIndexed, NEW i
    PROVE  {n.id : n \in ToSet(ChildPages(i))} = {j \in Present : nodes[j].parent = i}
<1> DEFINE W == {n \in Kept : Parented(n, i)}
           more == {o \in Nat : NodesPaged(W, o).more}
           items == [o \in Nat |-> NodesPaged(W, o).items]
           next == [o \in Nat |-> NodesPaged(W, o).next]
           N == Cardinality(Ids)
           Fn(g) == [o \in Nat |-> IF NodesPaged(W, o).more THEN NodesPaged(W, o).items \o g[NodesPaged(W, o).next]
                                   ELSE NodesPaged(W, o).items]
           Gn(g) == [o \in Nat |-> IF o \in more THEN items[o] \o g[next[o]] ELSE items[o]]
           from == CHOOSE g : g = Fn(g)
<1>1. ChildPages(i) = from[0]
  BY DEF ChildPages
<1>2. W \in SUBSET Kept
  OBVIOUS
<1>3. PageLimit \in Nat \ {0} /\ IsFiniteSet(Ids) /\ N \in Nat
  BY NavigationAssumption, FS_CardinalityType
<1> HIDE DEF W
<1>4. items \in [Nat -> Seq(W)] /\ next \in [Nat -> Nat]
  <2>1. \A o \in Nat : NodesPaged(W, o).items \in Seq(W) /\ NodesPaged(W, o).next = o + PageLimit
    BY <1>2, NodesPageIs
  <2>2. \A o \in Nat : NodesPaged(W, o).next \in Nat
    BY <1>3, <2>1
  <2> QED BY <2>1, <2>2
<1>5. \A o \in more : o \in Nat /\ o < N /\ o < next[o]
  <2>1. \A o \in more : o < N
    BY <1>2, MoreIsBounded
  <2>2. \A o \in Nat : NodesPaged(W, o).next = o + PageLimit
    BY <1>2, NodesPageIs
  <2> QED BY <1>3, <2>1, <2>2
<1>6. \A g : Fn(g) = Gn(g)
  OBVIOUS
<1>7. ASSUME NEW n \in W PROVE \A o \in Nat : o <= Ahead(W, n) => n \in ToSet(items[o]) \/ (o \in more /\ next[o] <= Ahead(W, n))
  <2> SUFFICES ASSUME NEW o \in Nat, o <= Ahead(W, n)
               PROVE  n \in ToSet(items[o]) \/ (o \in more /\ next[o] <= Ahead(W, n))
    OBVIOUS
  <2>1. NodesPaged(W, o).next = o + PageLimit
    BY <1>2, NodesPageIs
  <2>2. n \in ToSet(NodesPaged(W, o).items) \/ (NodesPaged(W, o).more /\ o + PageLimit <= Ahead(W, n))
    BY <1>2, <1>7, NodesPageShows
  <2>3. items[o] = NodesPaged(W, o).items /\ next[o] = NodesPaged(W, o).next /\ (NodesPaged(W, o).more => o \in more)
    OBVIOUS
  <2> HIDE DEF items, next, more
  <2> QED BY <2>1, <2>2, <2>3
<1> HIDE DEF items, next, N
<1>8. from = Gn(from)
  <2>0. more \subseteq Nat
    OBVIOUS
  <2> HIDE DEF more
  <2>1. PICK f \in [Nat -> Seq(W)] : \A o \in Nat : f[o] = IF o \in more THEN items[o] \o f[next[o]] ELSE items[o]
    <3>1. ArePages(W, more, items, next, N)
      BY <1>3, <1>4, <1>5, <2>0 DEF ArePages
    <3> QED BY <3>1, PagesExist
  <2>2. f = [o \in Nat |-> f[o]]
    OBVIOUS
  <2>3. f = Gn(f)
    BY <2>1, <2>2
  <2>4. f = Fn(f)
    BY <1>6, <2>3
  <2>5. from = Fn(from)
    <3> HIDE DEF Fn
    <3> QED BY <2>4
  <2> QED BY <1>6, <2>5
<1> HIDE DEF from, more, Fn
<1>9. /\ from \in [Nat -> Seq(W)]
      /\ \A x \in W, a \in Nat :
            (\A o \in Nat : o <= a => x \in ToSet(items[o]) \/ (o \in more /\ next[o] <= a))
            => \A o \in Nat : o <= a => x \in ToSet(from[o])
  <2>1. more \subseteq Nat
    BY DEF more
  <2>2. ArePages(W, more, items, next, N)
    BY <1>3, <1>4, <1>5, <2>1 DEF ArePages
  <2>3. ArePut(from, more, items, next)
    BY <1>8 DEF ArePut
  <2>4. from \in [Nat -> Seq(W)] /\ PutShows(from, W, more, items, next)
    BY <2>2, <2>3, PagesShow
  <2> QED BY <2>4 DEF PutShows
<1>10. ASSUME NEW n \in W PROVE n \in ToSet(ChildPages(i))
  <2>1. Ahead(W, n) \in Nat
    <3>1. IsFiniteSet({j \in Ids : recent[j] # 0 /\ Later(j, n.id)})
      BY <1>3, FS_Subset
    <3>2. IsFiniteSet({m \in W : Before(m, n)})
      <4>1. {m \in W : Before(m, n)} \in SUBSET Kept
        BY <1>2
      <4> QED BY <4>1, KeptAre, FS_Subset
    <3> QED BY <3>1, <3>2, FS_CardinalityType DEF Ahead
  <2>2. \A o \in Nat : o <= Ahead(W, n) => n \in ToSet(from[o])
    <3>1. \A o \in Nat : o <= Ahead(W, n) => n \in ToSet(items[o]) \/ (o \in more /\ next[o] <= Ahead(W, n))
      BY <1>7
    <3> QED BY <1>9, <2>1, <3>1
  <2>3. 0 \in Nat /\ 0 <= Ahead(W, n)
    BY <2>1
  <2> QED BY <1>1, <2>2, <2>3
<1>11. ToSet(ChildPages(i)) \subseteq W
  <2>1. \A s \in Seq(W) : ToSet(s) \subseteq W
    BY DEF ToSet
  <2> QED BY <1>1, <1>9, <2>1
<1>12. ToSet(ChildPages(i)) = W
  BY <1>10, <1>11
<1>13. \A n \in Kept : n.id \in Present /\ nodes[n.id] = n
  BY KeptAre
<1>14. \A j \in Present : nodes[j] \in Kept /\ nodes[j].id = j
  BY KeptAre
<1> QED BY <1>12, <1>13, <1>14 DEF W, Parented

-----------------------------------------------------------------------------
(* The nodes one edge away from a node, and those k edges away at most.      *)
Beside(i) == {j \in Present : nodes[i].parent = j \/ nodes[j].parent = i}
Around(S) == S \union {i \in Present : \E j \in S : nodes[i].parent = j \/ nodes[j].parent = i}
Level(start, k) == CASE k = 0 -> {start} [] k = 1 -> Around({start}) [] k = 2 -> Around(Around({start}))

LEMMA LevelIs ==
    ASSUME NEW start
    PROVE  /\ Level(start, 0) = {start}
           /\ \A k \in {0, 1} : Level(start, k + 1) = Around(Level(start, k))
           /\ \A k, d \in 0 .. 2 : k <= d => Level(start, k) \subseteq Level(start, d)
<1>1. Level(start, 0) = {start} /\ Level(start, 1) = Around({start}) /\ Level(start, 2) = Around(Around({start}))
  BY DEF Level
<1>2. \A S : S \subseteq Around(S)
  BY DEF Around
<1>3. \A k \in {0, 1} : Level(start, k + 1) = Around(Level(start, k))
  BY <1>1
<1>4. ASSUME NEW k \in 0 .. 2, NEW d \in 0 .. 2, k <= d PROVE Level(start, k) \subseteq Level(start, d)
  <2>1. (k = 0 \/ k = 1 \/ k = 2) /\ (d = 0 \/ d = 1 \/ d = 2)
    OBVIOUS
  <2> QED BY <1>1, <1>2, <1>4, <2>1
<1> QED BY <1>1, <1>3, <1>4

LEMMA NearIs ==
    ASSUME NEW start, NEW d \in 0 .. 2 PROVE Near(start, d) = Level(start, d)
<1> DEFINE Fn(g) == [k \in 0 .. d |->
                        IF k = 0 THEN {start}
                        ELSE g[k - 1] \union {i \in Present : \E j \in g[k - 1] : nodes[i].parent = j \/ nodes[j].parent = i}]
           near == CHOOSE g : g = Fn(g)
           lev == [k \in 0 .. d |-> Level(start, k)]
<1>1. Near(start, d) = near[d]
  BY DEF Near
<1>2. \A g : Fn(g) = [k \in 0 .. d |-> IF k = 0 THEN {start} ELSE Around(g[k - 1])]
  BY DEF Around
<1>3. lev = Fn(lev)
  <2>1. ASSUME NEW k \in 0 .. d
        PROVE  Level(start, k) = IF k = 0 THEN {start} ELSE Around(lev[k - 1])
    <3>1. CASE k = 0
      BY <3>1, LevelIs
    <3>2. CASE k # 0
      <4>1. k - 1 \in {0, 1} /\ k - 1 \in 0 .. d /\ (k - 1) + 1 = k
        BY <3>2
      <4>2. lev[k - 1] = Level(start, k - 1)
        BY <4>1
      <4>3. Level(start, (k - 1) + 1) = Around(Level(start, k - 1))
        BY <4>1, LevelIs
      <4> QED BY <3>2, <4>1, <4>2, <4>3
    <3> QED BY <3>1, <3>2
  <2>2. lev = [k \in 0 .. d |-> IF k = 0 THEN {start} ELSE Around(lev[k - 1])]
    BY <2>1
  <2> HIDE DEF lev, Fn
  <2> QED BY <1>2, <2>2
<1>4. near = Fn(near)
  <2> HIDE DEF Fn
  <2> QED BY <1>3
<1>5. near = [k \in 0 .. d |-> IF k = 0 THEN {start} ELSE Around(near[k - 1])]
  <2> HIDE DEF near, Fn
  <2> QED BY <1>2, <1>4
<1> HIDE DEF near
<1>6. \A k \in 0 .. d : near[k] = IF k = 0 THEN {start} ELSE Around(near[k - 1])
  <2> DEFINE g == [k \in 0 .. d |-> IF k = 0 THEN {start} ELSE Around(near[k - 1])]
  <2>1. \A k \in 0 .. d : g[k] = IF k = 0 THEN {start} ELSE Around(near[k - 1])
    OBVIOUS
  <2>2. near = g
    BY <1>5
  <2> HIDE DEF g
  <2> QED BY <2>1, <2>2
<1>7. near[0] = {start}
  BY <1>6
<1>8. 1 <= d => near[1] = Around({start})
  <2>1. 1 <= d => near[1] = Around(near[1 - 1])
    BY <1>6
  <2> QED BY <1>7, <2>1
<1>9. 2 <= d => near[2] = Around(Around({start}))
  <2>1. 2 <= d => near[2] = Around(near[2 - 1])
    BY <1>6
  <2> QED BY <1>8, <2>1
<1>10. d = 0 \/ d = 1 \/ d = 2
  OBVIOUS
<1> QED BY <1>1, <1>7, <1>8, <1>9, <1>10 DEF Level

(* A node a traverse comes to: what it finds are the nodes beside it.        *)
Unseen(s, i) ==
    LET near == {nodes[i].parent} \union {n.id : n \in ToSet(ChildPages(i))}
    IN {j \in near \cap Present : j \notin s.visited}
LEMMA FoundBeside ==
    ASSUME NavInv, StoreInv, AllIndexed, NEW s, NEW i PROVE Unseen(s, i) = Beside(i) \ s.visited
<1>1. {n.id : n \in ToSet(ChildPages(i))} = {j \in Present : nodes[j].parent = i}
  BY ChildPagesShow
<1> QED BY <1>1 DEF Unseen, Beside

VisitStates(d) == [queue: Seq(Ids \X (0 .. d)), ordered: Seq(Ids), visited: SUBSET Ids, stopped: BOOLEAN, truncated: BOOLEAN]

LEMMA VisitDoes ==
    ASSUME NEW d \in Nat, NEW s \in VisitStates(d), s.queue # <<>>, ~s.stopped
    PROVE  LET t == Visit(s, d)
               i == Head(s.queue)[1]
               k == Head(s.queue)[2]
           IN /\ i \in Ids /\ k \in 0 .. d
              /\ t \in VisitStates(d)
              /\ t.ordered = Append(s.ordered, i)
              /\ Len(s.ordered) + 1 >= MaxTraverse => t.queue = Tail(s.queue) /\ t.visited = s.visited /\ t.stopped
              /\ Len(s.ordered) + 1 < MaxTraverse => ~t.stopped /\ t.truncated = s.truncated
              /\ Len(s.ordered) + 1 < MaxTraverse /\ k >= d => t.queue = Tail(s.queue) /\ t.visited = s.visited
              /\ Len(s.ordered) + 1 < MaxTraverse /\ k < d =>
                    /\ t.queue = Tail(s.queue) \o SetToSeq(Unseen(s, i) \X {k + 1})
                    /\ t.visited = s.visited \union Unseen(s, i)
<1> DEFINE t == Visit(s, d)
           i == Head(s.queue)[1]
           k == Head(s.queue)[2]
           added == SetToSeq(Unseen(s, i) \X {k + 1})
           ordered == Append(s.ordered, i)
<1>1. /\ s.queue \in Seq(Ids \X (0 .. d)) /\ s.ordered \in Seq(Ids) /\ s.visited \in SUBSET Ids
      /\ s.stopped = FALSE /\ s.truncated \in BOOLEAN
  BY DEF VisitStates
<1>2. Head(s.queue) \in Ids \X (0 .. d) /\ Tail(s.queue) \in Seq(Ids \X (0 .. d))
  BY <1>1
<1>3. i \in Ids /\ k \in 0 .. d
  BY <1>2
<1>4. ordered \in Seq(Ids) /\ Len(ordered) = Len(s.ordered) + 1 /\ Len(s.ordered) \in Nat
  BY <1>1, <1>3
<1>5. t = IF Len(ordered) >= MaxTraverse
            THEN [s EXCEPT !.queue = Tail(s.queue), !.ordered = ordered, !.stopped = TRUE, !.truncated = Tail(s.queue) # <<>>]
          ELSE IF k >= d THEN [s EXCEPT !.queue = Tail(s.queue), !.ordered = ordered]
          ELSE [s EXCEPT !.queue = Tail(s.queue) \o added, !.ordered = ordered, !.visited = @ \union Unseen(s, i)]
  BY DEF Visit, Unseen
<1>6. Unseen(s, i) \in SUBSET Ids
  BY DEF Unseen, Present
<1>7. k < d => added \in Seq(Ids \X (0 .. d))
  <2> SUFFICES ASSUME k < d PROVE added \in Seq(Ids \X (0 .. d))
    OBVIOUS
  <2>1. IsFiniteSet(Unseen(s, i)) /\ IsFiniteSet({k + 1})
    BY <1>6, NavigationAssumption, FS_Subset, FS_Singleton
  <2>2. IsFiniteSet(Unseen(s, i) \X {k + 1})
    BY <2>1, FS_Product
  <2>3. added \in Seq(Unseen(s, i) \X {k + 1})
    BY <2>2, SetToSeqLists
  <2>4. Unseen(s, i) \X {k + 1} \subseteq Ids \X (0 .. d)
    BY <1>3, <1>6
  <2> HIDE DEF added, i, k
  <2>5. ASSUME NEW A, NEW B, A \subseteq B, NEW a \in Seq(A) PROVE a \in Seq(B)
    BY <2>5
  <2> QED BY <2>3, <2>4, <2>5
<1> HIDE DEF t, i, k, added, ordered
<1>8. MaxTraverse \in Nat
  BY NavigationAssumption
<1>9. CASE Len(ordered) >= MaxTraverse
  <2>1. t = [s EXCEPT !.queue = Tail(s.queue), !.ordered = ordered, !.stopped = TRUE, !.truncated = Tail(s.queue) # <<>>]
    BY <1>5, <1>9
  <2>2. /\ t.queue = Tail(s.queue) /\ t.ordered = ordered /\ t.stopped = TRUE /\ t.visited = s.visited
        /\ t \in VisitStates(d)
    BY <1>2, <1>4, <2>1 DEF VisitStates
  <2> QED BY <1>3, <1>4, <1>8, <1>9, <2>2 DEF t, i, k, ordered
<1>10. CASE ~(Len(ordered) >= MaxTraverse) /\ k >= d
  <2>1. t = [s EXCEPT !.queue = Tail(s.queue), !.ordered = ordered]
    BY <1>5, <1>10
  <2>2. /\ t.queue = Tail(s.queue) /\ t.ordered = ordered /\ t.stopped = s.stopped /\ t.truncated = s.truncated
        /\ t.visited = s.visited /\ t \in VisitStates(d)
    BY <1>2, <1>4, <2>1 DEF VisitStates
  <2>3. Len(s.ordered) + 1 < MaxTraverse /\ ~(k < d)
    BY <1>3, <1>4, <1>8, <1>10
  <2> QED BY <1>1, <1>3, <1>4, <1>8, <2>2, <2>3 DEF t, i, k, ordered
<1>11. CASE ~(Len(ordered) >= MaxTraverse) /\ ~(k >= d)
  <2>1. t = [s EXCEPT !.queue = Tail(s.queue) \o added, !.ordered = ordered, !.visited = @ \union Unseen(s, i)]
    BY <1>5, <1>11
  <2>2. Len(s.ordered) + 1 < MaxTraverse /\ k < d
    BY <1>3, <1>4, <1>8, <1>11
  <2>3. Tail(s.queue) \o added \in Seq(Ids \X (0 .. d))
    BY <1>2, <1>7, <2>2, ConcatShows
  <2>4. s.visited \union Unseen(s, i) \in SUBSET Ids
    BY <1>1, <1>6
  <2>5. /\ t.queue = Tail(s.queue) \o added /\ t.ordered = ordered /\ t.stopped = s.stopped /\ t.truncated = s.truncated
        /\ t.visited = s.visited \union Unseen(s, i) /\ t \in VisitStates(d)
    BY <1>4, <2>1, <2>3, <2>4 DEF VisitStates
  <2> QED BY <1>1, <1>3, <1>4, <1>8, <1>11, <2>2, <2>5 DEF t, i, k, ordered, added
<1> QED BY <1>9, <1>10, <1>11

LEMMA VisitStays ==
    ASSUME NEW d \in Nat, NEW s \in VisitStates(d) PROVE Visit(s, d) \in VisitStates(d)
<1>1. CASE s.queue = <<>> \/ s.stopped
  BY <1>1 DEF Visit
<1>2. CASE s.queue # <<>> /\ ~s.stopped
  BY <1>2, VisitDoes
<1> QED BY <1>1, <1>2

(* A traverse is one visit for each id there is, one after the other.        *)
FromStart(start) ==
    [queue |-> <<<<start, 0>>>>, ordered |-> <<>>, visited |-> {start}, stopped |-> FALSE, truncated |-> FALSE]

LEMMA FromStartIs ==
    ASSUME NEW start \in Ids, NEW d \in Nat PROVE FromStart(start) \in VisitStates(d)
<1>1. <<start, 0>> \in Ids \X (0 .. d)
  OBVIOUS
<1>2. <<<<start, 0>>>> \in Seq(Ids \X (0 .. d)) /\ <<>> \in Seq(Ids)
  BY <1>1
<1> QED BY <1>2 DEF FromStart, VisitStates

LEMMA TraverseRuns ==
    ASSUME NEW start \in Ids, NEW d \in Nat
    PROVE  \E g : /\ Traverse(start, d) = g[Ids]
                  /\ \A s \in SUBSET Ids : g[s] = IF s = {} THEN FromStart(start) ELSE Visit(g[s \ {Max(s)}], d)
<1> DEFINE Fn(g) == [s \in SUBSET Ids |-> IF s = {} THEN FromStart(start) ELSE Visit(g[s \ {Max(s)}], d)]
           iter == CHOOSE g : g = Fn(g)
           X == VisitStates(d)
           G == [p \in X \X Ids |-> Visit(p[1], d)]
<1>1. Traverse(start, d) = iter[Ids]
  BY DEF Traverse, FoldLeft, MapThenFoldSet, FromStart
<1>2. IsFiniteSet(Ids) /\ Ids \subseteq Nat
  BY NavigationAssumption
<1>3. FromStart(start) \in X
  BY FromStartIs
<1>4. G \in [X \X Ids -> X]
  <2>1. \A p \in X \X Ids : Visit(p[1], d) \in X
    BY VisitStays
  <2> HIDE DEF X
  <2> QED BY <2>1
<1>5. \A x \in X, i \in Ids : G[<<x, i>>] = Visit(x, d)
  OBVIOUS
<1> HIDE DEF X, G
<1>6. PICK h \in [SUBSET Ids -> X] : IsFold(h, Ids, FromStart(start), G)
  <2>1. FoldsOver(Ids, X, FromStart(start), G)
    BY <1>2, <1>3, <1>4 DEF FoldsOver
  <2> QED BY <2>1, FoldExists
<1>7. ASSUME NEW s \in SUBSET Ids
      PROVE  h[s] = IF s = {} THEN FromStart(start) ELSE Visit(h[s \ {Max(s)}], d)
  <2>1. CASE s = {}
    BY <1>6, <2>1 DEF IsFold
  <2>2. CASE s # {}
    <3>1. IsFiniteSet(s) /\ s \subseteq Int
      <4>1. IsFiniteSet(s)
        BY <1>2, FS_Subset
      <4>2. s \subseteq Int
        BY <1>2
      <4> QED BY <4>1, <4>2
    <3>2. Max(s) \in Ids
      BY <2>2, <3>1, MaxIs
    <3>3. s \ {Max(s)} \in SUBSET Ids
      OBVIOUS
    <3>4. h[s \ {Max(s)}] \in X
      BY <3>3
    <3>5. h[s] = G[<<h[s \ {Max(s)}], Max(s)>>]
      BY <1>6, <2>2 DEF IsFold
    <3> QED BY <1>5, <2>2, <3>2, <3>4, <3>5
  <2> QED BY <2>1, <2>2
<1>8. h = Fn(h)
  <2>1. h = [s \in SUBSET Ids |-> h[s]]
    OBVIOUS
  <2> QED BY <1>7, <2>1
<1>9. iter = Fn(iter)
  <2> HIDE DEF Fn
  <2> QED BY <1>8
<1> HIDE DEF iter
<1>10. \A s \in SUBSET Ids : iter[s] = IF s = {} THEN FromStart(start) ELSE Visit(iter[s \ {Max(s)}], d)
  <2> DEFINE g == Fn(iter)
  <2>1. \A s \in SUBSET Ids : g[s] = IF s = {} THEN FromStart(start) ELSE Visit(iter[s \ {Max(s)}], d)
    OBVIOUS
  <2>2. iter = g
    BY <1>9
  <2> HIDE DEF g
  <2> QED BY <2>1, <2>2
<1> QED BY <1>1, <1>10

-----------------------------------------------------------------------------
(* What a search breadth first keeps: the queue and the nodes it has left   *)
(* hold each node once, in the order of their depths, and the depths in the *)
(* queue differ by one at most.                                             *)
Waiting(q) == {q[k][1] : k \in 1 .. Len(q)}
QueueIs(q, dep) ==
    /\ \A k \in 1 .. Len(q) : q[k][2] = dep[q[k][1]]
    /\ \A j, k \in 1 .. Len(q) : j < k => q[j][1] # q[k][1] /\ q[j][2] <= q[k][2]
    /\ \A j, k \in 1 .. Len(q) : q[k][2] <= q[j][2] + 1
OrderedIs(o, q, dep) ==
    /\ \A j, k \in 1 .. Len(o) : o[j] = o[k] => j = k
    /\ \A j \in 1 .. Len(o), k \in 1 .. Len(q) : o[j] # q[k][1] /\ dep[o[j]] <= q[k][2]

LEMMA QueueTail ==
    ASSUME NEW d \in Nat, NEW q \in Seq(Ids \X (0 .. d)), q # <<>>, NEW dep \in [Ids -> 0 .. d], QueueIs(q, dep),
           NEW o \in Seq(Ids), OrderedIs(o, q, dep)
    PROVE  /\ QueueIs(Tail(q), dep) /\ OrderedIs(Append(o, Head(q)[1]), Tail(q), dep)
           /\ ToSet(Append(o, Head(q)[1])) = ToSet(o) \union {Head(q)[1]}
           /\ Waiting(q) = {Head(q)[1]} \union Waiting(Tail(q))
           /\ dep[Head(q)[1]] = Head(q)[2] /\ Head(q)[1] \in Ids /\ Head(q)[2] \in 0 .. d
           /\ \A k \in 1 .. Len(Tail(q)) : Tail(q)[k][2] \in Head(q)[2] .. Head(q)[2] + 1
           /\ \A j \in 1 .. Len(Append(o, Head(q)[1])) : dep[Append(o, Head(q)[1])[j]] <= Head(q)[2]
<1> DEFINE i == Head(q)[1]
           e == Head(q)[2]
           r == Tail(q)
           p == Append(o, i)
           m == Len(q)
           n == Len(o)
<1>1. m \in Nat \ {0} /\ n \in Nat
  OBVIOUS
<1>2. r \in Seq(Ids \X (0 .. d)) /\ Len(r) = m - 1 /\ \A k \in 1 .. m - 1 : r[k] = q[k + 1]
  OBVIOUS
<1>3. Head(q) = q[1] /\ q[1] \in Ids \X (0 .. d)
  OBVIOUS
<1>4. i \in Ids /\ e \in 0 .. d /\ i = q[1][1] /\ e = q[1][2]
  BY <1>3
<1>5. \A k \in 1 .. m : q[k] \in Ids \X (0 .. d)
  OBVIOUS
<1>6. \A k \in 1 .. m : q[k][1] \in Ids /\ q[k][2] \in 0 .. d
  BY <1>5
<1>7. p \in Seq(Ids) /\ Len(p) = n + 1 /\ p[n + 1] = i /\ \A j \in 1 .. n : p[j] = o[j]
  BY <1>4
<1>8. \A j \in 1 .. n : o[j] \in Ids
  OBVIOUS
<1>9. \A j \in Ids : dep[j] \in 0 .. d
  OBVIOUS
<1>10. /\ \A k \in 1 .. m : q[k][2] = dep[q[k][1]]
       /\ \A j, k \in 1 .. m : j < k => q[j][1] # q[k][1] /\ q[j][2] <= q[k][2]
       /\ \A j, k \in 1 .. m : q[k][2] <= q[j][2] + 1
  BY DEF QueueIs
<1>11. /\ \A j, k \in 1 .. n : o[j] = o[k] => j = k
       /\ \A j \in 1 .. n, k \in 1 .. m : o[j] # q[k][1] /\ dep[o[j]] <= q[k][2]
  BY DEF OrderedIs
<1>12. ToSet(p) = ToSet(o) \union {i}
  <2>1. ToSet(p) = {p[k] : k \in 1 .. n + 1}
    <3>1. DOMAIN p = 1 .. n + 1
      BY <1>7
    <3> QED BY <3>1 DEF ToSet
  <2>2. ToSet(o) = {o[k] : k \in 1 .. n}
    <3>1. DOMAIN o = 1 .. n
      OBVIOUS
    <3> QED BY <3>1 DEF ToSet
  <2> HIDE DEF p, n, i
  <2>3. \A k \in 1 .. n + 1 : k \in 1 .. n \/ k = n + 1
    BY <1>1
  <2>4. \A k \in 1 .. n : k \in 1 .. n + 1 /\ n + 1 \in 1 .. n + 1
    BY <1>1
  <2>5. ToSet(p) \subseteq ToSet(o) \union {i}
    <3> SUFFICES ASSUME NEW k \in 1 .. n + 1 PROVE p[k] \in ToSet(o) \union {i}
      BY <2>1
    <3>1. k \in 1 .. n => p[k] = o[k]
      BY <1>7
    <3>2. k = n + 1 => p[k] = i
      BY <1>7
    <3> QED BY <2>2, <2>3, <3>1, <3>2
  <2>6. ToSet(o) \subseteq ToSet(p)
    <3> SUFFICES ASSUME NEW k \in 1 .. n PROVE o[k] \in ToSet(p)
      BY <2>2
    <3>1. p[k] = o[k] /\ k \in 1 .. n + 1
      BY <1>7, <2>4
    <3> QED BY <2>1, <3>1
  <2>7. i \in ToSet(p)
    <3>1. n + 1 \in 1 .. n + 1 /\ p[n + 1] = i
      BY <1>1, <1>7
    <3> QED BY <2>1, <3>1
  <2> QED BY <2>5, <2>6, <2>7
<1> HIDE DEF i, e, r, p, m, n
<1>13. QueueIs(r, dep)
  <2>1. \A k \in 1 .. m - 1 : k + 1 \in 1 .. m
    BY <1>1
  <2>2. \A k \in 1 .. m - 1 : r[k][2] = dep[r[k][1]]
    BY <1>2, <1>10, <2>1
  <2>3. \A j, k \in 1 .. m - 1 : j < k => r[j][1] # r[k][1] /\ r[j][2] <= r[k][2]
    <3> SUFFICES ASSUME NEW j \in 1 .. m - 1, NEW k \in 1 .. m - 1, j < k PROVE r[j][1] # r[k][1] /\ r[j][2] <= r[k][2]
      OBVIOUS
    <3>1. j + 1 < k + 1 /\ j + 1 \in 1 .. m /\ k + 1 \in 1 .. m
      BY <1>1
    <3>2. q[j + 1][1] # q[k + 1][1] /\ q[j + 1][2] <= q[k + 1][2]
      BY <1>10, <3>1
    <3> QED BY <1>2, <3>2
  <2>4. \A j, k \in 1 .. m - 1 : r[k][2] <= r[j][2] + 1
    BY <1>2, <1>10, <2>1
  <2> QED BY <1>2, <2>2, <2>3, <2>4 DEF QueueIs
<1>14. OrderedIs(p, r, dep)
  <2>1. \A j, k \in 1 .. n + 1 : p[j] = p[k] => j = k
    <3> SUFFICES ASSUME NEW j \in 1 .. n + 1, NEW k \in 1 .. n + 1, p[j] = p[k] PROVE j = k
      OBVIOUS
    <3>1. 1 \in 1 .. m
      BY <1>1
    <3>2. \A l \in 1 .. n : p[l] # i
      BY <1>4, <1>7, <1>11, <3>1
    <3>3. (j \in 1 .. n \/ j = n + 1) /\ (k \in 1 .. n \/ k = n + 1)
      BY <1>1
    <3> QED BY <1>7, <1>11, <3>2, <3>3
  <2>2. ASSUME NEW j \in 1 .. n + 1, NEW k \in 1 .. m - 1 PROVE p[j] # r[k][1] /\ dep[p[j]] <= r[k][2]
    <3>1. k + 1 \in 1 .. m /\ 1 \in 1 .. m /\ 1 < k + 1 /\ r[k] = q[k + 1]
      BY <1>1, <1>2
    <3>2. CASE j \in 1 .. n
      BY <1>7, <1>11, <3>1, <3>2
    <3>3. CASE j = n + 1
      BY <1>4, <1>7, <1>10, <3>1, <3>3
    <3>4. j \in 1 .. n \/ j = n + 1
      <4>1. n \in Nat /\ j \in 1 .. n + 1
        BY <1>1
      <4> HIDE DEF n
      <4> QED BY <4>1
    <3> QED BY <3>2, <3>3, <3>4
  <2> QED BY <1>2, <1>7, <2>1, <2>2 DEF OrderedIs
<1>15. Waiting(q) = {i} \union Waiting(r)
  <2>1. Waiting(q) = {q[k][1] : k \in 1 .. m} /\ Waiting(r) = {q[k + 1][1] : k \in 1 .. m - 1}
    BY <1>2 DEF Waiting, m
  <2>2. ASSUME NEW k \in 1 .. m PROVE k = 1 \/ (k - 1 \in 1 .. m - 1 /\ (k - 1) + 1 = k)
    BY <1>1
  <2>3. 1 \in 1 .. m /\ \A k \in 1 .. m - 1 : k + 1 \in 1 .. m
    BY <1>1
  <2>4. Waiting(q) \subseteq {i} \union Waiting(r)
    <3> SUFFICES ASSUME NEW k \in 1 .. m PROVE q[k][1] \in {i} \union Waiting(r)
      BY <2>1
    <3>1. CASE k = 1
      BY <1>4, <3>1
    <3>2. CASE k # 1
      <4>1. PICK l \in 1 .. m - 1 : l + 1 = k
        BY <2>2, <3>2
      <4> QED BY <2>1, <4>1
    <3> QED BY <3>1, <3>2
  <2>5. {i} \union Waiting(r) \subseteq Waiting(q)
    BY <1>4, <2>1, <2>3
  <2> QED BY <2>4, <2>5
<1>16. dep[i] = e
  <2>1. 1 \in 1 .. m
    BY <1>1
  <2> QED BY <1>4, <1>10, <2>1
<1>17. ASSUME NEW k \in 1 .. m - 1 PROVE r[k][2] \in e .. e + 1
  <2>1. k + 1 \in 1 .. m /\ 1 \in 1 .. m /\ 1 < k + 1 /\ r[k] = q[k + 1]
    BY <1>1, <1>2
  <2>2. q[1][2] <= q[k + 1][2] /\ q[k + 1][2] <= q[1][2] + 1
    BY <1>10, <2>1
  <2>3. q[k + 1][2] \in Int /\ e \in Int
    BY <1>4, <1>6, <2>1
  <2> QED BY <1>4, <2>1, <2>2, <2>3
<1>18. ASSUME NEW j \in 1 .. n + 1 PROVE dep[p[j]] <= e
  <2>1. 1 \in 1 .. m
    BY <1>1
  <2>2. CASE j \in 1 .. n
    BY <1>4, <1>7, <1>11, <2>1, <2>2
  <2>3. CASE j = n + 1
    BY <1>4, <1>7, <1>16, <2>3
  <2> QED BY <1>1, <2>2, <2>3
<1> QED BY <1>2, <1>4, <1>7, <1>12, <1>13, <1>14, <1>15, <1>16, <1>17, <1>18 DEF i, e, r, p

Deeper(dep, F, k) == [j \in Ids |-> IF j \in F THEN k + 1 ELSE dep[j]]

MayGrow(d, q, dep, o, k, F) ==
    /\ d \in Nat /\ q \in Seq(Ids \X (0 .. d)) /\ dep \in [Ids -> 0 .. d] /\ QueueIs(q, dep)
    /\ o \in Seq(Ids) /\ OrderedIs(o, q, dep) /\ k \in 0 .. d /\ k < d
    /\ (\A j \in 1 .. Len(q) : q[j][2] \in k .. k + 1) /\ \A j \in 1 .. Len(o) : dep[o[j]] <= k
    /\ F \in SUBSET Ids /\ F \cap Waiting(q) = {} /\ F \cap ToSet(o) = {}

LEMMA QueueGrows ==
    ASSUME NEW d, NEW q, NEW dep, NEW o, NEW k, NEW F, MayGrow(d, q, dep, o, k, F)
    PROVE  LET q2 == q \o SetToSeq(F \X {k + 1})
               dep2 == Deeper(dep, F, k)
           IN QueueIs(q2, dep2) /\ OrderedIs(o, q2, dep2) /\ Waiting(q2) = Waiting(q) \union F /\ dep2 \in [Ids -> 0 .. d]
<1> DEFINE added == SetToSeq(F \X {k + 1})
           q2 == q \o added
           dep2 == Deeper(dep, F, k)
           m == Len(q)
           l == Len(added)
<1>0. /\ d \in Nat /\ q \in Seq(Ids \X (0 .. d)) /\ dep \in [Ids -> 0 .. d] /\ o \in Seq(Ids) /\ k \in 0 .. d /\ k < d
      /\ F \in SUBSET Ids
  BY DEF MayGrow
<1> USE <1>0 DEF MayGrow
<1>1. IsFiniteSet(F \X {k + 1})
  <2>1. IsFiniteSet(F) /\ IsFiniteSet({k + 1})
    BY NavigationAssumption, FS_Subset, FS_Singleton
  <2> QED BY <2>1, FS_Product
<1>2. /\ added \in Seq(F \X {k + 1}) /\ l \in Nat
      /\ \A i, j \in 1 .. l : added[i] = added[j] => i = j
      /\ \A x \in F \X {k + 1} : \E i \in 1 .. l : added[i] = x
  <2> DEFINE S == F \X {k + 1}
  <2>1. IsFiniteSet(S)
    BY <1>1
  <2> HIDE DEF S
  <2>2. /\ SetToSeq(S) \in Seq(S) /\ Len(SetToSeq(S)) = Cardinality(S) /\ Cardinality(S) \in Nat
        /\ \A i, j \in 1 .. Len(SetToSeq(S)) : SetToSeq(S)[i] = SetToSeq(S)[j] => i = j
        /\ \A x \in S : \E i \in 1 .. Len(SetToSeq(S)) : SetToSeq(S)[i] = x
    BY <2>1, SetToSeqLists
  <2>3. Len(SetToSeq(S)) \in Nat
    BY <2>2
  <2> QED BY <2>2, <2>3 DEF S
<1> HIDE DEF added
<1>3. \A i \in 1 .. l : added[i] \in F \X {k + 1}
  BY <1>2
<1>4. \A i \in 1 .. l : added[i][1] \in F /\ added[i][2] = k + 1 /\ added[i] = <<added[i][1], k + 1>>
  BY <1>3
<1>5. ASSUME NEW i \in 1 .. l, NEW j \in 1 .. l, added[i][1] = added[j][1] PROVE i = j
  <2>1. added[i] = <<added[i][1], k + 1>> /\ added[j] = <<added[j][1], k + 1>>
    BY <1>4
  <2>2. added[i] = added[j]
    BY <1>5, <2>1
  <2> QED BY <1>2, <2>2
<1>6. \A x \in F : \E i \in 1 .. l : added[i][1] = x
  <2> SUFFICES ASSUME NEW x \in F PROVE \E i \in 1 .. l : added[i][1] = x
    OBVIOUS
  <2>1. PICK i \in 1 .. l : added[i] = <<x, k + 1>>
    BY <1>2
  <2> QED BY <2>1
<1>7. /\ m \in Nat /\ Len(q2) = m + l
      /\ \A i \in 1 .. m : q2[i] = q[i]
      /\ \A i \in 1 .. l : q2[m + i] = added[i]
  <2>1. added \in Seq(Ids \X (0 .. d))
    <3>1. F \X {k + 1} \subseteq Ids \X (0 .. d)
      OBVIOUS
    <3> QED BY <1>2, <3>1
  <2> QED BY <2>1, ConcatShows
<1>8. \A i \in 1 .. m : q[i][1] \in Ids /\ q[i][2] \in 0 .. d /\ q[i][2] \in k .. k + 1
  <2>1. \A i \in 1 .. m : q[i] \in Ids \X (0 .. d)
    OBVIOUS
  <2> QED BY <2>1
<1>9. /\ \A i \in 1 .. m : q[i][2] = dep[q[i][1]]
      /\ \A j, i \in 1 .. m : j < i => q[j][1] # q[i][1] /\ q[j][2] <= q[i][2]
      /\ \A j, i \in 1 .. m : q[i][2] <= q[j][2] + 1
  BY DEF QueueIs
<1>10. \A i \in 1 .. m : q[i][1] \notin F
  BY DEF Waiting
<1>11. \A i \in 1 .. Len(o) : o[i] \in Ids /\ o[i] \notin F
  <2>1. \A i \in 1 .. Len(o) : o[i] \in Ids /\ o[i] \in ToSet(o)
    <3>1. DOMAIN o = 1 .. Len(o)
      OBVIOUS
    <3> QED BY <3>1 DEF ToSet
  <2> QED BY <2>1
<1>12. \A i \in 1 .. m + l : i \in 1 .. m \/ (i - m \in 1 .. l /\ i = m + (i - m))
  BY <1>2, <1>7
<1>13. \A j \in Ids : dep[j] \in 0 .. d /\ dep2[j] = IF j \in F THEN k + 1 ELSE dep[j]
  BY DEF Deeper
<1>14. dep2 \in [Ids -> 0 .. d]
  <2>1. \A j \in Ids : (IF j \in F THEN k + 1 ELSE dep[j]) \in 0 .. d
    BY <1>13
  <2> QED BY <2>1 DEF Deeper
<1> HIDE DEF q2, dep2, m, l
<1>15. ASSUME NEW i \in 1 .. m + l
       PROVE  /\ q2[i][2] = dep2[q2[i][1]] /\ q2[i][2] \in k .. k + 1
              /\ i \in 1 .. m => q2[i] = q[i]
              /\ ~(i \in 1 .. m) => q2[i][1] \in F /\ q2[i][2] = k + 1 /\ i - m \in 1 .. l /\ q2[i] = added[i - m]
  <2>1. CASE i \in 1 .. m
    BY <1>7, <1>8, <1>9, <1>10, <1>13, <2>1
  <2>2. CASE ~(i \in 1 .. m)
    <3>1. i - m \in 1 .. l /\ i = m + (i - m)
      BY <1>12, <2>2
    <3>2. q2[i] = added[i - m]
      BY <1>7, <3>1
    <3>3. q2[i][1] \in F /\ q2[i][2] = k + 1
      BY <1>4, <3>1, <3>2
    <3>4. k + 1 \in k .. k + 1
      OBVIOUS
    <3> QED BY <1>13, <2>2, <3>1, <3>2, <3>3, <3>4
  <2> QED BY <2>1, <2>2
<1>16. ASSUME NEW i \in 1 .. m + l, NEW j \in 1 .. m + l, i < j PROVE q2[i][1] # q2[j][1] /\ q2[i][2] <= q2[j][2]
  <2>1. CASE j \in 1 .. m
    <3>1. i \in 1 .. m
      BY <1>7, <1>16, <2>1
    <3>2. q2[i] = q[i] /\ q2[j] = q[j]
      BY <1>15, <2>1, <3>1
    <3>3. q[i][1] # q[j][1] /\ q[i][2] <= q[j][2]
      BY <1>9, <1>16, <2>1, <3>1
    <3> QED BY <3>2, <3>3
  <2>2. CASE i \in 1 .. m /\ ~(j \in 1 .. m)
    <3>1. q2[i][1] \notin F /\ q2[j][1] \in F
      BY <1>10, <1>15, <2>2
    <3>2. q2[i][2] \in k .. k + 1 /\ q2[j][2] = k + 1
      BY <1>15, <2>2
    <3> QED BY <3>1, <3>2
  <2>3. CASE ~(i \in 1 .. m) /\ ~(j \in 1 .. m)
    <3>1. i - m \in 1 .. l /\ j - m \in 1 .. l /\ i - m # j - m
      BY <1>7, <1>15, <1>16, <2>3
    <3>2. q2[i][1] # q2[j][1]
      <4>1. q2[i] = added[i - m] /\ q2[j] = added[j - m]
        BY <1>15, <2>3
      <4>2. added[i - m][1] # added[j - m][1]
        BY <1>5, <3>1
      <4> QED BY <4>1, <4>2
    <3>3. q2[i][2] = k + 1 /\ q2[j][2] = k + 1
      BY <1>15, <2>3
    <3> QED BY <3>2, <3>3
  <2> QED BY <2>1, <2>2, <2>3
<1>17. \A i, j \in 1 .. m + l : q2[j][2] <= q2[i][2] + 1
  BY <1>15
<1>18. QueueIs(q2, dep2)
  BY <1>7, <1>15, <1>16, <1>17 DEF QueueIs
<1>19. OrderedIs(o, q2, dep2)
  <2>1. \A i, j \in 1 .. Len(o) : o[i] = o[j] => i = j
    BY DEF OrderedIs
  <2>2. ASSUME NEW i \in 1 .. Len(o), NEW j \in 1 .. m + l PROVE o[i] # q2[j][1] /\ dep2[o[i]] <= q2[j][2]
    <3>1. dep2[o[i]] = dep[o[i]] /\ dep[o[i]] <= k /\ dep[o[i]] \in 0 .. d
      BY <1>11, <1>13
    <3>2. q2[j][2] \in k .. k + 1
      BY <1>15
    <3>3. o[i] # q2[j][1]
      <4>1. CASE j \in 1 .. m
        <5>1. q2[j] = q[j]
          BY <1>15, <4>1
        <5>2. o[i] # q[j][1]
          BY <4>1 DEF OrderedIs, m
        <5> QED BY <5>1, <5>2
      <4>2. CASE ~(j \in 1 .. m)
        BY <1>11, <1>15, <4>2
      <4> QED BY <4>1, <4>2
    <3> QED BY <3>1, <3>2, <3>3
  <2> QED BY <1>7, <2>1, <2>2 DEF OrderedIs
<1>20. Waiting(q2) = Waiting(q) \union F
  <2>1. Waiting(q2) = {q2[i][1] : i \in 1 .. m + l} /\ Waiting(q) = {q[i][1] : i \in 1 .. m}
    BY <1>7 DEF Waiting, m
  <2>2. Waiting(q2) \subseteq Waiting(q) \union F
    BY <1>15, <2>1
  <2>3. Waiting(q) \subseteq Waiting(q2)
    <3> SUFFICES ASSUME NEW i \in 1 .. m PROVE q[i][1] \in Waiting(q2)
      BY <2>1
    <3>1. i \in 1 .. m + l
      BY <1>2, <1>7
    <3>2. q2[i] = q[i]
      BY <1>7
    <3>3. q2[i][1] \in Waiting(q2)
      BY <2>1, <3>1
    <3> QED BY <3>2, <3>3
  <2>4. F \subseteq Waiting(q2)
    <3> SUFFICES ASSUME NEW x \in F PROVE x \in Waiting(q2)
      OBVIOUS
    <3>1. PICK i \in 1 .. l : added[i][1] = x
      BY <1>6
    <3>2. m + i \in 1 .. m + l /\ q2[m + i] = added[i]
      BY <1>2, <1>7
    <3> QED BY <2>1, <3>1, <3>2
  <2> QED BY <2>2, <2>3, <2>4
<1> QED BY <1>14, <1>18, <1>19, <1>20 DEF q2, dep2, added

(* The state of a traverse after n visits, with the depths of the nodes it   *)
(* has come to: every node it has left is expanded, unless it is at the last *)
(* depth or the traverse has stopped at its cap.                             *)
Depths(s, dep, start) ==
    /\ start \in s.visited /\ dep[start] = 0
    /\ \A v \in s.visited : v \in Level(start, dep[v])
Expanded(s, dep, d) ==
    \A o \in ToSet(s.ordered) : dep[o] < d =>
        \A v \in Beside(o) : v \in s.visited /\ dep[v] <= dep[o] + 1
Capped(s) ==
    /\ Len(s.ordered) <= MaxTraverse
    /\ s.stopped => Len(s.ordered) = MaxTraverse
    /\ ~s.stopped => Len(s.ordered) < MaxTraverse /\ ~s.truncated
Reached(s, n, dep, start, d) ==
    /\ s \in VisitStates(d) /\ dep \in [Ids -> 0 .. d]
    /\ QueueIs(s.queue, dep) /\ OrderedIs(s.ordered, s.queue, dep)
    /\ s.visited = ToSet(s.ordered) \union Waiting(s.queue) /\ s.visited \subseteq Present
    /\ Depths(s, dep, start) /\ (~s.stopped => Expanded(s, dep, d)) /\ Capped(s)
    /\ s.stopped \/ s.queue = <<>> \/ Len(s.ordered) = n

LEMMA StartReached ==
    ASSUME NavInv, StoreInv, NEW start \in Present, NEW d \in 0 .. 2
    PROVE  \E dep : Reached(FromStart(start), 0, dep, start, d)
<1> DEFINE s == FromStart(start)
           dep == [j \in Ids |-> 0]
           q == <<<<start, 0>>>>
<1>1. start \in Ids
  BY DEF Present
<1>2. s \in VisitStates(d) /\ dep \in [Ids -> 0 .. d] /\ dep[start] = 0
  BY <1>1, FromStartIs
<1>3. s.queue = q /\ s.ordered = <<>> /\ s.visited = {start} /\ s.stopped = FALSE /\ s.truncated = FALSE
  BY DEF FromStart
<1>4. Len(q) = 1 /\ q[1] = <<start, 0>> /\ 1 .. Len(q) = {1}
  OBVIOUS
<1>5. Len(<<>>) = 0 /\ ToSet(<<>>) = {} /\ 1 .. 0 = {}
  BY DEF ToSet
<1>6. q[1][1] = start /\ q[1][2] = 0
  BY <1>4
<1> HIDE DEF s, q, dep
<1>7. QueueIs(q, dep)
  BY <1>2, <1>4, <1>6 DEF QueueIs
<1>8. OrderedIs(<<>>, q, dep)
  BY <1>5 DEF OrderedIs
<1>9. Waiting(q) = {start}
  BY <1>4, <1>6 DEF Waiting
<1>10. Depths(s, dep, start)
  BY <1>2, <1>3, LevelIs DEF Depths
<1>11. Expanded(s, dep, d)
  BY <1>3, <1>5 DEF Expanded
<1>12. Capped(s)
  BY <1>3, <1>5, NavigationAssumption DEF Capped
<1> QED BY <1>2, <1>3, <1>5, <1>7, <1>8, <1>9, <1>10, <1>11, <1>12 DEF Reached, s

LEMMA VisitKeeps ==
    ASSUME NavInv, StoreInv, AllIndexed, NEW start \in Present, NEW d \in 0 .. 2,
           NEW n \in Nat, NEW s, NEW dep, Reached(s, n, dep, start, d)
    PROVE  \E dep2 : Reached(Visit(s, d), n + 1, dep2, start, d)
<1> DEFINE t == Visit(s, d)
<1>1. /\ s \in VisitStates(d) /\ dep \in [Ids -> 0 .. d]
      /\ QueueIs(s.queue, dep) /\ OrderedIs(s.ordered, s.queue, dep)
      /\ s.visited = ToSet(s.ordered) \union Waiting(s.queue) /\ s.visited \subseteq Present
      /\ Depths(s, dep, start) /\ (~s.stopped => Expanded(s, dep, d)) /\ Capped(s)
      /\ s.stopped \/ s.queue = <<>> \/ Len(s.ordered) = n
  BY DEF Reached
<1>2. CASE s.queue = <<>> \/ s.stopped
  <2>1. t = s
    BY <1>2 DEF Visit
  <2>2. Reached(s, n + 1, dep, start, d)
    BY <1>1, <1>2 DEF Reached
  <2> QED BY <2>1, <2>2
<1>3. CASE s.queue # <<>> /\ ~s.stopped
  <2> DEFINE i == Head(s.queue)[1]
             k == Head(s.queue)[2]
             o == Append(s.ordered, i)
             r == Tail(s.queue)
             F == Unseen(s, i)
  <2>1. /\ s.queue \in Seq(Ids \X (0 .. d)) /\ s.ordered \in Seq(Ids) /\ s.visited \in SUBSET Ids
        /\ s.stopped = FALSE /\ d \in Nat /\ MaxTraverse \in Nat
    BY <1>1, <1>3, NavigationAssumption DEF VisitStates
  <2>2. /\ QueueIs(r, dep) /\ OrderedIs(o, r, dep)
        /\ ToSet(o) = ToSet(s.ordered) \union {i}
        /\ Waiting(s.queue) = {i} \union Waiting(r)
        /\ dep[i] = k /\ i \in Ids /\ k \in 0 .. d
        /\ \A j \in 1 .. Len(r) : r[j][2] \in k .. k + 1
        /\ \A j \in 1 .. Len(o) : dep[o[j]] <= k
    BY <1>1, <1>3, <2>1, QueueTail
  <2>3. /\ t \in VisitStates(d) /\ t.ordered = o
        /\ Len(s.ordered) + 1 >= MaxTraverse => t.queue = r /\ t.visited = s.visited /\ t.stopped
        /\ Len(s.ordered) + 1 < MaxTraverse => ~t.stopped /\ t.truncated = s.truncated
        /\ Len(s.ordered) + 1 < MaxTraverse /\ k >= d => t.queue = r /\ t.visited = s.visited
        /\ Len(s.ordered) + 1 < MaxTraverse /\ k < d =>
              t.queue = r \o SetToSeq(F \X {k + 1}) /\ t.visited = s.visited \union F
    BY <1>1, <1>3, <2>1, VisitDoes
  <2>4. o \in Seq(Ids) /\ Len(o) = Len(s.ordered) + 1 /\ Len(s.ordered) \in Nat
    BY <2>1, <2>2
  <2>5. r \in Seq(Ids \X (0 .. d))
    BY <1>3, <2>1
  <2>6. s.visited = ToSet(o) \union Waiting(r)
    BY <1>1, <2>2
  <2>7. F = Beside(i) \ s.visited
    BY FoundBeside
  <2> HIDE DEF t, i, k, o, r, F
  <2>8. Len(o) = n + 1
    BY <1>1, <1>3, <2>4
  <2>9. Len(s.ordered) < MaxTraverse /\ ~s.truncated
    BY <1>1, <1>3 DEF Capped
  <2>10. Capped(t)
    BY <2>1, <2>3, <2>4, <2>9 DEF Capped
  <2>11. \A j \in ToSet(o) : j \in Ids /\ dep[j] <= k /\ dep[j] \in 0 .. d
    <3>1. ToSet(o) = {o[j] : j \in 1 .. Len(o)}
      <4>1. DOMAIN o = 1 .. Len(o)
        BY <2>4
      <4> QED BY <4>1 DEF ToSet
    <3>2. \A j \in 1 .. Len(o) : o[j] \in Ids
      BY <2>4
    <3> QED BY <1>1, <2>2, <3>1, <3>2
  <2>12. \A j \in Waiting(r) : j \in Ids /\ dep[j] \in k .. k + 1
    <3>1. \A j \in 1 .. Len(r) : r[j] \in Ids \X (0 .. d)
      BY <2>5
    <3> QED BY <2>2, <3>1 DEF Waiting, QueueIs
  <2>13. CASE Len(s.ordered) + 1 >= MaxTraverse \/ k >= d
    <3>1. t.queue = r /\ t.visited = s.visited
      BY <2>1, <2>2, <2>3, <2>4, <2>13
    <3>2. Depths(t, dep, start)
      BY <1>1, <3>1 DEF Depths
    <3>3. ~t.stopped => Expanded(t, dep, d)
      <4> SUFFICES ASSUME ~t.stopped, NEW j \in ToSet(t.ordered), dep[j] < d, NEW v \in Beside(j)
                   PROVE  v \in t.visited /\ dep[v] <= dep[j] + 1
        BY DEF Expanded
      <4>1. k >= d
        BY <2>3, <2>13
      <4>2. j # i
        BY <1>1, <2>2, <4>1
      <4>3. j \in ToSet(s.ordered)
        BY <2>2, <2>3, <4>2
      <4> QED BY <1>1, <1>3, <3>1, <4>3 DEF Expanded
    <3>4. Reached(t, n + 1, dep, start, d)
      BY <1>1, <2>2, <2>3, <2>6, <2>8, <2>10, <3>1, <3>2, <3>3 DEF Reached
    <3> QED BY <3>4 DEF t
  <2>14. CASE Len(s.ordered) + 1 < MaxTraverse /\ k < d
    <3> DEFINE dep2 == Deeper(dep, F, k)
    <3>1. F \subseteq Present /\ F \in SUBSET Ids
      BY <2>7 DEF Beside, Present
    <3>2. F \cap Waiting(r) = {} /\ F \cap ToSet(o) = {}
      BY <2>6, <2>7
    <3>3. t.queue = r \o SetToSeq(F \X {k + 1}) /\ t.visited = s.visited \union F /\ ~t.stopped
      BY <2>3, <2>14
    <3>4. /\ QueueIs(t.queue, dep2) /\ OrderedIs(o, t.queue, dep2) /\ Waiting(t.queue) = Waiting(r) \union F
          /\ dep2 \in [Ids -> 0 .. d]
      <4>1. /\ d \in Nat /\ r \in Seq(Ids \X (0 .. d)) /\ dep \in [Ids -> 0 .. d] /\ QueueIs(r, dep) /\ o \in Seq(Ids)
            /\ OrderedIs(o, r, dep) /\ k \in 0 .. d /\ k < d /\ F \in SUBSET Ids /\ F \cap Waiting(r) = {} /\ F \cap ToSet(o) = {}
            /\ (\A j \in 1 .. Len(r) : r[j][2] \in k .. k + 1) /\ \A j \in 1 .. Len(o) : dep[o[j]] <= k
        BY <1>1, <2>1, <2>2, <2>4, <2>5, <2>14, <3>1, <3>2
      <4>2. MayGrow(d, r, dep, o, k, F)
        BY <4>1 DEF MayGrow
      <4> DEFINE q2 == r \o SetToSeq(F \X {k + 1})
      <4>3. QueueIs(q2, dep2) /\ OrderedIs(o, q2, dep2) /\ Waiting(q2) = Waiting(r) \union F /\ dep2 \in [Ids -> 0 .. d]
        BY <4>2, QueueGrows
      <4>4. t.queue = q2
        BY <3>3
      <4> HIDE DEF q2, dep2
      <4> QED BY <4>3, <4>4
    <3>5. \A j \in Ids : dep2[j] = IF j \in F THEN k + 1 ELSE dep[j]
      BY DEF Deeper
    <3> HIDE DEF dep2
    <3>6. \A v \in s.visited : v \in Ids /\ dep2[v] = dep[v]
      BY <2>1, <2>7, <3>5
    <3>7. \A v \in F : dep2[v] = k + 1 /\ v \in Level(start, k + 1)
      <4> SUFFICES ASSUME NEW v \in F PROVE dep2[v] = k + 1 /\ v \in Level(start, k + 1)
        OBVIOUS
      <4>1. dep2[v] = k + 1
        BY <3>1, <3>5
      <4>2. i \in Level(start, k)
        BY <1>1, <2>2 DEF Depths
      <4>3. v \in Around(Level(start, k))
        BY <2>7, <4>2 DEF Around, Beside
      <4>4. k \in {0, 1}
        BY <2>2, <2>14
      <4> QED BY <4>1, <4>3, <4>4, LevelIs
    <3>8. Depths(t, dep2, start)
      BY <1>1, <3>3, <3>6, <3>7 DEF Depths
    <3>9. Expanded(t, dep2, d)
      <4> SUFFICES ASSUME NEW j \in ToSet(t.ordered), dep2[j] < d, NEW v \in Beside(j)
                   PROVE  v \in t.visited /\ dep2[v] <= dep2[j] + 1
        BY DEF Expanded
      <4>1. j \in s.visited
        BY <2>3, <2>6
      <4>2. dep2[j] = dep[j]
        BY <3>6, <4>1
      <4>3. CASE j = i
        <5>1. v \in F \/ v \in s.visited
          BY <2>7, <4>3
        <5>2. CASE v \in F
          BY <2>2, <3>3, <3>7, <4>2, <4>3, <5>2
        <5>3. CASE v \in s.visited
          <6>1. dep2[v] = dep[v]
            BY <3>6, <5>3
          <6>2. v \in ToSet(o) \/ v \in Waiting(r)
            BY <2>6, <5>3
          <6>3. dep[v] <= k + 1
            BY <2>2, <2>11, <2>12, <6>2
          <6> QED BY <2>2, <3>3, <4>2, <4>3, <5>3, <6>1, <6>3
        <5> QED BY <5>1, <5>2, <5>3
      <4>4. CASE j # i
        <5>1. j \in ToSet(s.ordered)
          BY <2>2, <2>3, <4>4
        <5>2. v \in s.visited /\ dep[v] <= dep[j] + 1
          BY <1>1, <1>3, <4>2, <5>1 DEF Expanded
        <5> QED BY <3>3, <3>6, <4>2, <5>2
      <4> QED BY <4>3, <4>4
    <3>10. t.visited = ToSet(t.ordered) \union Waiting(t.queue) /\ t.visited \subseteq Present
      BY <1>1, <2>3, <2>6, <3>1, <3>3, <3>4
    <3>11. Reached(t, n + 1, dep2, start, d)
      BY <2>3, <2>8, <2>10, <3>4, <3>8, <3>9, <3>10 DEF Reached
    <3> QED BY <3>11 DEF t
  <2> QED BY <2>2, <2>4, <2>13, <2>14, <2>1
<1> QED BY <1>2, <1>3

LEMMA TraverseReaches ==
    ASSUME NavInv, StoreInv, AllIndexed, NEW start \in Present, NEW d \in 0 .. 2
    PROVE  \E dep : Reached(Traverse(start, d), Cardinality(Ids), dep, start, d)
<1>1. start \in Ids /\ d \in Nat /\ IsFiniteSet(Ids) /\ Ids \subseteq Int
  BY NavigationAssumption DEF Present
<1>2. PICK g : /\ Traverse(start, d) = g[Ids]
               /\ \A s \in SUBSET Ids : g[s] = IF s = {} THEN FromStart(start) ELSE Visit(g[s \ {Max(s)}], d)
  BY <1>1, TraverseRuns
<1> DEFINE good(n) == \A s \in SUBSET Ids : Cardinality(s) = n => \E dep : Reached(g[s], n, dep, start, d)
           P == {n \in Nat : good(n)}
<1>3. \A s \in SUBSET Ids : IsFiniteSet(s) /\ Cardinality(s) \in Nat
  BY <1>1, FS_Subset, FS_CardinalityType
<1>4. 0 \in P
  <2> SUFFICES ASSUME NEW s \in SUBSET Ids, Cardinality(s) = 0 PROVE \E dep : Reached(g[s], 0, dep, start, d)
    OBVIOUS
  <2>1. s = {}
    BY <1>3, FS_EmptySet
  <2>2. g[s] = FromStart(start)
    BY <1>2, <2>1
  <2> QED BY <2>2, StartReached
<1>5. ASSUME NEW n \in Nat, n \in P PROVE n + 1 \in P
  <2> SUFFICES ASSUME NEW s \in SUBSET Ids, Cardinality(s) = n + 1
               PROVE  \E dep : Reached(g[s], n + 1, dep, start, d)
    OBVIOUS
  <2>1. s # {} /\ IsFiniteSet(s) /\ s \subseteq Int
    BY <1>1, <1>3, FS_EmptySet
  <2>2. Max(s) \in s
    BY <2>1, MaxIs
  <2>3. s \ {Max(s)} \in SUBSET Ids /\ Cardinality(s \ {Max(s)}) = n
    <3>1. IsFiniteSet(s) /\ Cardinality(s \ {Max(s)}) = IF Max(s) \in s THEN Cardinality(s) - 1 ELSE Cardinality(s)
      BY <2>1, FS_RemoveElement
    <3>2. Cardinality(s \ {Max(s)}) = (n + 1) - 1
      BY <2>2, <3>1
    <3>3. (n + 1) - 1 = n
      OBVIOUS
    <3> QED BY <3>2, <3>3
  <2>4. PICK dep : Reached(g[s \ {Max(s)}], n, dep, start, d)
    BY <1>5, <2>3
  <2>5. g[s] = Visit(g[s \ {Max(s)}], d)
    BY <1>2, <2>1
  <2> QED BY <2>4, <2>5, VisitKeeps
<1>6. \A n \in Nat : n \in P
  <2> HIDE DEF P
  <2> QED BY <1>4, <1>5, CountingUp
<1>7. Cardinality(Ids) \in P
  BY <1>1, <1>6, FS_CardinalityType
<1> QED BY <1>2, <1>7

LEMMA ListsOnce ==
    ASSUME NEW U, NEW o \in Seq(U), \A j, k \in 1 .. Len(o) : o[j] = o[k] => j = k
    PROVE  IsFiniteSet(ToSet(o)) /\ Cardinality(ToSet(o)) = Len(o)
<1> DEFINE n == Len(o)
           S == ToSet(o)
<1>1. n \in Nat /\ DOMAIN o = 1 .. n /\ S = {o[k] : k \in 1 .. n}
  BY DEF ToSet
<1> HIDE DEF n, S
<1>2. o = [k \in 1 .. n |-> o[k]]
  BY <1>1
<1>3. \A k \in 1 .. n : o[k] \in S
  BY <1>1
<1>4. o \in [1 .. n -> S]
  BY <1>2, <1>3
<1>5. ExistsBijection(1 .. n, S)
  <2>1. \A j, k \in 1 .. n : o[j] = o[k] => j = k
    BY DEF n
  <2>2. o \in Injection(1 .. n, S)
    BY <1>4, <2>1 DEF Injection, IsInjective
  <2>3. o \in Surjection(1 .. n, S)
    BY <1>1, <1>4 DEF Surjection
  <2> QED BY <2>2, <2>3 DEF Bijection, ExistsBijection
<1>6. IsFiniteSet(1 .. n) /\ Cardinality(1 .. n) = n
  BY <1>1, FS_Interval
<1>7. IsFiniteSet(S) /\ Cardinality(S) = Cardinality(1 .. n)
  BY <1>5, <1>6, FS_Bijection
<1> QED BY <1>6, <1>7 DEF n, S

(* At the end of a traverse that has not stopped nothing waits, and what it  *)
(* has visited are the nodes within its depth.                               *)
LEMMA TraverseShows ==
    ASSUME NavInv, StoreInv, AllIndexed, NEW start \in Present, NEW d \in 0 .. 2
    PROVE  LET s == Traverse(start, d) IN
           /\ Len(s.ordered) <= MaxTraverse /\ Cardinality(ToSet(s.ordered)) = Len(s.ordered)
           /\ Len(s.ordered) < MaxTraverse =>
                 ToSet(s.ordered) = Level(start, d) /\ s.visited = Level(start, d) /\ ~s.truncated
<1> DEFINE s == Traverse(start, d)
           N == Cardinality(Ids)
<1>1. PICK dep : Reached(s, N, dep, start, d)
  BY TraverseReaches
<1> HIDE DEF s
<1>2. /\ s \in VisitStates(d) /\ dep \in [Ids -> 0 .. d]
      /\ QueueIs(s.queue, dep) /\ OrderedIs(s.ordered, s.queue, dep)
      /\ s.visited = ToSet(s.ordered) \union Waiting(s.queue) /\ s.visited \subseteq Present
      /\ Depths(s, dep, start) /\ (~s.stopped => Expanded(s, dep, d)) /\ Capped(s)
      /\ s.stopped \/ s.queue = <<>> \/ Len(s.ordered) = N
  BY <1>1 DEF Reached
<1>3. /\ s.queue \in Seq(Ids \X (0 .. d)) /\ s.ordered \in Seq(Ids) /\ s.visited \in SUBSET Ids
      /\ s.stopped \in BOOLEAN /\ MaxTraverse \in Nat /\ Len(s.ordered) \in Nat
  BY <1>2, NavigationAssumption DEF VisitStates
<1>4. IsFiniteSet(Ids) /\ N \in Nat
  BY NavigationAssumption, FS_CardinalityType
<1>5. IsFiniteSet(ToSet(s.ordered)) /\ Cardinality(ToSet(s.ordered)) = Len(s.ordered)
  <2>1. \A j, k \in 1 .. Len(s.ordered) : s.ordered[j] = s.ordered[k] => j = k
    BY <1>2 DEF OrderedIs
  <2> QED BY <1>3, <2>1, ListsOnce
<1>6. Len(s.ordered) <= MaxTraverse
  BY <1>2 DEF Capped
<1>7. ASSUME Len(s.ordered) < MaxTraverse
      PROVE  ToSet(s.ordered) = Level(start, d) /\ s.visited = Level(start, d) /\ ~s.truncated
  <2>1. ~s.stopped /\ ~s.truncated
    BY <1>2, <1>3, <1>7 DEF Capped
  <2>2. s.queue = <<>>
    <3> SUFFICES ASSUME s.queue # <<>>, Len(s.ordered) = N PROVE FALSE
      BY <1>2, <2>1
    <3>1. 1 \in 1 .. Len(s.queue)
      BY <1>3
    <3>2. s.queue[1] \in Ids \X (0 .. d)
      BY <1>3, <3>1
    <3> DEFINE i == s.queue[1][1]
    <3>3. i \in Ids /\ \A j \in 1 .. Len(s.ordered) : s.ordered[j] # i
      BY <1>2, <3>1, <3>2 DEF OrderedIs
    <3>4. i \notin ToSet(s.ordered)
      <4>1. DOMAIN s.ordered = 1 .. Len(s.ordered)
        BY <1>3
      <4> QED BY <3>3, <4>1 DEF ToSet
    <3>5. ToSet(s.ordered) \in SUBSET Ids
      BY <1>2, <1>3
    <3> HIDE DEF i
    <3>6. ToSet(s.ordered) \in SUBSET Ids /\ ToSet(s.ordered) # Ids
      BY <3>3, <3>4, <3>5
    <3>7. Cardinality(ToSet(s.ordered)) < Cardinality(Ids)
      <4>1. /\ Cardinality(ToSet(s.ordered)) <= Cardinality(Ids)
            /\ Cardinality(ToSet(s.ordered)) = Cardinality(Ids) => ToSet(s.ordered) = Ids
        BY <1>4, <3>6, FS_Subset
      <4>2. Cardinality(ToSet(s.ordered)) \in Nat /\ Cardinality(Ids) \in Nat
        BY <1>4, <1>5, FS_CardinalityType
      <4> QED BY <3>6, <4>1, <4>2
    <3> QED BY <1>3, <1>4, <1>5, <3>7
  <2>3. Waiting(s.queue) = {}
    <3>1. Len(s.queue) = 0 /\ 1 .. 0 = {}
      BY <2>2
    <3> QED BY <3>1 DEF Waiting
  <2>4. s.visited = ToSet(s.ordered)
    BY <1>2, <2>3
  <2>5. s.visited \subseteq Level(start, d)
    <3> SUFFICES ASSUME NEW v \in s.visited PROVE v \in Level(start, d)
      OBVIOUS
    <3>1. v \in Level(start, dep[v]) /\ dep[v] \in 0 .. d
      BY <1>2, <1>3 DEF Depths
    <3>2. dep[v] \in 0 .. 2 /\ dep[v] <= d
      BY <3>1
    <3> QED BY <3>1, <3>2, LevelIs
  <2>6. \A v \in Level(start, 0) : v \in s.visited /\ dep[v] <= 0
    BY <1>2, LevelIs DEF Depths
  <2>7. ASSUME NEW k \in {0, 1}, k < d, \A v \in Level(start, k) : v \in s.visited /\ dep[v] <= k
        PROVE  \A v \in Level(start, k + 1) : v \in s.visited /\ dep[v] <= k + 1
    <3> SUFFICES ASSUME NEW v \in Level(start, k + 1) PROVE v \in s.visited /\ dep[v] <= k + 1
      OBVIOUS
    <3>1. v \in Around(Level(start, k))
      BY LevelIs
    <3>2. \A j \in s.visited : dep[j] \in 0 .. d
      BY <1>2, <1>3
    <3>3. CASE v \in Level(start, k)
      BY <2>7, <3>2, <3>3
    <3>4. CASE v \notin Level(start, k)
      <4>1. PICK j \in Level(start, k) : v \in Beside(j)
        BY <3>1, <3>4 DEF Around, Beside
      <4>2. j \in s.visited /\ dep[j] <= k /\ dep[j] \in 0 .. d /\ dep[j] < d
        BY <2>7, <3>2, <4>1
      <4>3. v \in s.visited /\ dep[v] <= dep[j] + 1
        BY <1>2, <2>1, <2>4, <4>1, <4>2 DEF Expanded
      <4> QED BY <3>2, <4>2, <4>3
    <3> QED BY <3>3, <3>4
  <2>8. Level(start, d) \subseteq s.visited
    <3>1. CASE d = 0
      BY <2>6, <3>1
    <3>2. CASE d = 1
      <4>1. \A v \in Level(start, 0 + 1) : v \in s.visited /\ dep[v] <= 0 + 1
        BY <2>6, <2>7, <3>2
      <4> QED BY <3>2, <4>1
    <3>3. CASE d = 2
      <4>1. \A v \in Level(start, 0 + 1) : v \in s.visited /\ dep[v] <= 0 + 1
        BY <2>6, <2>7, <3>3
      <4>2. \A v \in Level(start, 1) : v \in s.visited /\ dep[v] <= 1
        BY <4>1
      <4>3. \A v \in Level(start, 1 + 1) : v \in s.visited /\ dep[v] <= 1 + 1
        BY <2>7, <3>3, <4>2
      <4> QED BY <3>3, <4>3
    <3> QED BY <3>1, <3>2, <3>3
  <2> QED BY <2>1, <2>4, <2>5, <2>8
<1> QED BY <1>5, <1>6, <1>7 DEF s

LEMMA CompleteTraverse == NavInv /\ StoreInv => TraverseIsComplete
<1> SUFFICES ASSUME NavInv, StoreInv, AllIndexed, NEW start \in Present, NEW d \in 0 .. 2
             PROVE  LET s == Traverse(start, d) IN
                    /\ Len(s.ordered) <= MaxTraverse
                    /\ Cardinality(ToSet(s.ordered)) = Len(s.ordered)
                    /\ Len(s.ordered) < MaxTraverse =>
                          /\ ToSet(s.ordered) = Near(start, d) /\ ~s.truncated
                          /\ Cardinality(TunnelsAt(Near(start, d))) <= TunnelLimit =>
                                \A shown \in TraverseTunnels(s) :
                                   {t \in linked : {t[1], t[2]} \subseteq Near(start, d)} \subseteq shown
  BY DEF TraverseIsComplete, AllIndexed
<1> DEFINE s == Traverse(start, d)
<1>1. /\ Len(s.ordered) <= MaxTraverse /\ Cardinality(ToSet(s.ordered)) = Len(s.ordered)
      /\ Len(s.ordered) < MaxTraverse =>
            ToSet(s.ordered) = Level(start, d) /\ s.visited = Level(start, d) /\ ~s.truncated
  BY TraverseShows
<1>2. Near(start, d) = Level(start, d)
  BY NearIs
<1>3. PICK dep : Reached(s, Cardinality(Ids), dep, start, d)
  BY TraverseReaches
<1>4. s.visited \in SUBSET Ids
  BY <1>3 DEF Reached, VisitStates
<1> HIDE DEF s
<1>5. ASSUME Cardinality(TunnelsAt(s.visited)) <= TunnelLimit, NEW shown \in TraverseTunnels(s),
             NEW t \in linked, {t[1], t[2]} \subseteq s.visited
      PROVE  t \in shown
  <2>1. PICK some \in TunnelsFor(s.visited) : shown = {u \in some : u[1] \in s.visited /\ u[2] \in s.visited}
    BY DEF TraverseTunnels
  <2>2. t[1] \in s.visited /\ t[2] \in s.visited
    BY <1>5
  <2>3. t \in some
    BY <1>4, <1>5, <2>2, TunnelsAnswered
  <2> QED BY <2>1, <2>2, <2>3
<1> QED BY <1>1, <1>2, <1>5 DEF s

(* A traverse of the palace that stays below its cap finds every node within *)
(* its depth, each once, and the tunnels between them that clients were told *)
(* of, whatever writes have gone before: for any ids, labels, brokers, page  *)
(* limit, window and cap.                                                    *)
THEOREM TraversesAreComplete == NavSpec => []TraverseIsComplete
<1>1. PagesInv => StoreInv
  BY DEF PagesInv
<1> QED BY <1>1, CompleteTraverse, StoreInit, PagesNext, NavInvariance, PTL DEF NavSpec

=============================================================================
