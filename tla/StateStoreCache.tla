--------------------------- MODULE StateStoreCache ---------------------------
(***************************************************************************)
(* The caches behind with_state_store in a postgres-combined deployment:   *)
(* one state store per project and one connection pool per project that    *)
(* the state store and the memory engine share.  Both caches are filled by *)
(* the same pattern: look under the read lock, build without a lock, look  *)
(* again under the write lock, insert or give the own one up.  shutdown    *)
(* closes the pools first and clears the stores in a second step.          *)
(***************************************************************************)
CONSTANTS
    Handler,   \* concurrent requests
    Project,   \* project keys, canonical root and id
    Pool,      \* names for the pools that are ever built
    Store,     \* names for the stores that are ever built
    None,      \* the absent pool, store, project or engine
    Local      \* a local engine, which has no pool

ASSUME NamesAssumption ==
    /\ None \notin Pool \union Store \union Project \union Handler
    /\ Local \notin Pool \union {None}

VARIABLES
    poolCache,   \* combined_pg_pool_by_project
    storeCache,  \* state_by_project
    engines,     \* the engine of each project in memory_by_project: its pool
    memoryLock,  \* the handler that holds the write lock of memory_by_project
    closed,      \* pools on which close() was called
    poolOf,      \* the pool each built store sits on, None for one not built
    poolsMade,   \* the pools built so far
    pc,          \* where each handler is suspended
    role,        \* what each handler wants: a state store or an engine
    project,     \* the project each handler works on
    mine,        \* the pool each handler has built or been handed
    got,         \* the store each handler holds
    down         \* the progress of shutdown: up, draining, down

vars == <<poolCache, storeCache, engines, memoryLock, closed, poolOf, poolsMade,
          pc, role, project, mine, got, down>>

PC == {"idle",      \* no request
       "pool",      \* about to look for the project's pool
       "build",     \* saw no pool, builds one
       "race",      \* has built a pool, waits for the pools' write lock
       "store",     \* has a pool, builds the store or the engine
       "insert",    \* has built a store, waits for the stores' write lock
       "using"}     \* holds a store, runs its closure

TypeOK ==
    /\ poolCache \in [Project -> Pool \union {None}]
    /\ storeCache \in [Project -> Store \union {None}]
    /\ engines \in [Project -> Pool \union {None, Local}]
    /\ memoryLock \in Handler \union {None}
    /\ closed \in SUBSET Pool
    /\ poolOf \in [Store -> Pool \union {None}]
    /\ poolsMade \in SUBSET Pool
    /\ pc \in [Handler -> PC]
    /\ role \in [Handler -> {"state", "memory"}]
    /\ project \in [Handler -> Project \union {None}]
    /\ mine \in [Handler -> Pool \union {None}]
    /\ got \in [Handler -> Store \union {None}]
    /\ down \in {"up", "draining", "down"}

Init ==
    /\ poolCache = [p \in Project |-> None]
    /\ storeCache = [p \in Project |-> None]
    /\ engines = [p \in Project |-> None]
    /\ memoryLock = None
    /\ closed = {}
    /\ poolOf = [s \in Store |-> None]
    /\ poolsMade = {}
    /\ pc = [h \in Handler |-> "idle"]
    /\ role = [h \in Handler |-> "state"]
    /\ project = [h \in Handler |-> None]
    /\ mine = [h \in Handler |-> None]
    /\ got = [h \in Handler |-> None]
    /\ down = "up"

caches == <<poolCache, storeCache, engines>>
built == <<closed, poolOf, poolsMade>>

Goto(h, to) == pc' = [pc EXCEPT ![h] = to]

-----------------------------------------------------------------------------
(* with_state_store: a hit clones the entry out of the map.                 *)
AccessHit(h, p) ==
    /\ pc[h] = "idle"
    /\ storeCache[p] # None
    /\ Goto(h, "using")
    /\ role' = [role EXCEPT ![h] = "state"]
    /\ project' = [project EXCEPT ![h] = p]
    /\ got' = [got EXCEPT ![h] = storeCache[p]]
    /\ UNCHANGED <<caches, memoryLock, built, mine, down>>

AccessMiss(h, p) ==
    /\ pc[h] = "idle"
    /\ storeCache[p] = None
    /\ Goto(h, "pool")
    /\ role' = [role EXCEPT ![h] = "state"]
    /\ project' = [project EXCEPT ![h] = p]
    /\ UNCHANGED <<caches, memoryLock, built, mine, got, down>>

(* An ingest that finds no engine builds one under the memory write lock.   *)
BuildEngine(h, p) ==
    /\ pc[h] = "idle"
    /\ memoryLock = None
    /\ engines[p] = None
    /\ memoryLock' = h
    /\ Goto(h, "pool")
    /\ role' = [role EXCEPT ![h] = "memory"]
    /\ project' = [project EXCEPT ![h] = p]
    /\ UNCHANGED <<caches, built, mine, got, down>>

(* get_or_init_combined_pg_pool                                             *)
PoolHit(h) ==
    /\ pc[h] = "pool"
    /\ poolCache[project[h]] # None
    /\ mine' = [mine EXCEPT ![h] = poolCache[project[h]]]
    /\ Goto(h, "store")
    /\ UNCHANGED <<caches, memoryLock, built, role, project, got, down>>

PoolMiss(h) ==
    /\ pc[h] = "pool"
    /\ poolCache[project[h]] = None
    /\ Goto(h, "build")
    /\ UNCHANGED <<caches, memoryLock, built, role, project, mine, got, down>>

BuildPool(h, q) ==
    /\ pc[h] = "build"
    /\ q \notin poolsMade
    /\ poolsMade' = poolsMade \union {q}
    /\ mine' = [mine EXCEPT ![h] = q]
    /\ Goto(h, "race")
    /\ UNCHANGED <<caches, memoryLock, closed, poolOf, role, project,
                   got, down>>

(* A request that ends drops what it holds, the memory lock included.       *)
Finish(h) ==
    /\ Goto(h, "idle")
    /\ role' = [role EXCEPT ![h] = "state"]
    /\ project' = [project EXCEPT ![h] = None]
    /\ mine' = [mine EXCEPT ![h] = None]
    /\ got' = [got EXCEPT ![h] = None]
    /\ memoryLock' = IF memoryLock = h THEN None ELSE memoryLock

(* Connecting, migrating or the preflight checks fail.                      *)
BuildFails(h) ==
    /\ pc[h] = "build"
    /\ Finish(h)
    /\ UNCHANGED <<caches, built, down>>

MutInsertPoolBlind(h) ==   \* no second look before the insert
    /\ pc[h] = "race"
    /\ Goto(h, "store")
    /\ poolCache' = [poolCache EXCEPT ![project[h]] = mine[h]]
    /\ UNCHANGED <<storeCache, engines, memoryLock, built, role, project, mine, got, down>>

MutLoserKeepsPool(h) ==   \* the loser of the race does not close its pool
    LET p == project[h] IN
    /\ pc[h] = "race"
    /\ Goto(h, "store")
    /\ mine' = [mine EXCEPT ![h] = IF poolCache[p] = None THEN mine[h] ELSE poolCache[p]]
    /\ poolCache' = [poolCache EXCEPT ![p] = mine'[h]]
    /\ UNCHANGED <<storeCache, engines, memoryLock, built, role, project, got, down>>

(* The second look, under the write lock: the loser of a race closes its    *)
(* pool and takes the winner's.                                             *)
InsertPool(h) ==
    LET p == project[h] IN
    /\ pc[h] = "race"
    /\ Goto(h, "store")
    /\ IF poolCache[p] = None
         THEN /\ poolCache' = [poolCache EXCEPT ![p] = mine[h]]
              /\ UNCHANGED <<closed, mine>>
         ELSE /\ closed' = closed \union {mine[h]}
              /\ mine' = [mine EXCEPT ![h] = poolCache[p]]
              /\ UNCHANGED poolCache
    /\ UNCHANGED <<storeCache, engines, memoryLock, poolOf, poolsMade, role,
                   project, got, down>>

(* PostgresStateStore::from_pool opens no connection.                       *)
BuildStore(h, s) ==
    /\ pc[h] = "store" /\ role[h] = "state"
    /\ poolOf[s] = None
    /\ poolOf' = [poolOf EXCEPT ![s] = mine[h]]
    /\ got' = [got EXCEPT ![h] = s]
    /\ mine' = [mine EXCEPT ![h] = None]
    /\ Goto(h, "insert")
    /\ UNCHANGED <<caches, memoryLock, closed, poolsMade, role, project, down>>

(* The engine enters the map while its builder still holds the lock.        *)
InsertEngine(h) ==
    /\ pc[h] = "store" /\ role[h] = "memory"
    /\ engines' = [engines EXCEPT ![project[h]] = mine[h]]
    /\ Finish(h)
    /\ UNCHANGED <<poolCache, storeCache, built, down>>

(* Loading the configuration or building the embedding provider fails.      *)
StoreFails(h) ==
    /\ pc[h] = "store"
    /\ Finish(h)
    /\ UNCHANGED <<caches, built, down>>

MutInsertBlind(h) ==   \* no second look before the insert
    /\ pc[h] = "insert"
    /\ Goto(h, "using")
    /\ storeCache' = [storeCache EXCEPT ![project[h]] = got[h]]
    /\ UNCHANGED <<poolCache, engines, memoryLock, built, role, project, mine, got, down>>

(* get_or_init_state_store: the loser drops its store for the winner's.     *)
InsertStore(h) ==
    LET p == project[h] IN
    /\ pc[h] = "insert"
    /\ Goto(h, "using")
    /\ IF storeCache[p] = None
         THEN /\ storeCache' = [storeCache EXCEPT ![p] = got[h]]
              /\ UNCHANGED got
         ELSE /\ got' = [got EXCEPT ![h] = storeCache[p]]
              /\ UNCHANGED storeCache
    /\ UNCHANGED <<poolCache, engines, memoryLock, built, role, project, mine, down>>

(* The closure runs synchronously under the store's mutex; whatever comes   *)
(* of it, a poisoned mutex included, leaves the caches as they are.         *)
RunClosure(h) ==
    /\ pc[h] = "using"
    /\ Finish(h)
    /\ UNCHANGED <<caches, built, down>>

(* A local engine takes the place of whatever the map holds, from the       *)
(* fallback of an ingest or from ensure_project_memory_loaded.              *)
InstallLocal(p) ==
    /\ memoryLock = None
    /\ engines[p] # Local
    /\ engines' = [engines EXCEPT ![p] = Local]
    /\ UNCHANGED <<poolCache, storeCache, memoryLock, built, pc, role, project,
                   mine, got, down>>

-----------------------------------------------------------------------------
(* shutdown: the pools are drained and closed under their write lock, then  *)
(* the store map is cleared under its own; the engines are left alone.      *)
ShutdownPools ==
    /\ down = "up"
    /\ down' = "draining"
    /\ closed' = closed \union ({poolCache[p] : p \in Project} \ {None})
    /\ poolCache' = [p \in Project |-> None]
    /\ UNCHANGED <<storeCache, engines, memoryLock, poolOf, poolsMade, pc,
                   role, project, mine, got>>

ShutdownStores ==
    /\ down = "draining"
    /\ down' = "down"
    /\ storeCache' = [p \in Project |-> None]
    /\ UNCHANGED <<poolCache, engines, memoryLock, built, pc, role, project, mine, got>>

-----------------------------------------------------------------------------
HandlerStep(h) ==
    \/ PoolHit(h)
    \/ PoolMiss(h)
    \/ \E q \in Pool : BuildPool(h, q)
    \/ BuildFails(h)
    \/ InsertPool(h)
    \/ \E s \in Store : BuildStore(h, s)
    \/ InsertEngine(h)
    \/ StoreFails(h)
    \/ InsertStore(h)
    \/ RunClosure(h)

NewRequest(h) == \E p \in Project : AccessHit(h, p) \/ AccessMiss(h, p) \/ BuildEngine(h, p)

Next ==
    \/ \E h \in Handler : NewRequest(h) \/ HandlerStep(h)
    \/ \E p \in Project : InstallLocal(p)
    \/ ShutdownPools
    \/ ShutdownStores

Spec == Init /\ [][Next]_vars

-----------------------------------------------------------------------------
(* The cache implements one write-once cell per project: two requests that  *)
(* hold a store of the same project hold the same one, however their misses *)
(* race, until a shutdown empties the map.                                  *)
Cell == INSTANCE StoreCell
          WITH cell <- storeCache,
               got <- [h \in Handler |-> IF pc[h] = "using" THEN got[h] ELSE None]

ImplementsCell == Cell!Spec

(* "A single project can look up the shared pool once and both trait-role   *)
(* caches see the same backing connections": until a shutdown begins, the   *)
(* cached store and the engine of a project sit on the project's cached     *)
(* pool, and it is open.                                                    *)
RolesShareThePool ==
    down = "up" =>
        \A p \in Project :
            /\ storeCache[p] # None => poolOf[storeCache[p]] = poolCache[p]
            /\ engines[p] \notin {None, Local} => engines[p] = poolCache[p]
            /\ poolCache[p] # None => poolCache[p] \notin closed
            /\ storeCache[p] # None => poolCache[p] # None

(* No connection pool leaks: an open pool is cached, where a shutdown finds *)
(* it, or still in the hands of the request that built it.                  *)
NoPoolLeak ==
    \A q \in poolsMade \ closed :
        \/ \E p \in Project : poolCache[p] = q
        \/ \E h \in Handler : pc[h] = "race" /\ mine[h] = q
=============================================================================
