------------------------ MODULE ProjectMemory_proofs ------------------------
(***************************************************************************)
(* Proofs about ProjectMemory for any number of handlers and transcripts   *)
(* and any combination of faults: its type invariant, that what search     *)
(* finds is accounted for, that acknowledged ingests are durable, and, for *)
(* the sequential transport, that a loaded engine misses one row at most.  *)
(***************************************************************************)
EXTENDS ProjectMemory, TLAPS

(* Every variable keeps its type: whatever the interleaving, a handler is   *)
(* suspended at one of the awaits of broker.rs and carries transcripts.     *)
THEOREM TypeCorrect == Spec => []TypeOK
<1>1. Init => TypeOK
  BY DEF Init, TypeOK, PC
<1>2. TypeOK /\ [Next]_vars => TypeOK'
  <2> SUFFICES ASSUME TypeOK, [Next]_vars
               PROVE  TypeOK'
    OBVIOUS
  <2> USE DEF TypeOK, PC
  <2>1. CASE Restart
    BY <2>1 DEF Restart, storeVars
  <2>2. ASSUME NEW h \in Handler, Request(h)
        PROVE  TypeOK'
    <3>1. CASE StartSearch(h) \/ StartWakeUp(h)
      BY <3>1 DEF StartSearch, StartWakeUp, StartRead, Goto, engineVars, storeVars
    <3>2. ASSUME NEW c \in Conv, StartIngest(h, c)
          PROVE  TypeOK'
      BY <3>2 DEF StartIngest, ListConversationSources, Goto, engineVars, storeVars
    <3>3. CASE IngestDocs(h) \/ IngestDocsFallback(h)
      BY <3>3 DEF IngestDocs, IngestDocsFallback, Built, storeVars, handlerVars
    <3>4. QED
      BY <2>2, <3>1, <3>2, <3>3 DEF Request
  <2>3. ASSUME NEW h \in Handler, HandlerStep(h)
        PROVE  TypeOK'
    <3>1. CASE ListSources(h) \/ ListForWakeUp(h)
      BY <3>1 DEF ListSources, ListForWakeUp, ListConversationSources, Goto, engineVars, storeVars
    <3>2. CASE InstallHydrated(h)
      BY <3>2 DEF InstallHydrated, Goto, storeVars
    <3>3. CASE LoadFails(h) \/ ReadEngine(h) \/ BuildFails(h)
      BY <3>3 DEF LoadFails, ReadEngine, BuildFails, Finish, Goto, engineVars, storeVars
    <3>4. CASE DirectIngest(h) \/ FallbackIngest(h)
      BY <3>4 DEF DirectIngest, FallbackIngest, Built, Goto, storeVars
    <3>5. CASE IngestFails(h)
      BY <3>5 DEF IngestFails, Built, Finish, Goto, storeVars
    <3>6. ASSUME NEW n \in 0 .. 4, Commit(h, n)
          PROVE  TypeOK'
      <4>1. sources' \in SUBSET Conv /\ older' \in SUBSET (sources' \X sources')
        BY <3>6 DEF Commit, UpsertSource
      <4> QED BY <3>6, <4>1 DEF Commit, Finish, Goto, engineVars
    <3>7. QED
      BY <2>3, <3>1, <3>2, <3>3, <3>4, <3>5, <3>6 DEF HandlerStep
  <2>4. CASE UNCHANGED vars
    BY <2>4 DEF vars, engineVars, storeVars, handlerVars
  <2>5. QED
    BY <2>1, <2>2, <2>3, <2>4 DEF Next
<1>3. QED
  BY <1>1, <1>2, PTL DEF Spec

-----------------------------------------------------------------------------
(* Accounting is inductive once one knows that no handler has ever listed a *)
(* source that is not persisted: sources are never deleted.                 *)
ListedIsPersisted == \A h \in Handler : want[h] \subseteq sources

AccountedInv == ListedIsPersisted /\ SearchableIsAccounted

(* No interleaving, failure or restart leaves a conversation searchable     *)
(* that is neither persisted, nor about to be, nor reported as failed.      *)
THEOREM Accounted == Spec => []SearchableIsAccounted
<1>1. Init => AccountedInv
  BY DEF Init, AccountedInv, ListedIsPersisted, SearchableIsAccounted
<1>2. TypeOK /\ AccountedInv /\ [Next]_vars => AccountedInv'
  <2> SUFFICES ASSUME TypeOK, AccountedInv, [Next]_vars
               PROVE  AccountedInv'
    OBVIOUS
  <2> USE DEF TypeOK, AccountedInv, ListedIsPersisted, SearchableIsAccounted
  <2>1. CASE Restart
    BY <2>1 DEF Restart, storeVars
  <2>2. ASSUME NEW h \in Handler, Request(h)
        PROVE  AccountedInv'
    <3>1. CASE StartSearch(h) \/ StartWakeUp(h)
      BY <3>1 DEF StartSearch, StartWakeUp, StartRead, CanStart, Goto, engineVars, storeVars
    <3>2. ASSUME NEW c \in Conv, StartIngest(h, c)
          PROVE  AccountedInv'
      BY <3>2 DEF StartIngest, ListConversationSources, CanStart, Goto, engineVars, storeVars
    <3>3. CASE IngestDocs(h) \/ IngestDocsFallback(h)
      BY <3>3 DEF IngestDocs, IngestDocsFallback, storeVars, handlerVars
    <3>4. QED
      BY <2>2, <3>1, <3>2, <3>3 DEF Request
  <2>3. ASSUME NEW h \in Handler, HandlerStep(h)
        PROVE  AccountedInv'
    <3>1. CASE ListSources(h) \/ ListForWakeUp(h)
      BY <3>1 DEF ListSources, ListForWakeUp, ListConversationSources, Goto, engineVars, storeVars
    <3>2. CASE InstallHydrated(h)
      BY <3>2 DEF InstallHydrated, storeVars
    <3>3. CASE LoadFails(h) \/ ReadEngine(h) \/ BuildFails(h)
      BY <3>3 DEF LoadFails, ReadEngine, BuildFails, Finish, Goto, engineVars, storeVars
    <3>4. CASE DirectIngest(h) \/ FallbackIngest(h)
      BY <3>4 DEF DirectIngest, FallbackIngest, Goto, storeVars
    <3>5. CASE IngestFails(h)
      BY <3>5 DEF IngestFails, Finish, Goto, storeVars
    <3>6. ASSUME NEW n \in 0 .. 4, Commit(h, n)
          PROVE  AccountedInv'
      BY <3>6 DEF Commit, UpsertSource, Finish, Goto, engineVars
    <3>7. QED
      BY <2>3, <3>1, <3>2, <3>3, <3>4, <3>5, <3>6 DEF HandlerStep
  <2>4. CASE UNCHANGED vars
    BY <2>4 DEF vars, engineVars, storeVars, handlerVars
  <2>5. QED
    BY <2>1, <2>2, <2>3, <2>4 DEF Next
<1>3. AccountedInv => SearchableIsAccounted
  BY DEF AccountedInv
<1>4. QED
  BY <1>1, <1>2, <1>3, TypeCorrect, PTL DEF Spec

(* An ingest answered Ok is persisted with its navigation nodes and         *)
(* lessons, through every later failure and restart.                        *)
THEOREM Durable == Spec => []AckedIsDurable
<1>1. Init => AckedIsDurable
  BY DEF Init, AckedIsDurable
<1>2. TypeOK /\ AckedIsDurable /\ [Next]_vars => AckedIsDurable'
  <2> SUFFICES ASSUME TypeOK, AckedIsDurable, [Next]_vars
               PROVE  AckedIsDurable'
    OBVIOUS
  <2>1. ASSUME NEW h \in Handler, NEW n \in 0 .. 4, Commit(h, n)
        PROVE  AckedIsDurable'
    BY <2>1 DEF Commit, UpsertSource, AckedIsDurable
  <2>2. CASE UNCHANGED <<storeVars, acked>>
    BY <2>2 DEF AckedIsDurable, storeVars
  <2>3. QED
    BY <2>1, <2>2
    DEF Next, Request, HandlerStep, vars, Restart, StartSearch, StartWakeUp,
        StartRead, StartIngest, IngestDocs, IngestDocsFallback, ListSources,
        InstallHydrated, LoadFails, ReadEngine, ListForWakeUp, BuildFails,
        DirectIngest, FallbackIngest, IngestFails
<1>3. QED
  BY <1>1, <1>2, TypeCorrect, PTL DEF Spec

-----------------------------------------------------------------------------
(* The sequential transport.  With at most one request in flight a reader   *)
(* that loads the engine is alone, and what a handler has listed is still   *)
(* what the store lists; nothing is persisted before an engine exists.      *)
AtMostOne == \A g, h \in Handler : pc[g] # "idle" /\ pc[h] # "idle" => g = h

LoaderIsAlone ==
    \A h \in Handler : pc[h] \in {"listing", "building"} => kind = "none"

(* The rows are in the order they were written in.                          *)
RowsAreOrdered == \A c, d \in sources : c = d \/ <<c, d>> \in older \/ <<d, c>> \in older

AllBut(found) ==
    \A c \in sources \ found : env.store = "redis" /\ \A d \in sources \ {c} : <<c, d>> \in older

ListedMissesTheOldest ==
    \A h \in Handler : pc[h] \in {"building", "ingesting"} => AllBut(want[h])

CommittedIsIndexed ==
    \A h \in Handler : pc[h] = "committing" => kind # "none" /\ carry[h] \subseteq indexed

NothingBeforeEngine == kind = "none" => sources = {}

CarriesOne == \A h \in Handler : \A c, d \in carry[h] : c = d

SequentialInv ==
    /\ AtMostOne
    /\ LoaderIsAlone
    /\ RowsAreOrdered
    /\ ListedMissesTheOldest
    /\ CommittedIsIndexed
    /\ NothingBeforeEngine
    /\ CarriesOne
    /\ kind # "none" => AllBut(indexed)

(* A list has every row, but on Redis not the one that no other precedes.   *)
LEMMA ListMissesTheOldest ==
  ASSUME RowsAreOrdered PROVE AllBut(ListConversationSources)
BY DEF RowsAreOrdered, AllBut, ListConversationSources

(* What misses the oldest row only does so when fewer rows are missing, and *)
(* when a row that it finds becomes the newest.                             *)
LEMMA UpsertKeepsAllBut ==
  ASSUME NEW cs, NEW found, older \subseteq sources \X sources, AllBut(found), cs \subseteq found,
         UpsertSource(cs), UNCHANGED env
  PROVE  AllBut(found)'
<1> SUFFICES ASSUME NEW c \in sources' \ found'
             PROVE  env.store = "redis" /\ \A d \in sources' \ {c} : <<c, d>> \in older'
  BY DEF AllBut
<1> QED BY DEF AllBut, UpsertSource

LEMMA SequentialStep ==
  ASSUME StdioConversations, TypeOK, SequentialInv, [Next]_vars
  PROVE  SequentialInv'
<1> USE DEF StdioConversations, TypeOK, PC, SequentialInv, AtMostOne, LoaderIsAlone,
            ListedMissesTheOldest, CommittedIsIndexed, NothingBeforeEngine, CarriesOne
<1>1. CASE Restart
  BY <1>1 DEF Restart
<1>2. ASSUME UNCHANGED <<env, sources, older>>
      PROVE  RowsAreOrdered' /\ AllBut(ListConversationSources) /\ \A found : AllBut(found) => AllBut(found)'
  <2>1. AllBut(ListConversationSources)
    BY ListMissesTheOldest
  <2> QED BY <1>2, <2>1 DEF RowsAreOrdered, AllBut
<1>3. ASSUME NEW h \in Handler, Request(h)
      PROVE  SequentialInv'
  <2>1. CASE StartSearch(h) \/ StartWakeUp(h)
    BY <1>2, <2>1 DEF StartSearch, StartWakeUp, StartRead, CanStart, Goto, engineVars, storeVars
  <2>2. ASSUME NEW c \in Conv, StartIngest(h, c)
        PROVE  SequentialInv'
    BY <1>2, <2>2 DEF StartIngest, CanStart, Goto, engineVars, storeVars
  <2>3. ~IngestDocs(h) /\ ~IngestDocsFallback(h)
    BY DEF IngestDocs, IngestDocsFallback, CanStart
  <2>4. QED
    BY <1>3, <2>1, <2>2, <2>3 DEF Request
<1>4. ASSUME NEW h \in Handler, HandlerStep(h)
      PROVE  SequentialInv'
  <2>1. CASE ListSources(h) \/ ListForWakeUp(h)
    BY <1>2, <2>1 DEF ListSources, ListForWakeUp, Goto, engineVars, storeVars
  <2>2. CASE InstallHydrated(h)
    BY <1>2, <2>2 DEF InstallHydrated, Goto, storeVars
  <2>3. CASE LoadFails(h) \/ ReadEngine(h) \/ BuildFails(h)
    BY <1>2, <2>3 DEF LoadFails, ReadEngine, BuildFails, Finish, Goto, engineVars, storeVars
  <2>4. CASE DirectIngest(h) \/ FallbackIngest(h)
    <3>1. /\ UNCHANGED <<env, sources, older, want, carry>> /\ kind' # "none"
          /\ pc[h] = "ingesting" /\ pc' = [pc EXCEPT ![h] = "committing"] /\ carry[h] \subseteq indexed'
      BY <2>4 DEF DirectIngest, FallbackIngest, Built, BackendRefuses, Goto, storeVars
    <3>2. AllBut(indexed')
      <4>1. CASE DirectIngest(h)
        BY <4>1 DEF DirectIngest, AllBut
      <4>2. CASE FallbackIngest(h)
        BY <4>2 DEF FallbackIngest, AllBut
      <4> QED BY <2>4, <4>1, <4>2
    <3> QED BY <1>2, <3>1, <3>2 DEF AllBut
  <2>5. CASE IngestFails(h)
    BY <2>5 DEF IngestFails
  <2>6. ASSUME NEW n \in 0 .. 4, Commit(h, n)
        PROVE  SequentialInv'
    <3>1. /\ UNCHANGED <<env, kind, indexed>> /\ pc[h] = "committing"
          /\ pc' = [pc EXCEPT ![h] = "idle"] /\ kind # "none" /\ carry[h] \subseteq indexed
      BY <2>6 DEF Commit, Finish, Goto, engineVars
    <3>2. (\A g \in Handler : pc'[g] = "idle") /\ carry' = [carry EXCEPT ![h] = {}]
      BY <2>6, <3>1 DEF Commit, Finish
    <3>3. UpsertSource(carry[h]) \/ UNCHANGED <<sources, older>>
      BY <2>6 DEF Commit
    <3>4. RowsAreOrdered'
      <4>1. CASE UNCHANGED <<sources, older>>
        BY <4>1 DEF RowsAreOrdered
      <4>2. CASE UpsertSource(carry[h])
        <5> SUFFICES ASSUME NEW c \in sources', NEW d \in sources'
                     PROVE  c = d \/ <<c, d>> \in older' \/ <<d, c>> \in older'
          BY DEF RowsAreOrdered
        <5>1. CASE c \in carry[h] \/ d \in carry[h]
          BY <4>2, <5>1 DEF UpsertSource
        <5>2. CASE c \notin carry[h] /\ d \notin carry[h]
          BY <4>2, <5>2 DEF RowsAreOrdered, UpsertSource
        <5> QED BY <5>1, <5>2
      <4> QED BY <3>3, <4>1, <4>2
    <3>5. AllBut(indexed)'
      BY <3>1, <3>3, UpsertKeepsAllBut DEF AllBut
    <3>6. AtMostOne' /\ LoaderIsAlone' /\ ListedMissesTheOldest' /\ CommittedIsIndexed' /\ NothingBeforeEngine'
      BY <3>1, <3>2
    <3>7. CarriesOne'
      BY <3>2
    <3> QED BY <3>4, <3>5, <3>6, <3>7
  <2>7. QED
    BY <1>4, <2>1, <2>2, <2>3, <2>4, <2>5, <2>6 DEF HandlerStep
<1>5. CASE UNCHANGED vars
  BY <1>2, <1>5 DEF vars, engineVars, storeVars, handlerVars
<1>6. QED
  BY <1>1, <1>3, <1>4, <1>5 DEF Next

(* Under the stdio transport every persisted conversation stays searchable  *)
(* from the first request on, but on Redis for the one persisted longest    *)
(* ago.                                                                     *)
THEOREM SequentialMissesLittle == Spec => []SequentialMissesOnlyTheOldest
<1> DEFINE IInv == StdioConversations => SequentialInv
<1>1. Init => IInv
  BY DEF Init, SequentialInv, AtMostOne, LoaderIsAlone, RowsAreOrdered, ListedMissesTheOldest,
         CommittedIsIndexed, NothingBeforeEngine, CarriesOne
<1>2. TypeOK /\ IInv /\ [Next]_vars => IInv'
  <2> SUFFICES ASSUME TypeOK, IInv, [Next]_vars, StdioConversations'
               PROVE  SequentialInv'
    OBVIOUS
  <2>1. StdioConversations
    BY DEF StdioConversations, Next, Request, HandlerStep, vars, Restart, StartSearch,
           StartWakeUp, StartRead, StartIngest, IngestDocs, IngestDocsFallback,
           ListSources, InstallHydrated, LoadFails, ReadEngine, ListForWakeUp,
           BuildFails, DirectIngest, FallbackIngest, IngestFails, Commit
  <2>2. QED
    BY <2>1, SequentialStep
<1>3. IInv => SequentialMissesOnlyTheOldest
  BY DEF SequentialInv, SequentialMissesOnlyTheOldest, MissesOnlyTheOldest, AllBut
<1>4. QED
  BY <1>1, <1>2, <1>3, TypeCorrect, PTL DEF Spec

-----------------------------------------------------------------------------
(* Any concurrency: a loaded engine forgets a conversation only when a      *)
(* reader that saw no engine installs its own over it, or its path begins   *)
(* with the root of a docs ingest.  The backend, the local fallback and the *)
(* docs walk are healthy here; restarts, failed builds and store errors may *)
(* occur.                                                                   *)
THEOREM LateLoaders == Spec => OnlyLateLoadersForget
<1> DEFINE Keeps == Healthy /\ kind # "none" /\ kind' # "none" /\ ~Loading
                      => indexed \ UnderDocs \subseteq indexed'
<1>1. ASSUME [Next]_vars
      PROVE  Keeps
  <2>1. CASE Restart
    BY <2>1 DEF Restart
  <2>2. ASSUME Healthy, NEW h \in Handler, Request(h)
        PROVE  Keeps
    <3>1. ~IngestDocsFallback(h)
      BY <2>2 DEF Healthy, IngestDocsFallback, BackendRefuses
    <3>2. QED
      BY <2>2, <3>1 DEF Request, StartSearch, StartWakeUp, StartRead, StartIngest,
                        IngestDocs, Healthy, engineVars
  <2>3. ASSUME Healthy, NEW h \in Handler, HandlerStep(h)
        PROVE  Keeps
    <3>1. CASE InstallHydrated(h)
      BY <3>1 DEF InstallHydrated, Loading
    <3>2. ~FallbackIngest(h) /\ ~IngestFails(h)
      BY <2>3 DEF Healthy, FallbackIngest, IngestFails, BackendRefuses
    <3>3. QED
      BY <2>3, <3>1, <3>2 DEF HandlerStep, ListSources, LoadFails, ReadEngine,
         ListForWakeUp, BuildFails, DirectIngest, Commit, engineVars
  <2>4. CASE UNCHANGED vars
    BY <2>4 DEF vars, engineVars
  <2>5. QED
    BY <1>1, <2>1, <2>2, <2>3, <2>4 DEF Next
<1>2. QED
  BY <1>1, PTL DEF Spec, OnlyLateLoadersForget

=============================================================================
