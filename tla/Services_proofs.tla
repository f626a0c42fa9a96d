-------------------------- MODULE Services_proofs --------------------------
(***************************************************************************)
(* The proofs about what the broker does besides storing: the tools of a   *)
(* project, the approvals of their runs, the providers that classify       *)
(* requests, the configuration, the JSON-RPC front, the chunkers, and the  *)
(* memory engine with the watcher that feeds it.  Only these two share     *)
(* state.                                                                  *)
(***************************************************************************)
EXTENDS MCServices, AutoIndex, DataInduction,
        SequenceTheorems, FunctionTheorems


(***************************************************************************)
(* The catalog of tools and the enabled families, for any tools, files and *)
(* overlapping callers.                                                    *)
(***************************************************************************)

Phases == {"opening", "importing", "opened", "ready", "installing"}

Ops == {"add", "remove", "disable", "install", "info", "update", "suggest", "list"}

(* What a call carries, by what it is for.                                  *)
ToolCall == [phase: Phases, op: Ops, tool: Tools \union {NoTool}, next: Nat]
SearchCall == [phase: Phases \union {"asking", "embedding"}, op: {"search"}, tool: {NoTool}, next: Nat, ids: SUBSET Tools]
EnableCall == [phase: {"loaded"}, op: {"enable"}, tool: {NoTool}, next: Nat, family: Families, list: SUBSET Families]
Calls == {NoCall} \union ToolCall \union SearchCall \union EnableCall

(* The types the proofs need.                                               *)
ToolShape ==
    /\ tools \in [Tools -> {"catalog", "user", NoTool}]
    /\ caller \in [ToolCallers -> Calls]

Loaded(c) == caller[c].phase = "loaded"

(* While no two calls overlap, the one that has loaded the families holds   *)
(* all of them; lists are finite, so that they can be counted.              *)
FamiliesInv ==
    /\ families \subseteq Families /\ IsFiniteSet(families)
    /\ \A c \in ToolCallers : Loaded(c) => IsFiniteSet(caller[c].list)
    /\ ~crossed => \A c \in ToolCallers : Loaded(c) =>
          /\ caller[c].list = families \union {caller[c].family}
          /\ \A d \in ToolCallers : Loaded(d) => d = c

ToolInv == ToolShape /\ FamiliesInv /\ FamiliesAreBounded /\ inventory \subseteq binaries /\ SearchIsTrue

-----------------------------------------------------------------------------
LEMMA ToolInitInv == ToolInit => ToolInv
<1> SUFFICES ASSUME ToolInit PROVE ToolInv
  OBVIOUS
<1>1. ToolShape
  BY DEF ToolInit, ToolShape, Calls
<1>2. FamiliesInv
  BY FS_EmptySet DEF ToolInit, FamiliesInv, Loaded, NoCall
<1>3. FamiliesAreBounded
  BY FS_EmptySet, ToolCatalogAssumption DEF ToolInit, FamiliesAreBounded
<1>4. inventory \subseteq binaries /\ SearchIsTrue
  BY DEF ToolInit, SearchIsTrue
<1> QED BY <1>1, <1>2, <1>3, <1>4 DEF ToolInv

(* A call that has loaded the families is an EnableCall, and no other is.   *)
LEMMA LoadedIs ==
    ASSUME NEW x \in Calls
    PROVE  /\ x.phase = "loaded" <=> x \in EnableCall
           /\ x.phase \in Phases => x \in ToolCall \union SearchCall
           /\ x.phase \in {"asking", "embedding"} => x \in SearchCall
BY DEF Calls, NoCall, ToolCall, SearchCall, EnableCall, Phases

(* A call goes on to another phase of its own kind, or ends.                *)
LEMMA MoveIs ==
    ASSUME NEW x \in ToolCall \union SearchCall, NEW phase \in Phases
    PROVE  /\ [x EXCEPT !.phase = phase] \in Calls
           /\ [x EXCEPT !.phase = phase].phase = phase
BY DEF Calls, ToolCall, SearchCall, Phases

(* A step of one call that is not about families keeps what is known of the *)
(* others and of the families.                                              *)
LEMMA CallStep ==
    ASSUME ToolShape, FamiliesInv, FamiliesAreBounded, NEW c \in ToolCallers, NEW x \in Calls,
           caller' = [caller EXCEPT ![c] = x], x.phase # "loaded", FamiliesUnchanged
    PROVE  caller' \in [ToolCallers -> Calls] /\ FamiliesInv' /\ FamiliesAreBounded'
<1>1. caller' \in [ToolCallers -> Calls]
  BY DEF ToolShape
<1>2. families' = families /\ granted' = granted /\ crossed' = crossed
  BY DEF FamiliesUnchanged
<1>3. \A d \in ToolCallers : Loaded(d)' => Loaded(d) /\ caller'[d] = caller[d]
  BY DEF ToolShape, Loaded
<1>4. FamiliesInv'
  BY <1>2, <1>3 DEF FamiliesInv
<1>5. FamiliesAreBounded'
  BY <1>2 DEF FamiliesAreBounded
<1> QED BY <1>1, <1>4, <1>5

-----------------------------------------------------------------------------
(* Steps that leave the tables and the answers alone.                       *)
LEMMA BeginInv ==
    ASSUME ToolInv, NEW c \in ToolCallers, NEW op \in Ops, NEW t \in Tools \union {NoTool}, BeginTool(c, op, t)
    PROVE  ToolInv'
<1> DEFINE x == [phase |-> IF opened THEN "ready" ELSE "opening", op |-> op, tool |-> t, next |-> 0]
<1>1. caller' = [caller EXCEPT ![c] = x] /\ FamiliesUnchanged
      /\ UNCHANGED <<tools, inventory, binaries, found>>
  BY DEF BeginTool, TableUnchanged, SearchUnchanged
<1>2. x \in Calls /\ x.phase # "loaded"
  BY DEF Calls, ToolCall, Phases
<1> HIDE DEF x
<1> QED BY <1>1, <1>2, CallStep DEF ToolInv, ToolShape, SearchIsTrue

LEMMA MovesInv ==
    ASSUME ToolInv, NEW c \in ToolCallers, NEW phase \in Phases, Moves(c, phase), caller[c].phase \in Phases,
           FamiliesUnchanged
    PROVE  caller' \in [ToolCallers -> Calls] /\ FamiliesInv' /\ FamiliesAreBounded'
<1> DEFINE x == [caller[c] EXCEPT !.phase = phase]
<1>1. caller[c] \in ToolCall \union SearchCall
  BY LoadedIs DEF ToolInv, ToolShape
<1>2. x \in Calls /\ x.phase # "loaded"
  BY <1>1, MoveIs DEF Phases
<1>3. caller' = [caller EXCEPT ![c] = x]
  BY DEF Moves
<1> HIDE DEF x
<1> QED BY <1>2, <1>3, CallStep DEF ToolInv

LEMMA EndsInv ==
    ASSUME ToolInv, NEW c \in ToolCallers, Ends(c), FamiliesUnchanged
    PROVE  /\ caller' \in [ToolCallers -> Calls] /\ FamiliesInv' /\ FamiliesAreBounded'
           /\ caller'[c] = NoCall
<1>1. NoCall \in Calls /\ NoCall.phase # "loaded"
  BY DEF Calls, NoCall
<1>2. caller' = [caller EXCEPT ![c] = NoCall]
  BY DEF Ends
<1>3. caller' \in [ToolCallers -> Calls] /\ FamiliesInv' /\ FamiliesAreBounded'
  BY <1>1, <1>2, CallStep DEF ToolInv
<1>4. caller'[c] = NoCall
  BY <1>2 DEF ToolInv, ToolShape
<1> QED BY <1>3, <1>4

(* An import puts tools in and takes none out.                              *)
LEMMA ImportIs ==
    ASSUME NEW ids, NEW source \in {"catalog", "user"}, tools \in [Tools -> {"catalog", "user", NoTool}]
    PROVE  /\ ImportTools(ids, source) \in [Tools -> {"catalog", "user", NoTool}]
           /\ \A t \in Present : ImportTools(ids, source)[t] # NoTool
BY ToolCatalogAssumption DEF ImportTools, Present

LEMMA EnsureInv ==
    ASSUME ToolInv, NEW c \in ToolCallers, EnsureCatalog(c)
    PROVE  ToolInv'
<1>1. CASE OpenCatalog(c)
  <2>1. caller' \in [ToolCallers -> Calls] /\ FamiliesInv' /\ FamiliesAreBounded'
    <3>1. Moves(c, "importing") \/ Moves(c, "opened")
      BY <1>1 DEF OpenCatalog
    <3>2. caller[c].phase = "opening" /\ FamiliesUnchanged
      BY <1>1 DEF OpenCatalog
    <3> QED BY <3>1, <3>2, MovesInv DEF Phases
  <2> QED BY <1>1, <2>1 DEF OpenCatalog, TableUnchanged, SearchUnchanged, ToolInv, ToolShape, SearchIsTrue
<1>2. CASE ImportFile(c)
  <2> DEFINE x == [caller[c] EXCEPT !.next = @ + 1]
  <2>1. caller[c] \in ToolCall \union SearchCall
    BY <1>2, LoadedIs DEF ImportFile, ToolInv, ToolShape, Phases
  <2>2. x \in Calls /\ x.phase # "loaded"
    BY <1>2, <2>1 DEF ImportFile, Calls, ToolCall, SearchCall, Phases
  <2>3. caller' = [caller EXCEPT ![c] = x] /\ FamiliesUnchanged
    BY <1>2 DEF ImportFile
  <2> HIDE DEF x
  <2>4. caller' \in [ToolCallers -> Calls] /\ FamiliesInv' /\ FamiliesAreBounded'
    BY <2>2, <2>3, CallStep DEF ToolInv
  <2>5. tools' \in [Tools -> {"catalog", "user", NoTool}]
    BY <1>2, ImportIs DEF ImportFile, ToolInv, ToolShape
  <2> QED BY <1>2, <2>4, <2>5 DEF ImportFile, SearchUnchanged, ToolInv, ToolShape, SearchIsTrue
<1>3. CASE ScanAfterImport(c)
  <2>1. caller' \in [ToolCallers -> Calls] /\ FamiliesInv' /\ FamiliesAreBounded'
    BY <1>3, MovesInv DEF ScanAfterImport, Phases
  <2>2. inventory' \subseteq binaries
    BY <1>3 DEF ScanAfterImport, ScanSystemInventory, ToolInv
  <2> QED BY <1>3, <2>1, <2>2 DEF ScanAfterImport, SearchUnchanged, ToolInv, ToolShape, SearchIsTrue
<1>4. CASE StoreCatalog(c)
  <2>1. caller' \in [ToolCallers -> Calls] /\ FamiliesInv' /\ FamiliesAreBounded'
    BY <1>4, MovesInv DEF StoreCatalog, Phases
  <2> QED BY <1>4, <2>1 DEF StoreCatalog, TableUnchanged, SearchUnchanged, ToolInv, ToolShape, SearchIsTrue
<1> QED BY <1>1, <1>2, <1>3, <1>4 DEF EnsureCatalog

-----------------------------------------------------------------------------
(* Handlers that change the tables.                                         *)
LEMMA TableInv ==
    ASSUME ToolInv, NEW c \in ToolCallers,
           ToolAdd(c) \/ ToolRemove(c) \/ ToolDisable(c) \/ ToolCatalogUpdate(c)
    PROVE  ToolInv'
<1>1. Ends(c) /\ FamiliesUnchanged /\ binaries' = binaries /\ found' = found
  BY DEF ToolAdd, ToolRemove, ToolDisable, ToolCatalogUpdate, SearchUnchanged
<1>2. caller' \in [ToolCallers -> Calls] /\ FamiliesInv' /\ FamiliesAreBounded'
  BY <1>1, EndsInv
<1>3. tools' \in [Tools -> {"catalog", "user", NoTool}]
  <2>1. CASE ToolAdd(c)
    BY <2>1, ImportIs DEF ToolAdd, ToolInv, ToolShape
  <2>2. CASE ToolRemove(c)
    BY <2>2 DEF ToolRemove, RemoveUserTool, ToolInv, ToolShape
  <2>3. CASE ToolDisable(c)
    BY <2>3 DEF ToolDisable, ToolInv, ToolShape
  <2>4. CASE ToolCatalogUpdate(c)
    BY <2>4, ImportIs DEF ToolCatalogUpdate, ImportCatalogDir, ToolInv, ToolShape
  <2> QED BY <2>1, <2>2, <2>3, <2>4
<1>4. inventory' \subseteq binaries
  BY DEF ToolAdd, ToolRemove, ToolDisable, ToolCatalogUpdate, ScanSystemInventory, ToolInv
<1> QED BY <1>1, <1>2, <1>3, <1>4 DEF ToolInv, ToolShape, SearchIsTrue

LEMMA InstallInv ==
    ASSUME ToolInv, NEW c \in ToolCallers, InstallReads(c) \/ InstallEnds(c, TRUE) \/ InstallEnds(c, FALSE)
    PROVE  ToolInv'
<1>1. CASE InstallReads(c)
  <2>1. (Moves(c, "installing") \/ Ends(c)) /\ caller[c].phase = "ready" /\ FamiliesUnchanged
    BY <1>1 DEF InstallReads, Ready
  <2>2. caller' \in [ToolCallers -> Calls] /\ FamiliesInv' /\ FamiliesAreBounded'
    BY <2>1, MovesInv, EndsInv DEF Phases
  <2> QED BY <1>1, <2>2 DEF InstallReads, TableUnchanged, SearchUnchanged, ToolInv, ToolShape, SearchIsTrue
<1>2. ASSUME NEW ok \in BOOLEAN, InstallEnds(c, ok) PROVE ToolInv'
  <2>1. Ends(c) /\ FamiliesUnchanged /\ tools' = tools /\ found' = found
    BY <1>2 DEF InstallEnds, SearchUnchanged
  <2>2. caller' \in [ToolCallers -> Calls] /\ FamiliesInv' /\ FamiliesAreBounded'
    BY <2>1, EndsInv
  <2>3. inventory' \subseteq binaries' /\ binaries \subseteq binaries'
    BY <1>2 DEF InstallEnds, ToolInv
  <2> QED BY <2>1, <2>2, <2>3 DEF ToolInv, ToolShape, SearchIsTrue
<1> QED BY <1>1, <1>2

-----------------------------------------------------------------------------
(* Handlers that answer.                                                    *)
LEMMA SearchInv ==
    ASSUME ToolInv, NEW c \in ToolCallers, SearchBegins(c) \/ EmbedTools(c)
    PROVE  ToolInv'
<1>1. CASE SearchBegins(c)
  <2> DEFINE x == [phase |-> IF embedded \/ ~opened \/ Present = {} THEN "asking" ELSE "embedding",
                   op |-> "search", tool |-> NoTool, next |-> 0, ids |-> IF opened THEN Present ELSE {}]
  <2>1. caller' = [caller EXCEPT ![c] = x] /\ FamiliesUnchanged /\ UNCHANGED <<tools, inventory, binaries, found>>
    BY <1>1 DEF SearchBegins, TableUnchanged
  <2>2. x \in Calls /\ x.phase # "loaded"
    BY DEF Calls, SearchCall, Phases, Present
  <2> HIDE DEF x
  <2> QED BY <2>1, <2>2, CallStep DEF ToolInv, ToolShape, SearchIsTrue
<1>2. CASE EmbedTools(c)
  <2> DEFINE x == [caller[c] EXCEPT !.phase = "asking"]
  <2>1. caller' = [caller EXCEPT ![c] = x] /\ FamiliesUnchanged /\ UNCHANGED <<tools, inventory, binaries, found>>
    BY <1>2 DEF EmbedTools, Moves, TableUnchanged
  <2>2. caller[c] \in SearchCall
    BY <1>2, LoadedIs DEF EmbedTools, ToolInv, ToolShape
  <2>3. x \in Calls /\ x.phase # "loaded"
    BY <2>2 DEF Calls, SearchCall
  <2> HIDE DEF x
  <2> QED BY <2>1, <2>3, CallStep DEF ToolInv, ToolShape, SearchIsTrue
<1> QED BY <1>1, <1>2

(* Semantic search answers with tools there are, or with nothing yet.       *)
LEMMA SemanticInv ==
    ASSUME ToolInv, NEW c \in ToolCallers, SearchToolsSemantic(c)
    PROVE  ToolInv'
<1>1. /\ caller[c].phase = "asking" /\ FamiliesUnchanged /\ UNCHANGED <<tools, inventory, binaries>>
      /\ \E hits \in SUBSET toolPoints :
            LET shown == {t \in hits : GetTool(t) # {}} IN
            IF opened /\ shown # {} THEN Answers(c, shown) ELSE FallsThrough(c)
  BY DEF SearchToolsSemantic, TableUnchanged
<1>2. CASE FallsThrough(c)
  <2> DEFINE x == [caller[c] EXCEPT !.phase = IF opened THEN "ready" ELSE "opening"]
  <2>1. caller' = [caller EXCEPT ![c] = x] /\ found' = found
    BY <1>2 DEF FallsThrough
  <2>2. caller[c] \in SearchCall
    BY <1>1, LoadedIs DEF ToolInv, ToolShape
  <2>3. x \in Calls /\ x.phase # "loaded"
    BY <2>2 DEF Calls, SearchCall, Phases
  <2> HIDE DEF x
  <2> QED BY <1>1, <2>1, <2>3, CallStep DEF ToolInv, ToolShape, SearchIsTrue
<1>3. ASSUME NEW hits, hits \subseteq toolPoints, {t \in hits : GetTool(t) # {}} # {},
             Answers(c, {t \in hits : GetTool(t) # {}})
      PROVE  ToolInv'
  <2>1. Ends(c) /\ found' = [shown |-> {t \in hits : GetTool(t) # {}}, present |-> Present, installed |-> {}]
    BY <1>3 DEF Answers
  <2>2. {t \in hits : GetTool(t) # {}} \subseteq Present
    BY DEF GetTool
  <2>3. SearchIsTrue'
    BY <1>3, <2>1, <2>2 DEF SearchIsTrue
  <2> QED BY <1>1, <2>1, <2>3, EndsInv DEF ToolInv, ToolShape
<1> QED BY <1>1, <1>2, <1>3

LEMMA ReadersInv ==
    ASSUME ToolInv, NEW c \in ToolCallers,
           SearchFts(c) \/ ToolSuggest(c) \/ ToolInfo(c) \/ \E filter \in {NoTool, "enabled"} : ToolList(c, filter)
    PROVE  ToolInv'
<1>1. Ends(c) /\ FamiliesUnchanged /\ UNCHANGED <<tools, inventory, binaries>>
  BY DEF SearchFts, ToolSuggest, ToolInfo, ToolList, Answers, ReadsOnly, TableUnchanged
<1>2. SearchIsTrue'
  <2>1. CASE SearchFts(c) \/ ToolSuggest(c)
    BY <2>1 DEF SearchFts, ToolSuggest, Answers, SearchIsTrue
  <2>2. CASE ToolInfo(c)
    <3> DEFINE here == Present \intersect {caller[c].tool}
               infos == {IntoFullInfo(u) : u \in here}
    <3>1. found' = [shown |-> {i.tool : i \in infos}, present |-> here,
                    installed |-> {i.tool : i \in {j \in infos : j.state = "installed"}}]
      BY <2>2 DEF ToolInfo, GetTool
    <3>2. \A u : /\ IntoFullInfo(u).tool = u
                 /\ IntoFullInfo(u).state = "installed" => u \in inventory
      BY DEF IntoFullInfo
    <3>3. {i.tool : i \in infos} = here
      BY <3>2
    <3>4. {i.tool : i \in {j \in infos : j.state = "installed"}} \subseteq inventory
      BY <3>2
    <3> QED BY <1>1, <3>1, <3>3, <3>4 DEF SearchIsTrue, ToolInv
  <2>3. ASSUME NEW filter \in {NoTool, "enabled"}, ToolList(c, filter) PROVE SearchIsTrue'
    <3>1. CASE filter = NoTool
      BY <2>3, <3>1 DEF ToolList, Suggest, SearchIsTrue
    <3>2. CASE filter # NoTool
      BY <2>3, <3>2 DEF ToolList, Suggest, SearchIsTrue
    <3> QED BY <3>1, <3>2
  <2> QED BY <2>1, <2>2, <2>3
<1> QED BY <1>1, <1>2, EndsInv DEF ToolInv, ToolShape

-----------------------------------------------------------------------------
(* The families.                                                            *)
LEMMA EnableLoadsInv ==
    ASSUME ToolInv, NEW c \in ToolCallers, NEW f \in Families, EnableLoads(c, f)
    PROVE  ToolInv'
<1> DEFINE x == [phase |-> "loaded", op |-> "enable", tool |-> NoTool, next |-> 0,
                 family |-> f, list |-> families \union {f}]
<1>1. /\ caller' = [caller EXCEPT ![c] = x] /\ caller[c] = NoCall
      /\ crossed' = (crossed \/ \E d \in ToolCallers : Loaded(d))
      /\ UNCHANGED <<tools, inventory, binaries, found, families, granted>>
  BY DEF EnableLoads, TableUnchanged, SearchUnchanged, Loaded
<1>2. x \in Calls
  BY DEF Calls, EnableCall, ToolInv, FamiliesInv
<1>3. caller' \in [ToolCallers -> Calls] /\ caller'[c] = x /\ \A d \in ToolCallers : d # c => caller'[d] = caller[d]
  BY <1>1, <1>2 DEF ToolInv, ToolShape
<1>4. IsFiniteSet(families \union {f})
  BY FS_AddElement DEF ToolInv, FamiliesInv
<1>5. FamiliesInv'
  <2>1. \A d \in ToolCallers : Loaded(d)' => IsFiniteSet(caller'[d].list)
    <3> SUFFICES ASSUME NEW d \in ToolCallers, Loaded(d)' PROVE IsFiniteSet(caller'[d].list)
      OBVIOUS
    <3>1. CASE d = c
      BY <1>3, <1>4, <3>1
    <3>2. CASE d # c
      BY <1>3, <3>2 DEF ToolInv, FamiliesInv, Loaded
    <3> QED BY <3>1, <3>2
  <2>2. ~crossed' => \A d \in ToolCallers : Loaded(d)' => d = c
    BY <1>1, <1>3 DEF Loaded
  <2>3. caller'[c].list = families' \union {caller'[c].family}
    BY <1>1, <1>3
  <2> QED BY <1>1, <2>1, <2>2, <2>3 DEF ToolInv, FamiliesInv
<1>6. FamiliesAreBounded'
  BY <1>1 DEF ToolInv, FamiliesAreBounded
<1> QED BY <1>1, <1>3, <1>5, <1>6 DEF ToolInv, ToolShape, SearchIsTrue

LEMMA EnableSavesInv ==
    ASSUME ToolInv, NEW c \in ToolCallers, EnableSaves(c)
    PROVE  ToolInv'
<1>1. /\ Loaded(c) /\ caller' = [caller EXCEPT ![c] = NoCall]
      /\ UNCHANGED <<tools, inventory, binaries, found, crossed>>
  BY DEF EnableSaves, Loaded, Ends, TableUnchanged, SearchUnchanged
<1>2. /\ caller' \in [ToolCallers -> Calls]
      /\ \A d \in ToolCallers : Loaded(d)' => Loaded(d) /\ d # c /\ caller'[d] = caller[d]
  BY <1>1 DEF ToolInv, ToolShape, Calls, Loaded, NoCall
<1>3. caller[c] \in EnableCall
  BY <1>1, LoadedIs DEF ToolInv, ToolShape, Loaded
<1>4. CASE families' = families /\ granted' = granted
  <2>1. FamiliesInv' /\ FamiliesAreBounded'
    BY <1>1, <1>2, <1>4 DEF ToolInv, FamiliesInv, FamiliesAreBounded
  <2> QED BY <1>1, <1>2, <2>1 DEF ToolInv, ToolShape, SearchIsTrue
<1>5. CASE /\ ~(Cardinality(caller[c].list) > MAX_FAMILIES)
           /\ families' = caller[c].list /\ granted' = granted \union {caller[c].family}
  <2>1. IsFiniteSet(caller[c].list) /\ Cardinality(caller[c].list) \in Nat
    BY <1>1, FS_CardinalityType DEF ToolInv, FamiliesInv
  <2>2. Cardinality(families') <= MAX_FAMILIES
    BY <1>5, <2>1, ToolCatalogAssumption
  <2>3. families' \subseteq Families /\ IsFiniteSet(families')
    BY <1>3, <1>5, <2>1 DEF EnableCall
  <2>4. ~crossed => /\ caller[c].list = families \union {caller[c].family}
                    /\ \A d \in ToolCallers : ~Loaded(d)'
    BY <1>1, <1>2 DEF ToolInv, FamiliesInv
  <2>5. granted' \subseteq families' \/ crossed'
    BY <1>1, <1>5, <2>4 DEF ToolInv, FamiliesAreBounded
  <2>6. FamiliesInv'
    BY <1>1, <1>2, <2>3, <2>4 DEF ToolInv, FamiliesInv
  <2> QED BY <1>1, <1>2, <2>2, <2>5, <2>6 DEF ToolInv, ToolShape, FamiliesAreBounded, SearchIsTrue
<1> QED BY <1>4, <1>5 DEF EnableSaves

LEMMA RestartInv == ASSUME ToolInv, ToolRestart PROVE ToolInv'
<1>1. caller' = [c \in ToolCallers |-> NoCall] /\ UNCHANGED <<tools, inventory, binaries, found, families, granted, crossed>>
  BY DEF ToolRestart, TableUnchanged, FamiliesUnchanged
<1>2. caller' \in [ToolCallers -> Calls] /\ \A c \in ToolCallers : ~Loaded(c)'
  BY <1>1 DEF Calls, Loaded, NoCall
<1>3. FamiliesInv' /\ FamiliesAreBounded'
  BY <1>1, <1>2 DEF ToolInv, FamiliesInv, FamiliesAreBounded
<1> QED BY <1>1, <1>2, <1>3 DEF ToolInv, ToolShape, SearchIsTrue

LEMMA ToolNextInv == ToolInv /\ [ToolNext]_toolVars => ToolInv'
<1> SUFFICES ASSUME ToolInv, [ToolNext]_toolVars PROVE ToolInv'
  OBVIOUS
<1>1. CASE UNCHANGED toolVars
  BY <1>1 DEF toolVars, ToolInv, ToolShape, FamiliesInv, FamiliesAreBounded, SearchIsTrue, Loaded
<1>2. ASSUME NEW c \in ToolCallers, NEW op \in {"add", "remove", "disable", "install", "info"}, NEW t \in Tools,
             BeginTool(c, op, t)
      PROVE  ToolInv'
  BY <1>2, BeginInv DEF Ops
<1>3. ASSUME NEW c \in ToolCallers, NEW op \in {"update", "suggest", "list"}, BeginTool(c, op, NoTool)
      PROVE  ToolInv'
  BY <1>3, BeginInv DEF Ops
<1> QED BY <1>1, <1>2, <1>3, EnsureInv, TableInv, InstallInv, SearchInv, SemanticInv, ReadersInv,
           EnableLoadsInv, EnableSavesInv, RestartInv DEF ToolNext

LEMMA ToolInvariance == ToolSpec => []ToolInv
BY ToolInitInv, ToolNextInv, PTL DEF ToolSpec

-----------------------------------------------------------------------------
(* What the tool readers show is there, and what they call installed is on  *)
(* the host, however callers overlap and the process restarts               *)
(* (tool_search, tool_suggest, tool_list and tool_info, broker.rs).         *)
THEOREM AnswersAreTrue == ToolSpec => []SearchIsTrue
<1>1. ToolInv => SearchIsTrue
  BY DEF ToolInv
<1> QED BY <1>1, ToolInvariance, PTL

(* tool_enable keeps to the limit although it has no lock, and loses a      *)
(* family only when two calls overlap (broker.rs:4538).                     *)
THEOREM FamiliesStayBounded == ToolSpec => []FamiliesAreBounded
<1>1. ToolInv => FamiliesAreBounded
  BY DEF ToolInv
<1> QED BY <1>1, ToolInvariance, PTL

(* Only the removal of a user tool takes a tool out of the catalog.         *)
LEMMA StepKeepsTools ==
    ASSUME ToolInv, [ToolNext]_toolVars, NEW t \in Present, tools'[t] = NoTool
    PROVE  /\ tools[t] = "user"
           /\ \E c \in ToolCallers : Ready(c, "remove") /\ caller[c].tool = t /\ caller'[c] = NoCall
<1>1. t \in Tools /\ tools[t] # NoTool /\ tools \in [Tools -> {"catalog", "user", NoTool}]
  BY DEF Present, ToolInv, ToolShape
<1>2. tools' # tools
  BY <1>1
<1>3. PICK c \in ToolCallers : ImportFile(c) \/ ToolAdd(c) \/ ToolRemove(c) \/ ToolCatalogUpdate(c)
  BY <1>2
     DEF ToolNext, toolVars, BeginTool, EnsureCatalog, OpenCatalog, ScanAfterImport, StoreCatalog, ToolDisable,
              InstallReads, InstallEnds, SearchBegins, EmbedTools, SearchToolsSemantic, SearchFts, ReadsOnly,
              ToolSuggest, ToolInfo, ToolList, EnableLoads, EnableSaves, ToolRestart, TableUnchanged
<1>4. ~ImportFile(c)
  BY <1>1, ImportIs DEF ImportFile
<1>5. ~ToolAdd(c)
  BY <1>1, ImportIs DEF ToolAdd
<1>6. ~ToolCatalogUpdate(c)
  BY <1>1, ImportIs DEF ToolCatalogUpdate, ImportCatalogDir
<1>7. ToolRemove(c)
  BY <1>3, <1>4, <1>5, <1>6
<1>8. caller[c].tool = t /\ tools[t] = "user"
  BY <1>1, <1>2, <1>7 DEF ToolRemove, RemoveUserTool
<1>9. caller'[c] = NoCall
  BY <1>7, EndsInv DEF ToolRemove
<1> QED BY <1>7, <1>8, <1>9 DEF ToolRemove

(* Late imports, failing updates, installs and restarts lose no tool        *)
(* (ensure_catalog, broker.rs:3831, and the tables of tool_catalog.rs).     *)
THEOREM ToolsStay == ToolSpec => ToolsAreKept
<1>1. ToolInv /\ [ToolNext]_toolVars =>
        [\A t \in Present :
            \/ tools'[t] # NoTool
            \/ /\ tools[t] = "user"
               /\ \E c \in ToolCallers :
                     Ready(c, "remove") /\ caller[c].tool = t /\ caller'[c] = NoCall]_toolVars
  BY StepKeepsTools
<1> QED BY <1>1, ToolInvariance, PTL DEF ToolSpec, ToolsAreKept

-----------------------------------------------------------------------------
(***************************************************************************)
(* Approvals and their records, for any actions, projects and overlapping  *)
(* calls.                                                                  *)
(***************************************************************************)

SessionGrant(k) == [scope |-> "session", action |-> k]
ForeverGrant(s, k) == [scope |-> "forever", store |-> s, action |-> k]

Running == [phase: {"headless", "interactive", "recording"}, store: Stores, action: Actions,
            scope: Scopes, session: BOOLEAN, due: BOOLEAN]

(* The types the proofs need: counts are unbounded.                         *)
RunShape ==
    /\ sessionApprovals \subseteq Actions /\ forever \in [Stores -> SUBSET Actions]
    /\ audits \in [Stores -> Nat] /\ answered \in [Stores -> Nat]
    /\ runner \in [Runners -> Running \union {NoRun}]
    /\ asked \subseteq Grant /\ told \subseteq Grant
    /\ verdict \in [due: BOOLEAN, allowed: BOOLEAN, asked: BOOLEAN]

(* What is in force was asked for, and what was acknowledged is in force.   *)
GrantsInv ==
    /\ \A k \in Actions : /\ k \in sessionApprovals => SessionGrant(k) \in asked
                          /\ SessionGrant(k) \in told => k \in sessionApprovals
    /\ \A s \in Stores, k \in Actions :
          /\ k \in forever[s] => ForeverGrant(s, k) \in asked
          /\ ForeverGrant(s, k) \in told => k \in forever[s]

(* What a call carries: a headless one what it read of the session, and why *)
(* it has to be allowed; an interactive one what it has put in force.       *)
HeadlessFits(r, session, lasting, requested) ==
    r.phase = "headless" =>
       /\ r.session => SessionGrant(r.action) \in requested
       /\ r.due => r.session \/ r.action \in lasting[r.store]

InteractiveFits(r, session, lasting, requested) ==
    r.phase \in {"interactive", "recording"} =>
       /\ r.scope = "session" => r.action \in session
       /\ r.scope = "forever" =>
             /\ ForeverGrant(r.store, r.action) \in requested
             /\ r.phase = "recording" => r.action \in lasting[r.store]

Fits(r, session, lasting, requested) ==
    HeadlessFits(r, session, lasting, requested) /\ InteractiveFits(r, session, lasting, requested)

CallsInv == \A c \in Runners : Fits(runner[c], sessionApprovals, forever, asked)

RunInv ==
    /\ RunShape /\ GrantsInv /\ CallsInv /\ ApprovalsHold
    /\ \A s \in Stores : answered[s] <= audits[s]

-----------------------------------------------------------------------------
(* A set of grants covers an action if it has one of the two that do.       *)
LEMMA CoversIs ==
    ASSUME NEW grants, grants \subseteq Grant, NEW s \in Stores, NEW k \in Actions
    PROVE  Covers(grants, s, k) <=> SessionGrant(k) \in grants \/ ForeverGrant(s, k) \in grants
<1>1. ASSUME NEW g \in grants, g.action = k, g.scope = "forever" => g.store = s
      PROVE  g = SessionGrant(k) \/ g = ForeverGrant(s, k)
  <2>1. CASE g \in [scope: {"session"}, action: Actions]
    BY <1>1, <2>1 DEF SessionGrant
  <2>2. CASE g \in [scope: {"forever"}, store: Stores, action: Actions]
    BY <1>1, <2>2 DEF ForeverGrant
  <2> QED BY <1>1, <2>1, <2>2 DEF Grant
<1>2. /\ SessionGrant(k).action = k /\ SessionGrant(k).scope = "session"
      /\ ForeverGrant(s, k).action = k /\ ForeverGrant(s, k).store = s
  BY DEF SessionGrant, ForeverGrant
<1> QED BY <1>1, <1>2 DEF Covers

(* What a grant of a scope is, and that the two kinds differ.               *)
LEMMA GrantOfIs ==
    ASSUME NEW s \in Stores, NEW k \in Actions, NEW scope \in Scopes
    PROVE  /\ GrantOf(s, k, scope) \subseteq Grant
           /\ \A j \in Actions : SessionGrant(j) \in GrantOf(s, k, scope) <=> scope = "session" /\ j = k
           /\ \A t \in Stores, j \in Actions :
                 ForeverGrant(t, j) \in GrantOf(s, k, scope) <=> scope = "forever" /\ t = s /\ j = k
<1>1. \A j \in Actions : SessionGrant(j) \in [scope: {"session"}, action: Actions]
  BY DEF SessionGrant
<1>2. \A t \in Stores, j \in Actions : ForeverGrant(t, j) \in [scope: {"forever"}, store: Stores, action: Actions]
  BY DEF ForeverGrant
<1>3. \A j \in Actions : (SessionGrant(j) = SessionGrant(k)) <=> j = k
  <2>1. \A j : SessionGrant(j).action = j
    BY DEF SessionGrant
  <2> QED BY <2>1
<1>4. \A t \in Stores, j \in Actions : (ForeverGrant(t, j) = ForeverGrant(s, k)) <=> t = s /\ j = k
  <2>1. \A t, j : ForeverGrant(t, j).action = j /\ ForeverGrant(t, j).store = t
    BY DEF ForeverGrant
  <2> QED BY <2>1
<1>5. \A t \in Stores, j, i \in Actions : SessionGrant(i) # ForeverGrant(t, j)
  <2>1. \A t, j, i : SessionGrant(i).scope = "session" /\ ForeverGrant(t, j).scope = "forever"
    BY DEF SessionGrant, ForeverGrant
  <2> QED BY <2>1
<1>6. CASE scope = "session"
  <2>1. GrantOf(s, k, scope) = {SessionGrant(k)}
    BY <1>6 DEF GrantOf, SessionGrant
  <2> QED BY <2>1, <1>1, <1>3, <1>5, <1>6 DEF Grant
<1>7. CASE scope = "forever"
  <2>1. GrantOf(s, k, scope) = {ForeverGrant(s, k)}
    BY <1>7 DEF GrantOf, ForeverGrant
  <2> QED BY <2>1, <1>2, <1>4, <1>5, <1>7 DEF Grant
<1>8. CASE scope = "once"
  BY <1>8 DEF GrantOf
<1> QED BY <1>6, <1>7, <1>8 DEF Scopes

(* A restart keeps the grants for ever and no other.                        *)
LEMMA KeptIs ==
    ASSUME NEW grants, grants \subseteq Grant
    PROVE  /\ {g \in grants : g.scope = "forever"} \subseteq Grant
           /\ \A k \in Actions : SessionGrant(k) \notin {g \in grants : g.scope = "forever"}
           /\ \A s \in Stores, k \in Actions :
                 ForeverGrant(s, k) \in {g \in grants : g.scope = "forever"} <=> ForeverGrant(s, k) \in grants
<1>1. \A k : SessionGrant(k).scope = "session"
  BY DEF SessionGrant
<1>2. \A s, k : ForeverGrant(s, k).scope = "forever"
  BY DEF ForeverGrant
<1> QED BY <1>1, <1>2

-----------------------------------------------------------------------------
(* A call that has ended, or has not begun, carries nothing.                *)
LEMMA IdleFits == \A session, lasting, requested : Fits(NoRun, session, lasting, requested)
BY DEF NoRun, Fits, HeadlessFits, InteractiveFits

LEMMA InitInv == RunInit => RunInv
<1> SUFFICES ASSUME RunInit PROVE RunInv
  OBVIOUS
<1>1. RunShape
  BY DEF RunInit, RunShape
<1>2. GrantsInv
  BY DEF RunInit, GrantsInv
<1>3. CallsInv
  BY IdleFits DEF RunInit, CallsInv
<1>4. ApprovalsHold /\ \A s \in Stores : answered[s] <= audits[s]
  BY DEF RunInit, ApprovalsHold
<1> QED BY <1>1, <1>2, <1>3, <1>4 DEF RunInv

(* What a call is once it is not idle.                                      *)
LEMMA RunningIs ==
    ASSUME RunShape, NEW c \in Runners, runner[c].phase # "idle"
    PROVE  /\ runner[c] \in Running
           /\ runner[c].store \in Stores /\ runner[c].action \in Actions /\ runner[c].scope \in Scopes
<1>1. runner[c] # NoRun
  BY DEF NoRun
<1>2. runner[c] \in Running
  BY <1>1 DEF RunShape
<1> QED BY <1>2 DEF Running

(* Only what one call carries changes, and approvals are added: the others  *)
(* still carry what they may.                                               *)
LEMMA CallsKept ==
    ASSUME RunShape, CallsInv, NEW c \in Runners, NEW r,
           r \in Running \union {NoRun}, runner' = [runner EXCEPT ![c] = r],
           Fits(r, sessionApprovals', forever', asked'),
           sessionApprovals \subseteq sessionApprovals', asked \subseteq asked',
           \A s \in Stores : forever[s] \subseteq forever'[s]
    PROVE  CallsInv' /\ runner' \in [Runners -> Running \union {NoRun}]
<1>1. runner' \in [Runners -> Running \union {NoRun}]
  BY DEF RunShape
<1>2. ASSUME NEW d \in Runners PROVE Fits(runner'[d], sessionApprovals', forever', asked')
  <2>1. CASE d = c
    BY <2>1 DEF RunShape
  <2>2. CASE d # c /\ runner[d].phase = "idle"
    BY <2>2 DEF RunShape, Fits, HeadlessFits, InteractiveFits
  <2>3. CASE d # c /\ runner[d].phase # "idle"
    <3>1. runner[d].store \in Stores
      BY <2>3, RunningIs
    <3>2. Fits(runner[d], sessionApprovals, forever, asked)
      BY DEF CallsInv
    <3>3. runner'[d] = runner[d]
      BY <2>3 DEF RunShape
    <3>4. HeadlessFits(runner'[d], sessionApprovals', forever', asked')
      BY <3>1, <3>2, <3>3 DEF Fits, HeadlessFits
    <3>5. InteractiveFits(runner'[d], sessionApprovals', forever', asked')
      BY <3>1, <3>2, <3>3 DEF Fits, InteractiveFits
    <3> QED BY <3>4, <3>5 DEF Fits
  <2> QED BY <2>1, <2>2, <2>3
<1> QED BY <1>1, <1>2 DEF CallsInv

-----------------------------------------------------------------------------
(* The steps, one by one.                                                   *)
LEMMA HeadlessBeginsInv ==
    ASSUME RunInv, NEW c \in Runners, NEW s \in Stores, NEW k \in Actions, HeadlessBegins(c, s, k)
    PROVE  RunInv'
<1>1. PICK r : /\ r = [phase |-> "headless", store |-> s, action |-> k, scope |-> "once",
                       session |-> k \in sessionApprovals, due |-> Covers(told, s, k)]
               /\ runner' = [runner EXCEPT ![c] = r]
  BY DEF HeadlessBegins
<1>2. UNCHANGED <<sessionApprovals, forever, audits, asked, told, answered, verdict>>
  BY DEF HeadlessBegins
<1>3. r \in Running
  <2>1. Covers(told, s, k) \in BOOLEAN
    BY DEF Covers
  <2>2. (k \in sessionApprovals) \in BOOLEAN
    OBVIOUS
  <2> QED BY <1>1, <2>1, <2>2 DEF Running, Scopes
<1>4. Fits(r, sessionApprovals', forever', asked')
  <2>1. k \in sessionApprovals => SessionGrant(k) \in asked
    BY DEF RunInv, GrantsInv
  <2>2. Covers(told, s, k) => k \in sessionApprovals \/ k \in forever[s]
    BY CoversIs DEF RunInv, RunShape, GrantsInv
  <2>3. HeadlessFits(r, sessionApprovals', forever', asked')
    BY <1>1, <1>2, <2>1, <2>2 DEF HeadlessFits
  <2>4. InteractiveFits(r, sessionApprovals', forever', asked')
    BY <1>1 DEF InteractiveFits
  <2> QED BY <2>3, <2>4 DEF Fits
<1>5. CallsInv' /\ runner' \in [Runners -> Running \union {NoRun}]
  BY <1>1, <1>2, <1>3, <1>4, CallsKept DEF RunInv
<1> QED BY <1>2, <1>5 DEF RunInv, RunShape, GrantsInv, ApprovalsHold

LEMMA HeadlessAnswersInv ==
    ASSUME RunInv, NEW c \in Runners, HeadlessAnswers(c)
    PROVE  RunInv'
<1> DEFINE r == runner[c]
<1>1. /\ r.phase = "headless" /\ runner' = [runner EXCEPT ![c] = NoRun]
      /\ UNCHANGED <<sessionApprovals, forever, asked, told>>
  BY DEF HeadlessAnswers, EndsRun
<1>2. r \in Running /\ r.store \in Stores /\ r.action \in Actions
  BY <1>1, RunningIs DEF RunInv
<1>3. CallsInv' /\ runner' \in [Runners -> Running \union {NoRun}]
  BY <1>1, IdleFits, CallsKept DEF RunInv
<1>4. verdict' = [due |-> r.due, allowed |-> r.session \/ r.action \in forever[r.store],
                  asked |-> Covers(asked, r.store, r.action)]
  BY DEF HeadlessAnswers
<1>5. ApprovalsHold'
  <2>1. /\ r.due => r.session \/ r.action \in forever[r.store]
        /\ r.session => SessionGrant(r.action) \in asked
    BY <1>1 DEF RunInv, CallsInv, Fits, HeadlessFits
  <2>2. r.action \in forever[r.store] => ForeverGrant(r.store, r.action) \in asked
    BY <1>2 DEF RunInv, GrantsInv
  <2>3. r.session \/ r.action \in forever[r.store] => Covers(asked, r.store, r.action)
    BY <1>2, <2>1, <2>2, CoversIs DEF RunInv, RunShape
  <2> QED BY <1>4, <2>1, <2>3 DEF ApprovalsHold
<1>6. verdict' \in [due: BOOLEAN, allowed: BOOLEAN, asked: BOOLEAN]
  <2>1. Covers(asked, r.store, r.action) \in BOOLEAN
    BY DEF Covers
  <2>2. r.due \in BOOLEAN /\ r.session \in BOOLEAN
    BY <1>2 DEF Running
  <2> QED BY <1>4, <2>1, <2>2
<1>7. /\ audits' \in [Stores -> Nat] /\ answered' \in [Stores -> Nat]
      /\ \A s \in Stores : answered'[s] <= audits'[s]
  BY <1>2 DEF HeadlessAnswers, RunInv, RunShape
<1> QED BY <1>1, <1>3, <1>5, <1>6, <1>7 DEF RunInv, RunShape, GrantsInv

LEMMA InteractiveBeginsInv ==
    ASSUME RunInv, NEW c \in Runners, NEW s \in Stores, NEW k \in Actions, NEW scope \in Scopes,
           InteractiveBegins(c, s, k, scope)
    PROVE  RunInv'
<1>1. PICK r : /\ r = [phase |-> "interactive", store |-> s, action |-> k, scope |-> scope,
                       session |-> FALSE, due |-> FALSE]
               /\ runner' = [runner EXCEPT ![c] = r]
  BY DEF InteractiveBegins
<1>2. /\ sessionApprovals' = sessionApprovals \union (IF scope = "session" THEN {k} ELSE {})
      /\ asked' = asked \union GrantOf(s, k, scope)
      /\ UNCHANGED <<forever, audits, told, answered, verdict>>
  BY DEF InteractiveBegins
<1>3. r \in Running
  BY <1>1 DEF Running
<1>4. GrantsInv'
  BY <1>2, GrantOfIs DEF RunInv, GrantsInv
<1>5. Fits(r, sessionApprovals', forever', asked')
  BY <1>1, <1>2, GrantOfIs DEF Fits, HeadlessFits, InteractiveFits
<1>6. CallsInv' /\ runner' \in [Runners -> Running \union {NoRun}]
  BY <1>1, <1>2, <1>3, <1>5, CallsKept DEF RunInv
<1>7. sessionApprovals' \subseteq Actions /\ asked' \subseteq Grant
  BY <1>2, GrantOfIs DEF RunInv, RunShape
<1> QED BY <1>2, <1>4, <1>6, <1>7 DEF RunInv, RunShape, ApprovalsHold

LEMMA InteractiveApprovesInv ==
    ASSUME RunInv, NEW c \in Runners, InteractiveApproves(c)
    PROVE  RunInv'
<1> DEFINE r == runner[c]
           q == [r EXCEPT !.phase = "recording"]
<1>1. /\ r.phase = "interactive" /\ runner' = [runner EXCEPT ![c] = q]
      /\ forever' = [forever EXCEPT ![r.store] = @ \union (IF r.scope = "forever" THEN {r.action} ELSE {})]
      /\ UNCHANGED <<sessionApprovals, audits, asked, told, answered, verdict>>
  BY DEF InteractiveApproves
<1>2. r \in Running /\ r.store \in Stores /\ r.action \in Actions
  BY <1>1, RunningIs DEF RunInv
<1>3. /\ q \in Running /\ q.phase = "recording"
      /\ q.store = r.store /\ q.action = r.action /\ q.scope = r.scope
  BY <1>2 DEF Running
<1>4. /\ r.scope = "session" => r.action \in sessionApprovals
      /\ r.scope = "forever" => ForeverGrant(r.store, r.action) \in asked
  BY <1>1 DEF RunInv, CallsInv, Fits, InteractiveFits
<1>5. /\ forever' \in [Stores -> SUBSET Actions]
      /\ forever'[r.store] = forever[r.store] \union (IF r.scope = "forever" THEN {r.action} ELSE {})
      /\ \A s \in Stores : s # r.store => forever'[s] = forever[s]
  BY <1>1, <1>2 DEF RunInv, RunShape
<1>6. \A s \in Stores : forever[s] \subseteq forever'[s]
  BY <1>5
<1>7. GrantsInv'
  BY <1>1, <1>4, <1>5 DEF RunInv, GrantsInv
<1>8. Fits(q, sessionApprovals', forever', asked')
  <2>1. HeadlessFits(q, sessionApprovals', forever', asked')
    BY <1>3 DEF HeadlessFits
  <2>2. InteractiveFits(q, sessionApprovals', forever', asked')
    BY <1>1, <1>3, <1>4, <1>5 DEF InteractiveFits
  <2> QED BY <2>1, <2>2 DEF Fits
<1> HIDE DEF q
<1>9. CallsInv' /\ runner' \in [Runners -> Running \union {NoRun}]
  BY <1>1, <1>3, <1>6, <1>8, CallsKept DEF RunInv
<1> QED BY <1>1, <1>5, <1>7, <1>9 DEF RunInv, RunShape, ApprovalsHold

LEMMA InteractiveRecordsInv ==
    ASSUME RunInv, NEW c \in Runners, InteractiveRecords(c)
    PROVE  RunInv'
<1> DEFINE r == runner[c]
<1>1. /\ r.phase = "recording" /\ runner' = [runner EXCEPT ![c] = NoRun]
      /\ told' = told \union GrantOf(r.store, r.action, r.scope)
      /\ UNCHANGED <<sessionApprovals, forever, asked, verdict>>
  BY DEF InteractiveRecords, EndsRun
<1>2. r.store \in Stores /\ r.action \in Actions /\ r.scope \in Scopes
  BY <1>1, RunningIs DEF RunInv
<1>3. CallsInv' /\ runner' \in [Runners -> Running \union {NoRun}]
  BY <1>1, IdleFits, CallsKept DEF RunInv
<1>4. /\ r.scope = "session" => r.action \in sessionApprovals
      /\ r.scope = "forever" => r.action \in forever[r.store]
  BY <1>1 DEF RunInv, CallsInv, Fits, InteractiveFits
<1>5. told' \subseteq Grant
  BY <1>1, <1>2, GrantOfIs DEF RunInv, RunShape
<1>6. GrantsInv'
  BY <1>1, <1>2, <1>4, GrantOfIs DEF RunInv, GrantsInv
<1>7. /\ audits' \in [Stores -> Nat] /\ answered' \in [Stores -> Nat]
      /\ \A s \in Stores : answered'[s] <= audits'[s]
  BY <1>2 DEF InteractiveRecords, RunInv, RunShape
<1> QED BY <1>1, <1>3, <1>5, <1>6, <1>7 DEF RunInv, RunShape, ApprovalsHold

LEMMA StoreRefusesInv ==
    ASSUME RunInv, NEW c \in Runners, StoreRefuses(c)
    PROVE  RunInv'
<1>1. /\ runner' = [runner EXCEPT ![c] = NoRun]
      /\ UNCHANGED <<sessionApprovals, forever, audits, asked, told, answered, verdict>>
  BY DEF StoreRefuses, EndsRun
<1>2. CallsInv' /\ runner' \in [Runners -> Running \union {NoRun}]
  BY <1>1, IdleFits, CallsKept DEF RunInv
<1> QED BY <1>1, <1>2 DEF RunInv, RunShape, GrantsInv, ApprovalsHold

LEMMA RunRestartInv ==
    ASSUME RunInv, RunRestart
    PROVE  RunInv'
<1>1. /\ sessionApprovals' = {} /\ runner' = [c \in Runners |-> NoRun]
      /\ asked' = {g \in asked : g.scope = "forever"} /\ told' = {g \in told : g.scope = "forever"}
      /\ UNCHANGED <<forever, audits, answered, verdict>>
  BY DEF RunRestart
<1>2. RunShape'
  BY <1>1 DEF RunInv, RunShape
<1>3. GrantsInv'
  BY <1>1, KeptIs DEF RunInv, RunShape, GrantsInv
<1>4. CallsInv'
  BY <1>1, IdleFits DEF CallsInv
<1> QED BY <1>1, <1>2, <1>3, <1>4 DEF RunInv, ApprovalsHold

LEMMA NextInv == RunInv /\ [RunNext]_runVars => RunInv'
<1> SUFFICES ASSUME RunInv, [RunNext]_runVars PROVE RunInv'
  OBVIOUS
<1>1. ASSUME NEW k \in Actions, RunsFreely(k) PROVE RunInv'
  BY <1>1 DEF RunsFreely, RunInv, RunShape, GrantsInv, CallsInv, ApprovalsHold
<1>2. CASE UNCHANGED runVars
  BY <1>2 DEF runVars, RunInv, RunShape, GrantsInv, CallsInv, ApprovalsHold
<1> QED BY <1>1, <1>2, HeadlessBeginsInv, HeadlessAnswersInv, InteractiveBeginsInv, InteractiveApprovesInv,
           InteractiveRecordsInv, StoreRefusesInv, RunRestartInv DEF RunNext

LEMMA Invariance == RunSpec => []RunInv
BY InitInv, NextInv, PTL DEF RunSpec

-----------------------------------------------------------------------------
(* However calls overlap, fail and restart, a headless run is allowed when  *)
(* an acknowledged approval covers it, and only when one was asked for      *)
(* (tool_run, broker.rs).                                                   *)
THEOREM ApprovalsAreRespected == RunSpec => []ApprovalsHold
<1>1. RunInv => ApprovalsHold
  BY DEF RunInv
<1> QED BY <1>1, Invariance, PTL

(* The rules and a provider agree on whether "run <key>" needs an approval. *)
LEMMA OneDecision == ASSUME NEW k \in Actions PROVE Cardinality(RouteToolAction(k)) = 1
<1> DEFINE words == Mentions(k) \union {"run"}
<1>1. "run" \in words
  OBVIOUS
<1>2. \A a \in BOOLEAN : RouteWithProvider(words, a) = RouteRulesOnly(words)
  <2>1. CASE {"search", "docs"} \intersect words # {}
    <3>1. ClassifyKeywords(words) = "SearchDocs"
      BY <2>1 DEF ClassifyKeywords
    <3>2. RouteRulesOnly(words) = FALSE
      BY <2>1 DEF RouteRulesOnly
    <3> QED BY <3>1, <3>2 DEF RouteWithProvider
  <2>2. CASE {"search", "docs"} \intersect words = {}
    <3>1. ClassifyKeywords(words) = "RunTool"
      BY <1>1, <2>2 DEF ClassifyKeywords
    <3>2. RouteRulesOnly(words) = TRUE
      BY <1>1, <2>2 DEF RouteRulesOnly
    <3> QED BY <3>1, <3>2 DEF RouteWithProvider
  <2> QED BY <2>1, <2>2
<1>3. RouteToolAction(k) = {RouteRulesOnly(words)}
  BY <1>2 DEF RouteToolAction
<1> QED BY <1>3, FS_Singleton

(* Every answer about an action that needs an approval has its audit row,   *)
(* and the two ways of the router agree on which actions do.                *)
THEOREM AnswersAreAudited == RunSpec => []AnsweredIsAudited
<1>1. RunInv => AnsweredIsAudited
  BY OneDecision DEF RunInv, AnsweredIsAudited
<1> QED BY <1>1, Invariance, PTL

-----------------------------------------------------------------------------
(***************************************************************************)
(* The rules decide only when every provider was passed over or failed.    *)
(***************************************************************************)

Items(s) == {s[k] : k \in DOMAIN s}
Names(picked) == {picked[k].id : k \in DOMAIN picked}
Once(s) == \A j, k \in DOMAIN s : s[j] = s[k] => j = k
NamedOnce(picked) == \A j, k \in DOMAIN picked : picked[j].id = picked[k].id => j = k

(* S has what a request has picked, with whatever latencies.                *)
PoolRequest(S) ==
    [phase: {"idle", "selecting", "trying", "answered"}, order: Seq(Provider), picked: Seq(S),
     failed: SUBSET Provider, skipped: SUBSET Provider, intent: {"none", "rules", "provider"}]

(* Where a request is: the providers still to look at, those it has picked, *)
(* those it has to try, and those that cool down or failed it.              *)
Partition(a) ==
    /\ Once(a.order) /\ NamedOnce(a.picked) /\ Names(a.picked) \subseteq Provider
    /\ Items(a.order) \cap Names(a.picked) = {} /\ Items(a.order) \cap a.failed = {}
    /\ a.phase = "selecting" => Items(a.order) \union Names(a.picked) \union a.skipped = Provider /\ a.failed = {}
    /\ a.phase = "trying" => Items(a.order) \union a.failed \union a.skipped = Provider
    /\ a.phase # "selecting" => a.picked = <<>>
    /\ a.intent = "rules" => a.failed \union a.skipped = Provider
    /\ a.phase \in {"selecting", "trying"} => a.intent = "none"

RequestsInv == robin \in 0 .. ProviderCount - 1 /\ \A r \in Asking : Partition(asking[r])
PoolInv == RequestsInv /\ \E S : asking \in [Asking -> PoolRequest(S)]

-----------------------------------------------------------------------------
(* Sequences without repetitions.                                           *)
LEMMA TailOnce ==
    ASSUME NEW T, NEW s \in Seq(T), s # <<>>, Once(s)
    PROVE  /\ Tail(s) \in Seq(T) /\ Head(s) \in T /\ Once(Tail(s))
           /\ Items(s) = Items(Tail(s)) \union {Head(s)} /\ Head(s) \notin Items(Tail(s))
<1>1. /\ Tail(s) \in Seq(T) /\ Head(s) = s[1] /\ Len(s) \in Nat /\ Len(s) >= 1 /\ DOMAIN s = 1 .. Len(s) /\ Head(s) \in T
      /\ DOMAIN Tail(s) = 1 .. Len(s) - 1 /\ \A k \in 1 .. Len(s) - 1 : Tail(s)[k] = s[k + 1]
  OBVIOUS
<1>2. \A k \in DOMAIN Tail(s) : k + 1 \in DOMAIN s /\ k + 1 # 1 /\ k \in Nat BY <1>1
<1>3. \A k \in DOMAIN s : k = 1 \/ (k - 1 \in DOMAIN Tail(s) /\ Tail(s)[k - 1] = s[k])
  <2> SUFFICES ASSUME NEW k \in DOMAIN s, k # 1 PROVE k - 1 \in DOMAIN Tail(s) /\ Tail(s)[k - 1] = s[k] OBVIOUS
  <2>1. k - 1 \in 1 .. Len(s) - 1 /\ (k - 1) + 1 = k BY <1>1
  <2> QED BY <2>1, <1>1
<1>4. Once(Tail(s))
  <2> SUFFICES ASSUME NEW j \in DOMAIN Tail(s), NEW k \in DOMAIN Tail(s), Tail(s)[j] = Tail(s)[k] PROVE j = k
    BY DEF Once
  <2>1. s[j + 1] = s[k + 1] BY <1>1
  <2>2. j + 1 = k + 1 BY <2>1, <1>2 DEF Once
  <2> QED BY <2>2, <1>2
<1>5. Head(s) \notin Items(Tail(s))
  <2> SUFFICES ASSUME NEW k \in DOMAIN Tail(s), Tail(s)[k] = Head(s) PROVE FALSE BY DEF Items
  <2>1. s[k + 1] = s[1] /\ 1 \in DOMAIN s BY <1>1
  <2> QED BY <2>1, <1>2 DEF Once
<1>6. Items(s) = Items(Tail(s)) \union {Head(s)}
  <2>1. ASSUME NEW x \in Items(s) PROVE x \in Items(Tail(s)) \union {Head(s)} BY <2>1, <1>1, <1>3 DEF Items
  <2>2. ASSUME NEW x \in Items(Tail(s)) PROVE x \in Items(s) BY <2>2, <1>1, <1>2 DEF Items
  <2>3. Head(s) \in Items(s) BY <1>1 DEF Items
  <2> QED BY <2>1, <2>2, <2>3
<1> QED BY <1>1, <1>4, <1>5, <1>6

LEMMA AppendNamed ==
    ASSUME NEW S, NEW s \in Seq(S), NEW x, NamedOnce(s), x.id \notin Names(s)
    PROVE  /\ Append(s, x) \in Seq(S \union {x}) /\ NamedOnce(Append(s, x)) /\ Names(Append(s, x)) = Names(s) \union {x.id}
<1> DEFINE n == Len(s) + 1
           t == Append(s, x)
<1>1. s \in Seq(S \union {x})
  <2>1. \A k \in 1 .. Len(s) : s[k] \in S \union {x} OBVIOUS
  <2>2. s = [k \in 1 .. Len(s) |-> s[k]] /\ Len(s) \in Nat OBVIOUS
  <2> QED BY <2>1, <2>2
<1>2. /\ t \in Seq(S \union {x}) /\ DOMAIN t = 1 .. n /\ DOMAIN s = 1 .. Len(s) /\ Len(s) \in Nat /\ t[n] = x
      /\ \A k \in 1 .. Len(s) : t[k] = s[k]
  BY <1>1
<1>3. \A k \in DOMAIN t : k = n \/ k \in DOMAIN s BY <1>2
<1>4. n \in DOMAIN t /\ \A k \in DOMAIN s : k \in DOMAIN t /\ t[k] = s[k] BY <1>2
<1>5. NamedOnce(t)
  <2> SUFFICES ASSUME NEW j \in DOMAIN t, NEW k \in DOMAIN t, t[j].id = t[k].id PROVE j = k BY DEF NamedOnce
  <2>1. CASE j \in DOMAIN s /\ k \in DOMAIN s BY <2>1, <1>4 DEF NamedOnce
  <2>2. CASE j = n /\ k \in DOMAIN s BY <2>2, <1>2, <1>4 DEF Names
  <2>3. CASE j \in DOMAIN s /\ k = n BY <2>3, <1>2, <1>4 DEF Names
  <2> QED BY <2>1, <2>2, <2>3, <1>3
<1>6. Names(t) = Names(s) \union {x.id}
  <2>1. ASSUME NEW i \in Names(t) PROVE i \in Names(s) \union {x.id} BY <2>1, <1>2, <1>3, <1>4 DEF Names
  <2>2. ASSUME NEW i \in Names(s) PROVE i \in Names(t) BY <2>2, <1>4 DEF Names
  <2>3. x.id \in Names(t) BY <1>2, <1>4 DEF Names
  <2> QED BY <2>1, <2>2, <2>3
<1> QED BY <1>2, <1>5, <1>6

LEMMA RotatedIsAll ==
    ASSUME NEW start \in 0 .. ProviderCount - 1
    PROVE  Rotated(start) \in Seq(Provider) /\ Once(Rotated(start)) /\ Items(Rotated(start)) = Provider
<1> DEFINE N == ProviderCount
           s == Rotated(start)
<1>1. N \in Nat \ {0} BY ProviderPoolAssumption
<1>2. \A a \in 0 .. N - 1 : a % N = a /\ (a + N) % N = a BY <1>1
<1>3. \A k \in 1 .. N : (start + k - 1) % N = IF start + k - 1 < N THEN start + k - 1 ELSE start + k - 1 - N
  <2> SUFFICES ASSUME NEW k \in 1 .. N
               PROVE (start + k - 1) % N = IF start + k - 1 < N THEN start + k - 1 ELSE start + k - 1 - N
    OBVIOUS
  <2>1. CASE start + k - 1 < N
    <3>1. start + k - 1 \in 0 .. N - 1 BY <2>1, <1>1
    <3> QED BY <2>1, <3>1, <1>2
  <2>2. CASE ~(start + k - 1 < N)
    <3>1. start + k - 1 - N \in 0 .. N - 1 /\ (start + k - 1 - N) + N = start + k - 1 BY <2>2, <1>1
    <3>2. ((start + k - 1 - N) + N) % N = start + k - 1 - N BY <3>1, <1>2
    <3> QED BY <2>2, <3>1, <3>2
  <2> QED BY <2>1, <2>2
<1>4. s = [k \in 1 .. N |-> (IF start + k - 1 < N THEN start + k - 1 ELSE start + k - 1 - N) + 1]
  BY <1>3 DEF Rotated, Provider
<1>5. \A k \in 1 .. N : (IF start + k - 1 < N THEN start + k - 1 ELSE start + k - 1 - N) + 1 \in 1 .. N BY <1>1
<1>6. s \in [1 .. N -> 1 .. N] BY <1>4, <1>5
<1>7. s \in Seq(Provider) BY <1>1, <1>6 DEF Provider
<1>8. Once(s)
  <2>1. \A j, k \in 1 .. N : s[j] = s[k] => j = k BY <1>1, <1>4
  <2> QED BY <2>1, <1>6 DEF Once
<1>9. ASSUME NEW i \in 1 .. N PROVE i \in Items(s)
  <2> DEFINE k == IF i > start THEN i - start ELSE i - start + N
  <2>1. k \in 1 .. N /\ s[k] = i BY <1>1, <1>4
  <2> QED BY <2>1, <1>6 DEF Items
<1>10. Items(s) \subseteq 1 .. N BY <1>6 DEF Items
<1> QED BY <1>7, <1>8, <1>9, <1>10 DEF Provider

(* A request tries each of those it has picked once, in whatever order.     *)
LEMMA OrdersAreAll ==
    ASSUME NEW S, NEW picked \in Seq(S), NamedOnce(picked), Names(picked) \subseteq Provider, NEW order \in OrdersOf(picked)
    PROVE  order \in Seq(Provider) /\ Once(order) /\ Items(order) = Names(picked)
<1> DEFINE D == DOMAIN picked
<1>1. PICK p \in [D -> D] : order = [k \in D |-> picked[p[k]].id] /\ \A j, k \in D : j < k => p[j] # p[k]
  <2>1. CASE policy = "Latency" BY <2>1 DEF OrdersOf, Arrangements
  <2>2. CASE policy # "Latency"
    <3> DEFINE q == [k \in D |-> k]
    <3>1. q \in [D -> D] /\ \A k \in D : q[k] = k OBVIOUS
    <3>2. order = [k \in D |-> picked[k].id] BY <2>2 DEF OrdersOf
    <3>3. order = [k \in D |-> picked[q[k]].id] BY <3>1, <3>2
    <3>4. \A j, k \in D : j < k => q[j] # q[k]
      <4>1. D \subseteq Nat OBVIOUS
      <4> QED BY <3>1, <4>1
    <3> HIDE DEF q
    <3> QED BY <3>1, <3>3, <3>4
  <2> QED BY <2>1, <2>2
<1>2. D = 1 .. Len(picked) /\ Len(picked) \in Nat OBVIOUS
<1>3. \A j, k \in D : p[j] = p[k] => j = k BY <1>1, <1>2
<1>4. \A i \in D : \E k \in D : p[k] = i   \* or two of them would share a place
  <2> SUFFICES ASSUME NEW i \in D, \A k \in D : p[k] # i PROVE FALSE OBVIOUS
  <2>1. 1 \in Int /\ Len(picked) \in Int BY <1>2
  <2>2. IsFiniteSet(D) /\ Cardinality(D) \in Nat BY <1>2, <2>1, FS_Interval, FS_CardinalityType
  <2>3. IsFiniteSet(D \ {i}) /\ Cardinality(D \ {i}) = Cardinality(D) - 1 BY <2>2, FS_RemoveElement
  <2>4. p \in [D -> D \ {i}] /\ Cardinality(D \ {i}) < Cardinality(D) BY <2>2, <2>3
  <2>5. \E j, k \in D : j # k /\ p[j] = p[k] BY <2>2, <2>3, <2>4, FS_PigeonHole
  <2> QED BY <2>5, <1>3
<1>5. order \in [D -> Provider] BY <1>1 DEF Names
<1>6. order \in Seq(Provider) BY <1>2, <1>5
<1>7. Once(order)
  <2>1. \A j, k \in D : order[j] = order[k] => p[j] = p[k] BY <1>1 DEF NamedOnce
  <2> QED BY <2>1, <1>3, <1>5 DEF Once
<1>8. Items(order) = Names(picked) BY <1>1, <1>4, <1>5 DEF Items, Names
<1> QED BY <1>6, <1>7, <1>8

-----------------------------------------------------------------------------
LEMMA OneRequestChanges ==   \* r alone does, and what it picks may be new
    ASSUME RequestsInv, NEW S, NEW T, S \subseteq T, asking \in [Asking -> PoolRequest(S)],
           NEW r \in Asking, NEW a \in PoolRequest(T),
           asking' = [asking EXCEPT ![r] = a], Partition(a), robin' \in 0 .. ProviderCount - 1
    PROVE  PoolInv'
<1>1. \A q \in Asking : asking[q] \in PoolRequest(T)
  <2> SUFFICES ASSUME NEW q \in Asking PROVE asking[q] \in PoolRequest(T) OBVIOUS
  <2>1. asking[q].picked \in Seq(S) BY DEF PoolRequest
  <2>2. asking[q].picked \in Seq(T)
    <3>1. /\ asking[q].picked = [k \in 1 .. Len(asking[q].picked) |-> asking[q].picked[k]] /\ Len(asking[q].picked) \in Nat
          /\ \A k \in 1 .. Len(asking[q].picked) : asking[q].picked[k] \in T
      BY <2>1
    <3> QED BY <3>1
  <2> QED BY <2>2 DEF PoolRequest
<1>2. asking' \in [Asking -> PoolRequest(T)] BY <1>1
<1>3. \A q \in Asking : Partition(asking'[q]) BY <1>2 DEF RequestsInv
<1> QED BY <1>2, <1>3 DEF PoolInv, RequestsInv

LEMMA RestIsRequest ==
    ASSUME NEW S
    PROVE  /\ <<>> \in Seq(S) /\ Rest \in PoolRequest(S) /\ Rest.phase = "idle" /\ Rest.order = <<>> /\ Rest.picked = <<>>
           /\ Rest.failed = {} /\ Rest.skipped = {} /\ Rest.intent = "none"
<1>1. <<>> \in Seq(S) /\ <<>> \in Seq(Provider) OBVIOUS
<1> QED BY <1>1 DEF Rest, PoolRequest

LEMMA BeginKeepsIt == ASSUME PoolInv, NEW r \in Asking, ClassifyBegins(r) PROVE PoolInv'
<1>1. PICK S : asking \in [Asking -> PoolRequest(S)] BY DEF PoolInv
<1> DEFINE start == IF policy = "RoundRobin" THEN robin ELSE 0
           a == [Rest EXCEPT !.phase = "selecting", !.order = Rotated(start)]
<1>2. start \in 0 .. ProviderCount - 1 /\ robin' \in 0 .. ProviderCount - 1
  <2>1. ProviderCount \in Nat \ {0} /\ robin \in 0 .. ProviderCount - 1
    BY ProviderPoolAssumption DEF PoolInv, RequestsInv
  <2>2. (robin + 1) % ProviderCount \in 0 .. ProviderCount - 1 BY <2>1
  <2> QED BY <2>1, <2>2 DEF ClassifyBegins
<1>3. Rotated(start) \in Seq(Provider) /\ Once(Rotated(start)) /\ Items(Rotated(start)) = Provider
  BY <1>2, RotatedIsAll
<1> HIDE DEF start
<1>4. a \in PoolRequest(S) BY <1>3, RestIsRequest DEF PoolRequest
<1>5. /\ a.phase = "selecting" /\ a.order = Rotated(start) /\ a.picked = <<>>
      /\ a.failed = {} /\ a.skipped = {} /\ a.intent = "none"
  BY RestIsRequest DEF PoolRequest
<1>6. Partition(a)
  <2> HIDE DEF a
  <2>1. NamedOnce(a.picked) /\ Names(a.picked) = {} BY <1>5 DEF NamedOnce, Names
  <2> QED BY <1>3, <1>5, <2>1 DEF Partition
<1>7. asking' = [asking EXCEPT ![r] = a] BY DEF ClassifyBegins, start
<1> QED BY <1>1, <1>2, <1>4, <1>6, <1>7, OneRequestChanges DEF PoolInv

LEMMA SelectKeepsIt == ASSUME PoolInv, NEW r \in Asking, SelectProvider(r) PROVE PoolInv'
<1>1. PICK S : asking \in [Asking -> PoolRequest(S)] BY DEF PoolInv
<1> DEFINE b == asking[r]
           i == Head(b.order)
           x == [id |-> i, p50 |-> P50(health[i])]
<1>2. b \in PoolRequest(S) /\ Partition(b) /\ b.phase = "selecting" /\ b.order # <<>>
  BY <1>1 DEF PoolInv, RequestsInv, SelectProvider
<1>3. b.order \in Seq(Provider) /\ Once(b.order) /\ b.picked \in Seq(S) /\ NamedOnce(b.picked) /\ Names(b.picked) \subseteq Provider
      /\ Items(b.order) \cap Names(b.picked) = {} /\ Items(b.order) \union Names(b.picked) \union b.skipped = Provider
      /\ b.failed = {} /\ b.intent = "none" /\ b.skipped \subseteq Provider
  BY <1>2 DEF PoolRequest, Partition
<1>4. /\ Tail(b.order) \in Seq(Provider) /\ i \in Provider /\ Once(Tail(b.order))
      /\ Items(b.order) = Items(Tail(b.order)) \union {i} /\ i \notin Items(Tail(b.order))
  BY <1>2, <1>3, TailOnce
<1>5. x.id = i /\ i \notin Names(b.picked) BY <1>3, <1>4
<1>6. /\ Append(b.picked, x) \in Seq(S \union {x}) /\ NamedOnce(Append(b.picked, x))
      /\ Names(Append(b.picked, x)) = Names(b.picked) \union {i}
  <2> HIDE DEF b, i, x
  <2>1. b.picked \in Seq(S) /\ NamedOnce(b.picked) /\ x.id \notin Names(b.picked) BY <1>3, <1>5
  <2>2. /\ Append(b.picked, x) \in Seq(S \union {x}) /\ NamedOnce(Append(b.picked, x))
        /\ Names(Append(b.picked, x)) = Names(b.picked) \union {x.id}
    BY <2>1, AppendNamed
  <2> QED BY <1>5, <2>2
<1>7. robin' \in 0 .. ProviderCount - 1 /\ RequestsInv BY DEF SelectProvider, PoolInv, RequestsInv
<1>8. asking' = [asking EXCEPT ![r] = [b EXCEPT !.order = Tail(b.order),
                   !.picked = IF IsAvailable(health[i]) THEN Append(b.picked, x) ELSE b.picked,
                   !.skipped = IF IsAvailable(health[i]) THEN b.skipped ELSE b.skipped \union {i}]]
  BY <1>1 DEF SelectProvider
<1> HIDE DEF b, i, x
<1>9. CASE IsAvailable(health[i])
  <2> DEFINE a == [b EXCEPT !.order = Tail(b.order), !.picked = Append(b.picked, x), !.skipped = b.skipped]
  <2>1. asking' = [asking EXCEPT ![r] = a] BY <1>8, <1>9
  <2>2. a \in PoolRequest(S \union {x}) BY <1>2, <1>3, <1>4, <1>6 DEF PoolRequest
  <2>3. /\ a.order = Tail(b.order) /\ a.picked = Append(b.picked, x) /\ a.skipped = b.skipped /\ a.phase = "selecting"
        /\ a.failed = {} /\ a.intent = "none"
    BY <1>2, <1>3 DEF PoolRequest
  <2> HIDE DEF a
  <2>4. Items(a.order) \cap Names(a.picked) = {} /\ Items(a.order) \union Names(a.picked) \union a.skipped = Provider
    BY <1>3, <1>4, <1>6, <2>3
  <2>5. Names(a.picked) \subseteq Provider BY <1>3, <1>4, <1>6, <2>3
  <2>6. Partition(a) BY <1>4, <1>6, <2>3, <2>4, <2>5 DEF Partition
  <2>7. S \subseteq S \union {x} OBVIOUS
  <2> QED BY <1>1, <1>7, <2>1, <2>2, <2>6, <2>7, OneRequestChanges
<1>10. CASE ~IsAvailable(health[i])
  <2> DEFINE a == [b EXCEPT !.order = Tail(b.order), !.picked = b.picked, !.skipped = b.skipped \union {i}]
  <2>1. asking' = [asking EXCEPT ![r] = a] BY <1>8, <1>10
  <2>2. a \in PoolRequest(S) BY <1>2, <1>3, <1>4 DEF PoolRequest
  <2>3. /\ a.order = Tail(b.order) /\ a.picked = b.picked /\ a.skipped = b.skipped \union {i} /\ a.phase = "selecting"
        /\ a.failed = {} /\ a.intent = "none"
    BY <1>2, <1>3 DEF PoolRequest
  <2> HIDE DEF a
  <2>4. Items(a.order) \cap Names(a.picked) = {} /\ Items(a.order) \union Names(a.picked) \union a.skipped = Provider
    BY <1>3, <1>4, <2>3
  <2>5. Partition(a) BY <1>3, <1>4, <2>3, <2>4 DEF Partition
  <2> QED BY <1>1, <1>7, <2>1, <2>2, <2>5, OneRequestChanges
<1> QED BY <1>9, <1>10

LEMMA TryKeepsIt == ASSUME PoolInv, NEW r \in Asking, StartTrying(r) PROVE PoolInv'
<1>1. PICK S : asking \in [Asking -> PoolRequest(S)] BY DEF PoolInv
<1> DEFINE b == asking[r]
<1>2. b \in PoolRequest(S) /\ Partition(b) /\ b.phase = "selecting" /\ b.order = <<>>
  BY <1>1 DEF PoolInv, RequestsInv, StartTrying
<1>3. /\ b.picked \in Seq(S) /\ NamedOnce(b.picked) /\ Names(b.picked) \subseteq Provider
      /\ Items(b.order) \union Names(b.picked) \union b.skipped = Provider /\ Items(b.order) = {}
      /\ b.failed = {} /\ b.intent = "none"
  BY <1>2 DEF PoolRequest, Partition, Items
<1>4. PICK order \in OrdersOf(b.picked) : asking' = [asking EXCEPT ![r].phase = "trying", ![r].order = order, ![r].picked = <<>>]
  BY DEF StartTrying
<1>5. order \in Seq(Provider) /\ Once(order) /\ Items(order) = Names(b.picked) BY <1>3, OrdersAreAll
<1>6. robin' \in 0 .. ProviderCount - 1 /\ RequestsInv BY DEF StartTrying, PoolInv, RequestsInv
<1> DEFINE a == [b EXCEPT !.phase = "trying", !.order = order, !.picked = <<>>]
<1>7. asking' = [asking EXCEPT ![r] = a] BY <1>1, <1>4
<1> HIDE DEF b
<1>8. a \in PoolRequest(S) BY <1>2, <1>5, RestIsRequest DEF PoolRequest
<1>9. /\ a.order = order /\ a.picked = <<>> /\ a.skipped = b.skipped /\ a.phase = "trying" /\ a.failed = {} /\ a.intent = "none"
  BY <1>2, <1>3 DEF PoolRequest
<1> HIDE DEF a
<1>10. Names(a.picked) = {} /\ NamedOnce(a.picked) BY <1>9 DEF Names, NamedOnce
<1>11. Partition(a) BY <1>3, <1>5, <1>9, <1>10 DEF Partition
<1> QED BY <1>1, <1>6, <1>7, <1>8, <1>11, OneRequestChanges

LEMMA OutcomeKeepsIt ==
    ASSUME PoolInv, NEW r \in Asking,
           (\E latency \in Latencies : ProviderAnswers(r, latency)) \/ ProviderFails(r) \/ FallsBackToRules(r)
    PROVE  PoolInv'
<1>1. PICK S : asking \in [Asking -> PoolRequest(S)] BY DEF PoolInv
<1> DEFINE b == asking[r]
<1>2. b \in PoolRequest(S) /\ Partition(b) /\ b.phase = "trying"
  BY <1>1 DEF PoolInv, RequestsInv, ProviderAnswers, ProviderFails, FallsBackToRules
<1>3. /\ b.order \in Seq(Provider) /\ Once(b.order) /\ b.picked = <<>> /\ Items(b.order) \cap b.failed = {}
      /\ Items(b.order) \union b.failed \union b.skipped = Provider /\ b.intent = "none" /\ b.failed \subseteq Provider
      /\ Names(b.picked) = {} /\ NamedOnce(b.picked)
  BY <1>2 DEF PoolRequest, Partition, Names, NamedOnce
<1>4. robin' \in 0 .. ProviderCount - 1 /\ RequestsInv
  BY DEF ProviderAnswers, ProviderFails, FallsBackToRules, PoolInv, RequestsInv
<1>5. CASE \E latency \in Latencies : ProviderAnswers(r, latency)
  <2> DEFINE a == [b EXCEPT !.phase = "answered", !.order = <<>>, !.intent = "provider"]
  <2>1. asking' = [asking EXCEPT ![r] = a] BY <1>1, <1>5 DEF ProviderAnswers
  <2> HIDE DEF b
  <2>2. a \in PoolRequest(S)
    <3>1. <<>> \in Seq(Provider) BY RestIsRequest
    <3> QED BY <1>2, <3>1 DEF PoolRequest
  <2>3. a.order = <<>> /\ a.phase = "answered" /\ a.intent = "provider" /\ a.picked = b.picked /\ a.failed = b.failed
    BY <1>2 DEF PoolRequest
  <2> HIDE DEF a
  <2>4. Items(a.order) = {} /\ Once(a.order) BY <2>3 DEF Items, Once
  <2>5. Partition(a) BY <1>3, <2>3, <2>4 DEF Partition
  <2> QED BY <1>1, <1>4, <2>1, <2>2, <2>5, OneRequestChanges
<1>6. CASE ProviderFails(r)
  <2> DEFINE i == Head(b.order)
             a == [b EXCEPT !.order = Tail(b.order), !.failed = b.failed \union {i}]
  <2>1. asking' = [asking EXCEPT ![r] = a] /\ b.order # <<>> BY <1>1, <1>6 DEF ProviderFails
  <2>2. /\ Tail(b.order) \in Seq(Provider) /\ i \in Provider /\ Once(Tail(b.order))
        /\ Items(b.order) = Items(Tail(b.order)) \union {i} /\ i \notin Items(Tail(b.order))
    BY <1>3, <2>1, TailOnce
  <2> HIDE DEF b, i
  <2>3. a \in PoolRequest(S) BY <1>2, <1>3, <2>2 DEF PoolRequest
  <2>4. /\ a.order = Tail(b.order) /\ a.phase = "trying" /\ a.intent = "none"
        /\ a.picked = b.picked /\ a.failed = b.failed \union {i}
        /\ a.skipped = b.skipped
    BY <1>2, <1>3 DEF PoolRequest
  <2> HIDE DEF a
  <2>5. Partition(a) BY <1>3, <2>2, <2>4 DEF Partition
  <2> QED BY <1>1, <1>4, <2>1, <2>3, <2>5, OneRequestChanges
<1>7. CASE FallsBackToRules(r)
  <2> DEFINE a == [b EXCEPT !.phase = "answered", !.intent = "rules"]
  <2>1. asking' = [asking EXCEPT ![r] = a] /\ b.order = <<>> BY <1>1, <1>7 DEF FallsBackToRules
  <2> HIDE DEF b
  <2>2. a \in PoolRequest(S) BY <1>2 DEF PoolRequest
  <2>3. /\ a.order = <<>> /\ a.phase = "answered" /\ a.intent = "rules"
        /\ a.picked = b.picked /\ a.failed = b.failed /\ a.skipped = b.skipped
    BY <1>2, <2>1 DEF PoolRequest
  <2> HIDE DEF a
  <2>4. Items(a.order) = {} /\ Once(a.order) /\ Items(b.order) = {} BY <2>1, <2>3 DEF Items, Once
  <2>5. Partition(a) BY <1>3, <2>3, <2>4 DEF Partition
  <2> QED BY <1>1, <1>4, <2>1, <2>2, <2>5, OneRequestChanges
<1> QED BY <1>5, <1>6, <1>7

LEMMA PoolBegins == ASSUME PoolInit PROVE PoolInv
<1>1. asking = [r \in Asking |-> Rest] /\ robin = 0 BY DEF PoolInit
<1>2. Rest \in PoolRequest({}) BY DEF Rest, PoolRequest
<1>3. Partition(Rest) BY DEF Partition, Rest, Once, NamedOnce, Names, Items
<1>4. 0 \in 0 .. ProviderCount - 1 BY ProviderPoolAssumption
<1>5. asking \in [Asking -> PoolRequest({})] BY <1>1, <1>2
<1>6. \A r \in Asking : Partition(asking[r]) BY <1>1, <1>3
<1> QED BY <1>1, <1>4, <1>5, <1>6 DEF PoolInv, RequestsInv

LEMMA PoolStep == PoolInv /\ [PoolNext]_poolVars => PoolInv'
<1>1. ASSUME PoolInv, PoolNext PROVE PoolInv'
  <2>1. CASE ClockTicks
    <3>1. asking' = asking /\ robin' = robin BY <2>1 DEF ClockTicks
    <3> QED BY <3>1, <1>1 DEF PoolInv, RequestsInv
  <2> QED BY <1>1, <2>1, BeginKeepsIt, SelectKeepsIt, TryKeepsIt, OutcomeKeepsIt DEF PoolNext
<1>2. ASSUME PoolInv, UNCHANGED poolVars PROVE PoolInv'
  <2>1. asking' = asking /\ robin' = robin BY <1>2 DEF poolVars
  <2> QED BY <2>1, <1>2 DEF PoolInv, RequestsInv
<1> QED BY <1>1, <1>2

(* Whatever overlapping requests record, the rules decide only when every   *)
(* provider was cooling down as the request began or has failed it, and no  *)
(* provider is tried twice by a request (classify in provider_pool.rs).     *)
THEOREM RulesAreAlwaysTheLastResort == PoolSpec => []RulesAreTheLastResort
<1>1. PoolInit => PoolInv BY PoolBegins
<1>2. PoolInv /\ [PoolNext]_poolVars => PoolInv' BY PoolStep
<1>3. PoolInv => RulesAreTheLastResort
  <2>1. ASSUME PoolInv, NEW r \in Asking
        PROVE  /\ asking[r].intent = "rules" => asking[r].failed \union asking[r].skipped = Provider
               /\ \A k \in DOMAIN asking[r].order : asking[r].order[k] \notin asking[r].failed
    BY <2>1 DEF PoolInv, RequestsInv, Partition, Items
  <2> QED BY <2>1 DEF RulesAreTheLastResort
<1> QED BY <1>1, <1>2, <1>3, PTL DEF PoolSpec

(***************************************************************************)
(* What is configured is what was asked for.                               *)
(***************************************************************************)

Updating == {u \in Updaters : updater[u] # NoUpdate}
Own == IF configFile = 0 THEN NoLayer ELSE content[configFile].layer

(* The files, and what the one update there is has made of them.            *)
FilesInv ==
    /\ content \in [Inode -> [state: {"whole", "empty", "mixed"}, layer: Layer]]
    /\ {configFile, tmpFile} \subseteq Inode \union {0} /\ updates \in 0 .. MaxUpdates
    /\ configFile # 0 => content[configFile].state = "whole" /\ tmpFile # configFile
    /\ promised = Own /\ promised \in Layer

UpdaterInv ==
    /\ updater \in [Updaters -> [phase: {"idle", "merged", "writing", "written"}, inode: Inode \union {0},
                                 layer: Layer, given: Layer]]
    /\ \A u, w \in Updating : u = w
    /\ \A u \in Updating :
          /\ updates >= 1 /\ updater[u].phase # "idle" /\ updater[u].layer = Over(Own, updater[u].given)
          /\ updater[u].phase = "merged" => updater[u].inode = 0
          /\ updater[u].phase \in {"writing", "written"} => tmpFile # 0 /\ updater[u].inode = tmpFile
          /\ updater[u].phase = "writing" => content[tmpFile].state = "empty"
          /\ updater[u].phase = "written" => content[tmpFile] = Whole(updater[u].layer)

ConfInv == knobs \in Knobs /\ interfered \in BOOLEAN /\ (~interfered => FilesInv /\ UpdaterInv)

-----------------------------------------------------------------------------
LEMMA LayersMerge ==
    /\ NoLayer \in Layer
    /\ \A base, overlay \in Layer : Over(base, overlay) \in Layer
    /\ \A s \in Settings, v \in Values : Giving(s, v) \in Layer
<1>1. \A layer \in Layer : Filled(layer) \in Layer
  BY ConfigurationAssumption DEF Filled, Layer
<1>2. \A s \in Settings, v \in Values : [NoLayer EXCEPT ![s] = v] \in Layer
  BY DEF NoLayer, Layer
<1> QED
  BY <1>1, <1>2 DEF NoLayer, Layer, Over, Giving

LEMMA GivenIsLayer ==
    ASSUME NEW s \in Settings, NEW v \in Values, NEW profile \in Values \union {Unset}, NEW offered
    PROVE  WithProfile(Giving(s, v), profile, offered) \in Layer
  BY LayersMerge DEF WithProfile, Layer

LEMMA NobodyUpdates == \A u \in Updaters : u \notin Updating <=> updater[u] = NoUpdate
  BY DEF Updating

LEMMA ConfInitInv == ConfigInit => ConfInv
<1> SUFFICES ASSUME ConfigInit PROVE ConfInv
  OBVIOUS
<1>1. knobs \in Knobs
  BY DEF ConfigInit, NoKnobs, Knobs, Urls
<1>2. Updating = {} /\ updates = 0
  BY DEF ConfigInit, Updating
<1>3. FilesInv
  <2>1. CASE configFile = 0
    BY <1>2, <2>1, LayersMerge, ConfigurationAssumption DEF ConfigInit, FilesInv, Torn, Own
  <2>2. CASE configFile # 0
    <3>1. configFile = 1 /\ promised \in Layer /\ 1 \in Inode /\ tmpFile = 0
          /\ content = [i \in Inode |-> IF i = 1 THEN Whole(promised) ELSE Torn("empty")]
      BY <2>2, LayersMerge, ConfigurationAssumption DEF ConfigInit, Inode
    <3>2. content[1] = Whole(promised)
      BY <3>1
    <3> QED
      BY <1>2, <3>1, <3>2, LayersMerge, ConfigurationAssumption DEF FilesInv, Torn, Whole, Own
  <2> QED
    BY <2>1, <2>2
<1>4. UpdaterInv
  BY <1>2, LayersMerge, ConfigurationAssumption DEF ConfigInit, UpdaterInv, NoUpdate
<1> QED
  BY <1>1, <1>3, <1>4 DEF ConfInv, ConfigInit

(* Nobody else works while an update does, unless two overlapped.           *)
LEMMA UpdatesKeep ==
    ASSUME ConfInv, [ConfigNext]_configVars, ~interfered'
    PROVE  FilesInv' /\ UpdaterInv'
<1>1. ~interfered
  BY DEF ConfInv, ConfigNext, UpdateMerges, UpdateOpens, UpdateWrites, UpdateRenames, ConfigRestart, configVars
<1>2. FilesInv /\ UpdaterInv
  BY <1>1 DEF ConfInv
<1>3. ASSUME NEW u \in Updaters, NEW s \in Settings, NEW v \in Values, NEW profile \in Values \union {Unset},
             NEW offered \in Offered, UpdateMerges(u, WithProfile(Giving(s, v), profile, offered))
      PROVE  FilesInv' /\ UpdaterInv'
  <2> DEFINE given == WithProfile(Giving(s, v), profile, offered)
  <2>1. given \in Layer
    BY GivenIsLayer
  <2> HIDE DEF given
  <2>2. UpdateMerges(u, given)
    BY <1>3 DEF given
  <2>3. /\ updates' = updates + 1 /\ updates < MaxUpdates /\ Updating = {}
        /\ updater' = [updater EXCEPT ![u] = [phase |-> "merged", inode |-> 0, given |-> given, layer |-> Over(Own, given)]]
        /\ UNCHANGED <<content, configFile, tmpFile, promised>>
    BY <2>2 DEF UpdateMerges, Updating, Own
  <2>4. Own \in Layer /\ Over(Own, given) \in Layer /\ Own' = Own
    BY <1>2, <2>1, <2>3, LayersMerge DEF FilesInv, Own
  <2>5. FilesInv'
    BY <1>2, <2>3, <2>4, ConfigurationAssumption DEF FilesInv
  <2>6. /\ Updating' = {u}
        /\ updater'[u] = [phase |-> "merged", inode |-> 0, given |-> given, layer |-> Over(Own, given)]
    BY <1>2, <2>3 DEF Updating, NoUpdate, UpdaterInv
  <2>7. UpdaterInv'
    BY <1>2, <2>1, <2>3, <2>4, <2>6, ConfigurationAssumption DEF UpdaterInv, FilesInv
  <2> QED
    BY <2>5, <2>7
<1>4. ASSUME NEW u \in Updaters, UpdateOpens(u)
      PROVE  FilesInv' /\ UpdaterInv'
  <2>1. u \in Updating /\ Updating = {u}
    BY <1>2, <1>4 DEF UpdateOpens, Updating, UpdaterInv, NoUpdate
  <2> DEFINE i == IF tmpFile = 0 THEN FreeInode ELSE tmpFile
  <2>2. i \in Inode /\ i # configFile
    <3>1. CASE tmpFile # 0
      BY <1>2, <3>1, ConfigurationAssumption DEF FilesInv, Inode
    <3>2. CASE tmpFile = 0
      <4>1. \A w \in Updaters : updater[w].inode = 0
        BY <1>2, <1>4, <2>1 DEF Updating, UpdaterInv, NoUpdate, UpdateOpens
      <4>2. updates >= 1 /\ updates \in 0 .. MaxUpdates
        BY <1>2, <2>1 DEF UpdaterInv, FilesInv
      <4>3. \E j \in Inode : j # configFile
        <5>1. 1 \in Inode /\ 2 \in Inode
          BY <4>2, ConfigurationAssumption DEF Inode
        <5> QED
          BY <5>1
      <4>4. \E j \in Inode : j # configFile /\ j # tmpFile /\ \A w \in Updaters : updater[w].inode # j
        BY <3>2, <4>1, <4>3, ConfigurationAssumption DEF Inode
      <4> QED
        BY <3>2, <4>4 DEF FreeInode
    <3> QED
      BY <3>1, <3>2
  <2>3. /\ tmpFile' = i /\ content' = [content EXCEPT ![i] = Torn("empty")]
        /\ updater' = [updater EXCEPT ![u].phase = "writing", ![u].inode = i]
        /\ UNCHANGED <<configFile, updates, promised>>
    BY <1>4 DEF UpdateOpens
  <2> HIDE DEF i
  <2>4. i # 0 /\ i \in Inode \union {0}
    BY <2>2, ConfigurationAssumption DEF Inode
  <2>5. Own' = Own /\ content'[i].state = "empty" /\ (configFile # 0 => content'[configFile] = content[configFile])
    BY <1>2, <2>2, <2>3, ConfigurationAssumption DEF Own, FilesInv, Torn, Inode
  <2>6. FilesInv'
    BY <1>2, <2>2, <2>3, <2>4, <2>5, LayersMerge DEF FilesInv, Torn
  <2>7. /\ updater'[u].phase = "writing" /\ updater'[u].inode = i /\ updater'[u].layer = updater[u].layer
        /\ updater'[u].given = updater[u].given /\ \A w \in Updaters \ {u} : updater'[w] = updater[w]
        /\ updater' \in [Updaters -> [phase: {"idle", "merged", "writing", "written"}, inode: Inode \union {0},
                                      layer: Layer, given: Layer]]
    BY <1>2, <2>3, <2>4 DEF UpdaterInv
  <2>8. Updating' = {u}
    BY <2>1, <2>7 DEF Updating, NoUpdate
  <2>9. UpdaterInv'
    BY <1>2, <2>1, <2>3, <2>4, <2>5, <2>7, <2>8 DEF UpdaterInv
  <2> QED
    BY <2>6, <2>9
<1>5. ASSUME NEW u \in Updaters, UpdateWrites(u)
      PROVE  FilesInv' /\ UpdaterInv'
  <2>1. u \in Updating /\ Updating = {u} /\ updater[u].phase = "writing"
    BY <1>2, <1>5 DEF UpdateWrites, Updating, UpdaterInv, NoUpdate
  <2>2. /\ tmpFile # 0 /\ updater[u].inode = tmpFile /\ content[tmpFile].state = "empty" /\ tmpFile \in Inode
        /\ updater[u].layer \in Layer /\ tmpFile # configFile
    BY <1>2, <2>1, ConfigurationAssumption DEF UpdaterInv, FilesInv, Inode
  <2>3. /\ content' = [content EXCEPT ![tmpFile] = Whole(updater[u].layer)]
        /\ updater' = [updater EXCEPT ![u].phase = "written"]
        /\ UNCHANGED <<configFile, tmpFile, updates, promised>>
    BY <1>5, <2>2 DEF UpdateWrites
  <2>4. Own' = Own /\ content'[tmpFile] = Whole(updater[u].layer)
        /\ (configFile # 0 => content'[configFile] = content[configFile])
    BY <1>2, <2>2, <2>3, ConfigurationAssumption DEF Own, FilesInv, Inode
  <2>5. FilesInv'
    BY <1>2, <2>2, <2>3, <2>4 DEF FilesInv, Whole
  <2>6. /\ updater'[u].phase = "written" /\ updater'[u].inode = tmpFile /\ updater'[u].layer = updater[u].layer
        /\ updater'[u].given = updater[u].given /\ \A w \in Updaters \ {u} : updater'[w] = updater[w]
        /\ updater' \in [Updaters -> [phase: {"idle", "merged", "writing", "written"}, inode: Inode \union {0},
                                      layer: Layer, given: Layer]]
    BY <1>2, <2>2, <2>3 DEF UpdaterInv
  <2>7. Updating' = {u}
    BY <2>1, <2>6 DEF Updating, NoUpdate
  <2>8. UpdaterInv'
    BY <1>2, <2>1, <2>2, <2>3, <2>4, <2>6, <2>7 DEF UpdaterInv
  <2> QED
    BY <2>5, <2>8
<1>6. ASSUME NEW u \in Updaters, UpdateRenames(u)
      PROVE  FilesInv' /\ UpdaterInv'
  <2>1. u \in Updating /\ Updating = {u} /\ updater[u].phase = "written"
    BY <1>2, <1>6 DEF UpdateRenames, Updating, UpdaterInv, NoUpdate
  <2>2. /\ tmpFile # 0 /\ content[tmpFile] = Whole(updater[u].layer) /\ updates >= 1
        /\ updater[u].layer = Over(promised, updater[u].given) /\ updater[u].given \in Layer
    BY <1>2, <2>1 DEF UpdaterInv, FilesInv
  <2>3. /\ configFile' = tmpFile /\ tmpFile' = 0 /\ promised' = Over(promised, updater[u].given)
        /\ updater' = [updater EXCEPT ![u] = NoUpdate]
        /\ UNCHANGED <<content, updates>>
    BY <1>6, <2>2 DEF UpdateRenames
  <2>4. promised' = Own' /\ promised' \in Layer
    BY <1>2, <2>2, <2>3, LayersMerge DEF Own, Whole, FilesInv
  <2>5. FilesInv'
    BY <1>2, <2>2, <2>3, <2>4, ConfigurationAssumption DEF FilesInv, Whole
  <2>6. Updating' = {} /\ updater' \in [Updaters -> [phase: {"idle", "merged", "writing", "written"},
                                                    inode: Inode \union {0}, layer: Layer, given: Layer]]
    BY <1>2, <2>1, <2>3, LayersMerge, ConfigurationAssumption DEF UpdaterInv, Updating, NoUpdate
  <2> QED
    BY <2>5, <2>6 DEF UpdaterInv
<1>7. CASE ConfigRestart
  <2>1. /\ updates' = updates + 1 /\ updates < MaxUpdates /\ updater' = [u \in Updaters |-> NoUpdate]
        /\ UNCHANGED <<content, configFile, tmpFile, promised>>
    BY <1>7 DEF ConfigRestart
  <2>2. Own' = Own
    BY <2>1 DEF Own
  <2>3. FilesInv'
    BY <1>2, <2>1, <2>2, ConfigurationAssumption DEF FilesInv
  <2>4. Updating' = {} /\ updater' \in [Updaters -> [phase: {"idle", "merged", "writing", "written"},
                                                    inode: Inode \union {0}, layer: Layer, given: Layer]]
    BY <2>1, LayersMerge, ConfigurationAssumption DEF Updating, NoUpdate
  <2> QED
    BY <2>3, <2>4 DEF UpdaterInv
<1>8. CASE UNCHANGED configVars
  BY <1>2, <1>8 DEF configVars, FilesInv, UpdaterInv, Updating, Own
<1> QED
  BY <1>3, <1>4, <1>5, <1>6, <1>7, <1>8 DEF ConfigNext

LEMMA ConfStepInv == ConfInv /\ [ConfigNext]_configVars => ConfInv'
<1>1. ConfInv /\ [ConfigNext]_configVars => knobs' \in Knobs /\ interfered' \in BOOLEAN
  BY DEF ConfInv, ConfigNext, UpdateMerges, UpdateOpens, UpdateWrites, UpdateRenames, ConfigRestart, configVars
<1> QED
  BY <1>1, UpdatesKeep DEF ConfInv

THEOREM ConfigIsInvariant == ConfigSpec => []ConfInv
  BY ConfInitInv, ConfStepInv, PTL DEF ConfigSpec

LEMMA RuntimeIsOver ==
    ASSUME NEW runtime, NEW s \in Settings
    PROVE  /\ runtime[s] # Unset => LoadConfig(runtime)[s] = Validated(s, runtime[s])
           /\ s \notin Unread /\ Own[s] # Unset /\ variables[s] = Unset /\ runtime[s] = Unset =>
                 LoadConfig(runtime)[s] = Validated(s, Own[s])
<1> DEFINE read == Merge(Merge(NoLayer, globalFile), Own)
<1> DEFINE merged == ApplyRuntimeLayer(runtime, ApplyEnvLayer(read))
<1>1. LoadConfig(runtime)[s] = Validated(s, merged[s])
  BY DEF LoadConfig, Own
<1>2. runtime[s] # Unset => merged[s] = runtime[s]
  BY DEF ApplyRuntimeLayer, Over
<1>3. s \notin Unread /\ Own[s] # Unset => read[s] = Own[s]
  BY DEF Merge, Over
<1> HIDE DEF read
<1>4. variables[s] = Unset /\ read[s] # Unset => ApplyEnvLayer(read)[s] = read[s]
  BY DEF ApplyEnvLayer, Filled
<1>5. runtime[s] = Unset => merged[s] = ApplyEnvLayer(read)[s]
  BY DEF ApplyRuntimeLayer, Over
<1> HIDE DEF merged
<1> QED
  BY <1>1, <1>2, <1>3, <1>4, <1>5

LEMMA PromisedIsLoaded == ConfInv => UpdatesAreSeen
<1>1. ConfInv /\ ~interfered => ConfigIsAtomic /\ promised = Own
  BY DEF ConfInv, FilesInv, ConfigIsAtomic
<1>2. ASSUME promised = Own, NEW s \in Settings, promised[s] # Unset
      PROVE  content[configFile].layer[s] = promised[s]
  BY <1>2 DEF Own, NoLayer
<1>3. Unread \subseteq Settings
  BY ConfigurationAssumption
<1> QED
  BY <1>1, <1>2, <1>3, RuntimeIsOver DEF UpdatesAreSeen

LEMMA KnobsAreSound == knobs \in Knobs => SelectionIsSound
<1> SUFFICES ASSUME knobs \in Knobs PROVE SelectionIsSound
  OBVIOUS
<1>1. /\ knobs.stateType \in StateTypes \union {Unset, "unknown"} /\ knobs.vectorType \in VectorTypes \union {Unset, "unknown"}
      /\ knobs.stateUrl \in Urls /\ knobs.vectorUrl \in Urls
  BY DEF Knobs
<1>2. knobs = NoKnobs => FromEnv(knobs).state = "sqlite"
  BY DEF FromEnv
<1>3. CASE knobs # NoKnobs
  BY <1>1, <1>3, ConfigurationAssumption
     DEF SelectionIsSound, FromEnv, MissesUrl, StateTypes, VectorTypes, Combined, Urls
<1> QED
  BY <1>2, <1>3 DEF SelectionIsSound

(* A project is configured by what was acknowledged last and by a sound     *)
(* selection of backends, wherever a process stops.                         *)
THEOREM AlwaysConfiguredAsAsked == ConfigSpec => []ConfiguresAsAsked
<1>1. ConfInv => ConfiguresAsAsked
  BY PromisedIsLoaded, KnobsAreSound DEF ConfInv, ConfiguresAsAsked
<1> QED
  BY <1>1, ConfigIsInvariant, PTL

-----------------------------------------------------------------------------
(***************************************************************************)
(* The JSON-RPC front answers each request once, and serves what it offers. *)
(***************************************************************************)

(* The dispatchers ask for no more than tools/list says.                    *)
Serves(offers) == \A offer \in offers : \E need \in Needs : need[1] = offer[1] /\ need[2] \subseteq offer[2]

LEMMA ServesOne ==
    ASSUME NEW calls, NEW given, NEW arguments, arguments \subseteq given, For(calls, arguments) \subseteq Needs
    PROVE  Serves(For(calls, given))
<1> SUFFICES ASSUME NEW offer \in calls \X {given}
             PROVE \E need \in Needs : need[1] = offer[1] /\ need[2] \subseteq offer[2]
  BY DEF Serves, For
<1>1. offer[1] \in calls /\ offer[2] = given OBVIOUS
<1>2. <<offer[1], arguments>> \in Needs BY <1>1 DEF For
<1> QED BY <1>1, <1>2

LEMMA ServesTwo == ASSUME NEW s, NEW t PROVE Serves(s \union t) <=> Serves(s) /\ Serves(t)
BY DEF Serves

LEMMA ForMore == ASSUME NEW s, NEW t, NEW a PROVE For(s, a) \union For(t, a) = For(s \union t, a)
BY DEF For

LEMMA NeedsAreTables ==
    /\ MemoryCalls \subseteq Needs
    /\ DiaryCalls \subseteq Needs
    /\ NavigationCalls \subseteq Needs
    /\ DocsCalls \subseteq Needs
    /\ ToolCalls \subseteq Needs
    /\ ImageCalls \subseteq Needs
    /\ SetupCalls \subseteq Needs
    /\ ConfigCalls \subseteq Needs
    /\ MaintainCalls \subseteq Needs
    /\ UpkeepCalls \subseteq Needs
    /\ ObserveCalls \subseteq Needs
BY DEF Needs

LEMMA MemoryIsServed ==
    Serves(MemoryAdvertised)
<1>1. Serves(For({"memory.search"}, Project \union {"query"}))
  <2>1. For({"memory.search"}, Project \union {"query"}) \subseteq Needs BY NeedsAreTables DEF For, MemoryCalls
  <2> QED BY <2>1, ServesOne
<1>2. Serves(For({"memory.fetch_chunk"}, Project \union {"id"}))
  <2>1. For({"memory.fetch_chunk"}, Project \union {"id"}) \subseteq Needs
    BY NeedsAreTables DEF For, MemoryCalls
  <2> QED BY <2>1, ServesOne
<1>3. Serves(For({"memory.search_images"}, Project))
  <2>1. For({"memory.search_images"}, Project) \subseteq Needs BY NeedsAreTables DEF For, ImageCalls
  <2> QED BY <2>1, ServesOne
<1>4. Serves(For({"memory.aaak.list_lessons"}, Project))
  <2>1. For({"memory.aaak.list_lessons"}, Project) \subseteq Needs BY NeedsAreTables DEF For, MemoryCalls
  <2> QED BY <2>1, ServesOne
<1>5. Serves(For({"memory.search_images", "memory.aaak.list_lessons"}, Project))
  BY <1>3, <1>4, ServesTwo DEF For, Serves
<1>6. Serves(For({"memory.ingest_image"}, Project \union {"path"}))
  <2>1. For({"memory.ingest_image"}, Project \union {"path"}) \subseteq Needs
    BY NeedsAreTables DEF For, ImageCalls
  <2> QED BY <2>1, ServesOne
<1>7. Serves(For({"memory.ingest_conversation", "memory.aaak.compress", "memory.aaak.teach"}, Project \union {"path", "format"}))
  <2>1. For({"memory.ingest_conversation", "memory.aaak.compress", "memory.aaak.teach"}, Project \union {"path", "format"})
          \subseteq Needs
    BY NeedsAreTables DEF For, MemoryCalls
  <2> QED BY <2>1, ServesOne
<1> QED BY <1>1, <1>2, <1>5, <1>6, <1>7 DEF Serves, MemoryAdvertised

LEMMA PalaceIsServed ==
    Serves(PalaceAdvertised)
<1>1. Serves(For({"memory.diary.add"}, Project \union {"entry_date", "content"}))
  <2>1. For({"memory.diary.add"}, Project \union {"entry_date", "content"}) \subseteq Needs
    BY NeedsAreTables DEF For, DiaryCalls
  <2> QED BY <2>1, ServesOne
<1>2. Serves(For({"memory.diary.search"}, Project \union {"query"}))
  <2>1. For({"memory.diary.search"}, Project \union {"query"}) \subseteq Needs
    BY NeedsAreTables DEF For, DiaryCalls
  <2> QED BY <2>1, ServesOne
<1>3. Serves(For({"memory.diary.list", "memory.diary.summarize"}, Project))
  <2>1. For({"memory.diary.list", "memory.diary.summarize"}, Project) \subseteq Needs
    BY NeedsAreTables DEF For, DiaryCalls
  <2> QED BY <2>1, ServesOne
<1>4. Serves(For({"memory.navigation.list", "memory.wake_up"}, Project))
  <2>1. For({"memory.navigation.list", "memory.wake_up"}, Project) \subseteq Needs
    BY NeedsAreTables DEF For, NavigationCalls
  <2> QED BY <2>1, ServesOne
<1>5. Serves(For({"memory.diary.list", "memory.diary.summarize", "memory.navigation.list", "memory.wake_up"}, Project))
  BY <1>3, <1>4, ServesTwo DEF For, Serves
<1>6. Serves(For({"memory.navigation.upsert_node"}, Project \union {"node_id", "kind", "label"}))
  <2>1. For({"memory.navigation.upsert_node"}, Project \union {"node_id", "kind", "label"}) \subseteq Needs
    BY NeedsAreTables DEF For, NavigationCalls
  <2> QED BY <2>1, ServesOne
<1>7. Serves(For({"memory.navigation.link_tunnel"}, Project \union {"from_node_id", "to_node_id"}))
  <2>1. For({"memory.navigation.link_tunnel"}, Project \union {"from_node_id", "to_node_id"}) \subseteq Needs
    BY NeedsAreTables DEF For, NavigationCalls
  <2> QED BY <2>1, ServesOne
<1>8. Serves(For({"memory.navigation.traverse"}, Project \union {"start_node_id"}))
  <2>1. For({"memory.navigation.traverse"}, Project \union {"start_node_id"}) \subseteq Needs
    BY NeedsAreTables DEF For, NavigationCalls
  <2> QED BY <2>1, ServesOne
<1> QED BY <1>1, <1>2, <1>5, <1>6, <1>7, <1>8 DEF Serves, PalaceAdvertised

LEMMA DocsIsServed ==
    Serves(DocsAdvertised)
<1>1. Serves(For({"docs.list"}, Project))
  <2>1. For({"docs.list"}, Project) \subseteq Needs BY NeedsAreTables DEF For, DocsCalls
  <2> QED BY <2>1, ServesOne
<1>2. Serves(For({"docs.get", "docs.delete"}, Project \union {"path"}))
  <2>1. For({"docs.get", "docs.delete"}, Project \union {"path"}) \subseteq Needs
    BY NeedsAreTables DEF For, DocsCalls
  <2> QED BY <2>1, ServesOne
<1>3. Serves(For({"docs.save"}, Project \union {"path", "content"}))
  <2>1. For({"docs.save"}, Project \union {"path", "content"}) \subseteq Needs
    BY NeedsAreTables DEF For, DocsCalls
  <2> QED BY <2>1, ServesOne
<1>4. Serves(For({"docs.move"}, Project \union {"from", "to"}))
  <2>1. For({"docs.move"}, Project \union {"from", "to"}) \subseteq Needs BY NeedsAreTables DEF For, DocsCalls
  <2> QED BY <2>1, ServesOne
<1> QED BY <1>1, <1>2, <1>3, <1>4 DEF Serves, DocsAdvertised

LEMMA ToolsIsServed ==
    Serves(ToolsAdvertised)
<1>1. Serves(For({"tool.find list"}, Project \union {"mode"}))
  <2>1. For({"tool.find list"}, Project \union {"mode"}) \subseteq Needs BY NeedsAreTables DEF For, ToolCalls
  <2> QED BY <2>1, ServesOne
<1>2. Serves(For({"tool.find suggest", "tool.find search"}, Project \union {"mode", "query"}))
  <2>1. For({"tool.find suggest", "tool.find search"}, Project \union {"mode", "query"}) \subseteq Needs
    BY NeedsAreTables DEF For, ToolCalls
  <2> QED BY <2>1, ServesOne
<1>3. Serves(For({"tool.info"}, {"tool_id"}))
  <2>1. For({"tool.info"}, {"tool_id"}) \subseteq Needs BY NeedsAreTables DEF For, ToolCalls
  <2> QED BY <2>1, ServesOne
<1>4. Serves(For({"tool.install"}, Project \union {"tool_id"}))
  <2>1. For({"tool.install"}, Project \union {"tool_id"}) \subseteq Needs BY NeedsAreTables DEF For, ToolCalls
  <2> QED BY <2>1, ServesOne
<1>5. Serves(For({"tool.run"}, Project \union {"action_key"}))
  <2>1. For({"tool.run"}, Project \union {"action_key"}) \subseteq Needs BY NeedsAreTables DEF For, ToolCalls
  <2> QED BY <2>1, ServesOne
<1> QED BY <1>1, <1>2, <1>3, <1>4, <1>5 DEF Serves, ToolsAdvertised

LEMMA AdminIsServed ==
    Serves(AdminAdvertised)
<1>1. Serves(For({"setup project", "setup refresh", "setup profile"}, Project))
  <2>1. For({"setup project", "setup refresh", "setup profile"}, Project) \subseteq Needs
    BY NeedsAreTables DEF For, SetupCalls
  <2> QED BY <2>1, ServesOne
<1>2. Serves(For({"config export"}, Root))
  <2>1. For({"config export"}, Root) \subseteq Needs BY NeedsAreTables DEF For, ConfigCalls
  <2> QED BY <2>1, ServesOne
<1>3. Serves(For({"config update"}, Root \union {"update"}))
  <2>1. For({"config update"}, Root) \subseteq Needs BY NeedsAreTables DEF For, ConfigCalls
  <2> QED BY <2>1, ServesOne DEF Project, Root
<1>4. Serves(For({"config profile.set"}, Root \union {"profile"}))
  <2>1. For({"config profile.set"}, Root \union {"profile"}) \subseteq Needs
    BY NeedsAreTables DEF For, ConfigCalls
  <2> QED BY <2>1, ServesOne
<1>5. Serves(For({"config tool.add"}, {"id", "name", "description", "install_command", "run_command"}))
  <2>1. For({"config tool.add"}, {"id", "name", "description", "install_command", "run_command"}) \subseteq Needs
    BY NeedsAreTables DEF For, ConfigCalls
  <2> QED BY <2>1, ServesOne
<1>6. Serves(For({"config tool.remove"}, {"tool_id"}))
  <2>1. For({"config tool.remove"}, {"tool_id"}) \subseteq Needs BY NeedsAreTables DEF For, ConfigCalls
  <2> QED BY <2>1, ServesOne
<1>7. Serves(For({"config models.list", "config models.check"}, {}))
  <2>1. For({"config models.list", "config models.check"}, {}) \subseteq Needs
    BY NeedsAreTables DEF For, ConfigCalls
  <2> QED BY <2>1 DEF For, Serves
<1>8. Serves(For({"observe metrics"}, {}))
  <2>1. For({"observe metrics"}, {}) \subseteq Needs BY NeedsAreTables DEF For, ObserveCalls
  <2> QED BY <2>1 DEF For, Serves
<1>9. Serves(For({"config models.list", "config models.check", "observe metrics"}, {}))
  BY <1>7, <1>8, ServesTwo DEF For, Serves
<1>10. Serves(For({"maintain reindex", "maintain trash.list", "maintain trash.empty"}, Project))
  <2>1. For({"maintain reindex", "maintain trash.list", "maintain trash.empty"}, Project) \subseteq Needs
    BY NeedsAreTables DEF For, MaintainCalls
  <2> QED BY <2>1, ServesOne
<1>11. Serves(For({"maintain tool.refresh"}, Project))
  <2>1. For({"maintain tool.refresh"}, {}) \subseteq Needs BY NeedsAreTables DEF For, MaintainCalls
  <2> QED BY <2>1, ServesOne DEF Project, Root
<1>12. Serves(For({"maintain images.rescan", "maintain images.clear"}, Project))
  <2>1. For({"maintain images.rescan", "maintain images.clear"}, Project) \subseteq Needs
    BY NeedsAreTables DEF For, UpkeepCalls
  <2> QED BY <2>1, ServesOne
<1>13. Serves(For({"observe events"}, Project))
  <2>1. For({"observe events"}, Project) \subseteq Needs BY NeedsAreTables DEF For, ObserveCalls
  <2> QED BY <2>1, ServesOne
<1>14. Serves(For({"maintain reindex", "maintain tool.refresh", "maintain trash.list", "maintain trash.empty",
                  "maintain images.rescan", "maintain images.clear", "observe events"}, Project))
  BY <1>10, <1>11, <1>12, <1>13, ServesTwo DEF For, Serves
<1>15. Serves(For({"maintain tool.enable"}, Root \union {"family"}))
  <2>1. For({"maintain tool.enable"}, Root \union {"family"}) \subseteq Needs
    BY NeedsAreTables DEF For, MaintainCalls
  <2> QED BY <2>1, ServesOne
<1>16. Serves(For({"maintain tool.disable"}, Project \union {"tool_id"}))
  <2>1. For({"maintain tool.disable"}, Project \union {"tool_id"}) \subseteq Needs
    BY NeedsAreTables DEF For, MaintainCalls
  <2> QED BY <2>1, ServesOne
<1>17. Serves(For({"maintain trash.restore"}, Project \union {"path"}))
  <2>1. For({"maintain trash.restore"}, Project \union {"path"}) \subseteq Needs
    BY NeedsAreTables DEF For, MaintainCalls
  <2> QED BY <2>1, ServesOne
<1>18. Serves(For({"maintain images.delete"}, Project \union {"path"}))
  <2>1. For({"maintain images.delete"}, Project \union {"path"}) \subseteq Needs
    BY NeedsAreTables DEF For, UpkeepCalls
  <2> QED BY <2>1, ServesOne
<1>19. Serves(For({"maintain trash.restore", "maintain images.delete"}, Project \union {"path"}))
  BY <1>17, <1>18, ServesTwo DEF For, Serves
<1>20. Serves(For({"maintain memory.capture_hook"}, Project \union {"path", "format", "event"}))
  <2>1. For({"maintain memory.capture_hook"}, Project \union {"path", "format", "event"}) \subseteq Needs
    BY NeedsAreTables DEF For, UpkeepCalls
  <2> QED BY <2>1, ServesOne
<1> QED BY <1>1, <1>2, <1>3, <1>4, <1>5, <1>6, <1>9, <1>14, <1>15, <1>16, <1>19, <1>20 DEF Serves, AdminAdvertised

LEMMA ToolsAreServed == Serves(tool_definitions)
BY MemoryIsServed, PalaceIsServed, DocsIsServed, ToolsIsServed, AdminIsServed, ServesTwo DEF tool_definitions

LEMMA NoneIsNoTool == \A offer \in tool_definitions : offer[1] # "none"
BY
     DEF tool_definitions, MemoryAdvertised, PalaceAdvertised, DocsAdvertised, ToolsAdvertised,
        AdminAdvertised, For

-----------------------------------------------------------------------------
(* Lines is what the clients of a script may write: only a request has an   *)
(* id, and only a tools/call names a call.                                  *)
IsLine(line) ==
    /\ line.kind # "request" => line.id = NoId
    /\ line.call # "none" => line.kind = "request" /\ line.method = "tools/call"

Stages == {"sent", "running", "creating", "retrying", "done"}
Traced == {"failed", "missing", "exists", "masked"}
Whys == Traced \union {"done", "created", "refused"}
AnswerTo(Lines) == [frame: Nat, id: {line.id : line \in Lines} \union {NoId}, code: Int, correlation: Nat, why: Whys]

RpcShape(Lines) ==
    /\ transport \in Transports /\ saved \in BOOLEAN /\ nextCorrelation \in Nat /\ nextCorrelation > NoCorrelation
    /\ frames \in [Connections -> Seq(Lines)] /\ stage \in [Connections -> Seq(Stages)]
    /\ \A c \in Connections : Len(stage[c]) = Len(frames[c])
    /\ serving \in [Connections -> {"open", "deaf", "ended"}]
    /\ answers \in [Connections -> Seq(AnswerTo(Lines))]

(* On stdio one client writes, and its frames are served one by one; what   *)
(* docs.save found missing is still missing when it creates it.             *)
OrderInv ==
    Sequential =>
        /\ \A c, d \in Connections : c = d \/ Indices(c) = {} \/ Indices(d) = {}
        /\ \A c \in Connections : \A i, j \in Indices(c) : i < j /\ stage[c][j] # "sent" => stage[c][i] = "done"
        /\ \A c \in Connections : \A i \in Indices(c) : stage[c][i] = "creating" => ~saved

AskedInv ==
    \A c \in Connections : \A i \in Indices(c) : stage[c][i] \in {"running", "creating", "retrying"} => IsAsked(c, i)

AsOffered(req) == (\E offer \in tool_definitions : offer[1] = req.call /\ offer[2] \subseteq req.given) /\ req.odd = {}

GoodAnswer(c, a) ==
    /\ a.frame \in Indices(c) /\ stage[c][a.frame] = "done" /\ a.id = Sent(c, a.frame).id
    /\ IsAsked(c, a.frame) \/ (Sequential /\ a.code = PARSE_ERROR)
    /\ a.why = "refused" => ~AsOffered(Sent(c, a.frame))
    /\ a.why = "exists" => ~Sequential
    /\ a.correlation < nextCorrelation
    /\ a.why \in Traced => a.correlation # NoCorrelation

Given(c) == {answers[c][n] : n \in DOMAIN answers[c]}
OneEach(c) == \A m, n \in DOMAIN answers[c] : answers[c][m].frame = answers[c][n].frame => m = n
InTurn(c) == \A m, n \in DOMAIN answers[c] : m < n => answers[c][m].frame < answers[c][n].frame

AnswerInv ==
    \A c \in Connections :
        /\ \A a \in Given(c) : GoodAnswer(c, a)
        /\ OneEach(c) /\ (Sequential => InTurn(c))
        /\ serving[c] = "open" => \A i \in Indices(c) : stage[c][i] = "done" /\ IsAsked(c, i) => i \in Answered(c)

CorrelationInv ==
    \A c, d \in Connections : \A m \in DOMAIN answers[c], n \in DOMAIN answers[d] :
        answers[c][m].correlation # NoCorrelation /\ answers[c][m].correlation = answers[d][n].correlation => c = d /\ m = n

RpcInv(Lines) == RpcShape(Lines) /\ OrderInv /\ AskedInv /\ AnswerInv /\ CorrelationInv

-----------------------------------------------------------------------------
(* A step of a server on the i-th frame of c.                               *)
Advances(c, i, v) ==
    /\ i \in Indices(c) /\ stage[c][i] # "done"
    /\ Sequential /\ stage[c][i] = "sent" => \A j \in 1 .. (i - 1) : stage[c][j] = "done"
    /\ stage' = [stage EXCEPT ![c][i] = v] /\ UNCHANGED <<transport, frames>>

LEMMA Moved ==
    ASSUME NEW Lines, RpcShape(Lines), NEW c \in Connections, NEW i, NEW v \in Stages, Advances(c, i, v)
    PROVE  /\ stage' \in [Connections -> Seq(Stages)] /\ stage'[c][i] = v
           /\ \A d \in Connections : Len(stage'[d]) = Len(frames'[d]) /\ Indices(d)' = Indices(d)
           /\ \A d \in Connections : \A j \in Indices(d) : <<d, j>> # <<c, i>> => stage'[d][j] = stage[d][j]
           /\ i \in 1 .. Len(stage[c])
<1>1. /\ stage[c] \in Seq(Stages) /\ frames[c] \in Seq(Lines) /\ Len(stage[c]) = Len(frames[c])
      /\ stage' = [stage EXCEPT ![c] = [stage[c] EXCEPT ![i] = v]] /\ frames' = frames /\ i \in DOMAIN frames[c]
  BY DEF RpcShape, Advances, Indices
<1>2. i \in 1 .. Len(stage[c]) BY <1>1
<1>3. /\ [stage[c] EXCEPT ![i] = v] \in Seq(Stages) /\ Len([stage[c] EXCEPT ![i] = v]) = Len(stage[c])
      /\ [stage[c] EXCEPT ![i] = v][i] = v
      /\ \A j \in 1 .. Len(stage[c]) : j # i => [stage[c] EXCEPT ![i] = v][j] = stage[c][j]
  BY <1>1, <1>2
<1>4. /\ stage'[c] = [stage[c] EXCEPT ![i] = v] /\ \A d \in Connections : d # c => stage'[d] = stage[d]
      /\ stage' \in [Connections -> Seq(Stages)]
  BY <1>1, <1>3 DEF RpcShape
<1>5. ASSUME NEW d \in Connections, NEW j \in Indices(d), <<d, j>> # <<c, i>> PROVE stage'[d][j] = stage[d][j]
  <2>1. CASE d # c BY <2>1, <1>4
  <2>2. CASE d = c
    <3>1. j # i /\ j \in 1 .. Len(stage[c]) BY <2>2, <1>1, <1>5 DEF Indices
    <3> QED BY <2>2, <3>1, <1>3, <1>4
  <2> QED BY <2>1, <2>2
<1>6. \A d \in Connections : Len(stage'[d]) = Len(frames'[d]) /\ Indices(d)' = Indices(d)
  BY <1>1, <1>3, <1>4 DEF RpcShape, Indices
<1> QED BY <1>2, <1>3, <1>4, <1>5, <1>6

LEMMA MoveKeepsOrder ==
    ASSUME NEW Lines, RpcInv(Lines), NEW c \in Connections, NEW i, NEW v \in Stages \ {"sent"}, Advances(c, i, v),
           v = "creating" => ~saved', v \in {"running", "creating", "retrying"} => IsAsked(c, i),
           Sequential /\ saved' => saved \/ stage[c][i] # "sent"
    PROVE  OrderInv' /\ AskedInv'
<1>1. RpcShape(Lines) BY DEF RpcInv
<1>2. /\ stage'[c][i] = v /\ \A d \in Connections : Indices(d)' = Indices(d)
      /\ \A d \in Connections : \A j \in Indices(d) : <<d, j>> # <<c, i>> => stage'[d][j] = stage[d][j]
  BY <1>1, Moved
<1>3. transport' = transport /\ frames' = frames /\ i \in Indices(c) /\ stage[c][i] # "done" BY DEF Advances
<1>4. AskedInv' BY <1>2, <1>3 DEF AskedInv, RpcInv, IsAsked, Sent
<1>5. ASSUME Sequential
      PROVE  /\ \A d, e \in Connections : d = e \/ Indices(d) = {} \/ Indices(e) = {}
             /\ \A d \in Connections : \A k, j \in Indices(d) : k < j /\ stage'[d][j] # "sent" => stage'[d][k] = "done"
             /\ \A d \in Connections : \A j \in Indices(d) : stage'[d][j] = "creating" => ~saved'
  <2>1. /\ \A d, e \in Connections : d = e \/ Indices(d) = {} \/ Indices(e) = {}
        /\ \A d \in Connections : \A k, j \in Indices(d) : k < j /\ stage[d][j] # "sent" => stage[d][k] = "done"
        /\ \A d \in Connections : \A j \in Indices(d) : stage[d][j] = "creating" => ~saved
    BY <1>5 DEF RpcInv, OrderInv
  <2>2. \A d \in Connections : Indices(d) \subseteq Nat \ {0} BY <1>1 DEF RpcShape, Indices
  <2>3. \A j \in Indices(c) : j < i => stage[c][j] = "done"
    <3> SUFFICES ASSUME NEW j \in Indices(c), j < i PROVE stage[c][j] = "done" OBVIOUS
    <3>1. CASE stage[c][i] = "sent"
      <4>1. j \in 1 .. (i - 1) BY <2>2, <1>3
      <4> QED BY <4>1, <3>1, <1>5 DEF Advances
    <3>2. CASE stage[c][i] # "sent" BY <3>2, <2>1, <1>3
    <3> QED BY <3>1, <3>2
  <2>4. ASSUME NEW d \in Connections, NEW k \in Indices(d), NEW j \in Indices(d), k < j, stage'[d][j] # "sent"
        PROVE  stage'[d][k] = "done"
    <3>1. CASE <<d, j>> = <<c, i>>
      <4>1. d = c /\ j = i /\ k # i BY <3>1, <2>2, <2>4
      <4>2. stage[c][k] = "done" BY <4>1, <2>3, <2>4
      <4> QED BY <4>1, <4>2, <1>2
    <3>2. CASE <<d, j>> # <<c, i>>
      <4>1. stage[d][j] # "sent" BY <3>2, <1>2, <2>4
      <4>2. stage[d][k] = "done" BY <4>1, <2>1, <2>4
      <4>3. <<d, k>> # <<c, i>> BY <4>2, <1>3
      <4> QED BY <4>2, <4>3, <1>2
    <3> QED BY <3>1, <3>2
  <2>5. ASSUME NEW d \in Connections, NEW j \in Indices(d), stage'[d][j] = "creating", saved' PROVE FALSE
    <3>1. <<d, j>> # <<c, i>> BY <1>2, <2>5
    <3>2. stage[d][j] = "creating" BY <3>1, <1>2, <2>5
    <3>3. ~saved /\ stage[c][i] # "sent" BY <3>2, <2>1, <2>5, <1>5
    <3>4. d = c /\ j # i BY <3>1, <2>1, <1>3
    <3>5. CASE j < i BY <3>5, <3>2, <3>4, <2>3
    <3>6. CASE i < j BY <3>6, <3>2, <3>4, <2>1, <1>3
    <3>7. j \in Nat /\ i \in Nat BY <3>4, <2>2, <1>3
    <3> QED BY <3>4, <3>5, <3>6, <3>7
  <2> QED BY <2>1, <2>4, <2>5
<1>6. OrderInv' BY <1>2, <1>3, <1>5 DEF OrderInv, Sequential
<1> QED BY <1>4, <1>6

LEMMA GoodStays ==
    ASSUME NEW Lines, RpcShape(Lines), NEW c \in Connections, NEW a \in AnswerTo(Lines), GoodAnswer(c, a),
           UNCHANGED transport, nextCorrelation' \in Nat, nextCorrelation <= nextCorrelation',
           a.frame \in DOMAIN frames'[c], frames'[c][a.frame] = frames[c][a.frame], stage'[c][a.frame] = "done"
    PROVE  GoodAnswer(c, a)'
<1>1. a.correlation < nextCorrelation'
  <2>1. a.correlation \in Nat /\ nextCorrelation \in Nat /\ a.correlation < nextCorrelation
    BY DEF AnswerTo, RpcShape, GoodAnswer
  <2>2. \A x, y, z \in Nat : x < y /\ y <= z => x < z OBVIOUS
  <2> QED BY <2>1, <2>2
<1> QED BY <1>1 DEF GoodAnswer, IsAsked, Sent, Indices, Sequential, AsOffered

LEMMA GivenTypes ==
    ASSUME NEW Lines, RpcShape(Lines), NEW c \in Connections
    PROVE  answers[c] \in Seq(AnswerTo(Lines)) /\ Given(c) \subseteq AnswerTo(Lines)
BY DEF RpcShape, Given

(* A step that answers nothing.                                             *)
LEMMA SilentMove ==
    ASSUME NEW Lines, RpcInv(Lines), NEW c \in Connections, NEW i, NEW v \in Stages \ {"sent"}, Advances(c, i, v),
           UNCHANGED <<answers, nextCorrelation, saved>>,
           serving' \in [Connections -> {"open", "deaf", "ended"}],
           \A d \in Connections : serving'[d] = "open" => serving[d] = "open",
           IF v = "done" THEN ~IsAsked(c, i) ELSE IsAsked(c, i), v = "creating" => ~saved
    PROVE  RpcInv(Lines)'
<1>1. RpcShape(Lines) BY DEF RpcInv
<1>2. /\ stage' \in [Connections -> Seq(Stages)] /\ stage'[c][i] = v
      /\ \A d \in Connections : Len(stage'[d]) = Len(frames'[d]) /\ Indices(d)' = Indices(d)
      /\ \A d \in Connections : \A j \in Indices(d) : <<d, j>> # <<c, i>> => stage'[d][j] = stage[d][j]
  BY <1>1, Moved
<1>3. transport' = transport /\ frames' = frames /\ i \in Indices(c) /\ stage[c][i] # "done" BY DEF Advances
<1>4. RpcShape(Lines)' BY <1>1, <1>2, <1>3 DEF RpcShape
<1>5. OrderInv' /\ AskedInv' BY MoveKeepsOrder
<1>6. AnswerInv'
  <2> SUFFICES ASSUME NEW d \in Connections
               PROVE  /\ \A a \in Given(d)' : GoodAnswer(d, a)'
                      /\ OneEach(d)' /\ (Sequential' => InTurn(d)')
                      /\ serving'[d] = "open" =>
                           \A j \in Indices(d)' : stage'[d][j] = "done" /\ IsAsked(d, j)' => j \in Answered(d)'
    BY DEF AnswerInv
  <2>1. Given(d)' = Given(d) /\ (OneEach(d)' <=> OneEach(d)) /\ (InTurn(d)' <=> InTurn(d)) /\ (Sequential' <=> Sequential)
        /\ Answered(d)' = Answered(d)
    BY <1>3 DEF Given, OneEach, InTurn, Sequential, Answered
  <2>2. ASSUME NEW a \in Given(d) PROVE GoodAnswer(d, a)'
    <3>1. a \in AnswerTo(Lines) /\ GoodAnswer(d, a) BY <1>1, GivenTypes DEF RpcInv, AnswerInv
    <3>2. a.frame \in Indices(d) /\ stage[d][a.frame] = "done" BY <3>1 DEF GoodAnswer
    <3>3. <<d, a.frame>> # <<c, i>> BY <3>2, <1>3
    <3>4. stage'[d][a.frame] = "done" BY <3>2, <3>3, <1>2
    <3>5. nextCorrelation' \in Nat /\ nextCorrelation <= nextCorrelation' BY <1>1 DEF RpcShape
    <3> QED BY <3>1, <3>2, <3>4, <3>5, <1>1, <1>3, GoodStays DEF Indices
  <2>3. ASSUME serving'[d] = "open", NEW j \in Indices(d), stage'[d][j] = "done", IsAsked(d, j)'
        PROVE j \in Answered(d)
    <3>1. IsAsked(d, j) BY <2>3, <1>3 DEF IsAsked, Sent
    <3>2. <<d, j>> # <<c, i>> BY <3>1, <2>3, <1>2
    <3>3. stage[d][j] = "done" BY <3>2, <2>3, <1>2
    <3> QED BY <3>1, <3>3, <2>3 DEF RpcInv, AnswerInv
  <2> QED BY <2>1, <2>2, <2>3, <1>2 DEF RpcInv, AnswerInv
<1>7. CorrelationInv' BY DEF RpcInv, CorrelationInv
<1> QED BY <1>4, <1>5, <1>6, <1>7 DEF RpcInv

(* A step that answers: a is what the client is written if it listens.      *)
Writes(c, a) == answers' = IF serving[c] = "open" THEN [answers EXCEPT ![c] = Append(@, a)] ELSE answers

Numbered(a) ==   \* an error of the broker takes the next correlation id
    \/ a.correlation = NoCorrelation /\ a.why \notin Traced /\ nextCorrelation' = nextCorrelation
    \/ a.correlation = nextCorrelation /\ nextCorrelation' = nextCorrelation + 1

LEMMA Written1 ==
    ASSUME NEW Lines, RpcShape(Lines), NEW c \in Connections, serving[c] = "open", NEW a \in AnswerTo(Lines), Writes(c, a)
    PROVE  LET n == Len(answers[c]) + 1 IN
           /\ answers' \in [Connections -> Seq(AnswerTo(Lines))]
           /\ \A d \in Connections : d # c => answers'[d] = answers[d]
           /\ DOMAIN answers'[c] = 1 .. n /\ DOMAIN answers[c] = 1 .. n - 1 /\ n \in Nat \ {0} /\ answers'[c][n] = a
           /\ \A m \in DOMAIN answers[c] : answers'[c][m] = answers[c][m]
<1>1. answers[c] \in Seq(AnswerTo(Lines)) /\ answers' = [answers EXCEPT ![c] = Append(answers[c], a)]
  BY DEF RpcShape, Writes
<1>2. Append(answers[c], a) \in Seq(AnswerTo(Lines)) BY <1>1
<1>3. answers' \in [Connections -> Seq(AnswerTo(Lines))] /\ answers'[c] = Append(answers[c], a)
      /\ \A d \in Connections : d # c => answers'[d] = answers[d]
  BY <1>1, <1>2 DEF RpcShape
<1> QED BY <1>1, <1>2, <1>3

LEMMA AnsweringMove ==
    ASSUME NEW Lines, RpcInv(Lines), NEW c \in Connections, NEW i, Advances(c, i, "done"),
           NEW a \in AnswerTo(Lines), Writes(c, a), Numbered(a), UNCHANGED serving, saved' \in BOOLEAN,
           a.frame = i, a.id = Sent(c, i).id, IsAsked(c, i) \/ (Sequential /\ a.code = PARSE_ERROR),
           a.why = "refused" => ~AsOffered(Sent(c, i)), a.why = "exists" => ~Sequential,
           Sequential /\ saved' => saved \/ stage[c][i] # "sent"
    PROVE  RpcInv(Lines)'
<1>1. RpcShape(Lines) BY DEF RpcInv
<1>2. /\ stage' \in [Connections -> Seq(Stages)] /\ stage'[c][i] = "done"
      /\ \A d \in Connections : Len(stage'[d]) = Len(frames'[d]) /\ Indices(d)' = Indices(d)
      /\ \A d \in Connections : \A j \in Indices(d) : <<d, j>> # <<c, i>> => stage'[d][j] = stage[d][j]
  BY <1>1, Moved DEF Stages
<1>3. transport' = transport /\ frames' = frames /\ i \in Indices(c) /\ stage[c][i] # "done" BY DEF Advances
<1>4. nextCorrelation \in Nat /\ nextCorrelation' \in Nat /\ nextCorrelation <= nextCorrelation' /\ nextCorrelation' > NoCorrelation
      /\ a.correlation < nextCorrelation'
  BY <1>1 DEF RpcShape, Numbered, NoCorrelation
<1>5. OrderInv' /\ AskedInv' BY MoveKeepsOrder DEF Stages
<1>6. (Sequential' <=> Sequential) /\ \A d \in Connections : \A j : (IsAsked(d, j)' <=> IsAsked(d, j)) /\ Sent(d, j)' = Sent(d, j)
  BY <1>3 DEF Sequential, IsAsked, Sent
<1>7. ASSUME NEW d \in Connections, NEW b \in Given(d)
      PROVE GoodAnswer(d, b)' /\ b.frame \in Indices(d) /\ <<d, b.frame>> # <<c, i>>
  <2>1. b \in AnswerTo(Lines) /\ GoodAnswer(d, b) BY <1>1, GivenTypes DEF RpcInv, AnswerInv
  <2>2. b.frame \in Indices(d) /\ stage[d][b.frame] = "done" BY <2>1 DEF GoodAnswer
  <2>3. <<d, b.frame>> # <<c, i>> BY <2>2, <1>3
  <2>4. stage'[d][b.frame] = "done" BY <2>2, <2>3, <1>2
  <2> QED BY <2>1, <2>2, <2>3, <2>4, <1>1, <1>3, <1>4, GoodStays DEF Indices
<1>8. GoodAnswer(c, a)'
  <2>1. i \in Indices(c)' /\ Sent(c, i)' = Sent(c, i) BY <1>2, <1>3, <1>6
  <2>2. IsAsked(c, i)' \/ (Sequential' /\ a.code = PARSE_ERROR) BY <1>6
  <2>3. a.why \in Traced => a.correlation # NoCorrelation BY <1>1 DEF Numbered, RpcShape, NoCorrelation
  <2> QED BY <2>1, <2>2, <2>3, <1>2, <1>4, <1>6 DEF GoodAnswer
<1>9. CASE serving[c] # "open"
  <2>1. answers' = answers BY <1>9 DEF Writes
  <2>2. RpcShape(Lines)' BY <2>1, <1>1, <1>2, <1>3, <1>4 DEF RpcShape
  <2>3. AnswerInv'
    <3> SUFFICES ASSUME NEW d \in Connections
                 PROVE  /\ \A b \in Given(d)' : GoodAnswer(d, b)'
                        /\ OneEach(d)' /\ (Sequential' => InTurn(d)')
                        /\ serving'[d] = "open" =>
                             \A j \in Indices(d)' : stage'[d][j] = "done" /\ IsAsked(d, j)' => j \in Answered(d)'
      BY DEF AnswerInv
    <3>1. Given(d)' = Given(d) /\ (OneEach(d)' <=> OneEach(d)) /\ (InTurn(d)' <=> InTurn(d)) /\ Answered(d)' = Answered(d)
      BY <2>1 DEF Given, OneEach, InTurn, Answered
    <3>2. ASSUME serving'[d] = "open", NEW j \in Indices(d), stage'[d][j] = "done", IsAsked(d, j)
          PROVE j \in Answered(d)
      <4>1. d # c BY <3>2, <1>9
      <4>2. stage[d][j] = "done" BY <4>1, <3>2, <1>2
      <4> QED BY <4>2, <3>2 DEF RpcInv, AnswerInv
    <3> QED BY <3>1, <3>2, <1>2, <1>6, <1>7 DEF RpcInv, AnswerInv
  <2>4. CorrelationInv' BY <2>1 DEF RpcInv, CorrelationInv
  <2> QED BY <2>2, <2>3, <2>4, <1>5 DEF RpcInv
<1>10. CASE serving[c] = "open"
  <2> DEFINE n == Len(answers[c]) + 1
  <2>1. /\ answers' \in [Connections -> Seq(AnswerTo(Lines))]
        /\ \A d \in Connections : d # c => answers'[d] = answers[d]
        /\ DOMAIN answers'[c] = 1 .. n /\ DOMAIN answers[c] = 1 .. n - 1 /\ n \in Nat \ {0} /\ answers'[c][n] = a
        /\ \A m \in DOMAIN answers[c] : answers'[c][m] = answers[c][m]
    BY <1>1, <1>10, Written1
  <2> HIDE DEF n
  <2>2. /\ \A m \in DOMAIN answers'[c] : m = n \/ m \in DOMAIN answers[c]
        /\ n \in DOMAIN answers'[c] /\ n \notin DOMAIN answers[c]
        /\ \A m \in DOMAIN answers[c] : m \in DOMAIN answers'[c] /\ m < n /\ m \in Nat
    BY <2>1
  <2>3. RpcShape(Lines)' BY <2>1, <1>1, <1>2, <1>3, <1>4 DEF RpcShape
  <2>4. AnswerInv'
    <3> SUFFICES ASSUME NEW d \in Connections
                 PROVE  /\ \A b \in Given(d)' : GoodAnswer(d, b)'
                        /\ OneEach(d)' /\ (Sequential' => InTurn(d)')
                        /\ serving'[d] = "open" =>
                             \A j \in Indices(d)' : stage'[d][j] = "done" /\ IsAsked(d, j)' => j \in Answered(d)'
      BY DEF AnswerInv
    <3>1. CASE d # c
      <4>1. Given(d)' = Given(d) /\ (OneEach(d)' <=> OneEach(d)) /\ (InTurn(d)' <=> InTurn(d)) /\ Answered(d)' = Answered(d)
        BY <3>1, <2>1 DEF Given, OneEach, InTurn, Answered
      <4>2. ASSUME serving'[d] = "open", NEW j \in Indices(d), stage'[d][j] = "done", IsAsked(d, j)
            PROVE j \in Answered(d)
        BY <3>1, <4>2, <1>2 DEF RpcInv, AnswerInv
      <4> QED BY <4>1, <4>2, <1>2, <1>6, <1>7 DEF RpcInv, AnswerInv
    <3>2. CASE d = c
      <4>1. \A b \in Given(c)' : b = a \/ b \in Given(c) BY <2>1, <2>2 DEF Given
      <4>2. \A b \in Given(c)' : GoodAnswer(c, b)' BY <4>1, <1>7, <1>8
      <4>3. \A m \in DOMAIN answers[c] : answers[c][m].frame \in Indices(c) /\ answers[c][m].frame # i
        BY <1>7 DEF Given
      <4>4. OneEach(c) /\ (Sequential => InTurn(c)) BY DEF RpcInv, AnswerInv
      <4>5. OneEach(c)' BY <4>3, <4>4, <2>1, <2>2 DEF OneEach
      <4>6. ASSUME Sequential PROVE InTurn(c)'
        <5>1. ASSUME NEW m \in DOMAIN answers[c] PROVE answers[c][m].frame < i
          <6>1. /\ stage[c][answers[c][m].frame] = "done" /\ answers[c][m].frame \in Indices(c)
                /\ answers[c][m].frame # i
            BY <4>3 DEF RpcInv, AnswerInv, GoodAnswer, Given
          <6>2. Indices(c) \subseteq Nat /\ Indices(c) = 1 .. Len(frames[c]) BY <1>1 DEF RpcShape, Indices
          <6>3. CASE i < answers[c][m].frame
            <7>1. stage[c][i] = "done" BY <6>1, <6>3, <1>3, <4>6 DEF RpcInv, OrderInv
            <7> QED BY <7>1, <1>3
          <6> QED BY <6>1, <6>2, <6>3, <1>3
        <5>2. ASSUME NEW l \in DOMAIN answers'[c], NEW m \in DOMAIN answers'[c], l < m
              PROVE  answers'[c][l].frame < answers'[c][m].frame
          <6>1. CASE m = n
            <7>1. l \in DOMAIN answers[c] BY <6>1, <2>1, <2>2, <5>2
            <7> QED BY <7>1, <6>1, <5>1, <2>1
          <6>2. CASE m # n
            <7>1. m \in DOMAIN answers[c] BY <6>2, <2>2
            <7>2. l \in DOMAIN answers[c] BY <7>1, <2>1, <2>2, <5>2
            <7> QED BY <7>1, <7>2, <5>2, <4>4, <4>6, <2>1 DEF InTurn
          <6> QED BY <6>1, <6>2
        <5> QED BY <5>2 DEF InTurn
      <4>7. Answered(c) \union {i} \subseteq Answered(c)' BY <2>1, <2>2 DEF Answered
      <4>8. ASSUME serving'[c] = "open", NEW j \in Indices(c), stage'[c][j] = "done", IsAsked(c, j)
            PROVE j \in Answered(c)'
        <5>1. CASE j = i BY <5>1, <4>7
        <5>2. CASE j # i
          <6>1. stage[c][j] = "done" BY <5>2, <4>8, <1>2
          <6>2. j \in Answered(c) BY <6>1, <4>8 DEF RpcInv, AnswerInv
          <6> QED BY <6>2, <4>7
        <5> QED BY <5>1, <5>2
      <4> QED BY <3>2, <4>2, <4>5, <4>6, <4>8, <1>2, <1>6
    <3> QED BY <3>1, <3>2
  <2>5. CorrelationInv'
    <3>1. \A d \in Connections : \A m \in DOMAIN answers[d] : answers[d][m].correlation < nextCorrelation
      BY DEF RpcInv, AnswerInv, GoodAnswer, Given
    <3>2. \A d \in Connections : \A m \in DOMAIN answers[d] :
            a.correlation # NoCorrelation => answers[d][m].correlation # a.correlation
      <4>1. \A d \in Connections : \A m \in DOMAIN answers[d] : answers[d][m].correlation \in Nat
        <5> SUFFICES ASSUME NEW d \in Connections, NEW m \in DOMAIN answers[d]
                     PROVE answers[d][m].correlation \in Nat OBVIOUS
        <5>1. answers[d][m] \in AnswerTo(Lines) BY <1>1, GivenTypes DEF Given
        <5> QED BY <5>1 DEF AnswerTo
      <4> QED BY <3>1, <4>1, <1>4 DEF Numbered
    <3>3. CorrelationInv BY DEF RpcInv
    <3>4. \A d \in Connections : \A m \in DOMAIN answers'[d] :
            \/ d = c /\ m = n /\ answers'[d][m] = a
            \/ m \in DOMAIN answers[d] /\ answers'[d][m] = answers[d][m]
      BY <2>1, <2>2
    <3> SUFFICES ASSUME NEW d \in Connections, NEW e \in Connections, NEW l \in DOMAIN answers'[d], NEW m \in DOMAIN answers'[e],
                        answers'[d][l].correlation # NoCorrelation, answers'[d][l].correlation = answers'[e][m].correlation
                 PROVE  d = e /\ l = m
      BY DEF CorrelationInv
    <3>5. CASE l \in DOMAIN answers[d] /\ answers'[d][l] = answers[d][l]
               /\ m \in DOMAIN answers[e] /\ answers'[e][m] = answers[e][m]
      BY <3>3, <3>5 DEF CorrelationInv
    <3>6. CASE d = c /\ l = n /\ answers'[d][l] = a BY <3>2, <3>4, <3>6
    <3>7. CASE e = c /\ m = n /\ answers'[e][m] = a BY <3>2, <3>4, <3>7
    <3> QED BY <3>4, <3>5, <3>6, <3>7
  <2> QED BY <2>3, <2>4, <2>5, <1>5 DEF RpcInv
<1> QED BY <1>9, <1>10

-----------------------------------------------------------------------------
(* Every action is one of the two.                                          *)
LEMMA NextMoves ==
    ASSUME NEW Lines, RpcInv(Lines), NEW c \in Connections, NEW i, IsNext(c, i), NEW v,
           stage' = [stage EXCEPT ![c][i] = v], UNCHANGED <<transport, frames>>
    PROVE  Advances(c, i, v) /\ Sent(c, i) \in Lines
<1>1. frames[c] \in Seq(Lines) /\ i \in DOMAIN frames[c] /\ stage[c][i] = "sent"
  BY DEF RpcInv, RpcShape, IsNext, Indices
<1>2. Sent(c, i) \in Lines BY <1>1 DEF Sent
<1> QED BY <1>1, <1>2 DEF Advances, IsNext, Indices

LEMMA RunningMoves ==
    ASSUME NEW Lines, RpcInv(Lines), NEW c \in Connections, NEW i \in Indices(c),
           stage[c][i] \in {"running", "creating", "retrying"}, NEW v,
           stage' = [stage EXCEPT ![c][i] = v], UNCHANGED <<transport, frames>>
    PROVE  Advances(c, i, v) /\ Sent(c, i) \in Lines /\ IsAsked(c, i)
<1>1. frames[c] \in Seq(Lines) BY DEF RpcInv, RpcShape
<1>2. Sent(c, i) \in Lines BY <1>1 DEF Sent, Indices
<1>3. IsAsked(c, i) BY DEF RpcInv, AskedInv
<1> QED BY <1>2, <1>3 DEF Advances

LEMMA AnswerKeepsIt ==
    ASSUME NEW Lines, RpcInv(Lines), NEW c \in Connections, NEW i, Advances(c, i, "done"), Sent(c, i) \in Lines,
           NEW id \in {Sent(c, i).id, NoId}, id = Sent(c, i).id,
           NEW code \in Int, NEW correlation \in {NoCorrelation, nextCorrelation},
           NEW why \in Whys, Answer(c, i, id, code, correlation, why),
           IF correlation = NoCorrelation THEN why \notin Traced /\ nextCorrelation' = nextCorrelation
           ELSE nextCorrelation' = nextCorrelation + 1,
           UNCHANGED serving, saved' \in BOOLEAN, IsAsked(c, i) \/ (Sequential /\ code = PARSE_ERROR),
           why = "refused" => ~AsOffered(Sent(c, i)), why = "exists" => ~Sequential,
           Sequential /\ saved' => saved \/ stage[c][i] # "sent"
    PROVE  RpcInv(Lines)'
<1>1. RpcShape(Lines) BY DEF RpcInv
<1>2. i \in Nat BY <1>1 DEF RpcShape, Advances, Indices
<1>3. correlation \in Nat BY <1>1 DEF RpcShape, NoCorrelation
<1>4. id \in {line.id : line \in Lines} \union {NoId} OBVIOUS
<1>5. PICK a \in AnswerTo(Lines) : a = [frame |-> i, id |-> id, code |-> code, correlation |-> correlation, why |-> why]
  BY <1>2, <1>3, <1>4 DEF AnswerTo
<1>6. a.frame = i /\ a.id = id /\ a.code = code /\ a.correlation = correlation /\ a.why = why BY <1>5
<1>7. Writes(c, a) BY <1>5 DEF Answer, Writes
<1>8. Numbered(a) BY <1>6 DEF Numbered
<1> QED BY <1>6, <1>7, <1>8, AnsweringMove

LEMMA PipeKeepsIt ==
    ASSUME NEW Lines, \A line \in Lines : IsLine(line), RpcInv(Lines), NEW c \in Connections, NEW i, ServePipe(c, i)
    PROVE  RpcInv(Lines)'
<1>1. /\ IsNext(c, i) /\ Sent(c, i).kind # "request" /\ stage' = [stage EXCEPT ![c][i] = "done"]
      /\ UNCHANGED <<transport, frames, nextCorrelation, saved>>
      /\ serving' = IF Sequential /\ Sent(c, i).kind = "unreadable" THEN [serving EXCEPT ![c] = "ended"] ELSE serving
  BY DEF ServePipe, EndStage
<1>2. Advances(c, i, "done") /\ Sent(c, i) \in Lines BY <1>1, NextMoves
<1>3. ~IsAsked(c, i) BY <1>1 DEF IsAsked
<1>4. serving \in [Connections -> {"open", "deaf", "ended"}] /\ saved \in BOOLEAN BY DEF RpcInv, RpcShape
<1>5. CASE Sequential /\ Sent(c, i).kind = "garbled"
  <2>1. Answer(c, i, NoId, PARSE_ERROR, NoCorrelation, "refused") BY <1>5 DEF ServePipe
  <2>2. serving' = serving BY <1>1, <1>5
  <2>3. IsLine(Sent(c, i)) BY <1>2
  <2>4. Sent(c, i).id = NoId /\ Sent(c, i).call = "none" BY <2>3, <1>1 DEF IsLine
  <2>5. ~AsOffered(Sent(c, i)) BY <2>4, NoneIsNoTool DEF AsOffered
  <2>6. PARSE_ERROR \in Int BY DEF PARSE_ERROR
  <2>7. "refused" \notin Traced /\ "refused" # "exists" /\ "refused" \in Whys BY DEF Traced, Whys
  <2> QED BY <2>1, <2>2, <2>4, <2>5, <2>6, <2>7, <1>1, <1>2, <1>4, <1>5, AnswerKeepsIt
<1>6. CASE ~(Sequential /\ Sent(c, i).kind = "garbled")
  <2>1. answers' = answers BY <1>6 DEF ServePipe
  <2>2. /\ serving' \in [Connections -> {"open", "deaf", "ended"}]
        /\ \A d \in Connections : serving'[d] = "open" => serving[d] = "open"
    BY <1>1, <1>4
  <2> QED BY <2>1, <2>2, <1>1, <1>2, <1>3, SilentMove DEF Stages
<1> QED BY <1>5, <1>6

LEMMA NotifiedKeepsIt ==
    ASSUME NEW Lines, RpcInv(Lines), NEW c \in Connections, NEW i, Notified(c, i) PROVE RpcInv(Lines)'
<1>1. /\ IsNext(c, i) /\ Sent(c, i).id = NoId /\ stage' = [stage EXCEPT ![c][i] = "done"]
      /\ UNCHANGED <<transport, frames, serving, answers, nextCorrelation, saved>>
  BY DEF Notified, EndStage
<1>2. Advances(c, i, "done") BY <1>1, NextMoves
<1>3. ~IsAsked(c, i) BY <1>1 DEF IsAsked
<1>4. serving \in [Connections -> {"open", "deaf", "ended"}] BY DEF RpcInv, RpcShape
<1> QED BY <1>1, <1>2, <1>3, <1>4, SilentMove DEF Stages

LEMMA StartKeepsIt ==
    ASSUME NEW Lines, RpcInv(Lines), NEW c \in Connections, NEW i, IsRequest(c, i), Start(c, i)
    PROVE RpcInv(Lines)'
<1>1. /\ IsNext(c, i) /\ stage' = [stage EXCEPT ![c][i] = "running"]
      /\ UNCHANGED <<transport, frames, serving, answers, nextCorrelation, saved>>
  BY DEF IsRequest, Start
<1>2. Advances(c, i, "running") BY <1>1, NextMoves
<1>3. IsAsked(c, i) BY DEF IsRequest, IsAsked
<1>4. serving \in [Connections -> {"open", "deaf", "ended"}] BY DEF RpcInv, RpcShape
<1> QED BY <1>1, <1>2, <1>3, <1>4, SilentMove DEF Stages

LEMMA AtOnceKeepsIt ==
    ASSUME NEW Lines, RpcInv(Lines), NEW c \in Connections, NEW i, IsRequest(c, i),
           NEW code \in Int, NEW why \in {"done", "refused"},
           AnswerAtOnce(c, i, code, why), why = "refused" => ~AsOffered(Sent(c, i))
    PROVE  RpcInv(Lines)'
<1>1. /\ IsNext(c, i) /\ stage' = [stage EXCEPT ![c][i] = "done"]
      /\ UNCHANGED <<transport, frames, serving, nextCorrelation, saved>>
      /\ Answer(c, i, Sent(c, i).id, code, NoCorrelation, why)
  BY DEF IsRequest, AnswerAtOnce, EndStage
<1>2. Advances(c, i, "done") /\ Sent(c, i) \in Lines BY <1>1, NextMoves
<1>3. IsAsked(c, i) BY DEF IsRequest, IsAsked
<1>4. saved \in BOOLEAN BY DEF RpcInv, RpcShape
<1>5. why \notin Traced /\ why # "exists" /\ why \in Whys BY DEF Traced, Whys
<1> QED BY <1>1, <1>2, <1>3, <1>4, <1>5, AnswerKeepsIt

LEMMA CallKeepsIt ==
    ASSUME NEW Lines, \A line \in Lines : IsLine(line), RpcInv(Lines), NEW c \in Connections, NEW i,
           \/ handle_initialize(c, i) \/ handle_tools_list(c, i) \/ MethodNotFound(c, i)
           \/ handle_resources_list(c, i) \/ handle_resources_read(c, i) \/ handle_tools_call(c, i)
    PROVE  RpcInv(Lines)'
<1>1. IsRequest(c, i)
  BY DEF handle_initialize, handle_tools_list, MethodNotFound, handle_resources_list, handle_resources_read,
     handle_tools_call
<1>2. IsLine(Sent(c, i))
  <2>1. frames[c] \in Seq(Lines) /\ i \in DOMAIN frames[c]
    BY <1>1 DEF RpcInv, RpcShape, IsRequest, IsNext, Indices
  <2>2. frames[c][i] \in Lines BY <2>1
  <2> QED BY <2>2 DEF Sent
<1>3. Sent(c, i).method # "tools/call" \/ Sent(c, i).call = "none" => ~AsOffered(Sent(c, i))
  BY <1>2, NoneIsNoTool DEF IsLine, AsOffered
<1>4. Success \in Int /\ METHOD_NOT_FOUND \in Int /\ INVALID_PARAMS \in Int /\ INTERNAL_ERROR \in Int
  BY DEF Success, METHOD_NOT_FOUND, INVALID_PARAMS, INTERNAL_ERROR
<1>5. CASE handle_initialize(c, i) \/ handle_tools_list(c, i)
  <2>1. AnswerAtOnce(c, i, Success, "done") BY <1>5 DEF handle_initialize, handle_tools_list
  <2> QED BY <2>1, <1>1, <1>4, AtOnceKeepsIt
<1>6. CASE MethodNotFound(c, i)
  <2>1. AnswerAtOnce(c, i, METHOD_NOT_FOUND, "refused") /\ Sent(c, i).method # "tools/call"
    BY <1>6 DEF MethodNotFound
  <2> QED BY <2>1, <1>1, <1>3, <1>4, AtOnceKeepsIt
<1>7. CASE handle_resources_list(c, i) \/ handle_resources_read(c, i)
  <2>1. /\ Start(c, i) \/ AnswerAtOnce(c, i, INVALID_PARAMS, "refused")
        /\ Sent(c, i).method # "tools/call"
    BY <1>7 DEF handle_resources_list, handle_resources_read
  <2> QED BY <2>1, <1>1, <1>3, <1>4, AtOnceKeepsIt, StartKeepsIt
<1>8. CASE handle_tools_call(c, i)
  <2> DEFINE req == Sent(c, i)
  <2>1. CASE req.call = "none"
    <3>1. AnswerAtOnce(c, i, INVALID_PARAMS, "refused") BY <1>8, <2>1 DEF handle_tools_call
    <3> QED BY <3>1, <2>1, <1>1, <1>3, <1>4, AtOnceKeepsIt
  <2>2. CASE req.call # "none" /\ (\E need \in Needs : need[1] = req.call /\ need[2] \subseteq req.given) /\ req.odd = {}
    <3>1. Start(c, i) BY <1>8, <2>2 DEF handle_tools_call
    <3> QED BY <3>1, <1>1, StartKeepsIt
  <2>3. CASE req.call # "none" /\ ~((\E need \in Needs : need[1] = req.call /\ need[2] \subseteq req.given) /\ req.odd = {})
    <3>1. AnswerAtOnce(c, i, INTERNAL_ERROR, "refused") BY <1>8, <2>3 DEF handle_tools_call
    <3>2. ~AsOffered(req)
      <4> SUFFICES ASSUME AsOffered(req) PROVE FALSE OBVIOUS
      <4>1. PICK offer \in tool_definitions : offer[1] = req.call /\ offer[2] \subseteq req.given
        BY DEF AsOffered
      <4>2. PICK need \in Needs : need[1] = offer[1] /\ need[2] \subseteq offer[2] BY ToolsAreServed DEF Serves
      <4>3. req.odd = {} BY DEF AsOffered
      <4> QED BY <4>1, <4>2, <4>3, <2>3
    <3> QED BY <3>1, <3>2, <1>1, <1>4, AtOnceKeepsIt
  <2> QED BY <2>1, <2>2, <2>3
<1> QED BY <1>5, <1>6, <1>7, <1>8

-----------------------------------------------------------------------------
(* What the broker answers.                                                 *)
LEMMA ReplyKeepsIt ==
    ASSUME NEW Lines, RpcInv(Lines), NEW c \in Connections, NEW i \in Indices(c),
           stage[c][i] \in {"running", "creating", "retrying"}, NEW code \in Int, NEW correlation, NEW why \in Whys \ {"refused"},
           IF code = Success THEN correlation = NoCorrelation /\ why \notin Traced ELSE correlation = nextCorrelation,
           Reply(c, i, code, correlation, why), why = "exists" => ~Sequential, saved' \in BOOLEAN,
           Sequential /\ saved' => saved \/ stage[c][i] # "sent"
    PROVE  RpcInv(Lines)'
<1>1. /\ stage' = [stage EXCEPT ![c][i] = "done"] /\ UNCHANGED <<transport, frames, serving>>
      /\ Answer(c, i, Sent(c, i).id, code, correlation, why)
      /\ nextCorrelation' = IF code = Success THEN nextCorrelation ELSE nextCorrelation + 1
  BY DEF Reply, EndStage
<1>2. Advances(c, i, "done") /\ Sent(c, i) \in Lines /\ IsAsked(c, i) BY <1>1, RunningMoves
<1>3. nextCorrelation # NoCorrelation BY DEF RpcInv, RpcShape, NoCorrelation
<1> QED BY <1>1, <1>2, <1>3, AnswerKeepsIt

LEMMA CodesAreInt == {Success, METHOD_NOT_FOUND, INVALID_PARAMS, INTERNAL_ERROR} \subseteq Int
                     /\ INVALID_PARAMS # Success /\ INTERNAL_ERROR # Success
BY DEF Success, METHOD_NOT_FOUND, INVALID_PARAMS, INTERNAL_ERROR

LEMMA BrokerKeepsIt ==
    ASSUME NEW Lines, RpcInv(Lines), NEW c \in Connections, NEW i \in Indices(c),
           BrokerAnswers(c, i) \/ (\E why \in ErrorKinds : BrokerFails(c, i, why)) \/ DeletesDoc(c, i)
    PROVE  RpcInv(Lines)'
<1>1. stage[c][i] = "running" BY DEF BrokerAnswers, BrokerFails, DeletesDoc, IsRunning
<1>2. saved \in BOOLEAN BY DEF RpcInv, RpcShape
<1>3. {"done", "failed", "missing"} \subseteq Whys \ {"refused", "exists"} /\ "done" \notin Traced
  BY DEF Whys, Traced
<1>4. CASE BrokerAnswers(c, i)
  <2>1. Reply(c, i, Success, NoCorrelation, "done") /\ saved' = saved BY <1>4 DEF BrokerAnswers
  <2> QED BY <2>1, <1>1, <1>2, <1>3, CodesAreInt, ReplyKeepsIt
<1>5. ASSUME NEW why \in ErrorKinds, BrokerFails(c, i, why) PROVE RpcInv(Lines)'
  <2>1. PICK code \in {INVALID_PARAMS, INTERNAL_ERROR} : Reply(c, i, code, nextCorrelation, "failed")
    BY <1>5 DEF BrokerFails, public_error_message
  <2>2. saved' = saved BY <1>5 DEF BrokerFails
  <2> QED BY <2>1, <2>2, <1>1, <1>2, <1>3, CodesAreInt, ReplyKeepsIt
<1>6. CASE DeletesDoc(c, i)
  <2>1. /\ saved' = FALSE
        /\ \/ Reply(c, i, Success, NoCorrelation, "done")
           \/ Reply(c, i, INTERNAL_ERROR, nextCorrelation, "missing")
    BY <1>6 DEF DeletesDoc
  <2> QED BY <2>1, <1>1, <1>2, <1>3, CodesAreInt, ReplyKeepsIt
<1> QED BY <1>4, <1>5, <1>6

LEMMA UpdateKeepsIt ==
    ASSUME NEW Lines, RpcInv(Lines), NEW c \in Connections, NEW i \in Indices(c), SaveUpdates(c, i)
    PROVE RpcInv(Lines)'
<1>1. stage[c][i] = "running" /\ saved' = saved BY DEF SaveUpdates, IsRunning
<1>2. saved \in BOOLEAN /\ serving \in [Connections -> {"open", "deaf", "ended"}] BY DEF RpcInv, RpcShape
<1>3. "done" \in Whys \ {"refused", "exists"} /\ "done" \notin Traced BY DEF Whys, Traced
<1>4. CASE Reply(c, i, Success, NoCorrelation, "done")
  BY <1>1, <1>2, <1>3, <1>4, CodesAreInt, ReplyKeepsIt
<1>5. CASE /\ stage' = [stage EXCEPT ![c][i] = IF saved THEN "retrying" ELSE "creating"]
           /\ UNCHANGED <<transport, frames, serving, answers, nextCorrelation>>
  <2>1. PICK v \in {"retrying", "creating"} : v = IF saved THEN "retrying" ELSE "creating" OBVIOUS
  <2>2. Advances(c, i, v) /\ IsAsked(c, i) BY <2>1, <1>1, <1>5, RunningMoves
  <2>3. v \in Stages \ {"sent"} /\ v # "done" /\ (v = "creating" => ~saved) BY <2>1 DEF Stages
  <2> QED BY <2>2, <2>3, <1>1, <1>2, <1>5, SilentMove
<1> QED BY <1>4, <1>5 DEF SaveUpdates

LEMMA CreateKeepsIt ==
    ASSUME NEW Lines, RpcInv(Lines), NEW c \in Connections, NEW i \in Indices(c), SaveCreates(c, i)
    PROVE RpcInv(Lines)'
<1>1. stage[c][i] \in {"creating", "retrying"} BY DEF SaveCreates
<1>2. saved \in BOOLEAN BY DEF RpcInv, RpcShape
<1>3. Sequential /\ stage[c][i] = "creating" => ~saved BY DEF RpcInv, OrderInv
<1>4. /\ {"created", "exists", "masked", "failed"} \subseteq Whys \ {"refused"} /\ "created" \notin Traced
      /\ "created" # "exists" /\ "masked" # "exists" /\ "failed" # "exists"
  BY DEF Whys, Traced
<1>5. CASE ~saved /\ saved' = TRUE /\ Reply(c, i, Success, NoCorrelation, "created")
  BY <1>1, <1>4, <1>5, CodesAreInt, ReplyKeepsIt
<1>6. CASE /\ saved /\ UNCHANGED saved
           /\ Reply(c, i, INTERNAL_ERROR, nextCorrelation, IF stage[c][i] = "retrying" THEN "masked" ELSE "exists")
  <2>1. PICK why \in {"masked", "exists"} : why = IF stage[c][i] = "retrying" THEN "masked" ELSE "exists" OBVIOUS
  <2>2. why = "exists" => ~Sequential BY <2>1, <1>1, <1>3, <1>6
  <2>3. Reply(c, i, INTERNAL_ERROR, nextCorrelation, why) BY <2>1, <1>6
  <2> QED BY <2>1, <2>2, <2>3, <1>1, <1>2, <1>4, <1>6, CodesAreInt, ReplyKeepsIt
<1>7. CASE UNCHANGED saved /\ Reply(c, i, INTERNAL_ERROR, nextCorrelation, "failed")
  BY <1>1, <1>2, <1>4, <1>7, CodesAreInt, ReplyKeepsIt
<1> QED BY <1>5, <1>6, <1>7 DEF SaveCreates

-----------------------------------------------------------------------------
(* What the clients do.                                                     *)

LEMMA WriteKeepsIt ==
    ASSUME NEW Lines, RpcInv(Lines), NEW c \in Connections, NEW line \in Lines, WriteFrame(c, line)
    PROVE RpcInv(Lines)'
<1>1. /\ UNCHANGED <<transport, serving, answers, nextCorrelation, saved>>
      /\ Sequential => \A d \in Connections \ {c} : Indices(d) = {}
      /\ frames' = [frames EXCEPT ![c] = Append(frames[c], line)] /\ stage' = [stage EXCEPT ![c] = Append(stage[c], "sent")]
  BY DEF WriteFrame
<1>2. RpcShape(Lines) BY DEF RpcInv
<1>3. frames[c] \in Seq(Lines) /\ stage[c] \in Seq(Stages) /\ Len(stage[c]) = Len(frames[c]) /\ "sent" \in Stages
  BY <1>2 DEF RpcShape, Stages
<1> DEFINE n == Len(frames[c]) + 1
<1>4. /\ Append(frames[c], line) \in Seq(Lines) /\ Append(stage[c], "sent") \in Seq(Stages)
      /\ Len(Append(frames[c], line)) = n /\ Len(Append(stage[c], "sent")) = n /\ Append(stage[c], "sent")[n] = "sent"
      /\ \A i \in DOMAIN frames[c] : /\ i \in DOMAIN Append(frames[c], line) /\ Append(frames[c], line)[i] = frames[c][i]
                                     /\ Append(stage[c], "sent")[i] = stage[c][i]
      /\ \A i \in DOMAIN Append(frames[c], line) : i = n \/ i \in DOMAIN frames[c]
      /\ \A i \in DOMAIN frames[c] : i \in Nat /\ i < n
      /\ n \in Nat /\ \A d \in Connections : DOMAIN frames[d] \subseteq Nat
  BY <1>2, <1>3 DEF RpcShape
<1>5. /\ frames' \in [Connections -> Seq(Lines)] /\ stage' \in [Connections -> Seq(Stages)]
      /\ frames'[c] = Append(frames[c], line) /\ stage'[c] = Append(stage[c], "sent")
      /\ \A d \in Connections : d # c => frames'[d] = frames[d] /\ stage'[d] = stage[d]
  BY <1>1, <1>2, <1>4 DEF RpcShape
<1>6. \A d \in Connections : Len(stage'[d]) = Len(frames'[d]) BY <1>2, <1>4, <1>5 DEF RpcShape
<1>7. RpcShape(Lines)' BY <1>1, <1>2, <1>5, <1>6 DEF RpcShape
<1> HIDE DEF n
<1>8. \A d \in Connections : \A i \in Indices(d) :
        i \in Indices(d)' /\ Sent(d, i)' = Sent(d, i) /\ stage'[d][i] = stage[d][i] /\ (IsAsked(d, i)' <=> IsAsked(d, i))
  BY <1>4, <1>5 DEF Indices, Sent, IsAsked
<1>9. \A d \in Connections : \A i \in Indices(d)' : i \in Indices(d) \/ (d = c /\ i = n /\ stage'[d][i] = "sent")
  BY <1>4, <1>5 DEF Indices
<1>10. AskedInv' BY <1>8, <1>9 DEF RpcInv, AskedInv
<1>11. OrderInv'
  <2> SUFFICES ASSUME Sequential
               PROVE  /\ \A d, e \in Connections : d = e \/ Indices(d)' = {} \/ Indices(e)' = {}
                      /\ \A d \in Connections : \A i, j \in Indices(d)' : i < j /\ stage'[d][j] # "sent" => stage'[d][i] = "done"
                      /\ \A d \in Connections : \A i \in Indices(d)' : stage'[d][i] = "creating" => ~saved'
    BY <1>1 DEF OrderInv, Sequential
  <2>1. \A d \in Connections : d # c => Indices(d)' = {} BY <1>1, <1>5 DEF Indices
  <2>2. \A d \in Connections : \A i, j \in Indices(d) : i < j /\ stage[d][j] # "sent" => stage[d][i] = "done"
    BY DEF RpcInv, OrderInv
  <2>3. ASSUME NEW d \in Connections, NEW i \in Indices(d)', NEW j \in Indices(d)', i < j, stage'[d][j] # "sent"
        PROVE  stage'[d][i] = "done"
    <3>1. d = c BY <2>1, <2>3
    <3>2. j \in Indices(d) BY <1>9, <2>3
    <3>3. i \in Indices(d)
      <4>1. j < n /\ j \in Nat /\ n \in Nat BY <3>1, <3>2, <1>4 DEF Indices
      <4>2. i # n BY <4>1, <2>3
      <4> QED BY <4>2, <1>9
    <3> QED BY <3>2, <3>3, <1>8, <2>2, <2>3
  <2>4. \A d \in Connections : \A i \in Indices(d)' : stage'[d][i] = "creating" => ~saved'
    <3>1. \A d \in Connections : \A i \in Indices(d) : stage[d][i] = "creating" => ~saved
      BY DEF RpcInv, OrderInv
    <3>2. saved' = saved BY <1>1
    <3>3. ASSUME NEW d \in Connections, NEW i \in Indices(d)', stage'[d][i] = "creating" PROVE i \in Indices(d)
      BY <1>9, <3>3
    <3> QED BY <3>1, <3>2, <3>3, <1>8
  <2> QED BY <2>1, <2>3, <2>4
<1>12. AnswerInv'
  <2> SUFFICES ASSUME NEW d \in Connections
               PROVE  /\ \A a \in Given(d)' : GoodAnswer(d, a)'
                      /\ OneEach(d)' /\ (Sequential' => InTurn(d)')
                      /\ serving'[d] = "open" =>
                           \A j \in Indices(d)' : stage'[d][j] = "done" /\ IsAsked(d, j)' => j \in Answered(d)'
    BY DEF AnswerInv
  <2>1. Given(d)' = Given(d) /\ (OneEach(d)' <=> OneEach(d)) /\ (InTurn(d)' <=> InTurn(d)) /\ (Sequential' <=> Sequential)
        /\ Answered(d)' = Answered(d)
    BY <1>1 DEF Given, OneEach, InTurn, Sequential, Answered
  <2>2. ASSUME NEW a \in Given(d) PROVE GoodAnswer(d, a)'
    <3>1. a \in AnswerTo(Lines) /\ GoodAnswer(d, a) BY <1>2, GivenTypes DEF RpcInv, AnswerInv
    <3>2. a.frame \in Indices(d) /\ stage[d][a.frame] = "done" BY <3>1 DEF GoodAnswer
    <3>3. /\ a.frame \in DOMAIN frames'[d] /\ frames'[d][a.frame] = frames[d][a.frame] /\ stage'[d][a.frame] = "done"
      BY <3>2, <1>8 DEF Indices, Sent
    <3>4. nextCorrelation' \in Nat /\ nextCorrelation <= nextCorrelation' BY <1>1, <1>2 DEF RpcShape
    <3> QED BY <3>1, <3>3, <3>4, <1>1, <1>2, GoodStays
  <2>3. ASSUME serving'[d] = "open", NEW j \in Indices(d)', stage'[d][j] = "done", IsAsked(d, j)'
        PROVE j \in Answered(d)
    BY <2>3, <1>1, <1>8, <1>9 DEF RpcInv, AnswerInv
  <2> QED BY <2>1, <2>2, <2>3 DEF RpcInv, AnswerInv
<1>13. CorrelationInv' BY <1>1 DEF RpcInv, CorrelationInv
<1> QED BY <1>7, <1>10, <1>11, <1>12, <1>13 DEF RpcInv

LEMMA StutterKeepsIt ==   \* also of a client that hangs up
    ASSUME NEW Lines, RpcInv(Lines), UNCHANGED <<transport, frames, stage, answers, nextCorrelation, saved>>,
           serving' \in [Connections -> {"open", "deaf", "ended"}],
           \A d \in Connections : serving'[d] = "open" => serving[d] = "open"
    PROVE  RpcInv(Lines)'
<1>1. RpcShape(Lines)' BY DEF RpcInv, RpcShape
<1>2. OrderInv' /\ AskedInv' BY DEF RpcInv, OrderInv, AskedInv, Sequential, Indices, IsAsked, Sent
<1>3. AnswerInv'
  <2>1. \A d \in Connections : /\ Given(d)' = Given(d) /\ (OneEach(d)' <=> OneEach(d)) /\ (InTurn(d)' <=> InTurn(d))
                               /\ Answered(d)' = Answered(d) /\ Indices(d)' = Indices(d)
    BY DEF Given, OneEach, InTurn, Answered, Indices
  <2>2. \A d \in Connections : \A j : IsAsked(d, j)' <=> IsAsked(d, j) BY DEF IsAsked, Sent
  <2>3. Sequential' <=> Sequential BY DEF Sequential
  <2>4. \A d \in Connections : \A a \in Given(d) : GoodAnswer(d, a)'
    BY DEF RpcInv, AnswerInv, GoodAnswer, Indices, Sent, IsAsked, Sequential
  <2> QED BY <2>1, <2>2, <2>3, <2>4 DEF RpcInv, AnswerInv
<1>4. CorrelationInv' BY DEF RpcInv, CorrelationInv
<1> QED BY <1>1, <1>2, <1>3, <1>4 DEF RpcInv

LEMMA RpcStepKeepsIt ==
    ASSUME NEW script, NEW Lines, \A line \in Lines : IsLine(line), \A n \in DOMAIN script : script[n] \subseteq Lines,
           RpcInv(Lines), [RpcNext(script)]_rpcVars
    PROVE  RpcInv(Lines)'
<1>1. serving \in [Connections -> {"open", "deaf", "ended"}] BY DEF RpcInv, RpcShape
<1>2. ASSUME NEW c \in Connections, NEW i \in Indices(c), Serving(c, i) PROVE RpcInv(Lines)'
  BY <1>2, PipeKeepsIt, NotifiedKeepsIt, CallKeepsIt, BrokerKeepsIt, UpdateKeepsIt, CreateKeepsIt DEF Serving
<1>3. ASSUME NEW c \in Connections, HangUp(c) PROVE RpcInv(Lines)'
  <2>1. /\ UNCHANGED <<transport, frames, stage, answers, nextCorrelation, saved>> /\ serving' = [serving EXCEPT ![c] = "deaf"]
    BY <1>3 DEF HangUp
  <2>2. /\ serving' \in [Connections -> {"open", "deaf", "ended"}]
        /\ \A d \in Connections : serving'[d] = "open" => serving[d] = "open"
    BY <2>1, <1>1
  <2> QED BY <2>1, <2>2, StutterKeepsIt
<1>4. ASSUME NEW c \in Connections, NEW n \in DOMAIN script, NEW line \in script[n], WriteFrame(c, line)
      PROVE RpcInv(Lines)'
  BY <1>4, WriteKeepsIt
<1>5. CASE UNCHANGED rpcVars BY <1>1, <1>5, StutterKeepsIt DEF rpcVars
<1> QED BY <1>2, <1>3, <1>4, <1>5 DEF RpcNext

LEMMA RpcBegins == ASSUME NEW Lines, RpcInit PROVE RpcInv(Lines)
<1>1. /\ frames = [c \in Connections |-> <<>>] /\ stage = [c \in Connections |-> <<>>] /\ answers = [c \in Connections |-> <<>>]
      /\ serving = [c \in Connections |-> "open"] /\ nextCorrelation = 1 /\ saved \in BOOLEAN /\ transport \in Transports
  BY DEF RpcInit
<1>2. RpcShape(Lines) BY <1>1 DEF RpcShape, NoCorrelation
<1>3. \A c \in Connections : Indices(c) = {} /\ DOMAIN answers[c] = {} BY <1>1 DEF Indices
<1>4. OrderInv /\ AskedInv BY <1>3 DEF OrderInv, AskedInv
<1>5. AnswerInv BY <1>3 DEF AnswerInv, Given, OneEach, InTurn
<1>6. CorrelationInv BY <1>3 DEF CorrelationInv
<1> QED BY <1>2, <1>4, <1>5, <1>6 DEF RpcInv

-----------------------------------------------------------------------------
LEMMA AnsweredOnce ==
    ASSUME NEW Lines, RpcShape(Lines), NEW c \in Connections, OneEach(c)
    PROVE  Cardinality(Answered(c)) = Len(answers[c])
<1>1. answers[c] \in Seq(AnswerTo(Lines)) BY DEF RpcShape
<1>2. DOMAIN answers[c] = 1 .. Len(answers[c]) /\ Len(answers[c]) \in Nat BY <1>1
<1> DEFINE f == [n \in 1 .. Len(answers[c]) |-> answers[c][n].frame]
<1>3. f \in Bijection(1 .. Len(answers[c]), Answered(c))
  <2>1. f \in [1 .. Len(answers[c]) -> Answered(c)] BY <1>2 DEF Answered
  <2>2. \A m, n \in 1 .. Len(answers[c]) : f[m] = f[n] => m = n BY <1>2 DEF OneEach
  <2>3. \A i \in Answered(c) : \E n \in 1 .. Len(answers[c]) : f[n] = i BY <1>2 DEF Answered
  <2> HIDE DEF f
  <2> QED BY <2>1, <2>2, <2>3 DEF Bijection, Injection, IsInjective, Surjection
<1>4. ExistsBijection(1 .. Len(answers[c]), Answered(c)) BY <1>3 DEF ExistsBijection
<1>5. PICK m \in Nat : m = Len(answers[c]) BY <1>2
<1>6. IsFiniteSet(1 .. Len(answers[c])) /\ Cardinality(1 .. Len(answers[c])) = Len(answers[c])
  <2>1. IsFiniteSet(1 .. m) /\ Cardinality(1 .. m) = m BY FS_Interval
  <2> QED BY <1>5, <2>1
<1> QED BY <1>4, <1>6, FS_Bijection

LEMMA InvIsSound == ASSUME NEW Lines, RpcInv(Lines) PROVE AnswersAreSound
<1>1. RpcShape(Lines) /\ AnswerInv BY DEF RpcInv
<1>2. ASSUME NEW c \in Connections, NEW n \in DOMAIN answers[c] PROVE GoodAnswer(c, answers[c][n])
  BY <1>1 DEF AnswerInv, Given
<1>3. AnswersFit
  <2>1. \A c \in Connections : Cardinality(Answered(c)) = Len(answers[c]) BY <1>1, AnsweredOnce DEF AnswerInv
  <2> QED BY <2>1, <1>1, <1>2 DEF AnswersFit, AnswerInv, GoodAnswer, InTurn
<1>4. ErrorsAreTraceable BY <1>2 DEF ErrorsAreTraceable, RpcInv, CorrelationInv, GoodAnswer, Traced
<1>5. AdvertisedIsServed BY <1>2 DEF AdvertisedIsServed, GoodAnswer, AsOffered
<1>6. SaveIsUpsert BY <1>2 DEF SaveIsUpsert, GoodAnswer
<1> QED BY <1>3, <1>4, <1>5, <1>6 DEF AnswersAreSound

(* The front answers each request once, by its id, stdio in the order of    *)
(* the lines; an operator finds every error by its correlation id; what is  *)
(* called as tools/list says is not refused; docs.save creates or updates   *)
(* (dispatch in jsonrpc.rs, serve_pipe in stdio.rs, tool_definitions in     *)
(* tools.rs).  This holds for any number of clients and any script of       *)
(* frames, of which only a tools/call names a tool.                         *)
THEOREM AnswersAreAlwaysSound ==
    ASSUME NEW CONSTANT script, NEW CONSTANT Lines, \A line \in Lines : IsLine(line),
           \A n \in DOMAIN script : script[n] \subseteq Lines
    PROVE  RpcSpec(script) => []AnswersAreSound
<1>1. RpcInit => RpcInv(Lines) BY RpcBegins
<1>2. RpcInv(Lines) /\ [RpcNext(script)]_rpcVars => RpcInv(Lines)' BY RpcStepKeepsIt
<1>3. RpcInv(Lines) => AnswersAreSound BY InvIsSound
<1> QED BY <1>1, <1>2, <1>3, PTL DEF RpcSpec

(***************************************************************************)
(* The memory engine, for any files, versions and numbers of chunks: its   *)
(* type invariant, that what the engine holds is searchable unless an      *)
(* operation on it answered Err, and that a successful operation on a      *)
(* single file leaves no orphaned points of it.  And the watcher: its type *)
(* invariant, and that one with nothing to do has a current index.         *)
(***************************************************************************)

(* The ids of the chunks of a version are positions a chunk may have.       *)
LEMMA IdsType == \A v \in Version \union {None} : Ids(v) \subseteq Index
  BY ChunksAssumption DEF Ids, Index

LEMMA UpsertType ==
    ASSUME NEW row \in [Index -> Version \union {None}],
           NEW v \in Version \union {None}, NEW S
    PROVE  Upsert(row, v, S) \in [Index -> Version \union {None}]
  BY DEF Upsert

LEMMA SweptType ==
    ASSUME TypeOK, NEW f \in File
    PROVE  Swept(f) \in [Index -> Version \union {None}]
  BY DEF TypeOK, Swept, NoPoints

LEMMA WalkedType == TypeOK => Walked \in [File -> Version \union {None}]
  BY DEF TypeOK, Walked, File

LEMMA TypeStep == TypeOK /\ [Next]_vars => TypeOK'
<1> SUFFICES ASSUME TypeOK, [Next]_vars
             PROVE  TypeOK'
  OBVIOUS
<1>1. ASSUME NEW f \in File, NEW v \in Version \union {None}, Edit(f, v)
      PROVE  TypeOK'
  BY <1>1 DEF TypeOK, Edit
<1>2. CASE Build \/ Localize \/ Restart
  BY <1>2 DEF TypeOK, Build, Localize, Restart, NewEngine
<1>3. ASSUME NEW f \in File, Single(f)
      PROVE  TypeOK'
  <2>1. CASE RemoveByPath(f)
    BY <2>1, SweptType DEF TypeOK, RemoveByPath
  <2>2. CASE RemoveFails(f)
    BY <2>2 DEF TypeOK, RemoveFails
  <2>3. CASE Ingest(f)
    <3>1. disk[f] \in Version \union {None}
      BY DEF TypeOK
    <3>2. Upsert(Swept(f), disk[f], Ids(disk[f])) \in [Index -> Version \union {None}]
      BY <3>1, SweptType, UpsertType
    <3>3. QED
      BY <2>3, <3>1, <3>2 DEF TypeOK, Ingest
  <2>4. ASSUME NEW n \in Index, IngestFails(f, n)
        PROVE  TypeOK'
    <3>1. disk[f] \in Version \union {None}
      BY DEF TypeOK
    <3>2. Upsert(Swept(f), disk[f], 0 .. n - 1) \in [Index -> Version \union {None}]
      BY <3>1, SweptType, UpsertType
    <3>3. QED
      BY <2>4, <3>1, <3>2 DEF TypeOK, IngestFails
  <2>5. QED
    BY <1>3, <2>1, <2>2, <2>3, <2>4 DEF Single
<1>4. CASE Tree
  <2>1. \A g \in File : Walked[g] \in Version \union {None}
    BY WalkedType
  <2>2. \A g \in File : points[g] \in [Index -> Version \union {None}]
    BY DEF TypeOK
  <2>3. CASE IngestTree
    <3>1. \A g \in File : Upsert(points[g], Walked[g], Ids(Walked[g]))
                            \in [Index -> Version \union {None}]
      BY <2>1, <2>2, UpsertType
    <3>2. QED
      BY <2>3, <3>1, WalkedType DEF TypeOK, IngestTree
  <2>4. ASSUME NEW done \in SUBSET File, NEW f \in File, NEW n \in Index,
               IngestTreeFails(done, f, n)
        PROVE  TypeOK'
    <3>1. \A g \in File : \A S : Upsert(points[g], Walked[g], S) \in [Index -> Version \union {None}]
      BY <2>1, <2>2, UpsertType
    <3>2. points' \in [File -> [Index -> Version \union {None}]]
      BY <2>2, <2>4, <3>1 DEF IngestTreeFails
    <3>3. QED
      BY <2>4, <3>2, WalkedType DEF TypeOK, IngestTreeFails, File
  <2>5. QED
    BY <1>4, <2>3, <2>4 DEF Tree
<1>5. CASE UNCHANGED vars
  BY <1>5 DEF TypeOK, vars
<1>6. QED
  BY <1>1, <1>2, <1>3, <1>4, <1>5 DEF Next

(* Every variable keeps its type: no operation of the engine leaves a chunk *)
(* id outside of the positions a version is cut into.                       *)
THEOREM TypeCorrect == Spec => []TypeOK
<1>1. Init => TypeOK
  BY DEF Init, TypeOK, NoPoints
<1>2. QED
  BY <1>1, TypeStep, PTL DEF Spec

-----------------------------------------------------------------------------
LEMMA SearchableStep ==
    TypeOK /\ HeldIsSearchable /\ [Next]_vars => HeldIsSearchable'
<1> SUFFICES ASSUME TypeOK, HeldIsSearchable, [Next]_vars
             PROVE  HeldIsSearchable'
  OBVIOUS
<1>1. ASSUME NEW f \in File, NEW v \in Version \union {None}, Edit(f, v)
      PROVE  HeldIsSearchable'
  BY <1>1 DEF HeldIsSearchable, Edit, Ids
<1>2. CASE Build \/ Localize \/ Restart
  BY <1>2 DEF HeldIsSearchable, Build, Localize, Restart, NewEngine, Ids
<1>3. ASSUME NEW f \in File, Single(f)
      PROVE  HeldIsSearchable'
  <2>1. CASE RemoveByPath(f)
    BY <2>1 DEF TypeOK, HeldIsSearchable, RemoveByPath, Ids
  <2>2. CASE RemoveFails(f)
    BY <2>2 DEF TypeOK, HeldIsSearchable, RemoveFails, Ids
  <2>3. CASE Ingest(f)
    <3>1. \A i \in Ids(disk[f]) : i \in Index
      BY IdsType DEF TypeOK
    <3>2. SUFFICES ASSUME kind = "configured", NEW g \in File \ dirty', NEW i \in Ids(held'[g])
                   PROVE  points'[g][i] = held'[g]
      BY <2>3 DEF HeldIsSearchable, Ingest, Ids
    <3>3. CASE g = f
      BY <2>3, <3>1, <3>2, <3>3 DEF TypeOK, Ingest, Upsert
    <3>4. CASE g # f
      BY <2>3, <3>2, <3>4 DEF TypeOK, HeldIsSearchable, Ingest
    <3>5. QED
      BY <3>3, <3>4
  <2>4. ASSUME NEW n \in Index, IngestFails(f, n)
        PROVE  HeldIsSearchable'
    BY <2>4 DEF TypeOK, HeldIsSearchable, IngestFails, Ids
  <2>5. QED
    BY <1>3, <2>1, <2>2, <2>3, <2>4 DEF Single
<1>4. CASE Tree
  <2>1. CASE IngestTree
    <3>1. SUFFICES ASSUME kind = "configured", NEW g \in File, NEW i \in Ids(Walked[g])
                   PROVE  points'[g][i] = Walked[g]
      BY <2>1 DEF HeldIsSearchable, IngestTree, Ids
    <3>2. i \in Index
      BY WalkedType, IdsType
    <3>3. QED
      BY <2>1, <3>1, <3>2 DEF IngestTree, Upsert
  <2>2. ASSUME NEW done \in SUBSET File, NEW f \in File, NEW n \in Index,
               IngestTreeFails(done, f, n)
        PROVE  HeldIsSearchable'
    <3>1. SUFFICES ASSUME NEW g \in File \ dirty', NEW i \in Ids(held'[g])
                   PROVE  points'[g][i] = held'[g]
      BY DEF HeldIsSearchable, Ids
    <3>2. g \notin Docs /\ g \notin dirty /\ held'[g] = held[g] /\ Walked[g] = held[g]
      BY <2>2, <3>1 DEF IngestTreeFails, Walked
    <3>3. i \in Ids(held[g]) /\ i \in Index
      BY <3>1, <3>2, IdsType DEF TypeOK
    <3>4. points[g][i] = held[g]
      BY <2>2, <3>2, <3>3 DEF HeldIsSearchable, IngestTreeFails
    <3>5. QED
      BY <2>2, <3>2, <3>3, <3>4 DEF IngestTreeFails, Upsert
  <2>3. QED
    BY <1>4, <2>1, <2>2 DEF Tree
<1>5. CASE UNCHANGED vars
  BY <1>5 DEF HeldIsSearchable, vars, Ids
<1>6. QED
  BY <1>1, <1>2, <1>3, <1>4, <1>5 DEF Next

(* Whatever fails and in whatever order, a search on the configured backend *)
(* finds each chunk of a file under its own embedding, unless an operation  *)
(* on this file has answered Err.                                           *)
THEOREM HeldFilesAreSearchable == Spec => []HeldIsSearchable
<1>1. Init => TypeOK /\ HeldIsSearchable
  BY DEF Init, TypeOK, NoPoints, HeldIsSearchable
<1>2. QED
  BY <1>1, TypeStep, SearchableStep, PTL DEF Spec

(* Removing or re-ingesting a file the configured engine holds first takes  *)
(* all its points out of the backend (remove_by_path).                      *)
THEOREM NoOrphansAfterSingle == Spec => SingleLeavesNoOrphans
<1> DEFINE Clean(f) ==
      kind = "configured" /\ Ids(held[f]) # {} /\ (Ingest(f) \/ RemoveByPath(f)) => Orphans(f)' = {}
<1>1. TypeOK /\ [Next]_vars => [\A f \in File : Clean(f)]_vars
  <2> SUFFICES ASSUME TypeOK, NEW f \in File,
                      kind = "configured", Ids(held[f]) # {}, Ingest(f) \/ RemoveByPath(f)
               PROVE  Orphans(f)' = {}
    BY DEF Clean
  <2>1. Swept(f) = NoPoints
    BY DEF Swept
  <2>2. CASE Ingest(f)
    <3>1. points'[f] = Upsert(NoPoints, disk[f], Ids(disk[f])) /\ held'[f] = disk[f]
      BY <2>1, <2>2 DEF Ingest, TypeOK
    <3>2. QED
      BY <3>1 DEF Orphans, Upsert, NoPoints, Ids
  <2>3. CASE RemoveByPath(f)
    <3>1. points'[f] = NoPoints
      BY <2>1, <2>3 DEF RemoveByPath, TypeOK
    <3>2. QED
      BY <3>1 DEF Orphans, NoPoints
  <2>4. QED
    BY <2>2, <2>3
<1>2. Init => TypeOK
  BY DEF Init, TypeOK, NoPoints
<1>3. QED
  BY <1>1, <1>2, TypeStep, PTL DEF Spec, SingleLeavesNoOrphans, Clean

-----------------------------------------------------------------------------
(* The watcher.                                                             *)
Event == [file: Docs, exists: BOOLEAN]

(* The last event that is queued for a file says whether it exists.         *)
LastAgrees(f) ==
    \A k \in 1 .. Len(queue) :
        queue[k].file = f /\ (\A j \in k + 1 .. Len(queue) : queue[j].file # f)
            => (queue[k].exists <=> disk[f] # None)

Queued(f) == \E k \in 1 .. Len(queue) : queue[k].file = f

Current(f) == f \in dirty \/ Reflected(f)

(* Without a watcher there are no events, and with one there is an engine;  *)
(* a file that the debouncer has delivered is queued with what is true of   *)
(* it, or it is current.                                                    *)
WatchInv ==
    /\ AutoTypeOK
    /\ ~watching => queue = <<>> /\ noticed = {}
    /\ watching \/ walked => kind # "none"
    /\ \A f \in Docs \ noticed : LastAgrees(f)
    /\ watching /\ walked => \A f \in Docs \ noticed : Queued(f) \/ Current(f)

LEMMA EngineType ==
    ASSUME TypeOK, [Next]_vars
    PROVE  TypeOK'
BY TypeStep

LEMMA RehydrateType ==
    ASSUME TypeOK, NEW transcripts \in SUBSET Transcripts, Rehydrate(transcripts)
    PROVE  TypeOK'
BY DEF TypeOK, Rehydrate

(* What applying an event does: the type of the engine stays, other files   *)
(* are left alone, and the file is current unless the event was wrong.      *)
LEMMA ApplyIs ==
    ASSUME TypeOK, NEW e \in Event, Apply(e)
    PROVE  /\ TypeOK' /\ disk' = disk /\ kind' = kind
           /\ \A g \in Docs : g # e.file /\ Current(g) => Current(g)'
           /\ (e.exists <=> disk[e.file] # None) => Current(e.file)'
<1> DEFINE f == e.file
           Goal == /\ TypeOK' /\ disk' = disk /\ kind' = kind
                   /\ \A g \in Docs : g # f /\ Current(g) => Current(g)'
                   /\ (e.exists <=> disk[f] # None) => Current(f)'
<1> SUFFICES Goal
  OBVIOUS
<1>1. f \in Docs /\ f \in File /\ e.exists \in BOOLEAN
  BY DEF Event, File
<1>2. disk \in [File -> Version \union {None}] /\ held \in [File -> Version \union {None}] /\ dirty \in SUBSET File
      /\ \A g \in Docs : g \in File
  BY DEF TypeOK, File
<1> HIDE DEF f
<1>3. CASE Vanished(e) /\ UNCHANGED vars
  <2>1. TypeOK'
    BY <1>3, EngineType
  <2>2. ~(e.exists <=> disk[f] # None)
    BY <1>1, <1>3 DEF Vanished, f
  <2>3. disk' = disk /\ kind' = kind /\ held' = held /\ dirty' = dirty
    BY <1>3 DEF vars
  <2> QED BY <2>1, <2>2, <2>3 DEF Current, Reflected
<1>4. CASE Ingest(f)
  <2>1. TypeOK'
    BY <1>1, <1>4, EngineType DEF Next, Single
  <2>2. /\ disk' = disk /\ kind' = kind /\ held' = [held EXCEPT ![f] = disk[f]]
        /\ dirty' = dirty \ {f}
    BY <1>4 DEF Ingest
  <2> QED BY <1>1, <1>2, <2>1, <2>2 DEF Current, Reflected
<1>5. CASE ~e.exists /\ RemoveByPath(f)
  <2>1. TypeOK'
    BY <1>1, <1>5, EngineType DEF Next, Single
  <2>2. disk' = disk /\ kind' = kind /\ held' = [held EXCEPT ![f] = None] /\ dirty' = dirty \ {f}
    BY <1>5 DEF RemoveByPath
  <2> QED BY <1>1, <1>2, <1>5, <2>1, <2>2 DEF Current, Reflected
<1>6. CASE RemoveFails(f) \/ \E n \in Index : IngestFails(f, n)
  <2>1. TypeOK'
    BY <1>1, <1>6, EngineType DEF Next, Single
  <2>2. /\ disk' = disk /\ kind' = kind /\ dirty' = dirty \union {f}
        /\ \E v : held' = [held EXCEPT ![f] = v]
    BY <1>6 DEF RemoveFails, IngestFails
  <2> QED BY <1>1, <1>2, <2>1, <2>2 DEF Current, Reflected
<1> QED BY <1>3, <1>4, <1>5, <1>6 DEF Apply, f

(* Steps of requests leave the events alone, and the docs with them.        *)
WatcherStays == UNCHANGED <<disk, noticed, queue>>

LEMMA RequestKeeps ==
    ASSUME WatchInv, AutoTypeOK', WatcherStays,
           watching' => watching \/ queue = <<>>,
           ~watching' => queue = <<>> /\ noticed = {},
           watching' \/ walked' => kind' # "none",
           watching' /\ walked' => \/ \A f \in Docs : Current(f)'
                                   \/ watching /\ walked /\ \A f \in Docs : Current(f) => Current(f)'
    PROVE  WatchInv'
<1>1. /\ \A f \in Docs : LastAgrees(f)' <=> LastAgrees(f)
      /\ \A f \in Docs : Queued(f)' <=> Queued(f)
      /\ noticed' = noticed /\ queue' = queue
  BY DEF WatcherStays, LastAgrees, Queued
<1> QED BY <1>1 DEF WatchInv

LEMMA ChangeKeeps ==
    ASSUME WatchInv, NEW f \in Docs, NEW v \in Version \union {None}, Change(f, v)
    PROVE  WatchInv'
<1>1. /\ queue' = queue /\ watching' = watching /\ walked' = walked /\ request' = request
      /\ kind' = kind /\ held' = held /\ dirty' = dirty /\ points' = points
      /\ disk' = [disk EXCEPT ![f] = v]
      /\ noticed' = IF watching THEN noticed \union {f} ELSE noticed
      /\ edits < MaxEdits /\ edits' = edits + 1
  BY DEF Change, Edit
<1>2. TypeOK' /\ AutoTypeOK'
  <2>1. Next
    BY DEF Change, Next, File
  <2> QED BY <1>1, <2>1, EngineType, AutoIndexAssumption DEF WatchInv, AutoTypeOK
<1>3. ASSUME NEW g \in Docs \ noticed'
      PROVE  /\ LastAgrees(g)'
             /\ watching' /\ walked' => Queued(g)' \/ Current(g)'
  <2>1. CASE watching
    <3>1. g # f /\ g \in Docs \ noticed /\ disk'[g] = disk[g]
      BY <1>1, <1>3, <2>1 DEF WatchInv, AutoTypeOK, TypeOK, File
    <3>2. LastAgrees(g)'
      <4>1. ASSUME NEW k \in 1 .. Len(queue), queue[k].file = g,
                   \A j \in k + 1 .. Len(queue) : queue[j].file # g
            PROVE  queue[k].exists <=> disk'[g] # None
        BY <3>1, <4>1 DEF WatchInv, LastAgrees
      <4> QED BY <1>1, <4>1 DEF LastAgrees
    <3>3. watching' /\ walked' => Queued(g)' \/ Current(g)'
      BY <1>1, <3>1 DEF WatchInv, Queued, Current, Reflected
    <3> QED BY <3>2, <3>3
  <2>2. CASE ~watching
    BY <1>1, <2>2 DEF WatchInv, LastAgrees
  <2> QED BY <2>1, <2>2
<1> QED BY <1>1, <1>2, <1>3 DEF WatchInv

LEMMA DeliverKeeps ==
    ASSUME WatchInv, NEW f \in Docs, Deliver(f)
    PROVE  WatchInv'
<1> DEFINE e == [file |-> f, exists |-> disk[f] # None]
<1>1. /\ queue' = Append(queue, e) /\ noticed' = noticed \ {f} /\ f \in noticed
      /\ UNCHANGED <<disk, kind, held, points, dirty, request, watching, walked, edits>>
  BY DEF Deliver, vars
<1>2. queue \in Seq(Event) /\ e \in Event /\ e.file = f /\ (e.exists <=> disk[f] # None)
  BY DEF WatchInv, AutoTypeOK, Event
<1> HIDE DEF e
<1>3. /\ Len(queue') = Len(queue) + 1 /\ queue'[Len(queue) + 1] = e /\ queue' \in Seq(Event)
      /\ \A k \in 1 .. Len(queue) : queue'[k] = queue[k]
      /\ Len(queue) \in Nat
  BY <1>1, <1>2
<1>4. AutoTypeOK'
  <2>1. TypeOK'
    BY <1>1 DEF WatchInv, AutoTypeOK, TypeOK
  <2> QED BY <1>1, <1>3, <2>1 DEF WatchInv, AutoTypeOK, Event
<1>5. ASSUME NEW g \in Docs \ noticed', NEW k \in 1 .. Len(queue'), queue'[k].file = g,
             \A j \in k + 1 .. Len(queue') : queue'[j].file # g
      PROVE  queue'[k].exists <=> disk'[g] # None
  <2>1. CASE k = Len(queue) + 1
    BY <1>1, <1>2, <1>3, <1>5, <2>1
  <2>2. CASE k # Len(queue) + 1
    <3>1. k \in 1 .. Len(queue) /\ queue[k].file = g
      BY <1>3, <1>5, <2>2
    <3>2. Len(queue) + 1 \in k + 1 .. Len(queue')
      BY <1>3, <3>1
    <3>3. g # f
      BY <1>2, <1>3, <1>5, <3>2
    <3>4. \A j \in k + 1 .. Len(queue) : queue[j].file # g
      BY <1>3, <1>5, <3>1
    <3>5. g \in Docs \ noticed
      BY <1>1, <1>5, <3>3
    <3>6. queue[k].exists <=> disk[g] # None
      BY <3>1, <3>4, <3>5 DEF WatchInv, LastAgrees
    <3> QED BY <1>1, <1>3, <3>1, <3>6
  <2> QED BY <2>1, <2>2
<1>6. ASSUME NEW g \in Docs \ noticed', watching', walked'
      PROVE  Queued(g)' \/ Current(g)'
  <2>1. CASE g = f
    <3>1. Len(queue) + 1 \in 1 .. Len(queue') /\ queue'[Len(queue) + 1].file = f
      BY <1>2, <1>3
    <3> QED BY <2>1, <3>1 DEF Queued
  <2>2. CASE g # f
    <3>1. Queued(g) \/ Current(g)
      BY <1>1, <1>6, <2>2 DEF WatchInv
    <3>2. Queued(g) => Queued(g)'
      BY <1>3 DEF Queued
    <3> QED BY <1>1, <3>1, <3>2 DEF Current, Reflected
  <2> QED BY <2>1, <2>2
<1>7. watching'
  BY <1>1 DEF WatchInv
<1>8. kind' # "none"
  BY <1>1, <1>7 DEF WatchInv
<1> QED BY <1>4, <1>5, <1>6, <1>7, <1>8 DEF WatchInv, LastAgrees

(* The last event of a file was right, so that applying it makes the file   *)
(* current; an earlier one leaves another in the queue.                     *)
LEMMA ProcessKeeps ==
    ASSUME WatchInv, Process
    PROVE  WatchInv'
<1>1. /\ queue # <<>> /\ queue' = Tail(queue)
      /\ UNCHANGED <<request, watching, walked, noticed, edits>>
      /\ IF kind = "none" THEN UNCHANGED vars ELSE Apply(Head(queue))
  BY DEF Process
<1>2. queue \in Seq(Event) /\ watching /\ kind # "none" /\ TypeOK
  BY <1>1 DEF WatchInv, AutoTypeOK, Event
<1>3. PICK e \in Event : e = Head(queue)
  BY <1>1, <1>2
<1>4. /\ e = queue[1] /\ 1 \in 1 .. Len(queue) /\ Len(queue) \in Nat
      /\ queue' \in Seq(Event) /\ Len(queue') = Len(queue) - 1
      /\ \A k \in 1 .. Len(queue') : queue'[k] = queue[k + 1]
  BY <1>1, <1>2, <1>3
<1>5. /\ TypeOK' /\ disk' = disk /\ kind' = kind
      /\ \A g \in Docs : g # e.file /\ Current(g) => Current(g)'
      /\ (e.exists <=> disk[e.file] # None) => Current(e.file)'
  BY <1>1, <1>2, <1>3, ApplyIs
<1>6. AutoTypeOK'
  BY <1>1, <1>4, <1>5 DEF WatchInv, AutoTypeOK, Event
<1>7. ASSUME NEW g \in Docs \ noticed', NEW k \in 1 .. Len(queue'), queue'[k].file = g,
             \A j \in k + 1 .. Len(queue') : queue'[j].file # g
      PROVE  queue'[k].exists <=> disk'[g] # None
  <2>1. k + 1 \in 1 .. Len(queue) /\ queue[k + 1] = queue'[k]
    BY <1>4, <1>7
  <2>2. ASSUME NEW j \in (k + 1) + 1 .. Len(queue)
        PROVE  queue[j].file # g
    <3>1. j - 1 \in k + 1 .. Len(queue') /\ j - 1 \in 1 .. Len(queue') /\ (j - 1) + 1 = j
      BY <1>4, <2>2
    <3>2. queue'[j - 1] = queue[j]
      BY <1>4, <3>1
    <3> QED BY <1>7, <3>1, <3>2
  <2>3. queue[k + 1].exists <=> disk[g] # None
    BY <1>1, <1>7, <2>1, <2>2 DEF WatchInv, LastAgrees
  <2> QED BY <1>5, <2>1, <2>3
<1>8. ASSUME NEW g \in Docs \ noticed', walked, ~Queued(g)'
      PROVE  Current(g)'
  <2>1. \A j \in 2 .. Len(queue) : queue[j].file # g
    <3> SUFFICES ASSUME NEW j \in 2 .. Len(queue)
                 PROVE  queue[j].file # g
      OBVIOUS
    <3>1. j - 1 \in 1 .. Len(queue') /\ (j - 1) + 1 = j
      BY <1>4
    <3>2. queue'[j - 1] = queue[j]
      BY <1>4, <3>1
    <3> QED BY <1>8, <3>1, <3>2 DEF Queued
  <2>2. CASE e.file = g
    <3>1. e.exists <=> disk[g] # None
      BY <1>1, <1>4, <1>8, <2>1, <2>2 DEF WatchInv, LastAgrees
    <3> QED BY <1>5, <2>2, <3>1
  <2>3. CASE e.file # g
    <3>1. ~Queued(g)
      <4>1. \A k \in 1 .. Len(queue) : k = 1 \/ k \in 2 .. Len(queue)
        BY <1>4
      <4> QED BY <1>4, <2>1, <2>3, <4>1 DEF Queued
    <3>2. Current(g)
      BY <1>1, <1>2, <1>8, <3>1 DEF WatchInv
    <3> QED BY <1>5, <1>8, <2>3, <3>2
  <2> QED BY <2>2, <2>3
<1> QED BY <1>1, <1>2, <1>5, <1>6, <1>7, <1>8 DEF WatchInv, LastAgrees

(* An operation on one file keeps the others, and marks this one if it      *)
(* answers Err.                                                             *)
LEMMA SingleIs ==
    ASSUME TypeOK, NEW t \in File, Ingest(t) \/ RemoveFails(t) \/ \E n \in Index : IngestFails(t, n)
    PROVE  /\ TypeOK' /\ disk' = disk /\ kind' = kind /\ kind # "none"
           /\ \A f \in Docs : Current(f) => Current(f)'
<1>1. TypeOK'
  BY EngineType DEF Next, Single
<1>2. /\ disk' = disk /\ kind' = kind /\ kind # "none"
      /\ \E v : held' = [held EXCEPT ![t] = v]
      /\ \/ dirty' = dirty \ {t} /\ held' = [held EXCEPT ![t] = disk[t]]
         \/ dirty' = dirty \union {t}
  BY DEF Ingest, RemoveFails, IngestFails
<1> QED BY <1>1, <1>2 DEF TypeOK, Current, Reflected, File

LEMMA RequestStepKeeps ==
    ASSUME WatchInv, StartReindex \/ StartConversation \/ Finish \/ Load
    PROVE  WatchInv'
<1>1. AutoTypeOK /\ TypeOK /\ (kind = "none" => ~watching /\ queue = <<>> /\ noticed = {})
  BY DEF WatchInv, AutoTypeOK
<1>2. ASSUME NEW r \in Requests, NEW spawned \in BOOLEAN, Begin(r, spawned)
      PROVE  WatchInv'
  <2>1. TypeOK'
    <3>1. Build \/ UNCHANGED vars
      BY <1>2 DEF Begin
    <3> QED BY <1>1, <3>1, EngineType DEF Next
  <2>2. CASE kind = "none"
    <3>1. /\ disk' = disk /\ kind' = "configured" /\ watching' = spawned /\ walked' = FALSE
          /\ request' = r /\ UNCHANGED <<noticed, queue, edits>>
      BY <1>2, <2>2 DEF Begin, Build, NewEngine
    <3>2. AutoTypeOK'
      BY <1>1, <2>1, <3>1 DEF AutoTypeOK
    <3> QED BY <1>1, <2>2, <3>1, <3>2, RequestKeeps DEF WatcherStays
  <2>3. CASE kind # "none"
    <3>1. UNCHANGED <<vars, watching, walked, noticed, queue, edits>> /\ request' = r
      BY <1>2, <2>3 DEF Begin
    <3>2. AutoTypeOK'
      BY <1>1, <2>1, <3>1 DEF AutoTypeOK
    <3>3. UNCHANGED <<disk, kind, held, dirty, watching, walked, noticed, queue>>
      BY <3>1 DEF vars
    <3>4. \A f \in Docs : Current(f) => Current(f)'
      BY <3>3 DEF Current, Reflected
    <3> QED BY <3>2, <3>3, <3>4, RequestKeeps DEF WatchInv, WatcherStays
  <2> QED BY <2>2, <2>3
<1>3. CASE StartReindex \/ StartConversation
  BY <1>2, <1>3 DEF StartReindex, StartConversation, Requests
<1>4. CASE ReindexTree
  <2>1. TypeOK'
    BY <1>1, <1>4, EngineType DEF ReindexTree, Next, Tree
  <2>2. /\ kind # "none" /\ held' = Walked /\ UNCHANGED <<disk, kind, watching, noticed, queue, edits>>
        /\ request' = "none" /\ walked' = TRUE
    BY <1>4 DEF ReindexTree, IngestTree
  <2>3. AutoTypeOK'
    BY <1>1, <2>1, <2>2 DEF AutoTypeOK, Requests
  <2>4. \A f \in Docs : Current(f)'
    BY <2>2 DEF Walked, Current, Reflected, File
  <2> QED BY <1>1, <2>2, <2>3, <2>4, RequestKeeps DEF WatchInv, WatcherStays
<1>5. CASE TreeFails
  <2>1. /\ UNCHANGED vars \/ \E done \in SUBSET File, f \in File, n \in Index : IngestTreeFails(done, f, n)
        /\ request' \in {"fallback", "none"} /\ UNCHANGED <<watching, walked, noticed, queue, edits>>
    BY <1>5 DEF TreeFails
  <2>2. TypeOK'
    BY <1>1, <2>1, EngineType DEF Next, Tree
  <2>3. AutoTypeOK'
    BY <1>1, <2>1, <2>2 DEF AutoTypeOK, Requests
  <2>4. disk' = disk /\ kind' = kind /\ ((held' = held /\ dirty' = dirty) \/ dirty' = dirty \union Docs)
    BY <2>1 DEF vars, IngestTreeFails
  <2>5. \A f \in Docs : Current(f) => Current(f)'
    BY <2>4 DEF Current, Reflected
  <2> QED BY <2>1, <2>3, <2>4, <2>5, RequestKeeps DEF WatchInv, WatcherStays
<1>6. CASE Fallback
  <2>1. /\ kind' = "local" /\ held' = [f \in File |-> None] /\ dirty' = {} /\ UNCHANGED <<disk, points>>
        /\ request' = "retry" /\ walked' = FALSE /\ UNCHANGED <<watching, noticed, queue, edits>>
    BY <1>6 DEF Fallback, NewEngine
  <2>2. AutoTypeOK'
    BY <1>1, <2>1 DEF AutoTypeOK, TypeOK, Requests
  <2> QED BY <1>1, <2>1, <2>2, RequestKeeps DEF WatchInv, WatcherStays
<1>7. CASE IngestConversation \/ GiveUp
  <2>1. /\ request' = "none" /\ UNCHANGED <<watching, walked, noticed, queue, edits>>
        /\ \/ UNCHANGED vars
           \/ \E t \in File : Ingest(t) \/ RemoveFails(t) \/ \E n \in Index : IngestFails(t, n)
    BY <1>7 DEF IngestConversation, GiveUp, File
  <2>2. TypeOK' /\ disk' = disk /\ kind' = kind /\ \A f \in Docs : Current(f) => Current(f)'
    <3>1. CASE UNCHANGED vars
      BY <1>1, <3>1 DEF TypeOK, vars, Current, Reflected
    <3>2. CASE \E t \in File : Ingest(t) \/ RemoveFails(t) \/ \E n \in Index : IngestFails(t, n)
      BY <1>1, <3>2, SingleIs
    <3> QED BY <2>1, <3>1, <3>2
  <2>3. AutoTypeOK'
    BY <1>1, <2>1, <2>2 DEF AutoTypeOK, Requests
  <2> QED BY <2>1, <2>2, <2>3, RequestKeeps DEF WatchInv, WatcherStays
<1>8. CASE ConversationFallback \/ Load
  <2>1. PICK transcripts \in SUBSET Transcripts : Rehydrate(transcripts)
    BY <1>8 DEF ConversationFallback, Load
  <2>2. TypeOK'
    BY <1>1, <2>1, RehydrateType
  <2>3. /\ kind' = "local" /\ walked' = TRUE /\ UNCHANGED <<disk, watching, noticed, queue, edits>>
        /\ held' = [f \in File |-> IF f \in Docs \union transcripts THEN disk[f] ELSE None]
        /\ request' \in Requests
    BY <1>1, <1>8, <2>1 DEF Rehydrate, ConversationFallback, Load, AutoTypeOK, Requests
  <2>4. AutoTypeOK'
    BY <1>1, <2>2, <2>3 DEF AutoTypeOK
  <2>5. \A f \in Docs : Current(f)'
    BY <2>3 DEF Current, Reflected, File
  <2> QED BY <1>1, <2>3, <2>4, <2>5, RequestKeeps DEF WatchInv, WatcherStays
<1> QED BY <1>3, <1>4, <1>5, <1>6, <1>7, <1>8 DEF Finish

LEMMA NothingQueued == <<>> \in Seq([file: Docs, exists: BOOLEAN])
  OBVIOUS

LEMMA WatchInvInit == AutoInit => WatchInv
<1> SUFFICES ASSUME AutoInit PROVE WatchInv
  OBVIOUS
<1>1. TypeOK
  BY DEF AutoInit, Init, TypeOK, NoPoints
<1>2. AutoTypeOK
  <2>1. /\ request = "none" /\ watching = FALSE /\ walked = FALSE /\ noticed = {} /\ queue = <<>>
        /\ edits = 0
    BY DEF AutoInit
  <2>2. 0 \in 0 .. MaxEdits
    BY AutoIndexAssumption
  <2> QED BY <1>1, <2>1, <2>2, NothingQueued DEF AutoTypeOK, Requests
<1> QED BY <1>2 DEF AutoInit, Init, WatchInv, LastAgrees

LEMMA WatchInvStep == WatchInv /\ [AutoNext]_allVars => WatchInv'
<1> SUFFICES ASSUME WatchInv, [AutoNext]_allVars
             PROVE  WatchInv'
  OBVIOUS
<1>1. ASSUME NEW f \in Docs, NEW v \in Version \union {None}, Change(f, v)
      PROVE  WatchInv'
  BY <1>1, ChangeKeeps
<1>2. ASSUME NEW f \in Docs, Deliver(f)
      PROVE  WatchInv'
  BY <1>2, DeliverKeeps
<1>3. CASE Process
  BY <1>3, ProcessKeeps
<1>4. CASE StartReindex \/ StartConversation \/ Finish \/ Load
  BY <1>4, RequestStepKeeps
<1>5. CASE Stop
  <2>1. TypeOK'
    BY <1>5, EngineType DEF Stop, Next, WatchInv, AutoTypeOK
  <2>2. /\ request' = "none" /\ watching' = FALSE /\ walked' = FALSE /\ noticed' = {} /\ queue' = <<>>
        /\ edits' = edits
    BY <1>5 DEF Stop
  <2>3. AutoTypeOK'
    BY <2>1, <2>2, NothingQueued DEF WatchInv, AutoTypeOK, Requests
  <2> QED BY <2>2, <2>3 DEF WatchInv, LastAgrees
<1>6. CASE UNCHANGED allVars
  <2>1. UNCHANGED <<disk, kind, held, points, dirty, request, watching, walked, noticed, queue, edits>>
    BY <1>6 DEF allVars, vars
  <2> QED BY <2>1 DEF WatchInv, AutoTypeOK, TypeOK, LastAgrees, Queued, Current, Reflected
<1> QED BY <1>1, <1>2, <1>3, <1>4, <1>5, <1>6 DEF AutoNext

(* The variables of the watcher keep their types.                           *)
THEOREM WatcherTypeCorrect == AutoSpec => []AutoTypeOK
<1>1. WatchInv => AutoTypeOK
  BY DEF WatchInv
<1> QED BY <1>1, WatchInvInit, WatchInvStep, PTL DEF AutoSpec

(* However edits, deliveries, the task and requests interleave, and         *)
(* whatever fails, a watcher that has nothing left to do leaves a current   *)
(* index.                                                                   *)
THEOREM IdleMeansCurrent == AutoSpec => []CaughtUpIsCurrent
<1>1. WatchInv => CaughtUpIsCurrent
  BY DEF WatchInv, CaughtUpIsCurrent, Queued, Current
<1> QED BY <1>1, WatchInvInit, WatchInvStep, PTL DEF AutoSpec

-----------------------------------------------------------------------------
(***************************************************************************)
(* The types of the services, all in one run.                              *)
(***************************************************************************)

(* What the proofs about the catalog did not need.                          *)
ToolBounds ==
    /\ enabledFor \subseteq Tools /\ inventory \subseteq Tools /\ binaries \subseteq Tools
    /\ opened \in BOOLEAN /\ embedded \in BOOLEAN /\ toolPoints \subseteq Tools
    /\ toolCalls \in 0 .. MaxToolCalls
    /\ found \in [shown: SUBSET Tools, present: SUBSET Tools, installed: SUBSET Tools]
    /\ granted \subseteq Families /\ crossed \in BOOLEAN

LEMMA ToolBegins == ToolInit => ToolBounds
<1>1. MaxToolCalls \in Nat
  BY ToolCatalogAssumption
<1> SUFFICES ASSUME ToolInit PROVE ToolBounds
  OBVIOUS
<1>2. toolCalls \in 0 .. MaxToolCalls
  BY <1>1 DEF ToolInit
<1>3. opened \in BOOLEAN /\ embedded \in BOOLEAN /\ crossed \in BOOLEAN
  BY DEF ToolInit
<1>4. found \in [shown: SUBSET Tools, present: SUBSET Tools, installed: SUBSET Tools]
  BY DEF ToolInit
<1>5. enabledFor \subseteq Tools /\ inventory \subseteq Tools /\ binaries \subseteq Tools /\ toolPoints \subseteq Tools
      /\ granted \subseteq Families
  BY DEF ToolInit
<1> QED BY <1>2, <1>3, <1>4, <1>5 DEF ToolBounds

(* Calls of each kind carry what their names say.                           *)
LEMMA CallCarries ==
    ASSUME ToolInv, NEW c \in ToolCallers
    PROVE  /\ caller[c].phase = "embedding" => caller[c].ids \subseteq Tools
           /\ caller[c].phase = "loaded" => caller[c].family \in Families
<1>1. caller[c] \in Calls
  BY DEF ToolInv, ToolShape
<1> QED BY <1>1 DEF Calls, NoCall, ToolCall, SearchCall, EnableCall, Phases

(* A tool that is being installed was there when the command was read.      *)
Installs == \A c \in ToolCallers : caller[c].phase = "installing" => caller[c].tool \in Tools

LEMMA InstallsKept ==
    ASSUME ToolInv, Installs, [ToolNext]_toolVars PROVE Installs'
<1>0. caller \in [ToolCallers -> Calls]
  BY DEF ToolInv, ToolShape
<1>1. ASSUME NEW c \in ToolCallers, Ends(c) PROVE Installs'
  BY <1>0, <1>1 DEF Installs, Ends, NoCall
<1>2. ASSUME NEW c \in ToolCallers, NEW p, Moves(c, p), p = "installing" => caller[c].tool \in Tools PROVE Installs'
  BY <1>0, <1>2, MoveIs DEF Installs, Moves
<1>3. ASSUME UNCHANGED caller PROVE Installs'
  BY <1>3 DEF Installs
<1>4. ASSUME NEW c \in ToolCallers, NEW op, NEW t, BeginTool(c, op, t) PROVE Installs'
  <2>1. caller' = [caller EXCEPT ![c] = [phase |-> IF opened THEN "ready" ELSE "opening", op |-> op, tool |-> t, next |-> 0]]
    BY <1>4 DEF BeginTool
  <2>2. \A d \in ToolCallers : d # c => caller'[d] = caller[d]
    BY <1>0, <2>1
  <2>3. caller'[c].phase # "installing"
    BY <1>0, <2>1
  <2> QED BY <2>2, <2>3 DEF Installs
<1>5. ASSUME NEW c \in ToolCallers, EnsureCatalog(c) PROVE Installs'
  <2>1. CASE OpenCatalog(c)
    BY <1>2, <2>1 DEF OpenCatalog
  <2>2. CASE ImportFile(c)
    <3>1. caller' = [caller EXCEPT ![c].next = @ + 1] /\ caller[c].phase = "importing"
      BY <2>2 DEF ImportFile
    <3>2. \A d \in ToolCallers : d # c => caller'[d] = caller[d]
      BY <1>0, <3>1
    <3>3. caller'[c].phase = caller[c].phase
      BY <1>0, <3>1
    <3> QED BY <3>1, <3>2, <3>3 DEF Installs
  <2>3. CASE ScanAfterImport(c)
    BY <1>2, <2>3 DEF ScanAfterImport
  <2>4. CASE StoreCatalog(c)
    BY <1>2, <2>4 DEF StoreCatalog
  <2> QED BY <1>5, <2>1, <2>2, <2>3, <2>4 DEF EnsureCatalog
<1>6. ASSUME NEW c \in ToolCallers, InstallReads(c) PROVE Installs'
  BY <1>1, <1>2, <1>6 DEF InstallReads, GetTool, Present
<1>7. ASSUME NEW c \in ToolCallers, SearchBegins(c) PROVE Installs'
  <2> DEFINE none == ~opened \/ Present = {}
             call == [phase |-> IF embedded \/ none THEN "asking" ELSE "embedding", op |-> "search",
                      tool |-> NoTool, next |-> 0, ids |-> IF opened THEN Present ELSE {}]
  <2>1. caller' = [caller EXCEPT ![c] = call]
    BY <1>7 DEF SearchBegins
  <2>2. call.phase # "installing"
    OBVIOUS
  <2> HIDE DEF call
  <2> QED BY <1>0, <2>1, <2>2 DEF Installs
<1>8. ASSUME NEW c \in ToolCallers, SearchToolsSemantic(c) PROVE Installs'
  <2>1. CASE Ends(c)
    BY <1>1, <2>1
  <2>2. CASE FallsThrough(c)
    <3>1. caller' = [caller EXCEPT ![c].phase = IF opened THEN "ready" ELSE "opening"]
      BY <2>2 DEF FallsThrough
    <3> DEFINE p == IF opened THEN "ready" ELSE "opening"
    <3>2. p # "installing" /\ Moves(c, p)
      BY <3>1 DEF Moves
    <3> HIDE DEF p
    <3> QED BY <1>2, <3>2
  <2> QED BY <1>8, <2>1, <2>2 DEF SearchToolsSemantic, Answers
<1>9. ASSUME NEW c \in ToolCallers, NEW f \in Families, EnableLoads(c, f) PROVE Installs'
  <2> DEFINE call == [phase |-> "loaded", op |-> "enable", tool |-> NoTool, next |-> 0, family |-> f, list |-> families \union {f}]
  <2>1. caller' = [caller EXCEPT ![c] = call]
    BY <1>9 DEF EnableLoads
  <2>2. call.phase # "installing"
    OBVIOUS
  <2> HIDE DEF call
  <2> QED BY <1>0, <2>1, <2>2 DEF Installs
<1>10. ASSUME NEW c \in ToolCallers, EmbedTools(c) PROVE Installs'
  BY <1>2, <1>10 DEF EmbedTools
<1>11. CASE ToolRestart
  BY <1>11 DEF ToolRestart, Installs, NoCall
<1>12. CASE UNCHANGED toolVars
  BY <1>3, <1>12 DEF toolVars
<1>13. ASSUME NEW c \in ToolCallers,
              \/ ToolAdd(c) \/ ToolRemove(c) \/ ToolDisable(c) \/ ToolCatalogUpdate(c)
              \/ InstallEnds(c, TRUE) \/ InstallEnds(c, FALSE) \/ SearchFts(c) \/ ToolSuggest(c) \/ ToolInfo(c)
              \/ (\E filter \in {NoTool, "enabled"} : ToolList(c, filter)) \/ EnableSaves(c)
       PROVE  Ends(c)
  BY <1>13 DEF ToolAdd, ToolRemove, ToolDisable, ToolCatalogUpdate, InstallEnds, SearchFts, Answers, ToolSuggest,
            ToolInfo, ToolList, EnableSaves
<1> QED BY <1>1, <1>4, <1>5, <1>6, <1>7, <1>8, <1>9, <1>10, <1>11, <1>12, <1>13 DEF ToolNext

LEMMA ToolBoundsKept ==
    ASSUME ToolInv, Installs, ToolBounds, [ToolNext]_toolVars PROVE ToolBounds'
<1> USE ToolCatalogAssumption DEF ToolBounds, TableUnchanged, SearchUnchanged, FamiliesUnchanged, Present
<1>0. MaxToolCalls \in Nat /\ tools \in [Tools -> {"catalog", "user", NoTool}] /\ families \subseteq Families
  BY DEF ToolInv, ToolShape, FamiliesInv
<1>1. ASSUME NEW c \in ToolCallers, NEW op, NEW t, BeginTool(c, op, t) PROVE ToolBounds'
  BY <1>0, <1>1 DEF BeginTool
<1>2. ASSUME NEW c \in ToolCallers, EnsureCatalog(c) PROVE ToolBounds'
  BY <1>2 DEF EnsureCatalog, OpenCatalog, ImportFile, ScanAfterImport, StoreCatalog, ScanSystemInventory
<1>3. ASSUME NEW c \in ToolCallers, ToolAdd(c) \/ ToolRemove(c) \/ ToolDisable(c) PROVE ToolBounds'
  BY <1>3 DEF ToolAdd, ToolRemove, ToolDisable
<1>4. ASSUME NEW c \in ToolCallers, ToolCatalogUpdate(c) PROVE ToolBounds'
  BY <1>4 DEF ToolCatalogUpdate, ScanSystemInventory
<1>5. ASSUME NEW c \in ToolCallers, InstallReads(c) PROVE ToolBounds'
  BY <1>5 DEF InstallReads
<1>6. ASSUME NEW c \in ToolCallers, NEW ok \in BOOLEAN, InstallEnds(c, ok) PROVE ToolBounds'
  <2>1. caller[c].tool \in Tools
    BY <1>6 DEF InstallEnds, Installs
  <2> QED BY <1>6, <2>1 DEF InstallEnds
<1>7. ASSUME NEW c \in ToolCallers, SearchBegins(c) PROVE ToolBounds'
  <2>1. /\ UNCHANGED <<enabledFor, inventory, binaries, opened, toolPoints, found, granted, crossed>>
        /\ toolCalls < MaxToolCalls /\ toolCalls' = toolCalls + 1
        /\ embedded' \in {embedded, embedded \/ (~opened \/ Present = {})}
    BY <1>7 DEF SearchBegins
  <2>2. embedded' \in BOOLEAN
    BY <2>1, Zenon
  <2>3. toolCalls' \in 0 .. MaxToolCalls
    BY <1>0, <2>1
  <2> QED BY <2>1, <2>2, <2>3
<1>8. ASSUME NEW c \in ToolCallers, EmbedTools(c) PROVE ToolBounds'
  BY <1>8, CallCarries DEF EmbedTools
<1>9. ASSUME NEW c \in ToolCallers, SearchToolsSemantic(c) PROVE ToolBounds'
  BY <1>9 DEF SearchToolsSemantic, Answers, FallsThrough
<1>10. ASSUME NEW c \in ToolCallers, SearchFts(c) \/ ToolSuggest(c) PROVE ToolBounds'
  BY <1>10 DEF SearchFts, ToolSuggest, Answers, ReadsOnly
<1>11. ASSUME NEW c \in ToolCallers, ToolInfo(c) PROVE ToolBounds'
  BY <1>11 DEF ToolInfo, ReadsOnly, GetTool, IntoFullInfo
<1>12. ASSUME NEW c \in ToolCallers, NEW filter \in {NoTool, "enabled"}, ToolList(c, filter) PROVE ToolBounds'
  BY <1>12 DEF ToolList, ReadsOnly, Suggest
<1>13. ASSUME NEW c \in ToolCallers, NEW f \in Families, EnableLoads(c, f) PROVE ToolBounds'
  BY <1>0, <1>13 DEF EnableLoads
<1>14. ASSUME NEW c \in ToolCallers, EnableSaves(c) PROVE ToolBounds'
  BY <1>14, CallCarries DEF EnableSaves
<1>15. CASE ToolRestart
  <2>1. /\ UNCHANGED <<enabledFor, inventory, binaries, toolPoints, found, granted, crossed>>
        /\ toolCalls < MaxToolCalls /\ toolCalls' = toolCalls + 1 /\ opened' = FALSE /\ embedded' = FALSE
    BY <1>15 DEF ToolRestart
  <2>2. opened' \in BOOLEAN /\ embedded' \in BOOLEAN
    BY <2>1
  <2>3. toolCalls' \in 0 .. MaxToolCalls
    BY <1>0, <2>1
  <2> QED BY <2>1, <2>2, <2>3
<1>16. CASE UNCHANGED toolVars
  BY <1>16 DEF toolVars
<1> QED BY <1>1, <1>2, <1>3, <1>4, <1>5, <1>6, <1>7, <1>8, <1>9, <1>10, <1>11, <1>12, <1>13, <1>14, <1>15, <1>16 DEF ToolNext

LEMMA ToolsAreTyped == ToolSpec => []ToolTypeOK
<1>1. ToolInit => ToolInv /\ Installs /\ ToolBounds
  BY ToolInitInv, ToolBegins DEF ToolInit, Installs, NoCall
<1>2. ToolInv /\ Installs /\ ToolBounds /\ [ToolNext]_toolVars => (ToolInv /\ Installs /\ ToolBounds)'
  BY ToolNextInv, InstallsKept, ToolBoundsKept
<1>3. ToolInv /\ ToolBounds => ToolTypeOK
  <2> SUFFICES ASSUME ToolInv, ToolBounds PROVE ToolTypeOK
    OBVIOUS
  <2>1. \A c \in ToolCallers : caller[c] \in Calls
    BY DEF ToolInv, ToolShape
  <2>2. \A c \in ToolCallers : caller[c].phase \in
          {"idle", "opening", "importing", "opened", "ready", "installing", "embedding", "asking", "loaded"}
    BY <2>1 DEF Calls, NoCall, ToolCall, SearchCall, EnableCall, Phases
  <2> QED BY <2>2 DEF ToolTypeOK, ToolBounds, ToolInv, ToolShape, FamiliesInv
<1> QED BY <1>1, <1>2, <1>3, PTL DEF ToolSpec

-----------------------------------------------------------------------------
(* The window of samples has a middle: the least sample that more than half *)
(* of them do not exceed.                                                   *)
LEMMA MiddleIs ==
    ASSUME NEW s \in Seq(Nat), s # <<>>
    PROVE  \E v \in Range(s) : /\ Cardinality({k \in DOMAIN s : s[k] < v}) <= Len(s) \div 2
                               /\ Cardinality({k \in DOMAIN s : s[k] < v + 1}) > Len(s) \div 2
<1> DEFINE D == 1 .. Len(s)
           below(v) == {k \in D : s[k] < v}
           M == {v \in Range(s) : Cardinality(below(v + 1)) > Len(s) \div 2}
<1>1. /\ Len(s) \in Nat \ {0} /\ DOMAIN s = D /\ (\A k \in D : s[k] \in Nat)
      /\ s \in [D -> Range(s)] /\ \A x \in Range(s) : x \in Nat /\ \E k \in D : s[k] = x
  <2>1. Len(s) \in Nat \ {0} /\ DOMAIN s = D /\ \A k \in D : s[k] \in Nat
    OBVIOUS
  <2>2. Range(s) = {s[k] : k \in D}
    BY <2>1 DEF Range
  <2> QED BY <2>1, <2>2
<1>2. IsFiniteSet(D) /\ Cardinality(D) = Len(s)
  <2>1. PICK n \in Nat : n = Len(s)
    BY <1>1
  <2>2. 1 \in Int /\ n \in Int
    OBVIOUS
  <2>3. IsFiniteSet(1 .. n) /\ Cardinality(1 .. n) = IF 1 > n THEN 0 ELSE n - 1 + 1
    BY <2>2, FS_Interval
  <2> QED BY <2>1, <2>3
<1>3. \A v \in Nat : IsFiniteSet(below(v)) /\ Cardinality(below(v)) \in Nat
  BY <1>2, FS_Subset, FS_CardinalityType
<1>4. Len(s) \div 2 \in Nat /\ Len(s) \div 2 < Len(s)
  BY <1>1
<1>5. \A v \in Nat : below(v) \subseteq D /\ \A k \in D : k \in below(v) <=> s[k] < v
  OBVIOUS
<1> HIDE DEF below
<1>6. IsFiniteSet(Range(s)) /\ Range(s) # {} /\ Range(s) \subseteq Int
  <2>1. s \in Surjection(D, Range(s))
    BY <1>1 DEF Surjection
  <2>2. IsFiniteSet(Range(s))
    BY <1>2, <2>1, FS_Surjection
  <2>3. 1 \in D /\ s[1] \in Range(s)
    BY <1>1
  <2> QED BY <1>1, <2>2, <2>3
<1>7. M # {}
  <2>1. PICK top \in Range(s) : \A x \in Range(s) : x <= top
    <3>1. Max(Range(s)) \in Range(s) /\ \A x \in Range(s) : x <= Max(Range(s))
      BY <1>6, MaxIs
    <3> QED BY <3>1
  <2>2. top \in Nat /\ top + 1 \in Nat
    BY <1>1
  <2>3. ASSUME NEW k \in D PROVE s[k] < top + 1
    <3>1. s[k] \in Range(s) /\ s[k] \in Nat
      BY <1>1
    <3>2. s[k] <= top
      BY <2>1, <3>1
    <3> QED BY <2>2, <3>1, <3>2
  <2>4. below(top + 1) = D
    BY <1>5, <2>2, <2>3
  <2>5. top \in M
    BY <1>2, <1>4, <2>4
  <2> QED BY <2>5
<1>8. PICK v \in M : \A w \in M : v <= w
  <2>1. M \subseteq Nat
    BY <1>1
  <2> QED BY <1>7, <2>1, LeastNumber
<1>9. v \in Range(s) /\ v \in Nat /\ Cardinality(below(v + 1)) > Len(s) \div 2
  BY <1>1, <1>8
<1>10. Cardinality(below(v)) <= Len(s) \div 2
  <2>1. CASE below(v) = {}
    <3>1. Cardinality(below(v)) = 0
      BY <2>1, FS_EmptySet
    <3> QED BY <1>4, <3>1
  <2>2. CASE below(v) # {}
    <3> DEFINE low == {x \in Range(s) : x < v}
    <3>1. IsFiniteSet(low) /\ low # {} /\ low \subseteq Int
      <4>1. IsFiniteSet(low)
        BY <1>6, FS_Subset
      <4>2. low # {}
        BY <1>1, <1>5, <1>9, <2>2
      <4> QED BY <1>6, <4>1, <4>2
    <3>2. PICK w \in low : \A x \in low : x <= w
      <4>1. Max(low) \in low /\ \A x \in low : x <= Max(low)
        BY <3>1, MaxIs
      <4> QED BY <4>1
    <3>3. w \in Range(s) /\ w \in Nat /\ w + 1 \in Nat /\ w < v
      BY <1>1, <3>2
    <3>4. \A k \in D : s[k] < v <=> s[k] < w + 1
      <4> SUFFICES ASSUME NEW k \in D PROVE s[k] < v <=> s[k] < w + 1
        OBVIOUS
      <4>1. s[k] \in Range(s) /\ s[k] \in Nat
        BY <1>1
      <4>2. s[k] < v => s[k] <= w
        BY <3>2, <4>1
      <4> QED BY <1>9, <3>3, <4>1, <4>2
    <3>5. below(v) = below(w + 1)
      BY <1>5, <1>9, <3>3, <3>4
    <3>6. ~(Cardinality(below(w + 1)) > Len(s) \div 2)
      <4>1. w \notin M
        BY <1>1, <1>8, <1>9, <3>3
      <4> QED BY <3>3, <4>1
    <3>7. Cardinality(below(w + 1)) \in Nat
      BY <1>3, <3>3
    <3> QED BY <1>4, <3>5, <3>6, <3>7
  <2> QED BY <2>1, <2>2
<1>11. \A x : below(x) = {k \in DOMAIN s : s[k] < x}
  BY <1>1 DEF below
<1> QED BY <1>9, <1>10, <1>11

LEMMA P50Is ==
    ASSUME NEW h, h.samples \in Seq(Latencies) PROVE P50(h) \in Nat
<1> DEFINE s == h.samples
<1>1. Latencies \subseteq Nat
  BY ProviderPoolAssumption
<1>2. s \in Seq(Nat)
  <2>0. s \in Seq(Latencies)
    OBVIOUS
  <2> HIDE DEF s
  <2>1. /\ s = [k \in 1 .. Len(s) |-> s[k]] /\ Len(s) \in Nat /\ \A k \in 1 .. Len(s) : s[k] \in Latencies
    BY <2>0
  <2>2. \A k \in 1 .. Len(s) : s[k] \in Nat
    BY <1>1, <2>1
  <2> QED BY <2>1, <2>2
<1>3. CASE s = <<>>
  BY <1>3 DEF P50
<1>4. CASE s # <<>>
  <2>1. Range(s) \subseteq Nat
    BY <1>2 DEF Range
  <2>2. \E v \in Range(s) : /\ Cardinality({k \in DOMAIN s : s[k] < v}) <= Len(s) \div 2
                            /\ Cardinality({k \in DOMAIN s : s[k] < v + 1}) > Len(s) \div 2
    BY <1>2, <1>4, MiddleIs
  <2>3. P50(h) \in Range(s)
    BY <1>4, <2>2 DEF P50
  <2> QED BY <2>1, <2>3
<1> QED BY <1>3, <1>4

-----------------------------------------------------------------------------
Picks == [id: Provider, p50: Nat]
Health == [status: {"unknown", "healthy", "unhealthy"}, failures: 0 .. Len(Cooldowns), until: Nat,
           samples: {s \in Seq(Latencies) : Len(s) <= WindowSize}]

PoolBounds ==
    /\ policy \in Policies /\ clock \in 0 .. MaxClock /\ health \in [Provider -> Health]
    /\ \A r \in Asking : asking[r].picked \in Seq(Picks)

LEMMA PoolStarts == PoolInit => PoolBounds
<1> SUFFICES ASSUME PoolInit PROVE PoolBounds
  OBVIOUS
<1>1. Len(Cooldowns) \in Nat /\ WindowSize \in Nat /\ MaxClock \in Nat
  BY ProviderPoolAssumption
<1>2. <<>> \in Seq(Latencies) /\ Len(<<>>) = 0 /\ <<>> \in Seq(Picks)
  OBVIOUS
<1>3. NewHealth \in Health
  BY <1>1, <1>2 DEF NewHealth, Health
<1>4. health \in [Provider -> Health]
  BY <1>3 DEF PoolInit
<1>5. \A r \in Asking : asking[r].picked \in Seq(Picks)
  BY <1>2 DEF PoolInit, Rest
<1>6. policy \in Policies /\ clock \in 0 .. MaxClock
  BY <1>1 DEF PoolInit
<1> QED BY <1>4, <1>5, <1>6 DEF PoolBounds

LEMMA SuccessIsHealth ==
    ASSUME NEW h \in Health, NEW latency \in Latencies PROVE RecordSuccess(h, latency) \in Health
<1> DEFINE all == Append(h.samples, latency)
           kept == IF Len(all) > WindowSize THEN Tail(all) ELSE all
<1>1. WindowSize \in Nat \ {0} /\ Len(Cooldowns) \in Nat
  BY ProviderPoolAssumption
<1>2. h.samples \in Seq(Latencies) /\ Len(h.samples) <= WindowSize
  BY DEF Health
<1>3. all \in Seq(Latencies) /\ Len(all) = Len(h.samples) + 1 /\ Len(h.samples) \in Nat
  BY <1>2
<1> HIDE DEF all
<1>4. kept \in Seq(Latencies) /\ Len(kept) <= WindowSize
  <2>1. CASE Len(all) > WindowSize
    <3>1. Tail(all) \in Seq(Latencies) /\ Len(Tail(all)) = Len(all) - 1
      BY <1>1, <1>3, <2>1
    <3> QED BY <1>1, <1>2, <1>3, <2>1, <3>1
  <2>2. CASE ~(Len(all) > WindowSize)
    BY <1>1, <1>3, <2>2
  <2> QED BY <2>1, <2>2
<1>5. RecordSuccess(h, latency) = [status |-> "healthy", failures |-> 0, until |-> 0, samples |-> kept]
  BY DEF RecordSuccess, all
<1> HIDE DEF kept
<1> QED BY <1>1, <1>4, <1>5 DEF Health

LEMMA FailureIsHealth ==
    ASSUME NEW h \in Health, clock \in Nat PROVE RecordFailure(h) \in Health
<1> DEFINE n == h.failures + 1
           L == Len(Cooldowns)
<1>1. L \in Nat \ {0} /\ Cooldowns \in Seq(Nat)
  <2>1. Cooldowns \in Seq(Nat) /\ Cooldowns # <<>>
    BY ProviderPoolAssumption
  <2> QED BY <2>1
<1>2. h.failures \in 0 .. L /\ n \in Nat /\ n >= 1
  BY <1>1 DEF Health
<1>3. (IF n < L THEN n ELSE L) \in 1 .. L /\ (IF n > L THEN L ELSE n) \in 0 .. L
  BY <1>1, <1>2
<1>4. CooldownDuration(n) \in Nat
  <2> DEFINE m == IF n < L THEN n ELSE L
  <2>1. m \in 1 .. L
    BY <1>3
  <2>2. CooldownDuration(n) = Cooldowns[m]
    BY DEF CooldownDuration
  <2> HIDE DEF m, n, L
  <2>3. Cooldowns[m] \in Nat
    BY <1>1, <2>1 DEF L
  <2> QED BY <2>2, <2>3
<1>5. clock + CooldownDuration(n) \in Nat
  BY <1>4
<1>6. RecordFailure(h) = [h EXCEPT !.status = "unhealthy", !.failures = IF n > L THEN L ELSE n,
                                   !.until = clock + CooldownDuration(n)]
  BY DEF RecordFailure
<1> HIDE DEF n
<1> QED BY <1>3, <1>5, <1>6 DEF Health

LEMMA PoolBoundsKept ==
    ASSUME PoolInv, PoolBounds, [PoolNext]_poolVars PROVE PoolBounds'
<1>1. PICK S : asking \in [Asking -> PoolRequest(S)]
  BY DEF PoolInv
<1>2. /\ policy \in Policies /\ clock \in 0 .. MaxClock /\ MaxClock \in Nat /\ health \in [Provider -> Health]
      /\ \A r \in Asking : asking[r].picked \in Seq(Picks)
  BY ProviderPoolAssumption DEF PoolBounds
<1>3. ASSUME NEW r \in Asking, NEW picked \in Seq(Picks), NEW a, a.picked = picked, asking' = [asking EXCEPT ![r] = a]
      PROVE  \A q \in Asking : asking'[q].picked \in Seq(Picks)
  BY <1>1, <1>2, <1>3
<1>4. <<>> \in Seq(Picks)
  OBVIOUS
<1>5. ASSUME NEW r \in Asking, asking[r].order # <<>>
      PROVE  Head(asking[r].order) \in Provider
  <2>1. asking[r].order \in Seq(Provider)
    BY <1>1 DEF PoolRequest
  <2> QED BY <1>5, <2>1
<1>6. ASSUME NEW r \in Asking, ClassifyBegins(r) PROVE PoolBounds'
  <2> DEFINE a == [Rest EXCEPT !.phase = "selecting", !.order = Rotated(IF policy = "RoundRobin" THEN robin ELSE 0)]
  <2>1. asking' = [asking EXCEPT ![r] = a] /\ UNCHANGED <<policy, health, clock>>
    BY <1>6 DEF ClassifyBegins
  <2>2. a.picked = <<>>
    BY DEF Rest
  <2> HIDE DEF a
  <2> QED BY <1>2, <1>3, <1>4, <2>1, <2>2 DEF PoolBounds
<1>7. ASSUME NEW r \in Asking, SelectProvider(r) PROVE PoolBounds'
  <2> DEFINE i == Head(asking[r].order)
             picked == IF IsAvailable(health[i]) THEN Append(asking[r].picked, [id |-> i, p50 |-> P50(health[i])])
                       ELSE asking[r].picked
             a == [asking[r] EXCEPT !.order = Tail(@), !.picked = picked,
                                    !.skipped = IF IsAvailable(health[i]) THEN @ ELSE @ \union {i}]
  <2>1. asking' = [asking EXCEPT ![r] = a] /\ UNCHANGED <<policy, health, clock>> /\ asking[r].order # <<>>
    BY <1>1, <1>7 DEF SelectProvider
  <2>2. i \in Provider /\ health[i] \in Health
    BY <1>2, <1>5, <2>1
  <2>3. P50(health[i]) \in Nat
    BY <2>2, P50Is DEF Health
  <2>4. [id |-> i, p50 |-> P50(health[i])] \in Picks
    BY <2>2, <2>3 DEF Picks
  <2>5. picked \in Seq(Picks)
    BY <1>2, <2>4
  <2>6. a.picked = picked
    BY <1>1 DEF PoolRequest
  <2> HIDE DEF a, picked, i
  <2> QED BY <1>2, <1>3, <2>1, <2>5, <2>6 DEF PoolBounds
<1>8. ASSUME NEW r \in Asking, StartTrying(r) PROVE PoolBounds'
  <2>1. PICK order : asking' = [asking EXCEPT ![r].phase = "trying", ![r].order = order, ![r].picked = <<>>]
    BY <1>8 DEF StartTrying
  <2> DEFINE a == [asking[r] EXCEPT !.phase = "trying", !.order = order, !.picked = <<>>]
  <2>2. asking' = [asking EXCEPT ![r] = a] /\ UNCHANGED <<policy, health, clock>>
    BY <1>1, <1>8, <2>1 DEF StartTrying
  <2>3. a.picked = <<>>
    BY <1>1 DEF PoolRequest
  <2> HIDE DEF a
  <2> QED BY <1>2, <1>3, <1>4, <2>2, <2>3 DEF PoolBounds
<1>9. ASSUME NEW r \in Asking, NEW latency \in Latencies, ProviderAnswers(r, latency) PROVE PoolBounds'
  <2> DEFINE a == [asking[r] EXCEPT !.phase = "answered", !.order = <<>>, !.intent = "provider"]
             i == Head(asking[r].order)
  <2>1. /\ asking' = [asking EXCEPT ![r] = a] /\ health' = [health EXCEPT ![i] = RecordSuccess(health[i], latency)]
        /\ UNCHANGED <<policy, clock>> /\ asking[r].order # <<>>
    BY <1>1, <1>2, <1>9 DEF ProviderAnswers
  <2>2. RecordSuccess(health[i], latency) \in Health
    BY <1>2, <1>5, <2>1, SuccessIsHealth
  <2>3. a.picked = asking[r].picked
    BY <1>1 DEF PoolRequest
  <2> HIDE DEF a, i
  <2> QED BY <1>2, <1>3, <2>1, <2>2, <2>3 DEF PoolBounds
<1>10. ASSUME NEW r \in Asking, ProviderFails(r) PROVE PoolBounds'
  <2> DEFINE i == Head(asking[r].order)
             a == [asking[r] EXCEPT !.order = Tail(@), !.failed = @ \union {i}]
  <2>1. /\ asking' = [asking EXCEPT ![r] = a] /\ health' = [health EXCEPT ![i] = RecordFailure(health[i])]
        /\ UNCHANGED <<policy, clock>> /\ asking[r].order # <<>>
    BY <1>1, <1>2, <1>10 DEF ProviderFails
  <2>2. RecordFailure(health[i]) \in Health
    BY <1>2, <1>5, <2>1, FailureIsHealth
  <2>3. a.picked = asking[r].picked
    BY <1>1 DEF PoolRequest
  <2> HIDE DEF a, i
  <2> QED BY <1>2, <1>3, <2>1, <2>2, <2>3 DEF PoolBounds
<1>11. ASSUME NEW r \in Asking, FallsBackToRules(r) PROVE PoolBounds'
  <2> DEFINE a == [asking[r] EXCEPT !.phase = "answered", !.intent = "rules"]
  <2>1. asking' = [asking EXCEPT ![r] = a] /\ UNCHANGED <<policy, health, clock>>
    BY <1>1, <1>11 DEF FallsBackToRules
  <2>2. a.picked = asking[r].picked
    BY <1>1 DEF PoolRequest
  <2> HIDE DEF a
  <2> QED BY <1>2, <1>3, <2>1, <2>2 DEF PoolBounds
<1>12. CASE ClockTicks
  BY <1>2, <1>12 DEF ClockTicks, PoolBounds
<1>13. CASE UNCHANGED poolVars
  BY <1>2, <1>13 DEF poolVars, PoolBounds
<1> QED BY <1>6, <1>7, <1>8, <1>9, <1>10, <1>11, <1>12, <1>13 DEF PoolNext

LEMMA PoolIsTyped == PoolSpec => []PoolTypeOK
<1>1. PoolInit => PoolInv /\ PoolBounds
  BY PoolBegins, PoolStarts
<1>2. PoolInv /\ PoolBounds /\ [PoolNext]_poolVars => (PoolInv /\ PoolBounds)'
  BY PoolStep, PoolBoundsKept
<1>3. PoolInv /\ PoolBounds => PoolTypeOK
  <2> SUFFICES ASSUME PoolInv, PoolBounds PROVE PoolTypeOK
    OBVIOUS
  <2>1. PICK S : asking \in [Asking -> PoolRequest(S)]
    BY DEF PoolInv
  <2>2. \A r \in Asking : /\ asking[r].phase \in {"idle", "selecting", "trying", "answered"}
                          /\ asking[r].order \in Seq(Provider) /\ asking[r].picked \in Seq([id: Provider, p50: Nat])
                          /\ asking[r].failed \subseteq Provider /\ asking[r].skipped \subseteq Provider
                          /\ asking[r].intent \in {"none", "rules", "provider"}
    BY <2>1 DEF PoolRequest, PoolBounds, Picks
  <2>3. \A i \in Provider :
          /\ health[i].status \in {"unknown", "healthy", "unhealthy"}
          /\ health[i].failures \in 0 .. Len(Cooldowns) /\ health[i].until \in Nat
          /\ health[i].samples \in Seq(Latencies) /\ Len(health[i].samples) <= WindowSize
    BY DEF PoolBounds, Health
  <2> QED BY <2>2, <2>3 DEF PoolTypeOK, PoolBounds, PoolInv, RequestsInv
<1> QED BY <1>1, <1>2, <1>3, PTL DEF PoolSpec

-----------------------------------------------------------------------------
(* Every call that was begun is at work, has left its row in audit_events,  *)
(* or was refused: rows and calls at work are not more than calls begun.    *)
AtWork == {c \in Runners : runner[c] # NoRun}

RunBounds ==
    /\ runs \in 0 .. MaxRuns /\ IsFiniteSet(AtWork)
    /\ \A s \in Stores : audits[s] + Cardinality(AtWork) <= runs
    /\ Cardinality(AtWork) <= runs /\ told \subseteq asked
    /\ \A c \in Runners : runner[c].phase \in {"interactive", "recording"} =>
          GrantOf(runner[c].store, runner[c].action, runner[c].scope) \subseteq asked

LEMMA RunStarts == RunInit => RunBounds
<1> SUFFICES ASSUME RunInit PROVE RunBounds
  OBVIOUS
<1>1. AtWork = {}
  BY DEF RunInit, AtWork
<1>2. IsFiniteSet(AtWork) /\ Cardinality(AtWork) = 0
  BY <1>1, FS_EmptySet
<1>3. MaxRuns \in Nat
  BY ToolRunAssumption
<1> QED BY <1>2, <1>3 DEF RunInit, RunBounds, NoRun

LEMMA WorkChanges ==
    ASSUME RunShape, IsFiniteSet(AtWork), NEW c \in Runners, NEW r, runner' = [runner EXCEPT ![c] = r]
    PROVE  /\ IsFiniteSet(AtWork') /\ Cardinality(AtWork) \in Nat /\ Cardinality(AtWork') \in Nat
           /\ r = NoRun => Cardinality(AtWork') <= Cardinality(AtWork)
           /\ r = NoRun /\ runner[c] # NoRun => Cardinality(AtWork') + 1 = Cardinality(AtWork)
           /\ r # NoRun /\ runner[c] # NoRun => AtWork' = AtWork
           /\ r # NoRun /\ runner[c] = NoRun => Cardinality(AtWork') = Cardinality(AtWork) + 1
<1>0. Cardinality(AtWork) \in Nat
  BY FS_CardinalityType
<1>1. CASE r = NoRun
  <2>1. AtWork' = AtWork \ {c}
    BY <1>1 DEF RunShape, AtWork
  <2>2. IsFiniteSet(AtWork \ {c}) /\ Cardinality(AtWork \ {c}) = IF c \in AtWork THEN Cardinality(AtWork) - 1 ELSE Cardinality(AtWork)
    BY FS_RemoveElement
  <2>3. runner[c] # NoRun => c \in AtWork
    BY DEF AtWork
  <2>4. Cardinality(AtWork \ {c}) \in Nat
    BY <2>2, FS_CardinalityType
  <2> QED BY <1>0, <1>1, <2>1, <2>2, <2>3, <2>4
<1>2. CASE r # NoRun
  <2>1. AtWork' = AtWork \union {c}
    BY <1>2 DEF RunShape, AtWork
  <2>2. IsFiniteSet(AtWork \union {c})
        /\ Cardinality(AtWork \union {c}) = IF c \in AtWork THEN Cardinality(AtWork) ELSE Cardinality(AtWork) + 1
    BY FS_AddElement
  <2>3. runner[c] # NoRun <=> c \in AtWork
    BY DEF AtWork
  <2> QED BY <1>0, <1>2, <2>1, <2>2, <2>3
<1> QED BY <1>1, <1>2

LEMMA WorkBegins ==
    ASSUME RunShape, IsFiniteSet(AtWork), NEW c \in Runners, NEW r, r # NoRun, runner[c] = NoRun,
           runner' = [runner EXCEPT ![c] = r]
    PROVE  IsFiniteSet(AtWork') /\ Cardinality(AtWork') = Cardinality(AtWork) + 1
<1>1. AtWork' = AtWork \union {c}
  BY DEF RunShape, AtWork
<1>2. c \notin AtWork
  BY DEF AtWork
<1> QED BY <1>1, <1>2, FS_AddElement

LEMMA RunBoundsKept ==
    ASSUME RunInv, RunBounds, [RunNext]_runVars PROVE RunBounds'
<1>0. /\ RunShape /\ MaxRuns \in Nat /\ runs \in 0 .. MaxRuns /\ IsFiniteSet(AtWork) /\ Cardinality(AtWork) \in Nat
      /\ Cardinality(AtWork) <= runs /\ told \subseteq asked /\ audits \in [Stores -> Nat]
      /\ \A s \in Stores : audits[s] \in Nat /\ audits[s] + Cardinality(AtWork) <= runs
  BY ToolRunAssumption, FS_CardinalityType DEF RunInv, RunBounds, RunShape
<1>1. ASSUME NEW k \in Actions, RunsFreely(k) PROVE RunBounds'
  <2>1. /\ runs' = runs + 1 /\ runs < MaxRuns /\ UNCHANGED <<audits, runner, asked, told>>
    BY <1>1 DEF RunsFreely
  <2>2. AtWork' = AtWork
    BY <2>1 DEF AtWork
  <2>3. \A s \in Stores : audits'[s] + Cardinality(AtWork') <= runs'
    BY <1>0, <2>1, <2>2
  <2>4. runs' \in 0 .. MaxRuns /\ Cardinality(AtWork') <= runs'
    BY <1>0, <2>1, <2>2
  <2> QED BY <1>0, <2>1, <2>2, <2>3, <2>4 DEF RunBounds
<1>2. ASSUME NEW c \in Runners, NEW r, r # NoRun, runner[c] = NoRun, runner' = [runner EXCEPT ![c] = r],
             runs < MaxRuns, runs' = runs + 1, UNCHANGED <<audits, told>>, asked \subseteq asked',
             r.phase \in {"interactive", "recording"} => GrantOf(r.store, r.action, r.scope) \subseteq asked'
      PROVE  RunBounds'
  <2>0. RunShape /\ IsFiniteSet(AtWork) /\ c \in Runners /\ runner' = [runner EXCEPT ![c] = r] /\ r # NoRun /\ runner[c] = NoRun
    BY <1>0, <1>2
  <2>1. IsFiniteSet(AtWork') /\ Cardinality(AtWork') = Cardinality(AtWork) + 1
    BY <2>0, WorkBegins
  <2>2. \A d \in Runners : runner'[d] = IF d = c THEN r ELSE runner[d]
    BY <1>0, <1>2 DEF RunShape
  <2>3. \A d \in Runners : runner'[d].phase \in {"interactive", "recording"} =>
          GrantOf(runner'[d].store, runner'[d].action, runner'[d].scope) \subseteq asked'
    BY <1>2, <2>2 DEF RunBounds
  <2>4. \A s \in Stores : audits'[s] + Cardinality(AtWork') <= runs'
    BY <1>0, <1>2, <2>1
  <2>5. runs' \in 0 .. MaxRuns /\ Cardinality(AtWork') <= runs'
    BY <1>0, <1>2, <2>1
  <2> QED BY <1>0, <1>2, <2>1, <2>3, <2>4, <2>5 DEF RunBounds
<1>3. ASSUME NEW c \in Runners, NEW s \in Stores, NEW k \in Actions, HeadlessBegins(c, s, k) PROVE RunBounds'
  <2> DEFINE r == [phase |-> "headless", store |-> s, action |-> k, scope |-> "once",
                   session |-> k \in sessionApprovals, due |-> Covers(told, s, k)]
  <2>1. runner' = [runner EXCEPT ![c] = r] /\ runner[c] = NoRun /\ runs < MaxRuns /\ runs' = runs + 1
        /\ UNCHANGED <<audits, told, asked>>
    BY <1>3 DEF HeadlessBegins
  <2>2. r.phase = "headless" /\ NoRun.phase = "idle"
    BY DEF NoRun
  <2> HIDE DEF r
  <2> QED BY <1>2, <2>1, <2>2
<1>4. ASSUME NEW c \in Runners, NEW s \in Stores, NEW k \in Actions, NEW scope \in Scopes, InteractiveBegins(c, s, k, scope)
      PROVE  RunBounds'
  <2> DEFINE r == [phase |-> "interactive", store |-> s, action |-> k, scope |-> scope, session |-> FALSE, due |-> FALSE]
  <2>1. runner' = [runner EXCEPT ![c] = r] /\ runner[c] = NoRun /\ runs < MaxRuns /\ runs' = runs + 1
        /\ UNCHANGED <<audits, told>> /\ asked' = asked \union GrantOf(s, k, scope)
    BY <1>4 DEF InteractiveBegins
  <2>2. r.phase = "interactive" /\ NoRun.phase = "idle" /\ r.store = s /\ r.action = k /\ r.scope = scope
    BY DEF NoRun
  <2> HIDE DEF r
  <2> QED BY <1>2, <2>1, <2>2
<1>5. ASSUME NEW c \in Runners, runner[c].phase # "idle", EndsRun(c), UNCHANGED <<runs, asked>>, told' \subseteq asked,
             \A s \in Stores : audits'[s] \in {audits[s], audits[s] + 1}
      PROVE  RunBounds'
  <2>1. runner' = [runner EXCEPT ![c] = NoRun] /\ runner[c] # NoRun
    BY <1>5 DEF EndsRun, NoRun
  <2>2. IsFiniteSet(AtWork') /\ Cardinality(AtWork') + 1 = Cardinality(AtWork) /\ Cardinality(AtWork') \in Nat
    BY <1>0, <2>1, WorkChanges
  <2>3. \A d \in Runners : runner'[d] = IF d = c THEN NoRun ELSE runner[d]
    BY <1>0, <2>1 DEF RunShape
  <2>4. \A d \in Runners : runner'[d].phase \in {"interactive", "recording"} =>
          GrantOf(runner'[d].store, runner'[d].action, runner'[d].scope) \subseteq asked'
    BY <1>5, <2>3 DEF RunBounds, NoRun
  <2>5. \A s \in Stores : audits'[s] + Cardinality(AtWork') <= runs'
    <3> SUFFICES ASSUME NEW s \in Stores PROVE audits'[s] + Cardinality(AtWork') <= runs'
      OBVIOUS
    <3>1. audits[s] \in Nat /\ audits[s] + Cardinality(AtWork) <= runs
      BY <1>0
    <3>2. audits'[s] \in Nat /\ audits'[s] <= audits[s] + 1
      BY <1>5, <3>1
    <3> QED BY <1>0, <1>5, <2>2, <3>1, <3>2
  <2>6. runs' \in 0 .. MaxRuns /\ Cardinality(AtWork') <= runs'
    BY <1>0, <1>5, <2>2
  <2> QED BY <1>0, <1>5, <2>2, <2>4, <2>5, <2>6 DEF RunBounds
<1>6. ASSUME NEW c \in Runners, HeadlessAnswers(c) PROVE RunBounds'
  <2>1. /\ runner[c].phase = "headless" /\ EndsRun(c) /\ UNCHANGED <<runs, asked, told>>
        /\ audits' = [audits EXCEPT ![runner[c].store] = @ + 1]
    BY <1>6 DEF HeadlessAnswers
  <2>2. \A s \in Stores : audits'[s] \in {audits[s], audits[s] + 1}
    BY <1>0, <2>1
  <2> QED BY <1>0, <1>5, <2>1, <2>2
<1>7. ASSUME NEW c \in Runners, InteractiveRecords(c) PROVE RunBounds'
  <2>1. /\ runner[c].phase = "recording" /\ EndsRun(c) /\ UNCHANGED <<runs, asked>>
        /\ audits' = [audits EXCEPT ![runner[c].store] = @ + 1]
        /\ told' = told \union GrantOf(runner[c].store, runner[c].action, runner[c].scope)
    BY <1>7 DEF InteractiveRecords
  <2>2. \A s \in Stores : audits'[s] \in {audits[s], audits[s] + 1}
    BY <1>0, <2>1
  <2>3. told' \subseteq asked
    BY <1>0, <2>1 DEF RunBounds
  <2> QED BY <1>5, <2>1, <2>2, <2>3
<1>8. ASSUME NEW c \in Runners, StoreRefuses(c) PROVE RunBounds'
  <2>1. runner[c].phase # "idle" /\ EndsRun(c) /\ UNCHANGED <<runs, asked, told, audits>>
    BY <1>8 DEF StoreRefuses
  <2> QED BY <1>0, <1>5, <2>1
<1>9. ASSUME NEW c \in Runners, InteractiveApproves(c) PROVE RunBounds'
  <2> DEFINE r == [runner[c] EXCEPT !.phase = "recording"]
  <2>1. runner' = [runner EXCEPT ![c] = r] /\ runner[c].phase = "interactive" /\ UNCHANGED <<runs, asked, told, audits>>
    BY <1>9 DEF InteractiveApproves
  <2>2. runner[c] \in Running
    BY <1>0, <2>1, RunningIs
  <2>3. r.phase = "recording" /\ r.store = runner[c].store /\ r.action = runner[c].action /\ r.scope = runner[c].scope
    BY <2>2 DEF Running
  <2>4. r # NoRun /\ runner[c] # NoRun
    BY <2>1, <2>3 DEF NoRun
  <2> HIDE DEF r
  <2>5. AtWork' = AtWork
    BY <1>0, <2>1, <2>4, WorkChanges
  <2>6. \A d \in Runners : runner'[d] = IF d = c THEN r ELSE runner[d]
    BY <1>0, <2>1 DEF RunShape
  <2>7. \A d \in Runners : runner'[d].phase \in {"interactive", "recording"} =>
          GrantOf(runner'[d].store, runner'[d].action, runner'[d].scope) \subseteq asked'
    BY <2>1, <2>3, <2>6 DEF RunBounds
  <2> QED BY <1>0, <2>1, <2>5, <2>7 DEF RunBounds
<1>10. CASE RunRestart
  <2>1. /\ runs < MaxRuns /\ runs' = runs + 1 /\ runner' = [c \in Runners |-> NoRun] /\ UNCHANGED audits
        /\ asked' = {g \in asked : g.scope = "forever"} /\ told' = {g \in told : g.scope = "forever"}
    BY <1>10 DEF RunRestart
  <2>2. AtWork' = {}
    BY <2>1 DEF AtWork
  <2>3. IsFiniteSet(AtWork') /\ Cardinality(AtWork') = 0
    BY <2>2, FS_EmptySet
  <2>4. \A s \in Stores : audits'[s] + Cardinality(AtWork') <= runs'
    BY <1>0, <2>1, <2>3
  <2>5. runs' \in 0 .. MaxRuns /\ Cardinality(AtWork') <= runs'
    BY <1>0, <2>1, <2>3
  <2>6. told' \subseteq asked'
    BY <1>0, <2>1
  <2>7. \A d \in Runners : runner'[d].phase = "idle"
    BY <2>1 DEF NoRun
  <2> QED BY <2>3, <2>4, <2>5, <2>6, <2>7 DEF RunBounds
<1>11. CASE UNCHANGED runVars
  <2>1. UNCHANGED <<runs, audits, runner, asked, told>>
    BY <1>11 DEF runVars
  <2>2. AtWork' = AtWork
    BY <2>1 DEF AtWork
  <2> QED BY <1>0, <2>1, <2>2 DEF RunBounds
<1> QED BY <1>1, <1>3, <1>4, <1>6, <1>7, <1>8, <1>9, <1>10, <1>11 DEF RunNext

LEMMA RunIsTyped == RunSpec => []RunTypeOK
<1>1. RunInit => RunInv /\ RunBounds
  BY InitInv, RunStarts
<1>2. RunInv /\ RunBounds /\ [RunNext]_runVars => (RunInv /\ RunBounds)'
  BY NextInv, RunBoundsKept
<1>3. RunInv /\ RunBounds => RunTypeOK
  <2> SUFFICES ASSUME RunInv, RunBounds PROVE RunTypeOK
    OBVIOUS
  <2>1. /\ RunShape /\ MaxRuns \in Nat /\ runs \in 0 .. MaxRuns /\ Cardinality(AtWork) \in Nat
        /\ \A s \in Stores : answered[s] <= audits[s]
    BY ToolRunAssumption, FS_CardinalityType DEF RunInv, RunBounds
  <2>2. /\ audits \in [Stores -> Nat] /\ answered \in [Stores -> Nat]
        /\ \A s \in Stores : audits[s] + Cardinality(AtWork) <= runs
    BY <2>1 DEF RunShape, RunBounds
  <2>3. \A s \in Stores : audits[s] \in 0 .. MaxRuns /\ answered[s] \in 0 .. MaxRuns
    <3> SUFFICES ASSUME NEW s \in Stores PROVE audits[s] \in 0 .. MaxRuns /\ answered[s] \in 0 .. MaxRuns
      OBVIOUS
    <3>1. audits[s] \in Nat /\ answered[s] \in Nat /\ audits[s] + Cardinality(AtWork) <= runs /\ answered[s] <= audits[s]
      BY <2>1, <2>2
    <3> QED BY <2>1, <3>1
  <2>4. audits \in [Stores -> 0 .. MaxRuns] /\ answered \in [Stores -> 0 .. MaxRuns]
    BY <2>2, <2>3
  <2>5. \A c \in Runners : runner[c].phase \in {"idle", "headless", "interactive", "recording"}
    <3>1. \A c \in Runners : runner[c] \in Running \union {NoRun}
      BY <2>1 DEF RunShape
    <3> QED BY <3>1 DEF Running, NoRun
  <2> QED BY <2>1, <2>4, <2>5 DEF RunTypeOK, RunShape, RunBounds
<1> QED BY <1>1, <1>2, <1>3, PTL DEF RunSpec

-----------------------------------------------------------------------------
(* The frames of all the scripts.                                           *)
ScriptLines == (UNION {MCScript[n] : n \in DOMAIN MCScript}) \union (UNION {MCOffers[n] : n \in DOMAIN MCOffers})

LEMMA ScriptsAreLines ==
    /\ \A line \in ScriptLines : IsLine(line)
    /\ \A n \in DOMAIN MCScript : MCScript[n] \subseteq ScriptLines
    /\ \A n \in DOMAIN MCOffers : MCOffers[n] \subseteq ScriptLines
<1>0. /\ DOMAIN MCScript = 1 .. 3 /\ DOMAIN MCOffers = 1 .. 1 /\ MCOffers[1] = Offers(1)
      /\ MCScript[1] = Documents(1) \union Noise /\ MCScript[2] = Documents(2) \union Noise /\ MCScript[3] = Documents(3)
  BY DEF MCScript, MCOffers
<1>1. ScriptLines \subseteq Offers(1) \union Documents(1) \union Documents(2) \union Documents(3) \union Noise
  <2> HIDE DEF MCScript, MCOffers
  <2>1. \A n \in 1 .. 3 : n = 1 \/ n = 2 \/ n = 3
    OBVIOUS
  <2>2. \A n \in 1 .. 1 : n = 1
    OBVIOUS
  <2>3. \A n \in DOMAIN MCScript : MCScript[n] \subseteq Documents(1) \union Documents(2) \union Documents(3) \union Noise
    BY <1>0, <2>1
  <2>4. \A n \in DOMAIN MCOffers : MCOffers[n] = Offers(1)
    BY <1>0, <2>2
  <2> QED BY <2>3, <2>4 DEF ScriptLines
<1>2. \A id \in {1, 2, 3} : \A line \in Offers(id) \union Documents(id) : line.kind = "request" /\ (line.call # "none" => line.method = "tools/call")
  BY DEF Offers, Documents, Calling, Frame
<1>3. \A line \in Noise : line.id = NoId /\ line.call = "none"
  BY DEF Noise, Frame
<1>4. \A line \in ScriptLines : IsLine(line)
  BY <1>1, <1>2, <1>3 DEF IsLine
<1>5. ASSUME NEW n \in DOMAIN MCScript PROVE MCScript[n] \subseteq ScriptLines
  BY Zenon DEF ScriptLines
<1>6. ASSUME NEW n \in DOMAIN MCOffers PROVE MCOffers[n] \subseteq ScriptLines
  BY Zenon DEF ScriptLines
<1> QED BY <1>4, <1>5, <1>6

LEMMA RpcHasTypes == ASSUME NEW Lines, RpcInv(Lines) PROVE RpcTypeOK
<1>1. RpcShape(Lines)
  BY DEF RpcInv
<1>2. ASSUME NEW c \in Connections
      PROVE  /\ DOMAIN stage[c] = Indices(c) /\ serving[c] \in {"open", "deaf", "ended"}
             /\ \A i \in Indices(c) : stage[c][i] \in Stages
  <2>1. stage[c] \in Seq(Stages) /\ frames[c] \in Seq(Lines) /\ Len(stage[c]) = Len(frames[c])
    BY <1>1 DEF RpcShape
  <2>2. DOMAIN stage[c] = Indices(c)
    BY <2>1 DEF Indices
  <2> QED BY <1>1, <2>1, <2>2 DEF RpcShape
<1> QED BY <1>1, <1>2 DEF RpcTypeOK, RpcShape, Stages, NoCorrelation

-----------------------------------------------------------------------------
(* Every update that has read the file has yet to open the temporary one:   *)
(* the inodes in use and the updates that may need one are not more than    *)
(* the updates begun and the file that was there before them.               *)
Merged == {u \in Updaters : updater[u].phase = "merged"}
Used == {configFile, tmpFile} \union {updater[u].inode : u \in Updaters}

UpdateType == [phase: {"idle", "merged", "writing", "written"}, inode: Inode \union {0}, layer: Layer, given: Layer]

ConfigBounds ==
    /\ content \in [Inode -> [state: {"whole", "empty", "mixed"}, layer: Layer]]
    /\ {configFile, tmpFile} \subseteq Inode \union {0} /\ updates \in 0 .. MaxUpdates
    /\ updater \in [Updaters -> UpdateType]
    /\ \A u \in Updaters : updater[u].phase \in {"writing", "written"} => updater[u].inode # 0
    /\ globalFile \in Layer /\ variables \in [Settings -> Values \union {Unset, Garbled}]
    /\ knobs \in Knobs /\ promised \in Layer /\ interfered \in BOOLEAN
    /\ IsFiniteSet(Merged) /\ IsFiniteSet(Used \ {0})
    /\ Cardinality(Used \ {0}) + Cardinality(Merged) <= updates + 1

(* An inode for one of them is there.                                       *)
LEMMA InodeIsFree ==
    ASSUME ConfigBounds, NEW u \in Merged
    PROVE  FreeInode \in Inode /\ FreeInode \notin Used
<1>1. /\ IsFiniteSet(Merged) /\ IsFiniteSet(Used \ {0}) /\ MaxUpdates \in Nat /\ updates \in 0 .. MaxUpdates
      /\ Cardinality(Used \ {0}) \in Nat /\ Cardinality(Merged) \in Nat
      /\ Cardinality(Used \ {0}) + Cardinality(Merged) <= updates + 1
  BY FS_CardinalityType, ConfigurationAssumption DEF ConfigBounds
<1>2. Cardinality(Merged) # 0
  BY <1>1, FS_EmptySet
<1>3. IsFiniteSet(Inode) /\ Cardinality(Inode) = MaxUpdates + 1
  <2> DEFINE last == MaxUpdates + 1
  <2>1. last \in Int /\ 1 \in Int /\ last >= 1
    BY <1>1
  <2> HIDE DEF last
  <2>2. IsFiniteSet(1 .. last) /\ Cardinality(1 .. last) = IF 1 > last THEN 0 ELSE last - 1 + 1
    BY <2>1, FS_Interval
  <2>3. IsFiniteSet(1 .. last) /\ Cardinality(1 .. last) = last
    BY <2>1, <2>2
  <2> QED BY <2>3 DEF Inode, last
<1>4. ~(Inode \subseteq Used \ {0})
  <2> SUFFICES ASSUME Inode \subseteq Used \ {0} PROVE FALSE
    OBVIOUS
  <2>1. Cardinality(Inode) <= Cardinality(Used \ {0})
    BY <1>1, FS_Subset
  <2> QED BY <1>1, <1>2, <1>3, <2>1
<1>5. PICK i \in Inode : i \notin Used
  BY <1>1, <1>4 DEF Inode
<1>6. i # configFile /\ i # tmpFile /\ \A w \in Updaters : updater[w].inode # i
  BY <1>5 DEF Used
<1>7. FreeInode \in Inode /\ FreeInode # configFile /\ FreeInode # tmpFile /\ \A w \in Updaters : updater[w].inode # FreeInode
  BY <1>6 DEF FreeInode
<1> QED BY <1>7 DEF Used

LEMMA OneMore ==
    ASSUME NEW s, IsFiniteSet(s), NEW x
    PROVE  /\ IsFiniteSet(s \union {x}) /\ Cardinality(s \union {x}) \in Nat /\ Cardinality(s) \in Nat
           /\ Cardinality(s \union {x}) <= Cardinality(s) + 1
<1>1. /\ IsFiniteSet(s \union {x})
      /\ Cardinality(s \union {x}) = IF x \in s THEN Cardinality(s) ELSE Cardinality(s) + 1
  BY FS_AddElement
<1>2. Cardinality(s) \in Nat
  BY FS_CardinalityType
<1> QED BY <1>1, <1>2

LEMMA UpdatesStart == ConfigInit => ConfigBounds
<1> SUFFICES ASSUME ConfigInit PROVE ConfigBounds
  OBVIOUS
<1>1. /\ tmpFile = 0 /\ updates = 0 /\ updater = [u \in Updaters |-> NoUpdate] /\ interfered = FALSE
      /\ \/ configFile = 0 /\ content = [i \in Inode |-> Torn("empty")] /\ promised = NoLayer
         \/ /\ configFile = 1 /\ promised \in Layer
            /\ content = [i \in Inode |-> IF i = 1 THEN Whole(promised) ELSE Torn("empty")]
  BY LayersMerge DEF ConfigInit
<1>2. NoLayer \in Layer /\ MaxUpdates \in Nat
  BY LayersMerge, ConfigurationAssumption
<1>3. knobs \in Knobs
  BY DEF ConfigInit, NoKnobs, Knobs, Urls
<1>4. globalFile \in Layer
  BY <1>2 DEF ConfigInit, Layer
<1>5. variables \in [Settings -> Values \union {Unset, Garbled}]
  BY DEF ConfigInit, NoLayer
<1>6. Merged = {} /\ Used \ {0} \subseteq {1} /\ IsFiniteSet({1}) /\ Cardinality({1}) = 1
  BY <1>1, FS_Singleton DEF Merged, Used, NoUpdate
<1>7. /\ IsFiniteSet(Merged) /\ IsFiniteSet(Used \ {0}) /\ Cardinality(Merged) = 0
      /\ Cardinality(Used \ {0}) <= 1 /\ Cardinality(Used \ {0}) \in Nat
  BY <1>6, FS_EmptySet, FS_Subset, FS_CardinalityType
<1>8. updater \in [Updaters -> UpdateType] /\ \A u \in Updaters : updater[u].phase = "idle"
  BY <1>1, <1>2 DEF NoUpdate, UpdateType
<1>9. content \in [Inode -> [state: {"whole", "empty", "mixed"}, layer: Layer]]
  BY <1>1, <1>2 DEF Torn, Whole
<1>10. Cardinality(Used \ {0}) + Cardinality(Merged) <= updates + 1 /\ updates \in 0 .. MaxUpdates
  BY <1>1, <1>2, <1>7
<1>11. promised \in Layer /\ {configFile, tmpFile} \subseteq Inode \union {0}
  BY <1>1, <1>2 DEF Inode
<1>13. interfered \in BOOLEAN
  BY <1>1
<1>12. \A u \in Updaters : updater[u].phase \in {"writing", "written"} => updater[u].inode # 0
  BY <1>8
<1> QED BY <1>3, <1>4, <1>5, <1>7, <1>8, <1>9, <1>10, <1>11, <1>12, <1>13 DEF ConfigBounds

(* What a step does to the count.                                           *)
LEMMA CountKept ==
    ASSUME ConfigBounds, NEW m, NEW n, n \subseteq Used \ {0}, m \subseteq Merged
    PROVE  /\ IsFiniteSet(m) /\ IsFiniteSet(n) /\ Cardinality(n) + Cardinality(m) <= updates + 1
           /\ Cardinality(m) \in Nat /\ Cardinality(n) \in Nat /\ updates \in Nat
<1>1. IsFiniteSet(Merged) /\ IsFiniteSet(Used \ {0}) /\ Cardinality(Used \ {0}) + Cardinality(Merged) <= updates + 1 /\ updates \in Nat
  BY DEF ConfigBounds
<1>2. IsFiniteSet(m) /\ Cardinality(m) <= Cardinality(Merged)
  BY <1>1, FS_Subset
<1>3. IsFiniteSet(n) /\ Cardinality(n) <= Cardinality(Used \ {0})
  BY <1>1, FS_Subset
<1>4. {Cardinality(m), Cardinality(n), Cardinality(Merged), Cardinality(Used \ {0})} \subseteq Nat
  BY <1>1, <1>2, <1>3, FS_CardinalityType
<1> QED BY <1>1, <1>2, <1>3, <1>4

LEMMA MergesKeepsBounds ==
    ASSUME ConfigBounds, NEW u \in Updaters, NEW given \in Layer, UpdateMerges(u, given) PROVE ConfigBounds'
<1> DEFINE base == IF configFile = 0 THEN NoLayer ELSE content[configFile].layer
           r == [phase |-> "merged", inode |-> 0, given |-> given, layer |-> Over(base, given)]
<1>1. /\ updater[u] = NoUpdate /\ updates < MaxUpdates /\ updates' = updates + 1
      /\ updater' = [updater EXCEPT ![u] = r] /\ interfered' \in BOOLEAN
      /\ UNCHANGED <<content, configFile, tmpFile, globalFile, variables, knobs, promised>>
  BY DEF UpdateMerges
<1>2. base \in Layer /\ MaxUpdates \in Nat
  BY LayersMerge, ConfigurationAssumption DEF ConfigBounds, Inode
<1>3. r \in UpdateType /\ r.phase = "merged" /\ r.inode = 0
  BY <1>2, LayersMerge DEF UpdateType
<1> HIDE DEF r, base
<1>4. \A w \in Updaters : updater'[w] = IF w = u THEN r ELSE updater[w]
  BY <1>1 DEF ConfigBounds
<1>5. updater' \in [Updaters -> UpdateType]
  BY <1>1, <1>3 DEF ConfigBounds
<1>6. Merged' = Merged \union {u} /\ Used' \ {0} \subseteq Used \ {0}
  BY <1>1, <1>3, <1>4 DEF Merged, Used, NoUpdate
<1>7. /\ IsFiniteSet(Used' \ {0}) /\ Cardinality(Used' \ {0}) + Cardinality(Merged) <= updates + 1 /\ IsFiniteSet(Merged)
      /\ Cardinality(Merged) \in Nat /\ Cardinality(Used' \ {0}) \in Nat /\ updates \in Nat
  BY <1>6, CountKept
<1>8. IsFiniteSet(Merged') /\ Cardinality(Merged') <= Cardinality(Merged) + 1 /\ Cardinality(Merged') \in Nat
  BY <1>6, <1>7, OneMore
<1>9. Cardinality(Used' \ {0}) + Cardinality(Merged') <= updates' + 1
  BY <1>1, <1>7, <1>8
<1>10. updates' \in 0 .. MaxUpdates
  BY <1>1, <1>2 DEF ConfigBounds
<1>11. \A w \in Updaters : updater'[w].phase \in {"writing", "written"} => updater'[w].inode # 0
  BY <1>3, <1>4 DEF ConfigBounds
<1> QED BY <1>1, <1>5, <1>7, <1>8, <1>9, <1>10, <1>11 DEF ConfigBounds

LEMMA OpensKeepsBounds == ASSUME ConfigBounds, NEW u \in Updaters, UpdateOpens(u) PROVE ConfigBounds'
<1> DEFINE i == IF tmpFile = 0 THEN FreeInode ELSE tmpFile
<1>1. /\ updater[u].phase = "merged" /\ tmpFile' = i /\ content' = [content EXCEPT ![i] = Torn("empty")]
      /\ updater' = [updater EXCEPT ![u].phase = "writing", ![u].inode = i]
      /\ UNCHANGED <<configFile, updates, globalFile, variables, knobs, promised, interfered>>
  BY DEF UpdateOpens
<1>2. u \in Merged /\ MaxUpdates \in Nat
  BY <1>1, ConfigurationAssumption DEF Merged
<1>3. i \in Inode /\ i # 0
  BY <1>2, InodeIsFree DEF Inode, ConfigBounds
<1> HIDE DEF i
<1>4. \A w \in Updaters : updater'[w] = IF w = u THEN [updater[u] EXCEPT !.phase = "writing", !.inode = i] ELSE updater[w]
  BY <1>1 DEF ConfigBounds
<1>5. updater[u] \in UpdateType
  BY DEF ConfigBounds
<1>6. updater'[u] \in UpdateType /\ updater'[u].phase = "writing" /\ updater'[u].inode = i
  BY <1>3, <1>4, <1>5 DEF UpdateType
<1>7. updater' \in [Updaters -> UpdateType]
  BY <1>1, <1>4, <1>6 DEF ConfigBounds
<1>8. Merged' = Merged \ {u} /\ Used' \ {0} \subseteq (Used \ {0}) \union {i}
  <2>1. \A w \in Updaters : w # u => updater'[w] = updater[w]
    BY <1>4
  <2>2. Merged' = Merged \ {u}
    BY <1>2, <1>6, <2>1 DEF Merged
  <2>3. {updater'[w].inode : w \in Updaters} \subseteq {updater[w].inode : w \in Updaters} \union {i}
    BY <1>6, <2>1
  <2>4. {configFile', tmpFile'} \subseteq {configFile, tmpFile} \union {i}
    BY <1>1
  <2> QED BY <2>2, <2>3, <2>4 DEF Used
<1>9. /\ IsFiniteSet(Used \ {0}) /\ Cardinality(Used \ {0}) + Cardinality(Merged) <= updates + 1 /\ IsFiniteSet(Merged)
      /\ Cardinality(Merged) \in Nat /\ Cardinality(Used \ {0}) \in Nat /\ updates \in Nat
  BY CountKept
<1>10. IsFiniteSet(Merged') /\ Cardinality(Merged') = Cardinality(Merged) - 1 /\ Cardinality(Merged') \in Nat
  BY <1>2, <1>8, <1>9, FS_RemoveElement, FS_CardinalityType
<1>11. /\ IsFiniteSet((Used \ {0}) \union {i}) /\ Cardinality((Used \ {0}) \union {i}) <= Cardinality(Used \ {0}) + 1
       /\ Cardinality((Used \ {0}) \union {i}) \in Nat
  BY <1>9, OneMore
<1>12. IsFiniteSet(Used' \ {0}) /\ Cardinality(Used' \ {0}) <= Cardinality((Used \ {0}) \union {i}) /\ Cardinality(Used' \ {0}) \in Nat
  BY <1>8, <1>11, FS_Subset, FS_CardinalityType
<1>13. Cardinality(Used' \ {0}) + Cardinality(Merged') <= updates' + 1
  BY <1>1, <1>9, <1>10, <1>11, <1>12
<1>14. content' \in [Inode -> [state: {"whole", "empty", "mixed"}, layer: Layer]]
  BY <1>1, <1>3, LayersMerge DEF ConfigBounds, Torn
<1>15. \A w \in Updaters : updater'[w].phase \in {"writing", "written"} => updater'[w].inode # 0
  BY <1>3, <1>4, <1>6 DEF ConfigBounds
<1>16. tmpFile' \in Inode \union {0}
  BY <1>1, <1>3
<1> QED BY <1>1, <1>7, <1>10, <1>12, <1>13, <1>14, <1>15, <1>16 DEF ConfigBounds

LEMMA WritesKeepsBounds == ASSUME ConfigBounds, NEW u \in Updaters, UpdateWrites(u) PROVE ConfigBounds'
<1> DEFINE i == updater[u].inode
<1>1. /\ updater[u].phase = "writing" /\ updater' = [updater EXCEPT ![u].phase = "written"]
      /\ UNCHANGED <<configFile, tmpFile, updates, globalFile, variables, knobs, promised, interfered>>
      /\ \E c \in {Whole(updater[u].layer), Torn("mixed")} : content' = [content EXCEPT ![i] = c]
  BY DEF UpdateWrites
<1>2. updater[u] \in UpdateType /\ i # 0 /\ NoLayer \in Layer
  BY <1>1, LayersMerge DEF ConfigBounds
<1>3. content' \in [Inode -> [state: {"whole", "empty", "mixed"}, layer: Layer]]
  <2>1. {Whole(updater[u].layer), Torn("mixed")} \subseteq [state: {"whole", "empty", "mixed"}, layer: Layer]
    BY <1>2 DEF Whole, Torn, UpdateType
  <2> QED BY <1>1, <2>1 DEF ConfigBounds
<1>4. \A w \in Updaters : updater'[w] = IF w = u THEN [updater[u] EXCEPT !.phase = "written"] ELSE updater[w]
  BY <1>1 DEF ConfigBounds
<1>5. updater'[u] \in UpdateType /\ updater'[u].phase = "written" /\ updater'[u].inode = i
  BY <1>2, <1>4 DEF UpdateType
<1>6. updater' \in [Updaters -> UpdateType]
  BY <1>1, <1>4, <1>5 DEF ConfigBounds
<1>7. \A w \in Updaters : updater'[w].inode = updater[w].inode
  BY <1>4, <1>5
<1>8. Merged' \subseteq Merged /\ Used' \ {0} \subseteq Used \ {0}
  BY <1>1, <1>4, <1>5, <1>7 DEF Merged, Used
<1>9. IsFiniteSet(Merged') /\ IsFiniteSet(Used' \ {0}) /\ Cardinality(Used' \ {0}) + Cardinality(Merged') <= updates' + 1
  BY <1>1, <1>8, CountKept
<1>10. \A w \in Updaters : updater'[w].phase \in {"writing", "written"} => updater'[w].inode # 0
  BY <1>2, <1>4, <1>5 DEF ConfigBounds
<1> QED BY <1>1, <1>3, <1>6, <1>9, <1>10 DEF ConfigBounds

LEMMA RenamesKeepsBounds == ASSUME ConfigBounds, NEW u \in Updaters, UpdateRenames(u) PROVE ConfigBounds'
<1>1. /\ updater[u].phase = "written" /\ updater' = [updater EXCEPT ![u] = NoUpdate]
      /\ \/ tmpFile = 0 /\ UNCHANGED <<configFile, tmpFile, promised>>
         \/ configFile' = tmpFile /\ tmpFile' = 0 /\ promised' = Over(promised, updater[u].given)
      /\ UNCHANGED <<content, updates, globalFile, variables, knobs, interfered>>
  BY DEF UpdateRenames
<1>2. NoUpdate \in UpdateType /\ NoUpdate.inode = 0 /\ NoUpdate.phase = "idle" /\ MaxUpdates \in Nat
  BY LayersMerge, ConfigurationAssumption DEF NoUpdate, UpdateType
<1>3. \A w \in Updaters : updater'[w] = IF w = u THEN NoUpdate ELSE updater[w]
  BY <1>1 DEF ConfigBounds
<1>4. updater' \in [Updaters -> UpdateType]
  BY <1>1, <1>2 DEF ConfigBounds
<1>5. promised' \in Layer
  <2>1. updater[u].given \in Layer
    BY DEF ConfigBounds, UpdateType
  <2> QED BY <1>1, <2>1, LayersMerge DEF ConfigBounds
<1>6. Merged' \subseteq Merged /\ Used' \ {0} \subseteq Used \ {0}
  BY <1>1, <1>2, <1>3 DEF Merged, Used
<1>7. IsFiniteSet(Merged') /\ IsFiniteSet(Used' \ {0}) /\ Cardinality(Used' \ {0}) + Cardinality(Merged') <= updates' + 1
  BY <1>1, <1>6, CountKept
<1>8. \A w \in Updaters : updater'[w].phase \in {"writing", "written"} => updater'[w].inode # 0
  BY <1>2, <1>3 DEF ConfigBounds
<1>9. {configFile', tmpFile'} \subseteq Inode \union {0}
  BY <1>1, <1>2 DEF ConfigBounds
<1> QED BY <1>1, <1>4, <1>5, <1>7, <1>8, <1>9 DEF ConfigBounds

LEMMA ConfigBoundsKept == ConfigBounds /\ [ConfigNext]_configVars => ConfigBounds'
<1> SUFFICES ASSUME ConfigBounds, [ConfigNext]_configVars PROVE ConfigBounds'
  OBVIOUS
<1>1. ASSUME NEW u \in Updaters, NEW s \in Settings, NEW v \in Values, NEW profile \in Values \union {Unset}, NEW offered \in Offered,
             UpdateMerges(u, WithProfile(Giving(s, v), profile, offered))
      PROVE  ConfigBounds'
  BY <1>1, GivenIsLayer, MergesKeepsBounds
<1>2. CASE ConfigRestart
  <2>1. /\ updates < MaxUpdates /\ updates' = updates + 1 /\ updater' = [u \in Updaters |-> NoUpdate]
        /\ UNCHANGED <<content, configFile, tmpFile, globalFile, variables, knobs, promised, interfered>>
    BY <1>2 DEF ConfigRestart
  <2>2. NoUpdate \in UpdateType /\ NoUpdate.inode = 0 /\ NoUpdate.phase = "idle" /\ MaxUpdates \in Nat
    BY LayersMerge, ConfigurationAssumption DEF NoUpdate, UpdateType
  <2>3. Merged' \subseteq Merged /\ Used' \ {0} \subseteq Used \ {0}
    BY <2>1, <2>2 DEF Merged, Used
  <2>4. /\ IsFiniteSet(Merged') /\ IsFiniteSet(Used' \ {0}) /\ Cardinality(Used' \ {0}) + Cardinality(Merged') <= updates + 1
        /\ Cardinality(Used' \ {0}) \in Nat /\ Cardinality(Merged') \in Nat /\ updates \in Nat
    BY <2>3, CountKept
  <2>5. Cardinality(Used' \ {0}) + Cardinality(Merged') <= updates' + 1 /\ updates' \in 0 .. MaxUpdates
    BY <2>1, <2>2, <2>4
  <2> QED BY <2>1, <2>2, <2>4, <2>5 DEF ConfigBounds
<1>3. CASE UNCHANGED configVars
  <2>1. Merged' = Merged /\ Used' = Used
    BY <1>3 DEF configVars, Merged, Used
  <2> QED BY <1>3, <2>1 DEF ConfigBounds, configVars
<1> QED BY <1>1, <1>2, <1>3, OpensKeepsBounds, WritesKeepsBounds, RenamesKeepsBounds DEF ConfigNext

LEMMA ConfigIsTyped == ConfigSpec => []ConfigTypeOK
<1>1. ConfigBounds => ConfigTypeOK
  BY DEF ConfigBounds, ConfigTypeOK, UpdateType
<1> QED BY <1>1, UpdatesStart, ConfigBoundsKept, PTL DEF ConfigSpec

-----------------------------------------------------------------------------
(***************************************************************************)
(* The chunkers, for any file and any limits.  Each is a loop; what holds   *)
(* of it is a set of states for each number of steps it has made.           *)
(***************************************************************************)

AreSteps(L, I, base, G) ==
    L \in Nat /\ base \in I[0] /\ \A n \in 1 .. L : \A x \in I[n - 1] : G[n][x] \in I[n]
IsRun(h, L, I, base, G) ==
    /\ h = [n \in 0 .. L |-> IF n = 0 THEN base ELSE G[n][h[n - 1]]]
    /\ \A n \in 0 .. L : h[n] \in I[n]

LEMMA StepsExist ==
    ASSUME NEW L, NEW I, NEW base, NEW G, AreSteps(L, I, base, G)
    PROVE  \E h : IsRun(h, L, I, base, G)
<1> USE DEF AreSteps, IsRun
<1> DEFINE good(h, k) == /\ h[0] = base /\ \A n \in 1 .. k : h[n] = G[n][h[n - 1]]
                         /\ \A n \in 0 .. k : h[n] \in I[n]
           P == {k \in Nat : k <= L => \E h : good(h, k)}
<1>1. 0 \in P
  <2> DEFINE h == [n \in {0} |-> base]
  <2>1. h[0] = base
    OBVIOUS
  <2> HIDE DEF h
  <2>2. good(h, 0)
    BY <2>1
  <2> QED BY <2>2
<1>2. ASSUME NEW k \in Nat, k \in P PROVE k + 1 \in P
  <2> SUFFICES ASSUME k + 1 <= L PROVE \E h : good(h, k + 1)
    OBVIOUS
  <2>1. PICK h : good(h, k)
    BY <1>2
  <2> DEFINE g == [n \in 0 .. k + 1 |-> IF n = k + 1 THEN G[k + 1][h[k]] ELSE h[n]]
  <2>2. \A n \in 0 .. k : g[n] = h[n]
    OBVIOUS
  <2>3. g[k + 1] = G[k + 1][h[k]]
    OBVIOUS
  <2> HIDE DEF g
  <2>4. g[0] = base
    BY <2>1, <2>2
  <2>5. ASSUME NEW n \in 1 .. k + 1 PROVE g[n] = G[n][g[n - 1]]
    BY <2>1, <2>2, <2>3
  <2>6. ASSUME NEW n \in 0 .. k + 1 PROVE g[n] \in I[n]
    <3>1. h[k] \in I[k] /\ k + 1 \in 1 .. L /\ (k + 1) - 1 = k
      BY <2>1
    <3>2. G[k + 1][h[k]] \in I[k + 1]
      BY <3>1
    <3> QED BY <2>1, <2>2, <2>3, <3>2
  <2>7. good(g, k + 1)
    BY <2>4, <2>5, <2>6
  <2> QED BY <2>7
<1>3. \A k \in Nat : k \in P
  <2> HIDE DEF P
  <2> QED BY <1>1, <1>2, CountingUp
<1>4. PICK h : good(h, L)
  BY <1>3
<1> DEFINE g == [n \in 0 .. L |-> h[n]]
           f == [n \in 0 .. L |-> IF n = 0 THEN base ELSE G[n][g[n - 1]]]
<1>5. \A n \in 0 .. L : g[n] = h[n]
  OBVIOUS
<1>6. \A n \in 1 .. L : n - 1 \in 0 .. L
  OBVIOUS
<1>7. \A n \in 0 .. L : g[n] = f[n]
  BY <1>4, <1>5, <1>6
<1>8. g = f
  <2>1. g = [n \in 0 .. L |-> g[n]] /\ f = [n \in 0 .. L |-> f[n]]
    OBVIOUS
  <2> HIDE DEF g, f
  <2> QED BY <1>7, <2>1
<1>9. \A n \in 0 .. L : g[n] \in I[n]
  BY <1>4, <1>5
<1> QED BY <1>8, <1>9

(* A step leads from the states after one more to those after the next.     *)
Keeps(Step(_, _), I, start, seq) ==
    /\ Len(seq) \in Nat /\ start \in I[0]
    /\ \A k \in 1 .. Len(seq) : \A s \in I[k - 1] : Step(s, seq[k]) \in I[k]

StaysIn(at, L, I) ==
    L \in Nat /\ at[0] \in I[0] /\ \A k \in 1 .. L : at[k - 1] \in I[k - 1] => at[k] \in I[k]

LEMMA StepsStay == ASSUME NEW at, NEW L, NEW I, StaysIn(at, L, I) PROVE at[L] \in I[L]
<1> USE DEF StaysIn
<1> DEFINE P == {k \in Nat : k <= L => at[k] \in I[k]}
<1>1. 0 \in P
  OBVIOUS
<1>2. ASSUME NEW k \in Nat, k \in P PROVE k + 1 \in P
  <2>1. k + 1 <= L => k + 1 \in 1 .. L /\ (k + 1) - 1 = k
    OBVIOUS
  <2> QED BY <1>2, <2>1
<1>3. \A k \in Nat : k \in P
  <2> HIDE DEF P
  <2> QED BY <1>1, <1>2, CountingUp
<1> QED BY <1>3

LEMMA SectionsLoop ==
    ASSUME NEW I, NEW start, NEW seq, Keeps(MarkdownLine, I, start, seq)
    PROVE  Through(MarkdownLine, start, seq) \in I[Len(seq)]
<1> DEFINE L == Len(seq)
           Fn(g) == [k \in 0 .. L |-> IF k = 0 THEN start ELSE MarkdownLine(g[k - 1], seq[k])]
           G == [k \in 1 .. L |-> [s \in I[k - 1] |-> MarkdownLine(s, seq[k])]]
           at == CHOOSE g : g = Fn(g)
<1>1. L \in Nat /\ start \in I[0] /\ \A k \in 1 .. L : \A s \in I[k - 1] : MarkdownLine(s, seq[k]) \in I[k]
  BY DEF Keeps
<1>2. \A k \in 1 .. L : \A s \in I[k - 1] : G[k][s] = MarkdownLine(s, seq[k])
  OBVIOUS
<1>3. Through(MarkdownLine, start, seq) = at[L]
  BY DEF Through
<1> HIDE DEF L, G
<1>4. AreSteps(L, I, start, G)
  BY <1>1, <1>2 DEF AreSteps
<1>5. PICK h : IsRun(h, L, I, start, G)
  BY <1>4, StepsExist
<1>6. h = Fn(h)
  BY <1>1, <1>2, <1>5 DEF IsRun
<1>7. at = Fn(at)
  <2> HIDE DEF Fn
  <2> QED BY <1>6
<1> HIDE DEF at
<1>8. StaysIn(at, L, I)
  <2>1. at[0] = start /\ \A k \in 1 .. L : at[k] = MarkdownLine(at[k - 1], seq[k])
    BY <1>1, <1>7
  <2> QED BY <1>1, <2>1 DEF StaysIn
<1>9. at[L] \in I[L] /\ L = Len(seq)
  BY <1>8, StepsStay DEF L
<1> QED BY <1>3, <1>9

LEMMA ParagraphsLoop ==
    ASSUME NEW I, NEW start, NEW seq, Keeps(ParagraphLine, I, start, seq)
    PROVE  Through(ParagraphLine, start, seq) \in I[Len(seq)]
<1> DEFINE L == Len(seq)
           Fn(g) == [k \in 0 .. L |-> IF k = 0 THEN start ELSE ParagraphLine(g[k - 1], seq[k])]
           G == [k \in 1 .. L |-> [s \in I[k - 1] |-> ParagraphLine(s, seq[k])]]
           at == CHOOSE g : g = Fn(g)
<1>1. L \in Nat /\ start \in I[0] /\ \A k \in 1 .. L : \A s \in I[k - 1] : ParagraphLine(s, seq[k]) \in I[k]
  BY DEF Keeps
<1>2. \A k \in 1 .. L : \A s \in I[k - 1] : G[k][s] = ParagraphLine(s, seq[k])
  OBVIOUS
<1>3. Through(ParagraphLine, start, seq) = at[L]
  BY DEF Through
<1> HIDE DEF L, G
<1>4. AreSteps(L, I, start, G)
  BY <1>1, <1>2 DEF AreSteps
<1>5. PICK h : IsRun(h, L, I, start, G)
  BY <1>4, StepsExist
<1>6. h = Fn(h)
  BY <1>1, <1>2, <1>5 DEF IsRun
<1>7. at = Fn(at)
  <2> HIDE DEF Fn
  <2> QED BY <1>6
<1> HIDE DEF at
<1>8. StaysIn(at, L, I)
  <2>1. at[0] = start /\ \A k \in 1 .. L : at[k] = ParagraphLine(at[k - 1], seq[k])
    BY <1>1, <1>7
  <2> QED BY <1>1, <2>1 DEF StaysIn
<1>9. at[L] \in I[L] /\ L = Len(seq)
  BY <1>8, StepsStay DEF L
<1> QED BY <1>3, <1>9

LEMMA PackLoop ==
    ASSUME NEW I, NEW start, NEW seq, Keeps(PackParagraph, I, start, seq)
    PROVE  Through(PackParagraph, start, seq) \in I[Len(seq)]
<1> DEFINE L == Len(seq)
           Fn(g) == [k \in 0 .. L |-> IF k = 0 THEN start ELSE PackParagraph(g[k - 1], seq[k])]
           G == [k \in 1 .. L |-> [s \in I[k - 1] |-> PackParagraph(s, seq[k])]]
           at == CHOOSE g : g = Fn(g)
<1>1. L \in Nat /\ start \in I[0] /\ \A k \in 1 .. L : \A s \in I[k - 1] : PackParagraph(s, seq[k]) \in I[k]
  BY DEF Keeps
<1>2. \A k \in 1 .. L : \A s \in I[k - 1] : G[k][s] = PackParagraph(s, seq[k])
  OBVIOUS
<1>3. Through(PackParagraph, start, seq) = at[L]
  BY DEF Through
<1> HIDE DEF L, G
<1>4. AreSteps(L, I, start, G)
  BY <1>1, <1>2 DEF AreSteps
<1>5. PICK h : IsRun(h, L, I, start, G)
  BY <1>4, StepsExist
<1>6. h = Fn(h)
  BY <1>1, <1>2, <1>5 DEF IsRun
<1>7. at = Fn(at)
  <2> HIDE DEF Fn
  <2> QED BY <1>6
<1> HIDE DEF at
<1>8. StaysIn(at, L, I)
  <2>1. at[0] = start /\ \A k \in 1 .. L : at[k] = PackParagraph(at[k - 1], seq[k])
    BY <1>1, <1>7
  <2> QED BY <1>1, <2>1 DEF StaysIn
<1>9. at[L] \in I[L] /\ L = Len(seq)
  BY <1>8, StepsStay DEF L
<1> QED BY <1>3, <1>9

LEMMA TextLoop ==
    ASSUME NEW I, NEW start, NEW seq, Keeps(TextLine, I, start, seq)
    PROVE  Through(TextLine, start, seq) \in I[Len(seq)]
<1> DEFINE L == Len(seq)
           Fn(g) == [k \in 0 .. L |-> IF k = 0 THEN start ELSE TextLine(g[k - 1], seq[k])]
           G == [k \in 1 .. L |-> [s \in I[k - 1] |-> TextLine(s, seq[k])]]
           at == CHOOSE g : g = Fn(g)
<1>1. L \in Nat /\ start \in I[0] /\ \A k \in 1 .. L : \A s \in I[k - 1] : TextLine(s, seq[k]) \in I[k]
  BY DEF Keeps
<1>2. \A k \in 1 .. L : \A s \in I[k - 1] : G[k][s] = TextLine(s, seq[k])
  OBVIOUS
<1>3. Through(TextLine, start, seq) = at[L]
  BY DEF Through
<1> HIDE DEF L, G
<1>4. AreSteps(L, I, start, G)
  BY <1>1, <1>2 DEF AreSteps
<1>5. PICK h : IsRun(h, L, I, start, G)
  BY <1>4, StepsExist
<1>6. h = Fn(h)
  BY <1>1, <1>2, <1>5 DEF IsRun
<1>7. at = Fn(at)
  <2> HIDE DEF Fn
  <2> QED BY <1>6
<1> HIDE DEF at
<1>8. StaysIn(at, L, I)
  <2>1. at[0] = start /\ \A k \in 1 .. L : at[k] = TextLine(at[k - 1], seq[k])
    BY <1>1, <1>7
  <2> QED BY <1>1, <2>1 DEF StaysIn
<1>9. at[L] \in I[L] /\ L = Len(seq)
  BY <1>8, StepsStay DEF L
<1> QED BY <1>3, <1>9

LEMMA SplitLoop ==
    ASSUME NEW I, NEW start, NEW seq, Keeps(SplitLine, I, start, seq)
    PROVE  Through(SplitLine, start, seq) \in I[Len(seq)]
<1> DEFINE L == Len(seq)
           Fn(g) == [k \in 0 .. L |-> IF k = 0 THEN start ELSE SplitLine(g[k - 1], seq[k])]
           G == [k \in 1 .. L |-> [s \in I[k - 1] |-> SplitLine(s, seq[k])]]
           at == CHOOSE g : g = Fn(g)
<1>1. L \in Nat /\ start \in I[0] /\ \A k \in 1 .. L : \A s \in I[k - 1] : SplitLine(s, seq[k]) \in I[k]
  BY DEF Keeps
<1>2. \A k \in 1 .. L : \A s \in I[k - 1] : G[k][s] = SplitLine(s, seq[k])
  OBVIOUS
<1>3. Through(SplitLine, start, seq) = at[L]
  BY DEF Through
<1> HIDE DEF L, G
<1>4. AreSteps(L, I, start, G)
  BY <1>1, <1>2 DEF AreSteps
<1>5. PICK h : IsRun(h, L, I, start, G)
  BY <1>4, StepsExist
<1>6. h = Fn(h)
  BY <1>1, <1>2, <1>5 DEF IsRun
<1>7. at = Fn(at)
  <2> HIDE DEF Fn
  <2> QED BY <1>6
<1> HIDE DEF at
<1>8. StaysIn(at, L, I)
  <2>1. at[0] = start /\ \A k \in 1 .. L : at[k] = SplitLine(at[k - 1], seq[k])
    BY <1>1, <1>7
  <2> QED BY <1>1, <2>1 DEF StaysIn
<1>9. at[L] \in I[L] /\ L = Len(seq)
  BY <1>8, StepsStay DEF L
<1> QED BY <1>3, <1>9

LEMMA PythonLoop ==
    ASSUME NEW I, NEW start, NEW seq, Keeps(PythonLine, I, start, seq)
    PROVE  Through(PythonLine, start, seq) \in I[Len(seq)]
<1> DEFINE L == Len(seq)
           Fn(g) == [k \in 0 .. L |-> IF k = 0 THEN start ELSE PythonLine(g[k - 1], seq[k])]
           G == [k \in 1 .. L |-> [s \in I[k - 1] |-> PythonLine(s, seq[k])]]
           at == CHOOSE g : g = Fn(g)
<1>1. L \in Nat /\ start \in I[0] /\ \A k \in 1 .. L : \A s \in I[k - 1] : PythonLine(s, seq[k]) \in I[k]
  BY DEF Keeps
<1>2. \A k \in 1 .. L : \A s \in I[k - 1] : G[k][s] = PythonLine(s, seq[k])
  OBVIOUS
<1>3. Through(PythonLine, start, seq) = at[L]
  BY DEF Through
<1> HIDE DEF L, G
<1>4. AreSteps(L, I, start, G)
  BY <1>1, <1>2 DEF AreSteps
<1>5. PICK h : IsRun(h, L, I, start, G)
  BY <1>4, StepsExist
<1>6. h = Fn(h)
  BY <1>1, <1>2, <1>5 DEF IsRun
<1>7. at = Fn(at)
  <2> HIDE DEF Fn
  <2> QED BY <1>6
<1> HIDE DEF at
<1>8. StaysIn(at, L, I)
  <2>1. at[0] = start /\ \A k \in 1 .. L : at[k] = PythonLine(at[k - 1], seq[k])
    BY <1>1, <1>7
  <2> QED BY <1>1, <2>1 DEF StaysIn
<1>9. at[L] \in I[L] /\ L = Len(seq)
  BY <1>8, StepsStay DEF L
<1> QED BY <1>3, <1>9

ScanKeeps(language, I, start, seq) == Keeps(LAMBDA s, n : ScanLine(language, s, n), I, start, seq)
Scanned(language, start, seq) == Through(LAMBDA s, n : ScanLine(language, s, n), start, seq)

LEMMA ScanLoop ==
    ASSUME NEW language, NEW I, NEW start, NEW seq, ScanKeeps(language, I, start, seq)
    PROVE  Scanned(language, start, seq) \in I[Len(seq)]
<1> DEFINE L == Len(seq)
           Fn(g) == [k \in 0 .. L |-> IF k = 0 THEN start ELSE ScanLine(language, g[k - 1], seq[k])]
           G == [k \in 1 .. L |-> [s \in I[k - 1] |-> ScanLine(language, s, seq[k])]]
           at == CHOOSE g : g = Fn(g)
<1>1. L \in Nat /\ start \in I[0] /\ \A k \in 1 .. L : \A s \in I[k - 1] : ScanLine(language, s, seq[k]) \in I[k]
  BY DEF ScanKeeps, Keeps
<1>2. \A k \in 1 .. L : \A s \in I[k - 1] : G[k][s] = ScanLine(language, s, seq[k])
  OBVIOUS
<1>3. Scanned(language, start, seq) = at[L]
  BY DEF Scanned, Through
<1> HIDE DEF L, G
<1>4. AreSteps(L, I, start, G)
  BY <1>1, <1>2 DEF AreSteps
<1>5. PICK h : IsRun(h, L, I, start, G)
  BY <1>4, StepsExist
<1>6. h = Fn(h)
  BY <1>1, <1>2, <1>5 DEF IsRun
<1>7. at = Fn(at)
  <2> HIDE DEF Fn
  <2> QED BY <1>6
<1> HIDE DEF at
<1>8. StaysIn(at, L, I)
  <2>1. at[0] = start /\ \A k \in 1 .. L : at[k] = ScanLine(language, at[k - 1], seq[k])
    BY <1>1, <1>7
  <2> QED BY <1>1, <2>1 DEF StaysIn
<1>9. at[L] \in I[L] /\ L = Len(seq)
  BY <1>8, StepsStay DEF L
<1> QED BY <1>3, <1>9

SumKeeps(I, start, seq) == Keeps(LAMBDA sum, n : sum + text[n].size + 1, I, start, seq)
Summed(start, seq) == Through(LAMBDA sum, n : sum + text[n].size + 1, start, seq)

LEMMA BytesLoop ==
    ASSUME NEW I, NEW start, NEW seq, SumKeeps(I, start, seq)
    PROVE  Summed(start, seq) \in I[Len(seq)]
<1> DEFINE L == Len(seq)
           Fn(g) == [k \in 0 .. L |-> IF k = 0 THEN start ELSE g[k - 1] + text[seq[k]].size + 1]
           G == [k \in 1 .. L |-> [s \in I[k - 1] |-> s + text[seq[k]].size + 1]]
           at == CHOOSE g : g = Fn(g)
<1>1. L \in Nat /\ start \in I[0] /\ \A k \in 1 .. L : \A s \in I[k - 1] : s + text[seq[k]].size + 1 \in I[k]
  BY DEF SumKeeps, Keeps
<1>2. \A k \in 1 .. L : \A s \in I[k - 1] : G[k][s] = s + text[seq[k]].size + 1
  OBVIOUS
<1>3. Summed(start, seq) = at[L]
  BY DEF Summed, Through
<1> HIDE DEF L, G
<1>4. AreSteps(L, I, start, G)
  BY <1>1, <1>2 DEF AreSteps
<1>5. PICK h : IsRun(h, L, I, start, G)
  BY <1>4, StepsExist
<1>6. h = Fn(h)
  BY <1>1, <1>2, <1>5 DEF IsRun
<1>7. at = Fn(at)
  <2> HIDE DEF Fn
  <2> QED BY <1>6
<1> HIDE DEF at
<1>8. StaysIn(at, L, I)
  <2>1. at[0] = start /\ \A k \in 1 .. L : at[k] = at[k - 1] + text[seq[k]].size + 1
    BY <1>1, <1>7
  <2> QED BY <1>1, <2>1 DEF StaysIn
<1>9. at[L] \in I[L] /\ L = Len(seq)
  BY <1>8, StepsStay DEF L
<1> QED BY <1>3, <1>9

Joins(J, seqs) ==
    /\ Len(seqs) \in Nat /\ Len(seqs) # 0 /\ seqs[1] \in J[1]
    /\ \A k \in 2 .. Len(seqs) : \A s \in J[k - 1] : s \o seqs[k] \in J[k]

LEMMA FlattenLoop == ASSUME NEW J, NEW seqs, Joins(J, seqs) PROVE FlattenSeq(seqs) \in J[Len(seqs)]
<1> DEFINE L == Len(seqs)
           Fn(g) == [i \in 1 .. L |-> IF i = 1 THEN seqs[i] ELSE g[i - 1] \o seqs[i]]
           I == [k \in 0 .. L - 1 |-> J[k + 1]]
           G == [k \in 1 .. L - 1 |-> [s \in J[k] |-> s \o seqs[k + 1]]]
           at == CHOOSE g : g = Fn(g)
<1>1. /\ L \in Nat /\ L # 0 /\ L - 1 \in Nat /\ seqs[1] \in J[1]
      /\ \A k \in 1 .. L - 1 : \A s \in J[k] : s \o seqs[k + 1] \in J[k + 1]
  <2>1. \A k \in 1 .. L - 1 : k + 1 \in 2 .. L /\ (k + 1) - 1 = k
    BY DEF Joins
  <2> QED BY <2>1 DEF Joins
<1>2. \A k \in 0 .. L - 1 : I[k] = J[k + 1]
  OBVIOUS
<1>3. \A k \in 1 .. L - 1 : \A s \in J[k] : G[k][s] = s \o seqs[k + 1]
  OBVIOUS
<1>4. FlattenSeq(seqs) = at[L]
  BY <1>1 DEF FlattenSeq
<1> HIDE DEF L, G, I
<1>5. AreSteps(L - 1, I, seqs[1], G)
  <2>1. seqs[1] \in I[0]
    BY <1>1, <1>2
  <2>2. ASSUME NEW n \in 1 .. L - 1, NEW s \in I[n - 1] PROVE G[n][s] \in I[n]
    <3>1. n - 1 \in 0 .. L - 1 /\ n \in 0 .. L - 1 /\ (n - 1) + 1 = n
      BY <1>1
    <3>2. s \in J[n] /\ I[n] = J[n + 1]
      BY <1>2, <3>1
    <3> QED BY <1>1, <1>3, <3>2
  <2> QED BY <1>1, <2>1, <2>2 DEF AreSteps
<1>6. PICK h : IsRun(h, L - 1, I, seqs[1], G)
  BY <1>5, StepsExist
<1>7. \A n \in 1 .. L - 1 : h[n] = h[n - 1] \o seqs[n + 1]
  <2> TAKE n \in 1 .. L - 1
  <2>1. n - 1 \in 0 .. L - 1 /\ n \in 0 .. L - 1 /\ n # 0 /\ (n - 1) + 1 = n
    BY <1>1
  <2>2. h[n - 1] \in J[n]
    BY <1>2, <1>6, <2>1 DEF IsRun
  <2>3. h[n] = G[n][h[n - 1]]
    BY <1>6, <2>1 DEF IsRun
  <2> QED BY <1>3, <2>2, <2>3
<1> DEFINE g == [i \in 1 .. L |-> h[i - 1]]
<1>8. g = Fn(g)
  <2>1. ASSUME NEW i \in 1 .. L PROVE g[i] = IF i = 1 THEN seqs[i] ELSE g[i - 1] \o seqs[i]
    <3>1. CASE i = 1
      <4>1. h[0] = seqs[1]
        BY <1>1, <1>6 DEF IsRun
      <4> QED BY <3>1, <4>1
    <3>2. CASE i # 1
      <4>1. i - 1 \in 1 .. L - 1 /\ i - 1 \in 1 .. L /\ (i - 1) + 1 = i
        BY <1>1, <3>2
      <4>2. g[i] = h[i - 1] /\ g[i - 1] = h[(i - 1) - 1]
        BY <4>1
      <4> QED BY <1>7, <3>2, <4>1, <4>2
    <3> QED BY <3>1, <3>2
  <2>2. Fn(g) = [i \in 1 .. L |-> IF i = 1 THEN seqs[i] ELSE g[i - 1] \o seqs[i]] /\ g = [i \in 1 .. L |-> g[i]]
    OBVIOUS
  <2> HIDE DEF g, Fn
  <2> QED BY <2>1, <2>2
<1>9. at = Fn(at)
  <2> HIDE DEF Fn
  <2> QED BY <1>8
<1> HIDE DEF at
<1> DEFINE low == [k \in 0 .. L - 1 |-> at[k + 1]]
<1>10. StaysIn(low, L - 1, I)
  <2>1. at[1] = seqs[1] /\ \A i \in 2 .. L : at[i] = at[i - 1] \o seqs[i]
    <3> DEFINE f == Fn(at)
    <3>1. \A i \in 1 .. L : f[i] = IF i = 1 THEN seqs[i] ELSE at[i - 1] \o seqs[i]
      OBVIOUS
    <3>2. at = f
      BY <1>9
    <3>3. 1 \in 1 .. L /\ \A i \in 2 .. L : i \in 1 .. L /\ i # 1
      BY <1>1
    <3> HIDE DEF f
    <3> QED BY <3>1, <3>2, <3>3
  <2>2. low[0] \in I[0]
    BY <1>1, <1>2, <2>1
  <2>3. ASSUME NEW k \in 1 .. L - 1, low[k - 1] \in I[k - 1] PROVE low[k] \in I[k]
    <3>1. k - 1 \in 0 .. L - 1 /\ k \in 0 .. L - 1 /\ (k - 1) + 1 = k /\ k + 1 \in 2 .. L /\ (k + 1) - 1 = k
      BY <1>1
    <3>2. low[k - 1] = at[k] /\ low[k] = at[k + 1] /\ I[k - 1] = J[k] /\ I[k] = J[k + 1]
      BY <1>2, <3>1
    <3>3. at[k + 1] = at[k] \o seqs[k + 1]
      BY <2>1, <3>1
    <3> QED BY <1>1, <2>3, <3>2, <3>3
  <2> QED BY <1>1, <2>2, <2>3 DEF StaysIn
<1>11. low[L - 1] \in I[L - 1]
  <2> HIDE DEF low
  <2> QED BY <1>10, StepsStay
<1>12. low[L - 1] = at[L] /\ I[L - 1] = J[L] /\ L = Len(seqs)
  <2>1. L - 1 \in 0 .. L - 1 /\ (L - 1) + 1 = L
    BY <1>1
  <2> QED BY <1>2, <2>1 DEF L
<1> QED BY <1>4, <1>11, <1>12

-----------------------------------------------------------------------------
(* Sequences of lines, one after the other: each in order, and each below   *)
(* the next; and one that is being added to after those that are done.      *)
Lists == Seq(Seq(Nat))
Below(A, B) == \A m \in A, n \in B : m < n
Laid(cs) ==
    /\ cs \in Lists
    /\ \A k \in DOMAIN cs : Increasing(cs[k])
    /\ \A k, l \in DOMAIN cs : k < l => Below(ToSet(cs[k]), ToSet(cs[l]))
Held(cs) == UNION {ToSet(cs[k]) : k \in DOMAIN cs}
Opened(cs, ns) == Laid(cs) /\ ns \in Seq(Nat) /\ Increasing(ns) /\ Below(Held(cs), ToSet(ns))
Within(cs, ns) == Held(cs) \union ToSet(ns)

LEMMA Joined ==
    ASSUME NEW U, NEW s \in Seq(U), NEW t \in Seq(U)
    PROVE  /\ s \o t \in Seq(U) /\ DOMAIN (s \o t) = 1 .. Len(s) + Len(t)
           /\ \A i \in 1 .. Len(s) + Len(t) : (s \o t)[i] = IF i <= Len(s) THEN s[i] ELSE t[i - Len(s)]
           /\ ToSet(s \o t) = ToSet(s) \union ToSet(t)
<1>1. s \o t \in Seq(U) /\ Len(s \o t) = Len(s) + Len(t)
  OBVIOUS
<1>2. DOMAIN (s \o t) = 1 .. Len(s) + Len(t) /\ DOMAIN s = 1 .. Len(s) /\ DOMAIN t = 1 .. Len(t) /\ Len(s) \in Nat /\ Len(t) \in Nat
  BY <1>1
<1>3. \A i \in 1 .. Len(s) + Len(t) : (s \o t)[i] = IF i <= Len(s) THEN s[i] ELSE t[i - Len(s)]
  OBVIOUS
<1>4. ToSet(s) \subseteq ToSet(s \o t) /\ ToSet(t) \subseteq ToSet(s \o t)
  BY ConcatShows
<1>5. ASSUME NEW x \in ToSet(s \o t) PROVE x \in ToSet(s) \/ x \in ToSet(t)
  <2>1. PICK i \in 1 .. Len(s) + Len(t) : x = (s \o t)[i]
    BY <1>2 DEF ToSet
  <2>2. i <= Len(s) => x = s[i] /\ i \in DOMAIN s
    BY <1>2, <1>3, <2>1
  <2>3. ~(i <= Len(s)) => x = t[i - Len(s)] /\ i - Len(s) \in DOMAIN t
    BY <1>2, <1>3, <2>1
  <2> QED BY <2>2, <2>3 DEF ToSet
<1> QED BY <1>1, <1>2, <1>3, <1>4, <1>5

(* A sequence put after another that is below it is in order.               *)
LEMMA JoinedIncreases ==
    ASSUME NEW s \in Seq(Nat), NEW t \in Seq(Nat), Increasing(s), Increasing(t), Below(ToSet(s), ToSet(t))
    PROVE  Increasing(s \o t)
<1>1. /\ DOMAIN (s \o t) = 1 .. Len(s) + Len(t) /\ DOMAIN s = 1 .. Len(s) /\ DOMAIN t = 1 .. Len(t)
      /\ Len(s) \in Nat /\ Len(t) \in Nat
      /\ \A i \in 1 .. Len(s) + Len(t) : (s \o t)[i] = IF i <= Len(s) THEN s[i] ELSE t[i - Len(s)]
  BY Joined
<1> SUFFICES ASSUME NEW i \in 1 .. Len(s) + Len(t), NEW j \in 1 .. Len(s) + Len(t), i < j
             PROVE  (s \o t)[i] < (s \o t)[j]
  BY <1>1 DEF Increasing
<1>2. CASE j <= Len(s)
  <2>1. i \in DOMAIN s /\ j \in DOMAIN s /\ (s \o t)[i] = s[i] /\ (s \o t)[j] = s[j]
    BY <1>1, <1>2
  <2> QED BY <2>1 DEF Increasing
<1>3. CASE i <= Len(s) /\ ~(j <= Len(s))
  <2>1. i \in DOMAIN s /\ j - Len(s) \in DOMAIN t /\ (s \o t)[i] = s[i] /\ (s \o t)[j] = t[j - Len(s)]
    BY <1>1, <1>3
  <2>2. s[i] \in ToSet(s) /\ t[j - Len(s)] \in ToSet(t)
    BY <2>1 DEF ToSet
  <2> QED BY <2>1, <2>2 DEF Below
<1>4. CASE ~(i <= Len(s))
  <2>1. /\ i - Len(s) \in DOMAIN t /\ j - Len(s) \in DOMAIN t /\ i - Len(s) < j - Len(s)
        /\ (s \o t)[i] = t[i - Len(s)] /\ (s \o t)[j] = t[j - Len(s)]
    BY <1>1, <1>4
  <2> QED BY <2>1 DEF Increasing
<1> QED BY <1>2, <1>3, <1>4

LEMMA LaidJoins ==
    ASSUME NEW cs, NEW ds, Laid(cs), Laid(ds), Below(Held(cs), Held(ds))
    PROVE  Laid(cs \o ds) /\ Held(cs \o ds) = Held(cs) \union Held(ds)
<1>0. cs \in Lists /\ ds \in Lists
  BY DEF Laid
<1>1. /\ cs \o ds \in Lists /\ DOMAIN (cs \o ds) = 1 .. Len(cs) + Len(ds) /\ DOMAIN cs = 1 .. Len(cs)
      /\ DOMAIN ds = 1 .. Len(ds) /\ Len(cs) \in Nat /\ Len(ds) \in Nat
      /\ \A i \in 1 .. Len(cs) + Len(ds) : (cs \o ds)[i] = IF i <= Len(cs) THEN cs[i] ELSE ds[i - Len(cs)]
      /\ ToSet(cs \o ds) = ToSet(cs) \union ToSet(ds)
  BY <1>0, Joined DEF Lists
<1>2. \A i \in 1 .. Len(cs) + Len(ds) :
        \/ i \in DOMAIN cs /\ (cs \o ds)[i] = cs[i]
        \/ ~(i <= Len(cs)) /\ i - Len(cs) \in DOMAIN ds /\ (cs \o ds)[i] = ds[i - Len(cs)]
  BY <1>1
<1>3. \A i \in DOMAIN (cs \o ds) : Increasing((cs \o ds)[i])
  BY <1>1, <1>2 DEF Laid
<1>4. /\ \A i \in DOMAIN cs : ToSet(cs[i]) \subseteq Held(cs)
      /\ \A i \in DOMAIN ds : ToSet(ds[i]) \subseteq Held(ds)
  BY DEF Held
<1>5. ASSUME NEW i \in DOMAIN (cs \o ds), NEW j \in DOMAIN (cs \o ds), i < j
      PROVE  Below(ToSet((cs \o ds)[i]), ToSet((cs \o ds)[j]))
  <2>1. CASE j <= Len(cs)
    <3>1. i \in DOMAIN cs /\ j \in DOMAIN cs /\ (cs \o ds)[i] = cs[i] /\ (cs \o ds)[j] = cs[j]
      BY <1>1, <1>5, <2>1
    <3> QED BY <1>5, <3>1 DEF Laid
  <2>2. CASE i <= Len(cs) /\ ~(j <= Len(cs))
    <3>1. i \in DOMAIN cs /\ j - Len(cs) \in DOMAIN ds /\ (cs \o ds)[i] = cs[i] /\ (cs \o ds)[j] = ds[j - Len(cs)]
      BY <1>1, <2>2
    <3>2. ToSet(cs[i]) \subseteq Held(cs) /\ ToSet(ds[j - Len(cs)]) \subseteq Held(ds)
      BY <1>4, <3>1
    <3> QED BY <3>1, <3>2 DEF Below
  <2>3. CASE ~(i <= Len(cs))
    <3>1. /\ i - Len(cs) \in DOMAIN ds /\ j - Len(cs) \in DOMAIN ds /\ i - Len(cs) < j - Len(cs)
          /\ (cs \o ds)[i] = ds[i - Len(cs)] /\ (cs \o ds)[j] = ds[j - Len(cs)]
      BY <1>1, <1>5, <2>3
    <3> QED BY <3>1 DEF Laid
  <2> QED BY <2>1, <2>2, <2>3
<1>6. Held(cs \o ds) = Held(cs) \union Held(ds)
  <2>1. \A zs : Held(zs) = UNION {ToSet(s) : s \in ToSet(zs)}
    BY DEF Held, ToSet
  <2> QED BY <1>1, <2>1
<1> QED BY <1>1, <1>3, <1>5, <1>6 DEF Laid

(* One sequence, in order.                                                  *)
LEMMA OneIsLaid ==
    ASSUME NEW ns \in Seq(Nat), Increasing(ns) PROVE Laid(<<ns>>) /\ Held(<<ns>>) = ToSet(ns)
<1>1. <<ns>> \in Lists /\ DOMAIN <<ns>> = {1} /\ <<ns>>[1] = ns
  BY DEF Lists
<1> QED BY <1>1 DEF Laid, Held

LEMMA NoneIsLaid == Laid(<<>>) /\ Held(<<>>) = {} /\ Opened(<<>>, <<>>) /\ Within(<<>>, <<>>) = {}
<1>1. <<>> \in Lists /\ <<>> \in Seq(Nat) /\ DOMAIN <<>> = {}
  BY DEF Lists
<1> QED BY <1>1 DEF Laid, Held, Opened, Within, Increasing, Below, ToSet

LEMMA OneLine ==
    ASSUME NEW n \in Nat
    PROVE  /\ <<n>> \in Seq(Nat) /\ Increasing(<<n>>) /\ ToSet(<<n>>) = {n}
           /\ \A ns \in Seq(Nat) : Append(ns, n) = ns \o <<n>>
<1>1. <<n>> \in Seq(Nat) /\ DOMAIN <<n>> = {1} /\ <<n>>[1] = n
  OBVIOUS
<1>2. \A ns \in Seq(Nat) : Append(ns, n) = ns \o <<n>>
  OBVIOUS
<1> QED BY <1>1, <1>2 DEF Increasing, ToSet

(* What is open closes: with nothing after it, with more of the same, with   *)
(* what comes next, or in two.                                              *)
LEMMA ClosedIsLaid ==
    ASSUME NEW cs, NEW ns, Opened(cs, ns)
    PROVE  Laid(Append(cs, ns)) /\ Held(Append(cs, ns)) = Within(cs, ns)
<1>1. Laid(cs) /\ ns \in Seq(Nat) /\ Laid(<<ns>>) /\ Held(<<ns>>) = ToSet(ns)
  BY OneIsLaid DEF Opened
<1>2. Append(cs, ns) = cs \o <<ns>>
  BY <1>1 DEF Laid, Lists
<1>3. Below(Held(cs), Held(<<ns>>))
  BY <1>1 DEF Opened
<1> QED BY <1>1, <1>2, <1>3, LaidJoins DEF Within

LEMMA Grows ==
    ASSUME NEW cs, NEW ns, Opened(cs, ns), NEW p \in Seq(Nat), Increasing(p), Below(Within(cs, ns), ToSet(p))
    PROVE  Opened(cs, ns \o p) /\ Within(cs, ns \o p) = Within(cs, ns) \union ToSet(p)
<1>1. ns \in Seq(Nat) /\ Increasing(ns) /\ Below(ToSet(ns), ToSet(p)) /\ Below(Held(cs), ToSet(p))
  BY DEF Opened, Within, Below
<1>2. Increasing(ns \o p) /\ ns \o p \in Seq(Nat) /\ ToSet(ns \o p) = ToSet(ns) \union ToSet(p)
  BY <1>1, JoinedIncreases, Joined
<1>3. Below(Held(cs), ToSet(ns \o p))
  BY <1>1, <1>2 DEF Below, Opened
<1> QED BY <1>2, <1>3 DEF Opened, Within

LEMMA Closes ==
    ASSUME NEW cs, NEW ns, Opened(cs, ns), NEW p \in Seq(Nat), Increasing(p), Below(Within(cs, ns), ToSet(p))
    PROVE  Opened(Append(cs, ns), p) /\ Within(Append(cs, ns), p) = Within(cs, ns) \union ToSet(p)
BY ClosedIsLaid DEF Opened, Within

LEMMA Cuts ==
    ASSUME NEW cs, NEW ns, Opened(cs, ns), NEW i \in 0 .. Len(ns)
    PROVE  /\ Opened(cs, SubSeq(ns, 1, i)) /\ Opened(Append(cs, SubSeq(ns, 1, i)), SubSeq(ns, i + 1, Len(ns)))
           /\ Within(Append(cs, SubSeq(ns, 1, i)), SubSeq(ns, i + 1, Len(ns))) = Within(cs, ns)
<1> DEFINE u == SubSeq(ns, 1, i)
           v == SubSeq(ns, i + 1, Len(ns))
<1>1. ns \in Seq(Nat) /\ Increasing(ns) /\ Len(ns) \in Nat /\ DOMAIN ns = 1 .. Len(ns)
  BY DEF Opened
<1>2. /\ u \in Seq(Nat) /\ DOMAIN u = 1 .. i /\ \A j \in 1 .. i : u[j] = ns[j] /\ j \in DOMAIN ns
      /\ v \in Seq(Nat) /\ DOMAIN v = 1 .. Len(ns) - i
      /\ \A j \in 1 .. Len(ns) - i : v[j] = ns[i + j] /\ i + j \in DOMAIN ns
  <2>1. u \in Seq(Nat) /\ Len(u) = i /\ \A j \in 1 .. i : u[j] = ns[j]
    BY <1>1
  <2>2. v \in Seq(Nat) /\ Len(v) = Len(ns) - i /\ \A j \in 1 .. Len(ns) - i : v[j] = ns[i + j]
    <3> DEFINE m == i + 1
               n == Len(ns)
    <3>1. m \in Int /\ n \in Int /\ \A j \in m .. n : ns[j] \in Nat
      BY <1>1
    <3>2. n - m + 1 = n - i /\ (m <= n \/ n - i = 0)
      <4>1. n \in Nat /\ i \in 0 .. n
        BY <1>1
      <4>2. m = i + 1
        OBVIOUS
      <4> HIDE DEF m, n
      <4>3. i \in Int /\ n \in Int /\ i <= n
        BY <4>1
      <4> QED BY <4>2, <4>3
    <3>3. v = SubSeq(ns, m, n)
      OBVIOUS
    <3> HIDE DEF m, n, v
    <3>4. /\ v \in Seq(Nat) /\ Len(v) = (IF m <= n THEN n - m + 1 ELSE 0)
          /\ \A j \in 1 .. n - m + 1 : v[j] = ns[m + j - 1]
      BY <3>1, <3>3, SubSeqProperties
    <3>5. Len(v) = n - i /\ \A j \in 1 .. n - i : v[j] = ns[m + j - 1]
      BY <3>1, <3>2, <3>4
    <3>6. \A j \in 1 .. n - i : m + j - 1 = i + j
      BY <1>1 DEF m, n
    <3> QED BY <3>4, <3>5, <3>6 DEF n
  <2> HIDE DEF u, v
  <2>3. DOMAIN u = 1 .. i /\ DOMAIN v = 1 .. Len(ns) - i
    BY <2>1, <2>2
  <2>4. (\A j \in 1 .. i : j \in DOMAIN ns) /\ \A j \in 1 .. Len(ns) - i : i + j \in DOMAIN ns
    BY <1>1
  <2> QED BY <2>1, <2>2, <2>3, <2>4
<1> HIDE DEF u, v
<1>3. Increasing(u) /\ Increasing(v)
  <2>1. \A j, k \in DOMAIN ns : j < k => ns[j] < ns[k]
    BY <1>1 DEF Increasing
  <2>2. ASSUME NEW j \in DOMAIN u, NEW k \in DOMAIN u, j < k PROVE u[j] < u[k]
    BY <1>2, <2>1, <2>2
  <2>3. ASSUME NEW j \in DOMAIN v, NEW k \in DOMAIN v, j < k PROVE v[j] < v[k]
    <3>1. i + j < i + k /\ i + j \in DOMAIN ns /\ i + k \in DOMAIN ns
      BY <1>2, <2>3
    <3> QED BY <1>2, <2>1, <3>1
  <2> QED BY <2>2, <2>3 DEF Increasing
<1>4. Below(ToSet(u), ToSet(v))
  <2> SUFFICES ASSUME NEW j \in DOMAIN u, NEW k \in DOMAIN v PROVE u[j] < v[k]
    BY DEF Below, ToSet
  <2>1. j \in DOMAIN ns /\ i + k \in DOMAIN ns /\ j < i + k
    BY <1>2
  <2> QED BY <1>1, <1>2, <2>1 DEF Increasing
<1>5. ToSet(ns) = ToSet(u) \union ToSet(v)
  <2>1. ToSet(u) \subseteq ToSet(ns) /\ ToSet(v) \subseteq ToSet(ns)
    BY <1>2 DEF ToSet
  <2>2. ASSUME NEW j \in DOMAIN ns PROVE ns[j] \in ToSet(u) \union ToSet(v)
    <3>1. j <= i => j \in DOMAIN u /\ u[j] = ns[j]
      BY <1>1, <1>2
    <3>2. ~(j <= i) => j - i \in DOMAIN v /\ i + (j - i) = j /\ v[j - i] = ns[i + (j - i)]
      BY <1>1, <1>2
    <3> QED BY <3>1, <3>2 DEF ToSet
  <2>3. ToSet(ns) \subseteq ToSet(u) \union ToSet(v)
    BY <2>2 DEF ToSet
  <2> QED BY <2>1, <2>3
<1>6. Below(Held(cs), ToSet(u)) /\ Below(Held(cs), ToSet(v))
  BY <1>5 DEF Opened, Below
<1>7. Opened(cs, u) /\ Within(cs, u) = Held(cs) \union ToSet(u)
  BY <1>2, <1>3, <1>6 DEF Opened, Within
<1>8. Below(Within(cs, u), ToSet(v))
  BY <1>4, <1>6, <1>7 DEF Below
<1>9. Opened(Append(cs, u), v) /\ Within(Append(cs, u), v) = Within(cs, u) \union ToSet(v)
  BY <1>2, <1>3, <1>7, <1>8, Closes
<1>10. Within(Append(cs, u), v) = Within(cs, ns)
  BY <1>5, <1>7, <1>9 DEF Within
<1> QED BY <1>7, <1>9, <1>10 DEF u, v

(* At the end of a loop what is open, if it is anything, is closed.         *)
LEMMA AllClosed ==
    ASSUME NEW cs, NEW ns, Opened(cs, ns), NEW ds, ds = IF ns = <<>> THEN cs ELSE Append(cs, ns)
    PROVE  Laid(ds) /\ Held(ds) = Within(cs, ns)
<1>1. CASE ns = <<>>
  BY <1>1 DEF Opened, Within, ToSet
<1>2. CASE ns # <<>>
  BY <1>2, ClosedIsLaid
<1> QED BY <1>1, <1>2

(* The lines of a chunk, from a to b.                                       *)
LEMMA FromIs ==
    ASSUME NEW a \in Nat \ {0}, NEW b \in Nat
    PROVE  /\ From(a, b) \in Seq(Nat) /\ Increasing(From(a, b)) /\ ToSet(From(a, b)) = a .. b
           /\ a <= b => From(a, b) # <<>> /\ Len(From(a, b)) = b - a + 1
           /\ \A k \in 1 .. b - a + 1 : From(a, b)[k] = a + k - 1
<1> DEFINE s == From(a, b)
<1>1. DOMAIN s = 1 .. b - a + 1 /\ \A k \in DOMAIN s : s[k] = a + k - 1 /\ s[k] \in Nat
  BY DEF From
<1>2. s \in Seq(Nat)
  <2>1. CASE a <= b + 1
    BY <2>1 DEF From
  <2>2. CASE ~(a <= b + 1)
    <3>1. DOMAIN s = {}
      BY <1>1, <2>2
    <3>2. s = <<>>
      BY <3>1 DEF From
    <3> QED BY <3>2
  <2> QED BY <2>1, <2>2
<1>3. Increasing(s)
  BY <1>1 DEF Increasing
<1>4. ToSet(s) = a .. b
  <2>1. ASSUME NEW n \in a .. b PROVE n \in ToSet(s)
    <3>1. n - a + 1 \in 1 .. b - a + 1 /\ a + (n - a + 1) - 1 = n
      OBVIOUS
    <3> QED BY <1>1, <3>1 DEF ToSet
  <2>2. ASSUME NEW k \in DOMAIN s PROVE s[k] \in a .. b
    BY <1>1
  <2> QED BY <2>1, <2>2 DEF ToSet
<1>5. ASSUME a <= b PROVE s # <<>> /\ Len(s) = b - a + 1
  <2>1. 1 \in DOMAIN s
    BY <1>1, <1>5
  <2>2. Len(s) = b - a + 1
    BY <1>1, <1>2, <1>5
  <2> QED BY <2>1, <2>2
<1> QED BY <1>1, <1>2, <1>3, <1>4, <1>5

LEMMA NoLines ==
    /\ <<>> \in Seq(Nat) /\ Increasing(<<>>) /\ ToSet(<<>>) = {} /\ \A A : Below(A, ToSet(<<>>))
BY DEF Increasing, ToSet, Below

LEMMA ClosesEmpty ==
    ASSUME NEW cs, NEW ns, Opened(cs, ns)
    PROVE  /\ Append(cs, ns) \in Lists /\ Append(cs, ns) # <<>> /\ Opened(Append(cs, ns), <<>>)
           /\ Within(Append(cs, ns), <<>>) = Within(cs, ns)
<1>1. cs \in Seq(Seq(Nat)) /\ ns \in Seq(Nat)
  BY DEF Opened, Laid, Lists
<1>2. Append(cs, ns) \in Seq(Seq(Nat)) /\ Append(cs, ns) # <<>>
  BY <1>1, AppendProperties
<1>3. Below(Within(cs, ns), ToSet(<<>>))
  BY NoLines
<1>4. Opened(Append(cs, ns), <<>>) /\ Within(Append(cs, ns), <<>>) = Within(cs, ns) \union ToSet(<<>>)
  BY <1>3, NoLines, Closes
<1> QED BY <1>2, <1>4, NoLines DEF Lists

OneAbove(n, cs, ns) == \A m \in Within(cs, ns) : m < n

LEMMA GrowsByOne ==
    ASSUME NEW cs, NEW ns, NEW n \in Nat, Opened(cs, ns), OneAbove(n, cs, ns)
    PROVE  /\ Append(ns, n) \in Seq(Nat) /\ Append(ns, n) # <<>> /\ Opened(cs, Append(ns, n))
           /\ Within(cs, Append(ns, n)) = Within(cs, ns) \union {n}
<1>1. ns \in Seq(Nat)
  BY DEF Opened
<1>2. Append(ns, n) \in Seq(Nat) /\ Append(ns, n) # <<>> /\ Append(ns, n) = ns \o <<n>>
  BY <1>1, OneLine
<1>3. <<n>> \in Seq(Nat) /\ Increasing(<<n>>) /\ ToSet(<<n>>) = {n}
  BY OneLine
<1>4. Opened(cs, ns \o <<n>>) /\ Within(cs, ns \o <<n>>) = Within(cs, ns) \union ToSet(<<n>>)
  <2> DEFINE p == <<n>>
  <2>1. p \in Seq(Nat) /\ Increasing(p) /\ Below(Within(cs, ns), ToSet(p))
    BY <1>3 DEF Below, OneAbove
  <2> HIDE DEF p
  <2>2. Opened(cs, ns \o p) /\ Within(cs, ns \o p) = Within(cs, ns) \union ToSet(p)
    BY <2>1, Grows
  <2> QED BY <2>2 DEF p
<1> QED BY <1>2, <1>3, <1>4

LEMMA ClosesAhead ==
    ASSUME NEW cs, NEW ns, NEW n \in Nat, Opened(cs, ns), OneAbove(n, cs, ns)
    PROVE  /\ <<n>> \in Seq(Nat) /\ Append(cs, ns) \in Lists /\ Opened(Append(cs, ns), <<n>>)
           /\ Within(Append(cs, ns), <<n>>) = Within(cs, ns) \union {n}
<1>1. <<n>> \in Seq(Nat) /\ Increasing(<<n>>) /\ ToSet(<<n>>) = {n}
  BY OneLine
<1>2. Opened(Append(cs, ns), <<n>>) /\ Within(Append(cs, ns), <<n>>) = Within(cs, ns) \union ToSet(<<n>>)
  <2> DEFINE p == <<n>>
  <2>1. p \in Seq(Nat) /\ Increasing(p) /\ Below(Within(cs, ns), ToSet(p))
    BY <1>1 DEF Below, OneAbove
  <2> HIDE DEF p
  <2>2. Opened(Append(cs, ns), p) /\ Within(Append(cs, ns), p) = Within(cs, ns) \union ToSet(p)
    BY <2>1, Closes
  <2> QED BY <2>2 DEF p
<1> QED BY <1>1, <1>2, ClosesEmpty

-----------------------------------------------------------------------------
(* A file of any grammar.                                                   *)
FileOK == grammar \in Grammars /\ text \in Seq(LinesOf(grammar))
N == Len(text)

LEMMA FileIs ==
    ASSUME FileOK
    PROVE  /\ N \in Nat /\ DOMAIN text = 1 .. N /\ WithText \subseteq 1 .. N
           /\ \A n \in 1 .. N : text[n] \in Line
<1>1. LinesOf(grammar) \subseteq Line
  BY ChunkingAssumption DEF FileOK
<1>2. N \in Nat /\ DOMAIN text = 1 .. N /\ \A n \in 1 .. N : text[n] \in LinesOf(grammar)
  BY DEF FileOK, N
<1> QED BY <1>1, <1>2 DEF WithText

(* An item that is split: only blank lines are lost.                        *)
SplitStates(a, k) ==
    {s \in [lines : Seq(Nat), done : Lists] :
        /\ Opened(s.done, s.lines) /\ Within(s.done, s.lines) \subseteq a .. a + k - 1
        /\ WithText \cap (a .. a + k - 1) \subseteq Within(s.done, s.lines)
        /\ k # 0 => s.done # <<>> \/ s.lines # <<>>}

LEMMA SplitLineKeeps ==
    ASSUME FileOK, NEW a \in Nat \ {0}, NEW k \in Nat \ {0}, NEW s \in SplitStates(a, k - 1), a + k - 1 <= N
    PROVE  SplitLine(s, a + k - 1) \in SplitStates(a, k)
<1> DEFINE n == a + k - 1
           t == SplitLine(s, n)
<1>1. n \in Nat /\ n \in 1 .. N /\ a + (k - 1) - 1 = n - 1 /\ a .. n = (a .. n - 1) \union {n}
  BY FileIs
<1>2. /\ s \in [lines : Seq(Nat), done : Lists]
      /\ Opened(s.done, s.lines) /\ Within(s.done, s.lines) \subseteq a .. n - 1
      /\ WithText \cap (a .. n - 1) \subseteq Within(s.done, s.lines)
  BY <1>1 DEF SplitStates
<1>3. OneAbove(n, s.done, s.lines)
  BY <1>1, <1>2 DEF OneAbove
<1> HIDE DEF n
<1>4. CASE IsBlank(n) /\ Bytes(s.lines) + 1 >= MaxChars \div 2
  <2>1. t = [lines |-> <<>>, done |-> Append(s.done, s.lines)]
    BY <1>4 DEF SplitLine
  <2>2. Opened(Append(s.done, s.lines), <<>>) /\ Within(Append(s.done, s.lines), <<>>) = Within(s.done, s.lines)
    BY <1>2, ClosesEmpty
  <2>3. n \notin WithText
    BY <1>4 DEF WithText
  <2>4. Append(s.done, s.lines) \in Lists /\ Append(s.done, s.lines) # <<>>
    BY <1>2, ClosesEmpty
  <2>5. t \in [lines : Seq(Nat), done : Lists] /\ t.lines = <<>> /\ t.done = Append(s.done, s.lines)
    BY <2>1, <2>4
  <2>6. WithText \cap (a .. n) \subseteq Within(t.done, t.lines) /\ Within(t.done, t.lines) \subseteq a .. n
    BY <1>1, <1>2, <2>2, <2>3, <2>5
  <2> QED BY <2>2, <2>4, <2>5, <2>6 DEF SplitStates, n
<1>5. CASE ~(IsBlank(n) /\ Bytes(s.lines) + 1 >= MaxChars \div 2)
  <2>1. t = [s EXCEPT !.lines = Append(@, n)]
    BY <1>5 DEF SplitLine
  <2>2. Opened(s.done, s.lines) /\ n \in Nat
    BY <1>1, <1>2
  <2>3. /\ Append(s.lines, n) \in Seq(Nat) /\ Append(s.lines, n) # <<>>
        /\ Opened(s.done, Append(s.lines, n))
        /\ Within(s.done, Append(s.lines, n)) = Within(s.done, s.lines) \union {n}
    BY <1>3, <2>2, GrowsByOne
  <2>4. t \in [lines : Seq(Nat), done : Lists] /\ t.lines = Append(s.lines, n) /\ t.done = s.done
    BY <1>2, <2>1, <2>3
  <2>5. WithText \cap (a .. n) \subseteq Within(t.done, t.lines) /\ Within(t.done, t.lines) \subseteq a .. n
    BY <1>1, <1>2, <2>3, <2>4
  <2> QED BY <2>3, <2>4, <2>5 DEF SplitStates, n
<1> QED BY <1>4, <1>5 DEF n

LEMMA SplitKeepsText ==
    ASSUME FileOK, NEW a \in 1 .. N, NEW b \in 1 .. N, a <= b, NEW ps, ps = SplitOnBlankLines(From(a, b))
    PROVE  Laid(ps) /\ Held(ps) \subseteq a .. b /\ WithText \cap (a .. b) \subseteq Held(ps) /\ ps # <<>>
<1> DEFINE ns == From(a, b)
           start == [lines |-> <<>>, done |-> <<>>]
           s == Through(SplitLine, start, ns)
           I == [k \in 0 .. Len(ns) |-> SplitStates(a, k)]
<1>1. /\ a \in Nat \ {0} /\ b \in Nat /\ b <= N /\ N \in Nat /\ Len(ns) = b - a + 1
      /\ \A k \in 1 .. b - a + 1 : ns[k] = a + k - 1
  <2>1. a \in Nat \ {0} /\ b \in Nat /\ b <= N /\ N \in Nat
    BY FileIs
  <2> QED BY <2>1, FromIs
<1>2. Keeps(SplitLine, I, start, ns)
  <2>1. start \in I[0]
    <3>1. start \in [lines : Seq(Nat), done : Lists] /\ start.lines = <<>> /\ start.done = <<>>
      BY NoLines DEF Lists
    <3>2. a .. a + 0 - 1 = {} /\ 0 \in 0 .. Len(ns)
      BY <1>1
    <3> QED BY <3>1, <3>2, NoneIsLaid DEF SplitStates
  <2>2. ASSUME NEW k \in 1 .. Len(ns), NEW x \in I[k - 1] PROVE SplitLine(x, ns[k]) \in I[k]
    <3>1. k - 1 \in 0 .. Len(ns) /\ k \in 0 .. Len(ns) /\ k \in Nat \ {0} /\ a + k - 1 <= N /\ ns[k] = a + k - 1
      BY <1>1
    <3>2. x \in SplitStates(a, k - 1) /\ I[k] = SplitStates(a, k)
      BY <3>1
    <3> HIDE DEF ns, I
    <3> QED BY <1>1, <3>1, <3>2, SplitLineKeeps
  <2> HIDE DEF start, ns, I
  <2>3. Len(ns) \in Nat
    BY <1>1
  <2> QED BY <2>1, <2>2, <2>3 DEF Keeps
<1>3. s \in SplitStates(a, b - a + 1)
  <2>1. Len(ns) \in 0 .. Len(ns) /\ I[Len(ns)] = SplitStates(a, b - a + 1)
    BY <1>1
  <2> HIDE DEF I, start, ns
  <2> QED BY <1>2, <2>1, SplitLoop
<1>4. ps = IF s.lines = <<>> THEN s.done ELSE Append(s.done, s.lines)
  BY DEF SplitOnBlankLines
<1> HIDE DEF s
<1>5. /\ Opened(s.done, s.lines) /\ Within(s.done, s.lines) \subseteq a .. b
      /\ WithText \cap (a .. b) \subseteq Within(s.done, s.lines)
      /\ s.done # <<>> \/ s.lines # <<>>
  <2>1. a + (b - a + 1) - 1 = b /\ b - a + 1 # 0
    BY <1>1
  <2> QED BY <1>3, <2>1 DEF SplitStates
<1>6. Laid(ps) /\ Held(ps) = Within(s.done, s.lines)
  BY <1>4, <1>5, AllClosed
<1>7. ps # <<>>
  <2>1. Append(s.done, s.lines) # <<>>
    BY <1>5, ClosesEmpty
  <2> QED BY <1>4, <1>5, <2>1
<1> QED BY <1>5, <1>6, <1>7

-----------------------------------------------------------------------------
(* Chunks, and the lines of each.                                           *)
Chunk == [lines : Seq(Nat), first : Nat, last : Nat, hier : Seq(Nat)]
LinesIn(cs) == [k \in DOMAIN cs |-> cs[k].lines]
HaveLines(U) == \A c \in U : c.lines \in Seq(Nat)

LEMMA ChunksHaveLines == HaveLines(Chunk)
BY DEF HaveLines, Chunk

LEMMA ChunkOfIs ==
    ASSUME NEW ns \in Seq(Nat), NEW a \in Nat, NEW b \in Nat
    PROVE  /\ ChunkOf(ns, a, b) \in Chunk /\ ChunkOf(ns, a, b).lines = ns
           /\ ChunkOf(ns, a, b).first = a /\ ChunkOf(ns, a, b).last = b
BY DEF ChunkOf, Chunk

LEMMA LinesInIs ==
    ASSUME NEW U, HaveLines(U), NEW cs \in Seq(U)
    PROVE  /\ LinesIn(cs) \in Lists /\ DOMAIN LinesIn(cs) = DOMAIN cs /\ Len(LinesIn(cs)) = Len(cs)
           /\ \A k \in DOMAIN cs : LinesIn(cs)[k] = cs[k].lines /\ cs[k] \in U /\ cs[k].lines \in Seq(Nat)
           /\ \A k \in DOMAIN cs : ToSet(cs[k].lines) \subseteq Held(LinesIn(cs))
<1>1. DOMAIN cs = 1 .. Len(cs) /\ Len(cs) \in Nat /\ \A k \in 1 .. Len(cs) : cs[k] \in U
  OBVIOUS
<1>2. \A k \in DOMAIN cs : LinesIn(cs)[k] = cs[k].lines /\ cs[k] \in U /\ cs[k].lines \in Seq(Nat)
  BY <1>1 DEF LinesIn, HaveLines
<1>3. DOMAIN LinesIn(cs) = 1 .. Len(cs) /\ LinesIn(cs) = [k \in 1 .. Len(cs) |-> cs[k].lines]
  BY <1>1 DEF LinesIn
<1>4. LinesIn(cs) \in Lists /\ Len(LinesIn(cs)) = Len(cs)
  <2>1. LinesIn(cs) \in [1 .. Len(cs) -> Seq(Nat)]
    BY <1>1, <1>2, <1>3
  <2> QED BY <1>1, <2>1 DEF Lists
<1>5. \A k \in DOMAIN cs : ToSet(cs[k].lines) \subseteq Held(LinesIn(cs))
  BY <1>1, <1>2, <1>3 DEF Held
<1> QED BY <1>1, <1>2, <1>3, <1>4, <1>5

LEMMA LinesInJoin ==
    ASSUME NEW U, HaveLines(U), NEW cs \in Seq(U), NEW ds \in Seq(U)
    PROVE  LinesIn(cs \o ds) = LinesIn(cs) \o LinesIn(ds)
<1>1. /\ cs \o ds \in Seq(U) /\ DOMAIN (cs \o ds) = 1 .. Len(cs) + Len(ds)
      /\ \A i \in 1 .. Len(cs) + Len(ds) : (cs \o ds)[i] = IF i <= Len(cs) THEN cs[i] ELSE ds[i - Len(cs)]
  BY Joined
<1> DEFINE a == LinesIn(cs)
           b == LinesIn(ds)
           c == LinesIn(cs \o ds)
<1>2. /\ a \in Lists /\ b \in Lists /\ c \in Lists /\ Len(a) = Len(cs) /\ Len(b) = Len(ds)
      /\ \A k \in DOMAIN cs : a[k] = cs[k].lines
      /\ \A k \in DOMAIN ds : b[k] = ds[k].lines
      /\ \A k \in DOMAIN (cs \o ds) : c[k] = (cs \o ds)[k].lines
      /\ DOMAIN c = DOMAIN (cs \o ds)
  BY <1>1, LinesInIs
<1> HIDE DEF a, b, c
<1>3. /\ a \o b \in Lists /\ DOMAIN (a \o b) = 1 .. Len(a) + Len(b)
      /\ \A i \in 1 .. Len(a) + Len(b) : (a \o b)[i] = IF i <= Len(a) THEN a[i] ELSE b[i - Len(a)]
  BY <1>2, Joined DEF Lists
<1>4. Len(cs) \in Nat /\ Len(ds) \in Nat /\ DOMAIN cs = 1 .. Len(cs) /\ DOMAIN ds = 1 .. Len(ds)
  OBVIOUS
<1>5. ASSUME NEW i \in 1 .. Len(cs) + Len(ds) PROVE c[i] = (a \o b)[i]
  <2>1. CASE i <= Len(cs)
    <3>1. i \in DOMAIN cs /\ (cs \o ds)[i] = cs[i] /\ (a \o b)[i] = a[i]
      BY <1>1, <1>2, <1>3, <1>4, <2>1
    <3> QED BY <1>1, <1>2, <3>1
  <2>2. CASE ~(i <= Len(cs))
    <3>1. i - Len(cs) \in DOMAIN ds /\ (cs \o ds)[i] = ds[i - Len(cs)] /\ (a \o b)[i] = b[i - Len(cs)]
      BY <1>1, <1>2, <1>3, <1>4, <2>2
    <3> QED BY <1>1, <1>2, <3>1
  <2> QED BY <2>1, <2>2
<1>6. c = a \o b
  <2>1. DOMAIN c = DOMAIN (a \o b)
    BY <1>1, <1>2, <1>3
  <2>2. c = [i \in DOMAIN c |-> c[i]] /\ a \o b = [i \in DOMAIN (a \o b) |-> (a \o b)[i]]
    <3>1. ASSUME NEW q \in Lists PROVE q = [i \in DOMAIN q |-> q[i]]
      <4>1. q \in [1 .. Len(q) -> Seq(Nat)]
        BY DEF Lists
      <4> QED BY <4>1
    <3> HIDE DEF Lists
    <3> QED BY <1>2, <1>3, <3>1
  <2> QED BY <1>1, <1>2, <1>5, <2>1, <2>2
<1> QED BY <1>6 DEF a, b, c

LEMMA LinesInAppend ==
    ASSUME NEW U, HaveLines(U), NEW cs \in Seq(U), NEW c \in U
    PROVE  Append(cs, c) \in Seq(U) /\ LinesIn(Append(cs, c)) = Append(LinesIn(cs), c.lines)
<1>1. <<c>> \in Seq(U) /\ DOMAIN <<c>> = {1} /\ <<c>>[1] = c /\ Append(cs, c) = cs \o <<c>>
  OBVIOUS
<1>2. LinesIn(<<c>>) = <<c.lines>>
  BY <1>1 DEF LinesIn
<1>3. LinesIn(cs \o <<c>>) = LinesIn(cs) \o LinesIn(<<c>>)
  BY <1>1, LinesInJoin
<1>4. LinesIn(cs) \in Seq(Seq(Nat)) /\ c.lines \in Seq(Nat)
  BY LinesInIs DEF Lists, HaveLines
<1>5. Append(LinesIn(cs), c.lines) = LinesIn(cs) \o <<c.lines>>
  BY <1>4, AppendIsConcat
<1>6. Append(cs, c) \in Seq(U)
  BY AppendProperties
<1> QED BY <1>1, <1>2, <1>3, <1>5, <1>6

(* Chunks made of lists of lines.                                           *)
LEMMA MadeOf ==
    ASSUME NEW ps \in Lists, NEW cs, DOMAIN cs = DOMAIN ps, cs = [k \in DOMAIN ps |-> cs[k]],
           \A k \in DOMAIN ps : cs[k] \in Chunk /\ cs[k].lines = ps[k]
    PROVE  cs \in Seq(Chunk) /\ LinesIn(cs) = ps
<1>1. DOMAIN ps = 1 .. Len(ps) /\ Len(ps) \in Nat /\ ps = [k \in DOMAIN ps |-> ps[k]]
  BY DEF Lists
<1>2. cs \in Seq(Chunk)
  <2>1. cs \in [1 .. Len(ps) -> Chunk]
    BY <1>1
  <2> QED BY <1>1, <2>1
<1>3. LinesIn(cs) = [k \in DOMAIN ps |-> ps[k]]
  BY DEF LinesIn
<1> QED BY <1>1, <1>2, <1>3

(* The chunks of one item.                                                  *)
CutOf(cs, a, b) ==
    /\ cs \in Seq(Chunk) /\ cs # <<>> /\ Laid(LinesIn(cs)) /\ WithText \cap (a .. b) \subseteq Held(LinesIn(cs))
    /\ \A k \in DOMAIN cs : cs[k].first = a /\ cs[k].last = b /\ ToSet(cs[k].lines) \subseteq a .. b

LEMMA ItemIsCut ==
    ASSUME FileOK, NEW a \in 1 .. N, NEW b \in 1 .. N, a <= b, NEW item, item.first = a, item.last = b
    PROVE  CutOf(ChunkItem(item), a, b)
<1> DEFINE ns == From(a, b)
           pieces == IF Bytes(ns) <= MaxChars THEN <<ns>> ELSE SplitOnBlankLines(ns)
           cs == ChunkItem(item)
<1>1. a \in Nat \ {0} /\ b \in Nat
  BY FileIs
<1>2. ns \in Seq(Nat) /\ Increasing(ns) /\ ToSet(ns) = a .. b
  BY <1>1, FromIs
<1>3. cs = [k \in DOMAIN pieces |-> ChunkOf(pieces[k], a, b)]
  BY DEF ChunkItem
<1>4. /\ Laid(pieces) /\ Held(pieces) \subseteq a .. b /\ WithText \cap (a .. b) \subseteq Held(pieces)
      /\ pieces # <<>>
  <2>1. CASE Bytes(ns) <= MaxChars
    <3>1. pieces = <<ns>>
      BY <2>1
    <3> HIDE DEF ns, pieces
    <3>2. Laid(pieces) /\ Held(pieces) = a .. b
      BY <1>2, <3>1, OneIsLaid
    <3> QED BY <3>1, <3>2
  <2>2. CASE ~(Bytes(ns) <= MaxChars)
    <3>1. pieces = SplitOnBlankLines(From(a, b))
      BY <2>2
    <3> HIDE DEF ns, pieces
    <3> QED BY <3>1, SplitKeepsText
  <2> QED BY <2>1, <2>2
<1> HIDE DEF pieces, ns, cs
<1>5. pieces \in Lists /\ DOMAIN cs = DOMAIN pieces /\ cs = [k \in DOMAIN pieces |-> cs[k]]
  BY <1>3, <1>4 DEF Laid
<1>6. ASSUME NEW k \in DOMAIN pieces
      PROVE  cs[k] \in Chunk /\ cs[k].lines = pieces[k] /\ cs[k].first = a /\ cs[k].last = b
  <2>1. cs[k] = ChunkOf(pieces[k], a, b)
    BY <1>3
  <2>2. pieces[k] \in Seq(Nat)
    BY <1>5 DEF Lists
  <2> QED BY <1>1, <2>1, <2>2 DEF ChunkOf, Chunk
<1>7. cs \in Seq(Chunk) /\ LinesIn(cs) = pieces
  BY <1>5, <1>6, MadeOf
<1>8. cs # <<>>
  BY <1>4, <1>5, <1>7 DEF Lists
<1>9. \A k \in DOMAIN pieces : ToSet(pieces[k]) \subseteq a .. b
  BY <1>4 DEF Held
<1> QED BY <1>4, <1>5, <1>6, <1>7, <1>8, <1>9 DEF CutOf, cs

-----------------------------------------------------------------------------
(* Items one after the other, and the chunks of the first j of them.        *)
Item == [first : Nat, last : Nat]
InFile(item) == item.first \in 1 .. N /\ item.last \in 1 .. N /\ item.first <= item.last
ItemsLaid(its) ==
    /\ its \in Seq(Item) /\ \A i \in DOMAIN its : InFile(its[i])
    /\ \A i, j \in DOMAIN its : i < j => its[i].last < its[j].first

FromItem(its, j, c) ==
    \E i \in 1 .. j : c.first = its[i].first /\ c.last = its[i].last /\ ToSet(c.lines) \subseteq its[i].first .. its[i].last
ItemCuts(its, j) ==
    {cs \in Seq(Chunk) :
        /\ cs # <<>> /\ Laid(LinesIn(cs)) /\ cs[1].first = its[1].first
        /\ \A k \in DOMAIN cs : FromItem(its, j, cs[k])
        /\ \A i \in 1 .. j : WithText \cap (its[i].first .. its[i].last) \subseteq Held(LinesIn(cs))}

LEMMA ItemCutsGrow ==
    ASSUME FileOK, NEW its, ItemsLaid(its), NEW j \in DOMAIN its, j # 1,
           NEW cs \in ItemCuts(its, j - 1), NEW ds, CutOf(ds, its[j].first, its[j].last)
    PROVE  cs \o ds \in ItemCuts(its, j)
<1> DEFINE a == its[j].first
           b == its[j].last
<1>1. its \in Seq(Item) /\ DOMAIN its = 1 .. Len(its) /\ Len(its) \in Nat /\ j \in Nat /\ j - 1 \in Nat
  BY DEF ItemsLaid
<1>2. /\ cs \in Seq(Chunk) /\ cs # <<>> /\ Laid(LinesIn(cs)) /\ cs[1].first = its[1].first
      /\ \A k \in DOMAIN cs : FromItem(its, j - 1, cs[k])
      /\ \A i \in 1 .. j - 1 : WithText \cap (its[i].first .. its[i].last) \subseteq Held(LinesIn(cs))
  BY DEF ItemCuts
<1>3. /\ ds \in Seq(Chunk) /\ ds # <<>> /\ Laid(LinesIn(ds)) /\ WithText \cap (a .. b) \subseteq Held(LinesIn(ds))
      /\ \A k \in DOMAIN ds : ds[k].first = a /\ ds[k].last = b /\ ToSet(ds[k].lines) \subseteq a .. b
  BY DEF CutOf
<1>4. /\ DOMAIN LinesIn(cs) = DOMAIN cs /\ \A k \in DOMAIN cs : LinesIn(cs)[k] = cs[k].lines
      /\ DOMAIN LinesIn(ds) = DOMAIN ds /\ \A k \in DOMAIN ds : LinesIn(ds)[k] = ds[k].lines
  BY <1>2, <1>3, ChunksHaveLines, LinesInIs
<1>5. \A i \in 1 .. j - 1 : i \in DOMAIN its /\ its[i].last < a /\ its[i].last \in Nat /\ its[i].first \in Nat
  <2>1. \A i \in 1 .. j - 1 : i \in DOMAIN its /\ i < j
    BY <1>1
  <2>2. \A i \in DOMAIN its : its[i] \in Item
    BY <1>1
  <2> QED BY <2>1, <2>2 DEF ItemsLaid, Item
<1>6. a \in Nat /\ b \in Nat
  <2>1. its[j] \in Item
    BY <1>1
  <2> QED BY <2>1 DEF Item
<1> HIDE DEF a, b
<1>7. ASSUME NEW m \in Held(LinesIn(cs)) PROVE m \in Nat /\ m < a
  <2>1. PICK k \in DOMAIN cs : m \in ToSet(cs[k].lines)
    BY <1>4 DEF Held
  <2>2. PICK i \in 1 .. j - 1 : ToSet(cs[k].lines) \subseteq its[i].first .. its[i].last
    BY <1>2 DEF FromItem
  <2>3. m \in its[i].first .. its[i].last
    BY <2>1, <2>2
  <2>4. its[i].last < a /\ its[i].last \in Nat /\ its[i].first \in Nat
    BY <1>5
  <2> QED BY <1>6, <2>3, <2>4
<1>8. \A n \in Held(LinesIn(ds)) : n \in a .. b
  BY <1>3, <1>4 DEF Held
<1>9. Below(Held(LinesIn(cs)), Held(LinesIn(ds)))
  BY <1>6, <1>7, <1>8 DEF Below
<1>10. Laid(LinesIn(cs) \o LinesIn(ds)) /\ Held(LinesIn(cs) \o LinesIn(ds)) = Held(LinesIn(cs)) \union Held(LinesIn(ds))
  BY <1>2, <1>3, <1>9, LaidJoins
<1>11. LinesIn(cs \o ds) = LinesIn(cs) \o LinesIn(ds)
  BY <1>2, <1>3, ChunksHaveLines, LinesInJoin
<1>12. /\ cs \o ds \in Seq(Chunk) /\ DOMAIN (cs \o ds) = 1 .. Len(cs) + Len(ds)
       /\ \A i \in 1 .. Len(cs) + Len(ds) : (cs \o ds)[i] = IF i <= Len(cs) THEN cs[i] ELSE ds[i - Len(cs)]
  BY <1>2, <1>3, Joined
<1>13. DOMAIN cs = 1 .. Len(cs) /\ DOMAIN ds = 1 .. Len(ds) /\ Len(cs) \in Nat /\ Len(ds) \in Nat /\ Len(cs) # 0
  BY <1>2, <1>3
<1>14. (cs \o ds)[1].first = its[1].first /\ cs \o ds # <<>>
  <2>1. 1 \in 1 .. Len(cs) + Len(ds) /\ 1 <= Len(cs)
    BY <1>13
  <2>2. (cs \o ds)[1] = cs[1]
    BY <1>12, <2>1
  <2>3. cs \o ds # <<>>
    BY <1>12, <2>1
  <2> QED BY <1>2, <2>2, <2>3
<1>15. ASSUME NEW k \in DOMAIN (cs \o ds) PROVE FromItem(its, j, (cs \o ds)[k])
  <2>1. CASE k <= Len(cs)
    <3>1. k \in DOMAIN cs /\ (cs \o ds)[k] = cs[k]
      BY <1>12, <1>13, <2>1
    <3>2. 1 .. j - 1 \subseteq 1 .. j
      BY <1>1
    <3> QED BY <1>2, <3>1, <3>2 DEF FromItem
  <2>2. CASE ~(k <= Len(cs))
    <3>1. k - Len(cs) \in DOMAIN ds /\ (cs \o ds)[k] = ds[k - Len(cs)]
      BY <1>12, <1>13, <2>2
    <3>2. j \in 1 .. j
      BY <1>1
    <3> QED BY <1>3, <3>1, <3>2 DEF FromItem, a, b
  <2> QED BY <2>1, <2>2
<1>16. ASSUME NEW i \in 1 .. j PROVE WithText \cap (its[i].first .. its[i].last) \subseteq Held(LinesIn(cs \o ds))
  <2>1. CASE i = j
    BY <1>3, <1>10, <1>11, <2>1 DEF a, b
  <2>2. CASE i # j
    <3>1. i \in 1 .. j - 1
      BY <1>1, <2>2
    <3> QED BY <1>2, <1>10, <1>11, <3>1
  <2> QED BY <2>1, <2>2
<1> QED BY <1>10, <1>11, <1>12, <1>14, <1>15, <1>16 DEF ItemCuts

LEMMA ItemsAreCut ==
    ASSUME FileOK, NEW its, ItemsLaid(its), its # <<>>
    PROVE  FlattenSeq([k \in DOMAIN its |-> ChunkItem(its[k])]) \in ItemCuts(its, Len(its))
<1> DEFINE seqs == [k \in DOMAIN its |-> ChunkItem(its[k])]
           J == [j \in DOMAIN its |-> ItemCuts(its, j)]
<1>1. its \in Seq(Item) /\ DOMAIN its = 1 .. Len(its) /\ Len(its) \in Nat /\ Len(its) # 0
  BY DEF ItemsLaid
<1>2. ASSUME NEW j \in DOMAIN its PROVE CutOf(seqs[j], its[j].first, its[j].last)
  <2>1. its[j].first \in 1 .. N /\ its[j].last \in 1 .. N /\ its[j].first <= its[j].last
    BY DEF ItemsLaid, InFile
  <2>2. CutOf(ChunkItem(its[j]), its[j].first, its[j].last)
    BY <2>1, ItemIsCut
  <2> QED BY <2>2
<1>3. Len(seqs) = Len(its) /\ \A j \in DOMAIN its : J[j] = ItemCuts(its, j)
  <2>1. DOMAIN seqs = 1 .. Len(its)
    BY <1>1
  <2> QED BY <1>1, <2>1
<1> HIDE DEF seqs, J
<1>4. seqs[1] \in J[1]
  <2>1. 1 \in DOMAIN its
    BY <1>1
  <2>2. CutOf(seqs[1], its[1].first, its[1].last)
    BY <1>2, <2>1
  <2>3. 1 \in DOMAIN seqs[1]
    BY <2>2 DEF CutOf
  <2>4. \A i \in 1 .. 1 : i = 1
    OBVIOUS
  <2>5. \A k \in DOMAIN seqs[1] : FromItem(its, 1, seqs[1][k])
    BY <2>2 DEF CutOf, FromItem
  <2>6. seqs[1] \in ItemCuts(its, 1)
    BY <2>2, <2>3, <2>4, <2>5 DEF CutOf, ItemCuts
  <2> QED BY <1>3, <2>1, <2>6
<1>5. ASSUME NEW j \in 2 .. Len(its), NEW cs \in J[j - 1] PROVE cs \o seqs[j] \in J[j]
  <2>1. j \in DOMAIN its /\ j - 1 \in DOMAIN its /\ j # 1
    BY <1>1
  <2>2. cs \in ItemCuts(its, j - 1) /\ CutOf(seqs[j], its[j].first, its[j].last)
    BY <1>2, <1>3, <2>1
  <2>3. cs \o seqs[j] \in ItemCuts(its, j)
    BY <2>1, <2>2, ItemCutsGrow
  <2> QED BY <1>3, <2>1, <2>3
<1>6. Joins(J, seqs)
  BY <1>1, <1>3, <1>4, <1>5 DEF Joins
<1>7. FlattenSeq(seqs) \in J[Len(its)] /\ Len(its) \in DOMAIN its
  BY <1>1, <1>3, <1>6, FlattenLoop
<1>8. FlattenSeq(seqs) \in ItemCuts(its, Len(its))
  BY <1>3, <1>7
<1> QED BY <1>8 DEF seqs

-----------------------------------------------------------------------------
(* What the chunks of a file are; and what those of a code file are that is  *)
(* cut by its items.                                                        *)
FileCut(cs) ==
    /\ cs \in Seq(Chunk) /\ Laid(LinesIn(cs)) /\ Held(LinesIn(cs)) \subseteq 1 .. N
    /\ \A k \in DOMAIN cs : Shown(cs[k]) \subseteq cs[k].first .. cs[k].last
RegexCut(cs) ==
    /\ FileCut(cs)
    /\ \A n \in WithText \ Held(LinesIn(cs)) : \A k \in DOMAIN cs :
          n \notin cs[k].first .. cs[k].last /\ (k = 1 => n > cs[k].first)

PreludeOf(end) == IF \A n \in 1 .. end : IsBlank(n) THEN <<>> ELSE <<ChunkOf(From(1, end), 1, end)>>

LEMMA PreludeIs ==
    ASSUME FileOK, NEW end \in 0 .. N, NEW cs, cs = PreludeOf(end)
    PROVE  /\ cs \in Seq(Chunk) /\ Laid(LinesIn(cs)) /\ Held(LinesIn(cs)) \subseteq 1 .. end
           /\ WithText \cap (1 .. end) \subseteq Held(LinesIn(cs))
           /\ \A k \in DOMAIN cs : cs[k].first = 1 /\ cs[k].last = end /\ ToSet(cs[k].lines) \subseteq 1 .. end
<1>1. end \in Nat
  BY FileIs
<1>2. CASE \A n \in 1 .. end : IsBlank(n)
  <2>1. cs = <<>> /\ DOMAIN cs = {}
    BY <1>2 DEF PreludeOf
  <2>2. LinesIn(cs) = <<>>
    BY <2>1 DEF LinesIn
  <2>3. WithText \cap (1 .. end) = {}
    BY <1>2 DEF WithText
  <2> QED BY <2>1, <2>2, <2>3, NoneIsLaid
<1>3. CASE ~(\A n \in 1 .. end : IsBlank(n))
  <2> DEFINE ns == From(1, end)
             c == ChunkOf(ns, 1, end)
  <2>1. ns \in Seq(Nat) /\ Increasing(ns) /\ ToSet(ns) = 1 .. end
    BY <1>1, FromIs
  <2> HIDE DEF ns
  <2>2. c \in Chunk /\ c.lines = ns /\ c.first = 1 /\ c.last = end
    BY <1>1, <2>1 DEF ChunkOf, Chunk
  <2>3. cs = <<c>>
    BY <1>3 DEF PreludeOf, ns
  <2> HIDE DEF c
  <2>4. cs \in Seq(Chunk) /\ DOMAIN cs = {1} /\ cs[1] = c
    BY <2>2, <2>3
  <2>5. LinesIn(cs) = <<ns>>
    BY <2>2, <2>4 DEF LinesIn
  <2>6. Laid(LinesIn(cs)) /\ Held(LinesIn(cs)) = 1 .. end
    BY <2>1, <2>5, OneIsLaid
  <2> QED BY <2>1, <2>2, <2>4, <2>6
<1> QED BY <1>2, <1>3

LEMMA ByItemsIsCut == ASSUME FileOK, NEW its, ItemsLaid(its) PROVE RegexCut(ChunkByItems(its))
<1> DEFINE end == IF its = <<>> THEN Len(text) ELSE Head(its).first - 1
           pre == PreludeOf(end)
           body == FlattenSeq([k \in DOMAIN its |-> ChunkItem(its[k])])
           cs == ChunkByItems(its)
<1>1. N \in Nat /\ WithText \subseteq 1 .. N
  BY FileIs
<1>2. cs = pre \o body
  BY DEF ChunkByItems, PreludeOf
<1>3. its \in Seq(Item) /\ DOMAIN its = 1 .. Len(its) /\ Len(its) \in Nat
  BY DEF ItemsLaid
<1>4. CASE its = <<>>
  <2>1. end = N /\ N \in 0 .. N
    BY <1>1, <1>4 DEF N
  <2>2. body = <<>>
    BY <1>4 DEF FlattenSeq
  <2> HIDE DEF end, body
  <2>3. /\ pre \in Seq(Chunk) /\ Laid(LinesIn(pre)) /\ Held(LinesIn(pre)) \subseteq 1 .. N
        /\ WithText \cap (1 .. N) \subseteq Held(LinesIn(pre))
        /\ \A k \in DOMAIN pre : pre[k].first = 1 /\ pre[k].last = N /\ ToSet(pre[k].lines) \subseteq 1 .. N
    <3>1. end \in 0 .. N
      BY <2>1
    <3> QED BY <2>1, <3>1, PreludeIs
  <2> HIDE DEF pre
  <2>4. cs = pre
    BY <1>2, <2>2, <2>3
  <2>5. FileCut(pre)
    BY <2>3 DEF FileCut, Shown
  <2>6. WithText \ Held(LinesIn(pre)) = {}
    BY <1>1, <2>3
  <2> QED BY <2>4, <2>5, <2>6 DEF RegexCut
<1>5. CASE its # <<>>
  <2> DEFINE f == its[1].first
             L == Len(its)
  <2>1. /\ 1 \in DOMAIN its /\ Head(its) = its[1] /\ f \in 1 .. N /\ end = f - 1 /\ end \in 0 .. N
        /\ f \in Nat /\ L \in Nat
    <3>1. 1 \in DOMAIN its /\ Head(its) = its[1]
      BY <1>3, <1>5
    <3>2. f \in 1 .. N
      BY <3>1 DEF ItemsLaid, InFile
    <3> QED BY <1>1, <1>3, <1>5, <3>1, <3>2
  <2>2. /\ body \in Seq(Chunk) /\ body # <<>> /\ Laid(LinesIn(body)) /\ body[1].first = f
        /\ \A k \in DOMAIN body : FromItem(its, L, body[k])
        /\ \A i \in 1 .. L : WithText \cap (its[i].first .. its[i].last) \subseteq Held(LinesIn(body))
    BY <1>5, ItemsAreCut DEF ItemCuts
  <2> HIDE DEF end, body
  <2>3. /\ pre \in Seq(Chunk) /\ Laid(LinesIn(pre)) /\ Held(LinesIn(pre)) \subseteq 1 .. end
        /\ WithText \cap (1 .. end) \subseteq Held(LinesIn(pre))
        /\ \A k \in DOMAIN pre : pre[k].first = 1 /\ pre[k].last = end /\ ToSet(pre[k].lines) \subseteq 1 .. end
    BY <2>1, PreludeIs
  <2> HIDE DEF pre, cs
  <2>4. \A i \in 1 .. L : f <= its[i].first /\ its[i].first \in Nat /\ its[i].last \in 1 .. N
    <3> TAKE i \in 1 .. L
    <3>1. i \in DOMAIN its /\ its[i] \in Item /\ InFile(its[i])
      BY <1>3 DEF ItemsLaid
    <3>2. i = 1 \/ its[1].last < its[i].first
      BY <2>1, <3>1, <1>3 DEF ItemsLaid
    <3>3. its[1].first <= its[1].last /\ its[1] \in Item
      BY <1>3, <2>1 DEF ItemsLaid, InFile
    <3> QED BY <3>1, <3>2, <3>3 DEF InFile, Item
  <2> HIDE DEF f, L
  <2>5. ASSUME NEW k \in DOMAIN body
        PROVE  \E i \in 1 .. L : /\ body[k].first = its[i].first /\ body[k].last = its[i].last
                                 /\ ToSet(body[k].lines) \subseteq its[i].first .. its[i].last
                                 /\ ToSet(body[k].lines) \subseteq f .. N
    <3>1. PICK i \in 1 .. L : body[k].first = its[i].first /\ body[k].last = its[i].last /\ ToSet(body[k].lines) \subseteq its[i].first .. its[i].last
      BY <2>2 DEF FromItem
    <3>2. its[i].first .. its[i].last \subseteq f .. N
      BY <1>1, <2>1, <2>4
    <3> QED BY <3>1, <3>2
  <2>6. /\ DOMAIN LinesIn(body) = DOMAIN body /\ \A k \in DOMAIN body : LinesIn(body)[k] = body[k].lines
    BY <2>2, ChunksHaveLines, LinesInIs
  <2>7. Held(LinesIn(body)) \subseteq f .. N
    BY <2>5, <2>6 DEF Held
  <2>8. Below(Held(LinesIn(pre)), Held(LinesIn(body)))
    <3>1. \A m \in 1 .. end : \A n \in f .. N : m < n
      BY <1>1, <2>1
    <3> QED BY <2>3, <2>7, <3>1 DEF Below
  <2>9. LinesIn(cs) = LinesIn(pre) \o LinesIn(body)
    BY <1>2, <2>2, <2>3, ChunksHaveLines, LinesInJoin DEF cs
  <2>10. Laid(LinesIn(cs)) /\ Held(LinesIn(cs)) = Held(LinesIn(pre)) \union Held(LinesIn(body))
    BY <2>2, <2>3, <2>8, <2>9, LaidJoins
  <2>11. Held(LinesIn(cs)) \subseteq 1 .. N
    <3>1. 1 .. end \subseteq 1 .. N /\ f .. N \subseteq 1 .. N
      BY <1>1, <2>1
    <3> QED BY <2>3, <2>7, <2>10, <3>1
  <2>12. /\ cs \in Seq(Chunk) /\ DOMAIN cs = 1 .. Len(pre) + Len(body)
         /\ \A i \in 1 .. Len(pre) + Len(body) : cs[i] = IF i <= Len(pre) THEN pre[i] ELSE body[i - Len(pre)]
    BY <1>2, <2>2, <2>3, Joined DEF cs
  <2>13. ASSUME NEW k \in DOMAIN cs
         PROVE  (k \in DOMAIN pre /\ cs[k] = pre[k]) \/ (k - Len(pre) \in DOMAIN body /\ cs[k] = body[k - Len(pre)])
    <3>1. DOMAIN pre = 1 .. Len(pre) /\ DOMAIN body = 1 .. Len(body) /\ Len(pre) \in Nat /\ Len(body) \in Nat
      BY <2>2, <2>3
    <3> QED BY <2>12, <3>1
  <2>14. ASSUME NEW k \in DOMAIN cs PROVE ToSet(cs[k].lines) \subseteq cs[k].first .. cs[k].last
    BY <2>3, <2>5, <2>13
  <2>15. FileCut(cs)
    BY <2>10, <2>11, <2>12, <2>14 DEF FileCut, Shown
  <2>16. ASSUME NEW n \in WithText \ Held(LinesIn(cs)), NEW k \in DOMAIN cs
         PROVE  n \notin cs[k].first .. cs[k].last /\ (k = 1 => n > cs[k].first)
    <3>1. n \in 1 .. N /\ n \notin 1 .. end /\ n \in Nat
      BY <1>1, <2>3, <2>10
    <3>2. n >= f
      BY <2>1, <3>1
    <3>3. \A i \in 1 .. L : n \notin its[i].first .. its[i].last
      BY <2>2, <2>10
    <3>4. n > f
      <4>1. 1 \in 1 .. L /\ its[1].last \in Nat /\ f <= its[1].last
        <5>1. 1 \in 1 .. L /\ InFile(its[1])
          BY <1>3, <2>1 DEF ItemsLaid, L
        <5> QED BY <1>1, <5>1 DEF InFile, f
      <4>2. n \notin f .. its[1].last
        BY <3>3, <4>1 DEF f
      <4> QED BY <2>1, <3>1, <3>2, <4>1, <4>2
    <3>5. CASE k \in DOMAIN pre /\ cs[k] = pre[k]
      <4>1. cs[k].first = 1 /\ cs[k].last = end
        BY <2>3, <3>5
      <4> QED BY <2>1, <3>1, <3>4, <4>1
    <3>6. CASE ~(k \in DOMAIN pre /\ cs[k] = pre[k])
      <4>1. k - Len(pre) \in DOMAIN body /\ cs[k] = body[k - Len(pre)]
        BY <2>13, <3>6
      <4>2. n \notin cs[k].first .. cs[k].last
        BY <2>5, <3>3, <4>1
      <4>3. k = 1 => cs[k].first = f
        <5>1. DOMAIN pre = 1 .. Len(pre) /\ Len(pre) \in Nat /\ DOMAIN body = 1 .. Len(body) /\ Len(body) \in Nat
          BY <2>2, <2>3
        <5>2. k = 1 => Len(pre) = 0 /\ k - Len(pre) = 1
          BY <4>1, <5>1
        <5> QED BY <2>2, <4>1, <5>2 DEF f
      <4> QED BY <3>4, <4>2, <4>3
    <3> QED BY <3>5, <3>6
  <2> QED BY <2>15, <2>16 DEF RegexCut, cs
<1> QED BY <1>4, <1>5

-----------------------------------------------------------------------------
(* One pass over the lines finds items one after the other.                 *)
LEMMA ItemsAppended ==
    ASSUME NEW its, ItemsLaid(its), NEW a \in 1 .. N, NEW b \in 1 .. N, a <= b, N \in Nat,
           \A i \in DOMAIN its : its[i].last < a, NEW new, new = Append(its, [first |-> a, last |-> b])
    PROVE  ItemsLaid(new) /\ \A i \in DOMAIN new : new[i].last <= b
<1> DEFINE c == [first |-> a, last |-> b]
<1>1. its \in Seq(Item) /\ DOMAIN its = 1 .. Len(its) /\ Len(its) \in Nat
  BY DEF ItemsLaid
<1>2. c \in Item /\ c.first = a /\ c.last = b
  BY DEF Item
<1> HIDE DEF c
<1>3. new = Append(its, c)
  BY DEF c
<1>4. /\ new \in Seq(Item) /\ Len(new) = Len(its) + 1 /\ DOMAIN new = 1 .. Len(its) + 1
      /\ \A i \in 1 .. Len(its) : new[i] = its[i] /\ i \in DOMAIN its
      /\ new[Len(its) + 1] = c
  BY <1>1, <1>2, <1>3, AppendProperties
<1>5. \A i \in DOMAIN new : i \in 1 .. Len(its) \/ i = Len(its) + 1
  BY <1>1, <1>4
<1>6. \A i \in DOMAIN new : InFile(new[i]) /\ new[i].last <= b
  <2>1. \A i \in DOMAIN its : InFile(its[i]) /\ its[i].last \in 1 .. N /\ its[i].last < a
    BY DEF ItemsLaid, InFile
  <2>2. InFile(c) /\ c.last <= b
    BY <1>2 DEF InFile
  <2> QED BY <1>4, <1>5, <2>1, <2>2
<1>7. ASSUME NEW i \in DOMAIN new, NEW j \in DOMAIN new, i < j PROVE new[i].last < new[j].first
  <2>1. i \in 1 .. Len(its)
    BY <1>1, <1>4, <1>5, <1>7
  <2>2. CASE j \in 1 .. Len(its)
    BY <1>4, <1>7, <2>1, <2>2 DEF ItemsLaid
  <2>3. CASE j = Len(its) + 1
    BY <1>2, <1>4, <2>1, <2>3
  <2> QED BY <1>5, <2>2, <2>3
<1> QED BY <1>4, <1>6, <1>7 DEF ItemsLaid

LEMMA NumbersAre == ASSUME FileOK PROVE N \in Nat /\ Len(Numbers) = N /\ \A k \in 1 .. N : Numbers[k] = k
<1>1. N \in Nat
  BY FileIs
<1>2. Numbers = [k \in 1 .. N |-> k]
  <2>1. Numbers = [k \in 1 .. N - 1 + 1 |-> 1 + k - 1]
    BY DEF Numbers, From, N
  <2>2. N - 1 + 1 = N /\ \A k \in 1 .. N : 1 + k - 1 = k
    BY <1>1
  <2> QED BY <2>1, <2>2
<1> QED BY <1>1, <1>2

ScanStates(k) ==
    {s \in [inBlock : BOOLEAN, depth : Int, parens : Int, start : 0 .. k, items : Seq(Item)] :
        /\ ItemsLaid(s.items) /\ \A i \in DOMAIN s.items : s.items[i].last <= k
        /\ s.start # 0 => \A i \in DOMAIN s.items : s.items[i].last < s.start}

LEMMA TrackedKeeps ==
    ASSUME FileOK, NEW n \in 1 .. N, NEW s \in ScanStates(n - 1), NEW c, c.inBlock \in BOOLEAN,
           NEW start \in {s.start, n}, NEW depth \in Int, NEW parens \in Int, NEW ends \in BOOLEAN,
           start # s.start => s.start = 0, ends => start # 0
    PROVE  Tracked(s, n, c, start, depth, parens, ends) \in ScanStates(n)
<1> DEFINE t == Tracked(s, n, c, start, depth, parens, ends)
<1>1. N \in Nat /\ n \in Nat
  BY FileIs
<1>2. /\ s.start \in 0 .. n - 1 /\ s.items \in Seq(Item) /\ ItemsLaid(s.items)
      /\ \A i \in DOMAIN s.items : s.items[i].last <= n - 1
      /\ s.start # 0 => \A i \in DOMAIN s.items : s.items[i].last < s.start
  BY DEF ScanStates
<1>3. \A i \in DOMAIN s.items : s.items[i].last \in Nat
  <2>1. \A i \in DOMAIN s.items : s.items[i] \in Item
    BY <1>2
  <2> QED BY <2>1 DEF Item
<1>4. start \in 0 .. n /\ (start # 0 => \A i \in DOMAIN s.items : s.items[i].last < start)
  BY <1>1, <1>2, <1>3
<1>5. CASE ends
  <2> DEFINE new == Append(s.items, [first |-> start, last |-> n])
  <2>1. start \in 1 .. N /\ start <= n /\ \A i \in DOMAIN s.items : s.items[i].last < start
    BY <1>1, <1>4, <1>5
  <2>2. ItemsLaid(new) /\ \A i \in DOMAIN new : new[i].last <= n
    BY <1>1, <1>2, <2>1, ItemsAppended
  <2>3. t = [inBlock |-> c.inBlock, depth |-> depth, parens |-> parens, start |-> 0, items |-> new]
    BY <1>5 DEF Tracked
  <2> HIDE DEF new, t
  <2>4. new \in Seq(Item)
    BY <2>2 DEF ItemsLaid
  <2>5. t \in [inBlock : BOOLEAN, depth : Int, parens : Int, start : 0 .. n, items : Seq(Item)] /\ t.start = 0 /\ t.items = new
    BY <1>1, <2>3, <2>4
  <2> QED BY <2>2, <2>5 DEF ScanStates, t
<1>6. CASE ~ends
  <2>1. t = [inBlock |-> c.inBlock, depth |-> depth, parens |-> parens, start |-> start, items |-> s.items]
    BY <1>6 DEF Tracked
  <2> HIDE DEF t
  <2>2. t \in [inBlock : BOOLEAN, depth : Int, parens : Int, start : 0 .. n, items : Seq(Item)] /\ t.start = start /\ t.items = s.items
    BY <1>2, <1>4, <2>1
  <2>3. \A i \in DOMAIN s.items : s.items[i].last <= n
    BY <1>1, <1>2, <1>3
  <2> QED BY <1>2, <1>4, <2>2, <2>3 DEF ScanStates, t
<1> QED BY <1>5, <1>6

LEMMA StrippedIs ==
    ASSUME NEW l \in Line, NEW inBlock \in BOOLEAN
    PROVE  StripComments(l, inBlock).line \in Line /\ StripComments(l, inBlock).inBlock \in BOOLEAN
<1>1. BlankLine \in Line
  BY DEF BlankLine, Line
<1>2. l.stops \in BOOLEAN /\ l.starts \in BOOLEAN
  BY DEF Line
<1> QED BY <1>1, <1>2 DEF StripComments

LEMMA ScanLineKeeps ==
    ASSUME FileOK, NEW n \in 1 .. N, NEW s \in ScanStates(n - 1), NEW language
    PROVE  ScanLine(language, s, n) \in ScanStates(n)
<1> DEFINE c == StripComments(text[n], s.inBlock)
<1>1. s.inBlock \in BOOLEAN /\ s.depth \in Int /\ s.parens \in Int
  BY DEF ScanStates
<1>2. c.line \in Line /\ c.inBlock \in BOOLEAN
  BY <1>1, FileIs, StrippedIs
<1> HIDE DEF c
<1>3. c.line.net \in Int /\ c.line.parens \in Int /\ CountBraces(c.line) \in Int /\ CountBracesTs(c.line) \in Int /\ CountBracesGo(c.line) \in Int
  BY <1>2 DEF Line, CountBraces, CountBracesTs, CountBracesGo
<1>4. /\ c.line.item \in BOOLEAN /\ c.line.open \in BOOLEAN /\ c.line.semi \in BOOLEAN /\ c.line.paren \in BOOLEAN
  BY <1>2 DEF Line
<1>5. RustLine(s, n) \in ScanStates(n)
  <2> DEFINE start == IF s.start = 0 /\ s.depth = 0 /\ c.line.item THEN n ELSE s.start
             depth == s.depth + CountBraces(c.line)
             ends == start # 0 /\ depth = 0 /\ (c.line.open \/ start # n \/ c.line.semi)
  <2>1. RustLine(s, n) = Tracked(s, n, c, start, depth, 0, ends)
    BY DEF RustLine, c
  <2>2. start \in {s.start, n} /\ depth \in Int /\ 0 \in Int /\ ends \in BOOLEAN /\ (start # s.start => s.start = 0) /\ (ends => start # 0)
    BY <1>1, <1>3, <1>4
  <2> HIDE DEF start, depth, ends
  <2> QED BY <1>2, <2>1, <2>2, TrackedKeeps
<1>6. TypescriptLine(s, n) \in ScanStates(n)
  <2> DEFINE start == IF s.start = 0 /\ s.depth = 0 /\ c.line.item THEN n ELSE s.start
             depth == s.depth + CountBracesTs(c.line)
             ends == start # 0 /\ depth = 0 /\ (c.line.open \/ start # n \/ c.line.semi)
  <2>1. TypescriptLine(s, n) = Tracked(s, n, c, start, depth, 0, ends)
    BY DEF TypescriptLine, c
  <2>2. start \in {s.start, n} /\ depth \in Int /\ 0 \in Int /\ ends \in BOOLEAN /\ (start # s.start => s.start = 0) /\ (ends => start # 0)
    BY <1>1, <1>3, <1>4
  <2> HIDE DEF start, depth, ends
  <2> QED BY <1>2, <2>1, <2>2, TrackedKeeps
<1>7. GoLine(s, n) \in ScanStates(n)
  <2> DEFINE start == IF s.start = 0 /\ s.depth = 0 /\ s.parens = 0 /\ c.line.item THEN n ELSE s.start
             depth == s.depth + CountBracesGo(c.line)
             parens == s.parens + c.line.parens
             ends == start # 0 /\ depth = 0 /\ parens = 0 /\ (start # n \/ ~(c.line.open \/ c.line.paren))
  <2>1. GoLine(s, n) = Tracked(s, n, c, start, depth, parens, ends)
    BY DEF GoLine, c
  <2>2. start \in {s.start, n} /\ depth \in Int /\ parens \in Int /\ ends \in BOOLEAN /\ (start # s.start => s.start = 0) /\ (ends => start # 0)
    BY <1>1, <1>3, <1>4
  <2> HIDE DEF start, depth, ends, parens
  <2> QED BY <1>2, <2>1, <2>2, TrackedKeeps
<1>8. ParsedLine(s, n) \in ScanStates(n)
  <2> DEFINE start == IF s.start = 0 /\ s.depth = 0 /\ c.line.item THEN n ELSE s.start
             depth == s.depth + c.line.net
             ends == start # 0 /\ depth = 0 /\ ((c.line.net < 0 /\ s.depth > 0) \/ (c.line.open /\ c.line.net = 0) \/ c.line.semi)
  <2>1. ParsedLine(s, n) = Tracked(s, n, c, start, depth, 0, ends)
    BY DEF ParsedLine, c
  <2>2. start \in {s.start, n} /\ depth \in Int /\ 0 \in Int /\ ends \in BOOLEAN /\ (start # s.start => s.start = 0) /\ (ends => start # 0)
    BY <1>1, <1>3, <1>4
  <2> HIDE DEF start, depth, ends
  <2> QED BY <1>2, <2>1, <2>2, TrackedKeeps
<1> QED BY <1>5, <1>6, <1>7, <1>8 DEF ScanLine

LEMMA ScanFindsItems ==
    ASSUME FileOK, NEW language
    PROVE  Scan(language) \in ScanStates(N)
<1> DEFINE I == [k \in 0 .. N |-> ScanStates(k)]
<1>1. N \in Nat /\ Len(Numbers) = N /\ \A k \in 1 .. N : Numbers[k] = k
  BY NumbersAre
<1>2. NoItems \in I[0]
  <2>1. /\ NoItems \in [inBlock : BOOLEAN, depth : Int, parens : Int, start : 0 .. 0, items : Seq(Item)]
        /\ NoItems.start = 0 /\ NoItems.items = <<>>
    BY DEF NoItems
  <2>2. ItemsLaid(<<>>) /\ DOMAIN <<>> = {}
    BY DEF ItemsLaid
  <2>3. NoItems \in ScanStates(0)
    BY <2>1, <2>2 DEF ScanStates
  <2> QED BY <1>1, <2>3
<1>3. ASSUME NEW k \in 1 .. N, NEW s \in I[k - 1] PROVE ScanLine(language, s, Numbers[k]) \in I[k]
  <2>1. s \in ScanStates(k - 1) /\ I[k] = ScanStates(k)
    BY <1>1
  <2> HIDE DEF I
  <2> QED BY <1>1, <2>1, ScanLineKeeps
<1> HIDE DEF I
<1>4. ScanKeeps(language, I, NoItems, Numbers)
  BY <1>1, <1>2, <1>3 DEF ScanKeeps, Keeps
<1>5. Scanned(language, NoItems, Numbers) \in I[N]
  BY <1>1, <1>4, ScanLoop
<1>6. Scan(language) = Scanned(language, NoItems, Numbers)
  BY DEF Scan, Scanned
<1>7. I[N] = ScanStates(N)
  BY <1>1 DEF I
<1> QED BY <1>5, <1>6, <1>7

LEMMA ScansAreItems ==
    ASSUME FileOK, NEW language
    PROVE  ItemsLaid(Scan(language).items) /\ ItemsLaid(AtEndOfFile(Scan(language)))
<1> DEFINE s == Scan(language)
<1>1. s \in ScanStates(N)
  BY ScanFindsItems
<1> HIDE DEF s
<1>2. ItemsLaid(s.items) /\ s.start \in 0 .. N /\ (s.start # 0 => \A i \in DOMAIN s.items : s.items[i].last < s.start)
  BY <1>1 DEF ScanStates
<1>3. N \in Nat
  BY FileIs
<1>4. CASE s.start = 0
  BY <1>2, <1>4 DEF AtEndOfFile, s
<1>5. CASE s.start # 0
  <2> DEFINE new == Append(s.items, [first |-> s.start, last |-> N])
  <2>1. s.start \in 1 .. N /\ N \in 1 .. N /\ s.start <= N /\ \A i \in DOMAIN s.items : s.items[i].last < s.start
    BY <1>2, <1>3, <1>5
  <2>2. ItemsLaid(new)
    BY <1>2, <1>3, <2>1, ItemsAppended
  <2>3. AtEndOfFile(s) = new
    BY <1>5 DEF AtEndOfFile, N
  <2> QED BY <1>2, <2>2, <2>3 DEF s
<1> QED BY <1>4, <1>5

-----------------------------------------------------------------------------
(* Python.                                                                  *)
LEMMA FirstOfIs ==
    ASSUME FileOK, NEW ns, NEW n \in 1 .. N + 1
    PROVE  /\ FirstOf(ns, n) \in n .. N + 1 /\ (FirstOf(ns, n) \in ns \/ FirstOf(ns, n) = N + 1)
           /\ \A j \in n .. FirstOf(ns, n) - 1 : j \notin ns
<1> DEFINE S == {k \in n .. N + 1 : k \in ns \/ k = N + 1}
<1>1. N \in Nat /\ n \in Nat
  BY FileIs
<1>2. S \subseteq Nat /\ S # {}
  <2>1. N + 1 \in S
    BY <1>1
  <2> QED BY <1>1, <2>1
<1>3. PICK k \in S : \A m \in S : k <= m
  BY <1>2, LeastNumber
<1>4. \A j \in n .. k - 1 : j \notin ns
  <2> SUFFICES ASSUME NEW j \in n .. k - 1, j \in ns PROVE FALSE
    OBVIOUS
  <2>1. k \in n .. N + 1 /\ j \in n .. N + 1 /\ j < k
    BY <1>1, <1>3
  <2>2. j \in S
    BY <2>1
  <2> QED BY <1>1, <1>3, <2>1, <2>2
<1>5. \E m \in n .. N + 1 : (m \in ns \/ m = N + 1) /\ \A j \in n .. m - 1 : j \notin ns
  BY <1>3, <1>4
<1> QED BY <1>5 DEF FirstOf, N

PythonStates ==
    {s \in [next : Nat, items : Seq(Item)] :
        ItemsLaid(s.items) /\ \A i \in DOMAIN s.items : s.items[i].last < s.next}

LEMMA PythonLineKeeps ==
    ASSUME FileOK, NEW n \in 1 .. N, NEW s \in PythonStates PROVE PythonLine(s, n) \in PythonStates
<1> DEFINE def == IF text[n].decorator THEN FirstOf(WithText, FirstOf(Undecorated, n)) ELSE n
           next == FirstOf(Outer, def + 1)
           end == CHOOSE k \in WithText : def <= k /\ k < next /\ \A j \in k + 1 .. next - 1 : IsBlank(j)
           new == Append(s.items, [first |-> n, last |-> end])
           t == PythonLine(s, n)
           taken == n >= s.next /\ n \in Outer /\ def \in Outer /\ text[def].item
           skipped == n < s.next \/ n \notin Outer
<1>1. N \in Nat /\ n \in Nat /\ WithText \subseteq 1 .. N /\ DOMAIN text = 1 .. N
  BY FileIs
<1>2. s \in [next : Nat, items : Seq(Item)] /\ ItemsLaid(s.items) /\ \A i \in DOMAIN s.items : s.items[i].last < s.next
  BY DEF PythonStates
<1>3. \A i \in DOMAIN s.items : s.items[i].last \in Nat
  <2>1. \A i \in DOMAIN s.items : s.items[i] \in Item
    BY <1>2
  <2> QED BY <2>1 DEF Item
<1>4. def \in n .. N + 1
  <2>1. CASE text[n].decorator
    <3> DEFINE u == FirstOf(Undecorated, n)
    <3>1. n \in 1 .. N + 1
      BY <1>1
    <3>2. u \in n .. N + 1
      BY <3>1, FirstOfIs
    <3> HIDE DEF u
    <3>3. u \in 1 .. N + 1
      BY <1>1, <3>2
    <3>4. FirstOf(WithText, u) \in u .. N + 1
      BY <3>3, FirstOfIs
    <3>5. def = FirstOf(WithText, u)
      BY <2>1 DEF u
    <3> HIDE DEF def
    <3> QED BY <1>1, <3>2, <3>4, <3>5
  <2>2. CASE ~text[n].decorator
    BY <1>1, <2>2
  <2> QED BY <2>1, <2>2
<1>5. t = CASE skipped -> s
            [] taken -> [next |-> next, items |-> new]
            [] OTHER -> [s EXCEPT !.next = def + 1]
  BY DEF PythonLine
<1> HIDE DEF def, t
<1>6. CASE skipped
  <2>1. ~taken
    BY <1>1, <1>2, <1>6
  <2>2. t = s
    <3> HIDE DEF skipped, taken, new, next
    <3> QED BY <1>5, <1>6, <2>1
  <2> QED BY <2>2 DEF t
<1>7. CASE taken
  <2>1. ~skipped
    BY <1>1, <1>2, <1>7
  <2>2. t = [next |-> next, items |-> new]
    <3> HIDE DEF skipped, taken, new, next
    <3> QED BY <1>5, <1>7, <2>1
  <2>3. def \in WithText /\ def \in 1 .. N /\ def + 1 \in 1 .. N + 1
    BY <1>1, <1>7 DEF Outer
  <2>4. next \in def + 1 .. N + 1
    BY <2>3, FirstOfIs
  <2> HIDE DEF next
  <2>5. \E k \in WithText : def <= k /\ k < next /\ \A j \in k + 1 .. next - 1 : IsBlank(j)
    <3> DEFINE S == {k \in WithText : def <= k /\ k < next}
    <3>1. def \in S /\ S \subseteq 1 .. N
      <4>1. def <= def /\ def < next
        BY <1>1, <2>3, <2>4
      <4>2. S \subseteq WithText
        OBVIOUS
      <4> QED BY <1>1, <2>3, <4>1, <4>2
    <3>2. IsFiniteSet(S) /\ S \subseteq Int /\ S # {}
      <4>1. IsFiniteSet(1 .. N)
        <5>1. 1 \in Int /\ N \in Int
          BY <1>1
        <5> QED BY <5>1, FS_Interval
      <4>2. IsFiniteSet(S)
        BY <3>1, <4>1, FS_Subset
      <4> QED BY <3>1, <4>2
    <3>3. Max(S) \in S /\ \A x \in S : x <= Max(S)
      BY <3>2, MaxIs
    <3> DEFINE k == Max(S)
    <3>4. ASSUME NEW j \in k + 1 .. next - 1 PROVE IsBlank(j)
      <4>1. k \in 1 .. N /\ def <= k
        BY <3>1, <3>3
      <4> HIDE DEF k
      <4>2. j \in 1 .. N /\ def <= j /\ j < next /\ ~(j <= k)
        BY <1>1, <2>3, <2>4, <4>1
      <4>3. j \notin S
        BY <3>3, <4>2 DEF k
      <4> QED BY <1>1, <4>2, <4>3 DEF WithText
    <3> HIDE DEF S
    <3>5. k \in WithText /\ def <= k /\ k < next
      BY <3>3 DEF S
    <3> HIDE DEF k
    <3> QED BY <3>4, <3>5
  <2>6. end \in WithText /\ def <= end /\ end < next
    BY <2>5
  <2> HIDE DEF end
  <2>7. n \in 1 .. N /\ end \in 1 .. N /\ n <= end /\ \A i \in DOMAIN s.items : s.items[i].last < n
    <3>1. n <= def /\ def \in Int /\ end \in 1 .. N
      BY <1>1, <1>4, <2>6
    <3>2. n >= s.next /\ s.next \in Nat
      BY <1>2, <1>7
    <3> QED BY <1>1, <1>2, <1>3, <2>6, <3>1, <3>2
  <2>8. ItemsLaid(new) /\ \A i \in DOMAIN new : new[i].last <= end
    BY <1>1, <1>2, <2>7, ItemsAppended
  <2> HIDE DEF new
  <2>9. next \in Nat /\ new \in Seq(Item) /\ \A i \in DOMAIN new : new[i] \in Item
    <3>1. new \in Seq(Item)
      BY <2>8 DEF ItemsLaid
    <3> QED BY <1>1, <2>3, <2>4, <3>1
  <2>10. \A i \in DOMAIN new : new[i].last < next
    <3>1. \A i \in DOMAIN new : new[i].last \in Nat
      BY <2>9 DEF Item
    <3> QED BY <1>1, <2>6, <2>7, <2>8, <2>9, <3>1
  <2>11. t \in [next : Nat, items : Seq(Item)] /\ t.next = next /\ t.items = new
    BY <2>2, <2>9
  <2> QED BY <2>8, <2>10, <2>11 DEF PythonStates, t
<1>8. CASE ~skipped /\ ~taken
  <2>1. t = [s EXCEPT !.next = def + 1]
    <3> HIDE DEF skipped, taken, new, next
    <3> QED BY <1>5, <1>8
  <2>2. t \in [next : Nat, items : Seq(Item)] /\ t.next = def + 1 /\ t.items = s.items
    BY <1>1, <1>2, <1>4, <2>1
  <2>3. s.next <= n /\ n <= def /\ def \in Nat /\ s.next \in Nat
    BY <1>1, <1>2, <1>4, <1>8
  <2>4. \A i \in DOMAIN s.items : s.items[i].last < def + 1
    BY <1>1, <1>2, <1>3, <2>3
  <2> QED BY <1>2, <2>2, <2>4 DEF PythonStates, t
<1> QED BY <1>6, <1>7, <1>8

LEMMA PythonFindsItems == ASSUME FileOK PROVE ItemsLaid(PythonItems)
<1> DEFINE I == [k \in 0 .. N |-> PythonStates]
           start == [next |-> 1, items |-> <<>>]
<1>1. start \in PythonStates
  <2>1. start \in [next : Nat, items : Seq(Item)] /\ start.items = <<>>
    OBVIOUS
  <2>2. ItemsLaid(<<>>) /\ DOMAIN <<>> = {}
    BY DEF ItemsLaid
  <2> QED BY <2>1, <2>2 DEF PythonStates
<1>2. N \in Nat /\ Len(Numbers) = N /\ \A k \in 1 .. N : Numbers[k] = k
  BY NumbersAre
<1>3. \A k \in 0 .. N : I[k] = PythonStates
  OBVIOUS
<1> HIDE DEF I, start
<1>4. ASSUME NEW k \in 1 .. N, NEW s \in I[k - 1] PROVE PythonLine(s, Numbers[k]) \in I[k]
  <2>1. k - 1 \in 0 .. N /\ k \in 0 .. N
    BY <1>2
  <2> QED BY <1>2, <1>3, <2>1, PythonLineKeeps
<1>5. Keeps(PythonLine, I, start, Numbers)
  <2>1. start \in I[0]
    BY <1>1, <1>2, <1>3
  <2> QED BY <1>2, <1>4, <2>1 DEF Keeps
<1>6. Through(PythonLine, start, Numbers) \in I[N]
  BY <1>2, <1>5, PythonLoop
<1>7. I[N] = PythonStates
  BY <1>2, <1>3
<1> QED BY <1>6, <1>7 DEF PythonItems, PythonStates, start

-----------------------------------------------------------------------------
(* A chunk for each node.                                                   *)
LEMMA NodesAreCut ==
    ASSUME FileOK, NEW its, ItemsLaid(its), NEW cs,
           cs = [k \in DOMAIN its |-> ChunkOf(From(its[k].first, its[k].last), its[k].first, its[k].last)]
    PROVE  FileCut(cs)
<1> DEFINE ps == [k \in DOMAIN its |-> From(its[k].first, its[k].last)]
<1>1. its \in Seq(Item) /\ DOMAIN its = 1 .. Len(its) /\ Len(its) \in Nat /\ N \in Nat
  BY FileIs DEF ItemsLaid
<1>2. ASSUME NEW k \in DOMAIN its
      PROVE  /\ its[k].first \in Nat \ {0} /\ its[k].last \in Nat /\ its[k].last <= N
             /\ ps[k] \in Seq(Nat) /\ Increasing(ps[k]) /\ ToSet(ps[k]) = its[k].first .. its[k].last
  <2>1. its[k].first \in Nat \ {0} /\ its[k].last \in Nat /\ its[k].last <= N
    BY <1>1 DEF ItemsLaid, InFile
  <2>2. ps[k] = From(its[k].first, its[k].last)
    OBVIOUS
  <2> HIDE DEF ps
  <2> QED BY <2>1, <2>2, FromIs
<1>3. DOMAIN ps = DOMAIN its /\ ps = [k \in DOMAIN its |-> ps[k]] /\ DOMAIN cs = DOMAIN its /\ cs = [k \in DOMAIN its |-> cs[k]]
  OBVIOUS
<1>4. \A k \in DOMAIN its : cs[k] = ChunkOf(ps[k], its[k].first, its[k].last)
  OBVIOUS
<1> HIDE DEF ps
<1>5. ps \in Lists
  <2>1. ps \in [1 .. Len(its) -> Seq(Nat)]
    BY <1>1, <1>2, <1>3
  <2> QED BY <1>1, <2>1 DEF Lists
<1>6. Laid(ps)
  <2>1. ASSUME NEW k \in DOMAIN its, NEW l \in DOMAIN its, k < l PROVE Below(ToSet(ps[k]), ToSet(ps[l]))
    <3>1. its[k].last < its[l].first
      BY <2>1 DEF ItemsLaid
    <3>2. \A m \in its[k].first .. its[k].last, n \in its[l].first .. its[l].last : m < n
      BY <1>2, <3>1
    <3> QED BY <1>2, <3>2 DEF Below
  <2> QED BY <1>2, <1>3, <1>5, <2>1 DEF Laid
<1>7. \A k \in DOMAIN ps : cs[k] \in Chunk /\ cs[k].lines = ps[k] /\ cs[k].first = its[k].first /\ cs[k].last = its[k].last
  <2> TAKE k \in DOMAIN ps
  <2>1. its[k].first \in Nat /\ its[k].last \in Nat /\ ps[k] \in Seq(Nat)
    BY <1>2, <1>3
  <2>2. cs[k] = ChunkOf(ps[k], its[k].first, its[k].last)
    BY <1>3, <1>4
  <2> QED BY <2>1, <2>2, ChunkOfIs
<1>8. cs \in Seq(Chunk) /\ LinesIn(cs) = ps
  BY <1>3, <1>5, <1>7, MadeOf
<1>9. Held(ps) \subseteq 1 .. N
  <2>1. \A k \in DOMAIN its : its[k].first .. its[k].last \subseteq 1 .. N
    BY <1>1, <1>2
  <2> QED BY <1>2, <1>3, <2>1 DEF Held
<1> QED BY <1>2, <1>3, <1>6, <1>7, <1>8, <1>9 DEF FileCut, Shown

-----------------------------------------------------------------------------
(* Text.  A line more is its bytes and a newline more.                      *)
LEMMA BytesGrow ==
    ASSUME FileOK, NEW ns \in Seq(1 .. N), NEW n \in 1 .. N
    PROVE  Bytes(ns) \in Int /\ Bytes(Append(ns, n)) \in Int /\ Bytes(Append(ns, n)) = Bytes(ns) + text[n].size + 1
<1> DEFINE L == Len(ns)
           I == [k \in 0 .. L |-> Int]
           G == [k \in 1 .. L |-> [x \in Int |-> x + text[ns[k]].size + 1]]
           more == Append(ns, n)
<1>1. /\ L \in Nat /\ \A k \in 1 .. L : ns[k] \in 1 .. N
      /\ Len(more) = L + 1 /\ more[L + 1] = n /\ \A k \in 1 .. L : more[k] = ns[k]
  <2> DEFINE U == 1 .. N
  <2>1. ns \in Seq(U) /\ n \in U
    OBVIOUS
  <2> HIDE DEF U
  <2>2. L \in Nat /\ \A k \in 1 .. L : ns[k] \in U
    BY <2>1
  <2>3. Len(more) = L + 1 /\ more[L + 1] = n /\ \A k \in 1 .. L : more[k] = ns[k]
    BY <2>1, AppendProperties
  <2> QED BY <2>2, <2>3 DEF U
<1>2. \A m \in 1 .. N : text[m].size \in Nat
  BY FileIs DEF Line
<1>3. /\ \A k \in 0 .. L : I[k] = Int
      /\ \A k \in 1 .. L : \A x \in Int : G[k][x] = x + text[ns[k]].size + 1
  OBVIOUS
<1> HIDE DEF L, I, G, more
<1>4. AreSteps(L, I, 0, G)
  <2>1. 0 \in 0 .. L /\ \A k \in 1 .. L : k - 1 \in 0 .. L /\ k \in 0 .. L
    BY <1>1
  <2>2. ASSUME NEW k \in 1 .. L, NEW x \in I[k - 1] PROVE G[k][x] \in I[k]
    <3>1. x \in Int /\ I[k] = Int
      BY <1>3, <2>1
    <3>2. text[ns[k]].size \in Nat
      BY <1>1, <1>2
    <3>3. G[k][x] = x + text[ns[k]].size + 1
      BY <1>3, <3>1
    <3> QED BY <3>1, <3>2, <3>3
  <2>3. 0 \in I[0]
    BY <1>3, <2>1
  <2> QED BY <1>1, <2>2, <2>3 DEF AreSteps
<1>5. PICK h : IsRun(h, L, I, 0, G)
  BY <1>4, StepsExist
<1>6. /\ h[0] = 0 /\ \A k \in 0 .. L : h[k] \in Int
      /\ \A k \in 1 .. L : h[k] = h[k - 1] + text[ns[k]].size + 1
  <2>1. \A k \in 0 .. L : h[k] \in Int
    BY <1>3, <1>5 DEF IsRun
  <2>2. h[0] = 0 /\ \A k \in 1 .. L : h[k] = G[k][h[k - 1]]
    BY <1>1, <1>5 DEF IsRun
  <2>3. \A k \in 1 .. L : k - 1 \in 0 .. L
    BY <1>1
  <2> QED BY <1>3, <2>1, <2>2, <2>3
<1>7. Summed(0, ns) = h[L]
  <2> DEFINE J == [k \in 0 .. L |-> {h[k]}]
  <2>1. SumKeeps(J, 0, ns)
    <3>1. Len(ns) \in Nat /\ 0 \in J[0] /\ L = Len(ns)
      BY <1>1, <1>6 DEF L
    <3>2. ASSUME NEW k \in 1 .. Len(ns), NEW x \in J[k - 1] PROVE x + text[ns[k]].size + 1 \in J[k]
      <4>1. k - 1 \in 0 .. L /\ k \in 0 .. L /\ k \in 1 .. L
        BY <3>1
      <4>2. x = h[k - 1] /\ J[k] = {h[k]}
        BY <4>1
      <4> QED BY <1>6, <4>1, <4>2
    <3> HIDE DEF J
    <3> QED BY <3>1, <3>2 DEF SumKeeps, Keeps
  <2>2. L = Len(ns) /\ J[L] = {h[L]}
    BY <1>1 DEF L
  <2> HIDE DEF J
  <2>3. Summed(0, ns) \in J[Len(ns)]
    BY <2>1, BytesLoop
  <2> QED BY <2>2, <2>3
<1>8. Summed(0, more) = h[L] + text[n].size + 1
  <2> DEFINE J == [k \in 0 .. L + 1 |-> IF k = L + 1 THEN {h[L] + text[n].size + 1} ELSE {h[k]}]
  <2>1. SumKeeps(J, 0, more)
    <3>1. Len(more) \in Nat /\ 0 \in J[0]
      BY <1>1, <1>6
    <3>2. ASSUME NEW k \in 1 .. Len(more), NEW x \in J[k - 1] PROVE x + text[more[k]].size + 1 \in J[k]
      <4>1. k - 1 \in 0 .. L + 1 /\ k \in 0 .. L + 1 /\ k - 1 # L + 1 /\ (k \in 1 .. L \/ k = L + 1)
        BY <1>1
      <4>2. x = h[k - 1]
        BY <4>1
      <4>3. CASE k = L + 1
        <5>1. J[k] = {h[L] + text[n].size + 1} /\ more[k] = n /\ k - 1 = L
          BY <1>1, <4>1, <4>3
        <5> QED BY <4>2, <5>1
      <4>4. CASE k \in 1 .. L
        <5>1. J[k] = {h[k]} /\ more[k] = ns[k]
          BY <1>1, <4>1, <4>4
        <5> QED BY <1>6, <4>2, <4>4, <5>1
      <4> QED BY <4>1, <4>3, <4>4
    <3> HIDE DEF J
    <3> QED BY <3>1, <3>2 DEF SumKeeps, Keeps
  <2>2. Len(more) = L + 1 /\ J[L + 1] = {h[L] + text[n].size + 1}
    BY <1>1
  <2> HIDE DEF J
  <2>3. Summed(0, more) \in J[Len(more)]
    BY <2>1, BytesLoop
  <2> QED BY <2>2, <2>3
<1>9. Bytes(ns) = Summed(0, ns) - 1 /\ Bytes(more) = Summed(0, more) - 1
  BY DEF Bytes, Summed
<1>10. h[L] \in Int /\ text[n].size \in Nat
  BY <1>1, <1>2, <1>6
<1> HIDE DEF L, more
<1>11. Bytes(ns) \in Int /\ Bytes(more) \in Int /\ Bytes(more) = Bytes(ns) + text[n].size + 1
  <2> DEFINE a == h[L]
             b == text[n].size
             d == Summed(0, ns)
             e == Summed(0, more)
  <2>1. a \in Int /\ b \in Nat /\ d = a /\ e = a + b + 1
    BY <1>7, <1>8, <1>10
  <2>2. Bytes(ns) = d - 1 /\ Bytes(more) = e - 1
    BY <1>9
  <2> HIDE DEF a, b, d, e
  <2>3. Bytes(ns) \in Int /\ Bytes(more) \in Int /\ Bytes(more) = Bytes(ns) + b + 1
    BY <2>1, <2>2
  <2> QED BY <2>3 DEF b
<1> QED BY <1>11 DEF more

Small(ns) == Len(ns) > 1 => Bytes(ns) < MaxChars
TextChunk(c) == Shown(c) \subseteq c.first .. c.last /\ Small(c.lines)
TextStates(k) ==
    {s \in [lines : Seq(Nat), first : 0 .. k + 1, done : Seq(Chunk)] :
        /\ Opened(LinesIn(s.done), s.lines) /\ Within(LinesIn(s.done), s.lines) = 1 .. k
        /\ \A m \in ToSet(s.lines) : IsBlank(m) \/ m >= s.first
        /\ Small(s.lines) /\ \A j \in DOMAIN s.done : TextChunk(s.done[j])}

(* The open chunk is pushed, and a line after it begins the next.           *)
LEMMA PushesText ==
    ASSUME FileOK, NEW k \in 0 .. N, NEW s \in TextStates(k), NEW last \in Nat, k <= last,
           NEW done, done = PushTextChunk(s, last)
    PROVE  /\ done \in Seq(Chunk) /\ LinesIn(done) = Append(LinesIn(s.done), s.lines)
           /\ \A j \in DOMAIN done : TextChunk(done[j])
<1> DEFINE c == ChunkOf(s.lines, s.first, last)
<1>1. /\ s.lines \in Seq(Nat) /\ s.first \in Nat /\ s.done \in Seq(Chunk) /\ Within(LinesIn(s.done), s.lines) = 1 .. k
      /\ \A m \in ToSet(s.lines) : IsBlank(m) \/ m >= s.first
      /\ Small(s.lines) /\ \A j \in DOMAIN s.done : TextChunk(s.done[j])
  BY FileIs DEF TextStates
<1>2. c \in Chunk /\ c.lines = s.lines /\ c.first = s.first /\ c.last = last
  BY <1>1, ChunkOfIs
<1> HIDE DEF c
<1>3. TextChunk(c)
  <2>1. \A m \in ToSet(s.lines) : m \in 1 .. k
    BY <1>1 DEF Within
  <2>2. ASSUME NEW m \in Shown(c) PROVE m \in c.first .. c.last
    <3>1. m \in ToSet(s.lines) /\ ~IsBlank(m)
      BY <1>2 DEF Shown
    <3>2. m \in 1 .. k /\ m >= s.first
      BY <1>1, <2>1, <3>1
    <3> QED BY <1>1, <1>2, <3>2, FileIs
  <2> QED BY <1>1, <1>2, <2>2 DEF TextChunk
<1>4. done = Append(s.done, c)
  BY DEF PushTextChunk, c
<1>5. done \in Seq(Chunk) /\ LinesIn(done) = Append(LinesIn(s.done), s.lines)
  BY <1>1, <1>2, <1>4, ChunksHaveLines, LinesInAppend
<1>6. ASSUME NEW j \in DOMAIN done PROVE TextChunk(done[j])
  <2>1. Len(done) = Len(s.done) + 1 /\ done[Len(s.done) + 1] = c /\ \A i \in 1 .. Len(s.done) : done[i] = s.done[i]
    BY <1>1, <1>2, <1>4, AppendProperties
  <2>2. DOMAIN s.done = 1 .. Len(s.done) /\ Len(s.done) \in Nat /\ j \in 1 .. Len(done)
    BY <1>1, <1>5
  <2>3. j \in DOMAIN s.done \/ j = Len(s.done) + 1
    BY <2>1, <2>2
  <2> QED BY <1>1, <1>3, <2>1, <2>2, <2>3
<1> QED BY <1>5, <1>6

LEMMA TextLineKeeps ==
    ASSUME FileOK, NEW n \in 1 .. N, NEW s \in TextStates(n - 1) PROVE TextLine(s, n) \in TextStates(n)
<1> DEFINE full == Bytes(s.lines) + 1
           half == IsBlank(n) /\ full >= MaxChars \div 2
           over == full + text[n].size + 1 > MaxChars
           done == PushTextChunk(s, n)
           ds == LinesIn(s.done)
           t == TextLine(s, n)
<1>1. N \in Nat /\ n \in Nat /\ n - 1 \in 0 .. N /\ n - 1 <= n /\ (n - 1) + 1 = n
  BY FileIs
<1>2. /\ s.lines \in Seq(Nat) /\ s.first \in 0 .. n /\ s.done \in Seq(Chunk)
      /\ s \in [lines : Seq(Nat), first : 0 .. n, done : Seq(Chunk)]
      /\ Opened(ds, s.lines) /\ Within(ds, s.lines) = 1 .. n - 1
      /\ \A m \in ToSet(s.lines) : IsBlank(m) \/ m >= s.first
      /\ Small(s.lines) /\ \A j \in DOMAIN s.done : TextChunk(s.done[j])
  BY <1>1 DEF TextStates
<1>3. /\ done \in Seq(Chunk) /\ LinesIn(done) = Append(ds, s.lines)
      /\ \A j \in DOMAIN done : TextChunk(done[j])
  BY <1>1, PushesText
<1>4. OneAbove(n, ds, s.lines) /\ 1 .. n = (1 .. n - 1) \union {n}
  BY <1>1, <1>2 DEF OneAbove
<1>5. t = CASE half /\ s.lines # <<>> -> [lines |-> <<n>>, first |-> n + 1, done |-> done]
            [] ~half /\ s.lines # <<>> /\ over -> [lines |-> <<n>>, first |-> n, done |-> done]
            [] OTHER -> [s EXCEPT !.lines = Append(@, n)]
  BY DEF TextLine
<1> HIDE DEF half, over, done, ds, t, full
<1>6. ASSUME NEW first \in {n, n + 1}, first = n + 1 => IsBlank(n),
             t = [lines |-> <<n>>, first |-> first, done |-> done]
      PROVE  t \in TextStates(n)
  <2>1. <<n>> \in Seq(Nat) /\ Opened(LinesIn(done), <<n>>) /\ Within(LinesIn(done), <<n>>) = 1 .. n
    <3>1. n \in Nat /\ Opened(ds, s.lines) /\ OneAbove(n, ds, s.lines)
      BY <1>1, <1>2, <1>4
    <3>2. /\ <<n>> \in Seq(Nat) /\ Opened(Append(ds, s.lines), <<n>>)
          /\ Within(Append(ds, s.lines), <<n>>) = Within(ds, s.lines) \union {n}
      BY <3>1, ClosesAhead
    <3> QED BY <1>2, <1>3, <1>4, <3>2
  <2>2. t \in [lines : Seq(Nat), first : 0 .. n + 1, done : Seq(Chunk)] /\ t.lines = <<n>> /\ t.first = first /\ t.done = done
    BY <1>1, <1>3, <1>6, <2>1
  <2>3. ToSet(<<n>>) = {n} /\ Len(<<n>>) = 1
    BY <1>1, OneLine
  <2>4. Small(t.lines) /\ \A m \in ToSet(t.lines) : IsBlank(m) \/ m >= t.first
    BY <1>1, <1>6, <2>2, <2>3 DEF Small
  <2> QED BY <1>3, <2>1, <2>2, <2>4 DEF TextStates
<1>7. CASE half /\ s.lines # <<>>
  <2>1. t = [lines |-> <<n>>, first |-> n + 1, done |-> done]
    BY <1>5, <1>7
  <2>2. IsBlank(n)
    BY <1>7 DEF half
  <2> QED BY <1>6, <2>1, <2>2 DEF t
<1>8. CASE ~half /\ s.lines # <<>> /\ over
  <2>1. t = [lines |-> <<n>>, first |-> n, done |-> done]
    BY <1>5, <1>8
  <2> QED BY <1>1, <1>6, <2>1 DEF t
<1>9. CASE ~(half /\ s.lines # <<>>) /\ ~(~half /\ s.lines # <<>> /\ over)
  <2>1. t = [s EXCEPT !.lines = Append(@, n)]
    BY <1>5, <1>9
  <2>2. /\ Append(s.lines, n) \in Seq(Nat) /\ Opened(ds, Append(s.lines, n))
        /\ Within(ds, Append(s.lines, n)) = 1 .. n
    <3>1. n \in Nat /\ Opened(ds, s.lines) /\ OneAbove(n, ds, s.lines)
      BY <1>1, <1>2, <1>4
    <3>2. /\ Append(s.lines, n) \in Seq(Nat) /\ Opened(ds, Append(s.lines, n))
          /\ Within(ds, Append(s.lines, n)) = Within(ds, s.lines) \union {n}
      BY <3>1, GrowsByOne
    <3> QED BY <1>2, <1>4, <3>2
  <2>3. /\ t \in [lines : Seq(Nat), first : 0 .. n + 1, done : Seq(Chunk)] /\ t.lines = Append(s.lines, n)
        /\ t.first = s.first /\ t.done = s.done
    <3> DEFINE more == Append(s.lines, n)
    <3>1. more \in Seq(Nat) /\ t = [s EXCEPT !.lines = more]
      BY <2>1, <2>2
    <3> HIDE DEF more
    <3>2. t = [lines |-> more, first |-> s.first, done |-> s.done]
      BY <1>2, <3>1
    <3>3. s.first \in 0 .. n + 1
      BY <1>1, <1>2
    <3> QED BY <1>2, <3>1, <3>2, <3>3 DEF more
  <2>4. ToSet(Append(s.lines, n)) = ToSet(s.lines) \union {n}
    <3> DEFINE p == <<n>>
    <3>1. Append(s.lines, n) = s.lines \o p /\ p \in Seq(Nat) /\ ToSet(p) = {n}
      BY <1>1, <1>2, OneLine
    <3> HIDE DEF p
    <3>2. ToSet(s.lines \o p) = ToSet(s.lines) \union ToSet(p)
      BY <1>2, <3>1, Joined
    <3> QED BY <3>1, <3>2
  <2>5. \A m \in ToSet(t.lines) : IsBlank(m) \/ m >= t.first
    <3>1. n >= s.first
      BY <1>1, <1>2
    <3> QED BY <1>2, <2>3, <2>4, <3>1
  <2>6. Small(t.lines)
    <3>1. CASE s.lines = <<>>
      <4>1. Len(t.lines) = 1
        BY <2>3, <3>1
      <4> QED BY <4>1 DEF Small
    <3>2. CASE s.lines # <<>>
      <4>1. ~over
        BY <1>9, <3>2
      <4>2. s.lines \in Seq(1 .. N)
        <5>1. \A i \in DOMAIN s.lines : s.lines[i] \in ToSet(s.lines)
          BY DEF ToSet
        <5>2. \A i \in DOMAIN s.lines : s.lines[i] \in 1 .. N
          BY <1>1, <1>2, <5>1 DEF Within
        <5> DEFINE U == 1 .. N
                   q == s.lines
        <5>3. q \in Seq(Nat) /\ \A i \in DOMAIN q : q[i] \in U
          BY <1>2, <5>2
        <5> HIDE DEF U, q
        <5>4. q \in [1 .. Len(q) -> U] /\ Len(q) \in Nat
          BY <5>3
        <5>5. q \in Seq(U)
          BY <5>4
        <5> QED BY <5>5 DEF U, q
      <4>3. /\ Bytes(s.lines) \in Int /\ Bytes(Append(s.lines, n)) \in Int
            /\ Bytes(Append(s.lines, n)) = Bytes(s.lines) + text[n].size + 1
        BY <4>2, BytesGrow
      <4>4. MaxChars \in Int /\ text[n].size \in Nat
        BY ChunkingAssumption, FileIs DEF MaxChars, Line
      <4>5. Bytes(Append(s.lines, n)) < MaxChars
        BY <4>1, <4>3, <4>4 DEF over, full
      <4> QED BY <2>3, <4>5 DEF Small
    <3> QED BY <3>1, <3>2
  <2> QED BY <1>2, <2>2, <2>3, <2>5, <2>6 DEF TextStates, t, ds
<1> QED BY <1>7, <1>8, <1>9

TextCut(cs) ==
    /\ FileCut(cs) /\ 1 .. N \subseteq Held(LinesIn(cs)) /\ \A k \in DOMAIN cs : Small(cs[k].lines)

LEMMA TextIsCut == ASSUME FileOK PROVE TextCut(ChunkTextFallback)
<1> DEFINE I == [k \in 0 .. N |-> TextStates(k)]
           start == [lines |-> <<>>, first |-> 1, done |-> <<>>]
           s == Through(TextLine, start, Numbers)
           cs == ChunkTextFallback
<1>1. N \in Nat /\ Len(Numbers) = N /\ \A k \in 1 .. N : Numbers[k] = k
  BY NumbersAre
<1>2. start \in TextStates(0)
  <2>1. start \in [lines : Seq(Nat), first : 0 .. 0 + 1, done : Seq(Chunk)] /\ start.lines = <<>> /\ start.done = <<>>
    OBVIOUS
  <2> HIDE DEF start
  <2>2. LinesIn(<<>>) = <<>> /\ 1 .. 0 = {} /\ DOMAIN <<>> = {} /\ Len(<<>>) = 0
    BY DEF LinesIn
  <2>3. Small(<<>>)
    BY <2>2 DEF Small
  <2> QED BY <2>1, <2>2, <2>3, NoneIsLaid, NoLines DEF TextStates
<1>3. \A k \in 0 .. N : I[k] = TextStates(k)
  OBVIOUS
<1> HIDE DEF I, start
<1>4. ASSUME NEW k \in 1 .. N, NEW x \in I[k - 1] PROVE TextLine(x, Numbers[k]) \in I[k]
  <2>1. k - 1 \in 0 .. N /\ k \in 0 .. N
    BY <1>1
  <2>2. x \in TextStates(k - 1) /\ I[k] = TextStates(k) /\ Numbers[k] = k
    BY <1>1, <1>3, <2>1
  <2> QED BY <2>2, TextLineKeeps
<1>5. Keeps(TextLine, I, start, Numbers)
  <2>1. start \in I[0]
    BY <1>1, <1>2, <1>3
  <2> QED BY <1>1, <1>4, <2>1 DEF Keeps
<1>6. s \in TextStates(N)
  <2>1. s \in I[N]
    BY <1>1, <1>5, TextLoop
  <2> QED BY <1>1, <1>3, <2>1
<1>7. cs = IF s.lines = <<>> THEN s.done ELSE PushTextChunk(s, N + 1)
  BY DEF ChunkTextFallback, start, N
<1> HIDE DEF s, cs
<1>8. /\ s.done \in Seq(Chunk) /\ Opened(LinesIn(s.done), s.lines) /\ Within(LinesIn(s.done), s.lines) = 1 .. N
      /\ \A j \in DOMAIN s.done : TextChunk(s.done[j])
  BY <1>6 DEF TextStates
<1>9. /\ cs \in Seq(Chunk) /\ \A j \in DOMAIN cs : TextChunk(cs[j])
      /\ LinesIn(cs) = IF s.lines = <<>> THEN LinesIn(s.done) ELSE Append(LinesIn(s.done), s.lines)
  <2>1. CASE s.lines = <<>>
    BY <1>7, <1>8, <2>1
  <2>2. CASE s.lines # <<>>
    <3>1. N + 1 \in Nat /\ N <= N + 1 /\ N \in 0 .. N /\ cs = PushTextChunk(s, N + 1)
      BY <1>1, <1>7, <2>2
    <3>2. cs \in Seq(Chunk) /\ LinesIn(cs) = Append(LinesIn(s.done), s.lines) /\ \A j \in DOMAIN cs : TextChunk(cs[j])
      BY <1>6, <3>1, PushesText
    <3> QED BY <2>2, <3>2
  <2> QED BY <2>1, <2>2
<1>10. Laid(LinesIn(cs)) /\ Held(LinesIn(cs)) = 1 .. N
  BY <1>8, <1>9, AllClosed
<1> QED BY <1>9, <1>10 DEF TextCut, FileCut, TextChunk, cs

-----------------------------------------------------------------------------
(* Markdown.  A line is in a code block when an odd number of fences is     *)
(* above it or on it.                                                       *)
Fences(n) == {k \in 1 .. n : text[k].fence}
InCode(n) == Cardinality(Fences(n)) % 2 = 1
Levels(n) == {HeadingLevel(h) : h \in HeadingsAbove(n)}

LEMMA CodeIs ==
    InCode(0) = FALSE /\ (FileOK => \A n \in 1 .. N : InCode(n) = (InCode(n - 1) # text[n].fence))
<1>1. Fences(0) = {}
  BY DEF Fences
<1>2. InCode(0) = FALSE
  BY <1>1, FS_EmptySet DEF InCode
<1>3. ASSUME FileOK, NEW n \in 1 .. N PROVE InCode(n) = (InCode(n - 1) # text[n].fence)
  <2>1. n \in Nat /\ text[n].fence \in BOOLEAN /\ 1 .. n = (1 .. n - 1) \union {n} /\ n \notin 1 .. n - 1
    BY <1>3, FileIs DEF Line
  <2> DEFINE c == Cardinality(Fences(n - 1))
             d == Cardinality(Fences(n))
  <2>2. IsFiniteSet(Fences(n - 1)) /\ n \notin Fences(n - 1)
    <3>1. IsFiniteSet(1 .. n - 1)
      BY <2>1, FS_Interval
    <3> QED BY <2>1, <3>1, FS_Subset DEF Fences
  <2>3. c \in Nat
    BY <2>2, FS_CardinalityType
  <2>4. d = IF text[n].fence THEN c + 1 ELSE c
    <3>1. Fences(n) = IF text[n].fence THEN Fences(n - 1) \union {n} ELSE Fences(n - 1)
      BY <2>1 DEF Fences
    <3> QED BY <2>2, <3>1, FS_AddElement
  <2>5. InCode(n - 1) = (c % 2 = 1) /\ InCode(n) = (d % 2 = 1)
    BY DEF InCode
  <2> HIDE DEF c, d
  <2>6. (c + 1) % 2 = 1 <=> ~(c % 2 = 1)
    BY <2>3
  <2> QED BY <2>1, <2>4, <2>5, <2>6
<1> QED BY <1>2, <1>3

LEMMA LevelIs ==
    ASSUME FileOK, NEW n \in 1 .. N
    PROVE  /\ HeadingLevel(n) = IF InCode(n) THEN 0 ELSE ParseHeading(text[n])
           /\ HeadingLevel(n) \in Nat
<1>1. text[n].hashes \in Nat /\ text[n].titled \in BOOLEAN
  BY FileIs DEF Line
<1> QED BY <1>1 DEF HeadingLevel, InCode, Fences, ParseHeading

(* The levels above a line: a heading takes away those that are not above   *)
(* its own.                                                                 *)
LEMMA LevelsStep ==
    ASSUME FileOK, NEW n \in 1 .. N
    PROVE  Levels(n) = IF HeadingLevel(n) = 0 THEN Levels(n - 1)
                       ELSE {m \in Levels(n - 1) : m < HeadingLevel(n)} \union {HeadingLevel(n)}
<1>1. /\ n \in Nat /\ 1 .. n = (1 .. n - 1) \union {n} /\ n \notin 1 .. n - 1
      /\ \A h \in 1 .. n - 1 : h + 1 .. n = (h + 1 .. n - 1) \union {n}
      /\ n + 1 .. n = {}
  BY FileIs
<1>2. \A h \in 1 .. n : HeadingLevel(h) \in Nat
  BY FileIs, LevelIs
<1>3. CASE HeadingLevel(n) = 0
  <2>1. HeadingsAbove(n) = HeadingsAbove(n - 1)
    BY <1>1, <1>3 DEF HeadingsAbove
  <2> QED BY <1>3, <2>1 DEF Levels
<1>4. CASE HeadingLevel(n) # 0
  <2>1. HeadingsAbove(n) = {h \in HeadingsAbove(n - 1) : HeadingLevel(n) > HeadingLevel(h)} \union {n}
    BY <1>1, <1>4 DEF HeadingsAbove
  <2>2. HeadingsAbove(n - 1) \subseteq 1 .. n
    BY <1>1 DEF HeadingsAbove
  <2> QED BY <1>2, <1>4, <2>1, <2>2 DEF Levels
<1> QED BY <1>3, <1>4

LEMMA NoLevels == Levels(0) = {}
<1>1. 1 .. 0 = {}
  OBVIOUS
<1> QED BY <1>1 DEF Levels, HeadingsAbove

(* What is left of a hierarchy below a level.                               *)
LEMMA PoppedIs ==
    ASSUME NEW hier \in Seq(Nat), Increasing(hier), NEW level \in Nat, NEW h, h = Append(Popped(hier, level), level)
    PROVE  /\ h \in Seq(Nat) /\ Increasing(h)
           /\ ToSet(h) = {m \in ToSet(hier) : m < level} \union {level}
<1> DEFINE L == Len(hier)
           ok(k) == /\ k = 0 \/ hier[k] < level
                    /\ \A j \in k + 1 .. L : hier[j] >= level
           S == {k \in 0 .. L : k = 0 \/ hier[k] < level}
           i == CHOOSE k \in 0 .. L : ok(k)
           p == SubSeq(hier, 1, i)
<1>1. L \in Nat /\ DOMAIN hier = 1 .. L /\ \A k \in 1 .. L : hier[k] \in Nat
  OBVIOUS
<1>2. i \in 0 .. L /\ ok(i)
  <2>1. IsFiniteSet(S) /\ S \subseteq Int /\ S # {}
    <3>1. IsFiniteSet(0 .. L) /\ S \subseteq 0 .. L /\ 0 \in S
      BY <1>1, FS_Interval
    <3> QED BY <3>1, FS_Subset
  <2> HIDE DEF S
  <2>2. Max(S) \in S /\ \A x \in S : x <= Max(S)
    BY <2>1, MaxIs
  <2>3. ok(Max(S))
    <3>1. ASSUME NEW j \in Max(S) + 1 .. L PROVE hier[j] >= level
      <4>1. Max(S) \in 0 .. L
        BY <2>2 DEF S
      <4>2. j \in 1 .. L /\ ~(j <= Max(S))
        BY <1>1, <4>1
      <4>3. j \notin S
        BY <2>2, <4>2
      <4> QED BY <1>1, <4>2, <4>3 DEF S
    <3> QED BY <2>2, <3>1 DEF S
  <2>4. Max(S) \in 0 .. L
    BY <2>2 DEF S
  <2> QED BY <2>3, <2>4
<1>3. Popped(hier, level) = p
  BY DEF Popped
<1> HIDE DEF i, L
<1>4. p \in Seq(Nat) /\ DOMAIN p = 1 .. i /\ \A j \in 1 .. i : p[j] = hier[j] /\ j \in 1 .. L
  <2>1. i \in 0 .. Len(hier)
    BY <1>2 DEF L
  <2>2. p \in Seq(Nat) /\ Len(p) = i /\ \A j \in 1 .. i : p[j] = hier[j]
    BY <1>1, <2>1
  <2> QED BY <1>1, <1>2, <2>2
<1> HIDE DEF p
<1>5. \A j, k \in 1 .. L : j < k => hier[j] < hier[k]
  BY <1>1 DEF Increasing
<1>6. Increasing(p)
  BY <1>4, <1>5 DEF Increasing
<1>7. \A j \in 1 .. i : p[j] < level
  <2> TAKE j \in 1 .. i
  <2>1. i \in 1 .. L /\ i # 0 /\ hier[i] < level
    BY <1>1, <1>2
  <2>2. j = i \/ hier[j] < hier[i]
    BY <1>4, <1>5, <2>1
  <2> QED BY <1>1, <1>4, <2>1, <2>2
<1>8. ToSet(p) = {m \in ToSet(hier) : m < level}
  <2>1. ToSet(p) \subseteq {m \in ToSet(hier) : m < level}
    BY <1>1, <1>4, <1>7 DEF ToSet
  <2>2. ASSUME NEW j \in 1 .. L, hier[j] < level PROVE hier[j] \in ToSet(p)
    <3>1. ~(j \in i + 1 .. L)
      BY <1>1, <1>2, <2>2
    <3>2. j \in 1 .. i
      BY <1>1, <1>2, <3>1
    <3> QED BY <1>4, <3>2 DEF ToSet
  <2> QED BY <1>1, <2>1, <2>2 DEF ToSet
<1>9. /\ Append(p, level) \in Seq(Nat) /\ Increasing(Append(p, level))
      /\ ToSet(Append(p, level)) = ToSet(p) \union {level}
  <2> DEFINE q == <<level>>
  <2>1. q \in Seq(Nat) /\ Increasing(q) /\ ToSet(q) = {level} /\ Append(p, level) = p \o q
    BY <1>4, OneLine
  <2> HIDE DEF q
  <2>2. Below(ToSet(p), ToSet(q))
    BY <1>8, <2>1 DEF Below
  <2>3. p \o q \in Seq(Nat) /\ Increasing(p \o q) /\ ToSet(p \o q) = ToSet(p) \union ToSet(q)
    BY <1>4, <1>6, <2>1, <2>2, JoinedIncreases, Joined
  <2> QED BY <2>1, <2>3
<1> QED BY <1>3, <1>8, <1>9

(* Sections, and the one that is open: its lines are below its headings.    *)
Section == [hier : Seq(Nat), lines : Seq(Nat)]
Titled(c) == Increasing(c.hier) /\ \A n \in ToSet(c.lines) : Levels(n) = ToSet(c.hier)
SectionStates(k) ==
    {s \in [code : BOOLEAN, lines : Seq(Nat), hier : Seq(Nat), done : Seq(Section)] :
        /\ s.code = InCode(k) /\ Opened(LinesIn(s.done), s.lines) /\ Within(LinesIn(s.done), s.lines) = 1 .. k
        /\ Titled(s) /\ ToSet(s.hier) = Levels(k) /\ \A j \in DOMAIN s.done : Titled(s.done[j])}

LEMMA FlushedIs ==
    ASSUME NEW k, NEW s \in SectionStates(k), NEW done, done = Flushed(s)
    PROVE  /\ done \in Seq(Section) /\ \A j \in DOMAIN done : Titled(done[j])
           /\ LinesIn(done) = IF s.lines = <<>> THEN LinesIn(s.done) ELSE Append(LinesIn(s.done), s.lines)
<1> DEFINE c == [hier |-> s.hier, lines |-> s.lines]
<1>1. /\ s.lines \in Seq(Nat) /\ s.hier \in Seq(Nat) /\ s.done \in Seq(Section)
      /\ Titled(s) /\ \A j \in DOMAIN s.done : Titled(s.done[j])
  BY DEF SectionStates
<1>2. c \in Section /\ c.lines = s.lines /\ c.hier = s.hier
  BY <1>1 DEF Section
<1>3. Titled(c)
  BY <1>1, <1>2 DEF Titled
<1>4. done = IF s.lines = <<>> THEN s.done ELSE Append(s.done, c)
  BY DEF Flushed
<1> HIDE DEF c
<1>5. CASE s.lines = <<>>
  BY <1>1, <1>4, <1>5
<1>6. CASE s.lines # <<>>
  <2>1. HaveLines(Section)
    BY DEF HaveLines, Section
  <2>2. done = Append(s.done, c)
    BY <1>4, <1>6
  <2>3. done \in Seq(Section) /\ LinesIn(done) = Append(LinesIn(s.done), s.lines)
    BY <1>1, <1>2, <2>1, <2>2, LinesInAppend
  <2>4. ASSUME NEW j \in DOMAIN done PROVE Titled(done[j])
    <3>1. Len(done) = Len(s.done) + 1 /\ done[Len(s.done) + 1] = c /\ \A i \in 1 .. Len(s.done) : done[i] = s.done[i]
      BY <1>1, <1>2, <2>2, AppendProperties
    <3>2. DOMAIN s.done = 1 .. Len(s.done) /\ Len(s.done) \in Nat /\ j \in 1 .. Len(done)
      BY <1>1, <2>3
    <3>3. j \in DOMAIN s.done \/ j = Len(s.done) + 1
      BY <3>1, <3>2
    <3> QED BY <1>1, <1>3, <3>1, <3>2, <3>3
  <2> QED BY <1>6, <2>3, <2>4
<1> QED BY <1>5, <1>6

LEMMA MarkdownLineKeeps ==
    ASSUME FileOK, NEW n \in 1 .. N, NEW s \in SectionStates(n - 1) PROVE MarkdownLine(s, n) \in SectionStates(n)
<1> DEFINE level == HeadingLevel(n)
           ds == LinesIn(s.done)
           done == Flushed(s)
           h == Append(Popped(s.hier, level), level)
           t == MarkdownLine(s, n)
<1>1. n \in Nat /\ 1 .. n = (1 .. n - 1) \union {n} /\ \A m \in 1 .. n - 1 : m < n
  BY FileIs
<1>2. /\ s \in [code : BOOLEAN, lines : Seq(Nat), hier : Seq(Nat), done : Seq(Section)]
      /\ s.code = InCode(n - 1) /\ Opened(ds, s.lines) /\ Within(ds, s.lines) = 1 .. n - 1
      /\ Titled(s) /\ ToSet(s.hier) = Levels(n - 1) /\ \A j \in DOMAIN s.done : Titled(s.done[j])
  BY DEF SectionStates
<1>3. OneAbove(n, ds, s.lines)
  BY <1>1, <1>2 DEF OneAbove
<1>4. (s.code # text[n].fence) = InCode(n) /\ InCode(n) \in BOOLEAN
  BY <1>2, CodeIs DEF InCode
<1>5. level = (IF InCode(n) THEN 0 ELSE ParseHeading(text[n])) /\ level \in Nat
  BY LevelIs
<1>6. t = IF level = 0 THEN [s EXCEPT !.code = InCode(n), !.lines = Append(@, n)]
          ELSE [code |-> InCode(n), lines |-> <<n>>, hier |-> h, done |-> done]
  BY <1>4, <1>5 DEF MarkdownLine
<1>7. Levels(n) = IF level = 0 THEN Levels(n - 1) ELSE {m \in Levels(n - 1) : m < level} \union {level}
  BY LevelsStep
<1> HIDE DEF level, ds, done, h, t
<1>8. CASE level = 0
  <2> DEFINE more == Append(s.lines, n)
  <2>1. more \in Seq(Nat) /\ Opened(ds, more) /\ Within(ds, more) = 1 .. n
    <3>1. n \in Nat /\ Opened(ds, s.lines)
      BY <1>1, <1>2
    <3>2. more \in Seq(Nat) /\ Opened(ds, more) /\ Within(ds, more) = Within(ds, s.lines) \union {n}
      BY <1>3, <3>1, GrowsByOne
    <3> QED BY <1>1, <1>2, <3>2
  <2>2. ToSet(more) = ToSet(s.lines) \union {n}
    <3> DEFINE p == <<n>>
    <3>1. more = s.lines \o p /\ p \in Seq(Nat) /\ ToSet(p) = {n}
      BY <1>1, <1>2, OneLine
    <3> HIDE DEF p, more
    <3> QED BY <1>2, <3>1, Joined
  <2>3. t = [s EXCEPT !.code = InCode(n), !.lines = more]
    BY <1>6, <1>8
  <2> HIDE DEF more
  <2>4. t = [code |-> InCode(n), lines |-> more, hier |-> s.hier, done |-> s.done]
    BY <1>2, <2>3
  <2>5. /\ t \in [code : BOOLEAN, lines : Seq(Nat), hier : Seq(Nat), done : Seq(Section)]
        /\ t.code = InCode(n) /\ t.lines = more /\ t.hier = s.hier /\ t.done = s.done
    BY <1>2, <1>4, <2>1, <2>4
  <2>6. Titled(t) /\ ToSet(t.hier) = Levels(n)
    BY <1>2, <1>7, <1>8, <2>2, <2>5 DEF Titled
  <2> QED BY <1>2, <2>1, <2>5, <2>6 DEF SectionStates, t, ds
<1>9. CASE level # 0
  <2>1. /\ done \in Seq(Section) /\ \A j \in DOMAIN done : Titled(done[j])
        /\ LinesIn(done) = IF s.lines = <<>> THEN ds ELSE Append(ds, s.lines)
    BY FlushedIs DEF done, ds
  <2>2. h \in Seq(Nat) /\ Increasing(h) /\ ToSet(h) = Levels(n)
    <3>1. s.hier \in Seq(Nat) /\ Increasing(s.hier)
      BY <1>2 DEF Titled
    <3>0. h = Append(Popped(s.hier, level), level) /\ level \in Nat
      BY <1>5 DEF h
    <3>2. h \in Seq(Nat) /\ Increasing(h) /\ ToSet(h) = {m \in ToSet(s.hier) : m < level} \union {level}
      BY <3>0, <3>1, PoppedIs
    <3> QED BY <1>2, <1>7, <1>9, <3>2
  <2>3. <<n>> \in Seq(Nat) /\ Opened(LinesIn(done), <<n>>) /\ Within(LinesIn(done), <<n>>) = 1 .. n
    <3>1. n \in Nat /\ Opened(ds, s.lines) /\ OneAbove(n, ds, s.lines)
      BY <1>1, <1>2, <1>3
    <3>2. CASE s.lines = <<>>
      <4>1. Append(<<>>, n) = <<n>>
        OBVIOUS
      <4>2. /\ Append(s.lines, n) \in Seq(Nat) /\ Opened(ds, Append(s.lines, n))
            /\ Within(ds, Append(s.lines, n)) = Within(ds, s.lines) \union {n}
        BY <3>1, GrowsByOne
      <4> QED BY <1>1, <1>2, <2>1, <3>2, <4>1, <4>2
    <3>3. CASE s.lines # <<>>
      <4>1. /\ <<n>> \in Seq(Nat) /\ Opened(Append(ds, s.lines), <<n>>)
            /\ Within(Append(ds, s.lines), <<n>>) = Within(ds, s.lines) \union {n}
        BY <3>1, ClosesAhead
      <4> QED BY <1>1, <1>2, <2>1, <3>3, <4>1
    <3> QED BY <3>2, <3>3
  <2>4. t = [code |-> InCode(n), lines |-> <<n>>, hier |-> h, done |-> done]
    BY <1>6, <1>9
  <2>5. /\ t \in [code : BOOLEAN, lines : Seq(Nat), hier : Seq(Nat), done : Seq(Section)]
        /\ t.code = InCode(n) /\ t.lines = <<n>> /\ t.hier = h /\ t.done = done
    BY <1>4, <2>1, <2>2, <2>3, <2>4
  <2>6. Titled(t)
    <3>1. ToSet(<<n>>) = {n}
      BY <1>1, OneLine
    <3> QED BY <2>2, <2>5, <3>1 DEF Titled
  <2> QED BY <2>1, <2>2, <2>3, <2>5, <2>6 DEF SectionStates, t
<1> QED BY <1>8, <1>9

SectionsCut(secs) ==
    /\ secs \in Seq(Section) /\ Laid(LinesIn(secs)) /\ Held(LinesIn(secs)) = 1 .. N
    /\ \A j \in DOMAIN secs : Titled(secs[j])

LEMMA SectionsAreCut == ASSUME FileOK PROVE SectionsCut(Sections)
<1> DEFINE I == [k \in 0 .. N |-> SectionStates(k)]
           start == [code |-> FALSE, lines |-> <<>>, hier |-> <<>>, done |-> <<>>]
           s == Through(MarkdownLine, start, Numbers)
           secs == Sections
<1>1. N \in Nat /\ Len(Numbers) = N /\ \A k \in 1 .. N : Numbers[k] = k
  BY NumbersAre
<1>2. start \in SectionStates(0)
  <2>1. /\ start \in [code : BOOLEAN, lines : Seq(Nat), hier : Seq(Nat), done : Seq(Section)]
        /\ start.code = FALSE /\ start.lines = <<>> /\ start.hier = <<>> /\ start.done = <<>>
    OBVIOUS
  <2> HIDE DEF start
  <2>2. LinesIn(<<>>) = <<>> /\ 1 .. 0 = {} /\ DOMAIN <<>> = {}
    BY DEF LinesIn
  <2>3. Titled(start) /\ ToSet(start.hier) = Levels(0)
    BY <2>1, NoLines, NoLevels DEF Titled
  <2>4. InCode(0) = FALSE
    BY CodeIs
  <2> QED BY <2>1, <2>2, <2>3, <2>4, NoneIsLaid DEF SectionStates
<1>3. \A k \in 0 .. N : I[k] = SectionStates(k)
  OBVIOUS
<1> HIDE DEF I, start
<1>4. ASSUME NEW k \in 1 .. N, NEW x \in I[k - 1] PROVE MarkdownLine(x, Numbers[k]) \in I[k]
  <2>1. k - 1 \in 0 .. N /\ k \in 0 .. N
    BY <1>1
  <2>2. x \in SectionStates(k - 1) /\ I[k] = SectionStates(k) /\ Numbers[k] = k
    BY <1>1, <1>3, <2>1
  <2> QED BY <2>2, MarkdownLineKeeps
<1>5. Keeps(MarkdownLine, I, start, Numbers)
  <2>1. start \in I[0]
    BY <1>1, <1>2, <1>3
  <2> QED BY <1>1, <1>4, <2>1 DEF Keeps
<1>6. s \in SectionStates(N)
  <2>1. s \in I[N]
    BY <1>1, <1>5, SectionsLoop
  <2> QED BY <1>1, <1>3, <2>1
<1>7. secs = Flushed(s)
  BY DEF Sections, start
<1> HIDE DEF s, secs
<1>8. /\ secs \in Seq(Section) /\ \A j \in DOMAIN secs : Titled(secs[j])
      /\ LinesIn(secs) = IF s.lines = <<>> THEN LinesIn(s.done) ELSE Append(LinesIn(s.done), s.lines)
  BY <1>6, <1>7, FlushedIs
<1>9. Opened(LinesIn(s.done), s.lines) /\ Within(LinesIn(s.done), s.lines) = 1 .. N
  BY <1>6 DEF SectionStates
<1>10. Laid(LinesIn(secs)) /\ Held(LinesIn(secs)) = 1 .. N
  BY <1>8, <1>9, AllClosed
<1> QED BY <1>8, <1>10 DEF SectionsCut, secs

(* A section too large is cut into paragraphs, which hold all its lines.    *)
FirstLines(ns, k) == {ns[j] : j \in 1 .. k}
ParagraphStates(ns, k) ==
    {s \in [code : BOOLEAN, lines : Seq(Nat), done : Lists] :
        Opened(s.done, s.lines) /\ Within(s.done, s.lines) = FirstLines(ns, k)}

LEMMA ParagraphEnds ==
    ASSUME NEW ns \in Seq(Nat)
    PROVE  \E k \in 0 .. Len(ns) : /\ k = 0 \/ ~IsBlank(ns[k])
                                   /\ \A j \in k + 1 .. Len(ns) : IsBlank(ns[j])
<1> DEFINE L == Len(ns)
           S == {k \in 0 .. L : k = 0 \/ ~IsBlank(ns[k])}
<1>1. L \in Nat
  OBVIOUS
<1>2. IsFiniteSet(S) /\ S \subseteq Int /\ S # {} /\ S \subseteq 0 .. L
  <2>1. IsFiniteSet(0 .. L) /\ S \subseteq 0 .. L /\ 0 \in S
    BY <1>1, FS_Interval
  <2> QED BY <2>1, FS_Subset
<1> HIDE DEF S, L
<1>3. Max(S) \in S /\ \A x \in S : x <= Max(S)
  BY <1>2, MaxIs
<1>4. ASSUME NEW j \in Max(S) + 1 .. L PROVE IsBlank(ns[j])
  <2>1. j \in 0 .. L /\ ~(j <= Max(S))
    <3>1. Max(S) \in 0 .. L
      BY <1>2, <1>3
    <3> QED BY <1>1, <3>1
  <2> QED BY <1>3, <2>1 DEF S
<1> QED BY <1>2, <1>3, <1>4 DEF S, L

LEMMA ParagraphLineKeeps ==
    ASSUME FileOK, NEW ns \in Seq(Nat), Increasing(ns), NEW k \in 1 .. Len(ns),
           NEW s \in ParagraphStates(ns, k - 1)
    PROVE  ParagraphLine(s, ns[k]) \in ParagraphStates(ns, k)
<1> DEFINE n == ns[k]
           code == s.code # text[n].fence
           L == Len(s.lines)
           kept == CHOOSE i \in 0 .. L : /\ i = 0 \/ ~IsBlank(s.lines[i])
                                         /\ \A j \in i + 1 .. L : IsBlank(s.lines[j])
           u == SubSeq(s.lines, 1, kept)
           v == SubSeq(s.lines, kept + 1, L)
           ds == IF kept = 0 THEN s.done ELSE Append(s.done, u)
           cut == ~code /\ LastIsBlank(s.lines) /\ ~IsBlank(n)
           t == ParagraphLine(s, n)
<1>1. /\ n \in Nat /\ k \in Nat /\ DOMAIN ns = 1 .. Len(ns)
      /\ 1 .. k = (1 .. k - 1) \union {k} /\ \A j \in 1 .. k - 1 : j \in 1 .. Len(ns) /\ j < k
  OBVIOUS
<1>2. /\ s \in [code : BOOLEAN, lines : Seq(Nat), done : Lists]
      /\ Opened(s.done, s.lines) /\ Within(s.done, s.lines) = FirstLines(ns, k - 1)
  BY DEF ParagraphStates
<1>3. FirstLines(ns, k) = FirstLines(ns, k - 1) \union {n}
  BY <1>1 DEF FirstLines
<1>4. \A m \in FirstLines(ns, k - 1) : m < n
  BY <1>1 DEF FirstLines, Increasing
<1>5. kept \in 0 .. L
  <2>1. s.lines \in Seq(Nat)
    BY <1>2
  <2>2. \E i \in 0 .. L : /\ i = 0 \/ ~IsBlank(s.lines[i])
                          /\ \A j \in i + 1 .. L : IsBlank(s.lines[j])
    BY <2>1, ParagraphEnds
  <2> QED BY <2>2
<1>6. t = IF cut THEN [code |-> code, lines |-> Append(v, n), done |-> ds]
          ELSE [s EXCEPT !.code = code, !.lines = Append(@, n)]
  BY DEF ParagraphLine
<1>7. code \in BOOLEAN
  OBVIOUS
<1> HIDE DEF n, code, kept, cut, t
<1>8. Opened(ds, v) /\ Within(ds, v) = FirstLines(ns, k - 1)
  <2>1. Opened(Append(s.done, u), v) /\ Within(Append(s.done, u), v) = Within(s.done, s.lines)
    BY <1>2, <1>5, Cuts
  <2>2. CASE kept = 0
    <3>1. v = s.lines
      <4>1. 0 + 1 = 1 /\ s.lines \in Seq(Nat)
        BY <1>2
      <4> QED BY <2>2, <4>1, SubSeqFull
    <3> QED BY <1>2, <2>2, <3>1
  <2>3. CASE kept # 0
    BY <1>2, <2>1, <2>3
  <2> QED BY <2>2, <2>3
<1> HIDE DEF L, u, v, ds
<1>9. CASE cut
  <2> DEFINE more == Append(v, n)
  <2>1. more \in Seq(Nat) /\ Opened(ds, more) /\ Within(ds, more) = FirstLines(ns, k)
    <3>1. n \in Nat /\ Opened(ds, v) /\ OneAbove(n, ds, v)
      BY <1>1, <1>4, <1>8 DEF OneAbove
    <3>2. more \in Seq(Nat) /\ Opened(ds, more) /\ Within(ds, more) = Within(ds, v) \union {n}
      BY <3>1, GrowsByOne
    <3> QED BY <1>3, <1>8, <3>2
  <2> HIDE DEF more
  <2>2. t = [code |-> code, lines |-> more, done |-> ds]
    BY <1>6, <1>9 DEF more
  <2>3. ds \in Lists
    BY <1>8 DEF Opened, Laid
  <2>4. t \in [code : BOOLEAN, lines : Seq(Nat), done : Lists] /\ t.lines = more /\ t.done = ds
    BY <1>7, <2>1, <2>2, <2>3
  <2> QED BY <2>1, <2>4 DEF ParagraphStates, t, n
<1>10. CASE ~cut
  <2> DEFINE more == Append(s.lines, n)
  <2>1. more \in Seq(Nat) /\ Opened(s.done, more) /\ Within(s.done, more) = FirstLines(ns, k)
    <3>1. n \in Nat /\ Opened(s.done, s.lines) /\ OneAbove(n, s.done, s.lines)
      BY <1>1, <1>2, <1>4 DEF OneAbove
    <3>2. more \in Seq(Nat) /\ Opened(s.done, more) /\ Within(s.done, more) = Within(s.done, s.lines) \union {n}
      BY <3>1, GrowsByOne
    <3> QED BY <1>2, <1>3, <3>2
  <2>2. t = [s EXCEPT !.code = code, !.lines = more]
    BY <1>6, <1>10
  <2> HIDE DEF more
  <2>3. t = [code |-> code, lines |-> more, done |-> s.done]
    BY <1>2, <2>2
  <2>4. t \in [code : BOOLEAN, lines : Seq(Nat), done : Lists] /\ t.lines = more /\ t.done = s.done
    BY <1>2, <1>7, <2>1, <2>3
  <2> QED BY <2>1, <2>4 DEF ParagraphStates, t, n
<1> QED BY <1>9, <1>10

LEMMA ParagraphsHold ==
    ASSUME FileOK, NEW ns \in Seq(Nat), Increasing(ns), NEW ps, ps = SplitParagraphsPreservingCodeBlocks(ns)
    PROVE  Laid(ps) /\ Held(ps) = ToSet(ns)
<1> DEFINE L == Len(ns)
           I == [k \in 0 .. L |-> ParagraphStates(ns, k)]
           start == [code |-> FALSE, lines |-> <<>>, done |-> <<>>]
           s == Through(ParagraphLine, start, ns)
<1>1. L \in Nat /\ DOMAIN ns = 1 .. L
  OBVIOUS
<1>2. start \in ParagraphStates(ns, 0)
  <2>1. /\ start \in [code : BOOLEAN, lines : Seq(Nat), done : Lists]
        /\ start.lines = <<>> /\ start.done = <<>>
    BY DEF Lists
  <2> HIDE DEF start
  <2>2. FirstLines(ns, 0) = {}
    BY DEF FirstLines
  <2> QED BY <2>1, <2>2, NoneIsLaid DEF ParagraphStates
<1>3. \A k \in 0 .. L : I[k] = ParagraphStates(ns, k)
  OBVIOUS
<1> HIDE DEF I, start
<1>4. ASSUME NEW k \in 1 .. L, NEW x \in I[k - 1] PROVE ParagraphLine(x, ns[k]) \in I[k]
  <2>1. k - 1 \in 0 .. L /\ k \in 0 .. L
    BY <1>1
  <2>2. x \in ParagraphStates(ns, k - 1) /\ I[k] = ParagraphStates(ns, k)
    BY <1>1, <1>3, <2>1
  <2> QED BY <2>2, ParagraphLineKeeps
<1>5. Keeps(ParagraphLine, I, start, ns)
  <2>1. start \in I[0]
    BY <1>1, <1>2, <1>3
  <2> QED BY <1>1, <1>4, <2>1 DEF Keeps
<1>6. s \in ParagraphStates(ns, L)
  <2>1. s \in I[L]
    BY <1>5, ParagraphsLoop
  <2> QED BY <1>1, <1>3, <2>1
<1>7. ps = IF s.lines = <<>> THEN s.done ELSE Append(s.done, s.lines)
  BY DEF SplitParagraphsPreservingCodeBlocks, start
<1> HIDE DEF s
<1>8. Opened(s.done, s.lines) /\ Within(s.done, s.lines) = FirstLines(ns, L)
  BY <1>6 DEF ParagraphStates
<1>9. FirstLines(ns, L) = ToSet(ns)
  BY <1>1 DEF FirstLines, ToSet
<1> QED BY <1>7, <1>8, <1>9, AllClosed

(* Paragraphs are packed into pieces, one after the other.                  *)
FirstOnes(ps, k) == UNION {ToSet(ps[j]) : j \in 1 .. k}
PackStates(ps, k) ==
    {s \in [lines : Seq(Nat), tokens : Int, done : Lists] :
        Opened(s.done, s.lines) /\ Within(s.done, s.lines) = FirstOnes(ps, k)}

LEMMA TokensAreInt == ASSUME FileOK, NEW ns \in Seq(1 .. N) PROVE Bytes(ns) \in Int /\ EstimateTokens(ns) \in Int
<1>1. Bytes(ns) \in Int
  <2>1. CASE N = 0
    <3>1. ns = <<>>
      <4> DEFINE U == 1 .. N
      <4>1. U = {} /\ ns \in Seq(U)
        BY <2>1
      <4> HIDE DEF U
      <4>2. Len(ns) \in Nat /\ \A i \in 1 .. Len(ns) : ns[i] \in U
        BY <4>1
      <4>3. Len(ns) = 0
        <5>1. Len(ns) # 0 => 1 \in 1 .. Len(ns)
          BY <4>2
        <5> QED BY <4>1, <4>2, <5>1
      <4> QED BY <4>1, <4>3
    <3> DEFINE J == [k \in {0} |-> {0}]
               no == <<>>
    <3>2. SumKeeps(J, 0, no)
      <4>1. Len(no) = 0 /\ 0 \in J[0] /\ 1 .. Len(no) = {}
        OBVIOUS
      <4> HIDE DEF J, no
      <4> QED BY <4>1 DEF SumKeeps, Keeps
    <3>3. Len(no) = 0 /\ J[0] = {0}
      OBVIOUS
    <3>4. no = ns
      BY <3>1
    <3> HIDE DEF J, no
    <3>5. Summed(0, no) \in J[Len(no)]
      BY <3>2, BytesLoop
    <3>6. Summed(0, no) = 0
      BY <3>3, <3>5
    <3>7. Bytes(no) = Summed(0, no) - 1
      BY DEF Bytes, Summed
    <3> QED BY <3>4, <3>6, <3>7
  <2>2. CASE N # 0
    <3>1. 1 \in 1 .. N
      BY <2>2, FileIs
    <3> QED BY <3>1, BytesGrow
  <2> QED BY <2>1, <2>2
<1> QED BY <1>1, ChunkingAssumption DEF EstimateTokens

LEMMA PackKeeps ==
    ASSUME FileOK, NEW ps, Laid(ps), Held(ps) \subseteq 1 .. N, NEW k \in 1 .. Len(ps), NEW s \in PackStates(ps, k - 1)
    PROVE  PackParagraph(s, ps[k]) \in PackStates(ps, k)
<1> DEFINE p == ps[k]
           tokens == EstimateTokens(p)
           over == s.tokens + tokens > MaxTokens /\ s.lines # <<>>
           t == PackParagraph(s, p)
<1>1. /\ ps \in Lists /\ k \in Nat /\ Len(ps) \in Nat /\ DOMAIN ps = 1 .. Len(ps) /\ p \in Seq(Nat)
      /\ 1 .. k = (1 .. k - 1) \union {k} /\ \A j \in 1 .. k - 1 : j \in DOMAIN ps /\ j < k
  BY DEF Laid, Lists
<1>2. /\ s \in [lines : Seq(Nat), tokens : Int, done : Lists]
      /\ Opened(s.done, s.lines) /\ Within(s.done, s.lines) = FirstOnes(ps, k - 1)
  BY DEF PackStates
<1>3. Increasing(p) /\ ToSet(p) \subseteq 1 .. N
  BY <1>1 DEF Laid, Held
<1>4. tokens \in Int
  <2> DEFINE U == 1 .. N
  <2>1. \A i \in DOMAIN p : p[i] \in U
    BY <1>3 DEF ToSet
  <2> HIDE DEF U, p
  <2>2. p \in [1 .. Len(p) -> U] /\ Len(p) \in Nat
    BY <1>1, <2>1
  <2>3. p \in Seq(U)
    BY <2>2
  <2> QED BY <2>3, TokensAreInt DEF U
<1>5. Below(Within(s.done, s.lines), ToSet(p))
  <2>1. \A j \in 1 .. k - 1 : Below(ToSet(ps[j]), ToSet(p))
    BY <1>1 DEF Laid
  <2> QED BY <1>2, <2>1 DEF Below, FirstOnes
<1>6. FirstOnes(ps, k) = FirstOnes(ps, k - 1) \union ToSet(p)
  BY <1>1 DEF FirstOnes
<1>7. t = IF over THEN [lines |-> p, tokens |-> tokens, done |-> Append(s.done, s.lines)]
          ELSE [s EXCEPT !.lines = @ \o p, !.tokens = @ + tokens]
  BY DEF PackParagraph
<1> HIDE DEF p, tokens, over, t
<1>8. CASE over
  <2>1. Opened(Append(s.done, s.lines), p) /\ Within(Append(s.done, s.lines), p) = FirstOnes(ps, k)
    BY <1>1, <1>2, <1>3, <1>5, <1>6, Closes
  <2>2. Append(s.done, s.lines) \in Lists
    BY <1>2, ClosesEmpty
  <2>3. t \in [lines : Seq(Nat), tokens : Int, done : Lists] /\ t.lines = p /\ t.done = Append(s.done, s.lines)
    BY <1>1, <1>4, <1>7, <1>8, <2>2
  <2> QED BY <2>1, <2>3 DEF PackStates, t, p
<1>9. CASE ~over
  <2> DEFINE more == s.lines \o p
  <2>1. Opened(s.done, more) /\ Within(s.done, more) = FirstOnes(ps, k)
    BY <1>1, <1>2, <1>3, <1>5, <1>6, Grows
  <2>2. t = [s EXCEPT !.lines = more, !.tokens = @ + tokens]
    BY <1>7, <1>9
  <2> HIDE DEF more
  <2>3. more \in Seq(Nat)
    BY <2>1 DEF Opened
  <2>4. t = [lines |-> more, tokens |-> s.tokens + tokens, done |-> s.done]
    BY <1>2, <2>2
  <2>5. s.tokens + tokens \in Int
    BY <1>2, <1>4
  <2>6. t \in [lines : Seq(Nat), tokens : Int, done : Lists] /\ t.lines = more /\ t.done = s.done
    BY <1>2, <2>3, <2>4, <2>5
  <2> QED BY <2>1, <2>6 DEF PackStates, t, p
<1> QED BY <1>8, <1>9

LEMMA PackHolds ==
    ASSUME FileOK, NEW ps, Laid(ps), Held(ps) \subseteq 1 .. N, NEW s,
           s = Through(PackParagraph, [lines |-> <<>>, tokens |-> 0, done |-> <<>>], ps)
    PROVE  Laid(Append(s.done, s.lines)) /\ Held(Append(s.done, s.lines)) = Held(ps)
<1> DEFINE L == Len(ps)
           I == [k \in 0 .. L |-> PackStates(ps, k)]
           start == [lines |-> <<>>, tokens |-> 0, done |-> <<>>]
<1>1. L \in Nat /\ DOMAIN ps = 1 .. L
  BY DEF Laid, Lists
<1>2. start \in PackStates(ps, 0)
  <2>1. /\ start \in [lines : Seq(Nat), tokens : Int, done : Lists]
        /\ start.lines = <<>> /\ start.done = <<>>
    BY DEF Lists
  <2> HIDE DEF start
  <2>2. FirstOnes(ps, 0) = {}
    BY DEF FirstOnes
  <2> QED BY <2>1, <2>2, NoneIsLaid DEF PackStates
<1>3. \A k \in 0 .. L : I[k] = PackStates(ps, k)
  OBVIOUS
<1> HIDE DEF I
<1>4. ASSUME NEW k \in 1 .. L, NEW x \in I[k - 1] PROVE PackParagraph(x, ps[k]) \in I[k]
  <2>1. k - 1 \in 0 .. L /\ k \in 0 .. L
    BY <1>1
  <2>2. x \in PackStates(ps, k - 1) /\ I[k] = PackStates(ps, k)
    BY <1>1, <1>3, <2>1
  <2> QED BY <2>2, PackKeeps
<1>5. Keeps(PackParagraph, I, start, ps)
  <2> HIDE DEF start
  <2>1. start \in I[0]
    BY <1>1, <1>2, <1>3
  <2> QED BY <1>1, <1>4, <2>1 DEF Keeps
<1>6. s \in PackStates(ps, L)
  <2>1. s = Through(PackParagraph, start, ps)
    OBVIOUS
  <2> HIDE DEF start
  <2>2. s \in I[L]
    BY <1>5, <2>1, PackLoop
  <2> QED BY <1>1, <1>3, <2>2
<1>7. Opened(s.done, s.lines) /\ Within(s.done, s.lines) = FirstOnes(ps, L)
  BY <1>6 DEF PackStates
<1>8. FirstOnes(ps, L) = Held(ps)
  BY <1>1 DEF FirstOnes, Held
<1> QED BY <1>7, <1>8, ClosedIsLaid

(* The chunks of a section hold its lines and have its headings.            *)
SectionCut(cs, lines) ==
    cs \in Seq(Chunk) /\ Laid(LinesIn(cs)) /\ Held(LinesIn(cs)) = lines /\ \A j \in DOMAIN cs : Titled(cs[j])

LEMMA SectionIsCut ==
    ASSUME FileOK, NEW sec \in Section, Increasing(sec.lines), ToSet(sec.lines) \subseteq 1 .. N, Titled(sec)
    PROVE  SectionCut(ChunkSection(sec), ToSet(sec.lines))
<1> DEFINE ps == SplitParagraphsPreservingCodeBlocks(sec.lines)
           packed == Through(PackParagraph, [lines |-> <<>>, tokens |-> 0, done |-> <<>>], ps)
           whole == EstimateTokens(sec.lines) <= MaxTokens
           pieces == IF whole THEN <<sec.lines>> ELSE Append(packed.done, packed.lines)
           cs == ChunkSection(sec)
<1>1. sec.lines \in Seq(Nat) /\ sec.hier \in Seq(Nat)
  BY DEF Section
<1>2. cs = [k \in DOMAIN pieces |-> [ChunkOf(pieces[k], 0, 0) EXCEPT !.hier = sec.hier]]
  BY DEF ChunkSection
<1>3. Laid(pieces) /\ Held(pieces) = ToSet(sec.lines)
  <2>1. CASE whole
    <3>1. pieces = <<sec.lines>>
      BY <2>1
    <3> HIDE DEF pieces
    <3> QED BY <1>1, <3>1, OneIsLaid
  <2>2. CASE ~whole
    <3>1. pieces = Append(packed.done, packed.lines)
      BY <2>2
    <3> HIDE DEF pieces, ps
    <3>2. Laid(ps) /\ Held(ps) = ToSet(sec.lines)
      BY <1>1, ParagraphsHold DEF ps
    <3>3. Laid(Append(packed.done, packed.lines)) /\ Held(Append(packed.done, packed.lines)) = Held(ps)
      BY <3>2, PackHolds
    <3> QED BY <3>1, <3>2, <3>3
  <2> QED BY <2>1, <2>2
<1> HIDE DEF pieces, cs
<1>4. pieces \in Lists /\ DOMAIN cs = DOMAIN pieces /\ cs = [k \in DOMAIN pieces |-> cs[k]]
  BY <1>2, <1>3 DEF Laid
<1>5. ASSUME NEW k \in DOMAIN pieces
      PROVE  cs[k] \in Chunk /\ cs[k].lines = pieces[k] /\ cs[k].hier = sec.hier
  <2>1. cs[k] = [ChunkOf(pieces[k], 0, 0) EXCEPT !.hier = sec.hier]
    BY <1>2
  <2>2. pieces[k] \in Seq(Nat)
    BY <1>4 DEF Lists
  <2>3. cs[k] = [lines |-> pieces[k], first |-> 0, last |-> 0, hier |-> sec.hier]
    BY <2>1 DEF ChunkOf
  <2> QED BY <1>1, <2>2, <2>3 DEF Chunk
<1>6. cs \in Seq(Chunk) /\ LinesIn(cs) = pieces
  BY <1>4, <1>5, MadeOf
<1>7. \A k \in DOMAIN cs : Titled(cs[k])
  <2>1. \A k \in DOMAIN pieces : ToSet(pieces[k]) \subseteq ToSet(sec.lines)
    BY <1>3 DEF Held
  <2> QED BY <1>4, <1>5, <2>1 DEF Titled
<1> QED BY <1>3, <1>6, <1>7 DEF SectionCut, cs

LEMMA MarkdownIsCut == ASSUME FileOK PROVE SectionCut(ChunkMarkdown, 1 .. N)
<1> DEFINE secs == Sections
           L == Len(secs)
           parts == [k \in DOMAIN secs |-> ChunkSection(secs[k])]
           ls == LinesIn(secs)
           J == [k \in 1 .. L |-> {cs \in Seq(Chunk) : SectionCut(cs, FirstOnes(ls, k))}]
<1>1. N \in Nat
  BY FileIs
<1>2. /\ secs \in Seq(Section) /\ Laid(ls) /\ Held(ls) = 1 .. N
      /\ \A j \in DOMAIN secs : Titled(secs[j])
  BY SectionsAreCut DEF SectionsCut
<1>3. ChunkMarkdown = IF secs = <<>> THEN <<ChunkOf(<<>>, 0, 0)>> ELSE FlattenSeq(parts)
  BY DEF ChunkMarkdown
<1> HIDE DEF secs
<1>4. L \in Nat /\ DOMAIN secs = 1 .. L /\ (secs = <<>> <=> L = 0)
  BY <1>2
<1>5. DOMAIN ls = DOMAIN secs /\ \A k \in DOMAIN secs : ls[k] = secs[k].lines /\ secs[k] \in Section
  <2>1. HaveLines(Section)
    BY DEF HaveLines, Section
  <2> QED BY <1>2, <2>1, LinesInIs
<1> HIDE DEF ls
<1>6. CASE secs = <<>>
  <2> DEFINE none == <<>>
             c == ChunkOf(none, 0, 0)
             cs == <<c>>
  <2>1. ChunkMarkdown = cs
    BY <1>3, <1>6
  <2>2. none \in Seq(Nat) /\ Increasing(none) /\ ToSet(none) = {}
    BY NoLines
  <2>3. c \in Chunk /\ c.lines = none /\ c.hier = none
    BY <2>2, ChunkOfIs DEF ChunkOf
  <2>4. Held(ls) = {}
    BY <1>4, <1>5, <1>6 DEF Held
  <2> HIDE DEF none, c
  <2>5. cs \in Seq(Chunk) /\ DOMAIN cs = {1} /\ cs[1] = c
    BY <2>3
  <2>6. LinesIn(cs) = <<none>>
    BY <2>3, <2>5 DEF LinesIn
  <2>7. Laid(<<none>>) /\ Held(<<none>>) = ToSet(none)
    BY <2>2, OneIsLaid
  <2>8. Titled(c)
    BY <2>2, <2>3 DEF Titled
  <2> HIDE DEF cs
  <2> QED BY <1>2, <2>1, <2>2, <2>4, <2>5, <2>6, <2>7, <2>8 DEF SectionCut
<1>7. CASE secs # <<>>
  <2>1. ASSUME NEW k \in 1 .. L PROVE SectionCut(parts[k], ToSet(ls[k]))
    <3>1. k \in DOMAIN secs /\ secs[k] \in Section /\ ls[k] = secs[k].lines
      BY <1>4, <1>5
    <3>2. Increasing(ls[k]) /\ ToSet(ls[k]) \subseteq 1 .. N
      BY <1>2, <1>5, <3>1 DEF Laid, Held
    <3>3. SectionCut(ChunkSection(secs[k]), ToSet(secs[k].lines))
      BY <1>2, <3>1, <3>2, SectionIsCut
    <3>4. parts[k] = ChunkSection(secs[k])
      BY <3>1
    <3> QED BY <3>1, <3>3, <3>4
  <2>2. Len(parts) = L
    BY <1>4
  <2>3. \A k \in 1 .. L : J[k] = {cs \in Seq(Chunk) : SectionCut(cs, FirstOnes(ls, k))}
    OBVIOUS
  <2> HIDE DEF parts, J
  <2>4. parts[1] \in J[1]
    <3>1. 1 \in 1 .. L
      BY <1>4, <1>7
    <3>2. FirstOnes(ls, 1) = ToSet(ls[1])
      BY DEF FirstOnes
    <3>3. parts[1] \in Seq(Chunk)
      BY <2>1, <3>1 DEF SectionCut
    <3> QED BY <2>1, <2>3, <3>1, <3>2, <3>3
  <2>5. ASSUME NEW k \in 2 .. L, NEW cs \in J[k - 1] PROVE cs \o parts[k] \in J[k]
    <3> DEFINE ds == parts[k]
    <3>1. k \in 1 .. L /\ k - 1 \in 1 .. L /\ 1 .. k = (1 .. k - 1) \union {k} /\ \A j \in 1 .. k - 1 : j \in 1 .. L /\ j < k
      BY <1>4
    <3>2. SectionCut(cs, FirstOnes(ls, k - 1)) /\ SectionCut(ds, ToSet(ls[k]))
      BY <2>1, <2>3, <3>1
    <3> HIDE DEF ds
    <3>3. FirstOnes(ls, k) = FirstOnes(ls, k - 1) \union ToSet(ls[k])
      BY <3>1 DEF FirstOnes
    <3>4. Below(FirstOnes(ls, k - 1), ToSet(ls[k]))
      <4>1. \A j \in 1 .. k - 1 : Below(ToSet(ls[j]), ToSet(ls[k]))
        BY <1>2, <1>4, <1>5, <3>1 DEF Laid
      <4> QED BY <4>1 DEF Below, FirstOnes
    <3>5. cs \in Seq(Chunk) /\ ds \in Seq(Chunk)
      BY <3>2 DEF SectionCut
    <3>6. LinesIn(cs \o ds) = LinesIn(cs) \o LinesIn(ds)
      BY <3>5, ChunksHaveLines, LinesInJoin
    <3>7. Laid(LinesIn(cs \o ds)) /\ Held(LinesIn(cs \o ds)) = FirstOnes(ls, k)
      <4>1. Laid(LinesIn(cs)) /\ Laid(LinesIn(ds)) /\ Below(Held(LinesIn(cs)), Held(LinesIn(ds)))
        BY <3>2, <3>4 DEF SectionCut
      <4> QED BY <3>2, <3>3, <3>6, <4>1, LaidJoins DEF SectionCut
    <3>8. cs \o ds \in Seq(Chunk) /\ \A i \in DOMAIN (cs \o ds) : Titled((cs \o ds)[i])
      <4>1. /\ cs \o ds \in Seq(Chunk) /\ DOMAIN (cs \o ds) = 1 .. Len(cs) + Len(ds)
            /\ \A i \in 1 .. Len(cs) + Len(ds) : (cs \o ds)[i] = IF i <= Len(cs) THEN cs[i] ELSE ds[i - Len(cs)]
        BY <3>5, Joined
      <4>2. /\ Len(cs) \in Nat /\ Len(ds) \in Nat /\ DOMAIN cs = 1 .. Len(cs) /\ DOMAIN ds = 1 .. Len(ds)
            /\ \A i \in DOMAIN cs : Titled(cs[i])
            /\ \A j \in DOMAIN ds : Titled(ds[j])
        BY <3>2, <3>5 DEF SectionCut
      <4>3. ASSUME NEW i \in DOMAIN (cs \o ds) PROVE Titled((cs \o ds)[i])
        <5>1. i \in 1 .. Len(cs) + Len(ds)
          BY <4>1
        <5>2. i \in DOMAIN cs \/ (~(i <= Len(cs)) /\ i - Len(cs) \in DOMAIN ds)
          BY <4>2, <5>1
        <5>3. CASE i \in DOMAIN cs
          <6>1. (cs \o ds)[i] = cs[i]
            BY <4>1, <4>2, <5>1, <5>3
          <6> QED BY <4>2, <5>3, <6>1
        <5>4. CASE ~(i <= Len(cs)) /\ i - Len(cs) \in DOMAIN ds
          <6>1. (cs \o ds)[i] = ds[i - Len(cs)]
            BY <4>1, <5>1, <5>4
          <6> QED BY <4>2, <5>4, <6>1
        <5> QED BY <5>2, <5>3, <5>4
      <4> QED BY <4>1, <4>3
    <3>9. SectionCut(cs \o ds, FirstOnes(ls, k))
      BY <3>7, <3>8 DEF SectionCut
    <3> QED BY <2>3, <3>1, <3>8, <3>9 DEF ds
  <2>6. Joins(J, parts)
    BY <1>4, <1>7, <2>2, <2>4, <2>5 DEF Joins
  <2>7. FlattenSeq(parts) \in J[L]
    BY <2>2, <2>6, FlattenLoop
  <2>8. L \in 1 .. L
    BY <1>4, <1>7
  <2>9. SectionCut(FlattenSeq(parts), FirstOnes(ls, L))
    BY <2>3, <2>7, <2>8
  <2>10. FirstOnes(ls, L) = 1 .. N
    BY <1>2, <1>4, <1>5 DEF FirstOnes, Held
  <2> QED BY <1>3, <1>7, <2>9, <2>10
<1> QED BY <1>6, <1>7

-----------------------------------------------------------------------------
(* A file of any kind.                                                      *)
Ordered(cs) ==
    \A k \in DOMAIN cs : /\ Increasing(cs[k].lines)
                         /\ \A l \in DOMAIN cs : k < l => \A m \in ToSet(cs[k].lines), n \in ToSet(cs[l].lines) : m < n

LEMMA LaidIsOrdered ==
    ASSUME FileOK, NEW cs \in Seq(Chunk), Laid(LinesIn(cs)), Held(LinesIn(cs)) \subseteq 1 .. N
    PROVE  /\ Ordered(cs) /\ \A k \in DOMAIN cs : ToSet(cs[k].lines) \subseteq DOMAIN text
           /\ \A n \in WithText : n \in Held(LinesIn(cs)) <=> n \in ShownIn(cs)
<1> DEFINE ls == LinesIn(cs)
<1>1. /\ DOMAIN ls = DOMAIN cs /\ \A k \in DOMAIN cs : ls[k] = cs[k].lines
      /\ \A k \in DOMAIN cs : ToSet(cs[k].lines) \subseteq Held(ls)
  BY ChunksHaveLines, LinesInIs
<1>2. Laid(ls) /\ Held(ls) \subseteq 1 .. N /\ DOMAIN text = 1 .. N
  BY FileIs
<1> HIDE DEF ls
<1>3. Ordered(cs)
  BY <1>1, <1>2 DEF Ordered, Laid, Below
<1>4. \A n \in WithText : n \in Held(ls) <=> n \in ShownIn(cs)
  <2> TAKE n \in WithText
  <2>1. ~IsBlank(n)
    BY DEF WithText
  <2>2. n \in Held(ls) <=> \E k \in DOMAIN cs : n \in ToSet(cs[k].lines)
    BY <1>1 DEF Held
  <2> QED BY <2>1, <2>2 DEF ShownIn, Shown
<1> QED BY <1>1, <1>2, <1>3, <1>4 DEF ls

LEMMA FileIsChunked == ASSUME FileOK PROVE TextIsChunked /\ ChunksAreLabelled /\ ChunkTypeOK
<1> DEFINE cs == ChunkFile
           code == {"rust", "typescript", "go", "python"}
<1>1. CASE grammar = "markdown"
  <2>1. SectionCut(cs, 1 .. N)
    <3>1. cs = ChunkMarkdown
      BY <1>1 DEF ChunkFile
    <3> HIDE DEF cs
    <3> QED BY <3>1, MarkdownIsCut
  <2> HIDE DEF cs
  <2>2. /\ cs \in Seq(Chunk) /\ Laid(LinesIn(cs)) /\ Held(LinesIn(cs)) = 1 .. N
        /\ \A k \in DOMAIN cs : Titled(cs[k])
    BY <2>1 DEF SectionCut
  <2>3. /\ Ordered(cs) /\ \A k \in DOMAIN cs : ToSet(cs[k].lines) \subseteq DOMAIN text
        /\ \A n \in WithText : n \in Held(LinesIn(cs)) <=> n \in ShownIn(cs)
    BY <2>2, LaidIsOrdered
  <2>4. WithText \subseteq ShownIn(cs)
    BY <2>2, <2>3, FileIs
  <2>5. TextIsChunked
    BY <1>1, <2>3, <2>4 DEF TextIsChunked, Ordered, cs
  <2>6. ChunksAreLabelled
    BY <1>1, <2>2 DEF ChunksAreLabelled, Titled, Levels, cs
  <2> QED BY <2>3, <2>5, <2>6 DEF ChunkTypeOK, FileOK, cs
<1>2. CASE grammar # "markdown"
  <2>1. FileCut(cs) /\ (grammar \in code => RegexCut(cs)) /\ (grammar = "text" => TextCut(cs))
    <3>1. ASSUME NEW language
          PROVE  RegexCut(ChunkByItems(Scan(language).items)) /\ RegexCut(ChunkByItems(AtEndOfFile(Scan(language))))
      BY ScansAreItems, ByItemsIsCut
    <3>2. RegexCut(ChunkRust) /\ RegexCut(ChunkTsOrJs) /\ RegexCut(ChunkGo)
      BY <3>1 DEF ChunkRust, ChunkTsOrJs, ChunkGo
    <3>3. RegexCut(ChunkPython)
      BY PythonFindsItems, ByItemsIsCut DEF ChunkPython
    <3>4. FileCut(ChunkWithTreeSitter)
      <4>1. ItemsLaid(NodesOfKinds)
        BY ScansAreItems DEF NodesOfKinds
      <4> QED BY <4>1, NodesAreCut DEF ChunkWithTreeSitter
    <3>5. TextCut(ChunkTextFallback)
      BY TextIsCut
    <3>6. \A xs : (RegexCut(xs) => FileCut(xs)) /\ (TextCut(xs) => FileCut(xs))
      BY DEF RegexCut, TextCut
    <3>7. FileCut(ChunkRustTs) /\ FileCut(ChunkJava)
      BY <3>2, <3>4, <3>5, <3>6 DEF ChunkRustTs, ChunkJava
    <3>8. \/ grammar = "rust" /\ cs = ChunkRust
          \/ grammar = "rust_ts" /\ cs = ChunkRustTs
          \/ grammar = "typescript" /\ cs = ChunkTsOrJs
          \/ grammar = "go" /\ cs = ChunkGo
          \/ grammar = "python" /\ cs = ChunkPython
          \/ grammar = "java" /\ cs = ChunkJava
          \/ grammar \notin code /\ grammar # "rust_ts" /\ cs = ChunkTextFallback
      BY <1>2 DEF ChunkFile
    <3> HIDE DEF cs
    <3> QED BY <3>2, <3>3, <3>5, <3>6, <3>7, <3>8
  <2> HIDE DEF cs
  <2>2. /\ cs \in Seq(Chunk) /\ Laid(LinesIn(cs)) /\ Held(LinesIn(cs)) \subseteq 1 .. N
        /\ \A k \in DOMAIN cs : Shown(cs[k]) \subseteq cs[k].first .. cs[k].last
    BY <2>1 DEF FileCut
  <2>3. /\ Ordered(cs) /\ \A k \in DOMAIN cs : ToSet(cs[k].lines) \subseteq DOMAIN text
        /\ \A n \in WithText : n \in Held(LinesIn(cs)) <=> n \in ShownIn(cs)
    BY <2>2, LaidIsOrdered
  <2>4. grammar = "text" => WithText \subseteq ShownIn(cs)
    BY <2>1, <2>3, FileIs DEF TextCut
  <2>5. grammar \in code => \A n \in WithText \ ShownIn(cs) : \A k \in DOMAIN cs :
            n \notin cs[k].first .. cs[k].last /\ (k = 1 => n > cs[k].first)
    BY <2>1, <2>3 DEF RegexCut
  <2>6. TextIsChunked
    BY <1>2, <2>2, <2>3, <2>4, <2>5 DEF TextIsChunked, Ordered, cs
  <2>7. ChunksAreLabelled
    BY <1>2, <2>1 DEF ChunksAreLabelled, TextCut, Small, cs
  <2> QED BY <2>3, <2>6, <2>7 DEF ChunkTypeOK, FileOK, cs
<1> QED BY <1>1, <1>2

LEMMA FileStaysOne == (ChunkInit => FileOK) /\ (FileOK /\ [ChunkNext]_chunkVars => FileOK')
<1>1. ChunkInit => FileOK
  BY DEF ChunkInit, FileOK
<1>2. ASSUME FileOK, [ChunkNext]_chunkVars PROVE FileOK'
  <2>1. CASE UNCHANGED chunkVars
    BY <1>2, <2>1 DEF FileOK, chunkVars
  <2>2. CASE ChunkNext
    <3>1. PICK l \in LinesOf(grammar) : text' = Append(text, l) /\ grammar' = grammar
      BY <2>2 DEF ChunkNext, AddLine
    <3>2. text \in Seq(LinesOf(grammar)) /\ Append(text, l) \in Seq(LinesOf(grammar))
      BY <1>2, AppendProperties DEF FileOK
    <3> QED BY <1>2, <3>1, <3>2 DEF FileOK
  <2> QED BY <1>2, <2>1, <2>2
<1> QED BY <1>1, <1>2

LEMMA ChunksAreTyped == ChunkSpec => []ChunkTypeOK
BY FileStaysOne, FileIsChunked, PTL DEF ChunkSpec

(* Whatever the lines of a file are, its chunks hold them in their order    *)
(* and none twice; no line of a text or of a markdown file is lost, and of  *)
(* a code file only lines between items are, for any limits and any grammar *)
(* (the chunkers of chunker.rs and chunker_*.rs).                           *)
THEOREM FilesAreChunked == ChunkSpec => []TextIsChunked
BY FileStaysOne, FileIsChunked, PTL DEF ChunkSpec

(* The heading hierarchy of each chunk of a markdown file is that of each   *)
(* of its lines, in sections that were split and in those that were not; a  *)
(* chunk of a text is below the limit unless it is a single line            *)
(* (chunk_markdown, chunk_text_fallback).                                   *)
THEOREM ChunksAreAlwaysLabelled == ChunkSpec => []ChunksAreLabelled
BY FileStaysOne, FileIsChunked, PTL DEF ChunkSpec

-----------------------------------------------------------------------------
(* Each part of the run behaves as its module says, or stands still.        *)
LEMMA ServicesBehave ==
    MCSpec => ToolSpec /\ RunSpec /\ PoolSpec /\ ConfigSpec /\ ChunkSpec /\ []RpcInv(ScriptLines)
<1> DEFINE all == <<part, toolVars, runVars, poolVars, configVars, vars, chunkVars, rpcVars>>
<1>1. MCInit => ToolInit /\ RunInit /\ PoolInit /\ ConfigInit /\ ChunkInit /\ RpcInit
  BY DEF MCInit
<1>2. [MCNext]_all => [ToolNext]_toolVars
  BY DEF MCNext, OtherParts
<1>3. [MCNext]_all => [RunNext]_runVars
  BY DEF MCNext, OtherParts
<1>4. [MCNext]_all => [PoolNext]_poolVars
  BY DEF MCNext, OtherParts
<1>5. [MCNext]_all => [ConfigNext]_configVars
  BY DEF MCNext, OtherParts
<1>6. [MCNext]_all => [ChunkNext]_chunkVars
  BY DEF MCNext, OtherParts
<1>7. [MCNext]_all => [RpcNext(MCScript)]_rpcVars \/ [RpcNext(MCOffers)]_rpcVars
  BY DEF MCNext, OtherParts
<1>8. RpcInv(ScriptLines) /\ [MCNext]_all => RpcInv(ScriptLines)'
  <2> HIDE DEF all
  <2>1. RpcInv(ScriptLines) /\ [RpcNext(MCScript)]_rpcVars => RpcInv(ScriptLines)'
    BY ScriptsAreLines, RpcStepKeepsIt
  <2>2. RpcInv(ScriptLines) /\ [RpcNext(MCOffers)]_rpcVars => RpcInv(ScriptLines)'
    BY ScriptsAreLines, RpcStepKeepsIt
  <2> QED BY <1>7, <2>1, <2>2
<1>9. MCInit => RpcInv(ScriptLines)
  BY <1>1, RpcBegins
<1> QED BY <1>1, <1>2, <1>3, <1>4, <1>5, <1>6, <1>8, <1>9, PTL
        DEF MCSpec, ToolSpec, RunSpec, PoolSpec, ConfigSpec, ChunkSpec

(* The variables of every service hold what the code can put there: calls   *)
(* on the catalog and runs of tools, the state of the providers and what    *)
(* they measured, the files and updates of the configuration, the chunks    *)
(* of a file, frames and answers of the JSON-RPC front.                     *)
THEOREM ServicesAreTyped == MCSpec => []ServicesTypeOK
<1>1. ASSUME RpcInv(ScriptLines) PROVE RpcTypeOK
  BY <1>1, RpcHasTypes
<1> QED BY <1>1, ServicesBehave, ToolsAreTyped, RunIsTyped, PoolIsTyped, ConfigIsTyped, ChunksAreTyped, PTL
        DEF ServicesTypeOK
=============================================================================
