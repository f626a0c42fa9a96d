------------------------------ MODULE ToolCatalog ------------------------------
(***************************************************************************)
(* The catalog of tools: one SQLite database for all projects, filled from *)
(* the JSON files of the catalog by the first caller that finds it empty,  *)
(* changed by the tool actions, and searched through points in Qdrant that *)
(* are embedded once and through full-text search.  And the families that  *)
(* tool_enable writes into overrides.json.  Callers overlap wherever the   *)
(* catalog's mutex is not held, and the process stops anywhere.            *)
(***************************************************************************)
EXTENDS Integers, FiniteSets, Sequences, SequencesExt

CONSTANTS
    Tools,         \* tool ids
    CatalogFiles,  \* the JSON files of the catalog, each the set of its ids
    ToolCallers,   \* requests that may overlap
    Families,      \* tool families
    MAX_FAMILIES,  \* limit max_enabled_families
    MaxToolCalls,  \* bound on requests and restarts
    NoTool

ASSUME ToolCatalogAssumption ==
    /\ CatalogFiles \in Seq(SUBSET Tools) /\ NoTool \notin Tools \union {"catalog", "user"}
    /\ MaxToolCalls \in Nat /\ MAX_FAMILIES \in Nat \ {0}

VARIABLES
    tools,       \* table tools: the source of each id, or NoTool
    enabledFor,  \* table enabled_tools, for one project root
    inventory,   \* table system_inventory
    binaries,    \* programs that `which` finds on the host
    opened,      \* Broker.catalog is Some
    embedded,    \* Broker.tools_embedded
    toolPoints,  \* collection "tools" of Qdrant
    caller,      \* what each request is doing
    toolCalls,
    found,       \* history: the last answer, the tools it was about, those it calls installed
    families,    \* overrides.json
    granted,     \* history: families whose tool_enable was acknowledged
    crossed      \* history: two tool_enable calls overlapped

toolVars == <<tools, enabledFor, inventory, binaries, opened, embedded, toolPoints, caller,
              toolCalls, found, families, granted, crossed>>

NoCall == [phase |-> "idle"]

ToolTypeOK ==
    /\ tools \in [Tools -> {"catalog", "user", NoTool}]
    /\ enabledFor \subseteq Tools /\ inventory \subseteq Tools /\ binaries \subseteq Tools
    /\ opened \in BOOLEAN /\ embedded \in BOOLEAN /\ toolPoints \subseteq Tools
    /\ \A c \in ToolCallers : caller[c].phase \in
          {"idle", "opening", "importing", "opened", "ready", "installing", "embedding", "asking", "loaded"}
    /\ toolCalls \in 0 .. MaxToolCalls
    /\ found \in [shown: SUBSET Tools, present: SUBSET Tools, installed: SUBSET Tools]
    /\ families \subseteq Families /\ granted \subseteq Families /\ crossed \in BOOLEAN

ToolInit ==
    /\ tools = [t \in Tools |-> NoTool]
    /\ enabledFor = {} /\ inventory = {} /\ binaries \in SUBSET Tools
    /\ opened = FALSE /\ embedded = FALSE /\ toolPoints = {}
    /\ caller = [c \in ToolCallers |-> NoCall] /\ toolCalls = 0
    /\ found = [shown |-> {}, present |-> {}, installed |-> {}]
    /\ families = {} /\ granted = {} /\ crossed = FALSE

-----------------------------------------------------------------------------
(* The tables.                                                              *)
Present == {t \in Tools : tools[t] # NoTool}

MutImportTools(ids, source) ==   \* the table is replaced, not merged
    [t \in Tools |-> IF t \in ids THEN source ELSE NoTool]

(* import_tools: an upsert, the source of a known id included.              *)
ImportTools(ids, source) == [t \in Tools |-> IF t \in ids THEN source ELSE tools[t]]

(* import_catalog_dir: file by file, each its own transaction; it stops at  *)
(* the first that cannot be read, so that n of them are in.                 *)
ImportCatalogDir(n) == ImportTools(UNION {CatalogFiles[i] : i \in 1 .. n}, "catalog")

(* scan_system_inventory looks at the tools there are and at no other row.  *)
ScanSystemInventory(present) == (inventory \ present) \union (binaries \intersect present)

(* into_full_info: installed is what the inventory has a path for.          *)
IntoFullInfo(t) == [tool |-> t, state |-> IF t \in inventory THEN "installed" ELSE "available"]
GetTool(t) == {IntoFullInfo(u) : u \in Present \intersect {t}}

(* suggest: rows of enabled_tools without a tool are joined to nothing; the *)
(* group of available tools is never filled.                                *)
Suggest == [enabled |-> Present \intersect enabledFor, recommended |-> Present \ enabledFor]

RemoveUserTool(t) == IF tools[t] = "user" THEN [tools EXCEPT ![t] = NoTool] ELSE tools

-----------------------------------------------------------------------------
(* ensure_catalog: the check, the import and the store of the handle are    *)
(* three holds of the mutex; two first callers both open and both store.    *)
Ends(c) == caller' = [caller EXCEPT ![c] = NoCall]
Moves(c, phase) == caller' = [caller EXCEPT ![c].phase = phase]
TableUnchanged == UNCHANGED <<tools, enabledFor, inventory>>
SearchUnchanged == UNCHANGED <<embedded, toolPoints, found>>
FamiliesUnchanged == UNCHANGED <<families, granted, crossed>>

BeginTool(c, op, t) ==
    /\ caller[c] = NoCall /\ toolCalls < MaxToolCalls
    /\ toolCalls' = toolCalls + 1
    /\ caller' = [caller EXCEPT ![c] =
          [phase |-> IF opened THEN "ready" ELSE "opening", op |-> op, tool |-> t, next |-> 0]]
    /\ TableUnchanged /\ SearchUnchanged /\ FamiliesUnchanged /\ UNCHANGED <<binaries, opened>>

(* The catalog is imported only while it is empty.                          *)
OpenCatalog(c) ==
    /\ caller[c].phase = "opening"
    /\ Moves(c, IF Present = {} THEN "importing" ELSE "opened")
    /\ TableUnchanged /\ SearchUnchanged /\ FamiliesUnchanged
    /\ UNCHANGED <<binaries, opened, toolCalls>>

ImportFile(c) ==
    /\ caller[c].phase = "importing" /\ caller[c].next < Len(CatalogFiles)
    /\ tools' = ImportTools(CatalogFiles[caller[c].next + 1], "catalog")
    /\ caller' = [caller EXCEPT ![c].next = @ + 1]
    /\ SearchUnchanged /\ FamiliesUnchanged
    /\ UNCHANGED <<enabledFor, inventory, binaries, opened, toolCalls>>

(* After the last file, or after one that failed: a warning in the log.     *)
ScanAfterImport(c) ==
    /\ caller[c].phase = "importing"
    /\ inventory' = ScanSystemInventory(Present)
    /\ Moves(c, "opened")
    /\ SearchUnchanged /\ FamiliesUnchanged
    /\ UNCHANGED <<tools, enabledFor, binaries, opened, toolCalls>>

StoreCatalog(c) ==
    /\ caller[c].phase = "opened"
    /\ opened' = TRUE /\ Moves(c, "ready")
    /\ TableUnchanged /\ SearchUnchanged /\ FamiliesUnchanged /\ UNCHANGED <<binaries, toolCalls>>

EnsureCatalog(c) == OpenCatalog(c) \/ ImportFile(c) \/ ScanAfterImport(c) \/ StoreCatalog(c)

-----------------------------------------------------------------------------
(* The handlers, each under the mutex.                                      *)
Ready(c, op) == caller[c].phase = "ready" /\ caller[c].op = op

ToolAdd(c) ==
    /\ Ready(c, "add") /\ Ends(c)
    /\ tools' = ImportTools({caller[c].tool}, "user")
    /\ SearchUnchanged /\ FamiliesUnchanged
    /\ UNCHANGED <<enabledFor, inventory, binaries, opened, toolCalls>>

ToolRemove(c) ==
    /\ Ready(c, "remove") /\ Ends(c)
    /\ tools' = RemoveUserTool(caller[c].tool)
    /\ SearchUnchanged /\ FamiliesUnchanged
    /\ UNCHANGED <<enabledFor, inventory, binaries, opened, toolCalls>>

ToolDisable(c) ==
    /\ Ready(c, "disable") /\ Ends(c)
    /\ enabledFor' = enabledFor \ {caller[c].tool}
    /\ SearchUnchanged /\ FamiliesUnchanged
    /\ UNCHANGED <<tools, inventory, binaries, opened, toolCalls>>

(* tool_catalog_update: an error half-way leaves the files that went in and *)
(* the inventory as it was.                                                 *)
ToolCatalogUpdate(c) ==
    /\ Ready(c, "update") /\ Ends(c)
    /\ \E n \in 0 .. Len(CatalogFiles) :
          /\ tools' = ImportCatalogDir(n)
          /\ inventory' = IF n < Len(CatalogFiles) THEN inventory
                          ELSE ScanSystemInventory(Present \union UNION Range(CatalogFiles))
    /\ SearchUnchanged /\ FamiliesUnchanged /\ UNCHANGED <<enabledFor, binaries, opened, toolCalls>>

(* tool_install reads the command under the mutex, runs it without, and     *)
(* enables the tool even when it is gone by then.                           *)
InstallReads(c) ==
    /\ Ready(c, "install")
    /\ IF GetTool(caller[c].tool) # {} THEN Moves(c, "installing") ELSE Ends(c)
    /\ TableUnchanged /\ SearchUnchanged /\ FamiliesUnchanged
    /\ UNCHANGED <<binaries, opened, toolCalls>>

InstallEnds(c, ok) ==
    /\ caller[c].phase = "installing" /\ Ends(c)
    /\ IF ok THEN /\ binaries' \in {binaries, binaries \union {caller[c].tool}}
                  /\ inventory' = (inventory \ Present) \union (binaries' \intersect Present)
                  /\ enabledFor' = enabledFor \union {caller[c].tool}
             ELSE UNCHANGED <<binaries, inventory, enabledFor>>
    /\ SearchUnchanged /\ FamiliesUnchanged /\ UNCHANGED <<tools, opened, toolCalls>>

-----------------------------------------------------------------------------
(* tool_search: ensure_tools_embedded before ensure_catalog, so that a      *)
(* search that comes first finds nothing to embed and sets the flag.        *)
SearchBegins(c) ==
    /\ caller[c] = NoCall /\ toolCalls < MaxToolCalls
    /\ toolCalls' = toolCalls + 1
    /\ LET none == ~opened \/ Present = {} IN
       /\ embedded' \in {embedded, embedded \/ none}
       /\ caller' = [caller EXCEPT ![c] =
             [phase |-> IF embedded \/ none THEN "asking" ELSE "embedding", op |-> "search",
              tool |-> NoTool, next |-> 0, ids |-> IF opened THEN Present ELSE {}]]
    /\ TableUnchanged /\ FamiliesUnchanged /\ UNCHANGED <<binaries, opened, toolPoints, found>>

(* The points go in by batches; one that fails leaves the flag as it was.   *)
EmbedTools(c) ==
    /\ caller[c].phase = "embedding" /\ Moves(c, "asking")
    /\ \/ /\ toolPoints' = toolPoints \union caller[c].ids
          /\ embedded' = TRUE
       \/ /\ \E some \in SUBSET caller[c].ids : toolPoints' = toolPoints \union some
          /\ UNCHANGED embedded
    /\ TableUnchanged /\ FamiliesUnchanged /\ UNCHANGED <<binaries, opened, toolCalls, found>>

Answers(c, shown) ==
    Ends(c) /\ found' = [shown |-> shown, present |-> Present, installed |-> {}]
FallsThrough(c) ==
    /\ caller' = [caller EXCEPT ![c].phase = IF opened THEN "ready" ELSE "opening"]
    /\ UNCHANGED found

MutSearchToolsSemantic(c) ==   \* the answer of Qdrant is final, what is gone taken out of it
    /\ caller[c].phase = "asking"
    /\ \E hits \in SUBSET toolPoints :
          IF opened /\ hits # {} THEN Answers(c, hits \intersect Present) ELSE FallsThrough(c)
    /\ TableUnchanged /\ FamiliesUnchanged /\ UNCHANGED <<binaries, opened, embedded, toolPoints, toolCalls>>

(* search_tools_semantic: any of the points, {} when Qdrant fails; those    *)
(* that are no longer in the table are left out.                            *)
SearchToolsSemantic(c) ==
    /\ caller[c].phase = "asking"
    /\ \E hits \in SUBSET toolPoints :
          LET shown == {t \in hits : GetTool(t) # {}} IN
          IF opened /\ shown # {} THEN Answers(c, shown) ELSE FallsThrough(c)
    /\ TableUnchanged /\ FamiliesUnchanged /\ UNCHANGED <<binaries, opened, embedded, toolPoints, toolCalls>>

(* search_fts, for a query that every description matches.                  *)
SearchFts(c) ==
    /\ Ready(c, "search") /\ Answers(c, Present)
    /\ TableUnchanged /\ FamiliesUnchanged /\ UNCHANGED <<binaries, opened, embedded, toolPoints, toolCalls>>

(* The other readers.  tool_suggest asks the full text alone, and the       *)
(* registry of capabilities when that has no answer; tool_list filters by   *)
(* the state of a row, and no row is "recommended" or in a state "all".     *)
ReadsOnly ==
    /\ TableUnchanged /\ FamiliesUnchanged
    /\ UNCHANGED <<binaries, opened, embedded, toolPoints, toolCalls>>

ToolSuggest(c) == Ready(c, "suggest") /\ Answers(c, Present) /\ ReadsOnly

ToolList(c, filter) ==
    /\ Ready(c, "list") /\ Ends(c) /\ ReadsOnly
    /\ found' = [shown |-> IF filter = NoTool THEN Suggest.enabled \union Suggest.recommended
                           ELSE Suggest[filter],
                 present |-> {t \in Present : filter = NoTool \/ t \in enabledFor}, installed |-> {}]

ToolInfo(c) ==
    /\ Ready(c, "info") /\ Ends(c) /\ ReadsOnly
    /\ LET infos == GetTool(caller[c].tool) IN
       found' = [shown |-> {i.tool : i \in infos}, present |-> Present \intersect {caller[c].tool},
                 installed |-> {i.tool : i \in {j \in infos : j.state = "installed"}}]

-----------------------------------------------------------------------------
(* tool_enable: load, add, validate the count, save; no lock.               *)
EnableLoads(c, f) ==
    /\ caller[c] = NoCall /\ toolCalls < MaxToolCalls
    /\ toolCalls' = toolCalls + 1
    /\ caller' = [caller EXCEPT ![c] = [phase |-> "loaded", op |-> "enable", tool |-> NoTool, next |-> 0,
                                        family |-> f, list |-> families \union {f}]]
    /\ crossed' = (crossed \/ \E d \in ToolCallers : caller[d].phase = "loaded")
    /\ TableUnchanged /\ SearchUnchanged /\ UNCHANGED <<binaries, opened, families, granted>>

MutEnableSaves(c) ==   \* the count is that of the file, not of the new list
    /\ caller[c].phase = "loaded" /\ Ends(c)
    /\ IF Cardinality(families) > MAX_FAMILIES
       THEN UNCHANGED <<families, granted>>
       ELSE families' = caller[c].list /\ granted' = granted \union {caller[c].family}
    /\ TableUnchanged /\ SearchUnchanged /\ UNCHANGED <<binaries, opened, toolCalls, crossed>>

EnableSaves(c) ==
    /\ caller[c].phase = "loaded" /\ Ends(c)
    /\ IF Cardinality(caller[c].list) > MAX_FAMILIES
       THEN UNCHANGED <<families, granted>>
       ELSE families' = caller[c].list /\ granted' = granted \union {caller[c].family}
    /\ TableUnchanged /\ SearchUnchanged /\ UNCHANGED <<binaries, opened, toolCalls, crossed>>

-----------------------------------------------------------------------------
ToolRestart ==
    /\ toolCalls < MaxToolCalls /\ toolCalls' = toolCalls + 1
    /\ opened' = FALSE /\ embedded' = FALSE /\ caller' = [c \in ToolCallers |-> NoCall]
    /\ TableUnchanged /\ FamiliesUnchanged /\ UNCHANGED <<binaries, toolPoints, found>>

ToolNext ==
    \/ \E c \in ToolCallers :
          \/ \E op \in {"add", "remove", "disable", "install", "info"}, t \in Tools : BeginTool(c, op, t)
          \/ \E op \in {"update", "suggest", "list"} : BeginTool(c, op, NoTool)
          \/ EnsureCatalog(c)
          \/ ToolAdd(c) \/ ToolRemove(c) \/ ToolDisable(c) \/ ToolCatalogUpdate(c)
          \/ InstallReads(c) \/ InstallEnds(c, TRUE) \/ InstallEnds(c, FALSE)
          \/ SearchBegins(c) \/ EmbedTools(c) \/ SearchToolsSemantic(c) \/ SearchFts(c)
          \/ ToolSuggest(c) \/ ToolInfo(c) \/ \E filter \in {NoTool, "enabled"} : ToolList(c, filter)
          \/ \E f \in Families : EnableLoads(c, f)
          \/ EnableSaves(c)
    \/ ToolRestart

ToolSpec == ToolInit /\ [][ToolNext]_toolVars

-----------------------------------------------------------------------------
(* Properties.                                                              *)
(* No step takes a tool out of the catalog but the removal of a user tool:  *)
(* not an import by a late first caller, an update that fails half-way, an  *)
(* install or a restart.                                                    *)
ToolsAreKept ==
    [][\A t \in Present :
          \/ tools'[t] # NoTool
          \/ /\ tools[t] = "user"
             /\ \E c \in ToolCallers :
                   Ready(c, "remove") /\ caller[c].tool = t /\ caller'[c] = NoCall]_toolVars

(* tool_search, tool_suggest, tool_list and tool_info show only tools there *)
(* are, though points and rows of enabled tools outlive them; they come     *)
(* back empty only when there is nothing to show, though the flag may say   *)
(* that tools are embedded that never were; and they call installed only    *)
(* what was found on the host, whatever install commands reported.          *)
SearchIsTrue ==
    /\ found.shown \subseteq found.present /\ (found.shown = {} => found.present = {})
    /\ found.installed \subseteq binaries

(* The limit on enabled families holds however tool_enable calls overlap,   *)
(* and an acknowledged family is missing only if two of them did.           *)
FamiliesAreBounded ==
    /\ Cardinality(families) <= MAX_FAMILIES
    /\ granted \subseteq families \/ crossed
=============================================================================
