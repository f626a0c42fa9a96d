----------------------------- MODULE Configuration -----------------------------
(***************************************************************************)
(* The configuration of a project: config.json in its state directory,     *)
(* changed by updates that read it, merge, write config.json.tmp and       *)
(* rename; its layers (defaults, global file, project file, environment,   *)
(* the caller); and the four variables that select the backends.  Some     *)
(* settings form a block, which a layer gives as a whole.  Updates have no *)
(* lock: two of them write one temporary file.  A process stops anywhere.  *)
(***************************************************************************)
EXTENDS Integers, FiniteSets

CONSTANTS
    Settings,      \* settings of config.json
    Flags,         \* those that are booleans: a malformed variable unsets them
    Limits,        \* those in the block of limits: clamped, a malformed variable is ignored
    Blocks,        \* the settings of limits, of vector_pgvector, of state_postgres
    FileOnly,      \* those that neither variables nor callers give: the latter two, state_redis
    Unread,        \* those of state_redis: merge does not copy it
    Default,       \* what a setting of a block is that the block leaves out
    ProfileFlags,  \* those that a memory palace profile sets
    Offered,       \* for each caller of update_project_config, those it passes on
    Values, LimitMin, LimitMax,
    Updaters,      \* updates that may overlap
    MaxUpdates,    \* bound on updates and restarts
    Unset, Garbled

StateTypes == {"sqlite", "postgres", "redis", "postgres-combined", "redis-combined"}
VectorTypes == {"qdrant", "pgvector", "redis-vectors", "postgres-combined", "redis-combined"}

ASSUME ConfigurationAssumption ==
    /\ (UNION Offered) \union Flags \union ProfileFlags \union FileOnly \subseteq Settings
    /\ Limits \in Blocks /\ UNION Blocks \subseteq Settings \ ProfileFlags /\ Unread \subseteq FileOnly
    /\ \A block, other \in Blocks : block = other \/ block \intersect other = {}
    /\ \A block \in Blocks, offered \in Offered : block \subseteq offered \/ block \intersect offered = {}
    /\ UNION Offered \subseteq Settings \ FileOnly
    /\ Values \subseteq Nat /\ Default \in Values /\ Unset \notin Values /\ Garbled \notin Values
    /\ MaxUpdates \in Nat /\ LimitMin <= LimitMax
    /\ Unset \notin StateTypes \union VectorTypes \union {"unknown", "blank", "url1", "url2"}

Layer == [Settings -> Values \union {Unset}]
NoLayer == [s \in Settings |-> Unset]
Inode == 1 .. MaxUpdates + 1

VARIABLES
    content,     \* what each inode holds: the text of a layer, nothing, or a mixture
    configFile,  \* inode under the name config.json, 0: none
    tmpFile,     \* inode under the name config.json.tmp, 0: none
    updater,     \* what each update is doing
    updates,
    globalFile,  \* config.json of the global directory
    variables,   \* environment variables of the settings
    knobs,       \* THE_ONE_STATE_TYPE, _STATE_URL, THE_ONE_VECTOR_TYPE, _VECTOR_URL
    promised,    \* history: the value of each setting that was acknowledged last
    interfered   \* history: two updates overlapped

configVars == <<content, configFile, tmpFile, updater, updates, globalFile, variables, knobs,
                promised, interfered>>

Whole(layer) == [state |-> "whole", layer |-> layer]
Torn(state) == [state |-> state, layer |-> NoLayer]
NoUpdate == [phase |-> "idle", layer |-> NoLayer, inode |-> 0, given |-> NoLayer]

-----------------------------------------------------------------------------
(* A block that is there has all of its settings: those that nobody gives   *)
(* are the defaults of its structure, and so are here the ones that serde   *)
(* makes a client give beside the one it changes.  So it replaces another   *)
(* as a whole.                                                              *)
Filled(layer) ==
    [s \in Settings |->
        IF layer[s] = Unset /\ \E block \in Blocks : s \in block /\ \E t \in block : layer[t] # Unset
        THEN Default ELSE layer[s]]
Giving(s, v) == Filled([NoLayer EXCEPT ![s] = v])

(* AppConfig::load: the layers, each over those before it.                  *)
Over(base, overlay) ==
    [s \in Settings |-> IF overlay[s] # Unset THEN overlay[s] ELSE base[s]]

Merge(base, overlay) == Over(base, [s \in Settings |-> IF s \in Unread THEN Unset ELSE overlay[s]])

ApplyEnvLayer(merged) ==
    Filled([s \in Settings |->
        IF variables[s] = Unset \/ (variables[s] = Garbled /\ s \notin Flags) THEN merged[s]
        ELSE IF variables[s] = Garbled THEN Unset ELSE variables[s]])

(* apply_runtime_layer: what the caller of AppConfig::load overrides.       *)
ApplyRuntimeLayer(runtime, merged) == Over(merged, runtime)
Runtimes == {NoLayer} \union {Giving(s, v) : s \in Settings \ FileOnly, v \in Values}

(* ConfigurableLimits::validated.                                           *)
Validated(s, v) ==
    IF s \notin Limits \/ v = Unset THEN v
    ELSE IF v < LimitMin THEN LimitMin ELSE IF v > LimitMax THEN LimitMax ELSE v

(* Unset in the answer: the default of the setting.                         *)
LoadConfig(runtime) ==
    LET own == IF configFile = 0 THEN NoLayer ELSE content[configFile].layer
        merged == ApplyRuntimeLayer(runtime, ApplyEnvLayer(Merge(Merge(NoLayer, globalFile), own)))
    IN [s \in Settings |-> Validated(s, merged[s])]

-----------------------------------------------------------------------------
(* BackendSelection::from_env.                                              *)
Combined == {"postgres-combined", "redis-combined"}
Urls == {Unset, "blank", "url1", "url2"}
Knobs == [stateType: StateTypes \union {Unset, "unknown"}, stateUrl: Urls,
          vectorType: VectorTypes \union {Unset, "unknown"}, vectorUrl: Urls]
NoKnobs == [stateType |-> Unset, stateUrl |-> Unset, vectorType |-> Unset, vectorUrl |-> Unset]

MissesUrl(type, url, default) == type \notin {Unset, default} /\ url \in {Unset, "blank"}

FromEnv(k) ==
    IF k = NoKnobs THEN [state |-> "sqlite", vector |-> "qdrant"]
    ELSE IF \/ "unknown" \in {k.stateType, k.vectorType}
            \/ MissesUrl(k.stateType, k.stateUrl, "sqlite")
            \/ MissesUrl(k.vectorType, k.vectorUrl, "qdrant")
            \/ Unset \in {k.stateType, k.vectorType}
            \/ /\ k.stateType \in Combined \/ k.vectorType \in Combined
               /\ k.stateType # k.vectorType \/ k.stateUrl # k.vectorUrl
         THEN [state |-> "error", vector |-> "error"]
         ELSE [state |-> k.stateType, vector |-> k.vectorType]

-----------------------------------------------------------------------------
ConfigTypeOK ==
    /\ content \in [Inode -> [state: {"whole", "empty", "mixed"}, layer: Layer]]
    /\ {configFile, tmpFile} \subseteq Inode \union {0}
    /\ \A u \in Updaters :
          /\ updater[u].phase \in {"idle", "merged", "writing", "written"} /\ updater[u].inode \in Inode \union {0}
          /\ updater[u].layer \in Layer /\ updater[u].given \in Layer
    /\ updates \in 0 .. MaxUpdates /\ globalFile \in Layer
    /\ variables \in [Settings -> Values \union {Unset, Garbled}]
    /\ knobs \in Knobs /\ promised \in Layer /\ interfered \in BOOLEAN

(* There may be a config.json that somebody wrote.                          *)
ConfigInit ==
    /\ tmpFile = 0 /\ updater = [u \in Updaters |-> NoUpdate] /\ updates = 0 /\ interfered = FALSE
    /\ \/ configFile = 0 /\ content = [i \in Inode |-> Torn("empty")] /\ promised = NoLayer
       \/ /\ configFile = 1 /\ \E s \in Settings, v \in Values : promised = Giving(s, v)
          /\ content = [i \in Inode |-> IF i = 1 THEN Whole(promised) ELSE Torn("empty")]
    /\ \/ /\ knobs = NoKnobs
          /\ globalFile \in {NoLayer} \union {[s \in Settings |-> v] : v \in Values}
          /\ \E s \in Settings \ FileOnly, v \in Values \union {Unset, Garbled} :
                variables = [NoLayer EXCEPT ![s] = v]
       \/ knobs \in Knobs /\ globalFile = NoLayer /\ variables = NoLayer

(* The callers copy the settings they know; a profile overrides the flags   *)
(* given beside it.                                                         *)
WithProfile(given, profile, offered) ==
    [s \in Settings |-> IF profile # Unset /\ s \in ProfileFlags THEN profile
                        ELSE IF s \in offered THEN given[s] ELSE Unset]

(* The file is read and the update merged into it; a torn file is an error  *)
(* and changes nothing.                                                     *)
UpdateMerges(u, given) ==
    /\ updater[u] = NoUpdate /\ updates < MaxUpdates /\ knobs = NoKnobs
    /\ configFile # 0 => content[configFile].state = "whole"
    /\ updates' = updates + 1
    /\ updater' = [updater EXCEPT ![u] =
          [phase |-> "merged", inode |-> 0, given |-> given,
           layer |-> Over(IF configFile = 0 THEN NoLayer ELSE content[configFile].layer, given)]]
    /\ interfered' = (interfered \/ \E w \in Updaters : updater[w] # NoUpdate)
    /\ UNCHANGED <<content, configFile, tmpFile, globalFile, variables, knobs, promised>>

FreeInode == CHOOSE i \in Inode : i # configFile /\ i # tmpFile
                                 /\ \A u \in Updaters : updater[u].inode # i

MutUpdateOpens(u) ==   \* config.json itself is opened and written
    /\ updater[u].phase = "merged"
    /\ LET i == IF configFile = 0 THEN FreeInode ELSE configFile IN
       /\ configFile' = i /\ tmpFile' = i
       /\ content' = [content EXCEPT ![i] = Torn("empty")]
       /\ updater' = [updater EXCEPT ![u].phase = "writing", ![u].inode = i]
    /\ UNCHANGED <<updates, globalFile, variables, knobs, promised, interfered>>

(* fs::write opens and truncates config.json.tmp, the one there is if any.  *)
UpdateOpens(u) ==
    /\ updater[u].phase = "merged"
    /\ LET i == IF tmpFile = 0 THEN FreeInode ELSE tmpFile IN
       /\ tmpFile' = i
       /\ content' = [content EXCEPT ![i] = Torn("empty")]
       /\ updater' = [updater EXCEPT ![u].phase = "writing", ![u].inode = i]
    /\ UNCHANGED <<configFile, updates, globalFile, variables, knobs, promised, interfered>>

(* A write over another's text of a different length leaves a mixture.      *)
UpdateWrites(u) ==
    LET i == updater[u].inode
        left == IF content[i].state = "empty" THEN {} ELSE {Torn("mixed")}
    IN
    /\ updater[u].phase = "writing"
    /\ \E c \in {Whole(updater[u].layer)} \union left : content' = [content EXCEPT ![i] = c]
    /\ updater' = [updater EXCEPT ![u].phase = "written"]
    /\ UNCHANGED <<configFile, tmpFile, updates, globalFile, variables, knobs, promised, interfered>>

(* The rename and the answer: an error when the temporary file is gone.     *)
UpdateRenames(u) ==
    /\ updater[u].phase = "written"
    /\ updater' = [updater EXCEPT ![u] = NoUpdate]
    /\ IF tmpFile = 0
       THEN UNCHANGED <<configFile, tmpFile, promised>>
       ELSE /\ configFile' = tmpFile /\ tmpFile' = 0
            /\ promised' = Over(promised, updater[u].given)
    /\ UNCHANGED <<content, updates, globalFile, variables, knobs, interfered>>

ConfigRestart ==
    /\ updates < MaxUpdates /\ updates' = updates + 1
    /\ \E u \in Updaters : updater[u] # NoUpdate
    /\ updater' = [u \in Updaters |-> NoUpdate]
    /\ UNCHANGED <<content, configFile, tmpFile, globalFile, variables, knobs, promised, interfered>>

ConfigNext ==
    \/ \E u \in Updaters :
          \/ \E s \in Settings, v \in Values, profile \in Values \union {Unset}, offered \in Offered :
                UpdateMerges(u, WithProfile(Giving(s, v), profile, offered))
          \/ UpdateOpens(u) \/ UpdateWrites(u) \/ UpdateRenames(u)
    \/ ConfigRestart

ConfigSpec == ConfigInit /\ [][ConfigNext]_configVars

-----------------------------------------------------------------------------
(* Properties.                                                              *)
(* What the guide says of config.update: the file is written atomically, so *)
(* that nobody finds it half written.                                       *)
ConfigIsAtomic == configFile # 0 => content[configFile].state = "whole"
(* A project is configured by what was acknowledged last or is in its file, *)
(* wherever a process stopped: setting by setting, except that an update of *)
(* one setting of a block sets the others to their defaults if it leaves    *)
(* them out; and within the limits.  Unless two updates overlapped, the     *)
(* environment says otherwise, or the caller that loads it: what that       *)
(* overrides is what it gets, within the limits.  Of settings that are not  *)
(* read only this is so, that they stay in the file.                        *)
UpdatesAreSeen ==
    ~interfered =>
        /\ ConfigIsAtomic
        /\ \A s \in Unread : promised[s] # Unset => content[configFile].layer[s] = promised[s]
        /\ \A runtime \in Runtimes, s \in Settings :
              /\ s \notin Unread /\ promised[s] # Unset /\ variables[s] = Unset /\ runtime[s] = Unset =>
                    LoadConfig(runtime)[s] = Validated(s, promised[s])
              /\ runtime[s] # Unset => LoadConfig(runtime)[s] = Validated(s, runtime[s])

(* A selection is accepted exactly when both types are given, or nothing    *)
(* is, each with the URL it needs, and a combined type stands on both sides *)
(* with one URL.                                                            *)
SelectionIsSound ==
    LET picked == FromEnv(knobs)
        needs(type, url) == type \in {"sqlite", "qdrant"} \/ url \in {"url1", "url2"}
    IN  picked.state # "error" <=>
          \/ knobs = NoKnobs
          \/ /\ knobs.stateType \in StateTypes /\ needs(knobs.stateType, knobs.stateUrl)
             /\ knobs.vectorType \in VectorTypes /\ needs(knobs.vectorType, knobs.vectorUrl)
             /\ {knobs.stateType, knobs.vectorType} \intersect Combined # {}
                  => knobs.stateType = knobs.vectorType /\ knobs.stateUrl = knobs.vectorUrl

(* What is configured is what was asked for, in the files and in the        *)
(* environment.                                                             *)
ConfiguresAsAsked == UpdatesAreSeen /\ SelectionIsSound
=============================================================================
