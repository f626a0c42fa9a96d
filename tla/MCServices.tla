----------------------------- MODULE MCServices -----------------------------
(***************************************************************************)
(* The modules about what the broker does besides storing: its tools, its  *)
(* router, its configuration, its memory engine, the chunkers and the      *)
(* JSON-RPC front, checked in one run.  They share no state, so a          *)
(* behaviour belongs to one part and the others stay as they began.        *)
(***************************************************************************)
EXTENDS ToolCatalog, ToolRun, ProviderPool, Configuration, MemoryEngine, MCChunking, MCJsonRpc, TLC

CONSTANTS u1, u2,          \* two clients, of whatever they ask
          t1, t2, t3, f1, f2, a1, a2, s1, s2

VARIABLE part

MCSymmetry == Permutations({u1, u2}) \union Permutations({f1, f2}) \union Permutations({s1, s2})

MCCatalogFiles == << {t1}, {t2} >>
MCMentions(k) == IF k = a1 THEN {"config"} ELSE {"docs", "run"}
MCCooldowns == <<1, 2, 3>>
MCChunks == (t1 :> 0) @@ (t2 :> 1) @@ (t3 :> 2)

OtherParts(p) ==   \* the parts that a step of p leaves alone
    /\ p # "catalog" => UNCHANGED toolVars
    /\ p # "runs" => UNCHANGED runVars
    /\ p # "pool" => UNCHANGED poolVars
    /\ p # "config" => UNCHANGED configVars
    /\ p # "engine" => UNCHANGED vars
    /\ p # "chunks" => UNCHANGED chunkVars
    /\ p \notin {"front", "calls"} => UNCHANGED rpcVars

MCInit ==
    /\ part \in {"catalog", "runs", "pool", "config", "engine", "chunks", "front", "calls"}
    /\ ToolInit /\ binaries = {t3}
    /\ RunInit
    /\ PoolInit /\ (part # "pool" => policy = "Priority")
    /\ ConfigInit /\ IF part = "config" /\ knobs = NoKnobs
                     THEN \/ configFile = 0 /\ NoLayer \in {globalFile, variables}
                          \/ globalFile = NoLayer /\ variables = NoLayer
                     ELSE /\ part # "config" => knobs = NoKnobs
                          /\ configFile = 0 /\ globalFile = NoLayer /\ variables = NoLayer
    /\ Init /\ (part # "engine" => disk = [f \in File |-> None])
    /\ ChunkInit /\ (part # "chunks" => grammar = "text")
    /\ RpcInit /\ (part \notin {"front", "calls"} => transport = "http" /\ saved)

MCNext ==
    /\ \/ part = "catalog" /\ ToolNext
       \/ part = "runs" /\ RunNext
       \/ part = "pool" /\ PoolNext
       \/ part = "config" /\ ConfigNext
       \/ part = "engine" /\ Next
       \/ part = "chunks" /\ ChunkNext
       \/ part = "front" /\ RpcNext(MCScript)
       \/ part = "calls" /\ RpcNext(MCOffers)
    /\ UNCHANGED part /\ OtherParts(part)

MCSpec == MCInit /\ [][MCNext]_<<part, toolVars, runVars, poolVars, configVars, vars, chunkVars, rpcVars>>

-----------------------------------------------------------------------------
(* The variables of every service hold what the code can put there.         *)
ServicesTypeOK == ToolTypeOK /\ RunTypeOK /\ PoolTypeOK /\ ConfigTypeOK /\ ChunkTypeOK /\ RpcTypeOK
=============================================================================
