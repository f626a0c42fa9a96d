--------------------------- MODULE MCProjectMemory ---------------------------
(* Instance of ProjectMemory for TLC: two interchangeable handlers and two  *)
(* transcripts are enough for every race of a reader with an ingest and of  *)
(* two ingests of the same or of different transcripts.                     *)
EXTENDS ProjectMemory, TLC

CONSTANTS h1, h2, c1, c2

Handlers == {h1, h2}
Conversations == {c1, c2}
NoConversation == {}
NestedConversation == {c1}

(* stdio clients that ingest conversations, with a failing backend *)
Stdio == [sequential |-> TRUE, requests |-> {"search", "wake_up", "ingest"},
          faults |-> {"build", "backend", "store"}, store |-> "sqlite"]
StdioRedis == [Stdio EXCEPT !.store = "redis"]

(* concurrent clients of a broker whose backend and local models are sound *)
Http == [sequential |-> FALSE, requests |-> RequestKinds,
         faults |-> {"restart", "build", "store"}, store |-> "postgres"]

(* concurrent clients and every fault *)
Hostile == [sequential |-> FALSE, requests |-> RequestKinds, faults |-> FaultKinds,
            store |-> "redis"]

AllDeployments == {Stdio, StdioRedis, Http, Hostile}

(* stdio and restarts, nothing else goes wrong *)
Restarting == {[sequential |-> TRUE, requests |-> RequestKinds, faults |-> {"restart"},
                store |-> "sqlite"]}

HandlerSymmetry == Permutations(Handler)
=============================================================================
