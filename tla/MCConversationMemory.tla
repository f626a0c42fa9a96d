------------------------ MODULE MCConversationMemory ------------------------
(***************************************************************************)
(* The conversation memory in one run: the conversations of ProjectMemory, *)
(* and the palace of Navigation in three parts, because what pages skip,   *)
(* what a traverse finds and what a page shows of many tunnels do not      *)
(* depend on each other.  The parts share no state; a behaviour belongs to *)
(* one of them.                                                            *)
(***************************************************************************)
EXTENDS MCProjectMemory, Navigation

VARIABLE part

(* A broker that writes drawers, closets in the first and tunnels between  *)
(* the first two nodes; and one that writes a whole palace and two tunnels,*)
(* one more than a page shows.                                             *)
WritingNodes(b) ==
    \/ \E i \in Ids, k \in {"drawer", "closet"}, l \in NodeLabels, p \in {0, 1} : UpsertNodeRequest(b, i, k, l, p)
    \/ LinkTunnel(b, 1, 2)
    \/ ExecuteWrite(b)
    \/ WriteFails(b)
WritingTunnels(b) ==
    \/ SyncNodes(b, 1, TRUE, TRUE)
    \/ \E i \in {2, 3} : LinkTunnel(b, 1, i)
    \/ ExecuteWrite(b)
    \/ WriteFails(b)

(* The bound on requests lets the palace come to rest.                     *)
AtRest == writes = MaxWrites /\ UNCHANGED navVars

MCInit ==
    /\ part \in {"conversations", "graph", "pages", "tunnels"}
    /\ Init /\ (part # "conversations" => env = Stdio)
    /\ NavInit /\ (part = "conversations" => navStore = "sqlite")

MCNext ==
    /\ \/ part = "conversations" /\ Next /\ UNCHANGED navVars
       \/ part = "graph" /\ (AtRest \/ \E b \in Brokers : Writing(b)) /\ UNCHANGED vars
       \/ part = "pages" /\ (AtRest \/ Reading \/ \E b \in Brokers : WritingNodes(b)) /\ UNCHANGED vars
       \/ part = "tunnels" /\ (AtRest \/ Reading \/ \E b \in Brokers : WritingTunnels(b)) /\ UNCHANGED vars
    /\ UNCHANGED part

MCSpec == MCInit /\ [][MCNext]_<<part, vars, navVars>>
=============================================================================
