----------------------------- MODULE Navigation -----------------------------
(***************************************************************************)
(* The memory palace as a graph: drawers, closets and rooms with a parent, *)
(* and tunnels between any two of them, kept in a state store.  Nodes are  *)
(* upserted by clients and by the ingest of a conversation, never deleted; *)
(* brokers of one project share the store and run their statements in any  *)
(* order.  A list is read in pages, by offset, while others write; a       *)
(* traverse is a breadth-first search with a depth and a cap on its nodes. *)
(***************************************************************************)
EXTENDS Integers, FiniteSets, Sequences, SequencesExt, Listings

CONSTANTS
    Ids,        \* node ids: 1 .. n, ordered as the ids are; 1, 2 and 3 are
                \* the drawer, the closet and the room of a palace
    NodeLabels,     \* labels, ordered
    Brokers,
    MaxWrites,  \* bound on the requests that write
    PageLimit,  \* NAVIGATION_NODES_DEFAULT
    MinPageWindow,  \* Redis reads at least this many ids for a page (50)
    PageWindowFactor, \* ... and this many for each node it looks for (3)
    MaxTraverse,  \* MAX_TRAVERSE_NODES
    TunnelLimit,  \* NAVIGATION_TUNNELS_MAX
    NoNode

ASSUME NavigationAssumption ==
    /\ {1, 2, 3} \subseteq Ids /\ Ids \subseteq Nat \ {0} /\ IsFiniteSet(Ids) /\ NodeLabels \subseteq Nat
    /\ {MaxWrites, PageLimit, MinPageWindow, PageWindowFactor, MaxTraverse, TunnelLimit} \subseteq Nat \ {0}

NodeKinds == {"closet", "drawer", "room"}
KindRank == [closet |-> 1, drawer |-> 2, room |-> 3]   \* as text
Node == [id: Ids, kind: NodeKinds, label: NodeLabels, parent: Ids \union {0}, at: 1 .. MaxWrites]
ASSUME NoNodeAssumption == NoNode \notin Node
Pair == {p \in Ids \X Ids : p[1] < p[2]}

VARIABLES
    navStore,  \* "sqlite", "postgres" or "redis"
    nodes,     \* the nodes by id
    recent,    \* Redis: the time of each id in nav_idx, 0 when it is not there
    tunnels,   \* tunnels: pairs of ids
    ends,      \* Redis: tunnelidx, the tunnels known at each id
    audit,     \* the length of the audit log
    nav,       \* what each broker is doing
    writes,    \* write requests so far
    rekinded,  \* history: ids whose kind has changed
    linked,    \* history: acknowledged tunnels
    walk       \* a client that reads a list page by page

navVars == <<navStore, nodes, recent, tunnels, ends, audit, nav, writes, rekinded, linked, walk>>
Untouched == <<navStore, walk>>

Free == [phase |-> "free", todo |-> <<>>]
NoWalk == [phase |-> "none"]

NavTypeOK ==
    /\ navStore \in {"sqlite", "postgres", "redis"}
    /\ nodes \in [Ids -> Node \union {NoNode}] /\ recent \in [Ids -> 0 .. MaxWrites]
    /\ tunnels \subseteq Pair /\ ends \in [Ids -> SUBSET Pair]
    /\ audit \in 0 .. MaxWrites /\ writes \in 0 .. MaxWrites
    /\ \A b \in Brokers : nav[b].phase \in {"free", "node", "sync", "tunnel"}
    /\ rekinded \subseteq Ids /\ linked \subseteq Pair
    /\ walk.phase \in {"none", "walking", "done"}

NavInit ==
    /\ navStore \in {"sqlite", "postgres", "redis"}
    /\ nodes = [i \in Ids |-> NoNode] /\ recent = [i \in Ids |-> 0]
    /\ tunnels = {} /\ ends = [i \in Ids |-> {}] /\ audit = 0
    /\ nav = [b \in Brokers |-> Free] /\ writes = 0
    /\ rekinded = {} /\ linked = {} /\ walk = NoWalk

Present == {i \in Ids : nodes[i] # NoNode}
Kept == {nodes[i] : i \in Present}
Parented(n, i) == n.parent = i

-----------------------------------------------------------------------------
(* Pages.  Page::from_peek: one row more than the limit tells that there is *)
(* another page.                                                            *)
MutFromPeek(items, offset) ==   \* skips the row it peeked at
    [items |-> First(PageLimit, items), more |-> Len(items) > PageLimit, next |-> offset + PageLimit + 1]
FromPeek(items, offset) ==
    [items |-> First(PageLimit, items), more |-> Len(items) > PageLimit, next |-> offset + PageLimit]

FetchLimit == PageLimit + 1
Slice(s, offset, n) == SubSeq(s, offset + 1, IF offset + n < Len(s) THEN offset + n ELSE Len(s))

(* ORDER BY kind, label, node_id, over the rows that the filters select.    *)
Before(m, n) ==
    \/ KindRank[m.kind] < KindRank[n.kind]
    \/ m.kind = n.kind /\ (m.label < n.label \/ (m.label = n.label /\ m.id < n.id))
SqliteNodesPaged(wanted, offset) == FromPeek(Slice(InOrder(wanted, Before), offset, FetchLimit), offset)
PostgresNodesPaged(wanted, offset) == FromPeek(Slice(InOrder(wanted, Before), offset, FetchLimit), offset)

(* ZREVRANGE from the offset over all the nodes, a window of them, then the *)
(* filters; the next page starts PageLimit ids later.                       *)
Later(i, j) == recent[i] > recent[j] \/ (recent[i] = recent[j] /\ i > j)
RawWindow == IF FetchLimit * PageWindowFactor > MinPageWindow THEN FetchLimit * PageWindowFactor ELSE MinPageWindow
RedisNodesPaged(wanted, offset) ==
    LET ids == Slice(InOrder({i \in Ids : recent[i] # 0}, Later), offset, RawWindow)
        rows == [k \in DOMAIN ids |-> nodes[ids[k]]]
    IN FromPeek(Slice(Among(rows, wanted), 0, FetchLimit), offset)

NodesPaged(wanted, offset) ==
    CASE navStore = "sqlite" -> SqliteNodesPaged(wanted, offset)
      [] navStore = "postgres" -> PostgresNodesPaged(wanted, offset)
      [] navStore = "redis" -> RedisNodesPaged(wanted, offset)

(* The audit log, newest first: ORDER BY id DESC, or XREVRANGE of the first *)
(* offset + limit + 1 events and a skip.                                    *)
NewestNodes(n) == [k \in 1 .. n |-> audit + 1 - k]
SqliteAuditPaged(offset) == FromPeek(Slice(NewestNodes(audit), offset, FetchLimit), offset)
PostgresAuditPaged(offset) == FromPeek(Slice(NewestNodes(audit), offset, FetchLimit), offset)
RedisAuditPaged(offset) ==
    LET count == IF offset + FetchLimit < audit THEN offset + FetchLimit ELSE audit
    IN FromPeek(Slice(NewestNodes(count), offset, FetchLimit), offset)
AuditPaged(offset) ==
    [sqlite |-> SqliteAuditPaged(offset), postgres |-> PostgresAuditPaged(offset),
     redis |-> RedisAuditPaged(offset)][navStore]

(* The answers to a query that selects the tunnels ts: all of them, or any  *)
(* TunnelLimit of them.  Which ones there are then depends on the order of  *)
(* the ends and the chunks of 400 nodes of SQL, on the order of the sets of *)
(* Redis; nothing tells that there are more.                                *)
Limited(ts) ==
    {some \in SUBSET ts : IF Cardinality(ts) <= TunnelLimit THEN some = ts ELSE Cardinality(some) = TunnelLimit}

(* Tunnels at any of the given nodes.                                       *)
TunnelsAt(ids) == {t \in tunnels : t[1] \in ids \/ t[2] \in ids}
SqliteTunnelsFor(ids) == Limited(TunnelsAt(ids))
PostgresTunnelsFor(ids) == Limited(TunnelsAt(ids))
RedisTunnelsFor(ids) == Limited((UNION {ends[i] : i \in ids}) \cap tunnels)
TunnelsFor(ids) == [sqlite |-> SqliteTunnelsFor(ids), postgres |-> PostgresTunnelsFor(ids),
                    redis |-> RedisTunnelsFor(ids)][navStore]

(* The first page of the tunnels of one node, or of all of them (0); Redis  *)
(* has no index of all.  The cursor of the page is dropped.                 *)
SqliteTunnelsPaged(i) == Limited(IF i = 0 THEN tunnels ELSE TunnelsAt({i}))
PostgresTunnelsPaged(i) == Limited(IF i = 0 THEN tunnels ELSE TunnelsAt({i}))
RedisTunnelsPaged(i) == Limited(IF i = 0 THEN {} ELSE ends[i] \cap tunnels)
TunnelsPaged(i) == [sqlite |-> SqliteTunnelsPaged(i), postgres |-> PostgresTunnelsPaged(i),
                    redis |-> RedisTunnelsPaged(i)][navStore]

-----------------------------------------------------------------------------
(* Writes: a record of what changes, one statement each.                    *)
PutNode(n) == [does |-> "node", node |-> n]
Recent(n) == [does |-> "recent", node |-> n]
PutTunnel(t) == [does |-> "tunnel", tunnel |-> t]
AddEnd(i, t) == [does |-> "end", at |-> i, tunnel |-> t]
RecordAudit == [does |-> "audit"]

SqliteUpsertNode(n) == <<PutNode(n)>>
PostgresUpsertNode(n) == <<PutNode(n)>>
RedisUpsertNode(n) == <<PutNode(n), Recent(n)>>
UpsertNode(n) == [sqlite |-> SqliteUpsertNode(n), postgres |-> PostgresUpsertNode(n),
                  redis |-> RedisUpsertNode(n)][navStore]
SqliteUpsertTunnel(t) == <<PutTunnel(t)>>
PostgresUpsertTunnel(t) == <<PutTunnel(t)>>
RedisUpsertTunnel(t) == <<PutTunnel(t), AddEnd(t[1], t), AddEnd(t[2], t)>>
UpsertTunnel(t) == [sqlite |-> SqliteUpsertTunnel(t), postgres |-> PostgresUpsertTunnel(t),
                    redis |-> RedisUpsertTunnel(t)][navStore]

MutParentAllowed(kind, parent) ==   \* closets may be nested
    CASE kind = "drawer" -> parent = NoNode
      [] OTHER -> parent # NoNode /\ parent.kind \in {"drawer", "closet"}

(* validate_navigation_parent.                                              *)
ParentAllowed(kind, parent) ==
    CASE kind = "drawer" -> parent = NoNode
      [] kind = "closet" -> parent # NoNode /\ parent.kind = "drawer"
      [] kind = "room"   -> parent # NoNode /\ parent.kind \in {"drawer", "closet"}

Start(b, phase, todo) ==
    /\ nav[b] = Free /\ writes < MaxWrites
    /\ writes' = writes + 1
    /\ nav' = [nav EXCEPT ![b] = [phase |-> phase, todo |-> todo]]
    /\ UNCHANGED <<Untouched, nodes, recent, tunnels, ends, audit, rekinded, linked>>

NewNode(i, kind, label, parent) ==
    [id |-> i, kind |-> kind, label |-> label, parent |-> parent, at |-> writes + 1]

(* memory_navigation_upsert_node: the parent is read and judged, then the   *)
(* node is written and the audit log.                                       *)
UpsertNodeRequest(b, i, kind, label, parent) ==
    /\ parent # 0 => nodes[parent] # NoNode
    /\ ParentAllowed(kind, IF parent = 0 THEN NoNode ELSE nodes[parent])
    /\ Start(b, "node", Append(UpsertNode(NewNode(i, kind, label, parent)), RecordAudit))

(* sync_navigation_nodes_from_palace_metadata: parents first.               *)
SyncNodes(b, label, hall, room) ==
    Start(b, "sync",
        UpsertNode(NewNode(1, "drawer", label, 0))
        \o (IF hall THEN UpsertNode(NewNode(2, "closet", label, 1)) ELSE <<>>)
        \o (IF room THEN UpsertNode(NewNode(3, "room", label, IF hall THEN 2 ELSE 1)) ELSE <<>>))

(* memory_navigation_link_tunnel: the ends are sorted, differ and exist.    *)
LinkTunnel(b, i, j) ==
    /\ i # j /\ {i, j} \subseteq Present
    /\ Start(b, "tunnel", UpsertTunnel(IF i < j THEN <<i, j>> ELSE <<j, i>>))

(* The write moves a node within the order of a list: it changes what SQL   *)
(* sorts by, or sets the time in nav_idx back, as the late write of a       *)
(* request that began before another one does.                              *)
Moves(w) ==
    IF navStore = "redis" THEN w.does = "recent" /\ recent[w.node.id] > w.node.at
    ELSE /\ w.does = "node" /\ nodes[w.node.id] # NoNode
         /\ nodes[w.node.id].kind # w.node.kind \/ nodes[w.node.id].label # w.node.label

ExecuteWrite(b) ==
    /\ nav[b].todo # <<>>
    /\ LET w == Head(nav[b].todo) IN
       /\ nodes' = IF w.does = "node" THEN [nodes EXCEPT ![w.node.id] = w.node] ELSE nodes
       /\ recent' = IF w.does = "recent" THEN [recent EXCEPT ![w.node.id] = w.node.at] ELSE recent
       /\ tunnels' = IF w.does = "tunnel" THEN tunnels \union {w.tunnel} ELSE tunnels
       /\ ends' = IF w.does = "end" THEN [ends EXCEPT ![w.at] = @ \union {w.tunnel}] ELSE ends
       /\ audit' = IF w.does = "audit" THEN audit + 1 ELSE audit
       /\ rekinded' = IF w.does = "node" /\ nodes[w.node.id] # NoNode /\ nodes[w.node.id].kind # w.node.kind
                        THEN rekinded \union {w.node.id} ELSE rekinded
       /\ walk' = IF walk.phase # "walking" \/ w.does \notin {"node", "recent"} THEN walk
                  ELSE [walk EXCEPT !.touched = @ \union {w.node.id},
                                    !.moved = @ \/ Moves(w)]
       /\ linked' = IF Len(nav[b].todo) = 1 /\ nav[b].phase = "tunnel" THEN linked \union {w.tunnel} ELSE linked
    /\ nav' = IF Len(nav[b].todo) = 1 THEN [nav EXCEPT ![b] = Free] ELSE [nav EXCEPT ![b].todo = Tail(@)]
    /\ UNCHANGED <<navStore, writes>>

(* A statement fails, or the broker stops.                                  *)
WriteFails(b) ==
    /\ nav[b] # Free
    /\ nav' = [nav EXCEPT ![b] = Free]
    /\ UNCHANGED <<Untouched, nodes, recent, tunnels, ends, audit, writes, rekinded, linked>>

-----------------------------------------------------------------------------
(* A client reads a list to its end: memory_navigation_list with the next   *)
(* cursor of each answer, for all the nodes or one kind of them, or the     *)
(* audit log.                                                               *)
Lists == NodeKinds \union {"nodes", "audit"}
Wants(list, n) == list = "nodes" \/ n.kind = list
PageRows(list) ==
    IF list = "audit" THEN 1 .. audit
    ELSE {i \in Present : Wants(list, nodes[i]) /\ (navStore = "redis" => recent[i] # 0)}

BeginWalk(list) ==
    /\ walk.phase = "none" /\ PageRows(list) # {}
    /\ walk' = [phase |-> "walking", list |-> list, offset |-> 0, got |-> {}, old |-> PageRows(list),
                touched |-> {}, moved |-> FALSE, linked |-> linked, shown |-> {}, cut |-> FALSE]
    /\ UNCHANGED <<navStore, nodes, recent, tunnels, ends, audit, nav, writes, rekinded, linked>>

(* memory_navigation_list: a page of nodes and the tunnels of the project,  *)
(* or of the nodes on the page when there is a filter.                      *)
NextPage ==
    /\ walk.phase = "walking"
    /\ LET page == IF walk.list = "audit" THEN AuditPaged(walk.offset)
                   ELSE NodesPaged({n \in Kept : Wants(walk.list, n)}, walk.offset)
           items == IF walk.list = "audit" THEN ToSet(page.items) ELSE {n.id : n \in ToSet(page.items)}
           asked == IF walk.list = "audit" THEN {} ELSE IF walk.list = "nodes" THEN Ids ELSE items
       IN \E told \in (CASE walk.list = "audit" -> {{}}
                          [] walk.list = "nodes" -> TunnelsPaged(0)
                          [] OTHER -> TunnelsFor(items)) :
            walk' = [walk EXCEPT !.phase = IF page.more THEN "walking" ELSE "done",
                                 !.offset = page.next, !.got = @ \union items,
                                 !.shown = @ \union told,
                                 !.cut = @ \/ Cardinality(TunnelsAt(asked)) > TunnelLimit]
    /\ UNCHANGED <<navStore, nodes, recent, tunnels, ends, audit, nav, writes, rekinded, linked>>

Writing(b) ==
    \/ \E i \in Ids, k \in NodeKinds, l \in NodeLabels, p \in Ids \union {0} : UpsertNodeRequest(b, i, k, l, p)
    \/ \E l \in NodeLabels, hall, room \in BOOLEAN : SyncNodes(b, l, hall, room)
    \/ \E i, j \in Ids : LinkTunnel(b, i, j)
    \/ ExecuteWrite(b)
    \/ WriteFails(b)
Reading == NextPage \/ \E list \in Lists : BeginWalk(list)

NavNext == Reading \/ \E b \in Brokers : Writing(b)

NavSpec == NavInit /\ [][NavNext]_navVars

-----------------------------------------------------------------------------
(* The pages of the children of a node, put together.                       *)
ChildPages(i) ==
    LET from[o \in Nat] ==
            LET page == NodesPaged({n \in Kept : Parented(n, i)}, o)
            IN IF page.more THEN page.items \o from[page.next] ELSE page.items
    IN from[0]

(* One turn of the loop of memory_navigation_traverse: the parent, then the *)
(* children that have not been visited, join the queue.                     *)
Visit(s, max_depth) ==
    IF s.queue = <<>> \/ s.stopped THEN s
    ELSE LET i == Head(s.queue)[1]
             depth == Head(s.queue)[2]
             rest == Tail(s.queue)
             ordered == Append(s.ordered, i)
             near == {nodes[i].parent} \union {n.id : n \in ToSet(ChildPages(i))}
             found == {j \in near \cap Present : j \notin s.visited}
             added == SetToSeq(found \X {depth + 1})
         IN IF Len(ordered) >= MaxTraverse
              THEN [s EXCEPT !.queue = rest, !.ordered = ordered, !.stopped = TRUE, !.truncated = rest # <<>>]
            ELSE IF depth >= max_depth THEN [s EXCEPT !.queue = rest, !.ordered = ordered]
            ELSE [s EXCEPT !.queue = rest \o added, !.ordered = ordered, !.visited = @ \union found]

MutTraverse(start, max_depth) ==   \* the last level is not expanded
    FoldLeft(LAMBDA s, k : Visit(s, max_depth - 1),
             [queue |-> <<<<start, 0>>>>, ordered |-> <<>>, visited |-> {start}, stopped |-> FALSE, truncated |-> FALSE],
             [k \in Ids |-> k])
Traverse(start, max_depth) ==
    FoldLeft(LAMBDA s, k : Visit(s, max_depth),
             [queue |-> <<<<start, 0>>>>, ordered |-> <<>>, visited |-> {start}, stopped |-> FALSE, truncated |-> FALSE],
             [k \in Ids |-> k])
TraverseTunnels(s) ==
    {{t \in some : t[1] \in s.visited /\ t[2] \in s.visited} : some \in TunnelsFor(s.visited)}

(* What a traverse should find: the nodes at most d edges away.             *)
Near(start, d) ==
    LET near[k \in 0 .. d] ==
          IF k = 0 THEN {start}
          ELSE near[k - 1] \union
               {i \in Present : \E j \in near[k - 1] : nodes[i].parent = j \/ nodes[j].parent = i}
    IN near[d]

(* A traverse that stays below its cap finds every node within its depth,   *)
(* once; at the cap it says truncated or not, but never returns more.  It   *)
(* shows every tunnel between them that a client was told of, unless there  *)
(* are more tunnels at them than NAVIGATION_TUNNELS_MAX, of which it says   *)
(* nothing.  On Redis a child is found through nav_idx, so all must be      *)
(* there and fit the window.                                                *)
TraverseIsComplete ==
    (navStore # "redis" \/ (Cardinality(Present) <= RawWindow /\ \A i \in Present : recent[i] # 0))
    => \A start \in Present, d \in 0 .. 2 :
         LET s == Traverse(start, d) IN
         /\ Len(s.ordered) <= MaxTraverse
         /\ Cardinality(ToSet(s.ordered)) = Len(s.ordered)
         /\ Len(s.ordered) < MaxTraverse =>
               /\ ToSet(s.ordered) = Near(start, d) /\ ~s.truncated
               /\ Cardinality(TunnelsAt(Near(start, d))) <= TunnelLimit =>
                     \A shown \in TraverseTunnels(s) :
                        {t \in linked : {t[1], t[2]} \subseteq Near(start, d)} \subseteq shown

(* A closet is in a drawer and a room in a drawer or a closet, although the *)
(* parent is judged before the node is written and brokers overlap: the     *)
(* only way out is a parent that has itself been written again under        *)
(* another kind, whose children nothing looks at.                           *)
ParentsAreTyped ==
    \A i \in Present :
        LET n == nodes[i] IN
        \/ n.kind = "drawer" /\ n.parent = 0
        \/ /\ n.kind # "drawer" /\ n.parent \in Present
           /\ \/ nodes[n.parent].kind = "drawer"
              \/ nodes[n.parent].kind = "closet" /\ n.kind = "room"
              \/ n.parent \in rekinded

(* A client that follows the cursors to the end has seen all that was there *)
(* when it began and was left alone, whatever was inserted meanwhile: rows  *)
(* may repeat, none is skipped.  No other row may have been moved within    *)
(* the order either, and on Redis the list must be unfiltered or fit the    *)
(* window.  And it has seen the tunnels there were at the nodes it has      *)
(* seen, unless there were more than NAVIGATION_TUNNELS_MAX for a page, or  *)
(* it was the unfiltered list of Redis, which shows no tunnel.              *)
WalkSkipsNothing ==
    walk.phase = "done" =>
     /\ \/ walk.list = "audit" \/ (walk.list = "nodes" /\ navStore = "redis") \/ walk.cut
        \/ {t \in walk.linked : {t[1], t[2]} \intersect walk.got # {}} \subseteq walk.shown
     /\ \/ walk.old \ (IF walk.list = "audit" THEN {} ELSE walk.touched) \subseteq walk.got
        \/ walk.list # "audit" /\ walk.moved
        \/ walk.list \in NodeKinds /\ navStore = "redis" /\ Cardinality(Present) > RawWindow
=============================================================================
