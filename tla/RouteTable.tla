----------------------------- MODULE RouteTable -----------------------------
(***************************************************************************)
(* The route table of a node, RouteTable in peers/peer_ospf_route.rs with  *)
(* dijkstra_with_first_hop of peers/graph_algo.rs: which neighbour to send *)
(* through for every peer, and which peer owns an address.                 *)
(*                                                                         *)
(* Every task that changes the synced info increments its version and then *)
(* rebuilds the table (update_route_table).  Rebuilding takes no lock on   *)
(* the table: concurrent builds are told apart by the version they read.   *)
(* Only the cost calculator's lock orders them: begin_update and           *)
(* end_update take it for writing, the build holds it for reading.         *)
(*                                                                         *)
(* The IPv4, IPv6 and proxy CIDR maps are filled by the same code; one map *)
(* from addresses to peers stands for the three.  A RoutePeerInfo is the   *)
(* addresses and the avoid_relay_data flag in it.                          *)
(***************************************************************************)
EXTENDS Naturals, FiniteSets, FiniteSetsExt

CONSTANTS
    Peer, Me,       \* peer ids, and my_peer_id
    Addr,
    Task,           \* the tasks that update the synced info
    Cost,           \* Cost[p][q]: calculate_cost
    AvoidCost,      \* AVOID_RELAY_COST
    Scenarios,      \* synced infos to start with, and bounds: how often the
                    \* synced info changes and the table is cleaned
    Updates         \* what a task may change in the synced info

Info == [addrs : SUBSET Addr, avoid : BOOLEAN]

\* SyncedRouteInfo: the peers whose info has arrived, infos and conn_map.
Synced == [nodes : SUBSET Peer, info : [Peer -> Info], row : [Peer -> SUBSET Peer]]

ASSUME RouteTableAssumption ==
    /\ Peer \subseteq Nat /\ Me \in Peer
    /\ Cost \in [Peer -> [Peer -> 1 .. AvoidCost - 1]]
    /\ \A s \in Scenarios : s.start \in Synced /\ Me \in s.start.nodes
                           /\ s.writes \in Nat /\ s.cleans \in Nat
    /\ Updates \subseteq [peer : Peer, row : SUBSET Peer] \cup [peer : Peer, info : Info]

Policy == {"LeastHop", "LeastCost"}

Label == {"idle", "inc", "begin", "build", "rows", "insert", "fill", "end"}

VARIABLES
    policy,    \* which of the two tables of the service this is
    data,      \* synced_route_info
    version,   \* its version
    pc,        \* pc[t]: where task t is
    ver,       \* ver[t]: the version its build has read
    graph,     \* graph[t]: the graph it has read so far
    found,     \* found[t]: the next hops it has computed
    todo,      \* todo[t]: the peers its current loop has still to visit
    readers,   \* the tasks that hold the cost calculator's lock for reading
    hops,      \* next_hop_map, a function on the peers that have an entry
    current,   \* next_hop_map_version
    infos,     \* peer_infos, a function
    owner,     \* ipv4_peer_id_map, a function
    cleaning,  \* where the task in clear_expired_peer is
    left,      \* what is left of the bounds
    always,    \* history: peers reachable in every synced info so far
    torn       \* history: a graph was read while the synced info changed

synced == <<data, version, always, torn>>
table  == <<hops, current, infos, owner>>
tasks  == <<pc, ver, graph, found, todo, readers>>
vars   == <<policy, synced, table, tasks, cleaning, left>>

-----------------------------------------------------------------------------
\* build_peer_graph_from_synced_info: all outgoing edges of a peer that
\* avoids relaying are expensive.
NoGraph == [nodes |-> {}, edges |-> {}, weight |-> [e \in {} |-> 0]]
NoHops == [p \in {} |-> 0]

Edges(s, p) == {<<p, q>> : q \in s.row[p] \cap s.nodes}

Weight(s, e) == Cost[e[1]][e[2]] + (IF s.info[e[1]].avoid THEN AvoidCost ELSE 0)

Sub(g, E) == [nodes |-> g.nodes, edges |-> E, weight |-> [e \in E |-> g.weight[e]]]

(* One round of dijkstra_with_first_hop: the node with the least score is  *)
(* visited, and its neighbours inherit its first hop or become one.        *)
Visit(g, start, s, node) ==
    LET next_score(x) == s.score[node] + g.weight[<<node, x>>]
        better == {x \in g.nodes \ s.visited :
                      /\ <<node, x>> \in g.edges
                      /\ x \in DOMAIN s.score => next_score(x) < s.score[x]}
        hop(x) == IF node = start THEN [hop |-> x, len |-> 0] ELSE s.first[node]
    IN  [visited |-> s.visited \cup {node},
         score |-> [x \in DOMAIN s.score \cup better |->
                      IF x \in better THEN next_score(x) ELSE s.score[x]],
         first |-> [x \in DOMAIN s.first \cup better |->
                      IF x \in better
                      THEN [hop |-> hop(x).hop, len |-> hop(x).len + 1]
                      ELSE s.first[x]]]

(* Ties between equal scores are broken by CHOOSE, in the code by the heap.*)
Nearest(s) ==
    LET open == DOMAIN s.score \ s.visited
    IN  CHOOSE x \in open : \A y \in open : s.score[x] <= s.score[y]

DijkstraWithFirstHop(g, start) ==
    LET run[i \in 0 .. Cardinality(g.nodes)] ==
            IF i = 0
            THEN [visited |-> {}, score |-> [x \in {start} |-> 0],
                  first |-> [x \in {start} |-> [hop |-> start, len |-> 0]]]
            ELSE LET s == run[i - 1]
                 IN  IF DOMAIN s.score = s.visited THEN s
                     ELSE Visit(g, start, s, Nearest(s))
    IN  run[Cardinality(g.nodes)]

(* Mutant: a relay that is to be avoided counts as one hop, like any other. *)
NormalizedAlike(w) == 1

(* normalize_edge_cost                                                     *)
Normalized(w) == IF w >= AvoidCost THEN AvoidCost + 1 ELSE 1

(* gen_next_hop_map_with_least_hop: only the edges on paths with the least *)
(* number of hops remain for the search of the least cost.                 *)
LeastHopGraph(g) ==
    LET len == DijkstraWithFirstHop(
                  [g EXCEPT !.weight = [e \in g.edges |-> Normalized(g.weight[e])]],
                  Me).score
    IN  Sub(g, {e \in g.edges : /\ e[1] \in DOMAIN len /\ e[2] \in DOMAIN len
                                /\ len[e[1]] + Normalized(g.weight[e]) = len[e[2]]})

(* gen_next_hop_map_with_least_cost: the entries for the reached peers.    *)
NextHops(g, v) ==
    LET res == DijkstraWithFirstHop(IF policy = "LeastHop" THEN LeastHopGraph(g) ELSE g, Me)
    IN  [p \in DOMAIN res.first |->
            [hop |-> res.first[p].hop, len |-> res.first[p].len,
             lat |-> res.score[p] % AvoidCost, ver |-> v]]

GraphOf(s) ==
    LET E == UNION {Edges(s, p) : p \in s.nodes}
    IN  [nodes |-> s.nodes, edges |-> E, weight |-> [e \in E |-> Weight(s, e)]]

Put(f, k, v) == [x \in DOMAIN f \cup {k} |-> IF x = k THEN v ELSE f[x]]
Keep(f, S) == [x \in DOMAIN f \cap S |-> f[x]]

(* RouteTable::get_next_hop finds an entry.                                *)
Routed(p) == p \in DOMAIN hops /\ hops[p].ver >= current

(* get_peer_id_by_ipv4 and get_peer_id_by_ipv6: the peers found, at most   *)
(* one; whether there is a route to it is not looked at.                   *)
PeerIdByAddr(a) == IF a \in DOMAIN owner THEN {owner[a].peer} ELSE {}

-----------------------------------------------------------------------------
(* The reference: paths as sequences of distinct peers.                    *)
Paths(g, p) ==
    {s \in UNION {[1 .. n -> g.nodes] : n \in 1 .. Cardinality(g.nodes)} :
        /\ s[1] = Me /\ s[Cardinality(DOMAIN s)] = p
        /\ Cardinality({s[i] : i \in DOMAIN s}) = Cardinality(DOMAIN s)
        /\ \A i \in DOMAIN s \ {1} : <<s[i - 1], s[i]>> \in g.edges}

Sum(g, w(_), s) ==
    MapThenSumSet(LAMBDA i : w(g.weight[<<s[i - 1], s[i]>>]), DOMAIN s \ {1})

Plain(w) == w
Hops(w) == IF w > AvoidCost THEN AvoidCost + 1 ELSE 1

(* The paths the policy wants: the cheapest ones, for LeastHop among those *)
(* with the fewest hops and avoided relays.                                *)
Cheapest(g, w(_), S) == {s \in S : \A r \in S : Sum(g, w, s) <= Sum(g, w, r)}

BestPaths(g, p) ==
    Cheapest(g, Plain, IF policy = "LeastHop" THEN Cheapest(g, Hops, Paths(g, p))
                       ELSE Paths(g, p))

Reached(s) == {p \in s.nodes : Paths(GraphOf(s), p) # {}}
-----------------------------------------------------------------------------
(* The claimants of an address, and the best of them: the closest peer.    *)
Claimants(s, a, S) == {p \in S : a \in s.info[p].addrs}

Closest(S, h) == {p \in S : \A q \in S : h[p].len <= h[q].len}

(* The table was built for the initial synced info.                        *)
Start(pol, s) ==
    /\ policy = pol /\ data = s.start
    /\ left = [writes |-> s.writes, cleans |-> s.cleans]
    /\ version = 1 /\ current = 1
    /\ hops = NextHops(GraphOf(data), 1)
    /\ infos = [p \in DOMAIN hops |-> data.info[p]]
    /\ owner = [a \in UNION {data.info[p].addrs : p \in DOMAIN hops} |->
                  [peer |-> Min(Closest(Claimants(data, a, DOMAIN hops), hops)),
                   ver |-> 1]]
    /\ pc = [t \in Task |-> "idle"] /\ ver = [t \in Task |-> 0]
    /\ graph = [t \in Task |-> NoGraph] /\ found = [t \in Task |-> NoHops]
    /\ todo = [t \in Task |-> {}] /\ readers = {}
    /\ cleaning = "idle"
    /\ always = Reached(data) /\ torn = FALSE

Init == \E pol \in Policy, s \in Scenarios : Start(pol, s)

Goto(t, l) == pc' = [pc EXCEPT ![t] = l]

Changed(s) ==
    /\ data' = s
    /\ always' = always \cap Reached(s)
    /\ torn' = (torn \/ \E t \in Task : pc[t] = "rows")
    /\ left' = [left EXCEPT !.writes = @ - 1]

(* update_conn_map, update_my_conn_info, update_peer_infos: the synced     *)
(* info changes first, its version is incremented afterwards.              *)
Write(t, u) ==
    /\ pc[t] = "idle" /\ left.writes > 0
    /\ IF "row" \in DOMAIN u
       THEN Changed([data EXCEPT !.row[u.peer] = u.row])
       ELSE Changed([data EXCEPT !.nodes = @ \cup {u.peer}, !.info[u.peer] = u.info])
    /\ Goto(t, "inc")
    /\ UNCHANGED <<policy, version, table, ver, graph, found, todo, readers, cleaning>>

Inc(t) ==
    /\ pc[t] = "inc"
    /\ version' = version + 1
    /\ Goto(t, "begin")
    /\ UNCHANGED <<policy, data, always, torn, table, ver, graph, found, todo, readers,
                   cleaning, left>>

(* clear_expired_peer: the expired peers are removed, then the table is    *)
(* cleaned.                                                                *)
ClearExpiredPeer ==
    /\ cleaning = "idle" /\ left.cleans > 0
    /\ cleaning' = "remove"
    /\ left' = [left EXCEPT !.cleans = @ - 1]
    /\ UNCHANGED <<policy, synced, table, tasks>>

(* remove_peer: the version is incremented, and the table is not rebuilt.  *)
(* The info of a peer that can reach us is refreshed long before it        *)
(* expires (UPDATE_PEER_INFO_PERIOD), so only one that is cut off does.    *)
RemovePeer(p) ==
    /\ cleaning = "remove" /\ left.writes > 0 /\ p \in data.nodes \ Reached(data)
    /\ Changed([data EXCEPT !.nodes = @ \ {p}, !.row[p] = {}])
    /\ version' = version + 1
    /\ UNCHANGED <<policy, table, tasks, cleaning>>

(* update_route_table: cost_calculator.write().begin_update()              *)
Begin(t) ==
    /\ pc[t] = "begin" /\ readers = {}
    /\ Goto(t, "build")
    /\ UNCHANGED <<policy, synced, table, ver, graph, found, todo, readers, cleaning, left>>

(* Mutant: the version is published before the entries are inserted.       *)
BuildPublished(t) ==
    /\ pc[t] = "build"
    /\ readers' = readers \cup {t}
    /\ ver' = [ver EXCEPT ![t] = version]
    /\ current' = Max({current, version})
    /\ graph' = [graph EXCEPT ![t].nodes = data.nodes]
    /\ todo' = [todo EXCEPT ![t] = data.nodes]
    /\ Goto(t, "rows")
    /\ UNCHANGED <<policy, synced, hops, infos, owner, found, cleaning, left>>

(* The read lock is taken; build_from_synced_info reads the version and    *)
(* which peers have an info.                                               *)
Build(t) ==
    /\ pc[t] = "build"
    /\ readers' = readers \cup {t}
    /\ ver' = [ver EXCEPT ![t] = version]
    /\ graph' = [graph EXCEPT ![t].nodes = data.nodes]
    /\ todo' = [todo EXCEPT ![t] = data.nodes]
    /\ Goto(t, "rows")
    /\ UNCHANGED <<policy, synced, table, found, cleaning, left>>

(* The edges of one peer are read; after the last the paths are computed.  *)
ReadRow(t, p) ==
    LET E == {e \in Edges(data, p) : e[2] \in graph[t].nodes}
        all == graph[t].edges \cup E
        g == [graph[t] EXCEPT
                !.edges = all,
                !.weight = [e \in all |-> IF e \in E THEN Weight(data, e) ELSE @[e]]]
        last == todo[t] = {p}
    IN  /\ pc[t] = "rows" /\ p \in todo[t]
        /\ graph' = [graph EXCEPT ![t] = IF last THEN NoGraph ELSE g]
        /\ found' = [found EXCEPT ![t] = IF last THEN NextHops(g, ver[t]) ELSE @]
        /\ todo' = [todo EXCEPT ![t] = IF last THEN DOMAIN found'[t] ELSE @ \ {p}]
        /\ Goto(t, IF last THEN "insert" ELSE "rows")
        /\ UNCHANGED <<policy, synced, table, ver, readers, cleaning, left>>

(* One entry is inserted, or replaces an older one.                        *)
Insert(t, p) ==
    /\ pc[t] = "insert" /\ p \in todo[t]
    /\ hops' = IF p \in DOMAIN hops /\ hops[p].ver >= ver[t] THEN hops
               ELSE Put(hops, p, found[t][p])
    /\ todo' = [todo EXCEPT ![t] = @ \ {p}]
    /\ UNCHANGED <<policy, synced, current, infos, owner, pc, ver, graph, found,
                   readers, cleaning, left>>

(* next_hop_map_version.set_if_larger(version)                             *)
Publish(t) ==
    /\ pc[t] = "insert" /\ todo[t] = {}
    /\ current' = Max({current, ver[t]})
    /\ found' = [found EXCEPT ![t] = NoHops]
    /\ todo' = [todo EXCEPT ![t] = Peer]
    /\ Goto(t, "fill")
    /\ UNCHANGED <<policy, synced, hops, infos, owner, ver, graph, readers, cleaning, left>>

(* is_new_peer_better                                                      *)
IsNewPeerBetter(v, p, old) ==
    \/ v > old.ver
    \/ old.peer # p /\ (~Routed(old.peer) \/ hops[p].len < hops[old.peer].len)

(* The body of the loop over next_hop_map, for one peer.                   *)
Fill(t, p) ==
    LET mine == {a \in data.info[p].addrs :
                    a \in DOMAIN owner => IsNewPeerBetter(ver[t], p, owner[a])}
        last == todo[t] = {p}
    IN  /\ pc[t] = "fill" /\ p \in todo[t]
        /\ IF p \in DOMAIN hops /\ hops[p].ver >= ver[t] /\ p \in data.nodes
           THEN /\ infos' = Put(infos, p, data.info[p])
                /\ owner' = [a \in DOMAIN owner \cup mine |->
                               IF a \in mine THEN [peer |-> p, ver |-> ver[t]] ELSE owner[a]]
           ELSE UNCHANGED <<infos, owner>>
        /\ todo' = [todo EXCEPT ![t] = @ \ {p}]
        /\ readers' = IF last THEN readers \ {t} ELSE readers
        /\ Goto(t, IF last THEN "end" ELSE "fill")
        /\ UNCHANGED <<policy, synced, hops, current, ver, graph, found, cleaning, left>>

(* cost_calculator.write().end_update()                                    *)
End(t) ==
    /\ pc[t] = "end" /\ readers = {}
    /\ ver' = [ver EXCEPT ![t] = 0]
    /\ Goto(t, "idle")
    /\ UNCHANGED <<policy, synced, table, graph, found, todo, readers, cleaning, left>>

(* clean_expired_route_info: first next_hop_map, then what refers to it.   *)
CleanHops ==
    /\ cleaning = "remove"
    /\ hops' = Keep(hops, {p \in DOMAIN hops : hops[p].ver >= current})
    /\ cleaning' = "maps"
    /\ UNCHANGED <<policy, synced, current, infos, owner, tasks, left>>

CleanMaps ==
    /\ cleaning = "maps"
    /\ infos' = Keep(infos, DOMAIN hops)
    /\ owner' = Keep(owner, {a \in DOMAIN owner : owner[a].peer \in DOMAIN hops})
    /\ cleaning' = "idle"
    /\ UNCHANGED <<policy, synced, hops, current, tasks, left>>

UpdateRouteTable(t) ==
    \/ Inc(t) \/ Begin(t) \/ Build(t) \/ Publish(t) \/ End(t)
    \/ \E p \in Peer : ReadRow(t, p) \/ Insert(t, p) \/ Fill(t, p)

Next ==
    \/ \E t \in Task : UpdateRouteTable(t) \/ \E u \in Updates : Write(t, u)
    \/ ClearExpiredPeer \/ (\E p \in Peer : RemovePeer(p)) \/ CleanHops \/ CleanMaps

Spec == Init /\ [][Next]_vars

-----------------------------------------------------------------------------
(* Types; the table never claims a version that the synced info has not    *)
(* reached, and its entries are at most as new.                            *)
Entry == [hop : Peer, len : Nat, lat : Nat, ver : Nat]

Versions(f) == {f[x].ver : x \in DOMAIN f}

TypeOK ==
    /\ policy \in Policy /\ data \in Synced /\ always \subseteq Peer /\ torn \in BOOLEAN
    /\ pc \in [Task -> Label] /\ readers \subseteq Task
    /\ todo \in [Task -> SUBSET Peer]
    /\ version \in Nat /\ current \in 0 .. version /\ ver \in [Task -> 0 .. version]
    /\ DOMAIN hops \subseteq Peer /\ \A p \in DOMAIN hops : hops[p] \in Entry
    /\ DOMAIN infos \subseteq Peer /\ \A p \in DOMAIN infos : infos[p] \in Info
    /\ DOMAIN owner \subseteq Addr /\ \A a \in DOMAIN owner : owner[a].peer \in Peer
    /\ Versions(hops) \cup Versions(owner) \subseteq 0 .. version
    /\ cleaning \in {"idle", "remove", "maps"}

(* Every change of the synced info has been built into the table.          *)
Rest == cleaning = "idle" /\ \A t \in Task : pc[t] = "idle"

(* The paths are best paths: whatever builds ran at the same time, a table *)
(* at rest has a route to exactly the reachable peers, over a neighbour on *)
(* a best path of the current graph, with that path's length and latency.  *)
RoutesBest ==
    Rest => LET g == GraphOf(data)
            IN  \A p \in Peer :
                  /\ Routed(p) <=> p \in Reached(data)
                  /\ Routed(p) => \E s \in BestPaths(g, p) :
                        /\ hops[p].len = Cardinality(DOMAIN s) - 1
                        /\ hops[p].hop = (IF p = Me THEN Me ELSE s[2])
                        /\ hops[p].lat = Sum(g, Plain, s) % AvoidCost

(* "only set map for peers we can reach": at rest an address that a        *)
(* reachable peer has belongs to the closest reachable peer that has it.   *)
(* A build with an older version that outlasts the newest one could give   *)
(* it to a peer that is cut off; the lock in begin_update prevents that.   *)
OwnersClosest ==
    Rest => \A a \in Addr :
        LET c == Claimants(data, a, Reached(data))
        IN  c # {} => \E p \in PeerIdByAddr(a) : p \in Closest(c, hops)

(* A table at rest answers for the synced info: best routes, and addresses *)
(* with the closest of the peers that have them.                           *)
TableSound == RoutesBest /\ OwnersClosest

(* Rebuilding causes no blackout: a peer that has been reachable all the   *)
(* time has a route all the time, as entries are inserted before their     *)
(* version is published.  A graph that was read while it changed may miss  *)
(* a path that existed before and another that existed after.              *)
NoBlackout == torn \/ \A p \in always : Routed(p)
=============================================================================
