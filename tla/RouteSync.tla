----------------------------- MODULE RouteSync -----------------------------
(***************************************************************************)
(* What the OSPF-like route synchronises (peers/peer_ospf_route.rs): the   *)
(* SyncedRouteInfo of every node, the conn bitmap it caches for sending,   *)
(* and the dst_saved_* versions by which a session decides what to send.   *)
(*                                                                         *)
(* A RoutePeerInfo is its version: a receiver stores it whole or not at    *)
(* all.  A row of conn_map is a version and the set of connected peers; in *)
(* a RouteConnBitmap it can lose members, so its content is kept.          *)
(*                                                                         *)
(* Any two linked nodes may have a session; which of them do is            *)
(* RouteSession.tla.  Handlers have no await and are one step.             *)
(***************************************************************************)
EXTENDS Integers, FiniteSets

CONSTANTS
    Peer,
    InitLink,       \* the connections that are open at first
    MaxVersion,     \* bound: version of a peer's own RoutePeerInfo
    MaxLinkChanges, \* bound: connections that open or close
    MaxTimeouts,    \* bound: sync_route_info calls that time out
    MaxDrops,       \* bound: sessions dropped and recreated
    MaxExpiries     \* bound: infos removed by clear_expired_peer

NotSaved == -1

Row == [ver : Nat, peers : SUBSET Peer]
NoRow == [ver |-> 0, peers |-> {}]

\* A RouteConnBitmap: its peer_ids, and the row of each.
Bitmap == [ids : SUBSET Peer, row : [Peer -> Row]]
NoBitmap == [ids |-> {}, row |-> [p \in Peer |-> NoRow]]

\* A SyncRouteInfoRequest; version 0 stands for an info that is not in it.
Request == [from : Peer, to : Peer, infos : [Peer -> Nat], bitmap : Bitmap]

Idle == [st |-> "idle"]
Call == {Idle} \cup [st : {"sent", "answered"}, req : Request]

VARIABLES
    link,      \* the open connections, as a set of two-peer sets
    info,      \* info[n][p]: version of p in n's peer_infos, 0 when absent
    known,     \* known[n]: the keys of n's conn_map
    rows,      \* rows[n][p]: the row of p in n's conn_map
    reach,     \* reach[n]: the peers n's route table reaches
    cache,     \* cache[n]: cached_local_conn_map
    dirty,     \* dirty[n]: synced version > cached_local_conn_map_version
    savedInfo, \* savedInfo[n][q][p]: dst_saved_peer_info_versions
    savedRow,  \* savedRow[n][q][p]: dst_saved_conn_bitmap_version
    call,      \* call[n][q]: the call the session task of n for q waits for
    late,      \* requests whose caller has given up waiting
    published, \* history: every <<p, version, row>> p has published
    budget     \* what is left of the bounds

nodeVars == <<info, known, rows, reach, cache, dirty, published>>
sessVars == <<savedInfo, savedRow, call, late>>
vars == <<link, nodeVars, sessVars, budget>>

Pair == {e \in SUBSET Peer : Cardinality(e) = 2}

TypeOK ==
    /\ link \subseteq Pair
    /\ info \in [Peer -> [Peer -> Nat]]
    /\ known \in [Peer -> SUBSET Peer]
    /\ rows \in [Peer -> [Peer -> Row]]
    /\ reach \in [Peer -> SUBSET Peer]
    /\ cache \in [Peer -> Bitmap]
    /\ dirty \in [Peer -> BOOLEAN]
    /\ savedInfo \in [Peer -> [Peer -> [Peer -> Nat]]]
    /\ savedRow \in [Peer -> [Peer -> [Peer -> Nat \cup {NotSaved}]]]
    /\ call \in [Peer -> [Peer -> Call]]
    /\ late \subseteq Request
    /\ published \subseteq Peer \X Nat \X SUBSET Peer
    /\ budget \in [links : Nat, timeouts : Nat, drops : Nat, expiries : Nat]

(* PeerRoute::start has run: the own info has version 1, the own row is    *)
(* empty, and the bitmap was cached before the row was inserted.           *)
Init ==
    /\ link = InitLink
    /\ info = [n \in Peer |-> [p \in Peer |-> IF p = n THEN 1 ELSE 0]]
    /\ known = [n \in Peer |-> {n}]
    /\ rows = [n \in Peer |-> [p \in Peer |-> NoRow]]
    /\ reach = [n \in Peer |-> {n}]
    /\ cache = [n \in Peer |-> NoBitmap]
    /\ dirty = [n \in Peer |-> FALSE]
    /\ savedInfo = [n \in Peer |-> [q \in Peer |-> [p \in Peer |-> 0]]]
    /\ savedRow = [n \in Peer |-> [q \in Peer |-> [p \in Peer |-> NotSaved]]]
    /\ call = [n \in Peer |-> [q \in Peer |-> Idle]]
    /\ late = {}
    /\ published = {}
    /\ budget = [links |-> MaxLinkChanges, timeouts |-> MaxTimeouts,
                 drops |-> MaxDrops, expiries |-> MaxExpiries]

Linked(n) == {q \in Peer : {n, q} \in link /\ q # n}

ASSUME InitLinkAssumption == InitLink \subseteq Pair
ASSUME BoundsAssumption ==
    /\ MaxVersion \in Nat /\ MaxLinkChanges \in Nat /\ MaxTimeouts \in Nat
    /\ MaxDrops \in Nat /\ MaxExpiries \in Nat

-----------------------------------------------------------------------------
(* The peers a route table built from these infos and rows reaches: nodes  *)
(* are the peers whose info has arrived, edges come from the rows.         *)
Reachable(n, inf, row) ==
    LET nodes == {p \in Peer : inf[p] > 0}
    IN  {p \in nodes : \A S \in SUBSET nodes :
            (n \in S /\ \A s \in S : row[s].peers \cap nodes \subseteq S) => p \in S}

(* Mutant: peers the own route table does not reach are left out.          *)
BuildBitmapReachable(kn, row, rch) ==
    LET ids == kn \cap rch
    IN  [ids |-> ids,
         row |-> [p \in Peer |->
                    IF p \in ids
                    THEN [ver |-> row[p].ver, peers |-> row[p].peers \cap ids]
                    ELSE NoRow]]

(* The bitmap update_route_table_and_cached_local_conn_bitmap builds.      *)
BuildBitmap(kn, row, rch) ==
    LET all_dst_peer_ids == UNION {row[p].peers : p \in kn}
        ids == {p \in kn : p \in all_dst_peer_ids \/ p \in rch}
    IN  [ids |-> ids,
         row |-> [p \in Peer |->
                    IF p \in ids
                    THEN [ver |-> row[p].ver, peers |-> row[p].peers \cap ids]
                    ELSE NoRow]]

(* A change of n's SyncedRouteInfo to the given state, followed by         *)
(* update_route_table_and_cached_local_conn_bitmap: the bitmap is replaced *)
(* only if the synced version has grown.                                   *)
Store(n, inf, kn, row) ==
    LET changed == inf # info[n] \/ kn # known[n] \/ row # rows[n] \/ dirty[n]
        rch == Reachable(n, inf, row)
    IN  /\ info' = [info EXCEPT ![n] = inf]
        /\ known' = [known EXCEPT ![n] = kn]
        /\ rows' = [rows EXCEPT ![n] = row]
        /\ reach' = [reach EXCEPT ![n] = rch]
        /\ cache' = [cache EXCEPT ![n] = IF changed THEN BuildBitmap(kn, row, rch) ELSE @]
        /\ dirty' = [dirty EXCEPT ![n] = FALSE]

(* Mutant: the own info starts again at version 1.                         *)
UpdateMyPeerInfoAnew(n) ==
    /\ info[n][n] < MaxVersion \/ info[n][n] = 2
    /\ Store(n, [info[n] EXCEPT ![n] = IF @ = 2 THEN 1 ELSE @ + 1], known[n], rows[n])
    /\ UNCHANGED <<link, published, sessVars, budget>>

(* update_my_peer_info: the own info has changed, or is 3600 s old.        *)
UpdateMyPeerInfo(n) ==
    /\ info[n][n] < MaxVersion
    /\ Store(n, [info[n] EXCEPT ![n] = @ + 1], known[n], rows[n])
    /\ UNCHANGED <<link, published, sessVars, budget>>

(* update_my_conn_info.                                                    *)
UpdateMyConnInfo(n) ==
    LET connected_peers == Linked(n)
        row == [ver |-> rows[n][n].ver + 1, peers |-> connected_peers]
    IN  /\ connected_peers # rows[n][n].peers
        /\ Store(n, info[n], known[n] \cup connected_peers \cup {n},
                 [rows[n] EXCEPT ![n] = row])
        /\ published' = published \cup {<<n, row.ver, row.peers>>}
        /\ UNCHANGED <<link, sessVars, budget>>

-----------------------------------------------------------------------------
Larger(a, b) == IF a > b THEN a ELSE b

(* build_route_info: reachable infos the other side is not known to have.  *)
BuildRouteInfo(n, q) ==
    [p \in Peer |-> IF /\ p # q /\ p \in reach[n]
                       /\ info[n][p] > savedInfo[n][q][p]
                    THEN info[n][p] ELSE 0]

(* Mutants: only the own row is compared; an unknown version counts as     *)
(* saved.                                                                  *)
BuildConnBitmapOwn(n, q) ==
    IF n \in cache[n].ids /\ savedRow[n][q][n] < cache[n].row[n].ver
    THEN cache[n] ELSE NoBitmap

BuildConnBitmapSaved(n, q) ==
    IF \E p \in cache[n].ids :
        savedRow[n][q][p] # NotSaved /\ savedRow[n][q][p] < cache[n].row[p].ver
    THEN cache[n] ELSE NoBitmap

(* build_conn_bitmap: everything, if the other side lacks any of it.       *)
BuildConnBitmap(n, q) ==
    IF \E p \in cache[n].ids : savedRow[n][q][p] < cache[n].row[p].ver
    THEN cache[n] ELSE NoBitmap

BuildSyncRequest(n, q) ==
    [from |-> n, to |-> q, infos |-> BuildRouteInfo(n, q),
     bitmap |-> BuildConnBitmap(n, q)]

HasContent(req) == req.bitmap # NoBitmap \/ \E p \in Peer : req.infos[p] > 0

(* update_dst_saved_peer_info_version, update_dst_saved_conn_bitmap_version *)
SaveInfos(saved, req) == [p \in Peer |-> Larger(req.infos[p], saved[p])]

SaveRows(saved, req) ==
    [p \in Peer |-> IF p \in req.bitmap.ids
                    THEN Larger(req.bitmap.row[p].ver, saved[p]) ELSE saved[p]]

(* update_peer_infos, update_conn_map: newer versions replace older ones.  *)
MergedInfos(n, req) == [p \in Peer |-> Larger(req.infos[p], info[n][p])]

MergedRows(n, req) ==
    [p \in Peer |-> IF /\ p \in req.bitmap.ids
                       /\ req.bitmap.row[p].ver > rows[n][p].ver
                    THEN req.bitmap.row[p] ELSE rows[n][p]]

(* do_sync_route_info.                                                     *)
Receive(req) ==
    /\ Store(req.to, MergedInfos(req.to, req), known[req.to] \cup req.bitmap.ids,
             MergedRows(req.to, req))
    /\ savedInfo' = [savedInfo EXCEPT ![req.to][req.from] = SaveInfos(@, req)]
    /\ savedRow' = [savedRow EXCEPT ![req.to][req.from] = SaveRows(@, req)]
    /\ UNCHANGED published

(* Mutant: the request counts as saved when it is sent.                    *)
SendSaved(n, q) ==
    LET req == BuildSyncRequest(n, q)
    IN  /\ q \in Linked(n) /\ call[n][q] = Idle /\ HasContent(req)
        /\ call' = [call EXCEPT ![n][q] = [st |-> "sent", req |-> req]]
        /\ savedInfo' = [savedInfo EXCEPT ![n][q] = SaveInfos(@, req)]
        /\ savedRow' = [savedRow EXCEPT ![n][q] = SaveRows(@, req)]
        /\ UNCHANGED <<link, nodeVars, late, budget>>

(* sync_route_with_peer up to its await.                                   *)
Send(n, q) ==
    LET req == BuildSyncRequest(n, q)
    IN  /\ q \in Linked(n) /\ call[n][q] = Idle /\ HasContent(req)
        /\ call' = [call EXCEPT ![n][q] = [st |-> "sent", req |-> req]]
        /\ UNCHANGED <<link, nodeVars, savedInfo, savedRow, late, budget>>

Handle(n, q) ==
    /\ call[n][q] # Idle /\ call[n][q].st = "sent"
    /\ Receive(call[n][q].req)
    /\ call' = [call EXCEPT ![n][q].st = "answered"]
    /\ UNCHANGED <<link, late, budget>>

(* sync_route_with_peer after its await, answer received.                  *)
Response(n, q) ==
    LET req == call[n][q].req
    IN  /\ call[n][q] # Idle /\ call[n][q].st = "answered"
        /\ savedInfo' = [savedInfo EXCEPT ![n][q] = SaveInfos(@, req)]
        /\ savedRow' = [savedRow EXCEPT ![n][q] = SaveRows(@, req)]
        /\ call' = [call EXCEPT ![n][q] = Idle]
        /\ UNCHANGED <<link, nodeVars, late, budget>>

(* What remains of a call nobody waits for: a request not yet handled.     *)
Abandoned(c) == IF c # Idle /\ c.st = "sent" THEN late \cup {c.req} ELSE late

(* The call fails: nothing is recorded as saved.                           *)
Timeout(n, q) ==
    /\ call[n][q] # Idle /\ budget.timeouts > 0
    /\ late' = Abandoned(call[n][q])
    /\ call' = [call EXCEPT ![n][q] = Idle]
    /\ budget' = [budget EXCEPT !.timeouts = @ - 1]
    /\ UNCHANGED <<link, nodeVars, savedInfo, savedRow>>

HandleLate(req) ==
    /\ Receive(req)
    /\ late' = late \ {req}
    /\ UNCHANGED <<link, call, budget>>

(* stop_session and a later get_or_start_session, or a new session id of   *)
(* the other side: what it has saved is forgotten.                         *)
DropSession(n, q) ==
    /\ budget.drops > 0
    /\ savedInfo' = [savedInfo EXCEPT ![n][q] = [p \in Peer |-> 0]]
    /\ savedRow' = [savedRow EXCEPT ![n][q] = [p \in Peer |-> NotSaved]]
    /\ call' = [call EXCEPT ![n][q] = Idle]
    /\ late' = Abandoned(call[n][q])
    /\ budget' = [budget EXCEPT !.drops = @ - 1]
    /\ UNCHANGED <<link, nodeVars>>

LinkChange(e) ==
    /\ budget.links > 0
    /\ link' = IF e \in link THEN link \ {e} ELSE link \cup {e}
    /\ budget' = [budget EXCEPT !.links = @ - 1]
    /\ UNCHANGED <<nodeVars, sessVars>>

(* Peers with a path of open connections.                                  *)
Component(n) ==
    {p \in Peer : \A S \in SUBSET Peer :
        (n \in S /\ \A e \in link : e \cap S # {} => e \subseteq S) => p \in S}

(* clear_expired_peer removes p: no newer info of p has come for 3660 s.   *)
(* As p renews its info every 3600 s, p has been cut off from n.  Neither  *)
(* the route table nor the bitmap is rebuilt.                              *)
Expire(n, p) ==
    /\ p \in known[n] \/ info[n][p] > 0
    /\ p \notin Component(n) /\ budget.expiries > 0
    /\ info' = [info EXCEPT ![n][p] = 0]
    /\ known' = [known EXCEPT ![n] = @ \ {p}]
    /\ rows' = [rows EXCEPT ![n][p] = NoRow]
    /\ dirty' = [dirty EXCEPT ![n] = TRUE]
    /\ budget' = [budget EXCEPT !.expiries = @ - 1]
    /\ UNCHANGED <<link, reach, cache, published, sessVars>>

Task(n, q) == Send(n, q) \/ Handle(n, q) \/ Response(n, q)

(* Everything that can happen while no info expires.                       *)
RunNext ==
    \/ \E n \in Peer : UpdateMyPeerInfo(n) \/ UpdateMyConnInfo(n)
    \/ \E n, q \in Peer : Task(n, q) \/ Timeout(n, q) \/ DropSession(n, q)
    \/ \E req \in late : HandleLate(req)
    \/ \E e \in Pair : LinkChange(e)

Next == RunNext \/ \E n, p \in Peer : Expire(n, p)

Fairness ==
    /\ \A n \in Peer : WF_vars(UpdateMyConnInfo(n))
    /\ \A n, q \in Peer : WF_vars(Task(n, q))

Spec == Init /\ [][Next]_vars

RunSpec == Init /\ [][RunNext]_vars

FairSpec == RunSpec /\ Fairness
-----------------------------------------------------------------------------
(* Nobody holds a version of a peer's info or row that the peer has not    *)
(* reached itself: update_peer_infos and update_conn_map compare versions  *)
(* only, so one from the future would block the real ones.                 *)
NoFutureVersion ==
    \A n, p \in Peer :
        info[n][p] <= info[p][p] /\ rows[n][p].ver <= rows[p][p].ver

(* However it travelled, a row a node stores under a version is the row    *)
(* its owner published under that version.  A row that lost a member in a  *)
(* bitmap would stay wrong until the owner's next version.                 *)
RowsAsPublished ==
    \A n, p \in Peer :
        rows[n][p].ver > 0 => <<p, rows[n][p].ver, rows[n][p].peers>> \in published

(* "the conn_bitmap should contain complete list of directly connected     *)
(* peers" (peer_ospf_route.rs:1452): every row of the cached bitmap is the *)
(* row its owner published under that version.                             *)
BitmapComplete ==
    \A n \in Peer : \A p \in cache[n].ids :
        LET r == cache[n].row[p]
        IN  r.ver > 0 => <<p, r.ver, r.peers>> \in published

(* What a session believes the other side has saved, the other side has:   *)
(* build_route_info and build_conn_bitmap never skip what it lacks.        *)
SavedSound ==
    \A n, q, p \in Peer :
        /\ savedInfo[n][q][p] <= info[q][p]
        /\ savedRow[n][q][p] <= (IF p \in known[q] THEN rows[q][p].ver ELSE NotSaved)

(* A stored version never goes back while nothing expires.                 *)
VersionsGrow ==
    [][\A n, p \in Peer :
        info'[n][p] >= info[n][p] /\ rows'[n][p].ver >= rows[n][p].ver]_vars

(* Every node holds the newest info and row of every peer it has a path to.*)
Converged ==
    \A n \in Peer : \A p \in Component(n) :
        info[n][p] = info[p][p] /\ rows[n][p] = rows[p][p]

(* When own rows are up to date, no call is under way and no session has   *)
(* anything to send, the nodes have converged: the filters on what to send *)
(* (reachability, saved versions, cached bitmap) hold nothing back.        *)
QuietMeansConverged ==
    (/\ late = {}
     /\ \A n \in Peer : rows[n][n].peers = Linked(n)
     /\ \A n \in Peer : \A q \in Linked(n) :
            call[n][q] = Idle /\ ~HasContent(BuildSyncRequest(n, q)))
    => Converged

(* Once links and own infos stop changing, all nodes converge.             *)
Converges == <>[]Converged
=============================================================================
