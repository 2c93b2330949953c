----------------------------- MODULE PeerCenter ------------------------------
(***************************************************************************)
(* The peer center (peer_center/instance.rs, server.rs): every node        *)
(* reports its direct peers to the node with the smallest id and fetches   *)
(* from it the links of all nodes, by which routes are weighed.  The       *)
(* center keeps a digest, so that a node that has the map is not sent it   *)
(* again; reports, the digest and the map are not under one lock.          *)
(*                                                                         *)
(* A tick is the 60 seconds after which a node reports again; a node       *)
(* distrusts its digest after two of them, the center forgets a link after *)
(* three.  Each job of a node runs once in a tick, in any order and        *)
(* interleaved with those of the others.  A digest is the set of links it  *)
(* is computed from.  Latencies are left out.                              *)
(***************************************************************************)
EXTENDS Naturals

CONSTANTS Nodes,        \* peer ids
          Centers,      \* nodes that may have the smallest id of those reachable
          FirstCenter,
          FirstLinks,   \* the links there may be at first, sets of sets of two nodes
          MaxChanges,   \* bound: changes of links and of the center
          NoPeers

Pairs == {p \in Nodes \X Nodes : p[1] # p[2]}
Gone == 3               \* the age at which a link is forgotten

VARIABLES center, links, changes,
          age,          \* global_peer_map of each center, Gone if not in it
          digest,       \* of each center; the empty set is 0
          job,          \* the call of a node: its jobs share a lock
          map, map_digest, since,           \* get_global_info job
          last_center, last_peers, last_report,  \* report job
          ran           \* the jobs that have run in this tick

centerVars == <<center, links, changes, age, digest, job, map, map_digest, since, last_center,
                last_peers, last_report, ran>>

Idle == [at |-> "idle", center |-> 0, peers |-> {}, links |-> {}]

CenterInit ==
    /\ center = FirstCenter /\ links \in FirstLinks /\ changes = 0
    /\ age = [c \in Centers |-> [p \in Pairs |-> Gone]]
    /\ digest = [c \in Centers |-> {}]
    /\ job = [n \in Nodes |-> Idle]
    /\ map = [n \in Nodes |-> {}] /\ map_digest = [n \in Nodes |-> {}]
    /\ since = [n \in Nodes |-> 0]
    /\ last_center = [n \in Nodes |-> 0] /\ last_peers = [n \in Nodes |-> NoPeers]
    /\ last_report = [n \in Nodes |-> 0]
    /\ ran = [n \in Nodes |-> {}]

Peers(n) == {m \in Nodes : {n, m} \in links}

(* Mutant: a link is forgotten when the next report of it is due.          *)
KnownRecent(ages) == {p \in Pairs : ages[p] < 1}

KnownLinks(ages) == {p \in Pairs : ages[p] < Gone}

jobVars == <<map, map_digest, since, last_center, last_peers, last_report>>

Ran(n, j) == ran' = [ran EXCEPT ![n] = @ \cup {j}]

-----------------------------------------------------------------------------
(* init_report_peers_job, and report_peers at the center: the links, then  *)
(* the digest of all links, which is stored a step later.                  *)
ReportPeers(n) ==
    LET c == center
        reported == [p \in Pairs |-> IF p[1] = n /\ p[2] \in Peers(n) THEN 0 ELSE age[c][p]]
    IN  /\ job[n] = Idle /\ "report" \notin ran[n]
        /\ IF last_center[n] = c /\ last_report[n] < 1 /\ last_peers[n] = Peers(n)
           THEN Ran(n, "report") /\ UNCHANGED <<job, age>>
           ELSE /\ age' = [age EXCEPT ![c] = reported]
                /\ job' = [job EXCEPT ![n] = [at |-> "report", center |-> c, peers |-> Peers(n),
                                              links |-> KnownLinks(age'[c])]]
                /\ UNCHANGED ran
        /\ UNCHANGED <<center, links, changes, digest, jobVars>>

StoreDigest(n) ==
    LET j == job[n] IN
    /\ j.at = "report"
    /\ digest' = [digest EXCEPT ![j.center] = j.links]
    /\ last_center' = [last_center EXCEPT ![n] = j.center]
    /\ last_peers' = [last_peers EXCEPT ![n] = j.peers]
    /\ last_report' = [last_report EXCEPT ![n] = 0]
    /\ job' = [job EXCEPT ![n] = Idle]
    /\ Ran(n, "report")
    /\ UNCHANGED <<center, links, changes, age, map, map_digest, since>>

-----------------------------------------------------------------------------
(* init_get_global_info_job: the digest sent.                              *)
TrustedDigest(n) == IF since[n] > 2 THEN {} ELSE map_digest[n]

(* get_global_peer_map at the center: the map first, the digest after it.  *)
ReadMap(n) ==
    LET c == center
        sent == TrustedDigest(n)
    IN  /\ job[n] = Idle /\ "get" \notin ran[n]
        /\ map_digest' = [map_digest EXCEPT ![n] = sent]
        /\ IF sent = digest[c] /\ sent # {}
           THEN Ran(n, "get") /\ UNCHANGED job
           ELSE /\ job' = [job EXCEPT ![n] = [at |-> "read", center |-> c, peers |-> {},
                                              links |-> KnownLinks(age[c])]]
                /\ UNCHANGED ran
        /\ UNCHANGED <<center, links, changes, age, digest, map, since, last_center, last_peers,
                       last_report>>

GetMap(n) ==
    LET j == job[n] IN
    /\ j.at = "read"
    /\ map' = [map EXCEPT ![n] = j.links]
    /\ map_digest' = [map_digest EXCEPT ![n] = digest[j.center]]
    /\ since' = [since EXCEPT ![n] = 0]
    /\ job' = [job EXCEPT ![n] = Idle]
    /\ Ran(n, "get")
    /\ UNCHANGED <<center, links, changes, age, digest, last_center, last_peers, last_report>>

(* The center may be gone: the call fails and is made again later.         *)
CallFails(n) ==
    /\ job[n] # Idle /\ job[n].center # center
    /\ job' = [job EXCEPT ![n] = Idle]
    /\ UNCHANGED <<center, links, changes, age, digest, jobVars, ran>>

-----------------------------------------------------------------------------
(* clean_outdated_peer is due when an entry reaches the age; then a tick.  *)
Cap(i, bound) == IF i < bound THEN i + 1 ELSE i

CenterTick ==
    /\ \A n \in Nodes : ran[n] = {"report", "get"} /\ job[n] = Idle
    /\ ran' = [n \in Nodes |-> {}]
    /\ age' = [c \in Centers |-> [p \in Pairs |-> Cap(age[c][p], Gone)]]
    /\ since' = [n \in Nodes |-> Cap(since[n], 3)]
    /\ last_report' = [n \in Nodes |-> Cap(last_report[n], 1)]
    /\ UNCHANGED <<center, links, changes, digest, job, map, map_digest, last_center, last_peers>>

LinkChanges ==
    /\ changes < MaxChanges /\ changes' = changes + 1
    /\ \E p \in Pairs : LET l == {p[1], p[2]}
                        IN  links' = IF l \in links THEN links \ {l} ELSE links \cup {l}
    /\ UNCHANGED <<center, age, digest, job, jobVars, ran>>

(* select_center_peer finds another node: it joined, or the one left.      *)
CenterChanges ==
    /\ changes < MaxChanges /\ changes' = changes + 1
    /\ center' \in Centers \ {center}
    /\ UNCHANGED <<links, age, digest, job, jobVars, ran>>

Job(n) == \/ ReportPeers(n) \/ StoreDigest(n) \/ ReadMap(n) \/ GetMap(n) \/ CallFails(n)

CenterStep == (\E n \in Nodes : Job(n)) \/ CenterTick

CenterNext == CenterStep \/ LinkChanges \/ CenterChanges

(* The jobs run and time passes; a job runs once in a tick, so that no     *)
(* node can keep another from its turn.                                    *)
CenterFairness == WF_centerVars(CenterStep)

CenterSpec == CenterInit /\ [][CenterNext]_centerVars /\ CenterFairness

-----------------------------------------------------------------------------
(* When links and nodes no longer change, every node comes to have exactly *)
(* the links there are and keeps them, whatever reports crossed the        *)
(* reading of the map, its digest, or the change of the center.            *)
MapsSettle == <>[](\A n \in Nodes : map[n] = {p \in Pairs : {p[1], p[2]} \in links})
=============================================================================
