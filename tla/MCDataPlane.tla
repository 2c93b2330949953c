----------------------------- MODULE MCDataPlane ----------------------------
(* A model-checking instance of what happens to packets: the table of next *)
(* hops (RouteTable), the way of a packet (Forwarding) and the filter      *)
(* (Acl).  The initial state decides which of them is at work.             *)
EXTENDS RouteTable, Forwarding, Acl

CONSTANTS t1, t2, a, f1, f2, g1

-----------------------------------------------------------------------------
\* Latencies: 1 and 3 have a slow connection.
Latency == [p \in Peer |-> [q \in Peer |-> IF {p, q} = {1, 3} THEN 5 ELSE 1]]

Plainly(S) == [addrs |-> S, avoid |-> FALSE]

\* All undirected graphs of four peers, with and without a peer that avoids
\* relaying, and a ring of five with a detour around that peer.
Pairs == {e \in SUBSET (1 .. 4) : Cardinality(e) = 2}
Graph(nodes, E, avoider) ==
    [nodes |-> nodes,
     info |-> [p \in Peer |-> [addrs |-> IF p \in {3, 4} THEN {a} ELSE {}, avoid |-> p = avoider]],
     row |-> [p \in Peer |-> {q \in Peer : {p, q} \in E}]]

Fixed(g) == [start |-> g, writes |-> 0, cleans |-> 1]

Still == {Fixed(Graph(1 .. 4, E, p)) : E \in SUBSET Pairs, p \in {0, 2}}
         \cup {Fixed(Graph(1 .. 5, {{1, 2}, {2, 3}, {1, 4}, {4, 5}, {5, 3}}, 2))}

\* 4 is next to 1, 3 is behind 2, and both have the address.
Moving == {[start |-> Graph(1 .. 4, {{1, 2}, {2, 3}, {1, 4}}, 0), writes |-> 2, cleans |-> 1]}

Instances == Still \cup Moving

\* 1 loses or gains its connection to 4 or 3; 4 gives its address up.
Changes == {[peer |-> 1, row |-> {2}], [peer |-> 1, row |-> {2, 3, 4}],
            [peer |-> 4, info |-> Plainly({})]}

-----------------------------------------------------------------------------
\* A line longer than the hop limit, a slow short way beside a fast long
\* one, a triangle without settled routes, and lines of four nodes with and
\* without two chords, of fast and slow connections.
Line   == {{i, i + 1} : i \in 1 .. 7}
Detour == {{1, 2}, {2, 3}, {1, 4}, {4, 5}, {5, 3}}
Around == {{{1, 2}, {2, 3}, {3, 4}} \cup chords : chords \in SUBSET {{1, 3}, {1, 4}}}

Ways == {[links |-> [e \in Line |-> 1], settled |-> TRUE],
         [links |-> [e \in Detour |-> IF e \in {{1, 2}, {2, 3}} THEN 9 ELSE 1], settled |-> TRUE],
         [links |-> [e \in {{1, 2}, {2, 3}, {1, 3}} |-> 1], settled |-> FALSE]}
        \cup {[links |-> w, settled |-> TRUE] : w \in UNION {[E -> {1, 5}] : E \in Around}}

AtThree == [x \in ForeignPeer |-> {3}]

-----------------------------------------------------------------------------
Rule(p, flows, gs, action, stateful, limit) ==
    [priority |-> p, enabled |-> TRUE, flows |-> flows, groups |-> gs, action |-> action,
     stateful |-> stateful, rate_limit |-> limit]

Chain(t, default, rules) ==
    [type |-> t, enabled |-> TRUE, default |-> default, rules |-> rules]

\* The same priority has a limit in both; they disagree on both flows.
TwoAcls ==
    {[chains |-> <<Chain("Inbound", "Drop", <<Rule(1, {f1}, {}, "Allow", TRUE, 5),
                                             Rule(2, {}, {g1}, "Drop", FALSE, 0)>>)>>,
      tcp |-> {}, udp |-> {f1}],
     [chains |-> <<Chain("Inbound", "Allow", <<Rule(1, {f1}, {g1}, "Drop", FALSE, 5)>>),
                   Chain("Outbound", "Drop", <<Rule(3, {f2}, {}, "Allow", FALSE, 0)>>)>>,
      tcp |-> {}, udp |-> {}],
     [chains |-> <<>>, tcp |-> {}, udp |-> {}]}

Chains == [f \in Flow |-> IF f = f1 THEN "Inbound" ELSE "Outbound"]

-----------------------------------------------------------------------------
VARIABLE part

DataVars == <<vars, forwardVars, aclVars, part>>

(* What is not at work has one initial state.                              *)
DataInit ==
  /\ part \in {"table", "packet", "filter"}
  /\ IF part = "table" THEN Init ELSE Start("LeastHop", Fixed(Graph({1}, {}, 0)))
  /\ IF part = "packet" THEN ForwardInit ELSE \E g \in Ways : ~g.settled /\ ForwardStart(g)
  /\ AclInit /\ (part # "filter" => processors[1].defaults["Outbound"] = "Drop")

DataNext ==
  /\ UNCHANGED part
  /\ IF part = "table" THEN Next ELSE UNCHANGED vars
  /\ IF part = "packet" THEN ForwardNext ELSE UNCHANGED forwardVars
  /\ IF part = "filter" THEN AclNext ELSE UNCHANGED aclVars

DataSpec == DataInit /\ [][DataNext]_DataVars

Symmetry == Permutations(Task) \cup Permutations(Judge)
=============================================================================
