----------------------------- MODULE Forwarding -----------------------------
(***************************************************************************)
(* The way of one packet through the nodes of a network: PeerManager sends *)
(* it (send_msg_by_ip, send_msg, the RPC transport, a relayed foreign      *)
(* network), the receive loop of each node it comes to forwards it or      *)
(* hands it to the first filter that takes it.  Packets do not influence   *)
(* each other, so one packet stands for all; a packet to several peers is  *)
(* a clone for each of them.  The filter (Acl) lets it pass.               *)
(*                                                                         *)
(* Nodes are numbered from 1.  Node n is Alias(n) in the foreign network   *)
(* it relays for; the peers of that network are attached to nodes.         *)
(***************************************************************************)
EXTENDS Naturals, FiniteSets, SequencesExt

CONSTANTS Node,
          Graphs,        \* records [links : latencies of pairs, settled : BOOLEAN]
          LatencyFirst,  \* the nodes with flags.latency_first
          ForeignPeer, Attached,   \* Attached[x]: the nodes x is connected to
          HopLimit, LatencyHops    \* 7 and 2

VARIABLES net,      \* who is connected, and whether routes have converged
          packet,   \* the packet, NoPacket before it is sent
          holder,   \* the node whose receive loop has it
          fate,     \* "unsent", "moving", "dropped", or the filter that took it
          sent,     \* history: how it was sent
          relays    \* history: connections it has crossed

forwardVars == <<net, packet, holder, fate, sent, relays>>

NoPacket == [type |-> "none"]

Alias(n) == n + Cardinality(Node)
Owner(a) == a - Cardinality(Node)

(* Routes.  Once they have converged every node has the same graph; before *)
(* that the next hop may be anybody the node is connected to, or nobody.   *)
Peers(n) == {q \in Node : {n, q} \in DOMAIN net.links}

Length(links, p, e) == IF p = "LeastHop" THEN 1 ELSE links[e]

Infinity == 1000

(* One round of relaxation towards d under policy p.                       *)
Relaxed(links, p, d, D) ==
    [v \in Node |-> IF v = d THEN 0
                    ELSE Min({Infinity} \cup {D[q] + Length(links, p, {v, q}) :
                                                q \in {q \in Node : {v, q} \in DOMAIN links}})]

(* Distances(links)[p][d][v]: from v to d under policy p.                  *)
Distances(links) ==
    [p \in {"LeastHop", "LeastCost"} |-> [d \in Node |->
        FoldLeft(LAMBDA D, k : IF Relaxed(links, p, d, D) = D THEN D ELSE Relaxed(links, p, d, D),
                 [v \in Node |-> IF v = d THEN 0 ELSE Infinity], [k \in 1 .. Cardinality(Node) |-> k])]]

DistanceIn == [g \in Graphs |-> Distances(g.links)]

ForwardStart(g) ==
    /\ net = g
    /\ packet = NoPacket /\ holder = 0 /\ fate = "unsent"
    /\ sent = NoPacket /\ relays = 0

ForwardInit == \E g \in Graphs : ForwardStart(g)

RouteNextHops(n, d, p) ==
    IF ~net.settled THEN Peers(n)
    ELSE LET D == DistanceIn[net][p][d]
         IN  {q \in Peers(n) : D[q] < Infinity /\ D[q] + Length(net.links, p, {n, q}) = D[n]}

get_next_hop_policy(m) == IF m.latency THEN "LeastCost" ELSE "LeastHop"

get_gateway_peer_id(n, d, p) ==
    IF d = n THEN {n}
    ELSE IF d \in Peers(n) /\ p = "LeastHop" THEN {d}
    ELSE RouteNextHops(n, d, p)

(* send_msg_directly, to this node itself or over a connection.            *)
SendMsgDirectly(n, gateway) ==
    /\ holder' = gateway
    /\ relays' = IF gateway = n THEN relays ELSE relays + 1
    /\ fate' = "moving"

(* send_msg_internal, at node n: the packet is at the gateway, or lost.    *)
SendMsgInternal(n, m) ==
    LET gateways == get_gateway_peer_id(n, m.to, get_next_hop_policy(m))
    IN  /\ packet' = m
        /\ \/ \E gateway \in gateways : SendMsgDirectly(n, gateway)
           \/ /\ gateways = {} \/ ~net.settled
              /\ fate' = "dropped" /\ UNCHANGED <<holder, relays>>

-----------------------------------------------------------------------------
(* Payloads: the layers around the original bytes, innermost first, and    *)
(* the flags that announce them.                                           *)
Header(n, d, t) == [type |-> t, from |-> n, to |-> d, counter |-> 1, latency |-> FALSE,
                    exit |-> FALSE, compressed |-> FALSE, encrypted |-> FALSE, layers |-> <<>>]

Top(m) == IF m.layers = <<>> THEN "bytes" ELSE m.layers[Len(m.layers)]
Pop(s) == SubSeq(s, 1, Len(s) - 1)

(* Compression is off, does not pay, or happens; encrypted bytes never     *)
(* become shorter.                                                         *)
Compress(m) ==
    {m} \cup (IF m.compressed \/ Top(m) = "encrypted" THEN {}
              ELSE {[m EXCEPT !.compressed = TRUE, !.layers = Append(@, "compressed")]})

(* Mutant: the flag is not looked at.                                      *)
EncryptAgain(m) == [m EXCEPT !.encrypted = TRUE, !.layers = Append(@, "encrypted")]

Encrypt(m) == IF m.encrypted THEN m
              ELSE [m EXCEPT !.encrypted = TRUE, !.layers = Append(@, "encrypted")]

try_compress_and_encrypt(m) == {Encrypt(z) : z \in Compress(m)}

(* What is left of a packet, or NoPacket on an error.                      *)
Decrypt(m) ==
    IF ~m.encrypted THEN m
    ELSE IF Top(m) # "encrypted" THEN NoPacket
    ELSE [m EXCEPT !.encrypted = FALSE, !.layers = Pop(@)]

Decompress(m) ==
    IF m = NoPacket \/ ~m.compressed THEN m
    ELSE IF Top(m) # "compressed" THEN NoPacket
    ELSE [m EXCEPT !.compressed = FALSE, !.layers = Pop(@)]

-----------------------------------------------------------------------------
Sends(n, m) == fate = "unsent" /\ sent' = m /\ SendMsgInternal(n, m) /\ UNCHANGED net

(* A packet of the virtual NIC.  A filter may have taken it for a service  *)
(* of this node; otherwise it goes to the owner of the address, to an exit *)
(* node, or to everybody.                                                  *)
SendMsgByIp(n) ==
    \/ Sends(n, Header(n, n, "Data"))
    \/ \E d \in Node, exit \in BOOLEAN, m \in try_compress_and_encrypt(Header(n, 0, "Data")) :
          Sends(n, [m EXCEPT !.to = d, !.latency = n \in LatencyFirst, !.exit = exit])

(* send_msg: packets of the KCP, ICMP and UDP proxies.                     *)
SendMsg(n) ==
    \E d \in Node, t \in {"Data", "KcpSrc", "KcpDst"}, l \in {(n \in LatencyFirst), FALSE} :
        Sends(n, [Header(n, d, t) EXCEPT !.latency = l])

(* RpcTransport::send puts the packet into the receive loop of the sender, *)
(* encrypted unless the destination is known as a public server.           *)
RpcSend(n) ==
    \E d \in Node : \E m \in {Header(n, d, "Rpc"), Encrypt(Header(n, d, "Rpc"))} :
        /\ fate = "unsent" /\ sent' = m
        /\ packet' = m /\ holder' = n /\ fate' = "moving"
        /\ UNCHANGED <<net, relays>>

(* A packet of a foreign peer for x comes to node n (the receive loop of   *)
(* ForeignNetworkEntry): delivered if x is attached here, else wrapped for *)
(* the node that the foreign network routes x through.                     *)
ForeignSend(n) ==
    \E x \in ForeignPeer, s \in Node :
        LET m == Header(Alias(n), Alias(s), "Foreign") @@ [dst |-> x]
        IN  /\ fate = "unsent" /\ n # s
            /\ n \notin Attached[x] /\ (net.settled => s \in Attached[x])
            /\ sent' = m
            /\ packet' = m /\ holder' = n /\ fate' = "moving"
            /\ UNCHANGED <<net, relays>>

Send(n) == SendMsgByIp(n) \/ SendMsg(n) \/ RpcSend(n) \/ ForeignSend(n)

-----------------------------------------------------------------------------
Takes(by) == fate' = by /\ UNCHANGED <<holder, relays>>

(* The foreign packet is for this node: its content goes to the attached   *)
(* peer; a gateway in the foreign network is not connected to the node.    *)
SendMsgToPeer(n) ==
    /\ packet' = packet
    /\ Takes(IF n \in Attached[packet.dst] THEN "foreign peer" ELSE "dropped")

(* The filters, newest first: RPC, then the NIC, and the KCP endpoints.    *)
Filter(t) == CASE t = "Rpc" -> "rpc" [] t = "Data" -> "nic" [] OTHER -> "kcp"

Deliver(m) ==
    /\ packet' = m
    /\ Takes(IF m = NoPacket THEN "dropped" ELSE Filter(m.type))

Forwarded(n, m) == [m EXCEPT !.counter = @ + 1, !.latency = @ /\ m.counter <= LatencyHops]

Forward(n, m) ==
    IF m.counter > HopLimit THEN packet' = m /\ Takes("dropped")
    ELSE \E z \in IF m.from = n /\ m.type \in {"Data", "KcpSrc", "KcpDst"}
                  THEN try_compress_and_encrypt(Forwarded(n, m)) ELSE {Forwarded(n, m)} :
            SendMsgInternal(n, z)

(* try_handle_foreign_network_packet: a packet of a foreign network is for *)
(* this node, or is on its way out.                                        *)
Leaves(n) == packet.from = Alias(n) /\ packet.to > Cardinality(Node)
IsForeign(n) == packet.type = "Foreign" /\ (packet.to = n \/ Leaves(n))

HandleForeign(n) ==
    IF packet.to = n THEN SendMsgToPeer(n)
    ELSE SendMsgInternal(n, [packet EXCEPT !.to = Owner(packet.to)])

(* One turn of the receive loop of start_peer_recv.                        *)
PeerRecv(n) ==
    /\ fate = "moving" /\ holder = n
    /\ IF IsForeign(n) THEN HandleForeign(n)
       ELSE IF packet.to = n THEN Deliver(Decompress(Decrypt(packet)))
       ELSE Forward(n, packet)
    /\ UNCHANGED <<net, sent>>

ForwardNext == \E n \in Node : Send(n) \/ PeerRecv(n)

-----------------------------------------------------------------------------
(* Whatever the routes are, also in a loop through its sender, a packet    *)
(* crosses at most eight connections, and if it is delivered it is at its  *)
(* destination, handed to the right filter, with the bytes that were sent. *)
NoEndlessLoop ==
    /\ relays <= HopLimit + 1
    /\ fate \notin {"unsent", "moving", "dropped"} =>
         /\ holder = IF packet.type = "Foreign" THEN Owner(sent.to) ELSE sent.to
         /\ packet.type = sent.type /\ packet.layers = <<>>

Far(s, d) == DistanceIn[net]["LeastHop"][d][s]

(* With converged routes a packet is not lost: neither by switching from   *)
(* the fastest to the shortest way in the middle, nor by the hop limit, as *)
(* long as the destination is no farther than the limit allows, which is   *)
(* two connections where the fastest way may lead away from it first.      *)
ArrivesWhenSettled ==
    net.settled /\ fate = "dropped" =>
        IF sent.type = "Foreign" THEN Far(Owner(sent.from), Owner(sent.to)) > HopLimit + 1
        ELSE Far(sent.from, sent.to) >
               (IF sent.latency THEN HopLimit - 2 * LatencyHops - 1
                ELSE IF sent.type = "Rpc" THEN HopLimit ELSE HopLimit + 1)

(* A packet neither circulates nor changes on its way, and arrives once    *)
(* the routes have settled.                                                *)
PacketsArrive == NoEndlessLoop /\ ArrivesWhenSettled
=============================================================================
