------------------------------ MODULE UdpTunnel ------------------------------
(***************************************************************************)
(* Tunnels over UDP (tunnel/udp.rs): connectors that send a SYN and wait   *)
(* for the SACK, and the listener, which keeps one connection for each     *)
(* address in sock_map and takes it out when a close event with that       *)
(* address arrives.  Packets may be lost, duplicated and reordered; an     *)
(* address may be used again by a later connection.                        *)
(*                                                                         *)
(* Between the socket and the user of a tunnel is a ring (tunnel/ring.rs)  *)
(* of which the last places are kept for packets that must not be lost.    *)
(***************************************************************************)
EXTENDS Naturals, Sequences

CONSTANTS UdpConn,     \* conn_id of each attempt to connect
          AddrOf,      \* the address each is made from
          Addrs, NoTunnel,
          Cap, Reserved,  \* of a ring; RING_TUNNEL_RESERVERD_CAP
          MaxSend,     \* bound: packets a connector sends
          MaxTunnels   \* bound: tunnels the listener makes

ASSUME UdpTunnelAssumption ==
    /\ AddrOf \in [UdpConn -> Addrs] /\ NoTunnel \notin Nat \ {0}
    /\ Cap \in Nat /\ Reserved \in 0 .. Cap

VARIABLES connector,   \* "new", "syn", "open", "closed"
          sent,        \* packets each connector has sent, of each kind
          net,         \* packets under way; they stay, so any may come again
          sock_map,    \* the listener's connections, by address
          tunnels,     \* tunnels the listener has made
          close_events \* addresses in the channel of close events

udpTunnelVars == <<connector, sent, net, sock_map, tunnels, close_events>>

UdpTunnelInit ==
    /\ connector = [c \in UdpConn |-> "new"] /\ sent = [c \in UdpConn |-> 0]
    /\ net = {} /\ sock_map = [a \in Addrs |-> NoTunnel]
    /\ tunnels = <<>> /\ close_events = <<>>

Packet(type, c) == [type |-> type, conn |-> c]

-----------------------------------------------------------------------------
(* UdpTunnelConnector: a socket is used again once the connection before   *)
(* it is over.                                                             *)
TryConnect(c) ==
    /\ connector[c] = "new"
    /\ \A d \in UdpConn \ {c} : AddrOf[d] = AddrOf[c] => connector[d] \in {"new", "closed"}
    /\ connector' = [connector EXCEPT ![c] = "syn"]
    /\ net' = net \cup {Packet("syn", c)}
    /\ UNCHANGED <<sent, sock_map, tunnels, close_events>>

(* wait_sack: only the SACK of this conn_id (and magic) ends the wait.     *)
WaitSack(c) ==
    /\ connector[c] = "syn" /\ Packet("sack", c) \in net
    /\ connector' = [connector EXCEPT ![c] = "open"]
    /\ UNCHANGED <<sent, net, sock_map, tunnels, close_events>>

ClientCloses(c) ==
    /\ connector[c] \in {"syn", "open"}
    /\ connector' = [connector EXCEPT ![c] = "closed"]
    /\ UNCHANGED <<sent, net, sock_map, tunnels, close_events>>

ClientSends(c) ==
    /\ connector[c] = "open" /\ sent[c] < MaxSend
    /\ sent' = [sent EXCEPT ![c] = @ + 1]
    /\ \E lossy \in {"lossy", "data"} : net' = net \cup {Packet(lossy, c)}
    /\ UNCHANGED <<connector, sock_map, tunnels, close_events>>

-----------------------------------------------------------------------------
(* The listener drops a connection: its forward task is aborted.           *)
Dropped(ts, t) == IF t = NoTunnel \/ ts[t].forward # "runs" THEN ts
                  ELSE [ts EXCEPT ![t].forward = "aborted"]

(* handle_new_connect                                                      *)
HandleNewConnect(c) ==
    LET a == AddrOf[c]
        t == Len(tunnels) + 1
    IN  /\ Packet("syn", c) \in net /\ t <= MaxTunnels
        /\ net' = net \cup {Packet("sack", c)}
        /\ tunnels' = Append(Dropped(tunnels, sock_map[a]),
                             [conn |-> c, ring |-> <<>>, forward |-> "runs", open |-> TRUE])
        /\ sock_map' = [sock_map EXCEPT ![a] = t]
        /\ UNCHANGED <<connector, sent, close_events>>

(* Mutant: packets of another connection are taken.                        *)
OfAnyConn(t, p) == TRUE

(* handle_packet_from_remote: not for this connection.                     *)
OfThisConn(t, p) == tunnels[t].conn = p.conn

(* RingSink: try_send, force_send                                          *)
Fits(t, p) == Len(tunnels[t].ring) < IF p.type = "lossy" THEN Cap - Reserved ELSE Cap

HandlePacket(p) ==
    LET t == sock_map[AddrOf[p.conn]]
    IN  /\ p \in net /\ p.type \in {"lossy", "data"}
        /\ t # NoTunnel /\ OfThisConn(t, p)
        /\ Fits(t, p)
        /\ tunnels[t].open
        /\ tunnels' = [tunnels EXCEPT ![t].ring = Append(@, p)]
        /\ UNCHANGED <<connector, sent, net, sock_map, close_events>>

UserReads(t) ==
    /\ tunnels[t].open /\ tunnels[t].ring # <<>>
    /\ tunnels' = [tunnels EXCEPT ![t].ring = Tail(@)]
    /\ UNCHANGED <<connector, sent, net, sock_map, close_events>>

(* The user drops the tunnel; the forward task finds its ring closed and   *)
(* reports the address.                                                    *)
UserCloses(t) ==
    /\ tunnels[t].open
    /\ tunnels' = [tunnels EXCEPT ![t].open = FALSE, ![t].ring = <<>>]
    /\ UNCHANGED <<connector, sent, net, sock_map, close_events>>

ForwardEnds(t) ==
    /\ ~tunnels[t].open /\ tunnels[t].forward = "runs"
    /\ tunnels' = [tunnels EXCEPT ![t].forward = "ended"]
    /\ close_events' = Append(close_events, AddrOf[tunnels[t].conn])
    /\ UNCHANGED <<connector, sent, net, sock_map>>

(* The task that listen() spawns: whatever is at the address goes.         *)
HandleClose ==
    /\ close_events # <<>>
    /\ tunnels' = Dropped(tunnels, sock_map[Head(close_events)])
    /\ sock_map' = [sock_map EXCEPT ![Head(close_events)] = NoTunnel]
    /\ close_events' = Tail(close_events)
    /\ UNCHANGED <<connector, sent, net>>

UdpTunnelNext ==
    \/ \E c \in UdpConn : \/ TryConnect(c) \/ WaitSack(c) \/ ClientCloses(c) \/ ClientSends(c)
                         \/ HandleNewConnect(c)
    \/ \E p \in net : HandlePacket(p)
    \/ \E t \in DOMAIN tunnels : UserReads(t) \/ UserCloses(t) \/ ForwardEnds(t)
    \/ HandleClose

UdpTunnelSpec == UdpTunnelInit /\ [][UdpTunnelNext]_udpTunnelVars

-----------------------------------------------------------------------------
(* A tunnel delivers only what was sent on its own connection, even if a   *)
(* packet of an earlier one comes late from the same address; the places   *)
(* kept for packets that must not be lost hold no others; a tunnel its     *)
(* user closed does not stay in sock_map; and a tunnel that is in use and  *)
(* not in sock_map any more has been cut off, so that its user sees the    *)
(* end of the stream.                                                      *)
TunnelsApart ==
    /\ \A t \in DOMAIN tunnels :
         LET r == tunnels[t].ring
         IN  /\ \A i \in DOMAIN r : r[i].conn = tunnels[t].conn
             /\ \A i \in DOMAIN r : i > Cap - Reserved => r[i].type = "data"
             /\ tunnels[t].open /\ tunnels[t].forward = "runs"
                => sock_map[AddrOf[tunnels[t].conn]] = t
    /\ \A a \in Addrs : sock_map[a] # NoTunnel /\ ~tunnels[sock_map[a]].open
         => \/ tunnels[sock_map[a]].forward = "runs"
            \/ \E i \in DOMAIN close_events : close_events[i] = a
=============================================================================
