---------------------------- MODULE MCStandalone ----------------------------
(* A model-checking instance of components that share no state with each    *)
(* other: the keepalive of a connection, the list of alive urls, both sides *)
(* of UDP hole punching, the TCP, UDP and ICMP proxies and their fragments, *)
(* a token bucket, the registry of networks and the client that reads it,   *)
(* tunnels over UDP, the handshake, and the forms of a configuration.       *)
(* The initial state decides which of them runs.                            *)
EXTENDS Reconnect, PeerConnPinger, HolePunch, PunchServer, TcpProxy, UdpProxy, IcmpProxy,
        IpReassembler, TokenBucket, Registry, ChainRead, UdpTunnel, Handshake, Config, TLC

CONSTANTS p1, c1, c2, u1

(* Two connections to one peer, one dialled for a url and one accepted.     *)
OnePeer == [c \in ConnId |-> p1]
OneAccepted == c1 :> u1 @@ c2 :> NoUrl

(* Three peers behind NATs of several kinds, the first of which may turn    *)
(* out to be a cone NAT; one that does no symmetric punching, and one that  *)
(* does not serve.  Behind no NAT there is nothing to do.                   *)
Nats(nats, disable, unserved) == [nat : {nats}, disable_sym : disable, no_service : unserved]
SomeSettings == Nats(<<"inc", "dec", "cone">>, {{}}, {{}})
                  \cup Nats(<<"hard", "inc", "unknown">>, {{}}, {{}})
                  \cup Nats(<<"unknown", "cone", "inc">>, {{1}, {3}}, {{2}})
                  \cup Nats(<<"open", "open", "open">>, {{}}, {{}})


(* Registries of up to two networks: names, secrets and host names of       *)
(* several lengths, empty and as long as a length of one byte cannot say.   *)
OneNode == [peer_id |-> 9, connector_uri_list |-> <<>>, hostname |-> <<>>,
            is_active |-> TRUE, registered_at |-> 11]
SomeNodes == {OneNode, [OneNode EXCEPT !.connector_uri_list = <<<<1, 2>>, <<>>, <<3, 3, 3>>>>],
              [OneNode EXCEPT !.connector_uri_list = <<<<0>>>>, !.hostname = <<0, 1, 2>>,
                              !.is_active = FALSE],
              [OneNode EXCEPT !.hostname = <<1, 2, 3, 1>>, !.peer_id = 63]}
NodeLists == {<<>>} \cup {<<x>> : x \in SomeNodes} \cup {<<x, y>> : x, y \in SomeNodes}
Networks(name, nodes) ==
  [name : {name}, admin : {<<7>>}, created_at : {17}, max_peers : {0},
   description : {<<>>, <<1, 0, 2>>}, secret : {<<2>>, <<1, 1, 1, 1, 1>>},
   is_active : BOOLEAN, exit_nodes : nodes]
SomeStores ==
  LET first == Networks(<<1>>, NodeLists) second == Networks(<<2, 2>>, {<<>>})
  IN  {<<>>} \cup {<<n>> : n \in first} \cup {<<n, m>> : n \in first, m \in second}
        \cup {<<m, n>> : n \in first, m \in second}
SomeNames == {<<>>, <<1>>, <<2, 2>>, <<3>>}

(* Subnets r and s, r perhaps under another address.                        *)
As(cidr, mapped) == [cidr |-> cidr, mapped |-> mapped]
SomeCidrs == {<<>>, <<As("r", "r")>>, <<As("r", "m")>>, <<As("r", "m"), As("s", "s")>>}
OwnAddress == <<"own", 1>>
SomeTargets == {<<"m", 1>>, <<"s", 1>>, <<"r", 1>>, OwnAddress}
EchoTargets == SomeTargets \ {<<"s", 1>>}

(* Connections of one address, used one after the other.                    *)
OneAddress == [c \in UdpConn |-> "p"]

(* Clients: of a foreign network, two with one id and one with another      *)
(* secret, or three alike; of the own network, one that is the node itself  *)
(* and one with a wrong secret.                                             *)
Who(name, secret, id) == [name |-> name, secret |-> secret, id |-> id]
TheNode == Who("o", "t", 10)
SomeClients == {<<Who("f", "s", 1), Who("f", "s", 1), Who("f", "t", 2)>>,
                <<Who("f", "s", 1), Who("f", "s", 2), Who("f", "s", 3)>>,
                <<TheNode, Who("o", "t", 1), Who("o", "s", 1)>>}

(* Configurations that differ from a plain one in the fields one conversion *)
(* looks at together: present, absent, empty, and not to be parsed.         *)
NoFlags == [f \in FlagNames |-> None]
OptBool == {None, TRUE, FALSE}
BaseWeb == [name |-> "n", dhcp |-> None, ipv4 |-> "a", length |-> None, method |-> "manual",
            server |-> None, peers |-> <<"u">>, listeners |-> <<"l">>, proxies |-> <<>>,
            rpc_port |-> None, vpn |-> None, manual_routes |-> FALSE, routes |-> <<>>,
            exits |-> <<>>, socks5 |-> FALSE, socks5_port |-> None, flags |-> NoFlags,
            relay |-> FALSE, relayed |-> <<>>]
UrlLists == {<<>>, <<"u">>, <<"u", "v">>}
Cidr(m) == [net |-> "c", length |-> 24, mapped |-> m]
SomeWebs ==
  {[BaseWeb EXCEPT !.dhcp = d, !.ipv4 = a, !.length = n] :
      d \in OptBool, a \in {None, "", "a", Bad}, n \in {None, 16, 32}}
  \cup {[BaseWeb EXCEPT !.method = t, !.server = s, !.peers = p] :
          t \in {"public", "manual", "standalone"}, s \in {None, "s", Bad},
          p \in UrlLists \cup {<<"">>, <<"", "u">>, <<Bad>>}}
  \cup {[BaseWeb EXCEPT !.manual_routes = b, !.routes = r, !.relay = c, !.relayed = l] :
          b \in BOOLEAN, r \in UrlLists \cup {<<Bad>>}, c \in BOOLEAN, l \in UrlLists}
  \cup {[BaseWeb EXCEPT !.socks5 = b, !.socks5_port = p, !.vpn = v, !.rpc_port = r] :
          b \in BOOLEAN, p \in {None, 1}, v \in {None, 1}, r \in {None, 1}}
  \cup {[BaseWeb EXCEPT !.listeners = l, !.proxies = p, !.exits = e] :
          l \in UrlLists \cup {<<"">>, <<Bad>>}, e \in UrlLists \cup {<<Bad>>},
          p \in {<<>>, <<Cidr(None), Cidr(24)>>, <<Cidr(24), Cidr(24)>>, <<Cidr(16)>>, <<Bad>>}}
  \cup {[BaseWeb EXCEPT !.flags = f] : f \in [FlagNames \ {"cli"} -> OptBool]}
SomeExtras == [flag : BOOLEAN, stun : {None, <<"s">>}, rpc : {None, [ip |-> "lo", port |-> 1]}]
NoOptions == [name |-> None, dhcp |-> None, ipv4 |-> None, peers |-> <<>>, listeners |-> None,
              proxies |-> <<>>, rpc |-> None, routes |-> None, exits |-> <<>>, flags |-> NoFlags,
              relayed |-> None, stun |-> None]
SomeOptions ==
  {NoOptions,
   [NoOptions EXCEPT !.flags["negated"] = TRUE, !.flags["on"] = FALSE, !.stun = <<>>],
   [NoOptions EXCEPT !.peers = <<"w">>, !.proxies = <<Cidr(24)>>, !.listeners = <<>>],
   [NoOptions EXCEPT !.ipv4 = <<"b", 24>>, !.dhcp = FALSE, !.name = "m", !.relayed = <<>>],
   [NoOptions EXCEPT !.ipv4 = Bad], [NoOptions EXCEPT !.proxies = <<Cidr(16)>>]}

VARIABLE part

StandaloneVars ==
  <<allVars, pingVars, punchVars, keepVars, tcpVars, udpVars, icmpVars, fragVars, bucketVars,
    registryVars, readVars, udpTunnelVars, handshakeVars, configVars, part>>

(* What is not at work has one initial state.                               *)
StandaloneInit ==
  /\ part \in {"reconnect", "ping", "punch", "server", "tcp", "udp", "icmp", "fragments", "bucket",
              "registry", "read", "tunnel", "handshake", "config"}
  /\ SubscribedInit /\ PingInit /\ ServerInit /\ TcpInit /\ RegistryInit
  /\ PunchInit /\ (part # "punch" => nat[1] = "open")
  /\ UdpInit /\ (part # "udp" => mode.exit_node /\ mode.no_tun)
  /\ part \notin {"udp", "icmp"} => conf = <<>>
  /\ part = "icmp" => Len(conf) <= 1
  /\ IcmpInit /\ (part # "icmp" => flags.exit_node /\ flags.no_tun /\ flags.socket)
  /\ FragInit /\ (part # "fragments" => payload_len = MaxPayload)
  /\ BucketInit
  /\ IF part = "read" THEN ReadInit
     ELSE store = <<>> /\ asked = [fn |-> "list", name |-> <<>>] /\ shown = NotYet
  /\ UdpTunnelInit
  /\ HandshakeInit /\ (part # "handshake" => client_of[1] = TheNode)
  /\ IF part = "config" THEN ConfigInit
     ELSE /\ phase = "web" /\ web = BaseWeb /\ opts = NoOptions
          /\ extra = [flag |-> FALSE, stun |-> None, rpc |-> None]
          /\ cfg = None /\ now = None

StandaloneNext ==
  /\ UNCHANGED part
  /\ IF part = "reconnect" THEN Subscribed ELSE UNCHANGED allVars
  /\ IF part = "ping" THEN PingNext ELSE UNCHANGED pingVars
  /\ IF part = "punch" THEN PunchNext ELSE UNCHANGED punchVars
  /\ IF part = "server" THEN ServerNext ELSE UNCHANGED keepVars
  /\ IF part = "tcp" THEN TcpNext ELSE UNCHANGED tcpVars
  /\ CASE part = "udp"  -> UdpNext /\ UNCHANGED icmpOnly
       [] part = "icmp" -> IcmpNext /\ UNCHANGED udpOnly
       [] OTHER         -> UNCHANGED <<udpVars, icmpVars>>
  /\ IF part = "fragments" THEN FragNext ELSE UNCHANGED fragVars
  /\ IF part = "bucket" THEN BucketNext ELSE UNCHANGED bucketVars
  /\ IF part = "registry" THEN RegistryNext ELSE UNCHANGED registryVars
  /\ IF part = "read" THEN ReadNext ELSE UNCHANGED readVars
  /\ IF part = "tunnel" THEN UdpTunnelNext ELSE UNCHANGED udpTunnelVars
  /\ IF part = "handshake" THEN HandshakeNext ELSE UNCHANGED handshakeVars
  /\ IF part = "config" THEN ConfigNext ELSE UNCHANGED configVars

StandaloneSpec == StandaloneInit /\ [][StandaloneNext]_StandaloneVars
=============================================================================
