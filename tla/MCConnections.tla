---------------------------- MODULE MCConnections ----------------------------
(* A model-checking instance of the places that keep connections: the map   *)
(* of a node's own peers (PeerMap), the foreign networks it relays for      *)
(* (ForeignNetworks), its port forwards (PortForward); and of what nodes    *)
(* exchange over them: calls (Rpc), link states (PeerCenter) and who serves *)
(* which foreign network (ForeignInfo).  The initial state decides which of *)
(* them is at work.                                                         *)
EXTENDS PeerMap, ForeignNetworks, Rpc, PeerCenter, ForeignInfo, PortForward, TLC

CONSTANTS p1, c1, c2, l1, l2, l3, l4

(* Both connections lead to the same peer.                                  *)
OnePeer == [c \in ConnId |-> p1]

(* Two peers with two connections each, one of them with another secret.    *)
TwoPeers   == l1 :> "a" @@ l2 :> "b" @@ l3 :> "a" @@ l4 :> "b"
OneForeign == l1 :> "n" @@ l2 :> "n" @@ l3 :> "n" @@ l4 :> "m"

(* c1 is a request of two packets, each answer of it one packet too short   *)
(* to be cut; c2 is a request of one packet that a duplicate may get a      *)
(* second, shorter answer.                                                  *)
TwoRequests  == c1 :> 2 @@ c2 :> 1
TwoResponses == c1 :> <<0, 0>> @@ c2 :> <<2, 1>>

(* Two nodes, and a third with a smaller id that may be the center.         *)
OneLink == {{}, {{1, 2}}}

(* A chain of three nodes, the first of which serves a network.             *)
Chain == {<<1, 2>>, <<2, 3>>}
UpToTwo == {{}, {1}, {1, 2}}

(* Two UDP forwards on one port, one of them to an unspecified address, and *)
(* a TCP forward.  The list changes, or the address does, or both.          *)
udp1 == [proto |-> "udp", bind |-> 1, dst |-> 1]
udp0 == [proto |-> "udp", bind |-> 1, dst |-> 3]
tcp1 == [proto |-> "tcp", bind |-> 2, dst |-> 1]
ThreeForwards == {udp1, udp0, tcp1}

Scene(first, portal, ip, r, m, f) ==
  [first |-> first, portal |-> portal, ipv4 |-> ip, reloads |-> r, moves |-> m, flows |-> f]

AtRest == Scene(<<>>, FALSE, 0, 0, 0, 0)
Scenes == {AtRest, Scene(<<tcp1>>, FALSE, 1, 3, 0, 1), Scene(<<udp1>>, FALSE, 1, 2, 1, 1),
           Scene(<<udp1>>, FALSE, 1, 2, 0, 2), Scene(<<udp1>>, FALSE, 1, 0, 2, 3),
           Scene(<<>>, TRUE, 0, 1, 2, 1)}

VARIABLE part

ConnectionsVars == <<vars, foreignVars, rpcVars, centerVars, infoVars, portVars, part>>

ConnectionsInit ==
  /\ part \in {"peers", "foreign", "rpc", "center", "info", "ports"}
  /\ Init /\ ForeignInit /\ RpcInit /\ InfoInit
  /\ CenterInit /\ (links # {} <=> part = "center")
  /\ PortInit /\ (scene # AtRest <=> part = "ports")

ConnectionsNext ==
  /\ UNCHANGED part
  /\ IF part = "peers" THEN Next ELSE UNCHANGED vars
  /\ IF part = "foreign" THEN ForeignNext ELSE UNCHANGED foreignVars
  /\ IF part = "rpc" THEN RpcNext ELSE UNCHANGED rpcVars
  /\ IF part = "center" THEN CenterNext ELSE UNCHANGED centerVars
  /\ IF part = "info" THEN InfoNext ELSE UNCHANGED infoVars
  /\ IF part = "ports" THEN PortNext ELSE UNCHANGED portVars

(* The fairness of each component while it is the one at work; the others   *)
(* have nothing they must do.                                               *)
ConnectionsFairness ==
  /\ \A c \in Link : /\ WF_foreignVars(part = "foreign" /\ (Refuse(c) \/ AddPeerConn(c)))
                     /\ WF_foreignVars(part = "foreign" /\ HandlerStep(c))
  /\ \A c \in Call : /\ WF_rpcVars(part = "rpc" /\ EndWait(c))
                     /\ WF_rpcVars(part = "rpc" /\ RemoveInflight(c))
                     /\ WF_rpcVars(part = "rpc" /\ DropRx(c))
                     /\ WF_rpcVars(part = "rpc" /\ CleanMerger(c))
  /\ WF_centerVars(part = "center" /\ CenterStep)

ConnectionsSpec ==
  ConnectionsInit /\ [][ConnectionsNext]_ConnectionsVars /\ ConnectionsFairness
=============================================================================
