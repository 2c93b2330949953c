------------------------------- MODULE MCNode -------------------------------
(* A model-checking instance of what one node does over its life: the       *)
(* process with its exit nodes on the chain, its listeners, the tasks that  *)
(* connect it to other nodes, by the urls of the configuration and by the   *)
(* addresses peers tell, magic DNS, and its network device.                 *)
(* The initial state decides which of them is at work.                      *)
EXTENDS ExitNodes, ManualConnector, DirectConnector, ListenerManager,
        MagicDns, InstanceNic

CONSTANTS n1, e1, e2

(* One instance is an exit node and has its secret fetched, one neither.    *)
TwoConfigs == << [network |-> n1, peer |-> e1, exit |-> TRUE, merged |-> TRUE],
                 [network |-> n1, peer |-> e2, exit |-> FALSE, merged |-> FALSE] >>

(* Listeners of several protocols, on all interfaces and on one; an address *)
(* of a local network that belongs to somebody else here.                   *)
At4(scheme) == [scheme |-> scheme, host |-> "any4"]
At6(scheme) == [scheme |-> scheme, host |-> "any6"]
On(scheme, host) == [scheme |-> scheme, host |-> host]
IpList(listening, v4, v6, local) ==
  [listeners |-> listening, v4 |-> v4, v6 |-> v6, v6_local |-> local]
SomeIpLists ==
  {IpList(<<At4("tcp"), On("ring", "id")>>, {"lan", "wan"}, {}, {}),
   IpList(<<At6("udp"), At4("tcp")>>, {"lan"}, {"global", "local"}, {"local"}),
   IpList(<<On("tcp", "loopback"), At4("wg"), At6("tcp")>>, {"lan"}, {"global"}, {}),
   IpList(<<>>, {"lan"}, {}, {})}
SomeListeners ==
  {<<At4("tcp"), At4("udp")>>, <<On("wg", "lan")>>, <<At4("quic"), At4("other"), At6("ws")>>}

(* A name that moves, and a route without one.                              *)
TwoTables == {{<<"h", 1>>, <<"", 3>>}, {<<"h", 2>>}}

(* No route, one without address, conflicts, a full network, two networks.  *)
SomeRoutes == {{}, {None}, {<<"s", 1>>}, {<<"s", 2>>, None}, {<<"s", 1>>, <<"s", 2>>},
               {<<"s", 2>>, <<"t", 1>>}}
SomeKinds == [ip : {"v4", "dhcp"}, no_tun : {FALSE}] \cup [ip : {"dhcp"}, no_tun : {TRUE}]

VARIABLE part

NodeVars == <<exitVars, vars, directVars, listenVars, dnsVars, nicVars, part>>

(* What is not at work has one initial state.                               *)
NodeInit ==
  /\ part \in {"exit", "manual", "direct", "listen", "dns", "nic"}
  /\ ExitInit /\ Init /\ DnsInit
  /\ DirectInit /\ (part # "direct" => ip_list.listeners = <<>>)
  /\ NicInit /\ (part # "nic" => kind.ip = "v4")
  /\ IF kind.ip = "dhcp" THEN routes # {} ELSE routes = {}
  /\ IF part = "listen" THEN ListenInit
     ELSE /\ listener_uris = <<>> /\ factories = <<>> /\ loops = <<>> /\ err_count = <<>>
          /\ launched = 0 /\ launch = "ok" /\ running_listeners = {}

NodeNext ==
  /\ UNCHANGED part
  /\ IF part = "exit" THEN ExitNext ELSE UNCHANGED exitVars
  /\ IF part = "manual" THEN Next ELSE UNCHANGED vars
  /\ IF part = "direct" THEN DirectNext ELSE UNCHANGED directVars
  /\ IF part = "listen" THEN ListenNext ELSE UNCHANGED listenVars
  /\ IF part = "dns" THEN DnsNext ELSE UNCHANGED dnsVars
  /\ IF part = "nic" THEN NicNext ELSE UNCHANGED nicVars

(* The fairness of each component while it is the one at work.              *)
NodeFairness ==
  /\ \A i \in Instances : /\ WF_dnsVars(part = "dns" /\ RunOnce(i))
                           /\ WF_dnsVars(part = "dns" /\ BuildTable(i))
  /\ WF_nicVars(part = "nic" /\ NicTask) /\ WF_nicVars(part = "nic" /\ TakeNicCtx)
  /\ WF_exitVars(part = "exit" /\ Main)
  /\ \A i \in Inst : /\ WF_exitVars(part = "exit" /\ Thread(i))
                     /\ WF_exitVars(part = "exit" /\ Execute(i))
                     /\ WF_exitVars(part = "exit" /\ StopTask(i))
  /\ WF_vars(part = "manual" /\ TickStep)
  /\ WF_vars(part = "manual" /\ EventRoutine)
  /\ \A u \in Url : WF_vars(part = "manual" /\ ReconnectTask(u))
  /\ \A c \in Caller : WF_vars(part = "manual" /\ CallStep(c))
  /\ WF_directVars(part = "direct" /\ (DirectLoop \/ NextGroup))
  /\ WF_directVars(part = "direct" /\ PeerExpires)
  /\ SF_directVars(part = "direct" /\ AskIpList)
  /\ \A a \in AllKnown : /\ WF_directVars(part = "direct" /\ a \in DOMAIN attempts /\ Attempt(a))
                         /\ WF_directVars(part = "direct" /\ UrlExpires(a))
  /\ WF_listenVars(part = "listen" /\ (RunOne \/ RunFails \/ RunEnds))
  /\ \A i \in 1 .. MaxListener :
       WF_listenVars(part = "listen" /\ i \in DOMAIN factories /\ ListenStep(i))

NodeSpec == NodeInit /\ [][NodeNext]_NodeVars /\ NodeFairness

(* The listeners alone.                                                     *)
ListenersSpec == NodeInit /\ part = "listen" /\ [][NodeNext]_NodeVars /\ ListenFairness
=============================================================================
