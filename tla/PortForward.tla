---------------------------- MODULE PortForward -----------------------------
(***************************************************************************)
(* Port forwards and the SOCKS5 portal (gateway/socks5.rs), and the RPCs   *)
(* that change the list of forwards (PortForwardManageRpc of instance.rs). *)
(* Connections and datagrams of local clients go through a user-space      *)
(* network that has the node's address; an entry says which packets from   *)
(* peers belong to it.  When the address changes a task drops the entries  *)
(* and the clients and replaces the network, while the forwards go on.     *)
(*                                                                         *)
(* A flow is a TCP connection or what a UDP client has been given: it is   *)
(* named by its local port, which nobody gets twice.  There is one UDP     *)
(* client, so that its destination is the key of what is kept for it.      *)
(* Connections over KCP have no entry and are left out.  RPCs come one     *)
(* after the other.                                                        *)
(***************************************************************************)
EXTENDS Naturals, Sequences

CONSTANTS Forwards,       \* records [proto, bind, dst]
          AnyDst,         \* an unspecified dst
          Ips, NoIp,
          PortScenes      \* records: the forwards of the configuration, whether
                          \* there is a SOCKS5 portal, the address, and bounds of
                          \* RPCs, changes of the address, and flows

ASSUME PortAssumption == /\ \A s \in PortScenes : s.first \in Seq(Forwards)
                         /\ \A f \in Forwards : f.dst # NoIp

VARIABLES scene,       \* the scene, which stays
          config,      \* the list in the configuration: position -> forward
          todo,        \* the RPC: positions its reload has yet to look at
          behind,      \* history: part of the list has not been started
          reloads, started,   \* started[i]: the i-th forward that was started
          tokens,      \* the values of cancel_tokens, as indexes of started
          task,        \* task[i]: what the i-th forward is doing
          permit,      \* port_forward_list_change_notifier
          updater, prev_ipv4, stack,   \* the update task and the network, of address
                       \* NoIp while there is none
          ipv4, moves, \* the node's address
          flows,       \* flows given out so far
          streams,     \* live connections
          entries, clients, replies,    \* entries, udp_client_map, udp_forward_task
          idled,       \* history: the network was taken when there was no forward
          crossed      \* history: destinations for which a UDP forward was busy while
                       \* the network was replaced, or two were at a time

listVars == <<scene, config, todo, behind, reloads, started, tokens>>
netVars == <<permit, updater, prev_ipv4, stack, idled>>
flowVars == <<flows, streams, entries, clients, replies>>
portVars == <<listVars, task, netVars, ipv4, moves, flowVars, crossed>>

NoClient == [port |-> 0, ip |-> NoIp]
NoFlow == [port |-> 0, gen |-> 0]
Receiving == [at |-> "recv", port |-> 0, ip |-> NoIp]
Dsts == {f.dst : f \in Forwards}
Portal == scene.portal

(* run() has started the configured forwards, and the portal listens.      *)
PortInit ==
    /\ scene \in PortScenes
    /\ config = scene.first /\ todo = {} /\ behind = FALSE /\ reloads = 0
    /\ started = scene.first /\ tokens = DOMAIN scene.first
    /\ task = [i \in DOMAIN scene.first |-> Receiving]
    /\ permit = TRUE /\ updater = "top" /\ prev_ipv4 = NoIp /\ stack = [ip |-> NoIp, gen |-> 0]
    /\ ipv4 = scene.ipv4 /\ moves = 0
    /\ flows = 0 /\ streams = {} /\ entries = {}
    /\ clients = [d \in Dsts |-> NoClient] /\ replies = [d \in Dsts |-> NoFlow]
    /\ idled = FALSE /\ crossed = {}

-----------------------------------------------------------------------------
(* reload_port_forwards: what is not in the list is cancelled; a listed    *)
(* forward to an unspecified address keeps any with its bind address.      *)
Covers(f, k) == IF f.dst = AnyDst THEN k.bind = f.bind /\ k.proto = f.proto ELSE k = f

Retained(fs) == {i \in tokens : \E j \in DOMAIN fs : Covers(fs[j], started[i])}

(* add_port_forward and remove_port_forward of the RPC service store the   *)
(* list and reload it.                                                     *)
Reload(fs) ==
    /\ todo = {} /\ reloads < scene.reloads /\ reloads' = reloads + 1
    /\ config' = fs /\ todo' = DOMAIN fs /\ behind' = (DOMAIN fs # {})
    /\ tokens' = Retained(fs)
    /\ permit' = (permit \/ DOMAIN fs = {})
    /\ UNCHANGED <<scene, started, task, updater, prev_ipv4, stack, idled, ipv4, moves, flowVars,
                   crossed>>

NewPlace == Len(scene.first) + reloads + 1
AddRule(f) == Reload([k \in DOMAIN config \cup {NewPlace} |-> IF k = NewPlace THEN f ELSE config[k]])
RemoveRule(f) == Reload([k \in {j \in DOMAIN config : config[j] # f} |-> config[k]])

Running(f) == \E i \in tokens : started[i] = f

(* The next of the list is started unless it runs; after the last one the  *)
(* update task is told.                                                    *)
Upcoming(k) == \A j \in todo : k <= j

AddPortForward(k) ==
    /\ Upcoming(k)
    /\ IF Running(config[k]) THEN UNCHANGED <<started, tokens, task>>
       ELSE LET new == Len(started) + 1
            IN  /\ started' = Append(started, config[k])
                /\ tokens' = tokens \cup {new}
                /\ task' = [i \in DOMAIN started \cup {new} |-> IF i = new THEN Receiving ELSE task[i]]
    /\ todo' = todo \ {k}
    /\ behind' = (todo' # {})
    /\ permit' = (permit \/ todo' = {})
    /\ UNCHANGED <<scene, config, reloads, updater, prev_ipv4, stack, idled, ipv4, moves,
                   flowVars, crossed>>

(* Its address cannot be bound: the reload ends, the list stays.           *)
BindFails(k) ==
    /\ Upcoming(k) /\ ~Running(config[k])
    /\ todo' = {}
    /\ UNCHANGED <<scene, config, behind, reloads, started, tokens, task, netVars, ipv4, moves,
                   flowVars, crossed>>

(* The token of a forward is gone: its task ends when it is receiving, and *)
(* its connections with it, whose connectors remove their entries.         *)
Does(i, at, c) == task' = [task EXCEPT ![i] = [at |-> at, port |-> c.port, ip |-> c.ip]]

Ends(C) ==
    /\ streams' = streams \ C
    /\ entries' = {e \in entries : e.port \notin {c.port : c \in C}}

Cancelled(i) ==
    /\ i \notin tokens /\ task[i] = Receiving
    /\ Does(i, "ended", NoClient)
    /\ Ends({c \in streams : c.of = i})
    /\ UNCHANGED <<listVars, netVars, ipv4, moves, flows, clients, replies, crossed>>

-----------------------------------------------------------------------------
(* A connection of a client to forward i: without a network it is closed.  *)
Fresh == flows < scene.flows /\ flows' = flows + 1

Opened(i) ==
    /\ stack.ip # NoIp /\ Fresh
    /\ streams' = streams \cup {[port |-> flows', of |-> i, gen |-> stack.gen, ip |-> stack.ip,
                                 up |-> FALSE]}
    /\ UNCHANGED <<listVars, task, netVars, ipv4, moves, entries, clients, replies, crossed>>

Accept(i) ==
    /\ i \in tokens /\ started[i].proto = "tcp" /\ task[i] = Receiving
    /\ Opened(i)

(* handle_tcp_stream: a connection to the portal is a task of the network. *)
HandleTcpStream == Portal /\ Opened(0)

(* SmolTcpConnector::tcp_connect                                           *)
TcpConnect(c) ==
    /\ c \in streams /\ ~c.up
    /\ streams' = (streams \ {c}) \cup {[c EXCEPT !.up = TRUE]}
    /\ entries' = entries \cup {[port |-> c.port, ip |-> c.ip, gen |-> c.gen, dst |-> NoIp]}
    /\ UNCHANGED <<listVars, task, netVars, ipv4, moves, flows, clients, replies, crossed>>

(* The connection ends, or could not be made.                              *)
TcpEnds(c) ==
    /\ c \in streams /\ Ends({c})
    /\ UNCHANGED <<listVars, task, netVars, ipv4, moves, flows, clients, replies, crossed>>

-----------------------------------------------------------------------------
(* A datagram for UDP forward i.  The client is looked up, or gets a port  *)
(* and the address the network has now.                                    *)
Key(i) == started[i].dst
Replacing == updater \in {"clients", "replace"}
Busy == {Key(i) : i \in {j \in DOMAIN started : task[j].at \notin {"recv", "ended"}}}
Crosses(i) == crossed' = IF Replacing \/ Key(i) \in Busy THEN crossed \cup {Key(i)} ELSE crossed

RecvFrom(i) ==
    /\ i \in tokens /\ started[i].proto = "udp" /\ task[i] = Receiving
    /\ IF clients[Key(i)] # NoClient
       THEN Does(i, "entry", clients[Key(i)]) /\ UNCHANGED flows
       ELSE /\ stack.ip # NoIp /\ Fresh
            /\ Does(i, "insert", [port |-> flows', ip |-> stack.ip])
    /\ Crosses(i)
    /\ UNCHANGED <<listVars, netVars, ipv4, moves, streams, entries, clients, replies>>

InsertClient(i) ==
    /\ task[i].at = "insert"
    /\ clients' = [clients EXCEPT ![Key(i)] = [port |-> task[i].port, ip |-> task[i].ip]]
    /\ Does(i, "entry", task[i])
    /\ UNCHANGED <<listVars, netVars, ipv4, moves, flows, streams, entries, replies, crossed>>

EntryOf(port) == {e \in entries : e.port = port}

(* With an entry the datagram is sent.  Otherwise the network is locked, a *)
(* socket bound and the entry inserted, with a task that returns replies.  *)
MakeEntry(i) ==
    /\ task[i].at = "entry"
    /\ IF EntryOf(task[i].port) # {} \/ stack.ip = NoIp
       THEN Does(i, "recv", NoClient) /\ UNCHANGED <<entries, replies>>
       ELSE /\ entries' = entries \cup {[port |-> task[i].port, ip |-> task[i].ip,
                                        gen |-> stack.gen, dst |-> Key(i)]}
            /\ replies' = [replies EXCEPT ![Key(i)] = [port |-> task[i].port, gen |-> stack.gen]]
            /\ Does(i, "get", task[i])
    /\ UNCHANGED <<listVars, netVars, ipv4, moves, flows, streams, clients, crossed>>

(* entries.get(..).unwrap(): if the entry is gone already, the task panics.*)
GetEntry(i) ==
    /\ task[i].at = "get"
    /\ IF EntryOf(task[i].port) # {} THEN Does(i, "recv", NoClient) ELSE Does(i, "ended", NoClient)
    /\ UNCHANGED <<listVars, netVars, ipv4, moves, flowVars, crossed>>

(* The cleanup task: clients idle for ten minutes, then what has no client.*)
ExpireClient(d) ==
    /\ clients[d] # NoClient
    /\ \A i \in DOMAIN started : Key(i) = d => task[i].at \in {"recv", "ended"}
    /\ clients' = [clients EXCEPT ![d] = NoClient]
    /\ UNCHANGED <<listVars, task, netVars, ipv4, moves, flows, streams, entries, replies, crossed>>

Sweep ==
    /\ \E i \in DOMAIN started : started[i].proto = "udp"
    /\ replies' = [d \in Dsts |-> IF clients[d] = NoClient THEN NoFlow ELSE replies[d]]
    /\ entries' = {e \in entries : e.dst = NoIp \/ clients[e.dst] # NoClient}
    /\ UNCHANGED <<listVars, task, netVars, ipv4, moves, flows, streams, clients, crossed>>

-----------------------------------------------------------------------------
(* run_net_update_task.  Without forwards and portal the network is taken  *)
(* until the list changes, and what address it had is not forgotten.       *)
Locked == \E i \in DOMAIN started : task[i].at = "get"

Park ==
    /\ updater = "top" /\ tokens = {} /\ ~Portal /\ ~Locked
    /\ stack' = [stack EXCEPT !.ip = NoIp] /\ updater' = "parked" /\ idled' = TRUE
    /\ Ends({c \in streams : c.of = 0})
    /\ UNCHANGED <<listVars, task, permit, prev_ipv4, ipv4, moves, flows, clients, replies,
                   crossed>>

Unpark ==
    /\ updater = "parked" /\ permit
    /\ permit' = FALSE /\ updater' = "top"
    /\ UNCHANGED <<listVars, task, prev_ipv4, stack, idled, ipv4, moves, flowVars, crossed>>

(* A new address: the entries go, then the clients, then the network.      *)
CheckAddress ==
    /\ updater = "top" /\ (tokens # {} \/ Portal)
    /\ IF prev_ipv4 = ipv4
       THEN updater' = "wait" /\ UNCHANGED <<prev_ipv4, entries, crossed>>
       ELSE /\ updater' = "clients" /\ prev_ipv4' = ipv4
            /\ entries' = {} /\ crossed' = Busy
    /\ UNCHANGED <<listVars, task, permit, stack, idled, ipv4, moves, flows, streams, clients,
                   replies>>

(* Mutant: the clients of the old address are kept.                        *)
KeepClients ==
    /\ updater = "clients" /\ updater' = "replace"
    /\ UNCHANGED <<listVars, task, permit, prev_ipv4, stack, idled, ipv4, moves, flowVars, crossed>>

ClearClients ==
    /\ updater = "clients" /\ updater' = "replace"
    /\ clients' = [d \in Dsts |-> NoClient]
    /\ UNCHANGED <<listVars, task, permit, prev_ipv4, stack, idled, ipv4, moves, flows, streams,
                   entries, replies, crossed>>

(* Socks5ServerNet::new: a stack with the address, and the tasks that      *)
(* carry its packets.                                                      *)
NewNet(ip) == [ip |-> ip, gen |-> stack.gen + 1]

(* The connections of the portal belong to the old network and are ended.  *)
ReplaceNet ==
    /\ updater = "replace" /\ ~Locked
    /\ stack' = NewNet(prev_ipv4)
    /\ updater' = "wait" /\ idled' = FALSE
    /\ Ends({c \in streams : c.of = 0})
    /\ UNCHANGED <<listVars, task, permit, prev_ipv4, ipv4, moves, flows, clients, replies,
                   crossed>>

(* An event, or two minutes.                                               *)
Wake ==
    /\ updater = "wait" /\ updater' = "top"
    /\ UNCHANGED <<listVars, task, permit, prev_ipv4, stack, idled, ipv4, moves, flowVars, crossed>>

SetIpv4 ==
    /\ moves < scene.moves /\ moves' = moves + 1
    /\ ipv4' \in (Ips \cup {NoIp}) \ {ipv4}
    /\ UNCHANGED <<listVars, task, netVars, flowVars, crossed>>

PortNext ==
    \/ (\E f \in Forwards : AddRule(f) \/ RemoveRule(f))
    \/ \E k \in todo : AddPortForward(k) \/ BindFails(k)
    \/ \E i \in DOMAIN started : \/ Cancelled(i) \/ Accept(i) \/ RecvFrom(i) \/ InsertClient(i)
                                  \/ MakeEntry(i) \/ GetEntry(i)
    \/ HandleTcpStream
    \/ \E c \in streams : TcpConnect(c) \/ TcpEnds(c)
    \/ (\E d \in Dsts : ExpireClient(d)) \/ Sweep
    \/ Park \/ Unpark \/ CheckAddress \/ ClearClients \/ ReplaceNet \/ Wake \/ SetIpv4

PortSpec == PortInit /\ [][PortNext]_portVars

-----------------------------------------------------------------------------
(* try_process_packet_from_peer: a packet to a port, from its destination. *)
TakesPacket(port) ==
    /\ tokens # {} \/ entries # {} \/ Portal
    /\ EntryOf(port) # {}

Settled == updater = "wait" /\ prev_ipv4 = ipv4

(* What runs is what is listed: no forward runs that the list does not     *)
(* cover, and unless a reload failed all that are listed run.  When the    *)
(* address has settled, the network has it, unless it was taken while      *)
(* there was no forward; every connection over it has its packets taken;   *)
(* and a UDP client that has an entry sends from the address that replies  *)
(* are taken for, to the task that returns them, unless a forward handled  *)
(* a datagram of it while the network was replaced, or two did at a time.  *)
ForwardsServe ==
    /\ \A i \in tokens : \E j \in DOMAIN config : Covers(config[j], started[i])
    /\ ~behind => \A j \in DOMAIN config : Running(config[j])
    /\ Settled =>
         /\ ~idled => stack.ip = ipv4
         /\ \A c \in streams : c.up /\ c.gen = stack.gen => TakesPacket(c.port)
         /\ \A d \in Dsts \ (crossed \cup Busy) : \A e \in EntryOf(clients[d].port) :
              stack.ip # NoIp => /\ TakesPacket(e.port) /\ e.gen = stack.gen /\ e.ip = stack.ip
                             /\ replies[d] = [port |-> e.port, gen |-> e.gen]
=============================================================================
