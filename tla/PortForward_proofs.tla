------------------------- MODULE PortForward_proofs --------------------------
(***************************************************************************)
(* What PortForward.tla guarantees, for any forwards, addresses and        *)
(* clients' destinations, and any number of reloads, changes of the        *)
(* address and flows.                                                      *)
(*                                                                         *)
(* ForwardsServe says little of the time before the address has settled,   *)
(* so it is not inductive. That what is listed runs needs to know of the   *)
(* part of the list that was looked at. That an entry is the one of its    *)
(* client needs to know that nobody uses a port of another, for all that   *)
(* hold one: clients, busy forwards, entries and connections. That a       *)
(* client and its entry are of the present network needs to know what each *)
(* step of a datagram has left to the next, and that the client is gone    *)
(* before the network is replaced.                                         *)
(***************************************************************************)
EXTENDS PortForward, TLAPS

(* The forwards that handle a datagram.                                    *)
BusyTasks == {i \in DOMAIN started : task[i].at \in {"insert", "entry", "get"}}

(* Types.                                                                  *)
PortTypes ==
    /\ started \in Seq(Forwards) /\ tokens \subseteq DOMAIN started
    /\ task = [i \in DOMAIN started |-> task[i]]
    /\ \A i \in DOMAIN started : task[i].at \in {"recv", "ended", "insert", "entry", "get"}
    /\ \A k \in DOMAIN config : config[k] \in Forwards
    /\ todo \subseteq DOMAIN config
    /\ updater \in {"top", "parked", "wait", "clients", "replace"}
    /\ flows \in Nat /\ stack.gen \in Nat /\ stack = [ip |-> stack.ip, gen |-> stack.gen]
    /\ clients = [d \in Dsts |-> [port |-> clients[d].port, ip |-> clients[d].ip]]
    /\ DOMAIN replies = Dsts

(* What is listed and has been looked at runs, and nothing else does.      *)
ListInv ==
    /\ \A i \in tokens : \E k \in DOMAIN config : Covers(config[k], started[i])
    /\ todo # {} \/ ~behind => \A k \in DOMAIN config \ todo : Running(config[k])
    /\ ~behind => todo = {}

(* Between two replacements the network has the address taken last.        *)
NetInv == ~Replacing /\ ~idled => stack.ip = prev_ipv4

(* The ports in use, each with the destination it is used for.             *)
ClientClaims == {<<clients[d].port, d>> : d \in {x \in Dsts : clients[x] # NoClient}}
TaskClaims == {<<task[i].port, started[i].dst>> : i \in BusyTasks}
EntryClaims == {<<e.port, e.dst>> : e \in entries}
StreamClaims == {<<c.port, NoIp>> : c \in streams}
Claims == ClientClaims \cup TaskClaims \cup EntryClaims \cup StreamClaims

(* Ports that were given out, and each to one destination.                 *)
PortsApart ==
    /\ \A a \in Claims : a[1] \in Nat /\ 0 < a[1] /\ a[1] <= flows
    /\ \A a, b \in Claims : a[1] = b[1] => a[2] = b[2]

(* A connection over the present network has an entry.                     *)
StreamInv ==
    /\ \A c \in streams : /\ DOMAIN c = {"port", "of", "gen", "ip", "up"}
                          /\ c.gen \in Nat /\ c.gen <= stack.gen
    /\ \A b, c \in streams : b.port = c.port => b = c
    /\ ~Replacing => \A c \in streams : c.up /\ c.gen = stack.gen =>
                        \E e \in entries : e.port = c.port /\ e.dst = NoIp

(* A client is of the present network, and so is what serves it.           *)
ServesClient(d) ==
    /\ clients[d] # NoClient => clients[d].ip = stack.ip
    /\ \A e \in entries : e.port = clients[d].port =>
          /\ e.gen = stack.gen /\ e.ip = stack.ip
          /\ replies[d] = [port |-> e.port, gen |-> e.gen]

(* What a busy task has left for its next step.                            *)
ServesTask(i) ==
    /\ task[i].ip = stack.ip
    /\ task[i].at = "insert" => \A e \in entries : e.port # task[i].port
    /\ task[i].at # "insert" => clients[Key(i)] = [port |-> task[i].port, ip |-> task[i].ip]

(* All of it for one destination.                                          *)
ClientInv(d) ==
    /\ \A i, j \in BusyTasks : Key(i) = d /\ Key(j) = d => i = j
    /\ Replacing => \A i \in BusyTasks : Key(i) # d
    /\ updater = "replace" => clients[d] = NoClient
    /\ ~Replacing /\ stack.ip # NoIp =>
          /\ ServesClient(d)
          /\ \A i \in BusyTasks : Key(i) = d => ServesTask(i)

(* The inductive invariant.                                                *)
PortInv ==
    /\ PortTypes /\ ListInv /\ NetInv /\ PortsApart /\ StreamInv
    /\ \A d \in Dsts \ crossed : ClientInv(d)
-----------------------------------------------------------------------------
(* A forward at the end of those that were started.                        *)
LEMMA PortAppended ==
    ASSUME NEW s \in Seq(Forwards), NEW f \in Forwards
    PROVE  /\ Append(s, f) \in Seq(Forwards)
           /\ DOMAIN Append(s, f) = DOMAIN s \cup {Len(s) + 1}
           /\ \A i \in DOMAIN s : Append(s, f)[i] = s[i]
           /\ Append(s, f)[Len(s) + 1] = f
           /\ Len(s) + 1 \notin DOMAIN s
OBVIOUS

(* The invariant holds when the configured forwards have been started.     *)
LEMMA PortInitInv == PortInit => PortInv
<1> SUFFICES ASSUME PortInit PROVE PortInv
  OBVIOUS
<1> USE PortAssumption DEF PortInit
<1>0. started \in Seq(Forwards) /\ config \in Seq(Forwards)
  OBVIOUS
<1>a. \A i \in DOMAIN started : task[i] = Receiving /\ i \notin BusyTasks /\ task[i].at = "recv"
  BY Zenon DEF Receiving, BusyTasks
<1>b. \A d \in Dsts : clients[d] = NoClient
  OBVIOUS
<1>1. PortTypes
  BY <1>0, <1>a, <1>b DEF PortTypes, NoClient
<1>2. ListInv
  BY Zenon, <1>0 DEF ListInv, Covers, Running
<1>3. NetInv /\ ~Replacing
  BY Zenon DEF NetInv, Replacing
<1>4. PortsApart
  <2>1. Claims = {}
    BY Zenon, <1>a, <1>b DEF Claims, ClientClaims, TaskClaims, EntryClaims, StreamClaims, BusyTasks
  <2> QED  BY Zenon, <2>1 DEF PortsApart
<1>5. StreamInv
  BY Zenon DEF StreamInv
<1>6. \A d \in Dsts : ClientInv(d)
  BY Zenon, <1>a, <1>3 DEF ClientInv, Replacing, BusyTasks
<1> QED  BY Zenon, <1>1, <1>2, <1>3, <1>4, <1>5, <1>6 DEF PortInv

-----------------------------------------------------------------------------
(* What is listed and looked at runs after every step: a reload keeps what *)
(* the list covers and starts the rest in order.                           *)
LEMMA PortListStep ==
    ASSUME PortTypes, ListInv, [PortNext]_portVars
    PROVE  ListInv'
<1>1. CASE UNCHANGED listVars
  BY Zenon, <1>1 DEF ListInv, listVars, Covers, Running
<1>2. ASSUME NEW fs, Reload(fs)
      PROVE  ListInv'
  BY Zenon, <1>2 DEF Reload, ListInv, Retained, Covers
<1>3. ASSUME NEW k \in todo, AddPortForward(k)
      PROVE  ListInv'
  <2> DEFINE new == Len(started) + 1
  <2>0. k \in DOMAIN config /\ config[k] \in Forwards /\ UNCHANGED config /\ todo' = todo \ {k}
        /\ behind' = (todo' # {})
    BY Zenon, <1>3 DEF AddPortForward, PortTypes
  <2>1. \A i \in tokens : i \in DOMAIN started /\ i \in tokens' /\ started'[i] = started[i]
    BY <1>3, <2>0, PortAppended DEF AddPortForward, PortTypes
  <2>2. \A i \in tokens' : i \in tokens \/ started'[i] = config[k]
    BY <1>3, <2>0, PortAppended DEF AddPortForward, PortTypes
  <2>3. Running(config[k])'
    BY <1>3, <2>0, <2>1, PortAppended DEF AddPortForward, PortTypes, Running
  <2>4. \A j \in DOMAIN config \ todo : Running(config[j])'
    BY Zenon, <2>0, <2>1 DEF ListInv, Running
  <2>5. \A i \in tokens' : \E j \in DOMAIN config : Covers(config[j], started[i])'
    BY <2>0, <2>1, <2>2 DEF ListInv, Covers
  <2> QED  BY Zenon, <2>0, <2>3, <2>4, <2>5 DEF ListInv
<1>4. ASSUME NEW k \in todo, BindFails(k)
      PROVE  ListInv'
  BY Zenon, <1>4 DEF BindFails, ListInv, Covers, Running
<1> QED
  BY Zenon, <1>1, <1>2, <1>3, <1>4
  DEF PortNext, portVars, AddRule, RemoveRule, Cancelled, Accept, Opened, RecvFrom, InsertClient,
      MakeEntry, GetEntry, HandleTcpStream, TcpConnect, TcpEnds, ExpireClient, Sweep, Park, Unpark,
      CheckAddress, ClearClients, ReplaceNet, Wake, SetIpv4

(* The network has the address the update task took last.                  *)
LEMMA PortNetStep ==
    ASSUME PortTypes, NetInv, [PortNext]_portVars
    PROVE  NetInv'
<1>1. CASE UNCHANGED netVars
  BY Zenon, <1>1 DEF NetInv, netVars, Replacing
<1>2. CASE UNCHANGED <<updater, prev_ipv4, stack, idled>>
  BY Zenon, <1>2 DEF NetInv, Replacing
<1>3. CASE Park \/ Unpark \/ CheckAddress \/ ClearClients \/ ReplaceNet \/ Wake
  BY <1>3 DEF Park, Unpark, CheckAddress, ClearClients, ReplaceNet, NewNet, Wake, NetInv, Replacing
<1> QED
  BY Zenon, <1>1, <1>2, <1>3
  DEF PortNext, portVars, AddRule, RemoveRule, Reload, AddPortForward, BindFails, Cancelled, Accept,
      Opened, RecvFrom, InsertClient, MakeEntry, GetEntry, HandleTcpStream, TcpConnect, TcpEnds,
      ExpireClient, Sweep, SetIpv4

(* Every step keeps the types.                                             *)
LEMMA PortTypesStep ==
    ASSUME PortTypes, [PortNext]_portVars
    PROVE  PortTypes'
<1>1. CASE UNCHANGED <<started, tokens, task, config, todo, updater, flows, stack, clients, replies>>
  BY Zenon, <1>1 DEF PortTypes, BusyTasks
<1>2. ASSUME NEW f \in Forwards, AddRule(f) \/ RemoveRule(f)
      PROVE  PortTypes'
  BY Zenon, <1>2 DEF AddRule, RemoveRule, Reload, Retained, PortTypes, BusyTasks, flowVars
<1>3. ASSUME NEW k \in todo, AddPortForward(k)
      PROVE  PortTypes'
  <2>0. config[k] \in Forwards
        /\ UNCHANGED <<config, updater, flows, stack, clients, replies>> /\ todo' \subseteq todo
    BY Zenon, <1>3 DEF AddPortForward, PortTypes, flowVars
  <2>1. CASE UNCHANGED <<started, tokens, task>>
    BY Zenon, <2>0, <2>1 DEF PortTypes, BusyTasks
  <2>2. CASE ~Running(config[k])
    <3>1. /\ started' \in Seq(Forwards) /\ tokens' \subseteq DOMAIN started'
          /\ DOMAIN started' = DOMAIN started \cup {Len(started) + 1}
          /\ task' = [i \in DOMAIN started' |-> IF i = Len(started) + 1 THEN Receiving ELSE task[i]]
      <4>1. /\ started' = Append(started, config[k]) /\ tokens' = tokens \cup {Len(started) + 1}
            /\ task' = [i \in DOMAIN started \cup {Len(started) + 1} |->
                          IF i = Len(started) + 1 THEN Receiving ELSE task[i]]
        BY Zenon, <1>3, <2>2 DEF AddPortForward
      <4>2. started' \in Seq(Forwards) /\ DOMAIN started' = DOMAIN started \cup {Len(started) + 1}
        BY Zenon, <4>1, <2>0, PortAppended DEF PortTypes
      <4> QED  BY Zenon, <4>1, <4>2 DEF PortTypes
    <3>2. task' = [i \in DOMAIN started' |-> task'[i]]
      BY Zenon, <3>1
    <3>3. \A i \in DOMAIN started' : task'[i].at \in {"recv", "ended", "insert", "entry", "get"}
      BY Zenon, <3>1 DEF PortTypes, BusyTasks, Receiving
    <3> QED  BY Zenon, <2>0, <3>1, <3>2, <3>3 DEF PortTypes
  <2> QED  BY Zenon, <1>3, <2>1, <2>2 DEF AddPortForward
<1>4. ASSUME NEW k \in todo, BindFails(k)
      PROVE  PortTypes'
  BY Zenon, <1>4 DEF BindFails, PortTypes, BusyTasks, flowVars, netVars
<1>5. ASSUME NEW i \in DOMAIN started, NEW at \in {"recv", "ended", "insert", "entry", "get"}, NEW c,
             Does(i, at, c)
      PROVE  /\ task' = [j \in DOMAIN started |-> task'[j]]
             /\ \A j \in DOMAIN started : task'[j].at \in {"recv", "ended", "insert", "entry", "get"}
  BY Zenon, <1>5 DEF Does, PortTypes, BusyTasks
<1>6. ASSUME NEW i \in DOMAIN started, UNCHANGED <<started, tokens, config, todo, updater, stack>>,
             DOMAIN replies' = Dsts, flows' \in Nat,
             clients' = [d \in Dsts |-> [port |-> clients'[d].port, ip |-> clients'[d].ip]],
             \E at \in {"recv", "ended", "insert", "entry", "get"} : \E c : Does(i, at, c)
      PROVE  PortTypes'
  BY Zenon, <1>5, <1>6 DEF PortTypes, BusyTasks
<1>7. ASSUME NEW i \in DOMAIN started, Cancelled(i)
      PROVE  PortTypes'
  BY Zenon, <1>6, <1>7 DEF Cancelled, listVars, netVars, PortTypes
<1>8. ASSUME NEW i \in DOMAIN started, RecvFrom(i)
      PROVE  PortTypes'
  BY <1>6, <1>8 DEF RecvFrom, Fresh, listVars, netVars, PortTypes
<1>9. ASSUME NEW i \in DOMAIN started, InsertClient(i)
      PROVE  PortTypes'
  <2>1. clients' = [d \in Dsts |-> [port |-> clients'[d].port, ip |-> clients'[d].ip]]
    BY Zenon, <1>9 DEF InsertClient, PortTypes
  <2> QED  BY Zenon, <1>6, <1>9, <2>1 DEF InsertClient, listVars, netVars, PortTypes
<1>10. ASSUME NEW i \in DOMAIN started, MakeEntry(i)
      PROVE  PortTypes'
  BY Zenon, <1>6, <1>10 DEF MakeEntry, listVars, netVars, PortTypes
<1>11. ASSUME NEW i \in DOMAIN started, GetEntry(i)
      PROVE  PortTypes'
  BY Zenon, <1>6, <1>11 DEF GetEntry, listVars, netVars, flowVars, PortTypes
<1>12. ASSUME NEW i, Opened(i)
      PROVE  PortTypes'
  BY <1>12 DEF Opened, Fresh, listVars, netVars, PortTypes, BusyTasks
<1>13. ASSUME NEW d \in Dsts, ExpireClient(d)
      PROVE  PortTypes'
  <2>1. clients' = [k \in Dsts |-> [port |-> clients'[k].port, ip |-> clients'[k].ip]]
    BY Zenon, <1>13 DEF ExpireClient, PortTypes, NoClient
  <2> QED  BY Zenon, <1>13, <2>1 DEF ExpireClient, listVars, netVars, PortTypes, BusyTasks
<1>14. CASE ClearClients
  <2>1. clients' = [k \in Dsts |-> [port |-> clients'[k].port, ip |-> clients'[k].ip]]
    BY Zenon, <1>14 DEF ClearClients, NoClient
  <2> QED  BY Zenon, <1>14, <2>1 DEF ClearClients, listVars, PortTypes, BusyTasks
<1>15. CASE Sweep
  BY Zenon, <1>15 DEF Sweep, listVars, netVars, PortTypes, BusyTasks
<1>16. CASE Park \/ ReplaceNet
  BY <1>16 DEF Park, ReplaceNet, NewNet, listVars, PortTypes, BusyTasks
<1>17. CASE Unpark \/ CheckAddress \/ Wake
  BY Zenon, <1>17 DEF Unpark, CheckAddress, Wake, listVars, flowVars, PortTypes, BusyTasks
<1>18. CASE SetIpv4 \/ UNCHANGED portVars
  BY Zenon, <1>1, <1>18 DEF SetIpv4, portVars, listVars, netVars, flowVars
<1>19. ASSUME NEW c \in streams, TcpConnect(c) \/ TcpEnds(c)
       PROVE  PortTypes'
  BY Zenon, <1>1, <1>19 DEF TcpConnect, TcpEnds, listVars, netVars
<1> QED
  BY Zenon, <1>2, <1>3, <1>4, <1>7, <1>8, <1>9, <1>10, <1>11, <1>12, <1>13, <1>14, <1>15, <1>16, <1>17,
     <1>18, <1>19
  DEF PortNext, Accept, HandleTcpStream

-----------------------------------------------------------------------------
(* Who is busy after a forward was started, or after forward i went on.    *)
LEMMA PortStarts ==
    ASSUME PortTypes, NEW k \in todo, AddPortForward(k)
    PROVE  /\ BusyTasks' = BusyTasks
           /\ \A i \in BusyTasks : task'[i] = task[i] /\ started'[i] = started[i]
<1>0. config[k] \in Forwards
  BY Zenon DEF PortTypes
<1>1. CASE UNCHANGED <<started, task>>
  BY Zenon, <1>1 DEF BusyTasks
<1>2. CASE ~Running(config[k])
  <2>1. /\ started' = Append(started, config[k])
        /\ task' = [j \in DOMAIN started \cup {Len(started) + 1} |->
                      IF j = Len(started) + 1 THEN Receiving ELSE task[j]]
    BY Zenon, <1>2 DEF AddPortForward
  <2>2. DOMAIN started' = DOMAIN started \cup {Len(started) + 1}
        /\ (\A j \in DOMAIN started : started'[j] = started[j])
        /\ Len(started) + 1 \notin DOMAIN started
    BY <1>0, <2>1, PortAppended DEF PortTypes
  <2> QED  BY Zenon, <2>1, <2>2 DEF BusyTasks, Receiving
<1> QED  BY Zenon, <1>1, <1>2 DEF AddPortForward

(* Forward i goes on: the others do what they did.                         *)
LEMMA PortDoes ==
    ASSUME PortTypes, NEW i \in DOMAIN started, NEW at, NEW c, Does(i, at, c), UNCHANGED started
    PROVE  /\ task'[i] = [at |-> at, port |-> c.port, ip |-> c.ip]
           /\ \A j \in DOMAIN started : j # i => task'[j] = task[j]
           /\ BusyTasks' \ {i} = BusyTasks \ {i}
           /\ i \in BusyTasks' <=> at \in {"insert", "entry", "get"}
<1>1. /\ task'[i] = [at |-> at, port |-> c.port, ip |-> c.ip]
      /\ \A j \in DOMAIN started : j # i => task'[j] = task[j]
  BY Zenon DEF Does, PortTypes
<1> QED  BY <1>1 DEF BusyTasks

(* Ports stay apart when nobody but a new flow gets one.                   *)
LEMMA ClaimsKept ==
    ASSUME PortsApart, flows \in Nat, NEW K,
           \/ flows' = flows /\ Claims' \subseteq Claims
           \/ flows' = flows + 1 /\ Claims' \subseteq Claims \cup {<<flows', K>>}
    PROVE  PortsApart'
<1>1. \A a \in Claims : a[1] \in Nat /\ 0 < a[1] /\ a[1] <= flows
  BY Zenon DEF PortsApart
<1>2. \A a \in Claims' : a \in Claims \/ (a = <<flows', K>> /\ flows' = flows + 1)
  OBVIOUS
<1>3. ASSUME NEW a \in Claims'
      PROVE  a[1] \in Nat /\ 0 < a[1] /\ a[1] <= flows'
  BY <1>1, <1>2
<1>4. ASSUME NEW a \in Claims', NEW b \in Claims', a[1] = b[1]
      PROVE  a[2] = b[2]
  BY <1>1, <1>2, <1>4 DEF PortsApart
<1> QED  BY Zenon, <1>3, <1>4 DEF PortsApart

(* Ports stay apart: a step passes a port on to what is of the same        *)
(* destination, or takes the next one.                                     *)
LEMMA PortClaimsStep ==
    ASSUME PortTypes, PortsApart, StreamInv, [PortNext]_portVars
    PROVE  PortsApart'
<1>1. ASSUME NEW K,
             \/ flows' = flows /\ Claims' \subseteq Claims
             \/ flows' = flows + 1 /\ Claims' \subseteq Claims \cup {<<flows', K>>}
      PROVE  PortsApart'
  BY Zenon, <1>1, ClaimsKept DEF PortTypes
<1>2. ASSUME UNCHANGED <<started, task, clients, streams, entries, flows>>
      PROVE  PortsApart'
  <2>1. Claims' = Claims
    BY Zenon, <1>2 DEF Claims, ClientClaims, TaskClaims, EntryClaims, StreamClaims, BusyTasks
  <2> QED  BY Zenon, <1>1, <1>2, <2>1
<1>3. ASSUME NEW k \in todo, AddPortForward(k)
      PROVE  PortsApart'
  <2>1. TaskClaims' \subseteq TaskClaims
    BY Zenon, <1>3, PortStarts DEF TaskClaims
  <2>2. UNCHANGED <<clients, streams, entries, flows>>
    BY Zenon, <1>3 DEF AddPortForward, flowVars
  <2>3. Claims' \subseteq Claims
    BY Zenon, <2>1, <2>2 DEF Claims, ClientClaims, EntryClaims, StreamClaims
  <2> QED  BY Zenon, <1>1, <2>2, <2>3
<1>4. ASSUME UNCHANGED <<started, task, clients, flows>>, entries' \subseteq entries,
             streams' \subseteq streams
      PROVE  PortsApart'
  <2>1. Claims' \subseteq Claims
    BY Zenon, <1>4 DEF Claims, ClientClaims, TaskClaims, EntryClaims, StreamClaims, BusyTasks
  <2> QED  BY Zenon, <1>1, <1>4, <2>1
<1>5. ASSUME NEW i \in DOMAIN started, NEW at \in {"recv", "ended"}, NEW c, Does(i, at, c),
             UNCHANGED <<started, clients, flows>>, entries' \subseteq entries,
             streams' \subseteq streams
      PROVE  PortsApart'
  <2>0. /\ BusyTasks' = BusyTasks \ {i} /\ BusyTasks \subseteq DOMAIN started
        /\ \A j \in DOMAIN started : j # i => task'[j] = task[j]
    BY Zenon, <1>5, PortDoes DEF BusyTasks
  <2>1. Claims' \subseteq Claims
    BY Zenon, <1>5, <2>0 DEF Claims, ClientClaims, TaskClaims, EntryClaims, StreamClaims, Key
  <2> QED  BY Zenon, <1>1, <1>5, <2>1
<1>6. ASSUME NEW i, Opened(i)
      PROVE  PortsApart'
  <2>1. UNCHANGED <<started, task, clients, entries>> /\ flows' = flows + 1
    BY Zenon, <1>6 DEF Opened, Fresh, listVars
  <2>2. \A c \in streams' : c \in streams \/ c.port = flows'
    BY <1>6 DEF Opened
  <2>3. Claims' \subseteq Claims \cup {<<flows', NoIp>>}
    BY Zenon, <2>1, <2>2 DEF Claims, ClientClaims, TaskClaims, EntryClaims, StreamClaims, BusyTasks
  <2> QED  BY Zenon, <1>1, <2>1, <2>3
<1>7. ASSUME NEW c \in streams, TcpConnect(c)
      PROVE  PortsApart'
  <2>1. UNCHANGED <<started, task, clients, flows>>
    BY Zenon, <1>7 DEF TcpConnect, listVars
  <2>2. \A b \in streams' : b \in streams \/ b.port = c.port
    BY Zenon, <1>7 DEF TcpConnect, StreamInv
  <2>3. \A e \in entries' : e \in entries \/ (e.port = c.port /\ e.dst = NoIp)
    BY <1>7 DEF TcpConnect
  <2>4. Claims' \subseteq Claims
    BY Zenon, <2>1, <2>2, <2>3 DEF Claims, ClientClaims, TaskClaims, EntryClaims, StreamClaims, BusyTasks
  <2> QED  BY Zenon, <1>1, <2>1, <2>4
<1>8. ASSUME NEW i \in DOMAIN started, RecvFrom(i)
      PROVE  PortsApart'
  <2>0. UNCHANGED <<started, clients, streams, entries>> /\ Key(i) \in Dsts
    BY <1>8 DEF RecvFrom, listVars, Key, Dsts, PortTypes
  <2>1. CASE clients[Key(i)] # NoClient
    <3>1. Does(i, "entry", clients[Key(i)]) /\ UNCHANGED flows
      BY Zenon, <1>8, <2>1 DEF RecvFrom
    <3>2. task'[i].port = clients[Key(i)].port
          /\ \A j \in BusyTasks' : j = i \/ (j \in BusyTasks /\ task'[j] = task[j])
      BY Zenon, <2>0, <3>1 DEF Does, PortTypes, BusyTasks
    <3>3. <<task'[i].port, Key(i)>> \in ClientClaims
      BY Zenon, <2>0, <2>1, <3>2 DEF ClientClaims
    <3>4. TaskClaims' \subseteq TaskClaims \cup ClientClaims
      BY Zenon, <2>0, <3>2, <3>3 DEF TaskClaims, Key
    <3>5. Claims' \subseteq Claims
      BY Zenon, <2>0, <3>4 DEF Claims, ClientClaims, EntryClaims, StreamClaims
    <3> QED  BY Zenon, <1>1, <3>1, <3>5
  <2>2. CASE ~(clients[Key(i)] # NoClient)
    <3>1. Does(i, "insert", [port |-> flows', ip |-> stack.ip]) /\ flows' = flows + 1
      BY Zenon, <1>8, <2>2 DEF RecvFrom, Fresh
    <3>2. task'[i].port = flows'
          /\ \A j \in BusyTasks' : j = i \/ (j \in BusyTasks /\ task'[j] = task[j])
      BY Zenon, <2>0, <3>1 DEF Does, PortTypes, BusyTasks
    <3>3. Claims' \subseteq Claims \cup {<<flows', Key(i)>>}
      BY Zenon, <2>0, <3>1, <3>2 DEF Claims, ClientClaims, TaskClaims, EntryClaims, StreamClaims, Key
    <3> QED  BY Zenon, <1>1, <3>1, <3>3
  <2> QED  BY Zenon, <2>1, <2>2
<1>9. ASSUME NEW i \in DOMAIN started, InsertClient(i)
      PROVE  PortsApart'
  <2>0. UNCHANGED <<started, flows, streams, entries>> /\ Does(i, "entry", task[i]) /\ i \in BusyTasks
    BY Zenon, <1>9 DEF InsertClient, listVars, BusyTasks
  <2>1. task'[i].port = task[i].port
        /\ \A j \in BusyTasks' : j = i \/ (j \in BusyTasks /\ task'[j] = task[j])
    BY Zenon, <2>0 DEF Does, PortTypes, BusyTasks
  <2>2. \A d \in Dsts : clients'[d] = clients[d] \/ (d = Key(i) /\ clients'[d].port = task[i].port)
    BY Zenon, <1>9 DEF InsertClient, PortTypes
  <2>3. Claims' \subseteq Claims
    BY Zenon, <2>0, <2>1, <2>2 DEF Claims, ClientClaims, TaskClaims, EntryClaims, StreamClaims, Key
  <2> QED  BY Zenon, <1>1, <2>0, <2>3
<1>10. ASSUME NEW i \in DOMAIN started, MakeEntry(i)
      PROVE  PortsApart'
  <2>0. UNCHANGED <<started, flows, streams, clients>> /\ i \in BusyTasks
    BY Zenon, <1>10 DEF MakeEntry, listVars, BusyTasks
  <2>1. CASE EntryOf(task[i].port) # {} \/ stack.ip = NoIp
    <3>1. Does(i, "recv", NoClient) /\ UNCHANGED entries
      BY Zenon, <1>10, <2>1 DEF MakeEntry
    <3> QED  BY Zenon, <1>5, <2>0, <3>1
  <2>2. CASE ~(EntryOf(task[i].port) # {} \/ stack.ip = NoIp)
    <3>1. Does(i, "get", task[i])
          /\ entries' = entries \cup {[port |-> task[i].port, ip |-> task[i].ip,
                                       gen |-> stack.gen, dst |-> Key(i)]}
      BY Zenon, <1>10, <2>2 DEF MakeEntry
    <3>2. task'[i].port = task[i].port
          /\ \A j \in BusyTasks' : j = i \/ (j \in BusyTasks /\ task'[j] = task[j])
      BY Zenon, <2>0, <3>1 DEF Does, PortTypes, BusyTasks
    <3>3. \A e \in entries' : e \in entries \/ (e.port = task[i].port /\ e.dst = Key(i))
      BY <3>1
    <3>4. Claims' \subseteq Claims
      BY Zenon, <2>0, <3>2, <3>3 DEF Claims, ClientClaims, TaskClaims, EntryClaims, StreamClaims, Key
    <3> QED  BY Zenon, <1>1, <2>0, <3>4
  <2> QED  BY Zenon, <2>1, <2>2
<1>11. ASSUME NEW i \in DOMAIN started, GetEntry(i)
      PROVE  PortsApart'
  BY Zenon, <1>5, <1>11 DEF GetEntry, listVars, flowVars
<1>12. ASSUME NEW i \in DOMAIN started, Cancelled(i)
      PROVE  PortsApart'
  BY Zenon, <1>5, <1>12 DEF Cancelled, Ends, listVars
<1>13. ASSUME UNCHANGED <<started, task, flows, streams, entries>>,
              \A d \in Dsts : clients'[d] = clients[d] \/ clients'[d] = NoClient
       PROVE  PortsApart'
  <2>1. Claims' \subseteq Claims
    BY Zenon, <1>13 DEF Claims, ClientClaims, TaskClaims, EntryClaims, StreamClaims, BusyTasks, NoClient
  <2> QED  BY Zenon, <1>1, <1>13, <2>1
<1>14. ASSUME NEW d \in Dsts, ExpireClient(d)
       PROVE  PortsApart'
  BY Zenon, <1>13, <1>14 DEF ExpireClient, PortTypes, listVars
<1>15. CASE ClearClients
  BY Zenon, <1>13, <1>15 DEF ClearClients, listVars
<1>16. CASE Sweep
  BY Zenon, <1>4, <1>16 DEF Sweep, listVars
<1>17. CASE Park \/ ReplaceNet
  BY Zenon, <1>4, <1>17 DEF Park, ReplaceNet, Ends, listVars
<1>18. CASE CheckAddress
  BY Zenon, <1>4, <1>18 DEF CheckAddress, listVars
<1>19. ASSUME NEW c \in streams, TcpEnds(c)
       PROVE  PortsApart'
  BY Zenon, <1>4, <1>19 DEF TcpEnds, Ends, listVars
<1>20. ASSUME NEW fs, Reload(fs)
       PROVE  PortsApart'
  BY Zenon, <1>2, <1>20 DEF Reload, flowVars
<1>21. CASE Unpark \/ Wake \/ SetIpv4 \/ UNCHANGED portVars
  BY Zenon, <1>2, <1>21 DEF Unpark, Wake, SetIpv4, portVars, listVars, flowVars
<1>22. ASSUME NEW k \in todo, BindFails(k)
       PROVE  PortsApart'
  BY Zenon, <1>2, <1>22 DEF BindFails, flowVars
<1> QED
  BY Zenon, <1>3, <1>6, <1>7, <1>8, <1>9, <1>10, <1>11, <1>12, <1>14, <1>15, <1>16, <1>17, <1>18, <1>19,
     <1>20, <1>21, <1>22
  DEF PortNext, AddRule, RemoveRule, Accept, HandleTcpStream

-----------------------------------------------------------------------------
(* Streams that end take the entries of their own ports only.              *)
LEMMA StreamsEnd ==
    ASSUME StreamInv, NEW C \in SUBSET streams, Ends(C), stack'.gen = stack.gen,
           Replacing' => Replacing, Replacing => Replacing'
    PROVE  StreamInv'
<1>1. ASSUME NEW c \in streams', NEW e \in entries, e.port = c.port
      PROVE  e \in entries'
  BY <1>1 DEF Ends, StreamInv
<1>2. streams' \subseteq streams
  BY Zenon DEF Ends
<1> QED  BY Zenon, <1>1, <1>2 DEF StreamInv

(* A connection that is up over the present network keeps its entry.       *)
LEMMA PortStreamsStep ==
    ASSUME PortTypes, PortsApart, StreamInv, [PortNext]_portVars
    PROVE  StreamInv'
<1>1. ASSUME UNCHANGED streams, stack'.gen = stack.gen, Replacing' \/ ~Replacing,
             \A e \in entries : e.dst = NoIp => e \in entries'
      PROVE  StreamInv'
  BY Zenon, <1>1 DEF StreamInv
<1>2. ASSUME UNCHANGED netVars
      PROVE  stack'.gen = stack.gen /\ (Replacing' <=> Replacing)
  BY Zenon, <1>2 DEF netVars, Replacing
<1>3. CASE UNCHANGED <<updater, stack, streams, entries>>
  BY Zenon, <1>1, <1>3 DEF Replacing
<1>4. ASSUME NEW i \in DOMAIN started, InsertClient(i) \/ RecvFrom(i) \/ GetEntry(i)
      PROVE  StreamInv'
  BY Zenon, <1>3, <1>4 DEF InsertClient, RecvFrom, GetEntry, netVars, flowVars
<1>5. ASSUME NEW i \in DOMAIN started, MakeEntry(i)
      PROVE  StreamInv'
  BY Zenon, <1>1, <1>2, <1>5 DEF MakeEntry
<1>6. ASSUME NEW i \in DOMAIN started, Cancelled(i)
      PROVE  StreamInv'
  BY Zenon, <1>2, <1>6, StreamsEnd DEF Cancelled
<1>7. ASSUME NEW c \in streams, TcpEnds(c)
      PROVE  StreamInv'
  BY Zenon, <1>2, <1>7, StreamsEnd DEF TcpEnds
<1>8. ASSUME NEW i, Opened(i)
      PROVE  StreamInv'
  <2> DEFINE n == [port |-> flows', of |-> i, gen |-> stack.gen, ip |-> stack.ip, up |-> FALSE]
  <2>1. /\ UNCHANGED <<netVars, entries>> /\ flows' = flows + 1
        /\ streams' = streams \cup {n}
    BY Zenon, <1>8 DEF Opened, Fresh
  <2>2. \A c \in streams : c.port \in Nat /\ c.port <= flows
    <3>1. \A c \in streams : <<c.port, NoIp>> \in Claims
      BY Zenon DEF Claims, StreamClaims
    <3> QED  BY Zenon, <3>1 DEF PortsApart
  <2>3. \A c \in streams : c.port # flows'
    BY <2>1, <2>2 DEF PortTypes
  <2>4. n.port = flows' /\ n.up = FALSE /\ n.gen = stack.gen /\ stack.gen \in Nat /\ stack.gen <= stack.gen
        /\ DOMAIN n = {"port", "of", "gen", "ip", "up"}
    BY DEF PortTypes
  <2> HIDE DEF n
  <2>5. stack'.gen = stack.gen /\ (Replacing' <=> Replacing)
    BY Zenon, <1>2, <2>1
  <2> QED  BY Zenon, <2>1, <2>3, <2>4, <2>5 DEF StreamInv
<1>9. ASSUME NEW c \in streams, TcpConnect(c)
      PROVE  StreamInv'
  <2> DEFINE u == [c EXCEPT !.up = TRUE]
             n == [port |-> c.port, ip |-> c.ip, gen |-> c.gen, dst |-> NoIp]
  <2>1. streams' = (streams \ {c}) \cup {u} /\ entries' = entries \cup {n} /\ UNCHANGED netVars
    BY Zenon, <1>9 DEF TcpConnect
  <2>2. DOMAIN u = {"port", "of", "gen", "ip", "up"} /\ u.port = c.port /\ u.gen = c.gen
    BY Zenon DEF StreamInv
  <2>3. n.port = c.port /\ n.dst = NoIp
    OBVIOUS
  <2> HIDE DEF u, n
  <2>4. stack'.gen = stack.gen /\ (Replacing' <=> Replacing)
    BY Zenon, <1>2, <2>1
  <2> QED  BY <2>1, <2>2, <2>3, <2>4 DEF StreamInv
<1>10. CASE Sweep
  BY Zenon, <1>1, <1>2, <1>10 DEF Sweep
<1>11. CASE Park
  BY Zenon, <1>11, StreamsEnd DEF Park, Replacing, PortTypes
<1>12. CASE ReplaceNet
  <2>1. streams' \subseteq streams /\ stack'.gen = stack.gen + 1
    BY Zenon, <1>12 DEF ReplaceNet, NewNet, Ends
  <2>2. \A c \in streams : c.gen \in Nat /\ c.gen <= stack.gen
    BY Zenon DEF StreamInv
  <2>3. \A c \in streams : c.gen # stack'.gen /\ c.gen <= stack'.gen
    BY <2>1, <2>2 DEF PortTypes
  <2> QED  BY Zenon, <2>1, <2>3 DEF StreamInv
<1>13. CASE CheckAddress
  <2>1. UNCHANGED <<streams, stack>> /\ updater = "top" /\ (Replacing' \/ entries' = entries)
    BY Zenon, <1>13 DEF CheckAddress, Replacing
  <2>2. Replacing' \/ ~Replacing
    BY Zenon, <2>1 DEF Replacing
  <2>3. CASE Replacing'
    BY Zenon, <2>1, <2>3 DEF StreamInv
  <2>4. CASE entries' = entries
    BY Zenon, <1>1, <2>1, <2>2, <2>4
  <2> QED  BY Zenon, <2>1, <2>3, <2>4
<1>14. CASE ClearClients \/ Unpark \/ Wake
  BY Zenon, <1>1, <1>14 DEF ClearClients, Unpark, Wake, Replacing, flowVars
<1>15. CASE SetIpv4 \/ UNCHANGED portVars
  BY Zenon, <1>3, <1>15 DEF SetIpv4, portVars, netVars, flowVars
<1>16. ASSUME NEW d \in Dsts, ExpireClient(d)
       PROVE  StreamInv'
  BY Zenon, <1>3, <1>16 DEF ExpireClient, netVars
<1>17. ASSUME NEW fs, Reload(fs)
       PROVE  StreamInv'
  BY Zenon, <1>3, <1>17 DEF Reload, flowVars
<1>18. ASSUME NEW k \in todo, AddPortForward(k) \/ BindFails(k)
       PROVE  StreamInv'
  BY Zenon, <1>3, <1>18 DEF AddPortForward, BindFails, flowVars, netVars
<1> QED
  BY Zenon, <1>4, <1>5, <1>6, <1>7, <1>8, <1>9, <1>10, <1>11, <1>12, <1>13, <1>14, <1>15, <1>16, <1>17,
     <1>18
  DEF PortNext, AddRule, RemoveRule, Accept, HandleTcpStream

-----------------------------------------------------------------------------
(* A step that leaves a client alone, and at most adds entries of others.  *)
LEMMA ClientKept ==
    ASSUME NEW d \in Dsts, ClientInv(d),
           \A i \in BusyTasks' : started'[i].dst = d =>
              i \in BusyTasks /\ task'[i] = task[i] /\ started[i].dst = d,
           Replacing' <=> Replacing, updater' = "replace" => updater = "replace",
           stack' = stack \/ stack'.ip = NoIp,
           clients'[d] = clients[d], replies'[d] = replies[d],
           \A e \in entries' : e \in entries \/
              /\ e.port # clients[d].port
              /\ \A i \in BusyTasks : started[i].dst = d => e.port # task[i].port
    PROVE  ClientInv(d)'
<1>1. /\ \A i, j \in BusyTasks' : started'[i].dst = d /\ started'[j].dst = d => i = j
      /\ Replacing' => \A i \in BusyTasks' : started'[i].dst # d
      /\ updater' = "replace" => clients'[d] = NoClient
  BY Zenon DEF ClientInv, Key
<1>2. ASSUME ~Replacing', stack'.ip # NoIp
      PROVE  /\ ServesClient(d)'
             /\ \A i \in BusyTasks' : started'[i].dst = d => ServesTask(i)'
  <2>1. /\ stack' = stack /\ ServesClient(d)
        /\ \A i \in BusyTasks : started[i].dst = d => ServesTask(i)
    BY Zenon, <1>2 DEF ClientInv, Key
  <2>2. ServesClient(d)'
    BY Zenon, <2>1 DEF ServesClient
  <2>3. ASSUME NEW i \in BusyTasks', started'[i].dst = d
        PROVE  ServesTask(i)'
    <3>1. i \in BusyTasks /\ task'[i] = task[i] /\ started[i].dst = d /\ ServesTask(i)
      BY Zenon, <2>1, <2>3
    <3>2. task'[i].at = "insert" => \A e \in entries' : e.port # task'[i].port
      BY Zenon, <3>1 DEF ServesTask
    <3> QED  BY Zenon, <2>1, <2>3, <3>1, <3>2 DEF ServesTask, Key
  <2> QED  BY Zenon, <2>2, <2>3
<1> QED  BY Zenon, <1>1, <1>2 DEF ClientInv, Key

(* The ports of entries, and whose they are.                               *)
LEMMA PortsUsed ==
    ASSUME PortsApart, PortTypes
    PROVE  /\ \A e \in entries : e.port \in Nat /\ 0 < e.port /\ e.port <= flows
           /\ \A i \in BusyTasks : task[i].port \in Nat /\ 0 < task[i].port
           /\ \A c \in streams : c.port \in Nat /\ 0 < c.port
           /\ \A i, j \in BusyTasks : task[i].port = task[j].port => Key(i) = Key(j)
           /\ \A d \in Dsts : \A i \in BusyTasks : clients[d].port = task[i].port => Key(i) = d
           /\ \A d \in Dsts : \A c \in streams : clients[d].port # c.port
           /\ \A i \in BusyTasks : \A c \in streams : task[i].port # c.port
<1> DEFINE E(e) == <<e.port, e.dst>>
           T(i) == <<task[i].port, started[i].dst>>
           C(d) == <<clients[d].port, d>>
           S(c) == <<c.port, NoIp>>
<1>1. /\ \A e \in entries : E(e) \in Claims
      /\ \A i \in BusyTasks : T(i) \in Claims
      /\ \A d \in Dsts : clients[d] # NoClient => C(d) \in Claims
      /\ \A c \in streams : S(c) \in Claims
  BY Zenon DEF Claims, EntryClaims, TaskClaims, ClientClaims, StreamClaims
<1>2. NoClient.port = 0 /\ NoIp \notin Dsts /\ \A i \in BusyTasks : started[i].dst # NoIp
  BY PortAssumption DEF NoClient, Dsts, PortTypes, BusyTasks
<1>3. \A d \in Dsts : clients[d] = NoClient => clients[d].port = 0
  BY Zenon, <1>2
<1>4. \A e \in entries : e.port \in Nat /\ 0 < e.port /\ e.port <= flows
  BY Zenon, <1>1 DEF PortsApart
<1>5. \A i \in BusyTasks : task[i].port \in Nat /\ 0 < task[i].port
  BY Zenon, <1>1 DEF PortsApart
<1>6. \A c \in streams : c.port \in Nat /\ 0 < c.port
  BY Zenon, <1>1 DEF PortsApart
<1>7. \A i, j \in BusyTasks : task[i].port = task[j].port => started[i].dst = started[j].dst
  BY Zenon, <1>1 DEF PortsApart
<1>8. \A d \in Dsts : \A i \in BusyTasks : clients[d].port = task[i].port => started[i].dst = d
  <2> SUFFICES ASSUME NEW d \in Dsts, NEW i \in BusyTasks, clients[d].port = task[i].port
               PROVE  started[i].dst = d
    OBVIOUS
  <2>1. clients[d] # NoClient
    BY <1>3, <1>5
  <2> QED  BY Zenon, <1>1, <2>1 DEF PortsApart
<1>9. \A d \in Dsts : \A c \in streams : clients[d].port # c.port
  <2> SUFFICES ASSUME NEW d \in Dsts, NEW c \in streams, clients[d].port = c.port
               PROVE  FALSE
    OBVIOUS
  <2>1. clients[d] # NoClient
    BY <1>3, <1>6
  <2> QED  BY Zenon, <1>1, <1>2, <2>1 DEF PortsApart
<1>10. \A i \in BusyTasks : \A c \in streams : task[i].port # c.port
  BY Zenon, <1>1, <1>2 DEF PortsApart
<1> HIDE DEF E, T, C, S
<1> QED  BY Zenon, <1>4, <1>5, <1>6, <1>7, <1>8, <1>9, <1>10 DEF Key

(* The client of a destination that no replacement and no second forward   *)
(* crossed is served over the present network.                             *)
LEMMA PortClientsStep ==
    ASSUME PortInv, [PortNext]_portVars, NEW d \in Dsts \ crossed'
    PROVE  ClientInv(d)'
<1>0. PortTypes /\ PortsApart /\ (\A x \in Dsts \ crossed : ClientInv(x))
  BY Zenon DEF PortInv
<1>a. NoClient.port = 0 /\ \A x \in Dsts : clients[x] = NoClient => clients[x].port = 0
  BY DEF NoClient
(* Steps that leave the client alone.                                      *)
<1>1. ASSUME UNCHANGED <<started, task, clients, replies, crossed>>, entries' \subseteq entries,
             Replacing' <=> Replacing, updater' = "replace" => updater = "replace",
             stack' = stack \/ stack'.ip = NoIp
      PROVE  ClientInv(d)'
  <2>1. \A i \in BusyTasks' : i \in BusyTasks
    BY Zenon, <1>1 DEF BusyTasks
  <2>2. ClientInv(d)
    BY Zenon, <1>0, <1>1
  <2> QED  BY Zenon, <1>1, <2>1, <2>2, ClientKept
<1>2. ASSUME UNCHANGED <<started, task, clients, replies, crossed, updater, stack>>,
             entries' \subseteq entries
      PROVE  ClientInv(d)'
  BY Zenon, <1>1, <1>2 DEF Replacing
<1>3. ASSUME NEW k \in todo, AddPortForward(k)
      PROVE  ClientInv(d)'
  <2>1. UNCHANGED <<clients, replies, crossed, updater, stack, entries>>
    BY Zenon, <1>3 DEF AddPortForward, flowVars
  <2>2. Replacing' <=> Replacing
    BY Zenon, <2>1 DEF Replacing
  <2>3. ClientInv(d)
    BY Zenon, <1>0, <2>1
  <2>4. \A i \in BusyTasks' : i \in BusyTasks /\ task'[i] = task[i] /\ started'[i] = started[i]
    BY Zenon, <1>0, <1>3, PortStarts
  <2> QED  BY Zenon, <2>1, <2>2, <2>3, <2>4, ClientKept
<1>4. ASSUME NEW i \in DOMAIN started, NEW at \in {"recv", "ended"}, Does(i, at, NoClient),
             UNCHANGED <<started, updater, stack, clients, replies, crossed>>,
             entries' \subseteq entries
      PROVE  ClientInv(d)'
  <2>1. \A j \in BusyTasks' : j \in BusyTasks /\ task'[j] = task[j]
    BY Zenon, <1>0, <1>4 DEF Does, PortTypes, BusyTasks
  <2>2. Replacing' <=> Replacing
    BY Zenon, <1>4 DEF Replacing
  <2>3. ClientInv(d)
    BY Zenon, <1>0, <1>4
  <2> QED  BY Zenon, <1>4, <2>1, <2>2, <2>3, ClientKept
<1>5. ASSUME NEW i \in DOMAIN started, GetEntry(i)
      PROVE  ClientInv(d)'
  <2>1. /\ UNCHANGED <<started, updater, stack, clients, replies, crossed, entries>>
        /\ Does(i, "recv", NoClient) \/ Does(i, "ended", NoClient)
    BY Zenon, <1>5 DEF GetEntry, listVars, netVars, flowVars
  <2> QED  BY Zenon, <1>4, <2>1
<1>6. ASSUME NEW i \in DOMAIN started, Cancelled(i)
      PROVE  ClientInv(d)'
  <2>1. /\ UNCHANGED <<started, updater, stack, clients, replies, crossed>>
        /\ Does(i, "ended", NoClient) /\ entries' \subseteq entries
    BY Zenon, <1>6 DEF Cancelled, Ends, listVars, netVars
  <2> QED  BY Zenon, <1>4, <2>1
<1>7. ASSUME NEW i, Opened(i)
      PROVE  ClientInv(d)'
  BY Zenon, <1>2, <1>7 DEF Opened, listVars, netVars
<1>8. ASSUME NEW c \in streams, TcpEnds(c)
      PROVE  ClientInv(d)'
  BY Zenon, <1>2, <1>8 DEF TcpEnds, Ends, listVars, netVars
<1>9. ASSUME NEW c \in streams, TcpConnect(c)
      PROVE  ClientInv(d)'
  <2>1. UNCHANGED <<started, task, updater, stack, clients, replies, crossed>>
    BY Zenon, <1>9 DEF TcpConnect, listVars, netVars
  <2>2. (Replacing' <=> Replacing) /\ BusyTasks' = BusyTasks
    BY Zenon, <2>1 DEF Replacing, BusyTasks
  <2>3. \A e \in entries' : e \in entries \/ e.port = c.port
    BY <1>9 DEF TcpConnect
  <2>4. \A e \in entries' : e \in entries \/
           /\ e.port # clients[d].port
           /\ \A i \in BusyTasks : started[i].dst = d => e.port # task[i].port
    BY Zenon, <1>0, <2>3, PortsUsed
  <2>5. ClientInv(d)
    BY Zenon, <1>0, <2>1
  <2> QED  BY Zenon, <2>1, <2>2, <2>4, <2>5, ClientKept
(* A datagram: only this forward is busy for its client.                   *)
<1>10. ASSUME NEW i \in DOMAIN started, RecvFrom(i)
       PROVE  ClientInv(d)'
  <2>0. /\ UNCHANGED <<started, updater, stack, clients, replies, entries>>
        /\ crossed \subseteq crossed'
        /\ crossed' = crossed \/ Key(i) \in crossed'
        /\ Key(i) \notin crossed' => ~Replacing /\ Key(i) \notin Busy
    BY Zenon, <1>10 DEF RecvFrom, Crosses, listVars, netVars
  <2>1. (Replacing' <=> Replacing) /\ ClientInv(d)
    BY Zenon, <1>0, <2>0 DEF Replacing
  <2>2. \A j \in BusyTasks' : j = i \/ (j \in BusyTasks /\ task'[j] = task[j])
    BY Zenon, <1>0, <1>10, <2>0 DEF RecvFrom, Does, PortTypes, BusyTasks
  <2>3. CASE Key(i) # d
    BY Zenon, <2>0, <2>1, <2>2, <2>3, ClientKept DEF Key
  <2>4. CASE Key(i) = d
    <3>1. ~Replacing' /\ d \notin Busy
      BY Zenon, <2>0, <2>1, <2>4
    <3>2. \A j \in BusyTasks' : started'[j].dst = d => j = i
      BY Zenon, <1>0, <2>0, <2>2, <3>1 DEF Busy, Key, BusyTasks
    <3>3. ASSUME stack.ip # NoIp
          PROVE  ServesClient(d)' /\ ServesTask(i)'
      <4>1. ServesClient(d)
        BY Zenon, <2>1, <3>1, <3>3 DEF ClientInv
      <4>2. ServesClient(d)'
        BY Zenon, <2>0, <4>1 DEF ServesClient
      <4>3. CASE clients[d] # NoClient
        <5>1. task'[i] = [at |-> "entry", port |-> clients[d].port, ip |-> clients[d].ip]
          BY Zenon, <1>0, <1>10, <2>4, <4>3 DEF RecvFrom, Does, PortTypes
        <5>2. clients[d] = [port |-> clients[d].port, ip |-> clients[d].ip] /\ clients[d].ip = stack.ip
          BY Zenon, <1>0, <4>1, <4>3 DEF PortTypes, ServesClient
        <5> QED  BY <2>0, <2>4, <4>2, <5>1, <5>2 DEF ServesTask, Key
      <4>4. CASE clients[d] = NoClient
        <5>1. task'[i] = [at |-> "insert", port |-> flows', ip |-> stack.ip] /\ flows' = flows + 1
          BY Zenon, <1>0, <1>10, <2>4, <4>4 DEF RecvFrom, Does, PortTypes, Fresh
        <5>2. \A e \in entries : e.port # flows'
          BY <1>0, <5>1, PortsUsed DEF PortTypes
        <5> QED  BY <2>0, <4>2, <5>1, <5>2 DEF ServesTask
      <4> QED  BY Zenon, <4>3, <4>4
    <3>4. updater' = "replace" => clients'[d] = NoClient
      BY Zenon, <3>1 DEF Replacing
    <3> QED  BY Zenon, <2>0, <3>1, <3>2, <3>3, <3>4 DEF ClientInv, Key
  <2> QED  BY Zenon, <2>3, <2>4
<1>11. ASSUME NEW i \in DOMAIN started, InsertClient(i)
       PROVE  ClientInv(d)'
  <2>0. /\ UNCHANGED <<started, updater, stack, replies, entries, crossed>>
        /\ i \in BusyTasks /\ task[i].at = "insert"
    BY Zenon, <1>11 DEF InsertClient, listVars, netVars, BusyTasks
  <2>1. (Replacing' <=> Replacing) /\ ClientInv(d)
    BY Zenon, <1>0, <2>0 DEF Replacing
  <2>2. /\ task'[i] = [at |-> "entry", port |-> task[i].port, ip |-> task[i].ip]
        /\ \A j \in BusyTasks' : j = i \/ (j \in BusyTasks /\ task'[j] = task[j])
    BY Zenon, <1>0, <1>11, <2>0 DEF InsertClient, Does, PortTypes, BusyTasks
  <2>3. CASE Key(i) # d
    <3>1. clients'[d] = clients[d]
      BY Zenon, <1>0, <1>11, <2>3 DEF InsertClient, PortTypes
    <3> QED  BY Zenon, <2>0, <2>1, <2>2, <2>3, <3>1, ClientKept DEF Key
  <2>4. CASE Key(i) = d
    <3>1. ~Replacing' /\ ~Replacing
      BY Zenon, <2>0, <2>1, <2>4 DEF ClientInv
    <3>2. \A j \in BusyTasks' : started'[j].dst = d => j = i
      BY Zenon, <2>0, <2>1, <2>2, <2>4 DEF ClientInv, Key
    <3>3. clients'[d] = [port |-> task[i].port, ip |-> task[i].ip]
      BY Zenon, <1>0, <1>11, <2>4 DEF InsertClient, PortTypes
    <3>4. ASSUME stack.ip # NoIp
          PROVE  ServesClient(d)' /\ ServesTask(i)'
      <4>1. ServesTask(i)
        BY Zenon, <2>0, <2>1, <2>4, <3>1, <3>4 DEF ClientInv
      <4>2. task[i].ip = stack.ip /\ \A e \in entries : e.port # task[i].port
        BY Zenon, <2>0, <4>1 DEF ServesTask
      <4>3. ServesClient(d)'
        BY <2>0, <3>3, <4>2 DEF ServesClient
      <4> QED  BY <2>0, <2>2, <2>4, <3>3, <4>2, <4>3 DEF ServesTask, Key
    <3>5. updater' = "replace" => clients'[d] = NoClient
      BY Zenon, <3>1 DEF Replacing
    <3> QED  BY Zenon, <2>0, <3>1, <3>2, <3>4, <3>5 DEF ClientInv, Key
  <2> QED  BY Zenon, <2>3, <2>4
<1>12. ASSUME NEW i \in DOMAIN started, MakeEntry(i)
       PROVE  ClientInv(d)'
  <2>0. /\ UNCHANGED <<started, updater, stack, clients, crossed>>
        /\ i \in BusyTasks /\ task[i].at = "entry"
    BY Zenon, <1>12 DEF MakeEntry, listVars, netVars, BusyTasks
  <2>1. (Replacing' <=> Replacing) /\ ClientInv(d)
    BY Zenon, <1>0, <2>0 DEF Replacing
  <2>2. CASE EntryOf(task[i].port) # {} \/ stack.ip = NoIp
    <3>1. Does(i, "recv", NoClient) /\ UNCHANGED <<entries, replies>>
      BY Zenon, <1>12, <2>2 DEF MakeEntry
    <3> QED  BY Zenon, <1>4, <2>0, <3>1
  <2>3. CASE ~(EntryOf(task[i].port) # {} \/ stack.ip = NoIp)
    <3> DEFINE n == [port |-> task[i].port, ip |-> task[i].ip, gen |-> stack.gen, dst |-> Key(i)]
    <3>1. /\ Does(i, "get", task[i]) /\ entries' = entries \cup {n}
          /\ replies' = [replies EXCEPT ![Key(i)] = [port |-> task[i].port, gen |-> stack.gen]]
      BY Zenon, <1>12, <2>3 DEF MakeEntry
    <3>2. n.port = task[i].port /\ n.ip = task[i].ip /\ n.gen = stack.gen
      OBVIOUS
    <3>3. /\ task'[i] = [at |-> "get", port |-> task[i].port, ip |-> task[i].ip]
          /\ \A j \in BusyTasks' : j = i \/ (j \in BusyTasks /\ task'[j] = task[j])
      BY Zenon, <1>0, <2>0, <3>1 DEF Does, PortTypes, BusyTasks
    <3>4. \A e \in entries : e.port # task[i].port
      BY Zenon, <2>3 DEF EntryOf
    <3> HIDE DEF n
    <3>5. CASE Key(i) # d
      <4>1. replies'[d] = replies[d]
        BY Zenon, <1>0, <3>1, <3>5 DEF PortTypes
      <4>2. n.port # clients[d].port /\ \A j \in BusyTasks : started[j].dst = d => n.port # task[j].port
        <5>1. /\ \A j \in BusyTasks : task[i].port = task[j].port => Key(i) = Key(j)
              /\ clients[d].port = task[i].port => Key(i) = d
          BY Zenon, <1>0, <2>0, PortsUsed
        <5> QED  BY Zenon, <3>2, <3>5, <5>1 DEF Key
      <4> QED  BY Zenon, <2>0, <2>1, <3>1, <3>3, <3>5, <4>1, <4>2, ClientKept DEF Key
    <3>6. CASE Key(i) = d
      <4>1. ~Replacing' /\ ~Replacing
        BY Zenon, <2>0, <2>1, <3>6 DEF ClientInv
      <4>2. \A j \in BusyTasks' : started'[j].dst = d => j = i
        BY Zenon, <2>0, <2>1, <3>3, <3>6 DEF ClientInv, Key
      <4>3. ASSUME stack.ip # NoIp
            PROVE  ServesClient(d)' /\ ServesTask(i)'
        <5>1. ServesTask(i)
          BY Zenon, <2>0, <2>1, <3>6, <4>1, <4>3 DEF ClientInv
        <5>2. task[i].ip = stack.ip /\ clients[d] = [port |-> task[i].port, ip |-> task[i].ip]
          BY Zenon, <2>0, <3>6, <5>1 DEF ServesTask
        <5>3. clients[d].port = task[i].port /\ clients[d].ip = stack.ip
          BY <5>2
        <5>4. replies'[d] = [port |-> task[i].port, gen |-> stack.gen]
          BY Zenon, <1>0, <3>1, <3>6 DEF PortTypes
        <5>5. \A e \in entries' : e.port = task[i].port => e = n
          BY Zenon, <3>1, <3>4
        <5>6. ServesClient(d)'
          BY Zenon, <2>0, <3>2, <5>2, <5>3, <5>4, <5>5 DEF ServesClient
        <5> QED  BY <2>0, <3>3, <3>6, <5>2, <5>6 DEF ServesTask, Key
      <4>4. updater' = "replace" => clients'[d] = NoClient
        BY Zenon, <4>1 DEF Replacing
      <4> QED  BY Zenon, <2>0, <4>1, <4>2, <4>3, <4>4 DEF ClientInv, Key
    <3> QED  BY Zenon, <3>5, <3>6
  <2> QED  BY Zenon, <2>2, <2>3
(* The cleanup task.                                                       *)
<1>13. ASSUME UNCHANGED <<started, task, updater, stack, crossed>>, entries' \subseteq entries,
              clients'[d] = NoClient,
              clients[d] # NoClient => \A i \in BusyTasks : Key(i) # d
       PROVE  ClientInv(d)'
  <2>1. (Replacing' <=> Replacing) /\ BusyTasks' = BusyTasks /\ ClientInv(d)
    BY Zenon, <1>0, <1>13 DEF Replacing, BusyTasks
  <2>2. ASSUME ~Replacing, stack.ip # NoIp, NEW i \in BusyTasks, Key(i) = d
        PROVE  ServesTask(i)'
    <3>1. ServesTask(i) /\ clients[d] = NoClient
      BY Zenon, <1>13, <2>1, <2>2 DEF ClientInv
    <3> QED  BY Zenon, <1>13, <2>2, <3>1 DEF ServesTask, Key
  <2>3. ServesClient(d)'
    <3>1. \A e \in entries : e.port # 0
      BY <1>0, PortsUsed
    <3> QED  BY Zenon, <1>13, <1>a, <3>1 DEF ServesClient
  <2> QED  BY Zenon, <1>13, <2>1, <2>2, <2>3 DEF ClientInv, Key
<1>14. ASSUME NEW x \in Dsts, ExpireClient(x)
       PROVE  ClientInv(d)'
  <2>0. UNCHANGED <<started, task, updater, stack, crossed, entries, replies>>
    BY Zenon, <1>14 DEF ExpireClient, listVars, netVars
  <2>1. CASE x = d
    <3>1. clients'[d] = NoClient
      BY Zenon, <1>0, <1>14, <2>1 DEF ExpireClient, PortTypes
    <3>2. \A i \in BusyTasks : Key(i) # d
      BY Zenon, <1>14, <2>1 DEF ExpireClient, BusyTasks
    <3> QED  BY Zenon, <1>13, <2>0, <3>1, <3>2
  <2>2. CASE x # d
    <3>1. clients'[d] = clients[d]
      BY Zenon, <1>0, <1>14, <2>2 DEF ExpireClient, PortTypes
    <3>2. (Replacing' <=> Replacing) /\ BusyTasks' = BusyTasks /\ ClientInv(d)
      BY Zenon, <1>0, <2>0 DEF Replacing, BusyTasks
    <3> QED  BY Zenon, <2>0, <3>1, <3>2, ClientKept
  <2> QED  BY Zenon, <2>1, <2>2
<1>15. CASE Sweep
  <2>0. UNCHANGED <<started, task, updater, stack, crossed, clients>> /\ entries' \subseteq entries
        /\ replies'[d] = IF clients[d] = NoClient THEN NoFlow ELSE replies[d]
    BY Zenon, <1>15 DEF Sweep, listVars, netVars
  <2>1. (Replacing' <=> Replacing) /\ BusyTasks' = BusyTasks /\ ClientInv(d)
    BY Zenon, <1>0, <2>0 DEF Replacing, BusyTasks
  <2>2. CASE clients[d] = NoClient
    BY Zenon, <1>13, <2>0, <2>2
  <2>3. CASE clients[d] # NoClient
    <3>1. replies'[d] = replies[d]
      BY Zenon, <2>0, <2>3
    <3> QED  BY Zenon, <2>0, <2>1, <3>1, ClientKept
  <2> QED  BY Zenon, <2>2, <2>3
(* The update task.                                                        *)
<1>16. CASE CheckAddress
  <2>0. UNCHANGED <<started, task, clients, replies, stack>> /\ updater = "top"
    BY Zenon, <1>16 DEF CheckAddress, listVars
  <2>1. CASE prev_ipv4 = ipv4
    BY Zenon, <1>1, <1>16, <2>0, <2>1 DEF CheckAddress, Replacing
  <2>2. CASE prev_ipv4 # ipv4
    <3>1. updater' = "clients" /\ crossed' = Busy
      BY Zenon, <1>16, <2>2 DEF CheckAddress
    <3>2. \A i \in BusyTasks' : started'[i].dst # d
      BY Zenon, <2>0, <3>1 DEF BusyTasks, Busy, Key
    <3> QED  BY Zenon, <3>1, <3>2 DEF ClientInv, Key, Replacing
  <2> QED  BY Zenon, <2>1, <2>2
<1>17. CASE ClearClients
  <2>0. UNCHANGED <<started, task, crossed>> /\ updater = "clients" /\ updater' = "replace"
        /\ clients'[d] = NoClient
    BY Zenon, <1>17 DEF ClearClients, listVars
  <2>1. BusyTasks' = BusyTasks /\ ClientInv(d) /\ Replacing /\ Replacing'
    BY Zenon, <1>0, <2>0 DEF BusyTasks, Replacing
  <2> QED  BY Zenon, <2>0, <2>1 DEF ClientInv, Key
<1>18. CASE ReplaceNet
  <2>0. UNCHANGED <<started, task, crossed, clients>> /\ updater = "replace" /\ updater' = "wait"
        /\ entries' \subseteq entries
    BY Zenon, <1>18 DEF ReplaceNet, Ends, listVars
  <2>1. BusyTasks' = BusyTasks /\ ClientInv(d) /\ Replacing
    BY Zenon, <1>0, <2>0 DEF BusyTasks, Replacing
  <2>2. clients[d] = NoClient /\ \A i \in BusyTasks : started[i].dst # d
    BY Zenon, <2>0, <2>1 DEF ClientInv, Key
  <2>3. \A e \in entries : e.port # 0
    BY <1>0, PortsUsed
  <2>4. ServesClient(d)'
    BY Zenon, <2>0, <2>2, <2>3, <1>a DEF ServesClient
  <2>5. ~Replacing' /\ updater' # "replace"
    BY Zenon, <2>0 DEF Replacing
  <2> QED  BY Zenon, <2>0, <2>1, <2>2, <2>4, <2>5 DEF ClientInv, Key
<1>19. CASE Park
  BY Zenon, <1>1, <1>19, <1>0 DEF Park, Ends, Replacing, PortTypes, listVars
<1>20. CASE Unpark \/ Wake
  BY Zenon, <1>1, <1>20 DEF Unpark, Wake, Replacing, listVars, flowVars
<1>21. CASE SetIpv4 \/ UNCHANGED portVars
  BY Zenon, <1>2, <1>21 DEF SetIpv4, portVars, listVars, netVars, flowVars
<1>22. ASSUME NEW fs, Reload(fs)
       PROVE  ClientInv(d)'
  BY Zenon, <1>2, <1>22 DEF Reload, flowVars
<1>23. ASSUME NEW k \in todo, BindFails(k)
       PROVE  ClientInv(d)'
  BY Zenon, <1>2, <1>23 DEF BindFails, flowVars, netVars
<1> QED
  BY Zenon, <1>3, <1>5, <1>6, <1>7, <1>8, <1>9, <1>10, <1>11, <1>12, <1>14, <1>15, <1>16, <1>17, <1>18,
     <1>19, <1>20, <1>21, <1>22, <1>23
  DEF PortNext, AddRule, RemoveRule, Accept, HandleTcpStream

-----------------------------------------------------------------------------
(* What the invariant says once the address has settled.                   *)
LEMMA PortInvServes == PortInv => ForwardsServe
<1> SUFFICES ASSUME PortInv PROVE ForwardsServe
  OBVIOUS
<1>0. PortTypes /\ ListInv /\ NetInv /\ StreamInv /\ (\A d \in Dsts \ crossed : ClientInv(d))
  BY Zenon DEF PortInv
<1>1. /\ \A i \in tokens : \E j \in DOMAIN config : Covers(config[j], started[i])
      /\ ~behind => \A j \in DOMAIN config : Running(config[j])
  BY Zenon, <1>0 DEF ListInv
<1>2. ASSUME Settled
      PROVE  ~Replacing /\ prev_ipv4 = ipv4
  BY Zenon, <1>2 DEF Settled, Replacing
<1>3. \A e \in entries : TakesPacket(e.port)
  BY Zenon DEF TakesPacket, EntryOf
<1>4. ASSUME Settled, ~idled
      PROVE  stack.ip = ipv4
  BY Zenon, <1>0, <1>2, <1>4 DEF NetInv
<1>5. ASSUME Settled, NEW c \in streams, c.up, c.gen = stack.gen
      PROVE  TakesPacket(c.port)
  BY Zenon, <1>0, <1>2, <1>3, <1>5 DEF StreamInv
<1>6. ASSUME Settled, NEW d \in Dsts \ (crossed \cup Busy), NEW e \in EntryOf(clients[d].port),
             stack.ip # NoIp
      PROVE  /\ TakesPacket(e.port) /\ e.gen = stack.gen /\ e.ip = stack.ip
             /\ replies[d] = [port |-> e.port, gen |-> e.gen]
  <2>1. e \in entries /\ e.port = clients[d].port
    BY Zenon DEF EntryOf
  <2>2. ServesClient(d)
    BY Zenon, <1>0, <1>2, <1>6 DEF ClientInv
  <2> QED  BY Zenon, <1>3, <2>1, <2>2 DEF ServesClient
<1> QED  BY Zenon, <1>1, <1>4, <1>5, <1>6 DEF ForwardsServe

(* ForwardsServe holds always (reload_port_forwards, run_net_update_task   *)
(* and the tasks of the forwards in gateway/socks5.rs): what runs is what  *)
(* is listed, the network has the node's address, and connections and UDP  *)
(* clients have their packets taken, for any forwards and any number of    *)
(* reloads, changes of the address and flows.                              *)
THEOREM ForwardsAlwaysServe == PortSpec => []ForwardsServe
<1>1. PortInv /\ [PortNext]_portVars => PortInv'
  <2> SUFFICES ASSUME PortInv, [PortNext]_portVars PROVE PortInv'
    OBVIOUS
  <2>0. PortTypes /\ ListInv /\ NetInv /\ PortsApart /\ StreamInv
    BY Zenon DEF PortInv
  <2>1. PortTypes' /\ ListInv' /\ NetInv' /\ PortsApart' /\ StreamInv'
    BY Zenon, <2>0, PortTypesStep, PortListStep, PortNetStep, PortClaimsStep, PortStreamsStep
  <2>2. \A d \in Dsts \ crossed' : ClientInv(d)'
    BY Zenon, PortClientsStep
  <2> QED  BY Zenon, <2>1, <2>2 DEF PortInv
<1> QED  BY <1>1, PortInitInv, PortInvServes, PTL DEF PortSpec
=============================================================================
