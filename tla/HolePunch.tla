----------------------------- MODULE HolePunch ------------------------------
(***************************************************************************)
(* UDP hole punching, connector/udp_hole_punch.  Every node looks for      *)
(* peers it has no connection to and whose NAT, with its own, allows it to *)
(* start, and runs a task for each.  A task first tries the method for two *)
(* cone NATs; if its own NAT is symmetric it then takes the lock of the    *)
(* node and asks the peer, by RPC, to send packets to it.  The peer does   *)
(* so only if it gets its own lock at once.  How often and to which ports  *)
(* packets are sent, and how long a task sleeps, is left out: a method     *)
(* brings a tunnel, none, or an error.                                     *)
(***************************************************************************)
EXTENDS Naturals, Sequences, FiniteSets

CONSTANTS Peer,         \* peers: numbers
          Settings,     \* what the nodes may be: [nat, disable_sym, no_service]
          NewNat,       \* a NAT type the first node may find out to have later
          MaxLosses     \* bound: connections lost

VARIABLES nat,       \* [Peer -> NAT type]
          setting,   \* peers with disable_sym_hole_punching, peers that do not serve
          linked,    \* pairs of peers with a connection
          losses,
          blacklist, \* [Peer -> set of peers]
          table,     \* [Peer -> peer_task_map]
          lock,      \* [Peer -> SYM_PUNCH_LOCK: its holder and those who wait ->
                     \* who was there before them]
          serving    \* [Peer -> peers whose request is being handled]

punchVars == <<nat, setting, linked, losses, blacklist, table, lock, serving>>

Sym(t) == t \in {"hard", "inc", "dec"}
Easy(t) == t \in {"inc", "dec"}

get_punch_hole_method(n, my, other) ==
    LET Unless(sym, method) == IF sym THEN "None" ELSE method
    IN  IF n \in setting.disable_sym /\ Sym(my) THEN Unless(Sym(other), "ConeToCone")
        ELSE IF other = "unknown" THEN IF Sym(my) THEN "SymToCone" ELSE "ConeToCone"
        ELSE IF my = "unknown" THEN Unless(Sym(other), "ConeToCone")
        ELSE IF my = "open" \/ other = "open" THEN "None"
        ELSE IF my = "cone" THEN Unless(Sym(other), "ConeToCone")
        ELSE IF Easy(my) /\ Easy(other) THEN "EasySymToEasySym"
        ELSE Unless(Sym(other), "SymToCone")

can_punch_hole_as_client(n, m, my, other) ==
    LET method == get_punch_hole_method(n, my, other)
    IN  method # "None" /\ (method = "EasySymToEasySym" => n < m)

Item(n, m) == [dst |-> m, my |-> nat[n], their |-> nat[m]]
Method(n, i) == get_punch_hole_method(n, i.my, i.their)

Needs(n, m) == /\ m # n /\ nat[n] # "open" /\ m \notin blacklist[n] /\ {n, m} \notin linked
               /\ can_punch_hole_as_client(n, m, nat[n], nat[m])

(* A fair lock: who enters waits for all that are there, and holds it when *)
(* they have left.                                                         *)
Unlocked == [w \in {} |-> {}]
Entered(l, who) == [w \in DOMAIN l \cup {who} |-> IF w = who THEN DOMAIN l ELSE l[w]]
Without(l, gone) == [w \in DOMAIN l \ gone |-> l[w] \ gone]
Holds(n, who) == who \in DOMAIN lock[n] /\ lock[n][who] = {}

PunchInit ==
    /\ \E s \in Settings : /\ nat = s.nat
                           /\ setting = [disable_sym |-> s.disable_sym, no_service |-> s.no_service]
    /\ linked = {} /\ losses = 0
    /\ blacklist = [n \in Peer |-> {}]
    /\ table = [n \in Peer |-> <<>>]
    /\ lock = [n \in Peer |-> Unlocked] /\ serving = [n \in Peer |-> {}]

-----------------------------------------------------------------------------
(* The main loop of peers/peer_task.rs collects the peers that need a      *)
(* task, aborts the tasks that are finished or needed no more, launches    *)
(* the missing ones, and sleeps.                                           *)
ToRemove(tasks, wanted) == {i \in DOMAIN tasks : i \notin wanted \/ tasks[i].pc = "finished"}

AfterLoop(tasks, wanted, new) ==
    [i \in wanted |-> IF i \in DOMAIN tasks \ ToRemove(tasks, wanted) THEN tasks[i] ELSE new]

CollectPeers(n) == {Item(n, m) : m \in {p \in Peer : Needs(n, p)}}

Client(i) == [by |-> "client", item |-> i]
Server(f) == [by |-> "server", from |-> f]

(* The guard of an aborted task is dropped with it.                        *)
LockFreed(n, gone) == Without(lock[n], {Client(i) : i \in gone})

MainLoop(n) ==
    /\ table' = [table EXCEPT ![n] = AfterLoop(@, CollectPeers(n), [pc |-> "sleep"])]
    /\ table' # table
    /\ lock' = [lock EXCEPT ![n] = LockFreed(n, ToRemove(table[n], CollectPeers(n)))]
    /\ UNCHANGED <<nat, setting, linked, losses, blacklist, serving>>

-----------------------------------------------------------------------------
(* The tasks                                                               *)
Pc(n, i) == table[n][i].pc
Goto(n, i, pc) == table' = [table EXCEPT ![n][i].pc = pc]

Success(n, i) == linked' = linked \cup {{n, i.dst}} /\ Goto(n, i, "finished")

(* handle_rpc_result: a peer that lacks the service is not asked again for *)
(* an hour.                                                                *)
Unserved(n, i) == blacklist' = [blacklist EXCEPT ![n] = @ \cup {i.dst}]

(* After a sleep, the cone method, first in all three tasks.  A node on    *)
(* the blacklist is not asked.                                             *)
DoConePunching(n, i) ==
    /\ Pc(n, i) = "sleep"
    /\ \/ i.dst \notin setting.no_service \cup blacklist[n] /\ Success(n, i)
          /\ UNCHANGED <<blacklist, lock>>
       \/ /\ IF i.dst \in setting.no_service THEN Unserved(n, i) ELSE UNCHANGED blacklist
          /\ IF Method(n, i) = "ConeToCone" THEN Goto(n, i, "sleep") /\ UNCHANGED lock
             ELSE Goto(n, i, "lock") /\ lock' = [lock EXCEPT ![n] = Entered(@, Client(i))]
          /\ UNCHANGED linked
    /\ UNCHANGED <<nat, setting, losses, serving>>

Release(n, i) == lock' = [lock EXCEPT ![n] = Without(@, {Client(i)})]

Serve(n, i) == serving' = [serving EXCEPT ![i.dst] = @ \cup {n}]

(* Mutant: the server does not look at the lock.                           *)
SymCallUnlocked(n, i) ==
    /\ Pc(n, i) = "lock" /\ Holds(n, Client(i))
    /\ Goto(n, i, "call") /\ Serve(n, i)
    /\ UNCHANGED <<nat, setting, linked, losses, blacklist, lock>>

(* The symmetric methods, with the lock: the server's try_lock fails while *)
(* somebody holds its lock; for two symmetric NATs that is an error.  The  *)
(* other method goes on without the peer's packets.                        *)
SymCall(n, i) ==
    /\ Pc(n, i) = "lock" /\ Holds(n, Client(i))
    /\ \/ /\ lock[i.dst] = Unlocked /\ i.dst \notin setting.no_service
          /\ Goto(n, i, "call") /\ Serve(n, i)
          /\ lock' = [lock EXCEPT ![i.dst] = Entered(@, Server(n))]
       \/ /\ lock[i.dst] # Unlocked \/ i.dst \in setting.no_service
          /\ IF Method(n, i) = "SymToCone" /\ i.dst \notin setting.no_service
             THEN Goto(n, i, "call") /\ UNCHANGED lock
             ELSE Goto(n, i, "sleep") /\ Release(n, i)
          /\ UNCHANGED serving
    /\ UNCHANGED <<nat, setting, linked, losses, blacklist>>

(* The request is handled, whatever has become of the task that sent it.   *)
(* For two symmetric NATs the server leaves a task behind that sends, and  *)
(* answers that it is busy while the last one runs.                        *)
SymServe(m) ==
    /\ \E f \in serving[m] : /\ serving' = [serving EXCEPT ![m] = @ \ {f}]
                             /\ lock' = [lock EXCEPT ![m] = Without(@, {Server(f)})]
    /\ UNCHANGED <<nat, setting, linked, losses, blacklist, table>>

(* The end of do_hole_punching: a tunnel, nothing, an error, a timeout or  *)
(* a busy server.                                                          *)
SymResult(n, i) ==
    /\ Pc(n, i) = "call" /\ Release(n, i)
    /\ \/ Success(n, i)
       \/ Goto(n, i, "sleep") /\ UNCHANGED linked
    /\ UNCHANGED <<nat, setting, losses, blacklist, serving>>

PunchTask(n, i) == DoConePunching(n, i) \/ SymCall(n, i) \/ SymResult(n, i)

-----------------------------------------------------------------------------
(* A connection is lost; the first node learns its NAT type from STUN.     *)
LinkLost == /\ losses < MaxLosses /\ losses' = losses + 1
            /\ \E l \in linked : linked' = linked \ {l}
            /\ UNCHANGED <<nat, setting, blacklist, table, lock, serving>>
NatFound == /\ nat[1] # NewNat /\ nat' = [nat EXCEPT ![1] = NewNat]
            /\ UNCHANGED <<setting, linked, losses, blacklist, table, lock, serving>>

PunchNext ==
    \/ \E n \in Peer : \/ MainLoop(n) \/ SymServe(n)
                       \/ \E i \in DOMAIN table[n] : PunchTask(n, i)
    \/ LinkLost \/ NatFound

PunchSpec == PunchInit /\ [][PunchNext]_punchVars

-----------------------------------------------------------------------------
(* Whoever holds the lock of a node, or waits for it, is there to release  *)
(* it: a task of the node that is at a symmetric method, or a request that *)
(* is being handled.  The lock is fair, so no task waits for ever.         *)
LockOwned(n) ==
    \A w \in DOMAIN lock[n] :
        IF w.by = "server" THEN w.from \in serving[n]
        ELSE w.item \in DOMAIN table[n] /\ Pc(n, w.item) \in {"lock", "call"}

(* Who sends for a symmetric punch from n.                                 *)
Senders(n) == {Client(i) : i \in {k \in DOMAIN table[n] : Pc(n, k) = "call"}}
                \cup {Server(f) : f \in serving[n]}

(* "sym punch should be serialized" (mod.rs): a node never sends for two   *)
(* symmetric punches at once, be it as the client of one and the server of *)
(* another, with tasks aborted while they hold the lock or wait for it;    *)
(* and no task is kept from its turn by a lock that nobody will release.   *)
SymSerialized ==
    \A n \in Peer :
        /\ LockOwned(n)
        /\ \A v, w \in Senders(n) : v = w
=============================================================================
