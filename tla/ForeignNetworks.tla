--------------------------- MODULE ForeignNetworks ---------------------------
(***************************************************************************)
(* The foreign networks a node relays for (peers/foreign_network_manager.  *)
(* rs), seen from one network name.  Tasks add connections to the          *)
(* network's ForeignNetworkEntry, creating it when there is none; an event *)
(* handler per entry follows the events of that entry's own bus and takes  *)
(* the network out of the manager's three maps.                            *)
(*                                                                         *)
(* The maps are keyed by the NAME of the network, while entries, their     *)
(* buses and their handlers come and go: an entry may leave the map while  *)
(* a task still adds to it, and the handler of an entry long gone still    *)
(* acts on the name.  An entry is named after the connection whose task    *)
(* created it; it lives while it is in the map or a task holds it, and     *)
(* dropping it closes its connections and its bus.                         *)
(*                                                                         *)
(* The Peer objects inside an entry (module PeerMap) are reduced to the    *)
(* set of peer ids in its peer_map and the set of its connections.  The    *)
(* event PeerConnAdded, which the handler skips, is left out; a bus        *)
(* smaller than the code's eight lets it lag with the events that remain.  *)
(***************************************************************************)
EXTENDS Naturals, Sequences, FiniteSets

CONSTANTS Link,       \* connections that ask to join the network, each once
          LinkPeer,   \* the remote peer of each
          Identity,   \* the network identity (name and secret) each presents
          MaxDirect,  \* MAX_DIRECT_CONNS_PER_PEER_IN_FOREIGN_NETWORK
          BusSize,    \* capacity of an entry's event bus
          NoNetwork   \* no entry under this name

ASSUME ForeignAssumption == /\ DOMAIN LinkPeer = Link
                            /\ DOMAIN Identity = Link
                            /\ MaxDirect \in Nat
                            /\ BusSize \in Nat \ {0}
                            /\ NoNetwork \notin Link

VARIABLES
  network_peer_map,     \* the entry under the name, or NoNetwork
  peer_network_map,     \* the peers whose set of networks holds the name
  last_update,          \* whether network_peer_last_update has the name
  adder,                \* where add_peer_conn is for each connection
  held,                 \* the entry that task holds
  entry_peers,          \* the peers in each entry's peer_map
  entry_conns,          \* the connections in each entry
  handler,              \* the event handler of each entry
  bus                   \* events its handler has not received

mapVars     == <<network_peer_map, peer_network_map, last_update>>
foreignVars == <<mapVars, adder, held, entry_peers, entry_conns, handler, bus>>

ForeignInit ==
  /\ network_peer_map = NoNetwork
  /\ peer_network_map = {}
  /\ last_update = FALSE
  /\ adder = [c \in Link |-> "idle"]
  /\ held = [c \in Link |-> NoNetwork]
  /\ entry_peers = [e \in Link |-> {}]
  /\ entry_conns = [e \in Link |-> {}]
  /\ handler = [e \in Link |-> "none"]
  /\ bus = [e \in Link |-> <<>>]

EntryAlive(e) == e = network_peer_map \/ \E c \in Link : adder[c] = "joining" /\ held[c] = e

PeersOf(conns) == {LinkPeer[c] : c \in conns}

(* What entry e's handler is sent: nothing before it subscribes, and more   *)
(* than the bus holds makes its next recv fail (Lagged).                    *)
Issue(e, events) ==
  IF handler[e] # "running" THEN UNCHANGED <<bus, handler>>
  ELSE IF Len(bus[e] \o events) > BusSize
       THEN /\ bus' = [bus EXCEPT ![e] = <<>>]
            /\ handler' = [handler EXCEPT ![e] = "exiting"]
       ELSE /\ bus' = [bus EXCEPT ![e] = @ \o events]
            /\ UNCHANGED handler

----------------------------------------------------------------------------
(* The tasks that add connections.                                          *)

GetOrInsertEntry(c) ==
  /\ adder[c] = "idle"
  /\ LET e == IF network_peer_map = NoNetwork THEN c ELSE network_peer_map
     IN  /\ network_peer_map' = e
         /\ held' = [held EXCEPT ![c] = e]
  /\ peer_network_map' = peer_network_map \cup {LinkPeer[c]}
  /\ last_update' = TRUE
  /\ adder' = [adder EXCEPT ![c] = "joining"]
  /\ UNCHANGED <<entry_peers, entry_conns, handler, bus>>

(* The entry's identity is its creator's; the creator itself skips the      *)
(* limit on direct connections.                                             *)
Refused(c) ==
  \/ Identity[held[c]] # Identity[c]
  \/ /\ held[c] # c
     /\ LinkPeer[c] \in entry_peers[held[c]]
     /\ Cardinality({d \in entry_conns[held[c]] : LinkPeer[d] = LinkPeer[c]}) >= MaxDirect

Refuse(c) ==
  /\ adder[c] = "joining"
  /\ Refused(c)
  /\ adder' = [adder EXCEPT ![c] = "done"]
  /\ UNCHANGED <<mapVars, held, entry_peers, entry_conns, handler, bus>>

(* Under the entry's lock: the creator subscribes its handler, then the     *)
(* connection goes into the peer_map.                                       *)
AddPeerConn(c) ==
  /\ adder[c] = "joining"
  /\ ~Refused(c)
  /\ adder' = [adder EXCEPT ![c] = "done"]
  /\ LET e == held[c]
         added == IF LinkPeer[c] \in entry_peers[e] THEN <<>>
                  ELSE <<[kind |-> "added", peer |-> LinkPeer[c]]>>
     IN  /\ entry_peers' = [entry_peers EXCEPT ![e] = @ \cup {LinkPeer[c]}]
         /\ entry_conns' = [entry_conns EXCEPT ![e] = @ \cup {c}]
         /\ IF e = c
            THEN /\ handler' = [handler EXCEPT ![c] = "running"]
                 /\ bus' = [bus EXCEPT ![c] = added]
            ELSE Issue(e, added)
  /\ UNCHANGED <<mapVars, held>>

(* A connection of a living entry ends; its Peer's listener takes it out.   *)
CloseLink(c) ==
  \E e \in Link :
    /\ EntryAlive(e)
    /\ c \in entry_conns[e]
    /\ entry_conns' = [entry_conns EXCEPT ![e] = @ \ {c}]
    /\ Issue(e, <<[kind |-> "conn_removed", peer |-> LinkPeer[c]]>>)
    /\ UNCHANGED <<mapVars, adder, held, entry_peers>>

----------------------------------------------------------------------------
(* The event handler of entry e: every effect is on the name.               *)

Received(e) ==
  /\ handler[e] = "running"
  /\ bus[e] # <<>>

HandleAdded(e) ==
  /\ Received(e)
  /\ Head(bus[e]).kind = "added"
  /\ bus' = [bus EXCEPT ![e] = Tail(@)]
  /\ last_update' = TRUE
  /\ UNCHANGED <<network_peer_map, peer_network_map, adder, held, entry_peers, entry_conns,
                 handler>>

(* remove_peer: drops the network only when its entry has no peer left.     *)
(* The handler stores a new update time right after it, so the one          *)
(* remove_peer takes out is back before the handler's next event.           *)
RemovePeer(p) ==
  /\ peer_network_map' = peer_network_map \ {p}
  /\ network_peer_map' =
       IF network_peer_map # NoNetwork /\ entry_peers[network_peer_map] = {}
       THEN NoNetwork ELSE network_peer_map

HandleRemoved(e) ==
  /\ Received(e)
  /\ Head(bus[e]).kind = "removed"
  /\ bus' = [bus EXCEPT ![e] = Tail(@)]
  /\ RemovePeer(Head(bus[e]).peer)
  /\ last_update' = TRUE
  /\ UNCHANGED <<adder, held, entry_peers, entry_conns, handler>>

(* The iteration of a map.                                                  *)
InSomeOrder(S) == CHOOSE s \in [1 .. Cardinality(S) -> S] : \A x \in S : \E i \in DOMAIN s : s[i] = x

(* clear_no_conn_peer on the entry that now has the name, which may not be  *)
(* e: its peers without a connection are closed, each with an event on the  *)
(* bus of that entry.                                                       *)
HandleConnRemoved(e) ==
  /\ Received(e)
  /\ Head(bus[e]).kind = "conn_removed"
  /\ LET n == network_peer_map
         empty == IF n = NoNetwork THEN {} ELSE entry_peers[n] \ PeersOf(entry_conns[n])
         removed == InSomeOrder({[kind |-> "removed", peer |-> p] : p \in empty})
         taken == [bus EXCEPT ![e] = Tail(@)]
         lagged == handler[n] = "running" /\ Len(taken[n] \o removed) > BusSize
     IN  IF empty = {} THEN bus' = taken /\ UNCHANGED <<entry_peers, handler>>
         ELSE /\ entry_peers' = [entry_peers EXCEPT ![n] = @ \ empty]
              /\ bus' = IF handler[n] # "running" THEN taken
                        ELSE [taken EXCEPT ![n] = IF lagged THEN <<>> ELSE @ \o removed]
              /\ handler' = IF lagged THEN [handler EXCEPT ![n] = "exiting"] ELSE handler
  /\ UNCHANGED <<mapVars, adder, held, entry_conns>>

(* The bus of a dropped entry ends after its last event.                    *)
RecvDone(e) ==
  /\ handler[e] = "running"
  /\ bus[e] = <<>>
  /\ ~EntryAlive(e)
  /\ handler' = [handler EXCEPT ![e] = "exiting"]
  /\ UNCHANGED <<mapVars, adder, held, entry_peers, entry_conns, bus>>

(* Mutant: the entry leaves the map and its peers stay listed.              *)
RemoveNetworkEntry ==
  /\ network_peer_map' = NoNetwork
  /\ last_update' = FALSE
  /\ UNCHANGED peer_network_map

(* remove_network, by name, whichever entry has it.                         *)
RemoveNetwork ==
  /\ network_peer_map' = NoNetwork
  /\ peer_network_map' = {}
  /\ last_update' = FALSE

(* Mutant: the handler ends and leaves the maps alone.                      *)
ExitOnly(e) ==
  /\ handler[e] = "exiting"
  /\ handler' = [handler EXCEPT ![e] = "gone"]
  /\ UNCHANGED <<mapVars, adder, held, entry_peers, entry_conns, bus>>

ExitHandler(e) ==
  /\ handler[e] = "exiting"
  /\ handler' = [handler EXCEPT ![e] = "gone"]
  /\ RemoveNetwork
  /\ UNCHANGED <<adder, held, entry_peers, entry_conns, bus>>

Add(c) == GetOrInsertEntry(c) \/ Refuse(c) \/ AddPeerConn(c)

HandlerStep(e) ==
  HandleAdded(e) \/ HandleRemoved(e) \/ HandleConnRemoved(e) \/ RecvDone(e) \/ ExitHandler(e)

ForeignNext == \E c \in Link : Add(c) \/ CloseLink(c) \/ HandlerStep(c)

(* Spawned tasks run to their end and handlers are scheduled; connections   *)
(* need never end, and a connection need never ask to join.                 *)
ForeignFairness == \A c \in Link : /\ WF_foreignVars(Refuse(c) \/ AddPeerConn(c))
                                   /\ WF_foreignVars(HandlerStep(c))

ForeignSpec == ForeignInit /\ [][ForeignNext]_foreignVars /\ ForeignFairness

----------------------------------------------------------------------------
(* An entry under the name has a handler that will take it out again, or    *)
(* the task that created it has still to start one: no exit of a handler,   *)
(* its own or a predecessor's, leaves a network in the map unwatched        *)
(* (add_peer_conn starts the handler only for the creator).                 *)
EntryWatched ==
  network_peer_map # NoNetwork =>
    \/ handler[network_peer_map] \in {"running", "exiting"}
    \/ adder[network_peer_map] = "joining"

(* Connections whose entry has not been dropped.                            *)
OpenLinks == UNION {entry_conns[e] : e \in {d \in Link : EntryAlive(d)}}

(* However joining, leaving, refused and lagging interleave, once no        *)
(* connection is left the manager forgets the network: no entry, no peer    *)
(* listed, no update time.                                                  *)
NothingLeft ==
  <>[](OpenLinks = {} => /\ network_peer_map = NoNetwork
                         /\ peer_network_map = {}
                         /\ ~last_update)
=============================================================================
