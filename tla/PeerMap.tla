------------------------------- MODULE PeerMap -------------------------------
(***************************************************************************)
(* The directly connected peers of a node: PeerMap (peers/peer_map.rs),    *)
(* the Peer objects it owns (peers/peer.rs) and the end of a PeerConn      *)
(* (peers/peer_conn.rs).                                                   *)
(*                                                                         *)
(* Connections are added by concurrent tasks, end by themselves, and are   *)
(* taken out of their Peer by that Peer's close_event_listener, which      *)
(* announces the removal on the event bus.  Every three seconds a routine  *)
(* drops the peers that have no open connection left.  A Peer object lives *)
(* as long as the map or an adding task refers to it; dropping it drops    *)
(* its connections and aborts its listener.  A Peer object is named after  *)
(* the connection it was created for.                                      *)
(***************************************************************************)
EXTENDS Naturals, Sequences, FiniteSets

CONSTANTS PeerId,   \* remote peers
          ConnId,   \* connections, each used once
          PeerOf,   \* the peer each connection leads to
          NoPeer,   \* no Peer object
          MaxBreaks \* bound: connections that break or are closed by a caller

ASSUME PeerMapAssumption == /\ PeerOf \in [ConnId -> PeerId]
                            /\ NoPeer \notin ConnId
                            /\ MaxBreaks \in Nat

VARIABLES
  peer_map,     \* the Peer object of each peer id, or NoPeer
  alive_conns,  \* connections registered and not known to be closed
  stage,        \* where add_new_peer_conn is for each connection
  hold,         \* the Peer object the adding task refers to
  owner,        \* the Peer object each connection was put into
  conns,        \* the connections in each Peer object
  closed,       \* connections whose close notifier has fired
  waiting,      \* connections whose Peer waits for the close notifier
  closeq,       \* close events not yet seen by a Peer's listener
  clean,        \* where the routine that drops empty peers is
  events        \* everything published on the event bus

connVars == <<stage, hold, owner, waiting>>
vars     == <<peer_map, alive_conns, connVars, conns, closed, closeq, clean, events>>

Object == ConnId \cup {NoPeer}

Event == [kind : {"added", "removed"}, conn : ConnId]
           \cup [kind : {"peer_added", "peer_removed"}, peer : PeerId]

TypeOK ==
  /\ peer_map \in [PeerId -> Object]
  /\ alive_conns \subseteq ConnId
  /\ stage \in [ConnId -> {"idle", "create", "get", "attach", "announce", "insert",
                           "done", "panicked"}]
  /\ hold \in [ConnId -> Object]
  /\ owner \in [ConnId -> Object]
  /\ conns \in [ConnId -> SUBSET ConnId]
  /\ closed \subseteq ConnId
  /\ waiting \subseteq ConnId
  /\ closeq \in [ConnId -> SUBSET ConnId]
  /\ clean \in [pc : {"idle", "scan", "remove"}, todo : SUBSET PeerId, empty : SUBSET PeerId]
  /\ events \in Seq(Event)

Init ==
  /\ peer_map = [p \in PeerId |-> NoPeer]
  /\ alive_conns = {}
  /\ stage = [c \in ConnId |-> "idle"]
  /\ hold = [c \in ConnId |-> NoPeer]
  /\ owner = [c \in ConnId |-> NoPeer]
  /\ conns = [o \in ConnId |-> {}]
  /\ closed = {} /\ waiting = {}
  /\ closeq = [o \in ConnId |-> {}]
  /\ clean = [pc |-> "idle", todo |-> {}, empty |-> {}]
  /\ events = <<>>

-----------------------------------------------------------------------------
(* The Peer objects some reference keeps alive.                             *)
Referenced == {peer_map[p] : p \in PeerId} \cup {hold[c] : c \in ConnId}

Open(o) == conns[o] \ closed

(* The connections of a peer's object, none if the peer is not in the map.  *)
ConnsOf(p) == IF peer_map[p] = NoPeer THEN {} ELSE conns[peer_map[p]]

(* Mutant: dropping a PeerConn does not fire its close notifier.            *)
DropSilently ==
  /\ conns' = [o \in ConnId |-> IF o \in Referenced' THEN conns[o] ELSE {}]
  /\ closeq' = [o \in ConnId |-> IF o \in Referenced' THEN closeq[o] ELSE {}]
  /\ closed' = closed

(* What happens to the Peer objects that have just lost their last          *)
(* reference: impl Drop for Peer and PeerConn, and the ScopedTask listener. *)
DropUnreferenced ==
  /\ conns' = [o \in ConnId |-> IF o \in Referenced' THEN conns[o] ELSE {}]
  /\ closeq' = [o \in ConnId |-> IF o \in Referenced' THEN closeq[o] ELSE {}]
  /\ closed' = closed \cup UNION {conns[o] : o \in ConnId \ Referenced'}

-----------------------------------------------------------------------------
(* add_new_peer_conn, run by one task per connection.                       *)

(* maintain_alive_conns, and the test whether the peer has an entry.        *)
Register(c) ==
  /\ stage[c] = "idle"
  /\ alive_conns' = alive_conns \cup {c}
  /\ stage' = [stage EXCEPT ![c] = IF peer_map[PeerOf[c]] = NoPeer THEN "create" ELSE "get"]
  /\ UNCHANGED <<peer_map, hold, owner, waiting, conns, closed, closeq, clean, events>>

(* Peer::add_peer_conn up to the spawn of the task that waits for the end.  *)
Attached(c, o) ==
  /\ conns' = [conns EXCEPT ![o] = @ \cup {c}]
  /\ owner' = [owner EXCEPT ![c] = o]
  /\ waiting' = waiting \cup {c}
  /\ stage' = [stage EXCEPT ![c] = "announce"]

CreatePeer(c) ==
  /\ stage[c] = "create"
  /\ hold' = [hold EXCEPT ![c] = c]
  /\ Attached(c, c)
  /\ UNCHANGED <<peer_map, alive_conns, closed, closeq, clean, events>>

(* `self.peer_map.get(&peer_id).unwrap().clone()`: the entry seen before    *)
(* may be gone; the panic drops the connection.                             *)
GetPeer(c) ==
  /\ stage[c] = "get"
  /\ \/ /\ peer_map[PeerOf[c]] # NoPeer
        /\ hold' = [hold EXCEPT ![c] = peer_map[PeerOf[c]]]
        /\ stage' = [stage EXCEPT ![c] = "attach"]
        /\ UNCHANGED closed
     \/ /\ peer_map[PeerOf[c]] = NoPeer
        /\ closed' = closed \cup {c}
        /\ stage' = [stage EXCEPT ![c] = "panicked"]
        /\ UNCHANGED hold
  /\ UNCHANGED <<peer_map, alive_conns, owner, waiting, conns, closeq, clean, events>>

AttachToPeer(c) ==
  /\ stage[c] = "attach"
  /\ Attached(c, hold[c])
  /\ UNCHANGED <<peer_map, alive_conns, hold, closed, closeq, clean, events>>

(* PeerConnAdded.  The task that found the peer in the map is done and lets *)
(* go of it; the one that created it goes on to add_new_peer.               *)
Announce(c) ==
  /\ stage[c] = "announce"
  /\ UNCHANGED <<peer_map, alive_conns, owner, waiting, clean>>
  /\ events' = Append(events, [kind |-> "added", conn |-> c])
  /\ \/ /\ hold[c] = c
        /\ stage' = [stage EXCEPT ![c] = "insert"]
        /\ UNCHANGED <<hold, conns, closed, closeq>>
     \/ /\ hold[c] # c
        /\ stage' = [stage EXCEPT ![c] = "done"]
        /\ hold' = [hold EXCEPT ![c] = NoPeer]
        /\ DropUnreferenced

(* add_new_peer: the entry another task made meanwhile is replaced.         *)
AddNewPeer(c) ==
  /\ stage[c] = "insert"
  /\ peer_map' = [peer_map EXCEPT ![PeerOf[c]] = c]
  /\ events' = Append(events, [kind |-> "peer_added", peer |-> PeerOf[c]])
  /\ stage' = [stage EXCEPT ![c] = "done"]
  /\ hold' = [hold EXCEPT ![c] = NoPeer]
  /\ DropUnreferenced
  /\ UNCHANGED <<alive_conns, owner, waiting, clean>>

AddStep(c) == CreatePeer(c) \/ GetPeer(c) \/ AttachToPeer(c) \/ Announce(c) \/ AddNewPeer(c)

-----------------------------------------------------------------------------
(* The end of a connection.                                                 *)

(* The receive loop ends or the pinger gives up: the notifier fires.        *)
ConnBreaks(c) ==
  /\ owner[c] # NoPeer
  /\ c \notin closed
  /\ Cardinality(closed) < MaxBreaks
  /\ closed' = closed \cup {c}
  /\ UNCHANGED <<peer_map, alive_conns, connVars, conns, closeq, clean, events>>

(* The task of maintain_alive_conns.                                        *)
ForgetAlive(c) ==
  /\ c \in alive_conns \cap closed
  /\ alive_conns' = alive_conns \ {c}
  /\ UNCHANGED <<peer_map, connVars, conns, closed, closeq, clean, events>>

(* The task spawned by add_peer_conn sends the close event; the send fails  *)
(* if the Peer is gone.                                                     *)
NotifyClosed(c) ==
  /\ c \in waiting \cap closed
  /\ waiting' = waiting \ {c}
  /\ closeq' = IF owner[c] \in Referenced
               THEN [closeq EXCEPT ![owner[c]] = @ \cup {c}] ELSE closeq
  /\ UNCHANGED <<peer_map, alive_conns, stage, hold, owner, conns, closed, clean, events>>

(* close_event_listener of the Peer: the first event of a connection takes  *)
(* it out, which drops it, and announces that; a second one is ignored.     *)
Listen(o, c) ==
  /\ c \in closeq[o]
  /\ closeq' = [closeq EXCEPT ![o] = @ \ {c}]
  /\ conns' = [conns EXCEPT ![o] = @ \ {c}]
  /\ closed' = closed \cup (conns[o] \cap {c})
  /\ events' = IF c \in conns[o]
               THEN Append(events, [kind |-> "removed", conn |-> c]) ELSE events
  /\ UNCHANGED <<peer_map, alive_conns, connVars, clean>>

(* close_peer_conn, called by the direct connector.                         *)
ClosePeerConn(p, c) ==
  /\ c \in ConnsOf(p)
  /\ Cardinality(closed) < MaxBreaks
  /\ closeq' = [closeq EXCEPT ![peer_map[p]] = @ \cup {c}]
  /\ UNCHANGED <<peer_map, alive_conns, connVars, conns, closed, clean, events>>

(* list_peer_conns sends a close event for the closed connections it meets. *)
Swept(p) ==
  IF peer_map[p] = NoPeer THEN closeq
  ELSE [closeq EXCEPT ![peer_map[p]] = @ \cup (conns[peer_map[p]] \cap closed)]

ListPeerConns(p) ==
  /\ closeq' = Swept(p)
  /\ UNCHANGED <<peer_map, alive_conns, connVars, conns, closed, clean, events>>

-----------------------------------------------------------------------------
(* clean_peer_without_conn, run every three seconds.                        *)

CleanStart ==
  /\ clean.pc = "idle"
  /\ clean' = [pc |-> "scan", todo |-> {p \in PeerId : peer_map[p] # NoPeer}, empty |-> {}]
  /\ UNCHANGED <<peer_map, alive_conns, connVars, conns, closed, closeq, events>>

WithoutConn(p) == ConnsOf(p) \subseteq closed

CleanScan(p) ==
  /\ clean.pc = "scan"
  /\ p \in clean.todo
  /\ closeq' = Swept(p)
  /\ clean' = [clean EXCEPT !.todo = @ \ {p},
                            !.empty = IF WithoutConn(p) THEN @ \cup {p} ELSE @]
  /\ UNCHANGED <<peer_map, alive_conns, connVars, conns, closed, events>>

CleanScanned ==
  /\ clean.pc = "scan" /\ clean.todo = {}
  /\ clean' = [clean EXCEPT !.pc = IF clean.empty = {} THEN "idle" ELSE "remove"]
  /\ UNCHANGED <<peer_map, alive_conns, connVars, conns, closed, closeq, events>>

(* close_peer removes whatever entry the peer has by now.                   *)
ClosePeer(p) ==
  /\ clean.pc = "remove"
  /\ p \in clean.empty
  /\ peer_map' = [peer_map EXCEPT ![p] = NoPeer]
  /\ events' = Append(events, [kind |-> "peer_removed", peer |-> p])
  /\ clean' = [clean EXCEPT !.empty = @ \ {p},
                            !.pc = IF clean.empty = {p} THEN "idle" ELSE "remove"]
  /\ UNCHANGED <<alive_conns, connVars>>
  /\ DropUnreferenced

CleanStep == CleanStart \/ CleanScanned \/ \E p \in PeerId : CleanScan(p) \/ ClosePeer(p)

-----------------------------------------------------------------------------
Next ==
  \/ \E c \in ConnId : Register(c) \/ AddStep(c) \/ ConnBreaks(c) \/ ForgetAlive(c)
                         \/ NotifyClosed(c)
  \/ \E o, c \in ConnId : Listen(o, c)
  \/ \E p \in PeerId : ListPeerConns(p) \/ \E c \in ConnId : ClosePeerConn(p, c)
  \/ CleanStep

(* Tasks that are ready run; a connection need not be made or break.        *)
Fairness ==
  /\ \A c \in ConnId : /\ WF_vars(AddStep(c))
                       /\ WF_vars(ForgetAlive(c))
                       /\ WF_vars(NotifyClosed(c))
                       /\ \A o \in ConnId : WF_vars(Listen(o, c))
  /\ WF_vars(CleanStep)

Spec == Init /\ [][Next]_vars

FairSpec == Spec /\ Fairness

-----------------------------------------------------------------------------
Announced(kind, c) == \E i \in DOMAIN events : events[i] = [kind |-> kind, conn |-> c]

(* An open connection whose task is done is in the Peer that the map uses   *)
(* for its peer id, or in one that a task is just adding a connection to.   *)
(* Whatever adds, closings and cleanings interleave, no open connection is  *)
(* left behind in a Peer that nobody sends through.                         *)
OpenIsReachable ==
  \A c \in ConnId : stage[c] = "done" /\ c \notin closed
                      => \/ c \in ConnsOf(PeerOf[c])
                         \/ \E d \in ConnId : stage[d] # "done" /\ hold[d] = owner[c]

(* alive_conns has every open connection, so a subscriber that lagged and   *)
(* rebuilds its list from it misses none.                                   *)
AliveHasOpen == \A o \in ConnId : Open(o) \subseteq alive_conns

(* PeerConnRemoved is published at most once for a connection, although its *)
(* close event may be sent by its waiter, by close_peer_conn and by every   *)
(* listing, and only after the connection is closed.                        *)
RemovedOnce ==
  \A c \in ConnId :
    LET at == {i \in DOMAIN events : events[i] = [kind |-> "removed", conn |-> c]}
    IN (\A i, j \in at : i = j) /\ (at # {} => c \in closed)

(* A closed connection goes without its PeerConnRemoved only while that is  *)
(* still on its way or after the Peer that held it was dropped.             *)
RemovalAnnounced ==
  \A c \in closed : \/ owner[c] \notin Referenced \ {NoPeer}
                    \/ c \in waiting \cup closeq[owner[c]]
                    \/ Announced("removed", c)

(* Every connection is accounted for: an open one can be used and is listed *)
(* as alive, the end of a closed one is announced, and only once.           *)
ConnsAccounted == OpenIsReachable /\ AliveHasOpen /\ RemovalAnnounced /\ RemovedOnce
=============================================================================
