------------------------- MODULE PeerManager_proofs -------------------------
(***************************************************************************)
(* What the peer manager keeps about connections (PeerMap) and decides about *)
(* packets (Acl).                                                          *)
(*                                                                         *)
(* The connections of a node are accounted for, for any number of peers,   *)
(* connections and breaks.  ConnsAccounted is not inductive.  What carries *)
(* it through the steps is who may refer to a Peer object: an object exists *)
(* from the moment its task has attached the first connection, an object   *)
(* nobody refers to has no connections and is never referred to again, and *)
(* a connection knows the one object it was put into.                      *)
(*                                                                         *)
(* Verdicts are those of the rules, for any rules, packets and threads.    *)
(* VerdictByRules speaks of packets that are decided; what carries it is   *)
(* that the same holds of every verdict on its way to a cache and in the   *)
(* cache of every processor that is current or still held by a thread, and *)
(* that the buckets of the limits kept there exist.                        *)
(***************************************************************************)
EXTENDS PeerMap, Acl, TLAPS
(* Where a task is decides what it refers to.                              *)
Adding ==
  \A c \in ConnId :
    /\ stage[c] \in {"idle", "create", "get", "panicked"} => hold[c] = NoPeer /\ owner[c] = NoPeer
    /\ stage[c] = "attach" => hold[c] # NoPeer /\ owner[c] = NoPeer
    /\ stage[c] = "announce" => hold[c] # NoPeer /\ owner[c] = hold[c]
    /\ stage[c] = "insert" => hold[c] = c /\ owner[c] = c
    /\ stage[c] = "done" => hold[c] = NoPeer /\ owner[c] # NoPeer

Created(o) == stage[o] \in {"announce", "insert", "done"}

(* A Peer object that is referred to, or was, exists and is of that peer.  *)
Objects ==
  /\ \A p \in PeerId : peer_map[p] # NoPeer => Created(peer_map[p]) /\ PeerOf[peer_map[p]] = p
  /\ \A c \in ConnId : hold[c] # NoPeer => Created(hold[c]) /\ PeerOf[hold[c]] = PeerOf[c]
  /\ \A c \in ConnId : owner[c] # NoPeer => Created(owner[c]) /\ PeerOf[owner[c]] = PeerOf[c]

(* Connections and close events are in the one object of the connection,   *)
(* which somebody refers to.                                               *)
Members ==
  \A o, c \in ConnId : c \in conns[o] \cup closeq[o] => owner[c] = o /\ o \in Referenced

(* Why a connection can be closed, and who will announce that.             *)
Ends ==
  /\ \A c \in closed : stage[c] \notin {"idle", "create", "get", "attach"}
  /\ \A c \in ConnId \ closed : stage[c] # "idle" => c \in alive_conns
  /\ \A c \in ConnId : owner[c] # NoPeer =>
       /\ c \notin closed => c \in conns[owner[c]] \cap waiting
       /\ c \in closed \cap conns[owner[c]] => c \in waiting \cup closeq[owner[c]]

Removed(c) == [kind |-> "removed", conn |-> c]
IsOut(c) == \E i \in DOMAIN events : events[i] = Removed(c)
Once(c) == \A i, j \in DOMAIN events : events[i] = Removed(c) /\ events[j] = Removed(c) => i = j

(* A removal is announced as the connection leaves its object.             *)
Published ==
  \A c \in ConnId :
    /\ Once(c)
    /\ IsOut(c) => c \in closed /\ owner[c] # NoPeer /\ c \notin conns[owner[c]]
    /\ owner[c] \in Referenced \ {NoPeer} /\ c \notin conns[owner[c]] => IsOut(c)

IInv == TypeOK /\ Adding /\ Objects /\ Members /\ Ends /\ Published

-----------------------------------------------------------------------------
(* Events other than removals do not change what has been announced.       *)
LEMMA OtherEvent ==
  ASSUME events \in Seq(Event), NEW e \in Event, events' = Append(events, e),
         \A c \in ConnId : e # Removed(c)
  PROVE  /\ events' \in Seq(Event)
         /\ \A c \in ConnId : (IsOut(c)' <=> IsOut(c)) /\ (Once(c) => Once(c)')
<1>1. /\ events' \in Seq(Event) /\ Len(events') = Len(events) + 1
      /\ \A i \in 1 .. Len(events) : events'[i] = events[i]
      /\ events'[Len(events) + 1] = e
      /\ Len(events) \in Nat /\ DOMAIN events = 1 .. Len(events)
      /\ DOMAIN events' = 1 .. Len(events) + 1
  OBVIOUS
<1>2. ASSUME NEW c \in ConnId
      PROVE  (IsOut(c)' <=> IsOut(c)) /\ (Once(c) => Once(c)')
  <2>1. \A i \in DOMAIN events' : events'[i] = Removed(c) => i \in DOMAIN events /\ events[i] = Removed(c)
    BY <1>1
  <2>2. \A i \in DOMAIN events : i \in DOMAIN events' /\ events'[i] = events[i]
    BY <1>1
  <2> QED BY Zenon, <2>1, <2>2 DEF IsOut, Once, Removed
<1> QED BY Zenon, <1>1, <1>2

(* The announcement of a connection that was not announced.                *)
LEMMA RemovedEvent ==
  ASSUME events \in Seq(Event), NEW d \in ConnId, events' = Append(events, Removed(d)), ~IsOut(d)
  PROVE  /\ events' \in Seq(Event)
         /\ \A c \in ConnId : (IsOut(c)' <=> IsOut(c) \/ c = d) /\ (Once(c) => Once(c)')
<1>0. Removed(d) \in Event
  BY Zenon DEF Removed, Event
<1>1. /\ events' \in Seq(Event) /\ Len(events') = Len(events) + 1
      /\ \A i \in 1 .. Len(events) : events'[i] = events[i]
      /\ events'[Len(events) + 1] = Removed(d)
      /\ Len(events) \in Nat /\ DOMAIN events = 1 .. Len(events)
      /\ DOMAIN events' = 1 .. Len(events) + 1
  BY <1>0
<1>2. ASSUME NEW c \in ConnId
      PROVE  (IsOut(c)' <=> IsOut(c) \/ c = d) /\ (Once(c) => Once(c)')
  <2>0. Removed(c) = Removed(d) <=> c = d
    BY Zenon DEF Removed
  <2>1. \A i \in DOMAIN events' : events'[i] = Removed(c) =>
          \/ i \in DOMAIN events /\ events[i] = Removed(c)
          \/ i = Len(events) + 1 /\ c = d
    BY <1>1, <2>0
  <2>2. \A i \in DOMAIN events : i \in DOMAIN events' /\ events'[i] = events[i]
    BY <1>1
  <2>3. Len(events) + 1 \in DOMAIN events' /\ events'[Len(events) + 1] = Removed(d)
    BY <1>1
  <2>4. IsOut(c)' <=> IsOut(c) \/ c = d
    BY Zenon, <2>0, <2>1, <2>2, <2>3 DEF IsOut, Removed
  <2>5. ASSUME Once(c) PROVE Once(c)'
    BY <2>1, <2>2, <2>5 DEF Once, IsOut, Removed
  <2> QED BY Zenon, <2>4, <2>5
<1> QED BY Zenon, <1>1, <1>2

(* Peer objects that lose their last reference, with what they hold.       *)
LEMMA DropType ==
  ASSUME TypeOK, DropUnreferenced
  PROVE  /\ conns' \in [ConnId -> SUBSET ConnId] /\ closeq' \in [ConnId -> SUBSET ConnId]
         /\ closed' \subseteq ConnId
BY DEF TypeOK, DropUnreferenced

LEMMA TypeStep == TypeOK /\ [Next]_vars => TypeOK'
<1> SUFFICES ASSUME TypeOK, [Next]_vars PROVE TypeOK'
  OBVIOUS
<1> USE PeerMapAssumption
<1>1. ASSUME NEW c \in ConnId, Register(c) PROVE TypeOK'
  BY Zenon, <1>1 DEF TypeOK, Register
<1>2. ASSUME NEW c \in ConnId, CreatePeer(c) PROVE TypeOK'
  BY Zenon, <1>2 DEF TypeOK, CreatePeer, Attached, Object
<1>3. ASSUME NEW c \in ConnId, GetPeer(c) PROVE TypeOK'
  BY <1>3 DEF TypeOK, GetPeer, Object
<1>4. ASSUME NEW c \in ConnId, AttachToPeer(c) PROVE TypeOK'
  <2>1. conns' \in [ConnId -> SUBSET ConnId]
    BY Zenon, <1>4 DEF TypeOK, AttachToPeer, Attached, Object
  <2>2. owner' \in [ConnId -> Object] /\ stage' = [stage EXCEPT ![c] = "announce"]
    BY Zenon, <1>4 DEF TypeOK, AttachToPeer, Attached
  <2> QED BY <1>4, <2>1, <2>2 DEF TypeOK, AttachToPeer, Attached
<1>5. ASSUME NEW c \in ConnId, Announce(c) PROVE TypeOK'
  <2>1. [kind |-> "added", conn |-> c] \in Event
    BY Zenon DEF Event
  <2>2. events' \in Seq(Event)
    BY <1>5, <2>1 DEF TypeOK, Announce
  <2>3. /\ conns' \in [ConnId -> SUBSET ConnId] /\ closeq' \in [ConnId -> SUBSET ConnId]
        /\ closed' \subseteq ConnId
    BY Zenon, <1>5, DropType DEF TypeOK, Announce
  <2> QED BY <1>5, <2>2, <2>3 DEF TypeOK, Announce, Object
<1>6. ASSUME NEW c \in ConnId, AddNewPeer(c) PROVE TypeOK'
  <2>1. [kind |-> "peer_added", peer |-> PeerOf[c]] \in Event
    BY Zenon DEF Event
  <2>2. events' \in Seq(Event)
    BY <1>6, <2>1 DEF TypeOK, AddNewPeer
  <2> QED BY Zenon, <1>6, <2>2, DropType DEF TypeOK, AddNewPeer, Object
<1>7. ASSUME NEW c \in ConnId, ConnBreaks(c) \/ ForgetAlive(c) \/ NotifyClosed(c) PROVE TypeOK'
  BY <1>7 DEF TypeOK, ConnBreaks, ForgetAlive, NotifyClosed, connVars, Object
<1>8. ASSUME NEW o \in ConnId, NEW c \in ConnId, Listen(o, c) PROVE TypeOK'
  <2>1. [kind |-> "removed", conn |-> c] \in Event
    BY Zenon DEF Event
  <2>2. events' \in Seq(Event)
    BY <1>8, <2>1 DEF TypeOK, Listen
  <2> QED BY Zenon, <1>8, <2>2 DEF TypeOK, Listen, connVars
<1>9. ASSUME NEW p \in PeerId, ListPeerConns(p) \/ \E c \in ConnId : ClosePeerConn(p, c) PROVE TypeOK'
  BY <1>9 DEF TypeOK, ListPeerConns, ClosePeerConn, ConnsOf, Swept, connVars, Object
<1>10. CASE CleanStart \/ CleanScanned
  BY <1>10 DEF TypeOK, CleanStart, CleanScanned, connVars
<1>11. ASSUME NEW p \in PeerId, CleanScan(p) PROVE TypeOK'
  <2>1. closeq' \in [ConnId -> SUBSET ConnId]
    BY Zenon, <1>11 DEF TypeOK, CleanScan, Swept, Object
  <2> QED BY Zenon, <1>11, <2>1 DEF TypeOK, CleanScan, connVars
<1>12. ASSUME NEW p \in PeerId, ClosePeer(p) PROVE TypeOK'
  <2>1. [kind |-> "peer_removed", peer |-> p] \in Event
    BY Zenon DEF Event
  <2>2. events' \in Seq(Event)
    BY <1>12, <2>1 DEF TypeOK, ClosePeer
  <2> QED BY Zenon, <1>12, <2>2, DropType DEF TypeOK, ClosePeer, connVars, Object
<1>13. CASE UNCHANGED vars
  BY Zenon, <1>13 DEF TypeOK, vars, connVars
<1> QED
  BY Zenon, <1>1, <1>2, <1>3, <1>4, <1>5, <1>6, <1>7, <1>8, <1>9, <1>10, <1>11, <1>12, <1>13
     DEF Next, AddStep, CleanStep

-----------------------------------------------------------------------------
(* A connection that is nowhere yet is listed as alive.                    *)
LEMMA RegisterStep ==
  ASSUME IInv, TypeOK', NEW c \in ConnId, Register(c)
  PROVE  IInv'
<1> USE DEF Register, IInv
<1>1. Referenced' = Referenced /\ \A d \in ConnId : IsOut(d)' = IsOut(d) /\ Once(d)' = Once(d)
  BY Zenon DEF Referenced, IsOut, Once, Removed
<1>2. stage[c] = "idle" /\ stage'[c] \in {"create", "get"}
      /\ \A d \in ConnId \ {c} : stage'[d] = stage[d]
  BY DEF TypeOK
<1>3. Adding'
  BY Zenon, <1>2 DEF Adding
<1>4. Objects'
  BY <1>2, PeerMapAssumption DEF Objects, Created, TypeOK, Object
<1>5. Members'
  BY Zenon, <1>1 DEF Members
<1>6. Ends'
  BY Zenon, <1>2 DEF Ends, TypeOK
<1>7. Published'
  BY Zenon, <1>1 DEF Published
<1> QED BY Zenon, <1>3, <1>4, <1>5, <1>6, <1>7

(* Peer::add_peer_conn on an object that is new or that c's task holds.    *)
LEMMA AttachStep ==
  ASSUME IInv, TypeOK', NEW c \in ConnId, CreatePeer(c) \/ AttachToPeer(c)
  PROVE  IInv'
<1> DEFINE o == hold'[c]
<1> USE DEF IInv, CreatePeer, AttachToPeer, Attached
<1>1. /\ o \in ConnId /\ owner[c] = NoPeer
      /\ owner' = [owner EXCEPT ![c] = o] /\ conns' = [conns EXCEPT ![o] = @ \cup {c}]
      /\ stage' = [stage EXCEPT ![c] = "announce"] /\ waiting' = waiting \cup {c}
      /\ UNCHANGED <<peer_map, alive_conns, closed, closeq, events>>
      /\ \A d \in ConnId \ {c} : hold'[d] = hold[d]
      /\ stage[c] \in {"create", "attach"}
  BY PeerMapAssumption DEF TypeOK, Adding, Object
<1>2. /\ o \in Referenced' /\ PeerOf[o] = PeerOf[c]
      /\ \A r \in ConnId \ {o} : r \in Referenced' <=> r \in Referenced
      /\ o \notin Referenced => o = c
  BY <1>1, PeerMapAssumption DEF TypeOK, Adding, Objects, Referenced
<1>3. \A d \in ConnId : IsOut(d)' = IsOut(d) /\ Once(d)' = Once(d)
  BY Zenon, <1>1 DEF IsOut, Once, Removed
<1>4. \A d \in ConnId : owner[d] # c
  BY <1>1, PeerMapAssumption DEF Objects, Created
<1>5. \A r \in ConnId : r \in Referenced => r \in Referenced'
  BY Zenon, <1>2
<1>6. Adding'
  BY <1>1, PeerMapAssumption DEF Adding, TypeOK
<1>7. Objects'
  BY <1>1, <1>2, PeerMapAssumption DEF Objects, Created, TypeOK, Object
<1>8. Members'
  BY <1>1, <1>2, <1>5, PeerMapAssumption DEF Members, TypeOK
<1>9. Ends'
  BY <1>1, PeerMapAssumption DEF Ends, TypeOK, Object
<1>10. Published'
  BY <1>1, <1>2, <1>3, <1>4, PeerMapAssumption DEF Published, TypeOK, Object
<1> QED BY Zenon, <1>6, <1>7, <1>8, <1>9, <1>10

(* The task comes to refer to an object the map has, or panics.            *)
LEMMA GetPeerStep ==
  ASSUME IInv, TypeOK', NEW c \in ConnId, GetPeer(c)
  PROVE  IInv'
<1> USE DEF IInv, GetPeer
<1>1. /\ stage[c] = "get" /\ stage'[c] \in {"attach", "panicked"}
      /\ hold[c] = NoPeer /\ owner[c] = NoPeer
      /\ \A d \in ConnId \ {c} : stage'[d] = stage[d] /\ hold'[d] = hold[d]
      /\ UNCHANGED <<peer_map, alive_conns, owner, waiting, conns, closeq, events>>
      /\ \/ /\ hold'[c] = peer_map[PeerOf[c]] /\ hold'[c] # NoPeer /\ stage'[c] = "attach"
            /\ closed' = closed
         \/ /\ hold'[c] = NoPeer /\ stage'[c] = "panicked" /\ closed' = closed \cup {c}
  BY DEF TypeOK, Adding
<1>2. \A r \in ConnId : r \in Referenced' <=> r \in Referenced
  BY <1>1, PeerMapAssumption DEF TypeOK, Referenced
<1>3. \A d \in ConnId : IsOut(d)' = IsOut(d) /\ Once(d)' = Once(d)
  BY Zenon, <1>1 DEF IsOut, Once, Removed
<1>4. Adding'
  BY <1>1, PeerMapAssumption DEF Adding, TypeOK
<1>5. Objects'
  BY <1>1, PeerMapAssumption DEF Objects, Created, TypeOK, Object
<1>6. Members'
  BY <1>1, <1>2 DEF Members, TypeOK
<1>7. Ends'
  BY Zenon, <1>1, PeerMapAssumption DEF Ends, TypeOK, Object
<1>8. Published'
  BY Zenon, <1>1, <1>2, <1>3, PeerMapAssumption DEF Published, TypeOK, Object
<1> QED BY Zenon, <1>4, <1>5, <1>6, <1>7, <1>8

(* A step that may take the last reference to some objects and gives none: *)
(* what is left of Members, Ends and Published after DropUnreferenced.     *)
LEMMA DropStep ==
  ASSUME IInv, TypeOK', DropUnreferenced,
         Referenced' \ {NoPeer} \subseteq Referenced,
         UNCHANGED <<alive_conns, owner, waiting>>,
         \A d \in ConnId : /\ stage'[d] # stage[d] => /\ stage[d] \in {"announce", "insert"}
                                                       /\ stage'[d] \in {"insert", "done"}
                           /\ (IsOut(d)' <=> IsOut(d)) /\ (Once(d) => Once(d)')
  PROVE  Members' /\ Ends' /\ Published'
<1> USE DEF IInv
<1>1. /\ \A o \in ConnId : conns'[o] = IF o \in Referenced' THEN conns[o] ELSE {}
      /\ \A o \in ConnId : closeq'[o] = IF o \in Referenced' THEN closeq[o] ELSE {}
      /\ \A d \in ConnId : d \in closed' <=> \/ d \in closed
                                              \/ \E o \in ConnId : o \notin Referenced' /\ d \in conns[o]
  BY DEF DropUnreferenced, TypeOK
<1>2. \A d \in ConnId : d \in closed' /\ d \notin closed => owner[d] # NoPeer /\ owner[d] \notin Referenced'
  BY <1>1, PeerMapAssumption DEF Members
<1>3. Members'
  BY Zenon, <1>1 DEF Members, TypeOK
<1>4. \A d \in closed' : stage'[d] \notin {"idle", "create", "get", "attach"}
  BY ZenonT(60), <1>2, PeerMapAssumption DEF Ends, Adding, TypeOK, Object
<1>5. \A d \in ConnId \ closed' : stage'[d] # "idle" => d \in alive_conns'
  BY Zenon, <1>1 DEF Ends, TypeOK
<1>6. ASSUME NEW d \in ConnId, owner[d] # NoPeer
      PROVE  /\ d \notin closed' => d \in conns'[owner[d]] \cap waiting
             /\ d \in closed' \cap conns'[owner[d]] => d \in waiting \cup closeq'[owner[d]]
  <2>1. owner[d] \in ConnId
    BY Zenon, <1>6 DEF TypeOK, Object
  <2>2. ASSUME d \notin closed' PROVE d \in conns'[owner[d]] \cap waiting
    BY Zenon, <1>1, <1>6, <2>1, <2>2 DEF Ends
  <2>3. ASSUME d \in closed' \cap conns'[owner[d]] PROVE d \in waiting \cup closeq'[owner[d]]
    <3>1. owner[d] \in Referenced' /\ d \in conns[owner[d]] /\ closeq'[owner[d]] = closeq[owner[d]]
      BY Zenon, <1>1, <2>1, <2>3
    <3>2. d \in closed
      BY Zenon, <1>2, <2>3, <3>1
    <3> QED BY Zenon, <1>6, <3>1, <3>2 DEF Ends
  <2> QED BY Zenon, <2>2, <2>3
<1>7. Ends'
  BY Zenon, <1>4, <1>5, <1>6 DEF Ends
<1>8. Published'
  BY <1>1, PeerMapAssumption DEF Published, TypeOK, Object
<1> QED BY Zenon, <1>3, <1>7, <1>8

(* The task lets go of the object it holds, or goes on to insert it.       *)
LEMMA AnnounceStep ==
  ASSUME IInv, TypeOK', NEW c \in ConnId, Announce(c)
  PROVE  IInv'
<1> USE DEF IInv
<1>1. [kind |-> "added", conn |-> c] \in Event
      /\ \A d \in ConnId : [kind |-> "added", conn |-> c] # Removed(d)
  BY Zenon DEF Event, Removed
<1>2. \A d \in ConnId : (IsOut(d)' <=> IsOut(d)) /\ (Once(d) => Once(d)')
  BY Zenon, <1>1, OtherEvent DEF Announce, TypeOK
<1>3. Adding'
  BY PeerMapAssumption DEF Announce, Adding, TypeOK
<1>4. Objects'
  <2>1. /\ UNCHANGED <<peer_map, owner>> /\ stage'[c] \in {"insert", "done"}
        /\ \A d \in ConnId \ {c} : stage'[d] = stage[d] /\ hold'[d] = hold[d]
        /\ hold'[c] \in {NoPeer, hold[c]}
    BY DEF Announce, TypeOK
  <2>2. \A d \in ConnId : Created(d) => Created(d)'
    BY Zenon, <2>1 DEF Created
  <2>3. (\A p \in PeerId : peer_map[p] # NoPeer
           => Created(peer_map[p]) /\ PeerOf[peer_map[p]] = p)'
    BY <2>1, <2>2 DEF Objects, TypeOK, Object
  <2>4. \A d \in ConnId : hold'[d] # NoPeer => hold'[d] = hold[d] /\ hold[d] \in ConnId
    BY Zenon, <2>1 DEF TypeOK, Object
  <2>5. (\A d \in ConnId : hold[d] # NoPeer
           => Created(hold[d]) /\ PeerOf[hold[d]] = PeerOf[d])'
    BY Zenon, <2>2, <2>4 DEF Objects
  <2>6. (\A d \in ConnId : owner[d] # NoPeer
           => Created(owner[d]) /\ PeerOf[owner[d]] = PeerOf[d])'
    BY <2>1, <2>2 DEF Objects, TypeOK, Object
  <2> QED BY Zenon, <2>3, <2>5, <2>6 DEF Objects
<1>5. CASE hold[c] = c
  <2>1. /\ UNCHANGED <<peer_map, alive_conns, hold, owner, waiting, conns, closed, closeq>>
        /\ stage' = [stage EXCEPT ![c] = "insert"] /\ stage[c] = "announce"
    BY Zenon, <1>5 DEF Announce
  <2>2. Referenced' = Referenced
    BY Zenon, <2>1 DEF Referenced
  <2>3. Members'
    BY Zenon, <2>1, <2>2 DEF Members
  <2>4. Ends'
    BY <2>1 DEF Ends, TypeOK
  <2>5. Published'
    BY Zenon, <1>2, <2>1, <2>2 DEF Published
  <2> QED BY Zenon, <1>3, <1>4, <2>3, <2>4, <2>5
<1>6. CASE hold[c] # c
  <2>1. /\ DropUnreferenced /\ UNCHANGED <<peer_map, alive_conns, owner, waiting>>
        /\ stage' = [stage EXCEPT ![c] = "done"] /\ stage[c] = "announce"
        /\ hold' = [hold EXCEPT ![c] = NoPeer]
    BY Zenon, <1>6 DEF Announce
  <2>2. Referenced' \ {NoPeer} \subseteq Referenced
    BY <2>1 DEF Referenced, TypeOK
  <2>3. \A d \in ConnId :
          stage'[d] # stage[d] => stage[d] \in {"announce", "insert"} /\ stage'[d] \in {"insert", "done"}
    BY Zenon, <2>1 DEF TypeOK
  <2> QED BY Zenon, <1>2, <1>3, <1>4, <2>1, <2>2, <2>3, DropStep
<1> QED BY Zenon, <1>5, <1>6

(* The object takes the place of the one the map had for the peer.         *)
LEMMA AddNewPeerStep ==
  ASSUME IInv, TypeOK', NEW c \in ConnId, AddNewPeer(c)
  PROVE  IInv'
<1> USE DEF IInv, AddNewPeer
<1>1. [kind |-> "peer_added", peer |-> PeerOf[c]] \in Event
      /\ \A d \in ConnId : [kind |-> "peer_added", peer |-> PeerOf[c]] # Removed(d)
  BY Zenon, PeerMapAssumption DEF Event, Removed
<1>2. \A d \in ConnId : (IsOut(d)' <=> IsOut(d)) /\ (Once(d) => Once(d)')
  BY Zenon, <1>1, OtherEvent DEF TypeOK
<1>3. Adding'
  BY PeerMapAssumption DEF Adding, TypeOK
<1>4. Objects'
  BY PeerMapAssumption DEF Adding, Objects, Created, TypeOK, Object
<1>5. Referenced' \ {NoPeer} \subseteq Referenced
  BY PeerMapAssumption DEF Referenced, Adding, TypeOK
<1>6. \A d \in ConnId :
        stage'[d] # stage[d] => stage[d] \in {"announce", "insert"} /\ stage'[d] \in {"insert", "done"}
  BY Zenon DEF TypeOK
<1> QED BY Zenon, <1>2, <1>3, <1>4, <1>5, <1>6, DropStep

(* The routine drops a peer.                                               *)
LEMMA ClosePeerStep ==
  ASSUME IInv, TypeOK', NEW p \in PeerId, ClosePeer(p)
  PROVE  IInv'
<1> USE DEF IInv, ClosePeer, connVars
<1>1. [kind |-> "peer_removed", peer |-> p] \in Event
      /\ \A d \in ConnId : [kind |-> "peer_removed", peer |-> p] # Removed(d)
  BY Zenon DEF Event, Removed
<1>2. \A d \in ConnId : (IsOut(d)' <=> IsOut(d)) /\ (Once(d) => Once(d)')
  BY Zenon, <1>1, OtherEvent DEF TypeOK
<1>3. Adding'
  BY Zenon DEF Adding
<1>4. Objects'
  <2>1. /\ UNCHANGED <<owner, stage, hold>> /\ peer_map'[p] = NoPeer
        /\ \A q \in PeerId \ {p} : peer_map'[q] = peer_map[q]
    BY Zenon DEF TypeOK
  <2>2. (\A q \in PeerId : peer_map[q] # NoPeer => Created(peer_map[q]) /\ PeerOf[peer_map[q]] = q)'
    BY <2>1 DEF Objects, Created
  <2>3. (\A d \in ConnId : hold[d] # NoPeer => Created(hold[d]) /\ PeerOf[hold[d]] = PeerOf[d])'
    BY <2>1 DEF Objects, Created
  <2>4. (\A d \in ConnId : owner[d] # NoPeer => Created(owner[d]) /\ PeerOf[owner[d]] = PeerOf[d])'
    BY ZenonT(60), <2>1 DEF Objects, Created
  <2> QED BY Zenon, <2>2, <2>3, <2>4 DEF Objects
<1>5. Referenced' \ {NoPeer} \subseteq Referenced
  BY Zenon DEF Referenced, TypeOK
<1> QED BY Zenon, <1>2, <1>3, <1>4, <1>5, DropStep

(* A connection breaks, and the tasks that wait for that.                  *)
LEMMA BreakStep ==
  ASSUME IInv, TypeOK', NEW c \in ConnId, ConnBreaks(c) \/ ForgetAlive(c) \/ NotifyClosed(c)
  PROVE  IInv'
<1> USE DEF IInv
<1>1. /\ UNCHANGED <<peer_map, stage, hold, owner, conns, events>>
      /\ closed \subseteq closed' /\ closed' \subseteq closed \cup {c}
      /\ c \in closed' /\ (owner[c] # NoPeer \/ closed' = closed)
      /\ alive_conns \ {c} \subseteq alive_conns'
      /\ waiting \ {c} \subseteq waiting'
  BY Zenon DEF ConnBreaks, ForgetAlive, NotifyClosed, connVars
<1>2. /\ Referenced' = Referenced
      /\ \A d \in ConnId : IsOut(d)' = IsOut(d) /\ Once(d)' = Once(d)
  BY Zenon, <1>1 DEF Referenced, IsOut, Once, Removed
<1>3. Adding' /\ Objects'
  BY Zenon, <1>1 DEF Adding, Objects, Created
<1>4. Published'
  BY Zenon, <1>1, <1>2 DEF Published
<1>5. Members'
  BY <1>1, <1>2 DEF Members, ConnBreaks, ForgetAlive, NotifyClosed, TypeOK
<1>6. CASE ConnBreaks(c) \/ ForgetAlive(c)
  BY Zenon, <1>1, <1>3, <1>4, <1>5, <1>6, PeerMapAssumption
  DEF Ends, Adding, ConnBreaks, ForgetAlive, TypeOK, connVars
<1>7. CASE NotifyClosed(c)
  <2>1. /\ closed' = closed /\ alive_conns' = alive_conns /\ c \in closed /\ waiting' = waiting \ {c}
        /\ \A o \in ConnId : closeq[o] \subseteq closeq'[o]
        /\ owner[c] \in Referenced \cap ConnId => c \in closeq'[owner[c]]
    BY <1>7 DEF NotifyClosed, TypeOK
  <2>2. owner[c] # NoPeer /\ c \in conns[owner[c]] => owner[c] \in Referenced \cap ConnId
    BY Zenon DEF Members, TypeOK, Object
  <2>3. Ends'
    BY Zenon, <1>1, <2>1, <2>2 DEF Ends, TypeOK, Object
  <2> QED BY Zenon, <1>3, <1>4, <1>5, <2>3
<1> QED BY Zenon, <1>6, <1>7

(* The listener takes a connection out of its object, once.                *)
LEMMA ListenStep ==
  ASSUME IInv, TypeOK', NEW o \in ConnId, NEW c \in ConnId, Listen(o, c)
  PROVE  IInv'
<1> USE DEF IInv
<1>1. /\ UNCHANGED <<peer_map, alive_conns, stage, hold, owner, waiting>>
      /\ owner[c] = o /\ o # NoPeer /\ o \in Referenced
      /\ \A r \in ConnId \ {o} : conns'[r] = conns[r] /\ closeq'[r] = closeq[r]
      /\ conns'[o] = conns[o] \ {c} /\ closeq'[o] = closeq[o] \ {c}
      /\ closed' = closed \cup (conns[o] \cap {c})
  BY PeerMapAssumption DEF Listen, Members, TypeOK, connVars
<1>2. Referenced' = Referenced
  BY Zenon, <1>1 DEF Referenced
<1>3. Adding' /\ Objects'
  BY <1>1 DEF Adding, Objects, Created
<1>4. Members'
  BY Zenon, <1>1, <1>2 DEF Members
<1>5. Ends'
  <2>1. \A d \in closed' : stage'[d] \notin {"idle", "create", "get", "attach"}
    BY <1>1 DEF Ends, Adding
  <2>2. \A d \in ConnId \ closed' : stage'[d] # "idle" => d \in alive_conns'
    BY Zenon, <1>1 DEF Ends
  <2>3. ASSUME NEW d \in ConnId, owner[d] # NoPeer
        PROVE  /\ d \notin closed' => d \in conns'[owner[d]] \cap waiting
               /\ d \in closed' \cap conns'[owner[d]] => d \in waiting \cup closeq'[owner[d]]
    <3>1. owner[d] \in ConnId
      BY Zenon, <2>3 DEF TypeOK, Object
    <3>2. CASE d = c
      BY Zenon, <1>1, <2>3, <3>2 DEF Ends
    <3>3. CASE d # c
      <4>1. /\ d \in closed' <=> d \in closed
            /\ d \in conns'[owner[d]] <=> d \in conns[owner[d]]
            /\ d \in closeq'[owner[d]] <=> d \in closeq[owner[d]]
        BY Zenon, <1>1, <3>1, <3>3
      <4> QED BY Zenon, <2>3, <4>1 DEF Ends
    <3> QED BY Zenon, <3>2, <3>3
  <2> QED BY Zenon, <1>1, <2>1, <2>2, <2>3 DEF Ends
<1>6. CASE c \in conns[o]
  <2>1. events' = Append(events, Removed(c)) /\ ~IsOut(c)
    BY Zenon, <1>1, <1>6 DEF Listen, Removed, Published
  <2>2. \A d \in ConnId : (IsOut(d)' <=> IsOut(d) \/ d = c) /\ (Once(d) => Once(d)')
    BY Zenon, <2>1, RemovedEvent DEF TypeOK
  <2>3. ASSUME NEW d \in ConnId
        PROVE  /\ Once(d)'
               /\ IsOut(d)' => d \in closed' /\ owner[d] # NoPeer /\ d \notin conns'[owner[d]]
               /\ owner[d] \in Referenced \ {NoPeer} /\ d \notin conns'[owner[d]] => IsOut(d)'
    <3>1. CASE d = c
      BY Zenon, <1>1, <1>6, <2>2, <3>1 DEF Published
    <3>2. CASE d # c
      <4>1. owner[d] # NoPeer => (d \in conns'[owner[d]] <=> d \in conns[owner[d]])
        BY SMTT(60), <1>1, <3>2 DEF TypeOK, Object
      <4> QED BY Zenon, <1>1, <2>2, <3>2, <4>1 DEF Published
    <3> QED BY Zenon, <3>1, <3>2
  <2>4. Published'
    BY Zenon, <1>1, <1>2, <2>3 DEF Published
  <2> QED BY Zenon, <1>3, <1>4, <1>5, <2>4
<1>7. CASE c \notin conns[o]
  <2>1. /\ events' = events /\ conns' = conns /\ closed' = closed
    BY <1>1, <1>7 DEF Listen, TypeOK
  <2>2. \A d \in ConnId : IsOut(d)' = IsOut(d) /\ Once(d)' = Once(d)
    BY Zenon, <2>1 DEF IsOut, Once, Removed
  <2>3. Published'
    BY Zenon, <1>1, <1>2, <2>1, <2>2 DEF Published
  <2> QED BY Zenon, <1>3, <1>4, <1>5, <2>3
<1> QED BY Zenon, <1>6, <1>7

(* Close events are sent for connections that are in the object.           *)
LEMMA EventStep ==
  ASSUME IInv, TypeOK',
         UNCHANGED <<peer_map, alive_conns, connVars, conns, closed, events>>,
         \A o \in ConnId : /\ closeq[o] \subseteq closeq'[o]
                           /\ closeq'[o] \subseteq closeq[o] \cup conns[o]
  PROVE  IInv'
<1> USE DEF IInv, connVars
<1>1. /\ Referenced' = Referenced
      /\ \A d \in ConnId : IsOut(d)' = IsOut(d) /\ Once(d)' = Once(d)
  BY Zenon DEF Referenced, IsOut, Once, Removed
<1>2. Adding' /\ Objects'
  BY Zenon DEF Adding, Objects, Created
<1>3. Members'
  BY Zenon, <1>1 DEF Members
<1>4. Ends'
  BY Zenon DEF Ends, TypeOK, Object
<1>5. Published'
  BY Zenon, <1>1 DEF Published
<1> QED BY Zenon, <1>2, <1>3, <1>4, <1>5

LEMMA SweptSends ==
  ASSUME TypeOK, NEW p \in PeerId, NEW o \in ConnId
  PROVE  closeq[o] \subseteq Swept(p)[o] /\ Swept(p)[o] \subseteq closeq[o] \cup conns[o]
BY Zenon DEF Swept, TypeOK, Object

LEMMA InvStep == IInv /\ [Next]_vars => IInv'
<1> SUFFICES ASSUME IInv, [Next]_vars PROVE IInv'
  OBVIOUS
<1>0. TypeOK /\ TypeOK'
  BY Zenon, TypeStep DEF IInv
<1>1. ASSUME NEW c \in ConnId, Register(c) PROVE IInv'
  BY Zenon, <1>0, <1>1, RegisterStep
<1>2. ASSUME NEW c \in ConnId, AddStep(c) PROVE IInv'
  BY Zenon, <1>0, <1>2, AttachStep, GetPeerStep, AnnounceStep, AddNewPeerStep DEF AddStep
<1>3. ASSUME NEW c \in ConnId, ConnBreaks(c) \/ ForgetAlive(c) \/ NotifyClosed(c) PROVE IInv'
  BY Zenon, <1>0, <1>3, BreakStep
<1>4. ASSUME NEW o \in ConnId, NEW c \in ConnId, Listen(o, c) PROVE IInv'
  BY Zenon, <1>0, <1>4, ListenStep
<1>5. ASSUME NEW p \in PeerId, ListPeerConns(p) PROVE IInv'
  BY Zenon, <1>0, <1>5, SweptSends, EventStep DEF ListPeerConns
<1>6. ASSUME NEW p \in PeerId, NEW c \in ConnId, ClosePeerConn(p, c) PROVE IInv'
  <2>1. \A o \in ConnId : /\ closeq[o] \subseteq closeq'[o]
                          /\ closeq'[o] \subseteq closeq[o] \cup conns[o]
    BY <1>0, <1>6 DEF ClosePeerConn, ConnsOf, TypeOK, Object
  <2> QED BY Zenon, <1>0, <1>6, <2>1, EventStep DEF ClosePeerConn
<1>7. ASSUME NEW p \in PeerId, CleanScan(p) PROVE IInv'
  BY Zenon, <1>0, <1>7, SweptSends, EventStep DEF CleanScan
<1>8. ASSUME NEW p \in PeerId, ClosePeer(p) PROVE IInv'
  BY Zenon, <1>0, <1>8, ClosePeerStep
<1>9. CASE CleanStart \/ CleanScanned
  BY Zenon, <1>0, <1>9, EventStep DEF CleanStart, CleanScanned
<1>10. CASE UNCHANGED vars
  BY Zenon, <1>0, <1>10, EventStep DEF vars
<1> QED
  BY Zenon, <1>1, <1>2, <1>3, <1>4, <1>5, <1>6, <1>7, <1>8, <1>9, <1>10 DEF Next, CleanStep

LEMMA InvInit == Init => IInv
<1> SUFFICES ASSUME Init PROVE IInv
  OBVIOUS
<1>1. TypeOK
  BY DEF Init, TypeOK, Object
<1>2. \A c \in ConnId : ~IsOut(c) /\ Once(c)
  BY DEF Init, IsOut, Once
<1> QED
  BY Zenon, <1>1, <1>2 DEF Init, IInv, Adding, Objects, Members, Ends, Published, Referenced

-----------------------------------------------------------------------------
LEMMA InvAccounts == IInv => ConnsAccounted
<1> SUFFICES ASSUME IInv PROVE ConnsAccounted
  OBVIOUS
<1> USE DEF IInv
<1>1. ASSUME NEW c \in ConnId, stage[c] = "done", c \notin closed
      PROVE  \/ c \in ConnsOf(PeerOf[c])
             \/ \E d \in ConnId : stage[d] # "done" /\ hold[d] = owner[c]
  <2>1. /\ owner[c] \in ConnId /\ c \in conns[owner[c]] /\ PeerOf[owner[c]] = PeerOf[c]
        /\ owner[c] \in Referenced
    BY SMTT(60), <1>1 DEF Adding, Ends, Objects, Members, TypeOK, Object
  <2>2. CASE \E p \in PeerId : peer_map[p] = owner[c]
    BY <2>1, <2>2, PeerMapAssumption DEF Objects, ConnsOf
  <2>3. CASE \E d \in ConnId : hold[d] = owner[c]
    BY Zenon, <2>1, <2>3, PeerMapAssumption DEF Adding
  <2> QED BY Zenon, <2>1, <2>2, <2>3 DEF Referenced
<1>2. AliveHasOpen
  BY PeerMapAssumption DEF AliveHasOpen, Open, Members, Ends, Adding, TypeOK
<1>3. ASSUME NEW c \in closed, owner[c] \in Referenced \ {NoPeer}
      PROVE  c \in waiting \cup closeq[owner[c]] \/ Announced("removed", c)
  BY Zenon, <1>3 DEF Published, Ends, Announced, IsOut, Removed, TypeOK
<1>4. ASSUME NEW c \in ConnId
      PROVE  LET at == {i \in DOMAIN events : events[i] = [kind |-> "removed", conn |-> c]}
             IN (\A i, j \in at : i = j) /\ (at # {} => c \in closed)
  <2> DEFINE at == {i \in DOMAIN events : events[i] = [kind |-> "removed", conn |-> c]}
  <2>1. at # {} => c \in closed
    BY Zenon DEF Published, IsOut, Removed
  <2>2. \A i, j \in at : i = j
    BY DEF Published, Once, Removed
  <2> QED BY Zenon, <2>1, <2>2
<1> QED
  BY Zenon, <1>1, <1>2, <1>3, <1>4 DEF ConnsAccounted, OpenIsReachable, RemovalAnnounced, RemovedOnce

(* Whatever adds, breaks, closings, listings and cleanings interleave, and *)
(* for any number of them: an open connection is in the Peer the map uses  *)
(* or in one a task is adding to, and in alive_conns; a closed one is      *)
(* announced unless its Peer was dropped, never twice.                     *)
THEOREM ConnectionsAccounted == Spec => []ConnsAccounted
<1>1. Spec => []IInv
  BY InvInit, InvStep, PTL DEF Spec
<1> QED BY <1>1, InvAccounts, PTL

-----------------------------------------------------------------------------
(***************************************************************************)
(* Acl: verdicts from the rules and from the cache.                        *)
(***************************************************************************)
Live(i) == i = Len(processors) \/ HeldBy(i, judging)

Ruled(i, entry, f, g) == entry.verdict = RuledBy(i, f, g) /\ entry.limits \subseteq rate_limiters

(* A processor that is in use has cached what its rules say, with limits   *)
(* whose buckets are there.                                                *)
ProcessorSound(i) ==
    /\ processors[i] = [rules |-> processors[i].rules, defaults |-> processors[i].defaults,
                        cache |-> processors[i].cache]
    /\ \A k \in DOMAIN processors[i].cache : Ruled(i, processors[i].cache[k], k[1], k[2])

(* A thread works with a processor that is there, and holds what the rules *)
(* say until it has decided.                                               *)
JudgeSound(q) ==
    /\ q = [at |-> q.at, by |-> q.by, packet |-> q.packet, result |-> q.result]
    /\ q.at # "idle" => q.by \in 1 .. Len(processors)
    /\ q.at = "cache" => Ruled(q.by, q.result, q.packet.flow, q.packet.groups)
    /\ q.at = "decided" =>
          q.result.verdict \in {RuledBy(q.by, q.packet.flow, q.packet.groups), "RateLimitDrop"}

AclInv ==
    /\ Len(processors) \in Nat \ {0} /\ processors = [i \in 1 .. Len(processors) |-> processors[i]]
    /\ \A i \in 1 .. Len(processors) : Live(i) => ProcessorSound(i)
    /\ judging = [j \in Judge |-> judging[j]]
    /\ \A j \in Judge : JudgeSound(judging[j])

LEMMA SameRuling ==
  ASSUME NEW i, processors'[i].rules = processors[i].rules, processors'[i].defaults = processors[i].defaults
  PROVE  \A f, g : RuledBy(i, f, g)' = RuledBy(i, f, g)
BY Zenon DEF RuledBy

LEMMA SameEntries ==
  ASSUME NEW i, processors'[i].rules = processors[i].rules, processors'[i].defaults = processors[i].defaults,
         rate_limiters \subseteq rate_limiters'
  PROVE  \A e, f, g : Ruled(i, e, f, g) => Ruled(i, e, f, g)'
BY Zenon, SameRuling DEF Ruled

LEMMA ResultRuled ==
  ASSUME NEW rules, NEW default, NEW chain, NEW p
  PROVE  RuleResult(rules, default, chain, p).verdict = Ruling(rules, default, p.flow, p.groups)
<1> DEFINE S == {k \in DOMAIN rules : /\ rules[k].enabled
                                      /\ rules[k].flows = {} \/ p.flow \in rules[k].flows
                                      /\ rules[k].groups = {} \/ rules[k].groups \cap p.groups # {}}
<1>1. Matching(rules, p) = S
  BY Zenon DEF Matching, rule_matches
<1>2. Ruling(rules, default, p.flow, p.groups) = IF S = {} THEN default ELSE rules[First(S)].action
  BY Zenon DEF Ruling, First
<1> HIDE DEF S
<1>3. CASE S = {}
  <2>1. RuleResult(rules, default, chain, p) = CacheEntry(default, {}, {})
    BY Zenon, <1>1, <1>3 DEF RuleResult
  <2> QED BY <1>2, <1>3, <2>1 DEF CacheEntry
<1>4. CASE S # {}
  <2>1. PICK l, t : RuleResult(rules, default, chain, p) = CacheEntry(rules[First(S)].action, l, t)
    BY Zenon, <1>1, <1>4 DEF RuleResult
  <2> QED BY <1>2, <1>4, <2>1 DEF CacheEntry
<1> QED BY Zenon, <1>3, <1>4

LEMMA AclInvInit == AclInit => AclInv
<1> SUFFICES ASSUME AclInit PROVE AclInv
  BY Zenon
<1>1. PICK acl : processors = <<Processor(acl)>>
  BY Zenon DEF AclInit
<1>2. judging = [j \in Judge |-> Idle]
  BY Zenon DEF AclInit
<1>3. Len(processors) = 1 /\ processors = [i \in 1 .. 1 |-> processors[i]] /\ processors[1] = Processor(acl)
  BY <1>1
<1>4. ProcessorSound(1)
  BY <1>3 DEF ProcessorSound, Processor
<1>5. Idle = [at |-> Idle.at, by |-> Idle.by, packet |-> Idle.packet, result |-> Idle.result] /\ Idle.at = "idle"
  BY Zenon DEF Idle
<1>6. JudgeSound(Idle)
  BY Zenon, <1>5 DEF JudgeSound
<1> QED BY <1>2, <1>3, <1>4, <1>6 DEF AclInv

-----------------------------------------------------------------------------
(* A thread that does nothing keeps what it has, when its processor keeps  *)
(* its rules.                                                              *)
LEMMA Waiting ==
  ASSUME NEW q, JudgeSound(q), rate_limiters \subseteq rate_limiters',
         Len(processors) \in Nat, Len(processors)' \in Nat, Len(processors) <= Len(processors)',
         q.at # "idle" => /\ processors'[q.by].rules = processors[q.by].rules
                          /\ processors'[q.by].defaults = processors[q.by].defaults
  PROVE  JudgeSound(q)'
<1>1. CASE q.at = "idle"
  BY Zenon, <1>1 DEF JudgeSound
<1>2. CASE q.at # "idle"
  <2>1. /\ \A f, g : RuledBy(q.by, f, g)' = RuledBy(q.by, f, g)
        /\ \A e, f, g : Ruled(q.by, e, f, g) => Ruled(q.by, e, f, g)'
    BY Zenon, <1>2, SameRuling, SameEntries
  <2>2. q.by \in 1 .. Len(processors)'
    BY <1>2 DEF JudgeSound
  <2> QED BY Zenon, <2>1, <2>2 DEF JudgeSound
<1> QED BY Zenon, <1>1, <1>2

(* What a step leaves of the processors: those in use keep their rules.    *)
Kept == /\ Len(processors)' \in Nat /\ Len(processors) <= Len(processors)'
        /\ processors' = [i \in 1 .. Len(processors)' |-> processors'[i]]
        /\ rate_limiters \subseteq rate_limiters'
        /\ \A i \in 1 .. Len(processors)' : Live(i)' => ProcessorSound(i)'
        /\ \A i \in 1 .. Len(processors) : HeldBy(i, judging)' /\ HeldBy(i, judging) =>
              /\ processors'[i].rules = processors[i].rules
              /\ processors'[i].defaults = processors[i].defaults

LEMMA OneJudge ==
  ASSUME AclInv, Kept, NEW j \in Judge, NEW q, judging' = [judging EXCEPT ![j] = q], JudgeSound(q)'
  PROVE  AclInv'
<1>1. /\ judging' = [k \in Judge |-> judging'[k]] /\ judging'[j] = q
      /\ \A k \in Judge : k # j => judging'[k] = judging[k]
  BY Zenon DEF AclInv
<1>2. Len(processors) \in Nat /\ Len(processors)' \in Nat \ {0} /\ Len(processors) <= Len(processors)'
  BY DEF AclInv, Kept
<1>3. \A k \in Judge : JudgeSound(judging[k])'
  <2> TAKE k \in Judge
  <2>1. PICK w : w = judging'[k]
    BY Zenon
  <2>2. CASE k = j
    BY Zenon, <1>1, <2>2 DEF JudgeSound
  <2>3. CASE k # j
    <3>1. JudgeSound(w) /\ w = judging[k]
      BY Zenon, <1>1, <2>1, <2>3 DEF AclInv
    <3>2. w.at # "idle" => /\ w.by \in 1 .. Len(processors)
                           /\ HeldBy(w.by, judging)' /\ HeldBy(w.by, judging)
      BY Zenon, <2>1, <3>1 DEF HeldBy, JudgeSound
    <3>3. JudgeSound(w)'
      BY Zenon, <1>2, <3>1, <3>2, Waiting DEF Kept
    <3> QED BY Zenon, <2>1, <3>3 DEF JudgeSound
  <2> QED BY Zenon, <2>2, <2>3
<1> QED BY Zenon, <1>1, <1>2, <1>3 DEF AclInv, Kept

LEMMA KeptAlike ==
  ASSUME AclInv, UNCHANGED processors, rate_limiters \subseteq rate_limiters',
         \A i \in 1 .. Len(processors) : HeldBy(i, judging)' => Live(i)
  PROVE  Kept
<1>1. Len(processors)' = Len(processors) /\ Len(processors) \in Nat /\ Len(processors) <= Len(processors)
  BY DEF AclInv
<1>2. \A i : ProcessorSound(i) => ProcessorSound(i)'
  BY Zenon, SameEntries DEF ProcessorSound
<1> QED BY Zenon, <1>1, <1>2 DEF AclInv, Kept, Live

(* The thread decides by a processor it has.                               *)
LEMMA DecidesStep ==
  ASSUME AclInv, Kept, NEW j \in Judge, NEW v, Decides(j, v), judging[j].at # "idle",
         v \in {RuledBy(judging[j].by, judging[j].packet.flow, judging[j].packet.groups), "RateLimitDrop"}
  PROVE  AclInv'
<1> DEFINE p == judging[j]
<1>1. PICK q : q = [p EXCEPT !.at = "decided", !.result = CacheEntry(v, {}, {})]
  BY Zenon
<1>2. judging' = [judging EXCEPT ![j] = q]
  BY Zenon, <1>1 DEF AclInv, Decides
<1>3. JudgeSound(p)
  BY Zenon DEF AclInv
<1>4. q = [at |-> "decided", by |-> p.by, packet |-> p.packet, result |-> CacheEntry(v, {}, {})]
  BY Zenon, <1>1, <1>3 DEF JudgeSound
<1>5. HeldBy(p.by, judging) /\ p.by \in 1 .. Len(processors)
  BY Zenon, <1>3 DEF HeldBy, JudgeSound
<1>6. q.at = "decided" /\ q.by = p.by /\ q.packet = p.packet /\ q.result.verdict = v /\ judging'[j] = q
  BY Zenon, <1>2, <1>4 DEF CacheEntry, AclInv
<1>7. HeldBy(q.by, judging)' /\ HeldBy(q.by, judging) /\ q.by \in 1 .. Len(processors)
  <2>1. "decided" # "idle"
    OBVIOUS
  <2> QED BY Zenon, <1>5, <1>6, <2>1 DEF HeldBy
<1> HIDE DEF p
<1>8. \A f, g : RuledBy(q.by, f, g)' = RuledBy(q.by, f, g)
  BY Zenon, <1>7, SameRuling DEF Kept
<1>9. q.by \in 1 .. Len(processors)' /\ "decided" # "cache"
  BY <1>7 DEF Kept, AclInv
<1>10. q = [at |-> q.at, by |-> q.by, packet |-> q.packet, result |-> q.result]
  BY Zenon, <1>4
<1>11. q.result.verdict \in {RuledBy(q.by, q.packet.flow, q.packet.groups), "RateLimitDrop"}
  BY Zenon, <1>6 DEF p
<1>12. JudgeSound(q)'
  <2>1. q.result.verdict \in {RuledBy(q.by, q.packet.flow, q.packet.groups)', "RateLimitDrop"}
    BY Zenon, <1>8, <1>11
  <2>2. q.at # "cache"
    BY Zenon, <1>6, <1>9
  <2> QED BY Zenon, <1>9, <1>10, <2>1, <2>2 DEF JudgeSound
<1> QED BY Zenon, <1>2, <1>12, OneJudge

-----------------------------------------------------------------------------
LEMMA StartJudgingStep ==
  ASSUME AclInv, NEW j \in Judge, NEW f \in Flow, StartJudging(j, f)
  PROVE  AclInv'
<1>1. PICK q : q = [at |-> "lookup", by |-> Len(processors), packet |-> PacketInfo(f), result |-> Idle.result]
  BY Zenon
<1>2. judging' = [judging EXCEPT ![j] = q] /\ UNCHANGED <<processors, rate_limiters>>
  BY Zenon, <1>1 DEF StartJudging
<1>3. q.at = "lookup" /\ q.by = Len(processors)
      /\ q = [at |-> q.at, by |-> q.by, packet |-> q.packet, result |-> q.result]
  BY Zenon, <1>1
<1>4. \A k \in Judge : judging'[k] = IF k = j THEN q ELSE judging[k]
  BY Zenon, <1>2 DEF AclInv
<1>5. \A i \in 1 .. Len(processors) : HeldBy(i, judging)' => Live(i)
  BY Zenon, <1>3, <1>4 DEF HeldBy, Live
<1>6. Kept
  BY Zenon, <1>2, <1>5, KeptAlike
<1>7. Len(processors) \in 1 .. Len(processors)' /\ "lookup" # "cache" /\ "lookup" # "decided"
  BY <1>2 DEF AclInv
<1>8. JudgeSound(q)'
  BY Zenon, <1>3, <1>7 DEF JudgeSound
<1> QED BY Zenon, <1>2, <1>6, <1>8, OneJudge

(* Deciding leaves the processors in use as they are.                      *)
LEMMA DecidesHeld ==
  ASSUME AclInv, NEW j \in Judge, NEW q, judging' = [judging EXCEPT ![j] = q],
         q.by = judging[j].by, judging[j].at # "idle"
  PROVE  \A i \in 1 .. Len(processors) : HeldBy(i, judging)' => HeldBy(i, judging)
<1>1. \A k \in Judge : judging'[k] = IF k = j THEN q ELSE judging[k]
  BY Zenon DEF AclInv
<1> QED BY Zenon, <1>1 DEF HeldBy

LEMMA DecidesSame ==
  ASSUME AclInv, NEW j \in Judge, NEW v, Decides(j, v), judging[j].at # "idle"
  PROVE  \A i \in 1 .. Len(processors) : HeldBy(i, judging)' => HeldBy(i, judging)
<1>1. PICK q : q = [judging[j] EXCEPT !.at = "decided", !.result = CacheEntry(v, {}, {})]
  BY Zenon
<1>2. judging' = [judging EXCEPT ![j] = q]
  BY Zenon, <1>1 DEF AclInv, Decides
<1>3. JudgeSound(judging[j])
  BY Zenon DEF AclInv
<1>4. q.by = judging[j].by
  BY Zenon, <1>1, <1>3 DEF JudgeSound
<1> QED BY Zenon, <1>2, <1>4, DecidesHeld

LEMMA HitStep ==
  ASSUME AclInv, NEW j \in Judge, CacheHit(j)
  PROVE  AclInv'
<1> DEFINE p == judging[j]
           e == processors[p.by].cache[from_packet_info(p.packet)]
<1>1. /\ p.at = "lookup" /\ from_packet_info(p.packet) \in DOMAIN processors[p.by].cache
      /\ UNCHANGED processors
      /\ \/ e.limits = {} /\ Decides(j, e.verdict) /\ UNCHANGED rate_limiters
         \/ \E k \in e.limits : CheckRateLimit(j, k, FALSE, e.verdict)
  BY Zenon DEF CacheHit
<1>2. "lookup" # "idle"
  OBVIOUS
<1>3. p.by \in 1 .. Len(processors) /\ Live(p.by)
  BY Zenon, <1>1, <1>2 DEF AclInv, JudgeSound, Live, HeldBy
<1>4. Ruled(p.by, e, from_packet_info(p.packet)[1], from_packet_info(p.packet)[2])
  BY Zenon, <1>1, <1>3 DEF AclInv, ProcessorSound
<1>5. from_packet_info(p.packet)[1] = p.packet.flow /\ from_packet_info(p.packet)[2] = p.packet.groups
  BY Zenon DEF from_packet_info
<1>6. e.verdict = RuledBy(p.by, p.packet.flow, p.packet.groups) /\ e.limits \subseteq rate_limiters
  BY Zenon, <1>4, <1>5 DEF Ruled
<1> HIDE DEF e
<1>7. rate_limiters \subseteq rate_limiters' /\ \E v \in {e.verdict, "RateLimitDrop"} : Decides(j, v)
  BY Zenon, <1>1, <1>6 DEF CheckRateLimit
<1>8. PICK v \in {e.verdict, "RateLimitDrop"} : Decides(j, v)
  BY Zenon, <1>7
<1>9. Kept
  BY Zenon, <1>1, <1>2, <1>7, <1>8, DecidesSame, KeptAlike DEF Live
<1> QED BY Zenon, <1>1, <1>2, <1>6, <1>8, <1>9, DecidesStep

LEMMA EvaluateStep ==
  ASSUME AclInv, NEW j \in Judge, EvaluateRules(j)
  PROVE  AclInv'
<1> DEFINE p == judging[j]
           chain == ChainOf[p.packet.flow]
           r == RuleResult(processors[p.by].rules[chain], processors[p.by].defaults[chain], chain, p.packet)
<1>1. /\ p.at = "lookup" /\ UNCHANGED processors /\ rate_limiters' = rate_limiters \cup r.limits
      /\ judging' = [judging EXCEPT ![j].at = "cache", ![j].result = r] \/ Decides(j, "RateLimitDrop")
  BY Zenon DEF EvaluateRules
<1>2. "lookup" # "idle" /\ "cache" # "idle" /\ "cache" # "decided"
  OBVIOUS
<1>3. r.verdict = RuledBy(p.by, p.packet.flow, p.packet.groups)
  <2>1. \A rules, default : RuleResult(rules, default, chain, p.packet).verdict
                              = Ruling(rules, default, p.packet.flow, p.packet.groups)
    BY SMTT(30), ResultRuled
  <2> QED BY Zenon, <2>1 DEF RuledBy
<1> HIDE DEF r
<1>4. rate_limiters \subseteq rate_limiters' /\ r.limits \subseteq rate_limiters'
  BY Zenon, <1>1
<1>5. CASE Decides(j, "RateLimitDrop")
  <2>1. Kept
    BY Zenon, <1>1, <1>2, <1>4, <1>5, DecidesSame, KeptAlike DEF Live
  <2> QED BY Zenon, <1>1, <1>2, <1>5, <2>1, DecidesStep
<1>6. CASE judging' = [judging EXCEPT ![j].at = "cache", ![j].result = r]
  <2>1. PICK q : q = [p EXCEPT !.at = "cache", !.result = r]
    BY Zenon
  <2>2. judging' = [judging EXCEPT ![j] = q]
    BY Zenon, <1>6, <2>1 DEF AclInv
  <2>3. JudgeSound(p)
    BY Zenon DEF AclInv
  <2>4. q = [at |-> "cache", by |-> p.by, packet |-> p.packet, result |-> r]
    BY Zenon, <2>1, <2>3 DEF JudgeSound
  <2>5. q.at = "cache" /\ q.by = p.by /\ q.packet = p.packet /\ q.result = r
        /\ q = [at |-> q.at, by |-> q.by, packet |-> q.packet, result |-> q.result]
    BY Zenon, <2>4
  <2>6. Kept
    BY Zenon, <1>1, <1>2, <1>4, <2>2, <2>5, DecidesHeld, KeptAlike DEF Live
  <2>7. p.by \in 1 .. Len(processors)
    BY Zenon, <1>1, <1>2, <2>3 DEF JudgeSound
  <2>8. \A i, f, g : RuledBy(i, f, g)' = RuledBy(i, f, g)
    BY Zenon, <1>1, SameRuling
  <2>9. Ruled(q.by, q.result, q.packet.flow, q.packet.groups)'
    BY Zenon, <1>3, <1>4, <2>5, <2>8 DEF Ruled
  <2>10. JudgeSound(q)'
    BY Zenon, <1>1, <1>2, <2>5, <2>7, <2>9 DEF JudgeSound
  <2> QED BY Zenon, <2>2, <2>6, <2>10, OneJudge
<1> QED BY Zenon, <1>1, <1>5, <1>6

-----------------------------------------------------------------------------
(* A processor in use gets another cache, whose entries are sound.         *)
LEMMA CacheKept ==
  ASSUME AclInv, NEW b \in 1 .. Len(processors), Live(b), NEW c, processors' = WithCache(b, c),
         UNCHANGED rate_limiters, \A k \in DOMAIN c : Ruled(b, c[k], k[1], k[2]),
         \A i \in 1 .. Len(processors) : HeldBy(i, judging)' => HeldBy(i, judging)
  PROVE  Kept
<1> DEFINE N == Len(processors)
           o == processors[b]
<1>1. N \in Nat \ {0} /\ processors = [i \in 1 .. N |-> processors[i]]
  BY Zenon DEF AclInv
<1>2. ProcessorSound(b) /\ o = [rules |-> o.rules, defaults |-> o.defaults, cache |-> o.cache]
  BY Zenon DEF AclInv, ProcessorSound
<1>3. PICK w : w = [o EXCEPT !.cache = c]
  BY Zenon
<1>4. w = [rules |-> o.rules, defaults |-> o.defaults, cache |-> c]
  BY Zenon, <1>2, <1>3
<1>5. w.rules = o.rules /\ w.defaults = o.defaults /\ w.cache = c
      /\ w = [rules |-> w.rules, defaults |-> w.defaults, cache |-> w.cache]
  BY Zenon, <1>4
<1>6. processors' = [processors EXCEPT ![b] = w]
  BY Zenon, <1>1, <1>3 DEF WithCache
<1> HIDE DEF o
<1>7. /\ Len(processors)' = N /\ processors' = [i \in 1 .. N |-> processors'[i]] /\ processors'[b] = w
      /\ \A i \in 1 .. N : i # b => processors'[i] = processors[i]
  <2>1. PICK n \in Nat : n = N
    BY Zenon, <1>1
  <2>2. DOMAIN processors = 1 .. n
    BY Zenon, <1>1, <2>1
  <2>3. processors' = [i \in 1 .. n |-> IF i = b THEN w ELSE processors[i]] /\ b \in 1 .. n
    BY Zenon, <1>6, <2>1, <2>2
  <2>4. Len(processors') = n /\ processors' = [i \in 1 .. n |-> processors'[i]] /\ processors'[b] = w
        /\ \A i \in 1 .. n : i # b => processors'[i] = processors[i]
    BY ONLY <2>1, <2>3
  <2> QED BY Zenon, <2>1, <2>4
<1>8. \A i \in 1 .. N : processors'[i].rules = processors[i].rules /\ processors'[i].defaults = processors[i].defaults
  BY Zenon, <1>5, <1>7 DEF o
<1>9. \A i \in 1 .. N : \A e, f, g : Ruled(i, e, f, g) => Ruled(i, e, f, g)'
  BY Zenon, <1>8, SameEntries
<1>10. ProcessorSound(b)'
  BY Zenon, <1>5, <1>7, <1>9 DEF ProcessorSound
<1>11. \A i \in 1 .. N : i # b /\ ProcessorSound(i) => ProcessorSound(i)'
  BY Zenon, <1>7, <1>9 DEF ProcessorSound
<1>12. \A i \in 1 .. N : Live(i)' => Live(i)
  BY Zenon, <1>7 DEF Live
<1>13. \A i \in 1 .. N : Live(i)' => ProcessorSound(i)'
  BY Zenon, <1>10, <1>11, <1>12 DEF AclInv
<1>14. Len(processors)' \in Nat /\ Len(processors) <= Len(processors)'
  BY <1>1, <1>7
<1> QED BY Zenon, <1>7, <1>8, <1>13, <1>14 DEF Kept

LEMMA EvictedSound ==
  ASSUME NEW cache, NEW c \in Evicted(cache)
  PROVE  \A k \in DOMAIN c : k \in DOMAIN cache /\ c[k] = cache[k]
<1>1. c = cache \/ \E S : c = [k \in DOMAIN cache \ S |-> cache[k]]
  BY Zenon DEF Evicted
<1> QED BY Zenon, <1>1

LEMMA CacheResultStep ==
  ASSUME AclInv, NEW j \in Judge, CacheResult(j)
  PROVE  AclInv'
<1> DEFINE p == judging[j]
           key == from_packet_info(p.packet)
           more == WithEntry(processors[p.by].cache, key, p.result)
<1>1. PICK b : b = p.by
  BY Zenon
<1>2. PICK c \in Evicted(more) \cup {more} : processors' = WithCache(b, c)
  BY Zenon, <1>1 DEF CacheResult
<1>3. /\ p.at = "cache" /\ Decides(j, p.result.verdict) /\ UNCHANGED rate_limiters
      /\ "cache" # "idle" /\ JudgeSound(p)
  BY Zenon DEF CacheResult, AclInv
<1>4. b \in 1 .. Len(processors) /\ Live(b) /\ Ruled(b, p.result, p.packet.flow, p.packet.groups)
  BY Zenon, <1>1, <1>3 DEF JudgeSound, Live, HeldBy
<1>5. key[1] = p.packet.flow /\ key[2] = p.packet.groups
  BY Zenon DEF from_packet_info
<1> HIDE DEF key
<1>6. \A k \in DOMAIN more : Ruled(b, more[k], k[1], k[2])
  <2>1. \A k \in DOMAIN processors[b].cache : Ruled(b, processors[b].cache[k], k[1], k[2])
    BY Zenon, <1>4 DEF AclInv, ProcessorSound
  <2>2. DOMAIN more = DOMAIN processors[b].cache \cup {key}
        /\ \A k \in DOMAIN more : more[k] = IF k = key THEN p.result ELSE processors[b].cache[k]
    BY Zenon, <1>1 DEF WithEntry
  <2> HIDE DEF more
  <2> QED BY Zenon, <1>4, <1>5, <2>1, <2>2
<1> HIDE DEF more
<1>7. \A k \in DOMAIN c : Ruled(b, c[k], k[1], k[2])
  <2>1. \A k \in DOMAIN c : k \in DOMAIN more /\ c[k] = more[k]
    BY Zenon, <1>2, EvictedSound
  <2> QED BY Zenon, <1>6, <2>1
<1>8. Kept
  BY Zenon, <1>2, <1>3, <1>4, <1>7, CacheKept, DecidesSame
<1>9. p.result.verdict = RuledBy(p.by, p.packet.flow, p.packet.groups)
  BY Zenon, <1>1, <1>4 DEF Ruled
<1>10. PICK v : v = p.result.verdict
  BY Zenon
<1> QED BY Zenon, <1>3, <1>8, <1>9, <1>10, DecidesStep

(* No thread takes a step.                                                 *)
LEMMA NobodyMoves ==
  ASSUME AclInv, Kept, UNCHANGED judging
  PROVE  AclInv'
<1>1. CASE Judge = {}
  <2>1. Len(processors)' \in Nat \ {0} /\ judging' = [j \in Judge |-> judging'[j]]
    BY DEF AclInv, Kept
  <2> QED BY Zenon, <1>1, <2>1 DEF AclInv, Kept
<1>2. ASSUME NEW j \in Judge PROVE AclInv'
  <2>1. PICK q : q = judging[j]
    BY Zenon
  <2>2. judging' = [judging EXCEPT ![j] = q] /\ JudgeSound(q)
    BY Zenon, <2>1 DEF AclInv
  <2>3. q.at # "idle" => HeldBy(q.by, judging)' /\ HeldBy(q.by, judging) /\ q.by \in 1 .. Len(processors)
    BY Zenon, <2>1, <2>2 DEF HeldBy, JudgeSound
  <2>4. JudgeSound(q)'
    BY Zenon, <2>2, <2>3, Waiting DEF Kept, AclInv
  <2> QED BY Zenon, <2>2, <2>4, OneJudge
<1> QED BY Zenon, <1>1, <1>2

LEMMA CleanupCacheStep ==
  ASSUME AclInv, NEW i \in DOMAIN processors, CleanupCache(i)
  PROVE  AclInv'
<1>1. PICK c \in Evicted(processors[i].cache) : processors' = WithCache(i, c)
  BY Zenon DEF CleanupCache
<1>2. i \in 1 .. Len(processors) /\ UNCHANGED <<rate_limiters, judging>> /\ Live(i)
  BY Zenon DEF AclInv, CleanupCache, Live
<1>3. \A k \in DOMAIN c : Ruled(i, c[k], k[1], k[2])
  <2>1. \A k \in DOMAIN c : k \in DOMAIN processors[i].cache /\ c[k] = processors[i].cache[k]
    BY Zenon, <1>1, EvictedSound
  <2> QED BY Zenon, <1>2, <2>1 DEF AclInv, ProcessorSound
<1>4. Kept
  BY Zenon, <1>1, <1>2, <1>3, CacheKept DEF HeldBy
<1> QED BY Zenon, <1>2, <1>4, NobodyMoves

(* Processors without users are dropped, the others stay.                  *)
LEMMA HeldKept ==
  ASSUME AclInv, NEW ps, Len(ps) \in Nat, Len(processors) <= Len(ps), processors' = Held(ps, judging'),
         UNCHANGED rate_limiters,
         \A i \in 1 .. Len(processors) : ps[i] = processors[i] /\ (HeldBy(i, judging)' => HeldBy(i, judging)),
         Len(ps) # Len(processors) =>
            /\ Len(ps) = Len(processors) + 1
            /\ \E acl : ps[Len(ps)] = Processor(acl)
  PROVE  Kept
<1> DEFINE N == Len(processors)
<1>1. /\ Len(processors)' = Len(ps) /\ processors' = [i \in 1 .. Len(ps) |-> processors'[i]]
      /\ \A i \in 1 .. Len(ps) : i = Len(ps) \/ HeldBy(i, judging)' => processors'[i] = ps[i]
      /\ N \in Nat \ {0}
  BY DEF Held, AclInv, HeldBy
<1>a. \A i \in 1 .. N : i \in 1 .. Len(ps) /\ (i = Len(ps) => i = N)
  <2>1. PICK n \in Nat, l \in Nat : n = N /\ l = Len(ps)
    BY Zenon, <1>1
  <2>2. n <= l
    BY Zenon, <2>1
  <2>3. \A i \in 1 .. n : i \in 1 .. l /\ (i = l => i = n)
    BY ONLY <2>2, n \in Nat, l \in Nat
  <2> QED BY Zenon, <2>1, <2>3
<1>2. \A i \in 1 .. N : HeldBy(i, judging)' => processors'[i] = processors[i] /\ i \in 1 .. Len(ps)
  BY Zenon, <1>1, <1>a
<1>3. ASSUME NEW i \in 1 .. N, Live(i)' PROVE ProcessorSound(i)'
  <2>1. i \in 1 .. Len(ps) /\ (i = Len(ps) => i = N)
    BY Zenon, <1>a
  <2>2. Live(i) /\ processors'[i] = processors[i]
    BY Zenon, <1>1, <1>3, <2>1 DEF Live
  <2>3. \A e, f, g : Ruled(i, e, f, g) => Ruled(i, e, f, g)'
    BY Zenon, <2>2, SameEntries
  <2> QED BY Zenon, <2>2, <2>3 DEF AclInv, ProcessorSound
<1>4. CASE Len(ps) # N
  <2>1. PICK acl : ps[Len(ps)] = Processor(acl)
    BY Zenon, <1>4
  <2>2. PICK l : l = Len(ps)
    BY Zenon
  <2>3. processors'[l] = Processor(acl) /\ \A i \in 1 .. Len(ps) : i \in 1 .. N \/ i = l
    BY <1>1, <1>4, <2>1, <2>2
  <2>4. ProcessorSound(l)'
    <3>1. processors'[l] = [rules |-> processors'[l].rules, defaults |-> processors'[l].defaults,
                            cache |-> processors'[l].cache] /\ DOMAIN processors'[l].cache = {}
      BY <2>3 DEF Processor
    <3> QED BY Zenon, <3>1 DEF ProcessorSound
  <2>5. \A i \in 1 .. Len(ps) : Live(i)' => ProcessorSound(i)'
    BY Zenon, <1>3, <2>3, <2>4
  <2> QED BY Zenon, <1>1, <1>2, <2>5 DEF Kept
<1>5. CASE Len(ps) = N
  BY Zenon, <1>1, <1>2, <1>3, <1>5 DEF Kept
<1> QED BY Zenon, <1>4, <1>5

LEMMA IdleSound == JudgeSound(Idle)' /\ Idle.at = "idle"
<1>1. Idle = [at |-> Idle.at, by |-> Idle.by, packet |-> Idle.packet, result |-> Idle.result] /\ Idle.at = "idle"
      /\ "idle" # "cache" /\ "idle" # "decided"
  BY Zenon DEF Idle
<1> QED BY Zenon, <1>1 DEF JudgeSound

LEMMA HandleResultStep ==
  ASSUME AclInv, NEW j \in Judge, HandleAclResult(j)
  PROVE  AclInv'
<1>1. judging' = [judging EXCEPT ![j] = Idle] /\ processors' = Held(processors, judging') /\ UNCHANGED rate_limiters
  BY Zenon DEF HandleAclResult
<1>2. \A k \in Judge : judging'[k] = IF k = j THEN Idle ELSE judging[k]
  BY Zenon, <1>1 DEF AclInv
<1>3. \A i : HeldBy(i, judging)' => HeldBy(i, judging)
  BY Zenon, <1>2, IdleSound DEF HeldBy
<1>4. PICK ps : ps = processors
  BY Zenon
<1>5. Len(ps) \in Nat /\ Len(processors) <= Len(ps)
  BY <1>4 DEF AclInv
<1>6. Kept
  BY Zenon, <1>1, <1>3, <1>4, <1>5, HeldKept
<1> QED BY Zenon, <1>1, <1>6, IdleSound, OneJudge

LEMMA ReloadStep ==
  ASSUME AclInv, ReloadRules
  PROVE  AclInv'
<1>1. judging' = judging /\ (UNCHANGED <<processors, rate_limiters>> \/ \E acl : Load(acl))
  BY Zenon DEF ReloadRules
<1>2. Kept
  <2>1. CASE UNCHANGED <<processors, rate_limiters>>
    BY Zenon, <1>1, <2>1, KeptAlike DEF HeldBy, Live
  <2>2. ASSUME NEW acl, Load(acl) PROVE Kept
    <3>1. PICK ps : ps = Append(processors, Processor(acl))
      BY Zenon
    <3>2. processors' = Held(ps, judging') /\ UNCHANGED rate_limiters
      BY Zenon, <1>1, <2>2, <3>1 DEF Load
    <3>3. PICK n \in Nat : n = Len(processors)
      BY Zenon DEF AclInv
    <3>4. processors \in Seq({processors[i] : i \in 1 .. n})
      BY <3>3 DEF AclInv
    <3>5. /\ Len(ps) = n + 1 /\ ps[n + 1] = Processor(acl) /\ Len(ps) \in Nat /\ n <= Len(ps)
          /\ \A i \in 1 .. n : ps[i] = processors[i]
      BY <3>1, <3>3, <3>4
    <3> QED BY Zenon, <1>1, <3>2, <3>3, <3>5, HeldKept DEF HeldBy
  <2> QED BY Zenon, <1>1, <2>1, <2>2
<1> QED BY Zenon, <1>1, <1>2, NobodyMoves

LEMMA AclInvStep == AclInv /\ [AclNext]_aclVars => AclInv'
<1> SUFFICES ASSUME AclInv, [AclNext]_aclVars PROVE AclInv'
  BY Zenon
<1>1. CASE UNCHANGED <<processors, judging, rate_limiters>>
  BY Zenon, <1>1, KeptAlike, NobodyMoves DEF HeldBy, Live
<1>2. CASE GroupsChange \/ CleanupExpiredConnections \/ UNCHANGED aclVars
  BY Zenon, <1>1, <1>2 DEF GroupsChange, CleanupExpiredConnections, aclVars
<1> QED BY Zenon, <1>2, ReloadStep, CleanupCacheStep, StartJudgingStep, HitStep, EvaluateStep, CacheResultStep, HandleResultStep
        DEF AclNext

(* For any rules, packets, groups, threads and size of the cache: what is  *)
(* decided about a packet is what the rules of the processor that judged it *)
(* say of its flow and groups, or that it is over a rate limit.            *)
THEOREM VerdictAlwaysByRules == AclSpec => []VerdictByRules
<1>1. AclInv => VerdictByRules
  BY Zenon DEF AclInv, JudgeSound, VerdictByRules
<1> QED BY <1>1, AclInvInit, AclInvStep, PTL DEF AclSpec
=============================================================================
