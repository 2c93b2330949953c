----------------------------- MODULE PunchServer ----------------------------
(***************************************************************************)
(* The listeners a node keeps for hole punching, PunchHoleServerCommon in  *)
(* connector/udp_hole_punch/common.rs.  A client asks for one by RPC and   *)
(* is given its public address; some seconds later packets are sent from   *)
(* it and the client connects to it.  A listener serves all connections    *)
(* that came in by it: when it is dropped, they break.  A step of time is  *)
(* five seconds, the period of the cleanup and of the task that every      *)
(* listener has to note its use.                                           *)
(***************************************************************************)
EXTENDS Naturals, FiniteSets

CONSTANTS Requester,         \* RPC handlers that may run at once
          MaxListeners,   \* 16: from then on a listener is used again
          MaxMade,        \* bound: listeners made
          ActiveKeep,     \* periods a listener is kept after its last use, 8
          SelectKeep,     \* periods it is kept after it was given out, 6
          ConnectWithin   \* bound: periods a client takes to connect

(* A client that connects in time finds its listener, and the next note of *)
(* the listener's task is in time as well.                                 *)
ASSUME KeepAssumption == /\ {ActiveKeep, SelectKeep, ConnectWithin} \subseteq Nat
                         /\ ActiveKeep > 1 /\ SelectKeep > ConnectWithin + 1

VARIABLES listeners,   \* the list: number -> [mapped, conns, active, selected, noted],
                       \* in the order of the numbers
          made,        \* listeners made so far
          given,        \* [Requester -> [pc, force, last, id, wait]]
          cleaned,     \* the cleanup has run in this period
          cut          \* listeners that were dropped with connections

keepVars == <<listeners, made, given, cleaned, cut>>

NoCall == [pc |-> "idle", force |-> FALSE, last |-> FALSE, id |-> 0, wait |-> 0]

ServerInit == /\ listeners = <<>> /\ made = 0 /\ cleaned = TRUE /\ cut = {}
              /\ given = [c \in Requester |-> NoCall]

Capped(a, b) == IF a < b THEN a ELSE b
Older(l) == [l EXCEPT !.active = Capped(@ + 1, ActiveKeep), !.selected = Capped(@ + 1, SelectKeep),
                      !.noted = FALSE]

UdpHolePunchListener(mapped, conns) ==
    [mapped |-> mapped, conns |-> conns, active |-> 0, selected |-> 0, noted |-> TRUE]

(* A new one is pushed to the end of the list.                             *)
Push(l) ==
    /\ made < MaxMade /\ made' = made + 1
    /\ listeners' = [k \in DOMAIN listeners \cup {made'} |-> IF k = made' THEN l ELSE listeners[k]]

Exists(id) == id \in DOMAIN listeners
GetSocket(k) == listeners' = [listeners EXCEPT ![k].selected = 0]

-----------------------------------------------------------------------------
(* select_listener: the number of listeners is looked at first, and the    *)
(* list is locked anew for each of the next steps.                         *)
SelectListener(c) ==
    /\ given[c].pc = "idle"
    /\ given' = [given EXCEPT ![c] = [NoCall EXCEPT !.pc = IF Cardinality(DOMAIN listeners) < MaxListeners THEN "create"
                                                         ELSE "pick"]]
    /\ UNCHANGED <<listeners, made, cleaned, cut>>

(* The list stays locked while STUN is asked for the public address.       *)
CreateListener(c) ==
    /\ given[c].pc = "create"
    /\ \/ /\ Push(UdpHolePunchListener(TRUE, 0))
          /\ given' = [given EXCEPT ![c].pc = "pick", ![c].last = TRUE]
       \/ given' = [given EXCEPT ![c] = NoCall] /\ UNCHANGED <<listeners, made>>
    /\ UNCHANGED <<cleaned, cut>>

Candidates(c) ==
    IF given[c].last THEN {k \in DOMAIN listeners : listeners[k].mapped /\ \A j \in DOMAIN listeners : j <= k}
    ELSE {k \in DOMAIN listeners : listeners[k].mapped
             /\ \A j \in DOMAIN listeners :
                 listeners[j].mapped => listeners[k].active <= listeners[j].active}

Pick(c) ==
    /\ given[c].pc = "pick"
    /\ IF Candidates(c) # {}
       THEN \E k \in Candidates(c) :
               GetSocket(k) /\ given' = [given EXCEPT ![c].pc = "given", ![c].id = k]
       ELSE /\ given' = [given EXCEPT ![c] = IF given[c].force \/ (DOMAIN listeners = {} /\ given[c].last) THEN NoCall
                                           ELSE [NoCall EXCEPT !.pc = "create", !.force = TRUE]]
            /\ UNCHANGED listeners
    /\ UNCHANGED <<made, cleaned, cut>>

(* The client asks for packets from the listener, then connects or gives   *)
(* up.                                                                     *)
FindListener(c) ==
    /\ given[c].pc = "given" /\ Exists(given[c].id)
    /\ GetSocket(given[c].id) /\ given' = [given EXCEPT ![c].pc = "found", ![c].wait = 0]
    /\ UNCHANGED <<made, cleaned, cut>>

Connect(c) ==
    /\ given[c].pc \in {"given", "found"} /\ given' = [given EXCEPT ![c] = NoCall]
    /\ \/ /\ Exists(given[c].id) /\ listeners[given[c].id].conns = 0
          /\ listeners' = [listeners EXCEPT ![given[c].id].conns = 1]
       \/ UNCHANGED listeners
    /\ UNCHANGED <<made, cleaned, cut>>

ConnEnds == /\ \E k \in DOMAIN listeners : /\ listeners[k].conns > 0
                                           /\ listeners' = [listeners EXCEPT ![k].conns = @ - 1]
            /\ UNCHANGED <<made, given, cleaned, cut>>

(* PunchBothEasySymHoleServer: a listener without a public address joins   *)
(* the list once somebody is connected to it.                              *)
AddListener == /\ Push(UdpHolePunchListener(FALSE, 1))
               /\ UNCHANGED <<given, cleaned, cut>>

-----------------------------------------------------------------------------
(* The task of a listener                                                  *)
NoteActive(k) ==
    /\ ~listeners[k].noted
    /\ listeners' = [listeners EXCEPT ![k].noted = TRUE,
                                      ![k].active = IF listeners[k].conns > 0 THEN 0 ELSE @]
    /\ UNCHANGED <<made, given, cleaned, cut>>

(* Mutant: a listener that was given out is kept only while it is in use.  *)
KeepsActive(l) == l.active < ActiveKeep /\ l.selected < SelectKeep

Keeps(l) == l.active < ActiveKeep \/ l.selected < SelectKeep

DropUnused ==
    LET kept == {k \in DOMAIN listeners : Keeps(listeners[k])}
    IN  /\ ~cleaned /\ cleaned' = TRUE
        /\ listeners' = [k \in kept |-> listeners[k]]
        /\ cut' = cut \cup {k \in DOMAIN listeners \ kept : listeners[k].conns > 0}
        /\ UNCHANGED <<made, given>>

(* Each task has run once before the next period ends.                     *)
Waiting(c) == given[c].pc \in {"given", "found"}
Period ==
    /\ cleaned /\ \A k \in DOMAIN listeners : listeners[k].noted
    /\ \A c \in Requester : Waiting(c) => given[c].wait < ConnectWithin
    /\ cleaned' = FALSE
    /\ listeners' = [k \in DOMAIN listeners |-> Older(listeners[k])]
    /\ given' = [c \in Requester |-> IF Waiting(c) THEN [given[c] EXCEPT !.wait = @ + 1] ELSE given[c]]
    /\ UNCHANGED <<made, cut>>

ServerNext == \/ \E c \in Requester : \/ SelectListener(c) \/ CreateListener(c) \/ Pick(c)
                                   \/ FindListener(c) \/ Connect(c)
              \/ \E k \in DOMAIN listeners : NoteActive(k)
              \/ ConnEnds \/ AddListener \/ DropUnused \/ Period

ServerSpec == ServerInit /\ [][ServerNext]_keepVars

-----------------------------------------------------------------------------
(* No connection breaks because the cleanup drops its listener: one that   *)
(* was given out lives until the client has connected, and from then on    *)
(* its own task keeps it, although cleanup and task run at moments of      *)
(* their own and callers share listeners.                                  *)
NoneCut == cut = {}
=============================================================================
