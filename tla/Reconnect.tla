------------------------------ MODULE Reconnect ------------------------------
(***************************************************************************)
(* The event subscriber of ManualConnector on top of PeerMap: all the      *)
(* connector manager ever learns of its connections are the events of the  *)
(* bus and, after a lag, alive_conns, and it dials a url only while the    *)
(* url is not in alive_conn_urls.  ManualConnector shows that a dead url   *)
(* is dialled again if that list follows the connections; this module asks *)
(* whether it does.                                                        *)
(*                                                                         *)
(* Connections with UrlOf = NoUrl are accepted by a listener.              *)
(***************************************************************************)
EXTENDS PeerMap

CONSTANTS Url, NoUrl, BusCap,
          UrlOf      \* the url a connection is dialled for, or NoUrl

ASSUME ReconnectAssumption == UrlOf \in [ConnId -> Url \cup {NoUrl}]

VARIABLES alive_conn_urls, pos, rebuilding   \* as in ManualConnector

subscriber == <<alive_conn_urls, pos, rebuilding>>
allVars    == <<vars, subscriber>>

(* What handle_event makes of an event: it looks at client connections only. *)
Seen(e) == IF e.kind \in {"added", "removed"} /\ UrlOf[e.conn] # NoUrl
           THEN [kind |-> e.kind, url |-> UrlOf[e.conn]] ELSE [kind |-> "other"]

Bus == [i \in DOMAIN events |-> Seen(events[i])]

Live == [u \in Url |-> Cardinality({c \in alive_conns : UrlOf[c] = u})]

M == INSTANCE ManualConnector
       WITH events <- Bus, live <- Live, Caller <- {}, MaxCalls <- 0,
            MaxEvents <- 4 * Cardinality(ConnId), MaxConns <- Cardinality(ConnId),
            connectors <- {}, reconnecting <- {}, removed_conn_urls <- {}, pc <- {},
            later <- {}, dead <- {}, cur <- {}, want <- {}, listed <- {}, task <- {},
            leaving <- {}, panicked <- "no", called <- 0, added <- {}, asked <- {}, readded <- {}

SubscribedInit == Init /\ alive_conn_urls = {} /\ pos = 0 /\ rebuilding = FALSE

-----------------------------------------------------------------------------
(* collect_dead_conns picks a url that is not listed as alive, and its      *)
(* reconnect task adds a connection; the tick dials no url twice at a time. *)
Adding(u) == \E c \in ConnId : UrlOf[c] = u /\ stage[c] \notin {"idle", "done", "panicked"}

Dial(c) ==
  /\ UrlOf[c] \in Url \ alive_conn_urls
  /\ ~Adding(UrlOf[c])
  /\ Register(c)

AcceptOne(c) == UrlOf[c] = NoUrl /\ Register(c)

(* Everything PeerMap does after a connection is registered.                *)
Registered ==
  \/ \E c \in ConnId : AddStep(c) \/ ConnBreaks(c) \/ ForgetAlive(c) \/ NotifyClosed(c)
  \/ \E o, c \in ConnId : Listen(o, c)
  \/ CleanStep

Subscribed ==
  \/ (\E c \in ConnId : Dial(c) \/ AcceptOne(c)) /\ UNCHANGED subscriber
  \/ Registered /\ UNCHANGED subscriber
  \/ UNCHANGED vars /\ M!EventRoutine

SubscribedSpec == SubscribedInit /\ [][Subscribed]_allVars

-----------------------------------------------------------------------------
EventsAt(kind, c) == {i \in DOMAIN events : events[i] = [kind |-> kind, conn |-> c]}

(* A client connection whose end the manager is not told, or told too       *)
(* early: its Peer was dropped before its listener saw the close event, or  *)
(* the listener overtook the task that announces the connection.            *)
Untold(u) ==
  \E c \in closed : /\ UrlOf[c] = u
                    /\ \E i \in EventsAt("added", c) : \A j \in EventsAt("removed", c) : j < i

Connected(u) == \E c \in ConnId : UrlOf[c] = u /\ owner[c] # NoPeer /\ c \notin closed

(* Nothing is on its way: every event is handled, no connection is being    *)
(* added, and every closed one has been forgotten.                          *)
Settled ==
  /\ pos = Len(events) /\ ~rebuilding
  /\ \A c \in ConnId : stage[c] \in {"idle", "done", "panicked"}
  /\ closed \cap (alive_conns \cup waiting) = {}
  /\ \A o \in ConnId : conns[o] \cap closed = {}

(* Once everything is settled, the list of alive urls has no url without a  *)
(* connection, which would never be dialled again, unless the end of one of *)
(* its connections was not announced after its start.                       *)
AliveListCurrent == Settled => \A u \in alive_conn_urls : Connected(u) \/ Untold(u)
=============================================================================
