--------------------------- MODULE ManualConnector ---------------------------
(***************************************************************************)
(* The connector manager of src/app/src/connector/manual.rs: the urls the  *)
(* user configured, a tick that hands the dead ones to reconnect tasks,    *)
(* the subscriber that keeps alive_conn_urls up to date from the event     *)
(* bus, and the calls that list, add and remove connectors.                *)
(*                                                                         *)
(* The sets are concurrent DashSets without a common lock, so every        *)
(* access of one of them by the tick, a caller or a task is a step of its  *)
(* own.  The connections themselves belong to the peer map; the actions    *)
(* ConnUp and ConnDown stand for a peer map that announces each of them    *)
(* exactly once and in order.                                              *)
(***************************************************************************)
EXTENDS Naturals, Sequences, FiniteSets

CONSTANTS Url,         \* connector urls
          Caller,      \* concurrent users of the rpc service
          NoUrl,       \* no url
          BusCap,      \* capacity of the event bus (8 in the code)
          MaxCalls,    \* bound: calls of add, list and remove
          MaxEvents,   \* bound: events on the bus
          MaxConns     \* bound: connections of one url

ASSUME ManualAssumption == /\ NoUrl \notin Url
                           /\ "tick" \notin Caller
                           /\ BusCap \in Nat /\ MaxCalls \in Nat
                           /\ MaxEvents \in Nat /\ MaxConns \in Nat

VARIABLES
  connectors, reconnecting, alive_conn_urls, removed_conn_urls,
  pc,        \* where the tick and each caller is
  later,     \* remove_later of the running handle_remove_connector
  dead,      \* dead_urls still to be handled by the tick
  cur,       \* the url the tick is moving to reconnecting
  want,      \* the url a caller wants to remove, NoUrl for a plain listing
  listed,    \* what list_connectors has found so far
  task,      \* the reconnect task of each url in reconnecting
  leaving,   \* how many tasks have left reconnecting and still hold their url
  panicked,  \* what ended the reconnect routine
  events,    \* everything published on the event bus
  pos,       \* how many of them the subscriber has seen
  rebuilding,\* the subscriber has cleared alive_conn_urls after a lag
  live,      \* the open connections of each url (alive_conns of the peer map)
  called,     \* calls made so far
  added,     \* urls ever added
  asked,     \* urls whose removal was ever accepted
  readded    \* urls added again after a first time

sets        == <<connectors, reconnecting, alive_conn_urls, removed_conn_urls>>
handlerVars == <<pc, later, dead, cur, want, listed>>
busVars     == <<events, pos, rebuilding, live>>
ghosts      == <<called, added, asked, readded>>
tasks       == <<task, leaving>>
vars        == <<sets, handlerVars, tasks, panicked, busVars, ghosts>>

Handler == {"tick"} \cup Caller

Event == [kind : {"added", "removed"}, url : Url] \cup [kind : {"other"}]

TypeOK ==
  /\ connectors \subseteq Url /\ reconnecting \subseteq Url
  /\ alive_conn_urls \subseteq Url /\ removed_conn_urls \subseteq Url
  /\ pc \in [Handler -> {"idle", "iterate", "clear", "restore", "collect",
                         "loop", "insert", "answer"}]
  /\ later \in [Handler -> SUBSET Url]
  /\ dead \subseteq Url
  /\ cur \in Url \cup {NoUrl}
  /\ want \in [Caller -> Url \cup {NoUrl}]
  /\ listed \in [Caller -> SUBSET Url]
  /\ task \in [Url -> {"none", "trying", "done", "aborted"}]
  /\ leaving \in [Url -> Nat]
  /\ panicked \in {"no", "unwrap", "assert"}
  /\ events \in Seq(Event)
  /\ pos \in 0 .. Len(events)
  /\ rebuilding \in BOOLEAN
  /\ live \in [Url -> 0 .. MaxConns]
  /\ called \in 0 .. MaxCalls
  /\ added \subseteq Url /\ asked \subseteq Url /\ readded \subseteq Url

Init ==
  /\ connectors = {} /\ reconnecting = {}
  /\ alive_conn_urls = {} /\ removed_conn_urls = {}
  /\ pc = [h \in Handler |-> "idle"]
  /\ later = [h \in Handler |-> {}]
  /\ dead = {} /\ cur = NoUrl
  /\ want = [c \in Caller |-> NoUrl]
  /\ listed = [c \in Caller |-> {}]
  /\ task = [u \in Url |-> "none"] /\ leaving = [u \in Url |-> 0]
  /\ panicked = "no"
  /\ events = <<>> /\ pos = 0 /\ rebuilding = FALSE
  /\ live = [u \in Url |-> 0]
  /\ called = 0 /\ added = {} /\ asked = {}
  /\ readded = {}

-----------------------------------------------------------------------------
(* handle_remove_connector, run by the tick and by every listing.           *)

(* The pass over removed_conn_urls: a url found in connectors is removed,   *)
(* one that is reconnecting is put aside for later.                         *)
RemoveLater == (removed_conn_urls \ connectors) \cap reconnecting

HandleRemoveIterate(h) ==
  /\ pc[h] = "iterate"
  /\ connectors' = connectors \ removed_conn_urls
  /\ later' = [later EXCEPT ![h] = RemoveLater]
  /\ pc' = [pc EXCEPT ![h] = "clear"]
  /\ UNCHANGED <<reconnecting, alive_conn_urls, removed_conn_urls, dead, cur, want,
                 listed, tasks, panicked, busVars, called, added, asked, readded>>

HandleRemoveClear(h) ==
  /\ pc[h] = "clear"
  /\ removed_conn_urls' = {}
  /\ pc' = [pc EXCEPT ![h] = "restore"]
  /\ UNCHANGED <<connectors, reconnecting, alive_conn_urls, later, dead, cur, want,
                 listed, tasks, panicked, busVars, ghosts>>

HandleRemoveRestore(h) ==
  /\ pc[h] = "restore"
  /\ removed_conn_urls' = removed_conn_urls \cup later[h]
  /\ later' = [later EXCEPT ![h] = {}]
  /\ pc' = [pc EXCEPT ![h] = IF h = "tick" THEN "collect" ELSE "answer"]
  /\ UNCHANGED <<connectors, reconnecting, alive_conn_urls, dead, cur, want,
                 listed, tasks, panicked, busVars, ghosts>>

HandleRemoveConnector(h) ==
  \/ HandleRemoveIterate(h)
  \/ HandleRemoveClear(h)
  \/ HandleRemoveRestore(h)

-----------------------------------------------------------------------------
(* The tick of conn_mgr_reconn_routine.                                     *)

Tick ==
  /\ panicked = "no"
  /\ pc["tick"] = "idle"
  /\ pc' = [pc EXCEPT !["tick"] = "iterate"]
  /\ UNCHANGED <<sets, later, dead, cur, want, listed, tasks, panicked, busVars, ghosts>>

CollectDeadConns ==
  /\ pc["tick"] = "collect"
  /\ dead' = connectors \ alive_conn_urls
  /\ pc' = [pc EXCEPT !["tick"] = IF dead' = {} THEN "idle" ELSE "loop"]
  /\ UNCHANGED <<sets, later, cur, want, listed, tasks, panicked, busVars, ghosts>>

(* A panic ends the routine and drops its JoinSet, which aborts the tasks   *)
(* that are waiting for a connection.                                       *)
Panic(why) ==
  /\ panicked' = why
  /\ task' = [u \in Url |-> IF task[u] = "trying" THEN "aborted" ELSE task[u]]
  /\ pc' = [pc EXCEPT !["tick"] = "idle"]
  /\ dead' = {}
  /\ cur' = NoUrl

(* `data.connectors.remove(&dead_url).unwrap()`.                            *)
TakeDead(u) ==
  /\ pc["tick"] = "loop"
  /\ u \in dead
  /\ connectors' = connectors \ {u}
  /\ \/ /\ u \in connectors
        /\ dead' = dead \ {u}
        /\ cur' = u
        /\ pc' = [pc EXCEPT !["tick"] = "insert"]
        /\ UNCHANGED <<task, panicked>>
     \/ /\ u \notin connectors
        /\ Panic("unwrap")
  /\ UNCHANGED <<reconnecting, alive_conn_urls, removed_conn_urls, later, want,
                 listed, leaving, busVars, ghosts>>

(* `reconnecting.insert(..)`, `assert!(insert_succ)` and the spawn.         *)
StartReconnect ==
  /\ pc["tick"] = "insert"
  /\ reconnecting' = reconnecting \cup {cur}
  /\ \/ /\ cur \notin reconnecting
        /\ task' = [task EXCEPT ![cur] = "trying"]
        /\ pc' = [pc EXCEPT !["tick"] = IF dead = {} THEN "idle" ELSE "loop"]
        /\ cur' = NoUrl
        /\ UNCHANGED <<dead, panicked>>
     \/ /\ cur \in reconnecting
        /\ Panic("assert")
  /\ UNCHANGED <<connectors, alive_conn_urls, removed_conn_urls, later, want,
                 listed, leaving, busVars, ghosts>>

-----------------------------------------------------------------------------
(* A reconnect task.                                                        *)

(* An event the connector manager ignores takes a place on the bus; once    *)
(* the bound is reached it is left out.                                     *)
OtherEvent == IF Len(events) < MaxEvents THEN Append(events, [kind |-> "other"]) ELSE events

(* conn_reconnect: one address family fails or times out, and either the    *)
(* other one is tried next or the task is done.                             *)
AttemptFails(u) ==
  /\ task[u] = "trying"
  /\ task' \in {task, [task EXCEPT ![u] = "done"]}
  /\ events' = OtherEvent
  /\ UNCHANGED <<sets, handlerVars, leaving, panicked, pos, rebuilding, live, ghosts>>

(* conn_reconnect succeeds: the peer map holds and announces a connection.  *)
ConnUp(u) ==
  /\ task[u] = "trying"
  /\ live[u] < MaxConns
  /\ Len(events) < MaxEvents
  /\ live' = [live EXCEPT ![u] = @ + 1]
  /\ events' = Append(events, [kind |-> "added", url |-> u])
  /\ task' = [task EXCEPT ![u] = "done"]
  /\ UNCHANGED <<sets, handlerVars, leaving, panicked, pos, rebuilding, ghosts>>

(* `reconnecting.remove(&dead_url).unwrap()`, after the result is sent.     *)
LeaveReconnecting(u) ==
  /\ task[u] = "done"
  /\ u \in reconnecting
  /\ reconnecting' = reconnecting \ {u}
  /\ task' = [task EXCEPT ![u] = "none"]
  /\ leaving' = [leaving EXCEPT ![u] = @ + 1]
  /\ UNCHANGED <<connectors, alive_conn_urls, removed_conn_urls, handlerVars, panicked,
                 busVars, ghosts>>

(* Mutant: only a url that is still dead is put back.                       *)
ReturnIfDead(u) ==
  /\ leaving[u] > 0
  /\ connectors' = IF u \in alive_conn_urls THEN connectors ELSE connectors \cup {u}
  /\ leaving' = [leaving EXCEPT ![u] = @ - 1]
  /\ UNCHANGED <<task, reconnecting, alive_conn_urls, removed_conn_urls, handlerVars, panicked,
                 busVars, ghosts>>

(* `connectors.insert(dead_url)`.                                           *)
ReturnConnector(u) ==
  /\ leaving[u] > 0
  /\ connectors' = connectors \cup {u}
  /\ leaving' = [leaving EXCEPT ![u] = @ - 1]
  /\ UNCHANGED <<task, reconnecting, alive_conn_urls, removed_conn_urls, handlerVars, panicked,
                 busVars, ghosts>>

ReconnectTask(u) == AttemptFails(u) \/ ConnUp(u) \/ LeaveReconnecting(u) \/ ReturnConnector(u)

-----------------------------------------------------------------------------
(* The event subscriber, conn_mgr_handle_event_routine.                     *)

(* A connection closes and the peer map announces it.                       *)
ConnDown(u) ==
  /\ live[u] > 0
  /\ Len(events) < MaxEvents
  /\ live' = [live EXCEPT ![u] = @ - 1]
  /\ events' = Append(events, [kind |-> "removed", url |-> u])
  /\ UNCHANGED <<sets, handlerVars, tasks, panicked, pos, rebuilding, ghosts>>

Lag == Len(events) - pos > BusCap

(* Mutant: a removed connection leaves its url alive.                       *)
HandledAdded(e) ==
  IF e.kind = "added" THEN alive_conn_urls \cup {e.url} ELSE alive_conn_urls

HandledEvent(e) ==
  CASE e.kind = "added"   -> alive_conn_urls \cup {e.url}
    [] e.kind = "removed" -> alive_conn_urls \ {e.url}
    [] OTHER              -> alive_conn_urls

HandleEvent ==
  /\ ~rebuilding /\ ~Lag
  /\ pos < Len(events)
  /\ alive_conn_urls' = HandledEvent(events[pos + 1])
  /\ pos' = pos + 1
  /\ UNCHANGED <<connectors, reconnecting, removed_conn_urls, handlerVars, tasks, panicked,
                 events, rebuilding, live, ghosts>>

(* RecvError::Lagged: resubscribe at the end of the bus and clear the set.  *)
HandleLagged ==
  /\ ~rebuilding /\ Lag
  /\ pos' = Len(events)
  /\ alive_conn_urls' = {}
  /\ rebuilding' = TRUE
  /\ UNCHANGED <<connectors, reconnecting, removed_conn_urls, handlerVars, tasks, panicked,
                 events, live, ghosts>>

(* The set is filled again from the peer map's alive connections.           *)
RebuildAlive ==
  /\ rebuilding
  /\ alive_conn_urls' = alive_conn_urls \cup {u \in Url : live[u] > 0}
  /\ rebuilding' = FALSE
  /\ UNCHANGED <<connectors, reconnecting, removed_conn_urls, handlerVars, tasks, panicked,
                 events, pos, live, ghosts>>

EventRoutine == HandleEvent \/ HandleLagged \/ RebuildAlive

-----------------------------------------------------------------------------
(* The calls of the rpc service.                                            *)

AddConnectorByUrl(u) ==
  /\ called < MaxCalls
  /\ called' = called + 1
  /\ connectors' = connectors \cup {u}
  /\ added' = added \cup {u}
  /\ readded' = readded \cup (added \cap {u})
  /\ UNCHANGED <<reconnecting, alive_conn_urls, removed_conn_urls, handlerVars, tasks,
                 panicked, busVars, asked>>

(* list_connectors, by itself (u = NoUrl) or for remove_connector(u): the   *)
(* configured urls are read before the removals are handled.                *)
ListConnectors(c, u) ==
  /\ pc[c] = "idle"
  /\ called < MaxCalls
  /\ called' = called + 1
  /\ listed' = [listed EXCEPT ![c] = connectors]
  /\ want' = [want EXCEPT ![c] = u]
  /\ pc' = [pc EXCEPT ![c] = "iterate"]
  /\ UNCHANGED <<sets, later, dead, cur, tasks, panicked, busVars, added, asked, readded>>

(* The urls being reconnected are read last; remove_connector then queues   *)
(* its url if it is among those listed, and answers NotFound otherwise.     *)
Accepted(c) == {want[c]} \cap (listed[c] \cup reconnecting)

Answer(c) ==
  /\ pc[c] = "answer"
  /\ removed_conn_urls' = removed_conn_urls \cup Accepted(c)
  /\ asked' = asked \cup Accepted(c)
  /\ pc' = [pc EXCEPT ![c] = "idle"]
  /\ listed' = [listed EXCEPT ![c] = {}]
  /\ want' = [want EXCEPT ![c] = NoUrl]
  /\ UNCHANGED <<connectors, reconnecting, alive_conn_urls, later, dead, cur, tasks,
                 panicked, busVars, called, added, readded>>

-----------------------------------------------------------------------------
TickStep ==
  \/ Tick
  \/ HandleRemoveConnector("tick")
  \/ CollectDeadConns
  \/ \E u \in Url : TakeDead(u)
  \/ StartReconnect

CallStep(c) == HandleRemoveConnector(c) \/ Answer(c)

Next ==
  \/ TickStep
  \/ EventRoutine
  \/ \E u \in Url : ReconnectTask(u) \/ ConnDown(u) \/ AddConnectorByUrl(u)
  \/ \E c \in Caller : CallStep(c) \/ \E u \in Url \cup {NoUrl} : ListConnectors(c, u)

(* The runtime polls every task that is ready, the interval fires again and *)
(* again, and each connection attempt is under a timeout.                   *)
Fairness ==
  /\ WF_vars(TickStep)
  /\ WF_vars(EventRoutine)
  /\ \A u \in Url : WF_vars(ReconnectTask(u))
  /\ \A c \in Caller : WF_vars(CallStep(c))

Spec == Init /\ [][Next]_vars

FairSpec == Spec /\ Fairness

-----------------------------------------------------------------------------
(* A configured url whose removal nobody asked for is never lost, whatever  *)
(* the tick, the reconnect tasks and the listings do: it is configured,     *)
(* being reconnected, or on its way from one set to the other.              *)
InTransit == {cur} \cup {u \in Url : leaving[u] > 0}

NoUrlLost == added \ asked \subseteq connectors \cup reconnecting \cup InTransit

(* reconnecting is exactly the set of urls some reconnect task answers for, *)
(* so `reconnecting.remove(&dead_url).unwrap()` finds its url.              *)
ReconnectingOwned == reconnecting = {u \in Url : task[u] \in {"trying", "done", "aborted"}}

(* The routine that reconnects can only be ended by a user: its assertion   *)
(* fails only if some url was added a second time, and its unwrap only if   *)
(* some removal was accepted.                                               *)
OnlyUserKills ==
  /\ panicked = "assert" => readded # {}
  /\ panicked = "unwrap" => asked # {}

(* No url is lost on its way between the sets, whatever interleaves, and    *)
(* the routine finds what it takes out and puts in, until a user interferes.*)
UrlsKept == NoUrlLost /\ ReconnectingOwned /\ OnlyUserKills

(* `assert!(insert_succ)` of the tick holds: a dead connector is never in   *)
(* reconnecting already.                                                    *)
AssertHolds == panicked # "assert"

(* A configured url without a connection is eventually reconnected, unless  *)
(* it gets a connection, is removed, or the routine has ended.              *)
Retried ==
  \A u \in Url : u \in connectors /\ live[u] = 0
                 ~> \/ u \in reconnecting \/ live[u] > 0
                    \/ u \notin connectors \/ panicked # "no"
=============================================================================
