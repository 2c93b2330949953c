---------------------------- MODULE Node_proofs -----------------------------
(***************************************************************************)
(* Two parts of a node: the manager of its configured connectors           *)
(* (ManualConnector) and its network device (InstanceNic).                 *)
(*                                                                         *)
(* No url of the connector manager is lost and its unwraps and assertion   *)
(* hold until a user interferes, for any urls, callers and bounds.         *)
(* UrlsKept alone is not inductive.  That a removal takes only urls that   *)
(* were asked for needs the same of every list a removal passes through;   *)
(* that the tick does not forget the url it is moving needs to know when   *)
(* there is one; that the assertion holds needs each url, while no url was *)
(* added twice, in one place at a time; and that the unwrap holds needs    *)
(* the collected dead urls to stay configured while none is removed.       *)
(*                                                                         *)
(* The address the device settles on is free and in use, for any routes    *)
(* and any size of a network.                                              *)
(***************************************************************************)
EXTENDS ManualConnector, InstanceNic, TLAPS, WellFoundedInduction

RemovalsAsked == /\ removed_conn_urls \subseteq asked
                 /\ \A h \in Handler : later[h] \subseteq asked

CurMoving == cur # NoUrl <=> pc["tick"] = "insert"

Known == connectors \cup reconnecting \cup (InTransit \ {NoUrl}) \subseteq added

OneHolder ==
    readded = {} =>
      \A u \in Url : /\ u \in connectors => u \notin reconnecting
                     /\ u \in connectors \cup reconnecting => leaving[u] = 0 /\ cur # u
                     /\ leaving[u] > 0 => leaving[u] = 1 /\ cur # u

DeadConfigured == asked = {} => dead \subseteq connectors

IInv == /\ TypeOK
        /\ RemovalsAsked /\ CurMoving /\ Known /\ OneHolder /\ DeadConfigured
        /\ NoUrlLost /\ ReconnectingOwned /\ OnlyUserKills

-----------------------------------------------------------------------------
LEMMA InitInv == Init => IInv
<1> SUFFICES ASSUME Init PROVE IInv
  OBVIOUS
<1> USE ManualAssumption DEF Init
<1>1. events \in Seq(Event) /\ pos \in 0 .. Len(events)
  OBVIOUS
<1>2. /\ pc \in [Handler -> {"idle", "iterate", "clear", "restore", "collect", "loop",
                               "insert", "answer"}]
      /\ later \in [Handler -> SUBSET Url] /\ listed \in [Caller -> SUBSET Url]
      /\ want \in [Caller -> Url \cup {NoUrl}]
  OBVIOUS
<1>3. /\ task \in [Url -> {"none", "trying", "done", "aborted"}] /\ leaving \in [Url -> Nat]
      /\ live \in [Url -> 0 .. MaxConns] /\ called \in 0 .. MaxCalls
  OBVIOUS
<1>4. TypeOK
  BY Zenon, <1>1, <1>2, <1>3 DEF TypeOK
<1>5. RemovalsAsked /\ CurMoving
  BY Zenon DEF RemovalsAsked, CurMoving, Handler
<1>6. Known /\ OneHolder /\ DeadConfigured
  BY DEF Known, InTransit, OneHolder, DeadConfigured
<1>7. NoUrlLost /\ ReconnectingOwned /\ OnlyUserKills
  BY Zenon DEF NoUrlLost, InTransit, ReconnectingOwned, OnlyUserKills
<1> QED BY Zenon, <1>4, <1>5, <1>7, <1>6 DEF IInv

(* An event on the bus keeps it typed, and the subscriber's place in it.   *)
LEMMA BusGrows ==
    ASSUME NEW es \in Seq(Event), NEW e \in Event, NEW p \in 0 .. Len(es)
    PROVE  Append(es, e) \in Seq(Event) /\ p \in 0 .. Len(Append(es, e))
OBVIOUS

LEMMA OtherEventType ==
    ASSUME TypeOK
    PROVE  OtherEvent \in Seq(Event) /\ pos \in 0 .. Len(OtherEvent)
<1>1. [kind |-> "other"] \in Event
  BY Zenon DEF Event
<1> QED BY Zenon, <1>1, BusGrows DEF OtherEvent, TypeOK

-----------------------------------------------------------------------------
LEMMA TypeStep == IInv /\ [Next]_vars => TypeOK'
<1> SUFFICES ASSUME TypeOK, CurMoving, [Next]_vars PROVE TypeOK'
  BY Zenon DEF IInv
<1> USE ManualAssumption
<1>1. ASSUME NEW h \in Handler, HandleRemoveConnector(h) PROVE TypeOK'
  <2>1. CASE HandleRemoveIterate(h)
    BY Zenon, <2>1 DEF HandleRemoveIterate, RemoveLater, TypeOK, tasks, busVars
  <2>2. CASE HandleRemoveClear(h)
    BY Zenon, <2>2 DEF HandleRemoveClear, TypeOK, tasks, busVars, ghosts
  <2>3. CASE HandleRemoveRestore(h)
    BY Zenon, <2>3 DEF HandleRemoveRestore, TypeOK, tasks, busVars, ghosts
  <2> QED BY Zenon, <1>1, <2>1, <2>2, <2>3 DEF HandleRemoveConnector
<1>2. CASE Tick
  BY Zenon, <1>2 DEF Tick, TypeOK, sets, tasks, busVars, ghosts, Handler
<1>3. CASE CollectDeadConns
  BY Zenon, <1>3 DEF CollectDeadConns, TypeOK, sets, tasks, busVars, ghosts, Handler
<1>4. ASSUME NEW u \in Url, TakeDead(u) PROVE TypeOK'
  BY ZenonT(60), <1>4 DEF TakeDead, Panic, TypeOK, tasks, busVars, ghosts, Handler
<1>5. CASE StartReconnect
  <2>1. cur \in Url
    BY Zenon, <1>5 DEF StartReconnect, CurMoving, TypeOK
  <2> QED BY ZenonT(60), <1>5, <2>1 DEF StartReconnect, Panic, TypeOK, tasks, busVars, ghosts, Handler
<1>6. ASSUME NEW u \in Url, ReconnectTask(u) PROVE TypeOK'
  <2>1. CASE AttemptFails(u)
    BY SMTT(60), <2>1, OtherEventType DEF AttemptFails, TypeOK, sets, handlerVars, ghosts
  <2>2. CASE ConnUp(u)
    <3>1. [kind |-> "added", url |-> u] \in Event
      BY Zenon DEF Event
    <3>2. events' \in Seq(Event) /\ pos \in 0 .. Len(events')
      BY Zenon, <2>2, <3>1, BusGrows DEF ConnUp, TypeOK
    <3> QED BY SMTT(60), <2>2, <3>2 DEF ConnUp, TypeOK, sets, handlerVars, ghosts
  <2>3. CASE LeaveReconnecting(u)
    BY <2>3 DEF LeaveReconnecting, TypeOK, handlerVars, tasks, busVars, ghosts
  <2>4. CASE ReturnConnector(u)
    BY <2>4 DEF ReturnConnector, TypeOK, handlerVars, tasks, busVars, ghosts
  <2> QED BY Zenon, <1>6, <2>1, <2>2, <2>3, <2>4 DEF ReconnectTask
<1>7. ASSUME NEW u \in Url, ConnDown(u) PROVE TypeOK'
  <2>1. [kind |-> "removed", url |-> u] \in Event
    BY Zenon DEF Event
  <2>2. events' \in Seq(Event) /\ pos \in 0 .. Len(events')
    BY Zenon, <1>7, <2>1, BusGrows DEF ConnDown, TypeOK
  <2> QED BY SMTT(60), <1>7, <2>2 DEF ConnDown, TypeOK, sets, handlerVars, tasks, ghosts
<1>8. CASE EventRoutine
  <2>1. CASE HandleEvent
    <3>1. events[pos + 1] \in Event
      BY <2>1 DEF HandleEvent, TypeOK
    <3>2. alive_conn_urls' \subseteq Url
      BY Zenon, <2>1, <3>1 DEF HandleEvent, HandledEvent, Event, TypeOK
    <3> QED BY <2>1, <3>2 DEF HandleEvent, TypeOK, handlerVars, tasks, ghosts
  <2>2. CASE HandleLagged
    BY <2>2 DEF HandleLagged, TypeOK, handlerVars, tasks, ghosts
  <2>3. CASE RebuildAlive
    BY Zenon, <2>3 DEF RebuildAlive, TypeOK, handlerVars, tasks, ghosts
  <2> QED BY Zenon, <1>8, <2>1, <2>2, <2>3 DEF EventRoutine
<1>9. ASSUME NEW u \in Url, AddConnectorByUrl(u) PROVE TypeOK'
  BY <1>9 DEF AddConnectorByUrl, TypeOK, handlerVars, tasks, busVars
<1>10. ASSUME NEW c \in Caller, NEW u \in Url \cup {NoUrl}, ListConnectors(c, u) PROVE TypeOK'
  BY <1>10 DEF ListConnectors, TypeOK, sets, tasks, busVars, Handler
<1>11. ASSUME NEW c \in Caller, Answer(c) PROVE TypeOK'
  BY Zenon, <1>11 DEF Answer, Accepted, TypeOK, tasks, busVars, Handler
<1>12. CASE UNCHANGED vars
  BY Zenon, <1>12 DEF TypeOK, vars, sets, handlerVars, tasks, busVars, ghosts
<1> QED BY Zenon, <1>1, <1>2, <1>3, <1>4, <1>5, <1>6, <1>7, <1>8, <1>9, <1>10, <1>11, <1>12
        DEF Next, TickStep, CallStep, Handler

-----------------------------------------------------------------------------
(* Steps that leave the sets of the manager and its tick alone.            *)
LEMMA AsideStep ==
    ASSUME IInv, TypeOK', UNCHANGED <<connectors, reconnecting, removed_conn_urls, later>>,
           UNCHANGED <<dead, cur, leaving, panicked, added, asked, readded>>,
           pc'["tick"] = "insert" <=> pc["tick"] = "insert",
           \A u \in Url : task'[u] = task[u] \/ {task[u], task'[u]} \subseteq {"trying", "done", "aborted"}
    PROVE  IInv'
<1>1. RemovalsAsked' /\ CurMoving' /\ Known' /\ DeadConfigured' /\ OneHolder'
  BY Zenon DEF IInv, RemovalsAsked, CurMoving, Known, InTransit, DeadConfigured, OneHolder
<1>2. NoUrlLost' /\ OnlyUserKills'
  BY Zenon DEF IInv, NoUrlLost, InTransit, OnlyUserKills
<1>3. ReconnectingOwned'
  BY Zenon DEF IInv, ReconnectingOwned
<1> QED BY Zenon, <1>1, <1>2, <1>3 DEF IInv

LEMMA RemoveStep ==
    ASSUME IInv, TypeOK', NEW h \in Handler, HandleRemoveConnector(h)
    PROVE  IInv'
<1> USE DEF IInv
<1>1. /\ UNCHANGED <<reconnecting, dead, cur, tasks, panicked, added, asked, readded>>
      /\ connectors' \subseteq connectors /\ connectors \ connectors' \subseteq removed_conn_urls
  BY Zenon DEF HandleRemoveConnector, HandleRemoveIterate, HandleRemoveClear, HandleRemoveRestore, ghosts
<1>2. RemovalsAsked'
  <2>1. CASE HandleRemoveIterate(h)
    BY Zenon, <1>1, <2>1 DEF HandleRemoveIterate, RemoveLater, RemovalsAsked, TypeOK
  <2>2. CASE HandleRemoveClear(h)
    BY Zenon, <1>1, <2>2 DEF HandleRemoveClear, RemovalsAsked
  <2>3. CASE HandleRemoveRestore(h)
    BY Zenon, <1>1, <2>3 DEF HandleRemoveRestore, RemovalsAsked, TypeOK
  <2> QED BY Zenon, <2>1, <2>2, <2>3 DEF HandleRemoveConnector
<1>3. pc'["tick"] = "insert" <=> pc["tick"] = "insert"
  BY Zenon DEF HandleRemoveConnector, HandleRemoveIterate, HandleRemoveClear, HandleRemoveRestore,
         TypeOK, Handler
<1>4. CurMoving' /\ Known' /\ OneHolder'
  BY Zenon, <1>1, <1>3 DEF CurMoving, Known, InTransit, OneHolder, tasks
<1>5. DeadConfigured' /\ NoUrlLost'
  BY Zenon, <1>1 DEF DeadConfigured, NoUrlLost, InTransit, RemovalsAsked, tasks
<1>6. ReconnectingOwned' /\ OnlyUserKills'
  BY Zenon, <1>1 DEF ReconnectingOwned, OnlyUserKills, tasks
<1> QED BY Zenon, <1>2, <1>4, <1>5, <1>6

LEMMA CollectStep ==
    ASSUME IInv, TypeOK', CollectDeadConns
    PROVE  IInv'
<1> USE DEF IInv, CollectDeadConns
<1>1. /\ UNCHANGED <<sets, later, cur, tasks, panicked, added, asked, readded>>
      /\ dead' \subseteq connectors /\ pc["tick"] # "insert" /\ pc'["tick"] # "insert"
  BY Zenon DEF TypeOK, Handler, ghosts
<1>2. RemovalsAsked' /\ CurMoving' /\ Known' /\ OneHolder' /\ DeadConfigured'
  BY Zenon, <1>1 DEF RemovalsAsked, CurMoving, Known, InTransit, OneHolder, DeadConfigured, sets, tasks
<1>3. NoUrlLost' /\ ReconnectingOwned' /\ OnlyUserKills'
  BY Zenon, <1>1 DEF NoUrlLost, InTransit, ReconnectingOwned, OnlyUserKills, sets, tasks
<1> QED BY Zenon, <1>2, <1>3

(* The panic of the routine, in the state of its tasks.                    *)
LEMMA PanicOwned ==
    ASSUME TypeOK, ReconnectingOwned, NEW why, Panic(why), reconnecting' = reconnecting
    PROVE  ReconnectingOwned'
BY Zenon DEF TypeOK, ReconnectingOwned, Panic

LEMMA TakeDeadStep ==
    ASSUME IInv, TypeOK', NEW u \in Url, TakeDead(u)
    PROVE  IInv'
<1> USE ManualAssumption DEF IInv
<1>1. /\ UNCHANGED <<reconnecting, removed_conn_urls, later, leaving, added, asked, readded>>
      /\ connectors' = connectors \ {u} /\ cur = NoUrl /\ pc["tick"] = "loop" /\ u \in dead
  BY Zenon DEF TakeDead, ghosts, CurMoving
<1>2. RemovalsAsked'
  BY Zenon, <1>1 DEF RemovalsAsked
<1>3. CASE u \in connectors
  <2>1. /\ dead' = dead \ {u} /\ cur' = u /\ pc' = [pc EXCEPT !["tick"] = "insert"]
        /\ UNCHANGED <<task, panicked>>
    BY Zenon, <1>3 DEF TakeDead
  <2>2. CurMoving'
    BY Zenon, <2>1 DEF CurMoving, TypeOK, Handler
  <2>3. InTransit' = {u} \cup {v \in Url : leaving[v] > 0}
    BY Zenon, <1>1, <2>1 DEF InTransit
  <2>4. {v \in Url : leaving[v] > 0} \subseteq InTransit
        /\ InTransit \subseteq {NoUrl} \cup {v \in Url : leaving[v] > 0}
    BY Zenon, <1>1 DEF InTransit
  <2>5. Known'
    BY Zenon, <1>1, <1>3, <2>3, <2>4 DEF Known
  <2>6. NoUrlLost'
    BY <1>1, <1>3, <2>3, <2>4 DEF NoUrlLost, TypeOK
  <2>7. DeadConfigured'
    BY Zenon, <1>1, <2>1 DEF DeadConfigured
  <2>8. OneHolder'
    BY <1>1, <1>3, <2>1 DEF OneHolder, TypeOK
  <2>9. ReconnectingOwned' /\ OnlyUserKills'
    BY Zenon, <1>1, <2>1 DEF ReconnectingOwned, OnlyUserKills
  <2> QED BY Zenon, <1>2, <2>2, <2>6, <2>8, <2>9, <2>7, <2>5
<1>4. CASE u \notin connectors
  <2>1. Panic("unwrap") /\ connectors' = connectors
    BY Zenon, <1>1, <1>4 DEF TakeDead
  <2>2. panicked' = "unwrap" /\ dead' = {} /\ cur' = NoUrl /\ pc' = [pc EXCEPT !["tick"] = "idle"]
    BY Zenon, <2>1 DEF Panic
  <2>3. CurMoving'
    BY Zenon, <2>2 DEF CurMoving, TypeOK, Handler
  <2>4. Known' /\ DeadConfigured' /\ NoUrlLost' /\ OneHolder'
    BY Zenon, <1>1, <2>1, <2>2 DEF Known, InTransit, DeadConfigured, NoUrlLost, OneHolder
  <2>5. ReconnectingOwned'
    BY Zenon, <1>1, <2>1, PanicOwned
  <2>6. OnlyUserKills'
    BY Zenon, <1>1, <1>4, <2>2 DEF OnlyUserKills, DeadConfigured
  <2> QED BY Zenon, <1>2, <2>3, <2>4, <2>5, <2>6
<1> QED BY Zenon, <1>3, <1>4

LEMMA StartStep ==
    ASSUME IInv, TypeOK', StartReconnect
    PROVE  IInv'
<1> USE ManualAssumption DEF IInv
<1>1. /\ UNCHANGED <<connectors, removed_conn_urls, later, leaving, added, asked, readded>>
      /\ reconnecting' = reconnecting \cup {cur} /\ cur' = NoUrl /\ cur \in Url
      /\ pc'["tick"] # "insert" /\ dead' \subseteq dead
  BY Zenon DEF StartReconnect, Panic, ghosts, CurMoving, TypeOK, Handler
<1>2. RemovalsAsked' /\ CurMoving' /\ Known' /\ DeadConfigured' /\ NoUrlLost'
  BY Zenon, <1>1 DEF RemovalsAsked, CurMoving, Known, InTransit, DeadConfigured, NoUrlLost
<1>3. OneHolder'
  BY <1>1 DEF OneHolder, TypeOK
<1>4. CASE cur \notin reconnecting
  <2>1. task' = [task EXCEPT ![cur] = "trying"] /\ UNCHANGED panicked
    BY Zenon, <1>4 DEF StartReconnect
  <2>2. ReconnectingOwned'
    BY <1>1, <2>1 DEF ReconnectingOwned, TypeOK
  <2> QED BY Zenon, <1>1, <1>2, <1>3, <2>1, <2>2 DEF OnlyUserKills
<1>5. CASE cur \in reconnecting
  <2>1. Panic("assert") /\ reconnecting' = reconnecting
    BY Zenon, <1>1, <1>5 DEF StartReconnect
  <2>2. ReconnectingOwned'
    BY Zenon, <2>1, PanicOwned
  <2>3. panicked' = "assert" /\ readded # {}
    BY Zenon, <1>1, <1>5, <2>1 DEF Panic, OneHolder
  <2> QED BY Zenon, <1>1, <1>2, <1>3, <2>2, <2>3 DEF OnlyUserKills
<1> QED BY Zenon, <1>4, <1>5

LEMMA LeaveStep ==
    ASSUME IInv, TypeOK', NEW u \in Url, LeaveReconnecting(u)
    PROVE  IInv'
<1> USE ManualAssumption DEF IInv
<1>1. /\ UNCHANGED <<connectors, removed_conn_urls, later, dead, cur, pc>>
      /\ UNCHANGED <<panicked, added, asked, readded>>
      /\ u \in reconnecting /\ reconnecting' = reconnecting \ {u}
      /\ task' = [task EXCEPT ![u] = "none"] /\ leaving' = [leaving EXCEPT ![u] = @ + 1]
  BY Zenon DEF LeaveReconnecting, handlerVars, ghosts
<1>2. /\ leaving'[u] = leaving[u] + 1 /\ leaving'[u] > 0
      /\ \A v \in Url \ {u} : leaving'[v] = leaving[v]
  BY <1>1 DEF TypeOK
<1>3. InTransit' = InTransit \cup {u}
  BY SMTT(60), <1>1, <1>2 DEF InTransit, TypeOK
<1>4. RemovalsAsked' /\ CurMoving' /\ DeadConfigured' /\ OnlyUserKills'
  BY Zenon, <1>1 DEF RemovalsAsked, CurMoving, DeadConfigured, OnlyUserKills
<1>5. Known' /\ NoUrlLost'
  BY Zenon, <1>1, <1>3 DEF Known, NoUrlLost
<1>6. OneHolder'
  BY SMTT(60), <1>1, <1>2 DEF OneHolder, TypeOK
<1>7. ReconnectingOwned'
  BY Zenon, <1>1 DEF ReconnectingOwned, TypeOK
<1> QED BY Zenon, <1>4, <1>5, <1>6, <1>7

LEMMA ReturnStep ==
    ASSUME IInv, TypeOK', NEW u \in Url, ReturnConnector(u)
    PROVE  IInv'
<1> USE ManualAssumption DEF IInv
<1>1. /\ UNCHANGED <<reconnecting, removed_conn_urls, later, dead, cur, pc>>
      /\ UNCHANGED <<task, panicked, added, asked, readded>>
      /\ connectors' = connectors \cup {u}
      /\ leaving[u] > 0 /\ leaving' = [leaving EXCEPT ![u] = @ - 1]
  BY Zenon DEF ReturnConnector, handlerVars, ghosts
<1>2. /\ leaving'[u] = leaving[u] - 1
      /\ \A v \in Url \ {u} : leaving'[v] = leaving[v]
  BY Zenon, <1>1 DEF TypeOK
<1>3. InTransit' \subseteq InTransit /\ InTransit \ {u} \subseteq InTransit' /\ u \in InTransit
  BY Zenon, <1>1, <1>2 DEF InTransit, TypeOK
<1>4. RemovalsAsked' /\ CurMoving' /\ DeadConfigured' /\ OnlyUserKills'
  BY Zenon, <1>1 DEF RemovalsAsked, CurMoving, DeadConfigured, OnlyUserKills
<1>5. Known' /\ NoUrlLost'
  BY Zenon, <1>1, <1>3 DEF Known, NoUrlLost
<1>6. OneHolder'
  BY SMTT(60), <1>1, <1>2 DEF OneHolder, TypeOK
<1>7. ReconnectingOwned'
  BY Zenon, <1>1 DEF ReconnectingOwned
<1> QED BY Zenon, <1>4, <1>5, <1>6, <1>7

LEMMA AddStep ==
    ASSUME IInv, TypeOK', NEW u \in Url, AddConnectorByUrl(u)
    PROVE  IInv'
<1> USE ManualAssumption DEF IInv
<1>1. /\ UNCHANGED <<reconnecting, removed_conn_urls, later, dead, cur, pc, tasks, panicked, asked>>
      /\ connectors' = connectors \cup {u} /\ added' = added \cup {u}
      /\ readded' = readded \cup (added \cap {u})
  BY Zenon DEF AddConnectorByUrl, handlerVars
<1>2. InTransit' = InTransit
  BY Zenon, <1>1 DEF InTransit, tasks
<1>3. RemovalsAsked' /\ CurMoving' /\ DeadConfigured' /\ OnlyUserKills' /\ ReconnectingOwned'
  BY Zenon, <1>1 DEF RemovalsAsked, CurMoving, DeadConfigured, OnlyUserKills, ReconnectingOwned, tasks
<1>4. Known' /\ NoUrlLost'
  BY Zenon, <1>1, <1>2 DEF Known, NoUrlLost
<1>5. ASSUME readded' = {} PROVE u \notin connectors \cup reconnecting \cup InTransit
  BY Zenon, <1>1, <1>5 DEF Known
<1>6. OneHolder'
  BY <1>1, <1>5 DEF OneHolder, InTransit, TypeOK, tasks
<1> QED BY Zenon, <1>3, <1>4, <1>6

LEMMA AnswerStep ==
    ASSUME IInv, TypeOK', NEW c \in Caller, Answer(c)
    PROVE  IInv'
<1> USE ManualAssumption DEF IInv
<1>1. /\ UNCHANGED <<connectors, reconnecting, later, dead, cur, tasks, panicked, added, readded>>
      /\ removed_conn_urls' = removed_conn_urls \cup Accepted(c)
      /\ asked' = asked \cup Accepted(c) /\ pc'["tick"] = pc["tick"]
  BY Zenon DEF Answer, TypeOK, Handler
<1>2. RemovalsAsked' /\ CurMoving' /\ DeadConfigured' /\ OnlyUserKills' /\ ReconnectingOwned'
  BY Zenon, <1>1 DEF RemovalsAsked, CurMoving, DeadConfigured, OnlyUserKills, ReconnectingOwned, tasks
<1>3. Known' /\ NoUrlLost' /\ OneHolder'
  BY Zenon, <1>1 DEF Known, NoUrlLost, OneHolder, InTransit, tasks
<1> QED BY Zenon, <1>2, <1>3

-----------------------------------------------------------------------------
LEMMA InvStep == IInv /\ [Next]_vars => IInv'
<1> SUFFICES ASSUME IInv, [Next]_vars PROVE IInv'
  OBVIOUS
<1>t. TypeOK'
  BY Zenon, TypeStep
<1>1. CASE Tick
  BY Zenon, <1>t, <1>1, ManualAssumption, AsideStep
     DEF Tick, sets, tasks, ghosts, IInv, TypeOK, Handler
<1>2. ASSUME NEW h \in Handler, HandleRemoveConnector(h) PROVE IInv'
  BY Zenon, <1>t, <1>2, RemoveStep
<1>3. CASE CollectDeadConns
  BY Zenon, <1>t, <1>3, CollectStep
<1>4. ASSUME NEW u \in Url, TakeDead(u) PROVE IInv'
  BY Zenon, <1>t, <1>4, TakeDeadStep
<1>5. CASE StartReconnect
  BY Zenon, <1>t, <1>5, StartStep
<1>6. CASE EventRoutine
  BY Zenon, <1>t, <1>6, AsideStep DEF EventRoutine, HandleEvent, HandleLagged, RebuildAlive, handlerVars,
                               tasks, ghosts
<1>7. ASSUME NEW u \in Url, ReconnectTask(u) \/ ConnDown(u) \/ AddConnectorByUrl(u) PROVE IInv'
  <2>1. CASE AttemptFails(u)
    <3>1. \A v \in Url : task'[v] = task[v] \/ (task[v] = "trying" /\ task'[v] = "done")
      BY Zenon, <2>1 DEF AttemptFails, IInv, TypeOK
    <3> QED BY Zenon, <1>t, <2>1, <3>1, AsideStep DEF AttemptFails, sets, handlerVars, ghosts
  <2>2. CASE ConnUp(u)
    <3>1. \A v \in Url : task'[v] = task[v] \/ (task[v] = "trying" /\ task'[v] = "done")
      BY Zenon, <2>2 DEF ConnUp, IInv, TypeOK
    <3> QED BY Zenon, <1>t, <2>2, <3>1, AsideStep DEF ConnUp, sets, handlerVars, ghosts
  <2>3. CASE ConnDown(u)
    BY Zenon, <1>t, <2>3, AsideStep DEF ConnDown, sets, handlerVars, tasks, ghosts
  <2> QED BY Zenon, <1>t, <1>7, <2>1, <2>2, <2>3, LeaveStep, ReturnStep, AddStep DEF ReconnectTask
<1>8. ASSUME NEW c \in Caller, Answer(c) PROVE IInv'
  BY Zenon, <1>t, <1>8, AnswerStep
<1>9. ASSUME NEW c \in Caller, NEW u \in Url \cup {NoUrl}, ListConnectors(c, u) PROVE IInv'
  BY Zenon, <1>t, <1>9, ManualAssumption, AsideStep
     DEF ListConnectors, sets, tasks, IInv, TypeOK, Handler
<1>10. CASE UNCHANGED vars
  BY Zenon, <1>t, <1>10, AsideStep DEF vars, sets, handlerVars, tasks, ghosts
<1> QED BY Zenon, <1>1, <1>2, <1>3, <1>4, <1>5, <1>6, <1>7, <1>8, <1>9, <1>10
        DEF Next, TickStep, CallStep, Handler

(* Whatever the tick, the reconnect tasks, the listings and the removals   *)
(* do to the unlocked sets of ManualConnectorManager, no configured url is *)
(* lost, `reconnecting.remove(..).unwrap()` finds its url, and the routine *)
(* ends only if a url was added twice or a removal was accepted.           *)
THEOREM UrlsAlwaysKept == Spec => []UrlsKept
<1>1. IInv => UrlsKept
  BY Zenon DEF IInv, UrlsKept
<1> QED BY <1>1, InitInv, InvStep, PTL DEF Spec

-----------------------------------------------------------------------------
(* The network device.  A set of naturals has a smallest element.          *)
LEMMA Smallest ==
    ASSUME NEW S \in SUBSET Nat, S # {}
    PROVE  \E h \in S : \A g \in S : h <= g
<1>1. PICK h \in S : \A g \in S : ~(<<g, h>> \in OpToRel(<, Nat))
  BY Zenon, NatLessThanWellFounded, WFMin
<1>2. \A g \in S : ~(g < h)
  BY Zenon, <1>1 DEF OpToRel
<1> QED BY <1>2

(* While the instance is there: the address the task means to have is the  *)
(* one announced, on a device that is up or whose end it will be told of.  *)
AddressKept ==
    kind.ip = "dhcp" /\ dropping = "no" =>
      /\ doing \in {"top", "create"}
      /\ doing = "create" => nic_ctx = "mock" /\ ~close_permit /\ next # None
      /\ close_permit => nic_ctx = "dead"
      /\ doing = "top" /\ ~failed =>
           /\ current = None => ipv4 = None \/ nic_ctx = "dead"
           /\ current # None => /\ ipv4 = current
                                /\ kind.no_tun \/ nic_ctx = "up" \/ close_permit

NicInv == routes \in RouteSets /\ close_permit \in BOOLEAN /\ AddressKept

LEMMA NicInitial == NicInit => NicInv
BY Zenon DEF NicInit, NicInv, AddressKept

LEMMA NicStep == NicInv /\ [NicNext]_nicVars => NicInv'
<1> SUFFICES ASSUME NicInv, [NicNext]_nicVars PROVE NicInv'
  OBVIOUS
<1> USE DEF NicInv
<1>1. CASE DhcpTop
  <2> DEFINE ip == IF close_permit THEN None ELSE current
  <2>1. /\ doing = "top" /\ kind.ip = "dhcp" /\ close_permit' = FALSE
        /\ UNCHANGED <<kind, routes, dropping, failed>>
        /\ \/ current' = ip /\ UNCHANGED <<ipv4, nic_ctx, doing, next>>
           \/ \E inet \in Inets :
                /\ nic_ctx' = "mock"
                /\ \/ /\ kind.no_tun \/ Candidate(inet) = None
                      /\ current' = Candidate(inet) /\ ipv4' = Candidate(inet) /\ doing' = doing
                   \/ Candidate(inet) # None /\ doing' = "create" /\ next' = Candidate(inet)
    BY Zenon, <1>1 DEF DhcpTop, ClearNicCtx
  <2>2. CASE current' = ip /\ UNCHANGED <<ipv4, nic_ctx, doing, next>>
    BY Zenon, <2>1, <2>2 DEF AddressKept
  <2>3. ASSUME NEW inet \in Inets, nic_ctx' = "mock", kind.no_tun \/ Candidate(inet) = None,
               current' = Candidate(inet), ipv4' = Candidate(inet), doing' = doing
        PROVE  NicInv'
    <3> HIDE DEF NicInv
    <3>1. routes \in RouteSets
      BY Zenon DEF NicInv
    <3> QED BY Zenon, <2>1, <2>3, <3>1 DEF AddressKept, NicInv
  <2>4. ASSUME NEW inet \in Inets, nic_ctx' = "mock", Candidate(inet) # None, doing' = "create",
               next' = Candidate(inet)
        PROVE  NicInv'
    BY Zenon, <2>1, <2>4 DEF AddressKept
  <2> QED BY Zenon, <2>1, <2>2, <2>3, <2>4
<1>2. CASE StaticTop \/ StaticCreated \/ StaticFails \/ StaticWait
  <2>1. kind.ip # "dhcp" /\ UNCHANGED <<kind, routes>> /\ close_permit' \in BOOLEAN
    BY Zenon, <1>2 DEF StaticTop, StaticCreated, StaticFails, StaticWait
  <2> QED BY Zenon, <2>1 DEF AddressKept
<1>3. CASE DhcpEnds
  BY Zenon, <1>3 DEF DhcpEnds, AddressKept, Held
<1>4. CASE DhcpCreated
  BY Zenon, <1>4 DEF DhcpCreated, AddressKept, UseNewNicCtx
<1>5. CASE DhcpFails
  BY Zenon, <1>5 DEF DhcpFails, AddressKept
<1>6. CASE NicCloses
  BY Zenon, <1>6 DEF NicCloses, AddressKept
<1>7. CASE RoutesChange
  BY Zenon, <1>7 DEF RoutesChange, AddressKept
<1>8. CASE DropInstance \/ TakeNicCtx
  BY Zenon, <1>8 DEF DropInstance, TakeNicCtx, AddressKept
<1>9. CASE UNCHANGED nicVars
  BY Zenon, <1>9 DEF nicVars, AddressKept
<1> QED BY Zenon, <1>1, <1>2, <1>3, <1>4, <1>5, <1>6, <1>7, <1>8, <1>9 DEF NicNext, NicTask

(* The address found is free; there is none only where none is free.       *)
LEMMA CandidateFree ==
    ASSUME routes \in RouteSets, NEW inet \in Inets
    PROVE  /\ Candidate(inet) # None => Candidate(inet) \notin Used
           /\ Candidate(inet) = None => Free(inet[1]) = {}
<1> SUFFICES ASSUME Free(inet[1]) # {} PROVE Candidate(inet) \notin Used /\ Candidate(inet) # None
  BY Zenon DEF Candidate
<1> DEFINE S == Free(inet[1])
           h == CHOOSE h \in S : \A g \in S : h <= g
<1>1. S \subseteq 1 .. LastHost - 1 /\ \A g \in S : <<inet[1], g>> \notin Used
  BY Zenon DEF Free
<1>2. S \in SUBSET Nat /\ S # {}
  BY <1>1, NicAssumption
<1>3. Candidate(inet) = <<inet[1], h>>
  BY Zenon DEF Candidate
<1> HIDE DEF S
<1>4. h \in S
  BY Zenon, <1>2, Smallest
<1> HIDE DEF h
<1>5. inet[1] \in Nets /\ h \in 0 .. LastHost
  <2>1. inet[1] \in Nets
    <3>1. CASE Used = {}
      <4>1. inet = <<Default, 0>>
        BY Zenon, <3>1 DEF Inets
      <4> QED BY Zenon, <4>1 DEF Nets
    <3>2. CASE Used # {}
      <4>1. inet \in (UNION RouteSets) \ {None}
        <5>1. inet \in routes /\ inet # None
          BY Zenon, <3>2 DEF Inets, Used
        <5> QED BY Zenon, <5>1
      <4> QED BY Zenon, <4>1 DEF Nets
    <3> QED BY Zenon, <3>1, <3>2
  <2> QED BY <1>1, <1>4, <2>1, NicAssumption
<1> QED BY <1>1, <1>3, <1>4, <1>5, NicAssumption

(* The address an instance has settled on is known of no other node, it is *)
(* the one announced, and a device carries it; there is none only if no    *)
(* address was free: for any routes, networks and sizes of a network.      *)
THEOREM AddressAlwaysSettled == NicSpec => []AddressSettled
<1>1. NicInv => AddressSettled
  <2> SUFFICES ASSUME NicInv, kind.ip = "dhcp", dropping = "no", doing = "top", ~close_permit, ~failed,
                      \A inet \in Inets : Stays(current, inet)
               PROVE  IF current = None
                      THEN /\ \A inet \in Inets : Free(inet[1]) = {}
                           /\ ipv4 = None \/ nic_ctx = "dead"
                      ELSE /\ current \notin Used /\ ipv4 = current
                           /\ kind.no_tun \/ nic_ctx = "up"
    BY Zenon DEF AddressSettled
  <2>1. CASE current = None
    <3>1. \A inet \in Inets : Candidate(inet) = None
      BY Zenon, <2>1 DEF Stays, Keeps
    <3>2. \A inet \in Inets : Free(inet[1]) = {}
      BY Zenon, <3>1, CandidateFree DEF NicInv
    <3>3. ipv4 = None \/ nic_ctx = "dead"
      BY Zenon, <2>1 DEF NicInv, AddressKept
    <3> QED BY Zenon, <2>1, <3>2, <3>3
  <2>2. CASE current # None
    <3>1. PICK inet \in Inets : TRUE
      BY Zenon DEF Inets
    <3>2. current \notin Used
      BY Zenon, <2>2, <3>1, CandidateFree DEF Stays, Keeps, NicInv
    <3> QED BY Zenon, <2>2, <3>2 DEF NicInv, AddressKept
  <2> QED BY Zenon, <2>1, <2>2
<1> QED BY <1>1, NicInitial, NicStep, PTL DEF NicSpec
=============================================================================
