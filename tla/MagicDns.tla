------------------------------ MODULE MagicDns ------------------------------
(***************************************************************************)
(* Magic DNS (instance/dns_server).  Every instance on a machine runs a    *)
(* DnsRunner: it tries to become the machine's one server, by listening on *)
(* a fixed local port, and is always a client that reports its routes to   *)
(* whichever server holds the port.  When the server goes, every client's  *)
(* connection ends and its runner starts over.                             *)
(*                                                                         *)
(* serve() takes the hook before set_hook stores one, so the server runs   *)
(* the default hook and never hears of a client that left: what a client   *)
(* reported stays, and the key it is stored under is left out here.        *)
(***************************************************************************)
EXTENDS Naturals, Sequences

CONSTANTS Instances, DnsTables,      \* the route tables an instance may have
          NoHost,                 \* a route without a hostname
          MaxDnsEvents            \* bound: changes of tables and faults

VARIABLES at,                     \* where the runner of an instance is
          stamp, table, building, \* peer_info_last_update, the table, being built
          prev_last_update, seen, \* the client's: last reported, read this round
          report,                 \* the routes it sends
          early,                  \* ghost: a report was listed before the table of its stamp was built
          conn,                   \* the server a client is connected to
          filters,                \* NIC pipeline of an instance, oldest first
          holder, generation,     \* who listens on the port, and which server it is
          registered, catalog,    \* the RPC service is there; the zone's records
          server,                 \* self.server of the runners: a generation, or 0
          faults

dnsVars == <<at, stamp, table, building, prev_last_update, seen, report, early, conn,
             filters, holder, generation, registered, catalog, server, faults>>
dnsClient == <<stamp, table, building, prev_last_update, seen, report, early>>
dnsServer == <<filters, holder, generation, registered, catalog, server>>

Nobody == 0                       \* an instance is a positive number

DnsInit ==
    /\ at = [i \in Instances |-> "off"]
    /\ stamp = [i \in Instances |-> 1] /\ table = [i \in Instances |-> CHOOSE t \in DnsTables : TRUE]
    /\ building = [i \in Instances |-> FALSE]
    /\ prev_last_update = [i \in Instances |-> 0] /\ seen = [i \in Instances |-> 0]
    /\ report = [i \in Instances |-> {}] /\ early = [i \in Instances |-> FALSE]
    /\ conn = [i \in Instances |-> 0]
    /\ filters = [i \in Instances |-> <<>>]
    /\ holder = Nobody /\ generation = 0 /\ registered = FALSE /\ catalog = {}
    /\ server = [i \in Instances |-> 0]
    /\ faults = 0

Goes(i, to) == at' = [at EXCEPT ![i] = to]
ClosePort == holder' = Nobody /\ registered' = FALSE /\ catalog' = {}
Fault == faults < MaxDnsEvents /\ faults' = faults + 1

-----------------------------------------------------------------------------
(* MagicDnsServerInstance::new                                             *)
ListenDns(i) ==
    /\ at[i] = "start"
    /\ IF holder = Nobody
       THEN /\ holder' = i /\ generation' = generation + 1 /\ Goes(i, "bind")
       ELSE UNCHANGED <<holder, generation>> /\ Goes(i, "connect")
    /\ UNCHANGED <<dnsClient, conn, filters, registered, catalog, server, faults>>

(* Sockets and the route to the fake address, then the service and the     *)
(* filter; clients may connect before the service is registered.           *)
Register(i) ==
    /\ at[i] = "bind"
    /\ registered' = TRUE
    /\ filters' = [filters EXCEPT ![i] = Append(@, generation)]
    /\ Goes(i, "config")
    /\ UNCHANGED <<dnsClient, conn, holder, generation, catalog, server, faults>>

Configured(i) ==
    /\ at[i] = "config"
    /\ server' = [server EXCEPT ![i] = generation] /\ Goes(i, "connect")
    /\ UNCHANGED <<dnsClient, conn, filters, holder, generation, registered, catalog, faults>>

(* One of its steps fails: the port is closed, a filter that is installed  *)
(* stays.                                                                  *)
SetupFails(i) ==
    /\ at[i] \in {"bind", "config"} /\ Fault
    /\ ClosePort /\ Goes(i, "connect")
    /\ UNCHANGED <<dnsClient, conn, filters, generation, server>>

-----------------------------------------------------------------------------
(* MagicDnsClientInstance::new and update_dns_task                         *)
Linked(i) == holder # Nobody /\ conn[i] = generation

Connect(i) ==
    /\ at[i] = "connect"
    /\ IF holder # Nobody
       THEN conn' = [conn EXCEPT ![i] = generation] /\ Goes(i, "handshake")
       ELSE UNCHANGED conn /\ Goes(i, "clean")
    /\ UNCHANGED <<dnsClient, dnsServer, faults>>

Handshake(i) ==
    /\ at[i] = "handshake" /\ Linked(i)
    /\ Goes(i, IF registered THEN "heartbeat" ELSE "clean")
    /\ UNCHANGED <<dnsClient, conn, dnsServer, faults>>

ReadStamp(i) ==
    /\ at[i] = "heartbeat" /\ Linked(i) /\ stamp[i] # prev_last_update[i]
    /\ seen' = [seen EXCEPT ![i] = stamp[i]] /\ Goes(i, "list")
    /\ UNCHANGED <<stamp, table, building, prev_last_update, report, early, conn, dnsServer, faults>>

ListRoutes(i) ==
    /\ at[i] = "list" /\ Goes(i, "send")
    /\ report' = [report EXCEPT ![i] = table[i]] /\ early' = [early EXCEPT ![i] = building[i]]
    /\ UNCHANGED <<stamp, table, building, prev_last_update, seen, conn, dnsServer, faults>>

Records(routes) == {r \in routes : r[1] # NoHost}

(* update_dns_record: added to what is there, and the zone built anew.     *)
UpdateDnsRecord(i) ==
    /\ at[i] = "send" /\ Linked(i)
    /\ catalog' = catalog \union Records(report[i]) /\ Goes(i, "compare")
    /\ report' = [report EXCEPT ![i] = {}]
    /\ UNCHANGED <<stamp, table, building, prev_last_update, seen, early, conn, filters, holder,
                   generation, registered, server, faults>>

(* Mutant: what was reported is taken for current as of now.               *)
ReportedNow(i) == [prev_last_update EXCEPT ![i] = stamp[i]]

Reported(i) == IF stamp[i] = seen[i] THEN [prev_last_update EXCEPT ![i] = seen[i]]
               ELSE prev_last_update

CompareStamps(i) ==
    /\ at[i] = "compare"
    /\ prev_last_update' = Reported(i)
    /\ seen' = [seen EXCEPT ![i] = 0]
    /\ Goes(i, "heartbeat")
    /\ UNCHANGED <<stamp, table, building, report, early, conn, dnsServer, faults>>

(* The connection is gone, or an RPC fails: the client exits.              *)
ClientExits(i) ==
    /\ at[i] \in {"handshake", "heartbeat", "send"} /\ ~Linked(i)
    /\ Goes(i, "clean") /\ UNCHANGED <<dnsClient, conn, dnsServer, faults>>

RpcFails(i) ==
    /\ at[i] \in {"handshake", "heartbeat", "send"} /\ Fault
    /\ Goes(i, "clean") /\ UNCHANGED <<dnsClient, conn, dnsServer>>

-----------------------------------------------------------------------------
(* clean_env, which removes the oldest filter; dropping the server closes  *)
(* the port.                                                               *)
ClientGone(i) ==
    /\ prev_last_update' = [prev_last_update EXCEPT ![i] = 0]
    /\ seen' = [seen EXCEPT ![i] = 0] /\ report' = [report EXCEPT ![i] = {}]
    /\ conn' = [conn EXCEPT ![i] = 0]
    /\ UNCHANGED <<stamp, table, building, early>>

CleanEnv(i) ==
    /\ ClientGone(i)
    /\ server' = [server EXCEPT ![i] = 0]
    /\ filters' = IF server[i] # 0 /\ filters[i] # <<>> THEN [filters EXCEPT ![i] = Tail(@)]
                  ELSE filters
    /\ IF holder = i THEN ClosePort ELSE UNCHANGED <<holder, registered, catalog>>

Restart(i) == /\ at[i] = "clean" /\ CleanEnv(i) /\ Goes(i, "start")
              /\ UNCHANGED <<generation, faults>>

(* The token is cancelled: run_once is dropped wherever it is.             *)
Cancel(i) == /\ at[i] # "off" /\ Fault /\ CleanEnv(i) /\ Goes(i, "off")
             /\ UNCHANGED generation

(* The process dies; nothing of it is left.                                *)
ProcessDies(i) ==
    /\ at[i] # "off" /\ Fault /\ Goes(i, "off")
    /\ ClientGone(i) /\ server' = [server EXCEPT ![i] = 0]
    /\ filters' = [filters EXCEPT ![i] = <<>>]
    /\ IF holder = i THEN ClosePort ELSE UNCHANGED <<holder, registered, catalog>>
    /\ UNCHANGED generation

(* A new NIC starts a new runner.                                          *)
RunnerStarts(i) == /\ at[i] = "off" /\ Goes(i, "start")
                   /\ UNCHANGED <<dnsClient, conn, dnsServer, faults>>

-----------------------------------------------------------------------------
(* update_route_table_and_cached_local_conn_bitmap stamps before it builds *)
(* the table.                                                              *)
StampRoutes(i) ==
    /\ ~building[i] /\ Fault
    /\ stamp' = [stamp EXCEPT ![i] = @ + 1] /\ building' = [building EXCEPT ![i] = TRUE]
    /\ UNCHANGED <<at, table, prev_last_update, seen, report, early, conn, dnsServer>>

BuildTable(i) ==
    /\ building[i] /\ building' = [building EXCEPT ![i] = FALSE]
    /\ \E t \in DnsTables : table' = [table EXCEPT ![i] = t]
    /\ UNCHANGED <<at, stamp, prev_last_update, seen, report, early, conn, dnsServer, faults>>

RunOnce(i) ==
    \/ ListenDns(i) \/ Register(i) \/ Configured(i) \/ Connect(i) \/ Handshake(i)
    \/ ReadStamp(i) \/ ListRoutes(i) \/ UpdateDnsRecord(i) \/ CompareStamps(i)
    \/ ClientExits(i) \/ Restart(i)

DnsNext == \E i \in Instances :
    \/ RunOnce(i) \/ SetupFails(i) \/ RpcFails(i) \/ Cancel(i) \/ ProcessDies(i)
    \/ RunnerStarts(i) \/ StampRoutes(i) \/ BuildTable(i)

DnsFairness == \A i \in Instances : WF_dnsVars(RunOnce(i)) /\ WF_dnsVars(BuildTable(i))

DnsSpec == DnsInit /\ [][DnsNext]_dnsVars /\ DnsFairness

-----------------------------------------------------------------------------
(* While a runner is up, the machine comes to have one server and keeps    *)
(* it, the newest filter of its instance is that server's, and every       *)
(* running instance has its current names in the zone, whatever failed and *)
(* changed before.  One case is left out: a whole report that fits between *)
(* the stamp of a change and the table of it waits for the next change.    *)
NamesResolve ==
    <>[](\A i \in Instances : at[i] # "off" =>
           /\ holder # Nobody
           /\ filters[holder] # <<>>
           /\ filters[holder][Len(filters[holder])] = generation
           /\ early[i] \/ Records(table[i]) \subseteq catalog)
=============================================================================
