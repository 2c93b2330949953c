---------------------------- MODULE ForeignInfo -----------------------------
(***************************************************************************)
(* What nodes tell each other about the foreign networks they relay for    *)
(* (peers/peer_ospf_route.rs): a node lists its own networks from time to  *)
(* time, the entries travel with the route sync under versions taken from  *)
(* the clock, and each node derives from its entries and its route table   *)
(* which nodes serve a network.                                            *)
(*                                                                         *)
(* There is one network, served by some of the nodes; an entry is the      *)
(* peers of the network at its server.  Every stamp of a clock is later    *)
(* than those before; a version is the second of a stamp.  The clock is    *)
(* never set back.  Which peers are reachable is the route table's         *)
(* business (RouteTable): here it changes at any time.                     *)
(***************************************************************************)
EXTENDS Naturals, FiniteSets

CONSTANTS Members, Servers,   \* nodes, and those that relay
          Neighbours,         \* pairs of nodes that sync
          PeerSets,           \* the peers a network may have; {} is in it
          Second,             \* clock ticks in a second
          Interval,           \* OSPF_UPDATE_MY_GLOBAL_FOREIGN_NETWORK_INTERVAL_SEC
          RenewAfter,         \* UPDATE_PEER_INFO_PERIOD
          RemoveAfter,        \* REMOVE_DEAD_PEER_INFO_AFTER
          MaxClock, MaxReach  \* bounds: ticks, changes of reachability

ASSUME ForeignInfoAssumption ==
    /\ Servers \subseteq Members /\ {} \in PeerSets
    /\ {Second, Interval, RenewAfter, RemoveAfter} \subseteq Nat
    /\ 0 < Second /\ Second <= Interval /\ RenewAfter < RemoveAfter

VARIABLES clock,
          network,     \* peers and network_peer_last_update of the servers
          listed,      \* last_update_my_foreign_network
          foreign,     \* foreign[n][s]: synced_route_info.foreign_network, or NoInfo
          lapsed,      \* history: the newest version of s that n removed as expired
          known,       \* known[n][m][s]: dst_saved_foreign_network_versions
          request,     \* request[n][m]: the entries n sends m, a function
          rebuild,     \* rebuild[n][x]: update_foreign_network_owner_map, run by
                       \* the handler of x's request or, if x = n, by n itself
          reach,       \* the nodes that have a route
          owners,      \* foreign_network_owner_map
          turns        \* changes of reachability so far

infoVars == <<clock, network, listed, foreign, lapsed, known, request, rebuild, reach, owners, turns>>

NoInfo == [ver |-> 0, peers |-> {}, last |-> 0]
Nothing == [s \in {} |-> NoInfo]
Phase(at, S) == [at |-> at, todo |-> S]
Resting == Phase("idle", {})
SyncPairs == {p \in Members \X Members : p \in Neighbours \/ <<p[2], p[1]>> \in Neighbours}

InfoInit ==
    /\ clock = Second + 1
    /\ network = [s \in Servers |-> [peers |-> {}, changed |-> 0]]
    /\ listed = [s \in Servers |-> 0]
    /\ foreign = [n \in Members |-> [s \in Servers |-> NoInfo]]
    /\ lapsed = [n \in Members |-> [s \in Servers |-> 0]]
    /\ known = [n \in Members |-> [m \in Members |-> [s \in Servers |-> 0]]]
    /\ request = [n \in Members |-> [m \in Members |-> Nothing]]
    /\ rebuild = [n \in Members |-> [x \in Members |-> Resting]]
    /\ reach = [n \in Members |-> Members]
    /\ owners = [n \in Members |-> {}]
    /\ turns = 0

Stamp == clock < MaxClock /\ clock' = clock + 1
NowVersion == clock' \div Second

-----------------------------------------------------------------------------
(* A peer of the network comes or goes at server s.                        *)
NetworkChanges(s) ==
    /\ Stamp
    /\ \E P \in PeerSets \ {network[s].peers} :
          network' = [network EXCEPT ![s] = [peers |-> P, changed |-> clock']]
    /\ UNCHANGED <<listed, foreign, lapsed, known, request, rebuild, reach, owners, turns>>

(* Mutant: the networks are listed at any time.                            *)
DueAlways(s) == TRUE

(* update_my_foreign_network of the service: not more often than that.     *)
Due(s) == listed[s] = 0 \/ clock' - listed[s] >= Interval

Larger(i, j) == IF i < j THEN j ELSE i

(* list_foreign_networks leaves out a network without peers.               *)
IsListed(s) == network[s].peers # {}

(* is_foreign_network_info_newer                                           *)
IsNewer(new, old) == new.changed > old.last

(* The entry of a network that is not listed any more is emptied, once.    *)
(* An entry keeps the time at which the network changed, not that of its   *)
(* renewal.                                                                *)
Updated(s) ==
    LET new == network[s]
        old == foreign[s][s]
        fresh(v) == [ver |-> v, peers |-> new.peers, last |-> new.changed]
    IN  IF ~IsListed(s)
        THEN IF old.peers = {} THEN old
             ELSE [ver |-> Larger(old.ver + 1, NowVersion), peers |-> {}, last |-> clock']
        ELSE IF old = NoInfo THEN fresh(NowVersion)
        ELSE IF IsNewer(new, old) \/ clock' - old.last > RenewAfter
             THEN fresh(Larger(1, NowVersion))
        ELSE old

UpdateMyForeignNetwork(s) ==
    /\ Stamp /\ Due(s)
    /\ listed' = [listed EXCEPT ![s] = clock']
    /\ foreign' = [foreign EXCEPT ![s][s] = Updated(s)]
    /\ UNCHANGED <<network, lapsed, known, request, rebuild, reach, owners, turns>>

(* clear_expired_peer                                                      *)
Expired(n, s) == clock - foreign[n][s].last > RemoveAfter

ClearExpired(n) ==
    /\ foreign' = [foreign EXCEPT ![n] = [s \in Servers |-> IF Expired(n, s) THEN NoInfo ELSE @[s]]]
    /\ lapsed' = [lapsed EXCEPT ![n] = [s \in Servers |->
                    IF Expired(n, s) THEN Larger(@[s], foreign[n][s].ver) ELSE @[s]]]
    /\ UNCHANGED <<clock, network, listed, known, request, rebuild, reach, owners, turns>>

-----------------------------------------------------------------------------
(* build_foreign_network_info, for the sync of n with m.                   *)
Unknown(n, m) ==
    {s \in Servers \ {m} : foreign[n][s] # NoInfo /\ known[n][m][s] < foreign[n][s].ver}

SendInfos(n, m) ==
    /\ request[n][m] = Nothing /\ Unknown(n, m) # {}
    /\ request' = [request EXCEPT ![n][m] = [s \in Unknown(n, m) |-> foreign[n][s]]]
    /\ UNCHANGED <<clock, network, listed, foreign, lapsed, known, rebuild, reach, owners, turns>>

Saved(k, infos) ==
    [s \in Servers |-> IF s \in DOMAIN infos THEN Larger(k[s], infos[s].ver) ELSE k[s]]

(* update_foreign_network: what is newer replaces an entry.                *)
UpdateForeignNetwork(old, infos) ==
    [s \in Servers |-> IF s \in DOMAIN infos /\ infos[s].ver > old[s].ver
                       THEN [ver |-> infos[s].ver, peers |-> infos[s].peers, last |-> clock] ELSE old[s]]

(* The handler, at m; the owners are found anew before it answers.         *)
ReceiveInfos(n, m) ==
    LET infos == request[n][m]
    IN  /\ infos # Nothing /\ rebuild[m][n] = Resting
        /\ foreign' = [foreign EXCEPT ![m] = UpdateForeignNetwork(@, infos)]
        /\ known' = [known EXCEPT ![m][n] = Saved(@, infos)]
        /\ rebuild' = [rebuild EXCEPT ![m][n] = Phase("clear", {})]
        /\ UNCHANGED <<clock, network, listed, lapsed, request, reach, owners, turns>>

Answered(n, m) ==
    /\ rebuild[m][n].at = "done"
    /\ known' = [known EXCEPT ![n][m] = Saved(@, request[n][m])]
    /\ request' = [request EXCEPT ![n][m] = Nothing]
    /\ rebuild' = [rebuild EXCEPT ![m][n] = Resting]
    /\ UNCHANGED <<clock, network, listed, foreign, lapsed, reach, owners, turns>>

(* The request or the answer is lost.                                      *)
CallLost(n, m) ==
    /\ request[n][m] # Nothing /\ rebuild[m][n].at \in {"idle", "done"}
    /\ request' = [request EXCEPT ![n][m] = Nothing]
    /\ rebuild' = [rebuild EXCEPT ![m][n] = Resting]
    /\ UNCHANGED <<clock, network, listed, foreign, lapsed, known, reach, owners, turns>>

-----------------------------------------------------------------------------
(* The route table has changed: update_my_infos finds the owners anew.     *)
ReachChanges(n) ==
    /\ turns < MaxReach /\ turns' = turns + 1
    /\ rebuild[n][n] = Resting
    /\ \E s \in Servers \ {n} :
          reach' = [reach EXCEPT ![n] = IF s \in @ THEN @ \ {s} ELSE @ \cup {s}]
    /\ rebuild' = [rebuild EXCEPT ![n][n] = Phase("clear", {})]
    /\ UNCHANGED <<clock, network, listed, foreign, lapsed, known, request, owners>>

(* update_foreign_network_owner_map: it takes no lock, and several of them *)
(* may run at a time.                                                      *)
ClearOwners(n, x) ==
    /\ rebuild[n][x].at = "clear"
    /\ owners' = [owners EXCEPT ![n] = {}]
    /\ rebuild' = [rebuild EXCEPT ![n][x] = Phase("fill", Servers \ {n})]
    /\ UNCHANGED <<clock, network, listed, foreign, lapsed, known, request, reach, turns>>

Serves(n, s) == s \in reach[n] /\ foreign[n][s].peers # {}

FillOwner(n, x, s) ==
    /\ rebuild[n][x].at = "fill" /\ s \in rebuild[n][x].todo
    /\ owners' = [owners EXCEPT ![n] = IF Serves(n, s) THEN @ \cup {s} ELSE @]
    /\ rebuild' = [rebuild EXCEPT ![n][x] = Phase("fill", @.todo \ {s})]
    /\ UNCHANGED <<clock, network, listed, foreign, lapsed, known, request, reach, turns>>

OwnersFound(n, x) ==
    /\ rebuild[n][x].at = "fill" /\ rebuild[n][x].todo = {}
    /\ rebuild' = [rebuild EXCEPT ![n][x] = IF x = n THEN Resting ELSE Phase("done", {})]
    /\ UNCHANGED <<clock, network, listed, foreign, lapsed, known, request, reach, owners, turns>>

InfoNext ==
    \/ \E s \in Servers : NetworkChanges(s) \/ UpdateMyForeignNetwork(s)
    \/ \E n \in Members : ClearExpired(n) \/ ReachChanges(n)
    \/ \E p \in SyncPairs : LET n == p[1] m == p[2]
                        IN  \/ SendInfos(n, m) \/ ReceiveInfos(n, m)
                            \/ Answered(n, m) \/ CallLost(n, m)
    \/ \E n, x \in Members : \/ ClearOwners(n, x) \/ OwnersFound(n, x)
                             \/ \E s \in Servers : FillOwner(n, x, s)

InfoSpec == InfoInit /\ [][InfoNext]_infoVars

-----------------------------------------------------------------------------
(* A version of a server's entry is one set of peers, wherever the entry   *)
(* is and however it got there.                                            *)
VersionIsOne ==
    \A s \in Servers, n, m \in Members :
        foreign[n][s].ver = foreign[m][s].ver => foreign[n][s].peers = foreign[m][s].peers

(* Neighbours that have nothing to send each other have the same entries,  *)
(* but for those of which one of them has removed a newer one as expired:  *)
(* it is not sent that again.                                              *)
Outlived(n, s) == foreign[n][s].ver < lapsed[n][s]

QuietAgree ==
    \A p \in SyncPairs :
        LET n == p[1] m == p[2]
        IN  Unknown(n, m) = {} /\ Unknown(m, n) = {}
            => \A s \in Servers : \/ foreign[n][s].ver = foreign[m][s].ver
                                  \/ Outlived(n, s) \/ Outlived(m, s)

(* When no rebuild runs, a node knows every reachable server of a network, *)
(* whatever rebuilds ran at the same time.  It may still have one that is  *)
(* no longer reachable.                                                    *)
OwnersFoundAll ==
    \A n \in Members : (\A x \in Members : rebuild[n][x].at \in {"idle", "done"}) =>
        {s \in Servers \ {n} : Serves(n, s)} \subseteq owners[n]

ForeignKnown == VersionIsOne /\ QuietAgree /\ OwnersFoundAll
=============================================================================
