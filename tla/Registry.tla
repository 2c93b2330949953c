------------------------------ MODULE Registry ------------------------------
(***************************************************************************)
(* The network registry on the chain, contract/.../peerlink.move: networks *)
(* by name, each with an administrator and a table of exit nodes.  Tables  *)
(* cannot be iterated, so a vector beside each table lists its keys.       *)
(*                                                                         *)
(* An entry function is a transaction: one step, or none if it aborts.     *)
(* Secret, description and max_peers of a network are one value, and so    *)
(* are connector uris, hostname and time of an exit node.                  *)
(***************************************************************************)
EXTENDS Naturals, Sequences

CONSTANTS Name, EmptyName,   \* network names, among them the empty string
          Address,           \* senders of transactions
          ExitPeer,          \* peer ids of exit nodes
          Value              \* contents

VARIABLES networks,       \* Table<String, NetworkInfo>, a function
          network_names   \* vector<String>

registryVars == <<networks, network_names>>

NoTable == [x \in {} |-> 0]

Entries(s) == {s[i] : i \in DOMAIN s}

(* The keys and values of tables.                                          *)
Tables(K, V) == UNION {[S -> V] : S \in SUBSET K}

(* table::add or a write through table::borrow_mut, and table::remove      *)
TablePut(f, k, v) == [x \in DOMAIN f \cup {k} |-> IF x = k THEN v ELSE f[x]]
TableRemove(f, k) == [x \in DOMAIN f \ {k} |-> f[x]]

(* vector::index_of and vector::remove                                     *)
IndexOf(s, x) == CHOOSE i \in DOMAIN s : s[i] = x /\ \A j \in DOMAIN s : s[j] = x => i <= j
RemoveIndex(s, k) == [i \in 1 .. Len(s) - 1 |-> IF i < k THEN s[i] ELSE s[i + 1]]

ExitNode == [value : Value, is_active : BOOLEAN]

Network == [admin : Address, value : Value, is_active : BOOLEAN,
            exit_nodes : Tables(ExitPeer, ExitNode), exit_node_peer_ids : Seq(ExitPeer)]

RegistryTypeOK ==
    /\ networks \in Tables(Name \ {EmptyName}, Network)
    /\ network_names \in Seq(Name)

RegistryInit == networks = NoTable /\ network_names = <<>>

CreateNetwork(sender, n, v) ==
    /\ n # EmptyName /\ n \notin DOMAIN networks
    /\ networks' = TablePut(networks, n,
                            [admin |-> sender, value |-> v, is_active |-> TRUE,
                             exit_nodes |-> NoTable, exit_node_peer_ids |-> <<>>])
    /\ network_names' = Append(network_names, n)

(* The transactions on one network of its administrator.                   *)
Administer(sender, n, network) ==
    /\ n \in DOMAIN networks /\ networks[n].admin = sender
    /\ networks' = TablePut(networks, n, network)
    /\ UNCHANGED network_names

UpdateNetwork(sender, n, v) == Administer(sender, n, [networks[n] EXCEPT !.value = v])

SetNetworkActive(sender, n, is_active) ==
    Administer(sender, n, [networks[n] EXCEPT !.is_active = is_active])

(* Mutant: the id is appended whether or not the table had it.             *)
ListedAgain(network, p) == Append(network.exit_node_peer_ids, p)

(* The ids after add_exit_node.                                            *)
Listed(network, p) == IF p \in DOMAIN network.exit_nodes THEN network.exit_node_peer_ids
                      ELSE Append(network.exit_node_peer_ids, p)

(* An exit node is added, or replaced and active again.                    *)
AddExitNode(sender, n, p, v) ==
    Administer(sender, n,
        [networks[n] EXCEPT !.exit_nodes = TablePut(@, p, [value |-> v, is_active |-> TRUE]),
                            !.exit_node_peer_ids = Listed(networks[n], p)])

RemoveExitNode(sender, n, p) ==
    LET network == networks[n]
        ids == network.exit_node_peer_ids
    IN  Administer(sender, n,
            IF p \notin DOMAIN network.exit_nodes THEN network
            ELSE [network EXCEPT !.exit_nodes = TableRemove(@, p),
                                 !.exit_node_peer_ids =
                                     IF p \in Entries(ids) THEN RemoveIndex(ids, IndexOf(ids, p))
                                     ELSE ids])

(* Whoever sends it.                                                       *)
UpdateExitNodeStatus(n, p, is_active) ==
    /\ n \in DOMAIN networks /\ p \in DOMAIN networks[n].exit_nodes
    /\ networks' = [networks EXCEPT ![n].exit_nodes[p].is_active = is_active]
    /\ UNCHANGED network_names

RegistryNext ==
    \/ \E n \in Name, p \in ExitPeer, is_active \in BOOLEAN : UpdateExitNodeStatus(n, p, is_active)
    \/ \E sender \in Address, n \in Name :
        \/ \E v \in Value : \/ CreateNetwork(sender, n, v) \/ UpdateNetwork(sender, n, v)
                            \/ \E p \in ExitPeer : AddExitNode(sender, n, p, v)
        \/ \E is_active \in BOOLEAN : SetNetworkActive(sender, n, is_active)
        \/ \E p \in ExitPeer : RemoveExitNode(sender, n, p)

RegistrySpec == RegistryInit /\ [][RegistryNext]_registryVars

-----------------------------------------------------------------------------
(* get_exit_nodes: the loop over the ids aborts at one without an entry.   *)
GetExitNodesAborts(n) ==
    \E i \in DOMAIN networks[n].exit_node_peer_ids :
        networks[n].exit_node_peer_ids[i] \notin DOMAIN networks[n].exit_nodes

(* The nodes pick_exit_node may return, chosen by the transaction digest.  *)
Pickable(n) ==
    {p \in Entries(networks[n].exit_node_peer_ids) : networks[n].exit_nodes[p].is_active}

(* A vector lists a set: every element once.                               *)
Lists(s, S) == /\ Entries(s) = S
               /\ \A i, j \in DOMAIN s : s[i] = s[j] => i = j

(* Tables and vectors agree, whatever is created, added again and removed: *)
(* the loops of get_active_networks, get_exit_nodes and pick_exit_node     *)
(* borrow every entry once, and none that is missing.                      *)
ListsAgree ==
    /\ Lists(network_names, DOMAIN networks)
    /\ \A n \in DOMAIN networks :
          Lists(networks[n].exit_node_peer_ids, DOMAIN networks[n].exit_nodes)

(* An exit node is picked if there is an active one, and only then.        *)
PicksActive ==
    \A n \in DOMAIN networks :
        /\ ~GetExitNodesAborts(n)
        /\ Pickable(n) = {p \in DOMAIN networks[n].exit_nodes :
                              networks[n].exit_nodes[p].is_active}
=============================================================================
