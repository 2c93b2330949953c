------------------------------ MODULE Handshake ------------------------------
(***************************************************************************)
(* The handshake of a connection (peers/peer_conn.rs) and the admission    *)
(* after it (add_client_tunnel, add_tunnel_as_server of peer_manager.rs,   *)
(* add_peer_conn of foreign_network_manager.rs).  One node accepts several *)
(* connections of clients of its own and of foreign networks.  In a        *)
(* foreign network it has a peer id of its own: that of the network's      *)
(* entry, or one reserved until an entry is there, so that connections     *)
(* accepted at the same time are told the same id.                         *)
(*                                                                         *)
(* An entry lives while it has connections (module ForeignNetworks has its *)
(* removal in detail).  A secret stands for its digest; Zero is the digest *)
(* that is sent to a client of another network.                            *)
(***************************************************************************)
EXTENDS Naturals, FiniteSets

CONSTANTS Conns, Clients,      \* who may connect: functions to [name, secret, id]
          Accepting,           \* [name, secret, id] of the accepting node
          private_mode, Relayed, relay_all_peer_rpc,
          MaxDirectConns,           \* MAX_DIRECT_CONNS_PER_PEER_IN_FOREIGN_NETWORK
          Zero, NoNet,
          MaxIds               \* bound: ids drawn for foreign networks

Names == {c[k].name : c \in Clients, k \in Conns} \ {Accepting.name}
Secrets == {c[k].secret : c \in Clients, k \in Conns}

ASSUME HandshakeAssumption ==
    /\ Accepting.id \in Nat /\ Zero \notin Secrets
    /\ NoNet \notin [name : {Accepting.name}, secret : {Accepting.secret, Zero}, id : Nat]
    /\ NoNet \notin [id : Nat, secret : Secrets]

VARIABLES client_of,           \* who connects
          client_end, server_end,   \* where each end is
          to_server, to_client, \* what is in the tunnel, a set of messages
          my_id,               \* the id the node gave itself on a connection
          info,                \* the answer the client has
          reserved,            \* reserved_my_peer_id_map
          entry,               \* foreign network entries: [id, secret], or NoNet
          releasing,           \* connections that are in and still hold the reservation
          ids                  \* ids drawn

handshakeVars == <<client_of, client_end, server_end, to_server, to_client, my_id, info, reserved,
                   entry, releasing, ids>>

HandshakeInit ==
    /\ client_of \in Clients
    /\ client_end = [k \in Conns |-> "new"] /\ server_end = [k \in Conns |-> "wait"]
    /\ to_server = [k \in Conns |-> <<>>] /\ to_client = [k \in Conns |-> <<>>]
    /\ my_id = [k \in Conns |-> Accepting.id] /\ info = [k \in Conns |-> NoNet]
    /\ reserved = [n \in Names |-> NoNet] /\ entry = [n \in Names |-> NoNet]
    /\ releasing = {} /\ ids = 0

HandshakeRequest(name, secret, id) == <<[name |-> name, secret |-> secret, id |-> id]>>
acceptVars == <<server_end, to_client, my_id, reserved, entry, releasing, ids>>

-----------------------------------------------------------------------------
(* do_handshake_as_client, add_client_tunnel                               *)
ClientSendsHandshake(k) ==
    /\ client_end[k] = "new" /\ client_end' = [client_end EXCEPT ![k] = "wait"]
    /\ to_server' = [to_server EXCEPT ![k] =
                       HandshakeRequest(client_of[k].name, client_of[k].secret, client_of[k].id)]
    /\ UNCHANGED <<acceptVars, info>>

ClientAdmits(k) ==
    LET rsp == to_client[k][1]
        admitted == IF rsp.id = client_of[k].id THEN "failed"
                    ELSE IF rsp.name # client_of[k].name THEN "foreign"
                    ELSE IF rsp.secret # client_of[k].secret THEN "failed" ELSE "own"
    IN  /\ client_end[k] = "wait" /\ to_client[k] # <<>>
        /\ info' = [info EXCEPT ![k] = rsp]
        /\ client_end' = [client_end EXCEPT ![k] = admitted]
        /\ UNCHANGED <<acceptVars, to_server>>

(* wait_handshake_loop: five seconds without a handshake.  A packet that   *)
(* is no handshake does not end the wait.                                  *)
ClientTimeout(k) == /\ client_end[k] = "wait" /\ client_end' = [client_end EXCEPT ![k] = "failed"]
                    /\ UNCHANGED <<acceptVars, to_server, info>>

-----------------------------------------------------------------------------
(* No handshake in time, or the tunnel comes from the virtual network     *)
(* itself (check_remote_addr_not_from_virtual_network).                    *)
ServerRefuses(k) ==
    /\ server_end[k] = "wait" /\ server_end' = [server_end EXCEPT ![k] = "failed"]
    /\ UNCHANGED <<client_end, to_server, to_client, my_id, info, reserved, entry, releasing, ids>>

(* add_tunnel_as_server: the callback picks the id for a foreign network,  *)
(* then the answer is sent, with the digest only to the same network.      *)
ServerAnswers(k) ==
    LET msg == to_server[k][1]
        foreign == msg.name # Accepting.name
        fresh == foreign /\ entry[msg.name] = NoNet /\ reserved[msg.name] = NoNet
        id == IF ~foreign THEN Accepting.id
              ELSE IF entry[msg.name] # NoNet THEN entry[msg.name].id
              ELSE IF fresh THEN Accepting.id + 1 + ids ELSE reserved[msg.name]
        same == msg.name = Accepting.name /\ msg.secret = Accepting.secret
    IN  /\ server_end[k] = "wait" /\ to_server[k] # <<>>
        /\ IF foreign /\ private_mode
           THEN /\ server_end' = [server_end EXCEPT ![k] = "failed"]
                /\ UNCHANGED <<to_client, my_id, reserved, ids>>
           ELSE /\ fresh => ids < MaxIds
                /\ ids' = IF fresh THEN ids + 1 ELSE ids
                /\ reserved' = IF foreign /\ entry[msg.name] = NoNet
                               THEN [reserved EXCEPT ![msg.name] = id] ELSE reserved
                /\ my_id' = [my_id EXCEPT ![k] = id]
                /\ to_client' = [to_client EXCEPT ![k] =
                     HandshakeRequest(Accepting.name, IF same THEN Accepting.secret ELSE Zero, id)]
                /\ server_end' = [server_end EXCEPT ![k] = IF msg.id = id THEN "failed" ELSE "answered"]
        /\ UNCHANGED <<client_end, to_server, info, entry, releasing>>

(* add_new_peer_conn: the same network.                                    *)
ServerAdmitsOwn(k) ==
    LET msg == to_server[k][1]
    IN  /\ server_end[k] = "answered" /\ msg.name = Accepting.name
        /\ server_end' = [server_end EXCEPT ![k] = IF msg.secret = Accepting.secret THEN "own"
                                                   ELSE "failed"]
        /\ UNCHANGED <<client_end, to_server, to_client, my_id, info, reserved, entry, releasing, ids>>

(* Mutant: the id of the entry is not compared.                            *)
MatchesSecret(e, k) == e.secret = to_server[k][1].secret

Matches(e, k) == e.secret = to_server[k][1].secret /\ e.id = my_id[k]

Direct(k) == {j \in Conns : server_end[j] = "foreign" /\ client_of[j].name = client_of[k].name
                            /\ client_of[j].id = client_of[k].id}

(* add_peer_conn                                                           *)
ServerAdmitsForeign(k) ==
    LET msg == to_server[k][1]
        n == msg.name
        e == IF entry[n] # NoNet THEN entry[n] ELSE [id |-> my_id[k], secret |-> msg.secret]
        admitted == /\ n \in Relayed \/ relay_all_peer_rpc
                    /\ Matches(e, k)
                    /\ Cardinality(Direct(k)) < MaxDirectConns
    IN  /\ server_end[k] = "answered" /\ n # Accepting.name
        /\ IF admitted
           THEN /\ entry' = [entry EXCEPT ![n] = e]
                /\ releasing' = releasing \union {k}
                /\ server_end' = [server_end EXCEPT ![k] = "foreign"]
           ELSE server_end' = [server_end EXCEPT ![k] = "failed"] /\ UNCHANGED <<entry, releasing>>
        /\ UNCHANGED <<client_end, to_server, to_client, my_id, info, reserved, ids>>

(* The end of add_tunnel_as_server, only when the connection is in; it may *)
(* have closed since.                                                      *)
ReleaseReservation(k) ==
    /\ k \in releasing /\ releasing' = releasing \ {k}
    /\ reserved' = [reserved EXCEPT ![client_of[k].name] = NoNet]
    /\ UNCHANGED <<client_end, server_end, to_server, to_client, my_id, info, entry, ids>>

(* A connection ends; the last one of a network takes the entry with it.   *)
EndConn(k) ==
    LET n == client_of[k].name
        left == {j \in Conns \ {k} : server_end[j] = "foreign" /\ client_of[j].name = n}
    IN  /\ server_end[k] \in {"own", "foreign"}
        /\ server_end' = [server_end EXCEPT ![k] = "closed"]
        /\ client_end' = [client_end EXCEPT ![k] = "closed"]
        /\ entry' = IF server_end[k] = "foreign" /\ left = {} THEN [entry EXCEPT ![n] = NoNet]
                      ELSE entry
        /\ UNCHANGED <<to_server, to_client, my_id, info, reserved, releasing, ids>>

HandshakeNext == UNCHANGED client_of /\ \E k \in Conns :
    \/ ClientSendsHandshake(k) \/ ClientAdmits(k) \/ ClientTimeout(k)
    \/ ServerRefuses(k) \/ ServerAnswers(k) \/ ServerAdmitsOwn(k) \/ ServerAdmitsForeign(k)
    \/ ReleaseReservation(k) \/ EndConn(k)

HandshakeSpec == HandshakeInit /\ [][HandshakeNext]_handshakeVars

-----------------------------------------------------------------------------
(* Two ends that both admit a connection take it for the same kind, and    *)
(* know each other by the ids they use; all connections of a foreign       *)
(* network are with one id of the node, that of the entry; in the own      *)
(* network both have the secret; the digest of the own secret is sent to   *)
(* nobody else.                                                            *)
EndsAgree ==
    \A k \in Conns :
        /\ server_end[k] = "foreign" =>
             /\ entry[client_of[k].name] = [id |-> my_id[k], secret |-> client_of[k].secret]
             /\ info[k] # NoNet => client_end[k] = "foreign" /\ info[k].id = my_id[k]
        /\ server_end[k] = "own" => client_end[k] # "foreign" /\ client_of[k].secret = Accepting.secret
        /\ client_end[k] = "own" => info[k].id = Accepting.id /\ client_of[k].secret = Accepting.secret
        /\ to_client[k] # <<>> /\ to_client[k][1].secret # Zero => client_of[k].secret = Accepting.secret
=============================================================================
