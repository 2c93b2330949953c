------------------------------ MODULE ChainRead -----------------------------
(***************************************************************************)
(* Reading the registry of networks: peerlink-cli asks chain_op/sui/mod.rs *)
(* for a network, its secret or its exit nodes, a view function of the     *)
(* contract runs without a transaction, and the client takes the BCS bytes *)
(* it returns apart by hand.                                               *)
(*                                                                         *)
(* BCS writes a length in groups of 7 bits, so that one byte is enough     *)
(* below 128 (Half); the parsers always read one byte.  Their tests for    *)
(* lengths above 1000 are left out: no byte is that large.                 *)
(***************************************************************************)
EXTENDS Naturals, SequencesExt

CONSTANTS Half,       \* half the values of a byte, 128
          Word,       \* bytes of a u64, 8
          PeerWord,   \* bytes of a peer id, 4
          AddressLen, \* bytes of an address, 32
          Stores,     \* registries: sequences of networks
          Asked       \* names asked for

VARIABLES store,   \* the networks in the order of network_names
          asked,   \* the call of the command line: [fn, name]
          shown    \* what the command shows: [ok, value], or NotYet

readVars == <<store, asked, shown>>

Byte    == 2 * Half
NotYet  == [ok |-> FALSE, pending |-> TRUE]
Some(v) == [ok |-> TRUE, value |-> v]
Error   == [ok |-> FALSE]

-----------------------------------------------------------------------------
(* What the contract returns.                                              *)
Uleb(n)    == IF n < Half THEN <<n>> ELSE <<Half + (n % Half), n \div Half>>
Le(n, w)   == [i \in 1 .. w |-> (n \div (Byte ^ (i - 1))) % Byte]
Str(s)     == Uleb(Len(s)) \o s
Vec(items) == Uleb(Len(items)) \o FlattenSeq(items)
Hex(a)     == FlattenSeq([i \in DOMAIN a |-> <<a[i] \div Half, a[i] % Half>>])
Flag(b)    == IF b THEN <<1>> ELSE <<0>>

ExitNodeBytes(e) ==
    Le(e.peer_id, PeerWord) \o Vec([i \in DOMAIN e.connector_uri_list |-> Str(e.connector_uri_list[i])])
        \o Str(e.hostname) \o Flag(e.is_active) \o Le(e.registered_at, Word)

SummaryBytes(n) == Str(n.name) \o Str(Hex(n.admin)) \o Le(n.created_at, Word)
                       \o Str(n.description) \o Le(n.max_peers, Word)

Known(name) == \E i \in DOMAIN store : store[i].name = name
TheNetwork(name) == store[CHOOSE i \in DOMAIN store : store[i].name = name]

Active(n) == n.is_active
NetworksReturned == Vec([i \in DOMAIN SelectSeq(store, Active) |->
                            SummaryBytes(SelectSeq(store, Active)[i])])

InfoReturned(n) == <<Str(n.name), n.admin, Le(n.created_at, Word), Flag(n.is_active),
                     Str(n.description), Le(n.max_peers, Word), Le(Len(n.exit_nodes), Word)>>

ActiveNodes(n) == SelectSeq(n.exit_nodes, Active)
ExitNodesReturned(n) == Vec([i \in DOMAIN ActiveNodes(n) |-> ExitNodeBytes(ActiveNodes(n)[i])])

-----------------------------------------------------------------------------
(* The parsers.  A parse is at an offset, holds what it has read so far,   *)
(* and may have failed.                                                    *)
At(offset) == [offset |-> offset, out |-> <<>>, failed |-> FALSE]
Fail(p)    == [p EXCEPT !.failed = TRUE]

FromLe(bytes) == FoldRight(LAMBDA b, acc : b + Byte * acc, bytes, 0)

(* A field of w bytes                                                      *)
Fixed(data, p, w, Read(_)) ==
    IF p.failed \/ p.offset + w > Len(data) THEN Fail(p)
    ELSE [p EXCEPT !.out = Append(@, Read(SubSeq(data, p.offset + 1, p.offset + w))),
                   !.offset = @ + w]

U64(data, p) == Fixed(data, p, Word, FromLe)
Bool(data, p) == Fixed(data, p, 1, LAMBDA bytes : bytes[1] # 0)

(* Mutant: the byte of the length is not skipped.                          *)
StringUnskipped(data, p) ==
    IF p.failed \/ p.offset + 1 > Len(data) THEN Fail(p)
    ELSE Fixed(data, p, data[p.offset + 1], LAMBDA bytes : bytes)

(* A length of one byte and as many bytes of UTF-8, here: of ASCII.        *)
String(data, p) ==
    IF p.failed \/ p.offset + 1 > Len(data) THEN Fail(p)
    ELSE LET q == Fixed(data, [p EXCEPT !.offset = @ + 1], data[p.offset + 1], LAMBDA bytes : bytes)
         IN  IF ~q.failed /\ \E b \in Range(Last(q.out)) : b >= Half THEN Fail(q) ELSE q

(* The loop over the elements of a vector.                                 *)
Times(n, Step(_), p) == FoldLeft(LAMBDA q, i : Step(q), p, [i \in 1 .. n |-> i])

parse_single_network(data, offset) ==
    U64(data, String(data, U64(data, String(data, String(data, At(offset))))))

(* The list ends early, without an error, where the data ends.             *)
parse_network_data(data) ==
    LET Step(p) == IF p.failed \/ p.offset >= Len(data) THEN p
                   ELSE LET q == parse_single_network(data, p.offset)
                        IN  IF q.failed THEN Fail(p)
                            ELSE [q EXCEPT !.out = Append(p.out,
                                   [name |-> q.out[1], admin |-> q.out[2], created_at |-> q.out[3],
                                    description |-> q.out[4], max_peers |-> q.out[5]])]
    IN  Times(data[1], Step, At(1))

parse_single_exit_node(data, offset) ==
    LET peer == Fixed(data, At(offset), PeerWord, FromLe)
        uris == IF peer.failed \/ peer.offset + 1 > Len(data) THEN Fail(peer)
                ELSE Times(data[peer.offset + 1], LAMBDA p : String(data, p), At(peer.offset + 1))
        rest == U64(data, Bool(data, String(data, [uris EXCEPT !.out = <<>>])))
    IN  IF rest.failed THEN rest
        ELSE [rest EXCEPT !.out = [peer_id |-> peer.out[1], connector_uri_list |-> uris.out,
                                   hostname |-> rest.out[1], is_active |-> rest.out[2],
                                   registered_at |-> rest.out[3]]]

parse_exit_nodes_data(data) ==
    LET Step(p) == IF p.failed \/ p.offset >= Len(data) THEN Fail(p)
                   ELSE LET q == parse_single_exit_node(data, p.offset)
                        IN  IF q.failed THEN Fail(p) ELSE [q EXCEPT !.out = Append(p.out, @)]
    IN  Times(data[1], Step, At(1))

parse_network_info_tuple(values, name) ==
    LET got == <<String(values[1], At(0)), Fixed(values[2], At(0), AddressLen, Hex),
                 U64(values[3], At(0)), Bool(values[4], At(0)), String(values[5], At(0)),
                 U64(values[6], At(0)), U64(values[7], At(0))>>
    IN  IF (\E i \in 1 .. 7 : got[i].failed) \/ got[1].out[1] # name THEN Error
        ELSE Some([i \in 1 .. 7 |-> got[i].out[1]])

parse_network_secret(data) ==
    IF data[1] + 1 > Len(data) THEN Error ELSE Some(SubSeq(data, 2, data[1] + 1))

Parsed(p) == IF p.failed THEN Error ELSE Some(p.out)

-----------------------------------------------------------------------------
ReadInit == /\ store \in Stores /\ shown = NotYet
            /\ asked \in [fn : {"list", "info", "exit_nodes", "secret"}, name : Asked]

(* A view function aborts for a network it does not know; the error the    *)
(* client gets may hold the name E_NETWORK_NOT_FOUND or only its number:   *)
(* None or an empty list, or an error.                                     *)
Aborted == shown' \in {Some(<<>>), Error}

list_networks == shown' = Parsed(parse_network_data(NetworksReturned))

get_network ==
    IF Known(asked.name)
    THEN shown' = parse_network_info_tuple(InfoReturned(TheNetwork(asked.name)), asked.name)
    ELSE Aborted

get_exit_nodes ==
    IF Known(asked.name)
    THEN shown' = Parsed(parse_exit_nodes_data(ExitNodesReturned(TheNetwork(asked.name))))
    ELSE Aborted

get_network_secret ==
    IF Known(asked.name) /\ TheNetwork(asked.name).is_active
    THEN shown' = parse_network_secret(Str(TheNetwork(asked.name).secret))
    ELSE shown' = Error

(* The commands: an empty name is refused before the chain is asked.       *)
handle_network_list == asked.fn = "list" /\ list_networks
handle_network_info == asked.fn = "info" /\ IF asked.name = <<>> THEN shown' = Error ELSE get_network
handle_network_exit_nodes ==
    asked.fn = "exit_nodes" /\ IF asked.name = <<>> THEN shown' = Error ELSE get_exit_nodes
handle_network_secret ==
    asked.fn = "secret" /\ IF asked.name = <<>> THEN shown' = Error ELSE get_network_secret

ReadNext == /\ shown = NotYet /\ UNCHANGED <<store, asked>>
            /\ \/ handle_network_list \/ handle_network_info
               \/ handle_network_exit_nodes \/ handle_network_secret

-----------------------------------------------------------------------------
(* One byte is enough for every length.                                    *)
Short(n) ==
    /\ \A len \in {Len(n.name), Len(n.description), Len(n.secret), Len(Hex(n.admin)),
                    Len(n.exit_nodes)} : len < Half
    /\ \A e \in Range(n.exit_nodes) :
          /\ Len(e.hostname) < Half /\ Len(e.connector_uri_list) < Half
          /\ \A uri \in Range(e.connector_uri_list) : Len(uri) < Half

(* The client shows what the contract holds: each parser consumes exactly  *)
(* the bytes of its record, so that nothing shifts in a list of several,   *)
(* empty lists and empty strings included, and no network that exists and  *)
(* is short enough is refused or mistaken for another.                     *)
ReadsBack ==
    shown # NotYet /\ Len(store) < Half /\ (\A n \in Range(store) : Short(n)) =>
        CASE asked.fn = "list" ->
               LET live == SelectSeq(store, Active)
               IN  shown = Some([i \in DOMAIN live |->
                             [name |-> live[i].name, admin |-> Hex(live[i].admin),
                              created_at |-> live[i].created_at,
                              description |-> live[i].description, max_peers |-> live[i].max_peers]])
          [] asked.fn # "list" /\ ~Known(asked.name) -> shown \in {Error, Some(<<>>)}
          [] asked.fn = "info" /\ Known(asked.name) ->
               LET n == TheNetwork(asked.name)
               IN  shown = Some(<<n.name, Hex(n.admin), n.created_at, n.is_active, n.description,
                                  n.max_peers, Len(n.exit_nodes)>>)
          [] asked.fn = "exit_nodes" /\ Known(asked.name) ->
               shown = Some(ActiveNodes(TheNetwork(asked.name)))
          [] asked.fn = "secret" /\ Known(asked.name) ->
               shown = IF TheNetwork(asked.name).is_active THEN Some(TheNetwork(asked.name).secret)
                       ELSE Error
=============================================================================
