------------------------------ MODULE TcpProxy ------------------------------
(***************************************************************************)
(* The TCP proxy of a subnet gateway, gateway/tcp_proxy.rs, on the kernel  *)
(* network stack.  A SYN from a peer makes an entry in syn_map and is sent *)
(* to the proxy's own listener; packets of the listener to that source are *)
(* given the address of the entry's destination.  The accept loop moves    *)
(* the entry to conn_map and addr_conn_map, and a task connects to the     *)
(* destination and copies.                                                 *)
(*                                                                         *)
(* A source is an address and port of a client; it may use them again as   *)
(* soon as it has closed.  The connections of a source are numbered, and a *)
(* stream the kernel accepted is <<source, number>>.                       *)
(***************************************************************************)
EXTENDS Naturals, Sequences, FiniteSets

CONSTANTS Src, Dst,     \* sources, and destinations in the proxied subnets
          MaxEntries,   \* bound: SYNs, each makes a NatDstEntry
          NoEntry

ASSUME TcpAssumption == MaxEntries \in Nat /\ NoEntry \notin Nat /\ Dst # {}

VARIABLES entries,         \* every NatDstEntry made; its index is its id
          syn_map,         \* [Src -> an id or NoEntry]
          conn_map,        \* set of ids
          addr_conn_map,   \* [Src -> an id or NoEntry]
          acceptor,        \* locals of the accept loop
          backlog,         \* streams the kernel has established
          client,          \* [Src -> its connection]
          asserted         \* no assertion of the code has failed

tcpVars == <<entries, syn_map, conn_map, addr_conn_map, acceptor, backlog, client, asserted>>

Id == 1 .. MaxEntries
EntryState == {"SynReceived", "ConnectingDst", "Connected", "ClosingSrc", "ClosingDst", "Closed"}

(* stream is the number of the connection accepted for the entry, 0 before;*)
(* task is what the task spawned for the entry does.                       *)
NatDstEntry == [src : Src, dst : Dst, state : EntryState, stream : Nat,
                task : {"none", "connecting", "copying"}]
AcceptIdle == [pc |-> "accept", id |-> NoEntry, stream |-> <<>>]

TcpTypeOK ==
    /\ entries \in Seq(NatDstEntry) /\ Len(entries) <= MaxEntries
    /\ syn_map \in [Src -> Id \cup {NoEntry}] /\ addr_conn_map \in [Src -> Id \cup {NoEntry}]
    /\ conn_map \subseteq Id
    /\ acceptor \in {AcceptIdle} \cup [pc : {"remove", "insert"}, id : Id, stream : Src \X Nat]
    /\ backlog \in Seq(Src \X Nat)
    /\ client \in [Src -> [state : {"idle", "syn", "open"}, dst : Dst, number : Nat]]
    /\ asserted \in BOOLEAN

TcpInit ==
    /\ entries = <<>>
    /\ syn_map = [s \in Src |-> NoEntry] /\ addr_conn_map = [s \in Src |-> NoEntry]
    /\ conn_map = {}
    /\ acceptor = AcceptIdle
    /\ backlog = <<>>
    /\ client = [s \in Src |-> [state |-> "idle", dst |-> CHOOSE d \in Dst : TRUE, number |-> 0]]
    /\ asserted = TRUE

SetState(id, state) == entries' = [entries EXCEPT ![id].state = state]

Finish(id) == entries' = [entries EXCEPT ![id].state = "Closed", ![id].task = "none"]

(* A stream is closed: its client notices if it is still at it.            *)
Reset(s, number) ==
    client' = IF client[s].number = number THEN [client EXCEPT ![s].state = "idle"] ELSE client

(* try_handle_peer_packet for the SYN of a new connection or a SYN sent    *)
(* again: whatever syn_map had for the source is replaced.                 *)
Syn(s, d) ==
    /\ Len(entries) < MaxEntries
    /\ \/ /\ client[s].state = "idle"
          /\ client' = [client EXCEPT ![s] = [state |-> "syn", dst |-> d, number |-> @.number + 1]]
       \/ /\ client[s].state = "syn" /\ client[s].dst = d
          /\ UNCHANGED client
    /\ entries' = Append(entries, [src |-> s, dst |-> d, state |-> "SynReceived", stream |-> 0,
                                    task |-> "none"])
    /\ syn_map' = [syn_map EXCEPT ![s] = Len(entries')]
    /\ UNCHANGED <<conn_map, addr_conn_map, acceptor, backlog, asserted>>

(* try_process_packet_from_nic: the entry that says what a packet of the   *)
(* listener to s seems to come from.                                       *)
Translation(s) == IF addr_conn_map[s] # NoEntry THEN addr_conn_map[s] ELSE syn_map[s]

(* The SYN-ACK of the listener opens the connection if it seems to come    *)
(* from the destination the client asked for; the client's ACK passes      *)
(* try_handle_peer_packet, as there is an entry.                           *)
SynAck(s) ==
    /\ client[s].state = "syn"
    /\ Translation(s) # NoEntry
    /\ entries[Translation(s)].dst = client[s].dst
    /\ client' = [client EXCEPT ![s].state = "open"]
    /\ backlog' = Append(backlog, <<s, client[s].number>>)
    /\ UNCHANGED <<entries, syn_map, conn_map, addr_conn_map, acceptor, asserted>>

ClientClose(s) ==
    /\ client[s].state # "idle"
    /\ client' = [client EXCEPT ![s].state = "idle"]
    /\ UNCHANGED <<entries, syn_map, conn_map, addr_conn_map, acceptor, backlog, asserted>>

(* The accept loop: the entry of the source, looked up and asserted on     *)
(* under the lock of its shard; a stream without one is dropped.           *)
Accept ==
    /\ acceptor.pc = "accept" /\ backlog # <<>>
    /\ backlog' = Tail(backlog)
    /\ LET s == Head(backlog)[1]
       IN  \/ /\ syn_map[s] = NoEntry
              /\ Reset(s, Head(backlog)[2])
              /\ UNCHANGED <<acceptor, asserted>>
           \/ /\ syn_map[s] # NoEntry
              /\ asserted' = (asserted /\ entries[syn_map[s]].state = "SynReceived")
              /\ acceptor' = [pc |-> "remove", id |-> syn_map[s], stream |-> Head(backlog)]
              /\ UNCHANGED client
    /\ UNCHANGED <<entries, syn_map, conn_map, addr_conn_map>>

(* syn_map.remove_if: unless another SYN has replaced the entry.           *)
AcceptRemove ==
    LET s == entries[acceptor.id].src
    IN  /\ acceptor.pc = "remove"
        /\ acceptor' = [acceptor EXCEPT !.pc = "insert"]
        /\ syn_map' = IF syn_map[s] = acceptor.id THEN [syn_map EXCEPT ![s] = NoEntry] ELSE syn_map
        /\ UNCHANGED <<entries, conn_map, addr_conn_map, backlog, client, asserted>>

AcceptInsert ==
    LET id == acceptor.id
    IN  /\ acceptor.pc = "insert"
        /\ acceptor' = AcceptIdle
        /\ entries' = [entries EXCEPT ![id].state = "ConnectingDst",
                                      ![id].stream = acceptor.stream[2],
                                      ![id].task = "connecting"]
        /\ addr_conn_map' = [addr_conn_map EXCEPT ![entries[id].src] = id]
        /\ conn_map' = conn_map \cup {id}
        /\ asserted' = (asserted /\ id \notin conn_map)
        /\ UNCHANGED <<syn_map, backlog, client>>

(* Mutant: whatever addr_conn_map has for the source is removed.           *)
UnmappedAny(id) == [addr_conn_map EXCEPT ![entries[id].src] = NoEntry]

(* addr_conn_map.remove_if: unless a newer connection has replaced it.     *)
Unmapped(id) ==
    IF addr_conn_map[entries[id].src] = id
    THEN [addr_conn_map EXCEPT ![entries[id].src] = NoEntry] ELSE addr_conn_map

RemoveEntryFromAllConnMap(id) ==
    /\ conn_map' = conn_map \ {id}
    /\ addr_conn_map' = Unmapped(id)

(* connect_to_nat_dst of a spawned task, which fails or succeeds.          *)
ConnectToNatDst(id) ==
    /\ entries[id].task = "connecting"
    /\ \/ /\ Finish(id)
          /\ RemoveEntryFromAllConnMap(id)
          /\ Reset(entries[id].src, entries[id].stream)
          /\ UNCHANGED asserted
       \/ /\ asserted' = (asserted /\ entries[id].state = "ConnectingDst")
          /\ entries' = [entries EXCEPT ![id].state = "Connected", ![id].task = "copying"]
          /\ UNCHANGED <<conn_map, addr_conn_map, client>>
    /\ UNCHANGED <<syn_map, acceptor, backlog>>

(* handle_nat_connection: copying ends, the streams are shut down one      *)
(* after the other and dropped, ...                                        *)
CloseNatConnection(id) ==
    /\ entries[id].task = "copying"
    /\ \/ /\ entries[id].state = "Connected"
          /\ SetState(id, "ClosingSrc")
          /\ UNCHANGED client
       \/ /\ entries[id].state = "ClosingSrc"
          /\ SetState(id, "ClosingDst")
          /\ UNCHANGED client
       \/ /\ entries[id].state = "ClosingDst"
          /\ SetState(id, "Closed")
          /\ Reset(entries[id].src, entries[id].stream)
    /\ UNCHANGED <<syn_map, conn_map, addr_conn_map, acceptor, backlog, asserted>>

(* ... and the entry is removed ten seconds later.                         *)
ForgetNatConnection(id) ==
    /\ entries[id].task = "copying" /\ entries[id].state = "Closed"
    /\ Finish(id)
    /\ RemoveEntryFromAllConnMap(id)
    /\ UNCHANGED <<syn_map, acceptor, backlog, client, asserted>>

(* syn_map_cleaner_task: an entry older than 30 s is closed and removed,   *)
(* both under the lock of its shard.                                       *)
CleanSyn(s) ==
    /\ syn_map[s] # NoEntry
    /\ SetState(syn_map[s], "Closed")
    /\ syn_map' = [syn_map EXCEPT ![s] = NoEntry]
    /\ UNCHANGED <<conn_map, addr_conn_map, acceptor, backlog, client, asserted>>

TcpNext ==
    \/ Accept \/ AcceptRemove \/ AcceptInsert
    \/ \E s \in Src : SynAck(s) \/ ClientClose(s) \/ CleanSyn(s) \/ \E d \in Dst : Syn(s, d)
    \/ \E id \in DOMAIN entries : ConnectToNatDst(id) \/ CloseNatConnection(id)
                                  \/ ForgetNatConnection(id)

TcpSpec == TcpInit /\ [][TcpNext]_tcpVars

-----------------------------------------------------------------------------
(* As long as a client keeps an accepted connection open, the proxy has    *)
(* connected it to the destination it asked for, and packets to it are     *)
(* translated by its own entry, also while the entry of an earlier         *)
(* connection from the same address and port is being removed.  And no     *)
(* assertion of the accept loop and of the connecting task fails, however  *)
(* cleaner, further SYNs and closing connections interleave: an entry      *)
(* found in syn_map is SynReceived, one that is connected was              *)
(* ConnectingDst all the while, and no id enters conn_map twice.           *)
OwnTranslation ==
    /\ asserted
    /\ \A id \in conn_map :
          LET e == entries[id]
          IN  client[e.src].state = "open" /\ client[e.src].number = e.stream =>
                e.dst = client[e.src].dst /\ Translation(e.src) = id
=============================================================================
