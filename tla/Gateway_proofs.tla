--------------------------- MODULE Gateway_proofs ---------------------------
(***************************************************************************)
(* The proxies of a gateway, for TCP, UDP and ICMP (TcpProxy, UdpProxy and *)
(* IcmpProxy).                                                             *)
(*                                                                         *)
(* What the TCP proxy translates for a connection is that connection's     *)
(* own, for any number of clients and entries, although a source address   *)
(* is used again while the tasks and the maps of its last connection are   *)
(* still being cleaned up.  The argument follows an entry: received in     *)
(* syn_map, in the hands of the accept loop, served by a task and so in    *)
(* conn_map, and last in addr_conn_map, by which packets are translated.   *)
(*                                                                         *)
(* For any clients, addresses and subnets, UDP answers come from an address *)
(* that was sent to, and ICMP replies are no more than requests.           *)
(***************************************************************************)
EXTENDS TcpProxy, UdpProxy, IcmpProxy, TLAPS
(* An entry of syn_map is the one of the last SYN of its source, and       *)
(* nothing has been done with it.                                          *)
SynReceived ==
    \A s \in Src : syn_map[s] # NoEntry =>
      /\ syn_map[s] \in DOMAIN entries
      /\ entries[syn_map[s]].src = s /\ entries[syn_map[s]].dst = client[s].dst
      /\ entries[syn_map[s]].state = "SynReceived" /\ entries[syn_map[s]].task = "none"

(* The entry the accept loop has in its hands is not yet served.           *)
Accepted ==
    acceptor.pc # "accept" =>
      /\ acceptor.id \in DOMAIN entries
      /\ entries[acceptor.id].task = "none" /\ entries[acceptor.id].src = acceptor.stream[1]
      /\ acceptor.stream[2] = client[acceptor.stream[1]].number
           => entries[acceptor.id].dst = client[acceptor.stream[1]].dst
      /\ acceptor.pc = "insert" => syn_map[acceptor.stream[1]] # acceptor.id

(* conn_map has the entries with a task; the one of the connection its     *)
(* client is at leads where the client wants.                              *)
Served ==
    /\ conn_map = {id \in DOMAIN entries : entries[id].task # "none"}
    /\ \A id \in conn_map :
         /\ entries[id].task = "connecting" => entries[id].state = "ConnectingDst"
         /\ entries[id].stream = client[entries[id].src].number
              => entries[id].dst = client[entries[id].src].dst

Translated ==
    \A id \in conn_map :
      entries[id].stream = client[entries[id].src].number /\ client[entries[id].src].state = "open"
        => addr_conn_map[entries[id].src] = id

(* The streams of a source are accepted and served in the order in which   *)
(* it opened them; a stream that is not open yet is nowhere.               *)
Begun(s, n) == n <= client[s].number /\ (client[s].state = "syn" => n < client[s].number)

ServedBegun == \A id \in conn_map : Begun(entries[id].src, entries[id].stream)

AcceptedLater ==
    acceptor.pc # "accept" =>
      /\ Begun(acceptor.stream[1], acceptor.stream[2])
      /\ \A id \in conn_map : entries[id].src = acceptor.stream[1]
                                => entries[id].stream < acceptor.stream[2]

WaitingLast ==
    \A i \in DOMAIN backlog :
      /\ Begun(backlog[i][1], backlog[i][2])
      /\ \A id \in conn_map : entries[id].src = backlog[i][1] => entries[id].stream < backlog[i][2]
      /\ acceptor.pc # "accept" /\ acceptor.stream[1] = backlog[i][1]
           => acceptor.stream[2] < backlog[i][2]
      /\ \A j \in DOMAIN backlog : j < i /\ backlog[j][1] = backlog[i][1]
                                     => backlog[j][2] < backlog[i][2]

TcpInv == /\ TcpTypeOK /\ asserted = TRUE
          /\ SynReceived /\ Accepted /\ Served /\ Translated
          /\ ServedBegun /\ AcceptedLater /\ WaitingLast

-----------------------------------------------------------------------------
LEMMA TcpInitInv == TcpInit => TcpInv
<1> SUFFICES ASSUME TcpInit PROVE TcpInv
  OBVIOUS
<1> USE TcpAssumption DEF TcpInit
<1>1. (CHOOSE d \in Dst : TRUE) \in Dst
  OBVIOUS
<1>2. entries \in Seq(NatDstEntry) /\ Len(entries) = 0 /\ DOMAIN entries = {}
  OBVIOUS
<1>3. backlog \in Seq(Src \X Nat) /\ DOMAIN backlog = {}
  OBVIOUS
<1>4. client \in [Src -> [state : {"idle", "syn", "open"}, dst : Dst, number : Nat]]
  BY Zenon, <1>1
<1>5. TcpTypeOK
  BY <1>2, <1>3, <1>4 DEF TcpTypeOK, AcceptIdle
<1>6. acceptor.pc = "accept" /\ \A s \in Src : syn_map[s] = NoEntry
  BY Zenon DEF AcceptIdle
<1>7. SynReceived /\ Accepted /\ Served /\ Translated /\ ServedBegun /\ AcceptedLater /\ WaitingLast
  BY Zenon, <1>2, <1>3, <1>6 DEF SynReceived, Accepted, Served, Translated, ServedBegun, AcceptedLater,
                          WaitingLast
<1> QED BY Zenon, <1>5, <1>7 DEF TcpInv

(* What a change of one entry does to the sequence of them.                *)
LEMMA EntryChanged ==
    ASSUME NEW es \in Seq(NatDstEntry), NEW id \in DOMAIN es, NEW e \in NatDstEntry
    PROVE  LET fs == [es EXCEPT ![id] = e]
           IN  /\ fs \in Seq(NatDstEntry) /\ Len(fs) = Len(es) /\ DOMAIN fs = DOMAIN es
               /\ fs[id] = e /\ \A j \in DOMAIN es \ {id} : fs[j] = es[j]
OBVIOUS

LEMMA Appended ==
    ASSUME NEW S, NEW q \in Seq(S), NEW e \in S
    PROVE  /\ Append(q, e) \in Seq(S) /\ Len(Append(q, e)) = Len(q) + 1
           /\ DOMAIN Append(q, e) = DOMAIN q \cup {Len(q) + 1} /\ Len(q) + 1 \notin DOMAIN q
           /\ Append(q, e)[Len(q) + 1] = e /\ \A j \in DOMAIN q : Append(q, e)[j] = q[j]
OBVIOUS

LEMMA Tailed ==
    ASSUME NEW S, NEW q \in Seq(S), q # <<>>
    PROVE  /\ Tail(q) \in Seq(S) /\ Head(q) = q[1] /\ 1 \in DOMAIN q
           /\ \A i \in DOMAIN Tail(q) : i \in Nat /\ i + 1 \in DOMAIN q /\ 1 < i + 1 /\ Tail(q)[i] = q[i + 1]
OBVIOUS

LEMMA EntryType ==
    ASSUME TcpTypeOK, NEW id \in DOMAIN entries
    PROVE  /\ id \in Id /\ entries[id] \in NatDstEntry
           /\ \A st \in EntryState : [entries[id] EXCEPT !.state = st] \in NatDstEntry
           /\ \A st \in EntryState, t \in {"none", "connecting", "copying"} :
                [entries[id] EXCEPT !.state = st, !.task = t] \in NatDstEntry
           /\ \A st \in EntryState, t \in {"none", "connecting", "copying"}, n \in Nat :
                [entries[id] EXCEPT !.state = st, !.stream = n, !.task = t] \in NatDstEntry
<1>1. id \in Id /\ entries[id] \in NatDstEntry
  BY TcpAssumption DEF TcpTypeOK, Id
<1> QED BY Zenon, <1>1 DEF NatDstEntry

(* What typing says of what is looked up most.                             *)
LEMMA Looked ==
    ASSUME TcpTypeOK
    PROVE  /\ \A s \in Src : /\ client[s].number \in Nat /\ client[s].dst \in Dst
                             /\ client[s].state \in {"idle", "syn", "open"}
           /\ acceptor.pc # "accept" => acceptor.id \in Id /\ acceptor.stream \in Src \X Nat
           /\ \A i \in DOMAIN backlog : backlog[i] \in Src \X Nat
           /\ \A id \in DOMAIN entries : /\ entries[id].src \in Src /\ entries[id].dst \in Dst
                                        /\ entries[id].stream \in Nat
<1>1. \A id \in DOMAIN entries : entries[id] \in NatDstEntry
  BY DEF TcpTypeOK
<1> QED BY SMTT(60), <1>1 DEF TcpTypeOK, AcceptIdle, NatDstEntry

(* A SYN of an idle client begins its next connection, a repeated one does *)
(* not; either way there is a new entry.                                   *)
LEMMA SynStep ==
    ASSUME TcpInv, NEW s \in Src, NEW d \in Dst, Syn(s, d)
    PROVE  TcpInv'
<1> USE TcpAssumption DEF TcpInv
<1> DEFINE new == [src |-> s, dst |-> d, state |-> "SynReceived", stream |-> 0, task |-> "none"]
           last == Len(entries) + 1
<1>1. /\ UNCHANGED <<conn_map, addr_conn_map, acceptor, backlog, asserted>>
      /\ entries' = Append(entries, new) /\ syn_map' = [syn_map EXCEPT ![s] = Len(entries')]
      /\ Len(entries) < MaxEntries
  BY Zenon DEF Syn
<1>2. new \in NatDstEntry
  BY Zenon DEF NatDstEntry, EntryState
<1>3. /\ entries' \in Seq(NatDstEntry) /\ Len(entries') = last /\ last \in Id
      /\ DOMAIN entries' = DOMAIN entries \cup {last} /\ last \notin DOMAIN entries
      /\ entries'[last] = new /\ \A j \in DOMAIN entries : entries'[j] = entries[j]
  <2>1. last \in Id /\ entries \in Seq(NatDstEntry)
    BY <1>1 DEF TcpTypeOK, Id
  <2> HIDE DEF new
  <2> QED BY <1>1, <1>2, <2>1, Appended
<1>4. /\ client' \in [Src -> [state : {"idle", "syn", "open"}, dst : Dst, number : Nat]]
      /\ client'[s].dst = d /\ client'[s].state = "syn" /\ client[s].state \in {"idle", "syn"}
      /\ client[s].number <= client'[s].number
      /\ client[s].state = "syn" => client'[s] = client[s]
      /\ client[s].state = "idle" => client[s].number < client'[s].number
      /\ \A t \in Src \ {s} : client'[t] = client[t]
  <2>1. CASE client[s].state = "idle"
    <3> DEFINE begun == [state |-> "syn", dst |-> d, number |-> client[s].number + 1]
    <3>1. client' = [client EXCEPT ![s] = begun]
      BY Zenon, <2>1 DEF Syn
    <3>2. client[s].number \in Nat
      BY Zenon, Looked
    <3>3. begun \in [state : {"idle", "syn", "open"}, dst : Dst, number : Nat]
      BY <3>2
    <3>4. client'[s] = begun
      BY Zenon, <3>1 DEF TcpTypeOK
    <3>5. client[s].number < begun.number
      BY <3>2
    <3> QED BY <2>1, <3>1, <3>2, <3>3, <3>4, <3>5 DEF TcpTypeOK
  <2>2. CASE client[s].state = "syn"
    BY <2>2 DEF Syn, TcpTypeOK
  <2> QED BY Zenon, <2>1, <2>2 DEF Syn
<1> HIDE DEF new, last
<1>5. TcpTypeOK'
  <2>1. syn_map' \in [Src -> Id \cup {NoEntry}]
    BY Zenon, <1>1, <1>3 DEF TcpTypeOK
  <2>2. Len(entries') <= MaxEntries
    BY <1>3 DEF Id
  <2> QED BY Zenon, <1>1, <1>3, <1>4, <2>1, <2>2 DEF TcpTypeOK
<1>6. SynReceived'
  BY <1>1, <1>3, <1>4 DEF SynReceived, TcpTypeOK, new
<1>7. \A t \in Src, n \in Nat : Begun(t, n) => Begun(t, n)'
  <2>1. client'[s].number \in Nat
    BY Zenon, <1>4
  <2> QED BY <1>4, <2>1, Looked DEF Begun
<1>8. \A t \in Src, n \in Nat : Begun(t, n) /\ n = client'[t].number => client'[t] = client[t]
  BY <1>4, Looked DEF Begun
<1>9. acceptor.pc # "accept" => acceptor.id \in Id /\ acceptor.stream \in Src \X Nat
  BY Zenon, Looked
<1>10. Accepted'
  BY Zenon, <1>1, <1>3, <1>8, <1>9 DEF Accepted, AcceptedLater, TcpTypeOK
<1>11. \A id \in conn_map : id \in DOMAIN entries /\ entries[id].src \in Src /\ entries[id].stream \in Nat
  BY Zenon, Looked DEF Served
<1>12. Served'
  <2>1. conn_map' = {id \in DOMAIN entries' : entries'[id].task # "none"}
    BY <1>1, <1>3 DEF Served, new
  <2>2. \A id \in conn_map' :
          /\ entries'[id].task = "connecting" => entries'[id].state = "ConnectingDst"
          /\ entries'[id].stream = client'[entries'[id].src].number
               => entries'[id].dst = client'[entries'[id].src].dst
    BY <1>1, <1>3, <1>8, <1>11 DEF Served, ServedBegun
  <2> QED BY Zenon, <2>1, <2>2 DEF Served
<1>13. Translated'
  BY <1>1, <1>3, <1>8, <1>11 DEF Translated, ServedBegun
<1>14. \A i \in DOMAIN backlog : backlog[i][1] \in Src /\ backlog[i][2] \in Nat
  BY Zenon, Looked
<1>15. ServedBegun' /\ AcceptedLater' /\ WaitingLast'
  BY <1>1, <1>3, <1>7, <1>9, <1>11, <1>14 DEF ServedBegun, AcceptedLater, WaitingLast
<1> QED BY Zenon, <1>1, <1>5, <1>6, <1>10, <1>12, <1>15, <1>13

(* Steps in which nothing is accepted or begun: clients may become idle,   *)
(* entries may be closed and leave the maps.                               *)
Idles == \A s \in Src : /\ client'[s].number = client[s].number /\ client'[s].dst = client[s].dst
                        /\ client'[s].state \in {client[s].state, "idle"}

LEMMA ClosedIdles ==
    ASSUME TcpTypeOK, NEW s \in Src, client' = [client EXCEPT ![s].state = "idle"]
    PROVE  Idles /\ client' \in [Src -> [state : {"idle", "syn", "open"}, dst : Dst, number : Nat]]
BY DEF Idles, TcpTypeOK

LEMMA ResetIdles ==
    ASSUME TcpTypeOK, NEW s \in Src, NEW n, Reset(s, n)
    PROVE  Idles /\ client' \in [Src -> [state : {"idle", "syn", "open"}, dst : Dst, number : Nat]]
<1>1. CASE client[s].number = n
  <2>1. client' = [client EXCEPT ![s].state = "idle"]
    BY Zenon, <1>1 DEF Reset
  <2> QED BY Zenon, <2>1, ClosedIdles
<1>2. CASE client[s].number # n
  BY Zenon, <1>2 DEF Reset, Idles, TcpTypeOK
<1> QED BY Zenon, <1>1, <1>2

EntriesStay ==
    /\ DOMAIN entries' = DOMAIN entries
    /\ \A id \in DOMAIN entries :
         /\ entries'[id].src = entries[id].src /\ entries'[id].dst = entries[id].dst
         /\ entries'[id].stream = entries[id].stream
         /\ entries'[id].task # "none" => entries[id].task # "none"
         /\ entries'[id].task = "connecting" => entries'[id].state = "ConnectingDst"

MapsShrink ==
    /\ conn_map' = {id \in DOMAIN entries : entries'[id].task # "none"}
    /\ \A id \in conn_map' : addr_conn_map[entries[id].src] = id => addr_conn_map'[entries[id].src] = id
    /\ \A s \in Src : /\ syn_map'[s] \in {syn_map[s], NoEntry}
                      /\ syn_map'[s] # NoEntry => /\ entries'[syn_map[s]].state = "SynReceived"
                                                  /\ entries'[syn_map[s]].task = "none"

LEMMA ClosingStep ==
    ASSUME TcpInv, TcpTypeOK', Idles, EntriesStay, MapsShrink, UNCHANGED <<acceptor, backlog, asserted>>
    PROVE  TcpInv'
<1> USE TcpAssumption DEF TcpInv
<1>1. conn_map' \subseteq conn_map /\ conn_map \subseteq DOMAIN entries
  BY Zenon DEF Served, EntriesStay, MapsShrink
<1>2. \A t \in Src, n \in Nat : Begun(t, n) => Begun(t, n)'
  BY Zenon, Looked DEF Begun, Idles
<1>3. SynReceived'
  BY DEF SynReceived, Idles, EntriesStay, MapsShrink
<1>4. Accepted'
  <2> SUFFICES ASSUME acceptor.pc # "accept" PROVE Accepted'
    BY Zenon DEF Accepted
  <2>1. acceptor.stream[1] \in Src /\ acceptor.id \in DOMAIN entries /\ acceptor.id \in Nat
    BY Looked DEF Accepted, Id
  <2> QED BY <2>1 DEF Accepted, Idles, EntriesStay, MapsShrink
<1>5. Served'
  BY <1>1, Looked DEF Served, Idles, EntriesStay, MapsShrink
<1>6. Translated'
  <2> SUFFICES ASSUME NEW id \in conn_map', entries'[id].stream = client'[entries'[id].src].number,
                      client'[entries'[id].src].state = "open"
               PROVE  addr_conn_map'[entries'[id].src] = id
    BY Zenon DEF Translated
  <2>1. id \in conn_map /\ id \in DOMAIN entries /\ entries[id].src \in Src
    BY Zenon, <1>1, Looked
  <2>2. client[entries[id].src].state = "open" /\ entries[id].stream = client[entries[id].src].number
    BY <2>1 DEF Idles, EntriesStay
  <2> QED BY <2>1, <2>2 DEF Translated, EntriesStay, MapsShrink
<1>7. ServedBegun' /\ AcceptedLater'
  BY Zenon, <1>1, <1>2, Looked DEF ServedBegun, AcceptedLater, EntriesStay
<1>8. WaitingLast'
  BY <1>1, <1>2, Looked DEF WaitingLast, EntriesStay
<1> QED BY Zenon, <1>3, <1>4, <1>5, <1>6, <1>7, <1>8

(* The kernel's answer opens the connection the client is beginning.       *)
LEMMA SynAckStep ==
    ASSUME TcpInv, NEW s \in Src, SynAck(s)
    PROVE  TcpInv'
<1> USE TcpAssumption DEF TcpInv
<1> DEFINE stream == <<s, client[s].number>>
           last == Len(backlog) + 1
<1>1. /\ UNCHANGED <<entries, syn_map, conn_map, addr_conn_map, acceptor, asserted>>
      /\ client' = [client EXCEPT ![s].state = "open"] /\ backlog' = Append(backlog, stream)
      /\ client[s].state = "syn"
  BY Zenon DEF SynAck
<1>2. stream \in Src \X Nat /\ backlog \in Seq(Src \X Nat)
  BY Zenon, Looked DEF TcpTypeOK
<1>3. /\ backlog' \in Seq(Src \X Nat) /\ DOMAIN backlog' = DOMAIN backlog \cup {last}
      /\ last \notin DOMAIN backlog /\ backlog'[last] = stream
      /\ \A j \in DOMAIN backlog : backlog'[j] = backlog[j] /\ j < last
  <2> HIDE DEF stream
  <2>1. \A j \in DOMAIN backlog : j < last
    BY <1>2
  <2> QED BY <1>1, <1>2, <2>1, Appended
<1>4. /\ client' \in [Src -> [state : {"idle", "syn", "open"}, dst : Dst, number : Nat]]
      /\ \A t \in Src : client'[t].number = client[t].number /\ client'[t].dst = client[t].dst
      /\ client'[s].state = "open" /\ \A t \in Src \ {s} : client'[t] = client[t]
  BY Zenon, <1>1 DEF TcpTypeOK
<1>5. TcpTypeOK'
  BY Zenon, <1>1, <1>3, <1>4 DEF TcpTypeOK
<1>6. \A t \in Src, n \in Nat : /\ Begun(t, n) => Begun(t, n)'
                                /\ Begun(t, n) /\ t = s => n < client[s].number
  BY Zenon, <1>1, <1>4, Looked DEF Begun
<1>7. \A id \in conn_map : id \in DOMAIN entries
  BY Zenon DEF Served
<1>8. SynReceived' /\ Accepted' /\ Served'
  BY <1>1, <1>4, Looked DEF SynReceived, Accepted, Served
<1>9. Translated'
  BY <1>1, <1>4, <1>6, <1>7, Looked DEF Translated, ServedBegun
<1>10. ServedBegun' /\ AcceptedLater'
  BY Zenon, <1>1, <1>6, <1>7, Looked DEF ServedBegun, AcceptedLater
<1>11. WaitingLast'
  <2>1. Begun(s, client[s].number)'
    BY <1>4, Looked DEF Begun
  <2>2. /\ \A id \in conn_map : entries[id].src = s => entries[id].stream < client[s].number
        /\ acceptor.pc # "accept" /\ acceptor.stream[1] = s => acceptor.stream[2] < client[s].number
        /\ \A j \in DOMAIN backlog : backlog[j][1] = s => backlog[j][2] < client[s].number
    BY Zenon, <1>6, <1>7, Looked DEF ServedBegun, AcceptedLater, WaitingLast
  <2>3. ASSUME NEW i \in DOMAIN backlog
        PROVE  /\ Begun(backlog[i][1], backlog[i][2])'
               /\ \A j \in DOMAIN backlog' : j < i => j \in DOMAIN backlog
    <3>1. PICK t \in Src, n \in Nat : backlog[i] = <<t, n>>
      BY Looked
    <3>2. Begun(t, n)'
      BY <1>6, <3>1 DEF WaitingLast
    <3>3. backlog'[i][1] = t /\ backlog'[i][2] = n
      BY <1>3, <3>1
    <3>4. i \in Nat /\ last \in Nat /\ i < last
      BY <1>2, <1>3
    <3>5. \A j \in DOMAIN backlog' : j < i => j \in DOMAIN backlog
      BY <1>3, <3>4
    <3> QED BY Zenon, <3>2, <3>3, <3>5 DEF Begun
  <2> QED BY SMTT(60), <1>1, <1>3, <2>1, <2>2, <2>3 DEF WaitingLast
<1> QED BY Zenon, <1>1, <1>5, <1>8, <1>9, <1>10, <1>11

(* The accept loop takes the oldest stream; without an entry it is reset.  *)
LEMMA AcceptStep ==
    ASSUME TcpInv, Accept
    PROVE  TcpInv'
<1> USE TcpAssumption DEF TcpInv
<1>1. /\ UNCHANGED <<entries, syn_map, conn_map, addr_conn_map>>
      /\ acceptor.pc = "accept" /\ backlog # <<>> /\ backlog' = Tail(backlog)
  BY Zenon DEF Accept
<1>2. backlog \in Seq(Src \X Nat)
  BY Zenon DEF TcpTypeOK
<1>3. PICK s \in Src, n \in Nat : Head(backlog) = <<s, n>> /\ backlog[1] = <<s, n>>
  <2>1. backlog[1] \in Src \X Nat /\ Head(backlog) = backlog[1]
    BY Zenon, <1>1, <1>2, Looked, Tailed
  <2>2. \A x \in Src \X Nat : x[1] \in Src /\ x[2] \in Nat /\ x = <<x[1], x[2]>>
    OBVIOUS
  <2> QED BY <2>1, <2>2
<1>4. /\ backlog' \in Seq(Src \X Nat) /\ 1 \in DOMAIN backlog
      /\ \A i \in DOMAIN backlog' : /\ i \in Nat /\ i + 1 \in DOMAIN backlog /\ 1 < i + 1
                                    /\ backlog'[i] = backlog[i + 1]
  BY Zenon, <1>1, <1>2, Tailed
<1>5. /\ Begun(s, n) /\ \A id \in conn_map : entries[id].src = s => entries[id].stream < n
      /\ \A i \in DOMAIN backlog' : backlog'[i][1] = s => n < backlog'[i][2]
  BY <1>3, <1>4 DEF WaitingLast
<1>6. ASSUME NEW i \in DOMAIN backlog'
      PROVE  /\ Begun(backlog'[i][1], backlog'[i][2]) /\ backlog'[i] \in Src \X Nat
             /\ \A id \in conn_map : entries[id].src = backlog'[i][1] => entries[id].stream < backlog'[i][2]
             /\ \A j \in DOMAIN backlog' : j < i /\ backlog'[j][1] = backlog'[i][1]
                                            => backlog'[j][2] < backlog'[i][2]
  <2>1. i + 1 \in DOMAIN backlog /\ backlog'[i] = backlog[i + 1] /\ i \in Nat
    BY Zenon, <1>4
  <2>2. \A j \in DOMAIN backlog' : j + 1 \in DOMAIN backlog /\ backlog'[j] = backlog[j + 1] /\ j \in Nat
    BY Zenon, <1>4
  <2>3. \A j \in DOMAIN backlog' : j < i => j + 1 < i + 1
    BY <2>1, <2>2
  <2> QED BY <2>1, <2>2, <2>3, Looked DEF WaitingLast
<1>7. Head(backlog)[1] = s /\ Head(backlog)[2] = n
  BY <1>3
<1>8. CASE syn_map[s] = NoEntry
  <2>1. Reset(s, n) /\ UNCHANGED <<acceptor, asserted>>
    BY Zenon, <1>8, <1>7 DEF Accept
  <2>2. Idles /\ client' \in [Src -> [state : {"idle", "syn", "open"}, dst : Dst, number : Nat]]
    BY Zenon, <2>1, ResetIdles
  <2>3. TcpTypeOK'
    BY Zenon, <1>1, <1>4, <2>1, <2>2 DEF TcpTypeOK
  <2>4. \A t \in Src, m \in Nat : m \in Nat /\ Begun(t, m) => Begun(t, m)'
    BY Zenon, <2>2, Looked DEF Begun, Idles
  <2>5. SynReceived' /\ Accepted' /\ Served'
    BY SMTT(60), <1>1, <2>1, <2>2, Looked DEF SynReceived, Accepted, Served, Idles
  <2>6. Translated' /\ ServedBegun' /\ AcceptedLater'
    BY <1>1, <2>1, <2>2, <2>4, Looked DEF Translated, ServedBegun, AcceptedLater, Served, Idles
  <2>7. WaitingLast'
    BY Zenon, <1>1, <1>6, <2>1, <2>4 DEF WaitingLast, Begun
  <2> QED BY Zenon, <2>1, <2>3, <2>5, <2>6, <2>7
<1>9. CASE syn_map[s] # NoEntry
  <2>1. /\ asserted' = (asserted /\ entries[syn_map[s]].state = "SynReceived") /\ UNCHANGED client
        /\ acceptor' = [pc |-> "remove", id |-> syn_map[s], stream |-> <<s, n>>]
    BY Zenon, <1>3, <1>9, <1>7 DEF Accept
  <2>2. syn_map[s] \in Id
    BY Zenon, <1>9 DEF TcpTypeOK
  <2>3. asserted' = TRUE
    BY Zenon, <1>9, <2>1 DEF SynReceived
  <2>4. TcpTypeOK'
    BY Zenon, <1>1, <1>4, <2>1, <2>2, <2>3 DEF TcpTypeOK
  <2>5. SynReceived' /\ Served' /\ Translated' /\ ServedBegun'
    BY Zenon, <1>1, <2>1 DEF SynReceived, Served, Translated, ServedBegun, Begun
  <2>6. Accepted'
    BY Zenon, <1>1, <1>9, <2>1 DEF Accepted, SynReceived
  <2>7. AcceptedLater'
    BY Zenon, <1>1, <1>5, <2>1 DEF AcceptedLater, Begun
  <2>8. WaitingLast'
    BY Zenon, <1>1, <1>5, <1>6, <2>1 DEF WaitingLast, Begun
  <2> QED BY Zenon, <2>3, <2>4, <2>5, <2>6, <2>7, <2>8
<1> QED BY Zenon, <1>8, <1>9

LEMMA AcceptRemoveStep ==
    ASSUME TcpInv, AcceptRemove
    PROVE  TcpInv'
<1> USE TcpAssumption DEF TcpInv
<1>1. /\ UNCHANGED <<entries, conn_map, addr_conn_map, backlog, client, asserted>>
      /\ acceptor.pc = "remove"
  BY Zenon DEF AcceptRemove
<1>2. PICK s \in Src, n \in Nat, id \in Id : acceptor = [pc |-> "remove", id |-> id, stream |-> <<s, n>>]
  BY <1>1 DEF TcpTypeOK, AcceptIdle
<1>3. /\ id \in DOMAIN entries /\ entries[id].src = s
      /\ acceptor' = [pc |-> "insert", id |-> id, stream |-> <<s, n>>]
      /\ syn_map' = IF syn_map[s] = id THEN [syn_map EXCEPT ![s] = NoEntry] ELSE syn_map
  BY Zenon, <1>1, <1>2 DEF AcceptRemove, Accepted
<1>4. /\ syn_map' \in [Src -> Id \cup {NoEntry}] /\ syn_map'[s] # id
      /\ \A t \in Src : syn_map'[t] \in {syn_map[t], NoEntry}
  BY <1>3 DEF TcpTypeOK, Id
<1>5. TcpTypeOK'
  BY Zenon, <1>1, <1>3, <1>4 DEF TcpTypeOK
<1>6. SynReceived'
  BY <1>1, <1>4 DEF SynReceived
<1>7. Accepted'
  BY Zenon, <1>1, <1>2, <1>3, <1>4 DEF Accepted
<1>8. Served' /\ Translated' /\ ServedBegun'
  BY Zenon, <1>1 DEF Served, Translated, ServedBegun, Begun
<1>9. AcceptedLater' /\ WaitingLast'
  BY Zenon, <1>1, <1>2, <1>3 DEF AcceptedLater, WaitingLast, Begun
<1> QED BY Zenon, <1>1, <1>5, <1>6, <1>7, <1>8, <1>9

(* The stream gets its entry: it is the newest of its source.              *)
LEMMA AcceptInsertStep ==
    ASSUME TcpInv, AcceptInsert
    PROVE  TcpInv'
<1> USE TcpAssumption DEF TcpInv
<1>1. UNCHANGED <<syn_map, backlog, client>> /\ acceptor.pc = "insert"
  BY Zenon DEF AcceptInsert
<1>2. PICK s \in Src, n \in Nat, id \in Id : acceptor = [pc |-> "insert", id |-> id, stream |-> <<s, n>>]
  BY <1>1 DEF TcpTypeOK, AcceptIdle
<1>3. /\ id \in DOMAIN entries /\ entries[id].src = s /\ entries[id].task = "none" /\ syn_map[s] # id
      /\ n = client[s].number => entries[id].dst = client[s].dst
  BY Zenon, <1>2 DEF Accepted
<1>4. id \notin conn_map /\ \A j \in conn_map : j \in DOMAIN entries
  BY Zenon, <1>3 DEF Served
<1> DEFINE e == [entries[id] EXCEPT !.state = "ConnectingDst", !.stream = n, !.task = "connecting"]
<1>5. /\ acceptor' = AcceptIdle /\ entries' = [entries EXCEPT ![id] = e]
      /\ addr_conn_map' = [addr_conn_map EXCEPT ![s] = id] /\ conn_map' = conn_map \cup {id}
  BY Zenon, <1>2, <1>3 DEF AcceptInsert
<1>6. asserted' = TRUE
  <2>1. asserted' = (asserted /\ id \notin conn_map)
    BY Zenon, <1>2 DEF AcceptInsert
  <2> QED BY Zenon, <1>4, <2>1
<1>7. /\ e \in NatDstEntry /\ e.src = s /\ e.dst = entries[id].dst /\ e.stream = n
      /\ e.state = "ConnectingDst" /\ e.task = "connecting"
  <2>1. entries[id] \in NatDstEntry
    BY Zenon, <1>3, EntryType
  <2> QED BY Zenon, <1>3, <2>1 DEF EntryState, NatDstEntry
<1> HIDE DEF e
<1>8. /\ entries' \in Seq(NatDstEntry) /\ Len(entries') = Len(entries) /\ DOMAIN entries' = DOMAIN entries
      /\ entries'[id] = e /\ \A j \in DOMAIN entries \ {id} : entries'[j] = entries[j]
  BY Zenon, <1>3, <1>5, <1>7, EntryChanged DEF TcpTypeOK
<1>9. TcpTypeOK'
  BY Zenon, <1>1, <1>5, <1>6, <1>8 DEF TcpTypeOK
<1>10. acceptor'.pc = "accept"
  BY Zenon, <1>5 DEF AcceptIdle
<1>11. SynReceived'
  BY <1>1, <1>3, <1>8 DEF SynReceived
<1>12. Accepted' /\ AcceptedLater'
  BY Zenon, <1>10 DEF Accepted, AcceptedLater
<1>13. Served'
  <2>1. conn_map' = {j \in DOMAIN entries' : entries'[j].task # "none"}
    BY Zenon, <1>3, <1>5, <1>7, <1>8 DEF Served
  <2>2. \A j \in conn_map' :
          /\ entries'[j].task = "connecting" => entries'[j].state = "ConnectingDst"
          /\ entries'[j].stream = client'[entries'[j].src].number
               => entries'[j].dst = client'[entries'[j].src].dst
    BY <1>1, <1>3, <1>4, <1>5, <1>7, <1>8 DEF Served
  <2> QED BY Zenon, <2>1, <2>2 DEF Served
<1>14. Begun(s, n) /\ \A j \in conn_map : entries[j].src = s => entries[j].stream < n
  BY Zenon, <1>2 DEF AcceptedLater
<1>15. Translated'
  <2> SUFFICES ASSUME NEW j \in conn_map', entries'[j].stream = client[entries'[j].src].number,
                      client[entries'[j].src].state = "open"
               PROVE  addr_conn_map'[entries'[j].src] = j
    BY Zenon, <1>1 DEF Translated
  <2>1. CASE j = id
    BY Zenon, <1>5, <1>7, <1>8, <2>1 DEF TcpTypeOK
  <2>2. CASE j # id
    <3>1. j \in conn_map /\ entries'[j] = entries[j] /\ entries[j].src \in Src /\ entries[j].stream \in Nat
      BY Zenon, <1>4, <1>5, <1>8, <2>2, Looked
    <3>2. addr_conn_map[entries[j].src] = j
      BY Zenon, <3>1 DEF Translated
    <3>3. entries[j].src # s
      BY <1>14, <3>1, Looked DEF Begun
    <3> QED BY Zenon, <1>5, <3>1, <3>2, <3>3 DEF TcpTypeOK
  <2> QED BY Zenon, <2>1, <2>2
<1>16. ServedBegun'
  BY Zenon, <1>1, <1>4, <1>5, <1>7, <1>8, <1>14 DEF ServedBegun, Begun
<1>17. WaitingLast'
  <2>1. \A i \in DOMAIN backlog : backlog[i][1] = s => n < backlog[i][2]
    BY Zenon, <1>2 DEF WaitingLast
  <2> QED BY <1>1, <1>4, <1>5, <1>7, <1>8, <1>10, <2>1 DEF WaitingLast, Begun
<1> QED BY Zenon, <1>6, <1>9, <1>11, <1>12, <1>13, <1>15, <1>16, <1>17

(* The entry of a served connection changes, or leaves the maps.           *)
LEMMA EntryStep ==
    ASSUME TcpInv, NEW id \in DOMAIN entries, entries[id].task # "none",
           NEW e \in NatDstEntry, entries' = [entries EXCEPT ![id] = e],
           e.src = entries[id].src, e.dst = entries[id].dst, e.stream = entries[id].stream,
           e.task # "connecting",
           IF e.task = "none" THEN RemoveEntryFromAllConnMap(id) ELSE UNCHANGED <<conn_map, addr_conn_map>>,
           Idles, client' \in [Src -> [state : {"idle", "syn", "open"}, dst : Dst, number : Nat]],
           UNCHANGED <<syn_map, acceptor, backlog>>, asserted' = TRUE
    PROVE  TcpInv'
<1> USE TcpAssumption DEF TcpInv
<1>1. /\ entries' \in Seq(NatDstEntry) /\ Len(entries') = Len(entries) /\ DOMAIN entries' = DOMAIN entries
      /\ entries'[id] = e /\ \A j \in DOMAIN entries \ {id} : entries'[j] = entries[j]
  BY EntryChanged DEF TcpTypeOK
<1>2. entries[id].src \in Src /\ id \in Id
  BY Zenon, EntryType, Looked
<1>3. /\ conn_map' = {j \in DOMAIN entries : entries'[j].task # "none"} /\ conn_map' \subseteq Id
      /\ addr_conn_map' \in [Src -> Id \cup {NoEntry}]
      /\ \A j \in conn_map' : addr_conn_map[entries[j].src] = j => addr_conn_map'[entries[j].src] = j
  <2>1. CASE e.task = "none"
    <3>1. conn_map' = conn_map \ {id} /\ addr_conn_map' = Unmapped(id)
      BY Zenon, <2>1 DEF RemoveEntryFromAllConnMap
    <3>2. conn_map' = {j \in DOMAIN entries : entries'[j].task # "none"}
      BY Zenon, <1>1, <2>1, <3>1 DEF Served
    <3>3. addr_conn_map' \in [Src -> Id \cup {NoEntry}]
          /\ \A t \in Src : addr_conn_map'[t] = addr_conn_map[t] \/ addr_conn_map[t] = id
      BY Zenon, <1>2, <3>1 DEF Unmapped, TcpTypeOK
    <3> QED BY SMTT(60), <3>1, <3>2, <3>3, Looked DEF Served, TcpTypeOK
  <2>2. CASE e.task # "none"
    BY <1>1, <2>2 DEF Served, TcpTypeOK
  <2> QED BY Zenon, <2>1, <2>2
<1>4. TcpTypeOK'
  BY Zenon, <1>1, <1>3 DEF TcpTypeOK
<1>5. EntriesStay
  BY Zenon, <1>1, Looked DEF EntriesStay, Served
<1>6. MapsShrink
  BY <1>1, <1>3 DEF MapsShrink, SynReceived
<1> QED BY Zenon, <1>4, <1>5, <1>6, ClosingStep

LEMMA Stays == TcpTypeOK /\ UNCHANGED client =>
                 Idles /\ client' \in [Src -> [state : {"idle", "syn", "open"}, dst : Dst, number : Nat]]
BY Zenon DEF Idles, TcpTypeOK

LEMMA FinishStep ==
    ASSUME TcpInv, NEW id \in DOMAIN entries, entries[id].task # "none",
           Finish(id), RemoveEntryFromAllConnMap(id),
           Idles, client' \in [Src -> [state : {"idle", "syn", "open"}, dst : Dst, number : Nat]],
           UNCHANGED <<syn_map, acceptor, backlog>>, asserted' = TRUE
    PROVE  TcpInv'
<1> DEFINE e == [entries[id] EXCEPT !.state = "Closed", !.task = "none"]
<1>1. entries[id] \in NatDstEntry
  BY Zenon, EntryType DEF TcpInv
<1>2. /\ e \in NatDstEntry /\ entries' = [entries EXCEPT ![id] = e] /\ e.task = "none"
      /\ e.src = entries[id].src /\ e.dst = entries[id].dst /\ e.stream = entries[id].stream
  BY Zenon, <1>1 DEF NatDstEntry, EntryState, Finish
<1> HIDE DEF e
<1> QED BY Zenon, <1>2, EntryStep

LEMMA ConnectStep ==
    ASSUME TcpInv, NEW id \in DOMAIN entries, ConnectToNatDst(id)
    PROVE  TcpInv'
<1> USE DEF TcpInv
<1>1. /\ entries[id] \in NatDstEntry /\ entries[id].src \in Src
      /\ entries[id].task = "connecting" /\ id \in conn_map
  BY Zenon, EntryType, Looked DEF ConnectToNatDst, Served
<1>2. UNCHANGED <<syn_map, acceptor, backlog>>
  BY Zenon DEF ConnectToNatDst
<1>3. ASSUME Finish(id), RemoveEntryFromAllConnMap(id), Reset(entries[id].src, entries[id].stream),
             UNCHANGED asserted
      PROVE  TcpInv'
  BY Zenon, <1>1, <1>2, <1>3, FinishStep, ResetIdles
<1>4. ASSUME asserted' = (asserted /\ entries[id].state = "ConnectingDst"),
             entries' = [entries EXCEPT ![id].state = "Connected", ![id].task = "copying"],
             UNCHANGED <<conn_map, addr_conn_map, client>>
      PROVE  TcpInv'
  <2> DEFINE e == [entries[id] EXCEPT !.state = "Connected", !.task = "copying"]
  <2>1. /\ e \in NatDstEntry /\ entries' = [entries EXCEPT ![id] = e] /\ e.task = "copying"
        /\ e.src = entries[id].src /\ e.dst = entries[id].dst /\ e.stream = entries[id].stream
    BY Zenon, <1>1, <1>4 DEF NatDstEntry, EntryState
  <2>2. asserted' = TRUE
    BY Zenon, <1>1, <1>4 DEF Served
  <2> HIDE DEF e
  <2> QED BY Zenon, <1>1, <1>2, <1>4, <2>1, <2>2, EntryStep, Stays
<1> QED BY Zenon, <1>3, <1>4 DEF ConnectToNatDst

LEMMA CloseStep ==
    ASSUME TcpInv, NEW id \in DOMAIN entries, CloseNatConnection(id)
    PROVE  TcpInv'
<1> USE DEF TcpInv
<1>1. /\ entries[id] \in NatDstEntry /\ entries[id].src \in Src
      /\ entries[id].task = "copying"
  BY Zenon, EntryType, Looked DEF CloseNatConnection
<1>2. UNCHANGED <<syn_map, conn_map, addr_conn_map, acceptor, backlog, asserted>>
  BY Zenon DEF CloseNatConnection
<1>3. ASSUME NEW st \in EntryState, SetState(id, st), Idles,
             client' \in [Src -> [state : {"idle", "syn", "open"}, dst : Dst, number : Nat]]
      PROVE  TcpInv'
  <2> DEFINE e == [entries[id] EXCEPT !.state = st]
  <2>1. /\ e \in NatDstEntry /\ entries' = [entries EXCEPT ![id] = e] /\ e.task = "copying"
        /\ e.src = entries[id].src /\ e.dst = entries[id].dst /\ e.stream = entries[id].stream
    BY Zenon, <1>1, <1>3 DEF NatDstEntry, EntryState, SetState
  <2> HIDE DEF e
  <2> QED BY Zenon, <1>1, <1>2, <1>3, <2>1, EntryStep
<1>4. \/ SetState(id, "ClosingSrc") /\ UNCHANGED client
      \/ SetState(id, "ClosingDst") /\ UNCHANGED client
      \/ SetState(id, "Closed") /\ Reset(entries[id].src, entries[id].stream)
  BY Zenon DEF CloseNatConnection
<1>5. {"ClosingSrc", "ClosingDst", "Closed"} \subseteq EntryState
  BY Zenon DEF EntryState
<1> QED BY Zenon, <1>1, <1>3, <1>4, <1>5, ResetIdles, Stays

LEMMA ForgetStep ==
    ASSUME TcpInv, NEW id \in DOMAIN entries, ForgetNatConnection(id)
    PROVE  TcpInv'
<1>1. /\ entries[id].task # "none" /\ Finish(id) /\ RemoveEntryFromAllConnMap(id)
      /\ UNCHANGED <<syn_map, acceptor, backlog, client, asserted>>
  BY Zenon DEF ForgetNatConnection
<1>2. asserted' = TRUE
  BY Zenon, <1>1 DEF TcpInv
<1> QED BY Zenon, <1>1, <1>2, FinishStep, Stays DEF TcpInv

LEMMA CleanSynStep ==
    ASSUME TcpInv, NEW s \in Src, CleanSyn(s)
    PROVE  TcpInv'
<1> USE TcpAssumption DEF TcpInv
<1>1. /\ UNCHANGED <<conn_map, addr_conn_map, acceptor, backlog, client, asserted>>
      /\ syn_map[s] # NoEntry /\ syn_map' = [syn_map EXCEPT ![s] = NoEntry]
  BY Zenon DEF CleanSyn
<1> DEFINE id == syn_map[s]
           e == [entries[id] EXCEPT !.state = "Closed"]
<1>2. /\ id \in DOMAIN entries /\ entries[id].task = "none"
      /\ \A t \in Src \ {s} : syn_map[t] # id
  BY <1>1 DEF SynReceived
<1>3. /\ id \in DOMAIN entries /\ entries[id] \in NatDstEntry /\ entries[id].task = "none"
      /\ \A t \in Src \ {s} : syn_map[t] # id
  BY Zenon, <1>2, EntryType
<1>4. /\ e \in NatDstEntry /\ entries' = [entries EXCEPT ![id] = e] /\ e.task = "none"
      /\ e.src = entries[id].src /\ e.dst = entries[id].dst /\ e.stream = entries[id].stream
  BY Zenon, <1>3 DEF NatDstEntry, EntryState, CleanSyn, SetState
<1> HIDE DEF e
<1>5. /\ entries' \in Seq(NatDstEntry) /\ Len(entries') = Len(entries) /\ DOMAIN entries' = DOMAIN entries
      /\ entries'[id] = e /\ \A j \in DOMAIN entries \ {id} : entries'[j] = entries[j]
  BY Zenon, <1>3, <1>4, EntryChanged DEF TcpTypeOK
<1>6. syn_map' \in [Src -> Id \cup {NoEntry}] /\ syn_map'[s] = NoEntry
      /\ \A t \in Src \ {s} : syn_map'[t] = syn_map[t]
  BY Zenon, <1>1 DEF TcpTypeOK
<1>7. TcpTypeOK'
  BY Zenon, <1>1, <1>5, <1>6 DEF TcpTypeOK
<1>8. EntriesStay
  BY Zenon, <1>3, <1>4, <1>5 DEF EntriesStay, Served
<1>9. conn_map' = {j \in DOMAIN entries : entries'[j].task # "none"}
  BY Zenon, <1>1, <1>3, <1>4, <1>5 DEF Served
<1>10. MapsShrink
  BY <1>1, <1>3, <1>5, <1>6, <1>9 DEF MapsShrink, SynReceived
<1> QED BY Zenon, <1>1, <1>7, <1>8, <1>10, Stays, ClosingStep

LEMMA ClientCloseStep ==
    ASSUME TcpInv, NEW s \in Src, ClientClose(s)
    PROVE  TcpInv'
<1> USE DEF TcpInv
<1>1. /\ UNCHANGED <<entries, syn_map, conn_map, addr_conn_map, acceptor, backlog, asserted>>
      /\ client' = [client EXCEPT ![s].state = "idle"]
  BY Zenon DEF ClientClose
<1>2. Idles /\ client' \in [Src -> [state : {"idle", "syn", "open"}, dst : Dst, number : Nat]]
  BY Zenon, <1>1, ClosedIdles
<1>3. TcpTypeOK'
  BY Zenon, <1>1, <1>2 DEF TcpTypeOK
<1>4. EntriesStay
  BY Zenon, <1>1 DEF EntriesStay, Served
<1>5. MapsShrink
  BY Zenon, <1>1 DEF MapsShrink, Served, SynReceived
<1> QED BY Zenon, <1>1, <1>2, <1>3, <1>4, <1>5, ClosingStep

-----------------------------------------------------------------------------
LEMMA TcpInvStep == TcpInv /\ [TcpNext]_tcpVars => TcpInv'
<1> SUFFICES ASSUME TcpInv, [TcpNext]_tcpVars PROVE TcpInv'
  BY Zenon
<1>1. CASE UNCHANGED tcpVars
  <2>1. UNCHANGED <<entries, syn_map, conn_map, addr_conn_map, acceptor, backlog, client, asserted>>
    BY Zenon, <1>1 DEF tcpVars
  <2>2. TcpTypeOK' /\ asserted' = TRUE /\ SynReceived' /\ Accepted'
    BY Zenon, <2>1 DEF TcpInv, TcpTypeOK, SynReceived, Accepted
  <2>3. Served' /\ Translated'
    BY Zenon, <2>1 DEF TcpInv, Served, Translated
  <2>4. ServedBegun' /\ AcceptedLater' /\ WaitingLast'
    BY Zenon, <2>1 DEF TcpInv, ServedBegun, AcceptedLater, WaitingLast, Begun
  <2> QED BY Zenon, <2>2, <2>3, <2>4 DEF TcpInv
<1> QED BY Zenon, <1>1, AcceptStep, AcceptRemoveStep, AcceptInsertStep, SynStep, SynAckStep, ClientCloseStep,
           CleanSynStep, ConnectStep, CloseStep, ForgetStep DEF TcpNext

(* However SYNs, closing connections, the cleaner and the accept loop      *)
(* interleave over the maps of TcpProxy, its assertions hold, and packets  *)
(* of an open connection are translated by that connection's own entry.    *)
THEOREM AlwaysOwnTranslation == TcpSpec => []OwnTranslation
<1>1. TcpInv => OwnTranslation
  <2> SUFFICES ASSUME TcpInv, NEW id \in conn_map, client[entries[id].src].state = "open",
                      client[entries[id].src].number = entries[id].stream
               PROVE  entries[id].dst = client[entries[id].src].dst /\ Translation(entries[id].src) = id
    BY Zenon DEF OwnTranslation, TcpInv
  <2>1. addr_conn_map[entries[id].src] = id
    BY Zenon DEF TcpInv, Translated
  <2>2. conn_map \subseteq Id
    BY Zenon DEF TcpInv, TcpTypeOK
  <2>3. id # NoEntry
    BY <2>2, TcpAssumption DEF Id
  <2> QED BY Zenon, <2>1, <2>3 DEF TcpInv, Served, Translation
<1> QED BY <1>1, TcpInitInv, TcpInvStep, PTL DEF TcpSpec

-----------------------------------------------------------------------------
(***************************************************************************)
(* UdpProxy and IcmpProxy, with the subnets they share (CidrSet).          *)
(***************************************************************************)
(* The table from mapped to real subnets says what the configuration says. *)
CidrInv ==
    /\ conf \in Configs /\ updater.last \in {<<>>, conf}
    /\ updater = [pc |-> updater.pc, last |-> updater.last, next |-> updater.next]
    /\ updater.next \in Nat \ {0}
    /\ updater.pc = "insert" => updater.next \in DOMAIN updater.last
    /\ \A m \in mapped_to_real : \E i \in DOMAIN conf : m = <<conf[i].mapped, conf[i].cidr>>

LEMMA CidrInvInit == CidrInit => CidrInv
BY DEF CidrInit, CidrInv

LEMMA CidrInvStep == ASSUME CidrInv, CidrNext PROVE CidrInv' /\ conf' = conf
<1>1. /\ conf \in Configs /\ updater.last \in {<<>>, conf}
      /\ updater = [pc |-> updater.pc, last |-> updater.last, next |-> updater.next]
      /\ updater.next \in Nat \ {0}
  BY Zenon DEF CidrInv
<1>2. CASE NoticeChange
  BY <1>2 DEF NoticeChange, CidrInv
<1>3. CASE ClearCidrs
  BY Zenon, <1>1, <1>3 DEF ClearCidrs, CidrInv
<1>4. CASE PushCidr
  <2>1. Len(updater.last) \in Nat /\ DOMAIN updater.last = 1 .. Len(updater.last)
    BY <1>1, ConfigsAssumption
  <2>2. UNCHANGED <<conf, mapped_to_real>> /\ updater' \in {[updater EXCEPT !.pc = "sleep"], [updater EXCEPT !.pc = "insert"]}
        /\ (updater.next > Len(updater.last) => updater' = [updater EXCEPT !.pc = "sleep"])
    BY Zenon, <1>4 DEF PushCidr
  <2>3. updater.next > Len(updater.last) \/ updater.next \in DOMAIN updater.last
    BY <1>1, <2>1
  <2>4. /\ updater'.last = updater.last /\ updater'.next = updater.next /\ updater'.pc \in {"sleep", "insert"}
        /\ updater' = [pc |-> updater'.pc, last |-> updater'.last, next |-> updater'.next]
    BY Zenon, <1>1, <2>2
  <2>5. updater.next > Len(updater.last) => updater'.pc = "sleep"
    BY Zenon, <1>1, <2>2
  <2>6. updater'.pc = "insert" => updater'.next \in DOMAIN updater'.last
    <3>1. "sleep" # "insert" 
      OBVIOUS
    <3> QED BY Zenon, <3>1, <2>3, <2>4, <2>5
  <2> QED BY Zenon, <1>1, <2>2, <2>4, <2>6 DEF CidrInv
<1>5. CASE InsertMapping
  <2> DEFINE c == updater.last[updater.next]
  <2>1. /\ updater.next \in DOMAIN updater.last /\ conf' = conf
        /\ mapped_to_real' \subseteq mapped_to_real \cup {<<c.mapped, c.cidr>>}
        /\ updater' = [updater EXCEPT !.pc = "push", !.next = updater.next + 1]
    BY Zenon, <1>5 DEF InsertMapping, CidrInv
  <2>2. updater.last = conf
    BY <1>1, <2>1
  <2>3. PICK n \in Nat \ {0} : n = updater.next + 1
    BY <1>1
  <2>4. updater' = [pc |-> "push", last |-> updater.last, next |-> n]
    BY Zenon, <1>1, <2>1, <2>3
  <2>5. updater'.last = updater.last /\ updater'.next = n /\ updater'.pc = "push" /\ "push" # "insert"
    BY Zenon, <2>4
  <2>6. \A m \in mapped_to_real' : \E i \in DOMAIN conf : m = <<conf[i].mapped, conf[i].cidr>>
    BY Zenon, <2>1, <2>2 DEF CidrInv
  <2> QED BY Zenon, <1>1, <2>1, <2>3, <2>4, <2>5, <2>6 DEF CidrInv
<1> QED BY Zenon, <1>2, <1>3, <1>4, <1>5 DEF CidrNext

(* An address is left as it is, or made the one that is configured.        *)
LEMMA RealOrSame ==
  ASSUME CidrInv, NEW a
  PROVE  RealIp(a) \in {a, Configured(a, conf)}
<1>1. CASE InCidrs(a) /\ \E m \in mapped_to_real : m[1] = a[1]
  <2> DEFINE n == CHOOSE m \in mapped_to_real : m[1] = a[1]
  <2>1. RealIp(a) = <<n[2], a[2]>> /\ n \in mapped_to_real /\ n[1] = a[1]
    BY Zenon, <1>1 DEF RealIp
  <2>2. PICK i \in DOMAIN conf : n = <<conf[i].mapped, conf[i].cidr>>
    BY Zenon, <2>1 DEF CidrInv
  <2> HIDE DEF n
  <2>3. conf[i].mapped = a[1] /\ RealIp(a) = <<conf[i].cidr, a[2]>>
    BY Zenon, <2>1, <2>2
  <2> DEFINE j == CHOOSE k \in DOMAIN conf : conf[k].mapped = a[1]
  <2>4. j \in DOMAIN conf /\ conf[j].mapped = a[1] /\ Configured(a, conf) = <<conf[j].cidr, a[2]>>
    BY Zenon, <2>3 DEF Configured
  <2> HIDE DEF j
  <2>5. conf[i].cidr = conf[j].cidr
    BY Zenon, <2>3, <2>4, ConfigsAssumption DEF CidrInv
  <2> QED BY Zenon, <2>3, <2>4, <2>5
<1>2. CASE ~(InCidrs(a) /\ \E m \in mapped_to_real : m[1] = a[1])
  BY Zenon, <1>2 DEF RealIp
<1> QED BY Zenon, <1>1, <1>2

LEMMA NoLoopback ==
  ASSUME CidrInv, NEW t, t # Loopback
  PROVE  Configured(t, conf) # Loopback
<1>1. CASE \E i \in DOMAIN conf : conf[i].mapped = t[1]
  <2> DEFINE j == CHOOSE k \in DOMAIN conf : conf[k].mapped = t[1]
  <2>1. j \in DOMAIN conf /\ Configured(t, conf) = <<conf[j].cidr, t[2]>>
    BY Zenon, <1>1 DEF Configured
  <2> HIDE DEF j
  <2>2. conf[j].cidr # "loopback"
    BY Zenon, <2>1, UdpAssumption DEF CidrInv
  <2> QED BY <2>1, <2>2 DEF Loopback
<1>2. CASE ~\E i \in DOMAIN conf : conf[i].mapped = t[1]
  BY Zenon, <1>2 DEF Configured
<1> QED BY Zenon, <1>1, <1>2

-----------------------------------------------------------------------------
Shaped(e) ==
    e = [peer |-> e.peer, task |-> e.task, quiet |-> e.quiet, idle |-> e.idle, queue |-> e.queue,
         real |-> e.real, mapped |-> e.mapped, sockets |-> e.sockets, used |-> e.used]

(* An answer is given back before the next minute, so that a running task  *)
(* has been quiet for as long as its entry is idle.                        *)
Timed(e) ==
    /\ e.quiet \in Nat /\ e.idle \in Nat
    /\ e.task = "running" => /\ e.quiet <= RecvTimeout /\ e.idle <= RecvTimeout
                             /\ e.queue = <<>> => e.idle <= e.quiet

(* A socket sends to the address that was asked, or to the one that is     *)
(* configured for it, or by the loopback address to the node itself.       *)
Sent(a, used) == \/ a = Loopback /\ Own \in used
                 \/ \E t \in used : t # Loopback /\ a \in {t, Configured(t, conf)}

Addressed(e) ==
    /\ e.mapped \in e.used
    /\ \A a \in e.sockets : Sent(a, e.used)
    /\ e.queue = <<>> \/ \E a \in e.sockets : e.queue = <<a>>

EntrySound(e) == Shaped(e) /\ Timed(e) /\ Addressed(e)

UdpInv == /\ CidrInv /\ removed = {} /\ DOMAIN nat_table = UdpClient
          /\ \A c \in UdpClient : HasEntry(c) => EntrySound(nat_table[c])

LEMMA UdpInvInit == UdpInit => UdpInv
BY Zenon, CidrInvInit DEF UdpInit, UdpInv, HasEntry

(* One entry changes, and stays sound.                                     *)
LEMMA OneEntry ==
  ASSUME UdpInv, UNCHANGED <<removed, cidrVars>>, NEW c \in UdpClient, NEW e, EntrySound(e),
         nat_table' = [nat_table EXCEPT ![c] = e]
  PROVE  UdpInv'
<1>1. DOMAIN nat_table' = UdpClient /\ nat_table'[c] = e
      /\ \A d \in UdpClient : d # c => nat_table'[d] = nat_table[d]
  BY Zenon DEF UdpInv
<1>2. CidrInv' /\ conf' = conf
  BY Zenon DEF UdpInv, CidrInv, cidrVars
<1>3. \A d \in UdpClient : HasEntry(d)' => EntrySound(nat_table'[d])
  BY Zenon, <1>1 DEF UdpInv, HasEntry
<1>4. \A d \in UdpClient : EntrySound(nat_table'[d]) => EntrySound(nat_table[d])'
  BY Zenon, <1>2 DEF EntrySound, Shaped, Timed, Addressed, Sent
<1> QED BY Zenon, <1>1, <1>2, <1>3, <1>4 DEF UdpInv

LEMMA HandleStep ==
  ASSUME UdpInv, NEW c \in UdpClient, TryHandlePacket(c)
  PROVE  UdpInv'
<1>1. PICK p \in ClientPeer, d \in UdpTarget, is_exit \in BOOLEAN :
        LET e == IF HasEntry(c) THEN nat_table[c] ELSE UdpNatEntry(p, RealIp(d), d)
        IN  nat_table' = [nat_table EXCEPT ![c] =
                   [e EXCEPT !.idle = 0, !.sockets = @ \cup {Socket(d)}, !.used = @ \cup {d}]]
  BY Zenon DEF TryHandlePacket
<1>2. PICK e : /\ e = IF HasEntry(c) THEN nat_table[c] ELSE UdpNatEntry(p, RealIp(d), d)
               /\ nat_table' = [nat_table EXCEPT ![c] =
                   [e EXCEPT !.idle = 0, !.sockets = e.sockets \cup {Socket(d)}, !.used = e.used \cup {d}]]
  BY Zenon, <1>1
<1> DEFINE f == [e EXCEPT !.idle = 0, !.sockets = e.sockets \cup {Socket(d)}, !.used = e.used \cup {d}]
<1>3. Shaped(e) /\ Timed(e) /\ (e.mapped \in e.used \/ e.mapped = d) /\ (\A a \in e.sockets : Sent(a, e.used))
      /\ (e.queue = <<>> \/ \E a \in e.sockets : e.queue = <<a>>)
  <2>1. CASE HasEntry(c)
    BY Zenon, <1>2, <2>1 DEF UdpInv, EntrySound, Addressed
  <2>2. CASE ~HasEntry(c)
    <3>1. e = UdpNatEntry(p, RealIp(d), d)
      BY Zenon, <1>2, <2>2
    <3> QED BY <3>1, UdpAssumption DEF UdpNatEntry, Shaped, Timed
  <2> QED BY Zenon, <2>1, <2>2
<1>4. d # Loopback
  BY Zenon, UdpAssumption
<1>5. Sent(Socket(d), e.used \cup {d})
  <2>1. RealIp(d) \in {d, Configured(d, conf)}
    BY Zenon, RealOrSame DEF UdpInv
  <2> QED BY Zenon, <1>4, <2>1 DEF Socket, Sent
<1>6. f = [peer |-> e.peer, task |-> e.task, quiet |-> e.quiet, idle |-> 0, queue |-> e.queue,
           real |-> e.real, mapped |-> e.mapped, sockets |-> e.sockets \cup {Socket(d)},
           used |-> e.used \cup {d}]
  <2>1. PICK s, u : s = e.sockets \cup {Socket(d)} /\ u = e.used \cup {d}
    BY Zenon
  <2>2. f = [e EXCEPT !.idle = 0, !.sockets = s, !.used = u]
    BY Zenon, <2>1
  <2>3. Shaped(e)
    BY Zenon, <1>3
  <2> HIDE DEF f
  <2>4. f = [peer |-> e.peer, task |-> e.task, quiet |-> e.quiet, idle |-> 0, queue |-> e.queue,
             real |-> e.real, mapped |-> e.mapped, sockets |-> s, used |-> u]
    BY ONLY Zenon, <2>2, <2>3 DEF Shaped
  <2> QED BY Zenon, <2>1, <2>4
<1> HIDE DEF f
<1>7. Shaped(f) /\ Timed(f)
  BY <1>3, <1>6, UdpAssumption DEF Shaped, Timed
<1>8. f.mapped = e.mapped /\ f.used = e.used \cup {d} /\ f.sockets = e.sockets \cup {Socket(d)}
      /\ f.queue = e.queue
  BY Zenon, <1>6
<1>9. \A a : Sent(a, e.used) => Sent(a, e.used \cup {d})
  BY Zenon DEF Sent
<1>10. Addressed(f)
  BY Zenon, <1>3, <1>5, <1>8, <1>9 DEF Addressed
<1>11. nat_table' = [nat_table EXCEPT ![c] = f] /\ UNCHANGED <<removed, cidrVars>>
  BY Zenon, <1>2 DEF TryHandlePacket, Keep, f
<1> QED BY Zenon, <1>7, <1>10, <1>11, OneEntry DEF EntrySound

LEMMA TaskStep ==
  ASSUME UdpInv, NEW c \in UdpClient, Receive(c) \/ ReceiveTimeout(c) \/ SendBack(c)
  PROVE  UdpInv'
<1> DEFINE e == nat_table[c]
<1>1. Shaped(e) /\ Timed(e) /\ Addressed(e) /\ UNCHANGED <<removed, cidrVars>>
  BY Zenon DEF UdpInv, EntrySound, Receive, ReceiveTimeout, SendBack, Keep
<1>2. CASE Receive(c)
  <2>1. PICK a \in e.sockets : nat_table' = [nat_table EXCEPT ![c].queue = <<a>>, ![c].quiet = 0]
    BY Zenon, <1>2 DEF Receive
  <2>2. PICK f : f = [e EXCEPT !.queue = <<a>>, !.quiet = 0]
    BY Zenon
  <2>3. nat_table' = [nat_table EXCEPT ![c] = f]
    BY Zenon, <2>1, <2>2 DEF UdpInv
  <2>4. f = [peer |-> e.peer, task |-> e.task, quiet |-> 0, idle |-> e.idle, queue |-> <<a>>,
             real |-> e.real, mapped |-> e.mapped, sockets |-> e.sockets, used |-> e.used]
    BY Zenon, <1>1, <2>2 DEF Shaped
  <2> HIDE DEF e
  <2>5. Shaped(f) /\ Timed(f)
    BY <1>1, <2>4, UdpAssumption DEF Shaped, Timed
  <2>6. Addressed(f)
    BY Zenon, <1>1, <2>4 DEF Addressed
  <2> QED BY Zenon, <1>1, <2>3, <2>5, <2>6, OneEntry DEF EntrySound
<1>3. CASE ReceiveTimeout(c)
  <2>1. PICK f : f = [e EXCEPT !.task = "ended"]
    BY Zenon
  <2>2. nat_table' = [nat_table EXCEPT ![c] = f]
    BY Zenon, <1>3, <2>1 DEF UdpInv, ReceiveTimeout
  <2>3. f = [peer |-> e.peer, task |-> "ended", quiet |-> e.quiet, idle |-> e.idle, queue |-> e.queue,
             real |-> e.real, mapped |-> e.mapped, sockets |-> e.sockets, used |-> e.used]
    BY Zenon, <1>1, <2>1 DEF Shaped
  <2> HIDE DEF e
  <2>4. Shaped(f) /\ Timed(f)
    BY Zenon, <1>1, <2>3, UdpAssumption DEF Shaped, Timed
  <2>5. Addressed(f)
    BY Zenon, <1>1, <2>3 DEF Addressed
  <2> QED BY Zenon, <1>1, <2>2, <2>4, <2>5, OneEntry DEF EntrySound
<1>4. CASE SendBack(c)
  <2>1. PICK f : f = [e EXCEPT !.queue = <<>>, !.idle = 0]
    BY Zenon
  <2>2. nat_table' = [nat_table EXCEPT ![c] = f]
    BY Zenon, <1>4, <2>1 DEF UdpInv, SendBack
  <2>3. f = [peer |-> e.peer, task |-> e.task, quiet |-> e.quiet, idle |-> 0, queue |-> <<>>,
             real |-> e.real, mapped |-> e.mapped, sockets |-> e.sockets, used |-> e.used]
    BY Zenon, <1>1, <2>1 DEF Shaped
  <2> HIDE DEF e
  <2>4. Shaped(f) /\ Timed(f)
    BY <1>1, <2>3, UdpAssumption DEF Shaped, Timed
  <2>5. Addressed(f)
    BY Zenon, <1>1, <2>3 DEF Addressed
  <2> QED BY Zenon, <1>1, <2>2, <2>4, <2>5, OneEntry DEF EntrySound
<1> QED BY Zenon, <1>2, <1>3, <1>4

LEMMA CleanupStep ==
  ASSUME UdpInv, Cleanup
  PROVE  UdpInv'
<1> DEFINE gone == {c \in UdpClient : HasEntry(c) /\ ~is_active(nat_table[c])}
<1>1. /\ nat_table' = [c \in UdpClient |-> IF c \in gone THEN Unused ELSE nat_table[c]]
      /\ removed' = removed \cup {nat_table[c] : c \in {g \in gone : nat_table[g].task = "running"}}
      /\ UNCHANGED cidrVars
  BY Zenon DEF Cleanup, Keep
<1>2. \A c \in gone : nat_table[c].task # "running"
  <2>1. SUFFICES ASSUME NEW c \in gone, nat_table[c].task = "running" PROVE FALSE
    BY Zenon
  <2>2. Timed(nat_table[c]) /\ ~(nat_table[c].idle < Inactive)
    BY Zenon DEF UdpInv, EntrySound, is_active
  <2> QED BY <2>1, <2>2, UdpAssumption DEF Timed
<1>3. removed' = {}
  BY Zenon, <1>1, <1>2 DEF UdpInv
<1>4. CidrInv' /\ conf' = conf
  BY Zenon, <1>1 DEF UdpInv, CidrInv, cidrVars
<1>5. DOMAIN nat_table' = UdpClient /\ \A c \in UdpClient : nat_table'[c] \in {Unused, nat_table[c]}
  BY Zenon, <1>1
<1>6. \A d \in UdpClient : HasEntry(d)' => EntrySound(nat_table'[d])
  BY Zenon, <1>5 DEF UdpInv, HasEntry
<1>7. \A d \in UdpClient : EntrySound(nat_table'[d]) => EntrySound(nat_table[d])'
  BY Zenon, <1>4 DEF EntrySound, Shaped, Timed, Addressed, Sent
<1> QED BY Zenon, <1>3, <1>4, <1>5, <1>6, <1>7 DEF UdpInv

LEMMA MinuteStep ==
  ASSUME UdpInv, Minute
  PROVE  UdpInv'
<1>1. /\ \A c \in UdpClient : HasEntry(c) =>
            /\ nat_table[c].queue = <<>>
            /\ nat_table[c].task = "running" => nat_table[c].quiet < RecvTimeout
      /\ removed' = removed /\ UNCHANGED cidrVars
  BY Zenon DEF Minute, Keep
<1>2. CidrInv' /\ conf' = conf
  BY Zenon, <1>1 DEF UdpInv, CidrInv, cidrVars
<1>3. DOMAIN nat_table' = UdpClient /\ \A c \in UdpClient : ~HasEntry(c) => nat_table'[c] = Unused
  BY Zenon DEF Minute
<1>4. ASSUME NEW c \in UdpClient, HasEntry(c) PROVE EntrySound(nat_table'[c])
  <2> DEFINE e == nat_table[c]
             f == nat_table'[c]
  <2>1. Shaped(e) /\ Timed(e) /\ Addressed(e)
    BY Zenon, <1>4 DEF UdpInv, EntrySound
  <2>2. f = [e EXCEPT !.idle = IF e.idle < Inactive THEN e.idle + 1 ELSE e.idle,
                      !.quiet = IF e.task = "running" THEN e.quiet + 1 ELSE e.quiet]
    BY Zenon, <1>4, <2>1 DEF Minute, Shaped
  <2>3. PICK i, q : /\ i = IF e.idle < Inactive THEN e.idle + 1 ELSE e.idle
                    /\ q = IF e.task = "running" THEN e.quiet + 1 ELSE e.quiet
    BY Zenon
  <2>4. f = [peer |-> e.peer, task |-> e.task, quiet |-> q, idle |-> i, queue |-> e.queue,
             real |-> e.real, mapped |-> e.mapped, sockets |-> e.sockets, used |-> e.used]
    BY Zenon, <2>1, <2>2, <2>3 DEF Shaped
  <2>5. e.queue = <<>> /\ (e.task = "running" => e.quiet < RecvTimeout)
    BY Zenon, <1>1, <1>4
  <2> HIDE DEF e, f
  <2>6. Shaped(f)
    BY Zenon, <2>4 DEF Shaped
  <2>7. Timed(f)
    BY <2>1, <2>3, <2>4, <2>5, UdpAssumption DEF Timed
  <2>8. Addressed(f)
    BY Zenon, <2>1, <2>4 DEF Addressed
  <2> QED BY Zenon, <2>6, <2>7, <2>8 DEF EntrySound, f
<1>5. \A d \in UdpClient : HasEntry(d)' => EntrySound(nat_table'[d])
  BY Zenon, <1>3, <1>4 DEF HasEntry
<1>6. \A d \in UdpClient : EntrySound(nat_table'[d]) => EntrySound(nat_table[d])'
  BY Zenon, <1>2 DEF EntrySound, Shaped, Timed, Addressed, Sent
<1> QED BY Zenon, <1>1, <1>2, <1>3, <1>5, <1>6 DEF UdpInv

LEMMA UdpInvStep == UdpInv /\ [UdpNext]_udpVars => UdpInv'
<1> SUFFICES ASSUME UdpInv, [UdpNext]_udpVars PROVE UdpInv'
  BY Zenon
<1>1. ASSUME CidrInv', conf' = conf, nat_table' = nat_table, removed' = removed PROVE UdpInv'
  <2>1. \A e : EntrySound(e) => EntrySound(e)'
    BY Zenon, <1>1 DEF EntrySound, Shaped, Timed, Addressed, Sent
  <2>2. ASSUME NEW c \in UdpClient, HasEntry(c)' PROVE EntrySound(nat_table[c])'
    <3>1. PICK e : e = nat_table[c]
      BY Zenon
    <3>2. EntrySound(e)
      BY Zenon, <1>1, <2>2, <3>1 DEF UdpInv, HasEntry
    <3>3. EntrySound(e)' /\ nat_table'[c] = e
      BY Zenon, <1>1, <2>1, <3>1, <3>2
    <3> QED BY Zenon, <3>3 DEF EntrySound, Shaped, Timed, Addressed, Sent
  <2> QED BY Zenon, <1>1, <2>2 DEF UdpInv
<1>2. CASE CidrNext /\ UNCHANGED udpOnly
  BY Zenon, <1>1, <1>2, CidrInvStep DEF UdpInv, udpOnly
<1>3. CASE UNCHANGED udpVars
  <2>1. UNCHANGED cidrVars /\ nat_table' = nat_table /\ removed' = removed
    BY Zenon, <1>3 DEF udpVars, udpOnly
  <2>2. CidrInv' /\ conf' = conf
    BY Zenon, <2>1 DEF UdpInv, CidrInv, cidrVars
  <2> QED BY Zenon, <1>1, <2>1, <2>2
<1> QED BY Zenon, <1>2, <1>3, HandleStep, TaskStep, CleanupStep, MinuteStep DEF UdpNext

LEMMA UdpInvImplies == UdpInv => RepliesReturn
<1> SUFFICES ASSUME UdpInv PROVE RepliesReturn
  BY Zenon
<1> SUFFICES ASSUME NEW c \in UdpClient, HasEntry(c),
                    nat_table[c].real = Configured(nat_table[c].mapped, conf),
                    \A t \in nat_table[c].used : Configured(t, conf) # t => t = nat_table[c].mapped,
                    NEW i \in DOMAIN nat_table[c].queue
             PROVE  Shown(nat_table[c], nat_table[c].queue[i]) \in nat_table[c].used
  BY Zenon DEF RepliesReturn, NoSocketLeft, AnswersFromTarget, UdpInv
<1> DEFINE e == nat_table[c]
           a == e.queue[i]
<1>1. e.mapped \in e.used /\ (\A b \in e.sockets : Sent(b, e.used))
      /\ (e.queue = <<>> \/ \E b \in e.sockets : e.queue = <<b>>) /\ CidrInv
  BY Zenon DEF UdpInv, EntrySound, Addressed
<1>2. \A b : e.queue = <<b>> => a = b
  BY DEF a
<1>3. e.queue # <<>>
  OBVIOUS
<1>4. Sent(a, e.used)
  BY Zenon, <1>1, <1>2, <1>3
<1> HIDE DEF a
<1>5. CASE a = Loopback /\ Own \in e.used
  BY Zenon, <1>1, <1>5 DEF Shown, a
<1>6. ASSUME NEW t \in e.used, t # Loopback, a \in {t, Configured(t, conf)}
      PROVE  Shown(e, a) \in e.used
  <2>1. a # Loopback
    BY Zenon, <1>1, <1>6, NoLoopback
  <2>2. Shown(e, a) = IF a = e.real THEN e.mapped ELSE a
    BY Zenon, <2>1 DEF Shown
  <2> QED BY Zenon, <1>1, <1>6, <2>2
<1> QED BY Zenon, <1>4, <1>5, <1>6 DEF Sent, a

(* For any clients, addresses and subnets, and whatever the table of mapped *)
(* subnets goes through while it is rebuilt: no entry is gone while its    *)
(* socket is read, and answers go back from an address the client sent to. *)
THEOREM RepliesAlwaysReturn == UdpSpec => []RepliesReturn
BY UdpInvInit, UdpInvStep, UdpInvImplies, PTL DEF UdpSpec

-----------------------------------------------------------------------------
(* There is a request for x without a reply that went to address r.        *)
Open(x, r) == \E e \in echoes : <<e.client, e.mapped, e.id>> = x /\ e.real = r
Bit(p) == IF p THEN 1 ELSE 0

(* A request went to the address that was asked, or to the configured one. *)
Pending(x) == Bit(Open(x, x[2])) + Bit(Configured(x[2], conf) # x[2] /\ Open(x, Configured(x[2], conf)))

Requests == EchoClient \X EchoTarget \X EchoId

(* The entries of the table stand for requests without a reply.            *)
IcmpInv ==
    /\ CidrInv
    /\ \A e \in echoes : /\ <<e.client, e.mapped, e.id>> \in Requests
                         /\ e.real \in {e.mapped, Configured(e.mapped, conf)}
    /\ \A e, f \in echoes : e.real = f.real /\ e.id = f.id => e = f
    /\ due \in [Requests -> Int]
    /\ \A x \in Requests : Pending(x) <= due[x]

LEMMA IcmpInvInit == IcmpInit => IcmpInv
<1> SUFFICES ASSUME IcmpInit PROVE IcmpInv
  BY Zenon
<1>1. echoes = {} /\ due = [x \in Requests |-> 0] /\ CidrInv
  BY Zenon, CidrInvInit DEF IcmpInit, Requests
<1>2. \A x : Pending(x) = 0
  BY <1>1 DEF Pending, Bit, Open
<1> QED BY <1>1, <1>2 DEF IcmpInv

LEMMA PendingBits == \A x : Pending(x) \in {0, 1, 2} /\ Pending(x)' \in {0, 1, 2}
BY DEF Pending, Bit

(* The addresses with an open request for x change: none is new, only a is *)
(* new, or none is new and a is gone.                                      *)
LEMMA OpenChange ==
  ASSUME NEW x, conf' = conf
  PROVE  /\ (\A r : Open(x, r)' => Open(x, r)) => Pending(x)' <= Pending(x)
         /\ \A a : (\A r : Open(x, r)' => Open(x, r) \/ r = a) => Pending(x)' <= Pending(x) + 1
         /\ \A a \in {x[2], Configured(x[2], conf)} :
              (\A r : Open(x, r)' => Open(x, r)) /\ Open(x, a) /\ ~Open(x, a)' => Pending(x)' <= Pending(x) - 1
<1>1. PICK b, c : b = x[2] /\ c = Configured(x[2], conf)
  BY Zenon
<1>2. PICK p \in BOOLEAN, q \in BOOLEAN, v \in BOOLEAN, w \in BOOLEAN :
        p = Open(x, b) /\ q = Open(x, c) /\ v = Open(x, b)' /\ w = Open(x, c)'
  BY Zenon DEF Open
<1>3. Pending(x) = Bit(p) + Bit(c # b /\ q) /\ Pending(x)' = Bit(v) + Bit(c # b /\ w)
  BY Zenon, <1>1, <1>2 DEF Pending, Bit
<1>4. ASSUME \A r : Open(x, r)' => Open(x, r) PROVE Pending(x)' <= Pending(x)
  <2>1. (v => p) /\ (w => q)
    BY Zenon, <1>2, <1>4
  <2> QED BY <1>3, <2>1 DEF Bit
<1>5. ASSUME NEW a, \A r : Open(x, r)' => Open(x, r) \/ r = a PROVE Pending(x)' <= Pending(x) + 1
  <2>1. (v => p \/ b = a) /\ (w => q \/ c = a)
    BY Zenon, <1>2, <1>5
  <2> QED BY <1>3, <2>1 DEF Bit
<1>6. ASSUME NEW a \in {b, c}, \A r : Open(x, r)' => Open(x, r), Open(x, a), ~Open(x, a)'
      PROVE  Pending(x)' <= Pending(x) - 1
  <2>1. (v => p) /\ (w => q) /\ (a = b => p /\ ~v) /\ (a = c => q /\ ~w)
    BY Zenon, <1>2, <1>6
  <2> QED BY <1>3, <1>6, <2>1 DEF Bit
<1> QED BY Zenon, <1>1, <1>4, <1>5, <1>6

LEMMA Fewer ==
  ASSUME IcmpInv, CidrInv', conf' = conf, echoes' \subseteq echoes, due' = due
  PROVE  IcmpInv'
<1>1. /\ \A e \in echoes' : /\ <<e.client, e.mapped, e.id>> \in Requests
                            /\ e.real \in {e.mapped, Configured(e.mapped, conf')}
      /\ \A e, f \in echoes' : e.real = f.real /\ e.id = f.id => e = f
  BY Zenon DEF IcmpInv
<1>2. \A x \in Requests : Pending(x)' <= due'[x]
  <2> TAKE x \in Requests
  <2>1. Pending(x)' <= Pending(x)
    BY Zenon, OpenChange DEF Open
  <2> QED BY <2>1, PendingBits DEF IcmpInv
<1> QED BY Zenon, <1>1, <1>2 DEF IcmpInv

LEMMA SendEchoStep ==
  ASSUME IcmpInv, UNCHANGED cidrVars, NEW c \in EchoClient, NEW d \in EchoTarget, NEW i \in EchoId,
         SendEcho(c, d, i)
  PROVE  IcmpInv'
<1>1. PICK k, e : k = <<c, d, i>> /\ e = IcmpNatEntry(c, d, i)
  BY Zenon
<1>2. k = <<e.client, e.mapped, e.id>> /\ k \in Requests /\ k[2] = e.mapped /\ e.mapped = d /\ e.real = RealIp(d)
  BY Zenon, <1>1 DEF IcmpNatEntry, Requests
<1>3. /\ echoes' = {o \in echoes : <<o.real, o.id>> # <<e.real, e.id>>} \cup {e}
      /\ due' = [due EXCEPT ![k] = due[k] + 1]
  BY Zenon, <1>1 DEF SendEcho, Remember
<1>4. CidrInv' /\ conf' = conf
  BY Zenon DEF IcmpInv, CidrInv, cidrVars
<1>5. e.real \in {e.mapped, Configured(e.mapped, conf)}
  BY Zenon, <1>2, RealOrSame DEF IcmpInv
<1>6. \A o \in echoes' : o = e \/ (o \in echoes /\ ~(o.real = e.real /\ o.id = e.id))
  BY Zenon, <1>3
<1>7. /\ \A o \in echoes' : /\ <<o.client, o.mapped, o.id>> \in Requests
                            /\ o.real \in {o.mapped, Configured(o.mapped, conf')}
      /\ \A o, f \in echoes' : o.real = f.real /\ o.id = f.id => o = f
  BY Zenon, <1>2, <1>4, <1>5, <1>6 DEF IcmpInv
<1>8. due' \in [Requests -> Int] /\ due'[k] = due[k] + 1 /\ \A x \in Requests : x # k => due'[x] = due[x]
  BY <1>2, <1>3 DEF IcmpInv
<1>9. \A x \in Requests : Pending(x)' <= due'[x]
  <2> TAKE x \in Requests
  <2>1. CASE x = k
    <3>1. \A r : Open(x, r)' => Open(x, r) \/ r = e.real
      BY Zenon, <1>6 DEF Open
    <3>2. Pending(x)' <= Pending(x) + 1
      BY Zenon, <1>4, <3>1, OpenChange
    <3> QED BY <1>8, <2>1, <3>2, PendingBits DEF IcmpInv
  <2>2. CASE x # k
    <3>1. \A r : Open(x, r)' => Open(x, r)
      BY Zenon, <1>2, <1>6, <2>2 DEF Open
    <3>2. Pending(x)' <= Pending(x)
      BY Zenon, <1>4, <3>1, OpenChange
    <3> QED BY <1>8, <2>2, <3>2, PendingBits DEF IcmpInv
  <2> QED BY Zenon, <2>1, <2>2
<1> QED BY Zenon, <1>4, <1>7, <1>8, <1>9 DEF IcmpInv

LEMMA SocketRecvStep ==
  ASSUME IcmpInv, SocketRecv
  PROVE  IcmpInv'
<1>1. CidrInv' /\ conf' = conf
  BY Zenon DEF SocketRecv, IcmpInv, CidrInv, cidrVars
<1>2. CASE UNCHANGED <<echoes, due>>
  BY Zenon, <1>1, <1>2, Fewer
<1>3. ASSUME NEW e \in echoes, Answered(e), due' = [due EXCEPT ![<<e.client, e.mapped, e.id>>] = @ - 1]
      PROVE  IcmpInv'
  <2>1. PICK k : k = <<e.client, e.mapped, e.id>>
    BY Zenon
  <2>2. k \in Requests /\ k[2] = e.mapped /\ due' = [due EXCEPT ![k] = due[k] - 1]
    BY Zenon, <1>3, <2>1 DEF IcmpInv
  <2>3. /\ \A o \in echoes' : /\ <<o.client, o.mapped, o.id>> \in Requests
                              /\ o.real \in {o.mapped, Configured(o.mapped, conf')}
        /\ \A o, f \in echoes' : o.real = f.real /\ o.id = f.id => o = f
    BY Zenon, <1>1, <1>3 DEF IcmpInv, Answered
  <2>4. due' \in [Requests -> Int] /\ due'[k] = due[k] - 1 /\ \A x \in Requests : x # k => due'[x] = due[x]
    BY <2>2 DEF IcmpInv
  <2>5. \A x, r : Open(x, r)' => Open(x, r)
    BY Zenon, <1>3 DEF Open, Answered
  <2>6. Open(k, e.real) /\ e.real \in {k[2], Configured(k[2], conf)}
    BY Zenon, <1>3, <2>1, <2>2 DEF Open, IcmpInv
  <2>7. ~Open(k, e.real)'
    <3>1. ASSUME NEW o \in echoes', <<o.client, o.mapped, o.id>> = k, o.real = e.real PROVE FALSE
      <4>1. o \in echoes /\ o # e
        BY Zenon, <1>3 DEF Answered
      <4>2. o.id = e.id
        BY <2>1, <3>1
      <4> QED BY Zenon, <3>1, <4>1, <4>2 DEF IcmpInv
    <3> QED BY Zenon, <3>1 DEF Open
  <2>8. \A x \in Requests : Pending(x)' <= due'[x]
    <3> TAKE x \in Requests
    <3>1. CASE x = k
      <4>1. Pending(k)' <= Pending(k) - 1
        BY Zenon, <1>1, <2>5, <2>6, <2>7, OpenChange
      <4> QED BY <2>2, <2>4, <3>1, <4>1, PendingBits DEF IcmpInv
    <3>2. CASE x # k
      <4>1. Pending(x)' <= Pending(x)
        BY Zenon, <1>1, <2>5, OpenChange
      <4> QED BY <2>4, <3>2, <4>1, PendingBits DEF IcmpInv
    <3> QED BY Zenon, <3>1, <3>2
  <2> QED BY Zenon, <1>1, <2>3, <2>4, <2>8 DEF IcmpInv
<1> QED BY Zenon, <1>2, <1>3 DEF SocketRecv

LEMMA IcmpInvStep == IcmpInv /\ [IcmpNext]_icmpVars => IcmpInv'
<1> SUFFICES ASSUME IcmpInv, [IcmpNext]_icmpVars PROVE IcmpInv'
  BY Zenon
<1>1. UNCHANGED cidrVars => CidrInv' /\ conf' = conf
  BY Zenon DEF IcmpInv, CidrInv, cidrVars
<1>2. CASE CidrNext /\ UNCHANGED icmpOnly
  BY Zenon, <1>2, CidrInvStep, Fewer DEF IcmpInv, icmpOnly
<1>3. ASSUME NEW c \in EchoClient, TryHandlePeerPacket(c) PROVE IcmpInv'
  BY Zenon, <1>1, <1>3, Fewer, SendEchoStep DEF TryHandlePeerPacket, SendIcmpReplyToPeer
<1>4. CASE CleanEchoes
  BY Zenon, <1>1, <1>4, Fewer DEF CleanEchoes
<1>5. CASE LoseEcho \/ DuplicateEcho \/ UNCHANGED icmpVars
  BY Zenon, <1>1, <1>5, Fewer DEF LoseEcho, DuplicateEcho, icmpVars, icmpOnly
<1> QED BY Zenon, <1>2, <1>3, <1>4, <1>5, SocketRecvStep DEF IcmpNext

(* For any number of clients that share the socket, requests and           *)
(* duplicated replies: no client gets more replies than it sent requests,  *)
(* for any address, identifier and number it asked with.                   *)
THEOREM EchoesAlwaysMatch == IcmpSpec => []EchoesMatch
<1>1. IcmpInv => EchoesMatch
  <2> SUFFICES ASSUME IcmpInv, NEW x \in DOMAIN due PROVE due[x] >= 0
    BY Zenon DEF EchoesMatch
  <2> QED BY PendingBits DEF IcmpInv
<1> QED BY <1>1, IcmpInvInit, IcmpInvStep, PTL DEF IcmpSpec
=============================================================================
