--------------------------- MODULE Tunnel_proofs ----------------------------
(***************************************************************************)
(* How two nodes come to a connection: a tunnel over UDP (UdpTunnel) and   *)
(* the handshake on a tunnel (Handshake).                                  *)
(*                                                                         *)
(* No tunnel carries packets of another, for any number of connectors and  *)
(* addresses and any ring.  The two ends of every connection, accepted     *)
(* from the own network or a foreign one, agree on what it is, for any     *)
(* clients that connect in any order.                                      *)
(***************************************************************************)
EXTENDS UdpTunnel, Handshake, TLAPS

(* What connection k asks and is answered, and what its client makes of it.*)
Asked(k) == HandshakeRequest(client_of[k].name, client_of[k].secret, client_of[k].id)
Same(k) == client_of[k].name = Accepting.name /\ client_of[k].secret = Accepting.secret
Answer(k) == HandshakeRequest(Accepting.name, IF Same(k) THEN Accepting.secret ELSE Zero, my_id[k])

Admission(k) == IF my_id[k] = client_of[k].id THEN "failed"
                ELSE IF client_of[k].name # Accepting.name THEN "foreign"
                ELSE IF ~Same(k) THEN "failed" ELSE "own"

HandshakeTypes ==
    /\ client_of \in Clients
    /\ DOMAIN client_end = Conns /\ DOMAIN server_end = Conns
    /\ DOMAIN to_server = Conns /\ DOMAIN to_client = Conns /\ DOMAIN info = Conns
    /\ my_id \in [Conns -> Nat] /\ ids \in Nat
    /\ reserved \in [Names -> Nat \cup {NoNet}]
    /\ entry \in [Names -> [id : Nat, secret : Secrets] \cup {NoNet}]

(* What is in the tunnel, and which of it an end has acted upon.           *)
Exchanged(k) ==
    /\ to_server[k] \in {<<>>, Asked(k)} /\ to_client[k] \in {<<>>, Answer(k)}
    /\ server_end[k] = "wait" => to_client[k] = <<>>
    /\ server_end[k] \in {"answered", "own", "foreign"} =>
         to_server[k] = Asked(k) /\ to_client[k] = Answer(k) /\ my_id[k] # client_of[k].id
    /\ to_client[k] # <<>> /\ client_of[k].name = Accepting.name => my_id[k] = Accepting.id

ServerSide(k) ==
    /\ server_end[k] = "own" => Same(k)
    /\ server_end[k] = "foreign" =>
         /\ client_of[k].name # Accepting.name
         /\ entry[client_of[k].name] = [id |-> my_id[k], secret |-> client_of[k].secret]

ClientSide(k) ==
    /\ info[k] = NoNet => client_end[k] \in {"new", "wait", "failed", "closed"}
    /\ info[k] # NoNet => /\ to_client[k] = Answer(k) /\ info[k] = Answer(k)[1]
                          /\ client_end[k] \in {"closed", Admission(k)}
    /\ client_end[k] = "closed" => server_end[k] = "closed"

Sides(k) == Exchanged(k) /\ ServerSide(k) /\ ClientSide(k)

HandshakeInv == HandshakeTypes /\ \A k \in Conns : Sides(k)

-----------------------------------------------------------------------------
LEMMA HandshakeInitInv == HandshakeInit => HandshakeInv
BY HandshakeAssumption
   DEF HandshakeInit, HandshakeInv, HandshakeTypes, Sides, Exchanged, ServerSide, ClientSide

LEMMA ClientNames ==
    ASSUME client_of \in Clients, NEW k \in Conns
    PROVE  /\ client_of[k].secret \in Secrets /\ client_of[k].secret # Zero
           /\ client_of[k].name # Accepting.name => client_of[k].name \in Names
BY HandshakeAssumption DEF Names, Secrets

LEMMA Messages ==
    ASSUME NEW k \in Conns
    PROVE  /\ Asked(k) # <<>> /\ Asked(k)[1].name = client_of[k].name
           /\ Asked(k)[1].secret = client_of[k].secret /\ Asked(k)[1].id = client_of[k].id
           /\ Answer(k) # <<>> /\ Answer(k)[1].name = Accepting.name /\ Answer(k)[1].id = my_id[k]
           /\ Answer(k)[1].secret = IF Same(k) THEN Accepting.secret ELSE Zero
           /\ Answer(k)[1] = [name |-> Accepting.name, id |-> my_id[k],
                              secret |-> IF Same(k) THEN Accepting.secret ELSE Zero]
BY Zenon DEF Asked, Answer, HandshakeRequest

(* A step of one connection leaves the others alone, if it does not take   *)
(* the entry of their network.                                             *)
LEMMA OthersKept ==
    ASSUME NEW j \in Conns, Sides(j), UNCHANGED client_of,
           client_end'[j] = client_end[j], server_end'[j] = server_end[j], to_server'[j] = to_server[j],
           to_client'[j] = to_client[j], my_id'[j] = my_id[j], info'[j] = info[j],
           server_end[j] = "foreign" => entry'[client_of[j].name] = entry[client_of[j].name]
    PROVE  Sides(j)'
BY Zenon DEF Sides, Exchanged, ServerSide, ClientSide, Asked, Answer, Same, Admission

LEMMA ClientStep ==
    ASSUME HandshakeInv, UNCHANGED client_of, NEW k \in Conns,
           ClientSendsHandshake(k) \/ ClientAdmits(k) \/ ClientTimeout(k)
    PROVE  HandshakeInv'
<1> USE DEF HandshakeInv
<1>1. UNCHANGED acceptVars
  BY Zenon DEF ClientSendsHandshake, ClientAdmits, ClientTimeout
<1>2. HandshakeTypes'
  BY Zenon, <1>1 DEF HandshakeTypes, acceptVars, ClientSendsHandshake, ClientAdmits, ClientTimeout
<1>3. \A j \in Conns \ {k} : Sides(j)'
  BY Zenon, <1>1, OthersKept DEF HandshakeTypes, acceptVars, ClientSendsHandshake, ClientAdmits, ClientTimeout
<1>4. ServerSide(k)'
  BY Zenon, <1>1 DEF Sides, ServerSide, Same, acceptVars
<1>5. CASE ClientSendsHandshake(k)
  <2>1. to_server'[k] = Asked(k) /\ client_end'[k] = "wait" /\ info[k] = NoNet /\ info' = info
    BY Zenon, <1>5 DEF HandshakeTypes, ClientSendsHandshake, Asked, Sides, ClientSide, Admission
  <2>2. Exchanged(k)' /\ ClientSide(k)'
    BY Zenon, <1>1, <2>1 DEF Sides, Exchanged, ClientSide, acceptVars, Asked, Answer, Same
  <2> QED BY Zenon, <1>2, <1>3, <1>4, <2>2 DEF Sides
<1>6. CASE ClientTimeout(k)
  <2>1. UNCHANGED to_server /\ client_end'[k] = "failed" /\ info[k] = NoNet /\ info' = info
    BY Zenon, <1>6 DEF HandshakeTypes, ClientTimeout, Sides, ClientSide, Admission
  <2>2. Exchanged(k)' /\ ClientSide(k)'
    BY Zenon, <1>1, <2>1 DEF Sides, Exchanged, ClientSide, acceptVars, Asked, Answer, Same
  <2> QED BY Zenon, <1>2, <1>3, <1>4, <2>2 DEF Sides
<1>7. CASE ClientAdmits(k)
  <2>1. to_client[k] = Answer(k)
    BY Zenon, <1>7 DEF ClientAdmits, Sides, Exchanged
  <2> DEFINE secret == IF Same(k) THEN Accepting.secret ELSE Zero
  <2>2. /\ Answer(k)[1].name = Accepting.name /\ Answer(k)[1].id = my_id[k]
        /\ Answer(k)[1].secret = secret
        /\ Answer(k)[1] = [name |-> Accepting.name, secret |-> secret, id |-> my_id[k]]
    BY Zenon, Messages
  <2>3. client_of[k].name = Accepting.name => (secret # client_of[k].secret <=> ~Same(k))
    BY Zenon, ClientNames DEF Same, HandshakeTypes
  <2>4. Answer(k)[1] # NoNet
    <3>1. my_id[k] \in Nat /\ secret \in {Accepting.secret, Zero}
      BY Zenon DEF HandshakeTypes
    <3> HIDE DEF secret
    <3>2. Answer(k)[1] \in [name : {Accepting.name}, secret : {Accepting.secret, Zero}, id : Nat]
      BY Zenon, <2>2, <3>1
    <3> QED BY Zenon, <3>2, HandshakeAssumption
  <2> HIDE DEF secret
  <2>5. client_end'[k] = Admission(k)
    BY Zenon, <1>7, <2>1, <2>2, <2>3 DEF HandshakeTypes, ClientAdmits, Admission
  <2>6. UNCHANGED to_server /\ info'[k] = Answer(k)[1]
    BY Zenon, <1>7, <2>1 DEF HandshakeTypes, ClientAdmits
  <2>7. Admission(k) # "closed"
    BY Zenon DEF Admission
  <2>8. Exchanged(k)' /\ ClientSide(k)'
    BY Zenon, <1>1, <2>1, <2>5, <2>6, <2>4, <2>7
    DEF Sides, Exchanged, ClientSide, acceptVars, Asked, Answer, Same, Admission
  <2> QED BY Zenon, <1>2, <1>3, <1>4, <2>8 DEF Sides
<1> QED BY Zenon, <1>5, <1>6, <1>7

LEMMA RefuseStep ==
    ASSUME HandshakeInv, UNCHANGED client_of, NEW k \in Conns,
           ServerRefuses(k) \/ ServerAdmitsOwn(k)
    PROVE  HandshakeInv'
<1> USE DEF HandshakeInv
<1>1. UNCHANGED <<client_end, to_server, to_client, my_id, info, reserved, entry, ids>>
  BY Zenon DEF ServerRefuses, ServerAdmitsOwn
<1>2. /\ DOMAIN server_end' = Conns /\ \A j \in Conns \ {k} : server_end'[j] = server_end[j]
      /\ server_end'[k] \in {"failed", "own"} /\ server_end[k] \in {"wait", "answered"}
  BY Zenon DEF ServerRefuses, ServerAdmitsOwn, HandshakeTypes
<1>3. server_end'[k] = "own" => server_end[k] = "answered" /\ Same(k)
  <2> SUFFICES ASSUME server_end'[k] = "own" PROVE server_end[k] = "answered" /\ Same(k)
    OBVIOUS
  <2>1. /\ server_end[k] = "answered" /\ to_server[k][1].name = Accepting.name
        /\ to_server[k][1].secret = Accepting.secret
    BY Zenon DEF ServerRefuses, ServerAdmitsOwn, HandshakeTypes
  <2>2. to_server[k] = Asked(k)
    BY Zenon, <2>1 DEF Sides, Exchanged
  <2> QED BY Zenon, <2>1, <2>2, Messages DEF Same
<1>4. HandshakeTypes'
  BY Zenon, <1>1, <1>2 DEF HandshakeTypes
<1>5. \A j \in Conns \ {k} : Sides(j)'
  BY Zenon, <1>1, <1>2, OthersKept
<1>6. Exchanged(k)'
  BY Zenon, <1>1, <1>2, <1>3 DEF Sides, Exchanged, Asked, Answer, Same
<1>7. ServerSide(k)'
  BY Zenon, <1>1, <1>2, <1>3 DEF Sides, ServerSide, Same
<1>8. ClientSide(k)'
  BY Zenon, <1>1, <1>2 DEF Sides, ClientSide, Answer, Admission, Same
<1> QED BY Zenon, <1>4, <1>5, <1>6, <1>7, <1>8 DEF Sides

(* The answer to a connection that has had none.                           *)
LEMMA AnswerStep ==
    ASSUME HandshakeInv, UNCHANGED client_of, NEW k \in Conns, ServerAnswers(k)
    PROVE  HandshakeInv'
<1> USE DEF HandshakeInv
<1>1. to_server[k] = Asked(k) /\ to_client[k] = <<>> /\ server_end[k] = "wait"
  BY Zenon DEF ServerAnswers, Sides, Exchanged
<1>2. /\ to_server[k][1].name = client_of[k].name /\ to_server[k][1].secret = client_of[k].secret
      /\ to_server[k][1].id = client_of[k].id
  BY Zenon, <1>1, Messages
<1>3. UNCHANGED <<client_end, to_server, info, entry>>
  BY Zenon DEF ServerAnswers
<1>4. info[k] = NoNet
  BY Zenon, <1>1, Messages DEF Sides, ClientSide
<1>5. CASE to_server[k][1].name # Accepting.name /\ private_mode
  <2>1. /\ DOMAIN server_end' = Conns /\ \A j \in Conns \ {k} : server_end'[j] = server_end[j]
        /\ server_end'[k] = "failed" /\ UNCHANGED <<to_client, my_id, reserved, ids>>
    BY Zenon, <1>5 DEF ServerAnswers, HandshakeTypes
  <2>2. HandshakeTypes'
    BY Zenon, <1>3, <2>1 DEF HandshakeTypes
  <2>3. \A j \in Conns \ {k} : Sides(j)'
    BY Zenon, <1>3, <2>1, OthersKept
  <2>4. Sides(k)'
    BY Zenon, <1>1, <1>3, <1>4, <2>1 DEF Sides, Exchanged, ServerSide, ClientSide, Asked
  <2> QED BY Zenon, <2>2, <2>3, <2>4
<1>6. CASE ~(to_server[k][1].name # Accepting.name /\ private_mode)
  <2> DEFINE n == client_of[k].name
             foreign == n # Accepting.name
             fresh == foreign /\ entry[n] = NoNet /\ reserved[n] = NoNet
             id == IF ~foreign THEN Accepting.id
                   ELSE IF entry[n] # NoNet THEN entry[n].id
                   ELSE IF fresh THEN Accepting.id + 1 + ids ELSE reserved[n]
  <2>1. id \in Nat /\ (~foreign => id = Accepting.id)
    <3>1. CASE ~foreign
      BY Zenon, <3>1, HandshakeAssumption
    <3>2. CASE foreign /\ entry[n] # NoNet
      <4>1. entry[n] \in [id : Nat, secret : Secrets]
        BY Zenon, <3>2, ClientNames DEF HandshakeTypes
      <4> QED BY Zenon, <3>2, <4>1
    <3>3. CASE foreign /\ entry[n] = NoNet
      <4>1. reserved[n] \in Nat \cup {NoNet}
        BY Zenon, <3>3, ClientNames DEF HandshakeTypes
      <4> QED BY <3>3, <4>1, HandshakeAssumption DEF HandshakeTypes
    <3> QED BY Zenon, <3>1, <3>2, <3>3
  <2>2. /\ ids' = IF fresh THEN ids + 1 ELSE ids
        /\ reserved' = IF foreign /\ entry[n] = NoNet THEN [reserved EXCEPT ![n] = id] ELSE reserved
        /\ my_id' = [my_id EXCEPT ![k] = id]
        /\ to_client' = [to_client EXCEPT ![k] =
              HandshakeRequest(Accepting.name, IF Same(k) THEN Accepting.secret ELSE Zero, id)]
        /\ server_end' = [server_end EXCEPT ![k] = IF client_of[k].id = id THEN "failed" ELSE "answered"]
    BY Zenon, <1>2, <1>6 DEF ServerAnswers, Same
  <2> HIDE DEF id, fresh
  <2>3. HandshakeTypes'
    <3>1. ids' \in Nat
      BY <2>2 DEF HandshakeTypes
    <3>2. my_id' \in [Conns -> Nat]
      <4>1. my_id' = [my_id EXCEPT ![k] = id] /\ id \in Nat
        BY Zenon, <2>1, <2>2
      <4> QED BY Zenon, <4>1 DEF HandshakeTypes
    <3>3. reserved' \in [Names -> Nat \cup {NoNet}]
      <4>1. \/ UNCHANGED reserved
            \/ id \in Nat /\ n \in Names /\ reserved' = [reserved EXCEPT ![n] = id]
        BY Zenon, <2>1, <2>2, ClientNames DEF HandshakeTypes
      <4> HIDE DEF n
      <4> QED BY Zenon, <4>1 DEF HandshakeTypes
    <3>4. DOMAIN server_end' = Conns /\ DOMAIN to_client' = Conns
      BY Zenon, <2>2 DEF HandshakeTypes
    <3> QED BY Zenon, <1>3, <3>1, <3>2, <3>3, <3>4 DEF HandshakeTypes
  <2>4. \A j \in Conns \ {k} : Sides(j)'
    BY Zenon, <1>3, <2>2, OthersKept DEF HandshakeTypes
  <2>5. my_id'[k] = id /\ to_client'[k] = Answer(k)' /\ server_end'[k] \in {"failed", "answered"}
        /\ (server_end'[k] = "answered" => client_of[k].id # id)
    BY Zenon, <2>2 DEF HandshakeTypes, Answer, Same
  <2>6. Exchanged(k)'
    BY Zenon, <1>1, <1>3, <2>1, <2>5 DEF Exchanged, Asked
  <2>7. ServerSide(k)' /\ ClientSide(k)'
    BY Zenon, <1>1, <1>3, <1>4, <2>5 DEF Sides, ServerSide, ClientSide
  <2> QED BY Zenon, <2>3, <2>4, <2>6, <2>7 DEF Sides
<1> QED BY Zenon, <1>5, <1>6

(* The first connection of a network makes its entry; the others match it. *)
LEMMA ForeignStep ==
    ASSUME HandshakeInv, UNCHANGED client_of, NEW k \in Conns, ServerAdmitsForeign(k)
    PROVE  HandshakeInv'
<1> USE DEF HandshakeInv
<1> DEFINE n == client_of[k].name
           own == [id |-> my_id[k], secret |-> client_of[k].secret]
<1>1. /\ to_server[k] = Asked(k) /\ to_client[k] = Answer(k) /\ my_id[k] # client_of[k].id
      /\ server_end[k] = "answered"
  BY Zenon DEF ServerAdmitsForeign, Sides, Exchanged
<1>2. to_server[k][1].name = n /\ to_server[k][1].secret = client_of[k].secret
  BY Zenon, <1>1, Messages
<1>3. n # Accepting.name /\ n \in Names /\ own \in [id : Nat, secret : Secrets]
  BY Zenon, <1>2, ClientNames DEF ServerAdmitsForeign, HandshakeTypes
<1>4. UNCHANGED <<client_end, to_server, to_client, my_id, info, reserved, ids>>
  BY Zenon DEF ServerAdmitsForeign
<1>5. /\ DOMAIN server_end' = Conns /\ \A j \in Conns \ {k} : server_end'[j] = server_end[j]
      /\ server_end'[k] \in {"failed", "foreign"}
  BY Zenon DEF ServerAdmitsForeign, HandshakeTypes
<1>6. \/ entry' = entry /\ (server_end'[k] = "foreign" => entry[n] = own)
      \/ entry[n] = NoNet /\ entry' = [entry EXCEPT ![n] = own]
  <2>1. CASE entry[n] = NoNet
    BY Zenon, <1>2, <2>1 DEF ServerAdmitsForeign, HandshakeTypes
  <2>2. CASE entry[n] # NoNet
    <3>1. entry[n] \in [id : Nat, secret : Secrets] /\ entry = [entry EXCEPT ![n] = entry[n]]
      BY Zenon, <1>3, <2>2 DEF HandshakeTypes
    <3>2. entry' = entry /\ (server_end'[k] = "foreign" => Matches(entry[n], k))
      BY Zenon, <1>2, <2>2, <3>1 DEF ServerAdmitsForeign, HandshakeTypes
    <3> QED BY Zenon, <1>2, <3>1, <3>2 DEF Matches
  <2> QED BY Zenon, <2>1, <2>2
<1> HIDE DEF own
<1>7. HandshakeTypes'
  BY <1>3, <1>4, <1>5, <1>6 DEF HandshakeTypes
<1>8. \A j \in Conns : server_end[j] = "foreign" => entry'[client_of[j].name] = entry[client_of[j].name]
  <2> SUFFICES ASSUME NEW j \in Conns, server_end[j] = "foreign", client_of[j].name = n, entry[n] = NoNet
               PROVE  FALSE
    BY Zenon, <1>3, <1>6, ClientNames DEF HandshakeTypes, Sides, ServerSide
  <2>1. entry[n] = [id |-> my_id[j], secret |-> client_of[j].secret]
    BY Zenon DEF Sides, ServerSide
  <2>2. entry[n] \in [id : Nat, secret : Secrets]
    BY <2>1, ClientNames DEF HandshakeTypes
  <2> QED BY Zenon, <2>2, HandshakeAssumption
<1>9. \A j \in Conns \ {k} : Sides(j)'
  BY Zenon, <1>4, <1>5, <1>8, OthersKept
<1>10. server_end'[k] = "foreign" => entry'[n] = own
  BY Zenon, <1>3, <1>6 DEF HandshakeTypes
<1>11. Exchanged(k)'
  BY Zenon, <1>1, <1>4, <1>5 DEF Sides, Exchanged, Asked, Answer, Same
<1>12. ServerSide(k)'
  BY Zenon, <1>3, <1>4, <1>5, <1>10 DEF ServerSide, own
<1>13. ClientSide(k)'
  BY Zenon, <1>1, <1>4, <1>5 DEF Sides, ClientSide, Answer, Admission, Same
<1> QED BY Zenon, <1>7, <1>9, <1>11, <1>12, <1>13 DEF Sides

LEMMA EndStep ==
    ASSUME HandshakeInv, UNCHANGED client_of, NEW k \in Conns, EndConn(k)
    PROVE  HandshakeInv'
<1> USE DEF HandshakeInv
<1>1. /\ UNCHANGED <<to_server, to_client, my_id, info, reserved, ids>>
      /\ server_end[k] \in {"own", "foreign"}
      /\ server_end' = [server_end EXCEPT ![k] = "closed"]
      /\ client_end' = [client_end EXCEPT ![k] = "closed"]
  BY Zenon DEF EndConn
<1>2. HandshakeTypes'
  BY Zenon, <1>1 DEF HandshakeTypes, EndConn
<1>3. \A j \in Conns \ {k} : server_end[j] = "foreign" => entry'[client_of[j].name] = entry[client_of[j].name]
  BY Zenon, ClientNames DEF EndConn, HandshakeTypes, Sides, ServerSide
<1>4. \A j \in Conns \ {k} : Sides(j)'
  BY Zenon, <1>1, <1>3, OthersKept DEF HandshakeTypes
<1>5. Sides(k)'
  BY Zenon, <1>1 DEF HandshakeTypes, Sides, Exchanged, ServerSide, ClientSide, Asked, Answer, Same
<1> QED BY Zenon, <1>2, <1>4, <1>5

LEMMA HandshakeInvStep == HandshakeInv /\ [HandshakeNext]_handshakeVars => HandshakeInv'
<1> SUFFICES ASSUME HandshakeInv, [HandshakeNext]_handshakeVars PROVE HandshakeInv'
  OBVIOUS
<1>1. CASE UNCHANGED handshakeVars
  BY Zenon, <1>1, OthersKept DEF handshakeVars, HandshakeInv, HandshakeTypes
<1>2. ASSUME NEW k \in Conns, ReleaseReservation(k), UNCHANGED client_of PROVE HandshakeInv'
  BY Zenon, <1>2, OthersKept, HandshakeAssumption DEF HandshakeInv, HandshakeTypes, ReleaseReservation
<1> QED BY Zenon, <1>1, <1>2, ClientStep, RefuseStep, AnswerStep, ForeignStep, EndStep DEF HandshakeNext

(* The two ends of a connection never disagree on what it is, whatever     *)
(* connections are accepted at the same time: the kind, the id, the secret *)
(* and the one entry of a foreign network.                                 *)
THEOREM EndsAlwaysAgree == HandshakeSpec => []EndsAgree
<1>1. HandshakeInv => EndsAgree
  <2> SUFFICES ASSUME HandshakeInv, NEW k \in Conns
               PROVE  /\ server_end[k] = "foreign" =>
                           /\ entry[client_of[k].name] = [id |-> my_id[k], secret |-> client_of[k].secret]
                           /\ info[k] # NoNet => client_end[k] = "foreign" /\ info[k].id = my_id[k]
                      /\ server_end[k] = "own" =>
                           client_end[k] # "foreign" /\ client_of[k].secret = Accepting.secret
                      /\ client_end[k] = "own" =>
                           info[k].id = Accepting.id /\ client_of[k].secret = Accepting.secret
                      /\ to_client[k] # <<>> /\ to_client[k][1].secret # Zero =>
                           client_of[k].secret = Accepting.secret
    BY Zenon DEF EndsAgree
  <2>1. Sides(k)
    BY Zenon DEF HandshakeInv
  <2>2. /\ Answer(k)[1].id = my_id[k] /\ Answer(k) # <<>>
        /\ Answer(k)[1].secret = IF Same(k) THEN Accepting.secret ELSE Zero
    BY Zenon, Messages
  <2> QED BY Zenon, <2>1, <2>2 DEF Sides, Exchanged, ServerSide, ClientSide, Admission, Same
<1> QED BY <1>1, HandshakeInitInv, HandshakeInvStep, PTL DEF HandshakeSpec

-----------------------------------------------------------------------------
UdpPacket == [type : {"syn", "sack", "lossy", "data"}, conn : UdpConn]
Tunnel == [conn : UdpConn, ring : Seq(UdpPacket), forward : {"runs", "aborted", "ended"}, open : BOOLEAN]
Closing(a) == \E i \in DOMAIN close_events : close_events[i] = a

TunnelTypes ==
    /\ net \subseteq UdpPacket /\ tunnels \in Seq(Tunnel) /\ close_events \in Seq(Addrs)
    /\ sock_map \in [Addrs -> Nat \cup {NoTunnel}]

Sound(c, r) == \A i \in DOMAIN r : r[i].conn = c /\ (i > Cap - Reserved => r[i].type = "data")

RingSound(t) == Sound(tunnels[t].conn, tunnels[t].ring)

(* An address leads to a tunnel of its own, which is served or about to go.*)
Mapped(a) ==
    sock_map[a] # NoTunnel =>
      /\ sock_map[a] \in DOMAIN tunnels /\ AddrOf[tunnels[sock_map[a]].conn] = a
      /\ tunnels[sock_map[a]].forward # "runs" => Closing(a)

InUse(t) == tunnels[t].open /\ tunnels[t].forward = "runs" => sock_map[AddrOf[tunnels[t].conn]] = t

TunnelInv == /\ TunnelTypes
             /\ \A t \in DOMAIN tunnels : RingSound(t) /\ InUse(t)
             /\ \A a \in Addrs : Mapped(a)

-----------------------------------------------------------------------------
LEMMA Replaced ==
    ASSUME NEW S, NEW q \in Seq(S), NEW t \in DOMAIN q, NEW e \in S, NEW r, r = [q EXCEPT ![t] = e]
    PROVE  /\ r \in Seq(S) /\ Len(r) = Len(q) /\ DOMAIN r = DOMAIN q
           /\ r[t] = e /\ \A u \in DOMAIN q \ {t} : r[u] = q[u]
OBVIOUS

LEMMA Added ==
    ASSUME NEW S, NEW q \in Seq(S), NEW e \in S
    PROVE  /\ Append(q, e) \in Seq(S) /\ Len(Append(q, e)) = Len(q) + 1
           /\ DOMAIN Append(q, e) = DOMAIN q \cup {Len(q) + 1}
           /\ Append(q, e)[Len(q) + 1] = e /\ Len(q) + 1 \notin DOMAIN q
           /\ \A i \in DOMAIN q : Append(q, e)[i] = q[i]
OBVIOUS

LEMMA TakenOff ==
    ASSUME NEW S, NEW q \in Seq(S), q # <<>>
    PROVE  /\ Tail(q) \in Seq(S) /\ Head(q) \in S /\ Head(q) = q[1]
           /\ \A i \in DOMAIN Tail(q) : i \in Nat /\ i + 1 \in DOMAIN q /\ Tail(q)[i] = q[i + 1]
           /\ \A i \in DOMAIN q : i = 1 \/ (i - 1 \in DOMAIN Tail(q) /\ Tail(q)[i - 1] = q[i])
OBVIOUS

LEMMA TunnelType ==
    ASSUME tunnels \in Seq(Tunnel), NEW t \in DOMAIN tunnels
    PROVE  /\ tunnels[t] \in Tunnel /\ tunnels[t].conn \in UdpConn /\ AddrOf[tunnels[t].conn] \in Addrs
           /\ tunnels[t].ring \in Seq(UdpPacket) /\ t \in Nat /\ t # 0
<1>1. tunnels[t] \in Tunnel /\ t \in Nat /\ t # 0
  OBVIOUS
<1>2. tunnels[t].conn \in UdpConn /\ tunnels[t].ring \in Seq(UdpPacket)
  BY Zenon, <1>1 DEF Tunnel
<1> QED BY Zenon, <1>1, <1>2, UdpTunnelAssumption

(* One tunnel changes, and none comes into use by it.                      *)
LEMMA ChangeTunnel ==
    ASSUME TunnelInv, NEW t \in DOMAIN tunnels, NEW e \in Tunnel,
           tunnels' = [tunnels EXCEPT ![t] = e], e.conn = tunnels[t].conn,
           Sound(e.conn, e.ring),
           e.open /\ e.forward = "runs" => sock_map[AddrOf[e.conn]] = t,
           UNCHANGED <<net, sock_map>>, close_events' \in Seq(Addrs),
           \A a \in Addrs : Closing(a) => Closing(a)',
           e.forward # "runs" => \/ tunnels[t].forward # "runs"
                                 \/ (\E a \in Addrs : a = AddrOf[e.conn] /\ Closing(a)')
    PROVE  TunnelInv'
<1> USE DEF TunnelInv
<1>1. /\ tunnels' \in Seq(Tunnel) /\ DOMAIN tunnels' = DOMAIN tunnels
      /\ tunnels'[t] = e /\ \A u \in DOMAIN tunnels \ {t} : tunnels'[u] = tunnels[u]
  BY Zenon, Replaced DEF TunnelTypes
<1>2. TunnelTypes'
  BY Zenon, <1>1 DEF TunnelTypes
<1>3. \A u \in DOMAIN tunnels' : RingSound(u)' /\ InUse(u)'
  BY Zenon, <1>1 DEF RingSound, InUse
<1>4. ASSUME NEW a \in Addrs PROVE Mapped(a)'
  BY <1>1, <1>4 DEF Mapped
<1> QED BY Zenon, <1>2, <1>3, <1>4

LEMMA ClosingKept ==
    ASSUME TunnelInv, UNCHANGED close_events
    PROVE  close_events' \in Seq(Addrs) /\ \A a \in Addrs : Closing(a) => Closing(a)'
BY Zenon DEF TunnelInv, TunnelTypes, Closing

LEMMA PacketStep ==
    ASSUME TunnelInv, NEW p \in net, HandlePacket(p)
    PROVE  TunnelInv'
<1> USE DEF TunnelInv
<1> DEFINE t == sock_map[AddrOf[p.conn]]
           e == [tunnels[t] EXCEPT !.ring = Append(@, p)]
<1>1. p \in UdpPacket /\ AddrOf[p.conn] \in Addrs
  BY Zenon, UdpTunnelAssumption DEF TunnelTypes, UdpPacket
<1>2. t \in DOMAIN tunnels
  BY Zenon, <1>1 DEF HandlePacket, Mapped
<1>3. /\ tunnels[t] \in Tunnel /\ tunnels[t].ring \in Seq(UdpPacket)
  BY Zenon, <1>2, TunnelType DEF TunnelTypes
<1>4. /\ p.type \in {"lossy", "data"} /\ tunnels[t].conn = p.conn /\ Fits(t, p)
      /\ tunnels' = [tunnels EXCEPT ![t].ring = Append(@, p)]
      /\ UNCHANGED <<net, sock_map, close_events>>
  BY Zenon DEF HandlePacket, OfThisConn
<1> HIDE DEF t
<1>5. Append(tunnels[t].ring, p) \in Seq(UdpPacket)
  BY Zenon, <1>1, <1>3, Added
<1>6. /\ e \in Tunnel /\ e.conn = tunnels[t].conn /\ e.ring = Append(tunnels[t].ring, p)
      /\ e.open = tunnels[t].open /\ e.forward = tunnels[t].forward
      /\ tunnels' = [tunnels EXCEPT ![t] = e]
  BY Zenon, <1>3, <1>4, <1>5 DEF Tunnel
<1>7. Sound(p.conn, Append(tunnels[t].ring, p))
  <2>1. Len(tunnels[t].ring) + 1 > Cap - Reserved => p.type = "data"
    BY <1>3, <1>4, UdpTunnelAssumption DEF Fits
  <2>2. \A i \in DOMAIN tunnels[t].ring : /\ tunnels[t].ring[i].conn = p.conn
                                          /\ i > Cap - Reserved => tunnels[t].ring[i].type = "data"
    BY Zenon, <1>2, <1>4 DEF RingSound, Sound
  <2> QED BY <1>1, <1>3, <2>1, <2>2, Added, UdpTunnelAssumption DEF Sound
<1> HIDE DEF e
<1>8. close_events' \in Seq(Addrs) /\ \A a \in Addrs : Closing(a) => Closing(a)'
  BY Zenon, <1>4, ClosingKept
<1>9. /\ e.forward = tunnels[t].forward /\ UNCHANGED <<net, sock_map>>
  BY Zenon, <1>4, <1>6
<1>10. e.open /\ e.forward = "runs" => sock_map[AddrOf[e.conn]] = t
  BY Zenon, <1>2, <1>6 DEF InUse
<1>11. Sound(e.conn, e.ring)
  BY Zenon, <1>4, <1>6, <1>7
<1>12. e \in Tunnel /\ e.conn = tunnels[t].conn /\ tunnels' = [tunnels EXCEPT ![t] = e]
  BY Zenon, <1>6
<1> QED BY Zenon, <1>2, <1>8, <1>9, <1>11, <1>12, <1>10, ChangeTunnel

LEMMA ReadStep ==
    ASSUME TunnelInv, NEW t \in DOMAIN tunnels, UserReads(t)
    PROVE  TunnelInv'
<1> USE DEF TunnelInv
<1> DEFINE e == [tunnels[t] EXCEPT !.ring = Tail(@)]
<1>1. /\ tunnels[t] \in Tunnel /\ tunnels[t].ring \in Seq(UdpPacket)
  BY Zenon, TunnelType DEF TunnelTypes
<1>2. /\ tunnels[t].ring # <<>> /\ tunnels' = [tunnels EXCEPT ![t].ring = Tail(@)]
      /\ UNCHANGED <<net, sock_map, close_events>>
  BY Zenon DEF UserReads
<1>3. Tail(tunnels[t].ring) \in Seq(UdpPacket)
  BY Zenon, <1>1, <1>2, TakenOff
<1>4. /\ e \in Tunnel /\ e.conn = tunnels[t].conn /\ e.ring = Tail(tunnels[t].ring)
      /\ e.open = tunnels[t].open /\ e.forward = tunnels[t].forward
      /\ tunnels' = [tunnels EXCEPT ![t] = e]
  BY Zenon, <1>1, <1>2, <1>3 DEF Tunnel
<1>5. Sound(tunnels[t].conn, Tail(tunnels[t].ring))
  <2> SUFFICES ASSUME NEW i \in DOMAIN Tail(tunnels[t].ring)
               PROVE  /\ Tail(tunnels[t].ring)[i].conn = tunnels[t].conn
                      /\ i > Cap - Reserved => Tail(tunnels[t].ring)[i].type = "data"
    BY Zenon DEF Sound
  <2>1. i \in Nat /\ i + 1 \in DOMAIN tunnels[t].ring /\ Tail(tunnels[t].ring)[i] = tunnels[t].ring[i + 1]
    BY Zenon, <1>1, <1>2, TakenOff
  <2> QED BY <2>1, UdpTunnelAssumption DEF RingSound, Sound
<1> HIDE DEF e
<1>6. close_events' \in Seq(Addrs) /\ \A a \in Addrs : Closing(a) => Closing(a)'
  BY Zenon, <1>2, ClosingKept
<1>7. /\ e.forward = tunnels[t].forward /\ UNCHANGED <<net, sock_map>>
  BY Zenon, <1>2, <1>4
<1>8. e.open /\ e.forward = "runs" => sock_map[AddrOf[e.conn]] = t
  BY Zenon, <1>4 DEF InUse
<1>9. Sound(e.conn, e.ring)
  BY Zenon, <1>4, <1>5
<1>10. e \in Tunnel /\ e.conn = tunnels[t].conn /\ tunnels' = [tunnels EXCEPT ![t] = e]
  BY Zenon, <1>4
<1> QED BY Zenon, <1>6, <1>7, <1>9, <1>10, <1>8, ChangeTunnel

LEMMA CloseStep ==
    ASSUME TunnelInv, NEW t \in DOMAIN tunnels, UserCloses(t) \/ ForwardEnds(t)
    PROVE  TunnelInv'
<1> USE DEF TunnelInv
<1>1. tunnels[t] \in Tunnel /\ AddrOf[tunnels[t].conn] \in Addrs
  BY Zenon, TunnelType DEF TunnelTypes
<1>2. CASE UserCloses(t)
  <2> DEFINE e == [tunnels[t] EXCEPT !.open = FALSE, !.ring = <<>>]
  <2>1. /\ tunnels' = [tunnels EXCEPT ![t].open = FALSE, ![t].ring = <<>>]
        /\ UNCHANGED <<net, sock_map, close_events>>
    BY Zenon, <1>2 DEF UserCloses
  <2>2. tunnels' = [tunnels EXCEPT ![t] = e]
    BY Zenon, <2>1
  <2>3. <<>> \in Seq(UdpPacket)
    OBVIOUS
  <2>4. /\ e \in Tunnel /\ e.conn = tunnels[t].conn /\ e.ring = <<>> /\ e.open = FALSE
        /\ e.forward = tunnels[t].forward
    BY Zenon, <1>1, <2>3 DEF Tunnel
  <2>5. close_events' \in Seq(Addrs) /\ \A a \in Addrs : Closing(a) => Closing(a)'
    BY Zenon, <2>1, ClosingKept
  <2> HIDE DEF e
  <2>6. Sound(e.conn, e.ring)
    BY <2>4 DEF Sound
  <2> QED BY Zenon, <2>1, <2>2, <2>4, <2>5, <2>6, ChangeTunnel
<1>3. CASE ForwardEnds(t)
  <2> DEFINE e == [tunnels[t] EXCEPT !.forward = "ended"]
  <2> PICK a \in Addrs : a = AddrOf[tunnels[t].conn]
    BY Zenon, <1>1
  <2>1. /\ e \in Tunnel /\ e.conn = tunnels[t].conn /\ e.ring = tunnels[t].ring /\ e.open = tunnels[t].open
        /\ e.forward = "ended" /\ tunnels' = [tunnels EXCEPT ![t] = e]
        /\ close_events' = Append(close_events, a) /\ UNCHANGED <<net, sock_map>>
    BY Zenon, <1>1, <1>3 DEF Tunnel, ForwardEnds
  <2>2. close_events' \in Seq(Addrs) /\ Closing(a)' /\ \A b \in Addrs : Closing(b) => Closing(b)'
    BY <1>1, <2>1, Added DEF Closing, TunnelTypes
  <2> HIDE DEF e
  <2> QED BY Zenon, <2>1, <2>2, ChangeTunnel DEF RingSound
<1> QED BY Zenon, <1>2, <1>3

-----------------------------------------------------------------------------
LEMMA DroppedTunnel ==
    ASSUME TunnelInv, NEW a \in Addrs, NEW ts, ts = Dropped(tunnels, sock_map[a])
    PROVE  /\ ts \in Seq(Tunnel) /\ Len(ts) = Len(tunnels) /\ DOMAIN ts = DOMAIN tunnels
           /\ \A t \in DOMAIN tunnels : /\ ts[t].conn = tunnels[t].conn /\ ts[t].ring = tunnels[t].ring
                                        /\ t # sock_map[a] => ts[t] = tunnels[t]
                                        /\ t = sock_map[a] => ts[t].forward # "runs"
<1> USE DEF TunnelInv
<1> DEFINE t == sock_map[a]
<1>1. CASE t = NoTunnel
  BY Zenon, <1>1, TunnelType, UdpTunnelAssumption DEF Dropped, TunnelTypes
<1>2. CASE t # NoTunnel
  <2>1. t \in DOMAIN tunnels /\ tunnels[t] \in Tunnel
    BY Zenon, <1>2, TunnelType DEF Mapped, TunnelTypes
  <2>2. CASE tunnels[t].forward # "runs"
    BY Zenon, <2>1, <2>2 DEF Dropped, TunnelTypes
  <2>3. CASE tunnels[t].forward = "runs"
    <3> DEFINE e == [tunnels[t] EXCEPT !.forward = "aborted"]
    <3>1. /\ e \in Tunnel /\ e.conn = tunnels[t].conn /\ e.ring = tunnels[t].ring
          /\ e.forward = "aborted" /\ ts = [tunnels EXCEPT ![t] = e]
      BY Zenon, <1>2, <2>1, <2>3 DEF Tunnel, Dropped
    <3> HIDE DEF e
    <3> QED BY <2>1, <3>1, Replaced DEF TunnelTypes
  <2> QED BY Zenon, <2>2, <2>3
<1> QED BY Zenon, <1>1, <1>2

LEMMA NewConnectStep ==
    ASSUME TunnelInv, NEW c \in UdpConn, HandleNewConnect(c)
    PROVE  TunnelInv'
<1> USE UdpTunnelAssumption DEF TunnelInv
<1>1. PICK n \in Nat : n = Len(tunnels) + 1
  <2>1. Len(tunnels) \in Nat
    BY DEF TunnelTypes
  <2> QED BY <2>1
<1> DEFINE a == AddrOf[c]
           ts == Dropped(tunnels, sock_map[a])
           e == [conn |-> c, ring |-> <<>>, forward |-> "runs", open |-> TRUE]
<1>2. /\ a \in Addrs /\ n # NoTunnel /\ e \in Tunnel
      /\ e.conn = c /\ e.ring = <<>> /\ e.forward = "runs" /\ e.open = TRUE
  <2>1. a \in Addrs
    BY Zenon, UdpTunnelAssumption
  <2>2. Len(tunnels) \in Nat
    BY DEF TunnelTypes
  <2>3. n # NoTunnel
    BY <1>1, <2>2, UdpTunnelAssumption
  <2>4. e \in Tunnel
    BY DEF Tunnel
  <2> QED BY Zenon, <2>1, <2>3, <2>4
<1>3. /\ net' = net \cup {Packet("sack", c)} /\ tunnels' = Append(ts, e)
      /\ sock_map' = [sock_map EXCEPT ![a] = n] /\ UNCHANGED close_events
  BY Zenon, <1>1 DEF HandleNewConnect
<1>4. /\ ts \in Seq(Tunnel) /\ Len(ts) = Len(tunnels) /\ DOMAIN ts = DOMAIN tunnels
      /\ \A t \in DOMAIN tunnels : /\ ts[t].conn = tunnels[t].conn /\ ts[t].ring = tunnels[t].ring
                                   /\ t # sock_map[a] => ts[t] = tunnels[t]
                                   /\ t = sock_map[a] => ts[t].forward # "runs"
  BY Zenon, <1>2, DroppedTunnel
<1> HIDE DEF ts, e
<1>5. /\ tunnels' \in Seq(Tunnel) /\ DOMAIN tunnels' = DOMAIN tunnels \cup {n}
      /\ tunnels'[n] = e /\ n \notin DOMAIN tunnels /\ \A t \in DOMAIN tunnels : tunnels'[t] = ts[t]
  <2>1. /\ Append(ts, e) \in Seq(Tunnel) /\ DOMAIN Append(ts, e) = DOMAIN ts \cup {n}
        /\ Append(ts, e)[n] = e /\ n \notin DOMAIN ts
        /\ \A t \in DOMAIN ts : Append(ts, e)[t] = ts[t]
    BY <1>1, <1>2, <1>4, Added
  <2> QED BY Zenon, <1>3, <1>4, <2>1
<1>6. sock_map' \in [Addrs -> Nat \cup {NoTunnel}] /\ sock_map'[a] = n
      /\ \A b \in Addrs \ {a} : sock_map'[b] = sock_map[b]
  BY Zenon, <1>2, <1>3 DEF TunnelTypes
<1>7. TunnelTypes'
  BY <1>3, <1>5, <1>6 DEF TunnelTypes, UdpPacket, Packet
<1>8. \A t \in DOMAIN tunnels' : RingSound(t)' /\ InUse(t)'
  <2>1. RingSound(n)' /\ InUse(n)'
    BY <1>2, <1>5, <1>6 DEF RingSound, Sound, InUse
  <2>2. ASSUME NEW t \in DOMAIN tunnels PROVE RingSound(t)' /\ InUse(t)'
    <3>1. RingSound(t)'
      BY Zenon, <1>4, <1>5, <2>2 DEF RingSound
    <3>2. InUse(t)'
      BY <1>4, <1>5, <1>6, <2>2, TunnelType DEF InUse, TunnelTypes
    <3> QED BY Zenon, <3>1, <3>2
  <2> QED BY Zenon, <1>5, <2>1, <2>2
<1>9. \A b \in Addrs : Mapped(b)'
  <2>1. Mapped(a)'
    BY Zenon, <1>2, <1>5, <1>6 DEF Mapped
  <2>2. ASSUME NEW b \in Addrs \ {a} PROVE Mapped(b)'
    <3>1. sock_map[b] # NoTunnel => sock_map[b] \in DOMAIN tunnels /\ sock_map[b] # sock_map[a]
      BY Zenon, <1>2, <2>2 DEF Mapped
    <3>2. Closing(b) => Closing(b)'
      BY Zenon, <1>3 DEF Closing
    <3>3. sock_map'[b] = sock_map[b] /\ (sock_map[b] # NoTunnel => tunnels'[sock_map[b]] = tunnels[sock_map[b]])
      BY Zenon, <1>4, <1>5, <1>6, <2>2, <3>1
    <3> QED BY Zenon, <1>5, <2>2, <3>1, <3>2, <3>3 DEF Mapped
  <2> QED BY Zenon, <2>1, <2>2
<1> QED BY Zenon, <1>7, <1>8, <1>9

LEMMA CloseEventStep ==
    ASSUME TunnelInv, HandleClose
    PROVE  TunnelInv'
<1> USE UdpTunnelAssumption DEF TunnelInv
<1>1. close_events \in Seq(Addrs) /\ close_events # <<>>
  BY Zenon DEF HandleClose, TunnelTypes
<1> PICK a \in Addrs : a = Head(close_events)
  BY Zenon, <1>1, TakenOff
<1>2. /\ tunnels' = Dropped(tunnels, sock_map[a]) /\ sock_map' = [sock_map EXCEPT ![a] = NoTunnel]
      /\ close_events' = Tail(close_events) /\ UNCHANGED net
  BY Zenon DEF HandleClose
<1>3. close_events' \in Seq(Addrs) /\ \A b \in Addrs \ {a} : Closing(b) => Closing(b)'
  <2>1. /\ Tail(close_events) \in Seq(Addrs) /\ a = close_events[1]
        /\ \A i \in DOMAIN close_events :
              i = 1 \/ (i - 1 \in DOMAIN Tail(close_events) /\ Tail(close_events)[i - 1] = close_events[i])
    BY <1>1, TakenOff
  <2> QED BY Zenon, <1>2, <2>1 DEF Closing
<1>4. /\ tunnels' \in Seq(Tunnel) /\ DOMAIN tunnels' = DOMAIN tunnels
      /\ \A t \in DOMAIN tunnels : /\ tunnels'[t].conn = tunnels[t].conn
                                   /\ tunnels'[t].ring = tunnels[t].ring
                                   /\ t # sock_map[a] => tunnels'[t] = tunnels[t]
                                   /\ t = sock_map[a] => tunnels'[t].forward # "runs"
  BY <1>2, DroppedTunnel
<1>5. sock_map' \in [Addrs -> Nat \cup {NoTunnel}] /\ sock_map'[a] = NoTunnel
      /\ \A b \in Addrs \ {a} : sock_map'[b] = sock_map[b]
  BY Zenon, <1>2, <1>3 DEF TunnelTypes
<1>6. TunnelTypes'
  BY Zenon, <1>2, <1>3, <1>4, <1>5 DEF TunnelTypes
<1>7. ASSUME NEW t \in DOMAIN tunnels PROVE RingSound(t)' /\ InUse(t)'
  <2>1. RingSound(t)'
    BY Zenon, <1>4, <1>7 DEF RingSound
  <2>2. InUse(t)'
    BY <1>4, <1>5, <1>7, TunnelType DEF InUse, TunnelTypes
  <2> QED BY Zenon, <2>1, <2>2
<1>8. Mapped(a)'
  BY Zenon, <1>5 DEF Mapped
<1>9. ASSUME NEW b \in Addrs \ {a} PROVE Mapped(b)'
  <2>1. sock_map[b] # NoTunnel => sock_map[b] \in DOMAIN tunnels /\ sock_map[b] # sock_map[a]
    BY Zenon, <1>3, <1>9 DEF Mapped
  <2>2. sock_map'[b] = sock_map[b] /\ (sock_map[b] # NoTunnel => tunnels'[sock_map[b]] = tunnels[sock_map[b]])
    BY Zenon, <1>4, <1>5, <1>9, <2>1
  <2> QED BY <1>3, <1>4, <1>9, <2>1, <2>2 DEF Mapped
<1>10. \A b \in Addrs : Mapped(b)'
  BY Zenon, <1>8, <1>9
<1> QED BY Zenon, <1>4, <1>6, <1>7, <1>10

-----------------------------------------------------------------------------
LEMMA TunnelInvInit == UdpTunnelInit => TunnelInv
BY DEF UdpTunnelInit, TunnelInv, TunnelTypes, Mapped

LEMMA ConnectorStep ==
    ASSUME TunnelInv, net' \subseteq UdpPacket, UNCHANGED <<sock_map, tunnels, close_events>>
    PROVE  TunnelInv'
BY Zenon DEF TunnelInv, TunnelTypes, RingSound, InUse, Mapped, Closing

LEMMA TunnelInvStep == TunnelInv /\ [UdpTunnelNext]_udpTunnelVars => TunnelInv'
<1> SUFFICES ASSUME TunnelInv, [UdpTunnelNext]_udpTunnelVars PROVE TunnelInv'
  OBVIOUS
<1>1. CASE UNCHANGED udpTunnelVars
  BY Zenon, <1>1, ConnectorStep DEF udpTunnelVars, TunnelInv, TunnelTypes
<1>2. ASSUME NEW c \in UdpConn, TryConnect(c) \/ WaitSack(c) \/ ClientCloses(c) \/ ClientSends(c)
      PROVE  TunnelInv'
  <2>1. net \subseteq UdpPacket
    BY Zenon DEF TunnelInv, TunnelTypes
  <2>2. net' \subseteq UdpPacket /\ UNCHANGED <<sock_map, tunnels, close_events>>
    BY <1>2, <2>1 DEF TryConnect, WaitSack, ClientCloses, ClientSends, Packet, UdpPacket
  <2> QED BY Zenon, <2>2, ConnectorStep
<1> QED BY Zenon, <1>1, <1>2, NewConnectStep, PacketStep, ReadStep, CloseStep, CloseEventStep DEF UdpTunnelNext

(* Whatever packets are lost, repeated or late, and however often an       *)
(* address is used again, no tunnel of the listener carries what another   *)
(* connection sent, and none is left behind in sock_map or outside of it.  *)
THEOREM TunnelsAlwaysApart == UdpTunnelSpec => []TunnelsApart
<1>1. TunnelInv => TunnelsApart
  BY Zenon DEF TunnelInv, TunnelsApart, RingSound, Sound, InUse, Mapped, Closing
<1> QED BY <1>1, TunnelInvInit, TunnelInvStep, PTL DEF UdpTunnelSpec
=============================================================================
