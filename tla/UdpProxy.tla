------------------------------ MODULE UdpProxy ------------------------------
(***************************************************************************)
(* The UDP proxy of a subnet gateway, gateway/udp_proxy.rs.  A datagram of *)
(* a peer makes an entry for its source address and port: a socket of its  *)
(* own, and a task that receives the answers and a second one that sends   *)
(* them back.  The tasks end when no answer has come for two minutes, the  *)
(* entry goes when neither side has used it for three.  Time passes by     *)
(* minutes, and not while a task has something to do.                      *)
(***************************************************************************)
EXTENDS CidrSet

CONSTANTS UdpClient,    \* source addresses with port of clients
          ClientPeer,   \* peers they are behind
          UdpTarget,    \* addresses they send to
          Own,          \* the virtual address of this node
          RecvTimeout, Inactive,   \* minutes: 2 and 3
          Unused

Loopback == <<"loopback", 0>>

(* Nobody asks for the loopback address, and no subnet holds it.           *)
ASSUME UdpAssumption ==
    /\ Loopback \notin UdpTarget
    /\ \A cidrs \in Configs : \A i \in DOMAIN cidrs : cidrs[i].cidr # "loopback"
    /\ {RecvTimeout, Inactive} \subseteq Nat /\ RecvTimeout < Inactive

VARIABLES mode,        \* [exit_node, no_tun], flags of this node
          nat_table,   \* [UdpClient -> an entry or Unused]
          removed      \* entries out of the table whose tasks still run

udpOnly == <<mode, nat_table, removed>>
udpVars == <<udpOnly, cidrVars>>

(* used is a ghost: the addresses that were sent to by this entry.         *)
UdpNatEntry(p, real, mapped) ==
    [peer |-> p, task |-> "running", quiet |-> 0, idle |-> 0, queue |-> <<>>,
     real |-> real, mapped |-> mapped, sockets |-> {}, used |-> {}]

UdpInit == /\ CidrInit
           /\ mode \in [exit_node : BOOLEAN, no_tun : BOOLEAN]
           /\ nat_table = [c \in UdpClient |-> Unused]
           /\ removed = {}

HasEntry(c) == nat_table[c] # Unused
Keep == UNCHANGED <<mode, cidrVars>>

(* What the proxy takes from the pipeline.                                 *)
Takes(d, is_exit) ==
    /\ cidr_set # <<>> \/ mode.exit_node \/ mode.no_tun
    /\ InCidrs(d) \/ is_exit \/ (mode.no_tun /\ d = Own)

(* Where the socket sends to.                                              *)
Socket(d) == IF d = Own THEN Loopback ELSE RealIp(d)

TryHandlePacket(c) ==
    /\ \E p \in ClientPeer, d \in UdpTarget, is_exit \in BOOLEAN :
          /\ Takes(d, is_exit)
          /\ LET e == IF HasEntry(c) THEN nat_table[c] ELSE UdpNatEntry(p, RealIp(d), d)
             IN  nat_table' = [nat_table EXCEPT ![c] =
                   [e EXCEPT !.idle = 0, !.sockets = @ \cup {Socket(d)}, !.used = @ \cup {d}]]
    /\ UNCHANGED removed /\ Keep

(* The receiving task: an answer comes from where something was sent.      *)
Receive(c) ==
    /\ HasEntry(c) /\ nat_table[c].task = "running" /\ nat_table[c].queue = <<>>
    /\ \E a \in nat_table[c].sockets :
          nat_table' = [nat_table EXCEPT ![c].queue = <<a>>, ![c].quiet = 0]
    /\ UNCHANGED removed /\ Keep

ReceiveTimeout(c) ==
    /\ HasEntry(c) /\ nat_table[c].task = "running" /\ nat_table[c].quiet >= RecvTimeout
    /\ nat_table' = [nat_table EXCEPT ![c].task = "ended"]
    /\ UNCHANGED removed /\ Keep

(* Mutant: the address is given back as the socket saw it.                 *)
ShownReal(e, a) == IF a = Loopback THEN Own ELSE a

Shown(e, a) == LET v == IF a = Loopback THEN Own ELSE a
               IN  IF v = e.real THEN e.mapped ELSE v

(* The sending task gives the answer to the peer of the entry, as coming   *)
(* from Shown.                                                             *)
SendBack(c) ==
    /\ HasEntry(c) /\ nat_table[c].queue # <<>>
    /\ nat_table' = [nat_table EXCEPT ![c].queue = <<>>, ![c].idle = 0]
    /\ UNCHANGED removed /\ Keep

is_active(e) == e.idle < Inactive

Cleanup ==
    /\ \E c \in UdpClient : HasEntry(c) /\ ~is_active(nat_table[c])
    /\ LET gone == {c \in UdpClient : HasEntry(c) /\ ~is_active(nat_table[c])}
       IN  /\ nat_table' = [c \in UdpClient |-> IF c \in gone THEN Unused ELSE nat_table[c]]
           /\ removed' = removed \cup {nat_table[c] : c \in {g \in gone : nat_table[g].task = "running"}}
    /\ Keep

Minute ==
    /\ \A c \in UdpClient : HasEntry(c) =>
          /\ nat_table[c].queue = <<>>
          /\ nat_table[c].task = "running" => nat_table[c].quiet < RecvTimeout
    /\ nat_table' = [c \in UdpClient |->
          IF ~HasEntry(c) THEN Unused
          ELSE [nat_table[c] EXCEPT !.idle = IF @ < Inactive THEN @ + 1 ELSE @,
                                    !.quiet = IF nat_table[c].task = "running" THEN @ + 1 ELSE @]]
    /\ nat_table' # nat_table
    /\ UNCHANGED removed /\ Keep

UdpNext == \/ Cleanup \/ Minute
           \/ \E c \in UdpClient : TryHandlePacket(c) \/ Receive(c) \/ ReceiveTimeout(c) \/ SendBack(c)
           \/ CidrNext /\ UNCHANGED udpOnly

UdpSpec == UdpInit /\ [][UdpNext]_udpVars

-----------------------------------------------------------------------------
(* No socket outlives its entry: when the cleanup takes an entry out of    *)
(* the table, the task that reads its socket has given up.  It would find  *)
(* the entry stopped only after one more datagram, and a new entry for the *)
(* same client would have a second socket beside it.                       *)
NoSocketLeft == removed = {}

(* A client sees an answer come from an address that it sent to, though    *)
(* the socket got it from a mapped or a local one.  The entry knows one    *)
(* pair of addresses, those of the datagram it was made for: clients that  *)
(* use a second mapped subnet by one port, or start before the subnets are *)
(* known, are left out.                                                    *)
AnswersFromTarget ==
    \A c \in {k \in UdpClient : HasEntry(k)} :
        LET e == nat_table[c]
        IN  /\ e.real = Configured(e.mapped, conf)
            /\ \A t \in e.used : Configured(t, conf) # t => t = e.mapped
            => \A i \in DOMAIN e.queue : Shown(e, e.queue[i]) \in e.used

(* Answers go back to the client from the address it knows, for as long as *)
(* the entry lives and no longer.                                          *)
RepliesReturn == NoSocketLeft /\ AnswersFromTarget
=============================================================================
