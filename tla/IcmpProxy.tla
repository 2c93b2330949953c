------------------------------ MODULE IcmpProxy -----------------------------
(***************************************************************************)
(* The ICMP proxy of a subnet gateway, gateway/icmp_proxy.rs.  An echo     *)
(* request of a peer is remembered by its real destination, identifier and *)
(* sequence number and sent by a raw socket that all requests share.  A    *)
(* thread takes the replies from the socket, finds the request and sends   *)
(* the reply back as coming from the address that was asked.               *)
(***************************************************************************)
EXTENDS CidrSet, Integers

CONSTANTS EchoClient,   \* source addresses, each behind a peer of its own
          EchoId,       \* pairs of identifier and sequence number
          EchoTarget,   \* addresses asked
          EchoOwn,      \* the virtual address of this node
          MaxEchoes     \* bound: requests, and replies of one

VARIABLES flags,   \* [exit_node, no_tun, socket]: flags, and a raw socket was made
          echoes,    \* nat_table: set of [real, id, client, mapped]
          replies,      \* [real, id] -> replies on their way
          requests,  \* number of requests so far
          due        \* ghost: [client, asked address, id] -> requests less replies given

icmpOnly == <<flags, echoes, replies, requests, due>>
icmpVars == <<icmpOnly, cidrVars>>

EchoKey == {<<a, i>> : a \in EchoTarget, i \in EchoId}

IcmpInit == /\ CidrInit
            /\ flags \in [exit_node : BOOLEAN, no_tun : BOOLEAN, socket : BOOLEAN]
            /\ flags.socket \/ flags.no_tun
            /\ echoes = {} /\ replies = [k \in EchoKey |-> 0]
            /\ requests = 0 /\ due = [x \in EchoClient \X EchoTarget \X EchoId |-> 0]

ClaimsEcho(d, is_exit) ==
    /\ cidr_set # <<>> \/ flags.exit_node \/ flags.no_tun
    /\ InCidrs(d) \/ is_exit \/ (flags.no_tun /\ d = EchoOwn)

(* A request for the same key replaces the older one.                      *)
Remember(e) == echoes' = {o \in echoes : <<o.real, o.id>> # <<e.real, e.id>>} \cup {e}

IcmpNatEntry(c, d, i) == [real |-> RealIp(d), id |-> i, client |-> c, mapped |-> d]

SendEcho(c, d, i) ==
    /\ Remember(IcmpNatEntry(c, d, i))
    /\ replies' = IF flags.socket THEN [replies EXCEPT ![<<RealIp(d), i>>] = @ + 1] ELSE replies
    /\ due' = [due EXCEPT ![<<c, d, i>>] = @ + 1]

(* Without a device, the node answers for itself at once.                  *)
SendIcmpReplyToPeer == UNCHANGED <<echoes, replies, due>>

TryHandlePeerPacket(c) ==
    /\ requests < MaxEchoes /\ requests' = requests + 1
    /\ \E d \in EchoTarget, i \in EchoId, is_exit \in BOOLEAN :
          /\ ClaimsEcho(d, is_exit)
          /\ IF flags.no_tun /\ d = EchoOwn THEN SendIcmpReplyToPeer ELSE SendEcho(c, d, i)
    /\ UNCHANGED <<flags, cidrVars>>

(* The network may lose a reply, or bring it twice.                        *)
LoseEcho == /\ \E k \in EchoKey : replies[k] > 0 /\ replies' = [replies EXCEPT ![k] = @ - 1]
            /\ UNCHANGED <<flags, echoes, requests, due, cidrVars>>
DuplicateEcho ==
    /\ \E k \in EchoKey : replies[k] \in 1 .. MaxEchoes - 1 /\ replies' = [replies EXCEPT ![k] = @ + 1]
    /\ UNCHANGED <<flags, echoes, requests, due, cidrVars>>

(* Mutant: the entry stays for a second reply.                             *)
AnsweredKept(e) == UNCHANGED echoes

Answered(e) == echoes' = echoes \ {e}

(* socket_recv_loop                                                        *)
SocketRecv ==
    /\ \E k \in EchoKey :
          /\ replies[k] > 0 /\ replies' = [replies EXCEPT ![k] = @ - 1]
          /\ IF \E e \in echoes : <<e.real, e.id>> = k
             THEN LET e == CHOOSE f \in echoes : <<f.real, f.id>> = k
                  IN  Answered(e) /\ due' = [due EXCEPT ![<<e.client, e.mapped, e.id>>] = @ - 1]
             ELSE UNCHANGED <<echoes, due>>
    /\ UNCHANGED <<flags, requests, cidrVars>>

(* The cleaner removes the entries that are 20 seconds old, here: some.    *)
CleanEchoes == /\ \E old \in SUBSET echoes \ {{}} : echoes' = echoes \ old
               /\ UNCHANGED <<flags, replies, requests, due, cidrVars>>

IcmpNext == \/ \E c \in EchoClient : TryHandlePeerPacket(c)
            \/ LoseEcho \/ DuplicateEcho \/ SocketRecv \/ CleanEchoes
            \/ CidrNext /\ UNCHANGED icmpOnly

IcmpSpec == IcmpInit /\ [][IcmpNext]_icmpVars

-----------------------------------------------------------------------------
(* Every reply a client gets is one to a request of its own: it comes from *)
(* the address the client asked, mapped or not, with that identifier and   *)
(* number, and there are never more of them than it sent requests, though  *)
(* the socket is shared by all clients, two of them may use one identifier *)
(* at once, replies are duplicated and entries expire.                     *)
EchoesMatch == \A x \in DOMAIN due : due[x] >= 0
=============================================================================
