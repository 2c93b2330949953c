--------------------------- MODULE DirectConnector --------------------------
(***************************************************************************)
(* connector/direct.rs: a node dials the peers it knows from the routes at *)
(* the addresses of their listeners.  This is one node and one peer, dst.  *)
(* A task asks dst for its listeners and addresses by RPC, and dials those *)
(* of one protocol after those of another, each address in a task of its   *)
(* own that tries a few times and then puts it on a blacklist for a while. *)
(* An address in a local network may belong to somebody else: the          *)
(* connection is closed again.                                             *)
(***************************************************************************)
EXTENDS Naturals, SequencesExt, FiniteSetsExt

CONSTANTS IpLists,       \* answers to get_ip_list: [listeners, v4, v6, v6_local]
          DefaultProtocol, EnableIpv6,
          Tries,         \* times an address is dialled, 4
          Stranger,      \* addresses that belong to another peer
          MaxDirectLosses   \* bound

VARIABLES ip_list,      \* what dst answers
          direct,       \* has_directly_connected_conn(dst)
          stray,        \* addresses by which there is a connection to another peer
          url_black,    \* dst_listener_blacklist
          peer_black,   \* dst is in peer_black_list
          dialing,      \* peer_task_map: a function on {"dst"} or {}
          attempts,     \* address -> [pc, tries], of the current protocol
          direct_losses

directVars == <<ip_list, direct, stray, url_black, peer_black, dialing, attempts, direct_losses>>

NewTask == [pc |-> "check", groups |-> <<>>]
NoAttempts == [a \in {} |-> [pc |-> "none", tries |-> 0]]

DirectInit == /\ ip_list \in IpLists
              /\ direct = FALSE /\ stray = {} /\ url_black = {} /\ peer_black = FALSE
              /\ dialing = [d \in {} |-> NewTask] /\ attempts = NoAttempts /\ direct_losses = 0

-----------------------------------------------------------------------------
(* What to dial: a listener is [scheme, host], with host "any4" or "any6"  *)
(* for all interfaces, else an address and whether it is IPv6.             *)
Usable(l) == l.scheme # "ring" /\ (EnableIpv6 \/ l.host # "any6")

Priority(l) == IF l.scheme = DefaultProtocol THEN 3 ELSE IF l.scheme = "udp" THEN 2 ELSE 1

(* Stable, the highest priority last.                                      *)
SortedListeners(ls) == FlattenSeq([p \in 1 .. 3 |-> SelectSeq(ls, LAMBDA l : Priority(l) = p)])

Addresses(list, l) ==
    {<<l.scheme, h>> : h \in CASE l.host = "any4"     -> list.v4
                               [] l.host = "any6"     -> list.v6 \ list.v6_local
                               [] l.host = "loopback" -> {}
                               [] OTHER               -> {l.host}}

(* Listeners of one scheme at the end of the list are dialled together.    *)
Groups(list) ==
    LET Add(gs, l) == IF gs # <<>> /\ Head(gs).scheme = l.scheme
                      THEN <<[Head(gs) EXCEPT !.addrs = @ \cup Addresses(list, l)]>> \o Tail(gs)
                      ELSE <<[scheme |-> l.scheme, addrs |-> Addresses(list, l)]>> \o gs
    IN  FoldLeft(Add, <<>>, SortedListeners(SelectSeq(list.listeners, Usable)))

Known(list) == UNION {g.addrs : g \in Range(Groups(list))}

-----------------------------------------------------------------------------
Wanted == IF direct \/ peer_black THEN {} ELSE {"dst"}
Running(pc) == "dst" \in DOMAIN dialing /\ dialing["dst"].pc = pc
DirectGo(pc) == dialing' = [dialing EXCEPT !["dst"].pc = pc]

(* The main loop of peers/peer_task.rs aborts a task that is finished or   *)
(* wanted no more, launches a missing one, and sleeps.                     *)
AfterLoop == [d \in Wanted |-> IF d \in DOMAIN dialing /\ ~Running("finished") THEN dialing[d] ELSE NewTask]

(* The attempts of an aborted task are aborted with it, wherever they are. *)
DirectLoop ==
    /\ dialing' = AfterLoop /\ dialing' # dialing
    /\ attempts' = NoAttempts
    /\ UNCHANGED <<ip_list, direct, stray, url_black, peer_black, direct_losses>>

(* do_try_direct_connect                                                   *)
AskIpList ==
    /\ Running("check") /\ ~peer_black
    /\ dialing' = [dialing EXCEPT !["dst"] = [pc |-> "group", groups |-> Groups(ip_list)]]
    /\ UNCHANGED <<ip_list, direct, stray, url_black, peer_black, attempts, direct_losses>>

(* The call fails, perhaps because dst lacks the service.                  *)
AskFails == /\ Running("check") /\ DirectGo("finished")
            /\ peer_black' \in {peer_black, TRUE}
            /\ UNCHANGED <<ip_list, direct, stray, url_black, attempts, direct_losses>>

(* Mutant: only the best protocol is dialled.                              *)
NextGroupOnly ==
    /\ Running("group") /\ \A a \in DOMAIN attempts : attempts[a].pc = "done"
    /\ LET groups == dialing["dst"].groups
       IN  IF direct \/ groups = <<>> \/ attempts # NoAttempts
           THEN DirectGo(IF direct THEN "finished" ELSE "check") /\ attempts' = NoAttempts
           ELSE /\ attempts' = [a \in Head(groups).addrs |-> [pc |-> "start", tries |-> 0]]
                /\ dialing' = [dialing EXCEPT !["dst"].groups = Tail(groups)]
    /\ UNCHANGED <<ip_list, direct, stray, url_black, peer_black, direct_losses>>

(* do_try_direct_connect_internal: the next protocol once all attempts of  *)
(* the last have ended.                                                    *)
NextGroup ==
    /\ Running("group") /\ \A a \in DOMAIN attempts : attempts[a].pc = "done"
    /\ LET groups == dialing["dst"].groups
       IN  IF direct \/ groups = <<>>
           THEN DirectGo(IF direct THEN "finished" ELSE "check") /\ attempts' = NoAttempts
           ELSE /\ attempts' = [a \in Head(groups).addrs |-> [pc |-> "start", tries |-> 0]]
                /\ dialing' = [dialing EXCEPT !["dst"].groups = Tail(groups)]
    /\ UNCHANGED <<ip_list, direct, stray, url_black, peer_black, direct_losses>>

-----------------------------------------------------------------------------
(* try_connect_to_ip                                                       *)
SetPc(a, pc) == attempts' = [attempts EXCEPT ![a].pc = pc]

StartAttempt(a) ==
    /\ attempts[a].pc = "start" /\ SetPc(a, IF a \in url_black \/ direct THEN "done" ELSE "dial")
    /\ UNCHANGED <<ip_list, direct, stray, url_black, peer_black, dialing, direct_losses>>

(* do_try_connect_to_ip: the address answers.                              *)
Dial(a) ==
    /\ attempts[a].pc = "dial"
    /\ IF a[2] \in Stranger THEN stray' = stray \cup {a} /\ SetPc(a, "close") /\ UNCHANGED direct
       ELSE direct' = TRUE /\ SetPc(a, "done") /\ UNCHANGED stray
    /\ UNCHANGED <<ip_list, url_black, peer_black, dialing, direct_losses>>

ClosePeerConn(a) ==
    /\ attempts[a].pc = "close" /\ stray' = stray \ {a} /\ SetPc(a, "failed")
    /\ UNCHANGED <<ip_list, direct, url_black, peer_black, dialing, direct_losses>>

DialFails(a) == /\ attempts[a].pc = "dial" /\ SetPc(a, IF direct THEN "done" ELSE "failed")
                /\ UNCHANGED <<ip_list, direct, stray, url_black, peer_black, dialing, direct_losses>>

BackOff(a) ==
    /\ attempts[a].pc = "failed"
    /\ IF direct THEN SetPc(a, "done") /\ UNCHANGED url_black
       ELSE IF attempts[a].tries < Tries - 1
       THEN /\ attempts' = [attempts EXCEPT ![a] = [pc |-> "dial", tries |-> @.tries + 1]]
            /\ UNCHANGED url_black
       ELSE SetPc(a, "done") /\ url_black' = url_black \cup {a}
    /\ UNCHANGED <<ip_list, direct, stray, peer_black, dialing, direct_losses>>

Attempt(a) == StartAttempt(a) \/ DialFails(a) \/ ClosePeerConn(a) \/ BackOff(a)

(* Time: entries of the blacklists expire, the connection is lost.         *)
UrlExpires(a) == /\ a \in url_black /\ url_black' = url_black \ {a}
                 /\ UNCHANGED <<ip_list, direct, stray, peer_black, dialing, attempts, direct_losses>>
PeerExpires == /\ peer_black /\ peer_black' = FALSE
               /\ UNCHANGED <<ip_list, direct, stray, url_black, dialing, attempts, direct_losses>>
DirectLost == /\ direct /\ direct_losses < MaxDirectLosses
              /\ direct' = FALSE /\ direct_losses' = direct_losses + 1
              /\ UNCHANGED <<ip_list, stray, url_black, peer_black, dialing, attempts>>

DirectNext == \/ DirectLoop \/ AskIpList \/ AskFails \/ NextGroup
              \/ \E a \in DOMAIN attempts : Attempt(a) \/ Dial(a)
              \/ \E a \in url_black : UrlExpires(a)
              \/ PeerExpires \/ DirectLost

AllKnown == UNION {Known(list) : list \in IpLists}

(* As long as dst is not connected directly, each of its addresses is      *)
(* dialled again and again: neither another protocol, nor an address that  *)
(* belongs to somebody else, nor the blacklist, nor the end of a task      *)
(* keeps it from its turn for ever.                                        *)
EveryAddressDialled ==
    \A a \in AllKnown :
        a \in Known(ip_list) => []<>(direct \/ (a \in DOMAIN attempts /\ attempts[a].pc = "dial"))
=============================================================================
