--------------------------- MODULE ListenerManager --------------------------
(***************************************************************************)
(* instance/listeners.rs: the listeners of a node.  A listener of the      *)
(* configuration on all IPv4 interfaces gets one for IPv6 beside it.  run  *)
(* tries to listen once where that must succeed, then starts a task for    *)
(* each, which listens, accepts until accepting fails, and starts over     *)
(* with a new listener.  When listening itself fails the task still goes   *)
(* on to accept; what comes of that depends on the kind of listener.       *)
(***************************************************************************)
EXTENDS Naturals, SequencesExt

CONSTANTS ListenerConfigs,     \* configurations: sequences of [scheme, host]
          Ipv6,        \* the flag enable_ipv6
          MaxErr       \* err_count at which a task gives up, 5

VARIABLES listener_uris,
          factories,     \* ListenerFactory: [uri, must_succ]
          launched,      \* number of listeners run has got to
          launch,        \* run is "running", or its result: "ok", "err"
          loops,         \* listener -> state of its task
          err_count,     \* listener -> listens that failed since the last success
          running_listeners

listenVars == <<listener_uris, factories, launched, launch, loops, err_count, running_listeners>>

Supported == {"tcp", "udp", "wg", "quic", "ws"}
Ring == [scheme |-> "ring", host |-> "id"]

-----------------------------------------------------------------------------
NeedsIpv6(l) == Ipv6 /\ l.host = "any4" /\ l.scheme # "quic"

Factories(l) ==
    IF l.scheme \notin Supported THEN <<>>
    ELSE <<[uri |-> l, must_succ |-> TRUE]>>
         \o IF NeedsIpv6(l) THEN <<[uri |-> [l EXCEPT !.host = "any6"], must_succ |-> FALSE]>> ELSE <<>>

prepare_listeners(uris) ==
    FoldLeft(LAMBDA fs, l : fs \o Factories(l), <<[uri |-> Ring, must_succ |-> TRUE]>>, uris)

ListenInit ==
    /\ listener_uris \in ListenerConfigs
    /\ factories = prepare_listeners(listener_uris)
    /\ launched = 0 /\ launch = "running"
    /\ loops = [i \in DOMAIN factories |-> "none"]
    /\ err_count = [i \in DOMAIN factories |-> 0]
    /\ running_listeners = {}

Scheme(i) == factories[i].uri.scheme
Go(i, to) == loops' = [loops EXCEPT ![i] = to]

-----------------------------------------------------------------------------
(* run: the listener tried is dropped before the task makes its own.       *)
RunOne ==
    /\ launch = "running" /\ launched < Len(factories)
    /\ launched' = launched + 1 /\ Go(launched + 1, "listen")
    /\ UNCHANGED <<listener_uris, factories, launch, err_count, running_listeners>>

RunFails ==
    /\ launch = "running" /\ launched < Len(factories)
    /\ factories[launched + 1].must_succ /\ Scheme(launched + 1) # "ring"
    /\ launch' = "err"
    /\ UNCHANGED <<listener_uris, factories, launched, loops, err_count, running_listeners>>

RunEnds == /\ launch = "running" /\ launched = Len(factories) /\ launch' = "ok"
           /\ UNCHANGED <<listener_uris, factories, launched, loops, err_count, running_listeners>>

-----------------------------------------------------------------------------
(* run_listener                                                            *)
Listen(i) ==
    /\ loops[i] = "listen" /\ Go(i, "accept")
    /\ err_count' = [err_count EXCEPT ![i] = 0]
    /\ running_listeners' = running_listeners \cup {factories[i].uri}
    /\ UNCHANGED <<listener_uris, factories, launched, launch>>

(* The port is taken, or there are no descriptors left.                    *)
ListenFails(i) ==
    /\ loops[i] = "listen" /\ Scheme(i) # "ring"
    /\ err_count' = [err_count EXCEPT ![i] = @ + 1]
    /\ Go(i, IF err_count[i] + 1 > MaxErr THEN "gone" ELSE "unbound")
    /\ UNCHANGED <<listener_uris, factories, launched, launch, running_listeners>>

(* Accepting on a listener that does not listen: the TCP, WebSocket and    *)
(* QUIC listeners unwrap a socket they do not have, the UDP and WireGuard  *)
(* ones wait on a channel whose sender they hold themselves.               *)
AcceptUnbound(i) ==
    /\ loops[i] = "unbound"
    /\ Go(i, IF Scheme(i) \in {"tcp", "ws", "quic"} THEN "panicked" ELSE "waiting")
    /\ UNCHANGED <<listener_uris, factories, launched, launch, err_count, running_listeners>>

(* Mutant: accepting goes on on the same listener.                         *)
AcceptFailsOnce(i) ==
    /\ loops[i] = "accept" /\ Scheme(i) \in {"tcp", "ws", "wg"} /\ Go(i, "unbound")
    /\ UNCHANGED <<listener_uris, factories, launched, launch, err_count, running_listeners>>

(* Accepting fails for good where the listener can report it: no           *)
(* descriptors for a TCP stream, the UDP socket of WireGuard broken.  The  *)
(* UDP and QUIC listeners never do.                                        *)
AcceptFails(i) ==
    /\ loops[i] = "accept" /\ Scheme(i) \in {"tcp", "ws", "wg"} /\ Go(i, "listen")
    /\ UNCHANGED <<listener_uris, factories, launched, launch, err_count, running_listeners>>

ListenNext == \/ RunOne \/ RunFails \/ RunEnds
              \/ \E i \in DOMAIN factories :
                    Listen(i) \/ ListenFails(i) \/ AcceptUnbound(i) \/ AcceptFails(i)

ListenStep(i) == Listen(i) \/ ListenFails(i) \/ AcceptUnbound(i)

MaxListener == Max({2 * Len(c) + 1 : c \in ListenerConfigs})

ListenFairness ==
    /\ WF_listenVars(RunOne \/ RunFails \/ RunEnds)
    /\ \A i \in 1 .. MaxListener :
          WF_listenVars(i \in DOMAIN factories /\ ListenStep(i))

-----------------------------------------------------------------------------
At(i, states) == i \in DOMAIN factories /\ loops[i] \in states

(* A listener whose listening never fails accepts again and again whatever *)
(* becomes of the other listeners: run_listener gives it a task of its own *)
(* and makes a new listener each time accepting fails.                     *)
KeepsServing ==
    \A i \in 1 .. MaxListener :
        []<>(\/ At(i, {"accept"})
             \/ i \in DOMAIN factories => (err_count[i] > 0 \/ (launch = "err" /\ i > launched)))

(* "retry listen later...", the event of a failed listen says: the task    *)
(* listens again.                                                          *)
ListenRetried == \A i \in 1 .. MaxListener : At(i, {"unbound"}) ~> At(i, {"listen", "gone"})
=============================================================================
