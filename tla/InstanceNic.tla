---------------------------- MODULE InstanceNic -----------------------------
(***************************************************************************)
(* The network device of an instance, instance/instance.rs and             *)
(* instance/virtual_nic.rs: the task that keeps a device with a configured *)
(* address up, or the one that picks an address which no other node is     *)
(* known to have, and the end of the instance, which must leave nobody     *)
(* behind who holds the peer manager.                                      *)
(*                                                                         *)
(* A device is created, or not, by the operating system; its tasks hold    *)
(* the peer manager, and so does the runner of magic DNS, for as long as   *)
(* the device is in nic_ctx.                                               *)
(***************************************************************************)
EXTENDS Naturals, FiniteSets

CONSTANTS Kinds,       \* what may be configured: [ip, no_tun]
          Default,     \* the network of the first node that picks an address
          LastHost,    \* an address is <<network, host>>, host in 0 .. LastHost
          RouteSets,   \* sets of addresses that the others may be known to have
          None,
          MaxTrouble   \* bound: changes of routes, closed devices and failures

(* None is no address.                                                     *)
Nets == {Default} \cup {a[1] : a \in (UNION RouteSets) \ {None}}
ASSUME NicAssumption == LastHost \in Nat /\ None \notin Nets \X (0 .. LastHost)

VARIABLES kind,       \* ip: "v4", "v6" or "dhcp", and the flag no_tun
          routes,     \* addresses of the peers with a route, None for one without
          current,    \* current_dhcp_ip
          ipv4,       \* of the global context
          nic_ctx,    \* "none", "mock", "up" or "dead"
          close_permit,   \* the permit of the close notifier
          doing, next,   \* the task, and the address it makes a device for
          first,      \* nobody has been told of the first round
          dropping,   \* the instance: "no", "dropped", "taken"
          failed,     \* history: the last device could not be made
          late,       \* history: a device was made after the instance took its own
          trouble

nicVars == <<kind, routes, current, ipv4, nic_ctx, close_permit, doing, next, first, dropping, failed,
             late, trouble>>

NicInit ==
    /\ kind \in Kinds /\ routes \in RouteSets
    /\ current = None /\ ipv4 = None /\ nic_ctx = "mock" /\ close_permit = FALSE
    /\ doing = "top" /\ next = None /\ first = TRUE
    /\ dropping = "no" /\ failed = FALSE /\ late = FALSE /\ trouble = 0

(* Strong references to the peer manager: the instance, the task from the  *)
(* upgrade on, and the tasks of a device.  The wait of a device with       *)
(* nothing but an IPv6 address is inside the scope of the upgraded one.    *)
LoopHolds == doing = "create" \/ (doing = "wait" /\ kind.ip = "v6")
Held == dropping = "no" \/ LoopHolds \/ nic_ctx \in {"up", "dead"}

Trouble == trouble < MaxTrouble /\ trouble' = trouble + 1

-----------------------------------------------------------------------------
(* check_for_static_ip                                                     *)
StaticTop ==
    /\ kind.ip # "dhcp" /\ doing = "top"
    /\ doing' = IF Held THEN "create" ELSE "ended"
    /\ close_permit' = FALSE
    /\ UNCHANGED <<kind, routes, current, ipv4, nic_ctx, next, first, dropping, failed, late, trouble>>

UseNewNicCtx == nic_ctx' = "up" /\ late' = (late \/ dropping = "taken")

StaticCreated ==
    /\ kind.ip # "dhcp" /\ doing = "create"
    /\ UseNewNicCtx /\ doing' = "wait" /\ first' = FALSE
    /\ UNCHANGED <<kind, routes, current, ipv4, close_permit, next, dropping, failed, trouble>>

StaticFails ==
    /\ kind.ip # "dhcp" /\ doing = "create" /\ Trouble
    /\ doing' = IF first THEN "ended" ELSE "top"
    /\ UNCHANGED <<kind, routes, current, ipv4, nic_ctx, close_permit, next, first, dropping, failed,
                   late>>

StaticWait ==
    /\ kind.ip # "dhcp" /\ doing = "wait"
    /\ close_permit \/ ~Held
    /\ doing' = IF close_permit THEN "top" ELSE "ended"
    /\ close_permit' = FALSE
    /\ UNCHANGED <<kind, routes, current, ipv4, nic_ctx, next, first, dropping, failed, late, trouble>>

-----------------------------------------------------------------------------
(* check_dhcp_ip_conflict                                                  *)
Used == routes \ {None}
Inets == IF Used = {} THEN {<<Default, 0>>} ELSE Used

(* Mutant: an address is kept although another node has it.                *)
KeepsNet(ip, inet) == ip # None /\ ip[1] = inet[1]

Keeps(ip, inet) == ip # None /\ ip[1] = inet[1] /\ ip \notin Used

Free(net) == {h \in 1 .. LastHost - 1 : <<net, h>> \notin Used}
Candidate(inet) == IF Free(inet[1]) = {} THEN None
                   ELSE <<inet[1], CHOOSE h \in Free(inet[1]) : \A g \in Free(inet[1]) : h <= g>>

Stays(ip, inet) == Keeps(ip, inet) \/ ip = Candidate(inet)

ClearNicCtx == nic_ctx' = "mock"

(* The routes are read once; dhcp_inet is any element of a HashSet.        *)
DhcpTop ==
    /\ kind.ip = "dhcp" /\ doing = "top" /\ Held
    /\ close_permit' = FALSE
    /\ LET ip == IF close_permit THEN None ELSE current
       IN  IF routes = {}
           THEN current' = ip /\ UNCHANGED <<ipv4, nic_ctx, doing, next>>
           ELSE \E inet \in Inets :
                  IF Stays(ip, inet) THEN current' = ip /\ UNCHANGED <<ipv4, nic_ctx, doing, next>>
                  ELSE /\ ClearNicCtx
                       /\ IF kind.no_tun \/ Candidate(inet) = None
                          THEN /\ current' = Candidate(inet) /\ ipv4' = Candidate(inet)
                               /\ UNCHANGED <<doing, next>>
                          ELSE /\ doing' = "create" /\ next' = Candidate(inet)
                               /\ current' = ip /\ UNCHANGED ipv4
    /\ UNCHANGED <<kind, routes, first, dropping, failed, late, trouble>>

DhcpEnds == /\ kind.ip = "dhcp" /\ doing = "top" /\ ~Held /\ doing' = "ended"
            /\ UNCHANGED <<kind, routes, current, ipv4, nic_ctx, close_permit, next, first, dropping,
                           failed, late, trouble>>

DhcpCreated ==
    /\ kind.ip = "dhcp" /\ doing = "create"
    /\ UseNewNicCtx
    /\ current' = next /\ ipv4' = next /\ failed' = FALSE /\ doing' = "top" /\ next' = None
    /\ UNCHANGED <<kind, routes, close_permit, first, dropping, trouble>>

DhcpFails ==
    /\ kind.ip = "dhcp" /\ doing = "create" /\ Trouble
    /\ ipv4' = None /\ failed' = TRUE /\ doing' = "top" /\ next' = None
    /\ UNCHANGED <<kind, routes, current, nic_ctx, close_permit, first, dropping, late>>

-----------------------------------------------------------------------------
(* The device is closed by the system; routes change; the instance ends.   *)
NicCloses == /\ nic_ctx = "up" /\ Trouble
             /\ nic_ctx' = "dead" /\ close_permit' = TRUE
             /\ UNCHANGED <<kind, routes, current, ipv4, doing, next, first, dropping, failed, late>>

RoutesChange == /\ kind.ip = "dhcp" /\ Trouble
                /\ routes' \in RouteSets \ {routes}
                /\ UNCHANGED <<kind, current, ipv4, nic_ctx, close_permit, doing, next, first, dropping,
                               failed, late>>

DropInstance == /\ dropping = "no" /\ dropping' = "dropped"
                /\ UNCHANGED <<kind, routes, current, ipv4, nic_ctx, close_permit, doing, next, first,
                               failed, late, trouble>>

(* Mutant: the instance leaves its device in nic_ctx.                      *)
TakeNothing == /\ dropping = "dropped" /\ dropping' = "taken"
               /\ UNCHANGED <<kind, routes, current, ipv4, nic_ctx, close_permit, doing, next, first,
                              failed, late, trouble>>

(* The spawned task: the device goes with its tasks and DNS runner.        *)
TakeNicCtx == /\ dropping = "dropped" /\ dropping' = "taken" /\ nic_ctx' = "none"
              /\ UNCHANGED <<kind, routes, current, ipv4, close_permit, doing, next, first, failed, late,
                             trouble>>

NicTask == StaticTop \/ StaticCreated \/ StaticWait \/ DhcpTop \/ DhcpEnds \/ DhcpCreated

NicNext == \/ NicTask \/ StaticFails \/ DhcpFails
           \/ NicCloses \/ RoutesChange \/ DropInstance \/ TakeNicCtx

(* Creation ends; the task runs, and so does what the drop has spawned.    *)
NicFairness == WF_nicVars(NicTask) /\ WF_nicVars(TakeNicCtx)
NicSpec == NicInit /\ [][NicNext]_nicVars /\ NicFairness

-----------------------------------------------------------------------------
(* When the task has nothing to change, the address it means to have is    *)
(* known of no other node, there is one if any is free, and a device       *)
(* carries it.  Without one, an address is still announced only where the  *)
(* device closed and nothing was free; and if the last device could not be *)
(* made, the address may be kept without being used.                       *)
AddressSettled ==
    /\ kind.ip = "dhcp" /\ dropping = "no" /\ doing = "top" /\ ~close_permit /\ routes # {}
    /\ \A inet \in Inets : Stays(current, inet)
    /\ ~failed
    => IF current = None
       THEN /\ \A inet \in Inets : Free(inet[1]) = {}
            /\ ipv4 = None \/ nic_ctx = "dead"
       ELSE /\ current \notin Used /\ ipv4 = current
            /\ kind.no_tun \/ nic_ctx = "up"

(* Once the instance is dropped, nobody holds the peer manager for long    *)
(* (the debug_assert of Drop), unless a device was made in the meantime.   *)
ReleasedAfterDrop == dropping = "dropped" ~> (~Held \/ late)
=============================================================================
