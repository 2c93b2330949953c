------------------------------ MODULE ExitNodes -----------------------------
(***************************************************************************)
(* One peerlink-core process and the registry of networks on the chain:    *)
(* peerlink-core.rs starts an instance per configuration, launcher.rs runs *)
(* each in a thread of its own and registers it as an exit node, and       *)
(* chain_op/mod.rs takes registered nodes back when the process ends.      *)
(* Meanwhile administrators change the registry with peerlink-cli.         *)
(*                                                                         *)
(* A call of the chain is sent, executed by the chain or not, and answered *)
(* later; the answer may be an error although the call was executed.       *)
(***************************************************************************)
EXTENDS Registry

CONSTANTS Configs,       \* the configurations, a sequence of records
                         \* [network, peer, exit : enable_exit_node, merged]
          Wallet,            \* address of the wallet of this process
          MaxAdmin       \* transactions of administrators

Inst == DOMAIN Configs

(* Peer ids are drawn at random: no two instances are one exit node.       *)
ASSUME ExitAssumption ==
    /\ Configs \in Seq([network : Name \ {EmptyName}, peer : ExitPeer, exit : BOOLEAN,
                       merged : BOOLEAN])
    /\ Wallet \in Address
    /\ \A i, j \in Inst : Configs[i].network = Configs[j].network
                         /\ Configs[i].peer = Configs[j].peer => i = j

VARIABLES
    main,        \* where run_main and main are
    started,     \* configurations run_main is done with
    routine,     \* routine[i]: where the thread of instance i is
    alive,       \* instance_alive
    stop,        \* stop_flag
    call,        \* call[i]: state of the add_exit_node call of instance i
    notified,    \* instances whose instance_stop_notifier has a permit
    permit,      \* stop_check_notifier has a permit
    toClean,     \* EXIT_NODE_REGISTRY
    cleaning,    \* the nodes cleanup_exit_nodes has drained and not removed
    misreported, \* history: instances whose chain call was answered with an error
    adminTxs     \* history: transactions of administrators

exitVars == <<networks, network_names, main, started, routine, alive, stop, call, notified,
              permit, toClean, cleaning, misreported, adminTxs>>

registry == <<networks, network_names>>
threads  == <<routine, alive, call, notified, toClean>>

NetworkOf(i) == Configs[i].network
NodePeer(i)    == Configs[i].peer
Own          == {NodePeer(i) : i \in Inst}
UsedNetworks == {NetworkOf(i) : i \in Inst}

(* Networks with one exit node that others run, and none of our own yet.   *)
ExitInit ==
    /\ \E a \in Address, v \in Value, o \in ExitPeer \ Own :
         networks = [n \in UsedNetworks |->
             [admin |-> a, value |-> v, is_active |-> TRUE,
              exit_nodes |-> [p \in {o} |-> [value |-> v, is_active |-> TRUE]],
              exit_node_peer_ids |-> <<o>>]]
    /\ \E k \in Inst : network_names \in [1 .. k -> UsedNetworks]
    /\ Lists(network_names, UsedNetworks)
    /\ main = "boot" /\ started = 0
    /\ routine = [i \in Inst |-> "none"]
    /\ alive = [i \in Inst |-> FALSE] /\ stop = [i \in Inst |-> FALSE]
    /\ call = [i \in Inst |-> "none"]
    /\ notified = {} /\ permit = FALSE
    /\ toClean = {} /\ cleaning = {} /\ misreported = {} /\ adminTxs = 0

-----------------------------------------------------------------------------
(* The calls of the client.  Reads see the registry as it is.              *)
get_network_secret(n) == n # EmptyName /\ n \in DOMAIN networks /\ networks[n].is_active
pick_exit_node(n) == IF n \in DOMAIN networks THEN Pickable(n) ELSE {}

(* Writes are signed by the wallet of the process that sends them.         *)
create_network(sender, n, v)     == n # EmptyName /\ CreateNetwork(sender, n, v)
deactivate_network(sender, n)    == n # EmptyName /\ SetNetworkActive(sender, n, FALSE)
reactivate_network(sender, n)    == n # EmptyName /\ SetNetworkActive(sender, n, TRUE)
add_exit_node(sender, n, p, v)   == n # EmptyName /\ AddExitNode(sender, n, p, v)
remove_exit_node(sender, n, p)   == n # EmptyName /\ RemoveExitNode(sender, n, p)

(* Commands of peerlink-cli, run by anyone.  Nobody else adds our nodes:   *)
(* peer ids are drawn at random.                                           *)
handle_network_create     == \E a \in Address, n \in Name, v \in Value : create_network(a, n, v)
handle_network_deactivate == \E a \in Address, n \in Name : deactivate_network(a, n)
handle_network_reactivate == \E a \in Address, n \in Name : reactivate_network(a, n)
handle_network_add_exit_node ==
    \E a \in Address, n \in Name, p \in ExitPeer \ Own, v \in Value : add_exit_node(a, n, p, v)
handle_network_remove_exit_node ==
    \E a \in Address, n \in Name, p \in ExitPeer : remove_exit_node(a, n, p)

Admin ==
    /\ adminTxs < MaxAdmin /\ adminTxs' = adminTxs + 1
    /\ \/ handle_network_create \/ handle_network_deactivate \/ handle_network_reactivate
       \/ handle_network_add_exit_node \/ handle_network_remove_exit_node
    /\ UNCHANGED <<main, started, threads, stop, permit, cleaning, misreported>>

-----------------------------------------------------------------------------
(* run_main: the secret and an exit node are fetched, then the instance is *)
(* started.  A step that fails returns, and the manager is dropped.        *)
RunNetworkInstance ==
    LET i == started + 1
    IN  /\ main = "boot" /\ i \in Inst
        /\ Configs[i].merged => get_network_secret(NetworkOf(i))
        /\ pick_exit_node(NetworkOf(i)) # {}
        /\ started' = i
        /\ routine' = [routine EXCEPT ![i] = "run"]
        /\ alive' = [alive EXCEPT ![i] = TRUE]
        /\ UNCHANGED <<registry, main, stop, call, notified, permit, toClean, cleaning,
                       misreported, adminTxs>>

BootFails ==
    /\ main = "boot" /\ started < Len(Configs)
    /\ main' = "drop"
    /\ UNCHANGED <<registry, started, threads, stop, permit, cleaning, misreported, adminTxs>>

Booted ==
    /\ main = "boot" /\ started = Len(Configs)
    /\ main' = "wait"
    /\ UNCHANGED <<registry, started, threads, stop, permit, cleaning, misreported, adminTxs>>

(* The thread of an instance.  With exit nodes enabled the instance adds   *)
(* itself once it runs.                                                    *)
InstanceRun(i) ==
    /\ routine[i] = "run"
    /\ \/ routine' = [routine EXCEPT ![i] = "ended"] /\ UNCHANGED call
       \/ /\ ~Configs[i].exit
          /\ routine' = [routine EXCEPT ![i] = "up"] /\ UNCHANGED call
       \/ /\ Configs[i].exit
          /\ routine' = [routine EXCEPT ![i] = "add"]
          /\ call' = [call EXCEPT ![i] = "sent"]
    /\ UNCHANGED <<registry, main, started, alive, stop, notified, permit, toClean, cleaning,
                   misreported, adminTxs>>

(* The chain executes the transaction, or refuses it.                      *)
Execute(i) ==
    /\ call[i] = "sent"
    /\ \/ /\ \E v \in Value : add_exit_node(Wallet, NetworkOf(i), NodePeer(i), v)
          /\ call' = [call EXCEPT ![i] = "executed"]
       \/ call' = [call EXCEPT ![i] = "aborted"] /\ UNCHANGED registry
    /\ UNCHANGED <<main, started, routine, alive, stop, notified, permit, toClean, cleaning,
                   misreported, adminTxs>>

(* The answer: registered for cleaning on success, an end with an error    *)
(* otherwise.                                                              *)
AddAnswered(i) ==
    /\ routine[i] = "add" /\ call[i] \in {"executed", "aborted"}
    /\ \/ /\ call[i] = "executed"
          /\ toClean' = toClean \cup {i}
          /\ routine' = [routine EXCEPT ![i] = "up"] /\ UNCHANGED misreported
       \/ /\ misreported' = misreported \cup {i}
          /\ routine' = [routine EXCEPT ![i] = "ended"] /\ UNCHANGED toClean
    /\ UNCHANGED <<registry, main, started, alive, stop, call, notified, permit, cleaning, adminTxs>>

StopNoticed(i) ==
    /\ routine[i] = "up" /\ stop[i]
    /\ routine' = [routine EXCEPT ![i] = "ended"]
    /\ UNCHANGED <<registry, main, started, alive, stop, call, notified, permit, toClean, cleaning,
                   misreported, adminTxs>>

(* Mutant: the notification goes out first.                                *)
EndNotifying(i) ==
    /\ \/ /\ routine[i] = "ended"
          /\ routine' = [routine EXCEPT ![i] = "notify"]
          /\ notified' = notified \cup {i} /\ UNCHANGED alive
       \/ /\ routine[i] = "notify"
          /\ routine' = [routine EXCEPT ![i] = "joined"]
          /\ alive' = [alive EXCEPT ![i] = FALSE] /\ UNCHANGED notified
    /\ UNCHANGED <<registry, main, started, stop, call, permit, toClean, cleaning, misreported,
                   adminTxs>>

(* The end of the thread: no longer alive, then the notification.          *)
End(i) ==
    /\ \/ /\ routine[i] = "ended"
          /\ routine' = [routine EXCEPT ![i] = "notify"]
          /\ alive' = [alive EXCEPT ![i] = FALSE] /\ UNCHANGED notified
       \/ /\ routine[i] = "notify"
          /\ routine' = [routine EXCEPT ![i] = "joined"]
          /\ notified' = notified \cup {i} /\ UNCHANGED alive
    /\ UNCHANGED <<registry, main, started, stop, call, permit, toClean, cleaning, misreported,
                   adminTxs>>

(* The task that start_instance_task leaves behind; it needs the runtime   *)
(* of main, which dropping an instance blocks.                             *)
StopTask(i) ==
    /\ i \in notified /\ main \in {"boot", "wait", "blocked", "clean"}
    /\ notified' = notified \ {i} /\ permit' = TRUE
    /\ UNCHANGED <<registry, main, started, routine, alive, stop, call, toClean, cleaning,
                   misreported, adminTxs>>

(* NetworkInstanceManager::wait, one test of its loop or one notification. *)
Wait ==
    /\ \/ /\ main = "wait" /\ \E i \in Inst : alive[i]
          /\ main' = "blocked" /\ UNCHANGED <<permit, toClean, cleaning>>
       \/ /\ main = "blocked" /\ permit
          /\ main' = "wait" /\ permit' = FALSE /\ UNCHANGED <<toClean, cleaning>>
       \/ /\ main = "wait" /\ \A i \in Inst : ~alive[i]
          /\ main' = "clean" /\ cleaning' = toClean /\ toClean' = {} /\ UNCHANGED permit
    /\ UNCHANGED <<registry, started, routine, alive, stop, call, notified, misreported, adminTxs>>

CtrlC ==
    /\ main \in {"wait", "blocked"}
    /\ main' = "clean" /\ cleaning' = toClean /\ toClean' = {}
    /\ UNCHANGED <<registry, started, routine, alive, stop, call, notified, permit, misreported,
                   adminTxs>>

(* cleanup_exit_nodes: one drained node.                                   *)
RemoveNode ==
    /\ main \in {"clean", "last"}
    /\ \E i \in cleaning :
          /\ cleaning' = cleaning \ {i}
          /\ \/ /\ remove_exit_node(Wallet, NetworkOf(i), NodePeer(i))
                /\ misreported' \in {misreported, misreported \cup {i}}
             \/ misreported' = misreported \cup {i} /\ UNCHANGED registry
    /\ UNCHANGED <<main, started, threads, stop, permit, adminTxs>>

Cleaned ==
    /\ main \in {"clean", "last"} /\ cleaning = {}
    /\ main' = IF main = "clean" THEN "drop" ELSE "exited"
    /\ UNCHANGED <<registry, started, threads, stop, permit, cleaning, misreported, adminTxs>>

Joined(i) == routine[i] \in {"none", "joined"}

(* The manager is dropped, and each instance with it: stop flag, then join *)
(* before the next one.  After the last, main cleans once more.            *)
DropManager ==
    /\ main = "drop"
    /\ \A i \in Inst : stop[i] => Joined(i)
    /\ \/ /\ \E i \in Inst : routine[i] # "none" /\ ~stop[i] /\ stop' = [stop EXCEPT ![i] = TRUE]
          /\ UNCHANGED <<main, toClean, cleaning>>
       \/ /\ \A i \in Inst : routine[i] # "none" => stop[i]
          /\ main' = "last" /\ cleaning' = toClean /\ toClean' = {} /\ UNCHANGED stop
    /\ UNCHANGED <<registry, started, routine, alive, call, notified, permit, misreported, adminTxs>>

(* A signal nobody handles, or a panic: the hook ends the process.         *)
Killed ==
    /\ main \notin {"exited", "killed"}
    /\ main' = "killed"
    /\ UNCHANGED <<registry, started, threads, stop, permit, cleaning, misreported, adminTxs>>

Thread(i) == /\ main # "killed"
             /\ InstanceRun(i) \/ AddAnswered(i) \/ StopNoticed(i) \/ End(i)
Main      == \/ RunNetworkInstance \/ Booted \/ Wait \/ RemoveNode \/ Cleaned \/ DropManager

ExitNext ==
    \/ Admin \/ BootFails \/ CtrlC \/ Killed \/ Main
    \/ \E i \in Inst : Thread(i) \/ Execute(i) \/ StopTask(i)

(* The runtimes of main and of the threads run what is ready, and the      *)
(* chain answers.                                                          *)
ExitFairness ==
    /\ WF_exitVars(Main)
    /\ \A i \in Inst : WF_exitVars(Thread(i)) /\ WF_exitVars(Execute(i)) /\ WF_exitVars(StopTask(i))

ExitSpec == ExitInit /\ [][ExitNext]_exitVars /\ ExitFairness

-----------------------------------------------------------------------------
(* When the process has ended by itself, by an error or by ctrl-c, at      *)
(* whatever moment, none of its nodes is left for others to pick, except   *)
(* where the chain answered an add or a remove with an error.  A node that *)
(* is added while run_main cleans is only covered because dropping the     *)
(* manager joins the threads before main cleans again.                     *)
NothingLeftOnChain ==
    main = "exited" =>
        \A i \in Inst \ misreported :
            NetworkOf(i) \in DOMAIN networks =>
                NodePeer(i) \notin DOMAIN networks[NetworkOf(i)].exit_nodes

(* When every instance has ended, wait() notices, and the process ends: no *)
(* notification is lost between a test of its loop and the next.           *)
StoppedProcessEnds ==
    (main \in {"wait", "blocked"} /\ \A i \in Inst : routine[i] = "joined")
        ~> (main \in {"exited", "killed"})

(* However a process ends, it ends, and leaves nothing on the chain.       *)
ProcessEnds == []NothingLeftOnChain /\ StoppedProcessEnds
=============================================================================
