--------------------------- MODULE PeerConnPinger ---------------------------
(***************************************************************************)
(* The keepalive of a connection, src/app/src/peers/peer_conn_ping.rs.     *)
(*                                                                         *)
(* A controller ticks once a second and decides, with an exponential       *)
(* backoff, whether to send a ping; each ping runs in a task of its own    *)
(* and reports a pong or a loss; pingpong() counts losses, forgets them    *)
(* when packets have arrived since it last looked, and gives up at Limit.  *)
(*                                                                         *)
(* Packet counters only matter through the question whether they changed   *)
(* since somebody looked, so each is a flag per observer.  Tasks are fast  *)
(* compared with a tick: what is due before a tick happens before it.      *)
(***************************************************************************)
EXTENDS Naturals, Sequences, Functions

CONSTANTS MaxBackoff,   \* max_backoff_idx, 5
          PingTimeout,  \* ticks after which a ping is lost, 2
          Limit,        \* losses that end the connection, 5
          MaxTasks,     \* pingpong_tasks allowed before one more is spawned, 5
          MaxSilence    \* bound: where the clock of silence saturates

ASSUME PingerAssumption ==
  /\ {MaxBackoff, PingTimeout, Limit, MaxTasks, MaxSilence} \subseteq Nat
  /\ MaxBackoff > 1 /\ PingTimeout > 0 /\ Limit > 0

VARIABLES
  gap,      \* logic_time - last_send_logic_time, saturating
  backoff,  \* backoff_idx
  ctlTx,    \* packets were sent since should_send_ping last looked
  ctlRx,    \* packets were received since should_send_ping last looked
  unanswered, \* number of pings without answer, by age in ticks
  ponged,   \* pings whose pong has arrived and whose task has not reported yet
  results,  \* ping_res_receiver
  handler,  \* where the loop of pingpong() is
  loss,     \* loss_counter
  newRx,    \* rx_packets differs from last_rx_packets
  peerUp,   \* the peer still answers
  silence,  \* ticks since the last packet was received, saturating
  quiet,    \* losses handled since a packet was last received
  absorbed  \* a packet arrived between the two reads of rx_packets

control == <<gap, backoff, ctlTx>>
pings   == <<unanswered, ponged, results>>
ghosts  == <<quiet, absorbed>>
pingVars == <<control, ctlRx, pings, handler, loss, newRx, peerUp, silence, ghosts>>

Smaller(a, b) == IF a < b THEN a ELSE b
MaxGap == 2 ^ MaxBackoff

(* The pings whose task still runs.  Finished tasks stay in pingpong_tasks  *)
(* until they are joined, but joining one of those does not block.          *)
InFlight == FoldFunction(LAMBDA x, y : x + y, 0, unanswered) + ponged

PingInit ==
  /\ gap = 0 /\ backoff = 0
  /\ ctlTx = FALSE /\ ctlRx = FALSE
  /\ unanswered = [a \in 0 .. PingTimeout |-> 0]
  /\ ponged = 0 /\ results = <<>>
  /\ handler = "recv" /\ loss = 0 /\ newRx = FALSE
  /\ peerUp = TRUE /\ silence = 0
  /\ quiet = 0 /\ absorbed = FALSE

-----------------------------------------------------------------------------
(* should_send_ping: the backoff index after its first part.                *)
Hurried == IF loss > 0 \/ (ctlTx /\ ~ctlRx) THEN 0 ELSE backoff

(* The index after a ping; near its maximum it is lowered at random.        *)
Backed(b) ==
  LET up == Smaller(b + 1, MaxBackoff)
  IN  {up} \cup (IF up > MaxBackoff - 2 THEN {up - 1} ELSE {})

Aged == [a \in 0 .. PingTimeout |-> IF a = 0 THEN 0 ELSE unanswered[a - 1]]

(* Everything that is due has happened: no ping is overdue and every result *)
(* has been handled.                                                        *)
Idle == unanswered[PingTimeout] = 0 /\ ponged = 0 /\ results = <<>> /\ handler = "recv"

(* controller.tick(), should_send_ping() and the spawn of a ping.           *)
Tick ==
  /\ Idle
  /\ InFlight <= MaxTasks
  /\ \/ /\ gap + 1 >= 2 ^ Hurried
        /\ backoff' \in Backed(Hurried)
        /\ gap' = 0
        /\ unanswered' = [Aged EXCEPT ![0] = 1]
        /\ ctlTx' = TRUE
     \/ /\ gap + 1 < 2 ^ Hurried
        /\ backoff' = Hurried
        /\ gap' = Smaller(gap + 1, MaxGap)
        /\ unanswered' = Aged
        /\ ctlTx' = FALSE
  /\ ctlRx' = FALSE
  /\ silence' = Smaller(silence + 1, MaxSilence)
  /\ UNCHANGED <<ponged, results, handler, loss, newRx, peerUp, ghosts>>

-----------------------------------------------------------------------------
(* A packet of the peer is counted.                                         *)
Received ==
  /\ peerUp
  /\ ctlRx' = TRUE
  /\ newRx' = TRUE
  /\ silence' = 0
  /\ quiet' = 0
  /\ absorbed' = (absorbed \/ handler = "update")

PeerPacket ==
  /\ handler # "closed"
  /\ Received
  /\ UNCHANGED <<control, pings, handler, loss, peerUp>>

DataSent ==
  /\ handler # "closed"
  /\ ctlTx' = TRUE
  /\ UNCHANGED <<gap, backoff, ctlRx, pings, handler, loss, newRx, peerUp, silence, ghosts>>

PeerDies ==
  /\ peerUp
  /\ peerUp' = FALSE
  /\ UNCHANGED <<control, ctlRx, pings, handler, loss, newRx, silence, ghosts>>

(* do_pingpong_once gets its pong.                                          *)
Pong(a) ==
  /\ handler # "closed"
  /\ unanswered[a] > 0
  /\ Received
  /\ unanswered' = [unanswered EXCEPT ![a] = @ - 1]
  /\ ponged' = ponged + 1
  /\ UNCHANGED <<control, results, handler, loss, peerUp>>

PingDone ==
  /\ ponged > 0
  /\ ponged' = ponged - 1
  /\ results' = Append(results, "ok")
  /\ UNCHANGED <<control, ctlRx, unanswered, handler, loss, newRx, peerUp, silence, ghosts>>

(* do_pingpong_once fails: at the timeout, or earlier when the ping cannot  *)
(* be sent or the channel of pongs has overrun this receiver.               *)
PingLost(a) ==
  /\ handler # "closed"
  /\ unanswered[a] > 0
  /\ unanswered' = [unanswered EXCEPT ![a] = @ - 1]
  /\ results' = Append(results, "lost")
  /\ UNCHANGED <<control, ctlRx, ponged, handler, loss, newRx, peerUp, silence, ghosts>>

-----------------------------------------------------------------------------
(* The loop of pingpong(): count a loss, ...                                *)
HandleResult ==
  /\ handler = "recv"
  /\ results # <<>>
  /\ results' = Tail(results)
  /\ loss' = IF Head(results) = "lost" THEN loss + 1 ELSE loss
  /\ quiet' = IF Head(results) = "lost" THEN Smaller(quiet + 1, Limit) ELSE quiet
  /\ handler' = "check"
  /\ UNCHANGED <<control, ctlRx, unanswered, ponged, newRx, peerUp, silence, absorbed>>

(* ... forget the losses if a packet has arrived since the last round, ...  *)
CheckedLoss == IF newRx THEN 0 ELSE loss

(* Mutant: any loss is enough, whatever Limit is.                           *)
CheckAnyLoss ==
  /\ handler = "check"
  /\ loss' = CheckedLoss
  /\ handler' = IF CheckedLoss > 0 THEN "closed" ELSE "update"
  /\ UNCHANGED <<control, ctlRx, pings, newRx, peerUp, silence, ghosts>>

CheckLoss ==
  /\ handler = "check"
  /\ loss' = CheckedLoss
  /\ handler' = IF CheckedLoss >= Limit THEN "closed" ELSE "update"
  /\ UNCHANGED <<control, ctlRx, pings, newRx, peerUp, silence, ghosts>>

(* ... and remember rx_packets for the next round.                          *)
UpdateRx ==
  /\ handler = "update"
  /\ newRx' = FALSE
  /\ handler' = "recv"
  /\ UNCHANGED <<control, ctlRx, pings, loss, peerUp, silence, ghosts>>

-----------------------------------------------------------------------------
TaskStep == PingDone \/ PingLost(PingTimeout) \/ HandleResult \/ CheckLoss \/ UpdateRx

PingNext ==
  \/ Tick \/ TaskStep
  \/ PeerPacket \/ DataSent \/ PeerDies
  \/ \E a \in 0 .. PingTimeout : Pong(a) \/ PingLost(a)

PingSpec == PingInit /\ [][PingNext]_pingVars

-----------------------------------------------------------------------------
(* However far the backoff has gone, a peer that has been silent that long  *)
(* is given up: one full backoff until a ping is sent, its timeout, a ping  *)
(* a tick from then on for the other losses, and the timeout of the last.   *)
DetectTicks == 2 ^ MaxBackoff + 2 * PingTimeout + Limit - 2

(* The keepalive errs to neither side.  A connection is only given up after *)
(* Limit losses in a row without a packet received meanwhile, unless a      *)
(* packet arrived between the two reads of rx_packets in one round, where   *)
(* it is never noticed; and it is given up after DetectTicks of silence.    *)
KeepaliveSound ==
  /\ handler = "closed" => quiet = Limit \/ absorbed
  /\ handler # "closed" => silence <= DetectTicks
=============================================================================
