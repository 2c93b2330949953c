---------------------------- MODULE Reach_proofs ----------------------------
(***************************************************************************)
(* How nodes reach each other that cannot connect: over the relay of a     *)
(* foreign network (ForeignNetworks) with the token bucket that limits what *)
(* is relayed (TokenBucket), and by holes punched into NATs, by those who  *)
(* ask for them (HolePunch) and the peer they ask (PunchServer).           *)
(*                                                                         *)
(* A foreign network in the manager's map always has an event handler, or  *)
(* a creator about to start one: for any number of connections, peers and  *)
(* identities, and any size of the event bus.  The bucket never grants     *)
(* more than its burst and its rate allow, for any capacity, rate, unit of *)
(* time and number of threads.                                             *)
(*                                                                         *)
(* Among any number of peers, a node sends for one symmetric punch at a    *)
(* time.  A listener lives as long as any connection by it, for any number *)
(* of requests and listeners.                                              *)
(***************************************************************************)
EXTENDS ForeignNetworks, TokenBucket, HolePunch, PunchServer, TLAPS
(* The types the argument needs.                                           *)
WatchTypes ==
  /\ network_peer_map \in Link \cup {NoNetwork}
  /\ adder \in [Link -> {"idle", "joining", "done"}]
  /\ held \in [Link -> Link \cup {NoNetwork}]
  /\ handler \in [Link -> {"none", "running", "exiting", "gone"}]

(* The creator of the entry in the map holds that entry: it is the one     *)
(* task add_peer_conn cannot refuse before it starts the handler.          *)
CreatorHolds ==
  network_peer_map # NoNetwork => /\ held[network_peer_map] = network_peer_map
                                  /\ adder[network_peer_map] # "idle"

WatchInv == WatchTypes /\ CreatorHolds /\ EntryWatched

LEMMA WatchInit == ForeignInit => WatchInv
BY Zenon, ForeignAssumption DEF ForeignInit, WatchInv, WatchTypes, CreatorHolds, EntryWatched

(* Sending events leaves a handler running or makes it lag.                *)
LEMMA IssueWatched ==
    ASSUME WatchTypes, NEW e \in Link, NEW events, Issue(e, events)
    PROVE  /\ handler' \in [Link -> {"none", "running", "exiting", "gone"}]
           /\ \A d \in Link : handler[d] \in {"running", "exiting"}
                                => handler'[d] \in {"running", "exiting"}
BY Zenon DEF WatchTypes, Issue

(* Every step of a task, a connection or a handler keeps the invariant.    *)
LEMMA WatchStep == WatchInv /\ [ForeignNext]_foreignVars => WatchInv'
<1> SUFFICES ASSUME WatchInv, [ForeignNext]_foreignVars PROVE WatchInv'
  OBVIOUS
<1> USE ForeignAssumption
<1>1. CASE UNCHANGED foreignVars
  BY Zenon, <1>1 DEF WatchInv, WatchTypes, CreatorHolds, EntryWatched, foreignVars, mapVars
<1>2. ASSUME NEW c \in Link, GetOrInsertEntry(c) PROVE WatchInv'
  BY Zenon, <1>2 DEF GetOrInsertEntry, WatchInv, WatchTypes, CreatorHolds, EntryWatched
<1>3. ASSUME NEW c \in Link, Refuse(c) PROVE WatchInv'
  <2>1. network_peer_map # c
    BY Zenon, <1>3, NoNetwork \notin Link
       DEF Refuse, Refused, WatchInv, WatchTypes, CreatorHolds
  <2> QED BY Zenon, <1>3, <2>1 DEF Refuse, WatchInv, WatchTypes, CreatorHolds, EntryWatched, mapVars
<1>4. ASSUME NEW c \in Link, AddPeerConn(c) PROVE WatchInv'
  <2>1. CASE held[c] = c
    BY Zenon, <1>4, <2>1 DEF AddPeerConn, WatchInv, WatchTypes, CreatorHolds, EntryWatched, mapVars
  <2>2. CASE held[c] # c
    <3>1. network_peer_map # c
      BY Zenon, <2>2 DEF WatchInv, CreatorHolds, WatchTypes
    <3>2. PICK events : Issue(held[c], events)
      BY Zenon, <1>4, <2>2 DEF AddPeerConn
    <3>3. /\ handler' \in [Link -> {"none", "running", "exiting", "gone"}]
          /\ \A d \in Link : handler[d] \in {"running", "exiting"}
                               => handler'[d] \in {"running", "exiting"}
      BY Zenon, <3>2 DEF Issue, WatchInv, WatchTypes
    <3> QED BY Zenon, <1>4, <3>1, <3>3
            DEF AddPeerConn, WatchInv, WatchTypes, CreatorHolds, EntryWatched, mapVars
  <2> QED BY Zenon, <2>1, <2>2
<1>5. ASSUME NEW c \in Link, CloseLink(c) PROVE WatchInv'
  <2>1. PICK e \in Link : /\ Issue(e, <<[kind |-> "conn_removed", peer |-> LinkPeer[c]]>>)
                          /\ UNCHANGED <<mapVars, adder, held>>
    BY Zenon, <1>5 DEF CloseLink
  <2>2. /\ handler' \in [Link -> {"none", "running", "exiting", "gone"}]
        /\ \A d \in Link : handler[d] \in {"running", "exiting"}
                             => handler'[d] \in {"running", "exiting"}
    BY Zenon, <2>1, IssueWatched DEF WatchInv
  <2> QED BY Zenon, <2>1, <2>2 DEF WatchInv, WatchTypes, CreatorHolds, EntryWatched, mapVars
<1>6. ASSUME NEW e \in Link, HandleAdded(e) PROVE WatchInv'
  BY Zenon, <1>6 DEF HandleAdded, WatchInv, WatchTypes, CreatorHolds, EntryWatched
<1>7. ASSUME NEW e \in Link, HandleRemoved(e) PROVE WatchInv'
  BY Zenon, <1>7 DEF HandleRemoved, RemovePeer, WatchInv, WatchTypes, CreatorHolds, EntryWatched
<1>8. ASSUME NEW e \in Link, HandleConnRemoved(e) PROVE WatchInv'
  <2>1. \/ UNCHANGED handler
        \/ /\ network_peer_map \in Link
           /\ handler' = [handler EXCEPT ![network_peer_map] = "exiting"]
    BY Zenon, <1>8 DEF HandleConnRemoved, WatchInv, WatchTypes
  <2> QED BY Zenon, <1>8, <2>1
          DEF HandleConnRemoved, WatchInv, WatchTypes, CreatorHolds, EntryWatched, mapVars
<1>9. ASSUME NEW e \in Link, RecvDone(e) PROVE WatchInv'
  BY Zenon, <1>9 DEF RecvDone, WatchInv, WatchTypes, CreatorHolds, EntryWatched, mapVars
<1>10. ASSUME NEW e \in Link, ExitHandler(e) PROVE WatchInv'
  BY Zenon, <1>10 DEF ExitHandler, RemoveNetwork, WatchInv, WatchTypes, CreatorHolds, EntryWatched
<1> QED BY Zenon, <1>1, <1>2, <1>3, <1>4, <1>5, <1>6, <1>7, <1>8, <1>9, <1>10
        DEF ForeignNext, Add, HandlerStep

(* Every entry under the network's name has a handler that will take it    *)
(* out again, or its creator is still inside add_peer_conn.                *)
THEOREM AlwaysWatched == ForeignSpec => []EntryWatched
<1>1. WatchInv => EntryWatched
  BY Zenon DEF WatchInv
<1> QED BY WatchInit, WatchStep, <1>1, PTL DEF ForeignSpec

-----------------------------------------------------------------------------
(* The token bucket.                                                       *)
LEMMA RefilledBounds ==
    \A current, add \in Nat : /\ Refilled(current, add) \in Nat
                              /\ Refilled(current, add) <= Capacity
                              /\ Refilled(current, add) <= current + add
BY BucketAssumption DEF Refilled, Lesser

(* The tokens of one refill are paid for by the time since the last one.   *)
LEMMA TokensToAdd ==
    ASSUME NEW r \in Nat, NEW s \in Nat \ {0}, NEW from \in Nat, NEW to \in Nat, from <= to
    PROVE  /\ (r * (to - from)) \div s \in Nat
           /\ s * ((r * (to - from)) \div s) <= r * to - r * from
<1>1. /\ r * (to - from) \in Nat /\ r * (to - from) = r * to - r * from
  OBVIOUS
<1>2. \A a \in Nat : a \div s \in Nat /\ s * (a \div s) <= a
  OBVIOUS
<1> QED BY Zenon, <1>1, <1>2

LEMMA Distribute ==
    ASSUME NEW s \in Nat, NEW a \in Int, NEW b \in Int
    PROVE  s * (a + b) = s * a + s * b
OBVIOUS

LEMMA Monotone ==
    ASSUME NEW s \in Nat, NEW a \in Int, NEW b \in Int, a <= b
    PROVE  s * a <= s * b
OBVIOUS

-----------------------------------------------------------------------------
LEMMA BucketTypeStep ==
    ASSUME BucketTypeOK, [BucketNext]_bucketVars
    PROVE  BucketTypeOK'
<1> USE BucketAssumption
<1>1. NoLoop \in Loop
  BY DEF NoLoop, Loop
<1>2. CASE UNCHANGED bucketVars
  BY Zenon, <1>2 DEF bucketVars, BucketTypeOK
<1>3. CASE Elapse
  BY <1>3 DEF Elapse, BucketTypeOK
<1>4. CASE Refill
  <2>1. (FillRate * (elapsed - last_refill_time)) \div Second \in Nat
    BY TokensToAdd DEF BucketTypeOK
  <2>2. refiller' \in Loop
    BY Zenon, <1>1, <1>4, <2>1 DEF Refill, Loop, BucketTypeOK
  <2> QED BY <1>4, <2>2 DEF Refill, BucketTypeOK
<1>5. CASE RefillAttempt
  <2>1. refiller.current \in Nat /\ refiller.amount \in Nat
    BY DEF BucketTypeOK, Loop
  <2>2. Refilled(refiller.current, refiller.amount) \in 0 .. Capacity
    <3>1. /\ Refilled(refiller.current, refiller.amount) \in Nat
          /\ Refilled(refiller.current, refiller.amount) <= Capacity
      BY Zenon, <2>1, RefilledBounds
    <3> QED BY <3>1
  <2>3. refiller' \in Loop
    BY Zenon, <1>1, <1>5 DEF RefillAttempt, Loop, BucketTypeOK
  <2> QED BY Zenon, <1>5, <2>2, <2>3 DEF RefillAttempt, BucketTypeOK
<1>6. ASSUME NEW c \in Consumer, NEW tokens \in Request, TryConsume(c, tokens)
      PROVE  BucketTypeOK'
  <2>1. [looping |-> TRUE, amount |-> tokens, current |-> available_tokens] \in Loop
    BY Zenon DEF Loop, BucketTypeOK
  <2>2. consumer' \in [Consumer -> Loop]
    BY Zenon, <1>6, <2>1 DEF TryConsume, BucketTypeOK
  <2> QED BY Zenon, <1>6, <2>2 DEF TryConsume, BucketTypeOK
<1>7. ASSUME NEW c \in Consumer, ConsumeAttempt(c)
      PROVE  BucketTypeOK'
  <2>1. /\ consumer \in [Consumer -> Loop] /\ consumer[c] \in Loop
        /\ consumer[c].current \in 0 .. Capacity /\ consumer[c].amount \in Nat
    BY Zenon DEF BucketTypeOK, Loop
  <2>2. [consumer[c] EXCEPT !.current = available_tokens] \in Loop
    BY Zenon, <2>1 DEF Loop, BucketTypeOK
  <2>3. consumer' \in [Consumer -> Loop]
    BY Zenon, <1>1, <1>7, <2>1, <2>2 DEF ConsumeAttempt
  <2>4. available_tokens' \in 0 .. Capacity /\ consumed' \in Nat
    BY <1>7, <2>1 DEF ConsumeAttempt, BucketTypeOK
  <2> QED BY Zenon, <1>7, <2>3, <2>4 DEF ConsumeAttempt, BucketTypeOK
<1> QED BY Zenon, <1>2, <1>3, <1>4, <1>5, <1>6, <1>7 DEF BucketNext

(* A step of the bucket keeps the account: what it grants leaves the       *)
(* counter, and what it adds is paid for by time.                          *)
LEMMA RateStep ==
    ASSUME BucketTypeOK, RateInv, [BucketNext]_bucketVars
    PROVE  RateInv'
<1> USE BucketAssumption
<1> DEFINE Sum == consumed + available_tokens + refiller.amount - Capacity
<1>1. /\ Sum \in Int /\ elapsed \in Nat /\ last_refill_time \in Nat /\ last_refill_time <= elapsed
      /\ consumed \in Nat /\ available_tokens \in Nat /\ refiller.amount \in Nat
      /\ refiller.current \in Nat
      /\ Second * Sum <= FillRate * last_refill_time
  BY DEF BucketTypeOK, Loop, RateInv
<1>2. CASE UNCHANGED bucketVars
  BY Zenon, <1>2 DEF bucketVars, RateInv
<1>3. CASE Elapse
  BY Zenon, <1>3 DEF Elapse, RateInv
<1>4. CASE Refill
  <2> DEFINE add == (FillRate * (elapsed - last_refill_time)) \div Second
  <2>1. add \in Nat /\ Second * add <= FillRate * elapsed - FillRate * last_refill_time
    BY Zenon, <1>1, TokensToAdd
  <2>2. /\ last_refill_time' = elapsed /\ consumed' = consumed
        /\ available_tokens' = available_tokens
        /\ refiller'.amount = add
    BY Zenon, <1>4 DEF Refill, NoLoop
  <2> HIDE DEF add
  <2>3. Sum' \in Int /\ Sum' <= Sum + add
    BY SMTT(60), <1>1, <2>1, <2>2
  <2>4. Second * Sum' <= Second * Sum + Second * add
    <3>1. Second * Sum' <= Second * (Sum + add)
      BY SMTT(60), <1>1, <2>1, <2>3, Monotone
    <3>2. Second * (Sum + add) = Second * Sum + Second * add
      BY SMTT(60), <1>1, <2>1, Distribute
    <3> QED BY Zenon, <3>1, <3>2
  <2>5. /\ Second * Sum \in Int /\ Second * add \in Int /\ Second * Sum' \in Int
        /\ FillRate * elapsed \in Int /\ FillRate * last_refill_time \in Int
    BY SMTT(60), <1>1, <2>1, <2>3
  <2>6. Second * Sum' <= FillRate * elapsed
    BY SMTT(60), <1>1, <2>1, <2>4, <2>5
  <2> QED BY Zenon, <2>2, <2>6 DEF RateInv
<1>5. CASE RefillAttempt
  <2>1. Sum' \in Int /\ Sum' <= Sum
    <3>1. Refilled(refiller.current, refiller.amount) \in Nat
      BY Zenon, <1>1, RefilledBounds
    <3>2. Refilled(refiller.current, refiller.amount) <= refiller.current + refiller.amount
      BY Zenon, <1>1, RefilledBounds
    <3>3. refiller'.amount \in {0, refiller.amount}
      BY <1>5 DEF RefillAttempt, NoLoop, BucketTypeOK, Loop
    <3>4. CASE available_tokens = refiller.current /\ refiller' = NoLoop
               /\ available_tokens' = Refilled(refiller.current, refiller.amount)
      BY SMTT(60), <1>1, <1>5, <3>1, <3>2, <3>4 DEF RefillAttempt, NoLoop
    <3>5. CASE available_tokens' = available_tokens
      BY SMTT(60), <1>1, <1>5, <3>3, <3>5 DEF RefillAttempt
    <3> QED BY Zenon, <1>5, <3>4, <3>5 DEF RefillAttempt
  <2>2. last_refill_time' = last_refill_time
    BY Zenon, <1>5 DEF RefillAttempt
  <2>3. Second * Sum' <= Second * Sum
    BY Zenon, <1>1, <2>1, Monotone
  <2> QED BY SMTT(60), <1>1, <2>1, <2>2, <2>3 DEF RateInv
<1>6. ASSUME NEW c \in Consumer, NEW tokens \in Request, TryConsume(c, tokens)
      PROVE  RateInv'
  BY Zenon, <1>6 DEF TryConsume, RateInv
<1>7. ASSUME NEW c \in Consumer, ConsumeAttempt(c)
      PROVE  RateInv'
  <2>1. consumer[c].current \in Nat /\ consumer[c].amount \in Nat
    BY DEF BucketTypeOK, Loop
  <2>2. Sum' = Sum /\ last_refill_time' = last_refill_time
    BY SMTT(60), <1>1, <1>7, <2>1 DEF ConsumeAttempt
  <2> QED BY Zenon, <1>1, <2>2 DEF RateInv
<1> QED BY Zenon, <1>2, <1>3, <1>4, <1>5, <1>6, <1>7 DEF BucketNext

(* try_consume never lets through more than the capacity of the bucket and *)
(* its rate over the time since it was made, and the counter stays within  *)
(* 0 .. capacity, for any number of threads racing with the refill task.   *)
THEOREM RateAlwaysBounded == BucketSpec => [](BucketTypeOK /\ RateBounded)
<1> USE BucketAssumption
<1>1. BucketInit => BucketTypeOK /\ RateInv
  BY DEF BucketInit, BucketTypeOK, RateInv, NoLoop, Loop
<1>2. BucketTypeOK /\ RateInv /\ [BucketNext]_bucketVars => (BucketTypeOK /\ RateInv)'
  BY Zenon, BucketTypeStep, RateStep
<1>3. BucketTypeOK /\ RateInv => RateBounded
  <2> SUFFICES ASSUME BucketTypeOK, RateInv PROVE RateBounded
    OBVIOUS
  <2> DEFINE Sum == consumed + available_tokens + refiller.amount - Capacity
  <2>1. /\ Sum \in Int /\ elapsed \in Nat /\ last_refill_time \in Nat /\ last_refill_time <= elapsed
        /\ consumed - Capacity \in Int /\ consumed - Capacity <= Sum
        /\ Second * Sum <= FillRate * last_refill_time
    BY DEF BucketTypeOK, Loop, RateInv
  <2> HIDE DEF Sum
  <2>2. Second * (consumed - Capacity) <= Second * Sum
    BY Zenon, <2>1, Monotone
  <2>3. FillRate * last_refill_time <= FillRate * elapsed
    BY <2>1, Monotone
  <2>4. /\ Second * (consumed - Capacity) \in Int /\ Second * Sum \in Int
        /\ FillRate * last_refill_time \in Int /\ FillRate * elapsed \in Int
    BY <2>1
  <2> QED BY SMTT(60), <2>1, <2>2, <2>3, <2>4 DEF RateBounded
<1> QED BY <1>1, <1>2, <1>3, PTL DEF BucketSpec

-----------------------------------------------------------------------------
(***************************************************************************)
(* HolePunch: the lock on punching to symmetric NATs.                      *)
(***************************************************************************)
TaskRec == [pc : {"sleep", "lock", "call", "finished"}]

PunchTypes ==
    /\ DOMAIN table = Peer /\ DOMAIN lock = Peer /\ DOMAIN serving = Peer
    /\ \A n \in Peer : /\ table[n] \in [DOMAIN table[n] -> TaskRec]
                       /\ \A i \in DOMAIN table[n] : i.dst \in Peer

(* Of two in the queue of a lock one was there first.                      *)
Ordered(n) ==
    \A v, w \in DOMAIN lock[n] : v # w => v \in lock[n][w] \/ w \in lock[n][v]

(* Whoever sends for a symmetric punch holds the lock.                     *)
SendersHold(n) ==
    /\ \A i \in DOMAIN table[n] : Pc(n, i) = "call" => Holds(n, Client(i))
    /\ \A f \in serving[n] : Holds(n, Server(f))

(* Who is in the queue is a task of the node or a request.                 *)
Entrants(n) == \A w \in DOMAIN lock[n] : IF w.by = "server" THEN w = Server(w.from) ELSE w = Client(w.item)

LockSound(n) == Entrants(n) /\ LockOwned(n) /\ Ordered(n) /\ SendersHold(n)

PunchInv == PunchTypes /\ \A n \in Peer : LockSound(n)

(* The entrants of a lock are told apart.                                  *)
LEMMA EntrantsApart ==
    /\ \A i, j : Client(i) = Client(j) => i = j
    /\ \A f, g : Server(f) = Server(g) => f = g
    /\ \A i, f : Client(i) # Server(f)
    /\ \A i : Client(i).by = "client" /\ Client(i).item = i
    /\ \A f : Server(f).by = "server" /\ Server(f).from = f
BY Zenon DEF Client, Server

LEMMA OneLockHolder ==
  ASSUME NEW n \in Peer, Ordered(n), NEW v, NEW w, Holds(n, v), Holds(n, w)
  PROVE  v = w
BY Zenon DEF Ordered, Holds

(* At most one sends.                                                      *)
LEMMA OneSender ==
  ASSUME NEW n \in Peer, Ordered(n), SendersHold(n)
  PROVE  \A v, w \in Senders(n) : v = w
<1>1. \A v \in Senders(n) : Holds(n, v)
  BY Zenon DEF Senders, SendersHold
<1> QED BY Zenon, <1>1, OneLockHolder

LEMMA PunchInvInit == PunchInit => PunchInv
<1> SUFFICES ASSUME PunchInit PROVE PunchInv OBVIOUS
<1>1. DOMAIN Unlocked = {}
  BY Zenon DEF Unlocked
<1>2. PunchTypes
  BY DEF PunchInit, PunchTypes, TaskRec
<1>3. ASSUME NEW n \in Peer PROVE DOMAIN lock[n] = {} /\ serving[n] = {} /\ DOMAIN table[n] = {}
  BY <1>1 DEF PunchInit
<1> QED BY Zenon, <1>2, <1>3 DEF PunchInv, LockSound, Entrants, LockOwned, Ordered, SendersHold

(* A node whose lock, tasks and requests stay.                             *)
LEMMA SameNode ==
  ASSUME NEW n \in Peer, LockSound(n), lock'[n] = lock[n], table'[n] = table[n], serving'[n] = serving[n]
  PROVE  LockSound(n)'
BY Zenon DEF LockSound, Entrants, LockOwned, Ordered, SendersHold, Holds, Pc

(* Leaving a lock keeps the order of the others.                           *)
LEMMA Leaving ==
  ASSUME NEW n \in Peer, NEW gone, Ordered(n), lock'[n] = Without(lock[n], gone)
  PROVE  /\ Ordered(n)'
         /\ \A w : Holds(n, w) /\ w \notin gone => Holds(n, w)'
         /\ \A w \in DOMAIN lock'[n] : w \in DOMAIN lock[n] /\ w \notin gone
BY DEF Ordered, Holds, Without

LEMMA Entering ==
  ASSUME NEW n \in Peer, NEW who, Ordered(n), lock'[n] = Entered(lock[n], who), who \notin DOMAIN lock[n]
  PROVE  /\ Ordered(n)'
         /\ \A w : Holds(n, w) => Holds(n, w)'
         /\ \A w \in DOMAIN lock'[n] : w \in DOMAIN lock[n] \/ w = who
         /\ DOMAIN lock[n] = {} => Holds(n, who)'
BY DEF Ordered, Holds, Entered

(* A task goes on.                                                         *)
LEMMA GotoStep ==
  ASSUME PunchTypes, NEW n \in Peer, NEW i \in DOMAIN table[n],
         NEW pc \in {"sleep", "lock", "call", "finished"}, Goto(n, i, pc),
         DOMAIN lock' = Peer, DOMAIN serving' = Peer
  PROVE  /\ PunchTypes'
         /\ DOMAIN table'[n] = DOMAIN table[n] /\ Pc(n, i)' = pc
         /\ \A j \in DOMAIN table[n] : j # i => Pc(n, j)' = Pc(n, j)
         /\ \A m \in Peer : m # n => table'[m] = table[m]
<1>1. table' = [table EXCEPT ![n] = [table[n] EXCEPT ![i] = [table[n][i] EXCEPT !.pc = pc]]]
  BY Zenon DEF Goto
<1>2. table[n] \in [DOMAIN table[n] -> TaskRec] /\ DOMAIN table = Peer
  BY Zenon DEF PunchTypes
<1>3. DOMAIN table' = Peer /\ table'[n] = [table[n] EXCEPT ![i] = [table[n][i] EXCEPT !.pc = pc]]
      /\ \A m \in Peer : m # n => table'[m] = table[m]
  BY Zenon, <1>1, <1>2
<1>4. [table[n][i] EXCEPT !.pc = pc] = [pc |-> pc] /\ [pc |-> pc] \in TaskRec
  BY <1>2 DEF TaskRec
<1>5. DOMAIN table'[n] = DOMAIN table[n] /\ table'[n][i] = [pc |-> pc]
      /\ table'[n] \in [DOMAIN table[n] -> TaskRec]
      /\ \A j \in DOMAIN table[n] : j # i => table'[n][j] = table[n][j]
  BY <1>2, <1>3, <1>4
<1>6. PunchTypes'
  BY Zenon, <1>3, <1>5 DEF PunchTypes
<1> QED BY Zenon, <1>3, <1>5, <1>6 DEF Pc

-----------------------------------------------------------------------------
LEMMA MainLoopStep == ASSUME PunchInv, NEW n \in Peer, MainLoop(n) PROVE PunchInv'
<1> DEFINE wanted == CollectPeers(n)
           gone == ToRemove(table[n], wanted)
<1>1. /\ table' = [table EXCEPT ![n] = AfterLoop(table[n], wanted, [pc |-> "sleep"])]
      /\ lock' = [lock EXCEPT ![n] = LockFreed(n, gone)] /\ serving' = serving
  BY Zenon DEF MainLoop
<1>2. PunchTypes /\ \A m \in Peer : LockSound(m)
  BY Zenon DEF PunchInv
<1>3. \A i \in wanted : i.dst \in Peer
  BY DEF CollectPeers, Item
<1> HIDE DEF wanted
<1>4. /\ table'[n] = AfterLoop(table[n], wanted, [pc |-> "sleep"])
      /\ lock'[n] = Without(lock[n], {Client(i) : i \in gone})
      /\ \A m \in Peer : m # n => table'[m] = table[m] /\ lock'[m] = lock[m]
      /\ DOMAIN table' = Peer /\ DOMAIN lock' = Peer
  BY Zenon, <1>1, <1>2 DEF PunchTypes, LockFreed
<1>5. /\ DOMAIN table'[n] = wanted
      /\ \A i \in wanted : IF i \in DOMAIN table[n] \ gone THEN table'[n][i] = table[n][i]
                           ELSE table'[n][i] = [pc |-> "sleep"]
  BY Zenon, <1>4 DEF AfterLoop
<1>6. \A i \in DOMAIN table[n] \ gone : i \in wanted
  BY Zenon DEF ToRemove
<1> HIDE DEF gone
<1>7. table'[n] \in [DOMAIN table'[n] -> TaskRec]
  <2>1. table'[n] = [i \in wanted |-> table'[n][i]]
    BY Zenon, <1>4 DEF AfterLoop
  <2>2. table[n] \in [DOMAIN table[n] -> TaskRec] /\ [pc |-> "sleep"] \in TaskRec
    BY Zenon, <1>2 DEF PunchTypes, TaskRec
  <2>3. \A i \in wanted : table'[n][i] \in TaskRec
    BY Zenon, <2>2, <1>5
  <2> QED BY Zenon, <2>1, <2>3, <1>5
<1>8. PunchTypes'
  BY Zenon, <1>1, <1>2, <1>3, <1>4, <1>5, <1>7 DEF PunchTypes
<1>9. Entrants(n) /\ Ordered(n) /\ LockOwned(n) /\ SendersHold(n)
  BY Zenon, <1>2 DEF LockSound
<1>10. /\ Ordered(n)'
       /\ \A w : Holds(n, w) /\ w \notin {Client(i) : i \in gone} => Holds(n, w)'
       /\ \A w \in DOMAIN lock'[n] : w \in DOMAIN lock[n] /\ w \notin {Client(i) : i \in gone}
  BY Zenon, Leaving, <1>4, <1>9
<1>11. \A i \in wanted : Pc(n, i)' = IF i \in DOMAIN table[n] \ gone THEN Pc(n, i) ELSE "sleep"
  BY <1>5 DEF Pc
<1>12. SendersHold(n)'
  <2>1. \A i \in wanted : Pc(n, i)' = "call" => i \in DOMAIN table[n] \ gone /\ Pc(n, i) = "call"
    BY Zenon, <1>11
  <2>2. \A i : i \notin gone => Client(i) \notin {Client(j) : j \in gone}
    BY EntrantsApart
  <2>3. \A f : Server(f) \notin {Client(j) : j \in gone}
    BY EntrantsApart
  <2> QED BY Zenon, <1>1, <1>5, <1>9, <1>10, <2>1, <2>2, <2>3 DEF SendersHold
<1>13. LockOwned(n)'
  <2> SUFFICES ASSUME NEW w \in DOMAIN lock'[n]
               PROVE  IF w.by = "server" THEN w.from \in serving'[n]
                      ELSE w.item \in DOMAIN table'[n] /\ Pc(n, w.item)' \in {"lock", "call"}
    BY Zenon DEF LockOwned
  <2>1. CASE w.by = "server"
    BY Zenon, <2>1, <1>1, <1>9, <1>10 DEF LockOwned
  <2>2. CASE w.by # "server"
    <3>1. w.item \in DOMAIN table[n] /\ Pc(n, w.item) \in {"lock", "call"}
      BY Zenon, <2>2, <1>9, <1>10 DEF LockOwned
    <3>2. w = Client(w.item)
      BY Zenon, <2>2, <1>9, <1>10, EntrantsApart DEF Entrants
    <3>3. w.item \notin gone
      BY Zenon, <1>10, <3>2
    <3> QED BY Zenon, <2>2, <3>1, <3>3, <1>5, <1>6, <1>11
  <2> QED BY Zenon, <2>1, <2>2
<1>14. \A m \in Peer : m # n => LockSound(m)'
  BY Zenon, SameNode, <1>1, <1>2, <1>4
<1>15. Entrants(n)'
  BY Zenon, <1>9, <1>10 DEF Entrants
<1> QED BY Zenon, <1>8, <1>10, <1>12, <1>13, <1>14, <1>15 DEF PunchInv, LockSound

(* A step of task i: what it does with the locks decides.                  *)
LEMMA DoConeStep ==
  ASSUME PunchInv, NEW n \in Peer, NEW i \in DOMAIN table[n], DoConePunching(n, i)
  PROVE  PunchInv'
<1>1. PunchTypes /\ \A m \in Peer : LockSound(m)
  BY Zenon DEF PunchInv
<1>2. Pc(n, i) = "sleep" /\ serving' = serving
  BY Zenon DEF DoConePunching
<1>3. Entrants(n) /\ Ordered(n) /\ LockOwned(n) /\ SendersHold(n)
  BY Zenon, <1>1 DEF LockSound
<1>4. Client(i) \notin DOMAIN lock[n]
  BY Zenon, <1>2, <1>3, EntrantsApart DEF LockOwned
<1>5. CASE UNCHANGED lock /\ \E pc \in {"sleep", "finished"} : Goto(n, i, pc)
  <2>1. PICK pc \in {"sleep", "finished"} : Goto(n, i, pc)
    BY Zenon, <1>5
  <2>2. /\ PunchTypes' /\ DOMAIN table'[n] = DOMAIN table[n] /\ Pc(n, i)' = pc
        /\ \A j \in DOMAIN table[n] : j # i => Pc(n, j)' = Pc(n, j)
        /\ \A m \in Peer : m # n => table'[m] = table[m]
    BY Zenon, GotoStep, <2>1, <1>1, <1>2, <1>5 DEF PunchTypes
  <2>3. SendersHold(n)'
    BY Zenon, <2>2, <1>2, <1>3, <1>5 DEF SendersHold, Holds
  <2>4. LockOwned(n)'
    <3>1. \A w \in DOMAIN lock[n] : w.by # "server" => w.item # i
      BY Zenon, <1>2, <1>3 DEF LockOwned
    <3> QED BY Zenon, <2>2, <3>1, <1>2, <1>3, <1>5 DEF LockOwned
  <2>5. Entrants(n)' /\ Ordered(n)'
    BY Zenon, <1>3, <1>5 DEF Entrants, Ordered
  <2>6. \A m \in Peer : m # n => LockSound(m)'
    BY Zenon, SameNode, <1>1, <1>2, <1>5, <2>2
  <2> QED BY Zenon, <2>2, <2>3, <2>4, <2>5, <2>6 DEF PunchInv, LockSound
<1>6. CASE Goto(n, i, "lock") /\ lock' = [lock EXCEPT ![n] = Entered(@, Client(i))]
  <2>1. /\ lock'[n] = Entered(lock[n], Client(i)) /\ DOMAIN lock' = Peer
        /\ \A m \in Peer : m # n => lock'[m] = lock[m]
    BY Zenon, <1>1, <1>6 DEF PunchTypes
  <2>2. /\ PunchTypes' /\ DOMAIN table'[n] = DOMAIN table[n] /\ Pc(n, i)' = "lock"
        /\ \A j \in DOMAIN table[n] : j # i => Pc(n, j)' = Pc(n, j)
        /\ \A m \in Peer : m # n => table'[m] = table[m]
    BY Zenon, GotoStep, <2>1, <1>1, <1>2, <1>6 DEF PunchTypes
  <2>3. /\ Ordered(n)'
        /\ \A w : Holds(n, w) => Holds(n, w)'
        /\ \A w \in DOMAIN lock'[n] : w \in DOMAIN lock[n] \/ w = Client(i)
    BY Zenon, Entering, <2>1, <1>3, <1>4
  <2>4. SendersHold(n)'
    BY Zenon, <2>2, <2>3, <1>2, <1>3 DEF SendersHold
  <2>5. LockOwned(n)'
    <3>1. \A w \in DOMAIN lock'[n] : w.by # "server" =>
             w.item = i \/ (w.item \in DOMAIN table[n] /\ w.item # i /\ Pc(n, w.item) \in {"lock", "call"})
      <4>1. Client(i).item = i
        BY Zenon, EntrantsApart
      <4>2. ASSUME NEW w \in DOMAIN lock[n], w.by # "server"
            PROVE  w.item \in DOMAIN table[n] /\ Pc(n, w.item) \in {"lock", "call"}
        BY Zenon, <1>3, <4>2 DEF LockOwned
      <4>3. ASSUME NEW w \in DOMAIN lock[n], w.by # "server" PROVE w.item # i
        BY Zenon, <1>2, <4>2, <4>3
      <4>4. ASSUME NEW w \in DOMAIN lock'[n], w \notin DOMAIN lock[n] PROVE w.item = i
        <5>1. w = Client(i)
          BY Zenon, <2>3, <4>4
        <5> QED BY Zenon, <4>1, <5>1
      <4> QED BY Zenon, <4>2, <4>3, <4>4
    <3>2. \A w \in DOMAIN lock'[n] : w.by = "server" => w.from \in serving[n]
      BY Zenon, <2>3, <1>2, <1>3, EntrantsApart DEF LockOwned
    <3> QED BY Zenon, <2>2, <3>1, <3>2, <1>2 DEF LockOwned
  <2>6. Entrants(n)'
    BY <2>3, <1>3, EntrantsApart DEF Entrants
  <2>7. \A m \in Peer : m # n => LockSound(m)'
    BY Zenon, SameNode, <1>1, <1>2, <2>1, <2>2
  <2> QED BY Zenon, <2>2, <2>3, <2>4, <2>5, <2>6, <2>7 DEF PunchInv, LockSound
<1> QED BY Zenon, <1>5, <1>6 DEF DoConePunching, Success

(* A client leaves the lock of its node.                                   *)
LEMMA ReleaseStep ==
  ASSUME PunchInv, NEW n \in Peer, NEW i \in DOMAIN table[n], Release(n, i), UNCHANGED serving,
         NEW pc \in {"sleep", "finished"}, Goto(n, i, pc)
  PROVE  PunchInv'
<1>1. PunchTypes /\ \A m \in Peer : LockSound(m)
  BY Zenon DEF PunchInv
<1>2. /\ lock'[n] = Without(lock[n], {Client(i)}) /\ DOMAIN lock' = Peer
      /\ \A m \in Peer : m # n => lock'[m] = lock[m]
  BY Zenon, <1>1 DEF Release, PunchTypes
<1>3. Entrants(n) /\ Ordered(n) /\ LockOwned(n) /\ SendersHold(n)
  BY Zenon, <1>1 DEF LockSound
<1>4. /\ PunchTypes' /\ DOMAIN table'[n] = DOMAIN table[n] /\ Pc(n, i)' = pc
      /\ \A j \in DOMAIN table[n] : j # i => Pc(n, j)' = Pc(n, j)
      /\ \A m \in Peer : m # n => table'[m] = table[m]
  BY Zenon, GotoStep, <1>1, <1>2 DEF PunchTypes
<1>5. /\ Ordered(n)'
      /\ \A w : Holds(n, w) /\ w # Client(i) => Holds(n, w)'
      /\ \A w \in DOMAIN lock'[n] : w \in DOMAIN lock[n] /\ w # Client(i)
  BY Zenon, Leaving, <1>2, <1>3
<1>6. SendersHold(n)'
  <2>1. \A j \in DOMAIN table[n] : Pc(n, j)' = "call" => j # i /\ Pc(n, j) = "call"
    BY Zenon, <1>4
  <2>2. \A j \in DOMAIN table[n] : j # i => Client(j) # Client(i)
    BY Zenon, EntrantsApart
  <2>3. \A f \in serving[n] : Server(f) # Client(i)
    BY Zenon, EntrantsApart
  <2> QED BY Zenon, <2>1, <2>2, <2>3, <1>3, <1>4, <1>5 DEF SendersHold
<1>7. LockOwned(n)'
  <2>1. \A w \in DOMAIN lock'[n] : w.by # "server" =>
           w.item \in DOMAIN table[n] /\ w.item # i /\ Pc(n, w.item) \in {"lock", "call"}
    BY Zenon, <1>3, <1>5 DEF LockOwned, Entrants
  <2>2. \A w \in DOMAIN lock'[n] : w.by = "server" => w.from \in serving[n]
    BY Zenon, <1>3, <1>5 DEF LockOwned
  <2> QED BY Zenon, <1>4, <2>1, <2>2 DEF LockOwned
<1>8. Entrants(n)'
  BY Zenon, <1>3, <1>5 DEF Entrants
<1>9. \A m \in Peer : m # n => LockSound(m)'
  BY Zenon, SameNode, <1>1, <1>2, <1>4
<1> QED BY Zenon, <1>4, <1>5, <1>6, <1>7, <1>8, <1>9 DEF PunchInv, LockSound

(* The handler of a request has the lock from its try_lock to its end.     *)
LEMMA SymServeStep == ASSUME PunchInv, NEW n \in Peer, SymServe(n) PROVE PunchInv'
<1>1. PunchTypes /\ \A m \in Peer : LockSound(m)
  BY Zenon DEF PunchInv
<1>2. PICK f \in serving[n] : /\ serving' = [serving EXCEPT ![n] = @ \ {f}]
                              /\ lock' = [lock EXCEPT ![n] = Without(@, {Server(f)})]
  BY Zenon DEF SymServe
<1>3. /\ lock'[n] = Without(lock[n], {Server(f)}) /\ serving'[n] = serving[n] \ {f}
      /\ DOMAIN lock' = Peer /\ DOMAIN serving' = Peer /\ table' = table
      /\ \A m \in Peer : m # n => lock'[m] = lock[m] /\ serving'[m] = serving[m]
  BY Zenon, <1>1, <1>2 DEF PunchTypes, SymServe
<1>4. Entrants(n) /\ Ordered(n) /\ LockOwned(n) /\ SendersHold(n)
  BY Zenon, <1>1 DEF LockSound
<1>5. /\ Ordered(n)'
      /\ \A w : Holds(n, w) /\ w # Server(f) => Holds(n, w)'
      /\ \A w \in DOMAIN lock'[n] : w \in DOMAIN lock[n] /\ w # Server(f)
  BY Zenon, Leaving, <1>3, <1>4
<1>6. SendersHold(n)'
  <2>1. \A j \in DOMAIN table[n] : Client(j) # Server(f) /\ Pc(n, j)' = Pc(n, j)
    BY Zenon, <1>3, EntrantsApart DEF Pc
  <2>2. \A g \in serving'[n] : g \in serving[n] /\ Server(g) # Server(f)
    BY Zenon, <1>3, EntrantsApart
  <2> QED BY Zenon, <2>1, <2>2, <1>3, <1>4, <1>5 DEF SendersHold
<1>7. LockOwned(n)'
  <2>1. \A w \in DOMAIN lock'[n] : w.by = "server" => w.from \in serving'[n]
    BY Zenon, <1>3, <1>4, <1>5 DEF LockOwned, Entrants
  <2>2. \A w \in DOMAIN lock'[n] : w.by # "server" =>
           w.item \in DOMAIN table[n] /\ Pc(n, w.item) \in {"lock", "call"}
    BY Zenon, <1>4, <1>5 DEF LockOwned
  <2> QED BY Zenon, <2>1, <2>2, <1>3 DEF LockOwned, Pc
<1>8. Entrants(n)'
  BY Zenon, <1>4, <1>5 DEF Entrants
<1>9. \A m \in Peer : m # n => LockSound(m)'
  BY Zenon, SameNode, <1>1, <1>3
<1>10. PunchTypes'
  BY Zenon, <1>1, <1>3 DEF PunchTypes
<1> QED BY Zenon, <1>10, <1>5, <1>6, <1>7, <1>8, <1>9 DEF PunchInv, LockSound

(* The client goes on with its own lock, and that of the server is taken   *)
(* if it is free.                                                          *)
LEMMA SymCallStep ==
  ASSUME PunchInv, NEW n \in Peer, NEW i \in DOMAIN table[n], Holds(n, Client(i)), Goto(n, i, "call"),
         \/ UNCHANGED <<lock, serving>>
         \/ /\ lock[i.dst] = Unlocked
            /\ Serve(n, i) /\ lock' = [lock EXCEPT ![i.dst] = Entered(@, Server(n))]
  PROVE  PunchInv'
<1>1. PunchTypes /\ \A m \in Peer : LockSound(m)
  BY Zenon DEF PunchInv
<1>2. i.dst \in Peer /\ DOMAIN lock' = Peer /\ DOMAIN serving' = Peer
  BY Zenon, <1>1 DEF PunchTypes, Serve
<1>3. /\ PunchTypes' /\ DOMAIN table'[n] = DOMAIN table[n] /\ Pc(n, i)' = "call"
      /\ \A j \in DOMAIN table[n] : j # i => Pc(n, j)' = Pc(n, j)
      /\ \A m \in Peer : m # n => table'[m] = table[m]
  BY Zenon, GotoStep, <1>1, <1>2
<1>4. Entrants(n) /\ Ordered(n) /\ LockOwned(n) /\ SendersHold(n)
  BY Zenon, <1>1 DEF LockSound
<1>5. ASSUME lock'[n] = lock[n], serving'[n] = serving[n] PROVE LockSound(n)'
  <2>1. SendersHold(n)'
    BY Zenon, <1>3, <1>4, <1>5 DEF SendersHold, Holds
  <2>2. LockOwned(n)'
    BY <1>3, <1>4, <1>5 DEF LockOwned
  <2>3. Entrants(n)' /\ Ordered(n)'
    BY Zenon, <1>4, <1>5 DEF Entrants, Ordered
  <2> QED BY Zenon, <2>1, <2>2, <2>3 DEF LockSound
<1>6. CASE UNCHANGED <<lock, serving>>
  <2>1. \A m \in Peer : m # n => LockSound(m)'
    BY Zenon, SameNode, <1>1, <1>3, <1>6
  <2> QED BY Zenon, <1>3, <1>5, <1>6, <2>1 DEF PunchInv
<1>7. CASE /\ lock[i.dst] = Unlocked
           /\ Serve(n, i) /\ lock' = [lock EXCEPT ![i.dst] = Entered(@, Server(n))]
  <2> DEFINE d == i.dst
  <2>1. DOMAIN lock[d] = {}
    BY Zenon, <1>7 DEF Unlocked
  <2>2. d # n
    BY Zenon, <2>1 DEF Holds
  <2>3. /\ lock'[d] = Entered(lock[d], Server(n)) /\ serving'[d] = serving[d] \cup {n}
        /\ \A m \in Peer : m # d => lock'[m] = lock[m] /\ serving'[m] = serving[m]
    BY Zenon, <1>1, <1>2, <1>7 DEF PunchTypes, Serve
  <2> HIDE DEF d
  <2>4. d \in Peer /\ Ordered(d) /\ SendersHold(d)
    BY Zenon, <1>1, <1>2 DEF LockSound, d
  <2>5. serving[d] = {} /\ \A j \in DOMAIN table[d] : Pc(d, j) # "call"
    BY Zenon, <2>1, <2>4 DEF SendersHold, Holds
  <2>6. /\ Ordered(d)' /\ Holds(d, Server(n))'
        /\ \A w \in DOMAIN lock'[d] : w = Server(n)
    BY Zenon, Entering, <2>1, <2>3, <2>4
  <2>7. table'[d] = table[d] /\ \A j \in DOMAIN table[d] : Pc(d, j)' # "call"
    BY Zenon, <1>3, <2>2, <2>4, <2>5 DEF Pc
  <2>8. serving'[d] = {n}
    BY Zenon, <2>3, <2>5
  <2>9. LockSound(d)'
    <3>1. SendersHold(d)'
      BY Zenon, <2>6, <2>7, <2>8 DEF SendersHold
    <3>2. LockOwned(d)' /\ Entrants(d)'
      BY <2>6, <2>8, EntrantsApart DEF LockOwned, Entrants
    <3> QED BY Zenon, <2>6, <3>1, <3>2 DEF LockSound
  <2>10. LockSound(n)'
    BY Zenon, <1>5, <2>2, <2>3
  <2>11. \A m \in Peer : m # n /\ m # d => LockSound(m)'
    BY Zenon, SameNode, <1>1, <1>3, <2>3
  <2> QED BY Zenon, <1>3, <2>9, <2>10, <2>11 DEF PunchInv
<1> QED BY Zenon, <1>6, <1>7

LEMMA PunchInvStep == PunchInv /\ [PunchNext]_punchVars => PunchInv'
<1> SUFFICES ASSUME PunchInv, [PunchNext]_punchVars PROVE PunchInv'
  OBVIOUS
<1>1. ASSUME UNCHANGED <<table, lock, serving>> PROVE PunchInv'
  BY Zenon, <1>1, SameNode DEF PunchInv, PunchTypes
<1>2. ASSUME NEW n \in Peer, NEW i \in DOMAIN table[n], SymCall(n, i) PROVE PunchInv'
  BY Zenon, <1>2, SymCallStep, ReleaseStep DEF SymCall
<1>3. ASSUME NEW n \in Peer, NEW i \in DOMAIN table[n], SymResult(n, i) PROVE PunchInv'
  BY Zenon, <1>3, ReleaseStep DEF SymResult, Success
<1> QED BY Zenon, <1>1, <1>2, <1>3, MainLoopStep, SymServeStep, DoConeStep
        DEF PunchNext, PunchTask, LinkLost, NatFound, punchVars

(* Whatever tasks are launched, aborted and finished, and whatever NATs    *)
(* the nodes have: at most one symmetric punch of a node is sent for at a  *)
(* time, and its lock is never left with nobody to release it.             *)
THEOREM AlwaysSymSerialized == PunchSpec => []SymSerialized
<1>1. PunchInv => SymSerialized
  BY Zenon, OneSender DEF PunchInv, LockSound, SymSerialized
<1> QED BY <1>1, PunchInvInit, PunchInvStep, PTL DEF PunchSpec

-----------------------------------------------------------------------------
(***************************************************************************)
(* PunchServer: the listeners of a peer that is asked to punch.            *)
(***************************************************************************)
ListenerRec == [mapped : BOOLEAN, conns : Nat, active : Nat, selected : Nat, noted : BOOLEAN]
GivenRec == [pc : {"idle", "create", "pick", "given", "found"}, force : BOOLEAN, last : BOOLEAN,
             id : Nat, wait : 0 .. ConnectWithin]

ServerTypes ==
    /\ listeners \in [DOMAIN listeners -> ListenerRec]
    /\ made \in Nat /\ DOMAIN listeners \subseteq 1 .. made
    /\ given \in [Requester -> GivenRec]
    /\ \A c \in Requester : given[c].id <= made

(* A listener that is in use was noted to be at the last or at the present *)
(* period, or it was given out not long ago.                               *)
InUseKept(l) ==
    l.conns > 0 => \/ l.active = 0 \/ l.selected <= ConnectWithin
                   \/ ~l.noted /\ (l.active <= 1 \/ l.selected <= ConnectWithin + 1)

(* A listener was given out when its client began to wait, or later.       *)
WaitKept(c) ==
    Waiting(c) /\ Exists(given[c].id) => listeners[given[c].id].selected <= given[c].wait

ServerInv ==
    /\ ServerTypes /\ cut = {}
    /\ \A k \in DOMAIN listeners : InUseKept(listeners[k])
    /\ \A c \in Requester : WaitKept(c)

LEMMA ServerInvInit == ServerInit => ServerInv
<1> SUFFICES ASSUME ServerInit PROVE ServerInv OBVIOUS
<1>1. DOMAIN listeners = {} /\ made = 0 /\ given = [c \in Requester |-> NoCall] /\ cut = {}
  BY DEF ServerInit
<1>2. NoCall \in GivenRec /\ NoCall.id = 0
  BY KeepAssumption DEF NoCall, GivenRec
<1>3. listeners \in [DOMAIN listeners -> ListenerRec]
  BY <1>1 DEF ServerInit
<1> QED BY <1>1, <1>2, <1>3 DEF ServerInv, ServerTypes, WaitKept, Exists

(* One listener of the list changes, and the calls do as given.            *)
LEMMA OneChanges ==
  ASSUME ServerInv, NEW k \in DOMAIN listeners, NEW l \in ListenerRec,
         listeners' = [listeners EXCEPT ![k] = l], InUseKept(l),
         UNCHANGED <<made, cut>>, given' \in [Requester -> GivenRec],
         \A c \in Requester : given'[c].id <= made,
         \A c \in Requester : Waiting(c)' =>
            \/ /\ given'[c].id = k /\ l.selected = 0
            \/ /\ Waiting(c) /\ given'[c].id = given[c].id /\ given'[c].wait = given[c].wait
               /\ l.selected <= listeners[k].selected
  PROVE  ServerInv'
<1>1. ServerTypes /\ cut = {} /\ (\A j \in DOMAIN listeners : InUseKept(listeners[j]))
      /\ \A c \in Requester : WaitKept(c)
  BY Zenon DEF ServerInv
<1>2. /\ DOMAIN listeners' = DOMAIN listeners /\ listeners'[k] = l
      /\ \A j \in DOMAIN listeners : j # k => listeners'[j] = listeners[j]
      /\ listeners' \in [DOMAIN listeners -> ListenerRec]
  BY Zenon, <1>1 DEF ServerTypes
<1>3. ServerTypes'
  BY Zenon, <1>1, <1>2 DEF ServerTypes
<1>4. \A j \in DOMAIN listeners' : InUseKept(listeners'[j])
  BY Zenon, <1>1, <1>2
<1>5. ASSUME NEW c \in Requester, Waiting(c)', Exists(given[c].id)'
      PROVE  listeners'[given'[c].id].selected <= given'[c].wait
  <2>1. given'[c] \in GivenRec /\ given[c] \in GivenRec
    BY Zenon, <1>1 DEF ServerTypes
  <2>2. given'[c].wait \in Nat /\ given[c].wait \in Nat
    BY <2>1, KeepAssumption DEF GivenRec
  <2>3. given'[c].id \in DOMAIN listeners
    BY Zenon, <1>2, <1>5 DEF Exists
  <2>4. CASE given'[c].id = k /\ l.selected = 0
    BY <1>2, <2>2, <2>4
  <2>5. CASE /\ Waiting(c) /\ given'[c].id = given[c].id /\ given'[c].wait = given[c].wait
             /\ l.selected <= listeners[k].selected
    <3>1. listeners[given[c].id].selected <= given[c].wait
      BY Zenon, <1>1, <2>3, <2>5 DEF WaitKept, Exists
    <3>2. l.selected \in Nat /\ listeners[k].selected \in Nat
      BY Zenon, <1>1 DEF ServerTypes, ListenerRec
    <3> QED BY <1>2, <2>2, <2>3, <2>5, <3>1, <3>2
  <2> QED BY Zenon, <1>5, <2>4, <2>5
<1>6. \A c \in Requester : WaitKept(c)'
  BY Zenon, <1>5 DEF WaitKept
<1> QED BY Zenon, <1>1, <1>3, <1>4, <1>6 DEF ServerInv

(* The list stays, and no call begins to wait.                             *)
LEMMA CallChanges ==
  ASSUME ServerInv, UNCHANGED <<listeners, made, cut>>, NEW c \in Requester, NEW g \in GivenRec,
         given' = [given EXCEPT ![c] = g], g.id <= made, g.pc \notin {"given", "found"}
  PROVE  ServerInv'
<1>1. given \in [Requester -> GivenRec]
  BY Zenon DEF ServerInv, ServerTypes
<1>2. /\ given' \in [Requester -> GivenRec] /\ given'[c] = g
      /\ \A d \in Requester : d # c => given'[d] = given[d]
  BY Zenon, <1>1
<1>3. ServerTypes'
  BY Zenon, <1>2 DEF ServerInv, ServerTypes
<1>4. ASSUME NEW d \in Requester PROVE WaitKept(d)'
  <2>1. CASE d = c
    BY Zenon, <1>2, <2>1 DEF WaitKept, Waiting
  <2>2. CASE d # c
    BY Zenon, <1>2, <2>2 DEF WaitKept, Waiting, Exists, ServerInv
  <2> QED BY Zenon, <2>1, <2>2
<1> QED BY Zenon, <1>3, <1>4 DEF ServerInv

(* A listener joins the list under a number that nobody was given.         *)
LEMMA PushStep ==
  ASSUME ServerInv, NEW l \in ListenerRec, Push(l), InUseKept(l), UNCHANGED cut,
         given' \in [Requester -> GivenRec],
         \A c \in Requester : given'[c].id = given[c].id /\
             (Waiting(c)' => Waiting(c) /\ given'[c].wait = given[c].wait)
  PROVE  ServerInv'
<1>1. ServerTypes /\ cut = {} /\ (\A j \in DOMAIN listeners : InUseKept(listeners[j]))
      /\ \A c \in Requester : WaitKept(c)
  BY Zenon DEF ServerInv
<1>2. made' = made + 1 /\ made \in Nat /\ DOMAIN listeners \subseteq 1 .. made
      /\ \A c \in Requester : given[c].id <= made /\ given[c].id \in Nat
  BY Zenon, <1>1 DEF Push, ServerTypes, GivenRec
<1>3. made' \notin DOMAIN listeners /\ (\A c \in Requester : given[c].id # made') /\ made' \in Nat
  BY <1>2
<1>4. DOMAIN listeners \cup {made'} \subseteq 1 .. made' /\ \A c \in Requester : given'[c].id <= made'
  BY <1>2
<1>5. /\ DOMAIN listeners' = DOMAIN listeners \cup {made'}
      /\ listeners' = [k \in DOMAIN listeners' |-> listeners'[k]]
      /\ listeners'[made'] = l /\ \A k \in DOMAIN listeners : listeners'[k] = listeners[k]
  BY Zenon, <1>3 DEF Push
<1>6. listeners' \in [DOMAIN listeners' -> ListenerRec]
  <2>1. \A k \in DOMAIN listeners' : listeners'[k] \in ListenerRec
    BY Zenon, <1>1, <1>5 DEF ServerTypes
  <2> QED BY Zenon, <1>5, <2>1
<1>7. ServerTypes'
  BY Zenon, <1>3, <1>4, <1>5, <1>6 DEF ServerTypes
<1>8. \A k \in DOMAIN listeners' : InUseKept(listeners'[k])
  BY Zenon, <1>1, <1>5
<1>9. \A c \in Requester : WaitKept(c)'
  BY Zenon, <1>1, <1>3, <1>5 DEF WaitKept, Exists
<1> QED BY Zenon, <1>1, <1>7, <1>8, <1>9 DEF ServerInv

(* A note, the end of a connection: what is given out stays.               *)
LEMMA NoteStep ==
  ASSUME ServerInv, (\E k \in DOMAIN listeners : NoteActive(k)) \/ ConnEnds
  PROVE  ServerInv'
<1>1. ServerTypes /\ \A j \in DOMAIN listeners : InUseKept(listeners[j])
  BY Zenon DEF ServerInv
<1>2. \A k \in DOMAIN listeners : listeners[k] \in ListenerRec
  BY Zenon, <1>1 DEF ServerTypes
<1>3. CASE \E k \in DOMAIN listeners : NoteActive(k)
  <2>1. PICK k \in DOMAIN listeners : NoteActive(k)
    BY Zenon, <1>3
  <2> DEFINE l == [listeners[k] EXCEPT !.noted = TRUE,
                                       !.active = IF listeners[k].conns > 0 THEN 0 ELSE @]
  <2>2. listeners' = [listeners EXCEPT ![k] = l] /\ UNCHANGED <<made, given, cut>>
    BY Zenon, <2>1 DEF NoteActive
  <2>3. l \in ListenerRec /\ l.selected = listeners[k].selected /\ InUseKept(l)
        /\ listeners[k].selected \in Nat
    BY Zenon, <1>2 DEF ListenerRec, InUseKept
  <2> HIDE DEF l
  <2>4. l.selected <= listeners[k].selected
    BY <2>3
  <2> QED BY Zenon, <1>1, <2>2, <2>3, <2>4, OneChanges DEF ServerTypes, Waiting
<1>4. CASE ConnEnds
  <2>1. PICK k \in DOMAIN listeners : /\ listeners[k].conns > 0
                                      /\ listeners' = [listeners EXCEPT ![k].conns = @ - 1]
    BY Zenon, <1>4 DEF ConnEnds
  <2> DEFINE l == [listeners[k] EXCEPT !.conns = @ - 1]
  <2>2. listeners' = [listeners EXCEPT ![k] = l] /\ UNCHANGED <<made, given, cut>>
    BY Zenon, <1>4, <2>1 DEF ConnEnds
  <2>3. l \in ListenerRec /\ l.selected = listeners[k].selected /\ InUseKept(l)
        /\ listeners[k].selected \in Nat
    BY <1>1, <1>2, <2>1 DEF ListenerRec, InUseKept
  <2> HIDE DEF l
  <2>4. l.selected <= listeners[k].selected
    BY <2>3
  <2> QED BY Zenon, <1>1, <2>2, <2>3, <2>4, OneChanges DEF ServerTypes, Waiting
<1> QED BY Zenon, <1>3, <1>4

(* A listener is given out, or found again by its client.                  *)
LEMMA SocketStep ==
  ASSUME ServerInv, NEW c \in Requester, NEW k \in DOMAIN listeners, GetSocket(k), NEW g \in GivenRec,
         given' = [given EXCEPT ![c] = g], g.id = k, UNCHANGED <<made, cut>>
  PROVE  ServerInv'
<1>1. ServerTypes /\ \A j \in DOMAIN listeners : InUseKept(listeners[j])
  BY Zenon DEF ServerInv
<1> DEFINE l == [listeners[k] EXCEPT !.selected = 0]
<1>2. listeners' = [listeners EXCEPT ![k] = l] /\ listeners[k] \in ListenerRec
  BY Zenon, <1>1 DEF GetSocket, ServerTypes
<1>3. l \in ListenerRec /\ l.selected = 0 /\ InUseKept(l) /\ listeners[k].selected \in Nat
  BY <1>1, <1>2, KeepAssumption DEF ListenerRec, InUseKept
<1> HIDE DEF l
<1>4. /\ given' \in [Requester -> GivenRec] /\ given'[c] = g
      /\ \A d \in Requester : d # c => given'[d] = given[d]
  BY Zenon, <1>1 DEF ServerTypes
<1>5. k <= made
  BY <1>1 DEF ServerTypes
<1>6. \A d \in Requester : given'[d].id <= made
  BY Zenon, <1>1, <1>4, <1>5 DEF ServerTypes
<1>7. l.selected <= listeners[k].selected
  BY <1>3
<1>8. \A d \in Requester : Waiting(d)' =>
        \/ given'[d].id = k /\ l.selected = 0
        \/ /\ Waiting(d) /\ given'[d].id = given[d].id /\ given'[d].wait = given[d].wait
           /\ l.selected <= listeners[k].selected
  BY Zenon, <1>3, <1>4, <1>7 DEF Waiting
<1> QED BY Zenon, <1>2, <1>3, <1>4, <1>6, <1>8, OneChanges

LEMMA ConnectStep == ASSUME ServerInv, NEW c \in Requester, Connect(c) PROVE ServerInv'
<1>1. ServerTypes /\ \A d \in Requester : WaitKept(d)
  BY Zenon DEF ServerInv
<1>2. /\ NoCall \in GivenRec /\ NoCall.id = 0 /\ NoCall.pc = "idle" /\ made \in Nat
      /\ given' = [given EXCEPT ![c] = NoCall] /\ UNCHANGED <<made, cut>> /\ Waiting(c)
  BY <1>1, KeepAssumption DEF NoCall, GivenRec, Connect, ServerTypes, Waiting
<1>3. NoCall.id <= made
  BY <1>2
<1>4. CASE UNCHANGED listeners
  BY Zenon, <1>2, <1>3, <1>4, CallChanges
<1>5. CASE /\ Exists(given[c].id)
           /\ listeners' = [listeners EXCEPT ![given[c].id].conns = 1]
  <2> DEFINE k == given[c].id
             l == [listeners[k] EXCEPT !.conns = 1]
  <2>1. k \in DOMAIN listeners /\ listeners' = [listeners EXCEPT ![k] = l]
        /\ listeners[k] \in ListenerRec /\ given[c] \in GivenRec
    BY Zenon, <1>1, <1>5 DEF Exists, ServerTypes
  <2>2. listeners[k].selected <= given[c].wait
    BY Zenon, <1>1, <1>2, <1>5 DEF WaitKept
  <2>3. given[c].wait \in 0 .. ConnectWithin
    BY Zenon, <2>1 DEF GivenRec
  <2>4. l \in ListenerRec /\ l.selected = listeners[k].selected /\ listeners[k].selected \in Nat
    BY Zenon, <2>1 DEF ListenerRec
  <2>5. InUseKept(l)
    BY <2>2, <2>3, <2>4, KeepAssumption DEF InUseKept
  <2>6. l.selected <= listeners[k].selected
    BY <2>4
  <2> HIDE DEF k, l
  <2>7. /\ given' \in [Requester -> GivenRec] /\ given'[c] = NoCall
        /\ \A d \in Requester : d # c => given'[d] = given[d]
    BY Zenon, <1>1, <1>2 DEF ServerTypes
  <2>8. \A d \in Requester : given'[d].id <= made
    BY Zenon, <1>1, <1>2, <1>3, <2>7 DEF ServerTypes
  <2>9. ASSUME NEW d \in Requester, Waiting(d)'
        PROVE /\ Waiting(d) /\ given'[d].id = given[d].id /\ given'[d].wait = given[d].wait
              /\ l.selected <= listeners[k].selected
    <3>1. given'[d].pc \in {"given", "found"}
      BY Zenon, <2>9 DEF Waiting
    <3>2. d # c
      BY Zenon, <3>1, <1>2, <2>7
    <3> QED BY Zenon, <2>6, <2>7, <3>1, <3>2 DEF Waiting
  <2> QED BY Zenon, <1>2, <2>1, <2>4, <2>5, <2>7, <2>8, <2>9, OneChanges
<1> QED BY Zenon, <1>4, <1>5 DEF Connect

LEMMA PickStep ==
  ASSUME ServerInv, NEW c \in Requester, SelectListener(c) \/ Pick(c) \/ FindListener(c)
  PROVE  ServerInv'
<1>1. ServerTypes /\ made \in Nat /\ given[c] \in GivenRec /\ 0 \in 0 .. ConnectWithin
  BY KeepAssumption DEF ServerInv, ServerTypes
<1>2. NoCall \in GivenRec /\ NoCall.id = 0 /\ NoCall.pc = "idle"
  BY KeepAssumption DEF NoCall, GivenRec
<1>3. CASE SelectListener(c)
  <2>1. PICK pc \in {"create", "pick"} : given' = [given EXCEPT ![c] = [NoCall EXCEPT !.pc = pc]]
    BY Zenon, <1>3 DEF SelectListener
  <2>2. /\ [NoCall EXCEPT !.pc = pc] \in GivenRec /\ [NoCall EXCEPT !.pc = pc].id <= made
        /\ [NoCall EXCEPT !.pc = pc].pc = pc
    BY <1>1, <1>2 DEF GivenRec
  <2>3. pc \notin {"given", "found"}
    BY Zenon, <2>1
  <2> QED BY Zenon, <1>3, <2>1, <2>2, <2>3, CallChanges DEF SelectListener
<1>4. CASE Pick(c) /\ Candidates(c) # {}
  <2>1. PICK k \in Candidates(c) :
           GetSocket(k) /\ given' = [given EXCEPT ![c].pc = "given", ![c].id = k]
    BY Zenon, <1>4 DEF Pick
  <2>2. k \in DOMAIN listeners
    BY Zenon DEF Candidates
  <2> DEFINE g == [given[c] EXCEPT !.pc = "given", !.id = k]
  <2>3. k \in Nat
    BY <1>1, <2>2 DEF ServerTypes
  <2>4. g \in GivenRec /\ g.id = k
    BY Zenon, <1>1, <2>3 DEF GivenRec
  <2>5. given' = [given EXCEPT ![c] = g]
    BY Zenon, <1>1, <2>1 DEF ServerTypes
  <2>6. UNCHANGED <<made, cut>>
    BY Zenon, <1>4 DEF Pick
  <2> HIDE DEF g
  <2> QED BY Zenon, <2>1, <2>2, <2>4, <2>5, <2>6, SocketStep
<1>5. CASE Pick(c) /\ Candidates(c) = {}
  <2>1. PICK g \in {NoCall, [NoCall EXCEPT !.pc = "create", !.force = TRUE]} :
           given' = [given EXCEPT ![c] = g]
    BY Zenon, <1>5 DEF Pick
  <2>2. g \in GivenRec /\ g.id <= made /\ g.pc \in {"idle", "create"}
    <3> DEFINE r == [NoCall EXCEPT !.pc = "create", !.force = TRUE]
    <3>1. r \in GivenRec /\ r.id = 0 /\ r.pc = "create"
      BY Zenon, <1>2 DEF GivenRec
    <3>2. g = NoCall \/ g = r
      BY Zenon, <2>1
    <3> HIDE DEF r
    <3>3. g.id = 0 /\ g \in GivenRec /\ g.pc \in {"idle", "create"}
      BY Zenon, <1>2, <3>1, <3>2
    <3> QED BY <1>1, <3>3
  <2>3. g.pc \notin {"given", "found"}
    BY Zenon, <2>2
  <2> QED BY Zenon, <1>5, <2>1, <2>2, <2>3, CallChanges DEF Pick
<1>6. CASE FindListener(c)
  <2> DEFINE g == [given[c] EXCEPT !.pc = "found", !.wait = 0]
  <2>1. given[c].id \in DOMAIN listeners /\ GetSocket(given[c].id) /\ UNCHANGED <<made, cut>>
    BY Zenon, <1>6 DEF FindListener, Exists
  <2>2. g \in GivenRec /\ g.id = given[c].id
    BY Zenon, <1>1 DEF GivenRec
  <2>3. given' = [given EXCEPT ![c] = g]
    BY Zenon, <1>1, <1>6 DEF FindListener, ServerTypes
  <2> HIDE DEF g
  <2> QED BY Zenon, <2>1, <2>2, <2>3, SocketStep
<1> QED BY Zenon, <1>3, <1>4, <1>5, <1>6

LEMMA CreateStep ==
  ASSUME ServerInv, (\E c \in Requester : CreateListener(c)) \/ AddListener
  PROVE  ServerInv'
<1>1. ServerTypes /\ made \in Nat
  BY Zenon DEF ServerInv, ServerTypes
<1>2. \A b \in BOOLEAN, n \in {0, 1} : /\ UdpHolePunchListener(b, n) \in ListenerRec
                                       /\ InUseKept(UdpHolePunchListener(b, n))
  BY DEF UdpHolePunchListener, ListenerRec, InUseKept
<1>3. CASE AddListener
  <2>1. Push(UdpHolePunchListener(FALSE, 1)) /\ UNCHANGED <<cut, given>>
    BY Zenon, <1>3 DEF AddListener
  <2>2. UdpHolePunchListener(FALSE, 1) \in ListenerRec /\ InUseKept(UdpHolePunchListener(FALSE, 1))
    BY Zenon, <1>2
  <2> QED BY Zenon, <1>1, <2>1, <2>2, PushStep DEF ServerTypes, Waiting
<1>4. ASSUME NEW c \in Requester, CreateListener(c) PROVE ServerInv'
  <2>1. CASE /\ Push(UdpHolePunchListener(TRUE, 0))
             /\ given' = [given EXCEPT ![c].pc = "pick", ![c].last = TRUE]
    <3> DEFINE g == [given[c] EXCEPT !.pc = "pick", !.last = TRUE]
    <3>1. given[c] \in GivenRec /\ given' = [given EXCEPT ![c] = g]
      BY Zenon, <1>1, <2>1 DEF ServerTypes
    <3>2. g \in GivenRec /\ g.id = given[c].id /\ g.pc = "pick"
      BY Zenon, <3>1 DEF GivenRec
    <3> HIDE DEF g
    <3>3. /\ given' \in [Requester -> GivenRec] /\ given'[c] = g
          /\ \A d \in Requester : d # c => given'[d] = given[d]
      BY Zenon, <1>1, <3>1, <3>2 DEF ServerTypes
    <3>4. ~Waiting(c)'
      BY Zenon, <3>2, <3>3 DEF Waiting
    <3>5. \A d \in Requester : given'[d].id = given[d].id /\
             (Waiting(d)' => Waiting(d) /\ given'[d].wait = given[d].wait)
      BY Zenon, <3>2, <3>3, <3>4 DEF Waiting
    <3>6. UdpHolePunchListener(TRUE, 0) \in ListenerRec /\ InUseKept(UdpHolePunchListener(TRUE, 0))
      BY Zenon, <1>2
    <3>7. UNCHANGED cut
      BY Zenon, <1>4 DEF CreateListener
    <3> QED BY Zenon, <2>1, <3>3, <3>5, <3>6, <3>7, PushStep
  <2>2. CASE given' = [given EXCEPT ![c] = NoCall] /\ UNCHANGED <<listeners, made>>
    <3>1. NoCall \in GivenRec /\ NoCall.id <= made /\ NoCall.pc \notin {"given", "found"}
      BY <1>1, KeepAssumption DEF NoCall, GivenRec
    <3> QED BY Zenon, <1>4, <2>2, <3>1, CallChanges DEF CreateListener
  <2> QED BY Zenon, <1>4, <2>1, <2>2 DEF CreateListener
<1> QED BY Zenon, <1>3, <1>4

(* What the cleanup drops is not in use.                                   *)
LEMMA DropStep == ASSUME ServerInv, DropUnused PROVE ServerInv'
<1> DEFINE kept == {k \in DOMAIN listeners : Keeps(listeners[k])}
           dead == {k \in DOMAIN listeners \ kept : listeners[k].conns > 0}
<1>1. /\ listeners' = [k \in kept |-> listeners[k]] /\ cut' = cut \cup dead
      /\ UNCHANGED <<made, given>>
  BY Zenon DEF DropUnused
<1>2. ServerTypes /\ cut = {} /\ (\A j \in DOMAIN listeners : InUseKept(listeners[j]))
      /\ \A c \in Requester : WaitKept(c)
  BY Zenon DEF ServerInv
<1>3. ASSUME NEW k \in DOMAIN listeners, listeners[k].conns > 0 PROVE Keeps(listeners[k])
  <2>1. listeners[k] \in ListenerRec /\ InUseKept(listeners[k])
    BY Zenon, <1>2 DEF ServerTypes
  <2> QED BY <1>3, <2>1, KeepAssumption DEF InUseKept, Keeps, ListenerRec
<1>4. dead = {}
  BY Zenon, <1>3
<1>5. cut' = {}
  BY Zenon, <1>1, <1>2, <1>4
<1> HIDE DEF dead
<1>6. /\ DOMAIN listeners' = kept /\ kept \subseteq DOMAIN listeners
      /\ \A k \in kept : listeners'[k] = listeners[k]
  BY Zenon, <1>1
<1>7. listeners' \in [DOMAIN listeners' -> ListenerRec]
  <2>1. \A k \in kept : listeners[k] \in ListenerRec
    BY Zenon, <1>2 DEF ServerTypes
  <2> QED BY Zenon, <1>1, <1>6, <2>1
<1> HIDE DEF kept
<1>8. ServerTypes'
  BY Zenon, <1>1, <1>2, <1>6, <1>7 DEF ServerTypes
<1>9. \A c \in Requester : WaitKept(c)'
  BY Zenon, <1>1, <1>2, <1>6 DEF WaitKept, Waiting, Exists
<1> QED BY Zenon, <1>2, <1>5, <1>6, <1>8, <1>9 DEF ServerInv

LEMMA PeriodStep == ASSUME ServerInv, Period PROVE ServerInv'
<1>1. ServerTypes /\ cut = {} /\ (\A j \in DOMAIN listeners : InUseKept(listeners[j]))
      /\ \A c \in Requester : WaitKept(c)
  BY Zenon DEF ServerInv
<1>2. /\ DOMAIN listeners' = DOMAIN listeners /\ UNCHANGED <<made, cut>>
      /\ \A k \in DOMAIN listeners : listeners'[k] = Older(listeners[k]) /\ listeners[k].noted
      /\ listeners' = [k \in DOMAIN listeners |-> Older(listeners[k])]
  BY Zenon DEF Period
<1>3. ASSUME NEW k \in DOMAIN listeners
      PROVE  /\ Older(listeners[k]) \in ListenerRec /\ InUseKept(Older(listeners[k]))
             /\ Older(listeners[k]).selected <= listeners[k].selected + 1
             /\ listeners[k].selected \in Nat /\ Older(listeners[k]).selected \in Nat
  <2>1. listeners[k] \in ListenerRec /\ InUseKept(listeners[k]) /\ listeners[k].noted
    BY Zenon, <1>1, <1>2 DEF ServerTypes
  <2>2. PICK l \in ListenerRec : l = listeners[k]
    BY Zenon, <2>1
  <2>3. /\ Older(l) = [l EXCEPT !.active = Capped(l.active + 1, ActiveKeep),
                               !.selected = Capped(l.selected + 1, SelectKeep), !.noted = FALSE]
        /\ l.active \in Nat /\ l.selected \in Nat
    BY Zenon DEF Older, ListenerRec
  <2>4. /\ Capped(l.active + 1, ActiveKeep) \in Nat /\ Capped(l.selected + 1, SelectKeep) \in Nat
        /\ Capped(l.active + 1, ActiveKeep) <= l.active + 1
        /\ Capped(l.selected + 1, SelectKeep) <= l.selected + 1
    BY <2>3, KeepAssumption DEF Capped
  <2>5. /\ Older(l) \in ListenerRec /\ Older(l).selected = Capped(l.selected + 1, SelectKeep)
        /\ Older(l).active = Capped(l.active + 1, ActiveKeep) /\ Older(l).noted = FALSE
        /\ Older(l).conns = l.conns
    BY Zenon, <2>3, <2>4 DEF ListenerRec
  <2>6. InUseKept(Older(l))
    BY <2>1, <2>2, <2>3, <2>4, <2>5, KeepAssumption DEF InUseKept
  <2> QED BY Zenon, <2>2, <2>3, <2>4, <2>5, <2>6
<1>4. listeners' \in [DOMAIN listeners' -> ListenerRec]
  BY Zenon, <1>2, <1>3
<1>5. ASSUME NEW c \in Requester
      PROVE  /\ given'[c] \in GivenRec /\ given'[c].id = given[c].id /\ (Waiting(c)' <=> Waiting(c))
             /\ Waiting(c) => given'[c].wait = given[c].wait + 1 /\ given[c].wait \in Nat
  <2>1. given[c] \in GivenRec
    BY Zenon, <1>1 DEF ServerTypes
  <2>2. given'[c] = IF Waiting(c) THEN [given[c] EXCEPT !.wait = given[c].wait + 1] ELSE given[c]
    BY Zenon DEF Period
  <2>3. Waiting(c) => given[c].wait < ConnectWithin
    BY Zenon DEF Period
  <2>4. CASE Waiting(c)
    BY <2>1, <2>2, <2>3, <2>4, KeepAssumption DEF GivenRec, Waiting
  <2>5. CASE ~Waiting(c)
    BY Zenon, <2>1, <2>2, <2>5 DEF Waiting
  <2> QED BY Zenon, <2>4, <2>5
<1>6. given' \in [Requester -> GivenRec]
  <2>1. DOMAIN given' = Requester /\ given' = [c \in Requester |-> given'[c]]
    BY Zenon DEF Period
  <2> QED BY Zenon, <2>1, <1>5
<1>7. ServerTypes'
  BY Zenon, <1>1, <1>2, <1>4, <1>5, <1>6 DEF ServerTypes
<1>8. ASSUME NEW c \in Requester, Waiting(c)', Exists(given[c].id)'
      PROVE  listeners'[given'[c].id].selected <= given'[c].wait
  <2>1. given[c].id \in DOMAIN listeners /\ Waiting(c) /\ given'[c].id = given[c].id
    BY Zenon, <1>2, <1>5, <1>8 DEF Exists
  <2>2. listeners[given[c].id].selected <= given[c].wait
    BY Zenon, <1>1, <2>1 DEF WaitKept, Exists
  <2>3. given'[c].wait = given[c].wait + 1 /\ given[c].wait \in Nat
    BY Zenon, <1>5, <2>1
  <2>4. /\ Older(listeners[given[c].id]).selected <= listeners[given[c].id].selected + 1
        /\ listeners[given[c].id].selected \in Nat /\ Older(listeners[given[c].id]).selected \in Nat
        /\ listeners'[given'[c].id] = Older(listeners[given[c].id])
    BY Zenon, <1>2, <1>3, <2>1
  <2> QED BY <2>2, <2>3, <2>4
<1>9. \A c \in Requester : WaitKept(c)'
  BY Zenon, <1>8 DEF WaitKept
<1> QED BY Zenon, <1>1, <1>2, <1>3, <1>7, <1>9 DEF ServerInv

LEMMA ServerInvStep == ServerInv /\ [ServerNext]_keepVars => ServerInv'
<1> SUFFICES ASSUME ServerInv, [ServerNext]_keepVars PROVE ServerInv'
  OBVIOUS
<1>1. CASE UNCHANGED keepVars
  BY Zenon, <1>1 DEF keepVars, ServerInv, ServerTypes, WaitKept, Waiting, Exists
<1> QED BY Zenon, <1>1, PickStep, CreateStep, ConnectStep, NoteStep, DropStep, PeriodStep DEF ServerNext

(* However many listeners there are and callers share them, and at         *)
(* whatever moments cleanup and tasks run: no connection breaks because    *)
(* the cleanup drops its listener.                                         *)
THEOREM NeverCut == ServerSpec => []NoneCut
<1>1. ServerInv => NoneCut
  BY Zenon DEF ServerInv, NoneCut
<1> QED BY <1>1, ServerInvInit, ServerInvStep, PTL DEF ServerSpec
=============================================================================
