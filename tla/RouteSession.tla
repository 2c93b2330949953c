---------------------------- MODULE RouteSession ----------------------------
(***************************************************************************)
(* The sync sessions of the OSPF-like route (peers/peer_ospf_route.rs):    *)
(* which pairs of directly connected peers keep a SyncRouteSession, who    *)
(* initiates it, and how far route infos travel over these sessions.       *)
(*                                                                         *)
(* Every peer runs maintain_sessions in a loop.  It elects one connected   *)
(* peer that is not already initiating towards it, flags the session to    *)
(* that peer as "we are initiator" and drops sessions nobody initiates.    *)
(* Every session has a task that calls sync_route_info on the other side;  *)
(* the request carries the caller's flag and infos, the response carries   *)
(* the callee's flag.                                                      *)
(*                                                                         *)
(* Abstracted: a route info is the peer it describes (versions, conn       *)
(* bitmaps and which peers are reachable are RouteSync.tla), and the 1 s / *)
(* 10 s periods (any interleaving of the loops is allowed).                *)
(***************************************************************************)
EXTENDS Naturals, FiniteSets, FiniteSetsExt

CONSTANTS
    Peer,           \* peer ids; the code orders them as u32
    Public,         \* the peers whose NAT type is NoPat or OpenInternet
    Flaky,          \* the connections that may open and close
    Scenarios       \* the connection graphs a behaviour may start with, and
                    \* bounds on what may go wrong in it: changes of a flaky
                    \* connection, sync_route_info calls that time out (3 s),
                    \* session tasks that lag on sync_now_broadcast

NoPeer == 0         \* cur_dst_peer_id_to_initiate = None

Pair == {e \in SUBSET Peer : Cardinality(e) = 2}

ASSUME PeerAssumption == Peer \subseteq Nat \ {NoPeer} /\ IsFiniteSet(Peer)
ASSUME PublicAssumption == Public \subseteq Peer
ASSUME ScenariosAssumption ==
    /\ Flaky \subseteq Pair
    /\ Scenarios \subseteq [link : SUBSET Pair, changes : Nat, timeouts : Nat,
                           lags : Nat]

VARIABLES
    link,      \* the open connections, as a set of two-peer sets
    sess,      \* sess[p][q]: p's SyncRouteSession with q
    cur,       \* cur[p]: cur_dst_peer_id_to_initiate of p's maintain loop
    late,      \* requests that may still arrive after their call timed out
    seen,      \* seen[p]: the peers whose route info p holds
    budget,    \* what is left of the three bounds
    lagged     \* history: a session task has ended because it lagged

vars == <<link, sess, cur, late, seen, budget, lagged>>

(* A session id is only compared with the one of an earlier message of the *)
(* same peer, so it is modelled by its age: how many sessions towards us   *)
(* that peer has removed since.  Two ids of age Old count as different,    *)
(* which the initial dst_session_id 0 also is.                             *)
Age == 0..2
Old == 2

(* The call a session task waits for: the flag in the response, the infos  *)
(* that were sent and the session that answered.                           *)
Call == [answer : {"none", "initiator", "other"}, infos : SUBSET Peer, id : Age]

NoCall == [answer |-> "none", infos |-> {}, id |-> Old]

Session == [on : BOOLEAN,    \* present in `sessions`
            run : BOOLEAN,   \* task.is_running()
            we : BOOLEAN,    \* we_are_initiator
            dst : BOOLEAN,   \* dst_is_initiator
            need : BOOLEAN,  \* need_sync_initiator_info
            saved : SUBSET Peer,
                             \* dst_saved_peer_info_versions
            id : Age,        \* dst_session_id
            call : Call]     \* the answer the task is about to receive

NoSession == [on |-> FALSE, run |-> FALSE, we |-> FALSE, dst |-> FALSE,
              need |-> FALSE, saved |-> {}, id |-> Old, call |-> NoCall]

\* get_or_create_session followed by start_session_task.
Started(s) == IF s.on THEN [s EXCEPT !.run = TRUE]
              ELSE [NoSession EXCEPT !.on = TRUE, !.run = TRUE]

(* A SyncRouteInfoRequest.                                                 *)
Request == [from : Peer, to : Peer, init : BOOLEAN, infos : SUBSET Peer,
            id : Age]

Linked(p) == {q \in Peer : {p, q} \in link /\ q # p}

(* The peers a packet of p can be routed to: p's connected component.      *)
Component(p) ==
    {q \in Peer : \A S \in SUBSET Peer :
        (p \in S /\ \A e \in link : e \cap S # {} => e \subseteq S) => q \in S}

TypeOK ==
    /\ link \in SUBSET Pair
    /\ sess \in [Peer -> [Peer -> Session]]
    /\ cur \in [Peer -> Peer \cup {NoPeer}]
    /\ late \subseteq Request
    /\ seen \in [Peer -> SUBSET Peer]
    /\ budget \in [changes : Nat, timeouts : Nat, lags : Nat]
    /\ lagged \in BOOLEAN

Init ==
    /\ \E s \in Scenarios :
        /\ link = s.link
        /\ budget = [changes |-> s.changes, timeouts |-> s.timeouts,
                     lags |-> s.lags]
    /\ sess = [p \in Peer |-> [q \in Peer |-> NoSession]]
    /\ cur = [p \in Peer |-> NoPeer]
    /\ late = {}
    /\ seen = [p \in Peer |-> {p}]
    /\ lagged = FALSE

-----------------------------------------------------------------------------

(* update_initiator_flag                                                   *)
Flagged(s, is_initiator) == [s EXCEPT !.we = is_initiator, !.need = TRUE]

(* The peer an iteration of maintain_sessions elects among the candidates: *)
(* the smallest one known to have a public address, else the smallest.     *)
Elect(p, candidates) ==
    LET public == candidates \cap Public \cap seen[p]
    IN  IF public # {} THEN Min(public) ELSE Min(candidates)

(* The sessions an iteration of maintain_sessions does not clear.          *)
Kept(s) == (s.dst \/ s.we \/ s.need) /\ s.run

Older(x) == [x EXCEPT !.id = Min({@ + 1, Old})]

(* What an iteration of maintain_sessions makes of p's session with q: it  *)
(* stops those with peers that are gone, flags the elected one instead of  *)
(* the old one and clears those nobody initiates.  Without a candidate it  *)
(* ends early.                                                             *)
Maintained(p, q, old, new) ==
    LET s == IF q \in Linked(p) THEN sess[p][q] ELSE NoSession
        flagged == IF new = old THEN s
                   ELSE IF q = new THEN Flagged(Started(s), TRUE)
                   ELSE IF q = old /\ s.on THEN Flagged(s, FALSE) ELSE s
    IN  IF new = NoPeer THEN s
        ELSE IF s.on /\ ~Kept(flagged) THEN NoSession ELSE flagged

(* One iteration of maintain_sessions.                                     *)
Maintain(p) ==
    LET gone == {q \in Peer \ Linked(p) : sess[p][q].on}
        old == IF cur[p] \in gone THEN NoPeer ELSE cur[p]
        candidates == {q \in Linked(p) : ~(sess[p][q].on /\ sess[p][q].dst)}
        new == IF candidates = {} THEN NoPeer ELSE Elect(p, candidates)
        Dropped(q) == sess[p][q].on /\ ~Maintained(p, q, old, new).on
    IN  /\ cur' = [cur EXCEPT ![p] = IF new = NoPeer THEN old ELSE new]
        /\ sess' = [q \in Peer |->
                      IF q = p THEN [r \in Peer |-> Maintained(p, r, old, new)]
                      ELSE IF Dropped(q)
                      THEN [sess[q] EXCEPT ![p] = [Older(@) EXCEPT !.call = Older(@)]]
                      ELSE sess[q]]
        /\ late' = {IF m.from = p /\ Dropped(m.to) THEN Older(m) ELSE m : m \in late}
        /\ UNCHANGED <<link, seen, budget, lagged>>

(* update_dst_session_id, then update_dst_saved_peer_info_version: a new   *)
(* session id clears what the other side was known to have saved.          *)
Saved(s, id, infos) ==
    [s EXCEPT !.id = id,
              !.saved = IF s.id = id /\ id # Old THEN @ \cup infos ELSE infos]

(* do_sync_route_info at m.to: take the infos, note what the caller has    *)
(* and its flag.  It has no await and is one step.                         *)
HandledSession(m) ==
    [Saved(Started(sess[m.to][m.from]), m.id, m.infos) EXCEPT !.dst = m.init]

HandledInfos(m) == [seen EXCEPT ![m.to] = @ \cup m.infos]

(* Mutant: only the own info is sent on.                                   *)
UnsavedOwn(p, q) == {p} \ (sess[p][q].saved \cup {q})

(* build_route_info: what the other side is not known to have saved.       *)
Unsaved(p, q) == seen[p] \ (sess[p][q].saved \cup {q})

SyncRequest(p, q) == [from |-> p, to |-> q, init |-> sess[p][q].we,
                      infos |-> Unsaved(p, q), id |-> 0]

(* The session task sends a request because the flag changed, because it   *)
(* is the initiator (every 10 s), or because it has something to tell.     *)
MustSync(p, q) ==
    /\ sess[p][q].run /\ sess[p][q].call = NoCall
    /\ sess[p][q].need \/ sess[p][q].we \/ Unsaved(p, q) # {}

(* sync_route_with_peer up to its await, and the handler of a request that *)
(* arrives in time.  Nothing p or q does between the two can tell them     *)
(* apart, except a step that uses the request's old content: HandleLate.   *)
Sync(p, q) ==
    LET m == SyncRequest(p, q)
        callee == HandledSession(m)
    IN  /\ MustSync(p, q) /\ q \in Component(p)
        /\ sess' = [sess EXCEPT
              ![p][q].need = FALSE,
              ![p][q].call = [answer |-> IF callee.we THEN "initiator" ELSE "other",
                              infos |-> m.infos, id |-> 0],
              ![q][p] = callee]
        /\ seen' = HandledInfos(m)
        /\ UNCHANGED <<link, cur, late, budget, lagged>>

(* The same when no route leads to q: the call fails.                      *)
SyncFails(p, q) ==
    /\ MustSync(p, q) /\ q \notin Component(p)
    /\ sess' = [sess EXCEPT ![p][q].need = TRUE]
    /\ UNCHANGED <<link, cur, late, seen, budget, lagged>>

(* Mutant: the response can set dst_is_initiator but not clear it.         *)
AnsweredSticky(s) ==
    [Saved(s, s.call.id, s.call.infos) EXCEPT
        !.dst = @ \/ s.call.answer = "initiator", !.call = NoCall]

(* sync_route_with_peer after its await, answer received.                  *)
Answered(s) ==
    [Saved(s, s.call.id, s.call.infos) EXCEPT
        !.dst = (s.call.answer = "initiator"), !.call = NoCall]

Response(p, q) ==
    /\ sess[p][q].call # NoCall
    /\ sess' = [sess EXCEPT ![p][q] = Answered(@)]
    /\ UNCHANGED <<link, cur, late, seen, budget, lagged>>

(* The same when the answer is lost or late: the call fails after 3 s.     *)
ResponseTimeout(p, q) ==
    /\ sess[p][q].call # NoCall /\ budget.timeouts > 0
    /\ sess' = [sess EXCEPT ![p][q].need = TRUE, ![p][q].call = NoCall]
    /\ budget' = [budget EXCEPT !.timeouts = @ - 1]
    /\ UNCHANGED <<link, cur, late, seen, lagged>>

(* The same when the request is late: the call fails before the handler    *)
(* runs, if it ever does.                                                  *)
RequestTimeout(p, q) ==
    /\ MustSync(p, q) /\ budget.timeouts > 0
    /\ late' = late \cup {SyncRequest(p, q)}
    /\ sess' = [sess EXCEPT ![p][q].need = TRUE]
    /\ budget' = [budget EXCEPT !.timeouts = @ - 1]
    /\ UNCHANGED <<link, cur, seen, lagged>>

(* do_sync_route_info for a request nobody waits for any more.             *)
HandleLate(m) ==
    /\ late' = late \ {m}
    /\ sess' = [sess EXCEPT ![m.to][m.from] = HandledSession(m)]
    /\ seen' = HandledInfos(m)
    /\ UNCHANGED <<link, cur, budget, lagged>>

(* More than 128 sync_now messages arrive before the task is polled: recv  *)
(* fails with Lagged and session_task ends.                                *)
Lagged(p, q) ==
    /\ sess[p][q].run /\ sess[p][q].call = NoCall
    /\ budget.lags > 0
    /\ sess' = [sess EXCEPT ![p][q].run = FALSE]
    /\ budget' = [budget EXCEPT !.lags = @ - 1]
    /\ lagged' = TRUE
    /\ UNCHANGED <<link, cur, late, seen>>

(* A connection opens or closes: list_peers() changes on both sides.       *)
LinkChange(e) ==
    /\ budget.changes > 0
    /\ link' = IF e \in link THEN link \ {e} ELSE link \cup {e}
    /\ budget' = [budget EXCEPT !.changes = @ - 1]
    /\ UNCHANGED <<sess, cur, late, seen, lagged>>

(* The session task of p for q.                                            *)
Task(p, q) == Sync(p, q) \/ SyncFails(p, q) \/ Response(p, q)

Next ==
    \/ \E p \in Peer : Maintain(p)
    \/ \E p \in Peer : \E q \in Peer \ {p} :
        \/ Task(p, q) \/ ResponseTimeout(p, q) \/ RequestTimeout(p, q)
        \/ Lagged(p, q)
    \/ \E m \in late : HandleLate(m)
    \/ \E e \in Flaky : LinkChange(e)

(* The maintain loop and the session tasks run forever, and a call that    *)
(* does not time out is delivered and answered.                            *)
Fairness ==
    /\ \A p \in Peer : WF_vars(Maintain(p))
    /\ \A p \in Peer : \A q \in Peer \ {p} : WF_vars(Task(p, q))

Spec == Init /\ [][Next]_vars /\ Fairness
-----------------------------------------------------------------------------

(* The elected peer has a session flagged as initiator (the comment at     *)
(* peer_ospf_route.rs:1093: every node has exactly one initiator session), *)
(* unless a session task has lagged: session_task then ends, the session   *)
(* is removed, and the peer is not elected again.                          *)
ElectedHasSession ==
    \A p \in Peer : cur[p] # NoPeer => lagged \/ sess[p][cur[p]].we

(* Once connections stop changing, every peer ends up with the info of     *)
(* every peer it has a path to (peer_ospf_route.rs:298: the synced info is *)
(* "constructed with all infos synced from all peers").                    *)
InfosReachEveryone ==
    <>[](\A p \in Peer : Component(p) \subseteq seen[p])

(* Another round of the maintain loops and of the session tasks would      *)
(* change nothing.                                                         *)
Settled ==
    /\ late = {}
    /\ \A p, q \in Peer : sess[p][q].on =>
        /\ sess[p][q].run /\ sess[p][q].call = NoCall /\ ~sess[p][q].need
        /\ sess[p][q].id = 0 /\ Unsaved(p, q) = {}
        /\ sess[p][q].dst = sess[q][p].we
    /\ \A p \in Peer : ~ENABLED <<Maintain(p)>>_vars

(* When the sessions have come to rest they cover the connection graph:    *)
(* every peer holds the info of every peer it has a path to, the synced    *)
(* info is "constructed with all infos synced from all peers"              *)
(* (peer_ospf_route.rs:298).                                               *)
SettledKnowsAll ==
    Settled => \A p \in Peer : Component(p) \subseteq seen[p]

(* The sessions that the elections leave are enough: each elected peer has *)
(* one, and together they carry every info to every peer.                  *)
SessionsCover == ElectedHasSession /\ SettledKnowsAll

(* A peer does not go on believing forever that the other side initiates:  *)
(* dst_is_initiator settles to the other side's we_are_initiator, so the   *)
(* election of both sides works on true flags.                             *)
InitiatorFlagsSettle ==
    <>[](\A p, q \in Peer : sess[p][q].on /\ sess[p][q].dst => sess[q][p].we)

(* Both settle, whatever calls are lost or late.                           *)
SessionsSettle == InfosReachEveryone /\ InitiatorFlagsSettle
=============================================================================
