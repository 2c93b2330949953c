-------------------------- MODULE RouteSync_proofs --------------------------
(***************************************************************************)
(* Type correctness of RouteSync.tla, for any set of peers and any bounds, *)
(* and that no node is ahead of a version's owner.                         *)
(*                                                                         *)
(* What RouteSync.tla guarantees while no info expires: the invariant, the *)
(* lemmas on what each operation does to it, and the theorems.             *)
(***************************************************************************)
EXTENDS RouteSync, TLAPS

-----------------------------------------------------------------------------
(* Lemmas on the operators.                                                *)

LEMMA LargerNat ==
    ASSUME NEW x \in Nat, NEW y \in Nat
    PROVE  Larger(x, y) \in Nat /\ Larger(x, y) >= x /\ Larger(x, y) >= y
           /\ (Larger(x, y) = x \/ Larger(x, y) = y)
BY DEF Larger

(* update_dst_saved_* keep the saved versions typed.                       *)
LEMMA SaveType ==
    ASSUME NEW req \in Request,
           NEW si \in [Peer -> Nat], NEW sr \in [Peer -> Nat \cup {NotSaved}]
    PROVE  /\ SaveInfos(si, req) \in [Peer -> Nat]
           /\ SaveRows(sr, req) \in [Peer -> Nat \cup {NotSaved}]
<1>1. SaveInfos(si, req) \in [Peer -> Nat]
  BY ZenonT(60), LargerNat DEF SaveInfos, Request
<1>2. SaveRows(sr, req) \in [Peer -> Nat \cup {NotSaved}]
  <2>1. \A p \in Peer : req.bitmap.row[p].ver \in Nat
    BY Zenon DEF Request, Bitmap, Row
  <2>2. ASSUME NEW p \in Peer
        PROVE  Larger(req.bitmap.row[p].ver, sr[p]) \in Nat \cup {NotSaved}
    BY Zenon, <2>1 DEF Larger, NotSaved
  <2> QED BY Zenon, <2>2 DEF SaveRows
<1> QED BY Zenon, <1>1, <1>2

(* What update_peer_infos and update_conn_map store is typed.              *)
LEMMA MergeType ==
    ASSUME TypeOK, NEW req \in Request
    PROVE  /\ MergedInfos(req.to, req) \in [Peer -> Nat]
           /\ known[req.to] \cup req.bitmap.ids \in SUBSET Peer
           /\ MergedRows(req.to, req) \in [Peer -> Row]
<1> DEFINE n == req.to
<1>1. /\ n \in Peer /\ req.infos \in [Peer -> Nat]
      /\ req.bitmap.ids \in SUBSET Peer /\ req.bitmap.row \in [Peer -> Row]
  BY Zenon DEF Request, Bitmap
<1>2. info[n] \in [Peer -> Nat] /\ known[n] \in SUBSET Peer /\ rows[n] \in [Peer -> Row]
  BY Zenon, <1>1 DEF TypeOK
<1>3. MergedInfos(n, req) \in [Peer -> Nat]
  BY Zenon, <1>1, <1>2, LargerNat DEF MergedInfos
<1>4. MergedRows(n, req) \in [Peer -> Row]
  BY Zenon, <1>1, <1>2 DEF MergedRows
<1> QED BY Zenon, <1>1, <1>2, <1>3, <1>4

(* The bitmap built from a node's rows is typed and within the keys.       *)
LEMMA BitmapType ==
    ASSUME NEW kn \in SUBSET Peer, NEW row \in [Peer -> Row], NEW rch \in SUBSET Peer
    PROVE  /\ BuildBitmap(kn, row, rch) \in Bitmap
           /\ BuildBitmap(kn, row, rch).ids \subseteq kn
<1> DEFINE dst == UNION {row[p].peers : p \in kn}
           ids == {p \in kn : p \in dst \/ p \in rch}
           rw == [p \in Peer |-> IF p \in ids
                      THEN [ver |-> row[p].ver, peers |-> row[p].peers \cap ids]
                      ELSE NoRow]
<1>1. ids \in SUBSET Peer /\ ids \subseteq kn
  OBVIOUS
<1>2. ASSUME NEW p \in Peer PROVE rw[p] \in Row
  <2>1. row[p].ver \in Nat /\ row[p].peers \cap ids \in SUBSET Peer
    BY Zenon, <1>1 DEF Row
  <2> QED BY Zenon, <2>1 DEF Row, NoRow
<1>3. rw \in [Peer -> Row]
  BY Zenon, <1>2
<1>4. BuildBitmap(kn, row, rch) = [ids |-> ids, row |-> rw]
  BY Zenon DEF BuildBitmap
<1> QED BY <1>1, <1>3, <1>4 DEF Bitmap

LEMMA NoBitmapType == NoBitmap \in Bitmap /\ NoRow \in Row
BY Zenon DEF NoBitmap, Bitmap, NoRow, Row

-----------------------------------------------------------------------------
(* Type correctness.                                                       *)

(* Store keeps the state of the node it changes typed.                     *)
LEMMA StoreType ==
    ASSUME TypeOK, NEW n \in Peer, NEW inf \in [Peer -> Nat],
           NEW kn \in SUBSET Peer, NEW row \in [Peer -> Row],
           Store(n, inf, kn, row)
    PROVE  /\ info' \in [Peer -> [Peer -> Nat]]
           /\ known' \in [Peer -> SUBSET Peer]
           /\ rows' \in [Peer -> [Peer -> Row]]
           /\ reach' \in [Peer -> SUBSET Peer]
           /\ cache' \in [Peer -> Bitmap]
           /\ dirty' \in [Peer -> BOOLEAN]
<1> DEFINE rch == Reachable(n, inf, row)
<1>1. rch \in SUBSET Peer
  BY Zenon DEF Reachable
<1>2. BuildBitmap(kn, row, rch) \in Bitmap
  BY ZenonT(60), <1>1, BitmapType
<1>3. /\ info' = [info EXCEPT ![n] = inf]
      /\ known' = [known EXCEPT ![n] = kn]
      /\ rows' = [rows EXCEPT ![n] = row]
      /\ reach' = [reach EXCEPT ![n] = rch]
      /\ \/ cache' = cache
         \/ cache' = [cache EXCEPT ![n] = BuildBitmap(kn, row, rch)]
      /\ dirty' = [dirty EXCEPT ![n] = FALSE]
  <2>1. \/ cache' = [cache EXCEPT ![n] = BuildBitmap(kn, row, rch)]
        \/ cache' = [cache EXCEPT ![n] = cache[n]]
    BY ZenonT(60) DEF Store
  <2>2. [cache EXCEPT ![n] = cache[n]] = cache
    BY Zenon DEF TypeOK
  <2> QED BY Zenon, <2>1, <2>2 DEF Store
<1> HIDE DEF rch
<1>4. cache' \in [Peer -> Bitmap]
  BY ZenonT(60), <1>2, <1>3 DEF TypeOK
<1>5. reach' \in [Peer -> SUBSET Peer] /\ dirty' \in [Peer -> BOOLEAN]
  BY Zenon, <1>1, <1>3 DEF TypeOK
<1> QED BY Zenon, <1>3, <1>4, <1>5 DEF TypeOK

LEMMA ReceiveType ==
    ASSUME TypeOK, NEW req \in Request, Receive(req)
    PROVE  /\ info' \in [Peer -> [Peer -> Nat]]
           /\ known' \in [Peer -> SUBSET Peer]
           /\ rows' \in [Peer -> [Peer -> Row]]
           /\ reach' \in [Peer -> SUBSET Peer]
           /\ cache' \in [Peer -> Bitmap]
           /\ dirty' \in [Peer -> BOOLEAN]
           /\ savedInfo' \in [Peer -> [Peer -> [Peer -> Nat]]]
           /\ savedRow' \in [Peer -> [Peer -> [Peer -> Nat \cup {NotSaved}]]]
           /\ published' \subseteq Peer \X Nat \X SUBSET Peer
<1>1. req.to \in Peer /\ req.from \in Peer
  BY Zenon DEF Request
<1>2. /\ SaveInfos(savedInfo[req.to][req.from], req) \in [Peer -> Nat]
      /\ SaveRows(savedRow[req.to][req.from], req) \in [Peer -> Nat \cup {NotSaved}]
  <2>1. /\ savedInfo[req.to][req.from] \in [Peer -> Nat]
        /\ savedRow[req.to][req.from] \in [Peer -> Nat \cup {NotSaved}]
    BY <1>1 DEF TypeOK
  <2> QED BY ZenonT(60), <2>1, SaveType
<1>3. /\ savedInfo' \in [Peer -> [Peer -> [Peer -> Nat]]]
      /\ savedRow' \in [Peer -> [Peer -> [Peer -> Nat \cup {NotSaved}]]]
  BY Zenon, <1>1, <1>2 DEF TypeOK, Receive
<1>4. published' \subseteq Peer \X Nat \X SUBSET Peer
  BY Zenon DEF TypeOK, Receive
<1>5. Store(req.to, MergedInfos(req.to, req), known[req.to] \cup req.bitmap.ids,
            MergedRows(req.to, req))
  BY Zenon DEF Receive
<1> QED BY ZenonT(60), <1>1, <1>3, <1>4, <1>5, MergeType, StoreType

(* The request a session task builds is typed.                             *)
LEMMA BuildType ==
    ASSUME TypeOK, NEW n \in Peer, NEW q \in Peer
    PROVE  /\ BuildRouteInfo(n, q) \in [Peer -> Nat]
           /\ BuildConnBitmap(n, q) \in Bitmap
           /\ BuildSyncRequest(n, q) \in Request
<1>1. BuildRouteInfo(n, q) \in [Peer -> Nat]
  BY DEF BuildRouteInfo, TypeOK
<1>2. BuildConnBitmap(n, q) \in Bitmap
  BY Zenon, NoBitmapType DEF BuildConnBitmap, TypeOK
<1> QED BY Zenon, <1>1, <1>2 DEF BuildSyncRequest, Request

(* A pending call holds a request.                                         *)
LEMMA CallType ==
    ASSUME NEW c \in Call, c # Idle
    PROVE  c.req \in Request /\ c.st \in {"sent", "answered"}
           /\ c = [st |-> c.st, req |-> c.req]
BY Zenon DEF Call

LEMMA AbandonedType ==
    ASSUME TypeOK, NEW n \in Peer, NEW q \in Peer
    PROVE  Abandoned(call[n][q]) \subseteq Request
<1>1. call[n][q] \in Call /\ late \subseteq Request
  BY Zenon DEF TypeOK
<1> QED BY Zenon, <1>1, CallType DEF Abandoned

(* Spending one unit of a bound.                                           *)
LEMMA SpendType ==
    ASSUME NEW b \in [links : Nat, timeouts : Nat, drops : Nat, expiries : Nat]
    PROVE  /\ b.links > 0 => [b EXCEPT !.links = b.links - 1]
                \in [links : Nat, timeouts : Nat, drops : Nat, expiries : Nat]
           /\ b.timeouts > 0 => [b EXCEPT !.timeouts = b.timeouts - 1]
                \in [links : Nat, timeouts : Nat, drops : Nat, expiries : Nat]
           /\ b.drops > 0 => [b EXCEPT !.drops = b.drops - 1]
                \in [links : Nat, timeouts : Nat, drops : Nat, expiries : Nat]
           /\ b.expiries > 0 => [b EXCEPT !.expiries = b.expiries - 1]
                \in [links : Nat, timeouts : Nat, drops : Nat, expiries : Nat]
<1>1. b.links \in Nat /\ b.timeouts \in Nat /\ b.drops \in Nat /\ b.expiries \in Nat
  OBVIOUS
<1>2. /\ b.links > 0 => b.links - 1 \in Nat
      /\ b.timeouts > 0 => b.timeouts - 1 \in Nat
      /\ b.drops > 0 => b.drops - 1 \in Nat
      /\ b.expiries > 0 => b.expiries - 1 \in Nat
  BY SMTT(60), <1>1
<1> QED BY Zenon, <1>2

LEMMA TypeInit == Init => TypeOK
<1> SUFFICES ASSUME Init PROVE TypeOK
  BY Zenon
<1>1. link \subseteq Pair /\ late \subseteq Request
      /\ published \subseteq Peer \X Nat \X SUBSET Peer
  BY Zenon, InitLinkAssumption DEF Init
<1>2. /\ info \in [Peer -> [Peer -> Nat]] /\ known \in [Peer -> SUBSET Peer]
      /\ rows \in [Peer -> [Peer -> Row]] /\ reach \in [Peer -> SUBSET Peer]
      /\ cache \in [Peer -> Bitmap] /\ dirty \in [Peer -> BOOLEAN]
  BY Zenon, NoBitmapType DEF Init
<1>3. /\ savedInfo \in [Peer -> [Peer -> [Peer -> Nat]]]
      /\ savedRow \in [Peer -> [Peer -> [Peer -> Nat \cup {NotSaved}]]]
      /\ call \in [Peer -> [Peer -> Call]]
  BY Zenon DEF Init, Call
<1>4. budget \in [links : Nat, timeouts : Nat, drops : Nat, expiries : Nat]
  BY Zenon, BoundsAssumption DEF Init
<1> QED BY Zenon, <1>1, <1>2, <1>3, <1>4 DEF TypeOK

LEMMA TypeStep == TypeOK /\ [Next]_vars => TypeOK'
<1> SUFFICES ASSUME TypeOK, [Next]_vars PROVE TypeOK'
  BY Zenon
<1> USE DEF nodeVars, sessVars
<1>1. ASSUME NEW n \in Peer, UpdateMyPeerInfo(n) PROVE TypeOK'
  <2>1. [info[n] EXCEPT ![n] = @ + 1] \in [Peer -> Nat]
        /\ known[n] \in SUBSET Peer /\ rows[n] \in [Peer -> Row]
    BY DEF TypeOK
  <2>2. Store(n, [info[n] EXCEPT ![n] = @ + 1], known[n], rows[n])
    BY Zenon, <1>1 DEF UpdateMyPeerInfo
  <2> QED BY ZenonT(60), <1>1, <2>1, <2>2, StoreType DEF TypeOK, UpdateMyPeerInfo
<1>2. ASSUME NEW n \in Peer, UpdateMyConnInfo(n) PROVE TypeOK'
  <2> DEFINE row == [ver |-> rows[n][n].ver + 1, peers |-> Linked(n)]
             kn == known[n] \cup Linked(n) \cup {n}
  <2>1. row \in Row /\ row.ver \in Nat /\ row.peers \in SUBSET Peer
    BY DEF TypeOK, Row, Linked
  <2>2. info[n] \in [Peer -> Nat] /\ kn \in SUBSET Peer
        /\ [rows[n] EXCEPT ![n] = row] \in [Peer -> Row]
    BY Zenon, <2>1 DEF TypeOK, Linked
  <2>3. /\ Store(n, info[n], kn, [rows[n] EXCEPT ![n] = row])
        /\ published' = published \cup {<<n, row.ver, row.peers>>}
        /\ UNCHANGED <<link, sessVars, budget>>
    BY Zenon, <1>2 DEF UpdateMyConnInfo
  <2> HIDE DEF row, kn
  <2>4. published' \subseteq Peer \X Nat \X SUBSET Peer
    BY SMTT(60), <2>1, <2>3 DEF TypeOK
  <2> QED BY ZenonT(60), <2>2, <2>3, <2>4, StoreType DEF TypeOK
<1>3. ASSUME NEW n \in Peer, NEW q \in Peer, Send(n, q) PROVE TypeOK'
  <2>1. [st |-> "sent", req |-> BuildSyncRequest(n, q)] \in Call
    BY Zenon, BuildType DEF Call
  <2> QED BY Zenon, <1>3, <2>1 DEF Send, TypeOK
<1>4. ASSUME NEW n \in Peer, NEW q \in Peer, Handle(n, q) PROVE TypeOK'
  <2>1. call[n][q] \in Call /\ call[n][q] # Idle
    BY <1>4 DEF TypeOK, Handle
  <2>2. call[n][q].req \in Request /\ [call[n][q] EXCEPT !.st = "answered"] \in Call
    BY Zenon, <2>1, CallType DEF Call
  <2>3. call' \in [Peer -> [Peer -> Call]]
    BY Zenon, <1>4, <2>2 DEF TypeOK, Handle
  <2> QED BY ZenonT(60), <1>4, <2>2, <2>3, ReceiveType DEF Handle, TypeOK
<1>5. ASSUME NEW n \in Peer, NEW q \in Peer, Response(n, q) PROVE TypeOK'
  <2>1. call[n][q] \in Call /\ call[n][q] # Idle
    BY <1>5 DEF TypeOK, Response
  <2>2. call[n][q].req \in Request
    BY Zenon, <2>1, CallType
  <2>3. savedInfo[n][q] \in [Peer -> Nat] /\ savedRow[n][q] \in [Peer -> Nat \cup {NotSaved}]
    BY SMTT(60) DEF TypeOK
  <2>4. /\ SaveInfos(savedInfo[n][q], call[n][q].req) \in [Peer -> Nat]
        /\ SaveRows(savedRow[n][q], call[n][q].req) \in [Peer -> Nat \cup {NotSaved}]
    BY ZenonT(60), <2>2, <2>3, SaveType
  <2>5. Idle \in Call
    BY Zenon DEF Call
  <2> QED BY Zenon, <1>5, <2>4, <2>5 DEF Response, TypeOK
<1>6. ASSUME NEW n \in Peer, NEW q \in Peer, Timeout(n, q) PROVE TypeOK'
  <2>1. Idle \in Call
    BY Zenon DEF Call
  <2>2. budget' \in [links : Nat, timeouts : Nat, drops : Nat, expiries : Nat]
    BY ZenonT(60), <1>6, SpendType DEF Timeout, TypeOK
  <2> QED BY Zenon, <1>6, <2>1, <2>2, AbandonedType DEF Timeout, TypeOK
<1>7. ASSUME NEW n \in Peer, NEW q \in Peer, DropSession(n, q) PROVE TypeOK'
  <2>1. Idle \in Call
    BY Zenon DEF Call
  <2>2. budget' \in [links : Nat, timeouts : Nat, drops : Nat, expiries : Nat]
    BY ZenonT(60), <1>7, SpendType DEF DropSession, TypeOK
  <2> QED BY Zenon, <1>7, <2>1, <2>2, AbandonedType DEF DropSession, TypeOK
<1>8. ASSUME NEW req \in late, HandleLate(req) PROVE TypeOK'
  <2>1. req \in Request
    BY Zenon DEF TypeOK
  <2> QED BY Zenon, <1>8, <2>1, ReceiveType DEF HandleLate, TypeOK
<1>9. ASSUME NEW e \in Pair, LinkChange(e) PROVE TypeOK'
  <2>1. budget' \in [links : Nat, timeouts : Nat, drops : Nat, expiries : Nat]
    BY ZenonT(60), <1>9, SpendType DEF LinkChange, TypeOK
  <2> QED BY Zenon, <1>9, <2>1 DEF LinkChange, TypeOK
<1>10. ASSUME NEW n \in Peer, NEW p \in Peer, Expire(n, p) PROVE TypeOK'
  <2>1. budget' \in [links : Nat, timeouts : Nat, drops : Nat, expiries : Nat]
    BY ZenonT(60), <1>10, SpendType DEF Expire, TypeOK
  <2>2. info' \in [Peer -> [Peer -> Nat]] /\ rows' \in [Peer -> [Peer -> Row]]
    BY Zenon, <1>10, NoBitmapType DEF Expire, TypeOK
  <2> QED BY Zenon, <1>10, <2>1, <2>2 DEF Expire, TypeOK
<1>11. CASE UNCHANGED vars
  BY Zenon, <1>11 DEF vars, TypeOK
<1> QED
  BY Zenon, <1>1, <1>2, <1>3, <1>4, <1>5, <1>6, <1>7, <1>8, <1>9, <1>10, <1>11
     DEF Next, RunNext, Task

(* Every state of the node and of its sessions keeps its type.             *)
THEOREM TypeCorrect == Spec => []TypeOK
BY TypeInit, TypeStep, PTL DEF Spec

-----------------------------------------------------------------------------
(* No version from the future.  The invariant is not inductive on the      *)
(* stores alone: it has to hold of every copy on its way, in the cached    *)
(* bitmaps and in the requests.                                            *)

RequestPast(req) ==
    \A p \in Peer : /\ req.infos[p] <= info[p][p]
                    /\ req.bitmap.row[p].ver <= rows[p][p].ver

CachePast == \A n, p \in Peer : cache[n].row[p].ver <= rows[p][p].ver

CallPast == \A n, q \in Peer : call[n][q] # Idle => RequestPast(call[n][q].req)

LatePast == \A req \in late : RequestPast(req)

PastInv == TypeOK /\ NoFutureVersion /\ CachePast /\ CallPast /\ LatePast

(* The owner's versions do not shrink in this step.                        *)
OwnGrow ==
    \A p \in Peer : info'[p][p] >= info[p][p] /\ rows'[p][p].ver >= rows[p][p].ver

LEMMA RequestPastStable ==
    ASSUME TypeOK, TypeOK', OwnGrow, NEW req \in Request, RequestPast(req)
    PROVE  RequestPast(req)'
<1> SUFFICES ASSUME NEW p \in Peer
             PROVE  req.infos[p] <= info'[p][p] /\ req.bitmap.row[p].ver <= rows'[p][p].ver
  BY Zenon DEF RequestPast
<1>1. req.infos[p] \in Nat /\ req.bitmap.row[p].ver \in Nat
  BY Zenon DEF Request, Bitmap, Row
<1>2. /\ info[p][p] \in Nat /\ rows[p][p].ver \in Nat
      /\ info'[p][p] \in Nat /\ rows'[p][p].ver \in Nat
  BY DEF TypeOK, Row
<1> QED BY <1>1, <1>2 DEF RequestPast, OwnGrow

(* Requests that were past stay past when the calls do not change.         *)
LEMMA SessionsPast ==
    ASSUME PastInv, TypeOK', OwnGrow, UNCHANGED <<call, late>>
    PROVE  CallPast' /\ LatePast'
<1>1. ASSUME NEW n \in Peer, NEW q \in Peer, call[n][q] # Idle
      PROVE  RequestPast(call[n][q].req)'
  <2>1. call[n][q].req \in Request
    BY <1>1, CallType DEF PastInv, TypeOK
  <2>2. RequestPast(call[n][q].req)
    BY Zenon, <1>1 DEF PastInv, CallPast
  <2>3. call'[n][q].req = call[n][q].req
    OBVIOUS
  <2>4. \A r \in Request : RequestPast(r) => RequestPast(r)'
    BY Zenon, RequestPastStable DEF PastInv
  <2> QED BY ZenonT(60), <2>1, <2>2, <2>3, <2>4 DEF RequestPast
<1>2. ASSUME NEW req \in late PROVE RequestPast(req)'
  BY Zenon, <1>2, RequestPastStable DEF PastInv, TypeOK, LatePast
<1> QED BY Zenon, <1>1, <1>2 DEF CallPast, LatePast

(* Store keeps the stores and caches past, if what is stored of others is. *)
LEMMA StorePast ==
    ASSUME PastInv, TypeOK', NEW n \in Peer, NEW inf \in [Peer -> Nat],
           NEW kn \in SUBSET Peer, NEW row \in [Peer -> Row],
           Store(n, inf, kn, row),
           \A p \in Peer \ {n} : inf[p] <= info[p][p] /\ row[p].ver <= rows[p][p].ver,
           inf[n] >= info[n][n], row[n].ver >= rows[n][n].ver
    PROVE  OwnGrow /\ NoFutureVersion' /\ CachePast'
<1> DEFINE rch == Reachable(n, inf, row)
           bm == BuildBitmap(kn, row, rch)
<1>1. /\ \A m, p \in Peer : info[m][p] \in Nat /\ rows[m][p].ver \in Nat
      /\ \A m, p \in Peer : info'[m][p] \in Nat /\ rows'[m][p].ver \in Nat
      /\ \A m, p \in Peer : cache[m].row[p].ver \in Nat
      /\ \A p \in Peer : row[p].ver \in Nat
  BY SMTT(60) DEF PastInv, TypeOK, Row, Bitmap
<1>2. /\ \A p \in Peer : info'[n][p] = inf[p] /\ rows'[n][p] = row[p]
      /\ \A m \in Peer \ {n} : info'[m] = info[m] /\ rows'[m] = rows[m]
  BY SMTT(60) DEF Store, PastInv, TypeOK
<1>3. OwnGrow
  BY SMTT(60), <1>1, <1>2 DEF OwnGrow
<1>4. NoFutureVersion'
  <2> SUFFICES ASSUME NEW m \in Peer, NEW p \in Peer
               PROVE  info'[m][p] <= info'[p][p] /\ rows'[m][p].ver <= rows'[p][p].ver
    BY Zenon DEF NoFutureVersion
  <2>1. CASE m = n
    BY SMTT(60), <1>1, <1>2, <2>1
  <2>2. CASE m # n
    BY SMTT(60), <1>1, <1>2, <1>3, <2>2 DEF PastInv, NoFutureVersion, OwnGrow
  <2> QED BY Zenon, <2>1, <2>2
<1>5. CachePast'
  <2> SUFFICES ASSUME NEW m \in Peer, NEW p \in Peer
               PROVE  cache'[m].row[p].ver <= rows'[p][p].ver
    BY Zenon DEF CachePast
  <2>1. CASE cache'[m] = cache[m]
    BY SMTT(60), <1>1, <1>3, <2>1 DEF PastInv, CachePast, OwnGrow
  <2>2. CASE m = n /\ cache'[m] = bm
    <3>1. bm.row[p].ver = row[p].ver \/ bm.row[p].ver = 0
      BY Zenon DEF BuildBitmap, NoRow
    <3>2. row[p].ver <= rows'[p][p].ver
      BY Zenon, <1>1, <1>2, <1>4, <2>2 DEF NoFutureVersion
    <3> QED BY <1>1, <2>2, <3>1, <3>2
  <2>3. cache'[m] = cache[m] \/ (m = n /\ cache'[m] = bm)
    BY SMTT(60) DEF Store, PastInv, TypeOK
  <2> QED BY Zenon, <2>1, <2>2, <2>3
<1> QED BY Zenon, <1>3, <1>4, <1>5

(* do_sync_route_info stores versions of a past request.                   *)
LEMMA ReceivePast ==
    ASSUME PastInv, TypeOK', NEW req \in Request, RequestPast(req), Receive(req)
    PROVE  OwnGrow /\ NoFutureVersion' /\ CachePast'
<1> DEFINE n == req.to
           inf == MergedInfos(n, req)
           kn == known[n] \cup req.bitmap.ids
           row == MergedRows(n, req)
<1>1. n \in Peer /\ inf \in [Peer -> Nat] /\ kn \in SUBSET Peer /\ row \in [Peer -> Row]
  BY Zenon, MergeType DEF PastInv, Request
<1>2. /\ \A m, p \in Peer : info[m][p] \in Nat /\ rows[m][p].ver \in Nat
      /\ \A p \in Peer : req.infos[p] \in Nat /\ req.bitmap.row[p].ver \in Nat
  <2>1. \A m, p \in Peer : info[m][p] \in Nat /\ rows[m][p].ver \in Nat
    BY SMTT(60) DEF PastInv, TypeOK, Row
  <2>2. \A p \in Peer : req.infos[p] \in Nat /\ req.bitmap.row[p].ver \in Nat
    BY Zenon DEF Row, Request, Bitmap
  <2> QED BY Zenon, <2>1, <2>2
<1>3. ASSUME NEW p \in Peer
      PROVE  /\ inf[p] <= info[p][p] /\ inf[p] >= info[n][p]
             /\ row[p].ver <= rows[p][p].ver /\ row[p].ver >= rows[n][p].ver
  <2>1. inf[p] = Larger(req.infos[p], info[n][p])
    BY Zenon DEF MergedInfos
  <2>2. \/ row[p] = req.bitmap.row[p] /\ req.bitmap.row[p].ver > rows[n][p].ver
        \/ row[p] = rows[n][p]
    BY Zenon DEF MergedRows
  <2>3. req.infos[p] <= info[p][p] /\ req.bitmap.row[p].ver <= rows[p][p].ver
    BY Zenon DEF RequestPast
  <2>4. info[n][p] <= info[p][p] /\ rows[n][p].ver <= rows[p][p].ver
    BY Zenon, <1>1 DEF PastInv, NoFutureVersion
  <2> QED BY SMTT(60), <1>1, <1>2, <2>1, <2>2, <2>3, <2>4 DEF Larger
<1>4. Store(n, inf, kn, row)
  BY Zenon DEF Receive
<1> HIDE DEF n, inf, kn, row
<1> QED BY Zenon, <1>1, <1>3, <1>4, StorePast

LEMMA PastInit == Init => PastInv
<1> SUFFICES ASSUME Init PROVE PastInv
  OBVIOUS
<1>1. TypeOK
  BY Zenon, TypeInit
<1>2. \A n, p \in Peer : rows[n][p].ver = 0 /\ cache[n].row[p].ver = 0
  BY Zenon DEF Init, NoRow, NoBitmap
<1>3. NoFutureVersion /\ CachePast
  BY SMTT(60), <1>2 DEF Init, NoFutureVersion, CachePast
<1>4. CallPast /\ LatePast
  BY Zenon DEF Init, CallPast, LatePast
<1> QED BY Zenon, <1>1, <1>3, <1>4 DEF PastInv

LEMMA PastStep == PastInv /\ [Next]_vars => PastInv'
<1> SUFFICES ASSUME PastInv, [Next]_vars PROVE PastInv'
  OBVIOUS
<1> USE DEF nodeVars, sessVars
<1>t. TypeOK /\ TypeOK'
  BY Zenon, TypeStep DEF PastInv
<1>v. \A n, p \in Peer : info[n][p] \in Nat /\ rows[n][p].ver \in Nat
  BY SMTT(60), <1>t DEF TypeOK, Row
<1>s. OwnGrow => \A r \in Request : RequestPast(r) => RequestPast(r)'
  BY Zenon, <1>t, RequestPastStable
<1>1. ASSUME NEW n \in Peer, UpdateMyPeerInfo(n) PROVE PastInv'
  <2> DEFINE inf == [info[n] EXCEPT ![n] = @ + 1]
  <2>1. inf \in [Peer -> Nat] /\ known[n] \in SUBSET Peer /\ rows[n] \in [Peer -> Row]
    BY SMTT(60), <1>t DEF TypeOK
  <2>2. /\ \A p \in Peer \ {n} : inf[p] <= info[p][p] /\ rows[n][p].ver <= rows[p][p].ver
        /\ inf[n] >= info[n][n] /\ rows[n][n].ver >= rows[n][n].ver
    BY SMTT(60), <1>t, <1>v DEF TypeOK, PastInv, NoFutureVersion
  <2>3. Store(n, inf, known[n], rows[n]) /\ UNCHANGED <<call, late>>
    BY Zenon, <1>1 DEF UpdateMyPeerInfo
  <2> HIDE DEF inf
  <2>4. OwnGrow /\ NoFutureVersion' /\ CachePast'
    BY Zenon, <1>t, <2>1, <2>2, <2>3, StorePast
  <2> QED BY Zenon, <1>t, <2>3, <2>4, SessionsPast DEF PastInv
<1>2. ASSUME NEW n \in Peer, UpdateMyConnInfo(n) PROVE PastInv'
  <2> DEFINE new == [ver |-> rows[n][n].ver + 1, peers |-> Linked(n)]
             row == [rows[n] EXCEPT ![n] = new]
             kn == known[n] \cup Linked(n) \cup {n}
  <2>1. info[n] \in [Peer -> Nat] /\ kn \in SUBSET Peer /\ row \in [Peer -> Row]
    BY SMTT(60), <1>t, <1>v DEF TypeOK, Row, Linked
  <2>2. row[n].ver = rows[n][n].ver + 1 /\ \A p \in Peer \ {n} : row[p] = rows[n][p]
    BY Zenon, <1>t DEF TypeOK
  <2>3. /\ \A p \in Peer \ {n} : info[n][p] <= info[p][p] /\ row[p].ver <= rows[p][p].ver
        /\ info[n][n] >= info[n][n] /\ row[n].ver >= rows[n][n].ver
    BY SMTT(60), <1>v, <2>2 DEF PastInv, NoFutureVersion
  <2>4. Store(n, info[n], kn, row) /\ UNCHANGED <<call, late>>
    BY Zenon, <1>2 DEF UpdateMyConnInfo
  <2> HIDE DEF row, kn
  <2>5. OwnGrow /\ NoFutureVersion' /\ CachePast'
    BY Zenon, <1>t, <2>1, <2>3, <2>4, StorePast
  <2> QED BY Zenon, <1>t, <2>4, <2>5, SessionsPast DEF PastInv
<1>k. ASSUME UNCHANGED <<info, rows, cache>>
      PROVE  OwnGrow /\ NoFutureVersion' /\ CachePast'
  BY Zenon, <1>k, <1>v DEF PastInv, NoFutureVersion, CachePast, OwnGrow
<1>3. ASSUME NEW n \in Peer, NEW q \in Peer, Send(n, q) PROVE PastInv'
  <2> DEFINE req == BuildSyncRequest(n, q)
  <2>1. OwnGrow /\ NoFutureVersion' /\ CachePast' /\ UNCHANGED <<info, rows, late>>
    BY Zenon, <1>3, <1>k DEF Send
  <2>2. RequestPast(req)
    <3> SUFFICES ASSUME NEW p \in Peer
                 PROVE  req.infos[p] <= info[p][p] /\ req.bitmap.row[p].ver <= rows[p][p].ver
      BY Zenon DEF RequestPast
    <3>1. req.infos[p] = info[n][p] \/ req.infos[p] = 0
      BY Zenon DEF BuildSyncRequest, BuildRouteInfo
    <3>2. req.bitmap.row[p] = cache[n].row[p] \/ req.bitmap.row[p].ver = 0
      BY Zenon DEF BuildSyncRequest, BuildConnBitmap, NoBitmap, NoRow
    <3> QED BY SMTT(60), <1>v, <3>1, <3>2 DEF PastInv, NoFutureVersion, CachePast
  <2>3. req \in Request
    BY Zenon, <1>t, BuildType
  <2> HIDE DEF req
  <2>4. call' = [call EXCEPT ![n][q] = [st |-> "sent", req |-> req]]
    BY Zenon, <1>3 DEF Send, req
  <2>5. ASSUME NEW m \in Peer, NEW x \in Peer, call'[m][x] # Idle
        PROVE  RequestPast(call[m][x].req)'
    <3>1. RequestPast(call'[m][x].req)
      <4>1. CASE m = n /\ x = q
        <5>1. call'[m][x].req = req
          BY SMTT(60), <1>t, <2>4, <4>1 DEF TypeOK
        <5> QED BY Zenon, <2>2, <5>1
      <4>2. CASE ~(m = n /\ x = q)
        <5>1. call'[m][x] = call[m][x]
          BY SMTT(60), <1>t, <2>4, <4>2 DEF TypeOK
        <5> QED BY ZenonT(60), <2>5, <5>1 DEF PastInv, CallPast
      <4> QED BY Zenon, <4>1, <4>2
    <3> QED BY Zenon, <2>1, <3>1 DEF RequestPast
  <2>6. CallPast'
    BY Zenon, <2>5 DEF CallPast
  <2>7. LatePast'
    BY Zenon, <2>1 DEF LatePast, RequestPast, PastInv
  <2> QED BY Zenon, <1>t, <2>1, <2>6, <2>7 DEF PastInv
<1>4. ASSUME NEW n \in Peer, NEW q \in Peer, Handle(n, q) PROVE PastInv'
  <2> DEFINE req == call[n][q].req
  <2>1. call[n][q] # Idle /\ call[n][q] \in Call /\ req \in Request /\ RequestPast(req)
    BY <1>4, <1>t, CallType DEF Handle, TypeOK, PastInv, CallPast
  <2>2. Receive(req) /\ UNCHANGED late /\ call' = [call EXCEPT ![n][q].st = "answered"]
    BY Zenon, <1>4 DEF Handle
  <2>3. OwnGrow /\ NoFutureVersion' /\ CachePast'
    BY Zenon, <1>t, <2>1, <2>2, ReceivePast
  <2>4. ASSUME NEW m \in Peer, NEW x \in Peer, call'[m][x] # Idle
        PROVE  call[m][x] # Idle /\ call'[m][x].req = call[m][x].req
    <3>1. CASE m = n /\ x = q
      BY SMTT(60), <1>t, <2>1, <2>2, <3>1, CallType DEF TypeOK
    <3>2. CASE ~(m = n /\ x = q)
      BY SMTT(60), <1>t, <2>2, <2>4, <3>2 DEF TypeOK
    <3> QED BY Zenon, <3>1, <3>2
  <2>5. ASSUME NEW m \in Peer, NEW x \in Peer, call'[m][x] # Idle
        PROVE  RequestPast(call[m][x].req)'
    <3>1. /\ call[m][x] # Idle /\ call'[m][x].req = call[m][x].req
          /\ call[m][x] \in Call
      BY <1>t, <2>4, <2>5 DEF TypeOK
    <3>2. call[m][x].req \in Request /\ RequestPast(call[m][x].req)
      BY Zenon, <3>1, CallType DEF PastInv, CallPast
    <3>3. \A r \in Request : RequestPast(r) => RequestPast(r)'
      BY Zenon, <1>s, <2>3
    <3> QED BY Zenon, <3>1, <3>2, <3>3 DEF RequestPast
  <2>6. CallPast'
    BY Zenon, <2>5 DEF CallPast
  <2>7. LatePast'
    BY Zenon, <1>s, <1>t, <2>2, <2>3 DEF LatePast, PastInv, TypeOK
  <2> QED BY Zenon, <1>t, <2>3, <2>6, <2>7 DEF PastInv
<1>5. ASSUME NEW n \in Peer, NEW q \in Peer,
             call' = [call EXCEPT ![n][q] = Idle], late' \in {late, Abandoned(call[n][q])},
             UNCHANGED <<info, rows, cache>>
      PROVE  PastInv'
  <2>1. OwnGrow /\ NoFutureVersion' /\ CachePast'
    BY Zenon, <1>5, <1>k
  <2>2. CallPast'
    <3> SUFFICES ASSUME NEW m \in Peer, NEW x \in Peer, call'[m][x] # Idle
                 PROVE  RequestPast(call[m][x].req)'
      BY Zenon DEF CallPast
    <3>1. call'[m][x] = call[m][x]
      BY SMTT(60), <1>5, <1>t DEF TypeOK
    <3>2. RequestPast(call[m][x].req)
      BY Zenon, <3>1 DEF PastInv, CallPast
    <3> QED BY Zenon, <1>5, <3>1, <3>2 DEF RequestPast
  <2>3. LatePast'
    <3>1. call[n][q] # Idle => RequestPast(call[n][q].req)
      BY Zenon DEF PastInv, CallPast
    <3>2. \A r \in late' : r \in late \/ (call[n][q] # Idle /\ r = call[n][q].req)
      BY Zenon, <1>5 DEF Abandoned
    <3>3. \A r \in late' : RequestPast(r)
      BY Zenon, <3>1, <3>2 DEF PastInv, LatePast
    <3> QED BY Zenon, <1>5, <3>3 DEF LatePast, RequestPast
  <2> QED BY Zenon, <1>t, <2>1, <2>2, <2>3 DEF PastInv
<1>6. ASSUME NEW n \in Peer, NEW q \in Peer,
             Response(n, q) \/ Timeout(n, q) \/ DropSession(n, q)
      PROVE  PastInv'
  <2>1. /\ call' = [call EXCEPT ![n][q] = Idle]
        /\ late' \in {late, Abandoned(call[n][q])}
        /\ UNCHANGED <<info, rows, cache>>
    BY Zenon, <1>6 DEF Response, Timeout, DropSession
  <2> QED BY ZenonT(60), <1>5, <2>1
<1>7. ASSUME NEW req \in late, HandleLate(req) PROVE PastInv'
  <2>1. req \in Request /\ RequestPast(req) /\ Receive(req)
        /\ late' \subseteq late /\ UNCHANGED call
    BY Zenon, <1>7, <1>t DEF HandleLate, PastInv, LatePast, TypeOK
  <2>2. OwnGrow /\ NoFutureVersion' /\ CachePast'
    BY Zenon, <1>t, <2>1, ReceivePast
  <2>3. \A r \in Request : RequestPast(r) => RequestPast(r)'
    BY Zenon, <1>s, <2>2
  <2>4. LatePast'
    BY Zenon, <1>t, <2>1, <2>3 DEF LatePast, PastInv, TypeOK
  <2>5. ASSUME NEW m \in Peer, NEW x \in Peer, call'[m][x] # Idle
        PROVE  RequestPast(call[m][x].req)'
    <3>1. call[m][x] # Idle /\ call'[m][x] = call[m][x] /\ call[m][x] \in Call
      BY Zenon, <1>t, <2>1, <2>5 DEF TypeOK
    <3>2. call[m][x].req \in Request /\ RequestPast(call[m][x].req)
      BY Zenon, <3>1, CallType DEF PastInv, CallPast
    <3> QED BY Zenon, <2>3, <3>1, <3>2 DEF RequestPast
  <2> QED BY Zenon, <1>t, <2>2, <2>4, <2>5 DEF PastInv, CallPast
<1>8. ASSUME NEW e \in Pair, LinkChange(e) PROVE PastInv'
  BY Zenon, <1>8, <1>t, <1>k, SessionsPast DEF LinkChange, PastInv
<1>9. ASSUME NEW n \in Peer, NEW p \in Peer, Expire(n, p) PROVE PastInv'
  <2>1. n # p
    BY Zenon, <1>9 DEF Expire, Component
  <2>2. /\ \A m, x \in Peer : ~(m = n /\ x = p) =>
                info'[m][x] = info[m][x] /\ rows'[m][x] = rows[m][x]
        /\ info'[n][p] = 0 /\ rows'[n][p].ver = 0
        /\ UNCHANGED <<cache, call, late>>
    BY SMTT(60), <1>9, <1>t DEF Expire, TypeOK, NoRow
  <2>3. OwnGrow
    BY SMTT(60), <1>v, <2>1, <2>2 DEF OwnGrow
  <2>4. NoFutureVersion' /\ CachePast'
    BY SMTT(60), <1>v, <2>1, <2>2 DEF PastInv, NoFutureVersion, CachePast
  <2> QED BY Zenon, <1>t, <2>2, <2>3, <2>4, SessionsPast DEF PastInv
<1>10. CASE UNCHANGED vars
  BY Zenon, <1>10, <1>t, <1>k, SessionsPast DEF vars, PastInv
<1> QED
  BY Zenon, <1>1, <1>2, <1>3, <1>4, <1>6, <1>7, <1>8, <1>9, <1>10 DEF Next, RunNext, Task

(* In every behaviour, with lost, late and repeated requests and with      *)
(* expired infos, no node holds a version its owner has not reached.       *)
THEOREM NoFuture == Spec => []NoFutureVersion
<1>1. PastInv => NoFutureVersion
  BY Zenon DEF PastInv
<1> QED BY <1>1, PastInit, PastStep, PTL DEF Spec

-----------------------------------------------------------------------------
(* While nothing expires: rows stay as published, saved versions are true. *)
(*                                                                         *)
(* The invariant follows each copy of a row on its way.  A bitmap row is   *)
(* complete because all its members are among the bitmap's peer_ids, which *)
(* holds because all members of stored rows are keys of conn_map           *)
(* (fill_empty_peer_info).  A request is one its sender still has, and an  *)
(* answered one also one its receiver has.                                 *)

KnownClosed == \A n, p \in Peer : rows[n][p].peers \subseteq known[n]

CompleteBitmap(bm) ==
    \A p \in bm.ids :
        /\ bm.row[p].peers \subseteq bm.ids
        /\ bm.row[p].ver > 0 => <<p, bm.row[p].ver, bm.row[p].peers>> \in published

HasBitmap(h, bm) ==
    \A p \in bm.ids : p \in known[h] /\ bm.row[p].ver <= rows[h][p].ver

HasInfos(h, infos) == \A p \in Peer : infos[p] <= info[h][p]

CacheGood == \A n \in Peer : CompleteBitmap(cache[n]) /\ HasBitmap(n, cache[n])

GoodRequest(req) ==
    /\ CompleteBitmap(req.bitmap)
    /\ HasBitmap(req.from, req.bitmap) /\ HasInfos(req.from, req.infos)

LateGood == \A req \in late : GoodRequest(req)

GoodCall(n, q, c) ==
    c # Idle =>
        /\ c.req.from = n /\ c.req.to = q /\ GoodRequest(c.req)
        /\ c.st = "answered" => HasBitmap(q, c.req.bitmap) /\ HasInfos(q, c.req.infos)

CallGood == \A n, q \in Peer : GoodCall(n, q, call[n][q])

(* A version is published once, in increasing order.                       *)
PublishedOnce ==
    \A t, u \in published :
        /\ t[2] <= rows[t[1]][t[1]].ver
        /\ t[1] = u[1] /\ t[2] = u[2] => t[3] = u[3]

FaithInv ==
    /\ TypeOK /\ RowsAsPublished /\ KnownClosed /\ CacheGood
    /\ LateGood /\ CallGood /\ SavedSound /\ PublishedOnce

(* No node loses anything in this step.                                    *)
Grow ==
    /\ published \subseteq published'
    /\ \A n, p \in Peer :
        /\ info'[n][p] >= info[n][p] /\ rows'[n][p].ver >= rows[n][p].ver
        /\ p \in known[n] => p \in known'[n]

LEMMA BitmapStable ==
    ASSUME TypeOK, TypeOK', Grow, NEW bm \in Bitmap, NEW h \in Peer
    PROVE  /\ CompleteBitmap(bm) => CompleteBitmap(bm)'
           /\ HasBitmap(h, bm) => HasBitmap(h, bm)'
<1>1. \A p \in Peer : bm.row[p].ver \in Nat /\ rows[h][p].ver \in Nat /\ rows'[h][p].ver \in Nat
  BY SMTT(60) DEF TypeOK, Bitmap, Row
<1>2. bm.ids \subseteq Peer
  BY Zenon DEF Bitmap
<1> QED BY SMTT(60), <1>1, <1>2 DEF CompleteBitmap, HasBitmap, Grow

LEMMA InfosStable ==
    ASSUME TypeOK, TypeOK', Grow, NEW infos \in [Peer -> Nat], NEW h \in Peer
    PROVE  HasInfos(h, infos) => HasInfos(h, infos)'
<1>1. \A p \in Peer : infos[p] \in Nat /\ info[h][p] \in Nat /\ info'[h][p] \in Nat
  BY DEF TypeOK
<1> QED BY <1>1 DEF HasInfos, Grow

LEMMA RequestStable ==
    ASSUME TypeOK, TypeOK', Grow, NEW req \in Request
    PROVE  GoodRequest(req) => GoodRequest(req)'
<1>1. req.from \in Peer /\ req.bitmap \in Bitmap /\ req.infos \in [Peer -> Nat]
  BY Zenon DEF Request
<1> QED BY Zenon, <1>1, BitmapStable, InfosStable DEF GoodRequest

(* Saved versions that were true stay true.                                *)
LEMMA SavedStable ==
    ASSUME TypeOK, TypeOK', Grow, NEW q \in Peer, NEW p \in Peer,
           NEW i \in Nat, NEW r \in Nat \cup {NotSaved}
    PROVE  /\ i <= info[q][p] => i <= info'[q][p]
           /\ r <= (IF p \in known[q] THEN rows[q][p].ver ELSE NotSaved)
              => r <= (IF p \in known'[q] THEN rows'[q][p].ver ELSE NotSaved)
<1>1. /\ info[q][p] \in Nat /\ info'[q][p] \in Nat
      /\ rows[q][p].ver \in Nat /\ rows'[q][p].ver \in Nat
  BY SMTT(60) DEF TypeOK, Row
<1> QED BY <1>1 DEF Grow, NotSaved

(* A bitmap built from closed rows is complete.                            *)
LEMMA BitmapRows ==
    ASSUME NEW kn \in SUBSET Peer, NEW row \in [Peer -> Row], NEW rch \in SUBSET Peer,
           \A p \in Peer : row[p].peers \subseteq kn,
           NEW p \in BuildBitmap(kn, row, rch).ids
    PROVE  /\ p \in kn
           /\ BuildBitmap(kn, row, rch).row[p].ver = row[p].ver
           /\ BuildBitmap(kn, row, rch).row[p].peers = row[p].peers
           /\ row[p].peers \subseteq BuildBitmap(kn, row, rch).ids
<1> DEFINE dst == UNION {row[x].peers : x \in kn}
           ids == {x \in kn : x \in dst \/ x \in rch}
           rw == [x \in Peer |-> IF x \in ids
                      THEN [ver |-> row[x].ver, peers |-> row[x].peers \cap ids]
                      ELSE NoRow]
<1>1. BuildBitmap(kn, row, rch) = [ids |-> ids, row |-> rw]
  BY Zenon DEF BuildBitmap
<1>2. p \in ids /\ p \in kn /\ p \in Peer
  BY <1>1
<1>3. row[p].peers \subseteq dst
  BY Zenon, <1>2
<1>4. row[p].peers \subseteq ids
  BY Zenon, <1>2, <1>3
<1>5. rw[p] = [ver |-> row[p].ver, peers |-> row[p].peers \cap ids]
  BY Zenon, <1>2
<1>6. row[p].peers \cap ids = row[p].peers
  BY Zenon, <1>4
<1>7. BuildBitmap(kn, row, rch).ids = ids /\ BuildBitmap(kn, row, rch).row = rw
  BY <1>1
<1> HIDE DEF rw, ids
<1>8. rw[p].ver = row[p].ver /\ rw[p].peers = row[p].peers
  BY <1>5, <1>6
<1> QED BY Zenon, <1>2, <1>4, <1>7, <1>8

(* Store keeps the node part of the invariant, if what is stored is newer, *)
(* as published and closed.                                                *)
LEMMA StoreGood ==
    ASSUME FaithInv, TypeOK', NEW n \in Peer, NEW inf \in [Peer -> Nat],
           NEW kn \in SUBSET Peer, NEW row \in [Peer -> Row],
           Store(n, inf, kn, row), published \subseteq published',
           known[n] \subseteq kn,
           \A p \in Peer :
              /\ inf[p] >= info[n][p] /\ row[p].ver >= rows[n][p].ver
              /\ row[p].peers \subseteq kn
              /\ row[p].ver > 0 => <<p, row[p].ver, row[p].peers>> \in published'
    PROVE  Grow /\ RowsAsPublished' /\ KnownClosed' /\ CacheGood'
<1> DEFINE rch == Reachable(n, inf, row)
           bm == BuildBitmap(kn, row, rch)
<1>1. /\ \A m, p \in Peer : info[m][p] \in Nat /\ rows[m][p].ver \in Nat
      /\ \A p \in Peer : row[p].ver \in Nat
  BY SMTT(60) DEF FaithInv, TypeOK, Row
<1>2. /\ \A p \in Peer : info'[n][p] = inf[p] /\ rows'[n][p] = row[p]
      /\ known'[n] = kn
      /\ \A m \in Peer \ {n} : info'[m] = info[m] /\ rows'[m] = rows[m] /\ known'[m] = known[m]
  BY DEF Store, FaithInv, TypeOK
<1>3. Grow
  <2> SUFFICES ASSUME NEW m \in Peer, NEW p \in Peer
               PROVE  /\ info'[m][p] >= info[m][p] /\ rows'[m][p].ver >= rows[m][p].ver
                      /\ p \in known[m] => p \in known'[m]
    BY Zenon DEF Grow
  <2>1. CASE m = n
    BY ZenonT(60), <1>2, <2>1
  <2>2. CASE m # n
    BY <1>1, <1>2, <2>2
  <2> QED BY Zenon, <2>1, <2>2
<1>4. RowsAsPublished'
  <2> SUFFICES ASSUME NEW m \in Peer, NEW p \in Peer, rows'[m][p].ver > 0
               PROVE  <<p, rows'[m][p].ver, rows'[m][p].peers>> \in published'
    BY Zenon DEF RowsAsPublished
  <2>1. CASE m = n
    BY Zenon, <1>2, <2>1
  <2>2. CASE m # n
    BY Zenon, <1>2, <2>2 DEF FaithInv, RowsAsPublished
  <2> QED BY Zenon, <2>1, <2>2
<1>5. KnownClosed'
  <2> SUFFICES ASSUME NEW m \in Peer, NEW p \in Peer
               PROVE  rows'[m][p].peers \subseteq known'[m]
    BY Zenon DEF KnownClosed
  <2>1. CASE m = n
    BY ZenonT(60), <1>2, <2>1
  <2>2. CASE m # n
    BY Zenon, <1>2, <2>2 DEF FaithInv, KnownClosed
  <2> QED BY Zenon, <2>1, <2>2
<1>6. CacheGood'
  <2> SUFFICES ASSUME NEW m \in Peer
               PROVE  CompleteBitmap(cache[m])' /\ HasBitmap(m, cache[m])'
    BY Zenon DEF CacheGood
  <2>1. CASE cache'[m] = cache[m]
    <3>1. cache[m] \in Bitmap /\ CompleteBitmap(cache[m]) /\ HasBitmap(m, cache[m])
      BY Zenon DEF FaithInv, TypeOK, CacheGood
    <3>2. \A b \in Bitmap : CompleteBitmap(b) /\ HasBitmap(m, b)
                               => CompleteBitmap(b)' /\ HasBitmap(m, b)'
      BY Zenon, <1>3, BitmapStable DEF FaithInv
    <3> QED BY Zenon, <2>1, <3>1, <3>2 DEF CompleteBitmap, HasBitmap
  <2>2. CASE m = n /\ cache'[m] = bm
    <3>1. rch \in SUBSET Peer
      BY Zenon DEF Reachable
    <3>2. bm.ids \subseteq kn
      BY Zenon, <3>1, BitmapType
    <3>3. ASSUME NEW p \in bm.ids
          PROVE  /\ p \in kn /\ bm.row[p].ver = row[p].ver
                 /\ bm.row[p].peers = row[p].peers /\ row[p].peers \subseteq bm.ids
      BY ZenonT(60), <3>1, <3>3, BitmapRows
    <3> HIDE DEF bm
    <3>4. ASSUME NEW p \in bm.ids
          PROVE  /\ bm.row[p].peers \subseteq bm.ids
                 /\ bm.row[p].ver > 0 => <<p, bm.row[p].ver, bm.row[p].peers>> \in published'
                 /\ p \in known'[n] /\ bm.row[p].ver <= rows'[n][p].ver
      BY <1>1, <1>2, <3>2, <3>3
    <3> QED BY ZenonT(60), <2>2, <3>4 DEF CompleteBitmap, HasBitmap
  <2>3. cache'[m] = cache[m] \/ (m = n /\ cache'[m] = bm)
    BY DEF Store, FaithInv, TypeOK
  <2> QED BY Zenon, <2>1, <2>2, <2>3
<1> QED BY Zenon, <1>3, <1>4, <1>5, <1>6

(* do_sync_route_info keeps the node part, and the receiver then has what  *)
(* the request brought.                                                    *)
LEMMA ReceiveGood ==
    ASSUME FaithInv, TypeOK', NEW req \in Request, GoodRequest(req), Receive(req)
    PROVE  /\ Grow /\ RowsAsPublished' /\ KnownClosed' /\ CacheGood'
           /\ HasBitmap(req.to, req.bitmap)' /\ HasInfos(req.to, req.infos)'
<1> DEFINE n == req.to
           inf == MergedInfos(n, req)
           kn == known[n] \cup req.bitmap.ids
           row == MergedRows(n, req)
<1>1. n \in Peer /\ inf \in [Peer -> Nat] /\ kn \in SUBSET Peer /\ row \in [Peer -> Row]
  BY Zenon, MergeType DEF FaithInv, Request
<1>2. \A p \in Peer : info[n][p] \in Nat /\ rows[n][p].ver \in Nat
  BY SMTT(60), <1>1 DEF FaithInv, TypeOK, Row
<1>3. \A p \in Peer : req.infos[p] \in Nat /\ req.bitmap.row[p].ver \in Nat
  BY Zenon DEF Row, Request, Bitmap
<1>4. ASSUME NEW p \in Peer
      PROVE  /\ inf[p] >= info[n][p] /\ inf[p] >= req.infos[p]
             /\ row[p].ver >= rows[n][p].ver
             /\ p \in req.bitmap.ids => row[p].ver >= req.bitmap.row[p].ver
  <2>1. inf[p] = Larger(req.infos[p], info[n][p])
    BY Zenon DEF MergedInfos
  <2>2. row[p] = IF p \in req.bitmap.ids /\ req.bitmap.row[p].ver > rows[n][p].ver
                 THEN req.bitmap.row[p] ELSE rows[n][p]
    BY Zenon DEF MergedRows
  <2> QED BY SMTT(60), <1>2, <1>3, <2>1, <2>2 DEF Larger
<1>5. ASSUME NEW p \in Peer
      PROVE  /\ row[p].peers \subseteq kn
             /\ row[p].ver > 0 => <<p, row[p].ver, row[p].peers>> \in published
  <2>1. CASE row[p] = rows[n][p]
    BY Zenon, <1>1, <2>1 DEF FaithInv, KnownClosed, RowsAsPublished
  <2>2. CASE p \in req.bitmap.ids /\ row[p] = req.bitmap.row[p]
    BY Zenon, <2>2 DEF GoodRequest, CompleteBitmap
  <2>3. row[p] = rows[n][p] \/ (p \in req.bitmap.ids /\ row[p] = req.bitmap.row[p])
    BY Zenon DEF MergedRows
  <2> QED BY Zenon, <2>1, <2>2, <2>3
<1>6. Store(n, inf, kn, row) /\ published' = published
  BY Zenon DEF Receive
<1>7. known[n] \subseteq kn /\ req.bitmap.ids \subseteq kn
  BY Zenon
<1> HIDE DEF n, inf, kn, row
<1>8. Grow /\ RowsAsPublished' /\ KnownClosed' /\ CacheGood'
  BY Zenon, <1>1, <1>4, <1>5, <1>6, <1>7, StoreGood
<1>9. \A p \in Peer : info'[n][p] = inf[p] /\ rows'[n][p] = row[p]
  BY SMTT(60), <1>1, <1>6 DEF Store, FaithInv, TypeOK
<1>10. known'[n] = kn
  BY SMTT(60), <1>1, <1>6 DEF Store, FaithInv, TypeOK
<1>11. HasBitmap(n, req.bitmap)'
  <2>1. req.bitmap.ids \subseteq Peer
    BY Zenon DEF Request, Bitmap
  <2> SUFFICES ASSUME NEW p \in req.bitmap.ids
               PROVE  p \in known'[n] /\ req.bitmap.row[p].ver <= rows'[n][p].ver
    BY Zenon DEF HasBitmap, n
  <2>2. row[p].ver \in Nat
    BY Zenon, <1>1, <2>1 DEF Row
  <2> QED BY Zenon, <1>3, <1>4, <1>7, <1>9, <1>10, <2>1, <2>2
<1>12. HasInfos(n, req.infos)'
  <2> SUFFICES ASSUME NEW p \in Peer PROVE req.infos[p] <= info'[n][p]
    BY Zenon DEF HasInfos, n
  <2> QED BY Zenon, <1>1, <1>3, <1>4, <1>9
<1> QED BY Zenon, <1>8, <1>11, <1>12 DEF n

(* Recording a request the other side has keeps the saved versions true.   *)
LEMMA SaveSound ==
    ASSUME NEW req \in Request, NEW p \in Peer,
           NEW si \in [Peer -> Nat], NEW sr \in [Peer -> Nat \cup {NotSaved}],
           NEW i \in Nat, NEW v \in Nat \cup {NotSaved},
           si[p] <= i, sr[p] <= v, req.infos[p] <= i,
           p \in req.bitmap.ids => req.bitmap.row[p].ver <= v
    PROVE  SaveInfos(si, req)[p] <= i /\ SaveRows(sr, req)[p] <= v
<1>1. req.infos[p] \in Nat /\ req.bitmap.row[p].ver \in Nat
  BY Zenon DEF Row, Request, Bitmap
<1>2. SaveInfos(si, req)[p] = Larger(req.infos[p], si[p])
  BY Zenon DEF SaveInfos
<1>3. SaveRows(sr, req)[p] = IF p \in req.bitmap.ids
                             THEN Larger(req.bitmap.row[p].ver, sr[p]) ELSE sr[p]
  BY Zenon DEF SaveRows
<1> QED BY Zenon, <1>1, <1>2, <1>3 DEF Larger, NotSaved

LEMMA FaithInit == Init => FaithInv
<1> SUFFICES ASSUME Init PROVE FaithInv
  OBVIOUS
<1>1. TypeOK
  BY Zenon, TypeInit
<1>2. \A n, p \in Peer : rows[n][p] = NoRow
  BY Zenon DEF Init
<1>3. RowsAsPublished /\ KnownClosed
  BY SMTT(60), <1>2 DEF RowsAsPublished, KnownClosed, NoRow
<1>4. CacheGood
  BY Zenon DEF Init, CacheGood, CompleteBitmap, HasBitmap, NoBitmap
<1>5. LateGood /\ CallGood /\ PublishedOnce
  BY Zenon DEF Init, LateGood, CallGood, GoodCall, PublishedOnce
<1>6. \A n, q, p \in Peer : savedInfo[n][q][p] = 0 /\ savedRow[n][q][p] = NotSaved
  BY Zenon DEF Init
<1>7. \A n, p \in Peer : info[n][p] >= 0 /\ rows[n][p].ver >= NotSaved
  BY SMTT(60), <1>2 DEF Init, NoRow, NotSaved
<1>8. SavedSound
  BY <1>6, <1>7 DEF SavedSound, NotSaved
<1> QED BY Zenon, <1>1, <1>3, <1>4, <1>5, <1>8 DEF FaithInv

(* A step that leaves the nodes alone keeps the node part.                 *)
LEMMA NodesKeep ==
    ASSUME FaithInv, UNCHANGED nodeVars
    PROVE  /\ Grow /\ RowsAsPublished' /\ KnownClosed' /\ CacheGood' /\ published' = published
<1>1. /\ info' = info /\ rows' = rows /\ known' = known
      /\ cache' = cache /\ published' = published
  BY Zenon DEF nodeVars
<1>2. \A n, p \in Peer : info[n][p] \in Nat /\ rows[n][p].ver \in Nat
  BY DEF FaithInv, TypeOK, Row
<1>3. Grow
  BY SMTT(60), <1>1, <1>2 DEF Grow
<1>4. RowsAsPublished' /\ KnownClosed'
  BY Zenon, <1>1 DEF FaithInv, RowsAsPublished, KnownClosed
<1>5. CacheGood'
  BY Zenon, <1>1 DEF FaithInv, CacheGood, CompleteBitmap, HasBitmap
<1> QED BY Zenon, <1>1, <1>3, <1>4, <1>5

(* In a step in which no node loses anything, it suffices to look at what  *)
(* the step changes in the sessions.                                       *)
LEMMA SessionsKeep ==
    ASSUME FaithInv, TypeOK', Grow
    PROVE  /\ \A n, q \in Peer : call'[n][q] = call[n][q] => GoodCall(n, q, call[n][q])'
           /\ \A n, q \in Peer : call'[n][q] = Idle => GoodCall(n, q, call[n][q])'
           /\ \A req \in late : GoodRequest(req)'
           /\ \A n, q \in Peer : call[n][q] # Idle => \A req \in {call[n][q].req} : GoodRequest(req)'
           /\ \A n, q, p \in Peer :
                /\ savedInfo[n][q][p] <= info'[q][p]
                /\ savedRow[n][q][p] <= (IF p \in known'[q] THEN rows'[q][p].ver ELSE NotSaved)
           /\ published' = published => PublishedOnce'
<1> USE DEF FaithInv
<1>1. \A req \in Request : GoodRequest(req) => GoodRequest(req)'
  BY Zenon, RequestStable
<1>2. \A n, q \in Peer : call[n][q] # Idle => call[n][q].req \in Request
  BY SMTT(60) DEF TypeOK, Call
<1>3. ASSUME NEW n \in Peer, NEW q \in Peer, NEW c \in Call, c # Idle, GoodCall(n, q, c)
      PROVE  GoodCall(n, q, c)'
  <2>1. c.req \in Request
    BY Zenon, <1>3 DEF Call
  <2>2. c.req.bitmap \in Bitmap /\ c.req.infos \in [Peer -> Nat]
    BY Zenon, <2>1 DEF Request
  <2>3. GoodRequest(c.req)'
    BY Zenon, <1>1, <1>3, <2>1 DEF GoodCall
  <2>4. c.st = "answered" => HasBitmap(q, c.req.bitmap)' /\ HasInfos(q, c.req.infos)'
    BY Zenon, <1>3, <2>2, BitmapStable, InfosStable DEF GoodCall
  <2> QED BY Zenon, <1>3, <2>3, <2>4 DEF GoodCall
<1>4. ASSUME NEW n \in Peer, NEW q \in Peer, call'[n][q] = call[n][q], call[n][q] # Idle
      PROVE  GoodCall(n, q, call[n][q])'
  <2>1. call[n][q] \in Call /\ GoodCall(n, q, call[n][q])
    BY Zenon DEF TypeOK, CallGood
  <2>2. PICK c \in Call : c = call[n][q]
    BY Zenon, <2>1
  <2>3. GoodCall(n, q, c)'
    BY Zenon, <1>3, <1>4, <2>1, <2>2
  <2> QED BY Zenon, <1>4, <2>2, <2>3 DEF GoodCall
<1>5. ASSUME NEW n \in Peer, NEW q \in Peer, call'[n][q] = Idle
      PROVE  GoodCall(n, q, call[n][q])'
  BY Zenon, <1>5 DEF GoodCall
<1>6. \A req \in late : GoodRequest(req)'
  BY Zenon, <1>1 DEF TypeOK, LateGood
<1>7. ASSUME NEW n \in Peer, NEW q \in Peer, call[n][q] # Idle, NEW req \in {call[n][q].req}
      PROVE  GoodRequest(req)'
  <2>1. req \in Request /\ GoodRequest(req)
    BY SMTT(60), <1>2, <1>7 DEF CallGood, GoodCall
  <2> QED BY Zenon, <1>1, <2>1
<1>8. ASSUME NEW n \in Peer, NEW q \in Peer, NEW p \in Peer
      PROVE  /\ savedInfo[n][q][p] <= info'[q][p]
             /\ savedRow[n][q][p] <= (IF p \in known'[q] THEN rows'[q][p].ver ELSE NotSaved)
  <2>1. savedInfo[n][q][p] \in Nat /\ savedRow[n][q][p] \in Nat \cup {NotSaved}
    BY DEF TypeOK
  <2> QED BY ZenonT(60), <2>1, SavedStable DEF SavedSound
<1>9. published' = published => PublishedOnce'
  <2> SUFFICES ASSUME published' = published, NEW t \in published, NEW u \in published
               PROVE  /\ t[2] <= rows'[t[1]][t[1]].ver
                      /\ t[1] = u[1] /\ t[2] = u[2] => t[3] = u[3]
    BY Zenon DEF PublishedOnce
  <2>1. t[1] \in Peer /\ t[2] \in Nat
    BY Zenon DEF TypeOK
  <2>2. rows[t[1]][t[1]].ver \in Nat /\ rows'[t[1]][t[1]].ver \in Nat
    BY SMTT(60), <2>1 DEF TypeOK, Row
  <2> QED BY <2>1, <2>2 DEF PublishedOnce, Grow
<1> QED BY Zenon, <1>4, <1>5, <1>6, <1>7, <1>8, <1>9

(* After a request has been handled, both sides have what is in it.        *)
LEMMA ReceiveSaved ==
    ASSUME FaithInv, TypeOK', NEW req \in Request, GoodRequest(req), Receive(req)
    PROVE  SavedSound'
<1>1. Grow /\ HasBitmap(req.to, req.bitmap)' /\ HasInfos(req.to, req.infos)'
  BY Zenon, ReceiveGood
<1>2. GoodRequest(req)'
  BY Zenon, <1>1, RequestStable DEF FaithInv
<1> SUFFICES ASSUME NEW n \in Peer, NEW q \in Peer, NEW p \in Peer
             PROVE  /\ savedInfo'[n][q][p] <= info'[q][p]
                    /\ savedRow'[n][q][p]
                            <= (IF p \in known'[q] THEN rows'[q][p].ver ELSE NotSaved)
  BY Zenon DEF SavedSound
<1>3. /\ savedInfo[n][q][p] <= info'[q][p]
      /\ savedRow[n][q][p] <= (IF p \in known'[q] THEN rows'[q][p].ver ELSE NotSaved)
  BY Zenon, <1>1, SessionsKeep
<1>t. /\ savedInfo \in [Peer -> [Peer -> [Peer -> Nat]]]
      /\ savedRow \in [Peer -> [Peer -> [Peer -> Nat \cup {NotSaved}]]]
  BY Zenon DEF FaithInv, TypeOK
<1>r. /\ savedInfo' = [savedInfo EXCEPT ![req.to][req.from] = SaveInfos(@, req)]
      /\ savedRow' = [savedRow EXCEPT ![req.to][req.from] = SaveRows(@, req)]
  BY Zenon DEF Receive
<1>4. CASE n = req.to /\ q = req.from
  <2>1. /\ savedInfo'[n][q] = SaveInfos(savedInfo[n][q], req)
        /\ savedRow'[n][q] = SaveRows(savedRow[n][q], req)
    BY Zenon, <1>4, <1>t, <1>r
  <2>2. /\ savedInfo[n][q] \in [Peer -> Nat]
        /\ savedRow[n][q] \in [Peer -> Nat \cup {NotSaved}]
        /\ info'[q][p] \in Nat /\ rows'[q][p].ver \in Nat
    BY SMTT(60) DEF FaithInv, TypeOK, Row
  <2>3. /\ req.infos[p] <= info'[q][p]
        /\ p \in req.bitmap.ids => p \in known'[q] /\ req.bitmap.row[p].ver <= rows'[q][p].ver
    BY Zenon, <1>2, <1>4 DEF GoodRequest, HasBitmap, HasInfos
  <2> DEFINE v == IF p \in known'[q] THEN rows'[q][p].ver ELSE NotSaved
  <2>4. v \in Nat \cup {NotSaved} /\ (p \in req.bitmap.ids => req.bitmap.row[p].ver <= v)
    BY Zenon, <2>2, <2>3
  <2> HIDE DEF v
  <2>5. SaveInfos(savedInfo[n][q], req)[p] <= info'[q][p] /\ SaveRows(savedRow[n][q], req)[p] <= v
    <3>1. savedInfo[n][q][p] <= info'[q][p] /\ savedRow[n][q][p] <= v
      BY Zenon, <1>3 DEF v
    <3> QED BY ZenonT(60), <2>2, <2>3, <2>4, <3>1, SaveSound
  <2> QED BY Zenon, <2>1, <2>5 DEF v
<1>5. CASE ~(n = req.to /\ q = req.from)
  <2>1. savedInfo'[n][q] = savedInfo[n][q] /\ savedRow'[n][q] = savedRow[n][q]
    BY Zenon, <1>5, <1>t, <1>r
  <2> QED BY Zenon, <1>3, <2>1
<1> QED BY Zenon, <1>4, <1>5

(* The request a session builds holds only what its node has.              *)
LEMMA BuildGood ==
    ASSUME FaithInv, NEW n \in Peer, NEW q \in Peer
    PROVE  GoodRequest(BuildSyncRequest(n, q))
<1> DEFINE req == BuildSyncRequest(n, q)
<1>1. req.from = n /\ req.infos = BuildRouteInfo(n, q) /\ req.bitmap = BuildConnBitmap(n, q)
  BY Zenon DEF BuildSyncRequest
<1>2. HasInfos(n, BuildRouteInfo(n, q))
  <2> SUFFICES ASSUME NEW p \in Peer PROVE BuildRouteInfo(n, q)[p] <= info[n][p]
    BY Zenon DEF HasInfos
  <2>1. info[n][p] \in Nat
    BY DEF FaithInv, TypeOK
  <2>2. BuildRouteInfo(n, q)[p] \in {info[n][p], 0}
    BY Zenon DEF BuildRouteInfo
  <2> QED BY <2>1, <2>2
<1>3. BuildConnBitmap(n, q) \in {cache[n], NoBitmap}
  BY Zenon DEF BuildConnBitmap
<1>4. CompleteBitmap(NoBitmap) /\ HasBitmap(n, NoBitmap)
  BY Zenon DEF CompleteBitmap, HasBitmap, NoBitmap
<1>5. CompleteBitmap(cache[n]) /\ HasBitmap(n, cache[n])
  BY Zenon DEF FaithInv, CacheGood
<1>6. CompleteBitmap(BuildConnBitmap(n, q)) /\ HasBitmap(n, BuildConnBitmap(n, q))
  BY Zenon, <1>3, <1>4, <1>5
<1> QED BY Zenon, <1>1, <1>2, <1>6 DEF GoodRequest

(* A call nobody waits for leaves a good request behind.                   *)
LEMMA AbandonedGood ==
    ASSUME FaithInv, TypeOK', Grow, NEW n \in Peer, NEW q \in Peer,
           late' = Abandoned(call[n][q])
    PROVE  LateGood'
<1>1. \A req \in late' : req \in late \/ (call[n][q] # Idle /\ req = call[n][q].req)
  BY Zenon DEF Abandoned
<1>2. ASSUME NEW req \in late' PROVE GoodRequest(req)'
  BY Zenon, <1>1, <1>2, SessionsKeep
<1> QED BY Zenon, <1>2 DEF LateGood

LEMMA FaithStep == FaithInv /\ [RunNext]_vars => FaithInv' /\ Grow
<1> SUFFICES ASSUME FaithInv, [RunNext]_vars PROVE FaithInv' /\ Grow
  OBVIOUS
<1> DEFINE Nodes == Grow /\ RowsAsPublished' /\ KnownClosed' /\ CacheGood'
           Sessions == LateGood' /\ CallGood' /\ SavedSound' /\ PublishedOnce'
<1>t. TypeOK'
  BY Zenon, TypeStep DEF FaithInv, Next
<1>s. ASSUME Nodes, UNCHANGED sessVars PROVE LateGood' /\ CallGood' /\ SavedSound'
  <2>1. savedInfo' = savedInfo /\ savedRow' = savedRow /\ call' = call /\ late' = late
    BY Zenon, <1>s DEF sessVars
  <2>2. LateGood'
    BY Zenon, <1>s, <1>t, <2>1, SessionsKeep DEF LateGood
  <2>3. CallGood'
    BY Zenon, <1>s, <1>t, <2>1, SessionsKeep DEF CallGood
  <2>4. SavedSound'
    BY Zenon, <1>s, <1>t, <2>1, SessionsKeep DEF SavedSound
  <2> QED BY Zenon, <2>2, <2>3, <2>4
<1>1. ASSUME NEW n \in Peer, UpdateMyPeerInfo(n) PROVE Nodes /\ Sessions
  <2> DEFINE inf == [info[n] EXCEPT ![n] = info[n][n] + 1]
  <2>1. /\ info[n] \in [Peer -> Nat] /\ known[n] \in SUBSET Peer /\ rows[n] \in [Peer -> Row]
        /\ \A p \in Peer : info[n][p] \in Nat /\ rows[n][p].ver \in Nat
    BY DEF FaithInv, TypeOK, Row
  <2>2. inf \in [Peer -> Nat] /\ \A p \in Peer : inf[p] >= info[n][p]
    BY <2>1
  <2>3. Store(n, inf, known[n], rows[n]) /\ published' = published /\ UNCHANGED sessVars
    BY Zenon, <1>1 DEF UpdateMyPeerInfo
  <2>4. \A p \in Peer :
            /\ rows[n][p].ver >= rows[n][p].ver /\ rows[n][p].peers \subseteq known[n]
            /\ rows[n][p].ver > 0 => <<p, rows[n][p].ver, rows[n][p].peers>> \in published'
    BY SMTT(60), <2>1, <2>3 DEF FaithInv, RowsAsPublished, KnownClosed
  <2> HIDE DEF inf
  <2>5. Nodes
    BY Zenon, <1>t, <2>1, <2>2, <2>3, <2>4, StoreGood
  <2>6. PublishedOnce'
    BY Zenon, <1>t, <2>3, <2>5, SessionsKeep
  <2> QED BY Zenon, <1>s, <2>3, <2>5, <2>6
<1>2. ASSUME NEW n \in Peer, UpdateMyConnInfo(n) PROVE Nodes /\ Sessions
  <2> DEFINE new == [ver |-> rows[n][n].ver + 1, peers |-> Linked(n)]
             kn == known[n] \cup Linked(n) \cup {n}
             row == [rows[n] EXCEPT ![n] = new]
  <2>1. /\ info[n] \in [Peer -> Nat] /\ known[n] \in SUBSET Peer /\ rows[n] \in [Peer -> Row]
        /\ \A p \in Peer : info[n][p] \in Nat /\ rows[n][p].ver \in Nat
    BY DEF FaithInv, TypeOK, Row
  <2>2. Linked(n) \subseteq Peer
    BY Zenon DEF Linked
  <2>3. new \in Row /\ new.ver = rows[n][n].ver + 1 /\ new.peers = Linked(n)
    BY <2>1, <2>2 DEF Row
  <2>4. /\ Store(n, info[n], kn, row) /\ UNCHANGED sessVars
        /\ published' = published \cup {<<n, new.ver, new.peers>>}
    BY Zenon, <1>2 DEF UpdateMyConnInfo
  <2> HIDE DEF new
  <2>5. kn \in SUBSET Peer /\ row \in [Peer -> Row] /\ known[n] \subseteq kn
    BY Zenon, <2>1, <2>2, <2>3
  <2>6. ASSUME NEW p \in Peer
        PROVE  /\ info[n][p] >= info[n][p] /\ row[p].ver >= rows[n][p].ver
               /\ row[p].peers \subseteq kn
               /\ row[p].ver > 0 => <<p, row[p].ver, row[p].peers>> \in published'
    <3>1. CASE p = n
      BY SMTT(60), <2>1, <2>3, <2>4, <3>1
    <3>2. CASE p # n
      BY SMTT(60), <2>1, <2>4, <3>2 DEF FaithInv, RowsAsPublished, KnownClosed
    <3> QED BY Zenon, <3>1, <3>2
  <2>7. \A p \in Peer : rows'[n][p] = row[p]
    BY Zenon, <2>4 DEF Store, FaithInv, TypeOK
  <2>8. rows'[n][n].ver = rows[n][n].ver + 1
    BY Zenon, <2>1, <2>3, <2>7
  <2> HIDE DEF row, kn
  <2>9. Nodes
    BY SMTT(60), <1>t, <2>1, <2>4, <2>5, <2>6, StoreGood
  <2>10. PublishedOnce'
    <3> SUFFICES ASSUME NEW t \in published', NEW u \in published'
                 PROVE  /\ t[2] <= rows'[t[1]][t[1]].ver
                        /\ t[1] = u[1] /\ t[2] = u[2] => t[3] = u[3]
      BY Zenon DEF PublishedOnce
    <3>1. \A v \in published :
             /\ v[1] \in Peer /\ v[2] \in Nat /\ rows[v[1]][v[1]].ver \in Nat
             /\ rows'[v[1]][v[1]].ver \in Nat /\ v[2] <= rows[v[1]][v[1]].ver
             /\ rows'[v[1]][v[1]].ver >= rows[v[1]][v[1]].ver
      <4> SUFFICES ASSUME NEW v \in published
                   PROVE /\ v[1] \in Peer /\ v[2] \in Nat /\ rows[v[1]][v[1]].ver \in Nat
                         /\ rows'[v[1]][v[1]].ver \in Nat /\ v[2] <= rows[v[1]][v[1]].ver
                         /\ rows'[v[1]][v[1]].ver >= rows[v[1]][v[1]].ver
        BY Zenon
      <4>1. v[1] \in Peer /\ v[2] \in Nat
        BY Zenon DEF FaithInv, TypeOK
      <4>2. rows[v[1]][v[1]].ver \in Nat /\ rows'[v[1]][v[1]].ver \in Nat
        BY SMTT(60), <1>t, <4>1 DEF FaithInv, TypeOK, Row
      <4> QED BY Zenon, <2>9, <4>1, <4>2 DEF FaithInv, PublishedOnce, Grow
    <3>2. \A v \in published : v[1] = n => v[2] < new.ver
      BY <2>1, <2>3, <3>1
    <3>3. \A v \in published' :
             v \in published \/ (v[1] = n /\ v[2] = new.ver /\ v[3] = new.peers)
      BY SMTT(60), <2>4
    <3>4. t[2] <= rows'[t[1]][t[1]].ver
      BY SMTT(60), <2>1, <2>3, <2>8, <3>1, <3>3
    <3>5. t[1] = u[1] /\ t[2] = u[2] => t[3] = u[3]
      <4>1. CASE t \in published /\ u \in published
        BY Zenon, <4>1 DEF FaithInv, PublishedOnce
      <4>2. CASE t \notin published /\ u \notin published
        BY SMTT(60), <3>3, <4>2
      <4>3. CASE t \in published /\ u \notin published
        BY SMTT(60), <2>1, <2>3, <3>1, <3>2, <3>3, <4>3
      <4>4. CASE t \notin published /\ u \in published
        BY SMTT(60), <2>1, <2>3, <3>1, <3>2, <3>3, <4>4
      <4> QED BY Zenon, <4>1, <4>2, <4>3, <4>4
    <3> QED BY Zenon, <3>4, <3>5
  <2> QED BY Zenon, <1>s, <2>4, <2>9, <2>10
<1>3. ASSUME NEW n \in Peer, NEW q \in Peer, Send(n, q) PROVE Nodes /\ Sessions
  <2> DEFINE req == BuildSyncRequest(n, q)
             c == [st |-> "sent", req |-> req]
  <2>1. /\ UNCHANGED nodeVars /\ call' = [call EXCEPT ![n][q] = c]
        /\ late' = late /\ savedInfo' = savedInfo /\ savedRow' = savedRow
    BY Zenon, <1>3 DEF Send
  <2>2. Nodes /\ published' = published
    BY Zenon, <2>1, NodesKeep
  <2>3. LateGood' /\ SavedSound' /\ PublishedOnce'
    BY Zenon, <1>t, <2>1, <2>2, SessionsKeep DEF LateGood, SavedSound
  <2>4. req \in Request /\ req.from = n /\ req.to = q /\ GoodRequest(req)
    BY Zenon, BuildType, BuildGood DEF FaithInv, BuildSyncRequest
  <2> HIDE DEF req
  <2>5. GoodRequest(req)'
    <3>1. \A r \in Request : GoodRequest(r) => GoodRequest(r)'
      BY Zenon, <1>t, <2>2, RequestStable DEF FaithInv
    <3>2. PICK r \in Request : r = req
      BY Zenon, <2>4
    <3>3. req' = req
      <4>1. /\ info' = info /\ reach' = reach /\ cache' = cache
            /\ savedInfo' = savedInfo /\ savedRow' = savedRow
        BY Zenon, <2>1 DEF nodeVars
      <4> QED BY Zenon, <4>1 DEF req, BuildSyncRequest, BuildRouteInfo, BuildConnBitmap
    <3>4. GoodRequest(r)'
      BY Zenon, <2>4, <3>1, <3>2
    <3> QED BY Zenon, <3>2, <3>3, <3>4 DEF GoodRequest, CompleteBitmap, HasBitmap, HasInfos
  <2>6. ASSUME NEW m \in Peer, NEW k \in Peer PROVE GoodCall(m, k, call[m][k])'
    <3>1. CASE m = n /\ k = q
      <4>1. call'[m][k] = c
        BY Zenon, <2>1, <3>1 DEF FaithInv, TypeOK
      <4>2. c.st = "sent" /\ c.req = req
        BY Zenon
      <4>3. req' = req
        <5>1. /\ info' = info /\ reach' = reach /\ cache' = cache
              /\ savedInfo' = savedInfo /\ savedRow' = savedRow
          BY Zenon, <2>1 DEF nodeVars
        <5> QED BY Zenon, <5>1 DEF req, BuildSyncRequest, BuildRouteInfo, BuildConnBitmap
      <4> QED BY SMTT(60), <2>4, <2>5, <3>1, <4>1, <4>2, <4>3
              DEF GoodCall, GoodRequest, CompleteBitmap, HasBitmap, HasInfos
    <3>2. CASE ~(m = n /\ k = q)
      <4>1. call'[m][k] = call[m][k]
        BY Zenon, <2>1, <3>2 DEF FaithInv, TypeOK
      <4> QED BY Zenon, <1>t, <2>2, <4>1, SessionsKeep
    <3> QED BY Zenon, <3>1, <3>2
  <2> QED BY Zenon, <2>2, <2>3, <2>6 DEF CallGood
<1>4. ASSUME NEW n \in Peer, NEW q \in Peer, Handle(n, q) PROVE Nodes /\ Sessions
  <2>1. /\ call[n][q] # Idle /\ call[n][q].st = "sent" /\ Receive(call[n][q].req)
        /\ call' = [call EXCEPT ![n][q].st = "answered"] /\ late' = late
    BY Zenon, <1>4 DEF Handle
  <2>2. PICK req \in Request : req = call[n][q].req
    BY SMTT(60), <2>1 DEF FaithInv, TypeOK, Call
  <2>3. GoodRequest(req) /\ req.from = n /\ req.to = q
    BY Zenon, <2>1, <2>2 DEF FaithInv, CallGood, GoodCall
  <2>4. Receive(req)
    BY Zenon, <2>1, <2>2
  <2>5. Nodes /\ HasBitmap(q, req.bitmap)' /\ HasInfos(q, req.infos)'
    BY Zenon, <1>t, <2>3, <2>4, ReceiveGood
  <2>6. SavedSound'
    BY Zenon, <1>t, <2>3, <2>4, ReceiveSaved
  <2>7. LateGood' /\ PublishedOnce'
    BY ZenonT(60), <1>t, <2>1, <2>4, <2>5, SessionsKeep DEF LateGood, Receive
  <2>8. GoodRequest(req)'
    BY Zenon, <1>t, <2>3, <2>5, RequestStable DEF FaithInv
  <2>9. ASSUME NEW m \in Peer, NEW k \in Peer PROVE GoodCall(m, k, call[m][k])'
    <3>1. CASE m = n /\ k = q
      <4>1. call'[m][k] = [call[n][q] EXCEPT !.st = "answered"]
        BY ZenonT(60), <2>1, <3>1 DEF FaithInv, TypeOK
      <4>2. call[n][q] \in [st : {"sent", "answered"}, req : Request]
        BY <2>1 DEF FaithInv, TypeOK, Call
      <4>3. call'[m][k].req = req
        BY Zenon, <2>2, <4>1, <4>2
      <4> QED BY SMTT(60), <2>3, <2>5, <2>8, <3>1, <4>3
              DEF GoodCall, GoodRequest, CompleteBitmap, HasBitmap, HasInfos
    <3>2. CASE ~(m = n /\ k = q)
      <4>1. call'[m][k] = call[m][k]
        BY Zenon, <2>1, <3>2 DEF FaithInv, TypeOK
      <4> QED BY Zenon, <1>t, <2>5, <4>1, SessionsKeep
    <3> QED BY Zenon, <3>1, <3>2
  <2> QED BY Zenon, <2>5, <2>6, <2>7, <2>9 DEF CallGood
<1>5. ASSUME NEW n \in Peer, NEW q \in Peer, Response(n, q) PROVE Nodes /\ Sessions
  <2>1. /\ call[n][q] # Idle /\ call[n][q].st = "answered" /\ late' = late
        /\ savedInfo' = [savedInfo EXCEPT ![n][q] = SaveInfos(savedInfo[n][q], call[n][q].req)]
        /\ savedRow' = [savedRow EXCEPT ![n][q] = SaveRows(savedRow[n][q], call[n][q].req)]
        /\ call' = [call EXCEPT ![n][q] = Idle] /\ UNCHANGED nodeVars
    BY Zenon, <1>5 DEF Response, FaithInv, TypeOK
  <2>2. PICK req \in Request : req = call[n][q].req
    BY <2>1 DEF FaithInv, TypeOK, Call
  <2>3. HasBitmap(q, req.bitmap) /\ HasInfos(q, req.infos)
    BY Zenon, <2>1, <2>2 DEF FaithInv, CallGood, GoodCall
  <2>4. Nodes /\ published' = published
    BY Zenon, <2>1, NodesKeep
  <2>5. LateGood' /\ PublishedOnce'
    BY Zenon, <1>t, <2>1, <2>4, SessionsKeep DEF LateGood
  <2>6. CallGood'
    <3>1. \A m, k \in Peer : call'[m][k] = call[m][k] \/ call'[m][k] = Idle
      BY Zenon, <2>1 DEF FaithInv, TypeOK
    <3> QED BY Zenon, <1>t, <2>4, <3>1, SessionsKeep DEF CallGood
  <2>7. SavedSound'
    <3> SUFFICES ASSUME NEW m \in Peer, NEW k \in Peer, NEW p \in Peer
                 PROVE  /\ savedInfo'[m][k][p] <= info'[k][p]
                        /\ savedRow'[m][k][p]
                                <= (IF p \in known'[k] THEN rows'[k][p].ver ELSE NotSaved)
      BY Zenon DEF SavedSound
    <3>1. info' = info /\ known' = known /\ rows' = rows
      BY Zenon, <2>1 DEF nodeVars
    <3>2. /\ savedInfo[m][k][p] <= info[k][p]
          /\ savedRow[m][k][p] <= (IF p \in known[k] THEN rows[k][p].ver ELSE NotSaved)
      BY Zenon DEF FaithInv, SavedSound
    <3>3. CASE m = n /\ k = q
      <4> DEFINE v == IF p \in known[q] THEN rows[q][p].ver ELSE NotSaved
      <4>1. /\ savedInfo[n][q] \in [Peer -> Nat]
            /\ savedRow[n][q] \in [Peer -> Nat \cup {NotSaved}]
            /\ info[q][p] \in Nat /\ v \in Nat \cup {NotSaved}
        BY SMTT(60) DEF FaithInv, TypeOK, Row
      <4>2. /\ savedInfo[n][q][p] <= info[q][p] /\ savedRow[n][q][p] <= v
            /\ req.infos[p] <= info[q][p]
            /\ p \in req.bitmap.ids => req.bitmap.row[p].ver <= v
        BY Zenon, <2>3, <3>2, <3>3 DEF HasBitmap, HasInfos
      <4> HIDE DEF v
      <4>3. /\ SaveInfos(savedInfo[n][q], req)[p] <= info[q][p]
            /\ SaveRows(savedRow[n][q], req)[p] <= v
        BY Zenon, <4>1, <4>2, SaveSound
      <4>4. /\ savedInfo'[m][k] = SaveInfos(savedInfo[n][q], req)
            /\ savedRow'[m][k] = SaveRows(savedRow[n][q], req)
        BY Zenon, <2>1, <2>2, <3>3 DEF FaithInv, TypeOK
      <4> QED BY Zenon, <3>1, <3>3, <4>3, <4>4 DEF v
    <3>4. CASE ~(m = n /\ k = q)
      <4>1. savedInfo'[m][k] = savedInfo[m][k] /\ savedRow'[m][k] = savedRow[m][k]
        BY Zenon, <2>1, <3>4 DEF FaithInv, TypeOK
      <4> QED BY Zenon, <3>1, <3>2, <4>1
    <3> QED BY Zenon, <3>3, <3>4
  <2> QED BY Zenon, <2>4, <2>5, <2>6, <2>7
<1>6. ASSUME NEW n \in Peer, NEW q \in Peer, Timeout(n, q) PROVE Nodes /\ Sessions
  <2>1. /\ UNCHANGED nodeVars /\ call' = [call EXCEPT ![n][q] = Idle]
        /\ late' = Abandoned(call[n][q]) /\ savedInfo' = savedInfo /\ savedRow' = savedRow
    BY Zenon, <1>6 DEF Timeout
  <2>2. Nodes /\ published' = published
    BY Zenon, <2>1, NodesKeep
  <2>3. \A m, k \in Peer : call'[m][k] = call[m][k] \/ call'[m][k] = Idle
    BY Zenon, <2>1 DEF FaithInv, TypeOK
  <2>4. CallGood' /\ PublishedOnce' /\ SavedSound'
    BY Zenon, <1>t, <2>1, <2>2, <2>3, SessionsKeep DEF CallGood, SavedSound
  <2> QED BY Zenon, <1>t, <2>1, <2>2, <2>4, AbandonedGood
<1>7. ASSUME NEW n \in Peer, NEW q \in Peer, DropSession(n, q) PROVE Nodes /\ Sessions
  <2>1. /\ UNCHANGED nodeVars /\ call' = [call EXCEPT ![n][q] = Idle]
        /\ late' = Abandoned(call[n][q])
        /\ savedInfo' = [savedInfo EXCEPT ![n][q] = [p \in Peer |-> 0]]
        /\ savedRow' = [savedRow EXCEPT ![n][q] = [p \in Peer |-> NotSaved]]
    BY Zenon, <1>7 DEF DropSession
  <2>2. Nodes /\ published' = published
    BY Zenon, <2>1, NodesKeep
  <2>3. \A m, k \in Peer : call'[m][k] = call[m][k] \/ call'[m][k] = Idle
    BY Zenon, <2>1 DEF FaithInv, TypeOK
  <2>4. CallGood' /\ PublishedOnce'
    BY Zenon, <1>t, <2>2, <2>3, SessionsKeep DEF CallGood
  <2>5. SavedSound'
    <3> SUFFICES ASSUME NEW m \in Peer, NEW k \in Peer, NEW p \in Peer
                 PROVE  /\ savedInfo'[m][k][p] <= info'[k][p]
                        /\ savedRow'[m][k][p]
                                <= (IF p \in known'[k] THEN rows'[k][p].ver ELSE NotSaved)
      BY Zenon DEF SavedSound
    <3>1. /\ savedInfo[m][k][p] <= info'[k][p]
          /\ savedRow[m][k][p] <= (IF p \in known'[k] THEN rows'[k][p].ver ELSE NotSaved)
      BY Zenon, <1>t, <2>2, SessionsKeep
    <3>2. info'[k][p] \in Nat /\ rows'[k][p].ver \in Nat
      BY SMTT(60), <1>t DEF TypeOK, Row
    <3>3. CASE m = n /\ k = q
      <4>1. savedInfo'[m][k] = [x \in Peer |-> 0] /\ savedRow'[m][k] = [x \in Peer |-> NotSaved]
        BY Zenon, <2>1, <3>3 DEF FaithInv, TypeOK
      <4> QED BY SMTT(60), <3>2, <4>1 DEF NotSaved
    <3>4. CASE ~(m = n /\ k = q)
      <4>1. savedInfo'[m][k] = savedInfo[m][k] /\ savedRow'[m][k] = savedRow[m][k]
        BY Zenon, <2>1, <3>4 DEF FaithInv, TypeOK
      <4> QED BY Zenon, <3>1, <4>1
    <3> QED BY Zenon, <3>3, <3>4
  <2> QED BY Zenon, <1>t, <2>1, <2>2, <2>4, <2>5, AbandonedGood
<1>8. ASSUME NEW req \in late, HandleLate(req) PROVE Nodes /\ Sessions
  <2>1. Receive(req) /\ late' = late \ {req} /\ call' = call
    BY Zenon, <1>8 DEF HandleLate
  <2>2. req \in Request /\ GoodRequest(req)
    BY Zenon DEF FaithInv, TypeOK, LateGood
  <2>3. Nodes
    BY Zenon, <1>t, <2>1, <2>2, ReceiveGood
  <2>4. SavedSound'
    BY Zenon, <1>t, <2>1, <2>2, ReceiveSaved
  <2>5. CallGood' /\ LateGood' /\ PublishedOnce'
    BY Zenon, <1>t, <2>1, <2>3, SessionsKeep DEF CallGood, LateGood, Receive
  <2> QED BY Zenon, <2>3, <2>4, <2>5
<1>9. ASSUME NEW e \in Pair, LinkChange(e) PROVE Nodes /\ Sessions
  <2>1. UNCHANGED nodeVars /\ UNCHANGED sessVars
    BY Zenon, <1>9 DEF LinkChange
  <2>2. Nodes /\ published' = published
    BY Zenon, <2>1, NodesKeep
  <2>3. PublishedOnce'
    BY Zenon, <1>t, <2>2, SessionsKeep
  <2> QED BY Zenon, <1>s, <2>1, <2>2, <2>3
<1>10. CASE UNCHANGED vars
  <2>1. UNCHANGED nodeVars /\ UNCHANGED sessVars
    BY Zenon, <1>10 DEF vars
  <2>2. Nodes /\ published' = published
    BY Zenon, <2>1, NodesKeep
  <2>3. PublishedOnce'
    BY Zenon, <1>t, <2>2, SessionsKeep
  <2>4. Nodes /\ Sessions
    BY Zenon, <1>s, <2>1, <2>2, <2>3
  <2> QED BY Zenon, <1>t, <2>4 DEF FaithInv
<1>11. CASE RunNext
  <2>1. Nodes /\ Sessions
    BY Zenon, <1>1, <1>2, <1>3, <1>4, <1>5, <1>6, <1>7, <1>8, <1>9, <1>11 DEF RunNext, Task
  <2> QED BY Zenon, <1>t, <2>1 DEF FaithInv
<1> QED BY Zenon, <1>10, <1>11

LEMMA FaithAlways == RunSpec => []FaithInv
<1>1. FaithInv /\ [RunNext]_vars => FaithInv'
  BY Zenon, FaithStep
<1> QED BY FaithInit, <1>1, PTL DEF RunSpec

(* While nothing expires, a row stored anywhere under a version is the row *)
(* its owner published under it, whatever bitmaps, late requests and       *)
(* abandoned calls carried it (update_conn_map, the cached bitmap).        *)
THEOREM RowsFaithful == RunSpec => []RowsAsPublished
<1>1. FaithInv => RowsAsPublished
  BY Zenon DEF FaithInv
<1> QED BY FaithAlways, <1>1, PTL

(* While nothing expires, the bitmap a node sends lists all the connected  *)
(* peers of every node in it (comment at peer_ospf_route.rs:1452).         *)
THEOREM BitmapFaithful == RunSpec => []BitmapComplete
<1>1. FaithInv => BitmapComplete
  BY Zenon DEF FaithInv, CacheGood, CompleteBitmap, BitmapComplete
<1> QED BY FaithAlways, <1>1, PTL

(* While nothing expires, a session never skips an info or a row the other *)
(* side lacks: dst_saved_* versions are never ahead of the other side.     *)
THEOREM SavedFaithful == RunSpec => []SavedSound
<1>1. FaithInv => SavedSound
  BY Zenon DEF FaithInv
<1> QED BY FaithAlways, <1>1, PTL

(* While nothing expires, no stored version goes back.                     *)
THEOREM VersionsOnlyGrow == RunSpec => VersionsGrow
<1> DEFINE Newer == \A n, p \in Peer :
                info'[n][p] >= info[n][p] /\ rows'[n][p].ver >= rows[n][p].ver
<1>1. FaithInv /\ [RunNext]_vars => [Newer]_vars
  BY Zenon, FaithStep DEF Grow
<1> QED BY FaithAlways, <1>1, PTL DEF RunSpec, VersionsGrow

(* Two nodes that hold the same version of a peer's row hold the same row: *)
(* a version identifies its content (update_my_conn_info increments it     *)
(* with every change), so comparing versions is enough.                    *)
RowsAgree ==
    \A n, m, p \in Peer :
        rows[n][p].ver > 0 /\ rows[n][p].ver = rows[m][p].ver => rows[n][p] = rows[m][p]

THEOREM VersionIdentifiesRow == RunSpec => []RowsAgree
<1>1. FaithInv => RowsAgree
  <2> SUFFICES ASSUME FaithInv, NEW n \in Peer, NEW m \in Peer, NEW p \in Peer,
                      rows[n][p].ver > 0, rows[n][p].ver = rows[m][p].ver
               PROVE  rows[n][p] = rows[m][p]
    BY Zenon DEF RowsAgree
  <2>1. rows[n][p] \in Row /\ rows[m][p] \in Row
    BY SMTT(60) DEF FaithInv, TypeOK
  <2>2. PICK t \in published : t = <<p, rows[n][p].ver, rows[n][p].peers>>
    BY ZenonT(60) DEF FaithInv, RowsAsPublished
  <2>3. PICK u \in published : u = <<p, rows[m][p].ver, rows[m][p].peers>>
    BY ZenonT(60) DEF FaithInv, RowsAsPublished
  <2>4. t[1] = u[1] /\ t[2] = u[2] => t[3] = u[3]
    BY Zenon DEF FaithInv, PublishedOnce
  <2>5. rows[n][p].peers = rows[m][p].peers
    BY Zenon, <2>2, <2>3, <2>4
  <2> QED BY SMTT(60), <2>1, <2>5 DEF Row
<1> QED BY FaithAlways, <1>1, PTL
=============================================================================
