---------------------------- MODULE Shared_proofs ----------------------------
(***************************************************************************)
(* What nodes keep in common: who serves a foreign network (ForeignInfo),  *)
(* the registry of networks (Registry) and a process that uses it          *)
(* (ExitNodes).                                                            *)
(*                                                                         *)
(* Nodes that have the same version of an entry have the same entry, for   *)
(* any nodes, links, intervals and losses; behind it is that a version is  *)
(* never given twice, and that nobody is thought to have what it had not.  *)
(* The tables of the registry and the vectors that list their keys agree   *)
(* after any sequence of transactions, for any names, senders and peers.   *)
(* A process that has ended leaves no exit node of its own behind, for any *)
(* number of instances and networks.                                       *)
(***************************************************************************)
EXTENDS ExitNodes, ForeignInfo, TLAPS

Infos == [ver : Nat, peers : PeerSets, last : Nat]

Phases == [at : {"idle", "clear", "fill", "done"}, todo : SUBSET Servers]
Rebuilds == [Members -> [Members -> Phases]]

RequestTypes ==
    /\ request = [n \in Members |-> [m \in Members |-> request[n][m]]]
    /\ \A n, m \in Members : DOMAIN request[n][m] \subseteq Servers \ {m}
    /\ \A n, m \in Members : \A s \in DOMAIN request[n][m] : request[n][m][s] \in Infos

InfoTypes ==
    /\ clock \in Nat /\ Second < clock
    /\ network \in [Servers -> [peers : PeerSets, changed : Nat]]
    /\ listed \in [Servers -> Nat]
    /\ foreign \in [Members -> [Servers -> Infos]]
    /\ lapsed \in [Members -> [Servers -> Nat]]
    /\ known \in [Members -> [Members -> [Servers -> Nat]]]
    /\ RequestTypes
    /\ rebuild \in Rebuilds
    /\ DOMAIN owners = Members /\ DOMAIN reach = Members

(* The newest version of s that n has had.                                 *)
had == [n \in Members |-> [s \in Servers |-> Larger(foreign[n][s].ver, lapsed[n][s])]]

(* A node has not had what its owner has not, what is believed saved, and  *)
(* what is sent or received, was had; versions are of the last listing.    *)
VersionInv ==
    /\ \A n \in Members, s \in Servers : had[n][s] <= had[s][s]
    /\ \A n, m \in Members, s \in Servers : known[n][m][s] <= had[m][s]
    /\ \A n, m \in Members : \A s \in DOMAIN request[n][m] : request[n][m][s].ver <= had[n][s]
    /\ \A n, m \in Members : \A s \in DOMAIN request[n][m] :
          rebuild[m][n].at # "idle" => request[n][m][s].ver <= had[m][s]
    /\ \A n, m \in Members : n # m /\ rebuild[m][n].at # "idle" => request[n][m] # Nothing
    /\ \A s \in Servers : had[s][s] <= listed[s] \div Second

(* Versions and peers of the entries of s, and that of a missing one.      *)
Said == [s \in Servers |->
            {<<0, {}>>} \cup {<<foreign[n][s].ver, foreign[n][s].peers>> : n \in Members}
                \cup {<<request[p[1]][p[2]][s].ver, request[p[1]][p[2]][s].peers>> :
                         p \in {q \in Members \X Members : s \in DOMAIN request[q[1]][q[2]]}}]

SaidOnce == \A s \in Servers : \A a, b \in Said[s] : a[1] = b[1] => a[2] = b[2]

(* A server that is missing is about to be found.                          *)
OwnersInv ==
    \A n \in Members, s \in Servers : s # n /\ s \in reach[n] /\ foreign[n][s].peers # {} =>
        \/ s \in owners[n]
        \/ \E x \in Members : \/ rebuild[n][x].at = "clear"
                              \/ rebuild[n][x].at = "fill" /\ s \in rebuild[n][x].todo

InfoInv == InfoTypes /\ VersionInv /\ SaidOnce /\ OwnersInv
-----------------------------------------------------------------------------
(* A clock that is a second further is in another second.                  *)
LEMMA SecondsPass ==
    ASSUME NEW S \in Nat \ {0}, NEW l \in Nat, NEW c \in Nat, l + S <= c
    PROVE  l \div S \in Nat /\ c \div S \in Nat /\ l \div S < c \div S
<1> DEFINE q == l \div S
           p == c \div S
<1>1. q \in Nat /\ p \in Nat /\ S * q <= l /\ c < S * (p + 1)
  OBVIOUS
<1> HIDE DEF p, q
<1>2. S * (q + 1) < S * (p + 1)
  BY <1>1
<1>3. q + 1 < p + 1
  <2> SUFFICES ASSUME p <= q PROVE FALSE
    BY <1>1
  <2>1. S * (p + 1) <= S * (q + 1)
    BY <1>1
  <2> QED  BY <1>1, <1>2, <2>1
<1> QED  BY <1>1, <1>3 DEF p, q

(* The larger of two versions is one of them and bounds both.              *)
LEMMA LargerOf ==
    ASSUME NEW i \in Nat, NEW j \in Nat
    PROVE  /\ Larger(i, j) \in Nat /\ i <= Larger(i, j) /\ j <= Larger(i, j)
           /\ \A k \in Nat : Larger(i, j) <= k <=> i <= k /\ j <= k
           /\ Larger(i, j) = i \/ Larger(i, j) = j
BY DEF Larger

(* What a node has had is a version, and not older than what it has.       *)
LEMMA HadTypes ==
    ASSUME InfoTypes
    PROVE  /\ had \in [Members -> [Servers -> Nat]]
           /\ \A n \in Members, s \in Servers :
                 /\ had[n][s] = Larger(foreign[n][s].ver, lapsed[n][s])
                 /\ foreign[n][s].ver \in Nat /\ lapsed[n][s] \in Nat
                 /\ foreign[n][s].ver <= had[n][s] /\ had[n][s] \in Nat
<1>1. \A n \in Members, s \in Servers : foreign[n][s].ver \in Nat /\ lapsed[n][s] \in Nat
  BY DEF InfoTypes, Infos
<1>2. \A n \in Members, s \in Servers : had[n][s] = Larger(foreign[n][s].ver, lapsed[n][s])
  BY Zenon DEF had
<1>3. \A n \in Members, s \in Servers : had[n][s] \in Nat /\ foreign[n][s].ver <= had[n][s]
  BY <1>1, <1>2 DEF Larger
<1>4. had \in [Members -> [Servers -> Nat]]
  BY Zenon, <1>1, LargerOf DEF had
<1> QED  BY Zenon, <1>1, <1>2, <1>3, <1>4

(* An update of a server: as it was, or of a version nobody has had.       *)
LEMMA UpdatedIs ==
    ASSUME InfoTypes, VersionInv, NEW s \in Servers, UpdateMyForeignNetwork(s)
    PROVE  /\ Updated(s) \in Infos
           /\ listed[s] \div Second \in Nat /\ NowVersion \in Nat
           /\ listed[s] \div Second < NowVersion
           /\ Updated(s) = foreign[s][s] \/ Updated(s).ver = NowVersion
<1> USE ForeignInfoAssumption
<1>1. clock' = clock + 1 /\ Due(s) /\ clock \in Nat /\ Second < clock /\ s \in Members
      /\ listed[s] \in Nat /\ Second \in Nat \ {0} /\ Interval \in Nat /\ RenewAfter \in Nat
  BY DEF UpdateMyForeignNetwork, Stamp, InfoTypes
<1>2. listed[s] + Second <= clock'
  BY <1>1 DEF Due
<1>3. listed[s] \div Second \in Nat /\ NowVersion \in Nat /\ listed[s] \div Second < NowVersion
  <2>1. PICK l, c : l = listed[s] /\ c = clock'
    OBVIOUS
  <2>2. l \in Nat /\ c \in Nat /\ l + Second <= c /\ Second \in Nat \ {0}
    BY <1>1, <1>2, <2>1
  <2>3. l \div Second \in Nat /\ c \div Second \in Nat /\ l \div Second < c \div Second
    BY Zenon, <2>2, SecondsPass
  <2> QED  BY Zenon, <2>1, <2>3 DEF NowVersion
<1>4. foreign[s][s] \in Infos /\ network[s] \in [peers : PeerSets, changed : Nat]
      /\ foreign[s][s].ver <= listed[s] \div Second
  <2>1. foreign[s][s] \in Infos /\ network[s] \in [peers : PeerSets, changed : Nat]
    BY <1>1 DEF InfoTypes
  <2>2. foreign[s][s].ver <= had[s][s] /\ had[s][s] \in Nat /\ foreign[s][s].ver \in Nat
    BY Zenon, <1>1, HadTypes
  <2>3. had[s][s] <= listed[s] \div Second
    BY Zenon DEF VersionInv
  <2> QED  BY <1>3, <2>1, <2>2, <2>3
<1> HIDE DEF NowVersion
<1>5. Larger(foreign[s][s].ver + 1, NowVersion) = NowVersion /\ Larger(1, NowVersion) = NowVersion
  BY <1>3, <1>4 DEF Larger, Infos
<1>6. \/ Updated(s) = foreign[s][s]
      \/ Updated(s) = [ver |-> NowVersion, peers |-> {}, last |-> clock']
      \/ Updated(s) = [ver |-> NowVersion, peers |-> network[s].peers, last |-> network[s].changed]
  BY Zenon, <1>5 DEF Updated
<1>7. CASE Updated(s) = foreign[s][s]
  BY Zenon, <1>3, <1>4, <1>7
<1>8. CASE Updated(s) = [ver |-> NowVersion, peers |-> {}, last |-> clock']
  BY <1>1, <1>3, <1>8 DEF Infos
<1>9. CASE Updated(s) = [ver |-> NowVersion, peers |-> network[s].peers, last |-> network[s].changed]
  BY <1>3, <1>4, <1>9 DEF Infos
<1> QED  BY Zenon, <1>6, <1>7, <1>8, <1>9

-----------------------------------------------------------------------------
(* A call that changes, or none.                                           *)
LEMMA RequestsStep ==
    ASSUME RequestTypes,
           \/ UNCHANGED request
           \/ \E n, m \in Members : \E c :
                 /\ DOMAIN c \subseteq Servers \ {m} /\ \A s \in DOMAIN c : c[s] \in Infos
                 /\ request' = [request EXCEPT ![n][m] = c]
    PROVE  RequestTypes'
<1>1. CASE UNCHANGED request
  <2>1. request' = request
    BY Zenon, <1>1
  <2> QED  BY <2>1 DEF RequestTypes
<1>2. ASSUME NEW n \in Members, NEW m \in Members, NEW c,
             DOMAIN c \subseteq Servers \ {m}, \A s \in DOMAIN c : c[s] \in Infos,
             request' = [request EXCEPT ![n][m] = c]
      PROVE  RequestTypes'
  <2>1. \A i, j \in Members : request'[i][j] = IF i = n /\ j = m THEN c ELSE request[i][j]
    BY <1>2 DEF RequestTypes
  <2>2. request' = [i \in Members |-> [j \in Members |-> request'[i][j]]]
    <3>1. DOMAIN request' = Members /\ request' = [i \in Members |-> request'[i]]
      BY Zenon, <1>2 DEF RequestTypes
    <3>2. \A i \in Members : request'[i] = [j \in Members |-> request'[i][j]]
      BY Zenon, <1>2 DEF RequestTypes
    <3> QED  BY <3>1, <3>2
  <2>3. \A i, j \in Members : DOMAIN request'[i][j] \subseteq Servers \ {j}
    BY <1>2, <2>1 DEF RequestTypes
  <2>4. \A i, j \in Members : \A s \in DOMAIN request'[i][j] : request'[i][j][s] \in Infos
    BY <1>2, <2>1 DEF RequestTypes
  <2> QED  BY Zenon, <2>2, <2>3, <2>4 DEF RequestTypes
<1> QED  BY Zenon, <1>1, <1>2

(* One rebuilding of the owners goes on, the others stay.                  *)
LEMMA RebuildsStep ==
    ASSUME rebuild \in Rebuilds, NEW n \in Members, NEW x \in Members, NEW r,
           rebuild' = [rebuild EXCEPT ![n][x] = r], r \in Phases
    PROVE  /\ rebuild' \in Rebuilds
           /\ \A i, j \in Members : rebuild'[i][j] = IF i = n /\ j = x THEN r ELSE rebuild[i][j]
BY Zenon DEF Rebuilds

(* The parts of a phase.                                                   *)
LEMMA PhaseIs ==
    ASSUME NEW at \in {"idle", "clear", "fill", "done"}, NEW S \in SUBSET Servers
    PROVE  Phase(at, S) \in Phases /\ Phase(at, S).at = at /\ Phase(at, S).todo = S
BY Zenon DEF Phase, Phases

(* A rebuilding is in the phase it has gone on to.                         *)
LEMMA RebuildAt ==
    ASSUME rebuild \in Rebuilds, NEW n \in Members, NEW x \in Members,
           NEW at \in {"idle", "clear", "fill", "done"}, NEW S \in SUBSET Servers,
           rebuild' = [rebuild EXCEPT ![n][x] = Phase(at, S)]
    PROVE  rebuild'[n][x].at = at /\ rebuild'[n][x].todo = S
<1>1. PICK r : r = Phase(at, S)
  BY Zenon
<1>2. r \in Phases /\ r.at = at /\ r.todo = S
  BY Zenon, <1>1 DEF Phase, Phases
<1>3. rebuild' = [rebuild EXCEPT ![n][x] = r]
  BY Zenon, <1>1
<1>4. rebuild'[n][x] = r
  BY SMTT(30), <1>2, <1>3 DEF Rebuilds
<1> QED  BY Zenon, <1>2, <1>4

(* Calls go between members.                                               *)
LEMMA PairsAre == \A p \in SyncPairs : p[1] \in Members /\ p[2] \in Members
BY Zenon DEF SyncPairs

(* The types are inductive: one step per action.                           *)
LEMMA InfoTypesStep ==
    ASSUME InfoTypes, VersionInv, [InfoNext]_infoVars
    PROVE  InfoTypes'
<1> USE ForeignInfoAssumption
<1>0. NoInfo \in Infos /\ DOMAIN Nothing = {} /\ Resting \in Phases
  BY Zenon, PhaseIs DEF NoInfo, Infos, Nothing, Resting
<1>1. ASSUME NEW s \in Servers, NetworkChanges(s)
      PROVE  InfoTypes'
  <2>1. RequestTypes'
    BY Zenon, <1>1, RequestsStep DEF InfoTypes, NetworkChanges
  <2> QED  BY <1>1, <2>1 DEF NetworkChanges, Stamp, InfoTypes
<1>2. ASSUME NEW s \in Servers, UpdateMyForeignNetwork(s)
      PROVE  InfoTypes'
  <2>1. Updated(s) \in Infos
    BY Zenon, <1>2, UpdatedIs
  <2>2. foreign' \in [Members -> [Servers -> Infos]]
    BY Zenon, <1>2, <2>1 DEF UpdateMyForeignNetwork, InfoTypes
  <2>3. clock' \in Nat /\ Second < clock' /\ listed' \in [Servers -> Nat]
    BY <1>2 DEF UpdateMyForeignNetwork, Stamp, InfoTypes
  <2>9. RequestTypes'
    BY Zenon, <1>2, RequestsStep DEF InfoTypes, UpdateMyForeignNetwork
  <2> QED  BY Zenon, <1>2, <2>2, <2>3, <2>9 DEF UpdateMyForeignNetwork, InfoTypes
<1>3. ASSUME NEW n \in Members, ClearExpired(n)
      PROVE  InfoTypes'
  <2>1. foreign' \in [Members -> [Servers -> Infos]]
    BY Zenon, <1>0, <1>3 DEF ClearExpired, InfoTypes
  <2>2. lapsed' \in [Members -> [Servers -> Nat]]
    BY Zenon, <1>3, HadTypes DEF ClearExpired, InfoTypes, Larger
  <2>9. RequestTypes'
    BY Zenon, <1>3, RequestsStep DEF InfoTypes, ClearExpired
  <2> QED  BY Zenon, <1>3, <2>1, <2>2, <2>9 DEF ClearExpired, InfoTypes
<1>4. ASSUME NEW n \in Members, ReachChanges(n)
      PROVE  InfoTypes'
  <2>1. rebuild' = [rebuild EXCEPT ![n][n] = Phase("clear", {})] /\ Phase("clear", {}) \in Phases
    BY Zenon, <1>4, PhaseIs DEF ReachChanges
  <2>2. rebuild' \in Rebuilds
    BY Zenon, <2>1, RebuildsStep DEF InfoTypes
  <2>3. DOMAIN reach' = Members
        /\ UNCHANGED <<clock, network, listed, foreign, lapsed, known, request, owners>>
    BY Zenon, <1>4 DEF ReachChanges, InfoTypes
  <2>4. RequestTypes'
    BY Zenon, <2>3, RequestsStep DEF InfoTypes
  <2> QED  BY Zenon, <2>2, <2>3, <2>4 DEF InfoTypes
<1>6. ASSUME NEW n \in Members, NEW m \in Members, SendInfos(n, m)
      PROVE  InfoTypes'
  <2>1. PICK c : c = [s \in Unknown(n, m) |-> foreign[n][s]]
    BY Zenon
  <2>2. DOMAIN c \subseteq Servers \ {m} /\ (\A s \in DOMAIN c : c[s] \in Infos)
    BY <2>1 DEF Unknown, InfoTypes
  <2>3. request' = [request EXCEPT ![n][m] = c]
    BY Zenon, <1>6, <2>1 DEF SendInfos
  <2>4. RequestTypes'
    BY Zenon, <2>2, <2>3, RequestsStep DEF InfoTypes
  <2> QED  BY Zenon, <1>6, <2>4 DEF SendInfos, InfoTypes
<1>7. ASSUME NEW n \in Members, NEW m \in Members, ReceiveInfos(n, m)
      PROVE  InfoTypes'
  <2>1. PICK infos : infos = request[n][m]
    OBVIOUS
  <2>2. DOMAIN infos \subseteq Servers /\ (\A s \in DOMAIN infos : infos[s] \in Infos)
    BY Zenon, <2>1 DEF InfoTypes, RequestTypes
  <2>3. /\ foreign' = [foreign EXCEPT ![m] = UpdateForeignNetwork(foreign[m], infos)]
        /\ known' = [known EXCEPT ![m][n] = Saved(known[m][n], infos)]
        /\ rebuild' = [rebuild EXCEPT ![m][n] = Phase("clear", {})]
        /\ UNCHANGED <<clock, network, listed, lapsed, request, reach, owners, turns>>
    BY Zenon, <1>7, <2>1 DEF ReceiveInfos, InfoTypes
  <2>4. UpdateForeignNetwork(foreign[m], infos) \in [Servers -> Infos]
    BY SMTT(30), <2>2 DEF UpdateForeignNetwork, InfoTypes, Infos
  <2>5. Saved(known[m][n], infos) \in [Servers -> Nat]
    BY SMTT(30), <2>2 DEF Saved, InfoTypes, Infos, Larger
  <2>6. foreign' \in [Members -> [Servers -> Infos]] /\ known' \in [Members -> [Members -> [Servers -> Nat]]]
    BY Zenon, <2>3, <2>4, <2>5 DEF InfoTypes
  <2>7. Phase("clear", {}) \in Phases
    BY Zenon, PhaseIs
  <2>8. rebuild' \in Rebuilds
    BY Zenon, <2>3, <2>7, RebuildsStep DEF InfoTypes
  <2>9. RequestTypes'
    BY Zenon, <2>3, RequestsStep DEF InfoTypes
  <2> QED  BY Zenon, <2>3, <2>6, <2>8, <2>9 DEF InfoTypes
<1>8. ASSUME NEW n \in Members, NEW m \in Members, Answered(n, m) \/ CallLost(n, m)
      PROVE  InfoTypes'
  <2>1. request' = [request EXCEPT ![n][m] = Nothing] /\ rebuild' = [rebuild EXCEPT ![m][n] = Resting]
        /\ UNCHANGED <<clock, network, listed, foreign, lapsed, reach, owners, turns>>
    BY Zenon, <1>8 DEF Answered, CallLost
  <2>2. rebuild' \in Rebuilds
    BY Zenon, <1>0, <2>1, RebuildsStep DEF InfoTypes
  <2>3. known' \in [Members -> [Members -> [Servers -> Nat]]]
    <3>1. CASE known' = known
      BY Zenon, <3>1 DEF InfoTypes
    <3>2. CASE Answered(n, m)
      <4>1. PICK infos : infos = request[n][m]
        OBVIOUS
      <4>2. DOMAIN infos \subseteq Servers /\ (\A s \in DOMAIN infos : infos[s] \in Infos)
        BY Zenon, <4>1 DEF InfoTypes, RequestTypes
      <4>3. known' = [known EXCEPT ![n][m] = Saved(known[n][m], infos)]
        BY Zenon, <3>2, <4>1 DEF Answered, InfoTypes
      <4>4. Saved(known[n][m], infos) \in [Servers -> Nat]
        BY SMTT(30), <4>2 DEF Saved, InfoTypes, Infos, Larger
      <4> QED  BY Zenon, <4>3, <4>4 DEF InfoTypes
    <3> QED  BY Zenon, <1>8, <3>1, <3>2 DEF CallLost
  <2>4. DOMAIN Nothing \subseteq Servers \ {m} /\ (\A s \in DOMAIN Nothing : Nothing[s] \in Infos)
    BY Zenon, <1>0
  <2>5. RequestTypes'
    BY Zenon, <2>1, <2>4, RequestsStep DEF InfoTypes
  <2> QED  BY Zenon, <2>1, <2>2, <2>3, <2>5 DEF InfoTypes
<1>9. ASSUME NEW n \in Members, NEW x \in Members,
             ClearOwners(n, x) \/ OwnersFound(n, x) \/ \E s \in Servers : FillOwner(n, x, s)
      PROVE  InfoTypes'
  <2>1. rebuild' \in Rebuilds
    <3>1. \E r \in Phases : rebuild' = [rebuild EXCEPT ![n][x] = r]
      <4>1. rebuild[n][x].todo \subseteq Servers
        BY SMTT(30) DEF InfoTypes, Rebuilds, Phases
      <4>2. CASE ClearOwners(n, x)
        BY Zenon, <4>2, PhaseIs DEF ClearOwners
      <4>3. CASE OwnersFound(n, x)
        BY Zenon, <1>0, <4>3, PhaseIs DEF OwnersFound
      <4>4. ASSUME NEW s \in Servers, FillOwner(n, x, s)
            PROVE  \E r \in Phases : rebuild' = [rebuild EXCEPT ![n][x] = r]
        <5>1. PICK S : S = rebuild[n][x].todo \ {s}
          BY Zenon
        <5>2. rebuild' = [rebuild EXCEPT ![n][x] = Phase("fill", S)] /\ S \in SUBSET Servers
          BY Zenon, <4>1, <4>4, <5>1 DEF FillOwner, InfoTypes, Rebuilds
        <5> QED  BY Zenon, <5>2, PhaseIs
      <4> QED  BY Zenon, <1>9, <4>2, <4>3, <4>4
    <3> QED  BY Zenon, <3>1, RebuildsStep DEF InfoTypes
  <2>2. DOMAIN owners' = Members
        /\ UNCHANGED <<clock, network, listed, foreign, lapsed, known, request, reach>>
    BY Zenon, <1>9 DEF ClearOwners, OwnersFound, FillOwner, InfoTypes
  <2>3. RequestTypes'
    BY Zenon, <2>2, RequestsStep DEF InfoTypes
  <2> QED  BY Zenon, <2>1, <2>2, <2>3 DEF InfoTypes
<1>10. CASE UNCHANGED infoVars
  <2>1. RequestTypes'
    BY Zenon, <1>10, RequestsStep DEF InfoTypes, infoVars
  <2> QED  BY Zenon, <1>10, <2>1 DEF infoVars, InfoTypes
<1> QED
  BY Zenon, <1>1, <1>2, <1>3, <1>4, <1>6, <1>7, <1>8, <1>9, <1>10, PairsAre DEF InfoNext
-----------------------------------------------------------------------------
(* An action that leaves the entries leaves what nodes have had.           *)
LEMMA HadStays ==
    ASSUME UNCHANGED <<foreign, lapsed>>
    PROVE  had' = had
BY Zenon DEF had

(* ... and the order of the versions.                                      *)
LEMMA VersionFrame ==
    ASSUME VersionInv, had' = had, UNCHANGED <<known, request, listed>>,
           \A i, j \in Members : i # j /\ rebuild'[i][j].at # "idle" => rebuild[i][j].at # "idle"
    PROVE  VersionInv'
<1>1. PICK h, k, q, l, a, b : h = had /\ k = known /\ q = request /\ l = listed /\ a = rebuild /\ b = rebuild'
  OBVIOUS
<1>2. h = had' /\ k = known' /\ q = request' /\ l = listed'
  BY Zenon, <1>1
<1> QED  BY Zenon, <1>1, <1>2 DEF VersionInv

(* HadTypes, of the next state.                                            *)
LEMMA HadTypesNext ==
    ASSUME InfoTypes'
    PROVE  /\ had' \in [Members -> [Servers -> Nat]]
           /\ \A n \in Members, s \in Servers : had'[n][s] \in Nat
<1>1. \A n \in Members, s \in Servers : foreign'[n][s].ver \in Nat /\ lapsed'[n][s] \in Nat
  BY DEF InfoTypes, Infos
<1>2. \A n \in Members, s \in Servers : had'[n][s] = Larger(foreign'[n][s].ver, lapsed'[n][s])
  BY Zenon DEF had
<1>3. \A n \in Members, s \in Servers : had'[n][s] \in Nat
  BY Zenon, <1>1, <1>2 DEF Larger
<1>4. had' \in [Members -> [Servers -> Nat]]
  BY Zenon, <1>1 DEF had, Larger
<1> QED  BY Zenon, <1>3, <1>4

(* What was known or sent stays had while versions grow.                   *)
LEMMA VersionGrows ==
    ASSUME VersionInv, InfoTypes, had \in [Members -> [Servers -> Nat]],
           had' \in [Members -> [Servers -> Nat]],
           UNCHANGED <<known, request, rebuild>>,
           \A n \in Members, s \in Servers : had[n][s] <= had'[n][s] /\ had'[n][s] <= had'[s][s],
           \A s \in Servers : had'[s][s] <= listed'[s] \div Second
    PROVE  VersionInv'
<1>1. PICK g : g = had'
  OBVIOUS
<1>2. \A n, m \in Members, s \in Servers : known[n][m][s] <= g[m][s]
  BY <1>1 DEF VersionInv, InfoTypes
<1>3. \A n, m \in Members : \A s \in DOMAIN request[n][m] :
         /\ request[n][m][s].ver <= g[n][s]
         /\ rebuild[m][n].at # "idle" => request[n][m][s].ver <= g[m][s]
  <2> SUFFICES ASSUME NEW n \in Members, NEW m \in Members, NEW s \in DOMAIN request[n][m]
               PROVE  /\ request[n][m][s].ver <= g[n][s]
                      /\ rebuild[m][n].at # "idle" => request[n][m][s].ver <= g[m][s]
    OBVIOUS
  <2>1. /\ request[n][m][s].ver <= had[n][s] /\ request[n][m][s].ver \in Nat /\ s \in Servers
        /\ rebuild[m][n].at # "idle" => request[n][m][s].ver <= had[m][s]
    BY Zenon DEF VersionInv, InfoTypes, RequestTypes, Infos
  <2> QED  BY <1>1, <2>1
<1>4. \A n, m \in Members : n # m /\ rebuild[m][n].at # "idle" => request[n][m] # Nothing
  BY Zenon DEF VersionInv
<1>5. PICK k, q, b : /\ k = known /\ q = request /\ b = rebuild
                     /\ k = known' /\ q = request' /\ b = rebuild'
  OBVIOUS
<1> QED  BY Zenon, <1>1, <1>2, <1>3, <1>4, <1>5 DEF VersionInv

(* The order of the versions is inductive: one step per action.            *)
LEMMA VersionInvStep ==
    ASSUME InfoTypes, InfoTypes', VersionInv, [InfoNext]_infoVars
    PROVE  VersionInv'
<1> USE ForeignInfoAssumption
<1>0. /\ had \in [Members -> [Servers -> Nat]] /\ had' \in [Members -> [Servers -> Nat]]
      /\ \A n \in Members, s \in Servers : had[n][s] \in Nat /\ had'[n][s] \in Nat
      /\ Servers \subseteq Members /\ Resting.at = "idle" /\ DOMAIN Nothing = {}
  <2>1. Resting.at = "idle" /\ DOMAIN Nothing = {}
    BY Zenon, PhaseIs DEF Resting, Nothing
  <2> QED  BY Zenon, <2>1, HadTypes, HadTypesNext
<1>1. ASSUME NEW s \in Servers, NetworkChanges(s) PROVE VersionInv'
  BY Zenon, <1>1, HadStays, VersionFrame DEF NetworkChanges
<1>2. ASSUME NEW s \in Servers, UpdateMyForeignNetwork(s) PROVE VersionInv'
  <2>1. PICK v : v = NowVersion
    OBVIOUS
  <2>2. /\ listed[s] \div Second \in Nat /\ v \in Nat /\ listed[s] \div Second < v
        /\ Updated(s) = foreign[s][s] \/ Updated(s).ver = v
    BY Zenon, <1>2, <2>1, UpdatedIs
  <2>3. /\ UNCHANGED <<lapsed, known, request, rebuild>>
        /\ foreign' = [foreign EXCEPT ![s][s] = Updated(s)]
        /\ listed' = [listed EXCEPT ![s] = clock'] /\ v = clock' \div Second
    BY Zenon, <1>2, <2>1 DEF UpdateMyForeignNetwork, NowVersion
  <2>4. \A n \in Members, t \in Servers : ~(n = s /\ t = s) => had'[n][t] = had[n][t]
    <3>1. \A n \in Members, t \in Servers : ~(n = s /\ t = s) => foreign'[n][t] = foreign[n][t]
      BY <1>0, <2>3 DEF InfoTypes
    <3> QED  BY <2>3, <3>1 DEF had
  <2>5. had[s][s] <= had'[s][s] /\ had'[s][s] <= v
    <3>1. foreign'[s][s].ver = foreign[s][s].ver \/ foreign'[s][s].ver = v
      BY <1>0, <2>2, <2>3 DEF InfoTypes
    <3>2. had[s][s] <= listed[s] \div Second
      BY Zenon DEF VersionInv
    <3>3. had[s][s] = Larger(foreign[s][s].ver, lapsed[s][s])
          /\ foreign[s][s].ver \in Nat /\ lapsed[s][s] \in Nat
      BY Zenon, <1>0, HadTypes
    <3>4. had'[s][s] = Larger(foreign'[s][s].ver, lapsed[s][s])
      BY Zenon, <1>0, <2>3 DEF had
    <3> QED  BY <2>2, <3>1, <3>2, <3>3, <3>4 DEF Larger
  <2>6. \A t \in Servers : had'[t][t] <= listed'[t] \div Second
    <3>1. \A t \in Servers : t # s => listed'[t] = listed[t]
      BY Zenon, <2>3 DEF InfoTypes
    <3>2. listed'[s] \div Second = v
      BY Zenon, <2>3 DEF InfoTypes
    <3> QED  BY Zenon, <1>0, <2>4, <2>5, <3>1, <3>2 DEF VersionInv
  <2>7. \A n \in Members, t \in Servers : had[n][t] <= had'[n][t]
    <3> SUFFICES ASSUME NEW n \in Members, NEW t \in Servers PROVE had[n][t] <= had'[n][t]
      OBVIOUS
    <3>1. had[n][t] \in Nat /\ had'[n][t] \in Nat
      BY Zenon, <1>0
    <3>2. CASE n = s /\ t = s
      BY Zenon, <2>5, <3>2
    <3>3. CASE ~(n = s /\ t = s)
      <4>1. had'[n][t] = had[n][t]
        BY Zenon, <2>4, <3>3
      <4> QED  BY <3>1, <4>1
    <3> QED  BY Zenon, <3>2, <3>3
  <2>8. \A n \in Members, t \in Servers : had'[n][t] <= had'[t][t]
    <3> SUFFICES ASSUME NEW n \in Members, NEW t \in Servers PROVE had'[n][t] <= had'[t][t]
      OBVIOUS
    <3>1. had[n][t] <= had[t][t]
      BY Zenon DEF VersionInv
    <3>2. t \in Members
      BY Zenon, <1>0
    <3>3. had[n][t] \in Nat /\ had'[n][t] \in Nat /\ had[t][t] \in Nat /\ had'[t][t] \in Nat
      BY Zenon, <1>0, <3>2
    <3>4. had[t][t] <= had'[t][t]
      BY Zenon, <2>7, <3>2
    <3>5. CASE n = t
      BY <3>3, <3>5
    <3>6. CASE n # t
      <4>1. ~(n = s /\ t = s)
        BY Zenon, <3>6
      <4>2. had'[n][t] = had[n][t]
        BY Zenon, <2>4, <4>1
      <4> QED  BY <3>1, <3>3, <3>4, <4>2
    <3> QED  BY Zenon, <3>5, <3>6
  <2>9. UNCHANGED <<known, request, rebuild>>
    BY Zenon, <2>3
  <2> QED  BY Zenon, <1>0, <2>6, <2>7, <2>8, <2>9, VersionGrows
<1>3. ASSUME NEW n \in Members, ClearExpired(n) PROVE VersionInv'
  <2>1. UNCHANGED <<known, request, listed, rebuild>>
    BY Zenon, <1>3 DEF ClearExpired
  <2>2. had' = had
    <3>1. \A i \in Members, t \in Servers : had'[i][t] = had[i][t]
      <4> SUFFICES ASSUME NEW i \in Members, NEW t \in Servers PROVE had'[i][t] = had[i][t]
        OBVIOUS
      <4>1. had'[i][t] = Larger(foreign'[i][t].ver, lapsed'[i][t])
        BY Zenon DEF had
      <4>2. had[i][t] = Larger(foreign[i][t].ver, lapsed[i][t])
            /\ foreign[i][t].ver \in Nat /\ lapsed[i][t] \in Nat
        BY Zenon, HadTypes
      <4>3. \/ foreign'[i][t] = foreign[i][t] /\ lapsed'[i][t] = lapsed[i][t]
            \/ foreign'[i][t] = NoInfo /\ lapsed'[i][t] = Larger(lapsed[i][t], foreign[i][t].ver)
        BY Zenon, <1>3 DEF ClearExpired, InfoTypes
      <4> QED  BY <4>1, <4>2, <4>3 DEF Larger, NoInfo
    <3> QED  BY <1>0, <3>1
  <2> QED  BY Zenon, <2>1, <2>2, VersionFrame
<1>4. ASSUME NEW n \in Members, ReachChanges(n) PROVE VersionInv'
  <2>1. \A i, j \in Members : i # j => rebuild'[i][j] = rebuild[i][j]
    BY SMTT(30), <1>4 DEF ReachChanges, InfoTypes, Rebuilds
  <2>2. UNCHANGED <<foreign, lapsed, known, request, listed>>
    BY Zenon, <1>4 DEF ReachChanges
  <2> QED  BY Zenon, <2>1, <2>2, HadStays, VersionFrame
<1>6. ASSUME NEW n \in Members, NEW m \in Members, SendInfos(n, m) PROVE VersionInv'
  <2>1. /\ request[n][m] = Nothing /\ UNCHANGED <<foreign, lapsed, listed, known, rebuild>>
        /\ request' = [request EXCEPT ![n][m] = [s \in Unknown(n, m) |-> foreign[n][s]]]
        /\ Unknown(n, m) # {}
    BY Zenon, <1>6 DEF SendInfos
  <2>2. had' = had
    BY Zenon, <2>1, HadStays
  <2>3. PICK c : /\ DOMAIN c \subseteq Servers /\ \A s \in DOMAIN c : c[s].ver <= had[n][s]
                 /\ request' = [request EXCEPT ![n][m] = c] /\ c # Nothing
    <3>1. Unknown(n, m) \subseteq Servers
      BY Zenon DEF Unknown
    <3>2. \A s \in Servers : foreign[n][s].ver <= had[n][s]
      BY Zenon, HadTypes
    <3>3. [s \in Unknown(n, m) |-> foreign[n][s]] # Nothing
      BY Zenon, <1>0, <2>1
    <3>4. PICK c : c = [s \in Unknown(n, m) |-> foreign[n][s]]
      BY Zenon
    <3>5. DOMAIN c \subseteq Servers /\ \A s \in DOMAIN c : c[s].ver <= had[n][s]
      BY Zenon, <3>1, <3>2, <3>4
    <3> QED  BY Zenon, <2>1, <3>3, <3>4, <3>5
  <2>4. \A i, j \in Members : request'[i][j] = IF i = n /\ j = m THEN c ELSE request[i][j]
    BY <2>3 DEF InfoTypes, RequestTypes
  <2>5. n # m => rebuild[m][n].at = "idle"
    BY Zenon, <2>1 DEF VersionInv
  <2>6. \A i, j \in Members : \A s \in DOMAIN request'[i][j] : request'[i][j][s].ver <= had[i][s]
    BY <2>3, <2>4 DEF VersionInv
  <2>7. \A i, j \in Members : \A s \in DOMAIN request'[i][j] :
           rebuild[j][i].at # "idle" => request'[i][j][s].ver <= had[j][s]
    BY <2>3, <2>4, <2>5 DEF VersionInv
  <2>8. \A i, j \in Members : i # j /\ rebuild[j][i].at # "idle" => request'[i][j] # Nothing
    BY <2>3, <2>4 DEF VersionInv
  <2> QED  BY Zenon, <2>1, <2>2, <2>6, <2>7, <2>8 DEF VersionInv
<1>7. ASSUME NEW n \in Members, NEW m \in Members, ReceiveInfos(n, m) PROVE VersionInv'
  <2> DEFINE infos == request[n][m]
  <2>1. /\ infos # Nothing /\ UNCHANGED <<lapsed, listed, request>>
        /\ foreign' = [foreign EXCEPT ![m] = UpdateForeignNetwork(@, infos)]
        /\ known' = [known EXCEPT ![m][n] = Saved(@, infos)]
        /\ rebuild' = [rebuild EXCEPT ![m][n] = Phase("clear", {})]
    BY Zenon, <1>7 DEF ReceiveInfos
  <2>2. \A s \in DOMAIN infos :
           infos[s].ver \in Nat /\ infos[s].ver <= had[n][s] /\ s \in Servers /\ s # m
    BY Zenon DEF InfoTypes, RequestTypes, Infos, VersionInv
  <2>3. \A i, j \in Members : rebuild'[i][j] = IF i = m /\ j = n THEN Phase("clear", {}) ELSE rebuild[i][j]
    BY Zenon, <2>1 DEF InfoTypes, Rebuilds
  <2>4. \A i \in Members, s \in Servers : i # m => had'[i][s] = had[i][s]
    BY Zenon, <2>1 DEF had, InfoTypes
  <2>5. \A s \in Servers : s \notin DOMAIN infos => had'[m][s] = had[m][s]
    BY Zenon, <2>1 DEF had, InfoTypes, UpdateForeignNetwork
  <2>6. \A s \in DOMAIN infos :
           /\ infos[s].ver <= had'[m][s] /\ had[m][s] <= had'[m][s]
           /\ had'[m][s] = had[m][s] \/ had'[m][s] = infos[s].ver
    <3> SUFFICES ASSUME NEW s \in DOMAIN infos
                 PROVE  /\ infos[s].ver <= had'[m][s] /\ had[m][s] <= had'[m][s]
                        /\ had'[m][s] = had[m][s] \/ had'[m][s] = infos[s].ver
      OBVIOUS
    <3>1. had'[m][s] = Larger(foreign'[m][s].ver, lapsed[m][s])
      BY Zenon, <2>1, <2>2 DEF had
    <3>2. had[m][s] = Larger(foreign[m][s].ver, lapsed[m][s])
          /\ foreign[m][s].ver \in Nat /\ lapsed[m][s] \in Nat /\ infos[s].ver \in Nat
      BY Zenon, <2>2, HadTypes
    <3>3. foreign'[m][s].ver = IF infos[s].ver > foreign[m][s].ver THEN infos[s].ver
                               ELSE foreign[m][s].ver
      BY Zenon, <2>1, <2>2 DEF InfoTypes, UpdateForeignNetwork
    <3>4. PICK f, l, v, g : /\ f = foreign[m][s].ver /\ l = lapsed[m][s]
                            /\ v = infos[s].ver /\ g = foreign'[m][s].ver
      BY Zenon
    <3>5. f \in Nat /\ l \in Nat /\ v \in Nat /\ g = IF v > f THEN v ELSE f
      BY Zenon, <3>2, <3>3, <3>4
    <3>6. /\ v <= Larger(g, l) /\ Larger(f, l) <= Larger(g, l)
          /\ Larger(g, l) = Larger(f, l) \/ Larger(g, l) = v
      BY <3>5 DEF Larger
    <3> QED  BY Zenon, <3>1, <3>2, <3>4, <3>6
  <2>7. \A s \in Servers : had'[s][s] = had[s][s]
    BY Zenon, <1>0, <2>2, <2>4, <2>5
  <2>8. \A i \in Members, s \in Servers : had[i][s] <= had'[i][s]
    <3> SUFFICES ASSUME NEW i \in Members, NEW s \in Servers PROVE had[i][s] <= had'[i][s]
      OBVIOUS
    <3>1. had[i][s] \in Nat /\ had'[i][s] \in Nat
      BY Zenon, <1>0
    <3>2. had'[i][s] = had[i][s] \/ had[i][s] <= had'[i][s]
      <4>1. CASE i # m
        BY Zenon, <2>4, <4>1
      <4>2. CASE i = m /\ s \notin DOMAIN infos
        BY Zenon, <2>5, <4>2
      <4>3. CASE i = m /\ s \in DOMAIN infos
        BY Zenon, <2>6, <4>3
      <4> QED  BY Zenon, <4>1, <4>2, <4>3
    <3> QED  BY <3>1, <3>2
  <2>9. \A i \in Members, s \in Servers : had'[i][s] <= had'[s][s]
    <3> SUFFICES ASSUME NEW i \in Members, NEW s \in Servers PROVE had'[i][s] <= had'[s][s]
      OBVIOUS
    <3>1. had[i][s] <= had[s][s] /\ had[n][s] <= had[s][s]
      BY Zenon DEF VersionInv
    <3>2. s \in Members
      BY Zenon, <1>0
    <3>3. had[i][s] \in Nat /\ had'[i][s] \in Nat /\ had[s][s] \in Nat /\ had[n][s] \in Nat
      BY Zenon, <1>0, <3>2
    <3>4. \/ had'[i][s] = had[i][s]
          \/ s \in DOMAIN infos /\ had'[i][s] = infos[s].ver
      BY Zenon, <2>4, <2>5, <2>6
    <3>5. CASE had'[i][s] = had[i][s]
      BY Zenon, <2>7, <3>1, <3>5
    <3>6. CASE s \in DOMAIN infos /\ had'[i][s] = infos[s].ver
      <4>1. infos[s].ver \in Nat /\ infos[s].ver <= had[n][s]
        BY Zenon, <2>2, <3>6
      <4>2. had'[i][s] <= had[s][s]
        BY SMTT(30), <3>1, <3>3, <3>6, <4>1
      <4> QED  BY Zenon, <2>7, <4>2
    <3> QED  BY Zenon, <3>4, <3>5, <3>6
  <2>10. \A i, j \in Members, s \in Servers : known'[i][j][s] <= had'[j][s]
    <3> SUFFICES ASSUME NEW i \in Members, NEW j \in Members, NEW s \in Servers
                 PROVE  known'[i][j][s] <= had'[j][s]
      OBVIOUS
    <3>1. known[i][j][s] <= had[j][s] /\ known[i][j][s] \in Nat
      BY DEF VersionInv, InfoTypes
    <3>2. \/ known'[i][j][s] = known[i][j][s]
          \/ j = n /\ s \in DOMAIN infos /\ known'[i][j][s] = Larger(known[i][j][s], infos[s].ver)
      BY Zenon, <2>1 DEF InfoTypes, Saved
    <3>3. had[j][s] \in Nat /\ had'[j][s] \in Nat /\ had[j][s] <= had'[j][s]
      BY Zenon, <1>0, <2>8
    <3>4. j = n /\ s \in DOMAIN infos => infos[s].ver \in Nat /\ infos[s].ver <= had[j][s]
      BY Zenon, <2>2
    <3> QED  BY <3>1, <3>2, <3>3, <3>4 DEF Larger
  <2>11. \A i, j \in Members : \A s \in DOMAIN request[i][j] :
            /\ request[i][j][s].ver <= had'[i][s]
            /\ rebuild'[j][i].at # "idle" => request[i][j][s].ver <= had'[j][s]
    <3> SUFFICES ASSUME NEW i \in Members, NEW j \in Members, NEW s \in DOMAIN request[i][j]
                 PROVE  /\ request[i][j][s].ver <= had'[i][s]
                        /\ rebuild'[j][i].at # "idle" => request[i][j][s].ver <= had'[j][s]
      OBVIOUS
    <3>1. /\ request[i][j][s].ver <= had[i][s] /\ request[i][j][s].ver \in Nat /\ s \in Servers
          /\ rebuild[j][i].at # "idle" => request[i][j][s].ver <= had[j][s]
      BY Zenon DEF VersionInv, InfoTypes, RequestTypes, Infos
    <3>2. j = m /\ i = n => request[i][j][s].ver <= had'[j][s]
      <4>1. \A t \in DOMAIN request[n][m] : request[n][m][t].ver <= had'[m][t]
        BY Zenon, <2>6
      <4> QED  BY Zenon, <4>1
    <3>3. ~(j = m /\ i = n) => rebuild'[j][i] = rebuild[j][i]
      BY Zenon, <2>3
    <3>4. had[i][s] \in Nat /\ had'[i][s] \in Nat /\ had[j][s] \in Nat /\ had'[j][s] \in Nat
      BY Zenon, <1>0, <3>1
    <3>5. had[i][s] <= had'[i][s] /\ had[j][s] <= had'[j][s]
      BY Zenon, <2>8, <3>1
    <3>6. rebuild'[j][i].at # "idle" => (j = m /\ i = n) \/ rebuild[j][i].at # "idle"
      BY Zenon, <3>3
    <3>7. PICK e, u, v, w, x : /\ e = request[i][j][s].ver /\ u = had[i][s] /\ v = had'[i][s]
                               /\ w = had[j][s] /\ x = had'[j][s]
      OBVIOUS
    <3>8. e \in Nat /\ u \in Nat /\ v \in Nat /\ w \in Nat /\ x \in Nat /\ e <= u /\ u <= v /\ w <= x
      BY Zenon, <3>1, <3>4, <3>5, <3>7
    <3>9. e <= v /\ (e <= w => e <= x)
      BY <3>8
    <3> QED  BY Zenon, <3>1, <3>2, <3>6, <3>7, <3>9
  <2>12. \A i, j \in Members : i # j /\ rebuild'[j][i].at # "idle" => request[i][j] # Nothing
    BY <2>1, <2>3 DEF VersionInv
  <2>13. \A s \in Servers : had'[s][s] <= listed[s] \div Second
    BY Zenon, <2>7 DEF VersionInv
  <2>14. PICK q, l : q = request /\ l = listed /\ q = request' /\ l = listed'
    BY Zenon, <2>1
  <2> QED  BY Zenon, <2>9, <2>10, <2>11, <2>12, <2>13, <2>14 DEF VersionInv
<1>8. ASSUME NEW n \in Members, NEW m \in Members, Answered(n, m) \/ CallLost(n, m) PROVE VersionInv'
  <2>1. /\ UNCHANGED <<foreign, lapsed, listed>>
        /\ request' = [request EXCEPT ![n][m] = Nothing]
        /\ rebuild' = [rebuild EXCEPT ![m][n] = Resting]
    BY Zenon, <1>8 DEF Answered, CallLost
  <2>2. had' = had
    BY Zenon, <2>1, HadStays
  <2>3. \A i, j \in Members : /\ request'[i][j] = IF i = n /\ j = m THEN Nothing ELSE request[i][j]
                              /\ rebuild'[j][i] = IF i = n /\ j = m THEN Resting ELSE rebuild[j][i]
    BY SMTT(30), <2>1 DEF InfoTypes, RequestTypes, Rebuilds
  <2>4. \A i, j \in Members, s \in Servers : known'[i][j][s] <= had[j][s]
    <3> SUFFICES ASSUME NEW i \in Members, NEW j \in Members, NEW s \in Servers
                 PROVE  known'[i][j][s] <= had[j][s]
      OBVIOUS
    <3>1. known[i][j][s] <= had[j][s] /\ known[i][j][s] \in Nat
      BY DEF VersionInv, InfoTypes
    <3>2. CASE known' = known
      BY Zenon, <3>1, <3>2
    <3>3. CASE rebuild[m][n].at = "done" /\ known' = [known EXCEPT ![n][m] = Saved(@, request[n][m])]
      <4>1. \/ known'[i][j][s] = known[i][j][s]
            \/ j = m /\ s \in DOMAIN request[n][m]
               /\ known'[i][j][s] = Larger(known[i][j][s], request[n][m][s].ver)
        BY Zenon, <3>3 DEF InfoTypes, Saved
      <4>2. s \in DOMAIN request[n][m] => request[n][m][s].ver <= had[m][s]
        BY Zenon, <3>3 DEF VersionInv
      <4> QED  BY Zenon, <3>1, <4>1, <4>2 DEF Larger
    <3> QED  BY Zenon, <1>8, <3>2, <3>3 DEF Answered, CallLost
  <2>5. \A i, j \in Members : \A s \in DOMAIN request'[i][j] :
           /\ request'[i][j][s].ver <= had[i][s]
           /\ rebuild'[j][i].at # "idle" => request'[i][j][s].ver <= had[j][s]
    <3> SUFFICES ASSUME NEW i \in Members, NEW j \in Members, NEW s \in DOMAIN request'[i][j]
                 PROVE  /\ request'[i][j][s].ver <= had[i][s]
                        /\ rebuild'[j][i].at # "idle" => request'[i][j][s].ver <= had[j][s]
      OBVIOUS
    <3>1. request'[i][j] = request[i][j] /\ rebuild'[j][i] = rebuild[j][i]
      BY Zenon, <1>0, <2>3
    <3> QED  BY Zenon, <3>1 DEF VersionInv
  <2>6. \A i, j \in Members : i # j /\ rebuild'[j][i].at # "idle" => request'[i][j] # Nothing
    <3> SUFFICES ASSUME NEW i \in Members, NEW j \in Members, i # j, rebuild'[j][i].at # "idle"
                 PROVE  request'[i][j] # Nothing
      OBVIOUS
    <3>1. request'[i][j] = request[i][j] /\ rebuild'[j][i] = rebuild[j][i]
      BY Zenon, <1>0, <2>3
    <3> QED  BY Zenon, <3>1 DEF VersionInv
  <2> QED  BY Zenon, <2>1, <2>2, <2>4, <2>5, <2>6 DEF VersionInv
<1>9. ASSUME NEW n \in Members, NEW x \in Members,
             ClearOwners(n, x) \/ OwnersFound(n, x) \/ \E s \in Servers : FillOwner(n, x, s)
      PROVE  VersionInv'
  <2>1. \A i, j \in Members : rebuild'[i][j].at # "idle" => rebuild[i][j].at # "idle"
    <3>1. \E r : rebuild' = [rebuild EXCEPT ![n][x] = r] /\ rebuild[n][x].at # "idle"
      BY Zenon, <1>9 DEF ClearOwners, OwnersFound, FillOwner
    <3> QED  BY SMTT(30), <3>1 DEF InfoTypes, Rebuilds
  <2>2. UNCHANGED <<foreign, lapsed, known, request, listed>>
    BY Zenon, <1>9 DEF ClearOwners, OwnersFound, FillOwner
  <2> QED  BY Zenon, <2>1, <2>2, HadStays, VersionFrame
<1>10. CASE UNCHANGED infoVars
  BY Zenon, <1>10, HadStays, VersionFrame DEF infoVars
<1> QED
  BY Zenon, <1>1, <1>2, <1>3, <1>4, <1>6, <1>7, <1>8, <1>9, <1>10, PairsAre DEF InfoNext
-----------------------------------------------------------------------------
(* Entries and what is sent of them have been said.                        *)
LEMMA SaidHas ==
    ASSUME NEW s \in Servers
    PROVE  /\ <<0, {}>> \in Said[s]
           /\ \A n \in Members : <<foreign[n][s].ver, foreign[n][s].peers>> \in Said[s]
           /\ \A n, m \in Members : s \in DOMAIN request[n][m] =>
                 <<request[n][m][s].ver, request[n][m][s].peers>> \in Said[s]
<1>1. ASSUME NEW n \in Members, NEW m \in Members, s \in DOMAIN request[n][m]
      PROVE  <<request[n][m][s].ver, request[n][m][s].peers>> \in Said[s]
  <2>1. PICK p : p = <<n, m>>
    BY Zenon
  <2>2. p \in Members \X Members /\ p[1] = n /\ p[2] = m
    BY Zenon, <2>1
  <2>3. p \in {q \in Members \X Members : s \in DOMAIN request[q[1]][q[2]]}
    BY Zenon, <1>1, <2>2
  <2>4. <<request[n][m][s].ver, request[n][m][s].peers>>
            = <<request[p[1]][p[2]][s].ver, request[p[1]][p[2]][s].peers>>
    BY Zenon, <2>2
  <2> QED  BY Zenon, <2>3, <2>4 DEF Said
<1>2. <<0, {}>> \in Said[s]
      /\ \A n \in Members : <<foreign[n][s].ver, foreign[n][s].peers>> \in Said[s]
  BY Zenon DEF Said
<1> QED  BY Zenon, <1>1, <1>2

(* Versions that have been said are not newer than what the owner has had. *)
LEMMA SaidVersions ==
    ASSUME InfoTypes, VersionInv, NEW s \in Servers, NEW a \in Said[s]
    PROVE  a[1] \in Nat /\ a[1] <= had[s][s]
<1> USE ForeignInfoAssumption
<1>0. s \in Members /\ had[s][s] \in Nat
  BY Zenon, HadTypes
<1>1. CASE a = <<0, {}>>
  BY <1>0, <1>1
<1>2. ASSUME NEW n \in Members, a = <<foreign[n][s].ver, foreign[n][s].peers>>
      PROVE  a[1] \in Nat /\ a[1] <= had[s][s]
  <2>1. /\ foreign[n][s].ver \in Nat /\ foreign[n][s].ver <= had[n][s] /\ had[n][s] \in Nat
        /\ had[n][s] <= had[s][s]
    BY Zenon, HadTypes DEF VersionInv
  <2> QED  BY <1>0, <1>2, <2>1
<1>3. ASSUME NEW p \in {q \in Members \X Members : s \in DOMAIN request[q[1]][q[2]]},
             a = <<request[p[1]][p[2]][s].ver, request[p[1]][p[2]][s].peers>>
      PROVE  a[1] \in Nat /\ a[1] <= had[s][s]
  <2>1. PICK n \in Members, m \in Members : p[1] = n /\ p[2] = m /\ s \in DOMAIN request[n][m]
    BY Zenon, <1>3
  <2>2. request[n][m][s].ver \in Nat
    BY Zenon, <2>1 DEF InfoTypes, RequestTypes, Infos
  <2>3. /\ request[n][m][s].ver <= had[n][s] /\ had[n][s] \in Nat /\ had[n][s] <= had[s][s]
    BY Zenon, <2>1, HadTypes DEF VersionInv
  <2> QED  BY <1>0, <1>3, <2>1, <2>2, <2>3
<1> QED  BY Zenon, <1>1, <1>2, <1>3 DEF Said

(* What is said next is among sets in which a version is said once.        *)
LEMMA SaidNext ==
    ASSUME NEW S,
           \A s \in Servers : \A a, b \in S[s] : a[1] = b[1] => a[2] = b[2],
           \A s \in Servers : <<0, {}>> \in S[s],
           \A n \in Members, s \in Servers : <<foreign'[n][s].ver, foreign'[n][s].peers>> \in S[s],
           \A n, m \in Members, s \in Servers : s \in DOMAIN request'[n][m] =>
               <<request'[n][m][s].ver, request'[n][m][s].peers>> \in S[s]
    PROVE  SaidOnce'
<1>1. ASSUME NEW s \in Servers, NEW a \in (Said')[s] PROVE a \in S[s]
  <2>1. ASSUME NEW p \in {q \in Members \X Members : s \in DOMAIN request'[q[1]][q[2]]},
               a = <<request'[p[1]][p[2]][s].ver, request'[p[1]][p[2]][s].peers>>
        PROVE  a \in S[s]
    <3>1. PICK n \in Members, m \in Members : p[1] = n /\ p[2] = m /\ s \in DOMAIN request'[n][m]
      BY Zenon, <2>1
    <3> QED  BY Zenon, <2>1, <3>1
  <2>2. \/ a = <<0, {}>>
        \/ \E n \in Members : a = <<foreign'[n][s].ver, foreign'[n][s].peers>>
        \/ \E p \in {q \in Members \X Members : s \in DOMAIN request'[q[1]][q[2]]} :
              a = <<request'[p[1]][p[2]][s].ver, request'[p[1]][p[2]][s].peers>>
    BY Zenon, <1>1 DEF Said
  <2>3. CASE a = <<0, {}>>
    BY Zenon, <2>3
  <2>4. ASSUME NEW n \in Members, a = <<foreign'[n][s].ver, foreign'[n][s].peers>>
        PROVE  a \in S[s]
    <3>1. <<foreign'[n][s].ver, foreign'[n][s].peers>> \in S[s]
      BY Zenon
    <3> QED  BY Zenon, <2>4, <3>1
  <2> QED  BY Zenon, <2>1, <2>2, <2>3, <2>4
<1>2. PICK R : R = Said'
  OBVIOUS
<1>3. \A s \in Servers : \A a, b \in R[s] : a[1] = b[1] => a[2] = b[2]
  <2> SUFFICES ASSUME NEW s \in Servers, NEW a \in R[s], NEW b \in R[s], a[1] = b[1]
               PROVE  a[2] = b[2]
    OBVIOUS
  <2>1. a \in S[s] /\ b \in S[s]
    BY Zenon, <1>1, <1>2
  <2> QED  BY Zenon, <2>1
<1> QED  BY Zenon, <1>2, <1>3 DEF SaidOnce

(* One version of a server never says two things.                          *)
LEMMA SaidOnceStep ==
    ASSUME InfoTypes, VersionInv, SaidOnce, [InfoNext]_infoVars
    PROVE  SaidOnce'
<1> USE ForeignInfoAssumption
<1>0. PICK S : S = Said
  OBVIOUS
<1>a. /\ \A s \in Servers : \A a, b \in S[s] : a[1] = b[1] => a[2] = b[2]
      /\ \A s \in Servers : <<0, {}>> \in S[s]
      /\ \A n \in Members, s \in Servers : <<foreign[n][s].ver, foreign[n][s].peers>> \in S[s]
      /\ \A n, m \in Members, s \in Servers : s \in DOMAIN request[n][m] =>
            <<request[n][m][s].ver, request[n][m][s].peers>> \in S[s]
  BY Zenon, <1>0, SaidHas DEF SaidOnce
<1>b. CASE UNCHANGED <<foreign, request>>
  BY Zenon, <1>a, <1>b, SaidNext
<1>2. ASSUME NEW s \in Servers, UpdateMyForeignNetwork(s) PROVE SaidOnce'
  <2>1. PICK v, e : v = NowVersion /\ e = Updated(s)
    OBVIOUS
  <2>2. listed[s] \div Second \in Nat /\ v \in Nat /\ listed[s] \div Second < v
        /\ (e = foreign[s][s] \/ e.ver = v)
    BY Zenon, <1>2, <2>1, UpdatedIs
  <2>3. UNCHANGED request /\ foreign' = [foreign EXCEPT ![s][s] = e]
    BY Zenon, <1>2, <2>1 DEF UpdateMyForeignNetwork
  <2>4. \A n \in Members, t \in Servers :
            foreign'[n][t] = IF n = s /\ t = s THEN e ELSE foreign[n][t]
    BY Zenon, <2>3 DEF InfoTypes
  <2>5. CASE e = foreign[s][s]
    <3>1. \A n \in Members, t \in Servers : foreign'[n][t] = foreign[n][t]
      BY Zenon, <2>4, <2>5
    <3>2. \A n \in Members, t \in Servers : <<foreign'[n][t].ver, foreign'[n][t].peers>> \in S[t]
      <4> SUFFICES ASSUME NEW n \in Members, NEW t \in Servers
                   PROVE  <<foreign'[n][t].ver, foreign'[n][t].peers>> \in S[t]
        BY Zenon
      <4>1. foreign'[n][t] = foreign[n][t]
        BY Zenon, <3>1
      <4>2. <<foreign[n][t].ver, foreign[n][t].peers>> \in S[t]
        BY Zenon, <1>a
      <4> QED  BY Zenon, <4>1, <4>2
    <3> QED  BY Zenon, <1>a, <2>3, <3>2, SaidNext
  <2>6. CASE e.ver = v
    <3>1. PICK T : T = [t \in Servers |-> IF t = s THEN S[t] \cup {<<v, e.peers>>} ELSE S[t]]
      BY Zenon
    <3>2. \A a \in S[s] : a[1] \in Nat /\ a[1] < v
      <4> SUFFICES ASSUME NEW a \in S[s] PROVE a[1] \in Nat /\ a[1] < v
        OBVIOUS
      <4>1. a[1] \in Nat /\ a[1] <= had[s][s]
        BY Zenon, <1>0, SaidVersions
      <4>2. had[s][s] <= listed[s] \div Second /\ had[s][s] \in Nat
        BY Zenon, HadTypes DEF VersionInv
      <4> QED  BY <2>2, <4>1, <4>2
    <3>3. \A t \in Servers : \A a, b \in T[t] : a[1] = b[1] => a[2] = b[2]
      BY <1>a, <2>2, <3>1, <3>2
    <3>4. \A t \in Servers : S[t] \subseteq T[t]
      BY Zenon, <3>1
    <3>5. \A n \in Members, t \in Servers : <<foreign'[n][t].ver, foreign'[n][t].peers>> \in T[t]
      BY <1>a, <2>4, <2>6, <3>1
    <3>6. /\ \A t \in Servers : <<0, {}>> \in T[t]
          /\ \A n, m \in Members, t \in Servers : t \in DOMAIN request'[n][m] =>
                <<request'[n][m][t].ver, request'[n][m][t].peers>> \in T[t]
      BY Zenon, <1>a, <2>3, <3>4
    <3> QED  BY Zenon, <3>3, <3>5, <3>6, SaidNext
  <2> QED  BY Zenon, <2>2, <2>5, <2>6
<1>3. ASSUME NEW n \in Members, ClearExpired(n) PROVE SaidOnce'
  <2>1. \A i \in Members, t \in Servers : foreign'[i][t] = foreign[i][t] \/ foreign'[i][t] = NoInfo
    BY Zenon, <1>3 DEF ClearExpired, InfoTypes
  <2>2. NoInfo.ver = 0 /\ NoInfo.peers = {} /\ UNCHANGED request
    BY Zenon, <1>3 DEF NoInfo, ClearExpired
  <2>3. \A i \in Members, t \in Servers : <<foreign'[i][t].ver, foreign'[i][t].peers>> \in S[t]
    BY Zenon, <1>a, <2>1, <2>2
  <2> QED  BY Zenon, <1>a, <2>2, <2>3, SaidNext
<1>6. ASSUME NEW n \in Members, NEW m \in Members, SendInfos(n, m) PROVE SaidOnce'
  <2>1. UNCHANGED foreign
        /\ request' = [request EXCEPT ![n][m] = [s \in Unknown(n, m) |-> foreign[n][s]]]
    BY Zenon, <1>6 DEF SendInfos
  <2>2. \A i, j \in Members, t \in Servers : t \in DOMAIN request'[i][j] =>
           \/ t \in DOMAIN request[i][j] /\ request'[i][j][t] = request[i][j][t]
           \/ request'[i][j][t] = foreign[i][t]
    BY SMTT(30), <2>1 DEF InfoTypes, RequestTypes
  <2>3. \A i, j \in Members, t \in Servers : t \in DOMAIN request'[i][j] =>
           <<request'[i][j][t].ver, request'[i][j][t].peers>> \in S[t]
    <3> SUFFICES ASSUME NEW i \in Members, NEW j \in Members, NEW t \in Servers,
                        t \in DOMAIN request'[i][j]
                 PROVE  <<request'[i][j][t].ver, request'[i][j][t].peers>> \in S[t]
      OBVIOUS
    <3>1. \/ t \in DOMAIN request[i][j] /\ request'[i][j][t] = request[i][j][t]
          \/ request'[i][j][t] = foreign[i][t]
      BY Zenon, <2>2
    <3> QED  BY Zenon, <1>a, <3>1
  <2> QED  BY Zenon, <1>a, <2>1, <2>3, SaidNext
<1>7. ASSUME NEW n \in Members, NEW m \in Members, ReceiveInfos(n, m) PROVE SaidOnce'
  <2>1. UNCHANGED request
        /\ foreign' = [foreign EXCEPT ![m] = UpdateForeignNetwork(@, request[n][m])]
    BY Zenon, <1>7 DEF ReceiveInfos
  <2>2. \A i \in Members, t \in Servers :
           \/ foreign'[i][t] = foreign[i][t]
           \/ /\ t \in DOMAIN request[n][m] /\ foreign'[i][t].ver = request[n][m][t].ver
              /\ foreign'[i][t].peers = request[n][m][t].peers
    BY Zenon, <2>1 DEF InfoTypes, UpdateForeignNetwork
  <2>3. \A i \in Members, t \in Servers : <<foreign'[i][t].ver, foreign'[i][t].peers>> \in S[t]
    BY ZenonT(60), <1>a, <2>2
  <2> QED  BY Zenon, <1>a, <2>1, <2>3, SaidNext
<1>8. ASSUME NEW n \in Members, NEW m \in Members, Answered(n, m) \/ CallLost(n, m) PROVE SaidOnce'
  <2>1. UNCHANGED foreign /\ request' = [request EXCEPT ![n][m] = Nothing]
    BY Zenon, <1>8 DEF Answered, CallLost
  <2>2. \A i, j \in Members, t \in Servers : t \in DOMAIN request'[i][j] =>
           t \in DOMAIN request[i][j] /\ request'[i][j][t] = request[i][j][t]
    <3>1. DOMAIN Nothing = {}
      BY Zenon DEF Nothing
    <3>2. \A i, j \in Members : request'[i][j] = request[i][j] \/ request'[i][j] = Nothing
      BY SMTT(30), <2>1 DEF InfoTypes, RequestTypes
    <3> QED  BY Zenon, <3>1, <3>2
  <2>3. \A i, j \in Members, t \in Servers : t \in DOMAIN request'[i][j] =>
           <<request'[i][j][t].ver, request'[i][j][t].peers>> \in S[t]
    <3> SUFFICES ASSUME NEW i \in Members, NEW j \in Members, NEW t \in Servers,
                        t \in DOMAIN request'[i][j]
                 PROVE  <<request'[i][j][t].ver, request'[i][j][t].peers>> \in S[t]
      OBVIOUS
    <3>1. \/ t \in DOMAIN request[i][j] /\ request'[i][j][t] = request[i][j][t]
          \/ request'[i][j][t] = foreign[i][t]
      BY Zenon, <2>2
    <3> QED  BY Zenon, <1>a, <3>1
  <2> QED  BY Zenon, <1>a, <2>1, <2>3, SaidNext
<1>9. \/ UNCHANGED <<foreign, request>>
      \/ \E s \in Servers : UpdateMyForeignNetwork(s)
      \/ \E n \in Members : ClearExpired(n)
      \/ \E n, m \in Members : \/ SendInfos(n, m) \/ ReceiveInfos(n, m)
                               \/ Answered(n, m) \/ CallLost(n, m)
  BY ZenonT(60), PairsAre
     DEF InfoNext, infoVars, NetworkChanges, ReachChanges, ClearOwners, OwnersFound, FillOwner
<1> QED  BY Zenon, <1>b, <1>2, <1>3, <1>6, <1>7, <1>8, <1>9
-----------------------------------------------------------------------------
(* A server that is missing from the owners stays about to be found.       *)
LEMMA OwnersInvStep ==
    ASSUME InfoTypes, OwnersInv, [InfoNext]_infoVars
    PROVE  OwnersInv'
<1> USE ForeignInfoAssumption
<1> SUFFICES ASSUME NEW i \in Members, NEW t \in Servers, t # i, t \in reach'[i],
                    foreign'[i][t].peers # {}
             PROVE  \/ t \in owners'[i]
                    \/ \E x \in Members : \/ rebuild'[i][x].at = "clear"
                                          \/ rebuild'[i][x].at = "fill" /\ t \in rebuild'[i][x].todo
  BY Zenon DEF OwnersInv
<1> DEFINE Goal == \/ t \in owners'[i]
                   \/ \E x \in Members : \/ rebuild'[i][x].at = "clear"
                                         \/ rebuild'[i][x].at = "fill" /\ t \in rebuild'[i][x].todo
<1>a. CASE /\ t \in reach[i] /\ foreign[i][t].peers # {}
           /\ UNCHANGED owners
           /\ \A x \in Members : rebuild[i][x].at \in {"clear", "fill"} => rebuild'[i][x] = rebuild[i][x]
  <2>1. \/ t \in owners[i]
        \/ \E x \in Members : \/ rebuild[i][x].at = "clear"
                              \/ rebuild[i][x].at = "fill" /\ t \in rebuild[i][x].todo
    BY Zenon, <1>a DEF OwnersInv
  <2> QED  BY Zenon, <1>a, <2>1
<1>1. ASSUME NEW s \in Servers, NetworkChanges(s) PROVE Goal
  BY Zenon, <1>1, <1>a DEF NetworkChanges
<1>2. ASSUME NEW s \in Servers, UpdateMyForeignNetwork(s) PROVE Goal
  <2>a. foreign' = [foreign EXCEPT ![s][s] = Updated(s)] /\ DOMAIN foreign = Members
        /\ DOMAIN foreign[i] = Servers
    BY Zenon, <1>2 DEF UpdateMyForeignNetwork, InfoTypes
  <2>1. foreign'[i][t] = foreign[i][t]
    BY <2>a
  <2> QED  BY Zenon, <1>2, <1>a, <2>1 DEF UpdateMyForeignNetwork
<1>3. ASSUME NEW n \in Members, ClearExpired(n) PROVE Goal
  <2>1. foreign'[i][t] = foreign[i][t] \/ foreign'[i][t] = NoInfo
    BY Zenon, <1>3 DEF ClearExpired, InfoTypes
  <2>2. NoInfo.peers = {}
    BY Zenon DEF NoInfo
  <2> QED  BY Zenon, <1>3, <1>a, <2>1, <2>2 DEF ClearExpired
<1>4. ASSUME NEW n \in Members, ReachChanges(n) PROVE Goal
  <2>1. rebuild[n][n].at = "idle" /\ UNCHANGED <<owners, foreign>>
        /\ rebuild' = [rebuild EXCEPT ![n][n] = Phase("clear", {})]
    <3>1. Resting.at = "idle"
      BY DEF Resting, Phase
    <3> QED  BY Zenon, <1>4, <3>1 DEF ReachChanges
  <2>2. CASE i = n
    <3>1. rebuild \in Rebuilds /\ "clear" \in {"idle", "clear", "fill", "done"}
          /\ {} \in SUBSET Servers
      BY Zenon DEF InfoTypes
    <3>2. rebuild'[i][i].at = "clear"
      BY Zenon, <2>1, <2>2, <3>1, RebuildAt
    <3> QED  BY Zenon, <3>2
  <2>3. CASE i # n
    <3>1. t \in reach[i] /\ rebuild'[i] = rebuild[i]
      BY Zenon, <1>4, <2>3 DEF ReachChanges, InfoTypes, Rebuilds
    <3> QED  BY Zenon, <1>a, <2>1, <3>1
  <2> QED  BY Zenon, <2>2, <2>3
<1>6. ASSUME NEW n \in Members, NEW m \in Members, SendInfos(n, m) PROVE Goal
  BY Zenon, <1>6, <1>a DEF SendInfos
<1>7. ASSUME NEW n \in Members, NEW m \in Members, ReceiveInfos(n, m) PROVE Goal
  <2>1. /\ UNCHANGED <<owners, reach>>
        /\ foreign' = [foreign EXCEPT ![m] = UpdateForeignNetwork(@, request[n][m])]
        /\ rebuild' = [rebuild EXCEPT ![m][n] = Phase("clear", {})]
    BY Zenon, <1>7 DEF ReceiveInfos
  <2>2. CASE i = m
    <3>1. rebuild \in Rebuilds /\ "clear" \in {"idle", "clear", "fill", "done"}
          /\ {} \in SUBSET Servers
      BY Zenon DEF InfoTypes
    <3>2. rebuild'[i][n].at = "clear"
      BY Zenon, <2>1, <2>2, <3>1, RebuildAt
    <3> QED  BY Zenon, <3>2
  <2>3. CASE i # m
    <3>1. foreign'[i] = foreign[i] /\ rebuild'[i] = rebuild[i]
      BY Zenon, <2>1, <2>3 DEF InfoTypes, Rebuilds
    <3> QED  BY Zenon, <1>a, <2>1, <3>1
  <2> QED  BY Zenon, <2>2, <2>3
<1>8. ASSUME NEW n \in Members, NEW m \in Members, Answered(n, m) \/ CallLost(n, m) PROVE Goal
  <2>1. /\ UNCHANGED <<foreign, reach, owners>> /\ rebuild[m][n].at \in {"idle", "done"}
        /\ rebuild' = [rebuild EXCEPT ![m][n] = Resting]
    BY Zenon, <1>8 DEF Answered, CallLost
  <2>2. \A x \in Members : rebuild[i][x].at \in {"clear", "fill"} => rebuild'[i][x] = rebuild[i][x]
    BY Zenon, <2>1 DEF InfoTypes, Rebuilds
  <2> QED  BY Zenon, <1>a, <2>1, <2>2
<1>9. ASSUME NEW n \in Members, NEW x \in Members, ClearOwners(n, x) PROVE Goal
  <2>1. /\ UNCHANGED <<foreign, reach>> /\ owners' = [owners EXCEPT ![n] = {}]
        /\ rebuild' = [rebuild EXCEPT ![n][x] = Phase("fill", Servers \ {n})]
    BY Zenon, <1>9 DEF ClearOwners
  <2>2. CASE i = n
    <3>1. rebuild \in Rebuilds /\ "fill" \in {"idle", "clear", "fill", "done"}
          /\ Servers \ {n} \in SUBSET Servers
      BY Zenon DEF InfoTypes
    <3>2. rebuild'[n][x].at = "fill" /\ rebuild'[n][x].todo = Servers \ {n}
      BY Zenon, <2>1, <3>1, RebuildAt
    <3>3. t \in Servers \ {n}
      BY Zenon, <1>a, <2>2
    <3> QED  BY Zenon, <2>2, <3>2, <3>3
  <2>3. CASE i # n
    <3>1. owners'[i] = owners[i] /\ rebuild'[i] = rebuild[i]
      BY Zenon, <2>1, <2>3 DEF InfoTypes, Rebuilds
    <3>2. \/ t \in owners[i]
          \/ \E y \in Members : \/ rebuild[i][y].at = "clear"
                                \/ rebuild[i][y].at = "fill" /\ t \in rebuild[i][y].todo
      BY Zenon, <2>1 DEF OwnersInv
    <3> QED  BY Zenon, <3>1, <3>2
  <2> QED  BY Zenon, <2>2, <2>3
<1>10. ASSUME NEW n \in Members, NEW x \in Members, NEW s \in Servers, FillOwner(n, x, s) PROVE Goal
  <2>1. /\ UNCHANGED <<foreign, reach>> /\ rebuild[n][x].at = "fill" /\ s \in rebuild[n][x].todo
        /\ owners' = [owners EXCEPT ![n] = IF Serves(n, s) THEN @ \cup {s} ELSE @]
        /\ rebuild' = [rebuild EXCEPT ![n][x] = Phase("fill", @.todo \ {s})]
    BY Zenon, <1>10 DEF FillOwner
  <2>2. \A y \in Members : rebuild'[i][y] = IF i = n /\ y = x THEN Phase("fill", rebuild[n][x].todo \ {s})
                                            ELSE rebuild[i][y]
    BY Zenon, <2>1 DEF InfoTypes, Rebuilds
  <2>3. owners[i] \subseteq owners'[i]
    BY Zenon, <2>1 DEF InfoTypes
  <2>4. CASE i = n /\ t = s
    <3>1. Serves(n, s)
      BY Zenon, <2>1, <2>4 DEF Serves
    <3>2. t \in owners'[i]
      BY Zenon, <2>1, <2>4, <3>1 DEF InfoTypes
    <3> QED  BY Zenon, <3>2
  <2>5. CASE ~(i = n /\ t = s)
    <3>1. \/ t \in owners[i]
          \/ \E y \in Members : \/ rebuild[i][y].at = "clear"
                                \/ rebuild[i][y].at = "fill" /\ t \in rebuild[i][y].todo
      BY Zenon, <2>1 DEF OwnersInv
    <3>2. PICK r : r = Phase("fill", rebuild[n][x].todo \ {s})
      OBVIOUS
    <3>3. r.at = "fill" /\ r.todo = rebuild[n][x].todo \ {s}
      BY Zenon, <3>2 DEF Phase
    <3>4. ASSUME NEW y \in Members, rebuild[i][y].at = "clear" PROVE rebuild'[i][y].at = "clear"
      BY Zenon, <2>1, <2>2, <3>4
    <3>5. ASSUME NEW y \in Members, rebuild[i][y].at = "fill", t \in rebuild[i][y].todo
          PROVE  rebuild'[i][y].at = "fill" /\ t \in rebuild'[i][y].todo
      BY Zenon, <2>2, <2>5, <3>2, <3>3, <3>5
    <3> QED  BY Zenon, <2>3, <3>1, <3>4, <3>5
  <2> QED  BY Zenon, <2>4, <2>5
<1>11. ASSUME NEW n \in Members, NEW x \in Members, OwnersFound(n, x) PROVE Goal
  <2>1. /\ UNCHANGED <<foreign, reach, owners>> /\ rebuild[n][x].at = "fill" /\ rebuild[n][x].todo = {}
    BY Zenon, <1>11 DEF OwnersFound
  <2>a. PICK r : rebuild' = [rebuild EXCEPT ![n][x] = r]
    BY Zenon, <1>11 DEF OwnersFound
  <2>b. DOMAIN rebuild = Members /\ \A k \in Members : DOMAIN rebuild[k] = Members
    BY Zenon DEF InfoTypes, Rebuilds
  <2>2. \A y \in Members : ~(i = n /\ y = x) => rebuild'[i][y] = rebuild[i][y]
    BY <2>a, <2>b
  <2>3. \/ t \in owners[i]
        \/ \E y \in Members : \/ rebuild[i][y].at = "clear"
                              \/ rebuild[i][y].at = "fill" /\ t \in rebuild[i][y].todo
    BY Zenon, <2>1 DEF OwnersInv
  <2>4. ASSUME NEW y \in Members, \/ rebuild[i][y].at = "clear"
                                  \/ rebuild[i][y].at = "fill" /\ t \in rebuild[i][y].todo
        PROVE  rebuild'[i][y] = rebuild[i][y]
    BY Zenon, <2>1, <2>2, <2>4
  <2> QED  BY Zenon, <2>1, <2>3, <2>4
<1>12. CASE UNCHANGED infoVars
  BY Zenon, <1>12, <1>a DEF infoVars
<1> QED
  BY Zenon, <1>1, <1>2, <1>3, <1>4, <1>6, <1>7, <1>8, <1>9, <1>10, <1>11, <1>12, PairsAre DEF InfoNext
-----------------------------------------------------------------------------
(* The inductive invariant holds at first, ...                             *)
LEMMA InfoInvInit ==
    ASSUME InfoInit
    PROVE  InfoInv
<1> USE ForeignInfoAssumption DEF InfoInit
<1>0. NoInfo \in Infos /\ NoInfo.ver = 0 /\ NoInfo.peers = {} /\ DOMAIN Nothing = {}
      /\ Resting \in Phases /\ Resting.at = "idle"
  BY Zenon, PhaseIs DEF NoInfo, Infos, Nothing, Resting
<1>1. RequestTypes
  BY Zenon, <1>0 DEF RequestTypes
<1>2. InfoTypes
  BY SMTT(30), <1>0, <1>1 DEF InfoTypes, Rebuilds
<1>3. \A n \in Members, s \in Servers : had[n][s] = 0
  BY Zenon, <1>0 DEF had, Larger
<1>4. VersionInv
  <2>1. \A s \in Servers : listed[s] \div Second = 0
    BY DEF InfoInit
  <2>2. \A n, m \in Members, s \in Servers : known[n][m][s] = 0
    BY Zenon
  <2>3. \A n, m \in Members : request[n][m] = Nothing /\ rebuild[n][m] = Resting
    BY Zenon
  <2>4. 0 <= 0
    OBVIOUS
  <2>5. /\ \A n \in Members, s \in Servers : had[n][s] <= had[s][s]
        /\ \A n, m \in Members, s \in Servers : known[n][m][s] <= had[m][s]
        /\ \A s \in Servers : had[s][s] <= listed[s] \div Second
    BY Zenon, <1>3, <2>1, <2>2, <2>4
  <2> HIDE DEF InfoInit
  <2> QED  BY Zenon, <1>0, <2>3, <2>5 DEF VersionInv
<1>5. SaidOnce
  <2>1. \A s \in Servers : \A a \in Said[s] : a = <<0, {}>>
    BY Zenon, <1>0 DEF Said
  <2> QED  BY Zenon, <2>1 DEF SaidOnce
<1>6. OwnersInv
  BY Zenon, <1>0 DEF OwnersInv
<1> QED  BY Zenon, <1>2, <1>4, <1>5, <1>6 DEF InfoInv

(* ... is kept by every step, ...                                          *)
LEMMA InfoInvStep ==
    ASSUME InfoInv, [InfoNext]_infoVars
    PROVE  InfoInv'
<1>1. InfoTypes'
  BY Zenon, InfoTypesStep DEF InfoInv
<1>2. VersionInv'
  BY Zenon, <1>1, VersionInvStep DEF InfoInv
<1>3. SaidOnce' /\ OwnersInv'
  BY Zenon, SaidOnceStep, OwnersInvStep DEF InfoInv
<1> QED  BY Zenon, <1>1, <1>2, <1>3 DEF InfoInv

(* ... and gives the property.                                             *)
LEMMA InfoInvKnown ==
    ASSUME InfoInv
    PROVE  ForeignKnown
<1> USE ForeignInfoAssumption DEF InfoInv
<1>1. VersionIsOne
  <2> SUFFICES ASSUME NEW s \in Servers, NEW n \in Members, NEW m \in Members,
                      foreign[n][s].ver = foreign[m][s].ver
               PROVE  foreign[n][s].peers = foreign[m][s].peers
    BY Zenon DEF VersionIsOne
  <2>1. PICK a, b : /\ a = <<foreign[n][s].ver, foreign[n][s].peers>>
                    /\ b = <<foreign[m][s].ver, foreign[m][s].peers>>
    BY Zenon
  <2>2. a \in Said[s] /\ b \in Said[s]
    BY Zenon, <2>1, SaidHas
  <2>3. a[1] = b[1] => a[2] = b[2]
    BY Zenon, <2>2 DEF SaidOnce
  <2> QED  BY Zenon, <2>1, <2>3
<1>2. QuietAgree
  <2> SUFFICES ASSUME NEW p \in SyncPairs, Unknown(p[1], p[2]) = {}, Unknown(p[2], p[1]) = {},
                      NEW s \in Servers
               PROVE  \/ foreign[p[1]][s].ver = foreign[p[2]][s].ver
                      \/ Outlived(p[1], s) \/ Outlived(p[2], s)
    BY Zenon DEF QuietAgree
  <2>1. \A n, m \in Members : Unknown(n, m) = {} /\ ~Outlived(m, s)
                              => foreign[n][s].ver <= foreign[m][s].ver
    <3> SUFFICES ASSUME NEW n \in Members, NEW m \in Members, Unknown(n, m) = {}, ~Outlived(m, s)
                 PROVE  foreign[n][s].ver <= foreign[m][s].ver
      OBVIOUS
    <3>1. /\ foreign[n][s].ver \in Nat /\ foreign[m][s].ver \in Nat /\ lapsed[m][s] \in Nat
          /\ had[m][s] = Larger(foreign[m][s].ver, lapsed[m][s])
          /\ foreign[n][s].ver <= had[n][s] /\ had[n][s] \in Nat
      BY Zenon, HadTypes
    <3>2. had[m][s] = foreign[m][s].ver
      BY Zenon, <3>1 DEF Outlived, Larger
    <3>3. CASE s = m
      <4>1. had[n][s] <= had[m][s]
        BY Zenon, <3>3 DEF VersionInv
      <4> QED  BY <3>1, <3>2, <4>1
    <3>4. CASE s # m
      <4>1. foreign[n][s] = NoInfo \/ ~(known[n][m][s] < foreign[n][s].ver)
        BY Zenon, <3>4 DEF Unknown
      <4>2. known[n][m][s] <= had[m][s] /\ known[n][m][s] \in Nat
        <5>1. known[n][m][s] <= had[m][s]
          BY Zenon DEF VersionInv
        <5>2. known[n][m][s] \in Nat
          BY DEF InfoTypes
        <5> QED  BY Zenon, <5>1, <5>2
      <4>3. foreign[n][s].ver = 0 \/ ~(known[n][m][s] < foreign[n][s].ver)
        <5>1. NoInfo.ver = 0
          BY Zenon DEF NoInfo
        <5> QED  BY Zenon, <4>1, <5>1
      <4>4. PICK f, g, k : f = foreign[n][s].ver /\ g = foreign[m][s].ver /\ k = known[n][m][s]
        OBVIOUS
      <4>5. f \in Nat /\ g \in Nat /\ k \in Nat /\ k <= g /\ (f = 0 \/ ~(k < f))
        BY Zenon, <3>1, <3>2, <4>2, <4>3, <4>4
      <4>6. f <= g
        BY <4>5
      <4> QED  BY Zenon, <4>4, <4>6
    <3> QED  BY Zenon, <3>3, <3>4
  <2>2. p[1] \in Members /\ p[2] \in Members
    BY Zenon, PairsAre
  <2>3. foreign[p[1]][s].ver \in Nat /\ foreign[p[2]][s].ver \in Nat
    BY Zenon, <2>2, HadTypes
  <2> QED  BY <2>1, <2>2, <2>3
<1>3. OwnersFoundAll
  BY Zenon DEF OwnersFoundAll, OwnersInv, Serves
<1> QED  BY Zenon, <1>1, <1>2, <1>3 DEF ForeignKnown

(* In every reachable state what nodes have of one version is the same,    *)
(* two neighbours with nothing to send each other agree unless one of them *)
(* let a newer entry expire, and a node whose rebuilding of the owners has *)
(* ended finds every reachable server (sync_route_info and                 *)
(* update_foreign_network_owner_map of peer_ospf_route.rs).                *)
THEOREM ForeignAlwaysKnown == InfoSpec => []ForeignKnown
<1>1. InfoInit => InfoInv
  BY Zenon, InfoInvInit
<1>2. InfoInv /\ [InfoNext]_infoVars => InfoInv'
  BY Zenon, InfoInvStep
<1>3. InfoInv => ForeignKnown
  BY Zenon, InfoInvKnown
<1> QED  BY <1>1, <1>2, <1>3, PTL DEF InfoSpec
-----------------------------------------------------------------------------
(* What it takes to be a table.                                            *)
LEMMA TableIntro ==
    ASSUME NEW K, NEW V, NEW f,
           f = [x \in DOMAIN f |-> f[x]], DOMAIN f \subseteq K, \A x \in DOMAIN f : f[x] \in V
    PROVE  f \in Tables(K, V)
<1>1. f \in [DOMAIN f -> V]
  OBVIOUS
<1> QED BY Zenon, <1>1 DEF Tables

LEMMA TableElim ==
    ASSUME NEW K, NEW V, NEW f \in Tables(K, V)
    PROVE  /\ f = [x \in DOMAIN f |-> f[x]]
           /\ DOMAIN f \subseteq K
           /\ \A x \in DOMAIN f : f[x] \in V
<1>1. PICK S \in SUBSET K : f \in [S -> V]
  BY Zenon DEF Tables
<1> QED BY Zenon, <1>1

(* Adding or replacing an entry of a table.                                *)
LEMMA TablePutTable ==
    ASSUME NEW K, NEW V, NEW f \in Tables(K, V), NEW k \in K, NEW v \in V
    PROVE  /\ TablePut(f, k, v) \in Tables(K, V)
           /\ DOMAIN TablePut(f, k, v) = DOMAIN f \cup {k}
           /\ TablePut(f, k, v)[k] = v
           /\ \A x \in DOMAIN f \ {k} : TablePut(f, k, v)[x] = f[x]
<1> DEFINE g == TablePut(f, k, v)
<1>1. /\ DOMAIN g = DOMAIN f \cup {k}
      /\ g = [x \in DOMAIN g |-> g[x]]
      /\ g[k] = v
      /\ \A x \in DOMAIN f \ {k} : g[x] = f[x]
  BY Zenon DEF TablePut
<1> HIDE DEF g
<1>2. DOMAIN f \subseteq K /\ \A x \in DOMAIN f : f[x] \in V
  BY Zenon, TableElim
<1>3. g \in Tables(K, V)
  <2>1. DOMAIN g \subseteq K
    BY Zenon, <1>1, <1>2
  <2>2. \A x \in DOMAIN g : g[x] \in V
    BY Zenon, <1>1, <1>2
  <2> QED BY Zenon, <1>1, <2>1, <2>2, TableIntro
<1> QED BY Zenon, <1>1, <1>3 DEF g

LEMMA TableRemoveTable ==
    ASSUME NEW K, NEW V, NEW f \in Tables(K, V), NEW k
    PROVE  /\ TableRemove(f, k) \in Tables(K, V)
           /\ DOMAIN TableRemove(f, k) = DOMAIN f \ {k}
<1> DEFINE g == TableRemove(f, k)
<1>1. /\ DOMAIN g = DOMAIN f \ {k}
      /\ g = [x \in DOMAIN g |-> g[x]]
      /\ \A x \in DOMAIN g : g[x] = f[x]
  BY Zenon DEF TableRemove
<1> HIDE DEF g
<1>2. DOMAIN f \subseteq K /\ \A x \in DOMAIN f : f[x] \in V
  BY Zenon, TableElim
<1>3. g \in Tables(K, V)
  <2>1. DOMAIN g \subseteq K /\ \A x \in DOMAIN g : g[x] \in V
    BY Zenon, <1>1, <1>2
  <2> QED BY Zenon, <1>1, <2>1, TableIntro
<1> QED BY Zenon, <1>1, <1>3 DEF g

(* A vector that lists a set lists the set with one more element after a   *)
(* push_back.                                                              *)
LEMMA AppendLists ==
    ASSUME NEW T, NEW s \in Seq(T), NEW S, Lists(s, S), NEW x \in T, x \notin S
    PROVE  Lists(Append(s, x), S \cup {x})
<1> DEFINE t == Append(s, x)
<1>1. /\ Len(t) = Len(s) + 1 /\ DOMAIN t = 1 .. Len(s) + 1 /\ DOMAIN s = 1 .. Len(s)
      /\ Len(s) \in Nat
      /\ \A i \in 1 .. Len(s) : t[i] = s[i]
      /\ t[Len(s) + 1] = x
  OBVIOUS
<1> HIDE DEF t
<1>2. \A i \in 1 .. Len(s) : s[i] \in S
  BY Zenon, <1>1 DEF Lists, Entries
<1>3. Entries(t) = S \cup {x}
  <2>1. Entries(t) \subseteq S \cup {x}
    BY <1>1, <1>2 DEF Entries
  <2>2. \A y \in S : \E i \in 1 .. Len(s) : y = s[i]
    BY Zenon, <1>1 DEF Lists, Entries
  <2>3. \A y \in S : y \in Entries(t)
    BY <1>1, <2>2 DEF Entries
  <2>4. x \in Entries(t)
    BY <1>1 DEF Entries
  <2> QED BY Zenon, <2>1, <2>3, <2>4
<1>4. ASSUME NEW i \in DOMAIN t, NEW j \in DOMAIN t, t[i] = t[j]
      PROVE  i = j
  <2>1. \A k, l \in 1 .. Len(s) : s[k] = s[l] => k = l
    BY Zenon, <1>1 DEF Lists
  <2> QED BY <1>1, <1>2, <1>4, <2>1
<1> QED BY Zenon, <1>3, <1>4 DEF t, Lists

(* ... and the set without an element after vector::remove at its index.   *)
LEMMA RemoveLists ==
    ASSUME NEW T, NEW s \in Seq(T), NEW S, Lists(s, S), NEW x \in S
    PROVE  /\ RemoveIndex(s, IndexOf(s, x)) \in Seq(T)
           /\ Lists(RemoveIndex(s, IndexOf(s, x)), S \ {x})
<1> DEFINE k == IndexOf(s, x)
           t == RemoveIndex(s, k)
<1>1. DOMAIN s = 1 .. Len(s) /\ Len(s) \in Nat /\ \A i \in 1 .. Len(s) : s[i] \in T
  OBVIOUS
<1>2. \A i, j \in 1 .. Len(s) : s[i] = s[j] => i = j
  BY Zenon, <1>1 DEF Lists
<1>3. PICK e \in 1 .. Len(s) : s[e] = x
  BY Zenon, <1>1 DEF Lists, Entries
<1>4. k \in 1 .. Len(s) /\ s[k] = x
  <2>1. e \in DOMAIN s /\ s[e] = x /\ \A j \in DOMAIN s : s[j] = x => e <= j
    BY <1>1, <1>2, <1>3
  <2> QED BY Zenon, <1>1, <2>1 DEF IndexOf
<1> HIDE DEF k
<1>5. /\ Len(s) - 1 \in Nat
      /\ t \in Seq(T)
      /\ DOMAIN t = 1 .. Len(s) - 1
      /\ \A i \in 1 .. Len(s) - 1 : t[i] = IF i < k THEN s[i] ELSE s[i + 1]
  BY <1>1, <1>4 DEF RemoveIndex
<1> HIDE DEF t
<1>6. \A i, j \in DOMAIN t : t[i] = t[j] => i = j
  BY <1>1, <1>2, <1>4, <1>5
<1>7. Entries(t) = S \ {x}
  <2>1. \A i \in DOMAIN t : t[i] \in S \ {x}
    <3>1. \A i \in 1 .. Len(s) : s[i] \in S
      BY Zenon, <1>1 DEF Lists, Entries
    <3>2. \A i \in DOMAIN t : \E j \in 1 .. Len(s) : j # k /\ t[i] = s[j]
      BY <1>1, <1>4, <1>5
    <3> QED BY Zenon, <1>2, <1>4, <3>1, <3>2
  <2>2. ASSUME NEW y \in S \ {x}
        PROVE  y \in Entries(t)
    <3>1. PICK i \in 1 .. Len(s) : s[i] = y
      BY Zenon, <1>1 DEF Lists, Entries
    <3>2. i # k
      BY Zenon, <1>4, <3>1
    <3>3. CASE i < k
      <4>1. i \in DOMAIN t /\ t[i] = y
        BY <1>1, <1>4, <1>5, <3>1, <3>3
      <4> QED BY Zenon, <4>1 DEF Entries
    <3>4. CASE i > k
      <4>1. i - 1 \in DOMAIN t /\ t[i - 1] = y
        BY <1>1, <1>4, <1>5, <3>1, <3>4
      <4> QED BY Zenon, <4>1 DEF Entries
    <3> QED BY <1>1, <1>4, <3>2, <3>3, <3>4
  <2> QED BY Zenon, <2>1, <2>2 DEF Entries
<1> QED BY Zenon, <1>5, <1>6, <1>7 DEF t, k, Lists

-----------------------------------------------------------------------------
NetworkLists(n) == Lists(networks[n].exit_node_peer_ids, DOMAIN networks[n].exit_nodes)

(* Writing a network into the table of networks.                           *)
LEMMA NetworkPut ==
    ASSUME networks \in Tables(Name \ {EmptyName}, Network),
           NEW n, n \in Name \ {EmptyName}, NEW written \in Network,
           networks' = TablePut(networks, n, written)
    PROVE  /\ networks' \in Tables(Name \ {EmptyName}, Network)
           /\ DOMAIN networks' = DOMAIN networks \cup {n}
           /\ networks'[n] = written
           /\ \A m \in DOMAIN networks \ {n} : networks'[m] = networks[m]
<1>1. /\ DOMAIN networks' = DOMAIN networks \cup {n}
      /\ networks' = [x \in DOMAIN networks' |-> networks'[x]]
      /\ networks'[n] = written
      /\ \A m \in DOMAIN networks \ {n} : networks'[m] = networks[m]
  BY Zenon DEF TablePut
<1>2. DOMAIN networks \subseteq Name \ {EmptyName} /\ \A x \in DOMAIN networks : networks[x] \in Network
  BY Zenon, TableElim
<1>3. DOMAIN networks' \subseteq Name \ {EmptyName}
  BY Zenon, <1>1, <1>2
<1>4. \A x \in DOMAIN networks' : networks'[x] \in Network
  BY Zenon, <1>1, <1>2
<1>5. networks' \in Tables(Name \ {EmptyName}, Network)
  BY Zenon, <1>1, <1>3, <1>4, TableIntro
<1> QED BY Zenon, <1>1, <1>5

(* What remains to be shown of a transaction of an administrator: that the *)
(* new contents of the network are well typed and agree.                   *)
LEMMA AdministerStep ==
    ASSUME RegistryTypeOK, ListsAgree, NEW sender, NEW n, NEW written \in Network,
           Lists(written.exit_node_peer_ids, DOMAIN written.exit_nodes),
           Administer(sender, n, written)
    PROVE  RegistryTypeOK' /\ ListsAgree'
<1>1. /\ networks \in Tables(Name \ {EmptyName}, Network)
      /\ n \in DOMAIN networks
      /\ networks' = TablePut(networks, n, written)
      /\ network_names' = network_names
  BY Zenon DEF RegistryTypeOK, Administer
<1>2. n \in Name \ {EmptyName}
  BY Zenon, <1>1, TableElim
<1>3. /\ networks' \in Tables(Name \ {EmptyName}, Network)
      /\ DOMAIN networks' = DOMAIN networks \cup {n}
      /\ networks'[n] = written
      /\ \A m \in DOMAIN networks \ {n} : networks'[m] = networks[m]
  BY <1>1, <1>2, NetworkPut, Zenon
<1>4. DOMAIN networks' = DOMAIN networks
  BY Zenon, <1>1, <1>3
<1> QED BY Zenon, <1>1, <1>3, <1>4 DEF RegistryTypeOK, ListsAgree

LEMMA NetworkParts ==
    ASSUME RegistryTypeOK, ListsAgree, NEW n \in DOMAIN networks
    PROVE  networks[n] \in Network /\ NetworkLists(n)
<1>1. networks[n] \in Network
  BY Zenon, TableElim DEF RegistryTypeOK
<1> QED BY Zenon, <1>1 DEF ListsAgree, NetworkLists

(* Types and agreement are inductive together: the proof has a step per    *)
(* transaction.                                                            *)
LEMMA ListsStep ==
    ASSUME RegistryTypeOK, ListsAgree, [RegistryNext]_registryVars
    PROVE  RegistryTypeOK' /\ ListsAgree'
<1>1. CASE UNCHANGED registryVars
  BY Zenon, <1>1 DEF registryVars, RegistryTypeOK, ListsAgree
<1>2. ASSUME NEW sender \in Address, NEW n \in Name, NEW v \in Value, CreateNetwork(sender, n, v)
      PROVE  RegistryTypeOK' /\ ListsAgree'
  <2> DEFINE fresh == [admin |-> sender, value |-> v, is_active |-> TRUE,
                       exit_nodes |-> NoTable, exit_node_peer_ids |-> <<>>]
  <2>1. NoTable \in Tables(ExitPeer, ExitNode) /\ DOMAIN NoTable = {}
    BY Zenon, TableIntro DEF NoTable
  <2>2. fresh \in Network
    BY <2>1 DEF Network
  <2>3. Lists(fresh.exit_node_peer_ids, DOMAIN fresh.exit_nodes)
    BY <2>1 DEF Lists, Entries
  <2>4. /\ networks \in Tables(Name \ {EmptyName}, Network)
        /\ n \in Name \ {EmptyName} /\ n \notin DOMAIN networks
        /\ networks' = TablePut(networks, n, fresh)
        /\ network_names' = Append(network_names, n)
    BY Zenon, <1>2 DEF CreateNetwork, RegistryTypeOK
  <2> HIDE DEF fresh
  <2>5. /\ networks' \in Tables(Name \ {EmptyName}, Network)
        /\ DOMAIN networks' = DOMAIN networks \cup {n}
        /\ networks'[n] = fresh
        /\ \A m \in DOMAIN networks \ {n} : networks'[m] = networks[m]
    <3>1. PICK written \in Network : written = fresh
      BY Zenon, <2>2
    <3>2. networks' = TablePut(networks, n, written)
      BY Zenon, <2>4, <3>1
    <3> QED BY Zenon, <2>4, <3>1, <3>2, NetworkPut
  <2>6. network_names' \in Seq(Name) /\ Lists(network_names', DOMAIN networks')
    BY <2>4, <2>5, AppendLists DEF RegistryTypeOK, ListsAgree
  <2> QED BY Zenon, <2>3, <2>5, <2>6 DEF RegistryTypeOK, ListsAgree
<1>3. ASSUME NEW sender \in Address, NEW n \in Name, NEW v \in Value, UpdateNetwork(sender, n, v)
      PROVE  RegistryTypeOK' /\ ListsAgree'
  <2> DEFINE written == [networks[n] EXCEPT !.value = v]
  <2>1. n \in DOMAIN networks /\ Administer(sender, n, written)
    BY Zenon, <1>3 DEF UpdateNetwork, Administer
  <2>2. networks[n] \in Network /\ NetworkLists(n)
    BY Zenon, <2>1, NetworkParts
  <2>3. written \in Network /\ Lists(written.exit_node_peer_ids, DOMAIN written.exit_nodes)
    BY Zenon, <2>2 DEF Network, NetworkLists
  <2> QED BY Zenon, <2>1, <2>3, AdministerStep
<1>4. ASSUME NEW sender \in Address, NEW n \in Name, NEW is_active \in BOOLEAN,
             SetNetworkActive(sender, n, is_active)
      PROVE  RegistryTypeOK' /\ ListsAgree'
  <2> DEFINE written == [networks[n] EXCEPT !.is_active = is_active]
  <2>1. n \in DOMAIN networks /\ Administer(sender, n, written)
    BY Zenon, <1>4 DEF SetNetworkActive, Administer
  <2>2. networks[n] \in Network /\ NetworkLists(n)
    BY Zenon, <2>1, NetworkParts
  <2>3. written \in Network /\ Lists(written.exit_node_peer_ids, DOMAIN written.exit_nodes)
    BY Zenon, <2>2 DEF Network, NetworkLists
  <2> QED BY Zenon, <2>1, <2>3, AdministerStep
<1>5. ASSUME NEW sender \in Address, NEW n \in Name, NEW p \in ExitPeer, NEW v \in Value,
             AddExitNode(sender, n, p, v)
      PROVE  RegistryTypeOK' /\ ListsAgree'
  <2> DEFINE old == networks[n]
             node == [value |-> v, is_active |-> TRUE]
             written == [networks[n] EXCEPT !.exit_nodes = TablePut(@, p, node),
                                            !.exit_node_peer_ids = Listed(networks[n], p)]
  <2>1. n \in DOMAIN networks /\ Administer(sender, n, written)
    BY Zenon, <1>5 DEF AddExitNode, Administer
  <2>2. old \in Network /\ Lists(old.exit_node_peer_ids, DOMAIN old.exit_nodes)
    BY Zenon, <2>1, NetworkParts DEF NetworkLists
  <2>3. old.exit_nodes \in Tables(ExitPeer, ExitNode) /\ old.exit_node_peer_ids \in Seq(ExitPeer)
    BY Zenon, <2>2 DEF Network
  <2>4. node \in ExitNode
    BY Zenon DEF ExitNode
  <2> HIDE DEF node
  <2>5. /\ TablePut(old.exit_nodes, p, node) \in Tables(ExitPeer, ExitNode)
        /\ DOMAIN TablePut(old.exit_nodes, p, node) = DOMAIN old.exit_nodes \cup {p}
    <3>1. PICK nodes \in Tables(ExitPeer, ExitNode), new \in ExitNode :
              nodes = old.exit_nodes /\ new = node
      BY Zenon, <2>3, <2>4
    <3>2. /\ TablePut(nodes, p, new) \in Tables(ExitPeer, ExitNode)
          /\ DOMAIN TablePut(nodes, p, new) = DOMAIN nodes \cup {p}
      BY TablePutTable
    <3> QED BY Zenon, <3>1, <3>2
  <2>6. /\ Listed(old, p) \in Seq(ExitPeer)
        /\ Lists(Listed(old, p), DOMAIN old.exit_nodes \cup {p})
    <3>1. CASE p \in DOMAIN old.exit_nodes
      <4>1. DOMAIN old.exit_nodes \cup {p} = DOMAIN old.exit_nodes
        BY Zenon, <3>1
      <4> QED BY Zenon, <2>2, <2>3, <3>1, <4>1 DEF Listed
    <3>2. CASE p \notin DOMAIN old.exit_nodes
      BY <2>2, <2>3, <3>2, AppendLists DEF Listed
    <3> QED BY Zenon, <3>1, <3>2
  <2>7. /\ written.exit_nodes = TablePut(old.exit_nodes, p, node)
        /\ written.exit_node_peer_ids = Listed(old, p)
        /\ written \in Network
    BY Zenon, <2>2, <2>5, <2>6 DEF Network
  <2>8. Lists(written.exit_node_peer_ids, DOMAIN written.exit_nodes)
    BY Zenon, <2>5, <2>6, <2>7
  <2> QED BY Zenon, <2>1, <2>7, <2>8, AdministerStep
<1>6. ASSUME NEW sender \in Address, NEW n \in Name, NEW p \in ExitPeer, RemoveExitNode(sender, n, p)
      PROVE  RegistryTypeOK' /\ ListsAgree'
  <2> DEFINE old == networks[n]
             ids == old.exit_node_peer_ids
             shorter == RemoveIndex(ids, IndexOf(ids, p))
  <2>1. n \in DOMAIN networks
    BY Zenon, <1>6 DEF RemoveExitNode, Administer
  <2>2. old \in Network /\ Lists(ids, DOMAIN old.exit_nodes)
    BY Zenon, <2>1, NetworkParts DEF NetworkLists
  <2>3. old.exit_nodes \in Tables(ExitPeer, ExitNode) /\ ids \in Seq(ExitPeer)
    BY Zenon, <2>2 DEF Network
  <2>4. CASE p \notin DOMAIN old.exit_nodes
    <3>1. Administer(sender, n, old)
      BY Zenon, <1>6, <2>4 DEF RemoveExitNode
    <3> QED BY Zenon, <2>2, <3>1, AdministerStep
  <2>5. CASE p \in DOMAIN old.exit_nodes
    <3> DEFINE written == [networks[n] EXCEPT !.exit_nodes = TableRemove(@, p),
                                              !.exit_node_peer_ids = shorter]
    <3>1. p \in Entries(ids)
      BY Zenon, <2>2, <2>5 DEF Lists
    <3>2. Administer(sender, n, written)
      BY Zenon, <1>6, <2>5, <3>1 DEF RemoveExitNode
    <3>3. /\ TableRemove(old.exit_nodes, p) \in Tables(ExitPeer, ExitNode)
          /\ DOMAIN TableRemove(old.exit_nodes, p) = DOMAIN old.exit_nodes \ {p}
      <4>1. PICK nodes \in Tables(ExitPeer, ExitNode) : nodes = old.exit_nodes
        BY Zenon, <2>3
      <4>2. /\ TableRemove(nodes, p) \in Tables(ExitPeer, ExitNode)
            /\ DOMAIN TableRemove(nodes, p) = DOMAIN nodes \ {p}
        BY TableRemoveTable
      <4> QED BY Zenon, <4>1, <4>2
    <3>4. shorter \in Seq(ExitPeer) /\ Lists(shorter, DOMAIN old.exit_nodes \ {p})
      BY Zenon, <2>2, <2>3, <2>5, RemoveLists
    <3>5. /\ written.exit_nodes = TableRemove(old.exit_nodes, p)
          /\ written.exit_node_peer_ids = shorter
          /\ written \in Network
      BY Zenon, <2>2, <3>3, <3>4 DEF Network
    <3>6. Lists(written.exit_node_peer_ids, DOMAIN written.exit_nodes)
      BY Zenon, <3>3, <3>4, <3>5
    <3> QED BY Zenon, <3>2, <3>5, <3>6, AdministerStep
  <2> QED BY Zenon, <2>4, <2>5
<1>7. ASSUME NEW n \in Name, NEW p \in ExitPeer, NEW is_active \in BOOLEAN,
             UpdateExitNodeStatus(n, p, is_active)
      PROVE  RegistryTypeOK' /\ ListsAgree'
  <2> DEFINE old == networks[n]
             nodes == [old.exit_nodes EXCEPT ![p].is_active = is_active]
             written == [old EXCEPT !.exit_nodes = nodes]
  <2>1. /\ n \in DOMAIN networks /\ p \in DOMAIN old.exit_nodes
        /\ networks \in Tables(Name \ {EmptyName}, Network)
        /\ network_names' = network_names
        /\ networks' = [networks EXCEPT ![n].exit_nodes[p].is_active = is_active]
    BY Zenon, <1>7 DEF UpdateExitNodeStatus, RegistryTypeOK
  <2>2. old \in Network /\ Lists(old.exit_node_peer_ids, DOMAIN old.exit_nodes)
    BY Zenon, <2>1, NetworkParts DEF NetworkLists
  <2>3. old.exit_nodes \in Tables(ExitPeer, ExitNode)
    BY Zenon, <2>2 DEF Network
  <2>4. /\ old.exit_nodes = [x \in DOMAIN old.exit_nodes |-> old.exit_nodes[x]]
        /\ DOMAIN old.exit_nodes \subseteq ExitPeer
        /\ \A x \in DOMAIN old.exit_nodes : old.exit_nodes[x] \in ExitNode
    BY <2>3, TableElim
  <2>5. /\ nodes \in Tables(ExitPeer, ExitNode)
        /\ DOMAIN nodes = DOMAIN old.exit_nodes
    <3>1. /\ DOMAIN nodes = DOMAIN old.exit_nodes
          /\ nodes = [x \in DOMAIN nodes |-> nodes[x]]
      OBVIOUS
    <3>2. \A x \in DOMAIN nodes : nodes[x] \in ExitNode
      BY Zenon, <2>4 DEF ExitNode
    <3> QED BY Zenon, <2>4, <3>1, <3>2, TableIntro
  <2>6. /\ written \in Network
        /\ written.exit_node_peer_ids = old.exit_node_peer_ids
        /\ DOMAIN written.exit_nodes = DOMAIN old.exit_nodes
    BY Zenon, <2>2, <2>5 DEF Network
  <2>7. /\ networks = [m \in DOMAIN networks |-> networks[m]]
        /\ DOMAIN networks \subseteq Name \ {EmptyName}
        /\ \A m \in DOMAIN networks : networks[m] \in Network
    BY Zenon, <2>1, TableElim
  <2>8. /\ DOMAIN networks' = DOMAIN networks
        /\ networks' = [m \in DOMAIN networks' |-> networks'[m]]
        /\ networks'[n] = written
        /\ \A m \in DOMAIN networks \ {n} : networks'[m] = networks[m]
    BY Zenon, <2>1, <2>7
  <2> HIDE DEF written
  <2>9. networks' \in Tables(Name \ {EmptyName}, Network)
    <3>1. \A m \in DOMAIN networks' : networks'[m] \in Network
      BY Zenon, <2>6, <2>7, <2>8
    <3> QED BY Zenon, <2>7, <2>8, <3>1, TableIntro
  <2> QED BY Zenon, <2>1, <2>2, <2>6, <2>8, <2>9 DEF RegistryTypeOK, ListsAgree
<1> QED BY Zenon, <1>1, <1>2, <1>3, <1>4, <1>5, <1>6, <1>7 DEF RegistryNext

(* The tables of peerlink.move and the vectors beside them agree in every  *)
(* reachable state: create_network, add_exit_node (also of a node that is  *)
(* there) and remove_exit_node keep each key listed exactly once.          *)
THEOREM ListsAlwaysAgree == RegistrySpec => []ListsAgree
<1>1. RegistryInit => RegistryTypeOK /\ ListsAgree
  <2> SUFFICES ASSUME RegistryInit PROVE RegistryTypeOK /\ ListsAgree
    OBVIOUS
  <2>1. networks = NoTable /\ DOMAIN NoTable = {} /\ network_names = <<>>
    BY Zenon DEF RegistryInit, NoTable
  <2>2. NoTable \in Tables(Name \ {EmptyName}, Network)
    BY Zenon, <2>1, TableIntro DEF NoTable
  <2> QED BY <2>1, <2>2 DEF RegistryTypeOK, ListsAgree, Lists, Entries
<1>2. RegistryTypeOK /\ ListsAgree /\ [RegistryNext]_registryVars => (RegistryTypeOK /\ ListsAgree)'
  BY Zenon, ListsStep
<1> QED BY <1>1, <1>2, PTL DEF RegistrySpec

(* Whenever a network exists, get_exit_nodes does not abort on an id that  *)
(* has no entry, and pick_exit_node chooses among exactly the active nodes.*)
THEOREM AlwaysPicksActive == RegistrySpec => []PicksActive
<1>1. ListsAgree => PicksActive
  BY DEF ListsAgree, PicksActive, Lists, Entries, GetExitNodesAborts, Pickable
<1> QED BY <1>1, ListsAlwaysAgree, PTL

-----------------------------------------------------------------------------
(* A process and the registry.                                             *)
OnChain(n, p) == n \in DOMAIN networks /\ p \in DOMAIN networks[n].exit_nodes

ExitTypes ==
    /\ started \in Nat
    /\ routine \in [Inst -> {"none", "run", "add", "up", "ended", "notify", "joined"}]
    /\ call \in [Inst -> {"none", "sent", "executed", "aborted"}]
    /\ toClean \subseteq Inst /\ cleaning \subseteq Inst

(* Somebody will take an added node back: its thread, which waits for the  *)
(* answer, or one of the two lists, unless an answer was an error.         *)
Remembered ==
    \A i \in Inst : OnChain(NetworkOf(i), NodePeer(i)) =>
        i \in misreported \/ routine[i] = "add" \/ i \in toClean \/ i \in cleaning

ThreadsBegun ==
    \A i \in Inst : /\ i > started => routine[i] = "none"
                    /\ call[i] = "sent" => routine[i] = "add"

(* The second time main cleans, no thread is left to add to the list.      *)
Drained ==
    /\ main \notin {"clean", "last", "killed"} => cleaning = {}
    /\ main \in {"last", "exited"} => toClean = {} /\ \A i \in Inst : Joined(i)

ExitInv == RegistryTypeOK /\ ListsAgree /\ ExitTypes /\ Remembered /\ ThreadsBegun /\ Drained

LEMMA ConfigParts ==
    /\ Inst \subseteq Nat
    /\ \A i \in Inst : NetworkOf(i) \in Name \ {EmptyName} /\ NodePeer(i) \in ExitPeer
    /\ \A i, j \in Inst : NetworkOf(i) = NetworkOf(j) /\ NodePeer(i) = NodePeer(j) => i = j
<1> DEFINE Config == [network : Name \ {EmptyName}, peer : ExitPeer, exit : BOOLEAN, merged : BOOLEAN]
<1>1. Configs \in Seq(Config)
  BY Zenon, ExitAssumption
<1>2. \A c \in Config : c.network \in Name \ {EmptyName} /\ c.peer \in ExitPeer
  OBVIOUS
<1> HIDE DEF Config
<1>3. Inst \subseteq Nat /\ \A i \in Inst : Configs[i] \in Config
  BY <1>1 DEF Inst
<1> QED BY Zenon, <1>2, <1>3, ExitAssumption DEF NetworkOf, NodePeer

(* What a transaction does to the exit nodes on the chain.                 *)
LEMMA AdministerNodes ==
    ASSUME NEW sender, NEW n, NEW written, Administer(sender, n, written)
    PROVE  \A m, q : OnChain(m, q)' => IF m = n THEN q \in DOMAIN written.exit_nodes
                                       ELSE OnChain(m, q)
BY Zenon DEF Administer, TablePut, OnChain

LEMMA NodesKept ==
    ASSUME RegistryTypeOK, NEW sender, NEW n, NEW v, NEW is_active,
           CreateNetwork(sender, n, v) \/ SetNetworkActive(sender, n, is_active)
    PROVE  \A m, q : OnChain(m, q)' => OnChain(m, q)
<1>1. CASE CreateNetwork(sender, n, v)
  BY Zenon, <1>1 DEF CreateNetwork, TablePut, NoTable, OnChain
<1>2. CASE SetNetworkActive(sender, n, is_active)
  <2> DEFINE written == [networks[n] EXCEPT !.is_active = is_active]
  <2>1. Administer(sender, n, written) /\ n \in DOMAIN networks
    BY Zenon, <1>2 DEF SetNetworkActive, Administer
  <2>2. networks[n] \in Network
    BY Zenon, <2>1, TableElim DEF RegistryTypeOK
  <2>3. written.exit_nodes = networks[n].exit_nodes
    BY Zenon, <2>2 DEF Network
  <2> HIDE DEF written
  <2> QED BY Zenon, <2>1, <2>3, AdministerNodes DEF OnChain
<1> QED BY Zenon, <1>1, <1>2

LEMMA NodeAdded ==
    ASSUME RegistryTypeOK, NEW sender, NEW n, NEW p, NEW v, AddExitNode(sender, n, p, v)
    PROVE  \A m, q : OnChain(m, q)' => OnChain(m, q) \/ (m = n /\ q = p)
<1> DEFINE nodes == TablePut(networks[n].exit_nodes, p, [value |-> v, is_active |-> TRUE])
           written == [networks[n] EXCEPT !.exit_nodes = nodes,
                                          !.exit_node_peer_ids = Listed(networks[n], p)]
<1>1. Administer(sender, n, written) /\ n \in DOMAIN networks
  BY Zenon DEF AddExitNode, Administer
<1>2. networks[n] \in Network
  BY Zenon, <1>1, TableElim DEF RegistryTypeOK
<1>3. DOMAIN nodes = DOMAIN networks[n].exit_nodes \cup {p}
  BY Zenon DEF TablePut
<1> HIDE DEF nodes
<1>4. written.exit_nodes = nodes
  BY Zenon, <1>2 DEF Network
<1> HIDE DEF written
<1> QED BY <1>1, <1>3, <1>4, AdministerNodes DEF OnChain

LEMMA NodeRemoved ==
    ASSUME RegistryTypeOK, NEW sender, NEW n, NEW p, RemoveExitNode(sender, n, p)
    PROVE  \A m, q : OnChain(m, q)' => OnChain(m, q) /\ ~(m = n /\ q = p)
<1>1. n \in DOMAIN networks
  BY Zenon DEF RemoveExitNode, Administer
<1>2. networks[n] \in Network
  BY Zenon, <1>1, TableElim DEF RegistryTypeOK
<1>3. CASE p \notin DOMAIN networks[n].exit_nodes
  <2>1. Administer(sender, n, networks[n])
    BY Zenon, <1>3 DEF RemoveExitNode
  <2> QED BY Zenon, <1>1, <1>3, <2>1, AdministerNodes DEF OnChain
<1>4. CASE p \in DOMAIN networks[n].exit_nodes
  <2> DEFINE ids == networks[n].exit_node_peer_ids
             nodes == TableRemove(networks[n].exit_nodes, p)
             left == IF p \in Entries(ids) THEN RemoveIndex(ids, IndexOf(ids, p)) ELSE ids
             written == [networks[n] EXCEPT !.exit_nodes = nodes, !.exit_node_peer_ids = left]
  <2>1. Administer(sender, n, written)
    BY Zenon, <1>4 DEF RemoveExitNode
  <2>2. DOMAIN nodes = DOMAIN networks[n].exit_nodes \ {p}
    BY Zenon DEF TableRemove
  <2> HIDE DEF nodes, left
  <2>3. written.exit_nodes = nodes
    BY Zenon, <1>2 DEF Network
  <2> HIDE DEF written
  <2> QED BY Zenon, <1>1, <2>1, <2>2, <2>3, AdministerNodes DEF OnChain
<1> QED BY Zenon, <1>3, <1>4

LEMMA ExitInitial == ExitInit => ExitInv
<1> SUFFICES ASSUME ExitInit PROVE ExitInv
  OBVIOUS
<1>1. PICK a \in Address, v \in Value, o \in ExitPeer \ Own :
        networks = [n \in UsedNetworks |->
             [admin |-> a, value |-> v, is_active |-> TRUE,
              exit_nodes |-> [p \in {o} |-> [value |-> v, is_active |-> TRUE]],
              exit_node_peer_ids |-> <<o>>]]
  BY Zenon DEF ExitInit
<1> DEFINE nodes == [p \in {o} |-> [value |-> v, is_active |-> TRUE]]
           written == [admin |-> a, value |-> v, is_active |-> TRUE,
                       exit_nodes |-> nodes, exit_node_peer_ids |-> <<o>>]
<1>2. /\ DOMAIN networks = UsedNetworks /\ networks = [n \in DOMAIN networks |-> networks[n]]
      /\ \A n \in UsedNetworks : networks[n] = written
  BY Zenon, <1>1
<1>3. nodes \in Tables(ExitPeer, ExitNode) /\ DOMAIN nodes = {o}
  <2>1. nodes = [p \in DOMAIN nodes |-> nodes[p]] /\ DOMAIN nodes = {o}
        /\ \A p \in DOMAIN nodes : nodes[p] \in ExitNode
    BY Zenon DEF ExitNode
  <2> HIDE DEF nodes
  <2> QED BY Zenon, <2>1, TableIntro
<1> HIDE DEF nodes
<1>4. written \in Network /\ written.exit_nodes = nodes /\ written.exit_node_peer_ids = <<o>>
  BY <1>3 DEF Network
<1> HIDE DEF written
<1>5. UsedNetworks \subseteq Name \ {EmptyName}
  BY Zenon, ConfigParts DEF UsedNetworks
<1>6. RegistryTypeOK
  <2>1. networks \in Tables(Name \ {EmptyName}, Network)
    BY Zenon, <1>2, <1>4, <1>5, TableIntro
  <2>2. network_names \in Seq(Name)
    <3>1. PICK k \in Inst : network_names \in [1 .. k -> UsedNetworks]
      BY Zenon DEF ExitInit
    <3>2. k \in Nat /\ network_names \in [1 .. k -> Name]
      BY Zenon, <1>5, <3>1, ConfigParts
    <3> QED BY <3>2
  <2> QED BY Zenon, <2>1, <2>2 DEF RegistryTypeOK
<1>7. ListsAgree
  <2>1. Lists(<<o>>, {o})
    BY DEF Lists, Entries
  <2>2. Lists(network_names, DOMAIN networks)
    BY Zenon, <1>2 DEF ExitInit
  <2> QED BY Zenon, <1>2, <1>3, <1>4, <2>1, <2>2 DEF ListsAgree
<1>8. Remembered
  BY Zenon, <1>2, <1>3, <1>4 DEF Remembered, OnChain, Own
<1>9. ExitTypes /\ ThreadsBegun /\ Drained
  BY Zenon DEF ExitInit, ExitTypes, ThreadsBegun, Drained
<1> QED BY Zenon, <1>6, <1>7, <1>8, <1>9 DEF ExitInv

(* The process and the administrators change the registry only by its      *)
(* transactions.                                                           *)
LEMMA RegistryMoves ==
    ASSUME RegistryTypeOK, ListsAgree, ExitTypes, [ExitNext]_exitVars
    PROVE  RegistryTypeOK' /\ ListsAgree'
<1> SUFFICES [RegistryNext]_registryVars
  BY Zenon, ListsStep
<1>1. CASE Admin
  BY Zenon, <1>1 DEF Admin, RegistryNext, create_network, deactivate_network, reactivate_network,
     add_exit_node, remove_exit_node, handle_network_create, handle_network_deactivate,
     handle_network_reactivate, handle_network_add_exit_node, handle_network_remove_exit_node
<1>2. ASSUME NEW i \in Inst, Execute(i) PROVE [RegistryNext]_registryVars
  BY Zenon, <1>2, ConfigParts, ExitAssumption DEF Execute, add_exit_node, RegistryNext, registry, registryVars
<1>3. CASE RemoveNode
  <2>1. CASE UNCHANGED registry
    BY Zenon, <2>1 DEF registry, registryVars
  <2>2. ASSUME NEW i \in Inst, remove_exit_node(Wallet, NetworkOf(i), NodePeer(i))
        PROVE  RegistryNext
    BY Zenon, <2>2, ConfigParts, ExitAssumption DEF remove_exit_node, RegistryNext
  <2> QED BY Zenon, <1>3, <2>1, <2>2 DEF RemoveNode, ExitTypes
<1>4. CASE UNCHANGED registryVars
  BY Zenon, <1>4
<1>5. \/ Admin \/ RemoveNode \/ UNCHANGED registryVars \/ \E i \in Inst : Execute(i)
  BY Zenon DEF ExitNext, BootFails, CtrlC, Killed, Main, RunNetworkInstance, Booted, Wait, Cleaned,
     DropManager, Thread, InstanceRun, AddAnswered, StopNoticed, End, StopTask, exitVars, registry,
     registryVars
<1> QED BY Zenon, <1>1, <1>2, <1>3, <1>4, <1>5

(* A step that adds no node of ours to the chain and forgets none.         *)
LEMMA StillRemembered ==
    ASSUME Remembered, misreported \subseteq misreported',
           \A i \in Inst : OnChain(NetworkOf(i), NodePeer(i))' => OnChain(NetworkOf(i), NodePeer(i)),
           \A i \in Inst : i \in misreported' \/ (routine[i] = "add" => routine'[i] = "add")
                          \/ i \in toClean',
           toClean \cup cleaning \subseteq toClean' \cup cleaning'
    PROVE  Remembered'
BY Zenon DEF Remembered, NetworkOf, NodePeer

(* Each step of main, the threads, the chain and the administrators keeps  *)
(* the invariant.                                                          *)
LEMMA ExitStep == ExitInv /\ [ExitNext]_exitVars => ExitInv'
<1> SUFFICES ASSUME ExitInv, [ExitNext]_exitVars PROVE ExitInv'
  OBVIOUS
<1> DEFINE Mine(i) == OnChain(NetworkOf(i), NodePeer(i))
<1>1. /\ RegistryTypeOK /\ ListsAgree /\ ExitTypes /\ Remembered /\ ThreadsBegun /\ Drained
      /\ RegistryTypeOK' /\ ListsAgree'
  BY Zenon, RegistryMoves DEF ExitInv
<1>u. ASSUME UNCHANGED registry PROVE \A n, p : OnChain(n, p)' => OnChain(n, p)
  BY Zenon, <1>u DEF registry, OnChain
<1>2. CASE Admin
  <2>1. \A i \in Inst : Mine(i)' => Mine(i)
    <3>1. ASSUME NEW a \in Address, NEW n \in Name, NEW p \in ExitPeer \ Own, NEW v \in Value,
                 add_exit_node(a, n, p, v)
          PROVE  \A i \in Inst : Mine(i)' => Mine(i)
      BY SMTT(30), <1>1, <3>1, NodeAdded DEF add_exit_node, Own, NetworkOf, NodePeer
    <3>2. ASSUME NEW a \in Address, NEW n \in Name, NEW p \in ExitPeer, remove_exit_node(a, n, p)
          PROVE  \A i \in Inst : Mine(i)' => Mine(i)
      BY Zenon, <1>1, <3>2, NodeRemoved DEF remove_exit_node, NetworkOf, NodePeer
    <3>3. ASSUME NEW a \in Address, NEW n \in Name, NEW v \in Value, NEW b,
                 CreateNetwork(a, n, v) \/ SetNetworkActive(a, n, b)
          PROVE  \A i \in Inst : Mine(i)' => Mine(i)
      BY Zenon, <1>1, <3>3, NodesKept DEF NetworkOf, NodePeer
    <3>4. ASSUME NEW a \in Address, NEW n \in Name, NEW b, SetNetworkActive(a, n, b)
          PROVE  \A i \in Inst : Mine(i)' => Mine(i)
      <4>1. \A m, q : OnChain(m, q)' => OnChain(m, q)
        BY Zenon, <1>1, <3>4, NodesKept
      <4> QED BY Zenon, <4>1 DEF NetworkOf, NodePeer
    <3> HIDE DEF Mine
    <3> QED BY Zenon, <1>2, <3>1, <3>2, <3>3, <3>4
        DEF Admin, handle_network_create, handle_network_deactivate, handle_network_reactivate,
            handle_network_add_exit_node, handle_network_remove_exit_node, create_network,
            deactivate_network, reactivate_network
  <2>2. UNCHANGED <<main, started, threads, stop, permit, cleaning, misreported>>
    BY Zenon, <1>2 DEF Admin
  <2>3. Remembered'
    BY Zenon, <1>1, <2>1, <2>2, StillRemembered DEF threads
  <2> QED BY Zenon, <1>1, <2>2, <2>3 DEF ExitInv, ExitTypes, ThreadsBegun, Drained, Joined, threads
<1>3. CASE RunNetworkInstance
  <2> DEFINE i == started + 1
  <2>1. /\ i \in Inst /\ main = "boot" /\ started' = i /\ routine' = [routine EXCEPT ![i] = "run"]
        /\ UNCHANGED <<registry, main, call, toClean, cleaning, misreported>>
        /\ routine[i] = "none" /\ started \in Nat /\ i > started
    BY <1>1, <1>3 DEF RunNetworkInstance, ThreadsBegun, ExitTypes
  <2> HIDE DEF i
  <2>2. Remembered'
    BY Zenon, <1>1, <1>u, <2>1, StillRemembered DEF ExitTypes
  <2>3. ThreadsBegun'
    BY <1>1, <2>1, ConfigParts DEF ThreadsBegun, ExitTypes, i
  <2> QED BY <1>1, <2>1, <2>2, <2>3 DEF ExitInv, ExitTypes, Drained, i
<1>4. CASE BootFails \/ Booted \/ Killed \/ UNCHANGED exitVars
  <2>1. /\ UNCHANGED <<registry, started, threads, cleaning, misreported>>
        /\ main' = main \/ (main' \in {"drop", "wait"} /\ main = "boot") \/ main' = "killed"
    BY Zenon, <1>4 DEF BootFails, Booted, Killed, exitVars, registry, threads
  <2>2. Remembered'
    BY Zenon, <1>1, <1>u, <2>1, StillRemembered DEF threads
  <2> QED BY Zenon, <1>1, <2>1, <2>2 DEF ExitInv, ExitTypes, ThreadsBegun, Drained, Joined, threads
<1>5. ASSUME NEW i \in Inst, InstanceRun(i) \/ StopNoticed(i) \/ End(i) PROVE ExitInv'
  <2>1. /\ UNCHANGED <<registry, main, started, toClean, cleaning, misreported>>
        /\ routine[i] \in {"run", "up", "ended", "notify"}
        /\ \E r \in {"ended", "up", "notify", "joined"} :
              \/ routine' = [routine EXCEPT ![i] = r] /\ UNCHANGED call
              \/ routine' = [routine EXCEPT ![i] = "add"] /\ call' = [call EXCEPT ![i] = "sent"]
    BY Zenon, <1>5 DEF InstanceRun, StopNoticed, End
  <2>2. PICK r \in {"ended", "up", "notify", "joined"} :
              \/ routine' = [routine EXCEPT ![i] = r] /\ UNCHANGED call
              \/ routine' = [routine EXCEPT ![i] = "add"] /\ call' = [call EXCEPT ![i] = "sent"]
    BY Zenon, <2>1
  <2>3. \A j \in Inst : routine[j] = "add" => routine'[j] = "add"
    BY Zenon, <1>1, <2>1, <2>2 DEF ExitTypes
  <2>4. Remembered'
    BY Zenon, <1>1, <1>u, <2>1, <2>3, StillRemembered
  <2>5. ThreadsBegun'
    BY Zenon, <1>1, <2>1, <2>2 DEF ThreadsBegun, ExitTypes
  <2>6. ExitTypes'
    BY Zenon, <1>1, <2>1, <2>2 DEF ExitTypes
  <2>7. Drained'
    BY Zenon, <1>1, <2>1, <2>2 DEF Drained, Joined, ExitTypes
  <2> QED BY Zenon, <1>1, <2>4, <2>5, <2>6, <2>7 DEF ExitInv
<1>6. ASSUME NEW i \in Inst, Execute(i) PROVE ExitInv'
  <2>1. /\ call[i] = "sent" /\ routine[i] = "add"
        /\ \E c \in {"executed", "aborted"} : call' = [call EXCEPT ![i] = c]
        /\ UNCHANGED <<main, started, routine, toClean, cleaning, misreported>>
    BY Zenon, <1>1, <1>6 DEF Execute, ThreadsBegun
  <2>2. \A j \in Inst \ {i} : Mine(j)' => Mine(j)
    <3>1. CASE UNCHANGED registry
      BY Zenon, <1>u, <3>1
    <3>2. ASSUME NEW v \in Value, add_exit_node(Wallet, NetworkOf(i), NodePeer(i), v)
          PROVE  \A j \in Inst \ {i} : Mine(j)' => Mine(j)
      <4>1. \A m, q : OnChain(m, q)' => OnChain(m, q) \/ (m = NetworkOf(i) /\ q = NodePeer(i))
        BY Zenon, <1>1, <3>2, NodeAdded DEF add_exit_node
      <4> QED BY <4>1, ConfigParts
    <3> HIDE DEF Mine
    <3> QED BY Zenon, <1>6, <3>1, <3>2 DEF Execute
  <2>3. Remembered'
    BY Zenon, <1>1, <2>1, <2>2 DEF Remembered
  <2>4. ExitTypes' /\ ThreadsBegun'
    BY Zenon, <1>1, <2>1 DEF ExitTypes, ThreadsBegun
  <2>5. Drained'
    BY Zenon, <1>1, <2>1 DEF Drained, Joined
  <2> QED BY Zenon, <1>1, <2>3, <2>4, <2>5 DEF ExitInv
<1>7. ASSUME NEW i \in Inst, AddAnswered(i) PROVE ExitInv'
  <2>1. /\ UNCHANGED <<registry, main, started, call, cleaning>>
        /\ routine[i] = "add" /\ call[i] # "sent" /\ main \notin {"last", "exited"}
        /\ \/ toClean' = toClean \cup {i} /\ routine' = [routine EXCEPT ![i] = "up"]
              /\ UNCHANGED misreported
           \/ misreported' = misreported \cup {i} /\ routine' = [routine EXCEPT ![i] = "ended"]
              /\ UNCHANGED toClean
    BY Zenon, <1>1, <1>7 DEF AddAnswered, Drained, Joined
  <2>2. Remembered'
    BY Zenon, <1>1, <1>u, <2>1, StillRemembered DEF ExitTypes
  <2>3. ExitTypes' /\ ThreadsBegun'
    BY Zenon, <1>1, <2>1 DEF ExitTypes, ThreadsBegun
  <2>4. Drained'
    BY Zenon, <1>1, <2>1 DEF Drained
  <2> QED BY Zenon, <1>1, <2>2, <2>3, <2>4 DEF ExitInv
<1>8. ASSUME NEW i \in Inst, StopTask(i) PROVE ExitInv'
  <2>1. UNCHANGED <<registry, main, started, routine, call, toClean, cleaning, misreported>>
    BY Zenon, <1>8 DEF StopTask
  <2>2. Remembered'
    BY Zenon, <1>1, <1>u, <2>1, StillRemembered
  <2> QED BY Zenon, <1>1, <2>1, <2>2 DEF ExitInv, ExitTypes, ThreadsBegun, Drained, Joined
<1>9. CASE Wait \/ CtrlC \/ DropManager
  <2>1. /\ UNCHANGED <<registry, started, routine, call, misreported>>
        /\ main \in {"wait", "blocked", "drop"}
        /\ \/ main' \in {"wait", "blocked", "drop"} /\ UNCHANGED <<toClean, cleaning>>
           \/ main' \in {"clean", "last"} /\ cleaning' = toClean /\ toClean' = {}
        /\ main' = "last" => \A i \in Inst : Joined(i)
    BY Zenon, <1>9 DEF Wait, CtrlC, DropManager, Joined
  <2>2. cleaning = {}
    BY Zenon, <1>1, <2>1 DEF Drained
  <2>3. Remembered'
    BY Zenon, <1>1, <1>u, <2>1, <2>2, StillRemembered
  <2>4. ExitTypes' /\ ThreadsBegun'
    BY Zenon, <1>1, <2>1 DEF ExitTypes, ThreadsBegun
  <2>5. Drained'
    BY Zenon, <2>1, <2>2 DEF Drained, Joined
  <2> QED BY Zenon, <1>1, <2>3, <2>4, <2>5 DEF ExitInv
<1>10. CASE RemoveNode
  <2>1. PICK i \in cleaning :
          /\ cleaning' = cleaning \ {i}
          /\ \/ /\ remove_exit_node(Wallet, NetworkOf(i), NodePeer(i))
                /\ misreported' \in {misreported, misreported \cup {i}}
             \/ misreported' = misreported \cup {i} /\ UNCHANGED registry
    BY Zenon, <1>10 DEF RemoveNode
  <2>2. main \in {"clean", "last"} /\ UNCHANGED <<main, started, threads>>
    BY Zenon, <1>10 DEF RemoveNode
  <2>3. /\ misreported \subseteq misreported'
        /\ \A j \in Inst : Mine(j)' => Mine(j) /\ (j = i => j \in misreported')
    <3>1. CASE UNCHANGED registry /\ misreported' = misreported \cup {i}
      BY Zenon, <1>u, <3>1
    <3>2. CASE remove_exit_node(Wallet, NetworkOf(i), NodePeer(i))
      <4>1. \A m, q : OnChain(m, q)' => OnChain(m, q) /\ ~(m = NetworkOf(i) /\ q = NodePeer(i))
        BY Zenon, <1>1, <3>2, NodeRemoved DEF remove_exit_node
      <4>2. misreported \subseteq misreported'
        BY Zenon, <2>1
      <4> QED BY Zenon, <4>1, <4>2
    <3> HIDE DEF Mine
    <3> QED BY Zenon, <2>1, <3>1, <3>2
  <2>4. Remembered'
    BY Zenon, <1>1, <2>1, <2>2, <2>3 DEF Remembered, threads
  <2>5. ExitTypes' /\ ThreadsBegun'
    BY Zenon, <1>1, <2>1, <2>2 DEF ExitTypes, ThreadsBegun, threads
  <2>6. Drained'
    BY Zenon, <1>1, <2>2 DEF Drained, Joined, threads
  <2> QED BY Zenon, <1>1, <2>4, <2>5, <2>6 DEF ExitInv
<1>11. CASE Cleaned
  <2>1. /\ UNCHANGED <<registry, started, threads, cleaning, misreported>>
        /\ cleaning = {}
        /\ \/ main = "clean" /\ main' = "drop"
           \/ main = "last" /\ main' = "exited"
    BY Zenon, <1>11 DEF Cleaned
  <2>2. Remembered'
    BY Zenon, <1>1, <1>u, <2>1, StillRemembered DEF threads
  <2> QED BY Zenon, <1>1, <2>1, <2>2 DEF ExitInv, ExitTypes, ThreadsBegun, Drained, Joined, threads
<1> QED BY Zenon, <1>2, <1>3, <1>4, <1>5, <1>6, <1>7, <1>8, <1>9, <1>10, <1>11 DEF ExitNext, Main, Thread

(* When a process has ended by itself, by an error or by ctrl-c, the two   *)
(* rounds of cleanup_exit_nodes and the join of every instance's thread    *)
(* between them have left none of its exit nodes on the chain, whatever    *)
(* the administrators did, unless a call was answered with an error.       *)
THEOREM NeverLeftOnChain == ExitSpec => []NothingLeftOnChain
<1>1. ExitInv => NothingLeftOnChain
  BY Zenon DEF ExitInv, NothingLeftOnChain, Remembered, Drained, Joined, OnChain
<1> QED BY <1>1, ExitInitial, ExitStep, PTL DEF ExitSpec
=============================================================================
