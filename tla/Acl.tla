--------------------------------- MODULE Acl --------------------------------
(***************************************************************************)
(* The packet filter of a node: AclFilter with the processor it replaces   *)
(* when rules are reloaded, and AclProcessor with its rules, its cache of  *)
(* verdicts, its rate limiters and its connection table.  Several threads  *)
(* judge packets at the same time.                                         *)
(*                                                                         *)
(* A flow stands for the addresses, ports and protocol of a packet; a rule *)
(* names the flows its address, port and protocol conditions match.  The   *)
(* eviction of the oldest cache entries is the eviction of as many         *)
(* entries, whichever they are; whether a bucket has a token is open.      *)
(***************************************************************************)
EXTENDS Naturals, FiniteSets, Sequences

CONSTANTS Flow, Group, Judge,
          ChainOf,    \* ChainOf[f]: "Inbound", "Outbound" or "Forward"
          Acls,       \* configurations [chains, tcp, udp]: sequence of chains
                      \* [type, enabled, default, rules], flows on the whitelists
          Grouped,    \* flows of the peer whose groups change; the others have none
          CacheMax, MaxReloads

VARIABLES acl_enabled,
          processors,   \* all processors since the start, the last one is current:
                        \* [rules, defaults, cache]
          groups,       \* group_trust_map_cache: groups of a peer packets come from
          rate_limiters, conn_track,      \* shared by all processors
          judging       \* judging[j]: the packet a thread works on,
                        \* [at, by, packet, result] with its processor and what it has found

aclVars == <<acl_enabled, processors, groups, rate_limiters, conn_track, judging>>

-----------------------------------------------------------------------------
(* AclRuleBuilder: the whitelists become one more inbound chain.           *)
WhitelistRule(flows, priority, stateful) ==
    IF flows = {} THEN <<>>
    ELSE <<[priority |-> priority, enabled |-> TRUE, flows |-> flows, groups |-> {},
            action |-> "Allow", stateful |-> stateful, rate_limit |-> 0]>>

Whitelist(c) ==
    [type |-> "Inbound", enabled |-> TRUE, default |-> "Drop",
     rules |-> WhitelistRule(c.tcp, 1000, TRUE)
                 \o WhitelistRule(c.udp, IF c.tcp = {} THEN 1000 ELSE 999, FALSE)]

generate_acl_from_whitelists(c) ==
    IF c.tcp \cup c.udp = {} THEN c.chains ELSE Append(c.chains, Whitelist(c))

ChainTypes == {"Inbound", "Outbound", "Forward"}

First(S) == CHOOSE i \in S : \A k \in S : i <= k

(* Where the rules for chains of a type are: <<chain, rule>>.              *)
Enabled(acl, t) ==
    UNION {{<<c, i>> : i \in {k \in DOMAIN acl[c].rules : acl[c].rules[k].enabled}} :
              c \in {d \in DOMAIN acl : acl[d].enabled /\ acl[d].type = t}}

(* Chain after chain, and in a chain a stable sort, higher priority first. *)
Sorted(acl, p, q) ==
    LET pp == acl[p[1]].rules[p[2]].priority
        qp == acl[q[1]].rules[q[2]].priority
    IN  p[1] < q[1] \/ (p[1] = q[1] /\ (pp > qp \/ (pp = qp /\ p[2] <= q[2])))

build_rules(acl) ==
    [t \in ChainTypes |->
       LET at == Enabled(acl, t)
           place(n) == CHOOSE p \in at : Cardinality({q \in at : Sorted(acl, q, p)}) = n
       IN  [n \in 1 .. Cardinality(at) |-> acl[place(n)[1]].rules[place(n)[2]]]]

build_default_actions(acl) ==
    [t \in ChainTypes |->
       LET of == {i \in DOMAIN acl : acl[i].type = t}
       IN  IF of = {} THEN "Allow" ELSE acl[First(of)].default]

Processor(acl) == [rules |-> build_rules(acl), defaults |-> build_default_actions(acl),
                   cache |-> <<>>]

(* AclCacheEntry: a verdict, the limits of its rule and the flow to track. *)
CacheEntry(verdict, limits, tracked) ==
    [verdict |-> verdict, limits |-> limits, tracked |-> tracked]

Idle    == [at |-> "idle", by |-> 0, packet |-> <<>>, result |-> CacheEntry("none", {}, {})]
Dropped == [cache |-> <<>>]
HeldBy(i, jd) == \E j \in Judge : jd[j].at # "idle" /\ jd[j].by = i

(* Processors nobody holds any more are dropped, with their caches.        *)
Held(ps, jd) ==
    [i \in 1 .. Len(ps) |-> IF i = Len(ps) \/ HeldBy(i, jd) THEN ps[i] ELSE Dropped]

(* Instance::run has loaded the rules for the first time.                  *)
AclInit == /\ acl_enabled = TRUE
           /\ \E acl \in {generate_acl_from_whitelists(c) : c \in Acls} :
                 acl # <<>> /\ processors = <<Processor(acl)>>
           /\ groups = {} /\ rate_limiters = {} /\ conn_track = {}
           /\ judging = [j \in Judge |-> Idle]

-----------------------------------------------------------------------------

(* A new processor with an empty cache and the shared state of the old one *)
Load(acl) ==
    /\ processors' = Held(Append(processors, Processor(acl)), judging)
    /\ acl_enabled' = TRUE /\ UNCHANGED rate_limiters

(* reload_rules: without any rules, no filter.                             *)
ReloadRules ==
    /\ Len(processors) <= MaxReloads
    /\ \E acl \in {generate_acl_from_whitelists(c) : c \in Acls} :
          IF acl # <<>> THEN Load(acl)
          ELSE acl_enabled' = FALSE /\ UNCHANGED <<processors, rate_limiters>>
    /\ UNCHANGED <<groups, conn_track, judging>>

(* Routes bring other groups of the peer.                                  *)
GroupsChange == /\ groups' \in SUBSET Group
                /\ UNCHANGED <<acl_enabled, processors, rate_limiters, conn_track, judging>>

-----------------------------------------------------------------------------
(* extract_packet_info: the packet with the groups that routes know now.   *)
PacketInfo(f) == [flow |-> f, groups |-> IF f \in Grouped THEN groups ELSE {}]

(* process_packet_with_acl: the packet is read with the groups of now, and *)
(* the current processor is taken.  Packets that are not data, unreadable  *)
(* or of the QUIC proxy pass without a processor.                          *)
StartJudging(j, f) ==
    /\ acl_enabled /\ judging[j].at = "idle"
    /\ judging' = [judging EXCEPT ![j] =
          [at |-> "lookup", by |-> Len(processors), packet |-> PacketInfo(f), result |-> Idle.result]]
    /\ UNCHANGED <<acl_enabled, processors, groups, rate_limiters, conn_track>>

(* Mutant: the groups are no part of the key.                              *)
FlowKey(p) == <<p.flow, {}>>

from_packet_info(p) == <<p.flow, p.groups>>

Decides(j, verdict) ==
    judging' = [judging EXCEPT ![j].at = "decided", ![j].result = CacheEntry(verdict, {}, {})]

(* A bucket that is not there is created, or the thread panics.            *)
CheckRateLimit(j, key, allow_create, verdict) ==
    IF key \notin rate_limiters /\ ~allow_create
    THEN Decides(j, "panic") /\ UNCHANGED rate_limiters
    ELSE /\ rate_limiters' = rate_limiters \cup {key}
         /\ Decides(j, verdict) \/ Decides(j, "RateLimitDrop")

(* A connection of a stateful rule enters the table, or is seen again.     *)
check_connection_state(flows) == conn_track' = conn_track \cup flows

(* The entry is used under its lock: limits first, then the connection     *)
(* table, then the verdict.                                                *)
CacheHit(j) ==
    LET cache == processors[judging[j].by].cache
        key == from_packet_info(judging[j].packet)
    IN  /\ judging[j].at = "lookup" /\ key \in DOMAIN cache
        /\ IF cache[key].limits = {}
           THEN Decides(j, cache[key].verdict) /\ UNCHANGED rate_limiters
           ELSE \E k \in cache[key].limits : CheckRateLimit(j, k, FALSE, cache[key].verdict)
        /\ check_connection_state(IF judging'[j].result.verdict = cache[key].verdict
                                  THEN cache[key].tracked ELSE {})
        /\ UNCHANGED <<acl_enabled, processors, groups>>

rule_matches(r, p) ==
    /\ r.flows = {} \/ p.flow \in r.flows
    /\ r.groups = {} \/ r.groups \cap p.groups # {}

Matching(rules, p) == {i \in DOMAIN rules : rules[i].enabled /\ rule_matches(rules[i], p)}

(* process_packet without an entry: the first rule that matches, or the    *)
(* default.                                                                *)
RuleResult(rules, default, chain, p) ==
    IF Matching(rules, p) = {} THEN CacheEntry(default, {}, {})
    ELSE LET r == rules[First(Matching(rules, p))]
         IN  CacheEntry(r.action, IF r.rate_limit = 0 THEN {} ELSE {<<chain, r.priority>>},
                        IF r.stateful /\ r.action = "Allow" THEN {p.flow} ELSE {})

EvaluateRules(j) ==
    LET p == judging[j].packet
        processor == processors[judging[j].by]
        chain == ChainOf[p.flow]
        result == RuleResult(processor.rules[chain], processor.defaults[chain], chain, p)
    IN  /\ judging[j].at = "lookup" /\ from_packet_info(p) \notin DOMAIN processor.cache
        /\ rate_limiters' = rate_limiters \cup result.limits
        /\ \/ /\ judging' = [judging EXCEPT ![j].at = "cache", ![j].result = result]
              /\ check_connection_state(result.tracked)
           \/ /\ result.limits # {}
              /\ Decides(j, "RateLimitDrop") /\ UNCHANGED conn_track
        /\ UNCHANGED <<acl_enabled, processors, groups>>

(* cleanup_cache: what is left of a cache that is too large.               *)
Evicted(cache) ==
    LET n == Cardinality(DOMAIN cache)
        remove == n - CacheMax + CacheMax \div 5
    IN  IF n <= CacheMax THEN {cache}
        ELSE {[k \in DOMAIN cache \ gone |-> cache[k]] :
                gone \in {S \in SUBSET DOMAIN cache :
                            Cardinality(S) = IF remove > n THEN n ELSE remove}}

WithEntry(cache, key, entry) ==
    [k \in DOMAIN cache \cup {key} |-> IF k = key THEN entry ELSE cache[k]]
WithCache(i, c) == [processors EXCEPT ![i].cache = c]

CacheResult(j) ==
    LET by == judging[j].by
        more == WithEntry(processors[by].cache, from_packet_info(judging[j].packet), judging[j].result)
    IN  /\ judging[j].at = "cache"
        /\ \E c \in IF Cardinality(DOMAIN more) > 2 * CacheMax THEN Evicted(more) ELSE {more} :
              processors' = WithCache(by, c)
        /\ Decides(j, judging[j].result.verdict)
        /\ UNCHANGED <<acl_enabled, groups, rate_limiters, conn_track>>

HandleAclResult(j) ==
    /\ judging[j].at = "decided" /\ judging[j].result.verdict # "panic"
    /\ judging' = [judging EXCEPT ![j] = Idle]
    /\ processors' = Held(processors, judging')
    /\ UNCHANGED <<acl_enabled, groups, rate_limiters, conn_track>>

(* The two tasks of a processor; they end with it, when no thread has it.  *)
CleanupCache(i) ==
    /\ Cardinality(DOMAIN processors[i].cache) > CacheMax
    /\ i = Len(processors) \/ HeldBy(i, judging)
    /\ \E c \in Evicted(processors[i].cache) : processors' = WithCache(i, c)
    /\ UNCHANGED <<acl_enabled, groups, rate_limiters, conn_track, judging>>

CleanupExpiredConnections ==
    /\ conn_track # {} /\ conn_track' \in SUBSET conn_track
    /\ UNCHANGED <<acl_enabled, processors, groups, rate_limiters, judging>>

AclNext ==
    \/ ReloadRules \/ GroupsChange \/ CleanupExpiredConnections
    \/ \E i \in DOMAIN processors : CleanupCache(i)
    \/ \E j \in Judge :
          \/ \E f \in Flow : StartJudging(j, f)
          \/ CacheHit(j) \/ EvaluateRules(j) \/ CacheResult(j) \/ HandleAclResult(j)

AclSpec == AclInit /\ [][AclNext]_aclVars

-----------------------------------------------------------------------------
(* What rules say of a flow whose peer has groups g.                       *)
Ruling(rules, default, f, g) ==
    LET matching == {k \in DOMAIN rules : /\ rules[k].enabled
                                          /\ rules[k].flows = {} \/ f \in rules[k].flows
                                          /\ rules[k].groups = {} \/ rules[k].groups \cap g # {}}
    IN  IF matching = {} THEN default
        ELSE rules[CHOOSE k \in matching : \A l \in matching : k <= l].action

RuledBy(i, f, g) ==
    Ruling(processors[i].rules[ChainOf[f]], processors[i].defaults[ChainOf[f]], f, g)

(* A verdict is the one the rules give a packet with its groups, whether   *)
(* it comes from the cache or not, whatever was reloaded, changed and      *)
(* evicted in between, or the packet is over a rate limit of that rule; no *)
(* thread finds the bucket of a cached limit missing.                      *)
VerdictByRules ==
    \A j \in Judge : judging[j].at = "decided" =>
        judging[j].result.verdict \in
            {RuledBy(judging[j].by, judging[j].packet.flow, judging[j].packet.groups), "RateLimitDrop"}
=============================================================================
