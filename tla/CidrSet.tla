------------------------------- MODULE CidrSet ------------------------------
(***************************************************************************)
(* The subnets a node gives access to, gateway/mod.rs.  Every proxy has a  *)
(* CidrSet whose task looks at the configuration once a second and, when   *)
(* it has changed, clears and refills a list of subnets and a table from   *)
(* the subnets peers use to the real ones, while packets are being looked  *)
(* up.  Nothing changes the configuration while an instance runs: the list *)
(* is filled once.  An address is <<subnet, host>>.                        *)
(***************************************************************************)
EXTENDS Naturals, Sequences

CONSTANT Configs   \* values of get_proxy_cidrs: sequences of [cidr, mapped]

(* A subnet that peers use stands for one real subnet; add_proxy_cidr does *)
(* not check that.                                                         *)
ASSUME ConfigsAssumption == \A cidrs \in Configs :
    /\ Len(cidrs) \in Nat /\ DOMAIN cidrs = 1 .. Len(cidrs)
    /\ \A i, j \in DOMAIN cidrs : cidrs[i].mapped = cidrs[j].mapped => cidrs[i].cidr = cidrs[j].cidr

VARIABLES conf,             \* get_proxy_cidrs
          cidr_set,         \* sequence of subnets
          mapped_to_real,   \* set of <<mapped, real>>
          updater           \* locals of the task: [pc, last, next]

cidrVars == <<conf, cidr_set, mapped_to_real, updater>>

CidrInit == /\ conf \in Configs
            /\ cidr_set = <<>> /\ mapped_to_real = {}
            /\ updater = [pc |-> "sleep", last |-> <<>>, next |-> 1]

NoticeChange ==
    /\ updater.pc = "sleep" /\ conf # updater.last
    /\ updater' = [pc |-> "clear", last |-> conf, next |-> 1]
    /\ mapped_to_real' = {}
    /\ UNCHANGED <<conf, cidr_set>>

ClearCidrs == /\ updater.pc = "clear" /\ cidr_set' = <<>>
              /\ updater' = [updater EXCEPT !.pc = "push"]
              /\ UNCHANGED <<conf, mapped_to_real>>

PushCidr ==
    /\ updater.pc = "push"
    /\ IF updater.next > Len(updater.last)
       THEN updater' = [updater EXCEPT !.pc = "sleep"] /\ UNCHANGED cidr_set
       ELSE /\ cidr_set' = Append(cidr_set, updater.last[updater.next].mapped)
            /\ updater' = [updater EXCEPT !.pc = "insert"]
    /\ UNCHANGED <<conf, mapped_to_real>>

InsertMapping ==
    /\ updater.pc = "insert"
    /\ LET c == updater.last[updater.next]
       IN  mapped_to_real' = IF c.mapped = c.cidr THEN mapped_to_real
                             ELSE {m \in mapped_to_real : m[1] # c.mapped} \cup {<<c.mapped, c.cidr>>}
    /\ updater' = [updater EXCEPT !.pc = "push", !.next = @ + 1]
    /\ UNCHANGED <<conf, cidr_set>>

CidrNext == NoticeChange \/ ClearCidrs \/ PushCidr \/ InsertMapping

-----------------------------------------------------------------------------
InCidrs(a) == \E i \in DOMAIN cidr_set : cidr_set[i] = a[1]

(* The list is locked, the table is read when the subnet has been found.   *)
RealIp(a) == IF InCidrs(a) /\ \E m \in mapped_to_real : m[1] = a[1]
             THEN <<(CHOOSE m \in mapped_to_real : m[1] = a[1])[2], a[2]>>
             ELSE a

(* The real address of a under a whole configuration.                      *)
Configured(a, cidrs) ==
    IF \E i \in DOMAIN cidrs : cidrs[i].mapped = a[1]
    THEN <<cidrs[CHOOSE i \in DOMAIN cidrs : cidrs[i].mapped = a[1]].cidr, a[2]>>
    ELSE a
=============================================================================
