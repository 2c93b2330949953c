------------------------------- MODULE Config --------------------------------
(***************************************************************************)
(* The configuration of an instance: NetworkConfig as the web interface    *)
(* has it, gen_config and new_from_config (launcher.rs), the loader with   *)
(* its defaults and its text form (common/config.rs), and the command line *)
(* merged over a configuration file (NetworkOptions of peerlink-core.rs).  *)
(*                                                                         *)
(* Options that are treated alike are represented by one: a flag that is   *)
(* copied ("plain"), one stored negated ("negated": enable_ipv6,           *)
(* enable_encryption), one whose default is TRUE ("on"), the two that the  *)
(* conversions treat in a way of their own ("sym" for                      *)
(* disable_sym_hole_punching) and those NetworkConfig lacks ("cli"); one   *)
(* list that is absent when empty, "exits".  A text that does not parse is *)
(* Bad; every other text parses to what it names.                          *)
(***************************************************************************)
EXTENDS Naturals, Sequences, SequencesExt

CONSTANTS None, Bad,
          WebConfigs,   \* NetworkConfigs to convert
          Extras,       \* what a file may set besides: flag "cli", stun, rpc address
          Options       \* command lines

VARIABLES phase, web, extra, opts,
          cfg,          \* the configuration gen_config made
          now           \* what the later stages made of it

configVars == <<phase, web, extra, opts, cfg, now>>

Or(x, default) == IF x = None THEN default ELSE x
Texts(s) == SelectSeq(s, LAMBDA t : t # "")
ParseAll(s) == \A i \in DOMAIN s : s[i] # Bad

(* gen_default_flags, and an absent list of relayed networks, "*".         *)
FlagNames == {"plain", "negated", "on", "sym", "cli"}
DefaultFlags == [f \in FlagNames |-> f \in {"negated", "on"}]

-----------------------------------------------------------------------------
(* gen_config                                                              *)
GenAddress(w) ==
    IF Or(w.dhcp, FALSE) \/ Or(w.ipv4, "") = "" THEN None
    ELSE <<w.ipv4, Or(w.length, 24)>>

GenPeers(w) ==
    CASE w.method = "public"     -> <<Or(w.server, "")>>
      [] w.method = "manual"     -> Texts(w.peers)
      [] w.method = "standalone" -> <<>>

(* add_proxy_cidr: a mapped network is as long as the real one.            *)
AddProxy(cidrs, c) == IF Contains(cidrs, c) THEN cidrs ELSE Append(cidrs, c)
GenProxies(s) == FoldLeft(AddProxy, <<>>, s)
ProxyFits(c) == c # Bad /\ (c.mapped = None \/ c.mapped = c.length)

GenFlags(w) == [f \in FlagNames |-> IF f = "cli" \/ w.flags[f] = None THEN DefaultFlags[f]
                                    ELSE IF f = "negated" THEN ~w.flags[f] ELSE w.flags[f]]

GenRelayed(w) == IF w.relay THEN w.relayed ELSE <<"*">>

(* The ports make addresses of any interface.                              *)
AnyAddress(port) == [ip |-> "any", port |-> port]

GenConfig(w) ==
    [name |-> Or(w.name, ""), dhcp |-> Or(w.dhcp, FALSE), ipv4 |-> GenAddress(w),
     peers |-> GenPeers(w), listeners |-> Texts(w.listeners), proxies |-> GenProxies(w.proxies),
     rpc |-> AnyAddress(Or(w.rpc_port, 0)),
     vpn |-> IF w.vpn = None THEN None ELSE AnyAddress(w.vpn),
     routes |-> IF w.manual_routes THEN w.routes ELSE None,
     exits |-> w.exits,
     socks5 |-> IF w.socks5 THEN w.socks5_port ELSE None,
     flags |-> GenFlags(w), relayed |-> GenRelayed(w), stun |-> None]

(* What gen_config refuses: a text it must parse and cannot.               *)
GenFails(w) ==
    \/ ~Or(w.dhcp, FALSE) /\ w.ipv4 = Bad
    \/ w.method = "public" /\ Or(w.server, "") \in {"", Bad}
    \/ ~ParseAll(GenPeers(w)) \/ ~ParseAll(w.listeners) \/ ~ParseAll(w.exits)
    \/ w.manual_routes /\ ~ParseAll(w.routes)
    \/ \E i \in DOMAIN w.proxies : ~ProxyFits(w.proxies[i])

-----------------------------------------------------------------------------
(* new_from_config.  The getter of the address turns a host into a /24.    *)
GetIpv4(c) == IF c.ipv4 # None /\ c.ipv4[2] = 32 THEN <<c.ipv4[1], 24>> ELSE c.ipv4

NewFlags(c) == [f \in FlagNames \ {"cli"} |-> IF f = "sym" THEN None
                                            ELSE IF f = "negated" THEN ~c.flags[f] ELSE c.flags[f]]

NewFromConfig(c) ==
    LET restricted == c.relayed \notin {<<>>, <<"*">>}
        manual == c.routes \notin {None, <<>>}
    IN  [name |-> c.name, dhcp |-> c.dhcp,
         ipv4 |-> IF c.ipv4 = None THEN None ELSE GetIpv4(c)[1],
         length |-> IF c.ipv4 = None THEN None ELSE GetIpv4(c)[2],
         method |-> CASE Len(c.peers) = 1 -> "public"
                      [] c.peers = <<>>   -> "standalone"
                      [] OTHER            -> "manual",
         server |-> IF Len(c.peers) = 1 THEN c.peers[1] ELSE None,
         peers |-> IF Len(c.peers) > 1 THEN c.peers ELSE <<>>,
         listeners |-> c.listeners, proxies |-> c.proxies, rpc_port |-> c.rpc.port,
         vpn |-> IF c.vpn = None THEN None ELSE c.vpn.port,
         manual_routes |-> manual, routes |-> IF manual THEN c.routes ELSE <<>>,
         exits |-> c.exits,
         socks5 |-> c.socks5 # None, socks5_port |-> c.socks5,
         flags |-> NewFlags(c),
         relay |-> restricted, relayed |-> IF restricted THEN c.relayed ELSE <<>>]

-----------------------------------------------------------------------------
(* dump writes the flags that differ from the default, new_from_str puts   *)
(* the defaults under what it reads.                                       *)
Written(flags) == {f \in FlagNames : flags[f] # DefaultFlags[f]}

(* Mutant: only flags that are set are written.                            *)
DumpFlagsSet(flags) == [f \in {g \in Written(flags) : flags[g]} |-> flags[f]]

DumpFlags(flags) == [f \in Written(flags) |-> flags[f]]

LoadFlags(text) == [f \in FlagNames |-> IF f \in DOMAIN text THEN text[f] ELSE DefaultFlags[f]]

DumpAndLoad(c) == [c EXCEPT !.flags = LoadFlags(DumpFlags(@))]

-----------------------------------------------------------------------------
(* merge_into: an option replaces what the file says or is appended to it; *)
(* flag "sym" and the STUN servers are taken from the command line even if *)
(* they are not on it.                                                     *)
MergeFlags(o, flags) ==
    [f \in FlagNames |-> IF f = "sym" THEN Or(o.flags[f], FALSE)
                         ELSE IF o.flags[f] = None THEN flags[f]
                         ELSE IF f = "negated" THEN ~o.flags[f] ELSE o.flags[f]]

MergeInto(o, c) ==
    [c EXCEPT !.name = Or(o.name, @), !.dhcp = Or(o.dhcp, @), !.ipv4 = Or(o.ipv4, @),
              !.peers = @ \o o.peers,
              !.listeners = Or(o.listeners, @),
              !.proxies = FoldLeft(AddProxy, @, o.proxies),
              !.rpc = Or(o.rpc, @), !.routes = Or(o.routes, @),
              !.exits = IF o.exits = <<>> THEN @ ELSE o.exits,
              !.flags = MergeFlags(o, @), !.relayed = Or(o.relayed, @), !.stun = o.stun]

(* A failure leaves the command; nothing is started.                       *)
MergeFails(o) == \/ o.ipv4 = Bad \/ ~ParseAll(o.peers)
                 \/ \E i \in DOMAIN o.proxies : ~ProxyFits(o.proxies[i])

-----------------------------------------------------------------------------
ConfigInit ==
    /\ phase = "web"
    /\ web \in WebConfigs /\ extra \in Extras /\ opts \in Options
    /\ cfg = None /\ now = None

Gen == /\ phase = "web" /\ ~GenFails(web)
       /\ phase' = "made"
       /\ cfg' = [GenConfig(web) EXCEPT !.flags["cli"] = extra.flag, !.stun = extra.stun,
                                        !.rpc = Or(extra.rpc, @)]
       /\ now' = cfg'
       /\ UNCHANGED <<web, extra, opts>>

Refuse == /\ phase = "web" /\ GenFails(web)
          /\ phase' = "refused"
          /\ UNCHANGED <<web, extra, opts, cfg, now>>

Reload == /\ phase = "made" /\ phase' = "loaded" /\ now' = DumpAndLoad(cfg)
          /\ UNCHANGED <<web, extra, opts, cfg>>

Merge == /\ phase = "loaded" /\ ~MergeFails(opts)
         /\ phase' = "merged" /\ now' = MergeInto(opts, now)
         /\ UNCHANGED <<web, extra, opts, cfg>>

Back == /\ phase = "loaded"
        /\ phase' = "again" /\ now' = GenConfig(NewFromConfig(now))
        /\ UNCHANGED <<web, extra, opts, cfg>>

ConfigNext == Gen \/ Refuse \/ Reload \/ Merge \/ Back

-----------------------------------------------------------------------------
(* What gen_config makes can always be converted back and made again.      *)
(* Saving and reading a configuration changes nothing.  A command line     *)
(* without options changes nothing but flag "sym" and the STUN servers,    *)
(* and any command line keeps the peers and proxied networks of the file.  *)
(* Turning a configuration into a NetworkConfig and back gives the same    *)
(* again, except: the address 0.0.0.0 of the portal, the flags and servers *)
(* NetworkConfig has not, flag "sym", manual routes or a list of relayed   *)
(* networks that are empty, which become the automatic ones.               *)
ConfigKept ==
    /\ phase = "loaded" => now = cfg
    /\ phase = "merged" =>
         /\ IsPrefix(cfg.peers, now.peers) /\ IsPrefix(cfg.proxies, now.proxies)
         /\ \A f \in FlagNames \ {"sym"} : opts.flags[f] = None => now.flags[f] = cfg.flags[f]
         /\ (\A f \in DOMAIN opts \ {"flags"} : opts[f] \in {None, <<>>}) =>
              [now EXCEPT !.flags = cfg.flags, !.stun = cfg.stun] = cfg
    /\ phase = "again" =>
         /\ ~GenFails(NewFromConfig(cfg))
         /\ now = [cfg EXCEPT !.ipv4 = GetIpv4(cfg), !.rpc = AnyAddress(@.port),
                              !.flags["sym"] = FALSE, !.flags["cli"] = DefaultFlags["cli"],
                              !.stun = None,
                              !.routes = IF @ = <<>> THEN None ELSE @,
                              !.relayed = IF @ = <<>> THEN <<"*">> ELSE @]
=============================================================================
