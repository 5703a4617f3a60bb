------------------------------ MODULE Redirect ------------------------------
(***************************************************************************)
(* The core of the rebpf daemon: the tasks watch_reload and watch_routes   *)
(* and the thread watch_multicast (rebpf/netlink.rs), which keep the       *)
(* kernel's policy routing in step with the configured state and with the  *)
(* output device; the D-Bus handlers that change that state                *)
(* (rebpf/dbus.rs); start-up and shutdown (rebpf/main.rs).                 *)
(*                                                                         *)
(* The daemon runs on a single-threaded runtime, so its tasks interleave   *)
(* only where they await: the labels of pc are the await points of         *)
(* watch_reload.  The kernel, the multicast thread and the processes whose *)
(* sockets are redirected run concurrently with all of it.                 *)
(*                                                                         *)
(* A watch channel is its current value plus, for every receiver, whether  *)
(* it holds a version that the receiver has not seen.                      *)
(***************************************************************************)
EXTENDS Naturals, Sequences, FiniteSets

CONSTANTS
    Devs,       \* names of network devices
    NoDev,      \* the empty output name of a fresh state
    Ids,        \* interface indices
    Nets,       \* addresses and gateway of a device
    Marks,      \* values of rand_table()
    Lans,       \* contents of the main routing table, default routes aside
    Options,    \* records [allow_lan, drop, spoof]
    IpSets,     \* sets of ipv4 matches, records [dst, dir]
    Socks,      \* sockets of processes that the matches redirect
    None,       \* Option::None
    MaxEvents   \* bound on the steps of users, devices and processes and on failures

ASSUME NamesAssumption ==
    /\ NoDev \notin Devs
    /\ None \notin Marks

ASSUME BoundAssumption == MaxEvents \in Nat

\* RT_TABLE_MAIN and ctx.dns_table; a rule without an fwmark; no table at all.
MainTable == "main"
DnsTable == "dns_table"
Unmarked == "unmarked"
NoTable == "no_table"

\* rand_table() draws from u16::MAX..u32::MAX, so neither 0 (no fwmark, no
\* table) nor RT_TABLE_MAIN; that it does not draw dns_table, which it drew
\* before, is taken as given, like the freshness of marks in FreshMarks.
ASSUME MarksAssumption == Marks \cap {MainTable, DnsTable, Unmarked, NoTable} = {}

VARIABLES
    conf,        \* ctx.state: [enable, to_dev, opts, ips]
    route,       \* ctx.routes_changed: None or the probed Route
    reloadPend,  \* channels with a version that watch_reload has not seen
    routesPend,  \* channels with a version that watch_routes has not seen
    pc,          \* where watch_reload awaits
    local,       \* watch_reload's new_mark, enable and blocker
    bpfMark,     \* ctx.bpf.mark
    status,      \* ctx.attached and ctx.blocker
    life,        \* "running", "stopping" (a task has ended) or "exited"
    unclear,     \* history: marks and tables whose clearing failed or was skipped
    link,        \* kernel: state of every device
    lan,         \* kernel: main routing table
    rules,       \* kernel: ip rules and nft rules the daemon added
    kroutes,     \* kernel: routes in tables the daemon owns
    msgs,        \* kernel: multicast messages not read yet
    CONFIG,      \* bpf.c: CONFIG.enable and CONFIG.mark
    sock,        \* kernel: creation step and SO_MARK of every socket, and
                 \* whether a sweep fell between its hook and its descriptor
    stale,       \* history: devices that changed unheard, or whose probe failed,
                 \* since a probe last succeeded
    events

daemonVars == <<conf, route, reloadPend, routesPend, pc, local, bpfMark, status, unclear, life>>
kernelVars == <<link, lan, rules, kroutes, msgs, CONFIG, sock, stale>>
vars == <<daemonVars, kernelVars, events>>
reloadVars == <<pc, local, bpfMark, status, unclear>>

-----------------------------------------------------------------------------
(* Data *)

LinkState == {None} \cup [id : Ids, up : BOOLEAN, net : Nets]
Route == [dev : Devs, id : Ids, up : BOOLEAN, net : Nets]

ASSUME NoneAssumption == None \notin [id : Ids, up : BOOLEAN, net : Nets] \cup Route

Rule(kind, table, fwmark, dst) ==
    [kind |-> kind, table |-> table, fwmark |-> fwmark, dst |-> dst]

StaticRule == Rule("static", DnsTable, Unmarked, "any")

\* The rules of the enabled branch of watch_reload, in three groups: those
\* before the default route is added (the one for the addresses of the output
\* names them in its dst), the one that depends on allow_lan and the nft rule
\* of spoof_dns, which is left out with a warning when it cannot be added.
EarlyRules(c, net, m) ==
    {Rule("from", m, Unmarked, net), Rule("fwmark", m, m, "any")}
    \cup {Rule("ip", IF i.dir = "redirect" THEN m ELSE MainTable, m, i.dst) : i \in c.ips}

NftRule(m) == Rule("nft", NoTable, m, "any")

LateRules(c, m, nft) ==
    (IF c.opts.allow_lan THEN {} ELSE {Rule("unreachable", m, m, "any")})
    \cup (IF c.opts.spoof /\ nft THEN {NftRule(m)} ELSE {})

DropRule(m) == Rule("drop", m, m, "any")

DefaultRoute(r, m) ==
    [kind |-> "default", table |-> m, via |-> [dev |-> r.dev, id |-> r.id, net |-> r.net]]
LanRoutes(c, m) ==
    IF c.opts.allow_lan THEN {[kind |-> "lan", table |-> m, via |-> lan]} ELSE {}

\* A slip: the loop over fwmark is missing.
AfterClearRulesTableOnly(rs, m) == {r \in rs : r.table # m /\ (r.kind = "nft" => r.fwmark # m)}

\* What is left of a set of rules or routes once clear_rules(m) has deleted
\* the ip rules that look up table m, the ip rules with fwmark m and the nft
\* rules for mark m, and clear_table(m) the routes of table m.
AfterClearRules(rs, m) ==
    LET byTable  == {r \in rs : r.kind # "nft" /\ r.table = m}
        byFwmark == {r \in rs : r.kind # "nft" /\ r.fwmark = m}
        nft      == {r \in rs : r.kind = "nft" /\ r.fwmark = m}
    IN  rs \ (byTable \cup byFwmark \cup nft)

AfterClearTable(ks, t) == {k \in ks : k.table # t}

\* What a clear_rules(m) that fails leaves: a request that cannot be sent ends
\* it with `?` among the routes, among the rules of the table or among those
\* of the fwmark; a panic of the nft request, with these deleted.
ClearFailures(m) ==
    LET byTable  == {r \in rules : r.kind # "nft" /\ r.table = m}
        byFwmark == {r \in rules : r.kind # "nft" /\ r.fwmark = m}
        routes   == {k \in kroutes : k.table = m}
    IN  {[rules |-> rules, kroutes |-> kroutes \ ks] : ks \in SUBSET routes}
        \cup {[rules |-> rules \ rs, kroutes |-> kroutes \ routes] : rs \in SUBSET byTable}
        \cup {[rules |-> rules \ (byTable \cup rs), kroutes |-> kroutes \ routes] :
                    rs \in SUBSET byFwmark}

\* clear_static_rules deletes the ip rules that look up dns_table.
AfterClearStatic(rs) == {r \in rs : r.table # DnsTable}

\* get_link: the Route of a device name, or the error of an unknown name.
get_link(name) ==
    IF name \in Devs /\ link[name] # None
    THEN [dev |-> name, id |-> link[name].id, up |-> link[name].up, net |-> link[name].net]
    ELSE None

\* The condition of the enabled branch: an output that is up, and enable.
Redirecting(r, c) == r # None /\ r.up /\ c.enable

\* The disabled branches of watch_reload, in their order.
BlockerOf(r, c) ==
    IF r # None /\ ~c.enable THEN "none"
    ELSE IF r # None /\ ~r.up THEN "down"
    ELSE "not_found"

Dropping(r, c) == ~Redirecting(r, c) /\ BlockerOf(r, c) # "none" /\ c.opts.drop

\* `ip route add default dev <ifindex>`: the kernel refuses a device that is
\* gone, that has another index by now or that is down; it may also refuse
\* addresses that are no longer those of the device.
KernelTakesRoute(r) ==
    /\ link[r.dev] # None
    /\ link[r.dev].id = r.id
    /\ link[r.dev].up

-----------------------------------------------------------------------------
(* Start-up: the state in which run() has spawned its tasks. *)

\* A state file may have been loaded, which the receivers see as a change;
\* to_changed is always sent once, the static rule is installed.
Init ==
    /\ \/ /\ conf \in [enable : BOOLEAN, to_dev : Devs \cup {NoDev}, opts : Options, ips : IpSets]
          /\ reloadPend = {"conf"} /\ routesPend = {"conf", "to"}
       \/ /\ conf \in [enable : {FALSE}, to_dev : {NoDev}, opts : Options, ips : IpSets \cap {{}}]
          /\ reloadPend = {} /\ routesPend = {"to"}
    /\ route = None
    /\ pc = "idle"
    /\ local = [mark |-> None, enable |-> FALSE, blocker |-> "none"]
    /\ bpfMark = None
    /\ status = [attached |-> FALSE, blocker |-> "none"]
    /\ life = "running"
    /\ unclear = {}
    /\ link \in [Devs -> LinkState]
    /\ \A d, e \in Devs : link[d] # None /\ link[e] # None /\ d # e => link[d].id # link[e].id
    /\ lan \in Lans
    /\ rules = {StaticRule}
    /\ kroutes = {}
    /\ msgs = << >>
    /\ CONFIG = [enable |-> FALSE, mark |-> None]
    /\ sock \in [Socks -> [st : {"closed", "open"}, mark : {None}, missed : {FALSE}]]
    /\ stale = {}
    /\ events = 0

\* What happens to the system once the daemon has exited is left out.
Tick == life # "exited" /\ events < MaxEvents /\ events' = events + 1

-----------------------------------------------------------------------------
(* The kernel, devices and processes (the daemon's environment). *)

\* A device is created, deleted, or goes up or down.  The kernel drops the
\* routes over a device that is no longer up, in every table, and
\* multicasts RTM_NEWLINK or RTM_DELLINK with its name and index.
LinkChange(d, new) ==
    LET old == link[d]
        id == IF new = None THEN old.id ELSE new.id
    IN
    /\ Tick
    /\ new # old
    /\ IF old = None
       THEN /\ new.up = FALSE
            /\ \A e \in Devs : link[e] # None => link[e].id # new.id
       ELSE new # None => new.id = old.id /\ new.net = old.net
    /\ link' = [link EXCEPT ![d] = new]
    /\ kroutes' = IF new # None /\ new.up THEN kroutes
                  ELSE {k \in kroutes : k.kind = "default" => k.via.dev # d}
    /\ msgs' = Append(msgs, [type |-> "link", dev |-> d, id |-> id])
    /\ UNCHANGED <<daemonVars, lan, rules, CONFIG, sock, stale>>

\* The message of a change to the routes of device index id: the kernel says
\* which table it is in.
RouteMsg(id) == [type |-> "route", table |-> MainTable, id |-> id]

\* An address or the gateway of a device changes.  The multicast groups of
\* the daemon do not tell of addresses, only of the routes that come and go
\* with them; the kernel drops the default routes that prefer an address the
\* device has lost.
NetChange(d, net) ==
    /\ Tick
    /\ link[d] # None
    /\ net # link[d].net
    /\ link' = [link EXCEPT ![d].net = net]
    /\ kroutes' \in {kroutes, {k \in kroutes : k.kind = "default" => k.via.dev # d}}
    /\ msgs' = Append(msgs, RouteMsg(link[d].id))
    /\ stale' = stale \cup {d}
    /\ UNCHANGED <<daemonVars, lan, rules, CONFIG, sock>>

\* A route of another device changes in the main routing table.
LanChange(new) ==
    /\ Tick
    /\ new # lan
    /\ lan' = new
    /\ msgs' = Append(msgs, RouteMsg(None))
    /\ UNCHANGED <<daemonVars, link, rules, kroutes, CONFIG, sock, stale>>

\* socket(2) of a redirected process: cgroup_socket_create runs first, the
\* descriptor that the sweep iterates over is installed afterwards.
SockHook(s) ==
    /\ Tick
    /\ sock[s].st = "closed"
    /\ sock' = [sock EXCEPT ![s] = [st |-> "hooked", missed |-> FALSE,
                                    mark |-> IF CONFIG.enable THEN CONFIG.mark ELSE None]]
    /\ UNCHANGED <<daemonVars, link, lan, rules, kroutes, msgs, CONFIG, stale>>

SockOpen(s) ==
    /\ sock[s].st = "hooked"
    /\ sock' = [sock EXCEPT ![s].st = "open"]
    /\ UNCHANGED <<daemonVars, link, lan, rules, kroutes, msgs, CONFIG, stale, events>>

-----------------------------------------------------------------------------
(* D-Bus handlers: send_modify notifies even when the value stays the same. *)

SendState(c) ==
    /\ life = "running"
    /\ Tick
    /\ conf' = c
    /\ reloadPend' = reloadPend \cup {"conf"}
    /\ routesPend' = routesPend \cup {"conf"}
    /\ UNCHANGED <<route, reloadVars, life, kernelVars>>

Enable == SendState([conf EXCEPT !.enable = TRUE])
Disable == SendState([conf EXCEPT !.enable = FALSE])
Toggle == SendState([conf EXCEPT !.enable = ~conf.enable])
ChangeOutput(d) == SendState([conf EXCEPT !.to_dev = d])
UpdateConfig(o) == SendState([conf EXCEPT !.opts = o])
ModifyMatches(s) == SendState([conf EXCEPT !.ips = s])

ForceReload ==
    /\ life = "running"
    /\ Tick
    /\ reloadPend' = reloadPend \cup {"do_reload"}
    /\ UNCHANGED <<conf, route, routesPend, reloadVars, life, kernelVars>>

-----------------------------------------------------------------------------
(* watch_multicast, on a thread of its own *)

\* RTM_NEWLINK and RTM_DELLINK of the configured or of the current output
\* wake watch_routes.  RTM_NEWROUTE is skipped when it names a table.
MulticastRecv ==
    LET m == Head(msgs)
        relevant ==
            \/ /\ m.type = "link"
               /\ \/ m.dev = conf.to_dev
                  \/ route # None /\ (route.id = m.id \/ route.dev = m.dev)
            \/ /\ m.type = "route"
               /\ m.table = NoTable
               /\ route # None
               /\ m.id = route.id \/ conf.opts.allow_lan
    IN
    /\ life # "exited"
    /\ msgs # << >>
    /\ msgs' = Tail(msgs)
    /\ routesPend' = IF relevant THEN routesPend \cup {"to"} ELSE routesPend
    /\ UNCHANGED <<conf, route, reloadPend, reloadVars, life, link, lan, rules, kroutes,
                   CONFIG, sock, stale, events>>

-----------------------------------------------------------------------------
(* watch_routes *)

\* The probe found nothing new; a slip that takes an error for it.
SameRouteOrError(new) == new \in {None, route}
SameRoute(new) == new # None /\ new = route

\* One iteration: forget the notifications, then probe the device; a Route
\* equal to the current one is not sent again, an error always sends None.
RoutesProbe ==
    LET new == get_link(conf.to_dev) IN
    /\ life # "exited"
    /\ routesPend # {}
    /\ routesPend' = {}
    /\ IF SameRoute(new)
       THEN UNCHANGED <<route, reloadPend>>
       ELSE route' = new /\ reloadPend' = reloadPend \cup {"routes"}
    /\ stale' = stale \ {conf.to_dev}
    /\ UNCHANGED <<conf, reloadVars, life, link, lan, rules, kroutes, msgs, CONFIG, sock, events>>

\* A request of the probe fails although the device is there: this is taken
\* for an unknown device, and not tried again.
RoutesProbeFails ==
    /\ Tick
    /\ routesPend # {}
    /\ routesPend' = {}
    /\ get_link(conf.to_dev) # None
    /\ route' = None
    /\ reloadPend' = reloadPend \cup {"routes"}
    /\ stale' = stale \cup {conf.to_dev}
    /\ UNCHANGED <<conf, reloadVars, life, link, lan, rules, kroutes, msgs, CONFIG, sock>>

-----------------------------------------------------------------------------
(* watch_reload, one action per stretch between two awaits *)

\* A slip: 0, the mark of an unmarked socket, may be drawn.
FreshMarksOrZero == (Marks \cup {None}) \ {CONFIG.mark}

\* rand_table(): 32 random bits; a mark still in use somewhere is not drawn.
FreshMarks == Marks \ ({bpfMark, CONFIG.mark} \cup {sock[s].mark : s \in Socks})

ReloadWake ==
    /\ life # "exited"
    /\ pc = "idle"
    /\ reloadPend # {}
    /\ reloadPend' = {}
    /\ \E m \in FreshMarks : local' = [local EXCEPT !.mark = m]
    /\ pc' = "lock"
    /\ UNCHANGED <<conf, route, routesPend, bpfMark, status, unclear, life, kernelVars, events>>

\* The new mark replaces the old one, whose rules and routes are deleted next.
ReplaceMark ==
    /\ life # "exited"
    /\ pc = "lock"
    /\ bpfMark' = local.mark
    /\ UNCHANGED <<conf, route, reloadPend, routesPend, status, link, lan, msgs, CONFIG, sock,
                   stale>>

\* `?`: the task ends, and with it the daemon.
ReloadEnds == pc' = "failed" /\ life' = "stopping" /\ UNCHANGED local

\* The old mark is no longer remembered, and what is left of its rules and
\* routes stays.
ReloadClearFails ==
    /\ Tick
    /\ ReplaceMark
    /\ bpfMark # None
    /\ \E left \in ClearFailures(bpfMark) : rules' = left.rules /\ kroutes' = left.kroutes
    /\ unclear' = unclear \cup {bpfMark}
    /\ ReloadEnds

\* A slip: the rules of the old mark stay.
KeptRulesAll == rules
\* What clear_rules leaves when it succeeds.
KeptRules == IF bpfMark = None THEN rules ELSE AfterClearRules(rules, bpfMark)
KeptRoutes == IF bpfMark = None THEN kroutes ELSE AfterClearTable(kroutes, bpfMark)

\* The enabled branch, when every netlink request succeeds; nft rule and
\* local routes are added if possible.
ReloadInstall ==
    /\ ReplaceMark
    /\ Redirecting(route, conf)
    /\ KernelTakesRoute(route)
    /\ \E nft \in BOOLEAN :
          rules' = KeptRules \cup EarlyRules(conf, route.net, local.mark)
                             \cup LateRules(conf, local.mark, nft)
    /\ \E ks \in SUBSET LanRoutes(conf, local.mark) :
          kroutes' = KeptRoutes \cup {DefaultRoute(route, local.mark)} \cup ks
    /\ local' = [local EXCEPT !.enable = TRUE, !.blocker = "none"]
    /\ pc' = "bpf"
    /\ UNCHANGED <<unclear, life, events>>

\* The enabled branch, when the device changed since the probe: the kernel
\* refuses the default route.
ReloadRefused ==
    /\ ReplaceMark
    /\ Redirecting(route, conf)
    /\ ~KernelTakesRoute(route)
    /\ rules' = KeptRules \cup EarlyRules(conf, route.net, local.mark)
    /\ kroutes' = KeptRoutes
    /\ ReloadEnds
    /\ UNCHANGED <<unclear, events>>

\* Any other request fails: for one of the rules before the default route,
\* for the default route, for the rule that depends on allow_lan or for the
\* one that drops traffic.
ReloadInstallFails ==
    /\ Tick
    /\ ReplaceMark
    /\ \/ /\ Redirecting(route, conf)
          /\ \E rs \in SUBSET EarlyRules(conf, route.net, local.mark) : rules' = KeptRules \cup rs
          /\ kroutes' = KeptRoutes
       \/ /\ Redirecting(route, conf)
          /\ KernelTakesRoute(route)
          /\ ~conf.opts.allow_lan
          /\ rules' = KeptRules \cup EarlyRules(conf, route.net, local.mark)
          /\ kroutes' = KeptRoutes \cup {DefaultRoute(route, local.mark)}
       \/ /\ Dropping(route, conf)
          /\ rules' = KeptRules
          /\ kroutes' = KeptRoutes
    /\ ReloadEnds
    /\ UNCHANGED unclear

\* The branches that only report why traffic is not redirected.
ReloadBlocked ==
    /\ ReplaceMark
    /\ ~Redirecting(route, conf)
    /\ rules' = KeptRules \cup (IF Dropping(route, conf) THEN {DropRule(local.mark)} ELSE {})
    /\ kroutes' = KeptRoutes
    /\ local' = [local EXCEPT !.enable = FALSE, !.blocker = BlockerOf(route, conf)]
    /\ pc' = "bpf"
    /\ UNCHANGED <<unclear, life, events>>

\* bpf_reload: CONFIG is handed to the eBPF programs.
ReloadBpf ==
    /\ life # "exited"
    /\ pc = "bpf"
    /\ CONFIG' = [enable |-> local.enable, mark |-> local.mark]
    /\ pc' = "refresh"
    /\ UNCHANGED <<conf, route, reloadPend, routesPend, local, bpfMark, status, unclear, life,
                   link, lan, rules, kroutes, msgs, sock, stale, events>>

\* EXPECT of bpf_reload_config: exit(1), without a clean-up.
ReloadBpfDies ==
    /\ Tick
    /\ pc = "bpf"
    /\ CONFIG' = [enable |-> local.enable, mark |-> local.mark]
    /\ life' = "exited"
    /\ unclear' = unclear \cup {local.mark, DnsTable}
    /\ UNCHANGED <<conf, route, reloadPend, routesPend, pc, local, bpfMark, status,
                   link, lan, rules, kroutes, msgs, sock, stale>>

\* dump_iter_file lists the sockets of matching processes that have a
\* descriptor, whether or not CONFIG is enabled.
Listed(s) == sock[s].st = "open"

\* proc_set_mark on a listed socket.
SetMark(s) == [st |-> sock[s].st, mark |-> local.mark, missed |-> FALSE]

\* What the sweep makes of a socket: it misses one that has passed the hook
\* and has no descriptor yet.  A slip that passes over sockets with a mark.
SweepUnmarked(s) == IF Listed(s) /\ sock[s].mark = None THEN SetMark(s) ELSE sock[s]
Sweep(s) ==
    IF Listed(s) THEN SetMark(s)
    ELSE [sock[s] EXCEPT !.missed = (sock[s].st = "hooked")]

\* The privileged child is sent the mark, sweeps the descriptors of all
\* processes and answers.
RefreshSockets ==
    /\ life # "exited"
    /\ pc = "refresh"
    /\ sock' = [s \in Socks |-> Sweep(s)]
    /\ pc' = "publish"
    /\ UNCHANGED <<conf, route, reloadPend, routesPend, local, bpfMark, status, unclear, life,
                   link, lan, rules, kroutes, msgs, CONFIG, stale, events>>

\* The child has ended, in the middle of a sweep perhaps.
RefreshFails ==
    /\ Tick
    /\ pc = "refresh"
    /\ \E swept \in SUBSET Socks : sock' = [s \in Socks |-> IF s \in swept THEN Sweep(s) ELSE sock[s]]
    /\ ReloadEnds
    /\ UNCHANGED <<conf, route, reloadPend, routesPend, bpfMark, status, unclear,
                   link, lan, rules, kroutes, msgs, CONFIG, stale>>

\* A slip: mark_unchanged at the end of the iteration instead of its start.
ReloadPublishForgets ==
    /\ life # "exited"
    /\ pc = "publish"
    /\ status' = [attached |-> TRUE, blocker |-> local.blocker]
    /\ reloadPend' = {}
    /\ pc' = "idle"
    /\ UNCHANGED <<conf, route, routesPend, local, bpfMark, unclear, life, kernelVars, events>>

\* A slip: publishing the result notifies the channel that started it.
ReloadPublishNotifies ==
    /\ life # "exited"
    /\ pc = "publish"
    /\ status' = [attached |-> TRUE, blocker |-> local.blocker]
    /\ reloadPend' = reloadPend \cup {"conf"}
    /\ pc' = "idle"
    /\ UNCHANGED <<conf, route, routesPend, local, bpfMark, unclear, life, kernelVars, events>>

ReloadPublish ==
    /\ life # "exited"
    /\ pc = "publish"
    /\ status' = [attached |-> TRUE, blocker |-> local.blocker]
    /\ pc' = "idle"
    /\ UNCHANGED <<conf, route, reloadPend, routesPend, local, bpfMark, unclear, life,
                   kernelVars, events>>

-----------------------------------------------------------------------------
(* Shutdown *)

\* A termination signal, or an error, ends one of the other tasks.
Signal ==
    /\ life = "running"
    /\ Tick
    /\ life' = "stopping"
    /\ UNCHANGED <<conf, route, reloadPend, routesPend, reloadVars, kernelVars>>

\* A slip: the mark of the reload under way is cleared, not the remembered one.
CleanupNewMark ==
    /\ life = "stopping"
    /\ life' = "exited"
    /\ rules' = AfterClearRules(rules, local.mark) \ {StaticRule}
    /\ kroutes' = AfterClearTable(kroutes, local.mark)
    /\ UNCHANGED <<conf, route, reloadPend, routesPend, reloadVars, link, lan, msgs, CONFIG,
                   sock, stale, events>>

\* run() after join_next: the tasks are aborted at their await points, the
\* rules of the current mark and the static rule are deleted.
Cleanup ==
    /\ life = "stopping"
    /\ life' = "exited"
    /\ rules' = AfterClearStatic(KeptRules)
    /\ kroutes' = KeptRoutes
    /\ UNCHANGED <<conf, route, reloadPend, routesPend, reloadVars, link, lan, msgs, CONFIG,
                   sock, stale, events>>

\* Errors of clear_rules and of clear_static_rules are ignored: the first or
\* both of them fail, or only the second.
CleanupFails ==
    /\ Tick
    /\ life = "stopping"
    /\ life' = "exited"
    /\ \/ /\ bpfMark # None
          /\ \E left \in ClearFailures(bpfMark), static \in BOOLEAN :
                /\ rules' = IF static THEN left.rules ELSE AfterClearStatic(left.rules)
                /\ kroutes' = left.kroutes
                /\ unclear' = unclear \cup {bpfMark} \cup (IF static THEN {DnsTable} ELSE {})
       \/ /\ rules' = KeptRules
          /\ kroutes' = KeptRoutes
          /\ unclear' = unclear \cup {DnsTable}
    /\ UNCHANGED <<conf, route, reloadPend, routesPend, pc, local, bpfMark, status, link, lan,
                   msgs, CONFIG, sock, stale>>

-----------------------------------------------------------------------------
User ==
    \/ Enable \/ Disable \/ Toggle \/ ForceReload \/ Signal
    \/ \E d \in Devs \cup {NoDev} : ChangeOutput(d)
    \/ \E o \in Options : UpdateConfig(o)
    \/ \E s \in IpSets : ModifyMatches(s)

Kernel ==
    \/ \E d \in Devs : \E new \in LinkState : LinkChange(d, new)
    \/ \E d \in Devs : \E net \in Nets : NetChange(d, net)
    \/ \E new \in Lans : LanChange(new)
    \/ \E s \in Socks : SockHook(s) \/ SockOpen(s)

WatchRoutes == RoutesProbe \/ RoutesProbeFails

WatchReload ==
    \/ ReloadWake \/ ReloadClearFails
    \/ ReloadInstall \/ ReloadRefused \/ ReloadInstallFails \/ ReloadBlocked
    \/ ReloadBpf \/ ReloadBpfDies
    \/ RefreshSockets \/ RefreshFails
    \/ ReloadPublish

Exit == Cleanup \/ CleanupFails

Next == User \/ Kernel \/ MulticastRecv \/ WatchRoutes \/ WatchReload \/ Exit

\* The runtime polls every task that was woken, the multicast thread blocks
\* only on an empty queue, and main() cleans up once a task has ended.
\* Nothing is assumed of users, devices and processes.
Fairness ==
    /\ WF_vars(MulticastRecv)
    /\ WF_vars(WatchRoutes)
    /\ WF_vars(WatchReload)
    /\ WF_vars(Exit)

Spec == Init /\ [][Next]_vars
FairSpec == Spec /\ Fairness

-----------------------------------------------------------------------------
(* Properties *)

\* Types of all variables.
TypeOK ==
    /\ conf \in [enable : BOOLEAN, to_dev : Devs \cup {NoDev}, opts : Options, ips : IpSets]
    /\ route \in Route \cup {None}
    /\ reloadPend \subseteq {"conf", "routes", "do_reload"}
    /\ routesPend \subseteq {"conf", "to"}
    /\ pc \in {"idle", "lock", "bpf", "refresh", "publish", "failed"}
    /\ local \in [mark : Marks \cup {None}, enable : BOOLEAN, blocker : {"none", "down", "not_found"}]
    /\ pc # "idle" => local.mark \in Marks
    /\ bpfMark \in Marks \cup {None}
    /\ status \in [attached : BOOLEAN, blocker : {"none", "down", "not_found"}]
    /\ life \in {"running", "stopping", "exited"}
    /\ unclear \subseteq Marks \cup {DnsTable}
    /\ link \in [Devs -> LinkState]
    /\ lan \in Lans
    /\ CONFIG \in [enable : BOOLEAN, mark : Marks \cup {None}]
    /\ sock \in [Socks -> [st : {"closed", "hooked", "open"}, mark : Marks \cup {None},
                          missed : BOOLEAN]]
    /\ stale \subseteq Devs
    /\ events \in 0..MaxEvents

\* clear_rules(m) looks for the rule: nft rules are found by their mark only.
Finds(m, r) == r.fwmark = m \/ (r.kind # "nft" /\ r.table = m)

\* Every rule and route that the daemon has in the kernel belongs to the
\* mark that ctx.bpf remembers (the static rule of the DNS table aside), in
\* a way that clear_rules(mark) finds it.  The rules of a mark that was
\* replaced could never be found again: this is what watch_reload's
\* replace-then-clear and the three loops of clear_rules are for.  A mark that
\* was replaced and could not be cleared is the exception, and the daemon does
\* not go on with it.
RulesOwned ==
    LET known == unclear \cup ({bpfMark} \ {None}) IN
    /\ \A r \in rules : r = StaticRule \/ \E m \in known : Finds(m, r)
    /\ \A k \in kroutes : k.table \in known
    /\ unclear # {} => life # "running"

\* However the daemon ends, by a signal at any await point or by a failed
\* netlink request half way through a reload, all it leaves in the kernel
\* belongs to a mark whose own clearing failed, or was skipped by exit(1):
\* nothing at all when there is no such mark.
CleanExit ==
    life = "exited" =>
        /\ \A r \in rules : \E m \in unclear : Finds(m, r)
        /\ \A k \in kroutes : k.table \in unclear

\* No task has anything left to do.
Settled ==
    /\ life = "running"
    /\ pc = "idle"
    /\ reloadPend = {}
    /\ routesPend = {}
    /\ msgs = << >>

\* The two agree in all but addresses and gateway.
SameLink(r, q) == r # None /\ q # None /\ r.dev = q.dev /\ r.id = q.id /\ r.up = q.up

\* Once the tasks are idle the published Route is what a probe of the
\* configured device would find now: neither the filter of watch_multicast,
\* which compares with a conf and a Route that may be old, nor the
\* notifications dropped before the probe lose a change of the device.  Of a
\* change of addresses or gateway alone the daemon is not told: then only
\* these may be old; after a probe that failed there is no Route.
RouteFresh ==
    Settled =>
        LET now == get_link(conf.to_dev) IN
        \/ route = now
        \/ conf.to_dev \in stale /\ (route = None \/ SameLink(route, now))

\* Once the tasks are idle the kernel rules, the eBPF configuration and the
\* published blocker are those of the current state and Route: no change
\* that arrives during a reload is lost, and no rule of an old state stays.
InSync ==
    Settled =>
        LET on == Redirecting(route, conf)
            m == bpfMark
        IN  /\ \E nft \in BOOLEAN :
                  rules = {StaticRule}
                          \cup (IF on THEN EarlyRules(conf, route.net, m) \cup LateRules(conf, m, nft)
                                ELSE IF Dropping(route, conf) THEN {DropRule(m)} ELSE {})
            /\ ~on => kroutes = {}
            /\ CONFIG = [enable |-> on, mark |-> m]
            /\ status = [attached |-> TRUE,
                          blocker |-> IF on THEN "none" ELSE BlockerOf(route, conf)]

\* While redirection is on and no reload is under way, every socket of a
\* redirected process carries the mark of the rules, whenever it was created
\* and whatever it was marked with before: the hook reads CONFIG at any time,
\* the sweep comes after CONFIG.  The exception is a socket that a sweep fell
\* on between its hook and its descriptor, which stays wrong until the next.
SocketsMarked ==
    life = "running" /\ pc = "idle" /\ CONFIG.enable =>
        \A s \in Socks : sock[s].st = "open" /\ ~sock[s].missed => sock[s].mark = bpfMark

\* When users and devices leave the daemon alone it becomes idle for good,
\* or it has cleaned up and exited: no reload triggers itself, nobody waits
\* for ever.
EventuallySettled == <>[](Settled \/ life = "exited")

-----------------------------------------------------------------------------
(* The abstract specification that this one implements *)

\* What a rule says, whatever the mark, and what rules say together: the
\* static rule is always there, the nft rule is not promised.
Says(r) == [kind |-> r.kind, dst |-> r.dst, main |-> r.table = MainTable]
Policy(rs) == {Says(r) : r \in {x \in rs : x # StaticRule /\ x.kind # "nft"}}

\* The policy that the current state and Route call for.
Wanted ==
    Policy(IF Redirecting(route, conf)
           THEN EarlyRules(conf, route.net, Unmarked) \cup LateRules(conf, Unmarked, TRUE)
           ELSE IF Dropping(route, conf) THEN {DropRule(Unmarked)} ELSE {})

Follower == INSTANCE PolicyFollower
            WITH want <- Wanted, have <- Policy(rules), stuck <- unclear # {}

\* watch_reload exchanges one whole policy for another, the one that state and
\* Route call for when it comes to it, and not one they called for before an
\* await; it gives up half way only when the daemon ends; a change that
\* arrives at any point of a reload is applied in the end; and the exit leaves
\* nothing unless something could not be withdrawn.
FollowsPolicy == Follower!Spec

-----------------------------------------------------------------------------
(* What the documentation says and the code does not do *)

\* The checkbox "Drop egress traffic if output interface not setup" and the
\* status "(dropping traffic)": redirected processes then have no socket that
\* the rule for the mark passes by.
TrafficDropped ==
    Settled /\ conf.enable /\ Dropping(route, conf) =>
        \A s \in Socks : sock[s].st = "open" /\ ~sock[s].missed => sock[s].mark = bpfMark
=============================================================================
