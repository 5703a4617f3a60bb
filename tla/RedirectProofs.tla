--------------------------- MODULE RedirectProofs ---------------------------
(***************************************************************************)
(* Proofs about Redirect, for every value of its constants.                *)
(***************************************************************************)
EXTENDS Redirect, TLAPS

\* What an iteration of watch_reload leaves of the rules of the mark it
\* replaces is at most the static rule, and none of its routes.
LEMMA KeptIsStatic ==
    ASSUME RulesOwned, unclear = {}
    PROVE  KeptRules \subseteq {StaticRule} /\ KeptRoutes = {}
BY DEF RulesOwned, Finds, KeptRules, KeptRoutes, AfterClearRules, AfterClearTable

\* Every rule that a reload adds carries the new mark where clear_rules will
\* look for it.
LEMMA InstalledRulesOwned ==
    ASSUME NEW c, NEW a, NEW m, NEW nft,
           NEW x \in EarlyRules(c, a, m) \cup LateRules(c, m, nft) \cup {DropRule(m)}
    PROVE  Finds(m, x)
BY DEF EarlyRules, LateRules, NftRule, DropRule, Rule, Finds

\* Every route that a reload adds is in the table of the new mark.
LEMMA InstalledRoutesOwned ==
    ASSUME NEW c, NEW m, NEW r, NEW x \in {DefaultRoute(r, m)} \cup LanRoutes(c, m)
    PROVE  x.table = m
BY DEF DefaultRoute, LanRoutes

\* A sweep, whole or not, leaves every socket well typed.
SockState == [st : {"closed", "hooked", "open"}, mark : Marks \cup {None}, missed : BOOLEAN]

LEMMA SweepTyped ==
    ASSUME TypeOK, NEW s \in Socks
    PROVE  Sweep(s) \in SockState
<1>1. local.mark \in Marks \cup {None} /\ sock[s] \in SockState
  BY DEF TypeOK, SockState
<1>2. CASE sock[s].st = "open"
  BY <1>1, <1>2 DEF Sweep, Listed, SetMark, SockState
<1>3. CASE sock[s].st # "open"
  <2>1. PICK b \in BOOLEAN : b = (sock[s].st = "hooked")
    OBVIOUS
  <2>2. Sweep(s) = [sock[s] EXCEPT !.missed = b]
    BY <1>3, <2>1, Zenon DEF Sweep, Listed, SetMark
  <2>3. QED
    BY <1>1, <2>2 DEF SockState
<1>4. QED
  BY <1>2, <1>3

\* The states in which run() has spawned its tasks are well typed.
LEMMA InitTypeOK == Init => TypeOK
<1> SUFFICES ASSUME Init
             PROVE  TypeOK
  OBVIOUS
<1>1. /\ conf \in [enable : BOOLEAN, to_dev : Devs \cup {NoDev}, opts : Options, ips : IpSets]
      /\ reloadPend \subseteq {"conf", "routes", "do_reload"}
      /\ routesPend \subseteq {"conf", "to"}
  BY DEF Init
<1>2. sock \in [Socks -> [st : {"closed", "hooked", "open"}, mark : Marks \cup {None},
                          missed : BOOLEAN]]
  BY DEF Init
<1>3. QED
  BY <1>1, <1>2, BoundAssumption DEF Init, TypeOK

-----------------------------------------------------------------------------
\* Type correctness: the variables of the daemon and of the kernel keep
\* their types, and watch_reload holds a mark whenever it is under way.
THEOREM TypeCorrect == Spec => []TypeOK
<1>1. Init => TypeOK
  BY InitTypeOK
<1>2. TypeOK /\ [Next]_vars => TypeOK'
  <2> SUFFICES ASSUME TypeOK, [Next]_vars
               PROVE  TypeOK'
    OBVIOUS
  <2> USE BoundAssumption DEF TypeOK
  <2>1. ASSUME NEW c \in [enable : BOOLEAN, to_dev : Devs \cup {NoDev}, opts : Options, ips : IpSets],
               SendState(c)
        PROVE  TypeOK'
    BY <2>1 DEF SendState, Tick, reloadVars, kernelVars
  <2>2. CASE Enable
    BY <2>1, <2>2 DEF Enable
  <2>3. CASE Disable
    BY <2>1, <2>3 DEF Disable
  <2>4. CASE Toggle
    BY <2>1, <2>4 DEF Toggle
  <2>5. CASE ForceReload
    BY <2>5 DEF ForceReload, Tick, reloadVars, kernelVars
  <2>6. CASE Signal
    BY <2>6 DEF Signal, Tick, reloadVars, kernelVars
  <2>7. ASSUME NEW d \in Devs \cup {NoDev}, ChangeOutput(d)
        PROVE  TypeOK'
    BY <2>1, <2>7 DEF ChangeOutput
  <2>8. ASSUME NEW o \in Options, UpdateConfig(o)
        PROVE  TypeOK'
    BY <2>1, <2>8 DEF UpdateConfig
  <2>9. ASSUME NEW s \in IpSets, ModifyMatches(s)
        PROVE  TypeOK'
    BY <2>1, <2>9 DEF ModifyMatches
  <2>10. ASSUME NEW d \in Devs, NEW new \in LinkState, LinkChange(d, new)
         PROVE  TypeOK'
    BY <2>10 DEF LinkChange, Tick, daemonVars
  <2>11. ASSUME NEW new \in Lans, LanChange(new)
         PROVE  TypeOK'
    BY <2>11 DEF LanChange, Tick, daemonVars
  <2>26. ASSUME NEW d \in Devs, NEW net \in Nets, NetChange(d, net)
         PROVE  TypeOK'
    <3>1. link' = [link EXCEPT ![d] = [link[d] EXCEPT !.net = net]]
      BY <2>26 DEF NetChange
    <3>2. link[d] \in [id : Ids, up : BOOLEAN, net : Nets]
      BY <2>26 DEF NetChange, LinkState
    <3>3. [link[d] EXCEPT !.net = net] \in [id : Ids, up : BOOLEAN, net : Nets]
      BY <3>2
    <3>4. link' \in [Devs -> LinkState]
      BY <3>1, <3>3 DEF LinkState
    <3>5. QED
      BY <2>26, <3>4 DEF NetChange, Tick, daemonVars
  <2>12. ASSUME NEW s \in Socks, SockHook(s)
         PROVE  TypeOK'
    BY <2>12 DEF SockHook, Tick, daemonVars
  <2>13. ASSUME NEW s \in Socks, SockOpen(s)
         PROVE  TypeOK'
    BY <2>13 DEF SockOpen, daemonVars
  <2>14. CASE MulticastRecv
    BY <2>14 DEF MulticastRecv, reloadVars
  <2>15. CASE RoutesProbe
    BY <2>15 DEF RoutesProbe, SameRoute, reloadVars, get_link, Route, LinkState
  <2>27. CASE RoutesProbeFails
    BY <2>27 DEF RoutesProbeFails, Tick, reloadVars, get_link
  <2>16. CASE ReloadWake
    BY <2>16 DEF ReloadWake, FreshMarks, kernelVars
  <2>17. CASE ReloadInstall
    BY <2>17 DEF ReloadInstall, ReplaceMark
  <2>18. CASE ReloadInstallFails \/ ReloadRefused
    <3>1. /\ ReplaceMark /\ ReloadEnds /\ unclear' = unclear
          /\ events' \in 0..MaxEvents
      BY <2>18 DEF ReloadInstallFails, ReloadRefused, Tick
    <3>2. QED
      BY <3>1 DEF ReplaceMark, ReloadEnds
  <2>28. CASE ReloadClearFails
    BY <2>28 DEF ReloadClearFails, ReplaceMark, ReloadEnds, Tick
  <2>19. CASE ReloadBlocked
    BY <2>19 DEF ReloadBlocked, ReplaceMark, BlockerOf
  <2>20. CASE ReloadBpf
    BY <2>20 DEF ReloadBpf
  <2>29. CASE ReloadBpfDies
    BY <2>29 DEF ReloadBpfDies, Tick
  <2>21. CASE RefreshSockets
    <3>1. sock' \in [Socks -> SockState]
      BY <2>21, SweepTyped DEF RefreshSockets
    <3>2. QED
      BY <2>21, <3>1 DEF RefreshSockets, SockState
  <2>30. CASE RefreshFails
    <3>1. PICK swept \in SUBSET Socks :
             sock' = [s \in Socks |-> IF s \in swept THEN Sweep(s) ELSE sock[s]]
      BY <2>30 DEF RefreshFails
    <3>2. ASSUME NEW s \in Socks
          PROVE  (IF s \in swept THEN Sweep(s) ELSE sock[s]) \in SockState
      BY SweepTyped DEF SockState
    <3>3. sock' \in [Socks -> SockState]
      BY <3>1, <3>2
    <3>4. QED
      BY <2>30, <3>3 DEF RefreshFails, ReloadEnds, Tick, SockState
  <2>22. CASE ReloadPublish
    BY <2>22 DEF ReloadPublish, kernelVars
  <2>23. CASE Cleanup \/ CleanupFails
    <3>1. unclear' \subseteq Marks \cup {DnsTable}
      BY <2>23 DEF Cleanup, CleanupFails, reloadVars
    <3>2. /\ UNCHANGED <<conf, route, reloadPend, routesPend, pc, local, bpfMark, status,
                         link, lan, CONFIG, sock, stale>>
          /\ life' = "exited" /\ events' \in 0..MaxEvents
      BY <2>23 DEF Cleanup, CleanupFails, Tick, reloadVars
    <3>3. QED
      BY <3>1, <3>2
  <2>24. CASE UNCHANGED vars
    BY <2>24 DEF vars, daemonVars, kernelVars
  <2>25. QED
    BY <2>2, <2>3, <2>4, <2>5, <2>6, <2>7, <2>8, <2>9, <2>10, <2>11, <2>12, <2>13, <2>14,
       <2>15, <2>16, <2>17, <2>18, <2>19, <2>20, <2>21, <2>22, <2>23, <2>24,
       <2>26, <2>27, <2>28, <2>29, <2>30
       DEF Next, User, Kernel, WatchRoutes, WatchReload, Exit
<1>3. QED
  BY <1>1, <1>2, PTL DEF Spec

-----------------------------------------------------------------------------
\* A clear that failed has ended its task; and the mark of a reload that has
\* installed its rules is the one that ctx.bpf remembers.
EndsUnclear ==
    /\ unclear # {} /\ life # "exited" => pc = "failed"
    /\ pc = "bpf" => bpfMark = local.mark

\* Together these are inductive: a reload that comes to its rules finds no
\* others than those of the mark it replaces.
OwnedInv == RulesOwned /\ CleanExit /\ EndsUnclear

\* Steps that leave rules and marks alone, or only let the kernel drop routes.
LEMMA RulesUntouched ==
    ASSUME OwnedInv, UNCHANGED <<rules, bpfMark, unclear>>, kroutes' \subseteq kroutes,
           life' = life \/ (life' = "stopping" /\ life # "exited"),
           pc' = pc \/ (pc # "failed" /\ life # "exited"),
           pc' = "bpf" => bpfMark' = local'.mark
    PROVE  OwnedInv'
<1>1. RulesOwned'
  BY DEF OwnedInv, RulesOwned, Finds, StaticRule, Rule
<1>2. CleanExit'
  BY DEF OwnedInv, CleanExit, Finds
<1>3. EndsUnclear'
  BY DEF OwnedInv, EndsUnclear
<1>4. QED
  BY <1>1, <1>2, <1>3 DEF OwnedInv

\* Nothing is unclear when a reload comes to replace the mark.
LEMMA AllClear ==
    ASSUME OwnedInv, ReplaceMark
    PROVE  unclear = {}
BY DEF OwnedInv, EndsUnclear, ReplaceMark

\* The reload actions replace everything the old mark owned.
LEMMA RulesReplaced ==
    ASSUME TypeOK, OwnedInv, ReplaceMark, unclear' = unclear,
           NEW c, NEW a, NEW r, NEW nft, life' # "exited", local'.mark = local.mark,
           rules' \subseteq KeptRules \cup EarlyRules(c, a, local.mark)
                        \cup LateRules(c, local.mark, nft) \cup {DropRule(local.mark)},
           kroutes' \subseteq KeptRoutes \cup {DefaultRoute(r, local.mark)} \cup LanRoutes(c, local.mark)
    PROVE  OwnedInv'
<1>1. local.mark # None /\ bpfMark' = local.mark
  BY NamesAssumption DEF TypeOK, ReplaceMark
<1>2. unclear = {} /\ RulesOwned
  BY AllClear DEF OwnedInv
<1>3. ASSUME NEW x \in rules'
      PROVE  x = StaticRule \/ Finds(local.mark, x)
  BY <1>2, <1>3, KeptIsStatic, InstalledRulesOwned
<1>4. ASSUME NEW x \in kroutes'
      PROVE  x.table = local.mark
  BY <1>2, <1>4, KeptIsStatic, InstalledRoutesOwned
<1>5. StaticRule' = StaticRule
  BY DEF StaticRule, Rule, DnsTable, Unmarked
<1>6. RulesOwned'
  BY <1>1, <1>2, <1>3, <1>4, <1>5 DEF RulesOwned, Finds
<1>7. QED
  BY <1>1, <1>2, <1>6 DEF OwnedInv, CleanExit, EndsUnclear

\* A clear that fails only deletes, and not the static rule.
LEMMA FailuresDelete ==
    ASSUME NEW m, NEW left \in ClearFailures(m)
    PROVE  /\ left.rules \subseteq rules /\ left.kroutes \subseteq kroutes
           /\ StaticRule \in rules /\ m \in Marks => StaticRule \in left.rules
<1>1. m \in Marks => StaticRule.table # m /\ StaticRule.fwmark # m
  BY MarksAssumption DEF StaticRule, Rule
<1>2. QED
  BY <1>1 DEF ClearFailures

\* Ownership of rules and routes, with what makes it inductive.
LEMMA OwnedAlways == Spec => []OwnedInv
<1>1. Init => OwnedInv
  BY DEF Init, OwnedInv, RulesOwned, CleanExit, EndsUnclear
<1>2. TypeOK /\ OwnedInv /\ [Next]_vars => OwnedInv'
  <2> SUFFICES ASSUME TypeOK, OwnedInv, [Next]_vars
               PROVE  OwnedInv'
    OBVIOUS
  <2>20. pc = "bpf" => bpfMark = local.mark
    BY DEF OwnedInv, EndsUnclear
  <2>1. CASE User
    <3>1. UNCHANGED <<rules, kroutes, reloadVars>> /\ (life' = life \/ life' = "stopping")
          /\ life # "exited"
      BY <2>1 DEF User, Enable, Disable, Toggle, ChangeOutput, UpdateConfig, ModifyMatches,
                  SendState, ForceReload, Signal, kernelVars
    <3>2. QED
      BY <2>20, <3>1, RulesUntouched DEF reloadVars
  <2>2. CASE Kernel
    <3>1. UNCHANGED <<rules, daemonVars>> /\ kroutes' \subseteq kroutes
      BY <2>2 DEF Kernel, LinkChange, NetChange, LanChange, SockHook, SockOpen
    <3>2. QED
      BY <2>20, <3>1, RulesUntouched DEF daemonVars
  <2>3. CASE MulticastRecv \/ WatchRoutes
    BY <2>3, <2>20, RulesUntouched
       DEF MulticastRecv, WatchRoutes, RoutesProbe, RoutesProbeFails, reloadVars
  <2>4. CASE ReloadWake
    BY <2>4, RulesUntouched DEF ReloadWake, kernelVars
  <2>5. CASE ReloadClearFails
    <3>1. PICK left \in ClearFailures(bpfMark) : rules' = left.rules /\ kroutes' = left.kroutes
      BY <2>5 DEF ReloadClearFails
    <3>2. rules' \subseteq rules /\ kroutes' \subseteq kroutes
      BY <3>1, FailuresDelete
    <3>3. unclear' = {bpfMark} /\ life' = "stopping" /\ pc' = "failed" /\ bpfMark # None
          /\ unclear = {}
      BY <2>5, AllClear DEF ReloadClearFails, ReloadEnds
    <3>4. RulesOwned'
      BY <3>2, <3>3 DEF OwnedInv, RulesOwned, Finds, StaticRule, Rule
    <3>5. QED
      BY <3>3, <3>4 DEF OwnedInv, CleanExit, EndsUnclear
  <2>6. CASE ReloadInstall
    <3>1. PICK nft \in BOOLEAN :
             rules' = KeptRules \cup EarlyRules(conf, route.net, local.mark)
                                \cup LateRules(conf, local.mark, nft)
      BY <2>6 DEF ReloadInstall
    <3>2. kroutes' \subseteq KeptRoutes \cup {DefaultRoute(route, local.mark)}
                                    \cup LanRoutes(conf, local.mark)
      BY <2>6 DEF ReloadInstall
    <3>3. ReplaceMark /\ unclear' = unclear /\ life' # "exited" /\ local'.mark = local.mark
      BY <2>6 DEF ReloadInstall, ReplaceMark, TypeOK
    <3>4. QED
      BY <3>1, <3>2, <3>3, RulesReplaced
  <2>7. CASE ReloadInstallFails \/ ReloadRefused
    <3>1. /\ rules' \subseteq KeptRules \cup EarlyRules(conf, route.net, local.mark)
          /\ kroutes' \subseteq KeptRoutes \cup {DefaultRoute(route, local.mark)}
          /\ ReplaceMark /\ unclear' = unclear /\ life' # "exited" /\ local' = local
      BY <2>7 DEF ReloadInstallFails, ReloadRefused, ReloadEnds
    <3>2. QED
      BY <3>1, RulesReplaced
  <2>8. CASE ReloadBlocked
    <3>1. local'.mark = local.mark
      BY <2>8 DEF ReloadBlocked, TypeOK
    <3>2. QED
      BY <2>8, <3>1, RulesReplaced DEF ReloadBlocked, ReplaceMark
  <2>9. CASE ReloadBpf \/ RefreshSockets \/ RefreshFails
    BY <2>9, RulesUntouched DEF ReloadBpf, RefreshSockets, RefreshFails, ReloadEnds, Tick
  <2>10. CASE ReloadBpfDies
    <3>1. /\ UNCHANGED <<rules, kroutes, bpfMark>> /\ life' = "exited" /\ pc' = pc /\ local' = local
          /\ unclear' = unclear \cup {bpfMark, DnsTable}
      BY <2>10, <2>20 DEF ReloadBpfDies
    <3>2. \A r \in rules : \E m \in unclear' : Finds(m, r)
      BY <3>1 DEF OwnedInv, RulesOwned, Finds, StaticRule, Rule
    <3>3. \A k \in kroutes : k.table \in unclear'
      BY <3>1 DEF OwnedInv, RulesOwned
    <3>4. CleanExit'
      BY <3>1, <3>2, <3>3 DEF CleanExit, Finds
    <3>5. RulesOwned'
      BY <3>1, <3>2, <3>3 DEF RulesOwned, Finds
    <3>6. QED
      BY <2>20, <3>1, <3>4, <3>5 DEF OwnedInv, EndsUnclear
  <2>11. CASE ReloadPublish
    BY <2>11, RulesUntouched DEF ReloadPublish, kernelVars
  <2>12. CASE Cleanup \/ CleanupFails
    <3>1. life' = "exited" /\ UNCHANGED <<bpfMark, pc, local>> /\ unclear \subseteq unclear'
      BY <2>12 DEF Cleanup, CleanupFails, reloadVars
    <3>2. /\ \A r \in rules' : \E m \in unclear' : Finds(m, r)
          /\ \A k \in kroutes' : k.table \in unclear'
      <4>1. CASE Cleanup
        <5>1. /\ rules' = AfterClearStatic(KeptRules) /\ kroutes' = KeptRoutes /\ unclear' = unclear
          BY <4>1 DEF Cleanup, reloadVars
        <5>2. ASSUME NEW r \in rules'
              PROVE  r \in rules /\ r # StaticRule /\ (bpfMark # None => ~Finds(bpfMark, r))
          BY <5>1, <5>2 DEF AfterClearStatic, KeptRules, AfterClearRules, Finds, StaticRule, Rule
        <5>3. ASSUME NEW k \in kroutes'
              PROVE  k \in kroutes /\ (bpfMark # None => k.table # bpfMark)
          BY <5>1, <5>3 DEF KeptRoutes, AfterClearTable
        <5>4. QED
          BY <5>1, <5>2, <5>3 DEF OwnedInv, RulesOwned
      <4>2. ASSUME NEW left \in ClearFailures(bpfMark), NEW static \in BOOLEAN, bpfMark # None,
                   rules' = IF static THEN left.rules ELSE AfterClearStatic(left.rules),
                   kroutes' = left.kroutes,
                   unclear' = unclear \cup {bpfMark} \cup (IF static THEN {DnsTable} ELSE {})
            PROVE  /\ \A r \in rules' : \E m \in unclear' : Finds(m, r)
                   /\ \A k \in kroutes' : k.table \in unclear'
        <5>2. left.rules \subseteq rules /\ left.kroutes \subseteq kroutes
          BY FailuresDelete
        <5>3. ASSUME NEW r \in rules'
              PROVE  r \in rules /\ (r = StaticRule => DnsTable \in unclear')
          BY <4>2, <5>2, <5>3 DEF AfterClearStatic, StaticRule, Rule
        <5>4. Finds(DnsTable, StaticRule)
          BY DEF Finds, StaticRule, Rule
        <5>5. QED
          BY <4>2, <5>2, <5>3, <5>4 DEF OwnedInv, RulesOwned
      <4>3. CASE /\ rules' = KeptRules /\ kroutes' = KeptRoutes
                 /\ unclear' = unclear \cup {DnsTable}
        <5>2. ASSUME NEW r \in rules'
              PROVE  r \in rules /\ (bpfMark # None => ~Finds(bpfMark, r))
          BY <4>3, <5>2 DEF KeptRules, AfterClearRules, Finds
        <5>3. ASSUME NEW k \in kroutes'
              PROVE  k \in kroutes /\ (bpfMark # None => k.table # bpfMark)
          BY <4>3, <5>3 DEF KeptRoutes, AfterClearTable
        <5>4. Finds(DnsTable, StaticRule)
          BY DEF Finds, StaticRule, Rule
        <5>5. QED
          BY <4>3, <5>2, <5>3, <5>4 DEF OwnedInv, RulesOwned
      <4>4. QED
        BY <2>12, <4>1, <4>2, <4>3 DEF CleanupFails
    <3>3. CleanExit'
      BY <3>1, <3>2 DEF CleanExit, Finds
    <3>4. RulesOwned'
      BY <3>1, <3>2 DEF RulesOwned, Finds
    <3>5. QED
      BY <2>20, <3>1, <3>3, <3>4 DEF OwnedInv, EndsUnclear
  <2>13. CASE UNCHANGED vars
    BY <2>13, <2>20, RulesUntouched DEF vars, daemonVars, kernelVars
  <2>14. QED
    BY <2>1, <2>2, <2>3, <2>4, <2>5, <2>6, <2>7, <2>8, <2>9, <2>10, <2>11, <2>12, <2>13
       DEF Next, WatchReload, Exit
<1>3. QED
  BY <1>1, <1>2, TypeCorrect, PTL DEF Spec

\* No rule or route of a replaced mark survives a reload: every one in the
\* kernel belongs to the mark that ctx.bpf remembers, unless clear_rules failed
\* for the mark it belongs to, and then the daemon no longer runs.
THEOREM RulesOwnedAlways == Spec => []RulesOwned
<1>1. OwnedInv => RulesOwned
  BY DEF OwnedInv
<1>2. QED
  BY <1>1, OwnedAlways, PTL

\* However the daemon ends, by a signal at any await point, by a request that
\* failed half way through a reload or by exit(1), what it leaves belongs to
\* marks whose own clearing failed or was skipped: without these, nothing.
THEOREM CleanExitAlways == Spec => []CleanExit
<1>1. OwnedInv => CleanExit
  BY DEF OwnedInv
<1>2. QED
  BY <1>1, OwnedAlways, PTL

-----------------------------------------------------------------------------
\* Which of the three copies of the mark agree at each await point.
MarksAgree ==
    /\ pc \in {"bpf", "refresh", "publish"} => bpfMark = local.mark
    /\ pc \in {"idle", "lock", "refresh", "publish"} => CONFIG.mark = bpfMark

\* From the sweep of one reload to the install of the next.
Swept ==
    pc \in {"idle", "lock", "publish"} /\ CONFIG.enable =>
        \A s \in Socks : sock[s].st \in {"hooked", "open"} /\ ~sock[s].missed
                            => sock[s].mark = CONFIG.mark

SocketInv == MarksAgree /\ Swept

\* Steps of users, devices and the other tasks concern neither marks nor sockets.
LEMMA SocketsUntouched ==
    ASSUME SocketInv, UNCHANGED <<pc, local, bpfMark, CONFIG, sock>>
    PROVE  SocketInv'
BY DEF SocketInv, MarksAgree, Swept

\* While redirection is on and no reload is under way, every socket of a
\* redirected process carries the mark of the rules, unless a sweep fell
\* between its hook and its descriptor.
THEOREM SocketsMarkedAlways == Spec => []SocketsMarked
<1>1. Init => SocketInv
  BY DEF Init, SocketInv, MarksAgree, Swept
<1>2. TypeOK /\ SocketInv /\ [Next]_vars => SocketInv'
  <2> SUFFICES ASSUME TypeOK, SocketInv, [Next]_vars
               PROVE  SocketInv'
    OBVIOUS
  <2>1. CASE User
    BY <2>1, SocketsUntouched
       DEF User, Enable, Disable, Toggle, ChangeOutput, UpdateConfig, ModifyMatches, SendState,
           ForceReload, Signal, reloadVars, kernelVars
  <2>2. CASE Kernel
    <3>1. ASSUME NEW d \in Devs, NEW new \in LinkState, LinkChange(d, new)
          PROVE  SocketInv'
      BY <3>1, SocketsUntouched DEF LinkChange, daemonVars
    <3>6. ASSUME NEW d \in Devs, NEW net \in Nets, NetChange(d, net)
          PROVE  SocketInv'
      BY <3>6, SocketsUntouched DEF NetChange, daemonVars
    <3>2. ASSUME NEW new \in Lans, LanChange(new)
          PROVE  SocketInv'
      BY <3>2, SocketsUntouched DEF LanChange, daemonVars
    <3>3. ASSUME NEW s \in Socks, SockHook(s)
          PROVE  SocketInv'
      BY <3>3 DEF SockHook, daemonVars, SocketInv, MarksAgree, Swept, TypeOK
    <3>4. ASSUME NEW s \in Socks, SockOpen(s)
          PROVE  SocketInv'
      BY <3>4 DEF SockOpen, daemonVars, SocketInv, MarksAgree, Swept, TypeOK
    <3>5. QED
      BY <2>2, <3>1, <3>2, <3>3, <3>4, <3>6 DEF Kernel
  <2>3. CASE MulticastRecv \/ WatchRoutes \/ Exit
    BY <2>3, SocketsUntouched
       DEF MulticastRecv, WatchRoutes, RoutesProbe, RoutesProbeFails, Exit, Cleanup, CleanupFails,
           reloadVars
  <2>4. CASE ReloadWake
    BY <2>4 DEF ReloadWake, kernelVars, SocketInv, MarksAgree, Swept
  <2>5. CASE ReloadInstall \/ ReloadBlocked
    BY <2>5 DEF ReloadInstall, ReloadBlocked, ReplaceMark, SocketInv, MarksAgree, Swept, TypeOK
  <2>11. CASE ReloadClearFails \/ ReloadRefused \/ ReloadInstallFails \/ RefreshFails
    BY <2>11 DEF ReloadClearFails, ReloadRefused, ReloadInstallFails, RefreshFails, ReloadEnds,
                 SocketInv, MarksAgree, Swept
  <2>6. CASE ReloadBpf \/ ReloadBpfDies
    BY <2>6 DEF ReloadBpf, ReloadBpfDies, SocketInv, MarksAgree, Swept
  <2>7. CASE RefreshSockets
    <3>1. MarksAgree'
      BY <2>7 DEF RefreshSockets, SocketInv, MarksAgree
    <3>2. ASSUME NEW s \in Socks, sock'[s].st \in {"hooked", "open"}, ~sock'[s].missed
          PROVE  sock'[s].mark = CONFIG'.mark
      <4>1. CASE sock[s].st = "open"
        BY <2>7, <4>1 DEF RefreshSockets, Sweep, Listed, SetMark, SocketInv, MarksAgree
      <4>2. CASE sock[s].st # "open"
        <5>1. sock'[s] = [sock[s] EXCEPT !.missed = (sock[s].st = "hooked")]
          BY <2>7, <4>2, Zenon DEF RefreshSockets, Sweep, Listed, SetMark
        <5>2. sock[s] \in [st : {"closed", "hooked", "open"}, mark : Marks \cup {None},
                            missed : BOOLEAN]
          BY DEF TypeOK
        <5>3. sock'[s].st = sock[s].st /\ sock'[s].missed = (sock[s].st = "hooked")
          BY <5>1, <5>2
        <5>4. QED
          BY <3>2, <4>2, <5>3
      <4>3. QED
        BY <4>1, <4>2
    <3>3. QED
      BY <3>1, <3>2 DEF SocketInv, Swept
  <2>8. CASE ReloadPublish
    BY <2>8 DEF ReloadPublish, kernelVars, SocketInv, MarksAgree, Swept
  <2>9. CASE UNCHANGED vars
    BY <2>9, SocketsUntouched DEF vars, daemonVars, kernelVars
  <2>10. QED
    BY <2>1, <2>2, <2>3, <2>4, <2>5, <2>6, <2>7, <2>8, <2>9, <2>11 DEF Next, WatchReload
<1>3. SocketInv => SocketsMarked
  BY DEF SocketInv, MarksAgree, Swept, SocketsMarked
<1>4. QED
  BY <1>1, <1>2, <1>3, TypeCorrect, PTL DEF Spec

-----------------------------------------------------------------------------
\* What the kernel multicasts, and a message that names device d.
Message ==
    [type : {"link"}, dev : Devs, id : Ids]
    \cup [type : {"route"}, table : {MainTable}, id : Ids \cup {None}]
Names(d, m) == m.type = "link" /\ m.dev = d

\* The Route is what a probe would find, as far as the daemon can know.
Fresh ==
    \/ route = get_link(conf.to_dev)
    \/ conf.to_dev \in stale /\ (route = None \/ SameLink(route, get_link(conf.to_dev)))

\* A Route that is out of date is about to be probed, or will be once the
\* message about its device is read.
ProbePending ==
    /\ msgs \in Seq(Message)
    /\ \/ routesPend # {}
       \/ Fresh
       \/ \E i \in 1..Len(msgs) : Names(conf.to_dev, msgs[i])

\* Steps that concern neither the output device nor the multicast socket.
LEMMA ProbeUntouched ==
    ASSUME ProbePending, UNCHANGED <<msgs, conf, link, route, routesPend, stale>>
    PROVE  ProbePending'
BY DEF ProbePending, Fresh, SameLink, Names, get_link

\* Once the tasks are idle the published Route is what a probe of the
\* configured device would find: the filter of watch_multicast, which compares
\* with the state and the Route of the moment, loses no change of the device.
\* Addresses and gateway may be old if they changed since the probe, and there
\* is no Route after a probe that failed.
THEOREM RouteFreshAlways == Spec => []RouteFresh
<1>1. Init => ProbePending
  <2> SUFFICES ASSUME Init
               PROVE  ProbePending
    OBVIOUS
  <2>1. msgs = << >> /\ routesPend # {}
    BY DEF Init
  <2>2. QED
    BY <2>1 DEF ProbePending
<1>2. TypeOK /\ ProbePending /\ [Next]_vars => ProbePending'
  <2> SUFFICES ASSUME TypeOK, ProbePending, [Next]_vars
               PROVE  ProbePending'
    OBVIOUS
  <2>1. CASE User
    <3>1. ASSUME NEW c, SendState(c)
          PROVE  ProbePending'
      BY <3>1 DEF SendState, kernelVars, ProbePending
    <3>2. CASE ForceReload \/ Signal
      BY <3>2, ProbeUntouched DEF ForceReload, Signal, kernelVars
    <3>3. QED
      BY <2>1, <3>1, <3>2
         DEF User, Enable, Disable, Toggle, ChangeOutput, UpdateConfig, ModifyMatches
  <2>2. CASE Kernel
    <3>1. ASSUME NEW d \in Devs, NEW new \in LinkState, LinkChange(d, new)
          PROVE  ProbePending'
      <4> DEFINE m == [type |-> "link", dev |-> d,
                       id |-> IF new = None THEN link[d].id ELSE new.id]
      <4>1. msgs' = Append(msgs, m) /\ UNCHANGED <<conf, route, routesPend, stale>>
        BY <3>1 DEF LinkChange, daemonVars
      <4>2. m \in Message
        BY <3>1 DEF LinkChange, Message, LinkState, TypeOK
      <4>3. /\ msgs' \in Seq(Message)
            /\ Len(msgs') = Len(msgs) + 1
            /\ msgs'[Len(msgs')] = m
            /\ \A i \in 1..Len(msgs) : msgs'[i] = msgs[i]
        BY <4>1, <4>2 DEF ProbePending
      <4>4. CASE d = conf.to_dev
        <5>1. Len(msgs') \in 1..Len(msgs') /\ Names(conf'.to_dev, msgs'[Len(msgs')])
          BY <4>1, <4>3, <4>4 DEF Names, ProbePending
        <5>2. QED
          BY <4>3, <5>1 DEF ProbePending
      <4>5. CASE d # conf.to_dev
        <5>1. get_link(conf.to_dev)' = get_link(conf.to_dev)
          BY <3>1, <4>1, <4>5 DEF LinkChange, get_link, TypeOK
        <5>2. ASSUME NEW i \in 1..Len(msgs), Names(conf.to_dev, msgs[i])
              PROVE  i \in 1..Len(msgs') /\ Names(conf'.to_dev, msgs'[i])
          BY <4>1, <4>3, <5>2 DEF Names, ProbePending
        <5>3. Fresh => Fresh'
          BY <4>1, <5>1 DEF Fresh, SameLink
        <5>4. QED
          BY <4>1, <4>3, <5>2, <5>3 DEF ProbePending
      <4>6. QED
        BY <4>4, <4>5
    <3>2. ASSUME NEW id \in Ids \cup {None}, msgs' = Append(msgs, RouteMsg(id)), Fresh => Fresh',
                 UNCHANGED <<conf, routesPend>>
          PROVE  ProbePending'
      <4>1. RouteMsg(id) \in Message
        BY DEF RouteMsg, Message
      <4>2. /\ msgs' \in Seq(Message)
            /\ Len(msgs') = Len(msgs) + 1
            /\ \A i \in 1..Len(msgs) : msgs'[i] = msgs[i]
        BY <3>2, <4>1 DEF ProbePending
      <4>3. ASSUME NEW i \in 1..Len(msgs), Names(conf.to_dev, msgs[i])
            PROVE  i \in 1..Len(msgs') /\ Names(conf'.to_dev, msgs'[i])
        BY <3>2, <4>2, <4>3 DEF Names, ProbePending
      <4>4. QED
        BY <3>2, <4>2, <4>3 DEF ProbePending
    <3>5. ASSUME NEW new \in Lans, LanChange(new)
          PROVE  ProbePending'
      <4>1. UNCHANGED <<conf, route, routesPend, link, stale>> /\ msgs' = Append(msgs, RouteMsg(None))
        BY <3>5 DEF LanChange, daemonVars
      <4>2. Fresh => Fresh'
        BY <4>1 DEF Fresh, SameLink, get_link
      <4>3. QED
        BY <3>2, <4>1, <4>2
    <3>6. ASSUME NEW d \in Devs, NEW net \in Nets, NetChange(d, net)
          PROVE  ProbePending'
      <4>1. /\ UNCHANGED <<conf, route, routesPend>> /\ stale' = stale \cup {d}
            /\ msgs' = Append(msgs, RouteMsg(link[d].id))
            /\ link' = [link EXCEPT ![d] = [link[d] EXCEPT !.net = net]]
            /\ link[d] \in [id : Ids, up : BOOLEAN, net : Nets]
        BY <3>6 DEF NetChange, daemonVars, TypeOK, LinkState
      <4>2. CASE d = conf.to_dev
        <5>1. link'[d] = [link[d] EXCEPT !.net = net]
          BY <4>1 DEF TypeOK
        <5>2. link'[d].id = link[d].id /\ link'[d].up = link[d].up /\ link'[d] # None /\ link[d] # None
          <6>1. link'[d].id = link[d].id /\ link'[d].up = link[d].up
            BY <4>1, <5>1
          <6>2. link'[d] # None /\ link[d] # None
            <7>1. link'[d] \in [id : Ids, up : BOOLEAN, net : Nets]
              BY <4>1, <5>1
            <7>2. QED
              BY <4>1, <7>1, NoneAssumption
          <6>3. QED
            BY <6>1, <6>2
        <5>5. get_link(conf.to_dev) # None
          BY <4>1, <4>2, <5>2, NoneAssumption DEF get_link, Route
        <5>6. get_link(conf.to_dev)' # None
          <6>1. link'[d] \in [id : Ids, up : BOOLEAN, net : Nets]
            BY <4>1, <5>1
          <6>2. QED
            BY <4>1, <4>2, <5>2, <6>1, NoneAssumption DEF get_link, Route
        <5>3. Fresh => Fresh'
          BY <4>1, <4>2, <5>2, <5>5, <5>6 DEF Fresh, SameLink, get_link
        <5>4. QED
          BY <3>2, <4>1, <5>3
      <4>3. CASE d # conf.to_dev
        <5>1. get_link(conf.to_dev)' = get_link(conf.to_dev)
          BY <4>1, <4>3 DEF get_link, TypeOK
        <5>2. Fresh => Fresh'
          BY <4>1, <5>1 DEF Fresh, SameLink
        <5>3. QED
          BY <3>2, <4>1, <5>2
      <4>4. QED
        BY <4>2, <4>3
    <3>3. ASSUME NEW s \in Socks, SockHook(s) \/ SockOpen(s)
          PROVE  ProbePending'
      BY <3>3, ProbeUntouched DEF SockHook, SockOpen, daemonVars
    <3>4. QED
      BY <2>2, <3>1, <3>3, <3>5, <3>6 DEF Kernel
  <2>3. CASE MulticastRecv
    <3>1. /\ msgs \in Seq(Message) /\ msgs # << >>
          /\ msgs' = Tail(msgs)
          /\ UNCHANGED <<conf, route, link, stale>>
          /\ routesPend # {} \/ Names(conf.to_dev, Head(msgs)) => routesPend' # {}
      BY <2>3 DEF MulticastRecv, ProbePending, Names
    <3>2. /\ msgs' \in Seq(Message)
          /\ Len(msgs) \in Nat \ {0} /\ Len(msgs') = Len(msgs) - 1
          /\ Head(msgs) = msgs[1]
          /\ \A i \in 1..Len(msgs') : msgs'[i] = msgs[i + 1]
      BY <3>1
    <3>3. ASSUME NEW i \in 1..Len(msgs), Names(conf.to_dev, msgs[i])
          PROVE  routesPend' # {} \/ \E j \in 1..Len(msgs') : Names(conf'.to_dev, msgs'[j])
      <4>1. CASE i = 1
        BY <3>1, <3>2, <3>3, <4>1
      <4>2. CASE i # 1
        <5>1. i - 1 \in 1..Len(msgs') /\ msgs'[i - 1] = msgs[i]
          BY <3>2, <4>2
        <5>2. QED
          BY <3>1, <3>3, <5>1 DEF Names
      <4>3. QED
        BY <4>1, <4>2
    <3>4. Fresh => Fresh'
      BY <3>1 DEF Fresh, SameLink, get_link
    <3>5. QED
      BY <3>1, <3>2, <3>3, <3>4 DEF ProbePending
  <2>4. CASE RoutesProbe
    <3>1. UNCHANGED <<conf, link, msgs>> /\ route' = get_link(conf.to_dev)
      BY <2>4 DEF RoutesProbe, SameRoute
    <3>2. get_link(conf.to_dev)' = get_link(conf.to_dev)
      BY <3>1 DEF get_link
    <3>3. QED
      BY <3>1, <3>2 DEF ProbePending, Fresh
  <2>9. CASE RoutesProbeFails
    BY <2>9 DEF RoutesProbeFails, ProbePending, Fresh
  <2>5. CASE WatchReload
    BY <2>5, ProbeUntouched
       DEF WatchReload, ReloadWake, ReloadClearFails, ReloadInstall, ReloadRefused,
           ReloadInstallFails, ReloadBlocked, ReplaceMark, ReloadBpf, ReloadBpfDies,
           RefreshSockets, RefreshFails, ReloadPublish, kernelVars
  <2>6. CASE Exit
    BY <2>6, ProbeUntouched DEF Exit, Cleanup, CleanupFails
  <2>7. CASE UNCHANGED vars
    BY <2>7, ProbeUntouched DEF vars, daemonVars, kernelVars
  <2>8. QED
    BY <2>1, <2>2, <2>3, <2>4, <2>5, <2>6, <2>7, <2>9 DEF Next, WatchRoutes
<1>3. ProbePending => RouteFresh
  BY DEF ProbePending, Fresh, RouteFresh, Settled
<1>4. QED
  BY <1>1, <1>2, <1>3, TypeCorrect, PTL DEF Spec
-----------------------------------------------------------------------------
\* The rules that watch_reload installs for the current state and Route, and
\* the blocker it reports.
TargetRules(m, nft) ==
    IF Redirecting(route, conf) THEN EarlyRules(conf, route.net, m) \cup LateRules(conf, m, nft)
    ELSE IF Dropping(route, conf) THEN {DropRule(m)} ELSE {}
RulesApplied == \E nft \in BOOLEAN : rules = {StaticRule} \cup TargetRules(bpfMark, nft)
TargetBlocker == IF Redirecting(route, conf) THEN "none" ELSE BlockerOf(route, conf)

\* Before the first reload the first probe is still to come, and it will find
\* no Route to be the same as.
Started ==
    /\ bpfMark = None /\ reloadPend = {} /\ pc = "idle" => routesPend # {} /\ route = None
    /\ pc \in {"bpf", "refresh", "publish"} => bpfMark = local.mark

\* The static rule outlives every reload.
StaticStays == life # "exited" => StaticRule \in rules

\* From the moment at which a reload has read state and Route, and as long as
\* no change is pending, it carries them on to the kernel, CONFIG and status.
Applied ==
    life # "exited" /\ reloadPend = {} /\ bpfMark # None /\ pc \notin {"lock", "failed"} =>
        /\ RulesApplied
        /\ ~Redirecting(route, conf) => kroutes = {}
        /\ pc # "idle" => /\ local.enable = Redirecting(route, conf)
                          /\ local.blocker = TargetBlocker
        /\ pc # "bpf" => CONFIG = [enable |-> Redirecting(route, conf), mark |-> bpfMark]
        /\ pc = "idle" => status = [attached |-> TRUE, blocker |-> TargetBlocker]

SyncInv == Started /\ StaticStays /\ Applied

\* A reload clears everything but the static rule, which bears no mark.
LEMMA KeptIsExactlyStatic ==
    ASSUME TypeOK, RulesOwned, unclear = {}, StaticRule \in rules
    PROVE  KeptRules = {StaticRule}
<1>1. bpfMark # None => StaticRule.table # bpfMark /\ StaticRule.fwmark # bpfMark
  BY MarksAssumption DEF TypeOK, StaticRule, Rule
<1>2. StaticRule \in KeptRules
  BY <1>1 DEF KeptRules, AfterClearRules
<1>3. QED
  BY <1>2, KeptIsStatic

\* The rules stay those of the state and Route as long as none of them changes.
LEMMA AppliedRulesStay ==
    ASSUME UNCHANGED <<conf, route, rules, bpfMark>>
    PROVE  RulesApplied' = RulesApplied
<1>1. \A nft \in BOOLEAN : TargetRules(bpfMark, nft)' = TargetRules(bpfMark, nft)
  BY DEF TargetRules, Redirecting, Dropping, BlockerOf, EarlyRules, LateRules, Rule, DropRule,
         NftRule
<1>2. StaticRule' = StaticRule
  BY DEF StaticRule, Rule
<1>3. QED
  BY <1>1, <1>2, Zenon DEF RulesApplied

\* Steps that touch neither the state nor what a reload derives from it.
LEMMA SyncUntouched ==
    ASSUME SyncInv,
           UNCHANGED <<conf, route, reloadPend, reloadVars, rules, CONFIG>>,
           kroutes' \subseteq kroutes, routesPend \subseteq routesPend',
           life' = life \/ life' = "stopping", life' # "exited" => life # "exited"
    PROVE  SyncInv'
<1>1. Started'
  BY DEF SyncInv, Started, reloadVars
<1>2. StaticStays'
  BY DEF SyncInv, StaticStays, StaticRule, Rule
<1>3. RulesApplied' = RulesApplied
  BY AppliedRulesStay DEF reloadVars
<1>4. Applied'
  BY <1>3 DEF SyncInv, Applied, reloadVars, TargetBlocker, Redirecting, BlockerOf
<1>5. QED
  BY <1>1, <1>2, <1>4 DEF SyncInv

\* A change that is pending leaves only the first two parts to show.
LEMMA SyncPending ==
    ASSUME SyncInv, reloadPend' # {}, UNCHANGED <<reloadVars, rules, life>>
    PROVE  SyncInv'
BY DEF SyncInv, Started, StaticStays, Applied, reloadVars, StaticRule, Rule

\* An iteration that gets past its netlink requests has applied the state and
\* the Route it found when it took the lock.
LEMMA SyncReplaced ==
    ASSUME TypeOK, OwnedInv, SyncInv, ReplaceMark,
           NEW nft \in BOOLEAN, rules' = KeptRules \cup TargetRules(local.mark, nft),
           ~Redirecting(route, conf) => kroutes' = KeptRoutes,
           local'.enable = Redirecting(route, conf), local'.blocker = TargetBlocker,
           local'.mark = local.mark, pc' = "bpf", life' = life
    PROVE  SyncInv'
<1>1. life # "exited" /\ StaticRule \in rules /\ local.mark # None
  BY NamesAssumption DEF ReplaceMark, SyncInv, StaticStays, TypeOK
<1>2. RulesOwned /\ unclear = {}
  BY AllClear DEF OwnedInv
<1>3. rules' = {StaticRule} \cup TargetRules(local.mark, nft)
  BY <1>1, <1>2, KeptIsExactlyStatic
<1>4. ~Redirecting(route, conf) => kroutes' = {}
  BY <1>2, KeptIsStatic
<1>5. /\ UNCHANGED <<conf, route>> /\ bpfMark' = local.mark
      /\ StaticRule' = StaticRule
  BY DEF ReplaceMark, StaticRule, Rule
<1>6. Redirecting(route, conf)' = Redirecting(route, conf) /\ TargetBlocker' = TargetBlocker
  BY <1>5 DEF Redirecting, TargetBlocker, BlockerOf
<1>7. TargetRules(bpfMark, nft)' = TargetRules(local.mark, nft)
  BY <1>5 DEF TargetRules, Redirecting, Dropping, BlockerOf, EarlyRules, LateRules, Rule,
              DropRule, NftRule
<1>8. RulesApplied'
  BY <1>3, <1>5, <1>7, Zenon DEF RulesApplied
<1>9. Started' /\ StaticStays'
  BY <1>1, <1>3, <1>5 DEF Started, StaticStays
<1>10. Applied'
  BY <1>4, <1>5, <1>6, <1>8, Zenon DEF Applied
<1>11. QED
  BY <1>9, <1>10 DEF SyncInv

\* Once the tasks are idle the kernel rules, CONFIG and the published blocker
\* are those of the current state and Route: no change that arrives at any
\* point of a reload is lost.
THEOREM InSyncAlways == Spec => []InSync
<1>1. Init => SyncInv
  BY DEF Init, SyncInv, Started, StaticStays, Applied
<1>2. TypeOK /\ OwnedInv /\ SyncInv /\ [Next]_vars => SyncInv'
  <2> SUFFICES ASSUME TypeOK, OwnedInv, SyncInv, [Next]_vars
               PROVE  SyncInv'
    OBVIOUS
  <2>1. CASE User
    <3>1. ASSUME NEW c, SendState(c)
          PROVE  SyncInv'
      BY <3>1, SyncPending DEF SendState, kernelVars
    <3>2. CASE ForceReload
      BY <3>2, SyncPending DEF ForceReload, kernelVars
    <3>3. CASE Signal
      BY <3>3, SyncUntouched DEF Signal, kernelVars
    <3>4. QED
      BY <2>1, <3>1, <3>2, <3>3
         DEF User, Enable, Disable, Toggle, ChangeOutput, UpdateConfig, ModifyMatches
  <2>2. CASE Kernel
    <3>1. ASSUME NEW d \in Devs, NEW new \in LinkState, LinkChange(d, new)
          PROVE  SyncInv'
      BY <3>1, SyncUntouched DEF LinkChange, daemonVars, reloadVars
    <3>5. ASSUME NEW d \in Devs, NEW net \in Nets, NetChange(d, net)
          PROVE  SyncInv'
      <4>1. kroutes' \subseteq kroutes
        BY <3>5 DEF NetChange
      <4>2. QED
        BY <3>5, <4>1, SyncUntouched DEF NetChange, daemonVars, reloadVars
    <3>2. ASSUME NEW new \in Lans, LanChange(new)
          PROVE  SyncInv'
      BY <3>2, SyncUntouched DEF LanChange, daemonVars, reloadVars
    <3>3. ASSUME NEW s \in Socks, SockHook(s) \/ SockOpen(s)
          PROVE  SyncInv'
      BY <3>3, SyncUntouched DEF SockHook, SockOpen, daemonVars, reloadVars
    <3>4. QED
      BY <2>2, <3>1, <3>2, <3>3, <3>5 DEF Kernel
  <2>3. CASE MulticastRecv
    BY <2>3, SyncUntouched DEF MulticastRecv
  <2>4. CASE RoutesProbe
    <3>1. CASE SameRoute(get_link(conf.to_dev))
      <4>1. UNCHANGED <<conf, route, reloadPend, reloadVars, life, rules, kroutes, CONFIG>>
            /\ route # None
        BY <2>4, <3>1 DEF RoutesProbe, SameRoute, kernelVars
      <4>2. ~(bpfMark = None /\ reloadPend = {} /\ pc = "idle")
        BY <4>1 DEF SyncInv, Started
      <4>3. Started'
        BY <4>1, <4>2 DEF SyncInv, Started, reloadVars
      <4>4. StaticStays'
        BY <4>1 DEF SyncInv, StaticStays, StaticRule, Rule
      <4>7. RulesApplied' = RulesApplied
        BY <4>1, AppliedRulesStay DEF reloadVars
      <4>5. Applied'
        BY <4>1, <4>7 DEF SyncInv, Applied, reloadVars, TargetBlocker, Redirecting, BlockerOf
      <4>6. QED
        BY <4>3, <4>4, <4>5 DEF SyncInv
    <3>2. CASE ~SameRoute(get_link(conf.to_dev))
      BY <2>4, <3>2, SyncPending DEF RoutesProbe, kernelVars
    <3>3. QED
      BY <3>1, <3>2
  <2>13. CASE RoutesProbeFails
    BY <2>13, SyncPending DEF RoutesProbeFails
  <2>5. CASE ReloadWake
    BY <2>5 DEF ReloadWake, kernelVars, SyncInv, Started, StaticStays, Applied, StaticRule, Rule
  <2>6. CASE ReloadInstall
    <3>1. Redirecting(route, conf) /\ ReplaceMark
      BY <2>6 DEF ReloadInstall
    <3>2. TargetBlocker = "none"
      BY <3>1 DEF TargetBlocker
    <3>3. PICK nft \in BOOLEAN : rules' = KeptRules \cup TargetRules(local.mark, nft)
      <4>1. PICK nft \in BOOLEAN :
               rules' = KeptRules \cup EarlyRules(conf, route.net, local.mark)
                                  \cup LateRules(conf, local.mark, nft)
        BY <2>6 DEF ReloadInstall
      <4>2. TargetRules(local.mark, nft)
              = EarlyRules(conf, route.net, local.mark) \cup LateRules(conf, local.mark, nft)
        BY <3>1 DEF TargetRules
      <4>3. QED
        BY <4>1, <4>2
    <3>4. local'.enable = TRUE /\ local'.blocker = "none" /\ local'.mark = local.mark
      BY <2>6 DEF ReloadInstall, TypeOK
    <3>5. local'.enable = Redirecting(route, conf)
      BY <3>1, <3>4
    <3>6. QED
      BY <2>6, <3>1, <3>2, <3>3, <3>4, <3>5, SyncReplaced DEF ReloadInstall
  <2>7. CASE ReloadClearFails \/ ReloadRefused \/ ReloadInstallFails \/ RefreshFails
    <3>1. pc' = "failed" /\ life # "exited" /\ StaticRule \in rules
      BY <2>7 DEF ReloadClearFails, ReloadRefused, ReloadInstallFails, RefreshFails, ReloadEnds,
                  ReplaceMark, Tick, SyncInv, StaticStays
    <3>2. StaticRule \in rules'
      <4>1. CASE ReloadClearFails
        <5>1. PICK left \in ClearFailures(bpfMark) : rules' = left.rules
          BY <4>1 DEF ReloadClearFails
        <5>2. bpfMark \in Marks
          BY <4>1 DEF ReloadClearFails, TypeOK
        <5>3. QED
          BY <3>1, <5>1, <5>2, FailuresDelete
      <4>2. CASE ReloadRefused \/ ReloadInstallFails
        <5>1. ReplaceMark /\ KeptRules \subseteq rules'
          BY <4>2 DEF ReloadRefused, ReloadInstallFails
        <5>2. unclear = {} /\ RulesOwned
          BY <5>1, AllClear DEF OwnedInv
        <5>3. QED
          BY <3>1, <5>1, <5>2, KeptIsExactlyStatic
      <4>3. CASE RefreshFails
        BY <3>1, <4>3 DEF RefreshFails
      <4>4. QED
        BY <2>7, <4>1, <4>2, <4>3
    <3>3. QED
      BY <3>1, <3>2 DEF SyncInv, Started, StaticStays, Applied, StaticRule, Rule
  <2>14. CASE ReloadBpfDies
    BY <2>14 DEF ReloadBpfDies, SyncInv, Started, StaticStays, Applied
  <2>8. CASE ReloadBlocked
    <3>1. ~Redirecting(route, conf) /\ ReplaceMark
      BY <2>8 DEF ReloadBlocked
    <3>2. /\ TargetRules(local.mark, TRUE)
               = (IF Dropping(route, conf) THEN {DropRule(local.mark)} ELSE {})
          /\ TargetBlocker = BlockerOf(route, conf)
      BY <3>1 DEF TargetRules, TargetBlocker
    <3>3. rules' = KeptRules \cup TargetRules(local.mark, TRUE)
      BY <2>8, <3>2 DEF ReloadBlocked
    <3>4. local'.enable = FALSE /\ local'.blocker = BlockerOf(route, conf) /\ local'.mark = local.mark
      BY <2>8 DEF ReloadBlocked, TypeOK
    <3>5. Redirecting(route, conf) = FALSE
      BY <3>1 DEF Redirecting
    <3>6. QED
      BY <2>8, <3>1, <3>2, <3>3, <3>4, <3>5, SyncReplaced DEF ReloadBlocked
  <2>9. CASE ReloadBpf \/ RefreshSockets \/ ReloadPublish
    <3> DEFINE on == Redirecting(route, conf)
    <3>1. /\ UNCHANGED <<conf, route, reloadPend, bpfMark, local, life, rules, kroutes>>
          /\ pc \in {"bpf", "refresh", "publish"} /\ life # "exited"
      BY <2>9 DEF ReloadBpf, RefreshSockets, ReloadPublish, kernelVars
    <3>2. bpfMark = local.mark /\ bpfMark # None
      BY <3>1, NamesAssumption DEF SyncInv, Started, TypeOK
    <3>3. RulesApplied' = RulesApplied /\ on' = on /\ TargetBlocker' = TargetBlocker
          /\ StaticRule' = StaticRule
      BY <3>1, AppliedRulesStay DEF TargetBlocker, Redirecting, BlockerOf, StaticRule, Rule
    <3>4. Started' /\ StaticStays'
      BY <2>9, <3>1, <3>2, <3>3
         DEF ReloadBpf, RefreshSockets, ReloadPublish, SyncInv, Started, StaticStays
    <3>5. SUFFICES ASSUME reloadPend = {}
                   PROVE  Applied'
      BY <3>1, <3>4 DEF SyncInv, Applied
    <3>6. /\ RulesApplied
          /\ ~on => kroutes = {}
          /\ local.enable = on
          /\ local.blocker = TargetBlocker
          /\ pc # "bpf" => CONFIG = [enable |-> on, mark |-> bpfMark]
      BY <3>1, <3>2, <3>5, Zenon DEF SyncInv, Applied
    <3>7. CASE ReloadBpf
      BY <3>1, <3>2, <3>3, <3>6, <3>7, Zenon DEF ReloadBpf, Applied
    <3>8. CASE RefreshSockets
      BY <3>1, <3>2, <3>3, <3>6, <3>8, Zenon DEF RefreshSockets, Applied
    <3>9. CASE ReloadPublish
      BY <3>1, <3>2, <3>3, <3>6, <3>9, Zenon DEF ReloadPublish, kernelVars, Applied
    <3>10. QED
      BY <2>9, <3>7, <3>8, <3>9
  <2>10. CASE Exit
    BY <2>10 DEF Exit, Cleanup, CleanupFails, reloadVars, SyncInv, Started, StaticStays, Applied
  <2>11. CASE UNCHANGED vars
    BY <2>11, SyncUntouched DEF vars, daemonVars, kernelVars, reloadVars
  <2>12. QED
    BY <2>1, <2>2, <2>3, <2>4, <2>5, <2>6, <2>7, <2>8, <2>9, <2>10, <2>11,
       <2>13, <2>14 DEF Next, WatchRoutes, WatchReload
<1>3. SyncInv => InSync
  <2> SUFFICES ASSUME SyncInv, Settled
               PROVE  InSync
    BY DEF InSync
  <2>1. bpfMark # None
    BY DEF Settled, SyncInv, Started
  <2>2. QED
    BY <2>1, Zenon DEF Settled, SyncInv, Applied, InSync, RulesApplied, TargetRules, TargetBlocker
<1>4. QED
  BY <1>1, <1>2, <1>3, TypeCorrect, OwnedAlways, PTL DEF Spec

-----------------------------------------------------------------------------
\* The rules for two marks say the same, as long as neither is the number of
\* the main table.
AllRules(c, a, m, nft) == EarlyRules(c, a, m) \cup LateRules(c, m, nft)

LEMMA RulesAlike ==
    ASSUME NEW c, NEW a, NEW m, NEW n, NEW b, NEW d, m # MainTable, n # MainTable,
           NEW r \in AllRules(c, a, m, b), r.kind # "nft"
    PROVE  \E q \in AllRules(c, a, n, d) :
             /\ q.kind = r.kind /\ q.dst = r.dst
             /\ q.table = MainTable <=> r.table = MainTable
             /\ r # StaticRule
<1> USE DEF Rule, StaticRule, AllRules
<1>1. CASE r \in EarlyRules(c, a, m)
  <2>1. CASE r = Rule("from", m, Unmarked, a)
    <3>1. Rule("from", n, Unmarked, a) \in EarlyRules(c, a, n)
      BY DEF EarlyRules
    <3>2. QED
      BY <2>1, <3>1
  <2>2. CASE r = Rule("fwmark", m, m, "any")
    <3>1. Rule("fwmark", n, n, "any") \in EarlyRules(c, a, n)
      BY DEF EarlyRules
    <3>2. QED
      BY <2>2, <3>1
  <2>3. ASSUME NEW i \in c.ips,
               r = Rule("ip", IF i.dir = "redirect" THEN m ELSE MainTable, m, i.dst)
        PROVE  \E q \in EarlyRules(c, a, n) :
                 /\ q.kind = r.kind /\ q.dst = r.dst
                 /\ q.table = MainTable <=> r.table = MainTable
                 /\ r # StaticRule
    <3> DEFINE q == Rule("ip", IF i.dir = "redirect" THEN n ELSE MainTable, n, i.dst)
    <3>1. q \in EarlyRules(c, a, n)
      BY DEF EarlyRules
    <3>2. QED
      BY <2>3, <3>1
  <2>4. QED
    BY <1>1, <2>1, <2>2, <2>3 DEF EarlyRules
<1>2. CASE r \in LateRules(c, m, b)
  <2>1. r = Rule("unreachable", m, m, "any") /\ ~c.opts.allow_lan
    BY <1>2 DEF LateRules, NftRule
  <2>2. Rule("unreachable", n, n, "any") \in LateRules(c, n, d)
    BY <2>1 DEF LateRules
  <2>3. QED
    BY <2>1, <2>2
<1>3. QED
  BY <1>1, <1>2

\* Two rules say the same when they agree in all but table and fwmark.
LEMMA SaysAlike ==
    ASSUME NEW q, NEW r, q.kind = r.kind, q.dst = r.dst,
           q.table = MainTable <=> r.table = MainTable
    PROVE  Says(q) = Says(r)
<1>1. (q.table = MainTable) = (r.table = MainTable)
  OBVIOUS
<1>2. QED
  BY <1>1, Zenon DEF Says

\* The rules of one mark are a policy that the rules of another express too.
LEMMA PolicyForgetsMark ==
    ASSUME NEW c, NEW a, NEW m, NEW n, NEW b, NEW d, m # MainTable, n # MainTable,
           NEW ks \in SUBSET {StaticRule}
    PROVE  Policy(ks \cup AllRules(c, a, m, b)) = Policy(AllRules(c, a, n, d))
<1>1. ASSUME NEW j, NEW k, NEW e, NEW f, j # MainTable, k # MainTable,
             NEW r \in AllRules(c, a, j, e), r.kind # "nft"
      PROVE  /\ r # StaticRule
             /\ \E q \in AllRules(c, a, k, f) : q # StaticRule /\ q.kind # "nft" /\ Says(q) = Says(r)
  <2>1. PICK q \in AllRules(c, a, k, f) : /\ q.kind = r.kind /\ q.dst = r.dst
                                          /\ q.table = MainTable <=> r.table = MainTable
                                          /\ r # StaticRule
    BY <1>1, RulesAlike
  <2>2. q # StaticRule
    BY <1>1, <2>1, RulesAlike
  <2>3. Says(q) = Says(r)
    BY <2>1, SaysAlike
  <2>4. QED
    BY <1>1, <2>1, <2>2, <2>3
<1>2. QED
  BY <1>1 DEF Policy

\* The same for the rule that drops traffic; the static rule says nothing.
LEMMA PolicyOfDrop ==
    ASSUME NEW m, NEW n, m # MainTable, n # MainTable, NEW ks \in SUBSET {StaticRule}
    PROVE  /\ Policy(ks) = {}
           /\ Policy(ks \cup {DropRule(m)}) = Policy({DropRule(n)})
<1>1. /\ DropRule(m) # StaticRule /\ DropRule(n) # StaticRule
      /\ DropRule(m).kind = DropRule(n).kind /\ DropRule(m).dst = DropRule(n).dst
      /\ DropRule(m).table = MainTable <=> DropRule(n).table = MainTable
  BY DEF DropRule, StaticRule, Rule
<1>2. Says(DropRule(m)) = Says(DropRule(n))
  BY <1>1, SaysAlike
<1>3. QED
  BY <1>1, <1>2 DEF Policy

\* The rules that an iteration installs are the policy wanted at that moment.
LEMMA TargetIsWanted ==
    ASSUME TypeOK, OwnedInv, ReplaceMark, NEW nft \in BOOLEAN
    PROVE  /\ Policy(KeptRules \cup TargetRules(local.mark, nft)) = Wanted
           /\ Redirecting(route, conf) =>
                \A rs \in SUBSET EarlyRules(conf, route.net, local.mark) :
                    Policy(KeptRules \cup rs) \subseteq Wanted
           /\ Policy(KeptRules) = {}
<1>1. local.mark # MainTable /\ Unmarked # MainTable
  BY MarksAssumption DEF TypeOK, ReplaceMark, Unmarked, MainTable
<1>2. KeptRules \in SUBSET {StaticRule}
  BY KeptIsStatic, AllClear DEF OwnedInv
<1>7. Policy(KeptRules) = {}
  BY <1>2 DEF Policy
<1>3. CASE Redirecting(route, conf)
  <2>1. TargetRules(local.mark, nft) = AllRules(conf, route.net, local.mark, nft)
        /\ Wanted = Policy(AllRules(conf, route.net, Unmarked, TRUE))
    BY <1>3 DEF TargetRules, Wanted, AllRules
  <2>2. Policy(KeptRules \cup AllRules(conf, route.net, local.mark, nft))
          = Policy(AllRules(conf, route.net, Unmarked, TRUE))
    <3>1. \A b, d : Policy(KeptRules \cup AllRules(conf, route.net, local.mark, b))
                      = Policy(AllRules(conf, route.net, Unmarked, d))
      BY <1>1, <1>2, PolicyForgetsMark
    <3>2. QED
      BY <3>1, Zenon
  <2>3. ASSUME NEW rs \in SUBSET EarlyRules(conf, route.net, local.mark)
        PROVE  Policy(KeptRules \cup rs)
                 \subseteq Policy(KeptRules \cup AllRules(conf, route.net, local.mark, nft))
    <3>1. KeptRules \cup rs \subseteq KeptRules \cup AllRules(conf, route.net, local.mark, nft)
      BY DEF AllRules
    <3>2. QED
      BY <3>1 DEF Policy
  <2>4. QED
    BY <1>7, <2>1, <2>2, <2>3
<1>4. CASE ~Redirecting(route, conf) /\ Dropping(route, conf)
  BY <1>1, <1>2, <1>4, <1>7, PolicyOfDrop DEF TargetRules, Wanted
<1>5. CASE ~Redirecting(route, conf) /\ ~Dropping(route, conf)
  <2>1. TargetRules(local.mark, nft) = {} /\ Wanted = Policy({})
    BY <1>5 DEF TargetRules, Wanted
  <2>2. Policy(KeptRules \cup {}) = {} /\ Policy({}) = {}
    BY <1>2 DEF Policy
  <2>3. QED
    BY <1>5, <1>7, <2>1, <2>2
<1>6. QED
  BY <1>3, <1>4, <1>5

\* Steps that change neither the rules nor state and Route are stuttering
\* steps of the abstract specification.
LEMMA FollowerStutters ==
    ASSUME UNCHANGED <<conf, route, rules>>
    PROVE  UNCHANGED <<Wanted, Policy(rules)>>
BY DEF Wanted, Policy, Says, Redirecting, Dropping, BlockerOf, EarlyRules, LateRules, DropRule,
       NftRule, StaticRule, Rule

\* The same for steps that change the rules, or the state and Route.
LEMMA WantedStays ==
    ASSUME UNCHANGED <<conf, route>>
    PROVE  Wanted' = Wanted /\ Policy(rules)' = Policy(rules')
BY DEF Wanted, Policy, Says, Redirecting, Dropping, BlockerOf, EarlyRules, LateRules, DropRule,
       NftRule, StaticRule, Rule

LEMMA PolicyStays ==
    ASSUME UNCHANGED rules
    PROVE  Policy(rules)' = Policy(rules)
BY DEF Policy, Says, StaticRule, Rule

\* Fewer rules say less.
LEMMA PolicyShrinks ==
    ASSUME NEW rs, NEW qs, rs \subseteq qs
    PROVE  Policy(rs) \in SUBSET Policy(qs)
BY DEF Policy

\* The daemon implements the safety part of PolicyFollower: the policy in the
\* kernel is only ever exchanged as a whole for the one that state and Route
\* call for at that moment, it is partly installed only by a reload that ends
\* the daemon, and an exited daemon leaves none unless a clear failed or the
\* process died.
THEOREM ImplementsFollower == Spec => Follower!Init /\ [][Follower!Next]_(Follower!fvars)
<1>1. Init => Follower!Init
  BY DEF Init, Follower!Init, Policy
<1>2. TypeOK /\ OwnedInv /\ [Next]_vars => [Follower!Next]_(Follower!fvars)
  <2> SUFFICES ASSUME TypeOK, OwnedInv, [Next]_vars
               PROVE  [Follower!Next]_(Follower!fvars)
    OBVIOUS
  <2> DEFINE stuck == unclear # {}
  <2>20. unclear' = unclear => stuck' = stuck
    OBVIOUS
  <2> USE DEF Follower!Next, Follower!fvars
  <2>1. CASE User
    <3>1. ASSUME NEW c, SendState(c)
          PROVE  Follower!Change
      <4>1. life # "exited" /\ UNCHANGED <<rules, life, unclear>>
        BY <3>1 DEF SendState, kernelVars, reloadVars
      <4>2. QED
        BY <4>1, <2>20, PolicyStays DEF Follower!Change
    <3>2. CASE ForceReload
      BY <3>2, <2>20, FollowerStutters DEF ForceReload, kernelVars, reloadVars
    <3>3. CASE Signal
      BY <3>3, <2>20, FollowerStutters DEF Signal, kernelVars, reloadVars, Follower!Stop
    <3>4. QED
      BY <2>1, <3>1, <3>2, <3>3
         DEF User, Enable, Disable, Toggle, ChangeOutput, UpdateConfig, ModifyMatches
  <2>2. CASE Kernel
    <3>1. UNCHANGED <<conf, route, rules, life, unclear>>
      BY <2>2 DEF Kernel, LinkChange, NetChange, LanChange, SockHook, SockOpen, daemonVars
    <3>2. QED
      BY <2>20, <3>1, FollowerStutters
  <2>3. CASE MulticastRecv
    BY <2>3, <2>20, FollowerStutters DEF MulticastRecv, reloadVars
  <2>4. CASE WatchRoutes
    <3>1. life # "exited" /\ UNCHANGED <<rules, life, unclear>>
      BY <2>4 DEF WatchRoutes, RoutesProbe, RoutesProbeFails, Tick, reloadVars
    <3>2. QED
      BY <2>20, <3>1, PolicyStays DEF Follower!Change
  <2>5. CASE ReloadInstall \/ ReloadBlocked
    <3>1. /\ ReplaceMark /\ life # "exited" /\ UNCHANGED <<conf, route, life, unclear>>
      BY <2>5 DEF ReloadInstall, ReloadBlocked, ReplaceMark
    <3>2. PICK nft \in BOOLEAN : rules' = KeptRules \cup TargetRules(local.mark, nft)
      <4>1. CASE ReloadInstall
        <5>1. PICK nft \in BOOLEAN :
                 rules' = KeptRules \cup EarlyRules(conf, route.net, local.mark)
                                    \cup LateRules(conf, local.mark, nft)
          BY <4>1 DEF ReloadInstall
        <5>2. TargetRules(local.mark, nft)
                = EarlyRules(conf, route.net, local.mark) \cup LateRules(conf, local.mark, nft)
          BY <4>1 DEF ReloadInstall, TargetRules
        <5>3. QED
          BY <5>1, <5>2
      <4>2. CASE ReloadBlocked
        <5>1. rules' = KeptRules \cup TargetRules(local.mark, TRUE)
          BY <4>2 DEF ReloadBlocked, TargetRules
        <5>2. QED
          BY <5>1
      <4>3. QED
        BY <2>5, <4>1, <4>2
    <3>3. Policy(rules)' = Wanted /\ Wanted' = Wanted
      BY <3>1, <3>2, TargetIsWanted, WantedStays
    <3>4. unclear = {}
      BY <3>1, AllClear
    <3>5. QED
      BY <2>20, <3>1, <3>3, <3>4 DEF Follower!Apply
  <2>6. CASE ReloadRefused \/ ReloadInstallFails
    <3>1. /\ ReplaceMark /\ life # "exited" /\ life' = "stopping" /\ UNCHANGED <<conf, route, unclear>>
      BY <2>6 DEF ReloadRefused, ReloadInstallFails, ReplaceMark, ReloadEnds
    <3>2. \/ /\ Redirecting(route, conf)
             /\ \E rs \in SUBSET EarlyRules(conf, route.net, local.mark) : rules' = KeptRules \cup rs
          \/ rules' = KeptRules
      BY <2>6 DEF ReloadRefused, ReloadInstallFails
    <3>3. Policy(rules') \in SUBSET Wanted
      BY <3>1, <3>2, TargetIsWanted
    <3>4. unclear = {}
      BY <3>1, AllClear
    <3>5. QED
      BY <2>20, <3>1, <3>3, <3>4, WantedStays DEF Follower!GiveUp
  <2>7. CASE ReloadClearFails
    <3>1. /\ life # "exited" /\ life' = "stopping" /\ UNCHANGED <<conf, route>> /\ unclear' # {}
      BY <2>7 DEF ReloadClearFails, ReplaceMark, ReloadEnds
    <3>2. rules' \subseteq rules
      BY <2>7, FailuresDelete DEF ReloadClearFails
    <3>3. QED
      BY <3>1, <3>2, WantedStays, PolicyShrinks DEF Follower!Stick
  <2>8. CASE ReloadWake \/ ReloadBpf \/ RefreshSockets \/ ReloadPublish
    <3>1. UNCHANGED <<conf, route, rules, life, unclear>>
      BY <2>8 DEF ReloadWake, ReloadBpf, RefreshSockets, ReloadPublish, kernelVars
    <3>2. QED
      BY <2>20, <3>1, FollowerStutters
  <2>9. CASE RefreshFails
    <3>1. UNCHANGED <<conf, route, rules, unclear>> /\ life' = "stopping" /\ life # "exited"
      BY <2>9 DEF RefreshFails, ReloadEnds, Tick
    <3>2. life \in {"running", "stopping"}
      BY <3>1 DEF TypeOK
    <3>3. QED
      BY <2>20, <3>1, <3>2, FollowerStutters DEF Follower!Stop
  <2>10. CASE ReloadBpfDies
    BY <2>10, FollowerStutters DEF ReloadBpfDies, Tick, Follower!Die
  <2>11. CASE Exit
    <3>1. /\ life = "stopping" /\ life' = "exited" /\ UNCHANGED <<conf, route>>
      BY <2>11 DEF Exit, Cleanup, CleanupFails
    <3>2. rules' \subseteq rules
      <4>1. CASE Cleanup
        BY <4>1 DEF Cleanup, AfterClearStatic, KeptRules, AfterClearRules
      <4>2. CASE CleanupFails
        BY <4>2, FailuresDelete
           DEF CleanupFails, AfterClearStatic, KeptRules, AfterClearRules
      <4>3. QED
        BY <2>11, <4>1, <4>2 DEF Exit
    <3>3. CASE unclear' # {}
      BY <3>1, <3>2, <3>3, WantedStays, PolicyShrinks DEF Follower!Exit
    <3>4. CASE unclear' = {}
      <4>1. unclear = {} /\ Cleanup
        BY <2>11, <3>4 DEF Exit, Cleanup, CleanupFails, reloadVars
      <4>2. rules' = {}
        BY <4>1, KeptIsStatic DEF OwnedInv, Cleanup, AfterClearStatic, StaticRule, Rule
      <4>3. Policy(rules') = {}
        BY <4>2 DEF Policy
      <4>4. QED
        BY <3>1, <3>4, <4>1, <4>3, WantedStays DEF Follower!Exit
    <3>5. QED
      BY <3>3, <3>4
  <2>12. CASE UNCHANGED vars
    BY <2>12, <2>20, FollowerStutters DEF vars, daemonVars, kernelVars
  <2>13. QED
    BY <2>1, <2>2, <2>3, <2>4, <2>5, <2>6, <2>7, <2>8, <2>9, <2>10, <2>11, <2>12
       DEF Next, WatchReload
<1>3. QED
  BY <1>1, <1>2, TypeCorrect, OwnedAlways, PTL DEF Spec
=============================================================================
