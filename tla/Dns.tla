--------------------------------- MODULE Dns ---------------------------------
(***************************************************************************)
(* DNS matches (rebpf/dns.rs, DnsCache in rebpf/lib.rs, retire_dns_record  *)
(* in rebpf/dbus.rs, the default route in rebpf/netlink.rs).               *)
(*                                                                         *)
(* DNS answers copied by the eBPF ingress program are parsed on a thread   *)
(* of their own (parse).  A record lives in a heap ordered by expiry and in *)
(* a hash map that holds the newest expiry; watch_dns_ttl sleeps until the *)
(* first one is due, watch_dns_routes rebuilds the routes when the state,  *)
(* the output or the default route changes.  All of them hold ctx.dns while *)
(* they touch the records, so each critical section is one action.         *)
(*                                                                         *)
(* An answer section is parsed under one lock; it is modelled as several   *)
(* packets of one answer each, which allows more interleavings.            *)
(***************************************************************************)
EXTENDS Naturals, Sequences, FiniteSets

CONSTANTS
    Names,      \* domain names
    Dests,      \* IPv4 addresses
    Patterns,   \* dns matches: records [names, dir]
    MatchSets,  \* the sets of dns matches users configure
    Ids,        \* Routes of an output or a default link
    Ttls,       \* ttl values of answers
    MaxTtls,    \* values of dns_max_ttl_sec
    None,
    RingCap,    \* capacity of the ring buffer, in packets
    MaxTime,    \* bound on the clock
    MaxEvents   \* bound on the steps of users, devices and resolvers

ASSUME DnsAssumption ==
    /\ Ttls \subseteq Nat /\ MaxTtls \subseteq Nat
    /\ None \notin Nat /\ None \notin Ids
    /\ MaxTime \in Nat /\ MaxEvents \in Nat /\ RingCap \in Nat
    /\ \A m \in MatchSets : m \subseteq Patterns

VARIABLES
    now,         \* Instant::now()
    conf,        \* ctx.state: [enable, matches, max_ttl]
    out,         \* ctx.routes_changed
    default,     \* ctx.default_route_changed
    listening,   \* whether watch_multicast has started
    routeMsg,    \* an RTM_NEWROUTE message of the main table is unread
    cache,       \* dns.cache.dfa, as the matches it was built from
    heap, hash,  \* dns.heap; dns.hash, None for a key that is absent
    sleeper,     \* dns.ttl_sleeper
    ttlPend,     \* watch_dns_ttl has not seen sleeper's newest version
    ttlPc, wakeAt, \* watch_dns_ttl: "wait" until wakeAt, or "lock"
    routesPend,  \* channels with a version that watch_dns_routes has not seen
    routesPc, updateCaches,
    parsing,     \* parse(): None or the answer with the clock and limit it read
    ring,        \* kernel: dns_ringbuf
    enableDns,   \* kernel: CONFIG.enable_dns
    table,       \* kernel: routes of dns_table, by destination
    up,          \* kernel: links that are up
    kdefault,    \* kernel: link of the default route
    events

records == <<cache, heap, hash>>
ttlVars == <<sleeper, ttlPend, ttlPc, wakeAt>>
routesVars == <<routesPend, routesPc, updateCaches>>
kernelVars == <<ring, enableDns, table, up, kdefault>>
sources == <<conf, out, default, listening, routeMsg>>
vars == <<now, sources, records, ttlVars, routesVars, parsing, kernelVars, events>>

-----------------------------------------------------------------------------
(* Data *)

Keys == Names \X Dests
Answer == [name : Names, dest : Dests, ttl : Ttls]
Record == [name : Names, dest : Dests, ttl_expire : Nat]
Key(r) == <<r.name, r.dest>>
MainTable == "main"
NoTable == "no_table"

\* DnsCache.get: a bypass match wins over any redirect match.
CacheGet(c, name) ==
    IF c = None THEN None
    ELSE IF \E p \in c : p.dir = "bypass" /\ name \in p.names THEN "bypass"
    ELSE IF \E p \in c : p.dir = "redirect" /\ name \in p.names THEN "redirect"
    ELSE None

\* dns.heap.peek() of the min-heap.
Peek(h) ==
    IF h = {} THEN None
    ELSE (CHOOSE r \in h : \A q \in h : r.ttl_expire <= q.ttl_expire).ttl_expire

Capped(ttl, max) == IF ttl < max THEN ttl ELSE max

\* The link over which setup_record routes a record, if the kernel takes it.
Via(dir) ==
    LET route == IF dir = "redirect" THEN out ELSE default
    IN  IF route \in up THEN route ELSE None

\* setup_record: the route is created exclusively, so a destination that
\* already has one keeps it.
SetupRecord(t, dest, dir) ==
    [t EXCEPT ![dest] = IF t[dest] = None THEN Via(dir) ELSE t[dest]]

\* Slips: the destination itself is forgotten; the route stays.
RemoveRoutesForgets(t, ds) == [d \in Dests \ ds |-> t[d]]
RemoveRoutesNot(t, ds) == t

\* remove_record for a set of destinations.
RemoveRoutes(t, ds) == [d \in Dests |-> IF d \in ds THEN None ELSE t[d]]

-----------------------------------------------------------------------------
\* run() has spawned its tasks; watch_dns_routes marks conf as changed.
Init ==
    /\ now = 0
    /\ conf \in [enable : BOOLEAN, matches : MatchSets, max_ttl : MaxTtls]
    /\ out = None /\ default = None
    /\ listening = FALSE /\ routeMsg = FALSE
    /\ cache = None /\ heap = {} /\ hash = [k \in Keys |-> None]
    /\ sleeper = None /\ ttlPend = FALSE /\ ttlPc = "wait" /\ wakeAt = None
    /\ routesPend = {"conf"} /\ routesPc = "wait" /\ updateCaches = FALSE
    /\ parsing = None
    /\ ring = << >> /\ enableDns = FALSE
    /\ table = [d \in Dests |-> None]
    /\ up \in SUBSET Ids /\ kdefault \in Ids \cup {None}
    /\ events = 0

Event == events < MaxEvents /\ events' = events + 1

\* The clock advances.
Advance ==
    /\ now < MaxTime
    /\ now' = now + 1
    /\ UNCHANGED <<sources, records, ttlVars, routesVars, parsing, kernelVars, events>>

-----------------------------------------------------------------------------
(* Users, the output and the kernel *)

SendState(c) ==
    /\ Event
    /\ conf' = c
    /\ routesPend' = routesPend \cup {"conf"}
    /\ UNCHANGED <<now, out, default, listening, routeMsg, records, ttlVars, routesPc,
                   updateCaches, parsing, kernelVars>>

Toggle == SendState([conf EXCEPT !.enable = ~conf.enable])
ModifyMatches(m) == SendState([conf EXCEPT !.matches = m])
UpdateConfig(t) == SendState([conf EXCEPT !.max_ttl = t])

\* watch_routes publishes another Route (module Redirect).
OutputChange(r) ==
    /\ Event
    /\ r # out \/ r = None
    /\ out' = r
    /\ routesPend' = routesPend \cup {"routes"}
    /\ UNCHANGED <<now, conf, default, listening, routeMsg, records, ttlVars, routesPc,
                   updateCaches, parsing, kernelVars>>

\* watch_reload hands enable_dns to the eBPF program, some time after the
\* state or the output changed: there is an output and it is up.
BpfReload ==
    LET new == conf.enable /\ out \in up /\ conf.matches # {} IN
    /\ enableDns # new
    /\ enableDns' = new
    /\ UNCHANGED <<now, sources, records, ttlVars, routesVars, parsing, ring, table, up,
                   kdefault, events>>

\* A link goes down, with the routes over it, or up; watch_routes publishes
\* the output's Route again with its new is_up.
LinkChange(i) ==
    /\ Event
    /\ up' = IF i \in up THEN up \ {i} ELSE up \cup {i}
    /\ table' = [d \in Dests |-> IF table[d] = i THEN None ELSE table[d]]
    /\ routesPend' = IF i = out THEN routesPend \cup {"routes"} ELSE routesPend
    /\ UNCHANGED <<now, sources, records, ttlVars, routesPc, updateCaches, parsing, ring,
                   enableDns, kdefault>>

DefaultChange(r) ==
    /\ Event
    /\ r # kdefault
    /\ kdefault' = r
    /\ routeMsg' = TRUE
    /\ UNCHANGED <<now, conf, out, default, listening, records, ttlVars, routesVars, parsing,
                   ring, enableDns, table, up>>

\* A response from port 53 arrives; it is lost when the ring buffer is full.
Ingress(a) ==
    /\ Event
    /\ enableDns
    /\ ring' = IF Len(ring) < RingCap THEN Append(ring, a) ELSE ring
    /\ UNCHANGED <<now, sources, records, ttlVars, routesVars, parsing, enableDns, table, up, kdefault>>

-----------------------------------------------------------------------------
(* watch_multicast, as far as the default route is concerned *)

SendDefault ==
    /\ default' = kdefault
    /\ routesPend' = routesPend \cup {"default"}

MulticastStart ==
    /\ ~listening
    /\ listening' = TRUE
    /\ routeMsg' = FALSE
    /\ SendDefault
    /\ UNCHANGED <<now, conf, out, records, ttlVars, routesPc, updateCaches, parsing, kernelVars, events>>

\* RTM_NEWROUTE: a message that names a table is skipped, the others update
\* the default route if there are dns matches.
MulticastNewRoute ==
    LET msgTable == MainTable IN
    /\ listening /\ routeMsg
    /\ routeMsg' = FALSE
    /\ IF msgTable # NoTable \/ conf.matches = {} \/ kdefault = default
       THEN UNCHANGED <<default, routesPend>>
       ELSE SendDefault
    /\ UNCHANGED <<now, conf, out, listening, records, ttlVars, routesPc, updateCaches, parsing,
                   kernelVars, events>>

-----------------------------------------------------------------------------
(* parse, on the ring buffer's thread *)

\* The clock and the limit are read before the lock is taken.
ParseStart ==
    /\ parsing = None
    /\ ring # << >>
    /\ ring' = Tail(ring)
    /\ parsing' = [ans |-> Head(ring), now |-> now, max_ttl |-> conf.max_ttl]
    /\ UNCHANGED <<now, sources, records, ttlVars, routesVars, enableDns, table, up, kdefault, events>>

\* A slip: the sleeper is only set when it was not.
SendSleeperOnce(h) ==
    /\ sleeper' = IF sleeper = None THEN Peek(h) ELSE sleeper
    /\ ttlPend' = (ttlPend \/ sleeper = None)

\* send_if_changed
SendSleeper(h) ==
    /\ sleeper' = Peek(h)
    /\ ttlPend' = (ttlPend \/ Peek(h) # sleeper)

ParsedRecord ==
    [name |-> parsing.ans.name, dest |-> parsing.ans.dest,
     ttl_expire |-> parsing.now + Capped(parsing.ans.ttl, parsing.max_ttl)]

\* dns.hash.insert() found a value; a slip that never does.
KnownNever(k) == FALSE
Known(k) == hash[k] # None

ParseNoMatch ==
    /\ parsing # None
    /\ CacheGet(cache, parsing.ans.name) = None
    /\ parsing' = None
    /\ UNCHANGED <<now, sources, records, ttlVars, routesVars, kernelVars, events>>

\* A known record only gets its new expiry into the hash map.
ParseKnown ==
    LET rec == ParsedRecord IN
    /\ parsing # None
    /\ CacheGet(cache, rec.name) # None
    /\ Known(Key(rec))
    /\ hash' = [hash EXCEPT ![Key(rec)] = rec.ttl_expire]
    /\ parsing' = None
    /\ UNCHANGED <<now, sources, cache, heap, ttlVars, routesVars, kernelVars, events>>

ParseNew ==
    LET rec == ParsedRecord
        dir == CacheGet(cache, rec.name)
    IN
    /\ parsing # None
    /\ dir # None
    /\ ~Known(Key(rec))
    /\ hash' = [hash EXCEPT ![Key(rec)] = rec.ttl_expire]
    /\ heap' = heap \cup {rec}
    /\ SendSleeper(heap')
    /\ table' = SetupRecord(table, rec.dest, dir)
    /\ parsing' = None
    /\ UNCHANGED <<now, sources, cache, ttlPc, wakeAt, routesVars, ring, enableDns, up, kdefault, events>>

-----------------------------------------------------------------------------
(* watch_dns_ttl *)

\* The sleeper changed: start over with its new value.
TtlRearm ==
    /\ ttlPc = "wait"
    /\ ttlPend
    /\ ttlPend' = FALSE
    /\ wakeAt' = sleeper
    /\ UNCHANGED <<now, sources, records, sleeper, ttlPc, routesVars, parsing, kernelVars, events>>

TtlFire ==
    /\ ttlPc = "wait"
    /\ wakeAt # None
    /\ wakeAt <= now
    /\ ttlPc' = "lock"
    /\ UNCHANGED <<now, sources, records, sleeper, ttlPend, wakeAt, routesVars, parsing, kernelVars, events>>

\* Records to take off the heap; a slip that leaves the ones due right now.
DueStrict == {r \in heap : r.ttl_expire < now}
Due == {r \in heap : r.ttl_expire <= now}

\* The loop over the heap: every record that is due is taken off; one whose
\* hash entry expires later is renewed with that expiry, the others are
\* removed with their route.  The sleeper is sent the new first expiry, which
\* the task itself reads at once.
TtlExpire ==
    LET renewed == {r \in Due : hash[Key(r)] # None /\ hash[Key(r)] > now}
        expired == Due \ renewed
    IN
    /\ ttlPc = "lock"
    /\ heap' = (heap \ Due) \cup {[r EXCEPT !.ttl_expire = hash[Key(r)]] : r \in renewed}
    /\ hash' = [k \in Keys |-> IF \E r \in expired : Key(r) = k THEN None ELSE hash[k]]
    /\ table' = RemoveRoutes(table, {r.dest : r \in expired})
    /\ sleeper' = Peek(heap')
    /\ wakeAt' = Peek(heap')
    /\ ttlPend' = FALSE
    /\ ttlPc' = "wait"
    /\ UNCHANGED <<now, sources, cache, routesVars, parsing, ring, enableDns, up, kdefault, events>>

-----------------------------------------------------------------------------
(* watch_dns_routes *)

\* update_caches; a slip without has_changed(), when the select returned for
\* another channel.
CachesStaleFirst == routesPend = {"conf"}
CachesStale == "conf" \in routesPend

RoutesWake ==
    /\ routesPc = "wait"
    /\ routesPend # {}
    /\ updateCaches' = CachesStale
    /\ routesPend' = {}
    /\ routesPc' = "lock"
    /\ UNCHANGED <<now, sources, records, ttlVars, parsing, kernelVars, events>>

\* What clear_table and the setup of the records in rs, under cache c, may
\* leave as the route of d: of the records that share a destination any one
\* may come first in the heap.  A slip that does not clear the table.
RouteChoices(c, rs, d) ==
    LET vias == {Via(CacheGet(c, r.name)) : r \in {q \in rs : q.dest = d}} \ {None}
    IN  IF conf.enable /\ vias # {} THEN vias ELSE {None}
RefillNoClear(c, rs) ==
    {t \in [Dests -> Ids \cup {None}] :
        \A d \in Dests : t[d] \in IF table[d] = None THEN RouteChoices(c, rs, d) ELSE {table[d]}}
Refill(c, rs) ==
    {t \in [Dests -> Ids \cup {None}] : \A d \in Dests : t[d] \in RouteChoices(c, rs, d)}

\* Records that no match names any more are dropped; the table is rebuilt.
RoutesApply ==
    LET c == IF updateCaches THEN conf.matches ELSE cache
        kept == {r \in heap : CacheGet(c, r.name) # None}
    IN
    /\ routesPc = "lock"
    /\ cache' = c
    /\ heap' = kept
    /\ hash' = [k \in Keys |-> IF CacheGet(c, k[1]) # None THEN hash[k] ELSE None]
    /\ table' \in Refill(c, kept)
    /\ routesPc' = "wait"
    /\ UNCHANGED <<now, sources, ttlVars, routesPend, updateCaches, parsing, ring, enableDns, up,
                   kdefault, events>>

-----------------------------------------------------------------------------
\* remove_records: the records of a name and of a destination, if given.
Retired(n, d) == {r \in heap : (n # None => r.name = n) /\ (d # None => r.dest = d)}

\* retire_dns_record: the records of a name, of a destination, of both or
\* all of them; the handler refuses a request that names none.
RetireRecord(n, d) ==
    LET gone == Retired(n, d) IN
    /\ Event
    /\ gone # {}
    /\ heap' = heap \ gone
    /\ hash' = [k \in Keys |-> IF \E r \in gone : Key(r) = k THEN None ELSE hash[k]]
    /\ table' = RemoveRoutes(table, {r.dest : r \in gone})
    /\ UNCHANGED <<now, sources, cache, ttlVars, routesVars, parsing, ring, enableDns, up, kdefault>>

-----------------------------------------------------------------------------
Environment ==
    \/ Advance \/ Toggle
    \/ \E m \in MatchSets : ModifyMatches(m)
    \/ \E t \in MaxTtls : UpdateConfig(t)
    \/ \E r \in Ids \cup {None} : OutputChange(r) \/ DefaultChange(r)
    \/ \E i \in Ids : LinkChange(i)
    \/ \E a \in Answer : Ingress(a)
    \/ \E n \in Names \cup {None}, d \in Dests \cup {None} : RetireRecord(n, d)

Parse == ParseStart \/ ParseNoMatch \/ ParseKnown \/ ParseNew
WatchTtl == TtlRearm \/ TtlFire \/ TtlExpire
WatchRoutes == RoutesWake \/ RoutesApply
Multicast == MulticastStart \/ MulticastNewRoute

Next == Environment \/ BpfReload \/ Parse \/ WatchTtl \/ WatchRoutes \/ Multicast

\* The tasks are polled when they are woken and ctx.dns is a fair lock; the
\* ring buffer's thread polls for ever.
Fairness == WF_vars(Parse) /\ WF_vars(WatchTtl) /\ WF_vars(WatchRoutes) /\ WF_vars(Multicast)

Spec == Init /\ [][Next]_vars
FairSpec == Spec /\ Fairness

-----------------------------------------------------------------------------
(* Properties *)

\* Types of all variables.
TypeOK ==
    /\ now \in Nat
    /\ conf \in [enable : BOOLEAN, matches : MatchSets, max_ttl : MaxTtls]
    /\ out \in Ids \cup {None} /\ default \in Ids \cup {None}
    /\ listening \in BOOLEAN /\ routeMsg \in BOOLEAN
    /\ cache \in (SUBSET Patterns) \cup {None}
    /\ heap \subseteq Record
    /\ hash \in [Keys -> Nat \cup {None}]
    /\ sleeper \in Nat \cup {None} /\ wakeAt \in Nat \cup {None}
    /\ ttlPend \in BOOLEAN /\ ttlPc \in {"wait", "lock"}
    /\ routesPend \subseteq {"conf", "routes", "default"}
    /\ routesPc \in {"wait", "lock"} /\ updateCaches \in BOOLEAN
    /\ parsing \in [ans : Answer, now : Nat, max_ttl : MaxTtls] \cup {None}
    /\ ring \in Seq(Answer) /\ enableDns \in BOOLEAN
    /\ table \in [Dests -> Ids \cup {None}]
    /\ up \subseteq Ids /\ kdefault \in Ids \cup {None}
    /\ events \in Nat

\* The heap and the hash map always hold the same records: a key has an
\* expiry in the hash map exactly when one heap entry carries it, and never
\* two.  An entry of one without the other would never expire, or never be
\* renewed and never be added again.
HeapHashAgree ==
    /\ \A k \in Keys : hash[k] # None <=> \E r \in heap : Key(r) = k
    /\ \A r, q \in heap : Key(r) = Key(q) => r = q

\* While there are records, watch_dns_ttl wakes up no later than the first
\* of them expires: it is awake, it is about to read a new sleeper, or the
\* instant it sleeps until comes first.  Retiring or dropping records leaves
\* an early wake-up behind, never a late one.
ExpiryArmed ==
    heap # {} =>
        /\ sleeper # None /\ \A r \in heap : sleeper <= r.ttl_expire
        /\ ttlPc = "wait" /\ ~ttlPend => wakeAt = sleeper

\* No route without a record: whatever removes the last record of a
\* destination also removes its route from dns_table.
NoOrphanRoute == \A d \in Dests : table[d] # None => \E r \in heap : r.dest = d

\* Nothing is left to do for the tasks and threads.
Settled ==
    /\ listening /\ ~routeMsg
    /\ routesPend = {} /\ routesPc = "wait"
    /\ parsing = None /\ ring = << >>

\* Once the tasks are idle, every record is one that the current matches
\* name: neither the cache nor a packet parsed with the old cache brings
\* back a record of a deleted match.
RecordsMatched == Settled => \A r \in heap : CacheGet(conf.matches, r.name) # None

\* Once the tasks are idle, a route leads over the link that the current
\* matches, output and default route choose for one of its records.
RoutesCurrent ==
    Settled =>
        \A d \in Dests : table[d] # None =>
            \E r \in heap : /\ r.dest = d
                            /\ table[d] = IF CacheGet(conf.matches, r.name) = "redirect"
                                          THEN out ELSE default

\* A record that is due is renewed or removed.
ExpiresEventually ==
    \A k \in Keys :
        (\E r \in heap : Key(r) = k /\ r.ttl_expire <= now)
            ~> ~(\E r \in heap : Key(r) = k /\ r.ttl_expire <= now)

-----------------------------------------------------------------------------
(* What the documentation says and the code does not do *)

\* README: "The daemon does the parsing and maintains the corresponding
\* routing entries": a live record of an enabled daemon has its route.
RecordsRouted ==
    Settled /\ conf.enable =>
        \A r \in heap :
            hash[Key(r)] > now /\ Via(CacheGet(conf.matches, r.name)) # None => table[r.dest] # None
=============================================================================
