------------------------------ MODULE DnsProofs ------------------------------
(***************************************************************************)
(* Proofs about Dns, for every value of its constants.                     *)
(***************************************************************************)
EXTENDS Dns, WellFoundedInduction, TLAPS

\* A set of records with natural expiries has a first one: peek() of a heap
\* that is not empty is an expiry of it, and none comes before.
LEMMA PeekIsFirst ==
    ASSUME NEW h, h \subseteq Record, h # {}
    PROVE  /\ Peek(h) \in Nat
           /\ \A r \in h : Peek(h) <= r.ttl_expire
<1> DEFINE T == {r.ttl_expire : r \in h}
           Less == OpToRel(<, Nat)
<1>1. T \subseteq Nat /\ T # {}
  BY DEF Record
<1>2. IsWellFoundedOn(Less, Nat)
  BY NatLessThanWellFounded
<1>3. ASSUME NEW e \in Nat, NEW f \in Nat, f < e
      PROVE  <<f, e>> \in Less
  <2>1. <<f, e>> \in Nat \X Nat /\ <<f, e>>[1] < <<f, e>>[2]
    BY <1>3
  <2>2. QED
    BY <2>1, Zenon DEF OpToRel
<1> HIDE DEF Less
<1>4. PICK e \in T : \A f \in T : ~(<<f, e>> \in Less)
  BY <1>1, <1>2, WFMin
<1>5. \E r \in h : \A q \in h : r.ttl_expire <= q.ttl_expire
  <2>1. PICK r \in h : r.ttl_expire = e
    BY <1>4
  <2>2. ASSUME NEW q \in h
        PROVE  e <= q.ttl_expire
    <3>1. e \in Nat /\ q.ttl_expire \in Nat /\ q.ttl_expire \in T
      BY <1>1, <1>4
    <3>2. ~(q.ttl_expire < e)
      BY <1>3, <1>4, <3>1
    <3>3. QED
      BY <3>1, <3>2
  <2>3. QED
    BY <2>1, <2>2
<1>6. QED
  BY <1>1, <1>5 DEF Peek

\* peek() is an expiry or nothing.
LEMMA PeekType ==
    ASSUME NEW h, h \subseteq Record
    PROVE  Peek(h) \in Nat \cup {None}
BY PeekIsFirst DEF Peek

\* The record that parse() builds.
LEMMA ParsedRecordType ==
    ASSUME TypeOK, parsing # None
    PROVE  ParsedRecord \in Record /\ Key(ParsedRecord) \in Keys
<1>1. parsing \in [ans : Answer, now : Nat, max_ttl : MaxTtls]
  BY DEF TypeOK
<1>2. parsing.ans \in Answer /\ parsing.now \in Nat /\ parsing.max_ttl \in Nat
  BY <1>1, DnsAssumption
<1>3. parsing.ans.name \in Names /\ parsing.ans.dest \in Dests /\ parsing.ans.ttl \in Nat
  BY <1>2, DnsAssumption DEF Answer
<1>4. Capped(parsing.ans.ttl, parsing.max_ttl) \in Nat
  BY <1>2, <1>3 DEF Capped
<1>5. QED
  BY <1>2, <1>3, <1>4 DEF ParsedRecord, Record, Key, Keys

-----------------------------------------------------------------------------
\* Type correctness: in particular the heap only holds records, and the
\* hash map and dns_table are total over the keys and the destinations.
THEOREM TypeCorrect == Spec => []TypeOK
<1>1. Init => TypeOK
  <2> SUFFICES ASSUME Init
               PROVE  TypeOK
    OBVIOUS
  <2>1. ring \in Seq(Answer) /\ routesPend \subseteq {"conf", "routes", "default"}
    BY DEF Init
  <2>2. hash \in [Keys -> Nat \cup {None}] /\ table \in [Dests -> Ids \cup {None}]
    BY DEF Init
  <2>3. QED
    BY <2>1, <2>2 DEF Init, TypeOK
<1>2. TypeOK /\ [Next]_vars => TypeOK'
  <2> SUFFICES ASSUME TypeOK, [Next]_vars
               PROVE  TypeOK'
    OBVIOUS
  <2>1. ASSUME NEW c \in [enable : BOOLEAN, matches : MatchSets, max_ttl : MaxTtls], SendState(c)
        PROVE  TypeOK'
    BY <2>1, DnsAssumption DEF TypeOK, SendState, Event, records, ttlVars, kernelVars
  <2>2. CASE Advance
    BY <2>2, DnsAssumption DEF TypeOK, Advance, sources, records, ttlVars, routesVars, kernelVars
  <2>3. CASE Toggle
    <3>1. [conf EXCEPT !.enable = ~conf.enable] \in [enable : BOOLEAN, matches : MatchSets, max_ttl : MaxTtls]
      BY DEF TypeOK
    <3>2. QED
      BY <2>1, <2>3, <3>1 DEF Toggle
  <2>4. ASSUME NEW m \in MatchSets, ModifyMatches(m)
        PROVE  TypeOK'
    <3>1. [conf EXCEPT !.matches = m] \in [enable : BOOLEAN, matches : MatchSets, max_ttl : MaxTtls]
      BY DEF TypeOK
    <3>2. QED
      BY <2>1, <2>4, <3>1 DEF ModifyMatches
  <2>5. ASSUME NEW t \in MaxTtls, UpdateConfig(t)
        PROVE  TypeOK'
    <3>1. [conf EXCEPT !.max_ttl = t] \in [enable : BOOLEAN, matches : MatchSets, max_ttl : MaxTtls]
      BY DEF TypeOK
    <3>2. QED
      BY <2>1, <2>5, <3>1 DEF UpdateConfig
  <2>6. ASSUME NEW r \in Ids \cup {None}, OutputChange(r) \/ DefaultChange(r)
        PROVE  TypeOK'
    <3>1. CASE OutputChange(r)
      BY <3>1, DnsAssumption DEF TypeOK, OutputChange, Event, records, ttlVars, kernelVars
    <3>2. CASE DefaultChange(r)
      BY <3>2, DnsAssumption DEF TypeOK, DefaultChange, Event, records, ttlVars, routesVars
    <3>3. QED
      BY <2>6, <3>1, <3>2
  <2>7. ASSUME NEW i \in Ids, LinkChange(i)
        PROVE  TypeOK'
    BY <2>7, DnsAssumption DEF TypeOK, LinkChange, Event, sources, records, ttlVars
  <2>8. ASSUME NEW a \in Answer, Ingress(a)
        PROVE  TypeOK'
    BY <2>8, DnsAssumption DEF TypeOK, Ingress, Event, sources, records, ttlVars, routesVars
  <2>9. ASSUME NEW n \in Names \cup {None}, NEW d \in Dests \cup {None}, RetireRecord(n, d)
        PROVE  TypeOK'
    BY <2>9, DnsAssumption DEF TypeOK, RetireRecord, RemoveRoutes, Event, sources, ttlVars, routesVars
  <2>10. CASE BpfReload
    BY <2>10 DEF TypeOK, BpfReload, sources, records, ttlVars, routesVars
  <2>11. CASE ParseStart
    BY <2>11 DEF TypeOK, ParseStart, sources, records, ttlVars, routesVars
  <2>12. CASE ParseNoMatch
    BY <2>12 DEF TypeOK, ParseNoMatch, sources, records, ttlVars, routesVars, kernelVars
  <2>13. CASE ParseKnown
    <3>1. ParsedRecord \in Record /\ Key(ParsedRecord) \in Keys
      BY <2>13, ParsedRecordType DEF ParseKnown
    <3>2. hash' \in [Keys -> Nat \cup {None}]
      BY <2>13, <3>1 DEF TypeOK, ParseKnown, Record
    <3>3. QED
      BY <2>13, <3>2 DEF TypeOK, ParseKnown, sources, ttlVars, routesVars, kernelVars
  <2>14. CASE ParseNew
    <3>1. ParsedRecord \in Record /\ Key(ParsedRecord) \in Keys
      BY <2>14, ParsedRecordType DEF ParseNew
    <3>2. hash' \in [Keys -> Nat \cup {None}]
      BY <2>14, <3>1 DEF TypeOK, ParseNew, Record
    <3>3. heap' \subseteq Record
      BY <2>14, <3>1 DEF TypeOK, ParseNew
    <3>4. sleeper' \in Nat \cup {None} /\ ttlPend' \in BOOLEAN
      BY <2>14, <3>3, PeekType DEF TypeOK, ParseNew, SendSleeper
    <3>5. table' \in [Dests -> Ids \cup {None}]
      BY <2>14 DEF TypeOK, ParseNew, SetupRecord, Via
    <3>6. QED
      BY <2>14, <3>2, <3>3, <3>4, <3>5 DEF TypeOK, ParseNew, sources, routesVars
  <2>15. CASE TtlRearm
    <3>1. wakeAt' \in Nat \cup {None} /\ ttlPend' \in BOOLEAN
      BY <2>15 DEF TtlRearm, TypeOK
    <3>2. QED
      BY <2>15, <3>1 DEF TypeOK, TtlRearm, sources, records, routesVars, kernelVars
  <2>16. CASE TtlFire
    BY <2>16 DEF TypeOK, TtlFire, sources, records, routesVars, kernelVars
  <2>17. CASE TtlExpire
    <3>1. \A r \in heap : Key(r) \in Keys
      BY DEF TypeOK, Record, Key, Keys
    <3>2. \A r \in heap : hash[Key(r)] # None => [r EXCEPT !.ttl_expire = hash[Key(r)]] \in Record
      BY <3>1 DEF TypeOK, Record
    <3>3. heap' \subseteq Record
      BY <2>17, <3>2 DEF TypeOK, TtlExpire, Due
    <3>4. hash' \in [Keys -> Nat \cup {None}]
      BY <2>17 DEF TypeOK, TtlExpire
    <3>5. table' \in [Dests -> Ids \cup {None}]
      BY <2>17 DEF TypeOK, TtlExpire, RemoveRoutes
    <3>6. sleeper' \in Nat \cup {None} /\ wakeAt' \in Nat \cup {None}
      BY <2>17, <3>3, PeekType DEF TtlExpire
    <3>7. /\ ttlPend' \in BOOLEAN /\ ttlPc' \in {"wait", "lock"}
          /\ UNCHANGED <<now, sources, cache, routesVars, parsing, ring, enableDns, up, kdefault, events>>
      BY <2>17 DEF TtlExpire
    <3>8. QED
      BY <3>3, <3>4, <3>5, <3>6, <3>7 DEF TypeOK, sources, routesVars
  <2>18. CASE RoutesWake
    BY <2>18 DEF TypeOK, RoutesWake, CachesStale, sources, records, ttlVars, kernelVars
  <2>19. CASE RoutesApply
    BY <2>19, DnsAssumption DEF TypeOK, RoutesApply, Refill, sources, ttlVars
  <2>20. CASE Multicast
    BY <2>20 DEF TypeOK, Multicast, MulticastStart, MulticastNewRoute, SendDefault, records,
         ttlVars, kernelVars
  <2>21. CASE UNCHANGED vars
    BY <2>21 DEF TypeOK, vars, sources, records, ttlVars, routesVars, kernelVars
  <2>22. QED
    BY <2>2, <2>3, <2>4, <2>5, <2>6, <2>7, <2>8, <2>9, <2>10, <2>11, <2>12, <2>13, <2>14, <2>15,
       <2>16, <2>17, <2>18, <2>19, <2>20, <2>21
       DEF Next, Environment, Parse, WatchTtl, WatchRoutes
<1>3. QED
  BY <1>1, <1>2, PTL DEF Spec

-----------------------------------------------------------------------------
\* The steps that may change the records; retiring is the only one of the
\* environment's.
RecordStep ==
    \/ ParseKnown \/ ParseNew \/ TtlExpire \/ RoutesApply
    \/ \E n \in Names \cup {None}, d \in Dests \cup {None} : RetireRecord(n, d)

\* Every other step leaves heap, hash map and sleeper alone, and takes routes
\* out of dns_table at most.
LEMMA OtherSteps ==
    ASSUME TypeOK, [Next]_vars, ~RecordStep
    PROVE  /\ UNCHANGED <<heap, hash, sleeper>>
           /\ \A d \in Dests : table'[d] # None => table[d] # None
<1> USE DEF records, ttlVars, kernelVars
<1>1. CASE Environment
  <2>1. ASSUME NEW i \in Ids, LinkChange(i)
        PROVE  /\ UNCHANGED <<heap, hash, sleeper>>
               /\ \A d \in Dests : table'[d] # None => table[d] # None
    BY <2>1 DEF LinkChange
  <2>2. QED
    BY <1>1, <2>1 DEF Environment, RecordStep, Advance, Toggle, ModifyMatches, UpdateConfig,
       SendState, OutputChange, DefaultChange, Ingress
<1>2. CASE BpfReload
  BY <1>2 DEF BpfReload
<1>3. CASE Parse
  BY <1>3 DEF Parse, RecordStep, ParseStart, ParseNoMatch
<1>4. CASE WatchTtl
  BY <1>4 DEF WatchTtl, RecordStep, TtlRearm, TtlFire
<1>5. CASE WatchRoutes
  BY <1>5 DEF WatchRoutes, RecordStep, RoutesWake
<1>6. CASE Multicast
  BY <1>6 DEF Multicast, MulticastStart, MulticastNewRoute
<1>7. CASE UNCHANGED vars
  BY <1>7 DEF vars
<1>8. QED
  BY <1>1, <1>2, <1>3, <1>4, <1>5, <1>6, <1>7 DEF Next

\* Renewing a record changes its expiry only.
LEMMA RenewedKey ==
    ASSUME NEW r \in Record, NEW e
    PROVE  /\ Key([r EXCEPT !.ttl_expire = e]) = Key(r)
           /\ [r EXCEPT !.ttl_expire = e].dest = r.dest
           /\ [r EXCEPT !.ttl_expire = e].ttl_expire = e
BY DEF Record, Key

-----------------------------------------------------------------------------
\* The heap and the hash map agree in every reachable state, whatever the
\* order in which answers are parsed, records expire, are renewed, retired
\* or dropped with their match.
THEOREM HeapHashAgreeAlways == Spec => []HeapHashAgree
<1>1. Init => HeapHashAgree
  BY DEF Init, HeapHashAgree
<1>2. TypeOK /\ TypeOK' /\ HeapHashAgree /\ [Next]_vars => HeapHashAgree'
  <2> SUFFICES ASSUME TypeOK, TypeOK', HeapHashAgree, [Next]_vars
               PROVE  HeapHashAgree'
    OBVIOUS
  <2>1. CASE ParseKnown
    <3>1. hash' = [hash EXCEPT ![Key(ParsedRecord)] = ParsedRecord.ttl_expire] /\ heap' = heap
      BY <2>1 DEF ParseKnown
    <3>2. hash[Key(ParsedRecord)] # None /\ ParsedRecord.ttl_expire # None
      BY <2>1, ParsedRecordType, DnsAssumption DEF ParseKnown, Known, Record
    <3>3. \A k \in Keys : hash'[k] # None <=> hash[k] # None
      BY <3>1, <3>2 DEF TypeOK
    <3>4. QED
      BY <3>1, <3>3 DEF HeapHashAgree
  <2>2. CASE ParseNew
    <3> DEFINE rec == ParsedRecord
    <3>1. /\ hash' = [hash EXCEPT ![Key(rec)] = rec.ttl_expire]
          /\ heap' = heap \cup {rec}
          /\ hash[Key(rec)] = None
      BY <2>2 DEF ParseNew, Known
    <3>2. rec \in Record /\ Key(rec) \in Keys /\ rec.ttl_expire # None
      BY <2>2, ParsedRecordType, DnsAssumption DEF ParseNew, Record
    <3> HIDE DEF rec
    <3>3. \A k \in Keys : hash'[k] # None <=> hash[k] # None \/ k = Key(rec)
      BY <3>1, <3>2 DEF TypeOK
    <3>4. ~\E r \in heap : Key(r) = Key(rec)
      BY <3>1, <3>2 DEF HeapHashAgree
    <3>5. QED
      BY <3>1, <3>2, <3>3, <3>4 DEF HeapHashAgree
  <2>3. CASE TtlExpire
    <3> DEFINE renewed == {r \in Due : hash[Key(r)] # None /\ hash[Key(r)] > now}
               expired == Due \ renewed
               again(r) == [r EXCEPT !.ttl_expire = hash[Key(r)]]
    <3>1. /\ heap' = (heap \ Due) \cup {again(r) : r \in renewed}
          /\ hash' = [k \in Keys |-> IF \E r \in expired : Key(r) = k THEN None ELSE hash[k]]
      BY <2>3 DEF TtlExpire
    <3>2. renewed \subseteq Due /\ Due \subseteq heap /\ expired = Due \ renewed
      BY DEF Due
    <3>3. \A r \in heap : Key(again(r)) = Key(r)
      BY RenewedKey DEF TypeOK
    <3> HIDE DEF renewed, expired, again
    <3>4. ASSUME NEW r \in heap'
          PROVE  \E q \in heap \ expired : Key(q) = Key(r) /\ (r = q \/ r = again(q))
      BY <3>1, <3>2, <3>3
    <3>5. ASSUME NEW q \in heap \ expired
          PROVE  \E r \in heap' : Key(r) = Key(q)
      BY <3>1, <3>2, <3>3
    <3>6. ASSUME NEW k \in Keys
          PROVE  hash'[k] # None <=> \E q \in heap \ expired : Key(q) = k
      BY <3>1, <3>2 DEF HeapHashAgree
    <3>7. ASSUME NEW r \in heap', NEW q \in heap', Key(r) = Key(q)
          PROVE  r = q
      <4>1. PICK r0 \in heap \ expired : Key(r0) = Key(r) /\ (r = r0 \/ r = again(r0))
        BY <3>4
      <4>2. PICK q0 \in heap \ expired : Key(q0) = Key(q) /\ (q = q0 \/ q = again(q0))
        BY <3>4
      <4>3. r0 = q0
        BY <3>7, <4>1, <4>2 DEF HeapHashAgree
      <4>4. r \in heap \ Due \/ \E p \in renewed : r = again(p) /\ Key(p) = Key(r)
        BY <3>1, <3>2, <3>3
      <4>5. q \in heap \ Due \/ \E p \in renewed : q = again(p) /\ Key(p) = Key(q)
        BY <3>1, <3>2, <3>3
      <4>6. \A p \in heap : Key(p) = Key(r) => p = r0
        BY <4>1 DEF HeapHashAgree
      <4>7. QED
        BY <3>2, <3>7, <4>4, <4>5, <4>6
    <3>8. QED
      BY <3>4, <3>5, <3>6, <3>7 DEF HeapHashAgree
  <2>4. CASE RoutesApply
    <3> DEFINE c == IF updateCaches THEN conf.matches ELSE cache
    <3>1. /\ heap' = {r \in heap : CacheGet(c, r.name) # None}
          /\ hash' = [k \in Keys |-> IF CacheGet(c, k[1]) # None THEN hash[k] ELSE None]
      BY <2>4 DEF RoutesApply
    <3> HIDE DEF c
    <3>2. \A r \in heap : Key(r)[1] = r.name
      BY DEF Key
    <3>3. QED
      BY <3>1, <3>2 DEF HeapHashAgree
  <2>5. ASSUME NEW n \in Names \cup {None}, NEW d \in Dests \cup {None}, RetireRecord(n, d)
        PROVE  HeapHashAgree'
    <3>1. PICK gone \in SUBSET heap :
            /\ heap' = heap \ gone
            /\ hash' = [k \in Keys |-> IF \E r \in gone : Key(r) = k THEN None ELSE hash[k]]
      BY <2>5 DEF RetireRecord, Retired
    <3>2. QED
      BY <3>1 DEF HeapHashAgree
  <2>6. CASE ~RecordStep
    BY <2>6, OtherSteps DEF HeapHashAgree
  <2>7. QED
    BY <2>1, <2>2, <2>3, <2>4, <2>5, <2>6 DEF RecordStep
<1>3. QED
  BY <1>1, <1>2, TypeCorrect, PTL DEF Spec

-----------------------------------------------------------------------------
\* watch_dns_ttl never sleeps on an old sleeper without a notification, also
\* when there are no records: without this ExpiryArmed is not inductive, as
\* a new record may leave the sleeper at the value that it had.
SleeperSeen == ttlPc = "wait" /\ ~ttlPend => wakeAt = sleeper

FirstCovered == heap # {} => sleeper # None /\ \A r \in heap : sleeper <= r.ttl_expire

ArmedInv == SleeperSeen /\ FirstCovered

\* No record outlives its expiry unnoticed: watch_dns_ttl wakes up in time
\* whatever the other tasks add to and take from the heap while it sleeps.
THEOREM ExpiryArmedAlways == Spec => []ExpiryArmed
<1>1. Init => ArmedInv
  BY DEF Init, ArmedInv, SleeperSeen, FirstCovered
<1>2. TypeOK /\ TypeOK' /\ ArmedInv /\ [Next]_vars => ArmedInv'
  <2> SUFFICES ASSUME TypeOK, TypeOK', SleeperSeen, FirstCovered, [Next]_vars
               PROVE  SleeperSeen' /\ FirstCovered'
    BY DEF ArmedInv
  <2>1. ASSUME heap' # {}, sleeper' = Peek(heap')
        PROVE  FirstCovered'
    <3>1. heap' \subseteq Record
      BY DEF TypeOK
    <3>2. Peek(heap') \in Nat /\ \A r \in heap' : Peek(heap') <= r.ttl_expire
      BY <2>1, <3>1, PeekIsFirst
    <3>3. QED
      BY <2>1, <3>2, DnsAssumption DEF FirstCovered
  <2>2. ASSUME heap' \subseteq heap, sleeper' = sleeper
        PROVE  FirstCovered'
    BY <2>2 DEF FirstCovered
  <2>3. CASE ParseNew
    <3>1. SleeperSeen'
      BY <2>3 DEF ParseNew, SendSleeper, SleeperSeen
    <3>2. QED
      BY <2>1, <2>3, <3>1 DEF ParseNew, SendSleeper
  <2>4. CASE TtlExpire
    <3>1. SleeperSeen' /\ sleeper' = Peek(heap')
      BY <2>4 DEF TtlExpire, SleeperSeen
    <3>2. QED
      BY <2>1, <3>1 DEF FirstCovered
  <2>5. CASE TtlRearm \/ TtlFire
    BY <2>2, <2>5 DEF TtlRearm, TtlFire, SleeperSeen, records
  <2>6. CASE ParseKnown \/ RoutesApply
    BY <2>2, <2>6 DEF ParseKnown, RoutesApply, SleeperSeen, ttlVars
  <2>7. ASSUME NEW n \in Names \cup {None}, NEW d \in Dests \cup {None}, RetireRecord(n, d)
        PROVE  SleeperSeen' /\ FirstCovered'
    BY <2>2, <2>7 DEF RetireRecord, SleeperSeen, ttlVars
  <2>8. CASE ~RecordStep /\ ~(TtlRearm \/ TtlFire)
    <3>1. UNCHANGED ttlVars
      <4>1. CASE Environment
        BY <2>8, <4>1 DEF Environment, RecordStep, Advance, Toggle, ModifyMatches, UpdateConfig,
           SendState, OutputChange, DefaultChange, LinkChange, Ingress
      <4>2. CASE Parse \/ WatchTtl \/ WatchRoutes
        BY <2>8, <4>2 DEF Parse, WatchTtl, WatchRoutes, RecordStep, ParseStart, ParseNoMatch, RoutesWake
      <4>3. CASE BpfReload \/ Multicast \/ UNCHANGED vars
        BY <4>3 DEF BpfReload, Multicast, MulticastStart, MulticastNewRoute, vars
      <4>4. QED
        BY <4>1, <4>2, <4>3 DEF Next
    <3>2. QED
      BY <2>2, <2>8, <3>1, OtherSteps DEF SleeperSeen, ttlVars
  <2>9. QED
    BY <2>3, <2>4, <2>5, <2>6, <2>7, <2>8 DEF RecordStep
<1>3. ArmedInv => ExpiryArmed
  BY DEF ArmedInv, SleeperSeen, FirstCovered, ExpiryArmed
<1>4. QED
  BY <1>1, <1>2, <1>3, TypeCorrect, PTL DEF Spec

-----------------------------------------------------------------------------
\* Whatever removes the last record of a destination also removes its route
\* from dns_table.
THEOREM NoOrphanRouteAlways == Spec => []NoOrphanRoute
<1>1. Init => NoOrphanRoute
  BY DEF Init, NoOrphanRoute
<1>2. TypeOK /\ TypeOK' /\ NoOrphanRoute /\ [Next]_vars => NoOrphanRoute'
  <2> SUFFICES ASSUME TypeOK, TypeOK', NoOrphanRoute, [Next]_vars,
                      NEW d \in Dests, table'[d] # None
               PROVE  \E r \in heap' : r.dest = d
    BY DEF NoOrphanRoute
  <2>1. CASE ParseKnown
    BY <2>1 DEF ParseKnown, kernelVars, NoOrphanRoute
  <2>2. CASE ParseNew
    <3>1. heap' = heap \cup {ParsedRecord} /\ table' = SetupRecord(table, ParsedRecord.dest, CacheGet(cache, ParsedRecord.name))
      BY <2>2 DEF ParseNew
    <3>2. d = ParsedRecord.dest \/ table[d] # None
      BY <3>1 DEF SetupRecord, TypeOK
    <3>3. QED
      BY <3>1, <3>2 DEF NoOrphanRoute
  <2>3. CASE TtlExpire
    <3> DEFINE renewed == {r \in Due : hash[Key(r)] # None /\ hash[Key(r)] > now}
               again(r) == [r EXCEPT !.ttl_expire = hash[Key(r)]]
    <3>1. /\ heap' = (heap \ Due) \cup {again(r) : r \in renewed}
          /\ table' = RemoveRoutes(table, {r.dest : r \in Due \ renewed})
      BY <2>3 DEF TtlExpire
    <3>2. \A r \in heap : again(r).dest = r.dest
      BY RenewedKey DEF TypeOK
    <3> HIDE DEF renewed, again
    <3>3. table[d] # None /\ ~\E r \in Due \ renewed : r.dest = d
      BY <3>1 DEF RemoveRoutes
    <3>4. PICK r \in heap : r.dest = d
      BY <3>3 DEF NoOrphanRoute
    <3>5. QED
      BY <3>1, <3>2, <3>3, <3>4
  <2>4. CASE RoutesApply
    <3>1. PICK c : heap' = {r \in heap : CacheGet(c, r.name) # None} /\ table' \in Refill(c, heap')
      BY <2>4 DEF RoutesApply
    <3>2. table'[d] \in RouteChoices(c, heap', d)
      BY <3>1 DEF Refill
    <3>3. QED
      BY <3>2 DEF RouteChoices
  <2>5. ASSUME NEW n \in Names \cup {None}, NEW e \in Dests \cup {None}, RetireRecord(n, e)
        PROVE  \E r \in heap' : r.dest = d
    <3>1. PICK gone \in SUBSET heap :
            heap' = heap \ gone /\ table' = RemoveRoutes(table, {r.dest : r \in gone})
      BY <2>5 DEF RetireRecord, Retired
    <3>2. QED
      BY <3>1 DEF RemoveRoutes, NoOrphanRoute
  <2>6. CASE ~RecordStep
    BY <2>6, OtherSteps DEF NoOrphanRoute
  <2>7. QED
    BY <2>1, <2>2, <2>3, <2>4, <2>5, <2>6 DEF RecordStep
<1>3. QED
  BY <1>1, <1>2, TypeCorrect, PTL DEF Spec

-----------------------------------------------------------------------------
\* The cache is that of the current matches, or watch_dns_routes has yet to
\* see the change or is on its way to rebuild it.
CacheFresh ==
    \/ "conf" \in routesPend
    \/ routesPc = "lock" /\ updateCaches
    \/ cache = conf.matches

\* Every record is one that the cache, new or old, names.
HeapCached == \A r \in heap : CacheGet(cache, r.name) # None

\* The route that setup_record chose for a record, when the kernel took it.
LinkOf(r) == IF CacheGet(cache, r.name) = "redirect" THEN out ELSE default

\* Unless watch_dns_routes has been woken, a route is that of a record.
RoutesTrue ==
    routesPend = {} /\ routesPc = "wait" =>
        \A d \in Dests : table[d] # None => \E r \in heap : r.dest = d /\ table[d] = LinkOf(r)

MatchedInv == CacheFresh /\ HeapCached /\ RoutesTrue

\* Apart from the record steps, only LinkChange touches dns_table, and state,
\* output and default route change with a notification.
LEMMA OtherStepsNotify ==
    ASSUME TypeOK, [Next]_vars, ~RecordStep, ~RoutesWake
    PROVE  /\ UNCHANGED <<cache, routesPc, updateCaches>>
           /\ routesPend \subseteq routesPend'
           /\ conf'.matches = conf.matches \/ "conf" \in routesPend'
           /\ UNCHANGED <<out, default>> \/ routesPend' # {}
           /\ \A d \in Dests : table'[d] \in {None, table[d]}
<1> DEFINE Goal == /\ UNCHANGED <<cache, routesPc, updateCaches>>
                   /\ routesPend \subseteq routesPend'
                   /\ conf'.matches = conf.matches \/ "conf" \in routesPend'
                   /\ UNCHANGED <<out, default>> \/ routesPend' # {}
                   /\ \A d \in Dests : table'[d] \in {None, table[d]}
<1> USE DEF sources, records, routesVars, kernelVars
<1>1. CASE Environment
  <2>1. ASSUME NEW i \in Ids, LinkChange(i)
        PROVE  Goal
    BY <2>1 DEF LinkChange, TypeOK
  <2>2. ASSUME NEW c, SendState(c)
        PROVE  Goal
    BY <2>2 DEF SendState
  <2>3. CASE Advance
    BY <2>3 DEF Advance
  <2>4. ASSUME NEW r \in Ids \cup {None}, OutputChange(r) \/ DefaultChange(r)
        PROVE  Goal
    BY <2>4 DEF OutputChange, DefaultChange
  <2>5. ASSUME NEW a \in Answer, Ingress(a)
        PROVE  Goal
    BY <2>5 DEF Ingress
  <2>6. QED
    BY <1>1, <2>1, <2>2, <2>3, <2>4, <2>5
       DEF Environment, RecordStep, Toggle, ModifyMatches, UpdateConfig
<1>2. CASE BpfReload
  BY <1>2 DEF BpfReload
<1>3. CASE Parse
  BY <1>3 DEF Parse, RecordStep, ParseStart, ParseNoMatch
<1>4. CASE WatchTtl
  BY <1>4 DEF WatchTtl, RecordStep, TtlRearm, TtlFire
<1>5. CASE WatchRoutes
  BY <1>5 DEF WatchRoutes, RecordStep
<1>6. CASE Multicast
  BY <1>6 DEF Multicast, MulticastStart, MulticastNewRoute, SendDefault
<1>7. CASE UNCHANGED vars
  BY <1>7 DEF vars
<1>8. QED
  BY <1>1, <1>2, <1>3, <1>4, <1>5, <1>6, <1>7 DEF Next

\* Steps that keep, of the records of every destination that still has its
\* route, one for each name, leave the matched records and routes in order.
LEMMA MatchedRemoval ==
    ASSUME HeapCached, RoutesTrue,
           UNCHANGED <<conf, cache, out, default, routesPend, routesPc>>,
           \A r \in heap' : \E q \in heap : q.name = r.name,
           \A d \in Dests : table'[d] \in {None, table[d]},
           \A q \in heap : q.dest \in Dests /\ table'[q.dest] # None =>
                              \E r \in heap' : r.name = q.name /\ r.dest = q.dest
    PROVE  HeapCached' /\ RoutesTrue'
<1>1. HeapCached'
  BY DEF HeapCached, CacheGet
<1>2. ASSUME NEW r, NEW q, r.name = q.name
      PROVE  LinkOf(r)' = LinkOf(q)
  BY <1>2 DEF LinkOf, CacheGet
<1>3. RoutesTrue'
  <2> SUFFICES ASSUME routesPend = {} /\ routesPc = "wait",
                      NEW d \in Dests, table'[d] # None
               PROVE  \E r \in heap' : r.dest = d /\ table'[d] = LinkOf(r)'
    BY DEF RoutesTrue
  <2>1. PICK q \in heap : q.dest = d /\ table[d] = LinkOf(q)
    BY DEF RoutesTrue
  <2>2. PICK r \in heap' : r.name = q.name /\ r.dest = q.dest
    BY <2>1
  <2>3. QED
    BY <1>2, <2>1, <2>2
<1>4. QED
  BY <1>1, <1>3

\* The inductive invariant of the two theorems below.
LEMMA MatchedInvariant == Spec => []MatchedInv
<1>1. Init => MatchedInv
  BY DEF Init, MatchedInv, CacheFresh, HeapCached, RoutesTrue
<1>2. TypeOK /\ TypeOK' /\ MatchedInv /\ [Next]_vars => MatchedInv'
  <2> SUFFICES ASSUME TypeOK, TypeOK', CacheFresh, HeapCached, RoutesTrue, [Next]_vars
               PROVE  CacheFresh' /\ HeapCached' /\ RoutesTrue'
    BY DEF MatchedInv
  <2>1. CASE ParseKnown
    <3>1. UNCHANGED <<conf, cache, out, default, routesPend, routesPc, updateCaches, heap, table>>
      BY <2>1 DEF ParseKnown, sources, routesVars, kernelVars
    <3>2. QED
      BY <3>1, MatchedRemoval DEF CacheFresh
  <2>2. CASE ParseNew
    <3> DEFINE rec == ParsedRecord
               dir == CacheGet(cache, rec.name)
    <3>1. /\ heap' = heap \cup {rec} /\ dir # None
          /\ table' = SetupRecord(table, rec.dest, dir)
          /\ UNCHANGED <<conf, cache, out, default, routesPend, routesPc, updateCaches, up>>
      BY <2>2 DEF ParseNew, sources, routesVars
    <3>2. CacheFresh'
      BY <3>1 DEF CacheFresh
    <3>3. HeapCached'
      BY <3>1 DEF HeapCached, CacheGet
    <3>4. \A r : LinkOf(r)' = LinkOf(r)
      BY <3>1 DEF LinkOf, CacheGet
    <3>5. ASSUME routesPend = {}, routesPc = "wait", NEW d \in Dests, table'[d] # None
          PROVE  \E r \in heap' : r.dest = d /\ table'[d] = LinkOf(r)'
      <4>1. CASE table[d] # None
        <5>1. table'[d] = table[d]
          BY <3>1, <4>1 DEF SetupRecord, TypeOK
        <5>2. QED
          BY <3>1, <3>4, <3>5, <4>1, <5>1 DEF RoutesTrue
      <4>2. CASE table[d] = None
        <5>1. d = rec.dest /\ table'[d] = Via(dir)
          BY <3>1, <3>5, <4>2 DEF SetupRecord, TypeOK
        <5>2. Via(dir) = LinkOf(rec)
          BY <3>5, <5>1 DEF Via, LinkOf
        <5>3. QED
          BY <3>1, <3>4, <5>1, <5>2
      <4>3. QED
        BY <4>1, <4>2
    <3>6. QED
      BY <3>1, <3>2, <3>3, <3>5 DEF RoutesTrue
  <2>3. CASE TtlExpire
    <3> DEFINE renewed == {r \in Due : hash[Key(r)] # None /\ hash[Key(r)] > now}
               again(r) == [r EXCEPT !.ttl_expire = hash[Key(r)]]
    <3>1. /\ heap' = (heap \ Due) \cup {again(r) : r \in renewed}
          /\ table' = RemoveRoutes(table, {r.dest : r \in Due \ renewed})
          /\ UNCHANGED <<conf, cache, out, default, routesPend, routesPc, updateCaches>>
      BY <2>3 DEF TtlExpire, sources, routesVars
    <3>2. \A r \in heap : again(r).name = r.name /\ again(r).dest = r.dest
      BY DEF TypeOK, Record
    <3>3. renewed \subseteq Due /\ Due \subseteq heap
      BY DEF Due
    <3> HIDE DEF renewed, again
    <3>4. \A d \in Dests : /\ table'[d] \in {None, table[d]}
                           /\ table'[d] # None => ~\E r \in Due \ renewed : r.dest = d
      BY <3>1 DEF RemoveRoutes
    <3>5. \A r \in heap' : \E q \in heap : q.name = r.name
      BY <3>1, <3>2, <3>3
    <3>6. ASSUME NEW q \in heap, q.dest \in Dests, table'[q.dest] # None
          PROVE  \E r \in heap' : r.name = q.name /\ r.dest = q.dest
      BY <3>1, <3>2, <3>3, <3>4, <3>6
    <3>7. QED
      BY <3>1, <3>4, <3>5, <3>6, MatchedRemoval DEF CacheFresh
  <2>4. CASE RoutesApply
    <3> DEFINE c == IF updateCaches THEN conf.matches ELSE cache
    <3>1. /\ cache' = c /\ heap' = {r \in heap : CacheGet(c, r.name) # None}
          /\ table' \in Refill(c, heap')
          /\ UNCHANGED <<conf, out, default, routesPend, updateCaches>>
      BY <2>4 DEF RoutesApply, sources
    <3>2. CacheFresh'
      BY <3>1 DEF CacheFresh
    <3> HIDE DEF c
    <3>3. \A r : CacheGet(cache', r.name) = CacheGet(c, r.name)
      BY <3>1
    <3>4. HeapCached'
      BY <3>1, <3>3 DEF HeapCached, CacheGet
    <3>5. ASSUME NEW d \in Dests, table'[d] # None
          PROVE  \E r \in heap' : r.dest = d /\ table'[d] = LinkOf(r)'
      <4>1. table'[d] \in RouteChoices(c, heap', d)
        BY <3>1 DEF Refill
      <4>2. PICK r \in heap' : r.dest = d /\ table'[d] = Via(CacheGet(c, r.name))
        BY <3>5, <4>1 DEF RouteChoices
      <4>3. Via(CacheGet(c, r.name)) = IF CacheGet(c, r.name) = "redirect" THEN out ELSE default
        BY <3>5, <4>2 DEF Via
      <4>4. LinkOf(r)' = IF CacheGet(cache', r.name) = "redirect" THEN out' ELSE default'
        BY DEF LinkOf, CacheGet
      <4>5. QED
        BY <3>1, <3>3, <4>2, <4>3, <4>4
    <3>6. QED
      BY <3>2, <3>4, <3>5 DEF RoutesTrue
  <2>5. ASSUME NEW n \in Names \cup {None}, NEW e \in Dests \cup {None}, RetireRecord(n, e)
        PROVE  CacheFresh' /\ HeapCached' /\ RoutesTrue'
    <3>1. PICK gone \in SUBSET heap :
            /\ heap' = heap \ gone
            /\ table' = RemoveRoutes(table, {r.dest : r \in gone})
            /\ UNCHANGED <<conf, cache, out, default, routesPend, routesPc, updateCaches>>
      BY <2>5 DEF RetireRecord, Retired, sources, routesVars
    <3>2. \A d \in Dests : /\ table'[d] \in {None, table[d]}
                           /\ table'[d] # None => ~\E r \in gone : r.dest = d
      BY <3>1 DEF RemoveRoutes
    <3>3. QED
      BY <3>1, <3>2, MatchedRemoval DEF CacheFresh
  <2>6. CASE RoutesWake
    <3>1. UNCHANGED <<conf, cache, heap>>
      BY <2>6 DEF RoutesWake, sources, records
    <3>2. CacheFresh' /\ RoutesTrue'
      BY <2>6, <3>1 DEF RoutesWake, CachesStale, CacheFresh, RoutesTrue
    <3>3. QED
      BY <3>1, <3>2 DEF HeapCached, CacheGet
  <2>7. CASE ~RecordStep /\ ~RoutesWake
    <3>1. /\ UNCHANGED <<heap, cache, routesPc, updateCaches>>
          /\ routesPend \subseteq routesPend'
          /\ conf'.matches = conf.matches \/ "conf" \in routesPend'
          /\ UNCHANGED <<out, default>> \/ routesPend' # {}
          /\ \A d \in Dests : table'[d] \in {None, table[d]}
      BY <2>7, OtherSteps, OtherStepsNotify
    <3>2. CacheFresh' /\ HeapCached'
      BY <3>1 DEF CacheFresh, HeapCached, CacheGet
    <3>3. ASSUME UNCHANGED <<out, default>>
          PROVE  \A r : LinkOf(r)' = LinkOf(r)
      BY <3>1, <3>3 DEF LinkOf, CacheGet
    <3>4. RoutesTrue'
      BY <3>1, <3>3 DEF RoutesTrue
    <3>5. QED
      BY <3>2, <3>4
  <2>8. QED
    BY <2>1, <2>2, <2>3, <2>4, <2>5, <2>6, <2>7 DEF RecordStep
<1>3. QED
  BY <1>1, <1>2, TypeCorrect, PTL DEF Spec

\* Once the tasks are idle every record is one that the current matches name:
\* a packet parsed with the old cache brings back no record of a deleted match.
THEOREM RecordsMatchedAlways == Spec => []RecordsMatched
<1>1. MatchedInv => RecordsMatched
  BY DEF MatchedInv, CacheFresh, HeapCached, RecordsMatched, Settled
<1>2. QED
  BY <1>1, MatchedInvariant, PTL

\* Once the tasks are idle a route leads over the link that the current
\* matches, output and default route choose for one of its records.
THEOREM RoutesCurrentAlways == Spec => []RoutesCurrent
<1>1. MatchedInv => RoutesCurrent
  <2> SUFFICES ASSUME MatchedInv, Settled
               PROVE  RoutesCurrent
    BY DEF RoutesCurrent
  <2>1. cache = conf.matches
    BY DEF MatchedInv, CacheFresh, Settled
  <2>2. QED
    BY <2>1 DEF MatchedInv, RoutesTrue, LinkOf, RoutesCurrent, Settled
<1>2. QED
  BY <1>1, MatchedInvariant, PTL
==============================================================================
