----------------------------- MODULE MatchesProofs -----------------------------
(***************************************************************************)
(* Proofs about Matches: for any set of matches, any clients and any limit *)
(* of the DFA, the counter of dns matches is exact, the list compiles as a *)
(* whole, a generation names one list, and a call that was not authorized  *)
(* leaves the entries of others alone.                                     *)
(***************************************************************************)
EXTENDS Matches, SequenceLemmas

DnsMatches == {m \in Match : IsDns(m)}
Compiles(m, dfa) ==
    /\ <<m.kind, m.direction>> \in dfa
    /\ m.method # "subnet" /\ m.pattern # ""
CompiledMatches(dfa) == {m \in Match : Compiles(m, dfa)}
Dfas == {PathDfa} \cup {DnsDfa(d) : d \in Directions}

\* What each change that succeeds leaves in the list and in the counter:
\* Matches::add, replace and del.
Added(m) ==
    /\ TryParse(matches, m)
    /\ matches' = Append(matches, m)
    /\ dns_count' = dns_count + B(IsDns(m))
Replaced(p, to) ==
    /\ TryParse(matches, to)
    /\ matches' = ReplaceAt(matches, p, to)
    /\ dns_count' = dns_count + B(IsDns(to)) - B(IsDns(matches[p]))
Deleted(p) ==
    /\ matches' = RemoveAt(matches, p)
    /\ dns_count' = dns_count - B(IsDns(matches[p]))

\* The generation moves on with the list.
Published ==
    /\ generation' = generation + 1
    /\ seen' = seen \cup {<<generation + 1, matches'>>}

Changed ==
    /\ Published
    /\ \/ \E m \in Match : Added(m)
       \/ \E p \in 1..Len(matches), to \in Match : Replaced(p, to)
       \/ \E p \in 1..Len(matches) : Deleted(p)

CallType == [req : Requests, allowed : BOOLEAN, polkit : BOOLEAN]

-----------------------------------------------------------------------------
\* The position that is looked for holds an equal entry: replace may take
\* the kind of `from` for that of the entry it overwrites.
LEMMA PositionFinds ==
    ASSUME NEW list \in Seq(Match), NEW m \in Match, Position(list, m) # 0
    PROVE  /\ Position(list, m) \in 1..Len(list)
           /\ IsEqTo(list[Position(list, m)], m)
<1> DEFINE I == {i \in 1..Len(list) : IsEqTo(list[i], m)}
<1>1. Position(list, m) = IF I = {} THEN 0 ELSE Min(I)
  BY DEF Position, SelectInSeq, SelectInSubSeq
<1>2. I # {} /\ Position(list, m) = Min(I)
  BY <1>1
<1>3. I \in SUBSET Nat
  BY LenProperties
<1>4. Min(I) \in I
  BY <1>2, <1>3, MinIsLeast
<1> QED
  BY <1>2, <1>4

\* The call that a client is waiting for is typed by what it asks.
LEMMA ReadyRequest ==
    ASSUME TypeOK, NEW c \in Clients, NEW op, Ready(c, op)
    PROVE  /\ call[c] \in CallType
           /\ op \in {"add", "delete"} => call[c].req.arg \in Match
           /\ op = "update" => call[c].req.from \in Match /\ call[c].req.to \in Match
<1>1. call[c] \in CallType
  BY DEF TypeOK, Ready, CallType
<1>2. call[c].req \in Requests /\ call[c].req.op = op
  BY <1>1 DEF CallType, Ready
<1> QED
  BY <1>1, <1>2 DEF Requests

\* The request of a call is over, or waits on, and nothing else changes; or
\* it changes the list as one of the three functions does.
LEMMA StepShape ==
    ASSUME TypeOK, [Next]_vars
    PROVE  /\ call' \in [Clients -> CallType \cup {None}] /\ calls' \in Nat
           /\ UNCHANGED <<matches, dns_count, generation, seen>> \/ Changed
<1>1. call \in [Clients -> CallType \cup {None}] /\ calls \in Nat
  BY DEF TypeOK, CallType
<1>2. CASE UNCHANGED vars
  BY <1>1, <1>2 DEF vars
<1> SUFFICES ASSUME NEW c \in Clients,
                    \/ \E r \in Requests : Call(c, r)
                    \/ Authorize(c) \/ Refuse(c)
                    \/ Add(c) \/ Replace(c) \/ Del(c)
             PROVE  /\ call' \in [Clients -> CallType \cup {None}] /\ calls' \in Nat
                    /\ UNCHANGED <<matches, dns_count, generation, seen>> \/ Changed
  BY <1>2 DEF Next
<1>3. CASE \E r \in Requests : Call(c, r)
  <2>1. PICK r \in Requests : Call(c, r)
    BY <1>3
  <2>2. [req |-> r, allowed |-> ~NeedsAuth(uid_of[c], r), polkit |-> FALSE] \in CallType
    BY DEF CallType, NeedsAuth
  <2>3. call' \in [Clients -> CallType \cup {None}]
    BY <1>1, <2>1, <2>2 DEF Call
  <2> QED
    BY <1>1, <2>1, <2>3 DEF Call
<1>4. CASE Authorize(c)
  <2>1. call[c] \in CallType
    BY <1>1, <1>4 DEF Authorize
  <2>2. [call[c] EXCEPT !.allowed = TRUE, !.polkit = TRUE] \in CallType
    BY <2>1 DEF CallType
  <2>3. call' = [call EXCEPT ![c] = [call[c] EXCEPT !.allowed = TRUE, !.polkit = TRUE]]
    BY <1>1, <1>4 DEF Authorize
  <2>4. call' \in [Clients -> CallType \cup {None}]
    BY <1>1, <2>2, <2>3
  <2> QED
    BY <1>1, <1>4, <2>4 DEF Authorize
<1>5. CASE Refuse(c)
  BY <1>1, <1>5 DEF Refuse
<1>6. ASSUME Fail(c)
      PROVE  /\ call' \in [Clients -> CallType \cup {None}] /\ calls' \in Nat
             /\ UNCHANGED <<matches, dns_count, generation, seen>>
  BY <1>1, <1>6 DEF Fail
<1>7. ASSUME NEW l, NEW n, Done(c, l, n)
      PROVE  /\ call' \in [Clients -> CallType \cup {None}] /\ calls' \in Nat
             /\ matches' = l /\ dns_count' = n /\ Published
  BY <1>1, <1>7 DEF Done, Published
<1>8. CASE Add(c)
  <2> DEFINE m == call[c].req.arg
  <2>1. m \in Match
    BY <1>8, ReadyRequest DEF Add
  <2>2. CASE TryParse(matches, m)
    <3>1. Done(c, Append(matches, m), dns_count + B(IsDns(m)))
      BY <1>8, <2>2 DEF Add
    <3>2. Added(m)
      BY <1>7, <2>2, <3>1 DEF Added
    <3> HIDE DEF m
    <3> QED
      BY <1>7, <2>1, <3>1, <3>2 DEF Changed
  <2>3. CASE ~TryParse(matches, m)
    BY <1>6, <1>8, <2>3 DEF Add
  <2> QED
    BY <2>2, <2>3
<1>9. CASE Replace(c)
  <2> DEFINE from == call[c].req.from
             to == call[c].req.to
             p == Position(matches, from)
  <2>1. from \in Match /\ to \in Match
    BY <1>9, ReadyRequest DEF Replace
  <2>2. CASE TryParse(matches, from) /\ TryParse(matches, to) /\ p # 0
    <3>1. Done(c, ReplaceAt(matches, p, to), dns_count + B(IsDns(to)) - B(IsDns(from)))
      BY <1>9, <2>2 DEF Replace
    <3>2. p \in 1..Len(matches) /\ IsEqTo(matches[p], from)
      BY <2>1, <2>2, PositionFinds DEF TypeOK
    <3>3. IsDns(matches[p]) = IsDns(from)
      BY <3>2 DEF IsEqTo, IsDns
    <3>4. Replaced(p, to)
      BY <1>7, <2>2, <3>1, <3>3 DEF Replaced
    <3> HIDE DEF p, to
    <3> QED
      BY <1>7, <2>1, <3>1, <3>2, <3>4 DEF Changed
  <2>3. CASE ~(TryParse(matches, from) /\ TryParse(matches, to) /\ p # 0)
    BY <1>6, <1>9, <2>3 DEF Replace
  <2> QED
    BY <2>2, <2>3
<1>10. CASE Del(c)
  <2> DEFINE m == call[c].req.arg
             p == Position(matches, m)
  <2>1. m \in Match
    BY <1>10, ReadyRequest DEF Del
  <2>2. CASE TryParse(matches, m) /\ p # 0
    <3>1. Done(c, RemoveAt(matches, p), dns_count - B(IsDns(matches[p])))
      BY <1>10, <2>2 DEF Del
    <3>2. p \in 1..Len(matches)
      BY <2>1, <2>2, PositionFinds DEF TypeOK
    <3>3. Deleted(p)
      BY <1>7, <3>1 DEF Deleted
    <3> HIDE DEF p
    <3> QED
      BY <1>7, <3>1, <3>2, <3>3 DEF Changed
  <2>3. CASE ~(TryParse(matches, m) /\ p # 0)
    BY <1>6, <1>10, <2>3 DEF Del
  <2> QED
    BY <2>2, <2>3
<1> QED
  BY <1>3, <1>4, <1>5, <1>8, <1>9, <1>10

-----------------------------------------------------------------------------
\* The counter in terms of SequenceLemmas.
LEMMA DnsCounted ==
    ASSUME NEW list \in Seq(Match)
    PROVE  DnsCount(list) = Cardinality(Positions(list, DnsMatches))
<1>1. \A i \in DOMAIN list : list[i] \in Match
  BY ElementOfSeq, CountType
<1>2. Positions(list, DnsMatches) = {i \in DOMAIN list : IsDns(list[i])}
  BY <1>1 DEF Positions, DnsMatches
<1> QED
  BY <1>2 DEF DnsCount

\* Casting IsDns to a number is to count one entry.
LEMMA CastCounts ==
    ASSUME NEW m \in Match
    PROVE  B(IsDns(m)) = In(m, DnsMatches) /\ B(IsDns(m)) \in {0, 1}
BY DEF B, In, DnsMatches

CountInv == TypeOK /\ CountExact

\* add, replace and del keep the counter equal to the number of dns matches,
\* so that it never goes below zero; neither holds without the other.
LEMMA CountInvariant == Spec => []CountInv
<1>1. Init => CountInv
  <2>1. ASSUME Init
        PROVE  matches = << >> /\ matches \in Seq(Match) /\ dns_count = 0
    BY <2>1 DEF Init
  <2>2. ASSUME Init PROVE CountExact
    <3>1. DnsCount(matches) = Cardinality(Positions(matches, DnsMatches))
      BY <2>1, <2>2, DnsCounted
    <3>2. Cardinality(Positions(<< >>, DnsMatches)) = 0
      BY CountEmpty
    <3> QED
      BY <2>1, <2>2, <3>1, <3>2 DEF CountExact
  <2>3. ASSUME Init PROVE TypeOK
    BY <2>1, <2>3 DEF Init, TypeOK
  <2> QED
    BY <2>2, <2>3 DEF CountInv
<1>2. CountInv /\ [Next]_vars => CountInv'
  <2> SUFFICES ASSUME TypeOK, CountExact, [Next]_vars
               PROVE  TypeOK' /\ CountExact'
    BY DEF CountInv
  <2>1. matches \in Seq(Match) /\ generation \in Nat /\ dns_count \in Nat
    BY DEF TypeOK
  <2>2. call' \in [Clients -> CallType \cup {None}] /\ calls' \in Nat
    BY StepShape
  <2>3. dns_count = Cardinality(Positions(matches, DnsMatches))
    BY <2>1, DnsCounted DEF CountExact
  <2>4. ASSUME matches' \in Seq(Match), generation' \in Nat,
               dns_count' = Cardinality(Positions(matches', DnsMatches))
        PROVE  TypeOK' /\ CountExact'
    <3>1. dns_count' = DnsCount(matches')
      BY <2>4, DnsCounted
    <3>2. dns_count' \in Nat
      BY <2>4, CountType
    <3> QED
      BY <2>2, <2>4, <3>1, <3>2 DEF TypeOK, CallType, CountExact
  <2>5. CASE UNCHANGED <<matches, dns_count, generation, seen>>
    BY <2>1, <2>3, <2>4, <2>5
  <2>6. CASE \E m \in Match : Added(m) /\ Published
    <3>1. PICK m \in Match : Added(m) /\ Published
      BY <2>6
    <3>2. matches' \in Seq(Match)
      BY <2>1, <3>1, AppendProperties DEF Added
    <3>3. Cardinality(Positions(matches', DnsMatches)) = dns_count + In(m, DnsMatches)
      BY <2>1, <2>3, <3>1, CountAfterAppend DEF Added
    <3> QED
      BY <2>1, <2>4, <3>1, <3>2, <3>3, CastCounts DEF Added, Published
  <2>7. CASE \E p \in 1..Len(matches), to \in Match : Replaced(p, to) /\ Published
    <3>1. PICK p \in 1..Len(matches), to \in Match : Replaced(p, to) /\ Published
      BY <2>7
    <3>2. /\ matches' \in Seq(Match)
          /\ Cardinality(Positions(matches', DnsMatches))
               = dns_count + In(to, DnsMatches) - In(matches[p], DnsMatches)
      BY <2>1, <2>3, <3>1, CountAfterReplace DEF Replaced
    <3>3. matches[p] \in Match
      BY <2>1, <3>1, ElementOfSeq
    <3> QED
      BY <2>1, <2>4, <3>1, <3>2, <3>3, CastCounts DEF Replaced, Published
  <2>8. CASE \E p \in 1..Len(matches) : Deleted(p) /\ Published
    <3>1. PICK p \in 1..Len(matches) : Deleted(p) /\ Published
      BY <2>8
    <3>2. /\ matches' \in Seq(Match)
          /\ Cardinality(Positions(matches', DnsMatches)) = dns_count - In(matches[p], DnsMatches)
      BY <2>1, <2>3, <3>1, CountAfterRemove, RemoveAtEntries DEF Deleted
    <3>3. matches[p] \in Match
      BY <2>1, <3>1, ElementOfSeq
    <3> QED
      BY <2>1, <2>4, <3>1, <3>2, <3>3, CastCounts DEF Deleted, Published
  <2> QED
    BY <2>5, <2>6, <2>7, <2>8, StepShape DEF Changed
<1> QED
  BY <1>1, <1>2, PTL DEF Spec

\* Every variable keeps its type; that the counter stays a natural number is
\* part of it.
THEOREM TypeCorrect == Spec => []TypeOK
<1>1. CountInv => TypeOK
  BY DEF CountInv
<1> QED
  BY <1>1, CountInvariant, PTL

\* enable_dns may rely on the counter: whatever calls of whatever clients
\* interleave, it is the number of dns matches.
THEOREM CountAlwaysExact == Spec => []CountExact
<1>1. CountInv => CountExact
  BY DEF CountInv
<1> QED
  BY <1>1, CountInvariant, PTL

-----------------------------------------------------------------------------
\* build_dfa in terms of SequenceLemmas.
LEMMA CompiledPositions ==
    ASSUME NEW list \in Seq(Match), NEW dfa
    PROVE  /\ Compiled(list, dfa) = Positions(list, CompiledMatches(dfa))
           /\ DOMAIN list = 1..Len(list) /\ Len(list) \in Nat
           /\ \A i \in 1..Len(list) : list[i] \in Match
           /\ Cardinality(Positions(list, CompiledMatches(dfa))) \in Nat
<1>1. DOMAIN list = 1..Len(list) /\ Len(list) \in Nat
  BY CountType
<1>2. \A i \in 1..Len(list) : list[i] \in Match
  BY ElementOfSeq
<1> QED
  BY <1>1, <1>2, CountType DEF Compiled, Compiles, Positions, CompiledMatches

\* A match that joins the list after try_parse: its own DFA was built with
\* it, the other one does not change.
LEMMA AppendCompiles ==
    ASSUME NEW list \in Seq(Match), NEW m \in Match, TryParse(list, m),
           NEW dfa \in Dfas, BuildsDfa(list, dfa)
    PROVE  BuildsDfa(Append(list, m), dfa)
<1>1. CASE <<m.kind, m.direction>> \in dfa
  <2>1. CASE dfa = PathDfa
    <3>1. m.kind \in ProcessKinds
      BY <1>1, <2>1 DEF PathDfa
    <3> QED
      BY <2>1, <3>1 DEF TryParse, IsPerProcess
  <2>2. ASSUME NEW d \in Directions, dfa = DnsDfa(d)
        PROVE  BuildsDfa(Append(list, m), dfa)
    <3>1. m.kind \in DnsKinds
      BY <1>1, <2>2 DEF DnsDfa
    <3>2. IsDns(m) /\ ~IsPerProcess(m)
      BY <3>1 DEF IsDns, IsPerProcess, DnsKinds, ProcessKinds
    <3> QED
      BY <2>2, <3>2 DEF TryParse
  <2> QED
    BY <2>1, <2>2 DEF Dfas
<1>2. CASE <<m.kind, m.direction>> \notin dfa
  <2> DEFINE P == CompiledMatches(dfa)
             new == Append(list, m)
  <2>1. /\ new \in Seq(Match) /\ Len(new) = Len(list) + 1
        /\ new[Len(list) + 1] = m /\ \A i \in 1..Len(list) : new[i] = list[i]
    BY AppendProperties
  <2>2. Cardinality(Positions(new, P)) = Cardinality(Positions(list, P)) + In(m, P)
    BY CountAfterAppend
  <2>3. In(m, P) = 0
    BY <1>2 DEF In, Compiles, CompiledMatches
  <2>4. Cardinality(Compiled(new, dfa)) <= Limit
    <3>1. /\ Cardinality(Positions(list, P)) <= Limit
          /\ Cardinality(Positions(list, P)) \in Nat
      BY CompiledPositions DEF BuildsDfa
    <3>2. Cardinality(Positions(new, P)) <= Limit
      BY <2>2, <2>3, <3>1
    <3> QED
      BY <2>1, <3>2, CompiledPositions
  <2>5. DOMAIN new = 1..(Len(list) + 1) /\ DOMAIN list = 1..Len(list) /\ Len(list) \in Nat
    BY <2>1, CompiledPositions
  <2>6. ASSUME NEW i \in Compiled(new, dfa)
        PROVE  new[i] \in WellFormed
    <3>1. i \in 1..(Len(list) + 1) /\ Compiles(new[i], dfa)
      BY <2>5, <2>6 DEF Compiled, Compiles
    <3>2. i # Len(list) + 1
      BY <1>2, <2>1, <3>1 DEF Compiles
    <3>3. i \in 1..Len(list)
      BY <2>5, <3>1, <3>2
    <3>4. i \in Compiled(list, dfa)
      BY <2>1, <2>5, <3>1, <3>3 DEF Compiled, Compiles
    <3> QED
      BY <2>1, <3>3, <3>4 DEF BuildsDfa
  <2> QED
    BY <2>4, <2>6 DEF BuildsDfa
<1> QED
  BY <1>1, <1>2

\* A match that takes the place of another one: the list is no longer than
\* the one that try_parse built, and holds none but its entries.
LEMMA ReplaceCompiles ==
    ASSUME NEW list \in Seq(Match), NEW m \in Match, NEW p \in 1..Len(list), NEW dfa,
           BuildsDfa(list, dfa), BuildsDfa(Append(list, m), dfa)
    PROVE  BuildsDfa(ReplaceAt(list, p, m), dfa)
<1> DEFINE P == CompiledMatches(dfa)
           new == ReplaceAt(list, p, m)
           all == Append(list, m)
<1>1. /\ all \in Seq(Match) /\ Len(all) = Len(list) + 1 /\ all[Len(list) + 1] = m
      /\ Len(list) \in Nat /\ DOMAIN list = 1..Len(list) /\ DOMAIN all = 1..(Len(list) + 1)
  BY AppendProperties, CompiledPositions
<1>2. /\ new \in Seq(Match) /\ Len(new) = Len(list)
      /\ Cardinality(Positions(new, P))
           = Cardinality(Positions(list, P)) + In(m, P) - In(list[p], P)
  BY CountAfterReplace
<1>3. Cardinality(Positions(all, P)) = Cardinality(Positions(list, P)) + In(m, P)
  BY CountAfterAppend
<1>4. In(list[p], P) \in {0, 1} /\ In(m, P) \in {0, 1}
  BY DEF In
<1>5. Cardinality(Compiled(new, dfa)) <= Limit
  <2>1. Cardinality(Positions(all, P)) <= Limit
    BY <1>1, CompiledPositions DEF BuildsDfa
  <2>2. Cardinality(Positions(list, P)) \in Nat
    BY CompiledPositions
  <2>3. Cardinality(Positions(new, P)) <= Limit
    BY <1>2, <1>3, <1>4, <2>1, <2>2, MatchesAssumption
  <2> QED
    BY <1>2, <2>3, CompiledPositions
<1>6. ASSUME NEW i \in Compiled(new, dfa)
      PROVE  new[i] \in WellFormed
  <2>1. i \in 1..Len(list) /\ Compiles(new[i], dfa)
    BY <1>1, <1>2, <1>6, CompiledPositions DEF Compiled, Compiles
  <2>2. new[i] = IF i = p THEN m ELSE list[i]
    BY <1>1, <2>1 DEF ReplaceAt
  <2>3. CASE i = p
    <3>1. Compiles(m, dfa) /\ new[i] = m
      BY <2>1, <2>2, <2>3
    <3>2. Len(list) + 1 \in Compiled(all, dfa)
      <4>1. Len(list) + 1 \in DOMAIN all /\ all[Len(list) + 1] = m
        BY <1>1
      <4> HIDE DEF all
      <4> QED
        BY <3>1, <4>1, Zenon DEF Compiled, Compiles
    <3> QED
      BY <1>1, <3>1, <3>2 DEF BuildsDfa
  <2>4. CASE i # p
    BY <1>1, <2>1, <2>2, <2>4 DEF BuildsDfa, Compiled, Compiles
  <2> QED
    BY <2>3, <2>4
<1> QED
  BY <1>5, <1>6 DEF BuildsDfa

\* A list that loses an entry.
LEMMA RemoveCompiles ==
    ASSUME NEW list \in Seq(Match), NEW p \in 1..Len(list), NEW dfa, BuildsDfa(list, dfa)
    PROVE  BuildsDfa(RemoveAt(list, p), dfa)
<1> DEFINE P == CompiledMatches(dfa)
           new == RemoveAt(list, p)
<1>1. /\ new \in Seq(Match) /\ Len(new) = Len(list) - 1
      /\ \A j \in 1..(Len(list) - 1) : new[j] = IF j < p THEN list[j] ELSE list[j + 1]
  BY RemoveAtEntries
<1>2. Cardinality(Positions(new, P)) = Cardinality(Positions(list, P)) - In(list[p], P)
  BY CountAfterRemove
<1>3. In(list[p], P) \in {0, 1}
  BY DEF In
<1>4. Cardinality(Compiled(new, dfa)) <= Limit
  <2>1. Cardinality(Positions(list, P)) <= Limit /\ Cardinality(Positions(list, P)) \in Nat
    BY CompiledPositions DEF BuildsDfa
  <2>2. Cardinality(Positions(new, P)) <= Limit
    BY <1>2, <1>3, <2>1, MatchesAssumption
  <2> QED
    BY <1>1, <2>2, CompiledPositions
<1>5. DOMAIN new = 1..(Len(list) - 1) /\ DOMAIN list = 1..Len(list) /\ Len(list) \in Nat
  BY <1>1, CompiledPositions
<1>6. ASSUME NEW j \in Compiled(new, dfa)
      PROVE  new[j] \in WellFormed
  <2>1. j \in 1..(Len(list) - 1) /\ Compiles(new[j], dfa)
    BY <1>5, <1>6 DEF Compiled, Compiles
  <2>2. PICK i \in DOMAIN list : new[j] = list[i]
    <3>1. j \in DOMAIN list /\ j + 1 \in DOMAIN list
      BY <1>5, <2>1
    <3> QED
      BY <1>1, <2>1, <3>1
  <2>3. i \in Compiled(list, dfa)
    BY <2>1, <2>2 DEF Compiled, Compiles
  <2> QED
    BY <2>2, <2>3 DEF BuildsDfa
<1> QED
  BY <1>4, <1>6 DEF BuildsDfa

\* bpf_reload and watch_dns_routes always find a list that compiles: testing
\* each new match against the list as it is then is enough, although matches
\* are also replaced and deleted, by other clients, between the tests.
THEOREM ListAlwaysCompiles == Spec => []ListCompiles
<1>1. Init => ListCompiles
  <2> SUFFICES ASSUME Init, NEW dfa
               PROVE  BuildsDfa(matches, dfa)
    BY DEF ListCompiles
  <2>1. Compiled(matches, dfa) = {}
    BY DEF Init, Compiled
  <2> QED
    BY <2>1, FS_EmptySet, MatchesAssumption DEF BuildsDfa
<1>2. ListCompiles /\ TypeOK /\ [Next]_vars => ListCompiles'
  <2> SUFFICES ASSUME ListCompiles, TypeOK, [Next]_vars,
                      NEW dfa \in Dfas
               PROVE  BuildsDfa(matches', dfa)
    BY DEF ListCompiles, Dfas, BuildsDfa, Compiled
  <2>1. BuildsDfa(matches, dfa) /\ matches \in Seq(Match)
    BY DEF ListCompiles, Dfas, TypeOK
  <2>2. CASE UNCHANGED <<matches, dns_count, generation, seen>>
    BY <2>1, <2>2
  <2>3. CASE \E m \in Match : Added(m)
    BY <2>1, <2>3, AppendCompiles DEF Added
  <2>4. CASE \E p \in 1..Len(matches), to \in Match : Replaced(p, to)
    <3>1. PICK p \in 1..Len(matches), to \in Match : Replaced(p, to)
      BY <2>4
    <3>2. BuildsDfa(Append(matches, to), dfa)
      BY <2>1, <3>1, AppendCompiles DEF Replaced
    <3>3. BuildsDfa(ReplaceAt(matches, p, to), dfa)
      BY <2>1, <3>1, <3>2, ReplaceCompiles
    <3> QED
      BY <3>1, <3>3 DEF Replaced
  <2>5. CASE \E p \in 1..Len(matches) : Deleted(p)
    BY <2>1, <2>5, RemoveCompiles DEF Deleted
  <2> QED
    BY <2>2, <2>3, <2>4, <2>5, StepShape DEF Changed
<1> QED
  BY <1>1, <1>2, TypeCorrect, PTL DEF Spec

-----------------------------------------------------------------------------
\* No list was published under a generation still to come.
SeenPast == \A p \in seen : \E g \in 0..generation, l \in Seq(Match) : p = <<g, l>>

NamesInv == GenerationNames /\ SeenPast

\* Two equal generations mean equal lists, which is what bpf_reload compares
\* instead of the lists.
THEOREM GenerationAlwaysNames == Spec => []GenerationNames
<1>1. Init => NamesInv
  <2> SUFFICES ASSUME Init PROVE NamesInv
    OBVIOUS
  <2>1. seen = {<<0, << >>>>} /\ generation = 0 /\ << >> \in Seq(Match)
    BY DEF Init
  <2>2. GenerationNames
    BY <2>1, Zenon DEF GenerationNames
  <2>3. 0 \in 0..generation
    BY <2>1
  <2>4. SeenPast
    BY <2>1, <2>3, Zenon DEF SeenPast
  <2> QED
    BY <2>2, <2>4 DEF NamesInv
<1>2. NamesInv /\ TypeOK /\ TypeOK' /\ [Next]_vars => NamesInv'
  <2> SUFFICES ASSUME GenerationNames, SeenPast, TypeOK, TypeOK', [Next]_vars
               PROVE  NamesInv'
    BY DEF NamesInv
  <2>1. CASE UNCHANGED <<matches, dns_count, generation, seen>>
    BY <2>1 DEF NamesInv, GenerationNames, SeenPast
  <2>2. CASE Published
    <3> DEFINE new == <<generation + 1, matches'>>
    <3>1. generation' = generation + 1 /\ seen' = seen \cup {new}
      BY <2>2 DEF Published
    <3>2. generation \in Nat /\ matches' \in Seq(Match)
      BY DEF TypeOK
    <3>3. \A p \in seen : p[1] # generation + 1
      BY <3>2 DEF SeenPast
    <3>4. GenerationNames'
      <4> SUFFICES ASSUME NEW p \in seen', NEW q \in seen', p[1] = q[1]
                   PROVE  p = q
        BY DEF GenerationNames
      <4>1. new[1] = generation + 1
        OBVIOUS
      <4>2. CASE p \in seen /\ q \in seen
        BY <4>2 DEF GenerationNames
      <4> HIDE DEF new
      <4> QED
        BY <3>1, <3>3, <4>1, <4>2
    <3>5. SeenPast'
      <4> SUFFICES ASSUME NEW p \in seen'
                   PROVE  \E g \in 0..generation', l \in Seq(Match) : p = <<g, l>>
        BY DEF SeenPast
      <4>1. CASE p \in seen
        <5>1. PICK g \in 0..generation, l \in Seq(Match) : p = <<g, l>>
          BY <4>1 DEF SeenPast
        <5>2. g \in 0..generation'
          BY <3>1, <3>2
        <5> QED
          BY <5>1, <5>2
      <4>2. CASE p = new
        <5>1. generation + 1 \in 0..generation'
          BY <3>1, <3>2
        <5> QED
          BY <3>2, <4>2, <5>1
      <4> QED
        BY <3>1, <4>1, <4>2
    <3> QED
      BY <3>4, <3>5 DEF NamesInv
  <2> QED
    BY <2>1, <2>2, StepShape DEF Changed
<1>3. NamesInv => GenerationNames
  BY DEF NamesInv
<1> QED
  BY <1>1, <1>2, <1>3, TypeCorrect, PTL DEF Spec

-----------------------------------------------------------------------------
(* The entries of others *)

\* Equal entries at equal places.
LEMMA SamePlaces ==
    ASSUME NEW c, NEW list, NEW list2,
           OthersIn(c, list2) = OthersIn(c, list), OthersIn(c, list) \subseteq Nat,
           \A i \in OthersIn(c, list) : list2[i] = list[i]
    PROVE  SameOthers(c, list, list2)
<1> DEFINE A == OthersIn(c, list)
           f == [i \in A |-> i]
<1>1. f \in Surjection(A, OthersIn(c, list2))
  BY DEF Surjection
<1>2. \A i \in A : list2[f[i]] = list[i]
  OBVIOUS
<1>3. \A i, j \in A : i < j => f[i] < f[j]
  OBVIOUS
<1> HIDE DEF f
<1> QED
  BY <1>1, <1>2, <1>3 DEF SameOthers

\* Vec::push of an entry of the client.
LEMMA SameAppend ==
    ASSUME NEW c, NEW list \in Seq(Match), NEW m \in Match, Own(c, m)
    PROVE  SameOthers(c, list, Append(list, m))
<1> DEFINE l == Append(list, m)
<1>1. /\ Len(list) \in Nat /\ DOMAIN list = 1..Len(list)
      /\ DOMAIN l = 1..(Len(list) + 1) /\ l[Len(list) + 1] = m
      /\ \A i \in 1..Len(list) : l[i] = list[i]
  BY AppendProperties, LenProperties
<1> HIDE DEF l
<1>2. \A i \in DOMAIN l : i \in DOMAIN list \/ i = Len(list) + 1
  BY <1>1
<1>3. \A i \in DOMAIN list : i \in DOMAIN l
  BY <1>1
<1>4. \A i \in DOMAIN list : l[i] = list[i]
  BY <1>1
<1>5. OthersIn(c, l) = OthersIn(c, list)
  <2>1. ASSUME NEW i \in OthersIn(c, l) PROVE i \in OthersIn(c, list)
    <3>1. i \in DOMAIN l /\ ~Own(c, l[i])
      BY DEF OthersIn
    <3>2. i # Len(list) + 1
      BY <1>1, <3>1
    <3> QED
      BY <1>2, <1>4, <3>1, <3>2 DEF OthersIn
  <2>2. ASSUME NEW i \in OthersIn(c, list) PROVE i \in OthersIn(c, l)
    BY <1>3, <1>4 DEF OthersIn
  <2> QED
    BY <2>1, <2>2
<1>6. OthersIn(c, list) \subseteq Nat /\ \A i \in OthersIn(c, list) : l[i] = list[i]
  BY <1>1, <1>4 DEF OthersIn
<1>7. SameOthers(c, list, l)
  BY <1>5, <1>6, SamePlaces
<1> QED
  BY <1>7 DEF l

\* An entry of the client is overwritten by another one.
LEMMA SameReplace ==
    ASSUME NEW c, NEW list \in Seq(Match), NEW p \in 1..Len(list), NEW m \in Match,
           Own(c, list[p]), Own(c, m)
    PROVE  SameOthers(c, list, ReplaceAt(list, p, m))
<1> DEFINE l == ReplaceAt(list, p, m)
<1>1. DOMAIN list = 1..Len(list) /\ Len(list) \in Nat
  BY LenProperties
<1>2. DOMAIN l = DOMAIN list /\ l[p] = m /\ \A i \in DOMAIN list : i # p => l[i] = list[i]
  BY <1>1 DEF ReplaceAt
<1> HIDE DEF l
<1>3. OthersIn(c, l) = OthersIn(c, list)
  BY <1>2 DEF OthersIn
<1>4. OthersIn(c, list) \subseteq Nat /\ \A i \in OthersIn(c, list) : l[i] = list[i]
  BY <1>1, <1>2 DEF OthersIn
<1>5. SameOthers(c, list, l)
  BY <1>3, <1>4, SamePlaces
<1> QED
  BY <1>5 DEF l

\* Vec::remove of an entry of the client: those behind it move up together.
LEMMA SameRemove ==
    ASSUME NEW c, NEW list \in Seq(Match), NEW p \in 1..Len(list), Own(c, list[p])
    PROVE  SameOthers(c, list, RemoveAt(list, p))
<1> DEFINE l == RemoveAt(list, p)
           n == Len(list)
           A == OthersIn(c, list)
           C == OthersIn(c, l)
           f == [i \in A |-> IF i < p THEN i ELSE i - 1]
<1>1. n \in Nat /\ DOMAIN list = 1..n /\ p \in 1..n
  BY LenProperties
<1>2. /\ DOMAIN l = 1..(n - 1)
      /\ \A j \in 1..(n - 1) : l[j] = IF j < p THEN list[j] ELSE list[j + 1]
  <2>1. /\ l \in Seq(Match) /\ Len(l) = n - 1
        /\ \A j \in 1..(n - 1) : l[j] = IF j < p THEN list[j] ELSE list[j + 1]
    BY RemoveAtEntries
  <2>2. DOMAIN l = 1..Len(l)
    BY <2>1, LenProperties
  <2> QED
    BY <2>1, <2>2
<1> HIDE DEF l, n
<1>3. A = {i \in 1..n : ~Own(c, list[i])} /\ C = {j \in 1..(n - 1) : ~Own(c, l[j])}
  BY <1>1, <1>2 DEF OthersIn
<1>4. p \notin A
  BY <1>3
<1>5. ASSUME NEW i \in A PROVE f[i] \in C /\ l[f[i]] = list[i]
  <2>1. i \in 1..n /\ ~Own(c, list[i]) /\ i # p
    BY <1>3, <1>4
  <2>2. CASE i < p
    <3>1. f[i] = i /\ i \in 1..(n - 1)
      BY <1>1, <2>1, <2>2
    <3>2. l[i] = list[i]
      BY <1>2, <2>2, <3>1
    <3> QED
      BY <1>3, <2>1, <3>1, <3>2
  <2>3. CASE ~(i < p)
    <3>1. f[i] = i - 1 /\ i - 1 \in 1..(n - 1) /\ ~(i - 1 < p) /\ (i - 1) + 1 = i
      BY <1>1, <2>1, <2>3
    <3>2. l[i - 1] = list[(i - 1) + 1]
      BY <1>2, <3>1
    <3>3. l[i - 1] = list[i]
      BY <3>1, <3>2
    <3> QED
      BY <1>3, <2>1, <3>1, <3>3
  <2> QED
    BY <2>2, <2>3
<1>6. ASSUME NEW j \in C PROVE \E i \in A : f[i] = j
  <2>1. j \in 1..(n - 1) /\ ~Own(c, l[j])
    BY <1>3
  <2>2. CASE j < p
    <3>1. j \in 1..n /\ l[j] = list[j]
      BY <1>1, <1>2, <2>1, <2>2
    <3>2. j \in A
      BY <1>3, <2>1, <3>1
    <3> QED
      BY <2>2, <3>2
  <2>3. CASE ~(j < p)
    <3>1. j + 1 \in 1..n /\ ~(j + 1 < p) /\ (j + 1) - 1 = j
      BY <1>1, <2>1, <2>3
    <3>2. l[j] = list[j + 1]
      BY <1>2, <2>1, <2>3
    <3>3. j + 1 \in A
      BY <1>3, <2>1, <3>1, <3>2
    <3>4. f[j + 1] = j
      BY <3>1, <3>3
    <3> QED
      BY <3>3, <3>4
  <2> QED
    BY <2>2, <2>3
<1>7. ASSUME NEW i \in A, NEW j \in A, i < j PROVE f[i] < f[j]
  <2>1. i \in 1..n /\ j \in 1..n /\ i # p /\ j # p
    BY <1>3, <1>4
  <2> QED
    BY <1>1, <1>7, <2>1
<1>8. f \in Surjection(A, C)
  <2>1. f \in [A -> C]
    BY <1>5
  <2> HIDE DEF f, A, C
  <2> QED
    BY <1>6, <2>1 DEF Surjection
<1> HIDE DEF f
<1>9. SameOthers(c, list, l)
  BY <1>5, <1>7, <1>8 DEF SameOthers
<1> QED
  BY <1>9 DEF l

\* A call that goes ahead without polkit names entries of its client only.
AuthInv ==
    \A c \in Clients :
        call[c] # None /\ call[c].allowed /\ ~call[c].polkit =>
            ~NeedsAuth(uid_of[c], call[c].req)

LEMMA AuthInvariant == Spec => []AuthInv
<1>1. Init => AuthInv
  BY DEF Init, AuthInv
<1>2. AuthInv /\ TypeOK /\ [Next]_vars => AuthInv'
  <2> SUFFICES ASSUME AuthInv, TypeOK, [Next]_vars, NEW d \in Clients,
                      call'[d] # None, call'[d].allowed, ~call'[d].polkit
               PROVE  ~NeedsAuth(uid_of[d], call'[d].req)
    BY DEF AuthInv
  <2>1. CASE call'[d] = call[d]
    BY <2>1 DEF AuthInv
  <2>2. ASSUME NEW c \in Clients, NEW r \in Requests, Call(c, r), call'[d] # call[d]
        PROVE  ~NeedsAuth(uid_of[d], call'[d].req)
    <3>1. c = d
      BY <2>2 DEF Call, TypeOK
    <3>2. call'[d] = [req |-> r, allowed |-> ~NeedsAuth(uid_of[d], r), polkit |-> FALSE]
      BY <2>2, <3>1 DEF Call, TypeOK
    <3>3. \A b : /\ [req |-> r, allowed |-> b, polkit |-> FALSE].req = r
                 /\ [req |-> r, allowed |-> b, polkit |-> FALSE].allowed = b
      OBVIOUS
    <3>4. call'[d].req = r /\ call'[d].allowed = ~NeedsAuth(uid_of[d], r)
      BY <3>2, <3>3, Zenon
    <3> QED
      BY <3>4, Zenon
  <2>3. ASSUME NEW c \in Clients, Authorize(c), call'[d] # call[d]
        PROVE  FALSE
    <3>1. c = d
      BY <2>3 DEF Authorize, TypeOK
    <3>2. call'[d] = [call[d] EXCEPT !.allowed = TRUE, !.polkit = TRUE] /\ call[d] # None
      BY <2>3, <3>1 DEF Authorize, TypeOK
    <3>3. call[d] \in CallType
      BY <3>2 DEF TypeOK, CallType
    <3> QED
      BY <3>2, <3>3 DEF CallType
  <2>4. ASSUME NEW c \in Clients, call' = [call EXCEPT ![c] = None], call'[d] # call[d]
        PROVE  FALSE
    BY <2>4 DEF TypeOK
  <2>5. ASSUME NEW c \in Clients, Refuse(c) \/ Add(c) \/ Replace(c) \/ Del(c)
        PROVE  call' = [call EXCEPT ![c] = None]
    BY <2>5 DEF Refuse, Add, Replace, Del, Done, Fail
  <2>6. CASE UNCHANGED vars
    BY <2>1, <2>6 DEF vars
  <2> QED
    BY <2>1, <2>2, <2>3, <2>4, <2>5, <2>6 DEF Next
<1> QED
  BY <1>1, <1>2, TypeCorrect, PTL DEF Spec

\* Without polkit, add, update and delete reach no entry of somebody else, not
\* even one that another call moved while this one was under way.
THEOREM OthersAlwaysUntouched == Spec => OthersUntouched
<1> DEFINE Untouched ==
      \A c \in Clients :
          call[c] # None /\ call'[c] = None /\ ~call[c].polkit => SameOthers(c, matches, matches')
<1>1. TypeOK /\ AuthInv /\ [Next]_vars => [Untouched]_vars
  <2> SUFFICES ASSUME TypeOK, AuthInv, Next,
                      NEW c \in Clients, call[c] # None, call'[c] = None, ~call[c].polkit
               PROVE  SameOthers(c, matches, matches')
    BY DEF vars
  <2>1. matches \in Seq(Match) /\ Len(matches) \in Nat /\ DOMAIN matches = 1..Len(matches)
    BY LenProperties DEF TypeOK
  <2>2. ASSUME matches' = matches PROVE SameOthers(c, matches, matches')
    <3>1. OthersIn(c, matches) \subseteq Nat
      BY <2>1 DEF OthersIn
    <3> QED
      BY <2>2, <3>1, SamePlaces
  <2>3. PICK d \in Clients :
          \/ \E r \in Requests : Call(d, r)
          \/ Authorize(d) \/ Refuse(d)
          \/ Add(d) \/ Replace(d) \/ Del(d)
    BY DEF Next
  <2>4. CASE (\E r \in Requests : Call(d, r)) \/ Authorize(d) \/ Refuse(d)
    BY <2>2, <2>4 DEF Call, Authorize, Refuse
  <2>5. ASSUME Add(d) \/ Replace(d) \/ Del(d) PROVE d = c
    <3>1. call' = [call EXCEPT ![d] = None]
      BY <2>5 DEF Add, Replace, Del, Done, Fail
    <3> QED
      BY <3>1 DEF TypeOK
  <2>6. ASSUME NEW op, Ready(c, op), NEW m \in Named(call[c].req) PROVE Own(c, m)
    <3>1. ~NeedsAuth(uid_of[c], call[c].req)
      BY <2>6 DEF AuthInv, Ready
    <3> QED
      BY <3>1 DEF NeedsAuth, Own
  <2>7. ASSUME NEW m, NEW n, IsEqTo(n, m), Own(c, m) PROVE Own(c, n)
    BY <2>7 DEF IsEqTo, Own, IsPerProcess
  <2>8. CASE Add(d)
    <3> DEFINE m == call[c].req.arg
    <3>1. Add(c) /\ Ready(c, "add")
      BY <2>5, <2>8 DEF Add
    <3>2. m \in Match /\ m \in Named(call[c].req)
      BY <3>1, ReadyRequest DEF Named, Ready
    <3>3. Own(c, m)
      BY <2>6, <3>1, <3>2
    <3>4. matches' = matches \/ matches' = Append(matches, m)
      BY <3>1 DEF Add, Done, Fail
    <3> HIDE DEF m
    <3> QED
      BY <2>1, <2>2, <3>2, <3>3, <3>4, SameAppend
  <2>9. CASE Replace(d)
    <3> DEFINE from == call[c].req.from
               to == call[c].req.to
               p == Position(matches, from)
    <3>1. Replace(c) /\ Ready(c, "update")
      BY <2>5, <2>9 DEF Replace
    <3>2. /\ from \in Match /\ from \in Named(call[c].req)
          /\ to \in Match /\ to \in Named(call[c].req)
      BY <3>1, ReadyRequest DEF Named, Ready
    <3>3. Own(c, from) /\ Own(c, to)
      BY <2>6, <3>1, <3>2
    <3>4. matches' = matches \/ (p # 0 /\ matches' = ReplaceAt(matches, p, to))
      BY <3>1 DEF Replace, Done, Fail
    <3>5. p # 0 => p \in 1..Len(matches) /\ Own(c, matches[p])
      BY <2>1, <2>7, <3>2, <3>3, PositionFinds
    <3> HIDE DEF p, from, to
    <3> QED
      BY <2>1, <2>2, <3>2, <3>3, <3>4, <3>5, SameReplace
  <2>10. CASE Del(d)
    <3> DEFINE m == call[c].req.arg
               p == Position(matches, m)
    <3>1. Del(c) /\ Ready(c, "delete")
      BY <2>5, <2>10 DEF Del
    <3>2. m \in Match /\ m \in Named(call[c].req)
      BY <3>1, ReadyRequest DEF Named, Ready
    <3>3. Own(c, m)
      BY <2>6, <3>1, <3>2
    <3>4. matches' = matches \/ (p # 0 /\ matches' = RemoveAt(matches, p))
      BY <3>1 DEF Del, Done, Fail
    <3>5. p # 0 => p \in 1..Len(matches) /\ Own(c, matches[p])
      BY <2>1, <2>7, <3>2, <3>3, PositionFinds
    <3> HIDE DEF p, m
    <3> QED
      BY <2>1, <2>2, <3>4, <3>5, SameRemove
  <2> QED
    BY <2>3, <2>4, <2>8, <2>9, <2>10
<1> QED
  BY <1>1, TypeCorrect, AuthInvariant, PTL DEF Spec, OthersUntouched
================================================================================
