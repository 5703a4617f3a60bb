------------------------------- MODULE Matches -------------------------------
(***************************************************************************)
(* The list of matches (Match and Matches in rebpf/lib.rs) and the D-Bus   *)
(* calls that change it (rebpf/dbus.rs).                                   *)
(*                                                                         *)
(* A call that needs authorization waits for polkit, and other calls come  *)
(* and go meanwhile; the change itself is made under the lock of the watch *)
(* channel, so it is one action.  Regular expressions are abstracted to    *)
(* whether they are well formed, and the size of a DFA to the number of its *)
(* patterns.                                                               *)
(***************************************************************************)
EXTENDS Naturals, Sequences, FiniteSets, SequencesExt

CONSTANTS
    Match,       \* matches that callers name: [kind, pattern, method, direction, uid]
    WellFormed,  \* those whose pattern parses
    Matching,    \* those whose pattern some text matches: [a&&b] parses, and matches none
    Limit,       \* number of patterns that exceeds DFA_MAX_SIZE, less one
    Clients,     \* D-Bus peers
    uid_of,      \* their uids
    None,
    MaxCalls     \* bound on the number of calls

Kinds == {"basename", "path", "ipv4", "dns"}
Directions == {"redirect", "bypass"}

ASSUME MatchesAssumption ==
    /\ \A m \in Match : m.kind \in Kinds /\ m.direction \in Directions /\ m.uid \in Nat
    /\ WellFormed \subseteq Match /\ Matching \subseteq WellFormed
    /\ uid_of \in [Clients -> Nat]
    /\ Limit \in Nat /\ MaxCalls \in Nat

VARIABLES
    matches, dns_count, generation,
    call,    \* the call of each client that is under way, or None
    seen,    \* history: the lists that each generation has named
    calls

vars == <<matches, dns_count, generation, call, seen, calls>>

-----------------------------------------------------------------------------
(* Match *)

DnsKinds == {"dns"}
ProcessKinds == {"basename", "path"}
IsDns(m) == m.kind \in DnsKinds
IsPerProcess(m) == m.kind \in ProcessKinds

\* The method is not compared.
IsEqTo(m, r) ==
    /\ m.kind = r.kind
    /\ m.pattern = r.pattern
    /\ m.direction = r.direction
    /\ m.uid = r.uid

DnsCount(list) == Cardinality({i \in DOMAIN list : IsDns(list[i])})

\* The three automata: one for paths and, for domains, one per direction.  Each
\* is named by the kinds and directions of the matches it is built from.
PathDfa == ProcessKinds \X Directions
DnsDfa(direction) == DnsKinds \X {direction}

\* The entries that a DFA is built from: method_regex leaves subnets and empty
\* patterns out.
Compiled(list, dfa) ==
    {i \in DOMAIN list :
        /\ <<list[i].kind, list[i].direction>> \in dfa
        /\ list[i].method # "subnet" /\ list[i].pattern # ""}

\* build_dfa of these entries.
BuildsDfa(list, dfa) ==
    /\ \A i \in Compiled(list, dfa) : list[i] \in WellFormed
    /\ Cardinality(Compiled(list, dfa)) <= Limit

\* extract() refuses a path DFA without a final state.
HasFinal(list) == \E i \in Compiled(list, PathDfa) : list[i] \in Matching

\* try_parse of m with the list as it is.
TryParse(list, m) ==
    LET all == Append(list, m) IN
    IF IsPerProcess(m) THEN BuildsDfa(all, PathDfa) /\ HasFinal(all)
    ELSE IF IsDns(m) THEN \A d \in Directions : BuildsDfa(all, DnsDfa(d))
    ELSE m.method \in {"full", "subnet"} /\ m \in WellFormed

\* The first entry that is equal to m, 0 if there is none.
Position(list, m) == SelectInSeq(list, LAMBDA x : IsEqTo(x, m))

-----------------------------------------------------------------------------
Requests ==
    [op : {"add", "delete"}, arg : Match] \cup [op : {"update"}, from : Match, to : Match]

\* The matches that a call names.
Named(r) == IF r.op = "update" THEN {r.from, r.to} ELSE {r.arg}

\* A peer other than root that names a match of somebody else, or one that is
\* not about processes, must be authorized.  A slip that only looks at the
\* last match named.
NeedsAuthLast(u, r) ==
    LET m == IF r.op = "update" THEN r.to ELSE r.arg
    IN  u # 0 /\ (u # m.uid \/ ~IsPerProcess(m))
NeedsAuth(u, r) == u # 0 /\ \E m \in Named(r) : u # m.uid \/ ~IsPerProcess(m)

\* The state that load_state returns for a fresh installation.
Init ==
    /\ matches = << >> /\ dns_count = 0 /\ generation = 0
    /\ call = [c \in Clients |-> None]
    /\ seen = {<<0, << >>>>}
    /\ calls = 0

Call(c, r) ==
    /\ calls < MaxCalls
    /\ call[c] = None
    /\ call' = [call EXCEPT ![c] = [req |-> r, allowed |-> ~NeedsAuth(uid_of[c], r), polkit |-> FALSE]]
    /\ calls' = calls + 1
    /\ UNCHANGED <<matches, dns_count, generation, seen>>

\* polkit answers.
Authorize(c) ==
    /\ call[c] # None
    /\ ~call[c].allowed
    /\ call' = [call EXCEPT ![c].allowed = TRUE, ![c].polkit = TRUE]
    /\ UNCHANGED <<matches, dns_count, generation, seen, calls>>

Refuse(c) ==
    /\ call[c] # None
    /\ ~call[c].allowed
    /\ call' = [call EXCEPT ![c] = None]
    /\ UNCHANGED <<matches, dns_count, generation, seen, calls>>

\* The call is over; on success the list is l and the counter n.
Done(c, l, n) ==
    /\ matches' = l /\ dns_count' = n
    /\ generation' = generation + 1
    /\ seen' = seen \cup {<<generation + 1, l>>}
    /\ call' = [call EXCEPT ![c] = None]
    /\ UNCHANGED calls

Fail(c) ==
    /\ call' = [call EXCEPT ![c] = None]
    /\ UNCHANGED <<matches, dns_count, generation, seen, calls>>

Ready(c, op) == call[c] # None /\ call[c].allowed /\ call[c].req.op = op

\* A boolean cast to i32.
B(b) == IF b THEN 1 ELSE 0

\* A slip: the counter only changes when matches are replaced or deleted.
AddUncounted(c) ==
    LET m == call[c].req.arg IN
    /\ Ready(c, "add")
    /\ IF TryParse(matches, m)
       THEN Done(c, Append(matches, m), dns_count)
       ELSE Fail(c)

Add(c) ==
    LET m == call[c].req.arg IN
    /\ Ready(c, "add")
    /\ IF TryParse(matches, m)
       THEN Done(c, Append(matches, m), dns_count + B(IsDns(m)))
       ELSE Fail(c)

\* Slips: the new match is not parsed; the generation stays.
ReplaceUnparsed(c) ==
    LET from == call[c].req.from
        to == call[c].req.to
        pos == Position(matches, from)
    IN
    /\ Ready(c, "update")
    /\ IF TryParse(matches, from) /\ pos # 0
       THEN Done(c, ReplaceAt(matches, pos, to), dns_count + B(IsDns(to)) - B(IsDns(from)))
       ELSE Fail(c)
ReplaceQuietly(c) ==
    LET from == call[c].req.from
        to == call[c].req.to
        pos == Position(matches, from)
    IN
    /\ Ready(c, "update")
    /\ TryParse(matches, from) /\ TryParse(matches, to) /\ pos # 0
    /\ matches' = ReplaceAt(matches, pos, to)
    /\ dns_count' = dns_count + B(IsDns(to)) - B(IsDns(from))
    /\ seen' = seen \cup {<<generation, matches'>>}
    /\ call' = [call EXCEPT ![c] = None]
    /\ UNCHANGED <<generation, calls>>

Replace(c) ==
    LET from == call[c].req.from
        to == call[c].req.to
        pos == Position(matches, from)
    IN
    /\ Ready(c, "update")
    /\ IF TryParse(matches, from) /\ TryParse(matches, to) /\ pos # 0
       THEN Done(c, ReplaceAt(matches, pos, to), dns_count + B(IsDns(to)) - B(IsDns(from)))
       ELSE Fail(c)

\* A slip: the counter is left to the next start's update().
DelUncounted(c) ==
    LET m == call[c].req.arg
        pos == Position(matches, m)
    IN
    /\ Ready(c, "delete")
    /\ IF TryParse(matches, m) /\ pos # 0
       THEN Done(c, RemoveAt(matches, pos), dns_count)
       ELSE Fail(c)

Del(c) ==
    LET m == call[c].req.arg
        pos == Position(matches, m)
    IN
    /\ Ready(c, "delete")
    /\ IF TryParse(matches, m) /\ pos # 0
       THEN Done(c, RemoveAt(matches, pos), dns_count - B(IsDns(matches[pos])))
       ELSE Fail(c)

-----------------------------------------------------------------------------
Next ==
    \E c \in Clients :
        \/ \E r \in Requests : Call(c, r)
        \/ Authorize(c) \/ Refuse(c)
        \/ Add(c) \/ Replace(c) \/ Del(c)

Spec == Init /\ [][Next]_vars

-----------------------------------------------------------------------------
(* Properties *)

\* Types of all variables.
TypeOK ==
    /\ matches \in Seq(Match)
    /\ dns_count \in Nat /\ generation \in Nat /\ calls \in Nat
    /\ call \in [Clients -> [req : Requests, allowed : BOOLEAN, polkit : BOOLEAN] \cup {None}]

\* The counter that add, replace and del keep up to date, on which enable_dns
\* and the default route depend, is the number of dns matches.
CountExact == dns_count = DnsCount(matches)

\* A list that was accepted entry by entry always compiles as a whole, so
\* bpf_reload and watch_dns_routes find no pattern they cannot build: no order
\* of additions, updates and deletions gets past the limit of a DFA, which the
\* two directions of dns matches have each for themselves, or keeps a pattern
\* that does not parse.  (A list without a process match that can match is
\* refused by extract all the same: bpf_reload then goes on without a DFA.)
ListCompiles == \A dfa \in {PathDfa} \cup {DnsDfa(d) : d \in Directions} : BuildsDfa(matches, dfa)

\* A generation names one list: equal generations, which make bpf_reload keep
\* the DFA it has, mean equal matches.
GenerationNames == \A p, q \in seen : p[1] = q[1] => p = q

\* The entries that a client may change without being asked.
Own(c, m) == uid_of[c] = 0 \/ (m.uid = uid_of[c] /\ IsPerProcess(m))

\* The positions of the other entries, and that two lists have the same ones
\* in the same order.
OthersIn(c, list) == {i \in DOMAIN list : ~Own(c, list[i])}
SameOthers(c, list, list2) ==
    \E f \in Surjection(OthersIn(c, list), OthersIn(c, list2)) :
        /\ \A i \in OthersIn(c, list) : list2[f[i]] = list[i]
        /\ \A i, j \in OthersIn(c, list) : i < j => f[i] < f[j]

\* A call that polkit did not authorize leaves the entries of others alone,
\* in their order, whatever else changed the list while it was under way.
OthersUntouched ==
    [][\A c \in Clients :
          call[c] # None /\ call'[c] = None /\ ~call[c].polkit =>
              SameOthers(c, matches, matches')]_vars
=============================================================================
