------------------------------ MODULE DfaTables ------------------------------
(***************************************************************************)
(* How the verdicts of match states are stored and looked up               *)
(* (build_path_dfa in rebpf/lib.rs, extract and encode_dfa in              *)
(* rebpf/dfa.rs, needs_mark_uncached and dump_iter_file in rebpf/bpf.c).   *)
(*                                                                         *)
(* State ids are multiples of the stride, and the match states are         *)
(* contiguous.  extract visits every id in between as well, which          *)
(* regex-automata takes for the match state it falls into.  build_dfa      *)
(* leaves the match kind at LeftmostFirst, so that a match state reports   *)
(* one pattern, the first of those that end there.                         *)
(***************************************************************************)
EXTENDS Naturals, Sequences, FiniteSetsExt

CONSTANTS
    Lists,   \* the lists of matches: sequences of Match
    NStates, \* number of match states
    Stride,  \* distance of two state ids
    FinMin,  \* id of the first match state
    Uids     \* uids of processes

\* path: the match is of kind basename or path and has a regex.
Match == [direction : {"redirect", "bypass"}, uid : Nat, path : BOOLEAN]

ASSUME DfaAssumption ==
    /\ NStates \in Nat \ {0} /\ Stride \in Nat \ {0} /\ FinMin \in Nat
    /\ Uids \subseteq Nat
    /\ \A l \in Lists : l \in Seq(Match)

VARIABLES
    matches,    \* the matches
    ends,       \* for each match state the path matches whose regex ends there
    cursor,     \* the match that build_path_dfa comes to next
    pat_id_map, \* for each pattern of the DFA the match it was made from
    tables,     \* the slices and the three tables that go into the arena
    res         \* what a lookup returned

vars == <<matches, ends, cursor, pat_id_map, tables, res>>

Empty == [slices |-> << >>, redirect_table |-> << >>, uid_table |-> << >>,
          match_id_table |-> << >>]
None == [redirect |-> "none"]
FinMax == FinMin + (NStates - 1) * Stride
StateIds == {FinMin + n * Stride : n \in 0 .. NStates - 1}
PathMatches == {m \in 1 .. Len(matches) : matches[m].path}

\* The match state that an id falls into, and the pattern it reports.
StateOf(id) == (id - FinMin) \div Stride + 1
PatternOf(id) == Min({p \in DOMAIN pat_id_map : pat_id_map[p] \in ends[StateOf(id)]})

-----------------------------------------------------------------------------
\* The input is any list of matches with a match for paths (without one
\* extract refuses the DFA), and any match states over their regexes.
Init ==
    /\ matches \in {l \in Lists : \E m \in 1 .. Len(l) : l[m].path}
    /\ ends \in [1 .. NStates -> (SUBSET PathMatches) \ {{}}]
    /\ cursor = 1
    /\ pat_id_map = << >>
    /\ tables = Empty
    /\ res = None

\* build_path_dfa, one round of its loop: a dns or ipv4 match has no pattern.
PushPattern ==
    /\ cursor <= Len(matches)
    /\ pat_id_map' = IF matches[cursor].path THEN Append(pat_id_map, cursor) ELSE pat_id_map
    /\ cursor' = cursor + 1
    /\ UNCHANGED <<matches, ends, tables, res>>

\* extract: pats has an entry for every id from fin_min to fin_max.
Entries == FinMax - FinMin + 1
Pats == [n \in 1 .. Entries |-> <<PatternOf(FinMin + n - 1)>>]

\* The matches of an entry's patterns; a slip that takes patterns for matches.
MatchIdsUnmapped(pats) == pats
MatchIds(pats) == [n \in DOMAIN pats |-> pat_id_map[pats[n]]]

\* encode_dfa, one round of its loop: the patterns of the next entry go to the
\* end of the three tables, and slices says where they start and how many
\* they are.
EncodeEntry ==
    LET ids == MatchIds(Pats[Len(tables.slices) + 1]) IN
    /\ cursor > Len(matches)
    /\ Len(tables.slices) < Entries
    /\ tables' =
          [slices |-> Append(tables.slices, [off |-> Len(tables.uid_table), len |-> Len(ids)]),
           redirect_table |-> tables.redirect_table \o [n \in DOMAIN ids |-> matches[ids[n]].direction],
           uid_table |-> tables.uid_table \o [n \in DOMAIN ids |-> matches[ids[n]].uid],
           match_id_table |-> tables.match_id_table \o ids]
    /\ UNCHANGED <<matches, ends, cursor, pat_id_map, res>>

\* The uid test of the loop in needs_mark_uncached; a slip without the
\* matches of root, which are for everyone.
UidMatchesOnly(entry, uid) == entry = uid
UidMatches(entry, uid) == entry = 0 \/ entry = uid

\* The direction that needs_mark_uncached reads: by the offset of the state,
\* not by that of its slice.  A slip that takes the state's number.
DirectionUnscaled(off) == tables.redirect_table[off \div Stride + 1]
Direction(off) == tables.redirect_table[off + 1]

\* needs_mark_uncached, once the tables are in place and the walk has ended in
\* a match state.
NeedsMark(id, uid) ==
    LET off == id - FinMin
        s == tables.slices[off + 1]
        matched == \E n \in 0 .. s.len - 1 : UidMatches(tables.uid_table[s.off + n + 1], uid)
    IN
    /\ Len(tables.slices) = Entries /\ res = None
    /\ res' = [redirect |-> IF matched THEN Direction(off) ELSE "none",
               id |-> id, uid |-> uid, table_off |-> s.off, table_len |-> s.len]
    /\ UNCHANGED <<matches, ends, cursor, pat_id_map, tables>>

Next == PushPattern \/ EncodeEntry \/ \E id \in StateIds, uid \in Uids : NeedsMark(id, uid)

Spec == Init /\ [][Next]_vars

-----------------------------------------------------------------------------
(* Properties *)

Looked == res # None

\* The first match of the list whose regex ends in the state of the lookup.
FirstMatch == Min(ends[StateOf(res.id)])

\* A process gets a verdict exactly when the first match that its path fits is
\* for everyone or for its uid; a later one is not consulted.
MatchedExactly ==
    Looked => (res.redirect # "none" <=> matches[FirstMatch].uid \in {0, res.uid})

\* What dump_iter_file reads from match_id_table is the place in the list of
\* that match, however many dns and ipv4 matches stand before it.
NamesItsMatch ==
    Looked => SubSeq(tables.match_id_table, res.table_off + 1, res.table_off + res.table_len)
                  = <<FirstMatch>>

\* README: the path is attributed "to the original match, which can be deduced
\* from the last visited state": the verdict is the direction of that match,
\* though redirect_table is indexed by state and the other tables by slice.
VerdictOfMatch ==
    Looked /\ res.redirect # "none" => res.redirect = matches[FirstMatch].direction
=============================================================================
