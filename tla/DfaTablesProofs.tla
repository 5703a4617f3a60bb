--------------------------- MODULE DfaTablesProofs ---------------------------
(***************************************************************************)
(* Proofs about DfaTables: for any list of matches, any number of match    *)
(* states, any stride and any regexes, the verdict that the filter looks   *)
(* up is the one of the first match of the list that ends in the state.    *)
(***************************************************************************)
EXTENDS DfaTables, SequenceLemmas

\* The ids between the match states.
Span == (NStates - 1) * Stride

LEMMA SpanEntries == Span \in Nat /\ Entries = Span + 1
<1>1. NStates - 1 \in Nat /\ Stride \in Nat /\ FinMin \in Nat
  BY DfaAssumption
<1>2. Span \in Nat
  <2>1. \A a, b \in Nat : a * b \in Nat
    OBVIOUS
  <2> QED
    BY <1>1, <2>1 DEF Span
<1>3. FinMax = FinMin + Span
  BY DEF FinMax, Span
<1> QED
  BY <1>1, <1>2, <1>3 DEF Entries

\* The match states are among the ids that have an entry.
LEMMA StateInSpan ==
    ASSUME NEW id \in StateIds
    PROVE  id \in Nat /\ id - FinMin \in 0 .. Span
<1>1. PICK i \in 0 .. NStates - 1 : id = FinMin + i * Stride
  BY DEF StateIds
<1>2. NStates - 1 \in Nat /\ Stride \in Nat /\ FinMin \in Nat /\ i \in Nat /\ i <= NStates - 1
  BY DfaAssumption
<1>3. \A a, b, c \in Nat : a <= b => a * c \in Nat /\ a * c <= b * c
  OBVIOUS
<1>4. i * Stride \in Nat /\ i * Stride <= Span
  BY <1>2, <1>3 DEF Span
<1>5. id \in Nat /\ id - FinMin = i * Stride
  BY <1>1, <1>2, <1>4
<1> QED
  BY <1>4, <1>5, SpanEntries

\* The match state that an id falls into.
LEMMA StateOfId ==
    ASSUME NEW n \in 0 .. Span
    PROVE  n \div Stride + 1 \in 1 .. NStates
<1>1. NStates - 1 \in Nat /\ Stride \in Nat \ {0} /\ NStates \in Nat
  BY DfaAssumption
<1>2. n \in Nat /\ n <= (NStates - 1) * Stride
  BY <1>1, SpanEntries DEF Span
<1>3. \A a, b \in Nat, s \in Nat \ {0} : a <= b * s => a \div s \in Nat /\ a \div s <= b
  OBVIOUS
<1>4. n \div Stride \in Nat /\ n \div Stride <= NStates - 1
  BY <1>1, <1>2, <1>3
<1> QED
  BY <1>1, <1>4

-----------------------------------------------------------------------------
\* What the loop of build_path_dfa has done so far: the patterns stand for the
\* path matches it has passed, in the order of the list.
Mapped ==
    /\ cursor \in 1 .. Len(matches) + 1
    /\ pat_id_map \in Seq(Nat)
    /\ \A p \in 1 .. Len(pat_id_map) : pat_id_map[p] \in PathMatches /\ pat_id_map[p] < cursor
    /\ \A p, q \in 1 .. Len(pat_id_map) : p < q => pat_id_map[p] < pat_id_map[q]
    /\ \A m \in PathMatches : m < cursor => \E p \in 1 .. Len(pat_id_map) : pat_id_map[p] = m
    /\ cursor <= Len(matches) => tables = Empty /\ res = None

Input ==
    /\ matches \in Seq(Match)
    /\ ends \in [1 .. NStates -> (SUBSET PathMatches) \ {{}}]

\* The first match of the k-th entry.
Entry(k) == Min(ends[StateOf(FinMin + k - 1)])

LEMMA EntryType ==
    ASSUME Input, NEW k \in 1 .. Span + 1
    PROVE  /\ Entry(k) \in 1 .. Len(matches) /\ matches[Entry(k)] \in Match
           /\ ends[StateOf(FinMin + k - 1)] \in SUBSET PathMatches
           /\ Entry(k) \in ends[StateOf(FinMin + k - 1)]
           /\ \A m \in ends[StateOf(FinMin + k - 1)] : Entry(k) <= m
<1>1. k - 1 \in 0 .. Span /\ (FinMin + k - 1) - FinMin = k - 1
  BY SpanEntries, DfaAssumption
<1>2. StateOf(FinMin + k - 1) \in 1 .. NStates
  BY <1>1, StateOfId DEF StateOf
<1> DEFINE E == ends[StateOf(FinMin + k - 1)]
<1>3. E \in SUBSET PathMatches /\ E # {}
  BY <1>2 DEF Input
<1>4. Len(matches) \in Nat
  BY LenProperties DEF Input
<1>5. E \in SUBSET (1 .. Len(matches)) /\ E \in SUBSET Nat
  BY <1>3, <1>4 DEF PathMatches
<1>6. Min(E) \in E /\ \A m \in E : Min(E) <= m
  BY <1>3, <1>5, MinIsLeast
<1>7. Entry(k) = Min(E)
  BY DEF Entry
<1> HIDE DEF E
<1>8. Entry(k) \in 1 .. Len(matches)
  BY <1>5, <1>6, <1>7
<1>9. matches[Entry(k)] \in Match
  BY <1>8, ElementOfSeq DEF Input
<1> QED
  BY <1>3, <1>6, <1>7, <1>8, <1>9 DEF E

\* The pattern that a match state reports is made from the first match that
\* ends there: the map keeps the order of the list.
LEMMA EntryIds ==
    ASSUME Input, Mapped, cursor > Len(matches), NEW k \in 1 .. Span + 1
    PROVE  MatchIds(Pats[k]) = <<Entry(k)>>
<1> DEFINE id == FinMin + k - 1
           E == ends[StateOf(id)]
           H == {p \in DOMAIN pat_id_map : pat_id_map[p] \in E}
           m == Entry(k)
           h == Min(H)
<1>1. /\ m \in 1 .. Len(matches) /\ E \in SUBSET PathMatches /\ m \in E /\ \A n \in E : m <= n
  BY EntryType
<1>2. Len(matches) \in Nat /\ Len(pat_id_map) \in Nat /\ DOMAIN pat_id_map = 1 .. Len(pat_id_map)
  BY LenProperties DEF Input, Mapped
<1>3. PICK p \in 1 .. Len(pat_id_map) : pat_id_map[p] = m
  <2>1. m < cursor /\ m \in PathMatches
    BY <1>1, <1>2 DEF Mapped
  <2> QED
    BY <2>1 DEF Mapped
<1>4. H \in SUBSET Nat /\ p \in H
  BY <1>1, <1>2, <1>3
<1>5. h \in H /\ h <= p
  BY <1>4, MinIsLeast
<1>6. h \in 1 .. Len(pat_id_map) /\ pat_id_map[h] \in E
  BY <1>2, <1>5
<1>7. pat_id_map[h] \in Nat /\ pat_id_map[p] \in Nat
  BY <1>3, <1>6, ElementOfSeq DEF Mapped
<1> HIDE DEF h, H, E, m
<1>8. pat_id_map[h] <= pat_id_map[p]
  <2>1. CASE h = p
    BY <1>7, <2>1
  <2>2. CASE h < p
    BY <1>3, <1>6, <1>7, <2>2 DEF Mapped
  <2> QED
    BY <1>2, <1>5, <1>6, <2>1, <2>2
<1>9. pat_id_map[h] = m
  BY <1>1, <1>3, <1>6, <1>7, <1>8
<1>10. Pats[k] = <<h>>
  <2>1. Pats[k] = <<PatternOf(id)>>
    BY SpanEntries DEF Pats
  <2>2. PatternOf(id) = h
    BY DEF PatternOf, h, H, E
  <2> QED
    BY <2>1, <2>2
<1>11. MatchIds(<<h>>) = <<pat_id_map[h]>>
  BY DEF MatchIds
<1> QED
  BY <1>9, <1>10, <1>11 DEF m

-----------------------------------------------------------------------------
\* What encode_dfa has written so far.
Dirs == {"redirect", "bypass"}
Slice(k) == [off |-> k - 1, len |-> 1]

Layout ==
    /\ tables.slices \in Seq([off : Nat, len : Nat]) /\ tables.redirect_table \in Seq(Dirs)
    /\ tables.uid_table \in Seq(Nat) /\ tables.match_id_table \in Seq(Nat)
    /\ Len(tables.slices) <= Entries
    /\ Len(tables.redirect_table) = Len(tables.slices)
    /\ Len(tables.uid_table) = Len(tables.slices)
    /\ Len(tables.match_id_table) = Len(tables.slices)
    /\ \A k \in 1 .. Len(tables.slices) :
          /\ tables.slices[k] = Slice(k)
          /\ tables.redirect_table[k] = matches[Entry(k)].direction
          /\ tables.uid_table[k] = matches[Entry(k)].uid
          /\ tables.match_id_table[k] = Entry(k)

\* What a lookup reads.
EntryOf(id) == id - FinMin + 1
Result ==
    res # None =>
        LET k == EntryOf(res.id) IN
        /\ Len(tables.slices) = Entries /\ res.id \in StateIds
        /\ res.table_off = k - 1 /\ res.table_len = 1
        /\ res.redirect = IF UidMatches(matches[Entry(k)].uid, res.uid)
                          THEN matches[Entry(k)].direction ELSE "none"

Inv == Input /\ Mapped /\ Layout /\ Result

\* A table that gets one more value.
Grown(u, t, x, S) ==
    /\ u \in Seq(S) /\ Len(u) = Len(t) + 1
    /\ \A k \in 1 .. Len(t) : u[k] = t[k]
    /\ u[Len(t) + 1] = x

LEMMA TableGrows == \A S : \A t \in Seq(S), x \in S : Grown(Append(t, x), t, x, S) /\ Grown(t \o <<x>>, t, x, S)
<1> SUFFICES ASSUME NEW S, NEW t \in Seq(S), NEW x \in S
             PROVE  Grown(Append(t, x), t, x, S) /\ Grown(t \o <<x>>, t, x, S)
  OBVIOUS
<1>1. Grown(Append(t, x), t, x, S)
  BY AppendProperties DEF Grown
<1>2. Append(t, x) = t \o <<x>>
  BY AppendIsConcat
<1> QED
  BY <1>1, <1>2

\* One round of the loop of encode_dfa.
LEMMA EncodeKeepsLayout ==
    ASSUME Input, Mapped, Layout, EncodeEntry
    PROVE  Layout'
<1> DEFINE n == Len(tables.slices)
           m == Entry(n + 1)
<1>1. n \in Nat /\ n + 1 \in 1 .. Span + 1 /\ Entries = Span + 1
  <2>1. n \in Nat /\ n < Entries
    BY LenProperties DEF Layout, EncodeEntry
  <2> HIDE DEF n
  <2> QED
    BY <2>1, SpanEntries
<1>2. MatchIds(Pats[n + 1]) = <<m>>
  BY <1>1, EntryIds DEF EncodeEntry
<1>3. m \in 1 .. Len(matches) /\ matches[m] \in Match
  BY <1>1, EntryType
<1>4. m \in Nat /\ matches[m].direction \in Dirs /\ matches[m].uid \in Nat
  <2>1. Len(matches) \in Nat
    BY LenProperties DEF Input
  <2> HIDE DEF m
  <2> QED
    BY <1>3, <2>1 DEF Match, Dirs
<1>5. /\ tables'.slices = Append(tables.slices, [off |-> Len(tables.uid_table), len |-> Len(<<m>>)])
      /\ tables'.redirect_table = tables.redirect_table \o [j \in DOMAIN <<m>> |-> matches[<<m>>[j]].direction]
      /\ tables'.uid_table = tables.uid_table \o [j \in DOMAIN <<m>> |-> matches[<<m>>[j]].uid]
      /\ tables'.match_id_table = tables.match_id_table \o <<m>>
  <2> HIDE DEF m
  <2> QED
    BY <1>2 DEF EncodeEntry
<1> HIDE DEF m
<1>6. /\ [j \in DOMAIN <<m>> |-> matches[<<m>>[j]].direction] = <<matches[m].direction>>
      /\ [j \in DOMAIN <<m>> |-> matches[<<m>>[j]].uid] = <<matches[m].uid>>
      /\ Len(<<m>>) = 1
  OBVIOUS
<1>7. [off |-> Len(tables.uid_table), len |-> Len(<<m>>)] = Slice(n + 1)
  BY <1>1, <1>6 DEF Layout, Slice
<1>8. Slice(n + 1) \in [off : Nat, len : Nat]
  BY <1>1 DEF Slice
<1>9. Grown(tables'.slices, tables.slices, Slice(n + 1), [off : Nat, len : Nat])
  BY <1>5, <1>7, <1>8, TableGrows, Zenon DEF Layout
<1>10. Grown(tables'.redirect_table, tables.redirect_table, matches[m].direction, Dirs)
  BY <1>4, <1>5, <1>6, TableGrows, Zenon DEF Layout
<1>11. Grown(tables'.uid_table, tables.uid_table, matches[m].uid, Nat)
  BY <1>4, <1>5, <1>6, TableGrows, Zenon DEF Layout
<1>12. Grown(tables'.match_id_table, tables.match_id_table, m, Nat)
  BY <1>4, <1>5, TableGrows, Zenon DEF Layout
<1>13. UNCHANGED <<matches, ends>>
  BY DEF EncodeEntry
<1>14. \A k : Entry(k)' = Entry(k)
  BY <1>13 DEF Entry, StateOf
<1>15. ASSUME NEW k \in 1 .. n + 1
       PROVE  /\ tables'.slices[k] = Slice(k)
              /\ tables'.redirect_table[k] = matches[Entry(k)].direction
              /\ tables'.uid_table[k] = matches[Entry(k)].uid
              /\ tables'.match_id_table[k] = Entry(k)
  <2>1. CASE k = n + 1
    BY <1>9, <1>10, <1>11, <1>12, <2>1 DEF Grown, Layout, m
  <2>2. CASE k \in 1 .. n
    BY <1>9, <1>10, <1>11, <1>12, <2>2 DEF Grown, Layout
  <2> QED
    BY <1>1, <2>1, <2>2
<1>16. /\ Len(tables'.slices) = n + 1 /\ Len(tables'.redirect_table) = n + 1
       /\ Len(tables'.uid_table) = n + 1 /\ Len(tables'.match_id_table) = n + 1
  BY <1>9, <1>10, <1>11, <1>12 DEF Grown, Layout
<1>17. n + 1 <= Entries /\ Entries' = Entries
  BY <1>1, SpanEntries DEF Entries, FinMax
<1>18. \A k \in 1 .. Len(tables'.slices) :
          /\ tables'.slices[k] = Slice(k)
          /\ tables'.redirect_table[k] = matches'[Entry(k)'].direction
          /\ tables'.uid_table[k] = matches'[Entry(k)'].uid
          /\ tables'.match_id_table[k] = Entry(k)'
  BY <1>13, <1>14, <1>15, <1>16, Zenon
<1>19. /\ tables'.slices \in Seq([off : Nat, len : Nat]) /\ tables'.redirect_table \in Seq(Dirs)
       /\ tables'.uid_table \in Seq(Nat) /\ tables'.match_id_table \in Seq(Nat)
  BY <1>9, <1>10, <1>11, <1>12, Zenon DEF Grown
<1> QED
  BY <1>16, <1>17, <1>18, <1>19 DEF Layout

\* One round of the loop of build_path_dfa.
LEMMA PushKeepsMap ==
    ASSUME Input, Mapped, PushPattern
    PROVE  Mapped'
<1>1. Len(matches) \in Nat /\ Len(pat_id_map) \in Nat
  BY LenProperties DEF Input, Mapped
<1>2. /\ cursor \in 1 .. Len(matches) /\ cursor' = cursor + 1
      /\ UNCHANGED <<matches, ends, tables, res>> /\ PathMatches' = PathMatches
      /\ tables = Empty /\ res = None
  BY <1>1 DEF PushPattern, Mapped, PathMatches
<1>3. CASE matches[cursor].path
  <2>1. cursor \in PathMatches /\ cursor \in Nat /\ pat_id_map' = Append(pat_id_map, cursor)
    BY <1>1, <1>2, <1>3 DEF PathMatches, PushPattern
  <2> DEFINE n == Len(pat_id_map)
  <2>2. /\ pat_id_map' \in Seq(Nat) /\ Len(pat_id_map') = n + 1 /\ pat_id_map'[n + 1] = cursor
        /\ \A p \in 1 .. n : pat_id_map'[p] = pat_id_map[p]
    BY <2>1, AppendProperties DEF Mapped
  <2>3. \A p \in 1 .. n : pat_id_map[p] \in Nat
    BY ElementOfSeq DEF Mapped
  <2> HIDE DEF n
  <2>4. \A p \in 1 .. n + 1 : pat_id_map'[p] \in PathMatches /\ pat_id_map'[p] < cursor + 1
    <3>1. ASSUME NEW p \in 1 .. n + 1
          PROVE  pat_id_map'[p] \in PathMatches /\ pat_id_map'[p] < cursor + 1
      <4>1. CASE p = n + 1
        BY <1>1, <2>1, <2>2, <4>1
      <4>2. CASE p \in 1 .. n
        <5>1. pat_id_map[p] \in PathMatches /\ pat_id_map[p] < cursor
          BY <4>2 DEF Mapped, n
        <5>2. pat_id_map[p] \in Nat /\ cursor \in Nat /\ pat_id_map'[p] = pat_id_map[p]
          BY <2>1, <2>2, <2>3, <4>2
        <5> QED
          BY <5>1, <5>2
      <4> QED
        BY <1>1, <4>1, <4>2 DEF n
    <3> QED
      BY <3>1
  <2>5. \A p, q \in 1 .. n + 1 : p < q => pat_id_map'[p] < pat_id_map'[q]
    <3>1. ASSUME NEW p \in 1 .. n + 1, NEW q \in 1 .. n + 1, p < q
          PROVE  pat_id_map'[p] < pat_id_map'[q]
      <4>1. p \in 1 .. n /\ (q = n + 1 \/ q \in 1 .. n)
        BY <1>1, <3>1 DEF n
      <4> QED
        BY <2>2, <3>1, <4>1 DEF Mapped, n
    <3> QED
      BY <3>1
  <2>6. \A m \in PathMatches : m < cursor + 1 => \E p \in 1 .. n + 1 : pat_id_map'[p] = m
    <3>1. ASSUME NEW m \in PathMatches, m < cursor + 1
          PROVE  \E p \in 1 .. n + 1 : pat_id_map'[p] = m
      <4>1. m \in Nat /\ (m = cursor \/ m < cursor)
        BY <1>1, <2>1, <3>1 DEF PathMatches
      <4>2. CASE m = cursor
        <5>1. n + 1 \in 1 .. n + 1
          BY <1>1 DEF n
        <5> QED
          BY <2>2, <4>2, <5>1
      <4>3. CASE m < cursor
        <5>1. PICK p \in 1 .. n : pat_id_map[p] = m
          BY <4>3 DEF Mapped, n
        <5>2. p \in 1 .. n + 1
          BY <1>1 DEF n
        <5> QED
          BY <2>2, <5>1, <5>2
      <4> QED
        BY <4>1, <4>2, <4>3
    <3> QED
      BY <3>1
  <2>7. cursor + 1 \in 1 .. Len(matches) + 1
    BY <1>1, <1>2
  <2> QED
    BY <1>2, <2>2, <2>4, <2>5, <2>6, <2>7 DEF Mapped
<1>4. CASE ~matches[cursor].path
  <2>1. cursor \notin PathMatches /\ pat_id_map' = pat_id_map
    BY <1>4 DEF PathMatches, PushPattern
  <2>2. \A m \in PathMatches : m < cursor + 1 => m < cursor
    BY <1>1, <1>2, <2>1 DEF PathMatches
  <2>3. \A p \in 1 .. Len(pat_id_map) : pat_id_map[p] < cursor + 1
    <3>1. \A p \in 1 .. Len(pat_id_map) : pat_id_map[p] \in Nat /\ pat_id_map[p] < cursor
      BY ElementOfSeq DEF Mapped
    <3> QED
      BY <1>1, <1>2, <3>1
  <2>4. cursor + 1 \in 1 .. Len(matches) + 1
    BY <1>1, <1>2
  <2> QED
    BY <1>2, <2>1, <2>2, <2>3, <2>4 DEF Mapped
<1> QED
  BY <1>3, <1>4

LEMMA TablesInvariant == Spec => []Inv
<1>1. Init => Inv
  <2> SUFFICES ASSUME Init PROVE Inv
    OBVIOUS
  <2>1. Input
    BY DfaAssumption DEF Init, Input, PathMatches
  <2>2. /\ tables.slices = << >> /\ tables.redirect_table = << >>
        /\ tables.uid_table = << >> /\ tables.match_id_table = << >>
    BY DEF Init, Empty
  <2>3. Mapped
    <3>1. Len(matches) \in Nat
      BY <2>1, LenProperties DEF Input
    <3>2. \A m \in PathMatches : ~(m < 1)
      BY <3>1 DEF PathMatches
    <3> QED
      BY <3>1, <3>2 DEF Init, Mapped
  <2>4. Layout
    BY <2>2, SpanEntries DEF Layout
  <2>5. Result
    BY DEF Init, Result
  <2> QED
    BY <2>1, <2>3, <2>4, <2>5 DEF Inv
<1>2. Inv /\ [Next]_vars => Inv'
  <2> SUFFICES ASSUME Input, Mapped, Layout, Result, [Next]_vars PROVE Inv'
    BY DEF Inv
  <2>1. UNCHANGED <<matches, ends>>
    BY DEF Next, PushPattern, EncodeEntry, NeedsMark, vars
  <2>2. Input' /\ \A k : Entry(k)' = Entry(k)
    BY <2>1 DEF Input, PathMatches, Entry, StateOf
  <2>3. ASSUME tables' = tables PROVE Layout'
    BY <2>1, <2>2, <2>3 DEF Layout, Entries, FinMax
  <2>4. ASSUME tables' = tables, res' = res PROVE Result'
    BY <2>1, <2>2, <2>4, Zenon DEF Result
  <2>5. ASSUME UNCHANGED <<cursor, pat_id_map>>, cursor > Len(matches) PROVE Mapped'
    <3>1. Len(matches) \in Nat /\ cursor \in Nat
      BY LenProperties DEF Input, Mapped
    <3>2. ~(cursor' <= Len(matches'))
      BY <2>1, <2>5, <3>1
    <3> QED
      BY <2>1, <2>5, <3>2 DEF Mapped, PathMatches
  <2>6. CASE PushPattern
    <3>1. UNCHANGED <<tables, res>>
      BY <2>6 DEF PushPattern
    <3> QED
      BY <2>2, <2>3, <2>4, <2>6, <3>1, PushKeepsMap DEF Inv
  <2>7. CASE EncodeEntry
    <3>1. res = None /\ res' = res
      <4>1. Len(tables.slices) < Entries /\ res' = res
        BY <2>7 DEF EncodeEntry
      <4>2. Len(tables.slices) # Entries
        BY <4>1, SpanEntries
      <4> QED
        BY <4>1, <4>2, Zenon DEF Result
    <3>2. Result'
      BY <3>1 DEF Result
    <3>3. Mapped'
      BY <2>5, <2>7 DEF EncodeEntry
    <3> QED
      BY <2>2, <2>7, <3>2, <3>3, EncodeKeepsLayout DEF Inv
  <2>8. ASSUME NEW id \in StateIds, NEW uid \in Uids, NeedsMark(id, uid) PROVE Inv'
    <3> DEFINE k == EntryOf(id)
               s == tables.slices[k]
               matched == \E j \in 0 .. s.len - 1 : UidMatches(tables.uid_table[s.off + j + 1], uid)
    <3>1. /\ Len(tables.slices) = Entries /\ tables' = tables
          /\ UNCHANGED <<cursor, pat_id_map>>
          /\ res' = [redirect |-> IF matched THEN tables.redirect_table[k] ELSE "none",
                     id |-> id, uid |-> uid, table_off |-> s.off, table_len |-> s.len]
      BY <2>8, Zenon DEF NeedsMark, Direction, EntryOf
    <3>2. k \in 1 .. Span + 1 /\ k \in Nat /\ Entries = Span + 1
      BY StateInSpan, SpanEntries, DfaAssumption DEF EntryOf
    <3>3. /\ s = Slice(k) /\ tables.redirect_table[k] = matches[Entry(k)].direction
          /\ tables.uid_table[k] = matches[Entry(k)].uid
      BY <3>1, <3>2 DEF Layout
    <3>4. s.off = k - 1 /\ s.len = 1
      BY <3>3 DEF Slice
    <3>5. matched <=> UidMatches(matches[Entry(k)].uid, uid)
      <4>1. 0 .. s.len - 1 = {0} /\ s.off + 0 + 1 = k
        BY <3>2, <3>4
      <4> HIDE DEF s, k
      <4> QED
        BY <3>3, <4>1
    <3>6. (IF matched THEN tables.redirect_table[k] ELSE "none")
            = IF UidMatches(matches[Entry(k)].uid, uid) THEN matches[Entry(k)].direction ELSE "none"
      BY <3>3, <3>5, Zenon
    <3> HIDE DEF matched, s
    <3>7. /\ res'.id = id /\ res'.uid = uid /\ res'.table_off = k - 1 /\ res'.table_len = 1
          /\ res'.redirect = IF UidMatches(matches[Entry(k)].uid, uid)
                             THEN matches[Entry(k)].direction ELSE "none"
      BY <3>1, <3>4, <3>6
    <3>8. Result'
      BY <2>1, <2>2, <3>1, <3>7, Zenon DEF Result, Entries, FinMax
    <3>9. cursor > Len(matches)
      <4>1. tables # Empty
        <5>1. Len(tables.slices) # 0
          BY <3>1, <3>2, SpanEntries
        <5> QED
          BY <5>1 DEF Empty
      <4>2. Len(matches) \in Nat /\ cursor \in Nat
        BY LenProperties DEF Input, Mapped
      <4> QED
        BY <4>1, <4>2 DEF Mapped
    <3>10. Mapped'
      BY <2>5, <3>1, <3>9
    <3> QED
      BY <2>2, <2>3, <3>1, <3>8, <3>10 DEF Inv
  <2>9. CASE UNCHANGED vars
    <3>1. tables' = tables /\ res' = res /\ UNCHANGED <<cursor, pat_id_map>>
      BY <2>9 DEF vars
    <3>2. Mapped'
      BY <2>1, <3>1 DEF Mapped, PathMatches
    <3> QED
      BY <2>2, <2>3, <2>4, <3>1, <3>2 DEF Inv
  <2> QED
    BY <2>6, <2>7, <2>8, <2>9 DEF Next
<1> QED
  BY <1>1, <1>2, PTL DEF Spec

-----------------------------------------------------------------------------
\* What the invariant says of the entry of a lookup.
LEMMA LookedEntry ==
    ASSUME Inv, Looked, NEW k, k = EntryOf(res.id)
    PROVE  /\ k \in 1 .. Span + 1 /\ Entry(k) = FirstMatch
           /\ matches[FirstMatch] \in Match /\ FirstMatch \in Nat
           /\ Len(tables.slices) = Span + 1
           /\ res.table_off = k - 1 /\ res.table_len = 1
           /\ res.redirect = IF UidMatches(matches[FirstMatch].uid, res.uid)
                             THEN matches[FirstMatch].direction ELSE "none"
<1>1. /\ Len(tables.slices) = Entries /\ res.id \in StateIds
      /\ res.table_off = k - 1 /\ res.table_len = 1
      /\ res.redirect = IF UidMatches(matches[Entry(k)].uid, res.uid)
                        THEN matches[Entry(k)].direction ELSE "none"
  BY Zenon DEF Inv, Looked, Result
<1>2. k \in 1 .. Span + 1 /\ FinMin + k - 1 = res.id
  BY <1>1, StateInSpan, SpanEntries, DfaAssumption DEF EntryOf
<1>3. Entry(k) = FirstMatch
  BY <1>2 DEF Entry, FirstMatch
<1>4. matches[Entry(k)] \in Match /\ Entry(k) \in 1 .. Len(matches)
  BY <1>2, EntryType DEF Inv
<1>5. Len(matches) \in Nat
  BY LenProperties DEF Inv, Input
<1>6. Entry(k) \in Nat
  BY <1>4, <1>5
<1> QED
  BY <1>1, <1>2, <1>3, <1>4, <1>6, SpanEntries

\* needs_mark_uncached gives a process a verdict exactly when the first match
\* that its path fits is for everyone or for its uid.
THEOREM MatchedAlwaysExactly == Spec => []MatchedExactly
<1>1. Inv => MatchedExactly
  <2> SUFFICES ASSUME Inv, Looked
               PROVE  res.redirect # "none" <=> matches[FirstMatch].uid \in {0, res.uid}
    BY DEF MatchedExactly
  <2>1. /\ matches[FirstMatch] \in Match
        /\ res.redirect = IF UidMatches(matches[FirstMatch].uid, res.uid)
                          THEN matches[FirstMatch].direction ELSE "none"
    BY LookedEntry
  <2>2. matches[FirstMatch].direction # "none"
    BY <2>1 DEF Match
  <2> QED
    BY <2>1, <2>2 DEF UidMatches
<1> QED
  BY <1>1, TablesInvariant, PTL

\* dump_iter_file reports the place of that match in the list, whatever stands
\* before it.
THEOREM MatchAlwaysNamed == Spec => []NamesItsMatch
<1>1. Inv => NamesItsMatch
  <2> SUFFICES ASSUME Inv, Looked
               PROVE  SubSeq(tables.match_id_table, res.table_off + 1, res.table_off + res.table_len)
                        = <<FirstMatch>>
    BY DEF NamesItsMatch
  <2>1. PICK k : k = EntryOf(res.id)
    OBVIOUS
  <2>2. /\ k \in 1 .. Span + 1 /\ Entry(k) = FirstMatch /\ Len(tables.slices) = Span + 1
        /\ res.table_off = k - 1 /\ res.table_len = 1 /\ FirstMatch \in Nat
    BY <2>1, LookedEntry
  <2>3. k \in Int /\ res.table_off + 1 = k /\ res.table_off + res.table_len = k
    BY <2>2, SpanEntries
  <2>4. tables.match_id_table \in Seq(Nat) /\ tables.match_id_table[k] = FirstMatch
    BY <2>2 DEF Inv, Layout
  <2> DEFINE t == tables.match_id_table
             q == SubSeq(t, k, k)
  <2>5. /\ q \in Seq(Nat) /\ Len(q) = (IF k <= k THEN k - k + 1 ELSE 0)
        /\ \A j \in 1 .. k - k + 1 : q[j] = t[k + j - 1]
    <3>1. \A j \in k .. k : t[j] \in Nat
      BY <2>2, <2>3, <2>4
    <3> QED
      BY <2>3, <2>4, <3>1, SubSeqProperties
  <2>6. Len(q) = 1 /\ q[1] = t[k]
    <3> HIDE DEF q, t
    <3> QED
      BY <2>3, <2>5
  <2>7. q = <<FirstMatch>>
    <3>1. <<FirstMatch>> \in Seq(Nat) /\ Len(<<FirstMatch>>) = 1 /\ <<FirstMatch>>[1] = FirstMatch
      BY <2>2
    <3> HIDE DEF q
    <3>2. \A j \in 1 .. Len(q) : q[j] = <<FirstMatch>>[j]
      BY <2>4, <2>6, <3>1
    <3> QED
      BY <2>5, <2>6, <3>1, <3>2, SeqEqual
  <2> QED
    BY <2>3, <2>7
<1> QED
  BY <1>1, TablesInvariant, PTL

\* The direction found by the state's offset is the one of that match.
THEOREM VerdictAlwaysOfMatch == Spec => []VerdictOfMatch
<1>1. Inv => VerdictOfMatch
  <2> SUFFICES ASSUME Inv, Looked, res.redirect # "none"
               PROVE  res.redirect = matches[FirstMatch].direction
    BY DEF VerdictOfMatch
  <2> QED
    BY LookedEntry
<1> QED
  BY <1>1, TablesInvariant, PTL
=============================================================================
