---------------------------- MODULE SequenceLemmas ----------------------------
(***************************************************************************)
(* Facts about positions in lists and queues that the proofs about the     *)
(* list of matches and about the channels of the GUI share.                *)
(***************************************************************************)
EXTENDS SequencesExt, Integers, SequenceTheorems, FiniteSetTheorems, WellFoundedInduction, TLAPS

\* A set of naturals that is not empty has a least element, and Min is it.
LEMMA MinIsLeast ==
    ASSUME NEW I \in SUBSET Nat, I # {}
    PROVE  Min(I) \in I /\ \A i \in I : Min(I) <= i
<1> DEFINE Less == OpToRel(<, Nat)
<1>1. IsWellFoundedOn(Less, Nat)
  BY NatLessThanWellFounded
<1>2. ASSUME NEW e \in Nat, NEW f \in Nat, f < e
      PROVE  <<f, e>> \in Less
  <2>1. <<f, e>> \in Nat \X Nat /\ <<f, e>>[1] < <<f, e>>[2]
    BY <1>2
  <2>2. QED
    BY <2>1, Zenon DEF OpToRel
<1> HIDE DEF Less
<1>3. PICK e \in I : \A f \in I : ~(<<f, e>> \in Less)
  BY <1>1, WFMin
<1>4. ASSUME NEW f \in I
      PROVE  e <= f
  <2>1. e \in Nat /\ f \in Nat
    OBVIOUS
  <2>2. ~(f < e)
    BY <1>2, <1>3, <2>1
  <2>3. QED
    BY <2>1, <2>2
<1>5. QED
  BY <1>4 DEF Min

\* Vec::remove: the entries behind the one that is removed move up.
LEMMA RemoveAtEntries ==
    ASSUME NEW S, NEW list \in Seq(S), NEW p \in 1..Len(list)
    PROVE  /\ RemoveAt(list, p) \in Seq(S)
           /\ Len(RemoveAt(list, p)) = Len(list) - 1
           /\ \A j \in 1..(Len(list) - 1) :
                RemoveAt(list, p)[j] = IF j < p THEN list[j] ELSE list[j + 1]
<1> DEFINE a == SubSeq(list, 1, p - 1)
           b == SubSeq(list, p + 1, Len(list))
<1>1. Len(list) \in Nat /\ DOMAIN list = 1..Len(list) /\ p \in Nat
  BY LenProperties
<1>2. /\ a \in Seq(S) /\ Len(a) = p - 1
      /\ \A j \in 1..(p - 1) : a[j] = list[j]
  BY <1>1, SubSeqProperties
<1>3. /\ b \in Seq(S) /\ Len(b) = Len(list) - p
      /\ \A j \in 1..(Len(list) - p) : b[j] = list[p + j]
  <2>1. p + 1 \in Int /\ Len(list) \in Int /\ \A j \in (p + 1)..Len(list) : list[j] \in S
    BY <1>1
  <2>2. /\ b \in Seq(S)
        /\ Len(b) = IF p + 1 <= Len(list) THEN Len(list) - (p + 1) + 1 ELSE 0
        /\ \A j \in 1..(Len(list) - (p + 1) + 1) : b[j] = list[(p + 1) + j - 1]
    BY <2>1, SubSeqProperties
  <2> HIDE DEF b
  <2>3. \A j \in 1..(Len(list) - p) :
          j \in 1..(Len(list) - (p + 1) + 1) /\ (p + 1) + j - 1 = p + j
    BY <1>1
  <2>4. Len(b) = Len(list) - p
    <3>1. CASE p = Len(list)
      BY <1>1, <2>2, <3>1
    <3>2. CASE p + 1 <= Len(list)
      BY <1>1, <2>2, <3>2
    <3>3. p = Len(list) \/ p + 1 <= Len(list)
      <4>1. \A n \in Nat : \A k \in 1..n : k = n \/ k + 1 <= n
        OBVIOUS
      <4>2. QED
        BY <1>1, <4>1
    <3>4. QED
      BY <3>1, <3>2, <3>3
  <2>5. ASSUME NEW j \in 1..(Len(list) - p)
        PROVE  b[j] = list[p + j]
    <3>1. b[j] = list[(p + 1) + j - 1]
      BY <2>2, <2>3
    <3>2. QED
      BY <2>3, <3>1, Zenon
  <2>6. QED
    BY <2>2, <2>4, <2>5
<1>4. RemoveAt(list, p) = a \o b
  BY DEF RemoveAt
<1> HIDE DEF a, b
<1>5. /\ a \o b \in Seq(S) /\ Len(a \o b) = Len(list) - 1
      /\ \A j \in 1..(Len(list) - 1) : (a \o b)[j] = IF j <= p - 1 THEN a[j] ELSE b[j - (p - 1)]
  <2>1. /\ a \o b \in Seq(S) /\ Len(a \o b) = Len(a) + Len(b)
        /\ \A j \in 1..(Len(a) + Len(b)) : (a \o b)[j] = IF j <= Len(a) THEN a[j] ELSE b[j - Len(a)]
    BY <1>2, <1>3, ConcatProperties
  <2>2. Len(a) = p - 1 /\ Len(a) + Len(b) = Len(list) - 1
    BY <1>1, <1>2, <1>3
  <2>3. QED
    BY <2>1, <2>2
<1>6. ASSUME NEW j \in 1..(Len(list) - 1)
      PROVE  (a \o b)[j] = IF j < p THEN list[j] ELSE list[j + 1]
  <2>1. CASE j < p
    BY <1>1, <1>2, <1>5, <2>1
  <2>2. CASE ~(j < p)
    <3>1. j - (p - 1) \in 1..(Len(list) - p) /\ p + (j - (p - 1)) = j + 1
      BY <1>1, <2>2
    <3>2. QED
      BY <1>1, <1>3, <1>5, <2>2, <3>1
  <2>3. QED
    BY <2>1, <2>2
<1>7. QED
  BY <1>4, <1>5, <1>6

\* A set of positions is finite.
LEMMA PositionsFinite ==
    ASSUME NEW n \in Nat, NEW A \in SUBSET (1..n)
    PROVE  IsFiniteSet(A) /\ Cardinality(A) \in Nat
<1>1. IsFiniteSet(1..n)
  BY FS_Interval
<1>2. IsFiniteSet(A)
  BY <1>1, FS_Subset
<1>3. QED
  BY <1>2, FS_CardinalityType

\* A new last position.
LEMMA CountAppend ==
    ASSUME NEW n \in Nat, NEW A \in SUBSET (1..n)
    PROVE  Cardinality(A \cup {n + 1}) = Cardinality(A) + 1
<1>1. IsFiniteSet(A)
  BY PositionsFinite
<1>2. n + 1 \notin A
  OBVIOUS
<1>3. QED
  BY <1>1, <1>2, FS_AddElement

\* A position that joins or leaves a set.
LEMMA CountInsert ==
    ASSUME NEW n \in Nat, NEW A \in SUBSET (1..n), NEW p \in 1..n
    PROVE  /\ Cardinality(A \cup {p}) = IF p \in A THEN Cardinality(A) ELSE Cardinality(A) + 1
           /\ Cardinality(A \ {p}) = IF p \in A THEN Cardinality(A) - 1 ELSE Cardinality(A)
<1>1. IsFiniteSet(A) /\ Cardinality(A) \in Nat
  BY PositionsFinite
<1>2. QED
  BY <1>1, FS_AddElement, FS_RemoveElement

\* Position p is taken out of the list, and the positions behind it move up:
\* how many are left of a set of positions.
LEMMA CountRemove ==
    ASSUME NEW n \in Nat, NEW A \in SUBSET (1..n), NEW p \in 1..n
    PROVE  Cardinality({j \in 1..(n - 1) : IF j < p THEN j \in A ELSE j + 1 \in A})
             = IF p \in A THEN Cardinality(A) - 1 ELSE Cardinality(A)
<1> DEFINE C == {j \in 1..(n - 1) : IF j < p THEN j \in A ELSE j + 1 \in A}
           f == [j \in C |-> IF j < p THEN j ELSE j + 1]
<1>1. f \in [C -> A \ {p}]
  OBVIOUS
<1>2. \A i, j \in C : f[i] = f[j] => i = j
  OBVIOUS
<1>3. \A a \in A \ {p} : \E j \in C : f[j] = a
  <2> SUFFICES ASSUME NEW a \in A \ {p}
               PROVE  \E j \in C : f[j] = a
    OBVIOUS
  <2>1. CASE a < p
    <3>1. a \in C /\ f[a] = a
      BY <2>1
    <3>2. QED
      BY <3>1
  <2>2. CASE a > p
    <3>1. a - 1 \in C /\ f[a - 1] = a
      BY <2>2
    <3>2. QED
      BY <3>1
  <2>3. QED
    BY <2>1, <2>2
<1>4. IsFiniteSet(C) /\ IsFiniteSet(A)
  <2>1. C \in SUBSET (1..n)
    OBVIOUS
  <2>2. QED
    BY <2>1, PositionsFinite
<1>5. ExistsBijection(C, A \ {p})
  <2>1. f \in Bijection(C, A \ {p})
    BY <1>1, <1>2, <1>3 DEF Bijection, Injection, Surjection, IsInjective
  <2>2. QED
    BY <2>1 DEF ExistsBijection
<1>6. Cardinality(C) = Cardinality(A \ {p})
  BY <1>4, <1>5, FS_Bijection
<1>7. QED
  BY <1>6, CountInsert

-----------------------------------------------------------------------------
\* The positions of a list whose entries are in P, and 1 or 0 for an entry.
Positions(list, P) == {i \in DOMAIN list : list[i] \in P}
In(x, P) == IF x \in P THEN 1 ELSE 0

\* How many entries of a list are in P is a natural number.
LEMMA CountType ==
    ASSUME NEW S, NEW list \in Seq(S), NEW P
    PROVE  /\ Positions(list, P) \in SUBSET (1..Len(list))
           /\ Len(list) \in Nat /\ DOMAIN list = 1..Len(list)
           /\ Cardinality(Positions(list, P)) \in Nat
<1>1. Len(list) \in Nat /\ DOMAIN list = 1..Len(list)
  BY LenProperties
<1>2. Positions(list, P) \in SUBSET (1..Len(list))
  BY <1>1 DEF Positions
<1>3. QED
  BY <1>1, <1>2, PositionsFinite

\* A list without entries.
LEMMA CountEmpty ==
    ASSUME NEW P
    PROVE  Cardinality(Positions(<< >>, P)) = 0
<1>1. Positions(<< >>, P) = {}
  BY DEF Positions
<1>2. QED
  BY <1>1, FS_EmptySet

\* Vec::push.
LEMMA CountAfterAppend ==
    ASSUME NEW S, NEW list \in Seq(S), NEW x \in S, NEW P
    PROVE  Cardinality(Positions(Append(list, x), P)) = Cardinality(Positions(list, P)) + In(x, P)
<1> DEFINE A == Positions(list, P)
           n == Len(list)
<1>1. A \in SUBSET (1..n) /\ n \in Nat /\ DOMAIN list = 1..n /\ Cardinality(A) \in Nat
  BY CountType
<1>2. /\ DOMAIN Append(list, x) = 1..(n + 1)
      /\ Append(list, x)[n + 1] = x
      /\ \A i \in 1..n : Append(list, x)[i] = list[i]
  BY <1>1, AppendProperties
<1>3. Positions(Append(list, x), P) = IF x \in P THEN A \cup {n + 1} ELSE A
  BY <1>1, <1>2 DEF Positions
<1> HIDE DEF A, n
<1>4. QED
  BY <1>1, <1>3, CountAppend DEF A, In

\* An assignment to one entry.
LEMMA CountAfterReplace ==
    ASSUME NEW S, NEW list \in Seq(S), NEW x \in S, NEW P, NEW p \in 1..Len(list)
    PROVE  /\ ReplaceAt(list, p, x) \in Seq(S) /\ Len(ReplaceAt(list, p, x)) = Len(list)
           /\ Cardinality(Positions(ReplaceAt(list, p, x), P))
                = Cardinality(Positions(list, P)) + In(x, P) - In(list[p], P)
<1> DEFINE A == Positions(list, P)
           n == Len(list)
           new == ReplaceAt(list, p, x)
<1>1. A \in SUBSET (1..n) /\ n \in Nat /\ DOMAIN list = 1..n /\ Cardinality(A) \in Nat
  BY CountType
<1>2. /\ new \in Seq(S) /\ Len(new) = n /\ DOMAIN new = 1..n
      /\ new[p] = x /\ \A i \in 1..n : i # p => new[i] = list[i]
  BY <1>1 DEF ReplaceAt
<1> HIDE DEF new
<1>3. Positions(new, P) = (A \ {p}) \cup (IF x \in P THEN {p} ELSE {})
  BY <1>1, <1>2 DEF Positions
<1>4. p \in A <=> list[p] \in P
  BY <1>1 DEF Positions
<1> HIDE DEF A, n
<1>5. A \ {p} \in SUBSET (1..n) /\ p \in 1..n /\ p \notin A \ {p}
  BY <1>1 DEF n
<1>6. /\ Cardinality(A \ {p}) = IF p \in A THEN Cardinality(A) - 1 ELSE Cardinality(A)
      /\ Cardinality((A \ {p}) \cup {p}) = Cardinality(A \ {p}) + 1
  BY <1>1, <1>5, CountInsert
<1>7. Cardinality(Positions(new, P)) = Cardinality(A) + In(x, P) - In(list[p], P)
  <2>1. CASE x \in P
    <3>1. Positions(new, P) = (A \ {p}) \cup {p}
      BY <1>3, <2>1
    <3>2. QED
      BY <1>1, <1>4, <1>6, <2>1, <3>1 DEF In
  <2>2. CASE x \notin P
    <3>1. Positions(new, P) = A \ {p}
      BY <1>3, <2>2
    <3>2. QED
      BY <1>1, <1>4, <1>6, <2>2, <3>1 DEF In
  <2>3. QED
    BY <2>1, <2>2
<1>8. QED
  BY <1>2, <1>7 DEF new, A, n

\* Vec::remove.
LEMMA CountAfterRemove ==
    ASSUME NEW S, NEW list \in Seq(S), NEW P, NEW p \in 1..Len(list)
    PROVE  Cardinality(Positions(RemoveAt(list, p), P))
             = Cardinality(Positions(list, P)) - In(list[p], P)
<1> DEFINE A == Positions(list, P)
           n == Len(list)
           new == RemoveAt(list, p)
<1>1. A \in SUBSET (1..n) /\ n \in Nat /\ DOMAIN list = 1..n /\ Cardinality(A) \in Nat
  BY CountType
<1>2. /\ new \in Seq(S) /\ Len(new) = n - 1
      /\ \A j \in 1..(n - 1) : new[j] = IF j < p THEN list[j] ELSE list[j + 1]
  BY RemoveAtEntries
<1> HIDE DEF new
<1>3. DOMAIN new = 1..(n - 1)
  BY <1>2
<1>4. p \in A <=> list[p] \in P
  BY <1>1 DEF Positions
<1>5. Positions(new, P) = {j \in 1..(n - 1) : IF j < p THEN j \in A ELSE j + 1 \in A}
  <2>1. ASSUME NEW j \in 1..(n - 1)
        PROVE  new[j] \in P <=> IF j < p THEN j \in A ELSE j + 1 \in A
    BY <1>1, <1>2 DEF Positions
  <2>2. QED
    BY <1>3, <2>1 DEF Positions
<1> HIDE DEF A, n
<1>6. p \in 1..n
  BY DEF n
<1>7. Cardinality(Positions(new, P)) = IF p \in A THEN Cardinality(A) - 1 ELSE Cardinality(A)
  BY <1>1, <1>5, <1>6, CountRemove
<1>8. Cardinality(Positions(new, P)) = Cardinality(A) - In(list[p], P)
  BY <1>1, <1>4, <1>7 DEF In
<1>9. QED
  BY <1>8 DEF new, A

-----------------------------------------------------------------------------
\* How many entries behind position k are in P.
After(list, k, P) == Cardinality({i \in Positions(list, P) : i > k})

\* The number is a natural one, all entries are behind position 0 and none
\* behind the last.
LEMMA AfterType ==
    ASSUME NEW S, NEW list \in Seq(S), NEW P
    PROVE  /\ \A k \in Nat : After(list, k, P) \in Nat
           /\ After(list, 0, P) = Cardinality(Positions(list, P))
           /\ After(list, Len(list), P) = 0
<1>1. Positions(list, P) \in SUBSET (1..Len(list)) /\ Len(list) \in Nat
  BY CountType
<1>2. ASSUME NEW k \in Nat PROVE After(list, k, P) \in Nat
  <2>1. {i \in Positions(list, P) : i > k} \in SUBSET (1..Len(list))
    BY <1>1
  <2> QED
    BY <1>1, <2>1, PositionsFinite DEF After
<1>3. {i \in Positions(list, P) : i > 0} = Positions(list, P)
  BY <1>1
<1>4. {i \in Positions(list, P) : i > Len(list)} = {}
  BY <1>1
<1> QED
  BY <1>2, <1>3, <1>4, FS_EmptySet DEF After

\* A message is sent.
LEMMA AfterAppend ==
    ASSUME NEW S, NEW list \in Seq(S), NEW x \in S, NEW P, NEW k \in 0..Len(list)
    PROVE  After(Append(list, x), k, P) = After(list, k, P) + In(x, P)
<1> DEFINE n == Len(list)
           A == {i \in Positions(list, P) : i > k}
           N == {i \in Positions(Append(list, x), P) : i > k}
<1>1. n \in Nat /\ DOMAIN list = 1..n /\ A \in SUBSET (1..n)
  BY CountType
<1>2. /\ Append(list, x) \in Seq(S) /\ Len(Append(list, x)) = n + 1
      /\ Append(list, x)[n + 1] = x
      /\ \A i \in 1..n : Append(list, x)[i] = list[i]
  BY AppendProperties
<1>3. DOMAIN Append(list, x) = 1..(n + 1)
  BY <1>2, CountType
<1>4. N = IF x \in P THEN A \cup {n + 1} ELSE A
  BY <1>1, <1>2, <1>3 DEF Positions
<1>5. Cardinality(A \cup {n + 1}) = Cardinality(A) + 1 /\ Cardinality(A) \in Nat
  BY <1>1, CountAppend, PositionsFinite
<1>6. Cardinality(N) = Cardinality(A) + In(x, P)
  <2> HIDE DEF N, A
  <2> QED
    BY <1>4, <1>5 DEF In
<1> QED
  BY <1>6 DEF After

\* The first message is received.
LEMMA AfterTail ==
    ASSUME NEW S, NEW list \in Seq(S), list # << >>, NEW P
    PROVE  /\ Tail(list) \in Seq(S) /\ Len(Tail(list)) = Len(list) - 1 /\ Len(list) > 0
           /\ \A k \in 1..(Len(list) - 1) : Tail(list)[k] = list[k + 1]
           /\ \A k \in 0..(Len(list) - 1) : After(Tail(list), k, P) = After(list, k + 1, P)
           /\ After(list, 0, P) = After(list, 1, P) + In(Head(list), P)
<1> DEFINE n == Len(list)
           new == Tail(list)
<1>1. /\ n \in Nat /\ n > 0 /\ DOMAIN list = 1..n
      /\ new \in Seq(S) /\ Len(new) = n - 1 /\ DOMAIN new = 1..(n - 1)
      /\ \A k \in 1..(n - 1) : new[k] = list[k + 1]
  <2>1. n \in Nat /\ DOMAIN list = 1..n /\ n > 0
    BY CountType, EmptySeq
  <2>2. /\ new \in Seq(S) /\ Len(new) = n - 1
        /\ \A k \in 1..Len(new) : new[k] = list[k + 1]
    BY HeadTailProperties
  <2> QED
    BY <2>1, <2>2, CountType
<1>2. ASSUME NEW k \in 0..(n - 1)
      PROVE  After(new, k, P) = After(list, k + 1, P)
  <2> DEFINE A == {i \in Positions(list, P) : i > k + 1}
             N == {j \in Positions(new, P) : j > k}
             M == {j \in 1..(n - 1) : IF j < 1 THEN j \in A ELSE j + 1 \in A}
  <2>1. A \in SUBSET (1..n) /\ 1 \notin A /\ 1 \in 1..n
    BY <1>1 DEF Positions
  <2>2. ASSUME NEW j \in 1..(n - 1)
        PROVE  j \in N <=> j + 1 \in A
    <3>1. j + 1 \in 1..n /\ (j > k <=> j + 1 > k + 1) /\ new[j] = list[j + 1]
      BY <1>1
    <3> QED
      BY <1>1, <3>1 DEF Positions
  <2>3. N = M
    <3>1. N \in SUBSET (1..(n - 1))
      BY <1>1 DEF Positions
    <3>2. \A j \in 1..(n - 1) : j \in M <=> j + 1 \in A
      BY <1>1
    <3>3. M \in SUBSET (1..(n - 1))
      OBVIOUS
    <3> HIDE DEF N, M
    <3> QED
      BY <2>2, <3>1, <3>2, <3>3
  <2>4. Cardinality(M) = Cardinality(A)
    <3> HIDE DEF A
    <3>1. \A p \in 1..n :
            Cardinality({j \in 1..(n - 1) : IF j < p THEN j \in A ELSE j + 1 \in A})
              = IF p \in A THEN Cardinality(A) - 1 ELSE Cardinality(A)
      BY <1>1, <2>1, CountRemove
    <3> QED
      BY <2>1, <3>1
  <2> QED
    BY <2>3, <2>4 DEF After
<1>3. After(list, 0, P) = After(list, 1, P) + In(Head(list), P)
  <2> DEFINE A == {i \in Positions(list, P) : i > 1}
             N == {i \in Positions(list, P) : i > 0}
  <2>1. A \in SUBSET (1..n) /\ 1 \notin A /\ 1 \in 1..n
    BY <1>1 DEF Positions
  <2>2. Head(list) = list[1]
    BY HeadTailProperties
  <2>3. N = IF Head(list) \in P THEN A \cup {1} ELSE A
    BY <1>1, <2>2 DEF Positions
  <2>4. Cardinality(A \cup {1}) = Cardinality(A) + 1 /\ Cardinality(A) \in Nat
    <3> HIDE DEF A
    <3>1. IsFiniteSet(A) /\ Cardinality(A) \in Nat
      BY <1>1, <2>1, PositionsFinite
    <3> QED
      BY <2>1, <3>1, FS_AddElement
  <2>5. Cardinality(N) = Cardinality(A) + In(Head(list), P)
    <3> HIDE DEF N, A
    <3> QED
      BY <2>3, <2>4 DEF In
  <2> QED
    BY <2>5 DEF After
<1> QED
  BY <1>1, <1>2, <1>3

-----------------------------------------------------------------------------
(* What a queue will leave *)

\* The last message of kind K in the queue is one of V, or there is none of
\* the kind and b holds already.
Ends(list, K, V, b) ==
    \/ \E i \in DOMAIN list : /\ list[i] \in K \cap V
                              /\ \A j \in DOMAIN list : j > i => list[j] \notin K
    \/ b /\ \A j \in DOMAIN list : list[j] \notin K

\* A message of another kind is queued, or one of V.
LEMMA EndsAppend ==
    ASSUME NEW S, NEW list \in Seq(S), NEW x \in S, NEW K, NEW V, NEW b
    PROVE  /\ Ends(list, K, V, b) /\ x \notin K => Ends(Append(list, x), K, V, b)
           /\ x \in K \cap V => Ends(Append(list, x), K, V, b)
<1> DEFINE n == Len(list)
           new == Append(list, x)
<1>1. n \in Nat /\ DOMAIN list = 1..n
  BY CountType
<1>2. new \in Seq(S) /\ Len(new) = n + 1 /\ new[n + 1] = x /\ \A i \in 1..n : new[i] = list[i]
  BY AppendProperties
<1>3. DOMAIN new = 1..(n + 1)
  BY <1>2, CountType
<1>4. \A j \in DOMAIN new : j = n + 1 \/ (j \in DOMAIN list /\ new[j] = list[j])
  BY <1>1, <1>2, <1>3
<1>5. DOMAIN list \subseteq DOMAIN new /\ n + 1 \in DOMAIN new
  BY <1>1, <1>3
<1> HIDE DEF new, n
<1>6. ASSUME Ends(list, K, V, b), x \notin K PROVE Ends(new, K, V, b)
  <2>1. CASE b /\ \A j \in DOMAIN list : list[j] \notin K
    BY <1>2, <1>4, <1>6, <2>1 DEF Ends
  <2>2. CASE \E i \in DOMAIN list : /\ list[i] \in K \cap V
                                    /\ \A j \in DOMAIN list : j > i => list[j] \notin K
    <3>1. PICK i \in DOMAIN list : /\ list[i] \in K \cap V
                                   /\ \A j \in DOMAIN list : j > i => list[j] \notin K
      BY <2>2
    <3>2. i \in DOMAIN new /\ new[i] \in K \cap V
      BY <1>1, <1>2, <1>5, <3>1
    <3>3. \A j \in DOMAIN new : j > i => new[j] \notin K
      BY <1>2, <1>4, <1>6, <3>1
    <3> QED
      BY <3>2, <3>3 DEF Ends
  <2> QED
    BY <1>6, <2>1, <2>2 DEF Ends
<1>7. ASSUME x \in K \cap V PROVE Ends(new, K, V, b)
  <2>1. \A j \in DOMAIN new : ~(j > n + 1)
    BY <1>1, <1>3
  <2> QED
    BY <1>2, <1>5, <1>7, <2>1 DEF Ends
<1> QED
  BY <1>6, <1>7 DEF new

\* The first message is handled, and c holds after it: it does if the message is
\* one of V, or is of another kind and b held before.
LEMMA EndsTail ==
    ASSUME NEW S, NEW list \in Seq(S), list # << >>, NEW K, NEW V, NEW b, NEW c,
           Ends(list, K, V, b),
           Head(list) \notin K /\ b => c,
           Head(list) \in K \cap V => c
    PROVE  Ends(Tail(list), K, V, c)
<1> DEFINE n == Len(list)
           new == Tail(list)
<1>1. /\ n \in Nat /\ n > 0 /\ DOMAIN list = 1..n
      /\ new \in Seq(S) /\ Len(new) = n - 1 /\ DOMAIN new = 1..(n - 1)
      /\ \A k \in 1..(n - 1) : new[k] = list[k + 1]
  BY CountType, AfterTail
<1>2. Head(list) = list[1] /\ 1 \in DOMAIN list
  BY <1>1, HeadTailProperties
<1>3. \A k \in DOMAIN new : new[k] = list[k + 1] /\ k + 1 \in DOMAIN list
  BY <1>1
<1> SUFFICES Ends(new, K, V, c)
  OBVIOUS
<1> HIDE DEF new, n
<1>4. CASE b /\ \A j \in DOMAIN list : list[j] \notin K
  BY <1>2, <1>3, <1>4 DEF Ends
<1>5. CASE \E i \in DOMAIN list : /\ list[i] \in K \cap V
                                  /\ \A j \in DOMAIN list : j > i => list[j] \notin K
  <2>1. PICK i \in DOMAIN list : /\ list[i] \in K \cap V
                                 /\ \A j \in DOMAIN list : j > i => list[j] \notin K
    BY <1>5
  <2>2. CASE i = 1
    <3>1. \A k \in DOMAIN new : k + 1 > i
      BY <1>1, <2>2
    <3>2. \A k \in DOMAIN new : new[k] \notin K
      BY <1>3, <2>1, <3>1
    <3> QED
      BY <1>2, <2>1, <2>2, <3>2 DEF Ends
  <2>3. CASE i # 1
    <3>1. i - 1 \in DOMAIN new /\ new[i - 1] = list[i]
      BY <1>1, <2>1, <2>3
    <3>2. \A k \in DOMAIN new : k > i - 1 => k + 1 > i
      BY <1>1, <2>1
    <3>3. \A k \in DOMAIN new : k > i - 1 => new[k] \notin K
      BY <1>3, <2>1, <3>2
    <3> QED
      BY <2>1, <3>1, <3>3 DEF Ends
  <2> QED
    BY <2>2, <2>3
<1> QED
  BY <1>4, <1>5 DEF Ends

\* Nothing is queued any more.
LEMMA EndsEmpty ==
    ASSUME NEW K, NEW V, NEW b, Ends(<< >>, K, V, b)
    PROVE  b
<1>1. DOMAIN << >> = {}
  BY EmptySeq, LenProperties
<1> QED
  BY <1>1 DEF Ends

-----------------------------------------------------------------------------
(* Whether a queue holds something *)

Some(list, P) == \E i \in DOMAIN list : list[i] \in P

\* A queue that grows keeps what it holds.
LEMMA SomeConcat ==
    ASSUME NEW S, NEW list \in Seq(S), NEW more \in Seq(S), NEW P
    PROVE  Some(list \o more, P) <=> Some(list, P) \/ Some(more, P)
<1> DEFINE n == Len(list)
           k == Len(more)
           new == list \o more
<1>1. n \in Nat /\ DOMAIN list = 1..n /\ k \in Nat /\ DOMAIN more = 1..k
  BY CountType
<1>2. /\ new \in Seq(S) /\ Len(new) = n + k
      /\ \A i \in 1..(n + k) : new[i] = IF i <= n THEN list[i] ELSE more[i - n]
  BY ConcatProperties
<1>3. DOMAIN new = 1..(n + k)
  BY <1>2, CountType
<1> HIDE DEF new, n, k
<1>4. ASSUME NEW i \in DOMAIN list PROVE i \in DOMAIN new /\ new[i] = list[i]
  BY <1>1, <1>2, <1>3
<1>5. ASSUME NEW i \in DOMAIN more PROVE n + i \in DOMAIN new /\ new[n + i] = more[i]
  BY <1>1, <1>2, <1>3
<1>6. ASSUME NEW i \in DOMAIN new
      PROVE  \/ i \in DOMAIN list /\ new[i] = list[i]
             \/ i - n \in DOMAIN more /\ new[i] = more[i - n]
  BY <1>1, <1>2, <1>3
<1>7. Some(new, P) <=> Some(list, P) \/ Some(more, P)
  BY <1>4, <1>5, <1>6 DEF Some
<1> QED
  BY <1>7 DEF new

\* A message is queued.
LEMMA SomeAppend ==
    ASSUME NEW S, NEW list \in Seq(S), NEW x \in S, NEW P
    PROVE  Some(Append(list, x), P) <=> Some(list, P) \/ x \in P
<1>1. Append(list, x) = list \o <<x>> /\ <<x>> \in Seq(S)
  BY AppendIsConcat
<1>2. Some(<<x>>, P) <=> x \in P
  <2>1. DOMAIN <<x>> = {1} /\ <<x>>[1] = x
    OBVIOUS
  <2> QED
    BY <2>1 DEF Some
<1>3. Some(list \o <<x>>, P) <=> Some(list, P) \/ Some(<<x>>, P)
  BY <1>1, SomeConcat
<1> QED
  BY <1>1, <1>2, <1>3

\* The first entry is taken.
LEMMA SomeTail ==
    ASSUME NEW S, NEW list \in Seq(S), list # << >>, NEW P
    PROVE  Some(list, P) <=> Some(Tail(list), P) \/ Head(list) \in P
<1> DEFINE n == Len(list)
           new == Tail(list)
<1>1. /\ n \in Nat /\ n > 0 /\ DOMAIN list = 1..n
      /\ new \in Seq(S) /\ Len(new) = n - 1 /\ DOMAIN new = 1..(n - 1)
      /\ \A k \in 1..(n - 1) : new[k] = list[k + 1]
  BY CountType, AfterTail
<1>2. Head(list) = list[1] /\ 1 \in DOMAIN list
  BY <1>1, HeadTailProperties
<1> HIDE DEF new, n
<1>3. ASSUME NEW k \in DOMAIN new PROVE k + 1 \in DOMAIN list /\ list[k + 1] = new[k]
  BY <1>1
<1>4. ASSUME NEW i \in DOMAIN list, i # 1 PROVE i - 1 \in DOMAIN new /\ new[i - 1] = list[i]
  BY <1>1, <1>4
<1>5. Some(list, P) <=> Some(new, P) \/ Head(list) \in P
  BY <1>2, <1>3, <1>4 DEF Some
<1> QED
  BY <1>5 DEF new

\* Entry i is taken out.
LEMMA SomeRemove ==
    ASSUME NEW S, NEW list \in Seq(S), NEW i \in 1..Len(list), NEW P, Some(list, P)
    PROVE  Some(RemoveAt(list, i), P) \/ list[i] \in P
<1> DEFINE n == Len(list)
           new == RemoveAt(list, i)
<1>1. n \in Nat /\ DOMAIN list = 1..n
  BY CountType
<1>2. /\ new \in Seq(S) /\ Len(new) = n - 1
      /\ \A j \in 1..(n - 1) : new[j] = IF j < i THEN list[j] ELSE list[j + 1]
  BY RemoveAtEntries
<1>3. DOMAIN new = 1..(n - 1)
  BY <1>2, CountType
<1> HIDE DEF new
<1>4. PICK j \in DOMAIN list : list[j] \in P
  BY DEF Some
<1>5. CASE j < i
  <2>1. j \in DOMAIN new /\ new[j] = list[j]
    BY <1>1, <1>2, <1>3, <1>5
  <2> QED
    BY <1>4, <2>1 DEF Some, new
<1>6. CASE j > i
  <2>1. j - 1 \in DOMAIN new /\ new[j - 1] = list[j]
    BY <1>1, <1>2, <1>3, <1>6
  <2> QED
    BY <1>4, <2>1 DEF Some, new
<1> QED
  BY <1>1, <1>4, <1>5, <1>6
===============================================================================
