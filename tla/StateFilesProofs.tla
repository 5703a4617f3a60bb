--------------------------- MODULE StateFilesProofs ---------------------------
(***************************************************************************)
(* Proofs about StateFiles, for every number of restarts, kills and saves. *)
(***************************************************************************)
EXTENDS StateFiles, TLAPS

\* A readable file holds a complete state.
LEMMA ValidIsSaved ==
    ASSUME TypeOK, NEW s \in Slots
    PROVE  Valid(s) <=> slot[s] \in Saved
BY BadAssumption DEF TypeOK, Valid, Spoiled

\* What a torn write leaves: what was there, unreadable bytes, or bytes of two
\* saves.
LEMMA PartialContents ==
    ASSUME NEW old \in Saved \cup Spoiled, NEW c \in Partial(old)
    PROVE  c = old \/ c \in Spoiled \/ (c \in Saved /\ c.stamp = 0)
<1>1. \A m \in Mixtures : m \in Saved /\ m.stamp = 0
  <2>1. MixedGens \subseteq Nat /\ {0} \subseteq Nat
    BY StateAssumption
  <2>2. QED
    BY <2>1, Zenon DEF Mixtures, Saved
<1>2. c \in {old, BadJson, BadUtf8} \/ c \in Mixtures
  BY DEF Partial
<1>3. BadJson \in Spoiled /\ BadUtf8 \in Spoiled
  BY DEF Spoiled
<1>4. QED
  BY <1>1, <1>2, <1>3

\* load_state returns a state and its generation.
LEMMA LoadedType ==
    ASSUME TypeOK
    PROVE  /\ Newest \in Slots /\ LoadedValue \in Value /\ LoadedGeneration \in Nat
           /\ \A f : ApplyFlag(LoadedValue, f) \in Value /\ ApplyFlag(Default, f) \in Value
<1>1. Newest \in Slots
  BY DEF Newest, Slots
<1>2. Default \in Value
  BY StateAssumption DEF Default, Value
<1>3. LoadedValue \in Value /\ LoadedGeneration \in Nat
  <2>1. CASE Valid(Newest)
    <3>1. slot[Newest] \in Saved
      BY <1>1, <2>1, ValidIsSaved
    <3>2. QED
      BY <2>1, <3>1 DEF LoadedValue, LoadedGeneration, Saved
  <2>2. CASE ~Valid(Newest)
    BY <1>2, <2>2 DEF LoadedValue, LoadedGeneration
  <2>3. QED
    BY <2>1, <2>2
<1>4. \A v \in Value : \A f : ApplyFlag(v, f) \in Value
  BY DEF ApplyFlag, Value
<1>5. QED
  BY <1>1, <1>2, <1>3, <1>4

\* Both slots but the one that is written.
LEMMA TwoSlots ==
    ASSUME last_i \in Slots
    PROVE  NextSlot \in Slots /\ NextSlot # last_i /\ \A s \in Slots : s # last_i => s = NextSlot
BY DEF Slots, NextSlot

-----------------------------------------------------------------------------
\* Type correctness; save_state has a buffer whenever it writes.
THEOREM TypeCorrect == Spec => []TypeOK
<1>1. Init => TypeOK
  <2> SUFFICES ASSUME Init
               PROVE  TypeOK
    OBVIOUS
  <2>1. Default \in Value /\ 0 \in Slots
    BY StateAssumption DEF Default, Value, Slots
  <2>2. slot \in [Slots -> Saved \cup Spoiled]
    BY DEF Init, Spoiled
  <2>3. QED
    BY <2>1, <2>2 DEF Init, TypeOK
<1>2. TypeOK /\ [Next]_vars => TypeOK'
  <2> SUFFICES ASSUME TypeOK, [Next]_vars
               PROVE  TypeOK'
    OBVIOUS
  <2>1. ASSUME NEW f \in Flags, Load(f)
        PROVE  TypeOK'
    <3>1. /\ state' \in Value /\ loaded' \in Value /\ last_i' \in Slots /\ generation' \in Nat
          /\ pend' \in BOOLEAN
      BY <2>1, LoadedType DEF Load, FlagPending
    <3>2. files' \in BOOLEAN /\ allAtLoad' \in BOOLEAN /\ uncut' \in BOOLEAN
      BY <2>1 DEF Load
    <3>3. pc' = "wait" /\ saves' = 0 /\ lastSaved' = None /\ events' \in Nat
      BY <2>1 DEF Load, Event, TypeOK
    <3>4. QED
      BY <2>1, <3>1, <3>2, <3>3 DEF TypeOK, Load
  <2>2. ASSUME NEW f \in Flags, LoadUnopened(f)
        PROVE  TypeOK'
    <3>1. Default \in Value
      BY StateAssumption DEF Default, Value
    <3>2. ApplyFlag(Default, f) \in Value
      BY LoadedType
    <3>3. pend' \in BOOLEAN /\ files' \in BOOLEAN /\ allAtLoad' \in BOOLEAN /\ uncut' \in BOOLEAN
      BY <2>2 DEF LoadUnopened
    <3>4. pc' = "wait" /\ saves' = 0 /\ lastSaved' = None /\ events' \in Nat
      BY <2>2 DEF LoadUnopened, Event, TypeOK
    <3>5. QED
      BY <2>2, <3>1, <3>2, <3>3, <3>4 DEF TypeOK, LoadUnopened
  <2>3. ASSUME NEW v \in Value, SetState(v)
        PROVE  TypeOK'
    BY <2>3, StateAssumption DEF TypeOK, SetState, Event
  <2>4. CASE SaveWake
    BY <2>4 DEF TypeOK, SaveWake
  <2>5. CASE SaveRead
    <3>1. state \in Value /\ generation + 1 \in Nat /\ stamp + 1 \in Nat
      BY DEF TypeOK
    <3>2. buf' \in Saved /\ buf' # None
      BY <2>5, <3>1, BadAssumption DEF SaveRead, Saved
    <3>3. QED
      BY <2>5, <3>1, <3>2 DEF TypeOK, SaveRead
  <2>6. CASE WriteTorn
    <3>1. PICK c \in Partial(slot[last_i]) : slot' = [slot EXCEPT ![last_i] = c]
      BY <2>6 DEF WriteTorn
    <3>2. c \in Saved \cup Spoiled
      BY <2>6, PartialContents DEF WriteTorn, TypeOK
    <3>3. QED
      BY <2>6, <3>1, <3>2, StateAssumption DEF TypeOK, WriteTorn, Event
  <2>7. CASE WriteAll
    BY <2>7 DEF TypeOK, WriteAll, Overwritten, Spoiled
  <2>8. CASE Truncate
    BY <2>8, TwoSlots DEF TypeOK, Truncate
  <2>9. CASE Stop
    BY <2>9, StateAssumption DEF TypeOK, Stop, Event
  <2>10. CASE UNCHANGED vars
    BY <2>10 DEF TypeOK, vars
  <2>11. QED
    BY <2>1, <2>2, <2>3, <2>4, <2>5, <2>6, <2>7, <2>8, <2>9, <2>10 DEF Next, SaveState
<1>3. QED
  BY <1>1, <1>2, PTL DEF Spec

-----------------------------------------------------------------------------
\* While save_state runs, no readable file has a generation above the one it
\* counts, and no file at all was begun after stamp.
Counting ==
    /\ \A s \in Slots : Valid(s) => slot[s].stamp <= stamp
    /\ pc \in {"wait", "sleep"} /\ files =>
          \A s \in Slots : Valid(s) => slot[s].generation <= generation
    /\ pc \in {"sleep", "write", "truncate"} => files

\* While it writes, the buffer is newer than the file that is left alone, be
\* that a save or bytes of two; and what ftruncate meets is the save or a tail
\* behind it.
Writing ==
    pc \in {"write", "truncate"} =>
        /\ buf.generation = generation /\ buf.stamp = stamp
        /\ \A s \in Slots : s # last_i /\ Valid(s) =>
              slot[s].generation < generation /\ slot[s].stamp < stamp
        /\ pc = "truncate" => slot[last_i] \in {buf} \cup Spoiled

\* The last completed save, or one of two readable files, is in the slot that
\* is not written next.
Spare ==
    /\ pc # "down" /\ ~uncut /\ lastSaved # None => slot[NextSlot] = lastSaved
    /\ pc # "down" /\ ~uncut /\ allAtLoad => Valid(NextSlot)

OrderInv == Counting /\ Writing /\ GenerationOrder

\* A step that leaves the files and the counters alone and does not go on
\* with a save keeps the order.
LEMMA OrderUntouched ==
    ASSUME OrderInv,
           UNCHANGED <<slot, generation, stamp, buf, last_i>>,
           \/ pc' = pc /\ files' = files
           \/ pc' = "down"
           \/ pc' = "wait" /\ ~files'
           \/ pc = "wait" /\ pc' = "sleep" /\ files /\ files' = files
    PROVE  OrderInv'
<1>1. Counting'
  BY DEF OrderInv, Counting, Valid
<1>2. Writing'
  BY DEF OrderInv, Writing, Valid
<1>3. GenerationOrder'
  BY DEF OrderInv, GenerationOrder, Valid, Whole
<1>4. QED
  BY <1>1, <1>2, <1>3 DEF OrderInv

\* The generation that load_state returns is the highest.
LEMMA LoadedIsHighest ==
    ASSUME TypeOK, NEW s \in Slots, Valid(s)
    PROVE  slot[s].generation <= LoadedGeneration
<1>1. \A t \in Slots : Valid(t) => slot[t].generation \in Nat
  BY ValidIsSaved DEF Saved
<1>2. CASE Valid(0) /\ Valid(1)
  BY <1>1, <1>2 DEF LoadedGeneration, Newest, Slots
<1>3. CASE ~(Valid(0) /\ Valid(1))
  BY <1>1, <1>3 DEF LoadedGeneration, Newest, Slots
<1>4. QED
  BY <1>2, <1>3

\* What is written is newer than what is left, through any number of kills,
\* failed writes and restarts.
LEMMA OrderInvariant == Spec => []OrderInv
<1>1. Init => OrderInv
  BY DEF Init, OrderInv, Counting, Writing, GenerationOrder, Valid, Whole, Spoiled, Slots
<1>2. TypeOK /\ TypeOK' /\ OrderInv /\ [Next]_vars => OrderInv'
  <2> SUFFICES ASSUME TypeOK, TypeOK', OrderInv, [Next]_vars
               PROVE  OrderInv'
    OBVIOUS
  <2>0. /\ \A s \in Slots : Valid(s) => slot[s].generation \in Nat /\ slot[s].stamp \in Nat
        /\ generation \in Nat /\ stamp \in Nat /\ last_i \in Slots
    BY ValidIsSaved DEF Saved, TypeOK
  <2>1. ASSUME NEW f \in Flags, Load(f)
        PROVE  OrderInv'
    <3>1. /\ UNCHANGED <<slot, stamp>> /\ pc' = "wait"
          /\ generation' = LoadedGeneration
      BY <2>1 DEF Load
    <3>2. Counting' /\ Writing'
      BY <3>1, LoadedIsHighest DEF OrderInv, Counting, Writing, Valid
    <3>3. GenerationOrder'
      BY <3>1 DEF OrderInv, GenerationOrder, Valid, Whole
    <3>4. QED
      BY <3>2, <3>3 DEF OrderInv
  <2>2. ASSUME NEW f \in Flags, LoadUnopened(f)
        PROVE  OrderInv'
    BY <2>2, OrderUntouched DEF LoadUnopened
  <2>3. ASSUME NEW v \in Value, SetState(v)
        PROVE  OrderInv'
    BY <2>3, OrderUntouched DEF SetState
  <2>4. CASE SaveWake
    BY <2>4, OrderUntouched DEF SaveWake
  <2>5. CASE SaveRead
    <3>1. /\ slot' = slot /\ last_i' = last_i /\ files' = files
          /\ generation' = generation + 1 /\ stamp' = stamp + 1
          /\ buf'.generation = generation + 1 /\ buf'.stamp = stamp + 1
          /\ pc = "sleep" /\ pc' = "write"
      BY <2>5 DEF SaveRead
    <3>2. Counting' /\ Writing'
      BY <2>0, <3>1 DEF OrderInv, Counting, Writing, Valid
    <3>3. GenerationOrder'
      BY <3>1 DEF OrderInv, GenerationOrder, Valid, Whole
    <3>4. QED
      BY <3>2, <3>3 DEF OrderInv
  <2>6. CASE WriteTorn
    <3>1. PICK c \in Partial(slot[last_i]) : slot' = [slot EXCEPT ![last_i] = c]
      BY <2>6 DEF WriteTorn
    <3>2. c = slot[last_i] \/ c \in Spoiled \/ (c \in Saved /\ c.stamp = 0)
      BY <2>6, <3>1, PartialContents DEF TypeOK
    <3>3. \A s \in Slots : Valid(s)' => (Valid(s) /\ slot'[s] = slot[s]) \/ slot'[s].stamp = 0
      BY <3>1, <3>2 DEF Valid, TypeOK
    <3>4. pc' = "down" /\ stamp' = stamp
      BY <2>6 DEF WriteTorn
    <3>5. Counting' /\ Writing'
      BY <2>0, <3>3, <3>4 DEF OrderInv, Counting, Writing
    <3>6. GenerationOrder'
      BY <3>3 DEF OrderInv, GenerationOrder, Whole
    <3>7. QED
      BY <3>5, <3>6 DEF OrderInv
  <2>7. CASE WriteAll \/ Truncate
    <3>0. pc = "truncate" => slot[last_i] \in {buf} \cup Spoiled
      BY DEF OrderInv, Writing
    <3>1. PICK c \in {buf} \cup Spoiled : slot' = [slot EXCEPT ![last_i] = c]
      BY <2>7, <3>0 DEF WriteAll, Truncate, Overwritten, Spoiled
    <3>2. /\ UNCHANGED <<generation, stamp, buf, files>> /\ pc \in {"write", "truncate"}
          /\ \/ pc' = "truncate" /\ last_i' = last_i
             \/ pc' = "wait"
      BY <2>7 DEF WriteAll, Truncate
    <3>3. buf.generation = generation /\ buf.stamp = stamp
      BY <3>2 DEF OrderInv, Writing
    <3>4. \A s \in Slots : s # last_i /\ Valid(s)' =>
             /\ slot'[s] = slot[s] /\ Valid(s)
             /\ slot[s].generation < generation /\ slot[s].stamp < stamp
      BY <3>1, <3>2 DEF OrderInv, Writing, Valid, TypeOK
    <3>5. \A s \in Slots : s = last_i /\ Valid(s)' =>
             slot'[s].generation = generation /\ slot'[s].stamp = stamp
      BY <2>0, <3>1, <3>3 DEF Valid, TypeOK
    <3>6. Counting'
      BY <2>0, <3>2, <3>4, <3>5 DEF OrderInv, Counting
    <3>7. Writing'
      BY <2>0, <3>1, <3>2, <3>3, <3>4 DEF Writing, TypeOK
    <3>8. GenerationOrder'
      <4>1. \A s, t \in Slots : s # t => s = last_i \/ t = last_i
        BY <2>0, TwoSlots
      <4>2. \A s \in Slots : s # last_i /\ Valid(s)' =>
               /\ slot'[s].generation \in Nat /\ slot'[s].generation < generation
               /\ slot'[s].stamp \in Nat /\ slot'[s].stamp < stamp
        BY <2>0, <3>4
      <4>3. QED
        BY <2>0, <3>5, <4>1, <4>2 DEF GenerationOrder, Whole
    <3>9. QED
      BY <3>6, <3>7, <3>8 DEF OrderInv
  <2>8. CASE Stop
    BY <2>8, OrderUntouched DEF Stop
  <2>9. CASE UNCHANGED vars
    BY <2>9, OrderUntouched DEF vars
  <2>10. QED
    BY <2>1, <2>2, <2>3, <2>4, <2>5, <2>6, <2>7, <2>8, <2>9 DEF Next, SaveState
<1>3. QED
  BY <1>1, <1>2, TypeCorrect, PTL DEF Spec

\* The generations order the completed files by age, through any number of
\* kills, torn writes, failed ftruncates and restarts.
THEOREM GenerationOrderAlways == Spec => []GenerationOrder
<1>1. OrderInv => GenerationOrder
  BY DEF OrderInv
<1>2. QED
  BY <1>1, OrderInvariant, PTL

-----------------------------------------------------------------------------
\* The last completed save survives whatever happens to the next one, and a
\* daemon that found both files readable leaves one readable.
THEOREM SurvivorAlways == Spec => []Survivor
<1> DEFINE Inv == Spare /\ Survivor
<1>1. Init => Inv
  BY DEF Init, Spare, Survivor
<1>2. TypeOK /\ TypeOK' /\ Inv /\ [Next]_vars => Inv'
  <2> SUFFICES ASSUME TypeOK, TypeOK', Spare, Survivor, [Next]_vars
               PROVE  Spare' /\ Survivor'
    OBVIOUS
  <2>0. NextSlot \in Slots /\ NextSlot # last_i /\ last_i \in Slots
    BY TwoSlots DEF TypeOK
  <2>1. ASSUME NEW f \in Flags, Load(f)
        PROVE  Spare' /\ Survivor'
    <3>1. lastSaved' = None /\ slot' = slot /\ allAtLoad' = (\A s \in Slots : Valid(s))
      BY <2>1 DEF Load
    <3>2. NextSlot' \in Slots
      <4>1. last_i' = 0 \/ last_i' = 1
        BY DEF TypeOK, Slots
      <4>2. QED
        BY <4>1 DEF NextSlot, Slots
    <3>3. allAtLoad' => \A s \in Slots : Valid(s)'
      BY <3>1 DEF Valid
    <3>4. QED
      BY <2>0, <3>1, <3>2, <3>3 DEF Spare, Survivor
  <2>2. ASSUME NEW f \in Flags, LoadUnopened(f)
        PROVE  Spare' /\ Survivor'
    BY <2>2 DEF LoadUnopened, Spare, Survivor
  <2>3. ASSUME UNCHANGED <<slot, last_i, lastSaved, allAtLoad, uncut>>, pc # "down" \/ pc' = pc
        PROVE  Spare' /\ Survivor'
    BY <2>3 DEF Spare, Survivor, Valid, NextSlot
  <2>4. ASSUME NEW v \in Value, SetState(v)
        PROVE  Spare' /\ Survivor'
    BY <2>3, <2>4 DEF SetState
  <2>5. CASE SaveWake \/ SaveRead \/ Stop
    BY <2>3, <2>5 DEF SaveWake, SaveRead, Stop
  <2>6. CASE WriteTorn \/ WriteAll
    <3>1. PICK c : slot' = [slot EXCEPT ![last_i] = c]
      BY <2>6 DEF WriteTorn, WriteAll
    <3>2. pc # "down" /\ UNCHANGED <<last_i, lastSaved, allAtLoad, uncut>>
      BY <2>6 DEF WriteTorn, WriteAll
    <3>3. slot'[NextSlot] = slot[NextSlot] /\ NextSlot' = NextSlot
      BY <2>0, <3>1, <3>2 DEF TypeOK, NextSlot
    <3>4. QED
      BY <2>0, <3>2, <3>3 DEF Spare, Survivor, Valid
  <2>7. CASE Truncate
    <3>0. CASE uncut'
      BY <3>0 DEF Spare, Survivor
    <3> SUFFICES ASSUME ~uncut'
                 PROVE  Spare' /\ Survivor'
      BY <3>0
    <3>1. /\ slot' = [slot EXCEPT ![last_i] = buf] /\ lastSaved' = buf /\ last_i' = NextSlot
          /\ buf \in Saved
      BY <2>7 DEF Truncate, TypeOK
    <3>2. NextSlot' = last_i
      BY <2>0, <3>1 DEF NextSlot, Slots
    <3>3. slot'[last_i] = buf /\ buf \notin Spoiled
      BY <2>0, <3>1, BadAssumption DEF TypeOK
    <3>4. QED
      BY <2>0, <3>1, <3>2, <3>3 DEF Spare, Survivor, Valid
  <2>8. CASE UNCHANGED vars
    BY <2>3, <2>8 DEF vars
  <2>9. QED
    BY <2>1, <2>2, <2>4, <2>5, <2>6, <2>7, <2>8 DEF Next, SaveState
<1>3. Inv => Survivor
  OBVIOUS
<1>4. QED
  BY <1>1, <1>2, <1>3, TypeCorrect, PTL DEF Spec

-----------------------------------------------------------------------------
(* The files as one cell *)

ValueOf(c) == IF c \in Spoiled THEN Default ELSE c.val

\* Which of the files is at risk: the newest one in the first save of a run,
\* the older one from then on.  A failed ftruncate upsets the turns.
AtRisk ==
    /\ pc \in {"write", "truncate"} => buf.val = state
    /\ ~uncut /\ files /\ pc \in {"wait", "sleep", "write"} =>
          Newest = IF lastSaved = None THEN last_i ELSE NextSlot
    /\ ~uncut /\ files /\ pc # "down" => slot[NextSlot] # BadUtf8

\* The two values that load_state chooses from.
LEMMA PairOfValues ==
    ASSUME TypeOK, NEW i \in Slots, NEW j \in Slots, i # j
    PROVE  /\ Newest \in {i, j}
           /\ Newest = i => LoadedValue = ValueOf(slot[i]) /\ OlderValue = ValueOf(slot[j])
           /\ ~Valid(i) => LoadedValue = ValueOf(slot[j]) /\ OlderValue = Default
           /\ Valid(i) /\ (Valid(j) => slot[j].generation < slot[i].generation) => Newest = i
<1>1. /\ (i = 0 /\ j = 1) \/ (i = 1 /\ j = 0)
      /\ 1 - i = j
  BY DEF Slots
<1>2. Newest \in {i, j}
  BY <1>1 DEF Newest
<1>3. \A s \in Slots : Valid(s) <=> slot[s] \notin Spoiled
  BY DEF Valid
<1>4. Newest = i => LoadedValue = ValueOf(slot[i]) /\ OlderValue = ValueOf(slot[j])
  BY <1>1, <1>3 DEF LoadedValue, OlderValue, ValueOf
<1>5. \A s \in Slots : Valid(s) => slot[s].generation \in Nat
  BY ValidIsSaved DEF Saved
<1>6. Valid(i) /\ (Valid(j) => slot[j].generation < slot[i].generation) => Newest = i
  BY <1>1, <1>5 DEF Newest
<1>7. ASSUME ~Valid(i) PROVE LoadedValue = ValueOf(slot[j]) /\ OlderValue = Default
  <2>1. CASE Valid(j)
    <3>1. Newest = j
      BY <1>1, <1>7, <2>1 DEF Newest
    <3>2. 1 - j = i
      BY <1>1
    <3>3. QED
      BY <1>3, <1>7, <2>1, <3>1, <3>2 DEF LoadedValue, OlderValue, ValueOf
  <2>2. CASE ~Valid(j)
    <3>1. ~Valid(Newest) /\ ~Valid(1 - Newest)
      BY <1>1, <1>2, <1>7, <2>2
    <3>2. QED
      BY <1>3, <2>2, <3>1 DEF LoadedValue, OlderValue, ValueOf
  <2>3. QED
    BY <2>1, <2>2
<1>8. QED
  BY <1>2, <1>4, <1>6, <1>7

\* What a start reads depends on the files alone.
LEMMA FilesDecide ==
    ASSUME slot' = slot
    PROVE  /\ Newest' = Newest /\ LoadedValue' = LoadedValue /\ OlderValue' = OlderValue
           /\ Unreadable' = Unreadable
BY DEF Newest, LoadedValue, OlderValue, Unreadable, Valid

\* The same of the next state.
LEMMA PairAfter ==
    ASSUME TypeOK', NEW i \in Slots, NEW j \in Slots, i # j
    PROVE  /\ Newest' \in {i, j}
           /\ Newest' = i => LoadedValue' = ValueOf(slot'[i]) /\ OlderValue' = ValueOf(slot'[j])
           /\ slot'[i] \in Spoiled => LoadedValue' = ValueOf(slot'[j]) /\ OlderValue' = Default
           /\ /\ slot'[i] \notin Spoiled
              /\ slot'[j] \notin Spoiled => slot'[j].generation < slot'[i].generation
              => Newest' = i
<1>1. /\ (i = 0 /\ j = 1) \/ (i = 1 /\ j = 0)
      /\ 1 - i = j /\ 1 - j = i
  BY DEF Slots
<1>2. Newest' \in {i, j}
  BY <1>1 DEF Newest
<1>3. \A s \in Slots : Valid(s)' <=> slot'[s] \notin Spoiled
  BY DEF Valid
<1>4. Newest' = i => LoadedValue' = ValueOf(slot'[i]) /\ OlderValue' = ValueOf(slot'[j])
  BY <1>1, <1>3 DEF LoadedValue, OlderValue, ValueOf
<1>5. \A s \in Slots : slot'[s] \notin Spoiled => slot'[s].generation \in Nat
  BY DEF TypeOK, Saved, Spoiled
<1>6. /\ slot'[i] \notin Spoiled
      /\ slot'[j] \notin Spoiled => slot'[j].generation < slot'[i].generation
      => Newest' = i
  BY <1>1, <1>3, <1>5 DEF Newest
<1>7. ASSUME slot'[i] \in Spoiled PROVE LoadedValue' = ValueOf(slot'[j]) /\ OlderValue' = Default
  <2>1. CASE slot'[j] \notin Spoiled
    <3>1. Newest' = j
      BY <1>1, <1>3, <1>7, <2>1 DEF Newest
    <3>2. QED
      BY <1>1, <1>3, <1>7, <2>1, <3>1 DEF LoadedValue, OlderValue, ValueOf
  <2>2. CASE slot'[j] \in Spoiled
    <3>1. LoadedValue' = Default
      BY <1>2, <1>3, <1>7, <2>2 DEF LoadedValue
    <3>2. OlderValue' = Default
      BY <1>1, <1>2, <1>3, <1>7, <2>2 DEF OlderValue
    <3>3. QED
      BY <2>2, <3>1, <3>2 DEF ValueOf
  <2>3. QED
    BY <2>1, <2>2
<1>8. QED
  BY <1>2, <1>4, <1>6, <1>7

\* Both are states, whatever the files hold; and a write to one file leaves the
\* value of the other among the two.
LEMMA ValuesAfter ==
    ASSUME TypeOK'
    PROVE  LoadedValue' \in Value /\ OlderValue' \in Value
<1>1. Default \in Value
  BY StateAssumption DEF Default, Value
<1>2. \A s \in Slots : ValueOf(slot'[s]) \in Value
  <2> SUFFICES ASSUME NEW s \in Slots PROVE ValueOf(slot'[s]) \in Value
    OBVIOUS
  <2>1. slot'[s] \in Spoiled \/ slot'[s] \in Saved
    BY DEF TypeOK
  <2>2. slot'[s] \in Saved => slot'[s].val \in Value
    BY DEF Saved
  <2>3. QED
    BY <1>1, <2>1, <2>2 DEF ValueOf
<1>3. 0 \in Slots /\ 1 \in Slots
  BY DEF Slots
<1>4. \/ LoadedValue' = ValueOf(slot'[0]) /\ OlderValue' = ValueOf(slot'[1])
      \/ LoadedValue' = ValueOf(slot'[1]) /\ OlderValue' = ValueOf(slot'[0])
  BY <1>3, PairAfter
<1>5. QED
  BY <1>2, <1>3, <1>4

LEMMA OtherStays ==
    ASSUME TypeOK, TypeOK', AtRisk, files, ~uncut, pc = "write",
           NEW c, slot' = [slot EXCEPT ![last_i] = c]
    PROVE  (IF lastSaved = None THEN OlderValue ELSE LoadedValue) \in {LoadedValue', OlderValue'}
<1>1. PICK i \in Slots, j \in Slots : i = last_i /\ j = NextSlot /\ i # j
  BY TwoSlots DEF TypeOK
<1>2. slot'[j] = slot[j]
  BY <1>1 DEF TypeOK
<1>3. Newest = IF lastSaved = None THEN i ELSE j
  BY <1>1 DEF AtRisk
<1>4. ValueOf(slot[j]) = IF lastSaved = None THEN OlderValue ELSE LoadedValue
  BY <1>1, <1>3, PairOfValues
<1>5. ValueOf(slot'[j]) \in {LoadedValue', OlderValue'}
  BY <1>1, PairAfter
<1>6. ValueOf(slot'[j]) = ValueOf(slot[j])
  BY <1>2, Zenon
<1>7. QED
  BY <1>4, <1>5, <1>6

\* The file that is being written becomes the newest when it is complete.
LEMMA StoredIsNewest ==
    ASSUME TypeOK, TypeOK', OrderInv, AtRisk, pc \in {"write", "truncate"},
           slot' = [slot EXCEPT ![last_i] = buf],
           NEW i \in Slots, NEW j \in Slots, i = last_i, j = NextSlot, i # j
    PROVE  /\ Newest' = i /\ LoadedValue' = state
           /\ OlderValue' \in {OlderValue, LoadedValue, Default}
<1>1. buf \in Saved /\ buf \notin Spoiled /\ buf.val = state
  BY BadAssumption DEF TypeOK, AtRisk
<1>2. slot'[i] = buf /\ slot'[j] = slot[j]
  BY DEF TypeOK
<1>3. slot[j] \notin Spoiled => slot[j].generation < buf.generation
  BY DEF OrderInv, Writing, Valid
<1>4. Newest' = i /\ LoadedValue' = ValueOf(buf) /\ OlderValue' = ValueOf(slot[j])
  BY <1>1, <1>2, <1>3, PairAfter
<1>5. ValueOf(slot[j]) \in {OlderValue, LoadedValue, Default}
  BY PairOfValues
<1>6. QED
  BY <1>1, <1>4, <1>5 DEF ValueOf

\* The file at risk is known wherever save_state awaits, through restarts that
\* fell back to the older one.
LEMMA RiskInvariant == Spec => []AtRisk
<1>1. Init => AtRisk
  BY DEF Init, AtRisk
<1>2. TypeOK /\ TypeOK' /\ OrderInv /\ AtRisk /\ [Next]_vars => AtRisk'
  <2> SUFFICES ASSUME TypeOK, TypeOK', OrderInv, AtRisk, [Next]_vars
               PROVE  AtRisk'
    OBVIOUS
  <2>0. NextSlot \in Slots /\ NextSlot # last_i /\ last_i \in Slots
    BY TwoSlots DEF TypeOK
  <2>1. ASSUME NEW f \in Flags, Load(f)
        PROVE  AtRisk'
    <3>1. /\ slot' = slot /\ pc' = "wait" /\ lastSaved' = None /\ last_i' = Newest
          /\ \A s \in Slots : slot[s] # BadUtf8
      BY <2>1 DEF Load
    <3>2. NextSlot' \in Slots
      <4>1. last_i' = 0 \/ last_i' = 1
        BY DEF TypeOK, Slots
      <4>2. QED
        BY <4>1 DEF NextSlot, Slots
    <3>3. QED
      BY <3>1, <3>2, FilesDecide DEF AtRisk
  <2>2. ASSUME NEW f \in Flags, LoadUnopened(f)
        PROVE  AtRisk'
    BY <2>2 DEF LoadUnopened, AtRisk
  <2>3. ASSUME UNCHANGED <<slot, last_i, lastSaved, files, uncut>>, pc # "down",
               pc' \in {"wait", "sleep", "write"} => pc \in {"wait", "sleep", "write"},
               pc' \in {"write", "truncate"} => buf'.val = state'
        PROVE  AtRisk'
    <3>1. NextSlot' = NextSlot
      BY <2>3 DEF NextSlot
    <3>2. QED
      BY <2>3, <3>1, FilesDecide DEF AtRisk
  <2>4. ASSUME NEW v \in Value, SetState(v)
        PROVE  AtRisk'
    BY <2>3, <2>4 DEF SetState
  <2>5. CASE SaveWake \/ SaveRead
    BY <2>3, <2>5 DEF SaveWake, SaveRead
  <2>6. CASE WriteTorn \/ Stop
    BY <2>6 DEF WriteTorn, Stop, AtRisk
  <2>7. CASE WriteAll
    <3>1. PICK c : slot' = [slot EXCEPT ![last_i] = c]
      BY <2>7 DEF WriteAll
    <3>2. /\ pc = "write" /\ pc' = "truncate"
          /\ UNCHANGED <<last_i, files, buf, state, lastSaved, uncut>>
      BY <2>7 DEF WriteAll
    <3>3. NextSlot' = NextSlot /\ slot'[NextSlot] = slot[NextSlot]
      BY <2>0, <3>1, <3>2 DEF NextSlot, TypeOK
    <3>4. QED
      BY <3>2, <3>3 DEF AtRisk
  <2>8. CASE Truncate
    <3>0. CASE uncut'
      BY <2>8, <3>0 DEF Truncate, AtRisk
    <3> SUFFICES ASSUME ~uncut'
                 PROVE  AtRisk'
      BY <3>0
    <3>1. /\ slot' = [slot EXCEPT ![last_i] = buf] /\ lastSaved' = buf /\ last_i' = NextSlot
          /\ pc = "truncate" /\ pc' = "wait" /\ buf \in Saved
      BY <2>8 DEF Truncate, TypeOK
    <3>2. NextSlot' = last_i
      BY <2>0, <3>1 DEF NextSlot, Slots
    <3>3. Newest' = last_i
      BY <2>0, <3>1, StoredIsNewest
    <3>4. slot'[last_i] = buf /\ buf \notin {BadUtf8, None}
      BY <2>0, <3>1, BadAssumption DEF TypeOK, Spoiled
    <3>5. QED
      BY <3>1, <3>2, <3>3, <3>4 DEF AtRisk
  <2>9. CASE UNCHANGED vars
    <3>1. NextSlot' = NextSlot
      BY <2>9 DEF vars, NextSlot
    <3>2. QED
      BY <2>9, <3>1, FilesDecide DEF vars, AtRisk
  <2>10. QED
    BY <2>1, <2>2, <2>4, <2>5, <2>6, <2>7, <2>8, <2>9 DEF Next, SaveState
<1>3. QED
  BY <1>1, <1>2, TypeCorrect, OrderInvariant, PTL DEF Spec

\* A write that leaves the file unreadable.
LEMMA SpoiltFallsBack ==
    ASSUME TypeOK, TypeOK', AtRisk, files, ~uncut, pc = "write",
           NEW c \in Spoiled, slot' = [slot EXCEPT ![last_i] = c]
    PROVE  /\ LoadedValue' = IF lastSaved = None THEN OlderValue ELSE LoadedValue
           /\ OlderValue' = Default
<1>1. PICK i \in Slots, j \in Slots : i = last_i /\ j = NextSlot /\ i # j
  BY TwoSlots DEF TypeOK
<1>2. slot'[i] = c /\ slot'[j] = slot[j]
  BY <1>1 DEF TypeOK
<1>3. LoadedValue' = ValueOf(slot[j]) /\ OlderValue' = Default
  BY <1>1, <1>2, PairAfter
<1>4. Newest = IF lastSaved = None THEN i ELSE j
  BY <1>1 DEF AtRisk
<1>5. ValueOf(slot[j]) = IF lastSaved = None THEN OlderValue ELSE LoadedValue
  BY <1>1, <1>4, PairOfValues
<1>6. QED
  BY <1>3, <1>5

\* The safety half of KeepsSaves: whatever a kill, a failed write, a failed
\* ftruncate or a restart meets, what load_state would return moves only to the
\* state being saved, or to the older save in the first save of a run, except
\* that a write which stops part way may leave anything in the file it wrote.
THEOREM ImplementsCell == Spec => Cell!Init /\ [][Cell!Next]_(Cell!cellVars)
<1>1. Init => Cell!Init
  <2> SUFFICES ASSUME Init PROVE Cell!Init
    OBVIOUS
  <2>1. \A s \in Slots : slot[s] = Empty /\ ~Valid(s)
    BY DEF Init, Valid, Spoiled
  <2>2. Newest \in Slots /\ 1 - Newest \in Slots
    BY DEF Newest, Slots
  <2>3. LoadedValue = Default /\ OlderValue = Default
    BY <2>1, <2>2 DEF LoadedValue, OlderValue
  <2>4. ~Unreadable /\ CellLife = "down"
    BY <2>1, DistinctAssumption DEF Unreadable, CellLife, Init
  <2>5. QED
    BY <2>3, <2>4 DEF Cell!Init
<1>2. TypeOK /\ TypeOK' /\ OrderInv /\ AtRisk /\ [Next]_vars => [Cell!Next]_(Cell!cellVars)
  <2> SUFFICES ASSUME TypeOK, TypeOK', OrderInv, AtRisk, [Next]_vars
               PROVE  [Cell!Next]_(Cell!cellVars)
    OBVIOUS
  <2> USE DEF Cell!Next, Cell!cellVars
  <2>0. pc \in {"sleep", "write", "truncate"} => files
    BY DEF OrderInv, Counting
  <2>1. ASSUME NEW f \in Flags, Load(f)
        PROVE  Cell!Start
    <3>1. /\ pc = "down" /\ \A s \in Slots : slot[s] # BadUtf8
          /\ state' = ApplyFlag(LoadedValue, f) /\ slot' = slot
          /\ pc' = "wait" /\ files' = TRUE /\ lastSaved' = None /\ uncut' = FALSE
      BY <2>1 DEF Load
    <3>2. CellLife = "down" /\ CellLife' = "first" /\ ~Unreadable
      BY <3>1 DEF CellLife, Unreadable
    <3>3. state' \in Cell!Started(LoadedValue)
      BY <3>1 DEF Cell!Started, ApplyFlag
    <3>4. QED
      BY <3>1, <3>2, <3>3, FilesDecide DEF Cell!Start
  <2>2. ASSUME NEW f \in Flags, LoadUnopened(f)
        PROVE  Cell!StartUnsaved
    <3>1. /\ pc = "down" /\ state' = ApplyFlag(Default, f) /\ slot' = slot
          /\ pc' = "wait" /\ files' = FALSE
      BY <2>2 DEF LoadUnopened
    <3>2. CellLife = "down" /\ CellLife' = "unsaved"
      BY <3>1 DEF CellLife
    <3>3. state' \in Cell!Started(Default)
      BY <3>1 DEF Cell!Started, ApplyFlag
    <3>4. QED
      BY <3>1, <3>2, <3>3, FilesDecide DEF Cell!StartUnsaved
  <2>3. ASSUME NEW v \in Value, SetState(v)
        PROVE  Cell!Change
    <3>1. state' \in Value /\ UNCHANGED <<slot, pc, files, lastSaved, uncut>> /\ pc # "down"
      BY <2>3 DEF SetState
    <3>2. CellLife' = CellLife /\ CellLife # "down"
      BY <3>1 DEF CellLife
    <3>3. QED
      BY <3>1, <3>2, FilesDecide DEF Cell!Change
  <2>4. ASSUME UNCHANGED <<slot, state, files, lastSaved, uncut>>, pc = pc' \/ (pc # "down" /\ pc' # "down")
        PROVE  UNCHANGED Cell!cellVars
    <3>1. CellLife' = CellLife
      BY <2>4 DEF CellLife
    <3>2. QED
      BY <2>4, <3>1, FilesDecide
  <2>5. CASE SaveWake \/ SaveRead \/ UNCHANGED vars
    BY <2>4, <2>5 DEF SaveWake, SaveRead, vars
  <2>6. ASSUME pc \in {"write", "truncate"}, uncut', UNCHANGED <<state, files>>
        PROVE  Cell!Uncut
    <3>1. CellLife \in {"first", "kept", "uncut"} /\ CellLife' \in {"uncut", "down"}
      BY <2>0, <2>6 DEF CellLife
    <3>2. Unreadable' \in BOOLEAN
      BY DEF Unreadable
    <3>3. QED
      BY <2>6, <3>1, <3>2, ValuesAfter DEF Cell!Uncut, Cell!Saves
  <2>7. CASE WriteTorn
    <3>1. PICK c : slot' = [slot EXCEPT ![last_i] = c]
      BY <2>7 DEF WriteTorn
    <3>2. pc = "write" /\ pc' = "down" /\ UNCHANGED <<state, files, lastSaved, uncut>> /\ files
      BY <2>0, <2>7 DEF WriteTorn
    <3>3. CASE ~uncut
      <4>1. CellLife = (IF lastSaved = None THEN "first" ELSE "kept") /\ CellLife' = "down"
        BY <3>2, <3>3 DEF CellLife
      <4>2. (IF CellLife = "first" THEN OlderValue ELSE LoadedValue) \in {LoadedValue', OlderValue'}
        BY <3>1, <3>2, <3>3, <4>1, OtherStays
      <4>3. Unreadable' \in BOOLEAN
        BY DEF Unreadable
      <4>4. QED
        BY <3>2, <4>1, <4>2, <4>3, ValuesAfter DEF Cell!Tear, Cell!Saves
    <3>4. QED
      BY <2>6, <3>2, <3>3
  <2>8. CASE WriteAll
    <3>1. PICK c \in {buf} \cup Spoiled : slot' = [slot EXCEPT ![last_i] = c]
      BY <2>8 DEF WriteAll, Overwritten, Spoiled
    <3>2. pc = "write" /\ pc' = "truncate" /\ UNCHANGED <<state, files, lastSaved, uncut>> /\ files
      BY <2>0, <2>8 DEF WriteAll
    <3>3. CASE ~uncut
      <4>1. /\ CellLife = IF lastSaved = None THEN "first" ELSE "kept"
            /\ CellLife' = CellLife /\ Unreadable' \in BOOLEAN
        BY <3>2, <3>3 DEF CellLife, Unreadable
      <4>2. /\ LoadedValue' \in {LoadedValue, state} \cup (IF lastSaved = None THEN {OlderValue} ELSE {})
            /\ OlderValue' \in {OlderValue, LoadedValue, state, Default}
        <5>1. CASE c = buf
          <6>1. NextSlot \in Slots /\ NextSlot # last_i /\ last_i \in Slots
            BY TwoSlots DEF TypeOK
          <6>2. LoadedValue' = state /\ OlderValue' \in {OlderValue, LoadedValue, Default}
            BY <3>1, <3>2, <5>1, <6>1, StoredIsNewest
          <6>3. QED
            BY <6>2
        <5>2. CASE c \in Spoiled
          BY <3>1, <3>2, <3>3, <5>2, SpoiltFallsBack
        <5>3. QED
          BY <3>1, <5>1, <5>2
      <4>3. QED
        BY <3>2, <4>1, <4>2 DEF Cell!Write, Cell!Saves, Cell!Older
    <3>4. QED
      BY <2>6, <3>2, <3>3
  <2>9. CASE Truncate
    <3>0. CASE uncut'
      BY <2>6, <2>9, <3>0 DEF Truncate
    <3> SUFFICES ASSUME ~uncut'
                 PROVE  Cell!Complete
      BY <3>0
    <3>1. /\ slot' = [slot EXCEPT ![last_i] = buf] /\ pc = "truncate" /\ pc' = "wait" /\ files
          /\ lastSaved' = buf /\ UNCHANGED <<state, files>> /\ buf \in Saved /\ ~uncut
      BY <2>0, <2>9 DEF Truncate, TypeOK
    <3>2. NextSlot \in Slots /\ NextSlot # last_i /\ last_i \in Slots
      BY TwoSlots DEF TypeOK
    <3>3. LoadedValue' = state /\ OlderValue' \in {OlderValue, LoadedValue, Default}
      BY <3>1, <3>2, StoredIsNewest
    <3>4. Unreadable' = FALSE
      <4>1. \A s \in Slots : s = last_i \/ s = NextSlot
        BY <3>2, TwoSlots
      <4>2. slot[NextSlot] # BadUtf8 /\ buf # BadUtf8
        BY <3>1, BadAssumption DEF AtRisk, Spoiled
      <4>3. \A s \in Slots : slot'[s] # BadUtf8
        BY <3>1, <3>2, <4>1, <4>2 DEF TypeOK
      <4>4. QED
        BY <4>3 DEF Unreadable
    <3>5. CellLife \in {"first", "kept"} /\ CellLife' = "kept"
      BY <3>1, BadAssumption DEF CellLife
    <3>6. QED
      BY <3>1, <3>3, <3>4, <3>5 DEF Cell!Complete, Cell!Saves, Cell!Older
  <2>10. CASE Stop
    <3>1. pc # "down" /\ pc' = "down" /\ UNCHANGED <<slot, state>>
      BY <2>10 DEF Stop
    <3>2. CellLife # "down" /\ CellLife' = "down"
      BY <3>1 DEF CellLife
    <3>3. QED
      BY <3>1, <3>2, FilesDecide DEF Cell!Stop
  <2>11. QED
    BY <2>1, <2>2, <2>3, <2>5, <2>7, <2>8, <2>9, <2>10 DEF Next, SaveState
<1>3. QED
  BY <1>1, <1>2, TypeCorrect, OrderInvariant, RiskInvariant, PTL DEF Spec
=============================================================================
