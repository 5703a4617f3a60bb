------------------------------ MODULE StateFiles ------------------------------
(***************************************************************************)
(* The saved state (load_state and save_state in rebpf/main.rs): two files *)
(* are written in turn, and the daemon starts from the readable one with   *)
(* the higher generation.                                                  *)
(*                                                                         *)
(* The runtime has one thread and save_state does not await between the    *)
(* read of the state and ftruncate, so the state does not change there; the *)
(* process may be killed at any point.  Losing power is not modelled: the  *)
(* code never syncs a file.                                                *)
(***************************************************************************)
EXTENDS Integers

CONSTANTS
    Devs,       \* values of to_dev
    DefaultDev, \* to_dev of a fresh state
    Empty,      \* a file that was created and never written
    BadJson,    \* other contents that serde_json refuses
    BadUtf8,    \* contents that read_to_string refuses
    None,       \* nothing saved yet
    MixedGens,  \* generations that the digits of two saves may read as
    MaxEvents   \* bound on changes of the state and on restarts

ASSUME StateAssumption ==
    /\ DefaultDev \in Devs
    /\ MaxEvents \in Nat
    /\ MixedGens \subseteq Nat

VARIABLES
    slot,         \* contents of the two files
    state,        \* ctx.state
    pend,         \* save_state has not seen the newest state
    pc,           \* save_state: "wait", "sleep", "write", "truncate"; or "down"
    files,        \* whether load_state could open the files
    last_i, generation, buf,
    loaded,       \* history: the state load_state returned
    saves,        \* history: saves completed since the start
    lastSaved,    \* history: contents of the last completed save, or None
    allAtLoad,    \* history: both files were readable at the start
    uncut,        \* history: an ftruncate of this run failed and left a tail
    stamp,        \* history: number of saves begun, over all starts
    events

vars == <<slot, state, pend, pc, files, last_i, generation, buf,
          loaded, saves, lastSaved, allAtLoad, uncut, stamp, events>>

Slots == {0, 1}
Value == [enable : BOOLEAN, to_dev : Devs]
Default == [enable |-> FALSE, to_dev |-> DefaultDev]

\* A state file that parses; stamp is not in the file, it numbers the saves,
\* and is 0 for the bytes of two saves that parse together.
Saved == [val : Value, generation : Nat, stamp : Nat]
Spoiled == {Empty, BadJson, BadUtf8}
Valid(s) == slot[s] \notin Spoiled
Whole(s) == Valid(s) /\ slot[s].stamp # 0

ASSUME BadAssumption == (Spoiled \cup {None}) \cap Saved = {}
ASSUME DistinctAssumption == BadUtf8 \notin {Empty, BadJson}

-----------------------------------------------------------------------------
(* load_state *)

\* The loop over the files: the last readable one with the highest generation.
\* A slip that does not look at the generation.
NewestReadable == IF Valid(1) THEN 1 ELSE 0
Newest ==
    IF Valid(0) /\ Valid(1) THEN (IF slot[0].generation <= slot[1].generation THEN 1 ELSE 0)
    ELSE IF Valid(1) THEN 1 ELSE 0

\* The state's generation, from which save_state counts on; a slip that
\* counts from 0 again.
LoadedGenerationZero == 0
LoadedGeneration == IF Valid(Newest) THEN slot[Newest].generation ELSE 0

LoadedValue == IF Valid(Newest) THEN slot[Newest].val ELSE Default

\* run() applies --enable or --disable to the loaded state, after rx has been
\* marked unchanged; a slip that marks it later.
ApplyFlag(v, flag) == IF flag = "none" THEN v ELSE [v EXCEPT !.enable = (flag = "enable")]
FlagPendingLate(v, flag) == FALSE
FlagPending(v, flag) == ApplyFlag(v, flag) # v

Init ==
    /\ slot = [s \in Slots |-> Empty]
    /\ state = Default /\ pend = FALSE
    /\ pc = "down" /\ files = FALSE
    /\ last_i = 0 /\ generation = 0 /\ buf = None
    /\ loaded = Default /\ saves = 0 /\ lastSaved = None /\ allAtLoad = FALSE
    /\ uncut = FALSE /\ stamp = 0
    /\ events = 0

Event == events < MaxEvents /\ events' = events + 1

\* The daemon starts.  A file that is not UTF-8 makes load_state return an
\* error, and the daemon does not start.
Load(flag) ==
    /\ Event
    /\ pc = "down"
    /\ \A s \in Slots : slot[s] # BadUtf8
    /\ state' = ApplyFlag(LoadedValue, flag)
    /\ pend' = FlagPending(LoadedValue, flag)
    /\ last_i' = Newest
    /\ generation' = LoadedGeneration
    /\ files' = TRUE
    /\ pc' = "wait"
    /\ loaded' = LoadedValue
    /\ saves' = 0 /\ lastSaved' = None
    /\ allAtLoad' = \A s \in Slots : Valid(s)
    /\ uncut' = FALSE
    /\ UNCHANGED <<slot, buf, stamp>>

\* A file cannot be opened: the daemon runs with a fresh state that is not
\* saved.
LoadUnopened(flag) ==
    /\ Event
    /\ pc = "down"
    /\ state' = ApplyFlag(Default, flag)
    /\ pend' = FALSE
    /\ files' = FALSE
    /\ pc' = "wait"
    /\ loaded' = Default
    /\ saves' = 0 /\ lastSaved' = None
    /\ allAtLoad' = FALSE
    /\ uncut' = FALSE
    /\ UNCHANGED <<slot, last_i, generation, buf, stamp>>

\* A D-Bus call changes the state while save_state awaits.
SetState(v) ==
    /\ Event
    /\ pc \in {"wait", "sleep"}
    /\ state' = v
    /\ pend' = files
    /\ UNCHANGED <<slot, pc, files, last_i, generation, buf, loaded, saves, lastSaved, allAtLoad,
                   uncut, stamp>>

-----------------------------------------------------------------------------
(* save_state *)

\* rx.changed() returns, and with it the 100 ms begin.
SaveWake ==
    /\ files
    /\ pc = "wait" /\ pend
    /\ pend' = FALSE
    /\ pc' = "sleep"
    /\ UNCHANGED <<slot, state, files, last_i, generation, buf, loaded, saves, lastSaved,
                   allAtLoad, uncut, stamp, events>>

SaveRead ==
    /\ pc = "sleep"
    /\ pend' = FALSE
    /\ generation' = generation + 1
    /\ stamp' = stamp + 1
    /\ buf' = [val |-> state, generation |-> generation + 1, stamp |-> stamp + 1]
    /\ pc' = "write"
    /\ UNCHANGED <<slot, state, files, last_i, loaded, saves, lastSaved, allAtLoad, uncut, events>>

\* What a file may hold when the write stopped part way: the first bytes of
\* the new save, followed by what the file held from there on.  A beginning
\* alone never parses.  Over old bytes it seldom does; if it does, each field
\* is the new one, the one of whatever save left those bytes (not only the
\* last: an unreadable file keeps its tail), or the two run together, the
\* digits of the generation included.
Mixtures == [val : Value, generation : MixedGens, stamp : {0}]
Partial(old) ==
    {old, BadJson, BadUtf8} \cup IF old = Empty THEN {} ELSE Mixtures

\* write_all fails, which ends the daemon, or the process is killed.
WriteTorn ==
    /\ Event
    /\ pc = "write"
    /\ \E c \in Partial(slot[last_i]) : slot' = [slot EXCEPT ![last_i] = c]
    /\ pc' = "down"
    /\ UNCHANGED <<state, pend, files, last_i, generation, buf, loaded, saves, lastSaved, allAtLoad,
                   uncut, stamp>>

\* All bytes are written; a longer old file leaves a tail, which serde_json
\* refuses.
Overwritten(old) == IF old = Empty THEN {buf} ELSE {buf, BadJson, BadUtf8}

WriteAll ==
    /\ pc = "write"
    /\ \E c \in Overwritten(slot[last_i]) : slot' = [slot EXCEPT ![last_i] = c]
    /\ pc' = "truncate"
    /\ UNCHANGED <<state, pend, files, last_i, generation, buf, loaded, saves, lastSaved,
                   allAtLoad, uncut, stamp, events>>

\* The slot to write next; slips that stay on the slot just written, or walk
\* off the end.
NextSlotSame == last_i
NextSlotNoWrap == last_i + 1
NextSlot == (last_i + 1) % 2

\* The result of ftruncate is not looked at: when it fails a tail stays, and
\* save_state goes on as if the file had been saved.
Truncate ==
    /\ pc = "truncate"
    /\ \E c \in {buf, slot[last_i]} :
          /\ slot' = [slot EXCEPT ![last_i] = c]
          /\ uncut' = (uncut \/ c # buf)
    /\ last_i' = NextSlot
    /\ pc' = "wait"
    /\ saves' = saves + 1
    /\ lastSaved' = buf
    /\ UNCHANGED <<state, pend, files, generation, buf, loaded, allAtLoad, stamp, events>>

\* The daemon exits or is killed, anywhere.
Stop ==
    /\ Event
    /\ pc # "down"
    /\ pc' = "down"
    /\ UNCHANGED <<slot, state, pend, files, last_i, generation, buf, loaded, saves, lastSaved,
                   allAtLoad, uncut, stamp>>

-----------------------------------------------------------------------------
Flags == {"none", "enable", "disable"}
SaveState == SaveWake \/ SaveRead \/ WriteAll \/ Truncate

Next ==
    \/ \E f \in Flags : Load(f) \/ LoadUnopened(f)
    \/ \E v \in Value : SetState(v)
    \/ SaveState \/ WriteTorn \/ Stop

\* A running save_state is polled and its sleep ends; nothing restarts a
\* stopped daemon by itself.
Spec == Init /\ [][Next]_vars
FairSpec == Spec /\ WF_vars(SaveState)

-----------------------------------------------------------------------------
(* Properties *)

\* Types of all variables.
TypeOK ==
    /\ slot \in [Slots -> Saved \cup Spoiled]
    /\ state \in Value /\ loaded \in Value
    /\ pend \in BOOLEAN /\ files \in BOOLEAN /\ allAtLoad \in BOOLEAN /\ uncut \in BOOLEAN
    /\ pc \in {"down", "wait", "sleep", "write", "truncate"}
    /\ last_i \in Slots /\ generation \in Nat
    /\ buf \in Saved \cup {None} /\ lastSaved \in Saved \cup {None}
    /\ pc \in {"write", "truncate"} => buf # None
    /\ saves \in Nat /\ stamp \in Nat /\ events \in Nat

\* The generations order the files that a save completed as their saves were
\* begun, also after restarts that fell back to the older one or that started
\* from the bytes of two saves: of two such files load_state returns the newer.
GenerationOrder ==
    \A s, t \in Slots :
        Whole(s) /\ Whole(t) /\ s # t =>
            /\ slot[s].generation # slot[t].generation
            /\ slot[s].generation < slot[t].generation <=> slot[s].stamp < slot[t].stamp

\* What a kill or a failed write can cost, unless an ftruncate failed: from the
\* first completed save on, the last completed save survives whatever happens
\* to the next one; before it, a daemon that found both files readable leaves
\* one readable.
Survivor ==
    ~uncut =>
        /\ lastSaved # None => \E s \in Slots : slot[s] = lastSaved
        /\ allAtLoad => \E s \in Slots : Valid(s)

\* A changed state reaches a file unless the daemon stops or an ftruncate fails:
\* a change during the 100 ms is not lost, nor is one made by --enable or
\* --disable.
SavedEventually ==
    (files /\ pc # "down" /\ state # loaded)
        ~> \/ pc = "down" \/ uncut \/ state = loaded
           \/ \E s \in Slots : Valid(s) /\ slot[s].val = state

-----------------------------------------------------------------------------
(* What the files promise *)

\* The other readable file.
OlderValue == LET s == 1 - Newest IN IF Valid(s) THEN slot[s].val ELSE Default

\* read_to_string fails.
Unreadable == \E s \in Slots : slot[s] = BadUtf8

CellLife ==
    IF pc = "down" THEN "down"
    ELSE IF ~files THEN "unsaved"
    ELSE IF uncut THEN "uncut"
    ELSE IF lastSaved = None THEN "first" ELSE "kept"

Cell == INSTANCE DurableCell
            WITH val <- state, newest <- LoadedValue, older <- OlderValue,
                 refused <- Unreadable, life <- CellLife

\* Two files written in turn and a generation behave as one cell: a completed
\* save is what the next start reads, what is changed is saved, and a write
\* that stops part way, the only step that can make a start read a state that
\* was never saved, leaves the other file as it was.
KeepsSaves == Cell!Spec
=============================================================================
