--------------------------- MODULE BpfFilterProofs ---------------------------
(***************************************************************************)
(* Proofs about BpfFilter, for every number of tasks, matches and reloads. *)
(***************************************************************************)
EXTENDS BpfFilter, TLAPS

\* A walk of the DFA of some matches returns a verdict.
LEMMA WalkType ==
    ASSUME NEW d \in MatchSets, NEW x \in Exes
    PROVE  Walk(d, x) \subseteq Verdicts
<1>1. d[x] \in Verdicts
  BY FilterAssumption
<1>2. QED
  BY <1>1 DEF Walk, Verdicts

\* What a walk does to the hook of its task.
LEMMA HookWalkStep ==
    ASSUME TypeOK, NEW t \in Tasks, HookWalk(t)
    PROVE  \E v \in Walk(hook[t].dfa, exe[t]) :
              hook' = [hook EXCEPT ![t] = IF v = "none" THEN None
                                          ELSE [dfa |-> hook[t].dfa, verdict |-> v]]
<1>1. hook[t] \in [dfa : MatchSets, verdict : {"redirect", "bypass", None}]
  BY DEF TypeOK, HookWalk
<1>2. \A v : [hook[t] EXCEPT !.verdict = v] = [dfa |-> hook[t].dfa, verdict |-> v]
  BY <1>1
<1>3. QED
  BY <1>2 DEF HookWalk

-----------------------------------------------------------------------------
\* Type correctness; in particular the cache never holds the verdict of a
\* task that no match names.
THEOREM TypeCorrect == Spec => []TypeOK
<1>1. Init => TypeOK
  <2> SUFFICES ASSUME Init
               PROVE  TypeOK
    OBVIOUS
  <2>1. /\ task_cache \in [Tasks -> {"redirect", "bypass", None}]
        /\ hook \in [Tasks -> [dfa : MatchSets, verdict : {"redirect", "bypass", None}] \cup {None}]
    BY DEF Init
  <2>2. QED
    BY <2>1, FilterAssumption DEF Init, TypeOK
<1>2. TypeOK /\ [Next]_vars => TypeOK'
  <2> SUFFICES ASSUME TypeOK, [Next]_vars
               PROVE  TypeOK'
    OBVIOUS
  <2>1. ASSUME NEW m \in MatchSets, ModifyMatches(m)
        PROVE  TypeOK'
    BY <2>1, FilterAssumption DEF TypeOK, ModifyMatches, Event, loader
  <2>2. CASE Toggle
    BY <2>2, FilterAssumption DEF TypeOK, Toggle, Event, loader
  <2>3. ASSUME NEW t \in Tasks, NEW x \in Exes, Exec(t, x)
        PROVE  TypeOK'
    BY <2>3, FilterAssumption DEF TypeOK, Exec, Event, loader
  <2>4. ASSUME NEW t \in Tasks, Evict(t)
        PROVE  TypeOK'
    BY <2>4, FilterAssumption DEF TypeOK, Evict, Event, loader
  <2>5. ASSUME NEW c \in {matches, None}, ReloadStart(c)
        PROVE  TypeOK'
    <3>1. new' \in [dfa : MatchSets \cup {None}, generation : Nat]
      BY <2>5 DEF TypeOK, ReloadStart
    <3>2. raced' \subseteq Tasks
      BY <2>5 DEF TypeOK, ReloadStart, Hooked
    <3>3. QED
      BY <2>5, <3>1, <3>2, FilterAssumption DEF TypeOK, ReloadStart
  <2>6. CASE ReloadFlush
    BY <2>6 DEF TypeOK, ReloadFlush, Flushed, Hooked
  <2>7. CASE ReloadInstall
    BY <2>7 DEF TypeOK, ReloadInstall
  <2>8. CASE ReloadCopy
    BY <2>8 DEF TypeOK, ReloadCopy
  <2>9. ASSUME NEW t \in Tasks, HookCached(t)
        PROVE  TypeOK'
    BY <2>9, FilterAssumption DEF TypeOK, HookCached, MayRun, Event, loader
  <2>10. ASSUME NEW t \in Tasks, HookStart(t)
         PROVE  TypeOK'
    BY <2>10, FilterAssumption DEF TypeOK, HookStart, MayRun, Event, loader
  <2>11. ASSUME NEW t \in Tasks, HookWalk(t)
         PROVE  TypeOK'
    <3>1. hook[t].dfa \in MatchSets /\ exe[t] \in Exes
      BY <2>11 DEF TypeOK, HookWalk
    <3>2. PICK v \in Verdicts : hook' = [hook EXCEPT ![t] = IF v = "none" THEN None
                                             ELSE [dfa |-> hook[t].dfa, verdict |-> v]]
      BY <2>11, <3>1, HookWalkStep, WalkType
    <3>3. hook' \in [Tasks -> [dfa : MatchSets, verdict : {"redirect", "bypass", None}] \cup {None}]
      BY <3>1, <3>2 DEF TypeOK, Verdicts
    <3>4. QED
      BY <2>11, <3>3 DEF TypeOK, HookWalk, loader
  <2>12. ASSUME NEW t \in Tasks, HookStore(t)
         PROVE  TypeOK'
    BY <2>12 DEF TypeOK, HookStore, loader
  <2>13. CASE UNCHANGED vars
    BY <2>13 DEF TypeOK, vars, loader
  <2>14. QED
    BY <2>1, <2>2, <2>3, <2>4, <2>5, <2>6, <2>7, <2>8, <2>9, <2>10, <2>11, <2>12, <2>13
       DEF Next, Reload, Hook
<1>3. QED
  BY <1>1, <1>2, PTL DEF Spec

-----------------------------------------------------------------------------
\* The steps that are not the loader's leave its variables alone.
LEMMA LoaderSteps ==
    ASSUME [Next]_vars
    PROVE  \/ \E c \in {matches, None} : ReloadStart(c)
           \/ ReloadFlush \/ ReloadInstall \/ ReloadCopy
           \/ UNCHANGED loader
BY DEF Next, Reload, Hook, ModifyMatches, Toggle, Exec, Evict, HookCached, HookStart, HookWalk,
       HookStore, vars

\* A reload that is under way either brings the DFA compiled last, or none
\* because the installed one is that already.
TablesInv ==
    /\ TablesAgree
    /\ pc \in {"flush", "install"} =>
          IF last_gen # new.generation THEN new.dfa = built
          ELSE new.dfa = None /\ dfa = built /\ (dfa # None => arena = dfa)
    /\ pc = "copy" => new.dfa = built /\ dfa = built

\* TablesInv is inductive: each of the four steps of a reload hands it on.
LEMMA TablesInvAlways == Spec => []TablesInv
<1>1. Init => TablesInv
  BY DEF Init, TablesInv, TablesAgree
<1>2. TypeOK /\ TablesInv /\ [Next]_vars => TablesInv'
  <2> SUFFICES ASSUME TypeOK, TablesInv, [Next]_vars
               PROVE  TablesInv'
    OBVIOUS
  <2>1. ASSUME NEW c \in {matches, None}, ReloadStart(c)
        PROVE  TablesInv'
    BY <2>1 DEF ReloadStart, TablesInv, TablesAgree
  <2>2. CASE ReloadFlush
    BY <2>2 DEF ReloadFlush, TablesInv, TablesAgree
  <2>3. CASE ReloadInstall
    BY <2>3 DEF ReloadInstall, ReloadsDfa, TablesInv, TablesAgree
  <2>4. CASE ReloadCopy
    BY <2>4 DEF ReloadCopy, TablesInv, TablesAgree
  <2>5. CASE UNCHANGED loader
    BY <2>5 DEF loader, TablesInv, TablesAgree
  <2>6. QED
    BY <2>1, <2>2, <2>3, <2>4, <2>5, LoaderSteps
<1>3. QED
  BY <1>1, <1>2, TypeCorrect, PTL DEF Spec

\* Between reloads the kernel runs the DFA that was compiled last, on its
\* own tables.
THEOREM TablesAgreeAlways == Spec => []TablesAgree
<1>1. TablesInv => TablesAgree
  BY DEF TablesInv
<1>2. QED
  BY <1>1, TablesInvAlways, PTL

-----------------------------------------------------------------------------
\* After the flush only walks that overlap the reload fill the cache.
FlushHolds ==
    pc \in {"install", "copy"} => \A t \in Tasks : task_cache[t] # None => t \in raced

\* A hook that no reload overlaps walks the installed DFA, and one that a
\* reload overlaps is remembered.
HooksCurrent ==
    \A t \in Tasks : hook[t] # None =>
        IF pc = "idle" /\ t \notin raced
        THEN hook[t].dfa = dfa /\ (hook[t].verdict # None => hook[t].verdict = dfa[exe[t]])
        ELSE t \in raced

CacheInv == CacheCurrent /\ FlushHolds /\ HooksCurrent

\* Between reloads, the cache agrees with the installed DFA, but for walks
\* that overlapped a reload and tasks that changed identity.
THEOREM CacheCurrentAlways == Spec => []CacheCurrent
<1>1. Init => CacheInv
  BY DEF Init, CacheInv, CacheCurrent, FlushHolds, HooksCurrent
<1>2. TypeOK /\ TablesInv /\ CacheInv /\ [Next]_vars => CacheInv'
  <2> SUFFICES ASSUME TypeOK, TablesInv, CacheCurrent, FlushHolds, HooksCurrent, [Next]_vars
               PROVE  CacheCurrent' /\ FlushHolds' /\ HooksCurrent'
    BY DEF CacheInv
  <2> USE DEF CacheCurrent, FlushHolds, HooksCurrent
  <2>1. ASSUME NEW c \in {matches, None}, ReloadStart(c)
        PROVE  CacheCurrent' /\ FlushHolds' /\ HooksCurrent'
    BY <2>1 DEF ReloadStart, Hooked
  <2>2. CASE ReloadFlush
    BY <2>2 DEF ReloadFlush, Flushed, Hooked
  <2>3. CASE ReloadInstall
    BY <2>3 DEF ReloadInstall
  <2>4. CASE ReloadCopy
    BY <2>4 DEF ReloadCopy
  <2>5. ASSUME NEW t \in Tasks, NEW x \in Exes, Exec(t, x)
        PROVE  CacheCurrent' /\ FlushHolds' /\ HooksCurrent'
    BY <2>5 DEF Exec, loader, TypeOK
  <2>6. ASSUME NEW t \in Tasks, Evict(t)
        PROVE  CacheCurrent' /\ FlushHolds' /\ HooksCurrent'
    BY <2>6 DEF Evict, loader, TypeOK
  <2>7. ASSUME NEW t \in Tasks, HookStart(t)
        PROVE  CacheCurrent' /\ FlushHolds' /\ HooksCurrent'
    BY <2>7 DEF HookStart, MayRun, loader, TypeOK
  <2>8. ASSUME NEW t \in Tasks, HookWalk(t)
        PROVE  CacheCurrent' /\ FlushHolds' /\ HooksCurrent'
    <3>1. PICK v \in Walk(hook[t].dfa, exe[t]) :
            hook' = [hook EXCEPT ![t] = IF v = "none" THEN None
                                        ELSE [dfa |-> hook[t].dfa, verdict |-> v]]
      BY <2>8, HookWalkStep
    <3>2. UNCHANGED <<pc, dfa, arena, task_cache, exe, raced, moved>>
      BY <2>8 DEF HookWalk, loader
    <3>3. hook[t] # None /\ hook[t].dfa # None
      BY <2>8, FilterAssumption DEF HookWalk, TypeOK
    <3>4. ASSUME pc = "idle", t \notin raced
          PROVE  hook[t].dfa = dfa /\ v = dfa[exe[t]]
      <4>1. hook[t].dfa = dfa
        BY <3>3, <3>4
      <4>2. arena = dfa
        BY <3>3, <3>4, <4>1 DEF TablesInv, TablesAgree
      <4>3. QED
        BY <3>1, <4>1, <4>2 DEF Walk
    <3>5. HooksCurrent'
      BY <3>1, <3>2, <3>3, <3>4 DEF TypeOK
    <3>6. QED
      BY <3>2, <3>5
  <2>9. ASSUME NEW t \in Tasks, HookStore(t)
        PROVE  CacheCurrent' /\ FlushHolds' /\ HooksCurrent'
    BY <2>9 DEF HookStore, loader, TypeOK
  <2>10. ASSUME UNCHANGED <<loader, task_cache, hook, exe, raced, moved>>
         PROVE  CacheCurrent' /\ FlushHolds' /\ HooksCurrent'
    BY <2>10 DEF loader
  <2>11. QED
    BY <2>1, <2>2, <2>3, <2>4, <2>5, <2>6, <2>7, <2>8, <2>9, <2>10
       DEF Next, Reload, Hook, ModifyMatches, Toggle, HookCached, vars
<1>3. CacheInv => CacheCurrent
  BY DEF CacheInv
<1>4. QED
  BY <1>1, <1>2, <1>3, TypeCorrect, TablesInvAlways, PTL DEF Spec
=============================================================================
