------------------------------ MODULE BpfFilter ------------------------------
(***************************************************************************)
(* The eBPF filter and its reload (rebpf/bpf.c, bpf_reload_config in       *)
(* rebpf/bpf-load.c, bpf_reload in rebpf/netlink.rs).                      *)
(*                                                                         *)
(* A reload copies the configuration, flushes task_cache and then, if the  *)
(* matches have changed, replaces the DFA and the arena its tables are in. *)
(* The sock_create hook runs on any CPU meanwhile: it copies MASTER_DFA,   *)
(* looks the task up in task_cache, walks the DFA in the arena and caches  *)
(* the verdict.  Nothing orders the two, so each of their steps is an      *)
(* action.                                                                 *)
(*                                                                         *)
(* The DFA of some matches is the function from identities of a process    *)
(* (executable path and uid) to verdicts; module DfaTables is about how it *)
(* is stored.                                                              *)
(***************************************************************************)
EXTENDS Naturals

CONSTANTS
    Tasks,      \* task ids: pid and start_boottime
    Exes,       \* identities a task may run under
    MatchSets,  \* verdicts by identity, one function for each list of matches
    SavedGens,  \* generations of the matches in a state file
    None,       \* an absent cache entry, DFA or hook
    MaxEvents   \* bound on steps of users and tasks

Verdicts == {"redirect", "bypass", "none"}

\* The list of a fresh installation.
NoMatches == [x \in Exes |-> "none"]

ASSUME FilterAssumption ==
    /\ NoMatches \in MatchSets /\ MatchSets \subseteq [Exes -> Verdicts]
    /\ SavedGens \subseteq Nat
    /\ None \notin MatchSets /\ None \notin Verdicts
    /\ None \notin [dfa : MatchSets \cup {None}, generation : Nat]
    /\ MaxEvents \in Nat

VARIABLES
    matches, generation, \* ctx.state.matches, as its verdicts
    enable,              \* whether traffic is redirected (module Redirect)
    pc, new,             \* bpf_reload: "idle", "flush", "install", "copy"; its BpfConfig
    last_gen,            \* bpf_ctx.last_gen and links.last_gen
    config_enable,       \* kernel: CONFIG.enable
    dfa,                 \* kernel: MASTER_DFA, None when HAS_DFA is not set
    arena,               \* kernel: the matches whose tables are in the arena
    task_cache,          \* kernel: cached verdicts
    hook,                \* kernel: sock_create hooks under way
    exe,                 \* kernel: identity of each task
    built,               \* history: the DFA compiled last, None if that failed
    raced,               \* history: tasks whose last walk overlapped a reload
    moved,               \* history: tasks that changed identity since
    events

loader == <<pc, new, last_gen, config_enable, dfa, arena, built>>
vars == <<matches, generation, enable, loader, task_cache, hook, exe, raced, moved, events>>

-----------------------------------------------------------------------------
\* The matches are the ones that load_state found; their generation is the
\* number of changes that were ever made to them.
Init ==
    /\ matches \in MatchSets
    /\ generation \in SavedGens
    /\ generation = 0 => matches = NoMatches
    /\ enable \in BOOLEAN
    /\ pc = "idle" /\ new = None
    /\ last_gen = 0
    /\ config_enable = FALSE /\ dfa = None /\ arena = None
    /\ task_cache = [t \in Tasks |-> None]
    /\ hook = [t \in Tasks |-> None]
    /\ exe \in [Tasks -> Exes]
    /\ built = None /\ raced = {} /\ moved = {}
    /\ events = 0

Event == events < MaxEvents /\ events' = events + 1

\* add_match, update_match or delete_match.
ModifyMatches(m) ==
    /\ Event
    /\ matches' = m
    /\ generation' = generation + 1
    /\ UNCHANGED <<enable, loader, task_cache, hook, exe, raced, moved>>

Toggle ==
    /\ Event
    /\ enable' = ~enable
    /\ UNCHANGED <<matches, generation, loader, task_cache, hook, exe, raced, moved>>

\* execve or setuid; pid and start_boottime stay.
Exec(t, x) ==
    /\ Event
    /\ x # exe[t]
    /\ hook[t] = None
    /\ exe' = [exe EXCEPT ![t] = x]
    /\ moved' = moved \cup {t}
    /\ UNCHANGED <<matches, generation, enable, loader, task_cache, hook, raced>>

\* The cache is full and drops its least recently used entry.
Evict(t) ==
    /\ Event
    /\ task_cache[t] # None
    /\ task_cache' = [task_cache EXCEPT ![t] = None]
    /\ UNCHANGED <<matches, generation, enable, loader, hook, exe, raced, moved>>

-----------------------------------------------------------------------------
(* bpf_reload, called by watch_reload under its lock *)

Hooked == {t \in Tasks : hook[t] # None}

\* Compile the DFA if the matches are new, which may fail (compiled = None),
\* and copy the configuration to the kernel.
ReloadStart(compiled) ==
    /\ pc = "idle"
    /\ pc' = "flush"
    /\ compiled \in {matches, None}
    /\ new' = [dfa |-> IF last_gen # generation THEN compiled ELSE None,
               generation |-> generation]
    /\ built' = IF last_gen # generation THEN compiled ELSE built
    /\ config_enable' = enable
    /\ raced' = raced \cup Hooked
    /\ UNCHANGED <<matches, generation, enable, last_gen, dfa, arena, task_cache, hook, exe, moved,
                   events>>

\* The flush of the cache; a slip that leaves it to the LRU policy.
FlushedNever == task_cache
Flushed == [t \in Tasks |-> None]

\* The reload_config program: the arena is replaced by an empty one if it is
\* too small, and the cache is flushed.
ReloadFlush ==
    /\ pc = "flush"
    /\ pc' = "install"
    /\ arena' = arena \/ (new.dfa # None /\ arena' = None)
    /\ task_cache' = Flushed
    /\ raced' = Hooked
    /\ UNCHANGED <<matches, generation, enable, new, last_gen, config_enable, dfa, built, hook, exe,
                   moved, events>>

\* Whether bpf_reload_config goes on to the DFA; a slip without the test.
ReloadsDfaAlways == TRUE
ReloadsDfa == last_gen # new.generation

ReloadInstall ==
    /\ pc = "install"
    /\ IF ReloadsDfa
       THEN /\ last_gen' = new.generation
            /\ dfa' = new.dfa
            /\ pc' = "copy"
       ELSE /\ pc' = "idle"
            /\ UNCHANGED <<last_gen, dfa>>
    /\ UNCHANGED <<matches, generation, enable, new, config_enable, arena, built, task_cache, hook, exe,
                   raced, moved, events>>

\* The arena is only written when it has contents.
ReloadCopy ==
    /\ pc = "copy"
    /\ pc' = "idle"
    /\ arena' = IF new.dfa = None THEN arena ELSE new.dfa
    /\ UNCHANGED <<matches, generation, enable, new, last_gen, config_enable, dfa, built, task_cache, hook,
                   exe, raced, moved, events>>

-----------------------------------------------------------------------------
(* cgroup_socket_create *)

MayRun(t) == Event /\ hook[t] = None /\ config_enable /\ dfa # None

\* The task has a cached verdict, and the hook is done.
HookCached(t) ==
    /\ MayRun(t)
    /\ task_cache[t] # None
    /\ UNCHANGED <<matches, generation, enable, loader, task_cache, hook, exe, raced, moved>>

HookStart(t) ==
    /\ MayRun(t)
    /\ task_cache[t] = None
    /\ hook' = [hook EXCEPT ![t] = [dfa |-> dfa, verdict |-> None]]
    /\ raced' = IF pc = "idle" THEN raced \ {t} ELSE raced \cup {t}
    /\ moved' = moved \ {t}
    /\ UNCHANGED <<matches, generation, enable, loader, task_cache, exe>>

\* A walk over an empty arena ends in the dead state; one over tables that
\* are being written may also find them cut off before the directions or the
\* uids, which reads as bypass for everyone; one over the tables of another
\* DFA may end anywhere.
Walk(d, x) ==
    IF d = arena THEN {d[x]}
    ELSE IF arena # None THEN Verdicts
    ELSE IF pc = "copy" THEN {"none", "bypass", d[x]}
    ELSE {"none"}

\* A slip that caches the verdict of a task that no match names.
HookWalkCachesAll(t) ==
    /\ hook[t] # None
    /\ hook[t].verdict = None
    /\ \E v \in Walk(hook[t].dfa, exe[t]) : hook' = [hook EXCEPT ![t].verdict = v]
    /\ UNCHANGED <<matches, generation, enable, loader, task_cache, exe, raced, moved, events>>

\* needs_mark_uncached; only a task that some match names gets a verdict.
HookWalk(t) ==
    /\ hook[t] # None
    /\ hook[t].verdict = None
    /\ \E v \in Walk(hook[t].dfa, exe[t]) :
          hook' = [hook EXCEPT ![t] = IF v = "none" THEN None ELSE [@ EXCEPT !.verdict = v]]
    /\ UNCHANGED <<matches, generation, enable, loader, task_cache, exe, raced, moved, events>>

\* The verdict is cached; the socket is marked if it says so.
HookStore(t) ==
    /\ hook[t] # None
    /\ hook[t].verdict # None
    /\ task_cache' = [task_cache EXCEPT ![t] = hook[t].verdict]
    /\ hook' = [hook EXCEPT ![t] = None]
    /\ UNCHANGED <<matches, generation, enable, loader, exe, raced, moved, events>>

-----------------------------------------------------------------------------
Reload ==
    \/ \E c \in {matches, None} : ReloadStart(c)
    \/ ReloadFlush \/ ReloadInstall \/ ReloadCopy

Hook(t) == HookCached(t) \/ HookStart(t) \/ HookWalk(t) \/ HookStore(t)

Next ==
    \/ \E m \in MatchSets : ModifyMatches(m)
    \/ Toggle
    \/ \E t \in Tasks : Hook(t) \/ Evict(t) \/ \E x \in Exes : Exec(t, x)
    \/ Reload

Spec == Init /\ [][Next]_vars

-----------------------------------------------------------------------------
(* Properties *)

\* Types of all variables.
TypeOK ==
    /\ matches \in MatchSets /\ generation \in Nat /\ enable \in BOOLEAN
    /\ pc \in {"idle", "flush", "install", "copy"}
    /\ new \in [dfa : MatchSets \cup {None}, generation : Nat] \cup {None}
    /\ pc # "idle" => new # None
    /\ last_gen \in Nat /\ config_enable \in BOOLEAN
    /\ dfa \in MatchSets \cup {None} /\ arena \in MatchSets \cup {None}
    /\ built \in MatchSets \cup {None}
    /\ task_cache \in [Tasks -> {"redirect", "bypass", None}]
    /\ hook \in [Tasks -> [dfa : MatchSets, verdict : {"redirect", "bypass", None}] \cup {None}]
    /\ exe \in [Tasks -> Exes]
    /\ raced \subseteq Tasks /\ moved \subseteq Tasks
    /\ events \in Nat

\* Between reloads the installed DFA is the one that was compiled last, also
\* after reloads that changed no match and handed over none, and the tables
\* in the arena are its own.
TablesAgree == pc = "idle" => dfa = built /\ (dfa # None => arena = dfa)

\* Between reloads a cached verdict is the one of the installed DFA, unless
\* the hook that cached it overlapped a reload or the task changed identity
\* since.
CacheCurrent ==
    \A t \in Tasks \ (raced \cup moved) :
        pc = "idle" /\ dfa # None /\ task_cache[t] # None => task_cache[t] = dfa[exe[t]]
=============================================================================
