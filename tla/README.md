# rebpf in TLA+

rebpf redirects the traffic of selected processes, addresses and names to a
chosen network device. A privileged daemon (`src/rebpf`) marks sockets with eBPF
programs, keeps policy-routing rules in the kernel for that mark, and follows
the device with netlink; a GUI (`src/rebpf-gui`) drives it over D-Bus. This
directory models both, checks them with TLC on small instances and proves
all of the safety properties, and the safety half of two refinements, with
TLAPS for all values of the constants.

    tlc -workers 2 -config RedirectSafety.cfg MCRedirect
    tlapm RedirectProofs.tla

`PROJECT.json` lists components, runs, the map from definitions to source lines,
hazards, findings and theorems.

## Inventory

The daemon is one single-threaded tokio runtime plus a few blocking threads.
Its tasks share a `Ctx`: watch channels (a value and, for each receiver, whether
there is a version it has not seen) and two mutexes, `ctx.bpf` and `ctx.dns`.
Tasks interleave only where they await; threads, the kernel and the hooked
processes interleave with everything.

| Component | State | Operations | Talks to |
|---|---|---|---|
| Redirection core (`netlink.rs`, `main.rs`, `dbus.rs`) | `ctx.state`, `routes_changed`, `to_changed`, `do_reload`, `ctx.bpf.mark`, `attached`, `blocker`; kernel rules and routes | `watch_reload`, `watch_routes`, `watch_multicast` (thread), D-Bus setters, start, shutdown | channels, netlink, nft, eBPF, child |
| Socket sweep child (`main.rs`, `bpf-load.c`) | none; marks of existing sockets | receive a mark, iterate over descriptors, `setsockopt`, answer | socketpair, request and reply |
| eBPF filter and reload (`bpf.c`, `bpf-load.c`, `netlink.rs`) | `CONFIG`, `MASTER_DFA`, arena, `task_cache`, `last_gen` | `sock_create` hook, `reload_config`, `bpf_reload_config` | shared maps, no lock |
| DFA tables (`lib.rs`, `dfa.rs`, `bpf.c`) | `pat_id_map`, slices, `match_id_table`, `redirect_table`, `uid_table` | `build_path_dfa`, `extract`, `encode_dfa`, `needs_mark_uncached` | arena |
| Matches (`lib.rs`, `dbus.rs`) | list, `dns_count`, `generation` | `add`, `replace`, `del`, `try_parse`, authorization | D-Bus, polkit |
| DNS records and routes (`dns.rs`) | heap, hash map, DFA cache, sleeper, `dns_table` | `parse` (ring-buffer thread), `watch_dns_ttl`, `watch_dns_routes`, `retire_dns_record` | `ctx.dns` mutex, channels, netlink |
| State files (`main.rs`) | two files, `generation`, `last_i` | `load_state`, `save_state` | `ctx.state` |
| Read-only queries, statistics | one-second caches | `get_proc_names`, `get_stats`, `get_dns_records` | D-Bus |
| Capabilities, CLI, D-Bus set-up | none | once at start | system |
| eBPF helpers, generated bindings | none | support code; `bpf-dns.c` is not used | |
| GUI: window state (`gui.rs`) | `gui::State`: settings and their confirmed copy, output field, new pattern and its popup, matches and pending edits with a generation, errors, window | `update()` on inputs of the user and on reports of the tasks | channels `m`, `d`, `t` |
| GUI: application harness (`rebpf-gui/main.rs`) | connection, subscription, semaphore of polling permits | `dbus_service_harness`, `listen_props`, `listen_proc_names`, `process_requests` | D-Bus, channels |
| GUI: tray (`tray.rs`) | icon state | activate, menu events | session bus, channels |
| GUI: widgets, icons | presentation | | |

What is hard about it:

* **Lost wake-ups and stale reads.** Every task forgets its notifications, reads
  state, awaits and then acts. A change that arrives in between has to cause
  another iteration. `watch_multicast` filters messages by what it reads on its
  own thread while the output is being switched.
* **Ownership of kernel state.** Rules are found again only by their random
  mark. A reload replaces the mark before it deletes the rules of the old one; a
  failed request, a signal or an `exit(1)` in the C code may end the daemon half
  way through.
* **What is not heard.** The multicast groups do not tell of addresses, and the
  filter lets no route message through: part of a Route can be old.
* **Hooks against reloads.** Nothing orders the `sock_create` hook and the five
  writes of a reload.
* **Expiry.** A sleeping task, a parser thread and a rebuild share the records.
* **Crashes.** Saves overwrite files in place; a kill leaves torn contents,
  over which the next save may be torn again.
* **Three numberings.** Matches, patterns of the DFA and entries of the tables
  are numbered differently, and two of the tables are indexed differently.
* **Cancellation and reconnection in the GUI.** Three tasks are dropped at
  whatever await they are when the daemon's bus name changes hands; what they
  held, waited for or had not read goes with them.
* **Edits against reports.** What the user types and clicks is based on a view
  that reports replace; a request may be refused after others were made.
* **Counters and generations** kept by increments across any sequence of calls.

## Modules

`Redirect`, `Dns`, `StateFiles`, `BpfFilter`, `Matches`, `DfaTables`, `Gui` and
`GuiHarness` are the components; `PolicyFollower` and `DurableCell` are abstract
specifications; `MC*` give constants to TLC. `RedirectProofs`, `DnsProofs`,
`StateFilesProofs`, `BpfFilterProofs`, `MatchesProofs`, `DfaTablesProofs` and
`GuiHarnessProofs` hold the theorems, `SequenceLemmas` the lemmas about queues
and lists that several of them use.
Definitions whose comment calls them *a slip* are variants of the definition
that follows them with a plausible mistake; nothing uses them in the
specifications, they serve to confirm that each property can fail.

### Redirect

The labels of `pc` are the awaits of `watch_reload`: `ReloadWake` (forget
notifications, draw a mark), then everything under the `ctx.bpf` lock, which is
one of `ReloadInstall`, `ReloadRefused` (the device has changed since the probe),
`ReloadInstallFails`, `ReloadBlocked` and `ReloadClearFails`, then `ReloadBpf`,
`RefreshSockets` (the child) and `ReloadPublish`. The stretches between awaits
are atomic with respect to the other tasks. A rule is what the deletion loops
tell apart (kind, table, fwmark, destination), so that `AfterClearRules` can be
wrong. `reloadPend` and `routesPend` are the unseen versions of the channels that
each task selects on.

Requests may fail anywhere:

* `ReloadClearFails`: the mark has been replaced (`netlink.rs:46`) and
  `clear_rules(old_mark)?` ends at any of its own `?`, with any part of the work
  done (`ClearFailures`). The rules of the old mark stay and nobody remembers it.
* `ReloadInstallFails`: any request of the branch that is taken fails. Failures of
  the nft rule and of the copies of local routes are only warned about: then
  the rule or the routes are left out (`LateRules`, `LanRoutes`).
* `ReloadBpfDies`: `EXPECT` in `bpf_reload_config` calls `exit(1)`, and there is no
  clean-up. `RefreshFails`: the child has ended.
* `RoutesProbeFails`: the probe fails although the device is there; this is taken
  for an unknown device.
* `CleanupFails`: `run()` ignores errors of `clear_rules` and of
  `clear_static_rules`.

Two history variables say what these failures cost: `unclear` has the marks and
tables whose clearing failed or was skipped, `stale` the devices of which the
published Route may be old.

Devices come, go and change state at any time (`LinkChange`); the kernel flushes
the routes over a device that is not up and queues a message. A change of
addresses or gateway (`NetChange`) queues only a route message, and those name
their table, so that `watch_multicast` skips them. Sockets pass the hook first
and get their descriptor later, since the sweep only sees descriptors; `missed`
is a history flag for the ones it falls between.

Simplifications: a deletion is answered with an error only when nothing is left
to delete (the loops of `clear_rules` end at the first error, `netlink.rs:568-600`),
and the bound of 1000 of these loops is taken to be enough; marks are drawn so
that they do not collide with one in use (32 random bits); a D-Bus call that is
refused is no step; the sweep is one step, and the check of start times against
pid reuse is left out; nothing happens after the exit. A task other than
watch_reload that ends with an error is `Signal`.

### PolicyFollower

What the daemon promises of the kernel's rules, without marks, tables, channels
or tasks: `have`, the policy in force, is exchanged as a whole for `want`, the
policy called for at that moment (`Apply`); is partly installed only by a
daemon that gives up (`GiveUp`); and does not differ from `want` for ever. If
rules cannot be withdrawn the daemon is `stuck`, stops and applies no other policy
(`Stick`), and a process that dies leaves the policy in force (`Die`). `Exit`
leaves nothing unless something is stuck.
`Redirect` implements it (`FollowsPolicy`) under the mapping `want <- Wanted`
(the rules that the current state and Route call for), `have <- Policy(rules)`
(the kernel's rules with mark and table number forgotten, except whether the
table is the main one) and `stuck <- unclear # {}`. The nft rule is not part of a
policy, because the daemon does without it when it cannot be added. The mapping
forgets what a mark is, so it is `RulesOwned` that says the rules can be found
again.

### Dns

`parse` takes a packet (one answer stands for it), reads clock and limit
(`ParseStart`), then waits for `ctx.dns` and applies it (`ParseNoMatch`,
`ParseKnown`, `ParseNew`). `watch_dns_ttl` is `TtlRearm`, `TtlFire`,
`TtlExpire`; `wakeAt` is the instant of its current sleep. `watch_dns_routes` is
`RoutesWake` and `RoutesApply`. Patterns are sets of names with a direction, and
a bypass match wins over a redirect match. The hook is switched by `BpfReload`,
which asks for an output that is up. The route table maps a destination
to a link; where several records share a destination, the order of the binary
heap is a free choice. A ring buffer that is full loses the answer. The
ring-buffer callback is modelled with the `Ctx` it is meant to get, see
Observations.

### StateFiles

`save_state` debounces (`SaveWake`), reads state and counts (`SaveRead`),
overwrites the file in place (`WriteAll` or, when the write fails or the
process is killed, `WriteTorn`), truncates (`Truncate`). A torn file holds the
beginning of the new save and then what the file held from there on, which may
be the tail of any earlier save, also of one that was itself torn. `Partial` says
what can come of it: the old contents, contents that serde refuses or that are
not UTF-8, or (`Mixtures`) a file that parses, with any value and with
any generation out of `MixedGens`, since the digits of two generations may run
together. Only a file that was never written (`Empty`) leaves no tail. The
history variable `stamp` numbers the saves as they are begun; a mixture has stamp
0, a `Whole` file another. An `ftruncate` that fails is not noticed by the code;
the flag `uncut` says that this happened in this run. `Load` takes the readable
file with the higher generation and does not start at all if a file is not
UTF-8. Power loss is not modelled (nothing is synced).

### DurableCell

What the saved state promises, without files, slots, generations or buffers: a
start reads `newest`; a write moves `newest` to the state of the program or
leaves it (`Write`, `Complete`); only in the first save of a run may `older` come
back, because that save goes to the file the run was started from; a completed
write never makes the next start fail (`refused`); and a changed state does not
stay unsaved for ever. A write that stops part way (`Tear`) may leave anything at
the place it wrote to, also something that was never saved and that the next
start prefers, but the other place keeps what it had: the older save in
the first save of a run, the newest one later. After a failed truncation
(`Uncut`) nothing more is promised of that run.
`StateFiles` implements it (`KeepsSaves`) under
the mapping `newest <- LoadedValue` (what `load_state` would return at this
moment), `older <- OlderValue` (the other file), `refused <- Unreadable` and
`life <- CellLife`, so the promise is about every moment at which the process
may be killed, not only about the moments at which it starts.

### BpfFilter

The reload's steps (`ReloadStart`, `ReloadFlush`, `ReloadInstall`, `ReloadCopy`)
and the hook's (`HookStart`, `HookWalk`, `HookStore`) interleave freely. A DFA is
its function from process identities to verdicts. A walk over tables of another
DFA may end anywhere, one over an arena that is empty ends in the dead state.
`raced` and `moved` are history: the tasks whose last walk overlapped a reload,
and those that called `execve` or `setuid` since. The daemon starts with the
matches and the generation of a state file (`SavedGens`; generation 0 is that of
a fresh state, without matches), while `last_gen` starts at 0.

### Matches

A call that needs polkit stays pending while others run. There are three
automata, one for paths (`PathDfa`) and one for domains in each direction
(`DnsDfa`); `Compiled` says which entries of the list go into which. Whether a
pattern parses (`WellFormed`) and whether some text matches it (`Matching`) are
constant sets: a path DFA that matches nothing has no final state and is refused
by `extract` (`HasFinal`). The DFA size limit is a number of patterns for each
automaton, which assumes that a DFA never shrinks when a pattern is added.
Equality of matches ignores the method, as the code's does.

### DfaTables

The layout of the verdict tables and their lookup, checked against the match
list for every list and every set of match states within the bounds.
`PushPattern` is one round of `build_path_dfa`'s loop: dns and ipv4 matches give no
pattern, and `pat_id_map` remembers the match of each pattern. `ends` says which
regexes end in a match state; since `build_dfa` leaves regex-automata's match
kind at `LeftmostFirst`, the state reports one pattern, the first of them
(`PatternOf`). `Pats` has an entry for every id between two match states, as
`extract` leaves it. `EncodeEntry` is one round of `encode_dfa`'s loop over these
entries, and translates patterns to matches; nothing looks at the tables before
it has ended. `NeedsMark` is the lookup. The transition table, the reversal of
paths and the walk up the mount roots are not modelled.

### Gui

The record `s` is `gui::State`; every arm of `update()` that changes it is an
action, with what `update()` calls from there. Guards come from `view()`: an
input exists only where its widget is drawn. `update()` runs on one thread, so a
message is one step, but a click on a list entry carries the generation and
index of the view it was made in and may be handled after reports that were
queued before it: such clicks wait in `click`, with the entry the user saw as
history. Sending on a channel whose receiver is gone is a panic, as the
`unwrap()` makes it.

Left out: focus flags and hover (which decide when a popup is drawn; the model
takes it to be drawn whenever there is text), statistics, the contents of
`ActiveProcs` (only the generation it advances), text cursors. Kind, method and
direction of a match are one attribute, an input of `MatchAdd`. The processes in
the popup are a number. Three checkboxes behave alike; one stands for them.

### GuiHarness

Composes the window with the background tasks, the tray and the daemon as its
clients see it. `h.pc` is the place of `dbus_service_harness` (probe, waiting for
an owner, online), `h.props` that of `listen_props`, `h.request` that of
`process_requests`, `h.permits` and `h.polling` are the semaphore. `DropTasks` is
`select!` dropping the three tasks: a permit held returns, a call under way is
answered to nobody, a close that waits for a permit is forgotten. The daemon
(`dm`) has the D-Bus methods and properties; `WatchRoutes` and `WatchReload` are
its two tasks as far as `attached` and `to-ifname` go. A method call waits in
`calls` until it is answered or refused, as long as the user likes (polkit).
Its list may hold a match twice; deletion and update take the first that is
equal, as `Matches` does.
`DaemonStop` and `DaemonStart` are a restart at any moment; the saved state
survives it (that is `StateFiles`' subject), and any device named exists (that
is `Redirect`'s).

`tray()` and the harness can fail at the start, before they serve anything
(`open`); failures later are not modelled.

## Runs

| Run | Shows |
|---|---|
| `redirect_safety` | Kernel rules and routes always belong to the remembered mark, or to one that could not be cleared, which ends the daemon (`RulesOwned`); however the daemon ends it leaves only what belongs to a mark whose own clearing failed or was skipped (`CleanExit`); an idle daemon's rules, `CONFIG` and published status are those of its current state (`InSync`); sockets carry the current mark (`SocketsMarked`). |
| `redirect_live` | Left alone, the daemon becomes idle or exits (`EventuallySettled`); its rules implement `PolicyFollower` (`FollowsPolicy`). |
| `redirect_route` | An idle daemon has probed the device as it is now: name, index and state always, addresses and gateway unless they changed since the last probe (`RouteFresh`). |
| `redirect_drop` | Violation of `TrafficDropped`, see Findings. |
| `dns` | Heap and hash map agree (`HeapHashAgree`), the expiry task never oversleeps (`ExpiryArmed`), no route without a record (`NoOrphanRoute`), idle tasks have applied the current matches and links (`RecordsMatched`, `RoutesCurrent`), due records go (`ExpiresEventually`). |
| `dns_shared` | Violation of `RecordsRouted`. |
| `state_files` | Of two files that were saved whole the generation tells the newer (`GenerationOrder`), a completed save survives the next (`Survivor`), a change is saved (`SavedEventually`); the two files implement `DurableCell` (`KeepsSaves`). |
| `filter_safety` | Between reloads DFA and arena agree (`TablesAgree`), cached verdicts are current (`CacheCurrent`). |
| `matches_safety` | `dns_count` is right (`CountExact`), accepted lists compile (`ListCompiles`), a generation names one list (`GenerationNames`), calls that polkit was not asked for leave other entries alone (`OthersUntouched`). |
| `dfa_lookup` | A process gets a verdict exactly when the first match its path fits is for its uid or for everyone (`MatchedExactly`); the tables name that match by its place in the list (`NamesItsMatch`), and the verdict is its direction (`VerdictOfMatch`). |
| `gui` | A click that is not ignored is about the entry the user saw (`ClickNamesEntry`), the popup never lacks its list (`PopupHasList`), the error popup shows the oldest error (`ModalShowsOldest`), once all is quiet window and icon show the daemon's state, or that there is none (`ShowsDaemon`), a submitted output does not stay in the field once refused or dropped (`OutputResolved`), there is one polling permit per window and no close waits in vain (`PermitPerWindow`), the harness does not wait for a daemon that is there (`NoMissedStart`). |
| `gui_rollback` | Violation of `RolledBack`. |

### Bounds

`MaxEvents` and `MaxCalls` count only steps of users, devices, processes and
kills; the daemon's own steps are unbounded. Deadlock is not checked where
that bound, or an exit, lets the system stop; `filter_safety`, where a reload
may always be started, checks it.

* `redirect_safety`: one device, three marks (the old one, the new one, one a
  socket may still carry), two option sets that between them turn every option
  on and off, ip matches of both directions. Failures count as events. Three
  events suffice for a change during a reload followed by a signal, for a
  reload that is followed by a failing one and a failing clean-up, or for a
  socket hooked with one mark and swept in a later reload. `Marks` is a symmetry
  set: marks are compared, never ordered, and the run checks no liveness.
* `redirect_live`: two devices and two interface indices, so that the output
  is switched while either changes; two events are a switch racing a device, or
  either with a failure. No symmetry.
* `redirect_route`: two devices, two indices and two sets of addresses; three
  events are a switch of the output, a change of a device and one of its
  addresses or a failed probe, in any order. Devices, indices, addresses and
  marks are symmetric.
* `dns`: two names on one address, a redirect pattern over both and a bypass
  one over the second; ttl 0 and ttl above the limit; time 0 to 2.
* `state_files`: eight events are up to three starts with kills, torn writes and
  changes between them. `MixedGens` = {0, 1, 3} has a generation below, one that
  ties with and one above those of the first saves.
* `filter_safety`: two tasks (symmetric), two identities, three match sets, among
  them the empty one of a fresh state; state files of generation 0 and 4; six
  events.
* `matches_safety`: a user and root, a match with two methods, another user's that
  matches nothing, a dns one in each direction, an ipv4 one and one that does not
  parse; a limit of two patterns; four calls.
* `dfa_lookup`: all lists of three matches of either direction, of root or of a
  user, for paths or not; two match states, stride 2.

* `gui`: one checkbox, one address that is accepted and one text that is not,
  two patterns, two attributes, one device, a list of at most two matches (the
  limit at which the daemon refuses another), one process in the popup.
  `Scenarios` bounds users and the world together: two or three inputs with an
  event (a tray click, a poll, another client, the daemon's stop or start), or
  one with two, so that a restart meets an edit. The programs' own steps are
  not counted. `MaxQueue` = 1 lets one message wait for `update()`: handling a
  report earlier commutes with every step of the tasks, so a longer queue only
  lets user inputs come between, and an input before the report is already
  possible while the task has not sent it. Clicks, for which the moment of the
  view matters, have their own variable.

### Fairness

Only of what the runtime guarantees: tokio polls a task that was woken, the
multicast and ring-buffer threads block only on empty queues, tokio's mutex is
fair, `main` cleans up once a task has ended, the 100 ms sleep ends. All are
weak fairness. Nothing is assumed of users, devices or processes. `EventuallySettled`
holds because their number of steps is finite, which is how it is meant: left
alone, the daemon becomes idle. `FollowsPolicy` includes the fairness of
`PolicyFollower` and is checked under the same assumptions, and so is
`KeepsSaves` with that of `DurableCell`: a running `save_state` is polled and its
sleep ends, but nothing restarts a daemon that stopped. No liveness is
checked of the GUI; `PermitPerWindow` and `NoMissedStart` state as invariants
that nobody waits for what cannot come.

## Proofs

All theorems hold for every value of the constants that satisfies the named
assumptions, which TLC evaluates on the instances. They say that the dummy
values (`None`, `NoText`) differ from real ones, that bounds are naturals, that
what other clients may ask and what the daemon starts with is of the right
type, and (`MarksAssumption`) that no mark is the number of a fixed table: the
code draws marks from `u16::MAX..u32::MAX` (`netlink.rs:22-24`). Each safety
theorem rests on an inductive invariant; most properties are not inductive,
since they say nothing of a daemon that is busy.

### RedirectProofs

* `RulesOwnedAlways`, `CleanExitAlways`. With `RulesOwned` the three deletion
  loops leave just the static rule (`KeptIsStatic`), every rule a reload adds
  is one they will find (`InstalledRulesOwned`), and a loop that fails only deletes
  (`FailuresDelete`). `OwnedInv` is inductive, given the types: `RulesOwned` at every
  await, since the daemon may end at any; `CleanExit`; and `EndsUnclear`, that a
  clear which failed has ended its task, so that no later reload replaces the
  next mark (`AllClear`) and at most one mark is forgotten before the exit.
* `SocketsMarkedAlways` from `MarksAgree` (past each step of watch_reload,
  `CONFIG`, `ctx.bpf` and its own mark agree) and `Swept` (after the sweep each
  open socket has the mark).
* `RouteFreshAlways` from `ProbePending`: a Route that is out of date in more than
  `stale` allows (`Fresh`) is about to be probed, or the message that will cause
  the probe still waits. The multicast thread compares with the output of the
  moment it reads a message, which is why a switch of the output must itself
  notify watch_routes.
* `InSyncAlways` from `SyncInv`: `Applied` says what each await of a reload has
  carried to the kernel, to `CONFIG` and to the status as long as no change is
  pending; `Started`, that the first probe cannot be taken for no change;
  `StaticStays`, that no deletion loop takes the static rule (here marks must
  differ from table numbers).
* `ImplementsFollower`: the safety half of `FollowsPolicy`. Initial states map to
  initial states, and under the invariants above every step maps to a step of
  `PolicyFollower` or to a stutter: the exchange of rules under the `ctx.bpf`
  lock is its `Apply`, a failed installation its `GiveUp`, a failed clear of the old
  mark its `Stick`, `exit(1)` its `Die`, cleaning up, failed or not, its `Exit`.

### DnsProofs

* `HeapHashAgreeAlways`, inductive given the types. `ExpiryArmedAlways` from
  `SleeperSeen` and `FirstCovered` (what the task sleeps for, or is about to
  read, is the sleeper, which is no later than any record). `PeekIsFirst` (a set
  of records has a first expiry) rests on the well-foundedness of the naturals.
* `NoOrphanRouteAlways`; `RecordsMatchedAlways` and `RoutesCurrentAlways` from
  `MatchedInv`: the cache is that of the current matches or its rebuild is on the
  way, every record is one the cache names, and a route is that of a record
  unless watch_dns_routes has been woken.

### StateFilesProofs and BpfFilterProofs

* `GenerationOrderAlways` from `Counting` (the counter is never behind the
  generation of a readable file once the run counts on from the highest, mixtures
  included) and `Writing` (the save under way is newer than both files);
  `SurvivorAlways` from `Spare` (the next write goes to the other slot than the
  last completed one).
* `ImplementsCell`: the safety half of `KeepsSaves`. Besides `OrderInv` (the
  invariant of `GenerationOrderAlways`) it needs `AtRisk`: which file is the newest
  wherever save_state awaits (the one about to be overwritten in the first
  save of a run, the other one from then on, as long as no truncation failed),
  that the buffer holds the state, and that the file not being written can be
  read. Without it a write could bring back an older save in the middle of a run.
  `PairOfValues` and `PairAfter` say which of the two contents a start reads; a
  completed write is `Complete` (`StoredIsNewest`); one whose bytes are all there
  but for the truncation is `Write` (`SpoiltFallsBack`); one that is cut off is `Tear`,
  and `OtherStays` says what it cannot touch. `DistinctAssumption`: contents that
  are not UTF-8 differ from contents that are and do not parse.
* `TablesAgreeAlways` from `TablesInv`, what a reload under way carries at each
  step; `CacheCurrentAlways` from `FlushHolds` and `HooksCurrent`.

### MatchesProofs

* `CountAlwaysExact` and `TypeCorrect` from `CountInv`, their conjunction: that
  the counter does not go below zero holds only because it is exact, and
  conversely. The lemmas say how the number of dns matches moves with
  `Append`, `ReplaceAt` and `RemoveAt`.
* `ListAlwaysCompiles`: except for an addition, `try_parse` compiles another list
  than the one that is kept (the old match is still in it), so each change needs
  a lemma that the kept one is no larger in any of the three automata
  (`AppendCompiles`, `ReplaceCompiles`, `RemoveCompiles`).
* `GenerationAlwaysNames` from `NamesInv`: no list was published under a
  generation still to come.
* `OthersAlwaysUntouched`, an action property, from `AuthInv` (a call that goes
  ahead without polkit names entries of its client only). The property says
  that there is an order-preserving map from the others' entries of the old list
  onto those of the new one; `SameAppend`, `SameReplace` and `SameRemove` give
  it. That `update` and `delete` compare without the method does no harm, since
  the kind and the uid, which decide whose an entry is, are compared.

### DfaTablesProofs

* `MatchedAlwaysExactly`, `MatchAlwaysNamed`, `VerdictAlwaysOfMatch` from `Inv`, an
  invariant of the loops of `build_path_dfa` and `encode_dfa`. `Mapped`: `pat_id_map`
  lists the path matches met so far in ascending order, so that the first pattern
  of a state is that of the first match (`EntryIds`). `Layout`: the entries written
  so far hold the direction, the uid and the place of their match, and each slice
  has length 1, so that the index by state, which `redirect_table` is read with,
  and the index by slice, which the other two are, are the same. `Result`: what a
  lookup has read. `StateOfId` is the arithmetic of ids: every id between the
  first and the last match state falls into one of them.
  Assumed: ids are multiples of the stride from `FinMin` on (`DfaAssumption`).

### GuiHarnessProofs

* `ClickAlwaysNamesEntry`, `PopupAlwaysHasList`, `ModalAlwaysShowsOldest` from
  `WindowInv`, which each arm of `update()` preserves (`GuiStepGood`). It adds that
  a click that waits is not of a generation to come: otherwise a report could
  make a stale click look current.
* `TypeCorrect` and `StartNeverMissed` from `SystemInv`, with `CallsOK`: at most
  one call in flight is wanted, and process_requests waits exactly for that one.
* `PermitAlwaysPerWindow` from `PermitInv`: requests to open and to close
  alternate in the queue and end in the window as it is (`Alternates`), so that
  whatever part of the queue was handled, the permits there are those due. The
  count of the property alone does not show that a close finds its permit.
* `DaemonAlwaysShown` from `ReportInv`. A property is *told* when neither the
  daemon nor the bus has more to say of it (no unread signal, no change between
  read and subscription, no pending reload, no reconnection). For a property
  that is told, the last message about it in the queue carries the daemon's
  value, or there is none and the window shows it (`Ends`). `LinkInv` says the same
  of the connection.
* `OutputAlwaysResolved` from `OutputInv`: when the output is told and no request
  for one is queued, wanted or failed, the field is resolved or a report or an
  error that resolves it waits. Each way in which a request can be lost
  (refusal, a daemon that is gone, a dropped task, the probe) is shown to leave
  such a message or a connection that will be read again.

`SequenceLemmas` holds the facts about queues: how many entries of a kind follow
a position (`After`), whether there is one (`Some`), what the last one is
(`Ends`), under append, tail, concatenation, removal and replacement.

### Only model-checked

Liveness (`EventuallySettled`, `ExpiresEventually`, `SavedEventually`) and the
fairness halves of `FollowsPolicy` and `KeepsSaves`: outside the prover's reach.
The three properties that runs expect to be violated are refuted by TLC.

## Findings

1. `redirect_drop`: with drop_egress_without_output and no usable output, the
   unreachable rule matches the new mark, but the hook marks nothing while
   `CONFIG.enable` is false (`netlink.rs:209`, `bpf.c:68`): only sockets that
   were open at the sweep are dropped, new ones use the main table.
2. `dns_shared`: records are per name and address, routes per address; the
   first record to expire takes the route of the others (`dns.rs:53`).
3. `gui_rollback`: the rollback after an error copies the edited settings over
   the confirmed ones instead of back (`gui.rs:423`).

### Observations

Seen while modelling, each under "hazards" or named here only; no run checks
them.

* When `clear_rules(old_mark)?` fails, the new mark is already the remembered one
  (`netlink.rs:46-48`): the exit clears the new one, and rules of the old mark stay
  in the kernel. `EXPECT` in `bpf_reload_config` (`bpf-load.c:233-246`) exits
  without any clean-up. Both are steps of `Redirect`; `CleanExit` says that nothing
  else leaves rules behind, apart from a clean-up that fails itself.
* A change of addresses or gateway of the output is not noticed: the daemon
  listens for links and routes (`netlink.rs:287-288`), and the route messages all
  name a table (`netlink.rs:304`). The rule for the addresses and the default route
  stay those of the last probe. A probe that fails is not repeated.
* A device that goes down and up before the probe yields an equal Route, which
  is not published (`netlink.rs:269`); the default route that the kernel flushed
  is not installed again, although the repository's README.md:123 says it needs
  to be.
* Changes of the main table do not reach the copy made for allow_lan, since
  messages that name a table are skipped (`netlink.rs:304`); for the same
  reason the default route used for bypassed names stays that of the start.
* `task_cache` is flushed before the new DFA is installed (`bpf-load.c:233`); a
  socket created in between caches the old verdict until the next reload.
* A match state of the path DFA reports only the first of the matches that fit
  (`LeftmostFirst`): when that one is for another uid, a later match on the same
  path is not consulted (`MatchedExactly` states this).
* `main.rs:265` passes `&raw const ctx` to the ring buffer where `ctx` is a reference
  already, and the callback (`dns.rs:269-284`) casts the pointer to `&Ctx`: it gets
  the address of a reference instead of that of the `Ctx`. This concerns only the
  DNS callback. What the build makes of it is a question of memory layout, which
  `Dns` does not have.
* A write that was cut off can leave a file that parses, holds a state that was
  never saved and wins by its generation; the result of `ftruncate` is not looked
  at (`main.rs:376-381`).
* A torn file that is not UTF-8 keeps the daemon from starting; after a restart
  the first save overwrites the file just loaded; a change less than 100 ms
  before an exit is lost.
* `parse` does not look at `conf.enable`, so that an answer still in the ring buffer
  gets a route after redirection was switched off (`dns.rs:261`), until the next
  rebuild; its thread outlives the clean-up (`main.rs:278`), but without the static
  rule such a route is not looked up. More than a thousand ip matches would
  exceed the bound of the deletion loops (`netlink.rs:568`).
* A sweep misses a socket between its hook and its descriptor; `execve` and
  `setuid` keep the cached verdict; near the DFA limit a deletion can be
  refused, since `try_parse` adds the match once more.
* GUI: a change between the read of a property and the subscription is not seen
  until the next (`main.rs:143-156`). Requests made while the daemon is away
  stay queued and are either sent or dropped when it is back (`main.rs:317`).
  Settings are sent as a whole record, so an edit undoes a change of another
  client that was not reported yet (`gui.rs:195`). A report of `Attached`
  replaces a device name being typed (`gui.rs:363`). A pick from a process list
  that was refreshed in between can panic (`gui.rs:277`). Without a status
  notifier host `tray()` returns and drops its receiver, and the next report of
  `Attached` panics on the send (`tray.rs:66-69`, `gui.rs:365-380`).

## Not modelled

Encoding of netlink, nft and D-Bus messages; queries and statistics (they change
only their own caches); capabilities, CLI and build; generated bindings;
layout, focus and drawing of the GUI; regular expressions and the transition tables of DFAs;
power loss; more than a thousand rules; netlink deletions that are refused while
there is something to delete; memory layout.

## Plan

1. What a step of the GUI's harness may drop, as an action property.
2. Compositions: `Matches` with `BpfFilter` (generations and compilation) and
   with `StateFiles` (what a restart loads), replacing their separate runs
   where the composition asks the same question.
3. The walk of a DFA: path reversal and mount roots.
