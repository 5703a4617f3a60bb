------------------------------ MODULE GuiHarness ------------------------------
(***************************************************************************)
(* The background tasks of rebpf-gui (rebpf-gui/main.rs, tray/tray.rs)     *)
(* composed with the window (Gui) and with the daemon as its clients see   *)
(* it (rebpf/dbus.rs): dbus_service_harness finds the daemon and runs      *)
(* listen_props, listen_proc_names and process_requests until one of them  *)
(* fails or the bus name changes hands, and then drops all three where     *)
(* they await.                                                             *)
(*                                                                         *)
(* D-Bus delivers in order.  A property read and its answer are one step,  *)
(* since an answer precedes the signals of later changes; a method call    *)
(* may wait for authorization for as long as the user likes.               *)
(***************************************************************************)
EXTENDS Gui, SequencesExt

CONSTANTS
    ValidTexts,  \* DNS addresses that the daemon accepts
    Config0,     \* the daemon's configuration at the start
    Matches0,    \* its matches
    MaxList,     \* bound on the length of the daemon's list
    MaxQueue,    \* bound on the messages that wait for update()
    Requests,    \* what other clients may ask of the daemon
    Scenarios    \* bounds: which parts of the window are used, by how many inputs, together
                 \* with how many other events (polls, tray clicks, restarts, other clients)

ASSUME HarnessAssumption ==
    /\ ValidTexts \subseteq Texts
    /\ Config0 \in Settings /\ Config0.spoof_dns_ipv4 \in ValidTexts
    /\ Matches0 \in Seq(Match)
    /\ MaxList \in Nat /\ MaxQueue \in Nat
    /\ \A r \in Requests : r \in Request /\ r.d \notin {"WindowOpened", "WindowClosed"}
    /\ Scenarios \subseteq [uses : SUBSET Widgets, input : Nat, other : Nat]

VARIABLES
    dm,        \* the daemon: [up, enable, to_dev, route, config, matches, attached, blocker]
    todo,      \* the daemon's watch_routes and watch_reload that have been woken
    owner,     \* own_iter: owner changes not seen
    signals,   \* PropertiesChanged signals not handled
    calls,     \* method calls that the daemon has not answered
    h,         \* the tasks of the harness, a record:
               \*   pc: "probe", "offline", "online" or "ended"; err_sent
               \*   props: the property that listen_props reads next, "subscribe" or "listen"
               \*   request: process_requests is "idle", "calling", "failed" or "closing"
               \*   permits of sema; polling: listen_proc_names holds one
    missed,    \* history: properties that changed between the read and the subscription
    lost,      \* history: WindowClosed requests dropped while they waited for a permit
    unrolled,  \* history: an error left settings that were being edited
    events     \* what there has been of a scenario

daemonVars == <<dm, todo>>
busVars == <<owner, signals, calls>>
history == <<missed, lost, unrolled>>
vars == <<guiVars, daemonVars, busVars, h, history, events>>

\* There is a scenario that goes on like that.
Tick(e) ==
    /\ \E c \in Scenarios : e.uses \subseteq c.uses /\ e.input <= c.input /\ e.other <= c.other
    /\ events' = e

TickOther == Tick([events EXCEPT !.other = @ + 1])

\* The background tasks use the channels and nothing else of the GUI.
Send(m) ==
    /\ Len(mq) < MaxQueue
    /\ mq' = Append(mq, m)
    /\ UNCHANGED <<s, click, dq, open, tray, life>>

Receive == dq # << >> /\ dq' = Tail(dq) /\ UNCHANGED <<s, click, mq, open, tray, life>>

-----------------------------------------------------------------------------
(* The daemon *)

\* The property `attached`.
AttachedProp ==
    [ attached |-> dm.attached, enabled |-> dm.enable, blocker |-> dm.blocker,
      to_ifname |-> IF dm.route # None THEN dm.route ELSE dm.to_dev ]

Property(p) ==
    CASE p = "Attached" -> Msg("Attached", AttachedProp)
      [] p = "Matches"  -> Msg("Matches", dm.matches)
      [] p = "Settings" -> Msg("Settings", dm.config)

\* The properties that listen_props has read but does not listen to yet.
Unwatched ==
    CASE h.props = "Matches"   -> {"Attached"}
      [] h.props = "Settings"  -> {"Attached", "Matches"}
      [] h.props = "subscribe" -> {"Attached", "Matches", "Settings"}
      [] OTHER -> {}

\* PropertiesChanged signals reach whoever has subscribed.
Emit(ps) ==
    /\ signals' = IF h.props = "listen" THEN signals \o ps ELSE signals
    /\ missed' = missed \cup (ToSet(ps) \cap Unwatched)

\* A Route that has not changed is not sent; any device that is named exists.
WatchRoutes ==
    LET r == IF dm.to_dev = NoText THEN None ELSE dm.to_dev IN
    /\ "routes" \in todo
    /\ dm' = [dm EXCEPT !.route = r]
    /\ todo' = IF r # None /\ r = dm.route THEN todo \ {"routes"} ELSE {"reload"}
    /\ UNCHANGED <<guiVars, busVars, h, history, events>>

\* The end of an iteration of watch_reload.
WatchReload ==
    /\ "reload" \in todo
    /\ dm' = [dm EXCEPT !.attached = TRUE, !.blocker = (dm.route = None)]
    /\ todo' = todo \ {"reload"}
    /\ Emit(<<"Attached">>)
    /\ UNCHANGED <<guiVars, owner, calls, h, lost, unrolled, events>>

\* Whether the arguments of a method are acceptable, and what it does.
Acceptable(r) ==
    CASE r.d = "SettingsUpdate" -> r.v.spoof_dns_ipv4 \in ValidTexts
      [] r.d = "MatchAdd"    -> Len(dm.matches) < MaxList
      [] r.d = "MatchDelete" -> Contains(dm.matches, r.v)
      [] r.d = "MatchUpdate" -> Contains(dm.matches, r.v[1])
      [] OTHER -> TRUE

\* The first entry that is equal to m: the daemon keeps duplicates.
Position(m) == SelectInSeq(dm.matches, LAMBDA x : x = m)

Effect(r) ==
    CASE r.d = "Enable"         -> [dm EXCEPT !.enable = TRUE]
      [] r.d = "Disable"        -> [dm EXCEPT !.enable = FALSE]
      [] r.d = "ChangeOutput"   -> [dm EXCEPT !.to_dev = r.v]
      [] r.d = "SettingsUpdate" -> [dm EXCEPT !.config = r.v]
      [] r.d = "MatchAdd"       -> [dm EXCEPT !.matches = Append(@, r.v)]
      [] r.d = "MatchDelete"    -> [dm EXCEPT !.matches = RemoveAt(@, Position(r.v))]
      [] r.d = "MatchUpdate"    -> [dm EXCEPT !.matches = ReplaceAt(@, Position(r.v[1]), r.v[2])]

\* enable and disable have no result to speak of.
Infallible(r) == r.d \in {"Enable", "Disable"}

\* send_modify wakes watch_routes and watch_reload.
Apply(r) ==
    /\ dm' = Effect(r)
    /\ todo' = {"routes", "reload"}
    /\ Emit(CASE r.d = "SettingsUpdate" -> <<"Settings">>
              [] r.d \in {"MatchAdd", "MatchDelete", "MatchUpdate"} -> <<"Matches">>
              [] OTHER -> << >>)
    /\ UNCHANGED <<owner, lost, unrolled>>

\* Call i is answered; process_requests goes on if it still waits for it.
Answered(i) ==
    /\ calls' = RemoveAt(calls, i)
    /\ h' = IF calls[i].wanted THEN [h EXCEPT !.request = "idle"] ELSE h

\* A call is granted and its arguments are right.
CallAccepted(i) ==
    /\ Acceptable(calls[i].req)
    /\ Apply(calls[i].req)
    /\ Answered(i)
    /\ UNCHANGED <<guiVars, events>>

CallRefused(i) ==
    /\ ~Infallible(calls[i].req)
    /\ Answered(i)
    /\ IF calls[i].wanted THEN Send(Msg("DbusErr", "refused")) ELSE UNCHANGED guiVars
    /\ UNCHANGED <<daemonVars, owner, signals, history, events>>

\* Another client changes something.
OtherClient(r) ==
    /\ TickOther
    /\ dm.up
    /\ Acceptable(r)
    /\ Apply(r)
    /\ UNCHANGED <<guiVars, calls, h>>

\* The daemon ends: its name is released, calls in flight fail.
DaemonStop ==
    /\ TickOther
    /\ dm.up
    /\ dm' = [dm EXCEPT !.up = FALSE, !.route = None, !.attached = FALSE, !.blocker = FALSE]
    /\ todo' = {}
    /\ owner' = owner + 1
    /\ calls' = << >>
    /\ h' = [h EXCEPT !.request =
                IF @ # "calling" THEN @
                ELSE IF \E i \in DOMAIN calls : calls[i].wanted /\ Infallible(calls[i].req)
                THEN "idle" ELSE "failed"]
    /\ UNCHANGED <<guiVars, signals, history>>

\* It starts with the state it saved.
DaemonStart ==
    /\ TickOther
    /\ ~dm.up
    /\ dm' = [dm EXCEPT !.up = TRUE]
    /\ todo' = {"routes", "reload"}
    /\ owner' = owner + 1
    /\ UNCHANGED <<guiVars, signals, calls, h, history>>

-----------------------------------------------------------------------------
(* dbus_service_harness *)

ProbeOk ==
    /\ h.pc = "probe" /\ dm.up
    /\ h' = [h EXCEPT !.pc = "online", !.err_sent = FALSE]
    /\ Send(Msg("DbusConnected", None))
    /\ UNCHANGED <<daemonVars, busVars, history, events>>

ProbeFails ==
    /\ h.pc = "probe" /\ ~dm.up
    /\ h' = [h EXCEPT !.pc = "offline", !.err_sent = TRUE]
    /\ IF h.err_sent THEN UNCHANGED guiVars ELSE Send(Msg("DbusCantConnect", "offline"))
    /\ UNCHANGED <<daemonVars, busVars, history, events>>

\* A slip: a permit is taken but comes back with its guard.
PermitsAfterKept(d) == h.permits

\* process_requests_sema: add_permits(1), or acquire().forget().
PermitsAfter(d) ==
    CASE d = "WindowOpened" -> h.permits + 1
      [] d = "WindowClosed" -> h.permits - 1
      [] OTHER -> h.permits

\* A request that arrives during the probe: those about the window count,
\* the others are dropped.
ProbeDrops ==
    /\ h.pc = "probe"
    /\ Receive
    /\ Head(dq).d = "WindowClosed" => h.permits > 0
    /\ h' = [h EXCEPT !.permits = PermitsAfter(Head(dq).d)]
    /\ UNCHANGED <<daemonVars, busVars, history, events>>

\* A slip: the name is taken to be lost whenever its owner changes.
OfflineWaitsAnew ==
    /\ h.pc = "offline" /\ owner > 0
    /\ owner' = owner - 1
    /\ UNCHANGED <<guiVars, daemonVars, signals, calls, h, history, events>>

OfflineWakes ==
    /\ h.pc = "offline" /\ owner > 0
    /\ owner' = owner - 1
    /\ h' = [h EXCEPT !.pc = "probe"]
    /\ UNCHANGED <<guiVars, daemonVars, signals, calls, history, events>>

\* select! drops the three tasks where they await: a permit held goes back,
\* a call under way is answered to nobody, a close that waits is forgotten.
DropTasks ==
    /\ h' = [h EXCEPT !.pc = "probe", !.props = "Attached", !.request = "idle",
                      !.permits = IF h.polling THEN @ + 1 ELSE @, !.polling = FALSE]
    /\ signals' = << >> /\ missed' = {}
    /\ calls' = [i \in DOMAIN calls |-> [calls[i] EXCEPT !.wanted = FALSE]]
    /\ lost' = IF h.request = "closing" THEN lost + 1 ELSE lost
    /\ UNCHANGED <<daemonVars, unrolled, events>>

OwnerChanged ==
    /\ h.pc = "online" /\ owner > 0
    /\ owner' = owner - 1
    /\ DropTasks
    /\ UNCHANGED guiVars

\* A property cannot be read any more.
ListenFails ==
    /\ h.pc = "online" /\ ~dm.up
    /\ h.props \in {"Attached", "Matches", "Settings"} \/ signals # << >>
    /\ DropTasks
    /\ Send(Msg("DbusFail", "lost"))
    /\ UNCHANGED owner

-----------------------------------------------------------------------------
(* listen_props *)

NextProp == [Attached |-> "Matches", Matches |-> "Settings", Settings |-> "subscribe"]

ReadProperty ==
    /\ h.pc = "online" /\ dm.up
    /\ h.props \in DOMAIN NextProp
    /\ Send(Property(h.props))
    /\ h' = [h EXCEPT !.props = NextProp[@]]
    /\ UNCHANGED <<daemonVars, busVars, history, events>>

Subscribe ==
    /\ h.pc = "online" /\ h.props = "subscribe"
    /\ h' = [h EXCEPT !.props = "listen"]
    /\ UNCHANGED <<guiVars, daemonVars, busVars, history, events>>

\* The first of the signals is answered by a read; `rest` are still to come.
Reread(rest) ==
    /\ h.pc = "online" /\ dm.up
    /\ Send(Property(Head(signals)))
    /\ signals' = rest
    /\ missed' = missed \ {Head(signals)}
    /\ UNCHANGED <<daemonVars, owner, calls, h, lost, unrolled, events>>

\* A slip: a signal that follows another is taken for its repetition.
PropertyChangedOnce == signals # << >> /\ Reread(<< >>)

PropertyChanged == signals # << >> /\ Reread(Tail(signals))

-----------------------------------------------------------------------------
(* listen_proc_names *)

\* The permits are handed out in the order of the waiters, and a poll joins
\* them again after each round.
PollStart ==
    /\ TickOther
    /\ h.pc = "online" /\ ~h.polling
    /\ h.permits > 0 /\ h.request # "closing"
    /\ h' = [h EXCEPT !.permits = @ - 1, !.polling = TRUE]
    /\ Send(Msg("ActiveProcs", None))
    /\ UNCHANGED <<daemonVars, busVars, history>>

PollEnd ==
    /\ h.polling
    /\ h' = [h EXCEPT !.permits = @ + 1, !.polling = FALSE]
    /\ UNCHANGED <<guiVars, daemonVars, busVars, history, events>>

-----------------------------------------------------------------------------
(* process_requests *)

TakeWindowOpened ==
    /\ Receive
    /\ Head(dq).d = "WindowOpened"
    /\ h' = [h EXCEPT !.permits = PermitsAfter("WindowOpened")]
    /\ UNCHANGED calls

TakeWindowClosed ==
    /\ Receive
    /\ Head(dq).d = "WindowClosed"
    /\ h' = [h EXCEPT !.request = "closing"]
    /\ UNCHANGED calls

\* Without a daemon the call fails at once.
TakeCall ==
    /\ Receive
    /\ Head(dq).d \notin {"WindowOpened", "WindowClosed"}
    /\ IF dm.up
       THEN /\ h' = [h EXCEPT !.request = "calling"]
            /\ calls' = Append(calls, [req |-> Head(dq), wanted |-> TRUE])
       ELSE /\ h' = [h EXCEPT !.request = IF Infallible(Head(dq)) THEN "idle" ELSE "failed"]
            /\ UNCHANGED calls

TakeRequest ==
    /\ h.pc = "online" /\ h.request = "idle"
    /\ TakeWindowOpened \/ TakeWindowClosed \/ TakeCall
    /\ UNCHANGED <<daemonVars, owner, signals, history, events>>

CloseTakesPermit ==
    /\ h.request = "closing" /\ h.permits > 0
    /\ h' = [h EXCEPT !.permits = PermitsAfter("WindowClosed"), !.request = "idle"]
    /\ UNCHANGED <<guiVars, daemonVars, busVars, history, events>>

RequestFailed ==
    /\ h.request = "failed"
    /\ h' = [h EXCEPT !.request = "idle"]
    /\ Send(Msg("DbusErr", "lost"))
    /\ UNCHANGED <<daemonVars, busVars, history, events>>

-----------------------------------------------------------------------------
(* tray *)

\* The icon and its menu.
TrayActivate ==
    /\ TickOther
    /\ open.t
    /\ Send(Msg("WindowToggle", None))
    /\ UNCHANGED <<daemonVars, busVars, h, history>>

TrayMenu(id) ==
    /\ TickOther
    /\ open.t
    /\ IF id = "Quit" THEN Send(Msg("Exit", None))
       ELSE open.d /\ dq' = Append(dq, Req(id, None)) /\ UNCHANGED <<s, click, mq, open, tray, life>>
    /\ UNCHANGED <<daemonVars, busVars, h, history>>

-----------------------------------------------------------------------------
\* main() and background(): the first window is opened unless --tray is
\* given; tray() registers the icon, or ends with t_rx when there is no
\* notifier host; the harness connects to the system bus, or ends with d_rx.
Init ==
    /\ s = DefaultState
    /\ open \in [d : BOOLEAN, t : BOOLEAN]
    /\ mq \in { window \o (IF open.t THEN <<Msg("TrayUp", None)>> ELSE << >>)
                      \o (IF open.d THEN << >> ELSE <<Msg("DbusFail", "lost")>>)
               : window \in {<< >>, <<Msg("WindowOpen", None)>>} }
    /\ click = None /\ dq = << >> /\ tray = "NotConnected" /\ life = "running"
    /\ dm = [up |-> TRUE, enable |-> FALSE, to_dev |-> NoText, route |-> None,
             config |-> Config0, matches |-> Matches0, attached |-> TRUE, blocker |-> TRUE]
    /\ todo = {}
    /\ owner = 0 /\ signals = << >> /\ calls = << >>
    /\ h = [pc |-> IF open.d THEN "probe" ELSE "ended", err_sent |-> FALSE, props |-> "Attached",
            request |-> "idle", permits |-> 0, polling |-> FALSE]
    /\ missed = {} /\ lost = 0 /\ unrolled = FALSE
    /\ events = [uses |-> {}, input |-> 0, other |-> 0]

\* An error that does not bring back the confirmed settings is remembered until
\* the settings are reported again.
Remember ==
    unrolled' = IF Len(s'.dbus_errs) > Len(s.dbus_errs)
                THEN unrolled \/ s'.settings # s.settings_override
                ELSE unrolled /\ ~(mq' # mq /\ Head(mq).m = "Settings")

UserInput(w) ==
    /\ Tick([events EXCEPT !.uses = @ \cup {w}, !.input = @ + 1])
    /\ InputTo(w)
    /\ Remember
    /\ UNCHANGED <<daemonVars, busVars, h, missed, lost>>

HandleQueued ==
    /\ HandleMessage \/ HandleClick
    /\ Remember
    /\ UNCHANGED <<daemonVars, busVars, h, missed, lost, events>>

Daemon == WatchRoutes \/ WatchReload
Answer == \E i \in DOMAIN calls : CallAccepted(i) \/ CallRefused(i)

Harness ==
    \/ ProbeOk \/ ProbeFails \/ ProbeDrops \/ OfflineWakes \/ OwnerChanged \/ ListenFails
Listen == ReadProperty \/ Subscribe \/ PropertyChanged
Process == TakeRequest \/ CloseTakesPermit \/ RequestFailed

World ==
    \/ \E r \in Requests : OtherClient(r)
    \/ DaemonStop \/ DaemonStart
    \/ TrayActivate
    \/ \E id \in {"Enable", "Disable", "Quit"} : TrayMenu(id)
    \/ PollStart

Background == life = "running" /\ (Harness \/ Listen \/ Process \/ PollEnd)

\* What the programs do by themselves.
Work == HandleQueued \/ Background \/ (life = "running" /\ Daemon)

Next ==
    \/ \E w \in Widgets : UserInput(w)
    \/ Work
    \/ life = "running" /\ (Answer \/ World)

Spec == Init /\ [][Next]_vars

-----------------------------------------------------------------------------
(* Properties *)

\* Types of all variables.
TypeOK ==
    /\ GuiTypeOK
    /\ dm \in [ up : BOOLEAN, enable : BOOLEAN, to_dev : Devs, route : Devs \cup {None},
                config : Settings, matches : Seq(Match), attached : BOOLEAN, blocker : BOOLEAN ]
    /\ signals \in Seq({"Attached", "Matches", "Settings"})
    /\ calls \in Seq([req : Request, wanted : BOOLEAN])
    /\ todo \subseteq {"routes", "reload"}
    /\ owner \in Nat /\ lost \in Nat /\ unrolled \in BOOLEAN
    /\ missed \subseteq {"Attached", "Matches", "Settings"}
    /\ h \in [ pc : {"probe", "offline", "online", "ended"}, err_sent : BOOLEAN,
               props : {"Attached", "Matches", "Settings", "subscribe", "listen"},
               request : {"idle", "calling", "failed", "closing"},
               permits : Nat, polling : BOOLEAN ]
    /\ h.request = "calling" <=> \E i \in DOMAIN calls : calls[i].wanted
    /\ events \in [uses : SUBSET Widgets, input : Nat, other : Nat]

\* Nothing is queued or under way.
Quiet ==
    /\ life = "running"
    /\ mq = << >> /\ dq = << >> /\ click = None
    /\ owner = 0 /\ signals = << >> /\ calls = << >>
    /\ h.request = "idle" /\ todo = {}

Online == h.pc = "online" /\ dm.up /\ h.props = "listen"

\* Once all is quiet the window and the tray icon show the daemon's state,
\* whatever was dropped by a reconnection, was overtaken by a signal or was
\* changed by another client; and without a daemon they say so.  Two
\* exceptions: a change between the read of a property and the subscription
\* (listen_props), and settings that an error found half edited (DbusErr).
ShowsDaemon ==
    /\ Quiet /\ Online =>
        /\ "Attached" \notin missed => s.attached = AttachedProp /\ tray = TrayOf(AttachedProp)
        /\ "Matches" \notin missed => s.matches = dm.matches
        /\ "Settings" \notin missed /\ ~unrolled => s.settings_override = dm.config
        /\ s.dbus_conn_err = None
    /\ life = "running" /\ h.pc = "offline" /\ mq = << >> =>
        /\ s.attached = DefaultAttached /\ s.matches = << >> /\ tray = "NotConnected"
        /\ s.dbus_conn_err # None

\* The name of an output that was submitted does not stay in the field once
\* it was refused, dropped or replaced: the field then shows the output in
\* use.
OutputResolved ==
    Quiet /\ Online /\ "Attached" \notin missed /\ s.output_dev_input_sent
        => s.output_dev_input = s.attached.to_ifname

Queued(d) == Cardinality({i \in DOMAIN dq : dq[i].d = d})
Held == IF h.polling THEN 1 ELSE 0

\* The daemon is polled while there is a window and not otherwise: permits
\* are given and taken through a queue, a task that holds one may be dropped,
\* and each WindowClosed dropped while it waits leaves one too many
\* (process_requests_sema).  A close never waits for a permit that nobody
\* holds: it would hold up every later request, or the probe.
PermitPerWindow ==
    life = "running" /\ open.d =>
        /\ h.permits + Held + Queued("WindowOpened")
             = (IF s.window THEN 1 ELSE 0) + Queued("WindowClosed")
               + (IF h.request = "closing" THEN 1 ELSE 0) + lost
        /\ h.request = "closing" => h.permits + Held > 0
        /\ h.pc = "probe" /\ dq # << >> /\ Head(dq).d = "WindowClosed" => h.permits > 0

\* The harness never waits for a daemon that is already there: the stream of
\* owner changes is older than the probe that failed.
NoMissedStart == h.pc = "offline" /\ dm.up => owner > 0

\* "Rollback pending configuration changes" (gui.rs:422): after an error the
\* settings shown are those that the daemon has confirmed.
RolledBack == ~unrolled
=============================================================================
