--------------------------------- MODULE Gui ---------------------------------
(***************************************************************************)
(* The state of rebpf-gui's window and what update() makes of each message *)
(* (rebpf-gui/gui/gui.rs): inputs of the user, which may send a request to *)
(* the daemon, and reports of the background tasks, which replace what the *)
(* user sees and edits.                                                    *)
(*                                                                         *)
(* update() runs on one thread, so each message is one action.  What a     *)
(* click on a list entry carries was read from the view, and messages that *)
(* are already queued are handled before it: such a click waits in `click`. *)
(* Other inputs carry a value that does not depend on the view.            *)
(***************************************************************************)
EXTENDS Naturals, Sequences, Functions

CONSTANTS
    Flags,      \* the checkboxes of the settings, "spoof_dns" among them
    Texts,      \* texts in the DNS address field
    Patterns,   \* patterns of matches
    Attrs,      \* kind, method and direction of a match
    Devs,       \* names of output devices
    NoText,     \* the empty text
    MaxProcs,   \* bound on the processes that the popup lists
    None        \* Option::None

Errors == {"refused", "lost", "offline"}

ASSUME GuiAssumption ==
    /\ "spoof_dns" \in Flags
    /\ NoText \in Texts \cap Devs
    /\ NoText \notin Patterns
    /\ MaxProcs \in Nat
    /\ None \notin Nat \cup Devs \cup Errors \cup {"NotConnected", "Enabled", "Disabled"}

VARIABLES
    s,      \* gui::State
    click,  \* a message about a list entry that update() has not handled
    mq,     \* channel m: messages of the background tasks
    dq,     \* channel d: requests to the background tasks
    open,   \* whether the receivers of channels d and t still exist
    tray,   \* TrayState.state that the tray task holds
    life    \* "running", "exited" or "panicked"

guiVars == <<s, click, mq, dq, open, tray, life>>

-----------------------------------------------------------------------------
(* Data *)

Settings == [flag : [Flags -> BOOLEAN], spoof_dns_ipv4 : Texts]
Match == [pattern : Patterns \cup {NoText}, attr : Attrs]
Attached == [attached : BOOLEAN, enabled : BOOLEAN, blocker : BOOLEAN, to_ifname : Devs]

DefaultSettings == [flag |-> [f \in Flags |-> FALSE], spoof_dns_ipv4 |-> NoText]
DefaultAttached == [attached |-> FALSE, enabled |-> FALSE, blocker |-> FALSE, to_ifname |-> NoText]

\* State::default with the fields that main() sets.
DefaultState ==
    [ tray_up |-> FALSE, window |-> FALSE,
      settings |-> DefaultSettings, settings_override |-> DefaultSettings, show_settings |-> FALSE,
      output_dev_input |-> NoText, output_dev_input_sent |-> FALSE,
      proc_input |-> NoText, proc_input_sent |-> FALSE, procs_all |-> None,
      attached |-> DefaultAttached,
      matches |-> << >>, matches_override |-> << >>, matches_gen |-> 0,
      dbus_conn_err |-> None, dbus_errs |-> << >>, modal_editor |-> None ]

Msg(kind, val) == [m |-> kind, v |-> val]
Req(kind, val) == [d |-> kind, v |-> val]

\* gui::Message as far as background tasks send it, and DbusRequest.
Message ==
    [m : {"WindowOpen", "WindowToggle", "TrayUp", "Exit", "ActiveProcs", "DbusConnected"}, v : {None}]
    \cup [m : {"Settings"}, v : Settings] \cup [m : {"Attached"}, v : Attached]
    \cup [m : {"Matches"}, v : Seq(Match)]
    \cup [m : {"DbusErr", "DbusFail", "DbusCantConnect"}, v : Errors]

Request ==
    [d : {"WindowOpened", "WindowClosed", "Enable", "Disable"}, v : {None}]
    \cup [d : {"ChangeOutput"}, v : Devs] \cup [d : {"SettingsUpdate"}, v : Settings]
    \cup [d : {"MatchAdd", "MatchDelete"}, v : Match]
    \cup [d : {"MatchUpdate"}, v : Match \X Match]

\* The icon that an Attached report asks the tray for.
TrayOf(a) ==
    IF ~a.attached \/ a.blocker THEN "NotConnected"
    ELSE IF a.enabled THEN "Enabled" ELSE "Disabled"

-----------------------------------------------------------------------------
(* One call of update() *)

\* The new state is n, the requests in `out` are sent; sending on a channel
\* without a receiver is an unwrap() of an error.
Update(n, out) ==
    /\ life = "running"
    /\ s' = n
    /\ dq' = dq \o out
    /\ life' = IF out # << >> /\ ~open.d THEN "panicked" ELSE life

\* An input of the user that is handled at once.
Input(n, out) == Update(n, out) /\ UNCHANGED <<click, mq, open, tray>>

\* The next message of the background tasks; t is sent to the tray, unless
\* it is None.
Report(kind, n, t) ==
    /\ life = "running"
    /\ mq # << >>
    /\ Head(mq).m = kind
    /\ mq' = Tail(mq)
    /\ s' = n
    /\ tray' = IF t = None THEN tray ELSE t
    /\ life' = IF t # None /\ ~open.t THEN "panicked" ELSE life
    /\ UNCHANGED <<click, dq, open>>

Reported == Head(mq).v

-----------------------------------------------------------------------------
(* Window *)

\* Without a tray the application ends with its window.
CloseWindow ==
    /\ s' = [s EXCEPT !.window = FALSE]
    /\ dq' = Append(dq, Req("WindowClosed", None))
    /\ life' = IF ~open.d THEN "panicked" ELSE IF s.tray_up THEN life ELSE "exited"

\* The user closes the window.
WindowCloseId ==
    /\ life = "running" /\ s.window
    /\ CloseWindow
    /\ UNCHANGED <<click, mq, open, tray>>

\* The tray icon was activated, or main() opens the first window: WindowOpen
\* comes before any other message, so there is no window that it could find.
WindowToggle ==
    /\ life = "running"
    /\ mq # << >> /\ Head(mq).m \in {"WindowToggle", "WindowOpen"}
    /\ mq' = Tail(mq)
    /\ IF s.window THEN CloseWindow
       ELSE Update([s EXCEPT !.window = TRUE], <<Req("WindowOpened", None)>>)
    /\ UNCHANGED <<click, open, tray>>

TrayUp == Report("TrayUp", [s EXCEPT !.tray_up = TRUE], None)

Exit ==
    /\ life = "running"
    /\ mq # << >> /\ Head(mq).m = "Exit"
    /\ life' = "exited"
    /\ UNCHANGED <<s, click, mq, dq, open, tray>>

-----------------------------------------------------------------------------
(* Settings *)

SettingsSubmit(st) ==
    IF st.settings # st.settings_override THEN <<Req("SettingsUpdate", st.settings)>> ELSE << >>

SettingsShown == s.window /\ s.show_settings /\ s.modal_editor = None

SettingsOpen ==
    /\ s.window /\ ~s.show_settings /\ s.modal_editor = None
    /\ Input([s EXCEPT !.show_settings = TRUE], << >>)

SettingsClose ==
    LET n == [s EXCEPT !.show_settings = FALSE] IN SettingsShown /\ Input(n, SettingsSubmit(n))

\* SettingsLan, SettingsDns, SettingsDropEgressWithoutOutput
SettingsFlag(f, b) ==
    LET n == [s EXCEPT !.settings.flag[f] = b] IN SettingsShown /\ Input(n, SettingsSubmit(n))

SettingsDnsIp(x) ==
    /\ SettingsShown /\ s.settings.flag["spoof_dns"]
    /\ Input([s EXCEPT !.settings.spoof_dns_ipv4 = x], << >>)

SettingsDnsIpSubmit == SettingsShown /\ Input(s, SettingsSubmit(s))

OnSettings == Report("Settings", [s EXCEPT !.settings_override = Reported, !.settings = Reported], None)

-----------------------------------------------------------------------------
(* Output device *)

OutputSubmit(st) ==
    IF ~st.output_dev_input_sent /\ st.output_dev_input # st.attached.to_ifname
    THEN [st |-> [st EXCEPT !.output_dev_input_sent = TRUE],
          out |-> <<Req("ChangeOutput", st.output_dev_input)>>]
    ELSE [st |-> st, out |-> << >>]

OutputSet(st, n) ==
    [st EXCEPT !.output_dev_input_sent = (st.attached.to_ifname = n), !.output_dev_input = n]

OutputDevSet(n) == s.window /\ Input(OutputSet(s, n), << >>)

\* Enter, or the pointer leaves the field or its popup.
OutputDevSubmit == s.window /\ LET r == OutputSubmit(s) IN Input(r.st, r.out)

\* An entry of the popup.
OutputDevSetSubmit(n) == s.window /\ LET r == OutputSubmit(OutputSet(s, n)) IN Input(r.st, r.out)

OnAttached ==
    Report("Attached",
           [s EXCEPT !.attached = Reported,
                     !.output_dev_input = Reported.to_ifname,
                     !.output_dev_input_sent = TRUE],
           TrayOf(Reported))

\* The Enable and Disable buttons.
Switch(on) ==
    /\ s.window /\ s.attached.attached /\ s.attached.enabled # on
    /\ Input(s, <<Req(IF on THEN "Enable" ELSE "Disable", None)>>)

-----------------------------------------------------------------------------
(* Matches *)

\* procs_all_with: how many running processes the pattern selects.
Refreshed == 0..MaxProcs

\* Typing a new pattern refreshes the list in the popup.
Procs(n, k) ==
    /\ s.window
    /\ Input([s EXCEPT !.proc_input_sent = FALSE, !.proc_input = n,
                       !.procs_all = IF n = NoText THEN None ELSE k], << >>)

\* Kind, method and direction are those chosen before.
MatchAdd(a) ==
    /\ s.window
    /\ Input([s EXCEPT !.proc_input_sent = TRUE],
             <<Req("MatchAdd", [pattern |-> s.proc_input, attr |-> a])>>)

\* Entry i of the list as it is shown.
Entry(i) == IF i \in DOMAIN s.matches_override THEN s.matches_override[i] ELSE s.matches[i]

\* The user clicks on, types in or leaves entry i of the list: the message
\* carries the generation and the index of the view.  `saw` is history.
MatchClick(kind, i, a) ==
    /\ life = "running" /\ s.window /\ click = None
    /\ i \in DOMAIN s.matches
    /\ click' = [k |-> kind, g |-> s.matches_gen, i |-> i, a |-> a, saw |-> s.matches[i]]
    /\ UNCHANGED <<s, mq, dq, open, tray, life>>

\* The user picks process i in the popup.
ProcClick(i) ==
    /\ life = "running" /\ s.window /\ click = None
    /\ s.proc_input # NoText /\ s.procs_all # None /\ i \in 1..s.procs_all
    /\ click' = [k |-> "proc", g |-> s.matches_gen, i |-> i, a |-> None, saw |-> None]
    /\ UNCHANGED <<s, mq, dq, open, tray, life>>

\* update() comes to the click; one of an older generation is ignored.
Clicked(kind) == click # None /\ click.k = kind /\ click' = None /\ UNCHANGED <<mq, open, tray>>
Current == click.g = s.matches_gen

Overridden(m) ==
    [s EXCEPT !.matches_override =
        [j \in DOMAIN @ \cup {click.i} |-> IF j = click.i THEN m ELSE @[j]]]

MatchSubmitted(st) ==
    LET i == click.i
        edited == i \in DOMAIN st.matches_override /\ st.matches_override[i] # st.matches[i]
    IN  Update([st EXCEPT !.matches_override = Restrict(@, DOMAIN @ \ {i})],
               IF edited THEN <<Req("MatchUpdate", <<st.matches[i], st.matches_override[i]>>)>>
               ELSE << >>)

MatchDelete ==
    /\ Clicked("delete")
    /\ Update(s, IF Current THEN <<Req("MatchDelete", s.matches[click.i])>> ELSE << >>)

\* MatchKind, MatchMethod, MatchUpdateDir
MatchAttr ==
    /\ Clicked("attr")
    /\ IF Current THEN MatchSubmitted(Overridden([Entry(click.i) EXCEPT !.attr = click.a])) ELSE Update(s, << >>)

MatchUpdate ==
    /\ Clicked("type")
    /\ Update(IF Current THEN Overridden([Entry(click.i) EXCEPT !.pattern = click.a]) ELSE s, << >>)

MatchSubmit ==
    /\ Clicked("submit")
    /\ IF Current THEN MatchSubmitted(s) ELSE Update(s, << >>)

\* The generation is that of the matches, not of the list in the popup: an
\* index beyond a list that has been refreshed is an unwrap() of None.
MatchFromProc(n, k) ==
    /\ Clicked("proc")
    /\ IF ~Current THEN Update(s, << >>)
       ELSE IF s.procs_all # None /\ click.i \in 1..s.procs_all
       THEN Update([s EXCEPT !.proc_input = n, !.procs_all = k], << >>)
       ELSE life = "running" /\ life' = "panicked" /\ UNCHANGED <<s, dq>>

\* A slip: a new list keeps the generation of the old one.
OnMatchesSameGen ==
    Report("Matches",
           [s EXCEPT !.matches_override = << >>, !.matches = Reported], None)

\* A slip: the text that was sent is put away with the list in the popup.
OnMatchesDropsList ==
    LET added == s.proc_input_sent IN
    Report("Matches",
           [s EXCEPT !.proc_input_sent = FALSE,
                     !.procs_all = IF added THEN None ELSE @,
                     !.matches_override = << >>, !.matches = Reported,
                     !.matches_gen = @ + 1], None)

\* The text of a new pattern is cleared once the list holds it.
OnMatches ==
    LET added == s.proc_input_sent /\ \E i \in DOMAIN Reported : Reported[i].pattern = s.proc_input IN
    Report("Matches",
           [s EXCEPT !.proc_input_sent = IF added THEN FALSE ELSE @,
                     !.proc_input = IF added THEN NoText ELSE @,
                     !.matches_override = << >>,
                     !.matches = Reported,
                     !.matches_gen = @ + 1],
           None)

OnActiveProcs == Report("ActiveProcs", [s EXCEPT !.matches_gen = @ + 1], None)

-----------------------------------------------------------------------------
(* Errors and the connection *)

\* A slip: the text stays.
ModalReplaceOnce(st) ==
    IF st.dbus_errs = << >> THEN [st EXCEPT !.modal_editor = None] ELSE st

ModalReplace(st) ==
    [st EXCEPT !.modal_editor = IF st.dbus_errs = << >> THEN None ELSE Head(st.dbus_errs)]

\* A slip: the name that was refused stays in the field.
DbusErrKeepsOutput(st, err) ==
    LET n == [st EXCEPT !.settings_override = st.settings,
                        !.matches_override = << >>,
                        !.dbus_errs = Append(@, err)]
    IN  IF st.modal_editor = None THEN ModalReplace(n) ELSE n

\* "Rollback pending configuration changes"
DbusErr(st, err) ==
    LET n == [st EXCEPT !.settings_override = st.settings,
                        !.output_dev_input = st.attached.to_ifname,
                        !.output_dev_input_sent = TRUE,
                        !.matches_override = << >>,
                        !.dbus_errs = Append(@, err)]
    IN  IF st.modal_editor = None THEN ModalReplace(n) ELSE n

\* A slip: edits of matches that are not there any more stay.
DbusCantConnectKeepsEdits(st, err) ==
    [st EXCEPT !.attached = DefaultAttached, !.matches = << >>,
               !.matches_gen = @ + 1, !.dbus_conn_err = err]

DbusCantConnect(st, err) ==
    [st EXCEPT !.attached = DefaultAttached, !.matches = << >>, !.matches_override = << >>,
               !.matches_gen = @ + 1, !.dbus_conn_err = err]

OnDbusErr == Report("DbusErr", DbusErr(s, Reported), None)
OnDbusFail == Report("DbusFail", DbusCantConnect(DbusErr(s, Reported), Reported), "NotConnected")
OnDbusCantConnect == Report("DbusCantConnect", DbusCantConnect(s, Reported), "NotConnected")
OnDbusConnected == Report("DbusConnected", [s EXCEPT !.dbus_conn_err = None], None)

ModalNext ==
    /\ s.window /\ s.modal_editor # None
    /\ Input(ModalReplace([s EXCEPT !.dbus_errs = IF @ = << >> THEN @ ELSE Tail(@)]), << >>)

\* The Escape key, when no error is shown: the settings close without a submit.
Esc ==
    /\ s.window /\ s.dbus_errs = << >> /\ s.show_settings
    /\ Input([s EXCEPT !.show_settings = FALSE], << >>)

StatusShow ==
    /\ s.window /\ s.dbus_conn_err # None /\ s.modal_editor = None
    /\ Input(DbusErr(s, s.dbus_conn_err), << >>)

-----------------------------------------------------------------------------
\* The parts of the window that inputs go to.
Widgets == {"frame", "settings", "output", "new", "list", "error"}

InputTo(w) ==
    \/ w = "frame" /\ (WindowCloseId \/ \E on \in BOOLEAN : Switch(on))
    \/ w = "settings" /\ \/ SettingsOpen \/ SettingsClose \/ SettingsDnsIpSubmit \/ Esc
                         \/ \E f \in Flags, b \in BOOLEAN : SettingsFlag(f, b)
                         \/ \E x \in Texts : SettingsDnsIp(x)
    \/ w = "output" /\ \/ OutputDevSubmit
                       \/ \E n \in Devs : OutputDevSet(n) \/ OutputDevSetSubmit(n)
    \/ w = "new" /\ \/ \E n \in Patterns \cup {NoText}, k \in Refreshed : Procs(n, k)
                    \/ \E a \in Attrs : MatchAdd(a)
                    \/ \E i \in 1..MaxProcs : ProcClick(i)
    \/ w = "list" /\ \E i \in DOMAIN s.matches :
                        \/ \E kind \in {"delete", "submit"} : MatchClick(kind, i, None)
                        \/ \E a \in Attrs \ {Entry(i).attr} : MatchClick("attr", i, a)
                        \/ \E n \in Patterns \ {Entry(i).pattern} : MatchClick("type", i, n)
    \/ w = "error" /\ (ModalNext \/ StatusShow)

\* update() on what is queued.
HandleMessage ==
    \/ WindowToggle \/ TrayUp \/ Exit
    \/ OnSettings \/ OnAttached \/ OnMatches \/ OnActiveProcs
    \/ OnDbusErr \/ OnDbusFail \/ OnDbusCantConnect \/ OnDbusConnected

HandleClick ==
    \/ MatchDelete \/ MatchAttr \/ MatchUpdate \/ MatchSubmit
    \/ \E n \in Patterns, k \in Refreshed : MatchFromProc(n, k)

-----------------------------------------------------------------------------
(* Properties of the window *)

\* What a click carries: a new attribute or pattern for an edit.
Click ==
    [k : {"delete", "submit", "proc"}, g : Nat, i : Nat, a : {None}, saw : Match \cup {None}]
    \cup [k : {"attr"}, g : Nat, i : Nat, a : Attrs, saw : Match]
    \cup [k : {"type"}, g : Nat, i : Nat, a : Patterns, saw : Match]

IsState(st) ==
    /\ DOMAIN st = DOMAIN DefaultState
    /\ st.tray_up \in BOOLEAN /\ st.window \in BOOLEAN /\ st.show_settings \in BOOLEAN
    /\ st.settings \in Settings /\ st.settings_override \in Settings
    /\ st.output_dev_input \in Devs /\ st.output_dev_input_sent \in BOOLEAN
    /\ st.proc_input \in Patterns \cup {NoText} /\ st.proc_input_sent \in BOOLEAN
    /\ st.procs_all \in Refreshed \cup {None}
    /\ st.attached \in Attached
    /\ st.matches \in Seq(Match)
    /\ DOMAIN st.matches_override \subseteq DOMAIN st.matches
    /\ \A i \in DOMAIN st.matches_override : st.matches_override[i] \in Match
    /\ st.matches_gen \in Nat
    /\ st.dbus_conn_err \in Errors \cup {None}
    /\ st.dbus_errs \in Seq(Errors) /\ st.modal_editor \in Errors \cup {None}

GuiTypeOK ==
    /\ IsState(s)
    /\ click \in Click \cup {None}
    /\ mq \in Seq(Message) /\ dq \in Seq(Request)
    /\ tray \in {"NotConnected", "Enabled", "Disabled"}
    /\ life \in {"running", "exited", "panicked"}
    /\ open \in [d : BOOLEAN, t : BOOLEAN]

\* A click that update() will not ignore is about the entry the user saw:
\* every report that moves or replaces entries while the click is queued
\* changes the generation.  Otherwise a delete would hit a neighbour, or
\* s.matches[i] would panic.
ClickNamesEntry ==
    click # None /\ click.k # "proc" /\ Current =>
        click.i \in DOMAIN s.matches /\ s.matches[click.i] = click.saw

\* While there is text in the field of the new pattern the popup may be
\* drawn, and view() unwraps procs_all: text and list are set and cleared by
\* different messages, and the list must never go first.
PopupHasList == s.proc_input # NoText => s.procs_all # None

\* The text in the error popup is that of the oldest error not dismissed, and
\* the popup is open as long as there is one, whichever way errors arrive and
\* are dismissed.
ModalShowsOldest ==
    s.modal_editor = IF s.dbus_errs = << >> THEN None ELSE Head(s.dbus_errs)
=============================================================================
