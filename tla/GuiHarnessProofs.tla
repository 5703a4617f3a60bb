--------------------------- MODULE GuiHarnessProofs ---------------------------
(***************************************************************************)
(* Proofs about the window (Gui) and the composed system (GuiHarness), for *)
(* any lists, texts, devices, requests of other clients and scenarios.     *)
(* First one call of update(): whatever it is about, the state of the      *)
(* window stays well formed, a click that waits still names the entry that *)
(* was seen, the popup has a list and the oldest error is the one shown.   *)
(* Then the behaviours: these invariants hold in every state of the        *)
(* composed system; the permits of process_requests_sema follow the        *)
(* window; the harness never waits for a daemon that is there; and once    *)
(* nothing is under way the window shows what the daemon has.              *)
(***************************************************************************)
EXTENDS GuiHarness, SequenceLemmas

-----------------------------------------------------------------------------
(* One call of update() *)

WindowKinds == {"WindowOpened", "WindowClosed"}

\* The invariants of the window, of a state n and a click c that waits.
ListOf(n) == n.proc_input # NoText => n.procs_all # None
OldestOf(n) == n.modal_editor = IF n.dbus_errs = << >> THEN None ELSE Head(n.dbus_errs)
Names(n, c) ==
    /\ c \in Click \cup {None}
    /\ c # None =>
        /\ c.g <= n.matches_gen
        /\ c.k # "proc" /\ c.g = n.matches_gen =>
             c.i \in DOMAIN n.matches /\ n.matches[c.i] = c.saw

Good(n, c) == IsState(n) /\ ListOf(n) /\ OldestOf(n) /\ Names(n, c)

ChannelsOK ==
    /\ mq \in Seq(Message) /\ dq \in Seq(Request)
    /\ tray \in {"NotConnected", "Enabled", "Disabled"}
    /\ life \in {"running", "exited", "panicked"}
    /\ open \in [d : BOOLEAN, t : BOOLEAN]

\* A click that waits is not of a generation to come: without that, one of a
\* generation that is reached later would not be known to be of now.
WindowInv == Good(s, click) /\ ChannelsOK

\* The window stays, and what is sent is not about it.
Plain(r) == r \in Request /\ r.d \notin WindowKinds
Sendable(out) == out = << >> \/ \E r \in Request : out = <<r>> /\ Plain(r)
Stays == s'.window = s.window /\ (dq' = dq \/ \E r \in Request : Plain(r) /\ dq' = Append(dq, r))
Opens == ~s.window /\ s'.window /\ dq' = Append(dq, Req("WindowOpened", None))
Closes == s.window /\ ~s'.window /\ dq' = Append(dq, Req("WindowClosed", None))

GuiStep == HandleMessage \/ HandleClick \/ \E w \in Widgets : InputTo(w)

-----------------------------------------------------------------------------
\* The tray icon and the channels stay typed.
LEMMA UpdateTyped ==
    ASSUME ChannelsOK, NEW n, NEW out, Sendable(out), Update(n, out), n.window = s.window
    PROVE  /\ dq' \in Seq(Request) /\ s' = n
           /\ life' \in {"running", "exited", "panicked"}
           /\ Stays
<1>1. dq \in Seq(Request) /\ dq' = dq \o out /\ s' = n
  BY DEF ChannelsOK, Update
<1>2. life' \in {"running", "exited", "panicked"}
  BY DEF ChannelsOK, Update
<1>3. CASE out = << >>
  <2>1. dq' = dq
    BY <1>1, <1>3, ConcatEmptySeq
  <2> QED
    BY <1>1, <1>2, <2>1 DEF Stays
<1>4. CASE \E r \in Request : out = <<r>> /\ Plain(r)
  <2>1. PICK r \in Request : out = <<r>> /\ Plain(r)
    BY <1>4
  <2>2. dq' = Append(dq, r)
    BY <1>1, <2>1, AppendIsConcat
  <2>3. Append(dq, r) \in Seq(Request)
    BY <1>1, AppendProperties
  <2> QED
    BY <1>1, <1>2, <2>1, <2>2, <2>3 DEF Stays
<1> QED
  BY <1>3, <1>4 DEF Sendable

\* An input that is handled at once.
LEMMA InputGood ==
    ASSUME WindowInv, NEW n, NEW out, Input(n, out),
           Good(n, click), n.window = s.window, Sendable(out)
    PROVE  WindowInv' /\ Stays /\ open' = open
<1>1. UNCHANGED <<click, mq, open, tray>>
  BY DEF Input
<1>2. /\ dq' \in Seq(Request) /\ s' = n /\ life' \in {"running", "exited", "panicked"}
      /\ Stays
  BY UpdateTyped DEF WindowInv, Input
<1>3. Good(s', click')
  BY <1>1, <1>2
<1>4. ChannelsOK'
  BY <1>1, <1>2 DEF ChannelsOK, WindowInv
<1> QED
  BY <1>1, <1>2, <1>3, <1>4 DEF WindowInv

\* A click that update() comes to.
LEMMA ClickGood ==
    ASSUME WindowInv, NEW n, NEW out, NEW kind, Clicked(kind), Update(n, out),
           Good(n, None), n.window = s.window, Sendable(out)
    PROVE  WindowInv' /\ Stays /\ open' = open
<1>1. click' = None /\ UNCHANGED <<mq, open, tray>>
  BY DEF Clicked
<1>2. /\ dq' \in Seq(Request) /\ s' = n /\ life' \in {"running", "exited", "panicked"}
      /\ Stays
  BY UpdateTyped DEF WindowInv
<1>3. Good(s', click')
  BY <1>1, <1>2
<1>4. ChannelsOK'
  BY <1>1, <1>2 DEF ChannelsOK, WindowInv
<1> QED
  BY <1>1, <1>2, <1>3, <1>4 DEF WindowInv

\* A message of the background tasks.
LEMMA ReportGood ==
    ASSUME WindowInv, NEW kind, NEW n, NEW t, Report(kind, n, t),
           Good(n, click), n.window = s.window,
           t \in {None, "NotConnected", "Enabled", "Disabled"}
    PROVE  WindowInv' /\ Stays /\ open' = open
<1>1. s' = n /\ UNCHANGED <<click, dq, open>>
  BY DEF Report
<1>2. mq' \in Seq(Message)
  BY HeadTailProperties DEF WindowInv, ChannelsOK, Report
<1>3. ChannelsOK'
  BY <1>1, <1>2 DEF WindowInv, ChannelsOK, Report
<1>4. Good(s', click')
  BY <1>1
<1> QED
  BY <1>1, <1>3, <1>4 DEF WindowInv, Stays

\* What a message carries, by its kind.
LEMMA ReportedType ==
    ASSUME WindowInv, mq # << >>
    PROVE  /\ Head(mq).m = "Settings" => Reported \in Settings
           /\ Head(mq).m = "Attached" => Reported \in Attached
           /\ Head(mq).m = "Matches" => Reported \in Seq(Match)
           /\ Head(mq).m \in {"DbusErr", "DbusFail", "DbusCantConnect"} => Reported \in Errors
<1>1. Head(mq) \in Message
  BY HeadTailProperties DEF WindowInv, ChannelsOK
<1> QED
  BY <1>1 DEF Message, Reported

-----------------------------------------------------------------------------
\* Inputs that open or close the settings, or edit them.
LEMMA SettingsSteps ==
    ASSUME WindowInv, InputTo("settings")
    PROVE  WindowInv' /\ Stays /\ open' = open
<1>1. Good(s, click)
  BY DEF WindowInv
<1>2. ASSUME NEW n, Good(n, click)
      PROVE  Sendable(SettingsSubmit(n))
  <2>1. n.settings \in Settings
    BY <1>2 DEF Good, IsState
  <2>2. Req("SettingsUpdate", n.settings) \in Request
    BY <2>1 DEF Req, Request
  <2>3. Req("SettingsUpdate", n.settings).d \notin WindowKinds
    BY DEF Req, WindowKinds
  <2> QED
    BY <2>2, <2>3 DEF SettingsSubmit, Sendable, Plain
<1>3. ASSUME NEW b \in BOOLEAN
      PROVE  /\ Good([s EXCEPT !.show_settings = b], click)
             /\ [s EXCEPT !.show_settings = b].window = s.window
  BY <1>1 DEF Good, IsState, ListOf, OldestOf, Names, DefaultState
<1>4. Sendable(<< >>)
  BY DEF Sendable
<1>5. CASE SettingsOpen \/ Esc
  <2>1. PICK b \in BOOLEAN : Input([s EXCEPT !.show_settings = b], << >>)
    BY <1>5 DEF SettingsOpen, Esc
  <2> QED
    BY <1>3, <1>4, <2>1, InputGood
<1>6. CASE SettingsClose
  <2> DEFINE n == [s EXCEPT !.show_settings = FALSE]
  <2>1. Input(n, SettingsSubmit(n))
    BY <1>6 DEF SettingsClose
  <2>2. Good(n, click) /\ n.window = s.window
    BY <1>3
  <2> HIDE DEF n
  <2> QED
    BY <1>2, <2>1, <2>2, InputGood
<1>7. CASE SettingsDnsIpSubmit
  BY <1>1, <1>2, <1>7, InputGood DEF SettingsDnsIpSubmit
<1>8. CASE \E f \in Flags, b \in BOOLEAN : SettingsFlag(f, b)
  <2>1. PICK f \in Flags, b \in BOOLEAN : SettingsFlag(f, b)
    BY <1>8
  <2> DEFINE n == [s EXCEPT !.settings.flag[f] = b]
  <2>2. Input(n, SettingsSubmit(n))
    BY <2>1 DEF SettingsFlag
  <2>3. Good(n, click) /\ n.window = s.window
    BY <1>1 DEF Good, IsState, ListOf, OldestOf, Names, DefaultState, Settings
  <2> HIDE DEF n
  <2> QED
    BY <1>2, <2>2, <2>3, InputGood
<1>9. CASE \E x \in Texts : SettingsDnsIp(x)
  <2>1. PICK x \in Texts : SettingsDnsIp(x)
    BY <1>9
  <2> DEFINE n == [s EXCEPT !.settings.spoof_dns_ipv4 = x]
  <2>2. Input(n, << >>)
    BY <2>1 DEF SettingsDnsIp
  <2>3. Good(n, click) /\ n.window = s.window
    BY <1>1 DEF Good, IsState, ListOf, OldestOf, Names, DefaultState, Settings
  <2> HIDE DEF n
  <2> QED
    BY <1>4, <2>2, <2>3, InputGood
<1> QED
  BY <1>5, <1>6, <1>7, <1>8, <1>9 DEF InputTo

\* Inputs about the output device.
LEMMA OutputSteps ==
    ASSUME WindowInv, InputTo("output")
    PROVE  WindowInv' /\ Stays /\ open' = open
<1>1. Good(s, click)
  BY DEF WindowInv
<1>2. ASSUME NEW n \in Devs
      PROVE  Good(OutputSet(s, n), click) /\ OutputSet(s, n).window = s.window
  BY <1>1, <1>2 DEF OutputSet, Good, IsState, ListOf, OldestOf, Names, DefaultState
<1>3. ASSUME NEW st, Good(st, click)
      PROVE  /\ Good(OutputSubmit(st).st, click) /\ OutputSubmit(st).st.window = st.window
             /\ Sendable(OutputSubmit(st).out)
  <2> DEFINE n == [st EXCEPT !.output_dev_input_sent = TRUE]
             r == Req("ChangeOutput", st.output_dev_input)
  <2>1. Good(n, click) /\ n.window = st.window
    BY <1>3 DEF Good, IsState, ListOf, OldestOf, Names, DefaultState
  <2>2. st.output_dev_input \in Devs
    BY <1>3 DEF Good, IsState
  <2>3. Plain(r)
    BY <2>2 DEF Plain, Req, Request, WindowKinds
  <2>4. Sendable(<<r>>) /\ Sendable(<< >>)
    BY <2>3 DEF Sendable, Plain
  <2>5. \/ OutputSubmit(st) = [st |-> n, out |-> <<r>>]
        \/ OutputSubmit(st) = [st |-> st, out |-> << >>]
    BY DEF OutputSubmit
  <2> HIDE DEF n, r
  <2> QED
    BY <1>3, <2>1, <2>4, <2>5
<1>4. CASE OutputDevSubmit
  BY <1>1, <1>3, <1>4, InputGood DEF OutputDevSubmit
<1>5. CASE \E n \in Devs : OutputDevSet(n)
  <2>1. Sendable(<< >>)
    BY DEF Sendable
  <2> QED
    BY <1>2, <1>5, <2>1, InputGood DEF OutputDevSet
<1>6. CASE \E n \in Devs : OutputDevSetSubmit(n)
  <2>1. PICK n \in Devs : OutputDevSetSubmit(n)
    BY <1>6
  <2> DEFINE st == OutputSet(s, n)
  <2>2. Input(OutputSubmit(st).st, OutputSubmit(st).out)
    BY <2>1 DEF OutputDevSetSubmit
  <2>3. Good(st, click) /\ st.window = s.window
    BY <1>2
  <2> HIDE DEF st
  <2> QED
    BY <1>3, <2>2, <2>3, InputGood
<1> QED
  BY <1>4, <1>5, <1>6 DEF InputTo

\* Inputs about a new match: the text and the list of the popup change
\* together.
LEMMA NewMatchSteps ==
    ASSUME WindowInv, InputTo("new")
    PROVE  WindowInv' /\ Stays /\ open' = open
<1>1. Good(s, click)
  BY DEF WindowInv
<1>2. CASE \E n \in Patterns \cup {NoText}, k \in Refreshed : Procs(n, k)
  <2>1. PICK n \in Patterns \cup {NoText}, k \in Refreshed : Procs(n, k)
    BY <1>2
  <2> DEFINE st == [s EXCEPT !.proc_input_sent = FALSE, !.proc_input = n,
                             !.procs_all = IF n = NoText THEN None ELSE k]
  <2>2. Input(st, << >>)
    BY <2>1 DEF Procs
  <2>3. k # None
    BY GuiAssumption DEF Refreshed
  <2>4. Good(st, click) /\ st.window = s.window
    BY <1>1, <2>3 DEF Good, IsState, ListOf, OldestOf, Names, DefaultState
  <2>5. Sendable(<< >>)
    BY DEF Sendable
  <2> HIDE DEF st
  <2> QED
    BY <2>2, <2>4, <2>5, InputGood
<1>3. CASE \E a \in Attrs : MatchAdd(a)
  <2>1. PICK a \in Attrs : MatchAdd(a)
    BY <1>3
  <2> DEFINE st == [s EXCEPT !.proc_input_sent = TRUE]
             r == Req("MatchAdd", [pattern |-> s.proc_input, attr |-> a])
  <2>2. Input(st, <<r>>)
    BY <2>1 DEF MatchAdd
  <2>3. Good(st, click) /\ st.window = s.window
    BY <1>1 DEF Good, IsState, ListOf, OldestOf, Names, DefaultState
  <2>4. [pattern |-> s.proc_input, attr |-> a] \in Match
    BY <1>1 DEF Good, IsState, Match
  <2>5. Plain(r)
    BY <2>4 DEF Plain, Req, Request, WindowKinds
  <2>6. Sendable(<<r>>)
    BY <2>5 DEF Sendable, Plain
  <2> HIDE DEF st, r
  <2> QED
    BY <2>2, <2>3, <2>6, InputGood
<1>4. CASE \E i \in 1..MaxProcs : ProcClick(i)
  <2>1. PICK i \in 1..MaxProcs : ProcClick(i)
    BY <1>4
  <2> DEFINE c == [k |-> "proc", g |-> s.matches_gen, i |-> i, a |-> None, saw |-> None]
  <2>2. click' = c /\ UNCHANGED <<s, mq, dq, open, tray, life>>
    BY <2>1 DEF ProcClick
  <2>3. s.matches_gen \in Nat /\ i \in Nat
    BY <1>1, GuiAssumption DEF Good, IsState
  <2>4. c \in Click
    BY <2>3 DEF Click
  <2>5. Names(s, c)
    BY <2>3, <2>4 DEF Names
  <2>6. Good(s', click')
    BY <1>1, <2>2, <2>5 DEF Good
  <2>7. ChannelsOK'
    BY <2>2 DEF WindowInv, ChannelsOK
  <2> QED
    BY <2>2, <2>6, <2>7 DEF WindowInv, Stays
<1> QED
  BY <1>2, <1>3, <1>4 DEF InputTo

\* The user clicks on an entry of the list: the click names what it shows.
LEMMA ListSteps ==
    ASSUME WindowInv, InputTo("list")
    PROVE  WindowInv' /\ Stays /\ open' = open
<1>1. Good(s, click)
  BY DEF WindowInv
<1>2. PICK i \in DOMAIN s.matches, kind \in {"delete", "submit", "attr", "type"},
           a \in Attrs \cup Patterns \cup {None} :
        /\ MatchClick(kind, i, a)
        /\ \/ kind \in {"delete", "submit"} /\ a = None
           \/ kind = "attr" /\ a \in Attrs
           \/ kind = "type" /\ a \in Patterns
  BY DEF InputTo
<1> DEFINE c == [k |-> kind, g |-> s.matches_gen, i |-> i, a |-> a, saw |-> s.matches[i]]
<1>3. click' = c /\ UNCHANGED <<s, mq, dq, open, tray, life>>
  BY <1>2 DEF MatchClick
<1>4. s.matches \in Seq(Match) /\ s.matches_gen \in Nat
  BY <1>1 DEF Good, IsState
<1>5. i \in Nat /\ s.matches[i] \in Match
  BY <1>4, ElementOfSeq, LenProperties
<1>6. c \in Click
  BY <1>2, <1>4, <1>5 DEF Click
<1>7. Names(s, c)
  BY <1>4, <1>6 DEF Names
<1>8. Good(s', click')
  BY <1>1, <1>3, <1>7 DEF Good
<1>9. ChannelsOK'
  BY <1>3 DEF WindowInv, ChannelsOK
<1> QED
  BY <1>3, <1>8, <1>9 DEF WindowInv, Stays

\* An error joins those that wait.
LEMMA ErrorGood ==
    ASSUME NEW st, NEW c, Good(st, c), NEW err \in Errors
    PROVE  Good(DbusErr(st, err), c) /\ DbusErr(st, err).window = st.window
<1> DEFINE n == [st EXCEPT !.settings_override = st.settings,
                           !.output_dev_input = st.attached.to_ifname,
                           !.output_dev_input_sent = TRUE,
                           !.matches_override = << >>,
                           !.dbus_errs = Append(@, err)]
<1>1. /\ st.dbus_errs \in Seq(Errors) /\ Append(st.dbus_errs, err) \in Seq(Errors)
      /\ Append(st.dbus_errs, err) # << >>
  BY AppendProperties, EmptySeq DEF Good, IsState
<1>2. st.attached.to_ifname \in Devs
  BY DEF Good, IsState, Attached
<1>3. /\ IsState(n) /\ ListOf(n) /\ Names(n, c)
      /\ n.dbus_errs = Append(st.dbus_errs, err)
      /\ n.modal_editor = st.modal_editor /\ n.window = st.window
  BY <1>1, <1>2 DEF Good, IsState, ListOf, Names, DefaultState
<1>4. Head(Append(st.dbus_errs, err)) \in Errors
  BY <1>1, HeadTailProperties
<1>5. DbusErr(st, err) = IF st.modal_editor = None THEN ModalReplace(n) ELSE n
  BY DEF DbusErr
<1>6. CASE st.modal_editor = None
  <2>1. ModalReplace(n) = [n EXCEPT !.modal_editor = Head(Append(st.dbus_errs, err))]
    BY <1>1, <1>3 DEF ModalReplace
  <2> HIDE DEF n
  <2>2. Good([n EXCEPT !.modal_editor = Head(Append(st.dbus_errs, err))], c)
    BY <1>1, <1>3, <1>4 DEF Good, IsState, ListOf, OldestOf, Names, DefaultState
  <2>3. [n EXCEPT !.modal_editor = Head(Append(st.dbus_errs, err))].window = st.window
    BY <1>3 DEF IsState, DefaultState
  <2> QED
    BY <1>5, <1>6, <2>1, <2>2, <2>3
<1>7. CASE st.modal_editor # None
  <2>1. st.dbus_errs # << >> /\ st.modal_editor = Head(st.dbus_errs)
    BY <1>7 DEF Good, OldestOf
  <2>2. Head(Append(st.dbus_errs, err)) = Head(st.dbus_errs)
    BY <1>1, <2>1, AppendProperties, HeadTailProperties
  <2> HIDE DEF n
  <2>3. Good(n, c)
    BY <1>1, <1>3, <2>1, <2>2 DEF Good, OldestOf
  <2> QED
    BY <1>3, <1>5, <1>7, <2>3
<1> QED
  BY <1>6, <1>7

\* Inputs about errors.
LEMMA ErrorSteps ==
    ASSUME WindowInv, InputTo("error")
    PROVE  WindowInv' /\ Stays /\ open' = open
<1>1. Good(s, click) /\ Sendable(<< >>)
  BY DEF WindowInv, Sendable
<1>2. CASE StatusShow
  <2>1. s.dbus_conn_err \in Errors
    BY <1>1, <1>2 DEF StatusShow, Good, IsState
  <2> QED
    BY <1>1, <1>2, <2>1, ErrorGood, InputGood DEF StatusShow
<1>3. CASE ModalNext
  <2> DEFINE errs == IF s.dbus_errs = << >> THEN s.dbus_errs ELSE Tail(s.dbus_errs)
             top == IF errs = << >> THEN None ELSE Head(errs)
             m == [s EXCEPT !.dbus_errs = errs]
             n == [m EXCEPT !.modal_editor = top]
  <2>1. s.dbus_errs \in Seq(Errors)
    BY <1>1 DEF Good, IsState
  <2>2. errs \in Seq(Errors)
    BY <2>1, HeadTailProperties
  <2>3. top \in Errors \cup {None}
    BY <2>2, HeadTailProperties
  <2>4. m.dbus_errs = errs
    BY <1>1 DEF Good, IsState, DefaultState
  <2>5. Input(n, << >>)
    <3>1. Input(ModalReplace(m), << >>)
      BY <1>3 DEF ModalNext
    <3> HIDE DEF m, errs
    <3>2. ModalReplace(m) = n
      BY <2>4 DEF ModalReplace
    <3> QED
      BY <3>1, <3>2
  <2>6. top = IF errs = << >> THEN None ELSE Head(errs)
    OBVIOUS
  <2> HIDE DEF errs, top
  <2>7. Good(n, click) /\ n.window = s.window
    BY <1>1, <2>2, <2>3, <2>6 DEF Good, IsState, ListOf, OldestOf, Names, DefaultState
  <2> HIDE DEF n
  <2> QED
    BY <1>1, <2>5, <2>7, InputGood
<1> QED
  BY <1>2, <1>3 DEF InputTo

\* The window closes: only the flag and the request say so.
LEMMA CloseGood ==
    ASSUME WindowInv, s.window, CloseWindow, UNCHANGED <<click, open, tray>>,
           mq' \in Seq(Message)
    PROVE  WindowInv' /\ Closes
<1> DEFINE r == Req("WindowClosed", None)
<1>1. r \in Request
  BY DEF Req, Request
<1>2. dq' = Append(dq, r) /\ s' = [s EXCEPT !.window = FALSE]
  BY DEF CloseWindow
<1>3. dq' \in Seq(Request)
  BY <1>1, <1>2, AppendProperties DEF WindowInv, ChannelsOK
<1>4. ChannelsOK'
  BY <1>3 DEF WindowInv, ChannelsOK, CloseWindow
<1>5. Good([s EXCEPT !.window = FALSE], click) /\ [s EXCEPT !.window = FALSE].window = FALSE
  BY DEF WindowInv, Good, IsState, ListOf, OldestOf, Names, DefaultState
<1>6. Good(s', click') /\ ~s'.window
  BY <1>2, <1>5
<1> QED
  BY <1>2, <1>4, <1>6 DEF WindowInv, Closes

\* The user switches the redirection, or closes the window.
LEMMA FrameSteps ==
    ASSUME WindowInv, InputTo("frame")
    PROVE  WindowInv' /\ (Stays \/ Closes) /\ open' = open
<1>1. Good(s, click)
  BY DEF WindowInv
<1>2. CASE \E on \in BOOLEAN : Switch(on)
  <2>1. PICK on \in BOOLEAN : Switch(on)
    BY <1>2
  <2> DEFINE r == Req(IF on THEN "Enable" ELSE "Disable", None)
  <2>2. Input(s, <<r>>)
    BY <2>1 DEF Switch
  <2>3. Plain(r)
    BY DEF Plain, Req, Request, WindowKinds
  <2>4. Sendable(<<r>>)
    BY <2>3 DEF Sendable, Plain
  <2> HIDE DEF r
  <2> QED
    BY <1>1, <2>2, <2>4, InputGood
<1>3. CASE WindowCloseId
  <2>1. /\ s.window /\ CloseWindow
        /\ UNCHANGED <<click, mq, open, tray>>
    BY <1>3 DEF WindowCloseId
  <2>2. mq' \in Seq(Message)
    BY <2>1 DEF WindowInv, ChannelsOK
  <2> QED
    BY <2>1, <2>2, CloseGood
<1> QED
  BY <1>2, <1>3 DEF InputTo

\* Another part of the window takes the input.
LEMMA InputSteps ==
    ASSUME WindowInv, NEW w \in Widgets, InputTo(w)
    PROVE  WindowInv' /\ (Stays \/ Closes) /\ open' = open
BY SettingsSteps, OutputSteps, NewMatchSteps, ListSteps, ErrorSteps, FrameSteps DEF Widgets

-----------------------------------------------------------------------------
\* The first window, or a click on the tray icon.
LEMMA ToggleSteps ==
    ASSUME WindowInv, WindowToggle
    PROVE  WindowInv' /\ (Opens \/ Closes) /\ open' = open
<1>1. UNCHANGED <<click, open, tray>>
  BY DEF WindowToggle
<1>2. mq' \in Seq(Message)
  BY HeadTailProperties DEF WindowToggle, WindowInv, ChannelsOK
<1>3. CASE s.window
  BY <1>1, <1>2, <1>3, CloseGood DEF WindowToggle
<1>4. CASE ~s.window
  <2> DEFINE r == Req("WindowOpened", None)
             n == [s EXCEPT !.window = TRUE]
  <2>1. r \in Request
    BY DEF Req, Request
  <2>2. Update(n, <<r>>)
    BY <1>4 DEF WindowToggle
  <2>3. Good(n, click) /\ n.window = TRUE
    BY DEF WindowInv, Good, IsState, ListOf, OldestOf, Names, DefaultState
  <2> HIDE DEF n, r
  <2>4. s' = n /\ dq' = dq \o <<r>> /\ dq \in Seq(Request)
    BY <2>2 DEF Update, WindowInv, ChannelsOK
  <2>5. dq' = Append(dq, r) /\ dq' \in Seq(Request)
    BY <2>1, <2>4, AppendIsConcat, AppendProperties
  <2>6. ChannelsOK'
    BY <1>1, <1>2, <2>2, <2>5 DEF Update, WindowInv, ChannelsOK
  <2>7. Good(s', click') /\ s'.window
    BY <1>1, <2>3, <2>4
  <2> QED
    BY <1>1, <1>4, <2>5, <2>6, <2>7 DEF WindowInv, Opens, r
<1> QED
  BY <1>3, <1>4

\* Reports of the daemon's state: a new list comes with a new generation.
LEMMA ReportSteps ==
    ASSUME WindowInv,
           TrayUp \/ OnSettings \/ OnAttached \/ OnMatches \/ OnActiveProcs \/ OnDbusConnected
    PROVE  WindowInv' /\ Stays /\ open' = open
<1>1. Good(s, click)
  BY DEF WindowInv
<1> DEFINE v == Reported
<1>2. CASE TrayUp
  <2> DEFINE n == [s EXCEPT !.tray_up = TRUE]
  <2>1. Good(n, click) /\ n.window = s.window
    BY <1>1 DEF Good, IsState, ListOf, OldestOf, Names, DefaultState
  <2>2. Report("TrayUp", n, None)
    BY <1>2 DEF TrayUp
  <2> HIDE DEF n
  <2> QED
    BY <2>1, <2>2, ReportGood
<1>3. CASE OnSettings
  <2> DEFINE n == [s EXCEPT !.settings_override = v, !.settings = v]
  <2>1. Report("Settings", n, None)
    BY <1>3 DEF OnSettings
  <2>2. v \in Settings
    BY <2>1, ReportedType DEF Report
  <2> HIDE DEF v
  <2>3. Good(n, click) /\ n.window = s.window
    BY <1>1, <2>2 DEF Good, IsState, ListOf, OldestOf, Names, DefaultState
  <2> HIDE DEF n
  <2> QED
    BY <2>1, <2>3, ReportGood
<1>4. CASE OnAttached
  <2> DEFINE n == [s EXCEPT !.attached = v, !.output_dev_input = v.to_ifname,
                            !.output_dev_input_sent = TRUE]
  <2>1. Report("Attached", n, TrayOf(v))
    BY <1>4 DEF OnAttached
  <2>2. v \in Attached
    BY <2>1, ReportedType DEF Report
  <2> HIDE DEF v
  <2>3. v.to_ifname \in Devs
    BY <2>2 DEF Attached
  <2>4. Good(n, click) /\ n.window = s.window
    BY <1>1, <2>2, <2>3 DEF Good, IsState, ListOf, OldestOf, Names, DefaultState
  <2>5. TrayOf(v) \in {None, "NotConnected", "Enabled", "Disabled"}
    BY DEF TrayOf
  <2> HIDE DEF n
  <2> QED
    BY <2>1, <2>4, <2>5, ReportGood
<1>5. CASE OnMatches
  <2> DEFINE added == s.proc_input_sent /\ \E i \in DOMAIN v : v[i].pattern = s.proc_input
             sent == IF added THEN FALSE ELSE s.proc_input_sent
             text == IF added THEN NoText ELSE s.proc_input
             n == [s EXCEPT !.proc_input_sent = sent,
                            !.proc_input = text,
                            !.matches_override = << >>,
                            !.matches = v,
                            !.matches_gen = @ + 1]
  <2>1. Report("Matches", n, None)
    BY <1>5 DEF OnMatches
  <2>2. v \in Seq(Match)
    BY <2>1, ReportedType DEF Report
  <2>3. /\ sent \in BOOLEAN /\ text \in Patterns \cup {NoText}
        /\ text # NoText => s.proc_input # NoText
    BY <1>1 DEF Good, IsState
  <2> HIDE DEF v, sent, text
  <2>4. /\ IsState(n) /\ ListOf(n) /\ n.window = s.window
        /\ click # None => click.g \in Nat
    <3>1. click # None => click.g \in Nat
      BY <1>1 DEF Good, Names, Click
    <3>2. IsState(n) /\ ListOf(n) /\ n.window = s.window
      BY <1>1, <2>2, <2>3 DEF Good, IsState, ListOf, DefaultState
    <3> QED
      BY <3>1, <3>2
  <2>5. OldestOf(n)
    BY <1>1 DEF Good, IsState, OldestOf, DefaultState
  <2>6. n.matches_gen = s.matches_gen + 1 /\ s.matches_gen \in Nat
    BY <1>1 DEF Good, IsState, DefaultState
  <2> HIDE DEF n
  <2>7. Names(n, click)
    BY <1>1, <2>4, <2>6 DEF Good, Names
  <2> QED
    BY <2>1, <2>4, <2>5, <2>7, ReportGood DEF Good
<1>6. CASE OnActiveProcs
  <2> DEFINE n == [s EXCEPT !.matches_gen = @ + 1]
  <2>1. Report("ActiveProcs", n, None)
    BY <1>6 DEF OnActiveProcs
  <2>2. click # None => click.g \in Nat
    BY <1>1 DEF Good, Names, Click
  <2>3. IsState(n) /\ ListOf(n) /\ OldestOf(n) /\ n.window = s.window
    BY <1>1 DEF Good, IsState, ListOf, OldestOf, DefaultState
  <2>4. n.matches_gen = s.matches_gen + 1 /\ s.matches_gen \in Nat
    BY <1>1 DEF Good, IsState, DefaultState
  <2> HIDE DEF n
  <2>5. Names(n, click)
    BY <1>1, <2>2, <2>4 DEF Good, Names
  <2> QED
    BY <2>1, <2>3, <2>5, ReportGood DEF Good
<1>7. CASE OnDbusConnected
  <2> DEFINE n == [s EXCEPT !.dbus_conn_err = None]
  <2>1. Good(n, click) /\ n.window = s.window
    BY <1>1 DEF Good, IsState, ListOf, OldestOf, Names, DefaultState
  <2>2. Report("DbusConnected", n, None)
    BY <1>7 DEF OnDbusConnected
  <2> HIDE DEF n
  <2> QED
    BY <2>1, <2>2, ReportGood
<1> QED
  BY <1>2, <1>3, <1>4, <1>5, <1>6, <1>7

\* Without a daemon the list is empty, and its generation a new one.
LEMMA CantConnectGood ==
    ASSUME NEW st, NEW c, Good(st, c), NEW err \in Errors
    PROVE  Good(DbusCantConnect(st, err), c) /\ DbusCantConnect(st, err).window = st.window
<1> DEFINE n == [st EXCEPT !.attached = DefaultAttached, !.matches = << >>,
                           !.matches_override = << >>,
                           !.matches_gen = @ + 1, !.dbus_conn_err = err]
<1>1. DefaultAttached \in Attached
  BY GuiAssumption DEF DefaultAttached, Attached
<1>2. IsState(n) /\ ListOf(n) /\ n.window = st.window
  BY <1>1 DEF Good, IsState, ListOf, DefaultState
<1>3. OldestOf(n)
  BY DEF Good, IsState, OldestOf, DefaultState
<1>4. n.matches_gen = st.matches_gen + 1 /\ st.matches_gen \in Nat
  BY DEF Good, IsState, DefaultState
<1>5. c # None => c.g \in Nat
  BY DEF Good, Names, Click
<1> HIDE DEF n
<1>6. Names(n, c)
  BY <1>4, <1>5 DEF Good, Names
<1> QED
  BY <1>2, <1>3, <1>6 DEF Good, DbusCantConnect, n

\* Reports of errors.
LEMMA FailureSteps ==
    ASSUME WindowInv, OnDbusErr \/ OnDbusFail \/ OnDbusCantConnect
    PROVE  WindowInv' /\ Stays /\ open' = open
<1>1. Good(s, click)
  BY DEF WindowInv
<1> DEFINE err == Reported
<1>2. err \in Errors
  BY ReportedType DEF OnDbusErr, OnDbusFail, OnDbusCantConnect, Report
<1>3. CASE OnDbusErr
  BY <1>1, <1>2, <1>3, ErrorGood, ReportGood DEF OnDbusErr
<1>4. CASE OnDbusFail
  <2> DEFINE m == DbusErr(s, err)
  <2>1. Report("DbusFail", DbusCantConnect(m, err), "NotConnected")
    BY <1>4 DEF OnDbusFail
  <2>2. Good(m, click) /\ m.window = s.window
    BY <1>1, <1>2, ErrorGood
  <2> HIDE DEF m, err
  <2> QED
    BY <1>2, <2>1, <2>2, CantConnectGood, ReportGood
<1>5. CASE OnDbusCantConnect
  BY <1>1, <1>2, <1>5, CantConnectGood, ReportGood DEF OnDbusCantConnect
<1> QED
  BY <1>3, <1>4, <1>5

\* A click of the generation that is shown names an entry, and the state with
\* that entry edited or put back is good.
LEMMA EntryGood ==
    ASSUME WindowInv, click # None, click.k # "proc", Current
    PROVE  /\ click.i \in DOMAIN s.matches /\ s.matches[click.i] \in Match
           /\ Entry(click.i) \in Match
           /\ \A m \in Match : Good(Overridden(m), None) /\ Overridden(m).window = s.window
<1>1. Good(s, click)
  BY DEF WindowInv
<1>2. click.i \in DOMAIN s.matches /\ s.matches \in Seq(Match)
  BY <1>1 DEF Good, IsState, Names, Current
<1>3. s.matches[click.i] \in Match
  BY <1>2, ElementOfSeq, LenProperties
<1>4. Entry(click.i) \in Match
  BY <1>1, <1>3 DEF Entry, Good, IsState
<1>5. ASSUME NEW m \in Match
      PROVE  Good(Overridden(m), None) /\ Overridden(m).window = s.window
  <2> DEFINE old == s.matches_override
             new == [j \in DOMAIN old \cup {click.i} |-> IF j = click.i THEN m ELSE old[j]]
  <2>1. DOMAIN new \subseteq DOMAIN s.matches /\ \A j \in DOMAIN new : new[j] \in Match
    BY <1>1, <1>2 DEF Good, IsState
  <2>2. Overridden(m) = [s EXCEPT !.matches_override = new]
    BY DEF Overridden
  <2> HIDE DEF new
  <2>3. /\ Good([s EXCEPT !.matches_override = new], None)
        /\ [s EXCEPT !.matches_override = new].window = s.window
    BY <1>1, <2>1 DEF Good, IsState, ListOf, OldestOf, Names, DefaultState
  <2> QED
    BY <2>2, <2>3
<1> QED
  BY <1>2, <1>3, <1>4, <1>5

\* match_submit of the entry that a click names.
LEMMA SubmittedGood ==
    ASSUME WindowInv, NEW kind, Clicked(kind), NEW st, Good(st, None), st.window = s.window,
           click.i \in DOMAIN st.matches, MatchSubmitted(st)
    PROVE  WindowInv' /\ Stays /\ open' = open
<1> DEFINE i == click.i
           edited == i \in DOMAIN st.matches_override /\ st.matches_override[i] # st.matches[i]
           r == Req("MatchUpdate", <<st.matches[i], st.matches_override[i]>>)
           rest == Restrict(st.matches_override, DOMAIN st.matches_override \ {i})
           n == [st EXCEPT !.matches_override = rest]
           out == IF edited THEN <<r>> ELSE << >>
<1>1. Update(n, out)
  BY DEF MatchSubmitted
<1>2. st.matches \in Seq(Match)
  BY DEF Good, IsState
<1>3. st.matches[i] \in Match
  BY <1>2, ElementOfSeq, LenProperties
<1>4. edited => Plain(r)
  <2> SUFFICES ASSUME edited PROVE Plain(r)
    OBVIOUS
  <2>1. st.matches_override[i] \in Match
    BY DEF Good, IsState
  <2>2. <<st.matches[i], st.matches_override[i]>> \in Match \X Match
    BY <1>3, <2>1
  <2>3. r \in Request
    BY <2>2 DEF Req, Request
  <2>4. r.d \notin WindowKinds
    BY DEF Req, WindowKinds
  <2> QED
    BY <2>3, <2>4 DEF Plain
<1>5. Sendable(out)
  BY <1>4 DEF Sendable, Plain
<1>6. DOMAIN rest \subseteq DOMAIN st.matches /\ \A j \in DOMAIN rest : rest[j] \in Match
  BY DEF Good, IsState, Restrict
<1> HIDE DEF rest
<1>7. Good(n, None) /\ n.window = st.window
  BY <1>6 DEF Good, IsState, ListOf, OldestOf, Names, DefaultState
<1> HIDE DEF n, out
<1> QED
  BY <1>1, <1>5, <1>7, ClickGood

\* update() comes to a click.
LEMMA ClickSteps ==
    ASSUME WindowInv, HandleClick
    PROVE  WindowInv' /\ Stays /\ open' = open
<1>1. Good(s, click) /\ Good(s, None) /\ Sendable(<< >>)
  BY DEF WindowInv, Good, Names, Sendable
<1>2. CASE MatchDelete
  <2> DEFINE r == Req("MatchDelete", s.matches[click.i])
             out == IF Current THEN <<r>> ELSE << >>
  <2>1. Clicked("delete") /\ Update(s, out)
    BY <1>2 DEF MatchDelete
  <2>2. Current => s.matches[click.i] \in Match
    BY <2>1, EntryGood DEF Clicked
  <2>3. Current => Plain(r)
    BY <2>2 DEF Plain, Req, Request, WindowKinds
  <2>4. Sendable(out)
    BY <2>3 DEF Sendable, Plain
  <2> HIDE DEF out
  <2> QED
    BY <1>1, <2>1, <2>4, ClickGood
<1>3. CASE MatchAttr
  <2>1. Clicked("attr")
    BY <1>3 DEF MatchAttr
  <2>2. CASE ~Current
    BY <1>1, <1>3, <2>1, <2>2, ClickGood DEF MatchAttr
  <2>3. CASE Current
    <3> DEFINE m == [Entry(click.i) EXCEPT !.attr = click.a]
    <3>1. click # None /\ click.k = "attr"
      BY <2>1 DEF Clicked
    <3>2. click.a \in Attrs
      BY <1>1, <3>1 DEF Good, Names, Click
    <3>3. m \in Match
      BY <2>3, <3>1, <3>2, EntryGood DEF Match
    <3>4. MatchSubmitted(Overridden(m))
      BY <1>3, <2>3 DEF MatchAttr
    <3> HIDE DEF m
    <3>5. Good(Overridden(m), None) /\ Overridden(m).window = s.window /\ click.i \in DOMAIN s.matches
      BY <2>3, <3>1, <3>3, EntryGood
    <3>6. Overridden(m).matches = s.matches
      BY <1>1 DEF Overridden, Good, IsState, DefaultState
    <3> QED
      BY <2>1, <3>4, <3>5, <3>6, SubmittedGood
  <2> QED
    BY <2>2, <2>3
<1>4. CASE MatchUpdate
  <2>1. Clicked("type")
    BY <1>4 DEF MatchUpdate
  <2>2. CASE ~Current
    BY <1>1, <1>4, <2>1, <2>2, ClickGood DEF MatchUpdate
  <2>3. CASE Current
    <3> DEFINE m == [Entry(click.i) EXCEPT !.pattern = click.a]
    <3>1. click # None /\ click.k = "type"
      BY <2>1 DEF Clicked
    <3>2. click.a \in Patterns
      BY <1>1, <3>1 DEF Good, Names, Click
    <3>3. m \in Match
      BY <2>3, <3>1, <3>2, EntryGood DEF Match
    <3>4. Update(Overridden(m), << >>)
      BY <1>4, <2>3 DEF MatchUpdate
    <3> HIDE DEF m
    <3>5. Good(Overridden(m), None) /\ Overridden(m).window = s.window
      BY <2>3, <3>1, <3>3, EntryGood
    <3> QED
      BY <1>1, <2>1, <3>4, <3>5, ClickGood
  <2> QED
    BY <2>2, <2>3
<1>5. CASE MatchSubmit
  <2>1. Clicked("submit")
    BY <1>5 DEF MatchSubmit
  <2>2. CASE ~Current
    BY <1>1, <1>5, <2>1, <2>2, ClickGood DEF MatchSubmit
  <2>3. CASE Current
    <3>1. click.i \in DOMAIN s.matches
      BY <2>1, <2>3, EntryGood DEF Clicked
    <3>2. MatchSubmitted(s)
      BY <1>5, <2>3 DEF MatchSubmit
    <3> QED
      BY <1>1, <2>1, <3>1, <3>2, SubmittedGood
  <2> QED
    BY <2>2, <2>3
<1>6. CASE \E n \in Patterns, k \in Refreshed : MatchFromProc(n, k)
  <2>1. PICK n \in Patterns, k \in Refreshed : MatchFromProc(n, k)
    BY <1>6
  <2>2. Clicked("proc")
    BY <2>1 DEF MatchFromProc
  <2>3. CASE Update(s, << >>)
    BY <1>1, <2>2, <2>3, ClickGood
  <2>4. CASE Update([s EXCEPT !.proc_input = n, !.procs_all = k], << >>)
    <3> DEFINE st == [s EXCEPT !.proc_input = n, !.procs_all = k]
    <3>1. k # None
      BY GuiAssumption DEF Refreshed
    <3>2. Good(st, None) /\ st.window = s.window
      BY <1>1, <3>1 DEF Good, IsState, ListOf, OldestOf, Names, DefaultState
    <3>3. Update(st, << >>)
      BY <2>4
    <3> HIDE DEF st
    <3> QED
      BY <1>1, <2>2, <3>2, <3>3, ClickGood
  <2>5. CASE life' = "panicked" /\ UNCHANGED <<s, dq>>
    <3>1. click' = None /\ UNCHANGED <<mq, open, tray>>
      BY <2>2 DEF Clicked
    <3>2. Good(s', click')
      BY <1>1, <2>5, <3>1
    <3>3. ChannelsOK'
      BY <2>5, <3>1 DEF WindowInv, ChannelsOK
    <3> QED
      BY <2>5, <3>1, <3>2, <3>3 DEF WindowInv, Stays
  <2> QED
    BY <2>1, <2>3, <2>4, <2>5 DEF MatchFromProc
<1> QED
  BY <1>2, <1>3, <1>4, <1>5, <1>6 DEF HandleClick

-----------------------------------------------------------------------------
\* Every call of update() keeps the window's invariants, and requests about
\* the window are sent exactly when it opens or closes.
LEMMA GuiStepGood ==
    ASSUME WindowInv, GuiStep
    PROVE  WindowInv' /\ (Stays \/ Opens \/ Closes) /\ open' = open
<1>1. CASE Exit
  <2>1. UNCHANGED <<s, click, mq, dq, open, tray>> /\ life' = "exited"
    BY <1>1 DEF Exit
  <2>2. Good(s', click')
    BY <2>1 DEF WindowInv
  <2>3. ChannelsOK'
    BY <2>1 DEF WindowInv, ChannelsOK
  <2> QED
    BY <2>1, <2>2, <2>3 DEF WindowInv, Stays
<1>2. CASE HandleMessage
  BY <1>1, <1>2, ToggleSteps, ReportSteps, FailureSteps DEF HandleMessage
<1>3. CASE HandleClick
  BY <1>3, ClickSteps
<1>4. CASE \E w \in Widgets : InputTo(w)
  BY <1>4, InputSteps
<1> QED
  BY <1>2, <1>3, <1>4 DEF GuiStep

-----------------------------------------------------------------------------
(* What update() shows *)

Gone == {"DbusFail", "DbusCantConnect"}

\* Without a daemon the window and the icon say so.
Away ==
    /\ s.attached = DefaultAttached /\ s.matches = << >> /\ tray = "NotConnected"
    /\ s.dbus_conn_err # None

\* The name of an output is not left waiting in its field.
Resolved(st) == st.output_dev_input_sent => st.output_dev_input = st.attached.to_ifname

KeepsAttached == s'.attached = s.attached /\ tray' = tray
KeepsMatches == s'.matches = s.matches
KeepsConn == s'.dbus_conn_err = s.dbus_conn_err

\* The confirmed settings change only where an error is put on the list, and
\* then to the settings that are edited.
KeepsSettings ==
    \/ s'.settings_override = s.settings_override
    \/ /\ s'.settings = s.settings /\ s'.settings_override = s.settings
       /\ Len(s'.dbus_errs) > Len(s.dbus_errs)

\* A name is left in the field only together with a request.
KeepsOutput ==
    \/ Resolved(s) => Resolved(s')
    \/ \E r \in Request : r.d = "ChangeOutput" /\ dq' = Append(dq, r)

KeepsShown == KeepsAttached /\ KeepsMatches /\ KeepsConn /\ KeepsSettings

\* What an error leaves of a state.
LEMMA ErrorShows ==
    ASSUME NEW st, IsState(st), NEW err
    PROVE  LET n == DbusErr(st, err) IN
           /\ n.attached = st.attached /\ n.matches = st.matches
           /\ n.dbus_conn_err = st.dbus_conn_err
           /\ n.settings = st.settings /\ n.settings_override = st.settings
           /\ n.dbus_errs = Append(st.dbus_errs, err)
           /\ n.output_dev_input = st.attached.to_ifname
           /\ DOMAIN n = DOMAIN st
<1> DEFINE m == [st EXCEPT !.settings_override = st.settings,
                           !.output_dev_input = st.attached.to_ifname,
                           !.output_dev_input_sent = TRUE,
                           !.matches_override = << >>,
                           !.dbus_errs = Append(@, err)]
           Shown(n) ==
              /\ n.attached = st.attached /\ n.matches = st.matches
              /\ n.dbus_conn_err = st.dbus_conn_err
              /\ n.settings = st.settings /\ n.settings_override = st.settings
              /\ n.dbus_errs = Append(st.dbus_errs, err)
              /\ n.output_dev_input = st.attached.to_ifname
              /\ DOMAIN n = DOMAIN st
<1>1. Shown(m)
  BY DEF IsState, DefaultState
<1>2. \/ DbusErr(st, err) = m
      \/ \E e : DbusErr(st, err) = [m EXCEPT !.modal_editor = e]
  BY DEF DbusErr, ModalReplace
<1> HIDE DEF m
<1>3. ASSUME NEW e PROVE Shown([m EXCEPT !.modal_editor = e])
  BY <1>1 DEF IsState, DefaultState
<1>4. Shown(DbusErr(st, err))
  <2> HIDE DEF Shown
  <2> QED
    BY <1>1, <1>2, <1>3
<1> QED
  BY <1>4

\* An input, or a click that update() comes to, leaves what the daemon has
\* reported.
LEMMA InputShows ==
    ASSUME WindowInv, HandleClick \/ \E w \in Widgets : InputTo(w)
    PROVE  mq' = mq /\ KeepsShown /\ KeepsOutput
<1>1. IsState(s) /\ dq \in Seq(Request)
  BY DEF WindowInv, Good, ChannelsOK
<1> DEFINE Same(n) ==
             /\ n.attached = s.attached /\ n.matches = s.matches
             /\ n.dbus_conn_err = s.dbus_conn_err /\ n.settings_override = s.settings_override
             /\ n.output_dev_input = s.output_dev_input
             /\ n.output_dev_input_sent = s.output_dev_input_sent
<1>2. ASSUME Same(s'), UNCHANGED <<mq, tray>>
      PROVE  mq' = mq /\ KeepsShown /\ KeepsOutput
  BY <1>2 DEF KeepsShown, KeepsAttached, KeepsMatches, KeepsConn, KeepsSettings, KeepsOutput,
              Resolved
<1>3. CASE HandleClick
  <2>1. UNCHANGED <<mq, tray>>
    BY <1>3 DEF HandleClick, MatchDelete, MatchAttr, MatchUpdate, MatchSubmit, MatchFromProc, Clicked
  <2>2. Same(s)
    OBVIOUS
  <2>3. ASSUME NEW o PROVE Same([s EXCEPT !.matches_override = o])
    BY <1>1 DEF IsState, DefaultState
  <2>4. ASSUME NEW m PROVE Same(Overridden(m)) /\ DOMAIN Overridden(m) = DOMAIN s
    BY <1>1 DEF Overridden, IsState, DefaultState
  <2>5. ASSUME NEW st, Same(st), DOMAIN st = DOMAIN s, MatchSubmitted(st) PROVE Same(s')
    <3>1. PICK o : s' = [st EXCEPT !.matches_override = o]
      BY <2>5 DEF MatchSubmitted, Update
    <3> QED
      BY <1>1, <2>5, <3>1 DEF IsState, DefaultState
  <2>6. CASE MatchDelete
    BY <1>2, <2>1, <2>6 DEF MatchDelete, Update
  <2>7. CASE MatchAttr
    <3>1. \/ s' = s
          \/ \E m : MatchSubmitted(Overridden(m))
      BY <2>7 DEF MatchAttr, Update
    <3> QED
      BY <1>2, <2>1, <2>2, <2>4, <2>5, <3>1
  <2>8. CASE MatchUpdate
    <3>1. s' = s \/ \E m : s' = Overridden(m)
      BY <2>8 DEF MatchUpdate, Update
    <3> QED
      BY <1>2, <2>1, <2>2, <2>4, <3>1
  <2>9. CASE MatchSubmit
    <3>1. s' = s \/ MatchSubmitted(s)
      BY <2>9 DEF MatchSubmit, Update
    <3> QED
      BY <1>2, <2>1, <2>2, <2>5, <3>1
  <2>10. CASE \E n \in Patterns, k \in Refreshed : MatchFromProc(n, k)
    <3>1. PICK n \in Patterns, k \in Refreshed : MatchFromProc(n, k)
      BY <2>10
    <3>2. s' = s \/ s' = [s EXCEPT !.proc_input = n, !.procs_all = k]
      BY <3>1 DEF MatchFromProc, Update
    <3>3. Same([s EXCEPT !.proc_input = n, !.procs_all = k])
      BY <1>1 DEF IsState, DefaultState
    <3> QED
      BY <1>2, <2>1, <2>2, <3>2, <3>3
  <2> QED
    BY <1>3, <2>6, <2>7, <2>8, <2>9, <2>10 DEF HandleClick
<1>4. CASE InputTo("frame")
  <2>1. (s' = s \/ s' = [s EXCEPT !.window = FALSE]) /\ UNCHANGED <<mq, tray>>
    BY <1>4 DEF InputTo, WindowCloseId, CloseWindow, Switch, Input, Update
  <2>2. Same([s EXCEPT !.window = FALSE])
    BY <1>1 DEF IsState, DefaultState
  <2> QED
    BY <1>2, <2>1, <2>2
<1>5. CASE InputTo("settings")
  <2>1. /\ UNCHANGED <<mq, tray>>
        /\ \/ s' = s
           \/ \E b : s' = [s EXCEPT !.show_settings = b]
           \/ \E f, b : s' = [s EXCEPT !.settings.flag[f] = b]
           \/ \E x : s' = [s EXCEPT !.settings.spoof_dns_ipv4 = x]
    BY <1>5 DEF InputTo, SettingsOpen, SettingsClose, SettingsDnsIpSubmit, Esc, SettingsFlag,
                SettingsDnsIp, Input, Update
  <2>2. ASSUME NEW b PROVE Same([s EXCEPT !.show_settings = b])
    BY <1>1 DEF IsState, DefaultState
  <2>3. ASSUME NEW f, NEW b PROVE Same([s EXCEPT !.settings.flag[f] = b])
    BY <1>1 DEF IsState, DefaultState
  <2>4. ASSUME NEW x PROVE Same([s EXCEPT !.settings.spoof_dns_ipv4 = x])
    BY <1>1 DEF IsState, DefaultState
  <2>5. Same(s)
    OBVIOUS
  <2>6. Same(s')
    <3> HIDE DEF Same
    <3> QED
      BY <2>1, <2>2, <2>3, <2>4, <2>5
  <2> QED
    BY <1>2, <2>1, <2>6
<1>6. CASE InputTo("new")
  <2>1. UNCHANGED <<mq, tray>>
    BY <1>6 DEF InputTo, Procs, MatchAdd, ProcClick, Input
  <2>2. CASE \E n \in Patterns \cup {NoText}, k \in Refreshed : Procs(n, k)
    <3>1. PICK n, k : s' = [s EXCEPT !.proc_input_sent = FALSE, !.proc_input = n, !.procs_all = k]
      BY <2>2 DEF Procs, Input, Update
    <3>2. Same(s')
      BY <1>1, <3>1 DEF IsState, DefaultState
    <3> QED
      BY <1>2, <2>1, <3>2
  <2>3. CASE \E a \in Attrs : MatchAdd(a)
    <3>1. s' = [s EXCEPT !.proc_input_sent = TRUE]
      BY <2>3 DEF MatchAdd, Input, Update
    <3>2. Same(s')
      BY <1>1, <3>1 DEF IsState, DefaultState
    <3> QED
      BY <1>2, <2>1, <3>2
  <2>4. CASE \E i \in 1..MaxProcs : ProcClick(i)
    BY <1>2, <2>1, <2>4 DEF ProcClick
  <2> QED
    BY <1>6, <2>2, <2>3, <2>4 DEF InputTo
<1>7. CASE InputTo("list")
  <2>1. UNCHANGED <<s, mq, tray>>
    BY <1>7 DEF InputTo, MatchClick
  <2> QED
    BY <1>2, <2>1
<1>8. CASE InputTo("error")
  <2>1. UNCHANGED <<mq, tray>>
    BY <1>8 DEF InputTo, ModalNext, StatusShow, Input
  <2>2. CASE ModalNext
    <3>1. PICK e, l : s' = [[s EXCEPT !.dbus_errs = l] EXCEPT !.modal_editor = e]
      BY <2>2 DEF ModalNext, ModalReplace, Input, Update
    <3>2. Same(s')
      BY <1>1, <3>1 DEF IsState, DefaultState
    <3> QED
      BY <1>2, <2>1, <3>2
  <2>3. CASE StatusShow
    <3>1. PICK e \in Errors : s' = DbusErr(s, e)
      BY <1>1, <2>3 DEF StatusShow, Input, Update, IsState
    <3>2. /\ s'.attached = s.attached /\ s'.matches = s.matches
          /\ s'.dbus_conn_err = s.dbus_conn_err
          /\ s'.settings = s.settings /\ s'.settings_override = s.settings
          /\ s'.dbus_errs = Append(s.dbus_errs, e)
          /\ s'.output_dev_input = s.attached.to_ifname
      BY <1>1, <3>1, ErrorShows
    <3>3. s.dbus_errs \in Seq(Errors)
      BY <1>1 DEF IsState
    <3>4. Len(s'.dbus_errs) > Len(s.dbus_errs)
      BY <3>2, <3>3, AppendProperties, LenProperties
    <3> QED
      BY <2>1, <3>2, <3>4 DEF KeepsShown, KeepsAttached, KeepsMatches, KeepsConn, KeepsSettings,
                              KeepsOutput, Resolved
  <2> QED
    BY <1>8, <2>2, <2>3 DEF InputTo
<1>9. CASE InputTo("output")
  <2>1. UNCHANGED <<mq, tray>>
    BY <1>9 DEF InputTo, OutputDevSubmit, OutputDevSet, OutputDevSetSubmit, Input
  <2> DEFINE Rest(n) ==
               /\ n.attached = s.attached /\ n.matches = s.matches
               /\ n.dbus_conn_err = s.dbus_conn_err /\ n.settings_override = s.settings_override
               /\ DOMAIN n = DOMAIN s
  <2>2. Rest(s)
    OBVIOUS
  <2>3. ASSUME NEW n PROVE Rest(OutputSet(s, n)) /\ Resolved(OutputSet(s, n))
                           /\ OutputSet(s, n).output_dev_input = n
    BY <1>1 DEF OutputSet, Resolved, IsState, DefaultState
  <2>4. ASSUME Rest(s'), KeepsOutput PROVE mq' = mq /\ KeepsShown /\ KeepsOutput
    BY <2>1, <2>4 DEF KeepsShown, KeepsAttached, KeepsMatches, KeepsConn, KeepsSettings
  <2>5. ASSUME NEW st, Rest(st), st.output_dev_input \in Devs, Resolved(s) => Resolved(st),
               Update(OutputSubmit(st).st, OutputSubmit(st).out)
        PROVE  Rest(s') /\ KeepsOutput
    <3> DEFINE r == Req("ChangeOutput", st.output_dev_input)
               n == [st EXCEPT !.output_dev_input_sent = TRUE]
    <3>1. \/ OutputSubmit(st) = [st |-> n, out |-> <<r>>]
          \/ OutputSubmit(st) = [st |-> st, out |-> << >>]
      BY DEF OutputSubmit
    <3>2. r \in Request /\ r.d = "ChangeOutput"
      BY <2>5 DEF Req, Request
    <3>3. Rest(n)
      BY <1>1, <2>5 DEF IsState, DefaultState
    <3> HIDE DEF r, n
    <3>4. CASE OutputSubmit(st) = [st |-> n, out |-> <<r>>]
      <4>1. s' = n /\ dq' = dq \o <<r>>
        BY <2>5, <3>4 DEF Update
      <4>2. dq' = Append(dq, r)
        BY <1>1, <3>2, <4>1, AppendIsConcat
      <4> QED
        BY <3>2, <3>3, <4>1, <4>2 DEF KeepsOutput
    <3>5. CASE OutputSubmit(st) = [st |-> st, out |-> << >>]
      BY <2>5, <3>5 DEF Update, KeepsOutput
    <3> QED
      BY <3>1, <3>4, <3>5
  <2>6. CASE OutputDevSubmit
    <3>1. s.output_dev_input \in Devs /\ Update(OutputSubmit(s).st, OutputSubmit(s).out)
      BY <1>1, <2>6 DEF OutputDevSubmit, Input, IsState
    <3> QED
      BY <2>2, <2>4, <2>5, <3>1
  <2>7. CASE \E n \in Devs : OutputDevSet(n)
    <3>1. PICK n \in Devs : s' = OutputSet(s, n)
      BY <2>7 DEF OutputDevSet, Input, Update
    <3> QED
      BY <2>3, <2>4, <3>1 DEF KeepsOutput
  <2>8. CASE \E n \in Devs : OutputDevSetSubmit(n)
    <3>1. PICK n \in Devs : OutputDevSetSubmit(n)
      BY <2>8
    <3> DEFINE st == OutputSet(s, n)
    <3>2. Update(OutputSubmit(st).st, OutputSubmit(st).out)
      BY <3>1 DEF OutputDevSetSubmit, Input
    <3>3. Rest(st) /\ Resolved(st) /\ st.output_dev_input \in Devs
      BY <2>3
    <3> HIDE DEF st
    <3> QED
      BY <2>4, <2>5, <3>2, <3>3
  <2> QED
    BY <1>9, <2>6, <2>7, <2>8 DEF InputTo
<1> QED
  BY <1>3, <1>4, <1>5, <1>6, <1>7, <1>8, <1>9 DEF Widgets

\* What update() makes of the message m.
Shown(m) ==
    /\ m.m = "Attached" => s'.attached = m.v /\ tray' = TrayOf(m.v) /\ Resolved(s')
    /\ m.m = "Matches" => s'.matches = m.v
    /\ m.m = "Settings" => s'.settings_override = m.v
    /\ m.m = "DbusConnected" => s'.dbus_conn_err = None
    /\ m.m = "DbusErr" => Resolved(s')
    /\ m.m \in Gone => Away'
    /\ m.m \notin {"Attached"} \cup Gone => KeepsAttached
    /\ m.m \notin {"Matches"} \cup Gone => KeepsMatches
    /\ m.m \notin {"DbusConnected"} \cup Gone => KeepsConn
    /\ m.m # "Settings" => KeepsSettings
    /\ m.m \notin {"Attached", "DbusErr"} \cup Gone => KeepsOutput

\* A message is shown as what it says, and leaves what it says nothing about.
LEMMA MessageShows ==
    ASSUME WindowInv, HandleMessage, ~Exit
    PROVE  mq # << >> /\ mq' = Tail(mq) /\ Shown(Head(mq))
<1>1. IsState(s) /\ s.dbus_errs \in Seq(Errors)
  BY DEF WindowInv, Good, IsState
<1>2. mq # << >> /\ mq' = Tail(mq)
  BY DEF HandleMessage, WindowToggle, TrayUp, OnSettings, OnAttached, OnMatches, OnActiveProcs,
         OnDbusErr, OnDbusFail, OnDbusCantConnect, OnDbusConnected, Report
<1> DEFINE m == Head(mq)
           v == Reported
<1>3. m.v = v
  BY DEF Reported
<1>4. CASE WindowToggle
  <2>1. m.m \in {"WindowToggle", "WindowOpen"} /\ tray' = tray
    BY <1>4 DEF WindowToggle
  <2>2. PICK b \in BOOLEAN : s' = [s EXCEPT !.window = b]
    BY <1>4 DEF WindowToggle, CloseWindow, Update
  <2> HIDE DEF m
  <2> QED
    BY <1>1, <1>2, <2>1, <2>2 DEF Shown, Gone, KeepsAttached, KeepsMatches, KeepsConn, KeepsSettings,
                             KeepsOutput, Resolved, IsState, DefaultState, m
<1>5. CASE TrayUp
  <2>1. m.m = "TrayUp" /\ tray' = tray /\ s' = [s EXCEPT !.tray_up = TRUE]
    BY <1>5 DEF TrayUp, Report
  <2> QED
    BY <1>1, <1>2, <2>1 DEF Shown, Gone, KeepsAttached, KeepsMatches, KeepsConn, KeepsSettings,
                             KeepsOutput, Resolved, IsState, DefaultState
<1>6. CASE OnSettings
  <2>1. m.m = "Settings" /\ tray' = tray
        /\ s' = [s EXCEPT !.settings_override = v, !.settings = v]
    BY <1>6 DEF OnSettings, Report
  <2> HIDE DEF v
  <2> QED
    BY <1>1, <1>2, <1>3, <2>1 DEF Shown, Gone, KeepsAttached, KeepsMatches, KeepsConn,
                             KeepsOutput, Resolved, IsState, DefaultState
<1>7. CASE OnAttached
  <2>1. m.m = "Attached"
        /\ s' = [s EXCEPT !.attached = v, !.output_dev_input = v.to_ifname,
                          !.output_dev_input_sent = TRUE]
    BY <1>7 DEF OnAttached, Report
  <2>2. TrayOf(v) \in {"NotConnected", "Enabled", "Disabled"}
    BY DEF TrayOf
  <2>3. tray' = TrayOf(v)
    BY <1>7, <2>2, GuiAssumption DEF OnAttached, Report
  <2> HIDE DEF v
  <2> QED
    BY <1>1, <1>2, <1>3, <2>1, <2>3 DEF Shown, Gone, KeepsMatches, KeepsConn, KeepsSettings,
                             Resolved, IsState, DefaultState
<1>8. CASE OnMatches
  <2> DEFINE added == s.proc_input_sent /\ \E i \in DOMAIN v : v[i].pattern = s.proc_input
             sent == IF added THEN FALSE ELSE s.proc_input_sent
             text == IF added THEN NoText ELSE s.proc_input
  <2>1. m.m = "Matches" /\ tray' = tray
        /\ s' = [s EXCEPT !.proc_input_sent = sent, !.proc_input = text,
                          !.matches_override = << >>, !.matches = v, !.matches_gen = @ + 1]
    BY <1>8 DEF OnMatches, Report
  <2> HIDE DEF v, sent, text
  <2> QED
    BY <1>1, <1>2, <1>3, <2>1 DEF Shown, Gone, KeepsAttached, KeepsConn, KeepsSettings,
                             KeepsOutput, Resolved, IsState, DefaultState
<1>9. CASE OnActiveProcs
  <2>1. m.m = "ActiveProcs" /\ tray' = tray /\ s' = [s EXCEPT !.matches_gen = @ + 1]
    BY <1>9 DEF OnActiveProcs, Report
  <2> QED
    BY <1>1, <1>2, <2>1 DEF Shown, Gone, KeepsAttached, KeepsMatches, KeepsConn, KeepsSettings,
                             KeepsOutput, Resolved, IsState, DefaultState
<1>10. CASE OnDbusConnected
  <2>1. m.m = "DbusConnected" /\ tray' = tray /\ s' = [s EXCEPT !.dbus_conn_err = None]
    BY <1>10 DEF OnDbusConnected, Report
  <2> QED
    BY <1>1, <1>2, <2>1 DEF Shown, Gone, KeepsAttached, KeepsMatches, KeepsSettings,
                             KeepsOutput, Resolved, IsState, DefaultState
<1>11. ASSUME m.m \in {"DbusErr"} \cup Gone PROVE v \in Errors /\ v # None
  BY <1>2, <1>11, ReportedType, GuiAssumption DEF Gone
<1> DEFINE e == DbusErr(s, v)
<1>12. ASSUME v \in Errors
       PROVE  /\ e.attached = s.attached /\ e.matches = s.matches
              /\ e.dbus_conn_err = s.dbus_conn_err
              /\ e.settings = s.settings /\ e.settings_override = s.settings
              /\ e.output_dev_input = s.attached.to_ifname
              /\ DOMAIN e = DOMAIN s
              /\ Len(e.dbus_errs) > Len(s.dbus_errs)
  <2>1. e.dbus_errs = Append(s.dbus_errs, v)
    BY <1>1, ErrorShows
  <2>2. Len(e.dbus_errs) > Len(s.dbus_errs)
    BY <1>1, <1>12, <2>1, AppendProperties, LenProperties
  <2> QED
    BY <1>1, <2>2, ErrorShows
<1>13. CASE OnDbusErr
  <2>1. m.m = "DbusErr" /\ tray' = tray /\ s' = e
    BY <1>13 DEF OnDbusErr, Report
  <2>2. v \in Errors
    BY <1>11, <2>1
  <2> HIDE DEF e, v
  <2> QED
    BY <1>2, <1>12, <2>1, <2>2 DEF Shown, Gone, KeepsAttached, KeepsMatches, KeepsConn, KeepsSettings,
                             Resolved
<1>14. ASSUME NEW st, DOMAIN st = DOMAIN s
       PROVE  LET n == DbusCantConnect(st, v) IN
              /\ n.attached = DefaultAttached /\ n.matches = << >> /\ n.dbus_conn_err = v
              /\ n.settings = st.settings /\ n.settings_override = st.settings_override
              /\ n.dbus_errs = st.dbus_errs
  <2> HIDE DEF v
  <2> QED
    BY <1>1, <1>14 DEF DbusCantConnect, IsState, DefaultState
<1>15. CASE OnDbusCantConnect
  <2>1. m.m = "DbusCantConnect" /\ s' = DbusCantConnect(s, v)
    BY <1>15 DEF OnDbusCantConnect, Report
  <2>2. tray' = "NotConnected"
    BY <1>15, GuiAssumption DEF OnDbusCantConnect, Report
  <2>3. v # None
    BY <1>11, <2>1 DEF Gone
  <2> HIDE DEF v
  <2> QED
    BY <1>2, <1>14, <2>1, <2>2, <2>3 DEF Shown, Gone, Away, KeepsSettings
<1>16. CASE OnDbusFail
  <2>1. m.m = "DbusFail" /\ s' = DbusCantConnect(e, v)
    BY <1>16 DEF OnDbusFail, Report
  <2>2. tray' = "NotConnected"
    BY <1>16, GuiAssumption DEF OnDbusFail, Report
  <2>3. v \in Errors /\ v # None
    BY <1>11, <2>1 DEF Gone
  <2> HIDE DEF v, e
  <2> QED
    BY <1>2, <1>12, <1>14, <2>1, <2>2, <2>3 DEF Shown, Gone, Away, KeepsSettings
<1> QED
  BY <1>4, <1>5, <1>6, <1>7, <1>8, <1>9, <1>10, <1>13, <1>15, <1>16 DEF HandleMessage

-----------------------------------------------------------------------------
(* The composed system *)

Props == {"Attached", "Matches", "Settings"}

DaemonType ==
    [ up : BOOLEAN, enable : BOOLEAN, to_dev : Devs, route : Devs \cup {None},
      config : Settings, matches : Seq(Match), attached : BOOLEAN, blocker : BOOLEAN ]

TasksType ==
    [ pc : {"probe", "offline", "online", "ended"}, err_sent : BOOLEAN,
      props : {"Attached", "Matches", "Settings", "subscribe", "listen"},
      request : {"idle", "calling", "failed", "closing"},
      permits : Nat, polling : BOOLEAN ]

CallType == [req : Request, wanted : BOOLEAN]

\* The calls cs that are not answered while process_requests is in state q:
\* none is about the window, and at most one of them, the one it waits for,
\* is wanted.
CallsOK(cs, q) ==
    /\ cs \in Seq(CallType)
    /\ \A i \in DOMAIN cs : Plain(cs[i].req)
    /\ \A i, j \in DOMAIN cs : cs[i].wanted /\ cs[j].wanted => i = j
    /\ q = "calling" <=> \E i \in DOMAIN cs : cs[i].wanted

\* The rest of the composed system.
RestOK ==
    /\ todo \subseteq {"routes", "reload"}
    /\ owner \in Nat /\ lost \in Nat /\ unrolled \in BOOLEAN
    /\ signals \in Seq(Props) /\ missed \subseteq Props
    /\ events \in [uses : SUBSET Widgets, input : Nat, other : Nat]

SystemInv ==
    /\ WindowInv
    /\ dm \in DaemonType
    /\ h \in TasksType
    /\ CallsOK(calls, h.request)
    /\ RestOK

\* What a step does to the variables of the window.
Sends == \E m \in Message : Send(m)
TrayAsks ==
    /\ \E r \in Request : Plain(r) /\ dq' = Append(dq, r)
    /\ UNCHANGED <<s, click, mq, open, tray, life>>
Beside == UNCHANGED guiVars \/ Sends \/ Receive \/ TrayAsks

-----------------------------------------------------------------------------
\* The background tasks leave the window's invariants alone.
LEMMA BesideGood ==
    ASSUME WindowInv, Beside
    PROVE  WindowInv' /\ open' = open
<1>1. CASE UNCHANGED guiVars
  BY <1>1 DEF guiVars, WindowInv, ChannelsOK
<1>2. CASE Sends
  <2>1. PICK m \in Message : Send(m)
    BY <1>2 DEF Sends
  <2>2. mq' = Append(mq, m) /\ UNCHANGED <<s, click, dq, open, tray, life>>
    BY <2>1 DEF Send
  <2>3. mq' \in Seq(Message)
    BY <2>2, AppendProperties DEF WindowInv, ChannelsOK
  <2> QED
    BY <2>2, <2>3 DEF WindowInv, ChannelsOK
<1>3. CASE Receive
  <2>1. dq # << >> /\ dq' = Tail(dq) /\ UNCHANGED <<s, click, mq, open, tray, life>>
    BY <1>3 DEF Receive
  <2>2. dq' \in Seq(Request)
    BY <2>1, HeadTailProperties DEF WindowInv, ChannelsOK
  <2> QED
    BY <2>1, <2>2 DEF WindowInv, ChannelsOK
<1>4. CASE TrayAsks
  <2>1. PICK r \in Request : dq' = Append(dq, r)
    BY <1>4 DEF TrayAsks
  <2>2. UNCHANGED <<s, click, mq, open, tray, life>>
    BY <1>4 DEF TrayAsks
  <2>3. dq' \in Seq(Request)
    BY <2>1, AppendProperties DEF WindowInv, ChannelsOK
  <2> QED
    BY <2>2, <2>3 DEF WindowInv, ChannelsOK
<1> QED
  BY <1>1, <1>2, <1>3, <1>4 DEF Beside

-----------------------------------------------------------------------------
(* Calls that are not answered *)

\* process_requests makes a call.
LEMMA CallsAppended ==
    ASSUME NEW cs, CallsOK(cs, "idle"), NEW r, Plain(r)
    PROVE  CallsOK(Append(cs, [req |-> r, wanted |-> TRUE]), "calling")
<1> DEFINE c == [req |-> r, wanted |-> TRUE]
           new == Append(cs, c)
           n == Len(cs)
<1>1. c \in CallType /\ c.req = r /\ c.wanted = TRUE
  BY DEF CallType, Plain
<1>2. cs \in Seq(CallType)
  BY DEF CallsOK
<1> HIDE DEF c
<1>3. /\ new \in Seq(CallType) /\ Len(new) = n + 1 /\ new[n + 1] = c
      /\ \A i \in 1..n : new[i] = cs[i]
  BY <1>1, <1>2, AppendProperties
<1>4. n \in Nat /\ DOMAIN cs = 1..n /\ DOMAIN new = 1..(n + 1)
  BY <1>2, <1>3, LenProperties
<1> HIDE DEF new, n
<1>5. \A i \in 1..(n + 1) : i = n + 1 \/ i \in 1..n
  BY <1>4
<1>6. n + 1 \in DOMAIN new
  BY <1>4
<1>7. \A i \in DOMAIN new : Plain(new[i].req)
  BY <1>1, <1>3, <1>4, <1>5 DEF CallsOK
<1>8. \A i \in DOMAIN new : new[i].wanted => i = n + 1
  BY <1>3, <1>4, <1>5 DEF CallsOK
<1>9. new[n + 1].wanted
  BY <1>1, <1>3
<1>10. CallsOK(new, "calling")
  BY <1>3, <1>6, <1>7, <1>8, <1>9 DEF CallsOK
<1> QED
  BY <1>10 DEF new, c

\* The daemon answers call i.
LEMMA CallsAnswered ==
    ASSUME NEW cs, NEW q, CallsOK(cs, q), NEW i \in DOMAIN cs
    PROVE  CallsOK(RemoveAt(cs, i), IF cs[i].wanted THEN "idle" ELSE q)
<1> DEFINE new == RemoveAt(cs, i)
           n == Len(cs)
<1>1. cs \in Seq(CallType)
  BY DEF CallsOK
<1>2. n \in Nat /\ DOMAIN cs = 1..n /\ i \in 1..n
  BY <1>1, LenProperties
<1>3. /\ new \in Seq(CallType) /\ Len(new) = n - 1
      /\ \A j \in 1..(n - 1) : new[j] = IF j < i THEN cs[j] ELSE cs[j + 1]
  BY <1>1, <1>2, RemoveAtEntries
<1>4. DOMAIN new = 1..(n - 1)
  BY <1>3, LenProperties
<1> DEFINE at(j) == IF j < i THEN j ELSE j + 1
<1>5. \A j \in 1..(n - 1) : at(j) \in 1..n /\ at(j) # i /\ new[j] = cs[at(j)]
  BY <1>2, <1>3
<1>6. \A j, k \in 1..(n - 1) : at(j) = at(k) => j = k
  BY <1>2
<1>7. \A k \in 1..n : k # i => \E j \in 1..(n - 1) : at(j) = k
  <2> SUFFICES ASSUME NEW k \in 1..n, k # i
               PROVE  \E j \in 1..(n - 1) : at(j) = k
    OBVIOUS
  <2>1. CASE k < i
    <3>1. k \in 1..(n - 1) /\ at(k) = k
      BY <1>2, <2>1
    <3> QED
      BY <3>1
  <2>2. CASE k > i
    <3>1. k - 1 \in 1..(n - 1) /\ at(k - 1) = k
      BY <1>2, <2>2
    <3> QED
      BY <3>1
  <2> QED
    BY <1>2, <2>1, <2>2
<1> HIDE DEF new, n, at
<1>8. \A j \in DOMAIN new : Plain(new[j].req)
  BY <1>2, <1>4, <1>5 DEF CallsOK
<1>9. \A j, k \in DOMAIN new : new[j].wanted /\ new[k].wanted => j = k
  BY <1>2, <1>4, <1>5, <1>6 DEF CallsOK
<1>10. CASE cs[i].wanted
  <2>1. \A j \in DOMAIN new : ~new[j].wanted
    BY <1>2, <1>4, <1>5, <1>10 DEF CallsOK
  <2> QED
    BY <1>3, <1>8, <1>9, <1>10, <2>1 DEF CallsOK, new
<1>11. CASE ~cs[i].wanted
  <2>1. (\E j \in DOMAIN new : new[j].wanted) <=> \E k \in DOMAIN cs : cs[k].wanted
    BY <1>2, <1>4, <1>5, <1>7, <1>11
  <2> QED
    BY <1>3, <1>8, <1>9, <1>11, <2>1 DEF CallsOK, new
<1> QED
  BY <1>10, <1>11

\* process_requests is dropped, and the answers go nowhere.
LEMMA CallsDropped ==
    ASSUME NEW cs, NEW q, CallsOK(cs, q)
    PROVE  CallsOK([i \in DOMAIN cs |-> [cs[i] EXCEPT !.wanted = FALSE]], "idle")
<1> DEFINE new == [i \in DOMAIN cs |-> [cs[i] EXCEPT !.wanted = FALSE]]
<1>1. cs \in Seq(CallType) /\ DOMAIN cs = 1..Len(cs) /\ Len(cs) \in Nat
  BY LenProperties DEF CallsOK
<1>2. \A i \in DOMAIN cs : cs[i] \in CallType
  BY <1>1, ElementOfSeq
<1>3. ASSUME NEW i \in DOMAIN cs
      PROVE  new[i] \in CallType /\ new[i].wanted = FALSE /\ new[i].req = cs[i].req
  BY <1>2 DEF CallType
<1>4. DOMAIN new = DOMAIN cs /\ new = [i \in 1..Len(cs) |-> new[i]]
  BY <1>1
<1>5. new \in Seq(CallType)
  <2>1. new \in [1..Len(cs) -> CallType]
    BY <1>1, <1>3, <1>4
  <2> QED
    BY <1>1, <2>1, SeqDef
<1> HIDE DEF new
<1>6. CallsOK(new, "idle")
  BY <1>3, <1>4, <1>5 DEF CallsOK
<1> QED
  BY <1>6 DEF new

\* process_requests goes from one state to another without a call.
LEMMA CallsKept ==
    ASSUME NEW cs, NEW q, NEW r, CallsOK(cs, q), q # "calling", r # "calling"
    PROVE  CallsOK(cs, r)
BY DEF CallsOK

\* The connection of the daemon is gone, and its calls with it.
LEMMA CallsGone ==
    ASSUME NEW q, q # "calling"
    PROVE  CallsOK(<< >>, q)
<1>1. << >> \in Seq(CallType) /\ DOMAIN << >> = {}
  OBVIOUS
<1> QED
  BY <1>1 DEF CallsOK

-----------------------------------------------------------------------------
(* The daemon and the tasks *)

\* The entry that is looked for is there.
LEMMA PositionFinds ==
    ASSUME dm \in DaemonType, NEW m, Contains(dm.matches, m)
    PROVE  Position(m) \in 1..Len(dm.matches)
<1> DEFINE I == {i \in 1..Len(dm.matches) : dm.matches[i] = m}
<1>1. dm.matches \in Seq(Match) /\ Len(dm.matches) \in Nat
  BY LenProperties DEF DaemonType
<1>2. I # {}
  BY DEF Contains
<1>3. Position(m) = Min(I)
  BY <1>2 DEF Position, SelectInSeq, SelectInSubSeq
<1>4. I \in SUBSET Nat
  BY <1>1
<1> QED
  BY <1>2, <1>3, <1>4, MinIsLeast

\* What a method that is accepted leaves.
LEMMA EffectTyped ==
    ASSUME dm \in DaemonType, NEW r, Plain(r), Acceptable(r)
    PROVE  Effect(r) \in DaemonType /\ Effect(r).up = dm.up
<1>1. r \in Request /\ r.d \notin WindowKinds
  BY DEF Plain
<1>2. dm.matches \in Seq(Match)
  BY DEF DaemonType
<1>3. CASE r.d \in {"Enable", "Disable"}
  <2>1. PICK b \in BOOLEAN : Effect(r) = [dm EXCEPT !.enable = b]
    BY <1>3 DEF Effect
  <2> QED
    BY <2>1 DEF DaemonType
<1>4. CASE r.d = "ChangeOutput"
  <2>1. r.v \in Devs
    BY <1>1, <1>4 DEF Request
  <2>2. Effect(r) = [dm EXCEPT !.to_dev = r.v]
    BY <1>4 DEF Effect
  <2> QED
    BY <2>1, <2>2 DEF DaemonType
<1>5. CASE r.d = "SettingsUpdate"
  <2>1. r.v \in Settings
    BY <1>1, <1>5 DEF Request
  <2>2. Effect(r) = [dm EXCEPT !.config = r.v]
    BY <1>5 DEF Effect
  <2> QED
    BY <2>1, <2>2 DEF DaemonType
<1>6. ASSUME NEW l \in Seq(Match), Effect(r) = [dm EXCEPT !.matches = l]
      PROVE  Effect(r) \in DaemonType /\ Effect(r).up = dm.up
  BY <1>6 DEF DaemonType
<1>7. CASE r.d = "MatchAdd"
  <2>1. r.v \in Match
    BY <1>1, <1>7 DEF Request
  <2>2. Effect(r) = [dm EXCEPT !.matches = Append(dm.matches, r.v)]
    BY <1>7 DEF Effect
  <2>3. Append(dm.matches, r.v) \in Seq(Match)
    BY <1>2, <2>1, AppendProperties
  <2> QED
    BY <1>6, <2>2, <2>3
<1>8. CASE r.d = "MatchDelete"
  <2>1. Contains(dm.matches, r.v)
    BY <1>8 DEF Acceptable
  <2>2. Effect(r) = [dm EXCEPT !.matches = RemoveAt(dm.matches, Position(r.v))]
    BY <1>8 DEF Effect
  <2>3. RemoveAt(dm.matches, Position(r.v)) \in Seq(Match)
    BY <1>2, <2>1, PositionFinds, RemoveAtEntries
  <2> QED
    BY <1>6, <2>2, <2>3
<1>9. CASE r.d = "MatchUpdate"
  <2>1. r.v \in Match \X Match
    BY <1>1, <1>9 DEF Request
  <2>2. Contains(dm.matches, r.v[1]) /\ r.v[2] \in Match
    BY <1>9, <2>1 DEF Acceptable
  <2>3. Effect(r) = [dm EXCEPT !.matches = ReplaceAt(dm.matches, Position(r.v[1]), r.v[2])]
    BY <1>9 DEF Effect
  <2>4. ReplaceAt(dm.matches, Position(r.v[1]), r.v[2]) \in Seq(Match)
    BY <1>2, <2>2, PositionFinds, CountAfterReplace
  <2> QED
    BY <1>6, <2>3, <2>4
<1> QED
  BY <1>1, <1>3, <1>4, <1>5, <1>7, <1>8, <1>9 DEF Request, WindowKinds

\* A property read.
LEMMA PropertyTyped ==
    ASSUME dm \in DaemonType, NEW p \in Props
    PROVE  Property(p) \in Message
<1>1. AttachedProp \in Attached
  BY DEF DaemonType, AttachedProp, Attached
<1>2. dm.matches \in Seq(Match) /\ dm.config \in Settings
  BY DEF DaemonType
<1>3. /\ Msg("Attached", AttachedProp) \in Message
      /\ Msg("Matches", dm.matches) \in Message
      /\ Msg("Settings", dm.config) \in Message
  BY <1>1, <1>2 DEF Msg, Message
<1> QED
  BY <1>3 DEF Property, Props

\* Signals reach the listener, or are noted as missed.
LEMMA EmitTyped ==
    ASSUME RestOK, NEW ps \in Seq(Props), Emit(ps)
    PROVE  signals' \in Seq(Props) /\ missed' \subseteq Props
<1>1. Unwatched \subseteq Props
  BY DEF Unwatched, Props
<1>2. signals \o ps \in Seq(Props)
  BY ConcatProperties DEF RestOK
<1> QED
  BY <1>1, <1>2 DEF RestOK, Emit

\* A method that is accepted.
LEMMA ApplyTyped ==
    ASSUME dm \in DaemonType, RestOK, NEW r, Plain(r), Acceptable(r), Apply(r)
    PROVE  /\ dm' \in DaemonType /\ dm'.up = dm.up
           /\ todo' \subseteq {"routes", "reload"} /\ UNCHANGED <<owner, lost, unrolled>>
           /\ signals' \in Seq(Props) /\ missed' \subseteq Props
<1>1. dm' \in DaemonType /\ dm'.up = dm.up
  BY EffectTyped DEF Apply
<1>2. todo' \subseteq {"routes", "reload"} /\ UNCHANGED <<owner, lost, unrolled>>
  BY DEF Apply
<1>3. PICK ps \in {<<"Settings">>, <<"Matches">>, << >>} : Emit(ps)
  BY DEF Apply
<1>4. <<"Settings">> \in Seq(Props) /\ <<"Matches">> \in Seq(Props) /\ << >> \in Seq(Props)
  BY DEF Props
<1> QED
  BY <1>1, <1>2, <1>3, <1>4, EmitTyped

\* The daemon's own steps and those of its clients.
LEMMA DaemonSteps ==
    ASSUME SystemInv, Daemon \/ Answer \/ World
    PROVE  SystemInv'
<1>1. /\ WindowInv /\ dm \in DaemonType /\ h \in TasksType
      /\ CallsOK(calls, h.request) /\ RestOK
  BY DEF SystemInv
<1>2. ASSUME Beside, dm' \in DaemonType, h' \in TasksType, CallsOK(calls', h'.request), RestOK'
      PROVE  SystemInv'
  BY <1>1, <1>2, BesideGood DEF SystemInv
<1>3. ASSUME UNCHANGED <<calls, h>>
      PROVE  h' \in TasksType /\ CallsOK(calls', h'.request)
  BY <1>1, <1>3
<1>4. ASSUME UNCHANGED guiVars PROVE Beside
  BY <1>4 DEF Beside
<1>5. ASSUME TickOther PROVE events' \in [uses : SUBSET Widgets, input : Nat, other : Nat]
  BY <1>1, <1>5 DEF TickOther, Tick, RestOK
<1>6. CASE WatchRoutes
  <2> DEFINE r == IF dm.to_dev = NoText THEN None ELSE dm.to_dev
  <2>1. r \in Devs \cup {None}
    BY <1>1 DEF DaemonType
  <2>2. dm' = [dm EXCEPT !.route = r]
    BY <1>6 DEF WatchRoutes
  <2> HIDE DEF r
  <2>3. dm' \in DaemonType
    BY <1>1, <2>1, <2>2 DEF DaemonType
  <2>4. RestOK'
    BY <1>1, <1>6 DEF WatchRoutes, RestOK, busVars, history
  <2> QED
    BY <1>2, <1>3, <1>4, <1>6, <2>3, <2>4 DEF WatchRoutes, busVars
<1>7. CASE WatchReload
  <2> DEFINE b == dm.route = None
  <2>1. dm' = [dm EXCEPT !.attached = TRUE, !.blocker = b] /\ b \in BOOLEAN
    BY <1>7 DEF WatchReload
  <2> HIDE DEF b
  <2>2. dm' \in DaemonType
    BY <1>1, <2>1 DEF DaemonType
  <2>3. <<"Attached">> \in Seq(Props)
    BY DEF Props
  <2>4. signals' \in Seq(Props) /\ missed' \subseteq Props
    BY <1>1, <1>7, <2>3, EmitTyped DEF WatchReload
  <2>5. RestOK'
    BY <1>1, <1>7, <2>4 DEF WatchReload, RestOK
  <2> QED
    BY <1>2, <1>3, <1>4, <1>7, <2>2, <2>5 DEF WatchReload
<1>8. ASSUME NEW i \in DOMAIN calls, Answered(i)
      PROVE  h' \in TasksType /\ CallsOK(calls', h'.request)
  <2>1. CallsOK(calls', IF calls[i].wanted THEN "idle" ELSE h.request)
    BY <1>1, <1>8, CallsAnswered DEF Answered
  <2>2. CASE calls[i].wanted
    <3>1. h' = [h EXCEPT !.request = "idle"]
      BY <1>8, <2>2 DEF Answered
    <3>2. h' \in TasksType /\ h'.request = "idle"
      BY <1>1, <3>1 DEF TasksType
    <3> QED
      BY <2>1, <2>2, <3>2
  <2>3. CASE ~calls[i].wanted
    BY <1>1, <1>8, <2>1, <2>3 DEF Answered
  <2> QED
    BY <2>2, <2>3
<1>9. CASE \E i \in DOMAIN calls : CallAccepted(i)
  <2>1. PICK i \in DOMAIN calls : CallAccepted(i)
    BY <1>9
  <2>2. Plain(calls[i].req)
    BY <1>1 DEF CallsOK
  <2>3. /\ dm' \in DaemonType
        /\ todo' \subseteq {"routes", "reload"} /\ UNCHANGED <<owner, lost, unrolled>>
        /\ signals' \in Seq(Props) /\ missed' \subseteq Props
    BY <1>1, <2>1, <2>2, ApplyTyped DEF CallAccepted
  <2>4. RestOK'
    BY <1>1, <2>1, <2>3 DEF RestOK, CallAccepted
  <2> QED
    BY <1>2, <1>4, <1>8, <2>1, <2>3, <2>4 DEF CallAccepted
<1>10. CASE \E i \in DOMAIN calls : CallRefused(i)
  <2>1. PICK i \in DOMAIN calls : CallRefused(i)
    BY <1>10
  <2>2. Msg("DbusErr", "refused") \in Message
    BY DEF Msg, Message, Errors
  <2>3. Beside
    BY <2>1, <2>2 DEF CallRefused, Beside, Sends
  <2>4. dm' \in DaemonType /\ RestOK'
    BY <1>1, <2>1 DEF CallRefused, RestOK, daemonVars, history
  <2> QED
    BY <1>2, <1>8, <2>1, <2>3, <2>4 DEF CallRefused
<1>11. CASE \E r \in Requests : OtherClient(r)
  <2>1. PICK r \in Requests : OtherClient(r)
    BY <1>11
  <2>2. Plain(r)
    BY HarnessAssumption DEF Plain, WindowKinds
  <2>3. /\ dm' \in DaemonType
        /\ todo' \subseteq {"routes", "reload"} /\ UNCHANGED <<owner, lost, unrolled>>
        /\ signals' \in Seq(Props) /\ missed' \subseteq Props
    BY <1>1, <2>1, <2>2, ApplyTyped DEF OtherClient
  <2>4. RestOK'
    BY <1>1, <1>5, <2>1, <2>3 DEF RestOK, OtherClient
  <2> QED
    BY <1>2, <1>3, <1>4, <2>1, <2>3, <2>4 DEF OtherClient
<1>12. CASE DaemonStop
  <2> DEFINE q == IF h.request # "calling" THEN h.request
                  ELSE IF \E i \in DOMAIN calls : calls[i].wanted /\ Infallible(calls[i].req)
                  THEN "idle" ELSE "failed"
  <2>1. q \in {"idle", "failed", "closing"}
    BY <1>1 DEF TasksType
  <2>2. h' = [h EXCEPT !.request = q]
    BY <1>12 DEF DaemonStop
  <2> HIDE DEF q
  <2>3. h' \in TasksType /\ h'.request = q
    BY <1>1, <2>1, <2>2 DEF TasksType
  <2>4. CallsOK(calls', h'.request)
    BY <1>12, <2>1, <2>3, CallsGone DEF DaemonStop
  <2>5. dm' \in DaemonType
    BY <1>1, <1>12 DEF DaemonStop, DaemonType
  <2>6. RestOK'
    BY <1>1, <1>5, <1>12 DEF DaemonStop, RestOK, history
  <2> QED
    BY <1>2, <1>4, <1>12, <2>3, <2>4, <2>5, <2>6 DEF DaemonStop
<1>13. CASE DaemonStart
  <2>1. dm' \in DaemonType
    BY <1>1, <1>13 DEF DaemonStart, DaemonType
  <2>2. RestOK'
    BY <1>1, <1>5, <1>13 DEF DaemonStart, RestOK, history
  <2> QED
    BY <1>2, <1>3, <1>4, <1>13, <2>1, <2>2 DEF DaemonStart
<1>14. CASE TrayActivate
  <2>1. Msg("WindowToggle", None) \in Message
    BY DEF Msg, Message
  <2>2. Beside
    BY <1>14, <2>1 DEF TrayActivate, Beside, Sends
  <2>3. dm' \in DaemonType /\ RestOK' /\ UNCHANGED <<calls, h>>
    BY <1>1, <1>5, <1>14 DEF TrayActivate, RestOK, daemonVars, busVars, history
  <2> QED
    BY <1>2, <1>3, <2>2, <2>3
<1>15. CASE \E id \in {"Enable", "Disable", "Quit"} : TrayMenu(id)
  <2>1. PICK id \in {"Enable", "Disable", "Quit"} : TrayMenu(id)
    BY <1>15
  <2>2. Msg("Exit", None) \in Message
    BY DEF Msg, Message
  <2>3. id # "Quit" => Plain(Req(id, None)) /\ Req(id, None) \in Request
    BY DEF Plain, Req, Request, WindowKinds
  <2>4. Beside
    BY <2>1, <2>2, <2>3 DEF TrayMenu, Beside, Sends, TrayAsks
  <2>5. dm' \in DaemonType /\ RestOK' /\ UNCHANGED <<calls, h>>
    BY <1>1, <1>5, <2>1 DEF TrayMenu, RestOK, daemonVars, busVars, history
  <2> QED
    BY <1>2, <1>3, <2>4, <2>5
<1>16. CASE PollStart
  <2>1. Msg("ActiveProcs", None) \in Message
    BY DEF Msg, Message
  <2>2. Beside
    BY <1>16, <2>1 DEF PollStart, Beside, Sends
  <2>3. h' \in TasksType /\ h'.request = h.request
    <3> DEFINE p == h.permits - 1
    <3>1. h' = [h EXCEPT !.permits = p, !.polling = TRUE]
      BY <1>16 DEF PollStart
    <3>2. p \in Nat
      BY <1>1, <1>16 DEF PollStart, TasksType
    <3> HIDE DEF p
    <3> QED
      BY <1>1, <3>1, <3>2 DEF TasksType
  <2>4. dm' \in DaemonType /\ RestOK' /\ UNCHANGED calls
    BY <1>1, <1>5, <1>16 DEF PollStart, RestOK, daemonVars, busVars, history
  <2> QED
    BY <1>1, <1>2, <2>2, <2>3, <2>4
<1> QED
  BY <1>6, <1>7, <1>9, <1>10, <1>11, <1>12, <1>13, <1>14, <1>15, <1>16 DEF Daemon, Answer, World

\* select! drops the tasks.
LEMMA DropTyped ==
    ASSUME SystemInv, DropTasks
    PROVE  /\ h' \in TasksType /\ CallsOK(calls', h'.request) /\ dm' \in DaemonType
           /\ owner' \in Nat => RestOK'
<1>1. dm \in DaemonType /\ h \in TasksType /\ CallsOK(calls, h.request) /\ RestOK
  BY DEF SystemInv
<1> DEFINE p == IF h.polling THEN h.permits + 1 ELSE h.permits
<1>2. p \in Nat
  BY <1>1 DEF TasksType
<1>3. h' = [h EXCEPT !.pc = "probe", !.props = "Attached", !.request = "idle",
                     !.permits = p, !.polling = FALSE]
  BY DEF DropTasks
<1> HIDE DEF p
<1>4. h' \in TasksType /\ h'.request = "idle"
  BY <1>1, <1>2, <1>3 DEF TasksType
<1>5. CallsOK(calls', h'.request)
  BY <1>1, <1>4, CallsDropped DEF DropTasks
<1>6. dm' \in DaemonType
  BY <1>1 DEF DropTasks, daemonVars
<1>7. ASSUME owner' \in Nat PROVE RestOK'
  <2>1. << >> \in Seq(Props)
    OBVIOUS
  <2>2. signals' \in Seq(Props) /\ missed' \subseteq Props
    BY <2>1 DEF DropTasks
  <2> QED
    BY <1>1, <1>7, <2>2 DEF DropTasks, RestOK, daemonVars
<1> QED
  BY <1>4, <1>5, <1>6, <1>7

\* dbus_service_harness.
LEMMA HarnessSteps ==
    ASSUME SystemInv, Harness
    PROVE  SystemInv'
<1>1. /\ WindowInv /\ dm \in DaemonType /\ h \in TasksType
      /\ CallsOK(calls, h.request) /\ RestOK
  BY DEF SystemInv
<1>2. ASSUME Beside, dm' \in DaemonType, h' \in TasksType, CallsOK(calls', h'.request), RestOK'
      PROVE  SystemInv'
  BY <1>1, <1>2, BesideGood DEF SystemInv
<1>3. ASSUME UNCHANGED <<daemonVars, busVars, history, events>>
      PROVE  dm' \in DaemonType /\ RestOK' /\ calls' = calls
  BY <1>1, <1>3 DEF RestOK, daemonVars, busVars, history
<1>4. CASE ProbeOk
  <2>1. Msg("DbusConnected", None) \in Message
    BY DEF Msg, Message
  <2>2. Beside
    BY <1>4, <2>1 DEF ProbeOk, Beside, Sends
  <2>3. h' \in TasksType /\ h'.request = h.request
    BY <1>1, <1>4 DEF ProbeOk, TasksType
  <2> QED
    BY <1>1, <1>2, <1>3, <1>4, <2>2, <2>3 DEF ProbeOk
<1>5. CASE ProbeFails
  <2>1. Msg("DbusCantConnect", "offline") \in Message
    BY DEF Msg, Message, Errors
  <2>2. Beside
    BY <1>5, <2>1 DEF ProbeFails, Beside, Sends
  <2>3. h' \in TasksType /\ h'.request = h.request
    BY <1>1, <1>5 DEF ProbeFails, TasksType
  <2> QED
    BY <1>1, <1>2, <1>3, <1>5, <2>2, <2>3 DEF ProbeFails
<1>6. CASE ProbeDrops
  <2> DEFINE p == PermitsAfter(Head(dq).d)
  <2>1. p \in Nat
    BY <1>1, <1>6 DEF ProbeDrops, PermitsAfter, TasksType
  <2>2. h' = [h EXCEPT !.permits = p]
    BY <1>6 DEF ProbeDrops
  <2> HIDE DEF p
  <2>3. h' \in TasksType /\ h'.request = h.request
    BY <1>1, <2>1, <2>2 DEF TasksType
  <2>4. Beside
    BY <1>6 DEF ProbeDrops, Beside
  <2> QED
    BY <1>1, <1>2, <1>3, <1>6, <2>3, <2>4 DEF ProbeDrops
<1>7. CASE OfflineWakes
  <2>1. h' \in TasksType /\ h'.request = h.request
    BY <1>1, <1>7 DEF OfflineWakes, TasksType
  <2>2. RestOK' /\ dm' \in DaemonType /\ Beside /\ calls' = calls
    BY <1>1, <1>7 DEF OfflineWakes, RestOK, daemonVars, history, Beside
  <2> QED
    BY <1>1, <1>2, <2>1, <2>2
<1>8. CASE OwnerChanged
  <2>1. owner' \in Nat
    BY <1>1, <1>8 DEF OwnerChanged, RestOK
  <2>2. Beside /\ DropTasks
    BY <1>8 DEF OwnerChanged, Beside
  <2> QED
    BY <1>2, <2>1, <2>2, DropTyped
<1>9. CASE ListenFails
  <2>1. owner' \in Nat
    BY <1>1, <1>9 DEF ListenFails, RestOK
  <2>2. Msg("DbusFail", "lost") \in Message
    BY DEF Msg, Message, Errors
  <2>3. Beside /\ DropTasks
    BY <1>9, <2>2 DEF ListenFails, Beside, Sends
  <2> QED
    BY <1>2, <2>1, <2>3, DropTyped
<1> QED
  BY <1>4, <1>5, <1>6, <1>7, <1>8, <1>9 DEF Harness

\* listen_props, listen_proc_names and process_requests.
LEMMA TaskSteps ==
    ASSUME SystemInv, Listen \/ Process \/ PollEnd
    PROVE  SystemInv'
<1>1. /\ WindowInv /\ dm \in DaemonType /\ h \in TasksType
      /\ CallsOK(calls, h.request) /\ RestOK
  BY DEF SystemInv
<1>2. ASSUME Beside, dm' \in DaemonType, h' \in TasksType, CallsOK(calls', h'.request), RestOK'
      PROVE  SystemInv'
  BY <1>1, <1>2, BesideGood DEF SystemInv
<1>3. ASSUME UNCHANGED <<daemonVars, busVars, history, events>>
      PROVE  dm' \in DaemonType /\ RestOK' /\ calls' = calls
  BY <1>1, <1>3 DEF RestOK, daemonVars, busVars, history
<1>4. CASE ReadProperty
  <2>1. h.props \in Props /\ NextProp[h.props] \in {"Matches", "Settings", "subscribe"}
    BY <1>4 DEF ReadProperty, NextProp, Props
  <2>2. Beside
    BY <1>1, <1>4, <2>1, PropertyTyped DEF ReadProperty, Beside, Sends
  <2>3. h' \in TasksType /\ h'.request = h.request
    <3> DEFINE p == NextProp[h.props]
    <3>1. h' = [h EXCEPT !.props = p]
      BY <1>4 DEF ReadProperty
    <3>2. p \in {"Matches", "Settings", "subscribe"}
      BY <2>1
    <3> HIDE DEF p
    <3> QED
      BY <1>1, <3>1, <3>2 DEF TasksType
  <2> QED
    BY <1>1, <1>2, <1>3, <1>4, <2>2, <2>3 DEF ReadProperty
<1>5. CASE Subscribe
  <2>1. h' \in TasksType /\ h'.request = h.request
    BY <1>1, <1>5 DEF Subscribe, TasksType
  <2>2. Beside
    BY <1>5 DEF Subscribe, Beside
  <2> QED
    BY <1>1, <1>2, <1>3, <1>5, <2>1, <2>2 DEF Subscribe
<1>6. CASE PropertyChanged
  <2>1. Head(signals) \in Props /\ Tail(signals) \in Seq(Props)
    BY <1>1, <1>6, HeadTailProperties DEF PropertyChanged, RestOK
  <2>2. Beside
    BY <1>1, <1>6, <2>1, PropertyTyped DEF PropertyChanged, Reread, Beside, Sends
  <2>3. dm' \in DaemonType /\ RestOK' /\ UNCHANGED <<calls, h>>
    BY <1>1, <1>6, <2>1 DEF PropertyChanged, Reread, RestOK, daemonVars
  <2> QED
    BY <1>1, <1>2, <2>2, <2>3
<1>7. CASE PollEnd
  <2> DEFINE p == h.permits + 1
  <2>1. h' = [h EXCEPT !.permits = p, !.polling = FALSE]
    BY <1>7 DEF PollEnd
  <2>2. p \in Nat
    BY <1>1 DEF TasksType
  <2> HIDE DEF p
  <2>3. h' \in TasksType /\ h'.request = h.request
    BY <1>1, <2>1, <2>2 DEF TasksType
  <2>4. Beside
    BY <1>7 DEF PollEnd, Beside
  <2> QED
    BY <1>1, <1>2, <1>3, <1>7, <2>3, <2>4 DEF PollEnd
<1>8. CASE CloseTakesPermit
  <2> DEFINE p == PermitsAfter("WindowClosed")
  <2>1. h' = [h EXCEPT !.permits = p, !.request = "idle"] /\ h.request = "closing"
    BY <1>8 DEF CloseTakesPermit
  <2>2. p \in Nat
    BY <1>1, <1>8 DEF CloseTakesPermit, PermitsAfter, TasksType
  <2> HIDE DEF p
  <2>3. h' \in TasksType /\ h'.request = "idle"
    BY <1>1, <2>1, <2>2 DEF TasksType
  <2>4. CallsOK(calls, "idle")
    BY <1>1, <2>1, CallsKept
  <2>5. Beside
    BY <1>8 DEF CloseTakesPermit, Beside
  <2> QED
    BY <1>2, <1>3, <1>8, <2>3, <2>4, <2>5 DEF CloseTakesPermit
<1>9. CASE RequestFailed
  <2>1. Msg("DbusErr", "lost") \in Message
    BY DEF Msg, Message, Errors
  <2>2. Beside
    BY <1>9, <2>1 DEF RequestFailed, Beside, Sends
  <2>3. h' \in TasksType /\ h'.request = "idle" /\ h.request = "failed"
    BY <1>1, <1>9 DEF RequestFailed, TasksType
  <2>4. CallsOK(calls, "idle")
    BY <1>1, <2>3, CallsKept
  <2> QED
    BY <1>2, <1>3, <1>9, <2>2, <2>3, <2>4 DEF RequestFailed
<1>10. CASE TakeRequest
  <2>1. h.request = "idle" /\ Beside /\ dm' \in DaemonType /\ RestOK'
    BY <1>1, <1>10 DEF TakeRequest, TakeWindowOpened, TakeWindowClosed, TakeCall,
                       Beside, RestOK, daemonVars, history
  <2>2. CASE TakeWindowOpened
    <3> DEFINE p == PermitsAfter("WindowOpened")
    <3>1. h' = [h EXCEPT !.permits = p] /\ calls' = calls
      BY <2>2 DEF TakeWindowOpened
    <3>2. p \in Nat
      BY <1>1 DEF PermitsAfter, TasksType
    <3> HIDE DEF p
    <3>3. h' \in TasksType /\ h'.request = h.request
      BY <1>1, <3>1, <3>2 DEF TasksType
    <3> QED
      BY <1>1, <1>2, <2>1, <3>1, <3>3
  <2>3. ASSUME NEW q \in {"idle", "failed", "closing"},
               h' = [h EXCEPT !.request = q], calls' = calls
        PROVE  SystemInv'
    <3>1. h' \in TasksType /\ h'.request = q
      BY <1>1, <2>3 DEF TasksType
    <3>2. CallsOK(calls', h'.request)
      BY <1>1, <2>1, <2>3, <3>1, CallsKept
    <3> QED
      BY <1>2, <2>1, <3>1, <3>2
  <2>4. CASE TakeWindowClosed
    BY <2>3, <2>4 DEF TakeWindowClosed
  <2>5. CASE TakeCall
    <3>1. CASE dm.up
      <4>1. /\ h' = [h EXCEPT !.request = "calling"]
            /\ calls' = Append(calls, [req |-> Head(dq), wanted |-> TRUE])
        BY <2>5, <3>1 DEF TakeCall
      <4>2. Head(dq) \in Request
        BY <1>1, <2>5, HeadTailProperties DEF TakeCall, Receive, WindowInv, ChannelsOK
      <4>3. Plain(Head(dq))
        BY <2>5, <4>2 DEF TakeCall, Plain, WindowKinds
      <4>4. CallsOK(calls', "calling")
        BY <1>1, <2>1, <4>1, <4>3, CallsAppended
      <4>5. h' \in TasksType /\ h'.request = "calling"
        BY <1>1, <4>1 DEF TasksType
      <4> QED
        BY <1>2, <2>1, <4>4, <4>5
    <3>2. CASE ~dm.up
      <4>1. PICK q \in {"idle", "failed"} : h' = [h EXCEPT !.request = q] /\ calls' = calls
        BY <2>5, <3>2 DEF TakeCall
      <4> QED
        BY <2>3, <4>1
    <3> QED
      BY <3>1, <3>2
  <2> QED
    BY <1>10, <2>2, <2>4, <2>5 DEF TakeRequest
<1> QED
  BY <1>4, <1>5, <1>6, <1>7, <1>8, <1>9, <1>10 DEF Listen, Process

\* update() leaves the tasks and the daemon alone.
LEMMA UpdateSteps ==
    ASSUME SystemInv, HandleQueued \/ \E w \in Widgets : UserInput(w)
    PROVE  SystemInv' /\ GuiStep
<1>1. /\ WindowInv /\ dm \in DaemonType /\ h \in TasksType
      /\ CallsOK(calls, h.request) /\ RestOK
  BY DEF SystemInv
<1>2. /\ GuiStep /\ Remember /\ UNCHANGED <<daemonVars, busVars, h, missed, lost>>
      /\ events' \in [uses : SUBSET Widgets, input : Nat, other : Nat]
  <2>1. CASE HandleQueued
    BY <1>1, <2>1 DEF HandleQueued, GuiStep, RestOK
  <2>2. CASE \E w \in Widgets : UserInput(w)
    <3>1. PICK w \in Widgets : UserInput(w)
      BY <2>2
    <3>2. GuiStep /\ Remember /\ UNCHANGED <<daemonVars, busVars, h, missed, lost>>
      BY <3>1 DEF UserInput, GuiStep
    <3> DEFINE u == events.uses \cup {w}
               k == events.input + 1
    <3>3. events' = [events EXCEPT !.uses = u, !.input = k]
      BY <3>1 DEF UserInput, Tick
    <3>4. u \in SUBSET Widgets /\ k \in Nat
      BY <1>1 DEF RestOK
    <3> HIDE DEF u, k
    <3>5. events' \in [uses : SUBSET Widgets, input : Nat, other : Nat]
      BY <1>1, <3>3, <3>4 DEF RestOK
    <3> QED
      BY <3>2, <3>5
  <2> QED
    BY <2>1, <2>2
<1>3. unrolled' \in BOOLEAN
  BY <1>1, <1>2, Zenon DEF Remember, RestOK
<1>4. WindowInv'
  BY <1>1, <1>2, GuiStepGood
<1>5. RestOK' /\ dm' \in DaemonType /\ UNCHANGED <<calls, h>>
  BY <1>1, <1>2, <1>3 DEF RestOK, daemonVars, busVars
<1> QED
  BY <1>1, <1>2, <1>4, <1>5 DEF SystemInv

-----------------------------------------------------------------------------
\* The steps of the composed system.
LEMMA NextCases ==
    ASSUME [Next]_vars
    PROVE  \/ HandleQueued \/ \E w \in Widgets : UserInput(w)
           \/ Daemon \/ Answer \/ World \/ Harness \/ Listen \/ Process \/ PollEnd
           \/ UNCHANGED vars
BY DEF Next, Work, Background

\* The messages that main() and background() start with.
LEMMA StartTyped ==
    ASSUME Init
    PROVE  mq \in Seq(Message)
<1>1. /\ Msg("TrayUp", None) \in Message /\ Msg("WindowOpen", None) \in Message
      /\ Msg("DbusFail", "lost") \in Message
  BY DEF Msg, Message, Errors
<1> DEFINE t == IF open.t THEN <<Msg("TrayUp", None)>> ELSE << >>
           d == IF open.d THEN << >> ELSE <<Msg("DbusFail", "lost")>>
<1>2. /\ t \in Seq(Message) /\ d \in Seq(Message)
      /\ << >> \in Seq(Message) /\ <<Msg("WindowOpen", None)>> \in Seq(Message)
  <2> DEFINE m1 == Msg("TrayUp", None)
             m2 == Msg("WindowOpen", None)
             m3 == Msg("DbusFail", "lost")
  <2>1. m1 \in Message /\ m2 \in Message /\ m3 \in Message
    BY <1>1
  <2> HIDE DEF m1, m2, m3
  <2>2. <<m1>> \in Seq(Message) /\ <<m2>> \in Seq(Message) /\ <<m3>> \in Seq(Message)
    BY <2>1
  <2>3. << >> \in Seq(Message)
    OBVIOUS
  <2> QED
    BY <2>2, <2>3 DEF m1, m2, m3
<1> HIDE DEF t, d
<1>3. \E window \in {<< >>, <<Msg("WindowOpen", None)>>} : mq = (window \o t) \o d
  BY DEF Init, t, d
<1>4. PICK window \in Seq(Message) : mq = (window \o t) \o d
  BY <1>2, <1>3
<1>5. window \o t \in Seq(Message)
  BY <1>2, ConcatProperties
<1> QED
  BY <1>2, <1>4, <1>5, ConcatProperties

\* The system starts well.
LEMMA SystemInit ==
    ASSUME Init
    PROVE  SystemInv
<1>1. DefaultSettings \in Settings /\ DefaultAttached \in Attached
  BY GuiAssumption DEF DefaultSettings, DefaultAttached, Settings, Attached
<1>2. IsState(DefaultState)
  BY <1>1, GuiAssumption DEF IsState, DefaultState
<1>3. ListOf(DefaultState) /\ OldestOf(DefaultState)
  BY DEF ListOf, OldestOf, DefaultState
<1>4. Good(s, click)
  BY <1>2, <1>3 DEF Init, Good, Names
<1>5. dq = << >> /\ << >> \in Seq(Request)
  BY DEF Init
<1>6. WindowInv
  BY <1>4, <1>5, StartTyped DEF Init, WindowInv, ChannelsOK
<1>7. dm \in DaemonType
  BY GuiAssumption, HarnessAssumption DEF Init, DaemonType
<1>8. h \in TasksType /\ h.request = "idle"
  <2> DEFINE q == IF open.d THEN "probe" ELSE "ended"
  <2>1. q \in {"probe", "ended"}
    OBVIOUS
  <2>2. h = [pc |-> q, err_sent |-> FALSE, props |-> "Attached",
             request |-> "idle", permits |-> 0, polling |-> FALSE]
    BY DEF Init
  <2> HIDE DEF q
  <2> QED
    BY <2>1, <2>2 DEF TasksType
<1>9. CallsOK(calls, h.request)
  BY <1>8, CallsGone DEF Init
<1>10. RestOK
  <2>1. signals = << >> /\ << >> \in Seq(Props)
    BY DEF Init
  <2> QED
    BY <2>1 DEF Init, RestOK
<1> QED
  BY <1>6, <1>7, <1>8, <1>9, <1>10 DEF SystemInv

\* The invariant of the composed system: types alone are not inductive.  An
\* index that a click carries is in range only because the click names an
\* entry, and a call is answered to process_requests only because at most
\* one is wanted.
LEMMA SystemInvariant == Spec => []SystemInv
<1>1. Init => SystemInv
  BY SystemInit
<1>2. SystemInv /\ [Next]_vars => SystemInv'
  <2> SUFFICES ASSUME SystemInv, [Next]_vars PROVE SystemInv'
    OBVIOUS
  <2>1. CASE UNCHANGED vars
    BY <2>1 DEF vars, guiVars, daemonVars, busVars, history, SystemInv, WindowInv, ChannelsOK,
                RestOK
  <2> QED
    BY <2>1, NextCases, UpdateSteps, DaemonSteps, HarnessSteps, TaskSteps
<1> QED
  BY <1>1, <1>2, PTL DEF Spec

\* Every variable keeps its type: no message is of a kind that update() does
\* not know, no index leaves the list it was read from, no permit is taken
\* that is not there, and process_requests waits for exactly one call.
THEOREM TypeCorrect == Spec => []TypeOK
<1>1. SystemInv => TypeOK
  BY DEF SystemInv, WindowInv, Good, Names, ChannelsOK, RestOK, CallsOK, TypeOK, GuiTypeOK,
         DaemonType, TasksType, CallType, Props
<1> QED
  BY <1>1, SystemInvariant, PTL

\* A delete, an edit or a submit that update() does not ignore hits the entry
\* the user clicked on, however many reports came between.
THEOREM ClickAlwaysNamesEntry == Spec => []ClickNamesEntry
<1>1. SystemInv => ClickNamesEntry
  BY DEF SystemInv, WindowInv, Good, Names, ClickNamesEntry, Current
<1> QED
  BY <1>1, SystemInvariant, PTL

\* view() never unwraps a list of processes that is not there.
THEOREM PopupAlwaysHasList == Spec => []PopupHasList
<1>1. SystemInv => PopupHasList
  BY DEF SystemInv, WindowInv, Good, ListOf, PopupHasList
<1> QED
  BY <1>1, SystemInvariant, PTL

\* The error shown is the oldest that has not been dismissed, and one is
\* shown as long as there is any.
THEOREM ModalAlwaysShowsOldest == Spec => []ModalShowsOldest
<1>1. SystemInv => ModalShowsOldest
  BY DEF SystemInv, WindowInv, Good, OldestOf, ModalShowsOldest
<1> QED
  BY <1>1, SystemInvariant, PTL

-----------------------------------------------------------------------------
(* The stream of owner changes *)

\* The harness never waits for a daemon that is there: each start puts an
\* owner change into a stream that is older than the probe.
THEOREM StartNeverMissed == Spec => []NoMissedStart
<1>1. Init => NoMissedStart
  <2>1. ASSUME Init PROVE h.pc # "offline"
    BY <2>1 DEF Init
  <2> QED
    BY <2>1 DEF NoMissedStart
<1>2. SystemInv /\ NoMissedStart /\ [Next]_vars => NoMissedStart'
  <2> SUFFICES ASSUME SystemInv, NoMissedStart, [Next]_vars PROVE NoMissedStart'
    OBVIOUS
  <2>1. /\ WindowInv /\ dm \in DaemonType /\ h \in TasksType
        /\ CallsOK(calls, h.request) /\ RestOK /\ owner \in Nat
    BY DEF SystemInv, RestOK
  <2>2. ASSUME h'.pc = h.pc, dm'.up = dm.up, owner' = owner
        PROVE  NoMissedStart'
    BY <2>2 DEF NoMissedStart
  <2>3. ASSUME UNCHANGED <<daemonVars, busVars>>, h'.pc = h.pc
        PROVE  NoMissedStart'
    BY <2>2, <2>3 DEF daemonVars, busVars
  <2>4. CASE UNCHANGED vars
    BY <2>4 DEF vars, daemonVars, busVars, NoMissedStart
  <2>5. CASE HandleQueued \/ \E w \in Widgets : UserInput(w)
    BY <2>3, <2>5 DEF HandleQueued, UserInput
  <2>6. CASE Daemon
    <3>1. dm'.up = dm.up
      BY <2>1, <2>6 DEF Daemon, WatchRoutes, WatchReload, DaemonType
    <3> QED
      BY <2>2, <2>6, <3>1 DEF Daemon, WatchRoutes, WatchReload, busVars
  <2>7. ASSUME NEW i \in DOMAIN calls, Answered(i) PROVE h'.pc = h.pc
    BY <2>1, <2>7 DEF Answered, TasksType
  <2>8. CASE Answer
    <3>1. PICK i \in DOMAIN calls : CallAccepted(i) \/ CallRefused(i)
      BY <2>8 DEF Answer
    <3>2. h'.pc = h.pc
      BY <2>7, <3>1 DEF CallAccepted, CallRefused
    <3>3. Plain(calls[i].req)
      BY <2>1 DEF CallsOK
    <3>4. dm'.up = dm.up /\ owner' = owner
      BY <2>1, <3>1, <3>3, ApplyTyped DEF CallAccepted, CallRefused, daemonVars
    <3> QED
      BY <2>2, <3>2, <3>4
  <2>9. CASE \E r \in Requests : OtherClient(r)
    <3>1. PICK r \in Requests : OtherClient(r)
      BY <2>9
    <3>2. Plain(r)
      BY HarnessAssumption DEF Plain, WindowKinds
    <3>3. dm'.up = dm.up /\ owner' = owner
      BY <2>1, <3>1, <3>2, ApplyTyped DEF OtherClient
    <3> QED
      BY <2>2, <3>1, <3>3 DEF OtherClient
  <2>10. CASE DaemonStop
    <3>1. dm'.up = FALSE
      BY <2>1, <2>10 DEF DaemonStop, DaemonType
    <3> QED
      BY <3>1 DEF NoMissedStart
  <2>11. CASE DaemonStart
    BY <2>1, <2>11 DEF DaemonStart, NoMissedStart
  <2>12. CASE World /\ ~DaemonStop /\ ~DaemonStart /\ ~\E r \in Requests : OtherClient(r)
    <3>1. UNCHANGED <<daemonVars, busVars>>
      BY <2>12 DEF World, TrayActivate, TrayMenu, PollStart
    <3>2. h'.pc = h.pc
      BY <2>1, <2>12 DEF World, TrayActivate, TrayMenu, PollStart, TasksType
    <3> QED
      BY <2>3, <3>1, <3>2
  <2>13. CASE ProbeFails
    BY <2>13 DEF ProbeFails, NoMissedStart, daemonVars
  <2>14. CASE ProbeOk \/ OfflineWakes \/ OwnerChanged \/ ListenFails
    <3>1. h'.pc \in {"online", "probe"}
      BY <2>1, <2>14 DEF ProbeOk, OfflineWakes, OwnerChanged, ListenFails, DropTasks, TasksType
    <3> QED
      BY <3>1 DEF NoMissedStart
  <2>15. CASE ProbeDrops
    <3>1. h'.pc = h.pc
      BY <2>1, <2>15 DEF ProbeDrops, TasksType
    <3> QED
      BY <2>3, <2>15, <3>1 DEF ProbeDrops
  <2>16. CASE Listen \/ PollEnd
    <3>1. h'.pc = h.pc
      BY <2>1, <2>16 DEF Listen, ReadProperty, Subscribe, PropertyChanged, Reread, PollEnd, TasksType
    <3> QED
      BY <2>2, <2>16, <3>1 DEF Listen, ReadProperty, Subscribe, PropertyChanged, Reread, PollEnd,
                               daemonVars, busVars
  <2>17. CASE Process
    <3>1. h'.pc = h.pc
      BY <2>1, <2>17 DEF Process, TakeRequest, TakeWindowOpened, TakeWindowClosed, TakeCall,
                         CloseTakesPermit, RequestFailed, TasksType
    <3> QED
      BY <2>2, <2>17, <3>1 DEF Process, TakeRequest, CloseTakesPermit, RequestFailed,
                               daemonVars, busVars
  <2> QED
    BY <2>4, <2>5, <2>6, <2>8, <2>9, <2>10, <2>11, <2>12, <2>13, <2>14, <2>15, <2>16, <2>17,
       NextCases DEF Harness
<1> QED
  BY <1>1, <1>2, SystemInvariant, PTL DEF Spec

-----------------------------------------------------------------------------
(* The permits of process_requests_sema *)

Asks(d) == {r \in Request : r.d = d}
Width(n) == IF n.window THEN 1 ELSE 0

\* The permits there must be once the requests up to position k of the queue
\* q have been handled, the window being as w says when all have been.
Due(q, k, w) == After(q, k, Asks("WindowClosed")) + w - After(q, k, Asks("WindowOpened"))

\* Requests to open and to close alternate and end in the window as it is.
Alternates(q, w) ==
    \A k \in 1..Len(q) :
        /\ q[k].d = "WindowClosed" => Due(q, k, w) = 0
        /\ q[k].d = "WindowOpened" => Due(q, k, w) = 1

\* The permits there are, less the one that a close waits for and those that
\* were never taken back.
There(t, l) ==
    t.permits + (IF t.polling THEN 1 ELSE 0) - (IF t.request = "closing" THEN 1 ELSE 0) - l

Tasked(t) == t.polling \/ t.request # "idle" => t.pc = "online"

PermitInv ==
    /\ Tasked(h)
    /\ There(h, lost) = Due(dq, 0, Width(s))
    /\ h.request = "closing" => Due(dq, 0, Width(s)) = 0
    /\ Alternates(dq, Width(s))

\* One for a request of this kind.
One(r, d) == IF r.d = d THEN 1 ELSE 0

\* What is due is a number, and moves with the window.
LEMMA DueType ==
    ASSUME NEW q \in Seq(Request), NEW k \in Nat, NEW v \in {0, 1}, NEW w \in {0, 1}
    PROVE  /\ After(q, k, Asks("WindowClosed")) \in Nat /\ After(q, k, Asks("WindowOpened")) \in Nat
           /\ Due(q, k, v) \in Int /\ Due(q, k, w) = Due(q, k, v) + w - v
<1>1. \A P : After(q, k, P) \in Nat
  BY AfterType
<1> DEFINE c == After(q, k, Asks("WindowClosed"))
           o == After(q, k, Asks("WindowOpened"))
<1>2. c \in Nat /\ o \in Nat /\ Due(q, k, w) = c + w - o /\ Due(q, k, v) = c + v - o
  BY <1>1 DEF Due
<1> HIDE DEF c, o
<1>3. Due(q, k, v) \in Int /\ Due(q, k, w) = Due(q, k, v) + w - v
  BY <1>2
<1> QED
  BY <1>2, <1>3 DEF c, o

\* A request is put into the queue.
LEMMA DueAppended ==
    ASSUME NEW q \in Seq(Request), NEW r \in Request, NEW k \in 0..Len(q), NEW w \in {0, 1}
    PROVE  Due(Append(q, r), k, w) = Due(q, k, w) + One(r, "WindowClosed") - One(r, "WindowOpened")
<1> DEFINE c == After(q, k, Asks("WindowClosed"))
           o == After(q, k, Asks("WindowOpened"))
           x == One(r, "WindowClosed")
           y == One(r, "WindowOpened")
<1>1. k \in Nat
  BY LenProperties
<1>2. c \in Nat /\ o \in Nat
  BY <1>1, DueType
<1>3. /\ After(Append(q, r), k, Asks("WindowClosed")) = c + In(r, Asks("WindowClosed"))
      /\ After(Append(q, r), k, Asks("WindowOpened")) = o + In(r, Asks("WindowOpened"))
  BY AfterAppend
<1>4. In(r, Asks("WindowClosed")) = x /\ In(r, Asks("WindowOpened")) = y
  BY DEF In, Asks, One
<1>5. x \in {0, 1} /\ y \in {0, 1}
  BY DEF One
<1>6. Due(q, k, w) = c + w - o /\ Due(Append(q, r), k, w) = (c + x) + w - (o + y)
  BY <1>3, <1>4 DEF Due
<1> HIDE DEF c, o, x, y
<1>7. Due(Append(q, r), k, w) = Due(q, k, w) + x - y
  BY <1>2, <1>5, <1>6
<1> QED
  BY <1>7 DEF x, y

\* A queue that gets a request at its end: what is due behind every request
\* changes with the window.
LEMMA AlternatesAppended ==
    ASSUME NEW q \in Seq(Request), NEW r \in Request, NEW v \in {0, 1}, NEW w \in {0, 1},
           Alternates(q, v),
           \/ r.d \notin WindowKinds /\ w = v
           \/ r.d = "WindowOpened" /\ v = 0 /\ w = 1
           \/ r.d = "WindowClosed" /\ v = 1 /\ w = 0
    PROVE  Alternates(Append(q, r), w) /\ Due(Append(q, r), 0, w) = Due(q, 0, v)
<1> DEFINE new == Append(q, r)
           n == Len(q)
<1>1. /\ n \in Nat /\ new \in Seq(Request) /\ Len(new) = n + 1 /\ new[n + 1] = r
      /\ \A k \in 1..n : new[k] = q[k]
  BY AppendProperties, LenProperties
<1>2. ASSUME NEW k \in 0..n
      PROVE  Due(new, k, w) = Due(q, k, v)
  <2>1. Due(new, k, w) = Due(q, k, w) + One(r, "WindowClosed") - One(r, "WindowOpened")
    BY DueAppended
  <2>2. Due(q, k, w) = Due(q, k, v) + w - v /\ Due(q, k, v) \in Int
    BY <1>1, DueType
  <2> QED
    BY <2>1, <2>2 DEF WindowKinds, One
<1>3. Due(new, n + 1, w) = w
  <2>1. /\ After(new, n + 1, Asks("WindowClosed")) = 0
        /\ After(new, n + 1, Asks("WindowOpened")) = 0
    BY <1>1, AfterType
  <2> QED
    BY <2>1 DEF Due
<1>4. \A k \in 1..(n + 1) : k = n + 1 \/ k \in 1..n
  BY <1>1
<1>5. \A k \in 1..n : k \in 0..n
  BY <1>1
<1>6. 0 \in 0..n
  BY <1>1
<1> HIDE DEF new, n
<1>7. ASSUME NEW k \in 1..(n + 1)
      PROVE  /\ new[k].d = "WindowClosed" => Due(new, k, w) = 0
             /\ new[k].d = "WindowOpened" => Due(new, k, w) = 1
  <2>1. CASE k = n + 1
    BY <1>1, <1>3, <2>1 DEF WindowKinds
  <2>2. CASE k \in 1..n
    BY <1>1, <1>2, <1>5, <2>2 DEF Alternates, n
  <2> QED
    BY <1>4, <2>1, <2>2
<1>8. Alternates(new, w)
  BY <1>1, <1>7 DEF Alternates
<1> QED
  BY <1>2, <1>6, <1>8 DEF new

\* The first request of a queue is taken.
LEMMA AlternatesTaken ==
    ASSUME NEW q \in Seq(Request), q # << >>, NEW w \in {0, 1}, Alternates(q, w)
    PROVE  /\ Alternates(Tail(q), w) /\ Due(q, 0, w) \in Int /\ Due(Tail(q), 0, w) \in Int
           /\ Due(q, 0, w) = Due(Tail(q), 0, w) + One(Head(q), "WindowClosed")
                                                - One(Head(q), "WindowOpened")
           /\ Head(q).d = "WindowClosed" => Due(Tail(q), 0, w) = 0
<1> DEFINE new == Tail(q)
           n == Len(q)
<1>1. /\ new \in Seq(Request) /\ Len(new) = n - 1 /\ n > 0 /\ n \in Nat
      /\ \A k \in 1..(n - 1) : new[k] = q[k + 1]
  BY AfterTail, LenProperties
<1>2. Head(q) = q[1] /\ Head(q) \in Request
  BY HeadTailProperties
<1>3. ASSUME NEW k \in 0..(n - 1)
      PROVE  Due(new, k, w) = Due(q, k + 1, w)
  <2>1. \A P : After(new, k, P) = After(q, k + 1, P)
    BY AfterTail
  <2> QED
    BY <2>1 DEF Due
<1>4. 1 \in 1..n /\ 0 \in 0..(n - 1)
  BY <1>1
<1>5. Due(new, 0, w) = Due(q, 1, w)
  <2>1. Due(new, 0, w) = Due(q, 0 + 1, w)
    BY <1>3, <1>4
  <2> QED
    BY <2>1
<1>6. ASSUME NEW k \in 1..(n - 1)
      PROVE  k + 1 \in 1..n /\ k \in 0..(n - 1)
  BY <1>1
<1> HIDE DEF new
<1>7. Alternates(new, w)
  BY <1>1, <1>3, <1>6 DEF Alternates, n
<1> DEFINE c0 == After(q, 0, Asks("WindowClosed"))
           o0 == After(q, 0, Asks("WindowOpened"))
           c1 == After(q, 1, Asks("WindowClosed"))
           o1 == After(q, 1, Asks("WindowOpened"))
           x == One(Head(q), "WindowClosed")
           y == One(Head(q), "WindowOpened")
<1>8. c0 \in Nat /\ o0 \in Nat /\ c1 \in Nat /\ o1 \in Nat
  BY AfterType
<1>9. /\ c0 = c1 + In(Head(q), Asks("WindowClosed"))
      /\ o0 = o1 + In(Head(q), Asks("WindowOpened"))
  BY AfterTail
<1>10. In(Head(q), Asks("WindowClosed")) = x /\ In(Head(q), Asks("WindowOpened")) = y
  BY <1>2 DEF In, Asks, One
<1>11. /\ Due(q, 0, w) = c0 + w - o0 /\ Due(q, 1, w) = c1 + w - o1
       /\ x \in {0, 1} /\ y \in {0, 1}
  BY DEF Due, One
<1> HIDE DEF c0, o0, c1, o1, x, y
<1>12. /\ Due(q, 0, w) \in Int /\ Due(q, 1, w) \in Int
       /\ Due(q, 0, w) = Due(q, 1, w) + x - y
  <2>1. c0 = c1 + x /\ o0 = o1 + y
    BY <1>9, <1>10
  <2>2. Due(q, 0, w) = (c1 + x) + w - (o1 + y) /\ Due(q, 1, w) = c1 + w - o1
    BY <1>11, <2>1
  <2>3. x \in Nat /\ y \in Nat /\ w \in Nat
    BY <1>11
  <2> QED
    BY <1>8, <2>2, <2>3
<1>13. Head(q).d = "WindowClosed" => Due(q, 1, w) = 0
  BY <1>2, <1>4 DEF Alternates, n
<1> QED
  BY <1>5, <1>7, <1>12, <1>13 DEF new, x, y

\* A step of update(), or of a task that takes no request and leaves the
\* number of permits as it is.
LEMMA PermitsKept ==
    ASSUME SystemInv, PermitInv, Stays \/ Opens \/ Closes, s'.window \in BOOLEAN,
           Tasked(h'), There(h', lost') = There(h, lost),
           h'.request = "closing" => h.request = "closing"
    PROVE  PermitInv'
<1> DEFINE v == Width(s)
           w == Width(s')
<1>1. dq \in Seq(Request) /\ s.window \in BOOLEAN
  BY DEF SystemInv, WindowInv, ChannelsOK, Good, IsState
<1>2. v \in {0, 1} /\ w \in {0, 1}
  BY DEF Width
<1>3. Alternates(dq, v) /\ There(h, lost) = Due(dq, 0, v)
  BY DEF PermitInv
<1>4. Alternates(dq', w) /\ Due(dq', 0, w) = Due(dq, 0, v)
  <2>1. CASE Stays
    <3>1. w = v
      BY <2>1 DEF Stays, Width
    <3>2. CASE dq' = dq
      BY <1>3, <3>1, <3>2
    <3>3. CASE \E r \in Request : Plain(r) /\ dq' = Append(dq, r)
      <4>1. PICK r \in Request : Plain(r) /\ dq' = Append(dq, r)
        BY <3>3
      <4>2. r.d \notin WindowKinds
        BY <4>1 DEF Plain
      <4> HIDE DEF v, w
      <4> QED
        BY <1>1, <1>2, <1>3, <3>1, <4>1, <4>2, AlternatesAppended
    <3> QED
      BY <2>1, <3>2, <3>3 DEF Stays
  <2>2. CASE Opens
    <3> DEFINE r == Req("WindowOpened", None)
    <3>1. v = 0 /\ w = 1 /\ dq' = Append(dq, r)
      BY <2>2 DEF Opens, Width
    <3>2. r \in Request /\ r.d = "WindowOpened"
      BY DEF Req, Request
    <3> HIDE DEF v, w, r
    <3> QED
      BY <1>1, <1>2, <1>3, <3>1, <3>2, AlternatesAppended
  <2>3. CASE Closes
    <3> DEFINE r == Req("WindowClosed", None)
    <3>1. v = 1 /\ w = 0 /\ dq' = Append(dq, r)
      BY <2>3 DEF Closes, Width
    <3>2. r \in Request /\ r.d = "WindowClosed"
      BY DEF Req, Request
    <3> HIDE DEF v, w, r
    <3> QED
      BY <1>1, <1>2, <1>3, <3>1, <3>2, AlternatesAppended
  <2> QED
    BY <2>1, <2>2, <2>3
<1> QED
  BY <1>3, <1>4 DEF PermitInv

\* A request is taken: one about the window moves a permit.
LEMMA PermitsTaken ==
    ASSUME SystemInv, PermitInv, Receive, Tasked(h'),
           There(h', lost') = There(h, lost) + One(Head(dq), "WindowOpened")
                                             - One(Head(dq), "WindowClosed"),
           h'.request = "closing" => Head(dq).d = "WindowClosed"
    PROVE  PermitInv'
<1> DEFINE w == Width(s)
           x == One(Head(dq), "WindowClosed")
           y == One(Head(dq), "WindowOpened")
<1>1. dq \in Seq(Request) /\ dq # << >> /\ dq' = Tail(dq) /\ s' = s
  BY DEF SystemInv, WindowInv, ChannelsOK, Receive
<1>2. w \in {0, 1} /\ Width(s') = w
  BY <1>1 DEF Width
<1>3. Alternates(dq, w) /\ There(h, lost) = Due(dq, 0, w)
  BY DEF PermitInv
<1> HIDE DEF w
<1>4. /\ Alternates(dq', w) /\ Due(dq, 0, w) \in Int /\ Due(dq', 0, w) \in Int
      /\ Due(dq, 0, w) = Due(dq', 0, w) + x - y
      /\ Head(dq).d = "WindowClosed" => Due(dq', 0, w) = 0
  BY <1>1, <1>2, <1>3, AlternatesTaken
<1>5. x \in Nat /\ y \in Nat
  BY DEF One
<1> HIDE DEF x, y
<1>6. There(h', lost') = There(h, lost) + y - x
  BY DEF x, y
<1>7. There(h', lost') = Due(dq', 0, w)
  BY <1>3, <1>4, <1>5, <1>6
<1>8. Alternates(dq', Width(s')) /\ There(h', lost') = Due(dq', 0, Width(s'))
  BY <1>2, <1>4, <1>7
<1>9. h'.request = "closing" => Due(dq', 0, Width(s')) = 0
  BY <1>2, <1>4
<1> QED
  BY <1>8, <1>9 DEF PermitInv

\* A step beside the window that takes no request.
LEMMA PermitsBeside ==
    ASSUME SystemInv, PermitInv, UNCHANGED guiVars \/ Sends \/ TrayAsks,
           Tasked(h'), There(h', lost') = There(h, lost),
           h'.request = "closing" => h.request = "closing"
    PROVE  PermitInv'
<1>1. Stays
  BY DEF guiVars, Sends, Send, TrayAsks, Stays
<1>2. s' = s
  BY DEF guiVars, Sends, Send, TrayAsks
<1>3. s'.window \in BOOLEAN
  BY <1>2 DEF SystemInv, WindowInv, Good, IsState
<1> QED
  BY <1>1, <1>3, PermitsKept

\* The daemon and its other clients hold no permits.
LEMMA PermitsOfDaemon ==
    ASSUME SystemInv, PermitInv, Daemon \/ Answer \/ World
    PROVE  PermitInv'
<1>1. h \in TasksType /\ lost \in Nat /\ Tasked(h)
  BY DEF SystemInv, RestOK, PermitInv
<1>2. ASSUME UNCHANGED <<h, lost>>, UNCHANGED guiVars \/ Sends \/ TrayAsks
      PROVE  PermitInv'
  BY <1>1, <1>2, PermitsBeside
<1>3. CASE Daemon
  BY <1>2, <1>3 DEF Daemon, WatchRoutes, WatchReload, history
<1>4. CASE \E r \in Requests : OtherClient(r)
  BY <1>2, <1>4 DEF OtherClient, Apply
<1>5. CASE DaemonStart
  BY <1>2, <1>5 DEF DaemonStart, history
<1>6. CASE TrayActivate
  <2>1. Msg("WindowToggle", None) \in Message
    BY DEF Msg, Message
  <2> QED
    BY <1>2, <1>6, <2>1 DEF TrayActivate, Sends, history
<1>7. CASE \E id \in {"Enable", "Disable", "Quit"} : TrayMenu(id)
  <2>1. PICK id \in {"Enable", "Disable", "Quit"} : TrayMenu(id)
    BY <1>7
  <2>2. Msg("Exit", None) \in Message
    BY DEF Msg, Message
  <2>3. id # "Quit" => Plain(Req(id, None)) /\ Req(id, None) \in Request
    BY DEF Plain, Req, Request, WindowKinds
  <2> QED
    BY <1>2, <2>1, <2>2, <2>3 DEF TrayMenu, Sends, TrayAsks, history
<1>8. ASSUME NEW q \in {"idle", "failed"}, h.request = "calling", h' = [h EXCEPT !.request = q],
             lost' = lost, UNCHANGED guiVars \/ Sends
      PROVE  PermitInv'
  <2>1. Tasked(h') /\ h'.request = q
    BY <1>1, <1>8 DEF Tasked, TasksType
  <2>2. There(h', lost') = There(h, lost)
    BY <1>1, <1>8 DEF There, TasksType
  <2> QED
    BY <1>8, <2>1, <2>2, PermitsBeside
<1>9. CASE DaemonStop
  <2>1. CASE h.request # "calling"
    <3>1. h' = h
      BY <1>1, <1>9, <2>1 DEF DaemonStop, TasksType
    <3> QED
      BY <1>2, <1>9, <3>1 DEF DaemonStop, history
  <2>2. CASE h.request = "calling"
    <3>1. PICK q \in {"idle", "failed"} : h' = [h EXCEPT !.request = q]
      BY <1>9, <2>2 DEF DaemonStop
    <3> QED
      BY <1>8, <1>9, <2>2, <3>1 DEF DaemonStop, history
  <2> QED
    BY <2>1, <2>2
<1>10. CASE Answer
  <2>1. PICK i \in DOMAIN calls : CallAccepted(i) \/ CallRefused(i)
    BY <1>10 DEF Answer
  <2>2. Msg("DbusErr", "refused") \in Message
    BY DEF Msg, Message, Errors
  <2>3. UNCHANGED guiVars \/ Sends
    BY <2>1, <2>2 DEF CallAccepted, CallRefused, Sends
  <2>4. lost' = lost /\ Answered(i)
    BY <2>1 DEF CallAccepted, CallRefused, Apply, history
  <2>5. CASE calls[i].wanted
    <3>1. h.request = "calling"
      BY <2>5 DEF SystemInv, CallsOK
    <3>2. h' = [h EXCEPT !.request = "idle"]
      BY <2>4, <2>5 DEF Answered
    <3> QED
      BY <1>8, <2>3, <2>4, <3>1, <3>2
  <2>6. CASE ~calls[i].wanted
    BY <1>2, <2>3, <2>4, <2>6 DEF Answered
  <2> QED
    BY <2>5, <2>6
<1>11. CASE PollStart
  <2>1. Msg("ActiveProcs", None) \in Message
    BY DEF Msg, Message
  <2>2. Sends /\ lost' = lost
    BY <1>11, <2>1 DEF PollStart, Sends, history
  <2> DEFINE p == h.permits - 1
  <2>3. /\ h' = [h EXCEPT !.permits = p, !.polling = TRUE] /\ ~h.polling /\ h.pc = "online"
        /\ h.request # "closing"
    BY <1>11 DEF PollStart
  <2>4. p \in Int /\ p + 1 = h.permits
    BY <1>1 DEF TasksType
  <2> HIDE DEF p
  <2>5. /\ h'.permits = p /\ h'.polling = TRUE /\ h'.pc = "online"
        /\ h'.request = h.request
    BY <1>1, <2>3 DEF TasksType
  <2>6. There(h', lost') = There(h, lost)
    <3>1. There(h', lost') = p + 1 - 0 - lost
      BY <2>2, <2>3, <2>5 DEF There
    <3>2. There(h, lost) = h.permits + 0 - 0 - lost
      BY <2>3 DEF There
    <3> QED
      BY <1>1, <2>4, <3>1, <3>2
  <2> QED
    BY <2>2, <2>5, <2>6, PermitsBeside DEF Tasked
<1> QED
  BY <1>3, <1>4, <1>5, <1>6, <1>7, <1>9, <1>10, <1>11 DEF World

\* A permit that a dropped task holds goes back, and a close that is dropped
\* where it waits is one that will never be taken.
LEMMA PermitsDropped ==
    ASSUME SystemInv, DropTasks
    PROVE  /\ Tasked(h') /\ h'.request # "closing"
           /\ There(h', lost') = There(h, lost)
<1>1. h \in TasksType /\ lost \in Nat
  BY DEF SystemInv, RestOK
<1> DEFINE p == IF h.polling THEN h.permits + 1 ELSE h.permits
           g == IF h.polling THEN 1 ELSE 0
           c == IF h.request = "closing" THEN 1 ELSE 0
<1>2. h.permits \in Nat /\ p = h.permits + g /\ g \in Nat /\ c \in Nat /\ p \in Nat
  BY <1>1 DEF TasksType
<1>3. lost' = lost + c
  BY <1>1 DEF DropTasks
<1>4. h' = [h EXCEPT !.pc = "probe", !.props = "Attached", !.request = "idle",
                     !.permits = p, !.polling = FALSE]
  BY DEF DropTasks
<1>5. There(h, lost) = h.permits + g - c - lost
  BY DEF There
<1> HIDE DEF p, g, c
<1>6. h'.permits = p /\ h'.polling = FALSE /\ h'.request = "idle"
  BY <1>1, <1>4 DEF TasksType
<1>7. There(h', lost') = p + 0 - 0 - lost'
  BY <1>6 DEF There
<1>8. There(h', lost') = There(h, lost)
  BY <1>1, <1>2, <1>3, <1>5, <1>7
<1> QED
  BY <1>6, <1>8 DEF Tasked

\* dbus_service_harness.
LEMMA PermitsOfHarness ==
    ASSUME SystemInv, PermitInv, Harness
    PROVE  PermitInv'
<1>1. h \in TasksType /\ lost \in Nat /\ Tasked(h)
  BY DEF SystemInv, RestOK, PermitInv
<1>2. ASSUME h'.request = h.request, h'.permits = h.permits, h'.polling = h.polling,
             lost' = lost, h.pc # "online", UNCHANGED guiVars \/ Sends
      PROVE  PermitInv'
  <2>1. There(h', lost') = There(h, lost)
    BY <1>2 DEF There
  <2>2. Tasked(h')
    BY <1>1, <1>2 DEF Tasked
  <2> QED
    BY <1>2, <2>1, <2>2, PermitsBeside
<1>3. CASE ProbeOk
  <2>1. Msg("DbusConnected", None) \in Message
    BY DEF Msg, Message
  <2>2. /\ h'.request = h.request /\ h'.permits = h.permits /\ h'.polling = h.polling
    BY <1>1, <1>3 DEF ProbeOk, TasksType
  <2> QED
    BY <1>2, <1>3, <2>1, <2>2 DEF ProbeOk, Sends, history
<1>4. CASE ProbeFails
  <2>1. Msg("DbusCantConnect", "offline") \in Message
    BY DEF Msg, Message, Errors
  <2>2. /\ h'.request = h.request /\ h'.permits = h.permits /\ h'.polling = h.polling
    BY <1>1, <1>4 DEF ProbeFails, TasksType
  <2> QED
    BY <1>2, <1>4, <2>1, <2>2 DEF ProbeFails, Sends, history
<1>5. CASE OfflineWakes
  <2>1. /\ h'.request = h.request /\ h'.permits = h.permits /\ h'.polling = h.polling
    BY <1>1, <1>5 DEF OfflineWakes, TasksType
  <2> QED
    BY <1>2, <1>5, <2>1 DEF OfflineWakes, history
<1>6. CASE OwnerChanged
  BY <1>6, PermitsDropped, PermitsBeside DEF OwnerChanged
<1>7. CASE ListenFails
  <2>1. Msg("DbusFail", "lost") \in Message
    BY DEF Msg, Message, Errors
  <2>2. Sends /\ DropTasks
    BY <1>7, <2>1 DEF ListenFails, Sends
  <2> QED
    BY <2>2, PermitsDropped, PermitsBeside
<1>8. CASE ProbeDrops
  <2> DEFINE p == PermitsAfter(Head(dq).d)
             x == One(Head(dq), "WindowClosed")
             y == One(Head(dq), "WindowOpened")
  <2>1. h' = [h EXCEPT !.permits = p] /\ h.pc = "probe" /\ lost' = lost /\ Receive
    BY <1>8 DEF ProbeDrops, history
  <2>2. p = h.permits + y - x /\ x \in Nat /\ y \in Nat /\ h.permits \in Nat /\ p \in Int
    BY <1>1 DEF PermitsAfter, One, TasksType
  <2>3. ~h.polling /\ h.request = "idle"
    BY <1>1, <2>1 DEF Tasked
  <2> HIDE DEF p, x, y
  <2>4. h'.permits = p /\ ~h'.polling /\ h'.request = "idle"
    BY <1>1, <2>1, <2>3 DEF TasksType
  <2>5. There(h', lost') = p + 0 - 0 - lost /\ There(h, lost) = h.permits + 0 - 0 - lost
    BY <2>1, <2>3, <2>4 DEF There
  <2>6. There(h', lost') = There(h, lost) + y - x
    BY <1>1, <2>2, <2>5
  <2> QED
    BY <2>1, <2>4, <2>6, PermitsTaken DEF Tasked, x, y
<1> QED
  BY <1>3, <1>4, <1>5, <1>6, <1>7, <1>8 DEF Harness

\* listen_props, listen_proc_names and process_requests.
LEMMA PermitsOfTasks ==
    ASSUME SystemInv, PermitInv, Listen \/ Process \/ PollEnd
    PROVE  PermitInv'
<1>1. h \in TasksType /\ lost \in Nat /\ Tasked(h) /\ dm \in DaemonType /\ RestOK
  BY DEF SystemInv, RestOK, PermitInv
<1>2. ASSUME h'.request = h.request, h'.permits = h.permits, h'.polling = h.polling,
             lost' = lost, h'.pc = h.pc, UNCHANGED guiVars \/ Sends
      PROVE  PermitInv'
  <2>1. There(h', lost') = There(h, lost)
    BY <1>2 DEF There
  <2>2. Tasked(h')
    BY <1>1, <1>2 DEF Tasked
  <2> QED
    BY <1>2, <2>1, <2>2, PermitsBeside
<1>3. CASE ReadProperty
  <2>1. h.props \in Props
    BY <1>3 DEF ReadProperty, NextProp, Props
  <2>2. Sends
    BY <1>1, <1>3, <2>1, PropertyTyped DEF ReadProperty, Sends
  <2>3. /\ h'.request = h.request /\ h'.permits = h.permits /\ h'.polling = h.polling
        /\ h'.pc = h.pc
    BY <1>1, <1>3 DEF ReadProperty, TasksType
  <2> QED
    BY <1>2, <1>3, <2>2, <2>3 DEF ReadProperty, history
<1>4. CASE Subscribe
  <2>1. /\ h'.request = h.request /\ h'.permits = h.permits /\ h'.polling = h.polling
        /\ h'.pc = h.pc
    BY <1>1, <1>4 DEF Subscribe, TasksType
  <2> QED
    BY <1>2, <1>4, <2>1 DEF Subscribe, history
<1>5. CASE PropertyChanged
  <2>1. Head(signals) \in Props
    BY <1>1, <1>5, HeadTailProperties DEF PropertyChanged, RestOK
  <2>2. Sends /\ h' = h /\ lost' = lost
    BY <1>1, <1>5, <2>1, PropertyTyped DEF PropertyChanged, Reread, Sends
  <2> QED
    BY <1>2, <2>2
<1>6. CASE PollEnd
  <2> DEFINE p == h.permits + 1
  <2>1. h' = [h EXCEPT !.permits = p, !.polling = FALSE] /\ h.polling /\ lost' = lost
    BY <1>6 DEF PollEnd, history
  <2>2. p \in Int /\ p = h.permits + 1 /\ h.permits \in Nat
    BY <1>1 DEF TasksType
  <2>3. h.pc = "online"
    BY <1>1, <2>1 DEF Tasked
  <2> HIDE DEF p
  <2>4. h'.permits = p /\ h'.polling = FALSE /\ h'.request = h.request /\ h'.pc = h.pc
    BY <1>1, <2>1 DEF TasksType
  <2> DEFINE c == IF h.request = "closing" THEN 1 ELSE 0
  <2>5. There(h', lost') = p + 0 - c - lost /\ There(h, lost) = h.permits + 1 - c - lost
    BY <2>1, <2>4 DEF There
  <2>6. c \in Nat
    OBVIOUS
  <2> HIDE DEF c
  <2>7. There(h', lost') = There(h, lost)
    BY <1>1, <2>2, <2>5, <2>6
  <2>8. UNCHANGED guiVars
    BY <1>6 DEF PollEnd
  <2> QED
    BY <2>3, <2>4, <2>7, <2>8, PermitsBeside DEF Tasked
<1>7. CASE CloseTakesPermit
  <2> DEFINE p == PermitsAfter("WindowClosed")
             g == IF h.polling THEN 1 ELSE 0
  <2>1. h' = [h EXCEPT !.permits = p, !.request = "idle"] /\ h.request = "closing" /\ lost' = lost
    BY <1>7 DEF CloseTakesPermit, history
  <2>2. p \in Int /\ p = h.permits - 1 /\ h.permits \in Nat /\ g \in Nat
    BY <1>1 DEF PermitsAfter, TasksType
  <2> HIDE DEF p
  <2>3. h'.permits = p /\ h'.polling = h.polling /\ h'.request = "idle" /\ h'.pc = h.pc
    BY <1>1, <2>1 DEF TasksType
  <2>4. There(h', lost') = p + g - 0 - lost /\ There(h, lost) = h.permits + g - 1 - lost
    BY <2>1, <2>3 DEF There
  <2> HIDE DEF g
  <2>5. There(h', lost') = There(h, lost)
    BY <1>1, <2>2, <2>4
  <2>6. Tasked(h')
    BY <1>1, <2>3 DEF Tasked
  <2> QED
    BY <1>7, <2>3, <2>5, <2>6, PermitsBeside DEF CloseTakesPermit
<1>8. CASE RequestFailed
  <2>1. Msg("DbusErr", "lost") \in Message
    BY DEF Msg, Message, Errors
  <2>2. Sends /\ lost' = lost
    BY <1>8, <2>1 DEF RequestFailed, Sends, history
  <2>3. /\ h'.permits = h.permits /\ h'.polling = h.polling /\ h'.request = "idle"
        /\ h.request = "failed" /\ h'.pc = h.pc
    BY <1>1, <1>8 DEF RequestFailed, TasksType
  <2>4. There(h', lost') = There(h, lost)
    BY <2>2, <2>3 DEF There
  <2>5. Tasked(h')
    BY <1>1, <2>3 DEF Tasked
  <2> QED
    BY <2>2, <2>3, <2>4, <2>5, PermitsBeside
<1>9. CASE TakeRequest
  <2>1. h.pc = "online" /\ h.request = "idle" /\ lost' = lost /\ Receive
    BY <1>9 DEF TakeRequest, TakeWindowOpened, TakeWindowClosed, TakeCall, history
  <2> DEFINE g == IF h.polling THEN 1 ELSE 0
  <2>2. There(h, lost) = h.permits + g - 0 - lost /\ g \in Nat /\ h.permits \in Nat
    BY <1>1, <2>1 DEF There, TasksType
  <2>3. CASE TakeWindowOpened
    <3> DEFINE p == PermitsAfter("WindowOpened")
    <3>1. h' = [h EXCEPT !.permits = p] /\ Head(dq).d = "WindowOpened"
      BY <2>3 DEF TakeWindowOpened
    <3>2. p = h.permits + 1
      BY DEF PermitsAfter
    <3> HIDE DEF p
    <3>3. h'.permits = p /\ h'.polling = h.polling /\ h'.request = "idle" /\ h'.pc = "online"
      BY <1>1, <2>1, <3>1 DEF TasksType
    <3>4. One(Head(dq), "WindowOpened") = 1 /\ One(Head(dq), "WindowClosed") = 0
      BY <3>1 DEF One
    <3>5. There(h', lost') = p + g - 0 - lost
      BY <2>1, <3>3 DEF There
    <3> HIDE DEF g
    <3>6. There(h', lost') = There(h, lost) + One(Head(dq), "WindowOpened")
                                            - One(Head(dq), "WindowClosed")
      BY <1>1, <2>2, <3>2, <3>4, <3>5
    <3> QED
      BY <2>1, <3>3, <3>6, PermitsTaken DEF Tasked
  <2>4. CASE TakeWindowClosed
    <3>1. h' = [h EXCEPT !.request = "closing"] /\ Head(dq).d = "WindowClosed"
      BY <2>4 DEF TakeWindowClosed
    <3>2. /\ h'.permits = h.permits /\ h'.polling = h.polling /\ h'.request = "closing"
          /\ h'.pc = "online"
      BY <1>1, <2>1, <3>1 DEF TasksType
    <3>3. One(Head(dq), "WindowOpened") = 0 /\ One(Head(dq), "WindowClosed") = 1
      BY <3>1 DEF One
    <3>4. There(h', lost') = h.permits + g - 1 - lost
      BY <2>1, <3>2 DEF There
    <3> HIDE DEF g
    <3>5. There(h', lost') = There(h, lost) + One(Head(dq), "WindowOpened")
                                            - One(Head(dq), "WindowClosed")
      BY <1>1, <2>2, <3>3, <3>4
    <3> QED
      BY <2>1, <3>1, <3>2, <3>5, PermitsTaken DEF Tasked
  <2>5. CASE TakeCall
    <3>1. PICK q \in {"idle", "failed", "calling"} : h' = [h EXCEPT !.request = q]
      BY <2>5 DEF TakeCall
    <3>2. /\ h'.permits = h.permits /\ h'.polling = h.polling /\ h'.request # "closing"
          /\ h'.pc = "online"
      BY <1>1, <2>1, <3>1 DEF TasksType
    <3>3. One(Head(dq), "WindowOpened") = 0 /\ One(Head(dq), "WindowClosed") = 0
      BY <2>5 DEF TakeCall, One
    <3>4. There(h', lost') = h.permits + g - 0 - lost
      BY <2>1, <3>2 DEF There
    <3> HIDE DEF g
    <3>5. There(h', lost') = There(h, lost) + One(Head(dq), "WindowOpened")
                                            - One(Head(dq), "WindowClosed")
      BY <1>1, <2>2, <3>3, <3>4
    <3> QED
      BY <2>1, <3>2, <3>5, PermitsTaken DEF Tasked
  <2> QED
    BY <1>9, <2>3, <2>4, <2>5 DEF TakeRequest
<1> QED
  BY <1>3, <1>4, <1>5, <1>6, <1>7, <1>8, <1>9 DEF Listen, Process

\* What is in the queue, in the words of the property.
LEMMA QueuedIsAfter ==
    ASSUME SystemInv, NEW d
    PROVE  Queued(d) = After(dq, 0, Asks(d)) /\ Queued(d) \in Nat
<1>1. dq \in Seq(Request)
  BY DEF SystemInv, WindowInv, ChannelsOK
<1>2. \A i \in DOMAIN dq : dq[i] \in Request
  BY <1>1, ElementOfSeq, LenProperties
<1>3. Positions(dq, Asks(d)) = {i \in DOMAIN dq : dq[i].d = d}
  BY <1>2 DEF Positions, Asks
<1>4. After(dq, 0, Asks(d)) = Cardinality(Positions(dq, Asks(d)))
  BY <1>1, AfterType
<1>5. Cardinality(Positions(dq, Asks(d))) \in Nat
  BY <1>1, CountType
<1> QED
  BY <1>3, <1>4, <1>5 DEF Queued

\* The permits there are follow the window through the queue, whatever was
\* dropped on the way, and a close never waits for a permit that nobody
\* holds.  The equation does not say so by itself: it takes that requests to
\* open and to close alternate in the queue.
THEOREM PermitAlwaysPerWindow == Spec => []PermitPerWindow
<1>1. Init => PermitInv
  <2> SUFFICES ASSUME Init PROVE PermitInv
    OBVIOUS
  <2>1. dq = << >> /\ << >> \in Seq(Request) /\ Len(<< >>) = 0
    BY DEF Init
  <2>2. \A P : After(<< >>, 0, P) = 0
    BY <2>1, AfterType
  <2>3. Width(s) = 0
    BY DEF Init, Width, DefaultState
  <2>4. Due(dq, 0, Width(s)) = 0
    BY <2>1, <2>2, <2>3 DEF Due
  <2>5. h.request = "idle" /\ h.permits = 0 /\ h.polling = FALSE /\ lost = 0
    BY DEF Init
  <2>6. There(h, lost) = 0 /\ Tasked(h)
    BY <2>5 DEF There, Tasked
  <2>7. Alternates(dq, Width(s))
    BY <2>1 DEF Alternates
  <2> QED
    BY <2>4, <2>6, <2>7 DEF PermitInv
<1>2. SystemInv /\ PermitInv /\ [Next]_vars => PermitInv'
  <2> SUFFICES ASSUME SystemInv, PermitInv, [Next]_vars PROVE PermitInv'
    OBVIOUS
  <2>1. CASE UNCHANGED vars
    BY <2>1 DEF vars, guiVars, history, PermitInv
  <2>2. CASE HandleQueued \/ \E w \in Widgets : UserInput(w)
    <3>1. SystemInv' /\ GuiStep
      BY <2>2, UpdateSteps
    <3>2. Stays \/ Opens \/ Closes
      BY <3>1, GuiStepGood DEF SystemInv
    <3>3. UNCHANGED <<h, lost>>
      BY <2>2 DEF HandleQueued, UserInput
    <3>4. s'.window \in BOOLEAN
      BY <3>1 DEF SystemInv, WindowInv, Good, IsState
    <3> QED
      BY <3>2, <3>3, <3>4, PermitsKept DEF PermitInv
  <2> QED
    BY <2>1, <2>2, NextCases, PermitsOfDaemon, PermitsOfHarness, PermitsOfTasks
<1>3. SystemInv /\ PermitInv => PermitPerWindow
  <2> SUFFICES ASSUME SystemInv, PermitInv PROVE PermitPerWindow
    OBVIOUS
  <2> DEFINE o == Queued("WindowOpened")
             c == Queued("WindowClosed")
             w == Width(s)
             x == IF h.request = "closing" THEN 1 ELSE 0
  <2>1. /\ o = After(dq, 0, Asks("WindowOpened")) /\ o \in Nat
        /\ c = After(dq, 0, Asks("WindowClosed")) /\ c \in Nat
    BY QueuedIsAfter
  <2>2. h.permits \in Nat /\ lost \in Nat /\ h.request \in {"idle", "calling", "failed", "closing"}
    BY DEF SystemInv, RestOK, TasksType
  <2>3. Held \in {0, 1} /\ x \in {0, 1} /\ w \in {0, 1}
    BY DEF Held, Width
  <2>4. Due(dq, 0, w) = c + w - o
    BY <2>1 DEF Due
  <2>5. There(h, lost) = h.permits + Held - x - lost
    BY DEF There, Held
  <2>6. There(h, lost) = Due(dq, 0, w) /\ (h.request = "closing" => Due(dq, 0, w) = 0)
    BY DEF PermitInv
  <2> HIDE DEF o, c, w, x
  <2>7. h.permits + Held + o = w + c + x + lost
    BY <2>1, <2>2, <2>3, <2>4, <2>5, <2>6
  <2>8. h.request = "closing" => h.permits + Held > 0
    <3>1. h.request = "closing" => x = 1
      BY DEF x
    <3> QED
      BY <2>2, <2>3, <2>5, <2>6, <3>1
  <2>9. ASSUME h.pc = "probe", dq # << >>, Head(dq).d = "WindowClosed"
        PROVE  h.permits > 0
    <3>1. ~h.polling /\ h.request = "idle"
      BY <2>9 DEF PermitInv, Tasked
    <3>2. Held = 0 /\ x = 0
      BY <3>1 DEF Held, x
    <3>3. dq \in Seq(Request) /\ Alternates(dq, w)
      BY DEF SystemInv, WindowInv, ChannelsOK, PermitInv, w
    <3>4. /\ Due(dq, 0, w) = Due(Tail(dq), 0, w) + One(Head(dq), "WindowClosed")
                                                  - One(Head(dq), "WindowOpened")
          /\ Due(Tail(dq), 0, w) = 0
      BY <2>3, <2>9, <3>3, AlternatesTaken
    <3>5. One(Head(dq), "WindowClosed") = 1 /\ One(Head(dq), "WindowOpened") = 0
      BY <2>9 DEF One
    <3>6. Due(dq, 0, w) = 1
      BY <3>4, <3>5
    <3> QED
      BY <2>2, <2>5, <2>6, <3>2, <3>6
  <2> QED
    BY <2>7, <2>8, <2>9 DEF PermitPerWindow, o, c, w, x, Width
<1> QED
  BY <1>1, <1>2, <1>3, SystemInvariant, PTL DEF Spec

-----------------------------------------------------------------------------
(* What the window shows of the daemon *)

Carries(ks) == {m \in Message : m.m \in ks}

\* The kinds of messages that change what is shown of property p.
KindsOf(p) == IF p = "Settings" THEN {"Settings"} ELSE {p} \cup Gone

\* listen_props has read p.
HasRead(p) ==
    CASE p = "Attached" -> h.props # "Attached"
      [] p = "Matches"  -> h.props \notin {"Attached", "Matches"}
      [] p = "Settings" -> h.props \in {"subscribe", "listen"}

\* No further read of p is to come, as far as the daemon and the bus go.
Told(p) ==
    /\ h.pc = "online" /\ owner = 0 /\ dm.up
    /\ HasRead(p) /\ p \notin missed /\ ~Some(signals, {p})
    /\ p = "Attached" => "reload" \notin todo

\* A state st, an icon t and the flag u show the value v of p.
ShowsValue(p, v, st, t, u) ==
    CASE p = "Attached" -> st.attached = v /\ t = TrayOf(v)
      [] p = "Matches"  -> st.matches = v
      [] p = "Settings" -> ~u => st.settings_override = v

\* What is shown of p, once the messages queued are handled, is the daemon's.
ReportsValue(p) ==
    Ends(mq, Carries(KindsOf(p)), {Property(p)},
         ShowsValue(p, Property(p).v, s, tray, unrolled))

\* The connection: what is shown of it is what the harness has found last.
LinkInv ==
    /\ h.pc # "online" => h.props = "Attached"
    /\ h.pc = "online" =>
        /\ ~h.err_sent
        /\ Ends(mq, Carries({"DbusConnected"} \cup Gone), Carries({"DbusConnected"}),
                s.dbus_conn_err = None)
    /\ h.pc = "offline" => h.err_sent
    /\ h.err_sent =>
        Ends(mq, Carries({"Attached", "Matches", "DbusConnected"} \cup Gone), Carries(Gone), Away)

ReportInv == LinkInv /\ \A p \in Props : Told(p) => ReportsValue(p)

\* A step that does not touch the daemon, the bus, what is shown and the
\* connection, and sends at most a message about something else.
Idle ==
    /\ UNCHANGED <<dm, todo, owner, signals, missed, unrolled, s, tray>>
    /\ h'.pc = h.pc /\ h'.props = h.props /\ h'.err_sent = h.err_sent
    /\ \/ mq' = mq
       \/ \E m \in Message : /\ m.m \in {"DbusErr", "WindowToggle", "Exit", "ActiveProcs"}
                             /\ mq' = Append(mq, m)

-----------------------------------------------------------------------------
\* A property and the value it has.
LEMMA PropertyKind ==
    ASSUME dm \in DaemonType, NEW p \in Props
    PROVE  Property(p) \in Message /\ Property(p).m = p /\ Property(p) \in Carries(KindsOf(p))
<1>1. Property(p) \in Message
  BY PropertyTyped
<1>2. Property(p).m = p
  BY DEF Property, Msg, Props
<1> QED
  BY <1>1, <1>2 DEF Carries, KindsOf

\* The queue stays, or gets a message of another kind.
LEMMA EndsKept ==
    ASSUME mq \in Seq(Message), NEW ks, NEW V, NEW b, Ends(mq, Carries(ks), V, b),
           \/ mq' = mq
           \/ \E m \in Message : m.m \notin ks /\ mq' = Append(mq, m)
    PROVE  Ends(mq', Carries(ks), V, b)
<1>1. CASE mq' = mq
  BY <1>1
<1>2. CASE \E m \in Message : m.m \notin ks /\ mq' = Append(mq, m)
  <2>1. PICK m \in Message : m.m \notin ks /\ mq' = Append(mq, m)
    BY <1>2
  <2>2. m \notin Carries(ks)
    BY <2>1 DEF Carries
  <2> QED
    BY <2>1, <2>2, EndsAppend
<1> QED
  BY <1>1, <1>2

\* The queue gets a message that settles the matter.
LEMMA EndsGood ==
    ASSUME mq \in Seq(Message), NEW ks, NEW V, NEW b, NEW m \in Message, mq' = Append(mq, m),
           m.m \in ks, m \in V
    PROVE  Ends(mq', Carries(ks), V, b)
<1>1. m \in Carries(ks) \cap V
  BY DEF Carries
<1> QED
  BY <1>1, EndsAppend

\* A step beside the window: p keeps its value and was told before, or has
\* just been read.
LEMMA ReportsBeside ==
    ASSUME SystemInv, ReportInv, NEW p \in Props, UNCHANGED <<s, tray, unrolled>>,
           \/ /\ Told(p)' => Told(p) /\ Property(p)' = Property(p)
              /\ \/ mq' = mq
                 \/ \E m \in Message : m.m \notin KindsOf(p) /\ mq' = Append(mq, m)
           \/ mq' = Append(mq, Property(p)) /\ Property(p)' = Property(p)
    PROVE  Told(p)' => ReportsValue(p)'
<1> SUFFICES ASSUME Told(p)' PROVE ReportsValue(p)'
  OBVIOUS
<1> DEFINE x == Property(p)
           b == ShowsValue(p, x.v, s, tray, unrolled)
<1>1. mq \in Seq(Message) /\ dm \in DaemonType
  BY DEF SystemInv, WindowInv, ChannelsOK
<1>2. x \in Message /\ x.m \in KindsOf(p)
  BY <1>1, PropertyKind DEF KindsOf
<1>3. Property(p)' = x
  OBVIOUS
<1>4. ShowsValue(p, x.v, s, tray, unrolled)' = ShowsValue(p, x.v, s, tray, unrolled)
  BY <1>3 DEF ShowsValue
<1>5. ReportsValue(p)' = Ends(mq', Carries(KindsOf(p)), {x}, b)
  BY <1>3 DEF ReportsValue, ShowsValue
<1>6. CASE mq' = Append(mq, x)
  <2> HIDE DEF x, b
  <2>1. Ends(mq', Carries(KindsOf(p)), {x}, b)
    BY <1>1, <1>2, <1>6, EndsGood
  <2> QED
    BY <1>5, <2>1
<1>7. CASE /\ Told(p)
           /\ \/ mq' = mq
              \/ \E m \in Message : m.m \notin KindsOf(p) /\ mq' = Append(mq, m)
  <2>1. Ends(mq, Carries(KindsOf(p)), {x}, b)
    BY <1>7 DEF ReportInv, ReportsValue
  <2> HIDE DEF x, b
  <2>2. Ends(mq', Carries(KindsOf(p)), {x}, b)
    BY <1>1, <1>7, <2>1, EndsKept
  <2> QED
    BY <1>5, <2>2
<1> QED
  BY <1>6, <1>7

\* The connection is neither made nor lost.
LEMMA LinkBeside ==
    ASSUME SystemInv, LinkInv, UNCHANGED <<s, tray>>,
           h'.pc = h.pc, h'.err_sent = h.err_sent, h.pc = "online" \/ h'.props = h.props,
           \/ mq' = mq
           \/ \E m \in Message : /\ m.m \notin {"DbusConnected"} \cup Gone
                                 /\ m.m \in {"Attached", "Matches"} => h.pc = "online"
                                 /\ mq' = Append(mq, m)
    PROVE  LinkInv'
<1> DEFINE a == s.dbus_conn_err = None
           b == Away
           ks == {"Attached", "Matches", "DbusConnected"} \cup Gone
           cs == {"DbusConnected"} \cup Gone
<1>1. mq \in Seq(Message) /\ a' = a /\ b' = b
  BY DEF SystemInv, WindowInv, ChannelsOK, Away
<1>2. ASSUME h.pc = "online" PROVE Ends(mq', Carries(cs), Carries({"DbusConnected"}), a)
  <2>1. Ends(mq, Carries(cs), Carries({"DbusConnected"}), a)
    BY <1>2 DEF LinkInv
  <2>2. \/ mq' = mq
        \/ \E m \in Message : m.m \notin cs /\ mq' = Append(mq, m)
    OBVIOUS
  <2> HIDE DEF a, cs
  <2> QED
    BY <1>1, <2>1, <2>2, EndsKept
<1>3. ASSUME h.err_sent PROVE Ends(mq', Carries(ks), Carries(Gone), b)
  <2>1. Ends(mq, Carries(ks), Carries(Gone), b) /\ h.pc # "online"
    BY <1>3 DEF LinkInv
  <2>2. \/ mq' = mq
        \/ \E m \in Message : m.m \notin ks /\ mq' = Append(mq, m)
    BY <2>1
  <2> HIDE DEF b, ks
  <2> QED
    BY <1>1, <2>1, <2>2, EndsKept
<1> QED
  BY <1>1, <1>2, <1>3 DEF LinkInv

\* Steps of the tray, of polls and of requests.
LEMMA IdleSteps ==
    ASSUME SystemInv,
           \/ \E i \in DOMAIN calls : CallRefused(i)
           \/ TrayActivate \/ \E id \in {"Enable", "Disable", "Quit"} : TrayMenu(id)
           \/ PollStart \/ PollEnd \/ ProbeDrops \/ Process
    PROVE  Idle
<1>1. h \in TasksType
  BY DEF SystemInv
<1>2. ASSUME NEW x PROVE /\ [h EXCEPT !.request = x].pc = h.pc
                         /\ [h EXCEPT !.request = x].props = h.props
                         /\ [h EXCEPT !.request = x].err_sent = h.err_sent
  BY <1>1 DEF TasksType
<1>3. /\ Msg("DbusErr", "refused") \in Message /\ Msg("DbusErr", "lost") \in Message
      /\ Msg("WindowToggle", None) \in Message /\ Msg("Exit", None) \in Message
      /\ Msg("ActiveProcs", None) \in Message
  BY DEF Msg, Message, Errors
<1>4. ASSUME NEW kind \in {"DbusErr", "WindowToggle", "Exit", "ActiveProcs"}, NEW v,
             Msg(kind, v) \in Message, Send(Msg(kind, v))
      PROVE  /\ UNCHANGED <<s, tray>>
             /\ \E m \in Message : /\ m.m \in {"DbusErr", "WindowToggle", "Exit", "ActiveProcs"}
                                   /\ mq' = Append(mq, m)
  BY <1>4 DEF Send, Msg
<1>5. CASE \E i \in DOMAIN calls : CallRefused(i)
  <2>1. PICK i \in DOMAIN calls : CallRefused(i)
    BY <1>5
  <2>2. h'.pc = h.pc /\ h'.props = h.props /\ h'.err_sent = h.err_sent
    BY <1>1, <1>2, <2>1 DEF CallRefused, Answered
  <2>3. UNCHANGED <<dm, todo, owner, signals, missed, unrolled>>
    BY <2>1 DEF CallRefused, daemonVars, history
  <2>4. CASE UNCHANGED guiVars
    BY <2>2, <2>3, <2>4 DEF guiVars, Idle
  <2>5. CASE Send(Msg("DbusErr", "refused"))
    BY <1>3, <1>4, <2>2, <2>3, <2>5 DEF Idle
  <2> QED
    BY <2>1, <2>4, <2>5 DEF CallRefused
<1>6. CASE TrayActivate
  BY <1>3, <1>4, <1>6 DEF TrayActivate, daemonVars, busVars, history, Idle
<1>7. CASE \E id \in {"Enable", "Disable", "Quit"} : TrayMenu(id)
  <2>1. PICK id \in {"Enable", "Disable", "Quit"} : TrayMenu(id)
    BY <1>7
  <2>2. UNCHANGED <<dm, todo, owner, signals, missed, unrolled, h>>
    BY <2>1 DEF TrayMenu, daemonVars, busVars, history
  <2>3. UNCHANGED <<s, mq, tray>> \/ Send(Msg("Exit", None))
    BY <2>1 DEF TrayMenu
  <2> QED
    BY <1>3, <1>4, <2>2, <2>3 DEF Idle
<1>8. CASE PollStart
  <2>1. UNCHANGED <<dm, todo, owner, signals, missed, unrolled>>
    BY <1>8 DEF PollStart, daemonVars, busVars, history
  <2>2. h'.pc = h.pc /\ h'.props = h.props /\ h'.err_sent = h.err_sent
    BY <1>1, <1>8 DEF PollStart, TasksType
  <2>3. Send(Msg("ActiveProcs", None))
    BY <1>8 DEF PollStart
  <2> QED
    BY <1>3, <1>4, <2>1, <2>2, <2>3 DEF Idle
<1>9. CASE PollEnd
  <2>1. h'.pc = h.pc /\ h'.props = h.props /\ h'.err_sent = h.err_sent
    BY <1>1, <1>9 DEF PollEnd, TasksType
  <2> QED
    BY <1>9, <2>1 DEF PollEnd, guiVars, daemonVars, busVars, history, Idle
<1>10. CASE ProbeDrops
  <2>1. h'.pc = h.pc /\ h'.props = h.props /\ h'.err_sent = h.err_sent
    BY <1>1, <1>10 DEF ProbeDrops, TasksType
  <2> QED
    BY <1>10, <2>1 DEF ProbeDrops, Receive, daemonVars, busVars, history, Idle
<1>11. CASE TakeRequest
  <2>1. h'.pc = h.pc /\ h'.props = h.props /\ h'.err_sent = h.err_sent
    BY <1>1, <1>11 DEF TakeRequest, TakeWindowOpened, TakeWindowClosed, TakeCall, TasksType
  <2>2. UNCHANGED <<s, mq, tray>>
    BY <1>11 DEF TakeRequest, TakeWindowOpened, TakeWindowClosed, TakeCall, Receive
  <2> QED
    BY <1>11, <2>1, <2>2 DEF TakeRequest, daemonVars, history, Idle
<1>12. CASE CloseTakesPermit
  <2>1. h'.pc = h.pc /\ h'.props = h.props /\ h'.err_sent = h.err_sent
    BY <1>1, <1>12 DEF CloseTakesPermit, TasksType
  <2> QED
    BY <1>12, <2>1 DEF CloseTakesPermit, guiVars, daemonVars, busVars, history, Idle
<1>13. CASE RequestFailed
  <2>1. h'.pc = h.pc /\ h'.props = h.props /\ h'.err_sent = h.err_sent
    BY <1>1, <1>13 DEF RequestFailed, TasksType
  <2>2. UNCHANGED <<dm, todo, owner, signals, missed, unrolled>> /\ Send(Msg("DbusErr", "lost"))
    BY <1>13 DEF RequestFailed, daemonVars, busVars, history
  <2> QED
    BY <1>3, <1>4, <2>1, <2>2 DEF Idle
<1> QED
  BY <1>5, <1>6, <1>7, <1>8, <1>9, <1>10, <1>11, <1>12, <1>13 DEF Process

\* They leave what is shown.
LEMMA ReportsIdle ==
    ASSUME SystemInv, ReportInv, Idle
    PROVE  ReportInv'
<1>1. ASSUME NEW p \in Props PROVE Told(p)' => ReportsValue(p)'
  <2>1. Told(p)' = Told(p) /\ Property(p)' = Property(p)
    BY DEF Idle, Told, HasRead, Property, AttachedProp
  <2>2. KindsOf(p) \cap {"DbusErr", "WindowToggle", "Exit", "ActiveProcs"} = {}
    BY DEF KindsOf, Gone, Props
  <2>3. \/ mq' = mq
        \/ \E m \in Message : m.m \notin KindsOf(p) /\ mq' = Append(mq, m)
    BY <2>2 DEF Idle
  <2> QED
    BY <2>1, <2>3, ReportsBeside DEF Idle
<1>2. LinkInv'
  <2>1. \/ mq' = mq
        \/ \E m \in Message : /\ m.m \notin {"DbusConnected", "Attached", "Matches"} \cup Gone
                              /\ mq' = Append(mq, m)
    BY DEF Idle, Gone
  <2> QED
    BY <2>1, LinkBeside DEF Idle, ReportInv
<1> QED
  BY <1>1, <1>2 DEF ReportInv

\* The connection is made or lost, or the daemon starts or ends: nothing is
\* told then.
LEMMA ReportsOfHarness ==
    ASSUME SystemInv, ReportInv,
           \/ DaemonStop \/ DaemonStart \/ ProbeOk \/ ProbeFails
           \/ OfflineWakes \/ OwnerChanged \/ ListenFails
    PROVE  ReportInv'
<1>1. h \in TasksType /\ dm \in DaemonType /\ owner \in Nat /\ mq \in Seq(Message) /\ LinkInv
  BY DEF SystemInv, RestOK, WindowInv, ChannelsOK, ReportInv
<1>2. ASSUME h'.pc # "online" \/ owner' # 0 \/ ~dm'.up \/ h'.props = "Attached", LinkInv'
      PROVE  ReportInv'
  <2>1. ASSUME NEW p \in Props PROVE ~Told(p)'
    BY <1>2 DEF Told, HasRead, Props
  <2> QED
    BY <1>2, <2>1 DEF ReportInv
<1>3. CASE DaemonStop
  <2>1. h'.pc = h.pc /\ h'.props = h.props /\ h'.err_sent = h.err_sent /\ ~dm'.up
    BY <1>1, <1>3 DEF DaemonStop, TasksType, DaemonType
  <2>2. LinkInv'
    BY <1>1, <1>3, <2>1, LinkBeside DEF DaemonStop, guiVars
  <2> QED
    BY <1>2, <2>1, <2>2
<1>4. CASE DaemonStart
  <2>1. owner' # 0
    BY <1>1, <1>4 DEF DaemonStart
  <2>2. LinkInv'
    BY <1>1, <1>4, LinkBeside DEF DaemonStart, guiVars
  <2> QED
    BY <1>2, <2>1, <2>2
<1>5. CASE OfflineWakes
  <2>1. h'.pc = "probe" /\ h.pc = "offline" /\ h'.props = h.props /\ h'.err_sent = h.err_sent
    BY <1>1, <1>5 DEF OfflineWakes, TasksType
  <2>2. UNCHANGED <<s, tray, mq>>
    BY <1>5 DEF OfflineWakes, guiVars
  <2>3. LinkInv'
    BY <1>1, <2>1, <2>2 DEF LinkInv, Away
  <2> QED
    BY <1>2, <2>1, <2>3
<1>6. CASE OwnerChanged \/ ListenFails
  <2>1. h'.pc = "probe" /\ h.pc = "online" /\ h'.props = "Attached" /\ h'.err_sent = h.err_sent
    BY <1>1, <1>6 DEF OwnerChanged, ListenFails, DropTasks, TasksType
  <2>2. LinkInv'
    BY <1>1, <2>1 DEF LinkInv
  <2> QED
    BY <1>2, <2>1, <2>2
<1>7. CASE ProbeOk
  <2> DEFINE m == Msg("DbusConnected", None)
             ks == {"DbusConnected"} \cup Gone
  <2>1. h'.pc = "online" /\ h.pc = "probe" /\ h'.props = h.props /\ h'.err_sent = FALSE
    BY <1>1, <1>7 DEF ProbeOk, TasksType
  <2>2. h'.props = "Attached"
    BY <1>1, <2>1 DEF LinkInv
  <2>3. m \in Message /\ m.m \in ks /\ m \in Carries({"DbusConnected"})
    BY DEF Msg, Message, Carries
  <2>4. mq' = Append(mq, m)
    BY <1>7 DEF ProbeOk, Send
  <2> HIDE DEF m, ks
  <2>5. Ends(mq', Carries(ks), Carries({"DbusConnected"}), s'.dbus_conn_err = None)
    BY <1>1, <2>3, <2>4, EndsGood
  <2>6. LinkInv'
    BY <2>1, <2>5 DEF LinkInv, ks
  <2> QED
    BY <1>2, <2>2, <2>6
<1>8. CASE ProbeFails
  <2> DEFINE m == Msg("DbusCantConnect", "offline")
             ks == {"Attached", "Matches", "DbusConnected"} \cup Gone
  <2>1. h'.pc = "offline" /\ h.pc = "probe" /\ h'.props = h.props /\ h'.err_sent = TRUE
    BY <1>1, <1>8 DEF ProbeFails, TasksType
  <2>2. m \in Message /\ m.m \in ks /\ m \in Carries(Gone)
    BY DEF Msg, Message, Errors, Carries, Gone
  <2>3. Ends(mq', Carries(ks), Carries(Gone), Away')
    <3>1. CASE h.err_sent
      <4>1. Ends(mq, Carries(ks), Carries(Gone), Away)
        BY <1>1, <3>1 DEF LinkInv
      <4>2. mq' = mq /\ Away' = Away
        BY <1>8, <3>1 DEF ProbeFails, guiVars, Away
      <4> QED
        BY <4>1, <4>2
    <3>2. CASE ~h.err_sent
      <4>1. mq' = Append(mq, m)
        BY <1>8, <3>2 DEF ProbeFails, Send
      <4> HIDE DEF m, ks
      <4> QED
        BY <1>1, <2>2, <4>1, EndsGood
    <3> QED
      BY <3>1, <3>2
  <2>4. LinkInv'
    BY <1>1, <2>1, <2>3 DEF LinkInv
  <2> QED
    BY <1>2, <2>1, <2>4
<1> QED
  BY <1>3, <1>4, <1>5, <1>6, <1>7, <1>8

\* A signal reaches the listener, or the change is noted as missed, or the
\* property is still to be read.
LEMMA EmitTells ==
    ASSUME SystemInv, NEW ps \in Seq(Props), Emit(ps), NEW p \in Props, UNCHANGED owner,
           h'.pc = h.pc, h'.props = h.props
    PROVE  /\ Some(signals, {p}) => Some(signals', {p})
           /\ p \in missed => p \in missed'
           /\ Some(ps, {p}) => ~Told(p)'
<1>1. signals \in Seq(Props) /\ h \in TasksType
  BY DEF SystemInv, RestOK
<1>2. Some(signals \o ps, {p}) <=> Some(signals, {p}) \/ Some(ps, {p})
  BY <1>1, SomeConcat
<1>3. /\ Some(signals, {p}) => Some(signals', {p})
      /\ p \in missed => p \in missed'
  BY <1>2 DEF Emit
<1>4. ASSUME Some(ps, {p}), Told(p)' PROVE FALSE
  <2>1. HasRead(p) /\ p \notin missed' /\ ~Some(signals', {p})
    BY <1>4 DEF Told, HasRead
  <2>2. p \in ToSet(ps)
    BY <1>4 DEF Some, ToSet
  <2>3. h.props # "listen"
    BY <1>2, <1>4, <2>1 DEF Emit
  <2>4. p \in Unwatched
    BY <1>1, <2>1, <2>3 DEF HasRead, Unwatched, TasksType, Props
  <2> QED
    BY <2>1, <2>2, <2>4 DEF Emit
<1> QED
  BY <1>3, <1>4

\* A method that is accepted: the daemon tells what it changes.
LEMMA ReportsApplied ==
    ASSUME SystemInv, ReportInv, NEW r, Plain(r), Acceptable(r), Apply(r),
           UNCHANGED <<s, tray, mq>>,
           h'.pc = h.pc, h'.props = h.props, h'.err_sent = h.err_sent
    PROVE  ReportInv'
<1>1. /\ dm \in DaemonType /\ h \in TasksType /\ RestOK /\ UNCHANGED <<owner, unrolled>>
      /\ dm'.up = dm.up /\ "reload" \in todo' /\ LinkInv
  BY ApplyTyped DEF SystemInv, Apply, ReportInv
<1>2. /\ r.d \in {"Enable", "Disable", "ChangeOutput", "SettingsUpdate",
                  "MatchAdd", "MatchDelete", "MatchUpdate"}
  BY DEF Plain, Request, WindowKinds
<1> DEFINE ps == CASE r.d = "SettingsUpdate" -> <<"Settings">>
                   [] r.d \in {"MatchAdd", "MatchDelete", "MatchUpdate"} -> <<"Matches">>
                   [] OTHER -> << >>
<1>3. Emit(ps)
  BY DEF Apply
<1>4. <<"Settings">> \in Seq(Props) /\ <<"Matches">> \in Seq(Props) /\ << >> \in Seq(Props)
  BY DEF Props
<1>5. ps \in Seq(Props)
  BY <1>4
<1>6. /\ r.d = "SettingsUpdate" => Some(ps, {"Settings"})
      /\ r.d \in {"MatchAdd", "MatchDelete", "MatchUpdate"} => Some(ps, {"Matches"})
  BY DEF Some
<1> HIDE DEF ps
<1>7. r.d # "SettingsUpdate" => dm'.config = dm.config
  BY <1>1, <1>2 DEF Apply, Effect, DaemonType
<1>8. r.d \notin {"MatchAdd", "MatchDelete", "MatchUpdate"} => dm'.matches = dm.matches
  BY <1>1, <1>2 DEF Apply, Effect, DaemonType
<1>9. ASSUME NEW p \in Props, Told(p)' PROVE Told(p) /\ Property(p)' = Property(p)
  <2>1. p # "Attached"
    BY <1>1, <1>9 DEF Told
  <2>2. ~Some(ps, {p}) /\ p \notin missed /\ ~Some(signals, {p})
    BY <1>1, <1>3, <1>5, <1>9, EmitTells DEF Told
  <2>3. Told(p)
    BY <1>1, <1>9, <2>1, <2>2 DEF Told, HasRead
  <2>4. Property(p)' = Property(p)
    <3>1. CASE p = "Matches"
      BY <1>6, <1>8, <2>2, <3>1 DEF Property
    <3>2. CASE p = "Settings"
      BY <1>6, <1>7, <2>2, <3>2 DEF Property
    <3> QED
      BY <2>1, <3>1, <3>2 DEF Props
  <2> QED
    BY <2>3, <2>4
<1>10. ASSUME NEW p \in Props PROVE Told(p)' => ReportsValue(p)'
  BY <1>1, <1>9, <1>10, ReportsBeside
<1>11. LinkInv'
  BY <1>1, LinkBeside
<1> QED
  BY <1>10, <1>11 DEF ReportInv

\* The daemon's steps and the changes its clients make.
LEMMA ReportsOfDaemon ==
    ASSUME SystemInv, ReportInv,
           \/ Daemon
           \/ \E i \in DOMAIN calls : CallAccepted(i)
           \/ \E r \in Requests : OtherClient(r)
    PROVE  ReportInv'
<1>1. dm \in DaemonType /\ h \in TasksType /\ CallsOK(calls, h.request) /\ RestOK /\ LinkInv
  BY DEF SystemInv, ReportInv
<1>2. CASE WatchRoutes
  <2> DEFINE x == IF dm.to_dev = NoText THEN None ELSE dm.to_dev
  <2>1. /\ dm' = [dm EXCEPT !.route = x]
        /\ todo' = IF x # None /\ x = dm.route THEN todo \ {"routes"} ELSE {"reload"}
        /\ UNCHANGED <<s, tray, mq, owner, signals, missed, unrolled, h>>
    BY <1>2 DEF WatchRoutes, guiVars, busVars, history
  <2> HIDE DEF x
  <2>2. "reload" \notin todo' => "reload" \notin todo /\ dm' = dm
    BY <1>1, <2>1 DEF DaemonType
  <2>3. dm'.up = dm.up /\ dm'.matches = dm.matches /\ dm'.config = dm.config
    BY <1>1, <2>1 DEF DaemonType
  <2>4. ASSUME NEW p \in Props, Told(p)' PROVE Told(p) /\ Property(p)' = Property(p)
    <3>1. Told(p)
      BY <2>1, <2>2, <2>3, <2>4 DEF Told, HasRead
    <3>2. CASE p = "Attached"
      <4>1. dm' = dm
        BY <2>2, <2>4, <3>2 DEF Told
      <4> QED
        BY <3>1, <4>1 DEF Property, AttachedProp
    <3>3. CASE p # "Attached"
      BY <2>3, <3>1, <3>3 DEF Property, Props
    <3> QED
      BY <3>2, <3>3
  <2>5. ASSUME NEW p \in Props PROVE Told(p)' => ReportsValue(p)'
    BY <2>1, <2>4, ReportsBeside
  <2>6. LinkInv'
    BY <1>1, <2>1, LinkBeside
  <2> QED
    BY <2>5, <2>6 DEF ReportInv
<1>3. CASE WatchReload
  <2>1. /\ dm' = [dm EXCEPT !.attached = TRUE, !.blocker = (dm.route = None)]
        /\ Emit(<<"Attached">>) /\ todo' = todo \ {"reload"}
        /\ UNCHANGED <<s, tray, mq, owner, unrolled, h>>
    BY <1>3 DEF WatchReload, guiVars
  <2>2. dm'.up = dm.up /\ dm'.matches = dm.matches /\ dm'.config = dm.config
    BY <1>1, <2>1 DEF DaemonType
  <2>3. <<"Attached">> \in Seq(Props) /\ Some(<<"Attached">>, {"Attached"})
    BY DEF Props, Some
  <2>4. ASSUME NEW p \in Props, Told(p)' PROVE Told(p) /\ Property(p)' = Property(p)
    <3>1. /\ Some(<<"Attached">>, {p}) => ~Told(p)'
          /\ p \notin missed /\ ~Some(signals, {p})
      BY <2>1, <2>3, <2>4, EmitTells DEF Told
    <3>2. p # "Attached"
      BY <2>3, <2>4, <3>1
    <3>3. Told(p)
      BY <2>1, <2>2, <2>4, <3>1, <3>2 DEF Told, HasRead
    <3> QED
      BY <2>2, <3>2, <3>3 DEF Property, Props
  <2>5. ASSUME NEW p \in Props PROVE Told(p)' => ReportsValue(p)'
    BY <2>1, <2>4, ReportsBeside
  <2>6. LinkInv'
    BY <1>1, <2>1, LinkBeside
  <2> QED
    BY <2>5, <2>6 DEF ReportInv
<1>4. CASE \E i \in DOMAIN calls : CallAccepted(i)
  <2>1. PICK i \in DOMAIN calls : CallAccepted(i)
    BY <1>4
  <2>2. Plain(calls[i].req) /\ Acceptable(calls[i].req) /\ Apply(calls[i].req)
    BY <1>1, <2>1 DEF CallsOK, CallAccepted
  <2>3. h'.pc = h.pc /\ h'.props = h.props /\ h'.err_sent = h.err_sent
    BY <1>1, <2>1 DEF CallAccepted, Answered, TasksType
  <2>4. UNCHANGED <<s, tray, mq>>
    BY <2>1 DEF CallAccepted, guiVars
  <2> QED
    BY <2>2, <2>3, <2>4, ReportsApplied
<1>5. CASE \E r \in Requests : OtherClient(r)
  <2>1. PICK r \in Requests : OtherClient(r)
    BY <1>5
  <2>2. Plain(r)
    BY HarnessAssumption DEF Plain, WindowKinds
  <2>3. Acceptable(r) /\ Apply(r) /\ UNCHANGED <<s, tray, mq, h>>
    BY <2>1 DEF OtherClient, guiVars
  <2> QED
    BY <2>2, <2>3, ReportsApplied
<1> QED
  BY <1>2, <1>3, <1>4, <1>5 DEF Daemon

\* listen_props: a property that is read is shown in the end.
LEMMA ReportsOfListen ==
    ASSUME SystemInv, ReportInv, Listen
    PROVE  ReportInv'
<1>1. dm \in DaemonType /\ h \in TasksType /\ RestOK /\ LinkInv
  BY DEF SystemInv, ReportInv
<1>2. ASSUME NEW q \in Props, h.pc = "online", Send(Property(q)), dm' = dm, UNCHANGED unrolled,
             h'.pc = h.pc, h'.err_sent = h.err_sent,
             \A p \in Props : p # q /\ Told(p)' => Told(p)
      PROVE  ReportInv'
  <2>1. mq' = Append(mq, Property(q)) /\ UNCHANGED <<s, tray>>
    BY <1>2 DEF Send
  <2>2. \A p \in Props : Property(p)' = Property(p)
    BY <1>2 DEF Property, AttachedProp
  <2>3. Property(q) \in Message /\ Property(q).m = q
    BY <1>1, PropertyKind
  <2>4. ASSUME NEW p \in Props PROVE Told(p)' => ReportsValue(p)'
    <3>1. CASE p = q
      BY <1>2, <2>1, <2>2, <3>1, ReportsBeside
    <3>2. CASE p # q
      <4>1. Property(q).m \notin KindsOf(p)
        BY <2>3, <3>2 DEF KindsOf, Gone, Props
      <4>2. Told(p)' => Told(p) /\ Property(p)' = Property(p)
        BY <1>2, <2>2, <3>2
      <4> QED
        BY <1>2, <2>1, <2>3, <4>1, <4>2, ReportsBeside
    <3> QED
      BY <3>1, <3>2
  <2>5. LinkInv'
    <3>1. Property(q).m \notin {"DbusConnected"} \cup Gone
      BY <2>3 DEF Gone, Props
    <3> QED
      BY <1>1, <1>2, <2>1, <2>3, <3>1, LinkBeside
  <2> QED
    BY <2>4, <2>5 DEF ReportInv
<1>3. CASE ReadProperty
  <2> DEFINE q == h.props
             n == NextProp[h.props]
  <2>1. /\ h.pc = "online" /\ q \in Props /\ Send(Property(q))
        /\ h' = [h EXCEPT !.props = n]
        /\ UNCHANGED <<dm, todo, owner, signals, missed, unrolled>>
    BY <1>3 DEF ReadProperty, NextProp, Props, daemonVars, busVars, history
  <2>2. /\ q = "Attached" => n = "Matches"
        /\ q = "Matches" => n = "Settings"
        /\ q = "Settings" => n = "subscribe"
    BY DEF NextProp
  <2> HIDE DEF n
  <2>3. h'.pc = h.pc /\ h'.err_sent = h.err_sent /\ h'.props = n
    BY <1>1, <2>1 DEF TasksType
  <2>4. ASSUME NEW p \in Props, p # q, Told(p)' PROVE Told(p)
    <3>1. HasRead(p)
      BY <2>1, <2>2, <2>3, <2>4 DEF Told, HasRead, Props
    <3> QED
      BY <2>1, <2>3, <2>4, <3>1 DEF Told
  <2> QED
    BY <1>2, <2>1, <2>3, <2>4
<1>4. CASE Subscribe
  <2>1. /\ UNCHANGED <<s, tray, mq, dm, todo, owner, signals, missed, unrolled>>
        /\ h.pc = "online" /\ h.props = "subscribe"
    BY <1>4 DEF Subscribe, guiVars, daemonVars, busVars, history
  <2>2. h'.pc = h.pc /\ h'.err_sent = h.err_sent /\ h'.props = "listen"
    BY <1>1, <1>4 DEF Subscribe, TasksType
  <2>3. ASSUME NEW p \in Props PROVE Told(p)' => ReportsValue(p)'
    <3>1. Told(p)' => Told(p) /\ Property(p)' = Property(p)
      BY <2>1, <2>2 DEF Told, HasRead, Property, AttachedProp, Props
    <3> QED
      BY <2>1, <3>1, ReportsBeside
  <2>4. LinkInv'
    BY <1>1, <2>1, <2>2, LinkBeside
  <2> QED
    BY <2>3, <2>4 DEF ReportInv
<1>5. CASE PropertyChanged
  <2> DEFINE q == Head(signals)
  <2>1. signals # << >> /\ signals \in Seq(Props)
    BY <1>1, <1>5 DEF PropertyChanged, RestOK
  <2>2. q \in Props
    BY <2>1, HeadTailProperties
  <2>3. /\ h.pc = "online" /\ Send(Property(q)) /\ signals' = Tail(signals)
        /\ missed' = missed \ {q} /\ UNCHANGED <<dm, todo, owner, unrolled, h>>
    BY <1>5 DEF PropertyChanged, Reread, daemonVars
  <2>4. ASSUME NEW p \in Props, p # q, Told(p)' PROVE Told(p)
    <3>1. Some(signals, {p}) <=> Some(Tail(signals), {p}) \/ q \in {p}
      BY <2>1, SomeTail
    <3> QED
      BY <2>3, <2>4, <3>1 DEF Told, HasRead
  <2> HIDE DEF q
  <2> QED
    BY <1>2, <2>2, <2>3, <2>4
<1> QED
  BY <1>3, <1>4, <1>5 DEF Listen

\* The settings confirmed, as long as an error has not left edited ones.
LEMMA SettingsKept ==
    ASSUME SystemInv, Remember, KeepsSettings, mq' = mq \/ Head(mq).m # "Settings", ~unrolled'
    PROVE  ~unrolled /\ s'.settings_override = s.settings_override
<1>1. unrolled \in BOOLEAN
  BY DEF SystemInv, RestOK
<1>2. CASE Len(s'.dbus_errs) > Len(s.dbus_errs)
  <2>1. unrolled' = (unrolled \/ s'.settings # s.settings_override)
    BY <1>2 DEF Remember
  <2>2. ~unrolled /\ s'.settings = s.settings_override
    BY <1>1, <2>1, Zenon
  <2> QED
    BY <2>2 DEF KeepsSettings
<1>3. CASE ~(Len(s'.dbus_errs) > Len(s.dbus_errs))
  <2>1. unrolled' = (unrolled /\ ~(mq' # mq /\ Head(mq).m = "Settings"))
    BY <1>3, Zenon DEF Remember
  <2>2. ~unrolled
    BY <1>1, <2>1, Zenon
  <2> QED
    BY <1>3, <2>2 DEF KeepsSettings
<1> QED
  BY <1>2, <1>3

\* update(): what is told is shown, and what is shown stays.
LEMMA ReportsOfUpdate ==
    ASSUME SystemInv, ReportInv, HandleQueued \/ \E w \in Widgets : UserInput(w)
    PROVE  ReportInv'
<1>1. /\ WindowInv /\ mq \in Seq(Message) /\ dm \in DaemonType /\ LinkInv
      /\ Remember /\ UNCHANGED <<dm, todo, owner, signals, h, missed>>
  BY DEF SystemInv, ReportInv, WindowInv, ChannelsOK, HandleQueued, UserInput, daemonVars, busVars
<1>2. \A p \in Props : Told(p)' = Told(p) /\ Property(p)' = Property(p)
  BY <1>1 DEF Told, HasRead, Property, AttachedProp
<1>3. CASE mq' = mq /\ KeepsShown
  <2>1. ASSUME NEW p \in Props, Told(p) PROVE ReportsValue(p)'
    <3> DEFINE v == Property(p).v
               b == ShowsValue(p, v, s, tray, unrolled)
               c == ShowsValue(p, v, s', tray', unrolled')
    <3>1. b => c
      <4>1. CASE p = "Settings"
        BY <1>1, <1>3, <4>1, SettingsKept DEF ShowsValue, KeepsShown
      <4>2. CASE p # "Settings"
        BY <1>3, <4>2 DEF ShowsValue, KeepsShown, KeepsAttached, KeepsMatches, Props
      <4> QED
        BY <4>1, <4>2
    <3>2. Ends(mq, Carries(KindsOf(p)), {Property(p)}, b)
      BY <2>1 DEF ReportInv, ReportsValue
    <3>3. ReportsValue(p)' = Ends(mq', Carries(KindsOf(p)), {Property(p)}, c)
      BY <1>2 DEF ReportsValue, ShowsValue
    <3> HIDE DEF b, c
    <3> QED
      BY <1>3, <3>1, <3>2, <3>3 DEF Ends
  <2>2. LinkInv'
    <3>1. s'.dbus_conn_err = s.dbus_conn_err /\ Away' = Away
      BY <1>3 DEF KeepsShown, KeepsAttached, KeepsMatches, KeepsConn, Away
    <3> QED
      BY <1>1, <1>3, <3>1 DEF LinkInv
  <2> QED
    BY <1>2, <2>1, <2>2 DEF ReportInv
<1>4. CASE mq # << >> /\ mq' = Tail(mq) /\ Shown(Head(mq))
  <2> DEFINE m == Head(mq)
  <2>1. m \in Message
    BY <1>1, <1>4, HeadTailProperties
  <2>2. \A ks : m \in Carries(ks) <=> m.m \in ks
    BY <2>1 DEF Carries
  <2>3. ASSUME NEW p \in Props, Told(p) PROVE ReportsValue(p)'
    <3> DEFINE x == Property(p)
               b == ShowsValue(p, x.v, s, tray, unrolled)
               c == ShowsValue(p, x.v, s', tray', unrolled')
               K == Carries(KindsOf(p))
    <3>1. Ends(mq, K, {x}, b)
      BY <2>3 DEF ReportInv, ReportsValue
    <3>2. ReportsValue(p)' = Ends(mq', K, {x}, c)
      BY <1>2 DEF ReportsValue, ShowsValue
    <3>3. m \in K \cap {x} => c
      <4> SUFFICES ASSUME m = x PROVE c
        OBVIOUS
      <4>1. m.m = p /\ m.v = x.v
        BY <1>1, PropertyKind
      <4> HIDE DEF x
      <4> QED
        BY <1>4, <4>1 DEF ShowsValue, Shown, Props
    <3>4. m \notin K /\ b => c
      <4> SUFFICES ASSUME m.m \notin KindsOf(p), b PROVE c
        BY <2>2
      <4>1. CASE p = "Settings"
        <5>1. m.m # "Settings"
          BY <4>1 DEF KindsOf
        <5>2. KeepsSettings
          BY <1>4, <5>1 DEF Shown
        <5> QED
          BY <1>1, <4>1, <5>1, <5>2, SettingsKept DEF ShowsValue
      <4>2. CASE p = "Attached"
        <5>1. KeepsAttached
          BY <1>4, <4>2 DEF Shown, KindsOf
        <5> QED
          BY <4>2, <5>1 DEF ShowsValue, KeepsAttached
      <4>3. CASE p = "Matches"
        <5>1. KeepsMatches
          BY <1>4, <4>3 DEF Shown, KindsOf
        <5> QED
          BY <4>3, <5>1 DEF ShowsValue, KeepsMatches
      <4> QED
        BY <4>1, <4>2, <4>3 DEF Props
    <3> HIDE DEF x, b, c, K
    <3>5. Ends(Tail(mq), K, {x}, c)
      BY <1>1, <1>4, <3>1, <3>3, <3>4, EndsTail
    <3> QED
      BY <1>4, <3>2, <3>5
  <2>4. LinkInv'
    <3>1. ASSUME h.pc = "online"
          PROVE  Ends(mq', Carries({"DbusConnected"} \cup Gone), Carries({"DbusConnected"}),
                      s'.dbus_conn_err = None)
      <4> DEFINE K == Carries({"DbusConnected"} \cup Gone)
                 V == Carries({"DbusConnected"})
                 b == s.dbus_conn_err = None
                 c == s'.dbus_conn_err = None
      <4>1. Ends(mq, K, V, b)
        BY <1>1, <3>1 DEF LinkInv
      <4>2. m \in K \cap V => c
        BY <1>4, <2>2 DEF Shown
      <4>3. m \notin K /\ b => c
        BY <1>4, <2>2 DEF Shown, KeepsConn
      <4> HIDE DEF K, V, b, c
      <4>4. Ends(Tail(mq), K, V, c)
        BY <1>1, <1>4, <4>1, <4>2, <4>3, EndsTail
      <4> QED
        BY <1>4, <4>4 DEF K, V, c
    <3>2. ASSUME h.err_sent
          PROVE  Ends(mq', Carries({"Attached", "Matches", "DbusConnected"} \cup Gone),
                      Carries(Gone), Away')
      <4> DEFINE K == Carries({"Attached", "Matches", "DbusConnected"} \cup Gone)
                 V == Carries(Gone)
                 b == Away
                 c == Away'
      <4>1. Ends(mq, K, V, b)
        BY <1>1, <3>2 DEF LinkInv
      <4>2. m \in K \cap V => c
        BY <1>4, <2>2 DEF Shown
      <4>3. m \notin K /\ b => c
        <5> SUFFICES ASSUME m.m \notin {"Attached", "Matches", "DbusConnected"} \cup Gone, Away
                     PROVE  Away'
          BY <2>2
        <5>1. KeepsAttached /\ KeepsMatches /\ KeepsConn
          BY <1>4 DEF Shown
        <5> QED
          BY <5>1 DEF KeepsAttached, KeepsMatches, KeepsConn, Away
      <4> HIDE DEF K, V, b, c
      <4>4. Ends(Tail(mq), K, V, c)
        BY <1>1, <1>4, <4>1, <4>2, <4>3, EndsTail
      <4> QED
        BY <1>4, <4>4 DEF K, V, c
    <3> QED
      BY <1>1, <3>1, <3>2 DEF LinkInv
  <2> QED
    BY <1>2, <2>3, <2>4 DEF ReportInv
<1>5. CASE Exit
  BY <1>3, <1>5 DEF Exit, KeepsShown, KeepsAttached, KeepsMatches, KeepsConn, KeepsSettings
<1>6. CASE HandleClick \/ \E w \in Widgets : InputTo(w)
  BY <1>1, <1>3, <1>6, InputShows
<1>7. CASE HandleMessage /\ ~Exit
  BY <1>1, <1>4, <1>7, MessageShows
<1> QED
  BY <1>5, <1>6, <1>7 DEF HandleQueued, UserInput

\* What is queued and not yet read accounts for all that the window does not
\* show.
LEMMA ReportInvariant == Spec => []ReportInv
<1>1. Init => ReportInv
  <2> SUFFICES ASSUME Init PROVE ReportInv
    OBVIOUS
  <2>1. h.pc \in {"probe", "ended"} /\ h.props = "Attached" /\ ~h.err_sent
    BY DEF Init
  <2>2. LinkInv
    BY <2>1 DEF LinkInv
  <2> QED
    BY <2>1, <2>2 DEF ReportInv, Told
<1>2. SystemInv /\ ReportInv /\ [Next]_vars => ReportInv'
  <2> SUFFICES ASSUME SystemInv, ReportInv, [Next]_vars PROVE ReportInv'
    OBVIOUS
  <2>1. CASE UNCHANGED vars
    <3>1. Idle
      BY <2>1 DEF vars, guiVars, daemonVars, busVars, history, Idle
    <3> QED
      BY <3>1, ReportsIdle
  <2>2. CASE HandleQueued \/ \E w \in Widgets : UserInput(w)
    BY <2>2, ReportsOfUpdate
  <2>3. CASE Daemon \/ Answer
    BY <2>3, ReportsOfDaemon, IdleSteps, ReportsIdle DEF Answer
  <2>4. CASE World
    BY <2>4, ReportsOfDaemon, ReportsOfHarness, IdleSteps, ReportsIdle DEF World
  <2>5. CASE Harness
    BY <2>5, ReportsOfHarness, IdleSteps, ReportsIdle DEF Harness
  <2>6. CASE Listen
    BY <2>6, ReportsOfListen
  <2>7. CASE Process \/ PollEnd
    BY <2>7, IdleSteps, ReportsIdle
  <2> QED
    BY <2>1, <2>2, <2>3, <2>4, <2>5, <2>6, <2>7, NextCases
<1> QED
  BY <1>1, <1>2, SystemInvariant, PTL DEF Spec

\* Once nothing is queued or under way, the window and the icon show the
\* daemon's state, or say that there is none: however reads, signals, answers,
\* errors and reconnections followed each other.
THEOREM DaemonAlwaysShown == Spec => []ShowsDaemon
<1>1. SystemInv /\ ReportInv => ShowsDaemon
  <2> SUFFICES ASSUME SystemInv, ReportInv PROVE ShowsDaemon
    OBVIOUS
  <2>1. LinkInv
    BY DEF ReportInv
  <2>2. ASSUME Quiet, Online
        PROVE  /\ "Attached" \notin missed => s.attached = AttachedProp /\ tray = TrayOf(AttachedProp)
               /\ "Matches" \notin missed => s.matches = dm.matches
               /\ "Settings" \notin missed /\ ~unrolled => s.settings_override = dm.config
               /\ s.dbus_conn_err = None
    <3>1. mq = << >> /\ signals = << >> /\ owner = 0 /\ todo = {}
      BY <2>2 DEF Quiet
    <3>2. \A p : ~Some(<< >>, {p})
      BY DEF Some
    <3>3. ASSUME NEW p \in Props, p \notin missed
          PROVE  ShowsValue(p, Property(p).v, s, tray, unrolled)
      <4>1. Told(p)
        BY <2>2, <3>1, <3>2, <3>3 DEF Online, Told, HasRead, Props
      <4> DEFINE b == ShowsValue(p, Property(p).v, s, tray, unrolled)
      <4>2. Ends(<< >>, Carries(KindsOf(p)), {Property(p)}, b)
        BY <3>1, <4>1 DEF ReportInv, ReportsValue
      <4> HIDE DEF b
      <4>3. b
        BY <4>2, EndsEmpty
      <4> QED
        BY <4>3 DEF b
    <3>4. s.dbus_conn_err = None
      <4> DEFINE b == s.dbus_conn_err = None
      <4>1. Ends(<< >>, Carries({"DbusConnected"} \cup Gone), Carries({"DbusConnected"}), b)
        BY <2>1, <2>2, <3>1 DEF LinkInv, Online
      <4> HIDE DEF b
      <4>2. b
        BY <4>1, EndsEmpty
      <4> QED
        BY <4>2 DEF b
    <3>5. /\ Property("Attached").v = AttachedProp
          /\ Property("Matches").v = dm.matches
          /\ Property("Settings").v = dm.config
      BY DEF Property, Msg
    <3>6. {"Attached", "Matches", "Settings"} = Props
      BY DEF Props
    <3> QED
      BY <3>3, <3>4, <3>5, <3>6 DEF ShowsValue
  <2>3. ASSUME h.pc = "offline", mq = << >> PROVE Away
    <3>1. Ends(<< >>, Carries({"Attached", "Matches", "DbusConnected"} \cup Gone), Carries(Gone), Away)
      BY <2>1, <2>3 DEF LinkInv
    <3> QED
      BY <3>1, EndsEmpty
  <2> QED
    BY <2>2, <2>3 DEF ShowsDaemon, Away
<1> QED
  BY <1>1, SystemInvariant, ReportInvariant, PTL

-----------------------------------------------------------------------------
(* The output that was asked for *)

WantedOutput == {c \in CallType : c.wanted /\ c.req.d = "ChangeOutput"}

\* A request for an output, or the report of a failed one, is under way.
Asking ==
    h.request = "failed" \/ Some(calls, WantedOutput) \/ Some(dq, Asks("ChangeOutput"))

OutputKinds == {"Attached", "DbusErr"} \cup Gone

\* Whatever the field still shows of it is replaced by a message that waits,
\* unless the daemon or the bus has more to tell.
OutputInv ==
    Told("Attached") /\ ~Asking =>
        Ends(mq, Carries(OutputKinds), Carries({"Attached", "DbusErr"}), Resolved(s))

-----------------------------------------------------------------------------
\* A step beside the window: no answer is lost, or the message that clears the
\* field is sent.
LEMMA OutputBeside ==
    ASSUME SystemInv, OutputInv, s' = s,
           \/ /\ Told("Attached")' => Told("Attached") /\ (Asking => Asking')
              /\ \/ mq' = mq
                 \/ \E m \in Message : m.m \notin OutputKinds /\ mq' = Append(mq, m)
           \/ \E m \in Message : m.m \in {"Attached", "DbusErr"} /\ mq' = Append(mq, m)
    PROVE  OutputInv'
<1> SUFFICES ASSUME Told("Attached")', ~Asking'
             PROVE  Ends(mq', Carries(OutputKinds), Carries({"Attached", "DbusErr"}), Resolved(s'))
  BY DEF OutputInv
<1> DEFINE b == Resolved(s)
<1>1. mq \in Seq(Message) /\ Resolved(s') = b
  BY DEF SystemInv, WindowInv, ChannelsOK, Resolved
<1>2. CASE \E m \in Message : m.m \in {"Attached", "DbusErr"} /\ mq' = Append(mq, m)
  <2>1. PICK m \in Message : m.m \in {"Attached", "DbusErr"} /\ mq' = Append(mq, m)
    BY <1>2
  <2>2. m.m \in OutputKinds /\ m \in Carries({"Attached", "DbusErr"})
    BY <2>1 DEF OutputKinds, Carries
  <2> HIDE DEF b
  <2>3. Ends(mq', Carries(OutputKinds), Carries({"Attached", "DbusErr"}), b)
    BY <1>1, <2>1, <2>2, EndsGood
  <2> QED
    BY <1>1, <2>3
<1>3. CASE /\ Told("Attached") /\ ~Asking
           /\ \/ mq' = mq
              \/ \E m \in Message : m.m \notin OutputKinds /\ mq' = Append(mq, m)
  <2>1. Ends(mq, Carries(OutputKinds), Carries({"Attached", "DbusErr"}), b)
    BY <1>3 DEF OutputInv
  <2> HIDE DEF b
  <2>2. Ends(mq', Carries(OutputKinds), Carries({"Attached", "DbusErr"}), b)
    BY <1>1, <1>3, <2>1, EndsKept
  <2> QED
    BY <1>1, <2>2
<1> QED
  BY <1>2, <1>3

\* A request waits in the queue, in a call that is wanted, or has failed.
LEMMA AskingKept ==
    ASSUME SystemInv, Asking, h'.request = "failed" \/ h.request # "failed" \/ h'.request = h.request,
           calls' = calls \/ \E c \in CallType : calls' = Append(calls, c),
           dq' = dq \/ \E r \in Request : dq' = Append(dq, r)
    PROVE  Asking'
<1>1. dq \in Seq(Request) /\ calls \in Seq(CallType)
  BY DEF SystemInv, WindowInv, ChannelsOK, CallsOK
<1>2. Some(calls, WantedOutput) => Some(calls', WantedOutput)
  <2>1. CASE calls' = calls
    BY <2>1 DEF WantedOutput
  <2>2. CASE \E c \in CallType : calls' = Append(calls, c)
    <3>1. PICK c \in CallType : calls' = Append(calls, c)
      BY <2>2
    <3> QED
      BY <1>1, <3>1, SomeAppend
  <2> QED
    BY <2>1, <2>2
<1>3. Some(dq, Asks("ChangeOutput")) => Some(dq', Asks("ChangeOutput"))
  <2>1. CASE dq' = dq
    BY <2>1
  <2>2. CASE \E r \in Request : dq' = Append(dq, r)
    <3>1. PICK r \in Request : dq' = Append(dq, r)
      BY <2>2
    <3> QED
      BY <1>1, <3>1, SomeAppend
  <2> QED
    BY <2>1, <2>2
<1> QED
  BY <1>2, <1>3 DEF Asking, WantedOutput, Asks

\* process_requests: a request taken from the queue becomes a call that is
\* wanted, or fails.
LEMMA AskingTaken ==
    ASSUME SystemInv, TakeRequest, dm.up, Asking
    PROVE  Asking'
<1>1. dq \in Seq(Request) /\ calls \in Seq(CallType) /\ h.request = "idle"
  BY DEF SystemInv, WindowInv, ChannelsOK, CallsOK, TakeRequest
<1>2. dq # << >> /\ dq' = Tail(dq)
  BY DEF TakeRequest, TakeWindowOpened, TakeWindowClosed, TakeCall, Receive
<1>3. Some(dq, Asks("ChangeOutput")) <=> Some(dq', Asks("ChangeOutput")) \/ Head(dq) \in Asks("ChangeOutput")
  BY <1>1, <1>2, SomeTail
<1>4. Head(dq) \in Request
  BY <1>1, <1>2, HeadTailProperties
<1>5. CASE TakeCall
  <2> DEFINE c == [req |-> Head(dq), wanted |-> TRUE]
  <2>1. calls' = Append(calls, c)
    BY <1>5 DEF TakeCall
  <2>2. /\ c \in CallType
        /\ Head(dq) \in Asks("ChangeOutput") => c \in WantedOutput
    BY <1>4 DEF Asks, WantedOutput, CallType
  <2> HIDE DEF c
  <2>3. Some(calls', WantedOutput) <=> Some(calls, WantedOutput) \/ c \in WantedOutput
    BY <1>1, <2>1, <2>2, SomeAppend
  <2> QED
    BY <1>1, <1>3, <2>2, <2>3 DEF Asking, WantedOutput, Asks
<1>6. CASE TakeWindowOpened \/ TakeWindowClosed
  <2>1. calls' = calls /\ Head(dq) \notin Asks("ChangeOutput")
    BY <1>6 DEF TakeWindowOpened, TakeWindowClosed, Asks
  <2> QED
    BY <1>1, <1>3, <2>1 DEF Asking, WantedOutput, Asks
<1> QED
  BY <1>5, <1>6 DEF TakeRequest

\* Steps of the tray, of polls and of requests.
LEMMA OutputIdle ==
    ASSUME SystemInv, OutputInv,
           \/ \E i \in DOMAIN calls : CallRefused(i)
           \/ TrayActivate \/ \E id \in {"Enable", "Disable", "Quit"} : TrayMenu(id)
           \/ PollStart \/ PollEnd \/ ProbeDrops \/ Process
    PROVE  OutputInv'
<1>1. h \in TasksType /\ calls \in Seq(CallType)
  BY DEF SystemInv, CallsOK
<1>2. Idle
  BY IdleSteps
<1>3. s' = s /\ Told("Attached")' = Told("Attached")
  BY <1>2 DEF Idle, Told, HasRead
<1>4. ASSUME Told("Attached") => (Asking => Asking') PROVE OutputInv'
  <2>1. \/ mq' = mq
        \/ \E m \in Message : m.m \notin OutputKinds /\ mq' = Append(mq, m)
        \/ \E m \in Message : m.m \in {"Attached", "DbusErr"} /\ mq' = Append(mq, m)
    BY <1>2 DEF Idle, OutputKinds, Gone
  <2> QED
    BY <1>3, <1>4, <2>1, OutputBeside
<1>5. Msg("DbusErr", "refused") \in Message /\ Msg("DbusErr", "lost") \in Message
  BY DEF Msg, Message, Errors
<1>6. ASSUME NEW err, Msg("DbusErr", err) \in Message, Send(Msg("DbusErr", err)) PROVE OutputInv'
  <2>1. \E m \in Message : m.m \in {"Attached", "DbusErr"} /\ mq' = Append(mq, m)
    BY <1>6 DEF Send, Msg
  <2> QED
    BY <1>3, <2>1, OutputBeside
<1>7. CASE \E i \in DOMAIN calls : CallRefused(i)
  <2>1. PICK i \in DOMAIN calls : CallRefused(i)
    BY <1>7
  <2>2. CASE calls[i].wanted
    BY <1>5, <1>6, <2>1, <2>2 DEF CallRefused
  <2>3. CASE ~calls[i].wanted
    <3>1. i \in 1..Len(calls) /\ calls[i] \notin WantedOutput
      BY <1>1, <2>3, LenProperties DEF WantedOutput
    <3>2. calls' = RemoveAt(calls, i) /\ h' = h /\ dq' = dq
      BY <2>1, <2>3 DEF CallRefused, Answered, guiVars
    <3>3. Some(calls, WantedOutput) => Some(calls', WantedOutput)
      BY <1>1, <3>1, <3>2, SomeRemove
    <3> QED
      BY <1>4, <3>2, <3>3 DEF Asking, WantedOutput, Asks
  <2> QED
    BY <2>2, <2>3
<1>8. CASE RequestFailed
  BY <1>5, <1>6, <1>8 DEF RequestFailed
<1>9. CASE TrayActivate
  BY <1>4, <1>9, AskingKept DEF TrayActivate, Send, busVars
<1>10. CASE \E id \in {"Enable", "Disable", "Quit"} : TrayMenu(id)
  <2>1. PICK id \in {"Enable", "Disable", "Quit"} : TrayMenu(id)
    BY <1>10
  <2>2. Req("Enable", None) \in Request /\ Req("Disable", None) \in Request
    BY DEF Req, Request
  <2>3. UNCHANGED <<h, calls>> /\ (dq' = dq \/ \E r \in Request : dq' = Append(dq, r))
    BY <2>1, <2>2 DEF TrayMenu, Send, busVars
  <2> QED
    BY <1>4, <2>3, AskingKept
<1>11. CASE PollStart \/ PollEnd
  <2>1. h'.request = h.request /\ UNCHANGED <<calls, dq>>
    BY <1>1, <1>11 DEF PollStart, PollEnd, Send, guiVars, busVars, TasksType
  <2> QED
    BY <1>4, <2>1, AskingKept
<1>12. CASE ProbeDrops
  BY <1>4, <1>12 DEF ProbeDrops, Told
<1>13. CASE TakeRequest
  BY <1>4, <1>13, AskingTaken DEF Told
<1>14. CASE CloseTakesPermit
  <2>1. h.request # "failed" /\ UNCHANGED <<calls, dq>>
    BY <1>14 DEF CloseTakesPermit, guiVars, busVars
  <2> QED
    BY <1>4, <2>1, AskingKept
<1> QED
  BY <1>7, <1>8, <1>9, <1>10, <1>11, <1>12, <1>13, <1>14 DEF Process

\* The daemon, its other clients, and a connection that is made or lost: there
\* is an answer or a property still to come.
LEMMA OutputOfDaemon ==
    ASSUME SystemInv, ReportInv, OutputInv,
           \/ Daemon \/ \E i \in DOMAIN calls : CallAccepted(i)
           \/ \E r \in Requests : OtherClient(r)
           \/ DaemonStop \/ DaemonStart \/ ProbeOk \/ ProbeFails
           \/ OfflineWakes \/ OwnerChanged \/ ListenFails
    PROVE  OutputInv'
<1>1. h \in TasksType /\ dm \in DaemonType /\ owner \in Nat /\ LinkInv
  BY DEF SystemInv, RestOK, ReportInv
<1>2. ASSUME ~Told("Attached")' PROVE OutputInv'
  BY <1>2 DEF OutputInv
<1>3. CASE WatchRoutes
  <2>1. /\ UNCHANGED <<s, mq, dq, owner, signals, calls, h, missed>>
        /\ dm'.up = dm.up /\ ("reload" \in todo => "reload" \in todo')
    BY <1>1, <1>3 DEF WatchRoutes, guiVars, busVars, history, DaemonType
  <2>2. Told("Attached")' => Told("Attached")
    BY <2>1 DEF Told, HasRead
  <2>3. Asking => Asking'
    BY <2>1, AskingKept
  <2> QED
    BY <2>1, <2>2, <2>3, OutputBeside
<1>4. CASE WatchReload
  <2>1. Emit(<<"Attached">>) /\ UNCHANGED <<owner, h>>
    BY <1>4 DEF WatchReload
  <2>2. <<"Attached">> \in Seq(Props) /\ "Attached" \in Props
    BY DEF Props
  <2>3. Some(<<"Attached">>, {"Attached"})
    BY DEF Some
  <2> QED
    BY <1>2, <2>1, <2>2, <2>3, EmitTells
<1>5. CASE \/ \E i \in DOMAIN calls : CallAccepted(i)
           \/ \E r \in Requests : OtherClient(r)
  <2>1. "reload" \in todo'
    BY <1>5 DEF CallAccepted, OtherClient, Apply
  <2> QED
    BY <1>2, <2>1 DEF Told
<1>6. CASE DaemonStop \/ DaemonStart
  <2>1. owner' # 0
    BY <1>1, <1>6 DEF DaemonStop, DaemonStart
  <2> QED
    BY <1>2, <2>1 DEF Told
<1>7. CASE ProbeFails \/ OfflineWakes \/ OwnerChanged \/ ListenFails
  <2>1. h'.pc # "online"
    BY <1>1, <1>7 DEF ProbeFails, OfflineWakes, OwnerChanged, ListenFails, DropTasks, TasksType
  <2> QED
    BY <1>2, <2>1 DEF Told
<1>8. CASE ProbeOk
  <2>1. h'.props = "Attached"
    BY <1>1, <1>8 DEF ProbeOk, TasksType, LinkInv
  <2> QED
    BY <1>2, <2>1 DEF Told, HasRead
<1> QED
  BY <1>3, <1>4, <1>5, <1>6, <1>7, <1>8 DEF Daemon

\* listen_props: a report of the output in use clears the field.
LEMMA OutputOfListen ==
    ASSUME SystemInv, OutputInv, Listen
    PROVE  OutputInv'
<1>1. dm \in DaemonType /\ h \in TasksType /\ RestOK
  BY DEF SystemInv
<1>2. ASSUME NEW q \in Props, Send(Property(q)), h'.request = h.request, calls' = calls,
             q # "Attached" /\ Told("Attached")' => Told("Attached")
      PROVE  OutputInv'
  <2>1. mq' = Append(mq, Property(q)) /\ s' = s /\ dq' = dq
    BY <1>2 DEF Send
  <2>2. Property(q) \in Message /\ Property(q).m = q
    BY <1>1, PropertyKind
  <2>3. q = "Attached" \/ q \notin OutputKinds
    BY DEF OutputKinds, Gone, Props
  <2>4. Asking => Asking'
    BY <1>2, <2>1, AskingKept
  <2>5. CASE q = "Attached"
    <3>1. \E m \in Message : m.m \in {"Attached", "DbusErr"} /\ mq' = Append(mq, m)
      BY <2>1, <2>2, <2>5
    <3> QED
      BY <2>1, <3>1, OutputBeside
  <2>6. CASE q # "Attached"
    <3>1. \E m \in Message : m.m \notin OutputKinds /\ mq' = Append(mq, m)
      BY <2>1, <2>2, <2>3, <2>6
    <3> QED
      BY <1>2, <2>1, <2>4, <2>6, <3>1, OutputBeside
  <2> QED
    BY <2>5, <2>6
<1>3. CASE ReadProperty
  <2> DEFINE q == h.props
  <2>1. /\ q \in Props /\ Send(Property(q)) /\ h.pc = "online"
        /\ UNCHANGED <<dm, todo, owner, signals, calls, missed>>
    BY <1>3 DEF ReadProperty, NextProp, Props, daemonVars, busVars, history
  <2>2. h'.request = h.request /\ h'.pc = h.pc
    BY <1>1, <1>3 DEF ReadProperty, TasksType
  <2>3. q # "Attached" /\ Told("Attached")' => Told("Attached")
    BY <2>1, <2>2 DEF Told, HasRead
  <2> HIDE DEF q
  <2> QED
    BY <1>2, <2>1, <2>2, <2>3
<1>4. CASE Subscribe
  <2>1. /\ UNCHANGED <<s, mq, dq, dm, todo, owner, signals, calls, missed>>
        /\ h.props = "subscribe"
    BY <1>4 DEF Subscribe, guiVars, daemonVars, busVars, history
  <2>2. h'.request = h.request /\ h'.pc = h.pc
    BY <1>1, <1>4 DEF Subscribe, TasksType
  <2>3. Told("Attached")' => Told("Attached")
    BY <2>1, <2>2 DEF Told, HasRead
  <2>4. Asking => Asking'
    BY <2>1, <2>2, AskingKept
  <2> QED
    BY <2>1, <2>3, <2>4, OutputBeside
<1>5. CASE PropertyChanged
  <2> DEFINE q == Head(signals)
  <2>1. signals # << >> /\ signals \in Seq(Props)
    BY <1>1, <1>5 DEF PropertyChanged, RestOK
  <2>2. q \in Props
    BY <2>1, HeadTailProperties
  <2>3. /\ Send(Property(q)) /\ signals' = Tail(signals)
        /\ missed' = missed \ {q} /\ UNCHANGED <<dm, todo, owner, calls, h>>
    BY <1>5 DEF PropertyChanged, Reread, daemonVars
  <2>4. Some(signals, {"Attached"}) <=> Some(Tail(signals), {"Attached"}) \/ q \in {"Attached"}
    BY <2>1, SomeTail
  <2>5. q # "Attached" /\ Told("Attached")' => Told("Attached")
    BY <2>3, <2>4 DEF Told, HasRead
  <2> HIDE DEF q
  <2> QED
    BY <1>2, <2>2, <2>3, <2>5
<1> QED
  BY <1>3, <1>4, <1>5 DEF Listen

\* update(): a name is left in the field only together with its request, and
\* a report or an error clears it.
LEMMA OutputOfUpdate ==
    ASSUME SystemInv, OutputInv, HandleQueued \/ \E w \in Widgets : UserInput(w)
    PROVE  OutputInv'
<1>1. /\ WindowInv /\ mq \in Seq(Message) /\ dq \in Seq(Request)
      /\ UNCHANGED <<dm, todo, owner, signals, calls, h, missed>>
  BY DEF SystemInv, WindowInv, ChannelsOK, HandleQueued, UserInput, daemonVars, busVars
<1>2. GuiStep
  BY DEF HandleQueued, UserInput, GuiStep
<1>3. dq' = dq \/ \E r \in Request : dq' = Append(dq, r)
  <2>1. Req("WindowOpened", None) \in Request /\ Req("WindowClosed", None) \in Request
    BY DEF Req, Request
  <2> QED
    BY <1>1, <1>2, <2>1, GuiStepGood DEF Stays, Opens, Closes
<1>4. Told("Attached")' = Told("Attached") /\ (Asking => Asking')
  BY <1>1, <1>3, AskingKept DEF Told, HasRead
<1>5. ASSUME KeepsOutput, ~Asking' PROVE Resolved(s) => Resolved(s')
  <2>1. ASSUME NEW r \in Request, r.d = "ChangeOutput", dq' = Append(dq, r) PROVE FALSE
    <3>1. Some(dq', Asks("ChangeOutput"))
      BY <1>1, <2>1, SomeAppend DEF Asks
    <3> QED
      BY <1>5, <3>1 DEF Asking, Asks
  <2> QED
    BY <1>5, <2>1 DEF KeepsOutput
<1> SUFFICES ASSUME Told("Attached")', ~Asking'
             PROVE  Ends(mq', Carries(OutputKinds), Carries({"Attached", "DbusErr"}), Resolved(s'))
  BY DEF OutputInv
<1> DEFINE K == Carries(OutputKinds)
           V == Carries({"Attached", "DbusErr"})
           b == Resolved(s)
           c == Resolved(s')
<1>6. Ends(mq, K, V, b)
  BY <1>4 DEF OutputInv
<1>7. CASE mq' = mq /\ KeepsOutput
  <2>1. b => c
    BY <1>5, <1>7
  <2> HIDE DEF b, c, K, V
  <2>2. Ends(mq', K, V, c)
    BY <1>6, <1>7, <2>1 DEF Ends
  <2> QED
    BY <2>2 DEF c, K, V
<1>8. CASE mq # << >> /\ mq' = Tail(mq) /\ Shown(Head(mq))
  <2> DEFINE m == Head(mq)
  <2>1. m \in Message
    BY <1>1, <1>8, HeadTailProperties
  <2>2. m \in K \cap V => c
    BY <1>8 DEF Carries, Shown
  <2>3. m \notin K /\ b => c
    <3> SUFFICES ASSUME m.m \notin OutputKinds, b PROVE c
      BY <2>1 DEF Carries
    <3>1. KeepsOutput
      BY <1>8 DEF Shown, OutputKinds
    <3> QED
      BY <1>5, <3>1
  <2> HIDE DEF b, c, K, V
  <2>4. Ends(Tail(mq), K, V, c)
    BY <1>1, <1>6, <1>8, <2>2, <2>3, EndsTail
  <2> QED
    BY <1>8, <2>4 DEF c, K, V
<1>9. CASE Exit
  <2>1. mq' = mq /\ KeepsOutput
    BY <1>9 DEF Exit, KeepsOutput
  <2> QED
    BY <1>7, <2>1
<1>10. CASE HandleClick \/ \E w \in Widgets : InputTo(w)
  BY <1>1, <1>7, <1>10, InputShows
<1>11. CASE HandleMessage /\ ~Exit
  BY <1>1, <1>8, <1>11, MessageShows
<1> QED
  BY <1>2, <1>9, <1>10, <1>11 DEF GuiStep

\* The name of an output that was submitted does not stay in the field once it
\* was refused, was dropped by a reconnection or was replaced: every way to
\* lose the request is followed by a report or by an error.
THEOREM OutputAlwaysResolved == Spec => []OutputResolved
<1>1. Init => OutputInv
  BY DEF Init, OutputInv, Told
<1>2. SystemInv /\ ReportInv /\ OutputInv /\ [Next]_vars => OutputInv'
  <2> SUFFICES ASSUME SystemInv, ReportInv, OutputInv, [Next]_vars PROVE OutputInv'
    OBVIOUS
  <2>1. CASE UNCHANGED vars
    <3>1. UNCHANGED <<s, mq, dq, dm, todo, owner, signals, calls, h, missed>>
      BY <2>1 DEF vars, guiVars, daemonVars, busVars, history
    <3>2. Told("Attached")' = Told("Attached") /\ (Asking => Asking')
      BY <3>1, AskingKept DEF Told, HasRead
    <3> QED
      BY <3>1, <3>2, OutputBeside
  <2>2. CASE HandleQueued \/ \E w \in Widgets : UserInput(w)
    BY <2>2, OutputOfUpdate
  <2>3. CASE Daemon \/ Answer
    BY <2>3, OutputOfDaemon, OutputIdle DEF Answer
  <2>4. CASE World
    BY <2>4, OutputOfDaemon, OutputIdle DEF World
  <2>5. CASE Harness
    BY <2>5, OutputOfDaemon, OutputIdle DEF Harness
  <2>6. CASE Listen
    BY <2>6, OutputOfListen
  <2>7. CASE Process \/ PollEnd
    BY <2>7, OutputIdle
  <2> QED
    BY <2>1, <2>2, <2>3, <2>4, <2>5, <2>6, <2>7, NextCases
<1>3. OutputInv => OutputResolved
  <2> SUFFICES ASSUME OutputInv, Quiet, Online, "Attached" \notin missed PROVE Resolved(s)
    BY DEF OutputResolved, Resolved
  <2>1. mq = << >> /\ dq = << >> /\ signals = << >> /\ calls = << >> /\ owner = 0 /\ todo = {}
    BY DEF Quiet
  <2>2. \A P : ~Some(<< >>, P)
    BY DEF Some
  <2>3. Told("Attached") /\ ~Asking
    BY <2>1, <2>2 DEF Quiet, Online, Told, HasRead, Asking
  <2> DEFINE b == Resolved(s)
  <2>4. Ends(<< >>, Carries(OutputKinds), Carries({"Attached", "DbusErr"}), b)
    BY <2>1, <2>3 DEF OutputInv
  <2> HIDE DEF b
  <2>5. b
    BY <2>4, EndsEmpty
  <2> QED
    BY <2>5 DEF b
<1> QED
  BY <1>1, <1>2, <1>3, SystemInvariant, ReportInvariant, PTL DEF Spec
===============================================================================
