------------------------------ MODULE NiriState ------------------------------
(***************************************************************************)
(* What the shell renders from (src/niri/NiriState), kept in step with the *)
(* compositor by the events of NiriEventStream alone, and the copies QML   *)
(* binds to (src/niri/NiriService), kept in step by NiriState's signals.   *)
(*                                                                         *)
(* niri knows one focused window, one focused output and one active        *)
(* workspace per output; its events say what changed; the model keeps      *)
(* flags on windows and workspaces and nothing else.  The outputs come     *)
(* from NiriOutputs, which is a module of its own.                         *)
(*                                                                         *)
(* A window is its id, the workspace it is on, and its focus and urgency:  *)
(* a change of its title is a change like one of its workspace.  The order *)
(* of the lists is a function of their content and is left out.            *)
(***************************************************************************)
EXTENDS Integers, Sequences, FiniteSets, SequencesExt

CONSTANTS
    Windows, Workspaces, OutputNames,   \* ids and names niri may use
    LayoutCounts,   \* how many keyboard layouts it may have
    Traffic     \* bound: in one behaviour the events of one of these happen, besides
                \* the initial burst, they concern its windows and workspaces, and
                \* niri changes only while fewer than its lag are unread

ASSUME StateAssumption ==
    /\ Windows \subseteq Nat \ {0}
    /\ LayoutCounts \subseteq Nat \ {0} /\ LayoutCounts # {}
    /\ \A t \in Traffic : t.windows \subseteq Windows /\ t.workspaces \subseteq Workspaces

VARIABLES
    traffic,   \* which of Traffic this behaviour has
    niri,      \* the compositor's state
    stream,    \* "subscribed" from niri's accepting the subscription, else "closed"
    events,    \* what niri has sent and the shell has not read
    state,     \* NiriState's members
    service,   \* NiriService's members
    signals    \* NiriState's signals in the last dispatch

vars == <<traffic, niri, stream, events, state, service, signals>>

None == 0

\* Functions from some of the elements of S.
Partial(S, T) == UNION {[D -> T] : D \in SUBSET S}

Without(f, x) == [y \in DOMAIN f \ {x} |-> f[y]]

With(f, x, v) == [y \in DOMAIN f \cup {x} |-> IF y = x THEN v ELSE f[y]]

-----------------------------------------------------------------------------
(* The compositor, as far as its events tell of it. *)

\* place: the output of each workspace; active: the active workspace of each output
\* that has one; on: the workspace of each window; urgent: what wants attention.
Niri == [place : Partial(Workspaces, OutputNames),
         active : Partial(OutputNames, Workspaces),
         focusedOutput : OutputNames \cup {None},
         holds : [Workspaces -> Windows \cup {None}],
         on : Partial(Windows, Workspaces), focus : Windows \cup {None},
         urgent : [windows : SUBSET Windows, workspaces : SUBSET Workspaces],
         layouts : UNION {[count : {n}, index : 0..n - 1] : n \in LayoutCounts},
         overview : BOOLEAN, configFailed : BOOLEAN]

\* An output with workspaces has one of them active, the focused output has one,
\* and a focused window is there.
Consistent(n) ==
    /\ \A o \in DOMAIN n.active : \E w \in DOMAIN n.place : n.active[o] = w /\ n.place[w] = o
    /\ {n.place[w] : w \in DOMAIN n.place} = DOMAIN n.active
    /\ n.focusedOutput \in DOMAIN n.active \cup {None}
    /\ n.focus \in DOMAIN n.on \cup {None}

WorkspacesOf(n) ==
    [w \in DOMAIN n.place |->
        LET active == n.place[w] \in DOMAIN n.active /\ n.active[n.place[w]] = w
        IN  [output |-> n.place[w], active |-> active,
             focused |-> active /\ n.focusedOutput = n.place[w],
             urgent |-> w \in n.urgent.workspaces, activeWindow |-> n.holds[w]]]

WindowsOf(n) ==
    [x \in DOMAIN n.on |-> [workspace |-> n.on[x], focused |-> n.focus = x,
                            urgent |-> x \in n.urgent.windows]]

-----------------------------------------------------------------------------
(* The model and its events. *)

Workspace == [output : OutputNames, active : BOOLEAN, focused : BOOLEAN,
              urgent : BOOLEAN, activeWindow : Windows \cup {None}]

Window == [workspace : Workspaces, focused : BOOLEAN, urgent : BOOLEAN]

\* No count until niri has reported the layouts; then the index names one of them.
NoLayouts == [count |-> None, index |-> 0]

Layouts == {NoLayouts} \cup UNION {[count : {n}, index : 0..n - 1] : n \in LayoutCounts}

State == [workspaces : Partial(Workspaces, Workspace), windows : Partial(Windows, Window),
          outputs : SUBSET OutputNames, layouts : Layouts,
          overview : BOOLEAN, configFailed : BOOLEAN]

Cleared == [workspaces |-> <<>>, windows |-> <<>>, outputs |-> {}, layouts |-> NoLayouts,
            overview |-> FALSE, configFailed |-> FALSE]

\* What niri's state looks like in the model, whose outputs come from elsewhere.
View(n, outputs) ==
    [workspaces |-> WorkspacesOf(n), windows |-> WindowsOf(n), outputs |-> outputs,
     layouts |-> n.layouts,
     overview |-> n.overview, configFailed |-> n.configFailed]

FocusedWindow(windows) ==
    LET focused == {x \in DOMAIN windows : windows[x].focused}
    IN  IF focused = {} THEN [id |-> None]
        ELSE LET first == CHOOSE x \in focused : \A y \in focused : x <= y
             IN  [id |-> first, window |-> windows[first]]

-----------------------------------------------------------------------------
(* The handlers of the stream's signals. *)

Unfocused(windows) == [x \in DOMAIN windows |-> [windows[x] EXCEPT !.focused = FALSE]]

\* Mutant: a focused window leaves the others their focus.
ApplyWindowOpenedBesideFocus(s, id, window) ==
    [s EXCEPT !.windows = With(@, id, window)]

ApplyWindowOpenedOrChanged(s, id, window) ==
    [s EXCEPT !.windows = With(IF window.focused THEN Unfocused(@) ELSE @, id, window)]

\* Mutant: the focused window stays until another has the focus.
ApplyWindowClosedUnlessFocused(s, id) ==
    IF id \notin DOMAIN s.windows \/ s.windows[id].focused THEN s
    ELSE [s EXCEPT !.windows = Without(@, id)]

ApplyWindowClosed(s, id) ==
    IF id \notin DOMAIN s.windows THEN s
    ELSE [s EXCEPT !.windows = IF s.windows[id].focused
                               THEN Unfocused(Without(@, id)) ELSE Without(@, id)]

ApplyWindowUrgencyChanged(s, id, urgent) ==
    IF id \notin DOMAIN s.windows THEN s ELSE [s EXCEPT !.windows[id].urgent = urgent]

\* id is None for the event that says no window is focused.
FocusedOn(windows, id) ==
    [x \in DOMAIN windows |-> [windows[x] EXCEPT !.focused = id # None /\ x = id]]

ApplyFocus(s, id) == [s EXCEPT !.windows = FocusedOn(@, id)]

\* The one is active on its output, and if it has the focus no other has it.
Activated(workspaces, id, focused) ==
    [w \in DOMAIN workspaces |->
        IF w = id THEN [workspaces[w] EXCEPT !.active = TRUE, !.focused = focused \/ @]
        ELSE [workspaces[w] EXCEPT
                !.active = @ /\ workspaces[w].output # workspaces[id].output,
                !.focused = @ /\ ~focused]]

ApplyWorkspaceActivated(s, id, focused) ==
    IF id \notin DOMAIN s.workspaces THEN s
    ELSE [s EXCEPT !.workspaces = Activated(@, id, focused)]

ApplyWorkspaceUrgencyChanged(s, id, urgent) ==
    IF id \notin DOMAIN s.workspaces THEN s ELSE [s EXCEPT !.workspaces[id].urgent = urgent]

ApplyWorkspaceActiveWindowChanged(s, id, window) ==
    IF id \notin DOMAIN s.workspaces THEN s
    ELSE [s EXCEPT !.workspaces[id].activeWindow = window]

ApplyKeyboardLayoutsChanged(s, layouts) ==
    IF s.layouts = layouts THEN s ELSE [s EXCEPT !.layouts = layouts]

ApplyKeyboardLayoutSwitched(s, index) ==
    IF s.layouts.count = None THEN s ELSE [s EXCEPT !.layouts.index = index]

Apply(s, e) ==
    CASE e.what = "WorkspacesChanged" -> [s EXCEPT !.workspaces = e.list]
      [] e.what = "WindowsChanged" -> [s EXCEPT !.windows = e.list]
      [] e.what = "WindowOpenedOrChanged" -> ApplyWindowOpenedOrChanged(s, e.id, e.window)
      [] e.what = "WindowClosed" -> ApplyWindowClosed(s, e.id)
      [] e.what = "WindowFocusChanged" -> ApplyFocus(s, e.id)
      [] e.what = "WindowUrgencyChanged" -> ApplyWindowUrgencyChanged(s, e.id, e.urgent)
      [] e.what = "WorkspaceActivated" -> ApplyWorkspaceActivated(s, e.id, e.focused)
      [] e.what = "WorkspaceUrgencyChanged" -> ApplyWorkspaceUrgencyChanged(s, e.id, e.urgent)
      [] e.what = "WorkspaceActiveWindowChanged" ->
             ApplyWorkspaceActiveWindowChanged(s, e.id, e.window)
      [] e.what = "KeyboardLayoutsChanged" -> ApplyKeyboardLayoutsChanged(s, e.layouts)
      [] e.what = "KeyboardLayoutSwitched" -> ApplyKeyboardLayoutSwitched(s, e.index)
      [] e.what = "OverviewOpenedOrClosed" -> [s EXCEPT !.overview = e.flag]
      [] e.what = "ConfigLoaded" -> [s EXCEPT !.configFailed = e.flag]
      [] e.what = "streaming" -> s

-----------------------------------------------------------------------------
(* The signals, and what NiriService does with them. *)

\* The parts of the model that differ.
Changed(s, t) ==
    {part \in DOMAIN s : s[part] # t[part]}
        \cup (IF FocusedWindow(s.windows) # FocusedWindow(t.windows)
              THEN {"focusedWindow"} ELSE {})

\* The handler for a window's urgency does not look whether it has changed the
\* focused window; the one for the focus takes any change for one of that.
Signals(s, e) ==
    LET changed == Changed(s, Apply(s, e))
    IN  CASE e.what = "WindowUrgencyChanged" -> changed \ {"focusedWindow"}
          [] e.what = "WindowFocusChanged" /\ "windows" \in changed ->
                 changed \cup {"focusedWindow"}
          [] OTHER -> changed

ClearSignals(s) ==
    LET had == {part \in DOMAIN s : s[part] # Cleared[part]}
    IN  IF "windows" \in had THEN had \cup {"focusedWindow"} ELSE had

Translation(s) == [workspaces |-> s.workspaces, windows |-> s.windows,
                   focusedWindow |-> FocusedWindow(s.windows), outputs |-> s.outputs,
                   keyboardLayout |-> s.layouts, overviewOpen |-> s.overview]

\* Mutant: windowsChanged not connected to refreshFocusedWindow.
RefreshesItsOwn(signal) ==
    CASE signal = "workspaces" -> {"workspaces"}
      [] signal = "windows" -> {"windows"}
      [] signal = "focusedWindow" -> {"windows", "focusedWindow"}
      [] signal = "outputs" -> {"outputs"}
      [] signal = "layouts" -> {"keyboardLayout"}
      [] signal = "overview" -> {"overviewOpen"}
      [] signal = "configFailed" -> {}

\* Which of NiriService's copies each signal has it read again.
Refreshes(signal) ==
    CASE signal = "workspaces" -> {"workspaces"}
      [] signal \in {"windows", "focusedWindow"} -> {"windows", "focusedWindow"}
      [] signal = "outputs" -> {"outputs"}
      [] signal = "layouts" -> {"keyboardLayout"}
      [] signal = "overview" -> {"overviewOpen"}
      [] signal = "configFailed" -> {}

\* Every signal is emitted once the whole event is applied.
Refreshed(told, s) ==
    LET read == UNION {Refreshes(signal) : signal \in told}
    IN  [copy \in DOMAIN service |->
            IF copy \in read THEN Translation(s)[copy] ELSE service[copy]]

Tell(told) ==
    /\ signals' = told
    /\ service' = [Refreshed(told, state') EXCEPT !.connected = service.connected]

-----------------------------------------------------------------------------
(* The shell's dispatches. *)

ReadEvent ==
    /\ events # <<>>
    /\ events' = Tail(events)
    /\ LET e == Head(events)
           told == Signals(state, e)
       IN  /\ state' = Apply(state, e)
           /\ signals' = told
           /\ service' = [Refreshed(told, state') EXCEPT
                            !.connected = @ \/ e.what = "streaming"]
    /\ UNCHANGED <<niri, stream>>

\* The stream ends, by either side's doing; what has not been read is lost.
Disconnected ==
    /\ stream = "subscribed"
    /\ stream' = "closed"
    /\ events' = <<>>
    /\ state' = Cleared
    /\ signals' = ClearSignals(state)
    /\ service' = [Refreshed(signals', Cleared) EXCEPT !.connected = FALSE]
    /\ UNCHANGED niri

\* NiriOutputs reports a list.
ApplyOutputsChanged ==
    /\ "Outputs" \in traffic.events
    /\ \E outputs \in SUBSET OutputNames :
           state' = [state EXCEPT !.outputs = outputs]
    /\ Tell(Changed(state, state'))
    /\ UNCHANGED <<niri, stream, events>>

-----------------------------------------------------------------------------
(* The compositor's steps. An event that is sent to nobody is lost. *)

Sends(e) ==
    /\ e.what \in traffic.events
    /\ Len(events) < traffic.lag
    /\ events' = IF stream = "subscribed" THEN Append(events, e) ELSE events
    /\ signals' = {}
    /\ UNCHANGED <<stream, state, service>>

Burst(n) ==
    <<[what |-> "streaming"],
      [what |-> "WorkspacesChanged", list |-> WorkspacesOf(n)],
      [what |-> "WindowsChanged", list |-> WindowsOf(n)],
      [what |-> "KeyboardLayoutsChanged", layouts |-> n.layouts],
      [what |-> "OverviewOpenedOrClosed", flag |-> n.overview],
      [what |-> "ConfigLoaded", flag |-> n.configFailed]>>

Subscribe ==
    /\ stream = "closed"
    /\ stream' = "subscribed"
    /\ events' = Burst(niri)
    /\ signals' = {}
    /\ UNCHANGED <<niri, state, service>>

RearrangeWorkspaces ==
    \E place \in Partial(traffic.workspaces, OutputNames) :
    \E active \in Partial(OutputNames, traffic.workspaces), focusedOutput \in OutputNames \cup {None} :
        /\ niri' = [niri EXCEPT !.place = place, !.active = active,
                                !.focusedOutput = focusedOutput]
        /\ Consistent(niri')
        /\ Sends([what |-> "WorkspacesChanged", list |-> WorkspacesOf(niri')])

ActivateWorkspace ==
    \E w \in DOMAIN niri.place : \E focused \in BOOLEAN :
        LET output == niri.place[w]
        IN  /\ niri.focusedOutput = output => focused
            /\ niri' = [niri EXCEPT !.active[output] = w,
                                    !.focusedOutput = IF focused THEN output ELSE @]
            /\ Sends([what |-> "WorkspaceActivated", id |-> w, focused |-> focused])

ChangeWorkspace ==
    \E w \in DOMAIN niri.place :
        \/ \E urgent \in BOOLEAN :
              /\ niri' = [niri EXCEPT !.urgent.workspaces =
                                IF urgent THEN @ \cup {w} ELSE @ \ {w}]
              /\ Sends([what |-> "WorkspaceUrgencyChanged", id |-> w, urgent |-> urgent])
        \/ \E window \in traffic.windows \cup {None} :
              /\ niri' = [niri EXCEPT !.holds[w] = window]
              /\ Sends([what |-> "WorkspaceActiveWindowChanged", id |-> w, window |-> window])

\* A window opens or changes, and may take the focus or lose it as it does.
ChangeWindow ==
    \E x \in traffic.windows, w \in traffic.workspaces, focused \in BOOLEAN :
        /\ niri' = [niri EXCEPT !.on = With(@, x, w),
                                !.focus = IF focused THEN x ELSE IF @ = x THEN None ELSE @]
        /\ Sends([what |-> "WindowOpenedOrChanged", id |-> x, window |-> WindowsOf(niri')[x]])

CloseWindow ==
    \E x \in DOMAIN niri.on :
        /\ niri' = [niri EXCEPT !.on = Without(@, x), !.urgent.windows = @ \ {x},
                                !.focus = IF @ = x THEN None ELSE @]
        /\ Sends([what |-> "WindowClosed", id |-> x])

FocusWindow ==
    \E x \in DOMAIN niri.on \cup {None} :
        /\ niri' = [niri EXCEPT !.focus = x]
        /\ Sends([what |-> "WindowFocusChanged", id |-> x])

WindowUrgency ==
    \E x \in DOMAIN niri.on, urgent \in BOOLEAN :
        /\ niri' = [niri EXCEPT !.urgent.windows = IF urgent THEN @ \cup {x} ELSE @ \ {x}]
        /\ Sends([what |-> "WindowUrgencyChanged", id |-> x, urgent |-> urgent])

ChangeLayouts ==
    \/ \E count \in LayoutCounts :
          /\ niri' = [niri EXCEPT !.layouts = [count |-> count, index |-> 0]]
          /\ Sends([what |-> "KeyboardLayoutsChanged", layouts |-> niri'.layouts])
    \/ \E index \in 0..niri.layouts.count - 1 :
          /\ niri' = [niri EXCEPT !.layouts.index = index]
          /\ Sends([what |-> "KeyboardLayoutSwitched", index |-> index])

ToggleOverview ==
    /\ niri' = [niri EXCEPT !.overview = ~@]
    /\ Sends([what |-> "OverviewOpenedOrClosed", flag |-> niri'.overview])

LoadConfig ==
    \E failed \in BOOLEAN :
        /\ niri' = [niri EXCEPT !.configFailed = failed]
        /\ Sends([what |-> "ConfigLoaded", flag |-> failed])

-----------------------------------------------------------------------------
Init ==
    /\ traffic \in Traffic
    /\ niri = [place |-> <<>>, active |-> <<>>, focusedOutput |-> None,
               holds |-> [w \in Workspaces |-> None], on |-> <<>>, focus |-> None,
               urgent |-> [windows |-> {}, workspaces |-> {}],
               layouts |-> [count |-> CHOOSE n \in LayoutCounts : TRUE, index |-> 0],
               overview |-> FALSE, configFailed |-> FALSE]
    /\ stream = "closed"
    /\ events = <<>>
    /\ state = Cleared
    /\ service = [workspaces |-> <<>>, windows |-> <<>>, focusedWindow |-> [id |-> None],
                  outputs |-> {}, keyboardLayout |-> NoLayouts, overviewOpen |-> FALSE,
                  connected |-> FALSE]
    /\ signals = {}

Shell == ReadEvent \/ Disconnected \/ ApplyOutputsChanged

Compositor ==
    \/ Subscribe
    \/ RearrangeWorkspaces \/ ActivateWorkspace \/ ChangeWorkspace
    \/ ChangeWindow \/ CloseWindow \/ FocusWindow \/ WindowUrgency
    \/ ChangeLayouts \/ ToggleOverview \/ LoadConfig

Next == (Shell \/ Compositor) /\ UNCHANGED traffic

Spec == Init /\ [][Next]_vars

-----------------------------------------------------------------------------
(* Properties. *)

\* The types of the compositor's and the model's state.
TypeOK ==
    /\ niri \in Niri /\ Consistent(niri)
    /\ stream \in {"closed", "subscribed"}
    /\ state \in State

\* At no point between two events does the model show two focused windows, two
\* focused workspaces, or two active workspaces on one output: each event that
\* gives a flag to one takes it from the others, in whatever order they come.
OneOfEach ==
    /\ \A x, y \in DOMAIN state.windows :
           state.windows[x].focused /\ state.windows[y].focused => x = y
    /\ \A v, w \in DOMAIN state.workspaces :
           /\ state.workspaces[v].focused /\ state.workspaces[w].focused => v = w
           /\ state.workspaces[v].active /\ state.workspaces[w].active
                  /\ state.workspaces[v].output = state.workspaces[w].output => v = w

\* The model is well typed, with its flags where they belong.
WellFormed == TypeOK /\ OneOfEach

\* What QML reads is what the model holds after every dispatch: no handler changes
\* a part of the model without a signal that has NiriService read it again.
ServiceInStep ==
    \A copy \in DOMAIN Translation(state) : service[copy] = Translation(state)[copy]

\* The model once the first i of the unread events are applied.
Replay[i \in 0..Len(events)] ==
    IF i = 0 THEN [state EXCEPT !.outputs = {}] ELSE Apply(Replay[i - 1], events[i])

NiriMirror == INSTANCE Mirror WITH
    Nothing    <- Cleared,
    source     <- View(niri, {}),
    subscribed <- stream = "subscribed",
    backlog    <- [i \in 1..Len(events) |-> Replay[i]],
    shown      <- Replay[0]

\* Event by event the model goes through what niri went through, and once every
\* event is read it shows what niri has: the flags it keeps lose nothing of what
\* niri keeps otherwise.
MirrorsNiri == NiriMirror!Spec
=============================================================================
