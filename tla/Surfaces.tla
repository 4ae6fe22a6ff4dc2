------------------------------ MODULE Surfaces ------------------------------
(* The shell's surfaces: a bar on each output (BarHost) with the sampling that *)
(* follows the bars (SysMonService), four panels of which one is open at a     *)
(* time (PanelHost, PanelGroup, Backdrop), and the on-screen display of the    *)
(* volume (OsdHost). Signals are delivered inside the call that emits them:    *)
(* a service's openChanged runs its host, whose open() may fail and close the  *)
(* service again before the group hears of the opening. Deleted-later windows  *)
(* live until the loop goes round.                                             *)
EXTENDS Naturals, Sequences, SequencesExt, FiniteSets

CONSTANTS Screens, Panels, None,
          MaxSteps       \* bound: changes of the screens, bars closed, displays shown or switched

ASSUME SurfacesAssumption ==
    /\ None \notin Screens /\ IsFiniteSet(Screens) /\ IsFiniteSet(Panels)
    /\ MaxSteps \in Nat

VARIABLES screens,   \* Qt's list, the primary one first
          panels, bars, monitor, osd, steps

vars == <<screens, panels, bars, monitor, osd, steps>>

\* open: the service's state; the host's window_ is there when it has a screen_; backdrop:
\* that of Backdrop is; dying: a window of before waits to be deleted.
Panel == [open : BOOLEAN, screen : Screens \cup {None}, backdrop : BOOLEAN, dying : BOOLEAN]

\* bars_ with the visibility of each window, and anyVisible_.
Bars == [shown : UNION {[S -> BOOLEAN] : S \in SUBSET Screens}, anyVisible : BOOLEAN]

\* previousCpu_ and cpuPercent_ are told apart by when they are from: "last", a baseline
\* the reading before this one took, or "gap", one with a pause or a failed reading since.
Baseline == {"none", "last", "gap"}
Monitor == [active : BOOLEAN, timer : BOOLEAN, previousCpu : Baseline, cpu : Baseline,
            memory : BOOLEAN]

\* osds_, which have a window each, the clock, and showOsd.
Osd == [windows : SUBSET Screens, timer : BOOLEAN, show : BOOLEAN]

\* What /proc says: whether either file is read, and whether the counters advanced.
Sample == [stat : BOOLEAN, advanced : BOOLEAN, memory : BOOLEAN]

-----------------------------------------------------------------------------
(* SysMonService.                                                            *)

\* Mutant: the baseline kept over a reading that failed.
SampleNowKeeps(m, sample) ==
    [m EXCEPT !.cpu = IF sample.stat /\ sample.advanced THEN m.previousCpu ELSE "none",
              !.previousCpu = CASE sample.stat -> "last"
                                [] ~sample.stat /\ @ # "none" -> "gap"
                                [] ~sample.stat /\ @ = "none" -> "none",
              !.memory = sample.memory]

\* A percentage is the difference to the reading before; without a reading, no baseline.
SampleNow(m, sample) ==
    [m EXCEPT !.cpu = IF sample.stat /\ sample.advanced THEN m.previousCpu ELSE "none",
              !.previousCpu = IF sample.stat THEN "last" ELSE "none",
              !.memory = sample.memory]

\* Mutant: the timer left to run.
SetActiveTimerRuns(m, active, sample) ==
    CASE active = m.active -> m
      [] active /\ ~m.active ->
             [SampleNow([m EXCEPT !.active = TRUE], sample) EXCEPT !.timer = TRUE]
      [] ~active /\ m.active ->
             [m EXCEPT !.active = FALSE, !.previousCpu = "none", !.cpu = "none",
                       !.memory = FALSE]

SetActive(m, active, sample) ==
    CASE active = m.active -> m
      [] active /\ ~m.active ->
             [SampleNow([m EXCEPT !.active = TRUE], sample) EXCEPT !.timer = TRUE]
      [] ~active /\ m.active ->
             [m EXCEPT !.active = FALSE, !.timer = FALSE, !.previousCpu = "none",
                       !.cpu = "none", !.memory = FALSE]

SampleTimeout ==
    /\ monitor.timer
    /\ \E sample \in Sample :
          monitor' = IF monitor.active
                     THEN [SampleNow([monitor EXCEPT !.timer = FALSE], sample) EXCEPT !.timer = TRUE]
                     ELSE [monitor EXCEPT !.timer = FALSE]
    /\ UNCHANGED <<screens, panels, bars, osd, steps>>

-----------------------------------------------------------------------------
(* BarHost.                                                                  *)

\* recheckVisibility, and the slot of anyVisibleChanged.
RecheckVisibility(b) ==
    LET any == \E s \in DOMAIN b : b[s]
    IN  /\ bars' = [shown |-> b, anyVisible |-> any]
        /\ \E sample \in Sample :
              monitor' = IF any = bars.anyVisible THEN monitor
                         ELSE SetActive(monitor, any, sample)

RemoveForScreen(s) == RecheckVisibility([t \in DOMAIN bars.shown \ {s} |-> bars.shown[t]])

\* The window is made, or the component fails for this screen; it is presented at once.
AddForScreen(s) ==
    \/ RecheckVisibility([t \in DOMAIN bars.shown \cup {s} |->
                             IF t = s THEN TRUE ELSE bars.shown[t]])
    \/ UNCHANGED <<bars, monitor>>

Toggled == [s \in DOMAIN bars.shown |-> ~bars.anyVisible]

\* toggleAll, from qsctl bar toggle.
ToggleAll ==
    /\ RecheckVisibility(Toggled)
    /\ UNCHANGED <<screens, panels, osd, steps>>

-----------------------------------------------------------------------------
(* PanelHost, Backdrop and PanelGroup.                                       *)

\* close(): both windows are deleted later.
HostClose(panel) ==
    IF panel.screen = None THEN panel
    ELSE [panel EXCEPT !.screen = None, !.backdrop = FALSE, !.dying = TRUE]

\* setOpen(false), with openChanged: the group ignores a panel that closes.
SetClosed(panel) ==
    IF panel.open THEN HostClose([panel EXCEPT !.open = FALSE]) ELSE panel

\* Mutant: the backdrop left up when the panel is not made.
HostOpenHalf(panel, made) ==
    CASE panel.screen # None -> panel
      [] panel.screen = None /\ (screens = <<>> \/ made = "none") -> SetClosed(panel)
      [] panel.screen = None /\ screens # <<>> /\ made = "backdrop" ->
             SetClosed([panel EXCEPT !.backdrop = TRUE])
      [] panel.screen = None /\ screens # <<>> /\ made = "both" ->
             [panel EXCEPT !.screen = Head(screens), !.backdrop = TRUE]

\* open(): the backdrop and the panel, on the primary screen; made is what the components
\* make. What cannot be opened is closed again, in the service as well.
HostOpen(panel, made) ==
    CASE panel.screen # None -> panel
      [] panel.screen = None /\ (screens = <<>> \/ made = "none") -> SetClosed(panel)
      [] panel.screen = None /\ screens # <<>> /\ made = "backdrop" ->
             SetClosed([panel EXCEPT !.backdrop = FALSE, !.dying = TRUE])
      [] panel.screen = None /\ screens # <<>> /\ made = "both" ->
             [panel EXCEPT !.screen = Head(screens), !.backdrop = TRUE]

\* Mutant: the panel not asked whether it is open still.
GroupHasty(all, p) == [q \in Panels |-> IF q = p THEN all[q] ELSE SetClosed(all[q])]

\* The group's slot for p, after the host's: only a panel that is open closes the others.
Group(all, p) ==
    [q \in Panels |-> IF all[p].open /\ q # p THEN SetClosed(all[q]) ELSE all[q]]

\* setOpen(true), with openChanged.
SetOpen(all, p, made) ==
    IF all[p].open THEN all
    ELSE Group([all EXCEPT ![p] = HostOpen([@ EXCEPT !.open = TRUE], made)], p)

\* toggle(), from qsctl, the bar or the panel's own key.
TogglePanel(p, made) ==
    /\ panels' = IF panels[p].open THEN [panels EXCEPT ![p] = SetClosed(@)]
                 ELSE SetOpen(panels, p, made)
    /\ UNCHANGED <<screens, bars, monitor, osd, steps>>

\* The backdrop is clicked, or the compositor closes the panel's surface: the window's
\* visibleChanged, which is the panel's own.
Dismiss(p) ==
    /\ panels[p].screen # None
    /\ panels' = [panels EXCEPT ![p] = SetClosed(@)]
    /\ UNCHANGED <<screens, bars, monitor, osd, steps>>

\* visibleChanged of a window that is not window_ any more.
OldWindowGone(panel) == [panel EXCEPT !.dying = FALSE]

DeferredDelete ==
    /\ \E p \in Panels : panels[p].dying
    /\ panels' = [p \in Panels |-> IF panels[p].dying THEN OldWindowGone(panels[p])
                                   ELSE panels[p]]
    /\ UNCHANGED <<screens, bars, monitor, osd, steps>>

-----------------------------------------------------------------------------
(* OsdHost.                                                                  *)

Withdrawn == [osd EXCEPT !.windows = {}, !.timer = FALSE]

\* show(): a window on each screen that has none, and the clock from its start.
Shown(made) == [osd EXCEPT !.windows = @ \cup made, !.timer = TRUE]

Step == steps < MaxSteps /\ steps' = steps + 1

\* handleAdjusted, when PipeWireService announces an adjustment.
HandleAdjusted ==
    /\ Step
    /\ \E made \in SUBSET ToSet(screens) : osd' = IF osd.show THEN Shown(made) ELSE osd
    /\ UNCHANGED <<screens, panels, bars, monitor>>

Hide == [Withdrawn EXCEPT !.show = FALSE]

\* handleShowChanged, when the configuration changes.
HandleShowChanged ==
    /\ Step
    /\ osd' = IF osd.show THEN Hide ELSE [osd EXCEPT !.show = TRUE]
    /\ UNCHANGED <<screens, panels, bars, monitor>>

\* Mutant: the display left to its clock.
WithoutScreenLater(s) == osd

WithoutScreen(s) == [osd EXCEPT !.windows = @ \ {s}]

Withdraw ==
    /\ osd.timer
    /\ osd' = Withdrawn
    /\ UNCHANGED <<screens, panels, bars, monitor, steps>>

-----------------------------------------------------------------------------
(* The compositor.                                                           *)

\* A bar's surface is closed: its window hides.
BarClosed(s) ==
    /\ Step /\ bars.shown[s]
    /\ RecheckVisibility([bars.shown EXCEPT ![s] = FALSE])
    /\ UNCHANGED <<screens, panels, osd>>

ScreenAdded(s) ==
    /\ Step
    /\ screens' = Append(screens, s)
    /\ AddForScreen(s)
    /\ UNCHANGED <<panels, osd>>

\* Qt's list is without the screen when the hosts hear of it.
ScreenRemoved(s) ==
    /\ Step
    /\ screens' = RemoveFirst(screens, s)
    /\ RemoveForScreen(s)
    /\ osd' = WithoutScreen(s)
    /\ panels' = [p \in Panels |-> IF panels[p].screen = s THEN SetClosed(panels[p])
                                   ELSE panels[p]]

-----------------------------------------------------------------------------
\* main.cpp makes a bar for each screen and reads anyVisible once.
Init ==
    /\ \E present \in SUBSET Screens : screens \in SetToSeqs(present)
    /\ bars = [shown |-> [s \in ToSet(screens) |-> TRUE], anyVisible |-> screens # <<>>]
    /\ panels = [p \in Panels |-> [open |-> FALSE, screen |-> None, backdrop |-> FALSE,
                                   dying |-> FALSE]]
    /\ \E sample \in Sample :
          monitor = SetActive([active |-> FALSE, timer |-> FALSE, previousCpu |-> "none",
                               cpu |-> "none", memory |-> FALSE], bars.anyVisible, sample)
    /\ osd = [windows |-> {}, timer |-> FALSE, show |-> TRUE]
    /\ steps = 0

Next ==
    \/ SampleTimeout \/ ToggleAll
    \/ \E p \in Panels, made \in {"none", "backdrop", "both"} : TogglePanel(p, made)
    \/ \E p \in Panels : Dismiss(p)
    \/ DeferredDelete
    \/ HandleAdjusted \/ HandleShowChanged \/ Withdraw
    \/ \E s \in DOMAIN bars.shown : BarClosed(s)
    \/ \E s \in Screens \ ToSet(screens) : ScreenAdded(s)
    \/ \E s \in ToSet(screens) : ScreenRemoved(s)

Spec == Init /\ [][Next]_vars

-----------------------------------------------------------------------------
\* Every variable has its type.
TypeOK ==
    /\ screens \in Seq(Screens) /\ panels \in [Panels -> Panel]
    /\ bars \in Bars /\ monitor \in Monitor /\ osd \in Osd /\ steps \in 0..MaxSteps

\* "Opening one closes the others, so there is never a second panel and a second backdrop":
\* whatever opens, fails to open, is dismissed or loses its screen, one panel is open at
\* most, and a panel is open exactly when its window is up, with its backdrop behind it.
OnePanel ==
    /\ \A p, q \in Panels : panels[p].open /\ panels[q].open => p = q
    /\ \A p \in Panels :
          (panels[p].screen # None) = panels[p].open /\ panels[p].backdrop = panels[p].open

\* Every window is where its host's members say, and the panels are one at a time.
WellFormed == TypeOK /\ OnePanel

\* Nothing is kept up for a screen that is gone.
OnRealScreens ==
    /\ DOMAIN bars.shown \cup osd.windows \subseteq ToSet(screens)
    /\ \A p \in Panels : panels[p].screen \in ToSet(screens) \cup {None}

\* A display that is up is on its way out, however often it was shown again, and there is
\* none while it is switched off.
DisplayEnds == osd.windows # {} => osd.timer /\ osd.show

\* Nothing stays up that nobody would take down.
NothingLeftUp == OnRealScreens /\ DisplayEnds

\* The sampling runs while a bar can be seen, on whichever screen, and at no other time, in
\* which it claims nothing.
SamplingFollowsBars ==
    /\ monitor.active = (\E s \in DOMAIN bars.shown : bars.shown[s])
    /\ monitor.timer = monitor.active
    /\ ~monitor.active => monitor.cpu = "none" /\ ~monitor.memory

\* The percentage is an average over the last interval, never over a pause or a reading that
\* failed.
NoGapAveraged == monitor.cpu # "gap"

\* The sampling is on when it should be, and what it says is what it measured.
SamplingIsSound == SamplingFollowsBars /\ NoGapAveraged

\* A toggle opens what is closed and closes what is open; where the panel cannot be shown
\* the one that is open already stays. The end of a window that was replaced closes no
\* panel. And qsctl bar toggle moves every bar, those that came while the others were hidden included.
TogglesAsAsked ==
    [][/\ \A p \in Panels, made \in {"none", "backdrop", "both"} :
             TogglePanel(p, made) =>
                 IF panels[p].open \/ (made = "both" /\ screens # <<>>)
                 THEN panels'[p].open = ~panels[p].open
                 ELSE \A q \in Panels : panels'[q].open = panels[q].open
       /\ DeferredDelete => \A p \in Panels : panels'[p].open = panels[p].open
       /\ ToggleAll => \A s \in DOMAIN bars.shown : bars'.shown[s] = ~bars.anyVisible]_vars

=============================================================================
