--------------------------- MODULE NiriState_proofs ---------------------------
(***************************************************************************)
(* The model NiriState keeps is the compositor's some events ago           *)
(* (MirrorsNiri), for any windows, workspaces and outputs and any number   *)
(* of unread events.                                                       *)
(* Replay is a recursive function of the unread events.  That there is one *)
(* and only one such function is shown by the least number at which that   *)
(* fails, and so is what one event more or less makes of it; every handler *)
(* then gets a lemma that says that, applied to niri's view before a       *)
(* change, it gives niri's view after it.                                  *)
(***************************************************************************)
EXTENDS NiriState, SequenceTheorems, WellFoundedInduction, TLAPS

\* The order of the naturals.
Below == {pair \in Nat \X Nat : pair[1] < pair[2]}

\* A set of naturals that has an element has a least one: what takes the place of
\* induction, by the least number for which a statement fails.
LEMMA Least ==
    ASSUME NEW S, S \subseteq Nat, S # {}
    PROVE  \E m \in S : \A n \in S : m <= n
<1>1. IsWellFoundedOn(Below, Nat)
  BY NatLessThanWellFounded, Zenon DEF OpToRel, Below
<1>2. \E m \in S : \A n \in S : <<n, m>> \notin Below
  BY <1>1, WFMin
<1>3. \E m \in S : \A n \in S : ~(n < m)
  BY <1>2 DEF Below
<1> QED
  BY <1>3

\* f is what the model s goes through as the events of q are applied to it.
Replays(f, s, q) ==
    f = [i \in 0..Len(q) |-> IF i = 0 THEN s ELSE Apply(f[i - 1], q[i])]

\* There is such an f, whatever the model and the events.
LEMMA ReplayExists ==
    ASSUME NEW s, NEW S, NEW q \in Seq(S)
    PROVE  \E f : Replays(f, s, q)
<1> DEFINE Upto(f, n) == f = [i \in 0..n |-> IF i = 0 THEN s ELSE Apply(f[i - 1], q[i])]
           Bad == {n \in Nat : ~\E f : Upto(f, n)}
<1>1. Len(q) \in Nat
  BY LenProperties
<1>2. Bad = {}
  <2> SUFFICES ASSUME Bad # {} PROVE FALSE
    OBVIOUS
  <2>1. PICK m \in Bad : \A n \in Bad : m <= n
    <3>1. Bad \subseteq Nat
      OBVIOUS
    <3> HIDE DEF Bad
    <3> QED
      BY <3>1, Least
  <2>2. m # 0
    <3> DEFINE g == [i \in 0..0 |-> s]
    <3>1. Upto(g, 0)
      OBVIOUS
    <3> QED
      BY <3>1
  <2>3. m \in Nat /\ m - 1 \in Nat /\ m - 1 \notin Bad
    <3>1. m \in Nat
      OBVIOUS
    <3> HIDE DEF Bad
    <3> QED
      BY <2>1, <2>2, <3>1
  <2>4. PICK g : Upto(g, m - 1)
    BY <2>3
  <2> DEFINE h == [i \in 0..m |-> IF i = m THEN Apply(g[m - 1], q[m]) ELSE g[i]]
  <2>5. ASSUME NEW i \in 0..m
        PROVE  h[i] = IF i = 0 THEN s ELSE Apply(h[i - 1], q[i])
    <3>1. CASE i = 0
      BY <3>1, <2>2, <2>3, <2>4
    <3>2. CASE i # 0 /\ i # m
      <4>1. i \in 0..m - 1 /\ i - 1 \in 0..m /\ i - 1 # m
        BY <3>2, <2>3
      <4>2. g[i] = Apply(g[i - 1], q[i])
        BY <4>1, <3>2, <2>4
      <4>3. h[i] = g[i] /\ h[i - 1] = g[i - 1]
        BY <4>1, <3>2, <2>3
      <4> HIDE DEF h
      <4> QED
        BY <4>2, <4>3, <3>2
    <3>3. CASE i = m
      <4>1. m - 1 \in 0..m /\ m - 1 # m
        BY <2>2, <2>3
      <4>2. h[m] = Apply(g[m - 1], q[m]) /\ h[m - 1] = g[m - 1]
        BY <4>1, <2>3
      <4> HIDE DEF h
      <4> QED
        BY <4>2, <3>3, <2>2
    <3> QED
      BY <3>1, <3>2, <3>3
  <2>6. Upto(h, m)
    BY <2>5, Zenon
  <2> QED
    BY <2>6, <2>1
<1>3. \E f : Upto(f, Len(q))
  BY <1>1, <1>2
<1> QED
  BY <1>3 DEF Replays

\* And there is only one.
LEMMA ReplayUnique ==
    ASSUME NEW s, NEW S, NEW q \in Seq(S), NEW f, NEW g, Replays(f, s, q), Replays(g, s, q)
    PROVE  f = g
<1> DEFINE Bad == {i \in 0..Len(q) : f[i] # g[i]}
<1>1. Len(q) \in Nat
  BY LenProperties
<1>2. \A i \in 0..Len(q) : /\ f[i] = IF i = 0 THEN s ELSE Apply(f[i - 1], q[i])
                           /\ g[i] = IF i = 0 THEN s ELSE Apply(g[i - 1], q[i])
  BY Zenon DEF Replays
<1>3. Bad = {}
  <2> SUFFICES ASSUME Bad # {} PROVE FALSE
    OBVIOUS
  <2>1. PICK m \in Bad : \A n \in Bad : m <= n
    <3>1. Bad \subseteq Nat
      BY <1>1
    <3> HIDE DEF Bad
    <3> QED
      BY <3>1, Least
  <2>2. m \in 0..Len(q) /\ f[m] # g[m]
    OBVIOUS
  <2>3. m # 0
    BY <1>2, <2>2
  <2>4. m - 1 \in 0..Len(q) /\ m - 1 \notin Bad
    BY <1>1, <2>1, <2>2, <2>3
  <2>5. f[m - 1] = g[m - 1]
    BY <2>4
  <2> HIDE DEF Bad
  <2> QED
    BY <1>2, <2>2, <2>3, <2>5
<1>4. \A i \in 0..Len(q) : f[i] = g[i]
  BY <1>3
<1> QED
  BY <1>4, Zenon DEF Replays

\* With one more event, f goes one step further.
LEMMA ReplayAppended ==
    ASSUME NEW s, NEW S, NEW q \in Seq(S), NEW e \in S, NEW f, NEW g,
           Replays(f, s, q), Replays(g, s, Append(q, e))
    PROVE  /\ \A i \in 0..Len(q) : g[i] = f[i]
           /\ g[Len(q) + 1] = Apply(f[Len(q)], e)
<1> DEFINE r == Append(q, e)
           h == [i \in 0..Len(q) |-> g[i]]
<1>1. Len(q) \in Nat /\ r \in Seq(S) /\ Len(r) = Len(q) + 1 /\ r[Len(r)] = e
  BY LenProperties, AppendProperties
<1>2. \A i \in 1..Len(q) : r[i] = q[i]
  BY AppendProperties
<1> HIDE DEF r
<1>3. \A i \in 0..Len(q) + 1 : g[i] = IF i = 0 THEN s ELSE Apply(g[i - 1], r[i])
  BY <1>1, Zenon DEF Replays, r
<1>4. ASSUME NEW i \in 0..Len(q)
      PROVE  h[i] = IF i = 0 THEN s ELSE Apply(h[i - 1], q[i])
  <2>1. CASE i = 0
    BY <2>1, <1>1, <1>3
  <2>2. CASE i # 0
    <3>1. i - 1 \in 0..Len(q) /\ i \in 1..Len(q) /\ i \in 0..Len(q) + 1
      BY <2>2, <1>1
    <3>2. g[i] = Apply(g[i - 1], r[i]) /\ r[i] = q[i]
      BY <3>1, <2>2, <1>2, <1>3
    <3>3. h[i] = g[i] /\ h[i - 1] = g[i - 1]
      BY <3>1
    <3> HIDE DEF h
    <3> QED
      BY <2>2, <3>2, <3>3
  <2> QED
    BY <2>1, <2>2
<1>5. Replays(h, s, q)
  BY <1>4, Zenon DEF Replays
<1>6. h = f
  <2> HIDE DEF h
  <2> QED
    BY <1>5, ReplayUnique
<1>7. \A i \in 0..Len(q) : g[i] = f[i]
  BY <1>6
<1>8. g[Len(q) + 1] = Apply(g[Len(q)], e)
  BY <1>1, <1>3
<1> QED
  BY <1>1, <1>7, <1>8

\* Once the first event is applied, what remains of f is left to go through.
LEMMA ReplayTaken ==
    ASSUME NEW s, NEW S, NEW q \in Seq(S), q # <<>>, NEW f, NEW g,
           Replays(f, s, q), Replays(g, Apply(s, Head(q)), Tail(q))
    PROVE  /\ f[1] = Apply(s, Head(q))
           /\ \A i \in 0..Len(Tail(q)) : g[i] = f[i + 1]
<1> DEFINE r == Tail(q)
           h == [i \in 0..Len(r) |-> f[i + 1]]
<1>1. /\ Len(q) \in Nat /\ Len(q) > 0 /\ r \in Seq(S) /\ Len(r) = Len(q) - 1
      /\ Head(q) = q[1]
  BY HeadTailProperties, LenProperties, EmptySeq
<1>2. \A i \in 1..Len(r) : r[i] = q[i + 1]
  BY HeadTailProperties
<1> HIDE DEF r
<1>3. \A i \in 0..Len(q) : f[i] = IF i = 0 THEN s ELSE Apply(f[i - 1], q[i])
  BY Zenon DEF Replays
<1>4. f[1] = Apply(s, Head(q))
  BY <1>1, <1>3
<1>5. ASSUME NEW i \in 0..Len(r)
      PROVE  h[i] = IF i = 0 THEN Apply(s, Head(q)) ELSE Apply(h[i - 1], r[i])
  <2>1. CASE i = 0
    BY <2>1, <1>1, <1>4
  <2>2. CASE i # 0
    <3>1. i - 1 \in 0..Len(r) /\ i \in 1..Len(r) /\ i + 1 \in 0..Len(q) /\ i + 1 # 0
          /\ i + 1 - 1 = i /\ i - 1 + 1 = i
      BY <2>2, <1>1
    <3>2. f[i + 1] = Apply(f[i], r[i])
      BY <3>1, <1>2, <1>3
    <3>3. h[i] = f[i + 1] /\ h[i - 1] = f[i]
      BY <3>1
    <3> HIDE DEF h
    <3> QED
      BY <2>2, <3>2, <3>3
  <2> QED
    BY <2>1, <2>2
<1>6. Replays(h, Apply(s, Head(q)), r)
  BY <1>5, Zenon DEF Replays
<1>7. Replays(g, Apply(s, Head(q)), r)
  BY DEF r
<1>8. h = g
  <2> HIDE DEF h
  <2> QED
    BY <1>1, <1>6, <1>7, ReplayUnique
<1>9. \A i \in 0..Len(r) : g[i] = f[i + 1]
  BY <1>8
<1> QED
  BY <1>4, <1>9 DEF r

-----------------------------------------------------------------------------
\* What niri can send.
Event ==
    [what : {"streaming"}]
    \cup [what : {"WorkspacesChanged"}, list : Partial(Workspaces, Workspace)]
    \cup [what : {"WindowsChanged"}, list : Partial(Windows, Window)]
    \cup [what : {"WindowOpenedOrChanged"}, id : Windows, window : Window]
    \cup [what : {"WindowClosed"}, id : Windows]
    \cup [what : {"WindowFocusChanged"}, id : Windows \cup {None}]
    \cup [what : {"WindowUrgencyChanged"}, id : Windows, urgent : BOOLEAN]
    \cup [what : {"WorkspaceActivated"}, id : Workspaces, focused : BOOLEAN]
    \cup [what : {"WorkspaceUrgencyChanged"}, id : Workspaces, urgent : BOOLEAN]
    \cup [what : {"WorkspaceActiveWindowChanged"}, id : Workspaces,
          window : Windows \cup {None}]
    \cup [what : {"KeyboardLayoutsChanged"}, layouts : Layouts]
    \cup [what : {"KeyboardLayoutSwitched"}, index : Nat]
    \cup [what : {"OverviewOpenedOrClosed", "ConfigLoaded"}, flag : BOOLEAN]

Kinds == {"streaming", "WorkspacesChanged", "WindowsChanged", "WindowOpenedOrChanged",
          "WindowClosed", "WindowFocusChanged", "WindowUrgencyChanged",
          "WorkspaceActivated", "WorkspaceUrgencyChanged", "WorkspaceActiveWindowChanged",
          "KeyboardLayoutsChanged", "KeyboardLayoutSwitched", "OverviewOpenedOrClosed",
          "ConfigLoaded"}

\* Every event is of one of the kinds Apply knows.
LEMMA EventKind == \A e \in Event : e.what \in Kinds
BY DEF Event, Kinds

\* No handler looks at the outputs or changes them.
LEMMA ApplyLeavesOutputs ==
    ASSUME NEW s \in State, NEW e, e.what \in Kinds
    PROVE  /\ Apply([s EXCEPT !.outputs = {}], e) = [Apply(s, e) EXCEPT !.outputs = {}]
           /\ Apply(s, e).outputs = s.outputs
           /\ Apply(s, e) = [workspaces |-> Apply(s, e).workspaces,
                             windows |-> Apply(s, e).windows,
                             outputs |-> s.outputs,
                             layouts |-> Apply(s, e).layouts,
                             overview |-> Apply(s, e).overview,
                             configFailed |-> Apply(s, e).configFailed]
<1>1. CASE e.what = "streaming"
  BY <1>1 DEF Apply, State
<1>2. CASE e.what = "WorkspacesChanged"
  BY <1>2 DEF Apply, State
<1>3. CASE e.what = "WindowsChanged"
  BY <1>3 DEF Apply, State
<1>4. CASE e.what = "WindowOpenedOrChanged"
  BY <1>4 DEF Apply, State, ApplyWindowOpenedOrChanged
<1>5. CASE e.what = "WindowClosed"
  BY <1>5 DEF Apply, State, ApplyWindowClosed
<1>6. CASE e.what = "WindowFocusChanged"
  BY <1>6 DEF Apply, State, ApplyFocus
<1>7. CASE e.what = "WindowUrgencyChanged"
  BY <1>7 DEF Apply, State, ApplyWindowUrgencyChanged
<1>8. CASE e.what = "WorkspaceActivated"
  BY <1>8 DEF Apply, State, ApplyWorkspaceActivated
<1>9. CASE e.what = "WorkspaceUrgencyChanged"
  BY <1>9 DEF Apply, State, ApplyWorkspaceUrgencyChanged
<1>10. CASE e.what = "WorkspaceActiveWindowChanged"
  BY <1>10 DEF Apply, State, ApplyWorkspaceActiveWindowChanged
<1>11. CASE e.what = "KeyboardLayoutsChanged"
  BY <1>11 DEF Apply, State, ApplyKeyboardLayoutsChanged
<1>12. CASE e.what = "KeyboardLayoutSwitched"
  BY <1>12 DEF Apply, State, ApplyKeyboardLayoutSwitched
<1>13. CASE e.what = "OverviewOpenedOrClosed"
  BY <1>13 DEF Apply, State
<1>14. CASE e.what = "ConfigLoaded"
  BY <1>14 DEF Apply, State
<1> QED
  BY <1>1, <1>2, <1>3, <1>4, <1>5, <1>6, <1>7, <1>8, <1>9, <1>10, <1>11, <1>12,
     <1>13, <1>14 DEF Kinds

-----------------------------------------------------------------------------
\* OneOfEach of a model that need not be the one of now.
OneOfEachIn(s) ==
    /\ \A x, y \in DOMAIN s.windows :
           s.windows[x].focused /\ s.windows[y].focused => x = y
    /\ \A v, w \in DOMAIN s.workspaces :
           /\ s.workspaces[v].focused /\ s.workspaces[w].focused => v = w
           /\ s.workspaces[v].active /\ s.workspaces[w].active
                  /\ s.workspaces[v].output = s.workspaces[w].output => v = w

Sound(n) == n \in Niri /\ Consistent(n)

\* A partial function, by its domain and its values.
LEMMA PartialIs ==
    ASSUME NEW S, NEW T, NEW f
    PROVE  f \in Partial(S, T) <=> /\ DOMAIN f \subseteq S
                                   /\ f = [x \in DOMAIN f |-> f[x]]
                                   /\ \A x \in DOMAIN f : f[x] \in T
BY DEF Partial

\* The two lists niri reports are well typed.
LEMMA ViewTyped ==
    ASSUME NEW n \in Niri
    PROVE  /\ WorkspacesOf(n) \in Partial(Workspaces, Workspace)
           /\ WindowsOf(n) \in Partial(Windows, Window)
           /\ n.layouts \in Layouts
           /\ View(n, {}) \in State
<1>1. /\ DOMAIN n.place \subseteq Workspaces
      /\ \A w \in DOMAIN n.place : n.place[w] \in OutputNames
      /\ DOMAIN n.on \subseteq Windows
      /\ \A x \in DOMAIN n.on : n.on[x] \in Workspaces
  <2>1. n.place \in Partial(Workspaces, OutputNames) /\ n.on \in Partial(Windows, Workspaces)
    BY DEF Niri
  <2> QED
    BY <2>1, PartialIs, Zenon
<1>2. n.holds \in [Workspaces -> Windows \cup {None}]
  BY DEF Niri
<1>3. WorkspacesOf(n) \in Partial(Workspaces, Workspace)
  <2>1. DOMAIN WorkspacesOf(n) = DOMAIN n.place
    BY DEF WorkspacesOf
  <2>2. WorkspacesOf(n) = [w \in DOMAIN WorkspacesOf(n) |-> WorkspacesOf(n)[w]]
    BY DEF WorkspacesOf
  <2>3. \A w \in DOMAIN n.place : WorkspacesOf(n)[w] \in Workspace
    BY <1>1, <1>2 DEF WorkspacesOf, Workspace
  <2> QED
    BY <1>1, <2>1, <2>2, <2>3, PartialIs
<1>4. WindowsOf(n) \in Partial(Windows, Window)
  <2>1. DOMAIN WindowsOf(n) = DOMAIN n.on
    BY DEF WindowsOf
  <2>2. WindowsOf(n) = [w \in DOMAIN WindowsOf(n) |-> WindowsOf(n)[w]]
    BY DEF WindowsOf
  <2>3. \A w \in DOMAIN n.on : WindowsOf(n)[w] \in Window
    BY <1>1 DEF WindowsOf, Window
  <2> QED
    BY <1>1, <2>1, <2>2, <2>3, PartialIs
<1>5. n.layouts \in Layouts /\ n.overview \in BOOLEAN /\ n.configFailed \in BOOLEAN
  BY DEF Niri, Layouts
<1> QED
  BY <1>3, <1>4, <1>5 DEF View, State

\* What niri has, the flags show one of each of.
LEMMA ViewOneOfEach ==
    ASSUME NEW n, Sound(n)
    PROVE  OneOfEachIn(View(n, {}))
<1>1. \A x, y \in DOMAIN WindowsOf(n) :
          WindowsOf(n)[x].focused /\ WindowsOf(n)[y].focused => x = y
  BY DEF WindowsOf
<1>2. \A v \in DOMAIN n.place :
          /\ WorkspacesOf(n)[v].output = n.place[v]
          /\ WorkspacesOf(n)[v].active => n.active[n.place[v]] = v
          /\ WorkspacesOf(n)[v].focused => WorkspacesOf(n)[v].active
                                           /\ n.focusedOutput = n.place[v]
  BY DEF WorkspacesOf
<1>3. DOMAIN WorkspacesOf(n) = DOMAIN n.place
  BY DEF WorkspacesOf
<1> QED
  BY <1>1, <1>2, <1>3 DEF OneOfEachIn, View

Rearranged(n, m) ==
    \E place, active, output :
        m = [n EXCEPT !.place = place, !.active = active, !.focusedOutput = output]

\* A model that has niri's view becomes, with the event of a change, what niri has
\* after that change: one lemma for each event.
LEMMA RearrangedSeen ==
    ASSUME NEW n \in Niri, NEW m, Rearranged(n, m)
    PROVE  Apply(View(n, {}), [what |-> "WorkspacesChanged", list |-> WorkspacesOf(m)])
               = View(m, {})
<1>1. /\ m.on = n.on /\ m.focus = n.focus /\ m.urgent = n.urgent /\ m.layouts = n.layouts
      /\ m.overview = n.overview /\ m.configFailed = n.configFailed
  BY DEF Niri, Rearranged
<1>2. WindowsOf(m) = WindowsOf(n)
  BY <1>1 DEF WindowsOf
<1> QED
  BY <1>1, <1>2 DEF Apply, View

\* The fields of a workspace whose two flags are set.
LEMMA FlagsSet ==
    ASSUME NEW r, NEW x, NEW y,
           r = [output |-> r.output, active |-> r.active, focused |-> r.focused,
                urgent |-> r.urgent, activeWindow |-> r.activeWindow]
    PROVE  [r EXCEPT !.active = x, !.focused = y]
               = [output |-> r.output, active |-> x, focused |-> y,
                  urgent |-> r.urgent, activeWindow |-> r.activeWindow]
<1> DEFINE q == [r EXCEPT !.active = x]
<1>1. [r EXCEPT !.active = x, !.focused = y] = [q EXCEPT !.focused = y]
  BY Zenon
<1>2. q = [output |-> r.output, active |-> x, focused |-> r.focused,
           urgent |-> r.urgent, activeWindow |-> r.activeWindow]
  OBVIOUS
<1> HIDE DEF q
<1>3. [q EXCEPT !.focused = y] = [output |-> r.output, active |-> x, focused |-> y,
                                  urgent |-> r.urgent, activeWindow |-> r.activeWindow]
  BY <1>2
<1> QED
  BY <1>1, <1>3

Activating(n, m, w, focused) ==
    /\ n.focusedOutput = n.place[w] => focused
    /\ m = [n EXCEPT !.active[n.place[w]] = w,
                     !.focusedOutput = IF focused THEN n.place[w] ELSE @]

\* applyWorkspaceActivated: one workspace becomes active, the others on its output do
\* not stay so, and if it has the focus no other keeps it.
LEMMA ActivatedSeen ==
    ASSUME NEW n, Sound(n), NEW w \in DOMAIN n.place, NEW focused \in BOOLEAN, NEW m,
           Activating(n, m, w, focused)
    PROVE  /\ Sound(m)
           /\ Apply(View(n, {}), [what |-> "WorkspaceActivated", id |-> w,
                                  focused |-> focused]) = View(m, {})
<1> USE DEF Activating
<1> DEFINE output == n.place[w]
<1>1. /\ n.place \in Partial(Workspaces, OutputNames)
      /\ n.active \in Partial(OutputNames, Workspaces)
      /\ n.focusedOutput \in OutputNames \cup {None}
  BY DEF Sound, Niri
<1>2. /\ output \in DOMAIN n.active /\ output \in OutputNames /\ w \in Workspaces
      /\ DOMAIN n.active \subseteq OutputNames
  <2>1. output \in DOMAIN n.active
    BY DEF Sound, Consistent
  <2> QED
    BY <1>1, <2>1, PartialIs
<1>3. /\ m.active = [n.active EXCEPT ![output] = w]
      /\ m.focusedOutput = IF focused THEN output ELSE n.focusedOutput
      /\ m.place = n.place /\ m.holds = n.holds
      /\ m.on = n.on /\ m.focus = n.focus /\ m.urgent = n.urgent /\ m.layouts = n.layouts
      /\ m.overview = n.overview /\ m.configFailed = n.configFailed
  BY DEF Sound, Niri
<1>4. m.active \in Partial(OutputNames, Workspaces)
  <2>1. /\ DOMAIN m.active = DOMAIN n.active
        /\ m.active = [x \in DOMAIN m.active |-> m.active[x]]
    BY <1>2, <1>3
  <2>2. \A x \in DOMAIN n.active : n.active[x] \in Workspaces
    BY <1>1, PartialIs
  <2>3. \A x \in DOMAIN m.active : m.active[x] \in Workspaces
    BY <1>2, <1>3, <2>1, <2>2
  <2> QED
    BY <1>2, <2>1, <2>3, PartialIs
<1>5. m \in Niri
  BY <1>2, <1>3, <1>4 DEF Sound, Niri
<1>6. Consistent(m)
  <2>1. DOMAIN m.active = DOMAIN n.active
    BY <1>3
  <2>2. \A x \in DOMAIN n.active : \E v \in DOMAIN n.place :
            n.active[x] = v /\ n.place[v] = x
    BY DEF Sound, Consistent
  <2>3. \A x \in DOMAIN m.active : \E v \in DOMAIN m.place :
            m.active[x] = v /\ m.place[v] = x
    BY <1>3, <2>1, <2>2
  <2>4. m.focusedOutput \in DOMAIN m.active \cup {None}
    BY <1>2, <1>3, <2>1 DEF Sound, Consistent
  <2>5. m.focus \in DOMAIN m.on \cup {None}
    BY <1>3 DEF Sound, Consistent
  <2>6. {m.place[v] : v \in DOMAIN m.place} = DOMAIN m.active
    BY <1>3, <2>1 DEF Sound, Consistent
  <2> QED
    BY <2>3, <2>4, <2>5, <2>6 DEF Consistent
<1> DEFINE old == WorkspacesOf(n)
           new == WorkspacesOf(m)
           after == Activated(old, w, focused)
<1>7. DOMAIN old = DOMAIN n.place /\ DOMAIN new = DOMAIN n.place
  BY <1>3 DEF WorkspacesOf
<1>8. ASSUME NEW v \in DOMAIN n.place
      PROVE  after[v] = new[v]
  <2> DEFINE active == n.place[v] \in DOMAIN n.active /\ n.active[n.place[v]] = v
             focus == active /\ n.focusedOutput = n.place[v]
             active2 == n.place[v] \in DOMAIN m.active /\ m.active[n.place[v]] = v
             focus2 == active2 /\ m.focusedOutput = n.place[v]
             urgent == v \in n.urgent.workspaces
  <2>1. old[v] = [output |-> n.place[v], active |-> active, focused |-> focus,
                  urgent |-> urgent, activeWindow |-> n.holds[v]]
    BY DEF WorkspacesOf
  <2>2. new[v] = [output |-> n.place[v], active |-> active2, focused |-> focus2,
                  urgent |-> urgent, activeWindow |-> n.holds[v]]
    BY <1>3 DEF WorkspacesOf
  <2>3. old[w].output = output
    BY DEF WorkspacesOf
  <2>4. n.place[v] \in DOMAIN n.active /\ n.place[v] \in DOMAIN m.active
    BY <1>3 DEF Sound, Consistent
  <2>5. active \in BOOLEAN /\ active2 \in BOOLEAN /\ focus \in BOOLEAN /\ focus2 \in BOOLEAN
    OBVIOUS
  <2>6. /\ v = w => after[v] = [old[v] EXCEPT !.active = TRUE,
                                              !.focused = focused \/ old[v].focused]
        /\ v # w => after[v] = [old[v] EXCEPT
                                  !.active = old[v].active /\ old[v].output # old[w].output,
                                  !.focused = old[v].focused /\ ~focused]
    <3>1. after[v] = IF v = w THEN [old[v] EXCEPT !.active = TRUE,
                                                  !.focused = focused \/ old[v].focused]
                     ELSE [old[v] EXCEPT
                             !.active = old[v].active /\ old[v].output # old[w].output,
                             !.focused = old[v].focused /\ ~focused]
      BY <1>7, Zenon DEF Activated
    <3> HIDE DEF after, old
    <3> QED
      BY <3>1
  <2>7. /\ v = w => active2 /\ (focus2 <=> focused \/ focus)
        /\ v # w => /\ (active2 <=> active /\ n.place[v] # output)
                    /\ (focus2 <=> focus /\ ~focused)
    BY <1>2, <1>3, <2>4
  <2> HIDE DEF after, old, new, active, active2, focus, focus2, urgent
  <2>10. \A x, y : [old[v] EXCEPT !.active = x, !.focused = y]
                       = [output |-> n.place[v], active |-> x, focused |-> y,
                          urgent |-> urgent, activeWindow |-> n.holds[v]]
    <3>1. /\ old[v].output = n.place[v] /\ old[v].active = active /\ old[v].focused = focus
          /\ old[v].urgent = urgent /\ old[v].activeWindow = n.holds[v]
      BY <2>1
    <3>2. old[v] = [output |-> old[v].output, active |-> old[v].active,
                    focused |-> old[v].focused, urgent |-> old[v].urgent,
                    activeWindow |-> old[v].activeWindow]
      BY <2>1, <3>1, Zenon
    <3>3. \A x, y : [old[v] EXCEPT !.active = x, !.focused = y]
                       = [output |-> old[v].output, active |-> x, focused |-> y,
                          urgent |-> old[v].urgent, activeWindow |-> old[v].activeWindow]
      BY <3>2, FlagsSet
    <3> QED
      BY <3>1, <3>3, Zenon
  <2>8. CASE v = w
    <3>1. after[v] = [output |-> n.place[v], active |-> TRUE, focused |-> focused \/ focus,
                      urgent |-> urgent, activeWindow |-> n.holds[v]]
      <4>1. after[v] = [old[v] EXCEPT !.active = TRUE, !.focused = focused \/ old[v].focused]
        BY <2>6, <2>8, Zenon
      <4>2. old[v].focused = focus
        BY <2>1
      <4>3. after[v] = [old[v] EXCEPT !.active = TRUE, !.focused = focused \/ focus]
        BY <4>1, <4>2, Zenon
      <4> QED
        BY <2>10, <4>3, Zenon
    <3>2. active2 = TRUE /\ focus2 = (focused \/ focus)
      BY <2>5, <2>7, <2>8
    <3> QED
      BY <2>2, <3>1, <3>2, Zenon
  <2>9. CASE v # w
    <3>1. after[v] = [output |-> n.place[v], active |-> active /\ n.place[v] # output,
                      focused |-> focus /\ ~focused,
                      urgent |-> urgent, activeWindow |-> n.holds[v]]
      <4>1. after[v] = [old[v] EXCEPT
                          !.active = old[v].active /\ old[v].output # old[w].output,
                          !.focused = old[v].focused /\ ~focused]
        BY <2>6, <2>9, Zenon
      <4>2. /\ old[v].active = active /\ old[v].focused = focus /\ old[v].output = n.place[v]
        BY <2>1
      <4>3. after[v] = [old[v] EXCEPT !.active = active /\ n.place[v] # output,
                                      !.focused = focus /\ ~focused]
        BY <2>3, <4>1, <4>2, Zenon
      <4> QED
        BY <2>10, <4>3, Zenon
    <3>2. active2 = (active /\ n.place[v] # output) /\ focus2 = (focus /\ ~focused)
      <4>1. active2 <=> (active /\ n.place[v] # output)
        BY <2>7, <2>9
      <4>2. focus2 <=> (focus /\ ~focused)
        BY <2>7, <2>9
      <4> QED
        BY <2>5, <4>1, <4>2
    <3> QED
      BY <2>2, <3>1, <3>2, Zenon
  <2> QED
    BY <2>8, <2>9
<1>9. after = new
  <2>1. new = [v \in DOMAIN n.place |-> new[v]]
    BY <1>3 DEF WorkspacesOf
  <2>2. after = [v \in DOMAIN n.place |-> after[v]]
    BY <1>7 DEF Activated
  <2> HIDE DEF after, new
  <2> QED
    BY <1>8, <2>1, <2>2
<1>10. WindowsOf(m) = WindowsOf(n)
  BY <1>3 DEF WindowsOf
<1>11. Apply(View(n, {}), [what |-> "WorkspaceActivated", id |-> w, focused |-> focused])
           = [View(n, {}) EXCEPT !.workspaces = after]
  <2>1. Apply(View(n, {}), [what |-> "WorkspaceActivated", id |-> w, focused |-> focused])
            = ApplyWorkspaceActivated(View(n, {}), w, focused)
    BY DEF Apply
  <2>2. View(n, {}).workspaces = old
    BY DEF View
  <2> HIDE DEF old, after
  <2>3. w \in DOMAIN old
    BY <1>7
  <2>4. ApplyWorkspaceActivated(View(n, {}), w, focused)
            = [View(n, {}) EXCEPT !.workspaces = after]
    BY <2>2, <2>3, Zenon DEF ApplyWorkspaceActivated, after
  <2> QED
    BY <2>1, <2>4
<1> QED
  <2> HIDE DEF after, old, new
  <2>1. [View(n, {}) EXCEPT !.workspaces = new] = View(m, {})
    BY <1>3, <1>10 DEF View, new
  <2> QED
    BY <1>5, <1>6, <1>9, <1>11, <2>1 DEF Sound

\* The fields of a workspace whose urgency is set.
LEMMA UrgentSet ==
    ASSUME NEW r, NEW x,
           r = [output |-> r.output, active |-> r.active, focused |-> r.focused,
                urgent |-> r.urgent, activeWindow |-> r.activeWindow]
    PROVE  [r EXCEPT !.urgent = x]
               = [output |-> r.output, active |-> r.active, focused |-> r.focused,
                  urgent |-> x, activeWindow |-> r.activeWindow]
OBVIOUS

\* applyWorkspaceUrgencyChanged.
LEMMA WorkspaceUrgencySeen ==
    ASSUME NEW n, Sound(n), NEW w \in DOMAIN n.place, NEW urgent \in BOOLEAN, NEW m,
           m = [n EXCEPT !.urgent.workspaces = IF urgent THEN @ \cup {w} ELSE @ \ {w}]
    PROVE  /\ Sound(m)
           /\ Apply(View(n, {}), [what |-> "WorkspaceUrgencyChanged", id |-> w,
                                  urgent |-> urgent]) = View(m, {})
<1>1. /\ m.place = n.place /\ m.active = n.active /\ m.focusedOutput = n.focusedOutput
      /\ m.holds = n.holds /\ m.on = n.on /\ m.focus = n.focus
      /\ m.urgent.windows = n.urgent.windows
      /\ m.urgent.workspaces = IF urgent THEN n.urgent.workspaces \cup {w}
                               ELSE n.urgent.workspaces \ {w}
      /\ m.layouts = n.layouts /\ m.overview = n.overview /\ m.configFailed = n.configFailed
  BY DEF Sound, Niri
<1>2. w \in Workspaces
  <2>1. n.place \in Partial(Workspaces, OutputNames)
    BY DEF Sound, Niri
  <2> QED
    BY <2>1, PartialIs
<1>3. m \in Niri
  BY <1>2 DEF Sound, Niri
<1>4. Consistent(m)
  BY <1>1 DEF Sound, Consistent
<1> DEFINE old == WorkspacesOf(n)
           new == WorkspacesOf(m)
<1>5. /\ DOMAIN old = DOMAIN n.place /\ DOMAIN new = DOMAIN n.place
      /\ new = [v \in DOMAIN n.place |-> new[v]]
      /\ old = [v \in DOMAIN n.place |-> old[v]]
  BY <1>1 DEF WorkspacesOf
<1>6. new = [old EXCEPT ![w].urgent = urgent]
  <2>1. new[w] = [old[w] EXCEPT !.urgent = urgent]
    <3> DEFINE active == n.place[w] \in DOMAIN n.active /\ n.active[n.place[w]] = w
               focus == active /\ n.focusedOutput = n.place[w]
               wants == w \in n.urgent.workspaces
    <3>1. w \in m.urgent.workspaces <=> urgent
      BY <1>1
    <3>2. (w \in m.urgent.workspaces) = urgent
      BY <3>1
    <3>3. new[w] = [output |-> n.place[w], active |-> active, focused |-> focus,
                    urgent |-> urgent, activeWindow |-> n.holds[w]]
      BY <1>1, <3>2, Zenon DEF WorkspacesOf
    <3>4. old[w] = [output |-> n.place[w], active |-> active, focused |-> focus,
                    urgent |-> wants, activeWindow |-> n.holds[w]]
      BY DEF WorkspacesOf
    <3> HIDE DEF new, old, active, focus, wants
    <3>5. /\ old[w].output = n.place[w] /\ old[w].active = active /\ old[w].focused = focus
          /\ old[w].urgent = wants /\ old[w].activeWindow = n.holds[w]
      BY <3>4
    <3>6. old[w] = [output |-> old[w].output, active |-> old[w].active,
                    focused |-> old[w].focused, urgent |-> old[w].urgent,
                    activeWindow |-> old[w].activeWindow]
      BY <3>4, <3>5, Zenon
    <3>7. [old[w] EXCEPT !.urgent = urgent]
              = [output |-> old[w].output, active |-> old[w].active,
                 focused |-> old[w].focused, urgent |-> urgent,
                 activeWindow |-> old[w].activeWindow]
      BY <3>6, UrgentSet
    <3> QED
      BY <3>3, <3>5, <3>7, Zenon
  <2>2. \A v \in DOMAIN n.place : v # w => new[v] = old[v]
    <3>1. \A v : v # w => (v \in m.urgent.workspaces <=> v \in n.urgent.workspaces)
      BY <1>1
    <3>2. \A v : v # w => (v \in m.urgent.workspaces) = (v \in n.urgent.workspaces)
      BY <3>1
    <3> QED
      BY <1>1, <3>2, Zenon DEF WorkspacesOf
  <2> HIDE DEF old, new
  <2> QED
    BY <1>5, <2>1, <2>2
<1>7. WindowsOf(m) = WindowsOf(n)
  BY <1>1 DEF WindowsOf
<1>8. Apply(View(n, {}), [what |-> "WorkspaceUrgencyChanged", id |-> w, urgent |-> urgent])
          = [View(n, {}) EXCEPT !.workspaces[w].urgent = urgent]
  BY <1>5 DEF Apply, ApplyWorkspaceUrgencyChanged, View
<1>9. [View(n, {}) EXCEPT !.workspaces[w].urgent = urgent] = View(m, {})
  <2> HIDE DEF old, new
  <2>1. View(n, {}).workspaces = old
    BY DEF View, old
  <2>2. [View(n, {}) EXCEPT !.workspaces = new] = View(m, {})
    <3>1. m.layouts = n.layouts /\ m.overview = n.overview /\ m.configFailed = n.configFailed
      BY <1>1
    <3>2. WorkspacesOf(m) = new
      BY DEF new
    <3> QED
      BY <1>7, <3>1, <3>2 DEF View
  <2> QED
    BY <1>6, <2>1, <2>2
<1> QED
  BY <1>3, <1>4, <1>8, <1>9 DEF Sound

\* applyWorkspaceActiveWindowChanged.
LEMMA ActiveWindowSeen ==
    ASSUME NEW n, Sound(n), NEW w \in DOMAIN n.place, NEW window \in Windows \cup {None},
           NEW m, m = [n EXCEPT !.holds[w] = window]
    PROVE  /\ Sound(m)
           /\ Apply(View(n, {}), [what |-> "WorkspaceActiveWindowChanged", id |-> w,
                                  window |-> window]) = View(m, {})
<1>2. w \in Workspaces
  <2>1. n.place \in Partial(Workspaces, OutputNames)
    BY DEF Sound, Niri
  <2> QED
    BY <2>1, PartialIs
<1>1. /\ m.place = n.place /\ m.active = n.active /\ m.focusedOutput = n.focusedOutput
      /\ m.holds = [n.holds EXCEPT ![w] = window] /\ m.on = n.on /\ m.focus = n.focus
      /\ m.urgent = n.urgent
      /\ m.layouts = n.layouts /\ m.overview = n.overview /\ m.configFailed = n.configFailed
      /\ n.holds \in [Workspaces -> Windows \cup {None}]
  BY DEF Sound, Niri
<1>3. m \in Niri
  BY <1>2 DEF Sound, Niri
<1>4. Consistent(m)
  BY <1>1 DEF Sound, Consistent
<1> DEFINE old == WorkspacesOf(n)
           new == WorkspacesOf(m)
<1>5. /\ DOMAIN old = DOMAIN n.place /\ DOMAIN new = DOMAIN n.place
      /\ new = [v \in DOMAIN n.place |-> new[v]]
      /\ old = [v \in DOMAIN n.place |-> old[v]]
      /\ DOMAIN n.place \subseteq Workspaces
  <2>1. n.place \in Partial(Workspaces, OutputNames)
    BY DEF Sound, Niri
  <2> QED
    BY <1>1, <2>1, PartialIs DEF WorkspacesOf
<1>6. new = [old EXCEPT ![w].activeWindow = window]
  <2>1. new[w] = [old[w] EXCEPT !.activeWindow = window]
    BY <1>1, <1>2 DEF WorkspacesOf
  <2>2. \A v \in DOMAIN n.place : v # w => new[v] = old[v]
    BY <1>1, <1>5 DEF WorkspacesOf
  <2> HIDE DEF old, new
  <2> QED
    BY <1>5, <2>1, <2>2
<1>7. WindowsOf(m) = WindowsOf(n)
  BY <1>1 DEF WindowsOf
<1>8. Apply(View(n, {}), [what |-> "WorkspaceActiveWindowChanged", id |-> w,
                          window |-> window])
          = [View(n, {}) EXCEPT !.workspaces[w].activeWindow = window]
  BY <1>5 DEF Apply, ApplyWorkspaceActiveWindowChanged, View
<1>9. [View(n, {}) EXCEPT !.workspaces[w].activeWindow = window] = View(m, {})
  <2> HIDE DEF old, new
  <2>1. View(n, {}).workspaces = old
    BY DEF View, old
  <2>2. [View(n, {}) EXCEPT !.workspaces = new] = View(m, {})
    <3>1. m.layouts = n.layouts /\ m.overview = n.overview /\ m.configFailed = n.configFailed
      BY <1>1
    <3>2. WorkspacesOf(m) = new
      BY DEF new
    <3> QED
      BY <1>7, <3>1, <3>2 DEF View
  <2> QED
    BY <1>6, <2>1, <2>2
<1> QED
  BY <1>3, <1>4, <1>8, <1>9 DEF Sound

SameButWindows(n, m) ==
    /\ m.place = n.place /\ m.active = n.active /\ m.focusedOutput = n.focusedOutput
    /\ m.holds = n.holds /\ m.urgent.workspaces = n.urgent.workspaces
    /\ m.layouts = n.layouts /\ m.overview = n.overview /\ m.configFailed = n.configFailed

\* A window's change of focus, urgency or workspace leaves the rest of niri as it is.
LEMMA WindowsOnly ==
    ASSUME NEW n, Sound(n), NEW m \in Niri, SameButWindows(n, m),
           m.focus \in DOMAIN m.on \cup {None}
    PROVE  /\ Sound(m)
           /\ [View(n, {}) EXCEPT !.windows = WindowsOf(m)] = View(m, {})
<1>1. Consistent(m)
  BY DEF Sound, Consistent, SameButWindows
<1>2. WorkspacesOf(m) = WorkspacesOf(n)
  BY DEF WorkspacesOf, SameButWindows
<1>3. [View(n, {}) EXCEPT !.windows = WindowsOf(m)] = View(m, {})
  BY <1>2 DEF View, SameButWindows
<1> QED
  BY <1>1, <1>3 DEF Sound

\* The windows of the domain D that are on these workspaces, that one of them focused.
Shows(D, on, focus, urgent) ==
    [y \in D |-> [workspace |-> on[y], focused |-> focus = y, urgent |-> y \in urgent]]

\* The fields of a window one of whose flags is set.
LEMMA WindowSet ==
    ASSUME NEW r, NEW x,
           r = [workspace |-> r.workspace, focused |-> r.focused, urgent |-> r.urgent]
    PROVE  /\ [r EXCEPT !.focused = x]
                  = [workspace |-> r.workspace, focused |-> x, urgent |-> r.urgent]
           /\ [r EXCEPT !.urgent = x]
                  = [workspace |-> r.workspace, focused |-> r.focused, urgent |-> x]
OBVIOUS

\* The fields of one of the windows.
LEMMA ShownWindow ==
    ASSUME NEW D, NEW on, NEW focus, NEW urgent, NEW y \in D, NEW r,
           r = Shows(D, on, focus, urgent)[y]
    PROVE  /\ r = [workspace |-> r.workspace, focused |-> r.focused, urgent |-> r.urgent]
           /\ r.workspace = on[y]
           /\ r.focused = (focus = y)
           /\ r.urgent = (y \in urgent)
<1> DEFINE has == focus = y
           wants == y \in urgent
<1>1. r = [workspace |-> on[y], focused |-> has, urgent |-> wants]
  BY DEF Shows
<1> HIDE DEF has, wants
<1>2. r.workspace = on[y] /\ r.focused = has /\ r.urgent = wants
  BY <1>1
<1>3. r = [workspace |-> r.workspace, focused |-> r.focused, urgent |-> r.urgent]
  BY <1>1, <1>2, Zenon
<1> QED
  BY <1>2, <1>3, Zenon DEF has, wants

\* Nobody has the focus once it is taken: None is not a window.
LEMMA UnfocusedShows ==
    ASSUME NEW D \in SUBSET Windows, NEW on, NEW focus, NEW urgent
    PROVE  Unfocused(Shows(D, on, focus, urgent)) = Shows(D, on, None, urgent)
<1> DEFINE f == Shows(D, on, focus, urgent)
           g == Shows(D, on, None, urgent)
<1>1. DOMAIN f = D /\ g = [y \in D |-> g[y]]
  BY DEF Shows
<1>2. ASSUME NEW y \in D
      PROVE  [f[y] EXCEPT !.focused = FALSE] = g[y]
  <2>1. (None = y) = FALSE
    BY StateAssumption DEF None
  <2>2. /\ f[y] = [workspace |-> f[y].workspace, focused |-> f[y].focused,
                   urgent |-> f[y].urgent]
        /\ f[y].workspace = on[y] /\ f[y].urgent = (y \in urgent)
    BY ShownWindow
  <2>3. /\ g[y] = [workspace |-> g[y].workspace, focused |-> g[y].focused,
                   urgent |-> g[y].urgent]
        /\ g[y].workspace = on[y] /\ g[y].focused = (None = y)
        /\ g[y].urgent = (y \in urgent)
    BY ShownWindow
  <2> HIDE DEF f, g
  <2>4. [f[y] EXCEPT !.focused = FALSE]
            = [workspace |-> f[y].workspace, focused |-> FALSE, urgent |-> f[y].urgent]
    BY <2>2, WindowSet
  <2>5. g[y].workspace = f[y].workspace /\ g[y].focused = FALSE /\ g[y].urgent = f[y].urgent
    BY <2>1, <2>2, <2>3, Zenon
  <2> QED
    BY <2>3, <2>4, <2>5, Zenon
<1>3. Unfocused(f) = [y \in D |-> [f[y] EXCEPT !.focused = FALSE]]
  BY <1>1, Zenon DEF Unfocused
<1> HIDE DEF f, g
<1>4. Unfocused(f) = g
  BY <1>1, <1>2, <1>3, Zenon
<1> QED
  BY <1>4 DEF f, g

\* The focus goes to the one that is named, and for None to nobody.
LEMMA FocusedOnShows ==
    ASSUME NEW D \in SUBSET Windows, NEW on, NEW focus, NEW urgent, NEW id
    PROVE  FocusedOn(Shows(D, on, focus, urgent), id) = Shows(D, on, id, urgent)
<1> DEFINE f == Shows(D, on, focus, urgent)
           g == Shows(D, on, id, urgent)
<1>1. DOMAIN f = D /\ g = [y \in D |-> g[y]]
  BY DEF Shows
<1>2. ASSUME NEW y \in D
      PROVE  [f[y] EXCEPT !.focused = id # None /\ y = id] = g[y]
  <2> DEFINE has == id # None /\ y = id
  <2>1. (id = y) = has
    BY StateAssumption DEF None
  <2>2. /\ f[y] = [workspace |-> f[y].workspace, focused |-> f[y].focused,
                   urgent |-> f[y].urgent]
        /\ f[y].workspace = on[y] /\ f[y].urgent = (y \in urgent)
    BY ShownWindow
  <2>3. /\ g[y] = [workspace |-> g[y].workspace, focused |-> g[y].focused,
                   urgent |-> g[y].urgent]
        /\ g[y].workspace = on[y] /\ g[y].focused = (id = y)
        /\ g[y].urgent = (y \in urgent)
    BY ShownWindow
  <2> HIDE DEF f, g, has
  <2>4. [f[y] EXCEPT !.focused = has]
            = [workspace |-> f[y].workspace, focused |-> has, urgent |-> f[y].urgent]
    BY <2>2, WindowSet
  <2>5. g[y].workspace = f[y].workspace /\ g[y].focused = has /\ g[y].urgent = f[y].urgent
    BY <2>1, <2>2, <2>3, Zenon
  <2>6. [f[y] EXCEPT !.focused = has] = g[y]
    BY <2>3, <2>4, <2>5, Zenon
  <2> QED
    BY <2>6 DEF has
<1>3. FocusedOn(f, id) = [y \in D |-> [f[y] EXCEPT !.focused = id # None /\ y = id]]
  BY <1>1, Zenon DEF FocusedOn
<1> HIDE DEF f, g
<1>4. FocusedOn(f, id) = g
  BY <1>1, <1>2, <1>3, Zenon
<1> QED
  BY <1>4 DEF f, g

\* Which of them the focus is taken from makes no difference to the windows without it.
LEMMA ShowsSame ==
    ASSUME NEW D, NEW on, NEW focus, NEW urgent, NEW on2, NEW focus2, NEW urgent2,
           \A y \in D : /\ on[y] = on2[y] /\ (focus = y <=> focus2 = y)
                        /\ (y \in urgent <=> y \in urgent2)
    PROVE  Shows(D, on, focus, urgent) = Shows(D, on2, focus2, urgent2)
<1>1. \A y \in D : /\ on[y] = on2[y] /\ (focus = y) = (focus2 = y)
                   /\ (y \in urgent) = (y \in urgent2)
  OBVIOUS
<1> QED
  BY <1>1, Zenon DEF Shows

\* The others stay when one goes.
LEMMA WithoutShows ==
    ASSUME NEW D, NEW on, NEW focus, NEW urgent, NEW x
    PROVE  Without(Shows(D, on, focus, urgent), x) = Shows(D \ {x}, on, focus, urgent)
BY Zenon DEF Without, Shows

\* The windows of the model that has niri's view.
LEMMA ViewShows ==
    ASSUME NEW n, Sound(n)
    PROVE  /\ WindowsOf(n) = Shows(DOMAIN n.on, n.on, n.focus, n.urgent.windows)
           /\ View(n, {}).windows = Shows(DOMAIN n.on, n.on, n.focus, n.urgent.windows)
           /\ DOMAIN View(n, {}).windows = DOMAIN n.on
           /\ DOMAIN n.on \in SUBSET Windows
           /\ n.on \in Partial(Windows, Workspaces)
           /\ n.urgent.windows \in SUBSET Windows
           /\ n.focus \in DOMAIN n.on \cup {None}
           /\ \A y \in DOMAIN n.on : n.on[y] \in Workspaces
<1>1. WindowsOf(n) = Shows(DOMAIN n.on, n.on, n.focus, n.urgent.windows)
  BY Zenon DEF WindowsOf, Shows
<1>2. View(n, {}).windows = WindowsOf(n) /\ DOMAIN WindowsOf(n) = DOMAIN n.on
  BY DEF View, WindowsOf
<1>3. n.on \in Partial(Windows, Workspaces) /\ n.urgent.windows \in SUBSET Windows
  BY DEF Sound, Niri
<1>4. n.focus \in DOMAIN n.on \cup {None}
  BY DEF Sound, Consistent
<1>5. DOMAIN n.on \subseteq Windows /\ \A y \in DOMAIN n.on : n.on[y] \in Workspaces
  BY <1>3, PartialIs
<1> QED
  BY <1>1, <1>2, <1>3, <1>4, <1>5

Changing(n, m, x, w, focused) ==
    m = [n EXCEPT !.on = With(@, x, w),
                  !.focus = IF focused THEN x ELSE IF @ = x THEN None ELSE @]

\* applyWindowOpenedOrChanged: the window that has the focus takes it from the others,
\* and one that loses it as it changes leaves nobody with it.
LEMMA WindowChangedSeen ==
    ASSUME NEW n, Sound(n), NEW x \in Windows, NEW w \in Workspaces, NEW focused \in BOOLEAN,
           NEW m, Changing(n, m, x, w, focused)
    PROVE  /\ Sound(m)
           /\ x \in DOMAIN WindowsOf(m)
           /\ Apply(View(n, {}), [what |-> "WindowOpenedOrChanged", id |-> x,
                                  window |-> WindowsOf(m)[x]]) = View(m, {})
<1> USE DEF Changing
<1> DEFINE on == With(n.on, x, w)
           focus == IF focused THEN x ELSE IF n.focus = x THEN None ELSE n.focus
           urgent == n.urgent.windows
           D == DOMAIN n.on
           old == View(n, {}).windows
           window == WindowsOf(m)[x]
<1>1. /\ old = Shows(D, n.on, n.focus, urgent)
      /\ DOMAIN old = D /\ D \in SUBSET Windows
      /\ n.on \in Partial(Windows, Workspaces) /\ urgent \in SUBSET Windows
      /\ n.focus \in D \cup {None}
      /\ \A y \in D : n.on[y] \in Workspaces
  BY ViewShows
<1>2. /\ DOMAIN on = D \cup {x}
      /\ on = [y \in D \cup {x} |-> IF y = x THEN w ELSE n.on[y]]
  BY DEF With
<1>3. on \in Partial(Windows, Workspaces)
  BY <1>1, <1>2, PartialIs
<1>4. focus \in DOMAIN on \cup {None}
  BY <1>1, <1>2
<1>5. /\ m \in Niri /\ SameButWindows(n, m)
      /\ m.on = on /\ m.focus = focus /\ m.urgent.windows = urgent
  <2>1. m.on = on /\ m.focus = focus /\ m.urgent.windows = urgent
    BY DEF Sound, Niri
  <2>2. SameButWindows(n, m)
    BY DEF Sound, Niri, SameButWindows
  <2>3. focus \in Windows \cup {None}
    BY <1>1
  <2> HIDE DEF on, focus
  <2>4. m = [n EXCEPT !.on = on, !.focus = focus]
    BY DEF on, focus
  <2>5. m \in Niri
    BY <1>3, <2>3, <2>4 DEF Sound, Niri
  <2> QED
    BY <2>1, <2>2, <2>5
<1>6. /\ Sound(m)
      /\ [View(n, {}) EXCEPT !.windows = WindowsOf(m)] = View(m, {})
      /\ m.on = on /\ m.focus = focus /\ m.urgent.windows = urgent
  <2>1. m.focus \in DOMAIN m.on \cup {None}
    BY <1>4, <1>5
  <2> QED
    BY <1>5, <2>1, WindowsOnly
<1>7. WindowsOf(m) = Shows(D \cup {x}, on, focus, urgent)
  <2>1. WindowsOf(m) = Shows(DOMAIN m.on, m.on, m.focus, m.urgent.windows)
    BY <1>6, ViewShows
  <2> QED
    BY <1>2, <1>6, <2>1
<1> DEFINE new == Shows(D \cup {x}, on, focus, urgent)
           kept == IF window.focused THEN Unfocused(old) ELSE old
<1>8. window.focused = focused
  <2>1. x \in D \cup {x}
    OBVIOUS
  <2>2. window = new[x]
    BY <1>7
  <2>3. window.focused = (focus = x)
    BY <2>1, <2>2, ShownWindow
  <2>4. (focus = x) <=> focused
    <3>1. x # None
      BY StateAssumption DEF None
    <3> QED
      BY <3>1
  <2> HIDE DEF window
  <2> QED
    BY <2>3, <2>4
<1>9. kept = Shows(D, n.on, IF focused THEN None ELSE n.focus, urgent)
  <2>1. CASE focused
    <3>1. Unfocused(old) = Shows(D, n.on, None, urgent)
      BY <1>1, UnfocusedShows
    <3> QED
      BY <1>8, <2>1, <3>1
  <2>2. CASE ~focused
    BY <1>1, <1>8, <2>2
  <2> QED
    BY <2>1, <2>2
<1>10. \A y \in D \ {x} : kept[y] = new[y]
  <2> SUFFICES ASSUME NEW y \in D \ {x}
               PROVE  kept[y] = new[y]
    OBVIOUS
  <2> DEFINE before == IF focused THEN None ELSE n.focus
  <2>1. (before = y) = (focus = y)
    <3>1. y # None /\ y # x
      BY <1>1, StateAssumption DEF None
    <3> QED
      BY <3>1
  <2>2. on[y] = n.on[y]
    BY <1>2
  <2>3. y \in D /\ y \in D \cup {x}
    OBVIOUS
  <2> HIDE DEF before, focus, urgent, on, D
  <2>4. Shows(D, n.on, before, urgent)[y]
            = [workspace |-> n.on[y], focused |-> before = y, urgent |-> y \in urgent]
    BY <2>3, Zenon DEF Shows
  <2>5. Shows(D \cup {x}, on, focus, urgent)[y]
            = [workspace |-> on[y], focused |-> focus = y, urgent |-> y \in urgent]
    BY <2>3, Zenon DEF Shows
  <2>6. kept = Shows(D, n.on, before, urgent)
    BY <1>9 DEF before
  <2> HIDE DEF kept
  <2> QED
    BY <2>1, <2>2, <2>4, <2>5, <2>6, Zenon
<1>11. With(kept, x, window) = new
  <2>1. DOMAIN kept = D
    BY <1>9 DEF Shows
  <2>2. With(kept, x, window) = [y \in D \cup {x} |-> IF y = x THEN window ELSE kept[y]]
    BY <2>1, Zenon DEF With
  <2>3. new = [y \in D \cup {x} |-> new[y]]
    BY DEF Shows
  <2>4. window = new[x]
    BY <1>7
  <2> HIDE DEF kept, new, window, D
  <2> QED
    BY <1>10, <2>2, <2>3, <2>4
<1>12. Apply(View(n, {}), [what |-> "WindowOpenedOrChanged", id |-> x, window |-> window])
           = [View(n, {}) EXCEPT !.windows = With(kept, x, window)]
  <2> HIDE DEF window
  <2>1. Apply(View(n, {}), [what |-> "WindowOpenedOrChanged", id |-> x, window |-> window])
            = ApplyWindowOpenedOrChanged(View(n, {}), x, window)
    BY DEF Apply
  <2> QED
    BY <2>1, Zenon DEF ApplyWindowOpenedOrChanged
<1>13. x \in DOMAIN WindowsOf(m)
  BY <1>7 DEF Shows
<1> HIDE DEF kept, new, window
<1> QED
  BY <1>6, <1>7, <1>11, <1>12, <1>13 DEF new, window

\* applyWindowClosed: the focus goes with the window that had it.
LEMMA WindowClosedSeen ==
    ASSUME NEW n, Sound(n), NEW x \in DOMAIN n.on, NEW m,
           m = [n EXCEPT !.on = Without(@, x), !.urgent.windows = @ \ {x},
                         !.focus = IF @ = x THEN None ELSE @]
    PROVE  /\ Sound(m)
           /\ Apply(View(n, {}), [what |-> "WindowClosed", id |-> x]) = View(m, {})
<1> DEFINE on == Without(n.on, x)
           focus == IF n.focus = x THEN None ELSE n.focus
           urgent == n.urgent.windows
           D == DOMAIN n.on
           old == View(n, {}).windows
           new == Shows(D \ {x}, on, focus, urgent \ {x})
<1>1. /\ old = Shows(D, n.on, n.focus, urgent)
      /\ DOMAIN old = D /\ D \in SUBSET Windows
      /\ n.on \in Partial(Windows, Workspaces) /\ urgent \in SUBSET Windows
      /\ n.focus \in D \cup {None}
      /\ \A y \in D : n.on[y] \in Workspaces
  BY ViewShows
<1>2. DOMAIN on = D \ {x} /\ on = [y \in D \ {x} |-> n.on[y]]
  BY DEF Without
<1>3. on \in Partial(Windows, Workspaces)
  BY <1>1, <1>2, PartialIs
<1>4. focus \in DOMAIN on \cup {None} /\ urgent \ {x} \in SUBSET Windows
  BY <1>1, <1>2
<1>5. /\ m \in Niri /\ SameButWindows(n, m)
      /\ m.on = on /\ m.focus = focus /\ m.urgent.windows = urgent \ {x}
  <2>1. m.on = on /\ m.focus = focus /\ m.urgent.windows = urgent \ {x}
    BY DEF Sound, Niri
  <2>2. SameButWindows(n, m)
    BY DEF Sound, Niri, SameButWindows
  <2>3. focus \in Windows \cup {None}
    BY <1>1
  <2>4. urgent \ {x} \in SUBSET Windows
    BY <1>1
  <2>5. m \in Niri
    <3> DEFINE less == [n.urgent EXCEPT !.windows = urgent \ {x}]
               between == [n EXCEPT !.urgent = less]
    <3>1. less \in [windows : SUBSET Windows, workspaces : SUBSET Workspaces]
      BY <2>4 DEF Sound, Niri
    <3>2. between \in Niri
      <4> HIDE DEF less
      <4> QED
        BY <3>1 DEF Sound, Niri
    <3>3. m = [between EXCEPT !.on = on, !.focus = focus]
      BY DEF Sound, Niri
    <3> HIDE DEF on, focus, between
    <3> QED
      BY <1>3, <2>3, <3>2, <3>3 DEF Niri
  <2> QED
    BY <2>1, <2>2, <2>5
<1>6. /\ Sound(m)
      /\ [View(n, {}) EXCEPT !.windows = WindowsOf(m)] = View(m, {})
      /\ m.on = on /\ m.focus = focus /\ m.urgent.windows = urgent \ {x}
  <2>1. m.focus \in DOMAIN m.on \cup {None}
    BY <1>4, <1>5
  <2> QED
    BY <1>5, <2>1, WindowsOnly
<1>7. WindowsOf(m) = new
  <2>1. WindowsOf(m) = Shows(DOMAIN m.on, m.on, m.focus, m.urgent.windows)
    BY <1>6, ViewShows
  <2> QED
    BY <1>2, <1>6, <2>1
<1>8. Without(old, x) = Shows(D \ {x}, n.on, n.focus, urgent)
  BY <1>1, WithoutShows
<1>9. old[x].focused = (n.focus = x)
  BY <1>1, ShownWindow
<1> DEFINE after == IF old[x].focused THEN Unfocused(Without(old, x)) ELSE Without(old, x)
<1>10. after = Shows(D \ {x}, n.on, focus, urgent)
  <2>1. CASE n.focus = x
    <3>1. D \ {x} \in SUBSET Windows
      BY <1>1
    <3>2. Unfocused(Shows(D \ {x}, n.on, n.focus, urgent)) = Shows(D \ {x}, n.on, None, urgent)
      <4> HIDE DEF D, urgent
      <4> QED
        BY <3>1, UnfocusedShows
    <3>3. Unfocused(Without(old, x)) = Shows(D \ {x}, n.on, None, urgent)
      BY <1>8, <3>2, Zenon
    <3>4. focus = None /\ old[x].focused
      BY <1>9, <2>1
    <3> HIDE DEF old, focus
    <3> QED
      BY <3>3, <3>4
  <2>2. CASE n.focus # x
    <3>1. ~old[x].focused /\ focus = n.focus
      BY <1>9, <2>2
    <3> HIDE DEF old, focus
    <3> QED
      BY <1>8, <3>1
  <2> QED
    BY <2>1, <2>2
<1>11. Shows(D \ {x}, n.on, focus, urgent) = new
  <2>1. \A y \in D \ {x} : /\ n.on[y] = on[y] /\ (focus = y <=> focus = y)
                           /\ (y \in urgent <=> y \in urgent \ {x})
    BY <1>2
  <2> HIDE DEF on, focus, urgent, D
  <2> QED
    BY <2>1, ShowsSame
<1>12. Apply(View(n, {}), [what |-> "WindowClosed", id |-> x])
           = [View(n, {}) EXCEPT !.windows = after]
  <2>1. Apply(View(n, {}), [what |-> "WindowClosed", id |-> x])
            = ApplyWindowClosed(View(n, {}), x)
    BY DEF Apply
  <2>2. x \in DOMAIN View(n, {}).windows
    BY <1>1
  <2> QED
    BY <2>1, <2>2, Zenon DEF ApplyWindowClosed
<1> HIDE DEF after, new
<1> QED
  BY <1>6, <1>7, <1>10, <1>11, <1>12

\* applyFocus.
LEMMA WindowFocusSeen ==
    ASSUME NEW n, Sound(n), NEW x \in DOMAIN n.on \cup {None}, NEW m,
           m = [n EXCEPT !.focus = x]
    PROVE  /\ Sound(m)
           /\ Apply(View(n, {}), [what |-> "WindowFocusChanged", id |-> x]) = View(m, {})
<1> DEFINE on == n.on
           urgent == n.urgent.windows
           D == DOMAIN n.on
           old == View(n, {}).windows
<1>1. /\ old = Shows(D, on, n.focus, urgent)
      /\ D \in SUBSET Windows
      /\ on \in Partial(Windows, Workspaces) /\ urgent \in SUBSET Windows
  BY ViewShows
<1>2. /\ m \in Niri /\ SameButWindows(n, m)
      /\ m.on = on /\ m.focus = x /\ m.urgent.windows = urgent
  <2>1. x \in Windows \cup {None}
    BY <1>1
  <2> QED
    BY <2>1 DEF Sound, Niri, SameButWindows
<1>3. /\ Sound(m)
      /\ [View(n, {}) EXCEPT !.windows = WindowsOf(m)] = View(m, {})
      /\ m.on = on /\ m.focus = x /\ m.urgent.windows = urgent
  <2>1. m.focus \in DOMAIN m.on \cup {None}
    BY <1>2
  <2> QED
    BY <1>2, <2>1, WindowsOnly
<1>4. WindowsOf(m) = Shows(D, on, x, urgent)
  <2>1. WindowsOf(m) = Shows(DOMAIN m.on, m.on, m.focus, m.urgent.windows)
    BY <1>3, ViewShows
  <2> QED
    BY <1>3, <2>1
<1>5. FocusedOn(old, x) = Shows(D, on, x, urgent)
  BY <1>1, FocusedOnShows
<1>6. Apply(View(n, {}), [what |-> "WindowFocusChanged", id |-> x])
          = [View(n, {}) EXCEPT !.windows = FocusedOn(old, x)]
  <2>1. Apply(View(n, {}), [what |-> "WindowFocusChanged", id |-> x])
            = ApplyFocus(View(n, {}), x)
    BY DEF Apply
  <2> QED
    BY <2>1, Zenon DEF ApplyFocus
<1> HIDE DEF old, D, on, urgent
<1> QED
  BY <1>3, <1>4, <1>5, <1>6, Zenon

\* applyWindowUrgencyChanged.
LEMMA WindowUrgencySeen ==
    ASSUME NEW n, Sound(n), NEW x \in DOMAIN n.on, NEW wants \in BOOLEAN, NEW m,
           m = [n EXCEPT !.urgent.windows = IF wants THEN @ \cup {x} ELSE @ \ {x}]
    PROVE  /\ Sound(m)
           /\ Apply(View(n, {}), [what |-> "WindowUrgencyChanged", id |-> x,
                                  urgent |-> wants]) = View(m, {})
<1> DEFINE on == n.on
           urgent == n.urgent.windows
           later == IF wants THEN urgent \cup {x} ELSE urgent \ {x}
           D == DOMAIN n.on
           old == View(n, {}).windows
           new == Shows(D, on, n.focus, later)
<1>1. /\ old = Shows(D, on, n.focus, urgent)
      /\ DOMAIN old = D /\ D \in SUBSET Windows
      /\ on \in Partial(Windows, Workspaces) /\ urgent \in SUBSET Windows
      /\ n.focus \in D \cup {None}
  BY ViewShows
<1>2. /\ m \in Niri /\ SameButWindows(n, m)
      /\ m.on = on /\ m.focus = n.focus /\ m.urgent.windows = later
  <2>1. later \in SUBSET Windows
    BY <1>1
  <2>2. SameButWindows(n, m) /\ m.on = on /\ m.focus = n.focus /\ m.urgent.windows = later
    BY DEF Sound, Niri, SameButWindows
  <2>3. m = [n EXCEPT !.urgent.windows = later]
    OBVIOUS
  <2> HIDE DEF later
  <2>4. m \in Niri
    BY <2>1, <2>3 DEF Sound, Niri
  <2> QED
    BY <2>2, <2>4
<1>3. later \in SUBSET Windows
  BY <1>1
<1>4. /\ Sound(m)
      /\ [View(n, {}) EXCEPT !.windows = WindowsOf(m)] = View(m, {})
      /\ m.on = on /\ m.focus = n.focus /\ m.urgent.windows = later
  <2>1. m.focus \in DOMAIN m.on \cup {None}
    BY <1>1, <1>2
  <2> QED
    BY <1>2, <2>1, WindowsOnly
<1>5. WindowsOf(m) = new
  <2>1. WindowsOf(m) = Shows(DOMAIN m.on, m.on, m.focus, m.urgent.windows)
    BY <1>4, ViewShows
  <2> QED
    BY <1>4, <2>1
<1>6. [old EXCEPT ![x].urgent = wants] = new
  <2>1. old = [y \in D |-> old[y]] /\ new = [y \in D |-> new[y]]
    BY <1>1 DEF Shows
  <2>2. new[x] = [old[x] EXCEPT !.urgent = wants]
    <3>1. (x \in later) = wants
      OBVIOUS
    <3>2. /\ old[x] = [workspace |-> old[x].workspace, focused |-> old[x].focused,
                       urgent |-> old[x].urgent]
          /\ old[x].workspace = on[x] /\ old[x].focused = (n.focus = x)
      BY <1>1, ShownWindow
    <3>3. /\ new[x] = [workspace |-> new[x].workspace, focused |-> new[x].focused,
                       urgent |-> new[x].urgent]
          /\ new[x].workspace = on[x] /\ new[x].focused = (n.focus = x)
          /\ new[x].urgent = (x \in later)
      BY ShownWindow
    <3> HIDE DEF old, new, later
    <3>4. [old[x] EXCEPT !.urgent = wants]
              = [workspace |-> old[x].workspace, focused |-> old[x].focused,
                 urgent |-> wants]
      BY <3>2, WindowSet
    <3> QED
      BY <3>1, <3>2, <3>3, <3>4, Zenon
  <2>3. ASSUME NEW y \in D, y # x
        PROVE  new[y] = old[y]
    <3>1. (y \in later) = (y \in urgent)
      BY <2>3
    <3> HIDE DEF later, urgent, on, D
    <3>2. new[y] = [workspace |-> on[y], focused |-> n.focus = y, urgent |-> y \in later]
      BY Zenon DEF Shows
    <3>3. old[y] = [workspace |-> on[y], focused |-> n.focus = y, urgent |-> y \in urgent]
      BY <1>1, Zenon DEF Shows
    <3> HIDE DEF old, new
    <3> QED
      BY <3>1, <3>2, <3>3, Zenon
  <2> HIDE DEF old, new
  <2> QED
    BY <2>1, <2>2, <2>3
<1>7. Apply(View(n, {}), [what |-> "WindowUrgencyChanged", id |-> x, urgent |-> wants])
          = [View(n, {}) EXCEPT !.windows[x].urgent = wants]
  <2>1. x \in DOMAIN View(n, {}).windows
    BY <1>1
  <2> QED
    BY <2>1 DEF Apply, ApplyWindowUrgencyChanged
<1>8. [View(n, {}) EXCEPT !.windows[x].urgent = wants] = [View(n, {}) EXCEPT !.windows = new]
  <2> HIDE DEF new
  <2> QED
    BY <1>6
<1> HIDE DEF old, new
<1> QED
  BY <1>4, <1>5, <1>7, <1>8

\* The layouts, the overview and the configuration.
LEMMA RestSeen ==
    ASSUME NEW n, Sound(n), NEW m
    PROVE  /\ \A count \in LayoutCounts :
                  m = [n EXCEPT !.layouts = [count |-> count, index |-> 0]] =>
                  /\ Sound(m)
                  /\ Apply(View(n, {}), [what |-> "KeyboardLayoutsChanged",
                                         layouts |-> m.layouts]) = View(m, {})
           /\ \A index \in 0..n.layouts.count - 1 :
                  m = [n EXCEPT !.layouts.index = index] =>
                  /\ Sound(m)
                  /\ Apply(View(n, {}), [what |-> "KeyboardLayoutSwitched",
                                         index |-> index]) = View(m, {})
           /\ m = [n EXCEPT !.overview = ~@] =>
                  /\ Sound(m)
                  /\ Apply(View(n, {}), [what |-> "OverviewOpenedOrClosed",
                                         flag |-> m.overview]) = View(m, {})
           /\ \A failed \in BOOLEAN :
                  m = [n EXCEPT !.configFailed = failed] =>
                  /\ Sound(m)
                  /\ Apply(View(n, {}), [what |-> "ConfigLoaded", flag |-> failed])
                         = View(m, {})
<1> DEFINE Same == /\ m.place = n.place /\ m.active = n.active /\ m.holds = n.holds
                   /\ m.focusedOutput = n.focusedOutput /\ m.on = n.on /\ m.focus = n.focus
                   /\ m.urgent = n.urgent
<1>1. Same => /\ WorkspacesOf(m) = WorkspacesOf(n) /\ WindowsOf(m) = WindowsOf(n)
              /\ Consistent(m)
  BY DEF WorkspacesOf, WindowsOf, Sound, Consistent
<1>2. ASSUME NEW count \in LayoutCounts,
             m = [n EXCEPT !.layouts = [count |-> count, index |-> 0]]
      PROVE  /\ Sound(m)
             /\ Apply(View(n, {}), [what |-> "KeyboardLayoutsChanged",
                                    layouts |-> m.layouts]) = View(m, {})
  <2> DEFINE all == UNION {[count : {k}, index : 0..k - 1] : k \in LayoutCounts}
  <2>1. [count |-> count, index |-> 0] \in [count : {count}, index : 0..count - 1]
    BY StateAssumption
  <2>2. [count |-> count, index |-> 0] \in all
    BY <2>1
  <2>3. n.layouts \in all
    BY DEF Sound, Niri
  <2> HIDE DEF all
  <2>4. m \in Niri
    BY <1>2, <2>2 DEF Sound, Niri, all
  <2>5. /\ Same /\ m.overview = n.overview /\ m.configFailed = n.configFailed
        /\ m.layouts = [count |-> count, index |-> 0]
    BY <1>2 DEF Sound, Niri
  <2>6. Apply(View(n, {}), [what |-> "KeyboardLayoutsChanged", layouts |-> m.layouts])
            = ApplyKeyboardLayoutsChanged(View(n, {}), m.layouts)
    BY DEF Apply
  <2> HIDE DEF Same
  <2>7. ApplyKeyboardLayoutsChanged(View(n, {}), m.layouts) = View(m, {})
    BY <1>1, <2>5 DEF ApplyKeyboardLayoutsChanged, View
  <2> QED
    BY <1>1, <2>4, <2>5, <2>6, <2>7 DEF Sound
<1>3. ASSUME NEW index \in 0..n.layouts.count - 1, m = [n EXCEPT !.layouts.index = index]
      PROVE  /\ Sound(m)
             /\ Apply(View(n, {}), [what |-> "KeyboardLayoutSwitched",
                                    index |-> index]) = View(m, {})
  <2> DEFINE all == UNION {[count : {k}, index : 0..k - 1] : k \in LayoutCounts}
  <2>1. PICK k \in LayoutCounts : n.layouts \in [count : {k}, index : 0..k - 1]
    BY DEF Sound, Niri
  <2>2. [n.layouts EXCEPT !.index = index] \in [count : {k}, index : 0..k - 1]
    BY <2>1
  <2>3. [n.layouts EXCEPT !.index = index] \in all
    BY <2>2
  <2>4. m = [n EXCEPT !.layouts = [n.layouts EXCEPT !.index = index]]
    BY <1>3
  <2> DEFINE layouts == [n.layouts EXCEPT !.index = index]
  <2>5. layouts \in all /\ m = [n EXCEPT !.layouts = layouts]
    BY <2>3, <2>4
  <2> HIDE DEF all, layouts
  <2>6. m \in Niri
    BY <2>5 DEF Sound, Niri, all
  <2>7. /\ Same /\ m.overview = n.overview /\ m.configFailed = n.configFailed
        /\ m.layouts = layouts
    BY <2>5 DEF Sound, Niri
  <2>8. n.layouts.count # None
    BY <2>1, StateAssumption DEF None
  <2>9. Apply(View(n, {}), [what |-> "KeyboardLayoutSwitched", index |-> index])
            = ApplyKeyboardLayoutSwitched(View(n, {}), index)
    BY DEF Apply
  <2>10. ApplyKeyboardLayoutSwitched(View(n, {}), index)
             = [View(n, {}) EXCEPT !.layouts = layouts]
    <3>1. View(n, {}).layouts = n.layouts
      BY DEF View
    <3>2. ApplyKeyboardLayoutSwitched(View(n, {}), index)
              = [View(n, {}) EXCEPT !.layouts.index = index]
      BY <2>8, <3>1, Zenon DEF ApplyKeyboardLayoutSwitched
    <3> QED
      BY <3>1, <3>2 DEF layouts
  <2> HIDE DEF Same
  <2>11. [View(n, {}) EXCEPT !.layouts = layouts] = View(m, {})
    BY <1>1, <2>7 DEF View
  <2> QED
    BY <1>1, <2>6, <2>7, <2>9, <2>10, <2>11 DEF Sound
<1>4. ASSUME m = [n EXCEPT !.overview = ~@]
      PROVE  /\ Sound(m)
             /\ Apply(View(n, {}), [what |-> "OverviewOpenedOrClosed",
                                    flag |-> m.overview]) = View(m, {})
  <2>1. m \in Niri /\ Same /\ m.layouts = n.layouts /\ m.configFailed = n.configFailed
    BY <1>4 DEF Sound, Niri
  <2> HIDE DEF Same
  <2>2. Apply(View(n, {}), [what |-> "OverviewOpenedOrClosed", flag |-> m.overview])
            = [View(n, {}) EXCEPT !.overview = m.overview]
    BY DEF Apply
  <2>3. [View(n, {}) EXCEPT !.overview = m.overview] = View(m, {})
    BY <1>1, <2>1 DEF View
  <2> QED
    BY <1>1, <2>1, <2>2, <2>3 DEF Sound
<1>5. ASSUME NEW failed \in BOOLEAN, m = [n EXCEPT !.configFailed = failed]
      PROVE  /\ Sound(m)
             /\ Apply(View(n, {}), [what |-> "ConfigLoaded", flag |-> failed]) = View(m, {})
  <2>1. /\ m \in Niri /\ Same /\ m.layouts = n.layouts /\ m.overview = n.overview
        /\ m.configFailed = failed
    BY <1>5 DEF Sound, Niri
  <2> HIDE DEF Same
  <2>2. Apply(View(n, {}), [what |-> "ConfigLoaded", flag |-> failed])
            = [View(n, {}) EXCEPT !.configFailed = failed]
    BY DEF Apply
  <2>3. [View(n, {}) EXCEPT !.configFailed = failed] = View(m, {})
    BY <1>1, <2>1 DEF View
  <2> QED
    BY <1>1, <2>1, <2>2, <2>3 DEF Sound
<1> QED
  BY <1>2, <1>3, <1>4, <1>5

-----------------------------------------------------------------------------
\* The model without its outputs, which the events do not concern.
Shown == [state EXCEPT !.outputs = {}]

\* Replay is that of the model and the unread events.
LEMMA ReplayIs == events \in Seq(Event) => Replays(Replay, Shown, events)
<1> SUFFICES ASSUME events \in Seq(Event)
             PROVE  Replays(Replay, Shown, events)
  OBVIOUS
<1>1. \E f : Replays(f, Shown, events)
  BY ReplayExists
<1>2. \E f : f = [i \in 0..Len(events) |-> IF i = 0 THEN [state EXCEPT !.outputs = {}]
                                           ELSE Apply(f[i - 1], events[i])]
  BY <1>1, Zenon DEF Replays, Shown
<1> QED
  BY <1>2, Zenon DEF Replay, Replays, Shown

\* Each model on the way to niri's is well formed, and the last one is niri's.
Followed ==
    /\ events \in Seq(Event)
    /\ stream = "closed" => events = <<>>
    /\ \A i \in 0..Len(events) : Replay[i] \in State /\ OneOfEachIn(Replay[i])
    /\ stream = "subscribed" => Replay[Len(events)] = View(niri, {})

\* Each of NiriService's copies is the translation of the model.
Translated(s) ==
    service = [workspaces |-> s.workspaces, windows |-> s.windows,
               focusedWindow |-> FocusedWindow(s.windows), outputs |-> s.outputs,
               keyboardLayout |-> s.layouts, overviewOpen |-> s.overview,
               connected |-> service.connected]

IInv ==
    /\ traffic \in Traffic
    /\ Sound(niri)
    /\ stream \in {"closed", "subscribed"}
    /\ state \in State /\ OneOfEachIn(state)
    /\ Followed
    /\ Translated(state)

\* Signals for all that changes have every copy that changes read again.
LEMMA ToldEnough ==
    ASSUME NEW s \in State, NEW t \in State, NEW told, NEW connected, NEW after,
           Changed(s, t) \ {"focusedWindow"} \subseteq told, Translated(s),
           after = [Refreshed(told, t) EXCEPT !.connected = connected]
    PROVE  after = [workspaces |-> t.workspaces, windows |-> t.windows,
                    focusedWindow |-> FocusedWindow(t.windows), outputs |-> t.outputs,
                    keyboardLayout |-> t.layouts, overviewOpen |-> t.overview,
                    connected |-> after.connected]
<1> DEFINE read == UNION {Refreshes(signal) : signal \in told}
           fresh == Refreshed(told, t)
           Copies == {"workspaces", "windows", "focusedWindow", "outputs",
                      "keyboardLayout", "overviewOpen", "connected"}
<1>1. DOMAIN service = Copies
  BY DEF Translated
<1>2. fresh = [copy \in Copies |-> IF copy \in read THEN Translation(t)[copy]
                                   ELSE service[copy]]
  BY <1>1 DEF Refreshed
<1>3. DOMAIN s = {"workspaces", "windows", "outputs", "layouts", "overview", "configFailed"}
  BY DEF State
<1>4. \A part \in DOMAIN s : s[part] # t[part] => part \in told
  <2>1. \A part \in DOMAIN s : s[part] # t[part] => part \in Changed(s, t)
    BY DEF Changed
  <2> QED
    BY <1>3, <2>1
<1>5. \A signal \in told : Refreshes(signal) \subseteq read
  OBVIOUS
<1> HIDE DEF read
<1>6. /\ s.workspaces # t.workspaces => "workspaces" \in read
      /\ s.windows # t.windows => "windows" \in read /\ "focusedWindow" \in read
      /\ s.outputs # t.outputs => "outputs" \in read
      /\ s.layouts # t.layouts => "keyboardLayout" \in read
      /\ s.overview # t.overview => "overviewOpen" \in read
  BY <1>3, <1>4, <1>5 DEF Refreshes
<1>7. /\ service.workspaces = s.workspaces /\ service.windows = s.windows
      /\ service.focusedWindow = FocusedWindow(s.windows) /\ service.outputs = s.outputs
      /\ service.keyboardLayout = s.layouts /\ service.overviewOpen = s.overview
  BY DEF Translated
<1>8. /\ fresh.workspaces = t.workspaces /\ fresh.windows = t.windows
      /\ fresh.focusedWindow = FocusedWindow(t.windows) /\ fresh.outputs = t.outputs
      /\ fresh.keyboardLayout = t.layouts /\ fresh.overviewOpen = t.overview
  <2> HIDE DEF fresh
  <2> QED
    BY <1>2, <1>6, <1>7 DEF Translation
<1>9. DOMAIN fresh = Copies /\ fresh = [copy \in Copies |-> fresh[copy]]
  BY <1>2
<1> HIDE DEF fresh
<1>10. /\ after.workspaces = t.workspaces /\ after.windows = t.windows
       /\ after.focusedWindow = FocusedWindow(t.windows) /\ after.outputs = t.outputs
       /\ after.keyboardLayout = t.layouts /\ after.overviewOpen = t.overview
       /\ DOMAIN after = Copies /\ after = [copy \in Copies |-> after[copy]]
  BY <1>8, <1>9 DEF fresh
<1> QED
  BY <1>10

\* No handler changes a part of the model without its signal.
LEMMA SignalsTell ==
    ASSUME NEW s, NEW e
    PROVE  Changed(s, Apply(s, e)) \ {"focusedWindow"} \subseteq Signals(s, e)
<1> DEFINE changed == Changed(s, Apply(s, e))
<1>1. CASE e.what = "WindowUrgencyChanged"
  BY <1>1 DEF Signals
<1>2. CASE e.what = "WindowFocusChanged" /\ "windows" \in changed
  BY <1>2 DEF Signals
<1>3. CASE e.what # "WindowUrgencyChanged"
           /\ ~(e.what = "WindowFocusChanged" /\ "windows" \in changed)
  BY <1>3 DEF Signals
<1> QED
  BY <1>1, <1>2, <1>3

-----------------------------------------------------------------------------
\* niri sends the event of its change: it follows what was unread.
LEMMA Sent ==
    ASSUME IInv, Sound(niri)', NEW e \in Event, Sends(e), traffic' = traffic,
           Apply(View(niri, {}), e) = View(niri', {})
    PROVE  /\ IInv'
           /\ stream = "subscribed" =>
                  /\ events' = Append(events, e)
                  /\ \A i \in 0..Len(events) : Replay'[i] = Replay[i]
                  /\ Replay'[Len(events) + 1] = View(niri', {})
           /\ stream # "subscribed" => events' = events /\ Replay' = Replay
<1>1. /\ events' = IF stream = "subscribed" THEN Append(events, e) ELSE events
      /\ stream' = stream /\ state' = state /\ service' = service
  BY DEF Sends
<1>2. /\ events \in Seq(Event) /\ Len(events) \in Nat
      /\ \A i \in 0..Len(events) : Replay[i] \in State /\ OneOfEachIn(Replay[i])
      /\ stream = "closed" => events = <<>>
      /\ stream = "subscribed" => Replay[Len(events)] = View(niri, {})
  BY LenProperties DEF IInv, Followed
<1>3. Replays(Replay, Shown, events)
  BY <1>2, ReplayIs
<1>4. events' \in Seq(Event)
  BY <1>1, <1>2, AppendProperties
<1>5. Replays(Replay', Shown', events')
  <2>1. (events \in Seq(Event) => Replays(Replay, Shown, events))'
    BY ReplayIs, PTL
  <2> QED
    BY <1>4, <2>1
<1>6. Shown' = Shown
  BY <1>1 DEF Shown
<1>7. View(niri', {}) \in State /\ OneOfEachIn(View(niri', {}))
  BY ViewTyped, ViewOneOfEach DEF Sound
<1>8. CASE stream = "subscribed"
  <2>1. events' = Append(events, e)
    BY <1>1, <1>8
  <2>2. /\ \A i \in 0..Len(events) : Replay'[i] = Replay[i]
        /\ Replay'[Len(events) + 1] = Apply(Replay[Len(events)], e)
    BY <1>2, <1>3, <1>5, <1>6, <2>1, ReplayAppended
  <2>3. Replay'[Len(events) + 1] = View(niri', {})
    BY <1>2, <1>8, <2>2
  <2>4. Len(events') = Len(events) + 1
    BY <1>2, <2>1, AppendProperties
  <2>5. \A i \in 0..Len(events') : i \in 0..Len(events) \/ i = Len(events) + 1
    BY <1>2, <2>4
  <2>6. \A i \in 0..Len(events') : Replay'[i] \in State /\ OneOfEachIn(Replay'[i])
    BY <1>2, <1>7, <2>2, <2>3, <2>5
  <2>7. Followed'
    BY <1>1, <1>4, <1>8, <2>3, <2>4, <2>6 DEF Followed
  <2>8. IInv'
    BY <1>1, <2>7 DEF IInv, Translated
  <2> QED
    BY <1>8, <2>1, <2>2, <2>3, <2>8
<1>9. CASE stream # "subscribed"
  <2>1. events' = events
    BY <1>1, <1>9
  <2>2. Replay' = Replay
    BY <1>2, <1>3, <1>5, <1>6, <2>1, ReplayUnique
  <2>3. Followed'
    BY <1>1, <1>2, <1>9, <2>1, <2>2 DEF Followed
  <2>4. IInv'
    BY <1>1, <2>3 DEF IInv, Translated
  <2> QED
    BY <1>9, <2>1, <2>2, <2>4
<1> QED
  BY <1>8, <1>9

\* A model that is well typed but for its outputs, which are some of niri's.
LEMMA OutputsApart ==
    ASSUME NEW s, NEW outputs \in SUBSET OutputNames,
           s = [workspaces |-> s.workspaces, windows |-> s.windows, outputs |-> outputs,
                layouts |-> s.layouts, overview |-> s.overview,
                configFailed |-> s.configFailed]
    PROVE  /\ [s EXCEPT !.outputs = {}] \in State => s \in State
           /\ OneOfEachIn([s EXCEPT !.outputs = {}]) <=> OneOfEachIn(s)
<1> DEFINE r == [s EXCEPT !.outputs = {}]
<1>1. /\ r.workspaces = s.workspaces /\ r.windows = s.windows /\ r.layouts = s.layouts
      /\ r.overview = s.overview /\ r.configFailed = s.configFailed
  OBVIOUS
<1> HIDE DEF r
<1>2. OneOfEachIn(r) <=> OneOfEachIn(s)
  BY <1>1 DEF OneOfEachIn
<1>3. r \in State => s \in State
  BY <1>1 DEF State
<1> QED
  BY <1>2, <1>3 DEF r

\* What is left to go through once an event is read.
LEMMA Read ==
    ASSUME IInv, ReadEvent, traffic' = traffic
    PROVE  /\ IInv'
           /\ Replay'[0] = Replay[1]
           /\ \A i \in 0..Len(events') : Replay'[i] = Replay[i + 1]
<1> DEFINE h == Head(events)
           told == Signals(state, h)
           connected == Refreshed(told, state').connected \/ h.what = "streaming"
<1>1. /\ events # <<>> /\ events' = Tail(events) /\ state' = Apply(state, h)
      /\ stream' = stream /\ niri' = niri
  BY DEF ReadEvent
<1>2. service' = [Refreshed(told, state') EXCEPT !.connected = connected]
  BY Zenon DEF ReadEvent
<1>3. /\ events \in Seq(Event) /\ Len(events) \in Nat
      /\ \A i \in 0..Len(events) : Replay[i] \in State /\ OneOfEachIn(Replay[i])
      /\ stream = "closed" => events = <<>>
      /\ stream = "subscribed" => Replay[Len(events)] = View(niri, {})
      /\ state \in State
  BY LenProperties DEF IInv, Followed
<1>4. /\ events' \in Seq(Event) /\ Len(events') \in Nat /\ Len(events) = Len(events') + 1
      /\ h \in Event
  <2>1. Len(events) > 0
    BY <1>1, <1>3, EmptySeq
  <2> QED
    BY <1>1, <1>3, <2>1, HeadTailProperties, LenProperties
<1>5. h.what \in Kinds
  BY <1>4, EventKind
<1>6. /\ Apply(Shown, h) = [state' EXCEPT !.outputs = {}]
      /\ state'.outputs = state.outputs
      /\ state' = [workspaces |-> state'.workspaces, windows |-> state'.windows,
                   outputs |-> state.outputs, layouts |-> state'.layouts,
                   overview |-> state'.overview, configFailed |-> state'.configFailed]
  <2> HIDE DEF h
  <2> QED
    BY <1>1, <1>3, <1>5, ApplyLeavesOutputs DEF Shown
<1>7. Shown' = Apply(Shown, h)
  BY <1>6 DEF Shown
<1>8. Replays(Replay, Shown, events)
  BY <1>3, ReplayIs
<1>9. Replays(Replay', Apply(Shown, h), Tail(events))
  <2>1. (events \in Seq(Event) => Replays(Replay, Shown, events))'
    BY ReplayIs, PTL
  <2>2. Replays(Replay', Shown', events')
    BY <1>4, <2>1
  <2> QED
    BY <1>1, <1>7, <2>2
<1>10. /\ Replay[1] = Apply(Shown, h)
       /\ \A i \in 0..Len(events') : Replay'[i] = Replay[i + 1]
  BY <1>1, <1>3, <1>8, <1>9, ReplayTaken
<1>11. Replay[1] \in State /\ OneOfEachIn(Replay[1])
  <2>1. 1 \in 0..Len(events)
    BY <1>4
  <2> QED
    BY <1>3, <2>1
<1>12. state' \in State /\ OneOfEachIn(state')
  <2>1. state.outputs \in SUBSET OutputNames
    BY <1>3 DEF State
  <2> QED
    BY <1>6, <1>10, <1>11, <2>1, OutputsApart
<1>13. \A i \in 0..Len(events') : Replay'[i] \in State /\ OneOfEachIn(Replay'[i])
  <2>1. \A i \in 0..Len(events') : i + 1 \in 0..Len(events)
    BY <1>4
  <2> QED
    BY <1>3, <1>10, <2>1
<1>14. stream' = "subscribed" => Replay'[Len(events')] = View(niri', {})
  <2>1. Len(events') \in 0..Len(events') /\ Len(events') + 1 = Len(events)
    BY <1>4
  <2> QED
    BY <1>1, <1>3, <1>10, <2>1
<1>15. Followed'
  BY <1>1, <1>3, <1>4, <1>13, <1>14 DEF Followed
<1>16. Translated(state)'
  <2>1. Changed(state, state') \ {"focusedWindow"} \subseteq told
    BY <1>1, SignalsTell
  <2>2. Translated(state)
    BY DEF IInv
  <2> HIDE DEF told, connected
  <2> QED
    BY <1>2, <1>3, <1>12, <2>1, <2>2, ToldEnough DEF Translated
<1>17. IInv'
  BY <1>1, <1>12, <1>15, <1>16 DEF IInv
<1>18. Replay'[0] = Replay[1]
  <2>1. 0 \in 0..Len(events') /\ 0 + 1 = 1
    BY <1>4
  <2> QED
    BY <1>10, <2>1
<1> QED
  BY <1>10, <1>17, <1>18

\* With nothing to read there is nothing to go through.
LEMMA NothingUnread ==
    ASSUME NEW f, NEW s, Replays(f, s, <<>>)
    PROVE  f[0] = s
<1> DEFINE q == <<>>
<1>1. Len(q) = 0
  OBVIOUS
<1> HIDE DEF q
<1>2. f = [i \in 0..Len(q) |-> IF i = 0 THEN s ELSE Apply(f[i - 1], q[i])]
  BY Zenon DEF Replays, q
<1> QED
  BY <1>1, <1>2

\* The function of nothing is one of all partial functions.
LEMMA EmptyIsPartial == \A S, T : <<>> \in Partial(S, T)
<1> TAKE S, T
<1>1. <<>> \in Seq(T) /\ Len(<<>>) = 0
  BY EmptySeq
<1>2. <<>> \in [1..0 -> T]
  BY <1>1, LenProperties
<1>3. {} \in SUBSET S /\ 1..0 = {}
  OBVIOUS
<1> QED
  BY <1>2, <1>3, Zenon DEF Partial

\* The model of a connection that is gone.
LEMMA ClearedIsFine ==
    /\ Cleared \in State /\ OneOfEachIn(Cleared)
    /\ [Cleared EXCEPT !.outputs = {}] = Cleared
<1>1. <<>> \in Partial(Workspaces, Workspace) /\ <<>> \in Partial(Windows, Window)
  BY EmptyIsPartial
<1>2. Cleared \in State
  <2> DEFINE none == <<>>
  <2>1. none \in Partial(Workspaces, Workspace) /\ none \in Partial(Windows, Window)
    BY <1>1
  <2>2. NoLayouts \in Layouts
    BY DEF Layouts
  <2>3. Cleared = [workspaces |-> none, windows |-> none, outputs |-> {},
                   layouts |-> NoLayouts, overview |-> FALSE, configFailed |-> FALSE]
    BY DEF Cleared
  <2> HIDE DEF none
  <2> QED
    BY <2>1, <2>2, <2>3 DEF State
<1>3. DOMAIN <<>> = {}
  OBVIOUS
<1>4. OneOfEachIn(Cleared)
  BY <1>3 DEF Cleared, OneOfEachIn
<1>5. [Cleared EXCEPT !.outputs = {}] = Cleared
  <2>1. Cleared.outputs = {}
    BY DEF Cleared
  <2> QED
    BY <1>2, <2>1 DEF State
<1> QED
  BY <1>2, <1>4, <1>5

\* The end of the stream leaves nothing, unread or shown.
LEMMA Lost ==
    ASSUME IInv, Disconnected, traffic' = traffic
    PROVE  IInv' /\ Replay'[0] = Cleared
<1>1. /\ stream' = "closed" /\ events' = <<>> /\ state' = Cleared /\ niri' = niri
      /\ service' = [Refreshed(ClearSignals(state), Cleared) EXCEPT !.connected = FALSE]
  BY DEF Disconnected
<1>2. state' \in State /\ OneOfEachIn(state')
  BY <1>1, ClearedIsFine
<1>3. events' \in Seq(Event) /\ Len(events') = 0
  BY <1>1
<1>4. Replay'[0] = Cleared
  <2>1. (events \in Seq(Event) => Replays(Replay, Shown, events))'
    BY ReplayIs, PTL
  <2>2. Replays(Replay', Shown', <<>>)
    BY <1>1, <1>3, <2>1
  <2>3. Shown' = Cleared
    BY <1>1, ClearedIsFine DEF Shown
  <2> QED
    BY <2>2, <2>3, NothingUnread
<1>5. Followed'
  <2>1. \A i \in 0..Len(events') : i = 0
    BY <1>3
  <2> QED
    BY <1>1, <1>2, <1>3, <1>4, <2>1 DEF Followed
<1>6. Translated(state)'
  <2>1. Changed(state, Cleared) \ {"focusedWindow"} \subseteq ClearSignals(state)
    BY DEF Changed, ClearSignals
  <2>2. Translated(state) /\ state \in State
    BY DEF IInv
  <2> QED
    BY <1>1, <1>2, <2>1, <2>2, ToldEnough DEF Translated
<1> QED
  BY <1>1, <1>2, <1>4, <1>5, <1>6 DEF IInv

\* A new list of outputs changes nothing that the events are about.
LEMMA OutputsChanged ==
    ASSUME IInv, ApplyOutputsChanged, traffic' = traffic
    PROVE  IInv' /\ Replay' = Replay
<1>1. PICK outputs \in SUBSET OutputNames : state' = [state EXCEPT !.outputs = outputs]
  BY DEF ApplyOutputsChanged
<1>2. /\ niri' = niri /\ stream' = stream /\ events' = events
      /\ service' = [Refreshed(Changed(state, state'), state') EXCEPT
                        !.connected = service.connected]
  BY DEF ApplyOutputsChanged, Tell
<1>3. /\ state \in State /\ OneOfEachIn(state) /\ Translated(state) /\ Followed
      /\ events \in Seq(Event)
  BY DEF IInv, Followed
<1>4. state' \in State
  BY <1>1, <1>3 DEF State
<1>5. state'.workspaces = state.workspaces /\ state'.windows = state.windows
  BY <1>1, <1>3 DEF State
<1>6. OneOfEachIn(state')
  BY <1>3, <1>5 DEF OneOfEachIn
<1>7. Replay' = Replay
  <2>1. (events \in Seq(Event) => Replays(Replay, Shown, events))'
    BY ReplayIs, PTL
  <2>2. Replays(Replay', Shown', events) /\ Replays(Replay, Shown, events)
    BY <1>2, <1>3, <2>1, ReplayIs
  <2>3. Shown' = Shown
    BY <1>1, <1>3 DEF Shown, State
  <2> QED
    BY <1>3, <2>2, <2>3, ReplayUnique
<1>8. Followed'
  BY <1>2, <1>3, <1>7 DEF Followed
<1>9. Translated(state)'
  <2> DEFINE told == Changed(state, state')
  <2>1. Changed(state, state') \ {"focusedWindow"} \subseteq told
    OBVIOUS
  <2>2. service' = [Refreshed(told, state') EXCEPT !.connected = service.connected]
    BY <1>2
  <2> HIDE DEF told
  <2> QED
    BY <1>3, <1>4, <2>1, <2>2, ToldEnough DEF Translated
<1> QED
  BY <1>2, <1>4, <1>6, <1>7, <1>8, <1>9 DEF IInv

\* What the windows and the workspaces each have one of, they have apart.
LEMMA OneOfEachApart ==
    ASSUME NEW s, NEW t, NEW r, OneOfEachIn(s), OneOfEachIn(t),
           r.windows = s.windows, r.workspaces = t.workspaces
    PROVE  OneOfEachIn(r)
BY DEF OneOfEachIn

\* A model becomes niri's, part by part, as it reads the burst.
LEMMA BurstSeen ==
    ASSUME NEW n, Sound(n), NEW s \in State, s.outputs = {}, OneOfEachIn(s), NEW f,
           Replays(f, s, Burst(n))
    PROVE  /\ Burst(n) \in Seq(Event) /\ Len(Burst(n)) = 6
           /\ f[0] = s
           /\ \A i \in 0..6 : f[i] \in State /\ OneOfEachIn(f[i])
           /\ f[6] = View(n, {})
<1> DEFINE b == Burst(n)
           e1 == [what |-> "streaming"]
           e2 == [what |-> "WorkspacesChanged", list |-> WorkspacesOf(n)]
           e3 == [what |-> "WindowsChanged", list |-> WindowsOf(n)]
           e4 == [what |-> "KeyboardLayoutsChanged", layouts |-> n.layouts]
           e5 == [what |-> "OverviewOpenedOrClosed", flag |-> n.overview]
           e6 == [what |-> "ConfigLoaded", flag |-> n.configFailed]
<1>1. /\ WorkspacesOf(n) \in Partial(Workspaces, Workspace)
      /\ WindowsOf(n) \in Partial(Windows, Window)
      /\ n.layouts \in Layouts /\ n.overview \in BOOLEAN /\ n.configFailed \in BOOLEAN
      /\ View(n, {}) \in State /\ OneOfEachIn(View(n, {}))
  BY ViewTyped, ViewOneOfEach DEF Sound, Niri
<1>2. /\ e1 \in Event /\ e2 \in Event /\ e3 \in Event /\ e4 \in Event /\ e5 \in Event
      /\ e6 \in Event
  <2>1. e1 \in Event
    BY DEF Event
  <2>2. e2 \in Event
    BY <1>1 DEF Event
  <2>3. e3 \in Event
    BY <1>1 DEF Event
  <2>4. e4 \in Event
    BY <1>1 DEF Event
  <2>5. e5 \in Event
    BY <1>1 DEF Event
  <2>6. e6 \in Event
    BY <1>1 DEF Event
  <2> QED
    BY <2>1, <2>2, <2>3, <2>4, <2>5, <2>6
<1>3. /\ Apply(s, e1) = s
      /\ \A r : Apply(r, e2) = [r EXCEPT !.workspaces = WorkspacesOf(n)]
      /\ \A r : Apply(r, e3) = [r EXCEPT !.windows = WindowsOf(n)]
      /\ \A r : Apply(r, e4) = ApplyKeyboardLayoutsChanged(r, n.layouts)
      /\ \A r : Apply(r, e5) = [r EXCEPT !.overview = n.overview]
      /\ \A r : Apply(r, e6) = [r EXCEPT !.configFailed = n.configFailed]
  <2>1. Apply(s, e1) = s
    BY DEF Apply
  <2>2. \A r : Apply(r, e2) = [r EXCEPT !.workspaces = WorkspacesOf(n)]
    BY DEF Apply
  <2>3. \A r : Apply(r, e3) = [r EXCEPT !.windows = WindowsOf(n)]
    BY DEF Apply
  <2>4. \A r : Apply(r, e4) = ApplyKeyboardLayoutsChanged(r, n.layouts)
    BY DEF Apply
  <2>5. \A r : Apply(r, e5) = [r EXCEPT !.overview = n.overview]
    BY DEF Apply
  <2>6. \A r : Apply(r, e6) = [r EXCEPT !.configFailed = n.configFailed]
    BY DEF Apply
  <2> QED
    BY <2>1, <2>2, <2>3, <2>4, <2>5, <2>6
<1>4. b = <<e1, e2, e3, e4, e5, e6>>
  BY DEF Burst
<1> HIDE DEF b, e1, e2, e3, e4, e5, e6
<1>5. /\ b \in Seq(Event) /\ Len(b) = 6
      /\ b[1] = e1 /\ b[2] = e2 /\ b[3] = e3 /\ b[4] = e4 /\ b[5] = e5 /\ b[6] = e6
  BY <1>2, <1>4
<1>6. \A i \in 0..6 : f[i] = IF i = 0 THEN s ELSE Apply(f[i - 1], b[i])
  <2>1. f = [i \in 0..Len(b) |-> IF i = 0 THEN s ELSE Apply(f[i - 1], b[i])]
    BY Zenon DEF Replays, b
  <2> QED
    BY <1>5, <2>1, Zenon
<1>7. /\ f[0] = s
      /\ f[1] = s
      /\ f[2] = [f[1] EXCEPT !.workspaces = WorkspacesOf(n)]
      /\ f[3] = [f[2] EXCEPT !.windows = WindowsOf(n)]
      /\ f[4] = ApplyKeyboardLayoutsChanged(f[3], n.layouts)
      /\ f[5] = [f[4] EXCEPT !.overview = n.overview]
      /\ f[6] = [f[5] EXCEPT !.configFailed = n.configFailed]
  <2>1. /\ f[0] = s /\ f[1] = Apply(f[0], b[1]) /\ f[2] = Apply(f[1], b[2])
        /\ f[3] = Apply(f[2], b[3]) /\ f[4] = Apply(f[3], b[4])
        /\ f[5] = Apply(f[4], b[5]) /\ f[6] = Apply(f[5], b[6])
    BY <1>6
  <2> QED
    BY <1>3, <1>5, <2>1, Zenon
<1>8. f[1] \in State /\ OneOfEachIn(f[1])
  BY <1>7
<1>9. /\ f[2] \in State /\ f[2].workspaces = WorkspacesOf(n) /\ f[2].windows = s.windows
      /\ f[2].outputs = {}
  BY <1>1, <1>7 DEF State
<1>10. /\ f[3] \in State /\ f[3].workspaces = WorkspacesOf(n) /\ f[3].windows = WindowsOf(n)
       /\ f[3].outputs = {}
  BY <1>1, <1>7, <1>9 DEF State
<1>11. /\ f[4] \in State /\ f[4].workspaces = WorkspacesOf(n) /\ f[4].windows = WindowsOf(n)
       /\ f[4].outputs = {} /\ f[4].layouts = n.layouts
  <2>1. f[4] = IF f[3].layouts = n.layouts THEN f[3]
               ELSE [f[3] EXCEPT !.layouts = n.layouts]
    BY <1>7, Zenon DEF ApplyKeyboardLayoutsChanged
  <2>2. CASE f[3].layouts = n.layouts
    BY <1>10, <2>1, <2>2
  <2>3. CASE f[3].layouts # n.layouts
    BY <1>1, <1>10, <2>1, <2>3 DEF State
  <2> QED
    BY <2>2, <2>3
<1>12. /\ f[5] \in State /\ f[5].workspaces = WorkspacesOf(n) /\ f[5].windows = WindowsOf(n)
       /\ f[5].outputs = {} /\ f[5].layouts = n.layouts /\ f[5].overview = n.overview
  BY <1>1, <1>7, <1>11 DEF State
<1>13. f[6] = View(n, {})
  BY <1>1, <1>7, <1>12 DEF State, View
<1>14. View(n, {}).windows = WindowsOf(n) /\ View(n, {}).workspaces = WorkspacesOf(n)
  BY DEF View
<1>15. /\ OneOfEachIn(f[2]) /\ OneOfEachIn(f[3]) /\ OneOfEachIn(f[4]) /\ OneOfEachIn(f[5])
       /\ OneOfEachIn(f[6])
  <2>1. OneOfEachIn(f[2])
    BY <1>1, <1>9, <1>14, OneOfEachApart
  <2>2. OneOfEachIn(f[3]) /\ OneOfEachIn(f[4]) /\ OneOfEachIn(f[5]) /\ OneOfEachIn(f[6])
    BY <1>1, <1>10, <1>11, <1>12, <1>13, <1>14, OneOfEachApart
  <2> QED
    BY <2>1, <2>2
<1>16. \A i \in 0..6 : f[i] \in State /\ OneOfEachIn(f[i])
  <2>1. \A i \in 0..6 : i = 0 \/ i = 1 \/ i = 2 \/ i = 3 \/ i = 4 \/ i = 5 \/ i = 6
    OBVIOUS
  <2> QED
    BY <1>1, <1>7, <1>8, <1>9, <1>10, <1>11, <1>12, <1>13, <1>15, <2>1, Zenon
<1> QED
  BY <1>5, <1>7, <1>13, <1>16 DEF b

\* The burst of a subscription ends in what niri has.
LEMMA Subscribed ==
    ASSUME IInv, Subscribe, traffic' = traffic
    PROVE  /\ IInv'
           /\ Replay'[0] = Replay[0]
           /\ Len(events') = 6 /\ Replay'[6] = View(niri, {})
<1>1. /\ stream = "closed" /\ stream' = "subscribed" /\ events' = Burst(niri)
      /\ niri' = niri /\ state' = state /\ service' = service
  BY DEF Subscribe
<1>2. /\ Sound(niri) /\ state \in State /\ OneOfEachIn(state) /\ events \in Seq(Event)
      /\ events = <<>>
  BY <1>1 DEF IInv, Followed
<1>3. Shown \in State /\ Shown.outputs = {} /\ OneOfEachIn(Shown) /\ Shown' = Shown
  <2>1. Shown \in State /\ Shown.outputs = {}
    BY <1>2 DEF Shown, State
  <2>2. Shown.windows = state.windows /\ Shown.workspaces = state.workspaces
    BY <1>2 DEF Shown, State
  <2> QED
    BY <1>1, <1>2, <2>1, <2>2, OneOfEachApart DEF Shown
<1>4. Burst(niri) \in Seq(Event)
  <2>1. \E f : Replays(f, Shown, Burst(niri))
    <3>1. \E S : Burst(niri) \in Seq(S)
      <4> DEFINE S == {Burst(niri)[i] : i \in 1..6}
      <4>1. Burst(niri) \in Seq(S)
        BY DEF Burst
      <4> QED
        BY <4>1
    <3> QED
      BY <3>1, ReplayExists
  <2> QED
    BY <1>2, <1>3, <2>1, BurstSeen
<1>5. Replays(Replay', Shown, Burst(niri))
  <2>1. (events \in Seq(Event) => Replays(Replay, Shown, events))'
    BY ReplayIs, PTL
  <2> QED
    BY <1>1, <1>3, <1>4, <2>1
<1>6. /\ Len(events') = 6 /\ events' \in Seq(Event)
      /\ Replay'[0] = Shown
      /\ \A i \in 0..6 : Replay'[i] \in State /\ OneOfEachIn(Replay'[i])
      /\ Replay'[6] = View(niri, {})
  BY <1>1, <1>2, <1>3, <1>5, BurstSeen
<1>7. Replay[0] = Shown
  <2>1. Replays(Replay, Shown, <<>>)
    BY <1>2, ReplayIs
  <2> QED
    BY <2>1, NothingUnread
<1>8. Followed'
  BY <1>1, <1>6 DEF Followed
<1>9. Translated(state)'
  BY <1>1 DEF IInv, Translated
<1> QED
  BY <1>1, <1>2, <1>6, <1>7, <1>8, <1>9 DEF IInv

Changes ==
    \/ RearrangeWorkspaces \/ ActivateWorkspace \/ ChangeWorkspace
    \/ ChangeWindow \/ CloseWindow \/ FocusWindow \/ WindowUrgency
    \/ ChangeLayouts \/ ToggleOverview \/ LoadConfig

\* Each of niri's changes leaves it sound, and its event tells a model that had niri's
\* view all there is to know of the change.
LEMMA EventsTell ==
    ASSUME traffic \in Traffic, Sound(niri), Changes
    PROVE  \E e \in Event : /\ Sends(e)
                            /\ Sound(niri')
                            /\ Apply(View(niri, {}), e) = View(niri', {})
<1>1. /\ niri \in Niri /\ traffic.windows \subseteq Windows
      /\ traffic.workspaces \subseteq Workspaces
      /\ DOMAIN niri.place \subseteq Workspaces /\ DOMAIN niri.on \subseteq Windows
  <2>1. /\ niri.place \in Partial(Workspaces, OutputNames)
        /\ niri.on \in Partial(Windows, Workspaces)
    BY DEF Sound, Niri
  <2> QED
    BY <2>1, StateAssumption, PartialIs DEF Sound
<1>2. CASE RearrangeWorkspaces
  <2>1. PICK place \in Partial(traffic.workspaces, OutputNames),
             active \in Partial(OutputNames, traffic.workspaces),
             output \in OutputNames \cup {None} :
            /\ niri' = [niri EXCEPT !.place = place, !.active = active,
                                    !.focusedOutput = output]
            /\ Consistent(niri')
            /\ Sends([what |-> "WorkspacesChanged", list |-> WorkspacesOf(niri')])
    BY <1>2, Zenon DEF RearrangeWorkspaces
  <2> DEFINE e == [what |-> "WorkspacesChanged", list |-> WorkspacesOf(niri')]
  <2>2. place \in Partial(Workspaces, OutputNames)
    BY <1>1, PartialIs
  <2>3. active \in Partial(OutputNames, Workspaces)
    <3>1. /\ DOMAIN active \subseteq OutputNames
          /\ active = [x \in DOMAIN active |-> active[x]]
          /\ \A x \in DOMAIN active : active[x] \in traffic.workspaces
      BY PartialIs
    <3>2. \A x \in DOMAIN active : active[x] \in Workspaces
      BY <1>1, <3>1
    <3> QED
      BY <3>1, <3>2, PartialIs
  <2>4. niri' \in Niri
    BY <1>1, <2>1, <2>2, <2>3 DEF Niri
  <2>5. Apply(View(niri, {}), e) = View(niri', {})
    <3>1. Rearranged(niri, niri')
      BY <2>1, Zenon DEF Rearranged
    <3> QED
      BY <1>1, <3>1, RearrangedSeen
  <2>6. e \in Event
    <3>1. WorkspacesOf(niri') \in Partial(Workspaces, Workspace)
      BY <2>4, ViewTyped
    <3> QED
      BY <3>1 DEF Event
  <2> HIDE DEF e
  <2>7. Sends(e)
    BY <2>1 DEF e
  <2> QED
    BY <2>1, <2>4, <2>5, <2>6, <2>7 DEF Sound
<1>3. CASE ActivateWorkspace
  <2>1. PICK w \in DOMAIN niri.place, focused \in BOOLEAN :
            /\ niri.focusedOutput = niri.place[w] => focused
            /\ niri' = [niri EXCEPT !.active[niri.place[w]] = w,
                                    !.focusedOutput = IF focused THEN niri.place[w] ELSE @]
            /\ Sends([what |-> "WorkspaceActivated", id |-> w, focused |-> focused])
    BY <1>3, Zenon DEF ActivateWorkspace
  <2> DEFINE e == [what |-> "WorkspaceActivated", id |-> w, focused |-> focused]
  <2>2. Sound(niri') /\ Apply(View(niri, {}), e) = View(niri', {})
    <3>1. Activating(niri, niri', w, focused)
      BY <2>1, Zenon DEF Activating
    <3> QED
      BY <3>1, ActivatedSeen
  <2>3. e \in Event
    BY <1>1 DEF Event
  <2> QED
    BY <2>1, <2>2, <2>3
<1>4. CASE ChangeWorkspace
  <2>1. PICK w \in DOMAIN niri.place :
            \/ \E urgent \in BOOLEAN :
                  /\ niri' = [niri EXCEPT !.urgent.workspaces =
                                    IF urgent THEN @ \cup {w} ELSE @ \ {w}]
                  /\ Sends([what |-> "WorkspaceUrgencyChanged", id |-> w, urgent |-> urgent])
            \/ \E window \in traffic.windows \cup {None} :
                  /\ niri' = [niri EXCEPT !.holds[w] = window]
                  /\ Sends([what |-> "WorkspaceActiveWindowChanged", id |-> w,
                            window |-> window])
    BY <1>4, Zenon DEF ChangeWorkspace
  <2>2. ASSUME NEW urgent \in BOOLEAN,
               niri' = [niri EXCEPT !.urgent.workspaces =
                                    IF urgent THEN @ \cup {w} ELSE @ \ {w}],
               Sends([what |-> "WorkspaceUrgencyChanged", id |-> w, urgent |-> urgent])
        PROVE  \E e \in Event : /\ Sends(e) /\ Sound(niri')
                                /\ Apply(View(niri, {}), e) = View(niri', {})
    <3> DEFINE e == [what |-> "WorkspaceUrgencyChanged", id |-> w, urgent |-> urgent]
    <3>1. Sound(niri') /\ Apply(View(niri, {}), e) = View(niri', {})
      BY <2>2, WorkspaceUrgencySeen
    <3>2. e \in Event
      BY <1>1 DEF Event
    <3> QED
      BY <2>2, <3>1, <3>2
  <2>3. ASSUME NEW window \in traffic.windows \cup {None},
               niri' = [niri EXCEPT !.holds[w] = window],
               Sends([what |-> "WorkspaceActiveWindowChanged", id |-> w, window |-> window])
        PROVE  \E e \in Event : /\ Sends(e) /\ Sound(niri')
                                /\ Apply(View(niri, {}), e) = View(niri', {})
    <3> DEFINE e == [what |-> "WorkspaceActiveWindowChanged", id |-> w, window |-> window]
    <3>1. window \in Windows \cup {None}
      BY <1>1
    <3>2. Sound(niri') /\ Apply(View(niri, {}), e) = View(niri', {})
      BY <2>3, <3>1, ActiveWindowSeen
    <3>3. e \in Event
      BY <1>1, <3>1 DEF Event
    <3> QED
      BY <2>3, <3>2, <3>3
  <2> QED
    BY <2>1, <2>2, <2>3, Zenon
<1>5. CASE ChangeWindow
  <2>1. PICK x \in traffic.windows, w \in traffic.workspaces, focused \in BOOLEAN :
            /\ niri' = [niri EXCEPT !.on = With(@, x, w),
                                    !.focus = IF focused THEN x
                                              ELSE IF @ = x THEN None ELSE @]
            /\ Sends([what |-> "WindowOpenedOrChanged", id |-> x,
                      window |-> WindowsOf(niri')[x]])
    BY <1>5, Zenon DEF ChangeWindow
  <2> DEFINE e == [what |-> "WindowOpenedOrChanged", id |-> x, window |-> WindowsOf(niri')[x]]
  <2>2. x \in Windows /\ w \in Workspaces
    BY <1>1
  <2>3. /\ Sound(niri') /\ x \in DOMAIN WindowsOf(niri')
        /\ Apply(View(niri, {}), e) = View(niri', {})
    <3>1. Changing(niri, niri', x, w, focused)
      BY <2>1, Zenon DEF Changing
    <3> QED
      BY <2>2, <3>1, WindowChangedSeen
  <2>4. e \in Event
    <3>1. WindowsOf(niri') \in Partial(Windows, Window)
      BY <2>3, ViewTyped DEF Sound
    <3>2. WindowsOf(niri')[x] \in Window
      BY <2>3, <3>1, PartialIs
    <3> QED
      BY <2>2, <3>2 DEF Event
  <2> HIDE DEF e
  <2>5. Sends(e)
    BY <2>1 DEF e
  <2> QED
    BY <2>3, <2>4, <2>5
<1>6. CASE CloseWindow
  <2>1. PICK x \in DOMAIN niri.on :
            /\ niri' = [niri EXCEPT !.on = Without(@, x), !.urgent.windows = @ \ {x},
                                    !.focus = IF @ = x THEN None ELSE @]
            /\ Sends([what |-> "WindowClosed", id |-> x])
    BY <1>6, Zenon DEF CloseWindow
  <2> DEFINE e == [what |-> "WindowClosed", id |-> x]
  <2>2. Sound(niri') /\ Apply(View(niri, {}), e) = View(niri', {})
    BY <2>1, WindowClosedSeen
  <2>3. e \in Event
    BY <1>1 DEF Event
  <2> QED
    BY <2>1, <2>2, <2>3
<1>7. CASE FocusWindow
  <2>1. PICK x \in DOMAIN niri.on \cup {None} :
            /\ niri' = [niri EXCEPT !.focus = x]
            /\ Sends([what |-> "WindowFocusChanged", id |-> x])
    BY <1>7, Zenon DEF FocusWindow
  <2> DEFINE e == [what |-> "WindowFocusChanged", id |-> x]
  <2>2. Sound(niri') /\ Apply(View(niri, {}), e) = View(niri', {})
    BY <2>1, WindowFocusSeen
  <2>3. e \in Event
    BY <1>1 DEF Event
  <2> QED
    BY <2>1, <2>2, <2>3
<1>8. CASE WindowUrgency
  <2>1. PICK x \in DOMAIN niri.on, urgent \in BOOLEAN :
            /\ niri' = [niri EXCEPT !.urgent.windows =
                              IF urgent THEN @ \cup {x} ELSE @ \ {x}]
            /\ Sends([what |-> "WindowUrgencyChanged", id |-> x, urgent |-> urgent])
    BY <1>8, Zenon DEF WindowUrgency
  <2> DEFINE e == [what |-> "WindowUrgencyChanged", id |-> x, urgent |-> urgent]
  <2>2. Sound(niri') /\ Apply(View(niri, {}), e) = View(niri', {})
    BY <2>1, WindowUrgencySeen
  <2>3. e \in Event
    BY <1>1 DEF Event
  <2> QED
    BY <2>1, <2>2, <2>3
<1>9. CASE ChangeLayouts
  <2>1. ASSUME NEW count \in LayoutCounts,
               niri' = [niri EXCEPT !.layouts = [count |-> count, index |-> 0]],
               Sends([what |-> "KeyboardLayoutsChanged", layouts |-> niri'.layouts])
        PROVE  \E e \in Event : /\ Sends(e) /\ Sound(niri')
                                /\ Apply(View(niri, {}), e) = View(niri', {})
    <3> DEFINE e == [what |-> "KeyboardLayoutsChanged", layouts |-> niri'.layouts]
    <3>1. Sound(niri') /\ Apply(View(niri, {}), e) = View(niri', {})
      BY <2>1, RestSeen
    <3>2. niri'.layouts \in Layouts
      BY <3>1, ViewTyped DEF Sound
    <3>3. e \in Event
      BY <3>2 DEF Event
    <3> HIDE DEF e
    <3>4. Sends(e)
      BY <2>1 DEF e
    <3> QED
      BY <3>1, <3>3, <3>4
  <2>2. ASSUME NEW index \in 0..niri.layouts.count - 1,
               niri' = [niri EXCEPT !.layouts.index = index],
               Sends([what |-> "KeyboardLayoutSwitched", index |-> index])
        PROVE  \E e \in Event : /\ Sends(e) /\ Sound(niri')
                                /\ Apply(View(niri, {}), e) = View(niri', {})
    <3> DEFINE e == [what |-> "KeyboardLayoutSwitched", index |-> index]
    <3>1. Sound(niri') /\ Apply(View(niri, {}), e) = View(niri', {})
      BY <2>2, RestSeen
    <3>2. index \in Nat
      <4>1. PICK k \in LayoutCounts : niri.layouts \in [count : {k}, index : 0..k - 1]
        BY <1>1 DEF Niri
      <4> QED
        BY <4>1, StateAssumption
    <3>3. e \in Event
      BY <3>2 DEF Event
    <3> QED
      BY <2>2, <3>1, <3>3
  <2> QED
    BY <1>9, <2>1, <2>2, Zenon DEF ChangeLayouts
<1>10. CASE ToggleOverview
  <2> DEFINE e == [what |-> "OverviewOpenedOrClosed", flag |-> niri'.overview]
  <2>1. niri' = [niri EXCEPT !.overview = ~@] /\ Sends(e)
    BY <1>10, Zenon DEF ToggleOverview
  <2>2. Sound(niri') /\ Apply(View(niri, {}), e) = View(niri', {})
    <3>1. niri' = [niri EXCEPT !.overview = ~@] =>
              Sound(niri') /\ Apply(View(niri, {}), e) = View(niri', {})
      BY RestSeen
    <3> QED
      BY <2>1, <3>1
  <2>3. niri'.overview \in BOOLEAN
    BY <2>2 DEF Sound, Niri
  <2>4. e \in Event
    BY <2>3 DEF Event
  <2> HIDE DEF e
  <2> QED
    BY <2>1, <2>2, <2>4
<1>11. CASE LoadConfig
  <2>1. PICK failed \in BOOLEAN :
            /\ niri' = [niri EXCEPT !.configFailed = failed]
            /\ Sends([what |-> "ConfigLoaded", flag |-> failed])
    BY <1>11, Zenon DEF LoadConfig
  <2> DEFINE e == [what |-> "ConfigLoaded", flag |-> failed]
  <2>2. Sound(niri') /\ Apply(View(niri, {}), e) = View(niri', {})
    BY <2>1, RestSeen
  <2>3. e \in Event
    BY DEF Event
  <2> QED
    BY <2>1, <2>2, <2>3
<1> QED
  BY <1>2, <1>3, <1>4, <1>5, <1>6, <1>7, <1>8, <1>9, <1>10, <1>11 DEF Changes

-----------------------------------------------------------------------------
\* The beginning.
LEMMA InitInv == Init => IInv /\ Replay[0] = Cleared
<1> SUFFICES ASSUME Init PROVE IInv /\ Replay[0] = Cleared
  OBVIOUS
<1>1. Sound(niri)
  <2> DEFINE none == <<>>
             count == CHOOSE n \in LayoutCounts : TRUE
             layouts == [count |-> count, index |-> 0]
             holds == [w \in Workspaces |-> None]
             urgent == [windows |-> {}, workspaces |-> {}]
  <2>1. \A S, T : <<>> \in Partial(S, T)
    BY EmptyIsPartial
  <2>2. DOMAIN none = {}
    OBVIOUS
  <2>3. layouts \in UNION {[count : {n}, index : 0..n - 1] : n \in LayoutCounts}
    <3>1. count \in LayoutCounts
      BY StateAssumption
    <3> HIDE DEF count
    <3>2. layouts \in [count : {count}, index : 0..count - 1]
      BY <3>1, StateAssumption
    <3> QED
      BY <3>1, <3>2
  <2>4. holds \in [Workspaces -> Windows \cup {None}]
    OBVIOUS
  <2>5. urgent \in [windows : SUBSET Windows, workspaces : SUBSET Workspaces]
    OBVIOUS
  <2>6. niri = [place |-> none, active |-> none, focusedOutput |-> None, holds |-> holds,
                on |-> none, focus |-> None, urgent |-> urgent, layouts |-> layouts,
                overview |-> FALSE, configFailed |-> FALSE]
    BY DEF Init
  <2>7. /\ none \in Partial(Workspaces, OutputNames)
        /\ none \in Partial(OutputNames, Workspaces)
        /\ none \in Partial(Windows, Workspaces)
    BY <2>1
  <2> HIDE DEF none, holds, urgent, layouts
  <2>8. niri \in Niri
    BY <2>3, <2>4, <2>5, <2>6, <2>7 DEF Niri
  <2>9. /\ DOMAIN niri.place = {} /\ DOMAIN niri.active = {}
        /\ niri.focusedOutput = None /\ niri.focus = None
    BY <2>2, <2>6
  <2>10. Consistent(niri)
    BY <2>9 DEF Consistent
  <2> QED
    BY <2>8, <2>10 DEF Sound
<1>2. /\ traffic \in Traffic /\ stream = "closed" /\ events = <<>> /\ state = Cleared
  BY DEF Init
<1>3. events \in Seq(Event) /\ Len(events) = 0
  BY <1>2
<1>4. Replay[0] = Cleared
  <2>1. Replays(Replay, Shown, <<>>)
    BY <1>2, <1>3, ReplayIs
  <2>2. Shown = Cleared
    BY <1>2, ClearedIsFine DEF Shown
  <2> QED
    BY <2>1, <2>2, NothingUnread
<1>5. Followed
  <2>1. \A i \in 0..Len(events) : i = 0
    BY <1>3
  <2> QED
    BY <1>2, <1>3, <1>4, <2>1, ClearedIsFine DEF Followed
<1>6. Translated(state)
  <2> DEFINE none == <<>>
             nobody == [id |-> None]
  <2>1. DOMAIN none = {}
    OBVIOUS
  <2>2. service = [workspaces |-> none, windows |-> none, focusedWindow |-> nobody,
                   outputs |-> {}, keyboardLayout |-> NoLayouts, overviewOpen |-> FALSE,
                   connected |-> FALSE]
    BY DEF Init
  <2>3. state = [workspaces |-> none, windows |-> none, outputs |-> {},
                 layouts |-> NoLayouts, overview |-> FALSE, configFailed |-> FALSE]
    BY <1>2 DEF Cleared
  <2>4. FocusedWindow(none) = nobody
    <3>1. {x \in DOMAIN none : none[x].focused} = {}
      BY <2>1
    <3> HIDE DEF none, nobody
    <3> QED
      BY <3>1, Zenon DEF FocusedWindow, nobody
  <2> HIDE DEF none, nobody
  <2> QED
    BY <2>2, <2>3, <2>4 DEF Translated
<1> QED
  BY <1>1, <1>2, <1>4, <1>5, <1>6, ClearedIsFine DEF IInv

\* Nothing happens to the unread events while nothing happens.
LEMMA StutterInv == IInv /\ UNCHANGED vars => IInv' /\ Replay' = Replay
<1> SUFFICES ASSUME IInv, UNCHANGED vars PROVE IInv' /\ Replay' = Replay
  OBVIOUS
<1>1. /\ niri' = niri /\ stream' = stream /\ events' = events /\ state' = state
      /\ service' = service /\ traffic' = traffic
  BY DEF vars
<1>2. events \in Seq(Event) /\ Followed
  BY DEF IInv, Followed
<1>3. Replay' = Replay
  <2>1. (events \in Seq(Event) => Replays(Replay, Shown, events))'
    BY ReplayIs, PTL
  <2>2. Replays(Replay', Shown', events) /\ Replays(Replay, Shown, events)
    BY <1>1, <1>2, <2>1, ReplayIs
  <2>3. Shown' = Shown
    BY <1>1 DEF Shown
  <2> QED
    BY <1>2, <2>2, <2>3, ReplayUnique
<1>4. Followed'
  BY <1>1, <1>2, <1>3 DEF Followed
<1> QED
  BY <1>1, <1>3, <1>4 DEF IInv, Translated

\* Every step keeps the invariant.
LEMMA NextInv == IInv /\ [Next]_vars => IInv'
<1> SUFFICES ASSUME IInv, [Next]_vars PROVE IInv'
  OBVIOUS
<1>1. CASE ReadEvent /\ traffic' = traffic
  BY <1>1, Read
<1>2. CASE Disconnected /\ traffic' = traffic
  BY <1>2, Lost
<1>3. CASE ApplyOutputsChanged /\ traffic' = traffic
  BY <1>3, OutputsChanged
<1>4. CASE Subscribe /\ traffic' = traffic
  BY <1>4, Subscribed
<1>5. CASE Changes /\ traffic' = traffic
  <2>1. PICK e \in Event : /\ Sends(e) /\ Sound(niri')
                           /\ Apply(View(niri, {}), e) = View(niri', {})
    BY <1>5, EventsTell DEF IInv
  <2> QED
    BY <1>5, <2>1, Sent
<1>6. CASE UNCHANGED vars
  BY <1>6, StutterInv
<1> QED
  BY <1>1, <1>2, <1>3, <1>4, <1>5, <1>6 DEF Next, Shell, Compositor, Changes

\* What is on its way brings every model in between to a well-formed one and the last
\* to niri's own, and the copies follow the model.
THEOREM InductiveInvariant == Spec => []IInv
<1>1. Init => IInv
  BY InitInv
<1> QED
  BY <1>1, NextInv, PTL DEF Spec

\* WellFormed: niri, the model and its flags are what they should be after every
\* event, for any number of windows, workspaces and outputs and any number of events
\* that are unread (NiriState's handlers, src/niri/NiriState.cpp).
THEOREM AlwaysWellFormed == Spec => []WellFormed
<1>1. IInv => WellFormed
  BY DEF IInv, Sound, WellFormed, TypeOK, OneOfEach, OneOfEachIn
<1> QED
  BY <1>1, InductiveInvariant, PTL

\* ServiceInStep: whatever the event, NiriService's copies are the model's when its
\* signals have been handled (src/niri/NiriService.cpp).
THEOREM ServiceAlwaysInStep == Spec => []ServiceInStep
<1>1. IInv => ServiceInStep
  BY DEF IInv, Translated, ServiceInStep, Translation
<1> QED
  BY <1>1, InductiveInvariant, PTL

-----------------------------------------------------------------------------
\* What each unread event will have the model show.
Backlog == [i \in 1..Len(events) |-> Replay[i]]

\* It is a sequence of models.
LEMMA BacklogIs ==
    IInv => /\ Backlog \in Seq(State) /\ Len(Backlog) = Len(events)
            /\ \A i \in 1..Len(events) : Backlog[i] = Replay[i]
            /\ Len(events) \in Nat
<1> SUFFICES ASSUME IInv
             PROVE  /\ Backlog \in Seq(State) /\ Len(Backlog) = Len(events)
                    /\ \A i \in 1..Len(events) : Backlog[i] = Replay[i]
                    /\ Len(events) \in Nat
  OBVIOUS
<1>1. Len(events) \in Nat /\ \A i \in 1..Len(events) : Replay[i] \in State
  <2>1. Len(events) \in Nat
    BY LenProperties DEF IInv, Followed
  <2>2. \A i \in 1..Len(events) : i \in 0..Len(events)
    BY <2>1
  <2> QED
    BY <2>1, <2>2 DEF IInv, Followed
<1>2. \A i \in 1..Len(events) : Backlog[i] = Replay[i]
  BY DEF Backlog
<1>3. Backlog \in [1..Len(events) -> State]
  BY <1>1 DEF Backlog
<1> QED
  BY <1>1, <1>2, <1>3, IsASeq, LenProperties

\* A step of niri's is one of the source's.
LEMMA ChangeMirrored ==
    ASSUME IInv, IInv', NEW e \in Event, Sends(e),
           stream = "subscribed" =>
               /\ events' = Append(events, e)
               /\ \A i \in 0..Len(events) : Replay'[i] = Replay[i]
               /\ Replay'[Len(events) + 1] = View(niri', {}),
           stream # "subscribed" => events' = events /\ Replay' = Replay
    PROVE  NiriMirror!Change
<1>1. /\ Backlog \in Seq(State) /\ Len(Backlog) = Len(events)
      /\ \A i \in 1..Len(events) : Backlog[i] = Replay[i]
      /\ Len(events) \in Nat
  BY BacklogIs
<1>2. (/\ Backlog \in Seq(State) /\ Len(Backlog) = Len(events)
       /\ \A i \in 1..Len(events) : Backlog[i] = Replay[i]
       /\ Len(events) \in Nat)'
  <2>1. (IInv => /\ Backlog \in Seq(State) /\ Len(Backlog) = Len(events)
                 /\ \A i \in 1..Len(events) : Backlog[i] = Replay[i]
                 /\ Len(events) \in Nat)'
    BY BacklogIs, PTL
  <2> QED
    BY <2>1
<1>3. stream' = stream /\ events \in Seq(Event)
  BY DEF Sends, IInv, Followed
<1>4. Replay'[0] = Replay[0]
  <2>1. 0 \in 0..Len(events)
    BY <1>1
  <2> QED
    BY <2>1
<1>5. Backlog' = IF stream = "subscribed" THEN Append(Backlog, View(niri', {})) ELSE Backlog
  <2>1. CASE stream = "subscribed"
    <3> DEFINE longer == Append(Backlog, View(niri', {}))
    <3>1. View(niri', {}) \in State
      BY ViewTyped DEF IInv, Sound
    <3>2. /\ longer \in Seq(State) /\ Len(longer) = Len(events) + 1
          /\ \A i \in 1..Len(events) : longer[i] = Backlog[i]
          /\ longer[Len(events) + 1] = View(niri', {})
      BY <1>1, <3>1, AppendProperties
    <3>3. Len(events') = Len(events) + 1
      BY <1>3, <2>1, AppendProperties
    <3> HIDE DEF longer
    <3>4. \A i \in 1..Len(events) + 1 : Backlog'[i] = longer[i]
      <4>1. \A i \in 1..Len(events) + 1 : \/ i \in 1..Len(events) /\ i \in 0..Len(events)
                                          \/ i = Len(events) + 1
        BY <1>1
      <4> QED
        BY <1>1, <1>2, <2>1, <3>2, <3>3, <4>1
    <3>5. Backlog' = longer
      BY <1>2, <3>2, <3>3, <3>4, SeqEqual
    <3> QED
      BY <2>1, <3>5 DEF longer
  <2>2. CASE stream # "subscribed"
    BY <2>2 DEF Backlog
  <2> QED
    BY <2>1, <2>2
<1> QED
  BY <1>3, <1>4, <1>5, Zenon DEF NiriMirror!Change, Backlog

\* An event that is read shows what it was sent for.
LEMMA ReadMirrored ==
    ASSUME IInv, IInv', ReadEvent, Replay'[0] = Replay[1],
           \A i \in 0..Len(events') : Replay'[i] = Replay[i + 1]
    PROVE  NiriMirror!Show
<1>1. /\ Backlog \in Seq(State) /\ Len(Backlog) = Len(events)
      /\ \A i \in 1..Len(events) : Backlog[i] = Replay[i]
      /\ Len(events) \in Nat
  BY BacklogIs
<1>2. (/\ Backlog \in Seq(State) /\ Len(Backlog) = Len(events)
       /\ \A i \in 1..Len(events) : Backlog[i] = Replay[i]
       /\ Len(events) \in Nat)'
  <2>1. (IInv => /\ Backlog \in Seq(State) /\ Len(Backlog) = Len(events)
                 /\ \A i \in 1..Len(events) : Backlog[i] = Replay[i]
                 /\ Len(events) \in Nat)'
    BY BacklogIs, PTL
  <2> QED
    BY <2>1
<1>3. /\ niri' = niri /\ stream' = stream
      /\ events # <<>> /\ events' = Tail(events) /\ events \in Seq(Event)
  BY DEF ReadEvent, IInv, Followed
<1>4. Len(events) > 0 /\ Len(events') = Len(events) - 1
  BY <1>1, <1>3, EmptySeq, HeadTailProperties
<1>5. Backlog # <<>>
  BY <1>1, <1>4, EmptySeq
<1>6. Head(Backlog) = Replay[1]
  <2>1. Head(Backlog) = Backlog[1]
    BY <1>1, <1>5, HeadTailProperties
  <2> QED
    BY <1>1, <1>4, <2>1
<1>7. Backlog' = Tail(Backlog)
  <2> DEFINE rest == Tail(Backlog)
  <2>1. /\ rest \in Seq(State) /\ Len(rest) = Len(events) - 1
        /\ \A i \in 1..Len(rest) : rest[i] = Backlog[i + 1]
    BY <1>1, <1>5, HeadTailProperties
  <2> HIDE DEF rest
  <2>2. \A i \in 1..Len(rest) : Backlog'[i] = rest[i]
    <3>1. \A i \in 1..Len(rest) : /\ i \in 1..Len(events') /\ i \in 0..Len(events')
                                  /\ i + 1 \in 1..Len(events)
      BY <1>1, <1>4, <2>1
    <3> QED
      BY <1>1, <1>2, <2>1, <3>1
  <2>3. Backlog' = rest
    BY <1>2, <1>4, <2>1, <2>2, SeqEqual
  <2> QED
    BY <2>3 DEF rest
<1> QED
  BY <1>3, <1>5, <1>6, <1>7, Zenon DEF NiriMirror!Show, Backlog

\* MirrorsNiri: for every niri and every number of unread events, the model shows what
\* niri was some events ago, goes through nothing niri did not go through, and loses
\* all of it with the connection (src/niri/NiriState.cpp and NiriEventStream.cpp).
THEOREM ModelMirrorsNiri == Spec => MirrorsNiri
<1>1. Init => NiriMirror!Init
  <2> SUFFICES ASSUME Init PROVE NiriMirror!Init
    OBVIOUS
  <2>1. Replay[0] = Cleared /\ IInv
    BY InitInv
  <2>2. Backlog = <<>>
    <3>1. Len(events) = 0
      BY DEF Init
    <3> QED
      BY <2>1, <3>1, BacklogIs, EmptySeq
  <2>3. stream # "subscribed"
    BY DEF Init
  <2> QED
    BY <2>1, <2>2, <2>3, Zenon DEF NiriMirror!Init, Backlog
<1>2. IInv /\ IInv' /\ [Next]_vars => [NiriMirror!Next]_(NiriMirror!vars)
  <2> SUFFICES ASSUME IInv, IInv', [Next]_vars
               PROVE  [NiriMirror!Next]_(NiriMirror!vars)
    OBVIOUS
  <2>1. CASE ReadEvent /\ traffic' = traffic
    <3>1. NiriMirror!Show
      BY <2>1, Read, ReadMirrored
    <3> QED
      BY <3>1 DEF NiriMirror!Next
  <2>2. CASE Disconnected /\ traffic' = traffic
    <3>1. /\ stream = "subscribed" /\ stream' = "closed" /\ niri' = niri
          /\ Replay'[0] = Cleared
      BY <2>2, Lost DEF Disconnected
    <3>2. Backlog' = <<>>
      <4>1. Len(events)' = 0
        BY <2>2 DEF Disconnected
      <4>2. (IInv => /\ Backlog \in Seq(State) /\ Len(Backlog) = Len(events)
                     /\ \A i \in 1..Len(events) : Backlog[i] = Replay[i]
                     /\ Len(events) \in Nat)'
        BY BacklogIs, PTL
      <4> QED
        BY <4>1, <4>2, EmptySeq
    <3>3. NiriMirror!Lose
      BY <3>1, <3>2 DEF NiriMirror!Lose, Backlog
    <3> QED
      BY <3>3 DEF NiriMirror!Next
  <2>3. CASE ApplyOutputsChanged /\ traffic' = traffic
    <3>1. niri' = niri /\ stream' = stream /\ events' = events /\ Replay' = Replay
      BY <2>3, OutputsChanged DEF ApplyOutputsChanged
    <3> QED
      BY <3>1 DEF NiriMirror!vars
  <2>4. CASE Subscribe /\ traffic' = traffic
    <3>1. /\ stream = "closed" /\ stream' = "subscribed" /\ niri' = niri
          /\ Replay'[0] = Replay[0] /\ Len(events') = 6 /\ Replay'[6] = View(niri, {})
      BY <2>4, Subscribed DEF Subscribe
    <3>2. Backlog' # <<>> /\ Backlog'[Len(Backlog')] = View(niri, {})
      <4>1. (IInv => /\ Backlog \in Seq(State) /\ Len(Backlog) = Len(events)
                     /\ \A i \in 1..Len(events) : Backlog[i] = Replay[i]
                     /\ Len(events) \in Nat)'
        BY BacklogIs, PTL
      <4>2. /\ Len(Backlog') = 6
            /\ \A i \in 1..Len(events') : Backlog'[i] = Replay'[i]
        BY <3>1, <4>1
      <4>3. 6 \in 1..Len(events')
        BY <3>1
      <4>4. Backlog'[Len(Backlog')] = View(niri, {})
        BY <3>1, <4>2, <4>3
      <4>5. Len(<<>>) = 0
        BY EmptySeq
      <4> QED
        BY <4>2, <4>4, <4>5
    <3>3. NiriMirror!Subscribe
      BY <3>1, <3>2 DEF NiriMirror!Subscribe, Backlog
    <3> QED
      BY <3>3 DEF NiriMirror!Next
  <2>5. CASE Changes /\ traffic' = traffic
    <3>1. PICK e \in Event : /\ Sends(e) /\ Sound(niri')
                             /\ Apply(View(niri, {}), e) = View(niri', {})
      BY <2>5, EventsTell DEF IInv
    <3>2. NiriMirror!Change
      BY <2>5, <3>1, Sent, ChangeMirrored
    <3> QED
      BY <3>2 DEF NiriMirror!Next
  <2>6. CASE UNCHANGED vars
    <3>1. niri' = niri /\ stream' = stream /\ events' = events /\ Replay' = Replay
      BY <2>6, StutterInv DEF vars
    <3> QED
      BY <3>1 DEF NiriMirror!vars
  <2> QED
    BY <2>1, <2>2, <2>3, <2>4, <2>5, <2>6 DEF Next, Shell, Compositor, Changes
<1> QED
  BY <1>1, <1>2, InductiveInvariant, PTL DEF Spec, MirrorsNiri, NiriMirror!Spec
=============================================================================
