---------------------------- MODULE MCNiriState -----------------------------
(* Model checking of NiriState: the windows' events, the activation of       *)
(* workspaces and the others in behaviours of their own, for in the code     *)
(* each of the three touches what the other two leave alone.                 *)
EXTENDS NiriState

WindowTraffic ==
    [events |-> {"WindowOpenedOrChanged", "WindowClosed", "WindowFocusChanged",
                 "WindowUrgencyChanged"},
     windows |-> {1, 2}, workspaces |-> {1, 2}, lag |-> 2]

WorkspaceTraffic ==
    [events |-> {"WorkspacesChanged", "WorkspaceActivated"},
     windows |-> {}, workspaces |-> {1, 2, 3}, lag |-> 1]

OtherTraffic ==
    [events |-> {"WorkspacesChanged", "WorkspaceUrgencyChanged",
                 "WorkspaceActiveWindowChanged", "Outputs",
                 "KeyboardLayoutsChanged", "KeyboardLayoutSwitched",
                 "OverviewOpenedOrClosed", "ConfigLoaded"},
     windows |-> {1}, workspaces |-> {1}, lag |-> 2]

AllTraffic == {WindowTraffic, WorkspaceTraffic, OtherTraffic}

OnlyWindows == {WindowTraffic}
=============================================================================
