------------------------------- MODULE Mirror -------------------------------
(***************************************************************************)
(* What a model kept by events promises: it goes through the states of its *)
(* source in their order, some steps behind, and loses everything when the *)
(* connection goes.  A subscription begins with a burst, during which what *)
(* is shown may be in parts; its last event completes the picture.         *)
(***************************************************************************)
EXTENDS Sequences, Naturals

CONSTANT Nothing    \* what is shown while the source is not known

VARIABLES
    source,       \* the state of what is mirrored
    subscribed,   \* whether its changes are being sent
    backlog,      \* what each event that is unread will have the model show
    shown         \* what the model shows

vars == <<source, subscribed, backlog, shown>>

Init ==
    /\ ~subscribed
    /\ backlog = <<>>
    /\ shown = Nothing

Change ==
    /\ backlog' = IF subscribed THEN Append(backlog, source') ELSE backlog
    /\ UNCHANGED <<subscribed, shown>>

Show ==
    /\ backlog # <<>>
    /\ shown' = Head(backlog)
    /\ backlog' = Tail(backlog)
    /\ UNCHANGED <<source, subscribed>>

Subscribe ==
    /\ ~subscribed /\ subscribed'
    /\ backlog' # <<>> /\ backlog'[Len(backlog')] = source
    /\ UNCHANGED <<source, shown>>

Lose ==
    /\ subscribed /\ ~subscribed'
    /\ backlog' = <<>>
    /\ shown' = Nothing
    /\ UNCHANGED source

Next == Change \/ Show \/ Subscribe \/ Lose

Spec == Init /\ [][Next]_vars

=============================================================================
