----------------------------- MODULE NiriOutputs -----------------------------
(***************************************************************************)
(* The connected outputs (src/niri/NiriOutputs), kept in step by asking on *)
(* the request connection whenever the event stream brings news that can   *)
(* change them.  The two sockets are independent, so a reply may be older  *)
(* than the event that follows it or outlive the stream; NiriReconnect     *)
(* tears both down and dials both again.                                   *)
(*                                                                         *)
(* Of the requests of NiriIPC only those for Outputs are here: the replies *)
(* come in order (NiriIPC, OwnReply) or the request is failed.  A reply    *)
(* beyond the line limit, after which that order is lost, is left out.     *)
(***************************************************************************)
EXTENDS Integers, Sequences

CONSTANTS
    Names,        \* the connectors an output may appear on
    MaxChanges,   \* bound: changes of niri's outputs in a behaviour
    MaxFaults,    \* bound: crashes, drops and half-accepted dials
    MaxRefusals   \* bound: Outputs requests niri answers with an error

ASSUME OutputsAssumption ==
    /\ MaxChanges \in Nat
    /\ MaxFaults \in Nat
    /\ MaxRefusals \in Nat

VARIABLES
    compositor,  \* whether niri is up, and its outputs
    stream,      \* the event stream's socket, seen from the shell's end
    events,      \* the lines of the event stream that are yet to be read
    shell,       \* the request connection's Outputs requests and NiriOutputs
    bounds       \* what is left of the three bounds

outputsVars == <<compositor, stream, events, shell, bounds>>

-----------------------------------------------------------------------------
(* The compositor and the connections. *)

Niri == [up : BOOLEAN, names : SUBSET Names, config : {"old", "new"}]

\* An output is its name and what niri's configuration says of it.
Output == Names \X {"old", "new"}

Outputs(n) == n.names \X {n.config}

\* The output of a workspace that has none.
NoOutput == ""

\* A workspace event counts by the outputs its workspaces name; without an
\* output, niri keeps its workspaces on none.
Event == [what : {"ack", "config"}]
             \cup [what : {"workspaces"}, named : SUBSET (Names \cup {NoOutput})]

Workspaces(names) ==
    [what |-> "workspaces", named |-> IF names = {} THEN {NoOutput} ELSE names]

\* What niri sends on subscribing: the acknowledgement and the initial burst.
Burst(n) == <<[what |-> "ack"], Workspaces(n.names), [what |-> "config"]>>

\* A request is queued while the socket is down, asked once written, and holds
\* the reply from when niri has sent it.
Request == [at : {"queued", "asked", "refused"}] \cup
           [at : {"answered"}, outputs : SUBSET Output]

\* pending: NiriIPC's; referenced: workspaceOutputs_; again: pending_;
\* observing: observe() has been called; streaming: NiriEventStream's.
Shell == [link : {"closed", "open", "hungup", "failing"}, pending : Seq(Request),
          outputs : SUBSET Output, referenced : SUBSET Names,
          inFlight : BOOLEAN, again : BOOLEAN,
          observing : BOOLEAN, streaming : BOOLEAN]

-----------------------------------------------------------------------------
(* The request connection: NiriIPC for this one caller. *)

Enqueue(m) ==
    [m EXCEPT !.pending = Append(@, [at |-> IF m.link = "closed" THEN "queued" ELSE "asked"])]

RequestOutputs(m) == Enqueue([m EXCEPT !.inFlight = TRUE])

\* Every request gets a transport error, in order. The first one's handler asks
\* again if a trigger was waiting; the later ones clear inFlight under it.
FailPending(m) ==
    LET emptied == [m EXCEPT !.pending = <<>>, !.inFlight = FALSE, !.again = FALSE]
    IN  IF m.pending = <<>> THEN m
        ELSE IF ~m.again THEN emptied
        ELSE [RequestOutputs(emptied) EXCEPT !.inFlight = Len(m.pending) = 1]

\* NiriIPC's disconnected and transportError, as NiriOutputs takes them.
ForgetFlight(m) == [m EXCEPT !.inFlight = FALSE, !.again = FALSE]

PeerGone(m) ==
    LET failed == ForgetFlight(FailPending([m EXCEPT !.link = "failing"]))
    IN  ForgetFlight(FailPending([failed EXCEPT !.link = "closed"]))

\* Writing to a socket niri has closed is how that is noticed.
Ask(m) ==
    IF m.link = "hungup" THEN PeerGone(RequestOutputs(m)) ELSE RequestOutputs(m)

-----------------------------------------------------------------------------
(* NiriOutputs. *)

Refresh(m) == IF m.inFlight THEN [m EXCEPT !.again = TRUE] ELSE Ask(m)

\* Mutants: only a list that was read ends the flight; the trigger held back is
\* cleared and not acted on.
HandleReplyStillInFlight(m, reply) ==
    LET told == [m EXCEPT !.inFlight = reply.at # "answered", !.again = FALSE,
                          !.outputs = IF reply.at = "answered" THEN reply.outputs ELSE @]
    IN  IF m.again THEN Ask(told) ELSE told

HandleReplyNotAgain(m, reply) ==
    [m EXCEPT !.inFlight = FALSE, !.again = FALSE,
              !.outputs = IF reply.at = "answered" THEN reply.outputs ELSE @]

\* A refusal, or a list that cannot be read in full, leaves the outputs alone.
HandleReply(m, reply) ==
    LET told == [m EXCEPT !.inFlight = FALSE, !.again = FALSE,
                          !.outputs = IF reply.at = "answered" THEN reply.outputs ELSE @]
    IN  IF m.again THEN Ask(told) ELSE told

\* Mutant: workspaces without an output not left out.
HandleWorkspacesOfNoOutput(m, named) ==
    IF named = m.referenced THEN m
    ELSE Refresh([m EXCEPT !.referenced = named])

HandleWorkspacesChanged(m, named) ==
    LET referenced == named \ {NoOutput}
    IN  IF referenced = m.referenced THEN m
        ELSE Refresh([m EXCEPT !.referenced = referenced])

HandleDisconnected(m) ==
    IF ~m.observing THEN m
    ELSE [m EXCEPT !.inFlight = FALSE, !.again = FALSE,
                   !.referenced = {}, !.outputs = {}]

\* main: the first `attached` calls observe(), which asks at once.
CheckAttached(m) ==
    IF m.streaming /\ m.link # "closed" /\ ~m.observing
    THEN Refresh([m EXCEPT !.observing = TRUE]) ELSE m

-----------------------------------------------------------------------------
(* The event loop's dispatches. *)

ReadReply ==
    /\ shell.pending # <<>>
    /\ Head(shell.pending).at \in {"answered", "refused"}
    /\ shell' = HandleReply([shell EXCEPT !.pending = Tail(@)], Head(shell.pending))
    /\ UNCHANGED <<compositor, stream, events, bounds>>

ReadEvent ==
    /\ events # <<>>
    /\ events' = Tail(events)
    /\ LET event == Head(events)
       IN  shell' = CASE event.what = "ack" ->
                             CheckAttached([shell EXCEPT !.streaming = TRUE])
                      [] event.what = "config" ->
                             IF shell.observing THEN Refresh(shell) ELSE shell
                      [] event.what = "workspaces" ->
                             IF shell.observing
                             THEN HandleWorkspacesChanged(shell, event.named)
                             ELSE shell
    /\ UNCHANGED <<compositor, stream, bounds>>

\* Another caller's write may find the hang-up before the replies are read.
PeerClosed ==
    /\ shell.link = "hungup"
    /\ shell' = PeerGone(shell)
    /\ UNCHANGED <<compositor, stream, events, bounds>>

StreamClosed ==
    /\ stream = "hungup" /\ events = <<>>
    /\ stream' = "closed"
    /\ shell' = HandleDisconnected([shell EXCEPT !.streaming = FALSE])
    /\ UNCHANGED <<compositor, events, bounds>>

\* NiriReconnect dials the request connection, then the stream, aborting what is
\* left of the old ones. One of the two may be refused by a niri that is just
\* going or just coming.
DialRequest(m, accepted) ==
    LET aborted == IF m.link = "closed" THEN m
                   ELSE ForgetFlight(FailPending([m EXCEPT !.link = "closed"]))
        written == [aborted EXCEPT !.link = "open",
                        !.pending = [i \in DOMAIN @ |-> [at |-> "asked"]]]
    IN  IF accepted THEN CheckAttached(written)
        ELSE ForgetFlight(FailPending(aborted))

DialStream(m) ==
    LET aborted == [m EXCEPT !.streaming = FALSE]
    IN  IF stream = "closed" THEN aborted ELSE HandleDisconnected(aborted)

Reattach ==
    /\ shell.link = "closed" \/ ~shell.streaming
    /\ \E request, subscription \in BOOLEAN :
           /\ \/ /\ request = subscription /\ request = compositor.up
                 /\ UNCHANGED bounds
              \/ /\ request # subscription /\ compositor.up /\ bounds.faults > 0
                 /\ bounds' = [bounds EXCEPT !.faults = @ - 1]
           /\ shell' = DialStream(DialRequest(shell, request))
           /\ stream' = IF subscription THEN "asked" ELSE "closed"
           /\ events' = <<>>
    /\ UNCHANGED compositor

-----------------------------------------------------------------------------
(* The compositor's steps. *)

Subscribe ==
    /\ stream = "asked"
    /\ stream' = "open"
    /\ events' = Burst(compositor)
    /\ UNCHANGED <<compositor, shell, bounds>>

\* Requests are answered in order.
NextAsked(i) ==
    /\ shell.pending[i].at = "asked"
    /\ \A j \in 1..i - 1 : shell.pending[j].at # "asked"

Reply ==
    /\ shell.link = "open"
    /\ \E i \in DOMAIN shell.pending :
           /\ NextAsked(i)
           /\ shell' = [shell EXCEPT !.pending[i] =
                            [at |-> "answered", outputs |-> Outputs(compositor)]]
    /\ UNCHANGED <<compositor, stream, events, bounds>>

Refuse ==
    /\ shell.link = "open" /\ bounds.refusals > 0
    /\ \E i \in DOMAIN shell.pending :
           /\ NextAsked(i)
           /\ shell' = [shell EXCEPT !.pending[i] = [at |-> "refused"]]
    /\ bounds' = [bounds EXCEPT !.refusals = @ - 1]
    /\ UNCHANGED <<compositor, stream, events>>

\* An output comes or goes, and with it the workspaces on it; a reload of niri's
\* configuration changes them all.
Change ==
    /\ compositor.up /\ bounds.changes > 0
    /\ bounds' = [bounds EXCEPT !.changes = @ - 1]
    /\ \/ \E names \in SUBSET Names \ {compositor.names} :
              /\ compositor' = [compositor EXCEPT !.names = names]
              /\ events' = IF stream = "open" THEN Append(events, Workspaces(names))
                           ELSE events
       \/ /\ compositor' = [compositor EXCEPT !.config = IF @ = "old" THEN "new" ELSE "old"]
          /\ events' = IF stream = "open" THEN Append(events, [what |-> "config"])
                       ELSE events
    /\ UNCHANGED <<stream, shell>>

\* What the end of the request connection leaves to be read: nothing niri had
\* not answered.
HungUp(m) == IF m.link = "open" THEN [m EXCEPT !.link = "hungup"] ELSE m

Crash ==
    /\ compositor.up /\ bounds.faults > 0
    /\ compositor' = [compositor EXCEPT !.up = FALSE]
    /\ stream' = IF stream = "closed" THEN stream ELSE "hungup"
    /\ shell' = HungUp(shell)
    /\ bounds' = [bounds EXCEPT !.faults = @ - 1]
    /\ UNCHANGED events

DropConnection ==
    /\ bounds.faults > 0
    /\ \/ /\ shell.link = "open" /\ shell' = HungUp(shell)
          /\ UNCHANGED stream
       \/ /\ stream \in {"asked", "open"} /\ stream' = "hungup"
          /\ UNCHANGED shell
    /\ bounds' = [bounds EXCEPT !.faults = @ - 1]
    /\ UNCHANGED <<compositor, events>>

Restart ==
    /\ ~compositor.up
    /\ \E names \in SUBSET Names :
           compositor' = [compositor EXCEPT !.up = TRUE, !.names = names]
    /\ UNCHANGED <<stream, events, shell, bounds>>

-----------------------------------------------------------------------------
OutputsInit ==
    /\ compositor \in Niri
    /\ compositor.config = "old"
    /\ stream = "closed"
    /\ events = <<>>
    /\ shell = [link |-> "closed", pending |-> <<>>, outputs |-> {}, referenced |-> {},
                inFlight |-> FALSE, again |-> FALSE,
                observing |-> FALSE, streaming |-> FALSE]
    /\ bounds = [changes |-> MaxChanges, faults |-> MaxFaults, refusals |-> MaxRefusals]

EventLoop == ReadReply \/ ReadEvent \/ PeerClosed \/ StreamClosed \/ Reattach

Compositor == Subscribe \/ Reply \/ Refuse \/ Change \/ Crash \/ DropConnection \/ Restart

OutputsNext == EventLoop \/ Compositor

OutputsSpec == OutputsInit /\ [][OutputsNext]_outputsVars

\* The event loop reads what is there, NiriReconnect retries while it is not
\* attached (its NeverStranded) without cutting every attempt short, and niri
\* answers.
FairSpec ==
    /\ OutputsSpec
    /\ WF_outputsVars(ReadReply) /\ SF_outputsVars(ReadEvent)
    /\ WF_outputsVars(PeerClosed) /\ WF_outputsVars(StreamClosed)
    /\ WF_outputsVars(Reattach)
    /\ SF_outputsVars(Subscribe) /\ WF_outputsVars(Reply)

-----------------------------------------------------------------------------
(* Properties. *)

\* The types of the compositor's, the connections' and NiriOutputs' state; between
\* dispatches the socket is not in the middle of reporting its failure.
OutputsTypeOK ==
    /\ compositor \in Niri
    /\ stream \in {"closed", "asked", "open", "hungup"}
    /\ events \in Seq(Event)
    /\ shell \in Shell /\ shell.link # "failing"
    /\ bounds \in [changes : 0..MaxChanges, faults : 0..MaxFaults,
                   refusals : 0..MaxRefusals]

\* NiriOutputs believes a request in flight only while one is, and holds a
\* trigger back only while it believes so: otherwise "no later trigger would ever
\* be acted on", through whatever order of drops, failures and answers.
NeverWedged ==
    /\ shell.inFlight => shell.pending # <<>>
    /\ shell.again => shell.inFlight

NoneRefused == bounds.refusals = MaxRefusals

\* With niri up for good and refusing nothing, its outputs are eventually the ones
\* the shell shows.
OutputsConverge ==
    []NoneRefused /\ <>[](compositor.up) => <>[](shell.outputs = Outputs(compositor))
=============================================================================
