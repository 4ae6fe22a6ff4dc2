------------------------------- MODULE NiriIPC -------------------------------
(***************************************************************************)
(* The request connection to the compositor (src/niri/NiriIPC): requests   *)
(* queue up, are written when the socket is up, and are paired with the    *)
(* replies by position alone.  Its own client is detection (detect and the *)
(* probes); the others are the callers of send and sendObject.             *)
(*                                                                         *)
(* A handler runs synchronously inside the call that finds its answer and  *)
(* may send again, so every operation is an operator on one record and an  *)
(* action is one dispatch of the event loop.  What a handler sends is sent  *)
(* last: while the socket reports its failure it is only queued (Enqueue), *)
(* at any other time sending may be what finds the failure (Send).         *)
(***************************************************************************)
EXTENDS Integers, Sequences, FiniteSets

CONSTANTS
    Probes,        \* how many features are probed, probedFeatures().size()
    Oversized,     \* whether niri may send a reply beyond maximumLineBytes
    MaxPending     \* bound: callers send only while fewer requests are pending
                   \* and fewer answers are due

ASSUME RequestAssumption ==
    /\ Probes \in Nat \ {0}
    /\ Oversized \in BOOLEAN
    /\ MaxPending \in Nat

VARIABLE ipc

ipcVars == <<ipc>>

-----------------------------------------------------------------------------
(* The connection. *)

\* "hungup": niri has closed its end, the socket has not noticed. "failing": the
\* socket is reporting that and still counts as connected, but writes are lost.
Link == {"closed", "open", "hungup", "failing"}

\* Who sent a request. "Again" is a caller whose handler sends one more request
\* (NiriOutputs::handleReply), "Once" one whose handler sends nothing, "Action"
\* NiriActions.
Kind == {"Version", "Probe", "Once", "Again", "Action"}

Request == [id : Nat, kind : Kind, written : BOOLEAN]

\* What niri answers, in the order it was asked; "Tail" is what is left of an
\* oversized reply whose beginning has been thrown away.
Answer == [id : Nat, kind : Kind \cup {"Tail"}]

Signal == {"versionDetected", "detectionFailed", "capabilitiesDetected"}

\* pending is pending_, wire the answers niri owes or has sent, heard the signals
\* since the last detect(), owed the requests whose handler is yet to be called,
\* clipped whether this connection has had an oversized reply.
IPC == [link : Link, pending : Seq(Request), wire : Seq(Answer),
        detecting : BOOLEAN, probesLeft : 1 - Probes..Probes,
        heard : Seq(Signal), owed : SUBSET Nat, clipped : BOOLEAN]

Ids(s) == {s[i].id : i \in DOMAIN s}

Pending(kind) == {i \in DOMAIN ipc.pending : ipc.pending[i].kind = kind}

\* Identities are the model's own: a name is used again once nothing refers to it.
FreshId(m) ==
    LET used == m.owed \cup Ids(m.wire)
    IN  CHOOSE i \in 1..Cardinality(used) + 1 : i \notin used

-----------------------------------------------------------------------------
(* Sending. *)

Reply(request) == [id |-> request.id, kind |-> request.kind]

\* The replies to those requests that are not written yet.
RepliesToUnwritten(requests) ==
    LET upTo[i \in 0..Len(requests)] ==
            IF i = 0 THEN <<>>
            ELSE IF requests[i].written THEN upTo[i - 1]
            ELSE Append(upTo[i - 1], Reply(requests[i]))
    IN  upTo[Len(requests)]

\* Mutant: a written request is not marked as such.
FlushPendingUnmarked(m) ==
    IF m.link # "open" THEN m
    ELSE [m EXCEPT !.wire = @ \o [i \in DOMAIN m.pending |-> Reply(m.pending[i])]]

FlushPending(m) ==
    IF m.link = "closed" THEN m
    ELSE [m EXCEPT
            !.pending = [i \in DOMAIN @ |-> [@[i] EXCEPT !.written = TRUE]],
            !.wire = IF m.link = "open" THEN @ \o RepliesToUnwritten(m.pending) ELSE @]

Enqueue(m, kind) ==
    LET id == FreshId(m)
    IN  FlushPending([m EXCEPT
            !.pending = Append(@, [id |-> id, kind |-> kind, written |-> FALSE]),
            !.owed = @ \cup {id}])

-----------------------------------------------------------------------------
(* The handlers of the pending requests. *)

Say(m, signal) == [m EXCEPT !.heard = Append(@, signal)]

StartProbes(m) == [m EXCEPT !.probesLeft = Probes]

\* Mutant: detecting_ left set.
FinishProbesStillDetecting(m) ==
    IF ~m.detecting THEN m ELSE Say(m, "capabilitiesDetected")

FinishProbes(m) ==
    IF ~m.detecting THEN m
    ELSE Say([m EXCEPT !.detecting = FALSE], "capabilitiesDetected")

\* A request's handler up to what it sends. reply is "good", what the request's kind
\* is answered with, "bad", any other line, or "lost", failPending's error.
Handled(m, request, reply) ==
    LET called == [m EXCEPT !.owed = @ \ {request.id}]
    IN  CASE request.kind = "Version" /\ reply = "good" ->
                 StartProbes(Say(called, "versionDetected"))
          [] request.kind = "Version" /\ reply # "good" ->
                 Say([called EXCEPT !.detecting = FALSE], "detectionFailed")
          [] request.kind = "Probe" /\ m.probesLeft > 1 ->
                 [called EXCEPT !.probesLeft = @ - 1]
          [] request.kind = "Probe" /\ m.probesLeft <= 1 ->
                 FinishProbes([called EXCEPT !.probesLeft = @ - 1])
          [] request.kind \in {"Again", "Once", "Action"} -> called

\* What the handler sends, at its end.
Asks(request, reply) ==
    CASE request.kind = "Version" /\ reply = "good" -> [probe \in 1..Probes |-> "Probe"]
      [] request.kind = "Again" -> <<"Once">>
      [] OTHER -> <<>>

EnqueueAll(m, kinds) ==
    LET after[i \in 0..Len(kinds)] ==
            IF i = 0 THEN m ELSE Enqueue(after[i - 1], kinds[i])
    IN  after[Len(kinds)]

\* The requests are told, one after the other, that their replies will not come.
TellLost(m, requests) ==
    LET after[i \in 0..Len(requests)] ==
            IF i = 0 THEN m
            ELSE EnqueueAll(Handled(after[i - 1], requests[i], "lost"),
                            Asks(requests[i], "lost"))
    IN  after[Len(requests)]

\* Mutant: the list cleared after the handlers have run.
FailPendingThenClear(m) == [TellLost(m, m.pending) EXCEPT !.pending = <<>>]

\* The list is emptied before the first handler runs: what handlers send stays.
FailPending(m) == TellLost([m EXCEPT !.pending = <<>>], m.pending)

\* The socket notices that niri is gone: errorOccurred, then disconnected.
PeerGone(m) ==
    LET failed == FailPending([m EXCEPT !.link = "failing", !.wire = <<>>])
    IN  FailPending([failed EXCEPT !.link = "closed"])

\* send and sendObject: writing to a socket niri has closed is how its end is
\* noticed when nothing has been read since.
Send(m, kind) ==
    IF m.link = "hungup" THEN PeerGone(Enqueue(m, kind)) ELSE Enqueue(m, kind)

Detect(m) ==
    IF m.link = "closed" THEN Say([m EXCEPT !.heard = <<>>], "detectionFailed")
    ELSE Send([m EXCEPT !.detecting = TRUE, !.probesLeft = 0, !.heard = <<>>], "Version")

-----------------------------------------------------------------------------
(* The event loop's dispatches. *)

\* abort() and disconnectFromServer() of a socket that is up.
Aborted(m) ==
    IF m.link = "closed" THEN m
    ELSE FailPending([m EXCEPT !.link = "closed", !.wire = <<>>])

\* NiriReconnect dials, and starts a detection in `connected`.
ConnectToCompositor(accepted) ==
    ipc' = IF accepted
           THEN Detect(FlushPending([Aborted(ipc) EXCEPT !.link = "open", !.clipped = FALSE]))
           ELSE FailPending(Aborted(ipc))

Dial == \E accepted \in BOOLEAN : ConnectToCompositor(accepted)

DisconnectFromCompositor ==
    ipc' = FailPending(Aborted(ipc))

\* A caller's send or sendObject.
CallerSends ==
    /\ Len(ipc.pending) < MaxPending /\ Len(ipc.wire) < MaxPending
    /\ \E kind \in {"Once", "Again"} : ipc' = Send(ipc, kind)

SendAll(m, kinds) ==
    LET after[i \in 0..Len(kinds)] ==
            IF i = 0 THEN m ELSE Send(after[i - 1], kinds[i])
    IN  after[Len(kinds)]

Run(m, request, reply) == SendAll(Handled(m, request, reply), Asks(request, reply))

RunAllLost(m, requests) ==
    LET after[i \in 0..Len(requests)] ==
            IF i = 0 THEN m ELSE Run(after[i - 1], requests[i], "lost")
    IN  after[Len(requests)]

\* One complete line of handleReadyRead, paired with the oldest request.
Deliver(m, answer, reply) ==
    IF m.pending = <<>> THEN m
    ELSE LET request == Head(m.pending)
         IN  Run([m EXCEPT !.pending = Tail(@)], request,
                 IF answer.kind = request.kind THEN reply ELSE "bad")

ReadReplyAs(reply) ==
    /\ ipc.wire # <<>>
    /\ ipc' = Deliver([ipc EXCEPT !.wire = Tail(@)], Head(ipc.wire), reply)

ReadReply == \E reply \in {"good", "bad"} : ReadReplyAs(reply)

\* A reply that overflows the buffer before its newline: the buffer is cleared
\* and every request failed, the socket stays up and the rest of the line comes.
ReadOversized ==
    /\ Oversized
    /\ ipc.wire # <<>> /\ Head(ipc.wire).kind # "Tail"
    /\ ipc' = RunAllLost([ipc EXCEPT !.wire[1].kind = "Tail", !.clipped = TRUE,
                                     !.pending = <<>>],
                         ipc.pending)

PeerClosed ==
    /\ ipc.link = "hungup" /\ ipc.wire = <<>>
    /\ ipc' = PeerGone(ipc)

\* niri exits or drops the connection, having answered some of what it was asked.
HangsUp ==
    /\ ipc.link = "open"
    /\ \E answered \in 0..Len(ipc.wire) :
           ipc' = [ipc EXCEPT !.link = "hungup", !.wire = SubSeq(@, 1, answered)]

-----------------------------------------------------------------------------
IPCInit ==
    ipc = [link |-> "closed", pending |-> <<>>, wire |-> <<>>,
           detecting |-> FALSE, probesLeft |-> 0, heard |-> <<>>, owed |-> {},
           clipped |-> FALSE]

\* What happens to the connection besides replies that are read and callers.
Upset == Dial \/ DisconnectFromCompositor \/ ReadOversized \/ PeerClosed \/ HangsUp

IPCNext == Upset \/ CallerSends \/ ReadReply

IPCSpec == IPCInit /\ [][IPCNext]_ipcVars

-----------------------------------------------------------------------------
(* Properties. *)

\* The types; at rest the socket is not in the middle of reporting its failure.
IPCTypeOK == ipc \in IPC /\ ipc.link # "failing"

\* The answer to be read next is the answer to the oldest request, and so on down
\* the queue: pairing by position pairs every handler with its own reply.
OwnReply ==
    \A i \in DOMAIN ipc.wire :
        /\ i \in DOMAIN ipc.pending
        /\ ipc.pending[i].written
        /\ ipc.pending[i].id = ipc.wire[i].id

\* The same until an oversized reply: a new connection starts with a queue that is
\* in step again, whatever the last one left in it.
OwnReplyUnlessClipped == ipc.clipped \/ OwnReply

\* Every request is still pending or has had its handler called, once: what
\* handlers send while the queue is being failed is neither lost nor failed twice.
OwedIsPending ==
    /\ ipc.owed = Ids(ipc.pending)
    /\ \A i, j \in DOMAIN ipc.pending :
           ipc.pending[i].id = ipc.pending[j].id => i = j

\* A request is on the wire exactly while the connection it was written to stands:
\* none written to one compositor waits for the next one's replies.
WrittenToThisConnection ==
    \A i \in DOMAIN ipc.pending : ipc.pending[i].written <=> ipc.link # "closed"

\* The queue is well typed, in step with the handlers owed and with the connection.
QueueInStep == IPCTypeOK /\ OwedIsPending /\ WrittenToThisConnection

\* A version is never both recognised and refused by one detection, whatever is
\* left over from the one before.
OneVerdict ==
    ~ \E i, j \in DOMAIN ipc.heard : ipc.heard[i] = "versionDetected"
                                  /\ ipc.heard[j] = "detectionFailed"

\* A detection under way always has a request of its own left whose handler, called
\* with an answer or with the failure of its connection, ends it: no order of stale
\* probes, failures and dials leaves it open for ever.
DetectionHasItsEnd ==
    ipc.detecting =>
        \/ Pending("Version") # {}
        \/ ipc.probesLeft \in 1..Cardinality(Pending("Probe"))

\* A detection ends, and with one verdict.
DetectionEndsOnce == DetectionHasItsEnd /\ OneVerdict
=============================================================================
