------------------------------ MODULE NiriActions ------------------------------
(* NiriActions: what the shell asks niri to do. A call whose argument cannot be    *)
(* encoded is refused before anything is sent; any other is a request of NiriIPC,  *)
(* and the reply, or the loss of the connection, is its result.                    *)
EXTENDS NiriIPC

CONSTANTS
    MaximumIndex,   \* a u8's
    MaximumId,      \* a signed integer's; niri's ids are unsigned, of as many bits
    MaxAsked        \* bound: calls are made only while fewer wait for their reply

\* asked are the calls on their way by their request, told what the last dispatch has told
\* of calls: to their handlers, and by actionFailed unless it is "handled".
VARIABLE actions

actionsVars == <<ipc, actions>>

\* A niri id's largest value.
LargestId == 2 * MaximumId + 1

Numbers == {MaximumId, MaximumId + 1, LargestId, LargestId + 1}

\* A call is the action, how it names its target, and that target. "digits" is a text that
\* is a number, "text" any other. What names two targets is called with one of them and the
\* default of the other.
Calls ==
    ({"FocusWorkspace"} \X {"id"} \X {n \in Numbers : n <= LargestId})
    \cup ({"MoveWindowToWorkspace"} \X {"window"} \X {n \in Numbers : n <= LargestId})
    \cup ({"SwitchLayout"} \X {"index"} \X {-1, MaximumIndex, MaximumIndex + 1})
    \cup ({"FocusWorkspace", "SpawnSh"} \X {"name"} \X {"", "a"})
    \cup ({"FocusWorkspace", "FocusWindow"} \X {"digits"} \X Numbers)
    \cup ({"FocusWorkspace", "FocusWindow"} \X {"text"} \X {"", "a"})
    \cup ({"OpenOverview"} \X {"none"} \X {""})

-----------------------------------------------------------------------------
(* Arguments. *)

IsAddressableId(id) == id <= MaximumId

IsIndex(n) == 0 <= n /\ n <= MaximumIndex

\* The ids a text stands for: one at most.
IdFromText(how, text) == {id \in {text} : how = "digits" /\ id <= LargestId}

\* The cast to a signed integer.
IdValue(id) == IF id <= MaximumId THEN id ELSE id - (LargestId + 1)

\* Mutant: an id that is not asked whether it can be written.
EncodedUnasked(how, target) ==
    CASE how = "none" -> {target}
      [] how = "name" -> {target} \ {""}
      [] how = "index" -> {n \in {target} : IsIndex(n)}
      [] how \in {"id", "window"} -> {IdValue(target)}
      [] how \in {"digits", "text"} -> {IdValue(id) : id \in IdFromText(how, target)}

\* What is sent as the target; nothing for a target that is refused here.
Encoded(how, target) ==
    CASE how = "none" -> {target}
      [] how = "name" -> {target} \ {""}
      [] how = "index" -> {n \in {target} : IsIndex(n)}
      [] how \in {"id", "window"} -> {IdValue(id) : id \in {n \in {target} : IsAddressableId(n)}}
      [] how \in {"digits", "text"} ->
             {IdValue(id) : id \in {n \in IdFromText(how, target) : IsAddressableId(n)}}

-----------------------------------------------------------------------------
(* Requests and results. *)

Outcome == {"handled", "refused", "notDelivered", "unexpected"}

ClassifyReply(reply) ==
    IF reply = "good" THEN {"handled"} ELSE {"refused", "unexpected"}

Waiting == {ipc.pending[i].id : i \in Pending("Action")}

\* The calls whose requests are no longer pending are told: of the request that has been
\* answered, the outcome of its reply, of any other that its connection is gone. performed
\* are the requests niri says in this dispatch it has performed, a ghost.
Conclude(asked, answered, outcome, performed) ==
    actions' = [asked |-> [id \in DOMAIN asked \cap Waiting' |-> asked[id]],
                told |-> {[outcome |-> IF id \in answered THEN outcome ELSE "notDelivered",
                           performed |-> id \in performed] :
                             id \in DOMAIN asked \ Waiting'}]

Lost(asked) == Conclude(asked, {}, "notDelivered", {})

\* refuse, from any call.
RefuseCall(call) ==
    /\ Encoded(call[2], call[3]) = {}
    /\ actions' = [actions EXCEPT !.told = {[outcome |-> "notDelivered", performed |-> FALSE]}]
    /\ UNCHANGED ipc

\* dispatch, whose request may find the connection gone.
Dispatch(call) ==
    /\ Len(ipc.pending) < MaxPending /\ Len(ipc.wire) < MaxPending
    /\ Cardinality(DOMAIN actions.asked) < MaxAsked
    /\ ipc' = Send(ipc, "Action")
    /\ \E sent \in Encoded(call[2], call[3]) :
          Lost([id \in DOMAIN actions.asked \cup {FreshId(ipc)} |->
                   IF id = FreshId(ipc) THEN [call |-> call, sent |-> [call EXCEPT ![3] = sent]]
                   ELSE actions.asked[id]])

Act == \E call \in Calls : RefuseCall(call) \/ Dispatch(call)

\* A reply is read; niri has performed what it answers well.
ReadResult ==
    \E reply \in {"good", "bad"} :
        /\ ReadReplyAs(reply)
        /\ LET oldest == DOMAIN ipc.pending \cap {1}
               own    == \A i \in oldest : ipc.pending[i].kind = Head(ipc.wire).kind
           IN  \E outcome \in ClassifyReply(IF own THEN reply ELSE "bad") :
                   Conclude(actions.asked, {ipc.pending[i].id : i \in oldest}, outcome,
                            IF reply = "good" THEN {Head(ipc.wire).id} ELSE {})

ConnectionUpset == (Upset \/ CallerSends) /\ Lost(actions.asked)

ActionsInit == IPCInit /\ actions = [asked |-> <<>>, told |-> {}]

ActionsNext == Act \/ ReadResult \/ ConnectionUpset

ActionsSpec == ActionsInit /\ [][ActionsNext]_actionsVars

-----------------------------------------------------------------------------
\* Every call that was sent is waiting for its reply, once; niri is asked for the very
\* target that was named, not for what it wraps to; and a caller is told that niri did
\* what it asked only if niri did, until a reply has been cut off on this connection.
ResultsAreTrue ==
    /\ DOMAIN actions.asked = Waiting
    /\ \A id \in DOMAIN actions.asked : actions.asked[id].sent = actions.asked[id].call
    /\ \A t \in actions.told : t.outcome = "handled" /\ ~ipc.clipped => t.performed

\* Replies find the handlers of their own requests, and so the results their calls.
RepliesFindTheirOwn == OwnReplyUnlessClipped /\ ResultsAreTrue
=============================================================================
