---------------------------- MODULE NiriReconnect ----------------------------
(***************************************************************************)
(* The supervisor that keeps the shell attached to the compositor          *)
(* (src/niri/NiriReconnect) over the two connections it watches: the       *)
(* request connection (NiriIPC) and the event stream (NiriEventStream).    *)
(*                                                                         *)
(* Everything runs on one Qt event loop, and signals are delivered         *)
(* synchronously inside the call that emits them: one action is one        *)
(* dispatch of the event loop with every handler it triggers, so a handler *)
(* is an operator from the supervisor's record to its next one and a       *)
(* dispatch composes them in the order the code calls them.                *)
(*                                                                         *)
(* A connection is "closed", "open", or "hungup": niri has closed its end  *)
(* and the event loop has not read that yet, so isConnected() is still     *)
(* true.                                                                   *)
(***************************************************************************)
EXTENDS Integers, Sequences

CONSTANTS
    FirstDelay, Factor, MaximumDelay,  \* Policy; the jitter is left out
    CountCap,      \* bound: attempt_ and retryCount_ stop counting here
    MaxFaults      \* bound: crashes, drops, refusals and complaints in a behaviour

ASSUME PolicyAssumption ==
    /\ FirstDelay \in Nat
    /\ Factor \in Nat \ {0}
    /\ MaximumDelay \in Nat
    /\ MaxFaults \in Nat

\* Past the cap the delay is MaximumDelay already, so the saturation shows nowhere.
ASSUME CapAssumption ==
    /\ CountCap \in Nat \ {0}
    /\ FirstDelay * Factor^CountCap >= MaximumDelay

VARIABLES
    niri,     \* "up" when the compositor listens on its socket, else "down"
    conn,     \* the two sockets, as the shell's end of them stands
    sup,      \* NiriReconnect's members, with the signals it emitted
    faults    \* how many faults the environment may still cause

vars == <<niri, conn, sup, faults>>

-----------------------------------------------------------------------------
(* The connections. *)

End == {"closed", "open", "hungup"}

\* ack: the answer to "EventStream", until the shell has read it.
Conn == [request : End, stream : End, streaming : BOOLEAN,
         ack : {"none", "asked", "handled", "refused"}]

IsAttached(c) == c.request # "closed" /\ c.streaming

StreamClosed(c) == [c EXCEPT !.stream = "closed", !.streaming = FALSE, !.ack = "none"]

-----------------------------------------------------------------------------
(* The supervisor's handlers. *)

\* Mutant: one step of the backoff charged twice.
CountTwice(n) == IF n < CountCap THEN n + 2 ELSE n

Count(n) == IF n < CountCap THEN n + 1 ELSE n

GrownDelay[n \in Nat] ==
    IF n = 0 THEN FirstDelay
    ELSE IF GrownDelay[n - 1] >= MaximumDelay THEN GrownDelay[n - 1]
    ELSE GrownDelay[n - 1] * Factor

DelayForRetry(n) ==
    IF GrownDelay[n] > MaximumDelay THEN MaximumDelay ELSE GrownDelay[n]

Sup == [running : BOOLEAN, waiting : BOOLEAN,
        retryTimer : BOOLEAN, deadlineTimer : BOOLEAN,
        attachedBefore : BOOLEAN, lossReported : BOOLEAN,
        attempt : 0..CountCap, retryCount : 0..CountCap,
        lastDelay : {0} \cup {DelayForRetry(n) : n \in 0..CountCap},
        told : {"nothing", "attached", "lost"},
        signals : Seq({"started", "attached", "lost"})]

\* signals is what this dispatch has emitted, told the last signal since start().
Emit(s, signal) == [s EXCEPT !.told = signal, !.signals = Append(@, signal)]

ScheduleRetry(s) ==
    IF ~s.running \/ s.waiting THEN s
    ELSE [s EXCEPT !.deadlineTimer = FALSE, !.waiting = TRUE, !.retryTimer = TRUE,
                   !.lastDelay = DelayForRetry(s.retryCount),
                   !.retryCount = Count(@)]

\* Mutant: `lost` for every failed attempt.
NoteLossEveryTime(s, attached) ==
    IF ~s.running \/ attached THEN s
    ELSE IF s.attachedBefore THEN ScheduleRetry(Emit(s, "lost")) ELSE ScheduleRetry(s)

\* `attached` is isAttached() at the moment of the call.
NoteLoss(s, attached) ==
    IF ~s.running \/ attached THEN s
    ELSE IF s.attachedBefore /\ ~s.lossReported
         THEN ScheduleRetry(Emit([s EXCEPT !.lossReported = TRUE], "lost"))
         ELSE ScheduleRetry(s)

\* Mutants: waiting_ left set, lossReported_ not reset.
CheckAttachedStillWaiting(s, attached) ==
    IF ~s.running \/ ~attached THEN s
    ELSE Emit([s EXCEPT !.deadlineTimer = FALSE, !.retryTimer = FALSE,
                        !.attempt = 0, !.retryCount = 0, !.lastDelay = 0,
                        !.attachedBefore = TRUE, !.lossReported = FALSE],
              "attached")

CheckAttachedLossStands(s, attached) ==
    IF ~s.running \/ ~attached THEN s
    ELSE Emit([s EXCEPT !.deadlineTimer = FALSE, !.retryTimer = FALSE, !.waiting = FALSE,
                        !.attempt = 0, !.retryCount = 0, !.lastDelay = 0,
                        !.attachedBefore = TRUE],
              "attached")

CheckAttached(s, attached) ==
    IF ~s.running \/ ~attached THEN s
    ELSE Emit([s EXCEPT !.deadlineTimer = FALSE, !.retryTimer = FALSE, !.waiting = FALSE,
                        !.attempt = 0, !.retryCount = 0, !.lastDelay = 0,
                        !.attachedBefore = TRUE, !.lossReported = FALSE],
              "attached")

\* NiriIPC::connectToCompositor: abort() reports the drop of a socket that was
\* up, then the dial is accepted or refused before the call returns.
DialRequest(s, c, accepted) ==
    LET aborted == IF c.request # "closed" THEN NoteLoss(s, FALSE) ELSE s
    IN  IF accepted THEN CheckAttached(aborted, c.streaming)
        ELSE NoteLoss(aborted, FALSE)

\* NiriEventStream::connectToCompositor. A refusal reaches the supervisor twice
\* (streamFailed, transportError); the second finds the retry scheduled.
DialStream(s, c, accepted) ==
    LET aborted == IF c.stream # "closed" THEN NoteLoss(s, FALSE) ELSE s
    IN  IF accepted THEN aborted ELSE NoteLoss(aborted, FALSE)

Dialled(acceptedRequest, acceptedStream) ==
    [request |-> IF acceptedRequest THEN "open" ELSE "closed",
     stream |-> IF acceptedStream THEN "open" ELSE "closed",
     streaming |-> FALSE,
     ack |-> IF acceptedStream THEN "asked" ELSE "none"]

\* niri refuses both dials while it is down; refusing one of them is niri going
\* away or coming back between the two, which costs a fault.
Listening(acceptedRequest, acceptedStream) ==
    \/ /\ acceptedRequest = acceptedStream
       /\ acceptedRequest <=> niri = "up"
       /\ UNCHANGED faults
    \/ /\ acceptedRequest # acceptedStream
       /\ niri = "up" /\ faults > 0
       /\ faults' = faults - 1

\* A locator that finds no socket, and the dial of both sockets.
NoSocketFound(s) ==
    /\ sup' = ScheduleRetry([s EXCEPT !.attempt = Count(@)])
    /\ UNCHANGED <<conn, faults>>

DialBoth(s, acceptedRequest, acceptedStream) ==
    LET begun     == [s EXCEPT !.attempt = Count(@)]
        requested == DialRequest(begun, conn, acceptedRequest)
        streamed  == DialStream(requested, conn, acceptedStream)
    IN  /\ sup' = [streamed EXCEPT !.deadlineTimer = TRUE]
        /\ conn' = Dialled(acceptedRequest, acceptedStream)

AttemptAttach(s0) ==
    LET s == [s0 EXCEPT !.retryTimer = FALSE, !.waiting = FALSE]
    IN  \/ /\ IsAttached(conn)
           /\ sup' = CheckAttached(s, TRUE)
           /\ UNCHANGED <<conn, faults>>
        \/ /\ ~IsAttached(conn)
           /\ niri = "down"
           /\ NoSocketFound(s)
        \/ /\ ~IsAttached(conn)
           /\ \E acceptedRequest, acceptedStream \in BOOLEAN :
                  /\ Listening(acceptedRequest, acceptedStream)
                  /\ DialBoth(s, acceptedRequest, acceptedStream)

-----------------------------------------------------------------------------
(* The event loop's dispatches. *)

\* The supervisor's record at the start of a dispatch, nothing emitted yet.
Fresh == [sup EXCEPT !.signals = <<>>]

\* start(), by a shell that is not supervising already. "started" marks it in
\* signals; it is no signal of the code's.
Start ==
    /\ ~sup.running
    /\ AttemptAttach([Fresh EXCEPT !.running = TRUE, !.attachedBefore = FALSE,
                                   !.lossReported = FALSE, !.attempt = 0,
                                   !.retryCount = 0, !.lastDelay = 0,
                                   !.told = "nothing", !.signals = <<"started">>])
    /\ UNCHANGED niri

Stop ==
    /\ sup.running
    /\ sup' = [Fresh EXCEPT !.running = FALSE, !.waiting = FALSE,
                            !.retryTimer = FALSE, !.deadlineTimer = FALSE]
    /\ UNCHANGED <<niri, conn, faults>>

RetryTimeout ==
    /\ sup.retryTimer
    /\ AttemptAttach(Fresh)
    /\ UNCHANGED niri

DeadlineTimeout ==
    /\ sup.deadlineTimer
    /\ sup' = ScheduleRetry([Fresh EXCEPT !.deadlineTimer = FALSE])
    /\ UNCHANGED <<niri, conn, faults>>

\* The subscription's answer is read: "Handled" starts the stream, anything else
\* is NiriEventStream::fail.
ReadHandled ==
    /\ conn.ack = "handled"
    /\ conn' = [conn EXCEPT !.streaming = TRUE, !.ack = "none"]
    /\ sup' = CheckAttached(Fresh, IsAttached(conn'))
    /\ UNCHANGED <<niri, faults>>

ReadRefused ==
    /\ conn.ack = "refused"
    /\ conn' = StreamClosed(conn)
    /\ sup' = NoteLoss(Fresh, FALSE)
    /\ UNCHANGED <<niri, faults>>

\* End of file on the request connection: errorOccurred reaches the supervisor
\* while the socket still counts as connected, then disconnected does.
RequestClosed ==
    /\ conn.request = "hungup"
    /\ conn' = [conn EXCEPT !.request = "closed"]
    /\ sup' = NoteLoss(NoteLoss(Fresh, IsAttached(conn)), FALSE)
    /\ UNCHANGED <<niri, faults>>

\* Mutant: the stream's disconnected is not connected to the supervisor.
EventStreamClosedUnheard ==
    /\ conn.stream = "hungup"
    /\ conn.ack \notin {"handled", "refused"}
    /\ conn' = StreamClosed(conn)
    /\ sup' = Fresh
    /\ UNCHANGED <<niri, faults>>

\* End of file on the event stream, after what was buffered has been read.
EventStreamClosed ==
    /\ conn.stream = "hungup"
    /\ conn.ack \notin {"handled", "refused"}
    /\ conn' = StreamClosed(conn)
    /\ sup' = NoteLoss(Fresh, FALSE)
    /\ UNCHANGED <<niri, faults>>

\* A live connection complains: a request reply nobody asked for or one that is
\* oversized leaves the socket up, an oversized event ends the stream.
RequestComplaint ==
    /\ conn.request # "closed"
    /\ faults > 0
    /\ sup' = NoteLoss(Fresh, IsAttached(conn))
    /\ faults' = faults - 1
    /\ UNCHANGED <<niri, conn>>

EventStreamFailed ==
    /\ conn.streaming
    /\ faults > 0
    /\ conn' = StreamClosed(conn)
    /\ sup' = NoteLoss(Fresh, FALSE)
    /\ faults' = faults - 1
    /\ UNCHANGED niri

-----------------------------------------------------------------------------
(* The compositor. *)

HangUp(end) == IF end = "open" THEN "hungup" ELSE end

Crash ==
    /\ niri = "up" /\ faults > 0
    /\ niri' = "down"
    /\ conn' = [conn EXCEPT !.request = HangUp(@), !.stream = HangUp(@)]
    /\ sup' = Fresh
    /\ faults' = faults - 1

Restart ==
    /\ niri = "down"
    /\ niri' = "up"
    /\ sup' = Fresh
    /\ UNCHANGED <<conn, faults>>

DropConnection ==
    /\ faults > 0
    /\ \/ /\ conn.request = "open"
          /\ conn' = [conn EXCEPT !.request = "hungup"]
       \/ /\ conn.stream = "open"
          /\ conn' = [conn EXCEPT !.stream = "hungup"]
    /\ sup' = Fresh
    /\ faults' = faults - 1
    /\ UNCHANGED niri

Acknowledge ==
    /\ conn.stream = "open" /\ conn.ack = "asked"
    /\ conn' = [conn EXCEPT !.ack = "handled"]
    /\ sup' = Fresh
    /\ UNCHANGED <<niri, faults>>

Refuse ==
    /\ conn.stream = "open" /\ conn.ack = "asked" /\ faults > 0
    /\ conn' = [conn EXCEPT !.ack = "refused"]
    /\ sup' = Fresh
    /\ faults' = faults - 1
    /\ UNCHANGED niri

-----------------------------------------------------------------------------
Init ==
    /\ niri \in {"up", "down"}
    /\ conn = Dialled(FALSE, FALSE)
    /\ sup = [running |-> FALSE, waiting |-> FALSE,
              retryTimer |-> FALSE, deadlineTimer |-> FALSE,
              attachedBefore |-> FALSE, lossReported |-> FALSE,
              attempt |-> 0, retryCount |-> 0, lastDelay |-> 0,
              told |-> "nothing", signals |-> <<>>]
    /\ faults = MaxFaults

EventLoop ==
    \/ RetryTimeout \/ DeadlineTimeout
    \/ ReadHandled \/ ReadRefused
    \/ RequestClosed \/ EventStreamClosed
    \/ RequestComplaint \/ EventStreamFailed

Environment == Crash \/ Restart \/ DropConnection \/ Acknowledge \/ Refuse

Next == Start \/ Stop \/ EventLoop \/ Environment

Spec == Init /\ [][Next]_vars

\* The event loop dispatches whatever stays ready, and a compositor that is up
\* answers the subscription. An attempt may be cut before its answer is read, by
\* the deadline or by a retry, but not for ever: the waits grow to MaximumDelay
\* and the answer of a local socket takes less (strong fairness of its reading).
\* Nothing makes niri come back, or start() be called.
Fairness ==
    /\ WF_vars(RetryTimeout)
    /\ WF_vars(DeadlineTimeout)
    /\ SF_vars(ReadHandled)
    /\ WF_vars(ReadRefused)
    /\ WF_vars(RequestClosed)
    /\ WF_vars(EventStreamClosed)
    /\ WF_vars(Acknowledge)

FairSpec == Spec /\ Fairness

-----------------------------------------------------------------------------
(* Properties. *)

\* The types of the sockets' and the supervisor's state.
TypeOK ==
    /\ niri \in {"up", "down"}
    /\ conn \in Conn
    /\ sup \in Sup
    /\ faults \in 0..MaxFaults

\* A supervisor that is running and not attached always has a timer that will
\* act: no path through the nested handlers of a loss, of an aborted dial or of
\* a dial that fails at once leaves the shell detached with nothing pending.
NeverStranded ==
    sup.running /\ ~IsAttached(conn) => sup.retryTimer \/ sup.deadlineTimer

\* While attached nothing of the attempt survives: no timer that would tear the
\* link down later, no attempt counted ("0 while attached", NiriReconnect.h).
SettledWhileAttached ==
    sup.running /\ IsAttached(conn) =>
        ~sup.retryTimer /\ ~sup.waiting /\ ~sup.deadlineTimer /\ sup.attempt = 0

\* The timers fit the link: one that will act while it is down, none while it is up.
TimersFit == NeverStranded /\ SettledWhileAttached

\* What the shell was last told is what is so: the last signal since start() is
\* `attached` exactly while both connections stand, whichever of them dropped,
\* in whichever order the drops were noticed.
ToldTheTruth ==
    sup.running => (IsAttached(conn) <=> sup.told = "attached")

\* `attached` and `lost` take turns, also within one dispatch: no outage is
\* announced twice over, none ends unannounced.
SignalsAlternate ==
    [][LET run == <<sup.told>> \o sup'.signals
       IN  \A i \in 1..Len(run) - 1 : run[i] # run[i + 1]]_vars

\* Once niri stays up with the supervisor running, the shell gets attached and
\* stays so (the faults of a behaviour are finitely many).
Reattaches ==
    <>[](niri = "up" /\ sup.running) => <>[](IsAttached(conn))
=============================================================================
