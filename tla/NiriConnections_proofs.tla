---------------------- MODULE NiriConnections_proofs ----------------------
(***************************************************************************)
(* The safety of the supervisor, for every backoff policy and any number   *)
(* of faults, and of the requests, for any number of probes and callers.   *)
(*                                                                         *)
(* The supervisor: Base is what every handler keeps at every point of a    *)
(* dispatch, nested calls included; Agrees(s, attached) is what holds      *)
(* again when the dispatch ends. Each handler gets a lemma in those terms, *)
(* each dispatch composes the lemmas of the handlers it runs.              *)
(*                                                                         *)
(* The requests: Nearly and Sane are what holds between any two handlers   *)
(* of a dispatch, in terms of what the handlers still to be called owe;    *)
(* Rests is what holds again when none is. A list of requests that is told *)
(* is followed request by request.                                         *)
(***************************************************************************)
EXTENDS MCNiriConnections, SequenceTheorems, FiniteSetTheorems, WellFoundedInduction, TLAPS

-----------------------------------------------------------------------------
(* The supervisor. *)

\* Between any two handlers: the flag and the timer it stands for agree, a
\* stopped supervisor has no timer, and the last signal is the one the two
\* loss flags remember.
Base(s) ==
    /\ s \in Sup
    /\ s.waiting = s.retryTimer
    /\ ~s.running => ~s.retryTimer /\ ~s.deadlineTimer
    /\ s.running => (s.told = "attached" <=> (s.attachedBefore /\ ~s.lossReported))

\* At the end of a dispatch, with `attached` the state of the link.
Agrees(s, attached) ==
    /\ Base(s)
    /\ s.running => (attached <=> s.told = "attached")
    /\ s.running /\ ~attached => s.retryTimer \/ s.deadlineTimer
    /\ s.running /\ attached =>
           ~s.retryTimer /\ ~s.waiting /\ ~s.deadlineTimer /\ s.attempt = 0

\* A subscription needs its socket: once the stream is closed nothing streams
\* and no answer is left to read. The answer comes before the stream.
ConnOK(c) ==
    /\ c \in Conn
    /\ c.streaming \/ c.ack # "none" => c.stream # "closed"
    /\ c.ack # "none" => ~c.streaming

IInv ==
    /\ niri \in {"up", "down"}
    /\ ConnOK(conn)
    /\ faults \in 0..MaxFaults
    /\ Agrees(sup, IsAttached(conn))

-----------------------------------------------------------------------------
(* The handlers. *)

\* Emitting a signal keeps the record's type and touches no other field.
LEMMA EmitSup ==
    ASSUME NEW s \in Sup, NEW signal \in {"attached", "lost"}
    PROVE  LET r == Emit(s, signal)
           IN  /\ r \in Sup
               /\ r.told = signal
               /\ r.running = s.running /\ r.attempt = s.attempt
               /\ r.waiting = s.waiting /\ r.retryTimer = s.retryTimer
               /\ r.deadlineTimer = s.deadlineTimer
               /\ r.attachedBefore = s.attachedBefore
               /\ r.lossReported = s.lossReported
  <1>1. Append(s.signals, signal) \in Seq({"started", "attached", "lost"})
    BY DEF Sup
  <1> QED
    BY <1>1 DEF Emit, Sup

\* scheduleRetry() keeps Base and, in a running supervisor, leaves a retry armed.
LEMMA ScheduleRetryBase ==
    ASSUME NEW s, Base(s)
    PROVE  /\ Base(ScheduleRetry(s))
           /\ ScheduleRetry(s).running = s.running
           /\ ScheduleRetry(s).told = s.told
           /\ s.running => ScheduleRetry(s).retryTimer
  <1>1. CASE ~s.running \/ s.waiting
    BY <1>1 DEF ScheduleRetry, Base, Sup
  <1>2. CASE s.running /\ ~s.waiting
    <2>1. Count(s.retryCount) \in 0..CountCap
      BY CapAssumption DEF Count, Base, Sup
    <2> QED
      BY <1>2, <2>1 DEF ScheduleRetry, Base, Sup
  <1> QED
    BY <1>1, <1>2 DEF Base, Sup

\* A loss with the link down is reported, or has been, and a retry is armed.
LEMMA NoteLossAgrees ==
    ASSUME NEW s, Base(s)
    PROVE  /\ Base(NoteLoss(s, FALSE))
           /\ NoteLoss(s, FALSE).running = s.running
           /\ Agrees(NoteLoss(s, FALSE), FALSE)
  <1>1. CASE ~s.running
    BY <1>1 DEF NoteLoss, Agrees, Base
  <1>2. CASE s.running /\ s.attachedBefore /\ ~s.lossReported
    <2> DEFINE q == [s EXCEPT !.lossReported = TRUE]
               r == Emit(q, "lost")
    <2>3. /\ q \in Sup /\ q.running /\ q.waiting = q.retryTimer
          /\ q.lossReported
      BY <1>2 DEF Base, Sup
    <2>1. Base(r) /\ r.running /\ r.told = "lost"
      <3> HIDE DEF q
      <3>1. r \in Sup /\ r.told = "lost" /\ r.running /\ r.lossReported
            /\ r.waiting = r.retryTimer
        BY <2>3, EmitSup
      <3> QED
        BY <3>1 DEF Base
    <2>2. NoteLoss(s, FALSE) = ScheduleRetry(r)
      BY <1>2 DEF NoteLoss
    <2> HIDE DEF r
    <2> QED
      BY <1>2, <2>1, <2>2, ScheduleRetryBase DEF Agrees
  <1>3. CASE s.running /\ ~(s.attachedBefore /\ ~s.lossReported)
    <2>1. NoteLoss(s, FALSE) = ScheduleRetry(s)
      BY <1>3 DEF NoteLoss
    <2>2. s.told # "attached"
      BY <1>3 DEF Base
    <2> QED
      BY <1>3, <2>1, <2>2, ScheduleRetryBase DEF Agrees
  <1> QED
    BY <1>1, <1>2, <1>3 DEF Base, Sup

\* checkAttached() with the link up settles everything and says so.
LEMMA CheckAttachedAgrees ==
    ASSUME NEW s, Base(s)
    PROVE  /\ CheckAttached(s, FALSE) = s
           /\ CheckAttached(s, TRUE).running = s.running
           /\ Agrees(CheckAttached(s, TRUE), TRUE)
  <1>1. CheckAttached(s, FALSE) = s
    BY DEF CheckAttached
  <1>2. CASE ~s.running
    BY <1>1, <1>2 DEF CheckAttached, Agrees, Base
  <1>3. CASE s.running
    <2> DEFINE q == [s EXCEPT !.deadlineTimer = FALSE, !.retryTimer = FALSE,
                              !.waiting = FALSE, !.attempt = 0, !.retryCount = 0,
                              !.lastDelay = 0, !.attachedBefore = TRUE,
                              !.lossReported = FALSE]
    <2>1. 0 \in 0..CountCap
      BY CapAssumption
    <2>3. s \in Sup
      BY DEF Base
    <2>4. q \in Sup
      BY <2>1, <2>3 DEF Sup
    <2>5. /\ q.running /\ ~q.waiting /\ ~q.retryTimer
          /\ ~q.deadlineTimer /\ q.attempt = 0 /\ q.attachedBefore
          /\ ~q.lossReported
      BY <1>3, <2>3 DEF Sup
    <2>2. CheckAttached(s, TRUE) = Emit(q, "attached")
      BY <1>3 DEF CheckAttached
    <2> HIDE DEF q
    <2> DEFINE r == CheckAttached(s, TRUE)
    <2>6. /\ r \in Sup /\ r.told = "attached" /\ r.running
          /\ ~r.waiting /\ ~r.retryTimer /\ ~r.deadlineTimer
          /\ r.attempt = 0 /\ r.attachedBefore /\ ~r.lossReported
      <3>1. r = Emit(q, "attached")
        BY <2>2
      <3> HIDE DEF r
      <3> QED
        BY <3>1, <2>4, <2>5, EmitSup DEF Sup
    <2> HIDE DEF r
    <2>7. Agrees(r, TRUE)
      BY <2>6 DEF Agrees, Base, Sup
    <2> QED
      BY <1>1, <1>3, <2>6, <2>7 DEF r
  <1> QED
    BY <1>2, <1>3 DEF Base, Sup

-----------------------------------------------------------------------------
(* The dial, and the attempt it is part of. *)

\* A dial of both sockets from a detached link ends detached, reported as such,
\* even when the request connection brings the link up for a moment and the
\* stream's own dial takes it down again.
LEMMA DialAgrees ==
    ASSUME NEW s, Base(s), s.running, s.told # "attached",
           NEW c, ConnOK(c),
           NEW r \in BOOLEAN, NEW t \in BOOLEAN
    PROVE  LET d == DialStream(DialRequest(s, c, r), c, t)
           IN  Base(d) /\ d.running /\ d.told # "attached"
  <1> DEFINE a == IF c.request # "closed" THEN NoteLoss(s, FALSE) ELSE s
  <1>1. Base(a) /\ a.running /\ a.told # "attached"
    BY NoteLossAgrees DEF Agrees
  <1> HIDE DEF a
  <1> DEFINE d == DialRequest(s, c, r)
  <1>2. /\ Base(d) /\ d.running
        /\ d.told = "attached" => c.stream # "closed"
    <2>1. d = IF r THEN CheckAttached(a, c.streaming) ELSE NoteLoss(a, FALSE)
      BY DEF DialRequest, a
    <2>2. CASE r /\ c.streaming
      BY <1>1, <2>1, <2>2, CheckAttachedAgrees DEF Agrees, ConnOK, Conn
    <2>3. CASE r /\ ~c.streaming
      BY <1>1, <2>1, <2>3, CheckAttachedAgrees DEF ConnOK, Conn
    <2>4. CASE ~r
      BY <1>1, <2>1, <2>4, NoteLossAgrees DEF Agrees
    <2> QED
      BY <2>2, <2>3, <2>4
  <1> HIDE DEF d
  <1> DEFINE b == IF c.stream # "closed" THEN NoteLoss(d, FALSE) ELSE d
  <1>3. Base(b) /\ b.running /\ b.told # "attached"
    BY <1>2, NoteLossAgrees DEF Agrees
  <1> HIDE DEF b
  <1>4. DialStream(d, c, t) = IF t THEN b ELSE NoteLoss(b, FALSE)
    BY DEF DialStream, b
  <1>5. LET e == DialStream(d, c, t)
        IN  Base(e) /\ e.running /\ e.told # "attached"
    BY <1>3, <1>4, NoteLossAgrees DEF Agrees
  <1> QED
    BY <1>5 DEF d

\* An attempt, entered with the timers of the link's state or none: the
\* supervisor agrees with the link it leaves.
LEMMA AttemptAttachInv ==
    ASSUME IInv, NEW s0, Base(s0), s0.running,
           s0.told = "attached" => IsAttached(conn),
           AttemptAttach(s0)
    PROVE  /\ ConnOK(conn')
           /\ faults' \in 0..MaxFaults
           /\ Agrees(sup', IsAttached(conn'))
  <1> DEFINE s == [s0 EXCEPT !.retryTimer = FALSE, !.waiting = FALSE]
             b == [s EXCEPT !.attempt = Count(@)]
  <1>1. /\ Base(s) /\ s.running /\ s.told = s0.told
    BY DEF Base, Sup
  <1>2. /\ Base(b) /\ b.running /\ b.told = s0.told
    <2>1. Count(s.attempt) \in 0..CountCap
      BY <1>1, CapAssumption DEF Count, Base, Sup
    <2> HIDE DEF s
    <2> QED
      BY <1>1, <2>1 DEF Base, Sup
  <1> HIDE DEF s
  <1>3. CASE IsAttached(conn) /\ sup' = CheckAttached(s, TRUE)
                              /\ UNCHANGED <<conn, faults>>
    BY <1>1, <1>3, CheckAttachedAgrees DEF IInv
  <1>4. CASE ~IsAttached(conn) /\ NoSocketFound(s)
    <2>1. sup' = ScheduleRetry(b) /\ UNCHANGED <<conn, faults>>
      BY <1>4 DEF NoSocketFound
    <2> HIDE DEF b
    <2> QED
      BY <1>2, <1>4, <2>1, ScheduleRetryBase DEF IInv, Agrees
  <1>5. ASSUME NEW r \in BOOLEAN, NEW t \in BOOLEAN,
               ~IsAttached(conn), DialBoth(s, r, t)
        PROVE  ConnOK(conn') /\ Agrees(sup', IsAttached(conn'))
    <2> DEFINE d == DialStream(DialRequest(b, conn, r), conn, t)
    <2>1. Base(d) /\ d.running /\ d.told # "attached"
      <3> HIDE DEF b
      <3> QED
        BY <1>2, <1>5, DialAgrees DEF IInv
    <2>2. /\ sup' = [d EXCEPT !.deadlineTimer = TRUE]
          /\ conn' = Dialled(r, t)
      BY <1>5 DEF DialBoth
    <2> HIDE DEF d
    <2>3. ConnOK(conn') /\ conn'.streaming = FALSE
      BY <2>2 DEF Dialled, ConnOK, Conn, End
    <2>4. IsAttached(conn') = FALSE
      BY <2>3 DEF IsAttached
    <2>5. Agrees(sup', FALSE)
      BY <2>1, <2>2 DEF Agrees, Base, Sup
    <2> QED
      BY <2>3, <2>4, <2>5
  <1>6. CASE ~IsAttached(conn) /\ \E r, t \in BOOLEAN : Listening(r, t) /\ DialBoth(s, r, t)
    <2>1. PICK r \in BOOLEAN, t \in BOOLEAN : Listening(r, t) /\ DialBoth(s, r, t)
      BY <1>6
    <2>2. faults' \in 0..MaxFaults
      BY <2>1, PolicyAssumption DEF Listening, IInv
    <2> QED
      BY <1>5, <1>6, <2>1, <2>2
  <1> QED
    BY <1>3, <1>4, <1>6 DEF AttemptAttach, s

-----------------------------------------------------------------------------
(* The inductive invariant. *)

\* A dispatch starts from the same record with nothing emitted yet.
LEMMA FreshAgrees ==
    ASSUME IInv
    PROVE  /\ Agrees(Fresh, IsAttached(conn)) /\ Base(Fresh)
           /\ Fresh.running = sup.running /\ Fresh.told = sup.told
  <1>1. <<>> \in Seq({"started", "attached", "lost"})
    OBVIOUS
  <1> QED
    BY <1>1 DEF IInv, Agrees, Base, Sup, Fresh

\* The invariant holds before the supervisor is started.
LEMMA InitIInv == Init => IInv
  <1> SUFFICES ASSUME Init PROVE IInv
    OBVIOUS
  <1>1. sup \in Sup
    <2>1. 0 \in 0..CountCap /\ <<>> \in Seq({"started", "attached", "lost"})
      BY CapAssumption
    <2> QED
      BY <2>1 DEF Init, Sup
  <1>2. ConnOK(conn) /\ conn.streaming = FALSE
    BY DEF Init, Dialled, ConnOK, Conn, End
  <1>3. /\ sup.running = FALSE /\ sup.waiting = FALSE
        /\ sup.retryTimer = FALSE /\ sup.deadlineTimer = FALSE
    BY DEF Init
  <1>4. Agrees(sup, FALSE)
    BY <1>1, <1>3 DEF Agrees, Base
  <1>5. IsAttached(conn) = FALSE
    BY <1>2 DEF IsAttached
  <1>6. niri \in {"up", "down"} /\ faults \in 0..MaxFaults
    BY PolicyAssumption DEF Init
  <1> QED
    BY <1>2, <1>4, <1>5, <1>6 DEF IInv

\* The stream's socket is down, whatever ended it.
LEMMA StreamClosedOK ==
    ASSUME IInv
    PROVE  ConnOK(StreamClosed(conn)) /\ IsAttached(StreamClosed(conn)) = FALSE
  BY DEF IInv, ConnOK, Conn, End, StreamClosed, IsAttached

\* A dispatch that takes the link down and tells the supervisor keeps IInv.
LEMMA LossStep ==
    ASSUME IInv, niri' = niri, faults' \in 0..MaxFaults,
           ConnOK(conn'), IsAttached(conn') = FALSE,
           sup' = NoteLoss(Fresh, FALSE)
    PROVE  IInv'
  <1>1. Agrees(sup', FALSE)
    BY FreshAgrees, NoteLossAgrees
  <1> QED
    BY <1>1 DEF IInv

\* The compositor's own steps leave the supervisor alone and change no end of
\* a connection in a way isConnected() can see.
LEMMA EnvironmentStep ==
    ASSUME IInv, Environment
    PROVE  IInv'
  <1>1. sup' = Fresh
    BY DEF Environment, Crash, Restart, DropConnection, Acknowledge, Refuse
  <1>2. niri' \in {"up", "down"} /\ faults' \in 0..MaxFaults
    BY PolicyAssumption
       DEF IInv, Environment, Crash, Restart, DropConnection, Acknowledge, Refuse
  <1>3. ConnOK(conn') /\ IsAttached(conn') = IsAttached(conn)
    <2>1. CASE Crash
      BY <2>1 DEF Crash, HangUp, IInv, ConnOK, Conn, End, IsAttached
    <2>2. CASE Restart
      BY <2>2 DEF Restart, IInv
    <2>3. CASE DropConnection
      BY <2>3 DEF DropConnection, IInv, ConnOK, Conn, End, IsAttached
    <2>4. CASE Acknowledge
      BY <2>4 DEF Acknowledge, IInv, ConnOK, Conn, End, IsAttached
    <2>5. CASE Refuse
      BY <2>5 DEF Refuse, IInv, ConnOK, Conn, End, IsAttached
    <2> QED
      BY <2>1, <2>2, <2>3, <2>4, <2>5 DEF Environment
  <1>4. Agrees(sup', IsAttached(conn'))
    BY <1>1, <1>3, FreshAgrees
  <1> QED
    BY <1>2, <1>3, <1>4 DEF IInv

\* Every callback of the supervisor keeps the invariant, and so does none.
LEMMA NextIInv == IInv /\ [Next]_vars => IInv'
  <1> SUFFICES ASSUME IInv, [Next]_vars PROVE IInv'
    OBVIOUS
  <1> USE FreshAgrees
  <1>1. CASE Start
    <2> DEFINE s == [Fresh EXCEPT !.running = TRUE, !.attachedBefore = FALSE,
                                  !.lossReported = FALSE, !.attempt = 0,
                                  !.retryCount = 0, !.lastDelay = 0,
                                  !.told = "nothing", !.signals = <<"started">>]
    <2>1. 0 \in 0..CountCap /\ <<"started">> \in Seq({"started", "attached", "lost"})
      BY CapAssumption
    <2>2. s \in Sup
      BY <2>1 DEF Base, Sup
    <2>3. Base(s) /\ s.running /\ s.told # "attached"
      BY <2>2, <1>1 DEF Base, Sup, Start
    <2>4. AttemptAttach(s) /\ UNCHANGED niri
      BY <1>1 DEF Start
    <2> HIDE DEF s
    <2> QED
      BY <2>3, <2>4, AttemptAttachInv DEF IInv
  <1>2. CASE Stop
    BY <1>2 DEF Stop, IInv, Agrees, Base, Sup
  <1>3. CASE RetryTimeout
    <2>1. Fresh.running
      BY <1>3 DEF RetryTimeout, IInv, Agrees, Base
    <2>2. Fresh.told = "attached" => IsAttached(conn)
      BY <2>1 DEF Agrees
    <2> QED
      BY <1>3, <2>1, <2>2, AttemptAttachInv DEF RetryTimeout, IInv
  <1>4. CASE DeadlineTimeout
    <2> DEFINE s == [Fresh EXCEPT !.deadlineTimer = FALSE]
    <2>1. Base(s) /\ s.running /\ s.told = sup.told
      BY <1>4 DEF DeadlineTimeout, IInv, Agrees, Base, Sup
    <2>2. IsAttached(conn) = FALSE
      BY <1>4, <2>1 DEF DeadlineTimeout, IInv, Agrees, Base, Sup, IsAttached, ConnOK, Conn
    <2>3. sup' = ScheduleRetry(s) /\ UNCHANGED <<niri, conn, faults>>
      BY <1>4 DEF DeadlineTimeout
    <2>4. sup.running /\ sup.told # "attached"
      BY <2>1, <2>2 DEF IInv, Agrees, Base
    <2> HIDE DEF s
    <2>5. Agrees(sup', FALSE)
      BY <2>1, <2>3, <2>4, ScheduleRetryBase DEF Agrees
    <2> QED
      BY <2>2, <2>3, <2>5 DEF IInv
  <1>5. CASE ReadHandled
    <2>1. conn' = [conn EXCEPT !.streaming = TRUE, !.ack = "none"]
      BY <1>5 DEF ReadHandled
    <2>2. ConnOK(conn')
      BY <1>5, <2>1 DEF ReadHandled, IInv, ConnOK, Conn
    <2>3. CASE IsAttached(conn') = TRUE
      <3>1. sup' = CheckAttached(Fresh, TRUE)
        BY <1>5, <2>3 DEF ReadHandled
      <3>2. Agrees(sup', TRUE)
        BY <3>1, CheckAttachedAgrees
      <3> QED
        BY <1>5, <2>2, <2>3, <3>2 DEF ReadHandled, IInv
    <2>4. CASE IsAttached(conn') = FALSE
      <3>1. sup' = Fresh
        BY <1>5, <2>4, CheckAttachedAgrees DEF ReadHandled
      <3>2. IsAttached(conn) = FALSE
        BY <2>1, <2>2, <2>4 DEF IInv, IsAttached, ConnOK, Conn
      <3>3. Agrees(sup', FALSE)
        BY <3>1, <3>2
      <3> QED
        BY <1>5, <2>2, <2>4, <3>3 DEF ReadHandled, IInv
    <2> QED
      BY <2>3, <2>4 DEF IsAttached
  <1>6. CASE ReadRefused
    BY <1>6, LossStep, StreamClosedOK DEF ReadRefused, IInv
  <1>7. CASE RequestClosed
    <2> DEFINE s == NoteLoss(Fresh, IsAttached(conn))
    <2>1. Base(s) /\ s.running = sup.running
      <3>1. CASE IsAttached(conn)
        BY <3>1 DEF NoteLoss
      <3>2. CASE ~IsAttached(conn)
        <4>1. IsAttached(conn) = FALSE
          BY <3>2 DEF IsAttached
        <4> QED
          BY <4>1, NoteLossAgrees
      <3> QED
        BY <3>1, <3>2
    <2>2. conn' = [conn EXCEPT !.request = "closed"]
      BY <1>7 DEF RequestClosed
    <2>3. ConnOK(conn')
      BY <2>2 DEF IInv, ConnOK, Conn, End
    <2>4. IsAttached(conn') = FALSE
      BY <2>2 DEF IInv, ConnOK, Conn, IsAttached
    <2>5. sup' = NoteLoss(s, FALSE) /\ UNCHANGED <<niri, faults>>
      BY <1>7 DEF RequestClosed
    <2> HIDE DEF s
    <2>6. Agrees(sup', FALSE)
      BY <2>1, <2>5, NoteLossAgrees
    <2> QED
      BY <2>3, <2>4, <2>5, <2>6 DEF IInv
  <1>8. CASE EventStreamClosed
    BY <1>8, LossStep, StreamClosedOK DEF EventStreamClosed, IInv
  <1>9. CASE RequestComplaint
    <2>1. faults' \in 0..MaxFaults /\ UNCHANGED <<niri, conn>>
      BY <1>9, PolicyAssumption DEF RequestComplaint, IInv
    <2>2. CASE IsAttached(conn)
      BY <1>9, <2>1, <2>2 DEF RequestComplaint, NoteLoss, IInv
    <2>3. CASE ~IsAttached(conn)
      <3>1. IsAttached(conn) = FALSE
        BY <2>3 DEF IsAttached
      <3>2. Agrees(sup', FALSE)
        BY <1>9, <3>1, NoteLossAgrees DEF RequestComplaint
      <3> QED
        BY <2>1, <3>1, <3>2 DEF IInv
    <2> QED
      BY <2>2, <2>3
  <1>10. CASE EventStreamFailed
    <2>1. faults' \in 0..MaxFaults
      BY <1>10, PolicyAssumption DEF EventStreamFailed, IInv
    <2> QED
      BY <1>10, <2>1, LossStep, StreamClosedOK DEF EventStreamFailed, IInv
  <1>11. CASE Environment
    BY <1>11, EnvironmentStep
  <1>12. CASE UNCHANGED vars
    BY <1>12 DEF vars, IInv
  <1> QED
    BY <1>1, <1>2, <1>3, <1>4, <1>5, <1>6, <1>7, <1>8, <1>9, <1>10, <1>11, <1>12
       DEF Next, EventLoop

-----------------------------------------------------------------------------
(* The signals of a dispatch. *)

\* Of what a dispatch has emitted, by a supervisor that had told t before it, no signal
\* repeats the one before, and the last is the one remembered.
Turns(t, s) ==
    LET q == s.signals
    IN  /\ Len(q) >= 1 => q[1] # t
        /\ \A i \in 1..Len(q) - 1 : q[i] # q[i + 1]
        /\ Len(q) = 0 => s.told = t
        /\ Len(q) >= 1 => \/ q[Len(q)] = s.told
                          \/ q[Len(q)] = "started" /\ s.told = "nothing"

\* One more signal, which is not the last again.
LEMMA EmitTurns ==
    ASSUME NEW t, NEW s \in Sup, Turns(t, s), NEW signal \in {"attached", "lost"},
           signal # s.told
    PROVE  Turns(t, Emit(s, signal))
  <1> DEFINE q == s.signals
             r == Emit(s, signal)
             n == Len(q)
  <1>1. q \in Seq({"started", "attached", "lost"}) /\ n \in Nat
    BY LenProperties DEF Sup
  <1>2. r.told = signal /\ r.signals = Append(q, signal)
    BY DEF Emit, Sup
  <1>3. /\ Len(r.signals) = n + 1 /\ r.signals[n + 1] = signal
        /\ \A i \in 1..n : r.signals[i] = q[i]
    BY <1>1, <1>2, AppendProperties
  <1> HIDE DEF r
  <1>4. r.signals[1] # t
    <2>1. CASE n = 0
      BY <1>3, <2>1 DEF Turns
    <2>2. CASE n # 0
      BY <1>1, <1>3, <2>2 DEF Turns
    <2> QED
      BY <2>1, <2>2
  <1>5. \A i \in 1..n : r.signals[i] # r.signals[i + 1]
    <2> SUFFICES ASSUME NEW i \in 1..n
                 PROVE  r.signals[i] # r.signals[i + 1]
      OBVIOUS
    <2>1. CASE i = n
      <3>1. n >= 1 /\ r.signals[i] = q[n] /\ r.signals[i + 1] = signal
        BY <1>1, <1>3, <2>1
      <3>2. q[n] = s.told \/ q[n] = "started"
        BY <3>1 DEF Turns
      <3> QED
        BY <3>1, <3>2
    <2>2. CASE i # n
      <3>1. i \in 1..n - 1 /\ i + 1 \in 1..n
        BY <1>1, <2>2
      <3>2. q[i] # q[i + 1]
        BY <3>1 DEF Turns
      <3> QED
        BY <1>3, <3>1, <3>2
    <2> QED
      BY <2>1, <2>2
  <1>6. Turns(t, r)
    <2>1. (n + 1) - 1 = n /\ n + 1 # 0
      BY <1>1
    <2> QED
      BY <1>2, <1>3, <1>4, <1>5, <2>1 DEF Turns
  <1> QED
    BY <1>6 DEF r

\* A retry emits nothing.
LEMMA ScheduleRetryTurns ==
    ASSUME NEW t, NEW s, Base(s), Turns(t, s)
    PROVE  Turns(t, ScheduleRetry(s))
  <1>1. ScheduleRetry(s).signals = s.signals /\ ScheduleRetry(s).told = s.told
    BY DEF ScheduleRetry, Base, Sup
  <1> QED
    BY <1>1 DEF Turns

\* `lost` is only emitted after `attached`.
LEMMA NoteLossTurns ==
    ASSUME NEW t, NEW s, Base(s), Turns(t, s), NEW attached \in BOOLEAN
    PROVE  Turns(t, NoteLoss(s, attached))
  <1>1. CASE ~s.running \/ attached
    BY <1>1 DEF NoteLoss
  <1>2. CASE s.running /\ ~attached /\ s.attachedBefore /\ ~s.lossReported
    <2> DEFINE q == [s EXCEPT !.lossReported = TRUE]
               r == Emit(q, "lost")
    <2>1. /\ q \in Sup /\ q.running /\ q.waiting = q.retryTimer
          /\ q.lossReported /\ q.told = s.told /\ q.signals = s.signals
      BY <1>2 DEF Base, Sup
    <2>2. s.told = "attached"
      BY <1>2 DEF Base
    <2>3. NoteLoss(s, attached) = ScheduleRetry(r)
      BY <1>2 DEF NoteLoss
    <2> HIDE DEF q
    <2>4. Turns(t, q)
      BY <2>1 DEF Turns
    <2>5. Turns(t, r)
      BY <2>1, <2>2, <2>4, EmitTurns
    <2>6. Base(r)
      <3>1. r \in Sup /\ r.told = "lost" /\ r.running /\ r.lossReported
            /\ r.waiting = r.retryTimer
        BY <2>1, EmitSup
      <3> HIDE DEF r
      <3> QED
        BY <3>1 DEF Base
    <2> HIDE DEF r
    <2> QED
      BY <2>3, <2>5, <2>6, ScheduleRetryTurns
  <1>3. CASE s.running /\ ~attached /\ ~(s.attachedBefore /\ ~s.lossReported)
    <2>1. NoteLoss(s, attached) = ScheduleRetry(s)
      BY <1>3 DEF NoteLoss
    <2> QED
      BY <2>1, ScheduleRetryTurns
  <1> QED
    BY <1>1, <1>2, <1>3

\* `attached` is only emitted where it was not the last.
LEMMA CheckAttachedTurns ==
    ASSUME NEW t, NEW s, Base(s), Turns(t, s), NEW attached \in BOOLEAN,
           s.running /\ attached => s.told # "attached"
    PROVE  Turns(t, CheckAttached(s, attached))
  <1>1. CASE ~s.running \/ ~attached
    BY <1>1 DEF CheckAttached
  <1>2. CASE s.running /\ attached
    <2> DEFINE q == [s EXCEPT !.deadlineTimer = FALSE, !.retryTimer = FALSE,
                              !.waiting = FALSE, !.attempt = 0, !.retryCount = 0,
                              !.lastDelay = 0, !.attachedBefore = TRUE,
                              !.lossReported = FALSE]
    <2>1. 0 \in 0..CountCap /\ s \in Sup
      BY CapAssumption DEF Base
    <2>2. q \in Sup /\ q.told = s.told /\ q.signals = s.signals
      BY <2>1 DEF Sup
    <2>3. CheckAttached(s, attached) = Emit(q, "attached")
      BY <1>2 DEF CheckAttached
    <2> HIDE DEF q
    <2>4. Turns(t, q)
      BY <2>2 DEF Turns
    <2> QED
      BY <1>2, <2>2, <2>3, <2>4, EmitTurns
  <1> QED
    BY <1>1, <1>2

\* A dial of both sockets, each aborted before it.
LEMMA DialTurns ==
    ASSUME NEW t, NEW s, Base(s), Turns(t, s), s.running, s.told # "attached",
           NEW c, ConnOK(c), NEW r \in BOOLEAN, NEW u \in BOOLEAN
    PROVE  Turns(t, DialStream(DialRequest(s, c, r), c, u))
  <1> DEFINE a == IF c.request # "closed" THEN NoteLoss(s, FALSE) ELSE s
  <1>1. Base(a) /\ a.running /\ a.told # "attached" /\ Turns(t, a)
    BY NoteLossAgrees, NoteLossTurns DEF Agrees
  <1> HIDE DEF a
  <1>2. c.streaming \in BOOLEAN
    BY DEF ConnOK, Conn
  <1> DEFINE d == DialRequest(s, c, r)
  <1>3. d = IF r THEN CheckAttached(a, c.streaming) ELSE NoteLoss(a, FALSE)
    BY DEF DialRequest, a
  <1>4. Turns(t, d)
    BY <1>1, <1>2, <1>3, CheckAttachedTurns, NoteLossTurns
  <1>5. Base(d)
    <2>1. CASE r /\ c.streaming
      <3>1. d = CheckAttached(a, TRUE)
        BY <1>2, <1>3, <2>1
      <3> QED
        BY <1>1, <3>1, CheckAttachedAgrees DEF Agrees
    <2>2. CASE r /\ ~c.streaming
      <3>1. d = CheckAttached(a, FALSE)
        BY <1>2, <1>3, <2>2
      <3> QED
        BY <1>1, <3>1, CheckAttachedAgrees
    <2>3. CASE ~r
      BY <1>1, <1>3, <2>3, NoteLossAgrees
    <2> QED
      BY <2>1, <2>2, <2>3
  <1> HIDE DEF d
  <1> DEFINE b == IF c.stream # "closed" THEN NoteLoss(d, FALSE) ELSE d
  <1>6. Base(b) /\ Turns(t, b)
    BY <1>4, <1>5, NoteLossAgrees, NoteLossTurns
  <1> HIDE DEF b
  <1>7. DialStream(d, c, u) = IF u THEN b ELSE NoteLoss(b, FALSE)
    BY DEF DialStream, b
  <1>8. Turns(t, DialStream(d, c, u))
    BY <1>6, <1>7, NoteLossTurns
  <1> QED
    BY <1>8 DEF d

\* An attempt, by a supervisor that has not told of an attach.
LEMMA AttemptAttachTurns ==
    ASSUME IInv, NEW t, NEW s0, Base(s0), Turns(t, s0), s0.running, s0.told # "attached",
           AttemptAttach(s0)
    PROVE  Turns(t, sup')
  <1> DEFINE s == [s0 EXCEPT !.retryTimer = FALSE, !.waiting = FALSE]
             b == [s EXCEPT !.attempt = Count(@)]
  <1>1. Base(s) /\ s.running /\ s.told # "attached" /\ s.told = s0.told /\ s.signals = s0.signals
    BY DEF Base, Sup
  <1>2. Base(b) /\ b.running /\ b.told = s0.told /\ b.signals = s0.signals
    <2>1. Count(s.attempt) \in 0..CountCap
      BY <1>1, CapAssumption DEF Count, Base, Sup
    <2> HIDE DEF s
    <2> QED
      BY <1>1, <2>1 DEF Base, Sup
  <1> HIDE DEF s
  <1> HIDE DEF b
  <1>3. Turns(t, s) /\ Turns(t, b)
    BY <1>1, <1>2 DEF Turns
  <1>4. CASE sup' = CheckAttached(s, TRUE)
    BY <1>1, <1>3, <1>4, CheckAttachedTurns
  <1>5. CASE NoSocketFound(s)
    <2>1. sup' = ScheduleRetry(b)
      BY <1>5 DEF NoSocketFound, b
    <2> QED
      BY <1>2, <1>3, <2>1, ScheduleRetryTurns
  <1>6. CASE \E r, u \in BOOLEAN : DialBoth(s, r, u)
    <2>1. PICK r \in BOOLEAN, u \in BOOLEAN : DialBoth(s, r, u)
      BY <1>6
    <2> DEFINE d == DialStream(DialRequest(b, conn, r), conn, u)
    <2>2. Turns(t, d)
      BY <1>1, <1>2, <1>3, DialTurns DEF IInv
    <2>3. d \in Sup
      BY <1>1, <1>2, DialAgrees DEF IInv, Base
    <2>4. sup' = [d EXCEPT !.deadlineTimer = TRUE]
      BY <2>1 DEF DialBoth, b
    <2> HIDE DEF d
    <2>5. sup'.signals = d.signals /\ sup'.told = d.told
      BY <2>3, <2>4 DEF Sup
    <2> QED
      BY <2>2, <2>5 DEF Turns
  <1> QED
    BY <1>4, <1>5, <1>6 DEF AttemptAttach, s

\* The signals of every dispatch take turns, with the one before it.
LEMMA NextTurns == IInv /\ Next => Turns(sup.told, sup')
  <1> SUFFICES ASSUME IInv, Next PROVE Turns(sup.told, sup')
    OBVIOUS
  <1> DEFINE t == sup.told
  <1>1. Base(Fresh) /\ Fresh.running = sup.running /\ Fresh.told = t /\ Fresh.signals = <<>>
    BY FreshAgrees DEF Fresh, IInv, Agrees, Base, Sup
  <1>2. Len(<<>>) = 0
    OBVIOUS
  <1>3. \A s : s.signals = <<>> /\ s.told = t => Turns(t, s)
    BY <1>2 DEF Turns
  <1>4. Turns(t, Fresh)
    BY <1>1, <1>3
  <1>5. IsAttached(conn) \in BOOLEAN
    BY DEF IsAttached, IInv, ConnOK, Conn
  <1>6. t \in {"nothing", "attached", "lost"}
    BY DEF IInv, Agrees, Base, Sup
  <1>7. CASE Start
    <2> DEFINE s == [Fresh EXCEPT !.running = TRUE, !.attachedBefore = FALSE,
                                  !.lossReported = FALSE, !.attempt = 0,
                                  !.retryCount = 0, !.lastDelay = 0,
                                  !.told = "nothing", !.signals = <<"started">>]
    <2>1. 0 \in 0..CountCap /\ <<"started">> \in Seq({"started", "attached", "lost"})
      BY CapAssumption
    <2>2. s \in Sup /\ s.signals = <<"started">> /\ s.told = "nothing"
      BY <1>1, <2>1 DEF Base, Sup
    <2>3. Base(s) /\ s.running
      BY <1>1, <2>2, <1>7 DEF Base, Sup, Start
    <2>4. AttemptAttach(s)
      BY <1>7 DEF Start
    <2> HIDE DEF s
    <2>5. Turns(t, s)
      <3>1. Len(<<"started">>) = 1 /\ <<"started">>[1] = "started"
        OBVIOUS
      <3> QED
        BY <1>6, <2>2, <3>1 DEF Turns
    <2> QED
      BY <2>2, <2>3, <2>4, <2>5, AttemptAttachTurns
  <1>8. CASE RetryTimeout
    <2>1. Fresh.running /\ Fresh.told # "attached"
      BY <1>1, <1>8 DEF RetryTimeout, IInv, Agrees, Base
    <2> QED
      BY <1>1, <1>4, <1>8, <2>1, AttemptAttachTurns DEF RetryTimeout
  <1>9. CASE DeadlineTimeout
    <2> DEFINE s == [Fresh EXCEPT !.deadlineTimer = FALSE]
    <2>1. s \in Sup /\ s.told = t /\ s.signals = <<>> /\ Base(s)
      BY <1>1 DEF Base, Sup
    <2>2. sup' = ScheduleRetry(s)
      BY <1>9 DEF DeadlineTimeout
    <2> HIDE DEF s
    <2> QED
      BY <1>3, <2>1, <2>2, ScheduleRetryTurns
  <1>10. CASE ReadHandled
    <2>1. IsAttached(conn') \in BOOLEAN /\ (sup.running => t # "attached")
      <3>1. conn.streaming = FALSE
        BY <1>10 DEF ReadHandled, IInv, ConnOK
      <3>2. IsAttached(conn) = FALSE
        BY <3>1 DEF IsAttached
      <3>3. conn' = [conn EXCEPT !.streaming = TRUE, !.ack = "none"]
        BY <1>10 DEF ReadHandled
      <3>4. IsAttached(conn') \in BOOLEAN
        BY <3>3 DEF IsAttached, IInv, ConnOK, Conn
      <3> QED
        BY <3>2, <3>4 DEF IInv, Agrees
    <2>2. sup' = CheckAttached(Fresh, IsAttached(conn'))
      BY <1>10 DEF ReadHandled
    <2> QED
      BY <1>1, <1>4, <2>1, <2>2, CheckAttachedTurns
  <1>11. CASE RequestClosed
    <2>1. sup' = NoteLoss(NoteLoss(Fresh, IsAttached(conn)), FALSE)
      BY <1>11 DEF RequestClosed
    <2>2. Turns(t, NoteLoss(Fresh, IsAttached(conn)))
      BY <1>1, <1>4, <1>5, NoteLossTurns
    <2>3. Base(NoteLoss(Fresh, IsAttached(conn)))
      <3>1. CASE IsAttached(conn)
        BY <1>1, <3>1 DEF NoteLoss
      <3>2. CASE ~IsAttached(conn)
        <4>1. IsAttached(conn) = FALSE
          BY <1>5, <3>2
        <4> QED
          BY <1>1, <4>1, NoteLossAgrees
      <3> QED
        BY <3>1, <3>2
    <2> QED
      BY <2>1, <2>2, <2>3, NoteLossTurns
  <1>12. CASE RequestComplaint
    BY <1>1, <1>4, <1>5, <1>12, NoteLossTurns DEF RequestComplaint
  <1>13. CASE ReadRefused \/ EventStreamClosed \/ EventStreamFailed
    <2>1. sup' = NoteLoss(Fresh, FALSE)
      BY <1>13 DEF ReadRefused, EventStreamClosed, EventStreamFailed
    <2> QED
      BY <1>1, <1>4, <2>1, NoteLossTurns
  <1>14. CASE Environment
    <2>1. sup' = Fresh
      BY <1>14 DEF Environment, Crash, Restart, DropConnection, Acknowledge, Refuse
    <2> QED
      BY <1>4, <2>1
  <1>15. CASE Stop
    <2>1. sup'.signals = <<>> /\ sup'.told = t
      BY <1>1, <1>15 DEF Stop, Base, Sup
    <2> QED
      BY <1>3, <2>1
  <1> QED
    BY <1>7, <1>8, <1>9, <1>10, <1>11, <1>12, <1>13, <1>14, <1>15 DEF Next, EventLoop

-----------------------------------------------------------------------------
(* The theorems. *)

\* The invariant of the supervisor holds in every state that its callbacks reach.
THEOREM InductiveInvariant == Spec => []IInv
  BY InitIInv, NextIInv, PTL DEF Spec

\* Every reachable state is well typed.
THEOREM TypeCorrect == Spec => []TypeOK
  <1>1. IInv => TypeOK
    BY DEF IInv, ConnOK, Agrees, Base, TypeOK
  <1> QED
    BY InductiveInvariant, <1>1, PTL

\* The shell is never left detached with no timer pending, and attached it has put
\* every timer and count of the attempt away: the handlers of NiriReconnect.cpp, each
\* run inside others, leave the timers fitting the link.
THEOREM TimersAlwaysFit == Spec => []TimersFit
  <1>1. IInv => NeverStranded
    BY DEF IInv, Agrees, NeverStranded
  <1>2. IInv => SettledWhileAttached
    BY DEF IInv, Agrees, SettledWhileAttached
  <1>3. IInv => TimersFit
    BY <1>1, <1>2 DEF TimersFit
  <1> QED
    BY InductiveInvariant, <1>3, PTL

\* The last of `attached` and `lost` that a running supervisor emitted describes
\* the link as it is.
THEOREM SignalsAreTrue == Spec => []ToldTheTruth
  <1>1. IInv => ToldTheTruth
    BY DEF IInv, Agrees, ToldTheTruth
  <1> QED
    BY InductiveInvariant, <1>1, PTL
\* `attached` and `lost` take turns, within a dispatch and from one to the next, however
\* the handlers of one loss, abort and dial are nested.
THEOREM SignalsTakeTurns == Spec => SignalsAlternate
  <1>1. IInv /\ [Next]_vars =>
            [LET run == <<sup.told>> \o sup'.signals
             IN  \A i \in 1..Len(run) - 1 : run[i] # run[i + 1]]_vars
    <2> SUFFICES ASSUME IInv, Next
                 PROVE  LET run == <<sup.told>> \o sup'.signals
                        IN  \A i \in 1..Len(run) - 1 : run[i] # run[i + 1]
      OBVIOUS
    <2> DEFINE q == sup'.signals
               run == <<sup.told>> \o q
    <2>1. Turns(sup.told, sup')
      BY NextTurns
    <2>2. q \in Seq({"started", "attached", "lost"}) /\ Len(q) \in Nat
      <3>1. IInv'
        BY NextIInv
      <3> QED
        BY <3>1, LenProperties DEF IInv, Agrees, Base, Sup
    <2>3. /\ Len(run) = Len(q) + 1 /\ run[1] = sup.told
          /\ \A i \in 1..Len(q) : run[i + 1] = q[i]
      <3> HIDE DEF q
      <3> QED
        BY <2>2
    <2> HIDE DEF run, q
    <2>4. \A i \in 1..Len(run) - 1 : run[i] # run[i + 1]
      <3> SUFFICES ASSUME NEW i \in 1..Len(q)
                   PROVE  run[i] # run[i + 1]
        BY <2>2, <2>3
      <3>1. CASE i = 1
        BY <2>1, <2>2, <2>3, <3>1 DEF Turns, q
      <3>2. CASE i # 1
        <4>1. i - 1 \in 1..Len(q) - 1 /\ (i - 1) + 1 = i /\ i - 1 \in 1..Len(q)
          BY <2>2, <3>2
        <4>2. q[i - 1] # q[(i - 1) + 1]
          BY <2>1, <4>1 DEF Turns, q
        <4> QED
          BY <2>3, <4>1, <4>2
      <3> QED
        BY <3>1, <3>2
    <2> QED
      BY <2>4 DEF run, q
  <1> QED
    BY <1>1, InductiveInvariant, PTL DEF Spec, SignalsAlternate

-----------------------------------------------------------------------------
(* The request connection, and what the shell asks over it.                  *)

Kinds(s, kind) == {i \in DOMAIN s : s[i].kind = kind}

\* The requests of NiriActions among those of s.
Acts(s) == {s[i].id : i \in Kinds(s, "Action")}

OnlyOnce(s) == \A i \in DOMAIN s : s[i].kind = "Once"

\* The requests that have not been told are the pending ones and those in others, the
\* requests whose handlers this dispatch has yet to call.
Queued(m, others) ==
    /\ m \in IPC /\ IsFiniteSet(m.owed)
    /\ m.owed = Ids(m.pending) \cup others
    /\ \A i \in DOMAIN m.pending : m.pending[i].id \notin others
    /\ \A i, j \in DOMAIN m.pending : m.pending[i].id = m.pending[j].id => i = j
    /\ \A i \in DOMAIN m.pending : m.pending[i].written <=> m.link # "closed"

\* A reply for each request while niri is there, unless one was cut off.
Paired(m) ==
    /\ m.link \in {"closed", "failing"} => m.wire = <<>>
    /\ ~m.clipped =>
          /\ \A i \in DOMAIN m.wire : i \in DOMAIN m.pending /\ m.pending[i].id = m.wire[i].id
          /\ m.link = "open" => Len(m.wire) = Len(m.pending)

Verdict == {"versionDetected", "detectionFailed"}

\* Of the detections: version says that a Version, and probes how many probes, are among
\* the others or have yet to be sent by a handler that is running.
Detects(m, version, probes) ==
    LET versions == Kinds(m.pending, "Version")
        ahead == Cardinality(Kinds(m.pending, "Probe")) + probes
    IN  /\ \A i \in versions :
              /\ m.link # "closed"
              /\ \A j \in versions : j = i
              /\ \A j \in Kinds(m.pending, "Probe") : j < i
        /\ version => versions = {} /\ Kinds(m.pending, "Probe") = {}
        /\ version \/ versions # {} => \A i \in DOMAIN m.heard : m.heard[i] \notin Verdict
        /\ ~ \E i, j \in DOMAIN m.heard :
                m.heard[i] = "versionDetected" /\ m.heard[j] = "detectionFailed"
        /\ m.detecting => version \/ versions # {} \/ m.probesLeft \in 1..ahead
        /\ 1 - Probes + ahead <= m.probesLeft /\ m.probesLeft <= Probes

\* Between two handlers of a dispatch; the requests of NiriActions are among acts.
Nearly(m, acts, others, version, probes) ==
    /\ Queued(m, others) /\ Paired(m) /\ Detects(m, version, probes)
    /\ Acts(m.pending) \subseteq acts

Sane(m, acts, others, version, probes) ==
    /\ Nearly(m, acts, others, version, probes)
    /\ probes # 0 => Kinds(m.pending, "Version") = {}

\* Without a connection there are at most so many probes on the list.
AtMost(m, count) == m.link = "closed" => Cardinality(Kinds(m.pending, "Probe")) <= count

\* Between two dispatches. A detection that ended in the middle of its probes has left
\* some of them, but one fewer than the next one will send.
Rests(m, acts) ==
    /\ Sane(m, acts, {}, FALSE, 0)
    /\ m.link # "failing" /\ AtMost(m, Probes - 1)

IPCInv == Rests(ipc, Waiting)

\* The order of the naturals.
Below == {pair \in Nat \X Nat : pair[1] < pair[2]}

\* A set of naturals that has an element has a least one: what takes the place of
\* induction, by the least number for which a statement fails.
LEMMA Least ==
    ASSUME NEW S, S \subseteq Nat, S # {}
    PROVE  \E m \in S : \A n \in S : m <= n
  <1>1. IsWellFoundedOn(Below, Nat)
    BY NatLessThanWellFounded, Zenon DEF OpToRel, Below
  <1>2. \E m \in S : \A n \in S : <<n, m>> \notin Below
    BY <1>1, WFMin
  <1>3. \E m \in S : \A n \in S : ~(n < m)
    BY <1>2 DEF Below
  <1> QED
    BY <1>3

\* The requests of a kind are finitely many, and their number is that of one sequence
\* when all the positions of that kind are.
LEMMA KindsFinite ==
    ASSUME NEW s \in Seq(Request), NEW kind
    PROVE  /\ Kinds(s, kind) \subseteq 1..Len(s) /\ IsFiniteSet(Kinds(s, kind))
           /\ Cardinality(Kinds(s, kind)) \in Nat
           /\ Cardinality(Kinds(s, kind)) = 0 <=> Kinds(s, kind) = {}
  <1>1. Kinds(s, kind) \subseteq 1..Len(s) /\ Len(s) \in Nat
    BY DEF Kinds
  <1>2. IsFiniteSet(1..Len(s))
    BY <1>1, FS_Interval
  <1>3. IsFiniteSet(Kinds(s, kind))
    BY <1>1, <1>2, FS_Subset
  <1> QED
    BY <1>1, <1>3, FS_CardinalityType, FS_EmptySet

\* The names of a sequence are finitely many.
LEMMA IdsFinite ==
    ASSUME NEW T, NEW s \in Seq(T)
    PROVE  IsFiniteSet(Ids(s))
  <1> DEFINE f == [i \in 1..Len(s) |-> s[i].id]
  <1>1. Len(s) \in Nat /\ DOMAIN s = 1..Len(s)
    OBVIOUS
  <1>2. IsFiniteSet(1..Len(s))
    BY <1>1, FS_Interval
  <1>3. IsFiniteSet({f[i] : i \in 1..Len(s)})
    <2>1. f \in [1..Len(s) -> {f[i] : i \in 1..Len(s)}]
      OBVIOUS
    <2>2. f \in Surjection(1..Len(s), {f[i] : i \in 1..Len(s)})
      BY <2>1 DEF Surjection
    <2> HIDE DEF f
    <2> QED
      BY <1>2, <2>2, FS_Surjection
  <1>4. Ids(s) = {f[i] : i \in 1..Len(s)}
    BY <1>1 DEF Ids
  <1> QED
    BY <1>3, <1>4

\* There is always a name that nothing refers to, and FreshId is one.
LEMMA FreshIsFresh ==
    ASSUME NEW m \in IPC, IsFiniteSet(m.owed)
    PROVE  /\ FreshId(m) \in Nat
           /\ FreshId(m) \notin m.owed /\ FreshId(m) \notin Ids(m.wire)
  <1> DEFINE used == m.owed \cup Ids(m.wire)
             n == Cardinality(used) + 1
  <1>1. IsFiniteSet(Ids(m.wire))
    BY IdsFinite DEF IPC
  <1>2. IsFiniteSet(used) /\ Cardinality(used) \in Nat
    BY <1>1, FS_Union, FS_CardinalityType
  <1>3. ~(1..n \subseteq used)
    <2> SUFFICES ASSUME 1..n \subseteq used PROVE FALSE
      OBVIOUS
    <2>1. Cardinality(1..n) <= Cardinality(used)
      <3> HIDE DEF used, n
      <3> QED
        BY <1>2, FS_Subset
    <2>2. Cardinality(1..n) = n
      <3>1. n \in Nat
        BY <1>2
      <3> HIDE DEF n
      <3>2. Cardinality(1..n) = IF 1 > n THEN 0 ELSE n - 1 + 1
        BY <3>1, FS_Interval
      <3> QED
        BY <1>2, <3>1, <3>2 DEF n
    <2> QED
      BY <1>2, <2>1, <2>2
  <1>4. \E i \in 1..n : i \notin used
    BY <1>3
  <1>5. FreshId(m) = CHOOSE i \in 1..n : i \notin used
    BY DEF FreshId
  <1>6. FreshId(m) \in 1..n /\ FreshId(m) \notin used
    <2> HIDE DEF n, used
    <2> QED
      BY <1>4, <1>5, Zenon
  <1>7. n \in Nat
    BY <1>2
  <1> QED
    BY <1>6, <1>7

-----------------------------------------------------------------------------
(* What is written. *)

\* f is what niri owes for the first requests of s.
Replies(f, s, n) ==
    f = [i \in 0..n |-> IF i = 0 THEN <<>>
                        ELSE IF s[i].written THEN f[i - 1]
                        ELSE Append(f[i - 1], Reply(s[i]))]

\* Before the last request is written, those before it are.
LEMMA RepliesToLast ==
    ASSUME NEW s \in Seq(Request), NEW n \in Nat, Len(s) = n + 1,
           \A i \in 1..n : s[i].written, ~s[n + 1].written
    PROVE  RepliesToUnwritten(s) = <<Reply(s[n + 1])>>
  <1> DEFINE g == [i \in 0..n + 1 |-> IF i = n + 1 THEN <<Reply(s[n + 1])>> ELSE <<>>]
  <1>1. ASSUME NEW i \in 0..n + 1
        PROVE  g[i] = IF i = 0 THEN <<>>
                      ELSE IF s[i].written THEN g[i - 1]
                      ELSE Append(g[i - 1], Reply(s[i]))
    <2>1. CASE i = 0
      BY <2>1
    <2>2. CASE i \in 1..n
      <3>1. i - 1 \in 0..n + 1 /\ i - 1 # n + 1 /\ i # n + 1
        BY <2>2
      <3>2. g[i] = <<>> /\ g[i - 1] = <<>>
        BY <3>1
      <3> HIDE DEF g
      <3> QED
        BY <2>2, <3>2
    <2>3. CASE i = n + 1
      <3>1. n \in 0..n + 1 /\ n # n + 1
        OBVIOUS
      <3>2. g[n + 1] = <<Reply(s[n + 1])>> /\ g[n] = <<>>
        BY <3>1
      <3>3. Append(<<>>, Reply(s[n + 1])) = <<Reply(s[n + 1])>>
        OBVIOUS
      <3>4. n + 1 # 0 /\ (n + 1) - 1 = n
        OBVIOUS
      <3> HIDE DEF g
      <3>5. g[n + 1] = IF n + 1 = 0 THEN <<>>
                       ELSE IF s[n + 1].written THEN g[(n + 1) - 1]
                       ELSE Append(g[(n + 1) - 1], Reply(s[n + 1]))
        BY <3>2, <3>3, <3>4
      <3> QED
        BY <2>3, <3>5
    <2> QED
      BY <2>1, <2>2, <2>3
  <1>2. Replies(g, s, n + 1)
    BY <1>1, Zenon DEF Replies
  <1> HIDE DEF g
  <1>3. \E f : Replies(f, s, n + 1)
    BY <1>2
  <1> DEFINE h == CHOOSE f : Replies(f, s, n + 1)
  <1>4. Replies(h, s, n + 1)
    BY <1>3, Zenon
  <1>5. RepliesToUnwritten(s) = h[n + 1]
    BY Zenon DEF RepliesToUnwritten, Replies
  <1> HIDE DEF h
  <1>6. \A i \in 0..n : h[i] = <<>>
    <2> DEFINE Bad == {i \in 0..n : h[i] # <<>>}
    <2> SUFFICES ASSUME Bad # {} PROVE FALSE
      OBVIOUS
    <2>1. PICK i \in Bad : \A j \in Bad : i <= j
      <3>1. Bad \subseteq Nat
        OBVIOUS
      <3> HIDE DEF Bad
      <3> QED
        BY <3>1, Least
    <2>2. i \in 0..n /\ h[i] # <<>>
      OBVIOUS
    <2>3. i # 0
      BY <1>4, <2>2 DEF Replies
    <2>4. i - 1 \in 0..n /\ i \in 1..n
      BY <2>2, <2>3
    <2>5. i - 1 \notin Bad
      <3> HIDE DEF Bad
      <3> QED
        BY <2>1, <2>4
    <2>6. h[i] = h[i - 1]
      BY <1>4, <2>4 DEF Replies
    <2> QED
      BY <2>2, <2>4, <2>5, <2>6
  <1>7. h[n + 1] = Append(h[n], Reply(s[n + 1]))
    BY <1>4 DEF Replies
  <1>8. h[n] = <<>>
    BY <1>6
  <1> QED
    BY <1>5, <1>7, <1>8

\* Before any request is written.
LEMMA RepliesToAll ==
    ASSUME NEW s \in Seq(Request), \A i \in 1..Len(s) : ~s[i].written
    PROVE  RepliesToUnwritten(s) = [i \in 1..Len(s) |-> Reply(s[i])]
  <1> DEFINE n == Len(s)
             all(k) == [i \in 1..k |-> Reply(s[i])]
             g == [k \in 0..n |-> all(k)]
  <1>1. n \in Nat
    OBVIOUS
  <1>2. ASSUME NEW k \in 1..n
        PROVE  Append(all(k - 1), Reply(s[k])) = all(k)
    <2>1. k - 1 \in Nat /\ k \in Nat /\ (k - 1) + 1 = k
      BY <1>1
    <2>2. all(k - 1) \in Seq({Reply(s[i]) : i \in 1..n}) /\ Len(all(k - 1)) = k - 1
      BY <1>1, <2>1
    <2> HIDE DEF n
    <2>3. Append(all(k - 1), Reply(s[k])) =
              [i \in 1..k |-> IF i = k THEN Reply(s[k]) ELSE all(k - 1)[i]]
      BY <2>1, <2>2
    <2>4. \A i \in 1..k : i # k => i \in 1..k - 1
      BY <2>1
    <2> QED
      BY <2>3, <2>4
  <1>3. all(0) = <<>>
    OBVIOUS
  <1>4. ASSUME NEW i \in 0..n
        PROVE  g[i] = IF i = 0 THEN <<>>
                      ELSE IF s[i].written THEN g[i - 1]
                      ELSE Append(g[i - 1], Reply(s[i]))
    <2>1. CASE i = 0
      <3>1. g[0] = all(0)
        BY <1>1
      <3> HIDE DEF g
      <3> QED
        BY <1>3, <2>1, <3>1
    <2>2. CASE i \in 1..n
      <3>1. i - 1 \in 0..n /\ i # 0
        BY <1>1, <2>2
      <3>2. g[i] = all(i) /\ g[i - 1] = all(i - 1)
        BY <3>1
      <3>3. Append(all(i - 1), Reply(s[i])) = all(i)
        BY <1>2, <2>2
      <3>4. ~s[i].written
        BY <2>2
      <3> HIDE DEF g, all
      <3> QED
        BY <3>1, <3>2, <3>3, <3>4
    <2> QED
      BY <1>1, <2>1, <2>2
  <1>5. Replies(g, s, n)
    BY <1>4, Zenon DEF Replies
  <1> HIDE DEF g
  <1> DEFINE h == CHOOSE f : Replies(f, s, n)
  <1>6. Replies(h, s, n)
    BY <1>5, Zenon
  <1>7. RepliesToUnwritten(s) = h[n]
    BY Zenon DEF RepliesToUnwritten, Replies
  <1> HIDE DEF h, all
  <1>8. \A i \in 0..n : h[i] = all(i)
    <2> DEFINE Bad == {i \in 0..n : h[i] # all(i)}
    <2> SUFFICES ASSUME Bad # {} PROVE FALSE
      OBVIOUS
    <2>1. PICK i \in Bad : \A j \in Bad : i <= j
      <3>1. Bad \subseteq Nat
        OBVIOUS
      <3> HIDE DEF Bad
      <3> QED
        BY <3>1, Least
    <2>2. i \in 0..n /\ h[i] # all(i)
      OBVIOUS
    <2>3. i # 0
      <3>1. h[0] = <<>>
        BY <1>1, <1>6 DEF Replies
      <3> QED
        BY <1>3, <2>2, <3>1
    <2>4. i - 1 \in 0..n /\ i \in 1..n
      BY <1>1, <2>2, <2>3
    <2>5. i - 1 \notin Bad
      <3>1. ~(i <= i - 1)
        BY <2>4
      <3> HIDE DEF Bad
      <3> QED
        BY <2>1, <3>1
    <2>6. h[i - 1] = all(i - 1)
      BY <2>4, <2>5
    <2>7. h[i] = Append(h[i - 1], Reply(s[i]))
      <3>1. ~s[i].written
        BY <2>4
      <3> HIDE DEF n
      <3> QED
        BY <1>6, <2>2, <2>3, <3>1 DEF Replies
    <2> QED
      BY <1>2, <2>2, <2>4, <2>6, <2>7
  <1>9. n \in 0..n
    BY <1>1
  <1> QED
    BY <1>7, <1>8, <1>9 DEF all

\* m with one more request, written if there is a connection and then to be replied to.
Joined(m, id, kind) ==
    [m EXCEPT !.pending = Append(@, [id |-> id, kind |-> kind, written |-> (m.link # "closed")]),
              !.owed = @ \cup {id},
              !.wire = IF m.link = "open" THEN Append(@, [id |-> id, kind |-> kind]) ELSE @]

\* A request that is put on the list is the only one to be written.
LEMMA Enqueued ==
    ASSUME NEW m \in IPC, IsFiniteSet(m.owed),
           \A i \in DOMAIN m.pending : m.pending[i].written <=> m.link # "closed",
           NEW kind \in Kind
    PROVE  Enqueue(m, kind) = Joined(m, FreshId(m), kind)
  <1> DEFINE id == FreshId(m)
             r == [id |-> id, kind |-> kind, written |-> FALSE]
             s == Append(m.pending, r)
             x == [m EXCEPT !.pending = s, !.owed = @ \cup {id}]
             k == Len(m.pending)
  <1>1. id \in Nat
    BY FreshIsFresh
  <1>2. Enqueue(m, kind) = FlushPending(x)
    BY DEF Enqueue
  <1> HIDE DEF id
  <1>3. r \in Request /\ r.written = FALSE /\ r.id = id /\ r.kind = kind
    BY <1>1 DEF Request
  <1>4. m.pending \in Seq(Request) /\ m.wire \in Seq(Answer) /\ k \in Nat
    BY DEF IPC
  <1> HIDE DEF r
  <1>5. /\ s \in Seq(Request) /\ Len(s) = k + 1 /\ DOMAIN s = 1..k + 1
        /\ \A i \in 1..k : s[i] = m.pending[i] /\ s[i] \in Request
        /\ s[k + 1] = r
    BY <1>3, <1>4
  <1>6. x.pending = s /\ x.link = m.link /\ x.wire = m.wire
    BY DEF IPC
  <1>7. CASE m.link = "closed"
    <2>1. FlushPending(x) = x
      BY <1>6, <1>7 DEF FlushPending
    <2>2. r = [id |-> id, kind |-> kind, written |-> (m.link # "closed")]
      BY <1>7 DEF r
    <2>3. Joined(m, id, kind) = x
      BY <1>7, <2>2 DEF Joined, IPC
    <2> QED
      BY <1>2, <2>1, <2>3 DEF id
  <1>8. CASE m.link # "closed"
    <2> DEFINE w == [id |-> id, kind |-> kind, written |-> TRUE]
               t == [i \in DOMAIN s |-> [s[i] EXCEPT !.written = TRUE]]
               a == [id |-> id, kind |-> kind]
    <2>1. w \in Request /\ a \in Answer
      BY <1>1 DEF Request, Answer
    <2>2. \A i \in 1..k : t[i] = m.pending[i]
      <3> TAKE i \in 1..k
      <3>1. s[i] = m.pending[i] /\ m.pending[i] \in Request /\ m.pending[i].written = TRUE
        BY <1>4, <1>5, <1>8 DEF Request
      <3>2. [m.pending[i] EXCEPT !.written = TRUE] = m.pending[i]
        BY <3>1 DEF Request
      <3>3. i \in DOMAIN s
        BY <1>4, <1>5
      <3> HIDE DEF s
      <3>4. t[i] = [s[i] EXCEPT !.written = TRUE]
        BY <3>3
      <3> QED
        BY <3>1, <3>2, <3>4
    <2>3. t[k + 1] = w
      <3>1. k + 1 \in DOMAIN s /\ s[k + 1] = r
        BY <1>4, <1>5
      <3> HIDE DEF s
      <3>2. t[k + 1] = [r EXCEPT !.written = TRUE]
        BY <3>1
      <3> QED
        BY <3>2 DEF r
    <2>4. t = Append(m.pending, w)
      <3>1. Append(m.pending, w) = [i \in 1..k + 1 |-> IF i = k + 1 THEN w ELSE m.pending[i]]
        BY <1>4, <2>1
      <3>2. t = [i \in 1..k + 1 |-> t[i]]
        BY <1>5
      <3>3. \A i \in 1..k + 1 : t[i] = IF i = k + 1 THEN w ELSE m.pending[i]
        <4>1. \A i \in 1..k + 1 : i = k + 1 \/ (i \in 1..k /\ i # k + 1)
          BY <1>4
        <4> HIDE DEF t, w
        <4> QED
          BY <2>2, <2>3, <4>1
      <3> HIDE DEF t, w
      <3> QED
        BY <3>1, <3>2, <3>3
    <2>5. RepliesToUnwritten(s) = <<a>>
      <3>1. \A i \in 1..k : s[i].written
        BY <1>4, <1>5, <1>8
      <3>2. ~s[k + 1].written
        BY <1>3, <1>5
      <3>3. RepliesToUnwritten(s) = <<Reply(s[k + 1])>>
        BY <1>4, <1>5, <3>1, <3>2, RepliesToLast
      <3> QED
        BY <1>3, <1>5, <3>3 DEF Reply
    <2>6. m.wire \o <<a>> = Append(m.wire, a)
      BY <1>4, <2>1
    <2>7. w = [id |-> id, kind |-> kind, written |-> (m.link # "closed")]
      BY <1>8
    <2> HIDE DEF t, w, a, s
    <2> DEFINE y == [x EXCEPT !.pending = t,
                              !.wire = IF x.link = "open" THEN @ \o RepliesToUnwritten(x.pending)
                                       ELSE @]
    <2>8. FlushPending(x) = y
      BY <1>6, <1>8 DEF FlushPending, t
    <2>9. y = [m EXCEPT !.pending = t, !.owed = @ \cup {id},
                        !.wire = IF m.link = "open" THEN Append(m.wire, a) ELSE @]
      BY <1>6, <2>5, <2>6 DEF IPC
    <2>10. Joined(m, id, kind) = y
      BY <2>4, <2>7, <2>9 DEF Joined, a
    <2> QED
      BY <1>2, <2>8, <2>10 DEF id
  <1> QED
    BY <1>7, <1>8

\* n is m with one more request.
OneMore(m, n, id, kind) ==
    LET k == Len(m.pending)
    IN  /\ n \in IPC
        /\ n.link = m.link /\ n.clipped = m.clipped /\ n.heard = m.heard
        /\ n.detecting = m.detecting /\ n.probesLeft = m.probesLeft
        /\ n.owed = m.owed \cup {id}
        /\ k \in Nat /\ DOMAIN m.pending = 1..k
        /\ DOMAIN n.pending = 1..k + 1 /\ Len(n.pending) = k + 1
        /\ \A i \in 1..k : n.pending[i] = m.pending[i]
        /\ n.pending[k + 1].id = id /\ n.pending[k + 1].kind = kind
        /\ n.pending[k + 1].written <=> m.link # "closed"
        /\ m.link # "open" => n.wire = m.wire
        /\ m.link = "open" => n.wire = Append(m.wire, [id |-> id, kind |-> kind])

\* The new request is in its place.
LEMMA JoinedIs ==
    ASSUME NEW m \in IPC, NEW id \in Nat, NEW kind \in Kind
    PROVE  OneMore(m, Joined(m, id, kind), id, kind)
  <1> DEFINE written == m.link # "closed"
             r == [id |-> id, kind |-> kind, written |-> written]
             a == [id |-> id, kind |-> kind]
             n == Joined(m, id, kind)
             k == Len(m.pending)
  <1>1. m.pending \in Seq(Request) /\ m.wire \in Seq(Answer) /\ m.owed \subseteq Nat
    BY DEF IPC
  <1>2. written \in BOOLEAN
    OBVIOUS
  <1>3. m.link # "closed" <=> written
    OBVIOUS
  <1>4. n = [m EXCEPT !.pending = Append(@, r), !.owed = @ \cup {id},
                      !.wire = IF m.link = "open" THEN Append(@, a) ELSE @]
    BY DEF Joined
  <1> HIDE DEF written
  <1>5. r \in Request /\ a \in Answer /\ r.id = id /\ r.kind = kind /\ r.written = written
    BY <1>2 DEF Request, Answer
  <1> HIDE DEF r, a
  <1>6. /\ Append(m.pending, r) \in Seq(Request) /\ Append(m.wire, a) \in Seq(Answer)
        /\ k \in Nat /\ Len(Append(m.pending, r)) = k + 1 /\ DOMAIN m.pending = 1..k
        /\ DOMAIN Append(m.pending, r) = 1..k + 1
        /\ \A i \in 1..k : Append(m.pending, r)[i] = m.pending[i]
        /\ Append(m.pending, r)[k + 1] = r
    BY <1>1, <1>5
  <1> HIDE DEF n
  <1>7. /\ n.pending = Append(m.pending, r) /\ n.owed = m.owed \cup {id}
        /\ n.wire = IF m.link = "open" THEN Append(m.wire, a) ELSE m.wire
        /\ n.link = m.link /\ n.clipped = m.clipped /\ n.heard = m.heard
        /\ n.detecting = m.detecting /\ n.probesLeft = m.probesLeft
    BY <1>4 DEF IPC
  <1>8. n \in IPC
    <2>1. m.owed \cup {id} \subseteq Nat
      BY <1>1
    <2> QED
      BY <1>4, <1>6, <2>1 DEF IPC
  <1> QED
    BY <1>3, <1>5, <1>6, <1>7, <1>8 DEF OneMore, n, a

\* The kinds of n's list are those of m's and the new one's.
KindsToo(m, n, id, kind) ==
    LET s == n.pending
        k == Len(m.pending)
    IN  /\ \A other : other # kind => Kinds(s, other) = Kinds(m.pending, other)
        /\ Kinds(s, kind) = Kinds(m.pending, kind) \cup {k + 1}
        /\ Cardinality(Kinds(s, kind)) = Cardinality(Kinds(m.pending, kind)) + 1
        /\ k \in Nat /\ \A other : Kinds(m.pending, other) \subseteq 1..k
        /\ Acts(s) = Acts(m.pending) \cup (IF kind = "Action" THEN {id} ELSE {})

\* The kinds of a list with one more request.
LEMMA KindsJoined ==
    ASSUME NEW m \in IPC, NEW n, NEW id \in Nat, NEW kind \in Kind, OneMore(m, n, id, kind)
    PROVE  KindsToo(m, n, id, kind)
  <1> DEFINE s == n.pending
             q == m.pending
             k == Len(m.pending)
  <1>1. /\ k \in Nat /\ DOMAIN q = 1..k /\ DOMAIN s = 1..k + 1
        /\ \A i \in 1..k : s[i] = q[i]
        /\ s[k + 1].id = id /\ s[k + 1].kind = kind
    BY DEF OneMore
  <1>2. q \in Seq(Request)
    BY DEF IPC
  <1> HIDE DEF q
  <1>3. \A i \in 1..k + 1 : i \in 1..k \/ i = k + 1
    BY <1>1
  <1>4. \A i \in 1..k : i \in 1..k + 1 /\ i # k + 1
    BY <1>1
  <1>5. k + 1 \in 1..k + 1
    BY <1>1
  <1> HIDE DEF s, k
  <1>6. ASSUME NEW other, other # kind
        PROVE  Kinds(s, other) = Kinds(q, other)
    BY <1>1, <1>3, <1>4, <1>6 DEF Kinds
  <1>7. Kinds(s, kind) = Kinds(q, kind) \cup {k + 1}
    BY <1>1, <1>3, <1>4, <1>5 DEF Kinds
  <1>8. \A other : Kinds(q, other) \subseteq 1..k
    BY <1>1 DEF Kinds
  <1>9. Cardinality(Kinds(s, kind)) = Cardinality(Kinds(q, kind)) + 1
    <2>1. IsFiniteSet(Kinds(q, kind))
      BY <1>2, KindsFinite
    <2>2. k + 1 \notin Kinds(q, kind)
      BY <1>4, <1>8
    <2>3. Cardinality(Kinds(q, kind) \cup {k + 1}) = Cardinality(Kinds(q, kind)) + 1
      BY <2>1, <2>2, FS_AddElement
    <2> QED
      BY <1>7, <2>3
  <1>10. Acts(s) = Acts(q) \cup (IF kind = "Action" THEN {id} ELSE {})
    <2>1. \A i \in Kinds(q, "Action") : s[i].id = q[i].id
      BY <1>1, <1>8
    <2>2. CASE kind = "Action"
      <3>1. Kinds(s, "Action") = Kinds(q, "Action") \cup {k + 1}
        BY <1>7, <2>2
      <3> QED
        BY <1>1, <2>1, <2>2, <3>1 DEF Acts
    <2>3. CASE kind # "Action"
      <3>1. Kinds(s, "Action") = Kinds(q, "Action")
        BY <1>6, <2>3
      <3> QED
        BY <2>1, <2>3, <3>1 DEF Acts
    <2> QED
      BY <2>2, <2>3
  <1> QED
    BY <1>1, <1>6, <1>7, <1>8, <1>9, <1>10 DEF KindsToo, q, s, k

\* One more request, of a name that nothing refers to, is among those to be told.
LEMMA QueuedJoined ==
    ASSUME NEW m, NEW others, Queued(m, others),
           NEW n, NEW id \in Nat, id \notin m.owed, NEW kind \in Kind, OneMore(m, n, id, kind)
    PROVE  Queued(n, others)
  <1> DEFINE k == Len(m.pending)
  <1>1. /\ n \in IPC /\ n.link = m.link /\ n.owed = m.owed \cup {id}
        /\ k \in Nat /\ DOMAIN m.pending = 1..k /\ DOMAIN n.pending = 1..k + 1
        /\ \A i \in 1..k : n.pending[i] = m.pending[i]
        /\ n.pending[k + 1].id = id
        /\ n.pending[k + 1].written <=> m.link # "closed"
    BY DEF OneMore
  <1>2. \A i \in 1..k + 1 : i \in 1..k \/ i = k + 1
    BY <1>1
  <1>3. \A i \in 1..k : i \in 1..k + 1 /\ i # k + 1
    BY <1>1
  <1>4. k + 1 \in 1..k + 1
    BY <1>1
  <1> HIDE DEF k
  <1>5. Ids(n.pending) = Ids(m.pending) \cup {id}
    BY <1>1, <1>2, <1>3, <1>4 DEF Ids
  <1>6. n.owed = Ids(n.pending) \cup others /\ IsFiniteSet(n.owed)
    <2>1. IsFiniteSet(m.owed \cup {id})
      BY FS_AddElement DEF Queued
    <2> QED
      BY <1>1, <1>5, <2>1 DEF Queued
  <1>7. \A i \in DOMAIN n.pending : n.pending[i].id \notin others
    BY <1>1, <1>2 DEF Queued
  <1>8. \A i \in 1..k : n.pending[i].id # id
    BY <1>1 DEF Queued, Ids
  <1>9. \A i, j \in DOMAIN n.pending : n.pending[i].id = n.pending[j].id => i = j
    BY <1>1, <1>2, <1>8 DEF Queued
  <1>10. \A i \in DOMAIN n.pending : n.pending[i].written <=> n.link # "closed"
    BY <1>1, <1>2 DEF Queued
  <1> QED
    BY <1>1, <1>6, <1>7, <1>9, <1>10 DEF Queued

\* And it is replied to after the others.
LEMMA PairedJoined ==
    ASSUME NEW m \in IPC, Paired(m),
           NEW n, NEW id \in Nat, NEW kind \in Kind, OneMore(m, n, id, kind)
    PROVE  Paired(n)
  <1> DEFINE k == Len(m.pending)
             a == [id |-> id, kind |-> kind]
             l == Len(m.wire)
  <1>1. /\ n.link = m.link /\ n.clipped = m.clipped
        /\ k \in Nat /\ DOMAIN m.pending = 1..k /\ DOMAIN n.pending = 1..k + 1
        /\ Len(n.pending) = k + 1
        /\ \A i \in 1..k : n.pending[i] = m.pending[i]
        /\ n.pending[k + 1].id = id
        /\ m.link # "open" => n.wire = m.wire
        /\ m.link = "open" => n.wire = Append(m.wire, a)
    BY DEF OneMore
  <1>2. m.wire \in Seq(Answer) /\ l \in Nat /\ DOMAIN m.wire = 1..l
    BY DEF IPC
  <1>3. \A i \in 1..k : i \in 1..k + 1
    BY <1>1
  <1>4. CASE m.link # "open"
    BY <1>1, <1>3, <1>4 DEF Paired
  <1>5. CASE m.link = "open"
    <2>1. /\ Len(n.wire) = l + 1 /\ DOMAIN n.wire = 1..l + 1
          /\ \A i \in 1..l : n.wire[i] = m.wire[i]
          /\ n.wire[l + 1] = a
      <3>1. a \in Answer
        BY DEF Answer
      <3> HIDE DEF a
      <3>2. n.wire = Append(m.wire, a)
        BY <1>1, <1>5
      <3>3. m.wire \in Seq(Answer) /\ l = Len(m.wire)
        BY <1>2
      <3> QED
        BY <3>1, <3>2, <3>3
    <2>2. \A i \in 1..l + 1 : i \in 1..l \/ i = l + 1
      BY <1>2
    <2>3. a.id = id
      OBVIOUS
    <2> HIDE DEF k, l, a
    <2>4. n.link = "open"
      BY <1>1, <1>5
    <2>5. ASSUME ~n.clipped
          PROVE  /\ Len(n.wire) = Len(n.pending)
                 /\ \A i \in DOMAIN n.wire :
                        i \in DOMAIN n.pending /\ n.pending[i].id = n.wire[i].id
      <3>1. l = k /\ \A i \in 1..l : i \in 1..k /\ m.pending[i].id = m.wire[i].id
        BY <1>1, <1>2, <1>5, <2>5 DEF Paired, l, k
      <3>2. Len(n.wire) = Len(n.pending) /\ DOMAIN n.wire = DOMAIN n.pending
        BY <1>1, <2>1, <3>1
      <3>3. ASSUME NEW i \in DOMAIN n.wire
            PROVE  n.pending[i].id = n.wire[i].id
        BY <1>1, <2>1, <2>2, <2>3, <3>1, <3>3
      <3> QED
        BY <3>2, <3>3
    <2> QED
      BY <2>4, <2>5 DEF Paired
  <1> QED
    BY <1>4, <1>5

\* What is sent besides what begins a detection.
Asked == Kind \ {"Version"}

\* What a handler sends is put on the list, and the detection has as much ahead.
LEMMA EnqueueKeeps ==
    ASSUME NEW m, NEW acts, NEW others, NEW version \in BOOLEAN, NEW probes \in Nat,
           Sane(m, acts, others, version, probes),
           NEW kind \in Asked, NEW left \in Nat,
           kind # "Probe" => left = probes,
           kind = "Probe" => probes = left + 1 /\ ~version,
           NEW all, all = acts \cup (IF kind = "Action" THEN {FreshId(m)} ELSE {})
    PROVE  /\ Sane(Enqueue(m, kind), all, others, version, left)
           /\ OneMore(m, Enqueue(m, kind), FreshId(m), kind)
  <1> DEFINE n == Enqueue(m, kind)
             id == FreshId(m)
             more == IF kind = "Action" THEN {id} ELSE {}
  <1>1. /\ Queued(m, others) /\ Paired(m) /\ Detects(m, version, probes)
        /\ Acts(m.pending) \subseteq acts /\ (probes # 0 => Kinds(m.pending, "Version") = {})
        /\ m \in IPC /\ IsFiniteSet(m.owed)
        /\ \A i \in DOMAIN m.pending : m.pending[i].written <=> m.link # "closed"
    BY DEF Sane, Nearly, Queued
  <1>2. kind \in Kind /\ kind # "Version"
    BY DEF Asked
  <1>3. id \in Nat /\ id \notin m.owed
    BY <1>1, FreshIsFresh
  <1>4. n = Joined(m, id, kind)
    BY <1>1, <1>2, Enqueued
  <1>5. OneMore(m, n, id, kind)
    BY <1>1, <1>2, <1>3, <1>4, JoinedIs
  <1> HIDE DEF n, id
  <1>6. Queued(n, others) /\ Paired(n)
    BY <1>1, <1>2, <1>3, <1>5, QueuedJoined, PairedJoined
  <1> DEFINE s == n.pending
             k == Len(m.pending)
  <1>7. /\ \A other : other # kind => Kinds(s, other) = Kinds(m.pending, other)
        /\ Kinds(s, kind) = Kinds(m.pending, kind) \cup {k + 1}
        /\ Cardinality(Kinds(s, kind)) = Cardinality(Kinds(m.pending, kind)) + 1
        /\ k \in Nat /\ \A other : Kinds(m.pending, other) \subseteq 1..k
        /\ Acts(s) = Acts(m.pending) \cup more
    <2>1. m \in IPC
      BY <1>1
    <2>2. id \in Nat
      BY <1>3
    <2> HIDE DEF more, s, k
    <2>3. KindsToo(m, n, id, kind)
      BY <1>2, <1>5, <2>1, <2>2, KindsJoined
    <2> QED
      BY <2>3 DEF KindsToo, more, s, k
  <1> HIDE DEF k
  <1>8. Cardinality(Kinds(m.pending, "Probe")) \in Nat
    BY <1>1, KindsFinite DEF IPC
  <1>9. Kinds(s, "Version") = Kinds(m.pending, "Version")
    BY <1>2, <1>7
  <1>10. Cardinality(Kinds(s, "Probe")) + left = Cardinality(Kinds(m.pending, "Probe")) + probes
    <2>1. CASE kind = "Probe"
      BY <1>7, <1>8, <2>1
    <2>2. CASE kind # "Probe"
      BY <1>7, <1>8, <2>2
    <2> QED
      BY <2>1, <2>2
  <1>11. kind # "Probe" => Kinds(s, "Probe") = Kinds(m.pending, "Probe")
    BY <1>7
  <1>12. kind = "Probe" => Kinds(m.pending, "Version") = {}
    <2>1. kind = "Probe" => probes # 0
      OBVIOUS
    <2> QED
      BY <1>1, <2>1
  <1>13. /\ n.heard = m.heard /\ n.detecting = m.detecting /\ n.probesLeft = m.probesLeft
         /\ n.link = m.link
    BY <1>5 DEF OneMore
  <1>14. Detects(n, version, left)
    <2>1. \A i \in Kinds(s, "Version") :
              /\ n.link # "closed"
              /\ \A j \in Kinds(s, "Version") : j = i
              /\ \A j \in Kinds(s, "Probe") : j < i
      BY <1>1, <1>9, <1>11, <1>12, <1>13, Zenon DEF Detects
    <2>2. version => Kinds(s, "Version") = {} /\ Kinds(s, "Probe") = {}
      BY <1>1, <1>9, <1>11, Zenon DEF Detects
    <2> QED
      BY <1>1, <1>9, <1>10, <1>13, <2>1, <2>2, Zenon DEF Detects
  <1>15. left # 0 => Kinds(s, "Version") = {}
    <2>1. left # 0 => probes # 0
      OBVIOUS
    <2> QED
      BY <1>1, <1>9, <2>1
  <1>16. Acts(s) \subseteq acts \cup more
    BY <1>1, <1>7
  <1>17. all = acts \cup more
    BY DEF id
  <1>18. Sane(n, all, others, version, left)
    BY <1>6, <1>14, <1>15, <1>16, <1>17 DEF Sane, Nearly
  <1> QED
    BY <1>5, <1>18 DEF n, id

-----------------------------------------------------------------------------
(* The handlers. *)

\* What a handler is called with.
Answered == {"good", "bad", "lost"}

\* What was outstanding, and what is when the handler of a request is done but for what
\* it sends.
Leaves(request, reply, version, probes, version2, probes2) ==
    /\ request.kind = "Version" =>
           version /\ ~version2 /\ probes = 0 /\ probes2 = IF reply = "good" THEN Probes ELSE 0
    /\ request.kind # "Version" => (version2 <=> version)
    /\ request.kind = "Probe" => probes = probes2 + 1
    /\ request.kind \notin {"Version", "Probe"} => probes2 = probes

\* n is m but for the detection, and for a request that has been told.
Told(m, n, id) ==
    /\ n \in IPC /\ n.owed = m.owed \ {id}
    /\ n.link = m.link /\ n.pending = m.pending /\ n.wire = m.wire /\ n.clipped = m.clipped

\* A signal at the end of those heard.
LEMMA SaidIs ==
    ASSUME NEW m \in IPC, NEW signal \in Signal
    PROVE  LET n == Say(m, signal)
           IN  /\ n \in IPC /\ n.owed = m.owed /\ n.link = m.link /\ n.pending = m.pending
               /\ n.wire = m.wire /\ n.clipped = m.clipped /\ n.detecting = m.detecting
               /\ n.probesLeft = m.probesLeft
               /\ Len(m.heard) \in Nat /\ DOMAIN m.heard = 1..Len(m.heard)
               /\ DOMAIN n.heard = 1..Len(m.heard) + 1
               /\ \A i \in 1..Len(m.heard) : n.heard[i] = m.heard[i]
               /\ n.heard[Len(m.heard) + 1] = signal
  <1>1. m.heard \in Seq(Signal)
    BY DEF IPC
  <1>2. /\ Append(m.heard, signal) \in Seq(Signal)
        /\ Len(m.heard) \in Nat /\ DOMAIN m.heard = 1..Len(m.heard)
        /\ DOMAIN Append(m.heard, signal) = 1..Len(m.heard) + 1
        /\ \A i \in 1..Len(m.heard) : Append(m.heard, signal)[i] = m.heard[i]
        /\ Append(m.heard, signal)[Len(m.heard) + 1] = signal
    BY <1>1
  <1> QED
    BY <1>2 DEF Say, IPC

\* No verdict among those heard, and not both.
NoVerdict(m) == \A i \in DOMAIN m.heard : m.heard[i] \notin Verdict

NotBoth(m) ==
    ~ \E i, j \in DOMAIN m.heard :
          m.heard[i] = "versionDetected" /\ m.heard[j] = "detectionFailed"

\* The first verdict is the only one.
LEMMA SaidOnce ==
    ASSUME NEW m \in IPC, NEW signal \in Signal, NotBoth(m),
           signal \in Verdict => NoVerdict(m)
    PROVE  /\ NotBoth(Say(m, signal))
           /\ signal \notin Verdict /\ NoVerdict(m) => NoVerdict(Say(m, signal))
  <1> DEFINE n == Say(m, signal)
             k == Len(m.heard)
  <1>1. /\ k \in Nat /\ DOMAIN m.heard = 1..k /\ DOMAIN n.heard = 1..k + 1
        /\ \A i \in 1..k : n.heard[i] = m.heard[i]
        /\ n.heard[k + 1] = signal
    BY SaidIs
  <1> HIDE DEF n
  <1>2. \A i \in 1..k + 1 : i \in 1..k \/ i = k + 1
    BY <1>1
  <1> HIDE DEF k
  <1>3. signal \notin Verdict /\ NoVerdict(m) => NoVerdict(n)
    BY <1>1, <1>2 DEF NoVerdict
  <1>4. NotBoth(n)
    <2>1. CASE signal \in Verdict
      <3>1. \A i \in 1..k : n.heard[i] \notin Verdict
        BY <1>1, <2>1 DEF NoVerdict
      <3>2. \A i \in DOMAIN n.heard : n.heard[i] \in Verdict => n.heard[i] = signal
        BY <1>1, <1>2, <3>1
      <3> QED
        BY <3>2 DEF NotBoth, Verdict
    <2>2. CASE signal \notin Verdict
      <3>1. \A i \in DOMAIN n.heard : n.heard[i] \in Verdict =>
                i \in DOMAIN m.heard /\ n.heard[i] = m.heard[i]
        BY <1>1, <1>2, <2>2
      <3> QED
        BY <3>1 DEF NotBoth, Verdict
    <2> QED
      BY <2>1, <2>2
  <1> QED
    BY <1>3, <1>4 DEF n

\* The end of the probes.
LEMMA FinishedIs ==
    ASSUME NEW m \in IPC, NotBoth(m)
    PROVE  LET n == FinishProbes(m)
           IN  /\ n \in IPC /\ n.owed = m.owed /\ n.link = m.link /\ n.pending = m.pending
               /\ n.wire = m.wire /\ n.clipped = m.clipped
               /\ ~n.detecting /\ n.probesLeft = m.probesLeft
               /\ NotBoth(n) /\ (NoVerdict(m) => NoVerdict(n))
  <1> DEFINE x == [m EXCEPT !.detecting = FALSE]
             y == Say(x, "capabilitiesDetected")
  <1>1. CASE ~m.detecting
    <2>1. FinishProbes(m) = m
      BY <1>1 DEF FinishProbes
    <2> QED
      BY <1>1, <2>1
  <1>2. CASE m.detecting
    <2>1. /\ x \in IPC /\ x.owed = m.owed /\ x.link = m.link /\ x.pending = m.pending
          /\ x.wire = m.wire /\ x.clipped = m.clipped /\ x.heard = m.heard
          /\ x.detecting = FALSE /\ x.probesLeft = m.probesLeft
      BY DEF IPC
    <2>2. FinishProbes(m) = y
      BY <1>2 DEF FinishProbes
    <2>3. NotBoth(x) /\ (NoVerdict(m) => NoVerdict(x))
      BY <2>1 DEF NotBoth, NoVerdict
    <2>4. "capabilitiesDetected" \in Signal /\ "capabilitiesDetected" \notin Verdict
      BY DEF Signal, Verdict
    <2> HIDE DEF x
    <2>5. NotBoth(y) /\ (NoVerdict(x) => NoVerdict(y))
      BY <2>1, <2>3, <2>4, SaidOnce
    <2>6. /\ y \in IPC /\ y.owed = x.owed /\ y.link = x.link /\ y.pending = x.pending
          /\ y.wire = x.wire /\ y.clipped = x.clipped /\ y.detecting = x.detecting
          /\ y.probesLeft = x.probesLeft
      BY <2>1, <2>4, SaidIs
    <2> HIDE DEF y
    <2> QED
      BY <2>1, <2>2, <2>3, <2>5, <2>6
  <1> QED
    BY <1>1, <1>2

\* What is written and pending is in place whatever a handler does to the detection.
LEMMA ToldKeeps ==
    ASSUME NEW m, NEW n, NEW id, NEW others, id \notin others,
           Queued(m, others \cup {id}), Paired(m), Told(m, n, id)
    PROVE  Queued(n, others) /\ Paired(n)
  <1>1. n.owed = Ids(n.pending) \cup others
    <2>1. id \notin Ids(m.pending)
      BY DEF Queued, Ids
    <2> QED
      BY <2>1 DEF Queued, Told
  <1>2. IsFiniteSet(n.owed)
    <2>1. IsFiniteSet(m.owed) /\ n.owed \subseteq m.owed
      BY DEF Queued, Told
    <2> QED
      BY <2>1, FS_Subset
  <1>3. Queued(n, others)
    BY <1>1, <1>2 DEF Queued, Told
  <1>4. Paired(n)
    BY DEF Paired, Told
  <1> QED
    BY <1>3, <1>4

\* The detection after a handler, by what the handler does to it.
LEMMA DetectionGoesOn ==
    ASSUME NEW m, NEW n, NEW request \in Request, NEW reply \in Answered,
           m \in IPC, Told(m, n, request.id),
           NEW version \in BOOLEAN, NEW probes \in Nat,
           NEW version2 \in BOOLEAN, NEW probes2 \in Nat,
           Detects(m, version, probes),
           Leaves(request, reply, version, probes, version2, probes2),
           NotBoth(n), request.kind # "Version" /\ NoVerdict(m) => NoVerdict(n),
           request.kind = "Version" /\ reply = "good" => n.probesLeft = Probes,
           request.kind = "Version" /\ reply # "good" =>
               ~n.detecting /\ n.probesLeft = m.probesLeft,
           request.kind = "Probe" => n.probesLeft = m.probesLeft - 1,
           request.kind = "Probe" /\ m.probesLeft <= 1 => ~n.detecting,
           request.kind = "Probe" /\ m.probesLeft > 1 => n.detecting = m.detecting,
           request.kind \notin {"Version", "Probe"} =>
               n.detecting = m.detecting /\ n.probesLeft = m.probesLeft
    PROVE  Detects(n, version2, probes2)
  <1> DEFINE vs == Kinds(m.pending, "Version")
             ps == Kinds(m.pending, "Probe")
             c == Cardinality(ps)
  <1>1. c \in Nat /\ (c = 0 <=> ps = {})
    BY KindsFinite DEF IPC
  <1>2. m.probesLeft \in Int /\ Probes \in Nat \ {0}
    BY RequestAssumption DEF IPC
  <1>3. n.pending = m.pending /\ n.link = m.link
    BY DEF Told
  <1>4. /\ \A i \in vs : m.link # "closed" /\ (\A j \in vs : j = i) /\ \A j \in ps : j < i
        /\ version => vs = {} /\ ps = {}
        /\ version \/ vs # {} => NoVerdict(m)
        /\ m.detecting => version \/ vs # {} \/ m.probesLeft \in 1..c + probes
        /\ 1 - Probes + (c + probes) <= m.probesLeft /\ m.probesLeft <= Probes
    BY DEF Detects, NoVerdict
  <1> HIDE DEF vs, ps, c
  <1> SUFFICES
        /\ version2 => vs = {} /\ ps = {}
        /\ version2 \/ vs # {} => NoVerdict(n)
        /\ n.detecting => version2 \/ vs # {} \/ n.probesLeft \in 1..c + probes2
        /\ 1 - Probes + (c + probes2) <= n.probesLeft /\ n.probesLeft <= Probes
    BY <1>3, <1>4 DEF Detects, NoVerdict, NotBoth, vs, ps, c
  <1>5. CASE request.kind = "Version"
    <2>1. version /\ ~version2 /\ probes = 0 /\ vs = {} /\ ps = {} /\ c = 0
      BY <1>1, <1>4, <1>5 DEF Leaves
    <2>2. CASE reply = "good"
      <3>1. probes2 = Probes /\ n.probesLeft = Probes
        BY <1>5, <2>2 DEF Leaves
      <3> QED
        BY <1>2, <2>1, <3>1
    <2>3. CASE reply # "good"
      <3>1. probes2 = 0 /\ ~n.detecting /\ n.probesLeft = m.probesLeft
        BY <1>5, <2>3 DEF Leaves
      <3> QED
        BY <1>2, <1>4, <2>1, <3>1
    <2> QED
      BY <2>2, <2>3
  <1>6. CASE request.kind # "Version"
    <2>1. /\ version2 = version
          /\ version2 \/ vs # {} => NoVerdict(n)
      BY <1>4, <1>6 DEF Leaves
    <2>2. CASE request.kind = "Probe"
      <3>1. probes = probes2 + 1 /\ n.probesLeft = m.probesLeft - 1
        BY <2>2 DEF Leaves
      <3>2. 1 - Probes + (c + probes2) <= n.probesLeft /\ n.probesLeft <= Probes
        BY <1>1, <1>2, <1>4, <3>1
      <3>3. n.detecting => version \/ vs # {} \/ n.probesLeft \in 1..c + probes2
        <4> SUFFICES ASSUME n.detecting, ~version, vs = {}
                     PROVE  n.probesLeft \in 1..c + probes2
          OBVIOUS
        <4>1. ~(m.probesLeft <= 1)
          BY <2>2
        <4>2. m.probesLeft > 1
          BY <1>2, <4>1
        <4>3. m.probesLeft \in 1..c + probes
          BY <1>4, <2>2, <4>2
        <4> QED
          BY <1>1, <1>2, <3>1, <4>2, <4>3
      <3> QED
        BY <1>4, <2>1, <3>2, <3>3
    <2>3. CASE request.kind # "Probe"
      <3>1. probes2 = probes /\ n.detecting = m.detecting /\ n.probesLeft = m.probesLeft
        BY <1>6, <2>3 DEF Leaves
      <3> QED
        BY <1>4, <2>1, <3>1
    <2> QED
      BY <2>2, <2>3
  <1> QED
    BY <1>5, <1>6

\* Every handler, up to what it sends.
LEMMA HandledKeeps ==
    ASSUME NEW m, NEW acts, NEW others,
           NEW request \in Request, NEW reply \in Answered,
           NEW version \in BOOLEAN, NEW probes \in Nat,
           NEW version2 \in BOOLEAN, NEW probes2 \in Nat,
           request.id \notin others,
           NEW all, all = others \cup {request.id}, Nearly(m, acts, all, version, probes),
           request.kind # "Version" /\ probes2 # 0 => Kinds(m.pending, "Version") = {},
           Leaves(request, reply, version, probes, version2, probes2)
    PROVE  /\ Sane(Handled(m, request, reply), acts, others, version2, probes2)
           /\ Told(m, Handled(m, request, reply), request.id)
  <1> DEFINE n == Handled(m, request, reply)
             x == [m EXCEPT !.owed = @ \ {request.id}]
  <1>1. /\ m \in IPC /\ Queued(m, others \cup {request.id}) /\ Paired(m)
        /\ Detects(m, version, probes) /\ Acts(m.pending) \subseteq acts
    BY DEF Nearly, Queued
  <1>2. /\ x \in IPC /\ x.owed = m.owed \ {request.id} /\ x.link = m.link
        /\ x.pending = m.pending /\ x.wire = m.wire /\ x.clipped = m.clipped
        /\ x.detecting = m.detecting /\ x.probesLeft = m.probesLeft /\ x.heard = m.heard
    BY <1>1 DEF IPC
  <1>3. NotBoth(x) /\ (NoVerdict(m) => NoVerdict(x))
    BY <1>1, <1>2 DEF NotBoth, NoVerdict, Detects
  <1>4. request.kind = "Version" => NoVerdict(x)
    BY <1>1, <1>2 DEF Leaves, Detects, NoVerdict
  <1>5. /\ m.probesLeft \in Int /\ Probes \in Nat \ {0}
        /\ Cardinality(Kinds(m.pending, "Probe")) \in Nat
    BY <1>1, RequestAssumption, KindsFinite DEF IPC
  <1>6. 1 - Probes + (Cardinality(Kinds(m.pending, "Probe")) + probes) <= m.probesLeft
        /\ m.probesLeft <= Probes
    BY <1>1 DEF Detects
  <1>7. Told(m, n, request.id) /\ Detects(n, version2, probes2)
    <2>1. CASE request.kind = "Version" /\ reply = "good"
      <3> DEFINE y == Say(x, "versionDetected")
      <3>1. "versionDetected" \in Signal
        BY DEF Signal
      <3>2. n = [y EXCEPT !.probesLeft = Probes]
        BY <2>1 DEF Handled, StartProbes
      <3> HIDE DEF x
      <3>3. NotBoth(y)
        BY <1>2, <1>3, <1>4, <2>1, <3>1, SaidOnce
      <3>4. /\ y \in IPC /\ y.owed = x.owed /\ y.link = x.link /\ y.pending = x.pending
            /\ y.wire = x.wire /\ y.clipped = x.clipped
        BY <1>2, <3>1, SaidIs
      <3> HIDE DEF y, n
      <3>5. Probes \in 1 - Probes..Probes
        BY <1>5
      <3>6. /\ n \in IPC /\ n.owed = y.owed /\ n.link = y.link /\ n.pending = y.pending
            /\ n.wire = y.wire /\ n.clipped = y.clipped /\ n.probesLeft = Probes
            /\ n.heard = y.heard
        BY <3>2, <3>4, <3>5 DEF IPC
      <3>7. Told(m, n, request.id)
        BY <1>2, <3>4, <3>6 DEF Told
      <3>8. NotBoth(n)
        BY <3>3, <3>6 DEF NotBoth
      <3>9. m \in IPC /\ Detects(m, version, probes) /\ n.probesLeft = Probes
        BY <1>1, <3>6
      <3>10. Detects(n, version2, probes2)
        BY <2>1, <3>7, <3>8, <3>9, DetectionGoesOn
      <3> QED
        BY <3>7, <3>10
    <2>2. CASE request.kind = "Version" /\ reply # "good"
      <3> DEFINE z == [x EXCEPT !.detecting = FALSE]
                 y == Say(z, "detectionFailed")
      <3>1. "detectionFailed" \in Signal
        BY DEF Signal
      <3>2. n = y
        BY <2>2 DEF Handled
      <3> HIDE DEF x
      <3>3. /\ z \in IPC /\ z.owed = x.owed /\ z.link = x.link /\ z.pending = x.pending
            /\ z.wire = x.wire /\ z.clipped = x.clipped /\ z.detecting = FALSE
            /\ z.probesLeft = x.probesLeft /\ z.heard = x.heard
        BY <1>2 DEF IPC
      <3>4. NotBoth(z) /\ NoVerdict(z)
        BY <1>3, <1>4, <2>2, <3>3 DEF NotBoth, NoVerdict
      <3> HIDE DEF z
      <3>5. NotBoth(y)
        BY <3>1, <3>3, <3>4, SaidOnce
      <3>6. /\ y \in IPC /\ y.owed = z.owed /\ y.link = z.link /\ y.pending = z.pending
            /\ y.wire = z.wire /\ y.clipped = z.clipped /\ y.detecting = z.detecting
            /\ y.probesLeft = z.probesLeft
        BY <3>1, <3>3, SaidIs
      <3> HIDE DEF y, n
      <3>7. Told(m, n, request.id) /\ NotBoth(n) /\ ~n.detecting /\ n.probesLeft = m.probesLeft
        BY <1>2, <3>2, <3>3, <3>5, <3>6 DEF Told
      <3> QED
        BY <1>1, <2>2, <3>7, DetectionGoesOn
    <2>3. CASE request.kind = "Probe"
      <3> DEFINE y == [x EXCEPT !.probesLeft = @ - 1]
      <3>1. m.probesLeft - 1 \in 1 - Probes..Probes
        <4>1. probes = probes2 + 1
          BY <2>3 DEF Leaves
        <4> HIDE DEF x
        <4> QED
          BY <1>5, <1>6, <4>1
      <3> HIDE DEF x
      <3>2. /\ y \in IPC /\ y.owed = x.owed /\ y.link = x.link /\ y.pending = x.pending
            /\ y.wire = x.wire /\ y.clipped = x.clipped /\ y.detecting = x.detecting
            /\ y.probesLeft = m.probesLeft - 1 /\ y.heard = x.heard
        BY <1>2, <3>1 DEF IPC
      <3>3. NotBoth(y) /\ (NoVerdict(m) => NoVerdict(y))
        BY <1>3, <3>2 DEF NotBoth, NoVerdict
      <3>4. CASE m.probesLeft > 1
        <4>1. n = y
          <5>1. ~(m.probesLeft <= 1)
            BY <1>5, <3>4
          <5> QED
            BY <2>3, <3>4, <5>1 DEF Handled, x
        <4> HIDE DEF y, n
        <4>2. Told(m, n, request.id) /\ NotBoth(n) /\ (NoVerdict(m) => NoVerdict(n))
              /\ n.detecting = m.detecting /\ n.probesLeft = m.probesLeft - 1
          BY <1>2, <3>2, <3>3, <4>1 DEF Told
        <4>3. ~(m.probesLeft <= 1)
          BY <1>5, <3>4
        <4> QED
          BY <1>1, <2>3, <3>4, <4>2, <4>3, DetectionGoesOn
      <3>5. CASE m.probesLeft <= 1
        <4>1. n = FinishProbes(y)
          <5>1. ~(m.probesLeft > 1)
            BY <1>5, <3>5
          <5> QED
            BY <2>3, <3>5, <5>1 DEF Handled, x
        <4> DEFINE f == FinishProbes(y)
        <4> HIDE DEF y, n
        <4>2. /\ f \in IPC /\ f.owed = y.owed /\ f.link = y.link /\ f.pending = y.pending
              /\ f.wire = y.wire /\ f.clipped = y.clipped
              /\ ~f.detecting /\ f.probesLeft = y.probesLeft
              /\ NotBoth(f) /\ (NoVerdict(y) => NoVerdict(f))
          BY <3>2, <3>3, FinishedIs
        <4> HIDE DEF f
        <4>3. Told(m, n, request.id) /\ NotBoth(n) /\ (NoVerdict(m) => NoVerdict(n))
              /\ ~n.detecting /\ n.probesLeft = m.probesLeft - 1
          BY <1>2, <3>2, <3>3, <4>1, <4>2 DEF Told, f
        <4>4. ~(m.probesLeft > 1)
          BY <1>5, <3>5
        <4> QED
          BY <1>1, <2>3, <3>5, <4>3, <4>4, DetectionGoesOn
      <3> QED
        BY <1>5, <3>4, <3>5
    <2>4. CASE request.kind \in {"Again", "Once", "Action"}
      <3>1. n = x
        BY <2>4 DEF Handled
      <3> HIDE DEF x, n
      <3>2. Told(m, n, request.id) /\ NotBoth(n) /\ (NoVerdict(m) => NoVerdict(n))
            /\ n.detecting = m.detecting /\ n.probesLeft = m.probesLeft
        BY <1>2, <1>3, <3>1 DEF Told
      <3> QED
        BY <1>1, <2>4, <3>2, DetectionGoesOn
    <2> QED
      BY <2>1, <2>2, <2>3, <2>4 DEF Request, Kind
  <1> HIDE DEF n, x
  <1>8. Queued(n, others) /\ Paired(n)
    BY <1>1, <1>7, ToldKeeps
  <1>9. n.pending = m.pending
    BY <1>7 DEF Told
  <1>10. probes2 # 0 => Kinds(n.pending, "Version") = {}
    <2>1. request.kind = "Version" => Kinds(m.pending, "Version") = {}
      BY <1>1 DEF Leaves, Detects
    <2> QED
      BY <1>9, <2>1
  <1>11. Sane(n, acts, others, version2, probes2)
    BY <1>1, <1>7, <1>8, <1>9, <1>10 DEF Sane, Nearly
  <1> QED
    BY <1>7, <1>11 DEF n

\* f is what m goes through as the requests are put on the list.
Enqueues(f, m, kinds) ==
    f = [i \in 0..Len(kinds) |-> IF i = 0 THEN m ELSE Enqueue(f[i - 1], kinds[i])]

\* Nothing to send, and one request.
LEMMA EnqueueFew ==
    ASSUME NEW m, NEW kind
    PROVE  EnqueueAll(m, <<>>) = m /\ EnqueueAll(m, <<kind>>) = Enqueue(m, kind)
  <1> DEFINE g0 == [i \in 0..0 |-> m]
             g1 == [i \in 0..1 |-> IF i = 0 THEN m ELSE Enqueue(m, kind)]
             none == <<>>
             one == <<kind>>
  <1>1. Len(none) = 0 /\ Len(one) = 1 /\ one[1] = kind
    OBVIOUS
  <1> HIDE DEF none, one
  <1>2. Enqueues(g0, m, none)
    BY <1>1 DEF Enqueues
  <1>3. Enqueues(g1, m, one)
    <2>1. ASSUME NEW i \in 0..1
          PROVE  g1[i] = IF i = 0 THEN m ELSE Enqueue(g1[i - 1], one[i])
      <3>1. CASE i = 0
        BY <3>1
      <3>2. CASE i = 1
        <4>1. g1[1] = Enqueue(m, kind) /\ g1[0] = m /\ 1 - 1 = 0 /\ 1 # 0
          OBVIOUS
        <4> HIDE DEF g1
        <4>2. g1[1] = Enqueue(g1[1 - 1], one[1])
          BY <1>1, <4>1
        <4> QED
          BY <3>2, <4>1, <4>2
      <3> QED
        BY <3>1, <3>2
    <2> HIDE DEF g1
    <2>2. g1 = [i \in 0..1 |-> IF i = 0 THEN m ELSE Enqueue(g1[i - 1], one[i])]
      <3>1. g1 = [i \in 0..1 |-> g1[i]]
        BY DEF g1
      <3> QED
        BY <2>1, <3>1, Zenon
    <2> QED
      BY <1>1, <2>2 DEF Enqueues
  <1> HIDE DEF g0, g1
  <1> DEFINE h0 == CHOOSE f : Enqueues(f, m, none)
             h1 == CHOOSE f : Enqueues(f, m, one)
  <1>4. Enqueues(h0, m, none) /\ Enqueues(h1, m, one)
    BY <1>2, <1>3, Zenon
  <1>5. EnqueueAll(m, none) = h0[Len(none)] /\ EnqueueAll(m, one) = h1[Len(one)]
    BY Zenon DEF EnqueueAll, Enqueues
  <1> HIDE DEF h0, h1
  <1>6. h0[0] = m
    BY <1>1, <1>4 DEF Enqueues
  <1>7. h1[0] = m /\ h1[1] = Enqueue(h1[0], kind)
    BY <1>1, <1>4 DEF Enqueues
  <1> QED
    BY <1>1, <1>5, <1>6, <1>7 DEF none, one

\* f is what m goes through as the requests are sent.
Sends(f, m, kinds) ==
    f = [i \in 0..Len(kinds) |-> IF i = 0 THEN m ELSE Send(f[i - 1], kinds[i])]

\* Nothing to send, and one request.
LEMMA SendFew ==
    ASSUME NEW m, NEW kind
    PROVE  SendAll(m, <<>>) = m /\ SendAll(m, <<kind>>) = Send(m, kind)
  <1> DEFINE g0 == [i \in 0..0 |-> m]
             g1 == [i \in 0..1 |-> IF i = 0 THEN m ELSE Send(m, kind)]
             none == <<>>
             one == <<kind>>
  <1>1. Len(none) = 0 /\ Len(one) = 1 /\ one[1] = kind
    OBVIOUS
  <1> HIDE DEF none, one
  <1>2. Sends(g0, m, none)
    BY <1>1 DEF Sends
  <1>3. Sends(g1, m, one)
    <2>1. ASSUME NEW i \in 0..1
          PROVE  g1[i] = IF i = 0 THEN m ELSE Send(g1[i - 1], one[i])
      <3>1. CASE i = 0
        BY <3>1
      <3>2. CASE i = 1
        <4>1. g1[1] = Send(m, kind) /\ g1[0] = m /\ 1 - 1 = 0 /\ 1 # 0
          OBVIOUS
        <4> HIDE DEF g1
        <4>2. g1[1] = Send(g1[1 - 1], one[1])
          BY <1>1, <4>1
        <4> QED
          BY <3>2, <4>1, <4>2
      <3> QED
        BY <3>1, <3>2
    <2> HIDE DEF g1
    <2>2. g1 = [i \in 0..1 |-> IF i = 0 THEN m ELSE Send(g1[i - 1], one[i])]
      <3>1. g1 = [i \in 0..1 |-> g1[i]]
        BY DEF g1
      <3> QED
        BY <2>1, <3>1, Zenon
    <2> QED
      BY <1>1, <2>2 DEF Sends
  <1> HIDE DEF g0, g1
  <1> DEFINE h0 == CHOOSE f : Sends(f, m, none)
             h1 == CHOOSE f : Sends(f, m, one)
  <1>4. Sends(h0, m, none) /\ Sends(h1, m, one)
    BY <1>2, <1>3, Zenon
  <1>5. SendAll(m, none) = h0[Len(none)] /\ SendAll(m, one) = h1[Len(one)]
    BY Zenon DEF SendAll, Sends
  <1> HIDE DEF h0, h1
  <1>6. h0[0] = m
    BY <1>1, <1>4 DEF Sends
  <1>7. h1[0] = m /\ h1[1] = Send(h1[0], kind)
    BY <1>1, <1>4 DEF Sends
  <1> QED
    BY <1>1, <1>5, <1>6, <1>7 DEF none, one

\* What a handler that is told of a loss sends.
LEMMA AsksOfLost ==
    ASSUME NEW request \in Request
    PROVE  /\ request.kind = "Again" => Asks(request, "lost") = <<"Once">>
           /\ request.kind # "Again" => Asks(request, "lost") = <<>>
  BY DEF Asks

\* A list with one more request of a caller that asks no more.
LEMMA OnlyOnceMore ==
    ASSUME NEW m \in IPC, NEW n, NEW id, OneMore(m, n, id, "Once"), OnlyOnce(m.pending)
    PROVE  OnlyOnce(n.pending)
  <1> DEFINE k == Len(m.pending)
  <1>1. /\ k \in Nat /\ DOMAIN m.pending = 1..k /\ DOMAIN n.pending = 1..k + 1
        /\ \A i \in 1..k : n.pending[i] = m.pending[i]
        /\ n.pending[k + 1].kind = "Once"
    BY DEF OneMore
  <1>2. \A i \in 1..k + 1 : i \in 1..k \/ i = k + 1
    BY <1>1
  <1> QED
    BY <1>1, <1>2 DEF OnlyOnce

\* One request is told that its reply will not come, and may ask again.
LEMMA TellOneKeeps ==
    ASSUME NEW m, NEW acts, NEW others, NEW request \in Request,
           NEW version \in BOOLEAN, NEW probes \in Nat,
           NEW version2 \in BOOLEAN, NEW probes2 \in Nat,
           request.id \notin others,
           NEW all, all = others \cup {request.id}, Sane(m, acts, all, version, probes),
           Leaves(request, "lost", version, probes, version2, probes2)
    PROVE  LET n == EnqueueAll(Handled(m, request, "lost"), Asks(request, "lost"))
           IN  /\ Sane(n, acts, others, version2, probes2)
               /\ n.link = m.link /\ n.clipped = m.clipped
               /\ OnlyOnce(m.pending) => OnlyOnce(n.pending)
  <1> DEFINE h == Handled(m, request, "lost")
             n == EnqueueAll(h, Asks(request, "lost"))
  <1>1. request.kind # "Version" /\ probes2 # 0 => Kinds(m.pending, "Version") = {}
    <2> SUFFICES ASSUME request.kind # "Version", probes2 # 0
                 PROVE  Kinds(m.pending, "Version") = {}
      OBVIOUS
    <2>1. probes # 0
      BY DEF Leaves
    <2> QED
      BY <2>1 DEF Sane
  <1>2. Sane(h, acts, others, version2, probes2) /\ Told(m, h, request.id)
    <2>1. Nearly(m, acts, all, version, probes)
      BY DEF Sane
    <2>2. "lost" \in Answered
      BY DEF Answered
    <2> HIDE DEF n
    <2>3. /\ Sane(Handled(m, request, "lost"), acts, others, version2, probes2)
          /\ Told(m, Handled(m, request, "lost"), request.id)
      BY <1>1, <2>1, <2>2, HandledKeeps
    <2> QED
      BY <2>3 DEF h
  <1> HIDE DEF h
  <1>3. h \in IPC /\ h.link = m.link /\ h.clipped = m.clipped /\ h.pending = m.pending
    BY <1>2 DEF Told
  <1>4. CASE request.kind = "Again"
    <2> DEFINE e == Enqueue(h, "Once")
    <2>1. n = e
      BY <1>4, AsksOfLost, EnqueueFew
    <2>2. acts = acts \cup (IF "Once" = "Action" THEN {FreshId(h)} ELSE {})
      OBVIOUS
    <2>3. "Once" \in Asked
      BY DEF Asked, Kind
    <2>4. Sane(e, acts, others, version2, probes2) /\ OneMore(h, e, FreshId(h), "Once")
      BY <1>2, <2>2, <2>3, EnqueueKeeps
    <2> HIDE DEF e, n
    <2>5. e.link = h.link /\ e.clipped = h.clipped
      BY <2>4 DEF OneMore
    <2>6. OnlyOnce(h.pending) => OnlyOnce(e.pending)
      BY <1>3, <2>4, OnlyOnceMore
    <2>7. Sane(n, acts, others, version2, probes2) /\ n.link = m.link /\ n.clipped = m.clipped
          /\ (OnlyOnce(m.pending) => OnlyOnce(n.pending))
      BY <1>3, <2>1, <2>4, <2>5, <2>6
    <2> QED
      BY <2>7 DEF n, h
  <1>5. CASE request.kind # "Again"
    <2>1. n = h
      BY <1>5, AsksOfLost, EnqueueFew
    <2> HIDE DEF n
    <2>2. Sane(n, acts, others, version2, probes2) /\ n.link = m.link /\ n.clipped = m.clipped
          /\ (OnlyOnce(m.pending) => OnlyOnce(n.pending))
      BY <1>2, <1>3, <2>1
    <2> QED
      BY <2>2 DEF n, h
  <1> QED
    BY <1>4, <1>5

-----------------------------------------------------------------------------
(* A list of requests that are told one after the other. *)

\* Those of a kind after the first k, and the names of all after the first k.
Later(list, k, kind) == {i \in k + 1..Len(list) : list[i].kind = kind}

LaterIds(list, k) == {list[i].id : i \in k + 1..Len(list)}

\* A list that can be told when others are still to be.
InLine(list, others, version, probes) ==
    /\ list \in Seq(Request)
    /\ \A i, j \in DOMAIN list : list[i].id = list[j].id => i = j
    /\ \A i \in DOMAIN list : list[i].id \notin others
    /\ \A i \in Kinds(list, "Version") :
          /\ ~version /\ probes = 0
          /\ \A j \in Kinds(list, "Version") : j = i
          /\ \A j \in Kinds(list, "Probe") : j < i

\* What is outstanding after k of the list have been told.
VersionAfter(list, k, version) == version \/ Later(list, k, "Version") # {}

ProbesAfter(list, k, probes) == Cardinality(Later(list, k, "Probe")) + probes

OthersAfter(list, k, others) == others \cup LaterIds(list, k)

\* Once all have been told, and while none has.
LEMMA LineEnds ==
    ASSUME NEW list \in Seq(Request), NEW others, NEW version \in BOOLEAN, NEW probes \in Nat
    PROVE  /\ OthersAfter(list, Len(list), others) = others
           /\ VersionAfter(list, Len(list), version) = version
           /\ ProbesAfter(list, Len(list), probes) = probes
           /\ OthersAfter(list, 0, others) = others \cup Ids(list)
           /\ VersionAfter(list, 0, version) <=> (version \/ Kinds(list, "Version") # {})
           /\ ProbesAfter(list, 0, probes) = Cardinality(Kinds(list, "Probe")) + probes
  <1>1. Len(list) \in Nat /\ DOMAIN list = 1..Len(list)
    OBVIOUS
  <1>2. \A kind : Later(list, Len(list), kind) = {}
    BY <1>1 DEF Later
  <1>3. LaterIds(list, Len(list)) = {}
    BY <1>1 DEF LaterIds
  <1>4. \A kind : Later(list, 0, kind) = Kinds(list, kind)
    BY <1>1 DEF Later, Kinds
  <1>5. LaterIds(list, 0) = Ids(list)
    BY <1>1 DEF LaterIds, Ids
  <1>6. Cardinality({}) = 0
    BY FS_EmptySet
  <1>7. /\ Later(list, Len(list), "Version") = {} /\ Later(list, Len(list), "Probe") = {}
        /\ Later(list, 0, "Version") = Kinds(list, "Version")
        /\ Later(list, 0, "Probe") = Kinds(list, "Probe")
    BY <1>2, <1>4
  <1>8. /\ OthersAfter(list, Len(list), others) = others
        /\ OthersAfter(list, 0, others) = others \cup Ids(list)
    BY <1>3, <1>5 DEF OthersAfter
  <1>9. /\ VersionAfter(list, Len(list), version) = version
        /\ VersionAfter(list, 0, version) <=> (version \/ Kinds(list, "Version") # {})
    BY <1>7 DEF VersionAfter
  <1>10. ProbesAfter(list, 0, probes) = Cardinality(Kinds(list, "Probe")) + probes
    BY <1>7 DEF ProbesAfter
  <1>11. ProbesAfter(list, Len(list), probes) = probes
    <2>1. ProbesAfter(list, Len(list), probes) = Cardinality({}) + probes
      BY <1>7 DEF ProbesAfter
    <2> QED
      BY <1>6, <2>1
  <1> QED
    BY <1>8, <1>9, <1>10, <1>11

\* The next of the list.
LEMMA NextInLine ==
    ASSUME NEW list, NEW others, NEW version \in BOOLEAN, NEW probes \in Nat,
           InLine(list, others, version, probes), NEW k \in 1..Len(list)
    PROVE  /\ list[k] \in Request
           /\ list[k].id \notin OthersAfter(list, k, others)
           /\ OthersAfter(list, k - 1, others) = OthersAfter(list, k, others) \cup {list[k].id}
           /\ ProbesAfter(list, k, probes) \in Nat /\ ProbesAfter(list, k - 1, probes) \in Nat
           /\ Leaves(list[k], "lost", VersionAfter(list, k - 1, version),
                     ProbesAfter(list, k - 1, probes), VersionAfter(list, k, version),
                     ProbesAfter(list, k, probes))
  <1> DEFINE n == Len(list)
  <1>1. list \in Seq(Request) /\ n \in Nat /\ DOMAIN list = 1..n /\ k \in Nat /\ list[k] \in Request
    BY DEF InLine
  <1>2. k - 1 \in Nat /\ (k - 1) + 1 = k /\ k \in k..n
    BY <1>1
  <1>3. \A i \in k..n : i = k \/ i \in k + 1..n
    BY <1>1
  <1>4. \A i \in k + 1..n : i \in k..n /\ i # k /\ i > k /\ i \in 1..n
    BY <1>1
  <1>5. Later(list, k - 1, list[k].kind) = Later(list, k, list[k].kind) \cup {k}
    <2> HIDE DEF n
    <2> QED
      BY <1>2, <1>3, <1>4 DEF Later, n
  <1>6. \A kind : kind # list[k].kind => Later(list, k - 1, kind) = Later(list, k, kind)
    BY <1>2, <1>3, <1>4 DEF Later
  <1>7. \A kind : /\ IsFiniteSet(Later(list, k, kind)) /\ k \notin Later(list, k, kind)
                  /\ Cardinality(Later(list, k, kind)) \in Nat
    <2> TAKE kind
    <2>1. Later(list, k, kind) \subseteq k + 1..n
      BY DEF Later
    <2>2. IsFiniteSet(k + 1..n)
      BY <1>1, FS_Interval
    <2>3. IsFiniteSet(Later(list, k, kind))
      BY <2>1, <2>2, FS_Subset
    <2>4. k \notin Later(list, k, kind)
      BY <1>4, <2>1
    <2> QED
      BY <2>3, <2>4, FS_CardinalityType
  <1>8. Cardinality(Later(list, k - 1, list[k].kind)) =
            Cardinality(Later(list, k, list[k].kind)) + 1
    BY <1>5, <1>7, FS_AddElement
  <1>9. /\ list[k].id \notin OthersAfter(list, k, others)
        /\ OthersAfter(list, k - 1, others) = OthersAfter(list, k, others) \cup {list[k].id}
    <2>1. list[k].id \notin LaterIds(list, k)
      BY <1>1, <1>4 DEF InLine, LaterIds
    <2>2. LaterIds(list, k - 1) = LaterIds(list, k) \cup {list[k].id}
      BY <1>2, <1>3, <1>4 DEF LaterIds
    <2>3. list[k].id \notin others
      BY <1>1 DEF InLine
    <2> QED
      BY <2>1, <2>2, <2>3 DEF OthersAfter
  <1> DEFINE kind == list[k].kind
             v1 == VersionAfter(list, k - 1, version)
             p1 == ProbesAfter(list, k - 1, probes)
             v2 == VersionAfter(list, k, version)
             p2 == ProbesAfter(list, k, probes)
  <1>10. kind = "Probe" => p1 = p2 + 1
    BY <1>7, <1>8 DEF ProbesAfter
  <1>11. kind # "Probe" => p1 = p2
    BY <1>6 DEF ProbesAfter
  <1>12. p2 \in Nat
    BY <1>7 DEF ProbesAfter
  <1>13. p1 \in Nat
    BY <1>10, <1>11, <1>12
  <1>14. kind # "Version" => (v2 <=> v1)
    BY <1>6 DEF VersionAfter
  <1>15. kind = "Version" => v1 /\ ~v2 /\ p1 = 0 /\ p2 = 0
    <2> SUFFICES ASSUME kind = "Version" PROVE v1 /\ ~v2 /\ p1 = 0 /\ p2 = 0
      OBVIOUS
    <2>1. k \in Kinds(list, "Version")
      BY <1>1 DEF Kinds
    <2>2. /\ ~version /\ probes = 0
          /\ \A j \in Kinds(list, "Version") : j = k
          /\ \A j \in Kinds(list, "Probe") : j < k
      BY <2>1 DEF InLine
    <2>3. \A other : Later(list, k, other) \subseteq Kinds(list, other)
      BY <1>1, <1>4 DEF Later, Kinds
    <2>4. Later(list, k, "Version") = {}
      BY <1>7, <2>2, <2>3
    <2>5. Later(list, k, "Probe") = {}
      <3>1. \A j \in Later(list, k, "Probe") : j > k /\ j \in Nat
        BY <1>1, <1>4 DEF Later
      <3>2. \A j \in Later(list, k, "Probe") : j < k
        BY <2>2, <2>3
      <3> QED
        BY <1>1, <3>1, <3>2
    <2>6. Cardinality({}) = 0
      BY FS_EmptySet
    <2>7. p2 = 0
      <3>1. p2 = Cardinality({}) + probes
        BY <2>5 DEF ProbesAfter
      <3> HIDE DEF p2
      <3> QED
        BY <2>2, <2>6, <3>1
    <2>8. v1 /\ ~v2
      BY <1>5, <2>2, <2>4 DEF VersionAfter
    <2> QED
      BY <1>11, <2>7, <2>8
  <1>16. Leaves(list[k], "lost", v1, p1, v2, p2)
    <2> HIDE DEF v1, v2, p1, p2
    <2> QED
      BY <1>10, <1>11, <1>14, <1>15 DEF Leaves
  <1> QED
    BY <1>1, <1>9, <1>12, <1>13, <1>16

\* f is what m goes through as the requests are told.
Tells(f, m, list) ==
    f = [i \in 0..Len(list) |->
            IF i = 0 THEN m
            ELSE EnqueueAll(Handled(f[i - 1], list[i], "lost"), Asks(list[i], "lost"))]

\* There is such an f, whatever the list.
LEMMA TellsExist ==
    ASSUME NEW m, NEW list \in Seq(Request)
    PROVE  \E f : Tells(f, m, list)
  <1> DEFINE Next1(x, i) == EnqueueAll(Handled(x, list[i], "lost"), Asks(list[i], "lost"))
             Upto(f, n) == f = [i \in 0..n |-> IF i = 0 THEN m ELSE Next1(f[i - 1], i)]
             Bad == {n \in Nat : ~\E f : Upto(f, n)}
  <1>1. Bad = {}
    <2> SUFFICES ASSUME Bad # {} PROVE FALSE
      OBVIOUS
    <2>1. PICK n \in Bad : \A k \in Bad : n <= k
      <3>1. Bad \subseteq Nat
        OBVIOUS
      <3> HIDE DEF Bad
      <3> QED
        BY <3>1, Least
    <2> HIDE DEF Next1
    <2>2. n \in Nat /\ ~\E f : Upto(f, n)
      OBVIOUS
    <2>3. n # 0
      <3> DEFINE g == [i \in 0..0 |-> m]
      <3>1. Upto(g, 0)
        OBVIOUS
      <3> QED
        BY <2>2, <3>1
    <2>4. n - 1 \in Nat /\ n - 1 \notin Bad
      <3> HIDE DEF Bad
      <3> QED
        BY <2>1, <2>2, <2>3
    <2>5. PICK g : Upto(g, n - 1)
      BY <2>4
    <2> DEFINE h == [i \in 0..n |-> IF i = n THEN Next1(g[n - 1], n) ELSE g[i]]
    <2>6. ASSUME NEW i \in 0..n
          PROVE  h[i] = IF i = 0 THEN m ELSE Next1(h[i - 1], i)
      <3>1. CASE i = 0
        <4>1. 0 \in 0..n - 1 /\ 0 \in 0..n
          BY <2>4
        <4>2. g[0] = m /\ h[0] = g[0]
          BY <2>3, <2>5, <4>1
        <4> HIDE DEF h
        <4> QED
          BY <3>1, <4>2
      <3>2. CASE i # 0 /\ i # n
        <4>1. i \in 0..n - 1 /\ i - 1 \in 0..n /\ i - 1 # n
          BY <2>2, <3>2
        <4>2. g[i] = Next1(g[i - 1], i)
          BY <2>5, <3>2, <4>1
        <4>3. h[i] = g[i] /\ h[i - 1] = g[i - 1]
          BY <3>2, <4>1
        <4> HIDE DEF h
        <4> QED
          BY <3>2, <4>2, <4>3
      <3>3. CASE i = n
        <4>1. n - 1 \in 0..n /\ n - 1 # n /\ n \in 0..n
          BY <2>2, <2>4
        <4>2. h[n] = Next1(g[n - 1], n) /\ h[n - 1] = g[n - 1]
          BY <4>1
        <4> HIDE DEF h
        <4> QED
          BY <2>3, <3>3, <4>2
      <3> QED
        BY <3>1, <3>2, <3>3
    <2>7. h = [i \in 0..n |-> IF i = 0 THEN m ELSE Next1(h[i - 1], i)]
      <3>1. h = [i \in 0..n |-> h[i]]
        OBVIOUS
      <3> HIDE DEF h
      <3> QED
        BY <2>6, <3>1, Zenon
    <2> HIDE DEF h
    <2> QED
      BY <2>2, <2>7
  <1>2. Len(list) \in Nat
    OBVIOUS
  <1>3. \E f : Upto(f, Len(list))
    <2> HIDE DEF Upto
    <2> QED
      BY <1>1, <1>2
  <1> QED
    BY <1>3, Zenon DEF Tells

\* Between two of the requests that are told.
Telling(x, m, list, k, others, version, probes) ==
    /\ Sane(x, {}, OthersAfter(list, k, others), VersionAfter(list, k, version),
            ProbesAfter(list, k, probes))
    /\ x.link = m.link /\ x.clipped = m.clipped /\ OnlyOnce(x.pending)

\* All that wait are told; what they send stays.
LEMMA TellLostKeeps ==
    ASSUME NEW m, NEW list, NEW others, NEW version \in BOOLEAN, NEW probes \in Nat,
           InLine(list, others, version, probes),
           Telling(m, m, list, 0, others, version, probes)
    PROVE  Telling(TellLost(m, list), m, list, Len(list), others, version, probes)
  <1> DEFINE n == Len(list)
             f == CHOOSE g : Tells(g, m, list)
  <1>1. list \in Seq(Request) /\ n \in Nat
    BY DEF InLine
  <1>2. Tells(f, m, list)
    BY <1>1, TellsExist, Zenon
  <1>3. TellLost(m, list) = f[n]
    BY Zenon DEF TellLost, Tells
  <1> HIDE DEF f
  <1>4. ASSUME NEW k \in 1..n, Telling(f[k - 1], m, list, k - 1, others, version, probes)
        PROVE  Telling(f[k], m, list, k, others, version, probes)
    <2> DEFINE x == f[k - 1]
               y == EnqueueAll(Handled(x, list[k], "lost"), Asks(list[k], "lost"))
               v1 == VersionAfter(list, k - 1, version)
               p1 == ProbesAfter(list, k - 1, probes)
               v2 == VersionAfter(list, k, version)
               p2 == ProbesAfter(list, k, probes)
               o1 == OthersAfter(list, k - 1, others)
               o2 == OthersAfter(list, k, others)
    <2>1. f[k] = y
      <3>1. k \in 0..n /\ k # 0
        BY <1>1
      <3> QED
        BY <1>2, <3>1 DEF Tells
    <2>2. /\ list[k] \in Request /\ list[k].id \notin o2 /\ o1 = o2 \cup {list[k].id}
          /\ p1 \in Nat /\ p2 \in Nat /\ Leaves(list[k], "lost", v1, p1, v2, p2)
      <3> HIDE DEF x, y, v1, v2, p1, p2, o1, o2
      <3>1. k \in 1..Len(list)
        OBVIOUS
      <3>2. /\ list[k] \in Request
            /\ list[k].id \notin OthersAfter(list, k, others)
            /\ OthersAfter(list, k - 1, others) = OthersAfter(list, k, others) \cup {list[k].id}
            /\ ProbesAfter(list, k, probes) \in Nat /\ ProbesAfter(list, k - 1, probes) \in Nat
            /\ Leaves(list[k], "lost", VersionAfter(list, k - 1, version),
                      ProbesAfter(list, k - 1, probes), VersionAfter(list, k, version),
                      ProbesAfter(list, k, probes))
        BY <3>1, NextInLine
      <3> QED
        BY <3>2 DEF v1, v2, p1, p2, o1, o2
    <2>3. v1 \in BOOLEAN /\ v2 \in BOOLEAN
      BY DEF VersionAfter
    <2>4. /\ Sane(x, {}, o1, v1, p1) /\ x.link = m.link /\ x.clipped = m.clipped
          /\ OnlyOnce(x.pending)
      BY <1>4 DEF Telling
    <2> HIDE DEF x, v1, v2, p1, p2, o1, o2
    <2>6. /\ Sane(y, {}, o2, v2, p2) /\ y.link = x.link /\ y.clipped = x.clipped
          /\ (OnlyOnce(x.pending) => OnlyOnce(y.pending))
      BY <2>2, <2>3, <2>4, TellOneKeeps
    <2> HIDE DEF y
    <2> QED
      BY <2>1, <2>4, <2>6 DEF Telling, v2, p2, o2
  <1> DEFINE Bad == {k \in 0..n : ~Telling(f[k], m, list, k, others, version, probes)}
  <1>5. Bad = {}
    <2> SUFFICES ASSUME Bad # {} PROVE FALSE
      OBVIOUS
    <2>1. PICK k \in Bad : \A j \in Bad : k <= j
      <3>1. Bad \subseteq Nat
        BY <1>1
      <3> HIDE DEF Bad
      <3> QED
        BY <3>1, Least
    <2>2. k \in 0..n /\ ~Telling(f[k], m, list, k, others, version, probes)
      OBVIOUS
    <2>3. f[0] = m
      BY <1>1, <1>2 DEF Tells
    <2>4. k # 0
      BY <2>2, <2>3
    <2>5. k \in 1..n /\ k - 1 \in 0..n /\ ~(k <= k - 1)
      BY <1>1, <2>2, <2>4
    <2>6. k - 1 \notin Bad
      <3> HIDE DEF Bad
      <3> QED
        BY <2>1, <2>5
    <2> QED
      BY <1>4, <2>2, <2>5, <2>6
  <1>6. n \in 0..n
    BY <1>1
  <1>7. Telling(f[n], m, list, n, others, version, probes)
    <2> HIDE DEF n
    <2> QED
      BY <1>5, <1>6
  <1> QED
    BY <1>3, <1>7

\* When the list is taken to be told, all on it are still to be.
LEMMA ListTaken ==
    ASSUME NEW m, NEW acts, NEW others, NEW version \in BOOLEAN, NEW probes \in Nat,
           Sane(m, acts, others, version, probes),
           NEW x \in IPC, x.pending = <<>>, x.owed = m.owed, x.heard = m.heard,
           x.detecting = m.detecting, x.probesLeft = m.probesLeft,
           x.wire = <<>> \/ (x.clipped /\ x.link \notin {"closed", "failing"})
    PROVE  /\ InLine(m.pending, others, version, probes)
           /\ Telling(x, x, m.pending, 0, others, version, probes)
  <1> DEFINE s == m.pending
             v == VersionAfter(s, 0, version)
             p == ProbesAfter(s, 0, probes)
             c == Cardinality(Kinds(s, "Probe"))
  <1>1. /\ Queued(m, others) /\ Detects(m, version, probes) /\ m \in IPC
        /\ (probes # 0 => Kinds(s, "Version") = {}) /\ s \in Seq(Request)
    BY DEF Sane, Nearly, Queued, IPC
  <1>2. InLine(s, others, version, probes)
    BY <1>1 DEF InLine, Queued, Detects
  <1>3. /\ OthersAfter(s, 0, others) = others \cup Ids(s)
        /\ v <=> (version \/ Kinds(s, "Version") # {})
        /\ p = c + probes
    BY <1>1, LineEnds
  <1>4. c \in Nat
    BY <1>1, KindsFinite
  <1>5. v \in BOOLEAN
    BY DEF VersionAfter
  <1> HIDE DEF s, v, p, c
  <1>6. /\ DOMAIN <<>> = {} /\ Len(<<>>) = 0
        /\ \A kind : Kinds(<<>>, kind) = {}
        /\ Ids(<<>>) = {} /\ Acts(<<>>) = {} /\ OnlyOnce(<<>>)
    BY DEF Kinds, Ids, Acts, OnlyOnce
  <1>7. Queued(x, others \cup Ids(s))
    BY <1>1, <1>6 DEF Queued, s
  <1>8. Paired(x)
    <2>1. CASE x.wire = <<>>
      BY <1>6, <2>1 DEF Paired
    <2>2. CASE x.clipped /\ x.link \notin {"closed", "failing"}
      BY <2>2 DEF Paired
    <2> QED
      BY <2>1, <2>2
  <1>9. Detects(x, v, p)
    <2>1. Cardinality({}) = 0
      BY FS_EmptySet
    <2>2. v => NoVerdict(m)
      BY <1>1, <1>3 DEF Detects, NoVerdict, s
    <2>3. NotBoth(m)
      BY <1>1 DEF Detects, NotBoth
    <2>4. m.detecting => v \/ m.probesLeft \in 1..p
      BY <1>1, <1>3 DEF Detects, s, c
    <2>5. 1 - Probes + p <= m.probesLeft /\ m.probesLeft <= Probes
      BY <1>1, <1>3 DEF Detects, s, c
    <2>6. p \in Nat /\ 0 + p = p
      BY <1>3, <1>4
    <2>7. /\ Kinds(x.pending, "Version") = {} /\ Kinds(x.pending, "Probe") = {}
          /\ Cardinality(Kinds(x.pending, "Probe")) + p = p
      BY <1>6, <2>1, <2>6
    <2>8. v => \A i \in DOMAIN x.heard : x.heard[i] \notin Verdict
      BY <2>2 DEF NoVerdict
    <2>9. ~ \E i, j \in DOMAIN x.heard :
                x.heard[i] = "versionDetected" /\ x.heard[j] = "detectionFailed"
      BY <2>3 DEF NotBoth
    <2> QED
      BY <2>4, <2>5, <2>7, <2>8, <2>9, Zenon DEF Detects
  <1>10. Sane(x, {}, OthersAfter(s, 0, others), v, p)
    BY <1>3, <1>6, <1>7, <1>8, <1>9 DEF Sane, Nearly
  <1> QED
    BY <1>2, <1>6, <1>10 DEF Telling, s, v, p

\* n is m when all that waited have been told, with what they have sent since.
Failed(m, n, link, others, version, probes) ==
    /\ Sane(n, {}, others, version, probes)
    /\ n.link = link /\ n.clipped = m.clipped /\ OnlyOnce(n.pending)

\* All that wait are told when their connection is gone, or has never come.
LEMMA FailPendingKeeps ==
    ASSUME NEW m, NEW acts, NEW others, NEW version \in BOOLEAN, NEW probes \in Nat,
           Sane(m, acts, others, version, probes),
           NEW link \in {"closed", "failing"}
    PROVE  Failed(m, FailPending([m EXCEPT !.link = link, !.wire = <<>>]), link,
                  others, version, probes)
  <1> DEFINE y == [m EXCEPT !.link = link, !.wire = <<>>]
             x == [y EXCEPT !.pending = <<>>]
             n == TellLost(x, m.pending)
  <1>1. m \in IPC /\ m.pending \in Seq(Request)
    BY DEF Sane, Nearly, Queued, IPC
  <1>2. <<>> \in Seq(Answer) /\ <<>> \in Seq(Request) /\ link \in Link
    BY DEF Link
  <1>3. /\ y \in IPC /\ y.pending = m.pending /\ y.owed = m.owed /\ y.heard = m.heard
        /\ y.detecting = m.detecting /\ y.probesLeft = m.probesLeft /\ y.wire = <<>>
        /\ y.link = link /\ y.clipped = m.clipped
    BY <1>1, <1>2 DEF IPC
  <1>4. FailPending(y) = n
    BY <1>3 DEF FailPending
  <1> HIDE DEF y
  <1>5. /\ x \in IPC /\ x.pending = <<>> /\ x.owed = m.owed /\ x.heard = m.heard
        /\ x.detecting = m.detecting /\ x.probesLeft = m.probesLeft /\ x.wire = <<>>
        /\ x.link = link /\ x.clipped = m.clipped
    BY <1>2, <1>3 DEF IPC
  <1> HIDE DEF x
  <1>6. /\ InLine(m.pending, others, version, probes)
        /\ Telling(x, x, m.pending, 0, others, version, probes)
    BY <1>5, ListTaken
  <1>7. Telling(n, x, m.pending, Len(m.pending), others, version, probes)
    BY <1>6, TellLostKeeps
  <1>8. /\ OthersAfter(m.pending, Len(m.pending), others) = others
        /\ VersionAfter(m.pending, Len(m.pending), version) = version
        /\ ProbesAfter(m.pending, Len(m.pending), probes) = probes
    BY <1>1, LineEnds
  <1> HIDE DEF n
  <1>9. Failed(m, n, link, others, version, probes)
    BY <1>5, <1>7, <1>8 DEF Telling, Failed
  <1> QED
    BY <1>4, <1>9 DEF y

\* The same of a connection that is closed already.
LEMMA FailClosedKeeps ==
    ASSUME NEW m, NEW acts, NEW others, NEW version \in BOOLEAN, NEW probes \in Nat,
           Sane(m, acts, others, version, probes), m.link = "closed"
    PROVE  Failed(m, FailPending(m), "closed", others, version, probes)
  <1>1. m \in IPC /\ m.wire = <<>>
    BY DEF Sane, Nearly, Queued, Paired
  <1>2. [m EXCEPT !.link = "closed", !.wire = <<>>] = m
    BY <1>1 DEF IPC
  <1>3. "closed" \in {"closed", "failing"}
    OBVIOUS
  <1>4. Failed(m, FailPending([m EXCEPT !.link = "closed", !.wire = <<>>]), "closed",
               others, version, probes)
    BY <1>3, FailPendingKeeps
  <1> QED
    BY <1>2, <1>4

\* The socket notices that niri is gone.
LEMMA PeerGoneKeeps ==
    ASSUME NEW m, NEW acts, NEW others, NEW version \in BOOLEAN, NEW probes \in Nat,
           Sane(m, acts, others, version, probes)
    PROVE  Failed(m, PeerGone(m), "closed", others, version, probes)
  <1> DEFINE f == FailPending([m EXCEPT !.link = "failing", !.wire = <<>>])
  <1>1. Failed(m, f, "failing", others, version, probes)
    <2>1. "failing" \in {"closed", "failing"}
      OBVIOUS
    <2> QED
      BY <2>1, FailPendingKeeps
  <1>2. PeerGone(m) = FailPending([f EXCEPT !.link = "closed"])
    BY DEF PeerGone
  <1> HIDE DEF f
  <1>3. Sane(f, {}, others, version, probes) /\ f.clipped = m.clipped /\ f.link = "failing"
    BY <1>1 DEF Failed
  <1>4. f \in IPC /\ f.wire = <<>>
    BY <1>3 DEF Sane, Nearly, Queued, Paired
  <1>5. [f EXCEPT !.link = "closed"] = [f EXCEPT !.link = "closed", !.wire = <<>>]
    BY <1>4 DEF IPC
  <1>6. "closed" \in {"closed", "failing"}
    OBVIOUS
  <1>7. Failed(f, FailPending([f EXCEPT !.link = "closed", !.wire = <<>>]), "closed",
               others, version, probes)
    BY <1>3, <1>6, FailPendingKeeps
  <1>8. Failed(f, PeerGone(m), "closed", others, version, probes)
    BY <1>2, <1>5, <1>7
  <1> QED
    BY <1>3, <1>8 DEF Failed

-----------------------------------------------------------------------------
(* Sending, when it may be what finds the connection gone. *)

\* n is m when a request has been sent.
Sent(m, n, kind, acts, others, version, probes) ==
    /\ Sane(n, acts \cup (IF kind = "Action" THEN {FreshId(m)} ELSE {}), others, version, probes)
    /\ n.link # "failing" /\ n.clipped = m.clipped
    /\ kind = "Once" /\ OnlyOnce(m.pending) => OnlyOnce(n.pending)

\* A list without probes.
LEMMA OnlyOnceNoProbes ==
    ASSUME NEW s \in Seq(Request), OnlyOnce(s)
    PROVE  Cardinality(Kinds(s, "Probe")) = 0 /\ Kinds(s, "Version") = {} /\ Acts(s) = {}
  <1>1. Kinds(s, "Probe") = {} /\ Kinds(s, "Version") = {} /\ Kinds(s, "Action") = {}
    BY DEF Kinds, OnlyOnce
  <1> QED
    BY <1>1, FS_EmptySet DEF Acts

\* What a call or a handler sends, over a connection that may turn out to be gone.
LEMMA SendKeeps ==
    ASSUME NEW m, NEW acts, NEW others, NEW version \in BOOLEAN, NEW probes \in Nat,
           Sane(m, acts, others, version, probes), m.link # "failing",
           NEW kind \in Asked, NEW left \in Nat,
           kind # "Probe" => left = probes,
           kind = "Probe" => probes = left + 1 /\ ~version
    PROVE  /\ Sent(m, Send(m, kind), kind, acts, others, version, left)
           /\ \A count \in Int :
                 count >= 0 - 1 /\ AtMost(m, count) => AtMost(Send(m, kind), count + 1)
           /\ \A count \in Nat : kind # "Probe" /\ AtMost(m, count) => AtMost(Send(m, kind), count)
  <1> DEFINE e == Enqueue(m, kind)
             id == FreshId(m)
             more == acts \cup (IF kind = "Action" THEN {id} ELSE {})
             n == Send(m, kind)
             c(x) == Cardinality(Kinds(x.pending, "Probe"))
  <1>1. Sane(e, more, others, version, left) /\ OneMore(m, e, id, kind)
    <2>1. more = acts \cup (IF kind = "Action" THEN {FreshId(m)} ELSE {})
      OBVIOUS
    <2> HIDE DEF more, n
    <2> QED
      BY <2>1, EnqueueKeeps
  <1>2. n = IF m.link = "hungup" THEN PeerGone(e) ELSE e
    BY DEF Send
  <1>3. m \in IPC /\ IsFiniteSet(m.owed) /\ m.pending \in Seq(Request)
    BY DEF Sane, Nearly, Queued, IPC
  <1>4. id \in Nat
    BY <1>3, FreshIsFresh
  <1> HIDE DEF e, n, id
  <1>5. e.link = m.link /\ e.clipped = m.clipped
    BY <1>1 DEF OneMore
  <1>6. kind \in Kind
    BY DEF Asked
  <1>7. c(m) \in Nat
    BY <1>3, KindsFinite
  <1>8. CASE m.link = "hungup"
    <2> HIDE DEF more
    <2>1. Failed(e, n, "closed", others, version, left)
      BY <1>1, <1>2, <1>8, PeerGoneKeeps
    <2>2. /\ Sane(n, {}, others, version, left) /\ n.link = "closed" /\ n.clipped = m.clipped
          /\ OnlyOnce(n.pending)
      BY <1>5, <2>1 DEF Failed
    <2>3. Sane(n, more, others, version, left)
      BY <2>2 DEF Sane, Nearly
    <2>4. n.pending \in Seq(Request)
      BY <2>2 DEF Sane, Nearly, Queued, IPC
    <2>5. c(n) = 0
      BY <2>2, <2>4, OnlyOnceNoProbes
    <2>6. Sent(m, n, kind, acts, others, version, left)
      BY <2>2, <2>3 DEF Sent, more, id
    <2>7. \A count \in Int : count >= 0 - 1 => AtMost(n, count + 1)
      BY <2>5 DEF AtMost
    <2>8. \A count \in Nat : AtMost(n, count)
      BY <2>5 DEF AtMost
    <2> QED
      BY <2>6, <2>7, <2>8 DEF n
  <1>9. CASE m.link # "hungup"
    <2>1. n = e
      BY <1>2, <1>9
    <2>2. kind = "Once" /\ OnlyOnce(m.pending) => OnlyOnce(e.pending)
      BY <1>1, <1>3, OnlyOnceMore
    <2>3. Sent(m, n, kind, acts, others, version, left)
      BY <1>1, <1>5, <2>1, <2>2 DEF Sent, id
    <2>4. KindsToo(m, e, id, kind)
      BY <1>1, <1>3, <1>4, <1>6, KindsJoined
    <2>5. c(n) = IF kind = "Probe" THEN c(m) + 1 ELSE c(m)
      BY <2>1, <2>4 DEF KindsToo
    <2>6. n.link = m.link
      BY <1>5, <2>1
    <2>7. \A count \in Int : AtMost(m, count) => AtMost(n, count + 1)
      <3> TAKE count \in Int
      <3> HIDE DEF c
      <3> QED
        BY <1>7, <2>5, <2>6 DEF AtMost, c
    <2>8. \A count \in Nat : kind # "Probe" /\ AtMost(m, count) => AtMost(n, count)
      BY <2>5, <2>6 DEF AtMost
    <2> QED
      BY <2>3, <2>7, <2>8 DEF n
  <1> QED
    BY <1>8, <1>9

\* There is a sequence of what m goes through, whatever is sent.
LEMMA SendsExist ==
    ASSUME NEW m, NEW kinds, Len(kinds) \in Nat
    PROVE  \E f : Sends(f, m, kinds)
  <1> DEFINE Upto(f, n) == f = [i \in 0..n |-> IF i = 0 THEN m ELSE Send(f[i - 1], kinds[i])]
             Bad == {n \in Nat : ~\E f : Upto(f, n)}
  <1>1. Bad = {}
    <2> SUFFICES ASSUME Bad # {} PROVE FALSE
      OBVIOUS
    <2>1. PICK n \in Bad : \A k \in Bad : n <= k
      <3>1. Bad \subseteq Nat
        OBVIOUS
      <3> HIDE DEF Bad
      <3> QED
        BY <3>1, Least
    <2>2. n \in Nat /\ ~\E f : Upto(f, n)
      OBVIOUS
    <2>3. n # 0
      <3> DEFINE g == [i \in 0..0 |-> m]
      <3>1. Upto(g, 0)
        OBVIOUS
      <3> QED
        BY <2>2, <3>1
    <2>4. n - 1 \in Nat /\ n - 1 \notin Bad
      <3> HIDE DEF Bad
      <3> QED
        BY <2>1, <2>2, <2>3
    <2>5. PICK g : Upto(g, n - 1)
      BY <2>4
    <2> DEFINE h == [i \in 0..n |-> IF i = n THEN Send(g[n - 1], kinds[n]) ELSE g[i]]
    <2>6. ASSUME NEW i \in 0..n
          PROVE  h[i] = IF i = 0 THEN m ELSE Send(h[i - 1], kinds[i])
      <3>1. CASE i = 0
        <4>1. 0 \in 0..n - 1 /\ 0 \in 0..n
          BY <2>4
        <4>2. g[0] = m /\ h[0] = g[0]
          BY <2>3, <2>5, <4>1
        <4> HIDE DEF h
        <4> QED
          BY <3>1, <4>2
      <3>2. CASE i # 0 /\ i # n
        <4>1. i \in 0..n - 1 /\ i - 1 \in 0..n /\ i - 1 # n
          BY <2>2, <3>2
        <4>2. g[i] = Send(g[i - 1], kinds[i])
          BY <2>5, <3>2, <4>1
        <4>3. h[i] = g[i] /\ h[i - 1] = g[i - 1]
          BY <3>2, <4>1
        <4> HIDE DEF h
        <4> QED
          BY <3>2, <4>2, <4>3
      <3>3. CASE i = n
        <4>1. n - 1 \in 0..n /\ n - 1 # n /\ n \in 0..n
          BY <2>2, <2>4
        <4>2. h[n] = Send(g[n - 1], kinds[n]) /\ h[n - 1] = g[n - 1]
          BY <4>1
        <4> HIDE DEF h
        <4> QED
          BY <2>3, <3>3, <4>2
      <3> QED
        BY <3>1, <3>2, <3>3
    <2>7. h = [i \in 0..n |-> IF i = 0 THEN m ELSE Send(h[i - 1], kinds[i])]
      <3>1. h = [i \in 0..n |-> h[i]]
        OBVIOUS
      <3> HIDE DEF h
      <3> QED
        BY <2>6, <3>1, Zenon
    <2> HIDE DEF h
    <2> QED
      BY <2>2, <2>7
  <1>2. \E f : Upto(f, Len(kinds))
    <2> HIDE DEF Upto
    <2> QED
      BY <1>1
  <1> QED
    BY <1>2, Zenon DEF Sends

\* n is m when a handler has run, with what it sends.
Ran(m, n, acts, others, version, probes) ==
    /\ Sane(n, acts, others, version, probes)
    /\ n.link # "failing" /\ n.clipped = m.clipped
    /\ OnlyOnce(m.pending) => OnlyOnce(n.pending)

\* The probes of a version that is recognised, which may find the connection gone after any
\* of them.
LEMMA ProbesSent ==
    ASSUME NEW m, NEW acts, NEW others, Sane(m, acts, others, FALSE, Probes),
           m.link \notin {"closed", "failing"}
    PROVE  LET n == SendAll(m, [probe \in 1..Probes |-> "Probe"])
           IN  /\ Sane(n, acts, others, FALSE, 0)
               /\ n.link # "failing" /\ n.clipped = m.clipped /\ AtMost(n, Probes - 1)
  <1> DEFINE kinds == [probe \in 1..Probes |-> "Probe"]
             f == CHOOSE g : Sends(g, m, kinds)
             Good(k) == /\ Sane(f[k], acts, others, FALSE, Probes - k)
                        /\ f[k].link # "failing" /\ f[k].clipped = m.clipped
                        /\ AtMost(f[k], k - 1)
  <1>1. Probes \in Nat \ {0} /\ Len(kinds) = Probes
    BY RequestAssumption
  <1>2. Sends(f, m, kinds)
    <2>1. Len(kinds) \in Nat
      BY <1>1
    <2> HIDE DEF kinds
    <2> QED
      BY <2>1, SendsExist, Zenon
  <1>3. SendAll(m, kinds) = f[Probes]
    <2> HIDE DEF kinds
    <2>1. SendAll(m, kinds) = f[Len(kinds)]
      BY Zenon DEF SendAll, Sends
    <2> HIDE DEF f
    <2> QED
      BY <1>1, <2>1
  <1> HIDE DEF f
  <1>4. f[0] = m
    BY <1>1, <1>2 DEF Sends
  <1>5. ASSUME NEW k \in 1..Probes
        PROVE  f[k] = Send(f[k - 1], "Probe")
    <2>1. kinds[k] = "Probe" /\ k \in 0..Probes /\ k # 0
      BY <1>1
    <2> HIDE DEF kinds
    <2> QED
      BY <1>1, <1>2, <2>1 DEF Sends
  <1> HIDE DEF kinds
  <1>6. Good(0)
    <2>1. Probes - 0 = Probes
      BY <1>1
    <2> QED
      BY <1>4, <2>1 DEF AtMost
  <1>7. ASSUME NEW k \in 1..Probes, Good(k - 1)
        PROVE  Good(k)
    <2> DEFINE x == f[k - 1]
               y == Send(x, "Probe")
               left == Probes - k
               before == Probes - (k - 1)
    <2>1. /\ left \in Nat /\ before \in Nat /\ before = left + 1
          /\ (k - 1) - 1 \in Int /\ (k - 1) - 1 >= 0 - 1 /\ ((k - 1) - 1) + 1 = k - 1
      BY <1>1
    <2>2. Sane(x, acts, others, FALSE, before) /\ x.link # "failing" /\ x.clipped = m.clipped
          /\ AtMost(x, (k - 1) - 1)
      BY <1>7
    <2> HIDE DEF x, left, before
    <2>3. /\ Sent(x, y, "Probe", acts, others, FALSE, left)
          /\ \A count \in Int : count >= 0 - 1 /\ AtMost(x, count) => AtMost(y, count + 1)
      <3>1. "Probe" \in Asked
        BY DEF Asked, Kind
      <3> QED
        BY <2>1, <2>2, <3>1, SendKeeps
    <2> HIDE DEF y
    <2>4. AtMost(y, k - 1)
      BY <2>1, <2>2, <2>3
    <2>5. /\ Sane(y, acts \cup {}, others, FALSE, left)
          /\ y.link # "failing" /\ y.clipped = x.clipped
      BY <2>3 DEF Sent
    <2>6. acts \cup {} = acts
      OBVIOUS
    <2>7. Sane(y, acts, others, FALSE, left)
      BY <2>5, <2>6
    <2>8. f[k] = y
      BY <1>5 DEF x, y
    <2> QED
      BY <2>2, <2>4, <2>5, <2>7, <2>8 DEF left
  <1> DEFINE Bad == {k \in 0..Probes : ~Good(k)}
  <1>8. Bad = {}
    <2> HIDE DEF Good
    <2> SUFFICES ASSUME Bad # {} PROVE FALSE
      OBVIOUS
    <2>1. PICK k \in Bad : \A j \in Bad : k <= j
      <3>1. Bad \subseteq Nat
        BY <1>1
      <3> HIDE DEF Bad
      <3> QED
        BY <3>1, Least
    <2>2. k \in 0..Probes /\ ~Good(k)
      OBVIOUS
    <2>3. k # 0
      BY <1>6, <2>2
    <2>4. k \in 1..Probes /\ k - 1 \in 0..Probes /\ ~(k <= k - 1)
      BY <1>1, <2>2, <2>3
    <2>5. k - 1 \notin Bad
      <3> HIDE DEF Bad
      <3> QED
        BY <2>1, <2>4
    <2> QED
      BY <1>7, <2>2, <2>4, <2>5
  <1>9. Good(Probes)
    <2>1. Probes \in 0..Probes
      BY <1>1
    <2> HIDE DEF Good
    <2> QED
      BY <1>8, <2>1
  <1>10. Probes - Probes = 0
    BY <1>1
  <1>11. /\ Sane(f[Probes], acts, others, FALSE, 0) /\ f[Probes].link # "failing"
         /\ f[Probes].clipped = m.clipped /\ AtMost(f[Probes], Probes - 1)
    BY <1>9, <1>10
  <1> QED
    BY <1>3, <1>11 DEF kinds

\* A handler that sends no probes.
LEMMA RunKeeps ==
    ASSUME NEW m, NEW acts, NEW others,
           NEW request \in Request, NEW reply \in Answered,
           request.kind # "Version" \/ reply # "good",
           NEW version \in BOOLEAN, NEW probes \in Nat,
           NEW version2 \in BOOLEAN, NEW probes2 \in Nat,
           request.id \notin others, m.link # "failing",
           NEW all, all = others \cup {request.id}, Nearly(m, acts, all, version, probes),
           request.kind # "Version" /\ probes2 # 0 => Kinds(m.pending, "Version") = {},
           Leaves(request, reply, version, probes, version2, probes2)
    PROVE  /\ Ran(m, Run(m, request, reply), acts, others, version2, probes2)
           /\ \A count \in Nat : AtMost(m, count) => AtMost(Run(m, request, reply), count)
  <1> DEFINE h == Handled(m, request, reply)
             n == Run(m, request, reply)
  <1>1. n = SendAll(h, Asks(request, reply))
    BY DEF Run
  <1> HIDE DEF n
  <1>2. Sane(h, acts, others, version2, probes2) /\ Told(m, h, request.id)
    <2>1. request.kind # "Version" /\ probes2 # 0 => Kinds(m.pending, "Version") = {}
      OBVIOUS
    <2> HIDE DEF h
    <2>3. Nearly(m, acts, all, version, probes)
      OBVIOUS
    <2>2. /\ Sane(Handled(m, request, reply), acts, others, version2, probes2)
          /\ Told(m, Handled(m, request, reply), request.id)
      BY <2>1, <2>3, HandledKeeps
    <2> QED
      BY <2>2 DEF h
  <1> HIDE DEF h
  <1>3. h \in IPC /\ h.link = m.link /\ h.clipped = m.clipped /\ h.pending = m.pending
    BY <1>2 DEF Told
  <1>4. \A count : AtMost(m, count) => AtMost(h, count)
    BY <1>3 DEF AtMost
  <1>5. CASE request.kind = "Again"
    <2> DEFINE e == Send(h, "Once")
    <2>1. Asks(request, reply) = <<"Once">>
      BY <1>5 DEF Asks
    <2>2. n = e
      BY <1>1, <2>1, SendFew
    <2>3. /\ Sent(h, e, "Once", acts, others, version2, probes2)
          /\ \A count \in Nat : AtMost(h, count) => AtMost(e, count)
      <3> DEFINE kind == "Once"
      <3>1. kind \in Asked /\ kind # "Probe"
        BY DEF Asked, Kind
      <3>2. Sane(h, acts, others, version2, probes2) /\ h.link # "failing"
        BY <1>2, <1>3
      <3> HIDE DEF kind
      <3>3. /\ Sent(h, Send(h, kind), kind, acts, others, version2, probes2)
            /\ \A count \in Int :
                  count >= 0 - 1 /\ AtMost(h, count) => AtMost(Send(h, kind), count + 1)
            /\ \A count \in Nat : kind # "Probe" /\ AtMost(h, count) => AtMost(Send(h, kind), count)
        BY <3>1, <3>2, SendKeeps
      <3> QED
        BY <3>1, <3>3 DEF kind
    <2> HIDE DEF e
    <2>4. acts \cup {} = acts
      OBVIOUS
    <2>5. Sane(e, acts, others, version2, probes2)
      BY <2>3, <2>4 DEF Sent
    <2>6. Ran(m, n, acts, others, version2, probes2)
      BY <1>3, <2>2, <2>3, <2>5 DEF Ran, Sent
    <2> QED
      BY <1>4, <2>2, <2>3, <2>6 DEF n
  <1>6. CASE request.kind # "Again"
    <2>1. Asks(request, reply) = <<>>
      BY <1>6 DEF Asks
    <2>2. n = h
      BY <1>1, <2>1, SendFew
    <2>3. Ran(m, n, acts, others, version2, probes2)
      BY <1>2, <1>3, <2>2 DEF Ran
    <2> QED
      BY <1>4, <2>2, <2>3 DEF n
  <1> QED
    BY <1>5, <1>6

\* A handler that is told that its reply will not come.
LEMMA RunLostKeeps ==
    ASSUME NEW m, NEW acts, NEW others, NEW request \in Request,
           NEW version \in BOOLEAN, NEW probes \in Nat,
           NEW version2 \in BOOLEAN, NEW probes2 \in Nat,
           request.id \notin others, m.link # "failing",
           NEW all, all = others \cup {request.id}, Sane(m, acts, all, version, probes),
           Leaves(request, "lost", version, probes, version2, probes2)
    PROVE  Ran(m, Run(m, request, "lost"), acts, others, version2, probes2)
  <1>1. request.kind # "Version" /\ probes2 # 0 => Kinds(m.pending, "Version") = {}
    <2> SUFFICES ASSUME request.kind # "Version", probes2 # 0
                 PROVE  Kinds(m.pending, "Version") = {}
      OBVIOUS
    <2>1. probes # 0
      BY DEF Leaves
    <2> QED
      BY <2>1 DEF Sane
  <1>2. Nearly(m, acts, all, version, probes)
    BY DEF Sane
  <1> DEFINE word == "lost"
  <1>3. /\ word \in Answered /\ word # "good"
        /\ Leaves(request, word, version, probes, version2, probes2)
    BY DEF Answered
  <1> HIDE DEF word
  <1>4. request.kind # "Version" \/ word # "good"
    BY <1>3
  <1>5. /\ Ran(m, Run(m, request, word), acts, others, version2, probes2)
        /\ \A count \in Nat : AtMost(m, count) => AtMost(Run(m, request, word), count)
    BY <1>1, <1>2, <1>3, <1>4, RunKeeps
  <1> QED
    BY <1>5 DEF word

\* f is what m goes through as their handlers run.
Runs(f, m, list) ==
    f = [i \in 0..Len(list) |->
            IF i = 0 THEN m
            ELSE Run(f[i - 1], list[i], "lost")]

\* There is such an f, whatever the list.
LEMMA RunsExist ==
    ASSUME NEW m, NEW list \in Seq(Request)
    PROVE  \E f : Runs(f, m, list)
  <1> DEFINE Next1(x, i) == Run(x, list[i], "lost")
             Upto(f, n) == f = [i \in 0..n |-> IF i = 0 THEN m ELSE Next1(f[i - 1], i)]
             Bad == {n \in Nat : ~\E f : Upto(f, n)}
  <1>1. Bad = {}
    <2> SUFFICES ASSUME Bad # {} PROVE FALSE
      OBVIOUS
    <2>1. PICK n \in Bad : \A k \in Bad : n <= k
      <3>1. Bad \subseteq Nat
        OBVIOUS
      <3> HIDE DEF Bad
      <3> QED
        BY <3>1, Least
    <2> HIDE DEF Next1
    <2>2. n \in Nat /\ ~\E f : Upto(f, n)
      OBVIOUS
    <2>3. n # 0
      <3> DEFINE g == [i \in 0..0 |-> m]
      <3>1. Upto(g, 0)
        OBVIOUS
      <3> QED
        BY <2>2, <3>1
    <2>4. n - 1 \in Nat /\ n - 1 \notin Bad
      <3> HIDE DEF Bad
      <3> QED
        BY <2>1, <2>2, <2>3
    <2>5. PICK g : Upto(g, n - 1)
      BY <2>4
    <2> DEFINE h == [i \in 0..n |-> IF i = n THEN Next1(g[n - 1], n) ELSE g[i]]
    <2>6. ASSUME NEW i \in 0..n
          PROVE  h[i] = IF i = 0 THEN m ELSE Next1(h[i - 1], i)
      <3>1. CASE i = 0
        <4>1. 0 \in 0..n - 1 /\ 0 \in 0..n
          BY <2>4
        <4>2. g[0] = m /\ h[0] = g[0]
          BY <2>3, <2>5, <4>1
        <4> HIDE DEF h
        <4> QED
          BY <3>1, <4>2
      <3>2. CASE i # 0 /\ i # n
        <4>1. i \in 0..n - 1 /\ i - 1 \in 0..n /\ i - 1 # n
          BY <2>2, <3>2
        <4>2. g[i] = Next1(g[i - 1], i)
          BY <2>5, <3>2, <4>1
        <4>3. h[i] = g[i] /\ h[i - 1] = g[i - 1]
          BY <3>2, <4>1
        <4> HIDE DEF h
        <4> QED
          BY <3>2, <4>2, <4>3
      <3>3. CASE i = n
        <4>1. n - 1 \in 0..n /\ n - 1 # n /\ n \in 0..n
          BY <2>2, <2>4
        <4>2. h[n] = Next1(g[n - 1], n) /\ h[n - 1] = g[n - 1]
          BY <4>1
        <4> HIDE DEF h
        <4> QED
          BY <2>3, <3>3, <4>2
      <3> QED
        BY <3>1, <3>2, <3>3
    <2>7. h = [i \in 0..n |-> IF i = 0 THEN m ELSE Next1(h[i - 1], i)]
      <3>1. h = [i \in 0..n |-> h[i]]
        OBVIOUS
      <3> HIDE DEF h
      <3> QED
        BY <2>6, <3>1, Zenon
    <2> HIDE DEF h
    <2> QED
      BY <2>2, <2>7
  <1>2. Len(list) \in Nat
    OBVIOUS
  <1>3. \E f : Upto(f, Len(list))
    <2> HIDE DEF Upto
    <2> QED
      BY <1>1, <1>2
  <1> QED
    BY <1>3, Zenon DEF Runs

\* Between two of the handlers.
Running(x, m, list, k, others, version, probes) ==
    /\ Sane(x, {}, OthersAfter(list, k, others), VersionAfter(list, k, version),
            ProbesAfter(list, k, probes))
    /\ x.link # "failing" /\ x.clipped = m.clipped /\ OnlyOnce(x.pending)

\* The handlers of all that wait have run; what they send stays, or has been told too.
LEMMA RunAllLostKeeps ==
    ASSUME NEW m, NEW list, NEW others, NEW version \in BOOLEAN, NEW probes \in Nat,
           InLine(list, others, version, probes),
           Running(m, m, list, 0, others, version, probes)
    PROVE  Running(RunAllLost(m, list), m, list, Len(list), others, version, probes)
  <1> DEFINE n == Len(list)
             f == CHOOSE g : Runs(g, m, list)
  <1>1. list \in Seq(Request) /\ n \in Nat
    BY DEF InLine
  <1>2. Runs(f, m, list)
    BY <1>1, RunsExist, Zenon
  <1>3. RunAllLost(m, list) = f[n]
    BY Zenon DEF RunAllLost, Runs
  <1> HIDE DEF f
  <1>4. ASSUME NEW k \in 1..n, Running(f[k - 1], m, list, k - 1, others, version, probes)
        PROVE  Running(f[k], m, list, k, others, version, probes)
    <2> DEFINE x == f[k - 1]
               y == Run(x, list[k], "lost")
               v1 == VersionAfter(list, k - 1, version)
               p1 == ProbesAfter(list, k - 1, probes)
               v2 == VersionAfter(list, k, version)
               p2 == ProbesAfter(list, k, probes)
               o1 == OthersAfter(list, k - 1, others)
               o2 == OthersAfter(list, k, others)
    <2>1. f[k] = y
      <3>1. k \in 0..n /\ k # 0
        BY <1>1
      <3> QED
        BY <1>2, <3>1 DEF Runs
    <2>2. /\ list[k] \in Request /\ list[k].id \notin o2 /\ o1 = o2 \cup {list[k].id}
          /\ p1 \in Nat /\ p2 \in Nat /\ Leaves(list[k], "lost", v1, p1, v2, p2)
      <3> HIDE DEF x, y, v1, v2, p1, p2, o1, o2
      <3>1. k \in 1..Len(list)
        OBVIOUS
      <3>2. /\ list[k] \in Request
            /\ list[k].id \notin OthersAfter(list, k, others)
            /\ OthersAfter(list, k - 1, others) = OthersAfter(list, k, others) \cup {list[k].id}
            /\ ProbesAfter(list, k, probes) \in Nat /\ ProbesAfter(list, k - 1, probes) \in Nat
            /\ Leaves(list[k], "lost", VersionAfter(list, k - 1, version),
                      ProbesAfter(list, k - 1, probes), VersionAfter(list, k, version),
                      ProbesAfter(list, k, probes))
        BY <3>1, NextInLine
      <3> QED
        BY <3>2 DEF v1, v2, p1, p2, o1, o2
    <2>3. v1 \in BOOLEAN /\ v2 \in BOOLEAN
      BY DEF VersionAfter
    <2>4. /\ Sane(x, {}, o1, v1, p1) /\ x.link # "failing" /\ x.clipped = m.clipped
          /\ OnlyOnce(x.pending)
      BY <1>4 DEF Running
    <2> HIDE DEF x, v1, v2, p1, p2, o1, o2
    <2>6. Ran(x, y, {}, o2, v2, p2)
      BY <2>2, <2>3, <2>4, RunLostKeeps
    <2> HIDE DEF y
    <2> QED
      BY <2>1, <2>4, <2>6 DEF Running, Ran, v2, p2, o2
  <1> DEFINE Bad == {k \in 0..n : ~Running(f[k], m, list, k, others, version, probes)}
  <1>5. Bad = {}
    <2> SUFFICES ASSUME Bad # {} PROVE FALSE
      OBVIOUS
    <2>1. PICK k \in Bad : \A j \in Bad : k <= j
      <3>1. Bad \subseteq Nat
        BY <1>1
      <3> HIDE DEF Bad
      <3> QED
        BY <3>1, Least
    <2>2. k \in 0..n /\ ~Running(f[k], m, list, k, others, version, probes)
      OBVIOUS
    <2>3. f[0] = m
      BY <1>1, <1>2 DEF Runs
    <2>4. k # 0
      BY <2>2, <2>3
    <2>5. k \in 1..n /\ k - 1 \in 0..n /\ ~(k <= k - 1)
      BY <1>1, <2>2, <2>4
    <2>6. k - 1 \notin Bad
      <3> HIDE DEF Bad
      <3> QED
        BY <2>1, <2>5
    <2> QED
      BY <1>4, <2>2, <2>5, <2>6
  <1>6. n \in 0..n
    BY <1>1
  <1>7. Running(f[n], m, list, n, others, version, probes)
    <2> HIDE DEF n
    <2> QED
      BY <1>5, <1>6
  <1> QED
    BY <1>3, <1>7

-----------------------------------------------------------------------------
(* The dispatches. *)

\* What is left when all that waited have been told.
LEMMA FewRest ==
    ASSUME NEW n, NEW acts, Sane(n, {}, {}, FALSE, 0), n.link # "failing", OnlyOnce(n.pending)
    PROVE  Rests(n, acts)
  <1>1. n.pending \in Seq(Request)
    BY DEF Sane, Nearly, Queued, IPC
  <1>2. Cardinality(Kinds(n.pending, "Probe")) = 0
    BY <1>1, OnlyOnceNoProbes
  <1>3. AtMost(n, Probes - 1)
    BY <1>2, RequestAssumption DEF AtMost
  <1>4. Sane(n, acts, {}, FALSE, 0)
    BY DEF Sane, Nearly
  <1> QED
    BY <1>3, <1>4 DEF Rests

\* A reply that is too long.
LEMMA OversizedKeeps ==
    ASSUME NEW m, NEW acts, Rests(m, acts), m.wire # <<>>
    PROVE  Rests(RunAllLost([m EXCEPT !.wire[1].kind = "Tail", !.clipped = TRUE,
                                      !.pending = <<>>],
                            m.pending), acts)
  <1> DEFINE a == [m.wire[1] EXCEPT !.kind = "Tail"]
             w == [m.wire EXCEPT ![1] = a]
             x == [m EXCEPT !.wire = w, !.clipped = TRUE, !.pending = <<>>]
             n == RunAllLost(x, m.pending)
  <1>1. /\ m \in IPC /\ m.pending \in Seq(Request) /\ m.wire \in Seq(Answer)
        /\ Sane(m, acts, {}, FALSE, 0) /\ m.link # "failing"
    BY DEF Rests, Sane, Nearly, Queued, IPC
  <1>2. m.link \notin {"closed", "failing"}
    BY DEF Rests, Sane, Nearly, Paired
  <1>3. w \in Seq(Answer)
    <2>1. m.wire[1] \in Answer
      BY <1>1
    <2>2. a \in Answer
      BY <2>1 DEF Answer
    <2> HIDE DEF a
    <2> QED
      BY <1>1, <2>2
  <1>4. [m EXCEPT !.wire[1].kind = "Tail", !.clipped = TRUE, !.pending = <<>>] = x
    OBVIOUS
  <1> HIDE DEF w
  <1>5. <<>> \in Seq(Request)
    OBVIOUS
  <1>6. /\ x \in IPC /\ x.pending = <<>> /\ x.owed = m.owed /\ x.heard = m.heard
        /\ x.detecting = m.detecting /\ x.probesLeft = m.probesLeft
        /\ x.clipped /\ x.link = m.link
    BY <1>1, <1>3, <1>5 DEF IPC
  <1> HIDE DEF x
  <1>7. FALSE \in BOOLEAN /\ 0 \in Nat
    OBVIOUS
  <1>8. x.wire = <<>> \/ (x.clipped /\ x.link \notin {"closed", "failing"})
    BY <1>2, <1>6
  <1>9. /\ InLine(m.pending, {}, FALSE, 0)
        /\ Telling(x, x, m.pending, 0, {}, FALSE, 0)
    BY <1>1, <1>6, <1>7, <1>8, ListTaken
  <1>10. Running(x, x, m.pending, 0, {}, FALSE, 0)
    BY <1>1, <1>6, <1>9 DEF Telling, Running
  <1>11. Running(n, x, m.pending, Len(m.pending), {}, FALSE, 0)
    BY <1>7, <1>9, <1>10, RunAllLostKeeps
  <1>12. /\ OthersAfter(m.pending, Len(m.pending), {}) = {}
         /\ VersionAfter(m.pending, Len(m.pending), FALSE) = FALSE
         /\ ProbesAfter(m.pending, Len(m.pending), 0) = 0
    BY <1>1, <1>7, LineEnds
  <1> HIDE DEF n
  <1>13. Sane(n, {}, {}, FALSE, 0) /\ n.link # "failing" /\ OnlyOnce(n.pending)
    BY <1>11, <1>12 DEF Running
  <1>14. Rests(n, acts)
    BY <1>13, FewRest
  <1> QED
    BY <1>4, <1>14 DEF n

\* A connection that is dropped, or that is closed already.
LEMMA AbortedKeeps ==
    ASSUME NEW m, NEW acts, Rests(m, acts)
    PROVE  Rests(Aborted(m), acts) /\ Aborted(m).link = "closed"
  <1> DEFINE y == [m EXCEPT !.link = "closed", !.wire = <<>>]
             f == FailPending(y)
  <1>1. CASE m.link = "closed"
    BY <1>1 DEF Aborted
  <1>2. CASE m.link # "closed"
    <2>1. Aborted(m) = f
      BY <1>2 DEF Aborted
    <2>2. Sane(m, acts, {}, FALSE, 0) /\ "closed" \in {"closed", "failing"}
      BY DEF Rests
    <2>3. FALSE \in BOOLEAN /\ 0 \in Nat
      OBVIOUS
    <2>4. Failed(m, FailPending([m EXCEPT !.link = "closed", !.wire = <<>>]), "closed",
                 {}, FALSE, 0)
      BY <2>2, <2>3, FailPendingKeeps
    <2>5. Failed(m, f, "closed", {}, FALSE, 0)
      BY <2>4
    <2> HIDE DEF f
    <2>6. Sane(f, {}, {}, FALSE, 0) /\ f.link = "closed" /\ OnlyOnce(f.pending)
      BY <2>5 DEF Failed
    <2>7. Rests(f, acts)
      BY <2>6, FewRest
    <2> QED
      BY <2>1, <2>6, <2>7
  <1> QED
    BY <1>1, <1>2

\* A refusal, or the end of the connections.
LEMMA RefusedKeeps ==
    ASSUME NEW m, NEW acts, Rests(m, acts)
    PROVE  Rests(FailPending(Aborted(m)), acts)
  <1> DEFINE a == Aborted(m)
             f == FailPending(a)
  <1>1. Sane(a, acts, {}, FALSE, 0) /\ a.link = "closed"
    BY AbortedKeeps DEF Rests
  <1> HIDE DEF a
  <1>2. FALSE \in BOOLEAN /\ 0 \in Nat
    OBVIOUS
  <1>3. Failed(a, f, "closed", {}, FALSE, 0)
    BY <1>1, <1>2, FailClosedKeeps
  <1> HIDE DEF f
  <1>4. Sane(f, {}, {}, FALSE, 0) /\ f.link = "closed" /\ OnlyOnce(f.pending)
    BY <1>3 DEF Failed
  <1>5. Rests(f, acts)
    BY <1>4, FewRest
  <1> QED
    BY <1>5 DEF f, a

\* niri's end, noticed.
LEMMA GoneKeeps ==
    ASSUME NEW m, NEW acts, Rests(m, acts)
    PROVE  Rests(PeerGone(m), acts)
  <1> DEFINE n == PeerGone(m)
  <1>1. Sane(m, acts, {}, FALSE, 0) /\ FALSE \in BOOLEAN /\ 0 \in Nat
    BY DEF Rests
  <1>2. Failed(m, n, "closed", {}, FALSE, 0)
    BY <1>1, PeerGoneKeeps
  <1> HIDE DEF n
  <1>3. Sane(n, {}, {}, FALSE, 0) /\ n.link = "closed" /\ OnlyOnce(n.pending)
    BY <1>2 DEF Failed
  <1>4. Rests(n, acts)
    BY <1>3, FewRest
  <1> QED
    BY <1>4 DEF n

\* What a caller sends.
LEMMA CallKeeps ==
    ASSUME NEW m, NEW acts, Rests(m, acts), NEW kind \in {"Once", "Again", "Action"},
           NEW all, all = acts \cup (IF kind = "Action" THEN {FreshId(m)} ELSE {})
    PROVE  Rests(Send(m, kind), all)
  <1> DEFINE n == Send(m, kind)
  <1>1. kind \in Asked /\ kind # "Probe"
    BY DEF Asked, Kind
  <1>2. /\ Sane(m, acts, {}, FALSE, 0) /\ FALSE \in BOOLEAN /\ 0 \in Nat
        /\ m.link # "failing" /\ AtMost(m, Probes - 1)
    BY DEF Rests
  <1>3. Probes - 1 \in Nat
    BY RequestAssumption
  <1>4. /\ Sent(m, Send(m, kind), kind, acts, {}, FALSE, 0)
        /\ \A count \in Int : count >= 0 - 1 /\ AtMost(m, count) => AtMost(Send(m, kind), count + 1)
        /\ \A count \in Nat : kind # "Probe" /\ AtMost(m, count) => AtMost(Send(m, kind), count)
    BY <1>1, <1>2, SendKeeps
  <1>5. AtMost(n, Probes - 1)
    BY <1>1, <1>2, <1>3, <1>4
  <1> HIDE DEF n
  <1>6. Sane(n, all, {}, FALSE, 0) /\ n.link # "failing"
    BY <1>4 DEF Sent, n
  <1> QED
    BY <1>5, <1>6 DEF Rests, n

\* niri's end, which nobody has noticed: some of its replies are still to be read.
LEMMA HangsUpKeeps ==
    ASSUME NEW m, NEW acts, Rests(m, acts), m.link = "open", NEW answered \in 0..Len(m.wire)
    PROVE  Rests([m EXCEPT !.link = "hungup", !.wire = SubSeq(@, 1, answered)], acts)
  <1> DEFINE w == SubSeq(m.wire, 1, answered)
             n == [m EXCEPT !.link = "hungup", !.wire = w]
  <1>1. /\ m \in IPC /\ m.wire \in Seq(Answer) /\ Queued(m, {}) /\ Paired(m)
        /\ Detects(m, FALSE, 0) /\ Acts(m.pending) \subseteq acts
    BY DEF Rests, Sane, Nearly, Queued, IPC
  <1>2. /\ w \in Seq(Answer) /\ \A i \in DOMAIN w : i \in DOMAIN m.wire /\ w[i] = m.wire[i]
    BY <1>1
  <1> HIDE DEF w
  <1>3. /\ n \in IPC /\ n.link = "hungup" /\ n.wire = w /\ n.pending = m.pending
        /\ n.owed = m.owed /\ n.heard = m.heard /\ n.detecting = m.detecting
        /\ n.probesLeft = m.probesLeft /\ n.clipped = m.clipped
    BY <1>1, <1>2 DEF IPC, Link
  <1> HIDE DEF n
  <1>4. Queued(n, {})
    BY <1>1, <1>3 DEF Queued
  <1>5. Paired(n)
    BY <1>1, <1>2, <1>3 DEF Paired
  <1>6. Detects(n, FALSE, 0)
    BY <1>1, <1>3, Zenon DEF Detects
  <1>7. Rests(n, acts)
    BY <1>1, <1>3, <1>4, <1>5, <1>6 DEF Rests, Sane, Nearly, AtMost
  <1> QED
    BY <1>7 DEF n, w

\* A connection that has just been made, to which all that waits has been written.
Opened(m, acts) ==
    /\ Queued(m, {}) /\ Paired(m) /\ Detects(m, FALSE, 0) /\ Acts(m.pending) \subseteq acts
    /\ m.link = "open" /\ Kinds(m.pending, "Version") = {}
    /\ Cardinality(Kinds(m.pending, "Probe")) <= Probes - 1

\* What was not written is written now, and is replied to in its order.
LEMMA OpeningKeeps ==
    ASSUME NEW m, NEW acts, Rests(m, acts), m.link = "closed"
    PROVE  Opened(FlushPending([m EXCEPT !.link = "open", !.clipped = FALSE]), acts)
  <1> DEFINE s == m.pending
             q == [i \in DOMAIN s |-> [s[i] EXCEPT !.written = TRUE]]
             o == [m EXCEPT !.link = "open", !.clipped = FALSE]
             w == [i \in 1..Len(s) |-> Reply(s[i])]
             n == [m EXCEPT !.link = "open", !.clipped = FALSE, !.pending = q, !.wire = w]
  <1>1. /\ m \in IPC /\ s \in Seq(Request) /\ Queued(m, {}) /\ m.wire = <<>>
        /\ Detects(m, FALSE, 0) /\ Acts(s) \subseteq acts
        /\ Cardinality(Kinds(s, "Probe")) <= Probes - 1
    BY DEF Rests, Sane, Nearly, Queued, Paired, IPC, AtMost
  <1>2. Len(s) \in Nat /\ DOMAIN s = 1..Len(s)
    BY <1>1
  <1>3. \A i \in 1..Len(s) : ~s[i].written
    BY <1>1, <1>2 DEF Queued
  <1>4. RepliesToUnwritten(s) = w
    <2> HIDE DEF s
    <2> QED
      BY <1>1, <1>3, RepliesToAll
  <1>5. Kinds(s, "Version") = {}
    BY <1>1 DEF Detects
  <1>6. ASSUME NEW i \in 1..Len(s)
        PROVE  /\ q[i] \in Request /\ q[i].id = s[i].id /\ q[i].kind = s[i].kind /\ q[i].written
               /\ w[i] \in Answer /\ w[i].id = s[i].id
    <2>1. s[i] \in Request
      BY <1>1
    <2>2. q[i] = [s[i] EXCEPT !.written = TRUE] /\ w[i] = Reply(s[i])
      BY <1>2
    <2> HIDE DEF q, w, s
    <2>3. q[i] \in Request /\ q[i].id = s[i].id /\ q[i].kind = s[i].kind /\ q[i].written
      BY <2>1, <2>2 DEF Request
    <2>4. w[i] \in Answer /\ w[i].id = s[i].id
      <3>1. s[i].id \in Nat /\ s[i].kind \in Kind
        BY <2>1 DEF Request
      <3>2. w[i] = [id |-> s[i].id, kind |-> s[i].kind]
        BY <2>2 DEF Reply
      <3> QED
        BY <3>1, <3>2 DEF Answer
    <2> QED
      BY <2>3, <2>4
  <1>7. DOMAIN q = 1..Len(s) /\ DOMAIN w = 1..Len(s)
    BY <1>2
  <1>8. q \in Seq(Request) /\ Len(q) = Len(s) /\ w \in Seq(Answer) /\ Len(w) = Len(s)
    <2>1. q = [i \in 1..Len(s) |-> q[i]] /\ w = [i \in 1..Len(s) |-> w[i]]
      BY <1>2
    <2> HIDE DEF q, w, s
    <2>2. q \in [1..Len(s) -> Request] /\ w \in [1..Len(s) -> Answer]
      BY <1>6, <2>1
    <2> QED
      BY <1>2, <2>2
  <1>9. <<>> \o w = w
    <2> HIDE DEF w
    <2> QED
      BY <1>8
  <1>10. FlushPending(o) = n
    <2>1. o.link = "open" /\ o.pending = s /\ o.wire = <<>>
      BY <1>1 DEF IPC
    <2>2. FlushPending(o) = [o EXCEPT !.pending = q, !.wire = w]
      <3>1. FlushPending(o) = [o EXCEPT !.pending = [i \in DOMAIN o.pending |->
                                                        [o.pending[i] EXCEPT !.written = TRUE]],
                                        !.wire = o.wire \o RepliesToUnwritten(o.pending)]
        BY <2>1 DEF FlushPending
      <3> HIDE DEF o
      <3> QED
        BY <1>4, <1>9, <2>1, <3>1
    <2> HIDE DEF q, w
    <2> QED
      BY <2>2
  <1> HIDE DEF q, w, s
  <1>11. /\ n \in IPC /\ n.link = "open" /\ n.wire = w /\ n.pending = q
         /\ n.owed = m.owed /\ n.heard = m.heard /\ n.detecting = m.detecting
         /\ n.probesLeft = m.probesLeft /\ ~n.clipped
    BY <1>1, <1>8 DEF IPC, Link
  <1> HIDE DEF n
  <1>12. \A kind : Kinds(q, kind) = Kinds(s, kind)
    BY <1>2, <1>6, <1>7 DEF Kinds
  <1>13. Ids(q) = Ids(s)
    BY <1>2, <1>6, <1>7 DEF Ids
  <1>14. Acts(q) = Acts(s)
    <2>1. Kinds(q, "Action") = Kinds(s, "Action") /\ Kinds(s, "Action") \subseteq 1..Len(s)
      BY <1>1, <1>12, KindsFinite
    <2> QED
      BY <1>6, <2>1 DEF Acts
  <1>15. Queued(n, {})
    BY <1>1, <1>2, <1>6, <1>7, <1>11, <1>13 DEF Queued, s
  <1>16. Paired(n)
    BY <1>6, <1>7, <1>8, <1>11 DEF Paired
  <1>17. Detects(n, FALSE, 0)
    BY <1>1, <1>5, <1>11, <1>12, Zenon DEF Detects, s
  <1>18. Opened(n, acts)
    BY <1>1, <1>5, <1>11, <1>12, <1>14, <1>15, <1>16, <1>17 DEF Opened
  <1> QED
    BY <1>10, <1>18 DEF o

\* A detection begins once its connection is there.
LEMMA DetectKeeps ==
    ASSUME NEW m, NEW acts, Opened(m, acts)
    PROVE  Rests(Detect(m), acts)
  <1> DEFINE x == [m EXCEPT !.detecting = TRUE, !.probesLeft = 0, !.heard = <<>>]
             n == Enqueue(x, "Version")
             id == FreshId(x)
  <1>1. /\ m \in IPC /\ Queued(m, {}) /\ Paired(m) /\ Acts(m.pending) \subseteq acts
        /\ m.link = "open" /\ Kinds(m.pending, "Version") = {}
        /\ Cardinality(Kinds(m.pending, "Probe")) <= Probes - 1
    BY DEF Opened, Queued
  <1>2. <<>> \in Seq(Signal) /\ 0 \in 1 - Probes..Probes
    BY RequestAssumption
  <1>3. /\ x \in IPC /\ x.link = "open" /\ x.wire = m.wire /\ x.pending = m.pending
        /\ x.owed = m.owed /\ x.heard = <<>> /\ x.detecting /\ x.probesLeft = 0
        /\ x.clipped = m.clipped
    BY <1>1, <1>2 DEF IPC
  <1>4. Detect(m) = n
    <2>1. Detect(m) = Send(x, "Version")
      BY <1>1 DEF Detect
    <2> HIDE DEF x
    <2> QED
      BY <1>3, <2>1 DEF Send
  <1> HIDE DEF x
  <1>5. Queued(x, {}) /\ Paired(x)
    BY <1>1, <1>3 DEF Queued, Paired
  <1>6. /\ IsFiniteSet(x.owed)
        /\ \A i \in DOMAIN x.pending : x.pending[i].written <=> x.link # "closed"
    BY <1>5 DEF Queued
  <1>7. id \in Nat /\ id \notin x.owed
    BY <1>3, <1>6, FreshIsFresh
  <1>8. "Version" \in Kind
    BY DEF Kind
  <1>9. OneMore(x, n, id, "Version")
    <2>1. n = Joined(x, id, "Version")
      BY <1>3, <1>6, <1>8, Enqueued
    <2> HIDE DEF n, id
    <2> QED
      BY <1>3, <1>7, <1>8, <2>1, JoinedIs
  <1> HIDE DEF n, id
  <1>10. Queued(n, {}) /\ Paired(n)
    BY <1>3, <1>5, <1>7, <1>8, <1>9, QueuedJoined, PairedJoined
  <1>11. KindsToo(x, n, id, "Version")
    BY <1>3, <1>7, <1>8, <1>9, KindsJoined
  <1> DEFINE k == Len(x.pending)
             c == Cardinality(Kinds(n.pending, "Probe"))
  <1>12. /\ Kinds(n.pending, "Version") = {k + 1}
         /\ Kinds(n.pending, "Probe") = Kinds(m.pending, "Probe")
         /\ k \in Nat /\ Kinds(m.pending, "Probe") \subseteq 1..k
         /\ Acts(n.pending) = Acts(m.pending)
    BY <1>1, <1>3, <1>11 DEF KindsToo
  <1>13. n.link = "open" /\ n.heard = <<>> /\ n.probesLeft = 0
    BY <1>3, <1>9 DEF OneMore
  <1>14. c \in Nat /\ c <= Probes - 1 /\ Probes \in Nat
    BY <1>1, <1>12, KindsFinite, RequestAssumption DEF IPC
  <1> HIDE DEF k
  <1>15. Detects(n, FALSE, 0)
    <2>1. \A i \in Kinds(n.pending, "Version") :
              /\ n.link # "closed"
              /\ \A j \in Kinds(n.pending, "Version") : j = i
              /\ \A j \in Kinds(n.pending, "Probe") : j < i
      <3>1. \A j \in 1..k : j < k + 1
        BY <1>12
      <3> QED
        BY <1>12, <1>13, <3>1
    <2>2. DOMAIN n.heard = {}
      BY <1>13
    <2>3. 1 - Probes + (c + 0) <= n.probesLeft /\ n.probesLeft <= Probes
      BY <1>13, <1>14
    <2>4. Kinds(n.pending, "Version") # {}
      BY <1>12
    <2> QED
      BY <2>1, <2>2, <2>3, <2>4, Zenon DEF Detects, c
  <1>16. Rests(n, acts)
    BY <1>1, <1>10, <1>12, <1>13, <1>15 DEF Rests, Sane, Nearly, AtMost
  <1> QED
    BY <1>4, <1>16

-----------------------------------------------------------------------------
(* Replies. *)

\* The kinds of what is left of a list when its first request is taken.
LEMMA KindsTaken ==
    ASSUME NEW s \in Seq(Request), s # <<>>, NEW kind
    PROVE  /\ \A i \in Kinds(Tail(s), kind) : i \in Nat \ {0} /\ i + 1 \in Kinds(s, kind)
           /\ Cardinality(Kinds(s, kind)) =
                  Cardinality(Kinds(Tail(s), kind)) + (IF s[1].kind = kind THEN 1 ELSE 0)
  <1> DEFINE t == Tail(s)
             A == Kinds(t, kind)
             B == Kinds(s, kind)
             f == [i \in A |-> i + 1]
  <1>1. /\ t \in Seq(Request) /\ Len(s) \in Nat \ {0} /\ Len(t) = Len(s) - 1
        /\ DOMAIN s = 1..Len(s) /\ DOMAIN t = 1..Len(s) - 1
        /\ \A i \in 1..Len(s) - 1 : t[i] = s[i + 1]
    OBVIOUS
  <1> HIDE DEF t
  <1>2. A \subseteq 1..Len(s) - 1 /\ B \subseteq 1..Len(s)
    BY <1>1 DEF Kinds
  <1>3. \A i \in 1..Len(s) - 1 : i + 1 \in 1..Len(s) /\ i \in Nat \ {0}
    BY <1>1
  <1>4. \A i \in A : i \in Nat \ {0} /\ i + 1 \in B
    BY <1>1, <1>2, <1>3 DEF Kinds
  <1>5. ASSUME NEW j \in B, j # 1
        PROVE  j - 1 \in A
    <2>1. j \in 1..Len(s) /\ s[j].kind = kind
      BY <1>1 DEF Kinds
    <2>2. j - 1 \in 1..Len(s) - 1 /\ (j - 1) + 1 = j
      BY <1>1, <1>5, <2>1
    <2>3. t[j - 1] = s[j]
      BY <1>1, <2>2
    <2> QED
      BY <1>1, <2>1, <2>2, <2>3 DEF Kinds
  <1> HIDE DEF A, B
  <1>6. f \in Bijection(A, B \ {1})
    <2>1. f \in [A -> B \ {1}]
      <3>1. \A i \in A : i + 1 # 1
        BY <1>1, <1>2
      <3> QED
        BY <1>4, <3>1
    <2>2. \A i, j \in A : f[i] = f[j] => i = j
      BY <1>4
    <2>3. \A j \in B \ {1} : \E i \in A : f[i] = j
      <3> TAKE j \in B \ {1}
      <3>1. j - 1 \in A
        BY <1>5
      <3>2. f[j - 1] = (j - 1) + 1 /\ j \in Int
        BY <1>1, <1>2, <3>1
      <3> QED
        BY <3>1, <3>2
    <2> HIDE DEF f
    <2>4. f \in Injection(A, B \ {1}) /\ f \in Surjection(A, B \ {1})
      BY <2>1, <2>2, <2>3 DEF Injection, Surjection, IsInjective
    <2> QED
      BY <2>4 DEF Bijection
  <1> HIDE DEF f
  <1>7. IsFiniteSet(A) /\ IsFiniteSet(B) /\ Cardinality(A) \in Nat /\ Cardinality(B) \in Nat
    BY <1>1, KindsFinite DEF A, B
  <1>8. Cardinality(B \ {1}) = Cardinality(A)
    <2>1. ExistsBijection(A, B \ {1})
      BY <1>6 DEF ExistsBijection
    <2> QED
      BY <1>7, <2>1, FS_Bijection
  <1>9. Cardinality(B \ {1}) = IF 1 \in B THEN Cardinality(B) - 1 ELSE Cardinality(B)
    BY <1>7, FS_RemoveElement
  <1>10. 1 \in B <=> s[1].kind = kind
    BY <1>1 DEF B, Kinds
  <1>11. Cardinality(B) = Cardinality(A) + (IF s[1].kind = kind THEN 1 ELSE 0)
    BY <1>7, <1>8, <1>9, <1>10
  <1> QED
    BY <1>4, <1>11 DEF t, A, B

\* What the oldest request's handler is called with still to come.
Probing(request) == IF request.kind = "Probe" THEN 1 ELSE 0

\* The oldest request is taken, with the next line.
Taken(m) == [m EXCEPT !.wire = Tail(@), !.pending = Tail(@)]

LEMMA TakenKeeps ==
    ASSUME NEW m, NEW acts, Rests(m, acts), m.wire # <<>>, m.pending # <<>>,
           NEW request, request = Head(m.pending),
           NEW all, all = {request.id},
           NEW version \in BOOLEAN, version <=> request.kind = "Version"
    PROVE  /\ Nearly(Taken(m), acts, all, version, Probing(request))
           /\ request \in Request
           /\ Taken(m).link = m.link /\ Taken(m).clipped = m.clipped
  <1> DEFINE s == m.pending
             t == Tail(s)
             w == Tail(m.wire)
             x == Taken(m)
  <1>1. /\ m \in IPC /\ s \in Seq(Request) /\ m.wire \in Seq(Answer)
        /\ Queued(m, {}) /\ Paired(m) /\ Detects(m, FALSE, 0) /\ Acts(s) \subseteq acts
    BY DEF Rests, Sane, Nearly, Queued, IPC
  <1>2. /\ t \in Seq(Request) /\ Len(s) \in Nat \ {0} /\ Len(t) = Len(s) - 1
        /\ DOMAIN s = 1..Len(s) /\ DOMAIN t = 1..Len(s) - 1
        /\ \A i \in 1..Len(s) - 1 : t[i] = s[i + 1]
        /\ request = s[1] /\ request \in Request
    BY <1>1
  <1>3. /\ w \in Seq(Answer) /\ Len(m.wire) \in Nat \ {0} /\ Len(w) = Len(m.wire) - 1
        /\ DOMAIN m.wire = 1..Len(m.wire) /\ DOMAIN w = 1..Len(m.wire) - 1
        /\ \A i \in 1..Len(m.wire) - 1 : w[i] = m.wire[i + 1]
    BY <1>1
  <1>4. \A i \in 1..Len(s) - 1 : i \in Int /\ i + 1 \in 1..Len(s) /\ i + 1 # 1
    BY <1>2
  <1>5. \A i \in 1..Len(s) : i = 1 \/ (i - 1 \in 1..Len(s) - 1 /\ (i - 1) + 1 = i)
    BY <1>2
  <1>6. \A kind : /\ \A i \in Kinds(t, kind) : i \in Nat \ {0} /\ i + 1 \in Kinds(s, kind)
                  /\ Cardinality(Kinds(s, kind)) =
                         Cardinality(Kinds(t, kind)) + (IF s[1].kind = kind THEN 1 ELSE 0)
    BY <1>1, KindsTaken
  <1> HIDE DEF t, w
  <1>7. /\ x \in IPC /\ x.wire = w /\ x.pending = t /\ x.owed = m.owed /\ x.heard = m.heard
        /\ x.detecting = m.detecting /\ x.probesLeft = m.probesLeft
        /\ x.link = m.link /\ x.clipped = m.clipped
    <2>1. x = [m EXCEPT !.wire = w, !.pending = t]
      BY DEF Taken, w, t
    <2> HIDE DEF x
    <2> QED
      BY <1>1, <1>2, <1>3, <2>1 DEF IPC
  <1> HIDE DEF x, s
  <1>8. Queued(x, all)
    <2>1. Ids(s) = Ids(t) \cup all
      <3>1. ASSUME NEW id \in Ids(s)
            PROVE  id \in Ids(t) \cup all
        <4>1. PICK i \in 1..Len(s) : id = s[i].id
          BY <1>2 DEF Ids
        <4>2. CASE i = 1
          BY <1>2, <4>1, <4>2
        <4>3. CASE i # 1
          <5>1. i - 1 \in 1..Len(s) - 1 /\ (i - 1) + 1 = i
            BY <1>5, <4>1, <4>3
          <5>2. t[i - 1] = s[i]
            BY <1>2, <5>1
          <5> QED
            BY <1>2, <4>1, <5>1, <5>2 DEF Ids
        <4> QED
          BY <4>2, <4>3
      <3>2. ASSUME NEW id \in Ids(t) \cup all
            PROVE  id \in Ids(s)
        <4>1. CASE id \in all
          <5>1. id = s[1].id /\ 1 \in 1..Len(s)
            BY <1>2, <4>1
          <5> QED
            BY <1>2, <5>1 DEF Ids
        <4>2. CASE id \in Ids(t)
          <5>1. PICK i \in 1..Len(s) - 1 : id = t[i].id
            BY <1>2, <4>2 DEF Ids
          <5>2. i + 1 \in 1..Len(s) /\ id = s[i + 1].id
            BY <1>2, <1>4, <5>1
          <5> QED
            BY <1>2, <5>2 DEF Ids
        <4> QED
          BY <4>1, <4>2
      <3> QED
        BY <3>1, <3>2
    <2>2. IsFiniteSet(m.owed) /\ m.owed = Ids(s)
      BY <1>1 DEF Queued, s
    <2>3. /\ \A i, j \in 1..Len(s) : s[i].id = s[j].id => i = j
          /\ \A i \in 1..Len(s) : s[i].written <=> m.link # "closed"
      BY <1>1, <1>2 DEF Queued, s
    <2>4. \A i \in 1..Len(s) - 1 : t[i].id \notin all
      <3> TAKE i \in 1..Len(s) - 1
      <3>1. i + 1 \in 1..Len(s) /\ i + 1 # 1 /\ 1 \in 1..Len(s)
        BY <1>2, <1>4
      <3>2. s[i + 1].id # s[1].id
        BY <2>3, <3>1
      <3> QED
        BY <1>2, <3>2
    <2>5. \A i, j \in 1..Len(s) - 1 : t[i].id = t[j].id => i = j
      <3> TAKE i, j \in 1..Len(s) - 1
      <3>1. s[i + 1].id = s[j + 1].id => i + 1 = j + 1
        BY <1>4, <2>3
      <3> QED
        BY <1>2, <1>4, <3>1
    <2>6. \A i \in 1..Len(s) - 1 : t[i].written <=> m.link # "closed"
      BY <1>2, <1>4, <2>3
    <2> QED
      BY <1>2, <1>7, <2>1, <2>2, <2>4, <2>5, <2>6 DEF Queued
  <1>9. Paired(x)
    <2>1. m.link \notin {"closed", "failing"}
      BY <1>1 DEF Paired
    <2>2. ASSUME ~m.clipped
          PROVE  /\ \A i \in DOMAIN w : i \in DOMAIN t /\ t[i].id = w[i].id
                 /\ m.link = "open" => Len(w) = Len(t)
      <3>1. /\ \A i \in 1..Len(m.wire) : i \in 1..Len(s) /\ s[i].id = m.wire[i].id
            /\ m.link = "open" => Len(m.wire) = Len(s)
        BY <1>1, <1>2, <1>3, <2>2 DEF Paired, s
      <3>2. ASSUME NEW i \in 1..Len(m.wire) - 1
            PROVE  i \in 1..Len(s) - 1 /\ t[i].id = w[i].id
        <4>1. i + 1 \in 1..Len(m.wire)
          BY <1>3
        <4>2. i + 1 \in 1..Len(s) /\ s[i + 1].id = m.wire[i + 1].id
          BY <3>1, <4>1
        <4>3. i \in 1..Len(s) - 1
          BY <1>2, <1>3, <4>2
        <4> QED
          BY <1>2, <1>3, <4>2, <4>3
      <3>3. m.link = "open" => Len(w) = Len(t)
        BY <1>2, <1>3, <3>1
      <3> QED
        BY <1>2, <1>3, <3>2, <3>3
    <2> QED
      BY <1>7, <2>1, <2>2 DEF Paired
  <1> DEFINE c(q) == Cardinality(Kinds(q, "Probe"))
  <1>10. c(s) \in Nat /\ c(t) \in Nat /\ c(t) + Probing(request) = c(s) /\ c(s) + 0 = c(s)
    <2>1. c(s) \in Nat /\ c(t) \in Nat
      BY <1>1, <1>2, KindsFinite
    <2>2. c(s) = c(t) + (IF s[1].kind = "Probe" THEN 1 ELSE 0)
      BY <1>6
    <2> HIDE DEF c
    <2> QED
      BY <1>2, <2>1, <2>2 DEF Probing
  <1>11. /\ \A i \in Kinds(s, "Version") :
               /\ m.link # "closed"
               /\ \A j \in Kinds(s, "Version") : j = i
               /\ \A j \in Kinds(s, "Probe") : j < i
         /\ Kinds(s, "Version") # {} => NoVerdict(m)
         /\ NotBoth(m)
         /\ m.detecting => Kinds(s, "Version") # {} \/ m.probesLeft \in 1..c(s)
         /\ 1 - Probes + c(s) <= m.probesLeft /\ m.probesLeft <= Probes
    BY <1>1, <1>10 DEF Detects, NoVerdict, NotBoth, s
  <1>12. version => 1 \in Kinds(s, "Version")
    BY <1>2 DEF Kinds
  <1>13. version => Kinds(t, "Version") = {} /\ Kinds(t, "Probe") = {}
    <2> SUFFICES ASSUME version PROVE Kinds(t, "Version") = {} /\ Kinds(t, "Probe") = {}
      OBVIOUS
    <2>1. \A j \in Kinds(s, "Version") : j = 1
      BY <1>11, <1>12
    <2>2. \A j \in Kinds(s, "Probe") : j < 1
      BY <1>11, <1>12
    <2>3. \A i \in Nat \ {0} : i + 1 # 1 /\ ~(i + 1 < 1)
      OBVIOUS
    <2> QED
      BY <1>6, <2>1, <2>2, <2>3
  <1>14. Kinds(s, "Version") # {} => version \/ Kinds(t, "Version") # {}
    <2> SUFFICES ASSUME NEW i \in Kinds(s, "Version")
                 PROVE  version \/ Kinds(t, "Version") # {}
      OBVIOUS
    <2>1. i \in 1..Len(s) /\ s[i].kind = "Version"
      BY <1>2 DEF Kinds
    <2>2. CASE i = 1
      BY <1>2, <2>1, <2>2
    <2>3. CASE i # 1
      <3>1. i - 1 \in 1..Len(s) - 1 /\ (i - 1) + 1 = i
        BY <1>5, <2>1, <2>3
      <3>2. t[i - 1] = s[i]
        BY <1>2, <3>1
      <3>3. i - 1 \in Kinds(t, "Version")
        BY <1>2, <2>1, <3>1, <3>2 DEF Kinds
      <3> QED
        BY <3>3
    <2> QED
      BY <2>2, <2>3
  <1>15. Kinds(t, "Version") # {} => Kinds(s, "Version") # {}
    BY <1>6
  <1>16. \A i \in Kinds(t, "Version") :
              /\ m.link # "closed"
              /\ \A j \in Kinds(t, "Version") : j = i
              /\ \A j \in Kinds(t, "Probe") : j < i
    <2> TAKE i \in Kinds(t, "Version")
    <2>1. i \in Nat /\ i + 1 \in Kinds(s, "Version")
      BY <1>6
    <2>2. ASSUME NEW j \in Kinds(t, "Version") PROVE j = i
      <3>1. j \in Nat /\ j + 1 \in Kinds(s, "Version")
        BY <1>6
      <3>2. j + 1 = i + 1
        BY <1>11, <2>1, <3>1
      <3> QED
        BY <2>1, <3>1, <3>2
    <2>3. ASSUME NEW j \in Kinds(t, "Probe") PROVE j < i
      <3>1. j \in Nat /\ j + 1 \in Kinds(s, "Probe")
        BY <1>6
      <3>2. j + 1 < i + 1
        BY <1>11, <2>1, <3>1
      <3> QED
        BY <2>1, <3>1, <3>2
    <2> QED
      BY <1>11, <2>1, <2>2, <2>3
  <1> HIDE DEF c
  <1>17. Detects(x, version, Probing(request))
    <2>1. version \/ Kinds(t, "Version") # {} => NoVerdict(m)
      BY <1>11, <1>12, <1>15
    <2>2. m.detecting => version \/ Kinds(t, "Version") # {}
                         \/ m.probesLeft \in 1..c(t) + Probing(request)
      BY <1>10, <1>11, <1>14
    <2>3. 1 - Probes + (c(t) + Probing(request)) <= m.probesLeft /\ m.probesLeft <= Probes
      BY <1>10, <1>11
    <2>4. version \/ Kinds(t, "Version") # {} => \A i \in DOMAIN x.heard : x.heard[i] \notin Verdict
      BY <1>7, <2>1 DEF NoVerdict
    <2>5. ~ \E i, j \in DOMAIN x.heard :
                x.heard[i] = "versionDetected" /\ x.heard[j] = "detectionFailed"
      BY <1>7, <1>11 DEF NotBoth
    <2> QED
      BY <1>7, <1>13, <1>16, <2>2, <2>3, <2>4, <2>5, Zenon DEF Detects, c
  <1>18. Acts(t) \subseteq acts
    <2>1. \A i \in Kinds(t, "Action") : i + 1 \in Kinds(s, "Action") /\ t[i] = s[i + 1]
      <3> TAKE i \in Kinds(t, "Action")
      <3>1. i \in 1..Len(s) - 1
        BY <1>2 DEF Kinds
      <3> QED
        BY <1>2, <1>6, <3>1
    <2>2. Acts(t) \subseteq Acts(s)
      BY <2>1 DEF Acts
    <2> QED
      BY <1>1, <2>2 DEF s
  <1>19. Nearly(x, acts, all, version, Probing(request))
    BY <1>7, <1>8, <1>9, <1>17, <1>18 DEF Nearly
  <1> QED
    BY <1>2, <1>7, <1>19 DEF x

\* A line that is read is the answer to the oldest request, or to none.
LEMMA DeliverKeeps ==
    ASSUME NEW m, NEW acts, Rests(m, acts), m.wire # <<>>, NEW reply \in {"good", "bad"}
    PROVE  LET n == Deliver([m EXCEPT !.wire = Tail(@)], Head(m.wire), reply)
           IN  Rests(n, acts) /\ n.clipped = m.clipped
  <1> DEFINE w == Tail(m.wire)
             y == [m EXCEPT !.wire = Tail(@)]
             n == Deliver(y, Head(m.wire), reply)
             request == Head(m.pending)
             word == IF Head(m.wire).kind = request.kind THEN reply ELSE "bad"
  <1>1. /\ m \in IPC /\ m.wire \in Seq(Answer) /\ Queued(m, {}) /\ Paired(m)
        /\ Detects(m, FALSE, 0) /\ Acts(m.pending) \subseteq acts
    BY DEF Rests, Sane, Nearly, Queued, IPC
  <1>2. y.pending = m.pending /\ y = [m EXCEPT !.wire = w] /\ w \in Seq(Answer)
    BY <1>1 DEF IPC
  <1>3. CASE m.pending = <<>>
    <2>1. n = y
      BY <1>2, <1>3 DEF Deliver
    <2> HIDE DEF n, w
    <2>2. /\ y \in IPC /\ y.wire = w /\ y.pending = m.pending /\ y.owed = m.owed
          /\ y.heard = m.heard /\ y.detecting = m.detecting /\ y.probesLeft = m.probesLeft
          /\ y.link = m.link /\ y.clipped = m.clipped
      BY <1>1, <1>2 DEF IPC
    <2> HIDE DEF y
    <2>3. m.clipped /\ m.link \notin {"closed", "failing"}
      <3>1. 1 \in DOMAIN m.wire /\ DOMAIN m.pending = {}
        BY <1>1, <1>3
      <3> QED
        BY <1>1, <3>1 DEF Paired
    <2>4. Queued(y, {}) /\ Paired(y)
      BY <1>1, <2>2, <2>3 DEF Queued, Paired
    <2>5. Detects(y, FALSE, 0)
      BY <1>1, <2>2, Zenon DEF Detects
    <2>6. Rests(y, acts)
      BY <1>1, <2>2, <2>4, <2>5 DEF Rests, Sane, Nearly, AtMost
    <2> QED
      BY <2>1, <2>2, <2>6 DEF n, y
  <1>4. CASE m.pending # <<>>
    <2> DEFINE x == Taken(m)
               version == request.kind = "Version"
               probes == Probing(request)
               all == {request.id}
    <2>1. n = Run(x, request, word)
      <3>1. n = Run([y EXCEPT !.pending = Tail(@)], request, word)
        BY <1>2, <1>4 DEF Deliver
      <3>2. [y EXCEPT !.pending = Tail(@)] = x
        BY <1>1 DEF Taken, IPC
      <3> HIDE DEF y, x, n
      <3> QED
        BY <3>1, <3>2
    <2>2. version \in BOOLEAN /\ (version <=> request.kind = "Version")
      OBVIOUS
    <2>3. probes \in Nat /\ Probes \in Nat /\ 0 \in Nat /\ FALSE \in BOOLEAN
      BY RequestAssumption DEF Probing
    <2>4. word \in Answered
      BY DEF Answered
    <2> HIDE DEF n, x, version, word, all
    <2>5. /\ Nearly(x, acts, all, version, probes)
          /\ request \in Request /\ x.link = m.link /\ x.clipped = m.clipped
      <3>1. all = {request.id}
        BY DEF all
      <3> HIDE DEF request, probes
      <3>2. /\ Nearly(Taken(m), acts, all, version, Probing(request))
            /\ request \in Request
            /\ Taken(m).link = m.link /\ Taken(m).clipped = m.clipped
        <4>1. request = Head(m.pending)
          BY DEF request
        <4> QED
          BY <1>4, <2>2, <3>1, <4>1, TakenKeeps
      <3> QED
        BY <3>2 DEF x, probes
    <2>6. all = {} \cup {request.id} /\ request.id \notin {}
      BY DEF all
    <2>7. m.link \notin {"closed", "failing"}
      BY <1>1 DEF Paired
    <2> HIDE DEF request
    <2>8. probes = IF request.kind = "Probe" THEN 1 ELSE 0
      BY DEF Probing
    <2> HIDE DEF probes
    <2>9. CASE request.kind = "Version" /\ word = "good"
      <3> DEFINE h == Handled(x, request, word)
                 s == SendAll(h, [probe \in 1..Probes |-> "Probe"])
      <3>1. n = s
        BY <2>1, <2>9 DEF Run, Asks
      <3>2. Leaves(request, word, version, probes, FALSE, Probes)
        BY <2>2, <2>8, <2>9 DEF Leaves
      <3>3. request.kind # "Version" /\ Probes # 0 => Kinds(x.pending, "Version") = {}
        BY <2>9
      <3>4. Sane(h, acts, {}, FALSE, Probes) /\ Told(x, h, request.id)
        BY <2>2, <2>3, <2>4, <2>5, <2>6, <3>2, <3>3, HandledKeeps
      <3> HIDE DEF h
      <3>5. h.link = m.link /\ h.clipped = m.clipped
        BY <2>5, <3>4 DEF Told
      <3>6. /\ Sane(s, acts, {}, FALSE, 0)
            /\ s.link # "failing" /\ s.clipped = h.clipped /\ AtMost(s, Probes - 1)
        BY <2>7, <3>4, <3>5, ProbesSent
      <3> HIDE DEF s
      <3>7. Rests(n, acts) /\ n.clipped = m.clipped
        BY <3>1, <3>5, <3>6 DEF Rests
      <3> QED
        BY <3>7 DEF n
    <2>10. CASE request.kind # "Version" \/ word # "good"
      <3> DEFINE r == Run(x, request, word)
      <3>1. Leaves(request, word, version, probes, FALSE, 0)
        BY <2>2, <2>8, <2>10 DEF Leaves
      <3>2. request.kind # "Version" /\ 0 # 0 => Kinds(x.pending, "Version") = {}
        OBVIOUS
      <3>3. x.link # "failing" /\ AtMost(x, Probes - 1)
        BY <2>5, <2>7 DEF AtMost
      <3>4. /\ Ran(x, Run(x, request, word), acts, {}, FALSE, 0)
            /\ \A count \in Nat : AtMost(x, count) => AtMost(Run(x, request, word), count)
        BY <2>2, <2>3, <2>4, <2>5, <2>6, <2>10, <3>1, <3>2, <3>3, RunKeeps
      <3>5. Probes - 1 \in Nat
        BY RequestAssumption
      <3>6. Rests(n, acts) /\ n.clipped = m.clipped
        BY <2>1, <2>5, <3>3, <3>4, <3>5 DEF Ran, Rests
      <3> QED
        BY <3>6 DEF n
    <2> QED
      BY <2>9, <2>10
  <1> QED
    BY <1>3, <1>4

-----------------------------------------------------------------------------
(* The shell's calls. *)

\* What every state satisfies: beyond what a caller is told, that its call is on the list
\* exactly while it waits.
ActionsInv ==
    /\ IPCInv /\ ResultsAreTrue
    /\ actions = [asked |-> actions.asked, told |-> actions.told]

\* What is still on the list waits, and the others have been told.
LEMMA ConcludeKeeps ==
    ASSUME NEW asked, NEW answered, NEW outcome, NEW performed,
           Conclude(asked, answered, outcome, performed), Waiting' \subseteq DOMAIN asked,
           \A id \in DOMAIN asked : asked[id].sent = asked[id].call,
           outcome = "handled" /\ ~ipc'.clipped => answered \cap DOMAIN asked \subseteq performed
    PROVE  ResultsAreTrue' /\ actions' = [asked |-> actions'.asked, told |-> actions'.told]
  <1> DEFINE kept == [id \in DOMAIN asked \cap Waiting' |-> asked[id]]
             Outcomes(id) == [outcome |-> IF id \in answered THEN outcome ELSE "notDelivered",
                              performed |-> id \in performed]
             told == {Outcomes(id) : id \in DOMAIN asked \ Waiting'}
  <1>1. actions' = [asked |-> kept, told |-> told]
    BY DEF Conclude
  <1>2. DOMAIN kept = Waiting' /\ \A id \in DOMAIN kept : kept[id].sent = kept[id].call
    OBVIOUS
  <1>3. \A t \in told : t.outcome = "handled" /\ ~ipc'.clipped => t.performed
    <2> SUFFICES ASSUME NEW id \in DOMAIN asked \ Waiting',
                        Outcomes(id).outcome = "handled", ~ipc'.clipped
                 PROVE  Outcomes(id).performed
      OBVIOUS
    <2>1. id \in answered /\ outcome = "handled"
      OBVIOUS
    <2>2. id \in performed
      BY <2>1
    <2> QED
      BY <2>2
  <1> HIDE DEF kept, told
  <1>4. actions'.asked = kept /\ actions'.told = told
    BY <1>1
  <1> QED
    BY <1>1, <1>2, <1>3, <1>4 DEF ResultsAreTrue

\* The requests that wait are those of the actions.
LEMMA WaitingIs == Waiting = Acts(ipc.pending)
  BY DEF Waiting, Pending, Acts, Kinds

\* The requests of the actions that may wait are those that do.
LEMMA RestsOwn ==
    ASSUME NEW m, NEW acts, Rests(m, acts)
    PROVE  Rests(m, Acts(m.pending)) /\ Acts(m.pending) \subseteq acts
  BY DEF Rests, Sane, Nearly

\* No dispatch besides a call of the shell's puts a request of its own on the list.
LEMMA UpsetKeeps ==
    ASSUME IPCInv, Upset \/ CallerSends
    PROVE  Rests(ipc', Waiting)
  <1>1. Rests(ipc, Waiting)
    BY DEF IPCInv
  <1>2. CASE Dial
    <2>1. PICK accepted \in BOOLEAN : ConnectToCompositor(accepted)
      BY <1>2 DEF Dial
    <2> DEFINE a == Aborted(ipc)
    <2>2. Rests(a, Waiting) /\ a.link = "closed"
      BY <1>1, AbortedKeeps
    <2>3. CASE accepted
      <3> DEFINE o == FlushPending([a EXCEPT !.link = "open", !.clipped = FALSE])
      <3>1. ipc' = Detect(o)
        BY <2>1, <2>3 DEF ConnectToCompositor
      <3> HIDE DEF a
      <3>2. Opened(o, Waiting)
        BY <2>2, OpeningKeeps
      <3> HIDE DEF o
      <3> QED
        BY <3>1, <3>2, DetectKeeps
    <2>4. CASE ~accepted
      <3>1. ipc' = FailPending(Aborted(ipc))
        BY <2>1, <2>4 DEF ConnectToCompositor
      <3> QED
        BY <1>1, <3>1, RefusedKeeps
    <2> QED
      BY <2>3, <2>4
  <1>3. CASE DisconnectFromCompositor
    BY <1>1, <1>3, RefusedKeeps DEF DisconnectFromCompositor
  <1>4. CASE ReadOversized
    BY <1>1, <1>4, OversizedKeeps DEF ReadOversized
  <1>5. CASE PeerClosed
    BY <1>1, <1>5, GoneKeeps DEF PeerClosed
  <1>6. CASE HangsUp
    BY <1>1, <1>6, HangsUpKeeps DEF HangsUp
  <1>7. CASE CallerSends
    <2>1. PICK kind \in {"Once", "Again"} : ipc' = Send(ipc, kind)
      BY <1>7 DEF CallerSends
    <2>2. Waiting = Waiting \cup (IF kind = "Action" THEN {FreshId(ipc)} ELSE {})
      OBVIOUS
    <2>3. Rests(Send(ipc, kind), Waiting)
      BY <1>1, <2>2, CallKeeps
    <2> QED
      BY <2>1, <2>3
  <1> QED
    BY <1>2, <1>3, <1>4, <1>5, <1>6, <1>7 DEF Upset

\* What is sent as a target is the target.
LEMMA EncodedIs ==
    ASSUME NEW call \in Calls, NEW sent \in Encoded(call[2], call[3])
    PROVE  [call EXCEPT ![3] = sent] = call
  <1> DEFINE how == call[2]
             target == call[3]
  <1>1. ASSUME NEW A, NEW B, NEW C, NEW x \in A \X B \X C
        PROVE  x = <<x[1], x[2], x[3]>> /\ x[2] \in B
    OBVIOUS
  <1>2. /\ call = <<call[1], call[2], call[3]>>
        /\ call[2] \in {"none", "name", "index", "id", "window", "digits", "text"}
    BY <1>1 DEF Calls
  <1>3. \A id : IsAddressableId(id) => IdValue(id) = id
    BY DEF IsAddressableId, IdValue
  <1>4. Encoded(how, target) \subseteq {target}
    BY <1>2, <1>3 DEF Encoded, IdFromText
  <1>5. sent = call[3]
    BY <1>4
  <1> HIDE DEF how, target
  <1> QED
    BY <1>2, <1>5

\* The invariant holds at the start.
LEMMA ActionsStart == ActionsInit => ActionsInv
  <1> SUFFICES ASSUME ActionsInit PROVE ActionsInv
    OBVIOUS
  <1>1. /\ ipc.link = "closed" /\ ipc.pending = <<>> /\ ipc.wire = <<>> /\ ~ipc.detecting
        /\ ipc.probesLeft = 0 /\ ipc.heard = <<>> /\ ipc.owed = {} /\ ~ipc.clipped
        /\ actions = [asked |-> <<>>, told |-> {}]
    BY DEF ActionsInit, IPCInit
  <1>2. ipc \in IPC
    <2>1. <<>> \in Seq(Request) /\ <<>> \in Seq(Answer) /\ <<>> \in Seq(Signal)
      OBVIOUS
    <2>2. 0 \in 1 - Probes..Probes
      BY RequestAssumption
    <2> QED
      BY <2>1, <2>2 DEF ActionsInit, IPCInit, IPC, Link
  <1>3. \A kind : Kinds(ipc.pending, kind) = {}
    BY <1>1 DEF Kinds
  <1>4. Acts(ipc.pending) = {} /\ Ids(ipc.pending) = {} /\ Waiting = {}
    BY <1>1, <1>3, WaitingIs DEF Acts, Ids
  <1>5. Queued(ipc, {}) /\ Paired(ipc)
    BY <1>1, <1>2, <1>4, FS_EmptySet DEF Queued, Paired
  <1>6. Cardinality({}) = 0
    BY FS_EmptySet
  <1>7. AtMost(ipc, Probes - 1)
    BY <1>3, <1>6, RequestAssumption DEF AtMost
  <1>8. Detects(ipc, FALSE, 0)
    <2>1. DOMAIN ipc.heard = {}
      BY <1>1
    <2>2. 1 - Probes + (0 + 0) <= 0 /\ 0 <= Probes
      BY RequestAssumption
    <2>3. 1 - Probes + (Cardinality(Kinds(ipc.pending, "Probe")) + 0) <= ipc.probesLeft
          /\ ipc.probesLeft <= Probes
      BY <1>1, <1>3, <1>6, <2>2
    <2> QED
      BY <1>1, <1>3, <2>1, <2>3, Zenon DEF Detects
  <1>9. IPCInv
    BY <1>1, <1>4, <1>5, <1>7, <1>8 DEF IPCInv, Rests, Sane, Nearly
  <1>10. ResultsAreTrue
    BY <1>1, <1>4 DEF ResultsAreTrue
  <1> QED
    BY <1>1, <1>9, <1>10 DEF ActionsInv

\* Every step keeps it.
LEMMA ActionsStep == ActionsInv /\ [ActionsNext]_actionsVars => ActionsInv'
  <1> SUFFICES ASSUME ActionsInv, [ActionsNext]_actionsVars PROVE ActionsInv'
    OBVIOUS
  <1>1. /\ Rests(ipc, Waiting) /\ ResultsAreTrue
        /\ actions = [asked |-> actions.asked, told |-> actions.told]
    BY DEF ActionsInv, IPCInv
  <1>2. Waiting' = Acts(ipc'.pending)
    BY DEF Waiting, Pending, Acts, Kinds
  <1>3. ASSUME NEW acts, Rests(ipc', acts)
        PROVE  IPCInv' /\ Waiting' \subseteq acts
    <2>1. Rests(ipc', Acts(ipc'.pending)) /\ Acts(ipc'.pending) \subseteq acts
      BY <1>3, RestsOwn
    <2>2. Rests(ipc', Waiting') /\ Waiting' \subseteq acts
      BY <1>2, <2>1
    <2> QED
      BY <2>2 DEF IPCInv
  <1>4. /\ DOMAIN actions.asked = Waiting
        /\ \A id \in DOMAIN actions.asked : actions.asked[id].sent = actions.asked[id].call
        /\ \A t \in actions.told : t.outcome = "handled" /\ ~ipc.clipped => t.performed
    BY <1>1 DEF ResultsAreTrue
  <1>5. CASE UNCHANGED actionsVars
    <2>1. ipc' = ipc /\ actions' = actions
      BY <1>5 DEF actionsVars
    <2>2. IPCInv'
      BY <1>1, <1>3, <2>1
    <2>3. ResultsAreTrue'
      BY <1>1, <2>1 DEF ResultsAreTrue, Waiting, Pending
    <2> QED
      BY <1>1, <2>1, <2>2, <2>3 DEF ActionsInv
  <1>6. CASE ConnectionUpset
    <2>1. Rests(ipc', Waiting)
      BY <1>6, UpsetKeeps DEF ConnectionUpset, ActionsInv
    <2>2. IPCInv' /\ Waiting' \subseteq Waiting
      BY <1>3, <2>1
    <2>3. Conclude(actions.asked, {}, "notDelivered", {})
      BY <1>6 DEF ConnectionUpset, Lost
    <2>4. ResultsAreTrue' /\ actions' = [asked |-> actions'.asked, told |-> actions'.told]
      BY <1>4, <2>2, <2>3, ConcludeKeeps
    <2> QED
      BY <2>2, <2>4 DEF ActionsInv
  <1>7. ASSUME NEW call \in Calls, RefuseCall(call)
        PROVE  ActionsInv'
    <2> DEFINE told == {[outcome |-> "notDelivered", performed |-> FALSE]}
    <2>1. ipc' = ipc /\ actions' = [actions EXCEPT !.told = told]
      BY <1>7 DEF RefuseCall
    <2>2. IPCInv'
      BY <1>1, <1>3, <2>1
    <2>3. \A t \in told : t.outcome # "handled"
      OBVIOUS
    <2> HIDE DEF told
    <2>4. actions' = [asked |-> actions.asked, told |-> told]
      BY <1>1, <2>1
    <2>5. actions'.asked = actions.asked /\ actions'.told = told
      BY <2>4
    <2>6. Waiting' = Waiting
      BY <2>1 DEF Waiting, Pending
    <2>7. ResultsAreTrue'
      BY <1>4, <2>3, <2>5, <2>6 DEF ResultsAreTrue
    <2> QED
      BY <2>2, <2>4, <2>5, <2>7 DEF ActionsInv
  <1>8. ASSUME NEW call \in Calls, Dispatch(call)
        PROVE  ActionsInv'
    <2>1. ipc' = Send(ipc, "Action")
      BY <1>8 DEF Dispatch
    <2>2. PICK sent \in Encoded(call[2], call[3]) :
              Lost([i \in DOMAIN actions.asked \cup {FreshId(ipc)} |->
                       IF i = FreshId(ipc)
                       THEN [call |-> call, sent |-> [call EXCEPT ![3] = sent]]
                       ELSE actions.asked[i]])
      BY <1>8 DEF Dispatch
    <2> DEFINE id == FreshId(ipc)
               new == [call |-> call, sent |-> [call EXCEPT ![3] = sent]]
               asked == [i \in DOMAIN actions.asked \cup {id} |->
                            IF i = id THEN new ELSE actions.asked[i]]
    <2>3. [call EXCEPT ![3] = sent] = call
      BY EncodedIs
    <2>4. new.sent = new.call
      BY <2>3
    <2> HIDE DEF new, id
    <2>5. /\ DOMAIN asked = {id} \cup Waiting
          /\ asked[id] = new
          /\ \A i \in Waiting : i # id => asked[i] = actions.asked[i]
      BY <1>4
    <2>6. Conclude(asked, {}, "notDelivered", {})
      BY <2>2 DEF Lost, id, new
    <2> HIDE DEF asked
    <2>7. \A i \in DOMAIN asked : asked[i].sent = asked[i].call
      BY <1>4, <2>4, <2>5
    <2>8. Rests(ipc', Waiting \cup {id})
      <3> DEFINE all == Waiting \cup {id}
      <3>1. all = Waiting \cup (IF "Action" = "Action" THEN {FreshId(ipc)} ELSE {})
        BY DEF id
      <3> HIDE DEF all
      <3>2. Rests(Send(ipc, "Action"), all)
        BY <1>1, <3>1, CallKeeps
      <3> QED
        BY <2>1, <3>2 DEF all
    <2>9. IPCInv' /\ Waiting' \subseteq DOMAIN asked
      BY <1>3, <2>5, <2>8
    <2>10. ResultsAreTrue' /\ actions' = [asked |-> actions'.asked, told |-> actions'.told]
      BY <2>6, <2>7, <2>9, ConcludeKeeps
    <2> QED
      BY <2>9, <2>10 DEF ActionsInv
  <1>9. CASE ReadResult
    <2> DEFINE oldest == DOMAIN ipc.pending \cap {1}
               own == \A i \in oldest : ipc.pending[i].kind = Head(ipc.wire).kind
               answered == {ipc.pending[i].id : i \in oldest}
               Performed(reply) == IF reply = "good" THEN {Head(ipc.wire).id} ELSE {}
    <2>1. PICK reply \in {"good", "bad"} :
              /\ ReadReplyAs(reply)
              /\ \E outcome \in ClassifyReply(IF own THEN reply ELSE "bad") :
                     Conclude(actions.asked, answered, outcome, Performed(reply))
      BY <1>9 DEF ReadResult
    <2>2. PICK outcome \in ClassifyReply(IF own THEN reply ELSE "bad") :
              Conclude(actions.asked, answered, outcome, Performed(reply))
      BY <2>1
    <2> DEFINE performed == Performed(reply)
    <2>3. outcome = "handled" => reply = "good"
      BY DEF ClassifyReply
    <2>4. ipc.wire # <<>> /\ ipc' = Deliver([ipc EXCEPT !.wire = Tail(@)], Head(ipc.wire), reply)
      BY <2>1 DEF ReadReplyAs
    <2>5. Rests(ipc', Waiting) /\ ipc'.clipped = ipc.clipped
      BY <1>1, <2>4, DeliverKeeps
    <2>6. IPCInv' /\ Waiting' \subseteq Waiting
      BY <1>3, <2>5
    <2>7. outcome = "handled" /\ ~ipc'.clipped => answered \subseteq performed
      <3> SUFFICES ASSUME outcome = "handled", ~ipc'.clipped, NEW i \in oldest
                   PROVE  ipc.pending[i].id = Head(ipc.wire).id
        BY <2>3
      <3>1. i = 1
        OBVIOUS
      <3>2. Paired(ipc) /\ ipc.wire \in Seq(Answer)
        BY <1>1 DEF Rests, Sane, Nearly, Queued, IPC
      <3>3. 1 \in DOMAIN ipc.wire /\ Head(ipc.wire) = ipc.wire[1]
        BY <2>4, <3>2
      <3> QED
        BY <2>5, <3>1, <3>2, <3>3 DEF Paired
    <2> HIDE DEF answered, performed, oldest, own
    <2>8. Conclude(actions.asked, answered, outcome, performed)
      BY <2>2 DEF performed
    <2>9. ResultsAreTrue' /\ actions' = [asked |-> actions'.asked, told |-> actions'.told]
      BY <1>4, <2>6, <2>7, <2>8, ConcludeKeeps
    <2> QED
      BY <2>6, <2>9 DEF ActionsInv
  <1> QED
    BY <1>5, <1>6, <1>7, <1>8, <1>9 DEF ActionsNext, Act

\* What it says of the properties.
LEMMA ActionsShow == ActionsInv => QueueInStep /\ DetectionEndsOnce /\ RepliesFindTheirOwn
  <1> SUFFICES ASSUME ActionsInv PROVE QueueInStep /\ DetectionEndsOnce /\ RepliesFindTheirOwn
    OBVIOUS
  <1>1. /\ ipc \in IPC /\ Queued(ipc, {}) /\ Paired(ipc) /\ Detects(ipc, FALSE, 0)
        /\ ipc.link # "failing" /\ ResultsAreTrue
    BY DEF ActionsInv, IPCInv, Rests, Sane, Nearly, Queued
  <1>2. QueueInStep
    BY <1>1 DEF QueueInStep, IPCTypeOK, OwedIsPending, WrittenToThisConnection, Queued
  <1>3. Cardinality(Kinds(ipc.pending, "Probe")) \in Nat
    BY <1>1, KindsFinite DEF IPC
  <1>4. \A kind : Pending(kind) = Kinds(ipc.pending, kind)
    BY DEF Pending, Kinds
  <1>5. DetectionHasItsEnd
    <2>1. Cardinality(Kinds(ipc.pending, "Probe")) + 0 = Cardinality(Kinds(ipc.pending, "Probe"))
      BY <1>3
    <2> QED
      BY <1>1, <1>4, <2>1, Zenon DEF DetectionHasItsEnd, Detects
  <1>6. OneVerdict
    BY <1>1 DEF OneVerdict, Detects
  <1>7. OwnReplyUnlessClipped
    <2> SUFFICES ASSUME ~ipc.clipped, NEW i \in DOMAIN ipc.wire
                 PROVE  /\ i \in DOMAIN ipc.pending
                        /\ ipc.pending[i].written
                        /\ ipc.pending[i].id = ipc.wire[i].id
      BY DEF OwnReplyUnlessClipped, OwnReply
    <2>1. i \in DOMAIN ipc.pending /\ ipc.pending[i].id = ipc.wire[i].id
      BY <1>1 DEF Paired
    <2>2. ipc.link # "closed"
      <3>1. ipc.wire # <<>>
        OBVIOUS
      <3> QED
        BY <1>1, <3>1 DEF Paired
    <2> QED
      BY <1>1, <2>1, <2>2 DEF Queued
  <1> QED
    BY <1>1, <1>2, <1>5, <1>6, <1>7 DEF DetectionEndsOnce, RepliesFindTheirOwn

\* What every state satisfies of the requests and of the calls that wait for them.
THEOREM CallsInvariant == ActionsSpec => []ActionsInv
  <1> QED
    BY ActionsStart, ActionsStep, PTL DEF ActionsSpec

\* Every request is pending or has had its handler called, once, and is on the wire exactly
\* while the connection it was written to stands: whatever a failure meets in the queue,
\* and whatever the handlers that hear of it send.
THEOREM QueueStaysInStep == ActionsSpec => []QueueInStep
  <1> QED
    BY CallsInvariant, ActionsShow, PTL

\* A detection under way always has a request left that will end it, and gives one verdict,
\* for any number of probes and whatever the one before has left over.
THEOREM DetectionsEndOnce == ActionsSpec => []DetectionEndsOnce
  <1> QED
    BY CallsInvariant, ActionsShow, PTL

\* Position alone pairs each reply with its own request, over any number of connections,
\* until a reply is cut off; and the shell is told what became of its own calls.
THEOREM RepliesArePaired == ActionsSpec => []RepliesFindTheirOwn
  <1> QED
    BY CallsInvariant, ActionsShow, PTL
=============================================================================
