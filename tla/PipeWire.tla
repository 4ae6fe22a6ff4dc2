------------------------------ MODULE PipeWire ------------------------------
(* PipeWireService: the volume of the default sink, followed over PipeWire.   *)
(* Two threads: the loop thread reads what the daemon sends, with a lock      *)
(* held; the GUI thread attaches, retries and writes under the same lock, and *)
(* hears of readings through a queue. So a step is one callback, one queued   *)
(* call, or one gesture, and what is between them is in flight: wire from the *)
(* daemon, calls to it, queue between the threads. A sink is its node.name    *)
(* and its id; a volume is a number of notches.                               *)
EXTENDS Naturals, Sequences, FiniteSets, SequencesExt, FiniteSetsExt

CONSTANTS Sinks, None, NoReading,
          MaxVolume,     \* MaxPercent, in notches
          MaxFlight,     \* bound: events of the daemon not read, calls not answered
          MaxChanges,    \* bound: what the daemon, WirePlumber and other programs do
          MaxGestures,   \* bound: gestures, starts and stops
          MaxTimers      \* bound: retry timers pending

ASSUME BoundsAssumption ==
    /\ None \notin Sinks /\ IsFiniteSet(Sinks)
    /\ MaxVolume \in Nat \ {0} /\ MaxTimers \in Nat \ {0}
    /\ MaxFlight \in Nat /\ MaxChanges \in Nat /\ MaxGestures \in Nat

VARIABLES daemon, audio, gui, budget

vars == <<daemon, audio, gui, budget>>

Props == [volume : 0..MaxVolume, muted : BOOLEAN]
ASSUME NoReadingAssumption == NoReading \notin Props

\* metadata: WirePlumber runs, and with it the object that names the default sink.
Daemon == [up : BOOLEAN, metadata : BOOLEAN, default : Sinks \cup {None},
           present : SUBSET Sinks, props : [Sinks -> Props]]

Event == [what : {"metadata", "unmetadata", "sink", "gone", "default", "info", "param", "error"},
          sink : Sinks \cup {None}, props : Props \cup {NoReading}]
Call == [what : {"metadata", "bind", "dropped", "enum", "set"},
         sink : Sinks \cup {None}, props : Props \cup {NoReading}]
Post == [what : {"reading", "reattach"}, sink : Sinks \cup {None},
         reading : Props \cup {NoReading}, binding : Nat]

\* Impl, whose fields have their names (reading: state and haveReading); what the daemon
\* keeps for the connection: linked, listening to the metadata, subscribed to a sink; and
\* a ghost: binding counts bindSink.
Audio == [loop : BOOLEAN, metadata : BOOLEAN, known : SUBSET Sinks,
          wantedSink : Sinks \cup {None}, sink : Sinks \cup {None},
          reading : Props \cup {NoReading},
          linked : BOOLEAN, listening : BOOLEAN, subscribed : Sinks \cup {None},
          wire : Seq(Event), calls : Seq(Call), queue : Seq(Post),
          binding : Nat]

\* The service as QML sees it: reading is NoReading while not available. adjusted: the
\* last step emitted volumeAdjusted. Ghosts: the binding of the reading, and late: a
\* reading was on its way when the service was stopped.
Gui == [wanted : BOOLEAN, timers : 0..MaxTimers, reading : Props \cup {NoReading},
        sink : Sinks \cup {None}, adjusted : BOOLEAN, binding : Nat, late : BOOLEAN]

-----------------------------------------------------------------------------
(* The loop thread's handlers.                                               *)

Send(a, what, s, p) ==
    [a EXCEPT !.calls = Append(@, [what |-> what, sink |-> s, props |-> p])]

\* publish: the reading goes to the GUI thread as it is now.
Publish(a) ==
    [a EXCEPT !.queue = Append(@, [what |-> "reading", sink |-> a.sink,
                                   reading |-> a.reading, binding |-> a.binding])]

\* What of a sequence is in keep, in its order.
Kept(s, keep) ==
    LET upto[n \in 0..Len(s)] ==
            IF n = 0 THEN <<>>
            ELSE IF s[n] \in keep THEN Append(upto[n - 1], s[n]) ELSE upto[n - 1]
    IN  upto[Len(s)]

OfNode == {e \in Event : e.what \in {"info", "param"}}
Enums == {c \in Call : c.what = "enum"}

\* Nothing comes from a proxy that is destroyed; a write sent before is still carried out.
ReleaseSink(a) ==
    [a EXCEPT !.sink = None, !.reading = NoReading, !.subscribed = None,
              !.wire = Kept(@, Event \ OfNode),
              !.calls = LET kept == Kept(@, Call \ Enums)
                        IN  [i \in DOMAIN kept |-> IF kept[i].what = "bind"
                                                   THEN [kept[i] EXCEPT !.what = "dropped"]
                                                   ELSE kept[i]]]

\* bindSink: the subscription, and the reading that already exists.
BindSink(a, s) ==
    Send([ReleaseSink(a) EXCEPT !.sink = s, !.binding = @ + 1], "bind", s, NoReading)

OnGlobalMetadata(a) ==
    IF a.metadata THEN a ELSE Send([a EXCEPT !.metadata = TRUE], "metadata", None, NoReading)

\* Mutant: only a default named after its sink came is bound.
OnGlobalSinkPassive(a, s) == [a EXCEPT !.known = @ \cup {s}]

OnGlobalSink(a, s) ==
    LET seen == [a EXCEPT !.known = @ \cup {s}]
    IN  IF s = a.wantedSink /\ a.sink = None THEN BindSink(seen, s) ELSE seen

OnGlobalRemoved(a, s) ==
    LET forgotten == [a EXCEPT !.known = @ \ {s}]
    IN  IF s = a.sink THEN Publish(ReleaseSink(forgotten)) ELSE forgotten

OnMetadataProperty(a, name) ==
    LET wanted == [a EXCEPT !.wantedSink = name]
    IN  CASE name = None -> Publish(ReleaseSink(wanted))
          [] name # None /\ name = a.wantedSink /\ a.sink # None -> a
          [] name # None /\ ~(name = a.wantedSink /\ a.sink # None) ->
                 Publish(IF name \in a.known THEN BindSink(wanted, name)
                         ELSE ReleaseSink(wanted))

OnNodeInfo(a) == IF a.sink = None THEN a ELSE Send(a, "enum", a.sink, NoReading)

OnNodeParam(a, props) ==
    IF a.sink = None THEN a ELSE Publish([a EXCEPT !.reading = props])

\* Any error of the core: the connection is rebuilt, on the GUI thread.
OnCoreError(a) ==
    [a EXCEPT !.queue = Append(@, [what |-> "reattach", sink |-> None,
                                   reading |-> NoReading, binding |-> a.binding])]

\* The library's dispatch of one event. A metadata object that goes has no handler.
Dispatch(a, e) ==
    CASE e.what = "metadata" -> OnGlobalMetadata(a)
      [] e.what = "unmetadata" -> a
      [] e.what = "sink" -> OnGlobalSink(a, e.sink)
      [] e.what = "gone" -> OnGlobalRemoved(a, e.sink)
      [] e.what = "default" -> OnMetadataProperty(a, e.sink)
      [] e.what = "info" -> OnNodeInfo(a)
      [] e.what = "param" -> OnNodeParam(a, e.props)
      [] e.what = "error" -> OnCoreError(a)

-----------------------------------------------------------------------------
(* The GUI thread's handlers.                                                *)

\* detach: everything of the connection goes, what was posted stays.
Detach(a) ==
    [a EXCEPT !.loop = FALSE, !.metadata = FALSE, !.known = {}, !.wantedSink = None,
              !.sink = None, !.reading = NoReading, !.linked = FALSE, !.listening = FALSE,
              !.subscribed = None, !.wire = <<>>, !.calls = <<>>]

Silent(g) == [g EXCEPT !.adjusted = FALSE]

\* Mutant: an attempt that fails is the last.
RetryLaterNever(g) == g

RetryLater(g) == IF g.wanted THEN [g EXCEPT !.timers = @ + 1] ELSE g

\* Mutant: any reading announced as an adjustment.
ApplyReadingLoud(g, post) ==
    IF post.reading = g.reading THEN g
    ELSE [g EXCEPT !.adjusted = post.reading # NoReading, !.binding = post.binding,
                   !.sink = IF post.reading = NoReading THEN None ELSE post.sink,
                   !.reading = post.reading]

\* An adjustment is a change of the sink that was followed already.
ApplyReading(g, post) ==
    IF post.reading = g.reading THEN g
    ELSE [g EXCEPT !.adjusted = /\ post.reading # NoReading /\ g.reading # NoReading
                                /\ post.sink = g.sink,
                   !.sink = IF post.reading = NoReading THEN None ELSE post.sink,
                   !.reading = post.reading, !.binding = post.binding]

What(what, s, p) == [what |-> what, sink |-> s, props |-> p]

\* The registry's burst: metadata object and sinks, in an order that is the daemon's.
Globals ==
    LET object == IF daemon.metadata THEN <<What("metadata", None, NoReading)>> ELSE <<>>
        nodes == [i \in 1..Len(SetToSeq(daemon.present)) |->
                     What("sink", SetToSeq(daemon.present)[i], NoReading)]
    IN  {object \o nodes, nodes \o object}

\* attach, with the shell g and an Impl that has no loop.
Attach(g) ==
    IF daemon.up
    THEN /\ \E burst \in Globals :
                audio' = [audio EXCEPT !.loop = TRUE, !.linked = TRUE, !.wire = burst]
         /\ gui' = g
    ELSE audio' = audio /\ gui' = RetryLater(g)

-----------------------------------------------------------------------------
(* The GUI thread's steps.                                                   *)

Gesture == budget.gestures < MaxGestures /\ budget' = [budget EXCEPT !.gestures = @ + 1]

Start ==
    /\ Gesture /\ ~gui.wanted /\ gui.timers < MaxTimers
    /\ Attach([Silent(gui) EXCEPT !.wanted = TRUE])
    /\ UNCHANGED daemon

\* The reading is withdrawn at once; what was posted before comes after.
Stop ==
    /\ Gesture /\ gui.wanted
    /\ audio' = Detach(audio)
    /\ gui' = [ApplyReading([Silent(gui) EXCEPT !.wanted = FALSE],
                            [sink |-> None, reading |-> NoReading, binding |-> audio.binding])
               EXCEPT !.late = @ \/ audio.queue # <<>>]
    /\ UNCHANGED daemon

\* The lambda of retryLater.
Retry ==
    /\ gui.timers > 0
    /\ LET fired == [Silent(gui) EXCEPT !.timers = @ - 1]
       IN  IF gui.wanted /\ ~audio.loop THEN Attach(fired)
           ELSE gui' = fired /\ UNCHANGED audio
    /\ UNCHANGED <<daemon, budget>>

ReadReading ==
    /\ audio.queue # <<>> /\ Head(audio.queue).what = "reading"
    /\ audio' = [audio EXCEPT !.queue = Tail(@)]
    /\ gui' = ApplyReading(Silent(gui), Head(audio.queue))
    /\ UNCHANGED <<daemon, budget>>

\* The lambda of onCoreError: detach, publish, retryLater.
Reattach ==
    /\ audio.queue # <<>> /\ Head(audio.queue).what = "reattach"
    /\ LET rest == [audio EXCEPT !.queue = Tail(@)]
       IN  IF ~audio.loop THEN audio' = rest /\ gui' = Silent(gui)
           ELSE /\ gui.timers < MaxTimers
                /\ audio' = Publish(Detach(rest))
                /\ gui' = RetryLater(Silent(gui))
    /\ UNCHANGED <<daemon, budget>>

\* steppedPercent, at its ceiling.
Clamped(volume) == IF volume > MaxVolume THEN MaxVolume ELSE volume

\* set_param and the recording of what was written; to a daemon that is gone the library
\* may take it or refuse it.
Write(p) ==
    LET recorded == [audio EXCEPT !.reading = p]
    IN  IF audio.linked THEN audio' = Send(recorded, "set", audio.sink, p)
        ELSE audio' \in {audio, recorded}

HasReading == audio.sink # None /\ audio.reading # NoReading

\* stepVolume: one notch up or down from the volume recorded.
StepVolume ==
    /\ Gesture /\ HasReading /\ Len(audio.calls) < MaxFlight
    /\ LET volume == audio.reading.volume
       IN  \E next \in {Clamped(volume + 1), IF volume = 0 THEN 0 ELSE volume - 1} :
              Write([audio.reading EXCEPT !.volume = next])
    /\ gui' = Silent(gui)
    /\ UNCHANGED daemon

SetVolumePercent ==
    /\ Gesture /\ HasReading /\ Len(audio.calls) < MaxFlight
    /\ \E percent \in 0..MaxVolume + 1 :
          Write([audio.reading EXCEPT !.volume = Clamped(percent)])
    /\ gui' = Silent(gui)
    /\ UNCHANGED daemon

ToggleMute ==
    /\ Gesture /\ HasReading /\ Len(audio.calls) < MaxFlight
    /\ Write([audio.reading EXCEPT !.muted = ~@])
    /\ gui' = Silent(gui)
    /\ UNCHANGED daemon

-----------------------------------------------------------------------------
(* The loop thread and the daemon.                                           *)

ReadEvent ==
    /\ audio.loop /\ audio.wire # <<>>
    /\ audio' = Dispatch([audio EXCEPT !.wire = Tail(@)], Head(audio.wire))
    /\ gui' = Silent(gui)
    /\ UNCHANGED <<daemon, budget>>

Answered(a, events) == [a EXCEPT !.wire = @ \o events]

Error == What("error", None, NoReading)

\* The daemon carries out the first call, while the connection stands. A call on an object
\* that is gone is an error of it; a bound metadata object tells its default, if there is one.
AnswerCall ==
    /\ audio.linked /\ audio.calls # <<>>
    /\ LET call == Head(audio.calls)
           rest == [audio EXCEPT !.calls = Tail(@)]
           there == call.sink \in daemon.present
           told == IF there THEN <<What("param", call.sink, daemon.props[call.sink])>> ELSE <<>>
       IN  /\ audio' =
                 CASE call.what = "metadata" /\ daemon.metadata ->
                          Answered([rest EXCEPT !.listening = TRUE],
                                   IF daemon.default = None THEN <<>>
                                   ELSE <<What("default", daemon.default, NoReading)>>)
                   [] call.what = "bind" /\ there ->
                          Answered([rest EXCEPT !.subscribed = call.sink], told)
                   [] call.what = "enum" /\ there -> Answered(rest, told)
                   [] call.what = "dropped" /\ there -> rest
                   [] call.what = "set" /\ there ->
                          IF audio.subscribed # call.sink THEN rest
                          ELSE Answered(rest, <<What("param", call.sink, call.props)>>)
                   [] OTHER -> Answered(rest, <<Error>>)
           /\ daemon' = IF call.what = "set" /\ there
                        THEN [daemon EXCEPT !.props[call.sink] = call.props] ELSE daemon
    /\ gui' = Silent(gui)
    /\ UNCHANGED budget

\* What the daemon tells a shell that is connected.
Tell(a, events) == IF a.linked THEN Answered(a, events) ELSE a

Change ==
    /\ budget.changes < MaxChanges /\ Len(audio.wire) < MaxFlight
    /\ budget' = [budget EXCEPT !.changes = @ + 1]
    /\ gui' = Silent(gui)

\* Another program moves a sink's volume or mutes it; the node's info may tell as well.
OtherSetsProps ==
    /\ Change /\ daemon.up
    /\ \E s \in daemon.present, p \in Props, info \in BOOLEAN :
          /\ p # daemon.props[s]
          /\ daemon' = [daemon EXCEPT !.props[s] = p]
          /\ audio' = IF audio.subscribed # s THEN audio
                      ELSE Answered(audio,
                               (IF info THEN <<What("info", s, NoReading)>> ELSE <<>>)
                                   \o <<What("param", s, p)>>)

SinkAppears ==
    /\ Change /\ daemon.up
    /\ \E s \in Sinks \ daemon.present :
          /\ daemon' = [daemon EXCEPT !.present = @ \cup {s}]
          /\ audio' = Tell(audio, <<What("sink", s, NoReading)>>)

SinkGone ==
    /\ Change /\ daemon.up
    /\ \E s \in daemon.present :
          /\ daemon' = [daemon EXCEPT !.present = @ \ {s}]
          /\ audio' = Tell([audio EXCEPT !.subscribed = IF @ = s THEN None ELSE @],
                           <<What("gone", s, NoReading)>>)

DefaultChanges ==
    /\ Change /\ daemon.metadata
    /\ \E s \in (Sinks \cup {None}) \ {daemon.default} :
          /\ daemon' = [daemon EXCEPT !.default = s]
          /\ audio' = IF audio.listening
                      THEN Answered(audio, <<What("default", s, NoReading)>>) ELSE audio

\* WirePlumber goes and takes the metadata object along; it comes back with a new one.
WirePlumberGone ==
    /\ Change /\ daemon.metadata
    /\ daemon' = [daemon EXCEPT !.metadata = FALSE, !.default = None]
    /\ audio' = Tell([audio EXCEPT !.listening = FALSE], <<What("unmetadata", None, NoReading)>>)

WirePlumberComes ==
    /\ Change /\ daemon.up /\ ~daemon.metadata
    /\ \E s \in Sinks \cup {None} :
          daemon' = [daemon EXCEPT !.metadata = TRUE, !.default = s]
    /\ audio' = Tell(audio, <<What("metadata", None, NoReading)>>)

\* The connection breaks: what was sent is read, then the error.
DaemonDies ==
    /\ Change /\ daemon.up
    /\ daemon' = [daemon EXCEPT !.up = FALSE, !.metadata = FALSE, !.default = None,
                                !.present = {}]
    /\ audio' = [Tell(audio, <<Error>>) EXCEPT !.calls = <<>>, !.linked = FALSE,
                                               !.listening = FALSE, !.subscribed = None]

DaemonComes ==
    /\ Change /\ ~daemon.up
    /\ \E running \in BOOLEAN, s \in Sinks \cup {None}, present \in SUBSET Sinks :
          /\ s # None => running
          /\ daemon' = [daemon EXCEPT !.up = TRUE, !.metadata = running, !.default = s,
                                      !.present = present]
    /\ UNCHANGED audio

-----------------------------------------------------------------------------
Silence == [volume |-> 0, muted |-> FALSE]

Idle == [loop |-> FALSE, metadata |-> FALSE, known |-> {}, wantedSink |-> None,
         sink |-> None, reading |-> NoReading, linked |-> FALSE, listening |-> FALSE,
         subscribed |-> None, wire |-> <<>>, calls |-> <<>>, queue |-> <<>>,
         binding |-> 0]

Init ==
    /\ \E up \in BOOLEAN, s \in Sinks :
          daemon = [up |-> up, metadata |-> up, default |-> IF up THEN s ELSE None,
                    present |-> IF up THEN Sinks ELSE {}, props |-> [t \in Sinks |-> Silence]]
    /\ audio = Idle
    /\ gui = [wanted |-> FALSE, timers |-> 0, reading |-> NoReading, sink |-> None,
              adjusted |-> FALSE, binding |-> 0, late |-> FALSE]
    /\ budget = [changes |-> 0, gestures |-> 0]

ReadQueue == ReadReading \/ Reattach

Next ==
    \/ Start \/ Stop \/ Retry \/ ReadReading \/ Reattach
    \/ StepVolume \/ SetVolumePercent \/ ToggleMute
    \/ ReadEvent \/ AnswerCall
    \/ OtherSetsProps \/ SinkAppears \/ SinkGone \/ DefaultChanges
    \/ WirePlumberGone \/ WirePlumberComes \/ DaemonDies \/ DaemonComes

Spec == Init /\ [][Next]_vars

\* Both threads run, timers fire and the daemon answers.
FairSpec ==
    /\ Spec
    /\ WF_vars(ReadEvent) /\ WF_vars(AnswerCall) /\ WF_vars(ReadQueue) /\ WF_vars(Retry)

-----------------------------------------------------------------------------
\* Every variable has its type.
TypeOK ==
    /\ daemon \in Daemon /\ audio \in Audio /\ gui \in Gui
    /\ budget \in [changes : 0..MaxChanges, gestures : 0..MaxGestures]

\* Nothing is on its way between the daemon and what QML sees.
Rest == audio.loop /\ audio.wire = <<>> /\ audio.calls = <<>> /\ audio.queue = <<>>

Followed == IF audio.listening THEN daemon.default ELSE audio.wantedSink

\* Once everything has arrived, QML has the volume of the sink that the metadata names last
\* named, whatever order metadata, sinks, changes and writes came in, and none when there is
\* no such sink; except that a service stopped with readings posted shows them after.
ReadingIsTrue ==
    Rest /\ ~gui.late =>
        IF Followed \in daemon.present
        THEN gui.reading = daemon.props[Followed] /\ gui.sink = Followed
        ELSE gui.reading = NoReading

\* A service that is wanted and has no connection has a timer or the error that brings one.
NeverStranded ==
    gui.wanted =>
        \/ audio.loop /\ audio.linked
        \/ ~audio.loop /\ gui.timers > 0
        \/ /\ audio.loop
           /\ \/ \E e \in Range(audio.wire) : e.what = "error"
              \/ \E post \in Range(audio.queue) : post.what = "reattach"

\* Both threads' state is well typed, and a lost connection is on its way back.
WellFormed == TypeOK /\ NeverStranded

\* volumeAdjusted, and with it the display, never announces the first reading of a sink that
\* was bound anew: not after a switch of the default, a sink that came back or a reattach.
OnlyChangesAnnounced ==
    [][gui'.adjusted /\ ~gui.late => gui'.binding = gui.binding]_vars

\* The shell ends up attached if PipeWire stays up.
Attaches == <>[](gui.wanted /\ daemon.up => audio.loop /\ audio.linked)

=============================================================================
