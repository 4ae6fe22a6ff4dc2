------------------------------- MODULE Network -------------------------------
(* NetworkService, which walks NetworkManager's objects along the paths they   *)
(* name (the manager, the active connection, its device, the device's wireless *)
(* half, the access point), follows each by its PropertiesChanged, and enters  *)
(* the walk again in the middle when a signal moves a part of the chain.       *)
(* Replies, signals and the bus's reports come in one ordered queue.           *)
EXTENDS ObjectProperties, SequencesExt

CONSTANTS Connections,   \* paths that can be the primary connection
          AccessPoints,  \* paths of access points
          MaxEvents      \* bound: starts of the daemon, changes in it, errors of it while
                         \* it is up, and calls of refreshNow(), in all

\* bounds also holds two ghosts: unheard, whether a change went by that the service did
\* not follow while an earlier one was on its way to it, and undone, whether a reply was
\* adopted by an object that was no longer waiting for one.
VARIABLES daemon, inbox, service, bounds

vars == <<daemon, inbox, service, bounds>>

Subscription == {"manager", "connection", "device", "wireless", "accessPoint"}
Path == Connections \cup AccessPoints \cup {"none", "manager", "device"}

Daemon == [up : BOOLEAN, life : 0..MaxEvents, state : {"connecting", "connected"},
           primary : Connections \cup {"none"}, name : {"profile", "renamed"},
           kind : {"wifi", "wired"}, accessPoint : AccessPoints \cup {"none"},
           strength : {"weak", "strong"}]

\* The path a property names, the value of another; life and path say whose they are.
Value == {"unknown", "none", "connecting", "connected", "profile", "renamed",
          "wifi", "wired", "weak", "strong"}
Fact == [life : 0..MaxEvents, path : Path, names : Path \cup {"unknown"}, value : Value]
Unknown == [life |-> 0, path |-> "none", names |-> "unknown", value |-> "unknown"]

\* What an object has to say of itself.
Says(d, object, path) ==
    LET names == [manager |-> d.primary, connection |-> "device", device |-> d.accessPoint,
                  wireless |-> d.accessPoint, accessPoint |-> "none"]
        value == [manager |-> d.state, connection |-> d.name, device |-> d.kind,
                  wireless |-> "none",
                  accessPoint |-> IF path = d.accessPoint THEN d.strength ELSE "weak"]
    IN  [life |-> d.life, path |-> path, names |-> names[object], value |-> value[object]]

\* NetworkService::Object.
Change == [life : 0..MaxEvents, path : Path, names : Path]
          \cup [life : 0..MaxEvents, path : Path, value : Value] \cup Fact
Object == [fact : Fact, held : Seq(Change), reading : BOOLEAN, path : Path,
           readGeneration : Nat]
NoObject == [fact |-> Unknown, held |-> <<>>, reading |-> FALSE, path |-> "none",
             readGeneration |-> 0]

NoReading == [manager |-> Unknown, connection |-> Unknown, device |-> Unknown,
              accessPoint |-> Unknown]

Call == [object : Subscription, generation : Nat, path : Path]

-----------------------------------------------------------------------------
(* NetworkService.                                                           *)

\* composeReading: the connection and its device if there is one, the strength of wifi.
Compose(m) ==
    LET primary == m.objects["manager"].fact.names \in Connections
        wifi == m.objects["device"].fact.value = "wifi"
        Of(object, drawn) == IF drawn THEN m.objects[object].fact ELSE Unknown
    IN  [manager |-> Of("manager", TRUE), connection |-> Of("connection", primary),
         device |-> Of("device", primary), accessPoint |-> Of("accessPoint", primary /\ wifi)]

Publish(m) ==
    [m EXCEPT !.shown = Compose(m),
              !.available = m.objects["manager"].fact.value # "unknown"]

\* finishWalk, for a generation that may be over.
FinishWalk(m, generation) == IF generation = m.generation THEN Publish(m) ELSE m

\* The rule, the flag, then the call.
Read(m, object, path) ==
    [m EXCEPT !.rules[object] = path,
              !.objects[object] = BeginRead([@ EXCEPT !.path = path,
                                                      !.readGeneration = m.generation]),
              !.calls = Append(@, [object |-> object, generation |-> m.generation,
                                   path |-> path])]

Forget(m, objects) ==
    [m EXCEPT
        !.rules = [object \in Subscription |->
                       IF object \in objects THEN "none" ELSE m.rules[object]],
        !.objects = [object \in Subscription |->
                         IF object \in objects THEN NoObject ELSE m.objects[object]]]

WalkFromManager(m) == Read([m EXCEPT !.generation = @ + 1], "manager", "manager")

BeginChainWalk(m) ==
    LET forgotten == Forget(m, Subscription \ {"manager"})
        primary == m.objects["manager"].fact.names
    IN  IF primary \in Connections THEN Read(forgotten, "connection", primary)
        ELSE Publish(forgotten)

AfterDevice(m) ==
    IF m.objects["device"].fact.value = "wifi"
    THEN Read(m, "wireless", m.objects["device"].path)
    ELSE Publish(Forget(m, {"wireless", "accessPoint"}))

AfterWireless(m) ==
    LET accessPoint == m.objects["wireless"].fact.names
    IN  IF accessPoint \in AccessPoints THEN Read(m, "accessPoint", accessPoint)
        ELSE Publish(Forget(m, {"accessPoint"}))

\* The continuation a read was given.
Then(m, object) ==
    IF object = "manager" THEN BeginChainWalk(m)
    ELSE IF object = "connection" /\ m.objects["connection"].fact.names = "device"
    THEN Read(m, "device", "device")
    ELSE IF object = "device" THEN AfterDevice(m)
    ELSE IF object = "wireless" THEN AfterWireless(m)
    ELSE Publish(m)

\* The read that an answer belongs to is over, if the object still waits for it.
EndRead(m, answer) ==
    IF m.objects[answer.object].readGeneration = answer.generation
    THEN [m EXCEPT !.objects[answer.object] = AbortRead(@)] ELSE m

Current(m, reply) ==
    reply.generation = m.generation /\ m.objects[reply.object].path = reply.path

\* Mutant: the reply of an abandoned walk dropped.
RepliedSilently(m, reply) ==
    IF ~Current(m, reply) THEN m
    ELSE Then([m EXCEPT !.objects[reply.object] = AdoptAll(@, reply.fact)], reply.object)

Replied(m, reply) ==
    IF ~Current(m, reply) THEN EndRead(m, reply)
    ELSE Then([m EXCEPT !.objects[reply.object] = AdoptAll(@, reply.fact)], reply.object)

Refusal(m, reply) == FinishWalk(EndRead(m, reply), reply.generation)

\* The on...Properties handlers: the change, and where it enters the walk again.
Changed(m, object, change) ==
    LET next == [m EXCEPT !.objects[object] = ApplyChange(@, change)]
        before == m.objects[object].fact
        after == next.objects[object].fact
    IN  IF object = "manager" /\ before.names # after.names
        THEN BeginChainWalk([next EXCEPT !.generation = @ + 1])
        ELSE IF object = "device" /\ before.value # after.value THEN AfterDevice(next)
        ELSE IF object \in {"device", "wireless"} /\ before.names # after.names
        THEN AfterWireless(next)
        ELSE Publish(next)

Withdraw(m) ==
    [Forget(m, Subscription) EXCEPT !.generation = @ + 1, !.available = FALSE,
                                    !.shown = NoReading]

-----------------------------------------------------------------------------
(* What reaches the service.                                                 *)

Message(what, object, generation, path, fact) ==
    [what |-> what, object |-> object, generation |-> generation, path |-> path,
     fact |-> fact]

Word(what) == Message(what, "manager", 0, "none", Unknown)

Events == daemon.life + bounds.moves + bounds.refusals + bounds.refreshes

Start ==
    /\ ~service.started /\ service.generation = 1
    /\ service' = [service EXCEPT !.started = TRUE]
    /\ inbox' = IF daemon.up THEN Append(inbox, Word("owned")) ELSE inbox
    /\ UNCHANGED <<daemon, bounds>>

Stop ==
    /\ service.started
    /\ service' = Withdraw([service EXCEPT !.started = FALSE])
    /\ UNCHANGED <<daemon, inbox, bounds>>

RefreshNow ==
    /\ service.started /\ Events < MaxEvents
    /\ service' = WalkFromManager(service)
    /\ bounds' = [bounds EXCEPT !.refreshes = @ + 1]
    /\ UNCHANGED <<daemon, inbox>>

Arrives(what) == inbox # <<>> /\ Head(inbox).what = what

Handle(m) == service' = m /\ inbox' = Tail(inbox) /\ UNCHANGED daemon

Attach ==
    /\ Arrives("registered") \/ Arrives("owned")
    /\ Handle(IF service.started THEN WalkFromManager(service) ELSE service)
    /\ UNCHANGED bounds

ServiceUnregistered ==
    /\ Arrives("unregistered")
    /\ Handle(IF service.started THEN Withdraw(service) ELSE service)
    /\ UNCHANGED bounds

ReadReply ==
    /\ Arrives("reply")
    /\ Handle(Replied(service, Head(inbox)))
    /\ bounds' = [bounds EXCEPT !.undone =
                      @ \/ (/\ Current(service, Head(inbox))
                            /\ ~service.objects[Head(inbox).object].reading)]

ReadRefusal ==
    /\ Arrives("refused")
    /\ Handle(Refusal(service, Head(inbox)))
    /\ UNCHANGED bounds

\* A signal of a path that is no longer followed finds no handler.
PropertiesChanged ==
    /\ Arrives("changed")
    /\ LET signal == Head(inbox)
       IN  Handle(IF service.rules[signal.object] # signal.path THEN service
                  ELSE Changed(service, signal.object, signal.fact))
    /\ UNCHANGED bounds

-----------------------------------------------------------------------------
(* NetworkManager and the bus.                                               *)

Exists(call) ==
    /\ call.object = "connection" => call.path = daemon.primary
    /\ call.object = "wireless" => daemon.kind = "wifi"

Answers(call, what, fact) ==
    inbox' = Append(inbox, Message(what, call.object, call.generation, call.path, fact))

\* Calls are answered in order; an object that is no longer there is an error.
Answer ==
    /\ service.calls # <<>>
    /\ LET call == Head(service.calls)
       IN  \/ /\ daemon.up /\ Exists(call)
              /\ Answers(call, "reply", Says(daemon, call.object, call.path))
              /\ UNCHANGED bounds
           \/ /\ ~daemon.up \/ ~Exists(call)
              /\ Answers(call, "refused", Unknown)
              /\ UNCHANGED bounds
           \/ /\ daemon.up /\ Exists(call) /\ Events < MaxEvents
              /\ Answers(call, "refused", Unknown)
              /\ bounds' = [bounds EXCEPT !.refusals = @ + 1]
    /\ service' = [service EXCEPT !.calls = Tail(@)]
    /\ UNCHANGED daemon

Reports(what) == IF service.started THEN Append(inbox, Word(what)) ELSE inbox

DaemonStarts ==
    /\ ~daemon.up /\ Events < MaxEvents
    /\ \E primary \in Connections \cup {"none"} :
          daemon' = [daemon EXCEPT !.up = TRUE, !.life = @ + 1, !.primary = primary]
    /\ inbox' = Reports("registered")
    /\ UNCHANGED <<service, bounds>>

DaemonExits ==
    /\ daemon.up
    /\ daemon' = [daemon EXCEPT !.up = FALSE]
    /\ inbox' = Reports("unregistered")
    /\ UNCHANGED <<service, bounds>>

Followed(signal) == service.rules[signal.object] = signal.path

\* The bus passes on a signal that is followed when it is sent.
Passed(queue, signal) == IF Followed(signal) THEN Append(queue, signal) ELSE queue

PassedAll(queue, signals) ==
    IF Len(signals) = 1 THEN Passed(queue, signals[1])
    ELSE Passed(Passed(queue, signals[1]), signals[2])

\* Signals come last, or overtake a reply made before them and sent after them.
Sent(signals) ==
    \/ inbox' = PassedAll(inbox, signals)
    \/ /\ inbox # <<>> /\ Last(inbox).what = "reply"
       /\ inbox' = Append(PassedAll(Front(inbox), signals), Last(inbox))

\* A property that names another path, or one with another value.
Renames(d, object, path, names) ==
    Message("changed", object, 0, path, [life |-> d.life, path |-> path, names |-> names])

Revalues(d, object, path, value) ==
    Message("changed", object, 0, path, [life |-> d.life, path |-> path, value |-> value])

\* A change, and the one or two signals it is announced by.
Move(d, signals) ==
    /\ daemon.up /\ Events < MaxEvents
    /\ daemon' = d
    /\ Sent(signals)
    /\ bounds' = [bounds EXCEPT
           !.moves = @ + 1,
           !.unheard = @ \/ \E i \in DOMAIN signals, j \in DOMAIN inbox :
                                /\ ~Followed(signals[i])
                                /\ inbox[j].what = "changed"
                                /\ inbox[j].object = signals[i].object]
    /\ UNCHANGED service

StateChanges ==
    LET d == [daemon EXCEPT !.state = IF @ = "connected" THEN "connecting" ELSE "connected"]
    IN  Move(d, <<Revalues(d, "manager", "manager", d.state)>>)

PrimaryChanges ==
    \E primary \in (Connections \cup {"none"}) \ {daemon.primary} :
        LET d == [daemon EXCEPT !.primary = primary]
        IN  Move(d, <<Renames(d, "manager", "manager", primary)>>)

NameChanges ==
    LET d == [daemon EXCEPT !.name = "renamed"]
    IN  /\ daemon.primary # "none" /\ daemon.name # "renamed"
        /\ Move(d, <<Revalues(d, "connection", d.primary, d.name)>>)

StrengthChanges ==
    LET d == [daemon EXCEPT !.strength = IF @ = "weak" THEN "strong" ELSE "weak"]
    IN  /\ daemon.accessPoint # "none"
        /\ Move(d, <<Revalues(d, "accessPoint", d.accessPoint, d.strength)>>)

\* The wireless interface says so, the device's may say so too, before it or after it.
Roams ==
    \E accessPoint \in (AccessPoints \cup {"none"}) \ {daemon.accessPoint} :
        LET d == [daemon EXCEPT !.accessPoint = accessPoint]
            Told(object) == Renames(d, object, "device", accessPoint)
        IN  /\ daemon.kind = "wifi"
            /\ \/ Move(d, <<Told("wireless")>>)
               \/ Move(d, <<Told("wireless"), Told("device")>>)
               \/ Move(d, <<Told("device"), Told("wireless")>>)

\* A device that loses or gains its wireless half.
KindChanges ==
    LET d == [daemon EXCEPT !.kind = IF @ = "wifi" THEN "wired" ELSE "wifi",
                            !.accessPoint = "none"]
    IN  Move(d, <<Message("changed", "device", 0, "device",
                          [life |-> d.life, path |-> "device", names |-> d.accessPoint,
                           value |-> d.kind])>>)

-----------------------------------------------------------------------------
Init ==
    /\ daemon \in [up : {FALSE}, life : {0}, state : {"connected"}, primary : {"none"},
                   name : {"profile"}, kind : {"wifi"}, accessPoint : AccessPoints,
                   strength : {"weak"}]
    /\ inbox = <<>>
    /\ service = [started |-> FALSE, generation |-> 1,
                  objects |-> [object \in Subscription |-> NoObject],
                  rules |-> [object \in Subscription |-> "none"],
                  available |-> FALSE, shown |-> NoReading, calls |-> <<>>]
    /\ bounds = [moves |-> 0, refusals |-> 0, refreshes |-> 0,
                 unheard |-> FALSE, undone |-> FALSE]

EventLoop ==
    \/ Attach \/ ServiceUnregistered \/ ReadReply \/ ReadRefusal \/ PropertiesChanged

Moves ==
    \/ StateChanges \/ PrimaryChanges \/ NameChanges \/ StrengthChanges
    \/ Roams \/ KindChanges

Next ==
    \/ Start \/ Stop \/ RefreshNow \/ EventLoop \/ Answer
    \/ DaemonStarts \/ DaemonExits \/ Moves

Spec == Init /\ [][Next]_vars

-----------------------------------------------------------------------------
Settled == inbox = <<>> /\ service.calls = <<>>

TypeOK ==
    /\ daemon \in Daemon
    /\ service.rules \in [Subscription -> Path] /\ service.calls \in Seq(Call)
    /\ service.objects \in [Subscription -> Object]
    /\ \A object \in Subscription :
           service.objects[object].held # <<>> => service.objects[object].reading

\* Nothing of one life of the daemon is ever drawn beside something of another.
OneLife ==
    \A a, b \in DOMAIN service.shown :
        service.shown[a].life # service.shown[b].life =>
            0 \in {service.shown[a].life, service.shown[b].life}

\* An object that holds changes back for a read has its answer on the way.
ReadAlwaysEnds ==
    \A object \in Subscription :
        LET o == service.objects[object]
            ForIt(x) == /\ x.object = object /\ x.path = o.path
                        /\ x.generation = o.readGeneration
        IN  o.reading =>
                \/ \E i \in DOMAIN service.calls : ForIt(service.calls[i])
                \/ \E i \in DOMAIN inbox :
                       inbox[i].what \in {"reply", "refused"} /\ ForIt(inbox[i])

WellFormed == TypeOK /\ OneLife /\ ReadAlwaysEnds

\* When everything has arrived, what is drawn is what the daemon that is up says of the
\* chain there now is, whatever moved during a walk and whatever overtook what.
InStep ==
    (/\ Settled /\ service.started /\ daemon.up
     /\ bounds.refusals = 0 /\ ~bounds.unheard /\ ~bounds.undone)
    => LET primary == daemon.primary # "none"
           Now(object, path, drawn) ==
               service.shown[object] = IF drawn THEN Says(daemon, object, path) ELSE Unknown
       IN  /\ service.available
           /\ Now("manager", "manager", TRUE)
           /\ Now("connection", daemon.primary, primary)
           /\ service.shown["device"].value = IF primary THEN daemon.kind ELSE "unknown"
           /\ Now("accessPoint", daemon.accessPoint,
                  primary /\ daemon.accessPoint # "none")
=============================================================================
