------------------------------- MODULE Battery -------------------------------
(* BatteryService, which walks UPower (the manager's properties, the path of  *)
(* the display device, the device's properties) and follows both objects'     *)
(* PropertiesChanged, with ObjectProperties, which holds back the changes     *)
(* that overtake a read. UPower restarts, its device set moves, and its       *)
(* replies, its signals and the bus's reports come in one ordered queue. A    *)
(* fact is what an object says: in which life of the daemon, of which path.   *)
EXTENDS ObjectProperties, SequencesExt

CONSTANTS Paths,         \* of the devices that can be the display device
          MaxEvents      \* bound: starts of the daemon, changes in it, errors of it while
                         \* it is up, and calls of refreshNow(), in all

ASSUME BoundsAssumption ==
    /\ MaxEvents \in Nat
    /\ Paths \cap {"none", "manager"} = {}

\* bounds also holds a ghost, unheard: the kinds of change that nobody was told of, a
\* move of the device set until the daemon is asked about it again, and a change that
\* leaves an earlier one of its kind on its way to a service that will take it for news.
VARIABLES daemon, inbox, service, bounds

vars == <<daemon, inbox, service, bounds>>

Daemon == [up : BOOLEAN, life : 0..MaxEvents, manager : 0..1, display : Paths \cup {"none"},
           level : 0..1]

Fact == [life : 0..MaxEvents, path : Paths \cup {"none", "manager"}, value : 0..1]
Unknown == [life |-> 0, path |-> "none", value |-> 0]

ManagerFact(d) == [life |-> d.life, path |-> "manager", value |-> d.manager]
DeviceFact(d) == [life |-> d.life, path |-> d.display, value |-> d.level]

\* A walk's questions, by their kind; generation tells of which walk.
Call == [what : {"manager", "named", "device"}, generation : Nat,
         path : Paths \cup {"none", "manager"}]

\* ObjectProperties with its path and readGeneration.
Object == [fact : Fact, held : Seq(Fact), reading : BOOLEAN,
           path : Paths \cup {"none", "manager"}, readGeneration : Nat]
NoObject == [fact |-> Unknown, held |-> <<>>, reading |-> FALSE, path |-> "none",
             readGeneration |-> 0]

\* rules: matches_ of the two objects, and the connections to the device-set signals.
Service == [started : BOOLEAN, generation : Nat, manager : Object, device : Object,
            rules : [manager : BOOLEAN, device : Paths \cup {"none"}, devices : BOOLEAN],
            concluded : BOOLEAN, available : BOOLEAN, shown : [manager : Fact, device : Fact],
            calls : Seq(Call)]

-----------------------------------------------------------------------------
(* BatteryService.                                                           *)

Publish(m) ==
    [m EXCEPT !.shown = [manager |-> m.manager.fact, device |-> m.device.fact],
              !.available = m.manager.fact # Unknown /\ m.concluded]

Ask(m, what, path) ==
    [m EXCEPT !.calls = Append(@, [what |-> what, generation |-> m.generation, path |-> path])]

\* walkFromManager under a new generation: the rule, then the read.
WalkFromManager(m) ==
    Ask([m EXCEPT !.generation = @ + 1, !.rules.manager = TRUE,
                  !.manager = BeginRead([@ EXCEPT !.path = "manager",
                                                  !.readGeneration = m.generation + 1])],
        "manager", "manager")

\* The device is forgotten with its rule, and the daemon asked for its name.
WalkDisplayDevice(m) ==
    Ask([m EXCEPT !.rules.device = "none", !.device = NoObject], "named", "none")

ReadDevice(m, path) ==
    Ask([m EXCEPT !.rules.device = path,
                  !.device = BeginRead([@ EXCEPT !.path = path,
                                                 !.readGeneration = m.generation])],
        "device", path)

\* The reply to a read of the manager.
ManagerRead(m, reply) ==
    IF reply.generation # m.generation THEN m
    ELSE WalkDisplayDevice([m EXCEPT !.manager = AdoptAll(@, reply.fact)])

DeviceNamed(m, reply) ==
    IF reply.generation # m.generation THEN m
    ELSE IF reply.path = "none" THEN Publish([m EXCEPT !.concluded = TRUE])
    ELSE ReadDevice(m, reply.path)

DeviceRead(m, reply) ==
    IF reply.generation # m.generation \/ m.device.path # reply.path THEN m
    ELSE Publish([m EXCEPT !.device = AdoptAll(@, reply.fact), !.concluded = TRUE])

\* Mutant: the manager asked again for what was refused.
FailedRetries(m, reply) ==
    IF reply.generation = m.generation THEN Ask(m, "manager", "manager") ELSE m

\* A refusal ends its own read, and the reading is published from what there is.
Failed(m, reply) ==
    LET Ended(o) == IF o.readGeneration = reply.generation THEN AbortRead(o) ELSE o
        aborted ==
            [m EXCEPT !.manager = IF reply.path = "manager" THEN Ended(@) ELSE @,
                      !.device = IF reply.path \in Paths THEN Ended(@) ELSE @]
    IN  IF reply.generation = m.generation THEN Publish(aborted) ELSE aborted

\* All subscriptions go, those to the device-set signals too.
Withdraw(m) ==
    [m EXCEPT !.generation = @ + 1,
              !.rules = [manager |-> FALSE, device |-> "none", devices |-> FALSE],
              !.manager = NoObject, !.device = NoObject, !.concluded = FALSE,
              !.available = FALSE, !.shown = [manager |-> Unknown, device |-> Unknown]]

Events == daemon.life + bounds.moves + bounds.refusals + bounds.refreshes

-----------------------------------------------------------------------------
(* What reaches the service.                                                 *)

Reply(what, generation, path, fact) ==
    [what |-> what, generation |-> generation, path |-> path, fact |-> fact]

Word(what) == Reply(what, 0, "none", Unknown)

\* NameHasOwner is asked after the signals are connected; the bus answers it.
Start ==
    /\ ~service.started /\ service.generation = 1
    /\ service' = [service EXCEPT !.started = TRUE, !.rules.devices = TRUE]
    /\ inbox' = IF daemon.up THEN Append(inbox, Word("owned")) ELSE inbox
    /\ UNCHANGED <<daemon, bounds>>

Stop ==
    /\ service.started
    /\ service' = Withdraw([service EXCEPT !.started = FALSE])
    /\ UNCHANGED <<daemon, inbox, bounds>>

RefreshNow ==
    /\ service.started /\ Events < MaxEvents
    /\ service' = WalkFromManager(service)
    /\ bounds' = [bounds EXCEPT !.refreshes = @ + 1]
    /\ UNCHANGED <<daemon, inbox>>

Reads(what) == inbox # <<>> /\ Head(inbox).what = what

Read(m) ==
    /\ inbox' = Tail(inbox)
    /\ service' = m
    /\ UNCHANGED <<daemon, bounds>>

\* attach(), on the watcher's word or the bus's answer.
Attach ==
    /\ Reads("registered") \/ Reads("owned")
    /\ Read(IF service.started THEN WalkFromManager(service) ELSE service)

ServiceUnregistered ==
    /\ Reads("unregistered")
    /\ Read(IF service.started THEN Withdraw(service) ELSE service)

ReadReply ==
    \/ Reads("manager") /\ Read(ManagerRead(service, Head(inbox)))
    \/ Reads("named") /\ Read(DeviceNamed(service, Head(inbox)))
    \/ Reads("device") /\ Read(DeviceRead(service, Head(inbox)))

ReadRefusal ==
    /\ Reads("refused")
    /\ Read(Failed(service, Head(inbox)))

OnManagerProperties ==
    /\ Reads("managerChanged")
    /\ Read(IF service.rules.manager
            THEN Publish([service EXCEPT !.manager = ApplyChange(@, Head(inbox).fact)])
            ELSE service)

OnDeviceProperties ==
    /\ Reads("deviceChanged")
    /\ Read(IF service.rules.device = Head(inbox).path
            THEN Publish([service EXCEPT !.device = ApplyChange(@, Head(inbox).fact)])
            ELSE service)

\* The walk is entered again at the device, under a new generation.
OnDevicesChanged ==
    /\ Reads("devicesChanged")
    /\ Read(IF service.rules.devices
            THEN WalkDisplayDevice([service EXCEPT !.generation = @ + 1])
            ELSE service)

-----------------------------------------------------------------------------
(* UPower and the bus.                                                       *)

Answered(call) ==
    LET said == [manager |-> ManagerFact(daemon), named |-> Unknown,
                 device |-> DeviceFact(daemon)]
    IN  Reply(call.what, call.generation,
              IF call.what = "named" THEN daemon.display ELSE call.path, said[call.what])

Refused(call) == Reply("refused", call.generation, call.path, Unknown)

\* Calls are answered in order; a device that is no longer there is an error.
Answer ==
    /\ service.calls # <<>> /\ daemon.up
    /\ LET call == Head(service.calls)
       IN  \/ /\ call.what = "device" => call.path = daemon.display
              /\ inbox' = Append(inbox, Answered(call))
              /\ bounds' = [bounds EXCEPT !.unheard = IF call.what = "named"
                                                       THEN @ \ {"devicesChanged"} ELSE @]
           \/ /\ call.what = "device" /\ call.path # daemon.display
              /\ inbox' = Append(inbox, Refused(call))
              /\ UNCHANGED bounds
           \/ /\ Events < MaxEvents
              /\ inbox' = Append(inbox, Refused(call))
              /\ bounds' = [bounds EXCEPT !.refusals = @ + 1]
    /\ service' = [service EXCEPT !.calls = Tail(@)]
    /\ UNCHANGED daemon

NoAnswer ==
    /\ service.calls # <<>> /\ ~daemon.up
    /\ inbox' = Append(inbox, Refused(Head(service.calls)))
    /\ service' = [service EXCEPT !.calls = Tail(@)]
    /\ UNCHANGED <<daemon, bounds>>

\* The watcher hears of the name only once start() has made it.
Reports(what) == IF service.started THEN Append(inbox, Word(what)) ELSE inbox

DaemonStarts ==
    /\ ~daemon.up /\ Events < MaxEvents
    /\ \E display \in Paths \cup {"none"} :
          daemon' = [daemon EXCEPT !.up = TRUE, !.life = @ + 1, !.display = display]
    /\ inbox' = Reports("registered")
    /\ UNCHANGED <<service, bounds>>

DaemonExits ==
    /\ daemon.up
    /\ daemon' = [daemon EXCEPT !.up = FALSE]
    /\ inbox' = Reports("unregistered")
    /\ UNCHANGED <<service, bounds>>

\* A signal comes last, or overtakes a reply made before it and sent after it.
Sent(message) ==
    \/ inbox' = Append(inbox, message)
    \/ /\ inbox # <<>> /\ Last(inbox).what \in {"manager", "named", "device"}
       /\ inbox' = Front(inbox) \o <<message, Last(inbox)>>

Matters(message) ==
    \/ message.what = "devicesChanged"
    \/ \E i \in DOMAIN inbox : inbox[i].what = message.what

Move(d, message, heard) ==
    /\ daemon.up /\ Events < MaxEvents
    /\ bounds' = [bounds EXCEPT !.moves = @ + 1,
                                !.unheard = IF heard \/ ~Matters(message) THEN @
                                            ELSE @ \cup {message.what}]
    /\ daemon' = d
    /\ IF heard THEN Sent(message) ELSE UNCHANGED inbox
    /\ UNCHANGED service

\* The bus passes a signal on to those who follow it when it is sent.
ManagerChanges ==
    LET d == [daemon EXCEPT !.manager = 1 - @]
    IN  Move(d, Reply("managerChanged", 0, "manager", ManagerFact(d)), service.rules.manager)

LevelChanges ==
    LET d == [daemon EXCEPT !.level = 1 - @]
    IN  /\ daemon.display # "none"
        /\ Move(d, Reply("deviceChanged", 0, d.display, DeviceFact(d)),
                service.rules.device = d.display)

DevicesChange ==
    \E display \in (Paths \cup {"none"}) \ {daemon.display} :
        Move([daemon EXCEPT !.display = display], Word("devicesChanged"),
             service.rules.devices)

-----------------------------------------------------------------------------
Init ==
    /\ daemon \in [up : {FALSE}, life : {0}, manager : {0}, display : {"none"}, level : {0}]
    /\ inbox = <<>>
    /\ service = [started |-> FALSE, generation |-> 1, manager |-> NoObject,
                  device |-> NoObject,
                  rules |-> [manager |-> FALSE, device |-> "none", devices |-> FALSE],
                  concluded |-> FALSE, available |-> FALSE,
                  shown |-> [manager |-> Unknown, device |-> Unknown],
                  calls |-> <<>>]
    /\ bounds = [moves |-> 0, refusals |-> 0, refreshes |-> 0, unheard |-> {}]

EventLoop ==
    \/ Attach \/ ServiceUnregistered \/ ReadReply \/ ReadRefusal
    \/ OnManagerProperties \/ OnDeviceProperties \/ OnDevicesChanged

Bus == Answer \/ NoAnswer

Next ==
    \/ Start \/ Stop \/ RefreshNow \/ EventLoop \/ Bus
    \/ DaemonStarts \/ DaemonExits \/ ManagerChanges \/ LevelChanges \/ DevicesChange

Spec == Init /\ [][Next]_vars

-----------------------------------------------------------------------------
Settled == inbox = <<>> /\ service.calls = <<>>

\* Every variable has its type; what is held back is held back behind a read.
TypeOK ==
    /\ daemon \in Daemon /\ service \in Service
    /\ \A o \in {service.manager, service.device} : o.held # <<>> => o.reading

\* No reading mixes two lives of the daemon, nor what two devices said: late replies of
\* a daemon that restarted or of a device that was replaced never get in.
OneDaemonOneDevice ==
    /\ (service.shown.manager # Unknown /\ service.shown.device # Unknown) =>
           service.shown.device.life = service.shown.manager.life
    /\ service.device.fact # Unknown => service.device.fact.path = service.device.path

\* The answer to the read that this object was told of last, or the call it answers, is on
\* its way.
AnswerComes(o) ==
    LET ForIt(x) == x.path = o.path /\ x.generation = o.readGeneration
    IN  \/ \E i \in DOMAIN service.calls :
               service.calls[i].what # "named" /\ ForIt(service.calls[i])
        \/ \E i \in DOMAIN inbox :
               inbox[i].what \in {"manager", "device", "refused"} /\ ForIt(inbox[i])

\* An object that waits for a read waits for one that is answered, or for one of a walk
\* that another has overtaken: its reply is dropped and the object left waiting
\* (ManagerRead). In the walk there now is, no object is.
ReadOfWalkEnds ==
    \A o \in {service.manager, service.device} :
        o.reading => AnswerComes(o) \/ o.readGeneration < service.generation

\* Every object is well formed and of one source, and no walk waits for an answer that
\* does not come.
WellFormed == TypeOK /\ OneDaemonOneDevice /\ ReadOfWalkEnds

\* getAll: "A read the object was told about always ends now, on every path." While an
\* object holds changes back for a read, the read's answer is on its way.
ReadAlwaysEnds ==
    \A o \in {service.manager, service.device} : o.reading => AnswerComes(o)

\* When everything has arrived, a daemon that is up and followed and has refused nothing
\* is shown as it is, whatever overtook what, unless something of it changed unheard
\* (the device set after a restart: attach() does not connect its two signals again) or the
\* manager waits for a read that was dropped (ReadAlwaysEnds).
InStep ==
    (/\ Settled /\ service.started /\ daemon.up
     /\ bounds.refusals = 0 /\ bounds.unheard = {} /\ ~service.manager.reading)
    => /\ service.available
       /\ service.shown.manager = ManagerFact(daemon)
       /\ service.shown.device = IF daemon.display = "none" THEN Unknown
                                 ELSE DeviceFact(daemon)
=============================================================================
