-------------------------------- MODULE Media --------------------------------
(* MediaService, which finds the players on the session bus, follows the one   *)
(* that was active last and sends it the transport keys' requests. It reads    *)
(* two interfaces of each player, once more whenever one was invalidated, and   *)
(* tells a player from the next one under its name by serial. What players and  *)
(* the bus send arrives in one ordered queue; players come and go, and a        *)
(* process may hold more than one name.                                         *)
EXTENDS ObjectProperties, SequencesExt

CONSTANTS LastName,      \* the players' well-known names are numbered as the service sorts them
          MaxProcesses,  \* bound: processes that ever take a name
          MaxEvents      \* bound: names taken, changes announced and reads refused by players,
                         \* losses of the bus, and transport keys, in all

\* daemon here is the bus with the players on it; owner 0 is nobody.
VARIABLES daemon, inbox, service, bounds

vars == <<daemon, inbox, service, bounds>>

Names == 1..LastName

Owner == 1..MaxProcesses
Interface == {"player", "identity"}

\* What a process plays or calls itself; known FALSE is an invalidated property.
Fact == [owner : Owner \cup {0}, known : BOOLEAN, value : 0..1]
Unknown == [owner |-> 0, known |-> FALSE, value |-> 0]

Bus == [up : BOOLEAN, owners : [Names -> Owner \cup {0}], seen : 0..MaxProcesses,
        plays : [Owner -> [Interface -> 0..1]]]

Says(bus, owner, interface) ==
    [owner |-> owner, known |-> TRUE, value |-> bus.plays[owner][interface]]

Invalidated == [known |-> FALSE, value |-> 0]

Properties == [fact : Fact, held : Seq(Fact \cup {Invalidated}),
               reading : BOOLEAN, refresh : BOOLEAN]
Unread == [fact |-> Unknown, held |-> <<>>, reading |-> FALSE, refresh |-> FALSE]

\* MediaService::Player; a name with owner 0 is not in players_.
Player == [owner : Owner \cup {0}, serial : Nat, activity : Nat,
           read : [Interface -> Properties]]
NoPlayer == [owner |-> 0, serial |-> 0, activity |-> 0,
             read |-> [interface \in Interface |-> Unread]]

NoReading == [owner |-> 0, player |-> Unknown, identity |-> Unknown]

-----------------------------------------------------------------------------
(* MediaService.                                                             *)

Present(m) == {name \in Names : m.players[name].owner # 0}

\* followedPlayer: the first of the most active ones.
Followed(m) ==
    CHOOSE name \in Present(m) : \A other \in Present(m) \ {name} :
        \/ m.players[other].activity < m.players[name].activity
        \/ m.players[other].activity = m.players[name].activity /\ name < other

Publish(m) ==
    [m EXCEPT !.shown =
        IF Present(m) = {} THEN NoReading
        ELSE LET player == m.players[Followed(m)]
             IN  [owner |-> player.owner, player |-> player.read["player"].fact,
                  identity |-> player.read["identity"].fact]]

Ask(m, call) == [m EXCEPT !.calls = Append(@, call)]

Question(m, what, name, interface) ==
    [what |-> what, name |-> name, interface |-> interface,
     owner |-> m.players[name].owner, serial |-> m.players[name].serial,
     generation |-> m.generation]

\* Mutant: a read asked for while one is on its way forgotten.
FetchPropertiesOnce(m, name, interface) ==
    IF m.players[name].read[interface].reading THEN m
    ELSE Ask([m EXCEPT !.players[name].read[interface] = BeginRead(@)],
             Question(m, "read", name, interface))

\* One read at a time; another is asked for when it ends.
FetchProperties(m, name, interface) ==
    IF m.players[name].read[interface].reading
    THEN [m EXCEPT !.players[name].read[interface].refresh = TRUE]
    ELSE Ask([m EXCEPT !.players[name].read[interface] =
                           BeginRead([@ EXCEPT !.refresh = FALSE])],
             Question(m, "read", name, interface))

AdoptPlayer(m, name, owner) ==
    IF m.players[name].owner = owner THEN m
    ELSE LET adopted == [m EXCEPT !.serial = @ + 1,
                                  !.players[name] = [NoPlayer EXCEPT !.owner = owner,
                                                                     !.serial = m.serial + 1]]
         IN  FetchProperties(FetchProperties(adopted, name, "player"), name, "identity")

OnOwnerChanged(m, name, owner) ==
    LET removed == [m EXCEPT !.revised = @ \cup {name}, !.serial = @ + 1,
                             !.players[name] = NoPlayer]
    IN  Publish(IF owner # 0 THEN AdoptPlayer(removed, name, owner) ELSE removed)

AskOwner(m, name, names) ==
    IF name \in names \ m.revised THEN Ask(m, Question(m, "owner", name, "player")) ELSE m

\* The names there were when the shell asked, but those that have changed hands since.
Listed(m, names) ==
    LET asked[name \in 0..LastName] ==
            IF name = 0 THEN m ELSE AskOwner(asked[name - 1], name, names)
    IN  asked[LastName]

OwnerFound(m, name, owner) ==
    IF name \in m.revised \/ owner = 0 THEN m ELSE AdoptPlayer(m, name, owner)

\* The reply, or the refusal, of a read; of a player that has been replaced, nothing.
PropertiesRead(m, reply) ==
    LET player == m.players[reply.name]
        read == player.read[reply.interface]
        ended == [m EXCEPT !.players[reply.name].read[reply.interface] =
                      IF reply.refused THEN AbortRead(@) ELSE AdoptAll(@, reply.fact)]
    IN  IF player.owner = 0 \/ player.serial # reply.serial THEN m
        ELSE IF read.refresh THEN FetchProperties(Publish(ended), reply.name, reply.interface)
        ELSE Publish(ended)

\* What was only invalidated is read again.
Told(m, name, signal) ==
    LET active == IF signal.interface = "player" THEN m.activity + 1 ELSE m.activity
        changed == [m EXCEPT
            !.activity = active,
            !.players[name].activity = IF signal.interface = "player" THEN active ELSE @,
            !.players[name].read[signal.interface] = ApplyChange(@, signal.fact)]
    IN  IF m.players[name].owner # signal.owner THEN m
        ELSE IF signal.fact.known THEN changed
        ELSE FetchProperties(changed, name, signal.interface)

\* Every name of the sender is told.
OnPropertiesChanged(m, signal) ==
    LET told[name \in 0..LastName] ==
            IF name = 0 THEN m ELSE Told(told[name - 1], name, signal)
    IN  Publish(told[LastName])

\* detach() and an empty reading.
Detach(m) ==
    [m EXCEPT !.generation = @ + 1, !.subscribed = FALSE, !.revised = {}, !.activity = 0,
              !.players = [name \in Names |-> NoPlayer], !.shown = NoReading]

Events == daemon.seen + bounds.moves + bounds.refusals + bounds.losses + bounds.requests

-----------------------------------------------------------------------------
(* What reaches the service.                                                 *)

Start ==
    /\ ~service.subscribed /\ daemon.up
    /\ service' = LET m == [Detach(service) EXCEPT !.subscribed = TRUE]
                  IN  Ask(m, [what |-> "names", generation |-> m.generation])
    /\ UNCHANGED <<daemon, inbox, bounds>>

Arrives(what) == inbox # <<>> /\ Head(inbox).what = what

Handle(m) == service' = m /\ inbox' = Tail(inbox) /\ UNCHANGED <<daemon, bounds>>

\* The continuations of the calls look at the generation first.
Live(reply) == reply.generation = service.generation

NamesListed ==
    /\ Arrives("names")
    /\ Handle(IF Live(Head(inbox)) THEN Listed(service, Head(inbox).names) ELSE service)

OwnerAnswered ==
    /\ Arrives("owner")
    /\ Handle(IF Live(Head(inbox))
              THEN OwnerFound(service, Head(inbox).name, Head(inbox).owner) ELSE service)

ReadAnswered ==
    /\ Arrives("read")
    /\ Handle(IF Live(Head(inbox)) THEN PropertiesRead(service, Head(inbox)) ELSE service)

NameOwnerChanged ==
    /\ Arrives("nameOwnerChanged")
    /\ Handle(IF service.subscribed
              THEN OnOwnerChanged(service, Head(inbox).name, Head(inbox).owner) ELSE service)

PropertiesChanged ==
    /\ Arrives("propertiesChanged")
    /\ Handle(IF service.subscribed THEN OnPropertiesChanged(service, Head(inbox))
              ELSE service)

BusDisconnected ==
    /\ Arrives("disconnected")
    /\ Handle(IF service.subscribed THEN Detach(service) ELSE service)

\* playPause, next, previous: sendTransport to the player followed now.
Transport ==
    /\ service.subscribed /\ daemon.up /\ Present(service) # {} /\ Events < MaxEvents
    /\ bounds' = [bounds EXCEPT !.requests = @ + 1]
    /\ service' = Ask(service, [what |-> "transport",
                                owner |-> service.players[Followed(service)].owner])
    /\ UNCHANGED <<daemon, inbox>>

-----------------------------------------------------------------------------
(* The bus and the players.                                                  *)

Arrive(message) == inbox' = Append(inbox, message)

Answered(call, refused) ==
    \/ /\ call.what = "names"
       /\ Arrive([what |-> "names", generation |-> call.generation,
                  names |-> {name \in Names : daemon.owners[name] # 0}])
    \/ /\ call.what = "owner"
       /\ Arrive([what |-> "owner", generation |-> call.generation, name |-> call.name,
                  owner |-> daemon.owners[call.name]])
    \/ /\ call.what = "read"
       /\ Arrive([what |-> "read", generation |-> call.generation, name |-> call.name,
                  serial |-> call.serial, interface |-> call.interface,
                  refused |-> refused,
                  fact |-> IF refused THEN Unknown
                           ELSE Says(daemon, call.owner, call.interface)])
    \/ /\ call.what = "transport"
       /\ UNCHANGED inbox

Alive(owner) == \E name \in Names : daemon.owners[name] = owner

\* A player that is gone, or does not want to, answers with an error, and so do all when
\* the bus is lost.
Answer ==
    /\ service.calls # <<>>
    /\ LET call == Head(service.calls)
           gone == call.what = "read" /\ ~(daemon.up /\ Alive(call.owner))
       IN  \/ daemon.up /\ Answered(call, gone) /\ UNCHANGED bounds
           \/ /\ daemon.up /\ call.what = "read" /\ ~gone /\ Events < MaxEvents
              /\ Answered(call, TRUE)
              /\ bounds' = [bounds EXCEPT !.refusals = @ + 1]
           \/ /\ ~daemon.up
              /\ IF gone THEN Answered(call, TRUE) ELSE UNCHANGED inbox
              /\ UNCHANGED bounds
    /\ service' = [service EXCEPT !.calls = Tail(@)]
    /\ UNCHANGED daemon

Subscribed(message) ==
    IF service.subscribed THEN Append(inbox, message) ELSE inbox

OwnerChanges(name, owner) ==
    /\ inbox' = Subscribed([what |-> "nameOwnerChanged", name |-> name, owner |-> owner])
    /\ UNCHANGED <<service, bounds>>

\* A name is taken by a new process or by one that already holds another, from whoever
\* held it.
TakeName ==
    /\ daemon.up
    /\ daemon.seen < MaxProcesses /\ Events < MaxEvents
    /\ \E name \in Names, owner \in {daemon.seen + 1} \cup {x \in Owner : Alive(x)} :
           /\ daemon.owners[name] # owner
           /\ daemon' = [daemon EXCEPT !.owners[name] = owner, !.seen = @ + 1]
           /\ OwnerChanges(name, owner)

ReleaseName ==
    /\ daemon.up
    /\ \E name \in Names :
           /\ daemon.owners[name] # 0
           /\ daemon' = [daemon EXCEPT !.owners[name] = 0]
           /\ OwnerChanges(name, 0)

\* A signal comes last, or overtakes its player's reply.
Sent(message) ==
    \/ inbox' = Append(inbox, message)
    \/ /\ inbox # <<>> /\ Last(inbox).what = "read"
       /\ inbox' = Front(inbox) \o <<message, Last(inbox)>>

\* A change is announced with its value, or only that there is another one.
PlayerChanges ==
    /\ daemon.up /\ service.subscribed /\ Events < MaxEvents
    /\ \E owner \in Owner, interface \in Interface, known \in BOOLEAN :
           LET now == [daemon EXCEPT !.plays[owner][interface] = 1 - @]
           IN  /\ Alive(owner)
               /\ daemon' = now
               /\ Sent([what |-> "propertiesChanged", owner |-> owner,
                        interface |-> interface,
                        fact |-> IF known THEN Says(now, owner, interface)
                                 ELSE Invalidated])
    /\ bounds' = [bounds EXCEPT !.moves = @ + 1]
    /\ UNCHANGED service

BusLost ==
    /\ daemon.up /\ service.subscribed /\ Events < MaxEvents
    /\ daemon' = [daemon EXCEPT !.up = FALSE]
    /\ bounds' = [bounds EXCEPT !.losses = @ + 1]
    /\ inbox' = Append(inbox, [what |-> "disconnected"])
    /\ UNCHANGED service

-----------------------------------------------------------------------------
Init ==
    /\ daemon \in [up : {TRUE}, owners : [Names -> {0}], seen : {0},
                   plays : [Owner -> [Interface -> {0}]]]
    /\ inbox = <<>>
    /\ service = [subscribed |-> FALSE, generation |-> 0, serial |-> 0, activity |-> 0,
                  revised |-> {}, players |-> [name \in Names |-> NoPlayer],
                  shown |-> NoReading, calls |-> <<>>]
    /\ bounds = [moves |-> 0, refusals |-> 0, losses |-> 0, requests |-> 0]

EventLoop ==
    \/ NamesListed \/ OwnerAnswered \/ ReadAnswered
    \/ NameOwnerChanged \/ PropertiesChanged \/ BusDisconnected

Next ==
    \/ Start \/ EventLoop \/ Transport \/ Answer
    \/ TakeName \/ ReleaseName \/ PlayerChanges \/ BusLost

Spec == Init /\ [][Next]_vars

-----------------------------------------------------------------------------
Settled == inbox = <<>> /\ service.calls = <<>>

TypeOK ==
    /\ daemon \in Bus
    /\ \A name \in Names, interface \in Interface :
           LET read == service.players[name].read[interface]
           IN  /\ service.players[name] \in Player
               /\ (read.held # <<>> \/ read.refresh) => read.reading

\* What is drawn is one process's, and the one a key pressed now would go to, but for a
\* player that was found by its name and has not said anything yet (adoptPlayer does not
\* publish).
ShownIsAsked ==
    /\ \A interface \in Interface : service.shown[interface].owner \in {0, service.shown.owner}
    /\ IF Present(service) = {} THEN service.shown.owner = 0
       ELSE LET player == service.players[Followed(service)]
            IN  \/ service.shown.owner = player.owner
               \/ \A interface \in Interface :
                      player.read[interface].reading /\ player.read[interface].fact = Unknown

\* A player that holds changes back, or another read, until a read ends has that read's
\* answer on its way: one that names it by its serial, in this life of the service.
ReadAlwaysEnds ==
    \A name \in Names, interface \in Interface :
        LET player == service.players[name]
            ForIt(x) == /\ x.what = "read" /\ x.name = name /\ x.interface = interface
                        /\ x.serial = player.serial /\ x.generation = service.generation
        IN  player.read[interface].reading =>
                \/ \E i \in DOMAIN service.calls : ForIt(service.calls[i])
                \/ \E i \in DOMAIN inbox : ForIt(inbox[i])

WellFormed == TypeOK /\ ShownIsAsked /\ ReadAlwaysEnds

\* When everything has arrived, the players followed are the owners of the names there
\* are, and each is known as it is: no late answer brings back a player that has left or
\* undoes a change, and what was invalidated has been read again.
InStep ==
    (Settled /\ service.subscribed /\ daemon.up) =>
        \A name \in Names :
            /\ service.players[name].owner = daemon.owners[name]
            /\ (daemon.owners[name] # 0 /\ bounds.refusals = 0) =>
                   \A interface \in Interface :
                       service.players[name].read[interface].fact
                           = Says(daemon, daemon.owners[name], interface)
=============================================================================
