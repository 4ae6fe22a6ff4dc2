-------------------------------- MODULE Clock --------------------------------
(* The clock on the bar: Clock.qml draws the minute and sleeps until the next,  *)
(* by a timer of the monotonic clock; ClockService tells it when the wall clock *)
(* was set, which a resume from suspend does too, or when the zone changed,     *)
(* which it sees by watches on the zone file and its directory. The shell is    *)
(* prompt: time passes when it has nothing to do. Files change at any moment.   *)
EXTENDS Integers

CONSTANTS Zones,     \* the zone files /etc/localtime may link to
          Minute,    \* ticks in a minute
          Hours,     \* bound: minutes after which the text is the same again
          MaxSets    \* bound: settings of the clock, suspends and changes of the files

ASSUME ClockAssumption ==
    /\ Minute \in Nat \ {0} /\ Hours \in Nat \ {0} /\ MaxSets \in Nat
    /\ Zones \cap {"none", "gone"} = {}

\* wall is the time, zone what the link names, editions how often each zone file has
\* changed, each time to another offset, in whole minutes here.
VARIABLES wall, zone, editions, service, drawn, sets

clockVars == <<wall, zone, editions, service, drawn, sets>>

\* watching: the timerfd is there; wasSet, events: what it and inotify have to report;
\* listed, inode: whether the zone file is among the watched, and the file that is;
\* stage, what is left of handleZoneChanged. missed, a ghost: the watches were renewed
\* when the zone was another already, and no change was announced since.
Service == [watching : BOOLEAN, wasSet : BOOLEAN, events : SUBSET {"file", "directory"},
            listed : BOOLEAN, inode : Zones \cup {"none", "gone"},
            identity : (Zones \cup {"none"}) \X (0..MaxSets),
            stage : {"idle", "same", "changed"}, missed : BOOLEAN]

\* The text, by its minute, and what is left of the timer. ahead, a ghost: the text was drawn
\* in a zone that the service had not noted.
Drawn == [minute : 0..Hours - 1, timer : 0..Minute, ahead : BOOLEAN]

\* A zone file that is another, or says another thing, has another time of change.
ZoneIdentity == <<zone, IF zone = "none" THEN 0 ELSE editions[zone]>>

MinuteNow == (wall \div Minute + ZoneIdentity[2]) % Hours

\* refresh, and armNextChange.
Refresh ==
    drawn' = [minute |-> MinuteNow, timer |-> Minute - (wall % Minute),
              ahead |-> ZoneIdentity # service.identity]

-----------------------------------------------------------------------------
(* The shell. *)

OnTriggered ==
    /\ drawn.timer = 0
    /\ Refresh
    /\ UNCHANGED <<wall, zone, editions, service, sets>>

HandleClockFd ==
    /\ service.wasSet
    /\ service' = [service EXCEPT !.wasSet = FALSE]
    /\ Refresh
    /\ UNCHANGED <<wall, zone, editions, sets>>

\* handleZoneChanged up to the watches; a file that is gone is no longer watched.
HandleZoneChanged ==
    /\ service.stage = "idle"
    /\ \E event \in service.events :
          service' = [service EXCEPT
              !.events = @ \ {event},
              !.listed = @ /\ ~(event = "file" /\ service.inode = "gone"),
              !.identity = ZoneIdentity,
              !.stage = IF ZoneIdentity = service.identity THEN "same" ELSE "changed"]
    /\ UNCHANGED <<wall, zone, editions, drawn, sets>>

\* rewatchZone: watches that are renewed lose what they had to report.
Rewatched(s) == [s EXCEPT !.listed = zone # "none", !.inode = zone, !.events = {}]

\* Mutant: renewed only where the paths are others.
RewatchZoneUnforced(s, force) == IF s.listed = (zone # "none") THEN s ELSE Rewatched(s)

RewatchZone(s, force) ==
    IF ~force /\ s.listed = (zone # "none") THEN s ELSE Rewatched(s)

\* The end of handleZoneChanged, with clockChanged if the zone did.
ZoneHandled ==
    /\ service.stage # "idle"
    /\ LET renewed == RewatchZone(service, service.stage = "changed")
           lost == renewed # service /\ ZoneIdentity # service.identity
       IN  service' = [renewed EXCEPT !.stage = "idle",
                                      !.missed = lost \/ (@ /\ service.stage = "same")]
    /\ IF service.stage = "changed" THEN Refresh ELSE UNCHANGED drawn
    /\ UNCHANGED <<wall, zone, editions, sets>>

-----------------------------------------------------------------------------
(* The machine. *)

Awake == drawn.timer > 0 /\ ~service.wasSet /\ service.events = {} /\ service.stage = "idle"

Tick ==
    /\ Awake
    /\ wall' = (wall + 1) % (Minute * Hours)
    /\ drawn' = [drawn EXCEPT !.timer = @ - 1]
    /\ UNCHANGED <<zone, editions, service, sets>>

Bounded == sets < MaxSets /\ sets' = sets + 1

\* date, NTP or a resume: the monotonic clock has not moved.
ClockSet ==
    /\ Bounded
    /\ wall' \in 0..Minute * Hours - 1
    /\ service' = [service EXCEPT !.wasSet = service.watching]
    /\ UNCHANGED <<zone, editions, drawn>>

Report(events, inode) ==
    service' = [service EXCEPT
        !.events = @ \cup {e \in events : e = "file" => service.listed},
        !.inode = inode]

\* timedatectl replaces the link.
SwitchZone ==
    /\ Bounded
    /\ zone' \in (Zones \cup {"none"}) \ {zone}
    /\ Report({"directory"}, service.inode)
    /\ UNCHANGED <<wall, editions, drawn>>

\* The rules of a zone change, in place or by a new file, which may say the same.
UpdateZone ==
    /\ Bounded
    /\ \E z \in Zones :
          /\ editions' \in {editions, [editions EXCEPT ![z] = @ + 1]}
          /\ \/ /\ editions' # editions
                /\ Report(IF z = service.inode THEN {"file"} ELSE {}, service.inode)
             \/ Report(IF z = service.inode THEN {"file"} ELSE {},
                       IF z = service.inode THEN "gone" ELSE service.inode)
    /\ UNCHANGED <<wall, zone, drawn>>

-----------------------------------------------------------------------------
ClockInit ==
    /\ wall = 0 /\ zone \in Zones \cup {"none"} /\ editions = [z \in Zones |-> 0]
    /\ \E watching \in BOOLEAN :
          service = [watching |-> watching, wasSet |-> FALSE, events |-> {}, listed |-> zone # "none",
                     inode |-> zone, identity |-> ZoneIdentity, stage |-> "idle",
                     missed |-> FALSE]
    /\ drawn = [minute |-> MinuteNow, timer |-> Minute, ahead |-> FALSE]
    /\ sets = 0

ClockNext ==
    \/ OnTriggered \/ HandleClockFd \/ HandleZoneChanged \/ ZoneHandled
    \/ Tick \/ ClockSet \/ SwitchZone \/ UpdateZone

ClockSpec == ClockInit /\ [][ClockNext]_clockVars

-----------------------------------------------------------------------------
ClockTypeOK ==
    /\ wall \in 0..Minute * Hours - 1 /\ zone \in Zones \cup {"none"}
    /\ editions \in [Zones -> 0..MaxSets]
    /\ service \in Service /\ drawn \in Drawn /\ sets \in 0..MaxSets

\* Whenever the shell has nothing to do the minute drawn is the minute it is, and the timer
\* runs out at its end, however the clock and the zone were changed before: unless the
\* clock cannot be watched, or the zone changed once more between two looks at it.
ShowsTheTime ==
    ClockTypeOK /\ (Awake /\ service.watching /\ ~service.missed /\ ~drawn.ahead =>
        drawn.minute = MinuteNow /\ drawn.timer = Minute - (wall % Minute))
=============================================================================
