--------------------------- MODULE Notifications ---------------------------
(* The notification daemon and its toasts: NotificationService, which owns or *)
(* queues for org.freedesktop.Notifications and holds the one notification    *)
(* that shows, its history and Do Not Disturb, and ToastHost, which draws it  *)
(* on every screen and keeps its expiry. Both live on the event loop, and     *)
(* their signals are calls: an operator below is a handler with every slot    *)
(* its signals reach. What the bus reports and what senders call comes in one *)
(* ordered inbox. A notification is its id; texts are left out.               *)
EXTENDS Naturals, Sequences, SequencesExt

CONSTANTS MaxId,          \* the largest quint32, made small
          HistoryLimit,   \* NotificationHistoryLimit
          Screens,
          MaxInbox,       \* bound: what the bus has sent and nobody has read
          MaxClicks       \* bound: clicks posted and not delivered

ASSUME BoundsAssumption ==
    /\ MaxId \in Nat /\ MaxId >= 2
    /\ HistoryLimit \in Nat \ {0}
    /\ MaxInbox \in Nat /\ MaxClicks \in Nat

VARIABLES bus, shell, history, screens, clicks

vars == <<bus, shell, history, screens, clicks>>

Id == 1..MaxId
NoId == 0
Reason == {"Expired", "Dismissed", "Closed", "Undefined"}

\* up: our connection; owner of the name; waiting: our place in its queue.
Bus == [up : BOOLEAN, owner : {"none", "shell", "other"}, waiting : BOOLEAN,
        inbox : Seq({"registered", "unregistered", "Notify", "CloseNotification"})]

\* What the last handler sent to the senders: answers to Notify, and NotificationClosed
\* with its reason.
Message == [id : Id, why : Reason \cup {"answer"}]

\* NotificationService (to dnd), ToastHost (shown: shownId_; expiring: its timer), and
\* two ghosts: owed, the notifications whose end nobody has told their sender, and said.
Shell == [available : BOOLEAN, exported : BOOLEAN, stopped : BOOLEAN, current : Id \cup {NoId},
          next : Id \cup {NoId}, expires : BOOLEAN, dnd : BOOLEAN,
          shown : Id \cup {NoId}, toasts : SUBSET Screens, expiring : BOOLEAN,
          owed : SUBSET Id, said : Seq(Message)]

-----------------------------------------------------------------------------
(* The handlers, over a record of the shell.                                 *)

Silent(m) == [m EXCEPT !.said = <<>>]

DismissToasts(m) == [m EXCEPT !.shown = NoId, !.toasts = {}, !.expiring = FALSE]

\* Mutant: a close of the notification that shows taken for an older one's.
HandleNotificationClosedDeaf(m, id) == IF id = m.current THEN DismissToasts(m) ELSE m

HandleNotificationClosed(m, id) ==
    IF id # NoId /\ id = m.shown THEN DismissToasts(m) ELSE m

NotificationClosed(m, id, reason) ==
    HandleNotificationClosed([m EXCEPT !.said = Append(@, [id |-> id, why |-> reason]),
                                       !.owed = @ \ {id}], id)

\* Mutant: any id the caller names is closed.
CloseAnyId(m, id, reason) ==
    IF id = NoId THEN m ELSE NotificationClosed([m EXCEPT !.current = NoId], id, reason)

\* closeNotification.
Close(m, id, reason) ==
    IF id = NoId \/ id # m.current THEN m
    ELSE NotificationClosed([m EXCEPT !.current = NoId], id, reason)

\* The toasts of the screens that are there are redrawn or made, the expiry starts
\* anew or, for a notification that never expires, stops.
ShowToasts(m, here) ==
    [m EXCEPT !.shown = IF m.available THEN m.current ELSE NoId,
              !.toasts = here, !.expiring = m.expires]

HandleNotificationChanged(m, here) ==
    CASE ~m.available -> DismissToasts(m)
      [] m.available /\ m.current = NoId -> m
      [] m.available /\ m.current # NoId /\ m.dnd -> Close(m, m.current, "Undefined")
      [] m.available /\ m.current # NoId /\ ~m.dnd -> ShowToasts(m, here)

HandleDoNotDisturbChanged(m) ==
    IF ~m.dnd THEN m ELSE Close(DismissToasts(m), m.shown, "Undefined")

\* Whoever waits on a notification sees the name lose its owner instead.
ClearReading(m, here) ==
    HandleNotificationChanged([m EXCEPT !.current = NoId, !.available = FALSE, !.owed = {}],
                              here)

\* Mutant: the counter taken as it comes.
NextIdUnwrapped(m) == m.next + 1

\* ++nextId_ of a quint32, passing over zero and the id that shows.
NextId(m) ==
    LET Nth(k) == (m.next + k) % (MaxId + 1)
        Free(k) == Nth(k) \notin {NoId, m.current}
    IN  Nth(CHOOSE k \in 1..3 : Free(k) /\ \A j \in 1..(k - 1) : ~Free(j))

RecordInHistory(h, id) ==
    LET all == <<id>> \o RemoveFirst(h, id)
    IN  SubSeq(all, 1, IF Len(all) > HistoryLimit THEN HistoryLimit ELSE Len(all))

\* Mutant: the displaced notification looked for after it was replaced.
NotifyForgetful(m, here, replaces, expires) ==
    LET id == IF replaces = NoId THEN NextId(m) ELSE replaces
        changed == HandleNotificationChanged(
                       [m EXCEPT !.next = IF replaces = NoId THEN id ELSE @, !.current = id,
                                 !.expires = expires, !.owed = @ \cup {id}], here)
    IN  [changed EXCEPT !.said = Append(@, [id |-> id, why |-> "answer"])]

\* The reading is replaced, notificationChanged is emitted, then the sender of the
\* displaced notification is told, and the answer goes out when the slot returns.
Notify(m, here, replaces, expires) ==
    LET id == IF replaces = NoId THEN NextId(m) ELSE replaces
        changed == HandleNotificationChanged(
                       [m EXCEPT !.next = IF replaces = NoId THEN id ELSE @, !.current = id,
                                 !.expires = expires, !.owed = @ \cup {id}], here)
        told == IF m.current \notin {NoId, id}
                THEN NotificationClosed(changed, m.current, "Undefined") ELSE changed
    IN  [told EXCEPT !.said = Append(@, [id |-> id, why |-> "answer"])]

-----------------------------------------------------------------------------
(* The bus.                                                                  *)

Report(b, what) == [b EXCEPT !.inbox = Append(@, what)]

\* RequestName with QueueService: a free name is taken, one held elsewhere waited for.
Asked(b) ==
    CASE b.owner = "none" -> Report([b EXCEPT !.owner = "shell"], "registered")
      [] b.owner = "shell" -> b
      [] b.owner = "other" -> [b EXCEPT !.waiting = TRUE]

\* Mutant: an object that is exported taken for a failure to export it.
RegisterServiceOnce(b, m) ==
    /\ bus' = IF b.up /\ ~m.exported THEN Asked(b) ELSE b
    /\ shell' = IF b.up /\ ~m.exported
                THEN [m EXCEPT !.exported = TRUE, !.available = b.owner # "other"] ELSE m

\* registerService, over the bus b and the shell m.
RegisterService(b, m) ==
    /\ bus' = IF b.up THEN Asked(b) ELSE b
    /\ shell' = LET exported == [m EXCEPT !.exported = TRUE]
                IN  CASE ~b.up -> m
                      [] b.up /\ (b.owner = "other" \/ m.available) -> exported
                      [] b.up /\ b.owner # "other" /\ ~m.available ->
                             HandleNotificationChanged([exported EXCEPT !.available = TRUE],
                                                       screens)

Start ==
    /\ Len(bus.inbox) < MaxInbox
    /\ RegisterService(bus, [Silent(shell) EXCEPT !.stopped = FALSE])
    /\ UNCHANGED <<history, screens, clicks>>

\* ReleaseName gives up the name or the place in its queue.
Stop ==
    /\ Len(bus.inbox) < MaxInbox
    /\ IF ~bus.up
       THEN shell' = [Silent(shell) EXCEPT !.stopped = TRUE] /\ UNCHANGED bus
       ELSE /\ bus' = IF bus.owner = "shell"
                      THEN Report([bus EXCEPT !.owner = "none"], "unregistered")
                      ELSE [bus EXCEPT !.waiting = FALSE]
            /\ shell' = ClearReading([Silent(shell) EXCEPT !.stopped = TRUE,
                                                          !.exported = FALSE], screens)
    /\ UNCHANGED <<history, screens, clicks>>

Reads(what) == bus.inbox # <<>> /\ Head(bus.inbox) = what

Read == [bus EXCEPT !.inbox = Tail(@)]

\* Some process, ours or another, has the name: ask for it, unless stopped or had.
OnServiceRegistered ==
    /\ Reads("registered")
    /\ IF shell.stopped \/ shell.available
       THEN bus' = Read /\ shell' = Silent(shell)
       ELSE RegisterService(Read, Silent(shell))
    /\ UNCHANGED <<history, screens, clicks>>

\* Mutant: the report believed without asking the bus.
OnServiceUnregisteredBelieved ==
    /\ Reads("unregistered")
    /\ bus' = Read
    /\ shell' = ClearReading(Silent(shell), screens)
    /\ UNCHANGED <<history, screens, clicks>>

\* A report of an old release may come after the name was taken back: the bus is asked.
OnServiceUnregistered ==
    /\ Reads("unregistered")
    /\ bus' = Read
    /\ shell' = IF bus.up /\ bus.owner = "shell" THEN Silent(shell)
                ELSE ClearReading(Silent(shell), screens)
    /\ UNCHANGED <<history, screens, clicks>>

\* A call for an object no longer exported is refused by Qt.
ReadRefused ==
    /\ ~shell.exported
    /\ Reads("Notify") \/ Reads("CloseNotification")
    /\ bus' = Read
    /\ shell' = Silent(shell)
    /\ UNCHANGED <<history, screens, clicks>>

ReadNotify ==
    /\ Reads("Notify") /\ shell.exported
    /\ bus' = Read
    /\ \E replaces \in Id \cup {NoId}, expires \in BOOLEAN :
          LET id == IF replaces = NoId THEN NextId(shell) ELSE replaces
          IN  /\ shell' = Notify(Silent(shell), screens, replaces, expires)
              /\ history' = RecordInHistory(history, id)
    /\ UNCHANGED <<screens, clicks>>

ReadCloseNotification ==
    /\ Reads("CloseNotification") /\ shell.exported
    /\ bus' = Read
    /\ \E id \in Id : shell' = Close(Silent(shell), id, "Closed")
    /\ UNCHANGED <<history, screens, clicks>>

-----------------------------------------------------------------------------
(* The person, the screens and the clock.                                    *)

SetDoNotDisturb ==
    /\ shell' = HandleDoNotDisturbChanged([Silent(shell) EXCEPT !.dnd = ~@])
    /\ UNCHANGED <<bus, history, screens, clicks>>

RemoveFromHistory ==
    /\ history # <<>>
    /\ \E entry \in Range(history) : history' = RemoveFirst(history, entry)
    /\ shell' = Silent(shell)
    /\ UNCHANGED <<bus, screens, clicks>>

ClearHistory ==
    /\ history # <<>> /\ history' = <<>>
    /\ shell' = Silent(shell)
    /\ UNCHANGED <<bus, screens, clicks>>

\* dismissRequested goes through a queued connection, and does not say of what.
Click ==
    /\ shell.toasts # {} /\ clicks < MaxClicks
    /\ clicks' = clicks + 1
    /\ shell' = Silent(shell)
    /\ UNCHANGED <<bus, history, screens>>

DismissFromToast ==
    /\ clicks > 0
    /\ clicks' = clicks - 1
    /\ shell' = Close(DismissToasts(Silent(shell)), shell.shown, "Dismissed")
    /\ UNCHANGED <<bus, history, screens>>

Expire ==
    /\ shell.expiring
    /\ shell' = Close(DismissToasts(Silent(shell)), shell.shown, "Expired")
    /\ UNCHANGED <<bus, history, screens, clicks>>

\* handleScreenRemoved: the toast goes with its screen, what is shown and its clock stay.
ScreenRemoved ==
    /\ \E screen \in screens :
          /\ screens' = screens \ {screen}
          /\ shell' = [Silent(shell) EXCEPT !.toasts = @ \ {screen}]
    /\ UNCHANGED <<bus, history, clicks>>

\* Nobody listens: a screen that comes gets a toast with the next notification.
ScreenAdded ==
    /\ \E screen \in Screens \ screens : screens' = screens \cup {screen}
    /\ shell' = Silent(shell)
    /\ UNCHANGED <<bus, history, clicks>>

\* A sender's call is routed to the name's owner.
SenderCalls ==
    /\ bus.up /\ bus.owner = "shell" /\ Len(bus.inbox) < MaxInbox
    /\ \E call \in {"Notify", "CloseNotification"} : bus' = Report(bus, call)
    /\ shell' = Silent(shell)
    /\ UNCHANGED <<history, screens, clicks>>

OtherTakesName ==
    /\ bus.up /\ bus.owner = "none" /\ Len(bus.inbox) < MaxInbox
    /\ bus' = Report([bus EXCEPT !.owner = "other"], "registered")
    /\ shell' = Silent(shell)
    /\ UNCHANGED <<history, screens, clicks>>

\* The name goes to the shell if it waits, which is reported as a registration.
OtherReleasesName ==
    /\ bus.up /\ bus.owner = "other" /\ Len(bus.inbox) < MaxInbox
    /\ bus' = IF bus.waiting
              THEN Report([bus EXCEPT !.owner = "shell", !.waiting = FALSE], "registered")
              ELSE Report([bus EXCEPT !.owner = "none"], "unregistered")
    /\ shell' = Silent(shell)
    /\ UNCHANGED <<history, screens, clicks>>

\* The connection to the bus ends, and with it whatever it had granted.
BusLost ==
    /\ bus.up
    /\ bus' = [bus EXCEPT !.up = FALSE, !.owner = "none", !.waiting = FALSE]
    /\ shell' = Silent(shell)
    /\ UNCHANGED <<history, screens, clicks>>

-----------------------------------------------------------------------------
Init ==
    /\ bus \in [up : {TRUE}, owner : {"none", "other"}, waiting : {FALSE}, inbox : {<<>>}]
    /\ shell = [available |-> FALSE, exported |-> FALSE, stopped |-> FALSE, current |-> NoId,
                next |-> NoId, expires |-> FALSE, dnd |-> FALSE, shown |-> NoId,
                toasts |-> {}, expiring |-> FALSE, owed |-> {}, said |-> <<>>]
    /\ history = <<>>
    /\ screens = Screens
    /\ clicks = 0

Next ==
    \/ Start \/ Stop \/ OnServiceRegistered \/ OnServiceUnregistered
    \/ ReadRefused \/ ReadNotify \/ ReadCloseNotification
    \/ SetDoNotDisturb \/ RemoveFromHistory \/ ClearHistory
    \/ Click \/ DismissFromToast \/ Expire \/ ScreenRemoved \/ ScreenAdded
    \/ SenderCalls \/ OtherTakesName \/ OtherReleasesName \/ BusLost

Spec == Init /\ [][Next]_vars

-----------------------------------------------------------------------------
\* Every variable has its type; a toast is on a screen that is there, and no two
\* entries of the history have the same id.
TypeOK ==
    /\ bus \in Bus /\ shell \in Shell
    /\ history \in Seq(Id) /\ Len(history) <= HistoryLimit /\ IsInjective(history)
    /\ screens \subseteq Screens /\ shell.toasts \subseteq screens
    /\ clicks \in 0..MaxClicks

\* While the shell is the daemon, the notification it holds is the one the toasts show,
\* whatever order closes, expiries, clicks and handovers came in; otherwise none shows.
ShownIsCurrent ==
    /\ shell.shown = IF shell.available THEN shell.current ELSE NoId
    /\ shell.shown = NoId => shell.toasts = {}

\* The expiry runs exactly while what is shown wants to expire: no notification is closed
\* by the clock of an earlier one, and none that should go stays for want of a clock.
ClockIsItsOwn == shell.expiring <=> shell.shown # NoId /\ shell.expires

\* The only sender that has yet to hear of its notification's end is the one whose
\* notification the daemon holds: displaced, suppressed, expired ones have been told.
OneIsWaiting == shell.owed = {shell.current} \ {NoId}

\* Do Not Disturb: nothing shows.
NothingDisturbs == shell.dnd => shell.shown = NoId

\* The toasts follow the daemon: what shows, for how long, and whether anything does.
ToastsFollowDaemon == ShownIsCurrent /\ ClockIsItsOwn /\ NothingDisturbs

\* Once the bus's reports are read, the shell says that it is the daemon exactly when the
\* name is its own, however often it was queued, given, released and taken back.
ReadingFollowsOwner ==
    (bus.up /\ \A what \in Range(bus.inbox) : what \notin {"registered", "unregistered"})
        => (shell.available <=> bus.owner = "shell")

\* The late report of an earlier release, read after the name was taken back, does not
\* withdraw what the shell shows as the name's owner.
OwnerKeepsReading ==
    [][shell.available /\ ~shell'.available => bus'.owner # "shell"]_vars

\* Each end among the messages is of a notification somebody waits on, or that is
\* answered for among them, and comes once.
ToldOnceOf(owed, said) ==
    \A i \in DOMAIN said :
        said[i].why \in Reason =>
            /\ \/ said[i].id \in owed
               \/ \E j \in DOMAIN said : said[j].id = said[i].id /\ said[j].why \notin Reason
            /\ \A j \in DOMAIN said :
                  (said[j].id = said[i].id /\ said[j].why \in Reason) => j = i

\* A sender hears the end of a notification once, and of no notification that was not up.
ToldOnce == [][ToldOnceOf(shell.owed, shell'.said)]_vars
=============================================================================
