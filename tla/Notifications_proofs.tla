------------------------ MODULE Notifications_proofs ------------------------
(***************************************************************************)
(* Daemon and toasts agree, for ids of any width, any screens and any      *)
(* traffic. Shows is what the toasts promise of the reading; Good adds who *)
(* is still owed the end of a notification. Handlers run inside handlers,  *)
(* so a lemma says what each does to a shell that is half-way through      *)
(* another: Loose is what a change of the reading may leave behind.        *)
(***************************************************************************)
EXTENDS Notifications, SequenceTheorems, TLAPS

\* The toasts show the reading, for as long as it wants, and not under Do Not Disturb.
Shows(m) ==
    /\ m \in Shell
    /\ m.shown = IF m.available THEN m.current ELSE NoId
    /\ m.shown = NoId => m.toasts = {}
    /\ m.expiring <=> m.shown # NoId /\ m.expires
    /\ m.dnd => m.shown = NoId

Good(m) == Shows(m) /\ m.owed = {m.current} \ {NoId}

\* A reading just replaced, the toasts not yet told.
Loose(m) ==
    /\ m \in Shell
    /\ m.available /\ (m.current = NoId \/ m.dnd) =>
           m.shown = NoId /\ m.toasts = {} /\ ~m.expiring

IInv == Good(shell) /\ screens \subseteq Screens

\* r is m after the end of id was reported: off the screen if it was on it.
Ended(m, r, id) ==
    /\ r \in Shell
    /\ r.available = m.available /\ r.dnd = m.dnd /\ r.expires = m.expires
    /\ r.owed = m.owed \ {id}
    /\ id = m.shown => r.shown = NoId /\ r.toasts = {} /\ r.expiring = FALSE
    /\ id # m.shown => r.shown = m.shown /\ r.toasts = m.toasts /\ r.expiring = m.expiring

-----------------------------------------------------------------------------
(* The handlers. *)

\* A new id is one that somebody can hold.
LEMMA NextIdIsId ==
    ASSUME NEW m \in Shell
    PROVE  NextId(m) \in Id
  <1> DEFINE Nth(k) == (m.next + k) % (MaxId + 1)
             Free(k) == Nth(k) \notin {NoId, m.current}
             First(k) == Free(k) /\ \A j \in 1..(k - 1) : ~Free(j)
  <1>1. m.next \in 0..MaxId /\ MaxId \in Nat /\ MaxId >= 2
    BY BoundsAssumption DEF Shell, Id, NoId
  <1>2. \A k \in 1..3 : Nth(k) \in 0..MaxId
    BY <1>1
  <1>3. \A k \in 1..3 : Nth(k) = IF m.next + k <= MaxId THEN m.next + k
                                 ELSE m.next + k - (MaxId + 1)
    BY <1>1
  <1>4. Nth(1) # Nth(2) /\ Nth(2) # Nth(3) /\ Nth(1) # Nth(3)
    <2> HIDE DEF Nth
    <2> QED  BY <1>1, <1>3
  <1>5. \E k \in 1..3 : Free(k)
    <2> HIDE DEF Nth
    <2> QED  BY <1>4
  <1>6. \E k \in 1..3 : First(k)
    <2> HIDE DEF Free
    <2> QED  BY <1>5
  <1>7. PICK k \in 1..3 : k = (CHOOSE i \in 1..3 : First(i)) /\ First(k)
    <2> HIDE DEF First
    <2> QED  BY <1>6
  <1>8. NextId(m) = Nth(k)
    BY <1>7 DEF NextId
  <1>9. Nth(k) # NoId
    <2> HIDE DEF Nth
    <2> QED  BY <1>7
  <1> HIDE DEF Nth
  <1> QED
    BY <1>1, <1>2, <1>8, <1>9 DEF Id, NoId

\* A message more to the senders is a shell still.
LEMMA SaidMore ==
    ASSUME NEW m \in Shell, NEW id \in Id, NEW why \in Reason \cup {"answer"}
    PROVE  Append(m.said, [id |-> id, why |-> why]) \in Seq(Message)
  <1>1. [id |-> id, why |-> why] \in Message
    BY DEF Message
  <1> QED
    BY <1>1 DEF Shell

\* The report of an end: told once, and off the screen if it was on.
LEMMA NotificationClosedEffect ==
    ASSUME NEW m \in Shell, NEW id \in Id, NEW reason \in Reason
    PROVE  /\ Ended(m, NotificationClosed(m, id, reason), id)
           /\ NotificationClosed(m, id, reason).current = m.current
  <1> DEFINE q == [m EXCEPT !.said = Append(@, [id |-> id, why |-> reason]),
                            !.owed = @ \ {id}]
  <1>1. Append(m.said, [id |-> id, why |-> reason]) \in Seq(Message)
    BY SaidMore
  <1>2. q \in Shell
    BY <1>1 DEF Shell
  <1>3. /\ q.current = m.current /\ q.available = m.available /\ q.dnd = m.dnd
        /\ q.expires = m.expires /\ q.owed = m.owed \ {id} /\ q.shown = m.shown
        /\ q.toasts = m.toasts /\ q.expiring = m.expiring
    BY DEF Shell
  <1>4. NotificationClosed(m, id, reason) = HandleNotificationClosed(q, id)
    BY DEF NotificationClosed
  <1>5. id # NoId
    BY BoundsAssumption DEF Id, NoId
  <1> HIDE DEF q
  <1>6. CASE id = m.shown
    <2> DEFINE r == DismissToasts(q)
    <2>1. /\ r \in Shell /\ r.available = q.available /\ r.dnd = q.dnd
          /\ r.expires = q.expires /\ r.owed = q.owed /\ r.current = q.current
          /\ r.shown = NoId /\ r.toasts = {} /\ r.expiring = FALSE
      BY <1>2 DEF DismissToasts, Shell
    <2>2. NotificationClosed(m, id, reason) = r
      BY <1>3, <1>4, <1>5, <1>6 DEF HandleNotificationClosed
    <2> HIDE DEF r
    <2> QED
      BY <1>3, <1>6, <2>1, <2>2 DEF Ended
  <1>7. CASE id # m.shown
    BY <1>2, <1>3, <1>4, <1>7 DEF Ended, HandleNotificationClosed
  <1> QED
    BY <1>6, <1>7

\* What closing the notification the daemon holds does.
LEMMA CloseEffect ==
    ASSUME NEW m \in Shell, NEW reason \in Reason, m.current # NoId
    PROVE  /\ Ended(m, Close(m, m.current, reason), m.current)
           /\ Close(m, m.current, reason).current = NoId
  <1> DEFINE q == [m EXCEPT !.current = NoId]
  <1>1. q \in Shell /\ m.current \in Id
    BY DEF Shell
  <1>2. /\ q.current = NoId /\ q.available = m.available /\ q.dnd = m.dnd
        /\ q.expires = m.expires /\ q.owed = m.owed /\ q.shown = m.shown
        /\ q.toasts = m.toasts /\ q.expiring = m.expiring
    BY DEF Shell
  <1>3. Close(m, m.current, reason) = NotificationClosed(q, m.current, reason)
    BY DEF Close
  <1> HIDE DEF q
  <1>4. /\ Ended(q, Close(m, m.current, reason), m.current)
        /\ Close(m, m.current, reason).current = q.current
    BY <1>1, <1>3, NotificationClosedEffect
  <1> QED
    BY <1>2, <1>4 DEF Ended

\* CloseNotification keeps daemon and toasts together.
LEMMA CloseGood ==
    ASSUME NEW m, Good(m), NEW id \in Id \cup {NoId}, NEW reason \in Reason
    PROVE  Good(Close(m, id, reason))
  <1>1. m \in Shell
    BY DEF Good, Shows
  <1>2. CASE id = NoId \/ id # m.current
    BY <1>2 DEF Close
  <1>3. CASE id # NoId /\ id = m.current
    <2> DEFINE r == Close(m, id, reason)
    <2>1. Ended(m, r, id) /\ r.current = NoId
      BY <1>1, <1>3, CloseEffect
    <2> HIDE DEF r
    <2>2. Good(r)
      BY <1>3, <2>1 DEF Ended, Good, Shows
    <2> QED
      BY <2>2 DEF r
  <1> QED
    BY <1>2, <1>3

\* A click, an expiry or Do Not Disturb takes the toasts down first and closes what
\* they showed after; the shell may have just been told not to disturb.
LEMMA DismissThenClose ==
    ASSUME NEW m \in Shell, NEW reason \in Reason,
           m.shown = IF m.available THEN m.current ELSE NoId,
           m.owed = {m.current} \ {NoId}
    PROVE  Good(Close(DismissToasts(m), m.shown, reason))
  <1> DEFINE q == DismissToasts(m)
  <1>1. q \in Shell
    BY DEF DismissToasts, Shell
  <1>2. /\ q.shown = NoId /\ q.toasts = {} /\ q.expiring = FALSE
        /\ q.current = m.current /\ q.available = m.available /\ q.dnd = m.dnd
        /\ q.expires = m.expires /\ q.owed = m.owed
    BY DEF DismissToasts, Shell
  <1>3. m.shown \in Id \cup {NoId}
    BY DEF Shell
  <1> HIDE DEF q
  <1>4. CASE m.shown = NoId
    <2>1. Close(q, m.shown, reason) = q
      BY <1>4 DEF Close
    <2> QED
      BY <1>1, <1>2, <1>4, <2>1 DEF Good, Shows, q
  <1>5. CASE m.shown # NoId
    <2>1. m.available /\ m.shown = m.current
      BY <1>5
    <2> DEFINE r == Close(q, m.shown, reason)
    <2>2. Ended(q, r, q.current) /\ r.current = NoId /\ q.current # NoId
      BY <1>1, <1>2, <1>5, <2>1, CloseEffect
    <2> HIDE DEF r
    <2>3. Good(r)
      BY <1>2, <2>2 DEF Ended, Good, Shows
    <2> QED
      BY <2>3 DEF r, q
  <1> QED
    BY <1>4, <1>5

\* notificationChanged brings the toasts in line, and under Do Not Disturb ends the
\* notification that changed.
LEMMA ChangedShows ==
    ASSUME NEW m, Loose(m), NEW here \in SUBSET Screens
    PROVE  LET r == HandleNotificationChanged(m, here)
           IN  /\ Shows(r)
               /\ \/ r.current = m.current /\ r.owed = m.owed
                  \/ /\ m.current # NoId /\ r.current = NoId
                     /\ r.owed = m.owed \ {m.current}
  <1>1. m \in Shell
    BY DEF Loose
  <1>2. CASE ~m.available
    BY <1>1, <1>2 DEF HandleNotificationChanged, DismissToasts, Shows, Shell
  <1>3. CASE m.available /\ m.current = NoId
    <2>1. HandleNotificationChanged(m, here) = m
      BY <1>3 DEF HandleNotificationChanged
    <2> QED
      BY <1>1, <1>3, <2>1 DEF Loose, Shows
  <1>4. CASE m.available /\ m.current # NoId /\ m.dnd
    <2>1. HandleNotificationChanged(m, here) = Close(m, m.current, "Undefined")
      BY <1>4 DEF HandleNotificationChanged
    <2>2. "Undefined" \in Reason
      BY DEF Reason
    <2>3. m.shown = NoId /\ m.toasts = {} /\ m.expiring = FALSE
      BY <1>1, <1>4 DEF Loose, Shell
    <2> DEFINE r == Close(m, m.current, "Undefined")
    <2>4. Ended(m, r, m.current) /\ r.current = NoId
      BY <1>1, <1>4, <2>2, CloseEffect
    <2> HIDE DEF r
    <2>5. Shows(r) /\ r.owed = m.owed \ {m.current}
      BY <1>4, <2>3, <2>4 DEF Ended, Shows
    <2> QED
      BY <1>4, <2>1, <2>4, <2>5 DEF r
  <1>5. CASE m.available /\ m.current # NoId /\ ~m.dnd
    <2>1. HandleNotificationChanged(m, here) = ShowToasts(m, here)
      BY <1>5 DEF HandleNotificationChanged
    <2> QED
      BY <1>1, <1>5, <2>1 DEF ShowToasts, Shows, Shell
  <1> QED
    BY <1>1, <1>2, <1>3, <1>4, <1>5 DEF Shell

\* Notify: one notification is up when it returns and every other sender has been told.
LEMMA NotifyGood ==
    ASSUME NEW m, Good(m), NEW here \in SUBSET Screens,
           NEW replaces \in Id \cup {NoId}, NEW expires \in BOOLEAN
    PROVE  Good(Notify(m, here, replaces, expires))
  <1> DEFINE id == IF replaces = NoId THEN NextId(m) ELSE replaces
             next == IF replaces = NoId THEN id ELSE m.next
             q == [m EXCEPT !.next = IF replaces = NoId THEN id ELSE @, !.current = id,
                            !.expires = expires, !.owed = @ \cup {id}]
             changed == HandleNotificationChanged(q, here)
             told == IF m.current \notin {NoId, id}
                     THEN NotificationClosed(changed, m.current, "Undefined") ELSE changed
  <1>1. m \in Shell /\ m.current \in Id \cup {NoId}
    BY DEF Good, Shows, Shell
  <1>2. id \in Id /\ id # NoId
    BY <1>1, NextIdIsId, BoundsAssumption DEF Id, NoId
  <1> HIDE DEF id
  <1>3. q \in Shell
    BY <1>1, <1>2 DEF Shell
  <1>4. /\ q.current = id /\ q.available = m.available /\ q.dnd = m.dnd
        /\ q.owed = m.owed \cup {id} /\ q.shown = m.shown
        /\ q.toasts = m.toasts /\ q.expiring = m.expiring
    BY <1>1 DEF Shell
  <1>5. Notify(m, here, replaces, expires)
            = [told EXCEPT !.said = Append(@, [id |-> id, why |-> "answer"])]
    BY DEF Notify, id
  <1> HIDE DEF q
  <1>6. Loose(q)
    BY <1>2, <1>3, <1>4 DEF Loose, Good, Shows
  <1>7. /\ Shows(changed)
        /\ \/ changed.current = id /\ changed.owed = q.owed
           \/ changed.current = NoId /\ changed.owed = q.owed \ {id}
    BY <1>4, <1>6, ChangedShows
  <1> HIDE DEF changed
  <1>8. Good(told)
    <2>1. CASE m.current \in {NoId, id}
      BY <1>2, <1>4, <1>7, <2>1 DEF Good
    <2>2. CASE m.current \notin {NoId, id}
      <3>1. changed \in Shell /\ m.current \in Id /\ "Undefined" \in Reason
        BY <1>1, <1>7, <2>2 DEF Shows, Reason
      <3>2. m.current # changed.shown
        BY <1>7, <2>2 DEF Shows
      <3>3. told = NotificationClosed(changed, m.current, "Undefined")
        BY <2>2
      <3> HIDE DEF told
      <3>4. Ended(changed, told, m.current) /\ told.current = changed.current
        BY <3>1, <3>3, NotificationClosedEffect
      <3>5. told.owed = {told.current} \ {NoId}
        BY <1>2, <1>4, <1>7, <2>2, <3>4 DEF Ended, Good
      <3> QED
        BY <1>7, <3>2, <3>4, <3>5 DEF Ended, Good, Shows
    <2> QED
      BY <2>1, <2>2
  <1> HIDE DEF told
  <1>9. Append(told.said, [id |-> id, why |-> "answer"]) \in Seq(Message)
    BY <1>2, <1>8, SaidMore DEF Good, Shows
  <1> QED
    BY <1>5, <1>8, <1>9 DEF Good, Shows, Shell

\* The reading withdrawn: nothing is held, nothing shows, nobody waits.
LEMMA ClearReadingGood ==
    ASSUME NEW m, Good(m), NEW here \in SUBSET Screens
    PROVE  Good(ClearReading(m, here))
  <1> DEFINE q == [m EXCEPT !.current = NoId, !.available = FALSE, !.owed = {}]
  <1>1. q \in Shell /\ q.current = NoId /\ ~q.available /\ q.owed = {}
    BY DEF Good, Shows, Shell
  <1>2. ClearReading(m, here) = HandleNotificationChanged(q, here)
    BY DEF ClearReading
  <1> HIDE DEF q
  <1>3. Loose(q)
    BY <1>1 DEF Loose
  <1> QED
    BY <1>1, <1>2, <1>3, ChangedShows DEF Good

\* Becoming the daemon shows what was received meanwhile.
LEMMA RegisterServiceGood ==
    ASSUME NEW b, NEW m, Good(m), screens \subseteq Screens, RegisterService(b, m)
    PROVE  Good(shell')
  <1> DEFINE exported == [m EXCEPT !.exported = TRUE]
             q == [exported EXCEPT !.available = TRUE]
  <1>1. Good(exported)
    BY DEF Good, Shows, Shell
  <1>2. CASE ~b.up
    BY <1>2 DEF RegisterService
  <1>3. CASE b.up /\ (b.owner = "other" \/ m.available)
    BY <1>1, <1>3 DEF RegisterService
  <1>4. CASE b.up /\ b.owner # "other" /\ ~m.available
    <2>1. shell' = HandleNotificationChanged(q, screens)
      BY <1>4 DEF RegisterService
    <2>2. /\ q \in Shell /\ q.current = m.current /\ q.owed = m.owed
          /\ q.shown = NoId /\ q.toasts = {} /\ q.expiring = FALSE
      BY <1>4 DEF Good, Shows, Shell
    <2> HIDE DEF q
    <2>3. Loose(q)
      BY <2>2 DEF Loose
    <2> QED
      BY <2>1, <2>2, <2>3, ChangedShows DEF Good
  <1> QED
    BY <1>2, <1>3, <1>4

-----------------------------------------------------------------------------
(* What the handlers leave alone, and what they tell the senders. *)

\* r is m after a handler that neither takes nor gives up the reading; its toasts stay
\* on screens that are there.
Follows(m, r, here) ==
    /\ r.available = m.available /\ r.stopped = m.stopped
    /\ m.toasts \subseteq here => r.toasts \subseteq here

\* At most the end of the notification that m holds was told on the way to r.
TellsItsEnd(m, r) ==
    \/ r.said = m.said
    \/ /\ m.current # NoId
       /\ \E why \in Reason : r.said = Append(m.said, [id |-> m.current, why |-> why])

\* What holds from a shell that differs in neither reading nor screen holds from m.
LEMMA FollowsFrom ==
    ASSUME NEW m, NEW q, NEW r, NEW here, Follows(q, r, here),
           q.available = m.available, q.stopped = m.stopped,
           m.toasts \subseteq here => q.toasts \subseteq here
    PROVE  Follows(m, r, here)
  BY DEF Follows

\* What is said after q is said after any m that had said as much as q.
LEMMA TellsFrom ==
    ASSUME NEW m, NEW q, NEW r, TellsItsEnd(q, r), q.said = m.said, q.current = m.current
    PROVE  TellsItsEnd(m, r)
  BY DEF TellsItsEnd

\* Taking the toasts down says nothing.
LEMMA DismissFollows ==
    ASSUME NEW m \in Shell, NEW here
    PROVE  LET r == DismissToasts(m)
           IN  /\ r \in Shell /\ Follows(m, r, here)
               /\ r.said = m.said /\ r.current = m.current /\ r.toasts = {}
  BY DEF DismissToasts, Follows, Shell

\* The report of an end says that end.
LEMMA ClosedFollows ==
    ASSUME NEW m \in Shell, NEW id \in Id, NEW reason \in Reason, NEW here
    PROVE  LET r == NotificationClosed(m, id, reason)
           IN  /\ Follows(m, r, here)
               /\ r.said = Append(m.said, [id |-> id, why |-> reason])
  <1> DEFINE q == [m EXCEPT !.said = Append(@, [id |-> id, why |-> reason]),
                            !.owed = @ \ {id}]
  <1>1. Append(m.said, [id |-> id, why |-> reason]) \in Seq(Message)
    BY SaidMore
  <1>2. /\ q \in Shell /\ q.available = m.available /\ q.stopped = m.stopped
        /\ q.toasts = m.toasts /\ q.said = Append(m.said, [id |-> id, why |-> reason])
    BY <1>1 DEF Shell
  <1>3. NotificationClosed(m, id, reason) \in {q, DismissToasts(q)}
    BY DEF NotificationClosed, HandleNotificationClosed
  <1> HIDE DEF q
  <1> QED
    BY <1>2, <1>3, DismissFollows DEF Follows

\* Closing tells the end of what is held or nothing.
LEMMA CloseFollows ==
    ASSUME NEW m \in Shell, NEW id \in Id \cup {NoId}, NEW reason \in Reason, NEW here
    PROVE  Follows(m, Close(m, id, reason), here) /\ TellsItsEnd(m, Close(m, id, reason))
  <1>1. CASE id = NoId \/ id # m.current
    BY <1>1 DEF Close, Follows, TellsItsEnd
  <1>2. CASE id # NoId /\ id = m.current
    <2> DEFINE q == [m EXCEPT !.current = NoId]
    <2>1. /\ q \in Shell /\ q.available = m.available /\ q.stopped = m.stopped
          /\ q.toasts = m.toasts /\ q.said = m.said
      BY DEF Shell
    <2>2. Close(m, id, reason) = NotificationClosed(q, id, reason) /\ id \in Id
      BY <1>2 DEF Close
    <2> DEFINE r == Close(m, id, reason)
    <2> HIDE DEF q
    <2>3. Follows(q, r, here) /\ r.said = Append(m.said, [id |-> id, why |-> reason])
      BY <2>1, <2>2, ClosedFollows
    <2> HIDE DEF r
    <2>4. Follows(m, r, here)
      BY <2>1, <2>3, FollowsFrom
    <2>5. TellsItsEnd(m, r)
      BY <1>2, <2>3 DEF TellsItsEnd
    <2> QED
      BY <2>4, <2>5 DEF r
  <1> QED
    BY <1>1, <1>2

\* So does a dismissal that takes the toasts down first.
LEMMA DismissThenCloseFollows ==
    ASSUME NEW m \in Shell, NEW reason \in Reason, NEW here
    PROVE  LET r == Close(DismissToasts(m), m.shown, reason)
           IN  Follows(m, r, here) /\ TellsItsEnd(m, r)
  <1>1. m.shown \in Id \cup {NoId}
    BY DEF Shell
  <1> DEFINE q == DismissToasts(m)
             r == Close(q, m.shown, reason)
  <1>2. /\ q \in Shell /\ Follows(m, q, here)
        /\ q.said = m.said /\ q.current = m.current /\ q.toasts = {}
    BY DismissFollows
  <1> HIDE DEF q
  <1>3. Follows(q, r, here) /\ TellsItsEnd(q, r)
    BY <1>1, <1>2, CloseFollows
  <1> HIDE DEF r
  <1>4. q.available = m.available /\ q.stopped = m.stopped
    BY <1>2 DEF Follows
  <1>5. Follows(m, r, here)
    BY <1>2, <1>3, <1>4, FollowsFrom
  <1>6. TellsItsEnd(m, r)
    BY <1>2, <1>3, TellsFrom
  <1> QED
    BY <1>5, <1>6 DEF r, q

\* A change of the reading, drawn on the screens that are there.
LEMMA ChangedFollows ==
    ASSUME NEW m \in Shell, NEW here
    PROVE  LET r == HandleNotificationChanged(m, here)
           IN  Follows(m, r, here) /\ TellsItsEnd(m, r)
  <1>1. m.current \in Id \cup {NoId} /\ "Undefined" \in Reason
    BY DEF Shell, Reason
  <1>2. /\ Follows(m, ShowToasts(m, here), here)
        /\ ShowToasts(m, here).said = m.said
    BY DEF ShowToasts, Follows, Shell
  <1>3. HandleNotificationChanged(m, here)
            \in {DismissToasts(m), m, Close(m, m.current, "Undefined"), ShowToasts(m, here)}
    BY DEF HandleNotificationChanged, Shell
  <1>4. Follows(m, m, here) /\ TellsItsEnd(m, m)
    BY DEF Follows, TellsItsEnd
  <1>5. Follows(m, DismissToasts(m), here) /\ TellsItsEnd(m, DismissToasts(m))
    BY DismissFollows DEF TellsItsEnd
  <1>6. /\ Follows(m, Close(m, m.current, "Undefined"), here)
        /\ TellsItsEnd(m, Close(m, m.current, "Undefined"))
    BY <1>1, CloseFollows
  <1>7. TellsItsEnd(m, ShowToasts(m, here))
    BY <1>2 DEF TellsItsEnd
  <1> QED
    BY <1>2, <1>3, <1>4, <1>5, <1>6, <1>7

\* A handler of a change returns a shell, whatever state it was called in.
LEMMA ChangedInShell ==
    ASSUME NEW m \in Shell, NEW here \in SUBSET Screens
    PROVE  HandleNotificationChanged(m, here) \in Shell
  <1>1. m.current \in Id \cup {NoId} /\ "Undefined" \in Reason
    BY DEF Shell, Reason
  <1>2. ShowToasts(m, here) \in Shell
    BY DEF ShowToasts, Shell
  <1>3. HandleNotificationChanged(m, here)
            \in {DismissToasts(m), m, Close(m, m.current, "Undefined"), ShowToasts(m, here)}
    BY DEF HandleNotificationChanged, Shell
  <1>4. m.current # NoId => Close(m, m.current, "Undefined") \in Shell
    BY <1>1, CloseEffect DEF Ended
  <1>5. m.current = NoId => Close(m, m.current, "Undefined") = m
    BY DEF Close
  <1> QED
    BY <1>2, <1>3, <1>4, <1>5, DismissFollows

\* The reading withdrawn: no toast is left and nobody is told.
LEMMA ClearReadingFollows ==
    ASSUME NEW m \in Shell, NEW here
    PROVE  LET r == ClearReading(m, here)
           IN  ~r.available /\ r.stopped = m.stopped /\ r.toasts = {} /\ r.said = m.said
  <1> DEFINE q == [m EXCEPT !.current = NoId, !.available = FALSE, !.owed = {}]
  <1>1. q \in Shell /\ ~q.available /\ q.stopped = m.stopped /\ q.said = m.said
    BY DEF Shell
  <1>2. ClearReading(m, here) = DismissToasts(q)
    BY <1>1 DEF ClearReading, HandleNotificationChanged
  <1> HIDE DEF q
  <1> QED
    BY <1>1, <1>2, DismissFollows DEF Follows

\* The name asked for: the reading is there if it was, or if nobody else has the name.
LEMMA RegisterServiceFollows ==
    ASSUME NEW b \in Bus, NEW m \in Shell, RegisterService(b, m)
    PROVE  /\ shell'.available <=> m.available \/ (b.up /\ b.owner # "other")
           /\ shell'.stopped = m.stopped
           /\ m.toasts \subseteq screens => shell'.toasts \subseteq screens
           /\ TellsItsEnd(m, shell')
  <1> DEFINE exported == [m EXCEPT !.exported = TRUE]
             q == [exported EXCEPT !.available = TRUE]
  <1>1. /\ q \in Shell /\ q.available /\ q.stopped = m.stopped /\ q.toasts = m.toasts
        /\ q.said = m.said /\ q.current = m.current
        /\ exported.available = m.available /\ exported.stopped = m.stopped
        /\ exported.toasts = m.toasts /\ exported.said = m.said
    BY DEF Shell
  <1>2. CASE ~b.up
    BY <1>2 DEF RegisterService, TellsItsEnd
  <1>3. CASE b.up /\ (b.owner = "other" \/ m.available)
    <2>1. shell' = exported
      BY <1>3 DEF RegisterService
    <2> HIDE DEF exported
    <2> QED
      BY <1>1, <1>3, <2>1 DEF TellsItsEnd, Shell
  <1>4. CASE b.up /\ b.owner # "other" /\ ~m.available
    <2>1. shell' = HandleNotificationChanged(q, screens)
      BY <1>4 DEF RegisterService
    <2> HIDE DEF q, exported
    <2>2. Follows(q, shell', screens) /\ TellsItsEnd(q, shell')
      BY <1>1, <2>1, ChangedFollows
    <2>3. TellsItsEnd(m, shell')
      BY <1>1, <2>2, TellsFrom
    <2>4. /\ shell'.available = q.available /\ shell'.stopped = q.stopped
          /\ q.toasts \subseteq screens => shell'.toasts \subseteq screens
      BY <2>2 DEF Follows
    <2> QED
      BY <1>1, <1>4, <2>3, <2>4
  <1> QED
    BY <1>2, <1>3, <1>4

\* At most one end, of what is held, is one end.
LEMMA OneEndIsToldOnce ==
    ASSUME NEW m \in Shell, NEW r, NEW owed, m.said = <<>>, TellsItsEnd(m, r),
           m.current # NoId => m.current \in owed
    PROVE  ToldOnceOf(owed, r.said)
  <1>1. CASE r.said = <<>>
    BY <1>1 DEF ToldOnceOf
  <1>2. CASE m.current # NoId /\ \E why \in Reason :
                 r.said = Append(m.said, [id |-> m.current, why |-> why])
    <2>1. PICK why \in Reason : r.said = <<[id |-> m.current, why |-> why]>>
      BY <1>2
    <2> QED
      BY <1>2, <2>1 DEF ToldOnceOf
  <1> QED
    BY <1>1, <1>2 DEF TellsItsEnd

\* Messages are said one after another.
LEMMA AppendToOne ==
    ASSUME NEW x, NEW y
    PROVE  Append(<<x>>, y) = <<x, y>>
  <1> DEFINE S == {x, y}
             a == Append(<<x>>, y)
             t == <<x, y>>
  <1>1. <<x>> \in Seq(S) /\ y \in S /\ Len(<<x>>) = 1 /\ <<x>>[1] = x
    OBVIOUS
  <1>2. t \in Seq(S) /\ Len(t) = 2 /\ t[1] = x /\ t[2] = y
    OBVIOUS
  <1> HIDE DEF S, t
  <1>3. a \in Seq(S) /\ Len(a) = 2 /\ a[1] = x /\ a[2] = y
    BY <1>1, AppendProperties
  <1> HIDE DEF a
  <1>4. \A i \in 1..Len(a) : a[i] = t[i]
    BY <1>2, <1>3
  <1>5. a = t
    BY <1>2, <1>3, <1>4, SeqEqual
  <1> QED
    BY <1>5 DEF a, t

\* An element put behind two.
LEMMA AppendToTwo ==
    ASSUME NEW x, NEW y, NEW z
    PROVE  Append(<<x, y>>, z) = <<x, y, z>>
  <1> DEFINE S == {x, y, z}
             a == Append(<<x, y>>, z)
             t == <<x, y, z>>
  <1>1. /\ <<x, y>> \in Seq(S) /\ z \in S
        /\ Len(<<x, y>>) = 2 /\ <<x, y>>[1] = x /\ <<x, y>>[2] = y
    OBVIOUS
  <1>2. t \in Seq(S) /\ Len(t) = 3 /\ t[1] = x /\ t[2] = y /\ t[3] = z
    OBVIOUS
  <1> HIDE DEF S, t
  <1>3. a \in Seq(S) /\ Len(a) = 3 /\ a[1] = x /\ a[2] = y /\ a[3] = z
    BY <1>1, AppendProperties
  <1> HIDE DEF a
  <1>4. \A i \in 1..Len(a) : a[i] = t[i]
    BY <1>2, <1>3
  <1>5. a = t
    BY <1>2, <1>3, <1>4, SeqEqual
  <1> QED
    BY <1>5 DEF a, t

\* Notify tells the end of what it displaces, its own if it is suppressed, and answers.
LEMMA NotifyFollows ==
    ASSUME NEW m \in Shell, NEW here \in SUBSET Screens, NEW replaces \in Id \cup {NoId},
           NEW expires \in BOOLEAN, m.said = <<>>
    PROVE  LET r == Notify(m, here, replaces, expires)
           IN  Follows(m, r, here) /\ ToldOnceOf({m.current} \ {NoId}, r.said)
  <1> DEFINE id == IF replaces = NoId THEN NextId(m) ELSE replaces
             q == [m EXCEPT !.next = IF replaces = NoId THEN id ELSE @, !.current = id,
                            !.expires = expires, !.owed = @ \cup {id}]
             changed == HandleNotificationChanged(q, here)
             told == IF m.current \notin {NoId, id}
                     THEN NotificationClosed(changed, m.current, "Undefined") ELSE changed
             r == Notify(m, here, replaces, expires)
             end(i, why) == [id |-> i, why |-> why]
             answer == end(id, "answer")
  <1>1. id \in Id /\ id # NoId /\ m.current \in Id \cup {NoId}
    BY NextIdIsId, BoundsAssumption DEF Id, NoId, Shell
  <1>2. "Undefined" \in Reason /\ "answer" \notin Reason
    BY DEF Reason
  <1>3. r = [told EXCEPT !.said = Append(@, answer)]
    BY DEF Notify
  <1> HIDE DEF id
  <1>4. /\ q \in Shell /\ q.current = id /\ q.available = m.available
        /\ q.stopped = m.stopped /\ q.toasts = m.toasts /\ q.said = <<>>
    BY <1>1 DEF Shell
  <1> HIDE DEF q
  <1>5. changed \in Shell
    BY <1>4, ChangedInShell
  <1>6. /\ Follows(m, changed, here)
        /\ \/ changed.said = <<>>
           \/ \E why \in Reason : changed.said = <<end(id, why)>>
    <2>1. Follows(q, changed, here) /\ TellsItsEnd(q, changed)
      BY <1>4, ChangedFollows
    <2> HIDE DEF changed, told, r
    <2>2. Follows(m, changed, here)
      BY <1>4, <2>1, FollowsFrom
    <2>3. CASE changed.said = q.said
      BY <1>4, <2>2, <2>3
    <2>4. CASE \E why \in Reason : changed.said = Append(q.said, end(q.current, why))
      <3>1. PICK why \in Reason : changed.said = Append(q.said, end(q.current, why))
        BY <2>4
      <3>2. changed.said = <<end(id, why)>>
        BY <1>4, <3>1
      <3> QED
        BY <2>2, <3>2
    <2> QED
      BY <2>1, <2>3, <2>4 DEF TellsItsEnd
  <1> HIDE DEF changed
  <1>7. /\ told \in Shell /\ Follows(m, told, here)
        /\ \/ m.current \in {NoId, id} /\ told.said = changed.said
           \/ /\ m.current \notin {NoId, id}
              /\ told.said = Append(changed.said, end(m.current, "Undefined"))
    <2>1. CASE m.current \in {NoId, id}
      BY <1>5, <1>6, <2>1
    <2>2. CASE m.current \notin {NoId, id}
      <3>1. told = NotificationClosed(changed, m.current, "Undefined") /\ m.current \in Id
        BY <1>1, <2>2
      <3> HIDE DEF told
      <3> QED
        <4>1. /\ Follows(changed, told, here) /\ Ended(changed, told, m.current)
              /\ told.said = Append(changed.said, end(m.current, "Undefined"))
          BY <1>2, <1>5, <3>1, ClosedFollows, NotificationClosedEffect
        <4>2. told \in Shell
          BY <4>1 DEF Ended
        <4>3. Follows(m, told, here)
          BY <1>6, <4>1 DEF Follows
        <4> QED
          BY <2>2, <4>1, <4>2, <4>3
    <2> QED
      BY <2>1, <2>2
  <1> HIDE DEF told, r
  <1>8. /\ r.said = Append(told.said, answer) /\ Follows(m, r, here)
    BY <1>3, <1>7 DEF Follows, Shell
  <1>9. \/ r.said = <<answer>>
        \/ \E why \in Reason : r.said = <<end(id, why), answer>>
        \/ /\ m.current \notin {NoId, id}
           /\ r.said = <<end(m.current, "Undefined"), answer>>
        \/ /\ m.current \notin {NoId, id}
           /\ \E why \in Reason : r.said = <<end(id, why), end(m.current, "Undefined"), answer>>
    <2> HIDE DEF end, answer
    <2>1. CASE changed.said = <<>>
      <3>1. CASE m.current \in {NoId, id} /\ told.said = changed.said
        BY <1>8, <2>1, <3>1
      <3>2. CASE /\ m.current \notin {NoId, id}
                 /\ told.said = Append(changed.said, end(m.current, "Undefined"))
        <4>1. told.said = <<end(m.current, "Undefined")>>
          BY <2>1, <3>2
        <4>2. r.said = <<end(m.current, "Undefined"), answer>>
          BY <1>8, <4>1, AppendToOne
        <4> QED
          BY <3>2, <4>2
      <3> QED
        BY <1>7, <3>1, <3>2
    <2>2. CASE \E why \in Reason : changed.said = <<end(id, why)>>
      <3>1. PICK why \in Reason : changed.said = <<end(id, why)>>
        BY <2>2
      <3>2. CASE told.said = changed.said
        <4>1. r.said = <<end(id, why), answer>>
          BY <1>8, <3>1, <3>2, AppendToOne
        <4> QED
          BY <4>1
      <3>3. CASE /\ m.current \notin {NoId, id}
                 /\ told.said = Append(changed.said, end(m.current, "Undefined"))
        <4>1. told.said = <<end(id, why), end(m.current, "Undefined")>>
          BY <3>1, <3>3, AppendToOne
        <4>2. r.said = <<end(id, why), end(m.current, "Undefined"), answer>>
          BY <1>8, <4>1, AppendToTwo
        <4> QED
          BY <3>3, <4>2
      <3> QED
        BY <1>7, <3>2, <3>3
    <2> QED
      BY <1>6, <2>1, <2>2
  <1>10. ToldOnceOf({m.current} \ {NoId}, r.said)
    <2>1. CASE r.said = <<answer>>
      BY <1>2, <2>1 DEF ToldOnceOf
    <2>2. CASE \E why \in Reason : r.said = <<end(id, why), answer>>
      BY <1>2, <2>2 DEF ToldOnceOf
    <2>3. CASE /\ m.current \notin {NoId, id}
               /\ r.said = <<end(m.current, "Undefined"), answer>>
      BY <1>2, <2>3 DEF ToldOnceOf
    <2>4. CASE /\ m.current \notin {NoId, id}
               /\ \E why \in Reason :
                     r.said = <<end(id, why), end(m.current, "Undefined"), answer>>
      BY <1>2, <2>4 DEF ToldOnceOf
    <2> QED
      BY <1>9, <2>1, <2>2, <2>3, <2>4
  <1> QED
    BY <1>8, <1>10 DEF r

-----------------------------------------------------------------------------
(* The history. *)

\* A sequence of ids, each once.
Distinct(h) == h \in Seq(Id) /\ \A i, j \in 1..Len(h) : h[i] = h[j] => i = j

\* A list without duplicates has each element at one position.
LEMMA DistinctIsInjective ==
    ASSUME NEW h
    PROVE  Distinct(h) <=> h \in Seq(Id) /\ IsInjective(h)
  BY LenProperties DEF Distinct, IsInjective

\* Taking out an entry leaves the others, once each, and not that one.
LEMMA RemoveFirstKeeps ==
    ASSUME NEW h, Distinct(h), NEW id
    PROVE  LET r == RemoveFirst(h, id)
           IN  /\ Distinct(r) /\ Len(r) <= Len(h)
               /\ \A i \in 1..Len(r) : r[i] # id
  <1>1. h \in Seq(Id) /\ Len(h) \in Nat
    BY LenProperties DEF Distinct
  <1>2. CASE ~\E i \in 1..Len(h) : h[i] = id
    BY <1>1, <1>2 DEF RemoveFirst
  <1>3. CASE \E i \in 1..Len(h) : h[i] = id
    <2>1. PICK k \in 1..Len(h) : h[k] = id
      BY <1>3
    <2>2. {i \in 1..Len(h) : h[i] = id} = {k}
      BY <2>1 DEF Distinct
    <2>3. SelectInSeq(h, LAMBDA v : v = id) = k
      <3>1. SelectInSeq(h, LAMBDA v : v = id) = Min({k})
        BY <2>2 DEF SelectInSeq
      <3>2. Min({k}) = k
        BY <1>1, <2>1 DEF Min
      <3> QED
        BY <3>1, <3>2
    <2>4. RemoveFirst(h, id) = SubSeq(h, 1, k - 1) \o SubSeq(h, k + 1, Len(h))
      BY <1>3, <2>3 DEF RemoveFirst, RemoveAt
    <2> DEFINE front == SubSeq(h, 1, k - 1)
               back == SubSeq(h, k + 1, Len(h))
               r == front \o back
    <2>5. \A i \in 1..Len(h) : h[i] \in Id
      BY <1>1, ElementOfSeq
    <2>6. /\ front \in Seq(Id) /\ Len(front) = k - 1
          /\ \A i \in 1..(k - 1) : front[i] = h[i]
      BY <1>1, <2>1, <2>5, SubSeqProperties
    <2>7. /\ back \in Seq(Id) /\ Len(back) = Len(h) - k
          /\ \A i \in 1..(Len(h) - k) : back[i] = h[k + i]
      <3>1. \A i \in (k + 1)..Len(h) : h[i] \in Id
        BY <1>1, <2>1, <2>5
      <3>2. /\ back \in Seq(Id)
            /\ Len(back) = IF k + 1 <= Len(h) THEN Len(h) - (k + 1) + 1 ELSE 0
            /\ \A i \in 1..(Len(h) - (k + 1) + 1) : back[i] = h[(k + 1) + i - 1]
        <4>1. k + 1 \in Int /\ Len(h) \in Int
          BY <1>1, <2>1
        <4> QED
          BY <3>1, <4>1, SubSeqProperties
      <3>3. Len(h) - (k + 1) + 1 = Len(h) - k
        BY <1>1, <2>1
      <3> HIDE DEF front, back
      <3>4. Len(back) = Len(h) - k
        <4>1. Len(back) = IF k + 1 <= Len(h) THEN Len(h) - (k + 1) + 1 ELSE 0
          BY <3>2
        <4>2. k \in Int /\ k <= Len(h)
          BY <1>1, <2>1
        <4>3. CASE k + 1 <= Len(h)
          BY <3>3, <4>1, <4>3
        <4>4. CASE ~(k + 1 <= Len(h))
          <5>1. k = Len(h) /\ Len(h) - k = 0
            BY <1>1, <4>2, <4>4
          <5> QED
            BY <4>1, <4>4, <5>1
        <4> QED
          BY <4>3, <4>4
      <3>5. ASSUME NEW i \in 1..(Len(h) - k)
            PROVE  back[i] = h[k + i]
        <4>1. back[i] = h[(k + 1) + i - 1]
          BY <3>2, <3>3
        <4>2. (k + 1) + i - 1 = k + i
          BY <1>1, <2>1
        <4> QED
          BY <4>1, <4>2
      <3> QED
        BY <3>2, <3>4, <3>5
    <2> HIDE DEF front, back
    <2>8. /\ r \in Seq(Id) /\ Len(r) = Len(h) - 1
          /\ \A i \in 1..Len(r) : r[i] = IF i <= k - 1 THEN front[i] ELSE back[i - (k - 1)]
      <3>1. /\ r \in Seq(Id) /\ Len(r) = Len(front) + Len(back)
            /\ \A i \in 1..(Len(front) + Len(back)) :
                   r[i] = IF i <= Len(front) THEN front[i] ELSE back[i - Len(front)]
        BY <2>6, <2>7, ConcatProperties
      <3> HIDE DEF r
      <3>2. Len(front) = k - 1 /\ Len(front) + Len(back) = Len(h) - 1
        <4>1. Len(front) = k - 1 /\ Len(back) = Len(h) - k
          BY <2>6, <2>7
        <4> QED
          BY <1>1, <2>1, <4>1
      <3>3. Len(r) = Len(h) - 1 /\ r \in Seq(Id)
        BY <3>1, <3>2
      <3> QED
        BY <3>1, <3>2, <3>3
    <2> HIDE DEF r
    <2>9. \A i \in 1..Len(r) : r[i] = h[IF i < k THEN i ELSE i + 1]
      <3> SUFFICES ASSUME NEW i \in 1..Len(r)
                   PROVE  r[i] = h[IF i < k THEN i ELSE i + 1]
        OBVIOUS
      <3>1. CASE i < k
        BY <1>1, <2>1, <2>6, <2>8, <3>1
      <3>2. CASE i >= k
        <4>1. i - (k - 1) \in 1..(Len(h) - k) /\ k + (i - (k - 1)) = i + 1
          BY <1>1, <2>1, <2>8, <3>2
        <4>2. r[i] = back[i - (k - 1)]
          BY <1>1, <2>1, <2>8, <3>2
        <4> QED
          BY <2>1, <2>7, <3>2, <4>1, <4>2
      <3> QED
        BY <2>1, <3>1, <3>2
    <2>10. \A i \in 1..Len(r) : (IF i < k THEN i ELSE i + 1) \in (1..Len(h)) \ {k}
      BY <1>1, <2>1, <2>8
    <2>11. Distinct(r)
      <3> SUFFICES ASSUME NEW i \in 1..Len(r), NEW j \in 1..Len(r), r[i] = r[j]
                   PROVE  i = j
        BY <2>8 DEF Distinct
      <3> DEFINE at(x) == IF x < k THEN x ELSE x + 1
      <3>1. at(i) \in 1..Len(h) /\ at(j) \in 1..Len(h) /\ h[at(i)] = h[at(j)]
        BY <2>9, <2>10
      <3>2. at(i) = at(j)
        BY <3>1 DEF Distinct
      <3> QED
        BY <2>1, <3>2
    <2>12. \A i \in 1..Len(r) : r[i] # id
      BY <2>1, <2>9, <2>10 DEF Distinct
    <2> QED
      <3>1. RemoveFirst(h, id) = r
        BY <2>4 DEF r, front, back
      <3>2. Len(r) <= Len(h)
        BY <1>1, <2>8
      <3> QED
        BY <2>11, <2>12, <3>1, <3>2
  <1> QED
    BY <1>2, <1>3

\* The newest comes first, no id twice, and the oldest goes when the history is full.
LEMMA RecordInHistoryKeeps ==
    ASSUME NEW h, Distinct(h), NEW id \in Id
    PROVE  Distinct(RecordInHistory(h, id)) /\ Len(RecordInHistory(h, id)) <= HistoryLimit
  <1> DEFINE rest == RemoveFirst(h, id)
             all == <<id>> \o rest
             n == IF Len(all) > HistoryLimit THEN HistoryLimit ELSE Len(all)
             r == SubSeq(all, 1, n)
  <1>1. Distinct(rest) /\ \A i \in 1..Len(rest) : rest[i] # id
    BY RemoveFirstKeeps
  <1> HIDE DEF rest
  <1>2. rest \in Seq(Id) /\ Len(rest) \in Nat
    BY <1>1, LenProperties DEF Distinct
  <1>3. <<id>> \in Seq(Id) /\ Len(<<id>>) = 1 /\ <<id>>[1] = id
    OBVIOUS
  <1>4. /\ all \in Seq(Id) /\ Len(all) = 1 + Len(rest)
        /\ \A i \in 1..(1 + Len(rest)) : all[i] = IF i <= 1 THEN <<id>>[i] ELSE rest[i - 1]
    BY <1>2, <1>3, ConcatProperties
  <1> HIDE DEF all
  <1>5. all[1] = id /\ \A i \in 2..Len(all) : all[i] = rest[i - 1] /\ i - 1 \in 1..Len(rest)
    BY <1>2, <1>3, <1>4
  <1>6. Distinct(all)
    <2> SUFFICES ASSUME NEW i \in 1..Len(all), NEW j \in 1..Len(all), all[i] = all[j]
                 PROVE  i = j
      BY <1>4 DEF Distinct
    <2>1. CASE i = 1 \/ j = 1
      BY <1>1, <1>2, <1>4, <1>5, <2>1
    <2>2. CASE i # 1 /\ j # 1
      <3>1. /\ i - 1 \in 1..Len(rest) /\ j - 1 \in 1..Len(rest)
            /\ rest[i - 1] = rest[j - 1]
        BY <1>2, <1>4, <1>5, <2>2
      <3>2. i - 1 = j - 1
        BY <1>1, <3>1 DEF Distinct
      <3> QED
        BY <3>2
    <2> QED
      BY <2>1, <2>2
  <1>7. n \in 0..Len(all) /\ n <= HistoryLimit
    BY <1>2, <1>4, BoundsAssumption
  <1> HIDE DEF n
  <1>8. \A i \in 1..n : all[i] \in Id
    BY <1>2, <1>4, <1>7, ElementOfSeq
  <1>9. r \in Seq(Id) /\ Len(r) = n /\ \A i \in 1..n : r[i] = all[i]
    BY <1>2, <1>4, <1>7, <1>8, SubSeqProperties
  <1> HIDE DEF r
  <1>10. Distinct(r) /\ Len(r) <= HistoryLimit
    BY <1>4, <1>6, <1>7, <1>9 DEF Distinct
  <1> QED
    BY <1>10 DEF r, n, all, rest, RecordInHistory

-----------------------------------------------------------------------------
(* The steps. *)

\* A step's signals are its own.
LEMMA SilentGood ==
    ASSUME NEW m, Good(m)
    PROVE  /\ Good(Silent(m))
           /\ Silent(m).shown = m.shown /\ Silent(m).toasts = m.toasts
  <1>1. <<>> \in Seq(Message)
    OBVIOUS
  <1> QED
    BY <1>1 DEF Silent, Good, Shows, Shell

\* A server without notifications is in its invariant.
LEMMA InitIInv == Init => IInv
  <1>1. <<>> \in Seq(Message)
    OBVIOUS
  <1> QED
    BY <1>1 DEF Init, IInv, Good, Shows, Shell, NoId, Id

\* Every step keeps the invariant of the list, and so does none.
LEMMA NextIInv == IInv /\ [Next]_vars => IInv'
  <1> SUFFICES ASSUME IInv, [Next]_vars
               PROVE  IInv'
    OBVIOUS
  <1> DEFINE quiet == Silent(shell)
  <1>1. /\ Good(quiet) /\ screens \in SUBSET Screens
        /\ quiet.shown = shell.shown /\ quiet.toasts = shell.toasts
    BY SilentGood DEF IInv
  <1>2. quiet \in Shell /\ shell \in Shell
    BY <1>1 DEF IInv, Good, Shows
  <1>3. CASE shell' = quiet /\ screens' \subseteq Screens
    BY <1>1, <1>3 DEF IInv
  <1> HIDE DEF quiet
  <1>4. CASE Start
    <2> DEFINE q == [quiet EXCEPT !.stopped = FALSE]
    <2>1. Good(q)
      BY <1>1 DEF Good, Shows, Shell
    <2>2. RegisterService(bus, q) /\ screens' = screens
      BY <1>4 DEF Start, quiet
    <2> HIDE DEF q
    <2> QED
      BY <1>1, <2>1, <2>2, RegisterServiceGood DEF IInv
  <1>5. CASE Stop
    <2>1. screens' = screens
      BY <1>5 DEF Stop
    <2>2. CASE ~bus.up
      <3>1. shell' = [quiet EXCEPT !.stopped = TRUE]
        BY <1>5, <2>2 DEF Stop, quiet
      <3> QED
        BY <1>1, <2>1, <3>1 DEF IInv, Good, Shows, Shell
    <2>3. CASE bus.up
      <3> DEFINE q == [quiet EXCEPT !.stopped = TRUE, !.exported = FALSE]
      <3>1. Good(q)
        BY <1>1 DEF Good, Shows, Shell
      <3>2. shell' = ClearReading(q, screens)
        BY <1>5, <2>3 DEF Stop, quiet
      <3> HIDE DEF q
      <3> QED
        BY <1>1, <2>1, <3>1, <3>2, ClearReadingGood DEF IInv
    <2> QED
      BY <2>2, <2>3
  <1>6. CASE OnServiceRegistered
    <2>1. screens' = screens
      BY <1>6 DEF OnServiceRegistered
    <2>2. CASE shell.stopped \/ shell.available
      BY <1>3, <1>1, <1>6, <2>1, <2>2 DEF OnServiceRegistered, quiet
    <2>3. CASE ~(shell.stopped \/ shell.available)
      <3>1. RegisterService(Read, quiet)
        BY <1>6, <2>3 DEF OnServiceRegistered, quiet
      <3> QED
        BY <1>1, <2>1, <3>1, RegisterServiceGood DEF IInv
    <2> QED
      BY <2>2, <2>3
  <1>7. CASE OnServiceUnregistered
    <2>1. screens' = screens
      BY <1>7 DEF OnServiceUnregistered
    <2>2. shell' = quiet \/ shell' = ClearReading(quiet, screens)
      BY <1>7 DEF OnServiceUnregistered, quiet
    <2> QED
      BY <1>1, <2>1, <2>2, ClearReadingGood DEF IInv
  <1>8. CASE ReadNotify
    <2>1. PICK replaces \in Id \cup {NoId}, expires \in BOOLEAN :
              shell' = Notify(quiet, screens, replaces, expires)
      BY <1>8 DEF ReadNotify, quiet
    <2>2. screens' = screens
      BY <1>8 DEF ReadNotify
    <2> QED
      BY <1>1, <2>1, <2>2, NotifyGood DEF IInv
  <1>9. CASE ReadCloseNotification
    <2>1. PICK id \in Id : shell' = Close(quiet, id, "Closed")
      BY <1>9 DEF ReadCloseNotification, quiet
    <2>2. screens' = screens /\ "Closed" \in Reason
      BY <1>9 DEF ReadCloseNotification, Reason
    <2> QED
      BY <1>1, <2>1, <2>2, CloseGood DEF IInv
  <1>10. CASE SetDoNotDisturb
    <2> DEFINE q == [quiet EXCEPT !.dnd = ~@]
    <2>1. shell' = HandleDoNotDisturbChanged(q) /\ screens' = screens
      BY <1>10 DEF SetDoNotDisturb, quiet
    <2>2. /\ q \in Shell /\ q.dnd = ~quiet.dnd
          /\ q.current = quiet.current /\ q.available = quiet.available
          /\ q.shown = quiet.shown /\ q.toasts = quiet.toasts /\ q.expires = quiet.expires
          /\ q.expiring = quiet.expiring /\ q.owed = quiet.owed
      BY <1>2 DEF Shell
    <2> HIDE DEF q
    <2>3. CASE ~q.dnd
      BY <1>1, <2>1, <2>2, <2>3 DEF HandleDoNotDisturbChanged, IInv, Good, Shows
    <2>4. CASE q.dnd
      <3>1. shell' = Close(DismissToasts(q), q.shown, "Undefined") /\ "Undefined" \in Reason
        BY <2>1, <2>4 DEF HandleDoNotDisturbChanged, Reason
      <3> QED
        BY <1>1, <2>1, <2>2, <3>1, DismissThenClose DEF IInv, Good, Shows
    <2> QED
      BY <2>3, <2>4
  <1>11. CASE DismissFromToast
    <2>1. /\ shell' = Close(DismissToasts(quiet), quiet.shown, "Dismissed")
          /\ screens' = screens /\ "Dismissed" \in Reason
      BY <1>1, <1>11 DEF DismissFromToast, quiet, Reason
    <2> QED
      BY <1>1, <1>2, <2>1, DismissThenClose DEF IInv, Good, Shows
  <1>12. CASE Expire
    <2>1. /\ shell' = Close(DismissToasts(quiet), quiet.shown, "Expired")
          /\ screens' = screens /\ "Expired" \in Reason
      BY <1>1, <1>12 DEF Expire, quiet, Reason
    <2> QED
      BY <1>1, <1>2, <2>1, DismissThenClose DEF IInv, Good, Shows
  <1>13. CASE ScreenRemoved
    <2>1. PICK screen \in screens :
              /\ screens' = screens \ {screen}
              /\ shell' = [quiet EXCEPT !.toasts = @ \ {screen}]
      BY <1>13 DEF ScreenRemoved, quiet
    <2> QED
      BY <1>1, <2>1 DEF IInv, Good, Shows, Shell
  <1>14. CASE ScreenAdded
    BY <1>3, <1>1, <1>14 DEF ScreenAdded, quiet
  <1>15. CASE \/ ReadRefused \/ RemoveFromHistory \/ ClearHistory \/ Click
              \/ SenderCalls \/ OtherTakesName \/ OtherReleasesName \/ BusLost
    BY <1>3, <1>1, <1>15 DEF ReadRefused, RemoveFromHistory, ClearHistory, Click,
           SenderCalls, OtherTakesName, OtherReleasesName, BusLost, quiet
  <1>16. CASE UNCHANGED vars
    BY <1>16 DEF vars, IInv
  <1> QED
    BY <1>4, <1>5, <1>6, <1>7, <1>8, <1>9, <1>10, <1>11, <1>12, <1>13, <1>14, <1>15, <1>16
       DEF Next

-----------------------------------------------------------------------------
(* What a step does to the reading, to the toasts and to the senders. *)

\* The steps that ask for the name, give it up or hear of it change the reading; these
\* do not.
Handled ==
    \/ ReadRefused \/ ReadNotify \/ ReadCloseNotification
    \/ SetDoNotDisturb \/ RemoveFromHistory \/ ClearHistory
    \/ Click \/ DismissFromToast \/ Expire \/ ScreenRemoved \/ ScreenAdded
    \/ SenderCalls \/ OtherTakesName \/ OtherReleasesName \/ BusLost

\* After a step toasts are on screens that are there and each end was told once.
Kept ==
    /\ shell.toasts \subseteq screens => shell'.toasts \subseteq screens'
    /\ ToldOnceOf(shell.owed, shell'.said)

\* The shell before it says anything in this step.
LEMMA QuietIs ==
    ASSUME IInv
    PROVE  LET quiet == Silent(shell)
           IN  /\ quiet \in Shell /\ shell \in Shell /\ screens \in SUBSET Screens
               /\ quiet.available = shell.available /\ quiet.stopped = shell.stopped
               /\ quiet.toasts = shell.toasts /\ quiet.current = shell.current
               /\ quiet.shown = shell.shown /\ quiet.said = <<>>
               /\ quiet.current # NoId => quiet.current \in shell.owed
  <1>1. Good(shell) /\ shell \in Shell /\ screens \in SUBSET Screens
    BY DEF IInv, Good, Shows
  <1>2. Silent(shell) \in Shell
    BY <1>1, SilentGood DEF Good, Shows
  <1> QED
    BY <1>1, <1>2 DEF Silent, Good, Shell

\* A step that says nothing keeps.
LEMMA NothingSaid ==
    ASSUME NEW owed
    PROVE  ToldOnceOf(owed, <<>>)
  BY DEF ToldOnceOf

\* A message handled tells each end once and leaves the service as available as it was.
LEMMA HandledKeeps ==
    ASSUME IInv, Handled
    PROVE  Kept /\ shell'.available = shell.available /\ shell'.stopped = shell.stopped
  <1> DEFINE quiet == Silent(shell)
             Goal == Kept /\ shell'.available = shell.available
                          /\ shell'.stopped = shell.stopped
  <1>1. /\ quiet \in Shell /\ shell \in Shell /\ screens \in SUBSET Screens
        /\ quiet.available = shell.available /\ quiet.stopped = shell.stopped
        /\ quiet.toasts = shell.toasts /\ quiet.current = shell.current
        /\ quiet.shown = shell.shown /\ quiet.said = <<>>
        /\ quiet.current # NoId => quiet.current \in shell.owed
    BY QuietIs
  <1>2. shell.owed = {quiet.current} \ {NoId}
    BY <1>1 DEF IInv, Good
  <1> HIDE DEF quiet
  <1>3. ASSUME Follows(quiet, shell', screens), TellsItsEnd(quiet, shell'), screens' = screens
        PROVE  Goal
    <2>1. ToldOnceOf(shell.owed, shell'.said)
      BY <1>1, <1>3, OneEndIsToldOnce
    <2> QED
      BY <1>1, <1>3, <2>1 DEF Follows, Kept
  <1>4. CASE shell' = quiet /\ screens \subseteq screens'
    BY <1>1, <1>4, NothingSaid DEF Kept
  <1>5. CASE ReadNotify
    <2>1. PICK replaces \in Id \cup {NoId}, expires \in BOOLEAN :
              shell' = Notify(quiet, screens, replaces, expires)
      BY <1>5 DEF ReadNotify, quiet
    <2>2. /\ Follows(quiet, shell', screens)
          /\ ToldOnceOf({quiet.current} \ {NoId}, shell'.said)
      BY <1>1, <2>1, NotifyFollows
    <2>3. screens' = screens
      BY <1>5 DEF ReadNotify
    <2> QED
      BY <1>1, <1>2, <2>2, <2>3 DEF Follows, Kept
  <1>6. CASE ReadCloseNotification
    <2>1. PICK id \in Id : shell' = Close(quiet, id, "Closed")
      BY <1>6 DEF ReadCloseNotification, quiet
    <2>2. screens' = screens /\ "Closed" \in Reason
      BY <1>6 DEF ReadCloseNotification, Reason
    <2>3. Follows(quiet, shell', screens) /\ TellsItsEnd(quiet, shell')
      BY <1>1, <2>1, <2>2, CloseFollows
    <2> QED
      BY <1>3, <2>2, <2>3
  <1>7. CASE SetDoNotDisturb
    <2> DEFINE q == [quiet EXCEPT !.dnd = ~@]
    <2>1. shell' = HandleDoNotDisturbChanged(q) /\ screens' = screens
      BY <1>7 DEF SetDoNotDisturb, quiet
    <2>2. /\ q \in Shell /\ q.available = quiet.available /\ q.stopped = quiet.stopped
          /\ q.toasts = quiet.toasts /\ q.said = quiet.said /\ q.current = quiet.current
      BY <1>1 DEF Shell
    <2> HIDE DEF q
    <2>3. Follows(q, shell', screens) /\ TellsItsEnd(q, shell')
      <3>1. CASE ~q.dnd
        BY <2>1, <3>1 DEF HandleDoNotDisturbChanged, Follows, TellsItsEnd
      <3>2. CASE q.dnd
        <4>1. shell' = Close(DismissToasts(q), q.shown, "Undefined") /\ "Undefined" \in Reason
          BY <2>1, <3>2 DEF HandleDoNotDisturbChanged, Reason
        <4> QED
          BY <2>2, <4>1, DismissThenCloseFollows
      <3> QED
        BY <3>1, <3>2
    <2>4. Follows(quiet, shell', screens)
      BY <2>2, <2>3, FollowsFrom
    <2>5. TellsItsEnd(quiet, shell')
      BY <2>2, <2>3, TellsFrom
    <2> QED
      BY <1>3, <2>1, <2>4, <2>5
  <1>8. CASE DismissFromToast \/ Expire
    <2>1. /\ \E why \in {"Dismissed", "Expired"} :
                shell' = Close(DismissToasts(quiet), quiet.shown, why)
          /\ screens' = screens /\ {"Dismissed", "Expired"} \subseteq Reason
      BY <1>1, <1>8 DEF DismissFromToast, Expire, quiet, Reason
    <2>2. Follows(quiet, shell', screens) /\ TellsItsEnd(quiet, shell')
      BY <1>1, <2>1, DismissThenCloseFollows
    <2> QED
      BY <1>3, <2>1, <2>2
  <1>9. CASE ScreenRemoved
    <2>1. PICK screen \in screens :
              /\ screens' = screens \ {screen}
              /\ shell' = [quiet EXCEPT !.toasts = @ \ {screen}]
      BY <1>9 DEF ScreenRemoved, quiet
    <2>2. /\ shell'.available = quiet.available /\ shell'.stopped = quiet.stopped
          /\ shell'.said = quiet.said /\ shell'.toasts = quiet.toasts \ {screen}
      BY <1>1, <2>1 DEF Shell
    <2> QED
      BY <1>1, <2>1, <2>2, NothingSaid DEF Kept
  <1>10. CASE \/ ReadRefused \/ RemoveFromHistory \/ ClearHistory \/ Click \/ ScreenAdded
              \/ SenderCalls \/ OtherTakesName \/ OtherReleasesName \/ BusLost
    BY <1>4, <1>10 DEF ReadRefused, RemoveFromHistory, ClearHistory, Click, ScreenAdded,
           SenderCalls, OtherTakesName, OtherReleasesName, BusLost, quiet
  <1> QED
    BY <1>5, <1>6, <1>7, <1>8, <1>9, <1>10 DEF Handled

\* Start and a report that the name was taken ask for it.
LEMMA RegisteredKeeps ==
    ASSUME IInv, bus \in Bus, NEW b \in Bus, NEW m \in Shell, RegisterService(b, m),
           m.available = shell.available, m.toasts = shell.toasts, m.said = <<>>,
           m.current = shell.current, screens' = screens
    PROVE  /\ Kept /\ shell'.stopped = m.stopped
           /\ shell'.available <=> shell.available \/ (b.up /\ b.owner # "other")
  <1>1. /\ shell'.available <=> m.available \/ (b.up /\ b.owner # "other")
        /\ shell'.stopped = m.stopped
        /\ m.toasts \subseteq screens => shell'.toasts \subseteq screens
        /\ TellsItsEnd(m, shell')
    BY RegisterServiceFollows
  <1>2. m.current # NoId => m.current \in shell.owed
    BY DEF IInv, Good
  <1>3. ToldOnceOf(shell.owed, shell'.said)
    BY <1>1, <1>2, OneEndIsToldOnce
  <1> QED
    BY <1>1, <1>3 DEF Kept

\* Stop withdraws the reading unless the bus is gone.
LEMMA StopKeeps ==
    ASSUME IInv, Stop
    PROVE  /\ Kept /\ shell'.stopped
           /\ IF bus.up THEN ~shell'.available ELSE shell'.available = shell.available
  <1> DEFINE quiet == Silent(shell)
             q == [quiet EXCEPT !.stopped = TRUE, !.exported = FALSE]
  <1>1. /\ quiet \in Shell /\ quiet.available = shell.available
        /\ quiet.toasts = shell.toasts /\ quiet.said = <<>>
    BY QuietIs
  <1>2. screens' = screens
    BY DEF Stop
  <1>3. CASE ~bus.up
    <2>1. shell' = [quiet EXCEPT !.stopped = TRUE]
      BY <1>3 DEF Stop
    <2> HIDE DEF quiet
    <2>2. /\ shell'.stopped /\ shell'.available = quiet.available
          /\ shell'.toasts = quiet.toasts /\ shell'.said = quiet.said
      BY <1>1, <2>1 DEF Shell
    <2> QED
      BY <1>1, <1>2, <1>3, <2>2, NothingSaid DEF Kept
  <1>4. CASE bus.up
    <2>1. shell' = ClearReading(q, screens)
      BY <1>4 DEF Stop
    <2> HIDE DEF quiet
    <2>2. q \in Shell /\ q.stopped /\ q.said = <<>>
      BY <1>1 DEF Shell
    <2> HIDE DEF q
    <2>3. ~shell'.available /\ shell'.stopped /\ shell'.toasts = {} /\ shell'.said = <<>>
      BY <2>1, <2>2, ClearReadingFollows
    <2> QED
      BY <1>4, <2>3, NothingSaid DEF Kept
  <1> QED
    BY <1>3, <1>4

\* A report that the name was released withdraws the reading unless it is the shell's.
LEMMA UnregisteredKeeps ==
    ASSUME IInv, OnServiceUnregistered
    PROVE  /\ Kept /\ shell'.stopped = shell.stopped
           /\ IF bus.up /\ bus.owner = "shell" THEN shell'.available = shell.available
              ELSE ~shell'.available
  <1> DEFINE quiet == Silent(shell)
  <1>1. /\ quiet \in Shell /\ quiet.available = shell.available
        /\ quiet.stopped = shell.stopped
        /\ quiet.toasts = shell.toasts /\ quiet.said = <<>>
    BY QuietIs
  <1>2. screens' = screens
    BY DEF OnServiceUnregistered
  <1>3. CASE bus.up /\ bus.owner = "shell"
    <2>1. shell' = quiet
      BY <1>3 DEF OnServiceUnregistered
    <2> HIDE DEF quiet
    <2> QED
      BY <1>1, <1>2, <1>3, <2>1, NothingSaid DEF Kept
  <1>4. CASE ~(bus.up /\ bus.owner = "shell")
    <2>1. shell' = ClearReading(quiet, screens)
      BY <1>4 DEF OnServiceUnregistered
    <2> HIDE DEF quiet
    <2>2. /\ ~shell'.available /\ shell'.stopped = quiet.stopped
          /\ shell'.toasts = {} /\ shell'.said = <<>>
      BY <1>1, <2>1, ClearReadingFollows
    <2> QED
      BY <1>1, <1>4, <2>2, NothingSaid DEF Kept
  <1> QED
    BY <1>3, <1>4

-----------------------------------------------------------------------------
(* The name. *)

\* A report that somebody took the name waits to be read.
Announced(b) == \E i \in 1..Len(b.inbox) : b.inbox[i] = "registered"

\* Between the bus's word and the shell's: whoever has the name, and the shell, when it
\* does, either says so or has the report of it still to read.
NameInStep ==
    /\ bus \in Bus
    /\ bus.waiting => bus.up /\ bus.owner = "other" /\ ~shell.stopped
    /\ bus.owner = "shell" => bus.up /\ ~shell.stopped
    /\ bus.up /\ shell.available => bus.owner = "shell"
    /\ bus.owner = "shell" /\ ~shell.available => Announced(bus)

\* A report to the shell is put behind those it has not read.
LEMMA ReportEffect ==
    ASSUME NEW b \in Bus,
           NEW what \in {"registered", "unregistered", "Notify", "CloseNotification"}
    PROVE  LET r == Report(b, what)
           IN  /\ r \in Bus /\ r.up = b.up /\ r.owner = b.owner /\ r.waiting = b.waiting
               /\ Announced(b) \/ what = "registered" => Announced(r)
  <1> DEFINE what4 == {"registered", "unregistered", "Notify", "CloseNotification"}
             r == Report(b, what)
  <1>1. b.inbox \in Seq(what4)
    BY DEF Bus
  <1>2. what \in what4
    OBVIOUS
  <1> HIDE DEF what4
  <1>3. /\ Append(b.inbox, what) \in Seq(what4)
        /\ Len(Append(b.inbox, what)) = Len(b.inbox) + 1 /\ Len(b.inbox) \in Nat
        /\ \A i \in 1..Len(b.inbox) : Append(b.inbox, what)[i] = b.inbox[i]
        /\ Append(b.inbox, what)[Len(b.inbox) + 1] = what
    BY <1>1, <1>2, AppendProperties, LenProperties
  <1>4. /\ r \in Bus /\ r.up = b.up /\ r.owner = b.owner /\ r.waiting = b.waiting
        /\ r.inbox = Append(b.inbox, what)
    BY <1>3 DEF Report, Bus, what4
  <1> HIDE DEF r
  <1>5. Announced(b) => Announced(r)
    <2> SUFFICES ASSUME NEW i \in 1..Len(b.inbox), b.inbox[i] = "registered"
                 PROVE  Announced(r)
      BY DEF Announced
    <2> QED
      BY <1>3, <1>4 DEF Announced
  <1>6. what = "registered" => Announced(r)
    <2> SUFFICES ASSUME what = "registered"
                 PROVE  Announced(r)
      OBVIOUS
    <2>1. Len(b.inbox) + 1 \in 1..Len(r.inbox) /\ r.inbox[Len(b.inbox) + 1] = "registered"
      BY <1>3, <1>4
    <2> QED
      BY <2>1 DEF Announced
  <1> QED
    BY <1>4, <1>5, <1>6 DEF r

\* The report that is read is the first of them.
LEMMA ReadEffect ==
    ASSUME bus \in Bus, bus.inbox # <<>>
    PROVE  /\ Read \in Bus /\ Read.up = bus.up /\ Read.owner = bus.owner
           /\ Read.waiting = bus.waiting
           /\ Announced(bus) /\ Head(bus.inbox) # "registered" => Announced(Read)
  <1> DEFINE what4 == {"registered", "unregistered", "Notify", "CloseNotification"}
  <1>1. bus.inbox \in Seq(what4)
    BY DEF Bus
  <1> HIDE DEF what4
  <1>2. /\ Tail(bus.inbox) \in Seq(what4) /\ Len(bus.inbox) \in Nat
        /\ Len(Tail(bus.inbox)) = Len(bus.inbox) - 1
        /\ \A i \in 1..Len(Tail(bus.inbox)) : Tail(bus.inbox)[i] = bus.inbox[i + 1]
    BY <1>1, HeadTailProperties, LenProperties
  <1>3. Read \in Bus /\ Read.up = bus.up /\ Read.owner = bus.owner
        /\ Read.waiting = bus.waiting /\ Read.inbox = Tail(bus.inbox)
    BY <1>2 DEF Read, Bus, what4
  <1>4. ASSUME NEW i \in 1..Len(bus.inbox), bus.inbox[i] = "registered",
               Head(bus.inbox) # "registered"
        PROVE  Announced(Read)
    <2>1. i # 1
      BY <1>1, <1>4
    <2>2. i - 1 \in 1..Len(Read.inbox) /\ Read.inbox[i - 1] = "registered"
      BY <1>2, <1>3, <1>4, <2>1
    <2> QED
      BY <2>2 DEF Announced
  <1> QED
    BY <1>3, <1>4 DEF Announced

\* Asking for the name: a free one is the shell's at once, one held elsewhere is waited
\* for; b is the bus as the asking handler finds it.
LEMMA AskedInStep ==
    ASSUME NEW b \in Bus, NameInStep, b.up = bus.up, b.owner = bus.owner,
           b.waiting = bus.waiting, bus' = IF b.up THEN Asked(b) ELSE b, ~shell'.stopped,
           shell'.available <=> shell.available \/ (b.up /\ b.owner # "other")
    PROVE  NameInStep'
  <1>0. /\ bus.up \in BOOLEAN /\ bus.waiting \in BOOLEAN
        /\ bus.owner \in {"none", "shell", "other"}
    BY DEF NameInStep, Bus
  <1>1. CASE ~b.up
    BY <1>0, <1>1 DEF NameInStep
  <1>2. CASE b.up /\ b.owner = "none"
    <2> DEFINE c == [b EXCEPT !.owner = "shell"]
    <2>1. bus' = Report(c, "registered")
      BY <1>2 DEF Asked
    <2>2. c \in Bus /\ c.owner = "shell" /\ c.up = b.up /\ c.waiting = b.waiting
      BY DEF Bus
    <2> HIDE DEF c
    <2>3. /\ bus' \in Bus /\ bus'.owner = "shell" /\ bus'.up = bus.up
          /\ bus'.waiting = bus.waiting
      BY <2>1, <2>2, ReportEffect
    <2> QED
      BY <1>2, <2>3 DEF NameInStep
  <1>3. CASE b.up /\ b.owner = "shell"
    <2>1. bus' = b
      BY <1>3 DEF Asked
    <2> QED
      BY <1>3, <2>1 DEF NameInStep
  <1>4. CASE b.up /\ b.owner = "other"
    <2>1. bus' = [b EXCEPT !.waiting = TRUE]
      BY <1>4 DEF Asked
    <2>2. /\ bus' \in Bus /\ bus'.owner = "other" /\ bus'.waiting /\ bus'.up = bus.up
      BY <1>4, <2>1 DEF Bus
    <2> QED
      BY <1>4, <2>2 DEF NameInStep
  <1> QED
    BY <1>0, <1>1, <1>2, <1>3, <1>4

\* Every step keeps what is said of the name.
LEMMA NextName ==
    ASSUME IInv, NameInStep, [Next]_vars
    PROVE  NameInStep'
  <1> DEFINE quiet == Silent(shell)
  <1>1. /\ quiet \in Shell /\ shell \in Shell /\ quiet.available = shell.available
        /\ quiet.stopped = shell.stopped /\ quiet.toasts = shell.toasts
        /\ quiet.current = shell.current /\ quiet.said = <<>>
    BY QuietIs
  <1>2. bus \in Bus /\ bus.up \in BOOLEAN /\ bus.waiting \in BOOLEAN
        /\ bus.owner \in {"none", "shell", "other"}
    BY DEF NameInStep, Bus
  <1> HIDE DEF quiet
  <1>3. ASSUME shell'.available = shell.available, shell'.stopped = shell.stopped,
               bus' \in Bus, bus'.up = bus.up, bus'.owner = bus.owner,
               bus'.waiting = bus.waiting, Announced(bus) => Announced(bus')
        PROVE  NameInStep'
    BY <1>3 DEF NameInStep
  <1>4. CASE Start
    <2> DEFINE q == [quiet EXCEPT !.stopped = FALSE]
    <2>1. /\ q \in Shell /\ q.available = shell.available /\ q.toasts = shell.toasts
          /\ q.said = <<>> /\ q.current = shell.current /\ ~q.stopped
      BY <1>1 DEF Shell
    <2>2. RegisterService(bus, q) /\ screens' = screens
      BY <1>4 DEF Start, quiet
    <2> HIDE DEF q
    <2>3. /\ ~shell'.stopped
          /\ shell'.available <=> shell.available \/ (bus.up /\ bus.owner # "other")
      BY <1>2, <2>1, <2>2, RegisteredKeeps
    <2>4. bus' = IF bus.up THEN Asked(bus) ELSE bus
      BY <2>2 DEF RegisterService
    <2> QED
      BY <1>2, <2>3, <2>4, AskedInStep
  <1>5. CASE Stop
    <2>1. shell'.stopped /\ (IF bus.up THEN ~shell'.available
                             ELSE shell'.available = shell.available)
      BY <1>5, StopKeeps
    <2>2. CASE ~bus.up
      BY <1>5, <2>1, <2>2 DEF Stop, NameInStep
    <2>3. CASE bus.up /\ bus.owner = "shell"
      <3> DEFINE b == [bus EXCEPT !.owner = "none"]
      <3>1. bus' = Report(b, "unregistered")
        BY <1>5, <2>3 DEF Stop
      <3>2. b \in Bus /\ b.owner = "none" /\ b.waiting = bus.waiting
        BY <1>2 DEF Bus
      <3> HIDE DEF b
      <3>3. bus' \in Bus /\ bus'.owner = "none" /\ bus'.waiting = bus.waiting
        BY <3>1, <3>2, ReportEffect
      <3> QED
        BY <2>1, <2>3, <3>3 DEF NameInStep
    <2>4. CASE bus.up /\ bus.owner # "shell"
      <3>1. bus' = [bus EXCEPT !.waiting = FALSE]
        BY <1>5, <2>4 DEF Stop
      <3>2. bus' \in Bus /\ ~bus'.waiting /\ bus'.owner = bus.owner
        BY <1>2, <3>1 DEF Bus
      <3> QED
        BY <2>1, <2>4, <3>2 DEF NameInStep
    <2> QED
      BY <2>2, <2>3, <2>4
  <1>6. CASE OnServiceRegistered
    <2>1. /\ Read \in Bus /\ Read.up = bus.up /\ Read.owner = bus.owner
          /\ Read.waiting = bus.waiting /\ screens' = screens
      BY <1>2, <1>6, ReadEffect DEF OnServiceRegistered, Reads
    <2>2. CASE shell.stopped \/ shell.available
      <3>1. bus' = Read /\ shell' = quiet
        BY <1>6, <2>2 DEF OnServiceRegistered, quiet
      <3> QED
        BY <1>1, <2>1, <2>2, <3>1 DEF NameInStep
    <2>3. CASE ~(shell.stopped \/ shell.available)
      <3>1. RegisterService(Read, quiet)
        BY <1>6, <2>3 DEF OnServiceRegistered, quiet
      <3>2. /\ shell'.stopped = quiet.stopped
            /\ shell'.available <=> shell.available \/ (Read.up /\ Read.owner # "other")
        BY <1>1, <1>2, <2>1, <3>1, RegisteredKeeps
      <3>3. bus' = IF Read.up THEN Asked(Read) ELSE Read
        BY <3>1 DEF RegisterService
      <3> QED
        BY <1>1, <1>2, <2>1, <2>3, <3>2, <3>3, AskedInStep DEF NameInStep
    <2> QED
      BY <2>2, <2>3
  <1>7. CASE OnServiceUnregistered
    <2>1. bus' = Read /\ bus.inbox # <<>> /\ Head(bus.inbox) = "unregistered"
      BY <1>7 DEF OnServiceUnregistered, Reads
    <2>2. /\ bus' \in Bus /\ bus'.up = bus.up /\ bus'.owner = bus.owner
          /\ bus'.waiting = bus.waiting /\ (Announced(bus) => Announced(bus'))
      BY <1>2, <2>1, ReadEffect
    <2>3. /\ shell'.stopped = shell.stopped
          /\ IF bus.up /\ bus.owner = "shell" THEN shell'.available = shell.available
             ELSE ~shell'.available
      BY <1>7, UnregisteredKeeps
    <2> QED
      BY <2>2, <2>3 DEF NameInStep
  <1>8. CASE Handled
    <2>1. shell'.available = shell.available /\ shell'.stopped = shell.stopped
      BY <1>8, HandledKeeps
    <2>2. CASE ReadRefused \/ ReadNotify \/ ReadCloseNotification
      <3>1. bus' = Read /\ bus.inbox # <<>> /\ Head(bus.inbox) # "registered"
        BY <2>2 DEF ReadRefused, ReadNotify, ReadCloseNotification, Reads
      <3> QED
        BY <1>2, <1>3, <2>1, <3>1, ReadEffect
    <2>3. CASE SenderCalls
      <3>1. PICK call \in {"Notify", "CloseNotification"} : bus' = Report(bus, call)
        BY <2>3 DEF SenderCalls
      <3> QED
        BY <1>2, <1>3, <2>1, <3>1, ReportEffect
    <2>4. CASE OtherTakesName
      <3> DEFINE b == [bus EXCEPT !.owner = "other"]
      <3>1. bus' = Report(b, "registered") /\ bus.up /\ bus.owner = "none"
        BY <2>4 DEF OtherTakesName
      <3>2. b \in Bus /\ b.owner = "other" /\ b.waiting = bus.waiting /\ b.up = bus.up
        BY <1>2 DEF Bus
      <3> HIDE DEF b
      <3>3. /\ bus' \in Bus /\ bus'.owner = "other" /\ bus'.waiting = bus.waiting
            /\ bus'.up = bus.up
        BY <3>1, <3>2, ReportEffect
      <3> QED
        BY <2>1, <3>1, <3>3 DEF NameInStep
    <2>5. CASE OtherReleasesName
      <3>1. bus.up /\ bus.owner = "other" /\ (bus.waiting => ~shell.stopped)
        BY <2>5 DEF OtherReleasesName, NameInStep
      <3>2. CASE bus.waiting
        <4> DEFINE b == [bus EXCEPT !.owner = "shell", !.waiting = FALSE]
        <4>1. bus' = Report(b, "registered")
          BY <2>5, <3>2 DEF OtherReleasesName
        <4>2. b \in Bus /\ b.owner = "shell" /\ ~b.waiting /\ b.up
          BY <1>2, <3>1 DEF Bus
        <4> HIDE DEF b
        <4>3. bus' \in Bus /\ bus'.owner = "shell" /\ ~bus'.waiting /\ bus'.up
              /\ Announced(bus')
          BY <4>1, <4>2, ReportEffect
        <4> QED
          BY <2>1, <3>1, <3>2, <4>3 DEF NameInStep
      <3>3. CASE ~bus.waiting
        <4> DEFINE b == [bus EXCEPT !.owner = "none"]
        <4>1. bus' = Report(b, "unregistered")
          BY <2>5, <3>3 DEF OtherReleasesName
        <4>2. b \in Bus /\ b.owner = "none" /\ ~b.waiting /\ b.up
          BY <1>2, <3>1, <3>3 DEF Bus
        <4> HIDE DEF b
        <4>3. bus' \in Bus /\ bus'.owner = "none" /\ ~bus'.waiting /\ bus'.up
          BY <4>1, <4>2, ReportEffect
        <4> QED
          BY <2>1, <3>1, <3>3, <4>3 DEF NameInStep
      <3> QED
        BY <3>2, <3>3
    <2>6. CASE BusLost
      <3>1. bus' = [bus EXCEPT !.up = FALSE, !.owner = "none", !.waiting = FALSE]
        BY <2>6 DEF BusLost
      <3>2. bus' \in Bus /\ bus'.owner = "none" /\ ~bus'.waiting /\ ~bus'.up
        BY <1>2, <3>1 DEF Bus
      <3> QED
        BY <2>1, <3>2 DEF NameInStep
    <2>7. CASE \/ SetDoNotDisturb \/ RemoveFromHistory \/ ClearHistory
               \/ Click \/ DismissFromToast \/ Expire \/ ScreenRemoved \/ ScreenAdded
      <3>1. bus' = bus
        BY <2>7 DEF SetDoNotDisturb, RemoveFromHistory, ClearHistory, Click,
               DismissFromToast, Expire, ScreenRemoved, ScreenAdded
      <3> QED
        BY <1>2, <1>3, <2>1, <3>1
    <2> QED
      BY <1>8, <2>2, <2>3, <2>4, <2>5, <2>6, <2>7 DEF Handled
  <1>9. CASE UNCHANGED vars
    BY <1>9 DEF vars, NameInStep, Announced
  <1> QED
    BY <1>4, <1>5, <1>6, <1>7, <1>8, <1>9 DEF Next, Handled

-----------------------------------------------------------------------------
(* Types. *)

TypeInv ==
    /\ Distinct(history) /\ Len(history) <= HistoryLimit
    /\ shell.toasts \subseteq screens
    /\ clicks \in 0..MaxClicks

\* At the start nothing is on the wire and every variable has its type.
LEMMA InitAll == Init => NameInStep /\ TypeInv
  <1> SUFFICES ASSUME Init
               PROVE  NameInStep /\ TypeInv
    OBVIOUS
  <1>1. <<>> \in Seq({"registered", "unregistered", "Notify", "CloseNotification"})
    OBVIOUS
  <1>2. NameInStep
    BY <1>1 DEF Init, NameInStep, Bus
  <1>3. Distinct(history) /\ Len(history) = 0
    BY DEF Init, Distinct
  <1> QED
    BY <1>2, <1>3, BoundsAssumption DEF Init, TypeInv

\* Every step keeps and, when it takes the reading away, the name is not the shell's.
LEMMA StepKeeps ==
    ASSUME IInv, NameInStep, Next
    PROVE  Kept /\ (shell.available /\ ~shell'.available => bus'.owner # "shell")
  <1> DEFINE quiet == Silent(shell)
  <1>1. /\ quiet \in Shell /\ shell \in Shell /\ quiet.available = shell.available
        /\ quiet.stopped = shell.stopped /\ quiet.toasts = shell.toasts
        /\ quiet.current = shell.current /\ quiet.said = <<>>
    BY QuietIs
  <1>2. bus \in Bus /\ (bus.owner = "shell" => bus.up)
    BY DEF NameInStep
  <1> HIDE DEF quiet
  <1>3. CASE Start
    <2> DEFINE q == [quiet EXCEPT !.stopped = FALSE]
    <2>1. /\ q \in Shell /\ q.available = shell.available /\ q.toasts = shell.toasts
          /\ q.said = <<>> /\ q.current = shell.current
      BY <1>1 DEF Shell
    <2>2. RegisterService(bus, q) /\ screens' = screens
      BY <1>3 DEF Start, quiet
    <2> HIDE DEF q
    <2> QED
      BY <1>2, <2>1, <2>2, RegisteredKeeps
  <1>4. CASE Stop
    <2>1. Kept /\ (~bus.up => shell'.available = shell.available)
      BY <1>4, StopKeeps
    <2>2. CASE bus.up /\ bus.owner = "shell"
      <3> DEFINE b == [bus EXCEPT !.owner = "none"]
      <3>1. bus' = Report(b, "unregistered")
        BY <1>4, <2>2 DEF Stop
      <3>2. b \in Bus /\ b.owner = "none"
        BY <1>2 DEF Bus
      <3> HIDE DEF b
      <3> QED
        BY <2>1, <3>1, <3>2, ReportEffect
    <2>3. CASE bus.up /\ bus.owner # "shell"
      <3>1. bus' = [bus EXCEPT !.waiting = FALSE]
        BY <1>4, <2>3 DEF Stop
      <3> QED
        BY <1>2, <2>1, <2>3, <3>1 DEF Bus
    <2> QED
      BY <2>1, <2>2, <2>3
  <1>5. CASE OnServiceRegistered
    <2>1. Read \in Bus /\ screens' = screens
      BY <1>2, <1>5, ReadEffect DEF OnServiceRegistered, Reads
    <2>2. CASE shell.stopped \/ shell.available
      <3>1. shell' = quiet
        BY <1>5, <2>2 DEF OnServiceRegistered, quiet
      <3> QED
        BY <1>1, <2>1, <3>1, NothingSaid DEF Kept
    <2>3. CASE ~(shell.stopped \/ shell.available)
      <3>1. RegisterService(Read, quiet)
        BY <1>5, <2>3 DEF OnServiceRegistered, quiet
      <3> QED
        BY <1>1, <1>2, <2>1, <3>1, RegisteredKeeps
    <2> QED
      BY <2>2, <2>3
  <1>6. CASE OnServiceUnregistered
    <2>1. bus'.owner = bus.owner
      BY <1>2, <1>6, ReadEffect DEF OnServiceUnregistered, Reads
    <2> QED
      BY <1>2, <1>6, <2>1, UnregisteredKeeps
  <1>7. CASE Handled
    BY <1>7, HandledKeeps
  <1> QED
    BY <1>3, <1>4, <1>5, <1>6, <1>7 DEF Next, Handled

\* Every step keeps the types.
LEMMA NextType ==
    ASSUME IInv, NameInStep, TypeInv, [Next]_vars
    PROVE  TypeInv'
  <1>1. ASSUME Next
        PROVE  shell'.toasts \subseteq screens'
    BY <1>1, StepKeeps DEF Kept, TypeInv
  <1>2. CASE ReadNotify
    <2>1. PICK replaces \in Id \cup {NoId} :
              history' = RecordInHistory(history, IF replaces = NoId THEN NextId(shell)
                                                  ELSE replaces)
      BY <1>2 DEF ReadNotify
    <2> DEFINE id == IF replaces = NoId THEN NextId(shell) ELSE replaces
    <2>2. shell \in Shell
      BY DEF IInv, Good, Shows
    <2>3. id \in Id
      BY <2>2, NextIdIsId
    <2> HIDE DEF id
    <2>4. Distinct(history') /\ Len(history') <= HistoryLimit
      BY <2>1, <2>3, RecordInHistoryKeeps DEF TypeInv, id
    <2>5. shell'.toasts \subseteq screens'
      BY <1>1, <1>2 DEF Next
    <2> QED
      BY <1>2, <2>4, <2>5 DEF ReadNotify, TypeInv
  <1>3. CASE RemoveFromHistory
    <2>1. PICK entry : history' = RemoveFirst(history, entry)
      BY <1>3 DEF RemoveFromHistory
    <2>2. Distinct(history') /\ Len(history') <= Len(history)
      BY <2>1, RemoveFirstKeeps DEF TypeInv
    <2>3. Len(history) \in Nat /\ Len(history') \in Nat
      BY <2>2, LenProperties DEF TypeInv, Distinct
    <2>4. Len(history') <= HistoryLimit
      BY <2>2, <2>3, BoundsAssumption DEF TypeInv
    <2>5. shell'.toasts \subseteq screens'
      BY <1>1, <1>3 DEF Next
    <2> QED
      BY <1>3, <2>2, <2>4, <2>5 DEF RemoveFromHistory, TypeInv
  <1>4. CASE ClearHistory
    <2>1. Distinct(<<>>) /\ Len(<<>>) = 0
      BY DEF Distinct
    <2>2. shell'.toasts \subseteq screens'
      BY <1>1, <1>4 DEF Next
    <2> QED
      BY <1>4, <2>1, <2>2, BoundsAssumption DEF ClearHistory, TypeInv
  <1>5. CASE Click \/ DismissFromToast
    <2>1. shell'.toasts \subseteq screens'
      BY <1>1, <1>5 DEF Next
    <2>2. clicks' \in 0..MaxClicks /\ history' = history
      BY <1>5, BoundsAssumption DEF Click, DismissFromToast, TypeInv
    <2> QED
      BY <2>1, <2>2 DEF TypeInv
  <1>6. CASE \/ Start \/ Stop \/ OnServiceRegistered \/ OnServiceUnregistered
             \/ ReadRefused \/ ReadCloseNotification \/ SetDoNotDisturb \/ Expire
             \/ ScreenRemoved \/ ScreenAdded \/ SenderCalls \/ OtherTakesName
             \/ OtherReleasesName \/ BusLost
    <2>1. shell'.toasts \subseteq screens'
      BY <1>1, <1>6 DEF Next
    <2>2. history' = history /\ clicks' = clicks
      BY <1>6 DEF Start, Stop, OnServiceRegistered, OnServiceUnregistered, ReadRefused,
             ReadCloseNotification, SetDoNotDisturb, Expire, ScreenRemoved, ScreenAdded,
             SenderCalls, OtherTakesName, OtherReleasesName, BusLost
    <2> QED
      BY <2>1, <2>2 DEF TypeInv
  <1>7. CASE UNCHANGED vars
    BY <1>7 DEF vars, TypeInv, Distinct
  <1> QED
    BY <1>2, <1>3, <1>4, <1>5, <1>6, <1>7 DEF Next

-----------------------------------------------------------------------------
(* The theorems. *)

\* The invariant of the list and the toasts holds in every reachable state.
THEOREM InductiveInvariant == Spec => []IInv
  BY InitIInv, NextIInv, PTL DEF Spec

\* While the shell is the daemon the toasts show the notification it holds and otherwise
\* none, with no clock but its own and nothing under Do Not Disturb: closes, expiries,
\* clicks and handovers in any order.
THEOREM ToastsAlwaysFollow == Spec => []ToastsFollowDaemon
  <1>1. IInv => ShownIsCurrent
    BY DEF IInv, Good, Shows, ShownIsCurrent
  <1>2. IInv => ClockIsItsOwn
    BY DEF IInv, Good, Shows, ClockIsItsOwn
  <1>3. IInv => NothingDisturbs
    BY DEF IInv, Good, Shows, NothingDisturbs
  <1>4. IInv => ToastsFollowDaemon
    BY <1>1, <1>2, <1>3 DEF ToastsFollowDaemon
  <1> QED
    BY InductiveInvariant, <1>4, PTL

\* Every sender but the current notification's has been told of its notification's end.
THEOREM AtMostOneIsWaiting == Spec => []OneIsWaiting
  <1>1. IInv => OneIsWaiting
    BY DEF IInv, Good, OneIsWaiting
  <1> QED
    BY InductiveInvariant, <1>1, PTL
\* So does what is said of the name on the bus, and of the types.
THEOREM StrongerInvariant == Spec => [](IInv /\ NameInStep /\ TypeInv)
  <1>1. Init => IInv /\ NameInStep /\ TypeInv
    BY InitIInv, InitAll
  <1>2. IInv /\ NameInStep /\ TypeInv /\ [Next]_vars => (IInv /\ NameInStep /\ TypeInv)'
    BY NextIInv, NextName, NextType
  <1> QED
    BY <1>1, <1>2, PTL DEF Spec

\* The types hold, a toast is on a screen that is there, and the history holds no id
\* twice and no more than it may, for any limit.
THEOREM TypesHold == Spec => []TypeOK
  <1>1. IInv /\ NameInStep /\ TypeInv => TypeOK
    BY DistinctIsInjective DEF IInv, Good, Shows, NameInStep, TypeInv, TypeOK
  <1> QED
    BY StrongerInvariant, <1>1, PTL

\* When no report of the bus is unread the shell says that it is the daemon exactly when
\* the name is its own, over any number of reports on their way.
THEOREM ReadingAlwaysFollows == Spec => []ReadingFollowsOwner
  <1>1. IInv /\ NameInStep /\ TypeInv => ReadingFollowsOwner
    <2> SUFFICES ASSUME IInv, NameInStep, bus.up,
                        \A what \in Range(bus.inbox) : what \notin {"registered", "unregistered"}
                 PROVE  shell.available <=> bus.owner = "shell"
      BY DEF ReadingFollowsOwner
    <2>1. ~Announced(bus)
      <3>1. bus.inbox \in Seq({"registered", "unregistered", "Notify", "CloseNotification"})
        BY DEF NameInStep, Bus
      <3>2. \A i \in 1..Len(bus.inbox) : bus.inbox[i] \in Range(bus.inbox)
        BY <3>1, LenProperties DEF Range
      <3> QED
        BY <3>2 DEF Announced
    <2>2. shell.available \in BOOLEAN
      BY DEF IInv, Good, Shows, Shell
    <2> QED
      BY <2>1, <2>2 DEF NameInStep
  <1> QED
    BY StrongerInvariant, <1>1, PTL

\* No step that leaves the name with the shell takes the reading from it: the late report
\* of an old release is recognised.
THEOREM OwnerAlwaysKeeps == Spec => OwnerKeepsReading
  <1>1. IInv /\ NameInStep /\ TypeInv /\ [Next]_vars
            => [shell.available /\ ~shell'.available => bus'.owner # "shell"]_vars
    BY StepKeeps
  <1> QED
    BY StrongerInvariant, <1>1, PTL DEF Spec, OwnerKeepsReading

\* Each end is told once, of a notification whose sender waits or that is answered for in
\* the same step.
THEOREM AlwaysToldOnce == Spec => ToldOnce
  <1>1. IInv /\ NameInStep /\ TypeInv /\ [Next]_vars
            => [ToldOnceOf(shell.owed, shell'.said)]_vars
    BY StepKeeps DEF Kept
  <1> QED
    BY StrongerInvariant, <1>1, PTL DEF Spec, ToldOnce
=============================================================================
