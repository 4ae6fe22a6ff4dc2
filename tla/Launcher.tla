------------------------------- MODULE Launcher -------------------------------
(***************************************************************************)
(* The launcher's model (src/apps/LauncherService, LaunchHistory): a scan  *)
(* of the installed applications on a worker thread, the ranking of what   *)
(* it found, and the history of launches, read by the scan and written by  *)
(* a thread of its own.                                                    *)
(*                                                                         *)
(* A handler of the GUI thread is an operator from the service's record to *)
(* its next one.  Applications are numbered in the order of their names; a *)
(* query is the set of those it matches, all equally well.  Launches are   *)
(* recent, so that a record's frecency is its count.                       *)
(***************************************************************************)
EXTENDS Integers, Sequences, SequencesExt, FiniteSets

CONSTANTS
    NumApps,       \* the applications there may be
    MaxResults,    \* the values of [launcher] max_results
    Traffic        \* bounds: what may happen, one of them in a behaviour

\* installed: what may be installed at first; typing: somebody types and moves in the
\* panel; launches of one application; changes of what is installed; lines of one client
\* of the socket.
Bounds == [installed : SUBSET SUBSET (1..NumApps), typing : BOOLEAN,
           launches : Nat, changes : Nat, lines : Nat]

ASSUME LauncherAssumption ==
    /\ NumApps \in Nat \ {0}
    /\ MaxResults # {} /\ MaxResults \subseteq Nat \ {0}
    /\ Traffic \subseteq Bounds

VARIABLES
    disk,        \* the applications installed, the history file
    launcher,    \* LauncherService with its threads
    remembered,  \* ghost: per application, the launches to be remembered
    bounds       \* what of its traffic a behaviour has left

launcherVars == <<disk, launcher, remembered, bounds>>

App == 1..NumApps
Everything == App
Query == {Everything} \cup {{a} : a \in App}
History == [App -> Nat]
NoLaunch == [a \in App |-> 0]

\* scan: what the worker is at, unread the directories' entries it has yet to read, found
\* and read what it has read; writes: the snapshots queued for the writer thread.  since
\* (a ghost): whether each application was installed, at any time since the last refresh().
Service == [running : BOOLEAN, open : BOOLEAN, query : Query, maxResults : MaxResults,
            entries : SUBSET App, shown : Seq(App), selected : -1..(NumApps - 1),
            scanning : BOOLEAN, rescanQueued : BOOLEAN, history : History,
            scan : {"idle", "entries", "history", "finished"},
            unread : SUBSET App, found : SUBSET App, read : History,
            writes : Seq(History), since : [App -> SUBSET BOOLEAN]]

-----------------------------------------------------------------------------
(* The service's handlers.                                                   *)

Matching(m) == m.entries \cap m.query

\* Among equally good matches the higher frecency first, then the name.
Before(history, a, b) == history[a] > history[b] \/ (history[a] = history[b] /\ a < b)

Sorted(found, history) ==
    CHOOSE all \in [1..Cardinality(found) -> found] :
        \A i, j \in DOMAIN all : i < j => Before(history, all[i], all[j])

Rank(m) ==
    LET all == Sorted(Matching(m), m.history)
    IN  SubSeq(all, 1, IF Len(all) > m.maxResults THEN m.maxResults ELSE Len(all))

Rerank(m) ==
    LET next == Rank(m)
    IN  [m EXCEPT !.shown = next, !.selected = IF next = <<>> THEN -1 ELSE 0]

\* Mutant: a request during a scan taken for answered by it.
RefreshDropped(m) ==
    IF m.scanning THEN [m EXCEPT !.since = [a \in App |-> {(a \in disk.apps)}]]
    ELSE [m EXCEPT !.scanning = TRUE, !.scan = "entries", !.unread = App, !.found = {},
                   !.since = [a \in App |-> {(a \in disk.apps)}]]

\* One scan at a time; a request during one asks for another after it.
Refresh(m) ==
    LET asked == [m EXCEPT !.since = [a \in App |-> {(a \in disk.apps)}]]
    IN  IF m.scanning THEN [asked EXCEPT !.rescanQueued = TRUE]
        ELSE [asked EXCEPT !.scanning = TRUE, !.scan = "entries",
                           !.unread = App, !.found = {}]

\* Mutant: what the worker read taken as it is.
MergedReplaced(mine, scanned) == scanned

\* A launch made while the scan ran is in mine and not in what the worker read.
Merged(mine, scanned) ==
    [a \in App |-> IF scanned[a] > mine[a] THEN scanned[a] ELSE mine[a]]

ApplyScan(m) ==
    LET applied == Rerank([m EXCEPT !.entries = m.found, !.scanning = FALSE, !.scan = "idle",
                                    !.found = {}, !.read = NoLaunch,
                                    !.history = Merged(@, m.read)])
    IN  IF ~m.rescanQueued THEN applied
        ELSE \* The queued request is carried out, not made again: since stands.
             [Refresh([applied EXCEPT !.rescanQueued = FALSE]) EXCEPT !.since = m.since]

SetQuery(m, query) == IF query = m.query THEN m ELSE Rerank([m EXCEPT !.query = query])

\* Mutant: the list left as it is.
SetMaxResultsLater(m, limit) == [m EXCEPT !.maxResults = limit]

SetMaxResults(m, limit) ==
    IF limit = m.maxResults THEN m ELSE Rerank([m EXCEPT !.maxResults = limit])

\* setOpen, with the panel's host behind openChanged: made says whether it can show the
\* panel, and one that cannot closes the service again.
SetOpen(m, open, made) ==
    CASE open = m.open -> m
      [] open /\ ~m.open ->
             [Refresh(SetQuery([m EXCEPT !.open = TRUE], Everything)) EXCEPT !.open = made]
      [] ~open /\ m.open -> [m EXCEPT !.open = FALSE]

Toggle(m, made) == SetOpen(m, ~m.open, made)

MoveSelection(m, delta) ==
    IF m.shown = <<>> THEN m
    ELSE [m EXCEPT !.selected = (@ + delta + Len(m.shown)) % Len(m.shown)]

\* recordLaunch and the snapshot for the writer.
RecordLaunch(m, a) ==
    LET counted == [m.history EXCEPT ![a] = @ + 1]
    IN  [m EXCEPT !.history = counted, !.writes = Append(@, counted)]

-----------------------------------------------------------------------------
(* The GUI thread.                                                           *)

New(limit) ==
    [running |-> TRUE, open |-> FALSE, query |-> Everything, maxResults |-> limit,
     entries |-> {}, shown |-> <<>>, selected |-> -1,
     scanning |-> FALSE, rescanQueued |-> FALSE, history |-> NoLaunch,
     scan |-> "idle", unread |-> {}, found |-> {}, read |-> NoLaunch,
     writes |-> <<>>, since |-> [a \in App |-> {}]]

\* A step of a running service that leaves the disk alone.
Becomes(m) ==
    /\ launcher.running
    /\ launcher' = m
    /\ UNCHANGED <<disk, remembered, bounds>>

ScanFinished == launcher.scan = "finished" /\ Becomes(ApplyScan(launcher))

TogglePanel == \E made \in BOOLEAN : Becomes(Toggle(launcher, made))

TypeQuery ==
    bounds.typing /\ launcher.open /\ \E query \in Query : Becomes(SetQuery(launcher, query))

ConfigureMaxResults ==
    bounds.typing /\ \E limit \in MaxResults : Becomes(SetMaxResults(launcher, limit))

ArrowKey ==
    bounds.typing /\ launcher.open /\ \E delta \in {-1, 1} : Becomes(MoveSelection(launcher, delta))

\* Enter, or a click on another result; a program that cannot be started leaves all as it is.
Launch ==
    /\ launcher.running /\ launcher.open
    /\ \E i \in DOMAIN launcher.shown :
          LET a == launcher.shown[i]
          IN  /\ launcher.history[a] < bounds.launches
              /\ launcher' = SetOpen(RecordLaunch(launcher, a), FALSE, TRUE)
              /\ remembered' = [remembered EXCEPT ![a] = @ + 1]
    /\ UNCHANGED <<disk, bounds>>

-----------------------------------------------------------------------------
(* The worker of the scan, and the writer.                                   *)

\* An application's entry is read, or found not to be there.
ReadEntry ==
    /\ launcher.scan = "entries"
    /\ \E a \in launcher.unread :
          Becomes([launcher EXCEPT
                     !.unread = @ \ {a},
                     !.found = IF a \in disk.apps THEN @ \cup {a} ELSE @,
                     !.scan = IF launcher.unread = {a} THEN "history" ELSE @])

ReadHistoryFile ==
    /\ launcher.scan = "history"
    /\ Becomes([launcher EXCEPT !.read = disk.history, !.scan = "finished"])

\* A QSaveFile replaces the file whole, or fails and leaves it.
WriteHistoryFile ==
    /\ launcher.writes # <<>>
    /\ launcher' = [launcher EXCEPT !.writes = Tail(@)]
    /\ \E written \in BOOLEAN :
          disk' = IF written THEN [disk EXCEPT !.history = Head(launcher.writes)] ELSE disk
    /\ UNCHANGED <<remembered, bounds>>

-----------------------------------------------------------------------------
(* The machine.                                                              *)

\* An application is installed or removed.
Change(a) ==
    /\ bounds.changes > 0
    /\ bounds' = [bounds EXCEPT !.changes = @ - 1]
    /\ disk' = [disk EXCEPT !.apps = IF a \in @ THEN @ \ {a} ELSE @ \cup {a}]
    /\ launcher' = [launcher EXCEPT !.since[a] = @ \cup {(a \notin disk.apps)}]
    /\ UNCHANGED remembered

\* The shell exits, having waited for the writer, or dies with what it has not written.
Stopped == [New(launcher.maxResults) EXCEPT !.running = FALSE]

ExitOrCrash ==
    /\ launcher.running
    /\ launcher' = Stopped
    /\ remembered' = disk.history
    /\ UNCHANGED <<disk, bounds>>

\* main() constructs the service and asks for the first scan.
Started == Refresh([launcher EXCEPT !.running = TRUE])

Start ==
    /\ ~launcher.running
    /\ launcher' = Started
    /\ UNCHANGED <<disk, remembered, bounds>>

LauncherInit ==
    /\ bounds \in Traffic
    /\ \E apps \in bounds.installed : disk = [apps |-> apps, history |-> NoLaunch]
    /\ \E limit \in MaxResults : launcher = [New(limit) EXCEPT !.running = FALSE]
    /\ remembered = NoLaunch

\* What the service does by itself, toggling apart, which qsctl does as well.
LauncherNext ==
    \/ ScanFinished \/ TypeQuery \/ ConfigureMaxResults \/ ArrowKey \/ Launch
    \/ ReadEntry \/ ReadHistoryFile \/ WriteHistoryFile
    \/ \E a \in App : Change(a)

-----------------------------------------------------------------------------
(* Properties.                                                               *)

LauncherTypeOK ==
    /\ disk \in [apps : SUBSET App, history : History]
    /\ launcher \in Service /\ remembered \in History
    /\ bounds \in Bounds

\* What the open panel lists once no scan is under way is what its query, limit, entries and
\* launches rank now, and Enter has something to start whenever there is something listed:
\* no order of typing, scans, launches and configuration leaves an older list.
ListIsCurrent ==
    /\ launcher.open /\ ~launcher.scanning => launcher.shown = Rank(launcher)
    /\ IF launcher.shown = <<>> THEN launcher.selected = -1
       ELSE launcher.selected + 1 \in DOMAIN launcher.shown

\* When no scan is under way, every entry listed, and every one not listed, was so on the
\* disk at some time after the last request to look: a request made during a scan, when the
\* files it asks about may have been read already, is not taken for answered.
ScanIsFresh ==
    launcher.running /\ ~launcher.scanning =>
        \A a \in App : (a \in launcher.entries) \in launcher.since[a]

\* No launch is forgotten: not by the scan that read the file before it, and the last
\* snapshot to be written has it.
LaunchesRemembered ==
    launcher.entries # {} =>
        /\ launcher.history = remembered
        /\ launcher.writes # <<>> => Last(launcher.writes) = remembered

\* After every step nothing is forgotten, nor does the file go back to an older count.
NothingForgotten ==
    [][/\ LaunchesRemembered'
       /\ \A a \in App : disk'.history[a] >= disk.history[a]]_launcherVars
=============================================================================
