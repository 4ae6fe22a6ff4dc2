--------------------------- MODULE ConfigWatcher ---------------------------
(* ConfigWatcher, which keeps Config in step with config.toml and the theme   *)
(* it names. QFileSystemWatcher's watches are on inodes: one that is removed  *)
(* or replaced takes its watch along, and what a removed watch had to report  *)
(* is dropped. A read runs on a worker, config first and then its theme,      *)
(* while the disk goes on changing; the first read blocks start().            *)
EXTENDS Naturals, FiniteSets

CONSTANTS Themes,      \* names of files in themes/
          Values,      \* what config.toml can say besides its theme; 0 is the default
          Colours,     \* what a theme file can say
          MaxEdits     \* bound: changes of the disk

ASSUME EditAssumption ==
    /\ MaxEdits \in Nat
    /\ 0 \in Values /\ 0 \notin Colours
    /\ Themes \cap {"none", "base", "dir", "config", "themes"} = {}

VARIABLES disk, watcher, reader, config, edits

vars == <<disk, watcher, reader, config, edits>>

\* The configuration directory "dir" in "base", "config" and "themes" in it, theme files.
Node == {"base", "dir", "config", "themes"} \cup Themes

\* A file that is not there reads as one that says nothing.
Texts == [there : BOOLEAN, usable : BOOLEAN, theme : Themes \cup {"none"}, value : Values]
Empty == [there |-> FALSE, usable |-> TRUE, theme |-> "none", value |-> 0]
Text == {t \in Texts : /\ ~t.there => t = Empty
                       /\ ~t.usable => t.theme = "none" /\ t.value = 0}

\* themes: what each theme file says, 0 when there is none.
Disk == [dirs : SUBSET {"dir", "themes"}, config : Text, themes : [Themes -> Colours \cup {0}]]

Exists(d, n) ==
    CASE n = "base" -> TRUE
      [] n \in {"dir", "themes"} -> n \in d.dirs
      [] n = "config" -> d.config.there
      [] n \in Themes -> d.themes[n] # 0

Parent(n) ==
    CASE n = "dir" -> "base"
      [] n \in {"config", "themes"} -> "dir"
      [] n \in Themes -> "themes"

Sound(d) == \A n \in Node \ {"base"} : Exists(d, n) => Exists(d, Parent(n))

\* watched: files() and directories(); live: those whose inode is still there;
\* events: what inotify has to tell of each.
Watcher == [watched : SUBSET Node, live : SUBSET Node, events : SUBSET Node]

\* What a read yields; colour is 0 without a theme or its file.
Reading == [usable : BOOLEAN, theme : Themes \cup {"none"}, value : Values,
            colour : Colours \cup {0}]

Yields(text, colour) ==
    [usable |-> text.usable, theme |-> text.theme, value |-> text.value, colour |-> colour]

Colour(d, theme) == IF theme = "none" THEN 0 ELSE d.themes[theme]

OnDisk(d) == Yields(d.config, Colour(d, d.config.theme))

\* The worker, or start() when it blocks. again: readAgain_. missed is a ghost: the
\* watches were renewed, with no read to follow, when the disk was no longer what was read.
Reader == [stage : {"idle", "config", "theme", "done"}, blocking : BOOLEAN,
           result : Reading, again : BOOLEAN, missed : BOOLEAN]

\* What Config holds, and themePath_.
Config == [started : BOOLEAN, applied : Reading, theme : Themes \cup {"none"}]

-----------------------------------------------------------------------------
(* The watcher's handlers.                                                   *)

DeepestExistingDirectory(d, n) ==
    CASE Exists(d, Parent(n)) -> Parent(n)
      [] ~Exists(d, Parent(n)) /\ Exists(d, "dir") -> "dir"
      [] ~Exists(d, Parent(n)) /\ ~Exists(d, "dir") -> "base"

\* A file, if it is there, and the deepest directory above it.
Around(d, n) == {m \in {n} : Exists(d, m)} \cup {DeepestExistingDirectory(d, n)}

Wanted(d, theme) ==
    Around(d, "config") \cup (IF theme = "none" THEN {} ELSE Around(d, theme))

\* All watches are removed and added when the set differs, and their events are gone.
Rewatch(w, d, theme) ==
    LET wanted == Wanted(d, theme)
    IN  IF w.watched = wanted THEN w
        ELSE [watched |-> wanted, live |-> wanted, events |-> {}]

\* Mutant: a change during a read forgotten.
ScheduleReadOnce(r) ==
    IF r.stage # "idle" THEN r
    ELSE [r EXCEPT !.stage = "config", !.blocking = FALSE, !.missed = FALSE]

ScheduleRead(r) ==
    IF r.stage # "idle" THEN [r EXCEPT !.again = TRUE]
    ELSE [r EXCEPT !.stage = "config", !.blocking = FALSE, !.missed = FALSE]

\* The connections, the watches, and the first read.
Start ==
    /\ ~config.started
    /\ config' = [config EXCEPT !.started = TRUE]
    /\ watcher' = Rewatch(watcher, disk, config.theme)
    /\ reader' = [reader EXCEPT !.stage = "config", !.blocking = TRUE]
    /\ UNCHANGED <<disk, edits>>

\* Mutant: the read started, the watches left as they were.
OnWatchedPathChangedNoRewatch ==
    /\ ~reader.blocking
    /\ \E n \in watcher.events :
          watcher' = [watcher EXCEPT !.events = @ \ {n},
                                     !.watched = IF n \in watcher.live THEN @ ELSE @ \ {n}]
    /\ reader' = ScheduleRead(reader)
    /\ UNCHANGED <<disk, config, edits>>

\* A watched path reports; one whose inode went is no longer watched.
OnWatchedPathChanged ==
    /\ ~reader.blocking
    /\ \E n \in watcher.events :
          LET left == [watcher EXCEPT !.events = @ \ {n},
                                      !.watched = IF n \in watcher.live THEN @ ELSE @ \ {n}]
          IN  watcher' = Rewatch(left, disk, config.theme)
    /\ reader' = ScheduleRead(reader)
    /\ UNCHANGED <<disk, config, edits>>

\* readAndParse, up to the theme it names.
ReadConfig ==
    /\ reader.stage = "config"
    /\ reader' = [reader EXCEPT
                    !.result = Yields(disk.config, 0),
                    !.stage = IF disk.config.usable /\ disk.config.theme # "none"
                              THEN "theme" ELSE "done"]
    /\ UNCHANGED <<disk, watcher, config, edits>>

ReadThemeFile ==
    /\ reader.stage = "theme"
    /\ reader' = [reader EXCEPT !.stage = "done",
                                !.result.colour = Colour(disk, reader.result.theme)]
    /\ UNCHANGED <<disk, watcher, config, edits>>

\* An unusable file changes nothing.
Apply(c, result) ==
    IF ~result.usable THEN c ELSE [c EXCEPT !.applied = result, !.theme = result.theme]

\* Mutant: readAgain_ left set.
ReadFinishedAgain ==
    /\ reader.stage = "done"
    /\ config' = Apply(config, reader.result)
    /\ watcher' = IF config'.theme = config.theme THEN watcher
                  ELSE Rewatch(watcher, disk, config'.theme)
    /\ reader' = [reader EXCEPT !.stage = IF reader.again THEN "config" ELSE "idle",
                                !.blocking = FALSE]
    /\ UNCHANGED <<disk, edits>>

\* readFinished, or the end of start(). Only a theme that changed renews the watches.
ReadFinished ==
    LET applied == Apply(config, reader.result)
        renewed == IF applied.theme = config.theme THEN watcher
                   ELSE Rewatch(watcher, disk, applied.theme)
        finished == [reader EXCEPT !.stage = "idle", !.blocking = FALSE, !.again = FALSE,
                                   !.missed = /\ renewed # watcher
                                              /\ OnDisk(disk) # reader.result]
    IN  /\ reader.stage = "done"
        /\ config' = applied
        /\ watcher' = renewed
        /\ reader' = IF reader.again THEN ScheduleRead(finished) ELSE finished
        /\ UNCHANGED <<disk, edits>>

-----------------------------------------------------------------------------
(* The disk. Watches on `changed` report; those on `gone` report and end.     *)

Tell(changed, gone) ==
    watcher' = [watcher EXCEPT !.events = @ \cup (watcher.live \cap (changed \cup gone)),
                               !.live = @ \ gone]

Edit(d) ==
    /\ edits < MaxEdits
    /\ edits' = edits + 1
    /\ disk' = d
    /\ UNCHANGED <<reader, config>>

\* In place, or by a new file renamed over the old one.
SaveConfig ==
    /\ "dir" \in disk.dirs
    /\ \E text \in {t \in Text : t.there} \ {disk.config} :
          Edit([disk EXCEPT !.config = text])
    /\ \/ disk.config.there /\ Tell({"config"}, {})
       \/ Tell({"dir"}, {"config"})

RemoveConfig ==
    /\ disk.config.there
    /\ Edit([disk EXCEPT !.config = Empty])
    /\ Tell({"dir"}, {"config"})

SaveTheme ==
    /\ "themes" \in disk.dirs
    /\ \E theme \in Themes, colour \in Colours :
          /\ colour # disk.themes[theme]
          /\ Edit([disk EXCEPT !.themes[theme] = colour])
          /\ \/ disk.themes[theme] # 0 /\ Tell({theme}, {})
             \/ Tell({"themes"}, {theme})

RemoveTheme ==
    \E theme \in Themes :
        /\ disk.themes[theme] # 0
        /\ Edit([disk EXCEPT !.themes[theme] = 0])
        /\ Tell({"themes"}, {theme})

MakeDirectory ==
    \E n \in {"dir", "themes"} \ disk.dirs :
        /\ Exists(disk, Parent(n))
        /\ Edit([disk EXCEPT !.dirs = @ \cup {n}])
        /\ Tell({Parent(n)}, {})

RemoveThemes ==
    /\ "themes" \in disk.dirs
    /\ Edit([disk EXCEPT !.dirs = @ \ {"themes"}, !.themes = [t \in Themes |-> 0]])
    /\ Tell({"dir"}, {"themes"} \cup Themes)

RemoveDirectory ==
    /\ "dir" \in disk.dirs
    /\ Edit([dirs |-> {}, config |-> Empty, themes |-> [t \in Themes |-> 0]])
    /\ Tell({"base"}, Node \ {"base"})

-----------------------------------------------------------------------------
Init ==
    /\ disk \in {d \in Disk : Sound(d)}
    /\ watcher = [watched |-> {}, live |-> {}, events |-> {}]
    /\ reader = [stage |-> "idle", blocking |-> FALSE, result |-> Yields(Empty, 0),
                 again |-> FALSE, missed |-> FALSE]
    /\ config = [started |-> FALSE, applied |-> Yields(Empty, 0), theme |-> "none"]
    /\ edits = 0

Step == Start \/ OnWatchedPathChanged \/ ReadConfig \/ ReadThemeFile \/ ReadFinished

Next ==
    \/ Step
    \/ SaveConfig \/ RemoveConfig \/ SaveTheme \/ RemoveTheme
    \/ MakeDirectory \/ RemoveThemes \/ RemoveDirectory

Spec == Init /\ [][Next]_vars

\* The event loop runs, and so does the worker.
FairSpec == Spec /\ WF_vars(Step)

-----------------------------------------------------------------------------
\* Every variable has its type; a watch whose inode went has an event to tell it.
TypeOK ==
    /\ disk \in Disk /\ Sound(disk)
    /\ watcher \in Watcher /\ watcher.live \subseteq watcher.watched
    /\ watcher.watched \ watcher.live \subseteq watcher.events
    /\ watcher.events \subseteq watcher.watched
    /\ reader \in Reader /\ config \in Config /\ edits \in 0..MaxEdits

Quiet == config.started /\ reader.stage = "idle" /\ watcher.events = {}

\* Whenever nothing is left to report or to read, what is watched is what would show the
\* next change: the files that are there, by their present inodes, and the deepest
\* directories in which the others would appear.
NoBlindSpot ==
    config.started /\ watcher.events = {} =>
        watcher.watched = Wanted(disk, config.theme) /\ watcher.live = watcher.watched

\* The watches are well formed, and cover what they should.
WellFormed == TypeOK /\ NoBlindSpot

\* ConfigWatcher.h: "the last state of the file is the one that matters". When nothing is
\* left to report or to read, Config is what the files say, unless they are unusable.
NoEditLost == Quiet => ~disk.config.usable \/ config.applied = OnDisk(disk)

\* The same, but for the one way of losing an edit that the code has: the watches renewed
\* by apply() after the files had changed again.
NoEditLostUnlessMissed == ~reader.missed => NoEditLost

\* When the edits end, so do the reads: renewing the watches never feeds itself.
Settles == <>[]Quiet
=============================================================================
