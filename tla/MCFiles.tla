------------------------------- MODULE MCFiles -------------------------------
(* Model checking of what the shell keeps in step with files: how changes of    *)
(* the configuration are seen, what it means once read, and the clock with the  *)
(* file of its zone. The three share no state here, so that a behaviour is      *)
(* about one of them: subject says whose the variables are.                    *)
EXTENDS ConfigWatcher, MCConfig, Clock

VARIABLE subject

filesVars == <<disk, watcher, reader, config, edits, written, settings, spent,
               wall, zone, editions, service, drawn, sets, subject>>

NoWatcher == disk = <<>> /\ watcher = <<>> /\ reader = <<>> /\ config = <<>> /\ edits = <<>>
NoSchema == written = <<>> /\ settings = <<>> /\ spent = <<>>
NoClock ==
    wall = <<>> /\ zone = <<>> /\ editions = <<>> /\ service = <<>> /\ drawn = <<>> /\ sets = <<>>

EachInit ==
    \/ subject = "watcher" /\ Init /\ NoSchema /\ NoClock
    \/ subject = "schema" /\ SettingsInit /\ NoWatcher /\ NoClock
    \/ subject = "clock" /\ ClockInit /\ NoWatcher /\ NoSchema

OfWatcher == subject = "watcher" /\ Next /\ UNCHANGED <<settingsVars, clockVars>>
OfSchema == subject = "schema" /\ SettingsNext /\ UNCHANGED <<vars, clockVars>>
OfClock == subject = "clock" /\ ClockNext /\ UNCHANGED <<vars, settingsVars>>

EachNext == (OfWatcher \/ OfSchema \/ OfClock) /\ UNCHANGED subject

\* The event loop runs, and so does the worker.
Reads == OfWatcher /\ Step /\ UNCHANGED subject

EachFairSpec == EachInit /\ [][EachNext]_filesVars /\ WF_filesVars(Reads)

\* The watches are well formed, and cover what would show the next change.
WatchesCover == subject = "watcher" => WellFormed

\* When nothing is left to report or to read, Config is what the files say, but for the
\* one way of losing an edit that the code has; and the clock shows the minute it is, but
\* for a zone that changes between two looks at it.
NoEditForgotten ==
    (subject = "watcher" => NoEditLostUnlessMissed) /\ (subject = "clock" => ShowsTheTime)

\* The values in force are what the files mean, and nothing they say goes unsaid.
ValuesInStep == subject = "schema" => SettingsInStep

\* When the edits end, so do the reads: renewing the watches never feeds itself.
ReadsSettle == <>[](subject = "watcher" => Quiet)
=============================================================================
