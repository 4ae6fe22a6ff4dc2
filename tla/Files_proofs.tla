----------------------------- MODULE Files_proofs -----------------------------
(* Proofs about what the shell keeps in step with files: ConfigWatcher, whose *)
(* watches cover what would show the next change of the disk and whose reads  *)
(* end with what the disk says; the clock, which shows the minute it is; and  *)
(* Config, in which is what the files of one read mean, and nothing besides.  *)
EXTENDS MCFiles, SequenceTheorems, NaturalsInduction, WellFoundedInduction, TLAPS

-----------------------------------------------------------------------------
(* What is watched for a theme, node by node.                                *)

\* The parts of the disk that must be there when others are.
LEMMA SoundIs ==
    ASSUME NEW d \in Disk
    PROVE  Sound(d) <=> /\ d.config.there => "dir" \in d.dirs
                        /\ "themes" \in d.dirs => "dir" \in d.dirs
                        /\ \A t \in Themes : d.themes[t] # 0 => "themes" \in d.dirs
<1>1. \A t \in Themes : t \notin {"none", "base", "dir", "config", "themes"}
  BY EditAssumption
<1>2. /\ Exists(d, "base") /\ (Exists(d, "dir") <=> "dir" \in d.dirs)
      /\ Exists(d, "themes") <=> "themes" \in d.dirs
      /\ Exists(d, "config") <=> d.config.there
      /\ \A t \in Themes : Exists(d, t) <=> d.themes[t] # 0
  BY <1>1 DEF Exists, Disk, Text, Texts
<1>3. /\ Parent("dir") = "base" /\ Parent("config") = "dir" /\ Parent("themes") = "dir"
      /\ \A t \in Themes : Parent(t) = "themes"
  BY <1>1 DEF Parent
<1> QED BY <1>1, <1>2, <1>3 DEF Sound, Node

\* The files of the two that are there, and the deepest directories above them.
LEMMA WantedIs ==
    ASSUME NEW d \in Disk, Sound(d), NEW theme \in Themes \cup {"none"}
    PROVE  /\ Wanted(d, theme) \subseteq Node
           /\ "config" \in Wanted(d, theme) <=> d.config.there
           /\ "dir" \in Wanted(d, theme) <=> "dir" \in d.dirs
           /\ "base" \in Wanted(d, theme) <=> "dir" \notin d.dirs
           /\ "themes" \in Wanted(d, theme) <=> theme # "none" /\ "themes" \in d.dirs
           /\ \A t \in Themes : t \in Wanted(d, theme) <=> t = theme /\ d.themes[t] # 0
<1>1. \A t \in Themes : t \notin {"none", "base", "dir", "config", "themes"}
  BY EditAssumption
<1>2. /\ Exists(d, "base") /\ (Exists(d, "dir") <=> "dir" \in d.dirs)
      /\ Exists(d, "themes") <=> "themes" \in d.dirs
      /\ Exists(d, "config") <=> d.config.there
      /\ \A t \in Themes : Exists(d, t) <=> d.themes[t] # 0
  BY <1>1 DEF Exists, Disk, Text, Texts
<1>3. /\ Parent("dir") = "base" /\ Parent("config") = "dir" /\ Parent("themes") = "dir"
      /\ \A t \in Themes : Parent(t) = "themes"
  BY <1>1 DEF Parent
<1>4. /\ d.config.there => "dir" \in d.dirs
      /\ "themes" \in d.dirs => "dir" \in d.dirs
      /\ \A t \in Themes : d.themes[t] # 0 => "themes" \in d.dirs
  BY SoundIs
<1>5. DeepestExistingDirectory(d, "config") = IF "dir" \in d.dirs THEN "dir" ELSE "base"
  BY <1>2, <1>3 DEF DeepestExistingDirectory
<1>6. \A t \in Themes : DeepestExistingDirectory(d, t) =
            IF "themes" \in d.dirs THEN "themes" ELSE IF "dir" \in d.dirs THEN "dir" ELSE "base"
  BY <1>1, <1>2, <1>3 DEF DeepestExistingDirectory
<1>7. \A m : m \in Around(d, "config") <=>
          (m = "config" /\ d.config.there) \/ m = (IF "dir" \in d.dirs THEN "dir" ELSE "base")
  BY <1>2, <1>5 DEF Around
<1>8. \A t \in Themes : \A m : m \in Around(d, t) <=>
          \/ m = t /\ d.themes[t] # 0
          \/ m = IF "themes" \in d.dirs THEN "themes" ELSE IF "dir" \in d.dirs THEN "dir" ELSE "base"
  BY <1>2, <1>6 DEF Around
<1>9. CASE theme = "none"
  BY <1>1, <1>7, <1>9 DEF Wanted, Node
<1>10. CASE theme \in Themes
  <2>1. \A m : m \in Wanted(d, theme) <=> m \in Around(d, "config") \/ m \in Around(d, theme)
    BY <1>1, <1>10 DEF Wanted
  <2> QED BY <1>1, <1>4, <1>7, <1>8, <1>10, <2>1 DEF Node
<1> QED BY <1>9, <1>10

\* Two sets of watches with the same members are one.
LEMMA WantedSame ==
    ASSUME NEW d \in Disk, Sound(d), NEW e \in Disk, Sound(e),
           NEW t \in Themes \cup {"none"}, NEW u \in Themes \cup {"none"},
           d.dirs = e.dirs, d.config.there = e.config.there,
           "themes" \in d.dirs => (t = "none" <=> u = "none"),
           \A s \in Themes : s = t /\ d.themes[s] # 0 <=> s = u /\ e.themes[s] # 0
    PROVE  Wanted(d, t) = Wanted(e, u)
<1>1. \A n \in Node : n \in Wanted(d, t) <=> n \in Wanted(e, u)
  BY WantedIs, EditAssumption DEF Node
<1> QED BY <1>1, WantedIs

-----------------------------------------------------------------------------
(* The invariant of ConfigWatcher.                                           *)

\* What was read of config.toml is what it says.
AsWritten(r, d) ==
    r.usable = d.config.usable /\ r.theme = d.config.theme /\ r.value = d.config.value

\* With nothing to report and no second read asked for, what was read is what the disk
\* says; but for a theme that is not watched yet, whose watches are then to be renewed.
ReadsTrue ==
    config.started /\ watcher.events = {} =>
        /\ reader.stage \in {"theme", "done"} /\ ~reader.again => AsWritten(reader.result, disk)
        /\ reader.stage = "done" /\ ~reader.again =>
              \/ reader.result.colour = Colour(disk, reader.result.theme)
              \/ Wanted(disk, reader.result.theme) # Wanted(disk, config.theme)
        /\ reader.stage = "idle" /\ ~reader.missed =>
              ~disk.config.usable \/ config.applied = OnDisk(disk)

WatcherInv ==
    TypeOK /\ NoBlindSpot /\ config.applied.theme = config.theme /\ ReadsTrue

\* The part of TypeOK that is about the watches.
Watches(w) ==
    /\ w \in Watcher /\ w.live \subseteq w.watched
    /\ w.watched \ w.live \subseteq w.events /\ w.events \subseteq w.watched

\* What has its type.
LEMMA Shape ==
    ASSUME TypeOK
    PROVE  /\ disk \in Disk /\ Sound(disk) /\ Watches(watcher)
           /\ reader \in Reader /\ reader.result \in Reading
           /\ reader.result.theme \in Themes \cup {"none"}
           /\ config \in Config /\ config.applied \in Reading
           /\ config.theme \in Themes \cup {"none"}
           /\ disk.config \in Text /\ disk.config.theme \in Themes \cup {"none"}
BY DEF TypeOK, Watches, Reader, Reading, Config, Disk, Text, Texts

\* The colour of a theme.
LEMMA ColourIs ==
    ASSUME NEW d \in Disk, NEW theme \in Themes \cup {"none"}
    PROVE  Colour(d, theme) \in Colours \cup {0}
BY DEF Colour, Disk

\* What a text and a colour yield.
LEMMA YieldsIs ==
    ASSUME NEW text \in Text, NEW colour \in Colours \cup {0}
    PROVE  Yields(text, colour) \in Reading
BY DEF Yields, Reading, Text, Texts

\* Renewed watches are those that are wanted, each of a present inode.
LEMMA Rewatching ==
    ASSUME NEW w, Watches(w), NEW d \in Disk, Sound(d), NEW theme \in Themes \cup {"none"}
    PROVE  LET v == Rewatch(w, d, theme)
           IN  /\ Watches(v)
               /\ v.events = {} => v.watched = Wanted(d, theme) /\ v.live = v.watched
               /\ v = w => w.watched = Wanted(d, theme)
               /\ v # w => v.events = {}
<1> DEFINE wanted == Wanted(d, theme)
           new == [watched |-> wanted, live |-> wanted, events |-> {}]
<1>1. wanted \subseteq Node
  BY WantedIs
<1>2. CASE w.watched = wanted
  BY <1>2 DEF Rewatch, Watches
<1>3. CASE w.watched # wanted
  <2>1. Rewatch(w, d, theme) = new
    BY <1>3 DEF Rewatch
  <2>2. new.watched = wanted /\ new.live = wanted /\ new.events = {} /\ new \in Watcher
    BY <1>1 DEF Watcher
  <2> QED BY <1>3, <2>1, <2>2 DEF Watches
<1> QED BY <1>2, <1>3

-----------------------------------------------------------------------------
(* The steps of the shell.                                                   *)

\* A read that is asked for while one runs is noted.
LEMMA Scheduling ==
    ASSUME NEW r \in Reader
    PROVE  /\ ScheduleRead(r) \in Reader
           /\ ScheduleRead(r).result = r.result
           /\ ScheduleRead(r).stage \in {"theme", "done"} => ScheduleRead(r).again
           /\ ScheduleRead(r).stage # "idle"
BY DEF ScheduleRead, Reader

\* The first watches, and a read.
LEMMA StartKeeps ==
    ASSUME WatcherInv, Start
    PROVE  WatcherInv'
<1>1. /\ Watches(watcher') /\ reader'.stage = "config" /\ reader' \in Reader
      /\ watcher'.events = {} =>
            watcher'.watched = Wanted(disk, config.theme) /\ watcher'.live = watcher'.watched
  <2>1. /\ watcher' = Rewatch(watcher, disk, config.theme)
        /\ reader' = [reader EXCEPT !.stage = "config", !.blocking = TRUE]
    BY DEF Start
  <2>2. /\ Watches(watcher) /\ disk \in Disk /\ Sound(disk) /\ reader \in Reader
        /\ config.theme \in Themes \cup {"none"}
    BY Shape DEF WatcherInv
  <2>3. reader'.stage = "config" /\ reader' \in Reader
    BY <2>1, <2>2 DEF Reader
  <2> QED BY <2>1, <2>2, <2>3, Rewatching
<1>2. config' \in Config /\ config'.theme = config.theme /\ config'.applied = config.applied
  BY Shape DEF WatcherInv, Start, Config
<1>3. disk' = disk /\ edits' = edits
  BY DEF Start
<1> QED BY <1>1, <1>2, <1>3 DEF WatcherInv, TypeOK, Watches, NoBlindSpot, ReadsTrue

\* The watches are renewed before the report is followed by a read.
LEMMA OnWatchedPathChangedKeeps ==
    ASSUME WatcherInv, OnWatchedPathChanged
    PROVE  WatcherInv'
<1>1. PICK n \in watcher.events :
          watcher' = Rewatch([watcher EXCEPT !.events = @ \ {n},
                                 !.watched = IF n \in watcher.live THEN @ ELSE @ \ {n}],
                             disk, config.theme)
  BY Zenon DEF OnWatchedPathChanged
<1> DEFINE left == [watcher EXCEPT !.events = @ \ {n},
                                   !.watched = IF n \in watcher.live THEN @ ELSE @ \ {n}]
<1>2. left \in Watcher /\ left.live = watcher.live /\ left.events = watcher.events \ {n}
      /\ left.watched = (IF n \in watcher.live THEN watcher.watched ELSE watcher.watched \ {n})
  BY Shape DEF WatcherInv, Watches, Watcher
<1>3. Watches(left)
  BY <1>2, Shape DEF WatcherInv, Watches
<1> HIDE DEF left
<1>4. watcher' = Rewatch(left, disk, config.theme)
  BY <1>1 DEF left
<1>5. /\ Watches(watcher')
      /\ watcher'.events = {} =>
            watcher'.watched = Wanted(disk, config.theme) /\ watcher'.live = watcher'.watched
  BY <1>3, <1>4, Shape, Rewatching DEF WatcherInv
<1>6. /\ reader' \in Reader /\ reader'.stage # "idle"
      /\ reader'.stage \in {"theme", "done"} => reader'.again
  BY Shape, Scheduling DEF WatcherInv, OnWatchedPathChanged
<1>7. disk' = disk /\ config' = config /\ edits' = edits
  BY DEF OnWatchedPathChanged
<1> QED BY <1>5, <1>6, <1>7 DEF WatcherInv, TypeOK, Watches, NoBlindSpot, ReadsTrue

\* A file read is what it says; one that names no theme has no colour.
LEMMA ReadConfigKeeps ==
    ASSUME WatcherInv, ReadConfig
    PROVE  WatcherInv'
<1>1. Yields(disk.config, 0) \in Reading
  BY Shape, YieldsIs DEF WatcherInv
<1>2. /\ reader' \in Reader /\ reader'.result = Yields(disk.config, 0)
      /\ reader'.stage = IF disk.config.usable /\ disk.config.theme # "none"
                         THEN "theme" ELSE "done"
  BY <1>1, Shape DEF WatcherInv, ReadConfig, Reader
<1>3. UNCHANGED <<disk, watcher, config, edits>>
  BY DEF ReadConfig
<1>4. AsWritten(reader'.result, disk) /\ reader'.result.colour = 0
  BY <1>2 DEF AsWritten, Yields
<1>5. reader'.stage = "done" => Colour(disk, reader'.result.theme) = 0
  BY <1>2, <1>4, Shape DEF WatcherInv, AsWritten, Text, Colour
<1> QED BY <1>2, <1>3, <1>4, <1>5 DEF WatcherInv, TypeOK, NoBlindSpot, ReadsTrue

\* The theme's file, read after config.toml.
LEMMA ReadThemeFileKeeps ==
    ASSUME WatcherInv, ReadThemeFile
    PROVE  WatcherInv'
<1> DEFINE colour == Colour(disk, reader.result.theme)
<1>1. colour \in Colours \cup {0}
  BY Shape, ColourIs DEF WatcherInv
<1>2. reader.result \in Reading
  BY Shape DEF WatcherInv
<1> HIDE DEF colour
<1> DEFINE result == [reader.result EXCEPT !.colour = colour]
<1>3. /\ result \in Reading /\ result.colour = colour
      /\ result.usable = reader.result.usable /\ result.theme = reader.result.theme
      /\ result.value = reader.result.value
  BY <1>1, <1>2 DEF Reading
<1>4. reader' = [reader EXCEPT !.stage = "done", !.result = result]
  BY DEF ReadThemeFile, colour
<1> HIDE DEF result
<1>5. /\ reader' \in Reader /\ reader'.result = result /\ reader'.stage = "done"
      /\ reader'.again = reader.again
  BY <1>3, <1>4, Shape DEF WatcherInv, Reader
<1>6. AsWritten(reader.result, disk) => AsWritten(reader'.result, disk)
  BY <1>3, <1>5 DEF AsWritten
<1>7. reader'.result.colour = Colour(disk, reader'.result.theme)
  BY <1>3, <1>5 DEF colour
<1>8. UNCHANGED <<disk, watcher, config, edits>> /\ reader.stage = "theme"
  BY DEF ReadThemeFile
<1> QED BY <1>5, <1>6, <1>7, <1>8 DEF WatcherInv, TypeOK, NoBlindSpot, ReadsTrue

\* A reading that is usable is what Config then holds.
LEMMA Applying ==
    ASSUME NEW c \in Config, NEW result \in Reading, c.applied.theme = c.theme
    PROVE  /\ Apply(c, result) \in Config
           /\ Apply(c, result).started = c.started
           /\ Apply(c, result).applied.theme = Apply(c, result).theme
           /\ result.usable => /\ Apply(c, result).applied = result
                               /\ Apply(c, result).theme = result.theme
           /\ ~result.usable => Apply(c, result) = c
BY DEF Apply, Config, Reading

\* What a reading says that is as written, and has the colour of its theme.
LEMMA ReadingIs ==
    ASSUME NEW d \in Disk, NEW r \in Reading, AsWritten(r, d), r.colour = Colour(d, r.theme)
    PROVE  r = OnDisk(d)
<1>1. r = [usable |-> r.usable, theme |-> r.theme, value |-> r.value, colour |-> r.colour]
  BY DEF Reading
<1> QED BY <1>1 DEF AsWritten, OnDisk, Yields

\* With nothing to report, what is applied is what the disk says, or the watches were
\* renewed for a theme that was not watched while it was read.
LEMMA ReadFinishedKeeps ==
    ASSUME WatcherInv, ReadFinished
    PROVE  WatcherInv'
<1> DEFINE result == reader.result
           applied == Apply(config, result)
           renewed == IF applied.theme = config.theme THEN watcher
                      ELSE Rewatch(watcher, disk, applied.theme)
           finished == [reader EXCEPT !.stage = "idle", !.blocking = FALSE, !.again = FALSE,
                                      !.missed = /\ renewed # watcher
                                                 /\ OnDisk(disk) # result]
<1>1. /\ reader.stage = "done" /\ config' = applied /\ watcher' = renewed
      /\ reader' = (IF reader.again THEN ScheduleRead(finished) ELSE finished)
      /\ disk' = disk /\ edits' = edits
  BY Zenon DEF ReadFinished
<1>2. /\ applied \in Config /\ applied.started = config.started
      /\ applied.applied.theme = applied.theme
      /\ result.usable => applied.applied = result /\ applied.theme = result.theme
      /\ ~result.usable => applied = config
  BY Shape, Applying DEF WatcherInv
<1> HIDE DEF applied
<1>3. applied.theme \in Themes \cup {"none"}
  BY <1>2 DEF Config
<1>4. /\ Watches(renewed)
      /\ applied.theme # config.theme /\ renewed.events = {} =>
            renewed.watched = Wanted(disk, applied.theme) /\ renewed.live = renewed.watched
      /\ renewed = watcher /\ applied.theme # config.theme =>
            watcher.watched = Wanted(disk, applied.theme)
      /\ renewed # watcher => renewed.events = {}
  BY <1>3, Shape, Rewatching DEF WatcherInv
<1>5. applied.theme = config.theme => renewed = watcher
  OBVIOUS
<1> HIDE DEF renewed
<1>6. /\ finished \in Reader /\ finished.stage = "idle"
      /\ finished.missed <=> renewed # watcher /\ OnDisk(disk) # result
  <2> DEFINE missed == renewed # watcher /\ OnDisk(disk) # result
  <2>1. missed \in BOOLEAN
    OBVIOUS
  <2> HIDE DEF missed
  <2>2. LET f == [reader EXCEPT !.stage = "idle", !.blocking = FALSE, !.again = FALSE,
                                !.missed = missed]
        IN  f \in Reader /\ f.stage = "idle" /\ f.missed = missed
    BY <2>1, Shape DEF WatcherInv, Reader
  <2> QED BY <2>2 DEF missed
<1> HIDE DEF finished
<1>7. TypeOK'
  BY <1>1, <1>2, <1>4, <1>6, Scheduling DEF WatcherInv, TypeOK, Watches
<1>8. NoBlindSpot'
  BY <1>1, <1>2, <1>4, <1>5 DEF WatcherInv, NoBlindSpot
<1>9. ReadsTrue'
  <2> SUFFICES ASSUME config.started, renewed.events = {}
               PROVE  /\ reader'.stage \in {"theme", "done"} => reader'.again
                      /\ reader'.stage = "idle" /\ ~reader'.missed =>
                            ~disk.config.usable \/ applied.applied = OnDisk(disk)
    BY <1>1, <1>2 DEF ReadsTrue
  <2>1. CASE reader.again
    BY <1>1, <1>6, <2>1, Scheduling
  <2>2. CASE ~reader.again
    <3>1. reader' = finished
      BY <1>1, <2>2
    <3>2. CASE renewed # watcher
      <4>1. result.usable
        BY <1>2, <1>5, <3>2
      <4> QED BY <1>2, <1>6, <3>1, <3>2, <4>1
    <3>3. CASE renewed = watcher
      <4>1. AsWritten(result, disk) /\
            \/ result.colour = Colour(disk, result.theme)
            \/ Wanted(disk, result.theme) # Wanted(disk, config.theme)
        BY <1>1, <2>2, <3>3 DEF WatcherInv, ReadsTrue
      <4>2. CASE ~result.usable
        BY <1>6, <3>1, <4>1, <4>2 DEF AsWritten
      <4>3. CASE result.usable
        <5>1. watcher.watched = Wanted(disk, config.theme)
          BY <3>3 DEF WatcherInv, NoBlindSpot
        <5>2. Wanted(disk, result.theme) = Wanted(disk, config.theme)
          BY <1>2, <1>4, <3>3, <4>3, <5>1
        <5>3. result = OnDisk(disk)
          BY <4>1, <5>2, Shape, ReadingIs DEF WatcherInv
        <5> QED BY <1>2, <1>6, <3>1, <4>3, <5>3
      <4> QED BY <4>2, <4>3
    <3> QED BY <3>2, <3>3
  <2> QED BY <2>1, <2>2
<1>10. config'.applied.theme = config'.theme
  BY <1>1, <1>2
<1> QED BY <1>7, <1>8, <1>9, <1>10 DEF WatcherInv

-----------------------------------------------------------------------------
(* The changes of the disk.                                                  *)

\* Inotify tells of every watch that a change touches, and a watch ends with its inode.
LEMMA Telling ==
    ASSUME NEW changed, NEW gone, Watches(watcher), Tell(changed, gone)
    PROVE  /\ Watches(watcher')
           /\ watcher'.events = {} =>
                 /\ watcher.events = {} /\ watcher.live \cap (changed \cup gone) = {}
                 /\ watcher'.watched = watcher.watched /\ watcher'.live = watcher.live
<1>1. /\ watcher'.watched = watcher.watched
      /\ watcher'.live = watcher.live \ gone
      /\ watcher'.events = watcher.events \cup (watcher.live \cap (changed \cup gone))
      /\ watcher' \in Watcher
  BY DEF Tell, Watches, Watcher
<1> QED BY <1>1 DEF Watches

\* A change that no watch reports: of themes that Config does not use, in a place that is
\* not watched for the one that it does.
Silent ==
    /\ disk'.dirs = disk.dirs /\ disk'.config = disk.config
    /\ \A t \in Themes : disk'.themes[t] # disk.themes[t] =>
          /\ t # config.theme /\ "themes" \in disk.dirs /\ "themes" \in disk'.dirs
          /\ config.theme = "none" \/ disk'.themes[t] # 0

\* A change that is reported, or is silent, leaves what holds.
LEMMA EditKeeps ==
    ASSUME WatcherInv, disk' \in Disk, Sound(disk)', Watches(watcher'),
           edits' \in 0..MaxEdits, UNCHANGED <<reader, config>>,
           config.started /\ watcher'.events = {} =>
              /\ watcher.events = {} /\ watcher'.watched = watcher.watched
              /\ watcher'.live = watcher.live /\ Silent
    PROVE  WatcherInv'
<1>1. TypeOK'
  BY DEF WatcherInv, TypeOK, Watches
<1>2. CASE ~(config.started /\ watcher'.events = {})
  BY <1>1, <1>2 DEF WatcherInv, NoBlindSpot, ReadsTrue
<1>3. CASE config.started /\ watcher'.events = {}
  <2>1. /\ watcher.events = {} /\ watcher'.watched = watcher.watched
        /\ watcher'.live = watcher.live /\ Silent
    BY <1>3
  <2>2. /\ disk \in Disk /\ Sound(disk) /\ config.theme \in Themes \cup {"none"}
        /\ reader.result.theme \in Themes \cup {"none"}
    BY Shape DEF WatcherInv
  <2>3. \A t \in Themes \cup {"none"} :
            (t \in Themes => disk'.themes[t] = disk.themes[t]) =>
                Wanted(disk', t) = Wanted(disk, t)
    BY <2>1, <2>2, WantedSame DEF Silent
  <2>4. Wanted(disk', config.theme) = Wanted(disk, config.theme)
    BY <2>1, <2>2, <2>3 DEF Silent
  <2>5. NoBlindSpot'
    BY <1>3, <2>1, <2>4 DEF WatcherInv, NoBlindSpot
  <2>6. ASSUME reader.stage = "done", ~reader.again,
               reader.result.colour # Colour(disk', reader.result.theme)
        PROVE  Wanted(disk', reader.result.theme) # Wanted(disk', config.theme)
    <3> DEFINE t == reader.result.theme
    <3>1. CASE Colour(disk', t) = Colour(disk, t)
      <4>1. Wanted(disk, t) # Wanted(disk, config.theme)
        BY <1>3, <2>1, <2>6, <3>1 DEF WatcherInv, ReadsTrue
      <4>2. t \in Themes => disk'.themes[t] = disk.themes[t]
        BY <3>1, EditAssumption DEF Colour
      <4> QED BY <2>2, <2>3, <2>4, <4>1, <4>2
    <3>2. CASE Colour(disk', t) # Colour(disk, t)
      <4>1. t \in Themes /\ disk'.themes[t] # disk.themes[t]
        BY <2>2, <3>2 DEF Colour
      <4>2. t # "none"
        BY <4>1, EditAssumption
      <4>3. /\ "themes" \in Wanted(disk', t)
            /\ t \in Wanted(disk', t) <=> disk'.themes[t] # 0
            /\ t \notin Wanted(disk', config.theme)
            /\ config.theme = "none" => "themes" \notin Wanted(disk', config.theme)
        BY <2>1, <2>2, <4>1, <4>2, WantedIs DEF Silent
      <4> QED BY <2>1, <4>1, <4>3 DEF Silent
    <3> QED BY <3>1, <3>2
  <2>7. ASSUME reader.stage = "idle", ~reader.missed
        PROVE  ~disk'.config.usable \/ config.applied = OnDisk(disk')
    <3>1. ~disk.config.usable \/ config.applied = OnDisk(disk)
      BY <1>3, <2>1, <2>7 DEF WatcherInv, ReadsTrue
    <3>2. CASE disk.config.usable
      <4>1. config.theme = disk.config.theme
        BY <3>1, <3>2 DEF WatcherInv, OnDisk, Yields
      <4>2. Colour(disk', disk.config.theme) = Colour(disk, disk.config.theme)
        BY <2>1, <2>2, <4>1 DEF Silent, Colour
      <4> QED BY <2>1, <3>1, <3>2, <4>2 DEF Silent, OnDisk
    <3> QED BY <2>1, <3>2 DEF Silent
  <2>8. AsWritten(reader.result, disk) => AsWritten(reader.result, disk')
    BY <2>1 DEF Silent, AsWritten
  <2>9. ReadsTrue'
    BY <1>3, <2>1, <2>6, <2>7, <2>8 DEF WatcherInv, ReadsTrue
  <2> QED BY <1>1, <2>5, <2>9 DEF WatcherInv
<1> QED BY <1>2, <1>3

\* What is watched while nothing is to report.
LEMMA WatchedIs ==
    ASSUME WatcherInv, config.started, watcher.events = {}
    PROVE  /\ "config" \in watcher.live <=> disk.config.there
           /\ "dir" \in watcher.live <=> "dir" \in disk.dirs
           /\ "base" \in watcher.live <=> "dir" \notin disk.dirs
           /\ "themes" \in watcher.live <=> config.theme # "none" /\ "themes" \in disk.dirs
           /\ \A t \in Themes : t \in watcher.live <=> t = config.theme /\ disk.themes[t] # 0
BY Shape, WantedIs DEF WatcherInv, NoBlindSpot

\* Every file and directory of the disk, and what each needs.
LEMMA DiskIs ==
    ASSUME WatcherInv
    PROVE  /\ disk \in Disk /\ Watches(watcher) /\ edits \in 0..MaxEdits
           /\ disk.dirs \subseteq {"dir", "themes"} /\ disk.config \in Text
           /\ disk.themes \in [Themes -> Colours \cup {0}]
           /\ disk.config.there => "dir" \in disk.dirs
           /\ "themes" \in disk.dirs => "dir" \in disk.dirs
           /\ \A t \in Themes : disk.themes[t] # 0 => "themes" \in disk.dirs
           /\ config.theme \in Themes \cup {"none"}
<1>1. disk \in Disk /\ Sound(disk) /\ Watches(watcher) /\ config.theme \in Themes \cup {"none"}
  BY Shape DEF WatcherInv
<1>2. edits \in 0..MaxEdits
  BY DEF WatcherInv, TypeOK
<1> QED BY <1>1, <1>2, SoundIs DEF Disk

\* An edit counts against the bound and is the disk's alone.
LEMMA Editing ==
    ASSUME WatcherInv, NEW d, Edit(d)
    PROVE  disk' = d /\ edits' \in 0..MaxEdits /\ UNCHANGED <<reader, config>>
BY DiskIs, EditAssumption DEF Edit

\* config.toml written, in place or by a new file: it or its directory is watched.
LEMMA SaveConfigKeeps ==
    ASSUME WatcherInv, SaveConfig
    PROVE  WatcherInv'
<1>1. PICK text \in {t \in Text : t.there} : Edit([disk EXCEPT !.config = text])
  BY Zenon DEF SaveConfig
<1>2. /\ disk' = [disk EXCEPT !.config = text] /\ edits' \in 0..MaxEdits
      /\ UNCHANGED <<reader, config>>
  BY <1>1, Editing
<1>3. /\ disk' \in Disk /\ disk'.config = text /\ disk'.dirs = disk.dirs
      /\ disk'.themes = disk.themes
  BY <1>1, <1>2, DiskIs DEF Disk
<1>4. Sound(disk)'
  BY <1>3, DiskIs, SoundIs DEF SaveConfig
<1>5. Watches(watcher') /\ (config.started => watcher'.events # {})
  <2>1. CASE disk.config.there /\ Tell({"config"}, {})
    BY <2>1, Telling, WatchedIs, DiskIs
  <2>2. CASE Tell({"dir"}, {"config"})
    BY <2>2, Telling, WatchedIs, DiskIs DEF SaveConfig
  <2> QED BY <2>1, <2>2, Zenon DEF SaveConfig
<1> QED BY <1>2, <1>3, <1>4, <1>5, EditKeeps

\* config.toml removed: it was watched.
LEMMA RemoveConfigKeeps ==
    ASSUME WatcherInv, RemoveConfig
    PROVE  WatcherInv'
<1>1. /\ disk' = [disk EXCEPT !.config = Empty] /\ edits' \in 0..MaxEdits
      /\ UNCHANGED <<reader, config>>
  BY Editing DEF RemoveConfig
<1>2. Empty \in Text /\ ~Empty.there
  BY EditAssumption DEF Empty, Text, Texts
<1>3. /\ disk' \in Disk /\ disk'.config = Empty /\ disk'.dirs = disk.dirs
      /\ disk'.themes = disk.themes
  BY <1>1, <1>2, DiskIs DEF Disk
<1>4. Sound(disk)'
  BY <1>2, <1>3, DiskIs, SoundIs
<1>5. Watches(watcher') /\ (config.started => watcher'.events # {})
  BY Telling, WatchedIs, DiskIs DEF RemoveConfig
<1> QED BY <1>1, <1>3, <1>4, <1>5, EditKeeps

\* A theme written: silent if it is not the one in use.
LEMMA SaveThemeKeeps ==
    ASSUME WatcherInv, SaveTheme
    PROVE  WatcherInv'
<1>1. PICK theme \in Themes, colour \in Colours :
          /\ Edit([disk EXCEPT !.themes[theme] = colour])
          /\ \/ disk.themes[theme] # 0 /\ Tell({theme}, {})
             \/ Tell({"themes"}, {theme})
  BY Zenon DEF SaveTheme
<1>2. /\ disk' = [disk EXCEPT !.themes[theme] = colour] /\ edits' \in 0..MaxEdits
      /\ UNCHANGED <<reader, config>>
  BY <1>1, Editing
<1>3. /\ disk' \in Disk /\ disk'.config = disk.config /\ disk'.dirs = disk.dirs
      /\ disk'.themes = [disk.themes EXCEPT ![theme] = colour]
  BY <1>2, DiskIs DEF Disk
<1>4. "themes" \in disk.dirs /\ colour # 0
  BY EditAssumption DEF SaveTheme
<1>5. Sound(disk)'
  BY <1>3, <1>4, DiskIs, SoundIs
<1>6. \A t \in Themes : t # theme => disk'.themes[t] = disk.themes[t]
  BY <1>3, DiskIs
<1>7. disk'.themes[theme] = colour
  BY <1>3, DiskIs
<1>8. /\ Watches(watcher')
      /\ config.started /\ watcher'.events = {} =>
            /\ watcher.events = {} /\ watcher'.watched = watcher.watched
            /\ watcher'.live = watcher.live /\ theme # config.theme
  <2>1. CASE disk.themes[theme] # 0 /\ Tell({theme}, {})
    BY <2>1, Telling, WatchedIs, DiskIs
  <2>2. CASE Tell({"themes"}, {theme})
    BY <1>4, <2>2, Telling, WatchedIs, DiskIs, EditAssumption
  <2> QED BY <1>1, <2>1, <2>2
<1>9. theme # config.theme => Silent
  BY <1>3, <1>4, <1>6, <1>7 DEF Silent
<1> QED BY <1>2, <1>3, <1>5, <1>8, <1>9, EditKeeps

\* A theme removed: silent if none is in use.
LEMMA RemoveThemeKeeps ==
    ASSUME WatcherInv, RemoveTheme
    PROVE  WatcherInv'
<1>1. PICK theme \in Themes :
          /\ disk.themes[theme] # 0
          /\ Edit([disk EXCEPT !.themes[theme] = 0])
          /\ Tell({"themes"}, {theme})
  BY Zenon DEF RemoveTheme
<1>2. /\ disk' = [disk EXCEPT !.themes[theme] = 0] /\ edits' \in 0..MaxEdits
      /\ UNCHANGED <<reader, config>>
  BY <1>1, Editing
<1>3. /\ disk' \in Disk /\ disk'.config = disk.config /\ disk'.dirs = disk.dirs
      /\ disk'.themes = [disk.themes EXCEPT ![theme] = 0]
  BY <1>2, DiskIs DEF Disk
<1>4. "themes" \in disk.dirs
  BY <1>1, DiskIs
<1>5. Sound(disk)'
  BY <1>3, <1>4, DiskIs, SoundIs
<1>6. \A t \in Themes : t # theme => disk'.themes[t] = disk.themes[t]
  BY <1>3, DiskIs
<1>7. /\ Watches(watcher')
      /\ config.started /\ watcher'.events = {} =>
            /\ watcher.events = {} /\ watcher'.watched = watcher.watched
            /\ watcher'.live = watcher.live /\ config.theme = "none"
  BY <1>1, <1>4, Telling, WatchedIs, DiskIs
<1>8. config.theme = "none" => Silent
  BY <1>3, <1>4, <1>6, EditAssumption DEF Silent
<1> QED BY <1>2, <1>3, <1>5, <1>7, <1>8, EditKeeps

\* A directory made in one that is watched.
LEMMA MakeDirectoryKeeps ==
    ASSUME WatcherInv, MakeDirectory
    PROVE  WatcherInv'
<1>1. PICK n \in {"dir", "themes"} \ disk.dirs :
          /\ Exists(disk, Parent(n))
          /\ Edit([disk EXCEPT !.dirs = @ \cup {n}])
          /\ Tell({Parent(n)}, {})
  BY Zenon DEF MakeDirectory
<1>2. /\ disk' = [disk EXCEPT !.dirs = @ \cup {n}] /\ edits' \in 0..MaxEdits
      /\ UNCHANGED <<reader, config>>
  BY <1>1, Editing
<1>3. /\ disk' \in Disk /\ disk'.config = disk.config /\ disk'.dirs = disk.dirs \cup {n}
      /\ disk'.themes = disk.themes
  BY <1>2, DiskIs DEF Disk
<1>4. /\ n = "dir" => Parent(n) = "base"
      /\ n = "themes" => Parent(n) = "dir" /\ "dir" \in disk.dirs
  <2>1. \A t \in Themes : t \notin {"none", "base", "dir", "config", "themes"}
    BY EditAssumption
  <2>2. Parent("dir") = "base" /\ Parent("themes") = "dir"
    BY <2>1 DEF Parent
  <2>3. Exists(disk, "dir") <=> "dir" \in disk.dirs
    BY <2>1, DiskIs DEF Exists
  <2> QED BY <1>1, <2>2, <2>3
<1>5. Sound(disk)'
  BY <1>3, <1>4, DiskIs, SoundIs
<1>6. Watches(watcher') /\ (config.started => watcher'.events # {})
  BY <1>1, <1>4, Telling, WatchedIs, DiskIs
<1> QED BY <1>2, <1>3, <1>5, <1>6, EditKeeps

\* themes/ removed with what is in it: the directory above is watched.
LEMMA RemoveThemesKeeps ==
    ASSUME WatcherInv, RemoveThemes
    PROVE  WatcherInv'
<1>1. /\ disk' = [disk EXCEPT !.dirs = @ \ {"themes"}, !.themes = [t \in Themes |-> 0]]
      /\ edits' \in 0..MaxEdits /\ UNCHANGED <<reader, config>>
  BY Editing DEF RemoveThemes
<1>2. /\ disk' \in Disk /\ disk'.config = disk.config /\ disk'.dirs = disk.dirs \ {"themes"}
      /\ disk'.themes = [t \in Themes |-> 0]
  BY <1>1, DiskIs DEF Disk
<1>3. Sound(disk)'
  BY <1>2, DiskIs, SoundIs
<1>4. Watches(watcher') /\ (config.started => watcher'.events # {})
  BY Telling, WatchedIs, DiskIs DEF RemoveThemes
<1> QED BY <1>1, <1>2, <1>3, <1>4, EditKeeps

\* The whole directory removed: it is watched.
LEMMA RemoveDirectoryKeeps ==
    ASSUME WatcherInv, RemoveDirectory
    PROVE  WatcherInv'
<1>1. /\ disk' = [dirs |-> {}, config |-> Empty, themes |-> [t \in Themes |-> 0]]
      /\ edits' \in 0..MaxEdits /\ UNCHANGED <<reader, config>>
  BY Editing DEF RemoveDirectory
<1>2. Empty \in Text /\ ~Empty.there
  BY EditAssumption DEF Empty, Text, Texts
<1>3. disk' \in Disk
  BY <1>1, <1>2 DEF Disk
<1>4. Sound(disk)'
  BY <1>1, <1>2, <1>3, SoundIs
<1>5. Watches(watcher') /\ (config.started => watcher'.events # {})
  BY Telling, WatchedIs, DiskIs DEF RemoveDirectory, Node
<1> QED BY <1>1, <1>3, <1>4, <1>5, EditKeeps

-----------------------------------------------------------------------------
(* ConfigWatcher.                                                            *)

\* Before start() nothing is watched and nothing was read.
LEMMA WatcherBegins ==
    ASSUME Init
    PROVE  WatcherInv
<1>1. 0 \in 0..MaxEdits /\ Yields(Empty, 0) \in Reading /\ Yields(Empty, 0).theme = "none"
  BY EditAssumption DEF Yields, Empty, Reading
<1> QED BY <1>1 DEF Init, WatcherInv, TypeOK, NoBlindSpot, ReadsTrue, Watcher, Reader, Config

\* Every step of the watcher, the reader and the disk keeps it.
LEMMA WatcherKeeps ==
    ASSUME WatcherInv, [Next]_vars
    PROVE  WatcherInv'
<1>1. CASE Start
  BY <1>1, StartKeeps
<1>2. CASE OnWatchedPathChanged
  BY <1>2, OnWatchedPathChangedKeeps
<1>3. CASE ReadConfig
  BY <1>3, ReadConfigKeeps
<1>4. CASE ReadThemeFile
  BY <1>4, ReadThemeFileKeeps
<1>5. CASE ReadFinished
  BY <1>5, ReadFinishedKeeps
<1>6. CASE SaveConfig
  BY <1>6, SaveConfigKeeps
<1>7. CASE RemoveConfig
  BY <1>7, RemoveConfigKeeps
<1>8. CASE SaveTheme
  BY <1>8, SaveThemeKeeps
<1>9. CASE RemoveTheme
  BY <1>9, RemoveThemeKeeps
<1>10. CASE MakeDirectory
  BY <1>10, MakeDirectoryKeeps
<1>11. CASE RemoveThemes
  BY <1>11, RemoveThemesKeeps
<1>12. CASE RemoveDirectory
  BY <1>12, RemoveDirectoryKeeps
<1>13. CASE UNCHANGED vars
  BY <1>13 DEF vars, WatcherInv, TypeOK, NoBlindSpot, ReadsTrue
<1> QED BY <1>1, <1>2, <1>3, <1>4, <1>5, <1>6, <1>7, <1>8, <1>9, <1>10, <1>11, <1>12, <1>13
        DEF Next, Step

\* What it gives of the watches and of what is in force.
LEMMA WatcherGives ==
    ASSUME WatcherInv
    PROVE  WellFormed /\ NoEditLostUnlessMissed
<1>1. NoEditLostUnlessMissed
  BY DEF WatcherInv, ReadsTrue, NoEditLostUnlessMissed, NoEditLost, Quiet
<1> QED BY <1>1 DEF WatcherInv, WellFormed

-----------------------------------------------------------------------------
(* The minutes of the clock.                                                 *)

\* Quotient and remainder.
LEMMA DivMod ==
    ASSUME NEW w \in Nat, NEW m \in Nat \ {0}
    PROVE  /\ w % m \in 0..m - 1 /\ w \div m \in Nat
           /\ w = m * (w \div m) + (w % m)
BY SMTT(20)

\* Quotient and remainder are the only such numbers.
LEMMA DivModIs ==
    ASSUME NEW w \in Nat, NEW m \in Nat \ {0}, NEW q \in Nat, NEW r \in 0..m - 1,
           w = m * q + r
    PROVE  w \div m = q /\ w % m = r
<1>1. /\ w % m \in 0..m - 1 /\ w \div m \in Nat
      /\ w = m * (w \div m) + (w % m)
  BY DivMod
<1> DEFINE p == w \div m
           s == w % m
<1>2. s \in 0..m - 1 /\ p \in Nat /\ m * p + s = m * q + r
  BY <1>1
<1> HIDE DEF p, s
<1>3. p = q
  <2>1. CASE p < q
    <3>1. PICK k \in Nat : q = p + 1 + k
      <4>1. q - p - 1 \in Nat /\ q = p + 1 + (q - p - 1)
        BY <2>1, <1>2
      <4> QED BY <4>1
    <3>2. m * q = m * p + m + m * k
      BY <3>1, <1>2, SMTT(20)
    <3>3. m * k \in Nat /\ m * p \in Nat
      BY <1>2, SMTT(20)
    <3> QED BY <3>2, <3>3, <1>2
  <2>2. CASE q < p
    <3>1. PICK k \in Nat : p = q + 1 + k
      <4>1. p - q - 1 \in Nat /\ p = q + 1 + (p - q - 1)
        BY <2>2, <1>2
      <4> QED BY <4>1
    <3>2. m * p = m * q + m + m * k
      BY <3>1, <1>2, SMTT(20)
    <3>3. m * k \in Nat /\ m * q \in Nat
      BY <1>2, SMTT(20)
    <3> QED BY <3>2, <3>3, <1>2
  <2> QED BY <2>1, <2>2, <1>2
<1>4. s = r
  BY <1>2, <1>3, SMTT(20)
<1> QED BY <1>3, <1>4 DEF p, s

\* A tick within a minute.
LEMMA Ticking ==
    ASSUME NEW w \in 0..Minute * Hours - 1, (w % Minute) + 1 < Minute
    PROVE  /\ (w + 1) % (Minute * Hours) = w + 1
           /\ (w + 1) \div Minute = w \div Minute
           /\ (w + 1) % Minute = (w % Minute) + 1
<1> DEFINE q == w \div Minute
           r == w % Minute
<1>0. Minute * Hours \in Nat /\ w \in Nat
  BY ClockAssumption, SMTT(20)
<1>1. r \in 0..Minute - 1 /\ q \in Nat /\ w = Minute * q + r
  BY ClockAssumption, DivMod, <1>0
<1>2. r + 1 < Minute
  OBVIOUS
<1> HIDE DEF q, r
<1>3. q < Hours
  <2> SUFFICES ASSUME q >= Hours PROVE  FALSE
    BY ClockAssumption, <1>1
  <2>1. q - Hours \in Nat /\ q = Hours + (q - Hours)
    BY ClockAssumption, <1>1
  <2>2. Minute * q = Minute * Hours + Minute * (q - Hours)
    BY ClockAssumption, <1>1, <2>1, SMTT(20)
  <2>3. Minute * (q - Hours) \in Nat
    BY ClockAssumption, <2>1, SMTT(20)
  <2> QED BY <2>2, <2>3, <1>0, <1>1
<1>4. w + 1 < Minute * Hours
  <2>1. Hours - q - 1 \in Nat /\ Hours = q + 1 + (Hours - q - 1)
    BY ClockAssumption, <1>1, <1>3
  <2>2. Minute * Hours = Minute * q + Minute + Minute * (Hours - q - 1)
    BY ClockAssumption, <1>1, <2>1, SMTT(20)
  <2>3. Minute * (Hours - q - 1) \in Nat /\ Minute * q \in Nat
    BY ClockAssumption, <2>1, <1>1, SMTT(20)
  <2> QED BY <2>2, <2>3, <1>0, <1>1, <1>2, ClockAssumption
<1>5. (w + 1) \div Minute = q /\ (w + 1) % Minute = r + 1
  <2>1. w + 1 = Minute * q + (r + 1) /\ r + 1 \in 0..Minute - 1 /\ w + 1 \in Nat
    BY <1>0, <1>1, <1>2, ClockAssumption, SMTT(20)
  <2> QED BY <2>1, <1>1, ClockAssumption, DivModIs
<1>6. (w + 1) % (Minute * Hours) = w + 1
  BY <1>0, <1>4, SMTT(20)
<1> QED BY <1>5, <1>6 DEF q, r

-----------------------------------------------------------------------------
(* The invariant of the clock.                                               *)

\* What is drawn is the minute by the zone that the service noted last, until a change of
\* the zone is announced or the clock is set.
DrawnAsNoted ==
    /\ service.watching /\ ~service.wasSet /\ service.stage # "changed"
    /\ drawn.timer > 0 /\ ~drawn.ahead
    => /\ drawn.minute = (wall \div Minute + service.identity[2]) % Hours
       /\ drawn.timer = Minute - (wall % Minute)

\* A watched file that goes reports it.
EndIsTold == service.listed /\ service.inode = "gone" => "file" \in service.events

\* The file watched is the one of the zone noted, unless a change was missed.
WatchedIsNoted ==
    ~service.missed /\ service.stage # "changed" =>
        \/ service.inode = service.identity[1]
        \/ service.inode = "gone" /\ service.identity[1] # "none"

\* Between noting the zone and renewing the watches a new link is reported.
LinkIsTold ==
    service.stage # "idle" /\ "directory" \notin service.events => service.identity[1] = zone

\* With nothing to report, the zone noted is the zone there is.
NotedIsTrue ==
    service.events = {} =>
        /\ service.stage # "idle" /\ service.listed = (zone # "none") /\ service.inode = zone
              => service.identity = ZoneIdentity
        /\ service.stage = "idle" /\ ~service.missed
              => /\ service.identity = ZoneIdentity
                 /\ service.listed = (zone # "none") /\ service.inode = zone

ClockInv ==
    /\ ClockTypeOK /\ editions \in [Zones -> 0..sets]
    /\ DrawnAsNoted /\ EndIsTold /\ WatchedIsNoted /\ LinkIsTold /\ NotedIsTrue

\* What has its type.
LEMMA ClockShape ==
    ASSUME ClockInv
    PROVE  /\ wall \in 0..Minute * Hours - 1 /\ wall \in Nat /\ Minute * Hours \in Nat \ {0}
           /\ zone \in Zones \cup {"none"}
           /\ sets \in 0..MaxSets /\ editions \in [Zones -> 0..sets]
           /\ service \in Service /\ drawn \in Drawn
           /\ ZoneIdentity \in (Zones \cup {"none"}) \X (0..MaxSets)
           /\ ZoneIdentity[1] = zone
<1>1. Minute * Hours \in Nat \ {0}
  BY ClockAssumption, SMTT(20)
<1>2. /\ wall \in 0..Minute * Hours - 1 /\ zone \in Zones \cup {"none"}
      /\ sets \in 0..MaxSets /\ editions \in [Zones -> 0..sets]
      /\ service \in Service /\ drawn \in Drawn
  BY DEF ClockInv, ClockTypeOK
<1>3. IF zone = "none" THEN 0 \in 0..MaxSets ELSE editions[zone] \in 0..MaxSets
  BY <1>2, ClockAssumption
<1>4. /\ ZoneIdentity \in (Zones \cup {"none"}) \X (0..MaxSets)
      /\ ZoneIdentity[1] = zone
  BY <1>2, <1>3 DEF ZoneIdentity
<1> QED BY <1>1, <1>2, <1>4

\* The minute drawn is the minute it is, and the timer runs out at its end.
LEMMA Refreshing ==
    ASSUME ClockInv, Refresh
    PROVE  /\ drawn' \in Drawn
           /\ drawn'.minute = (wall \div Minute + ZoneIdentity[2]) % Hours
           /\ drawn'.timer = Minute - (wall % Minute) /\ drawn'.timer > 0
           /\ drawn'.ahead <=> ZoneIdentity # service.identity
<1>1. wall % Minute \in 0..Minute - 1 /\ wall \div Minute \in Nat
  BY ClockShape, ClockAssumption, DivMod
<1>2. ZoneIdentity[2] \in Nat
  BY ClockShape, ClockAssumption
<1>3. MinuteNow \in 0..Hours - 1
  <2>1. wall \div Minute + ZoneIdentity[2] \in Nat
    BY <1>1, <1>2
  <2>2. (wall \div Minute + ZoneIdentity[2]) % Hours \in 0..Hours - 1
    BY <2>1, ClockAssumption, DivMod
  <2> QED BY <2>2 DEF MinuteNow
<1>4. (ZoneIdentity # service.identity) \in BOOLEAN
  OBVIOUS
<1>5. drawn' \in Drawn
  BY <1>1, <1>3, <1>4, ClockAssumption DEF Refresh, Drawn
<1>6. Minute - (wall % Minute) > 0
  BY <1>1, ClockAssumption
<1> QED BY <1>5, <1>6 DEF Refresh, MinuteNow

-----------------------------------------------------------------------------
(* The steps of the clock.                                                   *)

\* The end of the minute.
LEMMA OnTriggeredKeeps ==
    ASSUME ClockInv, OnTriggered
    PROVE  ClockInv'
<1>1. /\ UNCHANGED <<wall, zone, editions, service, sets>> /\ ZoneIdentity' = ZoneIdentity
  BY DEF OnTriggered, ZoneIdentity
<1>2. /\ drawn' \in Drawn
      /\ drawn'.minute = (wall \div Minute + ZoneIdentity[2]) % Hours
      /\ drawn'.timer = Minute - (wall % Minute) /\ drawn'.timer > 0
      /\ drawn'.ahead <=> ZoneIdentity # service.identity
  BY Refreshing DEF OnTriggered
<1> QED BY <1>1, <1>2 DEF ClockInv, ClockTypeOK, DrawnAsNoted, EndIsTold, WatchedIsNoted,
                          LinkIsTold, NotedIsTrue

\* The clock was set.
LEMMA HandleClockFdKeeps ==
    ASSUME ClockInv, HandleClockFd
    PROVE  ClockInv'
<1>1. /\ UNCHANGED <<wall, zone, editions, sets>> /\ ZoneIdentity' = ZoneIdentity
  BY DEF HandleClockFd, ZoneIdentity
<1>2. /\ drawn' \in Drawn
      /\ drawn'.minute = (wall \div Minute + ZoneIdentity[2]) % Hours
      /\ drawn'.timer = Minute - (wall % Minute) /\ drawn'.timer > 0
      /\ drawn'.ahead <=> ZoneIdentity # service.identity
  BY Refreshing DEF HandleClockFd
<1>3. /\ service' \in Service /\ service'.watching = service.watching
      /\ service'.events = service.events /\ service'.listed = service.listed
      /\ service'.inode = service.inode /\ service'.identity = service.identity
      /\ service'.stage = service.stage /\ service'.missed = service.missed
  BY ClockShape DEF HandleClockFd, Service
<1> QED BY <1>1, <1>2, <1>3 DEF ClockInv, ClockTypeOK, DrawnAsNoted, EndIsTold,
                                WatchedIsNoted, LinkIsTold, NotedIsTrue

\* A report: the zone is noted, and the watch of a file that is gone is given up.
LEMMA HandleZoneChangedKeeps ==
    ASSUME ClockInv, HandleZoneChanged
    PROVE  ClockInv'
<1>1. PICK event \in service.events :
          service' = [service EXCEPT
              !.events = @ \ {event},
              !.listed = @ /\ ~(event = "file" /\ service.inode = "gone"),
              !.identity = ZoneIdentity,
              !.stage = IF ZoneIdentity = service.identity THEN "same" ELSE "changed"]
  BY Zenon DEF HandleZoneChanged
<1>2. /\ UNCHANGED <<wall, zone, editions, drawn, sets>> /\ ZoneIdentity' = ZoneIdentity
      /\ service.stage = "idle"
  BY DEF HandleZoneChanged, ZoneIdentity
<1> DEFINE listed == service.listed /\ ~(event = "file" /\ service.inode = "gone")
<1>3. listed \in BOOLEAN
  BY ClockShape DEF Service
<1> HIDE DEF listed
<1>4. service' = [service EXCEPT
              !.events = @ \ {event}, !.listed = listed, !.identity = ZoneIdentity,
              !.stage = IF ZoneIdentity = service.identity THEN "same" ELSE "changed"]
  BY <1>1 DEF listed
<1>5. /\ service' \in Service /\ service'.watching = service.watching
      /\ service'.wasSet = service.wasSet /\ service'.inode = service.inode
      /\ service'.events = service.events \ {event} /\ service'.listed = listed
      /\ service'.identity = ZoneIdentity /\ service'.missed = service.missed
      /\ service'.stage = IF ZoneIdentity = service.identity THEN "same" ELSE "changed"
  BY <1>3, <1>4, ClockShape DEF Service
<1>6. ZoneIdentity[1] = zone
  BY ClockShape
<1>7. ClockTypeOK' /\ (editions \in [Zones -> 0..sets])'
  BY <1>2, <1>5 DEF ClockInv, ClockTypeOK
<1>8. DrawnAsNoted'
  BY <1>2, <1>5 DEF ClockInv, DrawnAsNoted
<1>9. EndIsTold'
  BY <1>5 DEF ClockInv, EndIsTold, listed
<1>10. WatchedIsNoted' /\ LinkIsTold' /\ NotedIsTrue'
  BY <1>2, <1>5, <1>6 DEF ClockInv, WatchedIsNoted, LinkIsTold, NotedIsTrue
<1> QED BY <1>7, <1>8, <1>9, <1>10 DEF ClockInv

\* The watches, renewed or left.
LEMMA RewatchingZone ==
    ASSUME ClockInv, NEW force \in BOOLEAN
    PROVE  LET r == RewatchZone(service, force)
           IN  /\ r \in Service /\ r.watching = service.watching /\ r.wasSet = service.wasSet
               /\ r.identity = service.identity /\ r.stage = service.stage
               /\ r.missed = service.missed
               /\ \/ r = service /\ ~force /\ service.listed = (zone # "none")
                  \/ r.listed = (zone # "none") /\ r.inode = zone /\ r.events = {}
<1> DEFINE listed == zone # "none"
<1>1. listed \in BOOLEAN
  OBVIOUS
<1> HIDE DEF listed
<1>2. LET r == [service EXCEPT !.listed = listed, !.inode = zone, !.events = {}]
      IN  /\ r \in Service /\ r.watching = service.watching /\ r.wasSet = service.wasSet
          /\ r.identity = service.identity /\ r.stage = service.stage
          /\ r.missed = service.missed
          /\ r.listed = listed /\ r.inode = zone /\ r.events = {}
  BY <1>1, ClockShape DEF Service
<1> QED BY <1>2, ClockShape DEF RewatchZone, Rewatched, listed

\* The watches renewed for another zone, or for a file that is another, and the change
\* announced; whatever renewing them lost is a change that was missed.
LEMMA ZoneHandledKeeps ==
    ASSUME ClockInv, ZoneHandled
    PROVE  ClockInv'
<1> DEFINE force == service.stage = "changed"
           renewed == RewatchZone(service, force)
           lost == renewed # service /\ ZoneIdentity # service.identity
           missed == lost \/ (service.missed /\ service.stage = "same")
<1>1. /\ renewed \in Service /\ renewed.watching = service.watching
      /\ renewed.wasSet = service.wasSet
      /\ renewed.identity = service.identity /\ renewed.stage = service.stage
      /\ renewed.missed = service.missed
      /\ \/ renewed = service /\ ~force /\ service.listed = (zone # "none")
         \/ renewed.listed = (zone # "none") /\ renewed.inode = zone /\ renewed.events = {}
  <2>1. force \in BOOLEAN
    OBVIOUS
  <2> HIDE DEF force
  <2> QED BY <2>1, RewatchingZone
<1>2. /\ UNCHANGED <<wall, zone, editions, sets>> /\ ZoneIdentity' = ZoneIdentity
      /\ service.stage # "idle"
      /\ IF service.stage = "changed" THEN Refresh ELSE UNCHANGED drawn
  BY DEF ZoneHandled, ZoneIdentity
<1>3. service' = [renewed EXCEPT !.stage = "idle", !.missed = missed]
  <2>1. renewed.missed = service.missed
    BY <1>1
  <2>2. service' = [renewed EXCEPT !.stage = "idle",
                        !.missed = lost \/ (renewed.missed /\ service.stage = "same")]
    BY <1>1 DEF ZoneHandled, Service
  <2> QED BY <2>1, <2>2
<1>4. missed \in BOOLEAN
  BY ClockShape DEF Service
<1>5. missed <=> \/ renewed # service /\ ZoneIdentity # service.identity
                 \/ service.missed /\ service.stage = "same"
  OBVIOUS
<1> HIDE DEF renewed, missed
<1>6. /\ service' \in Service /\ service'.watching = service.watching
      /\ service'.wasSet = service.wasSet /\ service'.stage = "idle"
      /\ service'.identity = service.identity /\ service'.missed = missed
      /\ service'.listed = renewed.listed /\ service'.inode = renewed.inode
      /\ service'.events = renewed.events
  BY <1>1, <1>3, <1>4 DEF Service
<1>7. service.stage \in {"same", "changed"}
  BY <1>2, ClockShape DEF Service
<1>8. /\ drawn' \in Drawn
      /\ service.stage = "same" => drawn' = drawn
      /\ service.stage = "changed" =>
            /\ drawn'.minute = (wall \div Minute + ZoneIdentity[2]) % Hours
            /\ drawn'.timer = Minute - (wall % Minute)
            /\ drawn'.ahead <=> ZoneIdentity # service.identity
  BY <1>2, <1>7, Refreshing, ClockShape
<1>9. ClockTypeOK' /\ (editions \in [Zones -> 0..sets])'
  BY <1>2, <1>6, <1>8 DEF ClockInv, ClockTypeOK
<1>10. DrawnAsNoted'
  BY <1>2, <1>6, <1>7, <1>8 DEF ClockInv, DrawnAsNoted
<1>11. zone # "gone"
  BY ClockShape, ClockAssumption
<1>12. EndIsTold' /\ LinkIsTold'
  BY <1>1, <1>6, <1>11 DEF ClockInv, EndIsTold, LinkIsTold
<1>13. ASSUME renewed.events = {}, renewed = service, force \/ ~service.missed
       PROVE  service.identity = ZoneIdentity
  <2> SUFFICES ASSUME service.inode # zone
               PROVE  FALSE
    BY <1>1, <1>2, <1>13 DEF ClockInv, NotedIsTrue
  <2>1. /\ ~service.missed /\ service.listed = (zone # "none") /\ service.events = {}
    BY <1>1, <1>13
  <2>2. service.stage # "changed"
    BY <1>1, <1>13
  <2>3. service.identity[1] = zone
    BY <1>2, <2>1 DEF ClockInv, LinkIsTold
  <2>4. service.inode = "gone" /\ zone # "none"
    BY <2>1, <2>2, <2>3 DEF ClockInv, WatchedIsNoted
  <2> QED BY <2>1, <2>4 DEF ClockInv, EndIsTold
<1>14. ASSUME ~missed
       PROVE  \/ service'.inode = service'.identity[1]
              \/ service'.inode = "gone" /\ service'.identity[1] # "none"
  <2>1. CASE renewed = service
    <3>1. CASE service.stage = "changed"
      <4>1. renewed.events = {} /\ renewed.inode = zone
        BY <1>1, <2>1, <3>1
      <4> QED BY <1>6, <1>13, <2>1, <3>1, <4>1, ClockShape
    <3>2. CASE service.stage = "same"
      BY <1>5, <1>6, <1>14, <2>1, <3>2 DEF ClockInv, WatchedIsNoted
    <3> QED BY <1>7, <3>1, <3>2
  <2>2. CASE renewed # service
    BY <1>1, <1>5, <1>6, <1>14, <2>2, ClockShape
  <2> QED BY <2>1, <2>2
<1>15. ASSUME ~missed, renewed.events = {}
       PROVE  /\ service'.identity = ZoneIdentity
              /\ service'.listed = (zone # "none") /\ service'.inode = zone
  <2>1. service.identity = ZoneIdentity
    BY <1>1, <1>5, <1>7, <1>13, <1>15
  <2>2. CASE renewed # service
    BY <1>1, <1>6, <2>1, <2>2
  <2>3. CASE renewed = service
    <3>1. service.listed = (zone # "none")
      BY <1>1, <2>3
    <3>2. service.inode = zone
      <4>1. CASE service.stage = "changed"
        BY <1>1, <2>3, <4>1
      <4>2. CASE service.stage = "same"
        <5>1. ~service.missed
          BY <1>5, <1>15, <4>2
        <5>2. service.identity[1] = zone
          BY <2>1, ClockShape
        <5> QED BY <1>15, <2>3, <3>1, <4>2, <5>1, <5>2
                DEF ClockInv, WatchedIsNoted, EndIsTold
      <4> QED BY <1>7, <4>1, <4>2
    <3> QED BY <1>6, <2>1, <2>3, <3>1, <3>2
  <2> QED BY <2>2, <2>3
<1>16. WatchedIsNoted'
  BY <1>6, <1>14 DEF WatchedIsNoted
<1>17. NotedIsTrue'
  BY <1>2, <1>6, <1>15 DEF NotedIsTrue
<1> QED BY <1>9, <1>10, <1>12, <1>16, <1>17 DEF ClockInv

\* Time passes while the shell has nothing to do.
LEMMA TickKeeps ==
    ASSUME ClockInv, Tick
    PROVE  ClockInv'
<1>1. /\ wall' = (wall + 1) % (Minute * Hours) /\ Awake
      /\ UNCHANGED <<zone, editions, service, sets>> /\ ZoneIdentity' = ZoneIdentity
  BY DEF Tick, ZoneIdentity
<1>2. /\ drawn' \in Drawn /\ drawn'.timer = drawn.timer - 1 /\ drawn'.ahead = drawn.ahead
      /\ drawn'.minute = drawn.minute
  BY ClockShape, ClockAssumption DEF Tick, Awake, Drawn
<1>3. wall' \in 0..Minute * Hours - 1
  <2>1. wall + 1 \in Nat /\ Minute * Hours \in Nat \ {0}
    BY ClockShape
  <2>2. (wall + 1) % (Minute * Hours) \in 0..Minute * Hours - 1
    BY <2>1, DivMod
  <2> QED BY <1>1, <2>2
<1>4. DrawnAsNoted'
  <2> SUFFICES ASSUME service.watching, ~service.wasSet, service.stage # "changed",
                      drawn.timer - 1 > 0, ~drawn.ahead
               PROVE  /\ drawn.minute = (wall' \div Minute + service.identity[2]) % Hours
                      /\ drawn.timer - 1 = Minute - (wall' % Minute)
    BY <1>1, <1>2 DEF DrawnAsNoted
  <2>1. drawn.timer \in Nat
    BY ClockShape, ClockAssumption DEF Drawn
  <2>2. /\ drawn.minute = (wall \div Minute + service.identity[2]) % Hours
        /\ drawn.timer = Minute - (wall % Minute)
    BY <2>1 DEF ClockInv, DrawnAsNoted
  <2>3. wall % Minute \in 0..Minute - 1
    BY ClockShape, ClockAssumption, DivMod
  <2>4. (wall % Minute) + 1 < Minute
    BY <2>2, <2>3, ClockAssumption
  <2>5. /\ wall' = wall + 1 /\ (wall + 1) \div Minute = wall \div Minute
        /\ (wall + 1) % Minute = (wall % Minute) + 1
    BY <1>1, <2>4, ClockShape, Ticking
  <2>6. drawn.timer - 1 = Minute - ((wall % Minute) + 1)
    BY <2>2, <2>3, ClockAssumption
  <2> QED BY <2>2, <2>5, <2>6
<1> QED BY <1>1, <1>2, <1>3, <1>4 DEF ClockInv, ClockTypeOK, EndIsTold, WatchedIsNoted,
                                      LinkIsTold, NotedIsTrue

\* The clock set: told where it can be watched.
LEMMA ClockSetKeeps ==
    ASSUME ClockInv, ClockSet
    PROVE  ClockInv'
<1>1. /\ wall' \in 0..Minute * Hours - 1 /\ UNCHANGED <<zone, editions, drawn>>
      /\ ZoneIdentity' = ZoneIdentity /\ sets' = sets + 1 /\ sets < MaxSets
  BY DEF ClockSet, Bounded, ZoneIdentity
<1>2. sets' \in 0..MaxSets /\ editions' \in [Zones -> 0..sets']
  BY <1>1, ClockShape, ClockAssumption
<1>3. /\ service' \in Service /\ service'.watching = service.watching
      /\ service'.wasSet = service.watching
      /\ service'.events = service.events /\ service'.listed = service.listed
      /\ service'.inode = service.inode /\ service'.identity = service.identity
      /\ service'.stage = service.stage /\ service'.missed = service.missed
  BY ClockShape DEF ClockSet, Service
<1> QED BY <1>1, <1>2, <1>3 DEF ClockInv, ClockTypeOK, DrawnAsNoted, EndIsTold,
                                WatchedIsNoted, LinkIsTold, NotedIsTrue

\* What a change of the files reports.
LEMMA Reporting ==
    ASSUME ClockInv, NEW told \in SUBSET {"file", "directory"},
           NEW inode \in Zones \cup {"none", "gone"}, Report(told, inode)
    PROVE  /\ service' \in Service /\ service'.watching = service.watching
           /\ service'.wasSet = service.wasSet
           /\ service.events \subseteq service'.events
           /\ "directory" \in service'.events <=>
                  "directory" \in service.events \/ "directory" \in told
           /\ "file" \in service'.events <=>
                  "file" \in service.events \/ ("file" \in told /\ service.listed)
           /\ service'.listed = service.listed /\ service'.inode = inode
           /\ service'.identity = service.identity
           /\ service'.stage = service.stage /\ service'.missed = service.missed
<1> DEFINE all == service.events \cup {e \in told : e = "file" => service.listed}
<1>1. /\ all \subseteq {"file", "directory"} /\ service.events \subseteq all
      /\ "directory" \in all <=> "directory" \in service.events \/ "directory" \in told
      /\ "file" \in all <=> "file" \in service.events \/ ("file" \in told /\ service.listed)
  BY ClockShape DEF Service
<1>2. service' = [service EXCEPT !.events = all, !.inode = inode]
  BY ClockShape DEF Report, Service
<1> HIDE DEF all
<1>3. /\ service' \in Service /\ service'.watching = service.watching
      /\ service'.wasSet = service.wasSet /\ service'.events = all
      /\ service'.listed = service.listed /\ service'.inode = inode
      /\ service'.identity = service.identity
      /\ service'.stage = service.stage /\ service'.missed = service.missed
  BY <1>1, <1>2, ClockShape DEF Service
<1> QED BY <1>1, <1>3

\* Another zone: its directory reports it.
LEMMA SwitchZoneKeeps ==
    ASSUME ClockInv, SwitchZone
    PROVE  ClockInv'
<1>1. /\ zone' \in Zones \cup {"none"} /\ UNCHANGED <<wall, editions, drawn>>
      /\ sets' = sets + 1 /\ sets < MaxSets /\ Report({"directory"}, service.inode)
  BY DEF SwitchZone, Bounded
<1>2. sets' \in 0..MaxSets /\ editions' \in [Zones -> 0..sets']
  BY <1>1, ClockShape, ClockAssumption
<1>3. service.inode \in Zones \cup {"none", "gone"}
  BY ClockShape DEF Service
<1>4. /\ service' \in Service /\ service'.watching = service.watching
      /\ service'.wasSet = service.wasSet
      /\ service.events \subseteq service'.events /\ "directory" \in service'.events
      /\ service'.listed = service.listed /\ service'.inode = service.inode
      /\ service'.identity = service.identity
      /\ service'.stage = service.stage /\ service'.missed = service.missed
  BY <1>1, <1>3, Reporting
<1> QED BY <1>1, <1>2, <1>4 DEF ClockInv, ClockTypeOK, DrawnAsNoted, EndIsTold,
                                WatchedIsNoted, LinkIsTold, NotedIsTrue

\* The rules of a zone change: reported if its file is the one watched.
LEMMA UpdateZoneKeeps ==
    ASSUME ClockInv, UpdateZone
    PROVE  ClockInv'
<1>1. PICK z \in Zones :
          /\ editions' \in {editions, [editions EXCEPT ![z] = @ + 1]}
          /\ \/ /\ editions' # editions
                /\ Report(IF z = service.inode THEN {"file"} ELSE {}, service.inode)
             \/ Report(IF z = service.inode THEN {"file"} ELSE {},
                       IF z = service.inode THEN "gone" ELSE service.inode)
  BY Zenon DEF UpdateZone
<1>2. /\ UNCHANGED <<wall, zone, drawn>> /\ sets' = sets + 1 /\ sets < MaxSets
  BY DEF UpdateZone, Bounded
<1>3. sets' \in 0..MaxSets /\ editions' \in [Zones -> 0..sets']
  BY <1>1, <1>2, ClockShape, ClockAssumption
<1>4. \A y \in Zones : y # z => editions'[y] = editions[y]
  BY <1>1, ClockShape
<1>5. service.inode \in Zones \cup {"none", "gone"} /\ z \notin {"none", "gone"}
  BY ClockShape, ClockAssumption DEF Service
<1>6. /\ service' \in Service /\ service'.watching = service.watching
      /\ service'.wasSet = service.wasSet
      /\ service.events \subseteq service'.events
      /\ "directory" \in service'.events <=> "directory" \in service.events
      /\ z = service.inode /\ service.listed => "file" \in service'.events
      /\ \/ service'.inode = service.inode
         \/ z = service.inode /\ service'.inode = "gone"
      /\ service'.listed = service.listed
      /\ service'.identity = service.identity
      /\ service'.stage = service.stage /\ service'.missed = service.missed
  <2> DEFINE told == IF z = service.inode THEN {"file"} ELSE {}
             gone == IF z = service.inode THEN "gone" ELSE service.inode
  <2>1. told \in SUBSET {"file", "directory"} /\ "directory" \notin told
        /\ (z = service.inode => "file" \in told) /\ gone \in Zones \cup {"none", "gone"}
    BY <1>5
  <2>2. Report(told, service.inode) \/ Report(told, gone)
    BY <1>1
  <2>3. z # service.inode => gone = service.inode
    OBVIOUS
  <2>4. z = service.inode => gone = "gone"
    OBVIOUS
  <2> HIDE DEF told, gone
  <2>5. CASE Report(told, service.inode)
    BY <1>5, <2>1, <2>5, Reporting
  <2>6. CASE Report(told, gone)
    BY <1>5, <2>1, <2>3, <2>4, <2>6, Reporting
  <2> QED BY <2>2, <2>5, <2>6
<1>7. ZoneIdentity' = ZoneIdentity \/ z = zone
  BY <1>2, <1>4, ClockShape DEF ZoneIdentity
<1>8. zone # "gone" /\ zone' = zone
  BY <1>2, ClockShape, ClockAssumption
<1>9. ClockTypeOK' /\ (editions \in [Zones -> 0..sets])'
  <2>1. editions' \in [Zones -> 0..MaxSets]
    BY <1>3, ClockAssumption
  <2> QED BY <1>2, <1>3, <1>6, <2>1 DEF ClockInv, ClockTypeOK
<1>10. DrawnAsNoted'
  BY <1>2, <1>6 DEF ClockInv, DrawnAsNoted
<1>11. EndIsTold'
  BY <1>6 DEF ClockInv, EndIsTold
<1>12. service.inode = z => service.inode # "none"
  BY <1>5
<1>13. WatchedIsNoted'
  BY <1>6, <1>12 DEF ClockInv, WatchedIsNoted
<1>14. LinkIsTold'
  BY <1>6, <1>8 DEF ClockInv, LinkIsTold
<1>15. ASSUME service'.events = {}
       PROVE  service.events = {} /\ ~(z = service.inode /\ service.listed)
  BY <1>6, <1>15
<1>16. ASSUME service'.events = {}, service'.stage # "idle",
              service'.listed = (zone # "none"), service'.inode = zone
       PROVE  service'.identity = ZoneIdentity'
  BY <1>5, <1>6, <1>7, <1>8, <1>15, <1>16 DEF ClockInv, NotedIsTrue
<1>17. ASSUME service'.events = {}, service'.stage = "idle", ~service'.missed
       PROVE  /\ service'.identity = ZoneIdentity'
              /\ service'.listed = (zone # "none") /\ service'.inode = zone
  BY <1>5, <1>6, <1>7, <1>8, <1>15, <1>17 DEF ClockInv, NotedIsTrue
<1>18. NotedIsTrue'
  BY <1>8, <1>16, <1>17 DEF NotedIsTrue
<1> QED BY <1>9, <1>10, <1>11, <1>13, <1>14, <1>18 DEF ClockInv

\* The clock is drawn, and the zone noted, when the shell begins.
LEMMA ClockBegins ==
    ASSUME ClockInit
    PROVE  ClockInv
<1>1. Minute * Hours \in Nat \ {0}
  BY ClockAssumption, SMTT(20)
<1>2. /\ wall = 0 /\ zone \in Zones \cup {"none"} /\ editions = [x \in Zones |-> 0]
      /\ sets = 0 /\ drawn = [minute |-> MinuteNow, timer |-> Minute, ahead |-> FALSE]
  BY DEF ClockInit
<1>3. /\ ZoneIdentity \in (Zones \cup {"none"}) \X (0..MaxSets)
      /\ ZoneIdentity[1] = zone /\ ZoneIdentity[2] = 0
  BY <1>2, ClockAssumption DEF ZoneIdentity
<1>4. 0 \div Minute = 0 /\ 0 % Minute = 0
  BY ClockAssumption, DivModIs, SMTT(20)
<1>5. 0 % Hours = 0
  BY ClockAssumption, SMTT(20)
<1>6. MinuteNow = 0
  BY <1>2, <1>3, <1>4, <1>5 DEF MinuteNow
<1>7. PICK watching \in BOOLEAN :
          service = [watching |-> watching, wasSet |-> FALSE, events |-> {},
                     listed |-> zone # "none", inode |-> zone, identity |-> ZoneIdentity,
                     stage |-> "idle", missed |-> FALSE]
  BY Zenon DEF ClockInit
<1>8. (zone # "none") \in BOOLEAN
  OBVIOUS
<1>9. service \in Service
  BY <1>2, <1>3, <1>7, <1>8 DEF Service
<1>10. drawn \in Drawn
  BY <1>2, <1>6, ClockAssumption DEF Drawn
<1>11. ClockTypeOK /\ editions \in [Zones -> 0..sets]
  BY <1>1, <1>2, <1>9, <1>10, ClockAssumption DEF ClockTypeOK
<1>12. zone # "gone"
  BY <1>2, ClockAssumption
<1>13. DrawnAsNoted
  BY <1>2, <1>3, <1>4, <1>5, <1>6, <1>7, ClockAssumption DEF DrawnAsNoted
<1>14. EndIsTold /\ WatchedIsNoted /\ LinkIsTold /\ NotedIsTrue
  BY <1>3, <1>7, <1>12 DEF EndIsTold, WatchedIsNoted, LinkIsTold, NotedIsTrue
<1> QED BY <1>11, <1>13, <1>14 DEF ClockInv

\* Every step of the shell and of the machine keeps it.
LEMMA ClockKeeps ==
    ASSUME ClockInv, [ClockNext]_clockVars
    PROVE  ClockInv'
<1>1. CASE OnTriggered
  BY <1>1, OnTriggeredKeeps
<1>2. CASE HandleClockFd
  BY <1>2, HandleClockFdKeeps
<1>3. CASE HandleZoneChanged
  BY <1>3, HandleZoneChangedKeeps
<1>4. CASE ZoneHandled
  BY <1>4, ZoneHandledKeeps
<1>5. CASE Tick
  BY <1>5, TickKeeps
<1>6. CASE ClockSet
  BY <1>6, ClockSetKeeps
<1>7. CASE SwitchZone
  BY <1>7, SwitchZoneKeeps
<1>8. CASE UpdateZone
  BY <1>8, UpdateZoneKeeps
<1>9. CASE UNCHANGED clockVars
  BY <1>9 DEF clockVars, ClockInv, ClockTypeOK, DrawnAsNoted, EndIsTold, WatchedIsNoted,
              LinkIsTold, NotedIsTrue, ZoneIdentity
<1> QED BY <1>1, <1>2, <1>3, <1>4, <1>5, <1>6, <1>7, <1>8, <1>9 DEF ClockNext

\* What it gives of the minute that is drawn.
LEMMA ClockGives ==
    ASSUME ClockInv
    PROVE  ShowsTheTime
<1> SUFFICES ASSUME Awake, service.watching, ~service.missed, ~drawn.ahead
             PROVE  drawn.minute = MinuteNow /\ drawn.timer = Minute - (wall % Minute)
  BY DEF ClockInv, ShowsTheTime
<1>1. service.identity = ZoneIdentity
  BY DEF Awake, ClockInv, NotedIsTrue
<1> QED BY <1>1 DEF Awake, ClockInv, DrawnAsNoted, MinuteNow

-----------------------------------------------------------------------------
(* The keys.                                                                 *)

\* The members of a concatenation.
LEMMA MembersOfBoth ==
    ASSUME NEW S, NEW s \in Seq(S), NEW t \in Seq(S)
    PROVE  ToSet(s \o t) = ToSet(s) \cup ToSet(t) /\ s \o t \in Seq(S)
<1> DEFINE both == s \o t
<1>1. /\ both \in Seq(S) /\ Len(both) = Len(s) + Len(t)
      /\ \A i \in 1..Len(s) : both[i] = s[i]
      /\ \A i \in 1..Len(t) : both[Len(s) + i] = t[i]
  BY SMT
<1>2. Len(s) \in Nat /\ Len(t) \in Nat
  BY LenProperties
<1>3. /\ DOMAIN s = 1..Len(s) /\ DOMAIN t = 1..Len(t)
      /\ DOMAIN both = 1..Len(both)
  BY <1>1, LenProperties
<1> HIDE DEF both
<1>4. ASSUME NEW e \in ToSet(both)
      PROVE  e \in ToSet(s) \cup ToSet(t)
  <2>1. PICK i \in 1..Len(both) : both[i] = e
    BY <1>3 DEF ToSet
  <2>2. CASE i <= Len(s)
    BY <1>1, <1>2, <1>3, <2>1, <2>2 DEF ToSet
  <2>3. CASE ~(i <= Len(s))
    <3>1. i - Len(s) \in 1..Len(t) /\ Len(s) + (i - Len(s)) = i
      BY <1>1, <1>2, <2>1, <2>3
    <3>2. both[i] = t[i - Len(s)]
      BY <1>1, <3>1
    <3> QED BY <1>3, <2>1, <3>1, <3>2 DEF ToSet
  <2> QED BY <2>2, <2>3
<1>5. ASSUME NEW e \in ToSet(s)
      PROVE  e \in ToSet(both)
  <2>1. PICK i \in 1..Len(s) : s[i] = e
    BY <1>3 DEF ToSet
  <2>2. i \in 1..Len(both) /\ both[i] = e
    BY <1>1, <1>2, <2>1
  <2> QED BY <1>3, <2>2 DEF ToSet
<1>6. ASSUME NEW e \in ToSet(t)
      PROVE  e \in ToSet(both)
  <2>1. PICK i \in 1..Len(t) : t[i] = e
    BY <1>3 DEF ToSet
  <2>2. Len(s) + i \in 1..Len(both) /\ both[Len(s) + i] = e
    BY <1>1, <1>2, <2>1
  <2> QED BY <1>3, <2>2 DEF ToSet
<1>7. ToSet(both) = ToSet(s) \cup ToSet(t)
  BY <1>4, <1>5, <1>6
<1> QED BY <1>1, <1>7 DEF both

\* The tables by their names.
LEMMA InIs ==
    /\ In("bar.system") = ToSet(SystemKeys) /\ In("bar.audio") = ToSet(AudioKeys)
    /\ In("bar.network") = ToSet(NetworkKeys) /\ In("bar.battery") = ToSet(BatteryKeys)
    /\ In("bar.media") = ToSet(MediaKeys)
    /\ In("bar.notifications") = ToSet(NotificationsKeys)
    /\ In("bar.osd") = ToSet(OsdKeys) /\ In("bar.colors") = ToSet(ColorsKeys)
    /\ In("bar.font") = ToSet(FontKeys) /\ In("bar") = ToSet(BarKeys)
    /\ In("launcher") = ToSet(LauncherKeys)
BY DEF In, Tables

\* The members of the tables.
LEMMA MembersAre ==
    /\ ToSet(SystemKeys) = {"bar.system.sample_interval_ms", "bar.system.show_cpu",
                            "bar.system.show_memory", "bar.system.memory_format"}
    /\ ToSet(AudioKeys) = {"bar.audio.show_volume", "bar.audio.volume_scale",
                           "bar.audio.step_percent", "bar.audio.step_decibels"}
    /\ ToSet(NetworkKeys) = {"bar.network.show_status", "bar.network.show_name",
                             "bar.network.show_strength"}
    /\ ToSet(BatteryKeys) = {"bar.battery.show_status", "bar.battery.show_percentage",
                             "bar.battery.show_time"}
    /\ ToSet(MediaKeys) = {"bar.media.show_media"}
    /\ ToSet(NotificationsKeys) = {"bar.notifications.show_notifications",
                                   "bar.notifications.timeout_ms"}
    /\ ToSet(OsdKeys) = {"bar.osd.show_osd", "bar.osd.timeout_ms"}
    /\ ToSet(ColorsKeys) = {"bar.colors.foreground", "bar.colors.muted", "bar.colors.accent",
                            "bar.colors.urgent"}
    /\ ToSet(FontKeys) = {"bar.font.family", "bar.font.size", "bar.font.weight"}
    /\ ToSet(BarKeys) = {"bar.height", "bar.namespace"}
    /\ ToSet(LauncherKeys) = {"launcher.max_results"}
<1>1. DOMAIN SystemKeys = 1..4 /\ DOMAIN AudioKeys = 1..4 /\ DOMAIN NetworkKeys = 1..3
      /\ DOMAIN BatteryKeys = 1..3 /\ DOMAIN MediaKeys = 1..1 /\ DOMAIN NotificationsKeys = 1..2
      /\ DOMAIN OsdKeys = 1..2 /\ DOMAIN ColorsKeys = 1..4 /\ DOMAIN FontKeys = 1..3
      /\ DOMAIN BarKeys = 1..2 /\ DOMAIN LauncherKeys = 1..1
  BY DEF SystemKeys, AudioKeys, NetworkKeys, BatteryKeys, NotificationsKeys, OsdKeys,
         MediaKeys, ColorsKeys, FontKeys, BarKeys, LauncherKeys
<1>2. 1..1 = {1} /\ 1..2 = {1, 2} /\ 1..3 = {1, 2, 3} /\ 1..4 = {1, 2, 3, 4}
  OBVIOUS
<1>3. \A s : DOMAIN s = 1..1 => ToSet(s) = {s[1]}
  BY <1>2 DEF ToSet
<1>4. \A s : DOMAIN s = 1..2 => ToSet(s) = {s[1], s[2]}
  BY <1>2 DEF ToSet
<1>5. \A s : DOMAIN s = 1..3 => ToSet(s) = {s[1], s[2], s[3]}
  BY <1>2 DEF ToSet
<1>6. \A s : DOMAIN s = 1..4 => ToSet(s) = {s[1], s[2], s[3], s[4]}
  BY <1>2 DEF ToSet
<1>7. /\ ToSet(SystemKeys) = {"bar.system.sample_interval_ms", "bar.system.show_cpu",
                            "bar.system.show_memory", "bar.system.memory_format"}
      /\ ToSet(AudioKeys) = {"bar.audio.show_volume", "bar.audio.volume_scale",
                           "bar.audio.step_percent", "bar.audio.step_decibels"}
      /\ ToSet(ColorsKeys) = {"bar.colors.foreground", "bar.colors.muted", "bar.colors.accent",
                            "bar.colors.urgent"}
  BY <1>1, <1>6 DEF SystemKeys, AudioKeys, ColorsKeys
<1>8. /\ ToSet(NetworkKeys) = {"bar.network.show_status", "bar.network.show_name",
                             "bar.network.show_strength"}
      /\ ToSet(BatteryKeys) = {"bar.battery.show_status", "bar.battery.show_percentage",
                             "bar.battery.show_time"}
      /\ ToSet(FontKeys) = {"bar.font.family", "bar.font.size", "bar.font.weight"}
  BY <1>1, <1>5 DEF NetworkKeys, BatteryKeys, FontKeys
<1>9. /\ ToSet(NotificationsKeys) = {"bar.notifications.show_notifications",
                                   "bar.notifications.timeout_ms"}
      /\ ToSet(OsdKeys) = {"bar.osd.show_osd", "bar.osd.timeout_ms"}
      /\ ToSet(BarKeys) = {"bar.height", "bar.namespace"}
  BY <1>1, <1>4 DEF NotificationsKeys, OsdKeys, BarKeys
<1>10. /\ ToSet(MediaKeys) = {"bar.media.show_media"}
       /\ ToSet(LauncherKeys) = {"launcher.max_results"}
  BY <1>1, <1>3 DEF MediaKeys, LauncherKeys
<1> QED BY <1>7, <1>8, <1>9, <1>10

\* Every key is in a table of the eleven, and the theme is none of them.
LEMMA KeyIs ==
    /\ Key = ToSet(SystemKeys) \cup ToSet(AudioKeys) \cup ToSet(NetworkKeys)
             \cup ToSet(BatteryKeys) \cup ToSet(MediaKeys) \cup ToSet(NotificationsKeys)
             \cup ToSet(OsdKeys) \cup ToSet(ColorsKeys) \cup ToSet(FontKeys)
             \cup ToSet(BarKeys) \cup ToSet(LauncherKeys)
    /\ "theme" \notin Key
    /\ Copied \subseteq Key
<1>1. Key = ToSet(SystemKeys) \cup ToSet(AudioKeys) \cup ToSet(NetworkKeys)
             \cup ToSet(BatteryKeys) \cup ToSet(MediaKeys) \cup ToSet(NotificationsKeys)
             \cup ToSet(OsdKeys) \cup ToSet(ColorsKeys) \cup ToSet(FontKeys)
             \cup ToSet(BarKeys) \cup ToSet(LauncherKeys)
  <2>1. DOMAIN Tables = {"bar.system", "bar.audio", "bar.network", "bar.battery", "bar.media",
                "bar.notifications", "bar.osd", "bar.colors", "bar.font", "bar", "launcher"}
    BY DEF Tables
  <2>2. \A key : key \in Key <=> \E table \in DOMAIN Tables : key \in In(table)
    BY DEF Key
  <2> QED BY <2>1, <2>2, InIs
<1>2. "theme" \notin Key
  BY <1>1, MembersAre
<1>3. Copied \subseteq Key
  BY <1>1, MembersAre DEF Copied
<1> QED BY <1>1, <1>2, <1>3

\* What is applied.
Applied == Key \cup {"theme"}

\* Tuples of up to four are sequences.
LEMMA TuplesAre ==
    ASSUME NEW S
    PROVE  /\ \A a \in S : <<a>> \in Seq(S)
           /\ \A a, b \in S : <<a, b>> \in Seq(S)
           /\ \A a, b, c \in S : <<a, b, c>> \in Seq(S)
           /\ \A a, b, c, d \in S : <<a, b, c, d>> \in Seq(S)
OBVIOUS

\* The keys of the tables are sequences of what is applied.
LEMMA KeysAre ==
    /\ SystemKeys \in Seq(Applied) /\ AudioKeys \in Seq(Applied)
    /\ NetworkKeys \in Seq(Applied) /\ BatteryKeys \in Seq(Applied)
    /\ MediaKeys \in Seq(Applied) /\ NotificationsKeys \in Seq(Applied)
    /\ OsdKeys \in Seq(Applied) /\ ColorsKeys \in Seq(Applied)
    /\ FontKeys \in Seq(Applied) /\ BarKeys \in Seq(Applied)
    /\ LauncherKeys \in Seq(Applied)
<1>1. SystemKeys \in Seq(Applied)
  <2>1. ToSet(SystemKeys) \subseteq Applied
    BY KeyIs DEF Applied
  <2>2. {"bar.system.sample_interval_ms", "bar.system.show_cpu",
         "bar.system.show_memory", "bar.system.memory_format"} \subseteq Applied
    BY <2>1, MembersAre
  <2> QED BY <2>2, TuplesAre, Zenon DEF SystemKeys
<1>2. AudioKeys \in Seq(Applied)
  <2>1. ToSet(AudioKeys) \subseteq Applied
    BY KeyIs DEF Applied
  <2>2. {"bar.audio.show_volume", "bar.audio.volume_scale",
         "bar.audio.step_percent", "bar.audio.step_decibels"} \subseteq Applied
    BY <2>1, MembersAre
  <2> QED BY <2>2, TuplesAre, Zenon DEF AudioKeys
<1>3. NetworkKeys \in Seq(Applied)
  <2>1. ToSet(NetworkKeys) \subseteq Applied
    BY KeyIs DEF Applied
  <2>2. {"bar.network.show_status", "bar.network.show_name",
         "bar.network.show_strength"} \subseteq Applied
    BY <2>1, MembersAre
  <2> QED BY <2>2, TuplesAre, Zenon DEF NetworkKeys
<1>4. BatteryKeys \in Seq(Applied)
  <2>1. ToSet(BatteryKeys) \subseteq Applied
    BY KeyIs DEF Applied
  <2>2. {"bar.battery.show_status", "bar.battery.show_percentage",
         "bar.battery.show_time"} \subseteq Applied
    BY <2>1, MembersAre
  <2> QED BY <2>2, TuplesAre, Zenon DEF BatteryKeys
<1>5. MediaKeys \in Seq(Applied)
  <2>1. ToSet(MediaKeys) \subseteq Applied
    BY KeyIs DEF Applied
  <2>2. {"bar.media.show_media"} \subseteq Applied
    BY <2>1, MembersAre
  <2> QED BY <2>2, TuplesAre, Zenon DEF MediaKeys
<1>6. NotificationsKeys \in Seq(Applied)
  <2>1. ToSet(NotificationsKeys) \subseteq Applied
    BY KeyIs DEF Applied
  <2>2. {"bar.notifications.show_notifications", "bar.notifications.timeout_ms"} \subseteq Applied
    BY <2>1, MembersAre
  <2> QED BY <2>2, TuplesAre, Zenon DEF NotificationsKeys
<1>7. OsdKeys \in Seq(Applied)
  <2>1. ToSet(OsdKeys) \subseteq Applied
    BY KeyIs DEF Applied
  <2>2. {"bar.osd.show_osd", "bar.osd.timeout_ms"} \subseteq Applied
    BY <2>1, MembersAre
  <2> QED BY <2>2, TuplesAre, Zenon DEF OsdKeys
<1>8. ColorsKeys \in Seq(Applied)
  <2>1. ToSet(ColorsKeys) \subseteq Applied
    BY KeyIs DEF Applied
  <2>2. {"bar.colors.foreground", "bar.colors.muted", "bar.colors.accent",
         "bar.colors.urgent"} \subseteq Applied
    BY <2>1, MembersAre
  <2> QED BY <2>2, TuplesAre, Zenon DEF ColorsKeys
<1>9. FontKeys \in Seq(Applied)
  <2>1. ToSet(FontKeys) \subseteq Applied
    BY KeyIs DEF Applied
  <2>2. {"bar.font.family", "bar.font.size", "bar.font.weight"} \subseteq Applied
    BY <2>1, MembersAre
  <2> QED BY <2>2, TuplesAre, Zenon DEF FontKeys
<1>10. BarKeys \in Seq(Applied)
  <2>1. ToSet(BarKeys) \subseteq Applied
    BY KeyIs DEF Applied
  <2>2. {"bar.height", "bar.namespace"} \subseteq Applied
    BY <2>1, MembersAre
  <2> QED BY <2>2, TuplesAre, Zenon DEF BarKeys
<1>11. LauncherKeys \in Seq(Applied)
  <2>1. ToSet(LauncherKeys) \subseteq Applied
    BY KeyIs DEF Applied
  <2>2. {"launcher.max_results"} \subseteq Applied
    BY <2>1, MembersAre
  <2> QED BY <2>2, TuplesAre, Zenon DEF LauncherKeys
<1> QED BY <1>1, <1>2, <1>3, <1>4, <1>5, <1>6, <1>7, <1>8, <1>9, <1>10, <1>11

\* Config::apply leaves no key out.
LEMMA OrderIs == Order \in Seq(Applied) /\ ToSet(Order) = Applied
<1> DEFINE a == <<"theme">>
           b == a \o BarKeys
           c == b \o SystemKeys
           d == c \o AudioKeys
           e == d \o NetworkKeys
           f == e \o BatteryKeys
           g == f \o NotificationsKeys
           h == g \o OsdKeys
           i == h \o MediaKeys
           j == i \o ColorsKeys
           k == j \o FontKeys
           l == k \o LauncherKeys
<1>1. Order = l
  BY DEF Order
<1>2. a \in Seq(Applied) /\ ToSet(a) = {"theme"}
  <2>1. DOMAIN a = {1} /\ a[1] = "theme"
    OBVIOUS
  <2>2. "theme" \in Applied
    BY DEF Applied
  <2>3. a \in Seq(Applied)
    BY <2>2, TuplesAre
  <2> HIDE DEF a
  <2> QED BY <2>1, <2>3 DEF ToSet
<1> HIDE DEF a
<1>3. b \in Seq(Applied) /\ ToSet(b) = {"theme"} \cup ToSet(BarKeys)
  BY <1>2, KeysAre, MembersOfBoth
<1> HIDE DEF b
<1>4. c \in Seq(Applied) /\ ToSet(c) = ToSet(b) \cup ToSet(SystemKeys)
  BY <1>3, KeysAre, MembersOfBoth
<1> HIDE DEF c
<1>5. d \in Seq(Applied) /\ ToSet(d) = ToSet(c) \cup ToSet(AudioKeys)
  BY <1>4, KeysAre, MembersOfBoth
<1> HIDE DEF d
<1>6. e \in Seq(Applied) /\ ToSet(e) = ToSet(d) \cup ToSet(NetworkKeys)
  BY <1>5, KeysAre, MembersOfBoth
<1> HIDE DEF e
<1>7. f \in Seq(Applied) /\ ToSet(f) = ToSet(e) \cup ToSet(BatteryKeys)
  BY <1>6, KeysAre, MembersOfBoth
<1> HIDE DEF f
<1>8. g \in Seq(Applied) /\ ToSet(g) = ToSet(f) \cup ToSet(NotificationsKeys)
  BY <1>7, KeysAre, MembersOfBoth
<1> HIDE DEF g
<1>9. h \in Seq(Applied) /\ ToSet(h) = ToSet(g) \cup ToSet(OsdKeys)
  BY <1>8, KeysAre, MembersOfBoth
<1> HIDE DEF h
<1>10. i \in Seq(Applied) /\ ToSet(i) = ToSet(h) \cup ToSet(MediaKeys)
  BY <1>9, KeysAre, MembersOfBoth
<1> HIDE DEF i
<1>11. j \in Seq(Applied) /\ ToSet(j) = ToSet(i) \cup ToSet(ColorsKeys)
  BY <1>10, KeysAre, MembersOfBoth
<1> HIDE DEF j
<1>12. k \in Seq(Applied) /\ ToSet(k) = ToSet(j) \cup ToSet(FontKeys)
  BY <1>11, KeysAre, MembersOfBoth
<1> HIDE DEF k
<1>13. l \in Seq(Applied) /\ ToSet(l) = ToSet(k) \cup ToSet(LauncherKeys)
  BY <1>12, KeysAre, MembersOfBoth
<1> HIDE DEF l
<1> QED BY <1>1, <1>3, <1>4, <1>5, <1>6, <1>7, <1>8, <1>9, <1>10, <1>11, <1>12, <1>13,
         KeyIs
   DEF Applied

-----------------------------------------------------------------------------
(* What the files mean.                                                      *)

\* Whoever follows the values has read them.
Following(s) ==
    /\ DOMAIN s = {"values", "stale", "copies", "read"}
    /\ DOMAIN s.values = Applied /\ DOMAIN s.copies = Copied
    /\ s.stale = {}
    /\ \A key \in Copied : s.copies[key] = s.values[key]

\* A value that changes is told of by its own signal or the one it shares.
LEMMA ApplyKeyKeeps ==
    ASSUME NEW s, Following(s), NEW key \in Applied, NEW value,
           key \in Copied => Takes(key, value)
    PROVE  /\ Following(ApplyKey(s, key, value))
           /\ ApplyKey(s, key, value).read = s.read
           /\ ApplyKey(s, key, value).values = [s.values EXCEPT ![key] = value]
<1> DEFINE signal == Signal(key)
           a == [s EXCEPT !.values[key] = value, !.stale = @ \cup {key}]
           e == [a EXCEPT !.stale = {k \in @ : Signal(k) # signal},
                          !.copies = [k \in Copied |->
                              IF k = signal /\ Takes(k, a.values[k]) THEN a.values[k] ELSE @[k]]]
<1>1. ApplyKey(s, key, value) = e
  BY DEF ApplyKey, Emit, Assign
<1>2. /\ DOMAIN a = {"values", "stale", "copies", "read"}
      /\ a.values = [s.values EXCEPT ![key] = value]
      /\ a.stale = {key} /\ a.copies = s.copies /\ a.read = s.read
  BY DEF Following
<1>3. DOMAIN a.values = Applied /\ a.values[key] = value
      /\ \A k \in Applied : k # key => a.values[k] = s.values[k]
  <2>1. DOMAIN s.values = Applied
    BY DEF Following
  <2> HIDE DEF a
  <2> QED BY <1>2, <2>1
<1> HIDE DEF a
<1>4. /\ DOMAIN e = {"values", "stale", "copies", "read"}
      /\ e.values = a.values /\ e.read = a.read
      /\ e.stale = {k \in a.stale : Signal(k) # signal}
      /\ e.copies = [k \in Copied |->
             IF k = signal /\ Takes(k, a.values[k]) THEN a.values[k] ELSE a.copies[k]]
  BY <1>2
<1> HIDE DEF e
<1>5. e.stale = {}
  BY <1>2, <1>4
<1>6. ASSUME NEW k \in Copied
      PROVE  e.copies[k] = e.values[k]
  <2>1. Signal(k) = k /\ k # "bar.notifications.show_notifications" /\ k \in Applied
    BY KeyIs DEF Copied, Signal, Applied
  <2>2. s.copies[k] = s.values[k]
    BY DEF Following
  <2>3. CASE k = key
    <3>1. k = signal /\ Takes(k, a.values[k])
      BY <1>3, <2>1, <2>3
    <3> QED BY <1>4, <3>1
  <2>4. CASE k # key
    <3>1. k # signal
      BY <2>1, <2>4 DEF Signal
    <3>2. e.copies[k] = a.copies[k]
      BY <1>4, <3>1
    <3> QED BY <1>2, <1>3, <1>4, <2>1, <2>2, <2>4, <3>2
  <2> QED BY <2>3, <2>4
<1>7. Following(e)
  BY <1>3, <1>4, <1>5, <1>6 DEF Following
<1> QED BY <1>1, <1>2, <1>4, <1>7

\* Nothing is done about a value that is the same.
LEMMA ApplyIfDiffersKeeps ==
    ASSUME NEW s, Following(s), NEW key \in Applied, NEW value,
           key \in Copied => Takes(key, value)
    PROVE  /\ Following(ApplyIfDiffers(s, key, value))
           /\ ApplyIfDiffers(s, key, value).read = s.read
           /\ DOMAIN ApplyIfDiffers(s, key, value).values = Applied
           /\ ApplyIfDiffers(s, key, value).values[key] = value
           /\ \A k \in Applied :
                 k # key => ApplyIfDiffers(s, key, value).values[k] = s.values[k]
<1> DEFINE t == ApplyIfDiffers(s, key, value)
<1>1. DOMAIN s.values = Applied
  BY DEF Following
<1>2. CASE s.values[key] = value
  <2>1. t = s
    BY <1>2 DEF ApplyIfDiffers
  <2> HIDE DEF t
  <2> QED BY <1>1, <1>2, <2>1 DEF t
<1>3. CASE s.values[key] # value
  <2>1. t = ApplyKey(s, key, value)
    BY <1>3 DEF ApplyIfDiffers
  <2>2. Following(t) /\ t.read = s.read /\ t.values = [s.values EXCEPT ![key] = value]
    BY <2>1, ApplyKeyKeeps
  <2> HIDE DEF t
  <2>3. DOMAIN t.values = Applied /\ t.values[key] = value
        /\ \A k \in Applied : k # key => t.values[k] = s.values[k]
    BY <1>1, <2>2
  <2> QED BY <2>2, <2>3 DEF t
<1> QED BY <1>2, <1>3

\* A set of naturals that has an element has a least one: what takes the place of
\* induction, by the least number for which a statement fails.
LEMMA Least ==
    ASSUME NEW S, S \subseteq Nat, S # {}
    PROVE  \E m \in S : \A n \in S : m <= n
<1> DEFINE Below == {pair \in Nat \X Nat : pair[1] < pair[2]}
<1>1. IsWellFoundedOn(Below, Nat)
  BY NatLessThanWellFounded, Zenon DEF OpToRel
<1>2. \E m \in S : \A n \in S : <<n, m>> \notin Below
  <2> HIDE DEF Below
  <2> QED BY <1>1, WFMin
<1>3. \E m \in S : \A n \in S : ~(n < m)
  BY <1>2
<1> QED BY <1>3

\* f is what applying the first n keys makes of s, one after the other.
Applies(f, s, values, n) ==
    f = [i \in 0..n |-> IF i = 0 THEN s ELSE ApplyIfDiffers(f[i - 1], Order[i], values[Order[i]])]

\* There is such an f.
LEMMA AppliesExist ==
    ASSUME NEW s, NEW values, NEW n \in Nat
    PROVE  \E f : Applies(f, s, values, n)
<1> DEFINE Bad == {m \in Nat : ~\E f : Applies(f, s, values, m)}
<1> SUFFICES ASSUME Bad # {}
             PROVE  FALSE
  OBVIOUS
<1>1. PICK m \in Bad : \A k \in Bad : m <= k
  <2>1. Bad \subseteq Nat
    OBVIOUS
  <2> HIDE DEF Bad
  <2> QED BY <2>1, Least
<1>2. m # 0
  <2> DEFINE g == [i \in 0..0 |-> s]
  <2>1. Applies(g, s, values, 0)
    BY DEF Applies
  <2> QED BY <2>1
<1>3. m \in Nat /\ m - 1 \in Nat /\ m - 1 \notin Bad
  <2>1. m \in Nat
    OBVIOUS
  <2> HIDE DEF Bad
  <2> QED BY <1>1, <1>2, <2>1
<1>4. PICK g : Applies(g, s, values, m - 1)
  BY <1>3
<1> DEFINE h == [i \in 0..m |->
                    IF i = m THEN ApplyIfDiffers(g[m - 1], Order[m], values[Order[m]]) ELSE g[i]]
<1>5. ASSUME NEW i \in 0..m
      PROVE  h[i] = IF i = 0 THEN s ELSE ApplyIfDiffers(h[i - 1], Order[i], values[Order[i]])
  <2>1. CASE i = 0
    BY <1>2, <1>3, <1>4, <2>1 DEF Applies
  <2>2. CASE i # 0 /\ i # m
    <3>1. i \in 0..m - 1 /\ i - 1 \in 0..m /\ i - 1 # m
      BY <1>3, <2>2
    <3>2. g[i] = ApplyIfDiffers(g[i - 1], Order[i], values[Order[i]])
      BY <1>4, <2>2, <3>1 DEF Applies
    <3>3. h[i] = g[i] /\ h[i - 1] = g[i - 1]
      BY <1>3, <2>2, <3>1
    <3> HIDE DEF h
    <3> QED BY <2>2, <3>2, <3>3
  <2>3. CASE i = m
    <3>1. m - 1 \in 0..m /\ m - 1 # m
      BY <1>2, <1>3
    <3>2. h[m] = ApplyIfDiffers(g[m - 1], Order[m], values[Order[m]]) /\ h[m - 1] = g[m - 1]
      BY <1>3, <3>1
    <3> HIDE DEF h
    <3> QED BY <1>2, <2>3, <3>2
  <2> QED BY <2>1, <2>2, <2>3
<1>6. Applies(h, s, values, m)
  BY <1>5, Zenon DEF Applies
<1> QED BY <1>1, <1>6

\* When all keys are applied, all values are in force and followed.
LEMMA ApplySettingsKeeps ==
    ASSUME NEW s, Following(s), NEW files, NEW values, values = Parse(files.config, files.themes),
           \A key \in Copied : Takes(key, values[key])
    PROVE  /\ Following(ApplySettings(s, files))
           /\ ApplySettings(s, files).read = files
           /\ \A key \in Applied : ApplySettings(s, files).values[key] = values[key]
<1> DEFINE n == Len(Order)
           t == [s EXCEPT !.read = files]
           f == CHOOSE f : Applies(f, t, values, n)
<1>1. n \in Nat /\ DOMAIN Order = 1..n /\ \A i \in 1..n : Order[i] \in Applied
  BY OrderIs, LenProperties, ElementOfSeq
<1>2. Applies(f, t, values, n)
  BY <1>1, AppliesExist, Zenon
<1>3. ApplySettings(s, files) = f[n]
  BY Zenon DEF ApplySettings, Applies
<1>4. Following(t) /\ t.read = files
  BY DEF Following
<1> HIDE DEF f, n, t
<1>5. \A i \in 0..n :
          f[i] = IF i = 0 THEN t ELSE ApplyIfDiffers(f[i - 1], Order[i], values[Order[i]])
  BY <1>2 DEF Applies
<1> DEFINE Done(i) == /\ Following(f[i]) /\ f[i].read = files
                      /\ \A j \in 1..i : f[i].values[Order[j]] = values[Order[j]]
           Bad == {i \in 0..n : ~Done(i)}
<1>6. Bad = {}
  <2> SUFFICES ASSUME Bad # {}
               PROVE  FALSE
    OBVIOUS
  <2>1. PICK i \in Bad : \A j \in Bad : i <= j
    <3>1. Bad \subseteq Nat
      BY <1>1
    <3> HIDE DEF Bad
    <3> QED BY <3>1, Least
  <2>2. i \in 0..n /\ ~Done(i)
    OBVIOUS
  <2>3. i # 0
    <3>1. SUFFICES ASSUME i = 0
                   PROVE  Done(0)
      BY <2>2
    <3>2. f[0] = t
      BY <1>1, <1>5
    <3> QED BY <1>4, <3>2
  <2>4. i \in 1..n /\ i - 1 \in 0..n
    BY <1>1, <2>2, <2>3
  <2>5. Done(i - 1)
    <3>1. i - 1 \notin Bad
      <4>1. ~(i <= i - 1)
        BY <2>4
      <4> HIDE DEF Bad
      <4> QED BY <2>1, <4>1
    <3> HIDE DEF Done
    <3> QED BY <2>4, <3>1
  <2> DEFINE x == f[i - 1]
             key == Order[i]
             value == values[key]
             y == ApplyIfDiffers(x, key, value)
  <2>6. f[i] = y
    BY <1>5, <2>4
  <2>7. key \in Applied /\ Following(x) /\ (key \in Copied => Takes(key, value))
    BY <1>1, <2>4, <2>5
  <2> HIDE DEF x, key, value
  <2>8. /\ Following(y) /\ y.read = x.read /\ y.values[key] = value
        /\ \A k \in Applied : k # key => y.values[k] = x.values[k]
    BY <2>7, ApplyIfDiffersKeeps
  <2> HIDE DEF y
  <2>9. ASSUME NEW j \in 1..i
        PROVE  f[i].values[Order[j]] = values[Order[j]]
    <3>1. Order[j] \in Applied
      BY <1>1, <2>4
    <3>2. CASE Order[j] = key
      BY <2>6, <2>8, <3>2 DEF value
    <3>3. CASE Order[j] # key
      <4>1. j # i
        BY <3>3 DEF key
      <4>2. j \in 1..i - 1
        BY <2>4, <4>1
      <4>3. x.values[Order[j]] = values[Order[j]]
        BY <2>5, <4>2 DEF x
      <4> QED BY <2>6, <2>8, <3>1, <3>3, <4>3
    <3> QED BY <3>2, <3>3
  <2>10. Following(f[i]) /\ f[i].read = files
    BY <2>5, <2>6, <2>8 DEF x
  <2> QED BY <2>2, <2>9, <2>10
<1>7. Done(n)
  <2>1. n \in 0..n
    BY <1>1
  <2> HIDE DEF Done
  <2> QED BY <1>6, <2>1
<1>8. ASSUME NEW key \in Applied
      PROVE  f[n].values[key] = values[key]
  <2>1. PICK j \in 1..n : Order[j] = key
    BY <1>1, OrderIs DEF ToSet
  <2> QED BY <1>7, <2>1
<1> QED BY <1>3, <1>7, <1>8

\* The structs' defaults are values that whoever follows them takes.
LEMMA DefaultsAre ==
    /\ DOMAIN Defaults = Applied /\ Defaults["theme"] = ""
    /\ \A key \in Copied : Takes(key, Defaults[key])
<1>1. /\ DOMAIN SystemConfig = ToSet(SystemKeys) /\ DOMAIN AudioConfig = ToSet(AudioKeys)
      /\ DOMAIN NetworkConfig = ToSet(NetworkKeys) /\ DOMAIN BatteryConfig = ToSet(BatteryKeys)
      /\ DOMAIN MediaConfig = ToSet(MediaKeys)
      /\ DOMAIN NotificationsConfig = ToSet(NotificationsKeys)
      /\ DOMAIN OsdConfig = ToSet(OsdKeys) /\ DOMAIN ColorsConfig = ToSet(ColorsKeys)
      /\ DOMAIN FontConfig = ToSet(FontKeys) /\ DOMAIN BarConfig = ToSet(BarKeys)
      /\ DOMAIN LauncherConfig = ToSet(LauncherKeys)
  BY InIs, Zenon DEF SystemConfig, AudioConfig, NetworkConfig, BatteryConfig, MediaConfig,
     NotificationsConfig, OsdConfig, ColorsConfig, FontConfig, BarConfig, LauncherConfig
<1>2. DOMAIN Defaults = Applied
  BY DEF Defaults, Applied
<1>3. Defaults["theme"] = ""
  <2>1. /\ "theme" \notin DOMAIN SystemConfig /\ "theme" \notin DOMAIN AudioConfig
        /\ "theme" \notin DOMAIN NetworkConfig /\ "theme" \notin DOMAIN BatteryConfig
        /\ "theme" \notin DOMAIN MediaConfig /\ "theme" \notin DOMAIN NotificationsConfig
        /\ "theme" \notin DOMAIN OsdConfig /\ "theme" \notin DOMAIN ColorsConfig
        /\ "theme" \notin DOMAIN FontConfig /\ "theme" \notin DOMAIN BarConfig
        /\ "theme" \notin DOMAIN LauncherConfig
    BY <1>1, KeyIs
  <2>2. "theme" \in Key \cup {"theme"}
    OBVIOUS
  <2> QED BY <2>1, <2>2, Zenon DEF Defaults
<1>4. Defaults["bar.system.sample_interval_ms"] = 2000
  <2> DEFINE key == "bar.system.sample_interval_ms"
  <2>1. key \in DOMAIN SystemConfig /\ key \in Key \cup {"theme"} /\ key \in In("bar.system")
    BY <1>1, MembersAre, KeyIs, InIs
  <2>2. /\ key \notin DOMAIN AudioConfig
        /\ key \notin DOMAIN NetworkConfig /\ key \notin DOMAIN BatteryConfig
        /\ key \notin DOMAIN MediaConfig /\ key \notin DOMAIN NotificationsConfig
        /\ key \notin DOMAIN OsdConfig /\ key \notin DOMAIN ColorsConfig
        /\ key \notin DOMAIN FontConfig /\ key \notin DOMAIN BarConfig
        /\ key \notin DOMAIN LauncherConfig /\ key # "theme"
    BY <1>1, MembersAre
  <2>3. Defaults[key] = SystemConfig[key]
    <3> HIDE DEF key
    <3> QED BY <2>1, <2>2, Zenon DEF Defaults
  <2>4. SystemConfig[key] = 2000
    BY <2>1 DEF SystemConfig
  <2> QED BY <2>3, <2>4
<1>5. /\ Defaults["bar.audio.step_percent"] = 5 /\ Defaults["bar.audio.step_decibels"] = 10
      /\ Defaults["bar.audio.volume_scale"] = "percent"
  <2>1. ASSUME NEW key \in {"bar.audio.step_percent", "bar.audio.step_decibels",
                            "bar.audio.volume_scale"}
        PROVE  Defaults[key] = AudioConfig[key] /\ key \in In("bar.audio")
    <3>1. key \in DOMAIN AudioConfig /\ key \in Key \cup {"theme"} /\ key \in In("bar.audio")
      BY <1>1, MembersAre, KeyIs, InIs
    <3>2. /\ key \notin DOMAIN SystemConfig
          /\ key \notin DOMAIN NetworkConfig /\ key \notin DOMAIN BatteryConfig
          /\ key \notin DOMAIN MediaConfig /\ key \notin DOMAIN NotificationsConfig
          /\ key \notin DOMAIN OsdConfig /\ key \notin DOMAIN ColorsConfig
          /\ key \notin DOMAIN FontConfig /\ key \notin DOMAIN BarConfig
          /\ key \notin DOMAIN LauncherConfig /\ key # "theme"
      BY <1>1, MembersAre
    <3>3. Defaults[key] = AudioConfig[key]
      BY <3>1, <3>2, Zenon DEF Defaults
    <3> QED BY <3>1, <3>3
  <2>2. AudioConfig["bar.audio.step_percent"] = 5
    BY <2>1, Zenon DEF AudioConfig
  <2>3. AudioConfig["bar.audio.step_decibels"] = 10
    BY <2>1, Zenon DEF AudioConfig
  <2>4. AudioConfig["bar.audio.volume_scale"] = "percent"
    BY <2>1, Zenon DEF AudioConfig
  <2> QED BY <2>1, <2>2, <2>3, <2>4
<1>6. Defaults["launcher.max_results"] = 8
  <2> DEFINE key == "launcher.max_results"
  <2>1. key \in DOMAIN LauncherConfig /\ key \in Key \cup {"theme"} /\ key \in In("launcher")
    BY <1>1, MembersAre, KeyIs, InIs
  <2>2. /\ key \notin DOMAIN AudioConfig /\ key \notin DOMAIN SystemConfig
        /\ key \notin DOMAIN NetworkConfig /\ key \notin DOMAIN BatteryConfig
        /\ key \notin DOMAIN MediaConfig /\ key \notin DOMAIN NotificationsConfig
        /\ key \notin DOMAIN OsdConfig /\ key \notin DOMAIN ColorsConfig
        /\ key \notin DOMAIN FontConfig /\ key \notin DOMAIN BarConfig
        /\ key # "theme"
    BY <1>1, MembersAre
  <2>3. Defaults[key] = LauncherConfig[key]
    <3> HIDE DEF key
    <3> QED BY <2>1, <2>2, Zenon DEF Defaults
  <2>4. LauncherConfig[key] = 8
    BY <2>1, Zenon DEF LauncherConfig
  <2> QED BY <2>3, <2>4
<1>7. \A key \in Copied : Takes(key, Defaults[key])
  BY <1>4, <1>5, <1>6
     DEF Copied, Takes, SysMonTakes, PipeWireTakes, LauncherTakes, VolumeScales
<1> QED BY <1>2, <1>3, <1>7

\* A number that an int holds is not changed by being stored in one.
LEMMA NarrowIs ==
    ASSUME NEW n \in 0..IntMax
    PROVE  Narrow(n) = n
<1> DEFINE w == n + IntMax + 1
           m == 2 * (IntMax + 1)
<1>1. w \in Nat /\ m \in Nat \ {0} /\ w \in 0..m - 1 /\ w = m * 0 + w
  BY IntAssumption
<1> HIDE DEF w, m
<1>2. w % m = w
  BY <1>1, DivModIs
<1>3. Narrow(n) = (w % m) - (IntMax + 1)
  BY DEF Narrow, w, m
<1>4. w - (IntMax + 1) = n
  BY IntAssumption DEF w
<1> QED BY <1>2, <1>3, <1>4

\* What a rule lets through of a number.
LEMMA AcceptedIs ==
    ASSUME NEW key, NEW node, Accepted(key, node), node[1] = "integer", node[2] \in Int
    PROVE  /\ key \notin Narrowed \cup {"bar.audio.step_decibels"} => node[2] \in 0..IntMax
           /\ key = "bar.system.sample_interval_ms" => node[2] >= 10 /\ node[2] <= IntMax
           /\ key = "bar.audio.step_percent" => node[2] >= 1 /\ node[2] <= IntMax
           /\ key = "bar.audio.step_decibels" => 10 * node[2] >= 1
           /\ key # "bar.audio.volume_scale"
           /\ key = "launcher.max_results" => node[2] >= 1 /\ node[2] <= 50
<1> DEFINE type == node[1]
           value == node[2]
<1>1. type # "boolean" /\ type # "string" /\ type # "float"
  OBVIOUS
<1>2. ~Flag(node) /\ ~String(node)
  BY <1>1 DEF Flag, String
<1>3. ~NetworkReads(key, node) /\ ~BatteryReads(key, node) /\ ~MediaReads(key, node)
      /\ ~ColorsReads(key, node)
  BY <1>2 DEF NetworkReads, BatteryReads, MediaReads, ColorsReads
<1>4. SystemReads(key, node) =>
          key = "bar.system.sample_interval_ms" /\ 10 <= value /\ value <= IntMax
  BY <1>2 DEF SystemReads, Integer
<1>5. AudioReads(key, node) =>
          \/ key = "bar.audio.step_percent" /\ 1 <= value /\ value <= IntMax
          \/ key = "bar.audio.step_decibels" /\ 10 * value >= 1
  BY <1>1, <1>2 DEF AudioReads, Integer
<1>6. NotificationsReads(key, node) => key = "bar.notifications.timeout_ms"
  BY <1>2 DEF NotificationsReads
<1>7. OsdReads(key, node) => key = "bar.osd.timeout_ms" /\ 500 <= value /\ value <= IntMax
  BY <1>2 DEF OsdReads, Integer
<1>8. FontReads(key, node) => key \in {"bar.font.size", "bar.font.weight"}
  BY <1>2 DEF FontReads
<1>9. BarReads(key, node) => key = "bar.height" /\ 1 <= value /\ value <= IntMax
  BY <1>2 DEF BarReads, Integer
<1>10. LauncherReads(key, node) => key = "launcher.max_results" /\ 1 <= value /\ value <= 50
  BY DEF LauncherReads, Integer
<1>11. \/ SystemReads(key, node) \/ AudioReads(key, node) \/ NotificationsReads(key, node)
       \/ OsdReads(key, node) \/ FontReads(key, node) \/ BarReads(key, node)
       \/ LauncherReads(key, node)
  BY <1>3 DEF Accepted
<1> HIDE DEF value
<1>12. /\ key \notin Narrowed \cup {"bar.audio.step_decibels"} => value \in 0..IntMax
       /\ key = "bar.system.sample_interval_ms" => value >= 10 /\ value <= IntMax
       /\ key = "bar.audio.step_percent" => value >= 1 /\ value <= IntMax
       /\ key = "bar.audio.step_decibels" => 10 * value >= 1
       /\ key # "bar.audio.volume_scale"
       /\ key = "launcher.max_results" => value >= 1 /\ value <= 50
  <2>1. value \in Int
    BY DEF value
  <2> QED BY <1>4, <1>5, <1>6, <1>7, <1>8, <1>9, <1>10, <1>11, <2>1, IntAssumption DEF Narrowed
<1> QED BY <1>12 DEF value

\* What is stored is the number that is written, if an int holds it.
LEMMA StoredIs ==
    ASSUME NEW key, NEW node \in Nodes, Accepted(key, node)
    PROVE  /\ key \notin Narrowed => Stored(key, node) = Number(key, node)
           /\ key \in Copied => Takes(key, Stored(key, node))
<1>1. node[1] = "integer" => node[2] \in Int
  BY NodesAssumption
<1>2. CASE node[1] # "integer"
  <2>1. Stored(key, node) = node[2]
    BY <1>2, Zenon DEF Stored
  <2>2. Number(key, node) = node[2]
    BY <1>2 DEF Number
  <2>3. ~Integer(node, 10, IntMax) /\ ~Integer(node, 1, IntMax) /\ ~Integer(node, 1, 50)
    BY <1>2 DEF Integer
  <2>4. key = "bar.system.sample_interval_ms" => FALSE
    BY <1>2, <2>3, InIs, MembersAre
       DEF Accepted, SystemReads, AudioReads, NetworkReads, BatteryReads, MediaReads,
           NotificationsReads, OsdReads, ColorsReads, FontReads, BarReads, LauncherReads
  <2>5. key = "bar.audio.step_percent" => FALSE
    BY <1>2, <2>3, InIs, MembersAre
       DEF Accepted, SystemReads, AudioReads, NetworkReads, BatteryReads, MediaReads,
           NotificationsReads, OsdReads, ColorsReads, FontReads, BarReads, LauncherReads
  <2>6. key = "launcher.max_results" => FALSE
    BY <1>2, <2>3, InIs, MembersAre
       DEF Accepted, SystemReads, AudioReads, NetworkReads, BatteryReads, MediaReads,
           NotificationsReads, OsdReads, ColorsReads, FontReads, BarReads, LauncherReads
  <2>7. key = "bar.audio.volume_scale" => node[2] \in VolumeScales
    BY InIs, MembersAre
       DEF Accepted, SystemReads, AudioReads, NetworkReads, BatteryReads, MediaReads,
           NotificationsReads, OsdReads, ColorsReads, FontReads, BarReads, LauncherReads
  <2>8. key = "bar.audio.step_decibels" => node[2] >= 1
    BY <1>2, InIs, MembersAre
       DEF Accepted, SystemReads, AudioReads, NetworkReads, BatteryReads, MediaReads,
           NotificationsReads, OsdReads, ColorsReads, FontReads, BarReads, LauncherReads
  <2>9. key \in Copied => Takes(key, node[2])
    BY <2>4, <2>5, <2>6, <2>7, <2>8
       DEF Copied, Takes, SysMonTakes, PipeWireTakes, LauncherTakes
  <2> QED BY <2>1, <2>2, <2>9
<1>3. CASE node[1] = "integer" /\ key = "bar.audio.step_decibels"
  <2>1. Stored(key, node) = 10 * node[2]
    BY <1>3, Zenon DEF Stored
  <2>2. Number(key, node) = 10 * node[2]
    BY <1>3 DEF Number
  <2>3. Takes(key, 10 * node[2])
    BY <1>1, <1>3, AcceptedIs DEF Takes, PipeWireTakes
  <2> QED BY <2>1, <2>2, <2>3
<1>4. CASE node[1] = "integer" /\ key # "bar.audio.step_decibels"
  <2>1. Stored(key, node) = Narrow(node[2])
    BY <1>4, Zenon DEF Stored
  <2>2. Number(key, node) = node[2]
    BY <1>4 DEF Number
  <2>3. key \notin Narrowed => node[2] \in 0..IntMax
    BY <1>1, <1>4, AcceptedIs
  <2>4. key \in Copied => key \notin Narrowed
    BY DEF Copied, Narrowed
  <2>5. key \in Copied => Takes(key, node[2])
    BY <1>1, <1>4, AcceptedIs
       DEF Copied, Takes, SysMonTakes, PipeWireTakes, LauncherTakes
  <2>6. key \notin Narrowed => Narrow(node[2]) = node[2]
    BY <2>3, NarrowIs
  <2> QED BY <2>1, <2>2, <2>4, <2>5, <2>6
<1> QED BY <1>2, <1>3, <1>4

\* What is in force is what the files of one read mean, as InForce has it.
Means(values, files) ==
    LET own == Supplied(files.config, DOMAIN Tables)
        named == ThemeNamed(files.config)
        theme == IF named = "" THEN Missing ELSE files.themes[named]
        themed == IF Usable(theme) THEN Supplied(theme, ThemeTables) ELSE {}
        source(key) == IF key \in own THEN files.config ELSE theme
    IN  /\ values["theme"] = named
        /\ \A key \in Key :
              values[key] = IF key \in own \cup themed
                            THEN Stored(key, source(key).nodes[key])
                            ELSE Defaults[key]

Paths == Key \cup {"theme", "bar.other"} \cup DOMAIN Tables

\* A file, of which nothing is read if it is not there.
File ==
    {f \in [there : BOOLEAN, syntax : BOOLEAN, version : Versions,
            nodes : UNION {[S -> Nodes] : S \in SUBSET Paths}] :
        ~f.there => DOMAIN f.nodes = {}}

Files == [config : File, themes : [ThemeNames -> File]]

\* A file that is not there.
LEMMA MissingIs == Missing \in File /\ Usable(Missing) /\ DOMAIN Missing.nodes = {}
<1>1. <<>> \in [{} -> Nodes] /\ DOMAIN <<>> = {} /\ {} \in SUBSET Paths
  BY SMT
<1>2. <<>> \in UNION {[S -> Nodes] : S \in SUBSET Paths}
  BY <1>1
<1>3. Missing.nodes = <<>> /\ ~Missing.there
  BY DEF Missing
<1> QED BY <1>1, <1>2, <1>3 DEF Missing, File, Versions, Usable

\* What a file supplies is of its keys, and accepted.
LEMMA SuppliedIs ==
    ASSUME NEW f \in File, NEW tables
    PROVE  /\ Supplied(f, tables) \subseteq Key
           /\ ~f.there => Supplied(f, tables) = {}
           /\ \A key \in Supplied(f, tables) :
                 f.nodes[key] \in Nodes /\ Accepted(key, f.nodes[key])
<1>1. PICK S \in SUBSET Paths : f.nodes \in [S -> Nodes]
  BY DEF File
<1>2. DOMAIN f.nodes = S /\ \A path \in S : f.nodes[path] \in Nodes
  BY <1>1
<1>3. Supplied(f, tables) \subseteq S \cap Key
  BY <1>2 DEF Supplied, Reached
<1>4. ~f.there => S = {}
  BY <1>2 DEF File
<1> QED BY <1>2, <1>3, <1>4 DEF Supplied

\* What is laid over values.
LEMMA ReadTablesIs ==
    ASSUME NEW values, DOMAIN values = Applied, NEW f \in File, NEW tables
    PROVE  /\ DOMAIN ReadTables(values, f, tables) = Applied
           /\ \A key \in Applied :
                 ReadTables(values, f, tables)[key] =
                     IF key \in Supplied(f, tables) THEN Stored(key, f.nodes[key]) ELSE values[key]
<1> DEFINE upper == [key \in Supplied(f, tables) |-> Stored(key, f.nodes[key])]
<1>1. Supplied(f, tables) \subseteq Applied
  BY SuppliedIs DEF Applied
<1>2. DOMAIN upper = Supplied(f, tables)
  OBVIOUS
<1>3. \A key \in Supplied(f, tables) : upper[key] = Stored(key, f.nodes[key])
  OBVIOUS
<1>4. ReadTables(values, f, tables) = Over(upper, values)
  BY DEF ReadTables
<1> HIDE DEF upper
<1>5. Over(upper, values) =
          [path \in Applied |-> IF path \in Supplied(f, tables) THEN upper[path] ELSE values[path]]
  <2>1. DOMAIN upper \cup DOMAIN values = Applied
    BY <1>1, <1>2
  <2> QED BY <1>2, <2>1 DEF Over
<1> QED BY <1>3, <1>4, <1>5

\* The theme laid over values.
LEMMA ReadThemeIs ==
    ASSUME NEW values, DOMAIN values = Applied, NEW f \in File
    PROVE  /\ DOMAIN ReadTheme(values, f) = Applied
           /\ \A key \in Applied :
                 ReadTheme(values, f)[key] =
                     IF Usable(f) /\ key \in Supplied(f, ThemeTables)
                     THEN Stored(key, f.nodes[key]) ELSE values[key]
<1>1. CASE ~f.there \/ ~Usable(f)
  <2>1. ReadTheme(values, f) = values
    BY <1>1 DEF ReadTheme
  <2>2. ~f.there => Supplied(f, ThemeTables) = {}
    BY SuppliedIs
  <2> QED BY <1>1, <2>1, <2>2
<1>2. CASE f.there /\ Usable(f)
  <2>1. ReadTheme(values, f) = ReadTables(values, f, ThemeTables)
    BY <1>2 DEF ReadTheme
  <2> QED BY <1>2, <2>1, ReadTablesIs
<1> QED BY <1>1, <1>2

\* What parseConfig makes of the files is what they mean: the theme is laid under the file,
\* and what neither says is the default.
LEMMA ParseIs ==
    ASSUME NEW files \in Files
    PROVE  /\ Means(Parse(files.config, files.themes), files)
           /\ \A key \in Copied : Takes(key, Parse(files.config, files.themes)[key])
<1> DEFINE file == files.config
           named == ThemeNamed(file)
           theme == IF named = "" THEN Missing ELSE files.themes[named]
           own == Supplied(file, DOMAIN Tables)
           themed == IF Usable(theme) THEN Supplied(theme, ThemeTables) ELSE {}
           base == [Defaults EXCEPT !["theme"] = named]
           under == IF named = "" THEN base ELSE ReadTheme(base, files.themes[named])
           values == Parse(file, files.themes)
<1>1. file \in File /\ files.themes \in [ThemeNames -> File]
  BY DEF Files
<1>2. named \in ThemeNames \cup {""}
  BY DEF ThemeNamed
<1>3. theme \in File
  BY <1>1, <1>2, MissingIs
<1>4. /\ own \subseteq Key /\ (~file.there => own = {})
      /\ \A key \in own : file.nodes[key] \in Nodes /\ Accepted(key, file.nodes[key])
  BY <1>1, SuppliedIs
<1>5. /\ themed \subseteq Key
      /\ \A key \in themed : theme.nodes[key] \in Nodes /\ Accepted(key, theme.nodes[key])
  BY <1>3, SuppliedIs
<1>6. DOMAIN base = Applied /\ base["theme"] = named
      /\ \A key \in Key : base[key] = Defaults[key]
  BY DefaultsAre, KeyIs DEF Applied
<1>7. named = "" => themed = {}
  <2>1. ~Missing.there
    BY DEF Missing
  <2> QED BY <2>1, MissingIs, SuppliedIs
<1>8. ~file.there => named = ""
  <2>1. ~file.there => DOMAIN file.nodes = {}
    BY <1>1 DEF File
  <2> QED BY <2>1 DEF ThemeNamed
<1>9. values = IF ~file.there THEN Defaults ELSE ReadTables(under, file, DOMAIN Tables)
  BY DEF Parse
<1> HIDE DEF base, own, values
<1>10. DOMAIN under = Applied /\ under["theme"] = named
       /\ \A key \in Key :
             under[key] = IF key \in themed THEN Stored(key, theme.nodes[key]) ELSE Defaults[key]
  <2>1. CASE named = ""
    BY <1>6, <1>7, <2>1
  <2>2. CASE named # ""
    <3>1. theme = files.themes[named]
      BY <2>2
    <3> HIDE DEF named, theme
    <3>2. /\ DOMAIN ReadTheme(base, theme) = Applied
          /\ \A key \in Applied :
                ReadTheme(base, theme)[key] =
                    IF Usable(theme) /\ key \in Supplied(theme, ThemeTables)
                    THEN Stored(key, theme.nodes[key]) ELSE base[key]
      BY <1>3, <1>6, ReadThemeIs
    <3>3. under = ReadTheme(base, theme)
      BY <2>2, <3>1
    <3>4. "theme" \notin Supplied(theme, ThemeTables)
      BY <1>3, SuppliedIs, KeyIs
    <3> HIDE DEF under
    <3> QED BY <1>6, <3>2, <3>3, <3>4 DEF Applied
  <2> QED BY <2>1, <2>2
<1> HIDE DEF named, theme, themed, under, file
<1>11. /\ values["theme"] = named
       /\ \A key \in Key :
             values[key] = IF key \in own THEN Stored(key, file.nodes[key])
                           ELSE IF key \in themed THEN Stored(key, theme.nodes[key])
                           ELSE Defaults[key]
  <2>1. CASE ~file.there
    <3>1. values = Defaults /\ own = {} /\ named = ""
      BY <1>4, <1>8, <1>9, <2>1
    <3> QED BY <1>7, <3>1, DefaultsAre
  <2>2. CASE file.there
    <3>1. values = ReadTables(under, file, DOMAIN Tables)
      BY <1>9, <2>2
    <3>2. \A key \in Applied :
              ReadTables(under, file, DOMAIN Tables)[key] =
                  IF key \in own THEN Stored(key, file.nodes[key]) ELSE under[key]
      BY <1>1, <1>10, ReadTablesIs DEF own
    <3> QED BY <1>4, <1>10, <3>1, <3>2, KeyIs DEF Applied
  <2> QED BY <2>1, <2>2
<1>12. ASSUME NEW key \in Copied
       PROVE  Takes(key, values[key])
  <2>1. key \in Key
    BY KeyIs
  <2>2. CASE key \in own
    BY <1>4, <1>11, <2>1, <2>2, StoredIs
  <2>3. CASE key \in themed /\ key \notin own
    BY <1>5, <1>11, <2>1, <2>3, StoredIs
  <2>4. CASE key \notin themed /\ key \notin own
    BY <1>11, <2>1, <2>4, DefaultsAre
  <2> QED BY <2>2, <2>3, <2>4
<1>13. Means(values, files)
  <2>1. \A key \in Key :
            values[key] = IF key \in own \cup themed
                          THEN Stored(key, (IF key \in own THEN file ELSE theme).nodes[key])
                          ELSE Defaults[key]
    BY <1>11
  <2> QED BY <1>11, <2>1, Zenon DEF Means, own, themed, theme, named, file
<1> QED BY <1>12, <1>13 DEF values, file

-----------------------------------------------------------------------------
(* The values in force.                                                      *)

\* What holds of the settings and of the files they are read from.
SettingsInv ==
    /\ written \in Files
    /\ spent \in [changes : 0..MaxChanges, table : DOMAIN Tables]
    /\ Following(settings) /\ settings.read \in Files
    /\ Means(settings.values, settings.read)

\* Nothing is read yet, and the defaults are in force.
LEMMA SettingsBegin == SettingsInit => SettingsInv
<1> SUFFICES ASSUME SettingsInit
             PROVE  SettingsInv
  OBVIOUS
<1>1. <<"string", "night">> \in Nodes /\ <<"string", "#7aa2f7">> \in Nodes
      /\ <<"integer", 600>> \in Nodes /\ MaxChanges \in Nat
  BY NodesAssumption
<1>2. "theme" \in Paths /\ {"bar.colors.accent", "bar.font.size"} \subseteq Paths
  BY KeyIs, MembersAre DEF Paths
<1>3. Naming("night") \in File
  <2> DEFINE nodes == [path \in {"theme"} |-> <<"string", "night">>]
  <2>1. nodes \in [{"theme"} -> Nodes] /\ {"theme"} \in SUBSET Paths
    BY <1>1, <1>2
  <2> HIDE DEF nodes
  <2>2. nodes \in UNION {[S -> Nodes] : S \in SUBSET Paths}
    BY <2>1
  <2> DEFINE m == Missing
  <2>3. m \in File /\ Naming("night") = [m EXCEPT !.there = TRUE, !.nodes = nodes]
    BY MissingIs DEF Naming, nodes
  <2> HIDE DEF m
  <2> QED BY <2>2, <2>3 DEF File
<1>4. Night \in File
  <2> DEFINE paths == {"bar.colors.accent", "bar.font.size"}
             nodes == [path \in paths |->
                 IF path = "bar.font.size" THEN <<"integer", 600>> ELSE <<"string", "#7aa2f7">>]
  <2>1. nodes \in [paths -> Nodes] /\ paths \in SUBSET Paths
    BY <1>1, <1>2
  <2>2. Night = [there |-> TRUE, syntax |-> TRUE, version |-> Current, nodes |-> nodes]
    BY DEF Night
  <2> HIDE DEF nodes, paths
  <2>3. nodes \in UNION {[S -> Nodes] : S \in SUBSET Paths}
    BY <2>1
  <2> QED BY <2>2, <2>3 DEF File, Versions
<1>5. written \in Files
  BY <1>3, <1>4, MissingIs DEF SettingsInit, Files
<1>6. settings.read \in Files /\ settings.read.config = Missing
  BY MissingIs DEF SettingsInit, Files
<1>7. Following(settings)
  BY DefaultsAre DEF SettingsInit, Following
<1>8. Means(settings.values, settings.read)
  <2>1. Parse(settings.read.config, settings.read.themes) = Defaults
    BY <1>6 DEF Parse, Missing
  <2>2. settings.values = Defaults
    BY DEF SettingsInit
  <2> QED BY <1>6, <2>1, <2>2, ParseIs
<1>9. spent \in [changes : 0..MaxChanges, table : DOMAIN Tables]
  BY <1>1 DEF SettingsInit
<1> QED BY <1>5, <1>6, <1>7, <1>8, <1>9 DEF SettingsInv

\* A read applies all of it.
LEMMA ReadFilesKeeps ==
    ASSUME SettingsInv, ReadFiles
    PROVE  SettingsInv'
<1> DEFINE values == Parse(written.config, written.themes)
<1>1. written \in Files /\ Following(settings)
  BY DEF SettingsInv
<1>2. Means(values, written) /\ \A key \in Copied : Takes(key, values[key])
  BY <1>1, ParseIs
<1>3. values = Parse(written.config, written.themes)
  OBVIOUS
<1> HIDE DEF values
<1>4. /\ Following(ApplySettings(settings, written))
      /\ ApplySettings(settings, written).read = written
      /\ \A key \in Applied : ApplySettings(settings, written).values[key] = values[key]
  BY <1>1, <1>2, <1>3, ApplySettingsKeeps
<1>5. settings' = ApplySettings(settings, written) /\ written' = written /\ spent' = spent
  BY DEF ReadFiles
<1>6. Following(settings') /\ settings'.read = written
      /\ \A key \in Applied : settings'.values[key] = values[key]
  BY <1>4, <1>5
<1>7. Means(settings'.values, settings'.read)
  BY <1>2, <1>6 DEF Means, Applied
<1> QED BY <1>1, <1>5, <1>6, <1>7 DEF SettingsInv

\* An edit is a change of the files alone.
LEMMA ChangeKeeps ==
    ASSUME SettingsInv, NEW files \in Files, Change(files)
    PROVE  SettingsInv'
<1>1. written' = files /\ settings' = settings
  BY DEF Change
<1>2. spent' \in [changes : 0..MaxChanges, table : DOMAIN Tables]
  BY NodesAssumption DEF Change, SettingsInv
<1> QED BY <1>1, <1>2 DEF SettingsInv

\* What an edit makes of a file.
LEMMA EditedIs ==
    ASSUME NEW f \in File, f.there, NEW path \in Paths, NEW g \in Edited(f, path)
    PROVE  g \in File
<1>1. PICK S \in SUBSET Paths : f.nodes \in [S -> Nodes]
  BY DEF File
<1>2. \/ \E node \in Nodes :
            g = [f EXCEPT !.nodes = Over([p \in {path} |-> node], f.nodes)]
      \/ g = [f EXCEPT !.nodes = [p \in DOMAIN f.nodes \ {path} |-> f.nodes[p]]]
  BY DEF Edited
<1>3. ASSUME NEW T \in SUBSET Paths, NEW m \in [T -> Nodes],
             g = [f EXCEPT !.nodes = m]
      PROVE  g \in File
  <2>1. m \in UNION {[U -> Nodes] : U \in SUBSET Paths}
    OBVIOUS
  <2> QED BY <1>3, <2>1 DEF File
<1>4. ASSUME NEW node \in Nodes,
             g = [f EXCEPT !.nodes = Over([p \in {path} |-> node], f.nodes)]
      PROVE  g \in File
  <2> DEFINE T == S \cup {path}
             nodes == Over([p \in {path} |-> node], f.nodes)
  <2>1. nodes = [p \in T |-> IF p \in {path} THEN node ELSE f.nodes[p]]
    BY <1>1 DEF Over
  <2>2. T \in SUBSET Paths /\ nodes \in [T -> Nodes]
    BY <1>1, <2>1
  <2>3. g = [f EXCEPT !.nodes = nodes]
    BY <1>4
  <2> HIDE DEF T, nodes
  <2> QED BY <1>3, <2>2, <2>3
<1>5. ASSUME g = [f EXCEPT !.nodes = [p \in DOMAIN f.nodes \ {path} |-> f.nodes[p]]]
      PROVE  g \in File
  <2> DEFINE T == S \ {path}
             nodes == [p \in T |-> f.nodes[p]]
  <2>1. T \in SUBSET Paths /\ nodes \in [T -> Nodes]
    BY <1>1
  <2>2. g = [f EXCEPT !.nodes = nodes]
    BY <1>1, <1>5
  <2> HIDE DEF T, nodes
  <2> QED BY <1>3, <2>1, <2>2
<1> QED BY <1>2, <1>4, <1>5

\* What is made of a file as a whole.
LEMMA SpoiledIs ==
    ASSUME NEW f \in File, f.there, NEW g \in Spoiled(f)
    PROVE  g \in File
<1>1. \/ g = [f EXCEPT !.syntax = ~@] \/ g = Missing
      \/ \E node \in Versions : g = [f EXCEPT !.version = node]
  BY DEF Spoiled
<1>2. CASE g = [f EXCEPT !.syntax = ~@]
  BY <1>2 DEF File
<1>3. CASE \E node \in Versions : g = [f EXCEPT !.version = node]
  <2>1. PICK node \in Versions : g = [f EXCEPT !.version = node]
    BY <1>3
  <2> QED BY <2>1 DEF File
<1> QED BY <1>1, <1>2, <1>3, MissingIs

\* A file of the written ones, replaced.
LEMMA ReplacedIs ==
    ASSUME NEW d \in Files, NEW g \in File, NEW name \in ThemeNames
    PROVE  /\ [d EXCEPT !.config = g] \in Files
           /\ [d EXCEPT !.themes[name] = g] \in Files
BY DEF Files

\* Every step of Config.
LEMMA SettingsKeep == SettingsInv /\ [SettingsNext]_settingsVars => SettingsInv'
<1> SUFFICES ASSUME SettingsInv, [SettingsNext]_settingsVars
             PROVE  SettingsInv'
  OBVIOUS
<1>1. written \in Files /\ written.config \in File /\ spent.table \in DOMAIN Tables
      /\ \A name \in ThemeNames : written.themes[name] \in File
  BY DEF SettingsInv, Files
<1>2. Touched(spent.table) \subseteq Paths
  <2>1. In(spent.table) \subseteq Key
    BY <1>1 DEF Key
  <2>2. "bar" \in DOMAIN Tables
    BY DEF Tables
  <2> QED BY <1>1, <2>1, <2>2 DEF Touched, Paths
<1>3. CASE ReadFiles
  BY <1>3, ReadFilesKeeps
<1>4. CASE EditConfig
  <2>1. PICK path \in Paths : \E g \in Edited(written.config, path) :
            written.config.there /\ Change([written EXCEPT !.config = g])
    BY <1>2, <1>4 DEF EditConfig
  <2>2. PICK g \in Edited(written.config, path) : Change([written EXCEPT !.config = g])
    BY <2>1
  <2>3. g \in File
    BY <1>1, <2>1, <2>2, EditedIs
  <2>4. [written EXCEPT !.config = g] \in Files
    BY <1>1, <2>3, ReplacedIs DEF ThemeNames
  <2> QED BY <2>2, <2>4, ChangeKeeps
<1>5. CASE EditTheme
  <2>1. PICK name \in ThemeNames, path \in Paths :
            \E g \in Edited(written.themes[name], path) :
                written.themes[name].there /\ Change([written EXCEPT !.themes[name] = g])
    BY <1>2, <1>5 DEF EditTheme
  <2>2. PICK g \in Edited(written.themes[name], path) :
            Change([written EXCEPT !.themes[name] = g])
    BY <2>1
  <2>3. g \in File
    BY <1>1, <2>1, <2>2, EditedIs
  <2>4. [written EXCEPT !.themes[name] = g] \in Files
    BY <1>1, <2>3, ReplacedIs
  <2> QED BY <2>2, <2>4, ChangeKeeps
<1>6. CASE SpoilConfig
  <2>1. PICK g \in Spoiled(written.config) :
            written.config.there /\ Change([written EXCEPT !.config = g])
    BY <1>6 DEF SpoilConfig
  <2>2. [written EXCEPT !.config = g] \in Files
    <3>1. g \in File
      BY <1>1, <2>1, SpoiledIs
    <3> QED BY <1>1, <3>1, ReplacedIs DEF ThemeNames
  <2> QED BY <2>1, <2>2, ChangeKeeps
<1>7. CASE SpoilTheme
  <2>1. PICK name \in ThemeNames : \E g \in Spoiled(written.themes[name]) :
            written.themes[name].there /\ Change([written EXCEPT !.themes[name] = g])
    BY <1>7 DEF SpoilTheme
  <2>2. PICK g \in Spoiled(written.themes[name]) :
            Change([written EXCEPT !.themes[name] = g])
    BY <2>1
  <2>3. g \in File
    BY <1>1, <2>1, <2>2, SpoiledIs
  <2>4. [written EXCEPT !.themes[name] = g] \in Files
    BY <1>1, <2>3, ReplacedIs
  <2> QED BY <2>2, <2>4, ChangeKeeps
<1>8. CASE UNCHANGED settingsVars
  BY <1>8 DEF settingsVars, SettingsInv
<1> QED BY <1>3, <1>4, <1>5, <1>6, <1>7, <1>8 DEF SettingsNext

\* What the invariant says of the values, the followers and the warnings.
LEMMA SettingsGive == SettingsInv => SettingsInStep
<1> SUFFICES ASSUME SettingsInv
             PROVE  SettingsInStep
  OBVIOUS
<1>1. ASSUME NEW f \in File
      PROVE  /\ IsFile(f)
             /\ \A path \in DOMAIN f.nodes : f.nodes[path] \in Nodes
  <2>1. PICK S \in SUBSET Paths : f.nodes \in [S -> Nodes]
    BY DEF File
  <2>2. DOMAIN f.nodes = S /\ \A path \in S : f.nodes[path] \in Nodes
    BY <2>1
  <2> QED BY <2>2 DEF File, IsFile, Paths
<1>2. SettingsTypeOK
  <2>1. IsDisk(written) /\ IsDisk(settings.read)
    BY <1>1 DEF SettingsInv, Files, IsDisk
  <2> QED BY <2>1 DEF SettingsInv, SettingsTypeOK, Following, Applied
<1>3. InForce
  <2>1. Means(settings.values, settings.read) /\ settings.stale = {}
        /\ \A key \in Copied : settings.copies[key] = settings.values[key]
    BY DEF SettingsInv, Following
  <2> QED BY <2>1, Zenon DEF Means, InForce
<1>4. NotSilent(Narrowed)
  <2> DEFINE file == settings.read.config
             own == Supplied(file, DOMAIN Tables)
             named == ThemeNamed(file)
  <2>1. file \in File
    BY DEF SettingsInv, Files
  <2>2. own \subseteq Key
        /\ \A key \in own : file.nodes[key] \in Nodes /\ Accepted(key, file.nodes[key])
    BY <2>1, SuppliedIs
  <2>3. settings.values["theme"] = named
        /\ \A key \in own : settings.values[key] = Stored(key, file.nodes[key])
    BY <2>2 DEF SettingsInv, Means
  <2> SUFFICES ASSUME NEW path \in Reached(file) \ Warnings(file, DOMAIN Tables),
                      path \notin Narrowed
               PROVE  settings.values[path] = Number(path, file.nodes[path])
    BY DEF NotSilent
  <2>4. CASE path \in own
    BY <2>2, <2>3, <2>4, StoredIs
  <2>5. CASE path \notin own
    <3>1. path = "theme" /\ ~(named = "" /\ file.nodes[path] # <<"string", "">>)
      BY <2>5 DEF Warnings
    <3>2. Number(path, file.nodes[path]) = file.nodes[path][2]
      BY <3>1 DEF Number
    <3>3. named = file.nodes[path][2]
      <4>1. CASE named # ""
        BY <3>1, <4>1 DEF ThemeNamed
      <4>2. CASE named = ""
        <5>1. file.nodes[path] = <<"string", "">>
          BY <3>1, <4>2
        <5>2. <<"string", "">>[2] = ""
          OBVIOUS
        <5> HIDE DEF named
        <5> QED BY <4>2, <5>1, <5>2
      <4> QED BY <4>1, <4>2
    <3> QED BY <2>3, <3>1, <3>2, <3>3
  <2> QED BY <2>4, <2>5
<1> QED BY <1>2, <1>3, <1>4 DEF SettingsInStep

-----------------------------------------------------------------------------
(* The theorems.                                                             *)

\* ConfigWatcher by itself: its watches cover what would show the next change, and no
\* edit is lost but in the one way that the code has.
THEOREM NoEditIsLost == Spec => [](WellFormed /\ NoEditLostUnlessMissed)
<1>1. Init => WatcherInv
  BY WatcherBegins
<1>2. WatcherInv /\ [Next]_vars => WatcherInv'
  BY WatcherKeeps
<1>3. WatcherInv => WellFormed /\ NoEditLostUnlessMissed
  BY WatcherGives
<1> QED BY <1>1, <1>2, <1>3, PTL DEF Spec

\* The clock by itself shows the minute it is whenever the shell has nothing to do.
THEOREM ClockShowsTheTime == ClockSpec => []ShowsTheTime
<1>1. ClockInit => ClockInv
  BY ClockBegins
<1>2. ClockInv /\ [ClockNext]_clockVars => ClockInv'
  BY ClockKeeps
<1>3. ClockInv => ShowsTheTime
  BY ClockGives
<1> QED BY <1>1, <1>2, <1>3, PTL DEF ClockSpec

\* The values in force are what the last files that were read and could be used mean, every
\* follower of a value has been told of it, and what is not used as written is warned of.
THEOREM SettingsStayInStep == SettingsSpec => []SettingsInStep
<1>1. SettingsInit => SettingsInv
  BY SettingsBegin
<1>2. SettingsInv /\ [SettingsNext]_settingsVars => SettingsInv'
  BY SettingsKeep
<1>3. SettingsInv => SettingsInStep
  BY SettingsGive
<1> QED BY <1>1, <1>2, <1>3, PTL DEF SettingsSpec

\* Each of the three holds of the behaviours that are about it.
FilesInv ==
    /\ subject = "watcher" => WatcherInv
    /\ subject = "clock" => ClockInv
    /\ subject = "schema" => SettingsInv

\* Every step of the three is one of the subject's.
LEMMA FilesKeep == FilesInv /\ [EachNext]_filesVars => FilesInv'
<1> SUFFICES ASSUME FilesInv, [EachNext]_filesVars
             PROVE  FilesInv'
  OBVIOUS
<1>1. CASE UNCHANGED filesVars
  <2>1. UNCHANGED <<vars, clockVars, settingsVars, subject>>
    BY <1>1 DEF filesVars, vars, clockVars, settingsVars
  <2>2. subject = "watcher" => WatcherInv'
    BY <2>1, WatcherKeeps DEF FilesInv
  <2>3. subject = "clock" => ClockInv'
    BY <2>1, ClockKeeps DEF FilesInv
  <2>4. subject = "schema" => SettingsInv'
    BY <2>1, SettingsKeep DEF FilesInv
  <2> QED BY <2>1, <2>2, <2>3, <2>4 DEF FilesInv
<1>2. CASE OfWatcher /\ subject' = subject
  <2>1. subject = "watcher" /\ WatcherInv'
    BY <1>2, WatcherKeeps DEF FilesInv, OfWatcher
  <2> QED BY <1>2, <2>1 DEF FilesInv
<1>3. CASE OfSchema /\ subject' = subject
  <2>1. subject = "schema" /\ SettingsInv'
    BY <1>3, SettingsKeep DEF FilesInv, OfSchema
  <2> QED BY <1>3, <2>1 DEF FilesInv
<1>4. CASE OfClock /\ subject' = subject
  <2>1. subject = "clock" /\ ClockInv'
    BY <1>4, ClockKeeps DEF FilesInv, OfClock
  <2> QED BY <1>4, <2>1 DEF FilesInv
<1> QED BY <1>1, <1>2, <1>3, <1>4 DEF EachNext

\* The invariant of what is checked together.
LEMMA FilesAlways == EachFairSpec => []FilesInv
<1>1. EachInit => FilesInv
  BY WatcherBegins, ClockBegins, SettingsBegin DEF EachInit, FilesInv
<1> QED BY <1>1, FilesKeep, PTL DEF EachFairSpec

\* The watches are on present inodes and would show the next change of the disk, whatever
\* edits were made before, during and after a read.
THEOREM WatchesAlwaysCover == EachFairSpec => []WatchesCover
<1>1. FilesInv => WatchesCover
  BY WatcherGives DEF FilesInv, WatchesCover
<1> QED BY <1>1, FilesAlways, PTL

\* What is in force is what the disk says once there is nothing to report or to read, and
\* the clock shows the minute it is, but for the changes each can miss.
THEOREM NoEditIsForgotten == EachFairSpec => []NoEditForgotten
<1>1. FilesInv => NoEditForgotten
  BY WatcherGives, ClockGives DEF FilesInv, NoEditForgotten
<1> QED BY <1>1, FilesAlways, PTL

\* The values in force are what the files mean, whatever edits came before and after.
THEOREM ValuesStayInStep == EachFairSpec => []ValuesInStep
<1>1. FilesInv => ValuesInStep
  BY SettingsGive DEF FilesInv, ValuesInStep
<1> QED BY <1>1, FilesAlways, PTL
=============================================================================
