-------------------------------- MODULE Config --------------------------------
(* Config, the values that are in force, and whoever follows them: QML's       *)
(* bindings and the services, which read a value again when its signal says    *)
(* so, in the middle of the apply() that emits it. The files change, and a read *)
(* of them is applied; how changes come to be read is ConfigWatcher's business. *)
EXTENDS ConfigSchema

CONSTANTS Nodes,       \* what an edit may write at a key
          MaxChanges   \* bound: edits of the files

\* A node is of a type. What the files say at first is something that can be written.
ASSUME NodesAssumption ==
    /\ \A node \in Nodes : node[1] = "integer" => node[2] \in Int
    /\ {<<"string", "night">>, <<"string", "#7aa2f7">>, <<"integer", 600>>} \subseteq Nodes
    /\ MaxChanges \in Nat

\* written: config.toml, and the themes by name. spent: edits so far, and the bound on
\* them that they touch the keys of one table, chosen at the start.
VARIABLES written, settings, spent

settingsVars == <<written, settings, spent>>

Missing == [there |-> FALSE, syntax |-> TRUE, version |-> Absent, nodes |-> <<>>]

Versions == {Absent, Current, <<"integer", 2>>, <<"string", "1">>}

\* What edits touch: a table's keys, the theme, what is no table, and a key nobody reads.
Touched(table) == In(table) \cup {"theme", table, "bar", "bar.other"}
Themed == In("bar.colors") \cup In("bar.font") \cup ThemeTables

IsFile(f) ==
    /\ f.there \in BOOLEAN /\ f.syntax \in BOOLEAN /\ f.version \in Versions
    /\ DOMAIN f.nodes \subseteq Key \cup {"theme", "bar.other"} \cup DOMAIN Tables
    /\ \A path \in DOMAIN f.nodes : f.nodes[path] \in Nodes

-----------------------------------------------------------------------------
(* Config::apply.                                                            *)

\* The theme, the bar's own keys, its tables, the launcher.
Order == <<"theme">> \o BarKeys \o SystemKeys \o AudioKeys \o NetworkKeys \o BatteryKeys
         \o NotificationsKeys \o OsdKeys \o MediaKeys \o ColorsKeys \o FontKeys
         \o LauncherKeys

\* A key has a signal of its own, but for the notifications' two, which share one.
Signal(key) ==
    IF key = "bar.notifications.timeout_ms" THEN "bar.notifications.show_notifications"
    ELSE key

\* The keys that services keep copies of, and what each setter refuses of them.
SysMonTakes(key, value) == key = "bar.system.sample_interval_ms" /\ value >= 10

PipeWireTakes(key, value) ==
    \/ key \in {"bar.audio.step_percent", "bar.audio.step_decibels"} /\ value >= 1
    \/ key = "bar.audio.volume_scale" /\ value \in VolumeScales

LauncherTakes(key, value) == key = "launcher.max_results" /\ 1 <= value /\ value <= 50

Copied == {"bar.system.sample_interval_ms", "bar.audio.step_percent",
           "bar.audio.step_decibels", "bar.audio.volume_scale", "launcher.max_results"}

Takes(key, value) ==
    SysMonTakes(key, value) \/ PipeWireTakes(key, value) \/ LauncherTakes(key, value)

\* Bindings and services read when a signal is emitted: stale are the keys not yet read.
Emit(s, signal) ==
    [s EXCEPT !.stale = {key \in @ : Signal(key) # signal},
              !.copies = [key \in Copied |->
                  IF key = signal /\ Takes(key, s.values[key]) THEN s.values[key] ELSE @[key]]]

Assign(s, key, value) == [s EXCEPT !.values[key] = value, !.stale = @ \cup {key}]

ApplyKey(s, key, value) == Emit(Assign(s, key, value), Signal(key))

ApplyIfDiffers(s, key, value) ==
    IF s.values[key] = value THEN s ELSE ApplyKey(s, key, value)

\* The keys, one after the other. read is a ghost: the files that the values are from.
ApplySettings(s, files) ==
    LET values == Parse(files.config, files.themes)
        applied[n \in 0..Len(Order)] ==
            IF n = 0 THEN [s EXCEPT !.read = files]
            ELSE ApplyIfDiffers(applied[n - 1], Order[n], values[Order[n]])
    IN  applied[Len(Order)]

\* A file that cannot be used changes nothing.
ReadFiles ==
    /\ Usable(written.config)
    /\ settings' = ApplySettings(settings, written)
    /\ UNCHANGED <<written, spent>>

-----------------------------------------------------------------------------
(* The files.                                                                *)

Change(files) ==
    /\ spent.changes < MaxChanges
    /\ spent' = [spent EXCEPT !.changes = @ + 1]
    /\ written' = files
    /\ UNCHANGED settings

\* Something written at a path, or nothing any more.
Edited(file, path) ==
    {[file EXCEPT !.nodes = Over([p \in {path} |-> node], @)] : node \in Nodes}
    \cup {[file EXCEPT !.nodes = [p \in DOMAIN @ \ {path} |-> @[p]]]}

EditConfig ==
    \E path \in Touched(spent.table) : \E file \in Edited(written.config, path) :
        written.config.there /\ Change([written EXCEPT !.config = file])

EditTheme ==
    \E name \in ThemeNames, path \in Themed \cap Touched(spent.table) :
        \E file \in Edited(written.themes[name], path) :
            written.themes[name].there /\ Change([written EXCEPT !.themes[name] = file])

\* The file as a whole: cut short, of another version, removed.
Spoiled(file) ==
    {[file EXCEPT !.syntax = ~@], Missing}
    \cup {[file EXCEPT !.version = node] : node \in Versions}

SpoilConfig ==
    \E file \in Spoiled(written.config) :
        written.config.there /\ Change([written EXCEPT !.config = file])

SpoilTheme ==
    \E name \in ThemeNames : \E file \in Spoiled(written.themes[name]) :
        written.themes[name].there /\ Change([written EXCEPT !.themes[name] = file])

-----------------------------------------------------------------------------
Naming(name) ==
    [Missing EXCEPT !.there = TRUE, !.nodes = [path \in {"theme"} |-> <<"string", name>>]]

Night == [there |-> TRUE, syntax |-> TRUE, version |-> Current,
          nodes |-> [path \in {"bar.colors.accent", "bar.font.size"} |->
              IF path = "bar.font.size" THEN <<"integer", 600>> ELSE <<"string", "#7aa2f7">>]]

\* One theme, which is named; nothing was read before.
SettingsInit ==
    /\ written = [config |-> Naming("night"),
                  themes |-> [name \in ThemeNames |-> IF name = "night" THEN Night ELSE Missing]]
    /\ settings = [values |-> Defaults, stale |-> {},
                   copies |-> [key \in Copied |-> Defaults[key]],
                   read |-> [config |-> Missing, themes |-> [name \in ThemeNames |-> Missing]]]
    /\ spent \in [changes : {0}, table : DOMAIN Tables]

SettingsNext == ReadFiles \/ EditConfig \/ EditTheme \/ SpoilConfig \/ SpoilTheme

SettingsSpec == SettingsInit /\ [][SettingsNext]_settingsVars

-----------------------------------------------------------------------------
IsDisk(files) == IsFile(files.config) /\ \A name \in ThemeNames : IsFile(files.themes[name])

\* Every variable has its type.
SettingsTypeOK ==
    /\ IsDisk(written) /\ IsDisk(settings.read) /\ spent.changes \in 0..MaxChanges
    /\ DOMAIN settings.values = Key \cup {"theme"} /\ settings.stale \subseteq Key
    /\ DOMAIN settings.copies = Copied

\* However the edits went, what is in force depends on the last usable file and its theme
\* alone: nothing of an earlier file or theme is left behind, what the file says itself is
\* not lost to the theme. Whoever follows a value, by a signal of its own or one it shares,
\* has not missed its change, and no service refuses what the file's rules let through.
InForce ==
    LET files == settings.read
        own == Supplied(files.config, DOMAIN Tables)
        named == ThemeNamed(files.config)
        theme == IF named = "" THEN Missing ELSE files.themes[named]
        themed == IF Usable(theme) THEN Supplied(theme, ThemeTables) ELSE {}
        source(key) == IF key \in own THEN files.config ELSE theme
    IN  /\ settings.stale = {}
        /\ \A key \in Copied : settings.copies[key] = settings.values[key]
        /\ settings.values["theme"] = named
        /\ \A key \in Key :
              settings.values[key] = IF key \in own \cup themed
                                     THEN Stored(key, source(key).nodes[key])
                                     ELSE Defaults[key]

Number(key, node) ==
    IF key = "bar.audio.step_decibels" /\ node[1] = "integer" THEN 10 * node[2] ELSE node[2]

\* Nothing that a file in use says is passed over in silence: what is not in force as it is
\* written is warned of. The three numbers that the code narrows are left out.
Narrowed == {"bar.notifications.timeout_ms", "bar.font.size", "bar.font.weight"}

NotSilent(exempt) ==
    LET file == settings.read.config
    IN  \A path \in Reached(file) \ Warnings(file, DOMAIN Tables) :
            path \in exempt \/ settings.values[path] = Number(path, file.nodes[path])

\* The values in force are well typed, are what the files mean and are what they say.
SettingsInStep == SettingsTypeOK /\ InForce /\ NotSilent(Narrowed)

\* ConfigSchema.cpp: "a value from the file must never wrap into one that means something
\* else". Every value that is used is used as it is written.
UsedAsWritten == NotSilent({})
=============================================================================
