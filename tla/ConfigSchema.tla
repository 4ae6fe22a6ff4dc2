----------------------------- MODULE ConfigSchema -----------------------------
(* What a configuration file means: the keys, their defaults, the rule each    *)
(* value is held to, and the theme laid under the file's own tables. A file is *)
(* what the TOML library makes of it; a node is <<type, value>>, a float in    *)
(* tenths, and a string is one of the few that the rules tell apart.           *)
EXTENDS Integers, Sequences, SequencesExt

CONSTANT IntMax     \* the largest int; the file's own integers are wider

\* The defaults, and the ceilings that are literals, are ints.
ASSUME IntAssumption == IntMax \in Nat /\ IntMax >= 5000

\* The keys by their path, table by table, in the order in which they are applied.
SystemKeys == <<"bar.system.sample_interval_ms", "bar.system.show_cpu",
                "bar.system.show_memory", "bar.system.memory_format">>
AudioKeys == <<"bar.audio.show_volume", "bar.audio.volume_scale",
               "bar.audio.step_percent", "bar.audio.step_decibels">>
NetworkKeys == <<"bar.network.show_status", "bar.network.show_name",
                 "bar.network.show_strength">>
BatteryKeys == <<"bar.battery.show_status", "bar.battery.show_percentage",
                 "bar.battery.show_time">>
MediaKeys == <<"bar.media.show_media">>
NotificationsKeys == <<"bar.notifications.show_notifications",
                       "bar.notifications.timeout_ms">>
OsdKeys == <<"bar.osd.show_osd", "bar.osd.timeout_ms">>
ColorsKeys == <<"bar.colors.foreground", "bar.colors.muted", "bar.colors.accent",
                "bar.colors.urgent">>
FontKeys == <<"bar.font.family", "bar.font.size", "bar.font.weight">>
BarKeys == <<"bar.height", "bar.namespace">>
LauncherKeys == <<"launcher.max_results">>

Tables ==
    [table \in {"bar.system", "bar.audio", "bar.network", "bar.battery", "bar.media",
                "bar.notifications", "bar.osd", "bar.colors", "bar.font", "bar", "launcher"} |->
        CASE table = "bar.system" -> SystemKeys
          [] table = "bar.audio" -> AudioKeys
          [] table = "bar.network" -> NetworkKeys
          [] table = "bar.battery" -> BatteryKeys
          [] table = "bar.media" -> MediaKeys
          [] table = "bar.notifications" -> NotificationsKeys
          [] table = "bar.osd" -> OsdKeys
          [] table = "bar.colors" -> ColorsKeys
          [] table = "bar.font" -> FontKeys
          [] table = "bar" -> BarKeys
          [] table = "launcher" -> LauncherKeys]

In(table) == ToSet(Tables[table])

Key == UNION {In(table) : table \in DOMAIN Tables}

TableOf == [key \in Key |-> CHOOSE table \in DOMAIN Tables : key \in In(table)]

\* upper, laid over lower.
Over(upper, lower) ==
    [path \in DOMAIN upper \cup DOMAIN lower |->
        IF path \in DOMAIN upper THEN upper[path] ELSE lower[path]]

\* Their defaults, the initializers of the structs.
SystemConfig ==
    [key \in In("bar.system") |->
        IF key = "bar.system.sample_interval_ms" THEN 2000
        ELSE IF key = "bar.system.memory_format" THEN "used_of_total" ELSE TRUE]
AudioConfig ==
    [key \in In("bar.audio") |->
        CASE key = "bar.audio.show_volume" -> TRUE
          [] key = "bar.audio.volume_scale" -> "percent"
          [] key = "bar.audio.step_percent" -> 5
          [] key = "bar.audio.step_decibels" -> 10]
NetworkConfig == [key \in In("bar.network") |-> TRUE]
BatteryConfig == [key \in In("bar.battery") |-> TRUE]
MediaConfig == [key \in In("bar.media") |-> TRUE]
NotificationsConfig ==
    [key \in In("bar.notifications") |->
        IF key = "bar.notifications.timeout_ms" THEN 5000 ELSE TRUE]
OsdConfig == [key \in In("bar.osd") |-> IF key = "bar.osd.timeout_ms" THEN 1500 ELSE TRUE]
ColorsConfig == [key \in In("bar.colors") |-> "#c8cad8"]
FontConfig ==
    [key \in In("bar.font") |->
        CASE key = "bar.font.family" -> "Inter"
          [] key = "bar.font.size" -> 12
          [] key = "bar.font.weight" -> 400]
BarConfig == [key \in In("bar") |-> IF key = "bar.height" THEN 32 ELSE "quantum-shell-bar"]
LauncherConfig == [key \in In("launcher") |-> 8]

Defaults ==
    [key \in Key \cup {"theme"} |->
        CASE key \in DOMAIN SystemConfig -> SystemConfig[key]
          [] key \in DOMAIN AudioConfig -> AudioConfig[key]
          [] key \in DOMAIN NetworkConfig -> NetworkConfig[key]
          [] key \in DOMAIN BatteryConfig -> BatteryConfig[key]
          [] key \in DOMAIN MediaConfig -> MediaConfig[key]
          [] key \in DOMAIN NotificationsConfig -> NotificationsConfig[key]
          [] key \in DOMAIN OsdConfig -> OsdConfig[key]
          [] key \in DOMAIN ColorsConfig -> ColorsConfig[key]
          [] key \in DOMAIN FontConfig -> FontConfig[key]
          [] key \in DOMAIN BarConfig -> BarConfig[key]
          [] key \in DOMAIN LauncherConfig -> LauncherConfig[key]
          [] key = "theme" -> ""]

-----------------------------------------------------------------------------
(* The rules. A value of the wrong type is refused and never converted.       *)

\* static_cast<int>.
Narrow(n) == ((n + IntMax + 1) % (2 * (IntMax + 1))) - (IntMax + 1)

Flag(node) == node[1] = "boolean"
String(node) == node[1] = "string"
Integer(node, floor, ceiling) ==
    node[1] = "integer" /\ floor <= node[2] /\ node[2] <= ceiling

MemoryFormats == {"used_of_total", "used", "available", "percent"}
VolumeScales == {"percent", "decibel"}
ColorLiterals == {"#c8cad8", "#7aa2f7"}
Namespaces == {"quantum-shell-bar", "quantum-shell-top"}
ThemeNames == {"night", "day"}

SystemReads(key, node) ==
    \/ key \in {"bar.system.show_cpu", "bar.system.show_memory"} /\ Flag(node)
    \/ /\ key = "bar.system.memory_format"
       /\ String(node) /\ node[2] \in MemoryFormats
    \/ key = "bar.system.sample_interval_ms" /\ Integer(node, 10, IntMax)

AudioReads(key, node) ==
    \/ key = "bar.audio.show_volume" /\ Flag(node)
    \/ key = "bar.audio.volume_scale" /\ String(node) /\ node[2] \in VolumeScales
    \/ key = "bar.audio.step_percent" /\ Integer(node, 1, IntMax)
    \/ /\ key = "bar.audio.step_decibels"
       /\ \/ node[1] = "float" /\ node[2] >= 1
          \/ node[1] = "integer" /\ 10 * node[2] >= 1

NetworkReads(key, node) == key \in In("bar.network") /\ Flag(node)
BatteryReads(key, node) == key \in In("bar.battery") /\ Flag(node)
MediaReads(key, node) == key \in In("bar.media") /\ Flag(node)

\* The only integer without a ceiling.
NotificationsReads(key, node) ==
    \/ key = "bar.notifications.show_notifications" /\ Flag(node)
    \/ /\ key = "bar.notifications.timeout_ms"
       /\ node[1] = "integer" /\ (node[2] = 0 \/ node[2] >= 500)

OsdReads(key, node) ==
    \/ key = "bar.osd.show_osd" /\ Flag(node)
    \/ key = "bar.osd.timeout_ms" /\ Integer(node, 500, IntMax)

ColorsReads(key, node) ==
    key \in In("bar.colors") /\ String(node) /\ node[2] \in ColorLiterals

\* The two numbers are narrowed before they are looked at.
FontReads(key, node) ==
    \/ key = "bar.font.family" /\ String(node) /\ node[2] # ""
    \/ key = "bar.font.size" /\ node[1] = "integer" /\ Narrow(node[2]) >= 1
    \/ key = "bar.font.weight" /\ node[1] = "integer" /\ Narrow(node[2]) \in 100..900

BarReads(key, node) ==
    \/ key = "bar.height" /\ Integer(node, 1, IntMax)
    \/ key = "bar.namespace" /\ String(node) /\ node[2] \in Namespaces

LauncherReads(key, node) == key = "launcher.max_results" /\ Integer(node, 1, 50)

Accepted(key, node) ==
    \/ SystemReads(key, node) \/ AudioReads(key, node) \/ NetworkReads(key, node)
    \/ BatteryReads(key, node) \/ MediaReads(key, node) \/ NotificationsReads(key, node)
    \/ OsdReads(key, node) \/ ColorsReads(key, node) \/ FontReads(key, node)
    \/ BarReads(key, node) \/ LauncherReads(key, node)

\* What is stored of an accepted node.
Stored(key, node) ==
    CASE node[1] = "integer" /\ key = "bar.audio.step_decibels" -> 10 * node[2]
      [] node[1] = "integer" /\ key # "bar.audio.step_decibels" -> Narrow(node[2])
      [] node[1] # "integer" -> node[2]

-----------------------------------------------------------------------------
(* A file has syntax, TRUE if it is TOML; a version, absent or not; nodes, what *)
(* is written at each key or table that it mentions; and is there or not.       *)

Absent == <<"absent", 0>>
Current == <<"integer", 1>>

VersionKnown(file) == file.version \in {Absent, Current}

Usable(file) == file.there => file.syntax /\ VersionKnown(file)

\* The tables that a path lies in.
Above(path) ==
    (IF path \in Key THEN {TableOf[path]} ELSE {})
    \cup (IF path \in {"theme", "bar", "launcher", "launcher.max_results"} THEN {} ELSE {"bar"})

\* What is not a table where one is expected has no keys below it.
Reached(file) == {path \in DOMAIN file.nodes : Above(path) \cap DOMAIN file.nodes = {}}

\* The keys that these tables of file supply.
Supplied(file, tables) ==
    {key \in Reached(file) \cap Key :
        TableOf[key] \in tables /\ Accepted(key, file.nodes[key])}

\* values, with those laid over them.
ReadTables(values, file, tables) ==
    Over([key \in Supplied(file, tables) |-> Stored(key, file.nodes[key])], values)

ThemeTables == {"bar.colors", "bar.font"}

\* What a theme supplies: nothing if it cannot be used, and never more than how the bar looks.
ReadTheme(values, theme) ==
    IF ~theme.there \/ ~Usable(theme) THEN values ELSE ReadTables(values, theme, ThemeTables)

\* The theme that is named, "" if none is or the reference is refused.
ThemeNamed(file) ==
    IF "theme" \in DOMAIN file.nodes /\ String(file.nodes["theme"])
       /\ file.nodes["theme"][2] \in ThemeNames
    THEN file.nodes["theme"][2] ELSE ""

\* Mutant: the theme laid over the file's own tables.
ParseThemeLast(file, themes) ==
    LET named == ThemeNamed(file)
        own == ReadTables([Defaults EXCEPT !["theme"] = named], file, DOMAIN Tables)
    IN  IF ~file.there THEN Defaults
        ELSE IF named = "" THEN own ELSE ReadTheme(own, themes[named])

\* What a usable file means: the defaults, over them the theme it names, over that its own.
Parse(file, themes) ==
    LET named == ThemeNamed(file)
        base == [Defaults EXCEPT !["theme"] = named]
        themed == IF named = "" THEN base ELSE ReadTheme(base, themes[named])
    IN  IF ~file.there THEN Defaults ELSE ReadTables(themed, file, DOMAIN Tables)

\* What is warned of, by its path: unknown keys, values refused and what is no table.
Warnings(file, tables) ==
    {path \in Reached(file) \ Supplied(file, tables) :
        path = "theme" => ThemeNamed(file) = "" /\ file.nodes[path] # <<"string", "">>}
=============================================================================
