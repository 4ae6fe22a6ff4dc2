--------------------------- MODULE MCConfigWatcher ---------------------------
(* Two themes, of which each can be edited, and three edits on every disk to *)
(* start from: enough for a change during a read and another after it.       *)
EXTENDS ConfigWatcher
=============================================================================
