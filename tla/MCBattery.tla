------------------------------- MODULE MCBattery -------------------------------
(* Two devices, two lives of the daemon, and moves enough for one to overtake *)
(* a walk that another one started.                                           *)
EXTENDS Battery
=============================================================================
