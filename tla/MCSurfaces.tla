----------------------------- MODULE MCSurfaces -----------------------------
(* Small instances of the surfaces as the hosts hold them, and of one surface  *)
(* as niri has it, in behaviours of their own: the other stays as it starts.   *)
EXTENDS Surfaces, LayerSurface, TLC

VARIABLE subject

surfacesVars == <<vars, layerVars, subject>>

Symmetry == Permutations(Screens) \cup Permutations(Panels)

EachInit ==
    /\ Init /\ LayerInit
    /\ \/ subject = "hosts" /\ window.declared = 0 /\ window.stretched /\ screen = 1
       \/ subject = "surface" /\ screens = <<>>

EachNext ==
    /\ UNCHANGED subject
    /\ \/ subject = "hosts" /\ Next /\ UNCHANGED layerVars
       \/ subject = "surface" /\ LayerNext /\ UNCHANGED vars

EachSpec == EachInit /\ [][EachNext]_surfacesVars

\* The windows are where their hosts' members say, the panels one at a time, and each
\* surface is what its window and niri agree on.
EachInPlace == WellFormed /\ LayerInStep
=============================================================================
