----------------------------- MODULE LayerSurface -----------------------------
(* LayerShellSurface, the layer-shell role of one window: what it asks niri to *)
(* be, and how it takes the size it is given, on one axis. A change on the     *)
(* other, or of layer, margins and the rest, is a request that says the same   *)
(* of this axis. Both directions of the Wayland connection keep their order.   *)
EXTENDS Naturals, Sequences

CONSTANTS Sizes,      \* what the window, and a screen, can measure
          MaxOnWay    \* bound: the window changes only while fewer requests, and fewer
                      \* answers, are on their way

ASSUME LayerAssumption == Sizes \subseteq Nat \ {0} /\ MaxOnWay \in Nat

\* screen is the output's size on the axis, niri what the compositor last gave the surface;
\* asked are the commits on their way to niri, told its configures.
VARIABLES window, asked, told, niri, screen

layerVars == <<window, asked, told, niri, screen>>

\* role: the surface is initialised. declared is the window's size, none when it is zero,
\* proposed mProposedSize, pending mPendingSize, applying whether Qt has yet to apply it;
\* wanted, the size QML last gave the window, and overtaken, whether it gave it one while
\* an answer waited to be applied, are ghosts.
Window == [role : BOOLEAN, configured : BOOLEAN, stretched : BOOLEAN,
           declared : Sizes \cup {0}, proposed : Sizes \cup {0}, pending : Sizes \cup {0},
           applying : BOOLEAN, wanted : Sizes \cup {0}, overtaken : BOOLEAN]

\* On a stretched axis the compositor chooses, on any other the client has to.
ProposedSize(w) ==
    CASE w.stretched -> 0
      [] ~w.stretched /\ w.declared > 0 -> w.declared
      [] ~w.stretched /\ w.declared = 0 -> screen

\* sendConfiguration, and the commit after it.
SendConfiguration(w) ==
    /\ window' = [w EXCEPT !.proposed = ProposedSize(w)]
    /\ asked' = Append(asked, ProposedSize(w))

\* A change of the window's size.
ResendIfProposalChanged(w) ==
    IF w.role /\ ProposedSize(w) # w.proposed THEN SendConfiguration(w)
    ELSE window' = w /\ UNCHANGED asked

\* Mutant: the compositor's size taken on every axis.
ResolveGiven(w, given) == IF given > 0 THEN given ELSE w.declared

\* The size a configure leaves the window: its own stands where it has one to name.
Resolve(w, given) ==
    IF (~w.stretched /\ w.declared > 0) \/ given = 0 THEN w.declared ELSE given

-----------------------------------------------------------------------------
(* The shell. *)

Quiet == Len(asked) < MaxOnWay /\ Len(told) < MaxOnWay

\* The window is shown, which makes the surface.
Present ==
    /\ ~window.role
    /\ SendConfiguration([window EXCEPT !.role = TRUE, !.configured = FALSE, !.pending = 0,
                                        !.applying = FALSE])
    /\ UNCHANGED <<told, niri, screen>>

\* A binding gives the window a size; QML names none on a stretched axis.
QmlResizes(size) ==
    /\ Quiet /\ ~window.stretched /\ size # window.wanted
    /\ ResendIfProposalChanged(
           [window EXCEPT !.declared = size, !.wanted = size,
                          !.overtaken = window.applying])
    /\ UNCHANGED <<told, niri, screen>>

ConfigurationChanged ==
    /\ Quiet /\ window.role
    /\ SendConfiguration(window)
    /\ UNCHANGED <<told, niri, screen>>

\* configure: acknowledged, and applied when Qt finds it possible.
Configure ==
    /\ told # <<>>
    /\ told' = Tail(told)
    /\ window' = [window EXCEPT !.configured = TRUE, !.applying = TRUE,
                                !.pending = Resolve(window, Head(told))]
    /\ UNCHANGED <<asked, niri, screen>>

ApplyConfigure ==
    /\ window.applying
    /\ LET applied == [window EXCEPT !.applying = FALSE]
       IN  IF window.pending \in {0, window.declared} THEN window' = applied /\ UNCHANGED asked
           ELSE ResendIfProposalChanged([applied EXCEPT !.declared = window.pending])
    /\ UNCHANGED <<told, niri, screen>>

\* The surface goes with the window, which its host hides, or which closes with it.
Destroyed ==
    /\ window.role
    /\ window' = [window EXCEPT !.role = FALSE, !.configured = FALSE, !.applying = FALSE]
    /\ asked' = <<>> /\ told' = <<>> /\ niri' = 0
    /\ UNCHANGED screen

-----------------------------------------------------------------------------
(* niri. *)

Given(size) == IF size = 0 THEN screen ELSE size

\* A surface is told its size when it is new and when its size becomes another.
NiriReads ==
    /\ asked # <<>>
    /\ asked' = Tail(asked)
    /\ niri' = Given(Head(asked))
    /\ told' = IF niri' = niri THEN told ELSE Append(told, niri')
    /\ UNCHANGED <<window, screen>>

\* The output changes its mode, and with it the surfaces that are stretched over it.
OutputResized(size) ==
    /\ Quiet /\ size # screen
    /\ screen' = size
    /\ IF window.stretched /\ niri # 0 THEN niri' = size /\ told' = Append(told, size)
       ELSE UNCHANGED <<niri, told>>
    /\ UNCHANGED <<window, asked>>

-----------------------------------------------------------------------------
LayerInit ==
    /\ \E stretched \in BOOLEAN, size \in Sizes \cup {0} :
          /\ stretched => size = 0
          /\ window = [role |-> FALSE, configured |-> FALSE, stretched |-> stretched,
                       declared |-> size, proposed |-> 0, pending |-> 0, applying |-> FALSE,
                       wanted |-> size, overtaken |-> FALSE]
    /\ asked = <<>> /\ told = <<>> /\ niri = 0
    /\ screen \in Sizes

LayerNext ==
    \/ Present \/ ConfigurationChanged \/ Configure \/ ApplyConfigure \/ Destroyed
    \/ NiriReads
    \/ \E size \in Sizes : QmlResizes(size) \/ OutputResized(size)

LayerSpec == LayerInit /\ [][LayerNext]_layerVars

-----------------------------------------------------------------------------
\* The types; and niri is never asked for no size where the client has to name one, nor
\* for one where niri does: either would be a protocol error, or a size nobody chose.
LayerTypeOK ==
    /\ window \in Window /\ niri \in Sizes \cup {0} /\ screen \in Sizes
    /\ told \in Seq(Sizes) /\ asked \in Seq(Sizes \cup {0})
    /\ \A i \in DOMAIN asked : asked[i] = 0 <=> window.stretched

\* When nothing is on its way the window is as large as niri has it, which is the whole
\* output where it is stretched and what QML gave it where it is not: an answer to an
\* earlier request never changes it back, but for one that waited to be applied.
SizesAgree ==
    window.configured /\ asked = <<>> /\ told = <<>> /\ ~window.applying =>
        /\ window.declared = niri
        /\ window.stretched => niri = screen
        /\ window.wanted # 0 /\ ~window.overtaken => window.declared = window.wanted

LayerInStep == LayerTypeOK /\ SizesAgree
=============================================================================
