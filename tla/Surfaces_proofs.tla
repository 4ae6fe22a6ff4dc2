-------------------------- MODULE Surfaces_proofs --------------------------
(***************************************************************************)
(* The surfaces, for any screens and panels and for sizes of any width.    *)
(* First a surface and niri: what is on its way ends in a size both agree  *)
(* on, on an axis niri chooses (Chosen) and on one QML names (Named). Then *)
(* the hosts: Sound says of a panel, and of the sampling, what every call  *)
(* leaves; the calls are taken apart once and the steps follow.            *)
(*                                                                         *)
(* Then the outputs the surfaces are on: NiriOutputs never waits for a     *)
(* request that does not exist, for any set of connectors and any number   *)
(* of changes, faults and refusals.  Sound is what every handler keeps at  *)
(* every point of a dispatch; each operator the dispatches are built from  *)
(* gets a lemma that says so, and each dispatch composes those of the      *)
(* operators it calls.                                                     *)
(***************************************************************************)
EXTENDS MCSurfaces, NiriOutputs, SequenceTheorems, FiniteSetTheorems, TLAPS

-----------------------------------------------------------------------------
(* A surface and niri. *)

\* Where niri chooses, the last it said is the output's size, and it reaches the window.
Chosen ==
    /\ window.wanted = 0
    /\ niri # 0 => niri = screen
    /\ told # <<>> => told[Len(told)] = niri
    /\ told = <<>> /\ window.applying => window.pending = niri
    /\ told = <<>> /\ window.configured /\ ~window.applying => window.declared = niri

\* Where the window names its size, the last it asked for is that size, which is QML's
\* unless an answer that waited was applied over it.
Named ==
    /\ window.role =>
           /\ asked # <<>> => asked[Len(asked)] = window.proposed
           /\ asked = <<>> => niri = window.proposed
           /\ window.declared # 0 => window.proposed = window.declared
    /\ window.wanted # 0 /\ ~window.overtaken =>
           /\ window.declared = window.wanted
           /\ window.applying => window.pending = window.declared

LayerInv ==
    /\ LayerTypeOK
    /\ window.applying => window.pending # 0
    /\ window.configured \/ window.applying => window.role
    /\ window.configured /\ ~window.applying => window.declared # 0
    /\ ~window.role => asked = <<>> /\ told = <<>> /\ niri = 0
    /\ window.stretched => Chosen
    /\ ~window.stretched => Named

\* What appending to, and taking from, a queue does to its ends.
LEMMA Appended ==
    ASSUME NEW S, NEW s \in Seq(S), NEW x \in S
    PROVE  /\ Append(s, x) \in Seq(S) /\ Append(s, x) # <<>>
           /\ Append(s, x)[Len(Append(s, x))] = x
           /\ \A i \in DOMAIN Append(s, x) : \/ i \in DOMAIN s /\ Append(s, x)[i] = s[i]
                                             \/ Append(s, x)[i] = x
  <1> DEFINE t == Append(s, x)
  <1>1. /\ t \in Seq(S) /\ Len(t) = Len(s) + 1 /\ Len(s) \in Nat
        /\ \A i \in 1..Len(s) : t[i] = s[i]
        /\ t[Len(s) + 1] = x /\ DOMAIN t = 1..Len(t) /\ DOMAIN s = 1..Len(s)
    BY AppendProperties, LenProperties
  <1> HIDE DEF t
  <1>2. t # <<>>
    BY <1>1
  <1>3. t[Len(t)] = x
    BY <1>1
  <1>4. \A i \in DOMAIN t : (i \in DOMAIN s /\ t[i] = s[i]) \/ t[i] = x
    BY <1>1
  <1> QED
    BY <1>1, <1>2, <1>3, <1>4 DEF t

\* The head of a sequence and what is behind it.
LEMMA Taken ==
    ASSUME NEW S, NEW s \in Seq(S), s # <<>>
    PROVE  /\ Head(s) \in S /\ Tail(s) \in Seq(S)
           /\ Head(s) = s[1] /\ 1 \in DOMAIN s
           /\ Tail(s) # <<>> => Tail(s)[Len(Tail(s))] = s[Len(s)]
           /\ Tail(s) = <<>> => Head(s) = s[Len(s)]
           /\ \A i \in DOMAIN Tail(s) : i + 1 \in DOMAIN s /\ Tail(s)[i] = s[i + 1]
  <1> DEFINE t == Tail(s)
  <1>1. /\ Head(s) \in S /\ t \in Seq(S) /\ Len(t) = Len(s) - 1 /\ Len(s) \in Nat
        /\ \A i \in 1..Len(t) : t[i] = s[i + 1]
        /\ DOMAIN t = 1..Len(t) /\ DOMAIN s = 1..Len(s) /\ Len(t) \in Nat
    BY HeadTailProperties, LenProperties
  <1>2. Head(s) = s[1]
    OBVIOUS
  <1> HIDE DEF t
  <1>3. 1 \in DOMAIN s
    BY <1>1
  <1>4. t # <<>> => t[Len(t)] = s[Len(s)]
    <2>1. t # <<>> => Len(t) \in 1..Len(t)
      BY <1>1
    <2>2. Len(t) + 1 = Len(s)
      BY <1>1
    <2> QED
      BY <1>1, <2>1, <2>2
  <1>5. t = <<>> => Len(s) = 1
    BY <1>1
  <1>6. \A i \in DOMAIN t : i + 1 \in DOMAIN s /\ t[i] = s[i + 1]
    BY <1>1
  <1> QED
    BY <1>1, <1>2, <1>3, <1>4, <1>5, <1>6 DEF t

\* A proposal is none exactly where niri chooses, and the window's size where it has one.
LEMMA Proposal ==
    ASSUME NEW w \in Window, screen \in Sizes
    PROVE  /\ ProposedSize(w) \in Sizes \cup {0}
           /\ ProposedSize(w) = 0 <=> w.stretched
           /\ ~w.stretched /\ w.declared # 0 => ProposedSize(w) = w.declared
  BY LayerAssumption DEF ProposedSize, Window

\* A commit from a window w that is otherwise in step.
LEMMA Committed ==
    ASSUME LayerInv, NEW w \in Window, SendConfiguration(w), UNCHANGED <<told, niri, screen>>,
           w.role, w.stretched = window.stretched
    PROVE  /\ window' \in Window /\ asked' \in Seq(Sizes \cup {0})
           /\ \A i \in DOMAIN asked' : asked'[i] = 0 <=> window'.stretched
           /\ asked' # <<>> /\ asked'[Len(asked')] = window'.proposed
           /\ window'.role = w.role /\ window'.configured = w.configured
           /\ window'.stretched = w.stretched /\ window'.declared = w.declared
           /\ window'.pending = w.pending /\ window'.applying = w.applying
           /\ window'.wanted = w.wanted /\ window'.overtaken = w.overtaken
           /\ ~w.stretched /\ w.declared # 0 => window'.proposed = w.declared
  <1>1. /\ ProposedSize(w) \in Sizes \cup {0}
        /\ ProposedSize(w) = 0 <=> w.stretched
        /\ ~w.stretched /\ w.declared # 0 => ProposedSize(w) = w.declared
    BY Proposal DEF LayerInv, LayerTypeOK
  <1> DEFINE p == ProposedSize(w)
  <1>2. window' = [w EXCEPT !.proposed = p] /\ asked' = Append(asked, p)
    BY DEF SendConfiguration
  <1> HIDE DEF p
  <1>3. /\ window' \in Window /\ window'.proposed = p
        /\ window'.role = w.role /\ window'.configured = w.configured
        /\ window'.stretched = w.stretched /\ window'.declared = w.declared
        /\ window'.pending = w.pending /\ window'.applying = w.applying
        /\ window'.wanted = w.wanted /\ window'.overtaken = w.overtaken
    BY <1>1, <1>2 DEF Window, p
  <1>4. asked \in Seq(Sizes \cup {0}) /\ \A i \in DOMAIN asked : asked[i] = 0 <=> w.stretched
    BY DEF LayerInv, LayerTypeOK
  <1>5. /\ asked' \in Seq(Sizes \cup {0}) /\ asked' # <<>> /\ asked'[Len(asked')] = p
        /\ \A i \in DOMAIN asked' : (i \in DOMAIN asked /\ asked'[i] = asked[i])
                                    \/ asked'[i] = p
    BY <1>1, <1>2, <1>4, Appended DEF p
  <1> QED
    BY <1>1, <1>3, <1>4, <1>5 DEF p

\* The same of a change that is only worth a commit when it proposes another size.
LEMMA Resent ==
    ASSUME LayerInv, NEW w \in Window, ResendIfProposalChanged(w),
           UNCHANGED <<told, niri, screen>>,
           w.role = window.role, w.stretched = window.stretched,
           w.proposed = window.proposed,
           ~w.role \/ w.stretched \/ w.declared # 0
    PROVE  /\ window' \in Window /\ asked' \in Seq(Sizes \cup {0})
           /\ \A i \in DOMAIN asked' : asked'[i] = 0 <=> window'.stretched
           /\ window'.role = w.role /\ window'.configured = w.configured
           /\ window'.stretched = w.stretched /\ window'.declared = w.declared
           /\ window'.pending = w.pending /\ window'.applying = w.applying
           /\ window'.wanted = w.wanted /\ window'.overtaken = w.overtaken
           /\ w.role /\ ~w.stretched =>
                  /\ asked' # <<>> => asked'[Len(asked')] = window'.proposed
                  /\ asked' = <<>> => niri' = window'.proposed
                  /\ window'.declared # 0 => window'.proposed = window'.declared
           /\ ~w.role => asked' = asked
  <1>1. CASE w.role /\ ProposedSize(w) # w.proposed
    <2>1. SendConfiguration(w)
      BY <1>1 DEF ResendIfProposalChanged
    <2> QED
      BY <1>1, <2>1, Committed
  <1>2. CASE ~(w.role /\ ProposedSize(w) # w.proposed)
    <2>1. window' = w /\ asked' = asked
      BY <1>2 DEF ResendIfProposalChanged
    <2>2. w.role /\ ~w.stretched => w.proposed = w.declared
      BY <1>2, Proposal DEF LayerInv, LayerTypeOK
    <2> QED
      BY <2>1, <2>2 DEF LayerInv, LayerTypeOK, Named
  <1> QED
    BY <1>1, <1>2

\* A window that was not yet configured is in its invariant.
LEMMA LayerInitInv == LayerInit => LayerInv
  <1> SUFFICES ASSUME LayerInit
               PROVE  LayerInv
    OBVIOUS
  <1>1. <<>> \in Seq(Sizes) /\ <<>> \in Seq(Sizes \cup {0}) /\ DOMAIN <<>> = {}
    OBVIOUS
  <1>2. LayerTypeOK
    BY <1>1 DEF LayerInit, LayerTypeOK, Window
  <1> QED
    BY <1>2 DEF LayerInit, LayerInv, Chosen, Named

\* Every step of a layer surface keeps its invariant, and so does none.
LEMMA LayerNextInv == LayerInv /\ [LayerNext]_layerVars => LayerInv'
  <1> SUFFICES ASSUME LayerInv, [LayerNext]_layerVars
               PROVE  LayerInv'
    OBVIOUS
  <1>1. /\ window \in Window /\ niri \in Sizes \cup {0} /\ screen \in Sizes /\ screen # 0
        /\ told \in Seq(Sizes) /\ asked \in Seq(Sizes \cup {0})
        /\ \A i \in DOMAIN asked : asked[i] = 0 <=> window.stretched
        /\ 0 \notin Sizes
    BY LayerAssumption DEF LayerInv, LayerTypeOK
  <1>2. CASE Present
    <2> DEFINE w == [window EXCEPT !.role = TRUE, !.configured = FALSE, !.pending = 0,
                                   !.applying = FALSE]
    <2>1. SendConfiguration(w) /\ UNCHANGED <<told, niri, screen>> /\ ~window.role
      BY <1>2 DEF Present
    <2>2. /\ w \in Window /\ w.role /\ ~w.configured /\ ~w.applying
          /\ w.stretched = window.stretched /\ w.wanted = window.wanted
          /\ w.declared = window.declared /\ w.overtaken = window.overtaken
      BY <1>1 DEF Window
    <2> HIDE DEF w
    <2>3. /\ window' \in Window /\ asked' \in Seq(Sizes \cup {0})
          /\ \A i \in DOMAIN asked' : asked'[i] = 0 <=> window'.stretched
          /\ asked' # <<>> /\ asked'[Len(asked')] = window'.proposed
          /\ window'.role /\ ~window'.configured /\ ~window'.applying
          /\ window'.stretched = window.stretched /\ window'.declared = window.declared
          /\ window'.wanted = window.wanted /\ window'.overtaken = window.overtaken
          /\ ~window.stretched /\ window.declared # 0 => window'.proposed = window.declared
      BY <2>1, <2>2, Committed
    <2>4. LayerTypeOK'
      BY <1>1, <2>1, <2>3 DEF LayerTypeOK
    <2>5. window'.stretched => Chosen'
      BY <2>1, <2>3 DEF LayerInv, Chosen
    <2>6. ~window'.stretched => Named'
      BY <2>1, <2>3 DEF LayerInv, Named
    <2> QED
      BY <2>3, <2>4, <2>5, <2>6 DEF LayerInv
  <1>3. ASSUME NEW size \in Sizes, QmlResizes(size)
        PROVE  LayerInv'
    <2> DEFINE w == [window EXCEPT !.declared = size, !.wanted = size,
                                   !.overtaken = window.applying]
    <2>1. ResendIfProposalChanged(w) /\ UNCHANGED <<told, niri, screen>> /\ ~window.stretched
      BY <1>3 DEF QmlResizes
    <2>2. /\ w \in Window /\ w.role = window.role /\ w.configured = window.configured
          /\ w.applying = window.applying /\ w.stretched = window.stretched
          /\ w.proposed = window.proposed /\ w.pending = window.pending
          /\ w.declared = size /\ w.wanted = size /\ w.overtaken = window.applying
      BY <1>1 DEF Window
    <2> HIDE DEF w
    <2>3. /\ window' \in Window /\ asked' \in Seq(Sizes \cup {0})
          /\ \A i \in DOMAIN asked' : asked'[i] = 0 <=> window'.stretched
          /\ window'.role = w.role /\ window'.configured = w.configured
          /\ window'.stretched = w.stretched /\ window'.declared = w.declared
          /\ window'.pending = w.pending /\ window'.applying = w.applying
          /\ window'.wanted = w.wanted /\ window'.overtaken = w.overtaken
          /\ w.role /\ ~w.stretched =>
                 /\ asked' # <<>> => asked'[Len(asked')] = window'.proposed
                 /\ asked' = <<>> => niri' = window'.proposed
                 /\ window'.declared # 0 => window'.proposed = window'.declared
          /\ ~w.role => asked' = asked
      BY <1>1, <2>1, <2>2, Resent
    <2>4. LayerTypeOK'
      BY <1>1, <2>1, <2>3 DEF LayerTypeOK
    <2>5. Named'
      BY <1>1, <2>1, <2>2, <2>3 DEF Named
    <2> QED
      BY <1>1, <2>1, <2>2, <2>3, <2>4, <2>5 DEF LayerInv
  <1>4. CASE ConfigurationChanged
    <2>1. SendConfiguration(window) /\ UNCHANGED <<told, niri, screen>> /\ window.role
      BY <1>4 DEF ConfigurationChanged
    <2>2. /\ window' \in Window /\ asked' \in Seq(Sizes \cup {0})
          /\ \A i \in DOMAIN asked' : asked'[i] = 0 <=> window'.stretched
          /\ asked' # <<>> /\ asked'[Len(asked')] = window'.proposed
          /\ window'.role = window.role /\ window'.configured = window.configured
          /\ window'.stretched = window.stretched /\ window'.declared = window.declared
          /\ window'.pending = window.pending /\ window'.applying = window.applying
          /\ window'.wanted = window.wanted /\ window'.overtaken = window.overtaken
          /\ ~window.stretched /\ window.declared # 0 => window'.proposed = window.declared
      BY <1>1, <2>1, Committed
    <2>3. LayerTypeOK'
      BY <1>1, <2>1, <2>2 DEF LayerTypeOK
    <2>4. window'.stretched => Chosen'
      BY <2>1, <2>2 DEF LayerInv, Chosen
    <2>5. ~window'.stretched => Named'
      BY <2>1, <2>2 DEF LayerInv, Named
    <2> QED
      BY <2>1, <2>2, <2>3, <2>4, <2>5 DEF LayerInv
  <1>5. CASE Configure
    <2> DEFINE given == Head(told)
    <2>1. /\ told # <<>> /\ told' = Tail(told) /\ UNCHANGED <<asked, niri, screen>>
          /\ window' = [window EXCEPT !.configured = TRUE, !.applying = TRUE,
                                      !.pending = Resolve(window, given)]
      BY <1>5 DEF Configure
    <2>2. /\ given \in Sizes /\ told' \in Seq(Sizes)
          /\ told' # <<>> => told'[Len(told')] = told[Len(told)]
          /\ told' = <<>> => given = told[Len(told)]
      BY <1>1, <2>1, Taken
    <2> HIDE DEF given
    <2>3. /\ Resolve(window, given) \in Sizes
          /\ window.stretched => Resolve(window, given) = given
          /\ ~window.stretched /\ window.declared # 0
                 => Resolve(window, given) = window.declared
      <3>1. /\ window.declared \in Sizes \cup {0}
            /\ given # 0 /\ (window.declared # 0 <=> window.declared > 0)
        <4>1. window.declared \in Sizes \cup {0} /\ given # 0
          BY <1>1, <2>2 DEF Window
        <4>2. \A size \in Sizes \cup {0} : size \in Nat
          BY LayerAssumption
        <4> QED
          BY <4>1, <4>2
      <3> QED
        BY <2>2, <3>1 DEF Resolve
    <2>4. /\ window' \in Window /\ window'.configured /\ window'.applying
          /\ window'.pending = Resolve(window, given) /\ window'.role = window.role
          /\ window'.stretched = window.stretched /\ window'.declared = window.declared
          /\ window'.proposed = window.proposed
          /\ window'.wanted = window.wanted /\ window'.overtaken = window.overtaken
      BY <1>1, <2>1, <2>3 DEF Window
    <2>5. LayerTypeOK'
      BY <1>1, <2>1, <2>2, <2>4 DEF LayerTypeOK
    <2>6. window'.stretched => Chosen'
      BY <2>1, <2>2, <2>3, <2>4 DEF LayerInv, Chosen
    <2>7. ~window'.stretched => Named'
      BY <1>1, <2>1, <2>3, <2>4 DEF LayerInv, Named
    <2>8. window.role
      BY <2>1 DEF LayerInv
    <2> QED
      BY <1>1, <2>3, <2>4, <2>5, <2>6, <2>7, <2>8 DEF LayerInv
  <1>6. CASE ApplyConfigure
    <2> DEFINE applied == [window EXCEPT !.applying = FALSE]
               w == [applied EXCEPT !.declared = window.pending]
    <2>1. /\ window.applying /\ UNCHANGED <<told, niri, screen>>
          /\ window.role /\ window.pending # 0
      BY <1>6 DEF ApplyConfigure, LayerInv
    <2>2. CASE window.pending = window.declared
      <3>1. window' = applied /\ asked' = asked
        BY <1>6, <2>2 DEF ApplyConfigure
      <3>2. /\ window' \in Window /\ ~window'.applying
            /\ window'.role = window.role /\ window'.configured = window.configured
            /\ window'.stretched = window.stretched /\ window'.declared = window.declared
            /\ window'.proposed = window.proposed
            /\ window'.wanted = window.wanted /\ window'.overtaken = window.overtaken
        BY <1>1, <3>1 DEF Window
      <3>3. LayerTypeOK'
        BY <1>1, <2>1, <3>1, <3>2 DEF LayerTypeOK
      <3>4. window'.stretched => Chosen'
        BY <2>1, <2>2, <3>2 DEF LayerInv, Chosen
      <3>5. ~window'.stretched => Named'
        BY <2>1, <3>1, <3>2 DEF LayerInv, Named
      <3> QED
        BY <2>1, <2>2, <3>2, <3>3, <3>4, <3>5 DEF LayerInv
    <2>3. CASE window.pending # window.declared
      <3>1. ResendIfProposalChanged(w)
        BY <1>6, <2>1, <2>3 DEF ApplyConfigure
      <3>2. /\ w \in Window /\ w.role = window.role /\ w.configured = window.configured
            /\ ~w.applying /\ w.stretched = window.stretched
            /\ w.proposed = window.proposed /\ w.declared = window.pending
            /\ w.wanted = window.wanted /\ w.overtaken = window.overtaken
        BY <1>1 DEF Window
      <3> HIDE DEF w, applied
      <3>3. /\ window' \in Window /\ asked' \in Seq(Sizes \cup {0})
            /\ \A i \in DOMAIN asked' : asked'[i] = 0 <=> window'.stretched
            /\ window'.role = w.role /\ window'.configured = w.configured
            /\ window'.stretched = w.stretched /\ window'.declared = w.declared
            /\ window'.pending = w.pending /\ window'.applying = w.applying
            /\ window'.wanted = w.wanted /\ window'.overtaken = w.overtaken
            /\ w.role /\ ~w.stretched =>
                   /\ asked' # <<>> => asked'[Len(asked')] = window'.proposed
                   /\ asked' = <<>> => niri' = window'.proposed
                   /\ window'.declared # 0 => window'.proposed = window'.declared
        BY <2>1, <3>1, <3>2, Resent
      <3>4. LayerTypeOK'
        BY <1>1, <2>1, <3>3 DEF LayerTypeOK
      <3>5. window'.stretched => Chosen'
        BY <2>1, <3>2, <3>3 DEF LayerInv, Chosen
      <3>6. ~window'.stretched => Named'
        BY <2>1, <2>3, <3>2, <3>3 DEF LayerInv, Named
      <3> QED
        BY <2>1, <3>2, <3>3, <3>4, <3>5, <3>6 DEF LayerInv
    <2> QED
      BY <2>2, <2>3
  <1>7. CASE Destroyed
    <2>1. /\ window' = [window EXCEPT !.role = FALSE, !.configured = FALSE,
                                      !.applying = FALSE]
          /\ asked' = <<>> /\ told' = <<>> /\ niri' = 0 /\ screen' = screen
      BY <1>7 DEF Destroyed
    <2>2. /\ window' \in Window /\ ~window'.role /\ ~window'.configured /\ ~window'.applying
          /\ window'.stretched = window.stretched /\ window'.declared = window.declared
          /\ window'.wanted = window.wanted /\ window'.overtaken = window.overtaken
      BY <1>1, <2>1 DEF Window
    <2>3. <<>> \in Seq(Sizes) /\ <<>> \in Seq(Sizes \cup {0}) /\ DOMAIN <<>> = {}
      OBVIOUS
    <2>4. LayerTypeOK'
      BY <1>1, <2>1, <2>2, <2>3 DEF LayerTypeOK
    <2>5. window'.stretched => Chosen'
      BY <2>1, <2>2 DEF LayerInv, Chosen
    <2>6. ~window'.stretched => Named'
      BY <2>1, <2>2 DEF LayerInv, Named
    <2> QED
      BY <2>1, <2>2, <2>4, <2>5, <2>6 DEF LayerInv
  <1>8. CASE NiriReads
    <2> DEFINE size == Head(asked)
    <2>1. /\ asked # <<>> /\ asked' = Tail(asked) /\ niri' = Given(size)
          /\ told' = (IF niri' = niri THEN told ELSE Append(told, niri'))
          /\ UNCHANGED <<window, screen>>
      BY <1>8 DEF NiriReads
    <2>2. /\ size \in Sizes \cup {0} /\ asked' \in Seq(Sizes \cup {0})
          /\ size = asked[1] /\ 1 \in DOMAIN asked
          /\ asked' # <<>> => asked'[Len(asked')] = asked[Len(asked)]
          /\ asked' = <<>> => size = asked[Len(asked)]
          /\ \A i \in DOMAIN asked' : i + 1 \in DOMAIN asked /\ asked'[i] = asked[i + 1]
      BY <1>1, <2>1, Taken
    <2> HIDE DEF size
    <2>3. niri' \in Sizes /\ (window.stretched => niri' = screen)
      BY <1>1, <2>1, <2>2 DEF Given
    <2>4. ~window.stretched => niri' = size
      BY <1>1, <2>1, <2>2 DEF Given
    <2>5. /\ told' \in Seq(Sizes)
          /\ niri' # niri => told' # <<>> /\ told'[Len(told')] = niri'
      BY <1>1, <2>1, <2>3, Appended
    <2>6. LayerTypeOK'
      BY <1>1, <2>1, <2>2, <2>3, <2>5 DEF LayerTypeOK
    <2>7. window'.stretched => Chosen'
      BY <2>1, <2>3, <2>5 DEF LayerInv, Chosen
    <2>8. window.role
      BY <2>1 DEF LayerInv
    <2>9. ~window'.stretched => Named'
      BY <2>1, <2>2, <2>4, <2>8 DEF LayerInv, Named
    <2> QED
      BY <2>1, <2>6, <2>7, <2>8, <2>9 DEF LayerInv
  <1>9. ASSUME NEW size \in Sizes, OutputResized(size)
        PROVE  LayerInv'
    <2>1. screen' = size /\ UNCHANGED <<window, asked>>
      BY <1>9 DEF OutputResized
    <2>2. CASE window.stretched /\ niri # 0
      <3>1. niri' = size /\ told' = Append(told, size)
        BY <1>9, <2>2 DEF OutputResized
      <3>2. told' \in Seq(Sizes) /\ told' # <<>> /\ told'[Len(told')] = size
        BY <1>1, <3>1, Appended
      <3>3. LayerTypeOK'
        BY <1>1, <2>1, <3>1, <3>2 DEF LayerTypeOK
      <3>4. Chosen'
        BY <2>1, <2>2, <3>1, <3>2 DEF LayerInv, Chosen
      <3>5. window.role
        BY <2>2 DEF LayerInv
      <3> QED
        BY <2>1, <2>2, <3>3, <3>4, <3>5 DEF LayerInv
    <2>3. CASE ~(window.stretched /\ niri # 0)
      <3>1. niri' = niri /\ told' = told
        BY <1>9, <2>3 DEF OutputResized
      <3>2. LayerTypeOK'
        BY <1>1, <2>1, <3>1 DEF LayerTypeOK
      <3> QED
        BY <2>1, <2>3, <3>1, <3>2 DEF LayerInv, Chosen, Named
    <2> QED
      BY <2>2, <2>3
  <1>10. CASE UNCHANGED layerVars
    BY <1>10 DEF layerVars, LayerInv, LayerTypeOK, Chosen, Named
  <1> QED
    BY <1>2, <1>3, <1>4, <1>5, <1>6, <1>7, <1>8, <1>9, <1>10 DEF LayerNext

\* What the window and niri promise follows once nothing is on its way.
LEMMA LayerInvSays == LayerInv => LayerInStep
  <1> SUFFICES ASSUME LayerInv
               PROVE  LayerTypeOK /\ SizesAgree
    BY DEF LayerInStep
  <1>1. LayerTypeOK /\ niri \in Sizes \cup {0} /\ window \in Window /\ 0 \notin Sizes
    BY LayerAssumption DEF LayerInv, LayerTypeOK
  <1>2. SizesAgree
    <2> SUFFICES ASSUME window.configured, asked = <<>>, told = <<>>, ~window.applying
                 PROVE  /\ window.declared = niri
                        /\ window.stretched => niri = screen
                        /\ window.wanted # 0 /\ ~window.overtaken
                               => window.declared = window.wanted
      BY DEF SizesAgree
    <2> QED
      BY <1>1 DEF LayerInv, Chosen, Named
  <1> QED
    BY <1>1, <1>2
-----------------------------------------------------------------------------
(* The list of screens. *)

\* A sequence with each element once.
Once(s, S) == s \in Seq(S) /\ \A i, j \in 1..Len(s) : s[i] = s[j] => i = j

\* Taking out a screen leaves the others, once each.
LEMMA RemoveFirstTakes ==
    ASSUME NEW S, NEW h, Once(h, S), NEW e \in ToSet(h)
    PROVE  LET r == RemoveFirst(h, e)
           IN  Once(r, S) /\ ToSet(r) = ToSet(h) \ {e}
  <1>1. h \in Seq(S) /\ Len(h) \in Nat /\ DOMAIN h = 1..Len(h)
    BY LenProperties DEF Once
  <1>2. PICK k \in 1..Len(h) : h[k] = e
    BY <1>1 DEF ToSet
  <1>3. {i \in 1..Len(h) : h[i] = e} = {k}
    BY <1>2 DEF Once
  <1>4. SelectInSeq(h, LAMBDA v : v = e) = k
    <2>1. SelectInSeq(h, LAMBDA v : v = e) = Min({k})
      BY <1>3 DEF SelectInSeq
    <2>2. Min({k}) = k
      BY <1>1, <1>2 DEF Min
    <2> QED
      BY <2>1, <2>2
  <1> DEFINE front == SubSeq(h, 1, k - 1)
             back == SubSeq(h, k + 1, Len(h))
             r == front \o back
  <1>5. RemoveFirst(h, e) = r
    BY <1>2, <1>4 DEF RemoveFirst, RemoveAt
  <1>6. \A i \in 1..Len(h) : h[i] \in S
    BY <1>1, ElementOfSeq
  <1>7. /\ front \in Seq(S) /\ Len(front) = k - 1
        /\ \A i \in 1..(k - 1) : front[i] = h[i]
    BY <1>1, <1>2, <1>6, SubSeqProperties
  <1>8. /\ back \in Seq(S) /\ Len(back) = Len(h) - k
        /\ \A i \in 1..(Len(h) - k) : back[i] = h[k + i]
    <2>1. \A i \in (k + 1)..Len(h) : h[i] \in S
      BY <1>1, <1>2, <1>6
    <2>2. k + 1 \in Int /\ Len(h) \in Int /\ k \in Int /\ k <= Len(h)
      BY <1>1, <1>2
    <2>3. /\ back \in Seq(S)
          /\ Len(back) = IF k + 1 <= Len(h) THEN Len(h) - (k + 1) + 1 ELSE 0
          /\ \A i \in 1..(Len(h) - (k + 1) + 1) : back[i] = h[(k + 1) + i - 1]
      BY <2>1, <2>2, SubSeqProperties
    <2> HIDE DEF front, back, r
    <2>4. Len(back) = Len(h) - k
      BY <2>2, <2>3
    <2>5. ASSUME NEW i \in 1..(Len(h) - k)
          PROVE  back[i] = h[k + i]
      <3>1. Len(h) - (k + 1) + 1 = Len(h) - k /\ (k + 1) + i - 1 = k + i
        BY <2>2
      <3>2. back[i] = h[(k + 1) + i - 1]
        BY <2>3, <3>1
      <3> QED
        BY <3>1, <3>2
    <2> QED
      BY <2>3, <2>4, <2>5
  <1> HIDE DEF front, back
  <1>9. /\ r \in Seq(S) /\ Len(r) = Len(front) + Len(back)
        /\ \A i \in 1..(Len(front) + Len(back)) :
               r[i] = IF i <= Len(front) THEN front[i] ELSE back[i - Len(front)]
    BY <1>7, <1>8, ConcatProperties
  <1> HIDE DEF r
  <1>10. Len(r) = Len(h) - 1 /\ DOMAIN r = 1..Len(r)
    BY <1>1, <1>2, <1>7, <1>8, <1>9, LenProperties
  <1> DEFINE at(i) == IF i < k THEN i ELSE i + 1
  <1>11. \A i \in 1..Len(r) : at(i) \in (1..Len(h)) \ {k}
    BY <1>1, <1>2, <1>10
  <1>12. ASSUME NEW i \in 1..Len(r)
         PROVE  r[i] = h[at(i)]
    <2>1. CASE i < k
      <3>1. /\ i \in 1..(k - 1) /\ i <= Len(front)
            /\ i \in 1..(Len(front) + Len(back)) /\ at(i) = i
        BY <1>1, <1>2, <1>7, <1>8, <1>10, <2>1
      <3>2. r[i] = front[i]
        BY <1>9, <3>1
      <3> QED
        BY <1>7, <3>1, <3>2
    <2>2. CASE i >= k
      <3>1. /\ i - (k - 1) \in 1..(Len(h) - k) /\ k + (i - (k - 1)) = i + 1
            /\ i > Len(front)
        BY <1>1, <1>2, <1>7, <1>10, <2>2
      <3>2. r[i] = back[i - (k - 1)]
        BY <1>1, <1>2, <1>7, <1>8, <1>9, <1>10, <3>1
      <3>3. at(i) = i + 1
        BY <1>2, <1>10, <2>2
      <3> QED
        BY <1>8, <3>1, <3>2, <3>3
    <2> QED
      BY <1>2, <2>1, <2>2
  <1>13. Once(r, S)
    <2> SUFFICES ASSUME NEW i \in 1..Len(r), NEW j \in 1..Len(r), r[i] = r[j]
                 PROVE  i = j
      BY <1>9 DEF Once
    <2>1. at(i) \in 1..Len(h) /\ at(j) \in 1..Len(h) /\ h[at(i)] = h[at(j)]
      BY <1>11, <1>12
    <2>2. at(i) = at(j)
      BY <2>1 DEF Once
    <2> QED
      BY <1>2, <2>2
  <1>14. ToSet(r) \subseteq ToSet(h) \ {e}
    <2> SUFFICES ASSUME NEW i \in 1..Len(r)
                 PROVE  r[i] \in ToSet(h) \ {e}
      BY <1>10 DEF ToSet
    <2>1. at(i) \in 1..Len(h) /\ at(i) # k /\ r[i] = h[at(i)]
      BY <1>11, <1>12
    <2> HIDE DEF at
    <2> QED
      BY <1>1, <1>2, <2>1 DEF Once, ToSet
  <1>15. ToSet(h) \ {e} \subseteq ToSet(r)
    <2> SUFFICES ASSUME NEW j \in 1..Len(h), h[j] # e
                 PROVE  h[j] \in ToSet(r)
      BY <1>1 DEF ToSet
    <2> DEFINE i == IF j < k THEN j ELSE j - 1
    <2>1. i \in 1..Len(r) /\ at(i) = j
      BY <1>1, <1>2, <1>10
    <2>2. r[i] = h[j]
      BY <1>12, <2>1
    <2> HIDE DEF i
    <2> QED
      BY <1>10, <2>1, <2>2 DEF ToSet
  <1> QED
    BY <1>5, <1>13, <1>14, <1>15

\* A screen that comes is the last.
LEMMA AppendAdds ==
    ASSUME NEW S, NEW h, Once(h, S), NEW e \in S \ ToSet(h)
    PROVE  Once(Append(h, e), S) /\ ToSet(Append(h, e)) = ToSet(h) \cup {e}
  <1> DEFINE r == Append(h, e)
  <1>1. h \in Seq(S) /\ Len(h) \in Nat /\ DOMAIN h = 1..Len(h)
    BY LenProperties DEF Once
  <1>2. /\ r \in Seq(S) /\ Len(r) = Len(h) + 1 /\ DOMAIN r = 1..(Len(h) + 1)
        /\ \A i \in 1..Len(h) : r[i] = h[i]
        /\ r[Len(h) + 1] = e
    BY <1>1, AppendProperties, LenProperties
  <1> HIDE DEF r
  <1>3. \A i \in 1..Len(h) : h[i] # e
    BY <1>1 DEF ToSet
  <1>4. \A i \in 1..(Len(h) + 1) : i \in 1..Len(h) \/ i = Len(h) + 1
    BY <1>1
  <1>5. Once(r, S)
    BY <1>1, <1>2, <1>3, <1>4 DEF Once
  <1>6. ToSet(r) = ToSet(h) \cup {e}
    BY <1>1, <1>2, <1>4 DEF ToSet
  <1> QED
    BY <1>5, <1>6 DEF r

-----------------------------------------------------------------------------
(* The panels. *)

\* A panel's window and backdrop are up exactly while its service is open.
PanelSound(panel) ==
    panel \in Panel /\ (panel.screen # None) = panel.open /\ panel.backdrop = panel.open

PanelsSound(all, here) ==
    /\ all \in [Panels -> Panel]
    /\ \A p \in Panels : PanelSound(all[p]) /\ all[p].screen \in here \cup {None}
    /\ \A p, q \in Panels : all[p].open /\ all[q].open => p = q

\* A panel that is closed is sound, and is on no screen.
LEMMA SetClosedEffect ==
    ASSUME NEW panel, PanelSound(panel)
    PROVE  LET r == SetClosed(panel)
           IN  PanelSound(r) /\ ~r.open /\ r.screen = None
  BY DEF SetClosed, HostClose, PanelSound, Panel

\* What the host makes of an opening is up with its backdrop, or closed in the service too.
LEMMA HostOpenEffect ==
    ASSUME NEW panel, PanelSound(panel), ~panel.open, screens \in Seq(Screens),
           NEW made \in {"none", "backdrop", "both"}
    PROVE  LET r == HostOpen([panel EXCEPT !.open = TRUE], made)
           IN  /\ PanelSound(r) /\ r.screen \in ToSet(screens) \cup {None}
               /\ r.open <=> made = "both" /\ screens # <<>>
  <1> DEFINE q == [panel EXCEPT !.open = TRUE]
             r == HostOpen(q, made)
  <1>1. q \in Panel /\ q.open /\ q.screen = None /\ ~q.backdrop
    BY DEF PanelSound, Panel
  <1> HIDE DEF q
  <1>2. CASE screens = <<>> \/ made = "none"
    <2>1. r = SetClosed(q)
      BY <1>1, <1>2 DEF HostOpen
    <2>2. r = [q EXCEPT !.open = FALSE]
      BY <1>1, <2>1 DEF SetClosed, HostClose, Panel
    <2> HIDE DEF r
    <2>3. PanelSound(r) /\ ~r.open /\ r.screen = None
      BY <1>1, <2>2 DEF PanelSound, Panel
    <2> QED
      BY <1>2, <2>3 DEF r, q
  <1>3. CASE screens # <<>> /\ made = "backdrop"
    <2> DEFINE c == [q EXCEPT !.backdrop = FALSE, !.dying = TRUE]
    <2>1. r = SetClosed(c)
      BY <1>1, <1>3 DEF HostOpen
    <2>2. c \in Panel /\ c.open /\ c.screen = None /\ ~c.backdrop
      BY <1>1 DEF Panel
    <2> HIDE DEF c
    <2>3. r = [c EXCEPT !.open = FALSE]
      BY <2>1, <2>2 DEF SetClosed, HostClose, Panel
    <2> HIDE DEF r
    <2>4. PanelSound(r) /\ ~r.open /\ r.screen = None
      BY <2>2, <2>3 DEF PanelSound, Panel
    <2> QED
      BY <1>3, <2>4 DEF r, q
  <1>4. CASE screens # <<>> /\ made = "both"
    <2>1. r = [q EXCEPT !.screen = Head(screens), !.backdrop = TRUE]
      BY <1>1, <1>4 DEF HostOpen
    <2>2. Head(screens) \in ToSet(screens) /\ Head(screens) \in Screens
      BY <1>4, Taken DEF ToSet
    <2>3. Head(screens) # None
      BY <2>2, SurfacesAssumption
    <2> HIDE DEF r
    <2>4. PanelSound(r) /\ r.open /\ r.screen = Head(screens)
      BY <1>1, <2>1, <2>2, <2>3 DEF PanelSound, Panel
    <2> QED
      BY <1>4, <2>2, <2>4 DEF r, q
  <1> QED
    BY <1>2, <1>3, <1>4

\* A toggle leaves one panel open at most, and does what it is for.
LEMMA TogglePanelEffect ==
    ASSUME PanelsSound(panels, ToSet(screens)), screens \in Seq(Screens),
           NEW p \in Panels, NEW made \in {"none", "backdrop", "both"}, TogglePanel(p, made)
    PROVE  /\ PanelsSound(panels', ToSet(screens))
           /\ IF panels[p].open \/ (made = "both" /\ screens # <<>>)
              THEN panels'[p].open = ~panels[p].open
              ELSE \A q \in Panels : panels'[q].open = panels[q].open
  <1>1. /\ panels \in [Panels -> Panel]
        /\ \A q \in Panels : panels[q].open \in BOOLEAN
    BY DEF PanelsSound, Panel
  <1>2. CASE panels[p].open
    <2>1. panels' = [panels EXCEPT ![p] = SetClosed(@)]
      BY <1>2 DEF TogglePanel
    <2>2. /\ PanelSound(SetClosed(panels[p])) /\ ~SetClosed(panels[p]).open
          /\ SetClosed(panels[p]).screen = None
      BY SetClosedEffect DEF PanelsSound
    <2>3. /\ panels' \in [Panels -> Panel] /\ panels'[p] = SetClosed(panels[p])
          /\ \A q \in Panels : q # p => panels'[q] = panels[q]
      BY <1>1, <2>1, <2>2 DEF PanelSound
    <2>4. PanelsSound(panels', ToSet(screens))
      BY <2>2, <2>3 DEF PanelsSound
    <2>5. panels'[p].open = FALSE /\ panels[p].open = TRUE
      BY <1>1, <1>2, <2>2, <2>3 DEF PanelSound, Panel
    <2> QED
      BY <1>2, <2>4, <2>5
  <1>3. CASE ~panels[p].open
    <2> DEFINE opened == HostOpen([panels[p] EXCEPT !.open = TRUE], made)
               all == [panels EXCEPT ![p] = opened]
    <2>1. /\ PanelSound(opened) /\ opened.screen \in ToSet(screens) \cup {None}
          /\ opened.open <=> made = "both" /\ screens # <<>>
      BY <1>3, HostOpenEffect DEF PanelsSound
    <2>2. panels' = Group(all, p)
      BY <1>1, <1>3 DEF TogglePanel, SetOpen
    <2> HIDE DEF opened
    <2>3. /\ all \in [Panels -> Panel] /\ all[p] = opened
          /\ \A q \in Panels : q # p => all[q] = panels[q]
      BY <1>1, <2>1 DEF PanelSound
    <2> HIDE DEF all
    <2>4. \A q \in Panels : panels'[q] = IF opened.open /\ q # p THEN SetClosed(all[q])
                                         ELSE all[q]
      BY <2>2, <2>3 DEF Group
    <2>5. \A q \in Panels : PanelSound(all[q]) /\ all[q].screen \in ToSet(screens) \cup {None}
      BY <2>1, <2>3 DEF PanelsSound
    <2>6. \A q \in Panels : /\ PanelSound(SetClosed(all[q])) /\ ~SetClosed(all[q]).open
                            /\ SetClosed(all[q]).screen = None
      BY <2>5, SetClosedEffect
    <2>7. \A q \in Panels : PanelSound(panels'[q])
                            /\ panels'[q].screen \in ToSet(screens) \cup {None}
      BY <2>4, <2>5, <2>6
    <2>8. panels' \in [Panels -> Panel]
      <3>1. DOMAIN panels' = Panels /\ panels' = [q \in Panels |-> panels'[q]]
        BY <2>2 DEF Group
      <3> QED
        BY <2>7, <3>1 DEF PanelSound
    <2>9. CASE opened.open
      <3>1. \A q \in Panels : panels'[q].open => q = p
        BY <2>4, <2>6, <2>9
      <3>2. panels'[p].open
        BY <2>3, <2>4, <2>9
      <3>3. PanelsSound(panels', ToSet(screens))
        BY <2>7, <2>8, <3>1 DEF PanelsSound
      <3>4. panels'[p].open = ~panels[p].open
        BY <1>1, <1>3, <2>8, <3>2 DEF Panel
      <3> QED
        BY <2>1, <2>9, <3>3, <3>4
    <2>10. CASE ~opened.open
      <3>1. \A q \in Panels : panels'[q] = all[q]
        BY <2>4, <2>10
      <3>2. opened.open = panels[p].open
        BY <1>1, <1>3, <2>1, <2>10 DEF PanelSound, Panel
      <3>3. \A q \in Panels : panels'[q].open = panels[q].open
        BY <2>3, <3>1, <3>2
      <3>4. PanelsSound(panels', ToSet(screens))
        BY <2>7, <2>8, <3>3 DEF PanelsSound
      <3> QED
        BY <1>3, <2>1, <2>10, <3>3, <3>4
    <2> QED
      BY <2>9, <2>10
  <1> QED
    BY <1>2, <1>3

-----------------------------------------------------------------------------
(* The bars and the sampling. *)

MonitorSound(m) ==
    /\ m \in Monitor /\ m.timer = m.active
    /\ ~m.active => m.cpu = "none" /\ ~m.memory
    /\ m.cpu # "gap" /\ m.previousCpu # "gap"

BarsSound(b) == b \in Bars /\ b.anyVisible = (\E s \in DOMAIN b.shown : b.shown[s])

\* A reading is one over the interval since the last.
LEMMA SampleNowEffect ==
    ASSUME NEW m \in Monitor, NEW sample \in Sample, m.previousCpu # "gap"
    PROVE  LET r == SampleNow(m, sample)
           IN  /\ r \in Monitor /\ r.active = m.active /\ r.timer = m.timer
               /\ r.cpu # "gap" /\ r.previousCpu # "gap"
  <1>1. "none" \in Baseline /\ "last" \in Baseline
    BY DEF Baseline
  <1> QED
    BY <1>1 DEF SampleNow, Monitor, Sample

\* The sampling is sound when it is started, and when it is stopped.
LEMMA SetActiveEffect ==
    ASSUME NEW m, MonitorSound(m), NEW active \in BOOLEAN, NEW sample \in Sample
    PROVE  LET r == SetActive(m, active, sample)
           IN  MonitorSound(r) /\ r.active = active
  <1>1. m \in Monitor /\ m.active \in BOOLEAN /\ "none" \in Baseline
    BY DEF MonitorSound, Monitor, Baseline
  <1>2. CASE active = m.active
    BY <1>2 DEF SetActive
  <1>3. CASE active /\ ~m.active
    <2> DEFINE q == [m EXCEPT !.active = TRUE]
               t == SampleNow(q, sample)
               r == SetActive(m, active, sample)
    <2>1. r = [t EXCEPT !.timer = TRUE]
      BY <1>1, <1>3 DEF SetActive
    <2>2. q \in Monitor /\ q.active /\ q.previousCpu # "gap"
      BY <1>1 DEF MonitorSound, Monitor
    <2> HIDE DEF q
    <2>3. t \in Monitor /\ t.active /\ t.cpu # "gap" /\ t.previousCpu # "gap"
      BY <2>2, SampleNowEffect
    <2> HIDE DEF t, r
    <2>4. r \in Monitor /\ r.active /\ r.timer /\ r.cpu # "gap" /\ r.previousCpu # "gap"
      BY <2>1, <2>3 DEF Monitor
    <2>5. r.timer = r.active /\ r.active = active
      BY <1>3, <2>4 DEF Monitor
    <2> QED
      BY <2>4, <2>5 DEF MonitorSound, r
  <1>4. CASE ~active /\ m.active
    <2> DEFINE r == SetActive(m, active, sample)
    <2>1. r = [m EXCEPT !.active = FALSE, !.timer = FALSE, !.previousCpu = "none",
                        !.cpu = "none", !.memory = FALSE]
      BY <1>1, <1>4 DEF SetActive
    <2> HIDE DEF r
    <2>2. r \in Monitor /\ r.active = FALSE /\ r.timer = FALSE /\ r.cpu = "none"
          /\ r.memory = FALSE /\ r.previousCpu = "none"
      BY <1>1, <2>1 DEF Monitor
    <2> QED
      BY <1>4, <2>2 DEF MonitorSound, r
  <1> QED
    BY <1>1, <1>2, <1>3, <1>4

\* A change of the bars takes the sampling with it.
LEMMA RecheckEffect ==
    ASSUME BarsSound(bars), MonitorSound(monitor), monitor.active = bars.anyVisible,
           NEW D \in SUBSET Screens, NEW b \in [D -> BOOLEAN], RecheckVisibility(b)
    PROVE  /\ bars'.shown = b /\ BarsSound(bars') /\ MonitorSound(monitor')
           /\ monitor'.active = bars'.anyVisible
  <1> DEFINE any == \E s \in DOMAIN b : b[s]
  <1>1. PICK sample \in Sample :
            /\ bars' = [shown |-> b, anyVisible |-> any]
            /\ monitor' = IF any = bars.anyVisible THEN monitor
                          ELSE SetActive(monitor, any, sample)
    BY DEF RecheckVisibility
  <1>2. any \in BOOLEAN
    OBVIOUS
  <1>3. bars'.shown = b /\ bars'.anyVisible = any /\ bars' \in Bars
    <2>1. b \in UNION {[S -> BOOLEAN] : S \in SUBSET Screens}
      OBVIOUS
    <2> HIDE DEF any
    <2> QED
      BY <1>1, <1>2, <2>1 DEF Bars
  <1>4. BarsSound(bars')
    BY <1>3 DEF BarsSound
  <1> HIDE DEF any
  <1>5. MonitorSound(monitor') /\ monitor'.active = any
    <2>1. CASE any = bars.anyVisible
      BY <1>1, <2>1
    <2>2. CASE any # bars.anyVisible
      BY <1>1, <1>2, <2>2, SetActiveEffect
    <2> QED
      BY <2>1, <2>2
  <1> QED
    BY <1>3, <1>4, <1>5
-----------------------------------------------------------------------------
(* The hosts' steps. *)

HostsInv ==
    /\ Once(screens, Screens)
    /\ PanelsSound(panels, ToSet(screens))
    /\ BarsSound(bars) /\ DOMAIN bars.shown \subseteq ToSet(screens)
    /\ MonitorSound(monitor) /\ monitor.active = bars.anyVisible
    /\ osd \in Osd /\ osd.windows \subseteq ToSet(screens) /\ DisplayEnds
    /\ steps \in 0..MaxSteps

\* Hosts that were not asked for anything show nothing.
LEMMA HostsInitInv == Init => HostsInv
  <1> SUFFICES ASSUME Init
               PROVE  HostsInv
    OBVIOUS
  <1>1. Once(screens, Screens)
    <2>1. PICK present \in SUBSET Screens : screens \in SetToSeqs(present)
      BY DEF Init
    <2> DEFINE n == Cardinality(present)
    <2>2. n \in Nat
      BY SurfacesAssumption, FS_Subset, FS_CardinalityType
    <2>3. screens \in [1..n -> present] /\ \A i, j \in 1..n : i # j => screens[i] # screens[j]
      BY <2>1 DEF SetToSeqs
    <2> HIDE DEF n
    <2>4. screens \in Seq(Screens) /\ Len(screens) = n
      BY <2>2, <2>3
    <2> QED
      BY <2>3, <2>4 DEF Once
  <1>2. PanelsSound(panels, ToSet(screens))
    <2>1. \A p \in Panels : panels[p] = [open |-> FALSE, screen |-> None, backdrop |-> FALSE,
                                         dying |-> FALSE]
      BY DEF Init
    <2>2. ASSUME NEW p \in Panels
          PROVE  PanelSound(panels[p]) /\ ~panels[p].open /\ panels[p].screen = None
      <3> DEFINE panel == [open |-> FALSE, screen |-> None, backdrop |-> FALSE,
                           dying |-> FALSE]
      <3>1. /\ panel \in Panel /\ panel.open = FALSE /\ panel.screen = None
            /\ panel.backdrop = FALSE
        BY DEF Panel
      <3>2. panels[p] = panel
        BY <2>1
      <3> HIDE DEF panel
      <3> QED
        BY <3>1, <3>2 DEF PanelSound
    <2>3. panels \in [Panels -> Panel]
      BY <2>2 DEF Init, PanelSound
    <2> QED
      BY <2>2, <2>3 DEF PanelsSound
  <1>3. ToSet(screens) \subseteq Screens
    BY <1>1, ElementOfSeq, LenProperties DEF Once, ToSet
  <1>4. BarsSound(bars) /\ DOMAIN bars.shown = ToSet(screens)
    <2> DEFINE b == [s \in ToSet(screens) |-> TRUE]
    <2>1. bars = [shown |-> b, anyVisible |-> screens # <<>>]
      BY DEF Init
    <2>2. b \in UNION {[S -> BOOLEAN] : S \in SUBSET Screens}
      BY <1>3
    <2>3. (\E s \in DOMAIN b : b[s]) <=> ToSet(screens) # {}
      OBVIOUS
    <2>4. ToSet(screens) # {} <=> screens # <<>>
      <3>1. /\ screens \in Seq(Screens) /\ DOMAIN screens = 1..Len(screens)
            /\ Len(screens) \in Nat
        BY <1>1, LenProperties DEF Once
      <3>2. screens # <<>> <=> 1 \in DOMAIN screens
        BY <3>1
      <3>3. \A i \in DOMAIN screens : i \in 1..Len(screens) /\ 1 \in DOMAIN screens
        BY <3>1
      <3> QED
        BY <3>2, <3>3 DEF ToSet
    <2>5. DOMAIN b = ToSet(screens)
      OBVIOUS
    <2> HIDE DEF b
    <2>6. bars.shown = b /\ bars.anyVisible = (\E s \in DOMAIN b : b[s]) /\ bars \in Bars
      BY <2>1, <2>2, <2>3, <2>4 DEF Bars
    <2> QED
      BY <2>5, <2>6 DEF BarsSound
  <1>5. MonitorSound(monitor) /\ monitor.active = bars.anyVisible
    <2> DEFINE idle == [active |-> FALSE, timer |-> FALSE, previousCpu |-> "none",
                        cpu |-> "none", memory |-> FALSE]
    <2>1. PICK sample \in Sample : monitor = SetActive(idle, bars.anyVisible, sample)
      BY DEF Init
    <2>2. MonitorSound(idle)
      BY DEF MonitorSound, Monitor, Baseline
    <2>3. bars.anyVisible \in BOOLEAN
      BY <1>4 DEF BarsSound, Bars
    <2> HIDE DEF idle
    <2> QED
      BY <2>1, <2>2, <2>3, SetActiveEffect
  <1>6. /\ osd \in Osd /\ osd.windows \subseteq ToSet(screens) /\ DisplayEnds
        /\ steps \in 0..MaxSteps
    BY SurfacesAssumption DEF Init, Osd, DisplayEnds
  <1> QED
    BY <1>1, <1>2, <1>4, <1>5, <1>6 DEF HostsInv

\* Every step of the hosts keeps their invariant, and so does none.
LEMMA HostsNextInv == HostsInv /\ [Next]_vars => HostsInv'
  <1> SUFFICES ASSUME HostsInv, [Next]_vars
               PROVE  HostsInv'
    OBVIOUS
  <1> DEFINE here == ToSet(screens)
  <1>1. /\ Once(screens, Screens) /\ screens \in Seq(Screens)
        /\ PanelsSound(panels, here)
        /\ BarsSound(bars) /\ DOMAIN bars.shown \subseteq here
        /\ MonitorSound(monitor) /\ monitor.active = bars.anyVisible
        /\ osd \in Osd /\ osd.windows \subseteq here /\ DisplayEnds
        /\ steps \in 0..MaxSteps
    BY DEF HostsInv, Once
  <1>2. here \subseteq Screens
    BY <1>1, ElementOfSeq, LenProperties DEF ToSet
  <1>3. bars.shown \in [DOMAIN bars.shown -> BOOLEAN] /\ bars.anyVisible \in BOOLEAN
    BY <1>1 DEF BarsSound, Bars
  <1> HIDE DEF here
  \* What changes the panels alone, or the bars alone, on the screens that were there.
  <1>4. ASSUME PanelsSound(panels', here), UNCHANGED <<screens, bars, monitor, osd, steps>>
        PROVE  HostsInv'
    BY <1>1, <1>4 DEF HostsInv, here, DisplayEnds
  <1>5. ASSUME NEW D \in SUBSET Screens, NEW b \in [D -> BOOLEAN], RecheckVisibility(b)
        PROVE  /\ BarsSound(bars') /\ DOMAIN bars'.shown = D
               /\ MonitorSound(monitor') /\ monitor'.active = bars'.anyVisible
    BY <1>1, <1>5, RecheckEffect
  <1>6. CASE SampleTimeout
    <2>1. /\ monitor.timer /\ UNCHANGED <<screens, panels, bars, osd, steps>>
          /\ monitor.active = TRUE /\ monitor \in Monitor /\ monitor.previousCpu # "gap"
      BY <1>1, <1>6 DEF SampleTimeout, MonitorSound, Monitor
    <2> DEFINE q == [monitor EXCEPT !.timer = FALSE]
    <2>2. PICK sample \in Sample : monitor' = [SampleNow(q, sample) EXCEPT !.timer = TRUE]
      BY <1>6, <2>1 DEF SampleTimeout
    <2>3. q \in Monitor /\ q.active = TRUE /\ q.previousCpu # "gap"
      BY <2>1 DEF Monitor
    <2> HIDE DEF q
    <2> DEFINE t == SampleNow(q, sample)
    <2>4. t \in Monitor /\ t.active = TRUE /\ t.cpu # "gap" /\ t.previousCpu # "gap"
      BY <2>3, SampleNowEffect
    <2> HIDE DEF t
    <2>5. monitor' = [t EXCEPT !.timer = TRUE]
      BY <2>2 DEF t
    <2>6. /\ monitor' \in Monitor /\ monitor'.active = TRUE /\ monitor'.timer = TRUE
          /\ monitor'.cpu # "gap" /\ monitor'.previousCpu # "gap"
      BY <2>4, <2>5 DEF Monitor
    <2>7. MonitorSound(monitor') /\ monitor'.active = bars'.anyVisible
      BY <1>1, <2>1, <2>6 DEF MonitorSound
    <2> QED
      BY <1>1, <2>1, <2>7 DEF HostsInv, here, DisplayEnds
  <1>7. CASE ToggleAll
    <2>1. RecheckVisibility(Toggled) /\ UNCHANGED <<screens, panels, osd, steps>>
      BY <1>7 DEF ToggleAll
    <2>2. Toggled \in [DOMAIN bars.shown -> BOOLEAN] /\ DOMAIN bars.shown \in SUBSET Screens
      BY <1>1, <1>2, <1>3 DEF Toggled
    <2>3. /\ BarsSound(bars') /\ DOMAIN bars'.shown = DOMAIN bars.shown
          /\ MonitorSound(monitor') /\ monitor'.active = bars'.anyVisible
      BY <1>5, <2>1, <2>2
    <2> QED
      BY <1>1, <2>1, <2>3 DEF HostsInv, here, DisplayEnds
  <1>8. ASSUME NEW p \in Panels, NEW made \in {"none", "backdrop", "both"},
               TogglePanel(p, made)
        PROVE  HostsInv'
    <2>1. PanelsSound(panels', here)
      BY <1>1, <1>8, TogglePanelEffect DEF here
    <2> QED
      BY <1>4, <1>8, <2>1 DEF TogglePanel
  <1>9. ASSUME NEW p \in Panels, Dismiss(p)
        PROVE  HostsInv'
    <2>1. /\ panels' = [panels EXCEPT ![p] = SetClosed(@)]
          /\ UNCHANGED <<screens, bars, monitor, osd, steps>>
      BY <1>9 DEF Dismiss
    <2>2. /\ PanelSound(SetClosed(panels[p])) /\ ~SetClosed(panels[p]).open
          /\ SetClosed(panels[p]).screen = None
      BY <1>1, SetClosedEffect DEF PanelsSound
    <2>3. /\ panels' \in [Panels -> Panel] /\ panels'[p] = SetClosed(panels[p])
          /\ \A q \in Panels : q # p => panels'[q] = panels[q]
      BY <1>1, <2>1, <2>2 DEF PanelSound, PanelsSound
    <2>4. PanelsSound(panels', here)
      BY <1>1, <2>2, <2>3 DEF PanelsSound
    <2> QED
      BY <1>4, <2>1, <2>4
  <1>10. CASE DeferredDelete
    <2>1. /\ panels' = [p \in Panels |-> IF panels[p].dying THEN OldWindowGone(panels[p])
                                         ELSE panels[p]]
          /\ UNCHANGED <<screens, bars, monitor, osd, steps>>
      BY <1>10 DEF DeferredDelete
    <2>2. \A p \in Panels : /\ PanelSound(panels'[p]) /\ panels'[p].open = panels[p].open
                            /\ panels'[p].screen = panels[p].screen
      BY <1>1, <2>1 DEF PanelsSound, PanelSound, Panel, OldWindowGone
    <2>3. panels' \in [Panels -> Panel]
      BY <2>1, <2>2 DEF PanelSound
    <2>4. PanelsSound(panels', here)
      BY <1>1, <2>2, <2>3 DEF PanelsSound
    <2> QED
      BY <1>4, <2>1, <2>4
  <1>11. CASE HandleAdjusted \/ HandleShowChanged \/ Withdraw
    <2>1. UNCHANGED <<screens, panels, bars, monitor>>
      BY <1>11 DEF HandleAdjusted, HandleShowChanged, Withdraw
    <2>2. steps' \in 0..MaxSteps
      BY <1>1, <1>11, SurfacesAssumption DEF HandleAdjusted, HandleShowChanged, Withdraw, Step
    <2>3. osd' \in Osd /\ osd'.windows \subseteq here /\ DisplayEnds'
      <3>1. CASE HandleAdjusted
        <4>1. PICK made \in SUBSET here : osd' = IF osd.show THEN Shown(made) ELSE osd
          BY <3>1 DEF HandleAdjusted, here
        <4> QED
          BY <1>1, <1>2, <4>1 DEF Shown, Osd, DisplayEnds
      <3>2. CASE HandleShowChanged
        BY <1>1, <3>2 DEF HandleShowChanged, Hide, Withdrawn, Osd, DisplayEnds
      <3>3. CASE Withdraw
        BY <1>1, <3>3 DEF Withdraw, Withdrawn, Osd, DisplayEnds
      <3> QED
        BY <1>11, <3>1, <3>2, <3>3
    <2> QED
      BY <1>1, <2>1, <2>2, <2>3 DEF HostsInv, here
  <1>12. ASSUME NEW s \in DOMAIN bars.shown, BarClosed(s)
         PROVE  HostsInv'
    <2> DEFINE b == [bars.shown EXCEPT ![s] = FALSE]
    <2>1. /\ RecheckVisibility(b) /\ UNCHANGED <<screens, panels, osd>>
          /\ steps' \in 0..MaxSteps
      BY <1>1, <1>12, SurfacesAssumption DEF BarClosed, Step
    <2>2. b \in [DOMAIN bars.shown -> BOOLEAN] /\ DOMAIN bars.shown \in SUBSET Screens
      BY <1>1, <1>2, <1>3
    <2> HIDE DEF b
    <2>3. /\ BarsSound(bars') /\ DOMAIN bars'.shown = DOMAIN bars.shown
          /\ MonitorSound(monitor') /\ monitor'.active = bars'.anyVisible
      BY <1>5, <2>1, <2>2
    <2> QED
      BY <1>1, <2>1, <2>3 DEF HostsInv, here, DisplayEnds
  <1>13. ASSUME NEW s \in Screens \ here, ScreenAdded(s)
         PROVE  HostsInv'
    <2>1. /\ screens' = Append(screens, s) /\ AddForScreen(s) /\ UNCHANGED <<panels, osd>>
          /\ steps' \in 0..MaxSteps
      BY <1>1, <1>13, SurfacesAssumption DEF ScreenAdded, Step
    <2>2. Once(screens', Screens) /\ ToSet(screens') = here \cup {s}
      BY <1>1, <2>1, AppendAdds DEF here
    <2>3. /\ BarsSound(bars') /\ DOMAIN bars'.shown \subseteq here \cup {s}
          /\ MonitorSound(monitor') /\ monitor'.active = bars'.anyVisible
      <3> DEFINE D == DOMAIN bars.shown \cup {s}
                 b == [t \in D |-> IF t = s THEN TRUE ELSE bars.shown[t]]
      <3>1. CASE RecheckVisibility(b)
        <4>1. b \in [D -> BOOLEAN]
          BY <1>3
        <4>2. D \in SUBSET Screens /\ D \subseteq here \cup {s}
          BY <1>1, <1>2
        <4> HIDE DEF b, D
        <4> QED
          BY <1>5, <3>1, <4>1, <4>2
      <3>2. CASE UNCHANGED <<bars, monitor>>
        BY <1>1, <3>2
      <3> QED
        BY <2>1, <3>1, <3>2 DEF AddForScreen
    <2>4. PanelsSound(panels', here \cup {s})
      BY <1>1, <2>1 DEF PanelsSound
    <2> QED
      BY <1>1, <2>1, <2>2, <2>3, <2>4 DEF HostsInv, DisplayEnds
  <1>14. ASSUME NEW s \in here, ScreenRemoved(s)
         PROVE  HostsInv'
    <2>1. /\ screens' = RemoveFirst(screens, s) /\ RemoveForScreen(s)
          /\ osd' = WithoutScreen(s) /\ steps' \in 0..MaxSteps
          /\ panels' = [p \in Panels |-> IF panels[p].screen = s THEN SetClosed(panels[p])
                                         ELSE panels[p]]
      BY <1>1, <1>14, SurfacesAssumption DEF ScreenRemoved, Step
    <2>2. Once(screens', Screens) /\ ToSet(screens') = here \ {s}
      BY <1>1, <2>1, RemoveFirstTakes DEF here
    <2>3. /\ BarsSound(bars') /\ DOMAIN bars'.shown \subseteq here \ {s}
          /\ MonitorSound(monitor') /\ monitor'.active = bars'.anyVisible
      <3> DEFINE D == DOMAIN bars.shown \ {s}
                 b == [t \in D |-> bars.shown[t]]
      <3>1. RecheckVisibility(b)
        BY <2>1 DEF RemoveForScreen
      <3>2. b \in [D -> BOOLEAN]
        BY <1>3
      <3>3. D \in SUBSET Screens /\ D \subseteq here \ {s}
        BY <1>1, <1>2
      <3> HIDE DEF b, D
      <3> QED
        BY <1>5, <3>1, <3>2, <3>3
    <2>4. osd' \in Osd /\ osd'.windows \subseteq here \ {s} /\ DisplayEnds'
      BY <1>1, <2>1 DEF WithoutScreen, Osd, DisplayEnds
    <2>5. PanelsSound(panels', here \ {s})
      <3>1. \A p \in Panels : PanelSound(panels[p]) /\ panels[p].screen \in here \cup {None}
        BY <1>1 DEF PanelsSound
      <3>2. \A p \in Panels : /\ PanelSound(SetClosed(panels[p]))
                              /\ ~SetClosed(panels[p]).open /\ SetClosed(panels[p]).screen = None
        BY <3>1, SetClosedEffect
      <3>3. \A p \in Panels : /\ PanelSound(panels'[p])
                              /\ panels'[p].screen \in (here \ {s}) \cup {None}
                              /\ panels'[p].open => panels[p].open
        BY <2>1, <3>1, <3>2
      <3>4. panels' \in [Panels -> Panel]
        BY <2>1, <3>3 DEF PanelSound
      <3> QED
        BY <1>1, <3>3, <3>4 DEF PanelsSound
    <2> QED
      BY <2>1, <2>2, <2>3, <2>4, <2>5 DEF HostsInv
  <1>15. CASE UNCHANGED vars
    BY <1>15 DEF vars, HostsInv, DisplayEnds
  <1> QED
    BY <1>6, <1>7, <1>8, <1>9, <1>10, <1>11, <1>12, <1>13, <1>14, <1>15 DEF Next, here

\* What the hosts promise.
LEMMA HostsInvSays == HostsInv => WellFormed /\ NothingLeftUp /\ SamplingIsSound
  <1> SUFFICES ASSUME HostsInv
               PROVE  WellFormed /\ NothingLeftUp /\ SamplingIsSound
    OBVIOUS
  <1>1. TypeOK
    BY DEF HostsInv, Once, PanelsSound, BarsSound, MonitorSound, TypeOK
  <1>2. OnePanel
    BY DEF HostsInv, PanelsSound, PanelSound, OnePanel
  <1>3. OnRealScreens
    BY DEF HostsInv, PanelsSound, OnRealScreens
  <1>4. DisplayEnds
    BY DEF HostsInv
  <1>5. SamplingFollowsBars /\ NoGapAveraged
    BY DEF HostsInv, BarsSound, MonitorSound, SamplingFollowsBars, NoGapAveraged
  <1> QED
    BY <1>1, <1>2, <1>3, <1>4, <1>5 DEF WellFormed, NothingLeftUp, SamplingIsSound

-----------------------------------------------------------------------------
(* The theorems. *)

\* Both invariants hold in every state that hosts and surface reach.
THEOREM InductiveInvariant == EachSpec => [](HostsInv /\ LayerInv)
  <1>1. EachInit => HostsInv /\ LayerInv
    BY HostsInitInv, LayerInitInv DEF EachInit
  <1>2. HostsInv /\ LayerInv /\ [EachNext]_surfacesVars => (HostsInv /\ LayerInv)'
    <2> SUFFICES ASSUME HostsInv, LayerInv, [EachNext]_surfacesVars
                 PROVE  HostsInv' /\ LayerInv'
      OBVIOUS
    <2>1. [Next]_vars /\ [LayerNext]_layerVars
      BY DEF EachNext, surfacesVars
    <2> QED
      BY <2>1, HostsNextInv, LayerNextInv
  <1> QED
    BY <1>1, <1>2, PTL DEF EachSpec

\* One panel is open at most, with its window and its backdrop, whatever fails, loses its
\* screen or is dismissed; and a surface is as large as niri has it and as QML wanted, for
\* sizes and delays without bound.
THEOREM EachAlwaysInPlace == EachSpec => []EachInPlace
  <1>1. HostsInv /\ LayerInv => EachInPlace
    BY HostsInvSays, LayerInvSays DEF EachInPlace
  <1> QED
    BY InductiveInvariant, <1>1, PTL

\* No window stands for a screen that is gone, and a display that is up has its clock, for
\* any screens and however they come and go.
THEOREM NothingStaysUp == EachSpec => []NothingLeftUp
  <1>1. HostsInv /\ LayerInv => NothingLeftUp
    BY HostsInvSays
  <1> QED
    BY InductiveInvariant, <1>1, PTL

\* The sampling runs exactly while a bar can be seen, and no percentage is an average over
\* a pause or a failed reading.
THEOREM SamplingAlwaysSound == EachSpec => []SamplingIsSound
  <1>1. HostsInv /\ LayerInv => SamplingIsSound
    BY HostsInvSays
  <1> QED
    BY InductiveInvariant, <1>1, PTL

\* A toggle does what it is for, the end of an old window closes nothing, and every bar
\* moves with qsctl bar toggle.
THEOREM TogglesAlwaysAsAsked == EachSpec => TogglesAsAsked
  <1> DEFINE Asked ==
          /\ \A p \in Panels, made \in {"none", "backdrop", "both"} :
                TogglePanel(p, made) =>
                    IF panels[p].open \/ (made = "both" /\ screens # <<>>)
                    THEN panels'[p].open = ~panels[p].open
                    ELSE \A q \in Panels : panels'[q].open = panels[q].open
          /\ DeferredDelete => \A p \in Panels : panels'[p].open = panels[p].open
          /\ ToggleAll => \A s \in DOMAIN bars.shown : bars'.shown[s] = ~bars.anyVisible
  <1>1. HostsInv => Asked
    <2> SUFFICES ASSUME HostsInv
                 PROVE  Asked
      OBVIOUS
    <2>1. PanelsSound(panels, ToSet(screens)) /\ screens \in Seq(Screens)
      BY DEF HostsInv, Once
    <2>2. ASSUME NEW p \in Panels, NEW made \in {"none", "backdrop", "both"},
                 TogglePanel(p, made)
          PROVE  IF panels[p].open \/ (made = "both" /\ screens # <<>>)
                 THEN panels'[p].open = ~panels[p].open
                 ELSE \A q \in Panels : panels'[q].open = panels[q].open
      BY <2>1, <2>2, TogglePanelEffect
    <2>3. DeferredDelete => \A p \in Panels : panels'[p].open = panels[p].open
      BY <2>1 DEF DeferredDelete, OldWindowGone, PanelsSound, Panel
    <2>4. ToggleAll => \A s \in DOMAIN bars.shown : bars'.shown[s] = ~bars.anyVisible
      BY DEF ToggleAll, RecheckVisibility, Toggled
    <2> QED
      BY <2>2, <2>3, <2>4
  <1>2. HostsInv /\ LayerInv => [Asked]_vars
    BY <1>1
  <1> QED
    BY InductiveInvariant, <1>2, PTL DEF TogglesAsAsked

-----------------------------------------------------------------------------
(* The outputs.                                                              *)


\* Between any two handlers: a request believed in flight is pending, and a
\* trigger is held back only behind one.
Sound(m) ==
    /\ m \in Shell
    /\ m.inFlight => m.pending # <<>>
    /\ m.again => m.inFlight

IInv ==
    /\ OutputsTypeOK
    /\ Sound(shell)

-----------------------------------------------------------------------------
(* The request connection. *)

\* Asking adds a request and believes it in flight.
LEMMA RequestSound ==
    ASSUME NEW m \in Shell
    PROVE  Sound(RequestOutputs(m)) /\ RequestOutputs(m).link = m.link
  <1> DEFINE at     == IF m.link = "closed" THEN "queued" ELSE "asked"
             longer == Append(m.pending, [at |-> at])
  <1>1. longer \in Seq(Request) /\ longer # <<>>
    BY DEF Shell, Request
  <1>2. RequestOutputs(m) = [m EXCEPT !.inFlight = TRUE, !.pending = longer]
    BY DEF RequestOutputs, Enqueue, Shell
  <1> HIDE DEF longer
  <1> QED
    BY <1>1, <1>2 DEF Sound, Shell

\* Failing every request keeps Sound, whether or not the first handler asks again.
LEMMA FailPendingSound ==
    ASSUME NEW m, Sound(m)
    PROVE  Sound(FailPending(m)) /\ FailPending(m).link = m.link
  <1> DEFINE emptied == [m EXCEPT !.pending = <<>>, !.inFlight = FALSE, !.again = FALSE]
             request   == RequestOutputs(emptied)
             once    == Len(m.pending) = 1
  <1>1. emptied \in Shell /\ Sound(emptied) /\ emptied.again = FALSE /\ emptied.link = m.link
    <2>1. <<>> \in Seq(Request)
      OBVIOUS
    <2> QED
      BY <2>1 DEF Sound, Shell
  <1>2. Sound(request) /\ request.link = m.link
    BY <1>1, RequestSound
  <1>3. request.again = FALSE /\ request.pending # <<>>
    <2>1. Append(<<>>, [at |-> IF m.link = "closed" THEN "queued" ELSE "asked"]) # <<>>
      OBVIOUS
    <2> QED
      BY <2>1 DEF RequestOutputs, Enqueue, Sound, Shell
  <1>4. m.pending \in Seq(Request)
    BY DEF Sound, Shell
  <1>5. once \in BOOLEAN
    OBVIOUS
  <1> HIDE DEF request, once
  <1>6. Sound([request EXCEPT !.inFlight = once]) /\ [request EXCEPT !.inFlight = once].link = m.link
    BY <1>2, <1>3, <1>5 DEF Sound, Shell
  <1>7. \/ FailPending(m) = m
        \/ FailPending(m) = emptied
        \/ FailPending(m) = [request EXCEPT !.inFlight = once]
    BY DEF FailPending, request, once
  <1> QED
    BY <1>1, <1>6, <1>7

\* Forgetting the flight keeps Sound.
LEMMA ForgetFlightSound ==
    ASSUME NEW m, Sound(m)
    PROVE  Sound(ForgetFlight(m)) /\ ForgetFlight(m).link = m.link
  BY DEF Sound, Shell, ForgetFlight

\* Moving the link keeps Sound.
LEMMA RelinkSound ==
    ASSUME NEW m, Sound(m), NEW link \in {"closed", "open", "hungup", "failing"}
    PROVE  Sound([m EXCEPT !.link = link])
  BY DEF Sound, Shell

\* Noticing the hang-up keeps Sound and ends with the link closed.
LEMMA PeerGoneSound ==
    ASSUME NEW m, Sound(m)
    PROVE  Sound(PeerGone(m)) /\ PeerGone(m).link = "closed"
  <1> DEFINE failing == [m EXCEPT !.link = "failing"]
             failed  == ForgetFlight(FailPending(failing))
             closed  == [failed EXCEPT !.link = "closed"]
  <1>1. Sound(failed)
    BY RelinkSound, FailPendingSound, ForgetFlightSound
  <1> HIDE DEF failed
  <1>2. Sound(closed) /\ closed.link = "closed"
    BY <1>1, RelinkSound DEF Sound, Shell
  <1> HIDE DEF closed
  <1>3. /\ Sound(ForgetFlight(FailPending(closed)))
        /\ ForgetFlight(FailPending(closed)).link = "closed"
    BY <1>2, FailPendingSound, ForgetFlightSound
  <1> QED
    BY <1>3 DEF PeerGone, closed, failed

\* A query that is sent, or finds the connection gone, keeps the shell sound.
LEMMA AskSound ==
    ASSUME NEW m \in Shell
    PROVE  Sound(Ask(m)) /\ (Ask(m).link = m.link \/ Ask(m).link = "closed")
  BY RequestSound, PeerGoneSound DEF Ask

-----------------------------------------------------------------------------
(* The handlers of NiriOutputs. *)

\* A trigger is acted on or held back.
LEMMA RefreshSound ==
    ASSUME NEW m, Sound(m)
    PROVE  Sound(Refresh(m)) /\ (Refresh(m).link = m.link \/ Refresh(m).link = "closed")
  <1>1. CASE m.inFlight
    <2>1. Refresh(m) = [m EXCEPT !.again = TRUE]
      BY <1>1 DEF Refresh
    <2> QED
      BY <1>1, <2>1 DEF Sound, Shell
  <1>2. CASE ~m.inFlight
    <2>1. Refresh(m) = Ask(m) /\ m \in Shell
      BY <1>2 DEF Refresh, Sound
    <2> QED
      BY <2>1, AskSound
  <1> QED
    BY <1>1, <1>2

\* The oldest request answered: its handler runs with it gone from the queue.
LEMMA HandleReplySound ==
    ASSUME NEW m \in Shell, NEW reply \in Request
    PROVE  Sound(HandleReply(m, reply)) /\
           (HandleReply(m, reply).link = m.link \/ HandleReply(m, reply).link = "closed")
  <1> DEFINE list == IF reply.at = "answered" THEN reply.outputs ELSE m.outputs
             taken == [m EXCEPT !.inFlight = FALSE, !.again = FALSE, !.outputs = list]
  <1>1. list \in SUBSET Output
    BY DEF Request, Shell
  <1> HIDE DEF list
  <1>2. taken \in Shell /\ Sound(taken) /\ taken.link = m.link
    BY <1>1 DEF Sound, Shell
  <1>3. HandleReply(m, reply) = IF m.again THEN Ask(taken) ELSE taken
    BY DEF HandleReply, list, Shell
  <1> HIDE DEF taken
  <1> QED
    BY <1>2, <1>3, AskSound

\* So does the event that names the outputs of the workspaces, whether or not it asks.
LEMMA WorkspacesChangedSound ==
    ASSUME NEW m, Sound(m), NEW named \in SUBSET (Names \cup {NoOutput})
    PROVE  LET r == HandleWorkspacesChanged(m, named)
           IN  Sound(r) /\ (r.link = m.link \/ r.link = "closed")
  <1> DEFINE referenced == named \ {NoOutput}
             moved      == [m EXCEPT !.referenced = referenced]
  <1>1. referenced \in SUBSET Names
    OBVIOUS
  <1> HIDE DEF referenced
  <1>2. Sound(moved) /\ moved.link = m.link
    BY <1>1 DEF Sound, Shell
  <1>3. HandleWorkspacesChanged(m, named) = IF referenced = m.referenced THEN m
                                            ELSE Refresh(moved)
    BY DEF HandleWorkspacesChanged, referenced
  <1> HIDE DEF moved
  <1> QED
    BY <1>2, <1>3, RefreshSound

\* A connection that is lost leaves the shell sound.
LEMMA DisconnectedSound ==
    ASSUME NEW m, Sound(m)
    PROVE  Sound(HandleDisconnected(m)) /\ HandleDisconnected(m).link = m.link
  BY DEF Sound, Shell, HandleDisconnected

\* So does one that is set up, which asks only if it is ready.
LEMMA CheckAttachedSound ==
    ASSUME NEW m, Sound(m)
    PROVE  Sound(CheckAttached(m)) /\
           (CheckAttached(m).link = m.link \/ CheckAttached(m).link = "closed")
  <1> DEFINE watching == [m EXCEPT !.observing = TRUE]
  <1>1. Sound(watching) /\ watching.link = m.link
    BY DEF Sound, Shell
  <1>2. CheckAttached(m) = m \/ CheckAttached(m) = Refresh(watching)
    BY DEF CheckAttached
  <1> HIDE DEF watching
  <1> QED
    BY <1>1, <1>2, RefreshSound

-----------------------------------------------------------------------------
(* The dispatches. *)

\* The shell that is not connected is sound.
LEMMA InitIInv == OutputsInit => IInv
  <1>1. <<>> \in Seq(Request) /\ <<>> \in Seq(Event)
    OBVIOUS
  <1> QED
    BY <1>1, OutputsAssumption DEF OutputsInit, IInv, OutputsTypeOK, Sound, Shell

\* At rest the socket is not in the middle of reporting its failure.
LEMMA ReadReplyStep == IInv /\ ReadReply => IInv'
  <1> SUFFICES ASSUME IInv, ReadReply PROVE IInv'
    OBVIOUS
  <1> DEFINE taken == [shell EXCEPT !.pending = Tail(@)]
             reply == Head(shell.pending)
  <1>1. reply \in Request /\ taken \in Shell /\ taken.link = shell.link
    <2>1. shell \in Shell /\ shell.pending \in Seq(Request) /\ shell.pending # <<>>
      BY DEF IInv, Sound, Shell, ReadReply
    <2>2. Head(shell.pending) \in Request /\ Tail(shell.pending) \in Seq(Request)
      BY <2>1
    <2> QED
      BY <2>1, <2>2 DEF Shell
  <1>2. shell' = HandleReply(taken, reply)
    BY DEF ReadReply
  <1> HIDE DEF taken, reply
  <1>3. Sound(shell') /\ (shell'.link = shell.link \/ shell'.link = "closed")
    BY <1>1, <1>2, HandleReplySound
  <1> QED
    BY <1>3 DEF IInv, OutputsTypeOK, ReadReply, Sound

\* An event read from the stream keeps the invariant.
LEMMA ReadEventStep == IInv /\ ReadEvent => IInv'
  <1> SUFFICES ASSUME IInv, ReadEvent PROVE IInv'
    OBVIOUS
  <1> DEFINE event == Head(events)
  <1>1. event \in Event /\ events' \in Seq(Event)
    BY DEF IInv, OutputsTypeOK, ReadEvent
  <1>2. Sound(shell)
    BY DEF IInv
  <1>3. Sound(shell') /\ (shell'.link = shell.link \/ shell'.link = "closed")
    <2>1. CASE event.what = "ack"
      <3> DEFINE streaming == [shell EXCEPT !.streaming = TRUE]
      <3>1. Sound(streaming) /\ streaming.link = shell.link
        BY <1>2 DEF Sound, Shell
      <3>2. shell' = CheckAttached(streaming)
        BY <2>1 DEF ReadEvent
      <3> HIDE DEF streaming
      <3> QED
        BY <3>1, <3>2, CheckAttachedSound
    <2>2. CASE event.what = "config"
      <3>1. shell' = shell \/ shell' = Refresh(shell)
        BY <2>2 DEF ReadEvent
      <3> QED
        BY <1>2, <3>1, RefreshSound
    <2>3. CASE event.what = "workspaces"
      <3>1. event.named \in SUBSET (Names \cup {NoOutput})
        BY <1>1, <2>3 DEF Event
      <3>2. shell' = shell \/ shell' = HandleWorkspacesChanged(shell, event.named)
        BY <2>3 DEF ReadEvent
      <3> HIDE DEF event
      <3> QED
        BY <1>2, <3>1, <3>2, WorkspacesChangedSound
    <2> QED
      BY <1>1, <2>1, <2>2, <2>3 DEF Event
  <1> QED
    BY <1>1, <1>3 DEF IInv, OutputsTypeOK, ReadEvent, Sound

\* The two dials, the request connection first.
LEMMA DialSound ==
    ASSUME NEW m, Sound(m), m.link # "failing", NEW accepted \in BOOLEAN
    PROVE  Sound(DialStream(DialRequest(m, accepted))) /\
           DialStream(DialRequest(m, accepted)).link # "failing"
  <1> DEFINE closed  == [m EXCEPT !.link = "closed"]
             aborted == IF m.link = "closed" THEN m ELSE ForgetFlight(FailPending(closed))
             request   == [i \in DOMAIN aborted.pending |-> [at |-> "asked"]]
             written == [aborted EXCEPT !.link = "open", !.pending = request]
             dialled == DialRequest(m, accepted)
             dropped == [dialled EXCEPT !.streaming = FALSE]
  <1>1. Sound(closed) /\ closed.link = "closed"
    BY DEF Sound, Shell
  <1> HIDE DEF closed
  <1>2. Sound(aborted) /\ aborted.link = "closed"
    BY <1>1, FailPendingSound, ForgetFlightSound
  <1> HIDE DEF aborted
  <1>3. request \in Seq(Request) /\ (aborted.pending # <<>> => request # <<>>)
    <2>1. aborted.pending \in Seq(Request)
      BY <1>2 DEF Sound, Shell
    <2>2. [at |-> "asked"] \in Request
      BY DEF Request
    <2>3. Len(aborted.pending) \in Nat /\ DOMAIN aborted.pending = 1..Len(aborted.pending)
      BY <2>1
    <2>4. request \in [1..Len(aborted.pending) -> Request]
      BY <2>2, <2>3
    <2>5. request \in Seq(Request) /\ Len(request) = Len(aborted.pending)
      BY <2>3, <2>4
    <2> HIDE DEF request
    <2> QED
      BY <2>1, <2>5
  <1> HIDE DEF request
  <1>4. Sound(written) /\ written.link = "open"
    BY <1>2, <1>3 DEF Sound, Shell
  <1>5. dialled = IF accepted THEN CheckAttached(written)
                  ELSE ForgetFlight(FailPending(aborted))
    BY DEF DialRequest, aborted, closed, written, request
  <1> HIDE DEF written, dialled
  <1>6. Sound(dialled) /\ dialled.link # "failing"
    BY <1>2, <1>4, <1>5, CheckAttachedSound, FailPendingSound, ForgetFlightSound
  <1>7. Sound(dropped) /\ dropped.link = dialled.link
    BY <1>6 DEF Sound, Shell
  <1>8. \/ DialStream(dialled) = dropped
        \/ DialStream(dialled) = HandleDisconnected(dropped)
    BY DEF DialStream
  <1> HIDE DEF dropped
  <1>9. Sound(DialStream(dialled)) /\ DialStream(dialled).link # "failing"
    BY <1>6, <1>7, <1>8, DisconnectedSound
  <1> QED
    BY <1>9 DEF dialled

\* A connection set up anew keeps the invariant.
LEMMA ReattachStep == IInv /\ Reattach => IInv'
  <1> SUFFICES ASSUME IInv, Reattach PROVE IInv'
    OBVIOUS
  <1>1. PICK request \in BOOLEAN, subscription \in BOOLEAN :
            /\ \/ UNCHANGED bounds
               \/ bounds.faults > 0 /\ bounds' = [bounds EXCEPT !.faults = @ - 1]
            /\ shell' = DialStream(DialRequest(shell, request))
            /\ stream' = IF subscription THEN "asked" ELSE "closed"
            /\ events' = <<>>
    BY DEF Reattach
  <1>2. Sound(shell') /\ shell'.link # "failing"
    BY <1>1, DialSound DEF IInv, OutputsTypeOK
  <1>3. bounds' \in [changes : 0..MaxChanges, faults : 0..MaxFaults,
                     refusals : 0..MaxRefusals]
    BY <1>1, OutputsAssumption DEF IInv, OutputsTypeOK
  <1>4. events' \in Seq(Event)
    BY <1>1
  <1> QED
    BY <1>1, <1>2, <1>3, <1>4 DEF IInv, OutputsTypeOK, Reattach, Sound

\* A peer that closes either connection keeps the invariant.
LEMMA ClosedStep == IInv /\ (PeerClosed \/ StreamClosed) => IInv'
  <1> SUFFICES ASSUME IInv, PeerClosed \/ StreamClosed PROVE IInv'
    OBVIOUS
  <1>1. CASE PeerClosed
    <2>1. Sound(shell') /\ shell'.link = "closed"
      BY <1>1, PeerGoneSound DEF IInv, PeerClosed
    <2> QED
      BY <1>1, <2>1 DEF IInv, OutputsTypeOK, PeerClosed, Sound
  <1>2. CASE StreamClosed
    <2> DEFINE dropped == [shell EXCEPT !.streaming = FALSE]
    <2>1. Sound(dropped) /\ dropped.link = shell.link
      BY DEF IInv, Sound, Shell
    <2>2. shell' = HandleDisconnected(dropped)
      BY <1>2 DEF StreamClosed
    <2> HIDE DEF dropped
    <2>3. Sound(shell') /\ shell'.link = shell.link
      BY <2>1, <2>2, DisconnectedSound
    <2> QED
      BY <1>2, <2>3 DEF IInv, OutputsTypeOK, StreamClosed, Sound
  <1> QED
    BY <1>1, <1>2

\* A reply fills in a request and adds or removes none.
LEMMA AnsweredSound ==
    ASSUME NEW m, Sound(m), NEW i \in DOMAIN m.pending, NEW reply \in Request
    PROVE  LET r == [m EXCEPT !.pending[i] = reply]
           IN  Sound(r) /\ r.link = m.link
  <1> DEFINE filled == [m.pending EXCEPT ![i] = reply]
  <1>1. m.pending \in Seq(Request)
    BY DEF Sound, Shell
  <1>2. filled \in Seq(Request) /\ Len(filled) = Len(m.pending)
    BY <1>1
  <1>3. filled # <<>>
    BY <1>1, <1>2
  <1>4. [m EXCEPT !.pending[i] = reply] = [m EXCEPT !.pending = filled]
    BY DEF Sound, Shell
  <1> HIDE DEF filled
  <1> QED
    BY <1>2, <1>3, <1>4 DEF Sound, Shell

\* Whatever the compositor does keeps the invariant.
LEMMA CompositorStep == IInv /\ Compositor => IInv'
  <1> SUFFICES ASSUME IInv, Compositor PROVE IInv'
    OBVIOUS
  <1> USE OutputsAssumption
  <1>1. CASE Subscribe
    <2>1. Burst(compositor) \in Seq(Event)
      BY DEF IInv, OutputsTypeOK, Niri, Event, Burst, Workspaces
    <2> QED
      BY <1>1, <2>1 DEF IInv, OutputsTypeOK, Subscribe
  <1>2. CASE Reply
    <2>1. PICK i \in DOMAIN shell.pending :
              shell' = [shell EXCEPT !.pending[i] =
                            [at |-> "answered", outputs |-> Outputs(compositor)]]
      BY <1>2 DEF Reply
    <2>2. [at |-> "answered", outputs |-> Outputs(compositor)] \in Request
      BY DEF IInv, OutputsTypeOK, Niri, Request, Outputs, Output
    <2>3. Sound(shell)
      BY DEF IInv
    <2> HIDE DEF IInv
    <2>4. Sound(shell') /\ shell'.link = shell.link
      BY <2>1, <2>2, <2>3, AnsweredSound
    <2> QED
      BY <1>2, <2>4 DEF IInv, OutputsTypeOK, Reply, Sound
  <1>3. CASE Refuse
    <2>1. PICK i \in DOMAIN shell.pending :
              shell' = [shell EXCEPT !.pending[i] = [at |-> "refused"]]
      BY <1>3 DEF Refuse
    <2>2. [at |-> "refused"] \in Request
      BY DEF Request
    <2>3. Sound(shell)
      BY DEF IInv
    <2> HIDE DEF IInv
    <2>4. Sound(shell') /\ shell'.link = shell.link
      BY <2>1, <2>2, <2>3, AnsweredSound
    <2> QED
      BY <1>3, <2>4 DEF IInv, OutputsTypeOK, Refuse, Sound
  <1>4. CASE Change
    <2>1. /\ compositor' \in Niri
          /\ events' \in Seq(Event)
      <3>1. CASE \E names \in SUBSET Names \ {compositor.names} :
                     /\ compositor' = [compositor EXCEPT !.names = names]
                     /\ events' = IF stream = "open"
                                  THEN Append(events, Workspaces(names)) ELSE events
        <4>1. PICK names \in SUBSET Names :
                     /\ compositor' = [compositor EXCEPT !.names = names]
                     /\ events' = IF stream = "open"
                                  THEN Append(events, Workspaces(names)) ELSE events
          BY <3>1
        <4>2. Workspaces(names) \in Event
          BY DEF Workspaces, Event
        <4>3. compositor \in Niri /\ events \in Seq(Event)
          BY DEF IInv, OutputsTypeOK
        <4>4. compositor' \in Niri
          BY <4>1, <4>3 DEF Niri
        <4>5. events' \in Seq(Event)
          BY <4>1, <4>2, <4>3
        <4> QED
          BY <4>4, <4>5
      <3>2. CASE /\ compositor' = [compositor EXCEPT !.config = IF @ = "old" THEN "new" ELSE "old"]
                 /\ events' = IF stream = "open"
                              THEN Append(events, [what |-> "config"]) ELSE events
        <4>1. [what |-> "config"] \in Event
          BY DEF Event
        <4>2. compositor \in Niri /\ events \in Seq(Event)
          BY DEF IInv, OutputsTypeOK
        <4>3. compositor' \in Niri
          BY <3>2, <4>2 DEF Niri
        <4>4. events' \in Seq(Event)
          BY <3>2, <4>1, <4>2
        <4> QED
          BY <4>3, <4>4
      <3> QED
        BY <1>4, <3>1, <3>2 DEF Change
    <2> QED
      BY <1>4, <2>1 DEF IInv, OutputsTypeOK, Change
  <1>5. CASE Crash
    <2>1. Sound(HungUp(shell)) /\ HungUp(shell).link # "failing"
      BY DEF IInv, OutputsTypeOK, Sound, Shell, HungUp
    <2>2. compositor' \in Niri
      BY <1>5 DEF IInv, OutputsTypeOK, Niri, Crash
    <2>3. bounds' \in [changes : 0..MaxChanges, faults : 0..MaxFaults,
                       refusals : 0..MaxRefusals]
      BY <1>5 DEF IInv, OutputsTypeOK, Crash
    <2>4. stream' \in {"closed", "asked", "open", "hungup"}
      BY <1>5 DEF IInv, OutputsTypeOK, Crash
    <2> QED
      BY <1>5, <2>1, <2>2, <2>3, <2>4 DEF IInv, OutputsTypeOK, Crash, Sound
  <1>6. CASE DropConnection
    <2>1. Sound(HungUp(shell)) /\ HungUp(shell).link # "failing"
      BY DEF IInv, OutputsTypeOK, Sound, Shell, HungUp
    <2> QED
      BY <1>6, <2>1 DEF IInv, OutputsTypeOK, DropConnection, Sound
  <1>7. CASE Restart
    BY <1>7 DEF IInv, OutputsTypeOK, Niri, Restart
  <1> QED
    BY <1>1, <1>2, <1>3, <1>4, <1>5, <1>6, <1>7 DEF Compositor

\* Every step keeps the invariant, and so does none.
LEMMA NextIInv == IInv /\ [OutputsNext]_outputsVars => IInv'
  <1>1. IInv /\ UNCHANGED outputsVars => IInv'
    BY DEF IInv, OutputsTypeOK, Sound, outputsVars
  <1> QED
    BY <1>1, ReadReplyStep, ReadEventStep, ReattachStep, ClosedStep, CompositorStep
       DEF OutputsNext, EventLoop

-----------------------------------------------------------------------------
(* The theorems. *)

\* The types hold, and with them that no dispatch ends with the socket half way
\* through reporting its failure.
THEOREM TypeCorrect == OutputsSpec => []OutputsTypeOK
  <1>1. IInv => OutputsTypeOK
    BY DEF IInv
  <1> QED
    BY <1>1, InitIInv, NextIInv, PTL DEF OutputsSpec

\* NiriOutputs never waits for a reply no request will bring: handleReply,
\* failPending and the handlers of the two connections' ends keep the flags in
\* step with the queue wherever a drop, a dial or a failure falls among them.
THEOREM NeverWaitsForNothing == OutputsSpec => []NeverWedged
  <1>1. IInv => NeverWedged
    BY DEF IInv, Sound, NeverWedged
  <1> QED
    BY <1>1, InitIInv, NextIInv, PTL DEF OutputsSpec
=============================================================================
