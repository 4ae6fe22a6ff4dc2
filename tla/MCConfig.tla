------------------------------- MODULE MCConfig -------------------------------
(* What an edit may write: each type, with the numbers and strings that the    *)
(* rules tell apart; 16984 is 600 in an int of 14 bits.                         *)
EXTENDS Config

AllNodes ==
    {<<"boolean", FALSE>>, <<"float", 5>>}
    \cup {<<"integer", n>> : n \in {0, 600, 16984}}
    \cup {<<"string", s>> : s \in {"", "#7aa2f7", "used", "quantum-shell-top", "night", "day"}}
=============================================================================
