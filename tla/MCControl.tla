------------------------------- MODULE MCControl -------------------------------
(* Model checking of the launcher and the socket: somebody at the panel, clients *)
(* of the socket, and a little of both, in behaviours of their own.              *)
EXTENDS Control

AtThePanel == [installed |-> SUBSET {1, 2}, typing |-> TRUE, launches |-> 2,
               changes |-> 1, lines |-> 0]
OverTheSocket == [installed |-> {{1}}, typing |-> FALSE, launches |-> 0,
                  changes |-> 0, lines |-> 2]
Both == [installed |-> {{1, 2}}, typing |-> FALSE, launches |-> 1,
         changes |-> 0, lines |-> 1]

AllTraffic == {AtThePanel, OverTheSocket, Both}
=============================================================================
