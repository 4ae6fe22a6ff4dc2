-------------------------- MODULE MCNiriConnections --------------------------
(* The supervisor over both connections, and the request connection with its  *)
(* callers, in behaviours of their own: the other stays as it starts. Three    *)
(* backoff steps up to the maximum, and faults enough for a crash to meet a    *)
(* dropped connection and a refused subscription; ids are of three bits.       *)
EXTENDS NiriReconnect, NiriActions

VARIABLE subject

allVars == <<vars, actionsVars, subject>>

MCInit == Init /\ ActionsInit /\ subject \in {"supervisor", "requests"}

MCNext ==
    /\ UNCHANGED subject
    /\ \/ subject = "supervisor" /\ Next /\ UNCHANGED actionsVars
       \/ subject = "requests" /\ ActionsNext /\ UNCHANGED vars

MCSpec == MCInit /\ [][MCNext]_allVars /\ Fairness
=============================================================================
