--------------------------- MODULE MCNiriOutputs ----------------------------
(* Model checking of NiriOutputs. The configurations give the constants. *)
EXTENDS NiriOutputs
=============================================================================
