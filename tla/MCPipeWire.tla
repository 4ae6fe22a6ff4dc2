----------------------------- MODULE MCPipeWire -----------------------------
(* Small instances of PipeWire. *)
EXTENDS PipeWire
=============================================================================
