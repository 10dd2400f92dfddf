----------------------------- MODULE MCExecTool -----------------------------
(* A small instance of ExecTool for TLC. *)
EXTENDS ExecToolInv
=============================================================================
