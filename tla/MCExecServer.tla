---------------------------- MODULE MCExecServer ----------------------------
(* Small instances of ExecServer for TLC. *)
EXTENDS ExecServerInv, TLC

\* Commands and handlers are interchangeable.
Symmetry == Permutations(Procs) \cup Permutations(Handlers)
=============================================================================
