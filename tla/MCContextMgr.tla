---------------------------- MODULE MCContextMgr ----------------------------
EXTENDS ContextMgrInv, TLC

(* A flush comes with no history, or with one that is itself to be flushed    *)
(* and compacted.                                                             *)
MCFlushHistories == {<<>>, <<"user", "assistant", "user">>}

MCNoHistory == {<<>>}

(* Sessions, goroutines and requests are interchangeable. *)
Alike == Permutations(Session) \cup Permutations(Worker) \cup Permutations(Inner)
=============================================================================
