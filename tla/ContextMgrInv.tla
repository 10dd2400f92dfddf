--------------------------- MODULE ContextMgrInv ---------------------------
(* The inductive invariant of ContextMgr.                                     *)
EXTENDS ContextMgr

(* A goroutine is in a call when a request of it is awaited. *)
InCall(w) == \E i \in Inner : waits[i] = w

(* Nobody waits for two requests, and only who is in a call waits.            *)
WaitsMatch ==
    \A i \in Inner : waits[i] # Nobody =>
       /\ pc[i] = "upstream"
       /\ Running(waits[i]) /\ job[waits[i]].step \in CallSteps
       /\ \A k \in Inner : waits[k] = waits[i] => k = i

Tries == MaxRetries + 1

(* What a goroutine at a step may have spent, the call it is in not counted.  *)
Spent(j) ==
    CASE j.step \in {"swap", "flush", "single"} -> 0
      [] j.step = "chunk"  -> (j.chunk - 1) * Tries + j.attempt
      [] j.step = "merge"  -> ChunkCount * Tries + j.attempt
      [] j.step \in {"audit", "fix"} -> (ChunkCount + 1) * Tries
      [] j.step = "finish" -> (ChunkCount + 1) * Tries + 1

SpentInTime(w) ==
    Running(w) => job[w].calls <= Spent(job[w]) + IF InCall(w) THEN 1 ELSE 0

Inv ==
    /\ TypeOK
    /\ OneFlushPerCycle
    /\ OverflowForcesOnce
    /\ WaitsMatch
    /\ \A w \in Worker : SpentInTime(w)
=============================================================================
