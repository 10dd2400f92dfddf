------------------------- MODULE ProcessTablePromise -------------------------
(***************************************************************************)
(* ProcessTable implements BackgroundProcesses: the life of a command as   *)
(* its client sees it, read off the state of the server.                   *)
(***************************************************************************)
EXTENDS ProcessTableInv

PhaseOf(p) ==
    IF os[p] = "none" THEN "unborn"
    ELSE IF p \in Registered THEN IF done[p] THEN "finished" ELSE "running"
    ELSE IF waiter[p] # "none" THEN "retired"
    ELSE IF sig[p] THEN "rejected"
    ELSE "starting"

VerdictOf(p) == IF done[p] THEN exitCode[p] ELSE 0

phaseMap   == [p \in Procs |-> PhaseOf(p)]
verdictMap == [p \in Procs |-> VerdictOf(p)]

Abstract ==
    INSTANCE BackgroundProcesses WITH
        Verdicts <- ExitCodes \cup {Signaled, 0},
        phase    <- phaseMap,
        owed     <- buf,
        verdict  <- verdictMap

\* The tools of claw-exec keep the promise of BackgroundProcesses: a pid is
\* handed out only while fewer than maxProcessCount are in use, the verdict is
\* given once, no output follows it, and a pid is given up only when nothing
\* is owed.
Promise == Abstract!ASpec
=============================================================================
