------------------------------ MODULE Sandbox ------------------------------
(***************************************************************************)
(* Where the commands of claw-exec run (sandboxExec, main.go:201-245).     *)
(* The child that ChildProcess models is not the command but the program   *)
(* that carries it: bwrap, whose sandbox has its own pid namespace and     *)
(* dies with it (--unshare-pid, --die-with-parent), or the client          *)
(* "docker exec", whose command is a process of the container.  A client   *)
(* that ends by a signal leaves its command running there.                 *)
(***************************************************************************)
EXTENDS ChildProcess

VARIABLES
    runtime,      \* the global of that name, set once by detectRuntime
    inside        \* the commands that run in the container, their client gone

sandboxVars == <<runtime, inside>>

Runtimes == {"bwrap", "docker"}

SandboxTypeOK ==
    /\ runtime \in Runtimes
    /\ inside \subseteq Procs

SandboxInit ==
    /\ runtime \in Runtimes
    /\ inside = {}

\* The children that this step ends by a signal.
CutOff ==
    {p \in Procs : /\ os[p] = "running" /\ os'[p] = "exited"
                   /\ status'[p] = Signaled}

\* What a step of the children leaves in the container.
LeaveBehind ==
    /\ inside' = IF runtime = "docker" THEN inside \cup CutOff ELSE inside
    /\ runtime' = runtime

\* A command ends in the container, unseen by claw-exec.
EndInside(p) ==
    /\ p \in inside
    /\ inside' = inside \ {p}
    /\ UNCHANGED <<runtime, childVars>>
=============================================================================
