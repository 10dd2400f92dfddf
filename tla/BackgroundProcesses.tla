------------------------ MODULE BackgroundProcesses ------------------------
(***************************************************************************)
(* What the background-process tools of claw-exec promise their client,    *)
(* without pids, goroutines, pipes or locks.  Every command that was       *)
(* started goes through a life of its own:                                 *)
(*                                                                         *)
(*     unborn -> starting -> running -> finished -> retired                *)
(*                       \-> rejected                                      *)
(*                                                                         *)
(* and while it lives the server owes its client the output it keeps.      *)
(***************************************************************************)
EXTENDS Integers, FiniteSets

CONSTANTS
    Procs,            \* the commands ever started
    Streams,          \* the output streams of a command
    Limit,            \* the output the server keeps of a stream
    Verdicts,         \* the exit codes that can be reported
    MaxProcessCount   \* the processes a client can name at one time

VARIABLES
    phase,            \* where the command is in its life
    owed,             \* output kept and not yet delivered, per stream
    verdict           \* the exit code reported, from "finished" on

avars == <<phase, owed, verdict>>

Phases ==
    {"unborn", "starting", "running", "finished", "retired", "rejected"}

AInit ==
    /\ phase = [p \in Procs |-> "unborn"]
    /\ owed = [p \in Procs |-> [s \in Streams |-> 0]]
    /\ verdict = [p \in Procs |-> 0]

Nameable == {p \in Procs : phase[p] \in {"running", "finished"}}

Move(p, from, to) ==
    /\ phase[p] = from
    /\ phase' = [phase EXCEPT ![p] = to]

Begin(p) ==
    /\ Move(p, "unborn", "starting")
    /\ UNCHANGED <<owed, verdict>>

\* The client gets a pid.
Accept(p) ==
    /\ Cardinality(Nameable) < MaxProcessCount
    /\ Move(p, "starting", "running")
    /\ UNCHANGED <<owed, verdict>>

\* The client gets an error and the process is killed.
Reject(p) ==
    /\ Move(p, "starting", "rejected")
    /\ UNCHANGED <<owed, verdict>>

\* The process has written, and the server keeps some of it.
Output(p, s, n) ==
    /\ phase[p] \in {"starting", "running", "rejected"}
    /\ n > owed[p][s]
    /\ owed' = [owed EXCEPT ![p][s] = n]
    /\ UNCHANGED <<phase, verdict>>

\* A poll takes all there is of one stream.
Deliver(p, s) ==
    /\ phase[p] \in {"running", "finished"}
    /\ owed' = [owed EXCEPT ![p][s] = 0]
    /\ UNCHANGED <<phase, verdict>>

\* The exit is made known, once, with its code: no output comes after it.
Finish(p, v) ==
    /\ Move(p, "running", "finished")
    /\ verdict' = [verdict EXCEPT ![p] = v]
    /\ UNCHANGED owed

\* The pid is given up when nothing is owed any more.
Retire(p) ==
    /\ \A s \in Streams : owed[p][s] = 0
    /\ Move(p, "finished", "retired")
    /\ UNCHANGED <<owed, verdict>>

ANext ==
    \E p \in Procs :
        \/ Begin(p) \/ Accept(p) \/ Reject(p) \/ Retire(p)
        \/ \E v \in Verdicts : Finish(p, v)
        \/ \E s \in Streams :
            \/ Deliver(p, s)
            \/ \E n \in 1..Limit : Output(p, s, n)

ASpec == AInit /\ [][ANext]_avars
=============================================================================
