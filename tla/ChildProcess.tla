---------------------------- MODULE ChildProcess ----------------------------
(***************************************************************************)
(* What claw-exec relies on for every command it runs in the background:   *)
(* the kernel's process and pipes and the copying goroutines of os/exec    *)
(* (outside src/, modelled from how cmd/claw-exec/main.go uses them), and  *)
(* the limitedBuffer of claw-exec that those goroutines write into.        *)
(*                                                                         *)
(* exec.Cmd is given a limitedBuffer as Stdout and another as Stderr       *)
(* (main.go:332-335).  As neither is an *os.File, Start makes one pipe and *)
(* one goroutine per stream, which runs io.Copy(buffer, pipe) and then     *)
(* closes the read end.  Bytes are abstracted to their number.             *)
(***************************************************************************)
EXTENDS Integers

CONSTANTS
    Procs,        \* the commands ever started
    Limit,        \* capacity of a limitedBuffer (maxOutputBytes)
    PipeCap,      \* capacity of a kernel pipe
    ReadSize,     \* the buffer io.Copy reads into
    ExitCodes,    \* the codes a command ends itself with
    Chatty        \* the streams the commands write to: a bound of the model

Streams  == {"stdout", "stderr"}
Signaled == -1    \* ProcessState.ExitCode() of a process ended by a signal

ASSUME ChildAssumption ==
    /\ Limit \in Nat \ {0}
    /\ PipeCap \in Nat \ {0}
    /\ ReadSize \in Nat \ {0}
    /\ ExitCodes \subseteq Nat
    /\ Chatty \subseteq Streams

VARIABLES
    os,           \* "none" before Start, then "running", then "exited"
    sig,          \* SIGKILL was sent to the process
    status,       \* the wait status, once the process has exited
    pipe,         \* bytes written by the child and not yet read, per stream
    copier,       \* the copying goroutine: "off", "copy", "eof" (the stream
                  \* ended) or "shut" (io.Copy gave up, read end closed)
    buf           \* bytes in the limitedBuffer, per stream

childVars == <<os, sig, status, pipe, copier, buf>>

ChildTypeOK ==
    /\ os \in [Procs -> {"none", "running", "exited"}]
    /\ sig \in [Procs -> BOOLEAN]
    /\ status \in [Procs -> ExitCodes \cup {Signaled, 0}]
    /\ pipe \in [Procs -> [Streams -> 0..PipeCap]]
    /\ copier \in [Procs -> [Streams -> {"off", "copy", "eof", "shut"}]]
    /\ buf \in [Procs -> [Streams -> 0..Limit]]

ChildInit ==
    /\ os = [p \in Procs |-> "none"]
    /\ sig = [p \in Procs |-> FALSE]
    /\ status = [p \in Procs |-> 0]
    /\ pipe = [p \in Procs |-> [s \in Streams |-> 0]]
    /\ copier = [p \in Procs |-> [s \in Streams |-> "off"]]
    /\ buf = [p \in Procs |-> [s \in Streams |-> 0]]

-----------------------------------------------------------------------------
(* Definitions under the heading "A slip" are faults a change of the code  *)
(* could bring in; no specification uses them, they are there to show that *)
(* the properties would find them.                                         *)
(*                                                                         *)
(* limitedBuffer.Write(p) with len(p) = n on a buffer that holds b bytes:  *)
(* a full buffer discards the chunk and reports it written; otherwise the  *)
(* chunk is cut to the room left and the shorter length is returned.       *)

Lesser(m, n) == IF m <= n THEN m ELSE n

\* A slip: the chunk is not cut to the room left.
StoredUncut(b, n) == IF b >= Limit THEN 0 ELSE n

Stored(b, n) == IF b >= Limit THEN 0 ELSE Lesser(n, Limit - b)

Returned(b, n) == IF b >= Limit THEN n ELSE Lesser(n, Limit - b)

-----------------------------------------------------------------------------
(* The child itself. *)

\* cmd.Start(): the process and its two copying goroutines come to life.
Fork(p) ==
    /\ os[p] = "none"
    /\ os' = [os EXCEPT ![p] = "running"]
    /\ copier' = [copier EXCEPT ![p] = [s \in Streams |-> "copy"]]
    /\ UNCHANGED <<sig, status, pipe, buf>>

\* The command writes to a pipe somebody still reads and that has room.
Produce(p, s) ==
    /\ s \in Chatty
    /\ os[p] = "running"
    /\ copier[p][s] = "copy"
    /\ pipe[p][s] < PipeCap
    /\ pipe' = [pipe EXCEPT ![p][s] = @ + 1]
    /\ UNCHANGED <<os, sig, status, copier, buf>>

\* The command writes to a pipe whose read end is closed: SIGPIPE.
BrokenPipe(p, s) ==
    /\ s \in Chatty
    /\ os[p] = "running"
    /\ copier[p][s] = "shut"
    /\ os' = [os EXCEPT ![p] = "exited"]
    /\ status' = [status EXCEPT ![p] = Signaled]
    /\ UNCHANGED <<sig, pipe, copier, buf>>

\* The command ends by itself.
Exit(p, c) ==
    /\ os[p] = "running"
    /\ os' = [os EXCEPT ![p] = "exited"]
    /\ status' = [status EXCEPT ![p] = c]
    /\ UNCHANGED <<sig, pipe, copier, buf>>

\* SIGKILL takes effect.
DieKilled(p) ==
    /\ os[p] = "running"
    /\ sig[p]
    /\ os' = [os EXCEPT ![p] = "exited"]
    /\ status' = [status EXCEPT ![p] = Signaled]
    /\ UNCHANGED <<sig, pipe, copier, buf>>

-----------------------------------------------------------------------------
(* The copying goroutine of one stream. *)

\* A slip: Write waits for room instead of discarding.
CopyWaiting(p, s) ==
    LET n == Lesser(pipe[p][s], ReadSize)
    IN  /\ copier[p][s] = "copy"
        /\ n > 0
        /\ buf[p][s] + n <= Limit
        /\ buf' = [buf EXCEPT ![p][s] = @ + n]
        /\ pipe' = [pipe EXCEPT ![p][s] = @ - n]
        /\ UNCHANGED <<os, sig, status, copier>>

\* One turn of io.Copy: a read of what the pipe holds and one Write of it.
\* A short count ends io.Copy with io.ErrShortWrite; os/exec then closes the
\* read end, so what is still in the pipe is lost.
Copy(p, s) ==
    LET n     == Lesser(pipe[p][s], ReadSize)
        short == Returned(buf[p][s], n) < n
    IN  /\ copier[p][s] = "copy"
        /\ n > 0
        /\ buf' = [buf EXCEPT ![p][s] = @ + Stored(@, n)]
        /\ pipe' = [pipe EXCEPT ![p][s] = IF short THEN 0 ELSE @ - n]
        /\ copier' = [copier EXCEPT ![p][s] = IF short THEN "shut" ELSE @]
        /\ UNCHANGED <<os, sig, status>>

\* io.Copy reads end of file: the child is gone and the pipe is empty.
CopyEOF(p, s) ==
    /\ copier[p][s] = "copy"
    /\ os[p] = "exited"
    /\ pipe[p][s] = 0
    /\ copier' = [copier EXCEPT ![p][s] = "eof"]
    /\ UNCHANGED <<os, sig, status, pipe, buf>>

\* Both copying goroutines have ended: cmd.Wait awaits them after the exit.
Copied(p) == \A s \in Streams : copier[p][s] \in {"eof", "shut"}

-----------------------------------------------------------------------------
ChildStep(p) ==
    \/ \E s \in Streams : Produce(p, s) \/ BrokenPipe(p, s)
    \/ \E c \in ExitCodes : Exit(p, c)
    \/ DieKilled(p)
    \/ \E s \in Streams : Copy(p, s) \/ CopyEOF(p, s)

\* The kernel delivers a SIGKILL and the Go scheduler runs the goroutines;
\* nothing makes a command write or end.
ChildFairness ==
    \A p \in Procs :
        /\ WF_childVars(DieKilled(p))
        /\ \A s \in Streams : WF_childVars(Copy(p, s) \/ CopyEOF(p, s))
=============================================================================
