---------------------------- MODULE ProcessTable ----------------------------
(***************************************************************************)
(* The background processes of claw-exec (cmd/claw-exec/main.go): the      *)
(* process table, the tools process_start, process_send and process_poll,  *)
(* and the goroutine that waits for each process.                          *)
(*                                                                         *)
(* mcpserver runs one goroutine per request, so the tools run concurrently *)
(* and meet in the table, in the entries they took from it, and in the     *)
(* buffers the copying goroutines fill.  A step of this module is what one *)
(* goroutine does between two points where another one can be observed: a  *)
(* section under processTable.mu or limitedBuffer.mu, a receive from or a  *)
(* close of entry.done, a call of the kernel.                              *)
(*                                                                         *)
(* An entry never shares its exec.Cmd or its buffers with another, so an   *)
(* entry is identified with the process it was made for.                   *)
(***************************************************************************)
EXTENDS ChildProcess, FiniteSets, Functions

CONSTANTS
    Handlers,         \* the requests the server works on at one time
    MaxProcessCount,  \* maxProcessCount
    NoProc            \* "no entry": the handler holds none

ASSUME TableAssumption ==
    /\ IsFiniteSet(Procs)
    /\ IsFiniteSet(Handlers)
    /\ MaxProcessCount \in Nat \ {0}
    /\ NoProc \notin Procs

VARIABLES
    entries,      \* processTable.entries: pid -> entry
    nextID,       \* processTable.nextID
    exitCode,     \* entry.exitCode
    done,         \* entry.done is closed
    waiter,       \* the waiting goroutine of an entry: "none" before it is
                  \* spawned, "wait" in cmd.Wait, "code" before it stores the
                  \* exit code, "close" before it closes done, "end" after
    pc,           \* where a handler is; "idle" when it serves no request
    ent,          \* the entry the handler made or took from the table
    pid,          \* the pid the request named (process_send, process_poll)
    finished      \* the negation of process_poll's local `running`

tableVars == <<entries, nextID>>
waitVars  == <<exitCode, done, waiter>>
callVars  == <<pc, ent, pid, finished>>
vars      == <<childVars, tableVars, waitVars, callVars>>

StartPC == {"add", "kill", "go"}
PollPC  == {"check", "stdout", "stderr", "report"}

TableTypeOK ==
    /\ nextID \in Nat
    /\ DOMAIN entries \subseteq 1..nextID
    /\ entries \in [DOMAIN entries -> Procs]

WaitTypeOK ==
    /\ exitCode \in [Procs -> ExitCodes \cup {Signaled, 0}]
    /\ done \in [Procs -> BOOLEAN]
    /\ waiter \in [Procs -> {"none", "wait", "code", "close", "end"}]

CallTypeOK ==
    /\ pc \in [Handlers -> {"idle", "write"} \cup StartPC \cup PollPC]
    /\ ent \in [Handlers -> Procs \cup {NoProc}]
    /\ \A h \in Handlers : pc[h] # "idle" => ent[h] \in Procs
    /\ pid \in [Handlers -> Nat]
    /\ finished \in [Handlers -> BOOLEAN]

TypeOK == ChildTypeOK /\ TableTypeOK /\ WaitTypeOK /\ CallTypeOK

Init ==
    /\ ChildInit
    /\ entries = [id \in {} |-> NoProc]
    /\ nextID = 0
    /\ exitCode = [p \in Procs |-> 0]
    /\ done = [p \in Procs |-> FALSE]
    /\ waiter = [p \in Procs |-> "none"]
    /\ pc = [h \in Handlers |-> "idle"]
    /\ ent = [h \in Handlers |-> NoProc]
    /\ pid = [h \in Handlers |-> 0]
    /\ finished = [h \in Handlers |-> FALSE]

\* The processes the table knows.
Registered == Range(entries)

\* The handler answers its request and forgets its local variables.
Return(h) ==
    /\ pc' = [pc EXCEPT ![h] = "idle"]
    /\ ent' = [ent EXCEPT ![h] = NoProc]
    /\ pid' = [pid EXCEPT ![h] = 0]
    /\ finished' = [finished EXCEPT ![h] = FALSE]

Goto(h, label) ==
    /\ pc' = [pc EXCEPT ![h] = label]
    /\ UNCHANGED <<ent, pid, finished>>

-----------------------------------------------------------------------------
(* processTable *)

\* A slip: the table is let grow one past its limit.
AddEntryOneMore(p) ==
    /\ Cardinality(DOMAIN entries) <= MaxProcessCount
    /\ nextID' = nextID + 1
    /\ entries' = [id \in DOMAIN entries \cup {nextID + 1} |->
                      IF id = nextID + 1 THEN p ELSE entries[id]]

\* A slip: the lowest free pid is handed out again.
AddEntryReusing(p) ==
    LET free == CHOOSE i \in 1..MaxProcessCount : i \notin DOMAIN entries
    IN  /\ Cardinality(DOMAIN entries) < MaxProcessCount
        /\ nextID' = IF free > nextID THEN free ELSE nextID
        /\ entries' = [id \in DOMAIN entries \cup {free} |->
                          IF id = free THEN p ELSE entries[id]]

\* processTable.add, when there is room.
AddEntry(p) ==
    /\ Cardinality(DOMAIN entries) < MaxProcessCount
    /\ nextID' = nextID + 1
    /\ entries' = [id \in DOMAIN entries \cup {nextID + 1} |->
                      IF id = nextID + 1 THEN p ELSE entries[id]]

\* processTable.remove
RemoveEntry(id) ==
    /\ entries' = Restrict(entries, DOMAIN entries \ {id})
    /\ nextID' = nextID

-----------------------------------------------------------------------------
(* process_start *)

\* The process runs before the table is asked whether there is room for it.
Start(h, p) ==
    /\ pc[h] = "idle"
    /\ Fork(p)
    /\ pc' = [pc EXCEPT ![h] = "add"]
    /\ ent' = [ent EXCEPT ![h] = p]
    /\ UNCHANGED <<tableVars, waitVars, pid, finished>>

Add(h) ==
    /\ pc[h] = "add"
    /\ AddEntry(ent[h])
    /\ Goto(h, "go")
    /\ UNCHANGED <<childVars, waitVars>>

AddFails(h) ==
    /\ pc[h] = "add"
    /\ Cardinality(DOMAIN entries) >= MaxProcessCount
    /\ Goto(h, "kill")
    /\ UNCHANGED <<childVars, tableVars, waitVars>>

\* cmd.Process.Kill(): nobody will call Wait on this process.  A process that
\* has exited meanwhile is still a zombie, the signal has no effect on it.
Kill(h) ==
    /\ pc[h] = "kill"
    /\ sig' = [sig EXCEPT ![ent[h]] = TRUE]
    /\ Return(h)
    /\ UNCHANGED <<os, status, pipe, copier, buf, tableVars, waitVars>>

Go(h) ==
    /\ pc[h] = "go"
    /\ waiter' = [waiter EXCEPT ![ent[h]] = "wait"]
    /\ Return(h)
    /\ UNCHANGED <<childVars, tableVars, exitCode, done>>

-----------------------------------------------------------------------------
(* The waiting goroutine. *)

\* A slip: cmd.Process.Wait, which does not await the copying goroutines.
WaitProcessOnly(p) ==
    /\ waiter[p] = "wait"
    /\ os[p] = "exited"
    /\ waiter' = [waiter EXCEPT ![p] = "code"]
    /\ UNCHANGED <<childVars, tableVars, callVars, exitCode, done>>

\* cmd.Wait returns after the exit and after the copying goroutines.
WaitReturns(p) ==
    /\ waiter[p] = "wait"
    /\ os[p] = "exited"
    /\ Copied(p)
    /\ waiter' = [waiter EXCEPT ![p] = "code"]
    /\ UNCHANGED <<childVars, tableVars, callVars, exitCode, done>>

SetExitCode(p) ==
    /\ waiter[p] = "code"
    /\ exitCode' = [exitCode EXCEPT ![p] = status[p]]
    /\ waiter' = [waiter EXCEPT ![p] = "close"]
    /\ UNCHANGED <<childVars, tableVars, callVars, done>>

\* A slip: done may be closed before the exit code is stored.
CloseDoneEarly(p) ==
    /\ waiter[p] \in {"code", "close"}
    /\ done' = [done EXCEPT ![p] = TRUE]
    /\ waiter' = [waiter EXCEPT ![p] = "end"]
    /\ UNCHANGED <<childVars, tableVars, callVars, exitCode>>

CloseDone(p) ==
    /\ waiter[p] = "close"
    /\ done' = [done EXCEPT ![p] = TRUE]
    /\ waiter' = [waiter EXCEPT ![p] = "end"]
    /\ UNCHANGED <<childVars, tableVars, callVars, exitCode>>

-----------------------------------------------------------------------------
(* process_send and process_poll.  A request that names an unknown pid is  *)
(* answered at once and changes nothing.                                   *)

\* processTable.get, by a handler that goes on at `label`.
Get(h, id, label) ==
    /\ pc[h] = "idle"
    /\ id \in DOMAIN entries
    /\ pc' = [pc EXCEPT ![h] = label]
    /\ ent' = [ent EXCEPT ![h] = entries[id]]
    /\ pid' = [pid EXCEPT ![h] = id]
    /\ UNCHANGED <<childVars, tableVars, waitVars, finished>>

SendGet(h, id) == Get(h, id, "write")

\* The child takes the input, or the pipe has room for it.
SendOk(h) ==
    /\ pc[h] = "write"
    /\ os[ent[h]] = "running"
    /\ Return(h)
    /\ UNCHANGED <<childVars, tableVars, waitVars>>

\* The read end of stdin is gone with the process.
SendFails(h) ==
    /\ pc[h] = "write"
    /\ os[ent[h]] = "exited"
    /\ Return(h)
    /\ UNCHANGED <<childVars, tableVars, waitVars>>

PollGet(h, id) == Get(h, id, "check")

\* A slip: a select without its default branch waits for the process.
PollCheckWaits(h) ==
    /\ pc[h] = "check"
    /\ done[ent[h]]
    /\ finished' = [finished EXCEPT ![h] = TRUE]
    /\ pc' = [pc EXCEPT ![h] = "stdout"]
    /\ UNCHANGED <<childVars, tableVars, waitVars, ent, pid>>

\* The select on entry.done, before anything is drained.
PollCheck(h) ==
    /\ pc[h] = "check"
    /\ finished' = [finished EXCEPT ![h] = done[ent[h]]]
    /\ pc' = [pc EXCEPT ![h] = "stdout"]
    /\ UNCHANGED <<childVars, tableVars, waitVars, ent, pid>>

\* A slip: the buffer is read and not reset.
DrainKeeping(p, s) == UNCHANGED childVars

\* limitedBuffer.Drain of stream s of the entry.
Drain(p, s) ==
    /\ buf' = [buf EXCEPT ![p][s] = 0]
    /\ UNCHANGED <<os, sig, status, pipe, copier>>

DrainStdout(h) ==
    /\ pc[h] = "stdout"
    /\ Drain(ent[h], "stdout")
    /\ Goto(h, "stderr")
    /\ UNCHANGED <<tableVars, waitVars>>

\* A slip: done is looked at after the buffers were drained.
DrainThenCheck(h) ==
    /\ pc[h] = "stderr"
    /\ Drain(ent[h], "stderr")
    /\ finished' = [finished EXCEPT ![h] = done[ent[h]]]
    /\ pc' = [pc EXCEPT ![h] = "report"]
    /\ UNCHANGED <<tableVars, waitVars, ent, pid>>

DrainStderr(h) ==
    /\ pc[h] = "stderr"
    /\ Drain(ent[h], "stderr")
    /\ Goto(h, "report")
    /\ UNCHANGED <<tableVars, waitVars>>

\* The report: with the exit code, and the pid given up, if `running` was
\* false when the poll began.
ReportExit(h) ==
    /\ pc[h] = "report"
    /\ finished[h]
    /\ RemoveEntry(pid[h])
    /\ Return(h)
    /\ UNCHANGED <<childVars, waitVars>>

ReportRunning(h) ==
    /\ pc[h] = "report"
    /\ ~finished[h]
    /\ Return(h)
    /\ UNCHANGED <<childVars, tableVars, waitVars>>

-----------------------------------------------------------------------------
\* What a handler does by itself once it serves a request; SendOk is the
\* child's doing as well.
HandlerStep(h) ==
    \/ Add(h) \/ AddFails(h) \/ Kill(h) \/ Go(h)
    \/ SendFails(h)
    \/ PollCheck(h) \/ DrainStdout(h) \/ DrainStderr(h)
    \/ ReportExit(h) \/ ReportRunning(h)

WaiterStep(p) == WaitReturns(p) \/ SetExitCode(p) \/ CloseDone(p)

Next ==
    \/ \E h \in Handlers :
        \/ \E p \in Procs : Start(h, p)
        \/ \E id \in 1..nextID : SendGet(h, id) \/ PollGet(h, id)
        \/ HandlerStep(h)
        \/ SendOk(h)
    \/ \E p \in Procs :
        \/ WaiterStep(p)
        \/ ChildStep(p) /\ UNCHANGED <<tableVars, waitVars, callVars>>

\* The Go scheduler runs every goroutine that can run.  No request is ever
\* certain to come, and no command to write, to read or to end.
Fairness ==
    /\ ChildFairness
    /\ \A h \in Handlers : WF_vars(HandlerStep(h))
    /\ \A p \in Procs : WF_vars(WaiterStep(p))

Spec == Init /\ [][Next]_vars

FairSpec == Spec /\ Fairness

-----------------------------------------------------------------------------
(* Safety *)

\* A pid that process_start handed out and that is gone from the table was
\* given up by a poll that came after the exit, and nothing the copying
\* goroutines had taken from the process is left undelivered: done is read
\* before the buffers are drained (main.go:410-418), and is closed after
\* cmd.Wait, which awaits the copying goroutines.
RemovedMeansDelivered ==
    \A p \in Procs :
        waiter[p] # "none" /\ p \notin Registered
            => done[p] /\ \A s \in Streams : buf[p][s] = 0

\* The exit code a poll is about to report is the one the process ended with,
\* never the zero of a fresh entry: it is stored before done is closed
\* (main.go:350-353, 428).
ReportedCodeIsReal ==
    \A h \in Handlers :
        pc[h] = "report" /\ finished[h]
            => os[ent[h]] = "exited" /\ exitCode[ent[h]] = status[ent[h]]

\* While a handler works on an entry, the pid it was asked for names that
\* entry or nothing: a remove that comes late, after another poll has given
\* the pid up, can not throw out another process (main.go:82, 97, 429).
PidNamesOneEntry ==
    \A h \in Handlers :
        pid[h] \in DOMAIN entries => entries[pid[h]] = ent[h]

\* No process runs out of reach: a live one that nobody has killed is in the
\* table or still in the hands of the process_start that made it.
NoOrphan ==
    \A p \in Procs :
        os[p] = "running" /\ ~sig[p] =>
            \/ p \in Registered
            \/ \E h \in Handlers : pc[h] \in {"add", "kill"} /\ ent[h] = p

Live == {p \in Procs : os[p] = "running" /\ ~sig[p]}

InFlight == {h \in Handlers : pc[h] \in {"add", "kill"}}

\* The process limit bounds the live processes but for the ones that
\* process_start has started and not yet put to the table (main.go:337-345).
LiveBounded == Cardinality(Live) <= MaxProcessCount + Cardinality(InFlight)

-----------------------------------------------------------------------------
(* Liveness *)

\* Once a process that process_start handed out has exited, polls get to see
\* it, whether or not anybody drains its output: a full limitedBuffer never
\* holds the copying goroutine, so cmd.Wait always returns.
ExitObserved ==
    \A p \in Procs : (os[p] = "exited" /\ waiter[p] # "none") ~> done[p]

\* Every call returns, but for a process_send whose process goes on running
\* and does not read its stdin; in particular a poll never waits for the
\* process.
CallsReturn ==
    \A h \in Handlers :
        pc[h] # "idle" ~>
            \/ pc[h] = "idle"
            \/ pc[h] = "write" /\ os[ent[h]] = "running"

-----------------------------------------------------------------------------
(* What the tool's description promises *)

\* process_start's description is "Start a long-running background process"
\* (main.go:310): a process that nobody killed ends itself, however much it
\* writes; the server only limits what it keeps of the output.
OnlyKilledBySignal ==
    \A p \in Procs : os[p] = "exited" /\ status[p] = Signaled => sig[p]
=============================================================================
