----------------------------- MODULE ExecServer -----------------------------
(***************************************************************************)
(* The background processes of claw-exec as a client lives with them:      *)
(* ProcessTable composed with a client that learns pids from answers and   *)
(* asks again, with answers that get lost on the way, with the end and     *)
(* restart of the server, and with the sandbox the commands run in.        *)
(*                                                                         *)
(* The table, the buffers and the pids live in memory only (main.go:72,    *)
(* 110-122).  A restarted server counts its pids from 1 again; a client    *)
(* that missed the restart still holds the old ones.  In docker mode the   *)
(* server attaches to the container it finds (main.go:169-197), with what  *)
(* runs there.                                                             *)
(***************************************************************************)
EXTENDS ProcessTable, Sandbox

CONSTANTS
    MaxBoots,     \* a bound of the model: restarts of the server
    MaxMissing    \* a bound of the model: output lost with answers, per stream

ASSUME BootAssumption == MaxBoots \in Nat /\ MaxMissing \in Nat

VARIABLES
    boot,         \* how often the server was restarted
    known,        \* the pid the client holds for a command, 0 for none
    learnt,       \* the boot in which it got that pid
    told,         \* the last word on a command the client got: "nothing",
                  \* "exit" (a report with exit code) or "gone" (no process)
    about,        \* the command the client means by a request
    carry,        \* output a poll has taken and not yet answered, per stream
    ledger,       \* output kept of a command that never reached the client,
                  \* per stream, over all boots
    missing       \* what of it is gone: with an answer that was lost, or with
                  \* the memory of a server that ended

clientVars == <<known, learnt, told>>
ghostVars  == <<about, carry, ledger, missing>>
serverVars == <<vars, sandboxVars, boot, clientVars, ghostVars>>

NamingPC == {"write"} \cup PollPC

ServerTypeOK ==
    /\ TypeOK /\ SandboxTypeOK
    /\ boot \in Nat
    /\ known \in [Procs -> Nat] /\ learnt \in [Procs -> Nat]
    /\ told \in [Procs -> {"nothing", "exit", "gone"}]
    /\ about \in [Handlers -> Procs \cup {NoProc}]
    /\ \A h \in Handlers : pc[h] \in NamingPC => about[h] \in Procs
    /\ carry \in [Handlers -> [Streams -> Nat]]
    /\ ledger \in [Procs -> [Streams -> Int]]
    /\ missing \in [Procs -> [Streams -> Int]]

Zero == [s \in Streams |-> 0]

ServerInit ==
    /\ Init /\ SandboxInit
    /\ boot = 0
    /\ known = [p \in Procs |-> 0]
    /\ learnt = [p \in Procs |-> 0]
    /\ told = [p \in Procs |-> "nothing"]
    /\ about = [h \in Handlers |-> NoProc]
    /\ carry = [h \in Handlers |-> Zero]
    /\ ledger = [p \in Procs |-> Zero]
    /\ missing = [p \in Procs |-> Zero]

\* The output of p that polls have taken and not yet answered.
InAnswers(p, s) ==
    SumFunctionOnSet([h \in Handlers |-> carry[h][s]],
                     {h \in Handlers : ent[h] = p})

-----------------------------------------------------------------------------
(* Requests *)

\* process_start.  One whose arguments are bad or whose command can not be
\* started is answered with an error and changes nothing.
AskStart(h, p) ==
    /\ Start(h, p)
    /\ UNCHANGED <<sandboxVars, boot, clientVars, ghostVars>>

\* process_poll or process_send with the pid the client holds, which the
\* table knows, of this command or of another.
Ask(h, p) ==
    /\ known[p] # 0
    /\ SendGet(h, known[p]) \/ PollGet(h, known[p])
    /\ about' = [about EXCEPT ![h] = p]
    /\ UNCHANGED <<sandboxVars, boot, clientVars, carry, ledger, missing>>

\* The same, when the table does not know the pid; if the answer is lost the
\* client has learnt nothing, and nothing has changed.
AskGone(h, p) ==
    /\ pc[h] = "idle"
    /\ known[p] # 0
    /\ known[p] \notin DOMAIN entries
    /\ told' = [told EXCEPT ![p] = "gone"]
    /\ UNCHANGED <<vars, sandboxVars, boot, known, learnt, ghostVars>>

-----------------------------------------------------------------------------
(* What the server does *)

Forget(h) ==
    about' = [about EXCEPT ![h] = IF pc'[h] = "idle" THEN NoProc ELSE @]

\* The steps whose answer, if any, tells the client nothing to remember.
Work(h) ==
    /\ \/ Add(h) \/ AddFails(h) \/ Kill(h)
       \/ SendOk(h) \/ SendFails(h)
       \/ PollCheck(h)
    /\ Forget(h)
    /\ UNCHANGED <<sandboxVars, boot, clientVars, carry, ledger, missing>>

\* The pid the table has an entry under.
PidOf(p) == CHOOSE id \in DOMAIN entries : entries[id] = p

\* process_start answers with the pid.
AnswerStart(h, delivered) ==
    /\ Go(h)
    /\ IF delivered
       THEN /\ known' = [known EXCEPT ![ent[h]] = PidOf(ent[h])]
            /\ learnt' = [learnt EXCEPT ![ent[h]] = boot]
       ELSE UNCHANGED <<known, learnt>>
    /\ UNCHANGED <<sandboxVars, boot, told, ghostVars>>

\* A poll drains a buffer.
Take(h, s) ==
    /\ IF s = "stdout" THEN DrainStdout(h) ELSE DrainStderr(h)
    /\ carry' = [carry EXCEPT ![h][s] = buf[ent[h]][s]]
    /\ UNCHANGED <<sandboxVars, boot, clientVars, about, ledger, missing>>

\* A poll answers.  What the answer carries reaches the client or, if it is
\* lost on the way, nobody: the buffers are empty by then.
AnswerPoll(h, delivered) ==
    /\ ReportExit(h) \/ ReportRunning(h)
    /\ told' = IF delivered /\ finished[h]
               THEN [told EXCEPT ![about[h]] = "exit"] ELSE told
    /\ IF delivered
       THEN /\ ledger' = [ledger EXCEPT ![ent[h]] =
                             [s \in Streams |-> @[s] - carry[h][s]]]
            /\ missing' = missing
       ELSE /\ \A s \in Streams :
                   missing[ent[h]][s] + carry[h][s] <= MaxMissing
            /\ missing' = [missing EXCEPT ![ent[h]] =
                              [s \in Streams |-> @[s] + carry[h][s]]]
            /\ ledger' = ledger
    /\ carry' = [carry EXCEPT ![h] = Zero]
    /\ Forget(h)
    /\ UNCHANGED <<sandboxVars, boot, known, learnt>>

\* The waiting goroutine.
Wait(p) ==
    /\ WaiterStep(p)
    /\ UNCHANGED <<sandboxVars, boot, clientVars, ghostVars>>

\* A command and its copying goroutines.
Command(p) ==
    /\ ChildStep(p)
    /\ LeaveBehind
    /\ ledger' = [q \in Procs |-> [s \in Streams |->
                     ledger[q][s] + (buf'[q][s] - buf[q][s])]]
    /\ UNCHANGED <<tableVars, waitVars, callVars, boot, clientVars, about,
                   carry, missing>>

CommandEndsInside(p) ==
    /\ EndInside(p)
    /\ UNCHANGED <<tableVars, waitVars, callVars, boot, clientVars, ghostVars>>

-----------------------------------------------------------------------------
(* The end of the server, at any point, and its next start. *)

\* What the server had in memory is gone and every call with it.
Blank ==
    /\ entries' = [id \in {} |-> NoProc] /\ nextID' = 0
    /\ exitCode' = [p \in Procs |-> 0]
    /\ done' = [p \in Procs |-> FALSE]
    /\ waiter' = [p \in Procs |-> "none"]
    /\ pc' = [h \in Handlers |-> "idle"]
    /\ ent' = [h \in Handlers |-> NoProc]
    /\ pid' = [h \in Handlers |-> 0]
    /\ finished' = [h \in Handlers |-> FALSE]
    /\ buf' = [p \in Procs |-> Zero]
    /\ pipe' = [p \in Procs |-> Zero]
    /\ copier' = [p \in Procs |-> [s \in Streams |->
                     IF os[p] = "none" THEN "off" ELSE "shut"]]
    /\ about' = [h \in Handlers |-> NoProc]
    /\ carry' = [h \in Handlers |-> Zero]
    /\ missing' = [p \in Procs |-> [s \in Streams |->
                      missing[p][s] + (buf[p][s] + InAnswers(p, s))]]
    /\ ledger' = ledger

\* A slip: the commands are not tied to the life of the server.
RestartKeepsCommands(reattached) ==
    /\ boot < MaxBoots
    /\ boot' = boot + 1
    /\ Blank
    /\ inside' = IF reattached THEN inside ELSE {}
    /\ UNCHANGED <<os, sig, status, runtime, clientVars>>

\* bwrap dies with the server (--die-with-parent) and its command with it.
\* A docker client is of no use any more; its command goes on in the
\* container, unless setupDocker finds that not running and makes a new one.
Restart(reattached) ==
    LET cut == {p \in Procs : os[p] = "running"}
    IN  /\ boot < MaxBoots
        /\ boot' = boot + 1
        /\ Blank
        /\ os' = [p \in Procs |-> IF p \in cut THEN "exited" ELSE os[p]]
        /\ status' = [p \in Procs |-> IF p \in cut THEN Signaled ELSE status[p]]
        /\ inside' = IF runtime = "docker" /\ reattached
                     THEN inside \cup cut ELSE {}
        /\ UNCHANGED <<sig, runtime, clientVars>>

-----------------------------------------------------------------------------
ServerNext ==
    \/ \E h \in Handlers :
        \/ \E p \in Procs : AskStart(h, p) \/ Ask(h, p) \/ AskGone(h, p)
        \/ Work(h)
        \/ \E s \in Streams : Take(h, s)
        \/ \E delivered \in BOOLEAN :
               AnswerStart(h, delivered) \/ AnswerPoll(h, delivered)
    \/ \E p \in Procs : Wait(p) \/ Command(p) \/ CommandEndsInside(p)
    \/ \E reattached \in BOOLEAN : Restart(reattached)

ServerSpec == ServerInit /\ [][ServerNext]_serverVars

-----------------------------------------------------------------------------
(* Safety *)

\* A request reaches the command its client means, or none, however late it
\* comes and however many answers were lost, as long as the server is the one
\* that gave out the pid: within a boot no pid is used twice (main.go:82, 90).
ReachesItsCommand ==
    \A h \in Handlers :
        pc[h] \in NamingPC /\ learnt[about[h]] = boot => ent[h] = about[h]

\* A client that hears of an exit, or that its pid is no process, can rely on
\* this much, whatever answers it has missed: the program that carries the
\* command is over; the command itself goes on, if at all, in the container
\* of docker mode after a signal to its client; and all that was kept of its
\* output has reached the client, but for what was lost with an answer or with
\* the memory of a server that ended and for what another poll is about to
\* answer (main.go:87-98, 405-431).
ToldMeansOver ==
    \A p \in Procs : told[p] # "nothing" =>
        /\ os[p] = "exited"
        /\ p \in inside => runtime = "docker" /\ status[p] = Signaled
        /\ \A s \in Streams : ledger[p][s] = missing[p][s] + InAnswers(p, s)

\* The output of a command is accounted for, over lost answers and restarts:
\* what was kept and never reached the client is in its buffer, carried by a
\* poll, or went with a lost answer or an ended server.  No byte is answered
\* twice or dropped anywhere else, with polls of one pid running at the same
\* time (main.go:417-418, 479-485).
LedgerBalances ==
    \A p \in Procs, s \in Streams :
        ledger[p][s] = missing[p][s] + (buf[p][s] + InAnswers(p, s))

\* A command is out of the reach of claw-exec only in docker mode, when its
\* client was ended by a signal or left behind by a restart
\* (main.go:225-226, 238-245, 343-344).
OutOfReach ==
    inside \cup {p \in Live : /\ p \notin Registered
                              /\ \A h \in InFlight : ent[h] # p}

OnlyDockerLoses ==
    \A p \in OutOfReach :
        runtime = "docker" /\ os[p] = "exited" /\ status[p] = Signaled

\* With bwrap the process limit bounds the commands that run, on both sides of
\* a restart; in docker mode the ones a restart has left in the container are
\* not counted by anybody (main.go:79, 169-197, 225-226).
RunningBounded ==
    runtime = "bwrap" =>
        Cardinality(Live \cup inside)
            <= MaxProcessCount + Cardinality(InFlight)
=============================================================================
