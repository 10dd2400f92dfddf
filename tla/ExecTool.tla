------------------------------ MODULE ExecTool ------------------------------
(***************************************************************************)
(* The exec tool of claw-exec (cmd/claw-exec/main.go:261-306) from the     *)
(* arrival of its request at mcpserver to the answer: the timeouts of the  *)
(* HTTP server (internal/mcpserver/server.go:121-127), the context with    *)
(* the deadline the client asked for, the race of that deadline with the   *)
(* end of the command, and the output cut off by limitedWriter.            *)
(*                                                                         *)
(* Calls of exec share no memory, so a call is identified with the command *)
(* it runs.  os/exec is outside src/ and modelled from its use: Run starts *)
(* the command unless the context is done, a goroutine kills it when the   *)
(* context ends, Wait reaps it and then awaits the copying goroutines.     *)
(*                                                                         *)
(* Time is counted in ticks.  A tick passes only while nobody has anything *)
(* left to do at once: the steps of the server take no time.               *)
(***************************************************************************)
EXTENDS Sandbox

CONSTANTS
    DefaultTimeout,   \* defaultTimeout, in ticks
    MaxTimeout,       \* maxTimeout
    ReadTimeout,      \* http.Server.ReadTimeout
    WriteTimeout,     \* http.Server.WriteTimeout
    Millisecond,      \* ticks to the unit of timeout_ms
    Word,             \* time.Duration is an integer modulo Word
    TimeoutArgs,      \* the values of timeout_ms asked for; 0 when absent
    MaxWritten,       \* a bound of the model: bytes written to a stream
    Horizon           \* a bound of the model: the last tick

ASSUME TimeAssumption ==
    /\ {DefaultTimeout, MaxTimeout, ReadTimeout, WriteTimeout, Millisecond}
           \subseteq Nat \ {0}
    /\ DefaultTimeout <= MaxTimeout
    /\ Word \in Nat /\ Word > 2 * MaxTimeout
    /\ TimeoutArgs \subseteq Int
    /\ MaxWritten \in Nat
    /\ Horizon \in Nat

VARIABLES
    now,          \* the clock
    pc,           \* "none", "arrived" (the body is being read), "begun" (the
                  \* handler made its context), "run" (in cmd.Wait), "done"
    asked,        \* timeout_ms of the request
    since,        \* when the header of the request was read
    began,        \* when the handler made its context
    deadline,     \* the deadline of that context
    ctx,          \* "live", "expired", or "canceled" when the client is gone
    cut,          \* the kill the context asks for has succeeded
    reaped,       \* cmd.Process.Wait has returned
    answer,       \* what the handler returned
    late,         \* it did so when the response could no longer be written
    written       \* bytes the command has written, per stream

callVars == <<pc, asked, since, began, deadline, ctx, cut, reaped, answer,
              late>>
vars == <<childVars, sandboxVars, callVars, now, written>>

NoAnswer == [kind |-> "none", code |-> 0]
Kinds    == {"none", "result", "error", "unread"}
Codes    == ExitCodes \cup {Signaled, 0}

CallTypeOK ==
    /\ now \in Nat
    /\ pc \in [Procs -> {"none", "arrived", "begun", "run", "done"}]
    /\ asked \in [Procs -> TimeoutArgs \cup {0}]
    /\ since \in [Procs -> Nat] /\ began \in [Procs -> Nat]
    /\ deadline \in [Procs -> Int]
    /\ ctx \in [Procs -> {"live", "expired", "canceled"}]
    /\ cut \in [Procs -> BOOLEAN] /\ reaped \in [Procs -> BOOLEAN]
    /\ late \in [Procs -> BOOLEAN]
    /\ answer \in [Procs -> [kind : Kinds, code : Codes]]
    /\ written \in [Procs -> [Streams -> Nat]]

TypeOK == ChildTypeOK /\ SandboxTypeOK /\ CallTypeOK

Init ==
    /\ ChildInit /\ SandboxInit
    /\ now = 0
    /\ pc = [p \in Procs |-> "none"]
    /\ asked = [p \in Procs |-> 0]
    /\ since = [p \in Procs |-> 0]
    /\ began = [p \in Procs |-> 0]
    /\ deadline = [p \in Procs |-> 0]
    /\ ctx = [p \in Procs |-> "live"]
    /\ cut = [p \in Procs |-> FALSE]
    /\ reaped = [p \in Procs |-> FALSE]
    /\ late = [p \in Procs |-> FALSE]
    /\ answer = [p \in Procs |-> NoAnswer]
    /\ written = [p \in Procs |-> [s \in Streams |-> 0]]

-----------------------------------------------------------------------------
(* The timeout *)

\* A time.Duration of x ticks: the product with time.Millisecond overflows.
Wrapped(x) == ((x + Word \div 2) % Word) - Word \div 2

\* A slip: the timeout is not bounded.
TimeoutUnbounded(ms) ==
    IF ms > 0 THEN Wrapped(ms * Millisecond) ELSE DefaultTimeout

\* A slip: a call that asks for no timeout gets the longest.
TimeoutLongest(ms) ==
    IF ms > 0 THEN Lesser(Wrapped(ms * Millisecond), MaxTimeout)
    ELSE MaxTimeout

\* The timeout a call gets; it is negative after an overflow.
Timeout(ms) ==
    IF ms > 0 THEN Lesser(Wrapped(ms * Millisecond), MaxTimeout)
    ELSE DefaultTimeout

\* The timeout its client means: timeout_ms, the default, or the longest.
Meant(ms) ==
    IF ms > 0 THEN Lesser(ms * Millisecond, MaxTimeout) ELSE DefaultTimeout

-----------------------------------------------------------------------------
(* mcpserver *)

\* A request for exec comes in, early enough to be followed to its end.
Arrive(p, ms) ==
    /\ pc[p] = "none"
    /\ now + ReadTimeout + MaxTimeout <= Horizon
    /\ pc' = [pc EXCEPT ![p] = "arrived"]
    /\ asked' = [asked EXCEPT ![p] = ms]
    /\ since' = [since EXCEPT ![p] = now]
    /\ UNCHANGED <<childVars, sandboxVars, now, written, began, deadline, ctx,
                   cut, reaped, answer, late>>

\* The handler returns a; the response is lost when WriteTimeout has passed.
Answer(p, a) ==
    /\ pc' = [pc EXCEPT ![p] = "done"]
    /\ answer' = [answer EXCEPT ![p] = a]
    /\ late' = [late EXCEPT ![p] = now >= since[p] + WriteTimeout]
    /\ UNCHANGED <<asked, since, began, deadline, ctx, cut, reaped>>

\* The body can not be read, or is no JSON: a parse error is answered.
ReadFails(p) ==
    /\ pc[p] = "arrived"
    /\ Answer(p, [kind |-> "unread", code |-> 0])
    /\ UNCHANGED <<childVars, sandboxVars, now, written>>

-----------------------------------------------------------------------------
(* The handler of exec *)

\* The body was read, but its arguments do not unmarshal: an error is
\* answered.
BadArguments(p) ==
    /\ pc[p] = "arrived"
    /\ Answer(p, [kind |-> "error", code |-> 0])
    /\ UNCHANGED <<childVars, sandboxVars, now, written>>

\* The body was read.  A timeout that is not positive makes a context that
\* is done at once.
Begin(p) ==
    LET timeout == Timeout(asked[p])
    IN  /\ pc[p] = "arrived"
        /\ pc' = [pc EXCEPT ![p] = "begun"]
        /\ began' = [began EXCEPT ![p] = now]
        /\ deadline' = [deadline EXCEPT ![p] = now + timeout]
        /\ ctx' = [ctx EXCEPT ![p] = IF timeout > 0 THEN @ ELSE "expired"]
        /\ UNCHANGED <<childVars, sandboxVars, now, written, asked, since, cut,
                       reaped, answer, late>>

\* The context ends: its deadline passes, or the connection of the client is
\* closed, which cancels the context of the request it derives from.
ContextEnds(p, how) ==
    /\ pc[p] \in {"begun", "run"}
    /\ ctx[p] = "live"
    /\ how = "expired" => now >= deadline[p]
    /\ ctx' = [ctx EXCEPT ![p] = how]
    /\ UNCHANGED <<childVars, sandboxVars, now, written, pc, asked, since,
                   began, deadline, cut, reaped, answer, late>>

\* cmd.Start succeeds.
Run(p) ==
    /\ pc[p] = "begun"
    /\ ctx[p] = "live"
    /\ Fork(p)
    /\ pc' = [pc EXCEPT ![p] = "run"]
    /\ UNCHANGED <<sandboxVars, now, written, asked, since, began, deadline,
                   ctx, cut, reaped, answer, late>>

\* cmd.Start does not start a command whose context is done.
RunRefused(p) ==
    /\ pc[p] = "begun"
    /\ ctx[p] # "live"
    /\ Answer(p, [kind |-> "error", code |-> 0])
    /\ UNCHANGED <<childVars, sandboxVars, now, written>>

\* cmd.Start fails though the context is live: there is no bwrap or docker,
\* the command is too long or holds a NUL byte, the kernel has no process or
\* descriptor left.  The handler answers the error.
StartFails(p) ==
    /\ pc[p] = "begun"
    /\ ctx[p] = "live"
    /\ Answer(p, [kind |-> "error", code |-> 0])
    /\ UNCHANGED <<childVars, sandboxVars, now, written>>

\* The context ended: cmd.Process.Kill, which succeeds on a process that has
\* exited but was not reaped, and fails once it was.
Cancel(p) ==
    /\ pc[p] = "run"
    /\ ctx[p] # "live"
    /\ ~cut[p] /\ ~reaped[p]
    /\ sig' = [sig EXCEPT ![p] = TRUE]
    /\ cut' = [cut EXCEPT ![p] = TRUE]
    /\ UNCHANGED <<os, status, pipe, copier, buf, sandboxVars, now, written,
                   pc, asked, since, began, deadline, ctx, reaped, answer,
                   late>>

Reap(p) ==
    /\ pc[p] = "run"
    /\ os[p] = "exited" /\ ~reaped[p]
    /\ reaped' = [reaped EXCEPT ![p] = TRUE]
    /\ UNCHANGED <<childVars, sandboxVars, now, written, pc, asked, since,
                   began, deadline, ctx, cut, answer, late>>

\* A slip: a call whose context has ended is an error, whatever the command
\* did before.
OutcomeByContext(p) ==
    IF ctx[p] # "live" THEN [kind |-> "error", code |-> 0]
    ELSE [kind |-> "result", code |-> status[p]]

\* The error of cmd.Run is an ExitError when the command did not end with 0,
\* else that of the context if it has killed the command, else that of a
\* copying goroutine (io.ErrShortWrite).  The handler makes a result of an
\* ExitError and of no error, and an error without output of the others.
Outcome(p) ==
    IF \/ status[p] # 0
       \/ (~cut[p] /\ \A s \in Streams : copier[p][s] = "eof")
    THEN [kind |-> "result", code |-> status[p]]
    ELSE [kind |-> "error", code |-> 0]

\* A slip: the copying goroutines are not waited for.
ReturnAtOnce(p) ==
    /\ pc[p] = "run"
    /\ reaped[p]
    /\ Answer(p, Outcome(p))
    /\ UNCHANGED <<childVars, sandboxVars, now, written>>

\* A slip: the handler leaves when its context ends.
ReturnAtDeadline(p) ==
    /\ pc[p] = "run"
    /\ \/ ctx[p] # "live"
       \/ reaped[p] /\ Copied(p)
    /\ Answer(p, Outcome(p))
    /\ UNCHANGED <<childVars, sandboxVars, now, written>>

\* cmd.Run returns and the handler answers.
RunReturns(p) ==
    /\ pc[p] = "run"
    /\ reaped[p] /\ Copied(p)
    /\ Answer(p, Outcome(p))
    /\ UNCHANGED <<childVars, sandboxVars, now, written>>

-----------------------------------------------------------------------------
(* The command and the clock *)

Write(p, s) ==
    /\ written[p][s] < MaxWritten
    /\ Produce(p, s)
    /\ written' = [written EXCEPT ![p][s] = @ + 1]

CommandStep(p) ==
    /\ \/ \E s \in Streams : Write(p, s)
       \/ /\ \/ \E s \in Streams : BrokenPipe(p, s)
             \/ \E c \in ExitCodes : Exit(p, c)
             \/ DieKilled(p)
             \/ \E s \in Streams : Copy(p, s) \/ CopyEOF(p, s)
          /\ UNCHANGED written
    /\ LeaveBehind
    /\ UNCHANGED <<callVars, now>>

CommandEndsInside(p) == EndInside(p) /\ UNCHANGED <<callVars, now, written>>

\* A call that has something to do before a tick may pass.
Pressed(p) ==
    \/ pc[p] = "arrived" /\ now >= since[p] + ReadTimeout
    \/ pc[p] = "begun"
    \/ pc[p] = "run" /\ (os[p] = "exited" \/ ctx[p] # "live"
                            \/ now >= deadline[p])

Tick ==
    /\ now < Horizon
    /\ \A p \in Procs : ~Pressed(p)
    /\ now' = now + 1
    /\ UNCHANGED <<childVars, sandboxVars, callVars, written>>

-----------------------------------------------------------------------------
ServerStep(p) ==
    \/ ReadFails(p) \/ BadArguments(p) \/ Begin(p)
    \/ ContextEnds(p, "expired")
    \/ Run(p) \/ RunRefused(p) \/ StartFails(p)
    \/ Cancel(p) \/ Reap(p) \/ RunReturns(p)

Next ==
    \/ \E p \in Procs :
        \/ \E ms \in TimeoutArgs : Arrive(p, ms)
        \/ ServerStep(p)
        \/ ContextEnds(p, "canceled")
        \/ CommandStep(p)
        \/ CommandEndsInside(p)
    \/ Tick

Spec == Init /\ [][Next]_vars

\* The clock runs, the Go scheduler and the kernel run what can run; nothing
\* makes a command write or end, or a client call or hang up.
FairSpec ==
    /\ Spec
    /\ ChildFairness
    /\ WF_vars(Tick)
    /\ \A p \in Procs : WF_vars(ServerStep(p))

-----------------------------------------------------------------------------
(* Safety *)

\* A result carries the status the command ended with and all it wrote, up to
\* the limit, on both streams: the race of the deadline with the exit never
\* mixes the two, and no output is overtaken by the answer (main.go:286-305).
ResultIsTrue ==
    \A p \in Procs : answer[p].kind = "result" =>
        /\ os[p] = "exited" /\ answer[p].code = status[p]
        /\ \A s \in Streams : buf[p][s] = Lesser(written[p][s], Limit)

\* A command that was started is answered with an error, its output dropped,
\* in two cases only, both of a command that ended well: it was killed for its
\* context after it had exited and before it was reaped, or its output crossed
\* the limit.  One that failed is answered with its status, whatever else
\* happened to the call (main.go:286-296).
ErrorHasACause ==
    \A p \in Procs : answer[p].kind = "error" /\ os[p] # "none" =>
        /\ status[p] = 0
        /\ cut[p] \/ \E s \in Streams : written[p][s] > Limit

\* Nothing of a call outlives it, but for the command of a "docker exec" that
\* was ended by a signal (main.go:238-245, 286).
NothingOutlivesTheCall ==
    \A p \in Procs :
        /\ pc[p] = "done" =>
               os[p] # "running" /\ \A s \in Streams : copier[p][s] # "copy"
        /\ p \in inside =>
               runtime = "docker" /\ os[p] = "exited" /\ status[p] = Signaled

\* The command of a call runs, under its carrier or on its own.
CommandRuns(p) == os[p] = "running" \/ p \in inside

\* Whatever timeout_ms says, one whose product overflows included, a command
\* that still runs maxTimeout after its call began is one of "docker exec"
\* whose client was ended by a signal; with bwrap there is none
\* (main.go:238-245, 270-286).
RunsAtMostMax ==
    \A p \in Procs : CommandRuns(p) /\ now > began[p] + MaxTimeout =>
        /\ runtime = "docker"
        /\ os[p] = "exited" /\ status[p] = Signaled

\* An answer comes too late for WriteTimeout only if the client itself asked
\* for a timeout that leaves no room for it (main.go:270-278, server.go:125).
AnsweredInTime ==
    \A p \in Procs :
        late[p] => Meant(asked[p]) + ReadTimeout >= WriteTimeout

-----------------------------------------------------------------------------
(* Liveness *)

\* Every call is answered, whatever its command does (main.go:278-286).
CallEnds == \A p \in Procs : pc[p] = "arrived" ~> pc[p] = "done"

-----------------------------------------------------------------------------
(* What the source says of its timeouts *)

\* timeout_ms is described as "Timeout ms (default 30000, max 300000)"
\* (main.go:258) and the WriteTimeout of the server as "long for tool
\* execution" (server.go:125): the answer of a call whose client still waits
\* can be written.
AnswerReachesTheClient ==
    \A p \in Procs : late[p] => ctx[p] = "canceled"
=============================================================================
