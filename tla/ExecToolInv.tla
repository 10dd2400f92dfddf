----------------------------- MODULE ExecToolInv -----------------------------
(***************************************************************************)
(* The inductive invariant of ExecTool, call by call, which ExecToolProofs *)
(* proves.                                                                 *)
(***************************************************************************)
EXTENDS ExecTool

\* Where the clock can be while the call is at each of its places.
Clocked(p) ==
    /\ pc[p] \in {"none", "arrived"} => ctx[p] = "live"
    /\ pc[p] # "none" => since[p] <= now
    /\ pc[p] = "arrived" => now <= since[p] + ReadTimeout
    /\ pc[p] \in {"begun", "run"} =>
           /\ began[p] <= since[p] + ReadTimeout
           /\ deadline[p] = began[p] + Timeout(asked[p])
           /\ ctx[p] = "live" => Timeout(asked[p]) > 0
    /\ pc[p] = "begun" => now = began[p]
    /\ pc[p] = "run" => now <= deadline[p]

\* The command lives within its call; it is killed only for its context.
Owned(p) ==
    /\ pc[p] \in {"none", "arrived", "begun"} => os[p] = "none"
    /\ pc[p] = "run" => os[p] # "none"
    /\ pc[p] = "done" => os[p] = "none" \/ (os[p] = "exited" /\ Copied(p))
    /\ os[p] = "none" => /\ ~cut[p] /\ ~reaped[p]
                         /\ \A s \in Streams : copier[p][s] = "off"
    /\ sig[p] => cut[p]
    /\ cut[p] => ctx[p] # "live"
    /\ reaped[p] => os[p] = "exited"

\* What a stream wrote is kept or still in the pipe, until the limit is
\* reached; a copying goroutine gives up only past it.
Kept(p, s) ==
    /\ buf[p][s] + pipe[p][s] <= written[p][s]
    /\ buf[p][s] = Limit \/ buf[p][s] + pipe[p][s] = written[p][s]
    /\ copier[p][s] \in {"eof", "shut"} => pipe[p][s] = 0
    /\ copier[p][s] = "shut" => written[p][s] > Limit
    /\ copier[p][s] = "eof" => os[p] = "exited"

\* What the answer rests on.
Answered(p) ==
    /\ answer[p].kind # "none" => pc[p] = "done"
    /\ answer[p].kind = "result" =>
           os[p] = "exited" /\ Copied(p) /\ answer[p].code = status[p]
    /\ answer[p].kind = "error" /\ os[p] # "none" =>
           /\ status[p] = 0
           /\ cut[p] \/ \E s \in Streams : copier[p][s] = "shut"
    /\ late[p] => Meant(asked[p]) + ReadTimeout >= WriteTimeout
    /\ late[p] => pc[p] = "done"

\* The container keeps only what a signal to its client has left there.
Left(p) ==
    p \in inside =>
        runtime = "docker" /\ os[p] = "exited" /\ status[p] = Signaled

CallInv(p) ==
    /\ Clocked(p) /\ Owned(p) /\ Answered(p) /\ Left(p)
    /\ \A s \in Streams : Kept(p, s)

Inv == \A p \in Procs : CallInv(p)
=============================================================================
