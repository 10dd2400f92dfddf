--------------------------- MODULE ProcessTableInv ---------------------------
(***************************************************************************)
(* The inductive invariant of ProcessTable: the safety properties of that  *)
(* module and what they rest on.  BackgroundProofs proves it, for one life *)
(* of the server and across restarts.                                      *)
(***************************************************************************)
EXTENDS ProcessTable

\* Nothing but Start knows a process that was not started.
Fresh ==
    \A p \in Procs :
        os[p] = "none" =>
            /\ p \notin Registered /\ waiter[p] = "none" /\ ~sig[p]
            /\ \A s \in Streams : copier[p][s] = "off"

\* A handler that serves a request works on an entry whose process was
\* started; its pid is one that was handed out, or 0 if none was named.
Serving ==
    \A h \in Handlers :
        /\ pid[h] <= nextID
        /\ pc[h] \in {"idle"} \cup StartPC => pid[h] = 0
        /\ pc[h] # "idle" => os[ent[h]] # "none"

\* What a poll or a send works on stays in the table until it is done.
KnownEntry ==
    \A h \in Handlers :
        pc[h] \in {"write"} \cup PollPC =>
            ent[h] \in Registered \/ done[ent[h]]

\* process_start owns its process until it spawns the waiting goroutine, and
\* has put it to the table just before.
StartOwns ==
    \A h \in Handlers :
        pc[h] \in StartPC =>
            /\ waiter[ent[h]] = "none" /\ ~sig[ent[h]]
            /\ ent[h] \in Registered <=> pc[h] = "go"
            /\ \A g \in Handlers :
                  pc[g] \in StartPC /\ ent[g] = ent[h] => g = h

\* No entry is in the table under two pids.
OnePidPerEntry ==
    \A i, j \in DOMAIN entries : entries[i] = entries[j] => i = j

\* What the waiting goroutine has behind it at each of its steps.
WaiterProgress ==
    \A p \in Procs :
        /\ waiter[p] \in {"code", "close", "end"} =>
               os[p] = "exited" /\ Copied(p)
        /\ waiter[p] \in {"close", "end"} => exitCode[p] = status[p]
        /\ done[p] <=> waiter[p] = "end"

\* What a poll that found the process done has behind it: no copying
\* goroutine is left, so what it has drained stays empty.
PollProgress ==
    \A h \in Handlers :
        finished[h] =>
            /\ pc[h] \in {"stdout", "stderr", "report"}
            /\ done[ent[h]]
            /\ pc[h] # "stdout" => buf[ent[h]]["stdout"] = 0
            /\ pc[h] = "report" => buf[ent[h]]["stderr"] = 0

Inv ==
    /\ Fresh
    /\ Serving
    /\ KnownEntry
    /\ StartOwns
    /\ OnePidPerEntry
    /\ WaiterProgress
    /\ PollProgress
    /\ PidNamesOneEntry
    /\ RemovedMeansDelivered
    /\ NoOrphan

\* processTable.add never lets the table outgrow its limit.
TableBounded == Cardinality(DOMAIN entries) <= MaxProcessCount
=============================================================================
