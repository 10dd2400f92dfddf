---------------------------- MODULE ExecServerInv ----------------------------
(***************************************************************************)
(* The inductive invariant of ExecServer, which BackgroundProofs proves.   *)
(***************************************************************************)
EXTENDS ExecServer, ProcessTableInv

\* A command of an earlier boot: over, and unknown to this server.
Past(p) ==
    /\ os[p] = "exited"
    /\ waiter[p] = "none" /\ p \notin Registered
    /\ \A s \in Streams : buf[p][s] = 0 /\ copier[p][s] # "copy"
    /\ \A h \in Handlers : ent[h] # p

\* A pid of this boot names its command or nothing; one of an earlier boot
\* may name anything, but its command is over.
Names ==
    \A p \in Procs : known[p] # 0 =>
        \/ /\ learnt[p] = boot /\ waiter[p] # "none"
           /\ known[p] <= nextID
           /\ \A i \in DOMAIN entries : entries[i] = p <=> i = known[p]
        \/ learnt[p] < boot /\ Past(p)

\* Nobody knows the pid of a command before process_start has answered.
StartsUnknown ==
    \A h \in Handlers : pc[h] \in StartPC => known[ent[h]] = 0

\* A request names the pid the client holds.
Asked ==
    \A h \in Handlers : pc[h] \in NamingPC =>
        /\ known[about[h]] # 0 /\ pid[h] = known[about[h]]
        /\ learnt[about[h]] = boot => ent[h] = about[h]

Told ==
    \A p \in Procs :
        told[p] # "nothing" => known[p] # 0 /\ p \notin Registered

\* The container keeps only what a signal to its client has left there.
Left ==
    \A p \in inside :
        runtime = "docker" /\ os[p] = "exited" /\ status[p] = Signaled

\* Only a poll that has drained carries output: of stdout from the first
\* drain on, of stderr from the second.
Carried ==
    \A h \in Handlers, s \in Streams :
        carry[h][s] # 0 => pc[h] \in IF s = "stdout" THEN {"stderr", "report"}
                                    ELSE {"report"}

ServerInv ==
    /\ Inv /\ Names /\ StartsUnknown /\ Asked /\ Told /\ Left
    /\ Carried /\ LedgerBalances
=============================================================================
