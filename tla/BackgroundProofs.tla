-------------------------- MODULE BackgroundProofs --------------------------
(***************************************************************************)
(* Proofs about the background processes of claw-exec.                     *)
(*                                                                         *)
(* ProcessTable keeps its types, its inductive invariant and with it its   *)
(* safety properties; it implements BackgroundProcesses; and ExecServer    *)
(* keeps all of that across restarts, tells its client the truth and       *)
(* balances the ledger of the output, whatever answers are lost: for every *)
(* number of processes, handlers, table slots and restarts and for every   *)
(* buffer, pipe and read size.                                             *)
(***************************************************************************)
EXTENDS ExecServerInv, ProcessTablePromise, FoldLemmas

USE ChildAssumption, TableAssumption

-----------------------------------------------------------------------------
(* The commands and their limitedBuffers *)

\* A Write never stores more than there is room for, and never reports more
\* than it was given (main.go:466-477).
LEMMA WriteFits ==
    ASSUME NEW b \in 0..Limit, NEW n \in Nat
    PROVE  /\ b + Stored(b, n) \in 0..Limit
           /\ Returned(b, n) \in 0..n
BY DEF Stored, Returned, Lesser

\* The steps of a child and of its copying goroutines.
LEMMA ChildType ==
    ASSUME ChildTypeOK, NEW p \in Procs, ChildStep(p)
    PROVE  ChildTypeOK'
<1>1. ASSUME NEW s \in Streams, Produce(p, s) PROVE ChildTypeOK'
  BY <1>1 DEF Produce, ChildTypeOK
<1>2. ASSUME NEW s \in Streams, BrokenPipe(p, s) PROVE ChildTypeOK'
  BY <1>2 DEF BrokenPipe, ChildTypeOK
<1>3. ASSUME NEW c \in ExitCodes, Exit(p, c) PROVE ChildTypeOK'
  BY <1>3 DEF Exit, ChildTypeOK
<1>4. ASSUME DieKilled(p) PROVE ChildTypeOK'
  BY <1>4 DEF DieKilled, ChildTypeOK
<1>5. ASSUME NEW s \in Streams, Copy(p, s) PROVE ChildTypeOK'
  <2> DEFINE n == Lesser(pipe[p][s], ReadSize)
  <2>1. n \in Nat /\ n <= pipe[p][s] /\ pipe[p][s] \in 0..PipeCap
    BY <1>5 DEF ChildTypeOK, Lesser
  <2>2. buf[p][s] + Stored(buf[p][s], n) \in 0..Limit
    <3>1. buf[p][s] \in 0..Limit
      BY DEF ChildTypeOK
    <3> HIDE DEF n
    <3> QED BY <2>1, <3>1, WriteFits
  <2>3. /\ buf' = [buf EXCEPT ![p][s] = @ + Stored(@, n)]
        /\ \E short \in BOOLEAN :
              /\ pipe' = [pipe EXCEPT ![p][s] = IF short THEN 0 ELSE @ - n]
              /\ copier' = [copier EXCEPT ![p][s] =
                                IF short THEN "shut" ELSE @]
        /\ UNCHANGED <<os, sig, status>>
    BY <1>5 DEF Copy
  <2> HIDE DEF n
  <2>4. buf' \in [Procs -> [Streams -> 0..Limit]]
    BY <2>2, <2>3 DEF ChildTypeOK
  <2>5. pipe' \in [Procs -> [Streams -> 0..PipeCap]]
    BY <2>1, <2>3 DEF ChildTypeOK
  <2>6. copier' \in [Procs -> [Streams -> {"off", "copy", "eof", "shut"}]]
    BY <2>3 DEF ChildTypeOK
  <2> QED BY <2>3, <2>4, <2>5, <2>6 DEF ChildTypeOK
<1>6. ASSUME NEW s \in Streams, CopyEOF(p, s) PROVE ChildTypeOK'
  BY <1>6 DEF CopyEOF, ChildTypeOK
<1> QED BY <1>1, <1>2, <1>3, <1>4, <1>5, <1>6 DEF ChildStep

\* No copying goroutine is at work on the output of p.
AtRest(p) == \A s \in Streams : copier[p][s] # "copy"

\* What a child and its copying goroutines can do to each other's state: an
\* exit is final, and nothing enters a buffer that no goroutine works on.
LEMMA ChildEffect ==
    ASSUME ChildTypeOK, NEW p \in Procs, ChildStep(p), NEW q \in Procs
    PROVE  /\ os'[q] # os[q] => os[q] = "running" /\ os'[q] = "exited"
           /\ sig'[q] = sig[q]
           /\ os[q] = "exited" => status'[q] = status[q]
           /\ AtRest(q) => copier'[q] = copier[q] /\ buf'[q] = buf[q]
<1> USE DEF ChildTypeOK, AtRest
<1>1. CASE \E s \in Streams : Produce(p, s)
  BY <1>1 DEF Produce
<1>2. CASE \/ \E s \in Streams : BrokenPipe(p, s)
           \/ DieKilled(p)
           \/ \E c \in ExitCodes : Exit(p, c)
  BY <1>2 DEF BrokenPipe, DieKilled, Exit
<1>3. ASSUME NEW s \in Streams, Copy(p, s) \/ CopyEOF(p, s)
      PROVE  /\ UNCHANGED <<os, sig, status>>
             /\ AtRest(q) => copier'[q] = copier[q] /\ buf'[q] = buf[q]
  <2>1. /\ copier[p][s] = "copy"
        /\ \E b : buf' = [buf EXCEPT ![p][s] = b]
        /\ \E k : copier' = [copier EXCEPT ![p][s] = k]
        /\ UNCHANGED <<os, sig, status>>
    <3>1. buf = [buf EXCEPT ![p][s] = buf[p][s]]
      <4>1. buf[p] = [buf[p] EXCEPT ![s] = buf[p][s]]
        OBVIOUS
      <4> QED BY <4>1
    <3> QED BY <1>3, <3>1 DEF Copy, CopyEOF
  <2>2. AtRest(q) => q # p
    BY <2>1
  <2>3. q # p => buf'[q] = buf[q] /\ copier'[q] = copier[q]
    BY <2>1
  <2> QED BY <2>1, <2>2, <2>3
<1> QED BY <1>1, <1>2, <1>3 DEF ChildStep

-----------------------------------------------------------------------------
(* The types of ProcessTable *)

LEMMA InitType == Init => TypeOK
BY DEF Init, TypeOK, ChildInit, ChildTypeOK, TableTypeOK, WaitTypeOK,
       CallTypeOK

LEMMA NextType == TypeOK /\ [Next]_vars => TypeOK'
<1> SUFFICES ASSUME TypeOK, [Next]_vars PROVE TypeOK'
  OBVIOUS
<1> USE DEF TypeOK
<1>0. /\ UNCHANGED childVars => ChildTypeOK'
      /\ UNCHANGED tableVars => TableTypeOK'
      /\ UNCHANGED waitVars => WaitTypeOK'
      /\ UNCHANGED callVars => CallTypeOK'
  BY DEF ChildTypeOK, TableTypeOK, WaitTypeOK, CallTypeOK, childVars,
         tableVars, waitVars, callVars
<1>1. ASSUME NEW h \in Handlers, NEW p \in Procs, Start(h, p)
      PROVE  TypeOK'
  <2>1. ChildTypeOK'
    BY <1>1 DEF Start, Fork, ChildTypeOK
  <2>2. CallTypeOK'
    BY <1>1 DEF Start, CallTypeOK, StartPC
  <2> QED BY <1>0, <1>1, <2>1, <2>2 DEF Start
<1>2. ASSUME NEW h \in Handlers, NEW id \in 1..nextID,
             SendGet(h, id) \/ PollGet(h, id)
      PROVE  TypeOK'
  <2>1. CallTypeOK'
    BY <1>2 DEF SendGet, PollGet, Get, CallTypeOK, TableTypeOK, PollPC
  <2> QED BY <1>0, <1>2, <2>1 DEF SendGet, PollGet, Get
<1>3. ASSUME NEW h \in Handlers, Add(h) PROVE TypeOK'
  <2>1. TableTypeOK'
    BY <1>3 DEF Add, AddEntry, TableTypeOK, CallTypeOK
  <2>2. CallTypeOK'
    BY <1>3 DEF Add, Goto, CallTypeOK, StartPC
  <2> QED BY <1>0, <1>3, <2>1, <2>2 DEF Add
<1>4. ASSUME NEW h \in Handlers, AddFails(h) PROVE TypeOK'
  <2>1. CallTypeOK'
    BY <1>4 DEF AddFails, Goto, CallTypeOK, StartPC
  <2> QED BY <1>0, <1>4, <2>1 DEF AddFails
<1>5. ASSUME NEW h \in Handlers, Return(h) PROVE CallTypeOK'
  BY <1>5 DEF Return, CallTypeOK
<1>6. ASSUME NEW h \in Handlers, Kill(h) PROVE TypeOK'
  <2>1. ChildTypeOK'
    BY <1>6 DEF Kill, ChildTypeOK
  <2> QED BY <1>0, <1>5, <1>6, <2>1 DEF Kill
<1>7. ASSUME NEW h \in Handlers, Go(h) PROVE TypeOK'
  <2>1. WaitTypeOK'
    BY <1>7 DEF Go, WaitTypeOK
  <2> QED BY <1>0, <1>5, <1>7, <2>1 DEF Go
<1>8. ASSUME NEW h \in Handlers,
             SendOk(h) \/ SendFails(h) \/ ReportRunning(h)
      PROVE  TypeOK'
  BY <1>0, <1>5, <1>8 DEF SendOk, SendFails, ReportRunning
<1>9. ASSUME NEW h \in Handlers, PollCheck(h) PROVE TypeOK'
  <2>1. done[ent[h]] \in BOOLEAN
    BY <1>9 DEF PollCheck, WaitTypeOK, CallTypeOK
  <2>2. CallTypeOK'
    BY <1>9, <2>1 DEF PollCheck, CallTypeOK, PollPC
  <2> QED BY <1>0, <1>9, <2>2 DEF PollCheck
<1>10. ASSUME NEW h \in Handlers, DrainStdout(h) \/ DrainStderr(h)
       PROVE  TypeOK'
  <2>1. ChildTypeOK'
    <3>1. ASSUME NEW p \in Procs, NEW s \in Streams, Drain(p, s)
          PROVE  ChildTypeOK'
      BY <3>1 DEF Drain, ChildTypeOK
    <3>2. ent[h] \in Procs
      BY <1>10 DEF DrainStdout, DrainStderr, CallTypeOK
    <3> QED BY <1>10, <3>1, <3>2 DEF DrainStdout, DrainStderr, Streams
  <2>2. CallTypeOK'
    BY <1>10 DEF DrainStdout, DrainStderr, Goto, CallTypeOK, PollPC
  <2> QED BY <1>0, <1>10, <2>1, <2>2 DEF DrainStdout, DrainStderr
<1>11. ASSUME NEW h \in Handlers, ReportExit(h) PROVE TypeOK'
  <2>1. TableTypeOK'
    BY <1>11 DEF ReportExit, RemoveEntry, Restrict, TableTypeOK
  <2> QED BY <1>0, <1>5, <1>11, <2>1 DEF ReportExit
<1>12. ASSUME NEW p \in Procs, WaiterStep(p) PROVE TypeOK'
  <2>1. ASSUME WaitReturns(p) PROVE TypeOK'
    BY <1>0, <2>1 DEF WaitReturns, WaitTypeOK
  <2>2. ASSUME SetExitCode(p) PROVE TypeOK'
    BY <1>0, <2>2 DEF SetExitCode, WaitTypeOK, ChildTypeOK
  <2>3. ASSUME CloseDone(p) PROVE TypeOK'
    BY <1>0, <2>3 DEF CloseDone, WaitTypeOK
  <2> QED BY <1>12, <2>1, <2>2, <2>3 DEF WaiterStep
<1>13. ASSUME NEW p \in Procs, ChildStep(p),
              UNCHANGED <<tableVars, waitVars, callVars>>
       PROVE  TypeOK'
  BY <1>0, <1>13, ChildType
<1>14. CASE UNCHANGED vars
  BY <1>0, <1>14 DEF vars
<1> QED
  BY <1>1, <1>2, <1>3, <1>4, <1>6, <1>7, <1>8, <1>9, <1>10, <1>11, <1>12,
     <1>13, <1>14
  DEF Next, HandlerStep

\* Every variable of claw-exec's process table keeps its type: no pid is in
\* the table that was not handed out, no limitedBuffer outgrows its limit.
THEOREM TypeCorrect == Spec => []TypeOK
BY InitType, NextType, PTL DEF Spec

-----------------------------------------------------------------------------
(* The inductive invariant of ProcessTable *)

LEMMA InitInv == Init => Inv
BY DEF Init, ChildInit, Inv, Fresh, Serving, KnownEntry, PollPC, StartOwns, OnePidPerEntry,
       WaiterProgress, PollProgress, PidNamesOneEntry, RemovedMeansDelivered,
       NoOrphan, Registered, Range, StartPC

\* process_start: the process it makes is new to everybody else.
LEMMA StartInv ==
    ASSUME TypeOK, Inv, NEW h \in Handlers, NEW p \in Procs, Start(h, p)
    PROVE  Inv'
<1> USE DEF Inv
<1>1. /\ pc[h] = "idle" /\ os[p] = "none"
      /\ os' = [os EXCEPT ![p] = "running"]
      /\ copier' = [copier EXCEPT ![p] = [s \in Streams |-> "copy"]]
      /\ pc' = [pc EXCEPT ![h] = "add"]
      /\ ent' = [ent EXCEPT ![h] = p]
      /\ UNCHANGED <<sig, status, pipe, buf, entries, nextID, exitCode, done,
                     waiter, pid, finished>>
  BY DEF Start, Fork, tableVars, waitVars
<1>2. Registered' = Registered
  BY <1>1 DEF Registered
<1>3. Fresh'
  BY <1>1, <1>2 DEF Fresh, TypeOK, ChildTypeOK
<1>4. Serving'
  BY <1>1 DEF Serving, StartPC, TypeOK, ChildTypeOK, CallTypeOK
<1>5. StartOwns'
  BY <1>1, <1>2 DEF StartOwns, Serving, Fresh, StartPC, TypeOK, CallTypeOK
<1>6. OnePidPerEntry'
  BY <1>1 DEF OnePidPerEntry
<1>7. WaiterProgress'
  BY <1>1 DEF WaiterProgress, Copied, TypeOK, ChildTypeOK
<1>8. PollProgress'
  BY <1>1 DEF PollProgress, TypeOK, CallTypeOK
<1>9. PidNamesOneEntry'
  BY <1>1 DEF PidNamesOneEntry, Serving, TypeOK, TableTypeOK, CallTypeOK
<1>10. RemovedMeansDelivered'
  BY <1>1, <1>2 DEF RemovedMeansDelivered
<1>11. NoOrphan'
  BY <1>1, <1>2 DEF NoOrphan, TypeOK, ChildTypeOK, CallTypeOK
<1>12. KnownEntry'
  BY <1>1, <1>2 DEF KnownEntry, PollPC, TypeOK, CallTypeOK
<1> QED BY <1>3, <1>4, <1>5, <1>6, <1>7, <1>8, <1>9, <1>10, <1>11, <1>12

\* A request names a pid: nothing but the handler's own variables changes.
LEMMA GetInv ==
    ASSUME TypeOK, Inv, NEW h \in Handlers, NEW id \in 1..nextID,
           SendGet(h, id) \/ PollGet(h, id)
    PROVE  Inv'
<1> USE DEF Inv
<1>1. PICK label \in {"write", "check"} :
        /\ pc[h] = "idle" /\ id \in DOMAIN entries
        /\ pc' = [pc EXCEPT ![h] = label]
        /\ ent' = [ent EXCEPT ![h] = entries[id]]
        /\ pid' = [pid EXCEPT ![h] = id]
        /\ UNCHANGED <<childVars, tableVars, waitVars, finished>>
  BY DEF SendGet, PollGet, Get
<1>2. entries[id] \in Procs /\ entries[id] \in Registered
  BY <1>1 DEF Registered, Range, TypeOK, TableTypeOK
<1>3. Registered' = Registered
  BY <1>1 DEF Registered, tableVars
<1>4. Fresh' /\ OnePidPerEntry' /\ WaiterProgress' /\ RemovedMeansDelivered'
  BY <1>1, <1>3 DEF Fresh, OnePidPerEntry, WaiterProgress, Copied,
     RemovedMeansDelivered, childVars, tableVars, waitVars
<1>5. Serving'
  BY <1>1, <1>2 DEF Serving, Fresh, StartPC, TypeOK, CallTypeOK, TableTypeOK,
     childVars, tableVars
<1>6. StartOwns'
  BY <1>1, <1>3 DEF StartOwns, StartPC, TypeOK, CallTypeOK, childVars,
     waitVars
<1>7. PollProgress'
  BY <1>1 DEF PollProgress, TypeOK, CallTypeOK, childVars, waitVars
<1>8. PidNamesOneEntry'
  BY <1>1 DEF PidNamesOneEntry, TypeOK, CallTypeOK, tableVars
<1>9. NoOrphan'
  BY <1>1, <1>3 DEF NoOrphan, TypeOK, CallTypeOK, childVars
<1>10. KnownEntry'
  BY <1>1, <1>2, <1>3 DEF KnownEntry, TypeOK, CallTypeOK, waitVars
<1> QED BY <1>4, <1>5, <1>6, <1>7, <1>8, <1>9, <1>10

\* processTable.add takes the process in under a pid never used before.
LEMMA AddInv ==
    ASSUME TypeOK, Inv, NEW h \in Handlers, Add(h)
    PROVE  Inv'
<1> USE DEF Inv
<1>1. /\ pc[h] = "add" /\ ent[h] \in Procs
      /\ nextID' = nextID + 1
      /\ entries' = [id \in DOMAIN entries \cup {nextID + 1} |->
                        IF id = nextID + 1 THEN ent[h] ELSE entries[id]]
      /\ pc' = [pc EXCEPT ![h] = "go"]
      /\ UNCHANGED <<ent, pid, finished, childVars, waitVars>>
  BY DEF Add, AddEntry, Goto, TypeOK, CallTypeOK
<1>2. nextID + 1 \notin DOMAIN entries /\ nextID \in Nat
  BY DEF TypeOK, TableTypeOK
<1>3. Registered' = Registered \cup {ent[h]}
  BY <1>1, <1>2 DEF Registered, Range
<1>4. ent[h] \notin Registered /\ os[ent[h]] # "none"
  BY <1>1 DEF StartOwns, StartPC, Serving
<1>5. Fresh'
  BY <1>1, <1>3, <1>4 DEF Fresh, childVars, waitVars
<1>6. Serving'
  BY <1>1, <1>2 DEF Serving, StartPC, TypeOK, CallTypeOK, childVars
<1>7. StartOwns'
  BY <1>1, <1>3, <1>4 DEF StartOwns, StartPC, TypeOK, CallTypeOK, childVars,
     waitVars
<1>8. OnePidPerEntry'
  BY <1>1, <1>2, <1>4 DEF OnePidPerEntry, Registered, Range
<1>9. WaiterProgress'
  BY <1>1 DEF WaiterProgress, Copied, childVars, waitVars
<1>10. PollProgress'
  BY <1>1 DEF PollProgress, TypeOK, CallTypeOK, childVars, waitVars
<1>11. PidNamesOneEntry'
  BY <1>1, <1>2 DEF PidNamesOneEntry, Serving, TypeOK, TableTypeOK, CallTypeOK
<1>12. RemovedMeansDelivered'
  BY <1>1, <1>3 DEF RemovedMeansDelivered, childVars, waitVars
<1>13. NoOrphan'
  BY <1>1, <1>3 DEF NoOrphan, TypeOK, CallTypeOK, childVars
<1>14. KnownEntry'
  BY <1>1, <1>3 DEF KnownEntry, PollPC, TypeOK, CallTypeOK, waitVars
<1> QED
  BY <1>5, <1>6, <1>7, <1>8, <1>9, <1>10, <1>11, <1>12, <1>13, <1>14

\* A full table: the handler goes on to kill what it has started.
LEMMA AddFailsInv ==
    ASSUME TypeOK, Inv, NEW h \in Handlers, AddFails(h)
    PROVE  Inv'
<1> USE DEF Inv
<1>1. /\ pc[h] = "add"
      /\ pc' = [pc EXCEPT ![h] = "kill"]
      /\ UNCHANGED <<ent, pid, finished, childVars, tableVars, waitVars>>
  BY DEF AddFails, Goto
<1>2. Registered' = Registered
  BY <1>1 DEF Registered, tableVars
<1>3. Fresh' /\ OnePidPerEntry' /\ WaiterProgress' /\ RemovedMeansDelivered'
      /\ PidNamesOneEntry'
  BY <1>1, <1>2 DEF Fresh, OnePidPerEntry, WaiterProgress, Copied,
     RemovedMeansDelivered, PidNamesOneEntry, childVars, tableVars, waitVars
<1>4. Serving' /\ StartOwns'
  BY <1>1, <1>2 DEF Serving, StartOwns, StartPC, TypeOK, CallTypeOK,
     childVars, tableVars, waitVars
<1>5. PollProgress'
  BY <1>1 DEF PollProgress, TypeOK, CallTypeOK, childVars, waitVars
<1>6. NoOrphan'
  BY <1>1, <1>2 DEF NoOrphan, TypeOK, CallTypeOK, childVars
<1>7. KnownEntry'
  BY <1>1, <1>2 DEF KnownEntry, PollPC, TypeOK, CallTypeOK, waitVars
<1> QED BY <1>3, <1>4, <1>5, <1>6, <1>7

\* A handler that answers gives up what it knew; the process of a poll or a
\* send is not its own, and that of a process_start is killed or waited for.
LEMMA ReturnInv ==
    ASSUME TypeOK, Inv, NEW h \in Handlers, Return(h)
    PROVE  /\ UNCHANGED <<os, nextID>> => Serving'
           /\ UNCHANGED <<entries, waiter, sig>> => StartOwns'
           /\ UNCHANGED <<entries, done>> => KnownEntry'
           /\ UNCHANGED <<done, buf>> => PollProgress'
           /\ UNCHANGED <<entries, nextID>> => PidNamesOneEntry'
<1> USE DEF Inv
<1>1. /\ pc' = [pc EXCEPT ![h] = "idle"]
      /\ ent' = [ent EXCEPT ![h] = NoProc]
      /\ pid' = [pid EXCEPT ![h] = 0]
      /\ finished' = [finished EXCEPT ![h] = FALSE]
  BY DEF Return
<1>2. UNCHANGED <<os, nextID>> => Serving'
  BY <1>1 DEF Serving, StartPC, TypeOK, CallTypeOK, TableTypeOK
<1>3. UNCHANGED <<entries, waiter, sig>> => StartOwns'
  BY <1>1 DEF StartOwns, StartPC, Registered, TypeOK, CallTypeOK
<1>4. UNCHANGED <<done, buf>> => PollProgress'
  BY <1>1 DEF PollProgress, TypeOK, CallTypeOK
<1>5. UNCHANGED <<entries, nextID>> => PidNamesOneEntry'
  BY <1>1 DEF PidNamesOneEntry, TypeOK, TableTypeOK, CallTypeOK
<1>6. UNCHANGED <<entries, done>> => KnownEntry'
  BY <1>1 DEF KnownEntry, PollPC, Registered, TypeOK, CallTypeOK
<1> QED BY <1>2, <1>3, <1>4, <1>5, <1>6

LEMMA KillInv ==
    ASSUME TypeOK, Inv, NEW h \in Handlers, Kill(h)
    PROVE  Inv'
<1> USE DEF Inv
<1>1. /\ pc[h] = "kill" /\ ent[h] \in Procs
      /\ sig' = [sig EXCEPT ![ent[h]] = TRUE]
      /\ Return(h)
      /\ UNCHANGED <<os, status, copier, buf, entries, nextID, exitCode, done,
                     waiter>>
  BY DEF Kill, tableVars, waitVars, TypeOK, CallTypeOK
<1>2. Registered' = Registered
  BY <1>1 DEF Registered
<1>3. Serving' /\ KnownEntry' /\ PollProgress' /\ PidNamesOneEntry'
  BY <1>1, ReturnInv
<1>4. OnePidPerEntry' /\ WaiterProgress' /\ RemovedMeansDelivered'
  BY <1>1, <1>2 DEF OnePidPerEntry, WaiterProgress, Copied,
     RemovedMeansDelivered
<1>5. Fresh'
  BY <1>1, <1>2 DEF Fresh, Serving, TypeOK, ChildTypeOK
<1>6. StartOwns'
  BY <1>1, <1>2 DEF StartOwns, StartPC, Return, TypeOK, ChildTypeOK, CallTypeOK
<1>7. NoOrphan'
  BY <1>1, <1>2 DEF NoOrphan, Return, TypeOK, ChildTypeOK, CallTypeOK
<1> QED BY <1>3, <1>4, <1>5, <1>6, <1>7

\* The waiting goroutine is spawned while the entry is in the table.
LEMMA GoInv ==
    ASSUME TypeOK, Inv, NEW h \in Handlers, Go(h)
    PROVE  Inv'
<1> USE DEF Inv
<1>1. /\ pc[h] = "go" /\ ent[h] \in Procs
      /\ waiter' = [waiter EXCEPT ![ent[h]] = "wait"]
      /\ Return(h)
      /\ UNCHANGED <<os, sig, status, copier, buf, entries, nextID, exitCode,
                     done>>
  BY DEF Go, childVars, tableVars, TypeOK, CallTypeOK
<1>2. Registered' = Registered
  BY <1>1 DEF Registered
<1>3. /\ waiter[ent[h]] = "none"
      /\ ent[h] \in Registered
      /\ os[ent[h]] # "none"
  BY <1>1 DEF StartOwns, StartPC, Serving
<1>4. Serving' /\ KnownEntry' /\ PollProgress' /\ PidNamesOneEntry'
  BY <1>1, ReturnInv
<1>5. StartOwns'
  BY <1>1, <1>2 DEF StartOwns, StartPC, Return, TypeOK, CallTypeOK, WaitTypeOK
<1>6. Fresh' /\ OnePidPerEntry'
  BY <1>1, <1>2, <1>3 DEF Fresh, OnePidPerEntry, TypeOK, WaitTypeOK
<1>7. WaiterProgress'
  BY <1>1, <1>3 DEF WaiterProgress, Copied, TypeOK, WaitTypeOK
<1>8. RemovedMeansDelivered'
  BY <1>1, <1>2, <1>3 DEF RemovedMeansDelivered, TypeOK, WaitTypeOK
<1>9. NoOrphan'
  BY <1>1, <1>2 DEF NoOrphan, Return, TypeOK, CallTypeOK
<1> QED BY <1>4, <1>5, <1>6, <1>7, <1>8, <1>9

\* Answers that change nothing but the handler.
LEMMA AnswerInv ==
    ASSUME TypeOK, Inv, NEW h \in Handlers,
           SendOk(h) \/ SendFails(h) \/ ReportRunning(h)
    PROVE  Inv'
<1> USE DEF Inv
<1>1. /\ pc[h] \in {"write", "report"}
      /\ Return(h)
      /\ UNCHANGED <<childVars, tableVars, waitVars>>
  BY DEF SendOk, SendFails, ReportRunning
<1>2. Registered' = Registered
  BY <1>1 DEF Registered, tableVars
<1>3. Serving' /\ KnownEntry' /\ StartOwns' /\ PollProgress'
      /\ PidNamesOneEntry'
  BY <1>1, ReturnInv DEF childVars, tableVars, waitVars
<1>4. Fresh' /\ OnePidPerEntry' /\ WaiterProgress' /\ RemovedMeansDelivered'
  BY <1>1, <1>2 DEF Fresh, OnePidPerEntry, WaiterProgress, Copied,
     RemovedMeansDelivered, childVars, tableVars, waitVars
<1>5. NoOrphan'
  BY <1>1, <1>2 DEF NoOrphan, Return, TypeOK, CallTypeOK, childVars
<1> QED BY <1>3, <1>4, <1>5

\* A poll looks at done before it drains anything.
LEMMA PollCheckInv ==
    ASSUME TypeOK, Inv, NEW h \in Handlers, PollCheck(h)
    PROVE  Inv'
<1> USE DEF Inv
<1>1. /\ pc[h] = "check"
      /\ finished' = [finished EXCEPT ![h] = done[ent[h]]]
      /\ pc' = [pc EXCEPT ![h] = "stdout"]
      /\ UNCHANGED <<childVars, tableVars, waitVars, ent, pid>>
  BY DEF PollCheck
<1>2. Registered' = Registered
  BY <1>1 DEF Registered, tableVars
<1>3. Fresh' /\ OnePidPerEntry' /\ WaiterProgress' /\ RemovedMeansDelivered'
      /\ PidNamesOneEntry'
  BY <1>1, <1>2 DEF Fresh, OnePidPerEntry, WaiterProgress, Copied,
     RemovedMeansDelivered, PidNamesOneEntry, childVars, tableVars, waitVars
<1>4. Serving' /\ StartOwns'
  BY <1>1, <1>2 DEF Serving, StartOwns, StartPC, TypeOK, CallTypeOK,
     childVars, tableVars, waitVars
<1>5. PollProgress'
  BY <1>1 DEF PollProgress, TypeOK, CallTypeOK, childVars, waitVars
<1>6. NoOrphan'
  BY <1>1, <1>2 DEF NoOrphan, TypeOK, CallTypeOK, childVars
<1>7. KnownEntry'
  BY <1>1, <1>2 DEF KnownEntry, PollPC, TypeOK, CallTypeOK, waitVars
<1> QED BY <1>3, <1>4, <1>5, <1>6, <1>7

LEMMA DrainInv ==
    ASSUME TypeOK, Inv, NEW h \in Handlers, DrainStdout(h) \/ DrainStderr(h)
    PROVE  Inv'
<1> USE DEF Inv
<1>1. PICK s \in Streams, label \in {"stderr", "report"} :
        /\ s = "stdout" => pc[h] = "stdout" /\ label = "stderr"
        /\ s = "stderr" => pc[h] = "stderr" /\ label = "report"
        /\ buf' = [buf EXCEPT ![ent[h]][s] = 0]
        /\ pc' = [pc EXCEPT ![h] = label]
        /\ UNCHANGED <<ent, pid, finished, os, sig, status, copier, entries,
                       nextID, waiter, exitCode, done>>
  BY DEF DrainStdout, DrainStderr, Drain, Goto, Streams, tableVars, waitVars
<1>2. pc[h] \in {"stdout", "stderr"} /\ ent[h] \in Procs
  BY <1>1 DEF Streams, TypeOK, CallTypeOK
<1>3. Registered' = Registered
  BY <1>1 DEF Registered
<1>4. \A p \in Procs : \A r \in Streams :
        buf'[p][r] = IF p = ent[h] /\ r = s THEN 0 ELSE buf[p][r]
  BY <1>1 DEF TypeOK, ChildTypeOK
<1>5. Fresh' /\ OnePidPerEntry' /\ WaiterProgress' /\ PidNamesOneEntry'
  BY <1>1, <1>3 DEF Fresh, OnePidPerEntry, WaiterProgress, Copied,
     PidNamesOneEntry
<1>6. Serving' /\ StartOwns'
  BY <1>1, <1>2, <1>3 DEF Serving, StartOwns, StartPC, TypeOK, CallTypeOK
<1>7. PollProgress'
  <2> SUFFICES ASSUME NEW g \in Handlers, finished[g]
               PROVE  /\ pc'[g] \in {"stdout", "stderr", "report"}
                      /\ done[ent[g]]
                      /\ pc'[g] # "stdout" => buf'[ent[g]]["stdout"] = 0
                      /\ pc'[g] = "report" => buf'[ent[g]]["stderr"] = 0
    BY <1>1 DEF PollProgress
  <2>1. /\ pc[g] \in {"stdout", "stderr", "report"}
        /\ done[ent[g]]
        /\ pc[g] # "stdout" => buf[ent[g]]["stdout"] = 0
        /\ pc[g] = "report" => buf[ent[g]]["stderr"] = 0
        /\ ent[g] \in Procs
    BY DEF PollProgress, TypeOK, CallTypeOK
  <2>2. pc'[g] = IF g = h THEN label ELSE pc[g]
    BY <1>1 DEF TypeOK, CallTypeOK
  <2> QED BY <1>1, <1>2, <1>4, <2>1, <2>2 DEF Streams
<1>8. RemovedMeansDelivered'
  BY <1>1, <1>3, <1>4 DEF RemovedMeansDelivered
<1>9. NoOrphan'
  BY <1>1, <1>2, <1>3 DEF NoOrphan, TypeOK, CallTypeOK
<1>10. KnownEntry'
  BY <1>1, <1>2, <1>3 DEF KnownEntry, PollPC, TypeOK, CallTypeOK
<1> QED BY <1>5, <1>6, <1>7, <1>8, <1>9, <1>10

\* A pid is given up by a poll that found the process done and has drained
\* both buffers since.
LEMMA ReportExitInv ==
    ASSUME TypeOK, Inv, NEW h \in Handlers, ReportExit(h)
    PROVE  Inv'
<1> USE DEF Inv
<1>1. /\ pc[h] = "report" /\ finished[h] /\ ent[h] \in Procs
      /\ entries' = [id \in DOMAIN entries \ {pid[h]} |-> entries[id]]
      /\ Return(h)
      /\ UNCHANGED <<nextID, childVars, waitVars>>
  BY DEF ReportExit, RemoveEntry, Restrict, TypeOK, CallTypeOK
<1>2. Registered' \subseteq Registered /\ Registered \subseteq Registered' \cup {ent[h]}
  BY <1>1 DEF Registered, Range, PidNamesOneEntry
<1>3. /\ done[ent[h]]
      /\ \A s \in Streams : buf[ent[h]][s] = 0
      /\ os[ent[h]] = "exited"
  BY <1>1 DEF PollProgress, WaiterProgress, Streams
<1>4. Serving' /\ PollProgress'
  BY <1>1, ReturnInv DEF childVars, waitVars
<1>5. PidNamesOneEntry'
  BY <1>1 DEF PidNamesOneEntry, Return, TypeOK, CallTypeOK, TableTypeOK
<1>6. StartOwns'
  <2>1. \A g \in Handlers :
          pc[g] \in StartPC => waiter[ent[g]] = "none" /\ ent[g] # ent[h]
    BY <1>1, <1>3 DEF StartOwns, WaiterProgress
  <2>2. \A g \in Handlers :
          pc'[g] \in StartPC => pc'[g] = pc[g] /\ ent'[g] = ent[g]
    BY <1>1 DEF Return, StartPC, TypeOK, CallTypeOK
  <2> QED BY <1>1, <1>2, <2>1, <2>2 DEF StartOwns, childVars, waitVars
<1>7. Fresh' /\ OnePidPerEntry' /\ WaiterProgress'
  BY <1>1, <1>2 DEF Fresh, OnePidPerEntry, WaiterProgress, Copied, childVars,
     waitVars
<1>8. RemovedMeansDelivered'
  BY <1>1, <1>2, <1>3 DEF RemovedMeansDelivered, childVars, waitVars
<1>9. NoOrphan'
  BY <1>1, <1>2, <1>3 DEF NoOrphan, Return, TypeOK, CallTypeOK, childVars
<1>10. KnownEntry'
  BY <1>1, <1>2, <1>3 DEF KnownEntry, PollPC, Return, TypeOK, CallTypeOK,
     waitVars
<1> QED BY <1>4, <1>5, <1>6, <1>7, <1>8, <1>9, <1>10

\* The waiting goroutine: exit code first, then the close of done.
LEMMA WaiterInv ==
    ASSUME TypeOK, Inv, NEW p \in Procs, WaiterStep(p)
    PROVE  Inv'
<1> USE DEF Inv
<1>1. /\ UNCHANGED <<childVars, tableVars, callVars>>
      /\ waiter[p] # "none"
      /\ \E w \in {"code", "close", "end"} :
            waiter' = [waiter EXCEPT ![p] = w]
      /\ done' \in {done, [done EXCEPT ![p] = TRUE]}
  BY DEF WaiterStep, WaitReturns, SetExitCode, CloseDone
<1>2. Registered' = Registered
  BY <1>1 DEF Registered, tableVars
<1>3. \A q \in Procs : done[q] => done'[q]
  BY <1>1 DEF TypeOK, WaitTypeOK
<1>4. \A q \in Procs : waiter'[q] = "none" <=> waiter[q] = "none"
  BY <1>1 DEF TypeOK, WaitTypeOK
<1>5. Fresh'
  BY <1>1, <1>2, <1>4 DEF Fresh, childVars
<1>6. Serving' /\ OnePidPerEntry' /\ PidNamesOneEntry' /\ NoOrphan'
  BY <1>1, <1>2 DEF Serving, OnePidPerEntry, PidNamesOneEntry, NoOrphan,
     childVars, tableVars, callVars
<1>7. StartOwns'
  <2>1. \A h \in Handlers : pc[h] \in StartPC => ent[h] \in Procs
    BY DEF TypeOK, CallTypeOK, StartPC
  <2> QED BY <1>1, <1>2, <1>4, <2>1 DEF StartOwns, childVars, callVars
<1>8. WaiterProgress'
  <2>1. CASE WaitReturns(p)
    BY <2>1 DEF WaitReturns, WaiterProgress, Copied, childVars, TypeOK,
       WaitTypeOK
  <2>2. CASE SetExitCode(p)
    BY <2>2 DEF SetExitCode, WaiterProgress, Copied, childVars, TypeOK,
       WaitTypeOK
  <2>3. CASE CloseDone(p)
    BY <2>3 DEF CloseDone, WaiterProgress, Copied, childVars, TypeOK,
       WaitTypeOK
  <2> QED BY <2>1, <2>2, <2>3 DEF WaiterStep
<1>9. PollProgress'
  <2>1. \A h \in Handlers : finished[h] => ent[h] \in Procs
    BY DEF PollProgress, TypeOK, CallTypeOK
  <2> QED BY <1>1, <1>3, <2>1 DEF PollProgress, childVars, callVars
<1>10. RemovedMeansDelivered'
  BY <1>1, <1>2, <1>3, <1>4 DEF RemovedMeansDelivered, childVars
<1>11. KnownEntry'
  <2>1. \A h \in Handlers :
          pc[h] \in {"write"} \cup PollPC => ent[h] \in Procs
    BY DEF PollPC, TypeOK, CallTypeOK
  <2> QED BY <1>1, <1>2, <1>3, <2>1 DEF KnownEntry, callVars
<1> QED BY <1>5, <1>6, <1>7, <1>8, <1>9, <1>10, <1>11

LEMMA ChildInv ==
    ASSUME TypeOK, Inv, NEW p \in Procs, ChildStep(p),
           UNCHANGED <<tableVars, waitVars, callVars>>
    PROVE  Inv'
<1> USE DEF Inv
<1>1. \A q \in Procs :
        /\ os'[q] # os[q] => os[q] = "running" /\ os'[q] = "exited"
        /\ sig'[q] = sig[q]
        /\ os[q] = "exited" => status'[q] = status[q]
        /\ AtRest(q) => copier'[q] = copier[q] /\ buf'[q] = buf[q]
  BY ChildEffect DEF TypeOK
<1>2. UNCHANGED <<entries, nextID, exitCode, done, waiter, pc, ent, pid,
                  finished>>
  BY DEF tableVars, waitVars, callVars
<1>3. Registered' = Registered
  BY <1>2 DEF Registered
<1>4. \A h \in Handlers : pc[h] # "idle" => ent[h] \in Procs
  BY DEF TypeOK, CallTypeOK
<1>5. \A q \in Procs : Copied(q) => Copied(q)' /\ buf'[q] = buf[q]
  BY <1>1 DEF Copied, AtRest
<1>6. Fresh'
  BY <1>1, <1>2, <1>3 DEF Fresh, AtRest
<1>7. Serving' /\ OnePidPerEntry' /\ PidNamesOneEntry' /\ KnownEntry'
  BY <1>1, <1>2, <1>3, <1>4 DEF Serving, OnePidPerEntry, PidNamesOneEntry,
     KnownEntry
<1>8. StartOwns'
  <2>1. \A h \in Handlers : pc[h] \in StartPC => ent[h] \in Procs
    BY <1>4 DEF StartPC
  <2> QED BY <1>1, <1>2, <1>3, <2>1 DEF StartOwns
<1>9. WaiterProgress'
  BY <1>1, <1>2, <1>5 DEF WaiterProgress
<1>10. PollProgress'
  <2>1. \A h \in Handlers : finished[h] => buf'[ent[h]] = buf[ent[h]]
    BY <1>4, <1>5 DEF PollProgress, WaiterProgress
  <2> QED BY <1>2, <2>1 DEF PollProgress
<1>11. RemovedMeansDelivered'
  <2>1. \A q \in Procs : done[q] => buf'[q] = buf[q]
    BY <1>5 DEF WaiterProgress
  <2> QED BY <1>2, <1>3, <2>1 DEF RemovedMeansDelivered
<1>12. NoOrphan'
  BY <1>1, <1>2, <1>3 DEF NoOrphan
<1> QED BY <1>6, <1>7, <1>8, <1>9, <1>10, <1>11, <1>12

LEMMA StutterInv == Inv /\ UNCHANGED vars => Inv'
BY DEF vars, childVars, tableVars, waitVars, callVars, Inv, Fresh, Serving,
       KnownEntry, StartOwns, OnePidPerEntry, WaiterProgress, Copied, PollProgress,
       PidNamesOneEntry, RemovedMeansDelivered, NoOrphan, Registered

LEMMA NextInv == TypeOK /\ Inv /\ [Next]_vars => Inv'
<1> SUFFICES ASSUME TypeOK, Inv, [Next]_vars PROVE Inv'
  OBVIOUS
<1>1. ASSUME NEW h \in Handlers, HandlerStep(h) PROVE Inv'
  BY <1>1, AddInv, AddFailsInv, KillInv, GoInv, AnswerInv, PollCheckInv,
     DrainInv, ReportExitInv DEF HandlerStep
<1> QED
  BY <1>1, StartInv, GetInv, AnswerInv, WaiterInv, ChildInv, StutterInv
  DEF Next

\* The inductive invariant holds in every reachable state.
THEOREM InvHolds == Spec => []Inv
<1>1. TypeOK /\ Inv /\ [Next]_vars => (TypeOK /\ Inv)'
  BY NextType, NextInv
<1> QED BY InitType, InitInv, <1>1, PTL DEF Spec

\* A pid is given up only after its process is known to have exited and all
\* the output kept of it was delivered (main.go:410-429).
THEOREM Delivered == Spec => []RemovedMeansDelivered
BY InvHolds, PTL DEF Inv

\* The exit code a poll reports is the one the process ended with
\* (main.go:348-354, 428).
THEOREM CodeIsReal == Spec => []ReportedCodeIsReal
<1>1. TypeOK /\ Inv => ReportedCodeIsReal
  BY DEF Inv, ReportedCodeIsReal, PollProgress, WaiterProgress, TypeOK,
     CallTypeOK
<1> QED BY <1>1, TypeCorrect, InvHolds, PTL

\* A late remove or write never reaches another process than the one the
\* client named (main.go:82, 97).
THEOREM StalePidIsSafe == Spec => []PidNamesOneEntry
BY InvHolds, PTL DEF Inv

\* Every live process can be reached through the table, but for those that a
\* process_start has in its hands or has killed (main.go:337-346).
THEOREM NothingOrphaned == Spec => []NoOrphan
BY InvHolds, PTL DEF Inv

-----------------------------------------------------------------------------
(* The process limit *)

LEMMA TableFinite == TypeOK => IsFiniteSet(DOMAIN entries)
<1> SUFFICES ASSUME TypeOK PROVE IsFiniteSet(DOMAIN entries)
  OBVIOUS
<1>1. nextID \in Int /\ DOMAIN entries \in SUBSET (1..nextID)
  BY DEF TypeOK, TableTypeOK
<1>2. IsFiniteSet(1..nextID)
  BY <1>1, FS_Interval
<1> QED BY <1>1, <1>2, FS_Subset

\* processTable.add keeps the table within maxProcessCount (main.go:79).
LEMMA InitBounded == Init => TableBounded
<1>1. Cardinality({}) = 0
  BY FS_EmptySet
<1> QED BY <1>1 DEF Init, TableBounded

LEMMA NextBounded == TypeOK /\ TableBounded /\ [Next]_vars => TableBounded'
<1> SUFFICES ASSUME TypeOK, TableBounded, [Next]_vars PROVE TableBounded'
  OBVIOUS
<1>1. IsFiniteSet(DOMAIN entries) /\ Cardinality(DOMAIN entries) \in Nat
  BY TableFinite, FS_CardinalityType
<1>2. ASSUME NEW h \in Handlers, Add(h) PROVE TableBounded'
  <2>1. /\ Cardinality(DOMAIN entries) < MaxProcessCount
        /\ DOMAIN entries' = DOMAIN entries \cup {nextID + 1}
    BY <1>2 DEF Add, AddEntry
  <2>2. Cardinality(DOMAIN entries \cup {nextID + 1}) =
            IF nextID + 1 \in DOMAIN entries THEN Cardinality(DOMAIN entries)
            ELSE Cardinality(DOMAIN entries) + 1
    BY <1>1, FS_AddElement
  <2>3. Cardinality(DOMAIN entries \cup {nextID + 1}) <= MaxProcessCount
    BY <1>1, <2>1, <2>2
  <2> QED BY <2>1, <2>3 DEF TableBounded
<1>3. ASSUME NEW h \in Handlers, ReportExit(h) PROVE TableBounded'
  <2>1. DOMAIN entries' \in SUBSET DOMAIN entries
    BY <1>3 DEF ReportExit, RemoveEntry, Restrict
  <2>2. /\ IsFiniteSet(DOMAIN entries')
        /\ Cardinality(DOMAIN entries') <= Cardinality(DOMAIN entries)
    BY <1>1, <2>1, FS_Subset
  <2>3. Cardinality(DOMAIN entries') \in Nat
    BY <2>2, FS_CardinalityType
  <2> QED BY <1>1, <2>2, <2>3 DEF TableBounded
<1>4. CASE UNCHANGED entries
  BY <1>4 DEF TableBounded
<1> QED
  BY <1>2, <1>3, <1>4 DEF Next, HandlerStep, WaiterStep, Start, SendGet,
     PollGet, Get, AddFails, Goto, Kill, Go, SendOk, SendFails, PollCheck,
     DrainStdout, DrainStderr, ReportRunning, WaitReturns, SetExitCode,
     CloseDone, vars, tableVars

LEMMA TableBoundedHolds == Spec => []TableBounded
BY InitBounded, NextBounded, TypeCorrect, PTL DEF Spec

\* Every live process holds a slot or is in the hands of a process_start.
LEMMA LimitFromInv == TypeOK /\ Inv /\ TableBounded => LiveBounded
<1> SUFFICES ASSUME TypeOK, Inv, TableBounded PROVE LiveBounded
  OBVIOUS
<1> DEFINE Held == {ent[h] : h \in InFlight}
           holds == [h \in InFlight |-> ent[h]]
<1>1. /\ IsFiniteSet(Registered)
      /\ Cardinality(Registered) <= Cardinality(DOMAIN entries)
  <2>1. entries \in Surjection(DOMAIN entries, Registered)
    BY DEF Surjection, Registered, Range, TypeOK, TableTypeOK
  <2> QED BY <2>1, TableFinite, FS_Surjection
<1>2. IsFiniteSet(InFlight)
  BY FS_Subset DEF InFlight
<1>3. /\ IsFiniteSet(Held)
      /\ Cardinality(Held) <= Cardinality(InFlight)
  <2>1. holds \in Surjection(InFlight, Held)
    BY DEF Surjection
  <2> QED BY <1>2, <2>1, FS_Surjection
<1>4. Live \in SUBSET (Registered \cup Held)
  BY DEF Inv, NoOrphan, Live, InFlight
<1>5. /\ IsFiniteSet(Registered \cup Held)
      /\ Cardinality(Registered \cup Held) =
            Cardinality(Registered) + Cardinality(Held)
                - Cardinality(Registered \cap Held)
  BY <1>1, <1>3, FS_Union
<1>6. /\ IsFiniteSet(Live)
      /\ Cardinality(Live) <= Cardinality(Registered \cup Held)
  BY <1>4, <1>5, FS_Subset
<1>7. IsFiniteSet(Registered \cap Held)
  BY <1>1, FS_Subset
<1>8. /\ Cardinality(Live) \in Nat
      /\ Cardinality(Registered) \in Nat
      /\ Cardinality(Held) \in Nat
      /\ Cardinality(InFlight) \in Nat
      /\ Cardinality(Registered \cap Held) \in Nat
      /\ Cardinality(DOMAIN entries) \in Nat
  BY <1>1, <1>2, <1>3, <1>6, <1>7, TableFinite, FS_CardinalityType
<1> HIDE DEF Held
<1> QED BY <1>1, <1>3, <1>5, <1>6, <1>8 DEF LiveBounded, TableBounded

\* The processes alive are at most maxProcessCount and one more for each
\* process_start between cmd.Start and its answer (main.go:337-346).
THEOREM LimitHolds == Spec => []LiveBounded
BY LimitFromInv, TypeCorrect, InvHolds, TableBoundedHolds, PTL

-----------------------------------------------------------------------------
(* What ProcessTable promises its client *)

\* The two modules count with the same Cardinality.
LEMMA SameCardinality == \A S : Abstract!Cardinality(S) = Cardinality(S)
BY DEF Abstract!Cardinality, Cardinality

LEMMA InitMaps == Init => Abstract!AInit
BY DEF Init, ChildInit, Abstract!AInit, phaseMap, verdictMap, PhaseOf,
       VerdictOf

\* What is nameable is what is in the table; so the abstract limit is the
\* table's.
LEMMA NameableIsTable ==
    ASSUME TypeOK, Inv
    PROVE  /\ Abstract!Nameable = Registered
           /\ IsFiniteSet(Registered)
           /\ Cardinality(Registered) \in Nat
           /\ Cardinality(Registered) <= Cardinality(DOMAIN entries)
<1>1. Registered \subseteq Procs
  BY DEF Registered, Range, TypeOK, TableTypeOK
<1>2. \A p \in Registered : os[p] # "none"
  BY <1>1 DEF Inv, Fresh
<1>3. Abstract!Nameable = Registered
  BY <1>1, <1>2 DEF Abstract!Nameable, phaseMap, PhaseOf
<1>4. entries \in Surjection(DOMAIN entries, Registered)
  BY DEF Surjection, Registered, Range, TypeOK, TableTypeOK
<1>5. /\ IsFiniteSet(Registered)
      /\ Cardinality(Registered) <= Cardinality(DOMAIN entries)
  BY <1>4, TableFinite, FS_Surjection
<1> QED BY <1>3, <1>5, FS_CardinalityType

\* A step after which every command is in the phase it was in, or in the one
\* `to` if it is p.
LEMMA OneMoves ==
    ASSUME NEW p \in Procs, NEW to,
           PhaseOf(p)' = to,
           \A q \in Procs \ {p} : PhaseOf(q)' = PhaseOf(q)
    PROVE  phaseMap' = [phaseMap EXCEPT ![p] = to]
BY DEF phaseMap

LEMMA NoneMoves ==
    ASSUME \A q \in Procs : PhaseOf(q)' = PhaseOf(q)
    PROVE  phaseMap' = phaseMap
BY DEF phaseMap

LEMMA SameVerdict ==
    UNCHANGED <<done, exitCode>> => verdictMap' = verdictMap
BY DEF verdictMap, VerdictOf

LEMMA StartMaps ==
    ASSUME TypeOK, Inv, NEW h \in Handlers, NEW p \in Procs, Start(h, p)
    PROVE  Abstract!Begin(p)
<1>1. /\ os[p] = "none"
      /\ os' = [os EXCEPT ![p] = "running"]
      /\ UNCHANGED <<sig, buf, entries, exitCode, done, waiter>>
  BY DEF Start, Fork, tableVars, waitVars
<1>2. p \notin Registered /\ waiter[p] = "none" /\ Registered' = Registered
  BY <1>1 DEF Inv, Fresh, Registered
<1>3. ~sig[p]
  BY <1>1 DEF Inv, Fresh
<1>4. PhaseOf(p) = "unborn" /\ PhaseOf(p)' = "starting"
  BY <1>1, <1>2, <1>3 DEF PhaseOf, TypeOK, ChildTypeOK
<1>5. \A q \in Procs \ {p} : PhaseOf(q)' = PhaseOf(q)
  BY <1>1, <1>2 DEF PhaseOf, TypeOK, ChildTypeOK
<1>6. phaseMap' = [phaseMap EXCEPT ![p] = "starting"]
  BY <1>4, <1>5, OneMoves
<1>7. phaseMap[p] = "unborn"
  BY <1>4 DEF phaseMap
<1> QED
  BY <1>1, <1>6, <1>7, SameVerdict DEF Abstract!Begin, Abstract!Move

LEMMA AddMaps ==
    ASSUME TypeOK, Inv, NEW h \in Handlers, Add(h)
    PROVE  \E p \in Procs : Abstract!Accept(p)
<1>1. PICK p \in Procs :
      /\ pc[h] = "add" /\ ent[h] = p
      /\ Cardinality(DOMAIN entries) < MaxProcessCount
      /\ entries' = [id \in DOMAIN entries \cup {nextID + 1} |->
                        IF id = nextID + 1 THEN p ELSE entries[id]]
      /\ UNCHANGED <<os, sig, buf, exitCode, done, waiter>>
  BY DEF Add, AddEntry, childVars, waitVars, TypeOK, CallTypeOK
<1>2. nextID + 1 \notin DOMAIN entries
  BY DEF TypeOK, TableTypeOK
<1>3. Registered' = Registered \cup {p}
  BY <1>1, <1>2 DEF Registered, Range
<1>4. /\ p \notin Registered /\ os[p] # "none"
      /\ waiter[p] = "none" /\ ~sig[p] /\ ~done[p]
  BY <1>1 DEF Inv, StartOwns, StartPC, Serving, WaiterProgress
<1>5. PhaseOf(p) = "starting" /\ PhaseOf(p)' = "running"
  BY <1>1, <1>3, <1>4 DEF PhaseOf
<1>6. \A q \in Procs \ {p} : PhaseOf(q)' = PhaseOf(q)
  BY <1>1, <1>3 DEF PhaseOf
<1>7. phaseMap' = [phaseMap EXCEPT ![p] = "running"]
  BY <1>1, <1>5, <1>6, OneMoves
<1>8. phaseMap[p] = "starting"
  BY <1>1, <1>5 DEF phaseMap
<1>9. Cardinality(Abstract!Nameable) < MaxProcessCount
  <2>1. Cardinality(DOMAIN entries) \in Nat
    BY TableFinite, FS_CardinalityType
  <2> QED BY <1>1, <2>1, NameableIsTable
<1>10. Abstract!Accept(p)
  <2>1. Abstract!Move(p, "starting", "running")
    BY <1>7, <1>8 DEF Abstract!Move
  <2>2. Abstract!Cardinality(Abstract!Nameable) < MaxProcessCount
    BY <1>9, SameCardinality
  <2> QED BY <1>1, <2>1, <2>2, SameVerdict DEF Abstract!Accept
<1> QED BY <1>10

LEMMA KillMaps ==
    ASSUME TypeOK, Inv, NEW h \in Handlers, Kill(h)
    PROVE  \E p \in Procs : Abstract!Reject(p)
<1>1. PICK p \in Procs :
      /\ pc[h] = "kill" /\ ent[h] = p
      /\ sig' = [sig EXCEPT ![p] = TRUE]
      /\ UNCHANGED <<os, buf, entries, exitCode, done, waiter>>
  BY DEF Kill, tableVars, waitVars, TypeOK, CallTypeOK
<1>2. /\ p \notin Registered /\ os[p] # "none"
      /\ waiter[p] = "none" /\ ~sig[p]
  BY <1>1 DEF Inv, StartOwns, StartPC, Serving
<1>3. Registered' = Registered
  BY <1>1 DEF Registered
<1>4. PhaseOf(p) = "starting" /\ PhaseOf(p)' = "rejected"
  BY <1>1, <1>2, <1>3 DEF PhaseOf, TypeOK, ChildTypeOK
<1>5. \A q \in Procs \ {p} : PhaseOf(q)' = PhaseOf(q)
  BY <1>1, <1>3 DEF PhaseOf, TypeOK, ChildTypeOK
<1>6. phaseMap' = [phaseMap EXCEPT ![p] = "rejected"]
  BY <1>1, <1>4, <1>5, OneMoves
<1>7. phaseMap[p] = "starting"
  BY <1>1, <1>4 DEF phaseMap
<1>8. Abstract!Reject(p)
  BY <1>1, <1>6, <1>7, SameVerdict DEF Abstract!Reject, Abstract!Move
<1> QED BY <1>8

LEMMA GoMaps ==
    ASSUME TypeOK, Inv, NEW h \in Handlers, Go(h)
    PROVE  UNCHANGED Abstract!avars
<1>1. /\ pc[h] = "go" /\ ent[h] \in Procs
      /\ waiter' = [waiter EXCEPT ![ent[h]] = "wait"]
      /\ UNCHANGED <<os, sig, buf, entries, exitCode, done>>
  BY DEF Go, childVars, tableVars, TypeOK, CallTypeOK
<1>2. ent[h] \in Registered
  BY <1>1 DEF Inv, StartOwns, StartPC
<1>3. Registered' = Registered
  BY <1>1 DEF Registered
<1>4. \A q \in Procs : PhaseOf(q)' = PhaseOf(q)
  BY <1>1, <1>2, <1>3 DEF PhaseOf, TypeOK, WaitTypeOK
<1> QED BY <1>1, <1>4, NoneMoves, SameVerdict DEF Abstract!avars

\* A poll drains a process that is in the table, or one whose buffers were
\* empty when it left the table.
LEMMA DrainMaps ==
    ASSUME TypeOK, Inv, NEW h \in Handlers, DrainStdout(h) \/ DrainStderr(h)
    PROVE  \/ \E s \in Streams : Abstract!Deliver(ent[h], s)
           \/ UNCHANGED Abstract!avars
<1>1. PICK s \in Streams :
        /\ pc[h] \in {"stdout", "stderr"} /\ ent[h] \in Procs
        /\ buf' = [buf EXCEPT ![ent[h]][s] = 0]
        /\ UNCHANGED <<os, sig, entries, exitCode, done, waiter>>
  BY DEF DrainStdout, DrainStderr, Drain, Streams, tableVars, waitVars,
         TypeOK, CallTypeOK
<1>2. Registered' = Registered
  BY <1>1 DEF Registered
<1>3. phaseMap' = phaseMap /\ verdictMap' = verdictMap
  <2>1. \A q \in Procs : PhaseOf(q)' = PhaseOf(q)
    BY <1>1, <1>2 DEF PhaseOf
  <2> QED BY <1>1, <2>1, NoneMoves, SameVerdict
<1>4. CASE ent[h] \in Registered
  <2>1. os[ent[h]] # "none"
    BY <1>1 DEF Inv, Serving
  <2>2. phaseMap[ent[h]] \in {"running", "finished"}
    BY <1>1, <1>4, <2>1 DEF phaseMap, PhaseOf
  <2> QED BY <1>1, <1>3, <2>2 DEF Abstract!Deliver
<1>5. CASE ent[h] \notin Registered
  <2>1. waiter[ent[h]] # "none"
    BY <1>1, <1>5 DEF Inv, KnownEntry, PollPC, WaiterProgress
  <2>2. buf[ent[h]][s] = 0
    BY <1>1, <1>5, <2>1 DEF Inv, RemovedMeansDelivered
  <2>3. buf' = buf
    <3>1. [buf[ent[h]] EXCEPT ![s] = 0] = buf[ent[h]]
      BY <1>1, <2>2 DEF TypeOK, ChildTypeOK
    <3> QED BY <1>1, <3>1 DEF TypeOK, ChildTypeOK
  <2> QED BY <1>3, <2>3 DEF Abstract!avars
<1> QED BY <1>4, <1>5

\* A poll that gives the pid up retires the process, unless another poll did.
LEMMA ReportExitMaps ==
    ASSUME TypeOK, Inv, NEW h \in Handlers, ReportExit(h)
    PROVE  \/ \E p \in Procs : Abstract!Retire(p)
           \/ UNCHANGED Abstract!avars
<1>1. PICK p \in Procs :
      /\ pc[h] = "report" /\ finished[h] /\ ent[h] = p
      /\ entries' = [id \in DOMAIN entries \ {pid[h]} |-> entries[id]]
      /\ UNCHANGED <<os, sig, buf, exitCode, done, waiter>>
  BY DEF ReportExit, RemoveEntry, Restrict, childVars, waitVars, TypeOK,
         CallTypeOK
<1>2. done[p] /\ waiter[p] = "end" /\ os[p] = "exited"
      /\ \A s \in Streams : buf[p][s] = 0
  BY <1>1 DEF Inv, PollProgress, WaiterProgress, Streams
<1>3. CASE pid[h] \in DOMAIN entries
  <2>1. entries[pid[h]] = p
    BY <1>1, <1>3 DEF Inv, PidNamesOneEntry
  <2>2. p \in Registered /\ Registered' = Registered \ {p}
    BY <1>1, <1>3, <2>1 DEF Registered, Range, Inv, OnePidPerEntry
  <2>3. PhaseOf(p) = "finished" /\ PhaseOf(p)' = "retired"
    BY <1>1, <1>2, <2>2 DEF PhaseOf
  <2>4. \A q \in Procs \ {p} : PhaseOf(q)' = PhaseOf(q)
    BY <1>1, <2>2 DEF PhaseOf
  <2>5. phaseMap' = [phaseMap EXCEPT ![p] = "retired"]
    BY <1>1, <2>3, <2>4, OneMoves
  <2>6. phaseMap[p] = "finished"
    BY <1>1, <2>3 DEF phaseMap
  <2>7. Abstract!Retire(p)
    BY <1>1, <1>2, <2>5, <2>6, SameVerdict
       DEF Abstract!Retire, Abstract!Move
  <2> QED BY <2>7
<1>4. CASE pid[h] \notin DOMAIN entries
  <2>1. entries' = entries
    BY <1>1, <1>4 DEF TypeOK, TableTypeOK
  <2>2. \A q \in Procs : PhaseOf(q)' = PhaseOf(q)
    BY <1>1, <2>1 DEF PhaseOf, Registered
  <2> QED BY <1>1, <2>2, NoneMoves, SameVerdict DEF Abstract!avars
<1> QED BY <1>3, <1>4

\* The waiting goroutine gives the verdict when it closes done.
LEMMA WaiterMaps ==
    ASSUME TypeOK, Inv, NEW p \in Procs, WaiterStep(p)
    PROVE  \/ \E v \in ExitCodes \cup {Signaled, 0} : Abstract!Finish(p, v)
           \/ UNCHANGED Abstract!avars
<1>1. /\ UNCHANGED <<os, sig, buf, entries>>
      /\ \A q \in Procs : waiter'[q] = "none" <=> waiter[q] = "none"
  BY DEF WaiterStep, WaitReturns, SetExitCode, CloseDone, childVars,
         tableVars, TypeOK, WaitTypeOK
<1>2. Registered' = Registered
  BY <1>1 DEF Registered
<1>3. CASE WaitReturns(p) \/ SetExitCode(p)
  <2>1. done' = done /\ ~done[p]
    BY <1>3 DEF WaitReturns, SetExitCode, Inv, WaiterProgress
  <2>2. phaseMap' = phaseMap
    <3>1. \A q \in Procs : PhaseOf(q)' = PhaseOf(q)
      BY <1>1, <1>2, <2>1 DEF PhaseOf
    <3> QED BY <3>1, NoneMoves
  <2>3. verdictMap' = verdictMap
    <3>1. \A q \in Procs \ {p} : exitCode'[q] = exitCode[q]
      BY <1>3 DEF WaitReturns, SetExitCode, TypeOK, WaitTypeOK
    <3> QED BY <2>1, <3>1 DEF verdictMap, VerdictOf
  <2> QED BY <1>1, <2>2, <2>3 DEF Abstract!avars
<1>4. CASE CloseDone(p)
  <2>1. /\ done' = [done EXCEPT ![p] = TRUE]
        /\ waiter[p] = "close"
        /\ exitCode' = exitCode
    BY <1>4 DEF CloseDone
  <2>2. ~done[p] /\ os[p] = "exited"
    BY <2>1 DEF Inv, WaiterProgress
  <2>3. p \in Registered
    BY <2>1, <2>2 DEF Inv, RemovedMeansDelivered
  <2>4. PhaseOf(p) = "running" /\ PhaseOf(p)' = "finished"
    BY <1>1, <1>2, <2>1, <2>2, <2>3 DEF PhaseOf, TypeOK, WaitTypeOK
  <2>5. \A q \in Procs \ {p} : PhaseOf(q)' = PhaseOf(q)
    BY <1>1, <1>2, <2>1 DEF PhaseOf, TypeOK, WaitTypeOK
  <2>6. phaseMap' = [phaseMap EXCEPT ![p] = "finished"]
    BY <2>4, <2>5, OneMoves
  <2>7. phaseMap[p] = "running"
    BY <2>4 DEF phaseMap
  <2>8. verdictMap' = [verdictMap EXCEPT ![p] = exitCode[p]]
    BY <2>1 DEF verdictMap, VerdictOf, TypeOK, WaitTypeOK
  <2>9. exitCode[p] \in ExitCodes \cup {Signaled, 0}
    BY DEF TypeOK, WaitTypeOK
  <2>10. Abstract!Finish(p, exitCode[p])
    BY <1>1, <2>6, <2>7, <2>8 DEF Abstract!Finish, Abstract!Move
  <2> QED BY <2>9, <2>10
<1> QED BY <1>3, <1>4 DEF WaiterStep

\* Only a Write of a copying goroutine shows, and only while the process is
\* not known to have exited.
LEMMA ChildMaps ==
    ASSUME TypeOK, Inv, NEW p \in Procs, ChildStep(p),
           UNCHANGED <<tableVars, waitVars, callVars>>
    PROVE  \/ \E s \in Streams : \E n \in 1..Limit : Abstract!Output(p, s, n)
           \/ UNCHANGED Abstract!avars
<1>1. UNCHANGED <<entries, done, waiter, exitCode>>
  BY DEF tableVars, waitVars
<1>2. Registered' = Registered
  BY <1>1 DEF Registered
<1>3. phaseMap' = phaseMap /\ verdictMap' = verdictMap
  <2>1. \A q \in Procs : PhaseOf(q)' = PhaseOf(q)
    <3>1. \A q \in Procs : /\ os'[q] = "none" <=> os[q] = "none"
                           /\ sig'[q] = sig[q]
      BY ChildEffect DEF TypeOK
    <3> QED BY <1>1, <1>2, <3>1 DEF PhaseOf
  <2> QED BY <1>1, <2>1, NoneMoves, SameVerdict
<1>4. CASE UNCHANGED buf
  BY <1>3, <1>4 DEF Abstract!avars
<1>5. ASSUME NEW s \in Streams, Copy(p, s), buf' # buf
      PROVE  \E n \in 1..Limit : Abstract!Output(p, s, n)
  <2> DEFINE n == buf[p][s] + Stored(buf[p][s], Lesser(pipe[p][s], ReadSize))
  <2>1. /\ copier[p][s] = "copy"
        /\ buf' = [buf EXCEPT ![p][s] = n]
    BY <1>5 DEF Copy, TypeOK, ChildTypeOK
  <2>2. /\ buf[p][s] \in 0..Limit
        /\ Lesser(pipe[p][s], ReadSize) \in Nat
    BY DEF TypeOK, ChildTypeOK, Lesser
  <2>3. n \in 0..Limit /\ n >= buf[p][s]
    BY <2>2 DEF Stored, Lesser
  <2>4. n # buf[p][s]
    <3>1. n = buf[p][s] => [buf[p] EXCEPT ![s] = n] = buf[p]
      BY DEF TypeOK, ChildTypeOK
    <3>2. n = buf[p][s] => buf' = buf
      BY <2>1, <3>1 DEF TypeOK, ChildTypeOK
    <3> QED BY <1>5, <3>2
  <2> HIDE DEF n
  <2>5. ~done[p]
    BY <2>1 DEF Inv, WaiterProgress, Copied
  <2>6. os[p] # "none"
    BY <2>1 DEF Inv, Fresh
  <2>7. phaseMap[p] \in {"starting", "running", "rejected"}
    BY <2>5, <2>6 DEF phaseMap, PhaseOf, Inv, RemovedMeansDelivered
  <2>8. n \in 1..Limit /\ n > buf[p][s]
    BY <2>2, <2>3, <2>4
  <2> QED BY <1>3, <2>1, <2>7, <2>8 DEF Abstract!Output
<1>6. buf' # buf => \E s \in Streams : Copy(p, s)
  BY DEF ChildStep, Produce, BrokenPipe, Exit, DieKilled, CopyEOF
<1> QED BY <1>4, <1>5, <1>6

LEMMA StepMaps ==
    TypeOK /\ Inv /\ [Next]_vars => [Abstract!ANext]_(Abstract!avars)
<1> SUFFICES ASSUME TypeOK, Inv, [Next]_vars
             PROVE  Abstract!ANext \/ UNCHANGED Abstract!avars
  OBVIOUS
<1>1. UNCHANGED <<os, sig, buf, entries, done, exitCode, waiter>>
        => UNCHANGED Abstract!avars
  BY DEF Abstract!avars, phaseMap, PhaseOf, verdictMap, VerdictOf, Registered
<1>2. ASSUME NEW h \in Handlers,
             \/ \E id \in 1..nextID : SendGet(h, id) \/ PollGet(h, id)
             \/ AddFails(h) \/ PollCheck(h) \/ ReportRunning(h)
             \/ SendOk(h) \/ SendFails(h)
      PROVE  UNCHANGED Abstract!avars
  BY <1>1, <1>2 DEF SendGet, PollGet, Get, AddFails, Goto, PollCheck,
     ReportRunning, SendOk, SendFails, childVars, tableVars, waitVars
<1>3. ASSUME NEW h \in Handlers, HandlerStep(h)
      PROVE  Abstract!ANext \/ UNCHANGED Abstract!avars
  <2>1. DrainStdout(h) \/ DrainStderr(h) => ent[h] \in Procs
    BY DEF DrainStdout, DrainStderr, TypeOK, CallTypeOK
  <2> QED
    BY <1>2, <1>3, <2>1, AddMaps, KillMaps, GoMaps, DrainMaps, ReportExitMaps
    DEF HandlerStep, Abstract!ANext
<1>4. CASE UNCHANGED vars
  BY <1>1, <1>4 DEF vars, childVars, tableVars, waitVars
<1>5. ASSUME NEW p \in Procs,
             \/ WaiterStep(p)
             \/ ChildStep(p) /\ UNCHANGED <<tableVars, waitVars, callVars>>
      PROVE  Abstract!ANext \/ UNCHANGED Abstract!avars
  BY <1>5, WaiterMaps, ChildMaps DEF Abstract!ANext
<1>6. ASSUME NEW h \in Handlers, NEW p \in Procs, Start(h, p)
      PROVE  Abstract!ANext
  BY <1>6, StartMaps DEF Abstract!ANext
<1> QED BY <1>2, <1>3, <1>4, <1>5, <1>6 DEF Next

\* The background-process tools implement BackgroundProcesses: a pid is given
\* out only while there is room, the verdict is given once and no output
\* follows it, and no pid is given up before all is delivered.
THEOREM Implements == Spec => Promise
<1>1. Spec => Abstract!AInit /\ [][Abstract!ANext]_(Abstract!avars)
  BY InitMaps, StepMaps, TypeCorrect, InvHolds, PTL DEF Spec
<1> QED BY <1>1 DEF Promise, Abstract!ASpec

-----------------------------------------------------------------------------
(* The server is ProcessTable but for its restarts. *)

\* The steps of the server that touch its state are steps of ProcessTable.
LEMMA StepOfTable ==
    ASSUME ServerTypeOK, ServerNext
    PROVE  \/ [Next]_vars
           \/ \E reattached \in BOOLEAN : Restart(reattached)
<1>1. ASSUME NEW h \in Handlers, NEW p \in Procs,
             AskStart(h, p) \/ Ask(h, p) \/ AskGone(h, p)
      PROVE  [Next]_vars
  <2>1. known[p] \in DOMAIN entries => known[p] \in 1..nextID
    BY DEF ServerTypeOK, TypeOK, TableTypeOK
  <2> QED BY <1>1, <2>1 DEF AskStart, Ask, AskGone, SendGet, PollGet, Get, Next
<1>2. ASSUME NEW h \in Handlers,
             \/ Work(h)
             \/ \E s \in Streams : Take(h, s)
             \/ \E delivered \in BOOLEAN :
                    AnswerStart(h, delivered) \/ AnswerPoll(h, delivered)
      PROVE  [Next]_vars
  BY <1>2 DEF Work, Take, AnswerStart, AnswerPoll, Next, HandlerStep
<1>3. ASSUME NEW p \in Procs, Wait(p) \/ Command(p) PROVE [Next]_vars
  BY <1>3 DEF Wait, Command, Next
<1>4. ASSUME NEW p \in Procs, CommandEndsInside(p) PROVE UNCHANGED vars
  BY <1>4 DEF CommandEndsInside, EndInside, vars
<1> QED BY <1>1, <1>2, <1>3, <1>4 DEF ServerNext

LEMMA RestartType ==
    ASSUME TypeOK, NEW reattached \in BOOLEAN, Restart(reattached)
    PROVE  TypeOK'
<1>1. ChildTypeOK'
  BY DEF Restart, Blank, Zero, TypeOK, ChildTypeOK
<1>2. TableTypeOK' /\ WaitTypeOK' /\ CallTypeOK'
  BY DEF Restart, Blank, TableTypeOK, WaitTypeOK, CallTypeOK
<1> QED BY <1>1, <1>2 DEF TypeOK

\* A restart leaves no process that runs, and a table that knows none.
LEMMA RestartInv ==
    ASSUME TypeOK, Inv, NEW reattached \in BOOLEAN, Restart(reattached)
    PROVE  Inv' /\ TableBounded'
<1>1. /\ entries' = [id \in {} |-> NoProc] /\ nextID' = 0
      /\ \A p \in Procs : /\ ~done'[p] /\ waiter'[p] = "none"
                          /\ os'[p] # "running"
                          /\ os'[p] = "none" <=> os[p] = "none"
                          /\ sig'[p] = sig[p]
                          /\ \A s \in Streams :
                                os[p] = "none" => copier'[p][s] = "off"
      /\ \A h \in Handlers : /\ pc'[h] = "idle" /\ pid'[h] = 0
                             /\ ~finished'[h]
  BY DEF Restart, Blank, TypeOK, ChildTypeOK
<1>2. Registered' = {}
  BY <1>1 DEF Registered, Range
<1>3. Fresh'
  BY <1>1, <1>2 DEF Inv, Fresh
<1>4. Serving' /\ KnownEntry' /\ StartOwns' /\ PollProgress'
  BY <1>1 DEF Serving, KnownEntry, StartOwns, PollProgress, StartPC, PollPC
<1>5. OnePidPerEntry' /\ PidNamesOneEntry'
  BY <1>1 DEF OnePidPerEntry, PidNamesOneEntry
<1>6. WaiterProgress' /\ RemovedMeansDelivered' /\ NoOrphan'
  BY <1>1 DEF WaiterProgress, RemovedMeansDelivered, NoOrphan
<1>7. TableBounded'
  BY <1>1, FS_EmptySet DEF TableBounded
<1> QED BY <1>3, <1>4, <1>5, <1>6, <1>7 DEF Inv

LEMMA TableKept ==
    ASSUME ServerTypeOK, Inv, TableBounded, [ServerNext]_serverVars
    PROVE  TypeOK' /\ Inv' /\ TableBounded'
<1>1. CASE ServerNext
  BY <1>1, StepOfTable, NextType, NextInv, NextBounded, RestartType,
     RestartInv DEF ServerTypeOK
<1>2. CASE UNCHANGED serverVars
  BY <1>2, NextType, NextInv, NextBounded DEF ServerTypeOK, serverVars
<1> QED BY <1>1, <1>2

-----------------------------------------------------------------------------
(* The types of the server *)

LEMMA ServerInitType == ServerInit => ServerTypeOK
BY InitType DEF ServerInit, ServerTypeOK, SandboxInit, SandboxTypeOK, Init,
   NamingPC, PollPC, Zero

(* The account of the output *)

\* What h carries of stream s of p.
Share(p, s) ==
    [h \in Handlers |-> IF ent[h] = p THEN carry[h][s] ELSE 0]

\* The output of p that is neither delivered nor gone.
Due(p, s) == ledger[p][s] - missing[p][s]

Books(p, s) ==
    Due(p, s) = buf[p][s] + SumFunctionOnSet(Share(p, s), Handlers)

LEMMA ShareType ==
    ServerTypeOK =>
        \A p \in Procs, s \in Streams : Share(p, s) \in [Handlers -> Int]
BY DEF Share, ServerTypeOK

LEMMA InAnswersIsShares ==
    ASSUME ServerTypeOK, NEW p \in Procs, NEW s \in Streams
    PROVE  /\ InAnswers(p, s) = SumFunctionOnSet(Share(p, s), Handlers)
           /\ InAnswers(p, s) \in Int
<1> DEFINE all == [h \in Handlers |-> carry[h][s]]
           of == {h \in Handlers : ent[h] = p}
<1>1. Share(p, s) \in [Handlers -> Int] /\ IsFiniteSet(of)
  BY ShareType, FS_Subset
<1>2. \A h \in of : all[h] \in Int /\ all[h] = Share(p, s)[h]
  BY DEF Share, ServerTypeOK
<1>3. \A h \in Handlers \ of : Share(p, s)[h] = 0
  BY DEF Share
<1>4. of \subseteq Handlers
  OBVIOUS
<1>5. InAnswers(p, s) = SumFunctionOnSet(all, of)
  BY DEF InAnswers
<1> HIDE DEF all, of
<1>6. SumFunctionOnSet(all, of) = SumFunctionOnSet(Share(p, s), of)
  BY <1>1, <1>2, SumSame
<1>7. SumFunctionOnSet(Share(p, s), Handlers) = SumFunctionOnSet(Share(p, s), of)
  BY <1>1, <1>3, <1>4, SumDropsZeros
<1>8. SumFunctionOnSet(Share(p, s), Handlers) \in Int
  BY <1>1, SumType
<1> QED BY <1>5, <1>6, <1>7, <1>8

LEMMA AccountType ==
    ServerTypeOK =>
        \A p \in Procs, s \in Streams :
            /\ ledger[p][s] \in Int /\ missing[p][s] \in Int
            /\ buf[p][s] \in Int /\ InAnswers(p, s) \in Int
            /\ Due(p, s) \in Int
<1> SUFFICES ASSUME ServerTypeOK, NEW p \in Procs, NEW s \in Streams
             PROVE  /\ ledger[p][s] \in Int /\ missing[p][s] \in Int
                    /\ buf[p][s] \in Int /\ InAnswers(p, s) \in Int
                    /\ Due(p, s) \in Int
  OBVIOUS
<1>1. /\ ledger[p][s] \in Int /\ missing[p][s] \in Int
      /\ buf[p][s] \in Int
  BY DEF ServerTypeOK, TypeOK, ChildTypeOK
<1>2. InAnswers(p, s) \in Int
  BY InAnswersIsShares
<1> QED BY <1>1, <1>2 DEF Due

LEMMA BooksBalance ==
    ServerTypeOK =>
        (LedgerBalances <=> \A p \in Procs, s \in Streams : Books(p, s))
<1> SUFFICES ASSUME ServerTypeOK, NEW p \in Procs, NEW s \in Streams
             PROVE  ledger[p][s] = missing[p][s] + (buf[p][s] + InAnswers(p, s))
                      <=> Books(p, s)
  BY DEF LedgerBalances
<1>1. /\ ledger[p][s] \in Int /\ missing[p][s] \in Int
      /\ buf[p][s] \in Int /\ InAnswers(p, s) \in Int
  BY AccountType
<1>2. Books(p, s) <=> ledger[p][s] - missing[p][s] = buf[p][s] + InAnswers(p, s)
  BY InAnswersIsShares DEF Books, Due
<1> QED BY <1>1, <1>2

-----------------------------------------------------------------------------
(* The types of the server, step by step *)

LEMMA ServerNextType ==
    ASSUME ServerTypeOK, Inv, TableBounded, [ServerNext]_serverVars
    PROVE  ServerTypeOK'
<1> USE DEF ServerTypeOK
<1>0. TypeOK'
  BY TableKept
<1>1. SandboxTypeOK'
  <2>1. CASE \E p \in Procs : Command(p)
    BY <2>1 DEF Command, LeaveBehind, CutOff, SandboxTypeOK
  <2>2. CASE \E p \in Procs : CommandEndsInside(p)
    BY <2>2 DEF CommandEndsInside, EndInside, SandboxTypeOK
  <2>3. CASE \E reattached \in BOOLEAN : Restart(reattached)
    BY <2>3 DEF Restart, SandboxTypeOK, Runtimes
  <2>4. CASE UNCHANGED sandboxVars
    BY <2>4 DEF sandboxVars, SandboxTypeOK
  <2> QED
    BY <2>1, <2>2, <2>3, <2>4 DEF ServerNext, AskStart, Ask, AskGone, Work,
       Take, AnswerStart, AnswerPoll, Wait, serverVars
<1>2. /\ boot' \in Nat
      /\ known' \in [Procs -> Nat] /\ learnt' \in [Procs -> Nat]
      /\ told' \in [Procs -> {"nothing", "exit", "gone"}]
  <2>1. ASSUME NEW h \in Handlers, NEW delivered \in BOOLEAN,
               AnswerStart(h, delivered)
        PROVE  known' \in [Procs -> Nat] /\ learnt' \in [Procs -> Nat]
    <3>1. /\ pc[h] = "go" /\ ent[h] \in Procs
          /\ \E id \in DOMAIN entries : entries[id] = ent[h]
      BY <2>1 DEF AnswerStart, Go, TypeOK, CallTypeOK, Inv, StartOwns,
         StartPC, Registered, Range
    <3>2. PidOf(ent[h]) \in Nat
      BY <3>1 DEF PidOf, TypeOK, TableTypeOK
    <3>3. \/ UNCHANGED <<known, learnt>>
          \/ /\ known' = [known EXCEPT ![ent[h]] = PidOf(ent[h])]
             /\ learnt' = [learnt EXCEPT ![ent[h]] = boot]
      BY <2>1 DEF AnswerStart
    <3>4. CASE UNCHANGED <<known, learnt>>
      BY <3>4
    <3>5. CASE /\ known' = [known EXCEPT ![ent[h]] = PidOf(ent[h])]
               /\ learnt' = [learnt EXCEPT ![ent[h]] = boot]
      BY <3>2, <3>5
    <3> QED BY <3>3, <3>4, <3>5
  <2>2. ASSUME NEW h \in Handlers, NEW delivered \in BOOLEAN,
               AnswerPoll(h, delivered)
        PROVE  told' \in [Procs -> {"nothing", "exit", "gone"}]
    BY <2>2 DEF AnswerPoll
  <2>3. ASSUME NEW h \in Handlers, NEW p \in Procs, AskGone(h, p)
        PROVE  told' \in [Procs -> {"nothing", "exit", "gone"}]
    BY <2>3 DEF AskGone
  <2>4. boot' \in {boot, boot + 1}
    BY DEF ServerNext, AskStart, Ask, AskGone, Work, Take, AnswerStart,
       AnswerPoll, Wait, Command, CommandEndsInside, Restart, serverVars
  <2>5. \/ UNCHANGED <<known, learnt>>
        \/ \E h \in Handlers, delivered \in BOOLEAN : AnswerStart(h, delivered)
    BY DEF ServerNext, AskStart, Ask, AskGone, Work, Take, AnswerPoll, Wait,
       Command, CommandEndsInside, Restart, clientVars, serverVars
  <2>6. \/ UNCHANGED told
        \/ \E h \in Handlers, p \in Procs : AskGone(h, p)
        \/ \E h \in Handlers, delivered \in BOOLEAN : AnswerPoll(h, delivered)
    BY DEF ServerNext, AskStart, Ask, Work, Take, AnswerStart, Wait, Command,
       CommandEndsInside, Restart, clientVars, serverVars
  <2> QED BY <2>1, <2>2, <2>3, <2>4, <2>5, <2>6
<1>3. /\ about' \in [Handlers -> Procs \cup {NoProc}]
      /\ \A h \in Handlers : pc'[h] \in NamingPC => about'[h] \in Procs
  <2> DEFINE Goal == /\ about' \in [Handlers -> Procs \cup {NoProc}]
                     /\ \A h \in Handlers :
                           pc'[h] \in NamingPC => about'[h] \in Procs
  <2>1. ASSUME NEW h \in Handlers, NEW p \in Procs, Ask(h, p) PROVE Goal
    BY <2>1 DEF Ask, SendGet, PollGet, Get, TypeOK, CallTypeOK
  <2>2. ASSUME NEW h \in Handlers, NEW p \in Procs, AskStart(h, p) PROVE Goal
    BY <2>2 DEF AskStart, Start, ghostVars, NamingPC, PollPC, TypeOK,
       CallTypeOK
  <2>3. ASSUME NEW h \in Handlers,
               Work(h) \/ \E delivered \in BOOLEAN : AnswerPoll(h, delivered)
        PROVE  Goal
    <3>1. /\ Forget(h)
          /\ \A g \in Handlers : g # h => pc'[g] = pc[g]
          /\ pc'[h] \in NamingPC => pc[h] \in NamingPC
      BY <2>3 DEF Work, AnswerPoll, Add, AddFails, Kill, SendOk, SendFails,
         PollCheck, ReportExit, ReportRunning, Goto, Return, NamingPC,
         PollPC, TypeOK, CallTypeOK
    <3> QED BY <3>1 DEF Forget, NamingPC, PollPC
  <2>4. ASSUME NEW h \in Handlers,
               \/ \E s \in Streams : Take(h, s)
               \/ \E delivered \in BOOLEAN : AnswerStart(h, delivered)
        PROVE  Goal
    <3>1. /\ about' = about
          /\ \A g \in Handlers : g # h => pc'[g] = pc[g]
          /\ pc'[h] \in NamingPC => pc[h] \in NamingPC
      BY <2>4 DEF Take, AnswerStart, DrainStdout, DrainStderr, Go, Goto,
         Return, NamingPC, PollPC, ghostVars, TypeOK, CallTypeOK
    <3> QED BY <3>1
  <2>5. CASE UNCHANGED <<about, pc>>
    BY <2>5
  <2>6. ASSUME NEW reattached \in BOOLEAN, Restart(reattached) PROVE Goal
    BY <2>6 DEF Restart, Blank, NamingPC, PollPC
  <2> QED
    BY <2>1, <2>2, <2>3, <2>4, <2>5, <2>6 DEF ServerNext, AskGone, Wait,
       WaiterStep, WaitReturns, SetExitCode, CloseDone, Command,
       CommandEndsInside, callVars, ghostVars, vars, serverVars
<1>4. carry' \in [Handlers -> [Streams -> Nat]]
  <2>1. ASSUME NEW h \in Handlers, NEW s \in Streams, Take(h, s)
        PROVE  carry' \in [Handlers -> [Streams -> Nat]]
    <3>1. ent[h] \in Procs
      BY <2>1 DEF Take, DrainStdout, DrainStderr, TypeOK, CallTypeOK
    <3>2. buf[ent[h]][s] \in Nat
      BY <3>1 DEF TypeOK, ChildTypeOK
    <3> QED BY <2>1, <3>2 DEF Take
  <2>2. ASSUME NEW h \in Handlers, NEW delivered \in BOOLEAN,
               AnswerPoll(h, delivered)
        PROVE  carry' \in [Handlers -> [Streams -> Nat]]
    BY <2>2 DEF AnswerPoll, Zero
  <2>3. ASSUME NEW reattached \in BOOLEAN, Restart(reattached)
        PROVE  carry' \in [Handlers -> [Streams -> Nat]]
    BY <2>3 DEF Restart, Blank, Zero
  <2>4. \/ UNCHANGED carry
        \/ \E h \in Handlers, s \in Streams : Take(h, s)
        \/ \E h \in Handlers, delivered \in BOOLEAN : AnswerPoll(h, delivered)
        \/ \E reattached \in BOOLEAN : Restart(reattached)
    BY DEF ServerNext, AskStart, Ask, AskGone, Work, AnswerStart, Wait,
       Command, CommandEndsInside, ghostVars, serverVars
  <2> QED BY <2>1, <2>2, <2>3, <2>4
<1>5. ledger' \in [Procs -> [Streams -> Int]]
  <2>1. ASSUME NEW p \in Procs, Command(p)
        PROVE  ledger' \in [Procs -> [Streams -> Int]]
    <3>1. \A q \in Procs, s \in Streams :
            buf'[q][s] \in Int /\ buf[q][s] \in Int
      BY <1>0 DEF TypeOK, ChildTypeOK
    <3> QED BY <2>1, <3>1 DEF Command
  <2>2. ASSUME NEW h \in Handlers, NEW delivered \in BOOLEAN,
               AnswerPoll(h, delivered)
        PROVE  ledger' \in [Procs -> [Streams -> Int]]
    <3>1. \/ ledger' = ledger
          \/ ledger' = [ledger EXCEPT ![ent[h]] =
                           [s \in Streams |-> @[s] - carry[h][s]]]
      BY <2>2 DEF AnswerPoll
    <3>2. ent[h] \in Procs
      BY <2>2 DEF AnswerPoll, ReportExit, ReportRunning, TypeOK, CallTypeOK
    <3>3. \A s \in Streams : ledger[ent[h]][s] - carry[h][s] \in Int
      BY <3>2
    <3> QED BY <3>1, <3>3
  <2> QED
    BY <2>1, <2>2 DEF ServerNext, AskStart, Ask, AskGone, Work, Take,
       AnswerStart, Wait, CommandEndsInside, Restart, Blank, Zero, ghostVars,
       serverVars
<1>6. missing' \in [Procs -> [Streams -> Int]]
  <2>1. ASSUME NEW h \in Handlers, NEW delivered \in BOOLEAN,
               AnswerPoll(h, delivered)
        PROVE  missing' \in [Procs -> [Streams -> Int]]
    <3>1. \/ missing' = missing
          \/ missing' = [missing EXCEPT ![ent[h]] =
                            [s \in Streams |-> @[s] + carry[h][s]]]
      BY <2>1 DEF AnswerPoll
    <3>2. ent[h] \in Procs
      BY <2>1 DEF AnswerPoll, ReportExit, ReportRunning, TypeOK, CallTypeOK
    <3>3. \A s \in Streams : missing[ent[h]][s] + carry[h][s] \in Int
      BY <3>2
    <3> QED BY <3>1, <3>3
  <2>2. ASSUME NEW reattached \in BOOLEAN, Restart(reattached)
        PROVE  missing' \in [Procs -> [Streams -> Int]]
    <3>1. \A q \in Procs, s \in Streams :
            missing[q][s] + (buf[q][s] + InAnswers(q, s)) \in Int
      <4> SUFFICES ASSUME NEW q \in Procs, NEW s \in Streams
                   PROVE  missing[q][s] + (buf[q][s] + InAnswers(q, s)) \in Int
        OBVIOUS
      <4>1. /\ missing[q][s] \in Int /\ buf[q][s] \in Int
            /\ InAnswers(q, s) \in Int
        BY AccountType
      <4> QED BY <4>1
    <3> QED BY <2>2, <3>1 DEF Restart, Blank
  <2> QED
    BY <2>1, <2>2 DEF ServerNext, AskStart, Ask, AskGone, Work, Take,
       AnswerStart, Wait, Command, CommandEndsInside, ghostVars, serverVars
<1> QED BY <1>0, <1>1, <1>2, <1>3, <1>4, <1>5, <1>6

-----------------------------------------------------------------------------
(* The inductive invariant of the server *)

Client == Names /\ StartsUnknown /\ Asked /\ Told

\* A command somebody holds a pid for was started.
LEMMA KnownStarted ==
    ASSUME Inv, Names, NEW p \in Procs, known[p] # 0
    PROVE  os[p] # "none"
BY DEF Inv, Fresh, Names, Past

LEMMA AskStartClient ==
    ASSUME ServerTypeOK, Inv, Client, NEW h \in Handlers, NEW p \in Procs,
           AskStart(h, p)
    PROVE  Client'
<1> USE DEF Client
<1>1. /\ os[p] = "none" /\ known[p] = 0 /\ pc[h] = "idle"
      /\ os' = [os EXCEPT ![p] = "running"]
      /\ copier' = [copier EXCEPT ![p] = [s \in Streams |-> "copy"]]
      /\ pc' = [pc EXCEPT ![h] = "add"] /\ ent' = [ent EXCEPT ![h] = p]
      /\ UNCHANGED <<entries, nextID, waiter, buf, pid, boot, known, learnt,
                     told, about>>
  BY KnownStarted DEF AskStart, Start, Fork, tableVars, waitVars, clientVars,
     ghostVars
<1>2. Registered' = Registered
  BY <1>1 DEF Registered
<1>3. ASSUME NEW q \in Procs, q # p, Past(q) PROVE Past(q)'
  BY <1>1, <1>2, <1>3 DEF Past, ServerTypeOK, TypeOK, ChildTypeOK, CallTypeOK
<1>4. Names'
  BY <1>1, <1>3 DEF Names
<1>5. StartsUnknown'
  BY <1>1 DEF StartsUnknown, StartPC, ServerTypeOK, TypeOK, CallTypeOK
<1>6. Asked' /\ Told'
  BY <1>1, <1>2 DEF Asked, Told, NamingPC, PollPC, ServerTypeOK, TypeOK,
     CallTypeOK
<1> QED BY <1>4, <1>5, <1>6

LEMMA AskClient ==
    ASSUME ServerTypeOK, Inv, Client, NEW h \in Handlers, NEW p \in Procs,
           Ask(h, p)
    PROVE  Client'
<1> USE DEF Client
<1> DEFINE id == known[p]
<1>1. PICK label \in {"write", "check"} :
        /\ pc[h] = "idle" /\ id # 0 /\ id \in DOMAIN entries
        /\ pc' = [pc EXCEPT ![h] = label]
        /\ ent' = [ent EXCEPT ![h] = entries[id]]
        /\ pid' = [pid EXCEPT ![h] = id]
        /\ about' = [about EXCEPT ![h] = p]
        /\ UNCHANGED <<os, copier, entries, nextID, waiter, buf, boot, known,
                       learnt, told>>
  BY DEF Ask, SendGet, PollGet, Get, childVars, tableVars, waitVars,
     clientVars
<1>2. Registered' = Registered /\ entries[id] \in Registered
  BY <1>1 DEF Registered, Range
<1>3. ASSUME NEW q \in Procs, Past(q) PROVE Past(q)'
  BY <1>1, <1>2, <1>3 DEF Past, ServerTypeOK, TypeOK, CallTypeOK
<1>4. Names'
  BY <1>1, <1>3 DEF Names
<1>5. StartsUnknown' /\ Told'
  BY <1>1, <1>2 DEF StartsUnknown, Told, StartPC, ServerTypeOK, TypeOK,
     CallTypeOK
<1>6. learnt[p] = boot => entries[id] = p
  BY <1>1 DEF Names, ServerTypeOK
<1>7. Asked'
  BY <1>1, <1>6 DEF Asked, NamingPC, PollPC, ServerTypeOK, TypeOK,
     CallTypeOK
<1> QED BY <1>4, <1>5, <1>7

LEMMA AskGoneClient ==
    ASSUME ServerTypeOK, Inv, Client, NEW h \in Handlers, NEW p \in Procs,
           AskGone(h, p)
    PROVE  Client'
<1> USE DEF Client
<1>1. /\ known[p] # 0 /\ known[p] \notin DOMAIN entries
      /\ told' = [told EXCEPT ![p] = "gone"]
      /\ UNCHANGED <<os, copier, entries, nextID, waiter, buf, pc, ent, pid,
                     boot, known, learnt, about>>
  BY DEF AskGone, vars, childVars, tableVars, waitVars, callVars, ghostVars
<1>2. p \notin Registered
  BY <1>1 DEF Names, Past, Registered, Range
<1>3. Registered' = Registered
  BY <1>1 DEF Registered
<1>4. Names' /\ StartsUnknown' /\ Asked'
  BY <1>1, <1>3 DEF Names, Past, StartsUnknown, Asked
<1>5. Told'
  BY <1>1, <1>2, <1>3 DEF Told, ServerTypeOK
<1> QED BY <1>4, <1>5

\* process_start puts its command under a pid that nobody can hold yet.
LEMMA AddClient ==
    ASSUME ServerTypeOK, Inv, Client, NEW h \in Handlers, Add(h), Work(h)
    PROVE  Client'
<1> USE DEF Client
<1>1. /\ pc[h] = "add" /\ ent[h] \in Procs /\ known[ent[h]] = 0
      /\ nextID' = nextID + 1 /\ nextID \in Nat
      /\ entries' = [id \in DOMAIN entries \cup {nextID + 1} |->
                        IF id = nextID + 1 THEN ent[h] ELSE entries[id]]
      /\ pc' = [pc EXCEPT ![h] = "go"]
      /\ UNCHANGED <<os, copier, waiter, buf, ent, pid, boot, known, learnt,
                     told>>
      /\ about' = [about EXCEPT ![h] = about[h]]
  BY DEF Work, Forget, Add, AddEntry, Goto, StartsUnknown, StartPC,
     ServerTypeOK, TypeOK, TableTypeOK, CallTypeOK, childVars, waitVars,
     clientVars
<1>2. nextID + 1 \notin DOMAIN entries
  BY DEF ServerTypeOK, TypeOK, TableTypeOK
<1>3. Registered' = Registered \cup {ent[h]}
  BY <1>1, <1>2 DEF Registered, Range
<1>4. ASSUME NEW q \in Procs, known[q] # 0, Past(q) PROVE Past(q)'
  BY <1>1, <1>3, <1>4 DEF Past
<1>5. ASSUME NEW q \in Procs, known[q] # 0, known[q] <= nextID,
             \A i \in DOMAIN entries : entries[i] = q <=> i = known[q]
      PROVE  \A i \in DOMAIN entries' : entries'[i] = q <=> i = known[q]
  BY <1>1, <1>2, <1>5 DEF ServerTypeOK
<1>6. Names'
  BY <1>1, <1>4, <1>5 DEF Names, ServerTypeOK
<1>7. StartsUnknown'
  BY <1>1 DEF StartsUnknown, StartPC, ServerTypeOK, TypeOK, CallTypeOK
<1>8. about' = about
  BY <1>1 DEF ServerTypeOK
<1>9. Asked' /\ Told'
  BY <1>1, <1>3, <1>8 DEF Asked, Told, NamingPC, PollPC, ServerTypeOK,
     TypeOK, CallTypeOK
<1> QED BY <1>6, <1>7, <1>9

\* The other steps of a handler leave the table alone, and hold on to their
\* request or forget it.
LEMMA WorkClient ==
    ASSUME ServerTypeOK, Inv, Client, NEW h \in Handlers, ~Add(h), Work(h)
    PROVE  Client'
<1> USE DEF Client
<1>1. /\ UNCHANGED <<os, copier, entries, nextID, waiter, buf, boot, known,
                     learnt, told>>
      /\ \A g \in Handlers : g # h =>
            UNCHANGED <<pc[g], ent[g], pid[g], about[g]>>
      /\ \/ pc'[h] = "idle" /\ ent'[h] = NoProc
         \/ /\ UNCHANGED <<ent[h], pid[h], about[h]>>
            /\ \/ pc[h] \in StartPC /\ pc'[h] \in StartPC
               \/ pc[h] \in NamingPC /\ pc'[h] \in PollPC
  BY DEF Work, Forget, AddFails, Kill, SendOk, SendFails, PollCheck, Goto,
     Return, childVars, tableVars, waitVars, clientVars, StartPC, NamingPC,
     PollPC, ServerTypeOK, TypeOK, CallTypeOK
<1>2. Registered' = Registered
  BY <1>1 DEF Registered
<1>3. ASSUME NEW q \in Procs, Past(q) PROVE Past(q)'
  BY <1>1, <1>2, <1>3 DEF Past
<1>4. Names' /\ Told'
  BY <1>1, <1>2, <1>3 DEF Names, Told
<1>5. StartsUnknown' /\ Asked'
  BY <1>1 DEF StartsUnknown, Asked, NamingPC, StartPC, PollPC
<1> QED BY <1>4, <1>5

\* The answer of process_start is the first the client hears of the pid.
LEMMA AnswerStartClient ==
    ASSUME ServerTypeOK, Inv, Client, NEW h \in Handlers,
           NEW delivered \in BOOLEAN, AnswerStart(h, delivered)
    PROVE  Client'
<1> USE DEF Client
<1> DEFINE p == ent[h]
<1>1. /\ pc[h] = "go" /\ p \in Procs /\ p \in Registered
      /\ waiter' = [waiter EXCEPT ![p] = "wait"]
      /\ pc' = [pc EXCEPT ![h] = "idle"]
      /\ ent' = [ent EXCEPT ![h] = NoProc]
      /\ pid' = [pid EXCEPT ![h] = 0]
      /\ UNCHANGED <<os, copier, entries, nextID, buf, boot, told, about>>
      /\ known[p] = 0
  BY DEF AnswerStart, Go, Return, StartOwns, StartsUnknown, StartPC, Inv,
     ServerTypeOK, TypeOK, CallTypeOK, childVars, tableVars, ghostVars
<1>2. Registered' = Registered
  BY <1>1 DEF Registered
<1>3. /\ PidOf(p) \in DOMAIN entries /\ PidOf(p) \in 1..nextID
      /\ entries[PidOf(p)] = p
      /\ \A i \in DOMAIN entries : entries[i] = p <=> i = PidOf(p)
  BY <1>1 DEF PidOf, Registered, Range, Inv, OnePidPerEntry, ServerTypeOK,
     TypeOK, TableTypeOK
<1>4. \/ UNCHANGED <<known, learnt>>
      \/ /\ known' = [known EXCEPT ![p] = PidOf(p)]
         /\ learnt' = [learnt EXCEPT ![p] = boot]
  BY DEF AnswerStart
<1>5. ASSUME NEW q \in Procs, q # p, Past(q) PROVE Past(q)'
  BY <1>1, <1>2, <1>5 DEF Past, ServerTypeOK, TypeOK, WaitTypeOK, CallTypeOK
<1>6. ASSUME NEW q \in Procs, known'[q] # 0
      PROVE  \/ /\ learnt'[q] = boot' /\ waiter'[q] # "none"
                /\ known'[q] <= nextID'
                /\ \A i \in DOMAIN entries' :
                      entries'[i] = q <=> i = known'[q]
             \/ learnt'[q] < boot' /\ Past(q)'
  <2>1. CASE q = p
    BY <1>1, <1>3, <1>4, <1>6, <2>1 DEF ServerTypeOK, TypeOK, TableTypeOK,
       WaitTypeOK
  <2>2. CASE q # p
    <3>1. known'[q] = known[q] /\ learnt'[q] = learnt[q]
      BY <1>4, <2>2 DEF ServerTypeOK
    <3>2. waiter'[q] = waiter[q]
      BY <1>1, <2>2 DEF ServerTypeOK, TypeOK, WaitTypeOK
    <3> QED BY <1>1, <1>5, <1>6, <2>2, <3>1, <3>2 DEF Names
  <2> QED BY <2>1, <2>2
<1>7. Names'
  BY <1>6 DEF Names
<1>8. StartsUnknown'
  <2> SUFFICES ASSUME NEW g \in Handlers, pc'[g] \in StartPC
               PROVE  known'[ent'[g]] = 0
    BY DEF StartsUnknown
  <2>1. g # h /\ pc[g] = pc'[g] /\ ent'[g] = ent[g]
    BY <1>1 DEF StartPC, ServerTypeOK, TypeOK, CallTypeOK
  <2>2. ent[g] # p /\ ent[g] \in Procs
    BY <1>1, <2>1 DEF Inv, StartOwns, StartPC, ServerTypeOK, TypeOK,
       CallTypeOK
  <2> QED BY <1>4, <2>1, <2>2 DEF StartsUnknown, ServerTypeOK
<1>9. \A q \in Procs : known[q] # 0 =>
        known'[q] = known[q] /\ learnt'[q] = learnt[q]
  BY <1>1, <1>4 DEF ServerTypeOK
<1>10. Asked'
  <2> SUFFICES ASSUME NEW g \in Handlers, pc'[g] \in NamingPC
               PROVE  /\ known'[about[g]] # 0 /\ pid'[g] = known'[about[g]]
                      /\ learnt'[about[g]] = boot => ent'[g] = about[g]
    BY <1>1 DEF Asked
  <2>1. g # h /\ pc[g] = pc'[g] /\ ent'[g] = ent[g] /\ pid'[g] = pid[g]
    BY <1>1 DEF NamingPC, PollPC, ServerTypeOK, TypeOK, CallTypeOK
  <2>2. about[g] \in Procs
    BY <2>1 DEF ServerTypeOK
  <2> QED BY <1>9, <2>1, <2>2 DEF Asked
<1>11. Told'
  BY <1>1, <1>2, <1>9 DEF Told
<1> QED BY <1>7, <1>8, <1>10, <1>11

LEMMA TakeClient ==
    ASSUME ServerTypeOK, Inv, Client, NEW h \in Handlers, NEW s \in Streams,
           Take(h, s)
    PROVE  Client'
<1> USE DEF Client
<1>1. /\ UNCHANGED <<os, copier, entries, nextID, waiter, ent, pid, boot,
                     known, learnt, told, about>>
      /\ ent[h] \in Procs
      /\ \E r \in Streams : buf' = [buf EXCEPT ![ent[h]][r] = 0]
      /\ pc[h] \in PollPC
      /\ \E label \in PollPC : pc' = [pc EXCEPT ![h] = label]
  BY DEF Take, DrainStdout, DrainStderr, Drain, Goto, tableVars, waitVars,
     clientVars, PollPC, Streams, ServerTypeOK, TypeOK, CallTypeOK
<1>2. Registered' = Registered
  BY <1>1 DEF Registered
<1>3. ASSUME NEW q \in Procs, Past(q) PROVE Past(q)'
  BY <1>1, <1>2, <1>3 DEF Past, ServerTypeOK, TypeOK, ChildTypeOK
<1>4. Names' /\ Told'
  BY <1>1, <1>2, <1>3 DEF Names, Told
<1>5. StartsUnknown' /\ Asked'
  BY <1>1 DEF StartsUnknown, Asked, NamingPC, StartPC, PollPC, ServerTypeOK,
     TypeOK, CallTypeOK
<1> QED BY <1>4, <1>5

\* A report with an exit code gives up the very pid its client holds.
LEMMA AnswerPollClient ==
    ASSUME ServerTypeOK, Inv, Client, NEW h \in Handlers,
           NEW delivered \in BOOLEAN, AnswerPoll(h, delivered)
    PROVE  Client'
<1> USE DEF Client
<1> DEFINE p == about[h]
<1>1. /\ pc[h] = "report" /\ p \in Procs
      /\ known[p] # 0 /\ pid[h] = known[p]
      /\ pc' = [pc EXCEPT ![h] = "idle"]
      /\ ent' = [ent EXCEPT ![h] = NoProc]
      /\ pid' = [pid EXCEPT ![h] = 0]
      /\ about' = [about EXCEPT ![h] = NoProc]
      /\ UNCHANGED <<os, copier, waiter, buf, nextID, boot, known, learnt>>
      /\ entries' \in {entries, [i \in DOMAIN entries \ {pid[h]} |-> entries[i]]}
      /\ told' # told => /\ told' = [told EXCEPT ![p] = "exit"]
                         /\ entries' =
                              [i \in DOMAIN entries \ {pid[h]} |-> entries[i]]
  BY DEF AnswerPoll, ReportExit, ReportRunning, RemoveEntry, Restrict, Return,
     Forget, Asked, NamingPC, PollPC, childVars, tableVars, waitVars,
     ServerTypeOK, TypeOK, CallTypeOK
<1>2. Registered' \subseteq Registered
  BY <1>1 DEF Registered, Range
<1>3. ASSUME NEW q \in Procs, Past(q) PROVE Past(q)'
  BY <1>1, <1>2, <1>3 DEF Past, ServerTypeOK, TypeOK, CallTypeOK
<1>4. \A i \in DOMAIN entries' : i \in DOMAIN entries /\ entries'[i] = entries[i]
  BY <1>1
<1>5. Names'
  BY <1>1, <1>3, <1>4 DEF Names
<1>6. StartsUnknown' /\ Asked'
  BY <1>1 DEF StartsUnknown, Asked, NamingPC, StartPC, PollPC, ServerTypeOK,
     TypeOK, CallTypeOK
<1>7. told' # told => p \notin Registered'
  <2> SUFFICES ASSUME told' # told PROVE p \notin Registered'
    OBVIOUS
  <2>1. CASE Past(p)
    BY <1>2, <2>1 DEF Past
  <2>2. CASE \A i \in DOMAIN entries : entries[i] = p <=> i = known[p]
    BY <1>1, <2>2 DEF Registered, Range
  <2> QED BY <1>1, <2>1, <2>2 DEF Names
<1>8. Told'
  BY <1>1, <1>2, <1>7 DEF Told, ServerTypeOK
<1> QED BY <1>5, <1>6, <1>8

LEMMA WaitClient ==
    ASSUME ServerTypeOK, Inv, Client, NEW p \in Procs, Wait(p)
    PROVE  Client'
<1> USE DEF Client
<1>1. /\ UNCHANGED <<os, copier, buf, entries, nextID, pc, ent, pid, boot,
                     known, learnt, told, about>>
      /\ waiter[p] # "none"
      /\ \A q \in Procs : waiter'[q] = "none" <=> waiter[q] = "none"
  BY DEF Wait, WaiterStep, WaitReturns, SetExitCode, CloseDone, childVars,
     tableVars, callVars, clientVars, ghostVars, ServerTypeOK, TypeOK,
     WaitTypeOK
<1>2. Registered' = Registered
  BY <1>1 DEF Registered
<1>3. ASSUME NEW q \in Procs, Past(q) PROVE Past(q)'
  BY <1>1, <1>2, <1>3 DEF Past
<1> QED BY <1>1, <1>2, <1>3 DEF Names, StartsUnknown, Asked, Told

LEMMA CommandClient ==
    ASSUME ServerTypeOK, Inv, Client, NEW p \in Procs,
           Command(p) \/ CommandEndsInside(p)
    PROVE  Client'
<1> USE DEF Client
<1>1. UNCHANGED <<entries, nextID, waiter, pc, ent, pid, boot, known, learnt,
                  told, about>>
  BY DEF Command, CommandEndsInside, tableVars, waitVars, callVars,
     clientVars, ghostVars
<1>2. Registered' = Registered
  BY <1>1 DEF Registered
<1>3. ASSUME NEW q \in Procs, Past(q) PROVE Past(q)'
  <2>1. CASE Command(p)
    <3>1. /\ os'[q] # os[q] => os[q] = "running"
          /\ copier'[q] = copier[q] /\ buf'[q] = buf[q]
      BY <1>3, <2>1, ChildEffect DEF Command, Past, AtRest, ServerTypeOK,
         TypeOK
    <3> QED BY <1>1, <1>2, <1>3, <3>1 DEF Past
  <2>2. CASE CommandEndsInside(p)
    BY <1>1, <1>2, <1>3, <2>2 DEF CommandEndsInside, EndInside, childVars,
       Past
  <2> QED BY <2>1, <2>2
<1> QED BY <1>1, <1>2, <1>3 DEF Names, StartsUnknown, Asked, Told

\* A restart makes every command whose pid is known one of the past.
LEMMA RestartClient ==
    ASSUME ServerTypeOK, Inv, Client, NEW reattached \in BOOLEAN,
           Restart(reattached)
    PROVE  Client'
<1> USE DEF Client
<1>1. /\ boot' = boot + 1 /\ UNCHANGED <<known, learnt, told>>
      /\ entries' = [id \in {} |-> NoProc]
      /\ \A h \in Handlers : pc'[h] = "idle" /\ ent'[h] = NoProc
      /\ \A p \in Procs :
            /\ waiter'[p] = "none"
            /\ os[p] # "none" => os'[p] = "exited"
            /\ \A s \in Streams : buf'[p][s] = 0 /\ copier'[p][s] # "copy"
  BY DEF Restart, Blank, Zero, clientVars, ServerTypeOK, TypeOK, ChildTypeOK
<1>2. Registered' = {}
  BY <1>1 DEF Registered, Range
<1>3. ASSUME NEW p \in Procs, known[p] # 0
      PROVE  learnt[p] < boot + 1 /\ Past(p)'
  <2>1. os[p] # "none"
    BY <1>3, KnownStarted
  <2>2. learnt[p] <= boot /\ learnt[p] \in Nat /\ boot \in Nat
    BY <1>3 DEF Names, ServerTypeOK
  <2>3. Past(p)'
    BY <1>1, <1>2, <2>1 DEF Past
  <2> QED BY <2>2, <2>3
<1>4. Names'
  BY <1>1, <1>3 DEF Names
<1>5. StartsUnknown' /\ Asked' /\ Told'
  BY <1>1, <1>2 DEF StartsUnknown, StartPC, Asked, NamingPC, PollPC, Told
<1> QED BY <1>4, <1>5

\* What the container is left with was cut off from a client that ended by a
\* signal, and stays as it is until it ends.
LEMMA LeftKept ==
    ASSUME ServerTypeOK, Inv, Left, ServerNext
    PROVE  Left'
<1>1. ASSUME NEW p \in Procs, Command(p) PROVE Left'
  <2>1. \A q \in Procs :
          /\ os'[q] # os[q] => os[q] = "running" /\ os'[q] = "exited"
          /\ os[q] = "exited" => status'[q] = status[q]
    BY <1>1, ChildEffect DEF Command, ServerTypeOK, TypeOK
  <2>2. inside \subseteq Procs
    BY DEF ServerTypeOK, SandboxTypeOK
  <2> QED BY <1>1, <2>1, <2>2 DEF Command, LeaveBehind, CutOff, Left
<1>2. ASSUME NEW p \in Procs, CommandEndsInside(p) PROVE Left'
  BY <1>2 DEF CommandEndsInside, EndInside, childVars, Left
<1>3. ASSUME NEW reattached \in BOOLEAN, Restart(reattached) PROVE Left'
  BY <1>3 DEF Restart, Left, ServerTypeOK, SandboxTypeOK, TypeOK, ChildTypeOK
<1>4. ASSUME NEW h \in Handlers, NEW p \in Procs,
             AskStart(h, p) \/ Ask(h, p) \/ AskGone(h, p)
      PROVE  Left'
  <2>1. \A q \in Procs : os[q] = "exited" => os'[q] = "exited"
    BY <1>4 DEF AskStart, Start, Fork, Ask, SendGet, PollGet, Get, AskGone,
       vars, childVars, ServerTypeOK, TypeOK, ChildTypeOK
  <2>2. UNCHANGED <<status, runtime, inside>> /\ inside \subseteq Procs
    BY <1>4 DEF AskStart, Start, Fork, Ask, SendGet, PollGet, Get, AskGone,
       vars, childVars, sandboxVars, ServerTypeOK, SandboxTypeOK
  <2> QED BY <2>1, <2>2 DEF Left
<1>5. CASE UNCHANGED <<os, status, sandboxVars>>
  BY <1>5 DEF sandboxVars, Left
<1> QED
  BY <1>1, <1>2, <1>3, <1>4, <1>5 DEF ServerNext, Work, Add, AddFails, Kill,
     SendOk, SendFails, PollCheck, Take, DrainStdout, DrainStderr, Drain,
     AnswerStart, Go, AnswerPoll, ReportExit, ReportRunning, Wait, WaiterStep,
     WaitReturns, SetExitCode, CloseDone, childVars

(* The ledger *)

LEMMA AccountTypes ==
    ASSUME ServerTypeOK, ServerTypeOK'
    PROVE  \A p \in Procs, s \in Streams :
               /\ Due(p, s) \in Int /\ Due(p, s)' \in Int
               /\ buf[p][s] \in Int /\ buf'[p][s] \in Int
<1>1. (ServerTypeOK =>
         \A p \in Procs, s \in Streams :
            /\ ledger[p][s] \in Int /\ missing[p][s] \in Int
            /\ buf[p][s] \in Int /\ InAnswers(p, s) \in Int
            /\ Due(p, s) \in Int)'
  BY AccountType, PTL
<1> QED BY <1>1, AccountType

\* The books of a stream stay balanced when at most one handler's share of it
\* changes, and by what is kept and did not stay in the buffer.
LEMMA OneShareMoves ==
    ASSUME ServerTypeOK, ServerTypeOK', NEW p \in Procs, NEW s \in Streams,
           NEW h \in Handlers, Books(p, s),
           \A g \in Handlers \ {h} : Share(p, s)'[g] = Share(p, s)[g],
           Due(p, s)' - Due(p, s) =
               (buf'[p][s] - buf[p][s]) + (Share(p, s)'[h] - Share(p, s)[h])
    PROVE  Books(p, s)'
<1>1. Share(p, s) \in [Handlers -> Int] /\ Share(p, s)' \in [Handlers -> Int]
  BY ShareType DEF Share, ServerTypeOK
<1>2. /\ Due(p, s) \in Int /\ Due(p, s)' \in Int
      /\ buf[p][s] \in Int /\ buf'[p][s] \in Int
  BY AccountTypes
<1>3. ASSUME NEW f \in [Handlers -> Int], NEW g \in [Handlers -> Int],
             \A x \in Handlers \ {h} : g[x] = f[x],
             Due(p, s) = buf[p][s] + SumFunctionOnSet(f, Handlers),
             Due(p, s)' - Due(p, s) =
                 (buf'[p][s] - buf[p][s]) + (g[h] - f[h])
      PROVE  Due(p, s)' = buf'[p][s] + SumFunctionOnSet(g, Handlers)
  <2>1. SumFunctionOnSet(f, Handlers) \in Int
    BY SumType
  <2>2. SumFunctionOnSet(g, Handlers)
           = SumFunctionOnSet(f, Handlers) - f[h] + g[h]
    BY <1>3, SumChanges
  <2>3. f[h] \in Int /\ g[h] \in Int
    OBVIOUS
  <2> QED BY <1>2, <1>3, <2>1, <2>2, <2>3
<1>4. Due(p, s) = buf[p][s] + SumFunctionOnSet(Share(p, s), Handlers)
  BY DEF Books
<1>5. Due(p, s)' = buf'[p][s] + SumFunctionOnSet(Share(p, s)', Handlers)
  <2>1. \A x \in Handlers \ {h} : Share(p, s)'[x] = Share(p, s)[x]
    OBVIOUS
  <2> QED BY <1>1, <1>3, <1>4, <2>1
<1> QED BY <1>5 DEF Books

LEMMA NoShareMoves ==
    ASSUME ServerTypeOK, ServerTypeOK', NEW p \in Procs, NEW s \in Streams,
           Books(p, s),
           \A g \in Handlers : Share(p, s)'[g] = Share(p, s)[g],
           Due(p, s)' - Due(p, s) = buf'[p][s] - buf[p][s]
    PROVE  Books(p, s)'
<1>1. /\ Due(p, s) \in Int /\ Due(p, s)' \in Int
      /\ buf[p][s] \in Int /\ buf'[p][s] \in Int
  BY AccountTypes
<1>2. Share(p, s)' = Share(p, s)
  BY DEF Share
<1>3. ASSUME NEW t, Due(p, s) = buf[p][s] + t, t \in Int
      PROVE  Due(p, s)' = buf'[p][s] + t
  BY <1>1, <1>3
<1>4. SumFunctionOnSet(Share(p, s), Handlers) \in Int
  <2>1. Share(p, s) \in [Handlers -> Int]
    BY ShareType
  <2> QED BY <2>1, SumType
<1> QED BY <1>2, <1>3, <1>4 DEF Books

\* The steps of one handler.  A request carries nothing when it begins; a
\* drain moves a buffer to what its poll carries, an answer moves that to the
\* client.
LEMMA HandlerKeepsBooks ==
    ASSUME ServerTypeOK, ServerTypeOK', Carried, NEW h \in Handlers,
           \/ \E p \in Procs : AskStart(h, p) \/ Ask(h, p) \/ AskGone(h, p)
           \/ Work(h)
           \/ \E s \in Streams : Take(h, s)
           \/ \E delivered \in BOOLEAN :
                  AnswerStart(h, delivered) \/ AnswerPoll(h, delivered),
           NEW p \in Procs, NEW s \in Streams, Books(p, s)
    PROVE  Books(p, s)'
<1> USE DEF ServerTypeOK, TypeOK, CallTypeOK, ChildTypeOK
<1>1. ASSUME \A g \in Handlers \ {h} : UNCHANGED <<ent[g], carry[g]>>,
             \/ UNCHANGED <<ent[h], carry[h]>>
             \/ carry[h][s] = 0 /\ carry'[h][s] = 0,
             UNCHANGED <<buf, ledger, missing>>
      PROVE  Books(p, s)'
  <2>1. \A g \in Handlers : Share(p, s)'[g] = Share(p, s)[g]
    BY <1>1 DEF Share
  <2>2. Due(p, s) \in Int /\ buf[p][s] \in Int
    BY AccountType
  <2>3. Due(p, s)' = Due(p, s) /\ buf' = buf
    BY <1>1 DEF Due
  <2>4. Due(p, s)' - Due(p, s) = buf'[p][s] - buf[p][s]
    BY <2>2, <2>3
  <2> QED BY <2>1, <2>4, NoShareMoves
<1>2. CASE \E q \in Procs : AskStart(h, q) \/ Ask(h, q) \/ AskGone(h, q)
  <2>1. /\ \A g \in Handlers \ {h} : ent'[g] = ent[g]
        /\ UNCHANGED <<carry, buf, ledger, missing>> /\ pc[h] = "idle"
    BY <1>2 DEF AskStart, Start, Fork, Ask, SendGet, PollGet, Get, AskGone,
       ghostVars, vars, childVars, callVars
  <2>2. carry[h][s] = 0
    BY <2>1 DEF Carried
  <2> QED BY <1>1, <2>1, <2>2
<1>3. CASE Work(h) \/ \E delivered \in BOOLEAN : AnswerStart(h, delivered)
  <2>1. /\ \A g \in Handlers \ {h} : ent'[g] = ent[g]
        /\ UNCHANGED <<carry, buf, ledger, missing>>
        /\ pc[h] \notin {"stderr", "report"}
    BY <1>3 DEF Work, AnswerStart, Add, AddFails, Kill, SendOk, SendFails,
       PollCheck, Go, Goto, Return, ghostVars, childVars
  <2>2. carry[h][s] = 0
    BY <2>1 DEF Carried
  <2> QED BY <1>1, <2>1, <2>2
<1>4. ASSUME NEW r \in Streams, Take(h, r) PROVE Books(p, s)'
  <2>1. /\ UNCHANGED <<ent, ledger, missing>> /\ ent[h] \in Procs
        /\ buf' = [buf EXCEPT ![ent[h]][r] = 0]
        /\ carry' = [carry EXCEPT ![h][r] = buf[ent[h]][r]]
        /\ pc[h] = IF r = "stdout" THEN "stdout" ELSE "stderr"
    BY <1>4 DEF Take, DrainStdout, DrainStderr, Drain, Goto, Streams
  <2>2. carry[h][r] = 0
    BY <2>1 DEF Carried
  <2>a. Due(p, s)' = Due(p, s) /\ Due(p, s) \in Int /\ buf[p][s] \in Int
    BY <2>1, AccountType DEF Due
  <2>3. CASE ent[h] = p /\ r = s
    <3>1. /\ Share(p, s)[h] = 0 /\ Share(p, s)'[h] = buf[p][s]
          /\ buf'[p][s] = 0
          /\ \A g \in Handlers \ {h} : Share(p, s)'[g] = Share(p, s)[g]
      BY <2>1, <2>2, <2>3 DEF Share
    <3>3. Due(p, s)' - Due(p, s) =
            (buf'[p][s] - buf[p][s]) + (Share(p, s)'[h] - Share(p, s)[h])
      BY <2>a, <3>1
    <3> QED BY <3>1, <3>3, OneShareMoves
  <2>4. CASE ent[h] # p \/ r # s
    <3>1. /\ \A g \in Handlers : Share(p, s)'[g] = Share(p, s)[g]
          /\ buf'[p][s] = buf[p][s]
      BY <2>1, <2>4 DEF Share
    <3>2. Due(p, s)' - Due(p, s) = buf'[p][s] - buf[p][s]
      BY <2>a, <3>1
    <3> QED BY <3>1, <3>2, NoShareMoves
  <2> QED BY <2>3, <2>4
<1>5. ASSUME NEW delivered \in BOOLEAN, AnswerPoll(h, delivered)
      PROVE  Books(p, s)'
  <2>1. /\ \A g \in Handlers \ {h} : UNCHANGED <<ent[g], carry[g]>>
        /\ ent[h] \in Procs /\ ent'[h] = NoProc /\ carry'[h][s] = 0
        /\ \/ /\ ledger' = [ledger EXCEPT ![ent[h]] =
                               [r \in Streams |-> @[r] - carry[h][r]]]
              /\ missing' = missing
           \/ /\ missing' = [missing EXCEPT ![ent[h]] =
                                [r \in Streams |-> @[r] + carry[h][r]]]
              /\ ledger' = ledger
        /\ buf' = buf
    BY <1>5 DEF AnswerPoll, ReportExit, ReportRunning, Return, Zero, childVars
  <2>2. \A g \in Handlers \ {h} : Share(p, s)'[g] = Share(p, s)[g]
    BY <2>1 DEF Share
  <2>3. Share(p, s)'[h] = 0
    BY <2>1 DEF Share
  <2>5. /\ ledger[p][s] \in Int /\ missing[p][s] \in Int
        /\ Share(p, s)[h] \in Int /\ buf[p][s] \in Int
    BY ShareType, AccountType
  <2>4. \/ /\ ledger'[p][s] = ledger[p][s] - Share(p, s)[h]
           /\ missing'[p][s] = missing[p][s]
        \/ /\ missing'[p][s] = missing[p][s] + Share(p, s)[h]
           /\ ledger'[p][s] = ledger[p][s]
    BY <2>1, <2>5 DEF Share
  <2>6. Due(p, s)' - Due(p, s) =
          (buf'[p][s] - buf[p][s]) + (Share(p, s)'[h] - Share(p, s)[h])
    BY <2>1, <2>3, <2>4, <2>5 DEF Due
  <2> QED BY <2>2, <2>6, OneShareMoves
<1> QED BY <1>2, <1>3, <1>4, <1>5

LEMMA BooksKept ==
    ASSUME ServerTypeOK, ServerTypeOK', Carried, LedgerBalances, ServerNext
    PROVE  LedgerBalances'
<1>0. (ServerTypeOK =>
        (LedgerBalances <=> \A p \in Procs, s \in Streams : Books(p, s)))'
  BY BooksBalance, PTL
<1> SUFFICES ASSUME NEW p \in Procs, NEW s \in Streams PROVE Books(p, s)'
  BY <1>0
<1>1. Books(p, s)
  BY BooksBalance
<1>2. ASSUME NEW q \in Procs, Wait(q) \/ Command(q) \/ CommandEndsInside(q)
      PROVE  Books(p, s)'
  <2>1. UNCHANGED <<ent, carry>>
    BY <1>2 DEF Wait, WaiterStep, WaitReturns, SetExitCode, CloseDone,
       Command, CommandEndsInside, callVars, ghostVars
  <2>2. \A g \in Handlers : Share(p, s)'[g] = Share(p, s)[g]
    BY <2>1 DEF Share
  <2>3. /\ missing' = missing
        /\ \/ UNCHANGED <<buf, ledger>>
           \/ ledger'[p][s] = ledger[p][s] + (buf'[p][s] - buf[p][s])
    BY <1>2 DEF Wait, WaiterStep, WaitReturns, SetExitCode, CloseDone,
       Command, CommandEndsInside, EndInside, childVars, ghostVars
  <2>4. /\ ledger[p][s] \in Int /\ missing[p][s] \in Int
        /\ buf[p][s] \in Int /\ buf'[p][s] \in Int
    BY AccountType, AccountTypes
  <2>5. Due(p, s)' - Due(p, s) = buf'[p][s] - buf[p][s]
    BY <2>3, <2>4 DEF Due
  <2> QED BY <1>1, <2>2, <2>5, NoShareMoves
<1>3. ASSUME NEW reattached \in BOOLEAN, Restart(reattached)
      PROVE  Books(p, s)'
  <2>0. /\ ledger' = ledger
        /\ missing'[p][s] = missing[p][s] + (buf[p][s] + InAnswers(p, s))
        /\ buf'[p][s] = 0
        /\ \A h \in Handlers : ent'[h] = NoProc
    BY <1>3 DEF Restart, Blank, Zero
  <2>1. Due(p, s)' = 0
    <3>1. missing'[p][s] = ledger[p][s]
      BY <2>0 DEF LedgerBalances
    <3>2. ledger[p][s] \in Int
      BY AccountType
    <3> QED BY <2>0, <3>1, <3>2 DEF Due
  <2>2. \A h \in Handlers \ {} : Share(p, s)'[h] = 0
    BY <2>0 DEF Share
  <2> DEFINE f == Share(p, s)'
  <2>3. f \in [Handlers -> Int] /\ \A h \in Handlers \ {} : f[h] = 0
    BY <2>2 DEF Share, ServerTypeOK
  <2>4. SumFunctionOnSet(f, Handlers) = 0
    <3> HIDE DEF f
    <3> QED BY <2>3, SumDropsZeros, SumOfNone
  <2> QED BY <2>0, <2>1, <2>4 DEF Books
<1> QED BY <1>1, <1>2, <1>3, HandlerKeepsBooks DEF ServerNext

LEMMA CarriedKept ==
    ASSUME ServerTypeOK, Carried, ServerNext
    PROVE  Carried'
<1> USE DEF ServerTypeOK, TypeOK, CallTypeOK
<1>1. ASSUME NEW h \in Handlers, NEW s \in Streams, Take(h, s)
      PROVE  Carried'
  BY <1>1 DEF Take, DrainStdout, DrainStderr, Goto, Carried, Streams
<1>2. ASSUME NEW h \in Handlers, NEW delivered \in BOOLEAN,
             AnswerPoll(h, delivered)
      PROVE  Carried'
  BY <1>2 DEF AnswerPoll, ReportExit, ReportRunning, Return, Zero, Carried
<1>3. ASSUME NEW h \in Handlers,
             \A g \in Handlers \ {h} : pc'[g] = pc[g],
             pc[h] \notin {"stderr", "report"}, carry' = carry
      PROVE  Carried'
  BY <1>3 DEF Carried
<1>4. ASSUME NEW h \in Handlers,
             \/ \E p \in Procs : AskStart(h, p) \/ Ask(h, p)
             \/ Work(h)
             \/ \E delivered \in BOOLEAN : AnswerStart(h, delivered)
      PROVE  Carried'
  BY <1>3, <1>4 DEF AskStart, Start, Ask, SendGet, PollGet, Get, Work, Add,
     AddFails, Kill, SendOk, SendFails, PollCheck, AnswerStart, Go, Goto,
     Return, ghostVars
<1>5. CASE UNCHANGED <<pc, carry>>
  BY <1>5 DEF Carried
<1>6. ASSUME NEW reattached \in BOOLEAN, Restart(reattached) PROVE Carried'
  BY <1>6 DEF Restart, Blank, Zero, Carried
<1> QED
  BY <1>1, <1>2, <1>4, <1>5, <1>6 DEF ServerNext, AskGone, Wait, WaiterStep,
     WaitReturns, SetExitCode, CloseDone, Command, CommandEndsInside,
     callVars, ghostVars, vars

-----------------------------------------------------------------------------
(* The theorems about the server *)

LEMMA ServerInitInv == ServerInit => ServerInv /\ TableBounded
<1> SUFFICES ASSUME ServerInit PROVE ServerInv /\ TableBounded
  OBVIOUS
<1>1. Inv /\ TableBounded
  BY InitInv, InitBounded DEF ServerInit
<1>2. Names /\ StartsUnknown /\ Asked /\ Told /\ Left
  BY DEF ServerInit, Init, SandboxInit, Names, StartsUnknown, StartPC, Asked,
     NamingPC, PollPC, Told, Left
<1>3. Carried
  BY DEF ServerInit, Zero, Carried
<1>4. LedgerBalances
  <2>1. ServerTypeOK
    BY ServerInitType
  <2> SUFFICES ASSUME NEW p \in Procs, NEW s \in Streams PROVE Books(p, s)
    BY <2>1, BooksBalance
  <2>2. Due(p, s) = 0 /\ buf[p][s] = 0
    BY DEF ServerInit, Init, ChildInit, Zero, Due
  <2> DEFINE f == Share(p, s)
  <2>3. f \in [Handlers -> Int] /\ \A h \in Handlers \ {} : f[h] = 0
    BY DEF ServerInit, Init, Share
  <2>4. SumFunctionOnSet(f, Handlers) = 0
    <3> HIDE DEF f
    <3> QED BY <2>3, SumDropsZeros, SumOfNone
  <2> QED BY <2>2, <2>4 DEF Books
<1> QED BY <1>1, <1>2, <1>3, <1>4 DEF ServerInv

LEMMA ServerNextInv ==
    ASSUME ServerTypeOK, ServerInv, TableBounded, [ServerNext]_serverVars
    PROVE  ServerTypeOK' /\ ServerInv' /\ TableBounded'
<1>1. Inv /\ Client /\ Left
  BY DEF ServerInv, Client
<1>2. ServerTypeOK' /\ Inv' /\ TableBounded'
  BY <1>1, ServerNextType, TableKept
<1>3. CASE ServerNext
  <2>1. Client'
    BY <1>1, <1>3, AskStartClient, AskClient, AskGoneClient, AddClient,
       WorkClient, TakeClient, AnswerStartClient, AnswerPollClient,
       WaitClient, CommandClient, RestartClient DEF ServerNext
  <2>2. Carried' /\ LedgerBalances'
    BY <1>2, <1>3, CarriedKept, BooksKept DEF ServerInv
  <2> QED BY <1>1, <1>2, <1>3, <2>1, <2>2, LeftKept DEF ServerInv, Client
<1>4. CASE UNCHANGED serverVars
  <2>1. Client' /\ Left'
    BY <1>1, <1>4 DEF Client, Names, Past, Registered, StartsUnknown, Asked,
       Told, Left, serverVars, vars, childVars, tableVars, waitVars,
       callVars, sandboxVars, clientVars, ghostVars
  <2>2. Carried' /\ LedgerBalances'
    BY <1>4 DEF ServerInv, Carried, LedgerBalances, InAnswers, serverVars,
       vars, childVars, callVars, ghostVars
  <2> QED BY <1>2, <2>1, <2>2 DEF ServerInv, Client
<1> QED BY <1>3, <1>4

\* Types, the invariant of the table and the one of the client hold for good,
\* restarts or not.
THEOREM ServerSafe == ServerSpec => [](ServerTypeOK /\ ServerInv /\ TableBounded)
BY ServerInitType, ServerInitInv, ServerNextInv, PTL DEF ServerSpec

\* Every variable of the server, its client and the sandbox keeps its type.
THEOREM ServerTypeCorrect == ServerSpec => []ServerTypeOK
BY ServerSafe, PTL

\* The inductive invariant of server and client.
THEOREM ServerInvHolds == ServerSpec => []ServerInv
BY ServerSafe, PTL

\* Within a boot a pid leads to the command it was given for, or to none
\* (main.go:82, 90).
THEOREM RequestsReachTheirCommand == ServerSpec => []ReachesItsCommand
<1>1. ServerInv => ReachesItsCommand
  BY DEF ServerInv, Asked, ReachesItsCommand
<1> QED BY <1>1, ServerSafe, PTL

\* What a client is told of the end of a command is true of the program that
\* carries it, and nothing is held back of its output, whatever answers the
\* client has missed and whatever restarts (main.go:405-431).
THEOREM ClientIsToldTheTruth == ServerSpec => []ToldMeansOver
<1>1. ServerTypeOK /\ ServerInv => ToldMeansOver
  <2> SUFFICES ASSUME ServerTypeOK, ServerInv, NEW p \in Procs,
                      told[p] # "nothing"
               PROVE  /\ os[p] = "exited"
                      /\ p \in inside =>
                             runtime = "docker" /\ status[p] = Signaled
                      /\ \A s \in Streams :
                             ledger[p][s] = missing[p][s] + InAnswers(p, s)
    BY DEF ToldMeansOver
  <2>1. known[p] # 0 /\ p \notin Registered
    BY DEF ServerInv, Told
  <2>2. os[p] = "exited" /\ \A s \in Streams : buf[p][s] = 0
    <3>1. CASE Past(p)
      BY <3>1 DEF Past
    <3>2. CASE waiter[p] # "none"
      BY <2>1, <3>2 DEF ServerInv, Inv, RemovedMeansDelivered, WaiterProgress
    <3> QED BY <2>1, <3>1, <3>2 DEF ServerInv, Names
  <2>3. p \in inside => runtime = "docker" /\ status[p] = Signaled
    BY DEF ServerInv, Left
  <2>4. ASSUME NEW s \in Streams
        PROVE  ledger[p][s] = missing[p][s] + InAnswers(p, s)
    <3>1. ledger[p][s] = missing[p][s] + (buf[p][s] + InAnswers(p, s))
      BY DEF ServerInv, LedgerBalances
    <3>2. missing[p][s] \in Int /\ InAnswers(p, s) \in Int
      BY AccountType
    <3> QED BY <2>2, <3>1, <3>2
  <2> QED BY <2>2, <2>3, <2>4
<1> QED BY <1>1, ServerSafe, PTL

\* What was kept of the output and never reached the client is in a buffer, in
\* the hands of a poll, or gone with a lost answer or an ended server, with
\* any number of polls of one pid at the same time (main.go:417-418, 479-485).
THEOREM OutputIsAccountedFor == ServerSpec => []LedgerBalances
<1>1. ServerInv => LedgerBalances
  BY DEF ServerInv
<1> QED BY <1>1, ServerSafe, PTL

\* Only the docker client loses commands (main.go:225-226, 238-245).
THEOREM OnlyDockerLosesCommands == ServerSpec => []OnlyDockerLoses
<1>1. ServerTypeOK /\ ServerInv => OnlyDockerLoses
  <2> SUFFICES ASSUME ServerTypeOK, ServerInv, NEW p \in OutOfReach
               PROVE  /\ runtime = "docker" /\ os[p] = "exited"
                      /\ status[p] = Signaled
    BY DEF OnlyDockerLoses
  <2>1. p \in inside
    BY DEF OutOfReach, Live, InFlight, ServerInv, Inv, NoOrphan
  <2> QED BY <2>1 DEF ServerInv, Left
<1> QED BY <1>1, ServerSafe, PTL

\* With bwrap the process limit bounds the commands that run, restarts or not
\* (main.go:79, 225-226, 337-346).
THEOREM BwrapLimitHolds == ServerSpec => []RunningBounded
<1>1. ServerTypeOK /\ ServerInv /\ TableBounded => RunningBounded
  <2> SUFFICES ASSUME ServerTypeOK, ServerInv, TableBounded,
                      runtime = "bwrap"
               PROVE  Cardinality(Live \cup inside)
                        <= MaxProcessCount + Cardinality(InFlight)
    BY DEF RunningBounded
  <2>1. inside = {}
    BY DEF ServerInv, Left, ServerTypeOK, SandboxTypeOK
  <2>2. Live \cup inside = Live
    BY <2>1
  <2> QED BY <2>2, LimitFromInv DEF ServerTypeOK, ServerInv, LiveBounded
<1> QED BY <1>1, ServerSafe, PTL

\* What ProcessTable promises for one life of the server holds over all of
\* them (main.go:72-98, 343-354, 405-431).
THEOREM TableHoldsAcrossRestarts ==
    ServerSpec => [](/\ RemovedMeansDelivered /\ ReportedCodeIsReal
                     /\ PidNamesOneEntry /\ NoOrphan)
<1>1. ServerTypeOK /\ ServerInv =>
          /\ RemovedMeansDelivered /\ ReportedCodeIsReal
          /\ PidNamesOneEntry /\ NoOrphan
  BY DEF ServerTypeOK, ServerInv, Inv, ReportedCodeIsReal, PollProgress,
     WaiterProgress, TypeOK, CallTypeOK
<1> QED BY <1>1, ServerSafe, PTL
=============================================================================
