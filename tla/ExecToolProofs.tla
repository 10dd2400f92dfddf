--------------------------- MODULE ExecToolProofs ---------------------------
(***************************************************************************)
(* Proofs about the exec tool: ExecTool keeps its type, its inductive      *)
(* invariant and with it the safety properties that the run of MCExecTool  *)
(* checks, for any number of calls and any timeouts, limits and sizes.     *)
(***************************************************************************)
EXTENDS ExecToolInv, TLAPS

USE ChildAssumption, TimeAssumption

-----------------------------------------------------------------------------
(* The commands and their limitedBuffers, as in BackgroundProofs: these are *)
(* the children of another tool.                                           *)

\* A Write never stores more than there is room for, and never reports more
\* than it was given (main.go:466-477).
LEMMA WriteFits ==
    ASSUME NEW b \in 0..Limit, NEW n \in Nat
    PROVE  /\ b + Stored(b, n) \in 0..Limit
           /\ Returned(b, n) \in 0..n
BY DEF Stored, Returned, Lesser

\* The steps of a child and of its copying goroutines.
LEMMA ChildType ==
    ASSUME ChildTypeOK, NEW p \in Procs, ChildStep(p)
    PROVE  ChildTypeOK'
<1>1. ASSUME NEW s \in Streams, Produce(p, s) PROVE ChildTypeOK'
  BY <1>1 DEF Produce, ChildTypeOK
<1>2. ASSUME NEW s \in Streams, BrokenPipe(p, s) PROVE ChildTypeOK'
  BY <1>2 DEF BrokenPipe, ChildTypeOK
<1>3. ASSUME NEW c \in ExitCodes, Exit(p, c) PROVE ChildTypeOK'
  BY <1>3 DEF Exit, ChildTypeOK
<1>4. ASSUME DieKilled(p) PROVE ChildTypeOK'
  BY <1>4 DEF DieKilled, ChildTypeOK
<1>5. ASSUME NEW s \in Streams, Copy(p, s) PROVE ChildTypeOK'
  <2> DEFINE n == Lesser(pipe[p][s], ReadSize)
  <2>1. n \in Nat /\ n <= pipe[p][s] /\ pipe[p][s] \in 0..PipeCap
    BY <1>5 DEF ChildTypeOK, Lesser
  <2>2. buf[p][s] + Stored(buf[p][s], n) \in 0..Limit
    <3>1. buf[p][s] \in 0..Limit
      BY DEF ChildTypeOK
    <3> HIDE DEF n
    <3> QED BY <2>1, <3>1, WriteFits
  <2>3. /\ buf' = [buf EXCEPT ![p][s] = @ + Stored(@, n)]
        /\ \E short \in BOOLEAN :
              /\ pipe' = [pipe EXCEPT ![p][s] = IF short THEN 0 ELSE @ - n]
              /\ copier' = [copier EXCEPT ![p][s] =
                                IF short THEN "shut" ELSE @]
        /\ UNCHANGED <<os, sig, status>>
    BY <1>5 DEF Copy
  <2> HIDE DEF n
  <2>4. buf' \in [Procs -> [Streams -> 0..Limit]]
    BY <2>2, <2>3 DEF ChildTypeOK
  <2>5. pipe' \in [Procs -> [Streams -> 0..PipeCap]]
    BY <2>1, <2>3 DEF ChildTypeOK
  <2>6. copier' \in [Procs -> [Streams -> {"off", "copy", "eof", "shut"}]]
    BY <2>3 DEF ChildTypeOK
  <2> QED BY <2>3, <2>4, <2>5, <2>6 DEF ChildTypeOK
<1>6. ASSUME NEW s \in Streams, CopyEOF(p, s) PROVE ChildTypeOK'
  BY <1>6 DEF CopyEOF, ChildTypeOK
<1> QED BY <1>1, <1>2, <1>3, <1>4, <1>5, <1>6 DEF ChildStep

\* No copying goroutine is at work on the output of p.
AtRest(p) == \A s \in Streams : copier[p][s] # "copy"

\* What a child and its copying goroutines can do to each other's state: an
\* exit is final, and nothing enters a buffer that no goroutine works on.
LEMMA ChildEffect ==
    ASSUME ChildTypeOK, NEW p \in Procs, ChildStep(p), NEW q \in Procs
    PROVE  /\ os'[q] # os[q] => os[q] = "running" /\ os'[q] = "exited"
           /\ sig'[q] = sig[q]
           /\ os[q] = "exited" => status'[q] = status[q]
           /\ AtRest(q) => copier'[q] = copier[q] /\ buf'[q] = buf[q]
<1> USE DEF ChildTypeOK, AtRest
<1>1. CASE \E s \in Streams : Produce(p, s)
  BY <1>1 DEF Produce
<1>2. CASE \/ \E s \in Streams : BrokenPipe(p, s)
           \/ DieKilled(p)
           \/ \E c \in ExitCodes : Exit(p, c)
  BY <1>2 DEF BrokenPipe, DieKilled, Exit
<1>3. ASSUME NEW s \in Streams, Copy(p, s) \/ CopyEOF(p, s)
      PROVE  /\ UNCHANGED <<os, sig, status>>
             /\ AtRest(q) => copier'[q] = copier[q] /\ buf'[q] = buf[q]
  <2>1. /\ copier[p][s] = "copy"
        /\ \E b : buf' = [buf EXCEPT ![p][s] = b]
        /\ \E k : copier' = [copier EXCEPT ![p][s] = k]
        /\ UNCHANGED <<os, sig, status>>
    <3>1. buf = [buf EXCEPT ![p][s] = buf[p][s]]
      <4>1. buf[p] = [buf[p] EXCEPT ![s] = buf[p][s]]
        OBVIOUS
      <4> QED BY <4>1
    <3> QED BY <1>3, <3>1 DEF Copy, CopyEOF
  <2>2. AtRest(q) => q # p
    BY <2>1
  <2>3. q # p => buf'[q] = buf[q] /\ copier'[q] = copier[q]
    BY <2>1
  <2> QED BY <2>1, <2>2, <2>3
<1> QED BY <1>1, <1>2, <1>3 DEF ChildStep
-----------------------------------------------------------------------------
(* The timeout *)

\* The overflow of a product never makes it larger.
LEMMA WrappedBelow ==
    ASSUME NEW x \in Nat
    PROVE  Wrapped(x) \in Int /\ Wrapped(x) <= x
<1> DEFINE h == Word \div 2
<1>1. h \in Nat
  OBVIOUS
<1>2. \A y \in Nat : y % Word \in Nat /\ y % Word <= y
  OBVIOUS
<1>3. (x + h) % Word \in Nat /\ (x + h) % Word <= x + h
  BY <1>1, <1>2
<1> QED BY <1>1, <1>3 DEF Wrapped

\* A call never gets more than its client means, nor more than maxTimeout
\* (main.go:270-276).
LEMMA TimeoutBelow ==
    ASSUME NEW ms \in TimeoutArgs \cup {0}
    PROVE  /\ Timeout(ms) \in Int /\ Meant(ms) \in Nat
           /\ Timeout(ms) <= Meant(ms)
           /\ Meant(ms) <= MaxTimeout
<1>1. CASE ms > 0
  <2>1. ms * Millisecond \in Nat
    BY <1>1
  <2>2. /\ Wrapped(ms * Millisecond) \in Int
        /\ Wrapped(ms * Millisecond) <= ms * Millisecond
    BY <2>1, WrappedBelow
  <2> QED BY <1>1, <2>1, <2>2 DEF Timeout, Meant, Lesser
<1>2. CASE ~(ms > 0)
  BY <1>2 DEF Timeout, Meant
<1> QED BY <1>1, <1>2

-----------------------------------------------------------------------------
(* Types *)

LEMMA InitType == Init => TypeOK
BY DEF Init, TypeOK, ChildInit, ChildTypeOK, SandboxInit, SandboxTypeOK,
       CallTypeOK, NoAnswer, Kinds, Codes

\* A command's step is one that ChildProcess allows.
LEMMA CommandIsChild ==
    ASSUME NEW p \in Procs, CommandStep(p)
    PROVE  ChildStep(p)
BY DEF CommandStep, Write, ChildStep

LEMMA NextType == TypeOK /\ [Next]_vars => TypeOK'
<1> SUFFICES ASSUME TypeOK, [Next]_vars PROVE TypeOK'
  OBVIOUS
<1> USE DEF TypeOK
<1>0. /\ UNCHANGED childVars => ChildTypeOK'
      /\ UNCHANGED sandboxVars => SandboxTypeOK'
      /\ UNCHANGED <<callVars, now, written>> => CallTypeOK'
  BY DEF ChildTypeOK, SandboxTypeOK, CallTypeOK, childVars, sandboxVars,
         callVars
<1>1. ASSUME NEW p \in Procs, NEW ms \in TimeoutArgs, Arrive(p, ms)
      PROVE  TypeOK'
  <2>1. CallTypeOK'
    BY <1>1 DEF Arrive, CallTypeOK
  <2> QED BY <1>0, <1>1, <2>1 DEF Arrive
<1>2. ASSUME NEW p \in Procs, Begin(p) PROVE TypeOK'
  <2> DEFINE timeout == Timeout(asked[p])
  <2>1. timeout \in Int
    BY TimeoutBelow DEF CallTypeOK
  <2>2. /\ pc' = [pc EXCEPT ![p] = "begun"]
        /\ began' = [began EXCEPT ![p] = now]
        /\ deadline' = [deadline EXCEPT ![p] = now + timeout]
        /\ ctx' \in {ctx, [ctx EXCEPT ![p] = "expired"]}
        /\ UNCHANGED <<childVars, sandboxVars, now, written, asked, since,
                       cut, reaped, answer, late>>
    BY <1>2 DEF Begin, CallTypeOK
  <2> HIDE DEF timeout
  <2>3. CallTypeOK'
    BY <2>1, <2>2 DEF CallTypeOK
  <2> QED BY <1>0, <2>2, <2>3
<1>3. ASSUME NEW p \in Procs, NEW how \in {"expired", "canceled"},
             ContextEnds(p, how)
      PROVE  TypeOK'
  <2>1. CallTypeOK'
    BY <1>3 DEF ContextEnds, CallTypeOK
  <2> QED BY <1>0, <1>3, <2>1 DEF ContextEnds
<1>4. ASSUME NEW p \in Procs, Run(p) PROVE TypeOK'
  <2>1. CallTypeOK'
    BY <1>4 DEF Run, CallTypeOK
  <2>2. ChildTypeOK'
    BY <1>4 DEF Run, Fork, ChildTypeOK
  <2> QED BY <1>0, <1>4, <2>1, <2>2 DEF Run
<1>5. ASSUME NEW p \in Procs, Cancel(p) PROVE TypeOK'
  <2>1. CallTypeOK'
    BY <1>5 DEF Cancel, CallTypeOK
  <2>2. ChildTypeOK'
    BY <1>5 DEF Cancel, ChildTypeOK
  <2> QED BY <1>0, <1>5, <2>1, <2>2 DEF Cancel
<1>6. ASSUME NEW p \in Procs, Reap(p) PROVE TypeOK'
  <2>1. CallTypeOK'
    BY <1>6 DEF Reap, CallTypeOK
  <2> QED BY <1>0, <1>6, <2>1 DEF Reap
<1>7. ASSUME NEW p \in Procs, \/ ReadFails(p) \/ BadArguments(p)
                                \/ RunRefused(p) \/ StartFails(p)
                                \/ RunReturns(p)
      PROVE  TypeOK'
  <2>1. Outcome(p) \in [kind : Kinds, code : Codes]
    BY DEF Outcome, Kinds, Codes, ChildTypeOK
  <2>2. PICK a \in [kind : Kinds, code : Codes] :
          /\ Answer(p, a)
          /\ UNCHANGED <<childVars, sandboxVars, now, written>>
    BY <1>7, <2>1 DEF ReadFails, BadArguments, RunRefused, StartFails,
       RunReturns, Kinds, Codes
  <2>3. CallTypeOK'
    BY <2>2 DEF Answer, CallTypeOK
  <2> QED BY <1>0, <2>2, <2>3
<1>8. ASSUME NEW p \in Procs, CommandStep(p) PROVE TypeOK'
  <2>1. ChildTypeOK'
    BY <1>8, CommandIsChild, ChildType
  <2>2. SandboxTypeOK'
    BY <1>8 DEF CommandStep, LeaveBehind, CutOff, SandboxTypeOK
  <2>3. CallTypeOK'
    <3>1. CASE UNCHANGED written
      BY <1>8, <3>1 DEF CommandStep, CallTypeOK, callVars
    <3>2. CASE \E s \in Streams : Write(p, s)
      BY <1>8, <3>2 DEF CommandStep, Write, CallTypeOK, callVars
    <3> QED BY <1>8, <3>1, <3>2 DEF CommandStep
  <2> QED BY <2>1, <2>2, <2>3
<1>9. ASSUME NEW p \in Procs, CommandEndsInside(p) PROVE TypeOK'
  BY <1>0, <1>9 DEF CommandEndsInside, EndInside, SandboxTypeOK
<1>10. CASE Tick
  <2>1. CallTypeOK'
    BY <1>10 DEF Tick, CallTypeOK, callVars
  <2> QED BY <1>0, <1>10, <2>1 DEF Tick
<1>11. CASE UNCHANGED vars
  BY <1>0, <1>11 DEF vars
<1> QED
  BY <1>1, <1>2, <1>3, <1>4, <1>5, <1>6, <1>7, <1>8, <1>9, <1>10, <1>11
  DEF Next, ServerStep

\* Every variable of a call of exec keeps its type; what is kept of a stream
\* never outgrows the limit of limitedWriter (main.go:443-454).
THEOREM ExecTypeCorrect == Spec => []TypeOK
BY InitType, NextType, PTL DEF Spec

-----------------------------------------------------------------------------
(* The inductive invariant *)

LEMMA InitInv == Init => Inv
<1> SUFFICES ASSUME Init, NEW p \in Procs PROVE CallInv(p)
  BY DEF Inv
<1>1. Clocked(p) /\ Owned(p) /\ Answered(p) /\ Left(p)
  BY DEF Init, ChildInit, SandboxInit, NoAnswer, Clocked, Owned, Answered,
     Left
<1>2. ASSUME NEW s \in Streams PROVE Kept(p, s)
  BY DEF Init, ChildInit, Kept
<1> QED BY <1>1, <1>2 DEF CallInv

\* What a step that changes neither the command nor the container keeps.
LEMMA CommandAlone ==
    ASSUME Inv, NEW q \in Procs, UNCHANGED <<childVars, sandboxVars, written>>
    PROVE  Left(q)' /\ \A s \in Streams : Kept(q, s)'
BY DEF Inv, CallInv, Left, Kept, childVars, sandboxVars

LEMMA ArriveInv ==
    ASSUME TypeOK, Inv, NEW p \in Procs, NEW ms \in TimeoutArgs, Arrive(p, ms)
    PROVE  Inv'
<1> SUFFICES ASSUME NEW q \in Procs PROVE CallInv(q)'
  BY DEF Inv
<1> USE DEF Inv, CallInv
<1>1. Clocked(q)'
  BY DEF Arrive, Clocked, TypeOK, CallTypeOK
<1>2. Owned(q)'
  BY DEF Arrive, Owned, Copied, childVars, TypeOK, CallTypeOK
<1>3. Answered(q)'
  BY DEF Arrive, Answered, Copied, childVars, TypeOK, CallTypeOK
<1> QED BY <1>1, <1>2, <1>3, CommandAlone DEF Arrive

LEMMA BeginInv ==
    ASSUME TypeOK, Inv, NEW p \in Procs, Begin(p)
    PROVE  Inv'
<1> SUFFICES ASSUME NEW q \in Procs PROVE CallInv(q)'
  BY DEF Inv
<1> USE DEF Inv, CallInv
<1>1. Clocked(q)'
  BY DEF Begin, Clocked, TypeOK, CallTypeOK
<1>2. Owned(q)'
  BY DEF Begin, Owned, Clocked, Copied, childVars, TypeOK, CallTypeOK
<1>3. Answered(q)'
  BY DEF Begin, Answered, Copied, childVars, TypeOK, CallTypeOK
<1> QED BY <1>1, <1>2, <1>3, CommandAlone DEF Begin

LEMMA ContextEndsInv ==
    ASSUME TypeOK, Inv, NEW p \in Procs, NEW how \in {"expired", "canceled"},
           ContextEnds(p, how)
    PROVE  Inv'
<1> SUFFICES ASSUME NEW q \in Procs PROVE CallInv(q)'
  BY DEF Inv
<1> USE DEF Inv, CallInv
<1>1. Clocked(q)'
  BY DEF ContextEnds, Clocked, TypeOK, CallTypeOK
<1>2. Owned(q)'
  BY DEF ContextEnds, Owned, Copied, childVars, TypeOK, CallTypeOK
<1>3. Answered(q)'
  BY DEF ContextEnds, Answered, Copied, childVars, TypeOK, CallTypeOK
<1> QED BY <1>1, <1>2, <1>3, CommandAlone DEF ContextEnds

LEMMA RunInv ==
    ASSUME TypeOK, Inv, NEW p \in Procs, Run(p)
    PROVE  Inv'
<1> SUFFICES ASSUME NEW q \in Procs PROVE CallInv(q)'
  BY DEF Inv
<1> USE DEF Inv, CallInv
<1>0. Timeout(asked[q]) \in Int
  BY TimeoutBelow DEF TypeOK, CallTypeOK
<1>1. Clocked(q)'
  BY <1>0 DEF Run, Clocked, TypeOK, CallTypeOK
<1>2. Owned(q)'
  BY DEF Run, Fork, Owned, Copied, TypeOK, CallTypeOK, ChildTypeOK
<1>3. Answered(q)'
  BY DEF Run, Fork, Answered, Owned, Copied, TypeOK, CallTypeOK, ChildTypeOK
<1>4. Left(q)'
  BY DEF Run, Fork, Left, Owned, sandboxVars, TypeOK, ChildTypeOK
<1>5. \A s \in Streams : Kept(q, s)'
  BY DEF Run, Fork, Kept, Owned, TypeOK, ChildTypeOK
<1> QED BY <1>1, <1>2, <1>3, <1>4, <1>5

LEMMA CancelInv ==
    ASSUME TypeOK, Inv, NEW p \in Procs, Cancel(p)
    PROVE  Inv'
<1> SUFFICES ASSUME NEW q \in Procs PROVE CallInv(q)'
  BY DEF Inv
<1> USE DEF Inv, CallInv
<1>1. Clocked(q)'
  BY DEF Cancel, Clocked
<1>2. Owned(q)'
  BY DEF Cancel, Owned, Copied, TypeOK, CallTypeOK, ChildTypeOK
<1>3. Answered(q)'
  BY DEF Cancel, Answered, Copied, TypeOK, CallTypeOK
<1>4. Left(q)' /\ \A s \in Streams : Kept(q, s)'
  BY DEF Cancel, Left, Kept, sandboxVars
<1> QED BY <1>1, <1>2, <1>3, <1>4

LEMMA ReapInv ==
    ASSUME TypeOK, Inv, NEW p \in Procs, Reap(p)
    PROVE  Inv'
<1> SUFFICES ASSUME NEW q \in Procs PROVE CallInv(q)'
  BY DEF Inv
<1> USE DEF Inv, CallInv
<1>1. Clocked(q)'
  BY DEF Reap, Clocked
<1>2. Owned(q)'
  BY DEF Reap, Owned, Copied, childVars, TypeOK, CallTypeOK
<1>3. Answered(q)'
  BY DEF Reap, Answered, Copied, childVars
<1> QED BY <1>1, <1>2, <1>3, CommandAlone DEF Reap

\* The ways to answer.  The clock has not passed the deadline, which is
\* no later than what the client means after the body was read.
LEMMA AnswerInv ==
    ASSUME TypeOK, Inv, NEW p \in Procs,
           \/ ReadFails(p) \/ BadArguments(p)
           \/ RunRefused(p) \/ StartFails(p) \/ RunReturns(p)
    PROVE  Inv'
<1> SUFFICES ASSUME NEW q \in Procs PROVE CallInv(q)'
  BY DEF Inv
<1> USE DEF Inv, CallInv
<1>1. PICK a : /\ Answer(p, a)
               /\ a \in {[kind |-> "unread", code |-> 0],
                         [kind |-> "error", code |-> 0],
                         Outcome(p)}
               /\ a.kind # "none"
               /\ a.kind = "result" =>
                      pc[p] = "run" /\ reaped[p] /\ a.code = status[p]
               /\ a.kind = "error" =>
                      \/ pc[p] \in {"arrived", "begun"}
                      \/ /\ pc[p] = "run" /\ status[p] = 0
                         /\ \/ cut[p]
                            \/ \E s \in Streams : copier[p][s] # "eof"
               /\ pc[p] \in {"arrived", "begun", "run"}
               /\ pc[p] = "run" => reaped[p] /\ Copied(p)
               /\ UNCHANGED <<childVars, sandboxVars, now, written>>
  BY DEF ReadFails, BadArguments, RunRefused, StartFails, RunReturns, Outcome
<1>2. Clocked(q)'
  BY <1>1 DEF Answer, Clocked, TypeOK, CallTypeOK
<1>3. Owned(q)'
  BY <1>1 DEF Answer, Owned, Copied, childVars, TypeOK, CallTypeOK
<1>4. late'[q] => Meant(asked[q]) + ReadTimeout >= WriteTimeout
  <2>1. CASE q # p
    BY <1>1, <2>1 DEF Answer, Answered, TypeOK, CallTypeOK
  <2>2. CASE q = p
    <3>1. /\ Timeout(asked[p]) \in Int /\ Meant(asked[p]) \in Nat
          /\ Timeout(asked[p]) <= Meant(asked[p])
      BY TimeoutBelow DEF TypeOK, CallTypeOK
    <3>2. now <= since[p] + ReadTimeout + Meant(asked[p])
      BY <1>1, <3>1 DEF Clocked, TypeOK, CallTypeOK
    <3>3. late'[p] => now >= since[p] + WriteTimeout
      BY <1>1 DEF Answer, TypeOK, CallTypeOK
    <3> QED BY <2>2, <3>1, <3>2, <3>3 DEF TypeOK, CallTypeOK
  <2> QED BY <2>1, <2>2
<1>5. Answered(q)'
  <2>1. CASE q # p
    BY <1>1, <1>4, <2>1 DEF Answer, Answered, Copied, childVars, TypeOK,
       CallTypeOK
  <2>2. CASE q = p
    <3>1. answer'[p] = a /\ pc'[p] = "done"
      BY <1>1 DEF Answer, TypeOK, CallTypeOK
    <3>2. UNCHANGED <<os, copier, status, cut, ctx, asked>>
      BY <1>1 DEF Answer, childVars
    <3>3. pc[p] \in {"arrived", "begun"} => os[p] = "none"
      BY DEF Owned
    <3>4. reaped[p] => os[p] = "exited"
      BY DEF Owned
    <3> QED BY <1>1, <1>4, <2>2, <3>1, <3>2, <3>3, <3>4 DEF Answered, Copied
  <2> QED BY <2>1, <2>2
<1> QED BY <1>1, <1>2, <1>3, <1>5, CommandAlone

\* What one byte, one chunk or the end of a stream does to what is kept.
LEMMA CommandKept ==
    ASSUME TypeOK, Inv, NEW p \in Procs, CommandStep(p), NEW q \in Procs,
           NEW r \in Streams
    PROVE  Kept(q, r)'
<1>0. /\ Kept(q, r)
      /\ buf[q][r] \in 0..Limit /\ pipe[q][r] \in Nat
      /\ written[q][r] \in Nat
  BY DEF Inv, CallInv, TypeOK, ChildTypeOK, CallTypeOK
<1>1. ASSUME NEW s \in Streams, Write(p, s) PROVE Kept(q, r)'
  <2>1. /\ copier[p][s] = "copy" /\ UNCHANGED <<os, buf, copier>>
        /\ IF q = p /\ r = s
           THEN /\ pipe'[q][r] = pipe[q][r] + 1
                /\ written'[q][r] = written[q][r] + 1
           ELSE UNCHANGED <<pipe[q][r], written[q][r]>>
    BY <1>1 DEF Write, Produce, TypeOK, ChildTypeOK, CallTypeOK
  <2> QED BY <1>0, <2>1 DEF Kept
<1>2. CASE /\ \/ \E s \in Streams : BrokenPipe(p, s)
              \/ \E c \in ExitCodes : Exit(p, c)
              \/ DieKilled(p)
           /\ UNCHANGED written
  <2>1. /\ os[q] = "exited" => os'[q] = "exited"
        /\ UNCHANGED <<buf, pipe, copier, written>>
    BY <1>2 DEF BrokenPipe, Exit, DieKilled, TypeOK, ChildTypeOK
  <2> QED BY <1>0, <2>1 DEF Kept
<1>3. ASSUME NEW s \in Streams, Copy(p, s), UNCHANGED written
      PROVE  Kept(q, r)'
  <2>1. CASE q = p /\ r = s
    <3> DEFINE n == Lesser(pipe[q][r], ReadSize)
               b == buf[q][r]
               short == Returned(b, n) < n
    <3>1. /\ n \in Nat /\ n <= pipe[q][r]
          /\ copier[q][r] = "copy" /\ UNCHANGED <<os, written>>
          /\ buf'[q][r] = b + Stored(b, n)
          /\ pipe'[q][r] = IF short THEN 0 ELSE pipe[q][r] - n
          /\ copier'[q][r] = IF short THEN "shut" ELSE "copy"
      BY <1>0, <1>3, <2>1 DEF Copy, Lesser, TypeOK, ChildTypeOK
    <3>2. \/ Stored(b, n) = 0 /\ ~short /\ b = Limit
          \/ Stored(b, n) = n /\ ~short /\ b < Limit
          \/ Stored(b, n) = Limit - b /\ short /\ b < Limit /\ n > Limit - b
      BY <1>0, <3>1 DEF Stored, Returned, Lesser
    <3>3. \/ /\ buf'[q][r] = Limit /\ pipe'[q][r] = pipe[q][r] - n
             /\ copier'[q][r] = "copy" /\ b = Limit
          \/ /\ buf'[q][r] = b + n /\ pipe'[q][r] = pipe[q][r] - n
             /\ copier'[q][r] = "copy" /\ b < Limit
          \/ /\ buf'[q][r] = Limit /\ pipe'[q][r] = 0
             /\ copier'[q][r] = "shut" /\ b < Limit /\ n > Limit - b
      BY <1>0, <3>1, <3>2
    <3>4. UNCHANGED <<os, written>>
      BY <3>1
    <3> HIDE DEF n
    <3> QED BY <1>0, <3>1, <3>3, <3>4 DEF Kept
  <2>2. CASE ~(q = p /\ r = s)
    <3>1. UNCHANGED <<os, written, buf[q][r], pipe[q][r], copier[q][r]>>
      BY <1>3, <2>2 DEF Copy, TypeOK, ChildTypeOK
    <3> QED BY <1>0, <3>1 DEF Kept
  <2> QED BY <2>1, <2>2
<1>4. ASSUME NEW s \in Streams, CopyEOF(p, s), UNCHANGED written
      PROVE  Kept(q, r)'
  <2>1. /\ UNCHANGED <<os, written, buf, pipe>>
        /\ \/ copier'[q][r] = copier[q][r]
           \/ /\ copier'[q][r] = "eof"
              /\ os[q] = "exited" /\ pipe[q][r] = 0
    BY <1>4 DEF CopyEOF, TypeOK, ChildTypeOK
  <2> QED BY <1>0, <2>1 DEF Kept
<1> QED BY <1>1, <1>2, <1>3, <1>4 DEF CommandStep

\* The command and its copying goroutines only act while the call waits for
\* them, and a child ended by a signal is what the container is left with.
LEMMA CommandInv ==
    ASSUME TypeOK, Inv, NEW p \in Procs, CommandStep(p)
    PROVE  Inv'
<1> SUFFICES ASSUME NEW q \in Procs PROVE CallInv(q)'
  BY DEF Inv
<1> USE DEF Inv, CallInv
<1>1. /\ os'[q] # os[q] => os[q] = "running" /\ os'[q] = "exited"
      /\ sig'[q] = sig[q]
      /\ os[q] = "exited" => status'[q] = status[q]
      /\ AtRest(q) => copier'[q] = copier[q] /\ buf'[q] = buf[q]
  BY CommandIsChild, ChildEffect DEF TypeOK
<1>2. UNCHANGED <<callVars, now, runtime>>
  BY DEF CommandStep, LeaveBehind
<1>3. Clocked(q)'
  BY <1>2 DEF Clocked, callVars
<1>4. Copied(q) => Copied(q)'
  BY <1>1 DEF Copied, AtRest
<1>5. Owned(q)'
  BY <1>1, <1>2, <1>4 DEF Owned, AtRest, callVars, Copied
<1>6. Answered(q)'
  <2>1. answer[q].kind = "error" => AtRest(q)
    BY DEF Answered, Owned, AtRest, Copied
  <2> QED BY <1>1, <1>2, <1>4, <2>1 DEF Answered, Owned, callVars
<1>7. Left(q)'
  BY <1>1, <1>2 DEF CommandStep, LeaveBehind, CutOff, Left, TypeOK,
     ChildTypeOK
<1> QED BY <1>3, <1>5, <1>6, <1>7, CommandKept

LEMMA TickInv ==
    ASSUME TypeOK, Inv, Tick
    PROVE  Inv'
<1> SUFFICES ASSUME NEW q \in Procs PROVE CallInv(q)'
  BY DEF Inv
<1> USE DEF Inv, CallInv
<1>1. Clocked(q)'
  <2>1. Timeout(asked[q]) \in Int
    BY TimeoutBelow DEF TypeOK, CallTypeOK
  <2> QED BY <2>1 DEF Tick, Pressed, Clocked, callVars, TypeOK, CallTypeOK
<1>2. Owned(q)' /\ Answered(q)'
  BY DEF Tick, Owned, Answered, Copied, callVars, childVars
<1> QED BY <1>1, <1>2, CommandAlone DEF Tick

LEMMA InsideInv ==
    ASSUME TypeOK, Inv, NEW p \in Procs, CommandEndsInside(p)
    PROVE  Inv'
BY DEF CommandEndsInside, EndInside, callVars, childVars, Inv, CallInv,
   Clocked, Owned, Answered, Left, Kept, Copied

LEMMA StutterInv == Inv /\ UNCHANGED vars => Inv'
BY DEF vars, childVars, sandboxVars, callVars, Inv, CallInv, Clocked, Owned,
   Answered, Left, Kept, Copied

LEMMA NextInv == TypeOK /\ Inv /\ [Next]_vars => Inv'
<1> SUFFICES ASSUME TypeOK, Inv, [Next]_vars PROVE Inv'
  OBVIOUS
<1>1. ASSUME NEW p \in Procs, ServerStep(p) PROVE Inv'
  BY <1>1, AnswerInv, BeginInv, ContextEndsInv, RunInv, CancelInv, ReapInv
  DEF ServerStep
<1> QED
  BY <1>1, ArriveInv, ContextEndsInv, CommandInv, InsideInv, TickInv,
     StutterInv DEF Next

\* The inductive invariant of the exec tool holds in every reachable state.
THEOREM ExecInvHolds == Spec => []Inv
<1>1. TypeOK /\ Inv /\ [Next]_vars => (TypeOK /\ Inv)'
  BY NextType, NextInv
<1> QED BY InitType, InitInv, <1>1, PTL DEF Spec

-----------------------------------------------------------------------------
(* What it gives the client *)

\* A result carries the command's own status and all its output up to the
\* limit, whichever of exit and deadline came first (main.go:286-305).
THEOREM ExecResultIsTrue == Spec => []ResultIsTrue
<1>1. TypeOK /\ Inv => ResultIsTrue
  <2> SUFFICES ASSUME TypeOK, Inv, NEW p \in Procs,
                      answer[p].kind = "result"
               PROVE  /\ os[p] = "exited" /\ answer[p].code = status[p]
                      /\ \A s \in Streams :
                            buf[p][s] = Lesser(written[p][s], Limit)
    BY DEF ResultIsTrue
  <2>1. os[p] = "exited" /\ Copied(p) /\ answer[p].code = status[p]
    BY DEF Inv, CallInv, Answered
  <2>2. ASSUME NEW s \in Streams
        PROVE  buf[p][s] = Lesser(written[p][s], Limit)
    <3>1. Kept(p, s) /\ pipe[p][s] = 0
      BY <2>1 DEF Inv, CallInv, Kept, Copied
    <3>2. buf[p][s] \in 0..Limit /\ written[p][s] \in Nat
      BY DEF TypeOK, ChildTypeOK, CallTypeOK
    <3> QED BY <3>1, <3>2 DEF Kept, Lesser
  <2> QED BY <2>1, <2>2
<1> QED BY <1>1, ExecTypeCorrect, ExecInvHolds, PTL

\* A command that was started is answered with an error only if it ended well
\* and was killed for its context before it was reaped, or wrote past the
\* limit (main.go:286-296).
THEOREM ExecErrorHasACause == Spec => []ErrorHasACause
<1>1. Inv => ErrorHasACause
  BY DEF Inv, CallInv, Answered, Kept, ErrorHasACause
<1> QED BY <1>1, ExecInvHolds, PTL

\* Nothing of a call outlives it, but for what the end of a docker client
\* leaves in the container (main.go:238-245, 286).
THEOREM ExecLeavesNothing == Spec => []NothingOutlivesTheCall
<1>1. Inv => NothingOutlivesTheCall
  BY DEF Inv, CallInv, Owned, Left, Copied, NothingOutlivesTheCall
<1> QED BY <1>1, ExecInvHolds, PTL

\* No command runs for longer than maxTimeout, but for one of "docker exec"
\* whose client was ended by a signal (main.go:238-245, 270-286).
THEOREM ExecRunsAtMostMax == Spec => []RunsAtMostMax
<1>1. TypeOK /\ Inv => RunsAtMostMax
  <2> SUFFICES ASSUME TypeOK, Inv, NEW p \in Procs, CommandRuns(p),
                      now > began[p] + MaxTimeout
               PROVE  p \in inside
    BY DEF RunsAtMostMax, Inv, CallInv, Left
  <2>1. /\ Timeout(asked[p]) \in Int /\ Meant(asked[p]) \in Nat
        /\ Timeout(asked[p]) <= Meant(asked[p])
        /\ Meant(asked[p]) <= MaxTimeout
    BY TimeoutBelow DEF TypeOK, CallTypeOK
  <2>2. pc[p] = "run" => now <= began[p] + MaxTimeout
    BY <2>1 DEF Inv, CallInv, Clocked, TypeOK, CallTypeOK
  <2>3. pc[p] # "run"
    BY <2>2 DEF TypeOK, CallTypeOK
  <2>4. os[p] # "running"
    BY <2>3 DEF Inv, CallInv, Owned, TypeOK, CallTypeOK
  <2> QED BY <2>4 DEF CommandRuns
<1> QED BY <1>1, ExecTypeCorrect, ExecInvHolds, PTL

\* Only a timeout that leaves no room before WriteTimeout can cost a client
\* its answer (main.go:270-278, server.go:125).
THEOREM ExecAnsweredInTime == Spec => []AnsweredInTime
<1>1. Inv => AnsweredInTime
  BY DEF Inv, CallInv, Answered, AnsweredInTime
<1> QED BY <1>1, ExecInvHolds, PTL
=============================================================================
