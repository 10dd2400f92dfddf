-------------------------- MODULE ContextMgrProofs --------------------------
(* The invariants of context-mgr, for any number of sessions, goroutines and  *)
(* requests.                                                                  *)
EXTENDS ContextMgrInv, TLAPS

USE CompactionAssumption, ContextMgrAssumption

TypeJob == job \in [Worker -> Jobs \cup {NoJob}]

LEMMA FirstNumbers == 0 \in 0 .. MaxRetries /\ 1 \in 1 .. ChunkCount
<1>1. MaxRetries \in Nat /\ ChunkCount \in Nat \ {0}
  BY DEF CompactionAssumption
<1> QED BY <1>1

LEMMA JobIsSome == ASSUME NEW j \in Jobs PROVE j # NoJob
<1>1. j.step # "none"
  BY DEF Jobs, Steps, CompactionSteps, CallSteps
<1> QED BY <1>1 DEF NoJob

(* A goroutine at work has the fields of one. *)
LEMMA JobFields ==
    ASSUME TypeJob, NEW w \in Worker, Running(w)
    PROVE  /\ job[w] \in Jobs
           /\ job[w].step \in Steps
           /\ job[w].chunk \in 1 .. ChunkCount
           /\ job[w].attempt \in 0 .. MaxRetries /\ job[w].calls \in Nat
BY DEF TypeJob, Running, Jobs

(* What happens to one goroutine is no matter of the others. *)
Others(w) == \A v \in Worker \ {w} : job'[v] = job[v]

LEMMA JobChanges ==
    ASSUME TypeJob, NEW w \in Worker, NEW j \in Jobs \cup {NoJob},
           job' = [job EXCEPT ![w] = j]
    PROVE  TypeJob' /\ job'[w] = j /\ Others(w) /\ (Running(w)' <=> j \in Jobs)
BY JobIsSome DEF TypeJob, Others, Running

LEMMA GotoSteps ==
    ASSUME TypeJob, NEW w \in Worker, Running(w), NEW step \in Steps, Goto(w, step)
    PROVE  /\ TypeJob' /\ Others(w) /\ Running(w)'
           /\ job'[w].step = step /\ job'[w].attempt = 0
           /\ job'[w].calls = job[w].calls /\ job'[w].chunk = job[w].chunk
<1> DEFINE j == [job[w] EXCEPT !.step = step, !.attempt = 0]
<1>1. job' = [job EXCEPT ![w] = j]
  BY DEF Goto, TypeJob
<1>2. j \in Jobs
  BY JobFields, FirstNumbers DEF Jobs
<1>3. j.step = step /\ j.attempt = 0 /\ j.calls = job[w].calls /\ j.chunk = job[w].chunk
  BY JobFields DEF Jobs
<1> HIDE DEF j
<1> QED BY <1>1, <1>2, <1>3, JobChanges

LEMMA EndsEnds ==
    ASSUME TypeJob, NEW w \in Worker, Ends(w)
    PROVE  TypeJob' /\ Others(w) /\ ~Running(w)'
BY DEF TypeJob, Others, Running, Ends

LEMMA StartStarts ==
    ASSUME TypeJob, NEW w \in Worker, NEW step \in Steps, Start(w, step)
    PROVE  /\ TypeJob' /\ Others(w) /\ ~Running(w) /\ Running(w)'
           /\ job'[w].step = step /\ job'[w].calls = 0 /\ job'[w].chunk = 1 /\ job'[w].attempt = 0
<1>1. NewJob(step) \in Jobs
  BY FirstNumbers DEF NewJob, Jobs
<1>2. /\ NewJob(step).step = step /\ NewJob(step).calls = 0
      /\ NewJob(step).chunk = 1 /\ NewJob(step).attempt = 0
  BY DEF NewJob
<1>3. ~Running(w) /\ job' = [job EXCEPT ![w] = NewJob(step)]
  BY DEF Start
<1> QED BY <1>1, <1>2, <1>3, JobChanges

(* A call is counted. *)
LEMMA CallsCounts ==
    ASSUME TypeJob, NEW w \in Worker, Calls(w)
    PROVE  /\ TypeJob' /\ Others(w) /\ Running(w) /\ Running(w)'
           /\ job[w].step \in CallSteps /\ job'[w].step = job[w].step
           /\ job'[w].calls = job[w].calls + 1
           /\ job'[w].chunk = job[w].chunk /\ job'[w].attempt = job[w].attempt
<1> DEFINE j == [job[w] EXCEPT !.calls = @ + 1]
<1>0. Running(w)
  BY DEF Calls
<1>1. job' = [job EXCEPT ![w] = j]
  BY DEF Calls, TypeJob
<1>2. j \in Jobs
  BY <1>0, JobFields DEF Jobs
<1>3. /\ j.step = job[w].step /\ j.attempt = job[w].attempt
      /\ j.calls = job[w].calls + 1 /\ j.chunk = job[w].chunk
  BY <1>0, JobFields DEF Jobs
<1> HIDE DEF j
<1> QED BY <1>0, <1>1, <1>2, <1>3, JobChanges DEF Calls

-----------------------------------------------------------------------------
(* Numbers. *)
LEMMA Products ==
    /\ Tries \in Nat \ {0} /\ ChunkCount \in Nat \ {0} /\ Tries = MaxRetries + 1
    /\ ChunkCount * Tries \in Nat
    /\ (ChunkCount + 1) * Tries = ChunkCount * Tries + Tries
    /\ \A c \in 1 .. ChunkCount :
         /\ (c - 1) * Tries \in Nat
         /\ (c - 1) * Tries + Tries = c * Tries
         /\ c * Tries <= ChunkCount * Tries
<1>1. Tries \in Nat \ {0} /\ ChunkCount \in Nat \ {0} /\ Tries = MaxRetries + 1
  BY DEF CompactionAssumption, Tries
<1>2. ASSUME NEW a \in Nat, NEW b \in Nat, a <= b PROVE a * Tries \in Nat /\ a * Tries <= b * Tries
  <2>1. b - a \in Nat
    BY <1>2
  <2>2. a * Tries \in Nat /\ (b - a) * Tries \in Nat
    BY <1>1, <2>1
  <2>3. b * Tries = a * Tries + (b - a) * Tries
    BY <1>1
  <2> QED BY <2>2, <2>3
<1>3. (ChunkCount + 1) * Tries = ChunkCount * Tries + Tries
  BY <1>1
<1>4. ASSUME NEW c \in 1 .. ChunkCount
      PROVE  /\ (c - 1) * Tries \in Nat
             /\ (c - 1) * Tries + Tries = c * Tries
             /\ c * Tries <= ChunkCount * Tries
  <2>1. c \in Nat /\ c - 1 \in Nat /\ c <= ChunkCount
    BY <1>1
  <2>2. (c - 1) * Tries + Tries = c * Tries
    BY <1>1, <2>1
  <2> QED BY <1>1, <1>2, <2>1, <2>2
<1> QED BY <1>1, <1>2, <1>3, <1>4

(* A call that is answered or fails leaves its goroutine within what it may   *)
(* have spent.                                                                *)
LEMMA CallEnds ==
    ASSUME TypeJob, NEW w \in Worker, Running(w), job[w].step \in CallSteps,
           job[w].calls <= Spent(job[w]) + 1, CallSucceeds(w) \/ CallFails(w)
    PROVE  /\ TypeJob' /\ Others(w)
           /\ Running(w)' => job'[w].calls <= Spent(job'[w])
<1>1. /\ job[w].step \in Steps /\ job[w].chunk \in 1 .. ChunkCount
      /\ job[w].attempt \in 0 .. MaxRetries /\ job[w].calls \in Nat
  BY JobFields
<1>2. CASE Ends(w)
  BY <1>2, EndsEnds
<1>3. CASE CallFails(w) /\ ~Ends(w)
  <2>1. /\ job[w].step \in {"chunk", "merge"} /\ job[w].attempt < MaxRetries
        /\ job' = [job EXCEPT ![w].attempt = @ + 1]
    BY <1>3 DEF CallFails
  <2> DEFINE j == [job[w] EXCEPT !.attempt = @ + 1]
  <2>2. j \in Jobs
    BY <2>1, JobFields DEF Jobs
  <2>3. /\ j.step = job[w].step /\ j.calls = job[w].calls /\ j.chunk = job[w].chunk
        /\ j.attempt = job[w].attempt + 1
    BY JobFields DEF Jobs
  <2>4. job' = [job EXCEPT ![w] = j]
    BY <2>1 DEF TypeJob
  <2> HIDE DEF j
  <2>5. TypeJob' /\ job'[w] = j /\ Others(w)
    BY <2>2, <2>4, JobChanges
  <2>6. Spent(j) = Spent(job[w]) + 1
    BY <1>1, <2>1, <2>3, Products DEF Spent
  <2> QED BY <2>3, <2>5, <2>6
<1>4. CASE CallSucceeds(w) /\ job[w].step = "chunk"
  <2>1. CASE job[w].chunk < ChunkCount /\ job' = [job EXCEPT ![w].chunk = @ + 1, ![w].attempt = 0]
    <3> DEFINE j == [job[w] EXCEPT !.chunk = @ + 1, !.attempt = 0]
    <3>1. job' = [job EXCEPT ![w] = j]
      BY <2>1 DEF TypeJob
    <3>2. j \in Jobs
      <4>1. job[w].chunk + 1 \in 1 .. ChunkCount
        BY <1>1, <2>1, Products
      <4> QED BY <4>1, JobFields, FirstNumbers DEF Jobs
    <3>3. j.step = "chunk" /\ j.calls = job[w].calls /\ j.chunk = job[w].chunk + 1 /\ j.attempt = 0
      BY <1>4, JobFields DEF Jobs
    <3> HIDE DEF j
    <3>4. TypeJob' /\ job'[w] = j /\ Others(w)
      BY <3>1, <3>2, JobChanges
    <3>5. Spent(j) = job[w].chunk * Tries + 0
      <4>1. j.chunk - 1 = job[w].chunk
        BY <1>1, <3>3
      <4> QED BY <3>3, <4>1 DEF Spent
    <3>6. Spent(job[w]) = (job[w].chunk - 1) * Tries + job[w].attempt
      BY <1>4 DEF Spent
    <3>7. /\ (job[w].chunk - 1) * Tries \in Nat /\ job[w].chunk * Tries \in Int
          /\ (job[w].chunk - 1) * Tries + Tries = job[w].chunk * Tries
          /\ Tries \in Nat /\ Tries = MaxRetries + 1 /\ MaxRetries \in Nat
      BY <1>1, Products, CompactionAssumption
    <3> QED BY <1>1, <3>3, <3>4, <3>5, <3>6, <3>7
  <2>2. CASE Goto(w, "merge")
    <3>2. /\ TypeJob' /\ Others(w) /\ job'[w].step = "merge" /\ job'[w].attempt = 0
          /\ job'[w].calls = job[w].calls
      BY <2>2, GotoSteps DEF Steps, CompactionSteps, CallSteps
    <3>3. Spent(job'[w]) = ChunkCount * Tries + 0
      BY <3>2 DEF Spent
    <3>4. Spent(job[w]) = (job[w].chunk - 1) * Tries + job[w].attempt
      BY <1>4 DEF Spent
    <3>6. /\ (job[w].chunk - 1) * Tries \in Nat /\ job[w].chunk * Tries \in Int
          /\ (job[w].chunk - 1) * Tries + Tries = job[w].chunk * Tries
          /\ job[w].chunk * Tries <= ChunkCount * Tries /\ ChunkCount * Tries \in Nat
          /\ Tries \in Nat /\ Tries = MaxRetries + 1 /\ MaxRetries \in Nat
      BY <1>1, Products, CompactionAssumption
    <3> QED BY <1>1, <3>2, <3>3, <3>4, <3>6
  <2> QED BY <1>4, <2>1, <2>2 DEF CallSucceeds
<1>5. CASE CallSucceeds(w) /\ job[w].step \in {"single", "merge"}
  <2>1. Goto(w, "audit")
    BY <1>5 DEF CallSucceeds
  <2>2. TypeJob' /\ Others(w) /\ job'[w].step = "audit" /\ job'[w].calls = job[w].calls
    BY <2>1, GotoSteps DEF Steps, CompactionSteps, CallSteps
  <2>3. Spent(job'[w]) = (ChunkCount + 1) * Tries
    BY <2>2 DEF Spent
  <2>4. Spent(job[w]) \in Int /\ Spent(job[w]) + 1 <= (ChunkCount + 1) * Tries
    BY <1>1, <1>5, Products, CompactionAssumption DEF Spent
  <2>5. (ChunkCount + 1) * Tries \in Int
    BY Products
  <2> QED BY <1>1, <2>2, <2>3, <2>4, <2>5
<1>6. CASE CallSucceeds(w) /\ job[w].step = "fix"
  <2>1. Goto(w, "finish")
    BY <1>6 DEF CallSucceeds
  <2>2. TypeJob' /\ Others(w) /\ job'[w].step = "finish" /\ job'[w].calls = job[w].calls
    BY <2>1, GotoSteps DEF Steps, CompactionSteps, CallSteps
  <2> QED BY <1>1, <1>6, <2>2 DEF Spent
<1>7. CASE CallSucceeds(w) /\ job[w].step = "flush"
  BY <1>7, EndsEnds DEF CallSucceeds
<1> QED BY <1>2, <1>3, <1>4, <1>5, <1>6, <1>7 DEF CallSteps

LEMMA SpentIsInt == ASSUME NEW j \in Jobs PROVE Spent(j) \in Int
<1>1. j.chunk \in 1 .. ChunkCount /\ j.attempt \in 0 .. MaxRetries /\ j.step \in Steps
  BY DEF Jobs
<1>2. /\ (j.chunk - 1) * Tries \in Nat /\ ChunkCount * Tries \in Nat
      /\ (ChunkCount + 1) * Tries \in Nat
  BY <1>1, Products
<1> QED BY <1>1, <1>2 DEF Spent, Steps, CompactionSteps, CallSteps

-----------------------------------------------------------------------------
(* Types. *)
TypeRest ==
    /\ history \in [Session -> Seq(Role)]
    /\ truncate \subseteq Session
    /\ pc \in [Caller -> Stages]
    /\ loaded \in [Caller -> Seq(Role)]
    /\ waits \in [Inner -> Worker \cup {Nobody}]
    /\ warm \in BOOLEAN /\ compactPending \in BOOLEAN
    /\ flushCount \in {0, 1} /\ flushes \in Nat

LEMMA HistoryTypes ==
    ASSUME NEW h \in Seq(Role)
    PROVE  /\ Append(h, "user") \in Seq(Role) /\ Append(h, "assistant") \in Seq(Role)
           /\ <<>> \in Seq(Role)
           /\ SubSeq(h, Len(h) \div 2 + 1, Len(h)) \in Seq(Role)
<1>1. Len(h) \div 2 + 1 >= 1 /\ Len(h) \div 2 + 1 \in Int
  OBVIOUS
<1>2. "user" \in Role /\ "assistant" \in Role
  BY DEF Role
<1> QED BY <1>1, <1>2

LEMMA StepTypes ==
    ASSUME TypeOK, Next
    PROVE  TypeRest'
<1> USE DEF TypeOK, TypeRest, Caller, Stages
<1>1. ASSUME NEW s \in Session, PreReq(s) PROVE TypeRest'
  BY <1>1, HistoryTypes DEF PreReq, At, hook, ghost
<1>2. ASSUME NEW s \in Session, Respond(s) PROVE TypeRest'
  BY <1>2 DEF Respond, At, hook, store, ghost
<1>3. ASSUME NEW c \in Caller, CheckFlush(c) PROVE TypeRest'
  BY <1>3 DEF CheckFlush, At, hook, store, ghost
<1>4. ASSUME NEW c \in Caller, CheckCompaction(c) PROVE TypeRest'
  <2>1. /\ loaded' = [loaded EXCEPT ![c] = <<>>]
        /\ \/ c \in Session /\ history' = [history EXCEPT ![c] = Append(@, "assistant")]
           \/ history' = history
        /\ pc' = [pc EXCEPT ![c] = "idle"] /\ compactPending' = FALSE
        /\ UNCHANGED <<waits, warm, flushCount, truncate, flushes>>
    BY <1>4 DEF CheckCompaction, TakePending, At
  <2>2. loaded' \in [Caller -> Seq(Role)]
    <3>1. <<>> \in Seq(Role)
      OBVIOUS
    <3> QED BY <2>1, <3>1
  <2>3. history' \in [Session -> Seq(Role)]
    <3>1. CASE history' = history
      BY <3>1
    <3>2. CASE c \in Session /\ history' = [history EXCEPT ![c] = Append(@, "assistant")]
      <4>1. Append(history[c], "assistant") \in Seq(Role)
        BY <3>2, HistoryTypes
      <4> QED BY <3>2, <4>1
    <3> QED BY <2>1, <3>1, <3>2
  <2> QED BY <2>1, <2>2, <2>3
<1>5. ASSUME NEW s \in Session, SessionTruncated(s) PROVE TypeRest'
  BY <1>5, HistoryTypes DEF SessionTruncated, request, hook, ghost
<1>6. ASSUME NEW s \in Session, NewSession(s) PROVE TypeRest'
  BY <1>6, HistoryTypes DEF NewSession, request, hook, ghost
<1>7. ASSUME NEW i \in Inner, InnerRespond(i) PROVE TypeRest'
  BY <1>7 DEF InnerRespond, At, hook, store, ghost
<1>8. ASSUME NEW i \in Inner, CallTimesOut(i) PROVE TypeRest'
  BY <1>8 DEF CallTimesOut, hook, store, ghost
<1>9. ASSUME NEW c \in Caller, Touch(c) PROVE TypeRest'
  BY <1>9 DEF Touch, At, store, ghost
<1>10. ASSUME NEW c \in Caller, NoteOverflow(c) PROVE TypeRest'
  BY <1>10 DEF NoteOverflow, At, store, ghost
<1>11. ASSUME NEW w \in Worker, NEW i \in Inner, InnerPreReq(w, i) PROVE TypeRest'
  <2>1. PICK h \in FlushHistories \cup {<<>>} : loaded' = [loaded EXCEPT ![i] = h]
    BY <1>11 DEF InnerPreReq
  <2>2. h \in Seq(Role)
    <3>1. <<>> \in Seq(Role)
      OBVIOUS
    <3> QED BY <3>1, FlushAssumption
  <2>3. loaded' \in [Caller -> Seq(Role)]
    BY <2>1, <2>2
  <2>4. waits' = [waits EXCEPT ![i] = w] /\ pc' = [pc EXCEPT ![i] = "upstream"]
    BY <1>11 DEF InnerPreReq, At
  <2> QED BY <1>11, <2>3, <2>4 DEF InnerPreReq, hook, store, ghost
<1>12. ASSUME NEW w \in Worker, Swap(w) PROVE TypeRest'
  BY <1>12 DEF Swap, request, store
<1>13. ASSUME NEW w \in Worker, AuditSummary(w) \/ Finish(w) PROVE TypeRest'
  BY <1>13 DEF AuditSummary, Finish, request, hook, store, ghost
<1>14. CASE CacheExpires
  BY <1>14 DEF CacheExpires, request, store, ghost
<1> QED BY <1>1, <1>2, <1>3, <1>4, <1>5, <1>6, <1>7, <1>8, <1>9, <1>10, <1>11, <1>12, <1>13, <1>14 DEF Next, Notify

-----------------------------------------------------------------------------
(* The counters: OneFlushPerCycle and OverflowForcesOnce, credit's type with  *)
(* them, for it is what keeps credit from going below zero.                   *)
Counters == credit \in Nat /\ OneFlushPerCycle /\ OverflowForcesOnce

LEMMA CountersKept ==
    ASSUME TypeOK, OneFlushPerCycle, OverflowForcesOnce, Next
    PROVE  Counters'
<1> USE DEF TypeOK, Counters, OneFlushPerCycle, OverflowForcesOnce
<1>1. CASE UNCHANGED <<flushCount, compactPending, flushes, credit>>
  BY <1>1
<1>2. CASE TakePending /\ UNCHANGED <<flushCount, flushes>>
  BY <1>2 DEF TakePending
<1>3. ASSUME NEW c \in Caller, Notify(c) PROVE Counters'
  <2>1. CASE Touch(c)
    BY <1>1, <2>1 DEF Touch, ghost
  <2>2. CASE NoteOverflow(c)
    BY <2>2 DEF NoteOverflow
  <2>3. CASE CheckFlush(c)
    BY <1>1, <2>3 DEF CheckFlush, hook, ghost
  <2>4. CASE CheckCompaction(c)
    BY <1>2, <2>4 DEF CheckCompaction
  <2> QED BY <1>3, <2>1, <2>2, <2>3, <2>4 DEF Notify
<1>4. ASSUME NEW w \in Worker, Swap(w) PROVE Counters'
  BY <1>4 DEF Swap
<1>5. ASSUME NEW w \in Worker, Finish(w) PROVE Counters'
  BY <1>5 DEF Finish
<1>6. ASSUME NEW s \in Session,
             PreReq(s) \/ Respond(s) \/ SessionTruncated(s) \/ NewSession(s)
      PROVE  Counters'
  BY <1>1, <1>6 DEF PreReq, Respond, SessionTruncated, NewSession, hook, ghost
<1>7. ASSUME NEW i \in Inner, InnerRespond(i) \/ CallTimesOut(i) PROVE Counters'
  BY <1>1, <1>7 DEF InnerRespond, CallTimesOut, hook, ghost
<1>8. ASSUME NEW w \in Worker, NEW i \in Inner, InnerPreReq(w, i) PROVE Counters'
  BY <1>1, <1>8 DEF InnerPreReq, hook, ghost
<1>9. ASSUME NEW w \in Worker, AuditSummary(w) PROVE Counters'
  BY <1>1, <1>9 DEF AuditSummary, hook, ghost
<1>10. CASE CacheExpires
  BY <1>1, <1>10 DEF CacheExpires, ghost
<1> QED BY <1>3, <1>4, <1>5, <1>6, <1>7, <1>8, <1>9, <1>10 DEF Next

-----------------------------------------------------------------------------
(* Calls. *)
Calling == WaitsMatch /\ \A w \in Worker : SpentInTime(w)

(* A step that changes at most a goroutine that is in no call. *)
LEMMA OutOfCall ==
    ASSUME TypeOK, Calling, TypeJob', NEW w \in Worker, Others(w), ~InCall(w), waits' = waits,
           \A i \in Inner : pc[i] = "upstream" => pc'[i] = "upstream",
           Running(w)' => job'[w].calls <= Spent(job'[w])
    PROVE  Calling'
<1>1. WaitsMatch'
  BY DEF Calling, WaitsMatch, InCall, Others, Running, TypeOK
<1>2. ASSUME NEW v \in Worker PROVE SpentInTime(v)'
  <2>1. CASE v = w
    <3>1. ~InCall(w)'
      BY DEF InCall
    <3>2. Running(w)' => Spent(job'[w]) \in Int
      BY SpentIsInt DEF TypeJob, Running
    <3> QED BY <2>1, <3>1, <3>2 DEF SpentInTime
  <2>2. CASE v # w
    BY <2>2 DEF SpentInTime, InCall, Calling, Others, Running
  <2> QED BY <2>1, <2>2
<1> QED BY <1>1, <1>2 DEF Calling

(* Out of a call, a goroutine has spent no more than its step allows. *)
LEMMA SpentSoFar ==
    ASSUME TypeJob, Calling, NEW w \in Worker, Running(w)
    PROVE  /\ ~InCall(w) => job[w].calls <= Spent(job[w])
           /\ InCall(w)  => job[w].calls <= Spent(job[w]) + 1
<1>1. Spent(job[w]) \in Int
  BY JobFields, SpentIsInt
<1>2. job[w].calls <= Spent(job[w]) + IF InCall(w) THEN 1 ELSE 0
  BY DEF Calling, SpentInTime
<1> QED BY <1>1, <1>2

LEMMA NoJobChanges ==
    ASSUME TypeOK, Calling, job' = job, waits' = waits,
           \A i \in Inner : pc[i] = "upstream" => pc'[i] = "upstream"
    PROVE  Calling'
BY DEF Calling, WaitsMatch, SpentInTime, InCall, Running, TypeOK

LEMMA NobodyIsNone == \A w \in Worker : w # Nobody
BY DEF ContextMgrAssumption

LEMMA StepCalls ==
    ASSUME TypeOK, Calling, Next
    PROVE  TypeJob' /\ Calling'
<1>0. TypeJob
  BY DEF TypeOK, TypeJob
<1>a. \A s \in Session : s \notin Inner
  BY DEF ContextMgrAssumption
<1>b. \A w \in Worker : Running(w) /\ job[w].step \notin CallSteps => ~InCall(w)
  BY DEF Calling, WaitsMatch, InCall
<1>c. \A w \in Worker : ~Running(w) => ~InCall(w)
  BY DEF Calling, WaitsMatch, InCall, ContextMgrAssumption
<1>1. ASSUME NEW s \in Session, PreReq(s) \/ Respond(s) \/ SessionTruncated(s) \/ NewSession(s)
      PROVE  TypeJob' /\ Calling'
  <2>1. job' = job /\ waits' = waits
    BY <1>1 DEF PreReq, Respond, SessionTruncated, NewSession, request
  <2>2. \A i \in Inner : pc'[i] = pc[i]
    BY <1>1, <1>a DEF PreReq, Respond, SessionTruncated, NewSession, At, request, TypeOK, Caller
  <2> QED BY <1>0, <2>1, <2>2, NoJobChanges DEF TypeJob
<1>2. ASSUME NEW c \in Caller, CheckFlush(c) \/ CheckCompaction(c)
      PROVE  TypeJob' /\ Calling'
  <2>1. waits' = waits /\ \A i \in Inner : pc[i] = "upstream" => pc'[i] = "upstream"
    BY <1>2 DEF CheckFlush, CheckCompaction, At, TypeOK, Caller
  <2>2. CASE job' = job
    BY <1>0, <2>1, <2>2, NoJobChanges DEF TypeJob
  <2>3. CASE job' # job
    <3>1. PICK w \in Worker, step \in {"swap", FirstStep(loaded[c])} : Start(w, step)
      BY <1>2, <2>3 DEF CheckFlush, CheckCompaction, Starts
    <3>2. step \in {"swap", "finish", "single", "chunk"}
      BY <3>1 DEF FirstStep
    <3>3. /\ TypeJob' /\ Others(w) /\ ~Running(w) /\ Running(w)'
          /\ job'[w].step = step /\ job'[w].calls = 0 /\ job'[w].chunk = 1 /\ job'[w].attempt = 0
      BY <1>0, <3>1, <3>2, StartStarts DEF Steps, CompactionSteps, CallSteps
    <3>4. Spent(job'[w]) \in Nat
      <4>1. 0 * Tries = 0 /\ (ChunkCount + 1) * Tries \in Nat
        BY Products
      <4> QED BY <3>2, <3>3, <4>1 DEF Spent
    <3> QED BY <1>c, <2>1, <3>3, <3>4, OutOfCall
  <2> QED BY <2>2, <2>3
<1>3. ASSUME NEW c \in Caller, Touch(c) \/ NoteOverflow(c) PROVE TypeJob' /\ Calling'
  <2>1. /\ job' = job /\ waits' = waits
        /\ \A k \in Inner : pc[k] = "upstream" => pc'[k] = "upstream"
    BY <1>3 DEF Touch, NoteOverflow, At, TypeOK, Caller
  <2> QED BY <1>0, <2>1, NoJobChanges DEF TypeJob
<1>4. ASSUME NEW c \in Caller, Notify(c) PROVE TypeJob' /\ Calling'
  BY <1>2, <1>3, <1>4 DEF Notify
<1>5. ASSUME NEW i \in Inner, InnerRespond(i) \/ CallTimesOut(i) PROVE TypeJob' /\ Calling'
  <2>1. waits' = [waits EXCEPT ![i] = Nobody]
    BY <1>5 DEF InnerRespond, CallTimesOut
  <2>2. \A k \in Inner : k # i => pc'[k] = pc[k]
    BY <1>5 DEF InnerRespond, CallTimesOut, At, TypeOK, Caller
  <2>3. CASE waits[i] = Nobody
    <3>1. job' = job /\ waits' = waits
      BY <1>5, <2>1, <2>3 DEF InnerRespond, CallTimesOut, TypeOK
    <3> QED BY <1>0, <2>2, <2>3, <3>1
            DEF TypeJob, Calling, WaitsMatch, SpentInTime, InCall, Running, TypeOK
  <2>4. CASE waits[i] # Nobody
    <3>0. PICK w \in Worker : w = waits[i]
      BY <2>4 DEF TypeOK
    <3>1. /\ Running(w) /\ job[w].step \in CallSteps
          /\ CallSucceeds(w) \/ CallFails(w)
          /\ \A k \in Inner : waits[k] = w => k = i
      BY <1>5, <2>4, <3>0 DEF InnerRespond, CallTimesOut, Calling, WaitsMatch
    <3>2. job[w].calls <= Spent(job[w]) + 1
      BY <1>0, <3>0, <3>1, SpentSoFar DEF InCall
    <3>3. TypeJob' /\ Others(w) /\ (Running(w)' => job'[w].calls <= Spent(job'[w]))
      BY <1>0, <3>1, <3>2, CallEnds
    <3>4. WaitsMatch'
      <4> SUFFICES ASSUME NEW k \in Inner, waits'[k] # Nobody
                   PROVE  /\ pc'[k] = "upstream"
                          /\ job'[waits'[k]] # NoJob /\ job'[waits'[k]].step \in CallSteps
                          /\ \A l \in Inner : waits'[l] = waits'[k] => l = k
        BY DEF WaitsMatch, Running
      <4>1. k # i /\ waits'[k] = waits[k]
        BY <2>1 DEF TypeOK
      <4>2. waits[k] \in Worker \ {w}
        BY <3>0, <3>1, <4>1 DEF TypeOK
      <4>3. job'[waits[k]] = job[waits[k]]
        BY <3>3, <4>2 DEF Others
      <4>4. /\ pc[k] = "upstream" /\ Running(waits[k]) /\ job[waits[k]].step \in CallSteps
            /\ \A l \in Inner : waits[l] = waits[k] => l = k
        BY <4>1 DEF Calling, WaitsMatch
      <4>5. \A l \in Inner : waits'[l] = waits'[k] => l = k
        <5> SUFFICES ASSUME NEW l \in Inner, waits'[l] = waits'[k] PROVE l = k
          OBVIOUS
        <5>1. l # i /\ waits'[l] = waits[l]
          BY <2>1, <4>1, <4>2, NobodyIsNone DEF TypeOK
        <5> QED BY <4>1, <4>4, <5>1
      <4> QED BY <2>2, <4>1, <4>3, <4>4, <4>5 DEF Running
    <3>5. ASSUME NEW v \in Worker PROVE SpentInTime(v)'
      <4>1. CASE v = w
        <5>1. ~InCall(w)'
          BY <2>1, <3>1, NobodyIsNone DEF InCall, TypeOK
        <5>2. Running(w)' => Spent(job'[w]) \in Int
          BY <3>3, SpentIsInt DEF TypeJob, Running
        <5> QED BY <3>3, <4>1, <5>1, <5>2 DEF SpentInTime
      <4>2. CASE v # w
        <5>1. job'[v] = job[v] /\ (InCall(v)' <=> InCall(v))
          BY <2>1, <3>0, <3>3, <4>2, NobodyIsNone DEF Others, InCall, TypeOK
        <5> QED BY <5>1 DEF SpentInTime, Calling, Running
      <4> QED BY <4>1, <4>2
    <3> QED BY <3>3, <3>4, <3>5 DEF Calling
  <2> QED BY <2>3, <2>4
<1>6. ASSUME NEW w \in Worker, NEW i \in Inner, InnerPreReq(w, i) PROVE TypeJob' /\ Calling'
  <2>1. /\ waits' = [waits EXCEPT ![i] = w] /\ pc[i] = "idle" /\ pc' = [pc EXCEPT ![i] = "upstream"]
        /\ ~InCall(w)
    BY <1>6 DEF InnerPreReq, At, InCall
  <2>2. /\ TypeJob' /\ Others(w) /\ Running(w) /\ Running(w)'
        /\ job[w].step \in CallSteps /\ job'[w].step = job[w].step
        /\ job'[w].calls = job[w].calls + 1
        /\ job'[w].chunk = job[w].chunk /\ job'[w].attempt = job[w].attempt
    BY <1>0, <1>6, CallsCounts DEF InnerPreReq
  <2>3. waits[i] = Nobody
    BY <2>1 DEF Calling, WaitsMatch
  <2>4. WaitsMatch'
    <3> SUFFICES ASSUME NEW k \in Inner, waits'[k] # Nobody
                 PROVE  /\ pc'[k] = "upstream"
                        /\ job'[waits'[k]] # NoJob /\ job'[waits'[k]].step \in CallSteps
                        /\ \A l \in Inner : waits'[l] = waits'[k] => l = k
      BY DEF WaitsMatch, Running
    <3>1. CASE k = i
      <4>1. waits'[k] = w /\ pc'[k] = "upstream"
        BY <2>1, <3>1 DEF TypeOK, Caller
      <4>2. \A l \in Inner : waits'[l] = w => l = k
        BY <2>1, <3>1 DEF InCall, TypeOK
      <4> QED BY <2>2, <4>1, <4>2 DEF Running
    <3>2. CASE k # i
      <4>1. waits'[k] = waits[k] /\ pc'[k] = pc[k]
        BY <2>1, <3>2 DEF TypeOK, Caller
      <4>2. waits[k] \in Worker \ {w}
        BY <2>1, <4>1 DEF TypeOK, InCall
      <4>3. job'[waits[k]] = job[waits[k]]
        BY <2>2, <4>2 DEF Others
      <4>4. /\ pc[k] = "upstream" /\ Running(waits[k]) /\ job[waits[k]].step \in CallSteps
            /\ \A l \in Inner : waits[l] = waits[k] => l = k
        BY <4>1 DEF Calling, WaitsMatch
      <4>5. \A l \in Inner : waits'[l] = waits'[k] => l = k
        BY <2>1, <4>1, <4>2, <4>4 DEF TypeOK
      <4> QED BY <4>1, <4>3, <4>4, <4>5 DEF Running
    <3> QED BY <3>1, <3>2
  <2>5. ASSUME NEW v \in Worker PROVE SpentInTime(v)'
    <3>1. CASE v = w
      <4>1. InCall(w)'
        BY <2>1 DEF InCall, TypeOK
      <4>2. job[w].calls <= Spent(job[w])
        BY <1>0, <2>1, <2>2, SpentSoFar
      <4>3. Spent(job'[w]) = Spent(job[w])
        BY <2>2 DEF Spent
      <4>4. Spent(job[w]) \in Int /\ job[w].calls \in Nat
        <5>1. job[w].calls \in Nat /\ job[w].chunk \in 1 .. ChunkCount /\ job[w].attempt \in 0 .. MaxRetries
          BY <1>0, <2>2, JobFields
        <5>2. (job[w].chunk - 1) * Tries \in Nat /\ ChunkCount * Tries \in Nat /\ (ChunkCount + 1) * Tries \in Nat
          BY <5>1, Products
        <5> QED BY <2>2, <5>1, <5>2 DEF Spent, CallSteps
      <4> QED BY <2>2, <3>1, <4>1, <4>2, <4>3, <4>4 DEF SpentInTime
    <3>2. CASE v # w
      <4>1. job'[v] = job[v] /\ (InCall(v)' <=> InCall(v))
        BY <2>1, <2>2, <2>3, <3>2 DEF Others, InCall, TypeOK, ContextMgrAssumption
      <4> QED BY <4>1 DEF SpentInTime, Calling, Running
    <3> QED BY <3>1, <3>2
  <2> QED BY <2>2, <2>4, <2>5 DEF Calling
<1>7. ASSUME NEW w \in Worker, Swap(w) PROVE TypeJob' /\ Calling'
  <2>1. Running(w) /\ job[w].step = "swap" /\ ~InCall(w) /\ waits' = waits /\ pc' = pc
    BY <1>7, <1>b DEF Swap, request, CallSteps
  <2>2. job[w].calls <= 0
    BY <1>0, <2>1, SpentSoFar DEF Spent
  <2>3. CASE Goto(w, "flush")
    <3>1. TypeJob' /\ Others(w) /\ job'[w].step = "flush" /\ job'[w].calls = job[w].calls
      BY <1>0, <2>1, <2>3, GotoSteps DEF Steps
    <3> QED BY <2>1, <2>2, <3>1, OutOfCall DEF Spent
  <2>4. CASE Ends(w)
    BY <1>0, <2>1, <2>4, EndsEnds, OutOfCall
  <2> QED BY <1>7, <2>3, <2>4 DEF Swap
<1>8. ASSUME NEW w \in Worker, AuditSummary(w) PROVE TypeJob' /\ Calling'
  <2>1. Running(w) /\ job[w].step = "audit" /\ ~InCall(w) /\ waits' = waits /\ pc' = pc
    BY <1>8, <1>b DEF AuditSummary, Audit, request, CallSteps
  <2>2. job[w].calls <= (ChunkCount + 1) * Tries /\ job[w].calls \in Nat
    BY <1>0, <2>1, JobFields, SpentSoFar DEF Spent
  <2>3. CASE Goto(w, "fix")
    <3>1. TypeJob' /\ Others(w) /\ job'[w].step = "fix" /\ job'[w].calls = job[w].calls
      BY <1>0, <2>1, <2>3, GotoSteps DEF Steps, CompactionSteps, CallSteps
    <3> QED BY <2>1, <2>2, <3>1, OutOfCall DEF Spent
  <2>4. CASE Goto(w, "finish")
    <3>1. TypeJob' /\ Others(w) /\ job'[w].step = "finish" /\ job'[w].calls = job[w].calls
      BY <1>0, <2>1, <2>4, GotoSteps DEF Steps, CompactionSteps
    <3>2. job'[w].calls <= Spent(job'[w])
      BY <2>2, <3>1, Products DEF Spent
    <3> QED BY <2>1, <3>1, <3>2, OutOfCall
  <2> QED BY <1>8, <2>3, <2>4 DEF AuditSummary, Audit
<1>9. ASSUME NEW w \in Worker, Finish(w) PROVE TypeJob' /\ Calling'
  <2>1. ~InCall(w) /\ waits' = waits /\ pc' = pc /\ Ends(w)
    BY <1>9, <1>b DEF Finish, request, CallSteps
  <2> QED BY <1>0, <2>1, EndsEnds, OutOfCall
<1>10. CASE CacheExpires
  BY <1>0, <1>10, NoJobChanges DEF CacheExpires, request, TypeJob
<1> QED BY <1>1, <1>4, <1>5, <1>6, <1>7, <1>8, <1>9, <1>10 DEF Next
-----------------------------------------------------------------------------
(* The inductive invariant holds in every reachable state. *)
THEOREM InvHolds == Spec => []Inv
<1>1. Init => Inv
  <2> SUFFICES ASSUME Init PROVE Inv
    OBVIOUS
  <2>1. TypeOK
    <3>1. <<>> \in Seq(Role)
      OBVIOUS
    <3>2. /\ job \in [Worker -> Jobs \cup {NoJob}]
          /\ history \in [Session -> Seq(Role)] /\ loaded \in [Caller -> Seq(Role)]
          /\ pc \in [Caller -> Stages] /\ waits \in [Inner -> Worker \cup {Nobody}]
      BY <3>1 DEF Init, Stages
    <3> QED BY <3>2 DEF Init, TypeOK
  <2>2. OneFlushPerCycle /\ OverflowForcesOnce /\ WaitsMatch
    BY DEF Init, OneFlushPerCycle, OverflowForcesOnce, WaitsMatch
  <2>3. \A w \in Worker : SpentInTime(w)
    BY DEF Init, SpentInTime, Running
  <2> QED BY <2>1, <2>2, <2>3 DEF Inv
<1>2. Inv /\ [Next]_vars => Inv'
  <2> SUFFICES ASSUME Inv, [Next]_vars PROVE Inv'
    OBVIOUS
  <2>1. CASE Next
    <3>1. TypeRest' /\ Counters' /\ TypeJob' /\ Calling'
      BY <2>1, StepTypes, CountersKept, StepCalls DEF Inv, Calling
    <3> QED BY <3>1 DEF Inv, TypeOK, TypeRest, Counters, TypeJob, Calling
  <2>2. CASE UNCHANGED vars
    <3>1. TypeOK' /\ OneFlushPerCycle' /\ OverflowForcesOnce'
      BY <2>2 DEF Inv, TypeOK, OneFlushPerCycle, OverflowForcesOnce, vars, request, hook, store, ghost
    <3>2. Calling'
      BY <2>2, NoJobChanges DEF Inv, Calling, vars, request
    <3> QED BY <3>1, <3>2 DEF Inv, Calling
  <2> QED BY <2>1, <2>2
<1> QED BY <1>1, <1>2, PTL DEF Spec

(* Every variable of the hook keeps its type, whatever the sessions do. *)
THEOREM TypeCorrect == Spec => []TypeOK
<1>1. Inv => TypeOK
  BY DEF Inv
<1> QED BY <1>1, InvHolds, PTL

(* One flush request is sent in each compaction cycle. *)
THEOREM FlushedOnce == Spec => []OneFlushPerCycle
<1>1. Inv => OneFlushPerCycle
  BY DEF Inv
<1> QED BY <1>1, InvHolds, PTL

(* An overflow forces at most one compaction. *)
THEOREM ForcedOnce == Spec => []OverflowForcesOnce
<1>1. Inv => OverflowForcesOnce
  BY DEF Inv
<1> QED BY <1>1, InvHolds, PTL

(* A compaction makes at most MaxCalls calls. *)
THEOREM CostIsBounded == Spec => []CallsAreBounded
<1>1. Inv => CallsAreBounded
  <2> SUFFICES ASSUME Inv, NEW w \in Worker, Running(w) PROVE job[w].calls <= MaxCalls
    BY DEF CallsAreBounded
  <2>1. TypeJob
    BY DEF Inv, TypeOK, TypeJob
  <2>2. /\ job[w].step \in Steps /\ job[w].chunk \in 1 .. ChunkCount
        /\ job[w].attempt \in 0 .. MaxRetries /\ job[w].calls \in Nat
    BY <2>1, JobFields
  <2>3. job[w].calls <= Spent(job[w]) + IF job[w].step = "finish" THEN 0 ELSE 1
    <3>1. job[w].step = "finish" => ~InCall(w)
      BY DEF Inv, WaitsMatch, InCall, CallSteps
    <3>2. Calling
      BY DEF Inv, Calling
    <3>3. Spent(job[w]) \in Int
      BY <2>1, JobFields, SpentIsInt
    <3> QED BY <2>1, <2>2, <3>1, <3>2, <3>3, SpentSoFar
  <2>4. MaxCalls = (ChunkCount + 1) * Tries + 1
    BY DEF MaxCalls, Tries
  <2>5. Spent(job[w]) + (IF job[w].step = "finish" THEN 0 ELSE 1) <= (ChunkCount + 1) * Tries + 1
    <3> DEFINE c == job[w].chunk
    <3>1. /\ (c - 1) * Tries \in Nat /\ (c - 1) * Tries + Tries = c * Tries
          /\ c * Tries <= ChunkCount * Tries /\ ChunkCount * Tries \in Nat
          /\ (ChunkCount + 1) * Tries = ChunkCount * Tries + Tries
          /\ Tries \in Nat \ {0} /\ Tries = MaxRetries + 1 /\ MaxRetries \in Nat
      BY <2>2, Products, CompactionAssumption
    <3> HIDE DEF c
    <3>2. Spent(job[w]) = CASE job[w].step \in {"swap", "flush", "single"} -> 0
                            [] job[w].step = "chunk"  -> (c - 1) * Tries + job[w].attempt
                            [] job[w].step = "merge"  -> ChunkCount * Tries + job[w].attempt
                            [] job[w].step \in {"audit", "fix"} -> (ChunkCount + 1) * Tries
                            [] job[w].step = "finish" -> (ChunkCount + 1) * Tries + 1
      BY DEF Spent, c
    <3>3. c * Tries \in Int
      BY <3>1
    <3> QED BY <2>2, <3>1, <3>2, <3>3 DEF Steps, CompactionSteps, CallSteps
  <2>6. Spent(job[w]) \in Int /\ (ChunkCount + 1) * Tries \in Int
    BY <2>1, JobFields, SpentIsInt, Products
  <2> QED BY <2>2, <2>3, <2>4, <2>5, <2>6
<1> QED BY <1>1, InvHolds, PTL
=============================================================================
