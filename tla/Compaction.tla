----------------------------- MODULE Compaction -----------------------------
(* The goroutines context-mgr starts after a response: a compaction           *)
(* (hooks/context-mgr/compact.go) or a memory flush (flush.go).  A message is *)
(* its role and counts as one token; the text of summaries is left out, but   *)
(* for whether it passes the audit.                                           *)
EXTENDS Sequences, Integers, FiniteSets

CONSTANTS
    Worker,          \* the goroutines at work at the same time
    MinMessages,     \* fewer messages are not compacted, nor cut in chunks
    PreservedTurns,  \* user turns kept verbatim
    Budget,          \* the share of the window to summarize
    ChunkCount,
    MaxRetries

ASSUME CompactionAssumption ==
    /\ MinMessages \in Nat \ {0} /\ PreservedTurns \in Nat /\ Budget \in Nat \ {0}
    /\ ChunkCount \in Nat \ {0}  /\ MaxRetries \in Nat

VARIABLE job    \* worker -> its goroutine, or NoJob

Role == {"user", "assistant"}

(* calls is history: the calls made to the LLM. *)
NewJob(step) == [step |-> step, chunk |-> 1, attempt |-> 0, calls |-> 0]

NoJob == [step |-> "none"]

CallSteps == {"flush", "single", "chunk", "merge", "fix"}
CompactionSteps == (CallSteps \ {"flush"}) \cup {"audit", "finish"}

Running(w) == job[w] # NoJob
Compacting(w) == Running(w) /\ job[w].step \in CompactionSteps

-----------------------------------------------------------------------------
(* What comes before the last PreservedTurns user messages, all of it if      *)
(* nobody has said anything.                                                  *)
UserTurns(messages) == {i \in DOMAIN messages : messages[i] = "user"}

ToSummarize(messages) ==
    LET users == UserTurns(messages)
        kept  == {i \in users : Cardinality({j \in users : j >= i}) <= PreservedTurns}
    IN  IF kept = {} THEN Len(messages)
        ELSE (CHOOSE i \in kept : \A j \in kept : i <= j) - 1

(* The oldest messages beyond the budget are left out. *)
PruneForBudget(n) == IF n > Budget THEN Budget ELSE n

FirstStep(messages) ==
    LET n == PruneForBudget(ToSummarize(messages))
    IN  IF n = 0 THEN "finish" ELSE IF n < MinMessages THEN "single" ELSE "chunk"

-----------------------------------------------------------------------------
Goto(w, step)  == job' = [job EXCEPT ![w].step = step, ![w].attempt = 0]
Ends(w)        == job' = [job EXCEPT ![w] = NoJob]

Start(w, step) ==
    /\ ~Running(w)
    /\ job' = [job EXCEPT ![w] = NewJob(step)]

(* A go statement.  Beyond the bound on the goroutines it is left out.        *)
Starts(step) ==
    \/ \E w \in Worker : Start(w, step)
    \/ (\A w \in Worker : Running(w)) /\ UNCHANGED job

(* A call of callLLM or of flush is made, is answered, or fails.  The chunks  *)
(* are fewer than ChunkCount when few messages hold most of the tokens.       *)
Calls(w) ==
    /\ Running(w) /\ job[w].step \in CallSteps
    /\ job' = [job EXCEPT ![w].calls = @ + 1]

CallSucceeds(w) ==
    CASE job[w].step = "flush" -> Ends(w)
      [] job[w].step = "chunk" ->
           \/ /\ job[w].chunk < ChunkCount
              /\ job' = [job EXCEPT ![w].chunk = @ + 1, ![w].attempt = 0]
           \/ Goto(w, "merge")
      [] job[w].step \in {"single", "merge"} -> Goto(w, "audit")
      [] job[w].step = "fix" -> Goto(w, "finish")

(* A slip: the attempts of a failed call are not counted. *)
RetriesForEver(w) ==
    IF job[w].step \in {"chunk", "merge"} THEN UNCHANGED job ELSE Ends(w)

CallFails(w) ==
    IF job[w].step \in {"chunk", "merge"} /\ job[w].attempt < MaxRetries
    THEN job' = [job EXCEPT ![w].attempt = @ + 1]
    ELSE Ends(w)

(* A summary that fails the audit is asked for once more, not audited again.  *)
Audit(w) ==
    /\ Running(w) /\ job[w].step = "audit"
    /\ \/ Goto(w, "finish")
       \/ Goto(w, "fix")
-----------------------------------------------------------------------------
Steps == CompactionSteps \cup {"swap", "flush"}

Jobs ==
    [step : Steps, chunk : 1 .. ChunkCount, attempt : 0 .. MaxRetries, calls : Nat]

(* Each chunk and the merge are tried MaxRetries + 1 times, the fix once.     *)
MaxCalls == (ChunkCount + 1) * (MaxRetries + 1) + 1
=============================================================================
