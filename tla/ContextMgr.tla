----------------------------- MODULE ContextMgr -----------------------------
(* The context-mgr hook (hooks/context-mgr): Process before and Notify after  *)
(* each request of the gateway, the goroutines Notify starts, and the calls   *)
(* these make through the same gateway, which the hook therefore sees as      *)
(* requests too.  One hook serves all sessions.                               *)
(*                                                                            *)
(* External: the gateway, which runs the hook around every request, and       *)
(* session-hook, which keeps the history, appends what the hook asks it to    *)
(* save and may shorten a history the hook asks it to truncate.  A flush      *)
(* carries a session key of its own (flush.go:91), whose history is some      *)
(* member of FlushHistories; a call of a compaction carries none.             *)
EXTENDS Compaction

CONSTANTS
    Session,
    FlushHistories, \* what the history of a session of flushes may be
    Inner,        \* requests of goroutines the gateway serves at the same time
    Nobody,
    Window,       \* the context window, in messages
    CompactAt,    \* compactTriggerRatio of the window
    FlushAt,      \* the window without flushReserveTokens and flushSoftThreshold
    MaxHistory,   \* bound on the messages of a session
    MaxOverflows  \* bound on the overflow errors

ASSUME ContextMgrAssumption ==
    /\ Window \in Nat /\ CompactAt \in Nat /\ FlushAt \in Nat \ {0}
    /\ MaxHistory \in Nat /\ MaxOverflows \in Nat
    /\ Session \cap Inner = {} /\ Nobody \notin Worker

ASSUME FlushAssumption == FlushHistories \subseteq Seq(Role)

Caller == Session \cup Inner

VARIABLES
    history,        \* session -> the roles of its messages (session-hook)
    truncate,       \* sessions the hook has asked to truncate
    pc,             \* request -> where it is between client, hook and LLM
    loaded,         \* request -> the history it came with
    waits,          \* request of a goroutine -> who awaits it, or Nobody
    warm,           \* lastCacheTouch is within cacheTTLSeconds
    compactPending,
    flushCount,
    flushes,        \* history: flush requests sent in this cycle
    credit          \* history: overflows noted, less compactions they forced

request == <<pc, loaded, waits>>
hook    == <<warm, compactPending, flushCount>>
store   == <<history, truncate>>
ghost   == <<flushes, credit>>
vars    == <<job, request, hook, store, ghost>>

Stages == {"idle", "upstream", "touch", "overflow", "flush", "compact"}

Init ==
    /\ job = [w \in Worker |-> NoJob]
    /\ history = [s \in Session |-> <<>>]
    /\ truncate = {}
    /\ pc = [c \in Caller |-> "idle"]
    /\ loaded = [c \in Caller |-> <<>>]
    /\ waits = [i \in Inner |-> Nobody]
    /\ warm = FALSE
    /\ compactPending = FALSE
    /\ flushCount = 0
    /\ flushes = 0
    /\ credit = 0

-----------------------------------------------------------------------------
At(c, here, there) == pc[c] = here /\ pc' = [pc EXCEPT ![c] = there]

(* What pruning leaves of n messages that count one token each: the window    *)
(* holds all that is protected.                                               *)
Pruned(n) == IF n > Window THEN Window ELSE n

ShouldPrune == ~warm

(* Process.  The user message is saved. *)
PreReq(s) ==
    /\ At(s, "idle", "upstream")
    /\ Len(history[s]) + 2 <= MaxHistory
    /\ loaded' = [loaded EXCEPT ![s] = history[s]]
    /\ history' = [history EXCEPT ![s] = Append(@, "user")]
    /\ LET size  == Len(history[s]) + 1
           final == IF ShouldPrune THEN Pruned(size) ELSE size
       IN  truncate' = IF final > Window THEN truncate \cup {s} ELSE truncate
    /\ UNCHANGED <<job, waits, hook, ghost>>

(* A goroutine calls the gateway: Process sees a request like any other. *)
InnerPreReq(w, i) ==
    /\ \A k \in Inner : waits[k] # w
    /\ At(i, "idle", "upstream")
    /\ waits' = [waits EXCEPT ![i] = w]
    /\ \E h \in (IF job[w].step = "flush" THEN FlushHistories ELSE {<<>>}) :
         loaded' = [loaded EXCEPT ![i] = h]
    /\ Calls(w)
    /\ UNCHANGED <<hook, store, ghost>>

Respond(s) ==
    /\ At(s, "upstream", "touch")
    /\ UNCHANGED <<job, loaded, waits, hook, store, ghost>>

(* The answer reaches the goroutine that still waits for it. *)
InnerRespond(i) ==
    /\ At(i, "upstream", "touch")
    /\ IF waits[i] = Nobody THEN UNCHANGED job
       ELSE CallSucceeds(waits[i]) \/ CallFails(waits[i])
    /\ waits' = [waits EXCEPT ![i] = Nobody]
    /\ UNCHANGED <<loaded, hook, store, ghost>>

(* The HTTP client gives up after 120 s; the request goes on. *)
CallTimesOut(i) ==
    /\ waits[i] # Nobody
    /\ CallFails(waits[i])
    /\ waits' = [waits EXCEPT ![i] = Nobody]
    /\ UNCHANGED <<pc, loaded, hook, store, ghost>>

-----------------------------------------------------------------------------
(* Notify, in the order of its critical sections. *)
Touch(c) ==
    /\ At(c, "touch", "overflow")
    /\ warm' = TRUE
    /\ UNCHANGED <<job, loaded, waits, compactPending, flushCount, store, ghost>>

(* The trace of the request may end in an overflow error. *)
NoteOverflow(c) ==
    /\ At(c, "overflow", "flush")
    /\ \/ credit < MaxOverflows /\ compactPending' = TRUE /\ credit' = credit + 1
       \/ UNCHANGED <<compactPending, credit>>
    /\ UNCHANGED <<job, loaded, waits, warm, flushCount, store, flushes>>

ShouldFlush(c) == Len(loaded[c]) >= FlushAt /\ flushCount = 0

CheckFlush(c) ==
    /\ At(c, "flush", "compact")
    /\ IF ShouldFlush(c) THEN Starts("swap") ELSE UNCHANGED job
    /\ UNCHANGED <<loaded, waits, hook, store, ghost>>

(* A slip: the flag is read here and cleared by nobody. *)
TakePendingKeeping ==
    /\ UNCHANGED compactPending
    /\ credit' = IF compactPending THEN credit - 1 ELSE credit

(* Whoever comes first takes the flag, for its own session. *)
TakePending ==
    /\ compactPending' = FALSE
    /\ credit' = IF compactPending THEN credit - 1 ELSE credit

(* The tool steps of the trace, if it has any, are saved; the request is done. *)
CheckCompaction(c) ==
    /\ At(c, "compact", "idle")
    /\ TakePending
    /\ IF (compactPending \/ Len(loaded[c]) >= CompactAt) /\ Len(loaded[c]) >= MinMessages
       THEN Starts(FirstStep(loaded[c]))
       ELSE UNCHANGED job
    /\ \/ c \in Session /\ history' = [history EXCEPT ![c] = Append(@, "assistant")]
       \/ UNCHANGED history
    /\ loaded' = [loaded EXCEPT ![c] = <<>>]
    /\ UNCHANGED <<waits, warm, flushCount, truncate, flushes>>

-----------------------------------------------------------------------------
(* A slip: the goroutine trusts Notify's check. *)
SwapBlindly(w) ==
    /\ Running(w) /\ job[w].step = "swap"
    /\ Goto(w, "flush") /\ flushCount' = 1 /\ flushes' = flushes + 1
    /\ UNCHANGED <<request, warm, compactPending, store, credit>>

(* flush: CompareAndSwap(0, 1), then the request. *)
Swap(w) ==
    /\ Running(w) /\ job[w].step = "swap"
    /\ IF flushCount = 0
       THEN Goto(w, "flush") /\ flushCount' = 1 /\ flushes' = flushes + 1
       ELSE Ends(w) /\ UNCHANGED <<flushCount, flushes>>
    /\ UNCHANGED <<request, warm, compactPending, store, credit>>

AuditSummary(w) == Audit(w) /\ UNCHANGED <<request, hook, store, ghost>>

(* A slip: the cycle ends after its flush. *)
FinishAfterFlush(w) ==
    /\ Running(w) /\ job[w].step = "finish" /\ flushCount = 1
    /\ Ends(w) /\ flushCount' = 0 /\ flushes' = 0
    /\ UNCHANGED <<request, warm, compactPending, store, credit>>

(* runCompaction's end: the cycle is reset, and the result dropped. *)
Finish(w) ==
    /\ Running(w) /\ job[w].step = "finish"
    /\ Ends(w)
    /\ flushCount' = 0
    /\ flushes' = 0
    /\ UNCHANGED <<request, warm, compactPending, store, credit>>

CacheExpires ==
    /\ warm
    /\ warm' = FALSE
    /\ UNCHANGED <<job, request, compactPending, flushCount, store, ghost>>

(* session-hook drops the older half of a history. *)
SessionTruncated(s) ==
    /\ s \in truncate /\ pc[s] = "idle"
    /\ truncate' = truncate \ {s}
    /\ history' = [history EXCEPT ![s] = SubSeq(@, Len(@) \div 2 + 1, Len(@))]
    /\ UNCHANGED <<job, request, hook, ghost>>

(* At the bound the client opens a new session. *)
NewSession(s) ==
    /\ pc[s] = "idle" /\ Len(history[s]) + 2 > MaxHistory
    /\ truncate' = truncate \ {s}
    /\ history' = [history EXCEPT ![s] = <<>>]
    /\ UNCHANGED <<job, request, hook, ghost>>

-----------------------------------------------------------------------------
Notify(c) == Touch(c) \/ NoteOverflow(c) \/ CheckFlush(c) \/ CheckCompaction(c)

Next ==
    \/ \E s \in Session :
         PreReq(s) \/ Respond(s) \/ SessionTruncated(s) \/ NewSession(s)
    \/ \E i \in Inner : InnerRespond(i) \/ CallTimesOut(i)
    \/ \E c \in Caller : Notify(c)
    \/ \E w \in Worker :
         \/ \E i \in Inner : InnerPreReq(w, i)
         \/ Swap(w) \/ AuditSummary(w) \/ Finish(w)
    \/ CacheExpires

Spec == Init /\ [][Next]_vars

(* Goroutines are scheduled, the gateway answers or the client gives up, and  *)
(* the hook's own steps never wait.  InnerPreReq is strongly fair because the *)
(* code has no bound on the requests it waits for, as Inner is here.          *)
Fairness ==
    /\ \A i \in Inner : WF_vars(InnerRespond(i))
    /\ \A c \in Caller : WF_vars(Notify(c))
    /\ \A w \in Worker :
         /\ SF_vars(\E i \in Inner : InnerPreReq(w, i))
         /\ WF_vars(Swap(w)) /\ WF_vars(AuditSummary(w)) /\ WF_vars(Finish(w))

FairSpec == Spec /\ Fairness
-----------------------------------------------------------------------------
TypeOK ==
    /\ job \in [Worker -> Jobs \cup {NoJob}]
    /\ history \in [Session -> Seq(Role)]
    /\ truncate \subseteq Session
    /\ pc \in [Caller -> Stages]
    /\ loaded \in [Caller -> Seq(Role)]
    /\ waits \in [Inner -> Worker \cup {Nobody}]
    /\ warm \in BOOLEAN /\ compactPending \in BOOLEAN
    /\ flushCount \in {0, 1} /\ flushes \in Nat /\ credit \in Nat

(* "Only flush once per compaction cycle" (flush.go:40): however many         *)
(* responses find the counter at zero, one request is sent until the next     *)
(* compaction.                                                                *)
OneFlushPerCycle == flushes <= flushCount

(* An overflow forces at most one compaction (hook.go:36, 197-202), whichever *)
(* sessions and internal requests pass the critical section.                  *)
OverflowForcesOnce == credit >= IF compactPending THEN 1 ELSE 0

(* A compaction costs at most MaxCalls calls, whatever fails (compact.go:69,  *)
(* 81, 226-239, 280).                                                         *)
CallsAreBounded == \A w \in Worker : Running(w) => job[w].calls <= MaxCalls

(* A goroutine comes to an end, whatever the gateway answers. *)
GoroutinesEnd == \A w \in Worker : Running(w) ~> ~Running(w)

=============================================================================
