---------------------------- MODULE ContextPrune ----------------------------
(* What context-mgr sends to the LLM (hooks/context-mgr/truncate.go,          *)
(* estimate.go and Process in hook.go): the guard on tool results, then,      *)
(* unless the provider's cache is warm, the three stages of pruneContext.     *)
(*                                                                            *)
(* A message is its role, the form of its content (a text, or blocks), the    *)
(* number of its characters outside images, its images, and whether           *)
(* hasImportantTail holds of it.  Indices are 1-based.                        *)
EXTENDS Integers, FiniteSets, SequencesExt

CONSTANTS
    Window,              \* the context window, in tokens
    CharsPerToken, ToolCharsPerToken, ImageChars,
    KeepLast,            \* keepLastAssistants
    SoftTrimMax,         \* softTrimMaxChars
    MinPrunable,         \* minPrunableCharsHard
    Marker, Suffix,      \* lengths of what smartTruncate inserts
    Removed, Cleared, ImageText,  \* lengths of the placeholders
    Systems,             \* what a request begins with: one message or none
    Inputs,              \* the new message of a request
    Replies,             \* what is saved after a response
    MaxHistory           \* bound on the messages of the session

ASSUME PruneAssumption ==
    /\ Window \in Nat \ {0}
    /\ CharsPerToken \in Nat \ {0} /\ ToolCharsPerToken \in Nat \ {0}
    /\ {ImageChars, KeepLast, SoftTrimMax, MinPrunable, Marker, Suffix,
        Removed, Cleared, ImageText, MaxHistory} \subseteq Nat
    /\ Suffix <= Marker

Message == [role : {"system", "user", "assistant", "tool"}, form : {"text", "blocks"},
            chars : Nat, images : Nat, tail : BOOLEAN]

ASSUME MessagesAssumption ==
    Inputs \subseteq Message /\ \A messages \in Systems \cup Replies : messages \in Seq(Message)

VARIABLES
    history,     \* the session's messages (session-hook)
    warm,        \* lastCacheTouch is within cacheTTLSeconds
    built,       \* newMessages as Process puts them together, <<>> between requests
    sent,        \* newMessages as the LLM gets them
    asked        \* truncate_session was asked for

vars == <<history, warm, built, sent, asked>>

-----------------------------------------------------------------------------
(* estimate.go *)
Chars(m) == m.chars + m.images * ImageChars

Tokens(m) == Chars(m) \div (IF m.role = "tool" THEN ToolCharsPerToken ELSE CharsPerToken)

MessagesChars(messages) == FoldLeft(LAMBDA n, m : n + Chars(m), 0, messages)

MessagesTokens(messages) == FoldLeft(LAMBDA n, m : n + Tokens(m), 0, messages)

Fits(messages) == MessagesTokens(messages) <= Window

-----------------------------------------------------------------------------
(* Helpers of truncate.go *)

(* smartTruncate of a text; messageContentString makes of blocks an empty     *)
(* one, which is short enough.  Head, marker and tail fill the limit; a head  *)
(* alone leaves the marker's room to the shorter suffix.                      *)
SmartTruncate(m, max) ==
    IF m.form = "blocks" \/ m.chars <= max THEN m
    ELSE IF max <= Marker \/ m.tail THEN [m EXCEPT !.chars = max]
    ELSE [m EXCEPT !.chars = max - Marker + Suffix]

WithText(m, length) ==
    [m EXCEPT !.form = "text", !.chars = length, !.images = 0, !.tail = FALSE]

ReplaceImages(m) == [m EXCEPT !.chars = @ + m.images * ImageText, !.images = 0]

(* The first, the last, the last KeepLast assistant messages and the tool     *)
(* results next to them.                                                      *)
ProtectedIndices(messages) ==
    LET assistants == {i \in DOMAIN messages : messages[i].role = "assistant"}
        recent     == {i \in assistants : Cardinality({j \in assistants : j >= i}) <= KeepLast}
    IN  {1, Len(messages)} \cup recent \cup
        {i \in DOMAIN messages : messages[i].role = "tool" /\ {i - 1, i + 1} \cap recent # {}}

Free(messages) == DOMAIN messages \ ProtectedIndices(messages)

-----------------------------------------------------------------------------
(* Layer 2: guardToolResults. *)
SingleCap   == (Window * ToolCharsPerToken) \div 2
TotalBudget == (Window * CharsPerToken * 3) \div 4

CapToolResults(messages) ==
    [i \in DOMAIN messages |->
       IF messages[i].role = "tool" THEN SmartTruncate(messages[i], SingleCap) ELSE messages[i]]

(* The turn of the loop at index i, which keeps the total by subtraction.     *)
Goes(messages, st, i) ==
    i \in Free(messages) /\ messages[i].role = "tool" /\ st.total > TotalBudget

(* A slip: the placeholder is not counted. *)
EnforceUncounted(messages, st, i) ==
    IF ~Goes(messages, st, i) THEN st
    ELSE [messages |-> [st.messages EXCEPT ![i] = WithText(@, Removed)],
          total    |-> st.total - Chars(st.messages[i])]

EnforceAt(messages, st, i) ==
    IF ~Goes(messages, st, i) THEN st
    ELSE LET before == st.messages[i]
             after  == WithText(before, Removed)
         IN  [messages |-> [st.messages EXCEPT ![i] = after],
              total    |-> st.total - (Chars(before) - Chars(after))]

(* From the oldest on, while the total is over budget. *)
EnforceTotalBudget(messages) ==
    FoldLeftDomain(LAMBDA st, i : EnforceAt(messages, st, i),
        [messages |-> messages, total |-> MessagesChars(messages)], messages).messages

GuardToolResults(messages) == EnforceTotalBudget(CapToolResults(messages))

-----------------------------------------------------------------------------
(* Layer 1: pruneContext.  It is past its first return only with more tokens  *)
(* than the window has, where the ratios of its stages are reached.           *)
SoftTrim(messages) ==
    [i \in DOMAIN messages |->
       IF i \notin Free(messages) THEN messages[i]
       ELSE IF messages[i].form = "blocks" THEN ReplaceImages(messages[i])
       ELSE SmartTruncate(messages[i], SoftTrimMax)]

HardClear(messages) ==
    LET prunable == {i \in Free(messages) : messages[i].role \in {"assistant", "tool"}}
    IN  IF MapThenSumSet(LAMBDA i : Chars(messages[i]), prunable) < MinPrunable THEN messages
        ELSE [i \in DOMAIN messages |->
                IF i \in prunable THEN WithText(messages[i], Cleared) ELSE messages[i]]

(* One turn of the loop of dropOldestMessages: the first message of the       *)
(* middle that is not protected goes, and the protected indices move up.      *)
FirstFree(st) ==
    {j \in 2 .. Len(st.messages) - 1 : /\ j \notin st.protected
                                       /\ \A i \in 2 .. j - 1 : i \in st.protected}

(* A slip: the protected indices stay. *)
DropUnshifted(st) ==
    IF Fits(st.messages) \/ FirstFree(st) = {} THEN st
    ELSE [st EXCEPT !.messages = RemoveAt(@, Min(FirstFree(st)))]

DropFirst(st) ==
    IF Fits(st.messages) \/ FirstFree(st) = {} THEN st
    ELSE LET j == Min(FirstFree(st))
         IN  [messages  |-> RemoveAt(st.messages, j),
              protected |-> {i \in st.protected : i < j} \cup {i - 1 : i \in {k \in st.protected : k > j}}]

DropOldest(messages, protected) ==
    FoldLeft(LAMBDA st, m : DropFirst(st), [messages |-> messages, protected |-> protected],
             messages).messages

(* A slip: nothing is dropped. *)
PruneContextClearing(messages) ==
    IF Fits(messages) THEN messages ELSE HardClear(SoftTrim(messages))

PruneContext(messages) ==
    LET trimmed == SoftTrim(messages)
        cleared == HardClear(trimmed)
    IN  IF Fits(messages) \/ Len(messages) <= 2 THEN messages
        ELSE IF Fits(trimmed) THEN trimmed
        ELSE IF Fits(cleared) THEN cleared
        ELSE DropOldest(cleared, ProtectedIndices(messages))

-----------------------------------------------------------------------------
Init ==
    /\ history = <<>> /\ warm = FALSE
    /\ built = <<>> /\ sent = <<>> /\ asked = FALSE

(* Process. *)
PreReq(system, input) ==
    /\ built = <<>>
    /\ Len(history) + 2 <= MaxHistory
    /\ LET messages == system \o history \o <<input>>
           guarded  == GuardToolResults(messages)
           final    == IF warm THEN guarded ELSE PruneContext(guarded)
       IN  /\ built' = messages
           /\ sent' = final
           /\ asked' = (asked \/ ~Fits(final))
           (* The guard caps the input itself, before it is saved. *)
           /\ history' = Append(history, CapToolResults(messages)[Len(messages)])
    /\ UNCHANGED warm

(* Notify, and what session-hook saves besides. *)
PostResp(reply) ==
    /\ built # <<>>
    /\ Len(history) + Len(reply) <= MaxHistory
    /\ history' = history \o reply
    /\ warm' = TRUE
    /\ built' = <<>> /\ sent' = <<>>
    /\ UNCHANGED asked

(* Between requests: during one nobody looks, and its end touches the cache.  *)
CacheExpires ==
    /\ warm /\ built = <<>>
    /\ warm' = FALSE
    /\ UNCHANGED <<history, built, sent, asked>>

(* session-hook drops the older half of a history. *)
SessionTruncated ==
    /\ asked /\ built = <<>>
    /\ asked' = FALSE
    /\ history' = SubSeq(history, Len(history) \div 2 + 1, Len(history))
    /\ UNCHANGED <<warm, built, sent>>

Next ==
    \/ \E system \in Systems, input \in Inputs : PreReq(system, input)
    \/ \E reply \in Replies : PostResp(reply)
    \/ CacheExpires
    \/ SessionTruncated

Spec == Init /\ [][Next]_vars

-----------------------------------------------------------------------------
(* How many messages were dropped, the oldest n that are not protected, and   *)
(* where a message goes when these are dropped.                               *)
Dropped == Len(built) - Len(sent)

Oldest(n) ==
    {i \in Free(built) : Cardinality({j \in Free(built) : j <= i}) <= n}

Place(i, n) == i - Cardinality({j \in Oldest(n) : j < i})

(* "Always preserves: system (first), last user (last), recent N assistant    *)
(* turns" (truncate.go:91), and of the others the oldest go first: what is    *)
(* sent are the messages that were built, in their order, without the oldest  *)
(* unprotected ones; and the protected ones are whole, but for the cap on a   *)
(* single tool result.                                                        *)
OnlyTheOldestGo ==
    /\ Dropped \in 0 .. Cardinality(Free(built))
    /\ \A i \in DOMAIN built \ Oldest(Dropped) :
          LET kept == sent[Place(i, Dropped)]
          IN  /\ kept.role = built[i].role
              /\ i \notin Free(built) => kept = CapToolResults(built)[i]

(* A message is dropped only if the rest does not fit with it, however much   *)
(* it was reduced; and while the cache is cold a context that is too large,   *)
(* for which the session is truncated for good, has nothing left to drop      *)
(* (hook.go:137 "Layers 1+2 insufficient").  With a warm cache the code       *)
(* truncates such a session without having tried, and the second half says    *)
(* nothing.                                                                   *)
DropsWhatItMust ==
    /\ Dropped > 0 =>
          LET last    == Max(Oldest(Dropped))
              reduced == HardClear(SoftTrim(GuardToolResults(built)))
          IN  MessagesTokens(sent) + Tokens(reduced[last]) > Window
    /\ ~Fits(sent) /\ ~warm => Oldest(Dropped) = Free(built)

(* The guard on tool results, before any pruning: one whose content is a text *)
(* is no longer than half the window or is a placeholder (content in blocks   *)
(* the code does not cap: its text is empty for messageContentString,         *)
(* truncate.go:40-43); and however the total was kept, results of either form *)
(* give way from the oldest unprotected one on (one that looked like a        *)
(* placeholder already may be among them), until the messages are in budget   *)
(* or none is left (truncate.go:11-13, 52-80).                                *)
GuardHolds ==
    LET guarded  == GuardToolResults(built)
        capped   == CapToolResults(built)
        results  == {i \in Free(built) : built[i].role = "tool"}
        gone     == {i \in results : guarded[i] = WithText(built[i], Removed)}
        replaced == {i \in DOMAIN built : guarded[i] # capped[i]}
    IN  /\ \A i \in DOMAIN guarded :
              guarded[i].role = "tool" /\ guarded[i].form = "text" =>
                  guarded[i].chars <= IF i \in gone THEN Removed ELSE SingleCap
        /\ MessagesChars(guarded) <= TotalBudget \/ gone = results
        /\ replaced \subseteq gone
        /\ \A i \in replaced, j \in results : j < i => j \in gone
=============================================================================
