-------------------------- MODULE CompactedHistory --------------------------
(* What a compaction makes of a session (hooks/context-mgr/compact.go): which *)
(* messages stay, which are summarized, in how many calls, and which are      *)
(* left out.  The goroutine that does it is the module Compaction.            *)
EXTENDS ContextPrune

CONSTANTS
    MinMessages,     \* fewer messages are not compacted, nor cut in chunks
    PreservedTurns,  \* user turns kept verbatim
    TurnChars,       \* up to this length
    Ellipsis,        \* the length of what marks the cut
    HistoryShare,    \* compactMaxHistoryShare of the window
    ChunkCount,
    SummaryChars     \* lengths of a summary, 0 if the LLM answered nothing

ASSUME CompactedAssumption ==
    /\ MinMessages \in Nat \ {0} /\ PreservedTurns \in Nat \ {0}
    /\ TurnChars \in Nat /\ Ellipsis \in Nat /\ HistoryShare \in 0 .. Window /\ ChunkCount \in Nat \ {0}
    /\ SummaryChars \subseteq Nat

-----------------------------------------------------------------------------
(* splitPreservedTurns: the last turns begin with a user message; the system  *)
(* message is in neither part, unless nobody has said anything.               *)
LastTurns(messages) ==
    LET users == {i \in DOMAIN messages : messages[i].role = "user"}
    IN  {i \in users : Cardinality({j \in users : j >= i}) <= PreservedTurns}

Shortened(m) ==
    IF m.form = "blocks" \/ m.chars <= TurnChars THEN m
    ELSE [m EXCEPT !.chars = TurnChars + Ellipsis, !.tail = FALSE]

Preserved(messages) ==
    IF LastTurns(messages) = {} THEN <<>>
    ELSE LET kept == SubSeq(messages, Min(LastTurns(messages)), Len(messages))
         IN  [i \in DOMAIN kept |-> Shortened(kept[i])]

SystemOf(messages) ==
    IF messages # <<>> /\ messages[1].role = "system" THEN <<messages[1]>> ELSE <<>>

(* A slip: the system message is summarized too. *)
RestWithSystem(messages) ==
    IF LastTurns(messages) = {} THEN messages
    ELSE SubSeq(messages, 1, Min(LastTurns(messages)) - 1)

Rest(messages) ==
    IF LastTurns(messages) = {} THEN messages
    ELSE SubSeq(messages, Len(SystemOf(messages)) + 1, Min(LastTurns(messages)) - 1)

-----------------------------------------------------------------------------
(* pruneForBudget: the oldest go, the last never. *)
PruneForBudget(messages) ==
    LET Newest(k) == SubSeq(messages, k, Len(messages))
        fitting   == {k \in DOMAIN messages : MessagesTokens(Newest(k)) <= HistoryShare}
    IN  IF messages = <<>> THEN <<>> ELSE Newest(Min(fitting \cup {Len(messages)}))

(* A slip: the last chunk is cut like the others. *)
CutChunksOn(messages, target) ==
    FoldLeft(LAMBDA st, m :
        IF st.tokens + Tokens(m) > target /\ st.current # <<>>
        THEN [chunks |-> Append(st.chunks, st.current), current |-> <<m>>, tokens |-> Tokens(m)]
        ELSE [st EXCEPT !.current = Append(@, m), !.tokens = @ + Tokens(m)],
        [chunks |-> <<>>, current |-> <<>>, tokens |-> 0], messages)

(* splitIntoChunks, with the chunk under construction. *)
CutChunks(messages, target) ==
    FoldLeft(LAMBDA st, m :
        IF /\ st.tokens + Tokens(m) > target /\ st.current # <<>>
           /\ Len(st.chunks) < ChunkCount - 1
        THEN [chunks |-> Append(st.chunks, st.current), current |-> <<m>>, tokens |-> Tokens(m)]
        ELSE [st EXCEPT !.current = Append(@, m), !.tokens = @ + Tokens(m)],
        [chunks |-> <<>>, current |-> <<>>, tokens |-> 0], messages)

Target(messages) == Max({MessagesTokens(messages) \div ChunkCount, 1})

(* A slip: the chunk that is not full is forgotten. *)
FullChunks(messages) ==
    IF ChunkCount <= 1 \/ Len(messages) <= ChunkCount THEN <<messages>>
    ELSE CutChunks(messages, Target(messages)).chunks

SplitIntoChunks(messages) ==
    IF ChunkCount <= 1 \/ Len(messages) <= ChunkCount THEN <<messages>>
    ELSE LET st == CutChunks(messages, Target(messages))
         IN  IF st.current = <<>> THEN st.chunks ELSE Append(st.chunks, st.current)

(* summarizeInStages: the messages of each call but the merge. *)
Summarized(messages) ==
    LET rest == PruneForBudget(Rest(messages))
    IN  IF rest = <<>> THEN <<>>
        ELSE IF Len(rest) < MinMessages THEN <<rest>>
        ELSE SplitIntoChunks(rest)

(* The LLM's answer with the lists of failures and files added to it, n       *)
(* characters in all.  An empty one is left out.                              *)
Summary(n) == [role |-> "assistant", form |-> "text", chars |-> n, images |-> 0, tail |-> FALSE]

Between(messages, n) ==
    IF Summarized(messages) = <<>> \/ n = 0 THEN <<>> ELSE <<Summary(n)>>

(* run and buildCompactedMessages *)
Compacted(messages, n) == SystemOf(messages) \o Between(messages, n) \o Preserved(messages)

-----------------------------------------------------------------------------
(* The sessions that are compacted, with and without a system message. *)
Compactable == {s \in {system \o history : system \in Systems} : Len(s) >= MinMessages}

(* Every message of the session is in the compacted one, in one call of the   *)
(* summary, or among the oldest that are beyond the share of the window       *)
(* (compact.go:157-215, 243-275): none is lost between two chunks, before the *)
(* preserved turns or behind the system message, and none is told twice.      *)
(* Only a session in which no user has spoken has its system message both     *)
(* kept and told (compact.go:174-176): head is 0 then.                        *)
CompactionCoversTheSession ==
    built = <<>> => \A messages \in Compactable :
       LET told    == FlattenSeq(Summarized(messages))
           kept    == Preserved(messages)
           first   == Len(messages) - Len(kept) - Len(told)
           head    == IF LastTurns(messages) = {} THEN 0 ELSE Len(SystemOf(messages))
       IN  /\ first >= head
           /\ told = SubSeq(messages, first + 1, first + Len(told))
           /\ \A i \in DOMAIN kept : kept[i] = Shortened(messages[first + Len(told) + i])
           /\ first > head =>
                MessagesTokens(SubSeq(messages, first, first + Len(told))) > HistoryShare
           /\ first > head /\ Len(told) > 1 => MessagesTokens(told) <= HistoryShare

(* The summary is made in at most ChunkCount calls, none of them empty, and   *)
(* only the last holds more than its part of the tokens or a single message   *)
(* ("roughly equal chunks", compact.go:242).                                  *)
ChunksAreBalanced ==
    built = <<>> => \A messages \in Compactable :
       LET calls == Summarized(messages)
           part  == Target(FlattenSeq(calls))
       IN  /\ Len(calls) <= ChunkCount
           /\ \A i \in DOMAIN calls : calls[i] # <<>>
           /\ \A i \in DOMAIN calls \ {Len(calls)} :
                MessagesTokens(calls[i]) <= part \/ Len(calls[i]) = 1

(* Compacting a compacted session again replaces its summary and nothing      *)
(* else, whatever the two summaries are: the system message stays in its      *)
(* place, the last user turns are the same and none is cut a second time, and *)
(* the LLM is asked about the earlier summary alone (compact.go:42-118).      *)
(* Whether it repeats what that one said, the lists added to it included, is  *)
(* not in the hands of the code.                                              *)
CompactingAgainKeepsTheTurns ==
    built = <<>> => \A messages \in Compactable, first, second \in SummaryChars :
       LET once == Compacted(messages, first)
           told == FlattenSeq(Summarized(once))
       IN  LastTurns(messages) # {} /\ Len(once) >= MinMessages =>
              /\ told = Between(messages, first)
              /\ Compacted(once, second) =
                    SystemOf(messages) \o (IF told = <<>> THEN <<>> ELSE Between(messages, second))
                      \o Preserved(messages)
=============================================================================
