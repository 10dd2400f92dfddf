------------------------- MODULE ContextPruneProofs -------------------------
(***************************************************************************)
(* Proofs about what context-mgr sends to the LLM and about what a         *)
(* compaction makes of a session, for histories, windows and shares of any *)
(* size.                                                                   *)
(***************************************************************************)
EXTENDS ContextPruneInv, FoldLemmas

-----------------------------------------------------------------------------
(* estimate.go *)

LEMMA Constants ==
    /\ SingleCap \in Nat /\ TotalBudget \in Nat /\ Window \in Nat
    /\ Marker \in Nat /\ Suffix \in Nat /\ Suffix <= Marker
    /\ Removed \in Nat /\ Cleared \in Nat /\ SoftTrimMax \in Nat /\ KeepLast \in Nat
    /\ ImageText \in Nat /\ ImageChars \in Nat
<1>1. /\ Window \in Nat /\ CharsPerToken \in Nat /\ ToolCharsPerToken \in Nat
      /\ Marker \in Nat /\ Suffix \in Nat /\ Suffix <= Marker
      /\ Removed \in Nat /\ Cleared \in Nat /\ SoftTrimMax \in Nat /\ KeepLast \in Nat
      /\ ImageText \in Nat /\ ImageChars \in Nat
  BY PruneAssumption
<1>2. \A a, b \in Nat : (a * b) \div 2 \in Nat /\ (a * b * 3) \div 4 \in Nat
  <2>1. \A c \in Nat : c \div 2 \in Nat /\ (c * 3) \div 4 \in Nat
    OBVIOUS
  <2>2. \A a, b \in Nat : a * b \in Nat
    OBVIOUS
  <2> QED BY <2>1, <2>2
<1>3. SingleCap \in Nat /\ TotalBudget \in Nat
  BY <1>1, <1>2 DEF SingleCap, TotalBudget
<1> QED BY <1>1, <1>3

LEMMA CharsType ==
    ASSUME NEW m \in Message
    PROVE  Chars(m) \in Nat /\ Tokens(m) \in Int
<1>1. m.chars \in Nat /\ m.images \in Nat
  BY DEF Message
<1>2. \A a, b, c \in Nat : a + b * c \in Nat
  OBVIOUS
<1>3. Chars(m) \in Nat
  BY <1>1, <1>2, Constants DEF Chars
<1>4. \A a \in Nat, b \in Nat \ {0} : a \div b \in Int
  OBVIOUS
<1>5. (IF m.role = "tool" THEN ToolCharsPerToken ELSE CharsPerToken) \in Nat \ {0}
  BY PruneAssumption
<1> HIDE DEF Chars
<1> QED BY <1>3, <1>4, <1>5 DEF Tokens

TokensRun(f, messages) ==
    /\ f[0] = 0
    /\ \A k \in 1..Len(messages) : f[k] = f[k - 1] + Tokens(messages[k])
    /\ MessagesTokens(messages) = f[Len(messages)]

LEMMA TokensValues ==
    ASSUME NEW messages \in Seq(Message)
    PROVE  \E f \in [0..Len(messages) -> Int] : TokensRun(f, messages)
<1> DEFINE n == Len(messages)
           step == [a \in (1..n) \X Int |-> a[2] + Tokens(messages[a[1]])]
           After(it) == [S \in SUBSET DOMAIN messages |->
                           IF S = {} THEN 0
                           ELSE it[S \ {Max(S)}] + Tokens(messages[Max(S)])]
           chosen == CHOOSE it : it = After(it)
           ints == Int
           zero == 0
<1>1. n \in Nat /\ DOMAIN messages = 1..n /\ \A k \in 1..n : Tokens(messages[k]) \in Int
  BY CharsType
<1>2. step \in [(1..n) \X ints -> ints] /\ zero \in ints
  BY <1>1
<1>3. \A k \in 1..n, t \in Int : step[<<k, t>>] = t + Tokens(messages[k])
  OBVIOUS
<1> HIDE DEF step
<1>5. PICK it \in [SUBSET (1..n) -> ints] : LeftIterates(it, n, zero, step)
  <2> HIDE DEF n, ints, zero
  <2> QED BY <1>1, <1>2, LeftIteration
<1>6. it = After(it)
  <2>1. ASSUME NEW S \in SUBSET (1..n) PROVE it[S] = After(it)[S]
    <3>1. CASE S = {}
      BY <1>1, <1>5, <3>1 DEF LeftIterates
    <3>2. CASE S # {}
      <4>1. Max(S) \in S /\ it[S] = step[<<Max(S), it[S \ {Max(S)}]>>]
        BY <1>5, <3>2 DEF LeftIterates
      <4>2. it[S \ {Max(S)}] \in Int /\ Max(S) \in 1..n
        BY <4>1
      <4> QED BY <1>1, <1>3, <3>2, <4>1, <4>2
    <3> QED BY <3>1, <3>2
  <2> QED BY <1>1, <2>1
<1>7. chosen = After(chosen)
  <2> HIDE DEF After
  <2> QED BY <1>6
<1>8. MessagesTokens(messages) = chosen[DOMAIN messages]
  BY Zenon DEF MessagesTokens, FoldLeft, MapThenFoldSet
<1> HIDE DEF chosen
<1>9. Iterates(chosen, n, ints, zero, step)
  <2>1. chosen[{}] = 0
    BY <1>7
  <2>2. ASSUME NEW k \in 1..n, chosen[1..(k - 1)] \in Int
        PROVE  chosen[1..k] = step[<<k, chosen[1..(k - 1)]>>]
    <3>1. Max(1..k) = k /\ (1..k) \ {k} = 1..(k - 1)
      BY MaxOfInterval
    <3>2. 1..k \in SUBSET (1..n) /\ 1..k # {}
      OBVIOUS
    <3>3. chosen[1..k] = chosen[1..(k - 1)] + Tokens(messages[k])
      BY <1>1, <1>7, <3>1, <3>2
    <3> QED BY <1>3, <2>2, <3>3
  <2> QED BY <2>1, <2>2 DEF Iterates
<1>10. PICK f \in [0..n -> ints] : RunsTo(f, n, zero, step, chosen[1..n])
  <2> HIDE DEF n, ints, zero
  <2> QED BY <1>1, <1>2, <1>9, IterationRuns
<1>11. ASSUME NEW k \in 1..n PROVE f[k] = f[k - 1] + Tokens(messages[k])
  <2>1. k - 1 \in 0..n
    BY <1>1
  <2>2. f[k - 1] \in Int
    BY <2>1
  <2> HIDE DEF n
  <2> QED BY <1>3, <1>10, <2>2 DEF LeftRun, RunsTo
<1> QED BY <1>1, <1>8, <1>10, <1>11 DEF TokensRun, LeftRun, RunsTo

LEMMA TokensType ==
    ASSUME NEW messages \in Seq(Message)
    PROVE  MessagesTokens(messages) \in Int
<1>1. PICK f \in [0..Len(messages) -> Int] : TokensRun(f, messages)
  BY TokensValues
<1>2. Len(messages) \in 0..Len(messages)
  OBVIOUS
<1> QED BY <1>1, <1>2 DEF TokensRun

\* The estimate of two parts of a context is the sum of theirs.
LEMMA TokensOfBoth ==
    ASSUME NEW s \in Seq(Message), NEW t \in Seq(Message)
    PROVE  MessagesTokens(s \o t) = MessagesTokens(s) + MessagesTokens(t)
<1> DEFINE both == s \o t
           m == Len(s)
           n == Len(t)
<1>1. /\ both \in Seq(Message) /\ m \in Nat /\ n \in Nat /\ Len(both) = m + n
      /\ \A k \in 1..m : both[k] = s[k]
      /\ \A k \in 1..n : both[m + k] = t[k]
  OBVIOUS
<1>2. PICK f \in [0..m -> Int] : TokensRun(f, s)
  BY TokensValues
<1>3. PICK g \in [0..n -> Int] : TokensRun(g, t)
  BY TokensValues
<1> HIDE DEF both
<1>4. PICK h \in [0..Len(both) -> Int] : TokensRun(h, both)
  BY <1>1, TokensValues
<1>5. f[m] = h[m]
  <2>1. SameSteps(f, h, m)
    <3>1. ASSUME NEW k \in 1..m, f[k - 1] = h[k - 1] PROVE f[k] = h[k]
      <4>1. k \in 1..Len(both) /\ both[k] = s[k]
        BY <1>1
      <4> QED BY <1>2, <1>4, <3>1, <4>1 DEF TokensRun
    <3> HIDE DEF m
    <3> QED BY <1>2, <1>4, <3>1 DEF SameSteps, TokensRun
  <2>2. Agree(f, h, m)
    <3> HIDE DEF m
    <3> QED BY <1>1, <2>1, SameRecurrence
  <2> HIDE DEF m
  <2> QED BY <1>1, <2>2 DEF Agree
<1>0. f[m] \in Int
  <2>1. m \in 0..m
    BY <1>1
  <2> HIDE DEF m
  <2> QED BY <1>2, <2>1
<1> DEFINE high == [k \in 0..n |-> h[m + k]]
           sum  == [k \in 0..n |-> f[m] + g[k]]
<1>6. SameSteps(high, sum, n)
  <2>1. high[0] = sum[0]
    <3>1. 0 \in 0..n /\ m + 0 = m
      BY <1>1
    <3> HIDE DEF m, n
    <3> QED BY <1>0, <1>3, <1>5, <3>1 DEF TokensRun
  <2>2. ASSUME NEW k \in 1..n, high[k - 1] = sum[k - 1] PROVE high[k] = sum[k]
    <3>0. Tokens(t[k]) \in Int
      BY CharsType
    <3>1. /\ m + k \in 1..Len(both) /\ both[m + k] = t[k]
          /\ k \in 0..n /\ k - 1 \in 0..n /\ (m + k) - 1 = m + (k - 1)
          /\ Tokens(t[k]) \in Int
      <4> HIDE DEF m, n
      <4> QED BY <1>1, <3>0
    <3>2. h[m + k] = h[m + (k - 1)] + Tokens(t[k])
      <4> HIDE DEF m, n
      <4> QED BY <1>4, <3>1 DEF TokensRun
    <3>3. g[k] = g[k - 1] + Tokens(t[k])
      BY <1>3 DEF TokensRun
    <3>4. h[m + (k - 1)] = f[m] + g[k - 1]
      BY <2>2, <3>1
    <3>5. f[m] \in Int /\ g[k - 1] \in Int
      <4> HIDE DEF m, n
      <4> QED BY <1>0, <1>3, <3>1
    <3>6. h[m + k] = f[m] + g[k]
      <4> HIDE DEF m, n
      <4> QED BY <3>1, <3>2, <3>3, <3>4, <3>5
    <3> QED BY <3>1, <3>6
  <2> HIDE DEF high, sum, m, n
  <2> QED BY <2>1, <2>2 DEF SameSteps
<1>7. Agree(high, sum, n)
  <2> HIDE DEF high, sum, n
  <2> QED BY <1>1, <1>6, SameRecurrence
<1>8. h[m + n] = f[m] + g[n]
  <2>1. high[n] = sum[n] /\ n \in 0..n
    <3> HIDE DEF high, sum, n
    <3> QED BY <1>1, <1>7 DEF Agree
  <2> QED BY <2>1
<1>9. /\ MessagesTokens(both) = h[m + n] /\ MessagesTokens(s) = f[m]
      /\ MessagesTokens(t) = g[n]
  BY <1>1, <1>2, <1>3, <1>4 DEF TokensRun
<1> HIDE DEF m, n
<1> QED BY <1>8, <1>9 DEF both

LEMMA TokensOfOne ==
    ASSUME NEW m \in Message
    PROVE  MessagesTokens(<<m>>) = Tokens(m) /\ MessagesTokens(<<>>) = 0
<1>1. <<m>> \in Seq(Message) /\ Len(<<m>>) = 1 /\ <<m>>[1] = m
  OBVIOUS
<1>2. PICK f : TokensRun(f, <<m>>)
  BY <1>1, TokensValues
<1>3. f[1] = f[0] + Tokens(m) /\ f[0] = 0 /\ MessagesTokens(<<m>>) = f[1]
  <2>1. 1 \in 1..1 /\ 1 - 1 = 0
    OBVIOUS
  <2> QED BY <1>1, <1>2, <2>1 DEF TokensRun
<1>4. <<>> \in Seq(Message) /\ Len(<<>>) = 0
  OBVIOUS
<1>5. PICK g : TokensRun(g, <<>>)
  BY <1>4, TokensValues
<1>6. MessagesTokens(<<>>) = 0
  BY <1>4, <1>5 DEF TokensRun
<1> QED BY <1>3, <1>6, CharsType

CharsRun(f, messages) ==
    /\ f[0] = 0
    /\ \A k \in 1..Len(messages) : f[k] = f[k - 1] + Chars(messages[k])
    /\ MessagesChars(messages) = f[Len(messages)]

LEMMA CharsValues ==
    ASSUME NEW messages \in Seq(Message)
    PROVE  \E f \in [0..Len(messages) -> Int] : CharsRun(f, messages)
<1> DEFINE n == Len(messages)
           step == [a \in (1..n) \X Int |-> a[2] + Chars(messages[a[1]])]
           After(it) == [S \in SUBSET DOMAIN messages |->
                           IF S = {} THEN 0
                           ELSE it[S \ {Max(S)}] + Chars(messages[Max(S)])]
           chosen == CHOOSE it : it = After(it)
           ints == Int
           zero == 0
<1>1. n \in Nat /\ DOMAIN messages = 1..n /\ \A k \in 1..n : Chars(messages[k]) \in Int
  BY CharsType
<1>2. step \in [(1..n) \X ints -> ints] /\ zero \in ints
  BY <1>1
<1>3. \A k \in 1..n, t \in Int : step[<<k, t>>] = t + Chars(messages[k])
  OBVIOUS
<1> HIDE DEF step
<1>5. PICK it \in [SUBSET (1..n) -> ints] : LeftIterates(it, n, zero, step)
  <2> HIDE DEF n, ints, zero
  <2> QED BY <1>1, <1>2, LeftIteration
<1>6. it = After(it)
  <2>1. ASSUME NEW S \in SUBSET (1..n) PROVE it[S] = After(it)[S]
    <3>1. CASE S = {}
      BY <1>1, <1>5, <3>1 DEF LeftIterates
    <3>2. CASE S # {}
      <4>1. Max(S) \in S /\ it[S] = step[<<Max(S), it[S \ {Max(S)}]>>]
        BY <1>5, <3>2 DEF LeftIterates
      <4>2. it[S \ {Max(S)}] \in Int /\ Max(S) \in 1..n
        BY <4>1
      <4> QED BY <1>1, <1>3, <3>2, <4>1, <4>2
    <3> QED BY <3>1, <3>2
  <2> QED BY <1>1, <2>1
<1>7. chosen = After(chosen)
  <2> HIDE DEF After
  <2> QED BY <1>6
<1>8. MessagesChars(messages) = chosen[DOMAIN messages]
  BY Zenon DEF MessagesChars, FoldLeft, MapThenFoldSet
<1> HIDE DEF chosen
<1>9. Iterates(chosen, n, ints, zero, step)
  <2>1. chosen[{}] = 0
    BY <1>7
  <2>2. ASSUME NEW k \in 1..n, chosen[1..(k - 1)] \in Int
        PROVE  chosen[1..k] = step[<<k, chosen[1..(k - 1)]>>]
    <3>1. Max(1..k) = k /\ (1..k) \ {k} = 1..(k - 1)
      BY MaxOfInterval
    <3>2. 1..k \in SUBSET (1..n) /\ 1..k # {}
      OBVIOUS
    <3>3. chosen[1..k] = chosen[1..(k - 1)] + Chars(messages[k])
      BY <1>1, <1>7, <3>1, <3>2
    <3> QED BY <1>3, <2>2, <3>3
  <2> QED BY <2>1, <2>2 DEF Iterates
<1>10. PICK f \in [0..n -> ints] : RunsTo(f, n, zero, step, chosen[1..n])
  <2> HIDE DEF n, ints, zero
  <2> QED BY <1>1, <1>2, <1>9, IterationRuns
<1>11. ASSUME NEW k \in 1..n PROVE f[k] = f[k - 1] + Chars(messages[k])
  <2>1. k - 1 \in 0..n
    BY <1>1
  <2>2. f[k - 1] \in Int
    BY <2>1
  <2> HIDE DEF n
  <2> QED BY <1>3, <1>10, <2>2 DEF LeftRun, RunsTo
<1> QED BY <1>1, <1>8, <1>10, <1>11 DEF CharsRun, LeftRun, RunsTo

LEMMA MessagesCharsType ==
    ASSUME NEW messages \in Seq(Message)
    PROVE  MessagesChars(messages) \in Int
<1>1. PICK f \in [0..Len(messages) -> Int] : CharsRun(f, messages)
  BY CharsValues
<1>2. Len(messages) \in 0..Len(messages)
  OBVIOUS
<1> QED BY <1>1, <1>2 DEF CharsRun

\* One message changes, and the count by what it is longer.
LEMMA OneChanged ==
    ASSUME NEW s \in Seq(Message), NEW k \in 1..Len(s), NEW m \in Message
    PROVE  MessagesChars([s EXCEPT ![k] = m]) = MessagesChars(s) - (Chars(s[k]) - Chars(m))
<1> DEFINE t == [s EXCEPT ![k] = m]
           n == Len(s)
           d == Chars(m) - Chars(s[k])
<1>1. /\ t \in Seq(Message) /\ Len(t) = n /\ n \in Nat /\ k \in 1..n
      /\ t[k] = m /\ \A j \in 1..n : j # k => t[j] = s[j]
  OBVIOUS
<1>2. Chars(s[k]) \in Int /\ Chars(m) \in Int /\ d \in Int
  BY CharsType
<1>3. PICK f \in [0..n -> Int] : CharsRun(f, s)
  BY CharsValues
<1> HIDE DEF t
<1>4. PICK g \in [0..n -> Int] : CharsRun(g, t)
  BY <1>1, CharsValues
<1> DEFINE h == [j \in 0..n |-> IF j < k THEN f[j] ELSE f[j] + d]
<1>5. SameSteps(g, h, n)
  <2>1. g[0] = h[0]
    <3>1. 0 \in 0..n /\ 0 < k
      BY <1>1
    <3> HIDE DEF n, d
    <3> QED BY <1>3, <1>4, <3>1 DEF CharsRun
  <2>2. ASSUME NEW j \in 1..n, g[j - 1] = h[j - 1] PROVE g[j] = h[j]
    <3>1. j - 1 \in 0..n /\ j \in 0..n /\ j \in 1..Len(s) /\ j \in 1..Len(t)
      BY <1>1
    <3>2. f[j] = f[j - 1] + Chars(s[j]) /\ g[j] = g[j - 1] + Chars(t[j])
      BY <1>3, <1>4, <3>1 DEF CharsRun
    <3>3. f[j - 1] \in Int /\ f[j] \in Int /\ g[j - 1] \in Int
      <4> HIDE DEF n, h
      <4> QED BY <1>3, <1>4, <3>1
    <3>4. Chars(s[j]) \in Int
      <4>1. s[j] \in Message
        BY <3>1
      <4> QED BY <4>1, CharsType
    <3>5. /\ h[j] = IF j < k THEN f[j] ELSE f[j] + d
          /\ h[j - 1] = IF j - 1 < k THEN f[j - 1] ELSE f[j - 1] + d
      BY <3>1
    <3>6. k \in Int /\ j \in Int
      OBVIOUS
    <3> HIDE DEF h, n
    <3>7. CASE j < k
      <4>1. Chars(t[j]) = Chars(s[j])
        BY <1>1, <3>6, <3>7
      <4>2. h[j] = f[j] /\ h[j - 1] = f[j - 1]
        BY <3>5, <3>6, <3>7
      <4> QED BY <2>2, <3>2, <4>1, <4>2
    <3>8. CASE j = k
      <4>1. Chars(t[j]) = Chars(m) /\ Chars(s[j]) = Chars(s[k])
        BY <1>1, <3>8
      <4>2. h[j] = f[j] + d /\ h[j - 1] = f[j - 1]
        BY <3>5, <3>6, <3>8
      <4> QED BY <1>2, <2>2, <3>2, <3>3, <3>4, <4>1, <4>2
    <3>9. CASE j > k
      <4>1. Chars(t[j]) = Chars(s[j])
        BY <1>1, <3>6, <3>9
      <4>2. h[j] = f[j] + d /\ h[j - 1] = f[j - 1] + d
        BY <3>5, <3>6, <3>9
      <4> QED BY <1>2, <2>2, <3>2, <3>3, <3>4, <4>1, <4>2
    <3> QED BY <3>6, <3>7, <3>8, <3>9
  <2> HIDE DEF h, n
  <2> QED BY <2>1, <2>2 DEF SameSteps
<1>6. Agree(g, h, n)
  <2> HIDE DEF h, n
  <2> QED BY <1>1, <1>5, SameRecurrence
<1>7. g[n] = f[n] + d /\ f[n] \in Int
  <2>1. n \in 0..n /\ ~(n < k)
    BY <1>1
  <2>2. h[n] = f[n] + d
    BY <2>1
  <2> HIDE DEF h, n, d
  <2> QED BY <1>3, <1>6, <2>1, <2>2 DEF Agree
<1>8. MessagesChars(t) = g[n] /\ MessagesChars(s) = f[n]
  BY <1>1, <1>3, <1>4 DEF CharsRun
<1>9. MessagesChars(t) = MessagesChars(s) - (Chars(s[k]) - Chars(m))
  <2> HIDE DEF n
  <2> QED BY <1>2, <1>7, <1>8
<1> QED BY <1>9 DEF t

-----------------------------------------------------------------------------
(* Helpers of truncate.go *)

\* What is truncated is a message of the same role and no longer than asked.
LEMMA Truncated ==
    ASSUME NEW m \in Message, NEW max \in Nat
    PROVE  /\ SmartTruncate(m, max) \in Message
           /\ SmartTruncate(m, max).role = m.role
           /\ SmartTruncate(m, max) = [m EXCEPT !.chars = SmartTruncate(m, max).chars]
           /\ m.form = "text" => SmartTruncate(m, max).chars <= max
<1>1. /\ m.chars \in Nat /\ m.form \in {"text", "blocks"}
      /\ m = [m EXCEPT !.chars = m.chars]
  BY DEF Message
<1>2. \A c \in Nat : [m EXCEPT !.chars = c] \in Message /\ [m EXCEPT !.chars = c].role = m.role
                     /\ [m EXCEPT !.chars = c].chars = c
  BY DEF Message
<1>3. Marker \in Nat /\ Suffix \in Nat /\ Suffix <= Marker
  BY Constants
<1>4. CASE m.form = "blocks" \/ m.chars <= max
  BY <1>1, <1>4 DEF SmartTruncate
<1>5. CASE ~(m.form = "blocks" \/ m.chars <= max) /\ (max <= Marker \/ m.tail)
  <2>1. SmartTruncate(m, max) = [m EXCEPT !.chars = max]
    BY <1>5 DEF SmartTruncate
  <2> QED BY <1>2, <2>1
<1>6. CASE ~(m.form = "blocks" \/ m.chars <= max) /\ ~(max <= Marker \/ m.tail)
  <2>1. SmartTruncate(m, max) = [m EXCEPT !.chars = max - Marker + Suffix]
    BY <1>6 DEF SmartTruncate
  <2>2. max - Marker + Suffix \in Nat /\ max - Marker + Suffix <= max
    BY <1>3, <1>6
  <2> QED BY <1>2, <2>1, <2>2
<1> QED BY <1>4, <1>5, <1>6

LEMMA WithTextType ==
    ASSUME NEW m \in Message, NEW length \in Nat
    PROVE  /\ WithText(m, length) \in Message
           /\ WithText(m, length).role = m.role
           /\ WithText(m, length).chars = length
           /\ \A c \in Nat : WithText([m EXCEPT !.chars = c], length) = WithText(m, length)
BY DEF WithText, Message

LEMMA ReplaceImagesType ==
    ASSUME NEW m \in Message
    PROVE  ReplaceImages(m) \in Message /\ ReplaceImages(m).role = m.role
<1>1. m.chars \in Nat /\ m.images \in Nat
  BY DEF Message
<1>2. \A a, b, c \in Nat : a + b * c \in Nat
  OBVIOUS
<1>3. m.chars + m.images * ImageText \in Nat
  BY <1>1, <1>2, Constants
<1> QED BY <1>3 DEF ReplaceImages, Message

\* A step that keeps the roles keeps what is protected.
SameRoles(s, t) ==
    Len(s) = Len(t) /\ \A i \in 1..Len(s) : s[i].role = t[i].role

LEMMA SameProtected ==
    ASSUME NEW s \in Seq(Message), NEW t \in Seq(Message), SameRoles(s, t)
    PROVE  ProtectedIndices(s) = ProtectedIndices(t) /\ Free(s) = Free(t)
<1> DEFINE assistants(u) == {i \in DOMAIN u : u[i].role = "assistant"}
           tools(u) == {i \in DOMAIN u : u[i].role = "tool"}
           recent(a) == {i \in a : Cardinality({j \in a : j >= i}) <= KeepLast}
           Around(u) == {1, Len(u)} \cup recent(assistants(u)) \cup
                {i \in tools(u) : {i - 1, i + 1} \cap recent(assistants(u)) # {}}
<1>1. DOMAIN s = DOMAIN t /\ Len(s) = Len(t) /\ \A i \in DOMAIN s : s[i].role = t[i].role
  BY DEF SameRoles
<1>2. assistants(s) = assistants(t) /\ tools(s) = tools(t)
  BY <1>1
<1>3. ProtectedIndices(s) = Around(s) /\ ProtectedIndices(t) = Around(t)
  BY DEF ProtectedIndices
<1>4. Around(s) = Around(t)
  <2> HIDE DEF assistants, tools, recent
  <2> QED BY <1>1, <1>2
<1> HIDE DEF Around
<1> QED BY <1>1, <1>3, <1>4 DEF Free

\* The ends are protected, and nobody is free who is not there.
LEMMA FreeInside ==
    ASSUME NEW s \in Seq(Message)
    PROVE  /\ Free(s) \subseteq 2..(Len(s) - 1)
           /\ Free(s) = (1..Len(s)) \ ProtectedIndices(s)
<1>1. {1, Len(s)} \subseteq ProtectedIndices(s)
  BY DEF ProtectedIndices
<1>2. Free(s) = (1..Len(s)) \ ProtectedIndices(s)
  BY DEF Free
<1> HIDE DEF ProtectedIndices
<1> QED BY <1>1, <1>2

-----------------------------------------------------------------------------
(* guardToolResults *)

LEMMA CappedMessages ==
    ASSUME NEW messages \in Seq(Message)
    PROVE  /\ CapToolResults(messages) \in Seq(Message)
           /\ SameRoles(messages, CapToolResults(messages))
           /\ \A i \in 1..Len(messages) :
                /\ \E c \in Nat : CapToolResults(messages)[i] = [messages[i] EXCEPT !.chars = c]
                /\ messages[i].role = "tool" /\ messages[i].form = "text" =>
                      CapToolResults(messages)[i].chars <= SingleCap
<1> DEFINE n == Len(messages)
           Cap(m) == IF m.role = "tool" THEN SmartTruncate(m, SingleCap) ELSE m
           capped == [i \in 1..n |-> Cap(messages[i])]
<1>1. CapToolResults(messages) = capped /\ n \in Nat
  BY DEF CapToolResults
<1>2. ASSUME NEW m \in Message
      PROVE  /\ Cap(m) \in Message /\ Cap(m).role = m.role
             /\ \E c \in Nat : Cap(m) = [m EXCEPT !.chars = c]
             /\ m.role = "tool" /\ m.form = "text" => Cap(m).chars <= SingleCap
  <2>1. m = [m EXCEPT !.chars = m.chars] /\ m.chars \in Nat
    BY DEF Message
  <2>2. SmartTruncate(m, SingleCap).chars \in Nat
    BY Truncated, Constants DEF Message
  <2> QED BY <2>1, <2>2, Truncated, Constants
<1>3. \A i \in 1..n : messages[i] \in Message
  OBVIOUS
<1> HIDE DEF Cap
<1>4. capped \in Seq(Message) /\ Len(capped) = n /\ \A i \in 1..n : capped[i] = Cap(messages[i])
  BY <1>1, <1>2, <1>3
<1> HIDE DEF capped, n
<1> QED BY <1>1, <1>2, <1>3, <1>4 DEF SameRoles, n

\* What the loop of enforceTotalBudget works on, and the messages whose first t
\* results that may go are placeholders.
GoesFirst(messages, i) == i \in Free(messages) /\ messages[i].role = "tool"

Without(messages, t) ==
    [i \in DOMAIN messages |->
       IF GoesFirst(messages, i) /\ i <= t THEN WithText(messages[i], Removed)
       ELSE messages[i]]

Sized(n) == {ms \in Seq(Message) : Len(ms) = n}

EnforceStates(n) == [messages : Sized(n), total : Int]

EnforceStart(messages) == [messages |-> messages, total |-> MessagesChars(messages)]

EnforceRun(f, messages) ==
    /\ f[0] = EnforceStart(messages)
    /\ \A k \in 1..Len(messages) : f[k] = EnforceAt(messages, f[k - 1], k)
    /\ EnforceTotalBudget(messages) = f[Len(messages)].messages

\* A turn of the loop, whose total stays that of its messages.
Totalled(st) == st.total = MessagesChars(st.messages)

LEMMA EnforceAtType ==
    ASSUME NEW messages \in Seq(Message), NEW st \in EnforceStates(Len(messages)),
           NEW i \in 1..Len(messages)
    PROVE  /\ EnforceAt(messages, st, i) \in EnforceStates(Len(messages))
           /\ Totalled(st) => Totalled(EnforceAt(messages, st, i))
           /\ ~Goes(messages, st, i) => EnforceAt(messages, st, i) = st
           /\ Goes(messages, st, i) =>
                EnforceAt(messages, st, i).messages =
                   [st.messages EXCEPT ![i] = WithText(@, Removed)]
<1> DEFINE ms == st.messages
           after == WithText(ms[i], Removed)
           next == [ms EXCEPT ![i] = after]
           total == st.total - (Chars(ms[i]) - Chars(after))
<1>1. /\ ms \in Seq(Message) /\ Len(ms) = Len(messages) /\ ms[i] \in Message
      /\ st.total \in Int /\ i \in 1..Len(ms)
  BY DEF EnforceStates, Sized
<1>2. after \in Message
  BY <1>1, WithTextType, Constants
<1>3. CASE ~Goes(messages, st, i)
  BY <1>3 DEF EnforceAt
<1>4. CASE Goes(messages, st, i)
  <2>1. EnforceAt(messages, st, i) = [messages |-> next, total |-> total]
    BY <1>4 DEF EnforceAt
  <2>2. Chars(ms[i]) \in Int /\ Chars(after) \in Int
    BY <1>1, <1>2, CharsType
  <2>3. MessagesChars(next) = MessagesChars(ms) - (Chars(ms[i]) - Chars(after))
    BY <1>1, <1>2, OneChanged
  <2> DEFINE it == EnforceAt(messages, st, i)
  <2>4. it.messages = next /\ it.total = total
    BY <2>1
  <2>5. Totalled(st) => Totalled(it)
    <3> HIDE DEF it, next, ms
    <3> QED BY <2>3, <2>4 DEF Totalled, ms
  <2>6. total \in Int
    <3> HIDE DEF ms, after
    <3> QED BY <1>1, <2>2
  <2>7. next \in Sized(Len(messages))
    <3> HIDE DEF after, ms
    <3> QED BY <1>1, <1>2 DEF Sized
  <2>8. it \in EnforceStates(Len(messages))
    <3>1. ASSUME NEW A, NEW x \in A, NEW y \in Int
          PROVE  [messages |-> x, total |-> y] \in [messages : A, total : Int]
      OBVIOUS
    <3> HIDE DEF next, total
    <3> QED BY <2>1, <2>6, <2>7, <3>1 DEF EnforceStates
  <2> QED BY <1>4, <2>4, <2>5, <2>8
<1> QED BY <1>3, <1>4

LEMMA EnforceValues ==
    ASSUME NEW messages \in Seq(Message)
    PROVE  \E f \in [0..Len(messages) -> EnforceStates(Len(messages))] : EnforceRun(f, messages)
<1> DEFINE n == Len(messages)
           T == EnforceStates(n)
           base == EnforceStart(messages)
           indices == [i \in DOMAIN messages |-> i]
           step == [a \in (1..n) \X T |-> EnforceAt(messages, a[2], a[1])]
           After(it) == [S \in SUBSET DOMAIN indices |->
                           IF S = {} THEN base
                           ELSE EnforceAt(messages, it[S \ {Max(S)}], indices[Max(S)])]
           chosen == CHOOSE it : it = After(it)
<1>1. n \in Nat /\ DOMAIN indices = 1..n /\ \A k \in 1..n : indices[k] = k
  OBVIOUS
<1>2. step \in [(1..n) \X T -> T] /\ base \in T
  <2>1. \A a \in (1..n) \X T : EnforceAt(messages, a[2], a[1]) \in T
    BY EnforceAtType
  <2>2. messages \in Sized(n) /\ MessagesChars(messages) \in Int
    BY MessagesCharsType DEF Sized
  <2>3. base \in T
    BY <2>2 DEF EnforceStart, EnforceStates
  <2> QED BY <2>1, <2>3
<1>3. \A k \in 1..n, t \in T : step[<<k, t>>] = EnforceAt(messages, t, k)
  OBVIOUS
<1> HIDE DEF step, indices, T, base
<1>5. PICK it \in [SUBSET (1..n) -> T] : LeftIterates(it, n, base, step)
  <2> HIDE DEF n
  <2> QED BY <1>1, <1>2, LeftIteration
<1>6. it = After(it)
  <2>1. ASSUME NEW S \in SUBSET (1..n) PROVE it[S] = After(it)[S]
    <3>1. CASE S = {}
      BY <1>1, <1>5, <3>1 DEF LeftIterates
    <3>2. CASE S # {}
      <4>1. Max(S) \in S /\ it[S] = step[<<Max(S), it[S \ {Max(S)}]>>]
        BY <1>5, <3>2 DEF LeftIterates
      <4>2. it[S \ {Max(S)}] \in T /\ Max(S) \in 1..n
        BY <4>1
      <4> QED BY <1>1, <1>3, <3>2, <4>1, <4>2
    <3> QED BY <3>1, <3>2
  <2> QED BY <1>1, <2>1
<1>7. chosen = After(chosen)
  <2> HIDE DEF After
  <2> QED BY <1>6
<1>8. EnforceTotalBudget(messages) = chosen[DOMAIN indices].messages
  BY Zenon DEF EnforceTotalBudget, FoldLeftDomain, FoldLeft, MapThenFoldSet, indices,
     base, EnforceStart
<1> HIDE DEF chosen
<1>9. Iterates(chosen, n, T, base, step)
  <2>1. chosen[{}] = base
    BY <1>7
  <2>2. ASSUME NEW k \in 1..n, chosen[1..(k - 1)] \in T
        PROVE  chosen[1..k] = step[<<k, chosen[1..(k - 1)]>>]
    <3>1. Max(1..k) = k /\ (1..k) \ {k} = 1..(k - 1)
      BY MaxOfInterval
    <3>2. 1..k \in SUBSET (1..n) /\ 1..k # {}
      OBVIOUS
    <3>a. 1..k \in SUBSET DOMAIN indices
      BY <1>1, <3>2
    <3>b. \A S \in SUBSET DOMAIN indices : S # {} =>
             chosen[S] = EnforceAt(messages, chosen[S \ {Max(S)}], indices[Max(S)])
      <4> HIDE DEF n
      <4> QED BY <1>7
    <3>c. chosen[1..k] = EnforceAt(messages, chosen[(1..k) \ {Max(1..k)}], indices[Max(1..k)])
      <4> HIDE DEF n
      <4> QED BY <3>2, <3>a, <3>b
    <3>3. chosen[1..k] = EnforceAt(messages, chosen[1..(k - 1)], k)
      BY <1>1, <3>1, <3>c
    <3> QED BY <1>3, <2>2, <3>3
  <2> QED BY <2>1, <2>2 DEF Iterates
<1>10. PICK f \in [0..n -> T] : RunsTo(f, n, base, step, chosen[1..n])
  <2> HIDE DEF n
  <2> QED BY <1>1, <1>2, <1>9, IterationRuns
<1>11. ASSUME NEW k \in 1..n PROVE f[k] = EnforceAt(messages, f[k - 1], k)
  <2>1. k - 1 \in 0..n
    BY <1>1
  <2>2. f[k - 1] \in T
    BY <2>1
  <2> HIDE DEF n
  <2> QED BY <1>3, <1>10, <2>2 DEF LeftRun, RunsTo
<1>12. f[0] = base /\ EnforceTotalBudget(messages) = f[n].messages
  BY <1>1, <1>8, <1>10 DEF LeftRun, RunsTo
<1> QED BY <1>11, <1>12 DEF EnforceRun, T, base

\* The results before some index gave way to placeholders, all of them unless
\* the total is in budget.
LEMMA OldestResultsGo ==
    ASSUME NEW messages \in Seq(Message)
    PROVE  /\ EnforceTotalBudget(messages) \in Sized(Len(messages))
           /\ \E t \in 0..Len(messages) :
                 /\ EnforceTotalBudget(messages) = Without(messages, t)
                 /\ t = Len(messages) \/ MessagesChars(EnforceTotalBudget(messages)) <= TotalBudget
<1> DEFINE n == Len(messages)
           Fine(ms, k) == \E t \in 0..k : /\ ms = Without(messages, t)
                                          /\ t = k \/ MessagesChars(ms) <= TotalBudget
           Good(st, k) == Fine(st.messages, k) /\ Totalled(st)
<1>1. PICK f \in [0..n -> EnforceStates(n)] : EnforceRun(f, messages)
  BY EnforceValues
<1>2. n \in Nat /\ \A k \in 0..n : f[k] \in EnforceStates(n)
  OBVIOUS
<1> DEFINE Done == {k \in 0..n : Good(f[k], k)}
<1>3. 0 \in Done
  <2>1. messages = Without(messages, 0)
    <3>1. \A i \in DOMAIN messages : ~(i <= 0)
      OBVIOUS
    <3> QED BY <3>1 DEF Without
  <2>2. f[0].messages = messages /\ Totalled(f[0])
    BY <1>1 DEF EnforceRun, EnforceStart, Totalled
  <2>3. 0 \in 0..n /\ 0 \in 0..0
    OBVIOUS
  <2> HIDE DEF n
  <2> QED BY <2>1, <2>2, <2>3
<1>4. ASSUME NEW k \in 1..n, k - 1 \in Done PROVE k \in Done
  <2>0. k - 1 \in 0..n /\ k \in 0..n /\ k \in 1..Len(messages) /\ k \in Nat
    OBVIOUS
  <2> DEFINE st == f[k - 1]
             ms == st.messages
  <2>1. f[k] = EnforceAt(messages, st, k)
    BY <1>1 DEF EnforceRun
  <2>a. st \in EnforceStates(n)
    BY <1>2, <2>0
  <2>b. Fine(ms, k - 1) /\ Totalled(st)
    <3> HIDE DEF n, Fine
    <3> QED BY <1>4
  <2> HIDE DEF st
  <2>2. MessagesChars(ms) \in Int /\ TotalBudget \in Int /\ ms \in Seq(Message) /\ Len(ms) = n
    <3>1. ms \in Sized(n)
      BY <2>a DEF EnforceStates
    <3> HIDE DEF ms, n
    <3> QED BY <3>1, MessagesCharsType, Constants DEF Sized
  <2>3. /\ Totalled(f[k])
        /\ ~Goes(messages, st, k) => f[k].messages = ms
        /\ Goes(messages, st, k) => f[k].messages = [ms EXCEPT ![k] = WithText(@, Removed)]
    BY <2>0, <2>1, <2>a, <2>b, EnforceAtType
  <2>c. Goes(messages, st, k) <=> GoesFirst(messages, k) /\ MessagesChars(ms) > TotalBudget
    BY <2>b DEF Goes, GoesFirst, Totalled
  <2>d. Fine(ms, k - 1)
    BY <2>b
  <2> HIDE DEF ms
  <2>4. Fine(f[k].messages, k)
    <3>1. CASE MessagesChars(ms) <= TotalBudget
      <4>1. f[k].messages = ms
        BY <2>2, <2>3, <2>c, <3>1
      <4>2. PICK t \in 0..(k - 1) : ms = Without(messages, t)
        BY <2>d
      <4>3. t \in 0..k
        BY <2>0
      <4> HIDE DEF n
      <4> QED BY <3>1, <4>1, <4>2, <4>3
    <3>2. CASE ~(MessagesChars(ms) <= TotalBudget)
      <4>1. ms = Without(messages, k - 1) /\ MessagesChars(ms) > TotalBudget
        BY <2>2, <2>d, <3>2
      <4>2. f[k].messages = Without(messages, k)
        <5>1. CASE GoesFirst(messages, k)
          <6>1. f[k].messages = [ms EXCEPT ![k] = WithText(@, Removed)]
            BY <2>3, <2>c, <4>1, <5>1
          <6>2. ms[k] = messages[k]
            BY <2>0, <4>1 DEF Without
          <6>3. \A i \in DOMAIN messages : i # k => (i <= k <=> i <= k - 1)
            BY <2>0
          <6>4. DOMAIN ms = DOMAIN messages
            BY <4>1 DEF Without
          <6>5. ASSUME NEW i \in DOMAIN messages PROVE f[k].messages[i] = Without(messages, k)[i]
            <7>1. CASE i = k
              BY <2>0, <5>1, <6>1, <6>2, <6>4, <7>1 DEF Without
            <7>2. CASE i # k
              BY <4>1, <6>1, <6>3, <6>4, <7>2 DEF Without
            <7> QED BY <7>1, <7>2
          <6>6. f[k].messages = [i \in DOMAIN messages |-> f[k].messages[i]]
            BY <6>1, <6>4
          <6>7. Without(messages, k) = [i \in DOMAIN messages |-> Without(messages, k)[i]]
            BY DEF Without
          <6> QED BY <6>5, <6>6, <6>7
        <5>2. CASE ~GoesFirst(messages, k)
          <6>1. f[k].messages = ms
            BY <2>3, <2>c, <5>2
          <6>2. \A i \in DOMAIN messages : GoesFirst(messages, i) => (i <= k <=> i <= k - 1)
            BY <2>0, <5>2
          <6>3. Without(messages, k) = Without(messages, k - 1)
            BY <6>2 DEF Without
          <6> QED BY <4>1, <6>1, <6>3
        <5> QED BY <5>1, <5>2
      <4>3. k \in 0..k
        BY <2>0
      <4> QED BY <4>2, <4>3
    <3> QED BY <3>1, <3>2
  <2> HIDE DEF n, Fine
  <2> QED BY <2>0, <2>3, <2>4
<1>5. n \in Done
  <2>1. 0..n \subseteq Done
    <3> HIDE DEF Done, n
    <3> QED BY <1>2, <1>3, <1>4, InductionUpTo
  <2> HIDE DEF Done
  <2> QED BY <1>2, <2>1
<1>6. EnforceTotalBudget(messages) = f[n].messages /\ f[n].messages \in Sized(n)
  BY <1>1, <1>2 DEF EnforceRun, EnforceStates
<1>7. Fine(f[n].messages, n)
  BY <1>5
<1> QED BY <1>6, <1>7

LEMMA WithoutKeepsRoles ==
    ASSUME NEW messages \in Seq(Message), NEW t
    PROVE  /\ Without(messages, t) \in Sized(Len(messages))
           /\ SameRoles(messages, Without(messages, t))
<1>1. /\ DOMAIN messages = 1..Len(messages) /\ Len(messages) \in Nat
      /\ \A i \in DOMAIN messages : messages[i] \in Message
  OBVIOUS
<1>2. \A i \in DOMAIN messages :
         /\ WithText(messages[i], Removed) \in Message
         /\ WithText(messages[i], Removed).role = messages[i].role
  BY <1>1, WithTextType, Constants
<1> DEFINE At(i) == IF GoesFirst(messages, i) /\ i <= t THEN WithText(messages[i], Removed)
                    ELSE messages[i]
<1>3. \A i \in DOMAIN messages : At(i) \in Message /\ At(i).role = messages[i].role
  BY <1>1, <1>2
<1>4. Without(messages, t) = [i \in 1..Len(messages) |-> At(i)]
  BY <1>1 DEF Without
<1> HIDE DEF At
<1>5. /\ Without(messages, t) \in Seq(Message) /\ Len(Without(messages, t)) = Len(messages)
      /\ \A i \in 1..Len(messages) : Without(messages, t)[i] = At(i)
  BY <1>1, <1>3, <1>4
<1> QED BY <1>1, <1>3, <1>5 DEF Sized, SameRoles

LEMMA GuardedMessages ==
    ASSUME NEW messages \in Seq(Message)
    PROVE  LET guarded == GuardToolResults(messages)
           IN  /\ guarded \in Seq(Message)
               /\ SameRoles(messages, guarded)
               /\ Free(guarded) = Free(messages)
               /\ \A i \in 1..Len(messages) :
                     i \notin Free(messages) => guarded[i] = CapToolResults(messages)[i]
               /\ \E t \in 0..Len(messages) :
                     /\ guarded = Without(CapToolResults(messages), t)
                     /\ t = Len(messages) \/ MessagesChars(guarded) <= TotalBudget
<1> DEFINE capped == CapToolResults(messages)
           guarded == GuardToolResults(messages)
<1>1. capped \in Seq(Message) /\ SameRoles(messages, capped) /\ Len(capped) = Len(messages)
  BY CappedMessages DEF SameRoles
<1> HIDE DEF capped
<1>2. guarded = EnforceTotalBudget(capped)
  BY DEF GuardToolResults, capped
<1>3. PICK t \in 0..Len(messages) :
         /\ guarded = Without(capped, t)
         /\ t = Len(messages) \/ MessagesChars(guarded) <= TotalBudget
  BY <1>1, <1>2, OldestResultsGo
<1> HIDE DEF guarded
<1>4. guarded \in Seq(Message) /\ SameRoles(capped, guarded)
  BY <1>1, <1>3, WithoutKeepsRoles DEF Sized
<1>5. SameRoles(messages, guarded)
  BY <1>1, <1>4 DEF SameRoles
<1>6. Free(guarded) = Free(messages) /\ Free(capped) = Free(messages)
  BY <1>1, <1>4, <1>5, SameProtected
<1>7. ASSUME NEW i \in 1..Len(messages), i \notin Free(messages)
      PROVE  guarded[i] = capped[i]
  <2>1. ~GoesFirst(capped, i)
    BY <1>6, <1>7 DEF GoesFirst
  <2>2. i \in DOMAIN capped
    BY <1>1
  <2> QED BY <1>3, <2>1, <2>2 DEF Without
<1> QED BY <1>3, <1>4, <1>5, <1>6, <1>7 DEF capped, guarded

\* GuardHolds of any messages.
GuardKeeps(messages) ==
    LET guarded  == GuardToolResults(messages)
        capped   == CapToolResults(messages)
        results  == {i \in Free(messages) : messages[i].role = "tool"}
        gone     == {i \in results : guarded[i] = WithText(messages[i], Removed)}
        replaced == {i \in DOMAIN messages : guarded[i] # capped[i]}
    IN  /\ \A i \in DOMAIN guarded :
              guarded[i].role = "tool" /\ guarded[i].form = "text" =>
                  guarded[i].chars <= IF i \in gone THEN Removed ELSE SingleCap
        /\ MessagesChars(guarded) <= TotalBudget \/ gone = results
        /\ replaced \subseteq gone
        /\ \A i \in replaced, j \in results : j < i => j \in gone

LEMMA GuardBudgets ==
    ASSUME NEW messages \in Seq(Message)
    PROVE  GuardKeeps(messages)
<1> DEFINE guarded  == GuardToolResults(messages)
           capped   == CapToolResults(messages)
           results  == {i \in Free(messages) : messages[i].role = "tool"}
           gone     == {i \in results : guarded[i] = WithText(messages[i], Removed)}
           replaced == {i \in DOMAIN messages : guarded[i] # capped[i]}
           n == Len(messages)
<1>1. /\ guarded \in Seq(Message) /\ Len(guarded) = n
      /\ \A i \in 1..n : guarded[i].role = messages[i].role
  BY GuardedMessages DEF SameRoles
<1>2. PICK t \in 0..n : /\ guarded = Without(capped, t)
                        /\ t = n \/ MessagesChars(guarded) <= TotalBudget
  BY GuardedMessages
<1>3. /\ capped \in Seq(Message) /\ Len(capped) = n
      /\ \A i \in 1..n : /\ \E c \in Nat : capped[i] = [messages[i] EXCEPT !.chars = c]
                         /\ capped[i].role = messages[i].role
                         /\ messages[i].role = "tool" /\ messages[i].form = "text" =>
                               capped[i].chars <= SingleCap
  BY CappedMessages DEF SameRoles
<1>4. Free(capped) = Free(messages) /\ Free(messages) \subseteq 1..n /\ n \in Nat
  <2>1. SameRoles(messages, capped)
    BY CappedMessages
  <2>2. Free(messages) \subseteq 1..n
    BY DEF Free
  <2> HIDE DEF capped
  <2> QED BY <1>3, <2>1, <2>2, SameProtected
<1> HIDE DEF guarded, capped
<1>5. ASSUME NEW i \in 1..n
      PROVE  /\ WithText(capped[i], Removed) = WithText(messages[i], Removed)
             /\ capped[i].form = messages[i].form
             /\ WithText(messages[i], Removed).chars = Removed
  <2>1. PICK c \in Nat : capped[i] = [messages[i] EXCEPT !.chars = c]
    BY <1>3
  <2>2. messages[i] \in Message
    OBVIOUS
  <2>3. capped[i].form = messages[i].form
    BY <2>1, <2>2 DEF Message
  <2>4. WithText([messages[i] EXCEPT !.chars = c], Removed) = WithText(messages[i], Removed)
    BY <2>2, WithTextType, Constants, Zenon
  <2>5. WithText(messages[i], Removed).chars = Removed
    BY <2>2, WithTextType, Constants
  <2> QED BY <2>1, <2>3, <2>4, <2>5
<1>6. ASSUME NEW i \in 1..n
      PROVE  guarded[i] = IF i \in results /\ i <= t THEN WithText(messages[i], Removed)
                          ELSE capped[i]
  <2>1. GoesFirst(capped, i) <=> i \in results
    BY <1>3, <1>4 DEF GoesFirst
  <2>2. i \in DOMAIN capped
    BY <1>3
  <2> QED BY <1>2, <1>5, <2>1, <2>2 DEF Without
<1>7. results \subseteq 1..n /\ gone \subseteq results
  BY <1>4
<1>8. \A i \in results : i <= t => i \in gone
  BY <1>6, <1>7
<1>9. \A i \in 1..n : i \notin gone => guarded[i] = capped[i]
  BY <1>6, <1>8
<1>10. ASSUME NEW i \in 1..n, guarded[i].role = "tool", guarded[i].form = "text"
       PROVE  guarded[i].chars <= IF i \in gone THEN Removed ELSE SingleCap
  <2>1. CASE i \in gone
    <3>1. guarded[i].chars = Removed
      BY <1>5, <2>1
    <3> QED BY <2>1, <3>1, Constants
  <2>2. CASE i \notin gone
    <3>1. guarded[i] = capped[i]
      BY <1>9, <2>2
    <3> HIDE DEF gone
    <3> QED BY <1>1, <1>3, <1>5, <1>10, <2>2, <3>1
  <2> QED BY <2>1, <2>2
<1>11. MessagesChars(guarded) <= TotalBudget \/ gone = results
  <2>1. CASE t = n
    <3>1. \A i \in results : i <= t
      BY <1>4, <1>7, <2>1
    <3> HIDE DEF gone, results
    <3> QED BY <1>7, <1>8, <3>1
  <2> QED BY <1>2, <2>1
<1>12. \A i \in replaced : i \in 1..n /\ i \in results /\ i <= t
  BY <1>6
<1>13. \A i \in replaced, j \in results : j < i => j <= t
  <2>1. \A j \in results : j \in Int
    BY <1>7
  <2> HIDE DEF replaced, results
  <2> QED BY <1>12, <2>1
<1>14. DOMAIN guarded = 1..n
  BY <1>1
<1>15. replaced \subseteq gone /\ \A i \in replaced, j \in results : j < i => j \in gone
  <2> HIDE DEF replaced, results, gone
  <2> QED BY <1>8, <1>12, <1>13
<1> QED BY <1>10, <1>11, <1>14, <1>15 DEF GuardKeeps, guarded, capped

-----------------------------------------------------------------------------
(* pruneContext: what is reduced *)

LEMMA TrimmedMessages ==
    ASSUME NEW messages \in Seq(Message)
    PROVE  /\ SoftTrim(messages) \in Seq(Message)
           /\ SameRoles(messages, SoftTrim(messages))
           /\ \A i \in 1..Len(messages) :
                i \notin Free(messages) => SoftTrim(messages)[i] = messages[i]
<1> DEFINE At(i) == IF i \notin Free(messages) THEN messages[i]
                    ELSE IF messages[i].form = "blocks" THEN ReplaceImages(messages[i])
                    ELSE SmartTruncate(messages[i], SoftTrimMax)
<1>1. \A i \in 1..Len(messages) : messages[i] \in Message
  OBVIOUS
<1>2. \A i \in 1..Len(messages) : At(i) \in Message /\ At(i).role = messages[i].role
  BY <1>1, ReplaceImagesType, Truncated, Constants
<1>3. \A i \in 1..Len(messages) : i \notin Free(messages) => At(i) = messages[i]
  OBVIOUS
<1>4. SoftTrim(messages) = [i \in 1..Len(messages) |-> At(i)]
  BY DEF SoftTrim
<1> HIDE DEF At
<1>5. /\ SoftTrim(messages) \in Seq(Message) /\ Len(SoftTrim(messages)) = Len(messages)
      /\ \A i \in 1..Len(messages) : SoftTrim(messages)[i] = At(i)
  BY <1>2, <1>4
<1> QED BY <1>2, <1>3, <1>5 DEF SameRoles

LEMMA ClearedMessages ==
    ASSUME NEW messages \in Seq(Message)
    PROVE  /\ HardClear(messages) \in Seq(Message)
           /\ SameRoles(messages, HardClear(messages))
           /\ \A i \in 1..Len(messages) :
                i \notin Free(messages) => HardClear(messages)[i] = messages[i]
<1> DEFINE prunable == {i \in Free(messages) : messages[i].role \in {"assistant", "tool"}}
           At(i) == IF i \in prunable THEN WithText(messages[i], Cleared) ELSE messages[i]
           all == [i \in 1..Len(messages) |-> At(i)]
<1>1. \A i \in 1..Len(messages) : messages[i] \in Message
  OBVIOUS
<1>2. \A i \in 1..Len(messages) : At(i) \in Message /\ At(i).role = messages[i].role
  BY <1>1, WithTextType, Constants
<1>3. \A i \in 1..Len(messages) : i \notin Free(messages) => At(i) = messages[i]
  OBVIOUS
<1>4. HardClear(messages) \in {messages, all}
  BY DEF HardClear
<1> HIDE DEF At
<1>5. /\ all \in Seq(Message) /\ Len(all) = Len(messages)
      /\ \A i \in 1..Len(messages) : all[i] = At(i)
  BY <1>2
<1> HIDE DEF all
<1> QED BY <1>2, <1>3, <1>4, <1>5 DEF SameRoles

\* What is dropped is what the messages were reduced to.
LEMMA ReducedMessages ==
    ASSUME NEW messages \in Seq(Message)
    PROVE  LET trimmed == SoftTrim(messages)
               cleared == HardClear(trimmed)
           IN  /\ trimmed \in Seq(Message) /\ SameRoles(messages, trimmed)
               /\ cleared \in Seq(Message) /\ SameRoles(messages, cleared)
               /\ Free(cleared) = Free(messages)
               /\ \A i \in 1..Len(messages) : i \notin Free(messages) =>
                     trimmed[i] = messages[i] /\ cleared[i] = messages[i]
<1> DEFINE trimmed == SoftTrim(messages)
           cleared == HardClear(trimmed)
<1>1. /\ trimmed \in Seq(Message) /\ SameRoles(messages, trimmed)
      /\ \A i \in 1..Len(messages) : i \notin Free(messages) => trimmed[i] = messages[i]
  BY TrimmedMessages
<1> HIDE DEF trimmed
<1>2. Free(trimmed) = Free(messages) /\ Len(trimmed) = Len(messages)
  BY <1>1, SameProtected DEF SameRoles
<1>3. /\ cleared \in Seq(Message) /\ SameRoles(trimmed, cleared)
      /\ \A i \in 1..Len(messages) : i \notin Free(messages) => cleared[i] = trimmed[i]
  BY <1>1, <1>2, ClearedMessages
<1> HIDE DEF cleared
<1>4. SameRoles(messages, cleared)
  BY <1>1, <1>3 DEF SameRoles
<1>5. Free(cleared) = Free(messages)
  BY <1>3, <1>4, SameProtected
<1> QED BY <1>1, <1>3, <1>4, <1>5 DEF trimmed, cleared

LEMMA Removal ==
    ASSUME NEW T, NEW s \in Seq(T), NEW j \in 1..Len(s)
    PROVE  /\ RemoveAt(s, j) \in Seq(T)
           /\ Len(RemoveAt(s, j)) = Len(s) - 1
           /\ \A a \in 1..(Len(s) - 1) :
                RemoveAt(s, j)[a] = IF a < j THEN s[a] ELSE s[a + 1]
<1> DEFINE front == SubSeq(s, 1, j - 1)
           back  == SubSeq(s, j + 1, Len(s))
<1>1. Len(s) \in Nat /\ j - 1 \in 0..Len(s) /\ j + 1 \in 1..(Len(s) + 1)
  OBVIOUS
<1>2. front \in Seq(T) /\ Len(front) = j - 1 /\ \A a \in 1..(j - 1) : front[a] = s[a]
  BY <1>1
<1>3. /\ back \in Seq(T) /\ Len(back) = Len(s) - j
      /\ \A a \in 1..(Len(s) - j) : back[a] = s[j + a]
  BY <1>1
<1>4. RemoveAt(s, j) = front \o back
  BY DEF RemoveAt
<1> HIDE DEF front, back
<1>5. RemoveAt(s, j) \in Seq(T) /\ Len(RemoveAt(s, j)) = Len(s) - 1
  BY <1>1, <1>2, <1>3, <1>4
<1>6. ASSUME NEW a \in 1..(Len(s) - 1)
      PROVE  RemoveAt(s, j)[a] = IF a < j THEN s[a] ELSE s[a + 1]
  <2>1. CASE a < j
    <3>1. a \in 1..(j - 1)
      BY <1>1, <2>1
    <3> QED BY <1>2, <1>3, <1>4, <2>1, <3>1
  <2>2. CASE ~(a < j)
    <3>1. a - (j - 1) \in 1..(Len(s) - j) /\ j + (a - (j - 1)) = a + 1
      BY <1>1, <2>2
    <3>2. (front \o back)[a] = back[a - (j - 1)]
      BY <1>1, <1>2, <1>3, <2>2
    <3> QED BY <1>3, <1>4, <2>2, <3>1, <3>2
  <2> QED BY <2>1, <2>2
<1> QED BY <1>5, <1>6

\* The estimate falls by what is dropped.
LEMMA TokensOfTheRest ==
    ASSUME NEW s \in Seq(Message), NEW j \in 1..Len(s)
    PROVE  MessagesTokens(RemoveAt(s, j)) + Tokens(s[j]) = MessagesTokens(s)
<1> DEFINE front == SubSeq(s, 1, j - 1)
           back  == SubSeq(s, j + 1, Len(s))
           one   == <<s[j]>>
<1>1. front \in Seq(Message) /\ back \in Seq(Message) /\ one \in Seq(Message)
  OBVIOUS
<1>2. s = (front \o one) \o back
  <2>1. Len(s) \in Nat /\ j - 1 \in 0..Len(s) /\ j + 1 \in 1..(Len(s) + 1)
    OBVIOUS
  <2>2. Len(front) = j - 1 /\ \A a \in 1..(j - 1) : front[a] = s[a]
    BY <2>1
  <2>3. Len(back) = Len(s) - j /\ \A a \in 1..(Len(s) - j) : back[a] = s[j + a]
    BY <2>1
  <2>4. Len(one) = 1 /\ one[1] = s[j]
    OBVIOUS
  <2> DEFINE fo == front \o one
  <2> HIDE DEF front, one, back
  <2>5. fo \in Seq(Message) /\ Len(fo) = j /\ \A a \in 1..j : fo[a] = s[a]
    <3>1. fo \in Seq(Message) /\ Len(fo) = Len(front) + Len(one)
      BY <1>1
    <3>2. \A a \in 1..(Len(front) + Len(one)) :
             fo[a] = IF a <= Len(front) THEN front[a] ELSE one[a - Len(front)]
      BY <1>1
    <3>3. j \in Nat /\ \A a \in 1..j : (a <= j - 1 => a \in 1..(j - 1)) /\ (~(a <= j - 1) => a = j)
      BY <2>1
    <3> HIDE DEF fo
    <3>4. Len(fo) = j
      BY <2>2, <2>4, <3>1, <3>3
    <3>5. ASSUME NEW a \in 1..j PROVE fo[a] = s[a]
      <4>1. fo[a] = IF a <= j - 1 THEN front[a] ELSE one[a - (j - 1)]
        BY <2>2, <2>4, <3>2, <3>3
      <4>2. j - (j - 1) = 1
        BY <3>3
      <4> QED BY <2>2, <2>4, <3>3, <4>1, <4>2
    <3> QED BY <3>1, <3>4, <3>5
  <2> HIDE DEF fo
  <2>6. fo \o back \in Seq(Message) /\ Len(fo \o back) = Len(s)
    <3>1. fo \o back \in Seq(Message) /\ Len(fo \o back) = Len(fo) + Len(back)
      BY <1>1, <2>5
    <3>2. j + (Len(s) - j) = Len(s)
      BY <2>1
    <3> QED BY <2>3, <2>5, <3>1, <3>2
  <2>7. ASSUME NEW a \in 1..Len(s) PROVE (fo \o back)[a] = s[a]
    <3>1. CASE a <= j
      BY <1>1, <2>1, <2>5, <3>1
    <3>2. CASE ~(a <= j)
      <4>1. a - j \in 1..(Len(s) - j) /\ j + (a - j) = a
        BY <2>1, <3>2
      <4>2. (fo \o back)[a] = back[a - j]
        BY <1>1, <2>1, <2>3, <2>5, <3>2
      <4> QED BY <2>3, <4>1, <4>2
    <3> QED BY <3>1, <3>2
  <2>8. s = fo \o back
    <3> DEFINE t == fo \o back
    <3> HIDE DEF t
    <3>1. t \in Seq(Message) /\ Len(t) = Len(s) /\ \A a \in 1..Len(s) : t[a] = s[a]
      BY <2>6, <2>7 DEF t
    <3>2. s = t
      BY <3>1
    <3> QED BY <3>2 DEF t
  <2> QED BY <2>8 DEF fo
<1>3. RemoveAt(s, j) = front \o back /\ s[j] \in Message
  BY DEF RemoveAt
<1>4. MessagesTokens(one) = Tokens(s[j])
  BY <1>3, TokensOfOne
<1> HIDE DEF front, back, one
<1>5. /\ MessagesTokens(front) \in Int /\ MessagesTokens(back) \in Int
      /\ MessagesTokens(one) \in Int
  BY <1>1, TokensType
<1>6. MessagesTokens(front \o back) = MessagesTokens(front) + MessagesTokens(back)
  BY <1>1, TokensOfBoth
<1>7. front \o one \in Seq(Message)
  BY <1>1
<1>8. MessagesTokens(s) = MessagesTokens(front) + MessagesTokens(one) + MessagesTokens(back)
  BY <1>1, <1>2, <1>7, TokensOfBoth
<1> QED BY <1>3, <1>4, <1>5, <1>6, <1>8

-----------------------------------------------------------------------------
(* dropOldestMessages *)

DropStates == [messages : Seq(Message), protected : SUBSET Int]

LEMMA FirstFreeIsThere ==
    ASSUME NEW st \in DropStates, FirstFree(st) # {}
    PROVE  Min(FirstFree(st)) \in FirstFree(st)
<1>1. FirstFree(st) \subseteq Nat
  BY DEF FirstFree
<1> QED BY <1>1, MinPicks

LEMMA DropFirstType ==
    ASSUME NEW st \in DropStates
    PROVE  DropFirst(st) \in DropStates
<1>1. CASE Fits(st.messages) \/ FirstFree(st) = {}
  BY <1>1 DEF DropFirst
<1>2. CASE ~(Fits(st.messages) \/ FirstFree(st) = {})
  <2> DEFINE j == Min(FirstFree(st))
             up == {i \in st.protected : i < j} \cup {i - 1 : i \in {k \in st.protected : k > j}}
  <2>0. st.messages \in Seq(Message) /\ st.protected \subseteq Int
    BY DEF DropStates
  <2>1. j \in 1..Len(st.messages) /\ st.messages \in Seq(Message) /\ st.protected \subseteq Int
    <3>1. j \in FirstFree(st)
      BY <1>2, FirstFreeIsThere
    <3>2. j \in 2..(Len(st.messages) - 1) /\ Len(st.messages) \in Nat
      <4> HIDE DEF j
      <4> QED BY <2>0, <3>1 DEF FirstFree
    <3> HIDE DEF j
    <3> QED BY <2>0, <3>2
  <2>2. DropFirst(st) = [messages |-> RemoveAt(st.messages, j), protected |-> up]
    BY <1>2 DEF DropFirst
  <2>3. up \subseteq Int
    BY <2>1
  <2> HIDE DEF j, up
  <2>4. RemoveAt(st.messages, j) \in Seq(Message)
    BY <2>1, Removal
  <2> QED BY <2>2, <2>3, <2>4 DEF DropStates
<1> QED BY <1>1, <1>2

DropRun(f, messages, protected) ==
    /\ f[0] = [messages |-> messages, protected |-> protected]
    /\ \A k \in 1..Len(messages) : f[k] = DropFirst(f[k - 1])
    /\ DropOldest(messages, protected) = f[Len(messages)].messages

LEMMA DropValues ==
    ASSUME NEW messages \in Seq(Message), NEW protected \in SUBSET Int
    PROVE  \E f \in [0..Len(messages) -> DropStates] : DropRun(f, messages, protected)
<1> DEFINE n == Len(messages)
           T == DropStates
           first == [messages |-> messages, protected |-> protected]
           step == [a \in (1..n) \X T |-> DropFirst(a[2])]
           After(it) == [S \in SUBSET DOMAIN messages |->
                           IF S = {} THEN first ELSE DropFirst(it[S \ {Max(S)}])]
           chosen == CHOOSE it : it = After(it)
<1>1. n \in Nat /\ DOMAIN messages = 1..n
  OBVIOUS
<1>2. step \in [(1..n) \X T -> T] /\ first \in T
  <2>1. \A a \in (1..n) \X T : DropFirst(a[2]) \in T
    BY DropFirstType
  <2>2. first \in T
    BY DEF DropStates
  <2> QED BY <2>1, <2>2
<1>3. \A k \in 1..n, t \in T : step[<<k, t>>] = DropFirst(t)
  OBVIOUS
<1> HIDE DEF step, T
<1>5. PICK it \in [SUBSET (1..n) -> T] : LeftIterates(it, n, first, step)
  <2> HIDE DEF n, first
  <2> QED BY <1>1, <1>2, LeftIteration
<1>6. it = After(it)
  <2>1. ASSUME NEW S \in SUBSET (1..n) PROVE it[S] = After(it)[S]
    <3>1. CASE S = {}
      BY <1>1, <1>5, <3>1 DEF LeftIterates
    <3>2. CASE S # {}
      <4>1. Max(S) \in S /\ it[S] = step[<<Max(S), it[S \ {Max(S)}]>>]
        BY <1>5, <3>2 DEF LeftIterates
      <4>2. it[S \ {Max(S)}] \in T /\ Max(S) \in 1..n
        BY <4>1
      <4> HIDE DEF first
      <4> QED BY <1>1, <1>3, <3>2, <4>1, <4>2
    <3> QED BY <3>1, <3>2
  <2> HIDE DEF first
  <2> QED BY <1>1, <2>1
<1>7. chosen = After(chosen)
  <2> HIDE DEF After
  <2> QED BY <1>6
<1>8. DropOldest(messages, protected) = chosen[DOMAIN messages].messages
  BY Zenon DEF DropOldest, FoldLeft, MapThenFoldSet
<1> HIDE DEF chosen, first
<1>9. Iterates(chosen, n, T, first, step)
  <2>1. chosen[{}] = first
    BY <1>7
  <2>2. ASSUME NEW k \in 1..n, chosen[1..(k - 1)] \in T
        PROVE  chosen[1..k] = step[<<k, chosen[1..(k - 1)]>>]
    <3>1. Max(1..k) = k /\ (1..k) \ {k} = 1..(k - 1)
      BY MaxOfInterval
    <3>2. 1..k \in SUBSET (1..n) /\ 1..k # {}
      OBVIOUS
    <3>3. chosen[1..k] = DropFirst(chosen[1..(k - 1)])
      BY <1>1, <1>7, <3>1, <3>2
    <3> QED BY <1>3, <2>2, <3>3
  <2> QED BY <2>1, <2>2 DEF Iterates
<1>10. PICK f \in [0..n -> T] : RunsTo(f, n, first, step, chosen[1..n])
  <2> HIDE DEF n
  <2> QED BY <1>1, <1>2, <1>9, IterationRuns
<1>11. ASSUME NEW k \in 1..n PROVE f[k] = DropFirst(f[k - 1])
  <2>1. k - 1 \in 0..n
    BY <1>1
  <2>2. f[k - 1] \in T
    BY <2>1
  <2> HIDE DEF n
  <2> QED BY <1>3, <1>10, <2>2 DEF LeftRun, RunsTo
<1>12. DropRun(f, messages, protected)
  BY <1>1, <1>8, <1>10, <1>11 DEF DropRun, LeftRun, RunsTo, first
<1> QED BY <1>10, <1>12 DEF T

\* What is left when the messages D of context are dropped: K[a] is the place
\* in context of the a-th message.
Thinned(st, context, D, K) ==
    /\ D \subseteq Free(context)
    /\ \A x \in D, y \in Free(context) : y < x => y \in D
    /\ Len(st.messages) = Len(context) - Cardinality(D)
    /\ K \in [1..Len(st.messages) -> (1..Len(context)) \ D]
    /\ \A i \in (1..Len(context)) \ D : \E a \in 1..Len(st.messages) : K[a] = i
    /\ \A a, b \in 1..Len(st.messages) : a < b => K[a] < K[b]
    /\ \A a \in 1..Len(st.messages) :
          /\ st.messages[a] = context[K[a]]
          /\ a \in st.protected <=> K[a] \notin Free(context)
          /\ Cardinality({y \in D : y < K[a]}) = K[a] - a

\* The last of them was dropped because the rest did not fit with it.
HadTo(left, context, D) ==
    D # {} => \E x \in D : /\ \A y \in D : y <= x
                           /\ MessagesTokens(left) + Tokens(context[x]) > Window

LEMMA NothingThinned ==
    ASSUME NEW context \in Seq(Message), NEW protected \in SUBSET Int,
           Free(context) = (1..Len(context)) \ protected
    PROVE  LET st == [messages |-> context, protected |-> protected]
           IN  Thinned(st, context, {}, [a \in 1..Len(context) |-> a])
<1> DEFINE K == [a \in 1..Len(context) |-> a]
           st == [messages |-> context, protected |-> protected]
<1>1. Cardinality({}) = 0 /\ Len(context) \in Nat
  BY FS_EmptySet
<1>2. \A a \in 1..Len(context) : K[a] = a
  OBVIOUS
<1>3. K \in [1..Len(context) -> (1..Len(context)) \ {}]
  OBVIOUS
<1>4. st.messages = context /\ st.protected = protected
  OBVIOUS
<1>5. \A a \in 1..Len(context) : {y \in {} : y < K[a]} = {}
  OBVIOUS
<1> HIDE DEF K, st
<1>6. Thinned(st, context, {}, K)
  BY <1>1, <1>2, <1>3, <1>4, <1>5 DEF Thinned
<1> QED BY <1>6 DEF K, st

\* One turn drops the next message, or there is none or no need to.
LEMMA OneIsDropped ==
    ASSUME NEW st \in DropStates, NEW context \in Seq(Message), NEW D, NEW K,
           Thinned(st, context, D, K), IsFiniteSet(D),
           ~(Fits(st.messages) \/ FirstFree(st) = {})
    PROVE  \E x \in Free(context) \ D : \E L :
              /\ Thinned(DropFirst(st), context, D \cup {x}, L)
              /\ HadTo(DropFirst(st).messages, context, D \cup {x})
<1> DEFINE N == Len(context)
           m == Len(st.messages)
           F == Free(context)
           j == Min(FirstFree(st))
           x == K[j]
           E == D \cup {x}
           up == {i \in st.protected : i < j} \cup {i - 1 : i \in {k \in st.protected : k > j}}
           left == RemoveAt(st.messages, j)
           L == [a \in 1..(m - 1) |-> IF a < j THEN K[a] ELSE K[a + 1]]
<1>1. /\ st.messages \in Seq(Message) /\ st.protected \subseteq Int /\ m \in Nat /\ N \in Nat
      /\ F \subseteq 2..(N - 1)
  BY FreeInside DEF DropStates
<1>2. /\ j \in 2..(m - 1) /\ j \notin st.protected
      /\ \A i \in 2..(j - 1) : i \in st.protected
  <2>1. j \in FirstFree(st)
    BY FirstFreeIsThere
  <2> HIDE DEF j
  <2> QED BY <2>1 DEF FirstFree
<1>3. DropFirst(st) = [messages |-> left, protected |-> up]
  BY DEF DropFirst
<1>4. /\ D \subseteq F
      /\ \A u \in D, v \in F : v < u => v \in D
      /\ m = N - Cardinality(D)
      /\ \A a \in 1..m : K[a] \in (1..N) \ D
      /\ \A i \in (1..N) \ D : \E a \in 1..m : K[a] = i
      /\ \A a, b \in 1..m : a < b => K[a] < K[b]
      /\ \A a \in 1..m :
            /\ st.messages[a] = context[K[a]]
            /\ a \in st.protected <=> K[a] \notin F
            /\ Cardinality({y \in D : y < K[a]}) = K[a] - a
  BY DEF Thinned
<1> HIDE DEF N, m, F, j, up, left, L
<1>in. \A a \in 1..m : K[a] \in (1..N) \ D /\ K[a] \in Int
  BY <1>4
<1>up. \A a, b \in 1..m : a < b => K[a] < K[b]
  BY <1>4
<1>at. \A a \in 1..m :
         /\ st.messages[a] = context[K[a]]
         /\ a \in st.protected <=> K[a] \notin F
         /\ Cardinality({y \in D : y < K[a]}) = K[a] - a
  BY <1>4
<1>5. x \in F \ D /\ j \in 1..m /\ x \in 1..N
  <2>1. j \in 1..m
    BY <1>1, <1>2
  <2> QED BY <1>2, <1>4, <2>1
<1>6. ASSUME NEW v \in F, v < x PROVE v \in D
  <2> SUFFICES ASSUME v \notin D PROVE FALSE
    OBVIOUS
  <2>1. v \in (1..N) \ D /\ v \in Int
    BY <1>1
  <2>2. PICK a \in 1..m : K[a] = v
    BY <1>4, <2>1
  <2>3. a < j
    <3> SUFFICES ASSUME ~(a < j) PROVE FALSE
      OBVIOUS
    <3>1. a = j \/ j < a
      BY <1>2
    <3>2. x <= v
      BY <1>4, <1>5, <2>1, <2>2, <3>1
    <3> QED BY <1>5, <1>6, <2>1, <3>2
  <2>4. a \in 2..(j - 1) \/ a = 1
    BY <1>2, <2>3
  <2>5. a # 1
    <3> SUFFICES ASSUME a = 1 PROVE FALSE
      OBVIOUS
    <3>1. 1 \in (1..N) \ D /\ 1 \notin F
      BY <1>1, <1>4, <1>5
    <3>2. PICK b \in 1..m : K[b] = 1
      BY <1>4, <3>1
    <3>3. 1 \in 1..m /\ (b = 1 \/ 1 < b)
      OBVIOUS
    <3>4. K[1] \in 1..N /\ K[1] <= 1
      BY <1>4, <3>2, <3>3
    <3>5. v = 1
      BY <1>1, <2>2, <3>4
    <3> QED BY <3>1, <3>5
  <2>6. a \in st.protected
    BY <1>2, <2>4, <2>5
  <2> QED BY <1>4, <2>2, <2>6
<1>7. \A y \in D : y < x
  <2> SUFFICES ASSUME NEW y \in D, ~(y < x) PROVE FALSE
    OBVIOUS
  <2>1. y \in Int /\ x \in Int /\ y # x
    BY <1>1, <1>4, <1>5
  <2>2. x < y
    BY <2>1
  <2> QED BY <1>4, <1>5, <2>2
<1> HIDE DEF x, E
<1>8. /\ left \in Seq(Message) /\ Len(left) = m - 1
      /\ \A a \in 1..(m - 1) : left[a] = IF a < j THEN st.messages[a] ELSE st.messages[a + 1]
  BY <1>1, <1>5, Removal DEF left, m
<1>9. Cardinality(E) = Cardinality(D) + 1 /\ IsFiniteSet(E) /\ Cardinality(D) \in Nat
  BY <1>5, FS_AddElement, FS_CardinalityType DEF E
<1>10. ASSUME NEW a \in 1..(m - 1), a < j
       PROVE  /\ L[a] = K[a] /\ a \in 1..m /\ K[a] < x
              /\ {y \in E : y < K[a]} = {y \in D : y < K[a]}
  <2>1. a \in 1..m /\ L[a] = K[a] /\ K[a] < K[j]
    BY <1>1, <1>4, <1>5, <1>10 DEF L
  <2>2. K[a] \in Int /\ x \in Int
    BY <1>4, <1>5, <2>1
  <2>3. ~(x < K[a])
    BY <2>1, <2>2 DEF x
  <2> QED BY <2>1, <2>3 DEF x, E
<1>11. ASSUME NEW a \in 1..(m - 1), ~(a < j)
       PROVE  /\ L[a] = K[a + 1] /\ a + 1 \in 1..m /\ x < K[a + 1]
              /\ Cardinality({y \in E : y < K[a + 1]}) = K[a + 1] - a
  <2>1. a + 1 \in 1..m /\ L[a] = K[a + 1] /\ j < a + 1 /\ (a + 1) - 1 = a
    BY <1>1, <1>2, <1>11 DEF L
  <2>2. x < K[a + 1] /\ K[a + 1] \in Int
    BY <1>4, <1>5, <2>1 DEF x
  <2> DEFINE below == {y \in D : y < K[a + 1]}
  <2>3. {y \in E : y < K[a + 1]} = below \cup {x}
    BY <2>2 DEF E
  <2>4. IsFiniteSet(below) /\ x \notin below
    <3>1. below \subseteq D /\ x \notin D
      BY <1>5
    <3> QED BY <3>1, FS_Subset
  <2>5. Cardinality(below) = K[a + 1] - (a + 1)
    BY <1>4, <2>1
  <2> HIDE DEF below
  <2>6. Cardinality(below \cup {x}) = Cardinality(below) + 1
    BY <2>4, FS_AddElement
  <2>7. K[a + 1] - (a + 1) + 1 = K[a + 1] - a
    BY <2>2
  <2>8. Cardinality({y \in E : y < K[a + 1]}) = K[a + 1] - a
    BY <2>3, <2>5, <2>6, <2>7
  <2> QED BY <2>1, <2>2, <2>8
<1>12. \A a \in 1..(m - 1) : L[a] \in (1..N) \ E
  <2> SUFFICES ASSUME NEW a \in 1..(m - 1) PROVE L[a] \in (1..N) \ E
    OBVIOUS
  <2>1. L[a] \in (1..N) \ D /\ L[a] # x
    <3>0. x \in Int
      BY <1>5
    <3>1. CASE a < j
      <4>1. L[a] = K[a] /\ K[a] \in (1..N) \ D /\ K[a] \in Int /\ K[a] < x
        BY <1>in, <1>10, <3>1
      <4> QED BY <3>0, <4>1
    <3>2. CASE ~(a < j)
      <4>1. L[a] = K[a + 1] /\ K[a + 1] \in (1..N) \ D /\ K[a + 1] \in Int /\ x < K[a + 1]
        BY <1>in, <1>11, <3>2
      <4> QED BY <3>0, <4>1
    <3> QED BY <3>1, <3>2
  <2> QED BY <2>1 DEF E
<1>13. L \in [1..(m - 1) -> (1..N) \ E]
  BY <1>12 DEF L
<1>14. ASSUME NEW i \in (1..N) \ E PROVE \E a \in 1..(m - 1) : L[a] = i
  <2>1. PICK b \in 1..m : K[b] = i
    BY <1>4, <1>14 DEF E
  <2>2. b # j
    BY <1>14, <2>1 DEF E, x
  <2>3. CASE b < j
    <3>1. b \in 1..(m - 1)
      BY <1>1, <1>2, <2>3
    <3> QED BY <1>10, <2>1, <2>3, <3>1
  <2>4. CASE ~(b < j)
    <3>1. b - 1 \in 1..(m - 1) /\ ~(b - 1 < j) /\ (b - 1) + 1 = b
      BY <1>1, <1>2, <2>2, <2>4
    <3> QED BY <1>11, <2>1, <3>1
  <2> QED BY <2>3, <2>4
<1>15. ASSUME NEW a \in 1..(m - 1), NEW b \in 1..(m - 1), a < b PROVE L[a] < L[b]
  <2>1. CASE b < j
    <3>1. a < j
      BY <1>2, <1>15, <2>1
    <3>2. L[a] = K[a] /\ L[b] = K[b] /\ a \in 1..m /\ b \in 1..m
      BY <1>10, <2>1, <3>1
    <3> QED BY <1>up, <1>15, <3>2
  <2>2. CASE ~(a < j)
    <3>1. ~(b < j) /\ a + 1 < b + 1
      BY <1>2, <1>15, <2>2
    <3>2. L[a] = K[a + 1] /\ L[b] = K[b + 1] /\ a + 1 \in 1..m /\ b + 1 \in 1..m
      BY <1>11, <2>2, <3>1
    <3> QED BY <1>up, <3>1, <3>2
  <2>3. CASE a < j /\ ~(b < j)
    <3>1. a < b + 1
      BY <1>15
    <3>2. L[a] = K[a] /\ L[b] = K[b + 1] /\ a \in 1..m /\ b + 1 \in 1..m
      BY <1>10, <1>11, <2>3
    <3> QED BY <1>up, <3>1, <3>2
  <2> QED BY <2>1, <2>2, <2>3
<1>16. ASSUME NEW a \in 1..(m - 1)
       PROVE  /\ left[a] = context[L[a]]
              /\ a \in up <=> L[a] \notin F
              /\ Cardinality({y \in E : y < L[a]}) = L[a] - a
  <2>1. CASE a < j
    <3>1. a \in up <=> a \in st.protected
      <4>1. \A i \in st.protected : i > j => i - 1 # a
        BY <1>1, <1>2, <2>1
      <4> QED BY <2>1, <4>1 DEF up
    <3>2. L[a] = K[a] /\ a \in 1..m /\ left[a] = st.messages[a]
      BY <1>8, <1>10, <2>1
    <3>3. {y \in E : y < L[a]} = {y \in D : y < K[a]}
      BY <1>10, <2>1
    <3> QED BY <1>at, <3>1, <3>2, <3>3
  <2>2. CASE ~(a < j)
    <3>1. a \in up <=> a + 1 \in st.protected
      <4>1. a + 1 > j /\ (a + 1) - 1 = a /\ \A i \in st.protected : i - 1 = a => i = a + 1
        BY <1>1, <1>2, <2>2
      <4> QED BY <2>2, <4>1 DEF up
    <3>2. L[a] = K[a + 1] /\ a + 1 \in 1..m /\ left[a] = st.messages[a + 1]
      BY <1>8, <1>11, <2>2
    <3>3. Cardinality({y \in E : y < L[a]}) = L[a] - a
      BY <1>11, <2>2
    <3> QED BY <1>at, <3>1, <3>2, <3>3
  <2> QED BY <2>1, <2>2
<1>17. E \subseteq F /\ \A u \in E, v \in F : v < u => v \in E
  BY <1>4, <1>5, <1>6 DEF E
<1>18. m - 1 = N - Cardinality(E)
  BY <1>1, <1>4, <1>9
<1>19. Thinned([messages |-> left, protected |-> up], context, E, L)
  BY <1>8, <1>13, <1>14, <1>15, <1>16, <1>17, <1>18 DEF Thinned, N, F
<1>20. HadTo(left, context, E)
  <2>1. MessagesTokens(left) + Tokens(st.messages[j]) = MessagesTokens(st.messages)
    BY <1>1, <1>5, TokensOfTheRest DEF left, m
  <2>2. MessagesTokens(st.messages) \in Int /\ Window \in Int
    BY <1>1, TokensType, Constants
  <2>3. MessagesTokens(st.messages) > Window
    BY <2>2 DEF Fits
  <2>4. st.messages[j] = context[x]
    BY <1>4, <1>5 DEF x
  <2>5. x \in E /\ x \in Int /\ \A y \in E : y <= x
    BY <1>1, <1>4, <1>5, <1>7 DEF E
  <2> QED BY <2>1, <2>3, <2>4, <2>5 DEF HadTo
<1>21. x \in Free(context) \ D /\ DropFirst(st).messages = left
  BY <1>3, <1>5 DEF F
<1>22. /\ Thinned(DropFirst(st), context, D \cup {x}, L)
       /\ HadTo(DropFirst(st).messages, context, D \cup {x})
  BY <1>3, <1>19, <1>20, <1>21 DEF E
<1> QED BY <1>21, <1>22

LEMMA NobodyIsFree ==
    ASSUME NEW st \in DropStates, NEW context \in Seq(Message), NEW D, NEW K,
           Thinned(st, context, D, K), FirstFree(st) = {}
    PROVE  D = Free(context)
<1> DEFINE N == Len(context)
           m == Len(st.messages)
           F == Free(context)
<1>1. /\ st.messages \in Seq(Message) /\ m \in Nat /\ N \in Nat /\ F \subseteq 2..(N - 1)
  BY FreeInside DEF DropStates
<1>2. /\ D \subseteq F
      /\ \A a \in 1..m : K[a] \in (1..N) \ D
      /\ \A i \in (1..N) \ D : \E a \in 1..m : K[a] = i
      /\ \A a, b \in 1..m : a < b => K[a] < K[b]
      /\ \A a \in 1..m : a \in st.protected <=> K[a] \notin F
  BY DEF Thinned
<1> SUFFICES ASSUME NEW z \in F \ D PROVE FALSE
  BY <1>2
<1> DEFINE A == {a \in 1..m : a \notin st.protected}
<1>3. PICK a \in A : \A b \in A : a <= b
  <2>1. z \in (1..N) \ D
    BY <1>1
  <2>2. PICK c \in 1..m : K[c] = z
    BY <1>2, <2>1
  <2>3. c \in A
    BY <1>2, <2>2
  <2>4. A \subseteq Nat
    OBVIOUS
  <2> HIDE DEF A
  <2> QED BY <2>3, <2>4, Least
<1> HIDE DEF N, F
<1>4. /\ a \in 1..m /\ a \notin st.protected
      /\ \A i \in 2..(a - 1) : i \in st.protected
  <2>1. ASSUME NEW i \in 2..(a - 1) PROVE i \in st.protected
    <3>1. i \in 1..m /\ ~(a <= i)
      BY <1>1, <1>3
    <3> QED BY <1>3, <3>1
  <2> QED BY <1>3, <2>1
<1>5. a # 1
  <2>1. 1 \in (1..N) \ D /\ 1 \in 1..m /\ 1 \notin F
    BY <1>1, <1>2, <1>4
  <2>2. PICK b \in 1..m : K[b] = 1
    BY <1>2, <2>1
  <2>3. K[1] \in 1..N /\ (b = 1 \/ K[1] < 1)
    <3>1. b = 1 \/ 1 < b
      BY <1>1
    <3> QED BY <1>2, <2>1, <2>2, <3>1
  <2>4. K[1] = 1
    BY <2>2, <2>3
  <2> QED BY <1>2, <1>4, <2>1, <2>4
<1>6. a # m
  <2>1. N \in (1..N) \ D /\ m \in 1..m /\ N \notin F
    BY <1>1, <1>2, <1>4
  <2>2. PICK b \in 1..m : K[b] = N
    BY <1>2, <2>1
  <2>3. K[m] \in 1..N /\ (b = m \/ N < K[m])
    <3>1. b = m \/ b < m
      BY <1>1
    <3> QED BY <1>2, <2>1, <2>2, <3>1
  <2>4. K[m] = N
    BY <1>1, <2>2, <2>3
  <2> QED BY <1>2, <1>4, <2>1, <2>4
<1>7. a \in 2..(m - 1)
  BY <1>1, <1>4, <1>5, <1>6
<1>8. a \in FirstFree(st)
  BY <1>4, <1>7 DEF FirstFree
<1> QED BY <1>8

\* The loop drops the oldest free messages, until the rest fits or none is left.
Dropping(left, context, D) ==
    /\ D \subseteq Free(context) /\ IsFiniteSet(D)
    /\ \E st \in DropStates : \E K : left = st.messages /\ Thinned(st, context, D, K)
    /\ HadTo(left, context, D)

LEMMA OldestAreDropped ==
    ASSUME NEW context \in Seq(Message), NEW protected \in SUBSET Int,
           Free(context) = (1..Len(context)) \ protected
    PROVE  LET left == DropOldest(context, protected)
           IN  \E D : Dropping(left, context, D) /\ (Fits(left) \/ D = Free(context))
<1> DEFINE n == Len(context)
           F == Free(context)
           Over(st, D) == Fits(st.messages) \/ D = F
           Fine(st, k) == \E D : /\ Dropping(st.messages, context, D)
                                 /\ \E K : Thinned(st, context, D, K)
                                 /\ Cardinality(D) = k \/ Over(st, D)
<1>1. PICK f \in [0..n -> DropStates] : DropRun(f, context, protected)
  BY DropValues
<1>2. n \in Nat /\ \A k \in 0..n : f[k] \in DropStates
  OBVIOUS
<1> DEFINE Done == {k \in 0..n : Fine(f[k], k)}
<1>3. 0 \in Done
  <2> DEFINE K == [a \in 1..Len(context) |-> a]
             none == {}
  <2>1. f[0] = [messages |-> context, protected |-> protected]
    BY <1>1 DEF DropRun
  <2>2. Thinned(f[0], context, none, K) /\ f[0] \in DropStates
    BY <2>1, NothingThinned DEF DropStates
  <2>3. Cardinality(none) = 0 /\ IsFiniteSet(none) /\ none \subseteq F
    BY FS_EmptySet
  <2>4. HadTo(f[0].messages, context, none)
    BY DEF HadTo
  <2> HIDE DEF K, none, F
  <2>5. Dropping(f[0].messages, context, none)
    BY <2>2, <2>3, <2>4 DEF Dropping, F
  <2> HIDE DEF Over
  <2>6. Fine(f[0], 0)
    BY <2>2, <2>3, <2>5
  <2> HIDE DEF Fine, n
  <2> QED BY <1>2, <2>6
<1>4. ASSUME NEW k \in 1..n, k - 1 \in Done PROVE k \in Done
  <2>0. k - 1 \in 0..n /\ k \in 0..n /\ k \in Nat
    OBVIOUS
  <2> DEFINE st == f[k - 1]
  <2>1. f[k] = DropFirst(st) /\ st \in DropStates /\ f[k] \in DropStates
    BY <1>1, <2>0 DEF DropRun
  <2>2. PICK D : /\ Dropping(st.messages, context, D)
                 /\ \E K : Thinned(st, context, D, K)
                 /\ Cardinality(D) = k - 1 \/ Over(st, D)
    <3> HIDE DEF n
    <3> QED BY <1>4
  <2> HIDE DEF st
  <2>3. PICK K : Thinned(st, context, D, K)
    BY <2>2
  <2>4. IsFiniteSet(D) /\ D \subseteq F
    BY <2>2 DEF Dropping
  <2>5. Fine(f[k], k)
    <3>1. CASE Fits(st.messages) \/ FirstFree(st) = {}
      <4>1. f[k] = st
        BY <2>1, <3>1 DEF DropFirst
      <4>2. Over(st, D)
        BY <2>1, <2>3, <3>1, NobodyIsFree
      <4> HIDE DEF Over
      <4> QED BY <2>2, <2>3, <4>1, <4>2
    <3>2. CASE ~(Fits(st.messages) \/ FirstFree(st) = {})
      <4>0. PICK x \in F \ D : \E L :
               /\ Thinned(DropFirst(st), context, D \cup {x}, L)
               /\ HadTo(DropFirst(st).messages, context, D \cup {x})
        BY <2>1, <2>3, <2>4, <3>2, OneIsDropped
      <4>1. PICK L :
               /\ Thinned(DropFirst(st), context, D \cup {x}, L)
               /\ HadTo(DropFirst(st).messages, context, D \cup {x})
        BY <4>0
      <4> DEFINE E == D \cup {x}
      <4>2. IsFiniteSet(E) /\ E \subseteq F /\ Cardinality(E) = Cardinality(D) + 1
        BY <2>4, FS_AddElement
      <4>3. Cardinality(D) = k - 1
        <5>1. D # F
          OBVIOUS
        <5> QED BY <2>2, <3>2, <5>1
      <4>4. Cardinality(E) = k
        BY <2>0, <4>2, <4>3
      <4> HIDE DEF E
      <4>5. Thinned(f[k], context, E, L) /\ HadTo(f[k].messages, context, E)
        BY <2>1, <4>1 DEF E
      <4> HIDE DEF F
      <4>6. Dropping(f[k].messages, context, E)
        BY <2>1, <4>2, <4>5 DEF Dropping, F
      <4> HIDE DEF Over
      <4> QED BY <4>4, <4>5, <4>6
    <3> QED BY <3>1, <3>2
  <2> HIDE DEF n, Fine
  <2> QED BY <2>0, <2>5
<1>5. n \in Done
  <2>1. 0..n \subseteq Done
    <3> HIDE DEF Done, n
    <3> QED BY <1>2, <1>3, <1>4, InductionUpTo
  <2> HIDE DEF Done
  <2> QED BY <1>2, <2>1
<1>6. PICK D : /\ Dropping(f[n].messages, context, D)
               /\ Cardinality(D) = n \/ Over(f[n], D)
  BY <1>5
<1>7. DropOldest(context, protected) = f[n].messages
  BY <1>1 DEF DropRun
<1>8. Over(f[n], D)
  <2> SUFFICES ASSUME Cardinality(D) = n, D # F PROVE FALSE
    BY <1>6
  <2>1. D \subseteq F /\ F \subseteq 2..(n - 1) /\ F \subseteq 1..n
    BY <1>2, <1>6, FreeInside DEF Dropping
  <2>2. IsFiniteSet(1..n) /\ Cardinality(1..n) = n
    <3> HIDE DEF n
    <3>1. IsFiniteSet(1..n) /\ Cardinality(1..n) = IF 1 > n THEN 0 ELSE n - 1 + 1
      BY <1>2, FS_Interval
    <3> QED BY <1>2, <3>1
  <2>3. D \subseteq 1..n
    BY <2>1
  <2>4. D = 1..n
    BY <2>2, <2>3, FS_Subset
  <2>5. n = 0
    BY <1>2, <2>1, <2>4
  <2> QED BY <1>2, <2>1, <2>4, <2>5
<1> QED BY <1>6, <1>7, <1>8

-----------------------------------------------------------------------------
(* pruneContext: what is dropped *)

\* An initial part of a finite set of numbers has its size.
LEMMA InitialPart ==
    ASSUME NEW F, IsFiniteSet(F), F \subseteq Int, NEW D, D \subseteq F,
           \A x \in D, y \in F : y < x => y \in D
    PROVE  D = {i \in F : Cardinality({j \in F : j <= i}) <= Cardinality(D)}
<1>1. IsFiniteSet(D) /\ Cardinality(D) \in Nat
  BY FS_Subset, FS_CardinalityType
<1>2. ASSUME NEW i \in D
      PROVE  Cardinality({j \in F : j <= i}) <= Cardinality(D)
  <2> DEFINE upto == {j \in F : j <= i}
  <2>1. upto \subseteq D
    <3> SUFFICES ASSUME NEW j \in F, j <= i PROVE j \in D
      OBVIOUS
    <3>1. j = i \/ j < i
      BY <1>2
    <3> QED BY <3>1
  <2> HIDE DEF upto
  <2>2. Cardinality(upto) <= Cardinality(D)
    BY <1>1, <2>1, FS_Subset
  <2> QED BY <2>2 DEF upto
<1>3. ASSUME NEW i \in F \ D
      PROVE  ~(Cardinality({j \in F : j <= i}) <= Cardinality(D))
  <2> DEFINE upto == {j \in F : j <= i}
             more == D \cup {i}
  <2>1. more \subseteq upto
    <3> SUFFICES ASSUME NEW j \in D, ~(j <= i) PROVE FALSE
      OBVIOUS
    <3>1. i < j
      OBVIOUS
    <3> QED BY <3>1
  <2>2. Cardinality(more) = Cardinality(D) + 1
    BY <1>1, FS_AddElement
  <2>3. upto \subseteq F
    OBVIOUS
  <2> HIDE DEF upto, more
  <2>4. IsFiniteSet(upto) /\ Cardinality(upto) \in Nat
    BY <2>3, FS_Subset, FS_CardinalityType
  <2>5. Cardinality(more) <= Cardinality(upto)
    BY <2>1, <2>4, FS_Subset
  <2>6. ~(Cardinality(upto) <= Cardinality(D))
    BY <1>1, <2>2, <2>4, <2>5
  <2> QED BY <2>6 DEF upto
<1> QED BY <1>2, <1>3

\* What pruneContext does to a context: the messages D are dropped, the
\* protected ones are whole, and the order stays.
Pruned(context, left, D) ==
    /\ D \subseteq Free(context) /\ IsFiniteSet(D)
    /\ \A x \in D, y \in Free(context) : y < x => y \in D
    /\ Len(left) = Len(context) - Cardinality(D)
    /\ \A i \in (1..Len(context)) \ D :
          LET at == i - Cardinality({y \in D : y < i})
          IN  /\ left[at].role = context[i].role
              /\ i \notin Free(context) => left[at] = context[i]
    /\ HadTo(left, HardClear(SoftTrim(context)), D)

\* Nothing is dropped.
LEMMA ReducedIsPruned ==
    ASSUME NEW context \in Seq(Message), NEW left \in Seq(Message),
           SameRoles(context, left),
           \A i \in 1..Len(context) : i \notin Free(context) => left[i] = context[i]
    PROVE  Pruned(context, left, {})
<1> DEFINE none == {}
<1>1. IsFiniteSet(none) /\ Cardinality(none) = 0 /\ none \subseteq Free(context)
  BY FS_EmptySet
<1>2. \A i : {y \in none : y < i} = none
  BY Zenon
<1>3. \A x \in none : FALSE
  OBVIOUS
<1>4. HadTo(left, HardClear(SoftTrim(context)), none)
  BY DEF HadTo
<1> HIDE DEF none
<1>5. ASSUME NEW i \in (1..Len(context)) \ none
      PROVE  LET at == i - Cardinality({y \in none : y < i})
             IN  /\ left[at].role = context[i].role
                 /\ i \notin Free(context) => left[at] = context[i]
  <2>1. i \in Int /\ i \in 1..Len(context)
    OBVIOUS
  <2>2. Cardinality({y \in none : y < i}) = 0
    BY <1>1, <1>2, Zenon
  <2>3. i - 0 = i
    BY <2>1
  <2>4. i - Cardinality({y \in none : y < i}) = i
    BY <2>2, <2>3
  <2>5. left[i].role = context[i].role /\ (i \notin Free(context) => left[i] = context[i])
    BY <2>1 DEF SameRoles
  <2> QED BY <2>4, <2>5
<1>6. Len(left) = Len(context) - Cardinality(none)
  BY <1>1 DEF SameRoles
<1>7. Pruned(context, left, none)
  BY <1>1, <1>3, <1>4, <1>5, <1>6 DEF Pruned
<1> QED BY <1>7 DEF none

LEMMA PrunedContext ==
    ASSUME NEW context \in Seq(Message)
    PROVE  LET left == PruneContext(context)
           IN  \E D : Pruned(context, left, D) /\ (Fits(left) \/ D = Free(context))
<1> DEFINE trimmed == SoftTrim(context)
           cleared == HardClear(trimmed)
           left == PruneContext(context)
<1>1. /\ trimmed \in Seq(Message) /\ SameRoles(context, trimmed)
      /\ cleared \in Seq(Message) /\ SameRoles(context, cleared)
      /\ Free(cleared) = Free(context)
      /\ \A i \in 1..Len(context) : i \notin Free(context) =>
            trimmed[i] = context[i] /\ cleared[i] = context[i]
  BY ReducedMessages
<1> HIDE DEF trimmed, cleared
<1>2. CASE Fits(context) \/ Len(context) <= 2
  <2>1. left = context
    BY <1>2 DEF PruneContext
  <2>2. SameRoles(context, context)
    BY DEF SameRoles
  <2>3. Pruned(context, context, {})
    BY <2>2, ReducedIsPruned
  <2>4. Len(context) <= 2 => Free(context) = {}
    <3>1. Free(context) \subseteq 2..(Len(context) - 1) /\ Len(context) \in Nat
      BY FreeInside
    <3> QED BY <3>1
  <2> QED BY <1>2, <2>1, <2>3, <2>4
<1>3. CASE ~(Fits(context) \/ Len(context) <= 2) /\ Fits(trimmed)
  <2>1. left = trimmed
    BY <1>3 DEF PruneContext, trimmed
  <2>2. Pruned(context, trimmed, {})
    BY <1>1, ReducedIsPruned
  <2> QED BY <1>3, <2>1, <2>2
<1>4. CASE ~(Fits(context) \/ Len(context) <= 2) /\ ~Fits(trimmed) /\ Fits(cleared)
  <2>1. left = cleared
    BY <1>4 DEF PruneContext, trimmed, cleared
  <2>2. Pruned(context, cleared, {})
    BY <1>1, ReducedIsPruned
  <2> QED BY <1>4, <2>1, <2>2
<1>5. CASE ~(Fits(context) \/ Len(context) <= 2) /\ ~Fits(trimmed) /\ ~Fits(cleared)
  <2> DEFINE protected == ProtectedIndices(context)
  <2>1. left = DropOldest(cleared, protected)
    BY <1>5 DEF PruneContext, trimmed, cleared
  <2>2. protected \in SUBSET Int
    <3>1. Len(context) \in Int /\ DOMAIN context \subseteq Int
      OBVIOUS
    <3> QED BY <3>1 DEF ProtectedIndices
  <2>3. Len(cleared) = Len(context)
    BY <1>1 DEF SameRoles
  <2>4. Free(cleared) = (1..Len(cleared)) \ protected
    BY <1>1, <2>3, FreeInside
  <2> HIDE DEF protected, left
  <2>5. PICK D : Dropping(left, cleared, D) /\ (Fits(left) \/ D = Free(cleared))
    BY <1>1, <2>1, <2>2, <2>4, OldestAreDropped
  <2>10. PICK st \in DropStates : \E K : left = st.messages /\ Thinned(st, cleared, D, K)
    BY <2>5 DEF Dropping
  <2>6. PICK K : left = st.messages /\ Thinned(st, cleared, D, K)
    BY <2>10
  <2>7. /\ D \subseteq Free(context) /\ IsFiniteSet(D) /\ HadTo(left, cleared, D)
        /\ \A x \in D, y \in Free(context) : y < x => y \in D
        /\ Len(left) = Len(context) - Cardinality(D)
    BY <1>1, <2>3, <2>5, <2>6 DEF Dropping, Thinned
  <2>8. ASSUME NEW i \in (1..Len(context)) \ D
        PROVE  LET at == i - Cardinality({y \in D : y < i})
               IN  /\ left[at].role = context[i].role
                   /\ i \notin Free(context) => left[at] = context[i]
    <3>1. PICK a \in 1..Len(left) : K[a] = i
      BY <2>3, <2>6 DEF Thinned
    <3>2. left[a] = cleared[i] /\ Cardinality({y \in D : y < i}) = i - a
      BY <2>6, <3>1 DEF Thinned
    <3>3. i - Cardinality({y \in D : y < i}) = a
      BY <3>1, <3>2
    <3>4. cleared[i].role = context[i].role /\ (i \notin Free(context) => cleared[i] = context[i])
      BY <1>1 DEF SameRoles
    <3> QED BY <3>2, <3>3, <3>4
  <2>9. Pruned(context, left, D)
    BY <2>7, <2>8 DEF Pruned, cleared, trimmed
  <2> USE DEF left
  <2> QED BY <1>1, <2>5, <2>9
<1> QED BY <1>2, <1>3, <1>4, <1>5

-----------------------------------------------------------------------------
(* What is sent *)

\* What is sent is the guarded context without some of the oldest messages.
SentWithout(D) ==
    /\ Pruned(GuardToolResults(built), sent, D)
    /\ warm \/ Fits(sent) \/ D = Free(built)

LEMMA SentIsPruned ==
    ASSUME PruneInv
    PROVE  \E D : SentWithout(D)
<1> DEFINE guarded == GuardToolResults(built)
<1>1. built \in Seq(Message) /\ sent = Made
  BY DEF PruneInv
<1>2. guarded \in Seq(Message) /\ Len(guarded) = Len(built) /\ Free(guarded) = Free(built)
  BY <1>1, GuardedMessages DEF SameRoles
<1> HIDE DEF guarded
<1>3. Pruned(guarded, guarded, {})
  <2>1. SameRoles(guarded, guarded)
    BY DEF SameRoles
  <2> QED BY <1>2, <2>1, ReducedIsPruned
<1>4. CASE built = <<>>
  <2>1. guarded = <<>>
    BY <1>2, <1>4
  <2>2. sent = guarded
    BY <1>1, <1>4, <2>1 DEF Made
  <2>3. Free(built) = {}
    <3>1. Free(built) \subseteq 2..(Len(built) - 1)
      BY <1>1, FreeInside
    <3> QED BY <1>4, <3>1
  <2>4. SentWithout({})
    BY <1>3, <2>2, <2>3 DEF SentWithout, guarded
  <2> QED BY <2>4
<1>5. CASE built # <<>> /\ warm
  <2>1. sent = guarded
    BY <1>1, <1>5 DEF Made, guarded
  <2>2. SentWithout({})
    BY <1>3, <1>5, <2>1 DEF SentWithout, guarded
  <2> QED BY <2>2
<1>6. CASE built # <<>> /\ ~warm
  <2>1. sent = PruneContext(guarded)
    BY <1>1, <1>6 DEF Made, guarded
  <2>2. PICK D : Pruned(guarded, sent, D) /\ (Fits(sent) \/ D = Free(guarded))
    BY <1>2, <2>1, PrunedContext
  <2>3. SentWithout(D)
    BY <1>2, <2>2 DEF SentWithout, guarded
  <2> QED BY <2>3
<1> QED BY <1>4, <1>5, <1>6

LEMMA DroppedAreOldest ==
    ASSUME PruneInv, NEW D, SentWithout(D)
    PROVE  /\ D = Oldest(Dropped) /\ Dropped = Cardinality(D) /\ IsFiniteSet(D)
           /\ D \subseteq Free(built) /\ Free(built) \subseteq 2..(Len(built) - 1)
           /\ Dropped \in 0 .. Cardinality(Free(built))
<1> DEFINE F == Free(built)
           guarded == GuardToolResults(built)
<1>1. built \in Seq(Message) /\ Len(built) \in Nat
  BY DEF PruneInv
<1>2. Len(guarded) = Len(built) /\ Free(guarded) = F
  BY <1>1, GuardedMessages DEF SameRoles
<1>3. F \subseteq 2..(Len(built) - 1)
  BY <1>1, FreeInside
<1>4. /\ D \subseteq F /\ IsFiniteSet(D)
      /\ \A x \in D, y \in F : y < x => y \in D
      /\ Len(sent) = Len(built) - Cardinality(D)
  BY <1>2 DEF SentWithout, Pruned
<1> HIDE DEF F
<1>5. IsFiniteSet(F) /\ F \subseteq Int
  <2>1. IsFiniteSet(2..(Len(built) - 1)) /\ 2..(Len(built) - 1) \subseteq Int
    <3>1. 2 \in Int /\ Len(built) - 1 \in Int
      BY <1>1
    <3> QED BY <3>1, FS_Interval
  <2> QED BY <1>3, <2>1, FS_Subset
<1>6. D = {i \in F : Cardinality({j \in F : j <= i}) <= Cardinality(D)}
  BY <1>4, <1>5, InitialPart
<1>7. Cardinality(D) \in Nat /\ Cardinality(F) \in Nat /\ Cardinality(D) <= Cardinality(F)
  BY <1>4, <1>5, FS_Subset, FS_CardinalityType
<1>8. Dropped = Cardinality(D)
  BY <1>1, <1>4, <1>7 DEF Dropped
<1>9. D = Oldest(Dropped)
  BY <1>6, <1>8, Zenon DEF Oldest, F
<1> QED BY <1>3, <1>4, <1>7, <1>8, <1>9 DEF F

LEMMA OldestAreSpared ==
    PruneInv => OnlyTheOldestGo
<1> SUFFICES ASSUME PruneInv PROVE OnlyTheOldestGo
  OBVIOUS
<1>1. PICK D : SentWithout(D)
  BY SentIsPruned
<1>2. D = Oldest(Dropped) /\ Dropped \in 0 .. Cardinality(Free(built))
  BY <1>1, DroppedAreOldest
<1>3. built \in Seq(Message)
  BY DEF PruneInv
<1> DEFINE guarded == GuardToolResults(built)
<1>4. /\ Len(guarded) = Len(built) /\ Free(guarded) = Free(built)
      /\ \A i \in 1..Len(built) : /\ guarded[i].role = built[i].role
                                  /\ i \notin Free(built) => guarded[i] = CapToolResults(built)[i]
  BY <1>3, GuardedMessages DEF SameRoles
<1>5. Pruned(guarded, sent, D)
  BY <1>1 DEF SentWithout
<1> HIDE DEF guarded
<1>6. ASSUME NEW i \in DOMAIN built \ Oldest(Dropped)
      PROVE  LET kept == sent[Place(i, Dropped)]
             IN  /\ kept.role = built[i].role
                 /\ i \notin Free(built) => kept = CapToolResults(built)[i]
  <2>1. i \in (1..Len(guarded)) \ D /\ i \in 1..Len(built)
    BY <1>2, <1>3, <1>4
  <2> DEFINE at == i - Cardinality({y \in D : y < i})
  <2>2. sent[at].role = guarded[i].role /\ (i \notin Free(guarded) => sent[at] = guarded[i])
    BY <1>5, <2>1, Zenon DEF Pruned
  <2>3. Place(i, Dropped) = at
    BY <1>2, Zenon DEF Place
  <2> HIDE DEF at
  <2> QED BY <1>4, <2>1, <2>2, <2>3
<1> QED BY <1>2, <1>6 DEF OnlyTheOldestGo

LEMMA DroppingIsNeeded ==
    PruneInv => DropsWhatItMust
<1> SUFFICES ASSUME PruneInv PROVE DropsWhatItMust
  OBVIOUS
<1>1. PICK D : SentWithout(D)
  BY SentIsPruned
<1>2. /\ D = Oldest(Dropped) /\ Dropped = Cardinality(D) /\ IsFiniteSet(D)
      /\ D \subseteq Free(built) /\ Free(built) \subseteq 2..(Len(built) - 1)
  BY <1>1, DroppedAreOldest
<1> DEFINE reduced == HardClear(SoftTrim(GuardToolResults(built)))
<1>3. HadTo(sent, reduced, D)
  BY <1>1 DEF SentWithout, Pruned
<1>4. ASSUME Dropped > 0
      PROVE  MessagesTokens(sent) + Tokens(reduced[Max(Oldest(Dropped))]) > Window
  <2>1. D # {}
    <3>1. D = {} => Dropped = 0
      BY <1>2, FS_EmptySet, Zenon
    <3>2. Dropped # 0
      BY <1>4
    <3> QED BY <3>1, <3>2
  <2>2. PICK x \in D : /\ \A y \in D : y <= x
                       /\ MessagesTokens(sent) + Tokens(reduced[x]) > Window
    BY <1>3, <2>1 DEF HadTo
  <2>3. Len(built) \in Nat /\ D \subseteq 0..Len(built)
    BY <1>2 DEF PruneInv
  <2>4. Max(D) \in D /\ \A y \in D : y <= Max(D)
    BY <2>1, <2>3, MaxPicks
  <2>5. Max(D) = x
    <3>1. \A a, b \in 0..Len(built) : a <= b /\ b <= a => a = b
      BY <2>3
    <3>2. Max(D) <= x /\ x <= Max(D) /\ Max(D) \in 0..Len(built) /\ x \in 0..Len(built)
      BY <2>2, <2>3, <2>4, Zenon
    <3> QED BY <3>1, <3>2, Zenon
  <2> QED BY <1>2, <2>2, <2>5
<1>5. ASSUME ~Fits(sent), ~warm PROVE Oldest(Dropped) = Free(built)
  BY <1>1, <1>2, <1>5 DEF SentWithout
<1> HIDE DEF reduced
<1> QED BY <1>4, <1>5 DEF DropsWhatItMust, reduced

LEMMA GuardIsHeld ==
    PruneInv => GuardHolds
<1> SUFFICES ASSUME PruneInv PROVE GuardHolds
  OBVIOUS
<1>1. GuardKeeps(built)
  BY GuardBudgets DEF PruneInv
<1> QED BY <1>1, Zenon DEF GuardKeeps, GuardHolds

LEMMA InitPrune == Init => PruneInv
BY DEF Init, PruneInv, Made

LEMMA NextPrune == PruneInv /\ [Next]_vars => PruneInv'
<1> SUFFICES ASSUME PruneInv, [Next]_vars PROVE PruneInv'
  OBVIOUS
<1>1. history \in Seq(Message) /\ built \in Seq(Message) /\ sent = Made
  BY DEF PruneInv
<1>2. CASE UNCHANGED vars
  BY <1>1, <1>2 DEF vars, PruneInv, Made
<1>3. ASSUME NEW system \in Systems, NEW input \in Inputs, PreReq(system, input)
      PROVE  PruneInv'
  <2>1. system \in Seq(Message) /\ input \in Message
    BY MessagesAssumption
  <2> DEFINE messages == system \o history \o <<input>>
             capped == CapToolResults(messages)[Len(messages)]
  <2>2. messages \in Seq(Message) /\ messages # <<>>
    BY <1>1, <2>1
  <2>3. /\ built' = messages /\ history' = Append(history, capped) /\ warm' = warm
        /\ sent' = IF warm THEN GuardToolResults(messages)
                   ELSE PruneContext(GuardToolResults(messages))
    BY <1>3 DEF PreReq
  <2> HIDE DEF messages
  <2>4. sent' = Made'
    BY <2>2, <2>3 DEF Made
  <2>5. capped \in Message
    <3>1. CapToolResults(messages) \in Seq(Message) /\ Len(CapToolResults(messages)) = Len(messages)
      BY <2>2, CappedMessages DEF SameRoles
    <3>2. Len(messages) \in 1..Len(messages)
      BY <2>2
    <3> QED BY <3>1, <3>2
  <2>6. history' \in Seq(Message)
    <3> HIDE DEF capped
    <3> QED BY <1>1, <2>3, <2>5
  <2> QED BY <2>2, <2>3, <2>4, <2>6 DEF PruneInv
<1>4. ASSUME NEW reply \in Replies, PostResp(reply) PROVE PruneInv'
  <2>1. reply \in Seq(Message)
    BY MessagesAssumption
  <2>2. history' = history \o reply /\ built' = <<>> /\ sent' = <<>>
    BY <1>4 DEF PostResp
  <2> QED BY <1>1, <2>1, <2>2 DEF PruneInv, Made
<1>5. CASE CacheExpires
  BY <1>1, <1>5 DEF CacheExpires, PruneInv, Made
<1>6. CASE SessionTruncated
  <2>1. history' = SubSeq(history, Len(history) \div 2 + 1, Len(history))
    BY <1>6 DEF SessionTruncated
  <2>2. history' \in Seq(Message)
    <3>1. \A s \in Seq(Message), k \in Nat : SubSeq(s, k + 1, Len(s)) \in Seq(Message)
      OBVIOUS
    <3>2. Len(history) \div 2 \in Nat
      BY <1>1
    <3> QED BY <1>1, <2>1, <3>1, <3>2
  <2> QED BY <1>1, <1>6, <2>2 DEF SessionTruncated, PruneInv, Made
<1> QED BY <1>2, <1>3, <1>4, <1>5, <1>6 DEF Next

\* What is sent is always made of what was built, by the guard and, while
\* the cache is cold, by pruneContext (hook.go:98-148).
THEOREM SentIsMade == Spec => []PruneInv
<1> QED BY InitPrune, NextPrune, PTL DEF Spec

\* After the guard no tool result of text form is longer than half the window
\* (those in blocks are not capped), and results of either form give way from
\* the oldest on and until the total, kept by subtraction, is in budget, for
\* histories of any length and windows of any size (guardToolResults,
\* truncate.go:18-80).
THEOREM ResultsStayInBudget == Spec => []GuardHolds
<1> QED BY SentIsMade, GuardIsHeld, PTL

\* The system message, the last one and the last assistant turns are sent
\* whole and in their order, and of the others the oldest go first
\* (pruneContext and dropOldestMessages, truncate.go:92-255).
THEOREM OldestGoFirst == Spec => []OnlyTheOldestGo
<1> QED BY SentIsMade, OldestAreSpared, PTL

\* Nothing is dropped that would have fitted with what is sent, and while the
\* cache is cold a session is truncated only when there is nothing left to
\* drop (truncate.go:92-255, hook.go:137).  With a warm one the code truncates
\* it without having pruned.
THEOREM PruningIsNeeded == Spec => []DropsWhatItMust
<1> QED BY SentIsMade, DroppingIsNeeded, PTL

-----------------------------------------------------------------------------
(* splitIntoChunks *)

ChunkStates == [chunks : Seq(Seq(Message)), current : Seq(Message), tokens : Int]

\* One turn of its loop.
CutOne(st, m, target) ==
    IF /\ st.tokens + Tokens(m) > target /\ st.current # <<>>
       /\ Len(st.chunks) < ChunkCount - 1
    THEN [chunks |-> Append(st.chunks, st.current), current |-> <<m>>, tokens |-> Tokens(m)]
    ELSE [st EXCEPT !.current = Append(@, m), !.tokens = @ + Tokens(m)]

LEMMA CutOneType ==
    ASSUME NEW st \in ChunkStates, NEW m \in Message, NEW target \in Int
    PROVE  CutOne(st, m, target) \in ChunkStates
<1>1. /\ st.chunks \in Seq(Seq(Message)) /\ st.current \in Seq(Message)
      /\ st.tokens \in Int /\ Tokens(m) \in Int
  BY CharsType DEF ChunkStates
<1>2. /\ Append(st.chunks, st.current) \in Seq(Seq(Message)) /\ <<m>> \in Seq(Message)
      /\ Append(st.current, m) \in Seq(Message) /\ st.tokens + Tokens(m) \in Int
  BY <1>1
<1>3. [chunks |-> Append(st.chunks, st.current), current |-> <<m>>, tokens |-> Tokens(m)]
        \in ChunkStates
  BY <1>1, <1>2 DEF ChunkStates
<1>4. [st EXCEPT !.current = Append(@, m), !.tokens = @ + Tokens(m)] \in ChunkStates
  BY <1>2 DEF ChunkStates
<1> QED BY <1>3, <1>4 DEF CutOne

ChunkRun(f, messages, target) ==
    /\ f[0] = [chunks |-> <<>>, current |-> <<>>, tokens |-> 0]
    /\ \A k \in 1..Len(messages) : f[k] = CutOne(f[k - 1], messages[k], target)
    /\ CutChunks(messages, target) = f[Len(messages)]

LEMMA ChunkValues ==
    ASSUME NEW messages \in Seq(Message), NEW target \in Int
    PROVE  \E f \in [0..Len(messages) -> ChunkStates] : ChunkRun(f, messages, target)
<1> DEFINE n == Len(messages)
           T == ChunkStates
           first == [chunks |-> <<>>, current |-> <<>>, tokens |-> 0]
           step == [a \in (1..n) \X T |-> CutOne(a[2], messages[a[1]], target)]
           After(it) == [S \in SUBSET DOMAIN messages |->
                           IF S = {} THEN first
                           ELSE CutOne(it[S \ {Max(S)}], messages[Max(S)], target)]
           chosen == CHOOSE it : it = After(it)
<1>1. n \in Nat /\ DOMAIN messages = 1..n
  OBVIOUS
<1>2. step \in [(1..n) \X T -> T] /\ first \in T
  <2>1. \A a \in (1..n) \X T : CutOne(a[2], messages[a[1]], target) \in T
    <3> SUFFICES ASSUME NEW a \in (1..n) \X T
                 PROVE  CutOne(a[2], messages[a[1]], target) \in T
      OBVIOUS
    <3>1. messages[a[1]] \in Message /\ a[2] \in ChunkStates
      OBVIOUS
    <3> QED BY <3>1, CutOneType
  <2>2. first \in T
    BY DEF ChunkStates
  <2> QED BY <2>1, <2>2
<1>3. \A k \in 1..n, t \in T : step[<<k, t>>] = CutOne(t, messages[k], target)
  OBVIOUS
<1> HIDE DEF step, T
<1>5. PICK it \in [SUBSET (1..n) -> T] : LeftIterates(it, n, first, step)
  <2> HIDE DEF n, first
  <2> QED BY <1>1, <1>2, LeftIteration
<1>6. it = After(it)
  <2>1. ASSUME NEW S \in SUBSET (1..n) PROVE it[S] = After(it)[S]
    <3>1. CASE S = {}
      BY <1>1, <1>5, <3>1 DEF LeftIterates
    <3>2. CASE S # {}
      <4>1. Max(S) \in S /\ it[S] = step[<<Max(S), it[S \ {Max(S)}]>>]
        BY <1>5, <3>2 DEF LeftIterates
      <4>2. it[S \ {Max(S)}] \in T /\ Max(S) \in 1..n
        BY <4>1
      <4> HIDE DEF first
      <4> QED BY <1>1, <1>3, <3>2, <4>1, <4>2
    <3> QED BY <3>1, <3>2
  <2> HIDE DEF first
  <2> QED BY <1>1, <2>1
<1>7. chosen = After(chosen)
  <2> HIDE DEF After
  <2> QED BY <1>6
<1>8. CutChunks(messages, target) = chosen[DOMAIN messages]
  BY Zenon DEF CutChunks, CutOne, FoldLeft, MapThenFoldSet
<1> HIDE DEF chosen, first
<1>9. Iterates(chosen, n, T, first, step)
  <2>1. chosen[{}] = first
    BY <1>7
  <2>2. ASSUME NEW k \in 1..n, chosen[1..(k - 1)] \in T
        PROVE  chosen[1..k] = step[<<k, chosen[1..(k - 1)]>>]
    <3>1. Max(1..k) = k /\ (1..k) \ {k} = 1..(k - 1)
      BY MaxOfInterval
    <3>2. 1..k \in SUBSET (1..n) /\ 1..k # {}
      OBVIOUS
    <3>3. chosen[1..k] = CutOne(chosen[1..(k - 1)], messages[k], target)
      BY <1>1, <1>7, <3>1, <3>2
    <3> QED BY <1>3, <2>2, <3>3
  <2> QED BY <2>1, <2>2 DEF Iterates
<1>10. PICK f \in [0..n -> T] : RunsTo(f, n, first, step, chosen[1..n])
  <2> HIDE DEF n
  <2> QED BY <1>1, <1>2, <1>9, IterationRuns
<1>11. ASSUME NEW k \in 1..n PROVE f[k] = CutOne(f[k - 1], messages[k], target)
  <2>1. k - 1 \in 0..n
    BY <1>1
  <2>2. f[k - 1] \in T
    BY <2>1
  <2> HIDE DEF n
  <2> QED BY <1>3, <1>10, <2>2 DEF LeftRun, RunsTo
<1>12. ChunkRun(f, messages, target)
  BY <1>1, <1>8, <1>10, <1>11 DEF ChunkRun, LeftRun, RunsTo, first
<1> QED BY <1>10, <1>12 DEF T

\* The chunks and the one under construction are what was read; the former
\* are in their share, and the latter too, unless it is the last.
InShare(chunk, target) == MessagesTokens(chunk) <= target \/ Len(chunk) = 1

CutSoFar(st, messages, target, k) ==
    /\ FlattenSeq(st.chunks) \o st.current = SubSeq(messages, 1, k)
    /\ st.tokens = MessagesTokens(st.current)
    /\ Len(st.chunks) <= ChunkCount - 1
    /\ \A i \in 1..Len(st.chunks) : st.chunks[i] # <<>> /\ InShare(st.chunks[i], target)
    /\ k > 0 => st.current # <<>>
    /\ \/ Len(st.chunks) = ChunkCount - 1
       \/ st.current = <<>>
       \/ InShare(st.current, target)

LEMMA CutFurther ==
    ASSUME NEW st \in ChunkStates, NEW messages \in Seq(Message), NEW target \in Int,
           NEW k \in 1..Len(messages), CutSoFar(st, messages, target, k - 1),
           ChunkCount \in Nat, ChunkCount > 1
    PROVE  CutSoFar(CutOne(st, messages[k], target), messages, target, k)
<1> DEFINE m == messages[k]
           chunks == st.chunks
           current == st.current
<1>1. /\ chunks \in Seq(Seq(Message)) /\ current \in Seq(Message) /\ st.tokens \in Int
      /\ m \in Message /\ Tokens(m) \in Int /\ k \in Nat \ {0}
  BY CharsType DEF ChunkStates
<1>2. /\ FlattenSeq(chunks) \in Seq(Message)
      /\ FlattenSeq(Append(chunks, current)) = FlattenSeq(chunks) \o current
  BY <1>1, FlattenAppend
<1>3. /\ FlattenSeq(chunks) \o current = SubSeq(messages, 1, k - 1)
      /\ st.tokens = MessagesTokens(current)
      /\ Len(chunks) <= ChunkCount - 1
      /\ \A i \in 1..Len(chunks) : chunks[i] # <<>> /\ InShare(chunks[i], target)
      /\ Len(chunks) = ChunkCount - 1 \/ current = <<>> \/ InShare(current, target)
  BY DEF CutSoFar
<1>4. SubSeq(messages, 1, k) = Append(SubSeq(messages, 1, k - 1), m)
  BY <1>1
<1>5. MessagesTokens(<<m>>) = Tokens(m)
  BY <1>1, TokensOfOne
<1>6. MessagesTokens(Append(current, m)) = st.tokens + Tokens(m)
  <2>1. <<m>> \in Seq(Message) /\ Append(current, m) = current \o <<m>>
    BY <1>1
  <2>2. MessagesTokens(current \o <<m>>) = MessagesTokens(current) + MessagesTokens(<<m>>)
    BY <1>1, <2>1, TokensOfBoth
  <2> QED BY <1>3, <1>5, <2>1, <2>2
<1> HIDE DEF m
<1> DEFINE cuts == /\ st.tokens + Tokens(m) > target /\ current # <<>>
                   /\ Len(chunks) < ChunkCount - 1
<1>7. CASE cuts
  <2> DEFINE next == [chunks |-> Append(chunks, current), current |-> <<m>>,
                      tokens |-> Tokens(m)]
  <2>1. CutOne(st, m, target) = next
    BY <1>7 DEF CutOne
  <2>2. /\ next.chunks = Append(chunks, current) /\ next.current = <<m>>
        /\ next.tokens = Tokens(m)
    OBVIOUS
  <2> HIDE DEF next, chunks, current
  <2>3. /\ Len(Append(chunks, current)) = Len(chunks) + 1 /\ Len(chunks) \in Nat
        /\ \A i \in 1..(Len(chunks) + 1) :
              Append(chunks, current)[i] = IF i \in 1..Len(chunks) THEN chunks[i] ELSE current
    BY <1>1
  <2>4. FlattenSeq(Append(chunks, current)) \o <<m>> = SubSeq(messages, 1, k)
    <3>1. \A u \in Seq(Message) : u \o <<m>> = Append(u, m)
      BY <1>1
    <3> QED BY <1>1, <1>2, <1>3, <1>4, <3>1
  <2>5. InShare(current, target)
    BY <1>1, <1>3, <1>7, <2>3
  <2>6. \A i \in 1..(Len(chunks) + 1) :
           Append(chunks, current)[i] # <<>> /\ InShare(Append(chunks, current)[i], target)
    BY <1>3, <1>7, <2>3, <2>5
  <2>7. Len(<<m>>) = 1 /\ <<m>> # <<>> /\ InShare(<<m>>, target)
    BY DEF InShare
  <2>8. Len(chunks) + 1 <= ChunkCount - 1
    BY <1>7, <2>3
  <2>9. CutSoFar(next, messages, target, k)
    BY <1>5, <2>2, <2>3, <2>4, <2>6, <2>7, <2>8 DEF CutSoFar
  <2> QED BY <2>1, <2>9 DEF m
<1>8. CASE ~cuts
  <2> DEFINE next == [st EXCEPT !.current = Append(current, m), !.tokens = st.tokens + Tokens(m)]
  <2>1. CutOne(st, m, target) = next
    BY <1>8 DEF CutOne
  <2>2. /\ next.chunks = chunks /\ next.current = Append(current, m)
        /\ next.tokens = st.tokens + Tokens(m)
    BY DEF ChunkStates
  <2> HIDE DEF next, chunks, current
  <2>3. FlattenSeq(chunks) \o Append(current, m) = SubSeq(messages, 1, k)
    <3>1. \A u, w \in Seq(Message) : u \o Append(w, m) = Append(u \o w, m)
      BY <1>1
    <3> QED BY <1>1, <1>2, <1>3, <1>4, <3>1
  <2>4. /\ Append(current, m) # <<>>
        /\ Len(chunks) = ChunkCount - 1 \/ InShare(Append(current, m), target)
    <3>0. \A u \in Seq(Message) : /\ Append(u, m) # <<>> /\ Len(u) \in Nat
                                  /\ Len(Append(u, m)) = Len(u) + 1
                                  /\ u = <<>> => Len(u) = 0
      BY <1>1
    <3>1. Append(current, m) # <<>> /\ Len(Append(current, m)) = Len(current) + 1
          /\ (current = <<>> => Len(current) = 0)
          /\ Len(chunks) \in Nat
      BY <1>1, <3>0
    <3>2. CASE current = <<>>
      BY <3>1, <3>2 DEF InShare
    <3>3. CASE ~(st.tokens + Tokens(m) > target)
      <4>1. st.tokens + Tokens(m) <= target
        BY <1>1, <3>3
      <4> QED BY <1>6, <3>1, <4>1 DEF InShare
    <3>4. CASE ~(Len(chunks) < ChunkCount - 1)
      <4>1. Len(chunks) = ChunkCount - 1
        BY <1>3, <3>1, <3>4
      <4> QED BY <3>1, <4>1
    <3> QED BY <1>8, <3>2, <3>3, <3>4
  <2>5. CutSoFar(next, messages, target, k)
    BY <1>3, <1>6, <2>2, <2>3, <2>4 DEF CutSoFar
  <2> QED BY <2>1, <2>5 DEF m
<1> QED BY <1>7, <1>8 DEF m

\* splitIntoChunks of a context that is not empty: nothing is lost or told
\* twice, no chunk is empty, and all but the last are in their share.
SplitWell(messages, calls) ==
    /\ calls \in Seq(Seq(Message)) /\ calls # <<>>
    /\ FlattenSeq(calls) = messages
    /\ Len(calls) <= ChunkCount
    /\ \A i \in 1..Len(calls) : calls[i] # <<>>
    /\ \A i \in 1..(Len(calls) - 1) : InShare(calls[i], Target(messages))

LEMMA TargetType ==
    ASSUME NEW messages \in Seq(Message)
    PROVE  Target(messages) \in Int
<1>1. MessagesTokens(messages) \in Int /\ ChunkCount \in Nat \ {0}
  BY TokensType, CompactedAssumption
<1>2. MessagesTokens(messages) \div ChunkCount \in Int
  BY <1>1
<1> QED BY <1>2, MaxOfTwo DEF Target

LEMMA OneChunk ==
    ASSUME NEW messages \in Seq(Message), messages # <<>>
    PROVE  SplitWell(messages, <<messages>>)
<1> DEFINE calls == <<messages>>
<1>1. /\ calls \in Seq(Seq(Message)) /\ Len(calls) = 1 /\ calls # <<>>
      /\ \A i \in 1..Len(calls) : calls[i] = messages
  OBVIOUS
<1>2. FlattenSeq(calls) = messages
  BY FlattenFew
<1>3. ChunkCount \in Nat \ {0}
  BY CompactedAssumption
<1> HIDE DEF calls
<1>4. SplitWell(messages, calls)
  BY <1>1, <1>2, <1>3 DEF SplitWell
<1> QED BY <1>4 DEF calls

LEMMA SplitMessages ==
    ASSUME NEW messages \in Seq(Message), messages # <<>>
    PROVE  SplitWell(messages, SplitIntoChunks(messages))
<1> DEFINE n == Len(messages)
           target == Target(messages)
<1>1. CASE ChunkCount <= 1 \/ n <= ChunkCount
  BY <1>1, OneChunk DEF SplitIntoChunks
<1>2. CASE ~(ChunkCount <= 1 \/ n <= ChunkCount)
  <2>1. ChunkCount \in Nat /\ ChunkCount > 1 /\ n \in Nat /\ n # 0
    BY <1>2, CompactedAssumption
  <2>2. target \in Int
    BY TargetType
  <2> HIDE DEF target
  <2>3. PICK f \in [0..n -> ChunkStates] : ChunkRun(f, messages, target)
    BY <2>2, ChunkValues
  <2> DEFINE Good == {k \in 0..n : CutSoFar(f[k], messages, target, k)}
  <2>4. 0 \in Good
    <3> DEFINE first == [chunks |-> <<>>, current |-> <<>>, tokens |-> 0]
    <3>1. f[0] = first
      BY <2>3 DEF ChunkRun
    <3>2. first.chunks = <<>> /\ first.current = <<>> /\ first.tokens = 0
      OBVIOUS
    <3>3. FlattenSeq(<<>>) = <<>> /\ MessagesTokens(<<>>) = 0
      BY <2>1, FlattenFew, TokensOfOne
    <3>4. FlattenSeq(<<>>) \o <<>> = SubSeq(messages, 1, 0)
      <4>1. <<>> \o <<>> = <<>> /\ SubSeq(messages, 1, 0) = <<>>
        OBVIOUS
      <4> QED BY <3>3, <4>1
    <3>5. Len(<<>>) = 0 /\ 1..0 = {} /\ 0 <= ChunkCount - 1 /\ ~(0 > 0)
      BY <2>1
    <3> HIDE DEF first
    <3>6. CutSoFar(first, messages, target, 0)
      BY <3>2, <3>3, <3>4, <3>5 DEF CutSoFar
    <3> QED BY <2>1, <3>1, <3>6
  <2>5. ASSUME NEW k \in 1..n, k - 1 \in Good PROVE k \in Good
    <3>1. f[k] = CutOne(f[k - 1], messages[k], target)
      BY <2>3 DEF ChunkRun
    <3>2. f[k - 1] \in ChunkStates /\ CutSoFar(f[k - 1], messages, target, k - 1)
      BY <2>5
    <3>3. CutSoFar(CutOne(f[k - 1], messages[k], target), messages, target, k)
      BY <2>1, <2>2, <3>2, CutFurther
    <3> QED BY <3>1, <3>3
  <2>6. 0..n \subseteq Good
    <3> HIDE DEF Good, n
    <3> QED BY <2>1, <2>4, <2>5, InductionUpTo
  <2> DEFINE st == f[n]
             calls == Append(st.chunks, st.current)
  <2>7. st \in ChunkStates /\ CutSoFar(st, messages, target, n)
    <3>1. n \in 0..n
      BY <2>1
    <3> QED BY <2>6, <3>1
  <2>8. CutChunks(messages, target) = st
    BY <2>3 DEF ChunkRun
  <2> HIDE DEF st
  <2>9. /\ st.chunks \in Seq(Seq(Message)) /\ st.current \in Seq(Message) /\ st.current # <<>>
        /\ FlattenSeq(st.chunks) \o st.current = SubSeq(messages, 1, n)
        /\ Len(st.chunks) <= ChunkCount - 1
        /\ \A i \in 1..Len(st.chunks) : st.chunks[i] # <<>> /\ InShare(st.chunks[i], target)
    BY <2>1, <2>7 DEF CutSoFar, ChunkStates
  <2>10. SplitIntoChunks(messages) = calls
    BY <1>2, <2>8, <2>9 DEF SplitIntoChunks, target
  <2>11. FlattenSeq(calls) = FlattenSeq(st.chunks) \o st.current
    BY <2>9, FlattenAppend
  <2>12. SubSeq(messages, 1, n) = messages
    OBVIOUS
  <2> DEFINE chunks == st.chunks
             current == st.current
  <2> HIDE DEF chunks, current
  <2>13. /\ Append(chunks, current) \in Seq(Seq(Message)) /\ Append(chunks, current) # <<>>
         /\ Len(Append(chunks, current)) = Len(chunks) + 1 /\ Len(chunks) \in Nat
         /\ \A i \in 1..(Len(chunks) + 1) :
               Append(chunks, current)[i] = IF i \in 1..Len(chunks) THEN chunks[i] ELSE current
    <3> DEFINE S == Seq(Message)
    <3> HIDE DEF S
    <3>1. ASSUME NEW u \in Seq(S), NEW w \in S
          PROVE  /\ Append(u, w) \in Seq(S) /\ Append(u, w) # <<>>
                 /\ Len(Append(u, w)) = Len(u) + 1 /\ Len(u) \in Nat
                 /\ \A i \in 1..(Len(u) + 1) :
                       Append(u, w)[i] = IF i \in 1..Len(u) THEN u[i] ELSE w
      <4>1. /\ Append(u, w) \in Seq(S)
            /\ Len(Append(u, w)) = Len(u) + 1 /\ Len(u) \in Nat
            /\ \A i \in 1..(Len(u) + 1) :
                  Append(u, w)[i] = IF i \in 1..Len(u) THEN u[i] ELSE w
        OBVIOUS
      <4> QED BY <4>1
    <3> USE DEF S
    <3>2. chunks \in Seq(Seq(Message)) /\ current \in Seq(Message)
      BY <2>9 DEF chunks, current
    <3> QED BY <3>1, <3>2
  <2>14. calls = Append(chunks, current)
    BY DEF chunks, current
  <2> HIDE DEF calls
  <2>15. Len(calls) <= ChunkCount /\ Len(calls) - 1 = Len(chunks)
    BY <2>1, <2>9, <2>13, <2>14 DEF chunks
  <2>16. \A i \in 1..Len(calls) : calls[i] # <<>>
    BY <2>9, <2>13, <2>14 DEF chunks, current
  <2>17. \A i \in 1..(Len(calls) - 1) : InShare(calls[i], target)
    BY <2>9, <2>13, <2>14, <2>15 DEF chunks
  <2>18. SplitWell(messages, calls)
    BY <2>9, <2>11, <2>12, <2>13, <2>14, <2>15, <2>16, <2>17 DEF SplitWell, target
  <2> QED BY <2>10, <2>18
<1> QED BY <1>1, <1>2

-----------------------------------------------------------------------------
(* pruneForBudget and summarizeInStages *)

\* It is the longest end of the messages that fits, or the last of them.
LongestEnd(messages, k) ==
    /\ PruneForBudget(messages) = SubSeq(messages, k, Len(messages))
    /\ k = Len(messages) \/ MessagesTokens(SubSeq(messages, k, Len(messages))) <= HistoryShare
    /\ \A j \in 1..(k - 1) : MessagesTokens(SubSeq(messages, j, Len(messages))) > HistoryShare

LEMMA BudgetKeepsTheEnd ==
    ASSUME NEW messages \in Seq(Message), messages # <<>>
    PROVE  \E k \in 1..Len(messages) : LongestEnd(messages, k)
<1> DEFINE n == Len(messages)
           End(k) == SubSeq(messages, k, n)
           fitting == {k \in 1..n : MessagesTokens(End(k)) <= HistoryShare}
           ends == fitting \cup {n}
           k == Min(ends)
<1>1. n \in Nat /\ n # 0 /\ DOMAIN messages = 1..n
  OBVIOUS
<1>2. ends \subseteq 1..n /\ ends \subseteq Nat /\ ends # {}
  BY <1>1
<1>3. PruneForBudget(messages) = End(k)
  BY <1>1, Zenon DEF PruneForBudget
<1> HIDE DEF End
<1>4. k \in ends /\ \A x \in ends : k <= x
  <2> HIDE DEF ends
  <2> QED BY <1>2, MinPicks
<1> HIDE DEF k
<1>5. k \in 1..n /\ (k = n \/ MessagesTokens(End(k)) <= HistoryShare)
  <2>1. k \in fitting \/ k = n
    BY <1>4
  <2> HIDE DEF n
  <2> QED BY <1>1, <2>1
<1>6. ASSUME NEW j \in 1..(k - 1) PROVE MessagesTokens(End(j)) > HistoryShare
  <2>1. j \in 1..n /\ ~(k <= j)
    <3> HIDE DEF n
    <3> QED BY <1>1, <1>5
  <2>2. ~(MessagesTokens(End(j)) <= HistoryShare)
    BY <1>4, <2>1
  <2>3. MessagesTokens(End(j)) \in Int
    <3>1. End(j) \in Seq(Message)
      BY <1>1, <2>1 DEF End
    <3> QED BY <3>1, TokensType
  <2>4. HistoryShare \in Int
    BY CompactedAssumption, PruneAssumption
  <2> QED BY <2>2, <2>3, <2>4
<1>7. LongestEnd(messages, k)
  BY <1>3, <1>5, <1>6 DEF LongestEnd, End
<1> QED BY <1>5, <1>7

\* What is summarized is what the budget left of the rest, in good chunks.
LEMMA AllIsSummarized ==
    ASSUME NEW messages \in Seq(Message), Rest(messages) \in Seq(Message)
    PROVE  LET calls == Summarized(messages)
               told  == PruneForBudget(Rest(messages))
           IN  /\ told \in Seq(Message)
               /\ FlattenSeq(calls) = told
               /\ calls = <<>> <=> Rest(messages) = <<>>
               /\ calls # <<>> => SplitWell(told, calls)
<1> DEFINE calls == Summarized(messages)
           told  == PruneForBudget(Rest(messages))
           rest  == Rest(messages)
<1>1. told \in Seq(Message) /\ (told = <<>> <=> rest = <<>>)
  <2>1. CASE rest = <<>>
    BY <2>1 DEF PruneForBudget
  <2>2. CASE rest # <<>>
    <3>1. PICK k \in 1..Len(rest) : LongestEnd(rest, k)
      BY <2>2, BudgetKeepsTheEnd
    <3>2. told = SubSeq(rest, k, Len(rest))
      BY <3>1 DEF LongestEnd
    <3> HIDE DEF told, rest
    <3>3. ASSUME NEW s \in Seq(Message), NEW i \in 1..Len(s)
          PROVE  SubSeq(s, i, Len(s)) \in Seq(Message) /\ SubSeq(s, i, Len(s)) # <<>>
      <4>1. /\ SubSeq(s, i, Len(s)) \in Seq(Message)
            /\ Len(SubSeq(s, i, Len(s))) = Len(s) - i + 1
        OBVIOUS
      <4>2. Len(s) - i + 1 # 0 /\ Len(<<>>) = 0
        OBVIOUS
      <4> QED BY <4>1, <4>2
    <3>4. rest \in Seq(Message) /\ rest # <<>>
      BY <2>2 DEF rest
    <3>5. told \in Seq(Message) /\ told # <<>>
      BY <3>2, <3>3, <3>4
    <3> QED BY <3>4, <3>5
  <2> QED BY <2>1, <2>2
<1> HIDE DEF told, rest
<1>2. CASE told = <<>>
  <2>1. calls = <<>>
    BY <1>2 DEF Summarized, told, rest
  <2> QED BY <1>1, <1>2, <2>1, FlattenFew DEF told, rest
<1>3. CASE told # <<>> /\ Len(told) < MinMessages
  <2>1. calls = <<told>>
    BY <1>3 DEF Summarized, told, rest
  <2>2. SplitWell(told, calls)
    BY <1>1, <1>3, <2>1, OneChunk
  <2> QED BY <1>1, <1>3, <2>2 DEF told, rest, SplitWell
<1>4. CASE told # <<>> /\ ~(Len(told) < MinMessages)
  <2>1. calls = SplitIntoChunks(told)
    BY <1>4 DEF Summarized, told, rest
  <2>2. SplitWell(told, calls)
    BY <1>1, <1>4, <2>1, SplitMessages
  <2> QED BY <1>1, <1>4, <2>2 DEF told, rest, SplitWell
<1> QED BY <1>2, <1>3, <1>4

-----------------------------------------------------------------------------
(* splitPreservedTurns *)

UsersOf(messages) == {i \in DOMAIN messages : messages[i].role = "user"}

LEMMA FirstTurn ==
    ASSUME NEW messages \in Seq(Message), LastTurns(messages) # {}
    PROVE  LET f == Min(LastTurns(messages))
           IN  /\ f \in 1..Len(messages) /\ messages[f].role = "user"
               /\ Cardinality({j \in UsersOf(messages) : j >= f}) <= PreservedTurns
<1>1. LastTurns(messages) =
        {i \in UsersOf(messages) : Cardinality({j \in UsersOf(messages) : j >= i}) <= PreservedTurns}
  BY Zenon DEF LastTurns, UsersOf
<1>2. UsersOf(messages) \subseteq 1..Len(messages) /\ 1..Len(messages) \subseteq Nat
  BY DEF UsersOf
<1>3. LastTurns(messages) \subseteq Nat
  BY <1>1, <1>2
<1>4. Min(LastTurns(messages)) \in LastTurns(messages)
  BY <1>3, MinPicks
<1>5. Min(LastTurns(messages)) \in UsersOf(messages)
  BY <1>1, <1>4
<1>6. messages[Min(LastTurns(messages))].role = "user"
  BY <1>5 DEF UsersOf
<1> QED BY <1>1, <1>2, <1>4, <1>5, <1>6

LEMMA SystemMessage ==
    ASSUME NEW messages \in Seq(Message)
    PROVE  /\ SystemOf(messages) \in Seq(Message)
           /\ \/ /\ Len(SystemOf(messages)) = 1 /\ SystemOf(messages) = <<messages[1]>>
                 /\ messages # <<>> /\ messages[1].role = "system"
              \/ /\ Len(SystemOf(messages)) = 0 /\ SystemOf(messages) = <<>>
                 /\ messages # <<>> => messages[1].role # "system"
<1>1. CASE messages # <<>> /\ messages[1].role = "system"
  <2>1. SystemOf(messages) = <<messages[1]>>
    BY <1>1 DEF SystemOf
  <2>2. messages[1] \in Message
    BY <1>1
  <2> QED BY <1>1, <2>1, <2>2
<1>2. CASE ~(messages # <<>> /\ messages[1].role = "system")
  BY <1>2 DEF SystemOf
<1> QED BY <1>1, <1>2

LEMMA ShortenedType ==
    ASSUME NEW m \in Message
    PROVE  /\ Shortened(m) \in Message /\ Shortened(m).role = m.role
           /\ Shortened(Shortened(m)) = Shortened(m)
<1> DEFINE cut == [m EXCEPT !.chars = TurnChars + Ellipsis, !.tail = FALSE]
<1>1. TurnChars \in Nat /\ Ellipsis \in Nat /\ TurnChars + Ellipsis \in Nat
  BY CompactedAssumption
<1>2. /\ cut \in Message /\ cut.role = m.role /\ cut.form = m.form
      /\ cut.chars = TurnChars + Ellipsis /\ cut.tail = FALSE
      /\ [cut EXCEPT !.chars = TurnChars + Ellipsis, !.tail = FALSE] = cut
  BY <1>1 DEF Message
<1> HIDE DEF cut
<1>3. CASE m.form = "blocks" \/ m.chars <= TurnChars
  BY <1>3 DEF Shortened
<1>4. CASE ~(m.form = "blocks" \/ m.chars <= TurnChars)
  <2>1. Shortened(m) = cut
    BY <1>4 DEF Shortened, cut
  <2>2. Shortened(cut) = cut
    BY <1>2 DEF Shortened
  <2> QED BY <1>2, <2>1, <2>2
<1> QED BY <1>3, <1>4

\* A session is a head that nobody summarizes, the rest before the message
\* first, and from there on what is preserved.
Parts(messages, head, first) ==
    /\ head \in 0..1 /\ first \in 1..(Len(messages) + 1) /\ head < first
    /\ Rest(messages) = SubSeq(messages, head + 1, first - 1)
    /\ Preserved(messages) \in Seq(Message)
    /\ Len(Preserved(messages)) = Len(messages) - first + 1
    /\ \A i \in 1..Len(Preserved(messages)) :
          Preserved(messages)[i] = Shortened(messages[first - 1 + i])

LEMMA SessionParts ==
    ASSUME NEW messages \in Seq(Message)
    PROVE  \/ LastTurns(messages) = {} /\ Parts(messages, 0, Len(messages) + 1)
           \/ /\ LastTurns(messages) # {}
              /\ Parts(messages, Len(SystemOf(messages)), Min(LastTurns(messages)))
<1> DEFINE n == Len(messages)
<1>1. CASE LastTurns(messages) = {}
  <2>1. Rest(messages) = messages /\ Preserved(messages) = <<>>
    BY <1>1 DEF Rest, Preserved
  <2>2. SubSeq(messages, 0 + 1, (n + 1) - 1) = messages /\ n \in Nat /\ n - (n + 1) + 1 = 0
    OBVIOUS
  <2>3. <<>> \in Seq(Message) /\ Len(<<>>) = 0
    OBVIOUS
  <2>4. 0 \in 0..1 /\ n + 1 \in 1..(n + 1) /\ 0 < n + 1
    BY <2>2
  <2>5. \A i \in 1..Len(Preserved(messages)) : FALSE
    BY <2>1
  <2>6. Parts(messages, 0, n + 1)
    BY <2>1, <2>2, <2>3, <2>4, <2>5, Zenon DEF Parts
  <2> QED BY <1>1, <2>6
<1>2. CASE LastTurns(messages) # {}
  <2> DEFINE f == Min(LastTurns(messages))
             head == Len(SystemOf(messages))
             kept == SubSeq(messages, f, n)
  <2>1. f \in 1..n /\ messages[f].role = "user" /\ n \in Nat
    <3>1. n \in Nat
      OBVIOUS
    <3> QED BY <1>2, <3>1, FirstTurn
  <2>2. head \in 0..1 /\ head < f
    <3>1. CASE head = 1
      <4>1. messages[1].role = "system"
        BY <3>1, SystemMessage
      <4>2. f # 1
        <5>1. messages[1].role # "user"
          BY <4>1
        <5> HIDE DEF f
        <5> QED BY <2>1, <5>1
      <4> HIDE DEF f, head
      <4> QED BY <2>1, <3>1, <4>2
    <3>2. CASE head # 1
      <4>1. head = 0
        BY <3>2, SystemMessage
      <4> HIDE DEF f, head
      <4> QED BY <2>1, <4>1
    <3> QED BY <3>1, <3>2
  <2>3. Rest(messages) = SubSeq(messages, head + 1, f - 1)
    BY <1>2 DEF Rest
  <2>4. Preserved(messages) = [i \in DOMAIN kept |-> Shortened(kept[i])]
    BY <1>2 DEF Preserved
  <2> HIDE DEF f, head
  <2>5. /\ kept \in Seq(Message) /\ Len(kept) = n - f + 1
        /\ \A i \in 1..(n - f + 1) : kept[i] = messages[f - 1 + i]
    BY <2>1
  <2>6. \A i \in 1..Len(kept) : kept[i] \in Message
    BY <2>5
  <2> HIDE DEF kept, n
  <2>7. \A i \in 1..Len(kept) : Shortened(kept[i]) \in Message
    BY <2>6, ShortenedType
  <2>8. DOMAIN kept = 1..Len(kept) /\ Len(kept) \in Nat
    BY <2>5
  <2>9. Preserved(messages) \in Seq(Message) /\ Len(Preserved(messages)) = Len(kept)
    BY <2>4, <2>7, <2>8
  <2>10. \A i \in 1..Len(kept) : Preserved(messages)[i] = Shortened(kept[i])
    BY <2>4, <2>8
  <2>11. f \in 1..(n + 1)
    BY <2>1
  <2>12. Parts(messages, head, f)
    BY <2>2, <2>3, <2>5, <2>9, <2>10, <2>11 DEF Parts, n
  <2> QED BY <1>2, <2>12 DEF f, head
<1> QED BY <1>1, <1>2

LEMMA EndOfPart ==
    ASSUME NEW T, NEW s \in Seq(T), NEW a \in 1..(Len(s) + 1), NEW b \in 0..Len(s), a <= b + 1
    PROVE  /\ SubSeq(s, a, b) \in Seq(T) /\ Len(SubSeq(s, a, b)) = b - a + 1
           /\ \A k \in 1..(b - a + 1) :
                SubSeq(SubSeq(s, a, b), k, b - a + 1) = SubSeq(s, a + k - 1, b)
<1> DEFINE part == SubSeq(s, a, b)
<1>1. /\ part \in Seq(T) /\ Len(part) = b - a + 1
      /\ \A i \in 1..(b - a + 1) : part[i] = s[a + i - 1]
  OBVIOUS
<1> HIDE DEF part
<1>2. ASSUME NEW k \in 1..(b - a + 1)
      PROVE  SubSeq(part, k, b - a + 1) = SubSeq(s, a + k - 1, b)
  <2> DEFINE one == SubSeq(part, k, b - a + 1)
             two == SubSeq(s, a + k - 1, b)
             n == b - a + 1 - k + 1
  <2>1. /\ one \in Seq(T) /\ Len(one) = n
        /\ \A i \in 1..n : one[i] = part[k + i - 1]
    BY <1>1
  <2>2. /\ two \in Seq(T) /\ Len(two) = n
        /\ \A i \in 1..n : two[i] = s[(a + k - 1) + i - 1]
    <3>1. a + k - 1 \in 1..(Len(s) + 1) /\ b - (a + k - 1) + 1 = n
      OBVIOUS
    <3> QED BY <3>1
  <2> HIDE DEF one, two
  <2>3. ASSUME NEW i \in 1..n PROVE one[i] = two[i]
    <3>1. k + i - 1 \in 1..(b - a + 1) /\ a + (k + i - 1) - 1 = (a + k - 1) + i - 1
      OBVIOUS
    <3> QED BY <1>1, <2>1, <2>2, <3>1
  <2> HIDE DEF n
  <2>4. one = two
    BY <2>1, <2>2, <2>3
  <2> QED BY <2>4 DEF one, two, n
<1> QED BY <1>1, <1>2 DEF part

\* CompactionCoversTheSession and ChunksAreBalanced of any session.
Covered(messages) ==
    LET told    == FlattenSeq(Summarized(messages))
        kept    == Preserved(messages)
        first   == Len(messages) - Len(kept) - Len(told)
        head    == IF LastTurns(messages) = {} THEN 0 ELSE Len(SystemOf(messages))
    IN  /\ first >= head
        /\ told = SubSeq(messages, first + 1, first + Len(told))
        /\ \A i \in DOMAIN kept : kept[i] = Shortened(messages[first + Len(told) + i])
        /\ first > head =>
             MessagesTokens(SubSeq(messages, first, first + Len(told))) > HistoryShare
        /\ first > head /\ Len(told) > 1 => MessagesTokens(told) <= HistoryShare

LEMMA SessionIsCovered ==
    ASSUME NEW messages \in Seq(Message)
    PROVE  Covered(messages)
<1> DEFINE told  == FlattenSeq(Summarized(messages))
           kept  == Preserved(messages)
           rest  == Rest(messages)
           n     == Len(messages)
           head  == IF LastTurns(messages) = {} THEN 0 ELSE Len(SystemOf(messages))
           first == n - Len(kept) - Len(told)
<1>1. PICK f : Parts(messages, head, f)
  BY SessionParts
<1> HIDE DEF head
<1>2. /\ head \in 0..1 /\ f \in 1..(n + 1) /\ head < f /\ n \in Nat
      /\ rest = SubSeq(messages, head + 1, f - 1)
      /\ kept \in Seq(Message) /\ Len(kept) = n - f + 1
      /\ \A i \in 1..Len(kept) : kept[i] = Shortened(messages[f - 1 + i])
  <2>1. n \in Nat
    OBVIOUS
  <2> QED BY <1>1, <2>1 DEF Parts
<1> DEFINE r == f - 1 - head
<1>3. /\ rest \in Seq(Message) /\ Len(rest) = r /\ r \in Nat
      /\ \A k \in 1..r : SubSeq(rest, k, r) = SubSeq(messages, head + k, f - 1)
  <2> HIDE DEF n, rest
  <2>1. /\ head + 1 \in 1..(n + 1) /\ f - 1 \in 0..n /\ head + 1 <= (f - 1) + 1
        /\ (f - 1) - (head + 1) + 1 = r /\ r \in Nat
        /\ \A k \in 1..r : (head + 1) + k - 1 = head + k
    BY <1>2
  <2> HIDE DEF r
  <2>2. /\ SubSeq(messages, head + 1, f - 1) \in Seq(Message)
        /\ Len(SubSeq(messages, head + 1, f - 1)) = r
        /\ \A k \in 1..r : SubSeq(SubSeq(messages, head + 1, f - 1), k, r)
                             = SubSeq(messages, (head + 1) + k - 1, f - 1)
    BY <2>1, EndOfPart DEF n
  <2> QED BY <1>2, <2>1, <2>2
<1>4. told = PruneForBudget(rest) /\ told \in Seq(Message)
  BY <1>3, AllIsSummarized
<1> HIDE DEF told, kept, rest, n
<1>5. CASE rest = <<>>
  <2>1. told = <<>>
    BY <1>4, <1>5 DEF PruneForBudget
  <2>2. Len(told) = 0 /\ r = 0
    <3>1. Len(<<>>) = 0
      OBVIOUS
    <3> QED BY <1>3, <1>5, <2>1, <3>1
  <2>3. first = head /\ first + 0 = f - 1 /\ first + Len(told) = f - 1
    BY <1>2, <2>2
  <2>4. SubSeq(messages, first + 1, first + Len(told)) = <<>>
    <3>1. head \in Int /\ \A s \in Seq(Message), a \in Int : SubSeq(s, a + 1, a) = <<>>
      BY <1>2
    <3> QED BY <2>2, <2>3, <3>1
  <2> HIDE DEF first, r
  <2>5. ~(first > head) /\ first >= head
    BY <1>2, <2>3
  <2>6. \A i \in DOMAIN kept : kept[i] = Shortened(messages[first + Len(told) + i])
    <3>1. DOMAIN kept = 1..Len(kept)
      BY <1>2
    <3> QED BY <1>2, <2>3, <3>1
  <2> QED BY <2>1, <2>4, <2>5, <2>6 DEF Covered, told, kept, n, first, head
<1>6. CASE rest # <<>>
  <2>1. PICK k \in 1..Len(rest) : LongestEnd(rest, k)
    BY <1>3, <1>6, BudgetKeepsTheEnd
  <2>2. k \in 1..r
    BY <1>3, <2>1
  <2>3. told = SubSeq(rest, k, r) /\ told = SubSeq(messages, head + k, f - 1)
    BY <1>3, <1>4, <2>1, <2>2 DEF LongestEnd
  <2>4. Len(told) = r - k + 1
    <3>1. \A s \in Seq(Message) : \A i \in 1..Len(s) :
             Len(SubSeq(s, i, Len(s))) = Len(s) - i + 1
      OBVIOUS
    <3> QED BY <1>3, <2>2, <2>3, <3>1
  <2>5. /\ first = head + k - 1 /\ first + 1 = head + k /\ first + Len(told) = f - 1
        /\ first >= head /\ (first > head => k - 1 \in 1..(k - 1))
        /\ k - 1 >= 1 => k - 1 \in 1..r /\ head + (k - 1) = first
    BY <1>2, <2>2, <2>4
  <2>6. first > head =>
           MessagesTokens(SubSeq(messages, first, first + Len(told))) > HistoryShare
    <3> SUFFICES ASSUME first > head
                 PROVE  MessagesTokens(SubSeq(messages, first, first + Len(told))) > HistoryShare
      OBVIOUS
    <3>1. k - 1 \in 1..(k - 1) /\ k - 1 \in 1..r /\ head + (k - 1) = first
      BY <2>2, <2>5
    <3>2. MessagesTokens(SubSeq(rest, k - 1, r)) > HistoryShare
      BY <1>3, <2>1, <3>1 DEF LongestEnd
    <3>3. SubSeq(rest, k - 1, r) = SubSeq(messages, first, f - 1)
      BY <1>3, <3>1
    <3> QED BY <2>5, <3>2, <3>3
  <2>7. Len(told) > 1 => MessagesTokens(told) <= HistoryShare
    <3>1. Len(told) > 1 => k # r
      BY <2>2, <2>4
    <3> QED BY <1>3, <2>1, <2>3, <3>1 DEF LongestEnd
  <2> HIDE DEF first, r
  <2>8. \A i \in DOMAIN kept : kept[i] = Shortened(messages[first + Len(told) + i])
    <3>1. DOMAIN kept = 1..Len(kept)
      BY <1>2
    <3> QED BY <1>2, <2>5, <3>1
  <2>9. told = SubSeq(messages, first + 1, first + Len(told))
    BY <2>3, <2>5
  <2> QED BY <2>5, <2>6, <2>7, <2>8, <2>9 DEF Covered, told, kept, n, first, head
<1> QED BY <1>5, <1>6

Balanced(messages) ==
    LET calls == Summarized(messages)
        part  == Target(FlattenSeq(calls))
    IN  /\ Len(calls) <= ChunkCount
        /\ \A i \in DOMAIN calls : calls[i] # <<>>
        /\ \A i \in DOMAIN calls \ {Len(calls)} :
             MessagesTokens(calls[i]) <= part \/ Len(calls[i]) = 1

LEMMA RestType ==
    ASSUME NEW messages \in Seq(Message)
    PROVE  Rest(messages) \in Seq(Message)
<1>1. PICK head, f : Parts(messages, head, f)
  BY SessionParts
<1>2. Rest(messages) = SubSeq(messages, head + 1, f - 1) /\ head \in 0..1 /\ head < f
      /\ f \in 1..(Len(messages) + 1)
  BY <1>1 DEF Parts
<1>3. Len(messages) \in Nat
  OBVIOUS
<1>4. head + 1 \in 1..(Len(messages) + 1) /\ f - 1 \in 0..Len(messages) /\ head + 1 <= (f - 1) + 1
  BY <1>2, <1>3
<1> QED BY <1>2, <1>4, EndOfPart

LEMMA ChunksBalance ==
    ASSUME NEW messages \in Seq(Message)
    PROVE  Balanced(messages)
<1> DEFINE calls == Summarized(messages)
           told  == PruneForBudget(Rest(messages))
<1>1. /\ FlattenSeq(calls) = told
      /\ calls # <<>> => SplitWell(told, calls)
  BY RestType, AllIsSummarized
<1>2. ChunkCount \in Nat \ {0}
  BY CompactedAssumption
<1> HIDE DEF calls, told
<1>3. CASE calls = <<>>
  <2>1. Len(calls) = 0 /\ DOMAIN calls = {}
    BY <1>3
  <2> QED BY <1>2, <2>1 DEF Balanced, calls
<1>4. CASE calls # <<>>
  <2>1. /\ calls \in Seq(Seq(Message)) /\ Len(calls) <= ChunkCount
        /\ \A i \in 1..Len(calls) : calls[i] # <<>>
        /\ \A i \in 1..(Len(calls) - 1) : InShare(calls[i], Target(told))
    BY <1>1, <1>4 DEF SplitWell
  <2>2. DOMAIN calls = 1..Len(calls) /\ Len(calls) \in Nat
    BY <2>1
  <2>3. \A i \in DOMAIN calls \ {Len(calls)} : i \in 1..(Len(calls) - 1)
    BY <2>2
  <2> QED BY <1>1, <2>1, <2>2, <2>3 DEF Balanced, InShare, calls
<1> QED BY <1>3, <1>4

-----------------------------------------------------------------------------
(* Compacting again *)

\* The parts of a compacted session.
CompactedParts(messages, size, o) ==
    LET once == Compacted(messages, size)
        kept == Preserved(messages)
        f    == Min(LastTurns(messages))
    IN  /\ once = SystemOf(messages) \o Between(messages, size) \o kept
        /\ Between(messages, size) \in Seq(Message) /\ Len(Between(messages, size)) \in 0..1
        /\ o = Len(SystemOf(messages)) + Len(Between(messages, size)) /\ o \in Nat
        /\ once \in Seq(Message) /\ Len(once) = o + Len(kept) /\ kept # <<>>
        /\ \A i \in 1..o : once[i].role # "user"
        /\ \A i \in 1..Len(kept) : /\ once[o + i] = kept[i]
                                   /\ kept[i].role = messages[f - 1 + i].role
                                   /\ Shortened(kept[i]) = kept[i]
        /\ \A i \in (Len(SystemOf(messages)) + 1)..o : once[i] = Summary(size)
        /\ once[o + 1].role = "user"
        /\ f \in 1..Len(messages) /\ Len(kept) = Len(messages) - f + 1

LEMMA SummaryType ==
    ASSUME NEW size \in Nat
    PROVE  Summary(size) \in Message /\ Summary(size).role = "assistant"
BY DEF Summary, Message

LEMMA PartsOfCompacted ==
    ASSUME NEW messages \in Seq(Message), NEW size \in Nat, LastTurns(messages) # {}
    PROVE  \E o \in Nat : CompactedParts(messages, size, o)
<1> DEFINE sys  == SystemOf(messages)
           mid  == Between(messages, size)
           kept == Preserved(messages)
           once == Compacted(messages, size)
           f    == Min(LastTurns(messages))
           o    == Len(sys) + Len(mid)
<1>1. f \in 1..Len(messages) /\ messages[f].role = "user"
  BY FirstTurn
<1>2. Parts(messages, Len(sys), f)
  BY SessionParts
<1> HIDE DEF f
<1>3. /\ kept \in Seq(Message) /\ Len(kept) = Len(messages) - f + 1
      /\ \A i \in 1..Len(kept) : kept[i] = Shortened(messages[f - 1 + i])
  BY <1>2 DEF Parts
<1>4. /\ sys \in Seq(Message) /\ Len(sys) \in Nat
      /\ \A i \in 1..Len(sys) : sys[i].role # "user"
  <2>1. /\ sys \in Seq(Message)
        /\ \/ Len(sys) = 1 /\ sys = <<messages[1]>> /\ messages[1].role = "system"
           \/ Len(sys) = 0
    BY SystemMessage, Zenon
  <2> HIDE DEF sys
  <2>2. CASE Len(sys) = 1 /\ sys = <<messages[1]>> /\ messages[1].role = "system"
    <3>1. sys[1] = messages[1]
      BY <2>2
    <3>2. \A i \in 1..Len(sys) : i = 1
      BY <2>2
    <3> QED BY <2>1, <2>2, <3>1, <3>2
  <2>3. CASE Len(sys) = 0
    BY <2>1, <2>3
  <2> QED BY <2>1, <2>2, <2>3
<1>5. /\ mid \in Seq(Message) /\ Len(mid) \in 0..1
      /\ \A i \in 1..Len(mid) : mid[i] = Summary(size)
  <2>1. mid = <<>> \/ mid = <<Summary(size)>>
    BY DEF Between
  <2>2. \A i \in 1..Len(<<Summary(size)>>) : <<Summary(size)>>[i] = Summary(size)
    OBVIOUS
  <2>3. \A i \in 1..Len(<<>>) : FALSE
    OBVIOUS
  <2>4. <<Summary(size)>> \in Seq(Message) /\ Len(<<Summary(size)>>) = 1 /\ <<>> \in Seq(Message) /\ Len(<<>>) = 0
    BY SummaryType
  <2>5. 0 \in 0..1 /\ 1 \in 0..1
    OBVIOUS
  <2> HIDE DEF mid
  <2> QED BY <2>1, <2>2, <2>3, <2>4, <2>5, Zenon
<1>6. once = sys \o mid \o kept
  BY DEF Compacted, Between
<1> HIDE DEF sys, mid, kept, once
<1>7. /\ once \in Seq(Message) /\ Len(once) = o + Len(kept) /\ o \in Nat
      /\ \A i \in 1..Len(sys) : once[i] = sys[i]
      /\ \A i \in 1..Len(mid) : once[Len(sys) + i] = mid[i]
      /\ \A i \in 1..Len(kept) : once[o + i] = kept[i]
  <2> DEFINE front == sys \o mid
  <2>1. /\ front \in Seq(Message) /\ Len(front) = o /\ o \in Nat
        /\ \A i \in 1..Len(sys) : front[i] = sys[i] /\ i \in 1..o
        /\ \A i \in 1..Len(mid) : front[Len(sys) + i] = mid[i] /\ Len(sys) + i \in 1..o
    BY <1>4, <1>5
  <2>2. once = front \o kept
    BY <1>6
  <2> HIDE DEF front, o
  <2>4. ASSUME NEW u \in Seq(Message), NEW w \in Seq(Message)
        PROVE  /\ u \o w \in Seq(Message) /\ Len(u \o w) = Len(u) + Len(w)
               /\ \A i \in 1..Len(u) : (u \o w)[i] = u[i]
               /\ \A i \in 1..Len(w) : (u \o w)[Len(u) + i] = w[i]
    OBVIOUS
  <2>3. /\ once \in Seq(Message) /\ Len(once) = o + Len(kept)
        /\ \A i \in 1..o : once[i] = front[i]
        /\ \A i \in 1..Len(kept) : once[o + i] = kept[i]
    BY <1>3, <2>1, <2>2, <2>4
  <2> QED BY <2>1, <2>3
<1>8. \A i \in (Len(sys) + 1)..o : once[i] = Summary(size)
  <2> SUFFICES ASSUME NEW i \in (Len(sys) + 1)..o PROVE once[i] = Summary(size)
    OBVIOUS
  <2>1. i - Len(sys) \in 1..Len(mid) /\ Len(sys) + (i - Len(sys)) = i
    BY <1>4, <1>5
  <2> QED BY <1>5, <1>7, <2>1
<1>9. \A i \in 1..o : once[i].role # "user"
  <2> SUFFICES ASSUME NEW i \in 1..o PROVE once[i].role # "user"
    OBVIOUS
  <2>1. CASE i \in 1..Len(sys)
    BY <1>4, <1>7, <2>1
  <2>2. CASE i \in (Len(sys) + 1)..o
    BY <1>8, <2>2, SummaryType
  <2> QED BY <1>4, <1>7, <2>1, <2>2
<1>10. ASSUME NEW i \in 1..Len(kept)
       PROVE  kept[i].role = messages[f - 1 + i].role /\ Shortened(kept[i]) = kept[i]
  <2>1. f - 1 + i \in 1..Len(messages)
    BY <1>1, <1>3
  <2>2. messages[f - 1 + i] \in Message
    BY <2>1
  <2> QED BY <1>3, <2>2, ShortenedType
<1>11. kept # <<>> /\ once[o + 1].role = "user"
  <2>1. Len(kept) \in Nat /\ Len(kept) # 0 /\ 1 \in 1..Len(kept) /\ f - 1 + 1 = f
    BY <1>1, <1>3
  <2> QED BY <1>1, <1>7, <1>10, <2>1
<1>12. CompactedParts(messages, size, o)
  <2> HIDE DEF o
  <2> QED BY <1>1, <1>3, <1>5, <1>6, <1>7, <1>8, <1>9, <1>10, <1>11
        DEF CompactedParts, sys, mid, kept, once, f, o
<1> QED BY <1>7, <1>12

\* The last turns of a compacted session are all that users said in it.
LEMMA LastTurnsOfCompacted ==
    ASSUME NEW messages \in Seq(Message), NEW size \in Nat, LastTurns(messages) # {},
           NEW o \in Nat, CompactedParts(messages, size, o)
    PROVE  LastTurns(Compacted(messages, size)) # {} /\ Min(LastTurns(Compacted(messages, size))) = o + 1
<1> DEFINE once  == Compacted(messages, size)
           kept  == Preserved(messages)
           f     == Min(LastTurns(messages))
           users == UsersOf(once)
           late  == {j \in UsersOf(messages) : j >= f}
           n     == Len(messages)
<1>1. /\ once \in Seq(Message) /\ Len(once) = o + Len(kept) /\ kept # <<>>
      /\ \A i \in 1..o : once[i].role # "user"
      /\ \A i \in 1..Len(kept) : once[o + i] = kept[i] /\ kept[i].role = messages[f - 1 + i].role
      /\ once[o + 1].role = "user"
      /\ f \in 1..n /\ Len(kept) = n - f + 1
  BY DEF CompactedParts
<1>2. Cardinality(late) <= PreservedTurns
  BY FirstTurn
<1>3. n \in Nat /\ UsersOf(messages) = {i \in 1..n : messages[i].role = "user"}
  BY DEF UsersOf
<1>4. users = {i \in 1..(o + Len(kept)) : once[i].role = "user"}
  BY <1>1 DEF UsersOf
<1> HIDE DEF once, kept, f, users, n
<1>5. IsFiniteSet(late) /\ late \subseteq 1..n
  <2>1. late \subseteq 1..n
    BY <1>3
  <2>2. IsFiniteSet(1..n)
    BY <1>3, FS_Interval
  <2> HIDE DEF late
  <2> QED BY <2>1, <2>2, FS_Subset
<1>6. \A i \in users : i \in (o + 1)..(o + Len(kept))
  BY <1>1, <1>3, <1>4
<1> DEFINE g == [i \in users |-> i - o + f - 1]
<1>7. g \in Injection(users, late)
  <2>1. ASSUME NEW i \in users PROVE i - o + f - 1 \in late
    <3>1. i - o \in 1..Len(kept) /\ o + (i - o) = i /\ f - 1 + (i - o) = i - o + f - 1
      BY <1>1, <1>3, <1>6
    <3>2. messages[i - o + f - 1].role = "user"
      <4> DEFINE k == i - o
      <4>1. k \in 1..Len(kept) /\ o + k = i /\ f - 1 + k = i - o + f - 1 /\ once[i].role = "user"
        BY <1>4, <3>1
      <4> HIDE DEF k
      <4>2. once[o + k] = kept[k] /\ kept[k].role = messages[f - 1 + k].role
        BY <1>1, <4>1
      <4> QED BY <4>1, <4>2
    <3>3. i - o + f - 1 \in 1..n /\ i - o + f - 1 >= f
      BY <1>1, <1>3, <3>1
    <3> QED BY <1>3, <3>2, <3>3
  <2>2. \A i, j \in users : i - o + f - 1 = j - o + f - 1 => i = j
    BY <1>1, <1>3, <1>6
  <2> HIDE DEF late
  <2>3. g \in [users -> late]
    BY <2>1
  <2>4. \A i, j \in users : g[i] = g[j] => i = j
    BY <2>2
  <2> HIDE DEF g
  <2> QED BY <2>3, <2>4 DEF Injection, IsInjective
<1> HIDE DEF late, g
<1>8. IsFiniteSet(users) /\ Cardinality(users) <= Cardinality(late)
  BY <1>5, <1>7, FS_Injection
<1>9. ASSUME NEW i \in users PROVE Cardinality({j \in users : j >= i}) <= PreservedTurns
  <2> DEFINE later == {j \in users : j >= i}
  <2>1. later \subseteq users
    OBVIOUS
  <2> HIDE DEF later
  <2>2. Cardinality(later) <= Cardinality(users) /\ IsFiniteSet(later)
    BY <1>8, <2>1, FS_Subset
  <2>3. /\ Cardinality(later) \in Nat /\ Cardinality(users) \in Nat
        /\ Cardinality(late) \in Nat /\ PreservedTurns \in Nat
    BY <1>5, <1>8, <2>2, FS_CardinalityType, CompactedAssumption
  <2>4. Cardinality(later) <= PreservedTurns
    BY <1>2, <1>8, <2>2, <2>3
  <2> QED BY <2>4 DEF later
<1>10. LastTurns(once) = users
  <2>1. LastTurns(once) = {i \in users : Cardinality({j \in users : j >= i}) <= PreservedTurns}
    BY Zenon DEF LastTurns, users, UsersOf
  <2> QED BY <1>9, <2>1
<1>11. o + 1 \in users
  <2>1. o + 1 \in 1..(o + Len(kept))
    <3>1. Len(kept) \in Nat /\ Len(kept) # 0
      BY <1>1, <1>3
    <3> QED BY <3>1
  <2> QED BY <1>1, <1>4, <2>1
<1>12. Min(users) = o + 1
  <2>1. users \subseteq Nat /\ users # {}
    BY <1>4, <1>11
  <2>2. Min(users) \in users /\ \A x \in users : Min(users) <= x
    BY <2>1, MinPicks
  <2>3. Min(users) <= o + 1 /\ Min(users) >= o + 1 /\ Min(users) \in Nat
    <3>1. \A x \in users : x \in Nat /\ x >= o + 1
      BY <1>1, <1>6
    <3> QED BY <1>11, <2>2, <3>1
  <2> QED BY <2>3
<1> QED BY <1>10, <1>11, <1>12 DEF once

LEMMA FirstOfBoth ==
    ASSUME NEW T, NEW u \in Seq(T), NEW v \in Seq(T), Len(u) >= 1
    PROVE  (u \o v)[1] = u[1] /\ Len(u \o v) >= 1 /\ u \o v \in Seq(T)
<1>1. /\ u \o v \in Seq(T) /\ Len(u \o v) = Len(u) + Len(v)
      /\ Len(u) \in Nat /\ Len(v) \in Nat
  OBVIOUS
<1>2. 1 \in 1..Len(u)
  BY <1>1
<1>3. \A i \in 1..Len(u) : (u \o v)[i] = u[i]
  OBVIOUS
<1> QED BY <1>1, <1>2, <1>3

\* CompactingAgainKeepsTheTurns of any session and any two summaries.
Recompacted(messages, size, second) ==
    LET once == Compacted(messages, size)
        told == FlattenSeq(Summarized(once))
    IN  /\ told = Between(messages, size)
        /\ Compacted(once, second) =
              SystemOf(messages) \o (IF told = <<>> THEN <<>> ELSE Between(messages, second))
                \o Preserved(messages)

LEMMA CompactedAgain ==
    ASSUME NEW messages \in Seq(Message), LastTurns(messages) # {},
           NEW size \in Nat, NEW second \in Nat
    PROVE  Recompacted(messages, size, second)
<1>1. PICK o \in Nat : CompactedParts(messages, size, o)
  BY PartsOfCompacted
<1> DEFINE once  == Compacted(messages, size)
           sys   == SystemOf(messages)
           mid   == Between(messages, size)
           kept  == Preserved(messages)
<1>2. /\ once = sys \o mid \o kept
      /\ mid \in Seq(Message) /\ Len(mid) \in 0..1 /\ o = Len(sys) + Len(mid)
      /\ once \in Seq(Message) /\ Len(once) = o + Len(kept) /\ kept # <<>>
      /\ \A i \in 1..Len(kept) : once[o + i] = kept[i] /\ Shortened(kept[i]) = kept[i]
      /\ \A i \in (Len(sys) + 1)..o : once[i] = Summary(size)
      /\ once[o + 1].role = "user"
  BY <1>1 DEF CompactedParts
<1>3. /\ LastTurns(once) # {} /\ Min(LastTurns(once)) = o + 1
  BY <1>1, LastTurnsOfCompacted
<1>4. /\ sys \in Seq(Message)
      /\ \/ Len(sys) = 1 /\ sys = <<messages[1]>> /\ messages[1].role = "system"
         \/ Len(sys) = 0 /\ sys = <<>>
  BY SystemMessage, Zenon
<1>5. kept \in Seq(Message)
  <2>1. PICK head, f : Parts(messages, head, f)
    BY SessionParts
  <2> QED BY <2>1 DEF Parts
<1>6. mid = <<>> \/ mid = <<Summary(size)>>
  BY DEF Between
<1> HIDE DEF once, sys, mid, kept
<1>7. SystemOf(once) = sys
  <2>1. once # <<>>
    BY <1>2, <1>5
  <2>2. CASE Len(sys) = 1 /\ sys = <<messages[1]>> /\ messages[1].role = "system"
    <3>1. once[1] = messages[1]
      <4>1. sys[1] = messages[1] /\ Len(sys) = 1
        BY <2>2
      <4>2. once[1] = sys[1]
        <5>2. Len(sys) >= 1
          BY <4>1
        <5>3. (sys \o mid)[1] = sys[1] /\ Len(sys \o mid) >= 1 /\ sys \o mid \in Seq(Message)
          BY <1>2, <1>4, <5>2, FirstOfBoth
        <5>4. ((sys \o mid) \o kept)[1] = (sys \o mid)[1]
          BY <1>5, <5>3, FirstOfBoth
        <5> QED BY <1>2, <5>3, <5>4
      <4> QED BY <4>1, <4>2
    <3> QED BY <2>1, <2>2, <3>1 DEF SystemOf
  <2>3. CASE Len(sys) = 0 /\ sys = <<>>
    <3>1. once[1].role # "system"
      <4>1. CASE Len(mid) = 0
        <5>1. o + 1 = 1
          BY <1>2, <2>3, <4>1
        <5>2. once[1].role = "user"
          BY <1>2, <5>1
        <5> QED BY <5>2
      <4>2. CASE Len(mid) # 0
        <5>1. 1 \in (Len(sys) + 1)..o
          BY <1>2, <2>3, <4>2
        <5>2. once[1] = Summary(size)
          BY <1>2, <5>1
        <5> QED BY <5>2, SummaryType
      <4> QED BY <4>1, <4>2
    <3> QED BY <2>3, <3>1 DEF SystemOf
  <2> QED BY <1>4, <2>2, <2>3
<1>8. Parts(once, Len(sys), o + 1)
  BY <1>2, <1>3, <1>7, SessionParts
<1>9. Rest(once) = mid
  <2>1. Rest(once) = SubSeq(once, Len(sys) + 1, (o + 1) - 1)
    BY <1>8 DEF Parts
  <2>2. ASSUME NEW u \in Seq(Message), NEW v \in Seq(Message), NEW w \in Seq(Message)
        PROVE  SubSeq(u \o v \o w, Len(u) + 1, Len(u) + Len(v)) = v
    OBVIOUS
  <2>3. (o + 1) - 1 = Len(sys) + Len(mid)
    BY <1>2
  <2> QED BY <1>2, <1>4, <1>5, <2>1, <2>2, <2>3
<1>10. Preserved(once) = kept
  <2>1. /\ Preserved(once) \in Seq(Message)
        /\ Len(Preserved(once)) = Len(once) - (o + 1) + 1
        /\ \A i \in 1..Len(Preserved(once)) :
              Preserved(once)[i] = Shortened(once[(o + 1) - 1 + i])
    BY <1>8 DEF Parts
  <2>2. Len(Preserved(once)) = Len(kept) /\ Len(kept) \in Nat
    BY <1>2, <1>5, <2>1
  <2>3. ASSUME NEW i \in 1..Len(kept) PROVE Preserved(once)[i] = kept[i]
    <3>1. (o + 1) - 1 + i = o + i
      OBVIOUS
    <3> QED BY <1>2, <2>1, <2>2, <3>1
  <2> QED BY <1>5, <2>1, <2>2, <2>3
<1>11. PruneForBudget(mid) = mid
  <2>1. CASE mid = <<>>
    BY <2>1 DEF PruneForBudget
  <2>2. CASE mid = <<Summary(size)>>
    <3>0. ASSUME NEW m \in Message
          PROVE  Len(<<m>>) = 1 /\ SubSeq(<<m>>, 1, 1) = <<m>> /\ <<m>> # <<>>
      <4> DEFINE one == <<m>>
      <4>1. one \in Seq(Message) /\ Len(one) = 1 /\ one # <<>>
        OBVIOUS
      <4> HIDE DEF one
      <4>2. SubSeq(one, 1, Len(one)) = one
        BY <4>1
      <4> QED BY <4>1, <4>2 DEF one
    <3>1. Len(mid) = 1 /\ SubSeq(mid, 1, 1) = mid /\ mid # <<>>
      BY <2>2, <3>0, SummaryType
    <3>2. PICK k \in 1..Len(mid) : LongestEnd(mid, k)
      BY <1>2, <3>1, BudgetKeepsTheEnd
    <3>3. k = 1
      BY <3>1
    <3> QED BY <3>1, <3>2, <3>3 DEF LongestEnd
  <2> QED BY <1>6, <2>1, <2>2
<1>12. /\ FlattenSeq(Summarized(once)) = mid
       /\ Summarized(once) = <<>> <=> mid = <<>>
  BY <1>2, <1>9, <1>11, AllIsSummarized
<1>13. Between(once, second) = IF mid = <<>> THEN <<>> ELSE Between(messages, second)
  <2>1. mid # <<>> => Summarized(messages) # <<>>
    BY DEF Between, mid
  <2>2. CASE mid = <<>>
    BY <1>12, <2>2 DEF Between
  <2>3. CASE mid # <<>>
    BY <1>12, <2>1, <2>3 DEF Between
  <2> QED BY <2>2, <2>3
<1>14. Compacted(once, second) = sys \o (IF mid = <<>> THEN <<>> ELSE Between(messages, second)) \o kept
  <2>1. Compacted(once, second) = SystemOf(once) \o Between(once, second) \o Preserved(once)
    BY Zenon DEF Compacted
  <2> QED BY <1>7, <1>10, <1>13, <2>1, Zenon
<1>15. FlattenSeq(Summarized(once)) = mid
  BY <1>12
<1> QED BY <1>14, <1>15, Zenon DEF Recompacted, once, sys, mid, kept

LEMMA CompactableType ==
    ASSUME history \in Seq(Message), NEW messages \in Compactable
    PROVE  messages \in Seq(Message)
<1>1. PICK system \in Systems : messages = system \o history
  BY DEF Compactable
<1>2. system \in Seq(Message)
  BY MessagesAssumption
<1> QED BY <1>1, <1>2

\* Compacting any session, every message is kept, told in one call of the
\* summary, or among the oldest beyond the share of the window
\* (compact.go:157-215, 243-275).
THEOREM CompactionCovers == Spec => []CompactionCoversTheSession
<1>1. PruneInv => CompactionCoversTheSession
  <2> SUFFICES ASSUME PruneInv, NEW messages \in Compactable PROVE Covered(messages)
    BY Zenon DEF CompactionCoversTheSession, Covered
  <2>1. messages \in Seq(Message)
    BY CompactableType DEF PruneInv
  <2> QED BY <2>1, SessionIsCovered
<1> QED BY <1>1, SentIsMade, PTL

\* The summary of any session takes at most ChunkCount calls, none empty, and
\* all but the last in their share or of one message (splitIntoChunks,
\* compact.go:243-275).
THEOREM ChunksAreInShare == Spec => []ChunksAreBalanced
<1>1. PruneInv => ChunksAreBalanced
  <2> SUFFICES ASSUME PruneInv, NEW messages \in Compactable PROVE Balanced(messages)
    BY Zenon DEF ChunksAreBalanced, Balanced
  <2>1. messages \in Seq(Message)
    BY CompactableType DEF PruneInv
  <2> QED BY <2>1, ChunksBalance
<1> QED BY <1>1, SentIsMade, PTL

\* Compacting a compacted session replaces its summary by the next one and
\* keeps the rest, whatever the session, the limits and the summaries are
\* (compact.go:42-118).
THEOREM SecondCompaction == Spec => []CompactingAgainKeepsTheTurns
<1>1. PruneInv => CompactingAgainKeepsTheTurns
  <2> SUFFICES ASSUME PruneInv, NEW messages \in Compactable,
                      NEW first \in SummaryChars, NEW second \in SummaryChars,
                      LastTurns(messages) # {}
               PROVE  Recompacted(messages, first, second)
    BY Zenon DEF CompactingAgainKeepsTheTurns, Recompacted
  <2>1. messages \in Seq(Message) /\ first \in Nat /\ second \in Nat
    BY CompactableType, CompactedAssumption DEF PruneInv
  <2> QED BY <2>1, CompactedAgain
<1> QED BY <1>1, SentIsMade, PTL
=============================================================================
