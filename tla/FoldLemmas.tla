----------------------------- MODULE FoldLemmas -----------------------------
(***************************************************************************)
(* Facts about numbers, folds and sums that the proofs about data share.   *)
(* A set S stands where a predicate would in the induction theorems of the *)
(* library; and what a fold computes is a function of which a recurrence   *)
(* is known, once it is proved to exist.                                   *)
(***************************************************************************)
EXTENDS Integers, FiniteSets, SequencesExt, FiniteSetTheorems,
        WellFoundedInduction, TLAPS

-----------------------------------------------------------------------------
(* Induction *)

\* A set of natural numbers has a least element: the intervals that end in
\* its elements are well-founded by inclusion.
LEMMA Least ==
    ASSUME NEW S, S \subseteq Nat, S # {}
    PROVE  \E m \in S : \A n \in S : m <= n
<1>1. PICK k \in S : TRUE
  OBVIOUS
<1> DEFINE Downs == {0..n : n \in S \cap 0..k}
<1>2. Downs \subseteq FiniteSubsetsOf(0..k) /\ Downs # {}
  <2>1. \A n \in 0..k : 0..n \subseteq 0..k /\ IsFiniteSet(0..n)
    BY FS_Interval
  <2> QED BY <1>1, <2>1 DEF FiniteSubsetsOf
<1>3. PICK x \in Downs :
         \A y \in Downs : <<y, x>> \notin StrictSubsetOrdering(0..k)
  <2> HIDE DEF Downs
  <2> QED BY <1>2, FS_StrictSubsetOrderingWellFounded, WFMin, Zenon
<1>4. PICK m \in S \cap 0..k : x = 0..m
  OBVIOUS
<1>5. ASSUME NEW n \in S, n < m PROVE FALSE
  <2>1. 0..n \in Downs
    BY <1>5
  <2>2. <<0..n, x>> \in StrictSubsetOrdering(0..k)
    <3>1. 0..n \subseteq 0..k /\ 0..m \subseteq 0..k /\ 0..n \subseteq 0..m
      BY <1>5
    <3>2. m \in 0..m /\ m \notin 0..n
      BY <1>5
    <3> HIDE DEF Downs
    <3> QED BY <3>1, <3>2, <1>4, Zenon DEF StrictSubsetOrdering
  <2> QED BY <2>1, <2>2, <1>3
<1> QED BY <1>5

LEMMA Induction ==
    ASSUME NEW S, 0 \in S, \A n \in Nat : n \in S => n + 1 \in S
    PROVE  Nat \subseteq S
<1> SUFFICES ASSUME Nat \ S # {} PROVE FALSE
  OBVIOUS
<1>1. PICK m \in Nat \ S : \A n \in Nat \ S : m <= n
  <2>1. Nat \ S \subseteq Nat
    OBVIOUS
  <2> QED BY <2>1, Least
<1>2. m # 0 /\ m - 1 \in Nat
  BY <1>1
<1>3. m - 1 \in S
  BY <1>1, <1>2
<1> QED BY <1>2, <1>3

\* The same up to a bound.
LEMMA InductionUpTo ==
    ASSUME NEW N \in Nat, NEW S, 0 \in S,
           \A n \in 1..N : n - 1 \in S => n \in S
    PROVE  0..N \subseteq S
<1> DEFINE Below == {n \in Nat : n <= N => n \in S}
<1>1. 0 \in Below
  OBVIOUS
<1>2. ASSUME NEW n \in Nat, n \in Below PROVE n + 1 \in Below
  <2>1. n + 1 <= N => n + 1 \in 1..N /\ (n + 1) - 1 = n
    OBVIOUS
  <2> QED BY <1>2, <2>1
<1>3. Nat \subseteq Below
  <2> HIDE DEF Below
  <2> QED BY <1>1, <1>2, Induction
<1> QED BY <1>3

\* Two functions with the same recurrence agree.
SameSteps(f, g, N) ==
    /\ f[0] = g[0]
    /\ \A n \in 1..N : f[n - 1] = g[n - 1] => f[n] = g[n]

Agree(f, g, N) == \A n \in 0..N : f[n] = g[n]

LEMMA SameRecurrence ==
    ASSUME NEW N \in Nat, NEW f, NEW g, SameSteps(f, g, N)
    PROVE  Agree(f, g, N)
<1> USE DEF SameSteps, Agree
<1> DEFINE Same == {n \in 0..N : f[n] = g[n]}
<1>1. 0 \in Same
  OBVIOUS
<1>2. \A n \in 1..N : n - 1 \in Same => n \in Same
  OBVIOUS
<1>3. 0..N \subseteq Same
  <2> HIDE DEF Same
  <2> QED BY <1>1, <1>2, InductionUpTo
<1> QED BY <1>3

-----------------------------------------------------------------------------
(* Folds *)

Picks(pick, S) == \A s \in SUBSET S : s # {} => pick[s] \in s

IsFold(iter, S, base, step, pick) ==
    \A s \in SUBSET S :
        iter[s] = IF s = {} THEN base
                  ELSE step[<<pick[s], iter[s \ {pick[s]}]>>]

\* What MapThenFoldSet iterates is a function of the subsets: step takes the
\* element that pick takes out of a set and the value of what remains.
LEMMA FoldExists ==
    ASSUME NEW S, IsFiniteSet(S), NEW T, NEW base \in T,
           NEW step \in [S \X T -> T], NEW pick, Picks(pick, S)
    PROVE  \E iter \in [SUBSET S -> T] : IsFold(iter, S, base, step, pick)
<1> USE DEF Picks
<1> DEFINE Small(k) == {s \in SUBSET S : Cardinality(s) <= k}
           Value(iter, s) == IF s = {} THEN base
                             ELSE step[<<pick[s], iter[s \ {pick[s]}]>>]
           Good(k, iter) == /\ iter \in [Small(k) -> T]
                            /\ \A s \in Small(k) : iter[s] = Value(iter, s)
           Sizes == {k \in Nat : \E iter : Good(k, iter)}
<1>1. \A s \in SUBSET S : IsFiniteSet(s) /\ Cardinality(s) \in Nat
  BY FS_Subset, FS_CardinalityType
<1>2. \A k \in Nat : \A s \in Small(k + 1) : s # {} => s \ {pick[s]} \in Small(k)
  <2> SUFFICES ASSUME NEW k \in Nat, NEW s \in Small(k + 1), s # {}
               PROVE  s \ {pick[s]} \in Small(k)
    OBVIOUS
  <2>1. Cardinality(s \ {pick[s]}) = Cardinality(s) - 1
    BY <1>1, FS_RemoveElement
  <2> QED BY <1>1, <2>1
<1>3. 0 \in Sizes
  <2> DEFINE iter == [s \in Small(0) |-> base]
  <2>1. \A s \in Small(0) : s = {}
    BY <1>1, FS_EmptySet
  <2>2. Good(0, iter)
    BY <2>1
  <2> QED BY <2>2
<1>4. ASSUME NEW k \in Nat, k \in Sizes PROVE k + 1 \in Sizes
  <2>1. PICK iter : Good(k, iter)
    BY <1>4
  <2> DEFINE more == [s \in Small(k + 1) |-> Value(iter, s)]
  <2>2. \A s \in Small(k + 1) : Value(iter, s) \in T
    BY <1>2, <2>1
  <2>3. \A s \in Small(k) : s \in Small(k + 1) /\ more[s] = iter[s]
    BY <1>1, <2>1
  <2>4. \A s \in Small(k + 1) : more[s] = Value(more, s)
    BY <1>2, <2>3
  <2>5. Good(k + 1, more)
    BY <2>2, <2>4
  <2>6. \E f : Good(k + 1, f)
    <3> HIDE DEF Good, more
    <3> QED BY <2>5
  <2> HIDE DEF Good
  <2> QED BY <2>6
<1>5. Cardinality(S) \in Sizes
  <2> HIDE DEF Sizes
  <2> QED BY <1>1, <1>3, <1>4, Induction
<1>6. Small(Cardinality(S)) = SUBSET S
  BY <1>1, FS_Subset
<1>7. PICK iter : Good(Cardinality(S), iter)
  BY <1>5
<1>8. iter \in [SUBSET S -> T] /\ \A s \in SUBSET S : iter[s] = Value(iter, s)
  BY <1>6, <1>7
<1> QED BY <1>8 DEF IsFold

\* FoldLeft picks the greatest index of those that remain, FoldRight the least.
LEMMA MaxPicks ==
    ASSUME NEW N \in Nat, NEW S, S \subseteq 0..N, S # {}
    PROVE  Max(S) \in S /\ \A x \in S : x <= Max(S)
<1> DEFINE Gaps == {N - x : x \in S}
<1>1. PICK g \in Gaps : \A h \in Gaps : g <= h
  <2>1. \A x \in S : N - x \in Nat
    OBVIOUS
  <2>2. Gaps \subseteq Nat /\ Gaps # {}
    BY <2>1
  <2> HIDE DEF Gaps
  <2> QED BY <2>2, Least
<1>2. N - g \in S /\ \A x \in S : N - g >= x
  <2>1. PICK m \in S : g = N - m
    OBVIOUS
  <2>2. \A x \in S : g <= N - x
    BY <1>1
  <2> QED BY <2>1, <2>2
<1> QED BY <1>2 DEF Max

LEMMA MinPicks ==
    ASSUME NEW S, S \subseteq Nat, S # {}
    PROVE  Min(S) \in S /\ \A x \in S : Min(S) <= x
BY Least DEF Min

LEMMA MaxOfTwo ==
    ASSUME NEW a \in Int, NEW b \in Int
    PROVE  Max({a, b}) = IF a <= b THEN b ELSE a
<1> DEFINE m == IF a <= b THEN b ELSE a
<1>1. m \in {a, b} /\ \A x \in {a, b} : x <= m
  OBVIOUS
<1>2. \A y \in {a, b} : (\A x \in {a, b} : x <= y) => y = m
  OBVIOUS
<1> QED BY <1>1, <1>2 DEF Max

LEMMA MinOfTwo ==
    ASSUME NEW a \in Int, NEW b \in Int
    PROVE  Min({a, b}) = IF a <= b THEN a ELSE b
<1> DEFINE m == IF a <= b THEN a ELSE b
<1>1. m \in {a, b} /\ \A x \in {a, b} : m <= x
  OBVIOUS
<1>2. \A y \in {a, b} : (\A x \in {a, b} : y <= x) => y = m
  OBVIOUS
<1> QED BY <1>1, <1>2 DEF Min

LEMMA MaxOfInterval ==
    ASSUME NEW k \in Nat \ {0}
    PROVE  Max(1..k) = k /\ (1..k) \ {k} = 1..(k - 1)
<1>1. 1..k \subseteq 0..k /\ k \in 1..k
  OBVIOUS
<1>2. Max(1..k) \in 1..k /\ k <= Max(1..k)
  BY <1>1, MaxPicks
<1> QED BY <1>2

\* The iteration of FoldLeft over n indices exists: step takes an index and
\* the value of what comes before it.
LeftIterates(iter, n, base, step) ==
    /\ iter[{}] = base
    /\ \A s \in SUBSET (1..n) : s # {} =>
          /\ Max(s) \in s
          /\ iter[s] = step[<<Max(s), iter[s \ {Max(s)}]>>]

LEMMA LeftIteration ==
    ASSUME NEW n \in Nat, NEW T, NEW base \in T,
           NEW step \in [(1..n) \X T -> T]
    PROVE  \E iter \in [SUBSET (1..n) -> T] : LeftIterates(iter, n, base, step)
<1> DEFINE S == 1..n
           pick == [s \in SUBSET S |-> Max(s)]
<1>1. ASSUME NEW s \in SUBSET S, s # {} PROVE Max(s) \in s
  <2>1. s \subseteq 0..n
    OBVIOUS
  <2> QED BY <1>1, <2>1, MaxPicks
<1>2. \A s \in SUBSET S : pick[s] = Max(s)
  OBVIOUS
<1>3. Picks(pick, S)
  BY <1>1 DEF Picks
<1>4. IsFiniteSet(S) /\ step \in [S \X T -> T]
  BY FS_Interval
<1>5. \E iter \in [SUBSET S -> T] : IsFold(iter, S, base, step, pick)
  <2> HIDE DEF S, pick
  <2> QED BY <1>3, <1>4, FoldExists
<1>6. PICK iter \in [SUBSET S -> T] : IsFold(iter, S, base, step, pick)
  BY <1>5
<1>7. iter[{}] = base
  BY <1>6 DEF IsFold
<1>8. ASSUME NEW s \in SUBSET S, s # {}
      PROVE  iter[s] = step[<<Max(s), iter[s \ {Max(s)}]>>]
  <2> HIDE DEF S, pick
  <2> QED BY <1>2, <1>6, <1>8 DEF IsFold
<1> QED BY <1>1, <1>6, <1>7, <1>8 DEF LeftIterates

\* The values of that iteration on the initial intervals.
LeftRun(f, n, base, step) ==
    /\ f[0] = base
    /\ \A k \in 1..n : f[k] = step[<<k, f[k - 1]>>]

LEMMA LeftValues ==
    ASSUME NEW n \in Nat, NEW T, NEW base \in T,
           NEW step \in [(1..n) \X T -> T]
    PROVE  \E f \in [0..n -> T] : LeftRun(f, n, base, step)
<1>0. PICK iter \in [SUBSET (1..n) -> T] : LeftIterates(iter, n, base, step)
  BY LeftIteration
<1>1. /\ iter[{}] = base
      /\ \A s \in SUBSET (1..n) : s # {} =>
            iter[s] = step[<<Max(s), iter[s \ {Max(s)}]>>]
  BY <1>0 DEF LeftIterates
<1> DEFINE f == [k \in 0..n |-> iter[1..k]]
<1>2. f \in [0..n -> T]
  <2>1. \A k \in 0..n : 1..k \in SUBSET (1..n)
    OBVIOUS
  <2> QED BY <2>1
<1>3. f[0] = base
  <2>1. 1..0 = {}
    OBVIOUS
  <2> QED BY <1>1, <2>1
<1>4. ASSUME NEW k \in 1..n PROVE f[k] = step[<<k, f[k - 1]>>]
  <2>1. Max(1..k) = k /\ (1..k) \ {k} = 1..(k - 1)
    BY MaxOfInterval
  <2>2. 1..k \in SUBSET (1..n) /\ k \in 1..k /\ k \in 0..n /\ k - 1 \in 0..n
    OBVIOUS
  <2>3. iter[1..k] = step[<<k, iter[1..(k - 1)]>>]
    BY <1>1, <2>1, <2>2
  <2> QED BY <2>2, <2>3
<1> QED BY <1>2, <1>3, <1>4 DEF LeftRun

\* What FoldLeft chooses takes these values on the initial intervals.
Iterates(chosen, n, T, base, step) ==
    /\ chosen[{}] = base
    /\ \A k \in 1..n : chosen[1..(k - 1)] \in T =>
          chosen[1..k] = step[<<k, chosen[1..(k - 1)]>>]

RunsTo(f, n, base, step, result) == LeftRun(f, n, base, step) /\ f[n] = result

LEMMA IterationRuns ==
    ASSUME NEW n \in Nat, NEW T, NEW base \in T,
           NEW step \in [(1..n) \X T -> T],
           NEW chosen, Iterates(chosen, n, T, base, step)
    PROVE  \E f \in [0..n -> T] : RunsTo(f, n, base, step, chosen[1..n])
<1>1. PICK f \in [0..n -> T] : LeftRun(f, n, base, step)
  BY LeftValues
<1> DEFINE g == [k \in 0..n |-> chosen[1..k]]
<1>2. f[0] = g[0]
  <2>1. 1..0 = {} /\ 0 \in 0..n
    OBVIOUS
  <2> QED BY <1>1, <2>1 DEF LeftRun, Iterates
<1>3. ASSUME NEW k \in 1..n, f[k - 1] = g[k - 1] PROVE f[k] = g[k]
  <2>1. k \in 0..n /\ k - 1 \in 0..n
    OBVIOUS
  <2>2. g[k - 1] = chosen[1..(k - 1)] /\ f[k - 1] \in T
    BY <2>1
  <2>3. chosen[1..k] = step[<<k, f[k - 1]>>]
    BY <1>3, <2>2 DEF Iterates
  <2> QED BY <1>1, <2>1, <2>3 DEF LeftRun
<1>4. SameSteps(f, g, n)
  <2> HIDE DEF g
  <2> QED BY <1>2, <1>3 DEF SameSteps
<1>5. Agree(f, g, n)
  <2> HIDE DEF g
  <2> QED BY <1>4, SameRecurrence
<1>6. chosen[1..n] = f[n]
  BY <1>5 DEF Agree
<1> QED BY <1>1, <1>6 DEF RunsTo

-----------------------------------------------------------------------------
(* FlattenSeq *)

Flattens(f, ss) ==
    /\ f[0] = <<>>
    /\ \A k \in 1..Len(ss) : f[k] = f[k - 1] \o ss[k]
    /\ FlattenSeq(ss) = f[Len(ss)]

LEMMA FlattenValues ==
    ASSUME NEW T, NEW ss \in Seq(Seq(T))
    PROVE  \E f \in [0..Len(ss) -> Seq(T)] : Flattens(f, ss)
<1> DEFINE n == Len(ss)
           S == Seq(T)
           step == [a \in (1..n) \X S |-> a[2] \o ss[a[1]]]
           Next(f) == [i \in 1..n |-> IF i = 1 THEN ss[i] ELSE f[i - 1] \o ss[i]]
<1>1. /\ n \in Nat /\ <<>> \in S
      /\ \A k \in 1..n : ss[k] \in S
      /\ \A k \in 1..n, t \in S : t \o ss[k] \in S
  OBVIOUS
<1>2. step \in [(1..n) \X S -> S]
  BY <1>1
<1>3. \A k \in 1..n, t \in S : step[<<k, t>>] = t \o ss[k]
  OBVIOUS
<1>4a. PICK f \in [0..n -> S] : LeftRun(f, n, <<>>, step)
  <2> HIDE DEF n, S, step
  <2> QED BY <1>1, <1>2, LeftValues
<1>4. f[0] = <<>> /\ \A k \in 1..n : f[k] = step[<<k, f[k - 1]>>]
  <2> HIDE DEF step
  <2> QED BY <1>4a DEF LeftRun
<1>5. ASSUME NEW k \in 1..n PROVE f[k] = f[k - 1] \o ss[k]
  <2>0. k - 1 \in 0..n
    BY <1>1
  <2>1. f[k - 1] \in S
    <3> HIDE DEF step, S, n
    <3> QED BY <2>0
  <2> HIDE DEF step, S, n
  <2> QED BY <1>3, <1>4, <2>1
<1>8. ASSUME n \in Nat \ {0} PROVE f[1] = ss[1]
  <2>0. 1 \in 1..n /\ 1 - 1 = 0
    BY <1>1, <1>8
  <2>1. f[1] = f[1 - 1] \o ss[1]
    <3> HIDE DEF step, S, n
    <3> QED BY <1>5, <2>0
  <2>2. ss[1] \in Seq(T)
    BY <1>1, <2>0
  <2>3. <<>> \o ss[1] = ss[1]
    BY <2>2
  <2> HIDE DEF step, S, n
  <2> QED BY <1>4, <2>0, <2>1, <2>3
<1>6. CASE n = 0
  <2>1. FlattenSeq(ss) = ss /\ ss = <<>>
    BY <1>6 DEF FlattenSeq
  <2> QED BY <1>4, <1>5, <1>6, <2>1 DEF Flattens
<1>7. CASE n # 0
  <2> DEFINE g == [i \in 1..n |-> f[i]]
             flat == CHOOSE h : h = Next(h)
  <2>1. n \in Nat \ {0}
    BY <1>1, <1>7
  <2>2. g = Next(g)
    <3>1. ASSUME NEW i \in 1..n PROVE g[i] = Next(g)[i]
      <4>1. CASE i = 1
        BY <1>8, <2>1, <4>1
      <4>2. CASE i # 1
        <5>1. i - 1 \in 1..n
          BY <4>2
        <5> QED BY <1>5, <4>2, <5>1
      <4> QED BY <4>1, <4>2
    <3> QED BY <3>1
  <2>3. flat = Next(flat)
    <3> HIDE DEF Next, g
    <3> QED BY <2>2
  <2>4. FlattenSeq(ss) = flat[n]
    BY <1>7, Zenon DEF FlattenSeq
  <2>5. \A i \in 1..n : flat[i] = f[i]
    <3> DEFINE Same == {i \in 0..n : i = 0 \/ flat[i] = f[i]}
    <3>0. \A i \in 0..n : i \in Same <=> (i = 0 \/ flat[i] = f[i])
      OBVIOUS
    <3>1. 0 \in Same
      BY <1>1
    <3>r. ASSUME NEW i \in 1..n
          PROVE  flat[i] = IF i = 1 THEN ss[i] ELSE flat[i - 1] \o ss[i]
      <4> HIDE DEF flat
      <4> QED BY <2>3
    <3> HIDE DEF flat, Same, n, step
    <3>2. ASSUME NEW i \in 1..n, i - 1 \in Same PROVE i \in Same
      <4>0. i \in 0..n /\ (i # 1 => i - 1 \in 0..n /\ i - 1 # 0)
        BY <1>1
      <4>1. CASE i = 1
        BY <1>8, <2>1, <3>0, <3>r, <4>0, <4>1
      <4>2. CASE i # 1
        <5>1. flat[i - 1] = f[i - 1]
          BY <3>0, <3>2, <4>0, <4>2
        <5>2. flat[i] = f[i - 1] \o ss[i]
          BY <3>r, <4>2, <5>1
        <5> QED BY <1>5, <3>0, <4>0, <5>2
      <4> QED BY <4>1, <4>2
    <3>3. 0..n \subseteq Same
      BY <1>1, <3>1, <3>2, InductionUpTo
    <3>4. ASSUME NEW i \in 1..n PROVE flat[i] = f[i]
      <4>1. i \in 0..n /\ i # 0
        BY <1>1
      <4> QED BY <3>0, <3>3, <4>1
    <3> QED BY <3>4
  <2>6. FlattenSeq(ss) = f[n]
    <3> HIDE DEF flat
    <3> QED BY <2>1, <2>4, <2>5
  <2> QED BY <1>4, <1>5, <2>6 DEF Flattens
<1> QED BY <1>6, <1>7

LEMMA FlattenAppend ==
    ASSUME NEW T, NEW ss \in Seq(Seq(T)), NEW x \in Seq(T)
    PROVE  /\ FlattenSeq(ss) \in Seq(T)
           /\ FlattenSeq(Append(ss, x)) = FlattenSeq(ss) \o x
<1> DEFINE more == Append(ss, x)
           n == Len(ss)
<1>1. /\ more \in Seq(Seq(T)) /\ n \in Nat /\ Len(more) = n + 1
      /\ \A k \in 1..n : more[k] = ss[k]
      /\ more[n + 1] = x
  OBVIOUS
<1>2. PICK f \in [0..n -> Seq(T)] : Flattens(f, ss)
  BY FlattenValues
<1> HIDE DEF more
<1>3. PICK g \in [0..Len(more) -> Seq(T)] : Flattens(g, more)
  BY <1>1, FlattenValues
<1> USE DEF Flattens
<1>4. ASSUME NEW k \in 1..n, f[k - 1] = g[k - 1] PROVE f[k] = g[k]
  <2>1. k \in 1..Len(more) /\ more[k] = ss[k]
    BY <1>1
  <2>2. g[k] = g[k - 1] \o ss[k]
    BY <1>3, <2>1
  <2>3. f[k] = f[k - 1] \o ss[k]
    BY <1>2
  <2> QED BY <1>4, <2>2, <2>3
<1>5. f[n] = g[n]
  <2>1. f[0] = g[0]
    BY <1>2, <1>3
  <2>2. \A k \in 1..n : f[k - 1] = g[k - 1] => f[k] = g[k]
    BY <1>4
  <2> HIDE DEF n, Flattens
  <2>3. SameSteps(f, g, n) /\ n \in Nat
    BY <1>1, <2>1, <2>2 DEF SameSteps
  <2>4. Agree(f, g, n)
    BY <2>3, SameRecurrence
  <2> QED BY <1>1, <2>4 DEF Agree
<1>6. g[n + 1] = g[n] \o x
  <2>1. n + 1 \in 1..Len(more) /\ (n + 1) - 1 = n
    BY <1>1
  <2> HIDE DEF n
  <2> QED BY <1>1, <1>3, <2>1
<1>7. FlattenSeq(more) = FlattenSeq(ss) \o x
  <2>1. FlattenSeq(ss) = f[n] /\ FlattenSeq(more) = g[n + 1]
    BY <1>1, <1>2, <1>3
  <2> HIDE DEF n, Flattens
  <2> QED BY <1>5, <1>6, <2>1
<1>8. FlattenSeq(ss) \in Seq(T)
  <2>1. FlattenSeq(ss) = f[n] /\ n \in 0..n
    BY <1>1, <1>2
  <2> HIDE DEF n, Flattens
  <2> QED BY <1>2, <2>1
<1> QED BY <1>7, <1>8 DEF more

LEMMA FlattenFew ==
    ASSUME NEW T, NEW x \in Seq(T)
    PROVE  FlattenSeq(<<>>) = <<>> /\ FlattenSeq(<<x>>) = x
<1> DEFINE none == <<>>
<1>1. none \in Seq(Seq(T)) /\ Len(none) = 0 /\ Append(none, x) = <<x>> /\ <<>> \o x = x
  OBVIOUS
<1> HIDE DEF none
<1>2. PICK f : Flattens(f, none)
  BY <1>1, FlattenValues
<1>3. FlattenSeq(none) = <<>>
  BY <1>1, <1>2 DEF Flattens
<1>4. FlattenSeq(Append(none, x)) = FlattenSeq(none) \o x
  BY <1>1, FlattenAppend
<1>5. FlattenSeq(<<x>>) = x
  BY <1>1, <1>3, <1>4
<1> QED BY <1>3, <1>5 DEF none

-----------------------------------------------------------------------------
(* Sums over finite sets *)

LEMMA MinimalSubset ==
    ASSUME NEW S, IsFiniteSet(S), NEW C, C \subseteq SUBSET S, C # {}
    PROVE  \E s \in C : \A t \in C : t \subseteq s => t = s
<1>1. IsWellFoundedOn(StrictSubsetOrdering(S), FiniteSubsetsOf(S))
  BY FS_StrictSubsetOrderingWellFounded
<1>2. C \subseteq FiniteSubsetsOf(S)
  BY FS_FiniteSubsetsOfFinite
<1>3. PICK s \in C : \A t \in C : ~ (<<t, s>> \in StrictSubsetOrdering(S))
  BY <1>1, <1>2, WFMin, Zenon
<1> QED BY <1>3 DEF StrictSubsetOrdering

\* A family of subsets of a finite set, with each set all of whose proper
\* subsets are in it, holds them all.
LEMMA SubsetInduction ==
    ASSUME NEW S, IsFiniteSet(S), NEW F,
           \A s \in SUBSET S :
               (\A t \in SUBSET s : t # s => t \in F) => s \in F
    PROVE  SUBSET S \subseteq F
<1> DEFINE Others == (SUBSET S) \ F
<1> SUFFICES ASSUME Others # {} PROVE FALSE
  OBVIOUS
<1>1. PICK s \in Others : \A t \in Others : t \subseteq s => t = s
  <2>1. Others \subseteq SUBSET S /\ Others # {}
    OBVIOUS
  <2> HIDE DEF Others
  <2> QED BY <2>1, MinimalSubset
<1> QED BY <1>1

\* What SumFunctionOnSet iterates.
Summing(f, S) ==
    CHOOSE iter : iter = [s \in SUBSET S |-> IF s = {} THEN 0
                            ELSE f[CHOOSE x \in s : TRUE] +
                                 iter[s \ {CHOOSE x \in s : TRUE}]]

LEMMA SumIsSumming ==
    ASSUME NEW f, NEW S PROVE SumFunctionOnSet(f, S) = Summing(f, S)[S]
BY Zenon DEF SumFunctionOnSet, FoldFunctionOnSet, MapThenFoldSet, Summing

TakesOne(sum, f, s) == \E x \in s : sum[s] = f[x] + sum[s \ {x}]

LEMMA SummingExists ==
    ASSUME NEW S, IsFiniteSet(S), NEW f, \A x \in S : f[x] \in Int
    PROVE  /\ Summing(f, S) \in [SUBSET S -> Int]
           /\ Summing(f, S)[{}] = 0
           /\ \A s \in SUBSET S : s # {} => TakesOne(Summing(f, S), f, s)
<1> DEFINE step == [a \in S \X Int |-> f[a[1]] + a[2]]
           pick == [s \in SUBSET S |-> CHOOSE x \in s : TRUE]
           Next(iter) == [s \in SUBSET S |-> IF s = {} THEN 0
                  ELSE f[CHOOSE x \in s : TRUE] +
                       iter[s \ {CHOOSE x \in s : TRUE}]]
<1>1. step \in [S \X Int -> Int]
  OBVIOUS
<1>2. \A s \in SUBSET S : s # {} => pick[s] \in s
  OBVIOUS
<1>3. PICK iter \in [SUBSET S -> Int] : IsFold(iter, S, 0, step, pick)
  <2>1. Picks(pick, S)
    BY <1>2 DEF Picks
  <2> DEFINE T == Int
             zero == 0
  <2>2. zero \in T /\ step \in [S \X T -> T]
    BY <1>1
  <2>3. \E it \in [SUBSET S -> T] : IsFold(it, S, zero, step, pick)
    <3> HIDE DEF step, pick, Next, T, zero
    <3> QED BY <2>1, <2>2, FoldExists, Zenon
  <2> QED BY <2>3
<1>4. ASSUME NEW it \in [SUBSET S -> Int], NEW s \in SUBSET S, s # {}
      PROVE  step[<<pick[s], it[s \ {pick[s]}]>>]
                = f[CHOOSE x \in s : TRUE] + it[s \ {CHOOSE x \in s : TRUE}]
  <2>1. pick[s] = (CHOOSE x \in s : TRUE) /\ pick[s] \in S
    BY <1>2, <1>4
  <2>2. s \ {pick[s]} \in SUBSET S /\ it[s \ {pick[s]}] \in Int
    OBVIOUS
  <2>3. \A x \in S, n \in Int : step[<<x, n>>] = f[x] + n
    OBVIOUS
  <2> HIDE DEF step, pick
  <2> QED BY <2>1, <2>2, <2>3
<1>5. iter = Next(iter)
  <2>1. \A s \in SUBSET S : iter[s] = Next(iter)[s]
    <3> HIDE DEF step, pick
    <3> QED BY <1>3, <1>4 DEF IsFold
  <2> QED BY <2>1
<1>6. Summing(f, S) = Next(Summing(f, S))
  <2> HIDE DEF Next
  <2>1. \E it : it = Next(it)
    BY <1>5
  <2>2. (CHOOSE it : it = Next(it)) = Next(CHOOSE it : it = Next(it))
    BY <2>1
  <2> QED BY <2>2 DEF Summing, Next
<1>7. \A s \in SUBSET S : Summing(f, S)[s] \in Int
  <2> DEFINE Typed == {s \in SUBSET S : Summing(f, S)[s] \in Int}
  <2>1. ASSUME NEW s \in SUBSET S, \A t \in SUBSET s : t # s => t \in Typed
        PROVE  s \in Typed
    <3>1. s # {} => s \ {pick[s]} \in Typed
      BY <1>2, <2>1
    <3> QED BY <1>2, <1>6, <3>1
  <2>2. SUBSET S \subseteq Typed
    <3> HIDE DEF Typed
    <3> QED BY <2>1, SubsetInduction
  <2> QED BY <2>2
<1>8. \A s \in SUBSET S : s # {} => TakesOne(Summing(f, S), f, s)
  <2> SUFFICES ASSUME NEW s \in SUBSET S, s # {}
               PROVE  /\ pick[s] \in s
                      /\ Summing(f, S)[s] = f[pick[s]] + Summing(f, S)[s \ {pick[s]}]
    BY DEF TakesOne
  <2> QED BY <1>2, <1>6
<1>9. Summing(f, S)[{}] = 0 /\ Summing(f, S) \in [SUBSET S -> Int]
  BY <1>6, <1>7
<1> QED BY <1>8, <1>9

\* The order of the summands does not matter: any of them may be the last.
AnyLast(sum, f, s) == \A x \in s : sum[s] = f[x] + sum[s \ {x}]

LEMMA SummingSplits ==
    ASSUME NEW S, IsFiniteSet(S), NEW f, \A x \in S : f[x] \in Int
    PROVE  \A s \in SUBSET S : AnyLast(Summing(f, S), f, s)
<1> DEFINE sum == Summing(f, S)
           Splits == {s \in SUBSET S : AnyLast(sum, f, s)}
<1> USE DEF AnyLast
<1>1. sum \in [SUBSET S -> Int] /\ \A s \in SUBSET S : s # {} => TakesOne(sum, f, s)
  BY SummingExists
<1> HIDE DEF sum
<1>2. ASSUME NEW s \in SUBSET S, \A t \in SUBSET s : t # s => t \in Splits
      PROVE  s \in Splits
  <2> SUFFICES ASSUME NEW x \in s PROVE sum[s] = f[x] + sum[s \ {x}]
    OBVIOUS
  <2>1. PICK y \in s : sum[s] = f[y] + sum[s \ {y}]
    BY <1>1 DEF TakesOne
  <2>2. CASE x # y
    <3>1. sum[s \ {y}] = f[x] + sum[(s \ {y}) \ {x}]
      BY <1>2, <2>2
    <3>2. sum[s \ {x}] = f[y] + sum[(s \ {x}) \ {y}]
      BY <1>2, <2>2
    <3>3. (s \ {y}) \ {x} = (s \ {x}) \ {y}
      OBVIOUS
    <3>4. f[x] \in Int /\ f[y] \in Int /\ sum[(s \ {x}) \ {y}] \in Int
      BY <1>1
    <3>5. sum[s] = f[y] + (f[x] + sum[(s \ {x}) \ {y}])
      BY <2>1, <3>1, <3>3, Zenon
    <3>6. sum[s] = f[x] + (f[y] + sum[(s \ {x}) \ {y}])
      BY <3>4, <3>5
    <3> QED BY <3>2, <3>6, Zenon
  <2> QED BY <2>1, <2>2
<1>3. SUBSET S \subseteq Splits
  <2> HIDE DEF Splits
  <2> QED BY <1>2, SubsetInduction
<1> QED BY <1>3 DEF sum

\* A sum depends on the summands only.
LEMMA SummingSame ==
    ASSUME NEW S, IsFiniteSet(S), NEW f, \A x \in S : f[x] \in Int,
           NEW A, IsFiniteSet(A), NEW g, \A x \in A : g[x] \in Int
    PROVE  \A s \in SUBSET (S \cap A) :
              (\A x \in s : f[x] = g[x]) => Summing(f, S)[s] = Summing(g, A)[s]
<1> DEFINE Same == {s \in SUBSET (S \cap A) :
              (\A x \in s : f[x] = g[x]) => Summing(f, S)[s] = Summing(g, A)[s]}
<1>1. ASSUME NEW s \in SUBSET (S \cap A),
             \A t \in SUBSET s : t # s => t \in Same
      PROVE  s \in Same
  <2>1. CASE s = {}
    BY <2>1, SummingExists
  <2>2. ASSUME NEW x \in s PROVE s \in Same
    <3>1. /\ Summing(f, S)[s] = f[x] + Summing(f, S)[s \ {x}]
          /\ Summing(g, A)[s] = g[x] + Summing(g, A)[s \ {x}]
      BY SummingSplits DEF AnyLast
    <3>2. s \ {x} \in Same
      BY <1>1, <2>2
    <3> QED BY <3>1, <3>2
  <2> QED BY <2>1, <2>2
<1>2. IsFiniteSet(S \cap A)
  BY FS_Subset
<1>3. SUBSET (S \cap A) \subseteq Same
  <2> DEFINE B == S \cap A
  <2> HIDE DEF Same, B
  <2>1. SUBSET B \subseteq Same
    BY <1>1, <1>2, SubsetInduction DEF B
  <2> QED BY <2>1 DEF B
<1> QED BY <1>3

LEMMA SumType ==
    ASSUME NEW S, IsFiniteSet(S), NEW f, \A x \in S : f[x] \in Int
    PROVE  SumFunctionOnSet(f, S) \in Int
<1>1. Summing(f, S) \in [SUBSET S -> Int]
  BY SummingExists
<1> QED BY <1>1, SumIsSumming

LEMMA SumOfNone == ASSUME NEW f PROVE SumFunctionOnSet(f, {}) = 0
<1>1. IsFiniteSet({}) /\ \A x \in {} : f[x] \in Int
  BY FS_EmptySet
<1>2. Summing(f, {})[{}] = 0
  BY <1>1, SummingExists
<1> QED BY <1>2, SumIsSumming

LEMMA SumSplits ==
    ASSUME NEW S, IsFiniteSet(S), NEW f, \A x \in S : f[x] \in Int, NEW x \in S
    PROVE  SumFunctionOnSet(f, S) = f[x] + SumFunctionOnSet(f, S \ {x})
<1> DEFINE R == S \ {x}
<1>1. IsFiniteSet(R) /\ R \in SUBSET (S \cap R) /\ \A y \in R : f[y] \in Int
  BY FS_Subset
<1>2. Summing(f, S)[R] = Summing(f, R)[R]
  <2> HIDE DEF R
  <2> QED BY <1>1, SummingSame
<1>3. Summing(f, S)[S] = f[x] + Summing(f, S)[R]
  BY SummingSplits DEF AnyLast
<1> QED BY <1>2, <1>3, SumIsSumming

LEMMA SumSame ==
    ASSUME NEW S, IsFiniteSet(S), NEW f, \A x \in S : f[x] \in Int,
           NEW g, \A x \in S : f[x] = g[x]
    PROVE  SumFunctionOnSet(f, S) = SumFunctionOnSet(g, S)
<1>1. S \in SUBSET (S \cap S) /\ \A x \in S : g[x] \in Int
  OBVIOUS
<1> QED BY <1>1, SummingSame, SumIsSumming

\* Where the summands are zero they may be left out.
LEMMA SumDropsZeros ==
    ASSUME NEW S, IsFiniteSet(S), NEW f, \A x \in S : f[x] \in Int,
           NEW A, A \subseteq S, \A x \in S \ A : f[x] = 0
    PROVE  SumFunctionOnSet(f, S) = SumFunctionOnSet(f, A)
<1>a. \A s \in SUBSET S : AnyLast(Summing(f, S), f, s)
  BY SummingSplits
<1>b. Summing(f, S) \in [SUBSET S -> Int]
  BY SummingExists
<1> DEFINE Dropped == {s \in SUBSET S : Summing(f, S)[s] = Summing(f, S)[s \cap A]}
<1>1. ASSUME NEW s \in SUBSET S, \A t \in SUBSET s : t # s => t \in Dropped
      PROVE  s \in Dropped
  <2>1. CASE s \subseteq A
    <3>1. s \cap A = s
      BY <2>1
    <3> QED BY <3>1
  <2>2. ASSUME NEW x \in s \ A PROVE s \in Dropped
    <3>1. Summing(f, S)[s] = f[x] + Summing(f, S)[s \ {x}]
      BY <1>a DEF AnyLast
    <3>2. s \ {x} \in Dropped /\ (s \ {x}) \cap A = s \cap A
      BY <1>1, <2>2
    <3>3. f[x] = 0 /\ Summing(f, S)[s \ {x}] \in Int
      BY <1>b
    <3>4. Summing(f, S)[s] = Summing(f, S)[s \ {x}]
      BY <3>1, <3>3
    <3> QED BY <3>2, <3>4
  <2> QED BY <2>1, <2>2
<1>2. SUBSET S \subseteq Dropped
  <2> HIDE DEF Dropped
  <2> QED BY <1>1, SubsetInduction
<1>3. S \in Dropped /\ S \cap A = A
  BY <1>2
<1>4. Summing(f, S)[A] = Summing(f, A)[A]
  <2>1. A \in SUBSET (S \cap A) /\ IsFiniteSet(A)
    BY FS_Subset
  <2> QED BY <2>1, SummingSame
<1> QED BY <1>3, <1>4, SumIsSumming

\* A sum of which one summand changes.
LEMMA SumChanges ==
    ASSUME NEW S, IsFiniteSet(S), NEW f, \A x \in S : f[x] \in Int,
           NEW g, NEW x \in S, g[x] \in Int, \A y \in S \ {x} : g[y] = f[y]
    PROVE  SumFunctionOnSet(g, S) = SumFunctionOnSet(f, S) - f[x] + g[x]
<1> DEFINE R == S \ {x}
<1>1. /\ \A y \in S : g[y] \in Int
      /\ IsFiniteSet(R) /\ \A y \in R : f[y] \in Int /\ f[y] = g[y]
  BY FS_Subset
<1>2. /\ SumFunctionOnSet(f, S) = f[x] + SumFunctionOnSet(f, R)
      /\ SumFunctionOnSet(g, S) = g[x] + SumFunctionOnSet(g, R)
  BY <1>1, SumSplits
<1>3. /\ SumFunctionOnSet(f, R) \in Int
      /\ SumFunctionOnSet(f, R) = SumFunctionOnSet(g, R)
  <2> HIDE DEF R
  <2> QED BY <1>1, SumType, SumSame
<1> HIDE DEF R
<1> QED BY <1>2, <1>3
=============================================================================
