-------------------------- MODULE FileEditingProofs --------------------------
(***************************************************************************)
(* Proofs about the text tools of claw-fs: where applyHunks puts what a    *)
(* patch says, what read_file shows, what edit_file replaces and what      *)
(* ParsePatch reads, for files, edits and patches of any size.             *)
(***************************************************************************)
EXTENDS FileEditingInv, FoldLemmas

-----------------------------------------------------------------------------
(* applyHunks: the second loop *)

\* The replacements in a text whose lines are in T.
Reps(T) == [start : Nat, old : Nat, new : Seq(T)]

Replacing(reps, content, it) ==
    [s \in SUBSET DOMAIN reps |->
       IF s = {} THEN content ELSE Replace(reps[Min(s)], it[s \ {Min(s)}])]

\* What FoldRight iterates exists, whatever the replacements are.
LEMMA ReplacingExists ==
    ASSUME NEW n \in Nat, NEW reps, DOMAIN reps = 1..n, NEW content
    PROVE  \E it : it = Replacing(reps, content, it)
<1> DEFINE S == 1..n
           Small(k) == {s \in SUBSET S : Cardinality(s) <= k}
           Value(it, s) == IF s = {} THEN content
                           ELSE Replace(reps[Min(s)], it[s \ {Min(s)}])
           Good(k, it) == it = [s \in Small(k) |-> Value(it, s)]
           Sizes == {k \in Nat : \E it : Good(k, it)}
<1>1. /\ \A s \in SUBSET S : IsFiniteSet(s) /\ Cardinality(s) \in Nat
      /\ \A s \in SUBSET S : Cardinality(s) <= Cardinality(S)
      /\ Cardinality(S) \in Nat
  <2>1. IsFiniteSet(S)
    BY FS_Interval
  <2> HIDE DEF S
  <2> QED BY <2>1, FS_Subset, FS_CardinalityType
<1>2. \A k \in Nat : \A s \in Small(k + 1) : s # {} => s \ {Min(s)} \in Small(k)
  <2> SUFFICES ASSUME NEW k \in Nat, NEW s \in Small(k + 1), s # {}
               PROVE  s \ {Min(s)} \in Small(k)
    OBVIOUS
  <2>1. Min(s) \in s
    <3>1. s \subseteq Nat
      OBVIOUS
    <3> QED BY <3>1, MinPicks
  <2>2. Cardinality(s \ {Min(s)}) = Cardinality(s) - 1
    BY <1>1, <2>1, FS_RemoveElement
  <2>3. s \in SUBSET S /\ s \ {Min(s)} \in SUBSET S /\ Cardinality(s) <= k + 1
    OBVIOUS
  <2>4. Cardinality(s) \in Nat
    BY <1>1, <2>3
  <2>5. Cardinality(s \ {Min(s)}) <= k
    BY <2>2, <2>3, <2>4
  <2> HIDE DEF S
  <2> QED BY <2>3, <2>5
<1>3. 0 \in Sizes
  <2> DEFINE it == [s \in Small(0) |-> content]
  <2>1. \A s \in Small(0) : s = {}
    BY <1>1, FS_EmptySet
  <2>2. Good(0, it)
    BY <2>1
  <2> QED BY <2>2
<1>4. ASSUME NEW k \in Nat, k \in Sizes PROVE k + 1 \in Sizes
  <2>1. PICK it : Good(k, it)
    BY <1>4
  <2> DEFINE more == [s \in Small(k + 1) |-> Value(it, s)]
  <2>2. \A s \in Small(k) : s \in Small(k + 1) /\ more[s] = it[s]
    <3>1. \A s \in Small(k) : s \in Small(k + 1)
      BY <1>1
    <3>2. \A s \in Small(k) : it[s] = Value(it, s)
      <4> HIDE DEF Small, Value
      <4> QED BY <2>1
    <3> HIDE DEF Small, Value
    <3> QED BY <3>1, <3>2
  <2>3. \A s \in Small(k + 1) : Value(more, s) = Value(it, s)
    <3> HIDE DEF Small, more
    <3> QED BY <1>2, <2>2
  <2>4. Good(k + 1, more)
    <3> HIDE DEF Small, Value
    <3> QED BY <2>3
  <2>5. \E f : Good(k + 1, f)
    <3> HIDE DEF Good, more
    <3> QED BY <2>4
  <2> HIDE DEF Good
  <2> QED BY <2>5
<1>5. Cardinality(S) \in Sizes
  <2> HIDE DEF Sizes, S
  <2> QED BY <1>1, <1>3, <1>4, Induction
<1>6. Small(Cardinality(S)) = SUBSET S
  BY <1>1
<1>7. PICK it : Good(Cardinality(S), it)
  BY <1>5
<1>8. it = [s \in SUBSET S |-> Value(it, s)]
  <2>1. it = [s \in Small(Cardinality(S)) |-> Value(it, s)]
    BY <1>7
  <2> HIDE DEF Small, Value
  <2> QED BY <1>6, <2>1
<1> QED BY <1>8 DEF Replacing

\* The values it takes, from the last replacement to the first.
ApplyRun(h, reps, content) ==
    /\ h[0] = content
    /\ \A i \in 1..Len(reps) : h[i] = Replace(reps[Len(reps) + 1 - i], h[i - 1])
    /\ ApplyReplacements(reps, content) = h[Len(reps)]

LEMMA ApplyValues ==
    ASSUME NEW T, NEW reps \in Seq(T), NEW content
    PROVE  \E h : ApplyRun(h, reps, content)
<1> DEFINE n == Len(reps)
           chosen == CHOOSE it : it = Replacing(reps, content, it)
           h == [i \in 0..n |-> chosen[(n + 1 - i)..n]]
<1>1. n \in Nat /\ DOMAIN reps = 1..n
  OBVIOUS
<1>2. chosen = Replacing(reps, content, chosen)
  <2>1. \E it : it = Replacing(reps, content, it)
    <3> HIDE DEF n
    <3> QED BY <1>1, ReplacingExists
  <2> QED BY <2>1, Zenon
<1>3. ApplyReplacements(reps, content) = chosen[DOMAIN reps]
  BY Zenon DEF ApplyReplacements, FoldRight, MapThenFoldSet, Replacing
<1> HIDE DEF chosen
<1>4. \A s \in SUBSET (1..n) :
        chosen[s] = IF s = {} THEN content ELSE Replace(reps[Min(s)], chosen[s \ {Min(s)}])
  <2> HIDE DEF n
  <2>1. \A s \in SUBSET (1..n) : chosen[s] = Replacing(reps, content, chosen)[s]
    BY <1>2
  <2> QED BY <1>1, <2>1 DEF Replacing
<1> HIDE DEF n
<1>5. h[0] = content
  <2>1. (n + 1 - 0)..n = {} /\ 0 \in 0..n
    BY <1>1
  <2>2. chosen[{}] = content
    BY <1>4
  <2> QED BY <2>1, <2>2
<1>6. ASSUME NEW i \in 1..n PROVE h[i] = Replace(reps[n + 1 - i], h[i - 1])
  <2> DEFINE s == (n + 1 - i)..n
  <2>1. s \in SUBSET (1..n) /\ n + 1 - i \in s /\ \A x \in s : n + 1 - i <= x
    BY <1>1
  <2>2. Min(s) = n + 1 - i
    <3>1. s \subseteq Nat /\ s # {}
      <4>1. 1..n \subseteq Nat
        OBVIOUS
      <4> HIDE DEF s
      <4> QED BY <2>1, <4>1
    <3>2. Min(s) \in s /\ \A x \in s : Min(s) <= x
      <4> HIDE DEF s
      <4> QED BY <3>1, MinPicks
    <3> QED BY <1>1, <2>1, <3>2
  <2>3. s \ {n + 1 - i} = (n + 1 - (i - 1))..n
    BY <1>1
  <2>4. i \in 0..n /\ i - 1 \in 0..n
    BY <1>1
  <2>5. h[i] = chosen[s] /\ h[i - 1] = chosen[s \ {n + 1 - i}]
    BY <2>3, <2>4
  <2> HIDE DEF s, h
  <2> QED BY <1>4, <2>1, <2>2, <2>5
<1>7. h[n] = chosen[1..n]
  <2>1. n \in 0..n /\ n + 1 - n = 1
    BY <1>1
  <2> QED BY <2>1
<1> HIDE DEF h
<1>8. ApplyRun(h, reps, content)
  BY <1>1, <1>3, <1>5, <1>6, <1>7 DEF ApplyRun, n
<1> QED BY <1>8

\* The last replacement is applied first.
LEMMA LastIsFirst ==
    ASSUME NEW T, NEW reps \in Seq(T), NEW rep \in T, NEW content
    PROVE  /\ ApplyReplacements(<<>>, content) = content
           /\ ApplyReplacements(Append(reps, rep), content)
                = ApplyReplacements(reps, Replace(rep, content))
<1> DEFINE n == Len(reps)
           more == Append(reps, rep)
<1>1. /\ n \in Nat /\ more \in Seq(T) /\ Len(more) = n + 1
      /\ \A i \in 1..n : more[i] = reps[i]
      /\ more[n + 1] = rep
  OBVIOUS
<1>2. ApplyReplacements(<<>>, content) = content
  <2>1. <<>> \in Seq(T) /\ Len(<<>>) = 0
    OBVIOUS
  <2>2. PICK h : ApplyRun(h, <<>>, content)
    BY <2>1, ApplyValues
  <2> QED BY <2>1, <2>2 DEF ApplyRun
<1>3. PICK g : ApplyRun(g, more, content)
  <2> HIDE DEF more
  <2> QED BY <1>1, ApplyValues
<1>4. PICK h : ApplyRun(h, reps, Replace(rep, content))
  BY ApplyValues
<1> HIDE DEF more, n
<1> DEFINE f == [i \in 0..n |-> g[i + 1]]
<1>5. g[1] = Replace(rep, content)
  <2>1. 1 \in 1..(n + 1) /\ n + 1 + 1 - 1 = n + 1 /\ 1 - 1 = 0
    BY <1>1
  <2> QED BY <1>1, <1>3, <2>1 DEF ApplyRun
<1>6. ASSUME NEW i \in 1..n PROVE f[i] = Replace(reps[n + 1 - i], f[i - 1])
  <2>1. i + 1 \in 1..(n + 1) /\ n + 1 + 1 - (i + 1) = n + 1 - i /\ (i + 1) - 1 = i
    BY <1>1
  <2>2. g[i + 1] = Replace(more[n + 1 - i], g[i])
    BY <1>1, <1>3, <2>1 DEF ApplyRun
  <2>3. n + 1 - i \in 1..n /\ i \in 0..n /\ i - 1 \in 0..n /\ (i - 1) + 1 = i
    BY <1>1
  <2>4. f[i] = g[i + 1] /\ f[i - 1] = g[i]
    BY <2>3
  <2> HIDE DEF f
  <2> QED BY <1>1, <2>2, <2>3, <2>4
<1>7. SameSteps(h, f, n)
  <2>1. f[0] = g[1]
    BY <1>1
  <2> HIDE DEF f
  <2> QED BY <1>4, <1>5, <1>6, <2>1 DEF SameSteps, ApplyRun, n
<1>8. h[n] = f[n]
  <2>1. Agree(h, f, n)
    <3> HIDE DEF f
    <3> QED BY <1>1, <1>7, SameRecurrence
  <2> HIDE DEF f
  <2> QED BY <1>1, <2>1 DEF Agree
<1>9. f[n] = g[n + 1]
  BY <1>1
<1>10. ApplyReplacements(more, content) = ApplyReplacements(reps, Replace(rep, content))
  <2> HIDE DEF f
  <2> QED BY <1>1, <1>3, <1>4, <1>8, <1>9 DEF ApplyRun, n
<1> QED BY <1>2, <1>10 DEF more

LEMMA AppendInside ==
    ASSUME NEW T, NEW u \in Seq(T), NEW v \in Seq(T), NEW x \in T
    PROVE  Append(u \o v, x) = u \o Append(v, x)
OBVIOUS

LEMMA Associative ==
    ASSUME NEW T, NEW u \in Seq(T), NEW v \in Seq(T), NEW w \in Seq(T)
    PROVE  v \o w \in Seq(T) /\ (u \o v) \o w = u \o (v \o w)
OBVIOUS

\* A replacement that ends where front ends leaves what follows alone.
LEMMA ReplaceAtTheEnd ==
    ASSUME NEW T, NEW front \in Seq(T), NEW tail \in Seq(T),
           NEW rep \in Reps(T), rep.start + rep.old = Len(front)
    PROVE  Replace(rep, front \o tail) = (SubSeq(front, 1, rep.start) \o rep.new) \o tail
<1> DEFINE all == front \o tail
           start == rep.start
           old == rep.old
<1>1. start \in Nat /\ old \in Nat /\ start + old = Len(front) /\ rep.new \in Seq(T)
  BY DEF Reps
<1> HIDE DEF start, old
<1>2. SubSeq(all, 1, start) = SubSeq(front, 1, start)
  BY <1>1
<1>3. SubSeq(all, start + old + 1, Len(all)) = tail
  BY <1>1
<1> HIDE DEF all
<1> QED BY <1>2, <1>3, Zenon DEF Replace, all, start, old

-----------------------------------------------------------------------------
(* applyHunks: the first loop *)

PatchLines(T) == [prefix : {"plus", "minus", "space"}, text : T]

Collecting(T) ==
    {st \in [pos : Nat, reps : Seq(Reps(T)), open : {"none", "minus", "plus"}] :
        st.open # "none" => st.reps # <<>>}

\* The last replacement, and another one in its place.
EndIsReplaced(reps, rep, others) ==
    /\ reps = Append(others, Last(reps))
    /\ [reps EXCEPT ![Len(reps)] = rep] = Append(others, rep)

LEMMA LastRep ==
    ASSUME NEW T, NEW reps \in Seq(T), reps # <<>>, NEW rep \in T
    PROVE  /\ Last(reps) = reps[Len(reps)] /\ Last(reps) \in T
           /\ Len(reps) \in DOMAIN reps
           /\ \E others \in Seq(T) : EndIsReplaced(reps, rep, others)
<1> DEFINE others == SubSeq(reps, 1, Len(reps) - 1)
<1>1. Len(reps) \in Nat \ {0} /\ Len(reps) \in DOMAIN reps
  OBVIOUS
<1>2. others \in Seq(T)
  BY <1>1
<1>3. reps = Append(others, reps[Len(reps)])
  BY <1>1
<1>4. [reps EXCEPT ![Len(reps)] = rep] = Append(others, rep)
  <2> DEFINE next == [reps EXCEPT ![Len(reps)] = rep]
             more == Append(others, rep)
  <2>1. more \in Seq(T) /\ Len(more) = Len(reps) /\ DOMAIN more = DOMAIN reps
    <3> HIDE DEF others
    <3> QED BY <1>1, <1>2, <1>3
  <2>2. next \in Seq(T) /\ DOMAIN next = DOMAIN reps
    BY <1>1
  <2>3. \A i \in DOMAIN reps : next[i] = more[i]
    <3> SUFFICES ASSUME NEW i \in DOMAIN reps PROVE next[i] = more[i]
      OBVIOUS
    <3>1. CASE i = Len(reps)
      BY <1>1, <1>2, <3>1
    <3>2. CASE i # Len(reps)
      <4>1. others[i] = reps[i] /\ i \in 1..Len(others) /\ Len(others) = Len(reps) - 1
        BY <1>1, <3>2
      <4> HIDE DEF others
      <4> QED BY <1>1, <1>2, <3>2, <4>1
    <3> QED BY <3>1, <3>2
  <2> HIDE DEF next, more
  <2>4. next = [i \in DOMAIN reps |-> next[i]] /\ more = [i \in DOMAIN reps |-> more[i]]
    BY <2>1, <2>2
  <2> QED BY <2>3, <2>4 DEF next, more
<1>5. Last(reps) = reps[Len(reps)] /\ Last(reps) \in T
  BY <1>1 DEF Last
<1> HIDE DEF others
<1>6. EndIsReplaced(reps, rep, others)
  BY <1>3, <1>4, <1>5 DEF EndIsReplaced
<1> QED BY <1>1, <1>2, <1>5, <1>6

LEMMA LastOfAppend ==
    ASSUME NEW T, NEW reps \in Seq(T), NEW rep \in T
    PROVE  Append(reps, rep) \in Seq(T) /\ Append(reps, rep) # <<>> /\ Last(Append(reps, rep)) = rep
BY DEF Last

\* The state after the cases of CollectLine, field by field.
LEMMA RemoveFields ==
    ASSUME NEW T, NEW st \in Collecting(T)
    PROVE  LET next == RemoveLine(st)
               last == Last(st.reps)
           IN  /\ next \in Collecting(T)
               /\ next.pos = st.pos + 1 /\ next.open = "minus"
               /\ st.open = "minus" => \E others \in Seq(Reps(T)) :
                    /\ st.reps = Append(others, last)
                    /\ next.reps = Append(others, [start |-> last.start,
                                                   old |-> last.old + 1,
                                                   new |-> last.new])
               /\ st.open # "minus" =>
                    next.reps = Append(st.reps, [start |-> st.pos, old |-> 1, new |-> <<>>])
<1> DEFINE next == RemoveLine(st)
           last == Last(st.reps)
           longer == [start |-> last.start, old |-> last.old + 1, new |-> last.new]
           one == [start |-> st.pos, old |-> 1, new |-> <<>>]
<1>1. st.pos \in Nat /\ st.reps \in Seq(Reps(T)) /\ st.open \in {"none", "minus", "plus"}
      /\ (st.open # "none" => st.reps # <<>>)
      /\ st = [pos |-> st.pos, reps |-> st.reps, open |-> st.open]
  BY DEF Collecting
<1>2. CASE st.open = "minus"
  <2>1. st.reps # <<>>
    BY <1>1, <1>2
  <2>2. /\ last = st.reps[Len(st.reps)] /\ last \in Reps(T)
        /\ Len(st.reps) \in DOMAIN st.reps
    BY <1>1, <2>1, LastRep
  <2>3. longer \in Reps(T)
    BY <2>2 DEF Reps
  <2>4. PICK others \in Seq(Reps(T)) : EndIsReplaced(st.reps, longer, others)
    <3> DEFINE R == Reps(T)
    <3>1. st.reps \in Seq(R) /\ longer \in R
      BY <1>1, <2>3
    <3> HIDE DEF longer, R
    <3>2. \E others \in Seq(R) : EndIsReplaced(st.reps, longer, others)
      BY <2>1, <3>1, LastRep
    <3> QED BY <3>2 DEF R
  <2>5. [st.reps[Len(st.reps)] EXCEPT !.old = @ + 1] = longer
    <3>1. [last EXCEPT !.old = @ + 1] = longer
      <4> HIDE DEF last
      <4> QED BY <2>2 DEF Reps
    <3> HIDE DEF last, longer
    <3> QED BY <2>2, <3>1
  <2>6. [st.reps EXCEPT ![Len(st.reps)].old = @ + 1] = Append(others, longer)
    <3> HIDE DEF longer
    <3> QED BY <2>2, <2>4, <2>5 DEF EndIsReplaced
  <2>7. next = [pos |-> st.pos + 1, reps |-> Append(others, longer), open |-> "minus"]
    <3> HIDE DEF longer, last
    <3>1. next = [st EXCEPT !.reps = [st.reps EXCEPT ![Len(st.reps)].old = @ + 1],
                            !.pos = @ + 1]
      BY <1>1, <1>2 DEF RemoveLine
    <3> QED BY <1>1, <1>2, <2>6, <3>1
  <2>8. Append(others, longer) \in Seq(Reps(T)) /\ Append(others, longer) # <<>>
    <3> HIDE DEF longer
    <3> QED BY <2>3, LastOfAppend
  <2> HIDE DEF next, last, longer
  <2>9. next \in Collecting(T)
    BY <1>1, <2>7, <2>8 DEF Collecting
  <2>10. /\ next.pos = st.pos + 1 /\ next.open = "minus"
         /\ next.reps = Append(others, longer)
    BY <2>7
  <2>11. st.reps = Append(others, last)
    BY <2>4 DEF EndIsReplaced, last
  <2> QED BY <1>2, <2>9, <2>10, <2>11 DEF next, last, longer
<1>3. CASE st.open # "minus"
  <2>1. one \in Reps(T)
    BY <1>1 DEF Reps
  <2>2. next = [pos |-> st.pos + 1, reps |-> Append(st.reps, one), open |-> "minus"]
    <3> DEFINE more == AddReplacement(st, 1, <<>>, "minus")
    <3>1. next = [more EXCEPT !.pos = @ + 1]
      BY <1>3, Zenon DEF RemoveLine
    <3>2. more = [pos |-> st.pos, reps |-> Append(st.reps, one), open |-> "minus"]
      <4>1. more = [st EXCEPT !.reps = Append(@, one), !.open = "minus"]
        BY Zenon DEF AddReplacement
      <4> HIDE DEF one, more
      <4> QED BY <1>1, <4>1
    <3> HIDE DEF more, next, one
    <3> QED BY <3>1, <3>2
  <2>3. Append(st.reps, one) \in Seq(Reps(T)) /\ Append(st.reps, one) # <<>>
    <3> HIDE DEF one
    <3> QED BY <1>1, <2>1, LastOfAppend
  <2> HIDE DEF next, one
  <2>4. next \in Collecting(T)
    BY <1>1, <2>2, <2>3 DEF Collecting
  <2>5. /\ next.pos = st.pos + 1 /\ next.open = "minus"
        /\ next.reps = Append(st.reps, one)
    BY <2>2
  <2> QED BY <1>3, <2>4, <2>5 DEF next, one
<1> QED BY <1>2, <1>3

LEMMA InsertFields ==
    ASSUME NEW T, NEW st \in Collecting(T), NEW text \in T
    PROVE  LET next == InsertLine(st, text)
               last == Last(st.reps)
           IN  /\ next \in Collecting(T)
               /\ next.pos = st.pos /\ next.open = "plus"
               /\ st.open # "none" => \E others \in Seq(Reps(T)) :
                    /\ st.reps = Append(others, last)
                    /\ next.reps = Append(others, [start |-> last.start,
                                                   old |-> last.old,
                                                   new |-> Append(last.new, text)])
               /\ st.open = "none" =>
                    next.reps = Append(st.reps, [start |-> st.pos, old |-> 0, new |-> <<text>>])
<1> DEFINE next == InsertLine(st, text)
           last == Last(st.reps)
           longer == [start |-> last.start, old |-> last.old, new |-> Append(last.new, text)]
           one == [start |-> st.pos, old |-> 0, new |-> <<text>>]
<1>1. st.pos \in Nat /\ st.reps \in Seq(Reps(T)) /\ st.open \in {"none", "minus", "plus"}
      /\ (st.open # "none" => st.reps # <<>>)
      /\ st = [pos |-> st.pos, reps |-> st.reps, open |-> st.open]
  BY DEF Collecting
<1>2. CASE st.open # "none"
  <2>1. st.reps # <<>>
    BY <1>1, <1>2
  <2>2. /\ last = st.reps[Len(st.reps)] /\ last \in Reps(T)
        /\ Len(st.reps) \in DOMAIN st.reps
    BY <1>1, <2>1, LastRep
  <2>3. longer \in Reps(T)
    <3>1. last.new \in Seq(T) /\ last.start \in Nat /\ last.old \in Nat
      BY <2>2 DEF Reps
    <3>2. Append(last.new, text) \in Seq(T)
      BY <3>1
    <3> QED BY <3>1, <3>2 DEF Reps
  <2>4. PICK others \in Seq(Reps(T)) : EndIsReplaced(st.reps, longer, others)
    <3> DEFINE R == Reps(T)
    <3>1. st.reps \in Seq(R) /\ longer \in R
      BY <1>1, <2>3
    <3> HIDE DEF longer, R
    <3>2. \E others \in Seq(R) : EndIsReplaced(st.reps, longer, others)
      BY <2>1, <3>1, LastRep
    <3> QED BY <3>2 DEF R
  <2>5. [st.reps[Len(st.reps)] EXCEPT !.new = Append(@, text)] = longer
    <3>1. [last EXCEPT !.new = Append(@, text)] = longer
      <4> DEFINE more == Append(last.new, text)
      <4> HIDE DEF last, more
      <4>1. [last EXCEPT !.new = more] = [start |-> last.start, old |-> last.old, new |-> more]
        <5>1. \A rec \in Reps(T) :
                 [rec EXCEPT !.new = more] = [start |-> rec.start, old |-> rec.old, new |-> more]
          BY DEF Reps
        <5> QED BY <2>2, <5>1
      <4> QED BY <4>1 DEF more
    <3> HIDE DEF last, longer
    <3> QED BY <2>2, <3>1
  <2>6. [st.reps EXCEPT ![Len(st.reps)].new = Append(@, text)] = Append(others, longer)
    <3> HIDE DEF longer
    <3> QED BY <2>2, <2>4, <2>5 DEF EndIsReplaced
  <2>7. next = [pos |-> st.pos, reps |-> Append(others, longer), open |-> "plus"]
    <3> HIDE DEF longer, last
    <3>1. next = [st EXCEPT !.reps = [st.reps EXCEPT ![Len(st.reps)].new = Append(@, text)],
                            !.open = "plus"]
      BY <1>1, <1>2 DEF InsertLine
    <3> QED BY <1>1, <1>2, <2>6, <3>1
  <2>8. Append(others, longer) \in Seq(Reps(T)) /\ Append(others, longer) # <<>>
    <3> HIDE DEF longer
    <3> QED BY <2>3, LastOfAppend
  <2> HIDE DEF next, last, longer
  <2>9. next \in Collecting(T)
    BY <1>1, <2>7, <2>8 DEF Collecting
  <2>10. /\ next.pos = st.pos /\ next.open = "plus"
         /\ next.reps = Append(others, longer)
    BY <2>7
  <2>11. st.reps = Append(others, last)
    BY <2>4 DEF EndIsReplaced, last
  <2> QED BY <1>2, <2>9, <2>10, <2>11 DEF next, last, longer
<1>3. CASE st.open = "none"
  <2>1. one \in Reps(T)
    BY <1>1 DEF Reps
  <2>2. next = [pos |-> st.pos, reps |-> Append(st.reps, one), open |-> "plus"]
    BY <1>1, <1>3 DEF InsertLine, AddReplacement
  <2>3. Append(st.reps, one) \in Seq(Reps(T)) /\ Append(st.reps, one) # <<>>
    <3> HIDE DEF one
    <3> QED BY <1>1, <2>1, LastOfAppend
  <2> HIDE DEF next, one
  <2>4. next \in Collecting(T)
    BY <1>1, <2>2, <2>3 DEF Collecting
  <2>5. /\ next.pos = st.pos /\ next.open = "plus"
        /\ next.reps = Append(st.reps, one)
    BY <2>2
  <2> QED BY <1>3, <2>4, <2>5 DEF next, one
<1> QED BY <1>2, <1>3

\* Where the first loop stands: applied to a file that begins with front, what
\* it has collected makes made of that and leaves the rest alone.
Rewrites(T, reps, front, made) ==
    \A tail \in Seq(T) : ApplyReplacements(reps, front \o tail) = made \o tail

Collected(T, st, front, made) ==
    /\ st \in Collecting(T) /\ front \in Seq(T) /\ made \in Seq(T)
    /\ st.pos = Len(front)
    /\ st.reps # <<>> => Last(st.reps).start <= st.pos
    /\ st.open # "none" => Last(st.reps).start + Last(st.reps).old = st.pos
    /\ Rewrites(T, st.reps, front, made)

LEMMA NothingCollected ==
    ASSUME NEW T
    PROVE  Collected(T, [pos |-> 0, reps |-> <<>>, open |-> "none"], <<>>, <<>>)
<1> DEFINE st == [pos |-> 0, reps |-> <<>>, open |-> "none"]
           none == <<>>
<1>1. none \in Seq(T) /\ none \in Seq(Reps(T)) /\ Len(none) = 0
  OBVIOUS
<1>2. \A content : ApplyReplacements(none, content) = content
  <2> SUFFICES ASSUME NEW content PROVE ApplyReplacements(none, content) = content
    OBVIOUS
  <2>1. none \in Seq({1}) /\ 1 \in {1}
    OBVIOUS
  <2> QED BY <2>1, LastIsFirst
<1>3. Rewrites(T, none, none, none)
  BY <1>2 DEF Rewrites
<1>4. st \in Collecting(T)
  <2> HIDE DEF none
  <2>1. [pos |-> 0, reps |-> none, open |-> "none"] \in Collecting(T)
    BY <1>1 DEF Collecting
  <2> QED BY <2>1 DEF none
<1>5. st.pos = 0 /\ st.reps = none /\ st.open = "none"
  OBVIOUS
<1> HIDE DEF st, none
<1>6. Collected(T, st, none, none)
  BY <1>1, <1>3, <1>4, <1>5 DEF Collected, none
<1> QED BY <1>6 DEF st, none

\* A context line moves on.
LEMMA ContextStep ==
    ASSUME NEW T, NEW st, NEW front, NEW made, Collected(T, st, front, made),
           NEW more \in Seq(T),
           NEW next, next = [st EXCEPT !.pos = Len(front) + Len(more), !.open = "none"]
    PROVE  Collected(T, next, front \o more, made \o more)
<1>1. /\ st \in Collecting(T) /\ front \in Seq(T) /\ made \in Seq(T)
      /\ st.pos = Len(front)
      /\ st.reps # <<>> => Last(st.reps).start <= st.pos
      /\ Rewrites(T, st.reps, front, made)
  BY DEF Collected
<1>2. /\ st.reps \in Seq(Reps(T)) /\ Len(front) + Len(more) \in Nat
      /\ st = [pos |-> st.pos, reps |-> st.reps, open |-> st.open]
  BY <1>1 DEF Collecting
<1>3. next = [pos |-> Len(front) + Len(more), reps |-> st.reps, open |-> "none"]
  BY <1>2
<1>4. next \in Collecting(T) /\ next.reps = st.reps /\ next.open = "none"
      /\ next.pos = Len(front) + Len(more)
  BY <1>2, <1>3 DEF Collecting
<1>5. /\ front \o more \in Seq(T) /\ made \o more \in Seq(T)
      /\ Len(front \o more) = Len(front) + Len(more)
  BY <1>1
<1>6. Rewrites(T, st.reps, front \o more, made \o more)
  <2> SUFFICES ASSUME NEW tail \in Seq(T)
               PROVE  ApplyReplacements(st.reps, (front \o more) \o tail)
                        = (made \o more) \o tail
    BY DEF Rewrites
  <2> DEFINE rest == more \o tail
  <2>1. /\ rest \in Seq(T)
        /\ (front \o more) \o tail = front \o rest
        /\ (made \o more) \o tail = made \o rest
    BY <1>1, Associative
  <2> HIDE DEF rest
  <2> QED BY <1>1, <2>1 DEF Rewrites
<1>7. next.reps # <<>> => Last(next.reps).start <= next.pos
  <2>1. st.reps # <<>> => Last(st.reps) \in Reps(T)
    BY <1>2, LastRep
  <2>2. Len(front) \in Nat /\ Len(more) \in Nat
    BY <1>1
  <2> QED BY <1>1, <1>4, <2>1, <2>2 DEF Reps
<1> QED BY <1>1, <1>4, <1>5, <1>6, <1>7 DEF Collected

\* What the last replacement does is undone by one that takes its place.
LEMMA LastReplacement ==
    ASSUME NEW T, NEW others \in Seq(Reps(T)),
           NEW a \in Nat, NEW b \in Nat, NEW new \in Seq(T),
           NEW front \in Seq(T), NEW tail \in Seq(T), a + b = Len(front)
    PROVE  ApplyReplacements(Append(others, [start |-> a, old |-> b, new |-> new]), front \o tail)
             = ApplyReplacements(others, (SubSeq(front, 1, a) \o new) \o tail)
<1> DEFINE rep == [start |-> a, old |-> b, new |-> new]
           R == Reps(T)
<1>1. rep \in R /\ others \in Seq(R)
  BY DEF Reps
<1> HIDE DEF rep, R
<1>2. ApplyReplacements(Append(others, rep), front \o tail)
        = ApplyReplacements(others, Replace(rep, front \o tail))
  BY <1>1, LastIsFirst
<1>3. Replace(rep, front \o tail) = (SubSeq(front, 1, a) \o new) \o tail
  <2>1. rep.start = a /\ rep.old = b /\ rep.new = new
    BY DEF rep
  <2> QED BY <1>1, <2>1, ReplaceAtTheEnd DEF R
<1> QED BY <1>2, <1>3, Zenon DEF rep

LEMMA RemoveStep ==
    ASSUME NEW T, NEW st, NEW front, NEW made, Collected(T, st, front, made),
           NEW x \in T
    PROVE  Collected(T, RemoveLine(st), Append(front, x), made)
<1> DEFINE next == RemoveLine(st)
           last == Last(st.reps)
           more == Append(front, x)
           none == <<>>
<1>1. /\ st \in Collecting(T) /\ front \in Seq(T) /\ made \in Seq(T)
      /\ st.pos = Len(front)
      /\ st.open # "none" => last.start + last.old = st.pos
      /\ Rewrites(T, st.reps, front, made)
  BY DEF Collected
<1>2. /\ next \in Collecting(T)
      /\ next.pos = st.pos + 1 /\ next.open = "minus"
      /\ st.open # "minus" =>
                    next.reps = Append(st.reps, [start |-> st.pos, old |-> 1, new |-> none])
  BY <1>1, RemoveFields
<1>3. /\ more \in Seq(T) /\ Len(more) = Len(front) + 1 /\ Len(front) \in Nat
      /\ st.reps \in Seq(Reps(T)) /\ none \in Seq(T)
      /\ \A a \in 0..Len(front) : SubSeq(more, 1, a) = SubSeq(front, 1, a)
      /\ SubSeq(front, 1, Len(front)) = front
  BY <1>1 DEF Collecting
<1>4. CASE st.open = "minus"
  <2>1. PICK others \in Seq(Reps(T)) :
                    /\ st.reps = Append(others, last)
                    /\ next.reps = Append(others, [start |-> last.start,
                                                   old |-> last.old + 1,
                                                   new |-> last.new])
    BY <1>1, <1>4, RemoveFields
  <2>2. last \in Reps(T)
    <3>1. st.reps # <<>>
      BY <1>1, <1>4 DEF Collecting
    <3> QED BY <1>3, <3>1, LastRep
  <2> HIDE DEF last, next, more
  <2> DEFINE a == last.start
             b == last.old
             new == last.new
  <2>3. /\ a \in Nat /\ b \in Nat /\ new \in Seq(T) /\ a + b = Len(front)
        /\ last = [start |-> a, old |-> b, new |-> new]
    BY <1>1, <1>4, <2>2 DEF Reps
  <2> HIDE DEF a, b, new
  <2>4. next.reps = Append(others, [start |-> a, old |-> b + 1, new |-> new])
    BY <2>1 DEF a, b, new
  <2>5. Rewrites(T, next.reps, more, made)
    <3> SUFFICES ASSUME NEW tail \in Seq(T)
                 PROVE  ApplyReplacements(next.reps, more \o tail) = made \o tail
      BY DEF Rewrites
    <3>1. b + 1 \in Nat /\ a + (b + 1) = Len(more) /\ a \in 0..Len(front)
      BY <1>3, <2>3
    <3>2. ApplyReplacements(next.reps, more \o tail)
            = ApplyReplacements(others, (SubSeq(more, 1, a) \o new) \o tail)
      BY <1>3, <2>3, <2>4, <3>1, LastReplacement
    <3>3. ApplyReplacements(st.reps, front \o tail)
            = ApplyReplacements(others, (SubSeq(front, 1, a) \o new) \o tail)
      BY <1>1, <2>1, <2>3, LastReplacement
    <3>4. ApplyReplacements(st.reps, front \o tail) = made \o tail
      BY <1>1 DEF Rewrites
    <3> QED BY <1>3, <3>1, <3>2, <3>3, <3>4
  <2>6. Last(next.reps).start = a /\ Last(next.reps).old = b + 1
    <3> DEFINE rep == [start |-> a, old |-> b + 1, new |-> new]
    <3>1. rep \in Reps(T)
      BY <2>3 DEF Reps
    <3>2. rep.start = a /\ rep.old = b + 1
      OBVIOUS
    <3>3. Last(Append(others, rep)) = rep
      <4> HIDE DEF rep
      <4> QED BY <3>1, LastOfAppend
    <3> QED BY <2>4, <3>2, <3>3
  <2> QED BY <1>1, <1>2, <1>3, <2>3, <2>5, <2>6 DEF Collected, next, more
<1>5. CASE st.open # "minus"
  <2> HIDE DEF last, next, more
  <2> DEFINE a == Len(front)
  <2>1. next.reps = Append(st.reps, [start |-> a, old |-> 1, new |-> none])
    BY <1>1, <1>2, <1>5
  <2>2. a \in Nat /\ 1 \in Nat /\ a + 1 = Len(more) /\ a \in 0..Len(front)
    BY <1>3
  <2>3. Rewrites(T, next.reps, more, made)
    <3> SUFFICES ASSUME NEW tail \in Seq(T)
                 PROVE  ApplyReplacements(next.reps, more \o tail) = made \o tail
      BY DEF Rewrites
    <3>1. ApplyReplacements(next.reps, more \o tail)
            = ApplyReplacements(st.reps, (SubSeq(more, 1, a) \o none) \o tail)
      <4>1. ApplyReplacements(Append(st.reps, [start |-> a, old |-> 1, new |-> none]), more \o tail)
              = ApplyReplacements(st.reps, (SubSeq(more, 1, a) \o none) \o tail)
        <5> DEFINE reps == st.reps
                   b == 1
        <5>1. reps \in Seq(Reps(T)) /\ b \in Nat /\ a + b = Len(more)
          BY <1>3, <2>2
        <5> HIDE DEF a, b, none, reps
        <5>2. ApplyReplacements(Append(reps, [start |-> a, old |-> b, new |-> none]), more \o tail)
                = ApplyReplacements(reps, (SubSeq(more, 1, a) \o none) \o tail)
          BY <1>3, <2>2, <5>1, LastReplacement
        <5> QED BY <5>2 DEF b, reps
      <4> QED BY <2>1, <4>1
    <3>2. SubSeq(more, 1, a) \o none = front
      <4>1. SubSeq(more, 1, a) = front
        BY <1>3, <2>2
      <4> QED BY <1>1, <4>1
    <3>3. ApplyReplacements(st.reps, front \o tail) = made \o tail
      BY <1>1 DEF Rewrites
    <3> HIDE DEF a, none
    <3> QED BY <3>1, <3>2, <3>3
  <2>4. Last(next.reps).start = a /\ Last(next.reps).old = 1
    <3> DEFINE rep == [start |-> a, old |-> 1, new |-> none]
    <3>1. rep \in Reps(T)
      BY <1>3, <2>2 DEF Reps
    <3>2. rep.start = a /\ rep.old = 1
      OBVIOUS
    <3>3. Last(Append(st.reps, rep)) = rep
      <4> HIDE DEF rep
      <4> QED BY <1>3, <3>1, LastOfAppend
    <3> QED BY <2>1, <3>2, <3>3
  <2> QED BY <1>1, <1>2, <1>3, <2>2, <2>3, <2>4 DEF Collected, next, more
<1> QED BY <1>4, <1>5

LEMMA InsertStep ==
    ASSUME NEW T, NEW st, NEW front, NEW made, Collected(T, st, front, made),
           NEW x \in T
    PROVE  Collected(T, InsertLine(st, x), front, Append(made, x))
<1> DEFINE next == InsertLine(st, x)
           last == Last(st.reps)
           more == Append(made, x)
           one == <<x>>
<1>1. /\ st \in Collecting(T) /\ front \in Seq(T) /\ made \in Seq(T)
      /\ st.pos = Len(front)
      /\ st.open # "none" => last.start + last.old = st.pos
      /\ Rewrites(T, st.reps, front, made)
  BY DEF Collected
<1>2. /\ next \in Collecting(T)
      /\ next.pos = st.pos /\ next.open = "plus"
      /\ st.open = "none" =>
                    next.reps = Append(st.reps, [start |-> st.pos, old |-> 0, new |-> one])
  BY <1>1, InsertFields, Zenon
<1>3. /\ more \in Seq(T) /\ one \in Seq(T) /\ Len(front) \in Nat
      /\ st.reps \in Seq(Reps(T))
      /\ SubSeq(front, 1, Len(front)) = front
  BY <1>1 DEF Collecting
<1>4. ASSUME NEW tail \in Seq(T)
      PROVE  /\ one \o tail \in Seq(T)
             /\ made \o (one \o tail) = more \o tail
             /\ \A u \in Seq(T) : u \o (one \o tail) = Append(u, x) \o tail
  <2>1. one \o tail \in Seq(T)
    BY <1>3
  <2>2. \A u \in Seq(T) : u \o (one \o tail) = Append(u, x) \o tail
    OBVIOUS
  <2> QED BY <1>1, <2>1, <2>2
<1>5. CASE st.open # "none"
  <2>1. PICK others \in Seq(Reps(T)) :
                    /\ st.reps = Append(others, last)
                    /\ next.reps = Append(others, [start |-> last.start,
                                                   old |-> last.old,
                                                   new |-> Append(last.new, x)])
    BY <1>1, <1>5, InsertFields, Zenon
  <2>2. last \in Reps(T)
    <3>1. st.reps # <<>>
      BY <1>1, <1>5 DEF Collecting
    <3> QED BY <1>3, <3>1, LastRep
  <2> HIDE DEF last, next, more
  <2> DEFINE a == last.start
             b == last.old
             new == last.new
             longer == Append(new, x)
  <2>3. /\ a \in Nat /\ b \in Nat /\ new \in Seq(T) /\ a + b = Len(front)
        /\ last = [start |-> a, old |-> b, new |-> new]
    BY <1>1, <1>5, <2>2 DEF Reps
  <2> HIDE DEF a, b, new
  <2>4. next.reps = Append(others, [start |-> a, old |-> b, new |-> longer])
    BY <2>1 DEF a, b, new
  <2>5. longer \in Seq(T) /\ SubSeq(front, 1, a) \in Seq(T)
        /\ SubSeq(front, 1, a) \o longer = Append(SubSeq(front, 1, a) \o new, x)
        /\ SubSeq(front, 1, a) \o new \in Seq(T)
    <3>1. a \in 0..Len(front)
      BY <1>3, <2>3
    <3>2. SubSeq(front, 1, a) \in Seq(T)
      BY <1>1, <3>1
    <3>3. \A u \in Seq(T) : u \o new \in Seq(T) /\ u \o Append(new, x) = Append(u \o new, x)
      BY <2>3
    <3>4. Append(new, x) \in Seq(T)
      BY <2>3
    <3> QED BY <3>2, <3>3, <3>4
  <2> HIDE DEF longer, one
  <2>6. Rewrites(T, next.reps, front, more)
    <3> SUFFICES ASSUME NEW tail \in Seq(T)
                 PROVE  ApplyReplacements(next.reps, front \o tail) = more \o tail
      BY DEF Rewrites
    <3>1. ApplyReplacements(next.reps, front \o tail)
            = ApplyReplacements(others, (SubSeq(front, 1, a) \o longer) \o tail)
      BY <1>1, <2>3, <2>4, <2>5, LastReplacement
    <3>2. ApplyReplacements(st.reps, front \o (one \o tail))
            = ApplyReplacements(others, (SubSeq(front, 1, a) \o new) \o (one \o tail))
      <4> DEFINE rest == one \o tail
      <4>1. rest \in Seq(T)
        BY <1>4
      <4> HIDE DEF rest
      <4>2. ApplyReplacements(st.reps, front \o rest)
              = ApplyReplacements(others, (SubSeq(front, 1, a) \o new) \o rest)
        BY <1>1, <2>1, <2>3, <4>1, LastReplacement
      <4> QED BY <4>2 DEF rest
    <3>3. ApplyReplacements(st.reps, front \o (one \o tail)) = more \o tail
      BY <1>1, <1>4 DEF Rewrites
    <3>4. (SubSeq(front, 1, a) \o new) \o (one \o tail) = (SubSeq(front, 1, a) \o longer) \o tail
      <4> DEFINE u == SubSeq(front, 1, a) \o new
      <4>1. u \in Seq(T) /\ SubSeq(front, 1, a) \o longer = Append(u, x)
        BY <2>5
      <4> HIDE DEF u
      <4>2. u \o (one \o tail) = Append(u, x) \o tail
        BY <1>4, <4>1
      <4> QED BY <4>1, <4>2 DEF u
    <3> QED BY <3>1, <3>2, <3>3, <3>4
  <2>7. Last(next.reps).start = a /\ Last(next.reps).old = b
    <3> DEFINE rep == [start |-> a, old |-> b, new |-> longer]
    <3>1. rep \in Reps(T)
      BY <2>3, <2>5 DEF Reps
    <3>2. rep.start = a /\ rep.old = b
      OBVIOUS
    <3>3. Last(Append(others, rep)) = rep
      <4> HIDE DEF rep
      <4> QED BY <3>1, LastOfAppend
    <3> QED BY <2>4, <3>2, <3>3
  <2> QED BY <1>1, <1>2, <1>3, <2>3, <2>6, <2>7 DEF Collected, next, more
<1>6. CASE st.open = "none"
  <2> HIDE DEF last, next, more, one
  <2> DEFINE a == Len(front)
  <2>1. next.reps = Append(st.reps, [start |-> a, old |-> 0, new |-> one])
    BY <1>1, <1>2, <1>6
  <2>2. a \in Nat /\ 0 \in Nat /\ a + 0 = Len(front)
    BY <1>3
  <2>3. Rewrites(T, next.reps, front, more)
    <3> SUFFICES ASSUME NEW tail \in Seq(T)
                 PROVE  ApplyReplacements(next.reps, front \o tail) = more \o tail
      BY DEF Rewrites
    <3>1. ApplyReplacements(next.reps, front \o tail)
            = ApplyReplacements(st.reps, (SubSeq(front, 1, a) \o one) \o tail)
      <4>1. ApplyReplacements(Append(st.reps, [start |-> a, old |-> 0, new |-> one]), front \o tail)
              = ApplyReplacements(st.reps, (SubSeq(front, 1, a) \o one) \o tail)
        <5> DEFINE reps == st.reps
                   b == 0
        <5>1. reps \in Seq(Reps(T)) /\ b \in Nat /\ a + b = Len(front)
          BY <1>3, <2>2
        <5> HIDE DEF a, b, reps
        <5>2. ApplyReplacements(Append(reps, [start |-> a, old |-> b, new |-> one]), front \o tail)
                = ApplyReplacements(reps, (SubSeq(front, 1, a) \o one) \o tail)
          BY <1>1, <1>3, <2>2, <5>1, LastReplacement
        <5> QED BY <5>2 DEF b, reps
      <4> QED BY <2>1, <4>1
    <3>2. (SubSeq(front, 1, a) \o one) \o tail = front \o (one \o tail)
      <4>1. SubSeq(front, 1, a) = front
        BY <1>3
      <4>2. \A u \in Seq(T), v \in Seq(T) : (u \o v) \o tail = u \o (v \o tail)
        OBVIOUS
      <4> HIDE DEF a
      <4> QED BY <1>1, <1>3, <4>1, <4>2
    <3>3. ApplyReplacements(st.reps, front \o (one \o tail)) = more \o tail
      BY <1>1, <1>4 DEF Rewrites
    <3> HIDE DEF a
    <3> QED BY <3>1, <3>2, <3>3
  <2>4. Last(next.reps).start = a /\ Last(next.reps).old = 0
    <3> DEFINE rep == [start |-> a, old |-> 0, new |-> one]
    <3>1. rep \in Reps(T)
      BY <1>3, <2>2 DEF Reps
    <3>2. rep.start = a /\ rep.old = 0
      OBVIOUS
    <3>3. Last(Append(st.reps, rep)) = rep
      <4> HIDE DEF rep
      <4> QED BY <1>3, <3>1, LastOfAppend
    <3> QED BY <2>1, <3>2, <3>3
  <2> QED BY <1>1, <1>2, <1>3, <2>2, <2>3, <2>4 DEF Collected, next, more
<1> QED BY <1>5, <1>6

\* A context line that is there is found where it is, if it is only there.
LEMMA ContextIsFound ==
    ASSUME NEW T, NEW here \in Seq(T), Unambiguous(here),
           NEW pos \in Nat, NEW i \in (pos + 1)..Len(here)
    PROVE  AfterContext(here, pos, here[i]) = i
<1> DEFINE found == {j \in pos + 1 .. Len(here) : MatchesContext(here[j], here[i])}
<1>1. i \in DOMAIN here /\ (pos + 1)..Len(here) \subseteq DOMAIN here
  OBVIOUS
<1>2. MatchesContext(here[i], here[i])
  BY DEF MatchesContext
<1>3. \A j \in DOMAIN here : MatchesContext(here[j], here[i]) => j = i
  BY <1>1, Zenon DEF Unambiguous
<1>4. found = {i}
  BY <1>1, <1>2, <1>3
<1>5. AfterContext(here, pos, here[i]) = IF found = {} THEN pos + 1 ELSE Min(found)
  BY Zenon DEF AfterContext
<1>6. Min({i}) = i
  <2>1. {i} \subseteq Nat /\ {i} # {}
    OBVIOUS
  <2> QED BY <2>1, MinPicks
<1> HIDE DEF found
<1> QED BY <1>4, <1>5, <1>6

LEMMA AfterContextType ==
    ASSUME NEW T, NEW here \in Seq(T), NEW pos \in Nat, NEW text
    PROVE  AfterContext(here, pos, text) \in Nat
<1> DEFINE found == {j \in pos + 1 .. Len(here) : MatchesContext(here[j], text)}
<1>1. AfterContext(here, pos, text) = IF found = {} THEN pos + 1 ELSE Min(found)
  BY Zenon DEF AfterContext
<1>2. found # {} => Min(found) \in Nat
  <2>1. found \subseteq Nat
    OBVIOUS
  <2> HIDE DEF found
  <2> QED BY <2>1, MinPicks
<1> HIDE DEF found
<1> QED BY <1>1, <1>2

LEMMA CollectLineType ==
    ASSUME NEW T, NEW here \in Seq(T), NEW st \in Collecting(T), NEW line \in PatchLines(T)
    PROVE  CollectLine(here, st, line) \in Collecting(T)
<1>1. CASE line.prefix = "space"
  <2> DEFINE after == AfterContext(here, st.pos, line.text)
  <2>1. st.pos \in Nat /\ st.reps \in Seq(Reps(T))
        /\ st = [pos |-> st.pos, reps |-> st.reps, open |-> st.open]
    BY DEF Collecting
  <2>2. after \in Nat
    BY <2>1, AfterContextType
  <2>3. CollectLine(here, st, line) = [st EXCEPT !.pos = after, !.open = "none"]
    BY <1>1 DEF CollectLine
  <2> HIDE DEF after
  <2>4. CollectLine(here, st, line) = [pos |-> after, reps |-> st.reps, open |-> "none"]
    BY <2>1, <2>3
  <2> QED BY <2>1, <2>2, <2>4 DEF Collecting
<1>2. CASE line.prefix = "minus"
  <2>1. CollectLine(here, st, line) = RemoveLine(st)
    BY <1>2 DEF CollectLine
  <2> QED BY <2>1, RemoveFields
<1>3. CASE line.prefix = "plus"
  <2>1. CollectLine(here, st, line) = InsertLine(st, line.text) /\ line.text \in T
    BY <1>3 DEF CollectLine, PatchLines
  <2> QED BY <2>1, InsertFields
<1> QED BY <1>1, <1>2, <1>3 DEF PatchLines

LEMMA InitialInterval ==
    ASSUME NEW n \in Nat, NEW k \in 1..n
    PROVE  1..k \in SUBSET (1..n) /\ 1..k # {}
<1>1. k \in 1..k /\ \A i \in 1..k : i \in 1..n
  OBVIOUS
<1> QED BY <1>1

Collected0 == [pos |-> 0, reps |-> <<>>, open |-> "none"]

CollectRun(f, here, lines) ==
    /\ f[0] = Collected0
    /\ \A k \in 1..Len(lines) : f[k] = CollectLine(here, f[k - 1], lines[k])
    /\ Replacements(here, lines) = f[Len(lines)].reps

\* The replacements are collected line by line.
LEMMA CollectValues ==
    ASSUME NEW T, NEW here \in Seq(T), NEW lines \in Seq(PatchLines(T))
    PROVE  \E f \in [0..Len(lines) -> Collecting(T)] : CollectRun(f, here, lines)
<1> DEFINE n == Len(lines)
           V == Collecting(T)
           first == Collected0
           step == [a \in (1..n) \X V |-> CollectLine(here, a[2], lines[a[1]])]
           After(it) == [S \in SUBSET DOMAIN lines |->
                           IF S = {} THEN first
                           ELSE CollectLine(here, it[S \ {Max(S)}], lines[Max(S)])]
           chosen == CHOOSE it : it = After(it)
<1>1. n \in Nat /\ DOMAIN lines = 1..n /\ \A k \in 1..n : lines[k] \in PatchLines(T)
  OBVIOUS
<1>2. step \in [(1..n) \X V -> V] /\ first \in V
  <2>1. \A a \in (1..n) \X V : CollectLine(here, a[2], lines[a[1]]) \in V
    <3> SUFFICES ASSUME NEW a \in (1..n) \X V
                 PROVE  CollectLine(here, a[2], lines[a[1]]) \in V
      OBVIOUS
    <3>1. lines[a[1]] \in PatchLines(T) /\ a[2] \in Collecting(T)
      OBVIOUS
    <3> QED BY <3>1, CollectLineType
  <2>2. first \in V
    BY NothingCollected DEF Collected, Collected0
  <2> QED BY <2>1, <2>2
<1>3. \A k \in 1..n, t \in V : step[<<k, t>>] = CollectLine(here, t, lines[k])
  OBVIOUS
<1> HIDE DEF step, V
<1>5. PICK it \in [SUBSET (1..n) -> V] : LeftIterates(it, n, first, step)
  <2> HIDE DEF n, first
  <2> QED BY <1>1, <1>2, LeftIteration
<1>6. it = After(it)
  <2>1. ASSUME NEW S \in SUBSET (1..n) PROVE it[S] = After(it)[S]
    <3>1. CASE S = {}
      BY <1>1, <1>5, <3>1 DEF LeftIterates
    <3>2. CASE S # {}
      <4>1. Max(S) \in S /\ it[S] = step[<<Max(S), it[S \ {Max(S)}]>>]
        BY <1>5, <3>2 DEF LeftIterates
      <4>2. it[S \ {Max(S)}] \in V /\ Max(S) \in 1..n
        BY <4>1
      <4> HIDE DEF first
      <4> QED BY <1>1, <1>3, <3>2, <4>1, <4>2
    <3> QED BY <3>1, <3>2
  <2> HIDE DEF first
  <2> QED BY <1>1, <2>1
<1>7. chosen = After(chosen)
  <2> HIDE DEF After
  <2> QED BY <1>6
<1>8. Replacements(here, lines) = chosen[DOMAIN lines].reps
  BY Zenon DEF Replacements, FoldLeft, MapThenFoldSet, Collected0
<1> HIDE DEF chosen, first
<1>9. Iterates(chosen, n, V, first, step)
  <2>1. chosen[{}] = first
    BY <1>7
  <2>2. ASSUME NEW k \in 1..n, chosen[1..(k - 1)] \in V
        PROVE  chosen[1..k] = step[<<k, chosen[1..(k - 1)]>>]
    <3>1. Max(1..k) = k /\ (1..k) \ {k} = 1..(k - 1)
      BY MaxOfInterval
    <3>2. 1..k \in SUBSET (1..n) /\ 1..k # {}
      BY <1>1, InitialInterval
    <3>3. chosen[1..k] = CollectLine(here, chosen[1..(k - 1)], lines[k])
      BY <1>1, <1>7, <3>1, <3>2
    <3> QED BY <1>3, <2>2, <3>3
  <2> QED BY <2>1, <2>2 DEF Iterates
<1>10. PICK f \in [0..n -> V] : RunsTo(f, n, first, step, chosen[1..n])
  <2> HIDE DEF n
  <2> QED BY <1>1, <1>2, <1>9, IterationRuns
<1>11. ASSUME NEW k \in 1..n PROVE f[k] = CollectLine(here, f[k - 1], lines[k])
  <2>1. k - 1 \in 0..n
    BY <1>1
  <2>2. f[k - 1] \in V
    BY <2>1
  <2> HIDE DEF n
  <2> QED BY <1>3, <1>10, <2>2 DEF LeftRun, RunsTo
<1>12. CollectRun(f, here, lines)
  BY <1>1, <1>8, <1>10, <1>11 DEF CollectRun, LeftRun, RunsTo, first
<1> QED BY <1>10, <1>12 DEF V

-----------------------------------------------------------------------------
(* The old and the new lines of a patch *)

WithText(texts, line, prefixes) ==
    IF line.prefix \in prefixes THEN Append(texts, line.text) ELSE texts

TextsRun(f, lines, prefixes) ==
    /\ f[0] = <<>>
    /\ \A k \in 1..Len(lines) : f[k] = WithText(f[k - 1], lines[k], prefixes)
    /\ Texts(lines, prefixes) = f[Len(lines)]

LEMMA TextsValues ==
    ASSUME NEW T, NEW lines \in Seq(PatchLines(T)), NEW prefixes
    PROVE  \E f \in [0..Len(lines) -> Seq(T)] : TextsRun(f, lines, prefixes)
<1> DEFINE n == Len(lines)
           V == Seq(T)
           first == <<>>
           step == [a \in (1..n) \X V |-> WithText(a[2], lines[a[1]], prefixes)]
           After(it) == [S \in SUBSET DOMAIN lines |->
                           IF S = {} THEN first
                           ELSE WithText(it[S \ {Max(S)}], lines[Max(S)], prefixes)]
           chosen == CHOOSE it : it = After(it)
<1>1. n \in Nat /\ DOMAIN lines = 1..n /\ \A k \in 1..n : lines[k] \in PatchLines(T)
  OBVIOUS
<1>2. step \in [(1..n) \X V -> V] /\ first \in V
  <2>1. \A texts \in Seq(T), line \in PatchLines(T) : WithText(texts, line, prefixes) \in Seq(T)
    BY DEF WithText, PatchLines
  <2>2. \A a \in (1..n) \X V : WithText(a[2], lines[a[1]], prefixes) \in V
    BY <1>1, <2>1
  <2> QED BY <2>2
<1>3. \A k \in 1..n, t \in V : step[<<k, t>>] = WithText(t, lines[k], prefixes)
  OBVIOUS
<1> HIDE DEF step, V
<1>5. PICK it \in [SUBSET (1..n) -> V] : LeftIterates(it, n, first, step)
  <2> HIDE DEF n, first
  <2> QED BY <1>1, <1>2, LeftIteration
<1>6. it = After(it)
  <2>1. ASSUME NEW S \in SUBSET (1..n) PROVE it[S] = After(it)[S]
    <3>1. CASE S = {}
      BY <1>1, <1>5, <3>1 DEF LeftIterates
    <3>2. CASE S # {}
      <4>1. Max(S) \in S /\ it[S] = step[<<Max(S), it[S \ {Max(S)}]>>]
        BY <1>5, <3>2 DEF LeftIterates
      <4>2. it[S \ {Max(S)}] \in V /\ Max(S) \in 1..n
        BY <4>1
      <4> HIDE DEF first
      <4> QED BY <1>1, <1>3, <3>2, <4>1, <4>2
    <3> QED BY <3>1, <3>2
  <2> HIDE DEF first
  <2> QED BY <1>1, <2>1
<1>7. chosen = After(chosen)
  <2> HIDE DEF After
  <2> QED BY <1>6
<1>8. Texts(lines, prefixes) = chosen[DOMAIN lines]
  BY Zenon DEF Texts, FoldLeft, MapThenFoldSet, WithText
<1> HIDE DEF chosen, first
<1>9. Iterates(chosen, n, V, first, step)
  <2>1. chosen[{}] = first
    BY <1>7
  <2>2. ASSUME NEW k \in 1..n, chosen[1..(k - 1)] \in V
        PROVE  chosen[1..k] = step[<<k, chosen[1..(k - 1)]>>]
    <3>1. Max(1..k) = k /\ (1..k) \ {k} = 1..(k - 1)
      BY MaxOfInterval
    <3>2. 1..k \in SUBSET (1..n) /\ 1..k # {}
      BY <1>1, InitialInterval
    <3>3. chosen[1..k] = WithText(chosen[1..(k - 1)], lines[k], prefixes)
      BY <1>1, <1>7, <3>1, <3>2
    <3> QED BY <1>3, <2>2, <3>3
  <2> QED BY <2>1, <2>2 DEF Iterates
<1>10. PICK f \in [0..n -> V] : RunsTo(f, n, first, step, chosen[1..n])
  <2> HIDE DEF n
  <2> QED BY <1>1, <1>2, <1>9, IterationRuns
<1>11. ASSUME NEW k \in 1..n PROVE f[k] = WithText(f[k - 1], lines[k], prefixes)
  <2>1. k - 1 \in 0..n
    BY <1>1
  <2>2. f[k - 1] \in V
    BY <2>1
  <2> HIDE DEF n
  <2> QED BY <1>3, <1>10, <2>2 DEF LeftRun, RunsTo
<1>12. TextsRun(f, lines, prefixes)
  BY <1>1, <1>8, <1>10, <1>11 DEF TextsRun, LeftRun, RunsTo, first
<1> QED BY <1>10, <1>12 DEF V

\* The texts so far are the first of all texts.
Begins(texts, all) ==
    /\ Len(texts) <= Len(all)
    /\ \A i \in 1..Len(texts) : all[i] = texts[i]

LEMMA TextsGrow ==
    ASSUME NEW T, NEW lines \in Seq(PatchLines(T)), NEW prefixes,
           NEW f \in [0..Len(lines) -> Seq(T)], TextsRun(f, lines, prefixes),
           NEW t \in 0..Len(lines)
    PROVE  Begins(f[t], f[Len(lines)])
<1> DEFINE n == Len(lines)
           Good == {j \in 0..n : Begins(f[n - j], f[n])}
<1>1. n \in Nat
  OBVIOUS
<1>2. 0 \in Good
  <2>1. f[n] \in Seq(T)
    OBVIOUS
  <2>2. Begins(f[n], f[n])
    BY <2>1 DEF Begins
  <2>3. n - 0 = n /\ 0 \in 0..n
    BY <1>1
  <2> QED BY <2>2, <2>3
<1>3. ASSUME NEW j \in 1..n, j - 1 \in Good PROVE j \in Good
  <2> DEFINE k == n - j + 1
  <2>1. k \in 1..n /\ n - (j - 1) = k /\ n - j = k - 1 /\ k - 1 \in 0..n
    BY <1>1
  <2>2. f[k] \in Seq(T) /\ f[k - 1] \in Seq(T) /\ f[n] \in Seq(T)
    <3>1. k \in 0..n /\ n \in 0..n
      BY <1>1
    <3> HIDE DEF k
    <3> QED BY <2>1, <3>1
  <2>3. Begins(f[k], f[n])
    BY <1>3, <2>1
  <2>4. f[k] = WithText(f[k - 1], lines[k], prefixes)
    BY <2>1 DEF TextsRun
  <2> HIDE DEF n, k
  <2>5. CASE f[k] = f[k - 1]
    BY <2>1, <2>3, <2>5
  <2>6. CASE lines[k].prefix \in prefixes
    <3> DEFINE short == f[k - 1]
               long == f[k]
               x == lines[k].text
    <3>1. long = Append(short, x) /\ short \in Seq(T) /\ long \in Seq(T)
      BY <2>2, <2>4, <2>6 DEF WithText
    <3> HIDE DEF short, long, x
    <3>2. Len(long) = Len(short) + 1 /\ Len(short) \in Nat
          /\ \A i \in 1..Len(short) : long[i] = short[i] /\ i \in 1..Len(long)
      BY <3>1
    <3>3. Begins(long, f[n])
      BY <2>3 DEF long
    <3>4. Len(f[n]) \in Nat
      BY <2>2
    <3>5. Begins(short, f[n])
      BY <3>2, <3>3, <3>4 DEF Begins
    <3> QED BY <2>1, <3>5 DEF short
  <2> QED BY <2>4, <2>5, <2>6 DEF WithText
<1>4. 0..n \subseteq Good
  <2> HIDE DEF Good, n
  <2> QED BY <1>1, <1>2, <1>3, InductionUpTo
<1>5. n - t \in 0..n /\ n - (n - t) = t
  OBVIOUS
<1> QED BY <1>4, <1>5

-----------------------------------------------------------------------------
(* A patch that describes the file *)

LEMMA BeginningGrows ==
    ASSUME NEW T, NEW here \in Seq(T), NEW i \in 0..(Len(here) - 1)
    PROVE  /\ SubSeq(here, 1, i) \in Seq(T) /\ Len(SubSeq(here, 1, i)) = i
           /\ here[i + 1] \in T
           /\ Append(SubSeq(here, 1, i), here[i + 1]) = SubSeq(here, 1, i + 1)
<1>1. i + 1 \in 1..Len(here) /\ Len(here) \in Nat
  OBVIOUS
<1>2. Append(SubSeq(here, 1, i), here[i + 1]) = SubSeq(here, 1, i + 1)
  BY <1>1
<1> QED BY <1>1, <1>2

LEMMA BeginningAndRest ==
    ASSUME NEW T, NEW here \in Seq(T), NEW i \in 0..Len(here)
    PROVE  /\ SubSeq(here, 1, i) \in Seq(T) /\ Len(SubSeq(here, 1, i)) = i
           /\ SubSeq(here, i + 1, Len(here)) \in Seq(T)
           /\ SubSeq(here, 1, i) \o SubSeq(here, i + 1, Len(here)) = here
<1> DEFINE u == SubSeq(here, 1, i)
           v == SubSeq(here, i + 1, Len(here))
           n == Len(here)
           joined == u \o v
<1>1. n \in Nat /\ i \in Nat /\ i <= n
  OBVIOUS
<1>2. u \in Seq(T) /\ Len(u) = i /\ \A j \in 1..i : u[j] = here[j]
  BY <1>1
<1>3. v \in Seq(T) /\ Len(v) = n - i /\ \A j \in 1..(n - i) : v[j] = here[i + j]
  BY <1>1
<1> HIDE DEF u, v
<1>4. joined \in Seq(T) /\ Len(joined) = n
  BY <1>1, <1>2, <1>3
<1>5. ASSUME NEW j \in 1..n PROVE joined[j] = here[j]
  <2>1. CASE j <= i
    <3>1. j \in 1..Len(u)
      BY <1>1, <1>2, <2>1
    <3>2. joined[j] = u[j]
      BY <1>2, <1>3, <3>1
    <3>3. j \in 1..i
      BY <1>1, <2>1
    <3> QED BY <1>2, <3>2, <3>3
  <2>2. CASE j > i
    <3>1. j - i \in 1..(n - i) /\ i + (j - i) = j
      <4> HIDE DEF n
      <4> QED BY <1>1, <2>2
    <3>2. joined[j] = v[j - i]
      <4>1. j \in 1..(Len(u) + Len(v)) /\ j > Len(u)
        <5> HIDE DEF n
        <5> QED BY <1>1, <1>2, <1>3, <2>2
      <4>2. joined[j] = v[j - Len(u)]
        <5>1. u \in Seq(T) /\ v \in Seq(T)
          BY <1>2, <1>3
        <5> HIDE DEF n
        <5> QED BY <5>1, <4>1
      <4>3. Len(u) = i
        BY <1>2
      <4> HIDE DEF joined
      <4> QED BY <4>2, <4>3
    <3>3. v[j - i] = here[j]
      <4> HIDE DEF n
      <4> QED BY <1>3, <3>1
    <3> HIDE DEF joined
    <3> QED BY <3>2, <3>3
  <2>3. j <= i \/ j > i
    <3> HIDE DEF n
    <3> QED BY <1>1
  <2> QED BY <2>1, <2>2, <2>3
<1> HIDE DEF joined
<1>6. joined = here
  <2>1. joined = [j \in 1..n |-> joined[j]] /\ here = [j \in 1..n |-> here[j]]
    BY <1>4
  <2> QED BY <1>5, <2>1
<1> QED BY <1>2, <1>3, <1>6 DEF joined, u, v

\* What the first t lines leave of the file, and what they make of it.
Kept(here, k, o, t) == IF t = 0 THEN <<>> ELSE SubSeq(here, 1, k + Len(o[t]))

MadeTo(here, k, w, t) == IF t = 0 THEN <<>> ELSE SubSeq(here, 1, k) \o w[t]

\* The texts of the old lines are those of the file, one after the other.
LEMMA OldLineIsThere ==
    ASSUME NEW T, NEW here \in Seq(T), NEW k \in 0..Len(here),
           NEW all \in Seq(T), k + Len(all) <= Len(here),
           SubSeq(here, k + 1, k + Len(all)) = all,
           NEW texts \in Seq(T), NEW x, Begins(Append(texts, x), all), x \in T
    PROVE  /\ k + Len(texts) + 1 <= Len(here)
           /\ here[k + Len(texts) + 1] = x
<1> DEFINE a == Len(texts)
           long == Append(texts, x)
<1>1. a \in Nat /\ Len(long) = a + 1 /\ long[a + 1] = x /\ Len(all) \in Nat
      /\ Len(here) \in Nat
  OBVIOUS
<1>2. a + 1 <= Len(all) /\ all[a + 1] = x
  <2> HIDE DEF a, long
  <2>1. Begins(long, all)
    BY DEF long
  <2> QED BY <1>1, <2>1 DEF Begins
<1>3. \A i \in 1..Len(all) : SubSeq(here, k + 1, k + Len(all))[i] = here[k + i]
  BY <1>1
<1>4. all[a + 1] = here[k + (a + 1)]
  BY <1>1, <1>2, <1>3
<1> HIDE DEF a
<1> QED BY <1>1, <1>2, <1>4 DEF a

Follows(T, here, lines, k, f, o, w, t) ==
    Collected(T, f[t], Kept(here, k, o, t), MadeTo(here, k, w, t))

\* The lines describe the file at k; f is the run of the first loop over
\* them, o and w are those of their old and of their new texts.
Described(T, here, lines, k, f, o, w) ==
    /\ here \in Seq(T) /\ lines \in Seq(PatchLines(T)) /\ k \in 0..Len(here)
    /\ Unambiguous(here)
    /\ k = 0 \/ Head(lines).prefix = "space"
    /\ CollectRun(f, here, lines)
    /\ o \in [0..Len(lines) -> Seq(T)] /\ TextsRun(o, lines, {"space", "minus"})
    /\ w \in [0..Len(lines) -> Seq(T)] /\ TextsRun(w, lines, {"space", "plus"})
    /\ k + Len(o[Len(lines)]) <= Len(here)
    /\ SubSeq(here, k + 1, k + Len(o[Len(lines)])) = o[Len(lines)]

\* Each line of the patch takes its place.
LEMMA LineFollows ==
    ASSUME NEW T, NEW here, NEW lines, NEW k, NEW f, NEW o, NEW w,
           Described(T, here, lines, k, f, o, w),
           NEW t \in 1..Len(lines), Follows(T, here, lines, k, f, o, w, t - 1)
    PROVE  Follows(T, here, lines, k, f, o, w, t)
<1> DEFINE n == Len(lines)
           line == lines[t]
           x == line.text
           all == o[n]
           old == o[t - 1]
           new == w[t - 1]
           st == f[t - 1]
           start == SubSeq(here, 1, k)
           a == k + Len(old)
           front == Kept(here, k, o, t - 1)
           made == MadeTo(here, k, w, t - 1)
<1>0. here \in Seq(T) /\ lines \in Seq(PatchLines(T)) /\ k \in 0..Len(here)
  BY DEF Described
<1>1. /\ n \in Nat /\ t - 1 \in 0..n /\ t \in 0..n /\ n \in 0..n
      /\ t \in Nat /\ Len(here) \in Nat /\ k \in Nat
  BY <1>0
<1>2. line \in PatchLines(T) /\ x \in T /\ line.prefix \in {"plus", "minus", "space"}
  <2>1. line \in PatchLines(T)
    BY <1>0
  <2> HIDE DEF line
  <2> QED BY <2>1 DEF PatchLines
<1>3. all \in Seq(T) /\ old \in Seq(T) /\ new \in Seq(T)
  <2>1. o \in [0..n -> Seq(T)] /\ w \in [0..n -> Seq(T)]
    BY DEF Described
  <2> HIDE DEF n
  <2> QED BY <1>1, <2>1
<1>4. /\ o[t] = WithText(old, line, {"space", "minus"})
      /\ w[t] = WithText(new, line, {"space", "plus"})
      /\ f[t] = CollectLine(here, st, line)
      /\ o[0] = <<>> /\ w[0] = <<>>
  BY DEF Described, TextsRun, CollectRun
<1>5. Begins(o[t], all) /\ Begins(old, all)
  <2>1. o \in [0..n -> Seq(T)] /\ TextsRun(o, lines, {"space", "minus"})
    BY DEF Described
  <2> QED BY <1>0, <1>1, <2>1, TextsGrow
<1>6. Collected(T, st, front, made)
  BY DEF Follows
<1>7. st \in Collecting(T) /\ st.pos = Len(front)
  BY <1>6 DEF Collected
<1>8. start \in Seq(T) /\ Len(start) = k
  BY <1>0, BeginningAndRest
<1>9. a \in Nat /\ a <= Len(here) /\ k <= a /\ Len(old) \in Nat
  <2>1. Len(old) \in Nat /\ Len(all) \in Nat /\ k + Len(all) <= Len(here)
    BY <1>3 DEF Described
  <2>2. Len(old) <= Len(all)
    BY <1>5 DEF Begins
  <2> HIDE DEF old, all
  <2> QED BY <1>1, <2>1, <2>2
<1>10. \/ t = 1 /\ k # 0 /\ line.prefix = "space"
       \/ front = SubSeq(here, 1, a) /\ made = start \o new /\ Len(front) = a
  <2>1. CASE t # 1
    <3>1. t - 1 # 0
      BY <1>1, <2>1
    <3>2. front = SubSeq(here, 1, a) /\ made = start \o new
      BY <3>1 DEF Kept, MadeTo
    <3>3. Len(SubSeq(here, 1, a)) = a
      <4> HIDE DEF a
      <4> QED BY <1>0, <1>1, <1>9, BeginningAndRest
    <3> QED BY <3>2, <3>3
  <2>2. CASE t = 1 /\ k = 0
    <3>1. front = <<>> /\ made = <<>> /\ old = <<>> /\ new = <<>>
      BY <1>4, <2>2 DEF Kept, MadeTo
    <3>2. start = <<>>
      BY <1>8, <2>2
    <3>3. a = 0
      BY <2>2, <3>1
    <3>4. SubSeq(here, 1, a) = <<>> /\ start \o new = <<>>
      BY <2>2, <3>1, <3>2, <3>3
    <3> QED BY <3>1, <3>3, <3>4
  <2>3. CASE t = 1 /\ k # 0
    <3>1. Head(lines) = lines[1]
      BY <1>0
    <3> QED BY <2>3, <3>1 DEF Described
  <2> QED BY <2>1, <2>2, <2>3
<1>11. ASSUME line.prefix \in {"space", "minus"}
       PROVE  /\ o[t] = Append(old, x) /\ Len(o[t]) = Len(old) + 1
              /\ a + 1 <= Len(here) /\ here[a + 1] = x
              /\ Kept(here, k, o, t) = SubSeq(here, 1, a + 1)
  <2>1. o[t] = Append(old, x)
    BY <1>4, <1>11 DEF WithText
  <2>2. Len(o[t]) = Len(old) + 1
    <3> HIDE DEF old, x
    <3> QED BY <1>2, <1>3, <2>1
  <2>3. k + Len(old) + 1 <= Len(here) /\ here[k + Len(old) + 1] = x
    <3>1. Begins(Append(old, x), all) /\ k + Len(all) <= Len(here)
          /\ SubSeq(here, k + 1, k + Len(all)) = all
      BY <1>5, <2>1 DEF Described
    <3> HIDE DEF old, x, all
    <3> QED BY <1>0, <1>2, <1>3, <3>1, OldLineIsThere
  <2>4. Kept(here, k, o, t) = SubSeq(here, 1, k + Len(o[t]))
    BY <1>1 DEF Kept
  <2>5. k + Len(o[t]) = a + 1
    BY <1>1, <1>9, <2>2
  <2> QED BY <2>1, <2>2, <2>3, <2>4, <2>5
<1>12. MadeTo(here, k, w, t) = start \o w[t]
  <2>1. t # 0
    BY <1>1
  <2> QED BY <2>1, Zenon DEF MadeTo
<1> HIDE DEF a, front, made, old, new, st, start, x, line, n, all
<1>13. CASE line.prefix = "space"
  <2>1. w[t] = Append(new, x)
    BY <1>4, <1>13 DEF WithText, x
  <2>2. /\ a + 1 \in 1..Len(here) /\ here[a + 1] = x
        /\ Kept(here, k, o, t) = SubSeq(here, 1, a + 1)
    BY <1>1, <1>9, <1>11, <1>13
  <2> DEFINE after == AfterContext(here, st.pos, x)
  <2>3. f[t] = [st EXCEPT !.pos = after, !.open = "none"]
    BY <1>4, <1>13 DEF CollectLine, x
  <2>4. CASE front = SubSeq(here, 1, a) /\ made = start \o new /\ Len(front) = a
    <3> DEFINE more == <<x>>
    <3>1. more \in Seq(T) /\ Len(more) = 1
      BY <1>2
    <3>2. after = Len(front) + Len(more)
      <4>1. a + 1 \in (a + 1)..Len(here)
        BY <2>2
      <4>2. AfterContext(here, a, here[a + 1]) = a + 1
        BY <1>0, <1>9, <4>1, ContextIsFound DEF Described
      <4> QED BY <1>7, <2>2, <2>4, <3>1, <4>2
    <3> HIDE DEF after, more
    <3>3. Collected(T, f[t], front \o more, made \o more)
      <4>1. f[t] = [st EXCEPT !.pos = Len(front) + Len(more), !.open = "none"]
        BY <2>3, <3>2
      <4> QED BY <1>6, <3>1, <4>1, ContextStep
    <3>4. front \o more = SubSeq(here, 1, a + 1)
      <4>1. a \in 0..(Len(here) - 1)
        BY <1>1, <1>9, <2>2
      <4>2. SubSeq(here, 1, a) \in Seq(T) /\ Append(SubSeq(here, 1, a), x) = SubSeq(here, 1, a + 1)
        BY <1>0, <2>2, <4>1, BeginningGrows
      <4>3. \A u \in Seq(T) : u \o <<x>> = Append(u, x)
        BY <1>2
      <4> QED BY <2>4, <4>2, <4>3 DEF more
    <3>5. made \o more = start \o w[t]
      <4>1. (start \o new) \o more = start \o (new \o more)
        <5>1. start \in Seq(T) /\ new \in Seq(T) /\ more \in Seq(T)
          BY <1>3, <1>8, <3>1
        <5> QED BY <5>1, Associative
      <4>2. new \o more = Append(new, x)
        BY <1>2, <1>3 DEF more
      <4> QED BY <2>1, <2>4, <4>1, <4>2
    <3> QED BY <1>12, <2>2, <3>3, <3>4, <3>5 DEF Follows
  <2>5. CASE t = 1 /\ k # 0
    <3> DEFINE more == SubSeq(here, 1, a + 1)
               none == <<>>
    <3>1. t - 1 = 0
      BY <2>5
    <3>2. front = none /\ made = none /\ old = none /\ new = none
      BY <1>4, <3>1 DEF Kept, MadeTo, front, made, old, new
    <3>3. a = k
      BY <1>1, <3>2 DEF a
    <3>4. more \in Seq(T) /\ Len(more) = a + 1
      BY <1>0, <1>1, <1>9, <2>2, BeginningAndRest
    <3>5. after = Len(front) + Len(more)
      <4>1. Len(front) = 0 /\ a + 1 \in (0 + 1)..Len(here)
        BY <2>2, <3>2
      <4>2. AfterContext(here, 0, here[a + 1]) = a + 1
        BY <1>0, <4>1, ContextIsFound DEF Described
      <4> HIDE DEF more
      <4> QED BY <1>7, <1>9, <2>2, <3>4, <4>1, <4>2
    <3> HIDE DEF after, more
    <3>6. Collected(T, f[t], front \o more, made \o more)
      <4>1. f[t] = [st EXCEPT !.pos = Len(front) + Len(more), !.open = "none"]
        BY <2>3, <3>5
      <4> QED BY <1>6, <3>4, <4>1, ContextStep
    <3>7. front \o more = more /\ made \o more = more
      BY <3>2, <3>4
    <3>8. start \o w[t] = more
      <4>1. w[t] = <<x>>
        BY <2>1, <3>2
      <4>2. start = SubSeq(here, 1, a)
        BY <3>3 DEF start
      <4>3. a \in 0..(Len(here) - 1)
        BY <1>1, <1>9, <2>2
      <4>4. Append(start, x) = more
        BY <1>0, <2>2, <4>2, <4>3, BeginningGrows DEF more
      <4>5. start \o <<x>> = Append(start, x)
        BY <1>2, <1>8
      <4> QED BY <4>1, <4>4, <4>5
    <3> QED BY <1>12, <2>2, <3>6, <3>7, <3>8 DEF Follows, more
  <2> QED BY <1>10, <2>4, <2>5
<1>14. CASE line.prefix = "minus"
  <2>1. front = SubSeq(here, 1, a) /\ made = start \o new /\ w[t] = new
    BY <1>4, <1>10, <1>14 DEF WithText
  <2>2. f[t] = RemoveLine(st)
    BY <1>4, <1>14 DEF CollectLine
  <2>3. Append(front, x) = Kept(here, k, o, t)
    <3>1. /\ a \in 0..(Len(here) - 1) /\ here[a + 1] = x
          /\ Kept(here, k, o, t) = SubSeq(here, 1, a + 1)
      BY <1>1, <1>9, <1>11, <1>14
    <3> QED BY <1>0, <2>1, <3>1, BeginningGrows
  <2>4. Collected(T, RemoveLine(st), Append(front, x), made)
    BY <1>2, <1>6, RemoveStep
  <2> QED BY <1>12, <2>1, <2>2, <2>3, <2>4 DEF Follows
<1>15. CASE line.prefix = "plus"
  <2>1. front = SubSeq(here, 1, a) /\ made = start \o new /\ o[t] = old /\ w[t] = Append(new, x)
    BY <1>4, <1>10, <1>15 DEF WithText, x
  <2>2. f[t] = InsertLine(st, x)
    BY <1>4, <1>15 DEF CollectLine, x
  <2>3. Kept(here, k, o, t) = front
    <3>1. t # 0
      BY <1>1
    <3> QED BY <2>1, <3>1 DEF Kept, a
  <2>4. Append(made, x) = start \o w[t]
    <3>1. Append(start \o new, x) = start \o Append(new, x)
      <4>1. start \in Seq(T) /\ new \in Seq(T) /\ x \in T
        BY <1>2, <1>3, <1>8
      <4> QED BY <4>1
    <3> QED BY <2>1, <3>1
  <2>5. Collected(T, InsertLine(st, x), front, Append(made, x))
    BY <1>2, <1>6, InsertStep
  <2> QED BY <1>12, <2>2, <2>3, <2>4, <2>5 DEF Follows
<1> QED BY <1>2, <1>13, <1>14, <1>15

\* The new lines in the place of the old ones.
Exactly(here, lines, k) ==
    SubSeq(here, 1, k) \o New(lines) \o SubSeq(here, k + Len(Old(lines)) + 1, Len(here))

LEMMA DescribedIsApplied ==
    ASSUME NEW T, NEW here \in Seq(T), NEW lines \in Seq(PatchLines(T)), lines # <<>>,
           Unambiguous(here), NEW k \in 0..Len(here), Describes(lines, here, k)
    PROVE  ApplyHunks(here, lines) = KeepTrailingNewline(here, Exactly(here, lines, k))
<1> DEFINE n == Len(lines)
<1>1. n \in Nat /\ n # 0 /\ Len(here) \in Nat
  OBVIOUS
<1>2. PICK f \in [0..n -> Collecting(T)] : CollectRun(f, here, lines)
  BY CollectValues
<1>3. PICK o \in [0..n -> Seq(T)] : TextsRun(o, lines, {"space", "minus"})
  BY TextsValues
<1>4. PICK w \in [0..n -> Seq(T)] : TextsRun(w, lines, {"space", "plus"})
  BY TextsValues
<1>5. Old(lines) = o[n] /\ New(lines) = w[n]
  BY <1>3, <1>4 DEF Old, New, TextsRun
<1>6. Described(T, here, lines, k, f, o, w)
  <2>1. /\ k + Len(o[n]) <= Len(here)
        /\ SubSeq(here, k + 1, k + Len(o[n])) = o[n]
        /\ k = 0 \/ Head(lines).prefix = "space"
    BY <1>5 DEF Describes
  <2> QED BY <1>2, <1>3, <1>4, <2>1, Zenon DEF Described
<1> DEFINE Good == {t \in 0..n : Follows(T, here, lines, k, f, o, w, t)}
<1>7. n \in Good
  <2>1. 0 \in Good
    <3>1. f[0] = [pos |-> 0, reps |-> <<>>, open |-> "none"]
      BY <1>2 DEF CollectRun, Collected0
    <3>2. Kept(here, k, o, 0) = <<>> /\ MadeTo(here, k, w, 0) = <<>>
      BY DEF Kept, MadeTo
    <3>3. Follows(T, here, lines, k, f, o, w, 0)
      BY <3>1, <3>2, NothingCollected DEF Follows
    <3>4. 0 \in 0..n
      BY <1>1
    <3> QED BY <3>3, <3>4
  <2>2. ASSUME NEW t \in 1..n, t - 1 \in Good PROVE t \in Good
    <3>1. t \in 0..n
      BY <1>1
    <3>2. Follows(T, here, lines, k, f, o, w, t)
      BY <1>6, <2>2, LineFollows
    <3> QED BY <3>1, <3>2
  <2>3. 0..n \subseteq Good
    <3> HIDE DEF Good, n
    <3> QED BY <1>1, <2>1, <2>2, InductionUpTo
  <2>4. n \in 0..n
    BY <1>1
  <2> HIDE DEF Good
  <2> QED BY <2>3, <2>4
<1> DEFINE end == k + Len(o[n])
           start == SubSeq(here, 1, k)
           front == SubSeq(here, 1, end)
           rest == SubSeq(here, end + 1, Len(here))
           made == start \o w[n]
           reps == f[n].reps
<1>8. end \in 0..Len(here)
  <2>1. o[n] \in Seq(T)
    <3>1. n \in 0..n
      BY <1>1
    <3> QED BY <1>3, <3>1
  <2>2. Len(o[n]) \in Nat /\ k \in Nat
    BY <2>1
  <2>3. end <= Len(here)
    BY <1>6 DEF Described
  <2> QED BY <1>1, <2>2, <2>3
<1>9. Collected(T, f[n], front, made)
  <2>1. Follows(T, here, lines, k, f, o, w, n)
    BY <1>7
  <2> QED BY <1>1, <2>1, Zenon DEF Follows, Kept, MadeTo
<1>10. Replacements(here, lines) = reps
  BY <1>2 DEF CollectRun
<1>11. /\ front \in Seq(T) /\ Len(front) = end
       /\ rest \in Seq(T) /\ front \o rest = here
  <2> HIDE DEF end
  <2> QED BY <1>8, BeginningAndRest
<1> HIDE DEF n, end, front, rest, made, start, reps
<1>12. ApplyReplacements(reps, here) = made \o rest
  <2>1. Rewrites(T, reps, front, made)
    BY <1>9 DEF Collected, reps
  <2>2. ApplyReplacements(reps, front \o rest) = made \o rest
    BY <1>11, <2>1 DEF Rewrites
  <2> QED BY <1>11, <2>2
<1>13. ~(reps # <<>> /\ Last(reps).start > Len(here))
  <2> SUFFICES ASSUME reps # <<>> PROVE ~(Last(reps).start > Len(here))
    OBVIOUS
  <2>1. Last(reps).start <= end
    BY <1>9, <1>11 DEF Collected, reps
  <2>2. reps \in Seq(Reps(T))
    BY <1>9 DEF Collected, Collecting, reps
  <2>3. Last(reps).start \in Nat
    <3>1. Last(reps) \in Reps(T)
      BY <2>2, LastRep
    <3> QED BY <3>1 DEF Reps
  <2> QED BY <1>1, <1>8, <2>1, <2>3
<1>14. made \o rest = Exactly(here, lines, k)
  BY <1>5 DEF Exactly, made, rest, start, end, n
<1>15. ApplyHunks(here, lines) = KeepTrailingNewline(here, ApplyReplacements(reps, here))
  BY <1>10, <1>13, Zenon DEF ApplyHunks
<1> QED BY <1>12, <1>14, <1>15

\* An answer has lines, which a panic has not.
LEMMA AnswersHaveLines ==
    ASSUME NEW T, NEW after \in Seq(T), NEW before
    PROVE  KeepTrailingNewline(before, after) # Panicked
<1> DEFINE lines == IF after = <<>> THEN <<<<>>>> ELSE after
           none == <<>>
<1>1. lines # <<>>
  OBVIOUS
<1>2. Append(lines, none) # <<>>
  <2>1. CASE after = <<>>
    <3>1. Append(<<none>>, none) # <<>>
      OBVIOUS
    <3> QED BY <2>1, <3>1
  <2>2. CASE after # <<>>
    <3>1. lines = after /\ after \in Seq(T \cup {none})
      BY <2>2
    <3> HIDE DEF lines, none
    <3> QED BY <3>1
  <2> QED BY <2>1, <2>2
<1>3. \/ KeepTrailingNewline(before, after) = lines
      \/ KeepTrailingNewline(before, after) = Append(lines, none)
  BY Zenon DEF KeepTrailingNewline
<1> HIDE DEF lines
<1> QED BY <1>1, <1>2, <1>3, Zenon DEF Panicked

-----------------------------------------------------------------------------
(* read_file *)

USE EditingAssumption

\* A text has one line more than newlines.
LEMMA LinesAreLines ==
    ASSUME NEW text, text \in Seq(Range(text))
    PROVE  /\ Lines(text) \in Seq(Range(Lines(text)))
           /\ Len(Lines(text)) \in Nat \ {0}
<1> DEFINE newlines == {i \in DOMAIN text : text[i] = Newline}
           cuts == {0, Len(text) + 1} \cup newlines
           Cut(k) == CHOOSE c \in cuts : Cardinality({b \in cuts : b < c}) = k
           n == Cardinality(newlines) + 1
           line == [k \in 1..n |-> SubSeq(text, Cut(k - 1) + 1, Cut(k) - 1)]
<1>1. n \in Nat \ {0}
  <2>1. IsFiniteSet(1..Len(text))
    BY FS_Interval
  <2>2. newlines \in SUBSET (1..Len(text))
    OBVIOUS
  <2>3. Cardinality(newlines) \in Nat
    <3> HIDE DEF newlines
    <3> QED BY <2>1, <2>2, FS_Subset, FS_CardinalityType
  <2> QED BY <2>3
<1>2. Lines(text) = line
  BY Zenon DEF Lines
<1>3. line \in [1..n -> Range(line)]
  <2> HIDE DEF n, Cut
  <2> QED BY DEF Range
<1> HIDE DEF line, n
<1>4. line \in Seq(Range(line)) /\ Len(line) = n
  BY <1>1, <1>3
<1> QED BY <1>1, <1>2, <1>4

\* The next page goes on where the pages so far end.
LEMMA NextPage ==
    ASSUME NEW T, NEW lines \in Seq(T), NEW n \in 0..Len(lines),
           NEW limit \in 1..WordMax
    PROVE  LET shown == Window(lines, n + 1, limit)
           IN  \E m \in n..Len(lines) :
                  /\ SubSeq(lines, 1, n) \o shown = SubSeq(lines, 1, m)
                  /\ shown = <<>> => m = Len(lines) \/ n + limit > WordMax
<1> DEFINE sum == Wrapped(n + limit)
           end == IF sum <= Len(lines) THEN sum ELSE Len(lines)
           m == IF sum < n THEN n ELSE end
<1>0. /\ sum \in Int
      /\ n + limit > WordMax \/ sum = n + limit
      /\ sum < n => n + limit > WordMax
  BY DEF Wrapped
<1> HIDE DEF sum
<1>1. m \in n..Len(lines)
  BY <1>0
<1>2. Window(lines, n + 1, limit) = SubSeq(lines, n + 1, m)
  <2>1. Max({n + 1, 1}) = n + 1
    BY MaxOfTwo
  <2>2. Min({n, Len(lines)}) = n
    BY MinOfTwo
  <2>3. Min({sum, Len(lines)}) = end
    BY <1>0, MinOfTwo
  <2>4. (n + 1) - 1 = n
    OBVIOUS
  <2>5. Window(lines, n + 1, limit) = SubSeq(lines, n + 1, end)
    <3> HIDE DEF end
    <3> QED BY <2>1, <2>2, <2>3, <2>4 DEF Window, sum
  <2>6. SubSeq(lines, n + 1, end) = SubSeq(lines, n + 1, m)
    <3>1. CASE sum < n
      <4>1. SubSeq(lines, n + 1, end) = <<>> /\ SubSeq(lines, n + 1, n) = <<>>
        BY <1>0, <3>1
      <4> QED BY <3>1, <4>1
    <3>2. CASE ~(sum < n)
      BY <3>2
    <3> QED BY <3>1, <3>2
  <2> QED BY <2>5, <2>6
<1>3. SubSeq(lines, 1, n) \o SubSeq(lines, n + 1, m) = SubSeq(lines, 1, m)
  <2> HIDE DEF m
  <2> QED BY <1>1
<1>4. SubSeq(lines, n + 1, m) = <<>> => m = Len(lines) \/ n + limit > WordMax
  <2>1. Len(SubSeq(lines, n + 1, m)) = m - n
    <3> HIDE DEF m
    <3> QED BY <1>1
  <2>2. SubSeq(lines, n + 1, m) = <<>> => m - n = 0
    BY <2>1
  <2>3. m - n = 0 => m = Len(lines) \/ n + limit > WordMax
    BY <1>0
  <2> HIDE DEF m
  <2> QED BY <2>2, <2>3
<1> HIDE DEF m
<1> QED BY <1>1, <1>2, <1>3, <1>4

LEMMA InitReading == Init => ReadingInv
BY DEF Init, ReadingInv, Requests, Shown, None

LEMMA AskReading ==
    ASSUME ReadingInv,
           \/ \E limit \in Limits : ReadOn(limit)
           \/ \E e \in Edits : AskFor("edit", e)
           \/ \E p \in Patches : AskFor("update", p)
    PROVE  ReadingInv'
<1> USE DEF Ask, ReadingInv
<1>1. ASSUME NEW limit \in Limits, ReadOn(limit) PROVE ReadingInv'
  BY <1>1 DEF ReadOn, Requests, Shown
<1>2. ASSUME NEW tool \in {"edit", "update"}, NEW args, AskFor(tool, args),
             tool = "update" => args \in Patches
      PROVE  ReadingInv'
  BY <1>2 DEF AskFor, Requests, Shown
<1> QED BY <1>1, <1>2

LEMMA ReadReading ==
    ASSUME ReadingInv, ReadFile
    PROVE  ReadingInv'
<1> DEFINE lines == Lines(file)
           n == Len(pages)
           limit == request[2].limit
           shown == Window(lines, n + 1, limit)
<1>1. /\ request # None /\ request[1] = "read" /\ file \in Files
      /\ request' = None /\ file' = file
      /\ pages' = pages \o shown
      /\ endedBy' = IF shown = <<>> THEN limit ELSE 0
      /\ limit \in 1..WordMax
  BY DEF ReadFile, Answer, ReadingInv, Requests
<1>2. lines \in Seq(Range(lines)) /\ Len(lines) \in Nat
  BY <1>1, LinesAreLines
<1>3. n \in 0..Len(lines) /\ pages = SubSeq(lines, 1, n)
  <2>1. PICK k \in 0..Len(lines) : pages = SubSeq(lines, 1, k)
    <3>1. CASE pages # <<>> \/ endedBy # 0
      BY <3>1 DEF ReadingInv, Shown
    <3>2. CASE pages = <<>>
      <4>1. SubSeq(lines, 1, 0) = <<>>
        BY <1>2
      <4> QED BY <1>2, <3>2, <4>1
    <3> QED BY <3>1, <3>2
  <2>2. Len(SubSeq(lines, 1, k)) = k
    BY <1>2
  <2> QED BY <2>1, <2>2
<1> HIDE DEF lines, n, limit, shown
<1>4. PICK m \in n..Len(lines) :
         /\ SubSeq(lines, 1, n) \o shown = SubSeq(lines, 1, m)
         /\ shown = <<>> => m = Len(lines) \/ n + limit > WordMax
  BY <1>1, <1>2, <1>3, NextPage DEF shown
<1>5. pages' = SubSeq(lines, 1, m) /\ m \in 0..Len(lines)
  BY <1>1, <1>2, <1>3, <1>4
<1>6. endedBy' # 0 => pages' = lines \/ Len(pages') + endedBy' > WordMax
  <2> SUFFICES ASSUME endedBy' # 0
               PROVE  pages' = lines \/ Len(pages') + endedBy' > WordMax
    OBVIOUS
  <2>1. shown = <<>> /\ endedBy' = limit
    BY <1>1
  <2>2. pages' = pages
    BY <1>1, <1>2, <1>3, <2>1
  <2>3. SubSeq(lines, 1, Len(lines)) = lines
    BY <1>2
  <2>4. CASE m = Len(lines)
    BY <1>5, <2>3, <2>4
  <2>5. CASE n + limit > WordMax
    BY <2>1, <2>2, <2>5 DEF n
  <2> QED BY <1>4, <2>1, <2>4, <2>5
<1>7. Shown'
  BY <1>1, <1>5, <1>6 DEF Shown, lines
<1> QED BY <1>1, <1>7 DEF ReadingInv, Requests

LEMMA NextReading == ReadingInv /\ [Next]_vars => ReadingInv'
<1> SUFFICES ASSUME ReadingInv, [Next]_vars PROVE ReadingInv'
  OBVIOUS
<1>1. ASSUME EditFile \/ UpdateFile PROVE ReadingInv'
  BY <1>1 DEF EditFile, UpdateFile, Answer, ReadingInv, Requests, Shown
<1>2. ASSUME Write \/ UNCHANGED vars PROVE ReadingInv'
  BY <1>2 DEF Write, vars, ReadingInv, Requests, Shown
<1> QED BY <1>1, <1>2, AskReading, ReadReading DEF Next

\* An agent that reads on is shown the lines of the file, each once and in
\* order, and has seen them all when it is shown none, unless the sum of its
\* limit and the lines it has seen overflowed (cmd/claw-fs/main.go:86-100).
THEOREM ReadingShowsTheFile == Spec => []PagesAreTheFile
<1>1. ReadingInv => PagesAreTheFile
  <2> SUFFICES ASSUME ReadingInv PROVE PagesAreTheFile
    OBVIOUS
  <2>1. CASE pages = <<>> /\ endedBy = 0
    BY <2>1 DEF PagesAreTheFile
  <2>2. CASE pages # <<>> \/ endedBy # 0
    <3>1. /\ file \in Files
          /\ endedBy # 0 => pages = Lines(file) \/ Len(pages) + endedBy > WordMax
          /\ \E n \in 0..Len(Lines(file)) : pages = SubSeq(Lines(file), 1, n)
      BY <2>2 DEF ReadingInv, Shown
    <3>2. /\ Lines(file) \in Seq(Range(Lines(file)))
          /\ Len(Lines(file)) \in Nat
      BY <3>1, LinesAreLines
    <3>3. \A n \in 0..Len(Lines(file)) : Len(SubSeq(Lines(file), 1, n)) = n
      BY <3>2
    <3> QED BY <3>1, <3>3, <2>2 DEF ReadingInv, Shown, PagesAreTheFile
  <2> QED BY <2>1, <2>2
<1> QED BY <1>1, InitReading, NextReading, PTL DEF Spec

-----------------------------------------------------------------------------
(* edit_file *)

\* Nothing is trimmed of a text that does not end in a blank.
LEMMA TrimKeeps ==
    ASSUME NEW T, NEW text \in Seq(T), NEW blank,
           text # <<>>, text[Len(text)] \notin blank
    PROVE  TrimTrailing(text, blank) = text
<1> DEFINE S == {0} \cup {i \in DOMAIN text : text[i] \notin blank}
           n == Len(text)
<1>1. n \in Nat /\ S \subseteq 0..n /\ n \in S
  OBVIOUS
<1>2. Max(S) = n
  <2> HIDE DEF S, n
  <2>1. Max(S) \in S /\ \A x \in S : x <= Max(S)
    BY <1>1, MaxPicks
  <2>2. Max(S) \in 0..n /\ n <= Max(S)
    BY <1>1, <2>1
  <2> QED BY <1>1, <2>2
<1>3. SubSeq(text, 1, n) = text
  OBVIOUS
<1>4. TrimTrailing(text, blank) = SubSeq(text, 1, Max(S))
  BY Zenon DEF TrimTrailing
<1> HIDE DEF S, n
<1> QED BY <1>2, <1>3, <1>4

\* The probe tells nothing: every normalizer leaves it as it is, so that every
\* level looks for the text itself.
LEMMA ProbeIsKept == \A level \in Levels : IsIdentity(level)
<1> DEFINE T == {"x", Space, "y"}
           back == <<"y", Space, "x">>
<1>1. Probe \in Seq(T) /\ back \in Seq(T) /\ Probe # <<>> /\ back # <<>>
  BY DEF Probe
<1>2. Probe[Len(Probe)] = "y" /\ back[Len(back)] = "x"
  BY DEF Probe
<1>3. Reverse(Probe) = back /\ Reverse(back) = Probe
  BY DEF Probe, Reverse
<1>4. /\ "y" \notin {Space} /\ "y" \notin Blank
      /\ "x" \notin Blank
  BY DEF Space, Blank, Newline
<1> HIDE DEF back, T
<1>5. TrimTrailing(Probe, {Space}) = Probe
  BY <1>1, <1>2, <1>4, TrimKeeps
<1>6. TrimTrailing(Probe, Blank) = Probe /\ TrimTrailing(back, Blank) = back
  BY <1>1, <1>2, <1>4, TrimKeeps
<1>7. TrimSpace(Probe) = Probe
  BY <1>3, <1>6 DEF TrimSpace
<1>8. NormalizePunctuation(Probe) = Probe
  BY DEF NormalizePunctuation, Probe, Plain, Space
<1> QED BY <1>5, <1>7, <1>8 DEF IsIdentity, Norm, Levels

\* A text that is found is found once, letter for letter.
LEMMA FoundIsTheOnly ==
    ASSUME NEW T, NEW text \in Seq(T), NEW old,
           FuzzyFind(text, old) # NotFound
    PROVE  /\ FuzzyFind(text, old) \in DOMAIN text
           /\ Occurrences(text, old) = {FuzzyFind(text, old)}
<1> DEFINE good == {level \in Levels : FindNormalized(text, old, level) # NotFound}
           level == Min(good)
           found == Occurrences(text, old)
<1>1. good # {} /\ FuzzyFind(text, old) = FindNormalized(text, old, level)
  BY DEF FuzzyFind, FuzzyFindLevel
<1>2. level \in good
  <2>1. good \subseteq Nat
    BY DEF Levels
  <2> HIDE DEF good
  <2> QED BY <1>1, <2>1, MinPicks
<1>3. FuzzyFind(text, old) = TheOnly(found) /\ TheOnly(found) # NotFound
  BY <1>1, <1>2, ProbeIsKept DEF FindNormalized, FindExact
<1>4. found \subseteq 1..Len(text) /\ IsFiniteSet(1..Len(text))
  BY FS_Interval DEF Occurrences
<1> HIDE DEF found
<1>5. PICK i : found = {i}
  <2>1. IsFiniteSet(found) /\ Cardinality(found) = 1
    BY <1>3, <1>4, FS_Subset DEF TheOnly
  <2> QED BY <2>1, FS_Singleton
<1>6. TheOnly(found) = i
  BY <1>3, <1>5 DEF TheOnly
<1>7. i \in DOMAIN text
  BY <1>4, <1>5
<1> HIDE DEF level
<1> QED BY <1>3, <1>5, <1>6, <1>7 DEF found

\* An edit that answers ok has replaced the only occurrence of old_string and
\* nothing else, whichever of the four levels found it
\* (cmd/claw-fs/main.go:168-177, fuzzymatch.go:66-77).
THEOREM EditsReplaceTheOnlyOccurrence == Spec => EditReplacesTheOnlyOccurrence
<1>1. ReadingInv /\ [Next]_vars =>
        [request # None /\ request[1] = "edit" /\ answer' = "ok" =>
           LET e == request[2] IN
           \E i \in DOMAIN file :
              /\ Occurrences(file, e.old) = {i}
              /\ file' = SubSeq(file, 1, i - 1) \o e.new \o
                            SubSeq(file, i + Len(e.old), Len(file))]_vars
  <2> SUFFICES ASSUME ReadingInv, Next, request # None, request[1] = "edit",
                      answer' = "ok"
               PROVE  \E i \in DOMAIN file :
                         /\ Occurrences(file, request[2].old) = {i}
                         /\ file' = SubSeq(file, 1, i - 1) \o request[2].new \o
                              SubSeq(file, i + Len(request[2].old), Len(file))
    BY Zenon
  <2> DEFINE e == request[2]
             i == FuzzyFind(file, e.old)
  <2>1. EditFile /\ file \in Files
    BY DEF Next, ReadOn, AskFor, Ask, ReadFile, UpdateFile, Write, ReadingInv,
       Requests
  <2>2. Edited(file, e.old, e.new) # NoMatch /\ file' = Edited(file, e.old, e.new)
    BY <2>1 DEF EditFile, Answer
  <2>3. i # NotFound /\ file' = EditedAt(file, i, e.old, e.new)
    BY <2>2 DEF Edited
  <2>4. i \in DOMAIN file /\ Occurrences(file, e.old) = {i}
    BY <2>1, <2>3, FoundIsTheOnly
  <2> HIDE DEF i
  <2> QED BY <2>3, <2>4 DEF EditedAt
<1> QED
  BY <1>1, InitReading, NextReading, PTL DEF Spec, EditReplacesTheOnlyOccurrence

-----------------------------------------------------------------------------
(* ParsePatch *)

USE WrittenAssumption

\* The lines ParsePatch takes for what they are.
Plainly == {l \in Written : ~ReadsLikeAMark(l)}

OpsOf(L) == {[action |-> h[1], path |-> h[2], lines |-> ls] :
                h \in Headers, ls \in Seq(L)}

Ops == OpsOf(Plainly)

States == [ops : Seq(Ops), current : Seq(Ops), ended : BOOLEAN]

HeaderLines == {Marker(FileHeader(h[1], h[2])) : h \in Headers}

BodyLines == HeaderLines \cup Plainly \cup {Marker(EndPatch)}

LEMMA NewOp ==
    ASSUME NEW L, NEW h \in Headers
    PROVE  [action |-> h[1], path |-> h[2], lines |-> <<>>] \in OpsOf(L)
<1> DEFINE none == <<>>
<1>1. none \in Seq(L)
  OBVIOUS
<1> HIDE DEF none
<1>2. [action |-> h[1], path |-> h[2], lines |-> none] \in OpsOf(L)
  BY <1>1 DEF OpsOf
<1> QED BY <1>2 DEF none

LEMMA LongerOp ==
    ASSUME NEW L, NEW op \in OpsOf(L), NEW line \in L
    PROVE  [op EXCEPT !.lines = Append(@, line)] \in OpsOf(L)
<1>1. PICK h \in Headers, ls \in Seq(L) :
         op = [action |-> h[1], path |-> h[2], lines |-> ls]
  BY DEF OpsOf
<1>2. Append(ls, line) \in Seq(L)
  OBVIOUS
<1> DEFINE more == Append(ls, line)
<1>3. op.lines = ls /\ [op EXCEPT !.lines = Append(@, line)] = [op EXCEPT !.lines = more]
  BY <1>1
<1> HIDE DEF more
<1>4. [op EXCEPT !.lines = more] = [action |-> h[1], path |-> h[2], lines |-> more]
  BY <1>1
<1>5. [action |-> h[1], path |-> h[2], lines |-> more] \in OpsOf(L)
  <2>1. more \in Seq(L)
    BY <1>2 DEF more
  <2> QED BY <2>1 DEF OpsOf
<1> QED BY <1>3, <1>4, <1>5

\* What one line of the text does to the loop's state.
LEMMA EndEnds ==
    ASSUME NEW st \in States, ~st.ended
    PROVE  ParseLine(st, Marker(EndPatch)) = [st EXCEPT !.ended = TRUE]
BY DEF ParseLine, Marks, Marker

LEMMA HeaderOpens ==
    ASSUME NEW st \in States, ~st.ended, NEW h \in Headers
    PROVE  ParseLine(st, Marker(FileHeader(h[1], h[2]))) =
             [ops |-> st.ops \o st.current,
              current |-> <<[action |-> h[1], path |-> h[2], lines |-> <<>>]>>,
              ended |-> FALSE]
<1> DEFINE line == Marker(FileHeader(h[1], h[2]))
<1>1. /\ line.prefix = "none" /\ line.text = <<"file", h[1], h[2]>>
      /\ Len(line.text) = 3 /\ line.text[1] = "file"
      /\ line.text[2] = h[1] /\ line.text[3] = h[2]
  BY DEF Marker, FileHeader
<1>2. line.text # EndPatch
  <2>1. Len(EndPatch) = 1
    BY DEF EndPatch
  <2> QED BY <1>1, <2>1
<1> HIDE DEF line
<1>3. ~Marks(line, EndPatch) /\ IsHeader(line)
  BY <1>1, <1>2 DEF Marks, IsHeader
<1>4. ParseLine(st, line) =
        [st EXCEPT !.ops = @ \o st.current,
                   !.current = <<[action |-> h[1], path |-> h[2], lines |-> <<>>]>>]
  BY <1>1, <1>3 DEF ParseLine
<1> QED BY <1>4 DEF line, States

LEMMA LineIsAdded ==
    ASSUME NEW st \in States, ~st.ended, NEW line \in Plainly
    PROVE  ParseLine(st, line) =
             IF st.current = <<>> THEN st
             ELSE [st EXCEPT !.current[1].lines = Append(@, line)]
<1>1. /\ line.prefix \in {"plus", "minus", "space"}
      /\ line = [prefix |-> line.prefix, text |-> line.text]
      /\ ~ReadsLikeAMark(line)
  BY DEF Plainly
<1>2. ~Marks(line, EndPatch) /\ ~Marks(line, Hint) /\ ~IsHeader(line)
  BY <1>1 DEF Marks, IsHeader, ReadsLikeAMark
<1>3. AsPatchLine(line) = line
  BY <1>1 DEF AsPatchLine
<1> QED BY <1>2, <1>3 DEF ParseLine

LEMMA ParseLineType ==
    ASSUME NEW st \in States, NEW line \in BodyLines
    PROVE  ParseLine(st, line) \in States
<1>1. CASE st.ended
  BY <1>1 DEF ParseLine
<1>2. CASE ~st.ended /\ line = Marker(EndPatch)
  BY <1>2, EndEnds DEF States
<1>3. ASSUME ~st.ended, NEW h \in Headers, line = Marker(FileHeader(h[1], h[2]))
      PROVE  ParseLine(st, line) \in States
  <2>2. st.ops \o st.current \in Seq(Ops)
    BY DEF States
  <2> DEFINE op == [action |-> h[1], path |-> h[2], lines |-> <<>>]
  <2>3. op \in Ops
    BY NewOp DEF Ops
  <2>4. ParseLine(st, line) =
          [ops |-> st.ops \o st.current, current |-> <<op>>, ended |-> FALSE]
    BY <1>3, HeaderOpens
  <2> HIDE DEF op
  <2>5. <<op>> \in Seq(Ops)
    BY <2>3
  <2> QED BY <2>2, <2>4, <2>5 DEF States
<1>4. CASE ~st.ended /\ line \in Plainly
  <2>1. CASE st.current = <<>>
    BY <1>4, <2>1, LineIsAdded
  <2>2. CASE st.current # <<>>
    <3>1. st.current \in Seq(Ops) /\ 1 \in DOMAIN st.current
      BY <2>2 DEF States
    <3>2. st.current[1] \in Ops
      BY <3>1
    <3> DEFINE more == [st.current[1] EXCEPT !.lines = Append(@, line)]
    <3>3. more \in Ops
      BY <1>4, <3>2, LongerOp DEF Ops
    <3>4. [st.current EXCEPT ![1] = more] \in Seq(Ops)
      <4> HIDE DEF more
      <4> QED BY <3>1, <3>3
    <3>5. ParseLine(st, line) = [st EXCEPT !.current = [st.current EXCEPT ![1] = more]]
      BY <1>4, <2>2, <3>1, LineIsAdded DEF States
    <3> HIDE DEF more
    <3> QED BY <3>4, <3>5 DEF States
  <2> QED BY <2>1, <2>2
<1> QED BY <1>1, <1>2, <1>3, <1>4 DEF BodyLines, HeaderLines

Read(st, text) == FoldLeft(ParseLine, st, text)

ReadRun(f, st, text) ==
    /\ f[0] = st
    /\ \A k \in 1..Len(text) : f[k] = ParseLine(f[k - 1], text[k])
    /\ Read(st, text) = f[Len(text)]

\* ParsePatch reads one line after the other.
LEMMA ReadValues ==
    ASSUME NEW st \in States, NEW text \in Seq(BodyLines)
    PROVE  \E f \in [0..Len(text) -> States] : ReadRun(f, st, text)
<1> DEFINE n == Len(text)
           step == [a \in (1..n) \X States |-> ParseLine(a[2], text[a[1]])]
           After(it) == [S \in SUBSET DOMAIN text |->
                           IF S = {} THEN st
                           ELSE ParseLine(it[S \ {Max(S)}], text[Max(S)])]
           chosen == CHOOSE it : it = After(it)
<1>1. n \in Nat /\ DOMAIN text = 1..n /\ \A k \in 1..n : text[k] \in BodyLines
  OBVIOUS
<1>2. step \in [(1..n) \X States -> States]
  <2>1. \A a \in (1..n) \X States : ParseLine(a[2], text[a[1]]) \in States
    BY <1>1, ParseLineType
  <2> QED BY <2>1
<1>3. \A k \in 1..n, t \in States : step[<<k, t>>] = ParseLine(t, text[k])
  OBVIOUS
<1> HIDE DEF step
<1>5. PICK it \in [SUBSET (1..n) -> States] : LeftIterates(it, n, st, step)
  <2> HIDE DEF n
  <2> QED BY <1>1, <1>2, LeftIteration
<1>6. it = After(it)
  <2>1. ASSUME NEW S \in SUBSET (1..n) PROVE it[S] = After(it)[S]
    <3>1. CASE S = {}
      BY <1>1, <1>5, <3>1 DEF LeftIterates
    <3>2. CASE S # {}
      <4>1. Max(S) \in S /\ it[S] = step[<<Max(S), it[S \ {Max(S)}]>>]
        BY <1>5, <3>2 DEF LeftIterates
      <4>2. it[S \ {Max(S)}] \in States /\ Max(S) \in 1..n
        BY <4>1
      <4> QED BY <1>1, <1>3, <3>2, <4>1, <4>2
    <3> QED BY <3>1, <3>2
  <2> QED BY <1>1, <2>1
<1>7. chosen = After(chosen)
  <2> HIDE DEF After
  <2> QED BY <1>6
<1>8. Read(st, text) = chosen[DOMAIN text]
  BY Zenon DEF Read, FoldLeft, MapThenFoldSet
<1> HIDE DEF chosen
<1>9. Iterates(chosen, n, States, st, step)
  <2>1. chosen[{}] = st
    BY <1>7
  <2>2. ASSUME NEW k \in 1..n, chosen[1..(k - 1)] \in States
        PROVE  chosen[1..k] = step[<<k, chosen[1..(k - 1)]>>]
    <3>1. Max(1..k) = k /\ (1..k) \ {k} = 1..(k - 1)
      BY MaxOfInterval
    <3>2. 1..k \in SUBSET (1..n) /\ 1..k # {}
      OBVIOUS
    <3>3. chosen[1..k] = ParseLine(chosen[1..(k - 1)], text[k])
      BY <1>1, <1>7, <3>1, <3>2
    <3> QED BY <1>3, <2>2, <3>3
  <2> QED BY <2>1, <2>2 DEF Iterates
<1>10. PICK f \in [0..n -> States] : RunsTo(f, n, st, step, chosen[1..n])
  <2>1. n \in Nat
    BY <1>1
  <2> HIDE DEF n
  <2> QED BY <2>1, <1>2, <1>9, IterationRuns
<1>11. ASSUME NEW k \in 1..n PROVE f[k] = ParseLine(f[k - 1], text[k])
  <2>1. k - 1 \in 0..n
    BY <1>1
  <2>2. f[k - 1] \in States
    BY <2>1
  <2> HIDE DEF n
  <2> QED BY <1>3, <1>10, <2>2 DEF LeftRun, RunsTo
<1> QED BY <1>1, <1>8, <1>10, <1>11 DEF ReadRun, LeftRun, RunsTo

LEMMA ReadNothing ==
    ASSUME NEW st \in States
    PROVE  Read(st, <<>>) = st
<1>1. <<>> \in Seq(BodyLines) /\ Len(<<>>) = 0
  OBVIOUS
<1>2. PICK f : ReadRun(f, st, <<>>)
  BY <1>1, ReadValues
<1> QED BY <1>1, <1>2 DEF ReadRun

\* The text cut short by its last line is read to the state before it.
LEMMA ReadOneMore ==
    ASSUME NEW st \in States, NEW text \in Seq(BodyLines), NEW line \in BodyLines
    PROVE  /\ Read(st, text) \in States
           /\ Read(st, Append(text, line)) = ParseLine(Read(st, text), line)
<1> DEFINE more == Append(text, line)
           n == Len(text)
<1>1. /\ more \in Seq(BodyLines) /\ n \in Nat /\ Len(more) = n + 1
      /\ \A k \in 1..n : more[k] = text[k]
      /\ more[n + 1] = line
      /\ n + 1 \in 1..(n + 1) /\ (n + 1) - 1 = n /\ n \in 0..n
      /\ 1..n \subseteq 1..(n + 1)
  OBVIOUS
<1>2. PICK f \in [0..n -> States] : ReadRun(f, st, text)
  BY ReadValues
<1> HIDE DEF more
<1>3. PICK g \in [0..Len(more) -> States] : ReadRun(g, st, more)
  BY <1>1, ReadValues
<1>4. SameSteps(f, g, n)
  BY <1>1, <1>2, <1>3 DEF SameSteps, ReadRun
<1>5. f[n] = g[n]
  <2>1. Agree(f, g, n)
    <3> HIDE DEF n
    <3> QED BY <1>1, <1>4, SameRecurrence
  <2> QED BY <1>1, <2>1 DEF Agree
<1>6. Read(st, text) = f[n] /\ Read(st, more) = g[n + 1]
  BY <1>1, <1>2, <1>3 DEF ReadRun
<1>7. g[n + 1] = ParseLine(g[n], line)
  <2> HIDE DEF n
  <2> QED BY <1>1, <1>3 DEF ReadRun
<1>8. f[n] \in States
  <2> HIDE DEF n
  <2> QED BY <1>1, <1>2
<1> HIDE DEF n
<1> QED BY <1>5, <1>6, <1>7, <1>8 DEF more

-----------------------------------------------------------------------------
\* What a patch of the operations o says, and the state it is read to: the
\* last operation is still open.
Said(o) == FlattenSeq([i \in DOMAIN o |-> Rendered(o[i])])

NothingRead == [ops |-> <<>>, current |-> <<>>, ended |-> FALSE]

ReadTo(o) ==
    [ops     |-> IF o = <<>> THEN <<>> ELSE SubSeq(o, 1, Len(o) - 1),
     current |-> IF o = <<>> THEN <<>> ELSE <<o[Len(o)]>>,
     ended   |-> FALSE]

Understood(o) ==
    /\ Said(o) \in Seq(BodyLines)
    /\ Read(NothingRead, Said(o)) = ReadTo(o)

LEMMA RenderedType ==
    ASSUME NEW op \in Ops
    PROVE  Rendered(op) \in Seq(BodyLines)
<1>1. PICK h \in Headers, ls \in Seq(Plainly) :
         op = [action |-> h[1], path |-> h[2], lines |-> ls]
  BY DEF Ops, OpsOf
<1>2. Marker(FileHeader(h[1], h[2])) \in BodyLines /\ Plainly \subseteq BodyLines
  BY DEF BodyLines, HeaderLines
<1> DEFINE first == Marker(FileHeader(h[1], h[2]))
<1>3. Rendered(op) = <<first>> \o ls
  BY <1>1 DEF Rendered
<1> HIDE DEF first, BodyLines
<1> USE DEF first
<1>4. <<first>> \in Seq(BodyLines) /\ ls \in Seq(BodyLines)
  <2> HIDE DEF first
  <2> QED BY <1>2 DEF first
<1> HIDE DEF first
<1> QED BY <1>3, <1>4

LEMMA SaidOneMore ==
    ASSUME NEW o \in Seq(Ops), NEW op \in Ops
    PROVE  /\ Said(o) \in Seq(BodyLines)
           /\ Said(Append(o, op)) = Said(o) \o Rendered(op)
<1> DEFINE parts == [i \in DOMAIN o |-> Rendered(o[i])]
           more  == [i \in DOMAIN Append(o, op) |-> Rendered(Append(o, op)[i])]
           all   == Seq(BodyLines)
<1>1. /\ Len(o) \in Nat /\ DOMAIN o = 1..Len(o)
      /\ DOMAIN Append(o, op) = 1..(Len(o) + 1)
      /\ \A i \in 1..Len(o) : o[i] \in Ops /\ Append(o, op)[i] = o[i]
      /\ Append(o, op)[Len(o) + 1] = op
  OBVIOUS
<1>2. \A i \in 1..Len(o) : Rendered(o[i]) \in all
  BY <1>1, RenderedType
<1>3. Rendered(op) \in all
  BY RenderedType
<1> HIDE DEF all
<1>4. parts \in Seq(all) /\ Len(parts) = Len(o)
  BY <1>1, <1>2
<1>5. more \in Seq(all) /\ Len(more) = Len(o) + 1
  <2>1. \A i \in 1..(Len(o) + 1) : Rendered(Append(o, op)[i]) \in all
    BY <1>1, <1>2, <1>3
  <2> QED BY <1>1, <2>1
<1>6. more = Append(parts, Rendered(op))
  <2>1. \A i \in 1..Len(o) : more[i] = parts[i]
    BY <1>1
  <2>2. more[Len(o) + 1] = Rendered(op)
    BY <1>1
  <2> HIDE DEF parts, more
  <2> QED BY <1>3, <1>4, <1>5, <2>1, <2>2
<1>7. /\ FlattenSeq(parts) \in all
      /\ FlattenSeq(Append(parts, Rendered(op))) = FlattenSeq(parts) \o Rendered(op)
  <2> HIDE DEF parts, more, BodyLines
  <2> QED BY <1>3, <1>4, FlattenAppend DEF all
<1> QED BY <1>6, <1>7 DEF Said, all

LEMMA NothingUnderstood == Understood(<<>>)
<1>1. Said(<<>>) = <<>>
  BY DEF Said, FlattenSeq
<1>2. NothingRead \in States
  BY DEF NothingRead, States
<1>3. ReadTo(<<>>) = NothingRead
  BY DEF ReadTo, NothingRead
<1>4. Read(NothingRead, <<>>) = NothingRead
  BY <1>2, ReadNothing
<1>5. Said(<<>>) \in Seq(BodyLines)
  <2>1. <<>> \in Seq(BodyLines)
    OBVIOUS
  <2> QED BY <1>1, <2>1, Zenon
<1>6. Read(NothingRead, Said(<<>>)) = ReadTo(<<>>)
  BY <1>1, <1>3, <1>4
<1> QED BY <1>5, <1>6, Zenon DEF Understood

LEMMA ReadToType ==
    ASSUME NEW o \in Seq(Ops)
    PROVE  /\ ReadTo(o) \in States /\ ~ReadTo(o).ended
           /\ ReadTo(o).ops \o ReadTo(o).current = o
           /\ ReadTo(o).current = <<>> <=> o = <<>>
<1>1. CASE o = <<>>
  BY <1>1 DEF ReadTo, States
<1>2. CASE o # <<>>
  <2>1. Len(o) \in Nat \ {0} /\ o[Len(o)] \in Ops
    BY <1>2
  <2>2. <<o[Len(o)]>> \in Seq(Ops) /\ SubSeq(o, 1, Len(o) - 1) \in Seq(Ops)
    BY <2>1
  <2>3. SubSeq(o, 1, Len(o) - 1) \o <<o[Len(o)]>> = o
    BY <2>1
  <2> QED BY <1>2, <2>2, <2>3 DEF ReadTo, States
<1> QED BY <1>1, <1>2

LEMMA HeaderUnderstood ==
    ASSUME NEW o \in Seq(Ops), Understood(o), NEW h \in Headers
    PROVE  Understood(Append(o, [action |-> h[1], path |-> h[2], lines |-> <<>>]))
<1> DEFINE op == [action |-> h[1], path |-> h[2], lines |-> <<>>]
           line == Marker(FileHeader(h[1], h[2]))
           more == Append(o, op)
<1>1. op \in Ops
  BY NewOp DEF Ops
<1>2. line \in BodyLines
  BY DEF BodyLines, HeaderLines
<1>3. Rendered(op) = <<line>>
  BY DEF Rendered
<1>4. ParseLine(ReadTo(o), line) = [ops |-> o, current |-> <<op>>, ended |-> FALSE]
  BY ReadToType, HeaderOpens
<1>5. Said(more) = Append(Said(o), line) /\ Said(o) \in Seq(BodyLines)
  <2>1. Said(more) = Said(o) \o Rendered(op) /\ Said(o) \in Seq(BodyLines)
    <3> HIDE DEF op
    <3> QED BY <1>1, SaidOneMore
  <2> HIDE DEF line, op, more, BodyLines
  <2> QED BY <1>2, <1>3, <2>1
<1>6. Said(more) \in Seq(BodyLines)
  <2> HIDE DEF line, more, BodyLines
  <2> QED BY <1>2, <1>5
<1>7. NothingRead \in States
  BY DEF NothingRead, States
<1>8. Read(NothingRead, Said(more)) = ParseLine(ReadTo(o), line)
  <2> HIDE DEF line, more, BodyLines, States
  <2> QED BY <1>2, <1>5, <1>7, ReadOneMore DEF Understood
<1>9. ReadTo(more) = [ops |-> o, current |-> <<op>>, ended |-> FALSE]
  <2> HIDE DEF op
  <2>1. more # <<>> /\ SubSeq(more, 1, Len(more) - 1) = o /\ more[Len(more)] = op
    BY <1>1
  <2> QED BY <2>1 DEF ReadTo
<1> QED BY <1>4, <1>6, <1>8, <1>9 DEF Understood

LEMMA LineUnderstood ==
    ASSUME NEW o \in Seq(Ops), o # <<>>, Understood(o), NEW line \in Plainly
    PROVE  /\ [o EXCEPT ![Len(o)].lines = Append(@, line)] \in Seq(Ops)
           /\ Understood([o EXCEPT ![Len(o)].lines = Append(@, line)])
<1> DEFINE front == SubSeq(o, 1, Len(o) - 1)
           op    == o[Len(o)]
           last  == [op EXCEPT !.lines = Append(@, line)]
           more  == [o EXCEPT ![Len(o)] = last]
<1>1. op \in Ops /\ front \in Seq(Ops) /\ Len(o) \in DOMAIN o
  OBVIOUS
<1>2. last \in Ops
  BY <1>1, LongerOp DEF Ops
<1>3. Rendered(last) = Append(Rendered(op), line) /\ Rendered(op) \in Seq(BodyLines)
  <2>1. PICK h \in Headers, ls \in Seq(Plainly) :
           op = [action |-> h[1], path |-> h[2], lines |-> ls]
    BY <1>1 DEF Ops, OpsOf
  <2>2. last.lines = Append(ls, line) /\ last.action = h[1] /\ last.path = h[2]
    BY <2>1
  <2>3. \A x : <<x>> \o Append(ls, line) = Append(<<x>> \o ls, line)
    OBVIOUS
  <2>4. Rendered(op) = <<Marker(FileHeader(h[1], h[2]))>> \o ls
    BY <2>1 DEF Rendered
  <2>5. Rendered(last) = <<Marker(FileHeader(h[1], h[2]))>> \o Append(ls, line)
    <3> HIDE DEF last
    <3> QED BY <2>2 DEF Rendered
  <2> HIDE DEF op, last
  <2> QED BY <1>1, <2>3, <2>4, <2>5, RenderedType
<1>4. o = Append(front, op) /\ more = Append(front, last) /\ more \in Seq(Ops)
  <2>1. o = Append(front, o[Len(o)])
    BY <1>1
  <2> HIDE DEF last
  <2>2. more \in Seq(Ops) /\ Len(more) = Len(o)
    BY <1>1, <1>2
  <2>b. Len(o) \in Nat /\ Len(o) >= 1
    BY <1>1
  <2>a. Len(front) = Len(o) - 1
    <3> DEFINE n == Len(o) - 1
    <3>1. n \in Nat /\ n <= Len(o)
      BY <2>b
    <3> HIDE DEF n
    <3>2. Len(SubSeq(o, 1, n)) = n
      BY <3>1
    <3> QED BY <3>2 DEF n
  <2>3. Append(front, last) \in Seq(Ops) /\ Len(Append(front, last)) = Len(o)
    <3> HIDE DEF front
    <3> QED BY <1>1, <1>2, <2>a, <2>b
  <2>4. \A i \in 1..Len(o) : more[i] = Append(front, last)[i]
    BY <1>1, <1>2
  <2>5. more = Append(front, last)
    <3> HIDE DEF more, front
    <3> QED BY <2>2, <2>3, <2>4
  <2> QED BY <2>1, <2>2, <2>5
<1>5. /\ Said(front) \in Seq(BodyLines)
      /\ Said(o) = Said(front) \o Rendered(op)
      /\ Said(more) = Said(front) \o Rendered(last)
  <2> HIDE DEF front, op, last, more
  <2> QED BY <1>1, <1>2, <1>4, SaidOneMore
<1>6. line \in BodyLines
  BY DEF BodyLines
<1>7. Said(more) = Append(Said(o), line) /\ Said(more) \in Seq(BodyLines)
  <2> HIDE DEF front, op, last, more, BodyLines
  <2> QED BY <1>3, <1>5, <1>6
<1>8. NothingRead \in States /\ Said(o) \in Seq(BodyLines)
  BY DEF NothingRead, States, Understood
<1>9. Read(NothingRead, Said(more)) = ParseLine(ReadTo(o), line)
  <2>1. Read(NothingRead, Said(o)) = ReadTo(o)
    BY DEF Understood
  <2> HIDE DEF more, BodyLines, States
  <2>2. Read(NothingRead, Append(Said(o), line)) = ParseLine(Read(NothingRead, Said(o)), line)
    BY <1>6, <1>8, ReadOneMore
  <2> QED BY <1>7, <2>1, <2>2
<1>10. ReadTo(o) = [ops |-> front, current |-> <<op>>, ended |-> FALSE]
  BY DEF ReadTo
<1>11. ParseLine(ReadTo(o), line) = [ops |-> front, current |-> <<last>>, ended |-> FALSE]
  <2>1. ParseLine(ReadTo(o), line) =
          [ReadTo(o) EXCEPT !.current[1].lines = Append(@, line)]
    BY ReadToType, LineIsAdded
  <2>2. /\ ReadTo(o) \in States /\ ReadTo(o).current = <<op>> /\ 1 \in DOMAIN <<op>>
        /\ ReadTo(o).ops = front /\ ReadTo(o).ended = FALSE
    <3>0. ReadTo(o) \in States
      BY ReadToType
    <3> HIDE DEF front, op
    <3>1. 1 \in DOMAIN <<op>>
      OBVIOUS
    <3>2. ReadTo(o).current = <<op>> /\ ReadTo(o).ops = front /\ ReadTo(o).ended = FALSE
      BY <1>10
    <3> QED BY <3>0, <3>1, <3>2
  <2>3. ParseLine(ReadTo(o), line) =
          [ReadTo(o) EXCEPT !.current = [ReadTo(o).current EXCEPT ![1] = last]]
    <3> HIDE DEF op
    <3> QED BY <2>1, <2>2 DEF States
  <2> HIDE DEF front, op, last
  <2>4. [<<op>> EXCEPT ![1] = last] = <<last>>
    OBVIOUS
  <2> QED BY <2>2, <2>3, <2>4 DEF States
<1>12. ReadTo(more) = [ops |-> front, current |-> <<last>>, ended |-> FALSE]
  <2>1. more # <<>> /\ SubSeq(more, 1, Len(more) - 1) = front /\ more[Len(more)] = last
    <3> HIDE DEF last
    <3> QED BY <1>1, <1>2
  <2> HIDE DEF more, front, last
  <2> QED BY <2>1 DEF ReadTo
<1>13. Understood(more)
  BY <1>7, <1>9, <1>11, <1>12 DEF Understood
<1>14. more = [o EXCEPT ![Len(o)].lines = Append(@, line)]
  BY <1>1
<1> HIDE DEF more
<1> QED BY <1>4, <1>13, <1>14

LEMMA WrittenLine ==
    ASSUME NEW o \in Seq(OpsOf(Written)), o # <<>>, NEW line \in Written
    PROVE  [o EXCEPT ![Len(o)].lines = Append(@, line)] \in Seq(OpsOf(Written))
<1> DEFINE all  == OpsOf(Written)
           last == [o[Len(o)] EXCEPT !.lines = Append(@, line)]
<1>1. Len(o) \in DOMAIN o /\ o[Len(o)] \in all
  OBVIOUS
<1>2. last \in all
  BY <1>1, LongerOp
<1> HIDE DEF all, last
<1>3. [o EXCEPT ![Len(o)] = last] \in Seq(all)
  BY <1>1, <1>2 DEF all
<1> QED BY <1>3 DEF all, last

\* A patch in which no line is mistaken was one before its last line or header.
LEMMA UnmistakableOps ==
    ASSUME NEW o \in Seq(OpsOf(Written)), Unmistakable(o)
    PROVE  o \in Seq(Ops)
<1>1. ASSUME NEW i \in DOMAIN o PROVE o[i] \in Ops
  <2>1. PICK h \in Headers, ls \in Seq(Written) :
           o[i] = [action |-> h[1], path |-> h[2], lines |-> ls]
    BY DEF OpsOf
  <2>2. \A j \in DOMAIN ls : ls[j] \in Plainly
    BY <2>1 DEF Unmistakable, Plainly
  <2>3. ls \in Seq(Plainly)
    BY <2>2
  <2> QED BY <2>1, <2>3 DEF Ops, OpsOf
<1> HIDE DEF Ops
<1> QED BY <1>1

LEMMA UnmistakableLine ==
    ASSUME NEW o \in Seq(OpsOf(Written)), o # <<>>, NEW line \in Written,
           Unmistakable([o EXCEPT ![Len(o)].lines = Append(@, line)])
    PROVE  Unmistakable(o) /\ line \in Plainly
<1> DEFINE n == Len(o)
           more == [o EXCEPT ![n].lines = Append(@, line)]
<1>1. n \in DOMAIN o /\ DOMAIN more = DOMAIN o
  OBVIOUS
<1>2. PICK h \in Headers, ls \in Seq(Written) :
         o[n] = [action |-> h[1], path |-> h[2], lines |-> ls]
  BY <1>1 DEF OpsOf
<1>3. more[n].lines = Append(ls, line) /\ o[n].lines = ls
  BY <1>1, <1>2
<1>4. \A i \in DOMAIN o : i # n => more[i] = o[i]
  BY <1>1
<1>5. \A i \in DOMAIN more, j \in Nat :
         j \in DOMAIN more[i].lines => ~ReadsLikeAMark(more[i].lines[j])
  BY DEF Unmistakable
<1> HIDE DEF n, more
<1>6. Len(ls) + 1 \in DOMAIN Append(ls, line) /\ Append(ls, line)[Len(ls) + 1] = line
  OBVIOUS
<1>7. \A j \in DOMAIN ls : j \in Nat /\ j \in DOMAIN Append(ls, line) /\ Append(ls, line)[j] = ls[j]
  OBVIOUS
<1>8. ~ReadsLikeAMark(line)
  BY <1>1, <1>3, <1>5, <1>6
<1>9. \A j \in DOMAIN o[n].lines : ~ReadsLikeAMark(o[n].lines[j])
  BY <1>1, <1>3, <1>5, <1>7
<1>10. ASSUME NEW i \in DOMAIN o, i # n, NEW j \in DOMAIN o[i].lines
       PROVE  ~ReadsLikeAMark(o[i].lines[j])
  <2>1. o[i] \in OpsOf(Written)
    OBVIOUS
  <2>2. o[i].lines \in Seq(Written)
    BY <2>1 DEF OpsOf
  <2>3. j \in Nat
    BY <2>2
  <2> QED BY <1>1, <1>4, <1>5, <1>10, <2>3
<1>11. Unmistakable(o)
  BY <1>9, <1>10 DEF Unmistakable
<1> QED BY <1>8, <1>11 DEF Plainly

LEMMA UnmistakableHeader ==
    ASSUME NEW o \in Seq(OpsOf(Written)), NEW op \in OpsOf(Written),
           Unmistakable(Append(o, op))
    PROVE  Unmistakable(o)
<1>1. \A i \in DOMAIN o : i \in DOMAIN Append(o, op) /\ Append(o, op)[i] = o[i]
  OBVIOUS
<1> QED BY <1>1 DEF Unmistakable

PatchInv ==
    /\ ops \in Seq(OpsOf(Written))
    /\ closed \in BOOLEAN
    /\ Unmistakable(ops) => Understood(ops)

LEMMA InitPatch == Init => PatchInv
<1> SUFFICES ASSUME Init PROVE PatchInv
  OBVIOUS
<1>1. ops = <<>> /\ closed = FALSE
  BY DEF Init, NothingWritten
<1>2. Understood(ops)
  BY <1>1, NothingUnderstood
<1>3. ops \in Seq(OpsOf(Written))
  BY <1>1
<1> QED BY <1>1, <1>2, <1>3 DEF PatchInv

LEMMA NextPatch == PatchInv /\ [Next]_vars => PatchInv'
<1> SUFFICES ASSUME PatchInv, [Next]_vars PROVE PatchInv'
  OBVIOUS
<1> USE DEF PatchInv
<1>1. CASE UNCHANGED patch
  BY <1>1 DEF patch, Unmistakable
<1>2. ASSUME NEW h \in Headers, WriteHeader(h) PROVE PatchInv'
  <2> DEFINE op == [action |-> h[1], path |-> h[2], lines |-> <<>>]
  <2>1. ops' = Append(ops, op) /\ closed' = closed
    BY <1>2 DEF WriteHeader
  <2>2. op \in OpsOf(Written)
    BY NewOp
  <2>3. ASSUME Unmistakable(Append(ops, op)) PROVE Understood(Append(ops, op))
    <3>1. Unmistakable(ops)
      <4> HIDE DEF op
      <4> QED BY <2>2, <2>3, UnmistakableHeader
    <3>2. ops \in Seq(Ops) /\ Understood(ops)
      BY <3>1, UnmistakableOps
    <3> QED BY <3>2, HeaderUnderstood
  <2> HIDE DEF op
  <2>4. Append(ops, op) \in Seq(OpsOf(Written))
    BY <2>2
  <2>5. Unmistakable(ops)' => Unmistakable(Append(ops, op))
    BY <2>1 DEF Unmistakable
  <2> QED BY <2>1, <2>3, <2>4, <2>5
<1>3. ASSUME NEW l \in Written, WriteLine(l) PROVE PatchInv'
  <2> DEFINE more == [ops EXCEPT ![Len(ops)].lines = Append(@, l)]
  <2>1. ops # <<>> /\ ops' = more /\ closed' = closed
    BY <1>3 DEF WriteLine
  <2>2. more \in Seq(OpsOf(Written))
    BY <2>1, WrittenLine
  <2>3. ASSUME Unmistakable(more) PROVE Understood(more)
    <3>1. Unmistakable(ops) /\ l \in Plainly
      BY <2>1, <2>3, UnmistakableLine
    <3>2. ops \in Seq(Ops) /\ Understood(ops)
      BY <3>1, UnmistakableOps
    <3> QED BY <2>1, <3>1, <3>2, LineUnderstood
  <2> HIDE DEF more
  <2>4. Unmistakable(ops)' => Unmistakable(more)
    BY <2>1 DEF Unmistakable
  <2> QED BY <2>1, <2>2, <2>3, <2>4
<1>4. CASE WriteEnd
  BY <1>4 DEF WriteEnd, Unmistakable
<1>5. CASE Write
  BY <1>2, <1>3, <1>4, <1>5 DEF Write, WriteOn
<1>6. CASE Next /\ ~Write
  BY <1>1, <1>6 DEF Next, ReadOn, AskFor, Ask, ReadFile, EditFile, UpdateFile
<1>7. CASE UNCHANGED vars
  BY <1>1, <1>7 DEF vars
<1> QED BY <1>5, <1>6, <1>7

\* The end mark is the first that ParsePatch stops at, and the begin mark the
\* first line.
LEMMA UnderstoodIsParsed == PatchInv => ParsesWhatWasWritten
<1> SUFFICES ASSUME ops \in Seq(Ops), Understood(ops), closed \in BOOLEAN
             PROVE  LET parsed == ParsePatch(Input)
                    IN  IF closed THEN parsed = [ok |-> TRUE, ops |-> ops] ELSE ~parsed.ok
  BY UnmistakableOps DEF PatchInv, ParsesWhatWasWritten
<1> DEFINE begin == Marker(BeginPatch)
           end   == Marker(EndPatch)
           said  == Said(ops)
           body  == IF closed THEN Append(said, end) ELSE said
           begins == {i \in DOMAIN Input : Marks(Input[i], BeginPatch)}
           final == Read(NothingRead, body)
<1>1. end \in BodyLines /\ said \in Seq(BodyLines)
  BY DEF BodyLines, Understood
<1>2. Input = <<begin>> \o body /\ body \in Seq(BodyLines)
  <2>1. Input = <<begin>> \o said \o (IF closed THEN <<end>> ELSE <<>>)
    BY DEF Input, Said
  <2> HIDE DEF begin, end, said, BodyLines
  <2> QED BY <1>1, <2>1
<1>3. Marks(begin, BeginPatch)
  BY DEF Marks, Marker
<1>4. /\ 1 \in begins /\ begins \subseteq Nat \ {0}
      /\ SubSeq(Input, 1 + 1, Len(Input)) = body
  <2>1. Input[1] = begin /\ 1 \in DOMAIN Input /\ DOMAIN Input \subseteq Nat \ {0}
    <3> HIDE DEF begin, body, BodyLines
    <3> QED BY <1>2
  <2>2. SubSeq(Input, 1 + 1, Len(Input)) = body
    <3> HIDE DEF begin, body, BodyLines
    <3> QED BY <1>2
  <2> HIDE DEF begin, body
  <2> QED BY <1>3, <2>1, <2>2
<1>5. Min(begins) = 1
  <2> HIDE DEF begins
  <2>1. Min(begins) \in begins /\ Min(begins) <= 1
    BY <1>4, MinPicks
  <2> QED BY <1>4, <2>1
<1>6. ParsePatch(Input) = [ok |-> final.ended, ops |-> final.ops \o final.current]
  <2>1. ParsePatch(Input) =
          [ok |-> Read(NothingRead, SubSeq(Input, Min(begins) + 1, Len(Input))).ended,
           ops |-> Read(NothingRead, SubSeq(Input, Min(begins) + 1, Len(Input))).ops \o
                   Read(NothingRead, SubSeq(Input, Min(begins) + 1, Len(Input))).current]
    BY <1>4, Zenon DEF ParsePatch, Read, NothingRead
  <2> HIDE DEF begins, body
  <2> QED BY <1>4, <1>5, <2>1
<1>7. Read(NothingRead, said) = ReadTo(ops)
  BY DEF Understood
<1>8. ReadTo(ops) \in States /\ ~ReadTo(ops).ended /\ ReadTo(ops).ops \o ReadTo(ops).current = ops
  BY ReadToType
<1>9. CASE ~closed
  <2>1. ~final.ended
    BY <1>7, <1>8, <1>9
  <2> HIDE DEF final
  <2> QED BY <1>6, <1>9, <2>1
<1>10. CASE closed
  <2>1. NothingRead \in States
    BY DEF NothingRead, States
  <2>2. final = ParseLine(ReadTo(ops), end)
    <3> HIDE DEF end, said, BodyLines, States
    <3> QED BY <1>1, <1>7, <1>10, <2>1, ReadOneMore
  <2>3. final = [ReadTo(ops) EXCEPT !.ended = TRUE]
    BY <1>8, <2>2, EndEnds
  <2>4. final.ended = TRUE /\ final.ops = ReadTo(ops).ops /\ final.current = ReadTo(ops).current
    <3> HIDE DEF final
    <3> QED BY <1>8, <2>3 DEF States
  <2> HIDE DEF final
  <2> QED BY <1>6, <1>8, <1>10, <2>4
<1> QED BY <1>9, <1>10

\* A patch of any number of files, of any length, with any text in its added
\* and removed lines and none in its context lines that reads like a marker, is
\* read back exactly, and one that is cut short is refused (patch.go:35-117).
THEOREM PatchesAreReadBack == Spec => []ParsesWhatWasWritten
BY InitPatch, NextPatch, UnderstoodIsParsed, PTL DEF Spec

-----------------------------------------------------------------------------
(* apply_patch *)

LEMMA UpdateIsExact ==
    ASSUME ReadingInv, UpdateFile, NEW k \in 0..Len(Lines(file)),
           Unambiguous(Lines(file)), request[2] # <<>>,
           Describes(request[2], Lines(file), k)
    PROVE  /\ answer' = "ok"
           /\ file' = Joined(KeepTrailingNewline(Lines(file),
                               Exactly(Lines(file), request[2], k)))
<1> DEFINE here == Lines(file)
           lines == request[2]
           T == Range(here) \cup {lines[i].text : i \in DOMAIN lines}
<1>1. file \in Files /\ lines \in Patches
  BY DEF ReadingInv, Requests, UpdateFile
<1>2. here \in Seq(T)
  <2>1. here \in Seq(Range(here)) /\ Range(here) \subseteq T
    BY <1>1, LinesAreLines
  <2>2. \A i \in DOMAIN here : here[i] \in T
    BY <2>1 DEF Range
  <2> HIDE DEF T, here
  <2> QED BY <2>1, <2>2
<1>3. lines \in Seq(PatchLines(T))
  <2> DEFINE U == {lines[i].text : i \in DOMAIN lines}
  <2>1. lines \in Seq(PatchLines(U))
    BY <1>1 DEF PatchLines
  <2>2. U \subseteq T
    OBVIOUS
  <2> HIDE DEF T, U, lines
  <2>3. PatchLines(U) \subseteq PatchLines(T)
    BY <2>2 DEF PatchLines
  <2> HIDE DEF PatchLines
  <2> QED BY <2>1, <2>3
<1> DEFINE exactly == Exactly(here, lines, k)
           result == ApplyHunks(here, lines)
<1> HIDE DEF T, exactly
<1>4. result = KeepTrailingNewline(here, exactly)
  <2> HIDE DEF here, lines
  <2>1. /\ lines # <<>> /\ Unambiguous(here) /\ k \in 0..Len(here)
        /\ Describes(lines, here, k)
    BY DEF here, lines
  <2> QED BY <1>2, <1>3, <2>1, DescribedIsApplied DEF exactly
<1>5. exactly \in Seq(T)
  <2> HIDE DEF here, lines
  <2>1. New(lines) \in Seq(T) /\ Old(lines) \in Seq(T)
    <3>1. Len(lines) \in 0..Len(lines)
      BY <1>3
    <3>2. PICK o \in [0..Len(lines) -> Seq(T)] : TextsRun(o, lines, {"space", "minus"})
      BY <1>3, TextsValues
    <3>3. PICK w \in [0..Len(lines) -> Seq(T)] : TextsRun(w, lines, {"space", "plus"})
      BY <1>3, TextsValues
    <3> QED BY <3>1, <3>2, <3>3 DEF TextsRun, Old, New
  <2>2. k \in 0..Len(here) /\ k + Len(Old(lines)) <= Len(here)
    BY DEF Describes, here, lines
  <2> DEFINE a == SubSeq(here, 1, k)
             b == New(lines)
             end == k + Len(Old(lines))
             c == SubSeq(here, end + 1, Len(here))
  <2>3. a \in Seq(T)
    BY <1>2, <2>2, BeginningAndRest
  <2>4. c \in Seq(T)
    <3>1. end \in 0..Len(here)
      BY <1>2, <2>1, <2>2
    <3> HIDE DEF end
    <3> QED BY <1>2, <3>1, BeginningAndRest
  <2>5. exactly = (a \o b) \o c
    BY DEF exactly, Exactly
  <2> HIDE DEF a, b, c
  <2> QED BY <2>1, <2>3, <2>4, <2>5 DEF b
<1>6. result # Panicked
  BY <1>4, <1>5, AnswersHaveLines
<1> HIDE DEF result
<1>7. answer' = "ok" /\ file' = Joined(result)
  BY <1>6 DEF UpdateFile, Answer, result, here, lines
<1> QED BY <1>4, <1>7 DEF exactly, here, lines

\* An update that describes a block of a file in which no two lines match each
\* other is answered, puts its new lines in the place of that block and leaves
\* the rest alone, whatever the file and the patch (applyHunks,
\* patch.go:186-270).
THEOREM DescribedPatchesApply == Spec => ExactPatchApplies
<1>1. ReadingInv /\ [Next]_vars =>
        [request # None /\ request[1] = "update" =>
           LET lines == request[2]
               here  == Lines(file)
           IN  \A k \in 0 .. Len(here) :
                 (Unambiguous(here) /\ lines # <<>> /\ Describes(lines, here, k)) =>
                    /\ answer' = "ok"
                    /\ file' = Joined(KeepTrailingNewline(here,
                          SubSeq(here, 1, k) \o New(lines)
                            \o SubSeq(here, k + Len(Old(lines)) + 1, Len(here))))]_vars
  <2> SUFFICES ASSUME ReadingInv, Next, request # None, request[1] = "update",
                      NEW k \in 0..Len(Lines(file)), Unambiguous(Lines(file)),
                      request[2] # <<>>, Describes(request[2], Lines(file), k)
               PROVE  /\ answer' = "ok"
                      /\ file' = Joined(KeepTrailingNewline(Lines(file),
                                          Exactly(Lines(file), request[2], k)))
    BY Zenon DEF Exactly
  <2>1. UpdateFile
    BY DEF Next, ReadOn, AskFor, Ask, ReadFile, EditFile, Write
  <2> QED BY <2>1, UpdateIsExact
<1> QED
  BY <1>1, InitReading, NextReading, PTL DEF Spec, ExactPatchApplies
=============================================================================
