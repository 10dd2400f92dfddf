----------------------- MODULE ShadowWorkspaceProofs -----------------------
(* For any number of requests, any files and any contents: a read, a search   *)
(* and a listing answer with what the merged view showed during the call,     *)
(* unless the upper copy of a file that both layers have is deleted           *)
(* meanwhile, and a write is of a content the view showed.                    *)
EXTENDS ShadowWorkspaceInv, SequenceTheorems, FiniteSetTheorems, TLAPS

USE WorkspaceAssumption

-----------------------------------------------------------------------------
(* The first operation left is one of the program's operations. *)
LEMMA HeadIsOperation ==
    ASSUME NEW ops \in Seq(Operation), ops # <<>>
    PROVE  /\ Head(ops) \in Operation
           /\ Head(ops) = ops[1] /\ 1 \in DOMAIN ops
           /\ Head(ops).path \in Path
           /\ Head(ops).act \in Acts
           /\ Head(ops).act = "add" => Head(ops).arg \in Content
           /\ Tail(ops) \in Seq(Operation)
           /\ \A i \in DOMAIN Tail(ops) : i + 1 \in DOMAIN ops /\ Tail(ops)[i] = ops[i + 1]
           /\ \A i \in DOMAIN ops : i # 1 => i - 1 \in DOMAIN Tail(ops) /\ Tail(ops)[i - 1] = ops[i]
<1>1. Len(ops) \in Nat /\ Len(ops) > 0 /\ DOMAIN ops = 1 .. Len(ops)
  BY EmptySeq, LenProperties
<1>2. Head(ops) = ops[1] /\ Head(ops) \in Operation
  BY <1>1, HeadTailProperties
<1>3. \A op \in Operation : op.path \in Path /\ op.act \in Acts /\ (op.act = "add" => op.arg \in Content)
  OBVIOUS
<1>4. /\ Tail(ops) \in Seq(Operation)
      /\ Len(Tail(ops)) = Len(ops) - 1
      /\ \A i \in 1 .. Len(Tail(ops)) : Tail(ops)[i] = ops[i + 1]
  BY HeadTailProperties
<1>5. DOMAIN Tail(ops) = 1 .. Len(ops) - 1
  BY <1>4, LenProperties
<1> QED BY <1>1, <1>2, <1>3, <1>4, <1>5

LEMMA ReadOpsAreOperations ==
    ASSUME NEW paths \in Seq(Path)
    PROVE  /\ ReadOps(paths) \in Seq(Operation)
           /\ DOMAIN ReadOps(paths) = DOMAIN paths
           /\ \A i \in DOMAIN paths : ReadOps(paths)[i].act = "read" /\ ReadOps(paths)[i].path = paths[i]
           /\ ReadOps(paths) = <<>> <=> paths = <<>>
<1>1. paths \in [1 .. Len(paths) -> Path] /\ Len(paths) \in Nat
  BY LenProperties, SeqDef
<1>2. ReadOps(paths) \in [1 .. Len(paths) -> ReadOp]
  BY <1>1 DEF ReadOps, ReadOp
<1>3. ReadOp \subseteq Operation
  BY DEF Operation
<1>4. ReadOps(paths) \in Seq(Operation) /\ Len(ReadOps(paths)) = Len(paths)
  BY <1>1, <1>2, <1>3, SeqDef
<1>5. ReadOps(paths) = <<>> <=> paths = <<>>
  BY <1>4, EmptySeq
<1> QED BY <1>1, <1>4, <1>5 DEF ReadOps

LEMMA OrdersAreSequences ==
    ASSUME NEW S \in SUBSET Path, NEW s \in Orders(S)
    PROVE  s \in Seq(Path) /\ {s[i] : i \in DOMAIN s} = S
<1>1. Cardinality(S) \in Nat
  BY FS_Subset, FS_CardinalityType
<1> QED BY <1>1 DEF Orders
-----------------------------------------------------------------------------
(* Types.  PcTodo is what the control of a handler does to pc and todo. *)
PcType   == pc \in [Client -> Steps \cup Answers \cup {"idle"}]
TodoType == todo \in [Client -> Seq(Operation)]

LEMMA DoneTypes ==
    ASSUME TypeOK, NEW c \in Client, todo[c] # <<>>, OpDone(c)
    PROVE  PcType' /\ TodoType'
<1>1. Tail(todo[c]) \in Seq(Operation)
  BY HeadIsOperation DEF TypeOK
<1> QED BY <1>1 DEF TypeOK, OpDone, Goto, FirstStep, PcType, TodoType, Steps, Answers

LEMMA FailsTypes ==
    ASSUME TypeOK, NEW c \in Client, todo[c] # <<>>, Fails(c)
    PROVE  PcType' /\ TodoType'
BY DoneTypes DEF TypeOK, Fails, Goto, PcType, TodoType, Answers

LEMMA WitnessType ==
    ASSUME TypeOK, upper' \in [Path -> Value], NEW d \in Client, Witness(d, upper')
    PROVE  /\ seen' \in [Client -> [Path -> SUBSET Value]]
           /\ changed' \in [Client -> SUBSET Path] /\ uncovered' \in [Client -> SUBSET Path]
<1>1. \A p \in Path : View(upper')[p] \in Value
  BY DEF View, Value
<1> QED BY <1>1 DEF TypeOK, Witness

LEMMA TypeStep ==
    ASSUME Inv, NEW c \in Client, Handle(c)
    PROVE  TypeOK'
<1> USE DEF Inv, ClientInv, Progress, Reading, Writing, disk, history
<1>1. ASSUME NEW r \in Requests, Call(c, r) PROVE TypeOK'
  <2>1. r.ops \in Seq(Operation)
    OBVIOUS
  <2>2. r.ops # <<>> => r.ops[1].act \in Acts
    BY <2>1, HeadIsOperation
  <2>3. \A p \in Path : View(upper)[p] \in Value
    BY DEF View, TypeOK, Value
  <2> QED BY <1>1, <2>1, <2>2, <2>3 DEF Call, TypeOK, Goto, FirstStep, Steps, Answers
<1>2. CASE Return(c)
  <2>1. <<>> \in Seq(Operation)
    OBVIOUS
  <2> QED BY <1>2, <2>1 DEF Return, TypeOK, Goto, Value
<1>3. CASE ResolveRead(c)
  BY <1>3, FailsTypes DEF ResolveRead, TypeOK, SameFiles, Goto, Steps, PcType, TodoType
<1>4. CASE StatUpper(c)
  BY <1>4 DEF StatUpper, Chosen, TypeOK, SameFiles, Goto, Steps
<1>5. CASE StatLower(c)
  BY <1>5, FailsTypes DEF StatLower, Chosen, TypeOK, SameFiles, Goto, Steps, PcType, TodoType
<1>6. CASE ReadMissing(c)
  BY <1>6, FailsTypes DEF ReadMissing, TypeOK, SameFiles, PcType, TodoType
<1>7. LayerContent(c) \in Value \/ todo[c] = <<>>
  BY HeadIsOperation DEF LayerContent, TypeOK, Op
<1>8. CASE ReadForAnswer(c)
  <2>1. <<Op(c).path, LayerContent(c)>> \in Path \X Content
    BY <1>7, <1>8, HeadIsOperation DEF ReadForAnswer, Op, TypeOK, Value
  <2>2. found' \in [Client -> 0 .. MaxMatches]
    <3> DEFINE lines == MatchingLines(LayerContent(c))
    <3>1. lines \in Nat /\ found[c] \in 0 .. MaxMatches /\ MaxMatches \in Nat \ {0}
      BY <1>7, <1>8 DEF ReadForAnswer, TypeOK, Value
    <3>2. \/ found' = [found EXCEPT ![c] = MaxMatches]
          \/ found' = [found EXCEPT ![c] = found[c] + lines] /\ ~(found[c] + lines >= MaxMatches)
          \/ found' = found
      BY <1>8 DEF ReadForAnswer
    <3>3. found \in [Client -> 0 .. MaxMatches]
      BY DEF TypeOK
    <3> HIDE DEF lines
    <3> QED BY <3>1, <3>2, <3>3
  <2>3. CASE OpDone(c)
    BY <1>8, <2>1, <2>2, <2>3, DoneTypes DEF ReadForAnswer, TypeOK, SameFiles, disk, history, PcType, TodoType
  <2>4. CASE ~OpDone(c)
    <3>1. Goto(c, "ok") /\ todo' = [todo EXCEPT ![c] = <<>>] /\ <<>> \in Seq(Operation)
      BY <1>8, <2>4 DEF ReadForAnswer
    <3> QED BY <1>8, <2>1, <2>2, <3>1 DEF ReadForAnswer, TypeOK, SameFiles, disk, history, Goto, Answers
  <2> QED BY <2>3, <2>4
<1>9. CASE ReadForUpdate(c)
  <2>1. LayerContent(c) \in Content /\ Op(c) \in Operation /\ Op(c).act \in {"edit", "update"}
    BY <1>7, <1>9, HeadIsOperation DEF ReadForUpdate, Op, TypeOK, Value
  <2>2. Revise(LayerContent(c), Op(c)) \in Content \cup {Unmatched, Panics}
    BY <2>1
  <2> QED BY <1>9, <2>2, FailsTypes DEF ReadForUpdate, TypeOK, SameFiles, PcType, TodoType, Goto, Steps, Answers, Value
<1>10. CASE Resolve(c)
  <2>1. Op(c).act = "add" => Op(c).arg \in Content
    BY <1>10, HeadIsOperation DEF Resolve, Op, TypeOK
  <2> QED BY <1>10, <2>1, FailsTypes DEF Resolve, TypeOK, SameFiles, Goto, Steps, PcType, TodoType, Value
<1>11. CASE WriteTemp(c)
  BY <1>11 DEF WriteTemp, TypeOK, Goto, Steps
<1>12. CASE NothingWritten(c) \/ WriteFails(c) \/ Discard(c)
  <2>1. CASE NothingWritten(c)
    BY <2>1, FailsTypes DEF NothingWritten, TypeOK, PcType, TodoType
  <2>2. CASE WriteFails(c)
    BY <2>2 DEF WriteFails, TypeOK, Goto, Steps
  <2>3. CASE Discard(c)
    BY <2>3, FailsTypes DEF Discard, TypeOK, PcType, TodoType, Value
  <2> QED BY <1>12, <2>1, <2>2, <2>3
<1>13. CASE Rename(c)
  <2>1. upper' \in [Path -> Value] /\ temp' \in [Client -> Value]
    BY <1>13, HeadIsOperation DEF Rename, TypeOK, Op, Value
  <2> QED BY <1>13, <2>1, DoneTypes, WitnessType DEF Rename, TypeOK, PcType, TodoType
<1>14. CASE Remove(c)
  <2>1. upper' \in [Path -> Value]
    BY <1>14, HeadIsOperation DEF Remove, TypeOK, Op, Value
  <2> QED BY <1>14, <2>1, DoneTypes, WitnessType DEF Remove, TypeOK, PcType, TodoType
<1>15. CASE ListUpper(c)
  BY <1>15 DEF ListUpper, TypeOK, SameFiles, Goto, Steps
<1>16. CASE ListLower(c)
  <2>1. PICK above \in Orders(names[c]), below \in Orders(InLower \ names[c]) : Search(c, above, below)
    BY <1>16 DEF ListLower
  <2>2. above \in Seq(Path) /\ below \in Seq(Path)
    BY OrdersAreSequences DEF TypeOK, InLower
  <2>3. ReadOps(above \o below) \in Seq(Operation)
    BY <2>2, ConcatProperties, ReadOpsAreOperations
  <2> QED BY <1>16, <2>1, <2>3 DEF ListLower, Search, TypeOK, SameFiles, Goto, Steps, Answers, InLower
<1> QED BY <1>1, <1>2, <1>3, <1>4, <1>5, <1>6, <1>8, <1>9, <1>10, <1>11, <1>12, <1>13, <1>14, <1>15, <1>16 DEF Handle

-----------------------------------------------------------------------------
(* What a step of one request does to the others: nothing to what is theirs,  *)
(* while their history grows with every change of a file.                     *)
Untouched(c) ==
    /\ pc'[c] = pc[c] /\ req'[c] = req[c] /\ todo'[c] = todo[c] /\ at'[c] = at[c]
    /\ out'[c] = out[c] /\ names'[c] = names[c] /\ hits'[c] = hits[c] /\ temp'[c] = temp[c]
    /\ found'[c] = found[c]

HistoryGrows(c) ==
    /\ \A p \in Path : seen[c][p] \subseteq seen'[c][p]
    /\ pc[c] # "idle" => \A p \in Path : View(upper')[p] \in seen'[c][p]
    /\ changed[c] \subseteq changed'[c]
    /\ uncovered[c] \subseteq uncovered'[c]

(* What another request does to the files is in the history of this one: a    *)
(* change of what shows, and the loss of an upper copy.                       *)
ChangesShow(c) ==
    \A p \in Path :
       /\ View(upper')[p] = View(upper)[p] \/ p \in changed'[c]
       /\ \/ upper'[p] = upper[p] \/ upper'[p] # Missing \/ Lower[p] = Missing
          \/ p \in uncovered'[c]

LEMMA WitnessGrows ==
    ASSUME TypeOK, upper' \in [Path -> Value], NEW d \in Client, Witness(d, upper'), NEW c \in Client
    PROVE  /\ HistoryGrows(c)
           /\ c # d => pc[c] = "idle" \/ ChangesShow(c)
<1>1. HistoryGrows(c)
  BY DEF TypeOK, Witness, HistoryGrows
<1>2. ASSUME c # d, pc[c] # "idle" PROVE ChangesShow(c)
  <2>1. /\ changed'[c] = changed[c] \cup {p \in Path : View(upper')[p] # View(upper)[p]}
        /\ uncovered'[c] = uncovered[c] \cup
              {p \in Path : upper[p] # Missing /\ upper'[p] = Missing /\ Lower[p] # Missing}
    BY <1>2 DEF TypeOK, Witness
  <2>2. ASSUME NEW p \in Path
        PROVE  \/ upper'[p] = upper[p] \/ upper'[p] # Missing \/ Lower[p] = Missing
               \/ p \in uncovered'[c]
    BY <2>1
  <2> QED BY <2>1, <2>2 DEF ChangesShow
<1> QED BY <1>1, <1>2

(* What a request may make a write of only grows. *)
LEMMA SourcesGrow ==
    ASSUME NEW c \in Client, HistoryGrows(c), ChangesShow(c), ViewIsSeen(c), pc[c] # "idle"
    PROVE  \A p \in Path : Sources(c, p) \subseteq Sources(c, p)'
<1> SUFFICES ASSUME NEW p \in Path, NEW v \in Sources(c, p) PROVE v \in Sources(c, p)'
  OBVIOUS
<1>1. v \in seen[c][p] /\ v \in seen'[c][p]
  BY DEF Sources, ViewIsSeen, HistoryGrows
<1>2. CASE p \in changed'[c]
  BY <1>1, <1>2 DEF Sources
<1>3. CASE p \notin changed'[c]
  BY <1>3 DEF Sources, HistoryGrows, ChangesShow
<1> QED BY <1>2, <1>3

LEMMA OwnStep ==
    ASSUME Inv, NEW d \in Client, Handle(d), NEW c \in Client, c # d
    PROVE  /\ Untouched(c) /\ HistoryGrows(c)
           /\ ChangesShow(c) \/ pc[c] = "idle"
<1> USE DEF Inv, ClientInv, Untouched
<1>0. ASSUME UNCHANGED upper, seen'[c] = seen[c], changed'[c] = changed[c], uncovered'[c] = uncovered[c]
      PROVE  ChangesShow(c) /\ HistoryGrows(c)
  BY <1>0 DEF ChangesShow, HistoryGrows, ViewIsSeen, View
<1>1. ASSUME NEW r \in Requests, Call(d, r) PROVE ChangesShow(c) /\ Untouched(c) /\ HistoryGrows(c)
  BY <1>1, <1>0 DEF Call, Goto, TypeOK, disk
<1>2. CASE Return(d)
  BY <1>2, <1>0 DEF Return, Goto, TypeOK, disk
<1>3. CASE ResolveRead(d)
  BY <1>3, <1>0 DEF ResolveRead, Fails, OpDone, Goto, TypeOK, SameFiles, disk, history
<1>4. CASE StatUpper(d)
  BY <1>4, <1>0 DEF StatUpper, Chosen, Goto, TypeOK, SameFiles, disk, history
<1>5. CASE StatLower(d)
  BY <1>5, <1>0 DEF StatLower, Chosen, Fails, OpDone, Goto, TypeOK, SameFiles, disk, history
<1>6. CASE ReadMissing(d)
  BY <1>6, <1>0 DEF ReadMissing, Fails, OpDone, Goto, TypeOK, SameFiles, disk, history
<1>7. CASE ReadForAnswer(d)
  BY <1>7, <1>0 DEF ReadForAnswer, OpDone, Goto, TypeOK, SameFiles, disk, history
<1>8. CASE ReadForUpdate(d)
  BY <1>8, <1>0 DEF ReadForUpdate, Fails, OpDone, Goto, TypeOK, SameFiles, disk, history
<1>9. CASE Resolve(d)
  BY <1>9, <1>0 DEF Resolve, Fails, OpDone, Goto, TypeOK, SameFiles, disk, history
<1>10. CASE WriteTemp(d)
  BY <1>10, <1>0 DEF WriteTemp, Goto, TypeOK, history
<1>11. CASE NothingWritten(d)
  BY <1>11, <1>0 DEF NothingWritten, Fails, OpDone, Goto, TypeOK, disk, history
<1>12. CASE WriteFails(d)
  BY <1>12, <1>0 DEF WriteFails, Goto, TypeOK, history
<1>13. CASE Discard(d)
  BY <1>13, <1>0 DEF Discard, Fails, OpDone, Goto, TypeOK, history
<1>14. CASE Rename(d) \/ Remove(d)
  <2>1. upper' \in [Path -> Value]
    BY <1>14 DEF Rename, Remove, TypeOK, Value
  <2>2. Witness(d, upper')
    BY <1>14 DEF Rename, Remove
  <2>3. HistoryGrows(c) /\ (ChangesShow(c) \/ pc[c] = "idle")
    BY <2>1, <2>2, WitnessGrows
  <2>4. Untouched(c)
    BY <1>14 DEF Rename, Remove, OpDone, Goto, TypeOK
  <2> QED BY <2>3, <2>4
<1>15. CASE ListUpper(d)
  BY <1>15, <1>0 DEF ListUpper, Goto, TypeOK, SameFiles, disk, history
<1>16. CASE ListLower(d)
  BY <1>16, <1>0 DEF ListLower, Search, Goto, TypeOK, SameFiles, disk, history
<1> QED BY <1>1, <1>2, <1>3, <1>4, <1>5, <1>6, <1>7, <1>8, <1>9, <1>10, <1>11, <1>12, <1>13, <1>14, <1>15, <1>16 DEF Handle

LEMMA OthersKeep ==
    ASSUME TypeOK, TypeOK', NEW c \in Client, ClientInv(c), Untouched(c), HistoryGrows(c),
           ChangesShow(c) \/ pc[c] = "idle"
    PROVE  ClientInv(c)'
<1> USE DEF Untouched, ClientInv
<1>1. todo[c] # <<>> => Op(c)' = Op(c) /\ Op(c).path \in Path
  BY HeadIsOperation DEF Op, TypeOK
<1>2. pc[c] # "idle" => \A p \in Path : Sources(c, p) \subseteq Sources(c, p)'
  BY SourcesGrow
<1>3. Progress(c)' /\ OpsFitRequest(c)'
  BY DEF Progress, OpsFitRequest, Op
<1>4. OutIsMade(c)'
  BY <1>1, <1>2 DEF OutIsMade, Progress, Writing, Made, MadeOf, Effect
<1>5. ViewIsSeen(c)'
  BY DEF ViewIsSeen, HistoryGrows
<1>6. LayerIsSeen(c)'
  BY <1>1, <1>2 DEF LayerIsSeen, Progress, Reading, ChangesShow, HistoryGrows
<1>7. HitsAreSeen(c)'
  BY DEF HitsAreSeen, HistoryGrows
<1>8. ListIsComplete(c)'
  BY DEF ListIsComplete, HistoryGrows
<1>9. SearchIsComplete(c)'
  BY DEF SearchIsComplete, HistoryGrows
<1>10. ErrorIsSeen(c)'
  BY <1>1 DEF ErrorIsSeen, Progress, HistoryGrows
<1> QED BY <1>3, <1>4, <1>5, <1>6, <1>7, <1>8, <1>9, <1>10

-----------------------------------------------------------------------------
(* The end of an operation.  Accounted: a search needs the head no longer.    *)
Accounted(c, p) ==
    \/ p \in Denied \cup uncovered'[c]
    \/ found'[c] >= MaxMatches
    \/ Missing \in seen'[c][p]
    \/ \E v \in Content : v \in seen'[c][p] /\ <<p, v>> \in hits'[c]

Ends(c) ==
    /\ pc[c] \in Reading \cup Writing
    /\ req'[c] = req[c] /\ names'[c] = names[c] /\ temp'[c] = Missing
    /\ hits[c] \subseteq hits'[c] /\ found'[c] >= found[c]
    /\ HistoryGrows(c)
    /\ req[c].tool = "grep" => Accounted(c, Op(c).path)
    /\ HitsAreSeen(c)'

LEMMA DoneKeeps ==
    ASSUME TypeOK, TypeOK', NEW c \in Client, ClientInv(c), Ends(c), OpDone(c)
    PROVE  ClientInv(c)'
<1> USE DEF ClientInv, Ends
<1>1. todo[c] \in Seq(Operation) /\ todo[c] # <<>>
  BY DEF Progress, TypeOK
<1>2. /\ todo'[c] = Tail(todo[c])
      /\ todo'[c] # <<>> => pc'[c] = FirstStep(Head(todo'[c]))
      /\ todo'[c] = <<>> => pc'[c] = "ok"
  BY DEF OpDone, Goto, TypeOK
<1>3. todo'[c] \in Seq(Operation) /\ (todo'[c] # <<>> => Head(todo'[c]).act \in Acts)
  BY <1>1, <1>2, HeadIsOperation
<1>4. /\ pc'[c] \in {"resolve", "resolveRead", "ok"}
      /\ pc'[c] = "ok" <=> todo'[c] = <<>>
      /\ pc'[c] = "resolve" => Head(todo'[c]).act \in {"add", "delete"}
      /\ pc'[c] = "resolveRead" => Head(todo'[c]).act \in {"read", "edit", "update"}
  BY <1>2, <1>3 DEF FirstStep, Acts
<1>5. Progress(c)' /\ OutIsMade(c)'
  BY <1>4 DEF Progress, OutIsMade, Op, Reading, Writing
<1>6. OpsFitRequest(c)'
  <2>1. req[c].tool \in {"read_file", "grep"} => \A i \in DOMAIN todo'[c] : todo'[c][i].act = "read"
    BY <1>1, <1>2, HeadIsOperation DEF OpsFitRequest
  <2>2. req[c].tool # "list_dir"
    BY DEF OpsFitRequest, Reading, Writing
  <2> QED BY <1>4, <2>1, <2>2 DEF OpsFitRequest
<1>7. ViewIsSeen(c)' /\ LayerIsSeen(c)' /\ ErrorIsSeen(c)'
  BY <1>4 DEF ViewIsSeen, LayerIsSeen, ErrorIsSeen, HistoryGrows, Reading, Writing
<1>8. ListIsComplete(c)'
  <2>1. req[c].tool # "list_dir"
    BY DEF OpsFitRequest, Reading, Writing
  <2> QED BY <1>4, <2>1 DEF ListIsComplete, HistoryGrows
<1>9. SearchIsComplete(c)'
  <2>0. found[c] \in Nat /\ found'[c] \in Nat /\ MaxMatches \in Nat
    BY DEF TypeOK
  <2> SUFFICES ASSUME req[c].tool = "grep", found'[c] < MaxMatches,
                      NEW p \in Path \ (Denied \cup uncovered'[c]), Missing \notin seen'[c][p],
                      \A v \in Content : ~(v \in seen'[c][p] /\ <<p, v>> \in hits'[c])
               PROVE  \E i \in DOMAIN todo'[c] : todo'[c][i].path = p
    BY DEF SearchIsComplete
  <2>1. todo[c][1].act = "read" /\ Op(c) = todo[c][1]
    BY <1>1, HeadIsOperation DEF OpsFitRequest, Op
  <2>2. pc[c] \in Reading
    BY <2>1 DEF Progress, Writing
  <2>7. found[c] < MaxMatches /\ ~(found'[c] >= MaxMatches)
    BY <2>0
  <2>8. /\ p \notin uncovered[c] /\ p \notin Denied /\ Missing \notin seen[c][p]
        /\ \A v \in Content : ~(v \in seen[c][p] /\ <<p, v>> \in hits[c])
    BY DEF HistoryGrows
  <2>3. PICK i \in DOMAIN todo[c] : todo[c][i].path = p
    BY <2>2, <2>7, <2>8 DEF SearchIsComplete
  <2>4. i # 1
    BY <2>1, <2>3, <2>7, <2>8 DEF Accounted
  <2>5. i - 1 \in DOMAIN Tail(todo[c]) /\ Tail(todo[c])[i - 1] = todo[c][i]
    BY <1>1, <2>4, HeadIsOperation
  <2>6. i - 1 \in DOMAIN todo'[c] /\ todo'[c][i - 1].path = p
    BY <1>2, <2>3, <2>5
  <2> QED BY <2>6
<1> QED BY <1>5, <1>6, <1>7, <1>8, <1>9

LEMMA FailsKeeps ==
    ASSUME TypeOK, TypeOK', NEW c \in Client, ClientInv(c), Ends(c), Fails(c),
           req[c].tool = "read_file" =>
               Missing \in seen'[c][Op(c).path] \/ Op(c).path \in Denied \cup uncovered'[c]
    PROVE  ClientInv(c)'
<1>1. CASE req[c].tool = "grep"
  BY <1>1, DoneKeeps DEF Fails
<1>2. CASE req[c].tool # "grep"
  <2> USE DEF ClientInv, Ends
  <2>1. pc'[c] = "error" /\ todo'[c] = todo[c] /\ Op(c)' = Op(c)
    BY <1>2 DEF Fails, Goto, TypeOK, Op
  <2>2. Progress(c)' /\ OutIsMade(c)' /\ OpsFitRequest(c)'
    BY <1>2, <2>1 DEF Progress, OutIsMade, OpsFitRequest, Op, Reading, Writing
  <2>3. ViewIsSeen(c)' /\ LayerIsSeen(c)' /\ ErrorIsSeen(c)' /\ SearchIsComplete(c)'
    BY <1>2, <2>1 DEF ViewIsSeen, LayerIsSeen, ErrorIsSeen, SearchIsComplete, HistoryGrows, Reading, Writing
  <2>4. ListIsComplete(c)'
    BY <2>1 DEF ListIsComplete, HistoryGrows
  <2> QED BY <2>2, <2>3, <2>4
<1> QED BY <1>1, <1>2

-----------------------------------------------------------------------------
(* What a step of a request makes of its own part of the invariant. *)
LEMMA OwnKeeps ==
    ASSUME Inv, TypeOK', NEW c \in Client, Handle(c)
    PROVE  ClientInv(c)'
<1> USE DEF Inv, disk, history
<1>0. ASSUME UNCHANGED upper, UNCHANGED history PROVE HistoryGrows(c)
  BY <1>0 DEF HistoryGrows, ClientInv, ViewIsSeen, View
<1>a. ClientInv(c) /\ TypeOK
  OBVIOUS
<1>b. todo[c] # <<>> => /\ Op(c) \in Operation /\ Op(c).path \in Path
                        /\ Op(c).act = "add" => Op(c).arg \in Content
  BY <1>a, HeadIsOperation DEF Op, TypeOK
<1>c. pc[c] \in Reading \cup Writing => todo[c] # <<>>
  BY <1>a DEF ClientInv, Progress
<1>d. pc[c] \in Reading \cup Writing => Missing \in Value
  BY DEF Value
<1>1. ASSUME NEW r \in Requests, Call(c, r) PROVE ClientInv(c)'
  <2>1. r.ops \in Seq(Operation) /\ (r.ops # <<>> => Head(r.ops) = r.ops[1] /\ Head(r.ops).act \in Acts)
    BY HeadIsOperation
  <2>2. /\ req'[c] = r /\ todo'[c] = r.ops /\ names'[c] = {} /\ hits'[c] = {} /\ upper' = upper
        /\ temp'[c] = Missing
        /\ \A p \in Path : seen'[c][p] = {View(upper)[p]}
        /\ pc'[c] = IF r.tool \in {"list_dir", "grep"} THEN "listUpper"
                    ELSE IF r.ops = <<>> THEN "ok" ELSE FirstStep(r.ops[1])
    BY <1>1, <1>a DEF Call, Goto, TypeOK, ClientInv, OutIsMade
  <2>3. Progress(c)' /\ OutIsMade(c)' /\ OpsFitRequest(c)'
    BY <2>1, <2>2 DEF Progress, OutIsMade, OpsFitRequest, Op, FirstStep, Reading, Writing, Tools, Acts
  <2>4. ViewIsSeen(c)'
    BY <2>2 DEF ViewIsSeen, View
  <2>5. LayerIsSeen(c)' /\ HitsAreSeen(c)' /\ ErrorIsSeen(c)' /\ ListIsComplete(c)' /\ SearchIsComplete(c)'
    BY <2>2 DEF LayerIsSeen, HitsAreSeen, ErrorIsSeen, ListIsComplete, SearchIsComplete, FirstStep, Reading
  <2> QED BY <2>3, <2>4, <2>5 DEF ClientInv
<1>2. CASE Return(c)
  <2>1. /\ pc'[c] = "idle" /\ req'[c] = NoRequest /\ todo'[c] = <<>> /\ names'[c] = {} /\ hits'[c] = {}
        /\ temp'[c] = Missing
    BY <1>2, <1>a DEF Return, Goto, TypeOK, ClientInv, OutIsMade, Answers
  <2>2. OpsFitRequest(c)'
    BY <2>1 DEF OpsFitRequest, NoRequest
  <2> QED BY <2>1, <2>2 DEF ClientInv, Progress, OutIsMade, ViewIsSeen, LayerIsSeen, HitsAreSeen,
                      ErrorIsSeen, ListIsComplete, SearchIsComplete, NoRequest, Reading, Writing
<1>3. ASSUME pc[c] \in Reading \cup {"resolve"}, UNCHANGED <<req, names, temp, hits, found, upper, history>>,
             req[c].tool = "grep" =>
                 Op(c).path \in Denied \cup uncovered[c] \/ Missing \in seen[c][Op(c).path]
      PROVE  Ends(c)
  <2>1. temp[c] = Missing
    BY <1>3, <1>a DEF ClientInv, OutIsMade, Reading
  <2>2. HitsAreSeen(c)'
    BY <1>3, <1>a DEF ClientInv, HitsAreSeen
  <2> QED BY <1>3, <1>0, <1>a, <2>1, <2>2 DEF Ends, Accounted, Writing, TypeOK
<1>h. ASSUME UNCHANGED <<upper, history>> PROVE \A p \in Path : Sources(c, p)' = Sources(c, p)
  BY <1>h DEF Sources, View
(* A step that stays within the operation. *)
<1>4. ASSUME pc[c] \in Reading \cup Writing, UNCHANGED <<req, todo, names, hits, found, upper, history>>,
             pc'[c] \in Reading \cup Writing,
             pc'[c] \in Reading => pc[c] \in Reading,
             pc[c] \in Writing => pc'[c] \in Writing,
             pc'[c] \in Writing => Op(c).act # "read",
             pc'[c] = "remove" => Op(c).act = "delete",
             OutIsMade(c)', LayerIsSeen(c)'
      PROVE  ClientInv(c)'
  <2>1. Progress(c)'
    <3>1. Op(c).act \in {"read", "add", "edit", "update", "delete"}
      BY <1>4, <1>a DEF ClientInv, Progress
    <3>2. pc'[c] \in Reading => Op(c).act \in {"read", "edit", "update"}
      BY <1>4, <1>a DEF ClientInv, Progress
    <3> QED BY <1>4, <1>c, <3>1, <3>2 DEF Progress, Op, Reading, Writing
  <2>2. OpsFitRequest(c)' /\ ViewIsSeen(c)' /\ HitsAreSeen(c)' /\ ErrorIsSeen(c)'
    BY <1>4, <1>a DEF ClientInv, OpsFitRequest, ViewIsSeen, HitsAreSeen, ErrorIsSeen, Reading, Writing, View
  <2>3. ListIsComplete(c)'
    BY <1>4, <1>a DEF ClientInv, ListIsComplete, Reading, Writing
  <2>4. SearchIsComplete(c)'
    BY <1>4, <1>a DEF ClientInv, SearchIsComplete, Reading, Writing
  <2> QED BY <1>4, <2>1, <2>2, <2>3, <2>4 DEF ClientInv
<1>5. CASE ResolveRead(c)
  <2>1. CASE Refused(Op(c).path)
    <3>1. Ends(c) /\ Fails(c)
      BY <1>3, <1>5, <2>1 DEF ResolveRead, Refused, SameFiles, Reading
    <3> QED BY <1>a, <2>1, <3>1, FailsKeeps DEF Refused
  <2>2. CASE ~Refused(Op(c).path)
    <3>1. pc[c] = "resolveRead" /\ pc'[c] = "statUpper" /\ UNCHANGED <<req, todo, names, hits, upper, history, temp, found>>
      BY <1>5, <2>2, <1>a DEF ResolveRead, SameFiles, Goto, TypeOK
    <3> QED BY <1>4, <1>a, <3>1 DEF ClientInv, OutIsMade, LayerIsSeen, Reading, Writing
  <2> QED BY <2>1, <2>2
<1>6. CASE StatUpper(c)
  <2>1. /\ pc[c] = "statUpper" /\ UNCHANGED <<req, todo, names, hits, upper, history, temp, found>>
        /\ \/ upper[Op(c).path] # Missing /\ pc'[c] = "readFile" /\ at'[c] = "upper"
           \/ upper[Op(c).path] = Missing /\ pc'[c] = "statLower"
    BY <1>6, <1>a DEF StatUpper, Chosen, SameFiles, Goto, TypeOK
  <2>2. upper[Op(c).path] = Missing => Lower[Op(c).path] \in Sources(c, Op(c).path)
    BY <2>1, <1>a, <1>b, <1>c DEF ClientInv, ViewIsSeen, View, Sources, Reading
  <2>3. Op(c)' = Op(c) /\ Op(c).path \in Path
    BY <2>1, <1>b, <1>c DEF Op, Reading
  <2>4. LayerIsSeen(c)'
    BY <2>1, <2>2, <2>3, <1>h DEF LayerIsSeen
  <2> QED BY <1>4, <1>a, <2>1, <2>4 DEF ClientInv, OutIsMade, Reading, Writing
<1>7. CASE StatLower(c)
  <2>1. pc[c] = "statLower" /\ UNCHANGED <<req, names, hits, upper, history, temp, found>>
    BY <1>7 DEF StatLower, SameFiles
  <2>2. CASE Lower[Op(c).path] # Missing /\ Op(c).path \in Denied
    <3>1. Ends(c) /\ Fails(c)
      BY <1>3, <1>7, <2>1, <2>2 DEF StatLower, Reading
    <3> QED BY <1>a, <2>2, <3>1, FailsKeeps
  <2>3. CASE ~(Lower[Op(c).path] # Missing /\ Op(c).path \in Denied)
    <3>1. /\ pc'[c] = "readFile" /\ todo' = todo
          /\ at'[c] = IF Lower[Op(c).path] = Missing THEN "upper" ELSE "lower"
      BY <1>7, <2>3, <1>a DEF StatLower, Chosen, Goto, TypeOK
    <3>2. Op(c)' = Op(c) /\ Op(c).path \in Path
      BY <2>1, <3>1, <1>b, <1>c DEF Op, Reading
    <3>3. LayerIsSeen(c)'
      BY <2>1, <3>1, <3>2, <1>a, <1>h DEF ClientInv, LayerIsSeen
    <3> QED BY <1>4, <1>a, <2>1, <3>1, <3>3 DEF ClientInv, OutIsMade, Reading, Writing
  <2> QED BY <2>2, <2>3
<1>e. pc[c] = "readFile" /\ LayerContent(c) # Missing => LayerContent(c) \in Content
  BY <1>a, <1>b, <1>c DEF LayerContent, TypeOK, Value, Reading
<1>f. ASSUME pc[c] = "readFile", LayerContent(c) # Missing \/ Op(c).path \notin uncovered[c]
      PROVE  /\ LayerContent(c) \in Sources(c, Op(c).path)
             /\ LayerContent(c) \in seen[c][Op(c).path]
  <2>1. View(upper)[Op(c).path] \in seen[c][Op(c).path] /\ Op(c).path \in Path
    BY <1>f, <1>a, <1>b, <1>c DEF ClientInv, ViewIsSeen, Reading
  <2>2. View(upper)[Op(c).path] = IF upper[Op(c).path] # Missing THEN upper[Op(c).path] ELSE Lower[Op(c).path]
    BY <2>1 DEF View
  <2>3. LayerContent(c) \in Sources(c, Op(c).path)
    BY <1>f, <2>1, <2>2, <1>a DEF ClientInv, LayerIsSeen, LayerContent, Sources
  <2> QED BY <2>1, <2>3 DEF Sources
<1>8. CASE ReadMissing(c)
  <2>1. Missing \in seen[c][Op(c).path] \/ Op(c).path \in uncovered[c]
    BY <1>8, <1>f DEF ReadMissing
  <2>2. Ends(c) /\ Fails(c) /\ UNCHANGED history
    BY <1>3, <1>8, <2>1 DEF ReadMissing, SameFiles, Reading
  <2>3. Missing \in seen'[c][Op(c).path] \/ Op(c).path \in Denied \cup uncovered'[c]
    BY <2>1, <2>2
  <2> QED BY <1>a, <2>2, <2>3, FailsKeeps
<1>9. CASE ReadForAnswer(c)
  <2>1. /\ pc[c] = "readFile" /\ UNCHANGED <<req, names, upper, history, temp>>
        /\ hits'[c] = hits[c] \cup {<<Op(c).path, LayerContent(c)>>}
        /\ LayerContent(c) # Missing /\ temp[c] = Missing
    BY <1>9, <1>a DEF ReadForAnswer, SameFiles, TypeOK, ClientInv, OutIsMade
  <2>2. HitsAreSeen(c)'
    BY <2>1, <1>f, <1>a DEF ClientInv, HitsAreSeen
  <2>3. LayerContent(c) \in Content /\ LayerContent(c) \in seen'[c][Op(c).path]
    BY <2>1, <1>e, <1>f
  <2>4. MatchingLines(LayerContent(c)) \in Nat /\ found[c] \in 0 .. MaxMatches /\ MaxMatches \in Nat \ {0}
    BY <2>3, <1>a DEF TypeOK
  <2>5. CASE OpDone(c)
    <3>1. found'[c] >= found[c]
      BY <1>9, <2>4, <1>a DEF ReadForAnswer, TypeOK
    <3>2. Ends(c)
      BY <2>1, <2>2, <2>3, <3>1, <1>0 DEF Ends, Accounted, Reading
    <3> QED BY <1>a, <2>5, <3>2, DoneKeeps
  <2>6. CASE ~OpDone(c)
    <3>1. pc'[c] = "ok" /\ todo'[c] = <<>> /\ found'[c] = MaxMatches /\ req[c].tool = "grep"
      BY <1>9, <2>6, <1>a DEF ReadForAnswer, Goto, TypeOK
    <3>2. Progress(c)' /\ OutIsMade(c)' /\ OpsFitRequest(c)' /\ ViewIsSeen(c)' /\ LayerIsSeen(c)'
      BY <2>1, <3>1, <1>a DEF ClientInv, Progress, OutIsMade, OpsFitRequest, ViewIsSeen, LayerIsSeen,
                              Reading, Writing, View
    <3>3. ErrorIsSeen(c)' /\ SearchIsComplete(c)'
      BY <2>1, <2>4, <3>1 DEF ErrorIsSeen, SearchIsComplete
    <3>4. ListIsComplete(c)'
      BY <2>1, <3>1, <1>a DEF ClientInv, ListIsComplete
    <3> QED BY <2>2, <3>2, <3>3, <3>4 DEF ClientInv
  <2> QED BY <2>5, <2>6

<1>10. CASE ReadForUpdate(c)
  <2>1. /\ pc[c] = "readFile" /\ UNCHANGED <<req, names, hits, upper, history, temp, found>>
        /\ Op(c).act \in {"edit", "update"} /\ LayerContent(c) \in Content
    BY <1>10, <1>a, <1>e DEF ReadForUpdate, SameFiles, ClientInv, Progress, Reading
  <2>2. Revise(LayerContent(c), Op(c)) \in Content \cup {Unmatched, Panics}
    BY <2>1, <1>b, <1>c DEF Reading
  <2>3. todo[c][1].act # "read" /\ 1 \in DOMAIN todo[c]
    BY <2>1, <1>a, <1>c, HeadIsOperation DEF Op, TypeOK, Reading
  <2>4. req[c].tool \notin {"read_file", "grep", "list_dir"}
    BY <2>1, <2>3, <1>a DEF ClientInv, OpsFitRequest
  <2>5. CASE Revise(LayerContent(c), Op(c)) = Unmatched
    <3>1. Ends(c) /\ Fails(c)
      BY <1>3, <1>10, <2>1, <2>4, <2>5 DEF ReadForUpdate, Reading
    <3> QED BY <1>a, <2>4, <3>1, FailsKeeps
  <2>6. CASE Revise(LayerContent(c), Op(c)) = Panics
    <3>1. pc'[c] = "dropped" /\ todo' = todo
      BY <1>10, <2>6, <1>a DEF ReadForUpdate, Goto, TypeOK
    <3>2. Progress(c)' /\ OutIsMade(c)' /\ OpsFitRequest(c)' /\ ViewIsSeen(c)' /\ LayerIsSeen(c)'
      BY <2>1, <2>4, <3>1, <1>a DEF ClientInv, Progress, OutIsMade, OpsFitRequest, ViewIsSeen, LayerIsSeen, Reading, Writing, View
    <3>3. HitsAreSeen(c)' /\ ErrorIsSeen(c)' /\ ListIsComplete(c)' /\ SearchIsComplete(c)'
      BY <2>1, <2>4, <3>1, <1>a DEF ClientInv, HitsAreSeen, ErrorIsSeen, ListIsComplete, SearchIsComplete, Reading
    <3> QED BY <3>2, <3>3 DEF ClientInv
  <2>7. CASE Revise(LayerContent(c), Op(c)) \in Content
    <3>1. pc'[c] = "resolve" /\ todo' = todo /\ out'[c] = Revise(LayerContent(c), Op(c))
      BY <1>10, <2>7, <1>a DEF ReadForUpdate, Goto, TypeOK
    <3>2. Op(c)' = Op(c) /\ Op(c).path \in Path
      BY <2>1, <3>1, <1>b, <1>c DEF Op, Reading
    <3>3. LayerContent(c) \in Sources(c, Op(c).path)' /\ LayerContent(c) # Missing
      BY <2>1, <3>2, <1>f, <1>h, <1>10 DEF ReadForUpdate
    <3>4. out'[c] = Effect(Op(c), LayerContent(c))
      BY <2>1, <3>1 DEF Effect
    <3>5. OutIsMade(c)'
      BY <2>1, <2>7, <3>1, <3>2, <3>3, <3>4, <1>a DEF ClientInv, OutIsMade, Made, MadeOf
    <3>6. LayerIsSeen(c)'
      BY <3>1 DEF LayerIsSeen
    <3> QED BY <1>4, <2>1, <3>1, <3>5, <3>6 DEF Reading, Writing
  <2> QED BY <2>2, <2>5, <2>6, <2>7
(* A step that writes belongs to a tool that writes. *)
<1>g. pc[c] \in Writing => req[c].tool \notin {"read_file", "grep", "list_dir"}
  <2> SUFFICES ASSUME pc[c] \in Writing PROVE req[c].tool \notin {"read_file", "grep", "list_dir"}
    OBVIOUS
  <2>1. todo[c][1].act # "read" /\ 1 \in DOMAIN todo[c]
    BY <1>a, <1>c, HeadIsOperation DEF Op, TypeOK, ClientInv, Progress
  <2> QED BY <2>1, <1>a DEF ClientInv, OpsFitRequest, Writing
<1>11. CASE Resolve(c)
  <2>1. pc[c] = "resolve" /\ UNCHANGED <<req, names, hits, upper, history, temp, found>>
    BY <1>11 DEF Resolve, SameFiles
  <2>2. CASE Refused(Op(c).path)
    <3>1. Ends(c) /\ Fails(c)
      BY <1>3, <1>11, <2>1, <2>2, <1>g DEF Resolve, Writing
    <3> QED BY <1>a, <1>g, <2>1, <3>1, FailsKeeps DEF Writing
  <2>3. CASE ~Refused(Op(c).path)
    <3>1. /\ pc'[c] = (IF Op(c).act = "delete" THEN "remove" ELSE "writeTemp") /\ todo' = todo
          /\ out'[c] = IF Op(c).act = "add" THEN Op(c).arg ELSE out[c]
      BY <1>11, <2>3, <1>a DEF Resolve, Goto, TypeOK
    <3>2. Op(c).act \in {"add", "edit", "update", "delete"}
      BY <2>1, <1>a DEF ClientInv, Progress, Writing
    <3>3. LayerIsSeen(c)'
      BY <3>1 DEF LayerIsSeen
    <3>4. Op(c)' = Op(c) /\ Op(c).path \in Path /\ (Op(c).act = "add" => Op(c).arg \in Content)
      BY <2>1, <3>1, <1>b, <1>c DEF Op, Writing
    <3>5. Op(c).act # "delete" => Made(c, out[c])'
      <4>1. CASE Op(c).act \in {"edit", "update"}
        <5>1. Made(c, out[c]) /\ out'[c] = out[c]
          BY <2>1, <3>1, <4>1, <1>a DEF ClientInv, OutIsMade
        <5> QED BY <2>1, <3>4, <5>1, <1>h DEF Made, MadeOf, Effect
      <4>2. CASE Op(c).act = "add"
        <5>1. View(upper)[Op(c).path] \in Sources(c, Op(c).path)
          BY <2>1, <3>4, <1>a DEF ClientInv, ViewIsSeen, Sources
        <5>2. View(upper)[Op(c).path] \in Sources(c, Op(c).path)'
          BY <2>1, <3>4, <5>1, <1>h
        <5> QED BY <2>1, <3>1, <3>4, <4>2, <5>2 DEF Made, MadeOf, Effect
      <4> QED BY <3>2, <4>1, <4>2
    <3>6. OutIsMade(c)'
      BY <2>1, <3>1, <3>5, <1>a DEF ClientInv, OutIsMade
    <3> QED BY <1>4, <2>1, <3>1, <3>2, <3>3, <3>6 DEF Reading, Writing
  <2> QED BY <2>2, <2>3
<1>12. CASE WriteTemp(c) \/ WriteFails(c)
  <2>1. /\ pc[c] \in {"writeTemp", "rename"} /\ pc'[c] \in {"rename", "discard"} /\ temp'[c] = out[c]
        /\ pc'[c] = "rename" => pc[c] = "writeTemp"
        /\ UNCHANGED <<req, todo, names, hits, found, upper, history, at>>
    BY <1>12, <1>a DEF WriteTemp, WriteFails, Goto, TypeOK
  <2>2. LayerIsSeen(c)' /\ Op(c).act # "read"
    BY <2>1, <1>a DEF LayerIsSeen, ClientInv, Progress, Writing
  <2>3. Op(c)' = Op(c) /\ Op(c).path \in Path
    BY <2>1, <1>b, <1>c DEF Op, Writing
  <2>4. pc'[c] = "rename" => Made(c, temp[c])'
    <3>1. pc'[c] = "rename" => Made(c, out[c])
      BY <2>1, <1>a DEF ClientInv, OutIsMade
    <3> QED BY <2>1, <2>3, <3>1, <1>h DEF Made, MadeOf, Effect
  <2>5. OutIsMade(c)'
    BY <2>1, <2>4 DEF OutIsMade
  <2> QED BY <1>4, <2>1, <2>2, <2>5 DEF Reading, Writing
<1>13. CASE NothingWritten(c) \/ Discard(c)
  <2>1. /\ pc[c] \in Writing /\ temp'[c] = Missing /\ Fails(c)
        /\ UNCHANGED <<req, names, hits, found, upper, history>>
    BY <1>13, <1>a DEF NothingWritten, Discard, TypeOK, Writing, ClientInv, OutIsMade
  <2>2. HitsAreSeen(c)'
    BY <2>1, <1>a DEF ClientInv, HitsAreSeen
  <2>3. Ends(c)
    BY <2>1, <2>2, <1>0, <1>g, <1>a DEF Ends, TypeOK
  <2> QED BY <1>a, <1>g, <2>1, <2>3, FailsKeeps
<1>14. ASSUME pc[c] \in Writing, temp'[c] = Missing, OpDone(c), UNCHANGED <<req, names, hits, found>>,
              upper' \in [Path -> Value], Witness(c, upper')
       PROVE  ClientInv(c)'
  <2>1. HistoryGrows(c)
    BY <1>14, <1>a, WitnessGrows
  <2>2. HitsAreSeen(c)'
    BY <1>14, <2>1, <1>a DEF ClientInv, HitsAreSeen, HistoryGrows
  <2>3. Ends(c)
    BY <1>14, <2>1, <2>2, <1>g, <1>a DEF Ends, TypeOK
  <2> QED BY <1>14, <1>a, <2>3, DoneKeeps
<1>15. CASE Rename(c)
  <2>1. temp'[c] = Missing /\ upper' \in [Path -> Value] /\ pc[c] \in Writing
    BY <1>15, <1>a DEF Rename, TypeOK, Writing
  <2> QED BY <1>14, <1>15, <2>1 DEF Rename
<1>16. CASE Remove(c)
  <2>1. temp'[c] = Missing /\ upper' \in [Path -> Value] /\ pc[c] \in Writing
    BY <1>16, <1>a DEF Remove, TypeOK, Writing, ClientInv, OutIsMade, Value
  <2> QED BY <1>14, <1>16, <2>1 DEF Remove
<1>17. CASE ListUpper(c)
  <2>1. /\ pc[c] = "listUpper" /\ pc'[c] = "listLower" /\ todo[c] = <<>>
        /\ names'[c] = {p \in Path : upper[p] # Missing}
        /\ UNCHANGED <<req, todo, hits, upper, history, temp, found>>
        /\ \A p \in Path : View(upper)[p] \in seen[c][p]
    BY <1>17, <1>a DEF ListUpper, Goto, TypeOK, SameFiles, ClientInv, Progress, ViewIsSeen
  <2>2. Progress(c)' /\ OutIsMade(c)' /\ OpsFitRequest(c)' /\ ViewIsSeen(c)' /\ LayerIsSeen(c)'
    BY <2>1, <1>a DEF ClientInv, Progress, OutIsMade, OpsFitRequest, ViewIsSeen, LayerIsSeen, Reading, Writing, View
  <2>3. HitsAreSeen(c)' /\ ErrorIsSeen(c)' /\ SearchIsComplete(c)'
    BY <2>1, <1>a DEF ClientInv, HitsAreSeen, ErrorIsSeen, SearchIsComplete, Reading
  <2>4. ListIsComplete(c)'
    BY <2>1 DEF ListIsComplete, View, InLower
  <2> QED BY <2>2, <2>3, <2>4 DEF ClientInv
<1>18. CASE ListLower(c)
  <2>1. PICK above \in Orders(names[c]), below \in Orders(InLower \ names[c]) : Search(c, above, below)
    BY <1>18 DEF ListLower
  <2>2. /\ pc[c] = "listLower" /\ todo[c] = <<>> /\ names'[c] = names[c] \cup InLower
        /\ UNCHANGED <<req, hits, upper, history, temp, at, found>>
        /\ \A p \in Path : View(upper)[p] \in seen[c][p]
        /\ req[c].tool \in {"list_dir", "grep"}
    BY <1>18, <1>a DEF ListLower, TypeOK, SameFiles, ClientInv, Progress, ViewIsSeen, OpsFitRequest
  <2>3. /\ above \in Seq(Path) /\ below \in Seq(Path)
        /\ {above[i] : i \in DOMAIN above} = names[c] /\ {below[i] : i \in DOMAIN below} = InLower \ names[c]
    <3>1. names[c] \in SUBSET Path /\ InLower \ names[c] \in SUBSET Path
      BY <1>a DEF TypeOK, InLower
    <3>2. above \in Orders(names[c]) /\ below \in Orders(InLower \ names[c])
      BY <2>1
    <3>3. above \in Seq(Path) /\ {above[i] : i \in DOMAIN above} = names[c]
      BY <3>1, <3>2, OrdersAreSequences
    <3>4. below \in Seq(Path) /\ {below[i] : i \in DOMAIN below} = InLower \ names[c]
      BY <3>1, <3>2, OrdersAreSequences
    <3> QED BY <3>3, <3>4
  <2>4. \A p \in names[c] \cup InLower : \E i \in DOMAIN (above \o below) : (above \o below)[i] = p
    <3> SUFFICES ASSUME NEW p \in names[c] \cup InLower
                 PROVE  \E i \in DOMAIN (above \o below) : (above \o below)[i] = p
      OBVIOUS
    <3>1. DOMAIN (above \o below) = 1 .. Len(above) + Len(below)
      BY <2>3, ConcatProperties, LenProperties
    <3>2. CASE p \in names[c]
      <4>1. PICK i \in DOMAIN above : above[i] = p
        BY <2>3, <3>2
      <4>2. i \in DOMAIN (above \o below) /\ (above \o below)[i] = p
        BY <2>3, <3>1, <4>1, ConcatProperties, LenProperties
      <4> QED BY <4>2
    <3>3. CASE p \notin names[c]
      <4>1. PICK i \in DOMAIN below : below[i] = p
        BY <2>3, <3>3
      <4>2. Len(above) + i \in DOMAIN (above \o below) /\ (above \o below)[Len(above) + i] = p
        BY <2>3, <3>1, <4>1, ConcatProperties, LenProperties
      <4> QED BY <4>2
    <3> QED BY <3>2, <3>3
  <2>5. above \o below \in Seq(Path)
    BY <2>3, ConcatProperties
  <2>6. \A p \in Path : p \in names'[c] => \E v \in seen'[c][p] : v # Missing
    BY <2>2, <1>a DEF ClientInv, ListIsComplete, InLower, View
  <2>7. \A p \in Path : Missing \notin seen[c][p] => p \in names[c] \cup InLower
    BY <2>2, <1>a DEF ClientInv, ListIsComplete
  <2>8. CASE req[c].tool = "grep" /\ above \o below # <<>>
    <3>1. todo'[c] = ReadOps(above \o below) /\ pc'[c] = "resolveRead"
      BY <2>1, <2>8, <1>a DEF Search, Goto, TypeOK
    <3>2. /\ todo'[c] \in Seq(Operation) /\ todo'[c] # <<>>
          /\ \A i \in DOMAIN todo'[c] : todo'[c][i].act = "read"
          /\ \A p \in names[c] \cup InLower : \E i \in DOMAIN todo'[c] : todo'[c][i].path = p
      <4> DEFINE files == above \o below
      <4>1. files \in Seq(Path) /\ files # <<>>
        BY <2>5, <2>8
      <4>2. /\ ReadOps(files) \in Seq(Operation) /\ ReadOps(files) # <<>>
            /\ DOMAIN ReadOps(files) = DOMAIN files
            /\ \A i \in DOMAIN files : ReadOps(files)[i].act = "read" /\ ReadOps(files)[i].path = files[i]
        BY <4>1, ReadOpsAreOperations
      <4>3. todo'[c] = ReadOps(files)
        BY <3>1
      <4>4. \A p \in names[c] \cup InLower : \E i \in DOMAIN files : files[i] = p
        BY <2>4
      <4> HIDE DEF files
      <4> QED BY <4>2, <4>3, <4>4
    <3>3. Head(todo'[c]).act = "read"
      BY <3>2, HeadIsOperation
    <3>4. Progress(c)' /\ OutIsMade(c)' /\ OpsFitRequest(c)'
      BY <2>2, <2>8, <3>1, <3>2, <3>3, <1>a DEF ClientInv, Progress, OutIsMade, OpsFitRequest, Op, Reading, Writing
    <3>5. ViewIsSeen(c)' /\ LayerIsSeen(c)' /\ HitsAreSeen(c)' /\ ErrorIsSeen(c)' /\ ListIsComplete(c)'
      BY <2>2, <2>6, <3>1, <1>a DEF ClientInv, ViewIsSeen, LayerIsSeen, HitsAreSeen, ErrorIsSeen, ListIsComplete, View
    <3>6. SearchIsComplete(c)'
      BY <2>2, <2>7, <3>2 DEF SearchIsComplete
    <3> QED BY <3>4, <3>5, <3>6 DEF ClientInv
  <2>9. CASE ~(req[c].tool = "grep" /\ above \o below # <<>>)
    <3>1. todo'[c] = <<>> /\ pc'[c] = "ok"
      BY <2>1, <2>2, <2>9, <1>a DEF Search, Goto, TypeOK
    <3>2. Progress(c)' /\ OutIsMade(c)' /\ OpsFitRequest(c)'
      BY <2>2, <3>1, <1>a DEF ClientInv, Progress, OutIsMade, OpsFitRequest, Op, Reading, Writing
    <3>3. ViewIsSeen(c)' /\ LayerIsSeen(c)' /\ HitsAreSeen(c)' /\ ErrorIsSeen(c)'
      BY <2>2, <3>1, <1>a DEF ClientInv, ViewIsSeen, LayerIsSeen, HitsAreSeen, ErrorIsSeen, View
    <3>4. ListIsComplete(c)'
      BY <2>2, <2>6, <2>7, <3>1 DEF ListIsComplete
    <3>5. SearchIsComplete(c)'
      <4>1. req[c].tool = "grep" => names[c] \cup InLower = {}
        BY <2>4, <2>9
      <4> QED BY <2>2, <2>7, <4>1 DEF SearchIsComplete
    <3> QED BY <3>2, <3>3, <3>4, <3>5 DEF ClientInv
  <2> QED BY <2>8, <2>9
<1> QED BY <1>1, <1>2, <1>5, <1>6, <1>7, <1>8, <1>9, <1>10, <1>11, <1>12, <1>13, <1>15, <1>16, <1>17, <1>18 DEF Handle

-----------------------------------------------------------------------------
LEMMA InitInv == Init => Inv
<1> SUFFICES ASSUME Init PROVE Inv
  OBVIOUS
<1>1. TypeOK
  <2>1. upper \in [Path -> Value] /\ temp \in [Client -> Value] /\ out \in [Client -> Value]
    BY DEF Init, Value
  <2>2. litter \in BOOLEAN /\ found \in [Client -> 0 .. MaxMatches]
    <3>1. MaxMatches \in Nat
      BY WorkspaceAssumption
    <3>2. 0 \in 0 .. MaxMatches
      BY <3>1
    <3> QED BY <3>2 DEF Init
  <2>6. req \in [Client -> Requests \cup {NoRequest}]
    BY DEF Init
  <2>3. /\ pc \in [Client -> Steps \cup Answers \cup {"idle"}]
        /\ at \in [Client -> {"upper", "lower"}]
    BY DEF Init
  <2>4. todo \in [Client -> Seq(Operation)]
    BY DEF Init
  <2>5. /\ names \in [Client -> SUBSET Path] /\ hits \in [Client -> SUBSET (Path \X Content)]
        /\ seen \in [Client -> [Path -> SUBSET Value]]
        /\ changed \in [Client -> SUBSET Path] /\ uncovered \in [Client -> SUBSET Path]
    BY DEF Init
  <2> QED BY <2>1, <2>2, <2>3, <2>4, <2>5, <2>6 DEF TypeOK
<1>2. ASSUME NEW c \in Client PROVE ClientInv(c)
  BY DEF Init, ClientInv, Progress, OutIsMade, OpsFitRequest, ViewIsSeen, LayerIsSeen, HitsAreSeen,
         ErrorIsSeen, ListIsComplete, SearchIsComplete, NoRequest, Reading, Writing
<1> QED BY <1>1, <1>2 DEF Init, Inv

LEMMA CrashKeeps ==
    ASSUME Inv, Crash
    PROVE  Inv'
<1> USE DEF Inv
<1>1. TypeOK'
  <2>1. <<>> \in Seq(Operation)
    OBVIOUS
  <2> QED BY <2>1 DEF Crash, TypeOK, Value
<1>2. ASSUME NEW c \in Client PROVE ClientInv(c)'
  BY DEF Crash, ClientInv, Progress, OutIsMade, OpsFitRequest, ViewIsSeen, LayerIsSeen, HitsAreSeen,
         ErrorIsSeen, ListIsComplete, SearchIsComplete, NoRequest, Reading, Writing
<1> QED BY <1>1, <1>2

LEMMA StepKeeps ==
    ASSUME Inv, [Next]_vars
    PROVE  Inv'
<1>1. CASE UNCHANGED vars
  <2>1. TypeOK'
    BY <1>1 DEF Inv, TypeOK, vars, disk, local, history
  <2>2. ASSUME NEW c \in Client PROVE ClientInv(c)'
    <3>1. ClientInv(c) /\ TypeOK
      BY DEF Inv
    <3>2. Untouched(c) /\ HistoryGrows(c) /\ ChangesShow(c)
      BY <1>1, <3>1 DEF vars, disk, local, history, Untouched, HistoryGrows, ChangesShow,
                        ClientInv, ViewIsSeen, View
    <3> QED BY <2>1, <3>1, <3>2, OthersKeep
  <2> QED BY <2>1, <2>2 DEF Inv
<1>2. ASSUME NEW d \in Client, Handle(d) PROVE Inv'
  <2>1. TypeOK'
    BY <1>2, TypeStep
  <2>2. ASSUME NEW c \in Client PROVE ClientInv(c)'
    <3>1. CASE c = d
      BY <1>2, <2>1, <3>1, OwnKeeps
    <3>2. CASE c # d
      <4>1. Untouched(c) /\ HistoryGrows(c) /\ (ChangesShow(c) \/ pc[c] = "idle")
        BY <1>2, <3>2, OwnStep
      <4>2. TypeOK /\ ClientInv(c)
        BY DEF Inv
      <4> QED BY <2>1, <4>1, <4>2, OthersKeep
    <3> QED BY <3>1, <3>2
  <2> QED BY <2>1, <2>2 DEF Inv
<1> QED BY <1>1, <1>2, CrashKeeps DEF Next

LEMMA InvGives ==
    ASSUME Inv
    PROVE  ReadTellsTheFile /\ GrepSearchesEveryFile /\ ListShowsTheFiles /\ TempsAreInFlight
<1> USE DEF Inv, ClientInv
<1>1. ReadTellsTheFile
  <2>1. ASSUME NEW c \in Client, NEW hit \in hits[c] PROVE hit[2] \in seen[c][hit[1]]
    <3>1. PICK p \in Path, v \in Content : hit = <<p, v>>
      BY DEF TypeOK
    <3> QED BY <3>1 DEF HitsAreSeen
  <2> QED BY <2>1 DEF ReadTellsTheFile, ErrorIsSeen
<1>2. GrepSearchesEveryFile
  BY DEF GrepSearchesEveryFile, SearchIsComplete, Progress
<1>3. ListShowsTheFiles
  BY DEF ListShowsTheFiles, ListIsComplete
<1>4. TempsAreInFlight
  BY DEF TempsAreInFlight, OutIsMade
<1> QED BY <1>1, <1>2, <1>3, <1>4

(* The invariant, for any number of requests served at the same time. *)
THEOREM InvHolds == Spec => []Inv
<1>1. Init => Inv
  BY InitInv
<1>2. Inv /\ [Next]_vars => Inv'
  BY StepKeeps
<1> QED BY <1>1, <1>2, PTL DEF Spec

(* Whatever the other requests write meanwhile, read_file answers with what   *)
(* the merged view showed during its call, unless the upper copy of a file    *)
(* that both layers have is deleted meanwhile: it may then answer an error.   *)
THEOREM ReadsAreRegular == Spec => []ReadTellsTheFile
<1>1. Inv => ReadTellsTheFile
  BY InvGives
<1> QED BY <1>1, InvHolds, PTL

(* And grep, as long as it has not its 200 matches, passes over no file that  *)
(* stays during its call, except one whose upper copy is deleted meanwhile.   *)
THEOREM SearchesAreComplete == Spec => []GrepSearchesEveryFile
<1>1. Inv => GrepSearchesEveryFile
  BY InvGives
<1> QED BY <1>1, InvHolds, PTL

(* And a listing shows the files that stay, and none that is never there. *)
THEOREM ListingsAreComplete == Spec => []ListShowsTheFiles
<1>1. Inv => ListShowsTheFiles
  BY InvGives
<1> QED BY <1>1, InvHolds, PTL

(* And what a request writes is made of what the merged view showed during    *)
(* its call, and of what it shows just before the write if no other request   *)
(* has changed the file meanwhile.                                            *)
THEOREM WritesAreOfWhatWasShown == Spec => WritesFollowTheView
<1>1. ASSUME Inv, NEW c \in Client, Rename(c)
      PROVE  MadeOf(c, Op(c), upper'[Op(c).path])
  <2>1. Made(c, temp[c]) /\ TypeOK
    BY <1>1 DEF Inv, ClientInv, OutIsMade, Rename
  <2>2. todo[c] # <<>>
    BY <1>1 DEF Inv, ClientInv, Progress, Writing, Rename
  <2>3. Op(c).path \in Path
    BY <2>1, <2>2, HeadIsOperation DEF Op, TypeOK
  <2>4. upper'[Op(c).path] = temp[c]
    BY <1>1, <2>1, <2>3 DEF Rename, TypeOK
  <2> QED BY <2>1, <2>4 DEF Made
<1>2. Inv /\ [Next]_vars => [\A c \in Client : Rename(c) => MadeOf(c, Op(c), upper'[Op(c).path])]_vars
  BY <1>1
<1> QED BY <1>2, InvHolds, PTL DEF Spec, WritesFollowTheView

(* The variables keep their types. *)
THEOREM TypeCorrect == Spec => []TypeOK
<1>1. Inv => TypeOK
  BY DEF Inv
<1> QED BY <1>1, InvHolds, PTL

(* And no temporary file but those about to be renamed or removed. *)
THEOREM TempsAreAccountedFor == Spec => []TempsAreInFlight
<1>1. Inv => TempsAreInFlight
  BY InvGives
<1> QED BY <1>1, InvHolds, PTL
=============================================================================
