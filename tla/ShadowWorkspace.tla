-------------------------- MODULE ShadowWorkspace --------------------------
(* The two-layer workspace of claw-fs (internal/workspace) and its tools      *)
(* (cmd/claw-fs/main.go), served concurrently by one goroutine per request.   *)
(*                                                                            *)
(* The upper layer is the writable volume, the lower one the user's project,  *)
(* mounted read-only.  Every system call that looks at or changes a file is a *)
(* step of its own; nothing in the code locks between them.                   *)
(*                                                                            *)
(* Files are in one directory.  An operation of a request is                  *)
(* [act, path, arg], act one of "read", "add", "edit", "update", "delete";    *)
(* what edit_file and an update make of a content is the operator Revise,     *)
(* which the modules FuzzyMatch and PatchHunks define.                        *)
EXTENDS Sequences, Integers, FiniteSets

CONSTANTS
    Client,       \* the requests served at the same time
    Path,         \* the files a request may name
    Denied,       \* the paths whose base name is blacklisted
    Content,      \* what a file may contain
    Missing,      \* no file
    Lower,        \* the lower layer: path -> content or Missing
    Revise(_, _), \* content, operation -> content, Unmatched or Panics
    Unmatched, Panics,
    Requests,     \* records [tool, ops]
    MatchingLines(_), \* content -> how many of its lines grep's pattern matches
    MaxMatches    \* the matches after which grep reads no more (200)

Tools == {"read_file", "write_file", "edit_file", "apply_patch", "list_dir", "grep"}
Acts  == {"read", "add", "edit", "update", "delete"}
Value == Content \cup {Missing}

ReadOp == [act : {"read"}, path : Path, arg : {Missing}]
Operation == (UNION {{r.ops[i] : i \in DOMAIN r.ops} : r \in Requests}) \cup ReadOp

ASSUME WorkspaceAssumption ==
    /\ IsFiniteSet(Path)
    /\ Missing \notin Content /\ Unmatched \notin Content /\ Panics \notin Content
    /\ Unmatched # Panics
    /\ Lower \in [Path -> Value]
    /\ MaxMatches \in Nat \ {0}
    /\ \A v \in Content : MatchingLines(v) \in Nat
    /\ \A r \in Requests :
         /\ r.tool \in Tools
         /\ r.ops \in Seq(Operation)
         /\ r.tool \in {"list_dir", "grep"} => r.ops = <<>>
         /\ r.tool = "read_file" => \A i \in DOMAIN r.ops : r.ops[i].act = "read"
    /\ \A op \in Operation :
         /\ op.act \in Acts
         /\ op.path \in Path
         /\ op.act = "add" => op.arg \in Content
         /\ op.act \in {"edit", "update"} =>
              \A v \in Content : Revise(v, op) \in Content \cup {Unmatched, Panics}

VARIABLES
    upper,        \* the upper layer
    temp,         \* client -> the temporary file of its AtomicWrite, or Missing
    litter,       \* a temporary file is left that no request will remove
    req,          \* client -> its request
    pc,           \* client -> the next step of its handler, or its answer
    todo,         \* client -> the operations left, the current one first
    at,           \* client -> the layer ResolveRead chose
    out,          \* client -> the content to write
    names,        \* client -> the paths a directory listing found
    hits,         \* client -> pairs <<path, content>> read for the answer
    found,        \* client -> grep's matchCount
    (* Histories of a request, from its arrival to its answer:                *)
    seen,         \* client -> path -> what the merged view has shown for it
    changed,      \* client -> the paths another request has changed
    uncovered     \* client -> the paths both layers had until another request
                  \* deleted the upper copy

local   == <<req, pc, todo, at, out, names, hits, found>>
history == <<seen, changed, uncovered>>
disk    == <<upper, temp, litter>>
vars    == <<disk, local, history>>

View(u) == [p \in Path |-> IF u[p] # Missing THEN u[p] ELSE Lower[p]]

Answers == {"ok", "error", "dropped"}
Steps   == {"resolveRead", "statUpper", "statLower", "readFile", "resolve",
            "writeTemp", "rename", "discard", "remove", "listUpper", "listLower"}

NoRequest == [tool |-> "none", ops |-> <<>>]

Init ==
    /\ upper = [p \in Path |-> Missing]
    /\ temp = [c \in Client |-> Missing]
    /\ litter = FALSE
    /\ req = [c \in Client |-> NoRequest]
    /\ pc = [c \in Client |-> "idle"]
    /\ todo = [c \in Client |-> <<>>]
    /\ at = [c \in Client |-> "upper"]
    /\ out = [c \in Client |-> Missing]
    /\ names = [c \in Client |-> {}]
    /\ hits = [c \in Client |-> {}]
    /\ found = [c \in Client |-> 0]
    /\ seen = [c \in Client |-> [p \in Path |-> {}]]
    /\ changed = [c \in Client |-> {}]
    /\ uncovered = [c \in Client |-> {}]

-----------------------------------------------------------------------------
Op(c) == Head(todo[c])

FirstStep(op) == IF op.act \in {"add", "delete"} THEN "resolve" ELSE "resolveRead"

Goto(c, step) == pc' = [pc EXCEPT ![c] = step]

(* Client c makes u of the upper layer: what the requests in progress have    *)
(* met since they came in.                                                    *)
Witness(c, u) ==
    /\ seen' = [d \in Client |-> [p \in Path |->
                  IF pc[d] = "idle" THEN seen[d][p] ELSE seen[d][p] \cup {View(u)[p]}]]
    /\ changed' = [d \in Client |->
                     IF d = c \/ pc[d] = "idle" THEN changed[d]
                     ELSE changed[d] \cup {p \in Path : View(u)[p] # View(upper)[p]}]
    /\ uncovered' = [d \in Client |->
                       IF d = c \/ pc[d] = "idle" THEN uncovered[d]
                       ELSE uncovered[d] \cup
                              {p \in Path : upper[p] # Missing /\ u[p] = Missing
                                            /\ Lower[p] # Missing}]

SameFiles == UNCHANGED <<disk, history>>

(* The current operation is done: on to the next, or to the answer. *)
OpDone(c) ==
    /\ todo' = [todo EXCEPT ![c] = Tail(@)]
    /\ Goto(c, IF Tail(todo[c]) = <<>> THEN "ok" ELSE FirstStep(Head(Tail(todo[c]))))

(* A slip: a file that cannot be read ends the walk. *)
FailsEndingWalk(c) == Goto(c, IF req[c].tool = "grep" THEN "ok" ELSE "error") /\ UNCHANGED todo

(* An error ends the request, except that grep skips the file. *)
Fails(c) ==
    IF req[c].tool = "grep" THEN OpDone(c)
    ELSE Goto(c, "error") /\ UNCHANGED todo

Call(c, r) ==
    /\ pc[c] = "idle"
    /\ req' = [req EXCEPT ![c] = r]
    /\ todo' = [todo EXCEPT ![c] = r.ops]
    /\ Goto(c, IF r.tool \in {"list_dir", "grep"} THEN "listUpper"
               ELSE IF r.ops = <<>> THEN "ok"
               ELSE FirstStep(r.ops[1]))
    /\ names' = [names EXCEPT ![c] = {}]
    /\ hits' = [hits EXCEPT ![c] = {}]
    /\ found' = [found EXCEPT ![c] = 0]
    /\ seen' = [seen EXCEPT ![c] = [p \in Path |-> {View(upper)[p]}]]
    /\ UNCHANGED <<disk, at, out, changed, uncovered>>

Return(c) ==
    /\ pc[c] \in Answers
    /\ Goto(c, "idle")
    /\ seen' = [seen EXCEPT ![c] = [p \in Path |-> {}]]
    /\ changed' = [changed EXCEPT ![c] = {}]
    /\ uncovered' = [uncovered EXCEPT ![c] = {}]
    /\ req' = [req EXCEPT ![c] = NoRequest]
    /\ todo' = [todo EXCEPT ![c] = <<>>]
    /\ at' = [at EXCEPT ![c] = "upper"]
    /\ out' = [out EXCEPT ![c] = Missing]
    /\ names' = [names EXCEPT ![c] = {}]
    /\ hits' = [hits EXCEPT ![c] = {}]
    /\ found' = [found EXCEPT ![c] = 0]
    /\ UNCHANGED disk

-----------------------------------------------------------------------------
(* resolveIn on the upper layer refuses a blacklisted file that exists. *)
Refused(p) == p \in Denied /\ upper[p] # Missing

ResolveRead(c) ==
    /\ pc[c] = "resolveRead"
    /\ IF Refused(Op(c).path)
       THEN Fails(c)
       ELSE Goto(c, "statUpper") /\ UNCHANGED todo
    /\ SameFiles /\ UNCHANGED <<req, at, out, names, hits, found>>

Chosen(c, layer) ==
    /\ at' = [at EXCEPT ![c] = layer]
    /\ Goto(c, "readFile")
    /\ UNCHANGED todo

StatUpper(c) ==
    /\ pc[c] = "statUpper"
    /\ IF upper[Op(c).path] # Missing
       THEN Chosen(c, "upper")
       ELSE Goto(c, "statLower") /\ UNCHANGED <<at, todo>>
    /\ SameFiles /\ UNCHANGED <<req, out, names, hits, found>>

StatLower(c) ==
    /\ pc[c] = "statLower"
    /\ IF Lower[Op(c).path] = Missing THEN Chosen(c, "upper")
       ELSE IF Op(c).path \in Denied THEN Fails(c) /\ UNCHANGED at
       ELSE Chosen(c, "lower")
    /\ SameFiles /\ UNCHANGED <<req, out, names, hits, found>>

(* A slip: the lower layer wins. *)
LayerContentLower(c) ==
    IF Lower[Op(c).path] # Missing THEN Lower[Op(c).path] ELSE upper[Op(c).path]

LayerContent(c) == IF at[c] = "upper" THEN upper[Op(c).path] ELSE Lower[Op(c).path]

(* os.ReadFile of the path ResolveRead returned. *)
ReadMissing(c) ==
    /\ pc[c] = "readFile" /\ LayerContent(c) = Missing
    /\ Fails(c)
    /\ SameFiles /\ UNCHANGED <<req, at, out, names, hits, found>>

(* read_file is done; grep goes on, unless it has matches enough: the walk    *)
(* then reads nothing more.                                                   *)
ReadForAnswer(c) ==
    LET matches == found[c] + MatchingLines(LayerContent(c)) IN
    /\ pc[c] = "readFile" /\ LayerContent(c) # Missing /\ Op(c).act = "read"
    /\ hits' = [hits EXCEPT ![c] = @ \cup {<<Op(c).path, LayerContent(c)>>}]
    /\ IF req[c].tool = "grep" /\ matches >= MaxMatches
       THEN /\ found' = [found EXCEPT ![c] = MaxMatches]
            /\ Goto(c, "ok") /\ todo' = [todo EXCEPT ![c] = <<>>]
       ELSE /\ found' = IF req[c].tool = "grep" THEN [found EXCEPT ![c] = matches] ELSE found
            /\ OpDone(c)
    /\ SameFiles /\ UNCHANGED <<req, at, out, names>>

ReadForUpdate(c) ==
    /\ pc[c] = "readFile" /\ LayerContent(c) # Missing /\ Op(c).act # "read"
    /\ LET result == Revise(LayerContent(c), Op(c))
       IN  IF result = Unmatched
           THEN Fails(c) /\ UNCHANGED out
           ELSE /\ IF result = Panics
                   THEN Goto(c, "dropped") /\ UNCHANGED out
                   ELSE Goto(c, "resolve") /\ out' = [out EXCEPT ![c] = result]
                /\ UNCHANGED todo
    /\ SameFiles /\ UNCHANGED <<req, at, names, hits, found>>

-----------------------------------------------------------------------------
Resolve(c) ==
    /\ pc[c] = "resolve"
    /\ out' = IF Op(c).act = "add" THEN [out EXCEPT ![c] = Op(c).arg] ELSE out
    /\ IF Refused(Op(c).path)
       THEN Fails(c)
       ELSE Goto(c, IF Op(c).act = "delete" THEN "remove" ELSE "writeTemp") /\ UNCHANGED todo
    /\ SameFiles /\ UNCHANGED <<req, at, names, hits, found>>

(* AtomicWrite: the temporary file (MkdirAll, CreateTemp, Write, Chmod and    *)
(* Close), then the rename.                                                   *)
WriteTemp(c) ==
    /\ pc[c] = "writeTemp"
    /\ temp' = [temp EXCEPT ![c] = out[c]]
    /\ Goto(c, "rename")
    /\ UNCHANGED <<upper, litter, req, todo, at, out, names, hits, found, history>>

(* There is no temporary file yet, or no file to write at all. *)
NothingWritten(c) ==
    /\ pc[c] \in {"writeTemp", "remove"}
    /\ Fails(c)
    /\ UNCHANGED <<disk, req, at, out, names, hits, found, history>>

(* A slip: the error is answered with the temporary file still there. *)
WriteFailsLeaving(c) ==
    /\ pc[c] \in {"writeTemp", "rename"}
    /\ temp' = [temp EXCEPT ![c] = out[c]]
    /\ Fails(c)
    /\ UNCHANGED <<upper, litter, req, at, out, names, hits, found, history>>

(* Write, Chmod, Close or Rename fails: the temporary file is to be removed. *)
WriteFails(c) ==
    /\ pc[c] \in {"writeTemp", "rename"}
    /\ temp' = [temp EXCEPT ![c] = out[c]]
    /\ Goto(c, "discard")
    /\ UNCHANGED <<upper, litter, req, todo, at, out, names, hits, found, history>>

(* os.Remove, whose own failure nobody looks at. *)
Discard(c) ==
    /\ pc[c] = "discard"
    /\ temp' = [temp EXCEPT ![c] = Missing]
    /\ Fails(c)
    /\ litter' \in {litter, TRUE}
    /\ UNCHANGED <<upper, req, at, out, names, hits, found, history>>

Rename(c) ==
    /\ pc[c] = "rename"
    /\ upper' = [upper EXCEPT ![Op(c).path] = temp[c]]
    /\ temp' = [temp EXCEPT ![c] = Missing]
    /\ Witness(c, upper')
    /\ OpDone(c)
    /\ UNCHANGED <<litter, req, at, out, names, hits, found>>

(* os.Remove, a missing file being no error. *)
Remove(c) ==
    /\ pc[c] = "remove"
    /\ upper' = [upper EXCEPT ![Op(c).path] = Missing]
    /\ Witness(c, upper')
    /\ OpDone(c)
    /\ UNCHANGED <<temp, litter, req, at, out, names, hits, found>>

-----------------------------------------------------------------------------
(* list_dir (ListMerged, WalkMerged) and the walk of glob and grep.  The      *)
(* temporary files a walk of the upper layer also meets are told by litter    *)
(* and temp; grep reading one of them is left out.                            *)
ListUpper(c) ==
    /\ pc[c] = "listUpper"
    /\ names' = [names EXCEPT ![c] = {p \in Path : upper[p] # Missing}]
    /\ Goto(c, "listLower")
    /\ SameFiles /\ UNCHANGED <<req, todo, at, out, hits, found>>

InLower == {p \in Path : Lower[p] # Missing}

(* The orders a walk may visit files in: the names are abstract. *)
Orders(paths) ==
    {s \in [1 .. Cardinality(paths) -> paths] : {s[i] : i \in DOMAIN s} = paths}

ReadOps(paths) ==
    [i \in DOMAIN paths |-> [act |-> "read", path |-> paths[i], arg |-> Missing]]

(* The files of the upper layer, then those only the lower one has. *)
Search(c, above, below) ==
    IF req[c].tool = "grep" /\ above \o below # <<>>
    THEN todo' = [todo EXCEPT ![c] = ReadOps(above \o below)] /\ Goto(c, "resolveRead")
    ELSE Goto(c, "ok") /\ UNCHANGED todo

(* A slip: the upper names are dropped where the lower directory is read. *)
ListLowerOnly(c) ==
    /\ pc[c] = "listLower"
    /\ names' = [names EXCEPT ![c] = InLower]
    /\ \E above \in Orders(names[c]) : \E below \in Orders(InLower \ names[c]) :
         Search(c, above, below)
    /\ SameFiles /\ UNCHANGED <<req, at, out, hits, found>>

ListLower(c) ==
    /\ pc[c] = "listLower"
    /\ names' = [names EXCEPT ![c] = @ \cup InLower]
    /\ \E above \in Orders(names[c]) : \E below \in Orders(InLower \ names[c]) :
         Search(c, above, below)
    /\ SameFiles /\ UNCHANGED <<req, at, out, hits, found>>

-----------------------------------------------------------------------------
(* claw-fs is killed and restarted: the requests in progress are lost. *)
Crash ==
    /\ litter' = (litter \/ \E c \in Client : temp[c] # Missing)
    /\ temp' = [c \in Client |-> Missing]
    /\ pc' = [c \in Client |-> "idle"]
    /\ req' = [c \in Client |-> NoRequest]
    /\ todo' = [c \in Client |-> <<>>]
    /\ at' = [c \in Client |-> "upper"]
    /\ out' = [c \in Client |-> Missing]
    /\ names' = [c \in Client |-> {}]
    /\ hits' = [c \in Client |-> {}]
    /\ found' = [c \in Client |-> 0]
    /\ seen' = [c \in Client |-> [p \in Path |-> {}]]
    /\ changed' = [c \in Client |-> {}]
    /\ uncovered' = [c \in Client |-> {}]
    /\ UNCHANGED upper

Handle(c) ==
    \/ \E r \in Requests : Call(c, r)
    \/ Return(c)
    \/ ResolveRead(c) \/ StatUpper(c) \/ StatLower(c)
    \/ ReadMissing(c) \/ ReadForAnswer(c) \/ ReadForUpdate(c)
    \/ Resolve(c) \/ WriteTemp(c) \/ NothingWritten(c) \/ WriteFails(c) \/ Discard(c)
    \/ Rename(c) \/ Remove(c)
    \/ ListUpper(c) \/ ListLower(c)

Next == (\E c \in Client : Handle(c)) \/ Crash

Spec == Init /\ [][Next]_vars
-----------------------------------------------------------------------------
TypeOK ==
    /\ upper \in [Path -> Value]
    /\ temp \in [Client -> Value]
    /\ litter \in BOOLEAN
    /\ req \in [Client -> Requests \cup {NoRequest}]
    /\ pc \in [Client -> Steps \cup Answers \cup {"idle"}]
    /\ todo \in [Client -> Seq(Operation)]
    /\ at \in [Client -> {"upper", "lower"}]
    /\ out \in [Client -> Value]
    /\ names \in [Client -> SUBSET Path]
    /\ hits \in [Client -> SUBSET (Path \X Content)]
    /\ found \in [Client -> 0 .. MaxMatches]
    /\ seen \in [Client -> [Path -> SUBSET Value]]
    /\ changed \in [Client -> SUBSET Path]
    /\ uncovered \in [Client -> SUBSET Path]

(* A temporary file exists only while its request is about to rename or to    *)
(* remove it, whichever step of AtomicWrite fails (workspace.go:216-247): no  *)
(* answer and no further operation of a patch leaves one behind.  Only a      *)
(* crash and a removal that fails do (litter).                                *)
TempsAreInFlight ==
    \A c \in Client : temp[c] # Missing => pc[c] \in {"rename", "discard"}

(* What read_file answers is what the merged view showed for the path at some *)
(* moment of the call: a content, or that there is no file (workspace.go:9    *)
(* "try upperDir first, fall back to lowerDir").  Two stats, an open and the  *)
(* writes of other requests lie between.  The code falls short of it in one   *)
(* case: if the upper copy is deleted between its stat and the open, the      *)
(* answer is an error though the lower copy shows.                            *)
ReadTellsTheFile ==
    \A c \in Client : req[c].tool = "read_file" =>
       /\ \A hit \in hits[c] : hit[2] \in seen[c][hit[1]]
       /\ pc[c] = "error" => \/ Missing \in seen[c][Op(c).path]
                            \/ Op(c).path \in Denied \cup uncovered[c]

(* grep reads, in a content it had during the call, every file that is there  *)
(* during the whole call (cmd/claw-fs/main.go:310-341), unless it has its 200 *)
(* matches before, or the file's upper copy is deleted during the call, which *)
(* hides the lower one from it as it does from read_file.                     *)
GrepSearchesEveryFile ==
    \A c \in Client : (req[c].tool = "grep" /\ pc[c] = "ok" /\ found[c] < MaxMatches) =>
       \A p \in Path \ (Denied \cup uncovered[c]) :
          \/ Missing \in seen[c][p]
          \/ \E v \in seen[c][p] : <<p, v>> \in hits[c]

(* A listing names every file that is there during the whole call and none    *)
(* that is there at no moment of it (workspace.go:113-145).                   *)
ListShowsTheFiles ==
    \A c \in Client : (req[c].tool = "list_dir" /\ pc[c] = "ok") =>
       \A p \in Path :
          /\ Missing \notin seen[c][p] => p \in names[c]
          /\ p \in names[c] => \E v \in seen[c][p] : v # Missing

-----------------------------------------------------------------------------
(* What an operation should make of the file it names. *)
Effect(op, content) ==
    CASE op.act = "add" -> op.arg
      [] op.act \in {"edit", "update"} -> Revise(content, op)
      [] op.act = "delete" -> Missing

(* What the merged view has shown for a file while a request was served, or,  *)
(* if nobody else has changed the file meanwhile, what it shows now.          *)
Sources(c, p) == IF p \in changed[c] THEN seen[c][p] ELSE {View(upper)[p]}

(* What an operation makes of a file the merged view has shown: only an add   *)
(* does not need one.                                                         *)
MadeOf(c, op, content) ==
    \E v \in Sources(c, op.path) :
       /\ v = Missing => op.act = "add"
       /\ content = Effect(op, v)

(* Every write puts in the file what its operation makes of a content that    *)
(* the merged view has shown since the request came in, and of the content it *)
(* replaces unless another request has changed the file meanwhile: a change   *)
(* that was there before the request is never dropped, one made during it may *)
(* be (edit_file, cmd/claw-fs/main.go:158-177, and the updates of             *)
(* apply_patch take no lock).                                                 *)
WritesFollowTheView ==
    [][\A c \in Client : Rename(c) => MadeOf(c, Op(c), upper'[Op(c).path])]_vars
=============================================================================
