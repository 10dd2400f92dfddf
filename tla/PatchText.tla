----------------------------- MODULE PatchText -----------------------------
(* The patch text an agent sends to apply_patch, written file by file and     *)
(* line by line, and what ParsePatch reads in it at every moment: a text that *)
(* is cut short is one of the states.                                         *)
EXTENDS PatchHunks

CONSTANTS
    Headers,     \* pairs <<action, path>>
    Written,     \* the patch lines the agent writes
    MaxFiles,    \* bound on the operations of a patch
    MaxLines     \* bound on the lines of an operation

ASSUME WrittenAssumption ==
    \A l \in Written : l \in [prefix : {"plus", "minus", "space"}, text : {l.text}]

VARIABLES
    ops,         \* the operations written, as ParsePatch should return them
    closed       \* "*** End Patch" is written

patch == <<ops, closed>>

NothingWritten == ops = <<>> /\ closed = FALSE

WriteHeader(header) ==
    /\ ~closed /\ Len(ops) < MaxFiles
    /\ ops' = Append(ops, [action |-> header[1], path |-> header[2], lines |-> <<>>])
    /\ UNCHANGED closed

WriteLine(line) ==
    /\ ~closed /\ ops # <<>> /\ Len(Last(ops).lines) < MaxLines
    /\ ops' = [ops EXCEPT ![Len(ops)].lines = Append(@, line)]
    /\ UNCHANGED closed

WriteEnd == ~closed /\ closed' = TRUE /\ UNCHANGED ops

WriteOn ==
    \/ \E h \in Headers : WriteHeader(h)
    \/ \E l \in Written : WriteLine(l)
    \/ WriteEnd

-----------------------------------------------------------------------------
(* The text, in the format of patch.go:25-34. *)
Marker(mark) == [prefix |-> "none", text |-> mark]

Rendered(op) == <<Marker(FileHeader(op.action, op.path))>> \o op.lines

Input ==
    <<Marker(BeginPatch)>> \o FlattenSeq([i \in DOMAIN ops |-> Rendered(ops[i])])
      \o (IF closed THEN <<Marker(EndPatch)>> ELSE <<>>)

(* A context line the parser takes for a marker: it trims the line before it  *)
(* compares (patch.go:62).                                                    *)
ReadsLikeAMark(line) ==
    /\ line.prefix = "space"
    /\ \/ line.text \in {EndPatch, Hint}
       \/ Len(line.text) = 3 /\ line.text[1] = "file"

Unmistakable(written) ==
    \A i \in DOMAIN written : \A j \in DOMAIN written[i].lines :
        ~ReadsLikeAMark(written[i].lines[j])

(* ParsePatch reads exactly the operations and lines that were written        *)
(* (patch.go:35-117), and refuses a patch that was cut short (113-116),       *)
(* whatever its added and removed lines contain: apply_patch then changes     *)
(* nothing (cmd/claw-fs/main.go:374-377).  A context line that reads like a   *)
(* marker is the exception, though any line of a file may follow the space of *)
(* patch.go:30 " context line": the patch ends there, or another file begins. *)
ParsesWhatWasWritten ==
    LET parsed == ParsePatch(Input)
    IN  Unmistakable(ops) =>
          IF closed THEN parsed = [ok |-> TRUE, ops |-> ops] ELSE ~parsed.ok
=============================================================================
