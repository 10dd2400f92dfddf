---------------------------- MODULE FileEditing ----------------------------
(* One file of the workspace read with read_file and changed by edit_file and *)
(* by the Update File operation of apply_patch, one request after the other:  *)
(* what the tools make of a text (cmd/claw-fs/main.go,                        *)
(* internal/workspace/patch.go).  An agent that has asked for nothing yet may *)
(* write a patch of several files instead (PatchText).                        *)
EXTENDS PatchText

CONSTANTS
    Files,       \* the contents requests are made of (a bound: longer ones get none)
    Edits,       \* records [old, new]: the arguments of edit_file
    Patches,     \* sequences of patch lines, the prefix "none" excepted
    Limits,      \* the limits read_file is called with
    WordMax      \* the largest int

(* Texts are sequences; a limit is positive, as one that is not gives way to  *)
(* the default (cmd/claw-fs/main.go:91-94).                                   *)
ASSUME EditingAssumption ==
    /\ \A text \in Files : text \in Seq(Range(text))
    /\ WordMax \in Nat
    /\ Limits \subseteq 1 .. WordMax
    /\ \A p \in Patches :
          p \in Seq([prefix : {"plus", "minus", "space"},
                     text : {p[i].text : i \in DOMAIN p}])

VARIABLES
    file,        \* the content
    request,     \* the request being served, or None
    answer,      \* of the last request: "ok", "error", or "dropped" after a panic
    pages,       \* the lines an agent that reads on has been shown so far
    endedBy      \* the limit of the answer that showed it none, 0 before that

vars == <<patch, file, request, answer, pages, endedBy>>

None == <<>>

Init ==
    /\ NothingWritten
    /\ file \in Files
    /\ request = None
    /\ answer = "none"
    /\ pages = <<>>
    /\ endedBy = 0

-----------------------------------------------------------------------------
Ask(tool, args) ==
    /\ request = None /\ ops = <<>> /\ ~closed
    /\ file \in Files
    /\ request' = <<tool, args>>
    /\ answer' = "none"
    /\ UNCHANGED <<patch, file>>

(* The agent reads a file from its first line on, each time after the lines   *)
(* it has seen, until an answer shows it nothing.                             *)
ReadOn(limit) ==
    /\ endedBy = 0
    /\ Ask("read", [offset |-> Len(pages) + 1, limit |-> limit])
    /\ UNCHANGED <<pages, endedBy>>

(* What it has read is stale when it asks for a change. *)
AskFor(tool, args) == Ask(tool, args) /\ pages' = <<>> /\ endedBy' = 0

Answer(result) == answer' = result /\ request' = None

(* A slip: the limit is taken for the last line. *)
WindowToLimit(lines, offset, limit) ==
    SubSeq(lines, Max({offset, 1}), Min({limit, Len(lines)}))

(* The sum of two ints that are not negative. *)
Wrapped(sum) == IF sum > WordMax THEN sum - 2 * (WordMax + 1) ELSE sum

(* Line numbers start at 1, which a lesser offset means too. *)
Window(lines, offset, limit) ==
    LET before == Min({Max({offset, 1}) - 1, Len(lines)})
    IN  SubSeq(lines, before + 1, Min({Wrapped(before + limit), Len(lines)}))

ReadFile ==
    /\ request # None /\ request[1] = "read"
    /\ LET shown == Window(Lines(file), request[2].offset, request[2].limit)
       IN  /\ pages' = pages \o shown
           /\ endedBy' = IF shown = <<>> THEN request[2].limit ELSE 0
    /\ Answer("ok")
    /\ UNCHANGED <<patch, file>>

EditFile ==
    /\ request # None /\ request[1] = "edit"
    /\ LET e == request[2]
           result == Edited(file, e.old, e.new)
       IN  IF result = NoMatch
           THEN Answer("error") /\ UNCHANGED file
           ELSE Answer("ok") /\ file' = result
    /\ UNCHANGED <<patch, pages, endedBy>>

UpdateFile ==
    /\ request # None /\ request[1] = "update"
    /\ LET result == ApplyHunks(Lines(file), request[2])
       IN  IF result = Panicked
           THEN Answer("dropped") /\ UNCHANGED file
           ELSE Answer("ok") /\ file' = Joined(result)
    /\ UNCHANGED <<patch, pages, endedBy>>

Write ==
    /\ request = None /\ answer = "none" /\ file = <<>>
    /\ WriteOn
    /\ UNCHANGED <<file, request, answer, pages, endedBy>>

Next ==
    \/ \E limit \in Limits : ReadOn(limit)
    \/ \E e \in Edits : AskFor("edit", e)
    \/ \E p \in Patches : AskFor("update", p)
    \/ ReadFile
    \/ EditFile
    \/ UpdateFile
    \/ Write

Spec == Init /\ [][Next]_vars

-----------------------------------------------------------------------------
(* Reading on shows every line of the file once and in its order, the empty   *)
(* one after a last newline included (cmd/claw-fs/main.go:86-100): an agent   *)
(* that was shown no more has seen the file, unless it asked for so many      *)
(* lines that the sum of line 95 overflowed.                                  *)
PagesAreTheFile ==
    /\ pages = SubSeq(Lines(file), 1, Len(pages))
    /\ endedBy # 0 => pages = Lines(file) \/ Len(pages) + endedBy > WordMax

(* An edit that answers ok has replaced old_string where it stands, letter    *)
(* for letter, and nowhere else: the length of old_string, which the code     *)
(* cuts out of the file (cmd/claw-fs/main.go:177), is that of what it found.  *)
EditReplacesTheOnlyOccurrence ==
    [][request # None /\ request[1] = "edit" /\ answer' = "ok" =>
         LET e == request[2] IN
         \E i \in DOMAIN file :
            /\ Occurrences(file, e.old) = {i}
            /\ file' = SubSeq(file, 1, i - 1) \o e.new \o SubSeq(file, i + Len(e.old), Len(file))]_vars

-----------------------------------------------------------------------------
Texts(lines, prefixes) ==
    FoldLeft(LAMBDA texts, l : IF l.prefix \in prefixes THEN Append(texts, l.text) ELSE texts,
             <<>>, lines)

Old(lines) == Texts(lines, {"space", "minus"})
New(lines) == Texts(lines, {"space", "plus"})

Unambiguous(here) ==
    \A i, j \in DOMAIN here : i # j => ~MatchesContext(here[i], here[j])

(* A patch describes the file at k if its old lines are the file's lines from *)
(* k + 1 on, and it either starts at the top or is led by a context line.     *)
Describes(lines, here, k) ==
    /\ k + Len(Old(lines)) <= Len(here)
    /\ SubSeq(here, k + 1, k + Len(Old(lines))) = Old(lines)
    /\ k = 0 \/ Head(lines).prefix = "space"

(* An update whose old lines are a block of the file, in a file no two lines  *)
(* of which match each other, puts its new lines in the place of that block   *)
(* and leaves every other line alone (applyHunks, patch.go:186-270): the      *)
(* positions it collects, and the order it applies them in, agree.            *)
ExactPatchApplies ==
    [][request # None /\ request[1] = "update" =>
         LET lines == request[2]
             here  == Lines(file)
         IN  \A k \in 0 .. Len(here) :
               (Unambiguous(here) /\ lines # <<>> /\ Describes(lines, here, k)) =>
                  /\ answer' = "ok"
                  /\ file' = Joined(KeepTrailingNewline(here,
                        SubSeq(here, 1, k) \o New(lines)
                          \o SubSeq(here, k + Len(Old(lines)) + 1, Len(here))))]_vars

(* patch.go:214 "best effort": an update whose context is not found is still  *)
(* answered.                                                                  *)
UpdateIsAnswered == answer # "dropped"
=============================================================================
