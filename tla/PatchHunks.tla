----------------------------- MODULE PatchHunks -----------------------------
(* apply_patch on one file (internal/workspace/patch.go): the parser of the   *)
(* patch text and the application of the hunks of an Update File operation.   *)
(*                                                                            *)
(* A line of a patch is [prefix |-> p, text |-> t] with p one of "plus",      *)
(* "minus", "space" and "none" (a line that begins with none of the three).   *)
(* A text is a sequence of characters, or one of the marks below: what        *)
(* remains of a marker line ("*** Begin Patch", "@@ ...") after its prefix.   *)
EXTENDS FuzzyMatch

BeginPatch == <<"begin">>
EndPatch   == <<"end">>
Hint       == <<"hint">>
FileHeader(action, path) == <<"file", action, path>>

Actions == {"update", "add", "delete"}

(* A marker is recognized on the trimmed line: a leading space does not hide  *)
(* it, a plus or a minus does.                                                *)
Marks(line, mark) == line.prefix \in {"space", "none"} /\ line.text = mark

(* A slip: a file header is looked for behind any prefix. *)
HeaderBehindAnyPrefix(line) == Len(line.text) = 3 /\ line.text[1] = "file"

IsHeader(line) ==
    /\ line.prefix \in {"space", "none"}
    /\ Len(line.text) = 3
    /\ line.text[1] = "file"

AsPatchLine(line) == [line EXCEPT !.prefix = IF @ = "none" THEN "space" ELSE @]

-----------------------------------------------------------------------------
(* ParsePatch.  The loop's state: the operations closed so far, the current   *)
(* one (none, or a sequence of one), and whether "*** End Patch" was met.     *)
ParseLine(st, line) ==
    IF st.ended THEN st
    ELSE IF Marks(line, EndPatch)
    THEN [st EXCEPT !.ended = TRUE]
    ELSE IF IsHeader(line)
    THEN [st EXCEPT !.ops = @ \o st.current,
                    !.current = <<[action |-> line.text[2], path |-> line.text[3], lines |-> <<>>]>>]
    ELSE IF Marks(line, Hint) \/ st.current = <<>>
    THEN st
    ELSE [st EXCEPT !.current[1].lines = Append(@, AsPatchLine(line))]

ParsePatch(input) ==
    LET begins == {i \in DOMAIN input : Marks(input[i], BeginPatch)}
        body   == SubSeq(input, Min(begins) + 1, Len(input))
        final  == FoldLeft(ParseLine, [ops |-> <<>>, current |-> <<>>, ended |-> FALSE], body)
    IN  IF begins = {} THEN [ok |-> FALSE, ops |-> <<>>]
        ELSE [ok |-> final.ended, ops |-> final.ops \o final.current]

-----------------------------------------------------------------------------
(* applyHunks, first loop: the replacements [start, old, new] (from file line *)
(* start + 1 on, old lines give way to the lines new) and the position after  *)
(* them.  open is the block a line may still extend.                          *)
MatchesContext(fileLine, text) ==
    FuzzyFind(fileLine, text) # NotFound \/ TrimSpace(fileLine) = TrimSpace(text)

(* A slip: the position stays on the matched line. *)
AtContext(file, pos, text) ==
    LET found == {j \in pos + 1 .. Len(file) : MatchesContext(file[j], text)}
    IN  IF found = {} THEN pos + 1 ELSE Min(found) - 1

AfterContext(file, pos, text) ==
    LET found == {j \in pos + 1 .. Len(file) : MatchesContext(file[j], text)}
    IN  IF found = {} THEN pos + 1 ELSE Min(found)

AddReplacement(st, old, new, open) ==
    [st EXCEPT !.reps = Append(@, [start |-> st.pos, old |-> old, new |-> new]), !.open = open]

RemoveLine(st) ==
    LET more == IF st.open = "minus"
                THEN [st EXCEPT !.reps[Len(st.reps)].old = @ + 1]
                ELSE AddReplacement(st, 1, <<>>, "minus")
    IN  [more EXCEPT !.pos = @ + 1]

InsertLine(st, text) ==
    IF st.open \in {"minus", "plus"}
    THEN [st EXCEPT !.reps[Len(st.reps)].new = Append(@, text), !.open = "plus"]
    ELSE AddReplacement(st, 0, <<text>>, "plus")

CollectLine(file, st, line) ==
    CASE line.prefix = "space" ->
           [st EXCEPT !.pos = AfterContext(file, @, line.text), !.open = "none"]
      [] line.prefix = "minus" -> RemoveLine(st)
      [] line.prefix = "plus"  -> InsertLine(st, line.text)

Replacements(file, lines) ==
    FoldLeft(LAMBDA st, line : CollectLine(file, st, line),
             [pos |-> 0, reps |-> <<>>, open |-> "none"], lines).reps

-----------------------------------------------------------------------------
(* applyHunks, second loop, last replacement first.  Only the last one can    *)
(* start beyond the file: the slice expression then panics.  No lines at all  *)
(* stand for that, which no answer has: the code joins what it splits.        *)
Replace(rep, file) ==
    SubSeq(file, 1, rep.start) \o rep.new \o SubSeq(file, rep.start + rep.old + 1, Len(file))

Panicked == <<>>

EndsWithNewline(lines) == Len(lines) > 1 /\ Last(lines) = <<>>

KeepTrailingNewline(before, after) ==
    LET lines == IF after = <<>> THEN <<<<>>>> ELSE after
    IN  IF EndsWithNewline(before) /\ ~EndsWithNewline(lines) THEN Append(lines, <<>>) ELSE lines

ApplyReplacements(reps, file) == FoldRight(Replace, reps, file)

ApplyHunks(file, lines) ==
    LET reps == Replacements(file, lines)
    IN  IF reps # <<>> /\ Last(reps).start > Len(file) THEN Panicked
        ELSE KeepTrailingNewline(file, ApplyReplacements(reps, file))
=============================================================================
