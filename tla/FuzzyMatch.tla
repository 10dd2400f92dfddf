----------------------------- MODULE FuzzyMatch -----------------------------
(* How claw-fs looks for a text in a file (internal/workspace/fuzzymatch.go), *)
(* used by edit_file for its old_string and by apply_patch for context lines. *)
(*                                                                            *)
(* A text is a sequence of characters.  The alphabet keeps one character of   *)
(* each class the code tells apart: letters, a space, the newline, an ASCII   *)
(* quote and the typographic quote that normalizePunctuation maps to it.      *)
(* Offsets are 1-based and 0 stands for the code's -1.                        *)
EXTENDS Sequences, Integers, FiniteSets, SequencesExt

Newline == "nl"
Space   == "sp"
Blank   == {Space, Newline}

NotFound == 0

-----------------------------------------------------------------------------
(* strings.Split(s, "\n") and its inverse: a line is what stands between two  *)
(* neighbouring cuts, which are the ends of the text and its newlines.        *)
Lines(text) ==
    LET newlines == {i \in DOMAIN text : text[i] = Newline}
        cuts     == {0, Len(text) + 1} \cup newlines
        Cut(k)   == CHOOSE c \in cuts : Cardinality({b \in cuts : b < c}) = k
    IN  [k \in 1 .. Cardinality(newlines) + 1 |-> SubSeq(text, Cut(k - 1) + 1, Cut(k) - 1)]

Joined(lines) ==
    FoldLeftDomain(LAMBDA text, k : text \o (IF k = 1 THEN <<>> ELSE <<Newline>>) \o lines[k], <<>>, lines)

Occurs(text, pattern, i) ==
    /\ i + Len(pattern) - 1 <= Len(text)
    /\ SubSeq(text, i, i + Len(pattern) - 1) = pattern

Occurrences(text, pattern) == {i \in DOMAIN text : Occurs(text, pattern, i)}

-----------------------------------------------------------------------------
(* The four normalizers, by level. *)
TrimTrailing(text, blank) ==
    SubSeq(text, 1, Max({0} \cup {i \in DOMAIN text : text[i] \notin blank}))

TrimSpace(text) == Reverse(TrimTrailing(Reverse(TrimTrailing(text, Blank)), Blank))

Plain(c) == IF c = "curly" THEN "quote" ELSE c

NormalizePunctuation(text) == [i \in DOMAIN text |-> Plain(text[i])]

Levels == 1 .. 4

Norm(level, text) ==
    CASE level = 1 -> text
      [] level = 2 -> TrimTrailing(text, {Space})
      [] level = 3 -> TrimSpace(text)
      [] level = 4 -> NormalizePunctuation(TrimSpace(text))

-----------------------------------------------------------------------------
(* The plain search: the offset of the only occurrence. *)
TheOnly(found) == IF Cardinality(found) = 1 THEN CHOOSE i \in found : TRUE ELSE NotFound

FindExact(content, pattern) == TheOnly(Occurrences(content, pattern))

(* The search for a block of whole lines, equal once normalized: the offset   *)
(* of the first line of the only such block.                                  *)
FindLines(content, pattern, level) ==
    LET here   == Lines(content)
        wanted == Lines(pattern)
        Offset(k) == 1 + Len(Joined(SubSeq(here, 1, k - 1))) + (IF k = 1 THEN 0 ELSE 1)
    IN  TheOnly({Offset(k) : k \in {n \in 1 .. Len(here) - Len(wanted) + 1 :
                   \A j \in DOMAIN wanted : Norm(level, here[n + j - 1]) = Norm(level, wanted[j])}})

(* The code recognizes the identity by what it makes of a probe, "x y". *)
Probe == <<"x", Space, "y">>

(* A slip: a probe that trimming changes. *)
IsIdentityByBlank(level) == Norm(level, <<Space, "x", Space>>) = <<Space, "x", Space>>

IsIdentity(level) == Norm(level, Probe) = Probe

FindNormalized(content, pattern, level) ==
    IF Norm(level, pattern) = <<>> THEN NotFound
    ELSE IF IsIdentity(level) THEN FindExact(content, pattern)
    ELSE FindLines(content, pattern, level)

(* FuzzyFind and FuzzyFindLevel: the first level that finds the pattern. *)
FuzzyFindLevel(content, pattern) ==
    LET good == {level \in Levels : FindNormalized(content, pattern, level) # NotFound}
    IN  IF good = {} THEN [at |-> NotFound, level |-> 0]
        ELSE [at |-> FindNormalized(content, pattern, Min(good)), level |-> Min(good)]

FuzzyFind(content, pattern) == FuzzyFindLevel(content, pattern).at

-----------------------------------------------------------------------------
(* edit_file: the replacement of old by new in the content of a file, or      *)
(* NoMatch.                                                                   *)
NoMatch == <<"no match">>

EditedAt(content, at, old, new) ==
    SubSeq(content, 1, at - 1) \o new \o SubSeq(content, at + Len(old), Len(content))

Edited(content, old, new) ==
    LET at == FuzzyFind(content, old)
    IN  IF at = NotFound THEN NoMatch ELSE EditedAt(content, at, old, new)
=============================================================================
