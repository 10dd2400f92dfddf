--------------------------- MODULE MCFileEditing ---------------------------
EXTENDS FileEditingInv

CONSTANTS EditAlphabet, EditLength, OldLength, PatchAlphabet, PatchFileLength, PatchLength

MCFiles == BoundedSeq(EditAlphabet, EditLength) \cup BoundedSeq(PatchAlphabet, PatchFileLength)

MCEdits == [old : BoundedSeq(EditAlphabet, OldLength), new : {<<>>, <<"a">>}]

MCLines == [prefix : {"plus", "minus", "space"}, text : {<<>>, <<"a">>, <<"b">>}]

MCPatches == IF PatchLength = 0 THEN {} ELSE BoundedSeq(MCLines, PatchLength)

NoEdits == {}

MCHeaders == {<<"update", "p">>, <<"add", "q">>, <<"delete", "q">>}

MarkTexts == {BeginPatch, EndPatch, Hint, FileHeader("add", "p")}

(* Every kind of line, each where it can be mistaken and where it cannot. *)
MCWritten == [prefix : {"plus"}, text : MarkTexts \cup {<<"a">>}]
               \cup [prefix : {"minus"}, text : {EndPatch, FileHeader("add", "p")}]
               \cup [prefix : {"space"}, text : {<<>>, <<"a">>, EndPatch, Hint, FileHeader("add", "p")}]
=============================================================================
