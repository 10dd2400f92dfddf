------------------------- MODULE MCShadowWorkspace -------------------------
EXTENDS ShadowWorkspaceInv, TLC

Tools_ == INSTANCE PatchHunks

A == <<"a">>
B == <<"b">>
C == <<"c">>

MCContent   == {A, B, C}
MCUnmatched   == Tools_!NoMatch
MCPanics    == Tools_!Panicked

Line(prefix, text) == [prefix |-> prefix, text |-> text]

BecomesC == <<Line("minus", B), Line("plus", C)>>
OffTheEnd == <<Line("space", C), Line("space", C), Line("minus", A)>>

(* What edit_file and the update of apply_patch make of a content: the edit   *)
(* is of A into B, the update puts C in the place of the first line, whatever *)
(* it is, or runs off the end of the file.                                    *)
MCRevise(content, op) ==
    CASE op.act = "edit" -> IF content = A THEN B ELSE MCUnmatched
      [] op.act = "update" -> IF op.arg = BecomesC THEN C ELSE MCPanics

Updated(content, lines) ==
    LET result == Tools_!ApplyHunks(Tools_!Lines(content), lines)
    IN  IF result = MCPanics THEN MCPanics ELSE Tools_!Joined(result)

(* FuzzyMatch and PatchHunks have it so.                                      *)
ASSUME RevisesLikeTheTools ==
    \A content \in MCContent :
        /\ MCRevise(content, [act |-> "edit"]) = Tools_!Edited(content, A, B)
        /\ \A lines \in {BecomesC, OffTheEnd} :
               MCRevise(content, [act |-> "update", arg |-> lines]) = Updated(content, lines)

HostHasP    == ("p" :> A) @@ ("q" :> Missing) @@ ("h" :> Missing)
HDenied     == {"h"}

O(act, path, arg) == [act |-> act, path |-> path, arg |-> arg]
Read(p)     == [tool |-> "read_file", ops |-> <<O("read", p, Missing)>>]
Write(p, v) == [tool |-> "write_file", ops |-> <<O("add", p, v)>>]
Edit(p)     == [tool |-> "edit_file", ops |-> <<O("edit", p, Missing)>>]
ToC(p)      == O("update", p, BecomesC)
Misses(p)   == O("update", p, OffTheEnd)
Delete(p)   == O("delete", p, Missing)
Patch(ops)  == [tool |-> "apply_patch", ops |-> ops]
List        == [tool |-> "list_dir", ops |-> <<>>]
Grep        == [tool |-> "grep", ops |-> <<>>]

MCRequests ==
    {Read("p"), Read("q"), Write("p", B), Edit("p"), List, Grep,
     Write("h", B), Edit("h"), Patch(<<>>),
     Patch(<<O("add", "q", A), ToC("p")>>),
     Patch(<<ToC("p"), Delete("p")>>),
     Patch(<<Delete("q"), Misses("p"), Delete("p")>>)}

(* The pattern grep is given, and a cap that two files reach. *)
MCMatchingLines(content) == CASE content = A -> 1 [] content = B -> 2 [] content = C -> 0

Alike == Permutations(Client)
=============================================================================
