-------------------------- MODULE ContextPruneInv --------------------------
(***************************************************************************)
(* The inductive invariant of ContextPrune, which ContextPruneProofs       *)
(* proves: what is sent is made of what was built, and while a request is  *)
(* served nothing that decides how changes.                                *)
(***************************************************************************)
EXTENDS CompactedHistory

Made ==
    IF built = <<>> THEN <<>>
    ELSE IF warm THEN GuardToolResults(built)
    ELSE PruneContext(GuardToolResults(built))

PruneInv ==
    /\ history \in Seq(Message)
    /\ built \in Seq(Message)
    /\ sent = Made
=============================================================================
