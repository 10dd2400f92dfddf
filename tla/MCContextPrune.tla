--------------------------- MODULE MCContextPrune ---------------------------
EXTENDS ContextPruneInv

M(role, form, chars, images, tail) ==
    [role |-> role, form |-> form, chars |-> chars, images |-> images, tail |-> tail]

User      == M("user", "text", 4, 0, FALSE)
LongUser  == M("user", "text", 9, 0, TRUE)
Picture   == M("user", "blocks", 1, 1, FALSE)
Steps     == M("assistant", "blocks", 5, 0, FALSE)
Answer    == M("assistant", "text", 8, 0, FALSE)
Result    == M("tool", "text", 3, 0, FALSE)
LongError == M("tool", "text", 14, 0, TRUE)
LongList  == M("tool", "text", 14, 0, FALSE)
BlockList == M("tool", "blocks", 14, 0, FALSE)

MCSystems == {<<>>, <<M("system", "text", 4, 0, FALSE)>>}
MCInputs  == {User, LongUser, Picture, Result, LongError}
MCReplies == {<<>>, <<Answer>>, <<Steps, Result>>, <<Steps, LongList>>, <<Steps, BlockList>>}
=============================================================================
