SPECIFICATION Spec
CONSTANTS
    Files <- MCFiles
    Edits <- NoEdits
    Patches <- MCPatches
    EditAlphabet = {}
    EditLength = 0
    OldLength = 0
    PatchAlphabet = {"a", "b", "nl"}
    PatchFileLength = 4
    PatchLength = 3
    Limits = {}
    WordMax = 7
    Headers = {}
    Written = {}
    MaxFiles = 0
    MaxLines = 0
INVARIANT UpdateIsAnswered
CHECK_DEADLOCK FALSE
