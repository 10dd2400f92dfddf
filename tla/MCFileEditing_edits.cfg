SPECIFICATION Spec
CONSTANTS
    Files <- MCFiles
    Edits <- MCEdits
    Patches <- MCPatches
    EditAlphabet = {"a", "sp", "nl", "quote", "curly"}
    EditLength = 3
    OldLength = 2
    PatchAlphabet = {"a", "b", "nl"}
    PatchFileLength = 4
    PatchLength = 3
    Limits = {1, 2, 7}
    WordMax = 7
    Headers <- MCHeaders
    Written <- MCWritten
    MaxFiles = 2
    MaxLines = 2
INVARIANTS
    PagesAreTheFile
    ParsesWhatWasWritten
PROPERTIES
    EditReplacesTheOnlyOccurrence
    ExactPatchApplies
CHECK_DEADLOCK FALSE
