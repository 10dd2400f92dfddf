SPECIFICATION Spec
CONSTANTS
    Client = {c1, c2}
    Path = {"p", "q", "h"}
    Denied <- HDenied
    Content <- MCContent
    Missing = Missing
    Lower <- HostHasP
    Revise <- MCRevise
    Unmatched <- MCUnmatched
    Panics <- MCPanics
    Requests <- MCRequests
    MatchingLines <- MCMatchingLines
    MaxMatches = 2
SYMMETRY Alike
INVARIANTS
    TempsAreInFlight
    ReadTellsTheFile
    GrepSearchesEveryFile
    ListShowsTheFiles
PROPERTY WritesFollowTheView
