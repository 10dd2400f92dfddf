SPECIFICATION FairSpec
CONSTANTS
    Handlers = {h1, h2}
    blank = blank
    Blank = blank
    home = home
    form = form
    old = old
    feed = feed
    button = button
    banner = banner
    Urls <- MCUrls
    Selectors <- MCSelectors
    Landing <- MCLanding
    Elements <- MCElements
    Visible <- MCVisible
    Bodiless <- MCBodiless
    Dynamic = TRUE
    NoOne = NoOne
    NoSelector = NoSelector
    NoUrl = NoUrl
INVARIANT TypeOK
PROPERTIES
    RunIsExclusive
    OnlyThePageHangs
CHECK_DEADLOCK FALSE
