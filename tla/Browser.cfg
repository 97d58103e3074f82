\* One tab, two requests in flight, another tab and another device.
SPECIFICATION BrowserSpec
CONSTANTS
    h1 = h1
    h2 = h2
    n1 = n1
    n2 = n2
    d1 = d1
    Empty = Empty
    Here = Here
    Up = Up
    Profiles = {alice, bob}
    NoOwner = NoOwner
    Hashes = {h1, h2}
    Names = {n1, n2}
    Folders <- FolderPaths
    NoOne = NoOne
    Calls = {c1, c2}
    Uploads <- TwoUploads
    NewNames = {d1, Up}
    MaxDepth = 2
    MaxClicks = 3
    MaxOthers = 1
    MayLose = TRUE
SYMMETRY Symmetry
INVARIANTS BrowserTypeOK ListInSync PaintedAsListed
PROPERTIES HitsWhatWasShown StoredAsMeant
