\* An inherited file, then a reindex.
SPECIFICATION NuageSpec
CONSTANTS
    h1 = h1
    d1 = d1
    n1 = n1
    Profiles = {alice, bob}
    NoOwner = NoOwner
    Hashes = {h1}
    Folders = {d1}
    Names = {n1}
    NoMeta = NoMeta
    Requests = {r1}
    MaxRequests = 1
    MayFail = FALSE
    BatchSize = 2
    MaxCommands = 1
    MaxLosses = 0
    Legacy <- NoLegacy
    LegacyPath <- FirstPath
    Exclusive = TRUE
    Admins = {a1}
    MaxChanges = 2
    MayCrash = FALSE
    Resetup = FALSE
    MaxMoves = 0
SYMMETRY Symmetry
INVARIANT RowsRecovered
