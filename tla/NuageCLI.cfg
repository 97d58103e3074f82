\* Unowned files, inheritance, captions, reindex and a restarted server, a move.
SPECIFICATION NuageSpec
CONSTANTS
    h1 = h1
    d1 = d1
    n1 = n1
    Profiles = {alice, bob}
    NoOwner = NoOwner
    Hashes = {h1}
    Folders = {d1}
    Names = {n1}
    NoMeta = NoMeta
    Requests = {r1}
    MaxRequests = 2
    MayFail = FALSE
    BatchSize = 2
    MaxCommands = 2
    MaxLosses = 1
    Legacy <- OneLegacy
    LegacyPath <- FirstPath
    Exclusive = FALSE
    Admins = {a1}
    MaxChanges = 2
    MayCrash = TRUE
    Resetup = TRUE
    MaxMoves = 1
SYMMETRY Symmetry
INVARIANTS InstallationTypeOK OwnUploadsOnly
