\* Two concurrent uploads of one content, then a reindex.
SPECIFICATION MaintenanceSpec
CONSTANTS
    Profiles = {alice}
    NoOwner = NoOwner
    h1 = h1
    h2 = h2
    d1 = d1
    n1 = n1
    Hashes = {h1}
    Folders = {d1}
    Names = {n1, n2}
    NoMeta = NoMeta
    Requests = {r1, r2}
    MaxRequests = 2
    MayFail = FALSE
    BatchSize = 2
    MaxCommands = 1
    MaxLosses = 0
    Legacy <- NoLegacy
    LegacyPath <- FirstPath
    Exclusive = TRUE
PROPERTY ReindexCompletes
