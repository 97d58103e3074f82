\* Reindex and backfill-captions while two requests are served.
SPECIFICATION FairMaintenanceSpec
CONSTANTS
    Profiles = {alice}
    NoOwner = NoOwner
    h1 = h1
    h2 = h2
    d1 = d1
    n1 = n1
    Hashes = {h1, h2}
    Folders = {d1}
    Names = {n1}
    NoMeta = NoMeta
    Requests = {r1, r2}
    MaxRequests = 3
    MayFail = TRUE
    BatchSize = 2
    MaxCommands = 1
    MaxLosses = 0
    Legacy <- OneLegacy
    LegacyPath <- FirstPath
    Exclusive = FALSE
INVARIANTS CaptionsTruthful ServedContent
PROPERTY WalkEnds
