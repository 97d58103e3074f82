\* One request or command at a time, no failures; the index is lost once.
SPECIFICATION MaintenanceSpec
CONSTANTS
    Profiles = {alice}
    NoOwner = NoOwner
    h1 = h1
    h2 = h2
    d1 = d1
    n1 = n1
    Hashes = {h1, h2}
    Folders = {d1}
    Names = {n1, n2}
    NoMeta = NoMeta
    Requests = {r1}
    MaxRequests = 4
    MayFail = FALSE
    BatchSize = 2
    MaxCommands = 2
    MaxLosses = 1
    Legacy <- OneLegacy
    LegacyPath <- FirstPath
    Exclusive = TRUE
INVARIANTS AllTypeOK RowsRecovered IndexMirrored
