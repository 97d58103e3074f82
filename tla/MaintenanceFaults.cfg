\* Interrupted requests and commands; commands run while the server is stopped.
SPECIFICATION MaintenanceSpec
CONSTANTS
    Profiles = {alice}
    NoOwner = NoOwner
    h1 = h1
    h2 = h2
    d1 = d1
    n1 = n1
    Hashes = {h1, h2}
    Folders = {d1}
    Names = {n1}
    NoMeta = NoMeta
    Requests = {r1, r2}
    MaxRequests = 3
    MayFail = TRUE
    BatchSize = 2
    MaxCommands = 2
    MaxLosses = 1
    Legacy <- OneLegacy
    LegacyPath <- FirstPath
    Exclusive = TRUE
SYMMETRY Symmetry
INVARIANTS RebuildExact RowsReachable
