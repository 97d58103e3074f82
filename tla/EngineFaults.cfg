\* Two requests in flight, two profiles and the CLI, any call may fail.
SPECIFICATION Spec
CONSTANTS
    Profiles = {alice, bob}
    NoOwner = NoOwner
    Hashes = {h1, h2}
    Folders = {d1}
    Names = {n1, n2}
    NoMeta = NoMeta
    Requests = {r1, r2}
    MaxRequests = 4
    MayFail = TRUE
SYMMETRY Symmetry
INVARIANTS TypeOK NoFileLost ServedContent
PROPERTIES OthersUntouched StoreSpec
