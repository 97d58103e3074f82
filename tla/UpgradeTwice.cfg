\* The server is started on an old index while the first profile is created.
SPECIFICATION UpgradeSpec
CONSTANTS
    alice = alice
    h1 = h1
    h2 = h2
    Profiles = {alice, bob}
    NoOwner = NoOwner
    Hashes = {h1, h2}
    Folders = {d1}
    Names = {n1}
    Admins = {a1}
    MaxChanges = 1
    MayCrash = FALSE
    Resetup = FALSE
    Openers = {serve}
    OldFiles <- TwoUnowned
PROPERTY SecondOpenIsNoOp
