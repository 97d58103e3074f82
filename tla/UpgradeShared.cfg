\* Two terminals and the server, interruptions, an old index or one with a recovered
\* file that is in the way.
SPECIFICATION UpgradeSpec
CONSTANTS
    alice = alice
    h1 = h1
    h2 = h2
    Profiles = {alice, bob}
    NoOwner = NoOwner
    Hashes = {h1, h2}
    Folders = {d1}
    Names = {n1}
    Admins = {a1, a2}
    MaxChanges = 4
    MayCrash = TRUE
    Resetup = FALSE
    Openers = {serve}
    OldFiles <- OneRecovered
SYMMETRY Symmetry
INVARIANT UpgradeTypeOK
PROPERTIES SomeProfileStays InheritsAllOrNothing FilesSurvive
