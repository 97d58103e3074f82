\* Two profiles, one upload before and one after init is run again.
SPECIFICATION ChannelsSpec
CONSTANTS
    Profiles = {alice, bob}
    NoOwner = NoOwner
    Hashes = {h1}
    Folders = {d1}
    Names = {n1}
    NoMeta = NoMeta
    Requests = {r1}
    MaxRequests = 3
    MayFail = FALSE
    ChannelIds = {x1, x2}
    MaxSwitches = 1
SYMMETRY Symmetry
INVARIANT DurableReference
