\* One address, two handlers, one browser, restarts.
SPECIFICATION ServingSpec
CONSTANTS
    Profiles = {alice, bob}
    Addresses = {a1}
    Browsers = {b1}
    Handlers = {s1, s2}
    MaxAttempts = 2
    Window = 2
    TTL = 2
    NoCookie = NoCookie
    NoLogin = NoLogin
    MaxFaults = 2
    MaxEdits = 2
INVARIANTS ServingTypeOK FailuresBounded NothingLeft SessionsEarned
PROPERTIES LockoutEnds ServiceReturns SessionsFade
