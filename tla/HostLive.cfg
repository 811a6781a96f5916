SPECIFICATION FairSpec
CONSTANTS
    Cids = {1, 2}
    MaxBytes = 2
    Size <- MCSize
    Workers = {w1}
    MaxObject = 1
    Capacity = 1
    MinRent = 0
    Declared <- MCUnderstated
    Rents = {0}
    Expiries = {0, 1}
    Caps = {k1}
    Revocable = {k1}
    LegacyCids = {}
    SaveFails = TRUE
    FileRots = TRUE
    KeepRent = KeepRent
    NoRequest = NoRequest
    NoAnswer = NoAnswer
    MaxTip = 1
    MaxNow = 1
    MaxCrashes = 1
INVARIANTS NoOversizedPin
PROPERTIES EveryRequestEnds LapsedPinsGo RevocationTakesHold
