SPECIFICATION ViewSpec
CONSTANTS
    Cids = {1, 2, 3}
    MaxBytes = 3
    Size <- MCSize
    Workers = {w1}
    MaxObject = 3
    Capacity = 3
    MinRent = 1
    Declared <- MCHonest
    Rents = {0, 1}
    Expiries = {0, 1, 2}
    Caps = {k1}
    Revocable = {}
    LegacyCids = {}
    SaveFails = FALSE
    FileRots = FALSE
    KeepRent = KeepRent
    NoRequest = NoRequest
    NoAnswer = NoAnswer
    MaxTip = 2
    MaxNow = 0
    MaxCrashes = 1
INVARIANTS ViewTypeOK WithinCapacity PublisherCanRely LeaseAsTold ReleaseIsFinal
