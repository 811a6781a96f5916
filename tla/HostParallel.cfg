SPECIFICATION Spec
CONSTANTS
    Cids = {1, 2}
    MaxBytes = 2
    Size <- MCSize
    Workers = {w1, w2}
    MaxObject = 2
    Capacity = 2
    MinRent = 0
    Declared <- MCUnderstated
    Rents = {0}
    Expiries = {0, 1}
    Caps = {k1}
    Revocable = {}
    LegacyCids = {2}
    SaveFails = FALSE
    FileRots = FALSE
    KeepRent = KeepRent
    NoRequest = NoRequest
    NoAnswer = NoAnswer
    MaxTip = 1
    MaxNow = 0
    MaxCrashes = 1
INVARIANTS TypeOK RealSizes FileAgrees
PROPERTIES NoEarlyDrop Implements
SYMMETRY Symmetry
