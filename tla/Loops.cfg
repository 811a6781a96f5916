SPECIFICATION LoopsSpec
CONSTANTS
    Cids = {1, 2, 3}
    MaxBytes = 2
    MCRents = {0, 1}
    MCAccesses = {0, 1}
    Cases <- MCCases
    Nodes = {1, 2, 3}
    Unknown = Unknown
    NoNode = NoNode
    MCStats <- MCAllStats
    MCTags <- MCAllTags
    SelectCalls <- MCSelectCalls
INVARIANTS MatchesEvictToFit FitsWithNoneToSpare PayingPinsStay
INVARIANTS MatchesSelect FactorFilled NoAvoidableOverlap ProvenFirst
