SPECIFICATION FairSpec
CONSTANTS
    Cids = {c1, c2}
    Hosts = {h1, h2, h3}
    Desired = 2
    Terms = {free}
    PaidTerms = {}
    Procs = {p1}
    Cmds = {"add", "watch"}
    Slips = {}
    NoCid = NoCid
    NoTerms = NoTerms
    MaxDrops = 1
PROPERTIES EachToItsOwn FactorRestored
