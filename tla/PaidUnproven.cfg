SPECIFICATION Spec
CONSTANTS
    Cids = {c1}
    Hosts = {h1}
    Desired = 1
    Terms = {paid}
    PaidTerms = {paid}
    Procs = {p1}
    Cmds = {"add", "watch"}
    Slips = {}
    NoCid = NoCid
    NoTerms = NoTerms
    MaxDrops = 1
INVARIANTS PaidForProof
