SPECIFICATION Spec
CONSTANTS
    Cids = {c1}
    Hosts = {h1}
    Desired = 1
    Terms = {free}
    PaidTerms = {}
    Procs = {p1, p2}
    Cmds = {"add", "rm", "watch"}
    Slips = {"overlap"}
    NoCid = NoCid
    NoTerms = NoTerms
    MaxDrops = 1
PROPERTIES RemovedStaysRemoved
