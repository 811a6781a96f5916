SPECIFICATION SharedSpec
CONSTANTS
    Cids = {c1, c2}
    Hosts = {h1}
    Desired = 1
    Terms = {free}
    PaidTerms = {}
    Procs = {p1, p2}
    Cmds = {"add", "rm", "renew", "status", "watch"}
    Slips = {"overlap", "kill"}
    NoCid = NoCid
    NoTerms = NoTerms
    MaxDrops = 0
SYMMETRY Symmetry
PROPERTIES OnlyLostUpdates OnlyLostUpdatesForget
