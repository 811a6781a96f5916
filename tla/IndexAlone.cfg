SPECIFICATION Spec
CONSTANTS
    Cids = {c1}
    Hosts = {h1, h2, h3}
    Desired = 2
    Terms = {free, paid}
    PaidTerms = {paid}
    Procs = {p1}
    Cmds = {"add", "rm", "renew", "status", "watch"}
    Slips = {"kill", "lost", "deaf", "again"}
    NoCid = NoCid
    NoTerms = NoTerms
    MaxDrops = 1
SYMMETRY Symmetry
INVARIANTS IndexTypeOK Accounted
PROPERTIES NeverOverPlaces HealthIsOwnAnswer
