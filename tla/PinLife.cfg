SPECIFICATION Spec
CONSTANTS
    Hosts = {h1, h2}
    Desired = 1
    Rates = {9}
    RenewRates = {36}
    Spans = {0, 1}
    RenewSpans = {1}
    Bytes = 3
    Gib = 8
    Milli = 4
    BlocksPerHour = 1
    Credit = 1
    Chunks = 2
    Digest <- MCDigest
    ChannelIds = {1, 2}
    NoHost = NoHost
    NoDeal = NoDeal
    NoChannel = NoChannel
    NoRecord = NoRecord
    MaxTip = 1
    MaxFaults = 1
SYMMETRY HostSymmetry
INVARIANTS LifeTypeOK LeaseAsRecorded ChannelsAccounted
PROPERTIES ReceiptsFit HealthIsTrue
