SPECIFICATION Spec
CONSTANTS
    Hosts = {h1}
    Desired = 1
    Rates = {9}
    RenewRates = {}
    Spans = {1}
    RenewSpans = {1}
    Bytes = 3
    Gib = 8
    Milli = 4
    BlocksPerHour = 1
    Credit = 1
    Chunks = 2
    Digest <- MCDigest
    ChannelIds = {1}
    NoHost = NoHost
    NoDeal = NoDeal
    NoChannel = NoChannel
    NoRecord = NoRecord
    MaxTip = 1
    MaxFaults = 0
PROPERTIES CumulativeRises
