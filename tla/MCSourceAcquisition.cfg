SPECIFICATION FairSpec
CONSTANTS
    c1 = c1
    c2 = c2
    Clients = {c1, c2}
    Windows = {1}
    Kinds = {"content", "probe"}
    Changes = {}
    MaxVersion = 1
    Paid = FALSE
    Tokens <- MCTokens
    NoToken = NoToken
    Lease = 1
    Ttls = {1}
    WaitTicks = 1
    BackoffBase = 1
    BackoffCap = 2
    MaxFailures = 2
    NoKey = NoKey
INVARIANT SingleFlight
PROPERTY AcquireEnds
