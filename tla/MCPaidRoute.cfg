SPECIFICATION Spec
CONSTANTS
    c1 = c1
    c2 = c2
    Clients = {c1, c2}
    Windows = {1}
    Kinds = {"content"}
    Changes = {"pool"}
    MaxVersion = 1
    Paid = TRUE
    Tokens <- MCTokens
    NoToken = NoToken
    Lease = 1
    Ttls = {1}
    WaitTicks = 1
    BackoffBase = 1
    BackoffCap = 1
    MaxFailures = 1
    NoKey = NoKey
SYMMETRY MCSymmetry
INVARIANTS
    AcquisitionInv
    FreshMeansQuiet
PROPERTY PublishesOnce
