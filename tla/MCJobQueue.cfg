SPECIFICATION QueueSpec
CONSTANTS
    u1 = u1
    x1 = x1
    s1 = s1
    w1 = w1
    w2 = w2
    MaxJobs = 2
    Users = {u1}
    Sources = {x1}
    Subscriptions = {s1}
    SubUser <- MCSubUser
    SubSource <- MCSubSource
    Workers = {w1, w2}
    Tokens <- MCTokens
    AttemptLimits = {2}
    Priorities = {0}
    Reasons = {FALSE}
    Lease = 1
    RetryBase = 1
    NoUser = NoUser
    NoSource = NoSource
    NoSub = NoSub
    NoWorker = NoWorker
    NoToken = NoToken
SYMMETRY MCSymmetry
INVARIANTS
    QueueTypeOK QueueInv
    OneActiveRefresh
    OneActiveFetch
    RetryBudget
    ClaimIntegrity
PROPERTY LeaseExclusive
