SPECIFICATION FairSpec
CONSTANTS
    u1 = u1
    x1 = x1
    s1 = s1
    s2 = s2
    w1 = w1
    w2 = w2
    MaxJobs = 1
    Users = {u1}
    Sources = {x1}
    Subscriptions = {s1}
    SubUser <- MCSubUser
    SubSource <- MCSubSource
    InitialSubs = {s1}
    Admins = {u1}
    PrivateSources = {}
    FeedIntervals = {1}
    SourceIntervals = {1}
    Workers = {w1, w2}
    Tokens <- MCTokens
    AttemptLimits = {2}
    Priorities = {0}
    Reasons = {TRUE, FALSE}
    Lease = 1
    RetryBase = 1
    Quota = 2
    Postpone = 1
    ActorSources = {x1}
    Inputs = {"refresh", "plain", "cancel", "retry"}
    NoUser = NoUser
    NoSource = NoSource
    NoSub = NoSub
    NoWorker = NoWorker
    NoToken = NoToken
PROPERTY EveryJobSettles
