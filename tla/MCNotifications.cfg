SPECIFICATION FairSpec
CONSTANTS
    Targets = {t1}
    Dests = {d1, d2}
    Tokens = {k1}
    Testers = {}
    Subs = {s1}
    Articles = {a1, a2}
    Workers = {w1, w2}
    Incidents = {}
    AlertWorkers = {}
    StartChannels = {"email", "telegram", "webhook"}
    StartNew = {FALSE}
    Scenes = {{}}
    MaxClock = 3
    None = None
INVARIANTS RightDestination WithdrawnNeverSent
PROPERTIES NoBackfill ImplementsLedger TakenUp
CHECK_DEADLOCK FALSE
