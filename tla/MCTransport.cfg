SPECIFICATION Spec
CONSTANTS
    Targets = {t1}
    Dests = {d1}
    Tokens = {k1, k2}
    Testers = {p1}
    Subs = {}
    Articles = {}
    Workers = {}
    Incidents = {}
    AlertWorkers = {}
    StartChannels = {"telegram"}
    StartNew = {FALSE}
    Scenes = {{"tests"}}
    MaxClock = 3
    None = None
INVARIANT TransportTested
CHECK_DEADLOCK FALSE
