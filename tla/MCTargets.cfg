SPECIFICATION Spec
CONSTANTS
    Targets = {t1}
    Dests = {d1, d2}
    Tokens = {k1}
    Testers = {p1}
    Subs = {}
    Articles = {}
    Workers = {}
    Incidents = {n1}
    AlertWorkers = {x1}
    StartChannels = {"email", "telegram"}
    StartNew = {TRUE, FALSE}
    Scenes = {{"tests"}, {"alerts"}}
    MaxClock = 3
    None = None
SYMMETRY Values
INVARIANTS NotificationsTypeOK TestedInUse RightDestination
PROPERTIES NoBackfill ImplementsLedger
CHECK_DEADLOCK FALSE
