SPECIFICATION Spec
CONSTANTS
    Tokens = {t1}
    Opened = t1
    Pages = {"token"}
    Events = {"trade"}
    Handlers = {h1}
    Nothing = Nothing
    MaxCommits = 1
    MaxFaults = 1
    MaxVisits = 0
INVARIANTS CurrentAfterRecovery
CHECK_DEADLOCK FALSE
