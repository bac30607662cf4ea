SPECIFICATION Spec
CONSTANTS
    Tokens = {t1}
    Opened = t1
    Pages = {"tokens", "portfolio", "trades"}
    Events = {"fee"}
    Handlers = {h1, h2}
    Nothing = Nothing
    MaxCommits = 2
    MaxFaults = 1
    MaxVisits = 1
INVARIANTS TypeOK FreshUnderVersion AnswersCoverAnnounced CurrentWhenQuiet
PROPERTIES ListsCatchUp
CHECK_DEADLOCK FALSE
