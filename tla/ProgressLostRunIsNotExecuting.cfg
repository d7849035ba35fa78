SPECIFICATION ProgressSpec
CONSTANTS
    Runs = {r1}
    NoRun = NoRun
    MaxRestarts = 1
    WorkspaceMayFail = FALSE
    PlanningRuns = {q1}
    MaxTopic = 1
    MaxRevision = 1
    MaxDrafts = 1
    Human = Human
    Nobody = Nobody
    Tasks = {t1}
    Requests = {p1}
    NoOne = NoOne
    MaxCommits = 1
    MaxAttempts = 0
    MaxVersion = 1
INVARIANT LostRunIsNotExecuting
CHECK_DEADLOCK FALSE
