\* Liveness, so no symmetry: one run, one topic with three planning runs, or one
\* task with two requests.
SPECIFICATION ProgressSpec
CONSTANTS
    Runs = {r1}
    NoRun = NoRun
    MaxRestarts = 2
    WorkspaceMayFail = TRUE
    PlanningRuns = {q1, q2, q3}
    MaxTopic = 3
    MaxRevision = 1
    MaxDrafts = 1
    Human = Human
    Nobody = Nobody
    Tasks = {t1}
    Requests = {p1, p2}
    NoOne = NoOne
    MaxCommits = 3
    MaxAttempts = 1
    MaxVersion = 3
INVARIANTS
    RunInvariant
PROPERTIES
    KeepsRunLife
    EveryRunEnds
    EndedRunIsLeft
    DiscussionIsTakenUp
    LockIsReturned
CHECK_DEADLOCK FALSE
