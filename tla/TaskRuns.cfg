\* One task in depth, one in discussion, or two or three side by side: see Scope.
SPECIFICATION Spec
CONSTANTS
    MaxTasks = 3
    MaxRuns = 4
    MaxFeedback = 2
    MaxInput = 2
    MaxWorkers = 2
    Priorities = {0, 1}
    Configured = {"TRIAGE", "IMPLEMENTATION", "REVISION", "REVIEW"}
    Failures = {"FAILED"}
    WorkspaceMayFail = TRUE
CONSTRAINT Scope
INVARIANTS
    TypeOK
    BlockedTaskHasWayOut
    AnswerReachesOneRun
    OutcomeMatchesIntent
    ImplementationFollowsTriage
    FeedbackFollowsRun
    RunningTaskIsWorked
PROPERTIES
    HoldsLease
CHECK_DEADLOCK FALSE
