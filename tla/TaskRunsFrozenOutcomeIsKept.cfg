SPECIFICATION Spec
CONSTANTS
    MaxTasks = 1
    MaxRuns = 4
    MaxFeedback = 1
    MaxInput = 2
    MaxWorkers = 1
    Priorities = {0}
    Configured = {"TRIAGE", "IMPLEMENTATION", "REVISION", "REVIEW"}
    Failures = {"FAILED"}
    WorkspaceMayFail = FALSE
INVARIANTS
    FrozenOutcomeIsKept
CHECK_DEADLOCK FALSE
