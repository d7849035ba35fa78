\* One topic with three planning runs, or one task with two test cases.
SPECIFICATION ReviewSpec
CONSTANTS
    Runs = {r1, r2, r3}
    MaxVersion = 5
    MaxRevision = 2
    MaxDrafts = 2
    Human = Human
    Nobody = Nobody
    Cases = {k1, k2}
    Foreign = foreign
    Commands = {c1}
    Unrun = unrun
    Points = {1}
    Verdicts = {"PASSED", "FAILED"}
    LogLines = 1
    MaxItems = 2
    MaxRuns = 2
    MaxSyncs = 1
    MaxEstimates = 1
SYMMETRY ReviewSymmetry
INVARIANTS
    TopicInvariant
    PlanHeardEverybody
    EvidenceInvariant
PROPERTIES
    ReviewedAsRead
    CommandEvidenceWasObserved
    AcceptanceIsVerified
CHECK_DEADLOCK FALSE
