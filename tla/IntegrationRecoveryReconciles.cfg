SPECIFICATION Spec
CONSTANTS
    Tasks = {t1}
    Requests = {p1}
    NoOne = NoOne
    MaxCommits = 4
    MaxAttempts = 1
    MaxVersion = 4
INVARIANT RecoveryReconciles
