\* One task, two requests in every interleaving, a sync and its revision.
SPECIFICATION Spec
CONSTANTS
    Tasks = {t1}
    Requests = {p1, p2}
    NoOne = NoOne
    MaxCommits = 4
    MaxAttempts = 2
    MaxVersion = 4
SYMMETRY Symmetry
INVARIANT TypeOK
PROPERTIES VerdictIsTrue LandsReserved SyncIsRevised HoldsLanding
