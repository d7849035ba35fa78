\* One task and one version on two branches, or two daemons and a runner.
SPECIFICATION ProjectSpec
CONSTANTS
    Tasks = {t1}
    Versions = {v1}
    Branches = {main, dev}
    Default = main
    Requests = {q1, q2}
    NoOne = NoOne
    MaxChanges = 2
    Daemons = {d1, d2}
    Runners = {r1}
    Nobody = Nobody
    MaxFacts = 2
    Faults = {"rename", "lstat", "crash"}
CONSTRAINT Scope
SYMMETRY ProjectSymmetry
INVARIANTS
    ReleaseInvariant
    StateInvariant
PROPERTIES
    PublishedIsFixed
CHECK_DEADLOCK FALSE
