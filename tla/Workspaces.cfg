CONSTANTS
    Tasks = {t1}
    Branches = {main, dev}
    Requests = {q1, q2}
    NoOne = NoOne
    Default = main
    MaxCommits = 1
    MaxVersion = 3
SPECIFICATION Spec
SYMMETRY WorkspacesSymmetry
INVARIANTS
    WorkspaceInvariant
PROPERTIES
    ReadyIsNotCreatedAgain
CHECK_DEADLOCK FALSE
