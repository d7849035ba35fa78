\* Three runs of one task under two revisions, or a prompt of every purpose.
SPECIFICATION AgentSpec
CONSTANTS
    AtWork = {"session", "prompt"}
    MaxAsks = 0
    MaxPipe = 1
    Permissions = {}
    MaxEvents = 1
    Limit = 1
    MaxBreaks = 0
    Runs = {r1, r2, r3}
    Revisions = {p1, p2}
    Sessions = {s1, s2}
    Threads = {t1, t2}
    None = None
    Sizes = {1, 3}
    Needed = 2
    Budget = 9
SYMMETRY SessionSymmetry
INVARIANTS
    SessionInvariant
    PromptInvariant
PROPERTIES
    SessionsKeepThreads
CHECK_DEADLOCK FALSE
