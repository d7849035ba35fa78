\* Liveness, so no symmetry: a turn with two requests for approval and at most one
\* of a failing store, a jammed input and an heir, or a page with four events read
\* two at a time.
SPECIFICATION FairAgentSpec
CONSTANTS
    AtWork = {"turn", "page"}
    MaxAsks = 2
    MaxPipe = 2
    Permissions = {2}
    MaxEvents = 4
    Limit = 2
    MaxBreaks = 2
    Runs = {r1}
    Revisions = {p1}
    Sessions = {s1}
    Threads = {t1}
    None = None
    Sizes = {1}
    Needed = 1
    Budget = 1
INVARIANTS
    TurnAndPageInvariant
PROPERTIES
    TurnEndsInTime
    EventsAreHandledInOrder
    EndReachesEverybody
CHECK_DEADLOCK FALSE
