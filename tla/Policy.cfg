\* Two experiences and two runs; or a profile with one skill, and a server or a
\* second person.
SPECIFICATION PolicySpec
CONSTANTS
    Experiences = {e1, e2}
    Subjects = {s1, s2}
    Runs = {r1, r2}
    Nothing = Nothing
    Limit = 1
    MaxOutcomes = 3
    Profiles = {implementer}
    Skills = {k1}
    Servers = {m1}
    Texts = {old, new}
    Unreadable = Unreadable
    People = {Alice, Bob}
    Alice = Alice
    Bindings = {"unbound", "optional", "required"}
    MaxRuns = 1
    MaxRevisions = 3
    MaxEdits = 2
    MaxVersion = 3
SYMMETRY PolicySymmetry
INVARIANTS
    ExperienceInvariant
    PolicyInvariant
PROPERTIES
    NothingComesBack
CHECK_DEADLOCK FALSE
