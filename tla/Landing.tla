------------------------------- MODULE Landing -------------------------------
(***************************************************************************)
(* What integration promises to the owner of the target branch             *)
(* (src/internal/gitworkflow/integration.go): nothing written is ever      *)
(* taken off the branch, and the only commits the program itself puts on   *)
(* it are commits a human accepted, by fast-forward.  Everybody may write  *)
(* commits, and the owner may commit on the branch at any time.            *)
(***************************************************************************)
EXTENDS Naturals

CONSTANTS MaxCommits

Commits == 1..MaxCommits

VARIABLES
    made,       \* the commits written so far are 1..made; 1 is the first
    anc,        \* the ancestors of each commit, itself included
    target,     \* head of the target branch
    accepted    \* the commits humans accepted

vars == <<made, anc, target, accepted>>

Init ==
    /\ made = 1
    /\ anc = [c \in Commits |-> IF c = 1 THEN {1} ELSE {}]
    /\ target = 1
    /\ accepted = {}

Write(parents) ==
    /\ made < MaxCommits
    /\ made' = made + 1
    /\ anc' = [anc EXCEPT ![made + 1] = {made + 1} \cup UNION {anc[q] : q \in parents}]

\* A commit somewhere else: the branch stays.
WriteAside == /\ \E parents \in SUBSET (1..made) : Write(parents)
              /\ UNCHANGED <<target, accepted>>

\* The owner's commit on the branch.
WriteOnTarget == /\ Write({target})
                 /\ target' = made + 1
                 /\ UNCHANGED accepted

Accept == /\ \E c \in 1..made : accepted' = accepted \cup {c}
          /\ UNCHANGED <<made, anc, target>>

\* An accepted commit that contains all of the branch becomes its head.
Land == /\ \E c \in accepted : target \in anc[c] /\ target' = c
        /\ UNCHANGED <<made, anc, accepted>>

Next == WriteAside \/ WriteOnTarget \/ Accept \/ Land

Spec == Init /\ [][Next]_vars
=============================================================================
