------------------------------ MODULE MCPolicy ------------------------------
(***************************************************************************)
(* What an agent may use: the experiences of the project, or the skills    *)
(* and servers of its profile.  One of them is at work, the others rest in *)
(* an initial state.                                                       *)
(***************************************************************************)
EXTENDS ExperienceLedger, Sequences, TLC

CONSTANTS
    Profiles, Skills, Servers, Texts, Unreadable, People, Bindings,
    MaxRuns, MaxRevisions, MaxEdits, MaxVersion,
    Alice      \* the one who edits profiles where there are servers

VARIABLES part, file, codex, catalogue, registered, revisions, form, reading, runs

policyVars == <<file, codex, catalogue, registered, revisions, form, reading, runs>>

Policy == INSTANCE RunPolicy

ASSUME SkillsAssumption == Policy!PolicyAssumption

PolicyInit ==
    /\ part \in {"experience", "policy", "catalogue"}
    /\ Init
    /\ Policy!Init
    /\ part # "experience" => \A r, q \in Runs : task[r] = task[q] /\ linked[r] = {}
    /\ part = "experience" => \A k \in Skills : file[k].text = CHOOSE t \in Texts : TRUE

\* One person binds a skill and a server again and again, or everybody follows
\* a file that is edited, where there are no servers.
Scope ==
    IF part = "catalogue"
      THEN /\ codex = {}
           /\ \A p \in Profiles : /\ Len(revisions[p]) <= 2
                                  /\ \A k \in Skills : Policy!Current(p).skills[k] # "optional"
      ELSE /\ \A k \in Skills : file[k].edits <= 1 /\ catalogue[k].version <= 1
           /\ \A x \in People \ {Alice} : form[x] = Policy!Idle /\ reading[x] = Policy!Idle

PolicyNext ==
    /\ UNCHANGED part
    /\ \/ part = "experience" /\ Next /\ UNCHANGED policyVars
       \/ part # "experience" /\ Policy!Next /\ UNCHANGED vars
    /\ Scope'

PolicySpec == PolicyInit /\ [][PolicyNext]_<<part, vars, policyVars>>

PolicySymmetry == Permutations(Experiences) \cup Permutations(Runs) \cup Permutations(Subjects)

\* What RunPolicy says of the runs.
PolicyInvariant == Policy!PolicyInvariant

\* Neither people nor refreshes bring back what was given up: a retired record or
\* the former content of a skill.
NothingComesBack == RetiredStaysRetired /\ Policy!CatalogueMovesForward
=============================================================================
