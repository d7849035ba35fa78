----------------------------- MODULE MCTaskRuns -----------------------------
(***************************************************************************)
(* TaskRuns for TLC, and what comments in the source say of it that the    *)
(* code does not keep: each claim is refuted by a run of its own.          *)
(***************************************************************************)
EXTENDS TaskRuns, FiniteSets

TasksMade == Cardinality({t \in Tasks : taskStatus[t] # "ABSENT"})
RunsMade  == Cardinality({r \in Runs : runStatus[r] # "ABSENT"})
Requested == {f \in DOMAIN feedback : feedback[f].status # "ABSENT"}

\* The bounds of the constants are reached one at a time: one task through all
\* its runs and questions (a fourth run beside an edit only while none was lost),
\* one task in discussion with its reviewers, or tasks of different priority side
\* by side: three that compete for two workers, and two that are triaged one after
\* the other and then worked on at the same time (up to a fourth run when one of
\* them is urgent).
Plain   == \A t \in Tasks : priority[t] = 0
Claimed == \A r \in Runs : runStatus[r] \in {"ABSENT", "CLAIMED"}
InTurn  == \A r \in Runs : claim[r].purpose = "TRIAGE" =>
               \/ runStatus[r] = "SUCCEEDED"
               \/ runStatus[r] \in Active /\ \A s \in Runs \ {r} : runStatus[s] \in {"ABSENT", "SUCCEEDED"}
Scope ==
    \/ /\ TasksMade <= 1 /\ Requested = {} /\ Plain
       /\ \/ RunsMade <= 3 \/ \A r \in Runs : runStatus[r] # "LOST"
          \/ \A t \in Tasks : inputVersion[t] <= 1
    \/ TasksMade <= 1 /\ RunsMade <= 3 /\ Plain /\ \A t \in Tasks : inputVersion[t] <= 1
    \/ /\ Requested = {} /\ \A t \in Tasks : inputVersion[t] <= 1
       /\ \A t \in Tasks : taskStatus[t] \in {"ABSENT", "READY", "RUNNING", "BLOCKED"}
       /\ Claimed \/ (TasksMade <= 2 /\ InTurn /\ (RunsMade <= 3 \/ ~Plain))

\* The terminal state frozen before the finalization is the one the run ends
\* in, across a crash too (storage/run.go, FinalizationIntent).
FrozenOutcomeIsKept ==
    \A r \in Runs : (intent[r] # "NONE" /\ runStatus[r] \in Terminal) => runStatus[r] = intent[r]
=============================================================================
