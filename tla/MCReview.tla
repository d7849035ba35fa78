------------------------------ MODULE MCReview ------------------------------
(***************************************************************************)
(* What a reviewer decides on: the plan of a topic, or the evidence for a  *)
(* task.  One of the two is at work, the other rests in its initial state. *)
(***************************************************************************)
EXTENDS Planning, TLC

CONSTANTS
    Cases, Foreign, Commands, Unrun, Points, Verdicts, LogLines,
    MaxItems, MaxRuns, MaxSyncs, MaxEstimates

VARIABLES part, status, accepting, syncs, case, estimates, taskRun, runs, ended

evidenceVars == <<status, accepting, syncs, case, estimates, taskRun, runs, ended>>

Task == INSTANCE Evidence WITH run <- taskRun, Outcomes <- Verdicts

ASSUME EvidenceConstants == Task!EvidenceAssumption

\* Two planning runs with plans of two drafts, or three with plans of one, up to
\* version 4.  Two runs of the task with a synchronization between them, or one run
\* with a report of two parts and an estimate.
Small ==
    /\ topic.version <= 4
    /\ \A r \in Runs : run[r].drafts <= 1
    /\ \A n \in DOMAIN revision : revision[n].drafts = 1
Scope ==
    /\ Small \/ \E r \in Runs : run[r].status = "ABSENT"
    /\ part = "evidence" => Len(taskRun.report) <= 1 /\ estimates = <<>>
    /\ part = "report" => runs <= 1 /\ syncs = 0

ReviewInit ==
    /\ part \in {"plan", "evidence", "report"}
    /\ Init /\ Task!Init

ReviewNext ==
    /\ UNCHANGED part
    /\ \/ part = "plan" /\ Next /\ UNCHANGED evidenceVars
       \/ part # "plan" /\ Task!Next /\ UNCHANGED vars
    /\ Scope'

ReviewSpec == ReviewInit /\ [][ReviewNext]_<<part, vars, evidenceVars>>

ReviewSymmetry == Permutations(Runs) \cup Permutations(Cases) \cup Permutations(Commands)

\* What Evidence says of the task.
EvidenceInvariant          == Task!EvidenceInvariant
CommandEvidenceWasObserved == Task!CommandEvidenceWasObserved
AcceptanceIsVerified       == Task!AcceptanceIsVerified
=============================================================================
