----------------------------- MODULE MCProgress -----------------------------
(***************************************************************************)
(* What has been started comes to an end: a run and its processes, the     *)
(* discussion of a topic and the request that holds the repository.  One   *)
(* of them is at work, the others rest in their initial states.            *)
(***************************************************************************)
EXTENDS RunExecution

CONSTANTS
    PlanningRuns, MaxTopic, MaxRevision, MaxDrafts, Human, Nobody,
    Tasks, Requests, NoOne, MaxCommits, MaxAttempts, MaxVersion

VARIABLES
    part,
    topic, event, thread, plan, revision, task, run, question, page,
    made, anc, target, work, ws, taskStatus, version, reviews, accepted, attempt, req,
    lock, host, aborted

topicVars == <<topic, event, thread, plan, revision, task, run, question, page>>
repoVars  == <<made, anc, target, work, ws, taskStatus, version, reviews, accepted, attempt, req,
               lock, host, aborted>>
allVars   == <<part, vars, topicVars, repoVars>>

Topic == INSTANCE Planning WITH Runs <- PlanningRuns, MaxVersion <- MaxTopic
Repo  == INSTANCE Integration WITH status <- taskStatus, daemon <- host

ProgressInit ==
    /\ part \in {"run", "topic", "repository"}
    /\ Init /\ Topic!Init /\ Repo!Init

ProgressNext ==
    /\ UNCHANGED part
    /\ \/ part = "run" /\ Next /\ UNCHANGED <<topicVars, repoVars>>
       \/ part = "topic" /\ Topic!Next /\ UNCHANGED <<vars, repoVars>>
       \/ part = "repository" /\ Repo!Next /\ UNCHANGED <<vars, topicVars>>

\* Each part under the fairness that its module states and justifies.
ProgressSpec ==
    /\ ProgressInit /\ [][ProgressNext]_allVars
    /\ \/ part = "run" /\ Fairness
       \/ part = "topic" /\ Topic!Fairness
       \/ part = "repository" /\ Repo!Fairness

DiscussionIsTakenUp == part = "topic" => Topic!DiscussionIsTakenUp
LockIsReturned      == Repo!LockIsReturned

\* The comment on RecoverLost: the recovery marks a run LOST after it has
\* proved that the old runner does not exist.  The list it works from may be
\* older than the start of the runner.
LostRunIsNotExecuting ==
    \A r \in Runs : status[r] = "LOST" => ~(At(r, "WAIT") /\ agent[r] = "ALIVE")
=============================================================================
