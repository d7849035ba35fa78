------------------------------- MODULE TaskRuns -------------------------------
(***************************************************************************)
(* Tasks, the Agent Runs that work on them, the questions Runs ask and the *)
(* feedback humans give: the tables of the project database and the store  *)
(* operations on them (src/internal/storage).  Every store method is one   *)
(* SQLite transaction, so every operation is one action.  The actors are   *)
(* the scheduler (ClaimNextTask), one runner process per Run (Start to     *)
(* CompleteFinalization and Finish), the supervisor that cleans up after a *)
(* runner that is gone (Recover) and the humans at the HTTP API.           *)
(*                                                                         *)
(* Human commands carry the task version they were decided on and are      *)
(* refused when it is no longer current: a command that takes effect reads *)
(* the current state, so the version itself is not modelled.  Topics and   *)
(* PLANNING runs are the subject of another module: here they could only   *)
(* take capacity, that is, disable claims.                                 *)
(***************************************************************************)
EXTENDS TaskStates, Integers, FiniteSets

CONSTANTS
    MaxTasks,           \* bound on the rows of tasks
    MaxRuns,            \* bound on the rows of runs
    MaxFeedback,        \* bound on the rows of task_feedback_turns
    MaxInput,           \* bound on tasks.assessment_input_version
    MaxWorkers,         \* worker concurrency setting
    Priorities,         \* task priorities, the smallest first
    Configured,         \* purposes whose default profile has a command
    Failures,           \* unsuccessful outcomes an agent process may have
    WorkspaceMayFail    \* git may fail while a workspace is finalized

ASSUME BoundsAssumption ==
    /\ MaxTasks \in Nat /\ MaxRuns \in Nat /\ MaxFeedback \in Nat
    /\ MaxInput \in Nat \ {0} /\ MaxWorkers \in Nat \ {0}
ASSUME ChoicesAssumption ==
    /\ Priorities \subseteq Nat
    /\ Configured \subseteq {"TRIAGE", "IMPLEMENTATION", "REVISION", "REVIEW"}
    /\ Failures \subseteq {"FAILED", "CANCELLED", "TIMED_OUT"}
    /\ WorkspaceMayFail \in BOOLEAN

Tasks     == 1..MaxTasks          \* in the order of creation
Runs      == 1..MaxRuns           \* in the order of creation
Feedbacks == 1..MaxFeedback       \* in the order of creation
None      == 0                    \* the null reference to a task, run or turn

Purposes  == {"TRIAGE", "IMPLEMENTATION", "REVISION", "REVIEW"}
Active    == {"CLAIMED", "STARTING", "RUNNING", "FINALIZING"}
Terminal  == {"SUCCEEDED", "FAILED", "CANCELLED", "TIMED_OUT", "LOST",
              "NEEDS_INPUT"}

VARIABLES
    taskStatus,     \* tasks.status, "ABSENT" before the row exists
    priority,       \* tasks.priority
    inputVersion,   \* tasks.assessment_input_version
    workspaces,     \* the tasks with a current_workspace_id
    runStatus,      \* runs.status, "ABSENT" before the row exists
    claim,          \* what the run was claimed for: purpose, task, subject, continues
    intent,         \* terminal status frozen in run_finalization_intents, or "NONE"
    completed,      \* the runs whose intent has a completed_at
    assessed,       \* the runs whose assessment is in task_assessments
    question,       \* the clarification a run asked: "NONE", "OPEN" or "ANSWERED"
    answeredAt,     \* clarifications.answered_at: the rank of the answer, 0 before
    feedback        \* task_feedback_turns

taskVars == <<taskStatus, priority, inputVersion, workspaces>>
runVars  == <<runStatus, claim, intent, completed, assessed, question, answeredAt>>
vars     == <<taskVars, runVars, feedback>>

NoClaim    == [purpose |-> "NONE", task |-> None, subject |-> 0, continues |-> None]
NoFeedback == [status |-> "ABSENT", task |-> None, run |-> None, retryOf |-> None]

TypeOK ==
    /\ taskStatus \in [Tasks -> TaskStatus \cup {"ABSENT"}]
    /\ priority \in [Tasks -> Nat]
    /\ inputVersion \in [Tasks -> Nat]
    /\ workspaces \subseteq Tasks
    /\ runStatus \in [Runs -> Active \cup Terminal \cup {"ABSENT"}]
    /\ claim \in [Runs -> [purpose : Purposes \cup {"NONE"}, task : Tasks \cup {None},
                           subject : Nat, continues : Runs \cup {None}]]
    /\ intent \in [Runs -> Terminal \cup {"NONE"}]
    /\ completed \subseteq Runs
    /\ assessed \subseteq Runs
    /\ question \in [Runs -> {"NONE", "OPEN", "ANSWERED"}]
    /\ answeredAt \in [Runs -> Nat]
    /\ feedback \in [Feedbacks ->
            [status : {"ABSENT", "QUEUED", "RUNNING", "ANSWERED", "FAILED"},
             task : Tasks \cup {None}, run : Runs \cup {None},
             retryOf : Feedbacks \cup {None}]]

Init ==
    /\ taskStatus = [t \in Tasks |-> "ABSENT"]
    /\ priority = [t \in Tasks |-> 0]
    /\ inputVersion = [t \in Tasks |-> 0]
    /\ workspaces = {}
    /\ runStatus = [r \in Runs |-> "ABSENT"]
    /\ claim = [r \in Runs |-> NoClaim]
    /\ intent = [r \in Runs |-> "NONE"]
    /\ completed = {}
    /\ assessed = {}
    /\ question = [r \in Runs |-> "NONE"]
    /\ answeredAt = [r \in Runs |-> 0]
    /\ feedback = [f \in Feedbacks |-> NoFeedback]

-----------------------------------------------------------------------------
(* Derived relations between the tables.                                   *)

IsActive(r)  == runStatus[r] \in Active
ActiveRuns   == {r \in Runs : IsActive(r)}
RunsOf(t)    == {r \in Runs : claim[r].task = t}
Engaged(t)   == \E r \in RunsOf(t) : IsActive(r)

\* Only these runs change their task's status; triage and discussion do not.
IsWork(r)    == claim[r].purpose \in {"IMPLEMENTATION", "REVISION"}

Worker(t)    == {r \in RunsOf(t) : IsWork(r) /\ IsActive(r)}

OpenQuestions(t) == {r \in RunsOf(t) : question[r] = "OPEN"}

\* Mutant: answers that were taken up are taken up again.
PendingAnswers_Relink(t, p) ==
    {r \in RunsOf(t) : claim[r].purpose = p /\ question[r] = "ANSWERED"}

\* Answered questions of runs with purpose p that no later run has taken up.
PendingAnswers(t, p) ==
    {r \in RunsOf(t) : /\ claim[r].purpose = p
                       /\ question[r] = "ANSWERED"
                       /\ \A s \in Runs : claim[s].continues # r}

\* The continuation_of_run_id of the next run: the run answered first.
Continuations(t, p) ==
    IF PendingAnswers(t, p) = {} THEN {None}
    ELSE {r \in PendingAnswers(t, p) :
            \A s \in PendingAnswers(t, p) : answeredAt[r] <= answeredAt[s]}

TriagedAs(t, outcomes) ==
    \E r \in RunsOf(t) : /\ claim[r].purpose = "TRIAGE"
                         /\ claim[r].subject = inputVersion[t]
                         /\ runStatus[r] \in outcomes
Assessed(t) == \E r \in RunsOf(t) \cap assessed : claim[r].subject = inputVersion[t]

\* The database order of the tasks in a queue: priority, then creation.
First(t, queue) ==
    /\ t \in queue
    /\ \A u \in queue \ {t} :
         priority[t] < priority[u] \/ (priority[t] = priority[u] /\ t < u)

IsNewTask(t)     == taskStatus[t] = "ABSENT" /\ \A u \in Tasks : u < t => taskStatus[u] # "ABSENT"
IsNewRun(r)      == runStatus[r] = "ABSENT" /\ \A s \in Runs : s < r => runStatus[s] # "ABSENT"
IsNewFeedback(f) == /\ feedback[f].status = "ABSENT"
                    /\ \A g \in Feedbacks : g < f => feedback[g].status # "ABSENT"

-----------------------------------------------------------------------------
(* The queues of the scheduler and the claim.                              *)

RevisionQueue ==
    {t \in Tasks : "REVISION" \in Configured /\ taskStatus[t] = "CHANGES_REQUESTED"}

ReviewQueue ==
    {f \in Feedbacks : /\ "REVIEW" \in Configured
                       /\ feedback[f].status = "QUEUED"
                       /\ ~Engaged(feedback[f].task)}

TriageQueue ==
    {t \in Tasks : /\ "TRIAGE" \in Configured
                   /\ taskStatus[t] = "READY"
                   /\ \/ PendingAnswers(t, "TRIAGE") # {}
                      \/ ~Assessed(t) /\ ~TriagedAs(t, Active \cup Terminal)}

\* Mutant: triage that waits for an answer counts as done.
ImplementationQueue_AfterQuestion ==
    {t \in Tasks : /\ taskStatus[t] = "READY"
                   /\ Assessed(t) \/ TriagedAs(t, Terminal)
                   /\ ~Engaged(t)}

ImplementationQueue ==
    {t \in Tasks : /\ "IMPLEMENTATION" \in Configured
                   /\ taskStatus[t] = "READY"
                   /\ \/ Assessed(t)
                      \/ TriagedAs(t, Terminal \ {"NEEDS_INPUT"})
                      \/ "TRIAGE" \notin Configured
                   /\ ~Engaged(t)}

\* Apply command c of the task state machine to task t.
ApplyCommand(t, c) ==
    /\ taskStatus[t] \in Sources(c)
    /\ taskStatus' = [taskStatus EXCEPT ![t] = Target(c)]

\* Mutant: one worker more than configured.
InsertClaimedRun_OneTooMany(r, p, t, subject) ==
    /\ IsNewRun(r)
    /\ Cardinality(ActiveRuns) <= MaxWorkers
    /\ ~Engaged(t)
    /\ \E s \in Continuations(t, p) :
         claim' = [claim EXCEPT ![r] = [purpose |-> p, task |-> t,
                                        subject |-> subject, continues |-> s]]
    /\ runStatus' = [runStatus EXCEPT ![r] = "CLAIMED"]
    /\ UNCHANGED <<intent, completed, assessed, question, answeredAt>>

\* Insert the run.  The unique index on active runs refuses a second one for
\* the task, and the oldest pending answer becomes the run's continuation.
InsertClaimedRun(r, p, t, subject) ==
    /\ IsNewRun(r)
    /\ Cardinality(ActiveRuns) < MaxWorkers
    /\ ~Engaged(t)
    /\ \E s \in Continuations(t, p) :
         claim' = [claim EXCEPT ![r] = [purpose |-> p, task |-> t,
                                        subject |-> subject, continues |-> s]]
    /\ runStatus' = [runStatus EXCEPT ![r] = "CLAIMED"]
    /\ UNCHANGED <<intent, completed, assessed, question, answeredAt>>

ClaimRevision(r) ==
    \E t \in Tasks :
        /\ First(t, RevisionQueue)
        /\ InsertClaimedRun(r, "REVISION", t, 0)
        /\ ApplyCommand(t, "CLAIM_RUN")
        /\ UNCHANGED <<priority, inputVersion, workspaces, feedback>>

ClaimReview(r) ==
    /\ RevisionQueue = {}
    /\ \E f \in ReviewQueue :
        /\ \A g \in ReviewQueue : f <= g
        /\ InsertClaimedRun(r, "REVIEW", feedback[f].task, 0)
        /\ feedback' = [feedback EXCEPT ![f] = [@ EXCEPT !.status = "RUNNING", !.run = r]]
        /\ UNCHANGED taskVars

ClaimTriage(r) ==
    /\ RevisionQueue = {} /\ ReviewQueue = {}
    /\ \E t \in Tasks :
        /\ First(t, TriageQueue)
        /\ InsertClaimedRun(r, "TRIAGE", t, inputVersion[t])
        /\ UNCHANGED <<taskVars, feedback>>

ClaimImplementation(r) ==
    /\ RevisionQueue = {} /\ ReviewQueue = {} /\ TriageQueue = {}
    /\ \E t \in Tasks :
        /\ First(t, ImplementationQueue)
        /\ InsertClaimedRun(r, "IMPLEMENTATION", t, 0)
        /\ ApplyCommand(t, "CLAIM_RUN")
        /\ UNCHANGED <<priority, inputVersion, workspaces, feedback>>

ClaimNextTask(r) == \/ ClaimRevision(r) \/ ClaimReview(r)
                    \/ ClaimTriage(r) \/ ClaimImplementation(r)

-----------------------------------------------------------------------------
(* The life of a run.                                                      *)

Start(r) ==
    /\ runStatus[r] = "CLAIMED"
    /\ runStatus' = [runStatus EXCEPT ![r] = "STARTING"]
    /\ UNCHANGED <<taskVars, claim, intent, completed, assessed, question,
                   answeredAt, feedback>>

\* The runner has prepared the directory of the agent: for a work run, the
\* workspace of the task.
MarkRunning(r) ==
    /\ runStatus[r] = "STARTING"
    /\ IsWork(r) => claim[r].task \in workspaces
    /\ runStatus' = [runStatus EXCEPT ![r] = "RUNNING"]
    /\ UNCHANGED <<taskVars, claim, intent, completed, assessed, question,
                   answeredAt, feedback>>

ApplyTriageResult(r) ==
    /\ runStatus[r] = "RUNNING" /\ claim[r].purpose = "TRIAGE"
    /\ claim[r].subject = inputVersion[claim[r].task]
    /\ r \notin assessed
    /\ assessed' = assessed \cup {r}
    /\ UNCHANGED <<taskVars, runStatus, claim, intent, completed, question,
                   answeredAt, feedback>>

\* The outcomes a runner can have collected when the agent is gone: recording
\* the assessment makes triage a success, and discussion cannot ask.
Collected(r) ==
    CASE claim[r].purpose = "TRIAGE" ->
            IF r \in assessed THEN {"SUCCEEDED"} ELSE Failures \cup {"NEEDS_INPUT"}
      [] claim[r].purpose = "REVIEW" -> Failures \cup {"SUCCEEDED"}
      [] OTHER                       -> Failures \cup {"SUCCEEDED", "NEEDS_INPUT"}

\* Mutant: the question is put to the human before the finalization completes.
BeginFinalization_Asks(r, s) ==
    /\ runStatus[r] = "RUNNING"
    /\ s \in Collected(r)
    /\ runStatus' = [runStatus EXCEPT ![r] = "FINALIZING"]
    /\ intent' = [intent EXCEPT ![r] = s]
    /\ question' = [question EXCEPT ![r] = IF s = "NEEDS_INPUT" THEN "OPEN" ELSE @]
    /\ UNCHANGED <<taskVars, claim, completed, assessed, answeredAt, feedback>>

BeginFinalization(r, s) ==
    /\ runStatus[r] = "RUNNING"
    /\ s \in Collected(r)
    /\ runStatus' = [runStatus EXCEPT ![r] = "FINALIZING"]
    /\ intent' = [intent EXCEPT ![r] = s]
    /\ UNCHANGED <<taskVars, claim, completed, assessed, question,
                   answeredAt, feedback>>

\* Mutant: the feedback turn of a lost run is forgotten.
EndRun_KeepsTurn(r, s) ==
    /\ runStatus' = [runStatus EXCEPT ![r] = s]
    /\ IF IsWork(r) THEN ApplyCommand(claim[r].task, FinishCommand(s))
                    ELSE UNCHANGED taskStatus
    /\ feedback' = [f \in Feedbacks |->
            IF s # "LOST" /\ feedback[f].run = r /\ feedback[f].status = "RUNNING"
            THEN [feedback[f] EXCEPT
                    !.status = IF s = "SUCCEEDED" THEN "ANSWERED" ELSE "FAILED"]
            ELSE feedback[f]]
    /\ UNCHANGED <<priority, inputVersion, workspaces, claim, intent, assessed, answeredAt>>

\* Run r ends with status s: a work run moves its task, a discussion settles
\* its feedback turn.
EndRun(r, s) ==
    /\ runStatus' = [runStatus EXCEPT ![r] = s]
    /\ IF IsWork(r) THEN ApplyCommand(claim[r].task, FinishCommand(s))
                    ELSE UNCHANGED taskStatus
    /\ feedback' = [f \in Feedbacks |->
            IF claim[r].purpose = "REVIEW" /\ feedback[f].run = r
                                           /\ feedback[f].status = "RUNNING"
            THEN [feedback[f] EXCEPT
                    !.status = IF s = "SUCCEEDED" THEN "ANSWERED" ELSE "FAILED"]
            ELSE feedback[f]]
    /\ UNCHANGED <<priority, inputVersion, workspaces, claim, intent, assessed, answeredAt>>

\* The frozen intent can be applied: the unique index on open clarifications
\* refuses a second open question for the task.
CanComplete(r) ==
    /\ runStatus[r] = "FINALIZING" /\ r \notin completed
    /\ intent[r] = "NEEDS_INPUT" => OpenQuestions(claim[r].task) = {}

CompleteFinalization(r) ==
    /\ CanComplete(r)
    /\ EndRun(r, intent[r])
    /\ completed' = completed \cup {r}
    /\ question' = [question EXCEPT ![r] = IF intent[r] = "NEEDS_INPUT" THEN "OPEN" ELSE @]

\* The runner or the scheduler gives up on the run without using the intent.
Finish(r, s) ==
    /\ \/ s = "FAILED" /\ runStatus[r] \in {"CLAIMED", "STARTING", "RUNNING"}
       \/ s = "FAILED" /\ runStatus[r] = "FINALIZING" /\ IsWork(r) /\ WorkspaceMayFail
       \/ s = "LOST" /\ runStatus[r] = "CLAIMED"
    /\ EndRun(r, s)
    /\ UNCHANGED <<completed, question>>

\* Mutant: recovery does not see that the run has ended meanwhile.
RecoverLost_Again(r) ==
    /\ runStatus[r] # "ABSENT"
    /\ EndRun(r, "LOST")
    /\ UNCHANGED <<completed, question>>

RecoverLost(r) ==
    /\ IsActive(r)
    /\ EndRun(r, "LOST")
    /\ UNCHANGED <<completed, question>>

\* The runner of r is gone.  A frozen intent is replayed; the run is LOST when
\* there is none or when the replay fails.
Recover(r) ==
    \/ CompleteFinalization(r)
    \/ /\ \/ runStatus[r] # "FINALIZING"
          \/ ~CanComplete(r)
          \/ IsWork(r) /\ WorkspaceMayFail
       /\ RecoverLost(r)

-----------------------------------------------------------------------------
(* What humans do at the API.                                              *)

\* Mutant: a task starts in the backlog, which no queue reads.
NewTask_Backlog(t, p) ==
    /\ IsNewTask(t)
    /\ taskStatus' = [taskStatus EXCEPT ![t] = "BACKLOG"]
    /\ priority' = [priority EXCEPT ![t] = p]
    /\ inputVersion' = [inputVersion EXCEPT ![t] = 1]
    /\ UNCHANGED workspaces

NewTask(t, p) ==
    /\ IsNewTask(t)
    /\ taskStatus' = [taskStatus EXCEPT ![t] = "READY"]
    /\ priority' = [priority EXCEPT ![t] = p]
    /\ inputVersion' = [inputVersion EXCEPT ![t] = 1]
    /\ UNCHANGED workspaces

Create(t) ==
    /\ \E p \in Priorities : NewTask(t, p)
    /\ UNCHANGED <<runVars, feedback>>

\* Submitting, accepting (when the required tests passed), rejecting and
\* cancelling, and the synchronization of the workspace of an accepted task
\* with its moved target branch.
HumanCommand(t, c) ==
    /\ c \in {"SUBMIT_REVIEW", "ACCEPT", "REJECT", "CANCEL_TASK", "SYNC_TARGET"}
    /\ c = "SYNC_TARGET" => t \in workspaces
    /\ ApplyCommand(t, c)
    /\ UNCHANGED <<priority, inputVersion, workspaces, runVars, feedback>>

\* Requeue a blocked task by the latest of all its runs.
RetryBlocked(t) ==
    \E r \in RunsOf(t) :
        /\ \A s \in RunsOf(t) : s <= r
        /\ runStatus[r] # "NEEDS_INPUT"
        /\ ApplyCommand(t, IF claim[r].purpose = "REVISION" THEN "RESUME_REVISION" ELSE "RETRY")
        /\ UNCHANGED <<priority, inputVersion, workspaces, runVars, feedback>>

\* On an accepted task the request becomes a task of its own.
RequestChanges(t) ==
    /\ taskStatus[t] \notin {"ABSENT", "RUNNING", "CANCELLED"}
    /\ IF taskStatus[t] = "ACCEPTED"
       THEN \E u \in Tasks : NewTask(u, priority[t])
       ELSE /\ ApplyCommand(t, "REQUEST_CHANGES")
            /\ UNCHANGED <<priority, inputVersion, workspaces>>
    /\ UNCHANGED <<runVars, feedback>>

UpdateDetails(t) ==
    /\ taskStatus[t] \notin {"ABSENT", "RUNNING", "CANCELLED"}
    /\ inputVersion[t] < MaxInput
    /\ taskStatus' = [taskStatus EXCEPT ![t] =
            IF @ \in {"REVIEW", "ACCEPTED", "BLOCKED"} THEN "CHANGES_REQUESTED" ELSE @]
    /\ \E p \in Priorities : priority' = [priority EXCEPT ![t] = p]
    /\ inputVersion' = [inputVersion EXCEPT ![t] = @ + 1]
    /\ UNCHANGED <<workspaces, runVars, feedback>>

UpdateTargetBranch(t) ==
    /\ taskStatus[t] # "ABSENT" /\ t \notin workspaces
    /\ inputVersion[t] < MaxInput
    /\ inputVersion' = [inputVersion EXCEPT ![t] = @ + 1]
    /\ UNCHANGED <<taskStatus, priority, workspaces, runVars, feedback>>

\* By a human, or by the runner of a work run before MarkRunning.
CreateTaskWorkspace(t) ==
    /\ taskStatus[t] # "ABSENT" /\ t \notin workspaces
    /\ workspaces' = workspaces \cup {t}
    /\ UNCHANGED <<taskStatus, priority, inputVersion, runVars, feedback>>

\* Mutant: the answer is saved and the task stays where it is.
AnswerSubject_NoResume(r) ==
    /\ question[r] = "OPEN"
    /\ question' = [question EXCEPT ![r] = "ANSWERED"]
    /\ answeredAt' = [answeredAt EXCEPT ![r] =
            Cardinality({s \in Runs : question[s] = "ANSWERED"}) + 1]
    /\ UNCHANGED <<taskVars, runStatus, claim, intent, completed, assessed, feedback>>

\* Answer the question of run r: a task that work left BLOCKED is requeued.
AnswerSubject(r) ==
    /\ question[r] = "OPEN"
    /\ question' = [question EXCEPT ![r] = "ANSWERED"]
    /\ answeredAt' = [answeredAt EXCEPT ![r] =
            Cardinality({s \in Runs : question[s] = "ANSWERED"}) + 1]
    /\ CASE claim[r].purpose = "IMPLEMENTATION" ->
                ApplyCommand(claim[r].task, "RESUME_IMPLEMENTATION")
         [] claim[r].purpose = "REVISION" -> ApplyCommand(claim[r].task, "RESUME_REVISION")
         [] OTHER -> UNCHANGED taskStatus
    /\ UNCHANGED <<priority, inputVersion, workspaces, runStatus, claim, intent,
                   completed, assessed, feedback>>

QueueFeedback(f, t, original) ==
    /\ IsNewFeedback(f)
    /\ feedback' = [feedback EXCEPT ![f] =
            [status |-> "QUEUED", task |-> t, run |-> None, retryOf |-> original]]
    /\ UNCHANGED <<taskVars, runVars>>

Discuss(f) == \E t \in Tasks : taskStatus[t] # "ABSENT" /\ QueueFeedback(f, t, None)

RetryFeedback(f) ==
    \E original \in Feedbacks :
        /\ feedback[original].status = "FAILED"
        /\ \A g \in Feedbacks : feedback[g].retryOf # original
        /\ QueueFeedback(f, feedback[original].task, original)

-----------------------------------------------------------------------------

RunStep(r) ==
    \/ Start(r) \/ MarkRunning(r) \/ ApplyTriageResult(r)
    \/ \E s \in Terminal : BeginFinalization(r, s)
    \/ CompleteFinalization(r)
    \/ \E s \in {"FAILED", "LOST"} : Finish(r, s)
    \/ Recover(r)

TaskStep(t) ==
    \/ Create(t) \/ RetryBlocked(t) \/ RequestChanges(t)
    \/ UpdateDetails(t) \/ UpdateTargetBranch(t) \/ CreateTaskWorkspace(t)
    \/ \E c \in {"SUBMIT_REVIEW", "ACCEPT", "REJECT", "CANCEL_TASK", "SYNC_TARGET"} :
          HumanCommand(t, c)

Next ==
    \/ \E r \in Runs : ClaimNextTask(r) \/ RunStep(r) \/ AnswerSubject(r)
    \/ \E t \in Tasks : TaskStep(t)
    \/ \E f \in Feedbacks : Discuss(f) \/ RetryFeedback(f)

Spec == Init /\ [][Next]_vars

-----------------------------------------------------------------------------
(* Safety.                                                                 *)

\* A task is RUNNING exactly while one run is at work on it.  Every end of a
\* run (finalization, failure, loss) commands a RUNNING task and is refused in
\* any other state: a second worker, or a human who moved the task under the
\* run, would leave a run that can never end.
RunningTaskIsWorked ==
    \A t \in Tasks :
        taskStatus[t] = "RUNNING" <=> Worker(t) # {}

\* A human can always get a blocked task moving: either it can be retried or
\* the run that blocked it has an open question to answer.
BlockedTaskHasWayOut ==
    \A t \in Tasks : taskStatus[t] = "BLOCKED" =>
        \E r \in RunsOf(t) : /\ \A s \in RunsOf(t) : s <= r
                             /\ runStatus[r] \in Terminal \cup Active
                             /\ runStatus[r] = "NEEDS_INPUT" => question[r] = "OPEN"

\* Every answer reaches at most one run, of the same task and purpose, later
\* than the run that asked; answers are taken up in the order they were given,
\* and the work of a task never has two of them waiting.
AnswerReachesOneRun ==
    /\ \A r \in Runs : claim[r].continues # None =>
         LET s == claim[r].continues IN
            /\ s < r /\ question[s] = "ANSWERED"
            /\ claim[s].task = claim[r].task /\ claim[s].purpose = claim[r].purpose
            /\ \A q \in Runs : claim[q].continues = s => q = r
    /\ \A t \in Tasks, p \in Purposes : \A r \in PendingAnswers(t, p) :
         /\ \A s \in RunsOf(t) \ PendingAnswers(t, p) :
               (claim[s].purpose = p /\ question[s] = "ANSWERED") => answeredAt[s] < answeredAt[r]
         /\ p # "TRIAGE" => PendingAnswers(t, p) = {r}

\* A run has asked a question exactly when it ended NEEDS_INPUT, and a run with
\* a completed intent ended as the intent says: a replay after a crash neither
\* doubles the question nor changes the outcome.
OutcomeMatchesIntent ==
    \A r \in Runs :
        /\ question[r] # "NONE" <=> runStatus[r] = "NEEDS_INPUT"
        /\ r \in completed => runStatus[r] = intent[r]
        /\ runStatus[r] \in {"SUCCEEDED", "NEEDS_INPUT"} => r \in completed

\* A turn is RUNNING exactly while its discussion run is active, so that no
\* turn hangs after a crash and none is answered twice; a retried turn failed.
FeedbackFollowsRun ==
    /\ \A f \in Feedbacks : LET r == feedback[f].run IN
        /\ feedback[f].status \in {"RUNNING", "ANSWERED", "FAILED"} <=> r # None
        /\ r # None => /\ claim[r].purpose = "REVIEW" /\ claim[r].task = feedback[f].task
                       /\ feedback[f].status = "RUNNING"  <=> IsActive(r)
                       /\ feedback[f].status = "ANSWERED" <=> runStatus[r] = "SUCCEEDED"
        /\ feedback[f].retryOf # None => feedback[feedback[f].retryOf].status = "FAILED"
    /\ \A r \in Runs : claim[r].purpose = "REVIEW" =>
            \E f \in Feedbacks : /\ feedback[f].run = r
                                 /\ \A g \in Feedbacks : feedback[g].run = r => g = f

\* When triage is configured, nobody implements a task that triage has not been
\* through: an earlier triage run of the task ended without leaving a question.
ImplementationFollowsTriage ==
    "TRIAGE" \in Configured =>
        \A r \in Runs : claim[r].purpose = "IMPLEMENTATION" =>
            \E s \in RunsOf(claim[r].task) :
                s < r /\ claim[s].purpose = "TRIAGE" /\ runStatus[s] \in Terminal \ {"NEEDS_INPUT"}

-----------------------------------------------------------------------------
(* The tables implement the lease of a task.                               *)

Lease == INSTANCE TaskLease WITH
    NoRun  <- None,
    holder <- [t \in Tasks |-> IF taskStatus[t] = "RUNNING"
                               THEN CHOOSE r \in Worker(t) : TRUE ELSE None],
    active <- ActiveRuns,
    ended  <- {r \in Runs : runStatus[r] \in Terminal}

\* A task is held by one run from its claim to its end, handed over only
\* through a release, and no ended run comes back.
HoldsLease == Lease!Spec
=============================================================================
