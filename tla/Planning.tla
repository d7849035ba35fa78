------------------------------- MODULE Planning -------------------------------
(***************************************************************************)
(* A topic from its discussion to its tasks: people write, planning runs   *)
(* answer, ask or submit a plan revision, and a reviewer sends it back or  *)
(* approves it.  Every command names the topic version it was decided on,  *)
(* and a planning run the version it was claimed for.                      *)
(* (src/internal/storage/topic.go, plan.go, discussion.go and              *)
(* clarification.go, and the planning half of run.go.)                     *)
(***************************************************************************)
EXTENDS Naturals, Sequences, FiniteSets

CONSTANTS
    Runs,           \* planning runs
    MaxVersion,     \* bound: the topic's version
    MaxRevision,    \* bound: revisions of its plan
    MaxDrafts,      \* bound: task drafts of a revision
    Human, Nobody

ASSUME PlanningAssumption ==
    /\ MaxVersion \in Nat \ {0} /\ MaxRevision \in Nat /\ MaxDrafts \in Nat \ {0}
    /\ Human # Nobody /\ {Human, Nobody} \cap Runs = {}

VARIABLES
    topic,      \* the row of topics: status and version
    event,      \* its rows of topic_events, in sequence
    thread,     \* who wrote each message of its discussion, in sequence
    plan,       \* its row of plans
    revision,   \* the rows of plan_revisions, by number
    task,       \* how many tasks were created from each draft
    run,        \* rows of runs, with the result the runner froze
    question,   \* rows of clarifications, by the run that asked
    page        \* what a person's page shows: topic version, revision and its drafts

vars == <<topic, event, thread, plan, revision, task, run, question, page>>

Drafts   == (1 .. MaxRevision) \X (1 .. MaxDrafts)
Results  == {"FAILED", "NEEDS_INPUT", "REPLY", "PLAN"}
Events   == {"CREATED", "MESSAGE_ADDED", "PLANNING_ASKED", "SUBMIT_PLAN",
             "REQUEST_PLAN_CHANGES", "APPROVE_PLAN"}
Unclaimed == [status |-> "ABSENT", version |-> 0, follows |-> Nobody, result |-> "NONE",
             drafts |-> 0, told |-> {}]
Unasked  == [status |-> "NONE", reader |-> Nobody]

TopicRecord    == [status : {"OPEN", "PLAN_REVIEW", "PLANNED"}, version : 1 .. MaxVersion]
PlanRecord     == [status : {"NONE", "IN_REVIEW", "CHANGES_REQUESTED", "APPROVED"},
                   current : 0 .. MaxRevision, approved : 0 .. MaxRevision]
RevisionRecord == [source : Runs \cup {Human}, version : 1 .. MaxVersion, drafts : 1 .. MaxDrafts]
RunRecord      == [status : {"ABSENT", "CLAIMED", "RUNNING", "FINALIZING", "ENDED", "LOST"},
                   version : 0 .. MaxVersion, follows : Runs \cup {Nobody},
                   result : Results \cup {"NONE"}, drafts : 0 .. MaxDrafts, told : SUBSET Runs]
QuestionRecord == [status : {"NONE", "OPEN", "ANSWERED"}, reader : Runs \cup {Nobody}]
PageRecord     == [version : 1 .. MaxVersion, revision : 0 .. MaxRevision, drafts : 0 .. MaxDrafts]

TypeOK ==
    /\ topic \in TopicRecord
    /\ event \in Seq(Events) /\ Len(event) <= MaxVersion
    /\ plan \in PlanRecord
    /\ thread \in Seq(Runs \cup {Human})
    /\ revision \in Seq(RevisionRecord) /\ Len(revision) <= MaxRevision
    /\ task \in [Drafts -> 0 .. 1]
    /\ run \in [Runs -> RunRecord]
    /\ question \in [Runs -> QuestionRecord]
    /\ page \in PageRecord

Init ==
    /\ topic = [status |-> "OPEN", version |-> 1]
    /\ event = <<"CREATED">>
    /\ thread = <<>>
    /\ plan = [status |-> "NONE", current |-> 0, approved |-> 0]
    /\ revision = <<>>
    /\ task = [d \in Drafts |-> 0]
    /\ run = [r \in Runs |-> Unclaimed]
    /\ question = [r \in Runs |-> Unasked]
    /\ page = [version |-> 1, revision |-> 0, drafts |-> 0]

\* A change of the topic: its version and one more event.
Advances(status, type) ==
    /\ topic.version < MaxVersion
    /\ topic' = [status |-> status, version |-> topic.version + 1]
    /\ event' = Append(event, type)

-----------------------------------------------------------------------------
\* People.

\* The page asks for the topic and for its plan in separate requests, and an
\* answer may be of any moment since: it was late, or the page is an old one.
\* The discussion is a third request, made again only when a planning run ends,
\* after a message of one's own or by hand.  It is not part of the page here:
\* nothing that is sent says which messages were shown.
GetTopics ==
    /\ \E v \in 1 .. topic.version : page' = [page EXCEPT !.version = v]
    /\ UNCHANGED <<topic, event, thread, plan, revision, task, run, question>>

\* Revision 0 is the answer that there is no plan, or an error.
GetByTopic ==
    /\ \E n \in 0 .. plan.current :
           page' = [page EXCEPT !.revision = n, !.drafts = IF n = 0 THEN 0 ELSE revision[n].drafts]
    /\ UNCHANGED <<topic, event, thread, plan, revision, task, run, question>>

AppendMessage(author) == thread' = Append(thread, author)

\* Mutant: a message leaves the version alone.
RecordHumanTopicMessage_Quiet ==
    topic.version < MaxVersion /\ event' = Append(event, "MESSAGE_ADDED") /\ UNCHANGED topic

\* A message is taken in every status of the topic, and counts as a change.
RecordHumanTopicMessage == Advances(topic.status, "MESSAGE_ADDED")

AppendTopicMessage ==
    /\ AppendMessage(Human) /\ RecordHumanTopicMessage
    /\ UNCHANGED <<plan, revision, task, run, question, page>>

RequestPlanning ==
    /\ topic.status = "OPEN" /\ topic.version = page.version
    /\ Advances("OPEN", "PLANNING_ASKED")
    /\ UNCHANGED <<thread, plan, revision, task, run, question, page>>

BuildPlanRevision(source, version, drafts) ==
    [source |-> source, version |-> version, drafts |-> drafts]

\* The plan of the topic is new or was sent back.
FindOrCreatePlan == plan.status \in {"NONE", "CHANGES_REQUESTED"}

ActivatePlanRevision ==
    /\ FindOrCreatePlan
    /\ plan' = [plan EXCEPT !.status = "IN_REVIEW", !.current = Len(revision) + 1]

InsertPlanRevision(new) ==
    /\ Len(revision) < MaxRevision
    /\ revision' = Append(revision, new)

AddsRevision(source, version, drafts) ==
    /\ ActivatePlanRevision
    /\ InsertPlanRevision(BuildPlanRevision(source, version, drafts))
    /\ Advances("PLAN_REVIEW", "SUBMIT_PLAN")

LoadPlanRevision(n) == {n} \X (1 .. revision[n].drafts)

CreateRevision ==
    /\ topic.status = "OPEN" /\ topic.version = page.version
    /\ \E n \in 1 .. MaxDrafts : AddsRevision(Human, topic.version, n)
    /\ UNCHANGED <<thread, task, run, question, page>>

\* Mutant: the version the reviewer read is not compared.
BeginReview_AnyVersion ==
    plan.status = "IN_REVIEW" /\ topic.status = "PLAN_REVIEW" /\ plan.current = page.revision

\* Mutant: the status of the plan is not looked at.
BeginReview_AnyStatus ==
    topic.version = page.version /\ plan.current = page.revision /\ page.revision > 0

BeginReview ==
    /\ plan.status = "IN_REVIEW" /\ topic.status = "PLAN_REVIEW"
    /\ topic.version = page.version /\ plan.current = page.revision

\* Mutant: the topic stays in review.
FinishPlanReview_TopicStays(decision, approved, status, command) ==
    /\ plan' = [plan EXCEPT !.status = decision, !.approved = approved]
    /\ Advances("PLAN_REVIEW", command)
    /\ UNCHANGED <<thread, revision, run, question, page>>

FinishPlanReview(decision, approved, status, command) ==
    /\ plan' = [plan EXCEPT !.status = decision, !.approved = approved]
    /\ Advances(status, command)
    /\ UNCHANGED <<thread, revision, run, question, page>>

RequestChanges ==
    /\ BeginReview
    /\ FinishPlanReview("CHANGES_REQUESTED", 0, "OPEN", "REQUEST_PLAN_CHANGES")
    /\ UNCHANGED task

\* Mutant: the drafts of every revision become tasks.
Approve_EveryRevision ==
    /\ BeginReview
    /\ task' = [d \in Drafts |-> IF \E n \in DOMAIN revision : d \in LoadPlanRevision(n)
                                 THEN task[d] + 1 ELSE task[d]]
    /\ FinishPlanReview("APPROVED", page.revision, "PLANNED", "APPROVE_PLAN")

\* One transaction: a task for each draft of the revision, and the verdict.
Approve ==
    /\ BeginReview
    /\ task' = [d \in Drafts |-> IF d \in LoadPlanRevision(page.revision)
                                 THEN task[d] + 1 ELSE task[d]]
    /\ FinishPlanReview("APPROVED", page.revision, "PLANNED", "APPROVE_PLAN")

\* An answer is taken while the topic is open, and asks for a planning turn.
ResumeTopicClarification == topic.status = "OPEN" /\ Advances("OPEN", "PLANNING_ASKED")

AnswerSubject(q) ==
    /\ question[q].status = "OPEN"
    /\ ResumeTopicClarification
    /\ question' = [question EXCEPT ![q].status = "ANSWERED"]
    /\ UNCHANGED <<thread, plan, revision, task, run, page>>

-----------------------------------------------------------------------------
\* Planning runs.

Active(r) == run[r].status \in {"CLAIMED", "RUNNING", "FINALIZING"}

\* Runs are created one after the other, so the latest has the highest version.
LatestRun ==
    LET made == {r \in Runs : run[r].status # "ABSENT"}
    IN  IF made = {} THEN Nobody
        ELSE CHOOSE r \in made : \A q \in made : run[q].version <= run[r].version

\* Mutant: a topic that was planned once is not taken again.
SelectPlanningTopic_Once ==
    topic.status = "OPEN" /\ \A r \in Runs : run[r].status = "ABSENT"

SelectPlanningTopic ==
    /\ topic.status = "OPEN"
    /\ \A r \in Runs : ~Active(r) /\ run[r].version # topic.version

\* The claim follows the latest run, and is the reader of the answer to a
\* question that run asked.
ClaimNextTask(r) ==
    /\ run[r].status = "ABSENT" /\ SelectPlanningTopic
    /\ LET last == LatestRun
       IN  /\ run' = [run EXCEPT ![r] = [Unclaimed EXCEPT !.status = "CLAIMED", !.follows = last,
                                                      !.version = topic.version]]
           /\ question' = [q \in Runs |->
                  IF q = last /\ question[q].status = "ANSWERED" /\ question[q].reader = Nobody
                  THEN [question[q] EXCEPT !.reader = r] ELSE question[q]]
    /\ UNCHANGED <<topic, event, thread, plan, revision, task, page>>

\* The prompt holds the answer the run is the reader of, if it follows a run.
BuildPlanningPrompt(r) ==
    /\ run[r].status = "CLAIMED"
    /\ run' = [run EXCEPT ![r].status = "RUNNING", ![r].told =
                  IF run[r].follows = Nobody THEN {} ELSE {q \in Runs : question[q].reader = r}]
    /\ UNCHANGED <<topic, event, thread, plan, revision, task, question, page>>

\* What an agent may write: a question, or a reply with its readiness, the
\* questions it sees open and the drafts of a plan.
Written == [asks : BOOLEAN, reply : BOOLEAN,
            readiness : {"NONE", "NEEDS_DISCUSSION", "READY_FOR_REVIEW"},
            openQuestions : 0 .. 1, drafts : 0 .. MaxDrafts + 1]

\* The readiness and the open questions must agree.
ReadinessIsValid(w) ==
    \/ w.readiness = "NEEDS_DISCUSSION" /\ w.openQuestions > 0
    \/ w.readiness = "READY_FOR_REVIEW" /\ w.openQuestions = 0

\* A plan holds 1 to 50 (MaxDrafts) drafts.
RevisionInputIsValid(n) == n \in 1 .. MaxDrafts

PlanningResultIsValid(w) ==
    /\ w.reply /\ ReadinessIsValid(w)
    /\ \/ w.drafts = 0 /\ w.readiness = "NEEDS_DISCUSSION"
       \/ RevisionInputIsValid(w.drafts) /\ w.readiness = "READY_FOR_REVIEW"

CollectAgentResult(w) ==
    CASE w.asks /\ ~w.reply /\ w.readiness = "NONE" /\ w.drafts = 0 -> "NEEDS_INPUT"
      [] ~w.asks /\ PlanningResultIsValid(w) -> IF w.drafts = 0 THEN "REPLY" ELSE "PLAN"
      [] OTHER -> "FAILED"

Outcomes ==
    {[result |-> CollectAgentResult(w),
      drafts |-> IF CollectAgentResult(w) = "PLAN" THEN w.drafts ELSE 0] : w \in Written}

\* The agent ended; what it wrote is a result of the run, or refused.
BeginFinalization(r) ==
    /\ run[r].status = "RUNNING"
    /\ \E o \in Outcomes : run' = [run EXCEPT ![r].status = "FINALIZING",
                                    ![r].result = o.result, ![r].drafts = o.drafts]
    /\ UNCHANGED <<topic, event, thread, plan, revision, task, question, page>>

Ends(r, status) == run' = [run EXCEPT ![r].status = status]

\* A topic has one open question at most: a second makes the transaction fail.
Asks(r) ==
    /\ run[r].result = "NEEDS_INPUT"
    /\ \A q \in Runs : question[q].status # "OPEN"
    /\ question' = [question EXCEPT ![r].status = "OPEN"]
    /\ UNCHANGED <<topic, event, thread, plan, revision>>

\* Mutant: a plan for an older version is submitted too.
IsCurrent_AnyVersion(r) == topic.status = "OPEN"

IsCurrent(r) == topic.status = "OPEN" /\ topic.version = run[r].version

\* Mutant: the reply to an older version is dropped with its plan.
ApplyPlanningResult_DropsReply(r) ==
    /\ run[r].result \in {"REPLY", "PLAN"}
    /\ IF IsCurrent(r) THEN AppendMessage(r) ELSE UNCHANGED thread
    /\ IF run[r].result = "REPLY" \/ ~IsCurrent(r)
       THEN UNCHANGED <<topic, event, plan, revision>>
       ELSE AddsRevision(r, run[r].version, run[r].drafts)
    /\ UNCHANGED question

\* The reply goes to the thread of the topic.  A plan for another version, or
\* for a topic that is open no longer, is dropped without a word.
ApplyPlanningResult(r) ==
    /\ run[r].result \in {"REPLY", "PLAN"}
    /\ AppendMessage(r)
    /\ IF run[r].result = "REPLY" \/ ~IsCurrent(r)
       THEN UNCHANGED <<topic, event, plan, revision>>
       ELSE AddsRevision(r, run[r].version, run[r].drafts)
    /\ UNCHANGED question

\* By the runner, or by the recovery once the runner is gone.
CompleteFinalization(r) ==
    /\ run[r].status = "FINALIZING"
    /\ \/ run[r].result = "FAILED" /\ UNCHANGED <<topic, event, thread, plan, revision, question>>
       \/ Asks(r)
       \/ ApplyPlanningResult(r)
    /\ Ends(r, "ENDED")
    /\ UNCHANGED <<task, page>>

\* The runner died, or its question cannot be stored.  (A plan always can: by
\* TopicFitsPlan an open topic has no plan in review, ErrPlanConflict's case.)
RecoverLost(r) ==
    /\ \/ run[r].status \in {"CLAIMED", "RUNNING"}
       \/ /\ run[r].status = "FINALIZING" /\ run[r].result = "NEEDS_INPUT"
          /\ \E q \in Runs : question[q].status = "OPEN"
    /\ Ends(r, "LOST")
    /\ UNCHANGED <<topic, event, thread, plan, revision, task, question, page>>

-----------------------------------------------------------------------------
Person == \/ GetTopics \/ GetByTopic \/ AppendTopicMessage \/ RequestPlanning \/ CreateRevision
          \/ RequestChanges \/ Approve
          \/ \E q \in Runs : AnswerSubject(q)

Works(r) == BuildPlanningPrompt(r) \/ BeginFinalization(r) \/ CompleteFinalization(r) \/ RecoverLost(r)

Next == Person \/ \E r \in Runs : ClaimNextTask(r) \/ Works(r)

Spec == Init /\ [][Next]_vars

\* The scheduler polls, and a run ends or is given up (RunExecution's EveryRunEnds).
Fairness == /\ WF_vars(\E r \in Runs : ClaimNextTask(r))
            /\ \A r \in Runs : WF_vars(Works(r))

FairSpec == Spec /\ Fairness

-----------------------------------------------------------------------------
\* The plan and its topic are in step, whoever submitted and reviewed what.
TopicFitsPlan ==
    /\ topic.status = "OPEN" <=> plan.status \in {"NONE", "CHANGES_REQUESTED"}
    /\ topic.status = "PLAN_REVIEW" <=> plan.status = "IN_REVIEW"
    /\ topic.status = "PLANNED" <=> plan.status = "APPROVED" /\ plan.approved = plan.current

StatusAfter(type, status) ==
    CASE type = "SUBMIT_PLAN" -> "PLAN_REVIEW" [] type = "REQUEST_PLAN_CHANGES" -> "OPEN"
      [] type = "APPROVE_PLAN" -> "PLANNED" [] OTHER -> status

\* The events of a topic account for it: one for each version, and replayed
\* they give the status of the row.
EventsTellTheTopic ==
    LET replay[n \in 0 .. Len(event)] ==
            IF n = 0 THEN "OPEN" ELSE StatusAfter(event[n], replay[n - 1])
    IN  Len(event) = topic.version /\ replay[Len(event)] = topic.status

\* A plan that is put to review has heard everybody: between the claim of the
\* run that wrote it and the review, nobody wrote or answered anything.
PlanHeardEverybody ==
    \A n \in DOMAIN revision : revision[n].source # Human =>
        LET submitted == CHOOSE v \in DOMAIN event :
                /\ event[v] = "SUBMIT_PLAN"
                /\ Cardinality({u \in 1 .. v : event[u] = "SUBMIT_PLAN"}) = n
        IN  \A v \in (revision[n].version + 1) .. (submitted - 1) :
                event[v] \notin {"MESSAGE_ADDED", "PLANNING_ASKED"}

\* The tasks of a topic are the drafts of the one revision that was approved,
\* each of them once, and before an approval there are none.
TasksAreTheApprovedDrafts ==
    \A d \in Drafts :
        task[d] = IF d[1] = plan.approved /\ d[2] <= revision[plan.approved].drafts
                  THEN 1 ELSE 0

\* The reply of a run is in the discussion once its end is known, and once only,
\* whether its plan was taken or not and whoever ended it.
RepliesAreInTheThread ==
    \A r \in Runs :
        Cardinality({n \in DOMAIN thread : thread[n] = r}) =
            IF run[r].status = "ENDED" /\ run[r].result \in {"REPLY", "PLAN"} THEN 1 ELSE 0

\* The tables of a topic agree with each other, although runs, reviewers and the
\* recovery each write some of them.
TopicInvariant ==
    /\ TypeOK
    /\ TopicFitsPlan /\ EventsTellTheTopic
    /\ TasksAreTheApprovedDrafts /\ RepliesAreInTheThread

\* A verdict is on what the page showed, although its topic version and its plan
\* were read separately and either may be old: the revision is the last one put
\* to review up to that version, and the tasks that are made, by an approval
\* only, are the drafts the page listed.  (Messages it did not show are possible.)
ReviewedAsRead ==
    [][topic.status = "PLAN_REVIEW" /\ topic'.status # "PLAN_REVIEW" =>
          /\ Cardinality({u \in 1 .. page.version : event[u] = "SUBMIT_PLAN"}) = page.revision
          /\ {d \in Drafts : task'[d] # task[d]} =
                IF topic'.status = "PLANNED" THEN {page.revision} \X (1 .. page.drafts) ELSE {}]_vars

\* What people write is always taken up: an open topic is never left at a
\* version that no planning run was made for.
DiscussionIsTakenUp ==
    []<>(topic.status = "OPEN" => \E r \in Runs : run[r].version = topic.version)
=============================================================================
