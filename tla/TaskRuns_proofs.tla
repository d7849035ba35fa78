--------------------------- MODULE TaskRuns_proofs ---------------------------
(***************************************************************************)
(* Proofs about TaskRuns, for every number of tasks, runs, turns and       *)
(* workers and every configuration.                                        *)
(*                                                                         *)
(* The inductive invariant IInv adds to the type invariant what the store  *)
(* relies on without stating it: a frozen intent is a terminal status,     *)
(* every row refers to existing rows, and a task has one active run.  HInv *)
(* adds the history of the runs: their order, what they may have collected *)
(* and how answers travel from the run that asked to the one that goes on. *)
(***************************************************************************)
EXTENDS TaskRuns, FiniteSetTheorems, TLAPS

\* A run being finalized has frozen the terminal status it will end in.
IntentFrozen ==
    \A r \in Runs : runStatus[r] = "FINALIZING" => intent[r] \in Terminal

\* A run that does not exist was claimed for nothing, one that exists for a
\* purpose and a task.
ClaimsAreRows ==
    \A r \in Runs :
        IF runStatus[r] = "ABSENT" THEN claim[r] = NoClaim
        ELSE claim[r].purpose \in Purposes /\ claim[r].task \in Tasks

\* A feedback turn that exists belongs to a task.
TurnsAreRows ==
    \A f \in Feedbacks : feedback[f].status # "ABSENT" => feedback[f].task \in Tasks

Rows == IntentFrozen /\ ClaimsAreRows /\ TurnsAreRows

\* No two active runs have the same task.
OneActiveRun ==
    \A r, s \in Runs :
        IsActive(r) /\ IsActive(s) /\ claim[r].task = claim[s].task => r = s

Work == OneActiveRun /\ RunningTaskIsWorked

\* The inductive invariant.
IInv == TypeOK /\ Rows /\ Work

-----------------------------------------------------------------------------
(* Facts about the helpers.                                                *)

\* Every command leads to a status of the table, to RUNNING only by a claim.
LEMMA TargetStatus ==
    \A c : Target(c) \in TaskStatus /\ (Target(c) = "RUNNING" => c = "CLAIM_RUN")
BY DEF Target, TaskStatus

\* A run of the work purposes that ends takes its task from RUNNING only.
LEMMA FinishFromRunning ==
    \A s : Sources(FinishCommand(s)) = {"RUNNING"} /\ Target(FinishCommand(s)) # "RUNNING"
BY DEF Sources, Target, FinishCommand

\* The answers given so far can be counted.
LEMMA AnswersAreCounted ==
    Cardinality({s \in Runs : question[s] = "ANSWERED"}) \in Nat
<1>1. IsFiniteSet(Runs)
  BY BoundsAssumption, FS_Interval DEF Runs
<1> QED
  BY <1>1, FS_Subset, FS_CardinalityType

\* A continuation is one of the runs that wait for their answer to be taken up.
LEMMA ContinuationIsRun ==
    \A t, p : Continuations(t, p) \subseteq Runs \cup {None}
BY DEF Continuations, PendingAnswers, RunsOf

-----------------------------------------------------------------------------
(* Type correctness.                                                       *)

\* Claiming preserves the types.
LEMMA ClaimType ==
    ASSUME TypeOK, NEW r \in Runs, ClaimNextTask(r)
    PROVE  TypeOK'
<1> USE DEF TypeOK
<1>1. ASSUME NEW p \in Purposes, NEW t \in Tasks \cup {None}, NEW v \in Nat,
             InsertClaimedRun(r, p, t, v)
      PROVE  /\ runStatus' \in [Runs -> Active \cup Terminal \cup {"ABSENT"}]
             /\ claim' \in [Runs -> [purpose : Purposes \cup {"NONE"}, task : Tasks \cup {None},
                                     subject : Nat, continues : Runs \cup {None}]]
             /\ UNCHANGED <<intent, completed, assessed, question, answeredAt>>
  <2>1. PICK s \in Runs \cup {None} :
            claim' = [claim EXCEPT ![r] = [purpose |-> p, task |-> t,
                                           subject |-> v, continues |-> s]]
    BY <1>1, ContinuationIsRun DEF InsertClaimedRun
  <2>2. runStatus' = [runStatus EXCEPT ![r] = "CLAIMED"]
    BY <1>1 DEF InsertClaimedRun
  <2>3. claim' \in [Runs -> [purpose : Purposes \cup {"NONE"}, task : Tasks \cup {None},
                             subject : Nat, continues : Runs \cup {None}]]
    BY <2>1
  <2> QED
    BY <1>1, <2>2, <2>3 DEF InsertClaimedRun, Active
<1>2. CASE ClaimRevision(r)
  BY <1>1, <1>2, TargetStatus DEF ClaimRevision, ApplyCommand, Purposes
<1>3. CASE ClaimReview(r)
  <2>1. PICK f \in Feedbacks :
            /\ InsertClaimedRun(r, "REVIEW", feedback[f].task, 0)
            /\ feedback' = [feedback EXCEPT ![f] = [@ EXCEPT !.status = "RUNNING", !.run = r]]
            /\ UNCHANGED taskVars
    BY <1>3 DEF ClaimReview, ReviewQueue
  <2>2. feedback' \in [Feedbacks ->
            [status : {"ABSENT", "QUEUED", "RUNNING", "ANSWERED", "FAILED"},
             task : Tasks \cup {None}, run : Runs \cup {None},
             retryOf : Feedbacks \cup {None}]]
    BY <2>1
  <2> QED
    BY <1>1, <2>1, <2>2 DEF taskVars, Purposes
<1>4. CASE ClaimTriage(r)
  BY <1>1, <1>4 DEF ClaimTriage, taskVars, Purposes
<1>5. CASE ClaimImplementation(r)
  BY <1>1, <1>5, TargetStatus DEF ClaimImplementation, ApplyCommand, Purposes
<1> QED
  BY <1>2, <1>3, <1>4, <1>5 DEF ClaimNextTask

\* Ending a run preserves the types it touches.
LEMMA EndRunType ==
    ASSUME TypeOK, NEW r \in Runs, NEW s \in Terminal, EndRun(r, s)
    PROVE  /\ taskStatus' \in [Tasks -> TaskStatus \cup {"ABSENT"}]
           /\ runStatus' \in [Runs -> Active \cup Terminal \cup {"ABSENT"}]
           /\ feedback' \in [Feedbacks ->
                [status : {"ABSENT", "QUEUED", "RUNNING", "ANSWERED", "FAILED"},
                 task : Tasks \cup {None}, run : Runs \cup {None},
                 retryOf : Feedbacks \cup {None}]]
           /\ UNCHANGED <<priority, inputVersion, workspaces, claim, intent,
                          assessed, answeredAt>>
<1> USE DEF TypeOK, EndRun
<1>1. taskStatus' \in [Tasks -> TaskStatus \cup {"ABSENT"}]
  BY TargetStatus DEF ApplyCommand
<1> QED
  BY <1>1

\* Every other step of a run preserves the types.
LEMMA RunType ==
    ASSUME TypeOK, IntentFrozen, NEW r \in Runs, RunStep(r)
    PROVE  TypeOK'
<1>1. CASE Start(r) \/ MarkRunning(r)
  BY <1>1 DEF Start, MarkRunning, TypeOK, taskVars, Active
<1>2. CASE ApplyTriageResult(r)
  BY <1>2 DEF ApplyTriageResult, TypeOK, taskVars
<1>3. ASSUME NEW s \in Terminal, BeginFinalization(r, s)
      PROVE  TypeOK'
  BY <1>3 DEF BeginFinalization, TypeOK, taskVars, Active
<1>4. CASE CompleteFinalization(r)
  <2>1. intent[r] \in Terminal
    BY <1>4 DEF CompleteFinalization, CanComplete, IntentFrozen
  <2> QED
    BY <1>4, <2>1, EndRunType DEF CompleteFinalization, TypeOK
<1>5. ASSUME NEW s \in {"FAILED", "LOST"}, Finish(r, s)
      PROVE  TypeOK'
  <2>1. s \in Terminal
    BY DEF Terminal
  <2> QED
    BY <1>5, <2>1, EndRunType DEF Finish, TypeOK
<1>6. CASE RecoverLost(r)
  <2>1. "LOST" \in Terminal
    BY DEF Terminal
  <2> QED
    BY <1>6, <2>1, EndRunType DEF RecoverLost, TypeOK
<1> QED
  BY <1>1, <1>2, <1>3, <1>4, <1>5, <1>6 DEF RunStep, Recover

\* What humans do to a task preserves the types.
LEMMA TaskType ==
    ASSUME TypeOK, NEW t \in Tasks, TaskStep(t)
    PROVE  TypeOK'
<1> USE DEF TypeOK
<1>1. ASSUME NEW u \in Tasks, NEW p \in Nat, NewTask(u, p)
      PROVE  /\ taskStatus' \in [Tasks -> TaskStatus \cup {"ABSENT"}]
             /\ priority' \in [Tasks -> Nat]
             /\ inputVersion' \in [Tasks -> Nat]
             /\ UNCHANGED workspaces
  BY <1>1 DEF NewTask, TaskStatus
<1>2. CASE Create(t)
  BY <1>1, <1>2, ChoicesAssumption DEF Create, runVars
<1>3. CASE RetryBlocked(t)
  BY <1>3, TargetStatus DEF RetryBlocked, ApplyCommand, runVars
<1>4. CASE RequestChanges(t)
  BY <1>1, <1>4, TargetStatus DEF RequestChanges, ApplyCommand, runVars
<1>5. CASE UpdateDetails(t)
  BY <1>5, ChoicesAssumption DEF UpdateDetails, TaskStatus, runVars
<1>6. CASE UpdateTargetBranch(t)
  BY <1>6 DEF UpdateTargetBranch, runVars
<1>7. CASE CreateTaskWorkspace(t)
  BY <1>7 DEF CreateTaskWorkspace, runVars
<1>8. ASSUME NEW c, HumanCommand(t, c)
      PROVE  TypeOK'
  BY <1>8, TargetStatus DEF HumanCommand, ApplyCommand, runVars
<1> QED
  BY <1>2, <1>3, <1>4, <1>5, <1>6, <1>7, <1>8 DEF TaskStep

\* Answering a question preserves the types.
LEMMA AnswerType ==
    ASSUME TypeOK, NEW r \in Runs, AnswerSubject(r)
    PROVE  TypeOK'
<1>1. taskStatus' \in [Tasks -> TaskStatus \cup {"ABSENT"}]
  BY TargetStatus DEF TypeOK, AnswerSubject, ApplyCommand, taskVars
<1> QED
  BY <1>1, AnswersAreCounted DEF TypeOK, AnswerSubject

\* Giving feedback, for the first time or again, preserves the types.
LEMMA FeedbackType ==
    ASSUME TypeOK, NEW f \in Feedbacks, Discuss(f) \/ RetryFeedback(f)
    PROVE  TypeOK'
<1> USE DEF TypeOK
<1>1. PICK t \in Tasks \cup {None}, g \in Feedbacks \cup {None} : QueueFeedback(f, t, g)
  BY DEF Discuss, RetryFeedback
<1> QED
  BY <1>1 DEF QueueFeedback, taskVars, runVars

-----------------------------------------------------------------------------
(* The rows of the tables.                                                 *)

\* A claimed run refers to the task of the queue it was taken from.
LEMMA ClaimRows ==
    ASSUME TypeOK, Rows, NEW r \in Runs, ClaimNextTask(r)
    PROVE  Rows'
<1> USE DEF TypeOK, Rows, IntentFrozen, ClaimsAreRows, TurnsAreRows
<1>1. ASSUME NEW p \in Purposes, NEW t \in Tasks, NEW v \in Nat, InsertClaimedRun(r, p, t, v)
      PROVE  IntentFrozen' /\ ClaimsAreRows'
  BY <1>1 DEF InsertClaimedRun, Continuations
<1>2. CASE ClaimReview(r)
  <2>1. PICK f \in Feedbacks :
            /\ feedback[f].status = "QUEUED"
            /\ InsertClaimedRun(r, "REVIEW", feedback[f].task, 0)
            /\ feedback' = [feedback EXCEPT ![f] = [@ EXCEPT !.status = "RUNNING", !.run = r]]
    BY <1>2 DEF ClaimReview, ReviewQueue
  <2>2. TurnsAreRows'
    BY <2>1
  <2> QED
    BY <1>1, <2>1, <2>2 DEF Purposes
<1>3. CASE ClaimRevision(r) \/ ClaimTriage(r) \/ ClaimImplementation(r)
  BY <1>1, <1>3 DEF ClaimRevision, ClaimTriage, ClaimImplementation, Purposes, taskVars
<1> QED
  BY <1>2, <1>3 DEF ClaimNextTask

\* A run freezes a terminal status before it is finalized and keeps its claim.
LEMMA RunRows ==
    ASSUME TypeOK, Rows, NEW r \in Runs, RunStep(r)
    PROVE  Rows'
<1> USE DEF TypeOK, Rows, IntentFrozen, ClaimsAreRows, TurnsAreRows
<1>1. ASSUME NEW s \in Terminal, EndRun(r, s), runStatus[r] # "ABSENT"
      PROVE  Rows'
  <2>1. s # "FINALIZING" /\ s # "ABSENT"
    BY DEF Terminal
  <2> QED
    BY <1>1, <2>1 DEF EndRun
<1>2. CASE Start(r) \/ MarkRunning(r) \/ ApplyTriageResult(r)
  BY <1>2 DEF Start, MarkRunning, ApplyTriageResult
<1>3. ASSUME NEW s \in Terminal, BeginFinalization(r, s)
      PROVE  Rows'
  BY <1>3 DEF BeginFinalization
<1>4. CASE CompleteFinalization(r)
  BY <1>1, <1>4 DEF CompleteFinalization, CanComplete
<1>5. ASSUME NEW s \in {"FAILED", "LOST"}, Finish(r, s)
      PROVE  Rows'
  BY <1>1, <1>5 DEF Finish, Terminal
<1>6. CASE RecoverLost(r)
  BY <1>1, <1>6 DEF RecoverLost, IsActive, Active, Terminal
<1> QED
  BY <1>2, <1>3, <1>4, <1>5, <1>6 DEF RunStep, Recover

\* Humans create no run and no turn without a task.
LEMMA HumanRows ==
    ASSUME TypeOK, Rows,
           \/ \E r \in Runs : AnswerSubject(r)
           \/ \E t \in Tasks : TaskStep(t)
           \/ \E f \in Feedbacks : Discuss(f) \/ RetryFeedback(f)
    PROVE  Rows'
<1> USE DEF TypeOK, Rows, IntentFrozen, ClaimsAreRows, TurnsAreRows
<1>1. CASE \E r \in Runs : AnswerSubject(r)
  BY <1>1 DEF AnswerSubject
<1>2. CASE \E t \in Tasks : TaskStep(t)
  BY <1>2 DEF TaskStep, Create, RetryBlocked, RequestChanges, UpdateDetails,
              UpdateTargetBranch, CreateTaskWorkspace, HumanCommand, runVars
<1>3. CASE \E f \in Feedbacks : Discuss(f) \/ RetryFeedback(f)
  <2>1. PICK f \in Feedbacks, t \in Tasks, g \in Feedbacks \cup {None} : QueueFeedback(f, t, g)
    BY <1>3 DEF Discuss, RetryFeedback
  <2> QED
    BY <2>1 DEF QueueFeedback, taskVars, runVars
<1> QED
  BY <1>1, <1>2, <1>3

-----------------------------------------------------------------------------
(* One run at work on a running task.                                      *)

\* A step that moves no run between active and ended, and no task into or out
\* of RUNNING, keeps every worker.
LEMMA WorkersKept ==
    ASSUME Work, UNCHANGED claim,
           \A r \in Runs : IsActive(r)' <=> IsActive(r),
           \A t \in Tasks : taskStatus'[t] = "RUNNING" <=> taskStatus[t] = "RUNNING"
    PROVE  Work'
BY DEF Work, OneActiveRun, RunningTaskIsWorked, Worker, RunsOf, IsWork

\* A claimed run is the only active one of its task, and a run claimed for
\* work makes its task RUNNING.
LEMMA ClaimWork ==
    ASSUME TypeOK, Rows, Work, NEW r \in Runs, ClaimNextTask(r)
    PROVE  Work'
<1> DEFINE Claimed(p, t) ==
        /\ claim'[r].task = t /\ claim'[r].purpose = p /\ IsActive(r)' /\ ~IsActive(r)
        /\ \A s \in Runs \ {r} : claim'[s] = claim[s] /\ (IsActive(s)' <=> IsActive(s))
        /\ \A s \in Runs \ {r} : IsActive(s) => claim[s].task # t
<1> USE DEF TypeOK, Work, OneActiveRun, RunningTaskIsWorked, Worker, RunsOf, IsWork
<1>1. ASSUME NEW p \in Purposes, NEW t \in Tasks, NEW v \in Nat, InsertClaimedRun(r, p, t, v)
      PROVE  Claimed(p, t)
  BY <1>1 DEF InsertClaimedRun, IsNewRun, IsActive, Active, Engaged
<1>2. CASE ClaimReview(r)
  <2>1. PICK f \in Feedbacks :
            /\ feedback[f].status = "QUEUED"
            /\ InsertClaimedRun(r, "REVIEW", feedback[f].task, 0)
            /\ UNCHANGED taskVars
    BY <1>2 DEF ClaimReview, ReviewQueue
  <2>2. feedback[f].task \in Tasks
    BY <2>1 DEF Rows, TurnsAreRows
  <2>3. "REVIEW" \in Purposes /\ 0 \in Nat
    BY DEF Purposes
  <2>4. Claimed("REVIEW", feedback[f].task)
    BY <1>1, <2>1, <2>2, <2>3
  <2>5. UNCHANGED taskStatus
    BY <2>1 DEF taskVars
  <2> HIDE DEF TypeOK
  <2> QED
    BY <2>2, <2>4, <2>5
<1>3. CASE ClaimTriage(r)
  BY <1>1, <1>3 DEF ClaimTriage, Purposes, taskVars
<1>4. ASSUME NEW p \in {"IMPLEMENTATION", "REVISION"}, NEW t \in Tasks,
             InsertClaimedRun(r, p, t, 0), ApplyCommand(t, "CLAIM_RUN")
      PROVE  Work'
  <2>1. taskStatus' = [taskStatus EXCEPT ![t] = "RUNNING"]
    BY <1>4 DEF ApplyCommand, Target
  <2>2. p \in Purposes /\ 0 \in Nat
    BY DEF Purposes
  <2>3. Claimed(p, t)
    BY <1>1, <1>4, <2>2
  <2>4. taskStatus[t] # "RUNNING"
    BY <1>4 DEF ApplyCommand, Sources
  <2>5. OneActiveRun'
    BY <2>3
  <2>6. r \in Worker(t)'
    BY <2>3
  <2>7. \A u \in Tasks \ {t} : Worker(u)' = Worker(u)
    BY <2>3
  <2>8. taskStatus'[t] = "RUNNING" /\ \A u \in Tasks \ {t} : taskStatus'[u] = taskStatus[u]
    BY <2>1
  <2> HIDE DEF Worker, OneActiveRun, TypeOK, Claimed
  <2>9. RunningTaskIsWorked'
    BY <2>6, <2>7, <2>8
  <2> QED
    BY <2>5, <2>9
<1> QED
  BY <1>2, <1>3, <1>4 DEF ClaimNextTask, ClaimRevision, ClaimImplementation

\* A run that ends releases its task: it was the only worker, and every end of
\* a work run takes the task out of RUNNING.
LEMMA EndRunWork ==
    ASSUME TypeOK, Rows, Work, NEW r \in Runs, IsActive(r),
           NEW s \in Terminal, EndRun(r, s)
    PROVE  Work'
<1> USE DEF TypeOK, Work, OneActiveRun, RunningTaskIsWorked, Worker, RunsOf, IsWork
<1>1. /\ \A q \in Runs \ {r} : IsActive(q)' <=> IsActive(q)
      /\ ~IsActive(r)'
      /\ UNCHANGED claim
  BY DEF EndRun, IsActive, Active, Terminal
<1>2. CASE IsWork(r)
  <2>1. claim[r].task \in Tasks
    BY DEF Rows, ClaimsAreRows, IsActive, Active
  <2>2. /\ taskStatus' = [taskStatus EXCEPT ![claim[r].task] = Target(FinishCommand(s))]
        /\ Target(FinishCommand(s)) # "RUNNING"
    BY <1>2, FinishFromRunning DEF EndRun, ApplyCommand
  <2> QED
    BY <1>1, <1>2, <2>1, <2>2
<1>3. CASE ~IsWork(r)
  BY <1>1, <1>3 DEF EndRun
<1> QED
  BY <1>2, <1>3

\* Every other step of a run keeps the run active.
LEMMA RunWork ==
    ASSUME TypeOK, Rows, Work, NEW r \in Runs, RunStep(r)
    PROVE  Work'
<1>1. ASSUME NEW a \in Active, IsActive(r), UNCHANGED <<claim, taskStatus>>,
             runStatus' = [runStatus EXCEPT ![r] = a]
      PROVE  Work'
  BY <1>1, WorkersKept DEF TypeOK, IsActive
<1>2. CASE Start(r) \/ MarkRunning(r)
  BY <1>1, <1>2 DEF Start, MarkRunning, IsActive, Active, taskVars
<1>3. CASE ApplyTriageResult(r)
  BY <1>3, WorkersKept DEF ApplyTriageResult, IsActive, taskVars
<1>4. ASSUME NEW s \in Terminal, BeginFinalization(r, s)
      PROVE  Work'
  BY <1>1, <1>4 DEF BeginFinalization, IsActive, Active, taskVars
<1>5. CASE CompleteFinalization(r)
  <2>1. IsActive(r) /\ intent[r] \in Terminal
    BY <1>5 DEF CompleteFinalization, CanComplete, IsActive, Active, Rows, IntentFrozen
  <2> QED
    BY <1>5, <2>1, EndRunWork DEF CompleteFinalization
<1>6. ASSUME NEW s \in {"FAILED", "LOST"}, Finish(r, s)
      PROVE  Work'
  <2>1. IsActive(r) /\ s \in Terminal
    BY <1>6 DEF Finish, IsActive, Active, Terminal
  <2> QED
    BY <1>6, <2>1, EndRunWork DEF Finish
<1>7. CASE RecoverLost(r)
  <2>1. "LOST" \in Terminal
    BY DEF Terminal
  <2> QED
    BY <1>7, <2>1, EndRunWork DEF RecoverLost
<1> QED
  BY <1>2, <1>3, <1>4, <1>5, <1>6, <1>7 DEF RunStep, Recover

\* No command of a human takes a task into RUNNING or out of it.
LEMMA HumanWork ==
    ASSUME TypeOK, Work,
           \/ \E r \in Runs : AnswerSubject(r)
           \/ \E t \in Tasks : TaskStep(t)
           \/ \E f \in Feedbacks : Discuss(f) \/ RetryFeedback(f)
    PROVE  Work'
<1> USE DEF TypeOK
<1>1. ASSUME NEW t, NEW c, ApplyCommand(t, c), c # "CLAIM_RUN", "RUNNING" \notin Sources(c)
      PROVE  \A u \in Tasks : taskStatus'[u] = "RUNNING" <=> taskStatus[u] = "RUNNING"
  BY <1>1, TargetStatus DEF ApplyCommand
<1>2. ASSUME NEW t \in Tasks, NEW p, NewTask(t, p)
      PROVE  \A u \in Tasks : taskStatus'[u] = "RUNNING" <=> taskStatus[u] = "RUNNING"
  BY <1>2 DEF NewTask, IsNewTask
<1>3. ASSUME NEW r \in Runs, AnswerSubject(r)
      PROVE  Work'
  <2>1. \A u \in Tasks : taskStatus'[u] = "RUNNING" <=> taskStatus[u] = "RUNNING"
    BY <1>1, <1>3 DEF AnswerSubject, Sources
  <2> QED
    BY <1>3, <2>1, WorkersKept DEF AnswerSubject, IsActive
<1>4. ASSUME NEW t \in Tasks, TaskStep(t)
      PROVE  Work'
  <2>1. \A u \in Tasks : taskStatus'[u] = "RUNNING" <=> taskStatus[u] = "RUNNING"
    <3>1. CASE Create(t)
      BY <1>2, <3>1 DEF Create
    <3>2. CASE RetryBlocked(t)
      BY <1>1, <3>2 DEF RetryBlocked, Sources
    <3>3. CASE RequestChanges(t)
      BY <1>1, <1>2, <3>3 DEF RequestChanges, Sources
    <3>4. CASE UpdateDetails(t)
      BY <3>4 DEF UpdateDetails
    <3>5. CASE UpdateTargetBranch(t) \/ CreateTaskWorkspace(t)
      BY <3>5 DEF UpdateTargetBranch, CreateTaskWorkspace
    <3>6. ASSUME NEW c, HumanCommand(t, c)
          PROVE  \A u \in Tasks : taskStatus'[u] = "RUNNING" <=> taskStatus[u] = "RUNNING"
      BY <1>1, <3>6 DEF HumanCommand, Sources
    <3> QED
      BY <1>4, <3>1, <3>2, <3>3, <3>4, <3>5, <3>6 DEF TaskStep
  <2>2. UNCHANGED runVars
    BY <1>4 DEF TaskStep, Create, RetryBlocked, RequestChanges, UpdateDetails,
                UpdateTargetBranch, CreateTaskWorkspace, HumanCommand
  <2> QED
    BY <2>1, <2>2, WorkersKept DEF runVars, IsActive
<1>5. ASSUME NEW f \in Feedbacks, Discuss(f) \/ RetryFeedback(f)
      PROVE  Work'
  <2>1. UNCHANGED <<taskVars, runVars>>
    BY <1>5 DEF Discuss, RetryFeedback, QueueFeedback
  <2> QED
    BY <2>1, WorkersKept DEF taskVars, runVars, IsActive
<1> QED
  BY <1>3, <1>4, <1>5

-----------------------------------------------------------------------------
(* The inductive invariant and the theorems.                               *)

\* The empty database satisfies the inductive invariant.
LEMMA InitIInv == Init => IInv
BY ChoicesAssumption
   DEF Init, IInv, TypeOK, Rows, IntentFrozen, ClaimsAreRows, TurnsAreRows, Work,
       OneActiveRun, RunningTaskIsWorked, Worker, RunsOf, IsActive, Active,
       Terminal, NoClaim, NoFeedback

\* Every step preserves the inductive invariant.
LEMMA NextIInv == IInv /\ [Next]_vars => IInv'
<1> SUFFICES ASSUME IInv, [Next]_vars
             PROVE  IInv'
  OBVIOUS
<1>1. ASSUME NEW r \in Runs, ClaimNextTask(r)
      PROVE  IInv'
  BY <1>1, ClaimType, ClaimRows, ClaimWork DEF IInv
<1>2. ASSUME NEW r \in Runs, RunStep(r)
      PROVE  IInv'
  BY <1>2, RunType, RunRows, RunWork DEF IInv, Rows
<1>3. ASSUME NEW r \in Runs, AnswerSubject(r)
      PROVE  IInv'
  BY <1>3, AnswerType, HumanRows, HumanWork DEF IInv
<1>4. ASSUME NEW t \in Tasks, TaskStep(t)
      PROVE  IInv'
  BY <1>4, TaskType, HumanRows, HumanWork DEF IInv
<1>5. ASSUME NEW f \in Feedbacks, Discuss(f) \/ RetryFeedback(f)
      PROVE  IInv'
  BY <1>5, FeedbackType, HumanRows, HumanWork DEF IInv
<1>6. CASE UNCHANGED vars
  BY <1>6 DEF IInv, vars, taskVars, runVars, TypeOK, Rows, IntentFrozen, ClaimsAreRows,
              TurnsAreRows, Work, OneActiveRun, RunningTaskIsWorked, Worker, RunsOf,
              IsWork, IsActive
<1> QED
  BY <1>1, <1>2, <1>3, <1>4, <1>5, <1>6 DEF Next

\* The inductive invariant holds in every reachable state.
THEOREM Invariance == Spec => []IInv
BY InitIInv, NextIInv, PTL DEF Spec

\* The tables keep their types: a run that is finalized always has a terminal
\* status to end in, and every claim names rows that exist.
THEOREM TypeCorrect == Spec => []TypeOK
<1>1. IInv => TypeOK
  BY DEF IInv
<1> QED
  BY <1>1, Invariance, PTL

\* A task is RUNNING exactly while a run is at work on it, whatever claims,
\* crashes, recoveries and human commands interleave.
THEOREM RunningWorked == Spec => []RunningTaskIsWorked
<1>1. IInv => RunningTaskIsWorked
  BY DEF IInv, Work
<1> QED
  BY <1>1, Invariance, PTL

-----------------------------------------------------------------------------
(* The tables implement the lease.                                         *)

Holder(t) == IF taskStatus[t] = "RUNNING" THEN CHOOSE r \in Worker(t) : TRUE ELSE None
Ended     == {r \in Runs : runStatus[r] \in Terminal}

\* The holder of a running task is its only worker.
HoldersWork ==
    \A t \in Tasks :
        /\ taskStatus[t] = "RUNNING" => Worker(t) = {Holder(t)} /\ Holder(t) \in Runs
        /\ taskStatus[t] # "RUNNING" => Worker(t) = {} /\ Holder(t) = None

LEMMA HolderWorks == IInv => HoldersWork
<1> SUFFICES ASSUME IInv, NEW t \in Tasks
             PROVE  HoldersWork!(t)
  BY DEF HoldersWork
<1> USE DEF IInv, Work, RunningTaskIsWorked, Holder
<1>1. CASE taskStatus[t] = "RUNNING"
  <2>1. PICK r \in Worker(t) : TRUE
    BY <1>1
  <2>2. Worker(t) = {r} /\ r \in Runs
    BY <2>1 DEF OneActiveRun, Worker, RunsOf
  <2> QED
    BY <1>1, <2>2
<1>2. CASE taskStatus[t] # "RUNNING"
  BY <1>2
<1> QED
  BY <1>1, <1>2

\* A holder is determined by the workers of its task.
LEMMA HolderByWorkers ==
    ASSUME IInv, IInv', NEW t \in Tasks, Worker(t)' = Worker(t)
    PROVE  Holder(t)' = Holder(t)
<1>1. taskStatus'[t] = "RUNNING" <=> taskStatus[t] = "RUNNING"
  BY DEF IInv, Work, RunningTaskIsWorked
<1> QED
  BY <1>1 DEF Holder

\* A step that moves no run between active and ended stutters.
LEMMA LeaseKept ==
    ASSUME IInv, IInv', UNCHANGED claim,
           \A r \in Runs : /\ IsActive(r)' <=> IsActive(r)
                           /\ runStatus'[r] \in Terminal <=> runStatus[r] \in Terminal
    PROVE  UNCHANGED Lease!vars
<1>1. \A t \in Tasks : Worker(t)' = Worker(t)
  BY DEF Worker, RunsOf, IsWork
<1>2. \A t \in Tasks : Holder(t)' = Holder(t)
  BY <1>1, HolderByWorkers
<1>3. UNCHANGED <<ActiveRuns, Ended>>
  BY DEF ActiveRuns, Ended
<1> QED
  BY <1>2, <1>3 DEF Lease!vars, Holder, Ended

\* A claim acquires the task or, without work, only attends.
LEMMA LeaseClaim ==
    ASSUME IInv, IInv', NEW r \in Runs, ClaimNextTask(r)
    PROVE  Lease!Attend(r) \/ \E t \in Tasks : Lease!Acquire(t, r)
<1>0. HoldersWork /\ HoldersWork'
  BY HolderWorks, PTL
<1>1. PICK p \in Purposes, t \in Tasks : \E v : InsertClaimedRun(r, p, t, v)
  BY DEF ClaimNextTask, ClaimRevision, ClaimReview, ClaimTriage, ClaimImplementation,
         ReviewQueue, IInv, Rows, TurnsAreRows, Purposes
<1>10. TypeOK /\ ClaimsAreRows
  BY DEF IInv, Rows
<1>2. claim' = [claim EXCEPT ![r] = claim'[r]] /\ claim'[r].task = t /\ claim'[r].purpose = p
  BY <1>1, <1>10 DEF InsertClaimedRun, TypeOK
<1>3. /\ runStatus[r] = "ABSENT" /\ runStatus'[r] = "CLAIMED"
      /\ \A s \in Runs \ {r} : runStatus'[s] = runStatus[s]
      /\ Cardinality(ActiveRuns) < MaxWorkers
  BY <1>1, <1>10 DEF InsertClaimedRun, IsNewRun, TypeOK
<1>4. /\ r \notin ActiveRuns \cup Ended
      /\ ActiveRuns' = ActiveRuns \cup {r}
      /\ Ended' = Ended
  BY <1>3 DEF ActiveRuns, Ended, IsActive, Active, Terminal
<1>5. Lease!Fresh(r)
  BY <1>3, <1>4 DEF Lease!Fresh, Ended, Cardinality, Lease!Cardinality
<1>6. \A u \in Tasks \ {t} : Worker(u)' = Worker(u)
  BY <1>2, <1>3, <1>10 DEF TypeOK, Worker, RunsOf, IsWork, IsActive, Active, ClaimsAreRows, NoClaim
<1>7. \A u \in Tasks \ {t} : Holder(u)' = Holder(u)
  BY <1>6, HolderByWorkers
<1>8. CASE p \in {"IMPLEMENTATION", "REVISION"}
  <2>1. Worker(t) = {}
    BY <1>1 DEF InsertClaimedRun, Engaged, Worker
  <2>2. r \in Worker(t)'
    BY <1>2, <1>3, <1>8, <1>10 DEF TypeOK, Worker, RunsOf, IsWork, IsActive, Active
  <2>3. Holder(t) = None /\ Holder(t)' = r
    <3>1. taskStatus'[t] = "RUNNING"
      BY <2>2 DEF IInv, Work, RunningTaskIsWorked
    <3>2. Worker(t)' = {Holder(t)'}
      BY <3>1, <1>0 DEF HoldersWork
    <3>3. Holder(t) = None
      BY <2>1, <1>0 DEF HoldersWork
    <3> QED
      BY <2>2, <3>2, <3>3
  <2>4. [u \in Tasks |-> Holder(u)]' = [[u \in Tasks |-> Holder(u)] EXCEPT ![t] = r]
    BY <1>7, <2>3
  <2>5. [u \in Tasks |-> Holder(u)][t] = None
    BY <2>3
  <2>6. Lease!Acquire(t, r)
    BY <1>5, <2>4, <2>5 DEF Lease!Acquire, Holder
  <2> QED
    BY <2>6
<1>9. CASE p \notin {"IMPLEMENTATION", "REVISION"}
  <2>1. Worker(t)' = Worker(t)
    BY <1>2, <1>3, <1>9, <1>10 DEF TypeOK, Worker, RunsOf, IsWork, IsActive, Active, ClaimsAreRows, NoClaim
  <2>2. \A u \in Tasks : Holder(u)' = Holder(u)
    BY <1>7, <2>1, HolderByWorkers
  <2> QED
    BY <1>5, <2>2 DEF Lease!Attend, Holder
<1> QED
  BY <1>8, <1>9

\* The end of a run ends it in the lease, and with it its hold.
LEMMA LeaseEnd ==
    ASSUME IInv, IInv', NEW r \in Runs, IsActive(r), NEW s \in Terminal, EndRun(r, s)
    PROVE  Lease!End(r)
<1>0. HoldersWork /\ HoldersWork'
  BY HolderWorks, PTL
<1>1. /\ UNCHANGED claim
      /\ runStatus'[r] = s /\ \A q \in Runs \ {r} : runStatus'[q] = runStatus[q]
  BY DEF EndRun, IInv, TypeOK
<1>2. /\ r \in ActiveRuns
      /\ ActiveRuns' = ActiveRuns \ {r}
      /\ Ended' = Ended \cup {r}
  BY <1>1 DEF ActiveRuns, Ended, IsActive, Active, Terminal
<1>3. \A t \in Tasks : Worker(t)' = Worker(t) \ {r}
  BY <1>1 DEF Worker, RunsOf, IsWork, IsActive, Active, Terminal
<1>4. ASSUME NEW t \in Tasks
      PROVE  Holder(t)' = IF Holder(t) = r THEN None ELSE Holder(t)
  <2>1. r # None
    BY BoundsAssumption DEF Runs, None
  <2>2. CASE Worker(t) = {r}
    <3>1. Holder(t) = r
      BY <2>2, <1>0 DEF HoldersWork
    <3>2. Worker(t)' = {}
      BY <1>3, <2>2
    <3>3. Holder(t)' = None
      BY <3>2, <1>0 DEF HoldersWork
    <3> QED
      BY <3>1, <3>3
  <2>3. CASE r \notin Worker(t)
    <3>1. Holder(t)' = Holder(t)
      BY <1>3, <2>3, HolderByWorkers
    <3>2. Holder(t) # r
      BY <2>1, <2>3, <1>0 DEF HoldersWork
    <3> QED
      BY <3>1, <3>2
  <2>4. r \in Worker(t) => Worker(t) = {r}
    BY <1>0 DEF HoldersWork
  <2> QED
    BY <2>2, <2>3, <2>4
<1> QED
  BY <1>2, <1>4 DEF Lease!End, Holder, Ended

\* Every step of the tables is a step of the lease or a stutter.
LEMMA LeaseStep == IInv /\ IInv' /\ [Next]_vars => [Lease!Next]_Lease!vars
<1> SUFFICES ASSUME IInv, IInv', [Next]_vars
             PROVE  Lease!Next \/ UNCHANGED Lease!vars
  OBVIOUS
<1>1. ASSUME NEW r \in Runs, ClaimNextTask(r)
      PROVE  Lease!Next
  BY <1>1, LeaseClaim DEF Lease!Next
<1>2. ASSUME NEW r \in Runs, IsActive(r), NEW s \in Terminal, EndRun(r, s)
      PROVE  Lease!Next
  BY <1>2, LeaseEnd DEF Lease!Next
<1>3. ASSUME NEW r \in Runs, NEW a \in Active, IsActive(r), UNCHANGED claim,
             runStatus' = [runStatus EXCEPT ![r] = a]
      PROVE  UNCHANGED Lease!vars
  <2>1. \A q \in Runs : /\ IsActive(q)' <=> IsActive(q)
                        /\ runStatus'[q] \in Terminal <=> runStatus[q] \in Terminal
    BY <1>3 DEF IInv, TypeOK, IsActive, Active, Terminal
  <2> QED
    BY <1>3, <2>1, LeaseKept
<1>4. ASSUME UNCHANGED <<claim, runStatus>>
      PROVE  UNCHANGED Lease!vars
  BY <1>4, LeaseKept DEF IsActive
<1>5. ASSUME NEW r \in Runs, RunStep(r)
      PROVE  Lease!Next \/ UNCHANGED Lease!vars
  <2>1. CASE Start(r) \/ MarkRunning(r)
    BY <1>3, <2>1 DEF Start, MarkRunning, IsActive, Active
  <2>2. CASE ApplyTriageResult(r)
    BY <1>4, <2>2 DEF ApplyTriageResult
  <2>3. ASSUME NEW s \in Terminal, BeginFinalization(r, s)
        PROVE  UNCHANGED Lease!vars
    BY <1>3, <2>3 DEF BeginFinalization, IsActive, Active
  <2>4. CASE CompleteFinalization(r)
    BY <1>2, <2>4 DEF CompleteFinalization, CanComplete, IsActive, Active,
                      IInv, Rows, IntentFrozen
  <2>5. ASSUME NEW s \in {"FAILED", "LOST"}, Finish(r, s)
        PROVE  Lease!Next
    BY <1>2, <2>5 DEF Finish, IsActive, Active, Terminal
  <2>6. CASE RecoverLost(r)
    BY <1>2, <2>6 DEF RecoverLost, Terminal
  <2> QED
    BY <1>5, <2>1, <2>2, <2>3, <2>4, <2>5, <2>6 DEF RunStep, Recover
<1>6. ASSUME \/ \E r \in Runs : AnswerSubject(r)
             \/ \E t \in Tasks : TaskStep(t)
             \/ \E f \in Feedbacks : Discuss(f) \/ RetryFeedback(f)
      PROVE  UNCHANGED <<claim, runStatus>>
  BY <1>6 DEF AnswerSubject, TaskStep, Create, RetryBlocked, RequestChanges, UpdateDetails,
              UpdateTargetBranch, CreateTaskWorkspace, HumanCommand, Discuss, RetryFeedback,
              QueueFeedback, runVars
<1>7. CASE UNCHANGED vars
  BY <1>4, <1>7 DEF vars, runVars
<1> QED
  BY <1>1, <1>4, <1>5, <1>6, <1>7 DEF Next

\* The tables of tasks and runs implement the lease of a task.
THEOREM Refinement == Spec => HoldsLease
<1>1. Init => Lease!Init
  BY DEF Init, Lease!Init, ActiveRuns, IsActive, Active, Terminal
<1> QED
  BY <1>1, LeaseStep, Invariance, PTL DEF Spec, HoldsLease, Lease!Spec

-----------------------------------------------------------------------------
(* Runs end as their intents say.                                          *)

\* A run whose intent is completed has ended.
CompletedEnded == \A r \in completed : runStatus[r] \in Terminal

Outcomes == OutcomeMatchesIntent /\ CompletedEnded

\* No step changes the outcome, the intent or the question of a run that is
\* not active, and the end of an active one follows its intent.
LEMMA NextOutcomes == IInv /\ Outcomes /\ [Next]_vars => Outcomes'
<1> SUFFICES ASSUME TypeOK, Rows, Outcomes, [Next]_vars
             PROVE  Outcomes'
  BY DEF IInv
<1> USE DEF Outcomes, OutcomeMatchesIntent, CompletedEnded
<1>1. ASSUME NEW r \in Runs, NEW a \in Active \cup Terminal,
             runStatus' = [runStatus EXCEPT ![r] = a], a \notin {"SUCCEEDED", "NEEDS_INPUT"},
             runStatus[r] \notin Terminal,
             \A q \in Runs \ {r} : intent'[q] = intent[q],
             UNCHANGED <<completed, question>>
      PROVE  Outcomes'
  BY <1>1 DEF TypeOK, Terminal
<1>2. ASSUME UNCHANGED <<runStatus, intent, completed, question>>
      PROVE  Outcomes'
  BY <1>2
<1>3. ASSUME NEW r \in Runs, ClaimNextTask(r)
      PROVE  Outcomes'
  <2>1. PICK p, t, v : InsertClaimedRun(r, p, t, v)
    BY <1>3 DEF ClaimNextTask, ClaimRevision, ClaimReview, ClaimTriage, ClaimImplementation
  <2>2. /\ runStatus' = [runStatus EXCEPT ![r] = "CLAIMED"]
        /\ runStatus[r] \notin Terminal
        /\ UNCHANGED <<intent, completed, question>>
    BY <2>1 DEF InsertClaimedRun, IsNewRun, Terminal
  <2>3. "CLAIMED" \in Active \cup Terminal
    BY DEF Active
  <2> QED
    BY <1>1, <2>2, <2>3
<1>4. ASSUME NEW r \in Runs, RunStep(r)
      PROVE  Outcomes'
  <2>1. CASE Start(r) \/ MarkRunning(r)
    BY <1>1, <2>1 DEF Start, MarkRunning, Active, Terminal
  <2>2. CASE ApplyTriageResult(r)
    BY <1>2, <2>2 DEF ApplyTriageResult
  <2>3. ASSUME NEW s \in Terminal, BeginFinalization(r, s)
        PROVE  Outcomes'
    BY <1>1, <2>3 DEF BeginFinalization, Active, Terminal
  <2>4. CASE CompleteFinalization(r)
    <3>1. /\ runStatus[r] = "FINALIZING" /\ intent[r] \in Terminal /\ r \notin completed
          /\ runStatus' = [runStatus EXCEPT ![r] = intent[r]]
          /\ completed' = completed \cup {r}
          /\ question' = [question EXCEPT ![r] = IF intent[r] = "NEEDS_INPUT" THEN "OPEN" ELSE @]
          /\ UNCHANGED intent
      BY <2>4 DEF CompleteFinalization, CanComplete, EndRun, Rows, IntentFrozen
    <3>2. runStatus[r] \notin Terminal /\ question[r] = "NONE"
      BY <3>1 DEF TypeOK, Terminal
    <3>3. /\ runStatus'[r] = intent[r]
          /\ question'[r] # "NONE" <=> intent[r] = "NEEDS_INPUT"
          /\ \A q \in Runs \ {r} : runStatus'[q] = runStatus[q] /\ question'[q] = question[q]
      BY <3>1, <3>2 DEF TypeOK
    <3>4. completed \subseteq Runs
      BY DEF TypeOK
    <3> QED
      BY <3>1, <3>3, <3>4
  <2>5. ASSUME NEW s \in {"FAILED", "LOST"}, Finish(r, s)
        PROVE  Outcomes'
    <3>1. /\ runStatus' = [runStatus EXCEPT ![r] = s] /\ runStatus[r] \notin Terminal
          /\ UNCHANGED <<intent, completed, question>>
      BY <2>5 DEF Finish, EndRun, Terminal
    <3>2. s \in Active \cup Terminal /\ s \notin {"SUCCEEDED", "NEEDS_INPUT"}
      BY DEF Terminal
    <3> QED
      BY <1>1, <3>1, <3>2
  <2>6. CASE RecoverLost(r)
    <3>1. /\ runStatus' = [runStatus EXCEPT ![r] = "LOST"] /\ runStatus[r] \notin Terminal
          /\ UNCHANGED <<intent, completed, question>>
      BY <2>6 DEF RecoverLost, EndRun, IsActive, Active, Terminal
    <3>2. "LOST" \in Active \cup Terminal
      BY DEF Terminal
    <3> QED
      BY <1>1, <3>1, <3>2
  <2> QED
    BY <1>4, <2>1, <2>2, <2>3, <2>4, <2>5, <2>6 DEF RunStep, Recover
<1>5. ASSUME NEW r \in Runs, AnswerSubject(r)
      PROVE  Outcomes'
  BY <1>5 DEF AnswerSubject, TypeOK
<1>6. ASSUME NEW t \in Tasks, TaskStep(t)
      PROVE  UNCHANGED runVars
  BY <1>6 DEF TaskStep, Create, RetryBlocked, RequestChanges, UpdateDetails,
              UpdateTargetBranch, CreateTaskWorkspace, HumanCommand
<1>7. ASSUME NEW f \in Feedbacks, Discuss(f) \/ RetryFeedback(f)
      PROVE  UNCHANGED runVars
  BY <1>7 DEF Discuss, RetryFeedback, QueueFeedback
<1>8. CASE UNCHANGED vars
  BY <1>2, <1>8 DEF vars, runVars
<1> QED
  BY <1>2, <1>3, <1>4, <1>5, <1>6, <1>7, <1>8 DEF Next, runVars

\* A run has asked exactly when it ended NEEDS_INPUT, a success or a question
\* comes from a completed intent only, and a completed intent is the outcome.
THEOREM OutcomeFollowsIntent == Spec => []OutcomeMatchesIntent
<1>1. Init => Outcomes
  BY DEF Init, Outcomes, OutcomeMatchesIntent, CompletedEnded
<1>2. Outcomes => OutcomeMatchesIntent
  BY DEF Outcomes
<1> QED
  BY <1>1, <1>2, NextOutcomes, Invariance, PTL DEF Spec

-----------------------------------------------------------------------------
(* The history of the runs of a task.                                      *)

\* Runs are inserted in order, so the rows that exist are the first ones.
RowsInOrder ==
    \A r, s \in Runs : s < r /\ runStatus[s] = "ABSENT" => runStatus[r] = "ABSENT"

\* No run of a task was claimed after an active one.
ActiveIsLatest ==
    \A r \in Runs : IsActive(r) => \A s \in RunsOf(claim[r].task) : s <= r

\* Only triage assesses, and a run that froze a question neither assessed the
\* task nor discussed it.
AskersOnlyAsk ==
    \A r \in Runs :
        /\ r \in assessed => claim[r].purpose = "TRIAGE"
        /\ intent[r] = "NEEDS_INPUT" =>
              /\ runStatus[r] \in {"FINALIZING"} \cup Terminal
              /\ claim[r].purpose # "REVIEW" /\ r \notin assessed

History == RowsInOrder /\ ActiveIsLatest /\ AskersOnlyAsk

\* The run that left the task BLOCKED, or a discussion after it, is the latest.
BlockedByWork ==
    \A t \in Tasks : taskStatus[t] = "BLOCKED" =>
        \E r \in RunsOf(t) : /\ \A s \in RunsOf(t) : s <= r
                             /\ claim[r].purpose # "TRIAGE"
                             /\ runStatus[r] = "NEEDS_INPUT" => question[r] = "OPEN"

\* The runs whose question is answered.
Answered == {s \in Runs : question[s] = "ANSWERED"}

\* The rank of an answer is the number of answers given up to it.
AnswersAreRanked ==
    /\ \A r \in Answered : answeredAt[r] <= Cardinality(Answered)
    /\ \A r, s \in Answered : answeredAt[r] = answeredAt[s] => r = s

\* A task has one open question at a time.
OneOpenQuestion ==
    \A r, s \in Runs : question[r] = "OPEN" /\ question[s] = "OPEN"
                       /\ claim[r].task = claim[s].task => r = s

\* A run that asked, until a later run of its task and purpose takes it up.
Waits(r) == question[r] = "ANSWERED" /\ \A s \in Runs : claim[s].continues # r

\* A run continues at most one earlier run, and nobody else continues that one.
TakenUpOnce ==
    \A r \in Runs : claim[r].continues # None =>
        LET s == claim[r].continues IN
            /\ s < r /\ question[s] = "ANSWERED"
            /\ claim[s].task = claim[r].task /\ claim[s].purpose = claim[r].purpose
            /\ \A q \in Runs : claim[q].continues = s => q = r

\* Two runs ask for the same work.
Alike(r, s) == claim[r].task = claim[s].task /\ claim[r].purpose = claim[s].purpose

\* An answer that waits was given after those of its kind that were taken up.
TakenUpInOrder ==
    \A r, s \in Runs : Waits(r) /\ Alike(r, s) /\ question[s] = "ANSWERED" /\ ~Waits(s)
                       => answeredAt[s] < answeredAt[r]

\* While the answer of a work run waits no run of the task does that work, asks
\* about it or waits with it.
WorkWaitsAlone ==
    \A r, s \in Runs : IsWork(r) /\ Waits(r) /\ Alike(r, s) /\ s # r
                       => ~IsActive(s) /\ question[s] # "OPEN" /\ ~Waits(s)

Answers == AnswersAreRanked /\ OneOpenQuestion /\ TakenUpOnce /\ TakenUpInOrder /\ WorkWaitsAlone
\* The inductive invariant of the history.
HInv == IInv /\ Outcomes /\ History /\ BlockedByWork /\ Answers
             /\ FeedbackFollowsRun /\ ImplementationFollowsTriage

-----------------------------------------------------------------------------
(* Four kinds of steps touch the rows of runs.                             *)

\* A run is inserted for the queue its purpose reads.
Inserts(r, p, t) ==
    /\ \E v \in Nat : InsertClaimedRun(r, p, t, v)
    /\ p = "IMPLEMENTATION" => t \in ImplementationQueue
    /\ \A u \in Tasks : taskStatus'[u] = "BLOCKED" =>
            taskStatus[u] = "BLOCKED" /\ (u = t => p = "REVIEW")
    /\ IF p = "REVIEW"
       THEN \E f \in Feedbacks :
              /\ feedback[f].status = "QUEUED" /\ feedback[f].task = t
              /\ feedback' = [feedback EXCEPT ![f] = [@ EXCEPT !.status = "RUNNING", !.run = r]]
       ELSE UNCHANGED feedback

\* An active run goes on.
Works(r) == \/ Start(r) \/ MarkRunning(r) \/ ApplyTriageResult(r)
            \/ \E s \in Terminal : BeginFinalization(r, s)

\* An active run ends, with a question only if it froze one and none is open.
Ends(r, s) ==
    /\ IsActive(r) /\ EndRun(r, s)
    /\ question' = [question EXCEPT ![r] = IF s = "NEEDS_INPUT" THEN "OPEN" ELSE @]
    /\ s = "NEEDS_INPUT" => intent[r] = "NEEDS_INPUT" /\ OpenQuestions(claim[r].task) = {}

\* Nothing happens to runs, and no task gets blocked.
RunsKept ==
    /\ UNCHANGED runVars
    /\ \A t \in Tasks : taskStatus'[t] = "BLOCKED" => taskStatus[t] = "BLOCKED"
    /\ \/ UNCHANGED feedback
       \/ \E f \in Feedbacks, t \in Tasks, g \in Feedbacks \cup {None} :
             QueueFeedback(f, t, g) /\ (g # None => feedback[g].status = "FAILED")

\* The claim inserts a run for one of the queues and blocks no task.
LEMMA ClaimInserts ==
    ASSUME IInv, NEW r \in Runs, ClaimNextTask(r)
    PROVE  \E p \in Purposes, t \in Tasks : Inserts(r, p, t)
<1> USE DEF IInv, TypeOK
<1>1. ASSUME NEW t \in Tasks, ApplyCommand(t, "CLAIM_RUN")
      PROVE  \A u \in Tasks : taskStatus'[u] = "BLOCKED" => taskStatus[u] = "BLOCKED" /\ u # t
  BY <1>1 DEF ApplyCommand, Target
<1>2. CASE ClaimRevision(r)
  <2>1. PICK t \in Tasks : /\ InsertClaimedRun(r, "REVISION", t, 0)
                           /\ ApplyCommand(t, "CLAIM_RUN") /\ UNCHANGED feedback
    BY <1>2 DEF ClaimRevision
  <2>2. Inserts(r, "REVISION", t)
    BY <1>1, <2>1 DEF Inserts
  <2> QED
    BY <2>2 DEF Purposes
<1>3. CASE ClaimReview(r)
  <2>1. PICK f \in Feedbacks :
            /\ feedback[f].status = "QUEUED"
            /\ "REVIEW" \in Configured /\ ~Engaged(feedback[f].task)
            /\ InsertClaimedRun(r, "REVIEW", feedback[f].task, 0)
            /\ feedback' = [feedback EXCEPT ![f] = [@ EXCEPT !.status = "RUNNING", !.run = r]]
            /\ UNCHANGED taskVars
    BY <1>3 DEF ClaimReview, ReviewQueue
  <2>2. feedback[f].task \in Tasks
    BY <2>1 DEF Rows, TurnsAreRows
  <2>3. "REVIEW" \in Purposes
    BY DEF Purposes
  <2>4. UNCHANGED taskStatus
    BY <2>1 DEF taskVars
  <2>5. Inserts(r, "REVIEW", feedback[f].task)
    BY <2>1, <2>4 DEF Inserts
  <2> QED
    BY <2>2, <2>3, <2>5
<1>4. CASE ClaimTriage(r)
  BY <1>4 DEF ClaimTriage, TriageQueue, First, Inserts, Purposes, taskVars
<1>5. CASE ClaimImplementation(r)
  <2>1. PICK t \in Tasks : /\ t \in ImplementationQueue
                           /\ InsertClaimedRun(r, "IMPLEMENTATION", t, 0)
                           /\ ApplyCommand(t, "CLAIM_RUN") /\ UNCHANGED feedback
    BY <1>5 DEF ClaimImplementation, First
  <2>2. Inserts(r, "IMPLEMENTATION", t)
    BY <1>1, <2>1 DEF Inserts
  <2> QED
    BY <2>2 DEF Purposes
<1> QED
  BY <1>2, <1>3, <1>4, <1>5 DEF ClaimNextTask

\* The runner and the supervisor let a run go on or end it.
LEMMA RunWorksOrEnds ==
    ASSUME IInv, Outcomes, NEW r \in Runs, RunStep(r)
    PROVE  Works(r) \/ \E s \in Terminal : Ends(r, s)
<1>1. ASSUME NEW s \in Terminal, IsActive(r), EndRun(r, s), UNCHANGED question,
             s # "NEEDS_INPUT"
      PROVE  Ends(r, s)
  BY <1>1 DEF Ends, IInv, TypeOK
<1>2. CASE CompleteFinalization(r)
  <2>1. IsActive(r) /\ intent[r] \in Terminal
    BY <1>2 DEF CompleteFinalization, CanComplete, IsActive, Active, IInv, Rows, IntentFrozen
  <2> QED
    BY <1>2, <2>1 DEF CompleteFinalization, CanComplete, Ends
<1>3. ASSUME NEW s \in {"FAILED", "LOST"}, Finish(r, s)
      PROVE  \E z \in Terminal : Ends(r, z)
  BY <1>1, <1>3 DEF Finish, IsActive, Active, Terminal
<1>4. CASE RecoverLost(r)
  BY <1>1, <1>4 DEF RecoverLost, Terminal
<1> QED
  BY <1>2, <1>3, <1>4 DEF RunStep, Recover, Works

\* No command of a human touches a run, and none blocks a task.
LEMMA HumansKeepRuns ==
    ASSUME IInv,
           \/ \E t \in Tasks : TaskStep(t)
           \/ \E f \in Feedbacks : Discuss(f) \/ RetryFeedback(f)
    PROVE  RunsKept
<1> USE DEF IInv, TypeOK
<1>1. ASSUME NEW t, NEW c, ApplyCommand(t, c), Target(c) # "BLOCKED"
      PROVE  \A u \in Tasks : taskStatus'[u] = "BLOCKED" => taskStatus[u] = "BLOCKED"
  BY <1>1 DEF ApplyCommand
<1>2. ASSUME NEW t \in Tasks, NEW p, NewTask(t, p)
      PROVE  \A u \in Tasks : taskStatus'[u] = "BLOCKED" => taskStatus[u] = "BLOCKED"
  BY <1>2 DEF NewTask
<1>3. ASSUME NEW t \in Tasks, TaskStep(t)
      PROVE  RunsKept
  <2>1. UNCHANGED <<runVars, feedback>>
    BY <1>3 DEF TaskStep, Create, RetryBlocked, RequestChanges, UpdateDetails,
                UpdateTargetBranch, CreateTaskWorkspace, HumanCommand
  <2>2. \A u \in Tasks : taskStatus'[u] = "BLOCKED" => taskStatus[u] = "BLOCKED"
    <3>1. CASE Create(t)
      BY <1>2, <3>1 DEF Create
    <3>2. CASE RetryBlocked(t)
      BY <1>1, <3>2 DEF RetryBlocked, Target
    <3>3. CASE RequestChanges(t)
      BY <1>1, <1>2, <3>3 DEF RequestChanges, Target
    <3>4. CASE UpdateDetails(t)
      BY <3>4 DEF UpdateDetails
    <3>5. CASE UpdateTargetBranch(t) \/ CreateTaskWorkspace(t)
      BY <3>5 DEF UpdateTargetBranch, CreateTaskWorkspace
    <3>6. ASSUME NEW c, HumanCommand(t, c)
          PROVE  \A u \in Tasks : taskStatus'[u] = "BLOCKED" => taskStatus[u] = "BLOCKED"
      BY <1>1, <3>6 DEF HumanCommand, Target
    <3> QED
      BY <1>3, <3>1, <3>2, <3>3, <3>4, <3>5, <3>6 DEF TaskStep
  <2> QED
    BY <2>1, <2>2 DEF RunsKept
<1>4. ASSUME NEW f \in Feedbacks, Discuss(f)
      PROVE  RunsKept
  BY <1>4 DEF Discuss, QueueFeedback, RunsKept, taskVars
<1>5. ASSUME NEW f \in Feedbacks, RetryFeedback(f)
      PROVE  RunsKept
  <2>1. PICK g \in Feedbacks :
            feedback[g].status = "FAILED" /\ QueueFeedback(f, feedback[g].task, g)
    BY <1>5 DEF RetryFeedback
  <2>2. feedback[g].task \in Tasks
    BY <2>1 DEF Rows, TurnsAreRows
  <2>3. UNCHANGED <<taskVars, runVars>>
    BY <2>1 DEF QueueFeedback
  <2> QED
    BY <2>1, <2>2, <2>3 DEF RunsKept, taskVars
<1> QED
  BY <1>3, <1>4, <1>5

\* So every step is of one of these kinds or gives an answer.
LEMMA Steps ==
    ASSUME IInv, Outcomes, [Next]_vars
    PROVE  \/ \E r \in Runs, p \in Purposes, t \in Tasks : Inserts(r, p, t)
           \/ \E r \in Runs : Works(r)
           \/ \E r \in Runs, s \in Terminal : Ends(r, s)
           \/ \E r \in Runs : AnswerSubject(r)
           \/ RunsKept
<1>1. UNCHANGED vars => RunsKept
  BY DEF vars, taskVars, RunsKept
<1> QED
  BY <1>1, ClaimInserts, RunWorksOrEnds, HumansKeepRuns DEF Next

\* What a claim does to the rows of runs.
LEMMA InsertShape ==
    ASSUME IInv, NEW r \in Runs, NEW p \in Purposes, NEW t \in Tasks, Inserts(r, p, t)
    PROVE  /\ runStatus[r] = "ABSENT" /\ claim[r] = NoClaim /\ ~Engaged(t)
           /\ \A q \in Runs : q < r => runStatus[q] # "ABSENT"
           /\ runStatus'[r] = "CLAIMED" /\ claim'[r].task = t /\ claim'[r].purpose = p
           /\ claim'[r].continues \in Continuations(t, p)
           /\ \A q \in Runs \ {r} : runStatus'[q] = runStatus[q] /\ claim'[q] = claim[q]
           /\ UNCHANGED <<intent, completed, assessed, question, answeredAt>>
<1>1. TypeOK /\ ClaimsAreRows
  BY DEF IInv, Rows
<1>2. PICK v \in Nat : InsertClaimedRun(r, p, t, v)
  BY DEF Inserts
<1>3. PICK s \in Continuations(t, p) :
        claim' = [claim EXCEPT ![r] = [purpose |-> p, task |-> t,
                                       subject |-> v, continues |-> s]]
  BY <1>2 DEF InsertClaimedRun
<1>4. /\ claim'[r] = [purpose |-> p, task |-> t, subject |-> v, continues |-> s]
      /\ \A q \in Runs \ {r} : claim'[q] = claim[q]
  BY <1>1, <1>3 DEF TypeOK
<1>5. runStatus[r] = "ABSENT" /\ claim[r] = NoClaim
  BY <1>1, <1>2 DEF InsertClaimedRun, IsNewRun, ClaimsAreRows
<1> QED
  BY <1>1, <1>2, <1>4, <1>5 DEF InsertClaimedRun, IsNewRun, TypeOK

\* What an active run that goes on does to them.
LEMMA WorkShape ==
    ASSUME IInv, NEW r \in Runs, Works(r)
    PROVE  /\ IsActive(r) /\ runStatus'[r] \in Active
           /\ \A q \in Runs \ {r} : runStatus'[q] = runStatus[q]
           /\ UNCHANGED <<taskStatus, claim, completed, question, answeredAt, feedback>>
BY DEF Works, Start, MarkRunning, ApplyTriageResult, BeginFinalization, IInv, TypeOK,
       IsActive, Active, taskVars

\* What the end of a run does to them.
LEMMA EndShape ==
    ASSUME IInv, NEW r \in Runs, NEW s \in Terminal, Ends(r, s)
    PROVE  /\ IsActive(r) /\ runStatus'[r] = s
           /\ question'[r] = IF s = "NEEDS_INPUT" THEN "OPEN" ELSE question[r]
           /\ \A q \in Runs \ {r} : runStatus'[q] = runStatus[q] /\ question'[q] = question[q]
           /\ UNCHANGED <<claim, intent, assessed, answeredAt>>
BY DEF Ends, EndRun, IInv, TypeOK

\* What an answer does to them: the task of a work run was BLOCKED and is not
\* any more.
LEMMA AnswerShape ==
    ASSUME IInv, NEW r \in Runs, AnswerSubject(r)
    PROVE  /\ question[r] = "OPEN" /\ question'[r] = "ANSWERED"
           /\ answeredAt'[r] = Cardinality(Answered) + 1
           /\ \A q \in Runs \ {r} : question'[q] = question[q] /\ answeredAt'[q] = answeredAt[q]
           /\ UNCHANGED <<runStatus, claim, intent, completed, assessed, feedback>>
           /\ IsWork(r) => taskStatus[claim[r].task] = "BLOCKED"
                           /\ taskStatus'[claim[r].task] # "BLOCKED"
           /\ \A t \in Tasks : taskStatus'[t] = "BLOCKED" => taskStatus[t] = "BLOCKED"
<1>1. claim[r].purpose \in Purposes => claim[r].task \in Tasks
  BY DEF IInv, Rows, ClaimsAreRows, NoClaim, Purposes
<1>2. ASSUME NEW c \in {"RESUME_IMPLEMENTATION", "RESUME_REVISION"}, claim[r].task \in Tasks,
             ApplyCommand(claim[r].task, c)
      PROVE  /\ taskStatus[claim[r].task] = "BLOCKED" /\ taskStatus'[claim[r].task] # "BLOCKED"
             /\ \A t \in Tasks : taskStatus'[t] = "BLOCKED" => taskStatus[t] = "BLOCKED"
  BY <1>2 DEF ApplyCommand, Sources, Target, IInv, TypeOK
<1>3. /\ IsWork(r) => taskStatus[claim[r].task] = "BLOCKED"
                      /\ taskStatus'[claim[r].task] # "BLOCKED"
      /\ \A t \in Tasks : taskStatus'[t] = "BLOCKED" => taskStatus[t] = "BLOCKED"
  BY <1>1, <1>2 DEF AnswerSubject, IsWork, Purposes
<1>4. /\ question[r] = "OPEN" /\ question'[r] = "ANSWERED"
      /\ answeredAt'[r] = Cardinality(Answered) + 1
      /\ \A q \in Runs \ {r} : question'[q] = question[q] /\ answeredAt'[q] = answeredAt[q]
  BY DEF AnswerSubject, Answered, IInv, TypeOK
<1> QED
  BY <1>3, <1>4 DEF AnswerSubject

-----------------------------------------------------------------------------
(* The order of runs.                                                      *)

\* A run that is inserted comes after all the rows that exist.
LEMMA EarlierRuns ==
    ASSUME IInv, RowsInOrder,
           NEW r \in Runs, NEW p \in Purposes, NEW t \in Tasks, Inserts(r, p, t)
    PROVE  \A q \in Runs : /\ runStatus[q] # "ABSENT" => q < r
                           /\ claim[q].task \in Tasks => q < r
<1>1. ASSUME NEW q \in Runs, runStatus[q] # "ABSENT"
      PROVE  q < r
  BY <1>1, InsertShape DEF RowsInOrder, Runs
<1>2. \A q \in Runs : claim[q].task \in Tasks => runStatus[q] # "ABSENT"
  BY DEF IInv, Rows, ClaimsAreRows, NoClaim, Tasks, None
<1> QED
  BY <1>1, <1>2

\* Every step keeps the order of the rows: a run is inserted last, and only
\* when its task has no active run.
LEMMA HistoryStep ==
    ASSUME IInv, Outcomes, History, [Next]_vars
    PROVE  RowsInOrder' /\ ActiveIsLatest'
<1> USE DEF History, RowsInOrder, ActiveIsLatest, RunsOf
<1>0. Runs \subseteq Nat
  BY DEF Runs
<1>1. ASSUME NEW r \in Runs, NEW p \in Purposes, NEW t \in Tasks, Inserts(r, p, t)
      PROVE  RowsInOrder' /\ ActiveIsLatest'
  <2>1. \A q \in Runs : runStatus[q] # "ABSENT" => q < r
    BY <1>1, EarlierRuns
  <2>2. \A q \in Runs : claim[q].task \in Tasks => q < r
    BY <1>1, EarlierRuns
  <2>3. RowsInOrder'
    <3>1. \A q \in Runs : runStatus'[q] = IF q = r THEN "CLAIMED" ELSE runStatus[q]
      BY <1>1, InsertShape
    <3>2. \A q \in Runs : q < r => runStatus[q] # "ABSENT"
      BY <1>1, InsertShape
    <3> QED
      BY <3>1, <3>2
  <2>4. ActiveIsLatest'
    BY <1>0, <1>1, <2>1, <2>2, InsertShape DEF IsActive, Active, Engaged
  <2> QED
    BY <2>3, <2>4
<1>2. ASSUME NEW r \in Runs, Works(r)
      PROVE  RowsInOrder' /\ ActiveIsLatest'
  BY <1>2, WorkShape DEF IsActive, Active
<1>3. ASSUME NEW r \in Runs, NEW s \in Terminal, Ends(r, s)
      PROVE  RowsInOrder' /\ ActiveIsLatest'
  BY <1>3, EndShape DEF IsActive, Active, Terminal
<1>4. ASSUME UNCHANGED <<runStatus, claim>>
      PROVE  RowsInOrder' /\ ActiveIsLatest'
  BY <1>4 DEF IsActive
<1> QED
  BY <1>1, <1>2, <1>3, <1>4, Steps, AnswerShape DEF RunsKept, runVars

\* Every step keeps what a runner may have collected when it froze the intent.
LEMMA AskersStep ==
    ASSUME IInv, Outcomes, History, [Next]_vars
    PROVE  AskersOnlyAsk'
<1> USE DEF History, AskersOnlyAsk
<1>1. ASSUME NEW r \in Runs, NEW p \in Purposes, NEW t \in Tasks, Inserts(r, p, t)
      PROVE  AskersOnlyAsk'
  BY <1>1, InsertShape DEF Terminal, NoClaim
<1>2. ASSUME NEW r \in Runs, Works(r)
      PROVE  AskersOnlyAsk'
  <2>1. CASE Start(r) \/ MarkRunning(r)
    BY <1>2, <2>1, WorkShape DEF Start, MarkRunning, Terminal
  <2>2. CASE ApplyTriageResult(r)
    BY <2>2 DEF ApplyTriageResult, Terminal
  <2>3. ASSUME NEW s \in Terminal, BeginFinalization(r, s)
        PROVE  AskersOnlyAsk'
    <3>1. s = "NEEDS_INPUT" => claim[r].purpose # "REVIEW" /\ r \notin assessed
      BY <2>3, ChoicesAssumption DEF BeginFinalization, Collected
    <3>2. /\ runStatus'[r] = "FINALIZING" /\ intent'[r] = s
          /\ \A q \in Runs \ {r} : runStatus'[q] = runStatus[q] /\ intent'[q] = intent[q]
          /\ UNCHANGED <<claim, assessed>>
      BY <2>3 DEF BeginFinalization, IInv, TypeOK
    <3> QED
      BY <3>1, <3>2
  <2> QED
    BY <1>2, <2>1, <2>2, <2>3 DEF Works
<1>3. ASSUME NEW r \in Runs, NEW s \in Terminal, Ends(r, s)
      PROVE  AskersOnlyAsk'
  BY <1>3, EndShape
<1>4. ASSUME UNCHANGED <<runStatus, claim, intent, assessed>>
      PROVE  AskersOnlyAsk'
  BY <1>4
<1> QED
  BY <1>1, <1>2, <1>3, <1>4, Steps, AnswerShape DEF RunsKept, runVars

-----------------------------------------------------------------------------
(* Blocked tasks, triage and feedback.                                     *)

\* A task gets BLOCKED by its latest run, only discussions come after it, and
\* the answer to its question unblocks it.
LEMMA BlockedStep ==
    ASSUME IInv, Outcomes, History, BlockedByWork, [Next]_vars
    PROVE  BlockedByWork'
<1> DEFINE Latest(t) ==
        \E r \in RunsOf(t) : /\ \A s \in RunsOf(t) : s <= r
                             /\ claim[r].purpose # "TRIAGE"
                             /\ runStatus[r] = "NEEDS_INPUT" => question[r] = "OPEN"
<1>0. Runs \subseteq Nat
  BY DEF Runs
<1>1. ASSUME NEW r \in Runs, NEW p \in Purposes, NEW t \in Tasks, Inserts(r, p, t),
             NEW u \in Tasks, taskStatus'[u] = "BLOCKED"
      PROVE  Latest(u)'
  <2>1. taskStatus[u] = "BLOCKED" /\ (u = t => p = "REVIEW")
    BY <1>1 DEF Inserts
  <2>2. CASE u = t
    <3>1. \A q \in Runs : claim[q].task \in Tasks => q < r
      BY <1>1, EarlierRuns DEF History
    <3>2. r \in RunsOf(u)' /\ \A q \in RunsOf(u)' : q <= r
      BY <1>0, <1>1, <2>2, <3>1, InsertShape DEF RunsOf
    <3>3. claim'[r].purpose # "TRIAGE" /\ runStatus'[r] # "NEEDS_INPUT"
      BY <1>1, <2>1, <2>2, InsertShape
    <3> QED
      BY <3>2, <3>3
  <2>3. CASE u # t
    <3>1. PICK l \in RunsOf(u) : /\ \A q \in RunsOf(u) : q <= l
                                 /\ claim[l].purpose # "TRIAGE"
                                 /\ runStatus[l] = "NEEDS_INPUT" => question[l] = "OPEN"
      BY <2>1 DEF BlockedByWork
    <3>2. RunsOf(u)' = RunsOf(u) /\ l # r /\ l \in Runs
      BY <1>1, <2>3, <3>1, InsertShape DEF RunsOf, NoClaim, Tasks, None
    <3> QED
      BY <1>1, <3>1, <3>2, InsertShape
  <2> QED
    BY <2>2, <2>3
<1>2. ASSUME NEW r \in Runs, Works(r), NEW u \in Tasks, taskStatus'[u] = "BLOCKED"
      PROVE  Latest(u)'
  <2>1. Latest(u)
    BY <1>2, WorkShape DEF BlockedByWork
  <2> QED
    BY <1>2, <2>1, WorkShape DEF RunsOf, Active
<1>3. ASSUME NEW r \in Runs, NEW s \in Terminal, Ends(r, s),
             NEW u \in Tasks, taskStatus'[u] = "BLOCKED"
      PROVE  Latest(u)'
  <2>0. claim[r].task \in Tasks /\ claim[r].purpose \in Purposes
    BY <1>3, EndShape DEF IsActive, Active, IInv, Rows, ClaimsAreRows
  <2>1. RunsOf(u)' = RunsOf(u)
    BY <1>3, EndShape DEF RunsOf
  <2>2. CASE u = claim[r].task /\ IsWork(r)
    <3>1. r \in RunsOf(u) /\ \A q \in RunsOf(u) : q <= r
      BY <1>3, <2>2, EndShape DEF History, ActiveIsLatest, RunsOf
    <3>2. claim'[r].purpose # "TRIAGE" /\ (runStatus'[r] = "NEEDS_INPUT" => question'[r] = "OPEN")
      BY <1>3, <2>2, EndShape DEF IsWork
    <3> QED
      BY <2>1, <3>1, <3>2
  <2>3. CASE ~(u = claim[r].task /\ IsWork(r))
    <3>1. taskStatus[u] = "BLOCKED"
      BY <1>3, <2>0, <2>3 DEF Ends, EndRun, ApplyCommand, IInv, TypeOK
    <3>2. PICK l \in RunsOf(u) : /\ \A q \in RunsOf(u) : q <= l
                                 /\ claim[l].purpose # "TRIAGE"
                                 /\ runStatus[l] = "NEEDS_INPUT" => question[l] = "OPEN"
      BY <3>1 DEF BlockedByWork
    <3>3. runStatus'[l] = "NEEDS_INPUT" => question'[l] = "OPEN"
      BY <1>3, <3>2, EndShape DEF RunsOf
    <3>4. UNCHANGED claim
      BY <1>3, EndShape
    <3> QED
      BY <2>1, <3>2, <3>3, <3>4
  <2> QED
    BY <2>2, <2>3
<1>4. ASSUME NEW r \in Runs, AnswerSubject(r), NEW u \in Tasks, taskStatus'[u] = "BLOCKED"
      PROVE  Latest(u)'
  <2>1. PICK l \in RunsOf(u) : /\ \A q \in RunsOf(u) : q <= l
                               /\ claim[l].purpose # "TRIAGE"
                               /\ runStatus[l] = "NEEDS_INPUT" => question[l] = "OPEN"
    BY <1>4, AnswerShape DEF BlockedByWork
  <2>2. l # r
    <3>1. SUFFICES ASSUME l = r
                   PROVE  FALSE
      OBVIOUS
    <3>2. runStatus[r] = "NEEDS_INPUT" /\ intent[r] = "NEEDS_INPUT"
      BY <1>4, AnswerShape DEF Outcomes, OutcomeMatchesIntent
    <3>3. claim[r].purpose \in Purposes
      BY <3>2 DEF IInv, Rows, ClaimsAreRows
    <3>4. IsWork(r) /\ claim[r].task = u
      BY <2>1, <3>1, <3>2, <3>3 DEF History, AskersOnlyAsk, IsWork, Purposes, RunsOf
    <3> QED
      BY <1>4, <3>4, AnswerShape
  <2>3. l \in Runs /\ RunsOf(u)' = RunsOf(u)
    BY <1>4, AnswerShape DEF RunsOf
  <2> QED
    BY <1>4, <2>1, <2>2, <2>3, AnswerShape
<1>5. ASSUME RunsKept, NEW u \in Tasks, taskStatus'[u] = "BLOCKED"
      PROVE  Latest(u)'
  <2>1. Latest(u)
    BY <1>5 DEF RunsKept, BlockedByWork
  <2> QED
    BY <1>5, <2>1 DEF RunsKept, runVars, RunsOf
<1> QED
  BY <1>1, <1>2, <1>3, <1>4, <1>5, Steps DEF BlockedByWork

\* The queue of the implementation lets a task through only when an earlier
\* triage run is done with it, and what a run was at its end it stays.
LEMMA TriageStep ==
    ASSUME IInv, Outcomes, History, ImplementationFollowsTriage, [Next]_vars
    PROVE  ImplementationFollowsTriage'
<1> SUFFICES ASSUME "TRIAGE" \in Configured, NEW q \in Runs,
                    claim'[q].purpose = "IMPLEMENTATION"
             PROVE  \E s \in RunsOf(claim[q].task)' :
                        /\ s < q /\ claim'[s].purpose = "TRIAGE"
                        /\ runStatus'[s] \in Terminal \ {"NEEDS_INPUT"}
  BY DEF ImplementationFollowsTriage
<1>0. Runs \subseteq Nat
  BY DEF Runs
<1> DEFINE Settled(s) == runStatus[s] \in Terminal \ {"NEEDS_INPUT"}
<1>1. ASSUME claim[q].purpose = "IMPLEMENTATION", claim'[q] = claim[q],
             \A s \in Runs : claim[s] # NoClaim => claim'[s] = claim[s],
             \A s \in Runs : runStatus[s] \in Terminal => runStatus'[s] = runStatus[s]
      PROVE  \E s \in RunsOf(claim[q].task)' :
                        /\ s < q /\ claim'[s].purpose = "TRIAGE"
                        /\ runStatus'[s] \in Terminal \ {"NEEDS_INPUT"}
  <2>1. PICK s \in RunsOf(claim[q].task) :
            s < q /\ claim[s].purpose = "TRIAGE" /\ Settled(s)
    BY <1>1 DEF ImplementationFollowsTriage
  <2>2. claim[s] # NoClaim /\ s \in Runs
    BY <2>1 DEF NoClaim, RunsOf
  <2> QED
    BY <1>1, <2>1, <2>2 DEF RunsOf
<1>2. ASSUME NEW r \in Runs, NEW p \in Purposes, NEW t \in Tasks, Inserts(r, p, t)
      PROVE  \E s \in RunsOf(claim[q].task)' :
                        /\ s < q /\ claim'[s].purpose = "TRIAGE"
                        /\ runStatus'[s] \in Terminal \ {"NEEDS_INPUT"}
  <2>1. CASE q # r
    BY <1>1, <1>2, <2>1, InsertShape DEF Terminal
  <2>2. CASE q = r
    <3>0. p = "IMPLEMENTATION" /\ claim'[r].task = t
      BY <1>2, <2>2, InsertShape
    <3>1. t \in ImplementationQueue
      BY <1>2, <3>0 DEF Inserts
    <3>2. PICK s \in RunsOf(t) : claim[s].purpose = "TRIAGE" /\ Settled(s)
      <4>1. CASE TriagedAs(t, Terminal \ {"NEEDS_INPUT"})
        BY <4>1 DEF TriagedAs
      <4>2. CASE Assessed(t)
        <5>1. PICK s \in RunsOf(t) : s \in assessed
          BY <4>2 DEF Assessed
        <5>2. s \in Runs /\ claim[s].purpose = "TRIAGE" /\ intent[s] # "NEEDS_INPUT"
          BY <5>1 DEF History, AskersOnlyAsk, RunsOf
        <5>3. runStatus[s] # "NEEDS_INPUT"
          BY <5>2 DEF Outcomes, OutcomeMatchesIntent
        <5>4. runStatus[s] # "ABSENT" /\ ~IsActive(s)
          BY <1>2, <5>1, <5>2, InsertShape DEF IInv, Rows, ClaimsAreRows, NoClaim, Engaged
        <5> QED
          BY <5>1, <5>2, <5>3, <5>4 DEF IInv, TypeOK, IsActive
      <4> QED
        BY <3>1, <4>1, <4>2 DEF ImplementationQueue
    <3>3. s \in Runs /\ s # r /\ s < r
      <4>1. s \in Runs /\ runStatus[s] # "ABSENT"
        BY <3>2 DEF RunsOf, Terminal
      <4> QED
        BY <1>0, <1>2, <4>1, EarlierRuns DEF History
    <3>4. s \in RunsOf(t)' /\ claim'[s] = claim[s] /\ runStatus'[s] = runStatus[s]
      BY <1>2, <3>2, <3>3, InsertShape DEF RunsOf
    <3> QED
      BY <2>2, <3>0, <3>2, <3>3, <3>4
  <2> QED
    BY <2>1, <2>2
<1>3. ASSUME NEW r \in Runs, Works(r)
      PROVE  \E s \in RunsOf(claim[q].task)' :
                        /\ s < q /\ claim'[s].purpose = "TRIAGE"
                        /\ runStatus'[s] \in Terminal \ {"NEEDS_INPUT"}
  BY <1>1, <1>3, WorkShape DEF IsActive, Active, Terminal
<1>4. ASSUME NEW r \in Runs, NEW s \in Terminal, Ends(r, s)
      PROVE  \E z \in RunsOf(claim[q].task)' :
                        /\ z < q /\ claim'[z].purpose = "TRIAGE"
                        /\ runStatus'[z] \in Terminal \ {"NEEDS_INPUT"}
  BY <1>1, <1>4, EndShape DEF IsActive, Active, Terminal
<1>5. ASSUME UNCHANGED <<runStatus, claim>>
      PROVE  \E s \in RunsOf(claim[q].task)' :
                        /\ s < q /\ claim'[s].purpose = "TRIAGE"
                        /\ runStatus'[s] \in Terminal \ {"NEEDS_INPUT"}
  BY <1>1, <1>5
<1> QED
  BY <1>2, <1>3, <1>4, <1>5, Steps, AnswerShape DEF RunsKept, runVars

\* What FeedbackFollowsRun says of one turn, and of one discussion.
TurnFollows(f) ==
    /\ feedback[f].status \in {"RUNNING", "ANSWERED", "FAILED"} <=> feedback[f].run # None
    /\ feedback[f].run # None =>
         /\ claim[feedback[f].run].purpose = "REVIEW"
         /\ claim[feedback[f].run].task = feedback[f].task
         /\ feedback[f].status = "RUNNING"  <=> IsActive(feedback[f].run)
         /\ feedback[f].status = "ANSWERED" <=> runStatus[feedback[f].run] = "SUCCEEDED"
    /\ feedback[f].retryOf # None => feedback[feedback[f].retryOf].status = "FAILED"

OneTurn(r) ==
    claim[r].purpose = "REVIEW" =>
        \E f \in Feedbacks : /\ feedback[f].run = r
                             /\ \A g \in Feedbacks : feedback[g].run = r => g = f

\* The two readings are the same.
LEMMA FeedbackParts ==
    FeedbackFollowsRun <=> (\A f \in Feedbacks : TurnFollows(f)) /\ (\A r \in Runs : OneTurn(r))
BY DEF FeedbackFollowsRun, TurnFollows, OneTurn

\* A turn gets its run by the claim and settles with the end of it.
LEMMA FeedbackStep ==
    ASSUME IInv, Outcomes, FeedbackFollowsRun, [Next]_vars
    PROVE  (\A f \in Feedbacks : TurnFollows(f)') /\ (\A r \in Runs : OneTurn(r)')
<1>0. (\A f \in Feedbacks : TurnFollows(f)) /\ (\A r \in Runs : OneTurn(r))
  BY FeedbackParts
<1>a. \A f \in Feedbacks : /\ feedback[f].run \in Runs \cup {None}
                           /\ feedback[f].retryOf \in Feedbacks \cup {None}
  BY DEF IInv, TypeOK
<1>b. None \notin Runs /\ None \notin Feedbacks
  BY DEF None, Runs, Feedbacks
<1>1. ASSUME NEW r \in Runs, NEW p \in Purposes, NEW t \in Tasks, Inserts(r, p, t)
      PROVE  (\A f \in Feedbacks : TurnFollows(f)') /\ (\A q \in Runs : OneTurn(q)')
  <2>1. \A f \in Feedbacks : feedback[f].run # r
    BY <1>0, <1>1, <1>b, InsertShape DEF TurnFollows, NoClaim
  <2>2. \A q \in Runs \ {r} : /\ claim'[q] = claim[q] /\ runStatus'[q] = runStatus[q]
                              /\ IsActive(q)' <=> IsActive(q)
    BY <1>1, InsertShape DEF IsActive
  <2>3. ASSUME NEW f \in Feedbacks, feedback'[f] = feedback[f],
               \A g \in Feedbacks : feedback[g].status = "FAILED" => feedback'[g].status = "FAILED"
        PROVE  TurnFollows(f)'
    BY <1>0, <1>a, <2>1, <2>2, <2>3 DEF TurnFollows
  <2>4. CASE p = "REVIEW"
    <3>1. PICK f \in Feedbacks :
            /\ feedback[f].status = "QUEUED" /\ feedback[f].task = t
            /\ feedback' = [feedback EXCEPT ![f] = [@ EXCEPT !.status = "RUNNING", !.run = r]]
      BY <1>1, <2>4 DEF Inserts
    <3>2. /\ feedback'[f].status = "RUNNING" /\ feedback'[f].run = r
          /\ feedback'[f].task = t /\ feedback'[f].retryOf = feedback[f].retryOf
          /\ \A g \in Feedbacks \ {f} : feedback'[g] = feedback[g]
      BY <3>1 DEF IInv, TypeOK
    <3>3. \A g \in Feedbacks : feedback[g].status = "FAILED" => feedback'[g].status = "FAILED"
      BY <3>1, <3>2
    <3>4. TurnFollows(f)'
      <4>1. claim'[r].purpose = "REVIEW" /\ claim'[r].task = t /\ runStatus'[r] = "CLAIMED"
        BY <1>1, <2>4, InsertShape
      <4>2. feedback'[f].retryOf # None => feedback'[feedback'[f].retryOf].status = "FAILED"
        BY <1>0, <1>a, <3>2, <3>3 DEF TurnFollows
      <4> QED
        BY <1>b, <3>2, <4>1, <4>2 DEF TurnFollows, IsActive, Active
    <3>5. \A g \in Feedbacks \ {f} : TurnFollows(g)'
      BY <2>3, <3>2, <3>3
    <3>6. OneTurn(r)'
      BY <2>1, <3>2 DEF OneTurn
    <3>7. ASSUME NEW q \in Runs \ {r}, claim'[q].purpose = "REVIEW"
          PROVE  OneTurn(q)'
      <4>1. PICK g \in Feedbacks : /\ feedback[g].run = q
                                   /\ \A h \in Feedbacks : feedback[h].run = q => h = g
        BY <1>0, <2>2, <3>7 DEF OneTurn
      <4>2. g # f
        BY <1>0, <1>b, <3>1, <4>1 DEF TurnFollows
      <4> QED
        BY <3>2, <4>1, <4>2 DEF OneTurn
    <3> QED
      BY <3>4, <3>5, <3>6, <3>7 DEF OneTurn
  <2>5. CASE p # "REVIEW"
    <3>1. UNCHANGED feedback
      BY <1>1, <2>5 DEF Inserts
    <3>2. claim'[r].purpose # "REVIEW"
      BY <1>1, <2>5, InsertShape
    <3>3. \A q \in Runs : OneTurn(q)'
      BY <1>0, <2>2, <3>1, <3>2 DEF OneTurn
    <3> QED
      BY <2>3, <3>1, <3>3
  <2> QED
    BY <2>4, <2>5
<1>2. ASSUME NEW r \in Runs, Works(r)
      PROVE  (\A f \in Feedbacks : TurnFollows(f)') /\ (\A q \in Runs : OneTurn(q)')
  <2>1. UNCHANGED <<claim, feedback>>
    BY <1>2, WorkShape
  <2>2. \A q \in Runs : /\ IsActive(q)' <=> IsActive(q)
                        /\ runStatus'[q] = "SUCCEEDED" <=> runStatus[q] = "SUCCEEDED"
    BY <1>2, WorkShape DEF IsActive, Active
  <2> QED
    BY <1>0, <1>a, <2>1, <2>2 DEF TurnFollows, OneTurn
<1>3. ASSUME NEW r \in Runs, NEW s \in Terminal, Ends(r, s)
      PROVE  (\A f \in Feedbacks : TurnFollows(f)') /\ (\A q \in Runs : OneTurn(q)')
  <2>1. /\ UNCHANGED claim /\ IsActive(r)
        /\ runStatus'[r] = s /\ \A q \in Runs \ {r} : runStatus'[q] = runStatus[q]
    BY <1>3, EndShape
  <2>2. /\ ~IsActive(r)'
        /\ \A q \in Runs \ {r} : IsActive(q)' <=> IsActive(q)
    BY <2>1 DEF IsActive, Active, Terminal
  <2>3. \A f \in Feedbacks :
            /\ feedback'[f].run = feedback[f].run /\ feedback'[f].task = feedback[f].task
            /\ feedback'[f].retryOf = feedback[f].retryOf
            /\ feedback[f].run # r => feedback'[f].status = feedback[f].status
            /\ feedback[f].run = r =>
                 /\ feedback[f].status = "RUNNING"
                 /\ feedback'[f].status = IF s = "SUCCEEDED" THEN "ANSWERED" ELSE "FAILED"
    <3>1. \A f \in Feedbacks : feedback[f].run = r =>
                claim[r].purpose = "REVIEW" /\ feedback[f].status = "RUNNING"
      BY <1>0, <1>b, <2>1 DEF TurnFollows
    <3>2. \A f \in Feedbacks : feedback'[f] =
            IF claim[r].purpose = "REVIEW" /\ feedback[f].run = r
                                           /\ feedback[f].status = "RUNNING"
            THEN [feedback[f] EXCEPT
                    !.status = IF s = "SUCCEEDED" THEN "ANSWERED" ELSE "FAILED"]
            ELSE feedback[f]
      BY <1>3 DEF Ends, EndRun
    <3> QED
      BY <3>1, <3>2 DEF IInv, TypeOK
  <2>4. ASSUME NEW f \in Feedbacks
        PROVE  TurnFollows(f)'
    <3>1. feedback[f].retryOf # None => feedback'[feedback[f].retryOf].status = "FAILED"
      BY <1>0, <1>a, <2>3 DEF TurnFollows
    <3>2. CASE feedback[f].run = r
      BY <1>0, <1>b, <2>1, <2>2, <2>3, <3>1, <3>2 DEF TurnFollows
    <3>3. CASE feedback[f].run # r
      BY <1>0, <1>a, <1>b, <2>1, <2>2, <2>3, <3>1, <3>3 DEF TurnFollows
    <3> QED
      BY <3>2, <3>3
  <2>5. \A q \in Runs : OneTurn(q)'
    BY <1>0, <2>1, <2>3 DEF OneTurn
  <2> QED
    BY <2>4, <2>5
<1>4. ASSUME UNCHANGED <<runStatus, claim, feedback>>
      PROVE  (\A f \in Feedbacks : TurnFollows(f)') /\ (\A q \in Runs : OneTurn(q)')
  BY <1>0, <1>4 DEF TurnFollows, OneTurn, IsActive
<1>5. ASSUME UNCHANGED runVars, NEW f \in Feedbacks, NEW t \in Tasks,
             NEW g \in Feedbacks \cup {None}, QueueFeedback(f, t, g),
             g # None => feedback[g].status = "FAILED"
      PROVE  (\A h \in Feedbacks : TurnFollows(h)') /\ (\A q \in Runs : OneTurn(q)')
  <2>1. /\ feedback[f].status = "ABSENT"
        /\ feedback'[f] = [status |-> "QUEUED", task |-> t, run |-> None, retryOf |-> g]
        /\ \A h \in Feedbacks \ {f} : feedback'[h] = feedback[h]
    BY <1>5 DEF QueueFeedback, IsNewFeedback, IInv, TypeOK
  <2>2. \A h \in Feedbacks : feedback[h].status = "FAILED" => feedback'[h].status = "FAILED"
    BY <2>1
  <2>3. UNCHANGED <<runStatus, claim>> /\ \A q \in Runs : IsActive(q)' <=> IsActive(q)
    BY <1>5 DEF runVars, IsActive
  <2>4. TurnFollows(f)'
    BY <1>5, <2>1, <2>2 DEF TurnFollows
  <2>5. \A h \in Feedbacks \ {f} : TurnFollows(h)'
    BY <1>0, <1>a, <2>1, <2>2, <2>3 DEF TurnFollows
  <2>6. feedback[f].run = None
    BY <1>0, <2>1 DEF TurnFollows
  <2>7. \A q \in Runs : OneTurn(q)'
    BY <1>0, <1>b, <2>1, <2>3, <2>6 DEF OneTurn
  <2> QED
    BY <2>4, <2>5, <2>7
<1> QED
  BY <1>1, <1>2, <1>3, <1>4, <1>5, Steps, AnswerShape DEF RunsKept, runVars

-----------------------------------------------------------------------------
(* Answers.                                                                *)

\* A run that has asked has ended with the question it froze, and discusses
\* nothing.
LEMMA Asked ==
    ASSUME IInv, Outcomes, AskersOnlyAsk, NEW r \in Runs, question[r] # "NONE"
    PROVE  /\ runStatus[r] = "NEEDS_INPUT" /\ ~IsActive(r)
           /\ claim[r].purpose \in Purposes \ {"REVIEW"} /\ claim[r].task \in Tasks
<1>1. runStatus[r] = "NEEDS_INPUT" /\ intent[r] = "NEEDS_INPUT"
  BY DEF Outcomes, OutcomeMatchesIntent
<1> QED
  BY <1>1 DEF AskersOnlyAsk, IInv, Rows, ClaimsAreRows, IsActive, Active

\* Answers stay as they are when no question and no claim changes, no run that
\* was idle becomes active, and none that ended before opens a question.
LEMMA AnswersKept ==
    ASSUME IInv, Answers, UNCHANGED <<claim, answeredAt>>, Answered' = Answered,
           \A r \in Runs : question'[r] = "ANSWERED" <=> question[r] = "ANSWERED",
           \A r \in Runs : IsActive(r)' => IsActive(r),
           \A r \in Runs : question'[r] = "OPEN" => question[r] = "OPEN" \/ IsActive(r),
           OneOpenQuestion'
    PROVE  Answers'
<1>1. AnswersAreRanked'
  BY DEF Answers, AnswersAreRanked
<1>2. \A r \in Runs : Waits(r)' <=> Waits(r)
  BY DEF Waits
<1>a. \A r \in Runs : claim[r].continues \in Runs \cup {None}
  BY DEF IInv, TypeOK
<1>b. TakenUpOnce'
  BY <1>a DEF Answers, TakenUpOnce
<1>3. TakenUpOnce' /\ TakenUpInOrder'
  BY <1>b, <1>2 DEF Answers, TakenUpInOrder, Alike
<1>4. WorkWaitsAlone'
  BY <1>2 DEF Answers, WorkWaitsAlone, Alike, IsWork
<1> QED
  BY <1>1, <1>3, <1>4 DEF Answers

\* A claim takes up the oldest of the answers that wait.
LEMMA InsertAnswers ==
    ASSUME IInv, Outcomes, History, Answers,
           NEW r \in Runs, NEW p \in Purposes, NEW t \in Tasks, Inserts(r, p, t)
    PROVE  Answers'
<1> DEFINE c == claim'[r].continues
<1>1. /\ c \in Continuations(t, p) /\ claim'[r].task = t /\ claim'[r].purpose = p
      /\ \A q \in Runs \ {r} : claim'[q] = claim[q]
      /\ claim[r].continues = None
      /\ UNCHANGED <<question, answeredAt>>
  BY InsertShape DEF NoClaim
<1>2. question[r] = "NONE"
  BY InsertShape, Asked DEF History
<1>3. None \notin Runs
  BY DEF None, Runs
<1>4. c \in Runs \cup {None}
  BY <1>1, ContinuationIsRun
<1>5. c # None => /\ Waits(c) /\ claim[c].task = t /\ claim[c].purpose = p /\ c < r /\ c # r
                  /\ \A q \in Runs : Waits(q) /\ claim[q].task = t /\ claim[q].purpose = p
                                     => answeredAt[c] <= answeredAt[q]
  <2>1. SUFFICES ASSUME c # None
                 PROVE  /\ c \in PendingAnswers(t, p)
                        /\ \A q \in PendingAnswers(t, p) : answeredAt[c] <= answeredAt[q]
    BY <1>2, EarlierRuns DEF PendingAnswers, RunsOf, Waits, History
  <2> QED
    BY <1>1, <2>1 DEF Continuations
<1>6. \A q \in Runs : Waits(q)' <=> Waits(q) /\ q # c
  BY <1>1, <1>3, <1>5 DEF Waits
<1>7. c = None => \A q \in Runs : ~(Waits(q) /\ claim[q].task = t /\ claim[q].purpose = p)
  BY <1>1, <1>3 DEF Continuations, PendingAnswers, RunsOf, Waits
<1>8. AnswersAreRanked' /\ OneOpenQuestion'
  BY <1>1, <1>2 DEF Answers, AnswersAreRanked, OneOpenQuestion, Answered
<1>9. TakenUpOnce'
  <2>1. ASSUME NEW q \in Runs \ {r}, claim'[q].continues # None
        PROVE  LET s == claim'[q].continues IN
                /\ s < q /\ question'[s] = "ANSWERED" /\ s # c /\ s # r
                /\ claim'[s].task = claim'[q].task /\ claim'[s].purpose = claim'[q].purpose
                /\ \A z \in Runs \ {r} : claim'[z].continues = s => z = q
    <3> DEFINE s == claim[q].continues
    <3>1. /\ s < q /\ question[s] = "ANSWERED"
          /\ claim[s].task = claim[q].task /\ claim[s].purpose = claim[q].purpose
          /\ \A z \in Runs : claim[z].continues = s => z = q
      BY <1>1, <2>1 DEF Answers, TakenUpOnce
    <3>2. s \in Runs
      BY <1>1, <2>1 DEF IInv, TypeOK
    <3>3. s # r /\ s # c
      BY <1>2, <1>5, <3>1, <3>2, <2>1, <1>1 DEF Waits
    <3> QED
      BY <1>1, <2>1, <3>1, <3>2, <3>3
  <2>2. c # None => /\ c < r /\ question'[c] = "ANSWERED"
                    /\ claim'[c].task = claim'[r].task /\ claim'[c].purpose = claim'[r].purpose
                    /\ \A z \in Runs \ {r} : claim'[z].continues # c
    BY <1>1, <1>4, <1>5 DEF Waits
  <2> QED
    BY <2>1, <2>2 DEF TakenUpOnce
<1>10. TakenUpInOrder'
  <2> SUFFICES ASSUME NEW q \in Runs, NEW s \in Runs, Waits(q)', Alike(q, s)',
                      question'[s] = "ANSWERED", ~Waits(s)'
               PROVE  answeredAt'[s] < answeredAt'[q]
    BY DEF TakenUpInOrder
  <2>1. /\ Waits(q) /\ q # c /\ q # r /\ s # r /\ Alike(q, s)
        /\ question[q] = "ANSWERED" /\ question[s] = "ANSWERED"
    BY <1>1, <1>2, <1>6 DEF Waits, Alike
  <2>2. CASE Waits(s)
    <3>1. s = c
      BY <1>6, <2>2
    <3>2. answeredAt[c] <= answeredAt[q] /\ answeredAt[c] # answeredAt[q]
      BY <1>5, <1>3, <2>1, <3>1 DEF Alike, Answers, AnswersAreRanked, Answered
    <3>3. answeredAt[c] \in Nat /\ answeredAt[q] \in Nat
      BY <2>2, <3>1 DEF IInv, TypeOK
    <3> QED
      BY <1>1, <3>1, <3>2, <3>3
  <2>3. CASE ~Waits(s)
    BY <1>1, <2>1, <2>3 DEF Answers, TakenUpInOrder
  <2> QED
    BY <2>2, <2>3
<1>11. WorkWaitsAlone'
  <2> SUFFICES ASSUME NEW q \in Runs, NEW s \in Runs, IsWork(q)', Waits(q)', Alike(q, s)', s # q
               PROVE  ~IsActive(s)' /\ question'[s] # "OPEN" /\ ~Waits(s)'
    BY DEF WorkWaitsAlone
  <2>1. Waits(q) /\ q # c /\ q # r /\ IsWork(q)
    BY <1>1, <1>2, <1>6 DEF Waits, IsWork
  <2>2. CASE s = r
    <3>1. claim[q].task = t /\ claim[q].purpose = p
      BY <1>1, <2>1, <2>2 DEF Alike
    <3>2. c # None
      BY <1>7, <2>1, <3>1
    <3>3. Alike(q, c) /\ Waits(c) /\ c \in Runs
      BY <1>4, <1>5, <3>1, <3>2 DEF Alike
    <3> QED
      BY <2>1, <3>3 DEF Answers, WorkWaitsAlone
  <2>3. CASE s # r
    <3>1. ~IsActive(s) /\ question[s] # "OPEN" /\ ~Waits(s)
      BY <1>1, <2>1, <2>3 DEF Answers, WorkWaitsAlone, Alike
    <3>2. IsActive(s)' <=> IsActive(s)
      BY <2>3, InsertShape DEF IsActive
    <3> QED
      BY <1>1, <1>6, <3>1, <3>2
  <2> QED
    BY <2>2, <2>3
<1> QED
  BY <1>8, <1>9, <1>10, <1>11 DEF Answers

\* An answer ranks last, and a work run is answered while nobody works.
LEMMA GiveAnswer ==
    ASSUME IInv, Outcomes, History, Answers, NEW r \in Runs, AnswerSubject(r)
    PROVE  Answers'
<1>1. /\ question[r] = "OPEN" /\ question'[r] = "ANSWERED"
      /\ answeredAt'[r] = Cardinality(Answered) + 1
      /\ \A q \in Runs \ {r} : question'[q] = question[q] /\ answeredAt'[q] = answeredAt[q]
      /\ UNCHANGED <<runStatus, claim>>
  BY AnswerShape
<1>2. /\ Answered' = Answered \cup {r} /\ r \notin Answered
      /\ Cardinality(Answered) \in Nat /\ Cardinality(Answered)' = Cardinality(Answered) + 1
  <2>1. Answered' = Answered \cup {r} /\ r \notin Answered
    BY <1>1 DEF Answered
  <2>2. IsFiniteSet(Answered)
    <3>1. IsFiniteSet(Runs) /\ Answered \subseteq Runs
      BY BoundsAssumption, FS_Interval DEF Answered, Runs
    <3> QED
      BY <3>1, FS_Subset
  <2> QED
    BY <2>1, <2>2, FS_AddElement, FS_CardinalityType
<1>3. \A q \in Runs : answeredAt[q] \in Nat
  BY DEF IInv, TypeOK
<1>4. \A q \in Runs : claim[q].continues # r
  <2>1. None # r
    BY DEF None, Runs
  <2> QED
    BY <1>1, <2>1 DEF Answers, TakenUpOnce
<1>5. /\ Waits(r)' /\ ~Waits(r)
      /\ \A q \in Runs \ {r} : Waits(q)' <=> Waits(q)
  BY <1>1, <1>4 DEF Waits
<1>6. AnswersAreRanked'
  <2>1. /\ \A q \in Answered : answeredAt[q] <= Cardinality(Answered)
        /\ \A q, s \in Answered : answeredAt[q] = answeredAt[s] => q = s
        /\ Answered \subseteq Runs
    BY DEF Answers, AnswersAreRanked, Answered
  <2>2. \A q \in Answered : answeredAt'[q] = answeredAt[q]
    BY <1>1, <1>2, <2>1
  <2>3. \A q \in Answered : answeredAt'[q] <= Cardinality(Answered) /\ answeredAt'[q] # answeredAt'[r]
    BY <1>1, <1>2, <1>3, <2>1, <2>2
  <2>4. \A q \in Answered' : answeredAt'[q] <= Cardinality(Answered)'
    BY <1>1, <1>2, <1>3, <2>1, <2>2, <2>3
  <2>5. \A q, s \in Answered' : answeredAt'[q] = answeredAt'[s] => q = s
    BY <1>2, <2>1, <2>2, <2>3
  <2> QED
    BY <2>4, <2>5 DEF AnswersAreRanked
<1>7. OneOpenQuestion' /\ TakenUpOnce'
  BY <1>1, <1>4 DEF Answers, OneOpenQuestion, TakenUpOnce, IInv, TypeOK
<1>8. TakenUpInOrder'
  <2> SUFFICES ASSUME NEW q \in Runs, NEW s \in Runs, Waits(q)', Alike(q, s)',
                      question'[s] = "ANSWERED", ~Waits(s)'
               PROVE  answeredAt'[s] < answeredAt'[q]
    BY DEF TakenUpInOrder
  <2>1. s # r /\ ~Waits(s) /\ s \in Answered /\ Alike(q, s) /\ answeredAt'[s] = answeredAt[s]
    BY <1>1, <1>5 DEF Answered, Alike
  <2>2. CASE q = r
    BY <1>1, <1>2, <1>3, <2>1, <2>2 DEF Answers, AnswersAreRanked
  <2>3. CASE q # r
    BY <1>1, <1>5, <2>1, <2>3 DEF Answers, TakenUpInOrder, Answered
  <2> QED
    BY <2>2, <2>3
<1>9. WorkWaitsAlone'
  <2> SUFFICES ASSUME NEW q \in Runs, NEW s \in Runs, IsWork(q)', Waits(q)', Alike(q, s)', s # q
               PROVE  ~IsActive(s)' /\ question'[s] # "OPEN" /\ ~Waits(s)'
    BY DEF WorkWaitsAlone
  <2>1. IsWork(q) /\ Alike(q, s) /\ Alike(s, q) /\ IsWork(s)
    BY <1>1 DEF IsWork, Alike
  <2>2. CASE q = r
    <3>1. ~IsActive(s)
      <4>1. taskStatus[claim[r].task] # "RUNNING" /\ claim[r].task \in Tasks
        BY <1>1, <2>1, <2>2, AnswerShape, Asked DEF History
      <4>2. Worker(claim[r].task) = {}
        BY <4>1 DEF IInv, Work, RunningTaskIsWorked
      <4> QED
        BY <2>1, <2>2, <4>2 DEF Worker, RunsOf, Alike
    <3>2. question[s] # "OPEN"
      BY <1>1, <2>1, <2>2 DEF Answers, OneOpenQuestion, Alike
    <3>3. ~Waits(s)
      BY <1>1, <2>1, <2>2 DEF Answers, WorkWaitsAlone
    <3> QED
      BY <1>1, <1>5, <2>2, <3>1, <3>2, <3>3 DEF IsActive
  <2>3. CASE q # r
    <3>1. ~IsActive(s) /\ question[s] # "OPEN" /\ ~Waits(s)
      BY <1>5, <2>1, <2>3 DEF Answers, WorkWaitsAlone
    <3> QED
      BY <1>1, <1>5, <3>1 DEF IsActive
  <2> QED
    BY <2>2, <2>3
<1> QED
  BY <1>6, <1>7, <1>8, <1>9 DEF Answers

\* Every step keeps the answers in order.
LEMMA AnswersStep ==
    ASSUME IInv, Outcomes, History, Answers, [Next]_vars
    PROVE  Answers'
<1>1. ASSUME NEW r \in Runs, Works(r)
      PROVE  Answers'
  <2>1. UNCHANGED <<claim, question, answeredAt>> /\ Answered' = Answered
    BY <1>1, WorkShape DEF Answered
  <2>2. \A q \in Runs : IsActive(q)' => IsActive(q)
    BY <1>1, WorkShape DEF IsActive
  <2>3. OneOpenQuestion'
    BY <2>1 DEF Answers, OneOpenQuestion
  <2> QED
    BY <2>1, <2>2, <2>3, AnswersKept
<1>2. ASSUME NEW r \in Runs, NEW s \in Terminal, Ends(r, s)
      PROVE  Answers'
  <2>1. UNCHANGED <<claim, answeredAt>> /\ IsActive(r)
    BY <1>2, EndShape
  <2>2. question[r] = "NONE"
    BY <2>1, Asked DEF History
  <2>3. /\ \A q \in Runs : question'[q] = "ANSWERED" <=> question[q] = "ANSWERED"
        /\ \A q \in Runs : question'[q] = "OPEN" => question[q] = "OPEN" \/ IsActive(q)
        /\ \A q \in Runs : IsActive(q)' => IsActive(q)
    BY <1>2, <2>1, <2>2, EndShape DEF IsActive
  <2>4. Answered' = Answered
    BY <2>3 DEF Answered
  <2>5. OneOpenQuestion'
    BY <1>2, <2>1, <2>2, EndShape DEF Answers, OneOpenQuestion, Ends, OpenQuestions, RunsOf
  <2> QED
    BY <2>1, <2>3, <2>4, <2>5, AnswersKept
<1>3. ASSUME RunsKept
      PROVE  Answers'
  <2>1. UNCHANGED <<runStatus, claim, question, answeredAt>> /\ Answered' = Answered
    BY <1>3 DEF RunsKept, runVars, Answered
  <2>2. OneOpenQuestion'
    BY <2>1 DEF Answers, OneOpenQuestion
  <2> QED
    BY <2>1, <2>2, AnswersKept DEF IsActive
<1> QED
  BY <1>1, <1>2, <1>3, Steps, InsertAnswers, GiveAnswer

-----------------------------------------------------------------------------
(* The theorems about answers, blocked tasks, triage and feedback.         *)

\* An empty database has no history.
LEMMA InitHInv == Init => HInv
<1> SUFFICES ASSUME Init
             PROVE  HInv
  OBVIOUS
<1>1. IInv
  BY InitIInv
<1>2. Outcomes /\ History /\ BlockedByWork
  BY DEF Init, Outcomes, OutcomeMatchesIntent, CompletedEnded, History, RowsInOrder,
         ActiveIsLatest, AskersOnlyAsk, IsActive, Active, BlockedByWork, Terminal
<1>3. Answers
  BY DEF Init, Answers, AnswersAreRanked, Answered, OneOpenQuestion, TakenUpOnce,
         TakenUpInOrder, WorkWaitsAlone, Waits, NoClaim
<1>4. FeedbackFollowsRun /\ ImplementationFollowsTriage
  BY DEF Init, FeedbackFollowsRun, ImplementationFollowsTriage, NoClaim, NoFeedback
<1> QED
  BY <1>1, <1>2, <1>3, <1>4 DEF HInv

\* Every step preserves the history.
LEMMA NextHInv == HInv /\ [Next]_vars => HInv'
<1> SUFFICES ASSUME HInv, [Next]_vars
             PROVE  HInv'
  OBVIOUS
<1>0. IInv /\ Outcomes /\ History /\ BlockedByWork /\ Answers
      /\ FeedbackFollowsRun /\ ImplementationFollowsTriage
  BY DEF HInv
<1>1. IInv' /\ Outcomes'
  BY <1>0, NextIInv, NextOutcomes
<1>2. History'
  BY <1>0, HistoryStep, AskersStep DEF History
<1>3. BlockedByWork' /\ Answers' /\ ImplementationFollowsTriage'
  BY <1>0, BlockedStep, AnswersStep, TriageStep
<1>4. FeedbackFollowsRun'
  BY <1>0, FeedbackStep DEF FeedbackFollowsRun, TurnFollows, OneTurn
<1> QED
  BY <1>1, <1>2, <1>3, <1>4 DEF HInv

\* Rows stay in order, answers are ranked and taken up once, and a work run
\* that waits for its answer waits alone.
THEOREM HistoryInvariance == Spec => []HInv
BY InitHInv, NextHInv, PTL DEF Spec

\* A human can always get a blocked task moving (RetryBlocked or the answer to
\* the open question of its latest run).
THEOREM BlockedHasWayOut == Spec => []BlockedTaskHasWayOut
<1>1. HInv => BlockedTaskHasWayOut
  <2> SUFFICES ASSUME HInv, NEW t \in Tasks, taskStatus[t] = "BLOCKED"
               PROVE  \E r \in RunsOf(t) :
                        /\ \A s \in RunsOf(t) : s <= r
                        /\ runStatus[r] \in Terminal \cup Active
                        /\ runStatus[r] = "NEEDS_INPUT" => question[r] = "OPEN"
    BY DEF BlockedTaskHasWayOut
  <2>1. PICK r \in RunsOf(t) : /\ \A s \in RunsOf(t) : s <= r
                               /\ runStatus[r] = "NEEDS_INPUT" => question[r] = "OPEN"
    BY DEF HInv, BlockedByWork
  <2>2. runStatus[r] \in Terminal \cup Active
    BY DEF HInv, IInv, TypeOK, Rows, ClaimsAreRows, NoClaim, RunsOf, Tasks, None
  <2> QED
    BY <2>1, <2>2
<1> QED
  BY <1>1, HistoryInvariance, PTL

\* Every answer reaches at most one run, a later one of the same task and
\* purpose, in the order the answers were given (InsertClaimedRun).
THEOREM AnswersReachOneRun == Spec => []AnswerReachesOneRun
<1>1. HInv => AnswerReachesOneRun
  <2> SUFFICES ASSUME HInv
               PROVE  AnswerReachesOneRun
    OBVIOUS
  <2>1. Answers /\ IInv /\ Outcomes /\ AskersOnlyAsk
    BY DEF HInv, History
  <2>2. ASSUME NEW t \in Tasks, NEW p \in Purposes, NEW r \in PendingAnswers(t, p)
        PROVE  /\ \A s \in RunsOf(t) \ PendingAnswers(t, p) :
                     (claim[s].purpose = p /\ question[s] = "ANSWERED") => answeredAt[s] < answeredAt[r]
               /\ p # "TRIAGE" => PendingAnswers(t, p) = {r}
    <3>1. r \in Runs /\ Waits(r) /\ claim[r].task = t /\ claim[r].purpose = p
      BY DEF PendingAnswers, RunsOf, Waits
    <3>2. ASSUME NEW s \in RunsOf(t) \ PendingAnswers(t, p), claim[s].purpose = p,
                 question[s] = "ANSWERED"
          PROVE  answeredAt[s] < answeredAt[r]
      <4>1. s \in Runs /\ ~Waits(s) /\ Alike(r, s)
        BY <3>1, <3>2 DEF PendingAnswers, RunsOf, Waits, Alike
      <4> QED
        BY <2>1, <3>1, <3>2, <4>1 DEF Answers, TakenUpInOrder
    <3>3. ASSUME p # "TRIAGE", NEW s \in PendingAnswers(t, p)
          PROVE  s = r
      <4>1. p # "REVIEW"
        BY <2>1, <3>1, Asked DEF Waits
      <4>2. IsWork(r)
        BY <3>1, <3>3, <4>1 DEF IsWork, Purposes
      <4>3. s \in Runs /\ Waits(s) /\ Alike(r, s)
        BY <3>1 DEF PendingAnswers, RunsOf, Waits, Alike
      <4> QED
        BY <2>1, <3>1, <4>2, <4>3 DEF Answers, WorkWaitsAlone
    <3> QED
      BY <3>2, <3>3
  <2> QED
    BY <2>1, <2>2 DEF AnswerReachesOneRun, Answers, TakenUpOnce
<1> QED
  BY <1>1, HistoryInvariance, PTL

\* A feedback turn is RUNNING exactly while its discussion run is active, and
\* settles as the run ends.
THEOREM TurnsFollowRuns == Spec => []FeedbackFollowsRun
<1>1. HInv => FeedbackFollowsRun
  BY DEF HInv
<1> QED
  BY <1>1, HistoryInvariance, PTL

\* With triage configured nobody implements a task that triage has not been
\* through.
THEOREM TriageComesFirst == Spec => []ImplementationFollowsTriage
<1>1. HInv => ImplementationFollowsTriage
  BY DEF HInv
<1> QED
  BY <1>1, HistoryInvariance, PTL
=============================================================================
