# AiTodos: specification and verification

AiTodos (`ats`) is a local-first tool in which humans and agents work through
topics, plans and tasks of one project: *topic → plan → task → agent run →
review → integration*. One daemon per project serves the HTTP API, schedules
runs and recovers them after crashes; every agent run has a runner process of
its own; all of them share one SQLite database and the Git repository. This
directory holds the TLA+ specification of that control plane, its model-checking
configurations and its proofs. `src/` below is the root of the repository.

## 1. The system

### Processes

| process | code | what it does to the shared state |
|---|---|---|
| daemon, HTTP handlers | `internal/daemon`, `internal/transport/httpapi` | human commands; each handler calls one store operation or one Git operation |
| daemon, scheduler goroutine | `internal/scheduler` | claims one run per tick, spawns its runner, waits for it and cleans up after it |
| daemon, recovery | `internal/recovery` | at start, and periodically: proves an old runner dead, replays or loses its run |
| runner, one per run | `internal/runner` | starts the run, prepares the workspace, runs the agent, collects its result, freezes and completes the outcome |
| agent, one per run | external program | edits the workspace, reports a result, may ask for approval |

Every store method (`internal/storage`) is one SQLite transaction (WAL, one
writer), so the unit of interleaving between processes is the store method. Git
operations run under a file lock, but not in the same transaction as the store
methods around them. A process may die between any two store methods.

### Components

The state each component keeps, its operations, what is hard about it and what
makes it correct:

| component | state | operations | hard behaviour | correct when | module |
|---|---|---|---|---|---|
| task state machine (`domain/task`) | 7 statuses | 14 commands | many actors issue commands | only table transitions happen | `TaskStates` |
| task and run store (`storage/task.go`, `run.go`) | `tasks`, `runs`, `run_finalization_intents` | claim, start, run, freeze, complete, finish, recover; create, edit, retry, command | interleaving of runner, scheduler, recovery, humans; crash between freeze and completion | a running task has exactly one worker; a run ends once, as frozen | `TaskRuns` |
| clarifications, feedback, triage | `clarifications`, `task_feedback_turns`, `task_assessments` | ask, answer, discuss, retry, assess | several questions at different times; a discussion crashes; edits while triaged | an answer reaches one later run; a turn follows its run; triage comes first | `TaskRuns` |
| runner, scheduler, recovery | processes, leases, cancel flag, deadlines | spawn, token, start, heartbeat, stop, report; wait, probe, clean up | timeout, cancel, exit and heartbeat race; any process dies anywhere; stale lists | every run ends, with one outcome and no process left | `RunExecution` |
| app server, approvals | `approval_requests`, pipes | handshake, turn, ask, decide, clear, interrupt | a human, the runner and the recovery act on one request; a write blocks | the agent is told what was decided, or nothing | `AppServerTurn` |
| agent sessions | `agent_sessions` | bind, resume, invalidate | a lost run's runner beside the next run | a failed conversation is not resumed | `AgentSessions` |
| topics, plans, planning runs, threads | `topics`, `plans`, `plan_revisions`, messages, events | discuss, plan, revise, review, approve | messages while a run plans; a page put together from separate reads | the plan and the version that were shown belong together, and the plan becomes tasks once | `Planning` |
| quality | test cases, results, estimates | record, report, accept | results while a workspace is committed | acceptance rests on verified evidence | `Evidence` |
| integration | `task_integration_attempts`, Git refs | integrate, synchronize, recover | crash between Git and database; edits during a sync | an attempt ends as Git says; only accepted commits land | `Integration` |
| workspaces | `workspaces`, worktrees, `git.lock` | reserve, provision, verify, quarantine | git dies half way; two callers | the row is about the worktree | `Workspaces` |
| releases | `releases`, tags | reserve, tag, mark | interruption between the three | a tagged release has its tag | `Publishing` |
| experience | records, recalls, counters | verify, propose, recall, report | records change between read and prompt | prompts hold verified records | `ExperienceLedger` |
| profiles, skills, MCP servers | revisions, catalogue, frozen policy | edit, refresh, claim, load, launch | files and Codex change at any time | an agent has what its revision binds | `RunPolicy` |
| context builder | chunks, manifest | read, deduplicate, choose | parts compete for a budget | what a run was started for is in its prompt | `ContextAssembly` |
| daemon, project state | lock, metadata, database files, artifacts | start, serve, stop; backup, restore | processes write while files are copied or moved | one generation is live, with its artifacts | `ProjectState` |
| event stream and its page | cursors, connection | poll, send, reconnect, reload | events sent twice, requests overtaking, a stream refused | the page sees the end | `RunStream` |

Left aside: presentation in `web/`, `internal/webui/dist` (generated), CLI argument
parsing, SQL migrations other than the final schema; see *Not modelled*.

### How components interact

* A run is claimed in one transaction with the status of its task
  (`ClaimNextTask`), with the feedback turn it answers, or with the answered
  question it continues.
* A work run (IMPLEMENTATION, REVISION) moves its task when it ends; triage and
  discussion (REVIEW) do not.
* The runner freezes the outcome in `run_finalization_intents`, finishes the
  workspace, then completes the outcome in one transaction: question, feedback
  turn, task status, run status. Recovery replays the same transaction.
* Humans at the API race all of this with a task version for optimistic
  locking. Editing a task increments its assessment input version, which makes
  triage due again.

## 2. Modules

| module | what | composed by |
|---|---|---|
| `TaskStates` | the transition table of tasks, used by `TaskRuns`, `Integration` and `Evidence` | - |
| `TaskRuns` | tasks, runs, questions and feedback: the store operations and their actors | `MCTaskRuns` |
| `TaskLease` | abstract: a run holds a task alone from claim to end, and ends once | refined by `TaskRuns` |
| `Integration` | review, integration and synchronization of tasks against git; crashes and recovery | `MCIntegration`, `MCProgress` |
| `Landing` | abstract: what the owner of the target branch can rely on | refined by `Integration` |
| `RunExecution` | daemon, runner and agent processes around the row of a run | `MCProgress` |
| `RunLife` | abstract: the life of a run's row, whoever writes it | refined by `RunExecution` |
| `AppServerTurn` | one turn behind the app server protocol, with approvals | `MCAgent` |
| `RunStream` | the page that follows the events of a run | `MCAgent` |
| `Planning` | a topic from discussion to tasks | `MCReview`, `MCProgress` |
| `Evidence` | test cases, results, estimates, the report of a run, acceptance | `MCReview` |
| `Workspaces` | how a task gets its worktree | `MCWorkspaces` |
| `Publishing` | releases and tags | `MCProject` |
| `ProjectState` | the files under `.ats`: daemons, runners, backup, restore | `MCProject` |
| `AgentSessions` | conversations that runs resume | `MCAgent` |
| `ContextAssembly` | the parts of a prompt and the budget | `MCAgent` |
| `ExperienceLedger` | experience records, recalls and reports | `MCPolicy` |
| `RunPolicy` | profile revisions, skills and servers of a run | `MCPolicy` |
| `TaskRuns_proofs`, `Integration_proofs`, `RunExecution_proofs`, `Workspaces_proofs` | theorems about the module they are named for | - |
| `Agent_proofs`, `Review_proofs`, `Policy_proofs`, `Project_proofs` | theorems about the parts of `MCAgent`, `MCReview`, `MCPolicy`, `MCProject` | - |

A module of its own covers the tables and processes that one set of operations
shares; where two modules speak of the same table, one of them says all of it and the
other only what it needs (the row of a run is abstract in `Planning` and `AgentSessions`,
its life is `RunExecution`'s, and its effects on tasks are `TaskRuns`').

The `MC` modules `MCProgress`, `MCAgent`, `MCReview`, `MCProject` and `MCPolicy`
put modules side by side that answer one question together (what comes to an end? what
does a reviewer decide on?). A rigid variable `part` says which of them moves, while the others
rest in an initial state: their code shares no state that either of them models, so their
product would only multiply states. The specification of such a module is the union of the
behaviours of its parts, each under its own fairness.

### TaskRuns and the code

| variable | code |
|---|---|
| `taskStatus`, `priority`, `inputVersion`, `workspaces` | `tasks.status`, `.priority`, `.assessment_input_version`, `.current_workspace_id` |
| `runStatus`, `claim` | `runs.status`; `.purpose`, `.task_id`, `.subject_version`, `.continuation_of_run_id` |
| `intent`, `completed` | `run_finalization_intents.terminal_status`, `.completed_at` |
| `assessed` | `task_assessments` (one per triage run) |
| `question`, `answeredAt` | `clarifications.status`, `.answered_at`, by the run that asked |
| `feedback` | `task_feedback_turns` |

Rows are numbered in the order of their creation, which stands for `created_at, id` in
every ORDER BY. A table has a bounded number of rows, "ABSENT" before they are
inserted.

| action | code |
|---|---|
| `ClaimNextTask` | `RunStore.ClaimNextTask`: the queues in the code's order, the capacity check, the unique index on active runs, the continuation link, the feedback turn and the task status in one step. A selected row whose claim the index refuses blocks the queues behind it, as in the code |
| `Start`, `MarkRunning`, `ApplyTriageResult` | the same store methods, called by the runner in that order |
| `BeginFinalization` | freezes one of the outcomes the runner may have collected (`Collected`) |
| `CompleteFinalization` | `completeFinalization`: question, turn, task and run in one step; refused when the open-question index refuses the question |
| `Finish` | the runner's failure paths (before the agent ran, and when the workspace cannot be finalized) and the scheduler's failed launch |
| `Recover` | `recovery.reconcile`, `scheduler.waitAndReconcile`: replay, else LOST |
| `Create`, `HumanCommand`, `RetryBlocked`, `RequestChanges`, `UpdateDetails`, `UpdateTargetBranch`, `CreateTaskWorkspace`, `AnswerSubject`, `Discuss`, `RetryFeedback` | the store methods behind the API |

Abstractions: the optimistic task version (a command that takes effect read the
current state), texts, events, closures, timestamps other than the order of answers,
fencing tokens (a run's lease generation never changes, so what fences an old
runner off is the status of the run, which is modelled), the test gate on
acceptance (a guard that only disables). A runner that died and one that is
slow are not told apart: `Recover` may happen at any time, which contains every
crash and also the recovery of a run whose runner is only being spawned. PLANNING runs would only take capacity
from the claims here and are left to the planning module.

### Integration and the code

| variable | code |
|---|---|
| `made`, `anc` | the commits of the repository and their ancestors |
| `target` | the target branch (`refs/heads/...`), one for all tasks |
| `work` | each task's worktree: HEAD of its branch, uncommitted changes, MERGE_HEAD |
| `ws` | `workspaces`: `state`, `head_sha`, `dirty` of the current row of each task |
| `status`, `version` | `tasks.status`, `tasks.version` |
| `reviews`, `accepted` | `task_reviews`: commits of the ACCEPTED rows, and of the newest |
| `attempt` | `task_integration_attempts` |
| `req` | the local state of each HTTP request served: where it is (`pc`), what it read |
| `lock` | `git.lock` (a file lock, free again when its holder dies) |
| `daemon`, `aborted` | whether it serves, is down, recovers or failed to start; a local of the recovery |

| action | code |
|---|---|
| `Begin` | the handler's reads: task, reviews. The two reads are one step: nothing but the task's row and its reviews is read, so what they return together is what a single read at one of the two moments would return |
| `Verify`, `Check`, `Commit`, `ApplyReview` | `Manager.TaskWorkspace`, `Manager.CommitTaskWorkspace`, the review handler and `TaskStore.ApplyReview`. Committing and the refresh after it run under the lock without a database step of another request in between that could see the difference, and are one step |
| `LockForIntegrate`, `LockForSync`, `Reserve`, `ReserveFails` | taking the lock, resolving the branch, the ancestor tests; `IntegrationStore.Reserve` with its unique index |
| `FastForward` | `fastForwardTarget`: `update-ref` with the old value, `merge --ff-only`, or a refusal |
| `StartMerge`, `EndMerge`, `AbortMerge`, `GiveUp`, `Quarantine` | `mergeTarget` with its error paths; a merge is two steps, so that a crash leaves MERGE_HEAD |
| `Settle`, `SettleSync` | `IntegrationStore.Complete`, `CompleteSync` and the refresh of the workspace |
| `Drop` | the client goes away, or a statement fails: the deferred unlock runs, nothing else |
| `Crash`, `Start`, `RecoverIntegrate`, `RecoverMerge`, `RecoverSync`, `Serve` | death of the daemon and its git children; `RecoverIntegrations` before the API is served |
| `MoveTask`, `OpenWorkspace` | runs claimed and succeeded, edits of a task in review or accepted, rejection; `CreateTaskWorkspace` |
| `EditWorktree`, `CommitInWorktree`, `CommitOnTarget` | agents and humans with git itself, which knows no `git.lock` |

Abstractions: the content of commits (a commit is a number, a conflict is a choice); the
text of an attempt; branch names. Not in the model: tasks without a workspace (their
acceptance has no commit and is never integrated), provisioning of a worktree and its
ERROR state, a target branch that is deleted or rewound by its owner, a worktree
whose directory is gone, required tests at acceptance (a guard that only disables).

### RunExecution and the code

| variable | code |
|---|---|
| `status`, `cancel`, `runnerPid`, `agentPid` | `runs.status`, `.cancel_requested_at`, `.runner_pid`, `.agent_pid` with their start times |
| `intent`, `lease` | `run_finalization_intents`, `run_resource_leases` |
| `runner`, `signalled`, `agent` | where each runner process is in `runner.Execute`, the runners a SIGTERM reached, the agent processes |
| `daemon`, `dispatched`, `waiter`, `item` | daemon, scheduler goroutine and its `waitAndReconcile`, the recovery's copy of a run |

| action | code |
|---|---|
| `Claim`, `Spawn`, `SendToken`, `LaunchFails` | `scheduler.DispatchOnce`, `launchRunner`: claim, process with its claim pipe, token, and the failure of either |
| `RunnerExits`, `Reconcile` | `waitAndReconcile`: the wait for the process, then what is left of the run |
| `PipeCloses`, `Start`, `PrepareFails`, `MarkRunning`, `CheckCancel`, `SpawnFails`, `Attach` | `runner.Execute` up to the agent |
| `Heartbeat`, `HeartbeatFails` | the lease renewal, a goroutine of the runner |
| `AgentDone`, `TimesOut`, `CancelCheckFails`, `Cancelled`, `Unleased`, `Terminate` | the cases of the wait for the agent, any of them when several hold |
| `StopAgent`, `ReleaseAgent`, `BeginFinalization`, `FinalizeWorkspace`, `Complete` | the end of the run in the order of the code |
| `ListRecoveryRuns`, `Load`, `Probe`, `Clean`, `SettleItem`, `Monitor`, `Serve` | `recovery.Start`, `reconcile`, `reconcileTracked`: the list at the start of a daemon, and the runs it goes on tracking |
| `CrashRunner`, `CrashDaemon`, `AgentExits`, `RequestCancel` | the environment |

The checked instance has one run: dispatch waits for each run in a goroutine of its own,
and rows of different runs meet only in the claim, which is `TaskRuns`'. A SIGTERM before the
wait ends the runner like a crash, so `CrashRunner` covers it. Single failing store
statements are modelled in the heartbeat, in the cancel check and at a launch.

### AppServerTurn and RunStream

`AppServerTurn` follows `invokeCodexAppServer`: `pc` is the runner's place, `step` the handshake
request, `pipe` the messages read and not yet handled, `context` the context of the turn with the cause
that ended it, `request` the table `approval_requests`. `AgentAnswers` ... `OutputIsLost` are the
program behind the pipes (external, any order the protocol allows). `WriteRequest`, `Reply` and `Interrupt` are
the writes to it, `client.write` and `writeRawResponse`: they wait for nothing but the pipe, so none
of them ends while the agent does not read (`jammed`; `StopsReading`), whatever deadline or cancel request comes.
`Close` ends with the wait for the process and its output, which a descendant that left the process group and kept
the pipes holds up without limit (`heir`; `LeavesHeir`). The set `Permissions` has the requests for permissions: the
agent is answered with none granted, also where the human decided to stop the run. `MonitorSeesCancel`, `MonitorFails`,
`HeartbeatStops`, `Expires` are the goroutines and the deadline; `HandleApproval`,
`CreateApprovalRequest`, `PollDecision`, `WaitEnds`, `ClearApprovalRequest`, `Reply`, `Interrupt` the decision of
one request; `ResolveApprovalRequest` a human; `RecoverLost` the recovery. The rigid
variable `storeFails` says whether statements of the store may fail: then a request whose clearing fails
stays open, which `OpenRequestIsAwaited` and `EndedRunAsksNothing` except.

`RunStream` has the handler (`EmitRunEvents`, `Check`: events are read before the status that ends the
stream; `StreamFails`: a statement fails), the connection (`Connect`, `Break`, `NoticeEnd`, `Receive`) and the page
(`ReadList`, `ListArrives`, `ListFails`, `ClickReload`: every event reloads the list of runs). `ConnectRefused`
is the HTTP error of a handler that cannot read the run: the browser's source is then closed for good, and the page
is left as it is until somebody reloads the list or selects another run.

### Planning and Evidence

`Planning` has one topic: `topic`, `event`, `thread`, `plan`, `revision`, `task` are rows, `page` is
what a person looks at. It is put together from separate requests: the topic with its version (`GetTopics`, loaded with
the board and polled) and the plan with its drafts (`GetByTopic`), each answered with what was true at any
moment so far. The messages are a third request, which the page repeats when a planning run ends, after a message of
its own, or by hand. They are not in `page`: a verdict names the topic version and the revision, so the code cannot tell which
messages were shown, and no statement here says that they were. `ClaimNextTask`, `BuildPlanningPrompt`, `BeginFinalization`,
`CompleteFinalization`, `RecoverLost` are a planning run, `AppendTopicMessage`,
`RequestPlanning`, `CreateRevision`, `RequestChanges`, `Approve`, `AnswerSubject` people. A human's message
advances the version of the topic in every status, an agent's does not. The statuses
NEEDS_CLARIFICATION and CLOSED are in the schema and no code writes them. Drafts are numbers; their fields
and the order of their dependencies are validated or not (`PlanningResultIsValid`).

`Evidence` has one task. A run logs what it executes (`Execute`, head and tail of a bounded log), ends with a
report (`AgentExits`), and its runner writes the parts of the report in separate
transactions (`CollectResult`, `ApplyEstimate`, `ApplyNewCase`, `ApplyResult`). `ReviewTask` and `ApplyReview`
are the two checks around the commit; `accepting` holds between them and is
cleared by whatever moves the task's version. Only the latest result of a case is kept, since no code
reads another; the results of one report may be read in either order, as their times are compared as text.

### Workspaces, Publishing and ProjectState

`Workspaces`: `Reserve`, `Provision`, `WorktreeAdd` (branch, empty worktree, files: each step may be the last),
`VerifyIdentity`, `ReadHead`, `MarkReady`, `MarkQuarantined`, `MarkError` are `Manager.provisionWorkspace` and the
store's statements; `GiveUp` ends a request, and git may go on as an orphan (`GitGoesOn`). `Edit` and
`Tamper` are people with git.

`Publishing`: a commit is the set of changes it contains. `ResolveBranch`, `ListTasks`,
`InferReleaseTask`, `Reserve`, `EnsureAnnotatedTag`, `MarkTagged`, `MarkFailed` are `CreateRelease` step by step;
`Accept`, `Reopen`, `Land`, `CommitByHand`, `TagByHand` go on meanwhile.

`ProjectState`: generations of files (`old` live before a restore, `new` from the
backup, `stray` written in between). Daemons start, publish their metadata, serve, close;
runners outlive them; both write an artifact and then its row. `BeginBackup` ... `WriteArchive` and
`BeginRestore` ... `Install` are the two commands, which take no lock; `RenameFails`, `LstatFails` and
`CommandDies` stop them anywhere, once.

### AgentSessions, ContextAssembly, ExperienceLedger, RunPolicy

`AgentSessions` follows the runs of one task through `FindCompatibleAgentSession`,
`RecordAgentSession` (with its refusals) and `InvalidateAgentSessionForRun`.
`ContextAssembly` reads the parts of a prompt in the order of `buildTaskPrompt` and `buildPlanningPrompt` and
assembles them in one step; reads of the store are assumed to succeed. `ExperienceLedger` leaves relevance and
ranking open; a record that is challenged between the read and the prompt is still in the prompt, which the
properties allow. `RunPolicy` freezes a `Snapshot` at the claim and compares it with files and
Codex at the start; `edits` is a ghost that numbers the contents of a file.

### Bounds

Bounds are named in the modules and disable the step that would exceed them: rows of a table, versions,
commits, restarts, edits, messages on a pipe. CHECK_DEADLOCK is off where that lets a
model come to rest although the system would go on, or where a command has ended (`ProjectState`);
`Integration` has it on. Some instances are restricted further by a definition `Scope`, a union of smaller
instances: one task in depth, one in discussion, or two or three that compete (`MCTaskRuns`); a
release with branches that differ, or with a task that changes again (`MCProject`); plans of two drafts from two
planning runs, or of one draft from three up to version 4; two results with a synchronization between them, or a
report of two parts (`MCReview`); a turn with a failing store, a jammed input or an heir (`OneTrouble` of `MCAgent`); one person who edits a profile with a skill
and a server, or two people and a skill whose file is edited (`MCPolicy`). What a run shows holds of every state
that is reached from inside the scope; the theorems of section 4 know no scope.

## 3. Runs

| run | instance | distinct states | what it shows |
|---|---|---|---|
| `task_runs` | one task with 4 runs or 2 input versions (both while no run was lost); one in discussion with 3 runs and 2 turns; three tasks of 2 priorities that compete for 2 workers, two of them worked on at once | 0.77 M | the invariants of tasks, answers, triage and feedback; `HoldsLease` |
| `integration` | 1 task, 2 requests, 4 commits, 2 attempts | 1.27 M | `VerdictIsTrue`, `LandsReserved`, `SyncIsRevised`, `HoldsLanding` |
| `progress` | one run with 2 restarts of the daemon; one topic with 3 planning runs; 2 requests for the repository | 0.28 M | what must come to an end, and `KeepsRunLife` |
| `turn` | 2 requests for approval, one of them for permissions, 2 messages in the pipe, one of: a failing store, an agent that stops reading, an heir of its pipes; 4 events read 2 at a time, 2 breaks or errors | 0.98 M | a turn and its approvals; a page and its stream |
| `review` | 2 planning runs, 2 revisions of up to 2 drafts and 5 versions, or 3 runs, 1 draft and 4 versions, a page read in two parts; 2 test cases, 2 runs | 1.79 M | what a reviewer decides on |
| `workspaces` | 1 task, 2 branches, 2 callers | 2.1 M | a worktree and its row |
| `project` | 1 version, 2 branches, 2 requests; 2 daemons, a runner, every fault | 1.3 M | what a project keeps for good |
| `prompt` | 3 runs, 2 revisions, 2 sessions; every purpose, texts that fit and that do not | 1.2 M | what an agent starts from |
| `policy` | 2 records, 2 runs, 3 reports; a profile with a skill and a server, or two people and a file | 1.4 M | what an agent is given |
| `recovery_refuses_start`, `frozen_outcome_lost`, `lost_run_executes` | small instances | - | the findings below |

The invariants of the larger modules are conjunctions of named parts; each part has a comment of its own in its
module, and a mutation of the code that breaks it:

| property | parts |
|---|---|
| `RunInvariant` | `TypeOK`, `EndedRunHasNoAgent`, `CancelledByRequest` |
| `TurnAndPageInvariant` | `TypeOK`, `AgentIsToldTheDecision`, `OpenRequestIsAwaited`, `EndedRunAsksNothing`, `StoppedRunFails`, `CancelledForAReason`; `NoGapOnTheWire` |
| `EndReachesEverybody` | `EndIsShown`, `StreamEnds` |
| `TopicInvariant` | `TypeOK`, `TopicFitsPlan`, `EventsTellTheTopic`, `TasksAreTheApprovedDrafts`, `RepliesAreInTheThread` |
| `EvidenceInvariant` | `TypeOK`, `ProgressAgreesWithReview`, `RejectedReportWritesNothing` |
| `WorkspaceInvariant` | `TypeOK`, `TaskFollowsWorkspace`, `OursIsWhatWasReserved` |
| `ReleaseInvariant`, `PublishedIsFixed` | `TypeOK`, `TaggedReleaseHasTag`, `ReleaseTellsWhatShipped`; `ReleaseIsFixed`, `TagsStay` |
| `StateInvariant` | `TypeOK`, `ServingIsVisible`, `RowsHaveArtifacts`, `StagedIsHashed`, `RestoredIsWhole`, `FailedRestoreKeepsState` |
| `SessionInvariant` | `TypeOK`, `SessionFitsRevision`, `FailedResumeIsDropped` |
| `PromptInvariant` | `TypeOK`, `OnlyRequiredExceeds`, `OmissionIsForced`, `EveryTextIsAccounted`, `ReasonIsIncluded` |
| `ExperienceInvariant` | `TypeOK`, `CountersTellTheOutcomes`, `PromptIsVerified`, `SupersededHasSuccessor`, `OneCandidateEach` |
| `PolicyInvariant`, `NothingComesBack` | `TypeOK`, `AgentHasItsRevision`, `SkillTextIsFrozen`, `ListedServersAreInPolicy`; `RetiredStaysRetired`, `CatalogueMovesForward` |

Why the bounds are enough: four runs of one task are what the longest question stories need (a run
asks, the task is edited, a second run asks, both are answered, two continuations follow); two turns are a turn and
its retry; three tasks compete for two workers, so that one must wait, and a task of lower priority is taken when those
before it are at work. Side by side, tasks have one input version and no discussion: what a claim does to a task is the same
for each of them, and the other instances follow one task through it. Four commits are a first one, the
task's, one of the owner that diverges, and their merge. Two restarts let a daemon die during the
recovery of what the daemon before it left. Three planning runs are one that asks, one that a message starts, and one that
carries the answer; five versions are enough for a revision that is sent back and approved in
another form. Two requests are all that a lock needs to be contended. Two results of a
case are one that counts and one that changes the verdict; one synchronization lies between them.

Symmetry (tasks, requests, runs, sessions, threads, cases, daemons, records) is used in the runs without
liveness; `progress` and `turn` have none.

### Fairness

| part | assumed | why |
|---|---|---|
| `RunExecution` | weak fairness of the steps of scheduler, waits, runners (or their death), the lease heartbeat, the recovery; a daemon that died is started again | each is a loop or a straight line of code that waits for nothing but store, git or a timer. `EveryRunEnds` assumes `TimeoutsFire` as well: an agent may hang for ever, and the timer of the run is what bounds it. `EndedRunIsLeft` needs no timeout |
| `AppServerTurn` | the runner goes on and polls, its deadline fires, a wait that may end does | the `select` of the runner takes a ready case; the agent and the humans need never act. A write is fair only while it can return: that the agent reads, or gives its pipes back, is not assumed |
| `RunStream` | handler, network, browser and page go on | the loops of the handler and of `EventSource`; no person need reload and no run need end. That a request is answered without an error is not assumed, up to the bound on errors |
| `Planning` | the scheduler claims, and a run at work ends | `EveryRunEnds` |
| `Integration` | the holder of the lock goes on, and so does the recovery before the daemon serves | it waits for nothing but git and the database |

### Findings

Statements of comments that the code does not keep, each with a run that shows how:

* `FrozenOutcomeIsKept`: a frozen NEEDS_INPUT cannot be completed while an
  older question of the task is open; the run ends LOST and its question is dropped.
* `RecoveryReconciles`: a task edited while it is synchronized leaves an attempt that the recovery
  cannot complete, and the daemon does not start any more (`gitworkflow/integration.go`,
  comment on `RecoverIntegrations`).
* `LostRunIsNotExecuting`: a runner that a dead daemon spawned registers itself after the recovery
  of the next daemon has read the list of runs; the recovery probes the empty process of its list and
  ends the run as LOST while its agent works (`recovery/manager.go` `reconcile`; comment on `RunStore.RecoverLost`).

Others met while modelling; the models contain the behaviour, and the properties are stated so
that they hold with it:

* `storage/task.go` `RetryBlocked` looks at the latest run of any purpose: a discussion after the run that asked
  lets the retry pass the open question, and one after a failed revision turns the retry into an implementation.
* `gitworkflow/manager.go` `TaskWorkspace` returns a quarantined workspace without verifying it, and a
  synchronization goes on in it.
* `recovery/manager.go`: an intent frozen after the status was read is not replayed; an agent
  attached after the daemon started is not stopped with its runner by the tracking recovery.
* `codex_app_server.go` `waitDecision`: nobody reads the messages while it waits, so a request of a dead agent
  may stay open until the run times out.
* `codex_app_server.go` `write`, `writeRawResponse` and `closeAppServer` watch neither the deadline nor a cancel
  request: an agent that stops reading its stdin, or that leaves its pipes to a process outside its group, holds its runner, whose
  heartbeat goes on renewing the run's lease. `TurnEndsInTime` says that a turn ends or is held there (`Held`) for good, and nowhere
  else. `EveryRunEnds` is about the command adapter, whose process waits for the agent in a `select` with its timer.
* A human who decides to stop the run at a request for permissions has the agent refused and interrupted, but the agent may be
  done before it reads the interrupt, and the run ends SUCCEEDED (`StoppedRunFails` excepts `Permissions`).
* `runs.go` `events` answers an HTTP error when the run cannot be read, and `EventSource` does not connect again: the page
  goes on showing the run as active and says that the browser is reconnecting (`TaskRunsPanel.tsx`). `EndIsShown` states it as the one
  exception.
* A plan may be approved over messages that the reviewer's page does not show yet, if its topic version is the current one.
* `runner.go`: a resumed agent that answers in another thread fails the run before its session is invalidated, and
  later runs resume it again.
* `run.go` `applyPlanningResult` takes a plan while a question of its topic is open; an answer
  to a run that is no longer the latest is linked to no run.
* `storage/release.go` `Reserve` refuses to go on with an interrupted release once the branch or the set of
  accepted tasks has moved. `storage/workspace.go` `Reserve` keeps the target branch of a creation that
  failed, over the branch chosen since. A creation that git left with a branch and no worktree cannot be repeated.
* `contextbuilder` `deduplicate` keeps the first of equal texts, required or not; a smaller part of lower
  priority may be included where one of higher priority was omitted. A change requested in a status other than REVIEW
  is an optional part of the revision's prompt.
* `storage/agent_profile.go` `CreateRevision` compares the revision with the one it just read: of two
  forms the later one wins. A server added between the listing and the start of Codex has no override. A
  new revision does not take a changed skill over; only a refresh does.
* `projectstate`: a process that writes during a backup may leave a row without its file in it; a
  restore that is killed is neither finished nor undone, and one that fails after somebody wrote an artifact
  deletes the only copy of the old ones.

## 4. Proofs

Each theorem below holds for every value of the constants that satisfies the ASSUMEs of the module and of the
`MC` module it is about: any number of tasks, runs, people, requests, files and events, bounds of any size. A scope
or a symmetry of a run is no part of it. The inductive invariants were first checked by TLC on the instances of
the runs, where each conjunct that is not needed for the properties turned up as a counterexample to induction.

### Tasks and runs (`TaskRuns_proofs`)

| theorem | statement |
|---|---|
| `Invariance`, `TypeCorrect` | `Spec => []IInv`, `[]TypeOK` |
| `RunningWorked` | `Spec => []RunningTaskIsWorked` |
| `OutcomeFollowsIntent` | `Spec => []OutcomeMatchesIntent` |
| `HistoryInvariance` | `Spec => []HInv` |
| `BlockedHasWayOut`, `AnswersReachOneRun`, `TurnsFollowRuns`, `TriageComesFirst` | `BlockedTaskHasWayOut`, `AnswerReachesOneRun`, `FeedbackFollowsRun`, `ImplementationFollowsTriage` |
| `Refinement` | `Spec => HoldsLease` (the refinement of `TaskLease`) |

The types alone are not inductive: a run is finalized into the status of its
intent, which must be known to be terminal (`IntentFrozen`); a discussion is
claimed for the task of its turn, which must exist (`TurnsAreRows`). Nor is
`RunningTaskIsWorked`: the end of a run takes its task out of RUNNING, so there must
be no second worker (`OneActiveRun`, the code's unique index), and the run must
name a task (`ClaimsAreRows`). `IInv` is their conjunction. A claim adds the only active run
of its task (`ClaimWork`), an end removes it (`EndRunWork`), and no human command
enters or leaves RUNNING (`HumanWork`). The refinement uses that the holder is
the only worker (`HolderWorks`): a claim for work acquires, any other claim attends, an end ends, and
every other step stutters. `OutcomeMatchesIntent` needs in addition that a
completed intent belongs to an ended run (`CompletedEnded`).

`HInv` adds the history of a task. Its runs are rows in the order of their claims, and only the latest can be
active; so "the latest run" of every query is the one at work, if there is one. Answers are ranked by the time
they were given, a task has one open question, and of the answers that wait the next claim of that purpose takes the
oldest, so that the runs that continue others stand in the order of the answers. `WorkWaitsAlone` says that while the
answer of a work run waits, no other run of the task does that work, asks about it or waits with it.

### Integration (`Integration_proofs`)

| theorem | statement |
|---|---|
| `ReliesInvariant`, `IntegrationTypes` | `Spec => []IInv`, `[]TypeOK` |
| `IntegrationLands` | `Spec => HoldsLanding` (the refinement of `Landing`) |
| `HolderIsRight` | `Spec => []VInv` |
| `VerdictsAreTrue`, `LandingsAreReserved`, `SyncsAreRevised` | `VerdictIsTrue`, `LandsReserved`, `SyncIsRevised` |

A request checks task, review and workspace before it waits for the lock, and lands under
it. `IInv` says what may be relied on all the same (`Relies`): the commit it carries
was accepted and stays so, and the branch it saw is an ancestor of that commit when it goes to
fast-forward. These facts are stable because commits and reviews are only added
(`Grows`, `ReliesStay`), so it is enough to look at the request that moves. From
`Relies` every move of the branch is a `Land` of the abstract specification: by
`update-ref`, because the old value is the branch the request compared; by `merge
--ff-only`, because git compares anew. `ReservedOK` (a request that goes on has an
attempt) is what types need when an attempt ends.

The three action properties rest on the lock. `VInv` says that its holder is alone in the critical section
(`HoldersOK`) and what it has `Established` at each of its steps: the attempt it registered is the RUNNING one and says what the
request is about (`Registered`), a step holds only results of its own operation (`InStep`), and from the time it found a
landing or a merge until it records it the branch and the worktree show it (`Shown`). The steps of the other
requests, of the owner and of people who hold no lock leave these facts alone, or only add commits, reviews
and versions.

### Runs and their processes (`RunExecution_proofs`)

| theorem | statement |
|---|---|
| `ExecutionInvariance` | `Spec => []IInv` |
| `RunsEndAsPromised` | `Spec => []RunInvariant` |
| `RunLifeIsKept` | `Spec => KeepsRunLife` (the refinement of `RunLife`) |

`Shape(r)` ties the status of a run to the agent, the runner and the recovery that act on it: when an outcome is frozen or
written the agent is gone (LOST, which only says that nobody watches, is the exception); a result CANCELLED has a request or a signal behind it. Every step touches
one run (`Only`), so `Keeps` states what a step owes and one lemma turns it into the invariant. For the refinement each
step of any process on the row advances, freezes, completes or gives up, or it stutters.

### The agent of a run (`Agent_proofs`)

| theorem | statement |
|---|---|
| `TurnInvariance`, `TurnIsSafe` | `Spec => []IInv`, `[]TurnInvariant` |
| `StreamInvariance`, `EventsComeInOrder` | `Page!Spec => []StreamInv`, `EventsAreHandledInOrder` |
| `SessionsInvariance`, `SessionsAreWorthResuming`, `ThreadsAreKept` | `Session!Spec => []SessionsInv`, `[]SessionInvariant`, `SessionsKeepThreads` |
| `PromptInvariance`, `PromptsSayWhatMatters` | `Prompt!Spec => []PromptInv`, `[]PromptInvariant` |
| `AgentsAreServed` | `AgentSpec` has `TurnAndPageInvariant`, `SessionInvariant`, `PromptInvariant` and the two action properties |

A turn is followed from the pipe to the outcome. That the agent is told the decision about this very request
needs that requests are handled in the order the agent made them (`PipeFits`: the numbers in the pipe ascend and
are beyond the current one) and that a row changes no more once the runner has read it as resolved (`AsksFit`). That
nobody is asked in vain needs that a row without an answer is the current one, or its runner failed or died. A success comes
only of a message COMPLETED, which the agent sends when it was told everything and not interrupted (`Satisfied`),
and the interrupt is remembered in `cancel` or in the status of a run that is over (`CausesFit`).

`NoGapOnTheWire` is inductive with both ends of the connection: the wire begins at most one event after the
page's cursor and ends at the handler's (`ConnectionFits`), and a source that is not open has no handler. `EventsAreHandledInOrder`
follows from it in the one step that moves the cursor. The sessions need the unique index on threads
(`RowsNameThreads`), that what a run refers to exists under its own revision (`RunsFitSessions`), and that a
resumed run that fails goes by way of the invalidation (`TalksFitRuns`).

The invariant of a prompt is short: every part that may not be absent was read (`PartsAreThere`), and the manifest is what
`Assemble` makes of the parts (`Made`). What that is takes an induction over the iterations of its loops. The
library's induction theorem is about an operator, which the provers cannot instantiate; `ByInduction` says the
same of a set of numbers, and follows from the least element of a set (`LeastOf`). `FoldExists` and `FoldWalks` show that a fold of
the model visits the chunks in their order, and one lemma per loop says what it computes: every text that is not empty
once (`DeduplicateKeeps`), the optional chunks sorted (`OptionalSorted`), all that is required and of the rest all that
still fits (`SelectedFits`). A required part cannot be lost as a duplicate, because only skills and
instructions may share a text (`ReasonIsChosen`).

### What a reviewer decides on (`Review_proofs`)

| theorem | statement |
|---|---|
| `PlanningInvariance` | `Spec => []IInv` |
| `TopicTablesAgree`, `PlansHeardEverybody` | `Spec => []TopicInvariant`, `[]PlanHeardEverybody` |
| `VerdictIsOnThePage` | `Spec => ReviewedAsRead` |
| `EvidenceInvariance`, `EvidenceIsKept` | `Task!Spec => []EvidenceInv`, `[]EvidenceInvariant` |
| `EvidenceWasObserved`, `AcceptedIsVerified` | `Task!Spec => CommandEvidenceWasObserved`, `AcceptanceIsVerified` |
| `ReviewIsSound` | `ReviewSpec` has all of these properties |

The events of a topic replay to the status of its row (`EventsFit`, where the status after each event is determined by
those before it), and the n-th submission among them is revision n. To find the submission of a revision among the events takes
a least position at which the count reaches n (`LeastOf`, by the well-foundedness of the natural numbers; the same for the
latest run). What keeps an outdated plan out is the comparison of versions in the step that submits it, so nothing
about the runs' readings is in the invariant; that the planning run heard everybody is then read off the events between its
version and the submission. Of the page the invariant has only that its drafts are those of the revision it names
(`PageFits`; revisions do not change). That its version and its revision, read apart, belong together when a verdict is taken
follows in that step: the version is the current one, so the submissions up to it are all there are, and
the newest of them is the revision shown. The evidence invariant says what a runner holds: the events of its log are executions that
did complete, with their exit code, under an adapter whose events count; parts of a report that was validated as a
whole; and, before that, no row that bears the number of the run. Acceptance reads the rows in the step that accepts, so
`AcceptanceIsVerified` needs only that a row's verdict has the evidence it names.

### What an agent may use (`Policy_proofs`)

| theorem | statement |
|---|---|
| `LedgerInvariance`, `LedgerIsTrue`, `RetiredIsNotRecalled` | `Spec => []IInv`, `[]ExperienceInvariant`, `RetiredStaysRetired` |
| `PolicyInvariance`, `RunsKeepTheirPolicy` | `Policy!Spec => []PolicyInv`, `[]PolicyInvariant` |
| `NothingReturns` | `Spec /\ Policy!Spec => NothingComesBack` |
| `AgentsAreEquippedRightly` | `PolicySpec` has all of these properties |

A prompt is made of what was read before: a record found by a runner was verified then, and its list of verifications
only grows, so it is enough that `FoundIsVerified` speaks of the past. A counter is the cardinality of the set of runs that
reported that outcome; that one more report makes it one more needs the set of runs to be finite, which
`LedgerAssumption` says. A run's policy is frozen at its claim; `RunsFit` says for each place of the runner which of its parts
are made by now and that they are those of the revision. A form or a refresh that was read long ago may be stored
later: `ReadingsFit` says that what can still be stored is no older than the catalogue.

### What a project keeps (`Project_proofs`, `Workspaces_proofs`)

| theorem | statement |
|---|---|
| `PublishingInvariance`, `ReleaseTellsTheTruth`, `PublishedStays` | `Spec => []IInv`, `[]ReleaseInvariant`, `PublishedIsFixed` |
| `StateInvariance`, `StateIsSafe` | `State!Spec => []StateInv`, `[]StateInvariant` |
| `ProjectIsKept` | `ProjectSpec` has all of these properties |
| `WorkspacesInvariance`, `RowTellsTheWorkspace`, `ReadyStays` | `Spec => []IInv`, `[]WorkspaceInvariant`, `ReadyIsNotCreatedAgain` of `Workspaces` |

Publication and workspaces work under git.lock: `Fits(q)` says for each place of a request what it
established there, and no other request works meanwhile. What it cannot count on is the owner, who moves
branches and tags at any time; the invariants name what survives that (a tag the program made is at the reserved
commit unless people touched it). A restore is proved by position: before the first move every file is the old one
(`BeforeRestore`), while it moves each path is in exactly one of its areas (`WhileMoving`), while it installs the paths before the
current one are the new ones (`WhileInstalling`), and when it reports success every live file is the new
one (`AfterRestore`); what the roll back needs after a failure is what these positions left in place. A row of the old database has its artifact because files are written before rows
(`ArtifactsFit`), and an area is touched by nobody else while the guard's mark and lock stand (`ServingIsVisible`).

### Only model-checked

* Liveness under fairness (`EveryRunEnds`, `EndedRunIsLeft`, `DiscussionIsTakenUp`, `LockIsReturned`, `TurnEndsInTime`,
  `EndReachesEverybody`): with ENABLED out of the prover's reach.
* That the runs reach the interesting cases, and that each property fails when the code it is about is changed.

## 5. Not modelled

* Knowledge notes and relations: single rows, written in one transaction and read for display.
* Search and retrieval evaluation: SQLite's text index and floating-point metrics.
* Parsing and formatting: JSON of the agents' protocols, diffs, prompts' wording, HTTP decoding, CLI output.
* Migrations from older schemas, `ats init` (which gives a project a new instance id, so that a
  backup is refused after an interrupted restore), settings.
* Archiving, titles, lists and filters; the MCP server's queries and its audit log; the discovery of skills in
  directories and allowlists of single tools; images and their conversion.
* Hazards with no property: an error while reviews, tests or discussion are read for a prompt drops that part; a checkpoint
  that a reader keeps from completing gives an older, complete backup; a failed read of a run ends the
  scheduler's wait for it until the daemon restarts; a claim of a passed test is backed by any execution of the run, not
  the last one; the commit of a workspace may contain the partial edits of a run claimed meanwhile (it stays on the
  task branch, and the acceptance is refused by the version check).

* People with git: an owner who merges a task branch into the target by hand (`CommitOnTarget` makes a commit of its own);
  in the recovery of an integration, a target branch that git cannot resolve, where the attempt is FAILED without a look at the branch.
* `FailedRestoreKeepsState` is about the five other files: whether there is a write-ahead log depends on who has the database open.

## 6. Plan

Done: every component above, and theorems about every invariant and every action property that the runs check. Left:
abstract specifications of `Planning` (a plan is approved as it was shown) and of `Publishing` (a version is reserved,
tagged and published once), with their refinements.
