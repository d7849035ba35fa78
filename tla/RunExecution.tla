----------------------------- MODULE RunExecution -----------------------------
(***************************************************************************)
(* The processes around a Run: the daemon with its scheduler, the wait for *)
(* each runner it spawned and the recovery of the runs an earlier daemon   *)
(* left behind; the runner process of each Run; and the agent process the  *)
(* runner starts.  Runner and agent have process groups of their own and   *)
(* outlive the daemon; any of them may die at any point.                   *)
(* (src/internal/scheduler, src/internal/recovery, src/internal/runner and *)
(* the columns of runs they use.)                                          *)
(*                                                                         *)
(* TaskRuns says which Run is claimed next and what its end does to the    *)
(* task.  Here a Run is claimed when it is free to, and only its own row   *)
(* is kept.                                                                *)
(***************************************************************************)
EXTENDS Integers

CONSTANTS
    Runs,
    NoRun,
    MaxRestarts,        \* bound on the crashes of the daemon
    WorkspaceMayFail    \* git may fail while a workspace is finalized

ASSUME ExecutionAssumption ==
    /\ NoRun \notin Runs
    /\ MaxRestarts \in Nat
    /\ WorkspaceMayFail \in BOOLEAN

Outcomes == {"SUCCEEDED", "NEEDS_INPUT", "FAILED", "CANCELLED", "TIMED_OUT"}
Active   == {"CLAIMED", "STARTING", "RUNNING", "FINALIZING"}
Terminal == Outcomes \cup {"LOST"}

VARIABLES
    \* columns of runs and run_finalization_intents
    status, cancel, runnerPid, agentPid, intent,
    lease,          \* run_resource_leases: the browser session of the agent
    \* processes
    runner,         \* where each runner is, and the locals it carries
    signalled,      \* the runners a SIGTERM reached while the agent was at work
    agent,          \* the agent process of each run
    \* the daemon and its goroutines
    daemon, restarts,
    dispatched,     \* the run the scheduler has claimed and not launched yet
    waiter,         \* the goroutine that waits for the runner of a run
    item            \* what the recovery holds about a run

row     == <<status, cancel, runnerPid, agentPid, intent, lease>>
process == <<runner, signalled, agent>>
serving == <<daemon, restarts, dispatched, waiter, item>>
vars    == <<row, process, serving>>

RunnerAt == {"NONE", "PIPE", "BOOT", "PREPARE", "CHECK", "ATTACH", "WAIT", "STOP",
             "RELEASE", "REPORT", "WORKSPACE", "COMPLETE", "GONE"}
RunnerRecord == [at : RunnerAt, result : Outcomes \cup {"NONE"}, unleased : BOOLEAN]

ItemAt == {"NONE", "LISTED", "LOADED", "DEAD", "CLEANED", "TRACKED"}
ItemRecord == [at : ItemAt, runnerPid : BOOLEAN, agentPid : BOOLEAN,
               status : Active \cup Terminal \cup {"NONE"}]
NoItem == [at |-> "NONE", runnerPid |-> FALSE, agentPid |-> FALSE, status |-> "NONE"]

TypeOK ==
    /\ status \in [Runs -> Active \cup Terminal \cup {"ABSENT"}]
    /\ cancel \subseteq Runs /\ runnerPid \subseteq Runs /\ agentPid \subseteq Runs
    /\ intent \in [Runs -> Outcomes \cup {"NONE"}]
    /\ lease \in [Runs -> {"NONE", "ACTIVE", "RELEASED", "ABANDONED"}]
    /\ runner \in [Runs -> RunnerRecord]
    /\ signalled \subseteq Runs
    /\ agent \in [Runs -> {"NONE", "ALIVE", "DONE", "BROKEN", "KILLED"}]
    /\ daemon \in {"DOWN", "RECOVERING", "UP"}
    /\ restarts \in 0..MaxRestarts
    /\ dispatched \in Runs \cup {NoRun}
    /\ waiter \in [Runs -> {"NONE", "WAITING", "CLEANED"}]
    /\ item \in [Runs -> ItemRecord]

Init ==
    /\ status = [r \in Runs |-> "ABSENT"]
    /\ cancel = {} /\ runnerPid = {} /\ agentPid = {}
    /\ intent = [r \in Runs |-> "NONE"]
    /\ lease = [r \in Runs |-> "NONE"]
    /\ runner = [r \in Runs |-> [at |-> "NONE", result |-> "NONE", unleased |-> FALSE]]
    /\ signalled = {}
    /\ agent = [r \in Runs |-> "NONE"]
    /\ daemon = "UP" /\ restarts = 0 /\ dispatched = NoRun
    /\ waiter = [r \in Runs |-> "NONE"]
    /\ item = [r \in Runs |-> NoItem]

IsActive(r) == status[r] \in Active
Alive(r)    == runner[r].at \notin {"NONE", "GONE"}
At(r, here) == runner[r].at = here
Goes(r, to) == runner' = [runner EXCEPT ![r].at = to]

-----------------------------------------------------------------------------
(* Statements of the store that several processes use.                     *)

\* Run r ends with status s unless it has ended already.
Finish(r, s) == status' = [status EXCEPT ![r] = IF @ \in Active THEN s ELSE @]

\* Mutant: the recovery does not look at the status it overwrites.
RecoverLost_Blind(r) == status' = [status EXCEPT ![r] = "LOST"]

RecoverLost(r) == Finish(r, "LOST")

\* The frozen outcome becomes the status; a second completion changes nothing.
CompleteFinalization(r) ==
    status' = [status EXCEPT ![r] = IF @ = "FINALIZING" THEN intent[r] ELSE @]

\* Terminate the agent of a dead runner, if its process is known, and close
\* the resources of the run.  A process that no longer answers to the recorded
\* identity cannot be confirmed closed.
CleanupAgentResources(r, known) ==
    /\ agent' = [agent EXCEPT ![r] = IF known /\ @ = "ALIVE" THEN "KILLED" ELSE @]
    /\ lease' = [lease EXCEPT ![r] = IF @ # "ACTIVE" THEN @
                                     ELSE IF known /\ agent[r] # "ALIVE" THEN "ABANDONED"
                                     ELSE "RELEASED"]

\* Mutant: the intent is applied without asking whether there is one.
Settle_AlwaysReplays(r, s) ==
    status' = [status EXCEPT ![r] = IF @ \in Active THEN intent[r] ELSE @]

\* What is done to a run whose runner is dead and whose status was read as s:
\* replay the frozen outcome; without one, or when the replay fails, LOST.
Settle(r, s) ==
    \/ s = "FINALIZING" /\ status[r] \in {"FINALIZING", intent[r]} /\ CompleteFinalization(r)
    \/ /\ s # "FINALIZING" \/ WorkspaceMayFail \/ status[r] \notin {"FINALIZING", intent[r]}
       /\ RecoverLost(r)

-----------------------------------------------------------------------------
(* The scheduler of the daemon.                                            *)

Claim(r) ==
    /\ daemon = "UP" /\ dispatched = NoRun
    /\ status[r] = "ABSENT"
    /\ status' = [status EXCEPT ![r] = "CLAIMED"]
    /\ dispatched' = r
    /\ UNCHANGED <<cancel, runnerPid, agentPid, intent, lease, process,
                   daemon, restarts, waiter, item>>

Spawn(r) ==
    /\ dispatched = r /\ At(r, "NONE")
    /\ Goes(r, "PIPE")
    /\ UNCHANGED <<row, signalled, agent, serving>>

\* Mutant: nobody waits for the runner.
SendToken_NoWait(r) ==
    /\ dispatched = r /\ At(r, "PIPE")
    /\ Goes(r, "BOOT")
    /\ dispatched' = NoRun
    /\ UNCHANGED <<row, signalled, agent, daemon, restarts, waiter, item>>

SendToken(r) ==
    /\ dispatched = r /\ At(r, "PIPE")
    /\ Goes(r, "BOOT")
    /\ dispatched' = NoRun
    /\ waiter' = [waiter EXCEPT ![r] = "WAITING"]
    /\ UNCHANGED <<row, signalled, agent, daemon, restarts, item>>

\* No process could be started, or the token not be written to it.
LaunchFails(r) ==
    /\ dispatched = r
    /\ Goes(r, "GONE")
    /\ Finish(r, "LOST")
    /\ dispatched' = NoRun
    /\ UNCHANGED <<cancel, runnerPid, agentPid, intent, lease, signalled, agent,
                   daemon, restarts, waiter, item>>

\* The runner has exited.  A run that ended needs nothing more.
RunnerExits(r) ==
    /\ waiter[r] = "WAITING" /\ At(r, "GONE")
    /\ IF IsActive(r)
       THEN /\ CleanupAgentResources(r, r \in agentPid)
            /\ waiter' = [waiter EXCEPT ![r] = "CLEANED"]
       ELSE /\ waiter' = [waiter EXCEPT ![r] = "NONE"]
            /\ UNCHANGED <<agent, lease>>
    /\ UNCHANGED <<status, cancel, runnerPid, agentPid, intent, runner, signalled,
                   daemon, restarts, dispatched, item>>

Reconcile(r) ==
    /\ waiter[r] = "CLEANED"
    /\ Settle(r, status[r])
    /\ waiter' = [waiter EXCEPT ![r] = "NONE"]
    /\ UNCHANGED <<cancel, runnerPid, agentPid, intent, lease, process,
                   daemon, restarts, dispatched, item>>

-----------------------------------------------------------------------------
(* The runner.                                                             *)

\* The daemon died before it sent the token.
PipeCloses(r) ==
    /\ At(r, "PIPE") /\ dispatched # r
    /\ Goes(r, "GONE")
    /\ UNCHANGED <<row, signalled, agent, serving>>

Start(r) ==
    /\ At(r, "BOOT")
    /\ IF status[r] = "CLAIMED"
       THEN /\ status' = [status EXCEPT ![r] = "STARTING"]
            /\ runnerPid' = runnerPid \cup {r}
            /\ Goes(r, "PREPARE")
       ELSE /\ Goes(r, "GONE")
            /\ UNCHANGED <<status, runnerPid>>
    /\ UNCHANGED <<cancel, agentPid, intent, lease, signalled, agent, serving>>

\* Session, workspace, prompt or artifacts could not be prepared.
PrepareFails(r) ==
    /\ runner[r].at \in {"BOOT", "PREPARE"}
    /\ Finish(r, "FAILED")
    /\ Goes(r, "GONE")
    /\ UNCHANGED <<cancel, runnerPid, agentPid, intent, lease, signalled, agent, serving>>

MarkRunning(r) ==
    /\ At(r, "PREPARE")
    /\ IF status[r] = "STARTING"
       THEN status' = [status EXCEPT ![r] = "RUNNING"] /\ Goes(r, "CHECK")
       ELSE UNCHANGED status /\ Goes(r, "GONE")
    /\ UNCHANGED <<cancel, runnerPid, agentPid, intent, lease, signalled, agent, serving>>

\* Mutant: the heartbeat goes on after the lease is gone.
Heartbeat_Ignored(r) ==
    /\ runner[r].at \in {"PREPARE", "CHECK", "ATTACH", "WAIT"}
    /\ ~IsActive(r) /\ ~runner[r].unleased
    /\ UNCHANGED vars

\* The lease of an ended run cannot be renewed: the context of the agent is
\* cancelled.  Later phases of the runner do not look at it.
Heartbeat(r) ==
    /\ runner[r].at \in {"PREPARE", "CHECK", "ATTACH", "WAIT"}
    /\ ~IsActive(r) /\ ~runner[r].unleased
    /\ runner' = [runner EXCEPT ![r].unleased = TRUE]
    /\ UNCHANGED <<row, signalled, agent, serving>>

\* The database did not answer: the runner gives its lease up all the same.
HeartbeatFails(r) ==
    /\ runner[r].at \in {"PREPARE", "CHECK", "ATTACH", "WAIT"}
    /\ IsActive(r) /\ ~runner[r].unleased
    /\ runner' = [runner EXCEPT ![r].unleased = TRUE]
    /\ UNCHANGED <<row, signalled, agent, serving>>

\* The last look at the cancel request before the agent is started.
CheckCancel(r) ==
    /\ At(r, "CHECK")
    /\ IF r \in cancel
       THEN /\ runner' = [runner EXCEPT ![r].at = "REPORT",
                    ![r].result = IF runner[r].unleased THEN "FAILED" ELSE "CANCELLED"]
            /\ UNCHANGED agent
       ELSE /\ Goes(r, "ATTACH")
            /\ agent' = [agent EXCEPT ![r] = "ALIVE"]
    /\ UNCHANGED <<row, signalled, serving>>

SpawnFails(r) ==
    /\ At(r, "CHECK") /\ r \notin cancel
    /\ runner' = [runner EXCEPT ![r].at = "REPORT", ![r].result = "FAILED"]
    /\ UNCHANGED <<row, signalled, agent, serving>>

Attach(r) ==
    /\ At(r, "ATTACH")
    /\ IF status[r] \in {"STARTING", "RUNNING"} /\ ~runner[r].unleased
       THEN /\ agentPid' = agentPid \cup {r}
            /\ Goes(r, "WAIT")
            /\ UNCHANGED agent
       ELSE /\ runner' = [runner EXCEPT ![r].at = "REPORT", ![r].result = "FAILED"]
            /\ agent' = [agent EXCEPT ![r] = IF @ = "ALIVE" THEN "KILLED" ELSE @]
            /\ UNCHANGED agentPid
    /\ UNCHANGED <<status, cancel, runnerPid, intent, lease, signalled, serving>>

\* The agent opens a browser session, which is registered for the run.
OpenResourceLease(r) ==
    /\ At(r, "WAIT") /\ agent[r] = "ALIVE" /\ lease[r] # "ACTIVE"
    /\ lease' = [lease EXCEPT ![r] = "ACTIVE"]
    /\ UNCHANGED <<status, cancel, runnerPid, agentPid, intent, process, serving>>

\* The wait for the agent ends for one of the reasons that hold.
Stops(r, s) == /\ At(r, "WAIT")
               /\ runner' = [runner EXCEPT ![r].at = "STOP", ![r].result = s]
               /\ UNCHANGED <<row, agent, serving>>

AgentDone(r) == /\ \/ agent[r] = "DONE" /\ Stops(r, "SUCCEEDED")
                   \/ agent[r] \in {"BROKEN", "KILLED"} /\ Stops(r, "FAILED")
                /\ UNCHANGED signalled
TimesOut(r)  == Stops(r, "TIMED_OUT") /\ UNCHANGED signalled
CancelCheckFails(r) == Stops(r, "FAILED") /\ UNCHANGED signalled
Cancelled(r) == r \in cancel /\ Stops(r, "CANCELLED") /\ UNCHANGED signalled
Unleased(r)  == runner[r].unleased /\ Stops(r, "CANCELLED") /\ UNCHANGED signalled
Terminate(r) == Stops(r, "CANCELLED") /\ signalled' = signalled \cup {r}

\* Mutant: the process group is left alone.
StopAgent_LeavesGroup(r) ==
    /\ At(r, "STOP")
    /\ Goes(r, "RELEASE")
    /\ UNCHANGED <<row, signalled, agent, serving>>

StopAgent(r) ==
    /\ At(r, "STOP")
    /\ agent' = [agent EXCEPT ![r] = IF @ = "ALIVE" THEN "KILLED" ELSE @]
    /\ Goes(r, "RELEASE")
    /\ UNCHANGED <<row, signalled, serving>>

\* Mutant: the failed heartbeat is forgotten when the agent has been stopped.
ReleaseAgent_KeepsResult(r) ==
    /\ At(r, "RELEASE")
    /\ agentPid' = agentPid \ {r}
    /\ \E closed \in {"RELEASED", "ABANDONED"} :
         lease' = [lease EXCEPT ![r] = IF @ = "ACTIVE" THEN closed ELSE @]
    /\ Goes(r, "REPORT")
    /\ UNCHANGED <<status, cancel, runnerPid, intent, signalled, agent, serving>>

\* A lost lease turns any result into a failure.
ReleaseAgent(r) ==
    /\ At(r, "RELEASE")
    /\ agentPid' = agentPid \ {r}
    /\ \E closed \in {"RELEASED", "ABANDONED"} :
         lease' = [lease EXCEPT ![r] = IF @ = "ACTIVE" THEN closed ELSE @]
    /\ runner' = [runner EXCEPT ![r].at = "REPORT",
                    ![r].result = IF runner[r].unleased THEN "FAILED" ELSE @]
    /\ UNCHANGED <<status, cancel, runnerPid, intent, signalled, agent, serving>>

\* What the run may report for a result: a successful agent may have asked or
\* reported a failure, and saving any result may fail.
Reported(result) ==
    {result, "FAILED"} \cup IF result = "SUCCEEDED" THEN {"NEEDS_INPUT"} ELSE {}

BeginFinalization(r) ==
    /\ At(r, "REPORT")
    /\ IF status[r] = "RUNNING"
       THEN /\ \E s \in Reported(runner[r].result) : intent' = [intent EXCEPT ![r] = s]
            /\ status' = [status EXCEPT ![r] = "FINALIZING"]
            /\ Goes(r, "WORKSPACE")
       ELSE Goes(r, "GONE") /\ UNCHANGED <<status, intent>>
    /\ UNCHANGED <<cancel, runnerPid, agentPid, lease, signalled, agent, serving>>

FinalizeWorkspace(r) ==
    /\ At(r, "WORKSPACE")
    /\ \/ Goes(r, "COMPLETE") /\ UNCHANGED status
       \/ WorkspaceMayFail /\ Finish(r, "FAILED") /\ Goes(r, "GONE")
    /\ UNCHANGED <<cancel, runnerPid, agentPid, intent, lease, signalled, agent, serving>>

Complete(r) ==
    /\ At(r, "COMPLETE")
    /\ CompleteFinalization(r)
    /\ Goes(r, "GONE")
    /\ UNCHANGED <<cancel, runnerPid, agentPid, intent, lease, signalled, agent, serving>>

CrashRunner(r) ==
    /\ Alive(r)
    /\ Goes(r, "GONE")
    /\ UNCHANGED <<row, signalled, agent, serving>>

AgentExits(r) ==
    /\ agent[r] = "ALIVE"
    /\ \E how \in {"DONE", "BROKEN"} : agent' = [agent EXCEPT ![r] = how]
    /\ UNCHANGED <<row, runner, signalled, serving>>

RequestCancel(r) ==
    /\ status[r] \in {"CLAIMED", "STARTING", "RUNNING"} /\ r \notin cancel
    /\ cancel' = cancel \cup {r}
    /\ UNCHANGED <<status, runnerPid, agentPid, intent, lease, process, serving>>

-----------------------------------------------------------------------------
(* Death and recovery of the daemon.                                       *)

CrashDaemon ==
    /\ daemon # "DOWN" /\ restarts < MaxRestarts
    /\ daemon' = "DOWN"
    /\ restarts' = restarts + 1
    /\ dispatched' = NoRun
    /\ waiter' = [r \in Runs |-> "NONE"]
    /\ item' = [r \in Runs |-> NoItem]
    /\ UNCHANGED <<row, process>>

\* The runs that have not ended, with the processes recorded at this moment.
ListRecoveryRuns ==
    /\ daemon = "DOWN"
    /\ daemon' = "RECOVERING"
    /\ item' = [r \in Runs |->
            IF IsActive(r)
            THEN [NoItem EXCEPT !.at = "LISTED", !.runnerPid = r \in runnerPid,
                                !.agentPid = r \in agentPid]
            ELSE NoItem]
    /\ UNCHANGED <<row, process, restarts, dispatched, waiter>>

\* The run itself is read after the list: the status may be newer.
Load(r) ==
    /\ item[r].at = "LISTED"
    /\ item' = [item EXCEPT ![r].at = "LOADED", ![r].status = status[r]]
    /\ UNCHANGED <<row, process, daemon, restarts, dispatched, waiter>>

\* Is the recorded runner still alive?  All runs are loaded before the first probe.
Probe(r) ==
    /\ item[r].at = "LOADED"
    /\ \A q \in Runs : item[q].at # "LISTED"
    /\ item' = [item EXCEPT ![r].at =
            IF item[r].runnerPid /\ Alive(r) THEN "TRACKED" ELSE "DEAD"]
    /\ UNCHANGED <<row, process, daemon, restarts, dispatched, waiter>>

Clean(r) ==
    /\ item[r].at = "DEAD"
    /\ CleanupAgentResources(r, item[r].agentPid)
    /\ item' = [item EXCEPT ![r].at = "CLEANED"]
    /\ UNCHANGED <<status, cancel, runnerPid, agentPid, intent, runner, signalled,
                   daemon, restarts, dispatched, waiter>>

SettleItem(r) ==
    /\ item[r].at = "CLEANED"
    /\ Settle(r, item[r].status)
    /\ item' = [item EXCEPT ![r] = NoItem]
    /\ UNCHANGED <<cancel, runnerPid, agentPid, intent, lease, process,
                   daemon, restarts, dispatched, waiter>>

Serve ==
    /\ daemon = "RECOVERING"
    /\ \A r \in Runs : item[r].at \in {"NONE", "TRACKED"}
    /\ daemon' = "UP"
    /\ UNCHANGED <<row, process, restarts, dispatched, waiter, item>>

\* The monitor reads a tracked run again; it keeps the processes of the list.
Monitor(r) ==
    /\ daemon = "UP" /\ item[r].at = "TRACKED"
    /\ item' = [item EXCEPT ![r] =
            IF IsActive(r) THEN [@ EXCEPT !.at = "LOADED", !.status = status[r]] ELSE NoItem]
    /\ UNCHANGED <<row, process, daemon, restarts, dispatched, waiter>>

-----------------------------------------------------------------------------

Launch(r) == Spawn(r) \/ SendToken(r) \/ LaunchFails(r)
AwaitEnd(r) == RunnerExits(r) \/ Reconcile(r)
EndOfWait(r) ==
    AgentDone(r) \/ TimesOut(r) \/ CancelCheckFails(r) \/ Cancelled(r) \/ Unleased(r) \/ Terminate(r)

\* What the runner does by itself, once it has been started.
RunnerStep(r) ==
    \/ PipeCloses(r) \/ Start(r) \/ PrepareFails(r) \/ MarkRunning(r)
    \/ CheckCancel(r) \/ SpawnFails(r) \/ Attach(r) \/ StopAgent(r) \/ ReleaseAgent(r)
    \/ BeginFinalization(r) \/ FinalizeWorkspace(r) \/ Complete(r)

Recovery(r) == Load(r) \/ Probe(r) \/ Clean(r) \/ SettleItem(r) \/ Monitor(r)

Next ==
    \/ \E r \in Runs :
        \/ Claim(r) \/ Launch(r) \/ AwaitEnd(r)
        \/ RunnerStep(r) \/ Heartbeat(r) \/ HeartbeatFails(r) \/ OpenResourceLease(r) \/ EndOfWait(r)
        \/ CrashRunner(r) \/ AgentExits(r) \/ RequestCancel(r) \/ Recovery(r)
    \/ CrashDaemon \/ ListRecoveryRuns \/ Serve

Spec == Init /\ [][Next]_vars

\* The scheduler goes on, every runner goes on or dies, its heartbeat fires, and
\* a daemon that died is started again.  Nothing is assumed of the agent or of
\* the humans.
Fairness ==
    /\ \A r \in Runs : /\ WF_vars(Launch(r)) /\ WF_vars(AwaitEnd(r))
                       /\ WF_vars(RunnerStep(r)) /\ WF_vars(Heartbeat(r))
                       /\ WF_vars(Unleased(r)) /\ WF_vars(Recovery(r))
    /\ WF_vars(ListRecoveryRuns) /\ WF_vars(Serve)

\* The timer of the wait, which bounds an agent that hangs.
TimeoutsFire == \A r \in Runs : WF_vars(TimesOut(r))

FairSpec == Spec /\ Fairness

-----------------------------------------------------------------------------
(* Properties.                                                             *)

\* A run whose runner wrote its outcome has no agent at work any more: the
\* agent is stopped before the outcome is frozen, whatever ended the wait.
\* Only a LOST run may leave an agent behind.
EndedRunHasNoAgent ==
    \A r \in Runs : status[r] \in Outcomes \cup {"FINALIZING"} => agent[r] # "ALIVE"

\* A run ends CANCELLED only when a human asked for it or a signal stopped the
\* runner: neither a lost lease nor an agent that died passes for a cancellation.
CancelledByRequest ==
    \A r \in Runs : status[r] = "CANCELLED" => r \in cancel \cup signalled

\* How runs end, in a state: what their runner promised about the agent and about
\* the cause of the end holds whichever of runner, daemon and recovery died.
RunInvariant == TypeOK /\ EndedRunHasNoAgent /\ CancelledByRequest

\* The rows of runs behave as RunLife says, whoever of the three writes them.
Life == INSTANCE RunLife
KeepsRunLife == Life!Spec

\* Every claimed run ends: the scheduler, the wait for the runner and the
\* recovery leave no run behind, wherever processes die, as long as timers fire.
EveryRunEnds == TimeoutsFire => \A r \in Runs : IsActive(r) ~> ~IsActive(r)

\* A runner whose run was ended by others stops its agent, and need not time out
\* for that: the lease is how it learns of it.
EndedRunIsLeft ==
    \A r \in Runs : (Alive(r) /\ status[r] \in Terminal) ~> (At(r, "GONE"))
=============================================================================
