------------------------- MODULE RunExecution_proofs -------------------------
(***************************************************************************)
(* Proofs about RunExecution, for every set of runs and every number of    *)
(* crashes of the daemon.                                                  *)
(*                                                                         *)
(* The inductive invariant says what is true of one run on its own: which  *)
(* status its row can have while its runner is at a place, when its agent  *)
(* can be alive, and what the locals of the runner and the frozen intent   *)
(* stand for.  No run depends on another one.                              *)
(***************************************************************************)
EXTENDS RunExecution, TLAPS

\* The statuses the row of run r can have while its runner is where it is.  The
\* recovery may end a run as LOST behind the back of a live runner, and it may
\* replay the intent that a runner has frozen.
StatusFits(r) ==
    LET here == runner[r].at
        s    == status[r]
    IN  /\ here = "NONE" => s \in {"ABSENT", "CLAIMED", "LOST"}
        /\ here \in {"PIPE", "BOOT"} => s \in {"CLAIMED", "LOST"}
        /\ here = "PREPARE" => s \in {"STARTING", "LOST"}
        /\ here \in {"CHECK", "ATTACH", "WAIT", "STOP", "RELEASE", "REPORT"} =>
              s \in {"RUNNING", "LOST"}
        /\ here \in {"WORKSPACE", "COMPLETE"} =>
              s \in {"FINALIZING", "LOST", intent[r]} /\ intent[r] \in Outcomes
        /\ here # "NONE" => s # "ABSENT"

\* The agent is started after CHECK and dead from RELEASE on, and it is dead
\* when the outcome is frozen or written.
AgentFits(r) ==
    /\ runner[r].at \in {"NONE", "PIPE", "BOOT", "PREPARE", "CHECK"} => agent[r] = "NONE"
    /\ runner[r].at \in {"RELEASE", "REPORT", "WORKSPACE", "COMPLETE"} => agent[r] # "ALIVE"
    /\ status[r] \in Outcomes \cup {"FINALIZING"} => agent[r] # "ALIVE"

Requested(r) == r \in cancel \cup signalled

\* Who carries CANCELLED towards the row: the result of the runner, which a lost
\* lease may also have set until ReleaseAgent corrects it, and the intent.
ResultFits(r) ==
    /\ runner[r].at \in {"STOP", "RELEASE", "REPORT"} => runner[r].result \in Outcomes
    /\ /\ runner[r].at \in {"STOP", "RELEASE"}
       /\ runner[r].result = "CANCELLED"
       /\ ~runner[r].unleased
       => Requested(r)
    /\ runner[r].at = "REPORT" /\ runner[r].result = "CANCELLED" => Requested(r)
    /\ status[r] = "FINALIZING" => intent[r] \in Outcomes
    /\ intent[r] = "CANCELLED" => Requested(r)
    /\ status[r] = "CANCELLED" => Requested(r)

\* The scheduler and the recovery hold rows that exist.
HeldExists(r) == dispatched = r \/ item[r].at # "NONE" => status[r] # "ABSENT"

Shape(r) == StatusFits(r) /\ AgentFits(r) /\ ResultFits(r) /\ HeldExists(r)

IInv == TypeOK /\ \A r \in Runs : Shape(r)

-----------------------------------------------------------------------------
(* One run at a time.                                                      *)

\* A step that is about run r alone.
Only(r) ==
    /\ \A q \in Runs \ {r} :
          /\ status'[q] = status[q] /\ intent'[q] = intent[q]
          /\ runner'[q] = runner[q] /\ agent'[q] = agent[q]
          /\ item'[q] = item[q]
    /\ dispatched' \in {dispatched, r, NoRun}
    /\ cancel \subseteq cancel' /\ signalled \subseteq signalled'

\* Such a step keeps the shape of every run if it keeps that of r.
LEMMA OthersKeepShape ==
    ASSUME NEW r \in Runs, IInv, Only(r), TypeOK', Shape(r)'
    PROVE  IInv'
<1>1. ASSUME NEW q \in Runs \ {r}
      PROVE  Shape(q)'
  <2>1. Shape(q)
    BY <1>1 DEF IInv
  <2>2. dispatched' = q => dispatched = q
    BY <1>1, ExecutionAssumption DEF Only
  <2> QED
    BY <1>1, <2>1, <2>2
       DEF Only, Shape, StatusFits, AgentFits, ResultFits, HeldExists, Requested
<1> QED
  BY <1>1 DEF IInv

\* What the step of an action has to show.
Keeps(r) == Only(r) /\ TypeOK' /\ Shape(r)'

\* The runner ends its work on the agent with a result.
Ends(r, to, s) == runner' = [runner EXCEPT ![r].at = to, ![r].result = s]

\* The record of a runner keeps its type, whichever of its fields a step sets.
LEMMA RunnerMoves ==
    ASSUME TypeOK, NEW r \in Runs, NEW to \in RunnerAt, Goes(r, to)
    PROVE  runner' \in [Runs -> RunnerRecord]
BY DEF TypeOK, Goes, RunnerRecord

\* With a result.
LEMMA RunnerEnds ==
    ASSUME TypeOK, NEW r \in Runs, NEW to \in RunnerAt, NEW s \in Outcomes \cup {"NONE"},
           Ends(r, to, s)
    PROVE  runner' \in [Runs -> RunnerRecord]
BY DEF TypeOK, Ends, RunnerRecord

\* With a lost lease.
LEMMA RunnerUnleased ==
    ASSUME TypeOK, NEW r \in Runs, runner' = [runner EXCEPT ![r].unleased = TRUE]
    PROVE  runner' \in [Runs -> RunnerRecord]
BY DEF TypeOK, RunnerRecord

\* So does what the recovery holds about a run.
LEMMA ItemMoves ==
    ASSUME item \in [Runs -> ItemRecord], NEW r \in Runs, NEW to \in ItemAt
    PROVE  /\ [item EXCEPT ![r].at = to] \in [Runs -> ItemRecord]
           /\ \A s \in Active \cup Terminal :
                /\ [item EXCEPT ![r].at = to, ![r].status = s] \in [Runs -> ItemRecord]
                /\ [item EXCEPT ![r] = [@ EXCEPT !.at = to, !.status = s]] \in [Runs -> ItemRecord]
           /\ [item EXCEPT ![r] = NoItem] \in [Runs -> ItemRecord]
BY DEF ItemRecord, ItemAt, NoItem

\* The scheduler and the daemon's wait for a runner keep the types.
LEMMA SchedulerTypes ==
    ASSUME NEW r \in Runs, IInv,
           Claim(r) \/ Launch(r) \/ AwaitEnd(r)
    PROVE  TypeOK'
<1> USE DEF row, process, serving, At, IsActive, Finish, Outcomes, Active, Terminal, RunnerAt
<1>0. Shape(r) /\ TypeOK
  BY DEF IInv
<1>1. CASE Claim(r)
  BY <1>0, <1>1, ExecutionAssumption DEF Claim, TypeOK
<1>2. CASE Spawn(r)
  BY <1>0, <1>2, ExecutionAssumption, RunnerMoves DEF Spawn, TypeOK
<1>3. CASE SendToken(r)
  BY <1>0, <1>3, ExecutionAssumption, RunnerMoves DEF SendToken, TypeOK
<1>4. CASE LaunchFails(r)
  BY <1>0, <1>4, ExecutionAssumption, RunnerMoves DEF LaunchFails, TypeOK
<1>5. CASE RunnerExits(r)
  <2>1. agent' \in [Runs -> {"NONE", "ALIVE", "DONE", "BROKEN", "KILLED"}]
    BY <1>0, <1>5 DEF RunnerExits, TypeOK, CleanupAgentResources
  <2>2. lease' \in [Runs -> {"NONE", "ACTIVE", "RELEASED", "ABANDONED"}]
    BY <1>0, <1>5 DEF RunnerExits, TypeOK, CleanupAgentResources
  <2>3. waiter' \in [Runs -> {"NONE", "WAITING", "CLEANED"}]
    BY <1>0, <1>5 DEF RunnerExits, TypeOK, CleanupAgentResources
  <2> QED
    BY <1>0, <1>5, <2>1, <2>2, <2>3 DEF RunnerExits, TypeOK, CleanupAgentResources
<1>6. CASE Reconcile(r)
  <2>1. status' \in [Runs -> Active \cup Terminal \cup {"ABSENT"}]
    BY <1>0, <1>6
       DEF Reconcile, TypeOK, Settle, RecoverLost, CompleteFinalization, Shape, ResultFits
  <2>2. waiter' \in [Runs -> {"NONE", "WAITING", "CLEANED"}]
    BY <1>0, <1>6 DEF Reconcile, TypeOK, Settle, RecoverLost, CompleteFinalization
  <2> QED
    BY <1>0, <1>6, <2>1, <2>2 DEF Reconcile, TypeOK, Settle, RecoverLost, CompleteFinalization
<1> QED
  BY <1>1, <1>2, <1>3, <1>4, <1>5, <1>6 DEF Launch, AwaitEnd

\* The scheduler and the daemon's wait for a runner keep the shape of their run.
LEMMA SchedulerKeeps ==
    ASSUME NEW r \in Runs, IInv,
           Claim(r) \/ Launch(r) \/ AwaitEnd(r)
    PROVE  Keeps(r)
<1> USE DEF row, process, serving, Goes, At, Alive, IsActive, Finish, Outcomes, Active, Terminal,
            TypeOK, RunnerRecord, RunnerAt, ItemRecord, ItemAt, Only, Keeps,
            Shape, StatusFits, AgentFits, ResultFits, HeldExists, Requested
<1>0. Shape(r) /\ TypeOK /\ TypeOK'
  BY SchedulerTypes DEF IInv
<1>1. CASE Claim(r)
  BY <1>0, <1>1, ExecutionAssumption DEF Claim
<1>2. CASE Spawn(r)
  BY <1>0, <1>2, ExecutionAssumption DEF Spawn
<1>3. CASE SendToken(r)
  BY <1>0, <1>3, ExecutionAssumption DEF SendToken
<1>4. CASE LaunchFails(r)
  BY <1>0, <1>4, ExecutionAssumption DEF LaunchFails
<1>5. CASE RunnerExits(r)
  BY <1>0, <1>5 DEF RunnerExits, CleanupAgentResources
<1>6. CASE Reconcile(r)
  BY <1>0, <1>6 DEF Reconcile, Settle, RecoverLost, CompleteFinalization
<1> QED
  BY <1>1, <1>2, <1>3, <1>4, <1>5, <1>6 DEF Launch, AwaitEnd

\* The runner keeps the types, wherever it dies.
LEMMA RunnerTypes ==
    ASSUME NEW r \in Runs, IInv,
           RunnerStep(r) \/ Heartbeat(r) \/ HeartbeatFails(r) \/ CrashRunner(r)
    PROVE  TypeOK'
<1> USE DEF row, process, serving, At, IsActive, Finish, Outcomes, Active, Terminal, RunnerAt
<1>0. Shape(r) /\ TypeOK
  BY DEF IInv
<1>1. CASE PipeCloses(r)
  BY <1>0, <1>1, ExecutionAssumption, RunnerMoves DEF PipeCloses, TypeOK
<1>2. CASE Start(r)
  <2>1. status' \in [Runs -> Active \cup Terminal \cup {"ABSENT"}]
    BY <1>0, <1>2 DEF Start, TypeOK, Shape, ResultFits
  <2>2. runner' \in [Runs -> RunnerRecord]
    <3>1. Goes(r, "PREPARE") \/ Goes(r, "GONE")
      BY <1>2 DEF Start, Ends
    <3> QED
      BY <1>0, <3>1, RunnerMoves, RunnerEnds DEF TypeOK, RunnerRecord
  <2> QED
    BY <1>0, <1>2, <2>1, <2>2 DEF Start, TypeOK
<1>3. CASE PrepareFails(r)
  BY <1>0, <1>3, ExecutionAssumption, RunnerMoves DEF PrepareFails, TypeOK
<1>4. CASE MarkRunning(r)
  <2>1. status' \in [Runs -> Active \cup Terminal \cup {"ABSENT"}]
    BY <1>0, <1>4 DEF MarkRunning, TypeOK, Shape, ResultFits
  <2>2. runner' \in [Runs -> RunnerRecord]
    <3>1. Goes(r, "CHECK") \/ Goes(r, "GONE")
      BY <1>4 DEF MarkRunning, Ends
    <3> QED
      BY <1>0, <3>1, RunnerMoves, RunnerEnds DEF TypeOK, RunnerRecord
  <2> QED
    BY <1>0, <1>4, <2>1, <2>2 DEF MarkRunning, TypeOK
<1>5. CASE Heartbeat(r)
  BY <1>0, <1>5, ExecutionAssumption, RunnerUnleased DEF Heartbeat, TypeOK
<1>6. CASE HeartbeatFails(r)
  BY <1>0, <1>6, ExecutionAssumption, RunnerUnleased DEF HeartbeatFails, TypeOK
<1>7. CASE CheckCancel(r)
  <2>1. runner' \in [Runs -> RunnerRecord]
    <3>1. Goes(r, "ATTACH") \/ Ends(r, "REPORT", "FAILED") \/ Ends(r, "REPORT", "CANCELLED")
      BY <1>7 DEF CheckCancel, Ends
    <3> QED
      BY <1>0, <3>1, RunnerMoves, RunnerEnds DEF TypeOK, RunnerRecord
  <2>2. agent' \in [Runs -> {"NONE", "ALIVE", "DONE", "BROKEN", "KILLED"}]
    BY <1>0, <1>7 DEF CheckCancel, TypeOK
  <2> QED
    BY <1>0, <1>7, <2>1, <2>2 DEF CheckCancel, TypeOK
<1>8. CASE SpawnFails(r)
  BY <1>0, <1>8, ExecutionAssumption, RunnerEnds DEF SpawnFails, TypeOK, Ends
<1>9. CASE Attach(r)
  <2>1. runner' \in [Runs -> RunnerRecord]
    <3>1. Goes(r, "WAIT") \/ Ends(r, "REPORT", "FAILED")
      BY <1>9 DEF Attach, Ends
    <3> QED
      BY <1>0, <3>1, RunnerMoves, RunnerEnds DEF TypeOK, RunnerRecord
  <2>2. agent' \in [Runs -> {"NONE", "ALIVE", "DONE", "BROKEN", "KILLED"}]
    BY <1>0, <1>9 DEF Attach, TypeOK
  <2> QED
    BY <1>0, <1>9, <2>1, <2>2 DEF Attach, TypeOK
<1>10. CASE StopAgent(r)
  BY <1>0, <1>10, ExecutionAssumption, RunnerMoves DEF StopAgent, TypeOK
<1>11. CASE ReleaseAgent(r)
  <2>1. runner' \in [Runs -> RunnerRecord]
    <3>1. Ends(r, "REPORT", "FAILED") \/ Ends(r, "REPORT", runner[r].result)
      BY <1>11 DEF ReleaseAgent, Ends
    <3> QED
      BY <1>0, <3>1, RunnerMoves, RunnerEnds DEF TypeOK, RunnerRecord
  <2>2. lease' \in [Runs -> {"NONE", "ACTIVE", "RELEASED", "ABANDONED"}]
    BY <1>0, <1>11 DEF ReleaseAgent, TypeOK
  <2> QED
    BY <1>0, <1>11, <2>1, <2>2 DEF ReleaseAgent, TypeOK
<1>12. CASE BeginFinalization(r)
  <2>1. runner' \in [Runs -> RunnerRecord]
    <3>1. Goes(r, "WORKSPACE") \/ Goes(r, "GONE")
      BY <1>12 DEF BeginFinalization, Ends
    <3> QED
      BY <1>0, <3>1, RunnerMoves, RunnerEnds DEF TypeOK, RunnerRecord
  <2>2. status' \in [Runs -> Active \cup Terminal \cup {"ABSENT"}]
    BY <1>0, <1>12 DEF BeginFinalization, TypeOK, Reported, Shape, ResultFits
  <2>3. intent' \in [Runs -> Outcomes \cup {"NONE"}]
    BY <1>0, <1>12 DEF BeginFinalization, TypeOK, Reported, Shape, ResultFits
  <2> QED
    BY <1>0, <1>12, <2>1, <2>2, <2>3 DEF BeginFinalization, TypeOK, Reported
<1>13. CASE FinalizeWorkspace(r)
  <2>1. runner' \in [Runs -> RunnerRecord]
    <3>1. Goes(r, "COMPLETE") \/ Goes(r, "GONE")
      BY <1>13 DEF FinalizeWorkspace, Ends
    <3> QED
      BY <1>0, <3>1, RunnerMoves, RunnerEnds DEF TypeOK, RunnerRecord
  <2>2. status' \in [Runs -> Active \cup Terminal \cup {"ABSENT"}]
    BY <1>0, <1>13 DEF FinalizeWorkspace, TypeOK, Shape, ResultFits
  <2> QED
    BY <1>0, <1>13, <2>1, <2>2 DEF FinalizeWorkspace, TypeOK
<1>14. CASE Complete(r)
  <2>1. runner' \in [Runs -> RunnerRecord]
    <3>1. Goes(r, "GONE")
      BY <1>14 DEF Complete, Ends
    <3> QED
      BY <1>0, <3>1, RunnerMoves, RunnerEnds DEF TypeOK, RunnerRecord
  <2>2. status' \in [Runs -> Active \cup Terminal \cup {"ABSENT"}]
    BY <1>0, <1>14 DEF Complete, TypeOK, CompleteFinalization, Shape, ResultFits
  <2> QED
    BY <1>0, <1>14, <2>1, <2>2 DEF Complete, TypeOK, CompleteFinalization
<1>15. CASE CrashRunner(r)
  BY <1>0, <1>15, ExecutionAssumption, RunnerMoves DEF CrashRunner, TypeOK
<1> QED
  BY <1>1, <1>2, <1>3, <1>4, <1>5, <1>6, <1>7, <1>8, <1>9, <1>10, <1>11, <1>12, <1>13, <1>14, <1>15
     DEF RunnerStep

\* So does the runner, wherever it dies.
LEMMA RunnerKeeps ==
    ASSUME NEW r \in Runs, IInv,
           RunnerStep(r) \/ Heartbeat(r) \/ HeartbeatFails(r) \/ CrashRunner(r)
    PROVE  Keeps(r)
<1> USE DEF row, process, serving, Goes, At, Alive, IsActive, Finish, Outcomes, Active, Terminal,
            TypeOK, RunnerRecord, RunnerAt, ItemRecord, ItemAt, Only, Keeps,
            Shape, StatusFits, AgentFits, ResultFits, HeldExists, Requested
<1>0. Shape(r) /\ TypeOK /\ TypeOK'
  BY RunnerTypes DEF IInv
<1>1. CASE PipeCloses(r)
  BY <1>0, <1>1 DEF PipeCloses
<1>2. CASE Start(r)
  BY <1>0, <1>2 DEF Start
<1>3. CASE PrepareFails(r)
  BY <1>0, <1>3 DEF PrepareFails
<1>4. CASE MarkRunning(r)
  BY <1>0, <1>4 DEF MarkRunning
<1>5. CASE Heartbeat(r)
  BY <1>0, <1>5 DEF Heartbeat
<1>6. CASE HeartbeatFails(r)
  BY <1>0, <1>6 DEF HeartbeatFails
<1>7. CASE CheckCancel(r)
  BY <1>0, <1>7 DEF CheckCancel
<1>8. CASE SpawnFails(r)
  BY <1>0, <1>8 DEF SpawnFails
<1>9. CASE Attach(r)
  BY <1>0, <1>9 DEF Attach
<1>10. CASE StopAgent(r)
  BY <1>0, <1>10 DEF StopAgent
<1>11. CASE ReleaseAgent(r)
  BY <1>0, <1>11 DEF ReleaseAgent
<1>12. CASE BeginFinalization(r)
  BY <1>0, <1>12 DEF BeginFinalization, Reported
<1>13. CASE FinalizeWorkspace(r)
  BY <1>0, <1>13 DEF FinalizeWorkspace
<1>14. CASE Complete(r)
  BY <1>0, <1>14 DEF Complete, CompleteFinalization
<1>15. CASE CrashRunner(r)
  BY <1>0, <1>15 DEF CrashRunner
<1> QED
  BY <1>1, <1>2, <1>3, <1>4, <1>5, <1>6, <1>7, <1>8, <1>9, <1>10, <1>11, <1>12, <1>13, <1>14, <1>15
     DEF RunnerStep

\* So does the end of the wait, whatever ended it: CANCELLED stands for a request,
\* a signal or a lost lease.
LEMMA WaitKeeps ==
    ASSUME NEW r \in Runs, IInv, EndOfWait(r)
    PROVE  Keeps(r)
<1>0. Shape(r) /\ TypeOK
  BY DEF IInv
<1>1. ASSUME NEW s \in Outcomes, Stops(r, s),
             signalled \subseteq signalled', signalled' \subseteq Runs,
             s = "CANCELLED" => r \in cancel \cup signalled' \/ runner[r].unleased
      PROVE  Keeps(r)
  <2>1. Ends(r, "STOP", s) /\ "STOP" \in RunnerAt
    BY <1>1 DEF Stops, Ends, RunnerAt
  <2>2. runner' \in [Runs -> RunnerRecord]
    BY <1>0, <2>1, RunnerEnds
  <2>3. TypeOK'
    BY <1>0, <1>1, <2>2 DEF Stops, TypeOK, row, serving
  <2>4. Only(r)
    BY <1>0, <1>1 DEF Stops, TypeOK, RunnerRecord, Only, row, serving
  <2>5. Shape(r)'
    BY <1>0, <1>1
       DEF Stops, TypeOK, At, row, serving, Shape, StatusFits, AgentFits, ResultFits,
           HeldExists,
           Requested, RunnerRecord, RunnerAt, Outcomes
  <2> QED
    BY <2>3, <2>4, <2>5 DEF Keeps
<1>2. \E s \in Outcomes :
        /\ Stops(r, s)
        /\ signalled \subseteq signalled' /\ signalled' \subseteq Runs
        /\ s = "CANCELLED" => r \in cancel \cup signalled' \/ runner[r].unleased
  BY <1>0 DEF EndOfWait, AgentDone, TimesOut, CancelCheckFails, Cancelled, Unleased, Terminate,
              Outcomes, TypeOK
<1> QED
  BY <1>1, <1>2

\* So do the agent and the humans.
LEMMA OtherTypes ==
    ASSUME NEW r \in Runs, IInv,
           OpenResourceLease(r) \/ AgentExits(r) \/ RequestCancel(r)
    PROVE  TypeOK'
<1> USE DEF row, process, serving, At, IsActive, Finish, Outcomes, Active, Terminal, RunnerAt
<1>0. Shape(r) /\ TypeOK
  BY DEF IInv
<1>1. CASE OpenResourceLease(r)
  BY <1>0, <1>1, ExecutionAssumption DEF OpenResourceLease, TypeOK
<1>2. CASE AgentExits(r)
  <2>1. agent' \in [Runs -> {"NONE", "ALIVE", "DONE", "BROKEN", "KILLED"}]
    BY <1>0, <1>2 DEF AgentExits, TypeOK
  <2> QED
    BY <1>0, <1>2, <2>1 DEF AgentExits, TypeOK
<1>3. CASE RequestCancel(r)
  BY <1>0, <1>3, ExecutionAssumption DEF RequestCancel, TypeOK
<1> QED
  BY <1>1, <1>2, <1>3

\* So do the agent and the humans.
LEMMA OthersKeep ==
    ASSUME NEW r \in Runs, IInv,
           OpenResourceLease(r) \/ AgentExits(r) \/ RequestCancel(r)
    PROVE  Keeps(r)
<1> USE DEF row, process, serving, Goes, At, Alive, IsActive, Finish, Outcomes, Active, Terminal,
            TypeOK, RunnerRecord, RunnerAt, ItemRecord, ItemAt, Only, Keeps,
            Shape, StatusFits, AgentFits, ResultFits, HeldExists, Requested
<1>0. Shape(r) /\ TypeOK /\ TypeOK'
  BY OtherTypes DEF IInv
<1>1. CASE OpenResourceLease(r)
  BY <1>0, <1>1 DEF OpenResourceLease
<1>2. CASE AgentExits(r)
  BY <1>0, <1>2 DEF AgentExits
<1>3. CASE RequestCancel(r)
  BY <1>0, <1>3 DEF RequestCancel
<1> QED
  BY <1>1, <1>2, <1>3

\* So does the recovery.
LEMMA RecoveryTypes ==
    ASSUME NEW r \in Runs, IInv,
           Recovery(r)
    PROVE  TypeOK'
<1> USE DEF row, process, serving, At, IsActive, Finish, Outcomes, Active, Terminal, RunnerAt
<1>0. Shape(r) /\ TypeOK
  BY DEF IInv
<1>1. CASE Load(r)
  <2>1. item' \in [Runs -> ItemRecord]
    BY <1>0, <1>1, ItemMoves DEF Load, TypeOK, Shape, HeldExists, ItemAt
  <2> QED
    BY <1>0, <1>1, <2>1 DEF Load, TypeOK
<1>2. CASE Probe(r)
  <2>1. item' \in [Runs -> ItemRecord]
    BY <1>0, <1>2, ItemMoves DEF Probe, TypeOK, Shape, HeldExists, ItemAt
  <2> QED
    BY <1>0, <1>2, <2>1 DEF Probe, TypeOK
<1>3. CASE Clean(r)
  <2>1. item' \in [Runs -> ItemRecord]
    BY <1>0, <1>3, ItemMoves
       DEF Clean, TypeOK, CleanupAgentResources, Shape, HeldExists, ItemAt
  <2>2. agent' \in [Runs -> {"NONE", "ALIVE", "DONE", "BROKEN", "KILLED"}]
    BY <1>0, <1>3 DEF Clean, TypeOK, CleanupAgentResources
  <2>3. lease' \in [Runs -> {"NONE", "ACTIVE", "RELEASED", "ABANDONED"}]
    BY <1>0, <1>3 DEF Clean, TypeOK, CleanupAgentResources
  <2> QED
    BY <1>0, <1>3, <2>1, <2>2, <2>3 DEF Clean, TypeOK, CleanupAgentResources
<1>4. CASE SettleItem(r)
  <2>1. item' \in [Runs -> ItemRecord]
    BY <1>0, <1>4, ItemMoves
       DEF SettleItem, TypeOK, Settle, RecoverLost, CompleteFinalization, NoItem, Shape,
           HeldExists, ItemAt
  <2>2. status' \in [Runs -> Active \cup Terminal \cup {"ABSENT"}]
    BY <1>0, <1>4
       DEF SettleItem, TypeOK, Settle, RecoverLost, CompleteFinalization, NoItem, Shape,
           ResultFits
  <2> QED
    BY <1>0, <1>4, <2>1, <2>2
       DEF SettleItem, TypeOK, Settle, RecoverLost, CompleteFinalization, NoItem
<1>5. CASE Monitor(r)
  <2>1. item' \in [Runs -> ItemRecord]
    BY <1>0, <1>5, ItemMoves DEF Monitor, TypeOK, NoItem, Shape, HeldExists, ItemAt
  <2> QED
    BY <1>0, <1>5, <2>1 DEF Monitor, TypeOK, NoItem
<1> QED
  BY <1>1, <1>2, <1>3, <1>4, <1>5 DEF Recovery

\* So does the recovery, with what it read of the run before.
LEMMA RecoveryKeeps ==
    ASSUME NEW r \in Runs, IInv,
           Recovery(r)
    PROVE  Keeps(r)
<1> USE DEF row, process, serving, Goes, At, Alive, IsActive, Finish, Outcomes, Active, Terminal,
            TypeOK, RunnerRecord, RunnerAt, ItemRecord, ItemAt, Only, Keeps,
            Shape, StatusFits, AgentFits, ResultFits, HeldExists, Requested
<1>0. Shape(r) /\ TypeOK /\ TypeOK'
  BY RecoveryTypes DEF IInv
<1>1. CASE Load(r)
  BY <1>0, <1>1 DEF Load
<1>2. CASE Probe(r)
  BY <1>0, <1>2 DEF Probe
<1>3. CASE Clean(r)
  BY <1>0, <1>3 DEF Clean, CleanupAgentResources
<1>4. CASE SettleItem(r)
  BY <1>0, <1>4 DEF SettleItem, Settle, RecoverLost, CompleteFinalization, NoItem
<1>5. CASE Monitor(r)
  BY <1>0, <1>5 DEF Monitor, NoItem
<1> QED
  BY <1>1, <1>2, <1>3, <1>4, <1>5 DEF Recovery

-----------------------------------------------------------------------------
(* The theorems.                                                           *)

\* Initially no run exists.
LEMMA InitIInv == Init => IInv
BY ExecutionAssumption
   DEF Init, IInv, TypeOK, Shape, StatusFits, AgentFits, ResultFits, HeldExists, Requested,
       Outcomes, Active, Terminal, RunnerAt, RunnerRecord, ItemAt, ItemRecord, NoItem

\* The death of the daemon forgets what its goroutines held; the list of the
\* recovery names rows that exist.
LEMMA DaemonKeeps ==
    ASSUME IInv, CrashDaemon \/ ListRecoveryRuns \/ Serve
    PROVE  IInv'
<1> USE DEF IInv, row, process, Shape, StatusFits, AgentFits, ResultFits, HeldExists, Requested
<1>1. CASE CrashDaemon
  <2>1. item' \in [Runs -> ItemRecord] /\ \A r \in Runs : item'[r].at = "NONE"
    BY <1>1 DEF CrashDaemon, NoItem, ItemRecord, ItemAt
  <2>2. TypeOK'
    BY <1>1, <2>1, ExecutionAssumption DEF CrashDaemon, TypeOK
  <2> QED
    BY <1>1, <2>1, <2>2, ExecutionAssumption DEF CrashDaemon
<1>2. CASE ListRecoveryRuns
  <2>1. /\ item' \in [Runs -> ItemRecord]
        /\ \A r \in Runs : item'[r].at # "NONE" => IsActive(r)
    <3> DEFINE Listed(r) == [NoItem EXCEPT !.at = "LISTED", !.runnerPid = r \in runnerPid,
                                           !.agentPid = r \in agentPid]
    <3>1. ASSUME NEW r \in Runs
          PROVE  Listed(r) \in ItemRecord
      <4>1. ASSUME NEW p \in BOOLEAN, NEW a \in BOOLEAN
            PROVE  [NoItem EXCEPT !.at = "LISTED", !.runnerPid = p, !.agentPid = a] \in ItemRecord
        BY DEF NoItem, ItemRecord, ItemAt
      <4>2. (r \in runnerPid) \in BOOLEAN /\ (r \in agentPid) \in BOOLEAN
        OBVIOUS
      <4> QED
        BY <4>1, <4>2, Zenon
    <3>2. NoItem \in ItemRecord /\ NoItem.at = "NONE"
      BY DEF NoItem, ItemRecord, ItemAt
    <3>3. item' = [r \in Runs |-> IF IsActive(r) THEN Listed(r) ELSE NoItem]
      BY <1>2 DEF ListRecoveryRuns
    <3> HIDE DEF Listed
    <3> QED
      BY <3>1, <3>2, <3>3
  <2>2. TypeOK'
    BY <1>2, <2>1 DEF ListRecoveryRuns, TypeOK
  <2> QED
    BY <1>2, <2>1, <2>2 DEF ListRecoveryRuns, IsActive, Active
<1>3. CASE Serve
  BY <1>3 DEF Serve, TypeOK
<1> QED
  BY <1>1, <1>2, <1>3

\* Every step keeps the invariant.
LEMMA NextIInv == IInv /\ [Next]_vars => IInv'
<1> SUFFICES ASSUME IInv, [Next]_vars
             PROVE  IInv'
  OBVIOUS
<1>1. ASSUME NEW r \in Runs, Keeps(r)
      PROVE  IInv'
  BY <1>1, OthersKeepShape DEF Keeps
<1>2. CASE UNCHANGED vars
  BY <1>2 DEF vars, row, process, serving, IInv, TypeOK, Shape, StatusFits, AgentFits,
              ResultFits, HeldExists, Requested
<1> QED
  BY <1>1, <1>2, SchedulerKeeps, RunnerKeeps, WaitKeeps, OthersKeep, RecoveryKeeps, DaemonKeeps
     DEF Next

\* The inductive invariant holds in every reachable state.
THEOREM ExecutionInvariance == Spec => []IInv
BY InitIInv, NextIInv, PTL DEF Spec

\* Whichever of runner, agent, daemon and recovery dies where it may: a run whose
\* outcome is frozen or written has no agent at work, and a run ends CANCELLED
\* only when a human or a signal asked for it.
THEOREM RunsEndAsPromised == Spec => []RunInvariant
<1>1. IInv => RunInvariant
  BY
     DEF IInv, RunInvariant, EndedRunHasNoAgent, CancelledByRequest, Shape, AgentFits,
         ResultFits,
         Requested
<1> QED
  BY <1>1, ExecutionInvariance, PTL

-----------------------------------------------------------------------------
(* The rows of runs implement RunLife.                                     *)

\* What a step may do to the row of one run.
LifeStep(r) == Life!Advance(r) \/ Life!Freeze(r) \/ Life!Complete(r) \/ Life!GiveUp(r)
                 \/ UNCHANGED <<status, intent>>

\* A run is given up only while it is active.
LEMMA FinishIsGiveUp ==
    ASSUME TypeOK, NEW r \in Runs, NEW s \in {"FAILED", "LOST"}, Finish(r, s), UNCHANGED intent
    PROVE  LifeStep(r)
<1>1. CASE status[r] \in Active
  BY <1>1 DEF Finish, LifeStep, Life!GiveUp, Life!Move, Life!Active, Active
<1>2. CASE status[r] \notin Active
  BY <1>2 DEF Finish, LifeStep, TypeOK
<1> QED
  BY <1>1, <1>2

\* A completion replays the intent once.
LEMMA CompletionIsComplete ==
    ASSUME TypeOK, NEW r \in Runs, CompleteFinalization(r), UNCHANGED intent
    PROVE  LifeStep(r)
<1>1. CASE status[r] = "FINALIZING"
  BY <1>1 DEF CompleteFinalization, LifeStep, Life!Complete, Life!Move
<1>2. CASE status[r] # "FINALIZING"
  BY <1>2 DEF CompleteFinalization, LifeStep, TypeOK
<1> QED
  BY <1>1, <1>2

\* Every step about a run is a step of its life or none.
LEMMA RunIsLife ==
    ASSUME IInv, NEW r \in Runs,
           \/ Claim(r) \/ Launch(r) \/ AwaitEnd(r)
           \/ RunnerStep(r) \/ Heartbeat(r) \/ HeartbeatFails(r) \/ OpenResourceLease(r)
           \/ EndOfWait(r)
           \/ CrashRunner(r) \/ AgentExits(r) \/ RequestCancel(r) \/ Recovery(r)
    PROVE  LifeStep(r)
<1>0. TypeOK
  BY DEF IInv
<1>1. CASE Claim(r) \/ Start(r) \/ MarkRunning(r)
  BY <1>1 DEF Claim, Start, MarkRunning, LifeStep, Life!Advance, Life!Move, vars
<1>2. CASE LaunchFails(r) \/ PrepareFails(r)
  BY <1>0, <1>2, FinishIsGiveUp DEF LaunchFails, PrepareFails
<1>3. CASE Reconcile(r) \/ SettleItem(r)
  BY <1>0, <1>3, FinishIsGiveUp, CompletionIsComplete
     DEF Reconcile, SettleItem, Settle, RecoverLost
<1>4. CASE BeginFinalization(r)
  <2>1. CASE At(r, "REPORT") /\ status[r] = "RUNNING"
    <3>1. runner[r].result \in Outcomes
      BY <2>1 DEF IInv, Shape, ResultFits, At
    <3>2. Reported(runner[r].result) \subseteq Outcomes
      BY <3>1 DEF Reported, Outcomes
    <3> QED
      BY <1>4, <2>1, <3>2 DEF BeginFinalization, LifeStep, Life!Freeze, Life!Move
  <2> QED
    BY <1>4, <2>1 DEF BeginFinalization, LifeStep
<1>5. CASE FinalizeWorkspace(r)
  BY <1>0, <1>5, FinishIsGiveUp DEF FinalizeWorkspace, LifeStep
<1>6. CASE Complete(r)
  BY <1>0, <1>6, CompletionIsComplete DEF Complete
<1>7. CASE Spawn(r) \/ SendToken(r) \/ RunnerExits(r) \/ OpenResourceLease(r) \/ AgentExits(r)
             \/ RequestCancel(r) \/ CrashRunner(r) \/ Heartbeat(r) \/ HeartbeatFails(r)
  BY <1>7 DEF Spawn, SendToken, RunnerExits, OpenResourceLease, AgentExits, RequestCancel,
              CrashRunner, Heartbeat, HeartbeatFails, row, LifeStep
<1>8. CASE PipeCloses(r) \/ CheckCancel(r) \/ SpawnFails(r) \/ Attach(r) \/ StopAgent(r)
             \/ ReleaseAgent(r)
  BY <1>8
     DEF PipeCloses, CheckCancel, SpawnFails, Attach, StopAgent, ReleaseAgent, row, LifeStep
<1>9. CASE EndOfWait(r)
  BY <1>9 DEF EndOfWait, AgentDone, TimesOut, CancelCheckFails, Cancelled, Unleased, Terminate,
              Stops, row, LifeStep
<1>10. CASE Load(r) \/ Probe(r) \/ Clean(r) \/ Monitor(r)
  BY <1>10 DEF Load, Probe, Clean, Monitor, row, LifeStep
<1> QED
  BY <1>1, <1>2, <1>3, <1>4, <1>5, <1>6, <1>7, <1>8, <1>9, <1>10
     DEF Launch, AwaitEnd, RunnerStep, Recovery

\* Runner, daemon and recovery together keep what RunLife promises of a run: its
\* phases go forward, an outcome is the frozen one or a failure, and an ended run
\* stays as it ended.
THEOREM RunLifeIsKept == Spec => KeepsRunLife
<1>1. Init => Life!Init
  BY DEF Init, Life!Init
<1>2. IInv /\ [Next]_vars => [Life!Next]_(Life!vars)
  <2> SUFFICES ASSUME IInv, [Next]_vars
               PROVE  [Life!Next]_(Life!vars)
    OBVIOUS
  <2>1. ASSUME NEW r \in Runs, LifeStep(r)
        PROVE  [Life!Next]_(Life!vars)
    BY <2>1 DEF LifeStep, Life!Next, Life!vars
  <2>2. CASE CrashDaemon \/ ListRecoveryRuns \/ Serve \/ UNCHANGED vars
    BY <2>2 DEF CrashDaemon, ListRecoveryRuns, Serve, vars, row, Life!vars
  <2> QED
    BY <2>1, <2>2, RunIsLife DEF Next
<1> QED
  BY <1>1, <1>2, ExecutionInvariance, PTL DEF Spec, KeepsRunLife, Life!Spec
=============================================================================
