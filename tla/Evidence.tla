------------------------------ MODULE Evidence ------------------------------
(***************************************************************************)
(* The test cases, test results and estimates of one task                  *)
(* (src/internal/storage/quality.go), the structured result with which a   *)
(* run adds to them (src/internal/runner/runner.go), and the review that   *)
(* accepts the task on their strength.                                     *)
(*                                                                         *)
(* A result is kept for ever and only the latest of a test case is read,   *)
(* so only the latest is modelled.  Results are ordered by a time written  *)
(* as text without its trailing zeros: two results of one report, written  *)
(* within microseconds, may be read in either order.                       *)
(***************************************************************************)
EXTENDS TaskStates, Naturals, Sequences, FiniteSets, SequencesExt

CONSTANTS
    Cases,          \* ids of the test cases of the task
    Foreign,        \* the id of a test case of another task
    Commands,       \* commands that agents run
    Unrun,          \* a command that no agent runs, or no command
    Points,         \* points of an estimate
    Outcomes,       \* conclusions of tests that are reported
    LogLines,       \* executions that half of the bounded log holds
    MaxItems,       \* bound: parts of a report
    MaxRuns,        \* bound: runs
    MaxSyncs,       \* bound: synchronizations with the target branch
    MaxEstimates    \* bound: estimates

EvidenceAssumption ==
    /\ Foreign \notin Cases /\ Unrun \notin Commands
    /\ Points \subseteq Nat \ {0}
    /\ Outcomes \subseteq {"PASSED", "FAILED", "BLOCKED"}
    /\ {LogLines, MaxItems, MaxRuns, MaxSyncs, MaxEstimates} \subseteq Nat

VARIABLES
    status,         \* of the task
    accepting,      \* a request to accept has passed its first check, and the
                    \* version of the task it names is still the current one
    syncs,          \* synchronizations that have ended
    case,           \* tables task_test_cases and task_test_results
    estimates,      \* table task_estimates, by revision
    run,            \* the run at work, and what its runner holds
    runs,           \* number of runs so far
    ended           \* how the last run ended

vars == <<status, accepting, syncs, case, estimates, run, runs, ended>>

ByHand == 0          \* as the source of a test case or result: no run
NoExecution == <<Unrun, 1>>
NoResult == [outcome |-> "NONE", kind |-> "NONE", command |-> Unrun, exit |-> 1,
             source |-> ByHand, syncs |-> 0]
NoCase == [known |-> FALSE, required |-> FALSE, source |-> ByHand, latest |-> NoResult]
NoRun == [at |-> "NONE", trusted |-> FALSE, ran |-> {}, head |-> <<>>, tail |-> <<>>,
          seen |-> {}, report |-> <<>>, open |-> Foreign]

Executions == Commands \X {0, 1}
Claims == Commands \cup {Unrun}
Estimates == [points : Points, remaining : 0..2]
\* A new test case may come with a first result, a result always has one.
Items ==
    [kind : {"NEW"}, required : BOOLEAN, outcome : Outcomes, command : Claims]
      \cup [kind : {"NEW"}, required : BOOLEAN, outcome : {"NONE"}, command : {Unrun}]
      \cup [kind : {"RESULT"}, case : Cases \cup {Foreign}, outcome : Outcomes, command : Claims]
      \cup [kind : {"ESTIMATE"}, estimate : Estimates]

\* Mutant: more may remain than was estimated.
EstimateIsValid_Unbounded(e) == e.points \in Points

EstimateIsValid(e) == e.remaining <= e.points

Result == [outcome : Outcomes \cup {"NONE"}, kind : {"NONE", "HUMAN", "AGENT_REPORT", "COMMAND"},
           command : Claims, exit : {0, 1}, source : 0..MaxRuns, syncs : 0..MaxSyncs]
TestCase == [known : BOOLEAN, required : BOOLEAN, source : 0..MaxRuns, latest : Result]
RunState == [at : {"NONE", "WORKING", "COLLECT", "APPLY"}, trusted : BOOLEAN,
             ran : SUBSET Executions, head : Seq(Executions), tail : Seq(Executions),
             seen : SUBSET Executions, report : Seq(Items), open : Cases \cup {Foreign}]

TypeOK ==
    /\ status \in TaskStatus
    /\ accepting \in BOOLEAN
    /\ syncs \in 0..MaxSyncs
    /\ case \in [Cases -> TestCase]
    /\ \A k \in Cases :
         /\ case[k].source <= runs /\ case[k].latest.source <= runs
         /\ case[k].latest.syncs <= syncs
    /\ estimates \in Seq(Estimates)
    /\ \A i \in DOMAIN estimates : estimates[i].remaining <= estimates[i].points
    /\ run \in RunState
    /\ runs \in 0..MaxRuns
    /\ ended \in {"NONE", "FAILED", "REJECTED", "LOST", "APPLIED"}

Init ==
    /\ status = "READY" /\ accepting = FALSE /\ syncs = 0
    /\ case = [k \in Cases |-> NoCase] /\ estimates = <<>>
    /\ run = NoRun /\ runs = 0 /\ ended = "NONE"

\* Every change of the task moves its version, which a request to accept has read.
Move(command) ==
    /\ status \in Sources(command)
    /\ status' = Target(command)
    /\ accepting' = FALSE

-----------------------------------------------------------------------------
(* The three places that judge the latest result of a test case.           *)

Known == {k \in Cases : case[k].known}
Required == {k \in Known : case[k].required}

\* Written before the end of the last synchronization.
Stale(k) == case[k].latest.outcome # "NONE" /\ case[k].latest.syncs < syncs

\* Mutant: a result from before a synchronization still counts.
Missing_Stale ==
    {k \in Required : LET r == case[k].latest IN
        \/ r.outcome # "PASSED"
        \/ r.kind # "HUMAN" /\ (r.kind # "COMMAND" \/ r.exit # 0)}

\* The gate of acceptance.
Missing ==
    {k \in Required : LET r == case[k].latest IN
        \/ r.outcome # "PASSED"
        \/ r.kind # "HUMAN" /\ (r.kind # "COMMAND" \/ r.exit # 0)
        \/ r.syncs < syncs}

\* Mutant: a report of an agent counts as verified.
VerifiedPassed_Reported ==
    {k \in Required : LET r == case[k].latest IN r.outcome = "PASSED" /\ ~Stale(k)}

\* The count that the progress of the project shows.
VerifiedPassed ==
    {k \in Required : LET r == case[k].latest IN
        /\ r.outcome = "PASSED"
        /\ r.kind = "HUMAN" \/ (r.kind = "COMMAND" /\ r.exit = 0)
        /\ ~Stale(k)}

-----------------------------------------------------------------------------
(* People.                                                                 *)

CreateTestCase(k, required, source) ==
    case' = [case EXCEPT ![k] = [known |-> TRUE, required |-> required, source |-> source,
                                 latest |-> NoResult]]

\* A result written now, with the execution that is its evidence, if any.
NewResult(outcome, kind, source, e) ==
    [outcome |-> outcome, kind |-> kind, command |-> e[1], exit |-> e[2], source |-> source,
     syncs |-> syncs]

AddTestResult(k, result) == case' = [case EXCEPT ![k].latest = result]

CreateEstimate(e) ==
    /\ Len(estimates) < MaxEstimates
    /\ estimates' = Append(estimates, e)

HumanCreatesTestCase(k, required) ==
    /\ k \notin Known
    /\ CreateTestCase(k, required, ByHand)
    /\ UNCHANGED <<status, accepting, syncs, estimates, run, runs, ended>>

\* In every state of the task, also after its acceptance.
HumanAddsResult(k, outcome) ==
    /\ k \in Known
    /\ AddTestResult(k, NewResult(outcome, "HUMAN", ByHand, NoExecution))
    /\ UNCHANGED <<status, accepting, syncs, estimates, run, runs, ended>>

HumanEstimates(e) ==
    /\ EstimateIsValid(e)
    /\ CreateEstimate(e)
    /\ UNCHANGED <<status, accepting, syncs, case, run, runs, ended>>

Judge(command) ==
    /\ command \in {"REJECT", "RETRY", "REQUEST_CHANGES"}
    /\ Move(command)
    /\ UNCHANGED <<syncs, case, estimates, run, runs, ended>>

\* The first check of a request to accept, before the workspace is committed.
ReviewTask ==
    /\ status \in Sources("ACCEPT") /\ ~accepting
    /\ Missing = {}
    /\ accepting' = TRUE
    /\ UNCHANGED <<status, syncs, case, estimates, run, runs, ended>>

\* Mutant: what the first check saw is trusted.
ApplyReview_Trusts ==
    /\ accepting
    /\ Move("ACCEPT")
    /\ UNCHANGED <<syncs, case, estimates, run, runs, ended>>

\* The transaction of the review checks again.
ApplyReview ==
    /\ accepting
    /\ IF Missing = {} THEN Move("ACCEPT") ELSE accepting' = FALSE /\ UNCHANGED status
    /\ UNCHANGED <<syncs, case, estimates, run, runs, ended>>

\* SYNCED or CONFLICT: the results of an accepted task are of the past.
CompleteSync ==
    /\ syncs < MaxSyncs
    /\ Move("SYNC_TARGET")
    /\ syncs' = syncs + 1
    /\ UNCHANGED <<case, estimates, run, runs, ended>>

-----------------------------------------------------------------------------
(* The run and its runner.                                                 *)

StartRun ==
    /\ runs < MaxRuns
    /\ Move("CLAIM_RUN")
    /\ \E trusted \in BOOLEAN : run' = [NoRun EXCEPT !.at = "WORKING", !.trusted = trusted]
    /\ runs' = runs + 1 /\ ended' = "NONE"
    /\ UNCHANGED <<syncs, case, estimates>>

\* The output of the agent is kept in a log that loses its middle.
LogWrite(r, e) ==
    IF Len(r.head) < LogLines
    THEN [r EXCEPT !.head = Append(@, e)]
    ELSE [r EXCEPT !.tail = LET t == Append(@, e)
                            IN  SubSeq(t, 1 + (IF Len(t) > LogLines THEN 1 ELSE 0), Len(t))]

\* A command of the agent completes, and an event says so.
Execute(e) ==
    /\ run.at = "WORKING"
    /\ run' = LogWrite([run EXCEPT !.ran = @ \cup {e}], e)
    /\ UNCHANGED <<status, accepting, syncs, case, estimates, runs, ended>>

\* Mutant: what any adapter prints is taken for events.
Observed_AnyAdapter(r) == ToSet(r.head \o r.tail)

\* Only the events of the Codex adapters are parsed.
Observed(r) == IF r.trusted THEN ToSet(r.head \o r.tail) ELSE {}

\* Mutant: the command counts, not its exit code.
Matches_AnyExit(command, outcome) ==
    {e \in run.seen : e[1] = command /\ outcome \in {"PASSED", "FAILED"}}

\* Any completed execution of the command, not the last one.
Matches(command, outcome) ==
    {e \in run.seen : /\ e[1] = command
                      /\ \/ outcome = "PASSED" /\ e[2] = 0
                         \/ outcome = "FAILED" /\ e[2] # 0}

\* The result of a claim: evidence of a command, or the word of the agent.
ClaimedResults(command, outcome) ==
    IF Matches(command, outcome) = {}
      THEN {NewResult(outcome, "AGENT_REPORT", runs, NoExecution)}
      ELSE {NewResult(outcome, "COMMAND", runs, e) : e \in Matches(command, outcome)}

\* What an agent may report: new test cases are written before results, and only
\* ids it was told are named.
Reports ==
    {report \in UNION {[1..n -> Items] : n \in 0..MaxItems} :
        /\ \A i, j \in DOMAIN report :
             i < j => ~(report[i].kind \in {"NEW", "RESULT"} /\ report[j].kind = "ESTIMATE")
                      /\ ~(report[i].kind = "RESULT" /\ report[j].kind = "NEW")
        /\ Cardinality({i \in DOMAIN report : report[i].kind = "ESTIMATE"}) <= 1}

\* The agent is gone.  A report is read only after exit code 0.
AgentExits ==
    /\ run.at = "WORKING"
    /\ \E report \in Reports :
         /\ \A i \in DOMAIN report :
              report[i].kind = "RESULT" => report[i].case \in Known \cup {Foreign}
         /\ run' = [run EXCEPT !.at = "COLLECT", !.report = report, !.seen = Observed(run),
                               !.head = <<>>, !.tail = <<>>]
    /\ UNCHANGED <<status, accepting, syncs, case, estimates, runs, ended>>

\* The run ends, and with it what its runner held.
End(how, command) ==
    /\ Move(command)
    /\ run' = NoRun /\ ended' = how

AgentFails ==
    /\ run.at = "WORKING"
    /\ \E command \in {"RUN_FAILED", "CANCEL_RUN", "NEEDS_INPUT"} : End("FAILED", command)
    /\ UNCHANGED <<syncs, case, estimates, runs>>

\* The whole report is validated before any part of it is written.
ReportIsValid(report) ==
    \A i \in DOMAIN report :
      /\ report[i].kind = "ESTIMATE" => EstimateIsValid(report[i].estimate)
      /\ report[i].kind = "RESULT" => report[i].case \in Known

CollectResult ==
    /\ run.at = "COLLECT"
    /\ IF ReportIsValid(run.report)
       THEN run' = [run EXCEPT !.at = "APPLY"] /\ UNCHANGED <<status, accepting, ended>>
       ELSE End("REJECTED", "RUN_FAILED")
    /\ UNCHANGED <<syncs, case, estimates, runs>>

Part == Head(run.report)
Written == [run EXCEPT !.report = Tail(@), !.open = Foreign]

ApplyEstimate ==
    /\ run.at = "APPLY" /\ run.report # <<>> /\ Part.kind = "ESTIMATE"
    /\ CreateEstimate(Part.estimate)
    /\ run' = Written
    /\ UNCHANGED <<status, accepting, syncs, case, runs, ended>>

\* A test case and its first result are written in two transactions.
ApplyNewCase(k) ==
    /\ run.at = "APPLY" /\ run.report # <<>> /\ Part.kind = "NEW" /\ run.open = Foreign
    /\ k \notin Known
    /\ CreateTestCase(k, Part.required, runs)
    /\ run' = IF Part.outcome = "NONE" THEN Written ELSE [run EXCEPT !.open = k]
    /\ UNCHANGED <<status, accepting, syncs, estimates, runs, ended>>

\* A claim about a test case of the task.  Between two results of one report
\* either may be read as the latest.
ApplyResult(k) ==
    /\ run.at = "APPLY" /\ run.report # <<>>
    /\ \/ Part.kind = "NEW" /\ k = run.open
       \/ Part.kind = "RESULT" /\ k = Part.case
    /\ \/ \E r \in ClaimedResults(Part.command, Part.outcome) : AddTestResult(k, r)
       \/ case[k].latest.source = runs /\ UNCHANGED case
    /\ run' = Written
    /\ UNCHANGED <<status, accepting, syncs, estimates, runs, ended>>

\* Mutant: a part is validated when it is written.
WriteFails_Validates ==
    /\ run.at = "APPLY" /\ run.report # <<>>
    /\ End("REJECTED", "RUN_FAILED")
    /\ UNCHANGED <<syncs, case, estimates, runs>>

\* A part cannot be written: the run fails, what was written stays.
WriteFails ==
    /\ run.at = "APPLY" /\ run.report # <<>>
    /\ End("FAILED", "RUN_FAILED")
    /\ UNCHANGED <<syncs, case, estimates, runs>>

\* The runner dies and its run is recovered.
RunnerDies ==
    /\ run.at # "NONE"
    /\ End("LOST", "RUN_FAILED")
    /\ UNCHANGED <<syncs, case, estimates, runs>>

\* The closure of the report decides whether the goal was reached.
Finish ==
    /\ run.at = "APPLY" /\ run.report = <<>>
    /\ \E command \in {"RUN_SUCCEEDED", "RUN_FAILED"} : End("APPLIED", command)
    /\ UNCHANGED <<syncs, case, estimates, runs>>

HumanStep ==
    \/ \E k \in Cases, b \in BOOLEAN : HumanCreatesTestCase(k, b)
    \/ \E k \in Cases, o \in Outcomes : HumanAddsResult(k, o)
    \/ \E e \in Estimates : HumanEstimates(e)
    \/ \E c \in {"REJECT", "RETRY", "REQUEST_CHANGES"} : Judge(c)
    \/ ReviewTask \/ ApplyReview \/ CompleteSync

RunStep ==
    \/ StartRun \/ AgentFails \/ AgentExits \/ CollectResult \/ ApplyEstimate
    \/ WriteFails \/ RunnerDies \/ Finish
    \/ \E e \in Executions : Execute(e)
    \/ \E k \in Cases : ApplyNewCase(k) \/ ApplyResult(k)

Next == HumanStep \/ RunStep
Spec == Init /\ [][Next]_vars

-----------------------------------------------------------------------------
(* Properties.                                                             *)

\* The count of the progress and the gate of acceptance are two queries that
\* judge results alike (storage/quality.go readTestProgress,
\* ensureRequiredTestsPassed).
ProgressAgreesWithReview == (Missing = {}) <=> (VerifiedPassed = Required)

\* Evidence of a command is written only for a command that the run at work did
\* complete, with the exit code it had, and was reported by an adapter whose
\* events are trusted (README.md:62).
CommandEvidenceWasObserved ==
    [][\A k \in Cases :
         LET r == case'[k].latest IN
         (r # case[k].latest /\ r.kind = "COMMAND") =>
            /\ run.trusted
            /\ <<r.command, r.exit>> \in run.ran
            /\ r.exit = 0 <=> r.outcome = "PASSED"]_vars

\* When a task becomes accepted, the latest result of every required test case is
\* a pass, not on the word of an agent and not from before a synchronization,
\* whatever was recorded while the workspace was being committed.
AcceptanceIsVerified ==
    [][(status # "ACCEPTED" /\ status' = "ACCEPTED") =>
         \A k \in Cases : (case'[k].known /\ case'[k].required) =>
            /\ case'[k].latest.outcome = "PASSED"
            /\ case'[k].latest.kind \in {"HUMAN", "COMMAND"}
            /\ case'[k].latest.syncs = syncs']_vars

\* A report that is refused has written nothing, and results are written only
\* under test cases of the task.
RejectedReportWritesNothing ==
    /\ ended = "REJECTED" =>
         \A k \in Cases : case[k].source # runs /\ case[k].latest.source # runs
    /\ \A k \in Cases : case[k].latest.outcome # "NONE" => case[k].known

\* Results are read alike wherever they count, and belong to a report that was
\* taken as a whole.
EvidenceInvariant == TypeOK /\ ProgressAgreesWithReview /\ RejectedReportWritesNothing
=============================================================================
