-------------------------- MODULE ExperienceLedger --------------------------
(***************************************************************************)
(* The experiences of a project: records that people verify, candidates    *)
(* that runs propose, the recall that puts summaries of active records     *)
(* into the prompt of a run, and the outcomes that people report of them   *)
(* (src/internal/storage/experience.go, src/internal/domain/experience).   *)
(*                                                                         *)
(* Which of the records in scope are relevant, and how they are ranked, is *)
(* left open: a pinned record is always relevant, and Limit of the         *)
(* relevant ones at most are recalled.                                     *)
(***************************************************************************)
EXTENDS Naturals, FiniteSets

CONSTANTS
    Experiences,    \* ids of the records there may be
    Subjects,       \* the topics and tasks that experiences come from
    Runs,
    Nothing,        \* no record, no run
    Limit,          \* records recalled at most (5 in the code)
    MaxOutcomes     \* bound on the reports of people

ASSUME LedgerAssumption ==
    /\ Limit \in Nat /\ MaxOutcomes \in Nat
    /\ Nothing \notin Experiences \cup Runs /\ IsFiniteSet(Runs)

VARIABLES
    task,           \* the task of each run, fixed
    linked,         \* topics linked to the task of each run, as subjects
    record,         \* table experience_records
    recall,         \* table experience_recalls: run, record -> outcome
    run,            \* what the runner of each run found, and its prompt
    outcomes        \* number of reports so far

vars   == <<task, linked, record, recall, run, outcomes>>
fixed  == <<task, linked>>

Statuses == {"ABSENT", "CANDIDATE", "ACTIVE", "CHALLENGED", "SUPERSEDED"}
NoRecord == [status |-> "ABSENT", subject |-> Nothing, wide |-> FALSE, pinned |-> FALSE,
             source |-> Nothing, supersedes |-> Nothing, verified |-> 0, helped |-> 0, harmed |-> 0]

ExperienceRecord ==
    [status : Statuses, subject : Subjects \cup {Nothing}, wide : BOOLEAN, pinned : BOOLEAN,
     source : Runs \cup {Nothing}, supersedes : Experiences \cup {Nothing}, verified : 0..1,
     helped : Nat, harmed : Nat]
Outcomes == {"NONE", "PENDING", "HELPFUL", "HARMFUL", "IGNORED"}
Runner == [at : {"START", "READ", "PROMPTED", "ENDED"},
           found : SUBSET Experiences, prompt : SUBSET Experiences]

TypeOK ==
    /\ task \in [Runs -> Subjects] /\ linked \in [Runs -> SUBSET Subjects]
    /\ record \in [Experiences -> ExperienceRecord]
    /\ recall \in [Runs -> [Experiences -> Outcomes]]
    /\ run \in [Runs -> Runner]
    /\ outcomes \in 0..MaxOutcomes

Init ==
    /\ task \in [Runs -> Subjects]
    /\ linked \in [Runs -> SUBSET Subjects]
    /\ \A r, q \in Runs : task[r] = task[q] => linked[r] = linked[q]
    /\ \A r \in Runs : \A s \in linked[r] : \A q \in Runs : task[q] # s
    /\ record = [e \in Experiences |-> NoRecord]
    /\ recall = [r \in Runs |-> [e \in Experiences |-> "NONE"]]
    /\ run = [r \in Runs |-> [at |-> "START", found |-> {}, prompt |-> {}]]
    /\ outcomes = 0

-----------------------------------------------------------------------------
(* People.                                                                 *)

\* Mutant: the old record may be of another subject.
Supersedable_AnySubject(old, s) == record[old].status # "ABSENT"

\* Any record of the same subject, whatever its status.
Supersedable(old, s) == record[old].status # "ABSENT" /\ record[old].subject = s

\* An active record, and in the same transaction the end of the one it revises.
CreateVerified(e, s, old) ==
    /\ record[e].status = "ABSENT"
    /\ old # Nothing => Supersedable(old, s)
    /\ \E w, p \in BOOLEAN :
         record' = [x \in Experiences |->
             CASE x = e   -> [NoRecord EXCEPT !.status = "ACTIVE", !.subject = s, !.wide = w,
                                              !.pinned = p, !.supersedes = old, !.verified = 1]
               [] x = old -> [record[x] EXCEPT !.status = "SUPERSEDED"]
               [] OTHER   -> record[x]]
    /\ UNCHANGED <<fixed, recall, run, outcomes>>

\* Mutant: the status is not looked at.
ConfirmCandidate_Any(e) ==
    /\ record[e].status # "ABSENT"
    /\ record' = [record EXCEPT ![e].status = "ACTIVE", ![e].verified = 1]
    /\ UNCHANGED <<fixed, recall, run, outcomes>>

ConfirmCandidate(e) ==
    /\ record[e].status = "CANDIDATE"
    /\ record' = [record EXCEPT ![e].status = "ACTIVE", ![e].verified = @ + 1]
    /\ UNCHANGED <<fixed, recall, run, outcomes>>

\* Mutant: a status the table does not know.
Challenge_Rejects(e) ==
    /\ record[e].status \in {"ACTIVE", "CANDIDATE"}
    /\ record' = [record EXCEPT ![e].status = "REJECTED"]
    /\ UNCHANGED <<fixed, recall, run, outcomes>>

Challenge(e) ==
    /\ record[e].status \in {"ACTIVE", "CANDIDATE"}
    /\ record' = [record EXCEPT ![e].status = "CHALLENGED"]
    /\ UNCHANGED <<fixed, recall, run, outcomes>>

\* Whatever the status.
SetPinned(e) ==
    /\ record[e].status # "ABSENT"
    /\ record' = [record EXCEPT ![e].pinned = ~@]
    /\ UNCHANGED <<fixed, recall, run, outcomes>>

Column(outcome) ==
    CASE outcome = "HELPFUL" -> <<1, 0>> [] outcome = "HARMFUL" -> <<0, 1>> [] OTHER -> <<0, 0>>

\* Mutant: the outcome reported before stays in the counters.
Adjusted_Adds(c, old, new) ==
    [c EXCEPT !.helped = @ + Column(new)[1], !.harmed = @ + Column(new)[2]]

Adjusted(c, old, new) ==
    [c EXCEPT !.helped = @ - Column(old)[1] + Column(new)[1],
              !.harmed = @ - Column(old)[2] + Column(new)[2]]

\* The report for a recall may be changed, and is counted once.
RecordOutcome(r, e, o) ==
    /\ recall[r][e] \notin {"NONE", o} /\ outcomes < MaxOutcomes
    /\ outcomes' = outcomes + 1
    /\ recall' = [recall EXCEPT ![r][e] = o]
    /\ record' = [record EXCEPT ![e] = Adjusted(@, recall[r][e], o)]
    /\ UNCHANGED <<fixed, run>>

-----------------------------------------------------------------------------
(* Runs.                                                                   *)

\* Mutant: whatever was not superseded is a candidate for recall.
RecallCandidates_NotSuperseded(r) ==
    {e \in Experiences : /\ record[e].status \notin {"ABSENT", "SUPERSEDED"}
                         /\ record[e].wide \/ record[e].subject \in {task[r]} \cup linked[r]}

RecallCandidates(r) ==
    {e \in Experiences : /\ record[e].status = "ACTIVE"
                         /\ record[e].wide \/ record[e].subject \in {task[r]} \cup linked[r]}

\* The records in scope are read, scored and cut to Limit, outside any transaction.
Recall(r) ==
    /\ run[r].at = "START"
    /\ \E relevant \in SUBSET RecallCandidates(r) :
         \E found \in SUBSET relevant :
            /\ \A e \in RecallCandidates(r) : record[e].pinned => e \in relevant
            /\ Cardinality(found) = IF Cardinality(relevant) > Limit THEN Limit
                                    ELSE Cardinality(relevant)
            /\ run' = [run EXCEPT ![r].at = "READ", ![r].found = found]
    /\ UNCHANGED <<fixed, record, recall, outcomes>>

\* The rows of what was found, and the prompt, whatever became of the records.
PersistRecalls(r) ==
    /\ run[r].at = "READ"
    /\ recall' = [recall EXCEPT ![r] = [e \in Experiences |->
                    IF e \in run[r].found /\ @[e] = "NONE" THEN "PENDING" ELSE @[e]]]
    /\ run' = [run EXCEPT ![r].at = "PROMPTED", ![r].prompt = run[r].found]
    /\ UNCHANGED <<fixed, record, outcomes>>

\* Mutant: the unique index on run and content is missing.
CreateCandidate_Duplicates(r, e) ==
    /\ run[r].at = "PROMPTED"
    /\ \E w \in BOOLEAN :
         /\ record[e].status = "ABSENT"
         /\ record' = [record EXCEPT ![e] = [NoRecord EXCEPT !.status = "CANDIDATE", !.wide = w,
                                             !.subject = task[r], !.source = r]]
    /\ UNCHANGED <<fixed, recall, run, outcomes>>

\* What an implementation or revision run proposes; the same content (here: the
\* scope of it) is one record per run.
CreateCandidate(r, e) ==
    /\ run[r].at = "PROMPTED"
    /\ \E w \in BOOLEAN :
         /\ record[e].status = "ABSENT"
         /\ \A x \in Experiences : record[x].source = r => record[x].wide # w
         /\ record' = [record EXCEPT ![e] = [NoRecord EXCEPT !.status = "CANDIDATE", !.wide = w,
                                             !.subject = task[r], !.source = r]]
    /\ UNCHANGED <<fixed, recall, run, outcomes>>

\* The run ends, or its runner dies, anywhere.
EndRun(r) ==
    /\ run[r].at # "ENDED"
    /\ run' = [run EXCEPT ![r].at = "ENDED"]
    /\ UNCHANGED <<fixed, record, recall, outcomes>>

Next ==
    \/ \E e \in Experiences :
        \/ \E s \in Subjects, old \in Experiences \cup {Nothing} : CreateVerified(e, s, old)
        \/ ConfirmCandidate(e) \/ Challenge(e) \/ SetPinned(e)
    \/ \E r \in Runs :
        \/ Recall(r) \/ PersistRecalls(r) \/ EndRun(r)
        \/ \E e \in Experiences :
            \/ CreateCandidate(r, e)
            \/ \E o \in {"HELPFUL", "HARMFUL", "IGNORED"} : RecordOutcome(r, e, o)

Spec == Init /\ [][Next]_vars

-----------------------------------------------------------------------------
(* Properties.                                                             *)

\* What people reported is what the score is computed from: the counters of a
\* record are the numbers of runs it helped and harmed, however often a report
\* was changed, and no run counts twice.
CountersTellTheOutcomes ==
    \A e \in Experiences :
        /\ record[e].helped = Cardinality({r \in Runs : recall[r][e] = "HELPFUL"})
        /\ record[e].harmed = Cardinality({r \in Runs : recall[r][e] = "HARMFUL"})

\* No run is told what no person has verified: neither pinning nor the recall
\* of a candidate that is being decided on gets it into a prompt; and a prompt
\* holds nothing that is out of the scope of its task.
PromptIsVerified ==
    \A r \in Runs : \A e \in run[r].prompt :
        /\ record[e].verified >= 1
        /\ record[e].wide \/ record[e].subject \in {task[r]} \cup linked[r]

\* A record that was challenged or superseded is never recalled again.
RetiredStaysRetired ==
    [][\A e \in Experiences :
        record[e].status \in {"CHALLENGED", "SUPERSEDED"} => record'[e].status # "ACTIVE"]_record

\* A superseded record leads to an active one, or one that was, of its own subject.
SupersededHasSuccessor ==
    \A e \in Experiences : record[e].status = "SUPERSEDED" =>
        \E x \in Experiences : /\ record[x].supersedes = e
                               /\ record[x].subject = record[e].subject
                               /\ record[x].verified >= 1

\* A run that is applied in part and again proposes the same thing once.
OneCandidateEach ==
    \A x, y \in Experiences :
        (record[x].source = record[y].source /\ record[x].source # Nothing /\ x # y) =>
            record[x].wide # record[y].wide

\* What runs are told and what people reported of it is what the records say.
ExperienceInvariant ==
    /\ TypeOK
    /\ CountersTellTheOutcomes /\ PromptIsVerified
    /\ SupersededHasSuccessor /\ OneCandidateEach
=============================================================================
