---------------------------- MODULE Review_proofs -----------------------------
(***************************************************************************)
(* Proofs about what a reviewer decides on: about Planning, for every set  *)
(* of planning runs and every bound, and about Evidence, for every set of  *)
(* test cases and commands and every size of the log and of a report.      *)
(*                                                                         *)
(* The inductive invariant of a topic ties its tables together: the events *)
(* replay to the status of the row, the n-th submission among them is      *)
(* revision n, and no event that people wrote stands between the version a *)
(* revision was made for and its submission.  Of a page it says that the   *)
(* drafts it lists are those of the revision it names, and nothing of the  *)
(* topic version beside them: what keeps an outdated plan or verdict out   *)
(* is the comparison of versions in the step itself.                       *)
(*                                                                         *)
(* That of a task says what a runner holds: events of commands that did    *)
(* complete, parts of a report that was validated as a whole, and, before  *)
(* that, nothing in the tables that bears its number.                      *)
(***************************************************************************)
EXTENDS MCReview, FiniteSetTheorems, SequenceTheorems, WellFoundedInduction, TLAPS

\* f gives the status of the topic after each of the events e.
Replays(e, f) ==
    f = [n \in 0 .. Len(e) |-> IF n = 0 THEN "OPEN" ELSE StatusAfter(e[n], f[n - 1])]

\* The events replay, and to the status of the row.
EventsFit ==
    /\ Len(event) = topic.version
    /\ \E f : Replays(event, f)
    /\ \A f : Replays(event, f) => f[Len(event)] = topic.status

Submissions(e, v) == {u \in 1 .. v : e[u] = "SUBMIT_PLAN"}

\* Event v of e is the submission of revision n.
Submitted(e, n, v) == e[v] = "SUBMIT_PLAN" /\ Cardinality(Submissions(e, v)) = n

\* Between the version it was made for and its submission people wrote nothing.
HeardEverybody(e, from, v) ==
    \A u \in (from + 1) .. (v - 1) : e[u] \notin {"MESSAGE_ADDED", "PLANNING_ASKED"}

\* Revisions and submissions are in step.
SubmissionsFit ==
    /\ Cardinality(Submissions(event, Len(event))) = Len(revision)
    /\ \A n \in DOMAIN revision : \E v \in DOMAIN event : Submitted(event, n, v)
    /\ \A n \in DOMAIN revision, v \in DOMAIN event :
          revision[n].source # Human /\ Submitted(event, n, v) =>
              HeardEverybody(event, revision[n].version, v)

\* The plan is about the newest revision, and approved is what was reviewed.
PlanFits ==
    /\ plan.current = Len(revision)
    /\ plan.status # "NONE" => plan.current >= 1
    /\ plan.status # "APPROVED" => plan.approved = 0

\* A run has a result once its agent ended, and a plan has drafts.
RunsFit ==
    \A r \in Runs :
        /\ run[r].status \in {"ABSENT", "CLAIMED", "RUNNING"} => run[r].result = "NONE"
        /\ run[r].result = "PLAN" => run[r].drafts \in 1 .. MaxDrafts

\* The drafts on the page are those of the revision it names.
PageFits ==
    /\ page.revision <= Len(revision)
    /\ page.revision > 0 => page.drafts = revision[page.revision].drafts

IInv ==
    /\ TypeOK /\ EventsFit /\ SubmissionsFit /\ TopicFitsPlan /\ PlanFits
    /\ TasksAreTheApprovedDrafts /\ RepliesAreInTheThread /\ RunsFit /\ PageFits

-----------------------------------------------------------------------------
(* Lemmas about numbers, sequences and the events.                         *)

\* Every set of numbers that is not empty has a least one.
LEMMA LeastOf ==
    ASSUME NEW S \in SUBSET Nat, S # {}
    PROVE  \E m \in S : \A n \in S : m <= n
<1> DEFINE R == {ss \in Nat \X Nat : ss[1] < ss[2]}
<1>1. IsWellFoundedOn(R, Nat)
  BY NatLessThanWellFounded DEF OpToRel
<1>2. \A n, m \in Nat : n < m => <<n, m>> \in R
  OBVIOUS
<1> HIDE DEF R
<1>3. PICK m \in S : \A n \in S : <<n, m>> \notin R
  BY <1>1, WFMin
<1>4. ASSUME NEW n \in S
      PROVE  m <= n
  <2>1. n \in Nat /\ m \in Nat /\ ~(n < m)
    BY <1>2, <1>3
  <2> QED
    BY <2>1
<1> QED
  BY <1>4

Positions(t, x) == {n \in DOMAIN t : t[n] = x}

\* What the positions of a value are after one more was appended.
LEMMA AppendCounts ==
    ASSUME NEW S, NEW s \in Seq(S), NEW e \in S, NEW x
    PROVE  /\ e = x => Cardinality(Positions(Append(s, e), x)) = Cardinality(Positions(s, x)) + 1
           /\ e # x => Positions(Append(s, e), x) = Positions(s, x)
<1> DEFINE A == Positions(s, x)
           B == Positions(Append(s, e), x)
<1>1. /\ Len(s) \in Nat /\ DOMAIN s = 1 .. Len(s)
      /\ DOMAIN Append(s, e) = 1 .. (Len(s) + 1)
      /\ Append(s, e)[Len(s) + 1] = e
      /\ \A n \in 1 .. Len(s) : Append(s, e)[n] = s[n]
  OBVIOUS
<1>2. IsFiniteSet(1 .. Len(s))
  BY <1>1, FS_Interval
<1>3. IsFiniteSet(A) /\ Cardinality(A) \in Nat
  BY <1>1, <1>2, FS_Subset, FS_CardinalityType DEF Positions
<1>4. e # x => B = A
  BY <1>1 DEF Positions
<1>5. e = x => B = A \cup {Len(s) + 1}
  BY <1>1 DEF Positions
<1>6. Len(s) + 1 \notin A
  BY <1>1 DEF Positions
<1>7. e = x => Cardinality(B) = Cardinality(A) + 1
  BY <1>3, <1>5, <1>6, FS_AddElement
<1> QED
  BY <1>3, <1>4, <1>7

\* A change of the topic adds one event that tells its new status.
LEMMA AdvanceReplays ==
    ASSUME IInv, NEW type \in Events, NEW becomes \in {"OPEN", "PLAN_REVIEW", "PLANNED"},
           Advances(becomes, type), StatusAfter(type, topic.status) = becomes
    PROVE  /\ topic' \in TopicRecord /\ topic'.status = becomes
           /\ event' \in Seq(Events) /\ Len(event') <= MaxVersion
           /\ Len(event') = Len(event) + 1
           /\ DOMAIN event = 1 .. Len(event) /\ DOMAIN event' = 1 .. (Len(event) + 1)
           /\ Len(event) \in Nat /\ event'[Len(event) + 1] = type
           /\ \A v \in 1 .. Len(event) : event'[v] = event[v]
           /\ EventsFit'
<1> DEFINE L == Len(event)
<1>1. /\ event \in Seq(Events) /\ event' = Append(event, type)
      /\ topic.version < MaxVersion
      /\ topic' = [status |-> becomes, version |-> topic.version + 1]
      /\ L = topic.version /\ topic.version \in 1 .. MaxVersion
  BY DEF IInv, TypeOK, TopicRecord, EventsFit, Advances
<1>2. /\ topic' \in TopicRecord /\ topic'.status = becomes /\ topic'.version = L + 1
  BY <1>1, PlanningAssumption DEF TopicRecord
<1>3. /\ event' \in Seq(Events) /\ Len(event') = L + 1 /\ L \in Nat
      /\ DOMAIN event = 1 .. L /\ DOMAIN event' = 1 .. (L + 1)
      /\ event'[L + 1] = type /\ \A v \in 1 .. L : event'[v] = event[v]
  BY <1>1
<1>4. L + 1 <= MaxVersion
  BY <1>1, PlanningAssumption
<1> HIDE DEF L
<1>5. ASSUME NEW f, Replays(event, f)
      PROVE  Replays(event', [n \in 0 .. (L + 1) |-> IF n = L + 1 THEN becomes ELSE f[n]])
  <2> DEFINE g == [n \in 0 .. (L + 1) |-> IF n = L + 1 THEN becomes ELSE f[n]]
  <2>1. /\ \A n \in 0 .. L : f[n] = IF n = 0 THEN "OPEN" ELSE StatusAfter(event[n], f[n - 1])
        /\ f[L] = topic.status
    BY <1>3, <1>5 DEF Replays, IInv, EventsFit, L
  <2>2. ASSUME NEW n \in 0 .. (L + 1)
        PROVE  g[n] = IF n = 0 THEN "OPEN" ELSE StatusAfter(event'[n], g[n - 1])
    <3>1. CASE n = L + 1
      BY <1>3, <2>1, <3>1
    <3>2. CASE n # L + 1
      <4>1. n \in 0 .. L /\ n - 1 # L + 1 /\ (n # 0 => n - 1 \in 0 .. (L + 1) /\ n \in 1 .. L)
        BY <1>3, <3>2
      <4> QED
        BY <1>3, <2>1, <3>2, <4>1
    <3> QED
      BY <3>1, <3>2
  <2>3. g = [n \in 0 .. (L + 1) |->
               IF n = 0 THEN "OPEN" ELSE StatusAfter(event'[n], g[n - 1])]
    <3> DEFINE h == [n \in 0 .. (L + 1) |->
                      IF n = 0 THEN "OPEN" ELSE StatusAfter(event'[n], g[n - 1])]
    <3>1. DOMAIN g = DOMAIN h /\ \A n \in DOMAIN g : g[n] = h[n]
      BY <2>2
    <3> QED
      BY <3>1
  <2> QED
    BY <1>3, <2>3 DEF Replays
<1>6. ASSUME NEW f, Replays(event', f)
      PROVE  f[L + 1] = becomes
  <2> DEFINE g == [n \in 0 .. L |-> f[n]]
  <2>1. \A n \in 0 .. (L + 1) : f[n] = IF n = 0 THEN "OPEN" ELSE StatusAfter(event'[n], f[n - 1])
    BY <1>3, <1>6 DEF Replays
  <2>2. ASSUME NEW n \in 0 .. L
        PROVE  g[n] = IF n = 0 THEN "OPEN" ELSE StatusAfter(event[n], g[n - 1])
    <3>1. n \in 0 .. (L + 1) /\ (n # 0 => n - 1 \in 0 .. L /\ n \in 1 .. L)
      BY <1>3
    <3> QED
      BY <1>3, <2>1, <3>1
  <2>3. g = [n \in 0 .. L |-> IF n = 0 THEN "OPEN" ELSE StatusAfter(event[n], g[n - 1])]
    <3> DEFINE h == [n \in 0 .. L |-> IF n = 0 THEN "OPEN" ELSE StatusAfter(event[n], g[n - 1])]
    <3>1. DOMAIN g = DOMAIN h /\ \A n \in DOMAIN g : g[n] = h[n]
      BY <2>2
    <3> QED
      BY <3>1
  <2>4. g[L] = topic.status
    BY <2>3 DEF Replays, IInv, EventsFit, L
  <2>5. L \in 0 .. L /\ L + 1 \in 0 .. (L + 1) /\ L + 1 # 0 /\ (L + 1) - 1 = L
    BY <1>3
  <2> QED
    BY <1>3, <2>1, <2>4, <2>5
<1>7. \E f : Replays(event', f)
  BY <1>5 DEF IInv, EventsFit
<1>8. EventsFit'
  BY <1>2, <1>3, <1>6, <1>7 DEF EventsFit
<1> QED
  BY <1>2, <1>3, <1>4, <1>8 DEF L

\* While the topic stays as it is its events do.
LEMMA EventsRest ==
    ASSUME EventsFit, UNCHANGED <<topic, event>>
    PROVE  EventsFit'
BY DEF EventsFit

\* The replay of EventsTellTheTopic is the one that EventsFit is about.
LEMMA EventsFitTells == EventsFit => EventsTellTheTopic
<1> SUFFICES ASSUME EventsFit
             PROVE  EventsTellTheTopic
  OBVIOUS
<1> DEFINE r == CHOOSE r : Replays(event, r)
<1>1. Replays(event, r)
  BY DEF EventsFit
<1>2. Len(event) = topic.version /\ r[Len(event)] = topic.status
  BY <1>1 DEF EventsFit
<1> QED
  BY <1>2 DEF EventsTellTheTopic, Replays

\* One more event leaves the submissions before it as they are.
LEMMA EarlierSubmissions ==
    ASSUME NEW L \in Nat, \A v \in 1 .. L : event'[v] = event[v]
    PROVE  /\ \A v \in 0 .. L : Submissions(event', v) = Submissions(event, v)
           /\ \A v \in 1 .. L, n \in Nat : Submitted(event', n, v) <=> Submitted(event, n, v)
           /\ \A v \in 1 .. L, n \in Nat : HeardEverybody(event', n, v) <=>
                                                HeardEverybody(event, n, v)
           /\ Submissions(event', L + 1) = IF event'[L + 1] = "SUBMIT_PLAN"
                                       THEN Submissions(event, L) \cup {L + 1} ELSE Submissions(event, L)
           /\ IsFiniteSet(Submissions(event, L)) /\ Cardinality(Submissions(event, L)) \in Nat
           /\ \A v \in 1 .. L : Cardinality(Submissions(event, v)) <= Cardinality(Submissions(event, L))
<1>1. \A v \in 0 .. L : Submissions(event', v) = Submissions(event, v)
  BY DEF Submissions
<1>2. \A v \in 1 .. L, n \in Nat : Submitted(event', n, v) <=> Submitted(event, n, v)
  BY <1>1 DEF Submitted
<1>3. ASSUME NEW v \in 1 .. L, NEW n \in Nat
      PROVE  HeardEverybody(event', n, v) <=> HeardEverybody(event, n, v)
  <2>1. \A u \in (n + 1) .. (v - 1) : u \in 1 .. L
    OBVIOUS
  <2> QED
    BY <2>1 DEF HeardEverybody
<1>4. Submissions(event', L + 1) = IF event'[L + 1] = "SUBMIT_PLAN"
                              THEN Submissions(event, L) \cup {L + 1} ELSE Submissions(event, L)
  <2>1. 1 .. (L + 1) = (1 .. L) \cup {L + 1}
    OBVIOUS
  <2> QED
    BY <2>1 DEF Submissions
<1>5. \A v \in 1 .. L : Submissions(event, v) \in SUBSET Submissions(event, L)
  BY DEF Submissions
<1>6. IsFiniteSet(1 .. L) /\ Submissions(event, L) \in SUBSET (1 .. L)
  BY FS_Interval DEF Submissions
<1>7. IsFiniteSet(Submissions(event, L))
  BY <1>6, FS_Subset
<1>8. Cardinality(Submissions(event, L)) \in Nat
  BY <1>7, FS_CardinalityType
<1>9. \A v \in 1 .. L : Cardinality(Submissions(event, v)) <= Cardinality(Submissions(event, L))
  BY <1>5, <1>7, FS_Subset
<1> QED
  BY <1>1, <1>2, <1>3, <1>4, <1>7, <1>8, <1>9

\* Every revision of the plan is a row.
LEMMA RevisionsAreRecords ==
    ASSUME TypeOK
    PROVE  /\ revision \in Seq(RevisionRecord) /\ Len(revision) \in Nat
           /\ DOMAIN revision = 1 .. Len(revision) /\ DOMAIN revision \subseteq Nat
           /\ \A n \in DOMAIN revision :
                 /\ revision[n].source \in Runs \cup {Human} /\ revision[n].version \in Nat
                 /\ revision[n].drafts \in 1 .. MaxDrafts
<1>1. /\ revision \in Seq(RevisionRecord) /\ Len(revision) \in Nat
      /\ DOMAIN revision = 1 .. Len(revision)
  BY DEF TypeOK
<1>2. \A n \in DOMAIN revision : revision[n] \in RevisionRecord
  BY <1>1
<1> QED
  BY <1>1, <1>2 DEF RevisionRecord

\* A change that submits nothing leaves the revisions in step.
LEMMA OtherEventKeepsSubmissions ==
    ASSUME IInv, NEW type \in Events \ {"SUBMIT_PLAN"},
           NEW becomes \in {"OPEN", "PLAN_REVIEW", "PLANNED"},
           Advances(becomes, type), StatusAfter(type, topic.status) = becomes, UNCHANGED revision
    PROVE  SubmissionsFit'
<1> DEFINE L == Len(event)
<1>1. /\ L \in Nat /\ Len(event') = L + 1 /\ DOMAIN event = 1 .. L
      /\ DOMAIN event' = 1 .. (L + 1) /\ event'[L + 1] = type
      /\ \A v \in 1 .. L : event'[v] = event[v]
  BY AdvanceReplays
<1>2. /\ revision \in Seq(RevisionRecord) /\ DOMAIN revision \subseteq Nat
      /\ revision' = revision
      /\ \A n \in DOMAIN revision : revision[n].version \in Nat
  BY RevisionsAreRecords DEF IInv
<1> HIDE DEF L
<1>3. Submissions(event', L + 1) = Submissions(event, L)
  BY <1>1, EarlierSubmissions
<1>4. \A n \in DOMAIN revision : ~Submitted(event', n, L + 1)
  BY <1>1 DEF Submitted
<1>5. \A n \in DOMAIN revision, v \in 1 .. L :
        /\ Submitted(event', n, v) <=> Submitted(event, n, v)
        /\ HeardEverybody(event', revision[n].version, v) <=>
              HeardEverybody(event, revision[n].version, v)
  BY <1>1, <1>2, EarlierSubmissions
<1>6. \A v \in 1 .. (L + 1) : v \in 1 .. L \/ v = L + 1
  BY <1>1
<1>7. SubmissionsFit
  BY DEF IInv
<1>8. Cardinality(Submissions(event', Len(event'))) = Len(revision)
  BY <1>1, <1>3, <1>7 DEF SubmissionsFit, L
<1>9. \A n \in DOMAIN revision : \E v \in DOMAIN event' : Submitted(event', n, v)
  <2>1. DOMAIN event \subseteq DOMAIN event'
    BY <1>1
  <2> QED
    BY <1>1, <1>5, <1>7, <2>1 DEF SubmissionsFit
<1>10. ASSUME NEW n \in DOMAIN revision, NEW v \in DOMAIN event',
              revision[n].source # Human, Submitted(event', n, v)
       PROVE  HeardEverybody(event', revision[n].version, v)
  <2>1. v \in 1 .. L
    BY <1>1, <1>4, <1>6, <1>10
  <2> QED
    BY <1>1, <1>5, <1>7, <1>10, <2>1 DEF SubmissionsFit
<1> QED
  BY <1>2, <1>8, <1>9, <1>10 DEF SubmissionsFit

\* The submission of a new revision.
LEMMA SubmissionKeepsSubmissions ==
    ASSUME IInv, NEW new \in RevisionRecord, new.source # Human => new.version = topic.version,
           Advances("PLAN_REVIEW", "SUBMIT_PLAN"), revision' = Append(revision, new)
    PROVE  SubmissionsFit'
<1> DEFINE L == Len(event)
           R == Len(revision)
<1>1. /\ L \in Nat /\ Len(event') = L + 1 /\ DOMAIN event = 1 .. L
      /\ DOMAIN event' = 1 .. (L + 1) /\ event'[L + 1] = "SUBMIT_PLAN"
      /\ \A v \in 1 .. L : event'[v] = event[v]
  BY AdvanceReplays DEF Events, StatusAfter
<1>2. /\ revision \in Seq(RevisionRecord) /\ R \in Nat /\ DOMAIN revision = 1 .. R
      /\ DOMAIN revision' = 1 .. (R + 1) /\ Len(revision') = R + 1 /\ revision'[R + 1] = new
      /\ \A n \in 1 .. R : revision'[n] = revision[n] /\ revision[n].version \in Nat
  BY RevisionsAreRecords DEF IInv
<1>3. L = topic.version /\ Cardinality(Submissions(event, L)) = R /\ SubmissionsFit
  BY DEF IInv, EventsFit, SubmissionsFit
<1> HIDE DEF L, R
<1>4. Cardinality(Submissions(event', L + 1)) = R + 1
  <2>1. /\ Submissions(event', L + 1) = Submissions(event, L) \cup {L + 1}
        /\ IsFiniteSet(Submissions(event, L))
    BY <1>1, EarlierSubmissions
  <2>2. L + 1 \notin Submissions(event, L)
    BY <1>1 DEF Submissions
  <2> QED
    BY <1>3, <2>1, <2>2, FS_AddElement
<1>5. \A n \in 1 .. R, v \in 1 .. L :
        /\ Submitted(event', n, v) <=> Submitted(event, n, v)
        /\ HeardEverybody(event', revision[n].version, v) <=>
              HeardEverybody(event, revision[n].version, v)
  <2>1. \A n \in 1 .. R : n \in Nat /\ revision[n].version \in Nat
    BY <1>2
  <2>2. /\ \A v \in 1 .. L, n \in Nat : Submitted(event', n, v) <=> Submitted(event, n, v)
        /\ \A v \in 1 .. L, n \in Nat : HeardEverybody(event', n, v) <=>
                                        HeardEverybody(event, n, v)
    BY <1>1, EarlierSubmissions
  <2> QED
    BY <2>1, <2>2
<1>6. \A n \in 1 .. (R + 1) : Submitted(event', n, L + 1) <=> n = R + 1
  BY <1>1, <1>4 DEF Submitted
<1>7. \A v \in 1 .. L : ~Submitted(event', R + 1, v)
  <2> SUFFICES ASSUME NEW v \in 1 .. L
               PROVE  ~Submitted(event', R + 1, v)
    OBVIOUS
  <2>1. /\ Submissions(event', v) = Submissions(event, v)
        /\ Cardinality(Submissions(event, v)) <= Cardinality(Submissions(event, L))
    <3>1. v \in 0 .. L
      BY <1>1
    <3> QED
      BY <1>1, <3>1, EarlierSubmissions
  <2>2. Cardinality(Submissions(event', v)) <= R
    BY <1>3, <2>1
  <2>3. ~(R + 1 <= R)
    BY <1>2
  <2> QED
    BY <2>2, <2>3 DEF Submitted
<1>8. \A v \in 1 .. (L + 1) : v \in 1 .. L \/ v = L + 1
  BY <1>1
<1>9. \A n \in 1 .. (R + 1) : n \in 1 .. R \/ n = R + 1
  BY <1>2
<1>10. \A n \in DOMAIN revision' : \E v \in DOMAIN event' : Submitted(event', n, v)
  <2>1. /\ \A v \in 1 .. L : v \in 1 .. (L + 1)
        /\ L + 1 \in 1 .. (L + 1) /\ R + 1 \in 1 .. (R + 1)
    BY <1>1, <1>2
  <2>2. \A n \in 1 .. R : \E v \in 1 .. L : Submitted(event, n, v)
    BY <1>1, <1>2, <1>3 DEF SubmissionsFit
  <2> QED
    BY <1>1, <1>2, <1>5, <1>6, <1>9, <2>1, <2>2
<1>11. ASSUME NEW n \in DOMAIN revision', NEW v \in DOMAIN event',
              revision'[n].source # Human, Submitted(event', n, v)
       PROVE  HeardEverybody(event', revision'[n].version, v)
  <2>1. CASE n \in 1 .. R
    <3>1. n \in 1 .. (R + 1) /\ n # R + 1
      BY <1>2, <2>1
    <3>2. v \in 1 .. L
      BY <1>1, <1>6, <1>8, <1>11, <3>1
    <3> QED
      BY <1>1, <1>2, <1>3, <1>5, <1>11, <2>1, <3>2 DEF SubmissionsFit
  <2>2. CASE n = R + 1
    <3>1. v = L + 1
      BY <1>1, <1>7, <1>8, <1>11, <2>2
    <3>2. revision'[n].version = L
      BY <1>2, <1>3, <1>11, <2>2
    <3>3. (L + 1) .. ((L + 1) - 1) = {}
      BY <1>1
    <3> QED
      BY <3>1, <3>2, <3>3 DEF HeardEverybody
  <2> QED
    BY <1>2, <1>9, <2>1, <2>2
<1> QED
  BY <1>1, <1>2, <1>4, <1>10, <1>11 DEF SubmissionsFit

-----------------------------------------------------------------------------
(* The topic, its events, its plan and its tasks.                          *)

TopicHalf ==
    /\ topic \in TopicRecord
    /\ event \in Seq(Events) /\ Len(event) <= MaxVersion
    /\ plan \in PlanRecord
    /\ revision \in Seq(RevisionRecord) /\ Len(revision) <= MaxRevision
    /\ task \in [Drafts -> 0 .. 1]
    /\ EventsFit /\ SubmissionsFit /\ TopicFitsPlan /\ PlanFits /\ TasksAreTheApprovedDrafts

LEMMA TopicHalfRests ==
    ASSUME IInv, UNCHANGED <<topic, event, plan, revision, task>>
    PROVE  TopicHalf'
BY DEF IInv, TypeOK, TopicHalf, EventsFit, SubmissionsFit, TopicFitsPlan, PlanFits,
       TasksAreTheApprovedDrafts

\* No draft is one of the revision that is not there.
LEMMA NoTaskBeforeApproval ==
    ASSUME TypeOK, plan.approved = 0
    PROVE  TasksAreTheApprovedDrafts <=> \A d \in Drafts : task[d] = 0
<1>1. \A d \in Drafts : d[1] # 0
  BY DEF Drafts
<1> QED
  BY <1>1 DEF TasksAreTheApprovedDrafts

\* A message, or a request for a planning turn.
LEMMA MessageKeeps ==
    ASSUME IInv, NEW type \in {"MESSAGE_ADDED", "PLANNING_ASKED"},
           Advances(topic.status, type), UNCHANGED <<plan, revision, task>>
    PROVE  TopicHalf'
<1>1. /\ topic.status \in {"OPEN", "PLAN_REVIEW", "PLANNED"}
      /\ type \in Events \ {"SUBMIT_PLAN"}
      /\ StatusAfter(type, topic.status) = topic.status
  BY DEF IInv, TypeOK, TopicRecord, Events, StatusAfter
<1>2. /\ topic' \in TopicRecord /\ topic'.status = topic.status /\ EventsFit'
      /\ event' \in Seq(Events) /\ Len(event') <= MaxVersion
  BY <1>1, AdvanceReplays
<1>3. SubmissionsFit'
  BY <1>1, OtherEventKeepsSubmissions
<1>4. TopicFitsPlan' /\ PlanFits' /\ TasksAreTheApprovedDrafts'
  BY <1>2 DEF IInv, TopicFitsPlan, PlanFits, TasksAreTheApprovedDrafts
<1> QED
  BY <1>2, <1>3, <1>4 DEF IInv, TypeOK, TopicHalf

\* A revision is added, by a person or by the run whose version is the topic's.
LEMMA RevisionKeeps ==
    ASSUME IInv, NEW source \in Runs \cup {Human}, NEW drafts \in 1 .. MaxDrafts,
           AddsRevision(source, topic.version, drafts), UNCHANGED task
    PROVE  TopicHalf'
<1> DEFINE new == BuildPlanRevision(source, topic.version, drafts)
<1>1. new \in RevisionRecord /\ new.version = topic.version
  BY DEF IInv, TypeOK, TopicRecord, RevisionRecord, BuildPlanRevision
<1>2. /\ Advances("PLAN_REVIEW", "SUBMIT_PLAN")
      /\ plan.status \in {"NONE", "CHANGES_REQUESTED"}
      /\ plan' = [plan EXCEPT !.status = "IN_REVIEW", !.current = Len(revision) + 1]
      /\ Len(revision) < MaxRevision /\ revision' = Append(revision, new)
  BY DEF AddsRevision, ActivatePlanRevision, FindOrCreatePlan, InsertPlanRevision
<1> HIDE DEF new
<1>3. /\ topic' \in TopicRecord /\ topic'.status = "PLAN_REVIEW" /\ EventsFit'
      /\ event' \in Seq(Events) /\ Len(event') <= MaxVersion
  BY <1>2, AdvanceReplays DEF Events, StatusAfter
<1>4. SubmissionsFit'
  BY <1>1, <1>2, SubmissionKeepsSubmissions
<1>5. /\ revision' \in Seq(RevisionRecord) /\ Len(revision') = Len(revision) + 1
      /\ Len(revision) \in Nat /\ Len(revision') <= MaxRevision
  BY <1>1, <1>2, PlanningAssumption DEF IInv, TypeOK
<1>6. /\ plan \in PlanRecord /\ plan' \in PlanRecord
      /\ plan'.status = "IN_REVIEW" /\ plan'.current = Len(revision) + 1
      /\ plan'.approved = plan.approved /\ plan.approved = 0
  <2>1. plan \in PlanRecord /\ plan.approved = 0
    BY <1>2 DEF IInv, TypeOK, PlanFits
  <2>2. Len(revision) + 1 \in 0 .. MaxRevision
    BY <1>2, <1>5, PlanningAssumption
  <2> QED
    BY <1>2, <2>1, <2>2 DEF PlanRecord
<1>7. TopicFitsPlan' /\ PlanFits'
  BY <1>3, <1>5, <1>6 DEF TopicFitsPlan, PlanFits
<1>8. TasksAreTheApprovedDrafts'
  <2>1. \A d \in Drafts : d[1] # 0 /\ task[d] = 0
    BY <1>6 DEF IInv, TasksAreTheApprovedDrafts, Drafts
  <2> QED
    BY <1>6, <2>1 DEF TasksAreTheApprovedDrafts
<1> QED
  BY <1>3, <1>4, <1>5, <1>6, <1>7, <1>8 DEF IInv, TypeOK, TopicHalf

\* A verdict on the revision under review.
LEMMA ReviewKeeps ==
    ASSUME IInv, RequestChanges \/ Approve
    PROVE  TopicHalf'
<1>1. /\ plan \in PlanRecord /\ plan.status = "IN_REVIEW" /\ topic.status = "PLAN_REVIEW"
      /\ plan.current = page.revision /\ plan.approved = 0 /\ plan.current = Len(revision)
      /\ plan.current >= 1 /\ UNCHANGED revision
  BY DEF IInv, TypeOK, PlanFits, RequestChanges, Approve, BeginReview, FinishPlanReview
<1>2. \A d \in Drafts : task[d] = 0 /\ d[1] # 0
  BY <1>1 DEF IInv, TasksAreTheApprovedDrafts, Drafts
<1>3. CASE RequestChanges
  <2>1. /\ Advances("OPEN", "REQUEST_PLAN_CHANGES") /\ UNCHANGED task
        /\ plan' = [plan EXCEPT !.status = "CHANGES_REQUESTED", !.approved = 0]
    BY <1>3 DEF RequestChanges, FinishPlanReview
  <2>2. /\ topic' \in TopicRecord /\ topic'.status = "OPEN" /\ EventsFit'
        /\ event' \in Seq(Events) /\ Len(event') <= MaxVersion
    BY <2>1, AdvanceReplays DEF Events, StatusAfter
  <2>3. SubmissionsFit'
    BY <1>1, <2>1, OtherEventKeepsSubmissions DEF Events, StatusAfter
  <2>4. /\ plan' \in PlanRecord /\ plan'.status = "CHANGES_REQUESTED" /\ plan'.approved = 0
        /\ plan'.current = plan.current
    BY <1>1, <2>1, PlanningAssumption DEF PlanRecord
  <2>5. TopicFitsPlan' /\ PlanFits' /\ TasksAreTheApprovedDrafts'
    BY <1>1, <1>2, <2>1, <2>2, <2>4 DEF TopicFitsPlan, PlanFits, TasksAreTheApprovedDrafts
  <2> QED
    BY <1>1, <2>1, <2>2, <2>3, <2>4, <2>5 DEF IInv, TypeOK, TopicHalf
<1>4. CASE Approve
  <2> DEFINE n == plan.current
  <2>1. /\ Advances("PLANNED", "APPROVE_PLAN")
        /\ plan' = [plan EXCEPT !.status = "APPROVED", !.approved = n]
        /\ task' = [d \in Drafts |-> IF d \in LoadPlanRevision(n) THEN task[d] + 1 ELSE task[d]]
    BY <1>1, <1>4 DEF Approve, FinishPlanReview
  <2>2. /\ topic' \in TopicRecord /\ topic'.status = "PLANNED" /\ EventsFit'
        /\ event' \in Seq(Events) /\ Len(event') <= MaxVersion
    BY <2>1, AdvanceReplays DEF Events, StatusAfter
  <2>3. SubmissionsFit'
    BY <1>1, <2>1, OtherEventKeepsSubmissions DEF Events, StatusAfter
  <2>4. n \in 0 .. MaxRevision
    BY <1>1 DEF PlanRecord
  <2>5. /\ plan' \in PlanRecord /\ plan'.status = "APPROVED" /\ plan'.approved = n
        /\ plan'.current = n
    BY <1>1, <2>1, <2>4 DEF PlanRecord
  <2>6. TopicFitsPlan' /\ PlanFits'
    BY <1>1, <2>2, <2>5 DEF TopicFitsPlan, PlanFits
  <2>7. ASSUME NEW d \in Drafts
        PROVE  task'[d] = IF d[1] = n /\ d[2] <= revision[n].drafts THEN 1 ELSE 0
    <3>1. d[1] \in Nat /\ d[2] \in 1 .. MaxDrafts /\ d = <<d[1], d[2]>>
      BY DEF Drafts
    <3>2. revision[n].drafts \in 1 .. MaxDrafts
      BY <1>1, <2>4, RevisionsAreRecords DEF IInv
    <3>3. d \in LoadPlanRevision(n) <=> d[1] = n /\ d[2] <= revision[n].drafts
      BY <3>1, <3>2, PlanningAssumption DEF LoadPlanRevision
    <3> QED
      BY <1>2, <2>1, <3>3
  <2>8. TasksAreTheApprovedDrafts'
    BY <1>1, <2>5, <2>7 DEF TasksAreTheApprovedDrafts
  <2>9. task' \in [Drafts -> 0 .. 1]
    <3>1. \A d \in Drafts : task'[d] \in 0 .. 1
      BY <2>7
    <3> QED
      BY <2>1, <3>1
  <2> QED
    BY <1>1, <2>2, <2>3, <2>5, <2>6, <2>8, <2>9 DEF IInv, TypeOK, TopicHalf
<1> QED
  BY <1>3, <1>4

-----------------------------------------------------------------------------
(* The runs, and what they write into the discussion.                      *)

Replied(x) == x.status = "ENDED" /\ x.result \in {"REPLY", "PLAN"}

RunHalf ==
    /\ thread \in Seq(Runs \cup {Human}) /\ run \in [Runs -> RunRecord]
    /\ RepliesAreInTheThread /\ RunsFit

PageHalf == page \in PageRecord /\ PageFits

\* The invariant is that of the two halves, of the questions and of the page.
LEMMA Halves ==
    ASSUME TopicHalf', RunHalf', question' \in [Runs -> QuestionRecord], PageHalf'
    PROVE  IInv'
BY DEF IInv, TypeOK, TopicHalf, RunHalf, PageHalf

LEMMA Questions == IInv => question \in [Runs -> QuestionRecord]
BY DEF IInv, TypeOK

\* Revisions are only added: a page that shows one goes on showing what it is.
LEMMA PageRests ==
    ASSUME IInv, UNCHANGED page, UNCHANGED revision \/ \E x : revision' = Append(revision, x)
    PROVE  PageHalf'
<1>1. /\ revision \in Seq(RevisionRecord) /\ page \in PageRecord /\ page.revision \in Nat
      /\ page.revision <= Len(revision)
      /\ page.revision > 0 => page.drafts = revision[page.revision].drafts
  BY PlanningAssumption DEF IInv, TypeOK, PageFits, PageRecord
<1>2. CASE UNCHANGED revision
  BY <1>1, <1>2 DEF PageHalf, PageFits
<1>3. ASSUME NEW x, revision' = Append(revision, x)
      PROVE  PageHalf'
  <2>1. Len(revision') = Len(revision) + 1
    BY <1>1, <1>3
  <2>2. \A n \in 1 .. Len(revision) : revision'[n] = revision[n]
    BY <1>1, <1>3
  <2> QED
    BY <1>1, <2>1, <2>2 DEF PageHalf, PageFits
<1> QED
  BY <1>2, <1>3

LEMMA RunHalfRests ==
    ASSUME IInv, UNCHANGED <<thread, run>>
    PROVE  RunHalf'
BY DEF IInv, TypeOK, RunHalf, RepliesAreInTheThread, RunsFit

\* A person writes: no run has replied more often.
LEMMA HumanKeeps ==
    ASSUME IInv, thread' = Append(thread, Human), UNCHANGED run
    PROVE  RunHalf'
<1>1. thread' \in Seq(Runs \cup {Human})
  BY DEF IInv, TypeOK
<1>2. \A r \in Runs : Positions(thread', r) = Positions(thread, r)
  <2>1. thread \in Seq(Runs \cup {Human}) /\ \A r \in Runs : Human # r
    BY PlanningAssumption DEF IInv, TypeOK
  <2> QED
    BY <2>1, AppendCounts
<1>3. RepliesAreInTheThread'
  BY <1>2 DEF IInv, RepliesAreInTheThread, Positions
<1> QED
  BY <1>1, <1>3 DEF IInv, TypeOK, RunHalf, RunsFit

\* A run goes on to x: it replies in the step in which it ends, if it does.
LEMMA RunKeeps ==
    ASSUME IInv, NEW r \in Runs, NEW x \in RunRecord, run' = [run EXCEPT ![r] = x],
           x.status \in {"ABSENT", "CLAIMED", "RUNNING"} => x.result = "NONE",
           x.result = "PLAN" => x.drafts \in 1 .. MaxDrafts,
           \/ UNCHANGED thread /\ (Replied(x) <=> Replied(run[r]))
           \/ thread' = Append(thread, r) /\ Replied(x) /\ ~Replied(run[r])
    PROVE  RunHalf'
<1>1. /\ thread \in Seq(Runs \cup {Human}) /\ thread' \in Seq(Runs \cup {Human})
      /\ run' \in [Runs -> RunRecord] /\ run'[r] = x
      /\ \A p \in Runs \ {r} : run'[p] = run[p]
  BY DEF IInv, TypeOK
<1>2. RunsFit'
  BY <1>1 DEF IInv, RunsFit
<1>3. ASSUME NEW p \in Runs
      PROVE  Cardinality(Positions(thread', p)) =
                IF Replied(run'[p]) THEN 1 ELSE 0
  <2>1. Cardinality(Positions(thread, p)) = IF Replied(run[p]) THEN 1 ELSE 0
    BY DEF IInv, RepliesAreInTheThread, Replied, Positions
  <2>2. CASE UNCHANGED thread /\ (Replied(x) <=> Replied(run[r]))
    <3>1. Replied(run'[p]) <=> Replied(run[p])
      BY <1>1, <2>2
    <3> QED
      BY <2>1, <2>2, <3>1
  <2>3. CASE thread' = Append(thread, r) /\ Replied(x) /\ ~Replied(run[r])
    <3>1. CASE p = r
      <4>1. Cardinality(Positions(thread', p)) = Cardinality(Positions(thread, p)) + 1
        BY <1>1, <2>3, <3>1, AppendCounts
      <4>2. Cardinality(Positions(thread, p)) = 0 /\ Replied(run'[p])
        BY <1>1, <2>1, <2>3, <3>1
      <4> QED
        BY <4>1, <4>2
    <3>2. CASE p # r
      <4>1. Positions(thread', p) = Positions(thread, p)
        BY <1>1, <2>3, <3>2, AppendCounts
      <4> QED
        BY <1>1, <2>1, <3>2, <4>1
    <3> QED
      BY <3>1, <3>2
  <2> QED
    BY <2>2, <2>3
<1>4. RepliesAreInTheThread'
  BY <1>3 DEF RepliesAreInTheThread, Replied, Positions
<1> QED
  BY <1>1, <1>2, <1>4 DEF RunHalf

\* There is a latest run: the versions of runs are bounded.
LEMMA LatestRunIsARun ==
    ASSUME TypeOK
    PROVE  LatestRun \in Runs \cup {Nobody}
<1> DEFINE made == {r \in Runs : run[r].status # "ABSENT"}
           left == {MaxVersion - run[r].version : r \in made}
<1>1. \A r \in Runs : run[r].version \in 0 .. MaxVersion
  BY DEF TypeOK, RunRecord
<1>2. CASE made = {}
  BY <1>2 DEF LatestRun
<1>3. CASE made # {}
  <2>1. left \in SUBSET Nat /\ left # {}
    <3>1. \A r \in made : MaxVersion - run[r].version \in Nat
      BY <1>1, PlanningAssumption
    <3> QED
      BY <1>3, <3>1
  <2>2. PICK m \in left : \A n \in left : m <= n
    <3> HIDE DEF left
    <3> QED
      BY <2>1, LeastOf
  <2>3. PICK r \in made : m = MaxVersion - run[r].version
    BY <2>2
  <2>4. ASSUME NEW q \in made
        PROVE  run[q].version <= run[r].version
    <3>1. MaxVersion - run[r].version <= MaxVersion - run[q].version
      BY <2>2, <2>3
    <3> QED
      BY <1>1, <2>3, <3>1, PlanningAssumption
  <2>5. (CHOOSE p \in made : \A q \in made : run[q].version <= run[p].version) \in made
    <3> HIDE DEF made
    <3> QED
      BY <2>3, <2>4
  <2> QED
    BY <1>3, <2>5 DEF LatestRun
<1> QED
  BY <1>2, <1>3

-----------------------------------------------------------------------------
(* The steps.                                                              *)

\* What people do.
LEMMA PersonKeeps ==
    ASSUME IInv, Person
    PROVE  IInv'
<1>1. CASE GetTopics
  <2>1. PICK v \in 1 .. topic.version : page' = [page EXCEPT !.version = v]
    BY <1>1 DEF GetTopics
  <2>2. v \in 1 .. MaxVersion
    BY PlanningAssumption DEF IInv, TypeOK, TopicRecord
  <2>3. PageHalf'
    BY <1>1, <2>1, <2>2 DEF GetTopics, IInv, TypeOK, PageRecord, PageHalf, PageFits
  <2>4. TopicHalf' /\ RunHalf'
    BY <1>1, TopicHalfRests, RunHalfRests DEF GetTopics
  <2> QED
    BY <1>1, <2>3, <2>4, Halves, Questions DEF GetTopics
<1>2. CASE GetByTopic
  <2>1. PICK n \in 0 .. plan.current :
            page' = [page EXCEPT !.revision = n,
                                 !.drafts = IF n = 0 THEN 0 ELSE revision[n].drafts]
    BY <1>2 DEF GetByTopic
  <2>2. plan.current = Len(revision) /\ plan.current \in 0 .. MaxRevision
    BY DEF IInv, TypeOK, PlanFits, PlanRecord
  <2>3. n # 0 => revision[n].drafts \in 1 .. MaxDrafts
    BY <2>2, RevisionsAreRecords DEF IInv
  <2>4. (IF n = 0 THEN 0 ELSE revision[n].drafts) \in 0 .. MaxDrafts /\ n \in 0 .. MaxRevision
    BY <2>2, <2>3, PlanningAssumption
  <2>5. PageHalf'
    <3> DEFINE m == IF n = 0 THEN 0 ELSE revision[n].drafts
    <3>1. /\ page' = [page EXCEPT !.revision = n, !.drafts = m] /\ page \in PageRecord
          /\ n > 0 => m = revision[n].drafts
      BY <2>1 DEF IInv, TypeOK
    <3>2. m \in 0 .. MaxDrafts /\ n \in 0 .. MaxRevision /\ n <= Len(revision)
      BY <2>2, <2>4
    <3> HIDE DEF m
    <3>3. page' \in PageRecord /\ page'.revision = n /\ page'.drafts = m
      BY <3>1, <3>2 DEF PageRecord
    <3> QED
      BY <1>2, <3>1, <3>2, <3>3 DEF GetByTopic, PageHalf, PageFits
  <2>6. TopicHalf' /\ RunHalf'
    BY <1>2, TopicHalfRests, RunHalfRests DEF GetByTopic
  <2> QED
    BY <1>2, <2>5, <2>6, Halves, Questions DEF GetByTopic
<1>3. CASE AppendTopicMessage
  BY <1>3, MessageKeeps, HumanKeeps, Halves, Questions, PageRests
     DEF AppendTopicMessage, AppendMessage, RecordHumanTopicMessage
<1>4. CASE RequestPlanning
  BY <1>4, MessageKeeps, RunHalfRests, Halves, Questions, PageRests DEF RequestPlanning
<1>5. CASE CreateRevision
  <2>1. \E x : revision' = Append(revision, x)
    BY <1>5 DEF CreateRevision, AddsRevision, InsertPlanRevision
  <2> QED
    BY <1>5, <2>1, RevisionKeeps, RunHalfRests, Halves, Questions, PageRests DEF CreateRevision
<1>6. CASE RequestChanges \/ Approve
  BY <1>6, ReviewKeeps, RunHalfRests, Halves, Questions, PageRests
     DEF RequestChanges, Approve, FinishPlanReview
<1>7. ASSUME NEW q \in Runs, AnswerSubject(q)
      PROVE  IInv'
  <2>1. question' \in [Runs -> QuestionRecord]
    <3>1. [question[q] EXCEPT !.status = "ANSWERED"] \in QuestionRecord
      BY DEF IInv, TypeOK, QuestionRecord
    <3> QED
      BY <1>7, <3>1 DEF AnswerSubject, IInv, TypeOK
  <2> QED
    BY <1>7, <2>1, MessageKeeps, RunHalfRests, Halves, Questions, PageRests
       DEF AnswerSubject, ResumeTopicClarification
<1> QED
  BY <1>1, <1>2, <1>3, <1>4, <1>5, <1>6, <1>7 DEF Person

LEMMA ClaimKeeps ==
    ASSUME IInv, NEW r \in Runs, ClaimNextTask(r)
    PROVE  IInv'
<1> DEFINE x == [Unclaimed EXCEPT !.status = "CLAIMED", !.follows = LatestRun,
                                  !.version = topic.version]
<1>1. /\ run[r].status = "ABSENT" /\ run' = [run EXCEPT ![r] = x]
      /\ UNCHANGED <<topic, event, thread, plan, revision, task, page>>
  BY DEF ClaimNextTask
<1>2. x \in RunRecord /\ x.status = "CLAIMED" /\ x.result = "NONE"
  <2>1. /\ LatestRun \in Runs \cup {Nobody} /\ topic.version \in 0 .. MaxVersion
        /\ 0 \in 0 .. MaxDrafts /\ {} \in SUBSET Runs
    BY LatestRunIsARun, PlanningAssumption DEF IInv, TypeOK, TopicRecord
  <2>2. Unclaimed \in RunRecord /\ Unclaimed.result = "NONE"
    BY PlanningAssumption DEF Unclaimed, RunRecord
  <2> QED
    BY <2>1, <2>2 DEF RunRecord
<1> HIDE DEF x
<1>3. RunHalf'
  BY <1>1, <1>2, RunKeeps DEF Replied
<1>4. question' \in [Runs -> QuestionRecord]
  <2>1. \A q \in Runs : /\ question[q] \in QuestionRecord
                        /\ [question[q] EXCEPT !.reader = r] \in QuestionRecord
    BY DEF IInv, TypeOK, QuestionRecord
  <2>2. /\ DOMAIN question' = Runs
        /\ \A q \in Runs : \/ question'[q] = question[q]
                           \/ question'[q] = [question[q] EXCEPT !.reader = r]
        /\ question' = [q \in Runs |-> question'[q]]
    BY DEF ClaimNextTask
  <2> QED
    BY <2>1, <2>2
<1> QED
  BY <1>1, <1>3, <1>4, TopicHalfRests, Halves, Questions, PageRests

LEMMA PromptKeeps ==
    ASSUME IInv, NEW r \in Runs, BuildPlanningPrompt(r)
    PROVE  IInv'
<1>1. PICK told \in SUBSET Runs : run' = [run EXCEPT ![r].status = "RUNNING", ![r].told = told]
  BY DEF BuildPlanningPrompt
<1>2. run[r] \in RunRecord /\ run[r].status = "CLAIMED" /\ run[r].result = "NONE"
  BY DEF IInv, TypeOK, RunsFit, BuildPlanningPrompt
<1> DEFINE x == [run[r] EXCEPT !.status = "RUNNING", !.told = told]
<1>3. x \in RunRecord /\ x.status = "RUNNING" /\ x.result = "NONE"
  BY <1>2 DEF RunRecord
<1>4. run' = [run EXCEPT ![r] = x]
  BY <1>1
<1> HIDE DEF x
<1>5. RunHalf'
  BY <1>2, <1>3, <1>4, RunKeeps DEF Replied, BuildPlanningPrompt
<1> QED
  BY <1>5, TopicHalfRests, Halves, Questions, PageRests DEF BuildPlanningPrompt

\* What an agent wrote becomes a result with the drafts of a plan, or none.
LEMMA OutcomesAreResults ==
    ASSUME NEW o \in Outcomes
    PROVE  /\ o.result \in Results /\ o.drafts \in 0 .. MaxDrafts
           /\ o.result = "PLAN" => o.drafts \in 1 .. MaxDrafts
<1>1. PICK w \in Written :
        /\ o.result = CollectAgentResult(w)
        /\ o.drafts = IF CollectAgentResult(w) = "PLAN" THEN w.drafts ELSE 0
  BY DEF Outcomes
<1>2. CollectAgentResult(w) \in Results
  BY DEF CollectAgentResult, Results
<1>3. CollectAgentResult(w) = "PLAN" => w.drafts \in 1 .. MaxDrafts
  <2>1. CollectAgentResult(w) = "PLAN" => w.drafts # 0 /\ PlanningResultIsValid(w)
    BY DEF CollectAgentResult
  <2> QED
    BY <2>1 DEF PlanningResultIsValid, RevisionInputIsValid
<1> QED
  BY <1>1, <1>2, <1>3, PlanningAssumption

LEMMA FinalizationKeeps ==
    ASSUME IInv, NEW r \in Runs, BeginFinalization(r)
    PROVE  IInv'
<1>1. PICK o \in Outcomes : run' = [run EXCEPT ![r].status = "FINALIZING", ![r].result = o.result,
                                              ![r].drafts = o.drafts]
  BY DEF BeginFinalization
<1>2. run[r] \in RunRecord /\ run[r].status = "RUNNING"
  BY DEF IInv, TypeOK, BeginFinalization
<1> DEFINE x == [run[r] EXCEPT !.status = "FINALIZING", !.result = o.result, !.drafts = o.drafts]
<1>3. /\ x \in RunRecord /\ x.status = "FINALIZING" /\ x.result = o.result
      /\ x.drafts = o.drafts
  BY <1>2, OutcomesAreResults DEF RunRecord
<1>4. run' = [run EXCEPT ![r] = x]
  BY <1>1
<1> HIDE DEF x
<1>5. RunHalf'
  BY <1>2, <1>3, <1>4, RunKeeps, OutcomesAreResults DEF Replied, BeginFinalization
<1> QED
  BY <1>5, TopicHalfRests, Halves, Questions, PageRests DEF BeginFinalization

\* A run that ends, in whatever way.
LEMMA EndingRun ==
    ASSUME IInv, NEW r \in Runs, NEW s \in {"ENDED", "LOST"}, Ends(r, s),
           run[r].status \in {"CLAIMED", "RUNNING", "FINALIZING"},
           \/ UNCHANGED thread /\ (s = "ENDED" => run[r].result \notin {"REPLY", "PLAN"})
           \/ /\ thread' = Append(thread, r) /\ s = "ENDED" /\ run[r].result \in {"REPLY", "PLAN"}
    PROVE  RunHalf'
<1> DEFINE x == [run[r] EXCEPT !.status = s]
<1>1. run[r] \in RunRecord
  BY DEF IInv, TypeOK
<1>2. /\ x \in RunRecord /\ x.status = s /\ x.result = run[r].result
      /\ x.drafts = run[r].drafts
  BY <1>1 DEF RunRecord
<1>3. run' = [run EXCEPT ![r] = x]
  BY DEF Ends
<1>4. run[r].result = "PLAN" => run[r].drafts \in 1 .. MaxDrafts
  BY DEF IInv, RunsFit
<1> HIDE DEF x
<1>5. /\ x.status \in {"ABSENT", "CLAIMED", "RUNNING"} => x.result = "NONE"
      /\ x.result = "PLAN" => x.drafts \in 1 .. MaxDrafts
      /\ ~Replied(run[r]) /\ (Replied(x) <=> s = "ENDED" /\ run[r].result \in {"REPLY", "PLAN"})
  BY <1>2, <1>4 DEF Replied
<1> QED
  BY <1>2, <1>3, <1>5, RunKeeps

LEMMA CompleteKeeps ==
    ASSUME IInv, NEW r \in Runs, CompleteFinalization(r)
    PROVE  IInv'
<1>1. run[r].status = "FINALIZING" /\ Ends(r, "ENDED") /\ UNCHANGED <<task, page>>
  BY DEF CompleteFinalization
<1>2. CASE run[r].result = "FAILED" /\ UNCHANGED <<topic, event, thread, plan, revision, question>>
  BY <1>1, <1>2, EndingRun, TopicHalfRests, Halves, Questions, PageRests
<1>3. CASE Asks(r)
  <2>1. question' \in [Runs -> QuestionRecord]
    <3>1. [question[r] EXCEPT !.status = "OPEN"] \in QuestionRecord
      BY DEF IInv, TypeOK, QuestionRecord
    <3> QED
      BY <1>3, <3>1 DEF Asks, IInv, TypeOK
  <2> QED
    BY <1>1, <1>3, <2>1, EndingRun, TopicHalfRests, Halves, Questions, PageRests DEF Asks
<1>4. CASE ApplyPlanningResult(r)
  <2>1. /\ run[r].result \in {"REPLY", "PLAN"} /\ thread' = Append(thread, r)
        /\ UNCHANGED question
        /\ \/ UNCHANGED <<topic, event, plan, revision>>
           \/ /\ run[r].result = "PLAN" /\ run[r].version = topic.version
              /\ AddsRevision(r, run[r].version, run[r].drafts)
    BY <1>4 DEF ApplyPlanningResult, AppendMessage, IsCurrent
  <2>2. RunHalf'
    BY <1>1, <2>1, EndingRun
  <2>3. TopicHalf'
    <3>1. run[r].result = "PLAN" => run[r].drafts \in 1 .. MaxDrafts
      BY DEF IInv, RunsFit
    <3> QED
      BY <1>1, <2>1, <3>1, TopicHalfRests, RevisionKeeps
  <2>4. UNCHANGED revision \/ \E x : revision' = Append(revision, x)
    BY <2>1 DEF AddsRevision, InsertPlanRevision
  <2> QED
    BY <1>1, <2>1, <2>2, <2>3, <2>4, Halves, Questions, PageRests
<1> QED
  BY <1>2, <1>3, <1>4 DEF CompleteFinalization

LEMMA RecoverKeeps ==
    ASSUME IInv, NEW r \in Runs, RecoverLost(r)
    PROVE  IInv'
BY EndingRun, TopicHalfRests, Halves, Questions, PageRests DEF RecoverLost

-----------------------------------------------------------------------------
(* The theorems.                                                           *)

\* Every step keeps the invariant.
LEMMA NextIInv == IInv /\ [Next]_vars => IInv'
<1>1. ASSUME IInv, UNCHANGED vars
      PROVE  IInv'
  BY <1>1, TopicHalfRests, RunHalfRests, Halves, Questions, PageRests DEF vars
<1> QED
  BY <1>1, PersonKeeps, ClaimKeeps, PromptKeeps, FinalizationKeeps, CompleteKeeps,
     RecoverKeeps
     DEF Next, Works

\* The inductive invariant holds in every reachable state.
THEOREM PlanningInvariance == Spec => []IInv
<1>1. Init => IInv
  <2> SUFFICES ASSUME Init
               PROVE  IInv
    OBVIOUS
  <2>1. TypeOK
    <3>1. /\ topic \in TopicRecord /\ plan \in PlanRecord /\ page \in PageRecord
          /\ \A d \in Drafts : 0 \in 0 .. 1
      BY PlanningAssumption DEF Init, TopicRecord, PlanRecord, PageRecord
    <3>2. Unclaimed \in RunRecord /\ Unasked \in QuestionRecord
      BY PlanningAssumption DEF Unclaimed, RunRecord, Unasked, QuestionRecord
    <3>3. event \in Seq(Events) /\ Len(event) = 1
      BY DEF Init, Events
    <3> QED
      BY <3>1, <3>2, <3>3, PlanningAssumption DEF Init, TypeOK
  <2>2. EventsFit
    <3>1. event = <<"CREATED">> /\ Len(event) = 1 /\ event[1] = "CREATED"
      BY DEF Init
    <3> DEFINE f == [n \in 0 .. 1 |-> "OPEN"]
    <3>2. f = [n \in 0 .. 1 |-> IF n = 0 THEN "OPEN" ELSE StatusAfter(event[n], f[n - 1])]
      <4>1. \A n \in 0 .. 1 : n = 0 \/ n = 1
        OBVIOUS
      <4>2. StatusAfter(event[1], "OPEN") = "OPEN"
        BY <3>1 DEF StatusAfter
      <4>3. \A n \in 0 .. 1 : "OPEN" = IF n = 0 THEN "OPEN" ELSE StatusAfter(event[n], f[n - 1])
        BY <4>1, <4>2
      <4> QED
        BY <4>3
    <3>3. Replays(event, f)
      BY <3>1, <3>2 DEF Replays
    <3>4. ASSUME NEW g, Replays(event, g)
          PROVE  g[1] = "OPEN"
      <4>1. \A n \in 0 .. 1 : g[n] = IF n = 0 THEN "OPEN" ELSE StatusAfter(event[n], g[n - 1])
        BY <3>1, <3>4 DEF Replays
      <4>2. g[0] = "OPEN"
        BY <4>1
      <4>3. g[1] = StatusAfter(event[1], g[0])
        BY <4>1
      <4> QED
        BY <3>1, <4>2, <4>3 DEF StatusAfter
    <3> HIDE DEF f
    <3> QED
      BY <3>1, <3>3, <3>4 DEF Init, EventsFit
  <2>3. SubmissionsFit
    <3>1. Submissions(event, 1) = {}
      BY DEF Init, Submissions
    <3>2. Len(event) = 1 /\ Len(revision) = 0 /\ DOMAIN revision = {}
      BY DEF Init
    <3> QED
      BY <3>1, <3>2, FS_EmptySet DEF SubmissionsFit
  <2>4. TopicFitsPlan /\ PlanFits /\ RunsFit /\ PageFits
    BY DEF Init, TopicFitsPlan, PlanFits, RunsFit, PageFits, Unclaimed
  <2>5. TasksAreTheApprovedDrafts
    BY <2>1, NoTaskBeforeApproval DEF Init
  <2>6. RepliesAreInTheThread
    <3>1. \A r \in Runs : {n \in DOMAIN thread : thread[n] = r} = {}
      BY DEF Init
    <3> QED
      BY <3>1, FS_EmptySet DEF Init, RepliesAreInTheThread, Unclaimed
  <2> QED
    BY <2>1, <2>2, <2>3, <2>4, <2>5, <2>6 DEF IInv
<1> QED
  BY <1>1, NextIInv, PTL DEF Spec

\* The tables of a topic agree with each other in every reachable state.
THEOREM TopicTablesAgree == Spec => []TopicInvariant
<1>1. IInv => TopicInvariant
  BY EventsFitTells DEF IInv, TopicInvariant
<1> QED
  BY <1>1, PlanningInvariance, PTL

\* A plan of a run is put to review only if people wrote nothing since its claim.
THEOREM PlansHeardEverybody == Spec => []PlanHeardEverybody
<1>1. IInv => PlanHeardEverybody
  <2> SUFFICES ASSUME IInv, NEW n \in DOMAIN revision, revision[n].source # Human
               PROVE  LET submitted == CHOOSE v \in DOMAIN event : Submitted(event, n, v)
                      IN  HeardEverybody(event, revision[n].version, submitted)
    BY DEF PlanHeardEverybody, Submitted, Submissions, HeardEverybody
  <2> DEFINE submitted == CHOOSE v \in DOMAIN event : Submitted(event, n, v)
  <2>1. submitted \in DOMAIN event /\ Submitted(event, n, submitted)
    BY DEF IInv, SubmissionsFit
  <2> QED
    BY <2>1 DEF IInv, SubmissionsFit
<1> QED
  BY <1>1, PlanningInvariance, PTL

\* A verdict is on what the page showed: the revision is the last one put to
\* review up to the topic version beside it, and its drafts become the tasks.
THEOREM VerdictIsOnThePage == Spec => ReviewedAsRead
<1> DEFINE Made   == {d \in Drafts : task'[d] # task[d]}
           AsRead == topic.status = "PLAN_REVIEW" /\ topic'.status # "PLAN_REVIEW" =>
              /\ Cardinality({u \in 1 .. page.version : event[u] = "SUBMIT_PLAN"}) = page.revision
              /\ Made = IF topic'.status = "PLANNED"
                        THEN {page.revision} \X (1 .. page.drafts) ELSE {}
<1>1. IInv /\ [Next]_vars => [AsRead]_vars
  <2> SUFFICES ASSUME IInv, Next, topic.status = "PLAN_REVIEW", topic'.status # "PLAN_REVIEW"
               PROVE  AsRead
    BY DEF vars
  <2>1. RequestChanges \/ Approve
    <3>1. topic'.status # topic.status /\ topic.status # "OPEN"
      OBVIOUS
    <3>2. \A type \in Events : ~Advances(topic.status, type)
      BY <3>1 DEF Advances
    <3>3. CASE Person
      BY <3>1, <3>2, <3>3
         DEF Person, GetTopics, GetByTopic, AppendTopicMessage, RecordHumanTopicMessage,
             RequestPlanning, CreateRevision, AnswerSubject, ResumeTopicClarification, Events
    <3>4. ASSUME NEW r \in Runs, ClaimNextTask(r) \/ Works(r)
          PROVE  FALSE
      BY <3>1, <3>4
         DEF ClaimNextTask, Works, BuildPlanningPrompt, BeginFinalization,
             CompleteFinalization, Asks, ApplyPlanningResult, IsCurrent, RecoverLost
    <3> QED
      BY <3>3, <3>4 DEF Next
  <2>2. /\ plan.current = page.revision /\ Len(event) = page.version
        /\ plan.status = "IN_REVIEW" /\ plan.current = Len(revision) /\ page.revision > 0
        /\ page.revision \in 1 .. MaxRevision /\ page.drafts = revision[page.revision].drafts
    BY <2>1 DEF RequestChanges, Approve, BeginReview, IInv, EventsFit, PlanFits, PageFits,
                TypeOK, PlanRecord
  <2>3. Cardinality({u \in 1 .. page.version : event[u] = "SUBMIT_PLAN"}) = page.revision
    BY <2>2 DEF IInv, SubmissionsFit, Submissions
  <2>4. page.drafts \in 1 .. MaxDrafts
    <3>1. page.revision \in DOMAIN revision
      BY <2>2 DEF IInv, TypeOK
    <3> QED
      BY <2>2, <3>1, RevisionsAreRecords DEF IInv
  <2>5. CASE RequestChanges
    BY <2>3, <2>5 DEF RequestChanges, FinishPlanReview, Advances
  <2>6. CASE Approve
    <3>1. topic'.status = "PLANNED"
      BY <2>6 DEF Approve, FinishPlanReview, Advances
    <3>2. ASSUME NEW d \in Drafts
          PROVE  task'[d] # task[d] <=> d \in LoadPlanRevision(page.revision)
      <4>1. task[d] \in 0 .. 1
        BY DEF IInv, TypeOK
      <4> QED
        BY <2>6, <4>1 DEF Approve
    <3>3. LoadPlanRevision(page.revision) \subseteq Drafts
      <4>1. revision[page.revision].drafts \in 1 .. MaxDrafts
        BY <2>2, <2>4
      <4>2. \A k \in 1 .. revision[page.revision].drafts : k \in 1 .. MaxDrafts
        BY <4>1, PlanningAssumption
      <4> QED
        BY <2>2, <4>2 DEF LoadPlanRevision, Drafts
    <3>4. Made = LoadPlanRevision(page.revision)
      BY <3>2, <3>3
    <3> QED
      BY <2>2, <2>3, <3>1, <3>4 DEF LoadPlanRevision
  <2> QED
    BY <2>1, <2>5, <2>6
<1> QED
  BY <1>1, PlanningInvariance, PTL DEF Spec, ReviewedAsRead

-----------------------------------------------------------------------------
(* The inductive invariant of the evidence.                                *)


\* A runner holds events of commands that its agent completed, and takes them
\* for evidence only from an adapter it trusts.
LogIsTrue ==
    /\ Task!ToSet(taskRun.head) \subseteq taskRun.ran
    /\ Task!ToSet(taskRun.tail) \subseteq taskRun.ran
    /\ taskRun.seen \subseteq taskRun.ran
    /\ taskRun.seen # {} => taskRun.trusted

\* A run writes nothing before its whole report has been validated.
WritesWhenValid ==
    /\ taskRun.at # "NONE" => runs # 0
    /\ taskRun.at \in {"WORKING", "COLLECT"} =>
         \A k \in Cases : case[k].source # runs /\ case[k].latest.source # runs
    /\ taskRun.at # "APPLY" => taskRun.open = Foreign
    /\ taskRun.at = "APPLY" => /\ Task!ReportIsValid(taskRun.report)
                               /\ taskRun.open \in Cases => case[taskRun.open].known

\* A refused report was that of the last run, which is over.
RefusedIsOver == ended = "REJECTED" => taskRun.at = "NONE" /\ runs # 0

\* The table of test cases.
CasesFit ==
    /\ case \in [Cases -> Task!TestCase]
    /\ \A k \in Cases :
         /\ case[k].source <= runs /\ case[k].latest.source <= runs
         /\ case[k].latest.syncs <= syncs
         /\ case[k].latest.outcome # "NONE" => case[k].known

\* The task and its estimates.
TaskFits ==
    /\ status \in Task!TaskStatus /\ accepting \in BOOLEAN /\ syncs \in 0..MaxSyncs
    /\ estimates \in Seq(Task!Estimates)
    /\ \A i \in DOMAIN estimates : estimates[i].remaining <= estimates[i].points

\* The run.
WorkFits ==
    /\ taskRun \in Task!RunState /\ runs \in 0..MaxRuns
    /\ ended \in {"NONE", "FAILED", "REJECTED", "LOST", "APPLIED"}

\* What a refused report left behind.
RefusedWroteNothing ==
    ended = "REJECTED" => \A k \in Cases : case[k].source # runs /\ case[k].latest.source # runs

\* The inductive invariant.
EvidenceInv == /\ CasesFit /\ TaskFits /\ WorkFits
               /\ LogIsTrue /\ WritesWhenValid /\ RefusedIsOver /\ RefusedWroteNothing

\* What the proofs use of the constants.
LEMMA ConstantsAre ==
    /\ Foreign \notin Cases /\ Unrun \notin Commands /\ Points \subseteq Nat
    /\ "NONE" \notin Verdicts /\ LogLines \in Nat /\ MaxRuns \in Nat /\ MaxSyncs \in Nat
BY EvidenceConstants DEF Task!EvidenceAssumption

-----------------------------------------------------------------------------
(* Sequences of a run.                                                     *)

\* The empty sequence.
LEMMA NoElements ==
    ASSUME NEW S
    PROVE  <<>> \in Seq(S) /\ \A s \in Seq(S) : Len(s) = 0 => \A i \in DOMAIN s : FALSE
OBVIOUS

\* It has no elements.
LEMMA NoneToSet ==
    ASSUME NEW S, NEW s \in Seq(S), Len(s) = 0
    PROVE  Task!ToSet(s) = {}
BY DEF Task!ToSet

\* An element more.
LEMMA AppendSeq ==
    ASSUME NEW S, NEW s \in Seq(S), NEW e \in S
    PROVE  Append(s, e) \in Seq(S) /\ Task!ToSet(Append(s, e)) \subseteq Task!ToSet(s) \cup {e}
<1>1. /\ Append(s, e) \in Seq(S) /\ DOMAIN Append(s, e) = 1..Len(s) + 1 /\ DOMAIN s = 1..Len(s)
      /\ Append(s, e)[Len(s) + 1] = e /\ \A i \in 1..Len(s) : Append(s, e)[i] = s[i]
      /\ Len(s) \in Nat
  OBVIOUS
<1>2. \A i \in 1..Len(s) + 1 : i \in 1..Len(s) \/ i = Len(s) + 1
  BY <1>1
<1> QED
  BY <1>1, <1>2 DEF Task!ToSet

\* A sequence, or all but its first element.
LEMMA DropSeq ==
    ASSUME NEW S, NEW s \in Seq(S), NEW m \in {1, 2}, m <= Len(s) + 1
    PROVE  SubSeq(s, m, Len(s)) \in Seq(S) /\ Task!ToSet(SubSeq(s, m, Len(s))) \subseteq Task!ToSet(s)
BY DEF Task!ToSet

\* Two sequences in a row.
LEMMA ConcatSeq ==
    ASSUME NEW S, NEW s \in Seq(S), NEW t \in Seq(S)
    PROVE  Task!ToSet(s \o t) \subseteq Task!ToSet(s) \cup Task!ToSet(t)
BY DEF Task!ToSet

\* The first element and the others.
LEMMA TailSeq ==
    ASSUME NEW S, NEW s \in Seq(S), s # <<>>
    PROVE  /\ Head(s) \in S /\ Tail(s) \in Seq(S) /\ Head(s) = s[1] /\ 1 \in DOMAIN s
           /\ \A i \in DOMAIN Tail(s) : i + 1 \in DOMAIN s /\ Tail(s)[i] = s[i + 1]
OBVIOUS

-----------------------------------------------------------------------------
(* Rows.                                                                   *)

\* A test case without a result, and with one.
NewRow(required, source) ==
    [known |-> TRUE, required |-> required, source |-> source, latest |-> Task!NoResult]
WithResult(row, r) ==
    [known |-> row.known, required |-> row.required, source |-> row.source, latest |-> r]

\* A test case is made or gets a result.
Writes(k, row) ==
    \A j \in Cases :
      /\ case'[j].known    = IF j = k THEN row.known ELSE case[j].known
      /\ case'[j].required = IF j = k THEN row.required ELSE case[j].required
      /\ case'[j].source   = IF j = k THEN row.source ELSE case[j].source
      /\ case'[j].latest   = IF j = k THEN row.latest ELSE case[j].latest

\* No result counts as a result of nobody.
LEMMA NoResultIsResult ==
    /\ Task!NoResult \in Task!Result
    /\ Task!NoResult.source = 0 /\ Task!NoResult.outcome = "NONE"
BY ConstantsAre DEF Task!NoResult, Task!Result, Task!Claims, Task!ByHand

\* A test case is made.
LEMMA CreateShape ==
    ASSUME EvidenceInv, NEW k \in Cases, NEW required \in BOOLEAN, NEW source \in 0..MaxRuns,
           source <= runs, Task!CreateTestCase(k, required, source), UNCHANGED <<syncs, runs>>
    PROVE  CasesFit' /\ Writes(k, NewRow(required, source))
<1> DEFINE row == NewRow(required, source)
<1>0. CasesFit /\ WorkFits /\ TaskFits
  BY DEF EvidenceInv
<1>1. row \in Task!TestCase /\ row.latest = Task!NoResult /\ row.known /\ row.source = source
  BY NoResultIsResult DEF Task!TestCase, NewRow
<1>2. case' = [case EXCEPT ![k] = row]
  BY DEF Task!CreateTestCase, NewRow
<1> HIDE DEF row
<1>3. case' \in [Cases -> Task!TestCase] /\ Writes(k, row)
  BY <1>0, <1>1, <1>2 DEF CasesFit, Writes
<1>4. Task!NoResult.source = 0 /\ Task!NoResult.syncs = 0 /\ 0 <= runs /\ 0 <= syncs
  BY <1>0, ConstantsAre DEF Task!NoResult, Task!ByHand, WorkFits, TaskFits
<1>5. CasesFit'
  BY <1>0, <1>1, <1>3, <1>4 DEF CasesFit, Writes
<1> QED
  BY <1>3, <1>5 DEF row

\* A test case gets a result.
LEMMA ResultShape ==
    ASSUME EvidenceInv, NEW k \in Cases, NEW r \in Task!Result,
           r.source <= runs, r.syncs = syncs,
           case[k].known, Task!AddTestResult(k, r), UNCHANGED <<syncs, runs>>
    PROVE  CasesFit' /\ Writes(k, WithResult(case[k], r))
<1>0. CasesFit /\ syncs \in Int
  BY DEF EvidenceInv, TaskFits
<1>1. case' = [case EXCEPT ![k].latest = r]
  BY DEF Task!AddTestResult
<1>2. case' \in [Cases -> Task!TestCase] /\ Writes(k, WithResult(case[k], r))
  BY <1>0, <1>1 DEF CasesFit, Writes, Task!TestCase, WithResult
<1> DEFINE row == WithResult(case[k], r)
<1>3. row.known = case[k].known /\ row.source = case[k].source /\ row.latest = r
  BY DEF WithResult
<1>4. case' \in [Cases -> Task!TestCase] /\ Writes(k, row)
  BY <1>2
<1> HIDE DEF row
<1>5. CasesFit'
  <2>1. ASSUME NEW j \in Cases
        PROVE  /\ case'[j].source <= runs' /\ case'[j].latest.source <= runs'
               /\ case'[j].latest.syncs <= syncs'
               /\ case'[j].latest.outcome # "NONE" => case'[j].known
    <3>1. CASE j = k
      <4>1. case'[j].known /\ case'[j].source = case[j].source /\ case'[j].latest = r
        BY <1>3, <1>4, <3>1 DEF Writes
      <4> QED
        BY <1>0, <4>1 DEF CasesFit
    <3>2. CASE j # k
      BY <1>0, <1>4, <3>2 DEF CasesFit, Writes
    <3> QED
      BY <3>1, <3>2
  <2> QED
    BY <1>4, <2>1 DEF CasesFit
<1> QED
  BY <1>2, <1>5

\* A result written now.
LEMMA NewResultIsResult ==
    ASSUME EvidenceInv, NEW outcome \in Verdicts \cup {"NONE"},
           NEW kind \in {"HUMAN", "AGENT_REPORT", "COMMAND"},
           NEW source \in 0..MaxRuns, NEW e \in Task!Executions \cup {Task!NoExecution}
    PROVE  /\ Task!NewResult(outcome, kind, source, e) \in Task!Result
           /\ Task!NewResult(outcome, kind, source, e).source = source
           /\ Task!NewResult(outcome, kind, source, e).syncs = syncs
<1>1. syncs \in 0..MaxSyncs
  BY DEF EvidenceInv, TaskFits
<1>2. e[1] \in Task!Claims /\ e[2] \in {0, 1}
  BY DEF Task!Executions, Task!NoExecution, Task!Claims
<1> QED
  BY <1>1, <1>2 DEF Task!NewResult, Task!Result

-----------------------------------------------------------------------------
(* People.                                                                 *)

\* The task moves.
LEMMA MoveKeeps ==
    ASSUME EvidenceInv, NEW command, Task!Move(command)
    PROVE  status' \in Task!TaskStatus /\ accepting' \in BOOLEAN
BY DEF Task!Move, Task!Target, Task!TaskStatus

\* A legal estimate is recorded.
LEMMA EstimateKeeps ==
    ASSUME EvidenceInv, NEW e \in Task!Estimates, Task!EstimateIsValid(e),
           Task!CreateEstimate(e)
    PROVE  /\ estimates' \in Seq(Task!Estimates)
           /\ \A i \in DOMAIN estimates' : estimates'[i].remaining <= estimates'[i].points
<1>1. TaskFits
  BY DEF EvidenceInv
<1>2. estimates' = Append(estimates, e)
  BY DEF Task!CreateEstimate
<1>3. \A i \in DOMAIN estimates' :
        (i \in DOMAIN estimates /\ estimates'[i] = estimates[i]) \/ estimates'[i] = e
  BY <1>1, <1>2 DEF TaskFits
<1> QED
  BY <1>1, <1>2, <1>3 DEF TaskFits, Task!EstimateIsValid

\* What people write is not a run's.
LEMMA PeopleKeep ==
    ASSUME EvidenceInv, Task!HumanStep
    PROVE  EvidenceInv'
<1>0. /\ CasesFit /\ TaskFits /\ WorkFits /\ RefusedWroteNothing
      /\ LogIsTrue /\ WritesWhenValid /\ RefusedIsOver
  BY DEF EvidenceInv
<1>1. UNCHANGED <<taskRun, runs, ended>>
  BY DEF Task!HumanStep, Task!HumanCreatesTestCase, Task!HumanAddsResult,
     Task!HumanEstimates, Task!Judge, Task!ReviewTask,
         Task!ApplyReview, Task!CompleteSync
<1>2. LogIsTrue' /\ RefusedIsOver' /\ WorkFits'
  BY <1>0, <1>1 DEF LogIsTrue, RefusedIsOver, WorkFits
<1>3. ASSUME NEW k \in Cases, NEW row, CasesFit', Writes(k, row), row.known,
             row.source \in {0, case[k].source}, row.latest.source = 0,
             UNCHANGED <<status, accepting, syncs, estimates>>
      PROVE  EvidenceInv'
  <2>1. \A j \in Cases : /\ case'[j].source \in {0, case[j].source}
                         /\ case'[j].latest.source \in {0, case[j].latest.source}
                         /\ case[j].known => case'[j].known
    BY <1>3 DEF Writes
  <2>2. WritesWhenValid' /\ RefusedWroteNothing'
    BY <1>0, <1>1, <2>1 DEF WritesWhenValid, RefusedIsOver, RefusedWroteNothing,
       Task!ReportIsValid, Task!Known
  <2> QED
    BY <1>0, <1>1, <1>2, <1>3, <2>2 DEF TaskFits, EvidenceInv
<1>4. ASSUME UNCHANGED case, TaskFits', syncs <= syncs'
      PROVE  EvidenceInv'
  <2>1. \A k \in Cases : case[k].latest.syncs \in Int /\ syncs \in Int /\ syncs' \in Int
    BY <1>0, <1>4 DEF CasesFit, Task!TestCase, Task!Result, TaskFits
  <2>2. ASSUME NEW k \in Cases
        PROVE  case[k].latest.syncs <= syncs'
    <3>1. case[k].latest.syncs <= syncs
      BY <1>0 DEF CasesFit
    <3> QED
      BY <1>4, <2>1, <3>1
  <2>3. CasesFit'
    <3>1. ASSUME NEW k \in Cases
          PROVE  /\ case'[k].source <= runs' /\ case'[k].latest.source <= runs'
                 /\ case'[k].latest.syncs <= syncs'
                 /\ case'[k].latest.outcome # "NONE" => case'[k].known
      BY <1>0, <1>1, <1>4, <2>2 DEF CasesFit
    <3> QED
      BY <1>0, <1>4, <3>1 DEF CasesFit
  <2>4. WritesWhenValid' /\ RefusedWroteNothing'
    BY <1>0, <1>1, <1>4 DEF WritesWhenValid, RefusedWroteNothing, Task!ReportIsValid,
       Task!Known
  <2> QED
    BY <1>2, <1>4, <2>3, <2>4 DEF EvidenceInv
<1>5. ASSUME NEW k \in Cases, NEW required \in BOOLEAN, Task!HumanCreatesTestCase(k, required)
      PROVE  EvidenceInv'
  <2>1. 0 \in 0..MaxRuns /\ 0 <= runs
    BY <1>0, ConstantsAre DEF WorkFits
  <2>2. CasesFit' /\ Writes(k, NewRow(required, 0))
    BY <1>5, <2>1, CreateShape DEF Task!HumanCreatesTestCase, Task!ByHand
  <2>3. /\ NewRow(required, 0).known /\ NewRow(required, 0).source = 0
        /\ NewRow(required, 0).latest.source = 0
    BY NoResultIsResult DEF NewRow
  <2> QED
    BY <1>3, <1>5, <2>2, <2>3 DEF Task!HumanCreatesTestCase
<1>6. ASSUME NEW k \in Cases, NEW outcome \in Verdicts, Task!HumanAddsResult(k, outcome)
      PROVE  EvidenceInv'
  <2>1. PICK r : r = Task!NewResult(outcome, "HUMAN", Task!ByHand, Task!NoExecution)
    OBVIOUS
  <2>2. r \in Task!Result /\ r.source = 0 /\ r.source <= runs /\ r.syncs = syncs
    BY <1>0, <2>1, NewResultIsResult, ConstantsAre DEF WorkFits, Task!ByHand
  <2>3. CasesFit' /\ Writes(k, WithResult(case[k], r))
    BY <1>6, <2>1, <2>2, ResultShape DEF Task!HumanAddsResult, Task!Known
  <2>4. /\ WithResult(case[k], r).known /\ WithResult(case[k], r).source = case[k].source
        /\ WithResult(case[k], r).latest.source = 0
    BY <1>6, <2>2 DEF WithResult, Task!HumanAddsResult, Task!Known
  <2> QED
    BY <1>3, <1>6, <2>3, <2>4 DEF Task!HumanAddsResult
<1>7. ASSUME NEW e \in Task!Estimates, Task!HumanEstimates(e)
      PROVE  EvidenceInv'
  BY <1>0, <1>4, <1>7, EstimateKeeps DEF Task!HumanEstimates, TaskFits
<1>8. ASSUME NEW c, Task!Judge(c)
      PROVE  EvidenceInv'
  BY <1>0, <1>4, <1>8, MoveKeeps DEF Task!Judge, TaskFits
<1>9. CASE Task!ReviewTask
  BY <1>0, <1>4, <1>9 DEF Task!ReviewTask, TaskFits
<1>10. CASE Task!ApplyReview
  <2>1. status' \in Task!TaskStatus /\ accepting' \in BOOLEAN
    BY <1>0, <1>10, MoveKeeps DEF Task!ApplyReview, TaskFits
  <2> QED
    BY <1>0, <1>4, <1>10, <2>1 DEF Task!ApplyReview, TaskFits
<1>11. CASE Task!CompleteSync
  BY <1>0, <1>4, <1>11, MoveKeeps, ConstantsAre DEF Task!CompleteSync, TaskFits
<1> QED
  BY <1>5, <1>6, <1>7, <1>8, <1>9, <1>10, <1>11 DEF Task!HumanStep

-----------------------------------------------------------------------------
(* The run, before it writes.                                              *)

\* Steps that write no test case.
LEMMA NothingWritten ==
    ASSUME EvidenceInv, UNCHANGED <<case, syncs>>, runs' \in Int, runs <= runs'
    PROVE  CasesFit'
<1>1. CasesFit /\ WorkFits
  BY DEF EvidenceInv
<1>2. \A k \in Cases : case[k].source \in Int /\ case[k].latest.source \in Int
  BY <1>1, ConstantsAre DEF CasesFit, Task!TestCase, Task!Result
<1>3. runs \in Int
  BY <1>1, ConstantsAre DEF WorkFits
<1>4. ASSUME NEW k \in Cases
      PROVE  case[k].source <= runs' /\ case[k].latest.source <= runs'
  BY <1>1, <1>2, <1>3, <1>4 DEF CasesFit
<1>5. ASSUME NEW k \in Cases
      PROVE  /\ case'[k].source <= runs' /\ case'[k].latest.source <= runs'
             /\ case'[k].latest.syncs <= syncs'
             /\ case'[k].latest.outcome # "NONE" => case'[k].known
  BY <1>1, <1>4 DEF CasesFit
<1> QED
  BY <1>1, <1>5 DEF CasesFit

\* No run holds nothing.
LEMMA NoRunIsRun ==
    /\ Task!NoRun \in Task!RunState /\ Task!NoRun.at = "NONE" /\ Task!NoRun.seen = {}
    /\ Task!NoRun.open = Foreign
    /\ Task!ToSet(Task!NoRun.head) = {} /\ Task!ToSet(Task!NoRun.tail) = {}
    /\ Task!NoRun.ran = {}
<1>1. <<>> \in Seq(Task!Executions) /\ Len(<<>>) = 0 /\ <<>> \in Seq(Task!Items)
  BY NoElements
<1>2. Task!ToSet(Task!NoRun.head) = {} /\ Task!ToSet(Task!NoRun.tail) = {}
  BY <1>1, NoneToSet DEF Task!NoRun
<1> QED
  BY <1>1, <1>2 DEF Task!NoRun, Task!RunState

\* A run that ends takes what its runner held with it.
LEMMA EndKeeps ==
    ASSUME EvidenceInv, NEW how \in {"FAILED", "REJECTED", "LOST", "APPLIED"}, NEW command,
           taskRun.at # "NONE", how = "REJECTED" => taskRun.at = "COLLECT",
           Task!End(how, command), UNCHANGED <<syncs, case, estimates, runs>>
    PROVE  EvidenceInv'
<1>0. TaskFits /\ WorkFits /\ WritesWhenValid
  BY DEF EvidenceInv
<1>1. taskRun' = Task!NoRun /\ ended' = how /\ Task!Move(command)
  BY DEF Task!End
<1>2. CasesFit'
  BY <1>0, NothingWritten, ConstantsAre DEF WorkFits
<1>3. TaskFits'
  BY <1>0, <1>1, MoveKeeps DEF TaskFits
<1>4. WorkFits' /\ LogIsTrue'
  BY <1>0, <1>1, NoRunIsRun DEF WorkFits, LogIsTrue
<1>5. WritesWhenValid' /\ RefusedIsOver'
  BY <1>0, <1>1, NoRunIsRun DEF WritesWhenValid, RefusedIsOver
<1>6. RefusedWroteNothing'
  BY <1>0, <1>1 DEF WritesWhenValid, RefusedWroteNothing
<1> QED
  BY <1>2, <1>3, <1>4, <1>5, <1>6 DEF EvidenceInv

\* A run that has written nothing yet goes on.
LEMMA GoesOn ==
    ASSUME EvidenceInv, taskRun.at \in {"WORKING", "COLLECT"}, taskRun' \in Task!RunState,
           taskRun'.at # "NONE", LogIsTrue',
           taskRun'.open = taskRun.open,
           taskRun'.at = "APPLY" => Task!ReportIsValid(taskRun'.report),
           UNCHANGED <<status, accepting, syncs, case, estimates, runs, ended>>
    PROVE  EvidenceInv'
<1>0. TaskFits /\ WorkFits /\ WritesWhenValid /\ RefusedIsOver /\ RefusedWroteNothing
  BY DEF EvidenceInv
<1>1. CasesFit'
  BY <1>0, NothingWritten, ConstantsAre DEF WorkFits
<1>2. TaskFits' /\ WorkFits'
  BY <1>0 DEF TaskFits, WorkFits
<1>3. RefusedIsOver' /\ RefusedWroteNothing'
  BY <1>0 DEF RefusedIsOver, RefusedWroteNothing
<1>4. taskRun'.at = "APPLY" => Task!ReportIsValid(taskRun.report)'
  BY DEF Task!ReportIsValid, Task!Known
<1>5. WritesWhenValid'
  BY <1>0, <1>4, ConstantsAre DEF WritesWhenValid
<1> QED
  BY <1>1, <1>2, <1>3, <1>5 DEF EvidenceInv

\* A new run has written nothing: its number is new.
LEMMA StartRunKeeps ==
    ASSUME EvidenceInv, Task!StartRun
    PROVE  EvidenceInv'
<1>0. CasesFit /\ TaskFits /\ WorkFits
  BY DEF EvidenceInv
<1>1. PICK trusted \in BOOLEAN : taskRun' = [Task!NoRun EXCEPT !.at = "WORKING", !.trusted = trusted]
  BY DEF Task!StartRun
<1>2. /\ runs < MaxRuns /\ runs' = runs + 1 /\ ended' = "NONE" /\ Task!Move("CLAIM_RUN")
      /\ UNCHANGED <<syncs, case, estimates>>
  BY DEF Task!StartRun
<1>3. /\ runs \in Int /\ runs' \in 0..MaxRuns /\ runs <= runs' /\ runs' \in Int /\ runs' # 0
  BY <1>0, <1>2, ConstantsAre DEF WorkFits
<1>4. CasesFit'
  BY <1>2, <1>3, NothingWritten
<1>5. TaskFits'
  BY <1>0, <1>2, MoveKeeps DEF TaskFits
<1>6. <<>> \in Seq(Task!Executions) /\ <<>> \in Seq(Task!Items)
  BY NoElements
<1>7. /\ taskRun' \in Task!RunState /\ taskRun'.at = "WORKING" /\ taskRun'.open = Foreign
      /\ taskRun'.head = Task!NoRun.head
      /\ taskRun'.tail = Task!NoRun.tail /\ taskRun'.ran = {} /\ taskRun'.seen = {}
  BY <1>1, <1>6 DEF Task!NoRun, Task!RunState
<1>8. WorkFits' /\ LogIsTrue' /\ RefusedIsOver' /\ RefusedWroteNothing'
  BY <1>2, <1>3, <1>7, NoRunIsRun DEF WorkFits, LogIsTrue, RefusedIsOver,
     RefusedWroteNothing
<1>9. ASSUME NEW k \in Cases
      PROVE  case[k].source # runs' /\ case[k].latest.source # runs'
  <2>1. case[k].source \in Int /\ case[k].latest.source \in Int
    BY <1>0, ConstantsAre DEF CasesFit, Task!TestCase, Task!Result
  <2>2. case[k].source <= runs /\ case[k].latest.source <= runs
    BY <1>0 DEF CasesFit
  <2> QED
    BY <1>2, <1>3, <2>1, <2>2
<1>10. WritesWhenValid'
  BY <1>2, <1>3, <1>7, <1>9 DEF WritesWhenValid
<1> QED
  BY <1>4, <1>5, <1>8, <1>10 DEF EvidenceInv

\* What the log keeps is some of what was put into it.
LEMMA LogKeeps ==
    ASSUME taskRun \in Task!RunState, NEW e \in Task!Executions,
           taskRun' = Task!LogWrite([taskRun EXCEPT !.ran = @ \cup {e}], e)
    PROVE  /\ taskRun'.head \in Seq(Task!Executions)
           /\ Task!ToSet(taskRun'.head) \subseteq Task!ToSet(taskRun.head) \cup {e}
           /\ taskRun'.tail \in Seq(Task!Executions)
           /\ Task!ToSet(taskRun'.tail) \subseteq Task!ToSet(taskRun.tail) \cup {e}
           /\ taskRun'.ran = taskRun.ran \cup {e} /\ taskRun'.at = taskRun.at
           /\ taskRun'.seen = taskRun.seen
           /\ taskRun'.trusted = taskRun.trusted /\ taskRun'.report = taskRun.report
           /\ taskRun'.open = taskRun.open
           /\ taskRun' \in Task!RunState
<1>0. taskRun.head \in Seq(Task!Executions) /\ taskRun.tail \in Seq(Task!Executions)
  BY DEF Task!RunState
<1> DEFINE t == Append(taskRun.tail, e)
           m == 1 + (IF Len(t) > LogLines THEN 1 ELSE 0)
<1>1. /\ t \in Seq(Task!Executions)
      /\ Task!ToSet(t) \subseteq Task!ToSet(taskRun.tail) \cup {e} /\ Len(t) \in Nat
      /\ Len(t) >= 1
  BY <1>0, AppendSeq
<1>2. m \in {1, 2} /\ m <= Len(t) + 1
  BY <1>1
<1>3. SubSeq(t, m, Len(t)) \in Seq(Task!Executions) /\ Task!ToSet(SubSeq(t, m, Len(t))) \subseteq Task!ToSet(t)
  <2> HIDE DEF t, m
  <2> QED
    BY <1>1, <1>2, DropSeq
<1>4. /\ Append(taskRun.head, e) \in Seq(Task!Executions)
      /\ Task!ToSet(Append(taskRun.head, e)) \subseteq Task!ToSet(taskRun.head) \cup {e}
  BY <1>0, AppendSeq
<1> DEFINE r == [taskRun EXCEPT !.ran = @ \cup {e}]
<1>7. r \in Task!RunState
  BY DEF Task!RunState
<1>5. CASE Len(taskRun.head) < LogLines
  <2>1. taskRun' = [[taskRun EXCEPT !.ran = @ \cup {e}] EXCEPT !.head = Append(@, e)]
    BY <1>5 DEF Task!LogWrite, Task!RunState
  <2>2. /\ taskRun'.ran = taskRun.ran \cup {e} /\ taskRun'.at = taskRun.at
        /\ taskRun'.seen = taskRun.seen
        /\ taskRun'.trusted = taskRun.trusted /\ taskRun'.report = taskRun.report
        /\ taskRun'.open = taskRun.open
        /\ taskRun'.head = Append(taskRun.head, e) /\ taskRun'.tail = taskRun.tail
    BY <2>1 DEF Task!RunState
  <2>3. taskRun' \in Task!RunState
    <3>1. taskRun' = [r EXCEPT !.head = Append(taskRun.head, e)]
      BY <2>1 DEF Task!RunState
    <3> HIDE DEF r
    <3> QED
      BY <1>4, <1>7, <3>1 DEF Task!RunState
  <2> QED
    BY <1>0, <1>4, <2>2, <2>3
<1>6. CASE ~(Len(taskRun.head) < LogLines)
  <2>1. taskRun' = [[taskRun EXCEPT !.ran = @ \cup {e}] EXCEPT !.tail = SubSeq(t, m, Len(t))]
    BY <1>6 DEF Task!LogWrite, Task!RunState
  <2> HIDE DEF t, m
  <2>2. /\ taskRun'.ran = taskRun.ran \cup {e} /\ taskRun'.at = taskRun.at
        /\ taskRun'.seen = taskRun.seen
        /\ taskRun'.trusted = taskRun.trusted /\ taskRun'.report = taskRun.report
        /\ taskRun'.open = taskRun.open
        /\ taskRun'.head = taskRun.head /\ taskRun'.tail = SubSeq(t, m, Len(t))
    BY <2>1 DEF Task!RunState
  <2>3. taskRun' \in Task!RunState
    <3>1. taskRun' = [r EXCEPT !.tail = SubSeq(t, m, Len(t))]
      BY <2>1
    <3> HIDE DEF r
    <3> QED
      BY <1>3, <1>7, <3>1 DEF Task!RunState
  <2> QED
    BY <1>0, <1>1, <1>3, <2>2, <2>3
<1> QED
  BY <1>5, <1>6

\* What the agent printed was run.
LEMMA ExecuteKeeps ==
    ASSUME EvidenceInv, NEW e \in Task!Executions, Task!Execute(e)
    PROVE  EvidenceInv'
<1>0. taskRun \in Task!RunState /\ LogIsTrue /\ taskRun.at = "WORKING"
  BY DEF EvidenceInv, WorkFits, Task!Execute
<1>1. /\ Task!ToSet(taskRun'.head) \subseteq Task!ToSet(taskRun.head) \cup {e}
      /\ Task!ToSet(taskRun'.tail) \subseteq Task!ToSet(taskRun.tail) \cup {e}
      /\ taskRun'.ran = taskRun.ran \cup {e} /\ taskRun'.at = taskRun.at
      /\ taskRun'.seen = taskRun.seen
      /\ taskRun'.trusted = taskRun.trusted /\ taskRun'.open = taskRun.open
      /\ taskRun' \in Task!RunState
  BY <1>0, LogKeeps DEF Task!Execute
<1>2. LogIsTrue'
  BY <1>0, <1>1 DEF LogIsTrue
<1> QED
  BY <1>0, <1>1, <1>2, GoesOn DEF Task!Execute

\* And so was what the runner reads of the log.
LEMMA AgentExitsKeeps ==
    ASSUME EvidenceInv, Task!AgentExits
    PROVE  EvidenceInv'
<1>0. taskRun \in Task!RunState /\ LogIsTrue /\ taskRun.at = "WORKING"
  BY DEF EvidenceInv, WorkFits, Task!AgentExits
<1>1. PICK report \in Task!Reports :
        taskRun' = [taskRun EXCEPT !.at = "COLLECT", !.report = report, !.seen = Task!Observed(taskRun),
                           !.head = <<>>, !.tail = <<>>]
  BY DEF Task!AgentExits
<1>2. report \in Seq(Task!Items)
  BY EvidenceConstants DEF Task!Reports, Task!EvidenceAssumption
<1>3. <<>> \in Seq(Task!Executions) /\ Len(<<>>) = 0
  BY NoElements
<1>4. /\ taskRun.head \in Seq(Task!Executions) /\ taskRun.tail \in Seq(Task!Executions)
      /\ taskRun.ran \in SUBSET Task!Executions
  BY <1>0 DEF Task!RunState
<1>5. Task!ToSet(taskRun.head \o taskRun.tail) \subseteq taskRun.ran
  BY <1>0, <1>4, ConcatSeq DEF LogIsTrue
<1>6. Task!Observed(taskRun) \subseteq taskRun.ran /\ (Task!Observed(taskRun) # {} => taskRun.trusted)
  BY <1>5 DEF Task!Observed
<1>7. taskRun' \in Task!RunState
  BY <1>0, <1>1, <1>2, <1>3, <1>4, <1>6 DEF Task!RunState
<1>8. /\ taskRun'.at = "COLLECT" /\ taskRun'.seen = Task!Observed(taskRun)
      /\ taskRun'.head = <<>> /\ taskRun'.tail = <<>>
      /\ taskRun'.trusted = taskRun.trusted /\ taskRun'.ran = taskRun.ran
      /\ taskRun'.open = taskRun.open
  BY <1>0, <1>1 DEF Task!RunState
<1>9. Task!ToSet(taskRun'.head) = {} /\ Task!ToSet(taskRun'.tail) = {}
  BY <1>3, <1>8, NoneToSet
<1>10. LogIsTrue'
  BY <1>6, <1>8, <1>9 DEF LogIsTrue
<1> QED
  BY <1>0, <1>7, <1>8, <1>10, GoesOn DEF Task!AgentExits

\* A report is validated as a whole, or refused.
LEMMA CollectKeeps ==
    ASSUME EvidenceInv, Task!CollectResult
    PROVE  EvidenceInv'
<1>0. /\ taskRun \in Task!RunState /\ LogIsTrue /\ taskRun.at = "COLLECT"
      /\ UNCHANGED <<syncs, case, estimates, runs>>
  BY DEF EvidenceInv, WorkFits, Task!CollectResult
<1>1. CASE Task!ReportIsValid(taskRun.report)
  <2>1. taskRun' = [taskRun EXCEPT !.at = "APPLY"] /\ UNCHANGED <<status, accepting, ended>>
    BY <1>1 DEF Task!CollectResult
  <2>2. /\ taskRun' \in Task!RunState /\ taskRun'.at = "APPLY"
        /\ taskRun'.report = taskRun.report /\ taskRun'.open = taskRun.open
        /\ taskRun'.head = taskRun.head /\ taskRun'.tail = taskRun.tail
        /\ taskRun'.seen = taskRun.seen /\ taskRun'.ran = taskRun.ran
        /\ taskRun'.trusted = taskRun.trusted
    BY <1>0, <2>1 DEF Task!RunState
  <2>3. LogIsTrue'
    BY <1>0, <2>2 DEF LogIsTrue
  <2> QED
    BY <1>0, <1>1, <2>1, <2>2, <2>3, GoesOn
<1>2. CASE ~Task!ReportIsValid(taskRun.report)
  BY <1>0, <1>2, EndKeeps DEF Task!CollectResult
<1> QED
  BY <1>1, <1>2

-----------------------------------------------------------------------------
(* The run, as it writes.                                                  *)

\* What is left to write was in the report that was validated.
LEMMA WriteKeeps ==
    ASSUME EvidenceInv, taskRun.at = "APPLY", taskRun' \in Task!RunState, taskRun'.at = "APPLY",
           UNCHANGED <<taskRun.head, taskRun.tail, taskRun.seen, taskRun.ran, taskRun.trusted>>,
           CasesFit', TaskFits', UNCHANGED <<syncs, runs, ended>>,
           \A k \in Task!Known : case'[k].known,
           taskRun'.open \in Cases => case'[taskRun'.open].known,
           \A i \in DOMAIN taskRun'.report :
             \E j \in DOMAIN taskRun.report : taskRun'.report[i] = taskRun.report[j]
    PROVE  EvidenceInv'
<1>0. WorkFits /\ LogIsTrue /\ WritesWhenValid /\ RefusedIsOver
  BY DEF EvidenceInv
<1>1. WorkFits' /\ LogIsTrue'
  BY <1>0 DEF WorkFits, LogIsTrue
<1>2. RefusedIsOver' /\ RefusedWroteNothing'
  BY <1>0 DEF RefusedIsOver, RefusedWroteNothing
<1>3. ASSUME NEW i \in DOMAIN taskRun'.report
      PROVE  /\ taskRun'.report[i].kind = "ESTIMATE" => Task!EstimateIsValid(taskRun'.report[i].estimate)
             /\ taskRun'.report[i].kind = "RESULT" => taskRun'.report[i].case \in Task!Known'
  <2>1. PICK j \in DOMAIN taskRun.report : taskRun'.report[i] = taskRun.report[j]
    OBVIOUS
  <2>2. /\ taskRun.report[j].kind = "ESTIMATE" => Task!EstimateIsValid(taskRun.report[j].estimate)
        /\ taskRun.report[j].kind = "RESULT" => taskRun.report[j].case \in Task!Known
    BY <1>0 DEF WritesWhenValid, Task!ReportIsValid
  <2> QED
    BY <2>1, <2>2 DEF Task!Known, Task!EstimateIsValid
<1>4. Task!ReportIsValid(taskRun.report)'
  BY <1>3 DEF Task!ReportIsValid, Task!EstimateIsValid
<1>5. WritesWhenValid'
  BY <1>0, <1>4 DEF WritesWhenValid
<1> QED
  BY <1>1, <1>2, <1>5 DEF EvidenceInv

\* The first part of a report, which is legal, and what is left after it.
LEMMA WrittenIs ==
    ASSUME EvidenceInv, taskRun.at = "APPLY", taskRun.report # <<>>
    PROVE  /\ Task!Part \in Task!Items /\ Task!Part = taskRun.report[1]
           /\ 1 \in DOMAIN taskRun.report
           /\ Task!Part.kind = "ESTIMATE" => Task!EstimateIsValid(Task!Part.estimate)
           /\ Task!Part.kind = "RESULT" => Task!Part.case \in Task!Known
           /\ Task!Written \in Task!RunState /\ Task!Written.at = taskRun.at
           /\ Task!Written.open = Foreign
           /\ Task!Written.head = taskRun.head /\ Task!Written.tail = taskRun.tail
           /\ Task!Written.seen = taskRun.seen
           /\ Task!Written.ran = taskRun.ran /\ Task!Written.trusted = taskRun.trusted
           /\ \A i \in DOMAIN Task!Written.report :
                \E j \in DOMAIN taskRun.report : Task!Written.report[i] = taskRun.report[j]
<1>0. taskRun \in Task!RunState /\ WritesWhenValid
  BY DEF EvidenceInv, WorkFits
<1>1. taskRun.report \in Seq(Task!Items)
  BY <1>0 DEF Task!RunState
<1>2. /\ Head(taskRun.report) \in Task!Items /\ Tail(taskRun.report) \in Seq(Task!Items)
      /\ Head(taskRun.report) = taskRun.report[1] /\ 1 \in DOMAIN taskRun.report
      /\ \A i \in DOMAIN Tail(taskRun.report) :
           i + 1 \in DOMAIN taskRun.report /\ Tail(taskRun.report)[i] = taskRun.report[i + 1]
  BY <1>1, TailSeq
<1>3. /\ Task!Written.at = taskRun.at /\ Task!Written.open = Foreign
      /\ Task!Written.report = Tail(taskRun.report)
      /\ Task!Written.head = taskRun.head /\ Task!Written.tail = taskRun.tail
      /\ Task!Written.seen = taskRun.seen
      /\ Task!Written.ran = taskRun.ran /\ Task!Written.trusted = taskRun.trusted
  BY <1>0 DEF Task!Written, Task!RunState
<1>4. Task!Written \in Task!RunState
  BY <1>0, <1>2 DEF Task!Written, Task!RunState
<1>5. /\ Task!Part.kind = "ESTIMATE" => Task!EstimateIsValid(Task!Part.estimate)
      /\ Task!Part.kind = "RESULT" => Task!Part.case \in Task!Known
  BY <1>0, <1>2 DEF WritesWhenValid, Task!ReportIsValid, Task!Part
<1>6. \A i \in DOMAIN Task!Written.report :
        \E j \in DOMAIN taskRun.report : Task!Written.report[i] = taskRun.report[j]
  BY <1>2, <1>3
<1> QED
  BY <1>2, <1>3, <1>4, <1>5, <1>6 DEF Task!Part

\* The estimate of a report is written.
LEMMA ApplyEstimateKeeps ==
    ASSUME EvidenceInv, Task!ApplyEstimate
    PROVE  EvidenceInv'
<1>0. CasesFit /\ TaskFits /\ WorkFits /\ WritesWhenValid
  BY DEF EvidenceInv
<1>1. /\ taskRun.at = "APPLY" /\ taskRun.report # <<>> /\ Task!Part.kind = "ESTIMATE"
      /\ taskRun' = Task!Written
      /\ Task!CreateEstimate(Task!Part.estimate)
      /\ UNCHANGED <<status, accepting, syncs, case, runs, ended>>
  BY DEF Task!ApplyEstimate
<1>2. Task!Part \in Task!Items /\ Task!EstimateIsValid(Task!Part.estimate)
  BY <1>1, WrittenIs
<1>3. Task!Part.estimate \in Task!Estimates
  BY <1>1, <1>2 DEF Task!Items
<1>4. TaskFits'
  BY <1>0, <1>1, <1>2, <1>3, EstimateKeeps DEF TaskFits
<1>5. CasesFit'
  BY <1>0, <1>1, NothingWritten, ConstantsAre DEF WorkFits
<1>6. Foreign \notin Cases
  BY ConstantsAre
<1> QED
  BY <1>1, <1>4, <1>5, <1>6, WrittenIs, WriteKeeps DEF Task!Known

\* A new test case of a report is written.
LEMMA ApplyNewCaseKeeps ==
    ASSUME EvidenceInv, NEW k \in Cases, Task!ApplyNewCase(k)
    PROVE  EvidenceInv'
<1>0. CasesFit /\ TaskFits /\ WorkFits
  BY DEF EvidenceInv
<1>1. /\ taskRun.at = "APPLY" /\ taskRun.report # <<>> /\ Task!Part.kind = "NEW"
      /\ k \notin Task!Known
      /\ Task!CreateTestCase(k, Task!Part.required, runs)
      /\ taskRun' = IF Task!Part.outcome = "NONE" THEN Task!Written ELSE [taskRun EXCEPT !.open = k]
      /\ UNCHANGED <<status, accepting, syncs, estimates, runs, ended>>
  BY DEF Task!ApplyNewCase
<1>2. Task!Part \in Task!Items
  BY <1>1, WrittenIs
<1>3. Task!Part.required \in BOOLEAN
  BY <1>1, <1>2 DEF Task!Items
<1>4. runs \in 0..MaxRuns /\ runs <= runs
  BY <1>0, ConstantsAre DEF WorkFits
<1>5. CasesFit' /\ Writes(k, NewRow(Task!Part.required, runs))
  BY <1>1, <1>3, <1>4, CreateShape
<1>6. case'[k].known /\ \A j \in Task!Known : case'[j].known
  BY <1>5 DEF Writes, NewRow, Task!Known
<1>7. TaskFits'
  BY <1>0, <1>1 DEF TaskFits
<1>8. CASE Task!Part.outcome = "NONE"
  BY <1>1, <1>5, <1>6, <1>7, <1>8, WrittenIs, WriteKeeps, ConstantsAre
<1>9. CASE Task!Part.outcome # "NONE"
  <2>1. taskRun' = [taskRun EXCEPT !.open = k]
    BY <1>1, <1>9
  <2>2. /\ taskRun' \in Task!RunState /\ taskRun'.at = taskRun.at /\ taskRun'.open = k
        /\ taskRun'.report = taskRun.report
        /\ UNCHANGED <<taskRun.head, taskRun.tail, taskRun.seen, taskRun.ran, taskRun.trusted>>
    BY <1>0, <2>1 DEF WorkFits, Task!RunState
  <2> QED
    BY <1>1, <1>5, <1>6, <1>7, <2>2, WriteKeeps
<1> QED
  BY <1>8, <1>9

\* A claim's result is the run's, written now.
LEMMA ClaimedIsResult ==
    ASSUME EvidenceInv, NEW command, NEW outcome \in Verdicts \cup {"NONE"},
           NEW r \in Task!ClaimedResults(command, outcome)
    PROVE  /\ r \in Task!Result /\ r.source = runs /\ r.syncs = syncs
           /\ r.kind = "COMMAND" => /\ taskRun.seen # {}
                                    /\ <<r.command, r.exit>> \in taskRun.seen
                                    /\ r.exit = 0 <=> r.outcome = "PASSED"
<1>0. taskRun \in Task!RunState /\ runs \in 0..MaxRuns
  BY DEF EvidenceInv, WorkFits
<1>1. CASE Task!Matches(command, outcome) = {}
  <2>1. r = Task!NewResult(outcome, "AGENT_REPORT", runs, Task!NoExecution)
    BY <1>1 DEF Task!ClaimedResults
  <2>2. r.kind = "AGENT_REPORT"
    BY <2>1 DEF Task!NewResult
  <2> QED
    BY <1>0, <2>1, <2>2, NewResultIsResult
<1>2. CASE Task!Matches(command, outcome) # {}
  <2>1. PICK e \in Task!Matches(command, outcome) : r = Task!NewResult(outcome, "COMMAND", runs, e)
    BY <1>2 DEF Task!ClaimedResults
  <2>2. /\ e \in taskRun.seen /\ e \in Task!Executions
        /\ \/ outcome = "PASSED" /\ e[2] = 0
           \/ outcome = "FAILED" /\ e[2] # 0
    BY <1>0 DEF Task!Matches, Task!RunState
  <2>3. e = <<e[1], e[2]>>
    BY <2>2 DEF Task!Executions
  <2>4. r.command = e[1] /\ r.exit = e[2] /\ r.outcome = outcome
    BY <2>1 DEF Task!NewResult
  <2> QED
    BY <1>0, <2>1, <2>2, <2>3, <2>4, NewResultIsResult
<1> QED
  BY <1>1, <1>2

\* Whose claim a result is.
LEMMA ClaimShape ==
    ASSUME EvidenceInv, NEW k \in Cases, Task!ApplyResult(k)
    PROVE  case[k].known /\ Task!Part.outcome \in Verdicts \cup {"NONE"}
<1>0. WritesWhenValid
  BY DEF EvidenceInv
<1>1. /\ taskRun.at = "APPLY" /\ taskRun.report # <<>>
      /\ \/ Task!Part.kind = "NEW" /\ k = taskRun.open
         \/ Task!Part.kind = "RESULT" /\ k = Task!Part.case
  BY DEF Task!ApplyResult
<1>2. Task!Part \in Task!Items /\ (Task!Part.kind = "RESULT" => Task!Part.case \in Task!Known)
  BY <1>1, WrittenIs
<1>3. Task!Part.outcome \in Verdicts \cup {"NONE"}
  BY <1>1, <1>2 DEF Task!Items
<1> QED
  BY <1>0, <1>1, <1>2, <1>3 DEF WritesWhenValid, Task!Known

\* A result of a report is written.
LEMMA ApplyResultKeeps ==
    ASSUME EvidenceInv, NEW k \in Cases, Task!ApplyResult(k)
    PROVE  EvidenceInv'
<1>0. CasesFit /\ TaskFits /\ WorkFits
  BY DEF EvidenceInv
<1>1. /\ taskRun.at = "APPLY" /\ taskRun.report # <<>> /\ taskRun' = Task!Written
      /\ UNCHANGED <<status, accepting, syncs, estimates, runs, ended>>
  BY DEF Task!ApplyResult
<1>2. case[k].known /\ Task!Part.outcome \in Verdicts \cup {"NONE"}
  BY ClaimShape
<1>3. CasesFit' /\ \A j \in Task!Known : case'[j].known
  <2>1. CASE UNCHANGED case
    BY <1>0, <1>1, <2>1, NothingWritten, ConstantsAre DEF WorkFits, Task!Known
  <2>2. ASSUME NEW r \in Task!ClaimedResults(Task!Part.command, Task!Part.outcome),
               Task!AddTestResult(k, r)
        PROVE  CasesFit' /\ \A j \in Task!Known : case'[j].known
    <3>1. r \in Task!Result /\ r.source = runs /\ r.syncs = syncs
      BY <1>2, ClaimedIsResult
    <3>2. r.source <= runs
      BY <1>0, <3>1, ConstantsAre DEF WorkFits
    <3>3. CasesFit' /\ Writes(k, WithResult(case[k], r))
      BY <1>1, <1>2, <2>2, <3>1, <3>2, ResultShape
    <3> QED
      BY <3>3 DEF Writes, WithResult, Task!Known
  <2> QED
    BY <2>1, <2>2 DEF Task!ApplyResult
<1>4. TaskFits'
  BY <1>0, <1>1 DEF TaskFits
<1> QED
  BY <1>1, <1>3, <1>4, WrittenIs, WriteKeeps, ConstantsAre

-----------------------------------------------------------------------------
(* The invariant and the theorems about the evidence.                      *)

\* A task without test cases.
LEMMA InitEvidence ==
    ASSUME Task!Init
    PROVE  EvidenceInv
<1>1. /\ status = "READY" /\ accepting = FALSE /\ syncs = 0
      /\ case = [k \in Cases |-> Task!NoCase]
      /\ estimates = <<>> /\ taskRun = Task!NoRun /\ runs = 0 /\ ended = "NONE"
  BY DEF Task!Init
<1>2. syncs \in 0..MaxSyncs /\ runs \in 0..MaxRuns /\ 0 \in 0..MaxRuns
  BY <1>1, ConstantsAre
<1>3. /\ Task!NoCase \in Task!TestCase /\ Task!NoCase.source = 0
      /\ Task!NoCase.latest = Task!NoResult /\ Task!NoCase.known = FALSE
      /\ Task!NoResult.syncs = 0
  BY <1>2, NoResultIsResult DEF Task!NoCase, Task!TestCase, Task!ByHand, Task!NoResult
<1>4. CasesFit
  BY <1>1, <1>3, NoResultIsResult DEF CasesFit
<1>5. estimates \in Seq(Task!Estimates) /\ Len(estimates) = 0
  BY <1>1, NoElements
<1>6. \A i \in DOMAIN estimates : estimates[i].remaining <= estimates[i].points
  BY <1>5, NoElements
<1>7. TaskFits
  BY <1>1, <1>2, <1>5, <1>6 DEF TaskFits, Task!TaskStatus
<1>8. WorkFits /\ LogIsTrue /\ WritesWhenValid /\ RefusedIsOver /\ RefusedWroteNothing
  BY <1>1, <1>2, NoRunIsRun DEF WorkFits, LogIsTrue, WritesWhenValid, RefusedIsOver,
     RefusedWroteNothing
<1> QED
  BY <1>4, <1>7, <1>8 DEF EvidenceInv

\* Each step keeps the invariant.
LEMMA NextEvidence ==
    ASSUME EvidenceInv, [Task!Next]_Task!vars
    PROVE  EvidenceInv'
<1>1. CASE Task!HumanStep
  BY <1>1, PeopleKeep
<1>2. CASE Task!RunStep
  <2>1. CASE Task!StartRun
    BY <2>1, StartRunKeeps
  <2>2. CASE Task!AgentFails
    BY <2>2, EndKeeps DEF Task!AgentFails
  <2>3. CASE Task!AgentExits
    BY <2>3, AgentExitsKeeps
  <2>4. CASE Task!CollectResult
    BY <2>4, CollectKeeps
  <2>5. CASE Task!ApplyEstimate
    BY <2>5, ApplyEstimateKeeps
  <2>6. CASE Task!WriteFails
    BY <2>6, EndKeeps DEF Task!WriteFails
  <2>7. CASE Task!RunnerDies
    BY <2>7, EndKeeps DEF Task!RunnerDies
  <2>8. CASE Task!Finish
    BY <2>8, EndKeeps DEF Task!Finish
  <2>9. ASSUME NEW e \in Task!Executions, Task!Execute(e)
        PROVE  EvidenceInv'
    BY <2>9, ExecuteKeeps
  <2>10. ASSUME NEW k \in Cases, Task!ApplyNewCase(k) \/ Task!ApplyResult(k)
         PROVE  EvidenceInv'
    BY <2>10, ApplyNewCaseKeeps, ApplyResultKeeps
  <2> QED
    BY <1>2, <2>1, <2>2, <2>3, <2>4, <2>5, <2>6, <2>7, <2>8, <2>9, <2>10 DEF Task!RunStep
<1>3. CASE UNCHANGED Task!vars
  <2>1. UNCHANGED <<status, accepting, syncs, case, estimates, taskRun, runs, ended>>
    BY <1>3 DEF Task!vars
  <2>2. /\ CasesFit /\ TaskFits /\ WorkFits /\ LogIsTrue /\ WritesWhenValid /\ RefusedIsOver
        /\ RefusedWroteNothing
    BY DEF EvidenceInv
  <2>3. CasesFit' /\ TaskFits' /\ WorkFits'
    BY <2>1, <2>2 DEF CasesFit, TaskFits, WorkFits
  <2>4. LogIsTrue' /\ RefusedIsOver' /\ RefusedWroteNothing'
    BY <2>1, <2>2 DEF LogIsTrue, RefusedIsOver, RefusedWroteNothing
  <2>5. WritesWhenValid'
    BY <2>1, <2>2 DEF WritesWhenValid, Task!ReportIsValid, Task!Known
  <2> QED
    BY <2>3, <2>4, <2>5 DEF EvidenceInv
<1> QED
  BY <1>1, <1>2, <1>3 DEF Task!Next

\* The two queries judge alike.
LEMMA QueriesAgree == CasesFit /\ TaskFits => Task!ProgressAgreesWithReview
<1> SUFFICES ASSUME CasesFit, TaskFits PROVE Task!ProgressAgreesWithReview
  OBVIOUS
<1>1. ASSUME NEW k \in Task!Required
      PROVE  k \in Task!Missing <=> k \notin Task!VerifiedPassed
  <2>1. k \in Cases /\ case[k].latest.syncs \in Int /\ syncs \in Int
    BY ConstantsAre DEF CasesFit, TaskFits, Task!TestCase, Task!Result, Task!Required,
       Task!Known
  <2>2. "PASSED" # "NONE"
    OBVIOUS
  <2> QED
    BY <1>1, <2>1, <2>2 DEF Task!Missing, Task!VerifiedPassed, Task!Stale
<1>2. Task!Missing \subseteq Task!Required /\ Task!VerifiedPassed \subseteq Task!Required
  BY DEF Task!Missing, Task!VerifiedPassed
<1> QED
  BY <1>1, <1>2 DEF Task!ProgressAgreesWithReview

\* The invariant says what the run checks.
LEMMA EvidenceInvSays == EvidenceInv => Task!EvidenceInvariant
<1> SUFFICES ASSUME EvidenceInv PROVE Task!EvidenceInvariant
  OBVIOUS
<1>1. CasesFit /\ TaskFits /\ WorkFits /\ RefusedWroteNothing
  BY DEF EvidenceInv
<1>2. Task!TypeOK
  BY <1>1 DEF CasesFit, TaskFits, WorkFits, Task!TypeOK
<1>3. Task!RejectedReportWritesNothing
  BY <1>1 DEF CasesFit, RefusedWroteNothing, Task!RejectedReportWritesNothing
<1> QED
  BY <1>1, <1>2, <1>3, QueriesAgree DEF Task!EvidenceInvariant

\* The inductive invariant holds in every reachable state.
THEOREM EvidenceInvariance == Task!Spec => []EvidenceInv
<1>1. Task!Init => EvidenceInv
  BY InitEvidence
<1>2. EvidenceInv /\ [Task!Next]_Task!vars => EvidenceInv'
  BY NextEvidence
<1> QED
  BY <1>1, <1>2, PTL DEF Task!Spec

\* Progress and acceptance judge the results of a task alike, and a report that was
\* refused wrote none of them.
THEOREM EvidenceIsKept == Task!Spec => []EvidenceInvariant
<1>1. EvidenceInv => EvidenceInvariant
  BY EvidenceInvSays DEF EvidenceInvariant
<1> QED
  BY <1>1, EvidenceInvariance, PTL

-----------------------------------------------------------------------------
(* What a step may never do with the evidence.                             *)

\* A result that names a command names one that was seen.
Observes(k) ==
    LET r == case'[k].latest IN
    (r # case[k].latest /\ r.kind = "COMMAND") =>
       /\ taskRun.trusted
       /\ <<r.command, r.exit>> \in taskRun.ran
       /\ r.exit = 0 <=> r.outcome = "PASSED"

\* Only a run's result may be evidence of a command.
LEMMA StepObserves ==
    ASSUME EvidenceInv, [Task!Next]_Task!vars, NEW k \in Cases
    PROVE  Observes(k)
<1>0. CasesFit /\ LogIsTrue /\ WorkFits /\ case \in [Cases -> Task!TestCase]
  BY DEF EvidenceInv, CasesFit
<1>1. CASE UNCHANGED case
  BY <1>1 DEF Observes
<1>2. ASSUME NEW j \in Cases, NEW required, NEW source, Task!CreateTestCase(j, required, source)
      PROVE  Observes(k)
  <2>1. case'[k].latest = case[k].latest \/ case'[k].latest = Task!NoResult
    BY <1>0, <1>2 DEF Task!CreateTestCase
  <2> QED
    BY <2>1 DEF Observes, Task!NoResult
<1>3. ASSUME NEW j \in Cases, NEW r \in Task!Result, Task!AddTestResult(j, r),
             r.kind = "COMMAND" => /\ taskRun.seen # {}
                                   /\ <<r.command, r.exit>> \in taskRun.seen
                                   /\ r.exit = 0 <=> r.outcome = "PASSED"
      PROVE  Observes(k)
  <2>1. case'[k].latest = case[k].latest \/ case'[k].latest = r
    BY <1>0, <1>3 DEF Task!AddTestResult, Task!TestCase
  <2> QED
    BY <1>0, <1>3, <2>1 DEF Observes, LogIsTrue
<1>4. ASSUME NEW j \in Cases, NEW b \in BOOLEAN, Task!HumanCreatesTestCase(j, b)
      PROVE  Observes(k)
  BY <1>2, <1>4 DEF Task!HumanCreatesTestCase
<1>5. ASSUME NEW j \in Cases, NEW o \in Verdicts, Task!HumanAddsResult(j, o)
      PROVE  Observes(k)
  <2>1. PICK r : r = Task!NewResult(o, "HUMAN", Task!ByHand, Task!NoExecution)
    OBVIOUS
  <2>2. r \in Task!Result /\ r.kind = "HUMAN"
    BY <1>0, <2>1, NewResultIsResult, ConstantsAre DEF Task!NewResult, Task!ByHand
  <2> QED
    BY <1>3, <1>5, <2>1, <2>2 DEF Task!HumanAddsResult
<1>6. ASSUME NEW j \in Cases, Task!ApplyNewCase(j)
      PROVE  Observes(k)
  BY <1>2, <1>6 DEF Task!ApplyNewCase
<1>7. ASSUME NEW j \in Cases, Task!ApplyResult(j)
      PROVE  Observes(k)
  <2>1. Task!Part.outcome \in Verdicts \cup {"NONE"}
    BY <1>7, ClaimShape
  <2>2. ASSUME NEW r \in Task!ClaimedResults(Task!Part.command, Task!Part.outcome),
               Task!AddTestResult(j, r)
        PROVE  Observes(k)
    BY <1>3, <2>1, <2>2, ClaimedIsResult
  <2> QED
    BY <1>1, <1>7, <2>2 DEF Task!ApplyResult
<1> QED
  BY <1>1, <1>4, <1>5, <1>6, <1>7
     DEF Task!Next, Task!HumanStep, Task!RunStep, Task!vars, Task!HumanEstimates,
     Task!Judge, Task!ReviewTask, Task!ApplyReview, Task!CompleteSync,
         Task!StartRun, Task!AgentFails, Task!AgentExits, Task!CollectResult,
         Task!ApplyEstimate, Task!WriteFails, Task!RunnerDies, Task!Finish,
         Task!Execute, Task!End

\* Evidence of a command is of a command that the run at work completed, with the
\* exit code it had.
THEOREM EvidenceWasObserved == Task!Spec => CommandEvidenceWasObserved
<1>1. EvidenceInv /\ [Task!Next]_Task!vars => \A k \in Cases : Observes(k)
  BY StepObserves
<1>2. (\A k \in Cases : Observes(k)) =>
        \A k \in Cases :
          LET r == case'[k].latest IN
          (r # case[k].latest /\ r.kind = "COMMAND") =>
             /\ taskRun.trusted
             /\ <<r.command, r.exit>> \in taskRun.ran
             /\ r.exit = 0 <=> r.outcome = "PASSED"
  BY DEF Observes
<1> QED
  BY <1>1, <1>2, EvidenceInvariance, PTL DEF Task!Spec, CommandEvidenceWasObserved,
     Task!CommandEvidenceWasObserved

\* An acceptance finds every required test case passed.
Accepts ==
    (status # "ACCEPTED" /\ status' = "ACCEPTED") =>
       \A k \in Cases : (case'[k].known /\ case'[k].required) =>
          /\ case'[k].latest.outcome = "PASSED"
          /\ case'[k].latest.kind \in {"HUMAN", "COMMAND"}
          /\ case'[k].latest.syncs = syncs'

\* Only a review accepts, and it has looked again.
LEMMA OnlyReviewAccepts ==
    ASSUME EvidenceInv, [Task!Next]_Task!vars, status # "ACCEPTED", status' = "ACCEPTED"
    PROVE  Task!Missing = {} /\ UNCHANGED <<syncs, case>>
<1>1. ASSUME NEW c \in {"REJECT", "RETRY", "REQUEST_CHANGES", "SYNC_TARGET", "CLAIM_RUN", "RUN_FAILED",
                        "CANCEL_RUN", "NEEDS_INPUT", "RUN_SUCCEEDED"}, Task!Move(c)
      PROVE  FALSE
  BY <1>1 DEF Task!Move, Task!Target
<1>2. ~Task!HumanStep \/ Task!ApplyReview
  BY <1>1 DEF Task!HumanStep, Task!HumanCreatesTestCase, Task!HumanAddsResult,
     Task!HumanEstimates, Task!Judge, Task!ReviewTask, Task!CompleteSync
<1>3. ~Task!RunStep
  BY <1>1 DEF Task!RunStep, Task!StartRun, Task!AgentFails, Task!AgentExits,
     Task!CollectResult, Task!ApplyEstimate, Task!WriteFails, Task!RunnerDies,
              Task!Finish, Task!Execute, Task!End, Task!ApplyNewCase, Task!ApplyResult
<1>4. Task!ApplyReview
  BY <1>2, <1>3 DEF Task!Next, Task!vars
<1> QED
  BY <1>4 DEF Task!ApplyReview

\* And so acceptance is verified in its own step.
LEMMA StepAccepts ==
    ASSUME EvidenceInv, [Task!Next]_Task!vars
    PROVE  Accepts
<1> SUFFICES ASSUME status # "ACCEPTED", status' = "ACCEPTED", NEW k \in Cases,
                    case'[k].known, case'[k].required
             PROVE  /\ case'[k].latest.outcome = "PASSED"
                    /\ case'[k].latest.kind \in {"HUMAN", "COMMAND"}
                    /\ case'[k].latest.syncs = syncs'
  BY DEF Accepts
<1>1. Task!Missing = {} /\ UNCHANGED <<syncs, case>>
  BY OnlyReviewAccepts
<1>2. k \in Task!Required
  BY <1>1 DEF Task!Required, Task!Known
<1>3. /\ case[k].latest.outcome = "PASSED" /\ case[k].latest.kind \in {"HUMAN", "COMMAND"}
      /\ ~(case[k].latest.syncs < syncs)
  BY <1>1, <1>2 DEF Task!Missing
<1>4. case[k].latest.syncs <= syncs /\ case[k].latest.syncs \in Int /\ syncs \in Int
  BY ConstantsAre DEF EvidenceInv, CasesFit, TaskFits, Task!TestCase, Task!Result
<1> QED
  BY <1>1, <1>3, <1>4

\* When a task is accepted, the latest result of each required test case is a pass,
\* not on the word of an agent and not from before a synchronization.
THEOREM AcceptedIsVerified == Task!Spec => AcceptanceIsVerified
<1>1. EvidenceInv /\ [Task!Next]_Task!vars => Accepts
  BY StepAccepts
<1> QED
  BY <1>1, EvidenceInvariance, PTL DEF Task!Spec, AcceptanceIsVerified,
     Task!AcceptanceIsVerified, Accepts

-----------------------------------------------------------------------------
(* Together.                                                               *)

\* Where topic and task take turns, both are what they are alone.
THEOREM ReviewIsSound ==
    ReviewSpec => /\ [](TopicInvariant /\ PlanHeardEverybody /\ EvidenceInvariant)
                  /\ ReviewedAsRead /\ CommandEvidenceWasObserved /\ AcceptanceIsVerified
<1>1. ReviewInit => Init /\ Task!Init
  BY DEF ReviewInit
<1>2. [ReviewNext]_<<part, vars, evidenceVars>> => [Next]_vars /\ [Task!Next]_Task!vars
  BY DEF ReviewNext, vars, evidenceVars, Task!vars
<1>3. ReviewSpec => Spec /\ Task!Spec
  BY <1>1, <1>2, PTL DEF ReviewSpec, Spec, Task!Spec
<1> QED
  BY <1>3, TopicTablesAgree, PlansHeardEverybody, VerdictIsOnThePage, EvidenceIsKept,
     EvidenceWasObserved, AcceptedIsVerified, PTL
=============================================================================
