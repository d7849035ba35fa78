--------------------------- MODULE Policy_proofs ---------------------------
(***************************************************************************)
(* Proofs about what an agent may use: about ExperienceLedger, for every   *)
(* set of experiences and subjects and every finite set of runs, and about *)
(* RunPolicy, for every set of profiles, skills, servers and people.       *)
(*                                                                         *)
(* The ledger's inductive invariant says that nothing reaches a prompt     *)
(* which no person verified, and that the counters of a record are the     *)
(* numbers of the runs that reported; the policy's, that what a runner has *)
(* made so far is made of the revision its run was claimed with, and that  *)
(* a refresh that can still be stored is at least as new as the catalogue. *)
(***************************************************************************)
EXTENDS MCPolicy, FiniteSetTheorems, TLAPS

\* A record that is not there yet is blank, and only people verify.
VerifiedByPeople ==
    \A e \in Experiences :
        /\ record[e].status = "ABSENT"    => record[e] = NoRecord
        /\ record[e].status = "CANDIDATE" => record[e].verified = 0
        /\ record[e].status = "ACTIVE"    => record[e].verified = 1

\* An experience is for everything, or for the subject of the run or one linked to it.
InScope(e, r) == record[e].wide \/ record[e].subject \in {task[r]} \cup linked[r]

\* What a runner found and what it was told, was verified and is in scope.
FoundIsVerified ==
    \A r \in Runs : \A e \in run[r].found \cup run[r].prompt :
        record[e].verified >= 1 /\ InScope(e, r)

\* Only what was verified is recalled.
RecalledIsVerified ==
    \A r \in Runs, e \in Experiences : recall[r][e] # "NONE" => record[e].verified >= 1

\* The inductive invariant.
IInv == /\ TypeOK /\ VerifiedByPeople /\ FoundIsVerified /\ RecalledIsVerified
        /\ CountersTellTheOutcomes /\ SupersededHasSuccessor /\ OneCandidateEach

-----------------------------------------------------------------------------
(* Records.                                                                *)

\* A record keeps what it is about, and never loses its verification.
Kept(e) ==
    record[e].status # "ABSENT" =>
        /\ record'[e].status # "ABSENT"
        /\ record'[e].subject = record[e].subject /\ record'[e].wide = record[e].wide
        /\ record'[e].source = record[e].source
        /\ record'[e].supersedes = record[e].supersedes
        /\ record'[e].verified >= record[e].verified

\* A blank record that gets written.
Written(e, c) == record[e].status = "ABSENT" /\ record'[e] = c

\* The record a person writes, and the one a run proposes.
Created(s, w, p, old) ==
    [NoRecord EXCEPT !.status = "ACTIVE", !.subject = s, !.wide = w, !.pinned = p,
                     !.supersedes = old, !.verified = 1]

Proposed(r, w) ==
    [NoRecord EXCEPT !.status = "CANDIDATE", !.wide = w, !.subject = task[r], !.source = r]

\* The fields of a record that a person writes.
LEMMA CreatedRecord ==
    ASSUME NEW s \in Subjects, NEW w \in BOOLEAN, NEW p \in BOOLEAN,
           NEW old \in Experiences \cup {Nothing}
    PROVE  LET c == Created(s, w, p, old) IN
           /\ c.status = "ACTIVE" /\ c.subject = s /\ c.wide = w /\ c.source = Nothing
           /\ c.supersedes = old /\ c.verified = 1 /\ c.helped = 0 /\ c.harmed = 0
           /\ c \in ExperienceRecord
<1>1. NoRecord \in ExperienceRecord
  <2>1. 0 \in 0..1 /\ "ABSENT" \in Statuses
    BY DEF Statuses
  <2> QED
    BY <2>1 DEF NoRecord, ExperienceRecord
<1>2. 1 \in 0..1 /\ "ACTIVE" \in Statuses
  BY DEF Statuses
<1>3. Created(s, w, p, old) \in ExperienceRecord
  BY <1>1, <1>2 DEF Created, ExperienceRecord
<1>4. LET c == Created(s, w, p, old) IN
      /\ c.status = "ACTIVE" /\ c.subject = s /\ c.wide = w
      /\ c.supersedes = old /\ c.verified = 1
  BY <1>1 DEF Created, ExperienceRecord
<1>5. LET c == Created(s, w, p, old) IN
      c.source = Nothing /\ c.helped = 0 /\ c.harmed = 0
  <2>1. NoRecord.source = Nothing /\ NoRecord.helped = 0 /\ NoRecord.harmed = 0
    BY DEF NoRecord
  <2> QED
    BY <1>1, <2>1 DEF Created, ExperienceRecord
<1> QED
  BY <1>3, <1>4, <1>5

\* The fields of a record that a run proposes.
LEMMA ProposedRecord ==
    ASSUME NEW r \in Runs, NEW w \in BOOLEAN, task[r] \in Subjects
    PROVE  LET c == Proposed(r, w) IN
           /\ c.status = "CANDIDATE" /\ c.subject = task[r] /\ c.wide = w /\ c.source = r
           /\ c.supersedes = Nothing /\ c.verified = 0 /\ c.helped = 0 /\ c.harmed = 0
           /\ c \in ExperienceRecord
<1>1. NoRecord \in ExperienceRecord
  <2>1. 0 \in 0..1 /\ "ABSENT" \in Statuses
    BY DEF Statuses
  <2> QED
    BY <2>1 DEF NoRecord, ExperienceRecord
<1>2. "CANDIDATE" \in Statuses
  BY DEF Statuses
<1>3. Proposed(r, w) \in ExperienceRecord
  BY <1>1, <1>2 DEF Proposed, ExperienceRecord
<1>4. LET c == Proposed(r, w) IN
      c.status = "CANDIDATE" /\ c.subject = task[r] /\ c.wide = w /\ c.source = r
  BY <1>1 DEF Proposed, ExperienceRecord
<1>5. LET c == Proposed(r, w) IN
      c.supersedes = Nothing /\ c.verified = 0 /\ c.helped = 0 /\ c.harmed = 0
  <2>1. /\ NoRecord.supersedes = Nothing /\ NoRecord.verified = 0
        /\ NoRecord.helped = 0 /\ NoRecord.harmed = 0
    BY DEF NoRecord
  <2> QED
    BY <1>1, <2>1 DEF Proposed, ExperienceRecord
<1> QED
  BY <1>3, <1>4, <1>5

\* A person's record, which may end another one.
Revision(e, s, old) ==
    /\ \E w, p \in BOOLEAN : Written(e, Created(s, w, p, old))
    /\ old # Nothing => /\ old # e /\ record[old].subject = s
                        /\ record[old].status # "ABSENT"
                        /\ record'[old] = [record[old] EXCEPT !.status = "SUPERSEDED"]
    /\ \A x \in Experiences \ {e, old} : record'[x] = record[x]

\* What a person creates.
LEMMA CreateVerifiedShape ==
    ASSUME IInv, NEW e \in Experiences, NEW s \in Subjects,
           NEW old \in Experiences \cup {Nothing}, CreateVerified(e, s, old)
    PROVE  record' \in [Experiences -> ExperienceRecord] /\ Revision(e, s, old)
<1>1. /\ record \in [Experiences -> ExperienceRecord] /\ record[e].status = "ABSENT"
      /\ Nothing \notin Experiences
      /\ old # Nothing => record[old].status # "ABSENT" /\ record[old].subject = s
  BY LedgerAssumption DEF IInv, TypeOK, CreateVerified, Supersedable
<1>2. PICK w \in BOOLEAN, p \in BOOLEAN :
         record' = [x \in Experiences |->
             CASE x = e   -> Created(s, w, p, old)
               [] x = old -> [record[x] EXCEPT !.status = "SUPERSEDED"]
               [] OTHER   -> record[x]]
  BY DEF CreateVerified, Created
<1>3. old # e
  BY <1>1
<1>4. record'[e] = Created(s, w, p, old)
  BY <1>2, <1>3
<1>5. old # Nothing => record'[old] = [record[old] EXCEPT !.status = "SUPERSEDED"]
  BY <1>2, <1>3
<1>6. \A x \in Experiences \ {e, old} : record'[x] = record[x]
  BY <1>2
<1>7. Created(s, w, p, old) \in ExperienceRecord
  BY CreatedRecord
<1>8. \A x \in Experiences : [record[x] EXCEPT !.status = "SUPERSEDED"] \in ExperienceRecord
  BY <1>1 DEF ExperienceRecord, Statuses
<1>9. record' \in [Experiences -> ExperienceRecord]
  <2>1. \A x \in Experiences : record'[x] \in ExperienceRecord
    BY <1>1, <1>4, <1>5, <1>6, <1>7, <1>8
  <2> QED
    BY <1>2, <2>1
<1> QED
  BY <1>1, <1>3, <1>4, <1>5, <1>6, <1>9 DEF Written, Revision

\* What a person does to a record that is there.
Judged(e) ==
    \/ /\ record[e].status = "CANDIDATE"
       /\ record'[e] = [record[e] EXCEPT !.status = "ACTIVE", !.verified = 1]
    \/ /\ record[e].status \in {"ACTIVE", "CANDIDATE"}
       /\ record'[e] = [record[e] EXCEPT !.status = "CHALLENGED"]
    \/ /\ record[e].status # "ABSENT"
       /\ record'[e] = [record[e] EXCEPT !.pinned = ~@]

LEMMA JudgedShape ==
    ASSUME IInv, NEW e \in Experiences, ConfirmCandidate(e) \/ Challenge(e) \/ SetPinned(e)
    PROVE  /\ Judged(e) /\ record' \in [Experiences -> ExperienceRecord]
           /\ \A x \in Experiences \ {e} : record'[x] = record[x]
<1>1. record \in [Experiences -> ExperienceRecord]
  BY DEF IInv, TypeOK
<1>2. CASE ConfirmCandidate(e)
  <2>1. /\ record[e].status = "CANDIDATE" /\ record[e].verified = 0
        /\ record' = [record EXCEPT ![e] = [record[e] EXCEPT !.status = "ACTIVE", !.verified = @ + 1]]
    BY <1>1, <1>2 DEF ConfirmCandidate, IInv, VerifiedByPeople
  <2>2. record' = [record EXCEPT ![e] = [record[e] EXCEPT !.status = "ACTIVE", !.verified = 1]]
    BY <2>1
  <2>3. [record[e] EXCEPT !.status = "ACTIVE", !.verified = 1] \in ExperienceRecord
    <3>1. 1 \in 0..1 /\ "ACTIVE" \in Statuses /\ record[e] \in ExperienceRecord
      BY <1>1 DEF Statuses
    <3> QED
      BY <3>1 DEF ExperienceRecord
  <2> QED
    BY <1>1, <2>1, <2>2, <2>3 DEF Judged
<1>3. CASE Challenge(e)
  <2>1. [record[e] EXCEPT !.status = "CHALLENGED"] \in ExperienceRecord
    BY <1>1 DEF ExperienceRecord, Statuses
  <2> QED
    BY <1>1, <1>3, <2>1 DEF Challenge, Judged
<1>4. CASE SetPinned(e)
  <2>1. [record[e] EXCEPT !.pinned = ~@] \in ExperienceRecord
    BY <1>1 DEF ExperienceRecord, Statuses
  <2> QED
    BY <1>1, <1>4, <2>1 DEF SetPinned, Judged
<1> QED
  BY <1>2, <1>3, <1>4

\* What a run proposes.
LEMMA CreateCandidateShape ==
    ASSUME IInv, NEW r \in Runs, NEW e \in Experiences, CreateCandidate(r, e)
    PROVE  /\ record' \in [Experiences -> ExperienceRecord]
           /\ \E w \in BOOLEAN : /\ Written(e, Proposed(r, w))
                                 /\ \A x \in Experiences : record[x].source = r => record[x].wide # w
           /\ \A x \in Experiences \ {e} : record'[x] = record[x]
<1>1. record \in [Experiences -> ExperienceRecord] /\ task[r] \in Subjects
  BY DEF IInv, TypeOK
<1>2. PICK w \in BOOLEAN :
         /\ record[e].status = "ABSENT"
         /\ \A x \in Experiences : record[x].source = r => record[x].wide # w
         /\ record' = [record EXCEPT ![e] = Proposed(r, w)]
  BY DEF CreateCandidate, Proposed
<1>3. Proposed(r, w) \in ExperienceRecord
  BY <1>1, ProposedRecord
<1> QED
  BY <1>1, <1>2, <1>3 DEF Written

-----------------------------------------------------------------------------
(* Counters.                                                               *)

\* The runs that reported outcome o of e.
Reports(e, o) == {r \in Runs : recall[r][e] = o}

\* A report that is changed from a to b leaves the set of a and enters that of b.
LEMMA ReportsChange ==
    ASSUME IInv, NEW r \in Runs, NEW e \in Experiences, NEW b \in Outcomes, recall[r][e] # b,
           recall' = [recall EXCEPT ![r][e] = b], NEW o \in Outcomes
    PROVE  /\ Cardinality(Reports(e, o)) \in Nat /\ Cardinality(Reports(e, o)') \in Nat
           /\ Cardinality(Reports(e, o)') =
                Cardinality(Reports(e, o)) + (IF o = b THEN 1 ELSE 0)
                                           - (IF o = recall[r][e] THEN 1 ELSE 0)
<1>1. recall \in [Runs -> [Experiences -> Outcomes]] /\ IsFiniteSet(Runs)
  BY LedgerAssumption DEF IInv, TypeOK
<1>2. /\ recall'[r][e] = b /\ \A q \in Runs \ {r} : recall'[q][e] = recall[q][e]
  BY <1>1
<1>3. IsFiniteSet(Reports(e, o)) /\ IsFiniteSet(Reports(e, o)')
  BY <1>1, FS_Subset DEF Reports
<1>4. Cardinality(Reports(e, o)) \in Nat /\ Cardinality(Reports(e, o)') \in Nat
  BY <1>3, FS_CardinalityType
<1>5. CASE o = b
  <2>1. Reports(e, o)' = Reports(e, o) \cup {r} /\ r \notin Reports(e, o) /\ o # recall[r][e]
    BY <1>2, <1>5 DEF Reports
  <2>2. Cardinality(Reports(e, o) \cup {r}) = Cardinality(Reports(e, o)) + 1
    BY <1>3, <2>1, FS_AddElement
  <2> QED
    BY <1>4, <1>5, <2>1, <2>2
<1>6. CASE o = recall[r][e]
  <2>1. Reports(e, o)' = Reports(e, o) \ {r} /\ r \in Reports(e, o) /\ o # b
    BY <1>2, <1>6 DEF Reports
  <2>2. Cardinality(Reports(e, o) \ {r}) = Cardinality(Reports(e, o)) - 1
    BY <1>3, <2>1, FS_RemoveElement
  <2> QED
    BY <1>4, <1>6, <2>1, <2>2
<1>7. CASE o # b /\ o # recall[r][e]
  <2>1. Reports(e, o)' = Reports(e, o)
    BY <1>2, <1>7 DEF Reports
  <2> QED
    BY <1>4, <1>7, <2>1
<1> QED
  BY <1>5, <1>6, <1>7

\* The report of one recall.
Reported(r, e) ==
    /\ recall[r][e] # "NONE"
    /\ \A q \in Runs, x \in Experiences : <<q, x>> # <<r, e>> => recall'[q][x] = recall[q][x]
    /\ \E h, d \in Nat : record'[e] = [record[e] EXCEPT !.helped = h, !.harmed = d]
    /\ \A x \in Experiences \ {e} : record'[x] = record[x]

\* A report and the counters it moves.
LEMMA RecordOutcomeShape ==
    ASSUME IInv, NEW r \in Runs, NEW e \in Experiences,
           NEW o \in {"HELPFUL", "HARMFUL", "IGNORED"}, RecordOutcome(r, e, o)
    PROVE  /\ record' \in [Experiences -> ExperienceRecord]
           /\ recall' \in [Runs -> [Experiences -> Outcomes]]
           /\ Reported(r, e)
           /\ CountersTellTheOutcomes'
<1> DEFINE old == recall[r][e]
           h == record[e].helped - Column(old)[1] + Column(o)[1]
           d == record[e].harmed - Column(old)[2] + Column(o)[2]
<1>1. /\ record \in [Experiences -> ExperienceRecord]
      /\ recall \in [Runs -> [Experiences -> Outcomes]] /\ old \in Outcomes /\ o \in Outcomes
      /\ record[e].helped \in Nat /\ record[e].harmed \in Nat
  BY DEF IInv, TypeOK, ExperienceRecord, Outcomes
<1>2. /\ old \notin {"NONE", o} /\ recall' = [recall EXCEPT ![r][e] = o]
      /\ record' = [record EXCEPT ![e] = Adjusted(record[e], old, o)]
  BY DEF RecordOutcome
<1>3. Adjusted(record[e], old, o) = [record[e] EXCEPT !.helped = h, !.harmed = d]
  BY <1>1 DEF Adjusted, ExperienceRecord
<1>4. /\ Column(old)[1] = (IF old = "HELPFUL" THEN 1 ELSE 0)
      /\ Column(old)[2] = (IF old = "HARMFUL" THEN 1 ELSE 0)
      /\ Column(o)[1] = (IF o = "HELPFUL" THEN 1 ELSE 0)
      /\ Column(o)[2] = (IF o = "HARMFUL" THEN 1 ELSE 0)
  BY DEF Column
<1>5. /\ record[e].helped = Cardinality(Reports(e, "HELPFUL"))
      /\ record[e].harmed = Cardinality(Reports(e, "HARMFUL"))
  BY DEF IInv, CountersTellTheOutcomes, Reports
<1>6. /\ h \in Nat /\ h = Cardinality(Reports(e, "HELPFUL")')
  <2>1. "HELPFUL" \in Outcomes
    BY DEF Outcomes
  <2>2. /\ Cardinality(Reports(e, "HELPFUL")) \in Nat /\ Cardinality(Reports(e, "HELPFUL")') \in Nat
        /\ Cardinality(Reports(e, "HELPFUL")') =
             Cardinality(Reports(e, "HELPFUL")) + (IF "HELPFUL" = o THEN 1 ELSE 0)
                                                - (IF "HELPFUL" = old THEN 1 ELSE 0)
    BY <1>1, <1>2, <2>1, ReportsChange
  <2> QED
    BY <1>4, <1>5, <2>2
<1>7. /\ d \in Nat /\ d = Cardinality(Reports(e, "HARMFUL")')
  <2>1. "HARMFUL" \in Outcomes
    BY DEF Outcomes
  <2>2. /\ Cardinality(Reports(e, "HARMFUL")) \in Nat /\ Cardinality(Reports(e, "HARMFUL")') \in Nat
        /\ Cardinality(Reports(e, "HARMFUL")') =
             Cardinality(Reports(e, "HARMFUL")) + (IF "HARMFUL" = o THEN 1 ELSE 0)
                                                - (IF "HARMFUL" = old THEN 1 ELSE 0)
    BY <1>1, <1>2, <2>1, ReportsChange
  <2> QED
    BY <1>4, <1>5, <2>2
<1> HIDE DEF h, d
<1>8. record'[e] = [record[e] EXCEPT !.helped = h, !.harmed = d]
  BY <1>1, <1>2, <1>3
<1>9. \A x \in Experiences \ {e} : record'[x] = record[x]
  BY <1>1, <1>2
<1>10. [record[e] EXCEPT !.helped = h, !.harmed = d] \in ExperienceRecord
  BY <1>1, <1>6, <1>7 DEF ExperienceRecord
<1>11. record' \in [Experiences -> ExperienceRecord]
  BY <1>1, <1>2, <1>3, <1>10
<1>12. /\ recall' \in [Runs -> [Experiences -> Outcomes]]
       /\ \A q \in Runs, x \in Experiences : <<q, x>> # <<r, e>> => recall'[q][x] = recall[q][x]
  BY <1>1, <1>2
<1>13. CountersTellTheOutcomes'
  <2> SUFFICES ASSUME NEW x \in Experiences
               PROVE  /\ record'[x].helped = Cardinality(Reports(x, "HELPFUL")')
                      /\ record'[x].harmed = Cardinality(Reports(x, "HARMFUL")')
    BY DEF CountersTellTheOutcomes, Reports
  <2>1. CASE x = e
    <3>1. record'[e].helped = h /\ record'[e].harmed = d
      BY <1>1, <1>8 DEF ExperienceRecord
    <3> QED
      BY <1>6, <1>7, <2>1, <3>1
  <2>2. CASE x # e
    <3>1. Reports(x, "HELPFUL")' = Reports(x, "HELPFUL") /\ Reports(x, "HARMFUL")' = Reports(x, "HARMFUL")
      BY <1>12, <2>2 DEF Reports
    <3>2. /\ record[x].helped = Cardinality(Reports(x, "HELPFUL"))
          /\ record[x].harmed = Cardinality(Reports(x, "HARMFUL"))
      BY DEF IInv, CountersTellTheOutcomes, Reports
    <3> QED
      BY <1>9, <2>2, <3>1, <3>2
  <2> QED
    BY <2>1, <2>2
<1> QED
  BY <1>2, <1>6, <1>7, <1>8, <1>9, <1>11, <1>12, <1>13 DEF Reported

-----------------------------------------------------------------------------
(* The steps.                                                              *)

\* A record moves on in one of these ways, and only RecordOutcome moves counters.
Revised(e) ==
    \/ record'[e] = record[e]
    \/ \E s \in Subjects, w, p \in BOOLEAN, old \in Experiences \cup {Nothing} :
          Written(e, Created(s, w, p, old))
    \/ \E r \in Runs, w \in BOOLEAN : Written(e, Proposed(r, w))
    \/ Judged(e)
    \/ /\ record[e].status # "ABSENT"
       /\ record'[e] = [record[e] EXCEPT !.status = "SUPERSEDED"]
    \/ /\ record[e].status # "ABSENT"
       /\ \E h, d \in Nat : record'[e] = [record[e] EXCEPT !.helped = h, !.harmed = d]

\* A revised record keeps what it says and stays as verified as it has to be.
LEMMA RevisedKeeps ==
    ASSUME IInv, NEW e \in Experiences, Revised(e)
    PROVE  /\ Kept(e)
           /\ record'[e].status = "ABSENT"    => record'[e] = NoRecord
           /\ record'[e].status = "CANDIDATE" => record'[e].verified = 0
           /\ record'[e].status = "ACTIVE"    => record'[e].verified = 1
           /\ record[e].status \in {"CHALLENGED", "SUPERSEDED"} => record'[e].status # "ACTIVE"
<1> DEFINE Goal == /\ Kept(e)
                   /\ record'[e].status = "ABSENT"    => record'[e] = NoRecord
                   /\ record'[e].status = "CANDIDATE" => record'[e].verified = 0
                   /\ record'[e].status = "ACTIVE"    => record'[e].verified = 1
                   /\ record[e].status \in {"CHALLENGED", "SUPERSEDED"}
                        => record'[e].status # "ACTIVE"
<1>0. /\ record[e] \in ExperienceRecord /\ record[e].verified \in 0..1
      /\ record[e].status = "ABSENT"    => record[e] = NoRecord
      /\ record[e].status = "CANDIDATE" => record[e].verified = 0
      /\ record[e].status = "ACTIVE"    => record[e].verified = 1
      /\ task \in [Runs -> Subjects]
  BY DEF IInv, TypeOK, VerifiedByPeople, ExperienceRecord
<1>1. CASE record'[e] = record[e]
  BY <1>0, <1>1 DEF Kept
<1>2. ASSUME NEW s \in Subjects, NEW w \in BOOLEAN, NEW p \in BOOLEAN,
             NEW old \in Experiences \cup {Nothing}, Written(e, Created(s, w, p, old))
      PROVE  Goal
  BY <1>2, CreatedRecord DEF Written, Kept
<1>3. ASSUME NEW r \in Runs, NEW w \in BOOLEAN, Written(e, Proposed(r, w))
      PROVE  Goal
  BY <1>0, <1>3, ProposedRecord DEF Written, Kept
<1>4. CASE Judged(e)
  <2>1. CASE /\ record[e].status = "CANDIDATE"
             /\ record'[e] = [record[e] EXCEPT !.status = "ACTIVE", !.verified = 1]
    BY <1>0, <2>1 DEF Kept, ExperienceRecord
  <2>2. CASE /\ record[e].status \in {"ACTIVE", "CANDIDATE"}
             /\ record'[e] = [record[e] EXCEPT !.status = "CHALLENGED"]
    BY <1>0, <2>2 DEF Kept, ExperienceRecord
  <2>3. CASE /\ record[e].status # "ABSENT"
             /\ record'[e] = [record[e] EXCEPT !.pinned = ~@]
    BY <1>0, <2>3 DEF Kept, ExperienceRecord
  <2> QED
    BY <1>4, <2>1, <2>2, <2>3 DEF Judged
<1>5. CASE /\ record[e].status # "ABSENT"
           /\ record'[e] = [record[e] EXCEPT !.status = "SUPERSEDED"]
  BY <1>0, <1>5 DEF Kept, ExperienceRecord
<1>6. ASSUME NEW h \in Nat, NEW d \in Nat, record[e].status # "ABSENT",
             record'[e] = [record[e] EXCEPT !.helped = h, !.harmed = d]
      PROVE  Goal
  BY <1>0, <1>6 DEF Kept, ExperienceRecord
<1> QED
  BY <1>1, <1>2, <1>3, <1>4, <1>5, <1>6 DEF Revised

\* Every step revises records, in types.
LEMMA NextRevises ==
    ASSUME IInv, [Next]_vars
    PROVE  record' \in [Experiences -> ExperienceRecord] /\ \A e \in Experiences : Revised(e)
<1>0. record \in [Experiences -> ExperienceRecord]
  BY DEF IInv, TypeOK
<1>1. CASE UNCHANGED record
  BY <1>0, <1>1 DEF Revised
<1>2. ASSUME NEW e \in Experiences, NEW s \in Subjects, NEW old \in Experiences \cup {Nothing},
             CreateVerified(e, s, old)
      PROVE  record' \in [Experiences -> ExperienceRecord] /\ \A x \in Experiences : Revised(x)
  <2>1. record' \in [Experiences -> ExperienceRecord] /\ Revision(e, s, old)
    BY <1>2, CreateVerifiedShape
  <2>2. Revised(e)
    BY <2>1 DEF Revision, Revised
  <2>3. old \in Experiences => Revised(old)
    BY <2>1, LedgerAssumption DEF Revision, Revised
  <2>4. \A x \in Experiences \ {e, old} : Revised(x)
    BY <2>1 DEF Revision, Revised
  <2> QED
    BY <2>1, <2>2, <2>3, <2>4
<1>3. ASSUME NEW e \in Experiences, ConfirmCandidate(e) \/ Challenge(e) \/ SetPinned(e)
      PROVE  record' \in [Experiences -> ExperienceRecord] /\ \A x \in Experiences : Revised(x)
  <2>1. /\ Judged(e) /\ record' \in [Experiences -> ExperienceRecord]
        /\ \A x \in Experiences \ {e} : record'[x] = record[x]
    BY <1>3, JudgedShape
  <2> QED
    BY <2>1 DEF Revised
<1>4. ASSUME NEW r \in Runs, NEW e \in Experiences, CreateCandidate(r, e)
      PROVE  record' \in [Experiences -> ExperienceRecord] /\ \A x \in Experiences : Revised(x)
  <2>1. /\ record' \in [Experiences -> ExperienceRecord]
        /\ \E w \in BOOLEAN : Written(e, Proposed(r, w))
        /\ \A x \in Experiences \ {e} : record'[x] = record[x]
    BY <1>4, CreateCandidateShape
  <2> QED
    BY <2>1 DEF Revised
<1>5. ASSUME NEW r \in Runs, NEW e \in Experiences,
             NEW o \in {"HELPFUL", "HARMFUL", "IGNORED"}, RecordOutcome(r, e, o)
      PROVE  record' \in [Experiences -> ExperienceRecord] /\ \A x \in Experiences : Revised(x)
  <2>1. record' \in [Experiences -> ExperienceRecord] /\ Reported(r, e)
    BY <1>5, RecordOutcomeShape
  <2>2. record[e].status # "ABSENT"
    <3>1. record[e].verified >= 1
      BY <2>1 DEF IInv, RecalledIsVerified, Reported
    <3>2. NoRecord.verified = 0
      BY DEF NoRecord
    <3> QED
      BY <3>1, <3>2 DEF IInv, VerifiedByPeople
  <2>3. Revised(e)
    BY <2>1, <2>2 DEF Revised, Reported
  <2>4. \A x \in Experiences \ {e} : Revised(x)
    BY <2>1 DEF Revised, Reported
  <2> QED
    BY <2>1, <2>3, <2>4
<1>6. ASSUME NEW r \in Runs, Recall(r) \/ PersistRecalls(r) \/ EndRun(r)
      PROVE  UNCHANGED record
  BY <1>6 DEF Recall, PersistRecalls, EndRun
<1>7. UNCHANGED vars => UNCHANGED record
  BY DEF vars
<1> QED
  BY <1>1, <1>2, <1>3, <1>4, <1>5, <1>6, <1>7 DEF Next

-----------------------------------------------------------------------------
(* The invariant.                                                          *)

\* The ledger starts empty, with no run begun.
LEMMA InitIInv == Init => IInv
<1> SUFFICES ASSUME Init
             PROVE  IInv
  OBVIOUS
<1>1. NoRecord \in ExperienceRecord
  <2>1. 0 \in 0..1 /\ "ABSENT" \in Statuses
    BY DEF Statuses
  <2> QED
    BY <2>1 DEF NoRecord, ExperienceRecord
<1>2. TypeOK
  BY <1>1, LedgerAssumption DEF Init, TypeOK, Outcomes, Runner
<1>3. /\ \A e \in Experiences : record[e] = NoRecord
      /\ \A r \in Runs, e \in Experiences : recall[r][e] = "NONE"
      /\ \A r \in Runs : run[r].found = {} /\ run[r].prompt = {}
  BY DEF Init
<1>4. NoRecord.status = "ABSENT" /\ NoRecord.source = Nothing /\ NoRecord.helped = 0
      /\ NoRecord.harmed = 0
  BY DEF NoRecord
<1>5. VerifiedByPeople /\ FoundIsVerified /\ RecalledIsVerified /\ SupersededHasSuccessor
      /\ OneCandidateEach
  BY <1>3, <1>4 DEF VerifiedByPeople, FoundIsVerified, RecalledIsVerified,
     SupersededHasSuccessor, OneCandidateEach
<1>6. CountersTellTheOutcomes
  <2>1. \A e \in Experiences : /\ {r \in Runs : recall[r][e] = "HELPFUL"} = {}
                                /\ {r \in Runs : recall[r][e] = "HARMFUL"} = {}
    BY <1>3
  <2> QED
    BY <1>3, <1>4, <2>1, FS_EmptySet DEF CountersTellTheOutcomes
<1> QED
  BY <1>2, <1>5, <1>6 DEF IInv

\* The runners, and the recalls they write.
LEMMA NextRunners ==
    ASSUME IInv, [Next]_vars
    PROVE  TypeOK' /\ FoundIsVerified' /\ RecalledIsVerified'
<1>0. /\ TypeOK /\ FoundIsVerified /\ RecalledIsVerified
      /\ record' \in [Experiences -> ExperienceRecord]
      /\ \A e \in Experiences : Kept(e) /\ record[e].verified \in 0..1 /\ record'[e].verified \in 0..1
  <2>1. \A e \in Experiences : Kept(e)
    BY NextRevises, RevisedKeeps
  <2> QED
    BY <2>1, NextRevises DEF IInv, TypeOK, ExperienceRecord
<1>1. \A e \in Experiences : record[e].verified >= 1 =>
         /\ record[e].status # "ABSENT" /\ record'[e].verified >= 1
         /\ record'[e].wide = record[e].wide /\ record'[e].subject = record[e].subject
  <2>1. NoRecord.verified = 0
    BY DEF NoRecord
  <2>2. \A e \in Experiences : record[e].status = "ABSENT" => record[e] = NoRecord
    BY DEF IInv, VerifiedByPeople
  <2> QED
    BY <1>0, <2>1, <2>2 DEF Kept
<1>2. ASSUME UNCHANGED <<task, linked>>, run' \in [Runs -> Runner],
             \A r \in Runs : \A e \in run'[r].found \cup run'[r].prompt :
                e \in Experiences /\ record[e].verified >= 1 /\ InScope(e, r)
      PROVE  FoundIsVerified'
  BY <1>1, <1>2 DEF FoundIsVerified, InScope
<1>3. \A r \in Runs : \A e \in run[r].found \cup run[r].prompt :
         e \in Experiences /\ record[e].verified >= 1 /\ InScope(e, r)
  BY <1>0 DEF FoundIsVerified, TypeOK, Runner
<1>4. CASE UNCHANGED <<task, linked, recall, run>> /\ outcomes' \in 0..MaxOutcomes
  <2>1. TypeOK'
    BY <1>0, <1>4 DEF TypeOK
  <2>2. FoundIsVerified'
    BY <1>0, <1>2, <1>3, <1>4 DEF TypeOK
  <2>3. RecalledIsVerified'
    BY <1>0, <1>1, <1>4 DEF RecalledIsVerified
  <2> QED
    BY <2>1, <2>2, <2>3
<1>5. ASSUME NEW r \in Runs, Recall(r)
      PROVE  TypeOK' /\ FoundIsVerified' /\ RecalledIsVerified'
  <2>1. PICK found \in SUBSET RecallCandidates(r) :
           run' = [run EXCEPT ![r].at = "READ", ![r].found = found]
    BY <1>5 DEF Recall
  <2>2. \A e \in found : e \in Experiences /\ record[e].verified >= 1 /\ InScope(e, r)
    BY DEF RecallCandidates, InScope, IInv, VerifiedByPeople
  <2>3. UNCHANGED <<task, linked, record, recall, outcomes>>
    BY <1>5 DEF Recall, fixed
  <2>4. /\ run' \in [Runs -> Runner] /\ run'[r].found = found /\ run'[r].prompt = run[r].prompt
        /\ \A q \in Runs \ {r} : run'[q] = run[q]
    <3>1. found \in SUBSET Experiences
      BY <2>2
    <3> QED
      BY <1>0, <2>1, <3>1 DEF TypeOK, Runner
  <2>5. TypeOK'
    BY <1>0, <2>3, <2>4 DEF TypeOK
  <2>6. \A q \in Runs : \A e \in run'[q].found \cup run'[q].prompt :
           e \in Experiences /\ record[e].verified >= 1 /\ InScope(e, q)
    BY <1>3, <2>2, <2>4
  <2>7. FoundIsVerified'
    BY <1>2, <2>3, <2>4, <2>6
  <2>8. RecalledIsVerified'
    BY <1>0, <2>3 DEF RecalledIsVerified
  <2> QED
    BY <2>5, <2>7, <2>8
<1>6. ASSUME NEW r \in Runs, PersistRecalls(r)
      PROVE  TypeOK' /\ FoundIsVerified' /\ RecalledIsVerified'
  <2>1. /\ UNCHANGED <<task, linked, record, outcomes>>
        /\ recall' = [recall EXCEPT ![r] = [e \in Experiences |->
              IF e \in run[r].found /\ recall[r][e] = "NONE" THEN "PENDING" ELSE recall[r][e]]]
        /\ run' = [run EXCEPT ![r].at = "PROMPTED", ![r].prompt = run[r].found]
    BY <1>0, <1>6 DEF PersistRecalls, fixed, TypeOK
  <2>2. /\ run' \in [Runs -> Runner]
        /\ run'[r].found = run[r].found /\ run'[r].prompt = run[r].found
        /\ \A q \in Runs \ {r} : run'[q] = run[q]
    BY <1>0, <2>1 DEF TypeOK, Runner
  <2>3. recall' \in [Runs -> [Experiences -> Outcomes]]
    <3>1. [e \in Experiences |-> IF e \in run[r].found /\ recall[r][e] = "NONE"
                                   THEN "PENDING" ELSE recall[r][e]] \in [Experiences -> Outcomes]
      BY <1>0 DEF TypeOK, Outcomes
    <3> QED
      BY <1>0, <2>1, <3>1 DEF TypeOK
  <2>4. \A q \in Runs, e \in Experiences :
           recall'[q][e] # "NONE" => recall[q][e] # "NONE" \/ e \in run[q].found
    BY <1>0, <2>1 DEF TypeOK
  <2>5. TypeOK'
    BY <1>0, <2>1, <2>2, <2>3 DEF TypeOK
  <2>6. RecalledIsVerified'
    BY <1>0, <1>3, <2>1, <2>4 DEF RecalledIsVerified
  <2>7. FoundIsVerified'
    BY <1>2, <1>3, <2>1, <2>2
  <2> QED
    BY <2>5, <2>6, <2>7
<1>7. ASSUME NEW r \in Runs, EndRun(r)
      PROVE  TypeOK' /\ FoundIsVerified' /\ RecalledIsVerified'
  <2>1. UNCHANGED <<task, linked, record, recall, outcomes>> /\ run' = [run EXCEPT ![r].at = "ENDED"]
    BY <1>7 DEF EndRun, fixed
  <2>2. /\ run' \in [Runs -> Runner]
        /\ \A q \in Runs : run'[q].found = run[q].found /\ run'[q].prompt = run[q].prompt
    BY <1>0, <2>1 DEF TypeOK, Runner
  <2>3. TypeOK' /\ RecalledIsVerified'
    BY <1>0, <2>1, <2>2 DEF TypeOK, RecalledIsVerified
  <2>4. FoundIsVerified'
    BY <1>2, <1>3, <2>1, <2>2
  <2> QED
    BY <2>3, <2>4
<1>8. ASSUME NEW r \in Runs, NEW e \in Experiences,
             NEW o \in {"HELPFUL", "HARMFUL", "IGNORED"}, RecordOutcome(r, e, o)
      PROVE  TypeOK' /\ FoundIsVerified' /\ RecalledIsVerified'
  <2>0. recall' \in [Runs -> [Experiences -> Outcomes]] /\ Reported(r, e)
    BY <1>8, RecordOutcomeShape
  <2>1. /\ recall' \in [Runs -> [Experiences -> Outcomes]] /\ recall[r][e] # "NONE"
        /\ \A q \in Runs, x \in Experiences : <<q, x>> # <<r, e>> => recall'[q][x] = recall[q][x]
    BY <2>0 DEF Reported
  <2>2. UNCHANGED <<task, linked, run>> /\ outcomes' \in 0..MaxOutcomes
    BY <1>0, <1>8, LedgerAssumption DEF RecordOutcome, fixed, TypeOK
  <2>3. TypeOK'
    BY <1>0, <2>1, <2>2 DEF TypeOK
  <2>4. FoundIsVerified'
    BY <1>0, <1>2, <1>3, <2>2 DEF TypeOK
  <2>5. RecalledIsVerified'
    BY <1>0, <1>1, <2>1 DEF RecalledIsVerified
  <2> QED
    BY <2>3, <2>4, <2>5
<1>9. ASSUME NEW e \in Experiences,
             \/ \E s \in Subjects, old \in Experiences \cup {Nothing} : CreateVerified(e, s, old)
             \/ ConfirmCandidate(e) \/ Challenge(e) \/ SetPinned(e)
             \/ \E r \in Runs : CreateCandidate(r, e)
      PROVE  TypeOK' /\ FoundIsVerified' /\ RecalledIsVerified'
  <2>1. UNCHANGED <<task, linked, recall, run, outcomes>>
    BY <1>9 DEF CreateVerified, ConfirmCandidate, Challenge, SetPinned, CreateCandidate,
       fixed
  <2> QED
    BY <1>0, <1>4, <2>1 DEF TypeOK
<1>10. CASE UNCHANGED vars
  BY <1>0, <1>4, <1>10 DEF vars, TypeOK
<1> QED
  BY <1>5, <1>6, <1>7, <1>8, <1>9, <1>10 DEF Next

\* The counters: whoever else writes the row of a record leaves them alone, and a
\* record that is new was recalled by nobody.
LEMMA NextCounters ==
    ASSUME IInv, [Next]_vars
    PROVE  CountersTellTheOutcomes'
<1>0. /\ record \in [Experiences -> ExperienceRecord] /\ CountersTellTheOutcomes
      /\ recall \in [Runs -> [Experiences -> Outcomes]]
  BY DEF IInv, TypeOK
<1>1. ASSUME NEW e \in Experiences,
             \A r \in Runs : \A o \in {"HELPFUL", "HARMFUL"} : recall'[r][e] = o <=> recall[r][e] = o,
             record'[e].helped = record[e].helped, record'[e].harmed = record[e].harmed
      PROVE  /\ record'[e].helped = Cardinality({r \in Runs : recall'[r][e] = "HELPFUL"})
             /\ record'[e].harmed = Cardinality({r \in Runs : recall'[r][e] = "HARMFUL"})
  <2>1. /\ {r \in Runs : recall'[r][e] = "HELPFUL"} = {r \in Runs : recall[r][e] = "HELPFUL"}
        /\ {r \in Runs : recall'[r][e] = "HARMFUL"} = {r \in Runs : recall[r][e] = "HARMFUL"}
    BY <1>1
  <2> QED
    BY <1>0, <1>1, <2>1 DEF CountersTellTheOutcomes
<1>2. ASSUME NEW e \in Experiences, record[e].status = "ABSENT"
      PROVE  record[e].helped = 0 /\ record[e].harmed = 0
  <2>1. NoRecord.helped = 0 /\ NoRecord.harmed = 0
    BY DEF NoRecord
  <2> QED
    BY <1>2, <2>1 DEF IInv, VerifiedByPeople
<1>3. ASSUME UNCHANGED recall,
             \A e \in Experiences : record'[e].helped = record[e].helped
                                    /\ record'[e].harmed = record[e].harmed
      PROVE  CountersTellTheOutcomes'
  BY <1>1, <1>3 DEF CountersTellTheOutcomes
<1>4. ASSUME NEW e \in Experiences, NEW s \in Subjects, NEW old \in Experiences \cup {Nothing},
             CreateVerified(e, s, old)
      PROVE  CountersTellTheOutcomes'
  <2>0. Revision(e, s, old)
    BY <1>4, CreateVerifiedShape
  <2>1. /\ \E w, p \in BOOLEAN : Written(e, Created(s, w, p, old))
        /\ old # Nothing => record'[old] = [record[old] EXCEPT !.status = "SUPERSEDED"]
        /\ \A x \in Experiences \ {e, old} : record'[x] = record[x]
        /\ UNCHANGED recall
    BY <1>4, <2>0 DEF CreateVerified, Revision
  <2>2. record'[e].helped = record[e].helped /\ record'[e].harmed = record[e].harmed
    BY <1>2, <2>1, CreatedRecord DEF Written
  <2>3. old # Nothing => record'[old].helped = record[old].helped
                         /\ record'[old].harmed = record[old].harmed
    BY <1>0, <2>1 DEF ExperienceRecord
  <2>4. Nothing \notin Experiences
    BY LedgerAssumption
  <2> QED
    BY <1>3, <2>1, <2>2, <2>3, <2>4
<1>5. ASSUME NEW e \in Experiences, ConfirmCandidate(e) \/ Challenge(e) \/ SetPinned(e)
      PROVE  CountersTellTheOutcomes'
  <2>1. /\ Judged(e) /\ \A x \in Experiences \ {e} : record'[x] = record[x]
        /\ UNCHANGED recall
    BY <1>5, JudgedShape DEF ConfirmCandidate, Challenge, SetPinned
  <2>2. record'[e].helped = record[e].helped /\ record'[e].harmed = record[e].harmed
    BY <1>0, <2>1 DEF Judged, ExperienceRecord
  <2> QED
    BY <1>3, <2>1, <2>2
<1>6. ASSUME NEW r \in Runs, NEW e \in Experiences, CreateCandidate(r, e)
      PROVE  CountersTellTheOutcomes'
  <2>1. /\ \E w \in BOOLEAN : Written(e, Proposed(r, w))
        /\ \A x \in Experiences \ {e} : record'[x] = record[x]
        /\ UNCHANGED recall
    BY <1>6, CreateCandidateShape DEF CreateCandidate
  <2>2. record'[e].helped = record[e].helped /\ record'[e].harmed = record[e].harmed
    <3>1. task[r] \in Subjects
      BY DEF IInv, TypeOK
    <3> QED
      BY <1>2, <2>1, <3>1, ProposedRecord DEF Written
  <2> QED
    BY <1>3, <2>1, <2>2
<1>7. ASSUME NEW r \in Runs, PersistRecalls(r)
      PROVE  CountersTellTheOutcomes'
  <2>1. /\ UNCHANGED record
        /\ recall' = [recall EXCEPT ![r] = [e \in Experiences |->
              IF e \in run[r].found /\ recall[r][e] = "NONE" THEN "PENDING" ELSE recall[r][e]]]
    BY <1>0, <1>7 DEF PersistRecalls
  <2>2. \A q \in Runs, e \in Experiences : \A o \in {"HELPFUL", "HARMFUL"} :
            recall'[q][e] = o <=> recall[q][e] = o
    BY <1>0, <2>1
  <2> QED
    BY <1>1, <2>1, <2>2 DEF CountersTellTheOutcomes
<1>8. ASSUME NEW r \in Runs, NEW e \in Experiences,
             NEW o \in {"HELPFUL", "HARMFUL", "IGNORED"}, RecordOutcome(r, e, o)
      PROVE  CountersTellTheOutcomes'
  BY <1>8, RecordOutcomeShape
<1>9. ASSUME NEW r \in Runs, Recall(r) \/ EndRun(r)
      PROVE  CountersTellTheOutcomes'
  BY <1>3, <1>9 DEF Recall, EndRun
<1>10. CASE UNCHANGED vars
  BY <1>3, <1>10 DEF vars
<1> QED
  BY <1>4, <1>5, <1>6, <1>7, <1>8, <1>9, <1>10 DEF Next

\* Only CreateVerified supersedes, and only CreateCandidate names a run.
LEMMA NextRecords ==
    ASSUME IInv, [Next]_vars
    PROVE  VerifiedByPeople' /\ SupersededHasSuccessor' /\ OneCandidateEach'
<1>0. /\ record \in [Experiences -> ExperienceRecord] /\ VerifiedByPeople
      /\ record' \in [Experiences -> ExperienceRecord]
      /\ SupersededHasSuccessor /\ OneCandidateEach
      /\ Nothing \notin Experiences /\ Nothing \notin Runs
      /\ \A e \in Experiences : Kept(e) /\ record[e].verified \in 0..1 /\ record'[e].verified \in 0..1
  <2>1. \A e \in Experiences : Kept(e)
    BY NextRevises, RevisedKeeps
  <2> QED
    BY <2>1, NextRevises, LedgerAssumption DEF IInv, TypeOK, ExperienceRecord
<1>1. VerifiedByPeople'
  BY NextRevises, RevisedKeeps DEF VerifiedByPeople
<1>2. \A x \in Experiences : record[x].status = "ABSENT" =>
         record[x].supersedes = Nothing /\ record[x].source = Nothing
  <2>1. NoRecord.supersedes = Nothing /\ NoRecord.source = Nothing
    BY DEF NoRecord
  <2> QED
    BY <1>0, <2>1 DEF VerifiedByPeople
<1>3. ASSUME NEW e \in Experiences, record[e].status = "SUPERSEDED"
      PROVE  \E x \in Experiences : /\ record'[x].supersedes = e
                                    /\ record'[x].subject = record'[e].subject
                                    /\ record'[x].verified >= 1
  <2>1. PICK x \in Experiences : /\ record[x].supersedes = e
                                 /\ record[x].subject = record[e].subject
                                 /\ record[x].verified >= 1
    BY <1>0, <1>3 DEF SupersededHasSuccessor
  <2>2. record[x].status # "ABSENT"
    BY <1>0, <1>2, <2>1
  <2> QED
    BY <1>0, <1>3, <2>1, <2>2 DEF Kept
<1>4. ASSUME \A e \in Experiences : record'[e].status = "SUPERSEDED" => record[e].status = "SUPERSEDED"
      PROVE  SupersededHasSuccessor'
  BY <1>3, <1>4 DEF SupersededHasSuccessor
<1>5. ASSUME \A e \in Experiences : record'[e].source = record[e].source
                                    \/ record'[e].source = Nothing,
             \A e \in Experiences : record'[e].source # Nothing => record'[e].wide = record[e].wide
      PROVE  OneCandidateEach'
  BY <1>0, <1>5 DEF OneCandidateEach
<1>6. ASSUME UNCHANGED record
      PROVE  SupersededHasSuccessor' /\ OneCandidateEach'
  BY <1>0, <1>6 DEF SupersededHasSuccessor, OneCandidateEach
<1>7. ASSUME NEW e \in Experiences, NEW s \in Subjects, NEW old \in Experiences \cup {Nothing},
             CreateVerified(e, s, old)
      PROVE  SupersededHasSuccessor' /\ OneCandidateEach'
  <2>0. Revision(e, s, old)
    BY <1>7, CreateVerifiedShape
  <2>1. /\ \E w, p \in BOOLEAN : Written(e, Created(s, w, p, old))
        /\ old # Nothing => /\ old # e /\ record[old].subject = s
                            /\ record[old].status # "ABSENT"
                            /\ record'[old] = [record[old] EXCEPT !.status = "SUPERSEDED"]
        /\ \A x \in Experiences \ {e, old} : record'[x] = record[x]
    BY <2>0 DEF Revision
  <2>2. /\ record'[e].status = "ACTIVE" /\ record'[e].subject = s /\ record'[e].source = Nothing
        /\ record'[e].supersedes = old /\ record'[e].verified = 1
    BY <2>1, CreatedRecord DEF Written
  <2>3. old # Nothing => /\ old \in Experiences /\ record'[old].subject = s
                         /\ record'[old].source = record[old].source
                         /\ record'[old].wide = record[old].wide
    BY <1>0, <2>1 DEF Kept
  <2>4. SupersededHasSuccessor'
    <3> SUFFICES ASSUME NEW x \in Experiences, record'[x].status = "SUPERSEDED"
                 PROVE  \E y \in Experiences : /\ record'[y].supersedes = x
                                               /\ record'[y].subject = record'[x].subject
                                               /\ record'[y].verified >= 1
      BY DEF SupersededHasSuccessor
    <3>1. CASE x = old
      BY <1>0, <2>2, <2>3, <3>1
    <3>2. CASE x # old
      <4>1. x # e
        BY <2>2
      <4>2. record[x].status = "SUPERSEDED"
        BY <2>1, <3>2, <4>1
      <4> QED
        BY <1>3, <4>2
    <3> QED
      BY <3>1, <3>2
  <2>5. OneCandidateEach'
    BY <1>0, <1>5, <2>1, <2>2, <2>3
  <2> QED
    BY <2>4, <2>5
<1>8. ASSUME NEW e \in Experiences, ConfirmCandidate(e) \/ Challenge(e) \/ SetPinned(e)
      PROVE  SupersededHasSuccessor' /\ OneCandidateEach'
  <2>1. Judged(e) /\ \A x \in Experiences \ {e} : record'[x] = record[x]
    BY <1>8, JudgedShape
  <2>2. record[e].status # "ABSENT" /\ (record'[e].status = "SUPERSEDED" => record[e].status = "SUPERSEDED")
    BY <1>0, <2>1 DEF Judged, ExperienceRecord
  <2> QED
    BY <1>0, <1>4, <1>5, <2>1, <2>2 DEF Kept
<1>9. ASSUME NEW r \in Runs, NEW e \in Experiences, CreateCandidate(r, e)
      PROVE  SupersededHasSuccessor' /\ OneCandidateEach'
  <2>1. PICK w \in BOOLEAN :
           /\ Written(e, Proposed(r, w))
           /\ \A x \in Experiences : record[x].source = r => record[x].wide # w
    BY <1>9, CreateCandidateShape
  <2>2. \A x \in Experiences \ {e} : record'[x] = record[x]
    BY <1>9, CreateCandidateShape
  <2>3. record'[e].status = "CANDIDATE" /\ record'[e].source = r /\ record'[e].wide = w
    <3>1. task[r] \in Subjects
      BY DEF IInv, TypeOK
    <3> QED
      BY <2>1, <3>1, ProposedRecord DEF Written
  <2>4. SupersededHasSuccessor'
    BY <1>4, <2>2, <2>3
  <2>5. OneCandidateEach'
    BY <1>0, <2>1, <2>2, <2>3 DEF OneCandidateEach
  <2> QED
    BY <2>4, <2>5
<1>10. ASSUME NEW r \in Runs, NEW e \in Experiences,
              NEW o \in {"HELPFUL", "HARMFUL", "IGNORED"}, RecordOutcome(r, e, o)
       PROVE  SupersededHasSuccessor' /\ OneCandidateEach'
  <2>0. Reported(r, e)
    BY <1>10, RecordOutcomeShape
  <2>1. /\ \E h, d \in Nat : record'[e] = [record[e] EXCEPT !.helped = h, !.harmed = d]
        /\ \A x \in Experiences \ {e} : record'[x] = record[x]
    BY <2>0 DEF Reported
  <2>2. record'[e].status = record[e].status /\ record'[e].source = record[e].source
        /\ record'[e].wide = record[e].wide
    BY <1>0, <2>1 DEF ExperienceRecord
  <2> QED
    BY <1>4, <1>5, <2>1, <2>2
<1>11. ASSUME \/ \E r \in Runs : Recall(r) \/ PersistRecalls(r) \/ EndRun(r)
              \/ UNCHANGED vars
       PROVE  UNCHANGED record
  BY <1>11 DEF Recall, PersistRecalls, EndRun, vars
<1>12. SupersededHasSuccessor' /\ OneCandidateEach'
  BY <1>6, <1>7, <1>8, <1>9, <1>10, <1>11 DEF Next
<1> QED
  BY <1>1, <1>12

\* Each step of the ledger keeps its invariant.
LEMMA NextIInv == IInv /\ [Next]_vars => IInv'
BY NextRunners, NextCounters, NextRecords DEF IInv

-----------------------------------------------------------------------------
(* The theorems about the ledger.                                          *)

\* The inductive invariant holds in every state of the ledger.
THEOREM LedgerInvariance == Spec => []IInv
BY InitIInv, NextIInv, PTL DEF Spec

\* An agent is told only what people verified and what is in its scope, each
\* record counts the outcomes its runs reported, one that was superseded has a
\* successor, and a run leaves at most one candidate of each kind.
THEOREM LedgerIsTrue == Spec => []ExperienceInvariant
<1>1. IInv => ExperienceInvariant
  <2> SUFFICES ASSUME IInv
               PROVE  ExperienceInvariant
    OBVIOUS
  <2>1. PromptIsVerified
    BY DEF IInv, FoundIsVerified, InScope, PromptIsVerified
  <2> QED
    BY <2>1 DEF IInv, ExperienceInvariant
<1> QED
  BY <1>1, LedgerInvariance, PTL

\* A record challenged or superseded never becomes active again, whatever runs
\* and people do with it later.
THEOREM RetiredIsNotRecalled == Spec => RetiredStaysRetired
<1>1. IInv /\ [Next]_vars =>
        [\A e \in Experiences :
           record[e].status \in {"CHALLENGED", "SUPERSEDED"} => record'[e].status # "ACTIVE"]_record
  BY NextRevises, RevisedKeeps
<1> QED
  BY <1>1, LedgerInvariance, PTL DEF Spec, RetiredStaysRetired


-----------------------------------------------------------------------------
(* The inductive invariant of the policy.                                  *)


\* The content the catalogue holds was in the file, and a refresh under way that
\* may still be stored holds a content at least as new.
ReadingsFit ==
    /\ \A k \in Skills : catalogue[k].edits <= file[k].edits
    /\ \A x \in People : reading[x] # Policy!Idle =>
         LET k == reading[x].skill IN
         /\ reading[x].version <= catalogue[k].version
         /\ reading[x].edits <= file[k].edits
         /\ reading[x].version = catalogue[k].version => catalogue[k].edits <= reading[x].edits

\* How far a run is.
RunStatuses == {"ABSENT", "CLAIMED", "SKILLS", "LISTED", "AGENT", "FAILED"}

\* What was frozen for a run is the policy of the revision it was claimed with.
HoldsPolicy(made, claimed) ==
    /\ DOMAIN made.policy.skills = Policy!Bound(claimed.skills)
    /\ \A k \in Policy!Bound(claimed.skills) :
          made.policy.skills[k].required <=> claimed.skills[k] = "required"
    /\ made.policy.servers = claimed.servers

\* The prompt holds what the revision requires, and of what it binds nothing
\* but the frozen text.
HoldsPrompt(made, claimed) ==
    /\ DOMAIN made.prompt \subseteq Policy!Bound(claimed.skills)
    /\ Policy!Required(claimed.skills) \subseteq DOMAIN made.prompt
    /\ \A k \in DOMAIN made.prompt : made.prompt[k] = made.policy.skills[k].text

\* Codex is told of each server it listed whether the revision binds it; whoever
\* is not Codex has no server bound.
HoldsOverrides(made, claimed) ==
    IF claimed.adapter = "codex"
      THEN /\ made.overrides = Policy!Overrides(made.listed, claimed.servers)
           /\ Policy!Required(claimed.servers) \subseteq made.listed
      ELSE Policy!Bound(claimed.servers) = {}

\* The agent is the one of the revision, and of the servers listed it reaches
\* those bound.
HoldsTools(made, claimed) ==
    /\ made.adapter = claimed.adapter
    /\ made.tools \cap made.listed \subseteq Policy!Bound(claimed.servers)

\* What the runner made of a run so far is made of the revision claimed.
Fits(made, claimed) ==
    /\ made.status \in {"CLAIMED", "SKILLS", "LISTED", "AGENT"} => HoldsPolicy(made, claimed)
    /\ made.status \in {"SKILLS", "LISTED", "AGENT"} => HoldsPrompt(made, claimed)
    /\ made.status \in {"LISTED", "AGENT"} => HoldsOverrides(made, claimed)
    /\ made.status = "AGENT" => HoldsTools(made, claimed)

\* A run claimed has a revision, and fits it.
Claimed(made, revs) ==
    /\ made.profile \in Profiles
    /\ made.revision \in 1..Len(revs[made.profile])
    /\ Fits(made, revs[made.profile][made.revision])

\* Every run claimed fits its revision.
RunsFit ==
    /\ DOMAIN runs = Policy!Run
    /\ \A r \in Policy!Run : /\ runs[r].status \in RunStatuses
                             /\ runs[r].status # "ABSENT" => Claimed(runs[r], revisions)

\* The inductive invariant.
PolicyInv == Policy!TypeOK /\ ReadingsFit /\ RunsFit

-----------------------------------------------------------------------------
(* Operators.                                                              *)

\* What is required is bound, and only what there is.
LEMMA BoundRequired ==
    ASSUME NEW policy
    PROVE  /\ Policy!Required(policy) \subseteq Policy!Bound(policy)
           /\ Policy!Bound(policy) \subseteq DOMAIN policy
BY DEF Policy!Required, Policy!Bound

\* What a person makes of a revision is one.
LEMMA EditedIsRevision ==
    ASSUME NEW shown \in Policy!Revision, NEW input \in Policy!Edited(shown)
    PROVE  input \in Policy!Revision
<1>0. Bindings \subseteq Policy!Policy
  BY SkillsAssumption DEF Policy!PolicyAssumption, Policy!Policy
<1>1. ASSUME NEW k \in Skills, NEW b \in Bindings
      PROVE  [shown.skills EXCEPT ![k] = b] \in [Skills -> Policy!Policy]
  BY <1>0 DEF Policy!Revision
<1>2. ASSUME NEW m \in Servers, NEW b \in Bindings
      PROVE  [shown.servers EXCEPT ![m] = b] \in [Servers -> Policy!Policy]
  BY <1>0 DEF Policy!Revision
<1> QED
  BY <1>1, <1>2 DEF Policy!Edited, Policy!Revision

-----------------------------------------------------------------------------
(* Revisions.                                                              *)

\* A revision is never changed, only followed by others.
RevisionsKept ==
    \A p \in Profiles :
        /\ Len(revisions[p]) <= Len(revisions'[p])
        /\ \A n \in 1..Len(revisions[p]) : revisions'[p][n] = revisions[p][n]

\* What a revision binds is in a catalogue and among the servers registered.
Backed(revision, known, servers) ==
    /\ \A k \in Policy!Bound(revision.skills) : known[k].version > 0
    /\ Policy!Bound(revision.servers) \subseteq servers
    /\ revision.adapter = "generic" => Policy!Bound(revision.servers) = {}

\* The revisions of a profile are few, and each is backed.
RevisionsOK ==
    /\ revisions \in [Profiles -> Seq(Policy!Revision)]
    /\ \A p \in Profiles :
          /\ Len(revisions[p]) \in 1..MaxRevisions
          /\ \A n \in 1..Len(revisions[p]) : Backed(revisions[p][n], catalogue, registered)

\* The type invariant says it at greater length.
LEMMA RevisionsAreOK ==
    ASSUME Policy!TypeOK
    PROVE  RevisionsOK
BY DEF Policy!TypeOK, RevisionsOK, Backed

\* More known, more registered: what was backed still is.
LEMMA BackedStays ==
    ASSUME NEW rev \in Policy!Revision, NEW known, NEW now, NEW servers, NEW more, servers \subseteq more,
           \A k \in Skills : known[k].version > 0 => now[k].version > 0,
           Backed(rev, known, servers)
    PROVE  Backed(rev, now, more)
<1>1. Policy!Bound(rev.skills) \subseteq Skills
  BY DEF Policy!Revision, Policy!Bound
<1> QED
  BY <1>1 DEF Backed

\* A profile whose next revision is a valid one.
LEMMA NextRevision ==
    ASSUME NEW s \in Seq(Policy!Revision), Len(s) \in 1..MaxRevisions,
           Len(s) < MaxRevisions, NEW input \in Policy!Revision, NEW t, t = Append(s, input),
           NEW known, NEW servers, Backed(input, known, servers),
           \A n \in 1..Len(s) : Backed(s[n], known, servers)
    PROVE  /\ t \in Seq(Policy!Revision) /\ Len(s) <= Len(t) /\ Len(t) \in 1..MaxRevisions
           /\ \A n \in 1..Len(s) : t[n] = s[n]
           /\ \A n \in 1..Len(t) : Backed(t[n], known, servers)
<1>1. /\ t \in Seq(Policy!Revision) /\ Len(t) = Len(s) + 1 /\ Len(s) \in Nat /\ Len(t) \in 1..MaxRevisions
      /\ \A n \in 1..Len(s) : t[n] = s[n]
      /\ t[Len(t)] = input
  BY SkillsAssumption DEF Policy!PolicyAssumption
<1>2. \A n \in 1..Len(t) : n \in 1..Len(s) \/ n = Len(t)
  BY <1>1
<1> QED
  BY <1>1, <1>2

\* The current revision is the one with the highest number.
LEMMA LastRevision ==
    ASSUME NEW s \in Seq(Policy!Revision), Len(s) >= 1
    PROVE  Policy!Last(s) = s[Len(s)] /\ Policy!Last(s) \in Policy!Revision /\ Len(s) \in 1..Len(s)
BY DEF Policy!Last

\* Whoever changes revisions, appends.
LEMMA NextRevisions ==
    ASSUME PolicyInv, [Policy!Next]_Policy!vars
    PROVE  RevisionsOK' /\ RevisionsKept
<1>0. RevisionsOK
  BY RevisionsAreOK DEF PolicyInv
<1>t. \A p \in Profiles : /\ revisions[p] \in Seq(Policy!Revision) /\ Len(revisions[p]) \in Nat
                          /\ Len(revisions[p]) \in 1..MaxRevisions
  BY <1>0 DEF RevisionsOK
<1>1. ASSUME UNCHANGED revisions, registered \subseteq registered',
             \A k \in Skills : catalogue[k].version > 0 => catalogue'[k].version > 0
      PROVE  RevisionsOK' /\ RevisionsKept
  <2>1. ASSUME NEW p \in Profiles, NEW n \in 1..Len(revisions[p])
        PROVE  Backed(revisions[p][n], catalogue', registered')
    <3>1. revisions[p][n] \in Policy!Revision
      BY <1>t
    <3>2. Backed(revisions[p][n], catalogue, registered)
      BY <1>0 DEF RevisionsOK
    <3> QED
      BY <1>1, <3>1, <3>2, BackedStays
  <2>2. RevisionsOK'
    BY <1>0, <1>1, <2>1 DEF RevisionsOK
  <2>3. RevisionsKept
    BY <1>1, <1>t DEF RevisionsKept
  <2> QED
    BY <2>2, <2>3
<1>a. ASSUME UNCHANGED <<catalogue, registered>>,
             \A p \in Profiles :
                \/ revisions'[p] = revisions[p]
                \/ /\ Len(revisions[p]) < MaxRevisions
                   /\ \E input \in Policy!Revision : /\ Backed(input, catalogue, registered)
                                             /\ revisions'[p] = Append(revisions[p], input),
             revisions' \in [Profiles -> Seq(Policy!Revision)]
      PROVE  RevisionsOK' /\ RevisionsKept
  <2>1. ASSUME NEW p \in Profiles
        PROVE  /\ Len(revisions[p]) <= Len(revisions'[p]) /\ Len(revisions'[p]) \in 1..MaxRevisions
               /\ \A n \in 1..Len(revisions[p]) : revisions'[p][n] = revisions[p][n]
               /\ \A n \in 1..Len(revisions'[p]) : Backed(revisions'[p][n], catalogue, registered)
    <3>1. \A n \in 1..Len(revisions[p]) : Backed(revisions[p][n], catalogue, registered)
      BY <1>0 DEF RevisionsOK
    <3>2. CASE revisions'[p] = revisions[p]
      BY <1>t, <3>1, <3>2
    <3>3. ASSUME NEW input \in Policy!Revision, Backed(input, catalogue, registered),
                 revisions'[p] = Append(revisions[p], input), Len(revisions[p]) < MaxRevisions
          PROVE  /\ Len(revisions[p]) <= Len(revisions'[p]) /\ Len(revisions'[p]) \in 1..MaxRevisions
                 /\ \A n \in 1..Len(revisions[p]) : revisions'[p][n] = revisions[p][n]
                 /\ \A n \in 1..Len(revisions'[p]) : Backed(revisions'[p][n], catalogue, registered)
      BY <1>t, <3>1, <3>3, NextRevision
    <3> QED
      BY <1>a, <3>2, <3>3
  <2> QED
    BY <1>a, <2>1 DEF RevisionsOK, RevisionsKept
<1>2. ASSUME NEW x \in People, Policy!CreateRevision(x)
      PROVE  RevisionsOK' /\ RevisionsKept
  <2> DEFINE p == form[x].profile
  <2>1. form[x] # Policy!Idle /\ p \in Profiles /\ form[x].base \in 1..Len(revisions[p])
    BY <1>2 DEF Policy!CreateRevision, PolicyInv, Policy!TypeOK, Policy!Form
  <2>2. PICK input \in Policy!Edited(revisions[p][form[x].base]) :
            /\ Policy!Valid(input)
            /\ \A k \in Policy!Bound(input.skills) : catalogue[k].version > 0
            /\ Policy!Bound(input.servers) \subseteq registered
            /\ revisions' = [revisions EXCEPT ![p] = Append(revisions[p], input)]
    BY <1>2 DEF Policy!CreateRevision
  <2>3. UNCHANGED <<catalogue, registered>> /\ Len(revisions[p]) < MaxRevisions
    BY <1>2 DEF Policy!CreateRevision
  <2>4. input \in Policy!Revision
    <3>1. revisions[p][form[x].base] \in Policy!Revision
      BY <1>t, <2>1
    <3> QED
      BY <2>2, <3>1, EditedIsRevision
  <2>5. Backed(input, catalogue, registered)
    BY <2>2 DEF Backed, Policy!Valid
  <2> HIDE DEF p
  <2>6. Append(revisions[p], input) \in Seq(Policy!Revision)
    BY <1>t, <2>1, <2>4
  <2>7. /\ revisions' \in [Profiles -> Seq(Policy!Revision)]
        /\ revisions'[p] = Append(revisions[p], input)
        /\ \A q \in Profiles \ {p} : revisions'[q] = revisions[q]
    BY <1>0, <2>1, <2>2, <2>6 DEF RevisionsOK
  <2> QED
    BY <1>a, <2>3, <2>4, <2>5, <2>7
<1>3. CASE Policy!ConfigureCodexDefaults
  <2> DEFINE c       == {p \in Profiles : Policy!Current(p).adapter = "none"}
             next(p) == [Policy!Current(p) EXCEPT !.adapter = "codex"]
  <2>1. /\ revisions' = [p \in Profiles |->
                 IF p \in c THEN Append(revisions[p], next(p)) ELSE revisions[p]]
        /\ \A p \in c : Len(revisions[p]) < MaxRevisions
        /\ UNCHANGED <<catalogue, registered>>
    BY <1>3 DEF Policy!ConfigureCodexDefaults
  <2>2. ASSUME NEW p \in Profiles
        PROVE  next(p) \in Policy!Revision /\ Backed(next(p), catalogue, registered)
    <3>1. Policy!Current(p) = revisions[p][Len(revisions[p])] /\ Policy!Current(p) \in Policy!Revision
      BY <1>t, LastRevision DEF Policy!Current
    <3>2. Backed(Policy!Current(p), catalogue, registered)
      BY <1>0, <1>t, <3>1 DEF RevisionsOK
    <3>3. /\ next(p) \in Policy!Revision /\ next(p).adapter = "codex"
          /\ next(p).skills = Policy!Current(p).skills /\ next(p).servers = Policy!Current(p).servers
      BY <3>1 DEF Policy!Revision
    <3> QED
      BY <3>2, <3>3 DEF Backed
  <2> HIDE DEF c, next
  <2>3. \A p \in Profiles : revisions'[p] = IF p \in c THEN Append(revisions[p], next(p))
                                                     ELSE revisions[p]
    BY <2>1
  <2>4. \A p \in Profiles : Append(revisions[p], next(p)) \in Seq(Policy!Revision)
    BY <1>t, <2>2
  <2>5. revisions' \in [Profiles -> Seq(Policy!Revision)]
    BY <1>t, <2>1, <2>4
  <2> QED
    BY <1>a, <2>1, <2>2, <2>3, <2>5
<1>4. ASSUME NEW x \in People, Policy!StoreSkill(x)
      PROVE  RevisionsOK' /\ RevisionsKept
  <2>1. UNCHANGED <<revisions, registered>>
    BY <1>4 DEF Policy!StoreSkill
  <2>2. \A k \in Skills : catalogue[k].version > 0 => catalogue'[k].version > 0
    <3>1. catalogue \in [Skills -> [text : Policy!Text, version : 0..MaxVersion, edits : 0..MaxEdits]]
      BY DEF PolicyInv, Policy!TypeOK
    <3>2. \/ UNCHANGED catalogue
          \/ \E k, t, e : catalogue' = [catalogue EXCEPT ![k] =
                 [text |-> t, version |-> @.version + 1, edits |-> e]]
      BY <1>4 DEF Policy!StoreSkill
    <3> QED
      BY <3>1, <3>2
  <2> QED
    BY <1>1, <2>1, <2>2
<1>5. ASSUME NEW m \in Servers, Policy!AddMCPServer(m)
      PROVE  RevisionsOK' /\ RevisionsKept
  BY <1>1, <1>5 DEF Policy!AddMCPServer
<1>6. CASE UNCHANGED <<revisions, registered, catalogue>>
  BY <1>1, <1>6
<1> QED
  BY <1>2, <1>3, <1>4, <1>5, <1>6 DEF Policy!Next, Policy!EditFile,
     Policy!ConfigureCodexServer, Policy!ReadSkill, Policy!OpenForm,
     Policy!ClaimRun, Policy!LoadSkills, Policy!ListServers, Policy!Launch, Policy!vars

-----------------------------------------------------------------------------
(* Files, catalogue and refreshes.                                         *)

\* Files, rows and refreshes hold what they may hold.
CatalogueOK ==
    /\ file \in [Skills -> [text : Policy!Text, edits : 0..MaxEdits]]
    /\ catalogue \in [Skills -> [text : Policy!Text, version : 0..MaxVersion, edits : 0..MaxEdits]]
    /\ \A k \in Skills : (catalogue[k].version = 0) <=> (catalogue[k].text = Unreadable)
    /\ reading \in [People -> Policy!Reading]

\* What a refresh under way holds.
LEMMA ReadingShape ==
    ASSUME CatalogueOK, NEW x \in People, reading[x] # Policy!Idle
    PROVE  /\ reading[x].skill \in Skills /\ reading[x].version \in 0..MaxVersion
           /\ reading[x].text \in Texts /\ reading[x].edits \in 0..MaxEdits
BY DEF CatalogueOK, Policy!Reading

\* An edit makes the file newer, a read takes what is there, and a refresh is stored
\* only if nobody else stored one since the row was seen: no content comes back.
LEMMA NextCatalogue ==
    ASSUME PolicyInv, [Policy!Next]_Policy!vars
    PROVE  /\ CatalogueOK' /\ ReadingsFit'
           /\ \A k \in Skills : catalogue'[k].edits >= catalogue[k].edits
<1> DEFINE Goal == /\ CatalogueOK' /\ ReadingsFit'
                   /\ \A k \in Skills : catalogue'[k].edits >= catalogue[k].edits
<1>0. CatalogueOK /\ ReadingsFit /\ MaxEdits \in Nat /\ MaxVersion \in Nat /\ Unreadable \notin Texts
  BY SkillsAssumption
     DEF PolicyInv, Policy!TypeOK, CatalogueOK, Policy!PolicyAssumption
<1>1. \A k \in Skills : /\ catalogue[k].edits \in 0..MaxEdits /\ catalogue[k].version \in 0..MaxVersion
                        /\ file[k].edits \in 0..MaxEdits
  BY <1>0 DEF CatalogueOK
<1>2. CASE UNCHANGED <<file, catalogue, reading>>
  BY <1>0, <1>1, <1>2 DEF CatalogueOK, ReadingsFit
<1>3. ASSUME NEW k \in Skills, Policy!EditFile(k)
      PROVE  Goal
  <2>1. PICK t \in Texts \cup {Unreadable} :
            file' = [file EXCEPT ![k] = [text |-> t, edits |-> file[k].edits + 1]]
    BY <1>3 DEF Policy!EditFile
  <2>2. file[k].edits < MaxEdits /\ UNCHANGED <<catalogue, reading>>
    BY <1>3 DEF Policy!EditFile
  <2>3. [text |-> t, edits |-> file[k].edits + 1] \in [text : Policy!Text, edits : 0..MaxEdits]
    BY <1>0, <1>1, <2>2 DEF Policy!Text
  <2>4. CatalogueOK'
    BY <1>0, <2>1, <2>2, <2>3 DEF CatalogueOK
  <2>5. \A j \in Skills : file[j].edits <= file'[j].edits /\ file'[j].edits \in 0..MaxEdits
    BY <1>0, <1>1, <2>1, <2>4 DEF CatalogueOK
  <2>6. ReadingsFit'
    BY <1>0, <1>1, <2>2, <2>5, ReadingShape DEF ReadingsFit
  <2> QED
    BY <1>1, <2>2, <2>4, <2>6
<1>4. ASSUME NEW x \in People, NEW k \in Skills, NEW v \in 0..MaxVersion, Policy!ReadSkill(x, k, v)
      PROVE  Goal
  <2> DEFINE new == [state |-> "read", skill |-> k, version |-> v,
                     text |-> file[k].text, edits |-> file[k].edits]
  <2>1. /\ reading' = [reading EXCEPT ![x] = new] /\ v \in 0..catalogue[k].version
        /\ file[k].text # Unreadable /\ UNCHANGED <<file, catalogue>>
    BY <1>4 DEF Policy!ReadSkill
  <2>2. new \in Policy!Reading
    <3>1. file[k].text \in Texts /\ file[k].edits \in 0..MaxEdits
      BY <1>0, <2>1 DEF CatalogueOK, Policy!Text
    <3> QED
      BY <3>1 DEF Policy!Reading
  <2>3. CatalogueOK'
    BY <1>0, <2>1, <2>2 DEF CatalogueOK
  <2>4. ReadingsFit'
    <3>1. reading'[x] = new /\ \A y \in People \ {x} : reading'[y] = reading[y]
      BY <1>0, <2>1 DEF CatalogueOK
    <3>2. /\ new.skill = k /\ new.version <= catalogue[k].version /\ new.edits <= file[k].edits
          /\ catalogue[k].edits <= new.edits
      BY <1>0, <1>1, <2>1 DEF ReadingsFit
    <3> HIDE DEF new
    <3> QED
      BY <1>0, <2>1, <3>1, <3>2 DEF ReadingsFit
  <2> QED
    BY <1>1, <2>1, <2>3, <2>4
<1>5. ASSUME NEW x \in People, Policy!StoreSkill(x)
      PROVE  Goal
  <2> DEFINE k == reading[x].skill
  <2>1. /\ k \in Skills /\ reading[x].version \in 0..MaxVersion
        /\ reading[x].text \in Texts /\ reading[x].edits \in 0..MaxEdits
        /\ reading[x] # Policy!Idle
        /\ UNCHANGED file /\ reading' = [reading EXCEPT ![x] = Policy!Idle]
    BY <1>0, <1>5, ReadingShape DEF Policy!StoreSkill
  <2>2. /\ reading' \in [People -> Policy!Reading] /\ reading'[x] = Policy!Idle
        /\ \A y \in People \ {x} : reading'[y] = reading[y]
    BY <1>0, <2>1 DEF CatalogueOK, Policy!Reading
  <2>3. CASE UNCHANGED catalogue
    <3>1. CatalogueOK'
      BY <1>0, <2>1, <2>2, <2>3 DEF CatalogueOK
    <3>2. ReadingsFit'
      BY <1>0, <2>1, <2>2, <2>3 DEF ReadingsFit
    <3> QED
      BY <1>1, <2>3, <3>1, <3>2
  <2>4. CASE /\ Policy!VersionMatches(k, reading[x].version) /\ catalogue[k].version < MaxVersion
             /\ catalogue' = [catalogue EXCEPT ![k] =
                    [text |-> reading[x].text, version |-> catalogue[k].version + 1,
                     edits |-> reading[x].edits]]
    <3> DEFINE row == [text |-> reading[x].text, version |-> catalogue[k].version + 1,
                       edits |-> reading[x].edits]
    <3>1. row \in [text : Policy!Text, version : 0..MaxVersion, edits : 0..MaxEdits]
      BY <1>0, <1>1, <2>1, <2>4 DEF Policy!Text
    <3>2. /\ catalogue'[k] = row /\ \A j \in Skills \ {k} : catalogue'[j] = catalogue[j]
          /\ catalogue' \in [Skills -> [text : Policy!Text, version : 0..MaxVersion, edits : 0..MaxEdits]]
      BY <1>0, <2>1, <2>4, <3>1 DEF CatalogueOK
    <3>3. /\ row.version = catalogue[k].version + 1 /\ row.text # Unreadable
          /\ row.edits = reading[x].edits /\ row.version # 0
      BY <1>0, <1>1, <2>1
    <3>4. catalogue[k].edits <= row.edits /\ row.edits <= file[k].edits
      BY <1>0, <2>1, <2>4, <3>3 DEF ReadingsFit, Policy!VersionMatches
    <3> HIDE DEF row
    <3>5. CatalogueOK'
      BY <1>0, <2>1, <2>2, <3>2, <3>3 DEF CatalogueOK
    <3>6. ReadingsFit'
      <4>1. \A j \in Skills : catalogue'[j].edits <= file'[j].edits
        BY <1>0, <2>1, <3>2, <3>4 DEF ReadingsFit
      <4>2. ASSUME NEW y \in People, reading'[y] # Policy!Idle
            PROVE  LET j == reading'[y].skill IN
                   /\ reading'[y].version <= catalogue'[j].version
                   /\ reading'[y].edits <= file'[j].edits
                   /\ reading'[y].version = catalogue'[j].version
                        => catalogue'[j].edits <= reading'[y].edits
        <5> DEFINE j == reading[y].skill
        <5>1. y # x /\ reading'[y] = reading[y] /\ reading[y] # Policy!Idle
          BY <2>2, <4>2
        <5>2. /\ j \in Skills /\ reading[y].version \in 0..MaxVersion
              /\ reading[y].version <= catalogue[j].version
              /\ reading[y].edits <= file[j].edits
              /\ reading[y].version = catalogue[j].version => catalogue[j].edits <= reading[y].edits
          BY <1>0, <5>1, ReadingShape DEF ReadingsFit
        <5>3. CASE j # k
          BY <2>1, <3>2, <5>1, <5>2, <5>3
        <5>4. CASE j = k
          <6>1. catalogue'[j].version = catalogue[j].version + 1 /\ catalogue[j].version \in Nat
            BY <1>1, <2>1, <3>2, <3>3, <5>4
          <6>2. reading[y].version <= catalogue'[j].version /\ reading[y].version # catalogue'[j].version
            BY <5>2, <6>1
          <6> QED
            BY <2>1, <5>1, <5>2, <6>2
        <5> QED
          BY <5>3, <5>4
      <4> QED
        BY <4>1, <4>2 DEF ReadingsFit
    <3> QED
      BY <1>1, <3>2, <3>4, <3>5, <3>6
  <2> QED
    BY <1>5, <2>3, <2>4 DEF Policy!StoreSkill
<1> QED
  BY <1>2, <1>3, <1>4, <1>5 DEF Policy!Next, Policy!ConfigureCodexServer,
     Policy!AddMCPServer, Policy!OpenForm, Policy!CreateRevision,
     Policy!ConfigureCodexDefaults, Policy!ClaimRun, Policy!LoadSkills,
     Policy!ListServers, Policy!Launch, Policy!vars

-----------------------------------------------------------------------------
(* Runs.                                                                   *)

\* A revision claimed stays the one claimed.
LEMMA ClaimedStays ==
    ASSUME PolicyInv, RevisionsKept, NEW made, Claimed(made, revisions)
    PROVE  Claimed(made, revisions')
<1>1. \A p \in Profiles : Len(revisions[p]) \in Nat
  BY RevisionsAreOK DEF PolicyInv, RevisionsOK
<1>2. /\ revisions'[made.profile][made.revision] = revisions[made.profile][made.revision]
      /\ Len(revisions[made.profile]) <= Len(revisions'[made.profile])
      /\ made.profile \in Profiles
  BY DEF RevisionsKept, Claimed
<1> QED
  BY <1>1, <1>2 DEF Claimed

\* A step of one run leaves the others with what they have.
LEMMA RunStep ==
    ASSUME PolicyInv, RevisionsOK', RevisionsKept, NEW r \in Policy!Run, NEW new,
           runs' = [runs EXCEPT ![r] = new],
           new.status \in RunStatuses, Claimed(new, revisions)
    PROVE  RunsFit'
<1>1. DOMAIN runs' = Policy!Run /\ runs'[r] = new /\ \A q \in Policy!Run \ {r} : runs'[q] = runs[q]
  BY DEF PolicyInv, RunsFit
<1>2. ASSUME NEW q \in Policy!Run
      PROVE  /\ runs'[q].status \in RunStatuses
             /\ runs'[q].status # "ABSENT" => Claimed(runs'[q], revisions')
  BY <1>1, ClaimedStays DEF PolicyInv, RunsFit
<1> QED
  BY <1>1, <1>2 DEF RunsFit

\* A runner goes on with what was frozen, whatever changed meanwhile.
LEMMA NextRuns ==
    ASSUME PolicyInv, [Policy!Next]_Policy!vars
    PROVE  RunsFit'
<1>0. RevisionsOK' /\ RevisionsKept /\ RevisionsOK
  BY NextRevisions, RevisionsAreOK DEF PolicyInv
<1>t. \A p \in Profiles : /\ revisions[p] \in Seq(Policy!Revision) /\ Len(revisions[p]) \in Nat
                          /\ Len(revisions[p]) \in 1..MaxRevisions
  BY <1>0 DEF RevisionsOK
<1>1. CASE UNCHANGED runs
  BY <1>0, <1>1, ClaimedStays DEF PolicyInv, RunsFit
<1>2. ASSUME NEW r \in Policy!Run, NEW p \in Profiles, Policy!ClaimRun(r, p)
      PROVE  RunsFit'
  <2> DEFINE new == [status |-> "CLAIMED", profile |-> p, revision |-> Len(revisions[p]),
                     policy |-> Policy!Snapshot(Policy!Current(p))]
  <2>1. runs' = [runs EXCEPT ![r] = new]
    BY <1>2 DEF Policy!ClaimRun
  <2>2. Policy!Current(p) = revisions[p][Len(revisions[p])] /\ Len(revisions[p]) \in 1..Len(revisions[p])
    BY <1>t, LastRevision DEF Policy!Current
  <2>3. HoldsPolicy(new, Policy!Current(p))
    BY DEF HoldsPolicy, Policy!Snapshot
  <2>4. /\ new.status = "CLAIMED" /\ new.profile = p /\ new.revision = Len(revisions[p])
    OBVIOUS
  <2> HIDE DEF new
  <2>5. Fits(new, Policy!Current(p))
    BY <2>3, <2>4 DEF Fits
  <2>6. Claimed(new, revisions) /\ new.status \in RunStatuses
    BY <2>2, <2>4, <2>5 DEF Claimed, RunStatuses
  <2> QED
    BY <1>0, <2>1, <2>6, RunStep
<1>3. ASSUME NEW r \in Policy!Run, runs[r].status \in {"CLAIMED", "SKILLS", "LISTED"}
      PROVE  /\ Claimed(runs[r], revisions)
             /\ Policy!RevisionOf(r) = revisions[runs[r].profile][runs[r].revision]
             /\ Fits(runs[r], Policy!RevisionOf(r))
  BY <1>3 DEF PolicyInv, RunsFit, Claimed, Policy!RevisionOf
<1>4. ASSUME NEW r \in Policy!Run, NEW new, runs' = [runs EXCEPT ![r] = new],
             runs[r].status \in {"CLAIMED", "SKILLS", "LISTED"},
             new.status \in RunStatuses, new.profile = runs[r].profile,
             new.revision = runs[r].revision, Fits(new, Policy!RevisionOf(r))
      PROVE  RunsFit'
  <2>1. Claimed(new, revisions)
    BY <1>3, <1>4 DEF Claimed
  <2> QED
    BY <1>0, <1>4, <2>1, RunStep
<1>5. ASSUME NEW r \in Policy!Run, NEW new, runs' = [runs EXCEPT ![r] = new],
             runs[r].status \in {"CLAIMED", "SKILLS", "LISTED"},
             new = [status |-> "FAILED", profile |-> runs[r].profile, revision |-> runs[r].revision]
      PROVE  RunsFit'
  <2>1. /\ new.status = "FAILED" /\ new.profile = runs[r].profile
        /\ new.revision = runs[r].revision
    BY <1>5
  <2> QED
    BY <1>4, <1>5, <2>1 DEF Fits, RunStatuses
<1>6. ASSUME NEW r \in Policy!Run, Policy!LoadSkills(r)
      PROVE  RunsFit'
  <2> DEFINE skills == runs[r].policy.skills
             prompt == [k \in {j \in DOMAIN skills : Policy!Usable(j, skills[j])} |-> file[k].text]
             new    == [status |-> "SKILLS", profile |-> runs[r].profile,
                        revision |-> runs[r].revision, policy |-> runs[r].policy,
                        prompt |-> prompt]
  <2>1. runs[r].status = "CLAIMED"
    BY <1>6 DEF Policy!LoadSkills
  <2>2. HoldsPolicy(runs[r], Policy!RevisionOf(r))
    BY <1>3, <2>1 DEF Fits
  <2>3. CASE Policy!Missing(skills) # {}
    BY <1>5, <1>6, <2>1, <2>3 DEF Policy!LoadSkills
  <2>4. CASE Policy!Missing(skills) = {}
    <3>1. runs' = [runs EXCEPT ![r] = new]
      BY <1>6, <2>4 DEF Policy!LoadSkills
    <3>2. /\ DOMAIN prompt \subseteq DOMAIN skills
          /\ \A k \in DOMAIN prompt : prompt[k] = skills[k].text
          /\ \A k \in DOMAIN skills : skills[k].required => k \in DOMAIN prompt
      BY <2>4 DEF Policy!Missing, Policy!Usable
    <3>3. /\ new.status = "SKILLS" /\ new.profile = runs[r].profile
          /\ new.revision = runs[r].revision /\ new.policy = runs[r].policy /\ new.prompt = prompt
      OBVIOUS
    <3> HIDE DEF new, prompt
    <3>4. HoldsPolicy(new, Policy!RevisionOf(r))
      BY <2>2, <3>3 DEF HoldsPolicy
    <3>5. HoldsPrompt(new, Policy!RevisionOf(r))
      BY <2>2, <3>2, <3>3, BoundRequired DEF HoldsPolicy, HoldsPrompt, Policy!Required
    <3>6. Fits(new, Policy!RevisionOf(r))
      BY <3>3, <3>4, <3>5 DEF Fits
    <3> QED
      BY <1>4, <2>1, <3>1, <3>3, <3>6 DEF RunStatuses
  <2> QED
    BY <2>3, <2>4
<1>7. ASSUME NEW r \in Policy!Run, Policy!ListServers(r)
      PROVE  RunsFit'
  <2> DEFINE policy  == runs[r].policy.servers
             isCodex == Policy!RevisionOf(r).adapter = "codex"
             refused == IF isCodex THEN ~(Policy!Required(policy) \subseteq codex)
                                   ELSE Policy!Bound(policy) # {}
             new     == [status |-> "LISTED", profile |-> runs[r].profile,
                         revision |-> runs[r].revision, policy |-> runs[r].policy,
                         prompt |-> runs[r].prompt, listed |-> codex,
                         overrides |-> IF isCodex THEN Policy!Overrides(codex, policy) ELSE <<>>]
  <2>1. runs[r].status = "SKILLS"
    BY <1>7 DEF Policy!ListServers
  <2>2. HoldsPolicy(runs[r], Policy!RevisionOf(r)) /\ HoldsPrompt(runs[r], Policy!RevisionOf(r))
    BY <1>3, <2>1 DEF Fits
  <2>3. CASE refused
    BY <1>5, <1>7, <2>1, <2>3 DEF Policy!ListServers
  <2>4. CASE ~refused
    <3>1. runs' = [runs EXCEPT ![r] = new]
      BY <1>7, <2>4 DEF Policy!ListServers
    <3>2. /\ new.status = "LISTED" /\ new.profile = runs[r].profile
          /\ new.revision = runs[r].revision /\ new.policy = runs[r].policy
          /\ new.prompt = runs[r].prompt /\ new.listed = codex
          /\ isCodex => new.overrides = Policy!Overrides(codex, policy)
      OBVIOUS
    <3>3. policy = Policy!RevisionOf(r).servers
      BY <2>2 DEF HoldsPolicy
    <3> HIDE DEF new
    <3>4. HoldsPolicy(new, Policy!RevisionOf(r)) /\ HoldsPrompt(new, Policy!RevisionOf(r))
      BY <2>2, <3>2 DEF HoldsPolicy, HoldsPrompt
    <3>5. HoldsOverrides(new, Policy!RevisionOf(r))
      BY <2>4, <3>2, <3>3 DEF HoldsOverrides
    <3>6. Fits(new, Policy!RevisionOf(r))
      BY <3>2, <3>4, <3>5 DEF Fits
    <3> QED
      BY <1>4, <2>1, <3>1, <3>2, <3>6 DEF RunStatuses
  <2> QED
    BY <2>3, <2>4
<1>8. ASSUME NEW r \in Policy!Run, Policy!Launch(r)
      PROVE  RunsFit'
  <2> DEFINE tools == IF Policy!RevisionOf(r).adapter = "codex"
                        THEN {m \in codex : m \in DOMAIN runs[r].overrides
                                               => runs[r].overrides[m] = "on"}
                        ELSE {}
             new   == [status |-> "AGENT", profile |-> runs[r].profile,
                       revision |-> runs[r].revision, policy |-> runs[r].policy,
                       prompt |-> runs[r].prompt, listed |-> runs[r].listed,
                       overrides |-> runs[r].overrides, adapter |-> Policy!RevisionOf(r).adapter,
                       tools |-> tools]
  <2>1. runs[r].status = "LISTED" /\ runs' = [runs EXCEPT ![r] = new]
    BY <1>8 DEF Policy!Launch
  <2>2. /\ HoldsPolicy(runs[r], Policy!RevisionOf(r)) /\ HoldsPrompt(runs[r], Policy!RevisionOf(r))
        /\ HoldsOverrides(runs[r], Policy!RevisionOf(r))
    BY <1>3, <2>1 DEF Fits
  <2>3. /\ new.status = "AGENT" /\ new.profile = runs[r].profile
        /\ new.revision = runs[r].revision /\ new.policy = runs[r].policy
        /\ new.prompt = runs[r].prompt /\ new.listed = runs[r].listed
        /\ new.overrides = runs[r].overrides /\ new.adapter = Policy!RevisionOf(r).adapter
        /\ new.tools = tools
    OBVIOUS
  <2>4. tools \cap runs[r].listed \subseteq Policy!Bound(Policy!RevisionOf(r).servers)
    <3>1. CASE Policy!RevisionOf(r).adapter # "codex"
      BY <3>1
    <3>2. CASE Policy!RevisionOf(r).adapter = "codex"
      <4>1. \A m \in runs[r].listed :
               /\ m \in DOMAIN runs[r].overrides
               /\ runs[r].overrides[m] = "on" => m \in Policy!Bound(Policy!RevisionOf(r).servers)
        BY <2>2, <3>2 DEF HoldsOverrides, Policy!Overrides
      <4> QED
        BY <3>2, <4>1
    <3> QED
      BY <3>1, <3>2
  <2> HIDE DEF new, tools
  <2>5. /\ HoldsPolicy(new, Policy!RevisionOf(r)) /\ HoldsPrompt(new, Policy!RevisionOf(r))
        /\ HoldsOverrides(new, Policy!RevisionOf(r)) /\ HoldsTools(new, Policy!RevisionOf(r))
    BY <2>2, <2>3, <2>4 DEF HoldsPolicy, HoldsPrompt, HoldsOverrides, HoldsTools
  <2>6. Fits(new, Policy!RevisionOf(r))
    BY <2>5 DEF Fits
  <2> QED
    BY <1>4, <2>1, <2>3, <2>6 DEF RunStatuses
<1> QED
  BY <1>1, <1>2, <1>6, <1>7, <1>8 DEF Policy!Next, Policy!EditFile,
     Policy!ConfigureCodexServer, Policy!AddMCPServer, Policy!ReadSkill,
     Policy!StoreSkill, Policy!OpenForm, Policy!CreateRevision,
     Policy!ConfigureCodexDefaults, Policy!vars

-----------------------------------------------------------------------------
(* Forms, servers and the whole.                                           *)

\* A form shows a revision that stays, and servers are of those there may be.
LEMMA NextForms ==
    ASSUME PolicyInv, [Policy!Next]_Policy!vars
    PROVE  /\ codex' \subseteq Servers /\ registered' \subseteq Servers
           /\ form' \in [People -> Policy!Form]
           /\ \A x \in People : form'[x] = Policy!Idle
                                  \/ form'[x].base \in 1..Len(revisions'[form'[x].profile])
<1>0. RevisionsOK' /\ RevisionsKept /\ RevisionsOK
  BY NextRevisions, RevisionsAreOK DEF PolicyInv
<1>t. \A p \in Profiles : /\ Len(revisions[p]) \in Nat /\ Len(revisions'[p]) \in Nat
                          /\ Len(revisions[p]) \in 1..Len(revisions'[p])
                          /\ Len(revisions[p]) <= Len(revisions'[p])
  BY <1>0 DEF RevisionsOK, RevisionsKept
<1>1. /\ codex \subseteq Servers /\ registered \subseteq Servers /\ form \in [People -> Policy!Form]
      /\ \A x \in People : form[x] = Policy!Idle \/ form[x].base \in 1..Len(revisions[form[x].profile])
  BY DEF PolicyInv, Policy!TypeOK
<1>2. codex' \subseteq Servers /\ registered' \subseteq Servers
  BY <1>1 DEF Policy!Next, Policy!EditFile, Policy!ConfigureCodexServer,
     Policy!AddMCPServer, Policy!ReadSkill, Policy!StoreSkill, Policy!OpenForm,
     Policy!CreateRevision, Policy!ConfigureCodexDefaults, Policy!ClaimRun,
     Policy!LoadSkills, Policy!ListServers, Policy!Launch, Policy!vars
<1>3. ASSUME NEW x \in People, form[x] # Policy!Idle
      PROVE  form[x].profile \in Profiles /\ form[x].base \in 1..Len(revisions'[form[x].profile])
  <2>1. form[x].profile \in Profiles /\ form[x].base \in 1..Len(revisions[form[x].profile])
    BY <1>1, <1>3 DEF Policy!Form
  <2> QED
    BY <1>t, <2>1
<1>4. CASE UNCHANGED form
  BY <1>1, <1>2, <1>3, <1>4
<1>5. ASSUME NEW x \in People, NEW p \in Profiles, Policy!OpenForm(x, p)
      PROVE  /\ form' \in [People -> Policy!Form]
             /\ \A y \in People : form'[y] = Policy!Idle
                                    \/ form'[y].base \in 1..Len(revisions'[form'[y].profile])
  <2> DEFINE new == [state |-> "open", profile |-> p, base |-> Len(revisions[p])]
  <2>1. form' = [form EXCEPT ![x] = new] /\ UNCHANGED revisions
    BY <1>5 DEF Policy!OpenForm
  <2>2. new \in Policy!Form /\ new.base \in 1..Len(revisions'[p]) /\ new.profile = p
    BY <1>t DEF Policy!Form
  <2> HIDE DEF new
  <2>3. /\ form' \in [People -> Policy!Form] /\ form'[x] = new
        /\ \A y \in People \ {x} : form'[y] = form[y]
    BY <1>1, <2>1, <2>2
  <2> QED
    BY <1>3, <2>2, <2>3
<1>6. ASSUME NEW x \in People, Policy!CreateRevision(x)
      PROVE  /\ form' \in [People -> Policy!Form]
             /\ \A y \in People : form'[y] = Policy!Idle
                                    \/ form'[y].base \in 1..Len(revisions'[form'[y].profile])
  <2>1. form' = [form EXCEPT ![x] = Policy!Idle]
    BY <1>6 DEF Policy!CreateRevision
  <2>2. /\ form' \in [People -> Policy!Form] /\ form'[x] = Policy!Idle
        /\ \A y \in People \ {x} : form'[y] = form[y]
    BY <1>1, <2>1 DEF Policy!Form
  <2> QED
    BY <1>3, <2>2
<1> QED
  BY <1>2, <1>4, <1>5, <1>6 DEF Policy!Next, Policy!EditFile,
     Policy!ConfigureCodexServer, Policy!AddMCPServer, Policy!ReadSkill,
     Policy!StoreSkill, Policy!ConfigureCodexDefaults, Policy!ClaimRun,
     Policy!LoadSkills, Policy!ListServers, Policy!Launch, Policy!vars

\* Nothing is registered at first and no profile is configured.
LEMMA InitPolicyInv ==
    ASSUME Policy!Init
    PROVE  PolicyInv
<1>1. /\ Policy!Unconfigured \in Policy!Revision
      /\ Policy!Bound(Policy!Unconfigured.skills) = {}
      /\ Policy!Bound(Policy!Unconfigured.servers) = {}
  BY DEF Policy!Unconfigured, Policy!Revision, Policy!Policy, Policy!Bound
<1>2. \A p \in Profiles : /\ revisions[p] = <<Policy!Unconfigured>> /\ revisions[p] \in Seq(Policy!Revision)
                          /\ Len(revisions[p]) = 1 /\ revisions[p][1] = Policy!Unconfigured
  BY <1>1 DEF Policy!Init
<1>3. RevisionsOK
  BY <1>1, <1>2, SkillsAssumption
     DEF Policy!Init, Policy!PolicyAssumption, RevisionsOK, Backed
<1>4. CatalogueOK /\ ReadingsFit
  BY SkillsAssumption DEF Policy!Init, Policy!PolicyAssumption, CatalogueOK, ReadingsFit, Policy!Text,
     Policy!Reading, Policy!Idle
<1>5. RunsFit
  BY DEF Policy!Init, Policy!NoRun, RunsFit, RunStatuses
<1>6. form \in [People -> Policy!Form] /\ \A x \in People : form[x] = Policy!Idle
  BY DEF Policy!Init, Policy!Form
<1> QED
  BY <1>3, <1>4, <1>5, <1>6 DEF PolicyInv, Policy!TypeOK, RevisionsOK, Backed,
     CatalogueOK, RunsFit, RunStatuses, Policy!Init

\* Each step keeps the invariant.
LEMMA NextPolicyInv ==
    ASSUME PolicyInv, [Policy!Next]_Policy!vars
    PROVE  PolicyInv'
<1>1. RevisionsOK' /\ CatalogueOK' /\ ReadingsFit' /\ RunsFit'
  BY NextRevisions, NextCatalogue, NextRuns
<1>2. /\ codex' \subseteq Servers /\ registered' \subseteq Servers
      /\ form' \in [People -> Policy!Form]
      /\ \A x \in People : form'[x] = Policy!Idle
                             \/ form'[x].base \in 1..Len(revisions'[form'[x].profile])
  BY NextForms
<1>3. Policy!TypeOK'
  BY <1>1, <1>2 DEF Policy!TypeOK, RevisionsOK, Backed, CatalogueOK, RunsFit, RunStatuses
<1> QED
  BY <1>1, <1>3 DEF PolicyInv

\* The invariant says what the run checks.
LEMMA PolicyInvIsPolicy ==
    ASSUME PolicyInv
    PROVE  Policy!PolicyInvariant
<1>1. ASSUME NEW r \in Policy!Run, runs[r].status \in {"SKILLS", "LISTED", "AGENT"}
      PROVE  /\ Fits(runs[r], Policy!RevisionOf(r))
             /\ Policy!RevisionOf(r) = revisions[runs[r].profile][runs[r].revision]
  BY <1>1 DEF PolicyInv, RunsFit, Claimed, Policy!RevisionOf
<1>2. Policy!AgentHasItsRevision
  <2>1. ASSUME NEW r \in Policy!Run, runs[r].status = "AGENT"
        PROVE  LET claimed == Policy!RevisionOf(r) IN
               /\ runs[r].adapter = claimed.adapter
               /\ DOMAIN runs[r].prompt \subseteq Policy!Bound(claimed.skills)
               /\ Policy!Required(claimed.skills) \subseteq DOMAIN runs[r].prompt
               /\ \A m \in Policy!Required(claimed.servers) :
                     m \in DOMAIN runs[r].overrides /\ runs[r].overrides[m] = "on"
    <3>1. /\ HoldsPrompt(runs[r], Policy!RevisionOf(r)) /\ HoldsOverrides(runs[r], Policy!RevisionOf(r))
          /\ HoldsTools(runs[r], Policy!RevisionOf(r))
      BY <1>1, <2>1 DEF Fits
    <3> QED
      BY <3>1, BoundRequired DEF HoldsPrompt, HoldsOverrides, HoldsTools, Policy!Overrides
  <2> QED
    BY <1>1, <2>1 DEF Policy!AgentHasItsRevision
<1>3. Policy!SkillTextIsFrozen
  BY <1>1 DEF Policy!SkillTextIsFrozen, Fits, HoldsPrompt
<1>4. Policy!ListedServersAreInPolicy
  BY <1>1 DEF Policy!ListedServersAreInPolicy, Fits, HoldsTools
<1> QED
  BY <1>2, <1>3, <1>4 DEF Policy!PolicyInvariant, PolicyInv

-----------------------------------------------------------------------------
(* The theorems about the policy.                                          *)

\* The inductive invariant holds in every state.
THEOREM PolicyInvariance == Policy!Spec => []PolicyInv
<1>1. Policy!Init => PolicyInv
  BY InitPolicyInv
<1>2. PolicyInv /\ [Policy!Next]_Policy!vars => PolicyInv'
  BY NextPolicyInv
<1> QED
  BY <1>1, <1>2, PTL DEF Policy!Spec

\* A run works under the policy frozen at its claim: its adapter, its skills with
\* the text of that moment, everything required, and no listed server besides.
THEOREM RunsKeepTheirPolicy == Policy!Spec => []PolicyInvariant
<1>1. PolicyInv => PolicyInvariant
  BY PolicyInvIsPolicy DEF PolicyInvariant
<1> QED
  BY <1>1, PolicyInvariance, PTL

\* A retired record never becomes active again, and the catalogue never returns
\* to an earlier content of a file, however slow a refresh is and whoever else
\* refreshes.
THEOREM NothingReturns == Spec /\ Policy!Spec => NothingComesBack
<1>1. PolicyInv /\ [Policy!Next]_Policy!vars =>
        [\A k \in Skills : catalogue'[k].edits >= catalogue[k].edits]_Policy!vars
  BY NextCatalogue
<1>2. Policy!Spec => Policy!CatalogueMovesForward
  BY <1>1, PolicyInvariance, PTL DEF Policy!Spec, Policy!CatalogueMovesForward
<1> QED
  BY <1>2, RetiredIsNotRecalled DEF NothingComesBack

-----------------------------------------------------------------------------
(* Together.                                                               *)

\* Where the ledger and the policy take turns, both are what they are alone.
THEOREM AgentsAreEquippedRightly ==
    PolicySpec => [](ExperienceInvariant /\ PolicyInvariant) /\ NothingComesBack
<1>1. PolicyInit => Init /\ Policy!Init
  BY DEF PolicyInit
<1>2. [PolicyNext]_<<part, vars, policyVars>> => [Next]_vars /\ [Policy!Next]_Policy!vars
  BY DEF PolicyNext, vars, policyVars, Policy!vars
<1>3. PolicySpec => Spec /\ Policy!Spec
  BY <1>1, <1>2, PTL DEF PolicySpec, Spec, Policy!Spec
<1> QED
  BY <1>3, LedgerIsTrue, RunsKeepTheirPolicy, NothingReturns, PTL
=============================================================================
