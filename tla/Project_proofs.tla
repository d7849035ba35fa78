---------------------------- MODULE Project_proofs ----------------------------
(***************************************************************************)
(* Proofs about what a project keeps: about Publishing, for every set of   *)
(* tasks, versions, branches and requests and every number of changes, and *)
(* about ProjectState, for every set of daemons and runners and every      *)
(* number of facts.                                                        *)
(*                                                                         *)
(* The inductive invariant of the releases says who holds git.lock, that a *)
(* commit contains no change that is newer than the newest of its task,    *)
(* and what the request that holds the lock has established so far about   *)
(* its release and its tag; that of the files, where each of them is at    *)
(* each move of a restore, and that rows and artifacts keep together while *)
(* processes write, die and are backed up.                                 *)
(***************************************************************************)
EXTENDS MCProject, Integers, Sequences, TLAPS

Working(q)   == req[q].at \in {"LIST", "INFER", "TAG", "MARK", "FAIL"}
Published(v) == release[v].status # "ABSENT"

\* No commit is ahead of the changes there are.
NoneNewer(commit) == \A t \in Tasks \cup {Other}, k \in 1..MaxChanges :
                        <<t, k>> \in commit => k <= newest[t]

\* The tasks collected so far: what was asked for and what was found shipped,
\* and of the listed ones that were looked at, none that is not shipped.
TasksFit(q) ==
    /\ \A t \in req[q].tasks \ req[q].asked :
          t \in req[q].listed /\ req[q].commit \cap ({t} \X (1..MaxChanges)) # {}
    /\ \A t \in req[q].listed \ (req[q].tasks \cup req[q].todo) :
          <<t, newest[t]>> \notin req[q].commit

\* The row a request works on is the one it asked for, and the tag that it will
\* confirm is there unless people took it away.
RowFits(q) ==
    LET row == release[req[q].version]
    IN  /\ req[q].at \in {"TAG", "MARK", "FAIL"} => Published(req[q].version)
        /\ req[q].at = "TAG" => req[q].tasks = row.tasks /\ req[q].todo = {}
        /\ req[q].at = "MARK" /\ req[q].version \notin byHand =>
              tag[req[q].version] = [kind |-> "ANNOTATED", commit |-> row.commit]

\* A request: it works exactly while it holds the lock.
Fits(q) ==
    /\ Working(q) <=> lock = q
    /\ req[q].at # "IDLE" => NoneNewer(req[q].commit)
    /\ req[q].at \in {"LOCK", "LIST", "INFER", "TAG"} => TasksFit(q)
    /\ req[q].at \in {"LOCK", "LIST"} => req[q].tasks = req[q].asked /\ req[q].listed = {}
    /\ req[q].at = "INFER" => req[q].todo \subseteq req[q].listed
    /\ RowFits(q)

HeadsAreMade == \A b \in Branches : NoneNewer(head[b])

IInv == TypeOK /\ HeadsAreMade /\ TaggedReleaseHasTag /\ \A q \in Requests : Fits(q)

-----------------------------------------------------------------------------
(* What goes on around the requests.                                       *)

\* A request that is not idle is a record of all that was asked and read.
LEMMA RequestIsRecord ==
    ASSUME TypeOK, NEW q \in Requests, req[q].at # "IDLE"
    PROVE  req[q] \in RequestRecord
BY DEF TypeOK, Idle

\* People accept and reopen tasks and commit: no commit that was read gets ahead,
\* and what was not shipped when it was looked at is not shipped now.
LEMMA WorldKeeps ==
    ASSUME IInv, TypeOK', HeadsAreMade', UNCHANGED <<release, tag, byHand, req, lock>>,
           \A t \in Tasks \cup {Other} : newest[t] <= newest'[t]
    PROVE  IInv'
<1>1. TaggedReleaseHasTag'
  BY DEF IInv, TaggedReleaseHasTag
<1>2. ASSUME NEW q \in Requests
      PROVE  Fits(q)'
  <2>1. Fits(q)
    BY DEF IInv
  <2>2. req[q].at # "IDLE" => NoneNewer(req[q].commit)'
    BY <2>1, PublishingAssumption DEF Fits, NoneNewer, TypeOK, IInv
  <2>3. TasksFit(q) /\ req[q].at # "IDLE" => TasksFit(q)'
    <3> SUFFICES ASSUME TasksFit(q), req[q].at # "IDLE",
                        NEW t \in req[q].listed \ (req[q].tasks \cup req[q].todo),
                        <<t, newest'[t]>> \in req[q].commit
                 PROVE  FALSE
      BY DEF TasksFit
    <3>1. req[q] \in RequestRecord
      BY RequestIsRecord DEF IInv
    <3>2. t \in Tasks /\ newest'[t] \in 1..MaxChanges
      BY <3>1 DEF RequestRecord, Changes
    <3>3. newest'[t] <= newest[t]
      BY <2>1, <3>2 DEF Fits, NoneNewer
    <3>4. newest'[t] = newest[t]
      BY <3>2, <3>3, PublishingAssumption DEF IInv, TypeOK
    <3> QED
      BY <3>4 DEF TasksFit
  <2> QED
    BY <2>1, <2>2, <2>3 DEF Fits, Working, RowFits, Published
<1> QED
  BY <1>1, <1>2 DEF IInv

\* Accept and Reopen.
LEMMA TaskKeeps ==
    ASSUME IInv, NEW t \in Tasks, Accept(t) \/ Reopen(t)
    PROVE  IInv'
<1> USE PublishingAssumption DEF IInv, TypeOK
<1>1. \A a \in Tasks \cup {Other} : newest[a] <= newest'[a]
  BY DEF Accept, Reopen
<1>2. TypeOK'
  BY DEF Accept, Reopen
<1>3. HeadsAreMade'
  BY <1>1 DEF HeadsAreMade, NoneNewer, Accept, Reopen
<1> QED
  BY <1>1, <1>2, <1>3, WorldKeeps DEF Accept, Reopen

\* Land and CommitByHand.
LEMMA BranchKeeps ==
    ASSUME IInv, NEW b \in Branches, (\E t \in Tasks : Land(t, b)) \/ CommitByHand(b)
    PROVE  IInv'
<1> USE PublishingAssumption DEF IInv, TypeOK
<1>1. ASSUME NEW t \in Tasks, Land(t, b)
      PROVE  IInv'
  <2>1. {t} \X (1..newest[t]) \subseteq Changes
    BY DEF Changes
  <2>2. TypeOK'
    BY <1>1, <2>1 DEF Land
  <2>3. HeadsAreMade'
    BY <1>1 DEF HeadsAreMade, NoneNewer, Land
  <2> QED
    BY <1>1, <2>2, <2>3, WorldKeeps DEF Land
<1>2. CASE CommitByHand(b)
  <2>1. <<Other, newest[Other] + 1>> \in Changes
    BY <1>2 DEF Changes, CommitByHand
  <2>2. TypeOK'
    BY <1>2, <2>1 DEF CommitByHand
  <2>3. \A a \in Tasks \cup {Other} : newest[a] <= newest'[a]
    BY <1>2 DEF CommitByHand
  <2>4. HeadsAreMade'
    BY <1>2, <2>3 DEF HeadsAreMade, NoneNewer, CommitByHand
  <2> QED
    BY <1>2, <2>2, <2>3, <2>4, WorldKeeps DEF CommitByHand
<1> QED
  BY <1>1, <1>2

\* TagByHand.
LEMMA TagKeeps ==
    ASSUME IInv, NEW v \in Versions, TagByHand(v)
    PROVE  IInv'
<1> USE DEF IInv, TypeOK
<1>1. tag' \in [Versions -> TagRecord]
  <2>1. NoTag \in TagRecord
    BY DEF NoTag, TagRecord
  <2>2. \A b \in Branches, k \in {"ANNOTATED", "LIGHT"} : [kind |-> k, commit |-> head[b]] \in TagRecord
    BY DEF TagRecord
  <2>3. PICK x \in TagRecord : tag' = [tag EXCEPT ![v] = x]
    BY <2>1, <2>2 DEF TagByHand
  <2> QED
    BY <2>3
<1>2. TypeOK'
  BY <1>1 DEF TagByHand
<1>3. TaggedReleaseHasTag'
  BY DEF TagByHand, TaggedReleaseHasTag
<1>4. ASSUME NEW q \in Requests
      PROVE  Fits(q)'
  <2>1. Fits(q) /\ UNCHANGED <<head, newest, release, req, lock>>
    BY DEF TagByHand
  <2>2. req[q].at = "MARK" /\ req[q].version \notin byHand' =>
          tag'[req[q].version] = tag[req[q].version]
    BY RequestIsRecord DEF TagByHand, RequestRecord
  <2>3. RowFits(q)'
    BY <2>1, <2>2 DEF TagByHand, Fits, RowFits, Published
  <2> QED
    BY <2>1, <2>3 DEF Fits, Working, NoneNewer, TasksFit
<1> QED
  BY <1>2, <1>3, <1>4 DEF TagByHand, HeadsAreMade, NoneNewer

-----------------------------------------------------------------------------
(* A request.                                                              *)

\* A step of request q alone: it leaves the others alone, and touches releases
\* and tags only under the lock.
Alone(q) ==
    /\ \A p \in Requests \ {q} : req'[p] = req[p]
    /\ UNCHANGED <<head, newest, accepted, byHand>>
    /\ \/ UNCHANGED <<lock, release, tag>>
       \/ lock = NoOne /\ lock' = q /\ UNCHANGED <<release, tag>>
       \/ lock = q /\ lock' \in {q, NoOne}

\* The other requests fit as they did: while q holds the lock they do not work.
LEMMA OthersFit ==
    ASSUME IInv, NEW q \in Requests, Alone(q), NEW p \in Requests \ {q}
    PROVE  Fits(p)'
<1>1. Fits(p)
  BY DEF IInv
<1>2. Working(p)' <=> lock' = p
  BY <1>1, PublishingAssumption DEF Alone, Fits, Working
<1>3. RowFits(p)'
  <2>1. CASE UNCHANGED <<release, tag>>
    BY <1>1, <2>1 DEF Alone, Fits, RowFits, Published
  <2>2. CASE lock = q
    BY <1>1, <2>2 DEF Alone, Fits, Working, RowFits
  <2> QED
    BY <2>1, <2>2 DEF Alone
<1> QED
  BY <1>1, <1>2, <1>3 DEF Alone, Fits, Working, TasksFit, NoneNewer

\* What a request step has to show.
LEMMA StepKeeps ==
    ASSUME IInv, NEW q \in Requests, TypeOK', Alone(q), Fits(q)', TaggedReleaseHasTag'
    PROVE  IInv'
<1>1. HeadsAreMade'
  BY DEF IInv, HeadsAreMade, Alone, NoneNewer
<1> QED
  BY <1>1, OthersFit DEF IInv

\* The release and the tag of a version, when nobody touches them.
LEMMA SameRows ==
    ASSUME IInv, UNCHANGED <<release, tag, byHand>>
    PROVE  TaggedReleaseHasTag'
BY DEF IInv, TaggedReleaseHasTag

\* Ask.
LEMMA AskKeeps ==
    ASSUME IInv, NEW q \in Requests, Ask(q)
    PROVE  IInv'
<1>1. PICK v \in Versions, b \in Branches, a \in SUBSET Tasks :
        req' = [req EXCEPT ![q] = [at |-> "LOCK", version |-> v, branch |-> b, commit |-> {},
                                   tasks |-> a, asked |-> a, listed |-> {}, todo |-> {},
                                   known |-> ""]]
  BY DEF Ask
<1>2. TypeOK'
  <2>1. req' \in [Requests -> RequestRecord \cup {Idle}]
    BY <1>1 DEF IInv, TypeOK, RequestRecord
  <2> QED
    BY <2>1 DEF IInv, TypeOK, Ask, gitVars
<1>3. Alone(q)
  BY <1>1 DEF Ask, Alone, gitVars, IInv, TypeOK
<1>4. Fits(q)'
  <2>1. /\ req'[q].at = "LOCK" /\ req'[q].tasks = a /\ req'[q].asked = a
        /\ req'[q].listed = {} /\ req'[q].commit = {}
    BY <1>1 DEF IInv, TypeOK
  <2>2. lock' # q
    BY DEF Ask, IInv, Fits, Working
  <2> QED
    BY <2>1, <2>2 DEF Fits, Working, NoneNewer, TasksFit, RowFits
<1> QED
  BY <1>2, <1>3, <1>4, SameRows, StepKeeps DEF Ask

\* ResolveBranch.
LEMMA ResolveKeeps ==
    ASSUME IInv, NEW q \in Requests, ResolveBranch(q)
    PROVE  IInv'
<1> USE DEF ResolveBranch
<1>1. req[q] \in RequestRecord
  BY RequestIsRecord DEF IInv
<1>2. TypeOK'
  <2>1. req' \in [Requests -> RequestRecord \cup {Idle}]
    BY <1>1 DEF IInv, TypeOK, RequestRecord
  <2> QED
    BY <2>1 DEF IInv, TypeOK, gitVars
<1>3. Alone(q)
  BY DEF Alone, gitVars, IInv, TypeOK
<1>4. Fits(q)'
  <2>1. Fits(q) /\ NoneNewer(head[req[q].branch])
    BY <1>1 DEF IInv, HeadsAreMade, RequestRecord
  <2>2. /\ req'[q].at = "LIST" /\ req'[q].commit = head[req[q].branch]
        /\ req'[q].tasks = req[q].tasks /\ req'[q].asked = req[q].asked
        /\ req'[q].listed = req[q].listed /\ req'[q].todo = req[q].todo
    BY <1>1 DEF IInv, TypeOK, RequestRecord
  <2>3. req[q].listed = {}
    BY DEF IInv, Fits
  <2> QED
    BY <2>1, <2>2, <2>3 DEF Fits, Working, NoneNewer, TasksFit, RowFits, gitVars
<1> QED
  BY <1>2, <1>3, <1>4, SameRows, StepKeeps

\* ListTasks: nothing has been looked at yet.
LEMMA ListKeeps ==
    ASSUME IInv, NEW q \in Requests, ListTasks(q)
    PROVE  IInv'
<1> USE DEF ListTasks
<1>1. req[q] \in RequestRecord
  BY RequestIsRecord DEF IInv
<1>2. TypeOK'
  <2>1. req' \in [Requests -> RequestRecord \cup {Idle}]
    BY <1>1 DEF IInv, TypeOK, RequestRecord
  <2> QED
    BY <2>1 DEF IInv, TypeOK, gitVars
<1>3. Alone(q)
  BY DEF Alone, gitVars, IInv, TypeOK
<1>4. Fits(q)'
  <2>1. Fits(q)
    BY DEF IInv
  <2>2. /\ req'[q].at = "INFER" /\ req'[q].commit = req[q].commit
        /\ req'[q].tasks = req[q].tasks /\ req'[q].asked = req[q].asked
        /\ req'[q].listed = accepted /\ req'[q].todo = accepted
    BY <1>1 DEF IInv, TypeOK, RequestRecord
  <2> QED
    BY <2>1, <2>2 DEF Fits, Working, NoneNewer, TasksFit, RowFits, gitVars
<1> QED
  BY <1>2, <1>3, <1>4, SameRows, StepKeeps

\* InferReleaseTask: one more task has been looked at.
LEMMA InferKeeps ==
    ASSUME IInv, NEW q \in Requests, InferReleaseTask(q)
    PROVE  IInv'
<1> USE DEF InferReleaseTask
<1>1. req[q] \in RequestRecord
  BY RequestIsRecord DEF IInv
<1>2. PICK t \in req[q].todo :
        req' = [req EXCEPT ![q].todo = @ \ {t},
                           ![q].tasks = IF Shipped(t, req[q].commit) THEN @ \cup {t} ELSE @]
  OBVIOUS
<1>3. t \in Tasks
  BY <1>1 DEF RequestRecord
<1>4. TypeOK'
  <2>1. req' \in [Requests -> RequestRecord \cup {Idle}]
    BY <1>1, <1>2, <1>3 DEF IInv, TypeOK, RequestRecord
  <2> QED
    BY <2>1 DEF IInv, TypeOK, gitVars
<1>5. Alone(q)
  BY <1>2 DEF Alone, gitVars, IInv, TypeOK
<1>6. Fits(q)'
  <2>1. Fits(q)
    BY DEF IInv
  <2>2. /\ req'[q].at = "INFER" /\ req'[q].commit = req[q].commit
        /\ req'[q].asked = req[q].asked /\ req'[q].listed = req[q].listed
        /\ req'[q].todo = req[q].todo \ {t}
        /\ req'[q].tasks = IF Shipped(t, req[q].commit) THEN req[q].tasks \cup {t}
                           ELSE req[q].tasks
    BY <1>1, <1>2 DEF IInv, TypeOK, RequestRecord
  <2>3. Shipped(t, req[q].commit) => req[q].commit \cap ({t} \X (1..MaxChanges)) # {}
    BY <1>3, PublishingAssumption DEF Shipped, IInv, TypeOK
  <2>4. ~Shipped(t, req[q].commit) => <<t, newest[t]>> \notin req[q].commit
    <3>1. <<t, newest[t]>> \in req[q].commit => newest[t] \in 1..MaxChanges
      BY <1>1 DEF RequestRecord, Changes
    <3> QED
      BY <3>1, PublishingAssumption DEF Shipped
  <2>5. t \in req[q].listed
    BY <2>1 DEF Fits
  <2>6. TasksFit(q)'
    BY <2>1, <2>2, <2>3, <2>4, <2>5 DEF Fits, TasksFit, gitVars
  <2> QED
    BY <2>1, <2>2, <2>6 DEF Fits, Working, NoneNewer, RowFits, gitVars
<1> QED
  BY <1>4, <1>5, <1>6, SameRows, StepKeeps

\* A request that returns, or is given up, leaves the lock.
LEMMA EndKeeps ==
    ASSUME IInv, NEW q \in Requests, TypeOK', TaggedReleaseHasTag', Alone(q),
           req' = [req EXCEPT ![q] = Idle], lock' # q
    PROVE  IInv'
<1>1. req'[q].at = "IDLE"
  BY DEF IInv, TypeOK, Idle
<1>2. Fits(q)'
  BY <1>1 DEF Fits, Working, RowFits
<1> QED
  BY <1>2, StepKeeps

\* Reserve: a new row, the row of the same release, or a refusal.
LEMMA ReserveKeeps ==
    ASSUME IInv, NEW q \in Requests, Reserve(q)
    PROVE  IInv'
<1>1. req[q] \in RequestRecord /\ req[q].at = "INFER" /\ lock = q /\ req[q].todo = {}
  BY RequestIsRecord DEF IInv, Reserve, Fits, Working
<1>2. Fits(q) /\ UNCHANGED <<head, newest, accepted, tag, byHand>>
  BY DEF IInv, Reserve, gitVars
<1> DEFINE v == req[q].version
<1>3. v \in Versions
  BY <1>1 DEF RequestRecord
<1>4. CASE release[v].status = "ABSENT" /\ Insert(q) /\ UNCHANGED lock
  <2>1. /\ req' = [req EXCEPT ![q].at = "TAG", ![q].known = "CREATING"]
        /\ release' = [release EXCEPT ![v] =
             [status |-> "CREATING", branch |-> req[q].branch, commit |-> req[q].commit,
              tasks |-> req[q].tasks]]
    BY <1>4 DEF Insert
  <2>2. req' \in [Requests -> RequestRecord \cup {Idle}]
    BY <1>1, <2>1 DEF IInv, TypeOK, RequestRecord
  <2>3. release' \in [Versions -> ReleaseRecord]
    BY <1>1, <1>3, <2>1 DEF IInv, TypeOK, RequestRecord, ReleaseRecord
  <2>4. TypeOK'
    BY <1>2, <1>4, <2>2, <2>3 DEF IInv, TypeOK
  <2>5. Alone(q)
    BY <1>1, <1>2, <1>4, <2>1 DEF Alone, IInv, TypeOK
  <2>6. TaggedReleaseHasTag'
    BY <1>2, <1>3, <2>1 DEF IInv, TypeOK, TaggedReleaseHasTag
  <2>7. /\ req'[q] = [req[q] EXCEPT !.at = "TAG", !.known = "CREATING"]
        /\ release'[v].status = "CREATING" /\ release'[v].tasks = req[q].tasks
    BY <1>3, <2>1 DEF IInv, TypeOK
  <2>8. Fits(q)'
    BY <1>1, <1>2, <1>4, <2>7
       DEF Fits, Working, NoneNewer, TasksFit, RowFits, Published, RequestRecord
  <2> QED
    BY <2>4, <2>5, <2>6, <2>8, StepKeeps
<1>5. CASE /\ release[v].status # "ABSENT" /\ release[v].tasks = req[q].tasks
           /\ req' = [req EXCEPT ![q].at = "TAG", ![q].known = release[v].status]
           /\ UNCHANGED <<release, lock>>
  <2>1. release[v].status \in {"CREATING", "TAGGED", "FAILED"}
    BY <1>3, <1>5 DEF IInv, TypeOK, ReleaseRecord
  <2>2. req' \in [Requests -> RequestRecord \cup {Idle}]
    BY <1>1, <1>5, <2>1 DEF IInv, TypeOK, RequestRecord
  <2>3. TypeOK'
    BY <1>2, <1>5, <2>2 DEF IInv, TypeOK
  <2>4. Alone(q)
    BY <1>1, <1>2, <1>5 DEF Alone, IInv, TypeOK
  <2>5. /\ req'[q].at = "TAG" /\ req'[q].version = v /\ req'[q].commit = req[q].commit
        /\ req'[q].tasks = req[q].tasks /\ req'[q].asked = req[q].asked
        /\ req'[q].listed = req[q].listed /\ req'[q].todo = {}
    BY <1>1, <1>5 DEF IInv, TypeOK, RequestRecord
  <2>6. Fits(q)'
    BY <1>1, <1>2, <1>5, <2>5
       DEF Fits, Working, NoneNewer, TasksFit, RowFits, Published, RequestRecord
  <2> QED
    BY <1>2, <1>5, <2>3, <2>4, <2>6, SameRows, StepKeeps
<1>6. CASE Returns(q) /\ UNCHANGED release
  <2>1. TypeOK'
    BY <1>2, <1>6 DEF IInv, TypeOK, Returns
  <2>2. Alone(q)
    BY <1>1, <1>2, <1>6 DEF Alone, Returns, IInv, TypeOK
  <2> QED
    BY <1>2, <1>6, <2>1, <2>2, SameRows, EndKeeps, PublishingAssumption DEF Returns
<1> QED
  BY <1>4, <1>5, <1>6 DEF Reserve

\* EnsureAnnotatedTag: a tag is made only where there is none.
LEMMA EnsureKeeps ==
    ASSUME IInv, NEW q \in Requests, EnsureAnnotatedTag(q)
    PROVE  IInv'
<1> DEFINE v     == req[q].version
           right == [kind |-> "ANNOTATED", commit |-> release[v].commit]
<1>1. /\ req[q] \in RequestRecord /\ req[q].at = "TAG" /\ lock = q
      /\ v \in Versions /\ Published(v)
  BY RequestIsRecord DEF IInv, EnsureAnnotatedTag, Fits, Working, RowFits, RequestRecord
<1>2. /\ \/ Goes(q, "MARK") /\ tag'[v] = right
         \/ Goes(q, "FAIL")
      /\ \/ UNCHANGED tag
         \/ tag[v] = NoTag /\ tag' = [tag EXCEPT ![v] = right]
  <2>1. CASE tag[v] # NoTag
    BY <2>1 DEF EnsureAnnotatedTag
  <2>2. CASE tag[v] = NoTag
    <3>1. \/ Goes(q, "MARK") /\ tag' = [tag EXCEPT ![v] = right]
          \/ Goes(q, "FAIL") /\ UNCHANGED tag
      BY <2>2 DEF EnsureAnnotatedTag
    <3>2. tag' = [tag EXCEPT ![v] = right] => tag'[v] = right
      BY <1>1 DEF IInv, TypeOK
    <3> HIDE DEF right
    <3> QED
      BY <2>2, <3>1, <3>2
  <2> QED
    BY <2>1, <2>2
<1>3. UNCHANGED <<head, newest, accepted, release, byHand, lock>>
  BY <1>2 DEF EnsureAnnotatedTag, gitVars, Goes
<1>4. TypeOK'
  <2>1. req' \in [Requests -> RequestRecord \cup {Idle}]
    <3>1. [req[q] EXCEPT !.at = "MARK"] \in RequestRecord
      BY <1>1 DEF RequestRecord
    <3>2. [req[q] EXCEPT !.at = "FAIL"] \in RequestRecord
      BY <1>1 DEF RequestRecord
    <3>3. \/ req' = [req EXCEPT ![q] = [@ EXCEPT !.at = "MARK"]]
          \/ req' = [req EXCEPT ![q] = [@ EXCEPT !.at = "FAIL"]]
      BY <1>2 DEF Goes
    <3> QED
      BY <3>1, <3>2, <3>3 DEF IInv, TypeOK
  <2>2. right \in TagRecord
    BY <1>1 DEF IInv, TypeOK, ReleaseRecord, TagRecord
  <2>3. tag' \in [Versions -> TagRecord]
    BY <1>2, <2>2 DEF IInv, TypeOK
  <2> QED
    BY <1>3, <2>1, <2>3 DEF IInv, TypeOK
<1>5. Alone(q)
  BY <1>1, <1>2, <1>3 DEF Alone, Goes, IInv, TypeOK
<1>6. TaggedReleaseHasTag'
  BY <1>1, <1>2, <1>3 DEF IInv, TypeOK, TaggedReleaseHasTag, NoTag
<1>7. Fits(q)'
  <2>1. /\ Fits(q)
        /\ \/ req'[q] = [req[q] EXCEPT !.at = "MARK"] /\ tag'[v] = right
           \/ req'[q] = [req[q] EXCEPT !.at = "FAIL"]
    BY <1>2 DEF IInv, TypeOK, Goes
  <2> QED
    BY <1>1, <1>2, <1>3, <2>1 DEF Fits, Working, NoneNewer, RowFits, Published,
       RequestRecord
<1> QED
  BY <1>4, <1>5, <1>6, <1>7, StepKeeps

\* A row that is marked stays the row it is.
LEMMA RowIsMarked ==
    ASSUME TypeOK, NEW v \in Versions, NEW s \in {"TAGGED", "FAILED"},
           release' = [release EXCEPT ![v].status = s]
    PROVE  /\ release' \in [Versions -> ReleaseRecord]
           /\ release'[v].status = s
           /\ \A w \in Versions : /\ release'[w].branch = release[w].branch
                                 /\ release'[w].commit = release[w].commit
                                 /\ release'[w].tasks = release[w].tasks
                                 /\ w # v => release'[w].status = release[w].status
BY DEF TypeOK, ReleaseRecord

\* MarkTagged and MarkFailed: a row becomes TAGGED only when the tag was seen, and
\* under the lock nobody but people can have touched it since.
LEMMA MarkKeeps ==
    ASSUME IInv, NEW q \in Requests, MarkTagged(q) \/ MarkFailed(q)
    PROVE  IInv'
<1> DEFINE v == req[q].version
<1>1. req[q] \in RequestRecord /\ v \in Versions /\ Published(v) /\ lock = q
  BY RequestIsRecord
     DEF IInv, MarkTagged, MarkFailed, Fits, Working, RowFits, RequestRecord
<1>2. Returns(q) /\ UNCHANGED <<head, newest, accepted, tag, byHand>>
  BY DEF MarkTagged, MarkFailed, gitVars
<1>3. \/ UNCHANGED release
      \/ req[q].at = "MARK" /\ release' = [release EXCEPT ![v].status = "TAGGED"]
      \/ release' = [release EXCEPT ![v].status = "FAILED"]
  BY DEF MarkTagged, MarkFailed
<1>4. TypeOK'
  <2>1. release' \in [Versions -> ReleaseRecord]
    BY <1>1, <1>3, RowIsMarked DEF IInv, TypeOK
  <2> QED
    BY <1>2, <2>1 DEF IInv, TypeOK, Returns
<1>5. Alone(q)
  BY <1>1, <1>2 DEF Alone, Returns, IInv, TypeOK
<1>6. TaggedReleaseHasTag'
  <2>1. req[q].at = "MARK" /\ v \notin byHand =>
          tag[v] = [kind |-> "ANNOTATED", commit |-> release[v].commit]
    BY DEF IInv, Fits, RowFits
  <2>2. CASE UNCHANGED release
    BY <1>2, <2>2 DEF IInv, TaggedReleaseHasTag
  <2>3. ASSUME NEW s \in {"TAGGED", "FAILED"}, s = "TAGGED" => req[q].at = "MARK",
               release' = [release EXCEPT ![v].status = s]
        PROVE  TaggedReleaseHasTag'
    <3> HIDE DEF v
    <3> QED
      BY <1>1, <1>2, <2>1, <2>3, RowIsMarked DEF IInv, TaggedReleaseHasTag
  <2> QED
    BY <1>3, <2>2, <2>3
<1> QED
  BY <1>2, <1>4, <1>5, <1>6, EndKeeps, PublishingAssumption DEF Returns

\* GiveUp, wherever the request is.
LEMMA GiveUpKeeps ==
    ASSUME IInv, NEW q \in Requests, GiveUp(q)
    PROVE  IInv'
<1>1. UNCHANGED <<head, newest, accepted, release, tag, byHand>>
  BY DEF GiveUp, gitVars
<1>2. TypeOK'
  BY <1>1 DEF GiveUp, IInv, TypeOK
<1>3. Alone(q)
  BY <1>1 DEF GiveUp, Alone, IInv, TypeOK
<1> QED
  BY <1>1, <1>2, <1>3, SameRows, EndKeeps, PublishingAssumption DEF GiveUp

-----------------------------------------------------------------------------
(* The theorems about the releases.                                        *)

\* Every step keeps the invariant.
LEMMA NextIInv == IInv /\ [Next]_vars => IInv'
<1>1. ASSUME IInv, UNCHANGED vars
      PROVE  IInv'
  BY <1>1 DEF vars, IInv, TypeOK, HeadsAreMade, NoneNewer, TaggedReleaseHasTag, Fits,
     Working,
              TasksFit, RowFits, Published
<1> QED
  BY <1>1, TaskKeeps, BranchKeeps, TagKeeps, AskKeeps, ResolveKeeps, ListKeeps, InferKeeps,
     ReserveKeeps, EnsureKeeps, MarkKeeps, GiveUpKeeps DEF Next

\* The inductive invariant holds in every reachable state.
THEOREM PublishingInvariance == Spec => []IInv
<1>1. Init => TypeOK
  <2>1. NoRelease \in ReleaseRecord /\ NoTag \in TagRecord
    BY DEF NoRelease, NoTag, ReleaseRecord, TagRecord
  <2>2. 0 \in 0..MaxChanges
    BY PublishingAssumption
  <2> QED
    BY <2>1, <2>2 DEF Init, TypeOK
<1>2. Init => IInv
  <2> SUFFICES ASSUME Init
               PROVE  IInv
    OBVIOUS
  <2>1. HeadsAreMade /\ TaggedReleaseHasTag
    BY DEF Init, HeadsAreMade, NoneNewer, TaggedReleaseHasTag, NoRelease
  <2>2. ASSUME NEW q \in Requests
        PROVE  Fits(q)
    <3>1. req[q].at = "IDLE" /\ lock # q
      BY PublishingAssumption DEF Init, Idle
    <3> QED
      BY <3>1 DEF Fits, Working, RowFits
  <2> QED
    BY <1>1, <2>1, <2>2 DEF IInv
<1> QED
  BY <1>2, NextIInv, PTL DEF Spec

\* A release that says it is tagged has its tag, unless people touched it, and
\* the tasks of a release are those its commit contains.
THEOREM ReleaseTellsTheTruth == Spec => []ReleaseInvariant
<1>1. IInv => ReleaseTellsWhatShipped
  BY DEF IInv, Fits, RowFits, TasksFit, ReleaseTellsWhatShipped
<1>2. IInv => ReleaseInvariant
  BY <1>1 DEF IInv, ReleaseInvariant
<1> QED
  BY <1>2, PublishingInvariance, PTL

\* A version keeps its branch, commit and tasks, and a tag is never moved.
THEOREM PublishedStays == Spec => PublishedIsFixed
<1> DEFINE Fixed == \A v \in Versions : release[v].status # "ABSENT" =>
              /\ release'[v].branch = release[v].branch
              /\ release'[v].commit = release[v].commit
              /\ release'[v].tasks = release[v].tasks
           Stays == \A v \in Versions : tag[v] # NoTag => tag'[v] \in {tag[v], NoTag}
<1>1. IInv /\ [Next]_vars => [Fixed]_<<release>>
  <2> SUFFICES ASSUME TypeOK, Next
               PROVE  Fixed \/ UNCHANGED release
    BY DEF IInv, vars
  <2> USE DEF TypeOK
  <2>1. ASSUME NEW q \in Requests, Reserve(q)
        PROVE  Fixed \/ UNCHANGED release
    BY <2>1 DEF Reserve, Insert, ReleaseRecord
  <2>2. ASSUME NEW q \in Requests, MarkTagged(q) \/ MarkFailed(q)
        PROVE  Fixed \/ UNCHANGED release
    <3>1. req[q].version \in Versions
      BY <2>2, RequestIsRecord DEF MarkTagged, MarkFailed, RequestRecord
    <3>2. \/ UNCHANGED release
          \/ release' = [release EXCEPT ![req[q].version].status = "TAGGED"]
          \/ release' = [release EXCEPT ![req[q].version].status = "FAILED"]
      BY <2>2 DEF MarkTagged, MarkFailed
    <3>3. CASE release' = [release EXCEPT ![req[q].version].status = "TAGGED"]
      BY <3>1, <3>3, RowIsMarked
    <3>4. CASE release' = [release EXCEPT ![req[q].version].status = "FAILED"]
      BY <3>1, <3>4, RowIsMarked
    <3> QED
      BY <3>2, <3>3, <3>4
  <2> QED
    BY <2>1, <2>2 DEF Next, Accept, Reopen, Land, CommitByHand, TagByHand, Ask,
       ResolveBranch,
                      ListTasks, InferReleaseTask, EnsureAnnotatedTag, GiveUp
<1>2. IInv /\ [Next]_vars => [Stays]_tag
  <2> SUFFICES ASSUME TypeOK, Next
               PROVE  Stays \/ UNCHANGED tag
    BY DEF IInv, vars
  <2> USE DEF TypeOK
  <2>1. ASSUME NEW v \in Versions, TagByHand(v)
        PROVE  Stays
    BY <2>1 DEF TagByHand
  <2>2. ASSUME NEW q \in Requests, EnsureAnnotatedTag(q)
        PROVE  Stays \/ UNCHANGED tag
    BY <2>2 DEF EnsureAnnotatedTag
  <2> QED
    BY <2>1, <2>2 DEF Next, Accept, Reopen, Land, CommitByHand, Ask, ResolveBranch,
                      ListTasks, InferReleaseTask, Reserve, MarkTagged, MarkFailed, GiveUp
<1> QED
  BY <1>1, <1>2, PublishingInvariance, PTL DEF Spec, PublishedIsFixed, ReleaseIsFixed,
     TagsStay

-----------------------------------------------------------------------------
(* The inductive invariant of the files.                                   *)

\* The log, and the files that are always there.
Log   == "state.db-wal"
Files == State!Paths \ {Log}
\* When a restore moves a path away, and when it installs it.
Order(p) == IF p = "project.toml" THEN 1 ELSE IF p = "local.toml" THEN 2
            ELSE IF p = "state.db" THEN 3 ELSE IF p = Log THEN 4 ELSE 5
Turn(p) == IF p = "artifacts" THEN 4 ELSE Order(p)

\* Nobody works with what a restore has staged.
Untouched == wal["new"] = {} /\ \A w \in State!Processes : conn[w] # "new"

\* The directories of a restore beside the live one.
Areas   == {"live", "staging", "rollback"}
DirType == [Areas -> [State!Paths -> {"none", "old", "new", "stray"}]]
\* A fact without a row.
Fresh(n) == \A g \in State!Generations : n \notin main[g] /\ n \notin wal[g]

\* Every row and every artifact to be is of a fact begun, rows are of one fact each,
\* and an archive holds rows that stay.
FactsFit ==
    /\ \A g \in State!Generations : \A n \in main[g] \cup wal[g] : n <= facts
    /\ \A w \in State!Processes : pending[w] # Nobody =>
          /\ pending[w] <= facts /\ Fresh(pending[w])
          /\ \A v \in State!Processes \ {w} : pending[v] # pending[w]
    /\ archive # Nobody => archive.copy \subseteq main["old"] /\ archive.files \subseteq State!Fact
    /\ cmd.pc \in {"listed", "hashed"} => cmd.files \subseteq State!Fact
    /\ cmd.pc = "restore" => archive # Nobody

\* The old artifacts are live, or would be if the restore failed now.
ComesBack ==
    \/ dir["live"]["artifacts"] = "old"
    \/ dir["live"]["artifacts"] = "none" /\ dir["rollback"]["artifacts"] = "old"

\* As long as the old artifacts are live or come back, each row and each row to be
\* has its artifact among them.
ArtifactsFit ==
    /\ ComesBack => /\ State!Rows("old") \subseteq art["old"]
                    /\ \A w \in State!Processes : pending[w] # Nobody => pending[w] \in art["old"]
    /\ dir["live"]["artifacts"] = "stray" => art["stray"] # {}
    /\ \A x \in Areas, p \in State!Paths : dir[x][p] = "stray" => p = "artifacts"

Before == {"idle", "backup", "verified", "flushed", "listed", "hashed", "restore"}

\* Where the files are before a restore, at each of its moves, and after it.
BeforeRestore ==
    cmd.pc \in Before =>
        /\ \A p \in Files : dir["live"][p] = "old"
        /\ dir["live"][Log] \in {"none", "old"}
        /\ \A p \in State!Paths : dir["rollback"][p] = "none"
        /\ Untouched

WhileMoving ==
    cmd.pc = "moving" =>
        /\ cmd = [pc |-> "moving", next |-> cmd.next, hash |-> cmd.hash] /\ cmd.next \in 1..5
        /\ \A p \in State!Paths :
             /\ dir["live"][p] \in {"none", "old"} /\ dir["rollback"][p] \in {"none", "old"}
             /\ Order(p) < cmd.next => dir["live"][p] = "none"
             /\ Order(p) >= cmd.next => dir["rollback"][p] = "none"
        /\ \A p \in Files :
             /\ Order(p) < cmd.next => dir["rollback"][p] = "old"
             /\ Order(p) >= cmd.next => dir["live"][p] = "old"
             /\ dir["staging"][p] = "new"
        /\ Untouched /\ main["new"] = cmd.hash

WhileInstalling ==
    cmd.pc = "installing" =>
        /\ cmd = [pc |-> "installing", next |-> cmd.next, hash |-> cmd.hash] /\ cmd.next \in 1..4
        /\ \A p \in Files :
             /\ Turn(p) < cmd.next => dir["live"][p] = "new" /\ dir["staging"][p] = "none"
             /\ Turn(p) >= cmd.next => dir["staging"][p] = "new"
             /\ Turn(p) >= cmd.next /\ p # "artifacts" => dir["live"][p] = "none"
             /\ dir["rollback"][p] = "old"
        /\ dir["live"]["artifacts"] \in {"none", "stray"}
        /\ dir["live"][Log] \in {"none", "new"}
        /\ cmd.next <= 3 => Untouched /\ main["new"] = cmd.hash

AfterRestore ==
    cmd.pc = "restored" =>
        /\ \A p \in Files : dir["live"][p] = "new"
        /\ dir["live"][Log] \in {"none", "new"}

\* The inductive invariant.
StateInv == /\ State!TypeOK /\ State!ServingIsVisible /\ FactsFit /\ ArtifactsFit
            /\ BeforeRestore /\ WhileMoving /\ WhileInstalling /\ AfterRestore
            /\ State!FailedRestoreKeepsState

\* The two orders number the paths.
LEMMA PathsAre ==
    /\ State!Paths = {"project.toml", "local.toml", "state.db", "state.db-wal", "artifacts"}
    /\ Files = {"project.toml", "local.toml", "state.db", "artifacts"}
    /\ Len(State!Targets) = 5 /\ Len(State!Replacements) = 4
    /\ \A n \in 1..5 : State!Targets[n] \in State!Paths /\ Order(State!Targets[n]) = n
    /\ \A p \in State!Paths : Order(p) \in 1..5 /\ State!Targets[Order(p)] = p
    /\ \A n \in 1..4 : State!Replacements[n] \in Files /\ Turn(State!Replacements[n]) = n
    /\ \A p \in Files : Turn(p) \in 1..4 /\ State!Replacements[Turn(p)] = p
<1>1. Len(State!Targets) = 5 /\ Len(State!Replacements) = 4
  BY DEF State!Targets, State!Replacements
<1>2. /\ State!Targets[1] = "project.toml" /\ State!Targets[2] = "local.toml"
      /\ State!Targets[3] = "state.db"
      /\ State!Targets[4] = "state.db-wal" /\ State!Targets[5] = "artifacts"
  BY DEF State!Targets
<1>3. /\ State!Replacements[1] = "project.toml" /\ State!Replacements[2] = "local.toml"
      /\ State!Replacements[3] = "state.db" /\ State!Replacements[4] = "artifacts"
  BY DEF State!Replacements
<1>4. State!Paths = {State!Targets[n] : n \in 1..5}
  BY <1>1 DEF State!Paths
<1>5. State!Paths = {"project.toml", "local.toml", "state.db", "state.db-wal", "artifacts"}
  BY <1>2, <1>4
<1>6. Files = {"project.toml", "local.toml", "state.db", "artifacts"}
  BY <1>5 DEF Files, Log
<1> QED
  BY <1>1, <1>2, <1>3, <1>5, <1>6 DEF Order, Turn, Log

\* One file of the live state is replaced, removed or put there.
LiveSet(p, v) ==
    /\ dir' \in DirType
    /\ \A x \in Areas, q \in State!Paths : dir'[x][q] = IF x = "live" /\ q = p THEN v ELSE dir[x][q]

\* An assignment to a live path.
LEMMA DirLive ==
    ASSUME dir \in DirType, NEW p \in State!Paths, NEW v \in {"none", "old", "new", "stray"},
           dir' = [dir EXCEPT !["live"][p] = v]
    PROVE  LiveSet(p, v)
BY DEF LiveSet, DirType, Areas

\* Rows move from a log to its main file, or stay.
Settles ==
    /\ main' \in [State!Generations -> SUBSET State!Fact]
    /\ wal' \in [State!Generations -> SUBSET State!Fact]
    /\ \A g \in State!Generations : /\ main'[g] \cap wal'[g] = {}
                                    /\ main'[g] \cup wal'[g] = main[g] \cup wal[g]
                                    /\ main[g] \subseteq main'[g] /\ wal'[g] \subseteq wal[g]

\* Who stops working forgets what it was about to commit.
PendingDrops ==
    /\ pending' \in [State!Processes -> State!Fact \cup {Nobody}]
    /\ \A w \in State!Processes : pending'[w] = pending[w] \/ pending'[w] = Nobody

\* Connections are closed, or opened to the live database.
Connects ==
    /\ conn' \in [State!Processes -> State!Generations \cup {"none"}]
    /\ \A w \in State!Processes : conn'[w] \in {conn[w], "none", dir["live"]["state.db"]}

\* The log appears and disappears with the connections.
LogMoves ==
    \/ UNCHANGED dir
    \/ LiveSet(Log, "none")
    \/ State!Loadable /\ LiveSet(Log, dir["live"]["state.db"])

\* What the steps of a database need to know of types.
DatabaseTypes ==
    /\ dir \in DirType /\ main \in [State!Generations -> SUBSET State!Fact]
    /\ wal \in [State!Generations -> SUBSET State!Fact]
    /\ \A g \in State!Generations : main[g] \cap wal[g] = {}
    /\ conn \in [State!Processes -> State!Generations \cup {"none"}]
    /\ pending \in [State!Processes -> State!Fact \cup {Nobody}]
    /\ dir["live"]["state.db"] \in State!Generations \cup {"none"}

\* The invariant says it.
LEMMA DatabaseTypesHold ==
    ASSUME StateInv
    PROVE  DatabaseTypes
<1>1. "state.db" \in State!Paths
  BY PathsAre
<1> QED
  BY <1>1 DEF StateInv, State!TypeOK, DatabaseTypes, DirType, Areas, ArtifactsFit,
     State!Generations

\* Steps that leave the rows where they are.
LEMMA SameSettles ==
    ASSUME DatabaseTypes, UNCHANGED <<main, wal>>
    PROVE  Settles
BY DEF DatabaseTypes, Settles

\* A checkpoint.
LEMMA FlushSettles ==
    ASSUME DatabaseTypes, NEW g \in State!Generations \cup {"none"}, State!Flush(g)
    PROVE  Settles
<1>1. CASE g \in State!Generations
  BY <1>1 DEF DatabaseTypes, Settles, State!Flush
<1>2. CASE g \notin State!Generations
  <2>1. UNCHANGED <<main, wal>>
    BY <1>2 DEF DatabaseTypes, State!Flush
  <2> QED
    BY <2>1, SameSettles
<1> QED
  BY <1>1, <1>2

\* The log goes, or is there again.
LEMMA LogRemoved ==
    ASSUME dir \in DirType, NEW v \in {"none", "old", "new"},
           dir' = [dir EXCEPT !["live"]["state.db-wal"] = v]
    PROVE  LiveSet(Log, v)
BY PathsAre, DirLive DEF Log

\* A command comes and goes.
LEMMA VisitShape ==
    ASSUME DatabaseTypes, State!Visit
    PROVE  Settles /\ LogMoves
<1>1. CASE State!Users(dir["live"]["state.db"]) = {}
  BY <1>1, FlushSettles, LogRemoved DEF State!Visit, LogMoves, DatabaseTypes
<1>2. CASE State!Users(dir["live"]["state.db"]) # {}
  BY <1>2, SameSettles DEF State!Visit, LogMoves
<1> QED
  BY <1>1, <1>2

\* A process that dies.
LEMMA VanishShape ==
    ASSUME DatabaseTypes, NEW w \in State!Processes, State!Vanish(w)
    PROVE  Settles /\ LogMoves /\ Connects /\ PendingDrops /\ conn' = [conn EXCEPT ![w] = "none"]
BY SameSettles DEF State!Vanish, DatabaseTypes, LogMoves, Connects, PendingDrops

\* A process that closes the database.
LEMMA CloseShape ==
    ASSUME DatabaseTypes, NEW w \in State!Processes, State!Close(w)
    PROVE  Settles /\ LogMoves /\ Connects /\ PendingDrops /\ conn' = [conn EXCEPT ![w] = "none"]
<1>1. Connects /\ PendingDrops /\ conn' = [conn EXCEPT ![w] = "none"]
  BY DEF State!Close, DatabaseTypes, Connects, PendingDrops
<1>2. conn[w] \in State!Generations \cup {"none"}
  BY DEF DatabaseTypes
<1>3. CASE State!Users(conn[w]) = {w}
  <2>1. State!Flush(conn[w]) /\ dir' = IF dir["live"]["state.db-wal"] = conn[w]
                                THEN [dir EXCEPT !["live"]["state.db-wal"] = "none"] ELSE dir
    BY <1>3 DEF State!Close
  <2>2. LogMoves
    BY <2>1, LogRemoved DEF LogMoves, DatabaseTypes
  <2> QED
    BY <1>1, <1>2, <2>1, <2>2, FlushSettles
<1>4. CASE State!Users(conn[w]) # {w}
  BY <1>1, <1>4, SameSettles DEF State!Close, LogMoves
<1> QED
  BY <1>3, <1>4

\* A process that opens it.
LEMMA OpenShape ==
    ASSUME DatabaseTypes, NEW w \in State!Processes, State!OpenLive(w)
    PROVE  /\ LogMoves /\ Connects /\ conn' = [conn EXCEPT ![w] = dir["live"]["state.db"]]
           /\ dir["live"]["state.db"] \in State!Generations
<1>1. dir["live"]["state.db"] \in State!Generations
  BY DEF State!OpenLive, State!Loadable, DatabaseTypes
<1>2. LogMoves
  BY <1>1, LogRemoved DEF State!OpenLive, LogMoves, DatabaseTypes, State!Generations
<1> QED
  BY <1>1, <1>2 DEF State!OpenLive, DatabaseTypes, Connects

-----------------------------------------------------------------------------
(* The facts                                                               *)

\* The files that a backup or its archive names are files of facts.
NamesFacts ==
    /\ cmd'.pc \in {"listed", "hashed"} => cmd'.files \subseteq State!Fact
    /\ cmd'.pc = "restore" => archive # Nobody

\* Wherever rows settle, no fact gets a second one.
LEMMA FactsSettle ==
    ASSUME StateInv, Settles, PendingDrops, UNCHANGED <<facts, archive>>, NamesFacts
    PROVE  FactsFit'
<1>0. DatabaseTypes /\ FactsFit
  BY DatabaseTypesHold DEF StateInv
<1>1. \A g \in State!Generations : \A n : n \in main'[g] \/ n \in wal'[g] <=> n \in main[g] \/ n \in wal[g]
  BY DEF Settles
<1>2. \A g \in State!Generations : \A n \in main'[g] \cup wal'[g] : n <= facts'
  BY <1>0, <1>1 DEF FactsFit
<1>3. ASSUME NEW w \in State!Processes, pending'[w] # Nobody
      PROVE  /\ pending'[w] <= facts' /\ Fresh(pending[w])'
             /\ \A v \in State!Processes \ {w} : pending'[v] # pending'[w]
  <2>1. pending'[w] = pending[w] /\ pending[w] # Nobody
    BY <1>3 DEF PendingDrops
  <2> QED
    BY <1>0, <1>1, <2>1 DEF FactsFit, Fresh, PendingDrops
<1>4. "old" \in State!Generations /\ main["old"] \subseteq main'["old"]
  BY DEF Settles, State!Generations
<1> QED
  BY <1>0, <1>2, <1>3, <1>4 DEF FactsFit, NamesFacts

\* A fact begun is nobody else's.
LEMMA WriteFileFacts ==
    ASSUME StateInv, NEW w \in State!Processes, State!WriteFile(w)
    PROVE  /\ FactsFit' /\ facts' \in 0..MaxFacts
           /\ pending' \in [State!Processes -> State!Fact \cup {Nobody}]
           /\ facts' \in State!Fact
<1>0. DatabaseTypes /\ FactsFit /\ facts \in 0..MaxFacts /\ MaxFacts \in Nat /\ Nobody \notin Nat
  BY DatabaseTypesHold, StateConstants DEF StateInv, State!TypeOK, State!StateAssumption
<1>1. /\ facts' = facts + 1 /\ facts < MaxFacts
      /\ pending' = [pending EXCEPT ![w] = facts + 1]
      /\ UNCHANGED <<main, wal, archive, cmd>>
  BY DEF State!WriteFile
<1>2. facts' \in State!Fact /\ facts' \in 0..MaxFacts /\ facts' > facts /\ facts' # Nobody
  BY <1>0, <1>1 DEF State!Fact
<1>3. /\ pending' \in [State!Processes -> State!Fact \cup {Nobody}] /\ pending'[w] = facts'
      /\ \A v \in State!Processes \ {w} : pending'[v] = pending[v]
  BY <1>0, <1>1, <1>2 DEF DatabaseTypes
<1>4. \A g \in State!Generations : \A n \in main[g] \cup wal[g] : n \in Int /\ n <= facts /\ n <= facts' /\ n # facts'
  BY <1>0, <1>2 DEF FactsFit, DatabaseTypes, State!Fact
<1>5. \A v \in State!Processes : pending[v] # Nobody =>
         pending[v] \in Int /\ pending[v] <= facts' /\ pending[v] # facts'
  BY <1>0, <1>2 DEF FactsFit, DatabaseTypes, State!Fact
<1>6. ASSUME NEW v \in State!Processes, pending'[v] # Nobody
      PROVE  /\ pending'[v] <= facts' /\ Fresh(pending[v])'
             /\ \A u \in State!Processes \ {v} : pending'[u] # pending'[v]
  <2>1. CASE v = w
    BY <1>1, <1>2, <1>3, <1>4, <1>5, <2>1 DEF Fresh
  <2>2. CASE v # w
    BY <1>0, <1>1, <1>2, <1>3, <1>5, <1>6, <2>2 DEF FactsFit, Fresh
  <2> QED
    BY <2>1, <2>2
<1> QED
  BY <1>0, <1>1, <1>2, <1>3, <1>4, <1>6 DEF FactsFit

\* A row is committed once.
LEMMA CommitRowFacts ==
    ASSUME StateInv, NEW w \in State!Processes, State!CommitRow(w)
    PROVE  /\ FactsFit' /\ PendingDrops
           /\ wal' \in [State!Generations -> SUBSET State!Fact]
           /\ \A g \in State!Generations : main'[g] \cap wal'[g] = {}
           /\ \A g \in State!Generations : wal'[g] \subseteq wal[g] \cup {pending[w]}
           /\ \A g \in State!Generations \ {conn[w]} : wal'[g] = wal[g]
<1>0. DatabaseTypes /\ FactsFit
  BY DatabaseTypesHold DEF StateInv
<1>1. /\ wal' = [wal EXCEPT ![conn[w]] = wal[conn[w]] \cup {pending[w]}]
      /\ pending' = [pending EXCEPT ![w] = Nobody] /\ pending[w] # Nobody
      /\ pending[w] \in State!Fact
      /\ UNCHANGED <<main, facts, archive, cmd>>
  BY <1>0 DEF State!CommitRow, State!PutRow, DatabaseTypes
<1>2. /\ wal' \in [State!Generations -> SUBSET State!Fact]
      /\ \A g \in State!Generations : wal'[g] \subseteq wal[g] \cup {pending[w]}
      /\ \A g \in State!Generations \ {conn[w]} : wal'[g] = wal[g]
  BY <1>0, <1>1 DEF DatabaseTypes
<1>3. PendingDrops /\ pending'[w] = Nobody
  BY <1>0, <1>1 DEF DatabaseTypes, PendingDrops
<1>4. Fresh(pending[w]) /\ pending[w] <= facts
  BY <1>0, <1>1 DEF FactsFit
<1>5. \A g \in State!Generations : main'[g] \cap wal'[g] = {}
  BY <1>0, <1>1, <1>2, <1>4 DEF DatabaseTypes, Fresh
<1>6. \A g \in State!Generations : \A n \in main'[g] \cup wal'[g] : n <= facts'
  BY <1>0, <1>1, <1>2, <1>4 DEF FactsFit
<1>7. ASSUME NEW v \in State!Processes, pending'[v] # Nobody
      PROVE  /\ pending'[v] <= facts' /\ Fresh(pending[v])'
             /\ \A u \in State!Processes \ {v} : pending'[u] # pending'[v]
  <2>1. v # w /\ pending'[v] = pending[v] /\ pending[v] # pending[w] /\ Fresh(pending[v])
    BY <1>0, <1>1, <1>3, <1>7 DEF FactsFit, PendingDrops
  <2> QED
    BY <1>0, <1>1, <1>2, <1>3, <1>7, <2>1 DEF FactsFit, Fresh, PendingDrops
<1> QED
  BY <1>0, <1>1, <1>2, <1>3, <1>5, <1>6, <1>7 DEF FactsFit

-----------------------------------------------------------------------------
(* The artifacts.                                                          *)

\* Artifacts are only added; a row is one that was there or was pending.
ArtifactsGrow ==
    /\ art' \in [{"old", "new", "stray"} -> SUBSET State!Fact]
    /\ art["old"] \subseteq art'["old"] /\ (art["stray"] # {} => art'["stray"] # {})
    /\ \A n \in State!Rows("old")' : \/ n \in State!Rows("old")
                                     \/ \E w \in State!Processes : pending[w] # Nobody /\ n = pending[w]
    /\ \A w \in State!Processes :
          pending'[w] \in {pending[w], Nobody} \/ (ComesBack' => pending'[w] \in art'["old"])

\* Artifacts that only grow keep what rows rely on.
LEMMA ArtifactsKept ==
    ASSUME StateInv, ArtifactsGrow, ComesBack' => ComesBack,
           dir'["live"]["artifacts"] = "stray" => art'["stray"] # {},
           \A x \in Areas, p \in State!Paths : dir'[x][p] = "stray" => p = "artifacts"
    PROVE  ArtifactsFit'
BY DEF StateInv, ArtifactsFit, ArtifactsGrow, State!Rows

\* Where an artifact goes: among the old ones, unless a restore took them away.
LEMMA PutFileShape ==
    ASSUME StateInv, NEW n \in State!Fact, State!PutFile(n)
    PROVE  /\ art' \in [{"old", "new", "stray"} -> SUBSET State!Fact]
           /\ art["old"] \subseteq art'["old"] /\ (art["stray"] # {} => art'["stray"] # {})
           /\ ComesBack' => ComesBack /\ n \in art'["old"]
           /\ \/ UNCHANGED dir
              \/ /\ dir["live"]["artifacts"] = "none" /\ art'["stray"] # {}
                 /\ LiveSet("artifacts", "stray")
<1> DEFINE g == dir["live"]["artifacts"]
<1>0. /\ DatabaseTypes /\ art \in [{"old", "new", "stray"} -> SUBSET State!Fact]
      /\ "artifacts" \in State!Paths /\ "live" \in Areas
  BY DatabaseTypesHold, PathsAre DEF StateInv, State!TypeOK, Areas
<1>1. CASE g = "none"
  <2>1. /\ dir' = [dir EXCEPT !["live"]["artifacts"] = "stray"]
        /\ art' = [art EXCEPT !["stray"] = {n}]
    BY <1>1 DEF State!PutFile
  <2>2. LiveSet("artifacts", "stray")
    BY <1>0, <2>1, DirLive DEF DatabaseTypes
  <2> QED
    BY <1>0, <1>1, <2>1, <2>2 DEF ComesBack, LiveSet
<1>2. CASE g # "none"
  <2>1. UNCHANGED dir /\ art' = [art EXCEPT ![g] = art[g] \cup {n}]
    BY <1>2 DEF State!PutFile
  <2>2. g \in {"old", "new", "stray"}
    BY <1>0, <1>2 DEF DatabaseTypes, DirType
  <2> QED
    BY <1>0, <1>2, <2>1, <2>2 DEF ComesBack
<1> QED
  BY <1>1, <1>2

-----------------------------------------------------------------------------
(* Places.                                                                 *)

\* What a process or a backup may do to the files of the project.
Ordinary ==
    /\ Untouched /\ dir["live"]["state.db"] # "new" => Untouched' /\ main'["new"] = main["new"]
    /\ art["stray"] # {} => art'["stray"] # {}
    /\ \/ LogMoves
       \/ /\ LiveSet("artifacts", "stray")
          /\ dir["live"]["artifacts"] = "none" /\ art'["stray"] # {}

\* The positions together.
Positions ==
    BeforeRestore /\ WhileMoving /\ WhileInstalling /\ AfterRestore /\ State!FailedRestoreKeepsState

\* Ordinary steps leave each command where it has put the files.
LEMMA PositionsKept ==
    ASSUME StateInv, Ordinary, UNCHANGED cmd \/ (cmd.pc \in Before /\ cmd'.pc \in Before)
    PROVE  Positions'
<1>0. /\ Positions /\ DatabaseTypes /\ Log \in State!Paths /\ "artifacts" \in Files
      /\ "state.db" \in Files
      /\ "project.toml" \in Files /\ Order("project.toml") = 1 /\ Order("artifacts") = 5
      /\ Files \subseteq State!Paths /\ Log \notin Files
      /\ {"live", "staging", "rollback"} \subseteq Areas
      /\ "artifacts" \in State!Paths /\ Order(Log) = 4 /\ Turn("state.db") = 3
  BY DatabaseTypesHold, PathsAre DEF StateInv, Positions, Areas, Order, Log, Turn
<1>1. \A p \in Files : p # "artifacts" => dir'["live"][p] = dir["live"][p]
  BY <1>0 DEF Ordinary, LogMoves, LiveSet
<1>2. \/ dir'["live"]["artifacts"] = dir["live"]["artifacts"]
      \/ /\ dir["live"]["artifacts"] = "none" /\ dir'["live"]["artifacts"] = "stray"
         /\ art'["stray"] # {}
  BY <1>0 DEF Ordinary, LogMoves, LiveSet, Log
<1>3. \A x \in {"staging", "rollback"}, p \in State!Paths : dir'[x][p] = dir[x][p]
  BY <1>0 DEF Ordinary, LogMoves, LiveSet
<1>4. \/ dir'["live"][Log] \in {dir["live"][Log], "none"}
      \/ State!Loadable /\ dir'["live"][Log] = dir["live"]["state.db"]
  BY <1>0 DEF Ordinary, LogMoves, LiveSet, Log
<1>5. Untouched /\ dir["live"]["state.db"] # "new" => Untouched' /\ main'["new"] = main["new"]
  BY DEF Ordinary
<1>6. BeforeRestore'
  <2>1. CASE UNCHANGED cmd
    BY <1>0, <1>1, <1>2, <1>3, <1>4, <1>5, <2>1 DEF Positions, BeforeRestore
  <2>2. CASE cmd.pc \in Before
    BY <1>0, <1>1, <1>2, <1>3, <1>4, <1>5, <2>2 DEF Positions, BeforeRestore
  <2> QED
    BY <2>1, <2>2
<1>7. WhileMoving'
  <2>1. SUFFICES ASSUME cmd'.pc = "moving"
                 PROVE  WhileMoving'
    BY DEF WhileMoving
  <2>2. UNCHANGED cmd /\ cmd.pc = "moving"
    BY <2>1 DEF Before
  <2>3. cmd.next \in 1..5 /\ \A p \in State!Paths : Order(p) \in 1..5
    BY <1>0, <2>2, PathsAre DEF Positions, WhileMoving
  <2>4. Untouched' /\ main'["new"] = cmd'.hash
    BY <1>0, <1>5, <2>2 DEF Positions, WhileMoving
  <2>5. \A p \in Files : dir'["live"][p] = dir["live"][p] \/ Order(p) < cmd.next
    BY <1>0, <1>1, <1>2, <2>2, <2>3 DEF Positions, WhileMoving
  <2>a. \A p \in Files : dir'["live"][p] = dir["live"][p]
    BY <1>0, <1>1, <1>2, <2>2, <2>3 DEF Positions, WhileMoving
  <2>6. dir'["live"][Log] \in {"none", "old"} /\ (Order(Log) < cmd.next => dir'["live"][Log] = "none")
    <3>1. CASE dir'["live"][Log] \in {dir["live"][Log], "none"}
      BY <1>0, <2>2, <3>1 DEF Positions, WhileMoving
    <3>2. CASE State!Loadable /\ dir'["live"][Log] = dir["live"]["state.db"]
      <4>1. dir["live"]["project.toml"] # "none" /\ dir["live"]["state.db"] # "none"
        BY <3>2 DEF State!Loadable
      <4>2. ~(Order(Log) < cmd.next)
        BY <1>0, <2>2, <2>3, <4>1 DEF Positions, WhileMoving
      <4> QED
        BY <1>0, <2>2, <3>2, <4>1, <4>2 DEF Positions, WhileMoving
    <3> QED
      BY <1>4, <3>1, <3>2
  <2>7. \A p \in State!Paths : p \in Files \/ p = Log
    BY DEF Files
  <2> QED
    BY <1>0, <1>3, <2>2, <2>3, <2>4, <2>a, <2>6, <2>7 DEF Positions, WhileMoving
<1>8. WhileInstalling'
  <2>1. SUFFICES ASSUME cmd'.pc = "installing"
                 PROVE  WhileInstalling'
    BY DEF WhileInstalling
  <2>2. UNCHANGED cmd /\ cmd.pc = "installing" /\ cmd.next \in 1..4
    BY <1>0, <2>1 DEF Before, Positions, WhileInstalling
  <2>3. dir["live"]["state.db"] \in {"none", "new"} /\ (cmd.next <= 3 => dir["live"]["state.db"] # "new")
    BY <1>0, <2>2 DEF Positions, WhileInstalling
  <2>4. cmd.next <= 3 => Untouched' /\ main'["new"] = cmd.hash
    BY <1>0, <1>5, <2>2, <2>3 DEF Positions, WhileInstalling
  <2>5. dir'["live"][Log] \in {"none", "new"}
    BY <1>0, <1>4, <2>2, <2>3 DEF Positions, WhileInstalling
  <2>6. Turn("artifacts") = 4
    BY DEF Turn
  <2> QED
    BY <1>0, <1>1, <1>2, <1>3, <2>2, <2>4, <2>5, <2>6 DEF Positions, WhileInstalling
<1>9. AfterRestore'
  BY <1>0, <1>1, <1>2, <1>4 DEF Positions, AfterRestore, Before
<1>10. State!FailedRestoreKeepsState'
  <2>1. Files = State!Paths \ {"state.db-wal"}
    BY DEF Files, Log
  <2> QED
    BY <1>0, <1>1, <1>2, <2>1 DEF Positions, State!FailedRestoreKeepsState, Before, Ordinary
<1> QED
  BY <1>6, <1>7, <1>8, <1>9, <1>10 DEF Positions

-----------------------------------------------------------------------------
(* Steps.                                                                  *)

\* Where a command may be.
CommandPlaces == Before \cup {"moving", "installing", "restored", "failed", "abandoned", "dead"}

\* All but the processes.
FilesOK ==
    /\ dir \in DirType
    /\ main \in [State!Generations -> SUBSET State!Fact]
    /\ wal \in [State!Generations -> SUBSET State!Fact]
    /\ \A g \in State!Generations : main[g] \cap wal[g] = {}
    /\ art \in [{"old", "new", "stray"} -> SUBSET State!Fact]
    /\ pending \in [State!Processes -> State!Fact \cup {Nobody}] /\ facts \in 0..MaxFacts
    /\ cmd.pc \in CommandPlaces
    /\ FactsFit /\ ArtifactsFit /\ Positions

\* The processes.
ProcessesOK ==
    /\ phase \in [Daemons -> {"off", "starting", "serving", "closing", "unpublished"}]
    /\ runner \subseteq Runners
    /\ conn \in [State!Processes -> State!Generations \cup {"none"}]
    /\ \A w \in State!Processes : conn[w] # "none" <=> w \in runner \/ (w \in Daemons /\ phase[w] # "off")
    /\ daemonLock \in Daemons \cup {Nobody}
    /\ \A d \in Daemons : phase[d] # "off" <=> daemonLock = d
    /\ metadata \in Daemons \cup {Nobody}
    /\ State!ServingIsVisible

\* The invariant in two parts: files and processes.
LEMMA StateInvParts == StateInv <=> FilesOK /\ ProcessesOK
<1> USE DEF Positions, CommandPlaces, Before, DirType, Areas
<1>1. StateInv => FilesOK
  BY DEF StateInv, State!TypeOK, FilesOK
<1>2. StateInv => ProcessesOK
  BY DEF StateInv, State!TypeOK, ProcessesOK
<1>3. FilesOK /\ ProcessesOK => State!TypeOK
  BY DEF FilesOK, ProcessesOK, State!TypeOK
<1> QED
  BY <1>1, <1>2, <1>3 DEF StateInv, FilesOK, ProcessesOK

\* The log's moves concern no other file.
LEMMA LogMovesShape ==
    ASSUME StateInv, LogMoves
    PROVE  /\ dir' \in DirType
           /\ \A x \in Areas, p \in State!Paths : p # Log => dir'[x][p] = dir[x][p]
           /\ \A x \in Areas, p \in State!Paths : dir'[x][p] = "stray" => p = "artifacts"
           /\ ComesBack' => ComesBack
           /\ dir'["live"]["artifacts"] = dir["live"]["artifacts"]
<1>0. /\ DatabaseTypes /\ FilesOK /\ "artifacts" \in State!Paths /\ "artifacts" # Log
      /\ {"live", "staging", "rollback"} \subseteq Areas /\ "state.db" \in State!Paths
  BY DatabaseTypesHold, PathsAre, StateInvParts DEF Areas, Log
<1>1. dir' \in DirType
  BY <1>0 DEF LogMoves, LiveSet, DatabaseTypes
<1>2. \A x \in Areas, p \in State!Paths : p # Log => dir'[x][p] = dir[x][p]
  BY <1>0 DEF LogMoves, LiveSet
<1>3. \A x \in Areas : dir'[x][Log] # "stray"
  <2>1. \A x \in Areas : dir[x][Log] # "stray"
    BY <1>0, PathsAre DEF FilesOK, ArtifactsFit, Log
  <2> QED
    BY <1>0, <2>1, PathsAre DEF LogMoves, LiveSet, DatabaseTypes, State!Generations, Log
<1>4. \A x \in Areas, p \in State!Paths : dir'[x][p] = "stray" => p = "artifacts"
  BY <1>0, <1>2, <1>3 DEF FilesOK, ArtifactsFit
<1> QED
  BY <1>0, <1>1, <1>2, <1>4 DEF ComesBack

\* Processes and backups that open, close and checkpoint the database.
LEMMA OrdinaryStep ==
    ASSUME StateInv, Settles, PendingDrops, LogMoves, Connects, UNCHANGED <<art, facts, archive>>,
           NamesFacts, cmd'.pc \in CommandPlaces,
           UNCHANGED cmd \/ (cmd.pc \in Before /\ cmd'.pc \in Before)
    PROVE  FilesOK'
<1>0. FilesOK /\ DatabaseTypes
  BY StateInvParts, DatabaseTypesHold
<1>1. FactsFit'
  BY FactsSettle
<1>2. ArtifactsFit'
  <2>1. ArtifactsGrow
    <3>1. State!Rows("old")' = State!Rows("old")
      BY DEF Settles, State!Rows, State!Generations
    <3>2. \A w \in State!Processes : pending'[w] \in {pending[w], Nobody}
      BY DEF PendingDrops
    <3> QED
      BY <1>0, <3>1, <3>2 DEF FilesOK, ArtifactsGrow
  <2>2. dir'["live"]["artifacts"] = "stray" => art'["stray"] # {}
    BY <1>0, LogMovesShape DEF FilesOK, ArtifactsFit
  <2> QED
    BY <2>1, <2>2, ArtifactsKept, LogMovesShape
<1>3. Ordinary
  BY <1>0 DEF Ordinary, Untouched, Settles, Connects, State!Generations
<1>4. Positions'
  BY <1>3, PositionsKept
<1> QED
  BY <1>0, <1>1, <1>2, <1>4, LogMovesShape DEF FilesOK, Settles, PendingDrops

\* An artifact is written.
LEMMA WriteFileStep ==
    ASSUME StateInv, NEW w \in State!Processes, State!WriteFile(w)
    PROVE  FilesOK'
<1>0. FilesOK /\ DatabaseTypes
  BY StateInvParts, DatabaseTypesHold
<1>1. /\ FactsFit' /\ facts' \in 0..MaxFacts
      /\ pending' \in [State!Processes -> State!Fact \cup {Nobody}]
      /\ facts' \in State!Fact
  BY WriteFileFacts
<1>2. /\ facts' = facts + 1 /\ State!PutFile(facts') /\ pending' = [pending EXCEPT ![w] = facts']
      /\ UNCHANGED <<main, wal, conn, cmd>>
  BY DEF State!WriteFile
<1>3. /\ art' \in [{"old", "new", "stray"} -> SUBSET State!Fact]
      /\ art["old"] \subseteq art'["old"] /\ (art["stray"] # {} => art'["stray"] # {})
      /\ ComesBack' => ComesBack /\ facts' \in art'["old"]
      /\ \/ UNCHANGED dir
         \/ /\ dir["live"]["artifacts"] = "none" /\ art'["stray"] # {}
            /\ LiveSet("artifacts", "stray")
  BY <1>1, <1>2, PutFileShape
<1>4. ArtifactsFit'
  <2>1. ArtifactsGrow
    <3>1. State!Rows("old")' = State!Rows("old")
      BY <1>2 DEF State!Rows
    <3>2. \A v \in State!Processes : pending'[v] \in {pending[v], Nobody} \/ pending'[v] = facts'
      BY <1>0, <1>2 DEF FilesOK
    <3> QED
      BY <1>3, <3>1, <3>2 DEF ArtifactsGrow
  <2>2. /\ dir'["live"]["artifacts"] = "stray" => art'["stray"] # {}
        /\ \A x \in Areas, p \in State!Paths : dir'[x][p] = "stray" => p = "artifacts"
    BY <1>0, <1>3 DEF FilesOK, ArtifactsFit, LiveSet
  <2> QED
    BY <1>3, <2>1, <2>2, ArtifactsKept
<1>5. Ordinary
  BY <1>2, <1>3 DEF Ordinary, Untouched, LogMoves
<1>6. Positions'
  BY <1>2, <1>5, PositionsKept
<1>7. dir' \in DirType
  BY <1>0, <1>3 DEF FilesOK, LiveSet
<1> QED
  BY <1>0, <1>1, <1>2, <1>3, <1>4, <1>6, <1>7 DEF FilesOK

\* A row is committed.
LEMMA CommitRowStep ==
    ASSUME StateInv, NEW w \in State!Processes, State!CommitRow(w)
    PROVE  FilesOK'
<1>0. FilesOK /\ DatabaseTypes
  BY StateInvParts, DatabaseTypesHold
<1>1. /\ FactsFit' /\ PendingDrops
      /\ wal' \in [State!Generations -> SUBSET State!Fact]
      /\ \A g \in State!Generations : main'[g] \cap wal'[g] = {}
      /\ \A g \in State!Generations : wal'[g] \subseteq wal[g] \cup {pending[w]}
      /\ \A g \in State!Generations \ {conn[w]} : wal'[g] = wal[g]
  BY CommitRowFacts
<1>2. pending[w] # Nobody /\ UNCHANGED <<dir, main, art, conn, facts, cmd>>
  BY DEF State!CommitRow
<1>3. ArtifactsFit'
  <2>1. ArtifactsGrow
    <3>1. \A n \in State!Rows("old")' : n \in State!Rows("old") \/ n = pending[w]
      BY <1>1, <1>2 DEF State!Rows, State!Generations
    <3>2. \A v \in State!Processes : pending'[v] \in {pending[v], Nobody}
      BY <1>1 DEF PendingDrops
    <3>3. UNCHANGED art /\ art \in [{"old", "new", "stray"} -> SUBSET State!Fact]
      BY <1>0, <1>2 DEF FilesOK
    <3> QED
      BY <1>2, <3>1, <3>2, <3>3 DEF ArtifactsGrow
  <2> QED
    BY <1>0, <1>2, <2>1, ArtifactsKept DEF FilesOK, ArtifactsFit, ComesBack
<1>4. Ordinary
  BY <1>1, <1>2 DEF Ordinary, Untouched, LogMoves, State!Generations
<1>5. Positions'
  BY <1>2, <1>4, PositionsKept
<1> QED
  BY <1>0, <1>1, <1>2, <1>3, <1>5 DEF FilesOK, PendingDrops

\* No process does anything, and a command changes nothing but its own state.
LEMMA WriteArchiveStep ==
    ASSUME StateInv, State!WriteArchive
    PROVE  FilesOK'
<1>0. FilesOK /\ DatabaseTypes
  BY StateInvParts, DatabaseTypesHold
<1>1. /\ cmd.pc = "hashed" /\ archive' = [files |-> cmd.files, hash |-> cmd.hash,
                                         copy |-> main[dir["live"]["state.db"]]]
      /\ cmd'.pc = "idle"
      /\ UNCHANGED <<dir, main, wal, art, conn, pending, facts>>
  BY DEF State!WriteArchive, State!Command, State!Others, State!Idle
<1>2. dir["live"]["state.db"] = "old"
  BY <1>0, <1>1, PathsAre DEF FilesOK, Positions, BeforeRestore, Before
<1>3. archive'.copy = main["old"] /\ archive'.files = cmd.files /\ cmd.files \subseteq State!Fact
  BY <1>0, <1>1, <1>2 DEF FilesOK, FactsFit
<1>4. FactsFit'
  BY <1>0, <1>1, <1>3 DEF FilesOK, FactsFit, Fresh
<1>5. ArtifactsFit'
  BY <1>0, <1>1 DEF FilesOK, ArtifactsFit, ComesBack, State!Rows
<1>6. Positions'
  <2>1. Ordinary
    BY <1>1 DEF Ordinary, Untouched, LogMoves
  <2> QED
    BY <1>1, <2>1, PositionsKept DEF Before
<1> QED
  BY <1>0, <1>1, <1>4, <1>5, <1>6 DEF FilesOK, CommandPlaces, Before

\* A file is put somewhere, or moved from one place to another.
\* The directory e is d with v at one path.
Places(d, x, p, v, e) ==
    /\ e \in DirType
    /\ \A z \in Areas, q \in State!Paths : e[z][q] = IF q = p /\ z = x THEN v ELSE d[z][q]

\* Such a directory is one.
LEMMA OneFile ==
    ASSUME NEW d \in DirType, NEW x \in Areas, NEW p \in State!Paths,
           NEW v \in {"none", "old", "new", "stray"}, NEW e, e = [d EXCEPT ![x][p] = v]
    PROVE  Places(d, x, p, v, e)
<1>1. /\ d \in [Areas -> [State!Paths -> {"none", "old", "new", "stray"}]]
      /\ d[x] \in [State!Paths -> {"none", "old", "new", "stray"}]
  BY DEF DirType
<1> QED
  BY <1>1 DEF DirType, Places

\* The directory e is d with a path changed in two places.
Moved(d, p, x, y, u, v, e) == e = [d EXCEPT ![x][p] = u, ![y][p] = v]

LEMMA TwoFiles ==
    ASSUME NEW d \in DirType, NEW p \in State!Paths, NEW x \in Areas, NEW y \in Areas, x # y,
           NEW u \in {"none", "old", "new", "stray"}, NEW v \in {"none", "old", "new", "stray"},
           NEW e, Moved(d, p, x, y, u, v, e)
    PROVE  /\ e \in DirType
           /\ \A z \in Areas, q \in State!Paths :
                e[z][q] = IF q = p /\ z = x THEN u ELSE IF q = p /\ z = y THEN v ELSE d[z][q]
<1>1. PICK f : f = [d EXCEPT ![x][p] = u]
  OBVIOUS
<1>2. Places(d, x, p, u, f)
  BY <1>1, OneFile
<1>3. e = [f EXCEPT ![y][p] = v]
  BY <1>1 DEF DirType, Moved
<1>4. f \in DirType
  BY <1>2 DEF Places
<1>5. Places(f, y, p, v, e)
  BY <1>3, <1>4, OneFile
<1>6. ASSUME NEW z \in Areas, NEW q \in State!Paths
      PROVE  e[z][q] = IF q = p /\ z = x THEN u ELSE IF q = p /\ z = y THEN v ELSE d[z][q]
  <2>1. /\ e[z][q] = IF q = p /\ z = y THEN v ELSE f[z][q]
        /\ f[z][q] = IF q = p /\ z = x THEN u ELSE d[z][q]
    BY <1>2, <1>5 DEF Places
  <2> QED
    BY <2>1
<1> QED
  BY <1>5, <1>6 DEF Places

\* A command goes on to the next path and keeps the rest of what it knows.
LEMMA MovesOn ==
    ASSUME NEW c, NEW n, NEW h, NEW k, c = [pc |-> k, next |-> n, hash |-> h]
    PROVE  [c EXCEPT !.next = @ + 1] = [pc |-> k, next |-> n + 1, hash |-> h]
OBVIOUS

\* A command that opens the database, checkpoints it or looks at the files.
LEMMA CommandSteps ==
    ASSUME StateInv,
           State!BeginBackup \/ State!CheckIntegrity \/ State!CheckpointDatabase
           \/ State!CollectBackupFiles
             \/ State!HashFiles \/ State!BeginRestore
    PROVE  FilesOK'
<1>0. FilesOK /\ DatabaseTypes
  BY StateInvParts, DatabaseTypesHold
<1>1. /\ UNCHANGED <<art, phase, runner, conn, pending, facts, daemonLock, metadata, archive>>
      /\ cmd.pc \in Before /\ cmd'.pc \in Before
  BY DEF State!BeginBackup, State!CheckIntegrity, State!CheckpointDatabase,
     State!CollectBackupFiles, State!HashFiles,
         State!BeginRestore, State!Others, State!Command, State!Idle, Before
<1>2. PendingDrops /\ Connects
  BY <1>0, <1>1 DEF PendingDrops, Connects, DatabaseTypes
<1>3. Settles /\ LogMoves
  <2>1. CASE State!Visit
    BY <1>0, <2>1, VisitShape
  <2>2. CASE UNCHANGED <<dir, main, wal>>
    BY <1>0, <2>2, SameSettles DEF LogMoves
  <2>3. CASE State!Flush(dir["live"]["state.db"]) /\ UNCHANGED dir
    BY <1>0, <2>3, FlushSettles DEF LogMoves, DatabaseTypes
  <2> QED
    BY <2>1, <2>2, <2>3 DEF State!BeginBackup, State!CheckIntegrity,
       State!CheckpointDatabase,
         State!CollectBackupFiles, State!HashFiles, State!BeginRestore, State!Command
<1>4. NamesFacts
  <2>1. CASE State!CollectBackupFiles
    <3>1. dir["live"]["artifacts"] = "old" /\ art["old"] \subseteq State!Fact
      BY <1>0, <1>1, PathsAre DEF FilesOK, Positions, BeforeRestore
    <3> QED
      BY <2>1, <3>1 DEF NamesFacts, State!CollectBackupFiles
  <2>2. CASE State!HashFiles
    BY <1>0, <2>2 DEF NamesFacts, State!HashFiles, FilesOK, FactsFit
  <2>3. CASE State!BeginRestore
    BY <1>1, <2>3 DEF NamesFacts, State!BeginRestore
  <2>4. CASE State!BeginBackup \/ State!CheckIntegrity \/ State!CheckpointDatabase
    BY <2>4 DEF NamesFacts, State!BeginBackup, State!CheckIntegrity,
       State!CheckpointDatabase, State!Idle
  <2> QED
    BY <2>1, <2>2, <2>3, <2>4
<1> QED
  BY <1>1, <1>2, <1>3, <1>4, OrdinaryStep DEF CommandPlaces

\* Only an artifact is stray, and only if it was.
NoMoreStray ==
    /\ \A x \in Areas, p \in State!Paths : dir'[x][p] = "stray" => p = "artifacts"
    /\ dir'["live"]["artifacts"] = "stray" => dir["live"]["artifacts"] = "stray"

\* The files that a restore has brought so far make no fact and take none away.
Restores ==
    /\ UNCHANGED <<wal, conn, pending, facts, archive>>
    /\ \A n \in main'["new"] : n \in main["new"] \/ (archive # Nobody /\ n \in archive.copy)
    /\ main' \in [State!Generations -> SUBSET State!Fact] /\ main'["old"] = main["old"]
    /\ art' \in [{"old", "new", "stray"} -> SUBSET State!Fact]
    /\ art'["old"] = art["old"] /\ art'["stray"] = art["stray"]
    /\ cmd'.pc \notin {"listed", "hashed", "restore"}

\* What a backup brings back are facts that have their rows.
LEMMA RestoresFacts ==
    ASSUME StateInv, Restores
    PROVE  FactsFit'
<1>0. DatabaseTypes /\ FactsFit
  BY DatabaseTypesHold DEF StateInv
<1>1. \A g \in State!Generations, n \in State!Fact :
        n \in main'[g] => n \in main[g] \/ n \in main["old"]
  BY <1>0 DEF Restores, FactsFit, State!Generations
<1>2. \A g \in State!Generations : \A n \in main'[g] \cup wal'[g] : n <= facts'
  BY <1>0, <1>1 DEF FactsFit, Restores, State!Generations
<1>3. \A w \in State!Processes : pending[w] # Nobody => Fresh(pending[w])'
  BY <1>0, <1>1 DEF FactsFit, Restores, Fresh, State!Generations, DatabaseTypes
<1> QED
  BY <1>0, <1>2, <1>3 DEF FactsFit, Restores

\* Nor does a restore touch the artifacts that may come back.
LEMMA RestoresArtifacts ==
    ASSUME StateInv, Restores, ComesBack' => ComesBack,
           NoMoreStray
    PROVE  ArtifactsFit'
BY DEF StateInv, ArtifactsFit, Restores, State!Rows, NoMoreStray

\* The archive is staged, or refused.
LEMMA StageStep ==
    ASSUME StateInv, State!Stage
    PROVE  FilesOK'
<1>0. /\ FilesOK /\ DatabaseTypes /\ cmd.pc = "restore" /\ "state.db" \in Files
      /\ Log \notin Files
      /\ {"live", "staging", "rollback"} \subseteq Areas /\ Files \subseteq State!Paths
      /\ \A p \in State!Paths : Order(p) \in 1..5
  BY StateInvParts, DatabaseTypesHold, PathsAre DEF State!Stage, Log, Areas, Files
<1>1. /\ archive # Nobody /\ archive.copy \subseteq main["old"]
      /\ archive.files \subseteq State!Fact
      /\ UNCHANGED <<wal, phase, runner, conn, pending, facts, daemonLock, metadata, archive>>
  BY <1>0 DEF State!Stage, FilesOK, FactsFit
<1>2. /\ \A p \in Files : dir["live"][p] = "old"
      /\ dir["live"][Log] \in {"none", "old"}
      /\ \A p \in State!Paths : dir["rollback"][p] = "none"
      /\ Untouched
  BY <1>0 DEF FilesOK, Positions, BeforeRestore, Before
<1>3. CASE State!Intact(archive)
  <2>1. /\ main' = [main EXCEPT !["new"] = archive.copy]
        /\ art' = [art EXCEPT !["new"] = archive.files]
        /\ dir' = [dir EXCEPT !["staging"] = [p \in State!Paths |->
                            IF p = "state.db-wal" THEN "none" ELSE "new"]]
        /\ cmd' = [pc |-> "moving", next |-> 1, hash |-> archive.hash]
    BY <1>3 DEF State!Stage
  <2>2. main["old"] \subseteq State!Fact /\ "old" \in State!Generations /\ "new" \in State!Generations
    BY <1>0 DEF DatabaseTypes, State!Generations
  <2>3. Restores
    BY <1>0, <1>1, <2>1, <2>2 DEF Restores, DatabaseTypes, FilesOK
  <2>4. /\ dir' \in DirType /\ dir'["live"] = dir["live"] /\ dir'["rollback"] = dir["rollback"]
        /\ \A p \in State!Paths : dir'["staging"][p] = IF p = "state.db-wal" THEN "none" ELSE "new"
    BY <1>0, <2>1 DEF DatabaseTypes, DirType, Areas
  <2>5. FactsFit'
    BY <2>3, RestoresFacts
  <2>6. ArtifactsFit'
    <3>1. ComesBack' => ComesBack
      BY <2>4 DEF ComesBack
    <3>2. NoMoreStray
      BY <1>0, <2>4 DEF FilesOK, ArtifactsFit, Areas, NoMoreStray
    <3> QED
      BY <2>3, <3>1, <3>2, RestoresArtifacts
  <2>7. \A g \in State!Generations : main'[g] \cap wal'[g] = {}
    BY <1>0, <1>1, <1>2, <2>3, <2>2 DEF Restores, Untouched, DatabaseTypes,
       State!Generations
  <2>8. Positions'
    <3>1. WhileMoving'
      <4>1. Untouched' /\ main'["new"] = cmd'.hash
        BY <1>0, <1>1, <1>2, <1>3, <2>1, <2>2 DEF Untouched, State!Intact, DatabaseTypes
      <4>2. \A p \in Files : dir'["staging"][p] = "new"
        BY <1>0, <2>4 DEF Log
      <4>3. \A p \in State!Paths : p \in Files \/ p = Log
        BY DEF Files
      <4> QED
        BY <1>0, <1>2, <2>1, <2>4, <4>1, <4>2, <4>3 DEF WhileMoving
    <3> QED
      BY <2>1, <3>1 DEF Positions, BeforeRestore, WhileInstalling, AfterRestore,
                        State!FailedRestoreKeepsState, Before
  <2> QED
    BY <1>0, <1>1, <2>1, <2>3, <2>4, <2>5, <2>6, <2>7, <2>8 DEF FilesOK, CommandPlaces,
       Restores
<1>4. CASE ~State!Intact(archive)
  <2>1. cmd'.pc = "failed" /\ UNCHANGED <<main, art, dir>>
    BY <1>4 DEF State!Stage
  <2>2. Restores
    BY <1>0, <1>1, <2>1 DEF Restores, FilesOK
  <2>3. FactsFit'
    BY <2>2, RestoresFacts
  <2>4. ArtifactsFit'
    BY <1>0, <2>1, <2>2, RestoresArtifacts DEF ComesBack, FilesOK, ArtifactsFit, NoMoreStray
  <2>5. Positions'
    BY <1>2, <2>1 DEF Positions, BeforeRestore, WhileMoving, WhileInstalling, AfterRestore,
                      State!FailedRestoreKeepsState, Before, Files, Log
  <2> QED
    BY <1>0, <1>1, <2>1, <2>3, <2>4, <2>5 DEF FilesOK, CommandPlaces
<1> QED
  BY <1>3, <1>4

\* A restore moves files: it changes nothing in them.
Moves ==
    /\ UNCHANGED <<main, wal, art, phase, runner, conn, pending,
                   facts, daemonLock, metadata, archive>>
    /\ cmd'.pc \in {"moving", "installing", "restored", "failed", "abandoned", "dead"}

\* A move of files keeps the invariant if it keeps their places.
LEMMA MovesStep ==
    ASSUME StateInv, Moves, dir' \in DirType, ComesBack' => ComesBack, Positions',
           NoMoreStray
    PROVE  FilesOK'
<1>0. FilesOK /\ DatabaseTypes
  BY StateInvParts, DatabaseTypesHold
<1>1. Restores
  BY <1>0 DEF Restores, Moves, FilesOK, DatabaseTypes
<1>2. FactsFit' /\ ArtifactsFit'
  BY <1>1, RestoresFacts, RestoresArtifacts
<1> QED
  BY <1>0, <1>2 DEF FilesOK, CommandPlaces, Moves

\* What is live is set aside, one path after the other.
LEMMA MoveAsideStep ==
    ASSUME StateInv, State!MoveAside
    PROVE  FilesOK'
<1> DEFINE p == State!Targets[cmd.next]
<1>0. /\ FilesOK /\ DatabaseTypes /\ cmd.pc = "moving" /\ Files \subseteq State!Paths
      /\ Log \notin Files
      /\ {"live", "staging", "rollback"} = Areas /\ "artifacts" \in Files /\ Log \in State!Paths
      /\ \A q \in State!Paths : Order(q) \in 1..5 /\ State!Targets[Order(q)] = q
      /\ \A q \in Files : Turn(q) \in 1..4
      /\ \A q \in State!Paths : q \in Files \/ q = Log
  BY StateInvParts, DatabaseTypesHold, PathsAre DEF State!MoveAside, Areas, Files, Log
<1>1. /\ cmd.next \in 1..5 /\ p \in State!Paths /\ Order(p) = cmd.next /\ Len(State!Targets) = 5
      /\ \A q \in State!Paths :
             /\ dir["live"][q] \in {"none", "old"} /\ dir["rollback"][q] \in {"none", "old"}
             /\ Order(q) < cmd.next => dir["live"][q] = "none"
             /\ Order(q) >= cmd.next => dir["rollback"][q] = "none"
      /\ \A q \in Files :
             /\ Order(q) < cmd.next => dir["rollback"][q] = "old"
             /\ Order(q) >= cmd.next => dir["live"][q] = "old"
             /\ dir["staging"][q] = "new"
      /\ Untouched /\ main["new"] = cmd.hash
  BY <1>0, PathsAre DEF FilesOK, Positions, WhileMoving
<1>2. /\ dir' = IF dir["live"][p] = "none" THEN dir
              ELSE [dir EXCEPT !["rollback"][p] = dir["live"][p], !["live"][p] = "none"]
      /\ cmd' = IF cmd.next = Len(State!Targets)
                THEN [pc |-> "installing", next |-> 1, hash |-> cmd.hash]
                ELSE [cmd EXCEPT !.next = @ + 1]
      /\ UNCHANGED <<main, wal, art, phase, runner, conn, pending,
                     facts, daemonLock, metadata, archive>>
  BY DEF State!MoveAside, State!Aside
<1>3. /\ dir' \in DirType
      /\ \A q \in State!Paths :
           /\ dir'["live"][q] = IF q = p THEN "none" ELSE dir["live"][q]
           /\ dir'["rollback"][q] = IF q = p THEN dir["live"][p] ELSE dir["rollback"][q]
           /\ dir'["staging"][q] = dir["staging"][q]
  <2>1. CASE dir["live"][p] = "none"
    BY <1>0, <1>1, <1>2, <2>1 DEF DatabaseTypes
  <2>2. CASE dir["live"][p] # "none"
    <3>1. Moved(dir, p, "rollback", "live", dir["live"][p], "none", dir')
      BY <1>2, <2>2 DEF Moved
    <3>2. /\ dir \in DirType /\ "rollback" \in Areas /\ "live" \in Areas \ {"rollback"}
          /\ dir["live"][p] \in {"none", "old", "new", "stray"} /\ p \in State!Paths
      BY <1>0, <1>1 DEF DatabaseTypes
    <3> HIDE DEF p
    <3>3. /\ dir' \in DirType
          /\ \A z \in Areas, q \in State!Paths :
               dir'[z][q] = IF q = p /\ z = "rollback" THEN dir["live"][p]
                            ELSE IF q = p /\ z = "live" THEN "none" ELSE dir[z][q]
      BY <3>1, <3>2, TwoFiles
    <3> QED
      BY <1>0, <3>3
  <2> QED
    BY <2>1, <2>2
<1>4. ComesBack' => ComesBack
  BY <1>0, <1>1, <1>3 DEF ComesBack
<1>5. NoMoreStray
  <2>1. \A x \in Areas, q \in State!Paths : dir[x][q] = "stray" => q = "artifacts"
    BY <1>0 DEF FilesOK, ArtifactsFit
  <2>2. \A q \in State!Paths : /\ dir'["live"][q] # "stray" /\ dir'["rollback"][q] # "stray"
    BY <1>1, <1>3
  <2> QED
    BY <1>0, <1>3, <2>1, <2>2 DEF NoMoreStray
<1>7. Untouched' /\ main'["new"] = cmd.hash
  BY <1>1, <1>2 DEF Untouched
<1>8. \A q \in State!Paths : Order(q) = cmd.next => q = p
  BY <1>0
<1>9. CASE cmd.next < 5
  <2>1. /\ cmd' = [pc |-> "moving", next |-> cmd.next + 1, hash |-> cmd.hash]
        /\ cmd.next + 1 \in 1..5
    <3>1. cmd' = [cmd EXCEPT !.next = @ + 1]
      BY <1>1, <1>2, <1>9
    <3>2. cmd = [pc |-> "moving", next |-> cmd.next, hash |-> cmd.hash]
      BY <1>0 DEF FilesOK, Positions, WhileMoving
    <3> QED
      BY <1>1, <1>9, <3>1, <3>2, MovesOn
  <2>2. \A q \in State!Paths : Order(q) < cmd'.next <=> Order(q) < cmd.next \/ q = p
    BY <1>0, <1>1, <1>8, <2>1
  <2>3. WhileMoving'
    BY <1>0, <1>1, <1>3, <1>7, <1>8, <2>1, <2>2 DEF WhileMoving
  <2>4. Positions'
    BY <2>1, <2>3 DEF Positions, BeforeRestore, WhileInstalling, AfterRestore,
                      State!FailedRestoreKeepsState, Before
  <2> QED
    BY <1>2, <1>3, <1>4, <1>5, <2>1, <2>4, MovesStep DEF Moves
<1>10. CASE cmd.next = 5
  <2>1. cmd' = [pc |-> "installing", next |-> 1, hash |-> cmd.hash]
    BY <1>1, <1>2, <1>10
  <2>2. \A q \in State!Paths : dir'["live"][q] = "none"
    BY <1>0, <1>1, <1>3, <1>8, <1>10
  <2>3. \A q \in Files : dir'["rollback"][q] = "old" /\ dir'["staging"][q] = "new"
    BY <1>0, <1>1, <1>3, <1>8, <1>10
  <2>4. WhileInstalling'
    BY <1>0, <1>7, <2>1, <2>2, <2>3 DEF WhileInstalling
  <2>5. Positions'
    BY <2>1, <2>4 DEF Positions, BeforeRestore, WhileMoving, AfterRestore,
                      State!FailedRestoreKeepsState, Before
  <2> QED
    BY <1>2, <1>3, <1>4, <1>5, <2>1, <2>5, MovesStep DEF Moves
<1> QED
  BY <1>1, <1>9, <1>10

\* What is staged becomes live, one path after the other.
LEMMA InstallStep ==
    ASSUME StateInv, State!Install
    PROVE  FilesOK'
<1> DEFINE p == State!Replacements[cmd.next]
<1>0. /\ FilesOK /\ DatabaseTypes /\ cmd.pc = "installing" /\ Files \subseteq State!Paths
      /\ Log \notin Files
      /\ {"live", "staging", "rollback"} = Areas /\ "artifacts" \in Files /\ Log \in State!Paths
      /\ \A q \in Files : Turn(q) \in 1..4 /\ State!Replacements[Turn(q)] = q
      /\ \A q \in State!Paths : q \in Files \/ q = Log
      /\ Turn("artifacts") = 4
  BY StateInvParts, DatabaseTypesHold, PathsAre DEF State!Install, Areas, Files, Log, Turn
<1>1. /\ cmd.next \in 1..4 /\ p \in Files /\ p \in State!Paths /\ p # Log /\ Turn(p) = cmd.next
      /\ Len(State!Replacements) = 4
      /\ \A q \in Files :
             /\ Turn(q) < cmd.next => dir["live"][q] = "new" /\ dir["staging"][q] = "none"
             /\ Turn(q) >= cmd.next => dir["staging"][q] = "new"
             /\ Turn(q) >= cmd.next /\ q # "artifacts" => dir["live"][q] = "none"
             /\ dir["rollback"][q] = "old"
      /\ dir["live"]["artifacts"] \in {"none", "stray"}
      /\ dir["live"][Log] \in {"none", "new"}
      /\ cmd.next <= 3 => Untouched /\ main["new"] = cmd.hash
  BY <1>0, PathsAre DEF FilesOK, Positions, WhileInstalling
<1>2. /\ dir' = [dir EXCEPT !["live"][p] = dir["staging"][p], !["staging"][p] = "none"]
      /\ cmd' = IF cmd.next = Len(State!Replacements) THEN [pc |-> "restored", hash |-> cmd.hash]
                ELSE [cmd EXCEPT !.next = @ + 1]
      /\ UNCHANGED <<main, wal, art, phase, runner, conn, pending,
                     facts, daemonLock, metadata, archive>>
  BY DEF State!Install
<1>3. /\ dir' \in DirType
      /\ \A q \in State!Paths :
           /\ dir'["live"][q] = IF q = p THEN "new" ELSE dir["live"][q]
           /\ dir'["staging"][q] = IF q = p THEN "none" ELSE dir["staging"][q]
           /\ dir'["rollback"][q] = dir["rollback"][q]
  <2>1. /\ dir \in DirType /\ "live" \in Areas /\ "staging" \in Areas \ {"live"}
        /\ dir["staging"][p] = "new" /\ p \in State!Paths
    BY <1>0, <1>1 DEF DatabaseTypes
  <2> HIDE DEF p
  <2>2. Moved(dir, p, "live", "staging", "new", "none", dir')
    BY <1>2, <2>1 DEF Moved
  <2>3. /\ dir' \in DirType
        /\ \A z \in Areas, q \in State!Paths :
             dir'[z][q] = IF q = p /\ z = "live" THEN "new"
                          ELSE IF q = p /\ z = "staging" THEN "none" ELSE dir[z][q]
    BY <2>1, <2>2, TwoFiles
  <2> QED
    BY <1>0, <2>3
<1>4. ComesBack' => ComesBack
  BY <1>0, <1>1, <1>3 DEF ComesBack
<1>5. NoMoreStray
  <2>1. \A x \in Areas, q \in State!Paths : dir[x][q] = "stray" => q = "artifacts"
    BY <1>0 DEF FilesOK, ArtifactsFit
  <2>2. \A x \in Areas, q \in State!Paths : dir'[x][q] \in {dir[x][q], "new", "none"}
    BY <1>0, <1>3
  <2> QED
    BY <1>0, <2>1, <2>2 DEF NoMoreStray
<1>8. \A q \in Files : Turn(q) = cmd.next => q = p
  BY <1>0
<1>9. CASE cmd.next < 4
  <2>1. /\ cmd' = [pc |-> "installing", next |-> cmd.next + 1, hash |-> cmd.hash]
        /\ cmd.next + 1 \in 1..4
    <3>1. cmd' = [cmd EXCEPT !.next = @ + 1]
      BY <1>1, <1>2, <1>9
    <3>2. cmd = [pc |-> "installing", next |-> cmd.next, hash |-> cmd.hash]
      BY <1>0 DEF FilesOK, Positions, WhileInstalling
    <3> QED
      BY <1>1, <1>9, <3>1, <3>2, MovesOn
  <2>2. \A q \in Files : Turn(q) < cmd'.next <=> Turn(q) < cmd.next \/ q = p
    BY <1>0, <1>1, <1>8, <2>1
  <2>3. p # "artifacts"
    BY <1>0, <1>1, <1>9
  <2>4. cmd'.next <= 3 => Untouched' /\ main'["new"] = cmd'.hash
    BY <1>1, <1>2, <2>1 DEF Untouched
  <2>5. \A q \in Files : Turn(q) >= cmd'.next => Turn(q) >= cmd.next /\ q # p
    BY <1>0, <1>1, <2>1
  <2>6. WhileInstalling'
    BY <1>0, <1>1, <1>3, <2>1, <2>2, <2>3, <2>4, <2>5 DEF WhileInstalling
  <2>7. Positions'
    BY <2>1, <2>6 DEF Positions, BeforeRestore, WhileMoving, AfterRestore,
                      State!FailedRestoreKeepsState, Before
  <2> QED
    BY <1>2, <1>3, <1>4, <1>5, <2>1, <2>7, MovesStep DEF Moves
<1>10. CASE cmd.next = 4
  <2>1. cmd'.pc = "restored"
    BY <1>1, <1>2, <1>10
  <2>2. AfterRestore'
    BY <1>0, <1>1, <1>3, <1>8, <1>10 DEF AfterRestore
  <2>3. Positions'
    BY <2>1, <2>2 DEF Positions, BeforeRestore, WhileMoving, WhileInstalling,
                      State!FailedRestoreKeepsState, Before
  <2> QED
    BY <1>2, <1>3, <1>4, <1>5, <2>1, <2>3, MovesStep DEF Moves
<1> QED
  BY <1>1, <1>9, <1>10

\* What was set aside comes back.
LEMMA RenameFailsStep ==
    ASSUME StateInv, State!RenameFails
    PROVE  FilesOK'
<1>0. /\ FilesOK /\ DatabaseTypes /\ Files \subseteq State!Paths /\ Log \notin Files
      /\ {"live", "staging", "rollback"} = Areas /\ "artifacts" \in Files
      /\ \A q \in Files : Turn(q) \in 1..4 /\ Order(q) \in 1..5
      /\ Turn("artifacts") = 4
  BY StateInvParts, DatabaseTypesHold, PathsAre DEF Areas, Files, Log, Turn
<1>1. /\ cmd.pc \in {"moving", "installing"} /\ cmd'.pc = "failed"
      /\ dir' = [dir EXCEPT !["live"] = [p \in State!Paths |-> State!RolledBack(p)],
                            !["staging"] = State!Nothing, !["rollback"] = State!Nothing]
      /\ UNCHANGED <<main, wal, art, phase, runner, conn, pending,
                     facts, daemonLock, metadata, archive>>
  BY DEF State!RenameFails
<1>2. \A p \in State!Paths : State!RolledBack(p) \in {dir["rollback"][p], dir["live"][p], "none"}
  BY DEF State!RolledBack
<1>3. \A p \in State!Paths : State!RolledBack(p) \in {"none", "old", "new", "stray"}
  BY <1>0, <1>2 DEF DatabaseTypes, DirType
<1>4. /\ dir' \in DirType
      /\ \A p \in State!Paths : /\ dir'["live"][p] = State!RolledBack(p)
                                /\ dir'["staging"][p] = "none" /\ dir'["rollback"][p] = "none"
  BY <1>0, <1>1, <1>3 DEF DatabaseTypes, DirType, State!Nothing
<1>5. /\ dir["rollback"]["artifacts"] \in {"none", "old"}
      /\ \A p \in Files : dir["live"][p] = "old" \/ dir["rollback"][p] = "old"
      /\ \A p \in Files : dir["live"][p] = "old" => dir["rollback"][p] = "none"
      /\ dir["live"]["artifacts"] \in {"none", "old", "stray"}
  <2>1. CASE cmd.pc = "moving"
    BY <1>0, <2>1 DEF FilesOK, Positions, WhileMoving
  <2>2. CASE cmd.pc = "installing"
    BY <1>0, <2>2 DEF FilesOK, Positions, WhileInstalling
  <2> QED
    BY <1>1, <2>1, <2>2
<1>6. ComesBack' => ComesBack
  <2>1. dir'["live"]["artifacts"] = State!RolledBack("artifacts") /\ dir'["rollback"]["artifacts"] = "none"
    BY <1>0, <1>4
  <2> QED
    BY <1>5, <2>1 DEF ComesBack, State!RolledBack, State!Blocked
<1>8. NoMoreStray
  <2>1. \A x \in Areas, q \in State!Paths : dir[x][q] = "stray" => q = "artifacts"
    BY <1>0 DEF FilesOK, ArtifactsFit
  <2> QED
    BY <1>0, <1>2, <1>4, <1>5, <2>1 DEF NoMoreStray
<1>9. State!FailedRestoreKeepsState'
  <2>1. SUFFICES ASSUME art'["stray"] = {}, NEW p \in Files
                 PROVE  State!RolledBack(p) = "old"
    BY <1>0, <1>4 DEF State!FailedRestoreKeepsState, Files, Log
  <2>2. ~State!Blocked(p) \/ dir["live"][p] = "old"
    BY <1>0, <1>1, <1>5, <2>1 DEF FilesOK, ArtifactsFit, State!Blocked
  <2> QED
    BY <1>5, <2>2 DEF State!RolledBack
<1>10. Positions'
  BY <1>1, <1>9 DEF Positions, BeforeRestore, WhileMoving, WhileInstalling, AfterRestore,
     Before
<1> QED
  BY <1>1, <1>4, <1>6, <1>8, <1>10, MovesStep DEF Moves

\* A restore gives up without going back.
LEMMA LstatFailsStep ==
    ASSUME StateInv, State!LstatFails
    PROVE  FilesOK'
<1>0. /\ FilesOK /\ DatabaseTypes /\ {"live", "staging", "rollback"} = Areas
      /\ "artifacts" \in State!Paths
  BY StateInvParts, DatabaseTypesHold, PathsAre DEF Areas
<1>1. /\ dir' = [dir EXCEPT !["staging"] = State!Nothing, !["rollback"] = State!Nothing]
      /\ cmd'.pc = "abandoned"
      /\ UNCHANGED <<main, wal, art, phase, runner, conn, pending,
                     facts, daemonLock, metadata, archive>>
  BY DEF State!LstatFails
<1>2. /\ dir' \in DirType
      /\ \A p \in State!Paths : /\ dir'["live"][p] = dir["live"][p]
                                /\ dir'["staging"][p] = "none" /\ dir'["rollback"][p] = "none"
  BY <1>0, <1>1 DEF DatabaseTypes, DirType, State!Nothing
<1>3. ComesBack' => ComesBack
  BY <1>0, <1>2 DEF ComesBack
<1>4. NoMoreStray
  BY <1>0, <1>2 DEF FilesOK, ArtifactsFit, NoMoreStray
<1>5. Positions'
  BY <1>1 DEF Positions, BeforeRestore, WhileMoving, WhileInstalling, AfterRestore, Before,
              State!FailedRestoreKeepsState
<1> QED
  BY <1>0, <1>1, <1>2, <1>3, <1>4, <1>5, MovesStep DEF Moves

\* A restore dies.
LEMMA CommandDiesStep ==
    ASSUME StateInv, State!CommandDies
    PROVE  FilesOK'
<1>0. FilesOK /\ DatabaseTypes
  BY StateInvParts, DatabaseTypesHold
<1>1. cmd'.pc = "dead" /\ Moves /\ UNCHANGED dir
  BY DEF State!CommandDies, Moves, State!Command, State!Others
<1>2. Positions'
  BY <1>1 DEF Positions, BeforeRestore, WhileMoving, WhileInstalling, AfterRestore, Before,
              State!FailedRestoreKeepsState
<1> QED
  BY <1>0, <1>1, <1>2, MovesStep DEF DatabaseTypes, FilesOK, ArtifactsFit, ComesBack,
     NoMoreStray

-----------------------------------------------------------------------------
(* Daemons and runners.                                                    *)

\* Steps of no process.
LEMMA ProcessesKept ==
    ASSUME StateInv, UNCHANGED <<phase, runner, conn, daemonLock, metadata>>
    PROVE  ProcessesOK'
<1>1. ProcessesOK
  BY StateInvParts
<1> QED
  BY <1>1 DEF ProcessesOK, State!ServingIsVisible

\* A daemon starts, serves, stops or dies; the lock keeps a second one away.
LEMMA DaemonSteps ==
    ASSUME StateInv, NEW d \in Daemons,
           State!Start(d) \/ State!Serve(d) \/ State!Shutdown(d) \/ State!Unpublish(d)
           \/ State!Exit(d) \/ State!Die(d)
    PROVE  FilesOK' /\ ProcessesOK'
<1>0. /\ FilesOK /\ DatabaseTypes /\ ProcessesOK /\ d \in State!Processes /\ d \notin runner
      /\ Nobody \notin Daemons /\ Daemons \subseteq State!Processes
  BY StateInvParts, DatabaseTypesHold, StateConstants DEF State!StateAssumption,
     State!Processes, ProcessesOK
<1>1. NamesFacts /\ cmd'.pc \in CommandPlaces /\ UNCHANGED <<art, runner, facts, cmd, archive>>
  BY <1>0 DEF State!Start, State!Serve, State!Shutdown, State!Unpublish, State!Exit,
     State!Die, NamesFacts, FilesOK, FactsFit
<1>2. FilesOK'
  <2>1. CASE State!Start(d)
    <3>1. LogMoves /\ Connects /\ UNCHANGED <<main, wal, pending>>
      BY <1>0, <2>1, OpenShape DEF State!Start
    <3> QED
      BY <1>0, <1>1, <3>1, SameSettles, OrdinaryStep DEF PendingDrops, DatabaseTypes
  <2>2. CASE State!Serve(d) \/ State!Shutdown(d) \/ State!Unpublish(d)
    <3>1. UNCHANGED <<dir, main, wal, conn, pending>>
      BY <2>2 DEF State!Serve, State!Shutdown, State!Unpublish
    <3> QED
      BY <1>0, <1>1, <3>1, SameSettles, OrdinaryStep
         DEF PendingDrops, Connects, LogMoves, DatabaseTypes
  <2>3. CASE State!Exit(d)
    BY <1>0, <1>1, <2>3, CloseShape, OrdinaryStep DEF State!Exit
  <2>4. CASE State!Die(d)
    BY <1>0, <1>1, <2>4, VanishShape, OrdinaryStep DEF State!Die
  <2> QED
    BY <2>1, <2>2, <2>3, <2>4
<1>3. ProcessesOK'
  <2>1. CASE State!Start(d)
    <3>1. /\ conn' = [conn EXCEPT ![d] = dir["live"]["state.db"]]
          /\ dir["live"]["state.db"] \in State!Generations /\ dir["live"]["state.db"] # "none"
      BY <1>0, <2>1, OpenShape DEF State!Start, State!Generations
    <3>2. \A e \in Daemons : phase[e] = "off"
      BY <1>0, <2>1 DEF State!Start, ProcessesOK
    <3> QED
      BY <1>0, <2>1, <3>1, <3>2 DEF State!Start, ProcessesOK, State!ServingIsVisible
  <2>2. CASE State!Serve(d)
    BY <1>0, <2>2 DEF State!Serve, ProcessesOK, State!ServingIsVisible
  <2>3. CASE State!Shutdown(d)
    BY <1>0, <2>3 DEF State!Shutdown, ProcessesOK, State!ServingIsVisible
  <2>4. CASE State!Unpublish(d)
    BY <1>0, <2>4 DEF State!Unpublish, ProcessesOK, State!ServingIsVisible
  <2>5. CASE State!Exit(d) \/ State!Die(d)
    <3>1. /\ conn' = [conn EXCEPT ![d] = "none"] /\ daemonLock' = Nobody
          /\ phase' = [phase EXCEPT ![d] = "off"] /\ phase[d] # "off"
          /\ UNCHANGED <<runner, metadata>>
      BY <2>5 DEF State!Exit, State!Die, State!Close, State!Vanish
    <3> QED
      BY <1>0, <3>1 DEF ProcessesOK, State!ServingIsVisible
  <2> QED
    BY <2>1, <2>2, <2>3, <2>4, <2>5
<1> QED
  BY <1>2, <1>3

\* A runner starts and ends.
LEMMA RunnerSteps ==
    ASSUME StateInv, NEW r \in Runners, State!SpawnRunner(r) \/ State!RunnerExits(r)
    PROVE  FilesOK' /\ ProcessesOK'
<1>0. FilesOK /\ DatabaseTypes /\ ProcessesOK /\ r \in State!Processes /\ r \notin Daemons
  BY StateInvParts, DatabaseTypesHold, StateConstants DEF State!StateAssumption,
     State!Processes
<1>1. /\ NamesFacts /\ cmd'.pc \in CommandPlaces
      /\ UNCHANGED <<art, phase, facts, daemonLock, metadata, cmd, archive>>
  BY <1>0 DEF State!SpawnRunner, State!RunnerExits, NamesFacts, FilesOK, FactsFit
<1>2. CASE State!SpawnRunner(r)
  <2>1. /\ LogMoves /\ Connects /\ UNCHANGED <<main, wal, pending>>
        /\ conn' = [conn EXCEPT ![r] = dir["live"]["state.db"]]
        /\ dir["live"]["state.db"] \in State!Generations /\ dir["live"]["state.db"] # "none"
        /\ runner' = runner \cup {r}
    BY <1>0, <1>2, OpenShape DEF State!SpawnRunner, State!Generations
  <2>2. FilesOK'
    BY <1>0, <1>1, <2>1, SameSettles, OrdinaryStep DEF PendingDrops, DatabaseTypes
  <2>3. ProcessesOK'
    BY <1>0, <1>1, <2>1 DEF ProcessesOK, State!ServingIsVisible
  <2> QED
    BY <2>2, <2>3
<1>3. CASE State!RunnerExits(r)
  <2>1. /\ Settles /\ LogMoves /\ Connects /\ PendingDrops /\ conn' = [conn EXCEPT ![r] = "none"]
        /\ runner' = runner \ {r}
    BY <1>0, <1>3, CloseShape DEF State!RunnerExits
  <2>2. FilesOK'
    BY <1>1, <2>1, OrdinaryStep
  <2>3. ProcessesOK'
    BY <1>0, <1>1, <2>1 DEF ProcessesOK, State!ServingIsVisible
  <2> QED
    BY <2>2, <2>3
<1> QED
  BY <1>2, <1>3

-----------------------------------------------------------------------------
(* The theorems about the files.                                           *)

\* A project starts with everything live and nobody at work.
LEMMA InitState == State!Init => StateInv
<1> SUFFICES ASSUME State!Init PROVE StateInv
  OBVIOUS
<1>0. MaxFacts \in Nat /\ Nobody \notin Daemons
  BY StateConstants DEF State!StateAssumption
<1>1. /\ dir \in DirType /\ \A p \in Files : dir["live"][p] = "old"
      /\ \A p \in State!Paths : dir["live"][p] \in {"old", "none"}
      /\ dir["live"][Log] = "none"
      /\ \A p \in State!Paths : dir["rollback"][p] = "none" /\ dir["staging"][p] = "none"
  BY PathsAre DEF State!Init, DirType, Areas, State!Nothing, Log, Files
<1>2. cmd.pc = "idle"
  BY DEF State!Init, State!Idle
<1>3. Positions
  BY <1>1, <1>2 DEF State!Init, Positions, BeforeRestore, WhileMoving, WhileInstalling,
     AfterRestore,
                    State!FailedRestoreKeepsState, Untouched, State!Generations
<1>4. FactsFit
  BY <1>2 DEF State!Init, FactsFit
<1>5. ArtifactsFit
  BY <1>1, PathsAre DEF State!Init, ArtifactsFit, State!Rows, State!Generations, Areas,
     Files
<1>6. FilesOK
  BY <1>0, <1>1, <1>2, <1>3, <1>4, <1>5 DEF State!Init, FilesOK, CommandPlaces, Before
<1>7. ProcessesOK
  BY <1>0 DEF State!Init, ProcessesOK, State!ServingIsVisible
<1> QED
  BY <1>6, <1>7, StateInvParts

\* Each step keeps the invariant.
LEMMA NextState == StateInv /\ [State!Next]_State!vars => StateInv'
<1> SUFFICES ASSUME StateInv, [State!Next]_State!vars
             PROVE  FilesOK' /\ ProcessesOK'
  BY StateInvParts, PTL
<1>0. FilesOK /\ DatabaseTypes
  BY StateInvParts, DatabaseTypesHold
<1>1. ASSUME NEW w \in State!Processes, State!AutoCheckpoint(w)
      PROVE  FilesOK' /\ ProcessesOK'
  <2>1. /\ State!Flush(conn[w]) /\ conn[w] \in State!Generations \cup {"none"}
        /\ UNCHANGED <<dir, art, phase, runner, conn, pending,
                       facts, daemonLock, metadata, cmd, archive>>
    BY <1>0, <1>1 DEF State!AutoCheckpoint, DatabaseTypes
  <2>2. Settles /\ LogMoves /\ Connects /\ PendingDrops /\ NamesFacts /\ cmd'.pc \in CommandPlaces
    BY <1>0, <2>1, FlushSettles
       DEF LogMoves, Connects, PendingDrops, NamesFacts, DatabaseTypes, FilesOK, FactsFit
  <2> QED
    BY <2>1, <2>2, OrdinaryStep, ProcessesKept
<1>2. ASSUME NEW w \in State!Processes, State!WriteFile(w)
      PROVE  FilesOK' /\ ProcessesOK'
  BY <1>2, WriteFileStep, ProcessesKept DEF State!WriteFile
<1>3. ASSUME NEW w \in State!Processes, State!CommitRow(w)
      PROVE  FilesOK' /\ ProcessesOK'
  BY <1>3, CommitRowStep, ProcessesKept DEF State!CommitRow
<1>4. CASE State!BeginBackup \/ State!CheckIntegrity \/ State!CheckpointDatabase
           \/ State!CollectBackupFiles
             \/ State!HashFiles \/ State!BeginRestore
  <2>1. UNCHANGED <<phase, runner, conn, daemonLock, metadata>>
    BY <1>4 DEF State!BeginBackup, State!CheckIntegrity, State!CheckpointDatabase,
       State!CollectBackupFiles, State!HashFiles,
                State!BeginRestore, State!Command, State!Others
  <2> QED
    BY <1>4, <2>1, CommandSteps, ProcessesKept
<1>5. CASE State!WriteArchive
  BY <1>5, WriteArchiveStep, ProcessesKept DEF State!WriteArchive, State!Command,
     State!Others
<1>6. CASE State!Stage
  BY <1>6, StageStep, ProcessesKept DEF State!Stage
<1>7. CASE State!MoveAside
  BY <1>7, MoveAsideStep, ProcessesKept DEF State!MoveAside
<1>8. CASE State!Install
  BY <1>8, InstallStep, ProcessesKept DEF State!Install
<1>9. CASE State!RenameFails
  BY <1>9, RenameFailsStep, ProcessesKept DEF State!RenameFails
<1>10. CASE State!LstatFails
  BY <1>10, LstatFailsStep, ProcessesKept DEF State!LstatFails
<1>11. CASE State!CommandDies
  BY <1>11, CommandDiesStep, ProcessesKept DEF State!CommandDies, State!Command,
     State!Others
<1>12. CASE UNCHANGED State!vars
  <2>1. UNCHANGED <<dir, main, wal, art, phase, runner, conn, pending,
                    facts, daemonLock, metadata, cmd, archive>>
    BY <1>12 DEF State!vars
  <2>2. Settles /\ LogMoves /\ Connects /\ PendingDrops /\ NamesFacts /\ cmd'.pc \in CommandPlaces
    BY <1>0, <2>1, SameSettles
       DEF LogMoves, Connects, PendingDrops, NamesFacts, DatabaseTypes, FilesOK, FactsFit
  <2> QED
    BY <2>1, <2>2, OrdinaryStep, ProcessesKept
<1> QED
  BY <1>1, <1>2, <1>3, <1>4, <1>5, <1>6, <1>7, <1>8, <1>9, <1>10, <1>11, <1>12,
     DaemonSteps, RunnerSteps DEF State!Next

\* The invariant says what the run checks.
LEMMA StateInvIsState == StateInv => State!StateInvariant
<1> SUFFICES ASSUME StateInv PROVE State!StateInvariant
  OBVIOUS
<1>0. /\ FilesOK /\ Files = State!Paths \ {Log} /\ "state.db" \in Files /\ Turn("state.db") = 3
      /\ "artifacts" \in Files
  BY StateInvParts, PathsAre DEF Files, Turn, Order
<1>1. State!RowsHaveArtifacts
  BY <1>0 DEF State!RowsHaveArtifacts, FilesOK, ArtifactsFit, ComesBack
<1>2. State!StagedIsHashed
  <2>1. CASE cmd.pc = "moving"
    BY <1>0, <2>1 DEF State!StagedIsHashed, FilesOK, Positions, WhileMoving
  <2>2. CASE cmd.pc = "installing"
    BY <1>0, <2>2 DEF State!StagedIsHashed, FilesOK, Positions, WhileInstalling
  <2> QED
    BY <2>1, <2>2 DEF State!StagedIsHashed
<1>3. State!RestoredIsWhole
  BY <1>0 DEF State!RestoredIsWhole, FilesOK, Positions, AfterRestore
<1> QED
  BY <1>1, <1>2, <1>3 DEF StateInv, State!StateInvariant

\* The inductive invariant holds in every reachable state.
THEOREM StateInvariance == State!Spec => []StateInv
<1>1. State!Init => StateInv
  BY InitState
<1>2. StateInv /\ [State!Next]_State!vars => StateInv'
  BY NextState
<1> QED
  BY <1>1, <1>2, PTL DEF State!Spec

\* The files of a project fit together: every row of the old database has its artifact,
\* a restore installs what the backup hashed and nothing of the former state, and one
\* that fails puts the former state back.
THEOREM StateIsSafe == State!Spec => []StateInvariant
<1>1. StateInv => StateInvariant
  BY StateInvIsState DEF StateInvariant
<1> QED
  BY <1>1, StateInvariance, PTL

-----------------------------------------------------------------------------
(* Together.                                                               *)

\* Where releases and files take turns, both are what they are alone.
THEOREM ProjectIsKept ==
    ProjectSpec => [](ReleaseInvariant /\ StateInvariant) /\ PublishedIsFixed
<1>1. ProjectInit => Init /\ State!Init
  BY DEF ProjectInit
<1>2. [ProjectNext]_<<part, vars, stateVars>> => [Next]_vars /\ [State!Next]_State!vars
  BY DEF ProjectNext, vars, stateVars, State!vars
<1>3. ProjectSpec => Spec /\ State!Spec
  BY <1>1, <1>2, PTL DEF ProjectSpec, Spec, State!Spec
<1> QED
  BY <1>3, ReleaseTellsTheTruth, StateIsSafe, PublishedStays, PTL
=============================================================================
