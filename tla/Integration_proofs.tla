-------------------------- MODULE Integration_proofs --------------------------
(***************************************************************************)
(* Integration implements Landing, for every number of tasks, requests,    *)
(* commits and attempts.                                                   *)
(*                                                                         *)
(* The inductive invariant IInv says what a request may rely on although   *)
(* it checked it before it took the lock: every commit it names is         *)
(* written, the commit it integrates was accepted, and the branch it saw   *)
(* is contained in that commit when it goes to fast-forward.  All of it    *)
(* is stable because commits and reviews are only ever added (Grows).      *)
(*                                                                         *)
(* VInv adds what only the holder of git.lock may rely on.  The lock keeps *)
(* other requests out but neither the owner of the branch nor the agents   *)
(* in the worktrees; a step of theirs (Aside) adds commits on top and so   *)
(* changes neither what the branch contains of the commits compared nor    *)
(* what a worktree contains.                                               *)
(***************************************************************************)
EXTENDS Integration, TLAPS

\* Every commit named by the repository or the tables is written.
RepositoryOK ==
    /\ made \in Commits
    /\ anc \in [Commits -> SUBSET Commits]
    /\ target \in 1..made
    /\ work \in [Tasks -> [head : 1..made, dirty : BOOLEAN, merging : 0..made]]
    /\ ws \in [Tasks -> [state : {"READY", "DIRTY", "QUARANTINED"}, head : 1..made,
                         dirty : BOOLEAN]]
    /\ reviews \in [Tasks -> SUBSET (1..made)]
    /\ accepted \in [Tasks -> 0..made]
    /\ \A t \in Tasks : accepted[t] # None => accepted[t] \in reviews[t]

RowsOK ==
    /\ status \in [Tasks -> TaskStatus]
    /\ version \in [Tasks -> Nat]
    /\ attempt \in [Attempts -> Attempt]
    /\ \A a \in Attempts : attempt[a].status # "ABSENT" => attempt[a].task \in Tasks
    /\ lock \in Requests \cup {NoOne}
    /\ daemon \in {"UP", "DOWN", "RECOVERING", "REFUSED"}
    /\ aborted \in Attempts \cup {None}

\* What a request at each of its steps relies on.
Relies(r) ==
    /\ r \in Request
    /\ r.source \in 0..made /\ r.target \in 0..made
    /\ r.pc # "IDLE" => r.task \in Tasks
    /\ r.pc = "APPLY" => r.source \in 1..made
    /\ r.pc \in {"LOCK"} \cup Holding => r.kind \in {"INTEGRATE", "SYNC"}
    /\ (r.pc # "IDLE" /\ r.kind \in {"INTEGRATE", "SYNC"}) => r.source \in reviews[r.task]
    /\ r.pc = "RESERVE" => r.result \in {"SUCCEEDED", "NEEDS_SYNC", "FORWARD", "MERGE"}
    /\ r.pc = "COMPLETE" => r.result \in Done
    /\ (r.pc = "FORWARD" \/ (r.pc = "RESERVE" /\ r.result = "FORWARD")) =>
            r.target \in anc[r.source]

RequestsOK ==
    /\ req \in [Requests -> Request]
    /\ \A p \in Requests : Relies(req[p])

\* A request past its reservation has an attempt.
ReservedOK ==
    \A p \in Requests : req[p].pc \in Holding \ {"RESERVE"} =>
        req[p].attempt \in Attempts /\ attempt[req[p].attempt].status # "ABSENT"

\* The inductive invariant.
IInv == RepositoryOK /\ RowsOK /\ RequestsOK /\ ReservedOK

\* Commits and reviews are only added, and a commit keeps its ancestors.
Grows ==
    /\ made' \in Nat /\ made <= made'
    /\ \A c \in 1..made : anc'[c] = anc[c]
    /\ \A t \in Tasks : reviews[t] \subseteq reviews'[t]

-----------------------------------------------------------------------------
(* The repository.                                                         *)

\* A written commit is a new one: the others keep their ancestors.
LEMMA WrittenGrows ==
    ASSUME RepositoryOK, NEW parents \in SUBSET (1..made), Written(parents)
    PROVE  /\ made' \in Commits /\ made' = made + 1
           /\ anc' \in [Commits -> SUBSET Commits]
           /\ \A c \in 1..made : anc'[c] = anc[c]
<1>1. /\ made \in Nat /\ MaxCommits \in Nat /\ made < MaxCommits
      /\ made + 1 \in Commits /\ made' = made + 1
  BY IntegrationAssumption DEF RepositoryOK, Commits, Written
<1>2. {made + 1} \cup UNION {anc[q] : q \in parents} \in SUBSET Commits
  <2>1. parents \subseteq Commits
    BY <1>1 DEF Commits
  <2> QED
    BY <1>1, <2>1 DEF RepositoryOK
<1>3. anc' = [anc EXCEPT ![made + 1] = {made + 1} \cup UNION {anc[q] : q \in parents}]
  BY DEF Written
<1>4. \A c \in 1..made : c \in Commits /\ c # made + 1
  BY <1>1 DEF Commits
<1> QED
  BY <1>1, <1>2, <1>3, <1>4 DEF RepositoryOK

\* A commit in a worktree.
LEMMA WrittenAtGrows ==
    ASSUME RepositoryOK, NEW t \in Tasks, NEW merged \in SUBSET (0..made), WrittenAt(t, merged)
    PROVE  /\ made' \in Commits /\ made' = made + 1
           /\ anc' \in [Commits -> SUBSET Commits]
           /\ \A c \in 1..made : anc'[c] = anc[c]
           /\ work' \in [Tasks -> [head : 1..made', dirty : BOOLEAN, merging : 0..made']]
           /\ work'[t] = [head |-> made + 1, dirty |-> FALSE, merging |-> None]
<1>1. made \in Nat /\ 1 <= made
  BY DEF RepositoryOK, Commits
<1>2. {work[t].head} \cup (merged \ {None}) \in SUBSET (1..made)
  <2>1. work[t].head \in 1..made
    BY DEF RepositoryOK
  <2>2. \A x \in 0..made : x # None => x \in 1..made
    BY <1>1 DEF None
  <2> QED
    BY <2>1, <2>2
<1>3. /\ made' \in Commits /\ made' = made + 1
      /\ anc' \in [Commits -> SUBSET Commits]
      /\ \A c \in 1..made : anc'[c] = anc[c]
  BY <1>2, WrittenGrows DEF WrittenAt
<1>4. work' = [work EXCEPT ![t] = [head |-> made + 1, dirty |-> FALSE, merging |-> None]]
  BY DEF WrittenAt
<1>5. \A u \in Tasks : work[u] \in [head : 1..(made + 1), dirty : BOOLEAN, merging : 0..(made + 1)]
  <2>1. 1..made \subseteq 1..(made + 1) /\ 0..made \subseteq 0..(made + 1)
    BY <1>1
  <2> QED
    BY <2>1 DEF RepositoryOK
<1>6. [head |-> made + 1, dirty |-> FALSE, merging |-> None]
        \in [head : 1..(made + 1), dirty : BOOLEAN, merging : 0..(made + 1)]
  BY <1>1 DEF None
<1> QED
  BY <1>3, <1>4, <1>5, <1>6 DEF RepositoryOK

\* A refreshed or quarantined row names written commits.
LEMMA RowTypes ==
    ASSUME RepositoryOK, NEW t \in Tasks
    PROVE  {Refreshed(work[t]), Quarantined(t)} \subseteq
              [state : {"READY", "DIRTY", "QUARANTINED"}, head : 1..made, dirty : BOOLEAN]
<1>1. work[t].head \in 1..made /\ work[t].dirty \in BOOLEAN
  BY DEF RepositoryOK
<1>2. Refreshed(work[t]) \in
        [state : {"READY", "DIRTY", "QUARANTINED"}, head : 1..made, dirty : BOOLEAN]
  BY <1>1 DEF Refreshed, Uncommitted
<1>3. Quarantined(t) \in
        [state : {"READY", "DIRTY", "QUARANTINED"}, head : 1..made, dirty : BOOLEAN]
  BY DEF RepositoryOK, Quarantined
<1> QED
  BY <1>2, <1>3

\* A request that is being served is for a task, and names written commits.
LEMMA ServedTask ==
    ASSUME IInv, NEW p \in Requests, req[p].pc # "IDLE"
    PROVE  /\ Relies(req[p]) /\ req[p].task \in Tasks
           /\ req[p].source \in 0..made /\ req[p].target \in 0..made
BY DEF IInv, RequestsOK, Relies

\* What leaves the repository, the workspaces and the reviews alone.
LEMMA RepositoryKept ==
    ASSUME RepositoryOK, UNCHANGED <<gitVars, ws, reviews, accepted>>
    PROVE  RepositoryOK' /\ Grows
<1>1. made \in Nat
  BY DEF RepositoryOK, Commits
<1> QED
  BY <1>1 DEF RepositoryOK, Grows, gitVars

\* What changes rows of workspaces to refreshed or quarantined ones only.
LEMMA RowsOfWorkspaces ==
    ASSUME RepositoryOK, UNCHANGED <<gitVars, reviews, accepted>>, NEW t \in Tasks,
           NEW w \in {Refreshed(work[t]), Quarantined(t)}, ws' = [ws EXCEPT ![t] = w]
    PROVE  RepositoryOK' /\ Grows
<1>1. made \in Nat
  BY DEF RepositoryOK, Commits
<1>2. w \in [state : {"READY", "DIRTY", "QUARANTINED"}, head : 1..made, dirty : BOOLEAN]
  BY RowTypes
<1>3. ws' \in [Tasks -> [state : {"READY", "DIRTY", "QUARANTINED"}, head : 1..made,
                        dirty : BOOLEAN]]
  BY <1>2 DEF RepositoryOK
<1> QED
  BY <1>1, <1>3 DEF RepositoryOK, Grows, gitVars

\* What sets or clears MERGE_HEAD, or edits files, in one worktree.
LEMMA WorktreeKept ==
    ASSUME RepositoryOK, UNCHANGED <<made, anc, target, ws, reviews, accepted>>,
           NEW t \in Tasks, NEW d \in BOOLEAN, NEW m \in 0..made,
           \/ work' = [work EXCEPT ![t].merging = m]
           \/ work' = [work EXCEPT ![t].dirty = d]
    PROVE  RepositoryOK' /\ Grows
<1>1. made \in Nat
  BY DEF RepositoryOK, Commits
<1>2. work' \in [Tasks -> [head : 1..made, dirty : BOOLEAN, merging : 0..made]]
  <2>1. work \in [Tasks -> [head : 1..made, dirty : BOOLEAN, merging : 0..made]]
    BY DEF RepositoryOK
  <2>2. CASE work' = [work EXCEPT ![t].merging = m]
    BY <2>1, <2>2
  <2>3. CASE work' = [work EXCEPT ![t].dirty = d]
    BY <2>1, <2>3
  <2> QED
    BY <2>2, <2>3
<1> QED
  BY <1>1, <1>2 DEF RepositoryOK, Grows

\* A commit in a worktree, whose row is left or refreshed from what it holds.
LEMMA WorktreeCommit ==
    ASSUME RepositoryOK, UNCHANGED <<target, reviews, accepted>>, NEW t \in Tasks,
           NEW merged \in SUBSET (0..made), WrittenAt(t, merged),
           \/ UNCHANGED ws
           \/ \E w \in {Refreshed(work'[t]), Quarantined(t)} : ws' = [ws EXCEPT ![t] = w]
    PROVE  RepositoryOK' /\ Grows
<1>1. /\ made \in Nat /\ 1 <= made /\ made' = made + 1
      /\ made' \in Commits /\ anc' \in [Commits -> SUBSET Commits]
      /\ \A c \in 1..made : anc'[c] = anc[c]
      /\ work' \in [Tasks -> [head : 1..made', dirty : BOOLEAN, merging : 0..made']]
      /\ work'[t] = [head |-> made + 1, dirty |-> FALSE, merging |-> None]
  <2>1. made \in Nat /\ 1 <= made
    BY DEF RepositoryOK, Commits
  <2> QED
    BY <2>1, WrittenAtGrows
<1>2. 1..made \subseteq 1..made' /\ 0..made \subseteq 0..made'
  BY <1>1
<1>3. {Refreshed(work'[t]), Quarantined(t)} \subseteq
        [state : {"READY", "DIRTY", "QUARANTINED"}, head : 1..made', dirty : BOOLEAN]
  <2>1. Refreshed(work'[t]) \in
          [state : {"READY", "DIRTY", "QUARANTINED"}, head : 1..made', dirty : BOOLEAN]
    <3>1. work'[t].head \in 1..made' /\ work'[t].dirty \in BOOLEAN
      BY <1>1
    <3> QED
      BY <3>1 DEF Refreshed, Uncommitted
  <2>2. Quarantined(t) \in
          [state : {"READY", "DIRTY", "QUARANTINED"}, head : 1..made, dirty : BOOLEAN]
    BY RowTypes
  <2>3. Quarantined(t) \in
          [state : {"READY", "DIRTY", "QUARANTINED"}, head : 1..made', dirty : BOOLEAN]
    BY <1>2, <2>2
  <2> QED
    BY <2>1, <2>3
<1>4. ws' \in [Tasks -> [state : {"READY", "DIRTY", "QUARANTINED"}, head : 1..made',
                        dirty : BOOLEAN]]
  <2>1. ws \in [Tasks -> [state : {"READY", "DIRTY", "QUARANTINED"}, head : 1..made',
                         dirty : BOOLEAN]]
    BY <1>2 DEF RepositoryOK
  <2>2. CASE UNCHANGED ws
    BY <2>1, <2>2
  <2>3. ASSUME NEW w \in {Refreshed(work'[t]), Quarantined(t)}, ws' = [ws EXCEPT ![t] = w]
        PROVE  ws' \in [Tasks -> [state : {"READY", "DIRTY", "QUARANTINED"}, head : 1..made',
                                 dirty : BOOLEAN]]
    BY <1>3, <2>1, <2>3
  <2> QED
    BY <2>2, <2>3
<1>5. /\ target' \in 1..made' /\ accepted' \in [Tasks -> 0..made']
      /\ reviews' \in [Tasks -> SUBSET (1..made')]
      /\ \A u \in Tasks : accepted'[u] # None => accepted'[u] \in reviews'[u]
  BY <1>2 DEF RepositoryOK
<1> QED
  BY <1>1, <1>4, <1>5 DEF RepositoryOK, Grows

\* Every step keeps the repository in order, and only adds to it.
LEMMA NextRepository ==
    ASSUME IInv, [Next]_vars
    PROVE  RepositoryOK' /\ Grows
<1>1. RepositoryOK
  BY DEF IInv
<1>2. ASSUME NEW p \in Requests, NEW t \in Tasks, NEW k, Begin(p, k, t)
      PROVE  RepositoryOK' /\ Grows
  BY <1>1, <1>2, RepositoryKept DEF Begin, taskVars
<1>3. ASSUME NEW p \in Requests, Drop(p)
      PROVE  RepositoryOK' /\ Grows
  BY <1>1, <1>3, RepositoryKept DEF Drop, taskVars
<1>4. ASSUME NEW p \in Requests, BeforeLock(p)
      PROVE  RepositoryOK' /\ Grows
  <2>1. CASE Verify(p)
    <3>1. req[p].task \in Tasks
      BY <2>1, ServedTask DEF Verify, At
    <3>2. UNCHANGED <<gitVars, reviews, accepted>>
      BY <2>1 DEF Verify, taskVars
    <3>3. \/ UNCHANGED ws
          \/ \E w \in {Refreshed(work[req[p].task]), Quarantined(req[p].task)} :
                ws' = [ws EXCEPT ![req[p].task] = w]
      BY <2>1 DEF Verify
    <3> QED
      BY <1>1, <3>1, <3>2, <3>3, RepositoryKept, RowsOfWorkspaces
  <2>2. CASE Check(p)
    BY <1>1, <2>2, RepositoryKept DEF Check, taskVars
  <2>3. CASE Commit(p)
    <3>1. req[p].task \in Tasks
      BY <2>3, ServedTask DEF Commit, At
    <3>2. {work[req[p].task].merging} \in SUBSET (0..made)
      BY <1>1, <3>1 DEF RepositoryOK
    <3>3. UNCHANGED <<target, reviews, accepted>>
      BY <2>3 DEF Commit, taskVars
    <3>4. CASE Uncommitted(work[req[p].task])
      <4>1. /\ WrittenAt(req[p].task, {work[req[p].task].merging})
            /\ \E w \in {Refreshed(work'[req[p].task]), Quarantined(req[p].task)} :
                  ws' = [ws EXCEPT ![req[p].task] = w]
        BY <2>3, <3>4 DEF Commit
      <4> QED
        BY <1>1, <3>1, <3>2, <3>3, <4>1, WorktreeCommit
    <3>5. CASE ~Uncommitted(work[req[p].task])
      BY <1>1, <2>3, <3>3, <3>5, RepositoryKept DEF Commit, gitVars
    <3> QED
      BY <3>4, <3>5
  <2>4. CASE ApplyReview(p)
    <3>1. req[p].task \in Tasks /\ req[p].source \in 1..made
      BY <2>4, ServedTask DEF ApplyReview, At, Relies
    <3>2. UNCHANGED <<gitVars, ws>>
      BY <2>4 DEF ApplyReview
    <3>3. \/ UNCHANGED <<reviews, accepted>>
          \/ /\ reviews' = [reviews EXCEPT ![req[p].task] = @ \cup {req[p].source}]
             /\ accepted' = [accepted EXCEPT ![req[p].task] = req[p].source]
      BY <2>4 DEF ApplyReview, taskVars
    <3>4. made \in Nat
      BY <1>1 DEF RepositoryOK, Commits
    <3>5. CASE UNCHANGED <<reviews, accepted>>
      BY <1>1, <3>2, <3>5, RepositoryKept
    <3>6. CASE /\ reviews' = [reviews EXCEPT ![req[p].task] = @ \cup {req[p].source}]
               /\ accepted' = [accepted EXCEPT ![req[p].task] = req[p].source]
      <4>1. reviews' \in [Tasks -> SUBSET (1..made)]
        BY <1>1, <3>1, <3>6 DEF RepositoryOK
      <4>2. accepted' \in [Tasks -> 0..made]
        BY <1>1, <3>1, <3>4, <3>6 DEF RepositoryOK
      <4>3. \A t \in Tasks : reviews[t] \subseteq reviews'[t]
        BY <1>1, <3>6 DEF RepositoryOK
      <4>4. \A t \in Tasks : accepted'[t] # None => accepted'[t] \in reviews'[t]
        BY <1>1, <3>6 DEF RepositoryOK
      <4> QED
        BY <1>1, <3>2, <3>4, <4>1, <4>2, <4>3, <4>4 DEF RepositoryOK, Grows, gitVars
    <3> QED
      BY <3>3, <3>5, <3>6
  <2>5. CASE LockForIntegrate(p)
    BY <1>1, <2>5, RepositoryKept DEF LockForIntegrate, taskVars
  <2>6. CASE LockForSync(p)
    BY <1>1, <2>6, RepositoryKept DEF LockForSync, taskVars
  <2> QED
    BY <1>4, <2>1, <2>2, <2>3, <2>4, <2>5, <2>6 DEF BeforeLock
<1>5. ASSUME NEW p \in Requests, UnderLock(p)
      PROVE  RepositoryOK' /\ Grows
  <2>1. CASE Reserve(p) \/ ReserveFails(p) \/ GiveUp(p) \/ Settle(p)
    <3>1. UNCHANGED <<gitVars, ws, reviews, accepted>>
      BY <2>1 DEF Reserve, ReserveFails, GiveUp, Settle, taskVars
    <3> QED
      BY <1>1, <3>1, RepositoryKept
  <2>2. CASE FastForward(p)
    <3>1. Relies(req[p]) /\ req[p].task \in Tasks
      BY <2>2, ServedTask DEF FastForward, At
    <3>2. req[p].source \in reviews[req[p].task]
      BY <2>2, <3>1 DEF FastForward, At, Relies, Holding
    <3>3. target' \in 1..made /\ UNCHANGED <<made, anc, work, ws, reviews, accepted>>
      BY <1>1, <2>2, <3>1, <3>2 DEF FastForward, taskVars, RepositoryOK
    <3> QED
      BY <1>1, <3>3 DEF RepositoryOK, Grows, Commits
  <2>3. CASE StartMerge(p)
    <3>1. req[p].task \in Tasks /\ req[p].target \in 0..made
      BY <2>3, ServedTask DEF StartMerge, At
    <3>2. UNCHANGED <<made, anc, target, ws, reviews, accepted>>
      BY <2>3 DEF StartMerge, taskVars
    <3>3. \/ UNCHANGED work
          \/ work' = [work EXCEPT ![req[p].task].merging = req[p].target]
      BY <2>3 DEF StartMerge
    <3> QED
      BY <1>1, <3>1, <3>2, <3>3, RepositoryKept, WorktreeKept DEF gitVars
  <2>4. CASE EndMerge(p)
    <3>1. req[p].task \in Tasks /\ {req[p].target} \in SUBSET (0..made)
      BY <2>4, ServedTask DEF EndMerge, At
    <3>2. UNCHANGED <<target, ws, reviews, accepted>>
      BY <2>4 DEF EndMerge, taskVars
    <3>3. \/ WrittenAt(req[p].task, {req[p].target})
          \/ UNCHANGED <<made, anc, work>>
      BY <2>4 DEF EndMerge
    <3> QED
      BY <1>1, <3>1, <3>2, <3>3, RepositoryKept, WorktreeCommit DEF gitVars
  <2>5. CASE AbortMerge(p)
    <3>1. req[p].task \in Tasks
      BY <2>5, ServedTask DEF AbortMerge, At
    <3>2. UNCHANGED <<made, anc, target, ws, reviews, accepted>>
      BY <2>5 DEF AbortMerge, taskVars
    <3>3. \/ UNCHANGED work
          \/ work' = [work EXCEPT ![req[p].task].merging = None]
      BY <2>5 DEF AbortMerge
    <3>4. None \in 0..made
      BY <1>1 DEF RepositoryOK, Commits, None
    <3> QED
      BY <1>1, <3>1, <3>2, <3>3, <3>4, RepositoryKept, WorktreeKept DEF gitVars
  <2>6. CASE Quarantine(p)
    <3>1. req[p].task \in Tasks
      BY <2>6, ServedTask DEF Quarantine, At
    <3> QED
      BY <1>1, <2>6, <3>1, RowsOfWorkspaces DEF Quarantine, taskVars
  <2>7. CASE SettleSync(p)
    <3>1. req[p].task \in Tasks
      BY <2>7, ServedTask DEF SettleSync, At
    <3>2. UNCHANGED <<gitVars, reviews, accepted>>
      BY <2>7 DEF SettleSync, CompleteSync, taskVars
    <3>3. \/ UNCHANGED ws
          \/ \E w \in {Refreshed(work[req[p].task]), Quarantined(req[p].task)} :
                ws' = [ws EXCEPT ![req[p].task] = w]
      BY <2>7 DEF SettleSync
    <3> QED
      BY <1>1, <3>1, <3>2, <3>3, RepositoryKept, RowsOfWorkspaces
  <2> QED
    BY <1>5, <2>1, <2>2, <2>3, <2>4, <2>5, <2>6, <2>7 DEF UnderLock
<1>6. CASE Crash \/ Start
  BY <1>1, <1>6, RepositoryKept DEF Crash, Start, taskVars
<1>7. CASE Recovery
  <2>1. CASE Serve
    BY <1>1, <2>1, RepositoryKept DEF Serve, taskVars
  <2>2. ASSUME NEW a \in Attempts, RecoverIntegrate(a) \/ RecoverSync(a)
        PROVE  RepositoryOK' /\ Grows
    <3>1. UNCHANGED <<gitVars, ws, reviews, accepted>>
      BY <2>2 DEF RecoverIntegrate, RecoverSync, CompleteSync, taskVars
    <3> QED
      BY <1>1, <3>1, RepositoryKept
  <2>3. ASSUME NEW a \in Attempts, RecoverMerge(a)
        PROVE  RepositoryOK' /\ Grows
    <3>1. attempt[a].task \in Tasks
      BY <2>3 DEF RecoverMerge, Recovers, Unfinished, IInv, RowsOK
    <3>2. None \in 0..made
      BY <1>1 DEF RepositoryOK, Commits, None
    <3>3. UNCHANGED <<made, anc, target, reviews, accepted>>
      BY <2>3 DEF RecoverMerge, taskVars
    <3>4. \/ work' = [work EXCEPT ![attempt[a].task].merging = None] /\ UNCHANGED ws
          \/ ws' = [ws EXCEPT ![attempt[a].task] = Quarantined(attempt[a].task)] /\ UNCHANGED work
      BY <2>3 DEF RecoverMerge
    <3> QED
      BY <1>1, <3>1, <3>2, <3>3, <3>4, WorktreeKept, RowsOfWorkspaces DEF gitVars
  <2> QED
    BY <1>7, <2>1, <2>2, <2>3 DEF Recovery
<1>8. CASE Others
  <2>1. CASE CommitOnTarget
    <3>1. {target} \in SUBSET (1..made) /\ made \in Nat
      BY <1>1 DEF RepositoryOK, Commits
    <3>2. /\ made' \in Commits /\ made' = made + 1
          /\ anc' \in [Commits -> SUBSET Commits]
          /\ \A c \in 1..made : anc'[c] = anc[c]
      BY <1>1, <2>1, <3>1, WrittenGrows DEF CommitOnTarget
    <3>3. 1..made \subseteq 1..made' /\ 0..made \subseteq 0..made' /\ made + 1 \in 1..made'
      BY <3>1, <3>2
    <3>4. target' = made + 1 /\ UNCHANGED <<work, ws, reviews, accepted>>
      BY <2>1 DEF CommitOnTarget, taskVars
    <3>5. /\ work' \in [Tasks -> [head : 1..made', dirty : BOOLEAN, merging : 0..made']]
          /\ ws' \in [Tasks -> [state : {"READY", "DIRTY", "QUARANTINED"}, head : 1..made',
                                dirty : BOOLEAN]]
      BY <1>1, <3>3, <3>4 DEF RepositoryOK
    <3>6. /\ accepted' \in [Tasks -> 0..made']
          /\ reviews' \in [Tasks -> SUBSET (1..made')]
          /\ \A u \in Tasks : accepted'[u] # None => accepted'[u] \in reviews'[u]
      BY <1>1, <3>3, <3>4 DEF RepositoryOK
    <3> QED
      BY <3>1, <3>2, <3>3, <3>4, <3>5, <3>6 DEF RepositoryOK, Grows
  <2>2. ASSUME NEW t \in Tasks, MoveTask(t)
        PROVE  RepositoryOK' /\ Grows
    BY <1>1, <2>2, RepositoryKept DEF MoveTask
  <2>3. ASSUME NEW t \in Tasks, OpenWorkspace(t)
        PROVE  RepositoryOK' /\ Grows
    BY <1>1, <2>3, RowsOfWorkspaces DEF OpenWorkspace, taskVars
  <2>4. ASSUME NEW t \in Tasks, EditWorktree(t)
        PROVE  RepositoryOK' /\ Grows
    <3>1. /\ work' = [work EXCEPT ![t].dirty = TRUE]
          /\ UNCHANGED <<made, anc, target, ws, reviews, accepted>>
      BY <2>4 DEF EditWorktree, taskVars
    <3>2. None \in 0..made
      BY <1>1 DEF RepositoryOK, Commits, None
    <3> QED
      BY <1>1, <3>1, <3>2, WorktreeKept
  <2>5. ASSUME NEW t \in Tasks, CommitInWorktree(t)
        PROVE  RepositoryOK' /\ Grows
    <3>1. PICK merged \in {{}, {target}} : WrittenAt(t, merged \cup {work[t].merging})
      BY <2>5 DEF CommitInWorktree
    <3>2. merged \cup {work[t].merging} \in SUBSET (0..made)
      <4>1. target \in 0..made /\ work[t].merging \in 0..made
        BY <1>1 DEF RepositoryOK, Commits
      <4> QED
        BY <3>1, <4>1
    <3>3. UNCHANGED <<target, ws, reviews, accepted>>
      BY <2>5 DEF CommitInWorktree, taskVars
    <3> QED
      BY <1>1, <3>1, <3>2, <3>3, WorktreeCommit
  <2> QED
    BY <1>8, <2>1, <2>2, <2>3, <2>4, <2>5 DEF Others
<1>9. CASE UNCHANGED vars
  BY <1>1, <1>9, RepositoryKept DEF vars, taskVars
<1> QED
  BY <1>2, <1>3, <1>4, <1>5, <1>6, <1>7, <1>8, <1>9 DEF Next

-----------------------------------------------------------------------------
(* The requests.                                                           *)

\* What a request relies on stays true while the repository grows.
LEMMA ReliesStay ==
    ASSUME RepositoryOK, Grows, NEW r, Relies(r)
    PROVE  Relies(r)'
<1>1. made \in Nat /\ made' \in Nat /\ made <= made'
  BY DEF RepositoryOK, Commits, Grows
<1>2. r.pc # "IDLE" /\ r.kind \in {"INTEGRATE", "SYNC"} =>
        r.source \in 1..made /\ r.source \in reviews'[r.task]
  BY DEF Relies, RepositoryOK, Grows
<1>3. r.pc \in {"RESERVE", "FORWARD"} => anc'[r.source] = anc[r.source]
  BY <1>2 DEF Relies, Grows, Holding
<1> QED
  BY <1>1, <1>2, <1>3 DEF Relies

\* An idle request relies on nothing.
LEMMA NoRequestRelies ==
    ASSUME RepositoryOK
    PROVE  Relies(NoRequest)
<1>1. 0 \in 0..made
  BY DEF RepositoryOK, Commits
<1> QED
  BY <1>1 DEF Relies, NoRequest, Request, Holding, Before, None

\* One request moves on to r.
LEMMA RequestMoves ==
    ASSUME IInv, Grows, NEW p \in Requests, NEW r, Relies(r), req' = [req EXCEPT ![p] = r]
    PROVE  RequestsOK'
<1>1. req' \in [Requests -> Request]
  BY DEF IInv, RequestsOK, Relies
<1>2. \A q \in Requests : Relies(req'[q])
  BY DEF IInv, RequestsOK
<1>3. ASSUME NEW q \in Requests
      PROVE  Relies(req[q])'
  <2>1. PICK s : s = req'[q]
    OBVIOUS
  <2>2. Relies(s)
    BY <1>2, <2>1
  <2>3. Relies(s)'
    BY <2>2, ReliesStay DEF IInv
  <2> QED
    BY <2>1, <2>3 DEF Relies
<1> QED
  BY <1>1, <1>3 DEF RequestsOK

\* The requests are left alone.
LEMMA RequestsKept ==
    ASSUME IInv, Grows, UNCHANGED req
    PROVE  RequestsOK'
<1>1. ASSUME NEW q \in Requests
      PROVE  Relies(req[q])'
  <2>1. PICK s : s = req[q]
    OBVIOUS
  <2>2. Relies(s)'
    BY <2>1, ReliesStay DEF IInv, RequestsOK
  <2> QED
    BY <2>1, <2>2 DEF Relies
<1> QED
  BY <1>1 DEF IInv, RequestsOK

\* A request that returns is idle.
LEMMA RequestReturns ==
    ASSUME IInv, Grows, NEW p \in Requests, Finish(p)
    PROVE  RequestsOK'
BY RequestMoves, NoRequestRelies DEF Finish, IInv

\* The steps of a request before it holds the lock keep what requests rely on.
LEMMA BeforeLockRequests ==
    ASSUME IInv, Grows, RepositoryOK', NEW p \in Requests, BeforeLock(p)
    PROVE  RequestsOK'
<1>1. req[p].pc # "IDLE"
  BY DEF BeforeLock, Verify, Check, Commit, ApplyReview, LockForIntegrate, LockForSync, At
<1>2. Relies(req[p]) /\ req[p].task \in Tasks /\ req[p] \in Request
  BY <1>1, ServedTask DEF Relies
<1>3. CASE Verify(p)
  <2>1. PICK w : /\ w.head \in 1..made
                 /\ Verified(p, w) \/ Finish(p)
    <3>1. ws[req[p].task].head \in 1..made /\ Refreshed(work[req[p].task]).head \in 1..made
      BY <1>2 DEF IInv, RepositoryOK, Refreshed
    <3> QED
      BY <1>3, <3>1 DEF Verify
  <2>2. CASE Finish(p)
    BY <2>2, RequestReturns
  <2>3. CASE Verified(p, w)
    <3>1. CASE req' = [req EXCEPT ![p].pc = "LOCK"] /\ req[p].kind \in {"INTEGRATE", "SYNC"}
      <4>1. Relies([req[p] EXCEPT !.pc = "LOCK"])
        BY <1>1, <1>2, <3>1 DEF Relies, Request, Before, Holding
      <4>2. req' = [req EXCEPT ![p] = [req[p] EXCEPT !.pc = "LOCK"]]
        BY <3>1
      <4> QED
        BY <4>1, <4>2, RequestMoves
    <3>2. ASSUME NEW c \in {"CHECK", "COMMIT"}, req' = [req EXCEPT ![p].pc = c]
          PROVE  RequestsOK'
      <4>1. Relies([req[p] EXCEPT !.pc = c])
        BY <1>1, <1>2, <3>2 DEF Relies, Request, Before, Holding
      <4>2. req' = [req EXCEPT ![p] = [req[p] EXCEPT !.pc = c]]
        BY <3>2
      <4> QED
        BY <4>1, <4>2, RequestMoves
    <3>3. CASE /\ req' = [req EXCEPT ![p].pc = "APPLY", ![p].source = w.head]
               /\ req[p].kind = "ACCEPT"
      <4>1. w.head \in Commits /\ w.head \in 0..made
        BY <2>1, IntegrationAssumption DEF IInv, RepositoryOK, Commits
      <4>2. Relies([req[p] EXCEPT !.pc = "APPLY", !.source = w.head])
        BY <1>1, <1>2, <2>1, <3>3, <4>1 DEF Relies, Request, Before, Holding
      <4>3. req' = [req EXCEPT ![p] = [req[p] EXCEPT !.pc = "APPLY", !.source = w.head]]
        BY <3>3
      <4> QED
        BY <4>2, <4>3, RequestMoves
    <3> QED
      BY <2>3, <3>1, <3>2, <3>3, RequestReturns DEF Verified, Goto
  <2> QED
    BY <2>1, <2>2, <2>3
<1>4. CASE Check(p)
  <2>1. Relies([req[p] EXCEPT !.pc = "REVERIFY"])
    BY <1>1, <1>2 DEF Relies, Request, Before, Holding
  <2>2. Finish(p) \/ req' = [req EXCEPT ![p] = [req[p] EXCEPT !.pc = "REVERIFY"]]
    BY <1>4 DEF Check, Goto
  <2> QED
    BY <2>1, <2>2, RequestMoves, RequestReturns
<1>5. CASE ApplyReview(p)
  BY <1>5, RequestReturns DEF ApplyReview
<1>6. CASE LockForIntegrate(p)
  <2>1. PICK r \in {"SUCCEEDED", "FORWARD", "NEEDS_SYNC"} :
            \/ Finish(p)
            \/ /\ req' = [req EXCEPT ![p].pc = "RESERVE", ![p].target = target, ![p].result = r]
               /\ r = "FORWARD" => target \in anc[req[p].source]
    BY <1>6 DEF LockForIntegrate, Contains
  <2>2. CASE Finish(p)
    BY <2>2, RequestReturns
  <2>3. CASE /\ req' = [req EXCEPT ![p].pc = "RESERVE", ![p].target = target, ![p].result = r]
             /\ r = "FORWARD" => target \in anc[req[p].source]
    <3>1. target \in Commits /\ target \in 0..made /\ req[p].kind \in {"INTEGRATE", "SYNC"}
      BY <1>6, IntegrationAssumption DEF IInv, RepositoryOK, Commits, LockForIntegrate
    <3>2. Relies([req[p] EXCEPT !.pc = "RESERVE", !.target = target, !.result = r])
      BY <1>1, <1>2, <2>1, <2>3, <3>1 DEF Relies, Request, Before, Holding, Done
    <3>3. req' = [req EXCEPT ![p] = [req[p] EXCEPT !.pc = "RESERVE", !.target = target,
                                                   !.result = r]]
      BY <2>3
    <3> QED
      BY <3>2, <3>3, RequestMoves
  <2> QED
    BY <2>1, <2>2, <2>3
<1>7. CASE LockForSync(p)
  <2>1. target \in Commits /\ target \in 0..made /\ req[p].kind \in {"INTEGRATE", "SYNC"}
    BY <1>7, IntegrationAssumption DEF IInv, RepositoryOK, Commits, LockForSync
  <2>2. Relies([req[p] EXCEPT !.pc = "RESERVE", !.target = target, !.result = "MERGE"])
    <3>1. PICK r : r = [req[p] EXCEPT !.pc = "RESERVE", !.target = target, !.result = "MERGE"]
      OBVIOUS
    <3>2. r \in Request
      BY <1>2, <2>1, <3>1 DEF Request, Holding
    <3>3. /\ r.pc = "RESERVE" /\ r.result = "MERGE" /\ r.target = target
          /\ r.kind = req[p].kind /\ r.task = req[p].task /\ r.source = req[p].source
      BY <1>2, <3>1 DEF Request
    <3>4. r.source \in 0..made /\ r.source \in reviews[r.task]
      BY <1>1, <1>2, <2>1, <3>3 DEF Relies
    <3> QED
      BY <1>2, <2>1, <3>1, <3>2, <3>3, <3>4 DEF Relies
  <2>3. \/ Finish(p)
        \/ req' = [req EXCEPT ![p] = [req[p] EXCEPT !.pc = "RESERVE", !.target = target,
                                                     !.result = "MERGE"]]
    BY <1>7 DEF LockForSync
  <2> QED
    BY <2>2, <2>3, RequestMoves, RequestReturns
<1>8. CASE Commit(p)
  <2>1. CASE Finish(p)
    BY <2>1, RequestReturns
  <2>2. CASE ~Finish(p)
    <3>1. /\ req' = [req EXCEPT ![p].pc = "APPLY", ![p].source = made + 1]
          /\ req[p].kind = "ACCEPT" /\ made' = made + 1 /\ made' \in Commits
      BY <1>8, <2>2 DEF Commit, WrittenAt, Written, RepositoryOK
    <3>2. req' \in [Requests -> Request]
      BY <1>2, <3>1 DEF IInv, RequestsOK, Request, Before
    <3>3. ASSUME NEW q \in Requests
          PROVE  Relies(req[q])'
      <4>1. CASE q # p
        <5>1. PICK r : r = req[q]
          OBVIOUS
        <5>2. Relies(r)'
          BY <5>1, ReliesStay DEF IInv, RequestsOK
        <5>3. req'[q] = r
          BY <3>1, <4>1, <5>1 DEF IInv, RequestsOK
        <5> QED
          BY <5>2, <5>3 DEF Relies
      <4>2. CASE q = p
        <5>1. PICK r : r = [req[p] EXCEPT !.pc = "APPLY", !.source = made + 1]
          OBVIOUS
        <5>2. req'[q] = r
          BY <3>1, <4>2, <5>1 DEF IInv, RequestsOK
        <5>3. made \in Nat
          BY DEF IInv, RepositoryOK, Commits
        <5>4. r \in Request
          BY <1>2, <3>1, <5>1, <5>3 DEF Request, Before
        <5>5. /\ r.pc = "APPLY" /\ r.kind = "ACCEPT" /\ r.source = made'
              /\ r.task = req[p].task /\ r.target = req[p].target
          BY <1>2, <3>1, <5>1 DEF Request
        <5>6. r.source \in 1..made' /\ r.source \in 0..made' /\ r.target \in 0..made'
          BY <1>2, <3>1, <5>3, <5>5 DEF Relies
        <5>7. Relies(r)'
          BY <1>2, <5>4, <5>5, <5>6 DEF Relies, Holding
        <5> QED
          BY <5>2, <5>7 DEF Relies
      <4> QED
        BY <4>1, <4>2
    <3> QED
      BY <3>2, <3>3 DEF RequestsOK
  <2> QED
    BY <2>1, <2>2
<1> QED
  BY <1>3, <1>4, <1>5, <1>6, <1>7, <1>8 DEF BeforeLock

\* A request that holds the lock goes on to step c, with result x and attempt a.
LEMMA RequestGoesOn ==
    ASSUME IInv, Grows, NEW p \in Requests, req[p].pc \in Holding,
           NEW c \in Holding \ {"RESERVE"},
           NEW x \in Done \cup {"NONE", "MERGE", "FORWARD"}, NEW a \in Attempts \cup {None},
           c = "COMPLETE" => x \in Done,
           c = "FORWARD" => req[p].target \in anc[req[p].source],
           req' = [req EXCEPT ![p] = [req[p] EXCEPT !.pc = c, !.result = x, !.attempt = a]]
    PROVE  RequestsOK'
<1>1. PICK r : r = [req[p] EXCEPT !.pc = c, !.result = x, !.attempt = a]
  OBVIOUS
<1>2. req[p].pc # "IDLE" /\ c # "IDLE" /\ c # "APPLY"
  BY DEF Holding
<1>3. Relies(req[p]) /\ req[p].task \in Tasks /\ req[p] \in Request
  BY <1>2, ServedTask DEF Relies
<1>4. r \in Request
  BY <1>1, <1>3 DEF Request
<1>5. /\ r.pc = c /\ r.result = x /\ r.kind = req[p].kind /\ r.task = req[p].task
      /\ r.source = req[p].source /\ r.target = req[p].target
  BY <1>1, <1>3 DEF Request
<1>6. r.kind \in {"INTEGRATE", "SYNC"} /\ r.source \in reviews[r.task]
  BY <1>2, <1>3, <1>5 DEF Relies
<1>7. Relies(r)
  BY <1>2, <1>3, <1>4, <1>5, <1>6 DEF Relies
<1> QED
  BY <1>1, <1>7, RequestMoves

\* So do the steps under the lock.
LEMMA UnderLockRequests ==
    ASSUME IInv, Grows, NEW p \in Requests, UnderLock(p)
    PROVE  RequestsOK'
<1>1. req[p].pc \in Holding
  BY DEF UnderLock, Reserve, ReserveFails, FastForward, StartMerge, EndMerge, AbortMerge,
         GiveUp, Quarantine, Settle, SettleSync, At, Holding
<1>2. req[p] \in Request /\ Relies(req[p])
  BY <1>1, ServedTask DEF Holding, Relies
<1>3. /\ req[p].result \in Done \cup {"NONE", "MERGE", "FORWARD"}
      /\ req[p].attempt \in Attempts \cup {None}
  BY <1>2 DEF Request
<1>4. CASE Finish(p)
  BY <1>4, RequestReturns
<1>5. ASSUME NEW x \in Done, Result(p, x)
      PROVE  RequestsOK'
  <2>1. req' = [req EXCEPT ![p] = [req[p] EXCEPT !.pc = "COMPLETE", !.result = x,
                                                 !.attempt = req[p].attempt]]
    BY <1>2, <1>5 DEF Result, Request
  <2>2. "COMPLETE" \in Holding \ {"RESERVE"}
    BY DEF Holding
  <2> QED
    BY <1>1, <1>3, <2>1, <2>2, RequestGoesOn
<1>6. ASSUME NEW c \in {"MERGING", "ABORT", "GIVE_UP", "QUARANTINE"}, Goto(p, c)
      PROVE  RequestsOK'
  <2>1. req' = [req EXCEPT ![p] = [req[p] EXCEPT !.pc = c, !.result = req[p].result,
                                                 !.attempt = req[p].attempt]]
    BY <1>2, <1>6 DEF Goto, Request
  <2>2. c \in Holding \ {"RESERVE"} /\ c # "COMPLETE" /\ c # "FORWARD"
    BY DEF Holding
  <2> QED
    BY <1>1, <1>3, <2>1, <2>2, RequestGoesOn
<1>7. CASE Reserve(p)
  <2>1. req[p].result \in {"SUCCEEDED", "NEEDS_SYNC", "FORWARD", "MERGE"}
    BY <1>2, <1>7 DEF Reserve, At, Relies
  <2>2. PICK a \in Attempts, c \in {"MERGE", "FORWARD", "COMPLETE"} :
            /\ req' = [req EXCEPT ![p] = [req[p] EXCEPT !.attempt = a, !.pc = c]]
            /\ c = "FORWARD" => req[p].result = "FORWARD"
            /\ c = "COMPLETE" => req[p].result \notin {"MERGE", "FORWARD"}
    <3> DEFINE r == req[p].result
               c == IF r \in {"MERGE", "FORWARD"} THEN r ELSE "COMPLETE"
    <3>1. PICK a \in Attempts : req' = [req EXCEPT ![p].attempt = a, ![p].pc = c]
      BY <1>7 DEF Reserve
    <3>2. req' = [req EXCEPT ![p] = [req[p] EXCEPT !.attempt = a, !.pc = c]]
      BY <3>1
    <3>3. /\ c \in {"MERGE", "FORWARD", "COMPLETE"}
          /\ c = "FORWARD" => req[p].result = "FORWARD"
          /\ c = "COMPLETE" => req[p].result \notin {"MERGE", "FORWARD"}
      OBVIOUS
    <3> QED
      BY <3>2, <3>3
  <2>3. req' = [req EXCEPT ![p] = [req[p] EXCEPT !.pc = c, !.result = req[p].result,
                                                 !.attempt = a]]
    BY <1>2, <2>2 DEF Request
  <2>4. c = "COMPLETE" => req[p].result \in Done
    BY <2>1, <2>2 DEF Done
  <2>5. c = "FORWARD" => req[p].target \in anc[req[p].source]
    BY <1>2, <1>7, <2>2 DEF Reserve, At, Relies
  <2>6. c \in Holding \ {"RESERVE"}
    BY DEF Holding
  <2> QED
    BY <1>1, <1>3, <2>3, <2>4, <2>5, <2>6, RequestGoesOn
<1>8. CASE FastForward(p)
  BY <1>5, <1>8 DEF FastForward, Done
<1>9. CASE StartMerge(p)
  BY <1>5, <1>6, <1>9 DEF StartMerge, Done
<1>10. CASE EndMerge(p)
  BY <1>5, <1>6, <1>10 DEF EndMerge, Done
<1>11. CASE AbortMerge(p)
  BY <1>5, <1>6, <1>11 DEF AbortMerge, Done
<1>12. CASE GiveUp(p)
  BY <1>6, <1>12 DEF GiveUp
<1>13. CASE ReserveFails(p) \/ Quarantine(p) \/ Settle(p) \/ SettleSync(p)
  BY <1>4, <1>13 DEF ReserveFails, Quarantine, Settle, SettleSync, Return
<1> QED
  BY <1>7, <1>8, <1>9, <1>10, <1>11, <1>12, <1>13 DEF UnderLock

\* What a new request read is what it relies on.
LEMMA BeginRequests ==
    ASSUME IInv, Grows, NEW p \in Requests, NEW t \in Tasks,
           NEW k \in {"INTEGRATE", "SYNC", "ACCEPT", "COMMIT"}, Begin(p, k, t)
    PROVE  RequestsOK'
<1>1. PICK r : r = [NoRequest EXCEPT !.pc = IF k = "COMMIT" THEN "REVERIFY" ELSE "VERIFY",
                                     !.kind = k, !.task = t,
                                     !.version = IF k = "ACCEPT" THEN version[t] ELSE 0,
                                     !.source = IF k \in {"INTEGRATE", "SYNC"}
                                                  THEN accepted[t] ELSE None]
  OBVIOUS
<1>2. /\ made \in Nat /\ None \in 0..made /\ accepted[t] \in 0..made
      /\ accepted[t] # None => accepted[t] \in reviews[t]
      /\ accepted[t] \in Commits \cup {None} /\ version[t] \in Nat
  BY IntegrationAssumption DEF IInv, RepositoryOK, RowsOK, Commits, None
<1>3. r \in Request
  BY <1>1, <1>2 DEF Request, NoRequest, Before
<1>4. /\ r.pc \in {"VERIFY", "REVERIFY"} /\ r.kind = k /\ r.task = t /\ r.target = None
      /\ r.source = IF k \in {"INTEGRATE", "SYNC"} THEN accepted[t] ELSE None
  BY <1>1 DEF NoRequest
<1>5. k \in {"INTEGRATE", "SYNC"} => accepted[t] # None
  BY DEF Begin
<1>6. Relies(r)
  BY <1>2, <1>3, <1>4, <1>5 DEF Relies, Holding
<1>7. req' = [req EXCEPT ![p] = r]
  BY <1>1 DEF Begin
<1> QED
  BY <1>6, <1>7, RequestMoves

\* Every step keeps what the requests rely on.
LEMMA NextRequests ==
    ASSUME IInv, [Next]_vars
    PROVE  RequestsOK'
<1>1. RepositoryOK' /\ Grows
  BY NextRepository
<1>2. ASSUME NEW p \in Requests, NEW t \in Tasks,
             NEW k \in {"INTEGRATE", "SYNC", "ACCEPT", "COMMIT"}, Begin(p, k, t)
      PROVE  RequestsOK'
  BY <1>1, <1>2, BeginRequests
<1>3. ASSUME NEW p \in Requests, Drop(p)
      PROVE  RequestsOK'
  BY <1>1, <1>3, RequestReturns DEF Drop, Return
<1>4. ASSUME NEW p \in Requests, BeforeLock(p) \/ UnderLock(p)
      PROVE  RequestsOK'
  BY <1>1, <1>4, BeforeLockRequests, UnderLockRequests
<1>5. CASE Crash
  <2>1. req' = [p \in Requests |-> NoRequest]
    BY <1>5 DEF Crash
  <2>2. Relies(NoRequest)'
    BY <1>1, NoRequestRelies, ReliesStay DEF IInv
  <2>3. NoRequest \in Request
    BY NoRequestRelies DEF IInv, Relies
  <2>4. ASSUME NEW p \in Requests
        PROVE  Relies(req[p])'
    <3>1. req'[p] = NoRequest
      BY <2>1
    <3> QED
      BY <2>2, <3>1 DEF Relies
  <2> QED
    BY <2>1, <2>3, <2>4 DEF RequestsOK
<1>6. CASE Start \/ Recovery \/ Others \/ UNCHANGED vars
  <2>1. UNCHANGED req
    BY <1>6 DEF Start, Recovery, Serve, RecoverIntegrate, RecoverMerge, RecoverSync, Others,
                CommitOnTarget, MoveTask, OpenWorkspace, EditWorktree, CommitInWorktree, vars
  <2> QED
    BY <1>1, <2>1, RequestsKept
<1> QED
  BY <1>2, <1>3, <1>4, <1>5, <1>6 DEF Next

-----------------------------------------------------------------------------
(* The tables, the lock and the daemon.                                    *)

\* The state machine leads to task states only (TaskStates, Target).
LEMMA TargetIsStatus == \A c : Target(c) \in TaskStatus
BY DEF Target, TaskStatus

\* No attempt disappears.
AttemptsStay ==
    \A a \in Attempts : attempt[a].status # "ABSENT" => attempt'[a].status # "ABSENT"

RowsMove == RowsOK' /\ AttemptsStay

\* A command on a task.
LEMMA TransitionRows ==
    ASSUME RowsOK, NEW t, NEW c, Transition(t, c)
    PROVE  status' \in [Tasks -> TaskStatus] /\ version' \in [Tasks -> Nat]
<1>1. status' \in [Tasks -> TaskStatus]
  BY TargetIsStatus DEF RowsOK, Transition
<1>2. version' \in [Tasks -> Nat]
  <2>1. version' = [version EXCEPT ![t] = version[t] + 1]
    BY DEF Transition
  <2>2. \A u \in Tasks : version[u] \in Nat /\ version[u] + 1 \in Nat
    BY DEF RowsOK
  <2> QED
    BY <2>1, <2>2 DEF RowsOK
<1> QED
  BY <1>1, <1>2

\* An attempt that was reserved ends.
LEMMA CompleteRows ==
    ASSUME RowsOK, NEW a \in Attempts, attempt[a].status # "ABSENT", NEW s \in Done,
           NEW c \in Commits \cup {None},
           \/ Complete(a, s)
           \/ attempt' = [attempt EXCEPT ![a].status = s, ![a].after = c]
    PROVE  /\ attempt' \in [Attempts -> Attempt] /\ AttemptsStay
           /\ \A b \in Attempts : attempt'[b].status # "ABSENT" => attempt'[b].task \in Tasks
<1>1. PICK r : /\ r \in {[attempt[a] EXCEPT !.status = s],
                         [attempt[a] EXCEPT !.status = s, !.after = c]}
               /\ attempt' = [attempt EXCEPT ![a] = r]
  <2>1. CASE Complete(a, s)
    <3>1. attempt' = [attempt EXCEPT ![a] = [attempt[a] EXCEPT !.status = s]]
      BY <2>1 DEF Complete
    <3> QED
      BY <3>1
  <2>2. CASE attempt' = [attempt EXCEPT ![a].status = s, ![a].after = c]
    <3>1. attempt' = [attempt EXCEPT ![a] = [attempt[a] EXCEPT !.status = s, !.after = c]]
      BY <2>2
    <3> QED
      BY <3>1
  <2> QED
    BY <2>1, <2>2
<1>2. attempt[a] \in Attempt /\ attempt[a].task \in Tasks
  BY DEF RowsOK
<1>3. r \in Attempt /\ r.status = s /\ r.task = attempt[a].task
  BY <1>1, <1>2 DEF Attempt
<1>4. s # "ABSENT"
  BY DEF Done
<1>5. attempt' \in [Attempts -> Attempt] /\ AttemptsStay
  BY <1>1, <1>3, <1>4 DEF RowsOK, AttemptsStay
<1>6. ASSUME NEW b \in Attempts, attempt'[b].status # "ABSENT"
      PROVE  attempt'[b].task \in Tasks
  BY <1>1, <1>2, <1>3, <1>6 DEF RowsOK
<1> QED
  BY <1>5, <1>6

\* The steps of requests keep the rows.
LEMMA RequestRows ==
    ASSUME IInv, NEW p \in Requests, BeforeLock(p) \/ UnderLock(p)
    PROVE  RowsMove
<1>1. RowsOK /\ req[p] \in Request
  BY DEF IInv, RequestsOK
<1>2. Release(p) \/ Acquire(p) \/ UNCHANGED lock => lock' \in Requests \cup {NoOne}
  BY <1>1 DEF Release, Acquire, RowsOK
<1>3. Release(p) \/ Acquire(p) \/ UNCHANGED lock
  BY DEF BeforeLock, UnderLock, Verify, Check, Commit, ApplyReview, LockForIntegrate,
         LockForSync, Reserve, ReserveFails, FastForward, StartMerge, EndMerge, AbortMerge,
         GiveUp, Quarantine, Settle, SettleSync, Return
<1>4. UNCHANGED <<daemon, aborted>>
  BY DEF BeforeLock, UnderLock, Verify, Check, Commit, ApplyReview, LockForIntegrate,
         LockForSync, Reserve, ReserveFails, FastForward, StartMerge, EndMerge, AbortMerge,
         GiveUp, Quarantine, Settle, SettleSync, hostVars
<1>5. status' \in [Tasks -> TaskStatus] /\ version' \in [Tasks -> Nat]
  <2>1. \/ UNCHANGED <<status, version>>
        \/ \E t, c : Transition(t, c)
    <3>1. CASE ApplyReview(p)
      BY <3>1 DEF ApplyReview, taskVars
    <3>2. CASE SettleSync(p)
      BY <3>2 DEF SettleSync, CompleteSync, taskVars
    <3>3. CASE ~ApplyReview(p) /\ ~SettleSync(p)
      BY <3>3 DEF BeforeLock, UnderLock, Verify, Check, Commit, LockForIntegrate, LockForSync,
         Reserve, ReserveFails, FastForward, StartMerge, EndMerge, AbortMerge, GiveUp,
         Quarantine, Settle, taskVars
    <3> QED
      BY <3>1, <3>2, <3>3
  <2> QED
    BY <1>1, <2>1, TransitionRows DEF RowsOK
<1>6. /\ attempt' \in [Attempts -> Attempt] /\ AttemptsStay
      /\ \A b \in Attempts : attempt'[b].status # "ABSENT" => attempt'[b].task \in Tasks
  <2>1. CASE UNCHANGED attempt
    BY <1>1, <2>1 DEF RowsOK, AttemptsStay
  <2>2. CASE Reserve(p)
    <3>1. Relies(req[p]) /\ req[p].task \in Tasks
      BY <2>2, ServedTask DEF Reserve, At
    <3>2. PICK a \in Attempts, o \in {"SYNC", "INTEGRATE"} : attempt' = [attempt EXCEPT ![a] =
             [status |-> "RUNNING", op |-> o, task |-> req[p].task, source |-> req[p].source,
              before |-> req[p].target, after |-> None]]
      BY <2>2 DEF Reserve
    <3>3. [status |-> "RUNNING", op |-> o, task |-> req[p].task, source |-> req[p].source,
           before |-> req[p].target, after |-> None] \in Attempt
      BY <1>1, <3>1 DEF Attempt, Request
    <3> QED
      BY <1>1, <3>1, <3>2, <3>3 DEF RowsOK, AttemptsStay
  <2>3. CASE GiveUp(p) \/ Settle(p) \/ SettleSync(p)
    <3>1. req[p].attempt \in Attempts /\ attempt[req[p].attempt].status # "ABSENT"
      BY <2>3 DEF IInv, ReservedOK, GiveUp, Settle, SettleSync, At, Holding
    <3>2. CASE GiveUp(p)
      BY <1>1, <3>1, <3>2, CompleteRows DEF GiveUp, Done
    <3>3. CASE Settle(p)
      <4>1. req[p].result \in Done
        BY <3>3, ServedTask DEF Settle, At, Relies
      <4> QED
        BY <1>1, <3>1, <3>3, <4>1, CompleteRows DEF Settle
    <3>4. CASE SettleSync(p) /\ attempt' # attempt
      <4>1. req[p].task \in Tasks /\ req[p].result \in Done
        BY <3>4, ServedTask DEF SettleSync, At, Done
      <4>2. PICK h \in {work[req[p].task].head, req[p].source} :
              attempt' = [attempt EXCEPT ![req[p].attempt].status = req[p].result,
                                         ![req[p].attempt].after = h]
        BY <3>4 DEF SettleSync, CompleteSync
      <4>3. h \in Commits \cup {None}
        <5>1. work[req[p].task].head \in Commits
          BY <4>1, IntegrationAssumption DEF IInv, RepositoryOK, Commits
        <5>2. req[p].source \in Commits \cup {None}
          BY <1>1 DEF Request
        <5> QED
          BY <5>1, <5>2
      <4> QED
        BY <1>1, <3>1, <4>1, <4>2, <4>3, CompleteRows
    <3> QED
      BY <2>1, <2>3, <3>2, <3>3, <3>4
  <2> QED
    BY <2>1, <2>2, <2>3 DEF BeforeLock, UnderLock, Verify, Check, Commit, ApplyReview,
       LockForIntegrate, LockForSync, ReserveFails, FastForward, StartMerge, EndMerge,
       AbortMerge, Quarantine
<1> QED
  BY <1>1, <1>2, <1>3, <1>4, <1>5, <1>6 DEF RowsMove, RowsOK

\* The recovery of integrations keeps the rows.
LEMMA RecoveryRows ==
    ASSUME IInv, Recovery
    PROVE  RowsMove
<1>1. RowsOK
  BY DEF IInv
<1>2. CASE Serve
  BY <1>1, <1>2 DEF Serve, taskVars, RowsOK, RowsMove, AttemptsStay
<1>3. ASSUME NEW a \in Attempts, RecoverIntegrate(a) \/ RecoverMerge(a) \/ RecoverSync(a)
      PROVE  RowsMove
  <2>1. attempt[a].status # "ABSENT" /\ attempt[a].task \in Tasks
    BY <1>1, <1>3 DEF RecoverIntegrate, RecoverMerge, RecoverSync, Recovers, Unfinished, RowsOK
  <2>2. lock' = lock /\ daemon' \in {daemon, "REFUSED"} /\ aborted' \in {aborted, a, None}
    BY <1>3 DEF RecoverIntegrate, RecoverMerge, RecoverSync, hostVars
  <2>3. status' \in [Tasks -> TaskStatus] /\ version' \in [Tasks -> Nat]
    <3>1. \/ UNCHANGED <<status, version>>
          \/ \E t, c : Transition(t, c)
      BY <1>3 DEF RecoverIntegrate, RecoverMerge, RecoverSync, CompleteSync, taskVars
    <3> QED
      BY <1>1, <3>1, TransitionRows DEF RowsOK
  <2>4. \/ UNCHANGED attempt
        \/ \E s \in Done : Complete(a, s)
        \/ \E s \in Done : \E c \in {work[attempt[a].task].head, attempt[a].source} :
                attempt' = [attempt EXCEPT ![a].status = s, ![a].after = c]
    <3>1. {"SUCCEEDED", "FAILED", "CONFLICT", "SYNCED"} \subseteq Done
      BY DEF Done
    <3>2. CASE RecoverIntegrate(a)
      BY <3>1, <3>2 DEF RecoverIntegrate
    <3>3. CASE RecoverMerge(a)
      BY <3>1, <3>3 DEF RecoverMerge
    <3>4. CASE RecoverSync(a)
      BY <3>1, <3>4 DEF RecoverSync, CompleteSync
    <3> QED
      BY <1>3, <3>2, <3>3, <3>4
  <2>5. {work[attempt[a].task].head, attempt[a].source} \subseteq Commits \cup {None}
    <3>1. work[attempt[a].task].head \in Commits
      BY <2>1, IntegrationAssumption DEF IInv, RepositoryOK, Commits
    <3>2. attempt[a].source \in Commits \cup {None}
      BY <1>1 DEF RowsOK, Attempt
    <3> QED
      BY <3>1, <3>2
  <2>6. /\ attempt' \in [Attempts -> Attempt] /\ AttemptsStay
        /\ \A b \in Attempts : attempt'[b].status # "ABSENT" => attempt'[b].task \in Tasks
    <3>1. CASE UNCHANGED attempt
      BY <1>1, <3>1 DEF RowsOK, AttemptsStay
    <3>2. ASSUME NEW s \in Done, Complete(a, s)
          PROVE  <2>6
      <4>1. None \in Commits \cup {None}
        OBVIOUS
      <4> QED
        BY <1>1, <2>1, <3>2, <4>1, CompleteRows
    <3>3. ASSUME NEW s \in Done, NEW c \in {work[attempt[a].task].head, attempt[a].source},
                 attempt' = [attempt EXCEPT ![a].status = s, ![a].after = c]
          PROVE  <2>6
      BY <1>1, <2>1, <2>5, <3>3, CompleteRows
    <3> QED
      BY <2>4, <3>1, <3>2, <3>3
  <2> QED
    BY <1>1, <2>2, <2>3, <2>6 DEF RowsMove, RowsOK
<1> QED
  BY <1>2, <1>3 DEF Recovery

\* So does every step.
LEMMA NextRows ==
    ASSUME IInv, [Next]_vars
    PROVE  RowsMove
<1>1. RowsOK
  BY DEF IInv
<1>2. ASSUME NEW p \in Requests, BeforeLock(p) \/ UnderLock(p)
      PROVE  RowsMove
  BY <1>2, RequestRows
<1>3. ASSUME NEW p \in Requests, Drop(p)
      PROVE  RowsMove
  BY <1>1, <1>3 DEF Drop, Return, Release, taskVars, hostVars, RowsOK, RowsMove, AttemptsStay
<1>4. ASSUME NEW p \in Requests, NEW t, NEW k, Begin(p, k, t)
      PROVE  RowsMove
  BY <1>1, <1>4 DEF Begin, taskVars, hostVars, RowsOK, RowsMove, AttemptsStay
<1>5. CASE Crash
  BY <1>1, <1>5 DEF Crash, taskVars, RowsOK, RowsMove, AttemptsStay
<1>6. CASE Start
  BY <1>1, <1>6 DEF Start, taskVars, RowsOK, RowsMove, AttemptsStay
<1>7. CASE Recovery
  BY <1>7, RecoveryRows
<1>8. CASE Others
  <2>1. UNCHANGED <<attempt, lock, daemon, aborted>>
    BY <1>8 DEF Others, CommitOnTarget, MoveTask, OpenWorkspace, EditWorktree, CommitInWorktree,
                hostVars
  <2>2. \/ UNCHANGED <<status, version>>
        \/ \E t, c : Transition(t, c)
    BY <1>8 DEF Others, CommitOnTarget, MoveTask, OpenWorkspace, EditWorktree, CommitInWorktree,
                taskVars
  <2>3. status' \in [Tasks -> TaskStatus] /\ version' \in [Tasks -> Nat]
    BY <1>1, <2>2, TransitionRows DEF RowsOK
  <2> QED
    BY <1>1, <2>1, <2>3 DEF RowsOK, RowsMove, AttemptsStay
<1>9. CASE UNCHANGED vars
  BY <1>1, <1>9 DEF vars, taskVars, hostVars, RowsOK, RowsMove, AttemptsStay
<1> QED
  BY <1>2, <1>3, <1>4, <1>5, <1>6, <1>7, <1>8, <1>9 DEF Next

\* A request gets its attempt as it leaves the reservation, and keeps it.
LEMMA NextReserved ==
    ASSUME IInv, [Next]_vars
    PROVE  ReservedOK'
<1>1. /\ req \in [Requests -> Request] /\ attempt \in [Attempts -> Attempt]
      /\ ReservedOK /\ AttemptsStay
  BY NextRows DEF IInv, RowsOK, RequestsOK, RowsMove
<1> DEFINE Has(r) == r.attempt \in Attempts /\ attempt'[r.attempt].status # "ABSENT"
           Past == Holding \ {"RESERVE"}
<1>2. \A p \in Requests : req[p].pc \in Past => Has(req[p])
  BY <1>1 DEF ReservedOK, AttemptsStay
<1>3. ASSUME NEW p \in Requests, NEW r, req' = [req EXCEPT ![p] = r],
             r.pc \in Past => Has(r)
      PROVE  ReservedOK'
  BY <1>1, <1>2, <1>3 DEF ReservedOK
<1>4. ASSUME UNCHANGED req
      PROVE  ReservedOK'
  BY <1>2, <1>4 DEF ReservedOK
<1>5. ASSUME NEW p \in Requests, Finish(p)
      PROVE  ReservedOK'
  <2>1. NoRequest.pc \notin Past
    BY DEF NoRequest, Holding
  <2> QED
    BY <1>3, <1>5, <2>1 DEF Finish
<1>6. ASSUME NEW p \in Requests, BeforeLock(p)
      PROVE  ReservedOK'
  <2>1. \/ Finish(p)
        \/ \E r : req' = [req EXCEPT ![p] = r] /\ r.pc \in Before \cup {"RESERVE"}
    <3>1. ASSUME NEW c \in Before, Goto(p, c)
          PROVE  <2>1
      <4>1. req' = [req EXCEPT ![p] = [req[p] EXCEPT !.pc = c]]
        BY <3>1 DEF Goto
      <4>2. [req[p] EXCEPT !.pc = c].pc = c
        BY <1>1 DEF Request
      <4> QED
        BY <4>1, <4>2
    <3>2. ASSUME NEW x, req' = [req EXCEPT ![p].pc = "APPLY", ![p].source = x]
          PROVE  <2>1
      <4>1. req' = [req EXCEPT ![p] = [req[p] EXCEPT !.pc = "APPLY", !.source = x]]
        BY <3>2
      <4>2. [req[p] EXCEPT !.pc = "APPLY", !.source = x].pc \in Before
        BY <1>1 DEF Request, Before
      <4> QED
        BY <4>1, <4>2
    <3>3. ASSUME NEW x, req' = [req EXCEPT ![p].pc = "RESERVE", ![p].target = target,
                                           ![p].result = x]
          PROVE  <2>1
      <4>1. req' = [req EXCEPT ![p] = [req[p] EXCEPT !.pc = "RESERVE", !.target = target,
                                                     !.result = x]]
        BY <3>3
      <4>2. [req[p] EXCEPT !.pc = "RESERVE", !.target = target, !.result = x].pc = "RESERVE"
        BY <1>1 DEF Request
      <4> QED
        BY <4>1, <4>2
    <3>4. {"LOCK", "CHECK", "COMMIT", "REVERIFY"} \subseteq Before
      BY DEF Before
    <3>5. CASE Verify(p)
      BY <3>1, <3>2, <3>4, <3>5 DEF Verify, Verified
    <3>6. CASE Check(p) \/ ApplyReview(p)
      BY <3>1, <3>4, <3>6 DEF Check, ApplyReview
    <3>7. CASE Commit(p)
      BY <3>2, <3>7 DEF Commit
    <3>8. CASE LockForIntegrate(p) \/ LockForSync(p)
      BY <3>3, <3>8 DEF LockForIntegrate, LockForSync
    <3> QED
      BY <1>6, <3>5, <3>6, <3>7, <3>8 DEF BeforeLock
  <2>2. \A c \in Before \cup {"RESERVE"} : c \notin Past
    BY DEF Before, Holding
  <2> QED
    BY <1>3, <1>5, <2>1, <2>2
<1>7. ASSUME NEW p \in Requests, UnderLock(p)
      PROVE  ReservedOK'
  <2>1. CASE Finish(p)
    BY <1>5, <2>1
  <2>2. CASE Reserve(p)
    <3> DEFINE c == IF req[p].result \in {"MERGE", "FORWARD"} THEN req[p].result ELSE "COMPLETE"
    <3> DEFINE o == [status |-> "RUNNING",
                     op |-> IF req[p].result = "MERGE" THEN "SYNC" ELSE "INTEGRATE",
                     task |-> req[p].task, source |-> req[p].source,
                     before |-> req[p].target, after |-> None]
               x(a) == [req[p] EXCEPT !.attempt = a, !.pc = c]
    <3>1. PICK a \in Attempts : /\ req' = [req EXCEPT ![p].attempt = a, ![p].pc = c]
                                /\ attempt' = [attempt EXCEPT ![a] = o]
      BY <2>2 DEF Reserve
    <3>2. o.status = "RUNNING"
      OBVIOUS
    <3>3. attempt'[a].status = "RUNNING"
      <4> HIDE DEF o
      <4> QED
        BY <1>1, <3>1, <3>2
    <3>4. req' = [req EXCEPT ![p] = x(a)]
      BY <3>1
    <3>5. x(a).attempt = a
      BY <1>1 DEF Request
    <3>6. Has(x(a))
      BY <3>3, <3>5
    <3> HIDE DEF x, Has
    <3> QED
      BY <1>3, <3>4, <3>6
  <2>3. CASE ~Reserve(p) /\ ~Finish(p)
    <3>1. req[p].pc \in Past
      BY <1>7, <2>3 DEF UnderLock, ReserveFails, FastForward, StartMerge, EndMerge, AbortMerge,
         GiveUp, Quarantine, Settle, SettleSync, At, Holding, Return
    <3>2. \/ \E x : Result(p, x)
          \/ \E x : Goto(p, x)
      BY <1>7, <2>3 DEF UnderLock, ReserveFails, FastForward, StartMerge, EndMerge, AbortMerge,
         GiveUp, Quarantine, Settle, SettleSync, Return
    <3>3. ASSUME NEW x, Result(p, x)
          PROVE  ReservedOK'
      <4>1. req' = [req EXCEPT ![p] = [req[p] EXCEPT !.pc = "COMPLETE", !.result = x]]
        BY <3>3 DEF Result
      <4>2. [req[p] EXCEPT !.pc = "COMPLETE", !.result = x].attempt = req[p].attempt
        BY <1>1 DEF Request
      <4> QED
        BY <1>2, <1>3, <3>1, <4>1, <4>2
    <3>4. ASSUME NEW x, Goto(p, x)
          PROVE  ReservedOK'
      <4>1. req' = [req EXCEPT ![p] = [req[p] EXCEPT !.pc = x]]
        BY <3>4 DEF Goto
      <4>2. [req[p] EXCEPT !.pc = x].attempt = req[p].attempt
        BY <1>1 DEF Request
      <4> QED
        BY <1>2, <1>3, <3>1, <4>1, <4>2
    <3> QED
      BY <3>2, <3>3, <3>4
  <2> QED
    BY <2>1, <2>2, <2>3
<1>8. ASSUME NEW p \in Requests, NEW t, NEW k, Begin(p, k, t)
      PROVE  ReservedOK'
  <2> DEFINE r == [NoRequest EXCEPT !.pc = IF k = "COMMIT" THEN "REVERIFY" ELSE "VERIFY",
                                     !.kind = k, !.task = t,
                                     !.version = IF k = "ACCEPT" THEN version[t] ELSE 0,
                                     !.source = IF k \in {"INTEGRATE", "SYNC"}
                                                  THEN accepted[t] ELSE None]
  <2>1. req' = [req EXCEPT ![p] = r]
    BY <1>8 DEF Begin
  <2>2. r.pc \in {"VERIFY", "REVERIFY"}
    BY DEF NoRequest
  <2> QED
    <3> HIDE DEF r
    <3> QED
      BY <1>3, <2>1, <2>2 DEF Holding
<1>9. ASSUME NEW p \in Requests, Drop(p)
      PROVE  ReservedOK'
  BY <1>5, <1>9 DEF Drop, Return
<1>10. CASE Crash
  <2>1. \A p \in Requests : req'[p].pc = "IDLE"
    BY <1>10 DEF Crash, NoRequest
  <2> QED
    BY <2>1 DEF ReservedOK, Holding
<1>11. CASE Start \/ Recovery \/ Others \/ UNCHANGED vars
  <2>1. UNCHANGED req
    BY <1>11 DEF Start, Recovery, Serve, RecoverIntegrate, RecoverMerge, RecoverSync, Others,
                 CommitOnTarget, MoveTask, OpenWorkspace, EditWorktree, CommitInWorktree, vars
  <2> QED
    BY <1>4, <2>1
<1> QED
  BY <1>6, <1>7, <1>8, <1>9, <1>10, <1>11 DEF Next

-----------------------------------------------------------------------------
(* The theorems.                                                           *)

LEMMA InitIInv == Init => IInv
<1> SUFFICES ASSUME Init
             PROVE  IInv
  OBVIOUS
<1>1. 1 \in Commits /\ made = 1
  BY IntegrationAssumption DEF Commits, Init
<1>2. RepositoryOK
  BY <1>1 DEF Init, RepositoryOK, None
<1>3. NoAttempt \in Attempt /\ NoAttempt.status = "ABSENT"
  BY DEF NoAttempt, Attempt, None
<1>4. RowsOK
  BY <1>3 DEF Init, RowsOK, TaskStatus
<1>5. Relies(NoRequest) /\ NoRequest \in Request /\ NoRequest.pc = "IDLE"
  BY <1>2, NoRequestRelies DEF NoRequest, Relies
<1>6. req = [p \in Requests |-> NoRequest]
  BY DEF Init
<1>7. RequestsOK /\ ReservedOK
  BY <1>5, <1>6 DEF RequestsOK, ReservedOK, Holding
<1> QED
  BY <1>2, <1>4, <1>7 DEF IInv

LEMMA NextIInv == IInv /\ [Next]_vars => IInv'
BY NextRepository, NextRows, NextRequests, NextReserved DEF IInv, RowsMove

\* IInv is an invariant: whatever a request checked before it waited for the
\* lock and still relies on is true (Relies).
THEOREM ReliesInvariant == Spec => []IInv
BY InitIInv, NextIInv, PTL DEF Spec

LEMMA IInvTypes == IInv => TypeOK
<1> SUFFICES ASSUME IInv
             PROVE  TypeOK
  OBVIOUS
<1>1. 1..made \subseteq Commits /\ 0..made \subseteq Commits \cup {None}
  BY IntegrationAssumption DEF IInv, RepositoryOK, Commits, None
<1>2. work \in [Tasks -> Worktree] /\ ws \in [Tasks -> Workspace]
  BY <1>1 DEF IInv, RepositoryOK, Worktree, Workspace
<1>3. /\ made \in Commits /\ anc \in [Commits -> SUBSET Commits] /\ target \in Commits
      /\ reviews \in [Tasks -> SUBSET Commits] /\ accepted \in [Tasks -> Commits \cup {None}]
  BY <1>1 DEF IInv, RepositoryOK
<1> QED
  BY <1>2, <1>3 DEF IInv, RowsOK, RequestsOK, TypeOK

\* Every variable of Integration has its type, whatever the interleaving of
\* requests, crashes and recoveries.
THEOREM IntegrationTypes == Spec => []TypeOK
BY ReliesInvariant, IInvTypes, PTL

-----------------------------------------------------------------------------
(* Integration implements Landing.                                         *)

\* What leaves the commits, the branch and the reviews alone is a stutter.
LEMMA Stutters ==
    ASSUME UNCHANGED <<made, anc, target, reviews>>
    PROVE  UNCHANGED L!vars
BY DEF L!vars, Landed

\* A commit in a worktree is written aside of the branch.
LEMMA WritesAside ==
    ASSUME RepositoryOK, NEW t \in Tasks, NEW merged \in SUBSET (0..made),
           WrittenAt(t, merged), UNCHANGED <<target, reviews>>
    PROVE  L!WriteAside
<1>1. made \in Nat /\ 1 <= made
  BY DEF RepositoryOK, Commits
<1> DEFINE parents == {work[t].head} \cup (merged \ {None})
<1>2. parents \in SUBSET (1..made)
  <2>1. work[t].head \in 1..made
    BY DEF RepositoryOK
  <2>2. \A x \in 0..made : x # None => x \in 1..made
    BY <1>1 DEF None
  <2> QED
    BY <2>1, <2>2
<1>3. L!Write(parents)
  BY DEF WrittenAt, Written, L!Write
<1>4. UNCHANGED <<target, Landed>>
  BY DEF Landed
<1> HIDE DEF parents
<1> QED
  BY <1>2, <1>3, <1>4 DEF L!WriteAside

LEMMA InitLanding == Init => L!Init
BY DEF Init, L!Init, Landed, Commits, L!Commits

\* Every step of Integration is a step of Landing or a stutter.  The steps to
\* look at are those that write a commit, accept one, or move the branch.
LEMMA NextLanding ==
    ASSUME IInv, [Next]_vars
    PROVE  [L!Next]_(L!vars)
<1>1. RepositoryOK
  BY DEF IInv
<1>2. CASE UNCHANGED <<made, anc, target, reviews>>
  BY <1>2, Stutters
<1>3. ASSUME NEW t \in Tasks, NEW merged \in SUBSET (0..made), WrittenAt(t, merged),
             UNCHANGED <<target, reviews>>
      PROVE  L!Next
  BY <1>1, <1>3, WritesAside DEF L!Next
<1>4. ASSUME NEW p \in Requests, Commit(p)
      PROVE  [L!Next]_(L!vars)
  <2>1. req[p].task \in Tasks
    BY <1>4, ServedTask DEF Commit, At
  <2>2. {work[req[p].task].merging} \in SUBSET (0..made)
    BY <1>1, <2>1 DEF RepositoryOK
  <2>3. UNCHANGED <<target, reviews>>
    BY <1>4 DEF Commit, taskVars
  <2>4. \/ WrittenAt(req[p].task, {work[req[p].task].merging})
        \/ UNCHANGED <<made, anc>>
    BY <1>4 DEF Commit
  <2> QED
    BY <1>2, <1>3, <2>1, <2>2, <2>3, <2>4
<1>5. ASSUME NEW p \in Requests, EndMerge(p)
      PROVE  [L!Next]_(L!vars)
  <2>1. req[p].task \in Tasks /\ {req[p].target} \in SUBSET (0..made)
    BY <1>5, ServedTask DEF EndMerge, At
  <2>2. UNCHANGED <<target, reviews>>
    BY <1>5 DEF EndMerge, taskVars
  <2>3. \/ WrittenAt(req[p].task, {req[p].target})
        \/ UNCHANGED <<made, anc>>
    BY <1>5 DEF EndMerge
  <2> QED
    BY <1>2, <1>3, <2>1, <2>2, <2>3
<1>6. ASSUME NEW t \in Tasks, CommitInWorktree(t)
      PROVE  [L!Next]_(L!vars)
  <2>1. PICK merged \in {{}, {target}} : WrittenAt(t, merged \cup {work[t].merging})
    BY <1>6 DEF CommitInWorktree
  <2>2. merged \cup {work[t].merging} \in SUBSET (0..made)
    <3>1. target \in 0..made /\ work[t].merging \in 0..made
      BY <1>1 DEF RepositoryOK, Commits
    <3> QED
      BY <2>1, <3>1
  <2>3. UNCHANGED <<target, reviews>>
    BY <1>6 DEF CommitInWorktree, taskVars
  <2> QED
    BY <1>3, <2>1, <2>2, <2>3
<1>7. CASE CommitOnTarget
  <2>1. L!Write({target}) /\ target' = made + 1
    BY <1>7 DEF CommitOnTarget, Written, L!Write
  <2>2. UNCHANGED Landed
    BY <1>7 DEF CommitOnTarget, taskVars, Landed
  <2> QED
    BY <2>1, <2>2 DEF L!WriteOnTarget, L!Next
<1>8. ASSUME NEW p \in Requests, ApplyReview(p)
      PROVE  [L!Next]_(L!vars)
  <2>1. req[p].task \in Tasks /\ req[p].source \in 1..made
    BY <1>8, ServedTask DEF ApplyReview, At, Relies
  <2>2. UNCHANGED <<made, anc, target>>
    BY <1>8 DEF ApplyReview, gitVars
  <2>3. CASE UNCHANGED reviews
    BY <1>2, <2>2, <2>3
  <2>4. CASE reviews' = [reviews EXCEPT ![req[p].task] = @ \cup {req[p].source}]
    <3>1. Landed' = Landed \cup {req[p].source}
      <4>1. \A u \in Tasks : reviews'[u] = IF u = req[p].task
                                             THEN reviews[u] \cup {req[p].source}
                                             ELSE reviews[u]
        BY <1>1, <2>4 DEF RepositoryOK
      <4>2. \A c : c \in Landed <=> \E u \in Tasks : c \in reviews[u]
        BY DEF Landed
      <4>3. \A c : c \in Landed' <=> \E u \in Tasks : c \in reviews'[u]
        BY DEF Landed
      <4>4. ASSUME NEW c
            PROVE  c \in Landed' <=> c \in Landed \/ c = req[p].source
        <5>1. \A u \in Tasks : c \in reviews'[u] <=>
                 c \in reviews[u] \/ (u = req[p].task /\ c = req[p].source)
          BY <4>1
        <5>2. (\E u \in Tasks : c \in reviews'[u]) <=>
                 (\E u \in Tasks : c \in reviews[u]) \/ c = req[p].source
          BY <2>1, <5>1
        <5> QED
          BY <4>2, <4>3, <5>2
      <4> QED
        BY <4>4
    <3> QED
      BY <2>1, <2>2, <3>1 DEF L!Accept, L!Next
  <2> QED
    BY <1>8, <2>3, <2>4 DEF ApplyReview, taskVars
<1>9. ASSUME NEW p \in Requests, FastForward(p)
      PROVE  [L!Next]_(L!vars)
  <2>1. Relies(req[p]) /\ req[p].task \in Tasks /\ req[p].pc = "FORWARD"
    BY <1>9, ServedTask DEF FastForward, At
  <2>2. req[p].source \in Landed /\ req[p].target \in anc[req[p].source]
    BY <2>1 DEF Relies, Holding, Landed
  <2>3. UNCHANGED <<made, anc, reviews>> /\ UNCHANGED Landed
    BY <1>9 DEF FastForward, taskVars, Landed
  <2>4. \/ target' = req[p].source /\ target \in anc[req[p].source]
        \/ UNCHANGED target
    BY <1>9, <2>2 DEF FastForward, Contains
  <2> QED
    BY <1>2, <2>2, <2>3, <2>4 DEF L!Land, L!Next
<1>10. ASSUME NEW p \in Requests, BeforeLock(p)
       PROVE  [L!Next]_(L!vars)
  <2>1. CASE Verify(p) \/ Check(p) \/ LockForIntegrate(p) \/ LockForSync(p)
    BY <1>2, <2>1 DEF Verify, Check, LockForIntegrate, LockForSync, gitVars, taskVars
  <2> QED
    BY <1>4, <1>8, <1>10, <2>1 DEF BeforeLock
<1>11. ASSUME NEW p \in Requests, UnderLock(p)
       PROVE  [L!Next]_(L!vars)
  <2>1. CASE ~FastForward(p) /\ ~EndMerge(p)
    <3>1. UNCHANGED <<made, anc, target, reviews>>
      BY <1>11, <2>1 DEF UnderLock, Reserve, ReserveFails, StartMerge, AbortMerge, GiveUp,
         Quarantine, Settle, SettleSync, CompleteSync, gitVars, taskVars
    <3> QED
      BY <1>2, <3>1
  <2> QED
    BY <1>5, <1>9, <2>1
<1>12. ASSUME NEW p \in Requests,
              \/ Drop(p)
              \/ \E t \in Tasks, k \in {"INTEGRATE", "SYNC", "ACCEPT", "COMMIT"} : Begin(p, k, t)
       PROVE  [L!Next]_(L!vars)
  BY <1>2, <1>12 DEF Drop, Begin, gitVars, taskVars
<1>13. CASE Crash \/ Start \/ Recovery
  BY <1>2, <1>13 DEF Crash, Start, Recovery, Serve, RecoverIntegrate, RecoverMerge, RecoverSync,
                     CompleteSync, gitVars, taskVars
<1>14. CASE Others
  <2>1. ASSUME NEW t \in Tasks, MoveTask(t) \/ OpenWorkspace(t) \/ EditWorktree(t)
        PROVE  [L!Next]_(L!vars)
    BY <1>2, <2>1 DEF MoveTask, OpenWorkspace, EditWorktree, gitVars, taskVars
  <2> QED
    BY <1>6, <1>7, <1>14, <2>1 DEF Others
<1>15. CASE UNCHANGED vars
  BY <1>2, <1>15 DEF vars, gitVars, taskVars
<1> QED
  BY <1>10, <1>11, <1>12, <1>13, <1>14, <1>15 DEF Next

\* The owner of the target branch can rely on Landing: for every number of
\* tasks, requests, commits and attempts, through crashes and recoveries,
\* nothing leaves the branch and the program only lands accepted commits.
THEOREM IntegrationLands == Spec => HoldsLanding
<1>1. Spec => []IInv
  BY ReliesInvariant
<1>2. IInv /\ [Next]_vars => [L!Next]_(L!vars)
  BY NextLanding
<1> QED
  BY <1>1, <1>2, InitLanding, PTL DEF Spec, HoldsLanding, L!Spec

-----------------------------------------------------------------------------
(* What the holder of the lock knows.                                     *)

\* A commit is its own ancestor, and its ancestors are written.
AncestorsOK == \A c \in 1..made : c \in anc[c] /\ anc[c] \subseteq 1..made

\* Who is past the lock holds it, and requests are served by a daemon that is up.
HoldersOK ==
    /\ \A p \in Requests : req[p].pc \in Holding => lock = p
    /\ \A p \in Requests : req[p].pc # "IDLE" => daemon = "UP"

\* The attempt of a request is running and says what the request is about.
Registered(p) ==
    req[p].pc \in Holding \ {"RESERVE", "QUARANTINE"} =>
        /\ attempt[req[p].attempt].status = "RUNNING"
        /\ attempt[req[p].attempt].op = req[p].kind
        /\ attempt[req[p].attempt].task = req[p].task
        /\ attempt[req[p].attempt].source = req[p].source
        /\ attempt[req[p].attempt].before = req[p].target

\* The steps and results of an integration, and of a sync.
InStep(p) ==
    req[p].pc \in Holding =>
        \/ /\ req[p].kind = "INTEGRATE"
           /\ \/ req[p].pc = "RESERVE" /\ req[p].result \in {"SUCCEEDED", "NEEDS_SYNC", "FORWARD"}
              \/ req[p].pc = "FORWARD" /\ req[p].result = "FORWARD"
              \/ req[p].pc = "COMPLETE" /\ req[p].result \in {"SUCCEEDED", "NEEDS_SYNC", "FAILED"}
        \/ /\ req[p].kind = "SYNC" /\ req[p].target # None
           /\ \/ req[p].pc = "RESERVE" /\ req[p].result = "MERGE"
              \/ req[p].pc \in {"MERGE", "MERGING", "ABORT", "GIVE_UP", "QUARANTINE"}
              \/ req[p].pc = "COMPLETE" /\ req[p].result \in {"SYNCED", "CONFLICT", "FAILED"}

\* What the branch and the worktree show of the result, from the moment it is
\* found until it is recorded.
Shown(p) ==
    /\ req[p].pc \in Holding /\ req[p].kind = "INTEGRATE" =>
         /\ req[p].result = "SUCCEEDED" <=> Contains(target, req[p].source)
         /\ req[p].result = "NEEDS_SYNC" => ~Contains(req[p].source, target)
    /\ req[p].pc = "COMPLETE" /\ req[p].result = "SYNCED" =>
         Contains(work[req[p].task].head, req[p].target)
    /\ req[p].pc = "COMPLETE" /\ req[p].result = "CONFLICT" =>
         work[req[p].task].merging = None

\* What the holder of the lock has established.
Established(p) == Registered(p) /\ InStep(p) /\ Shown(p)

\* The inductive invariant for what attempts end with.
VInv == IInv /\ AncestorsOK /\ HoldersOK /\ \A p \in Requests : Established(p)

-----------------------------------------------------------------------------
(* What a step does to the repository.                                     *)

\* A new commit has its parents' ancestors, and the order of commits stays one.
LEMMA WrittenAncestors ==
    ASSUME RepositoryOK, AncestorsOK, NEW parents \in SUBSET (1..made), Written(parents)
    PROVE  /\ made' = made + 1 /\ AncestorsOK'
           /\ anc'[made + 1] = {made + 1} \cup UNION {anc[q] : q \in parents}
           /\ \A c \in 1..made : anc'[c] = anc[c]
<1>1. made \in Nat /\ made + 1 \in Commits /\ anc \in [Commits -> SUBSET Commits]
  BY IntegrationAssumption DEF RepositoryOK, Commits, Written
<1>2. /\ made' = made + 1
      /\ anc' = [anc EXCEPT ![made + 1] = {made + 1} \cup UNION {anc[q] : q \in parents}]
  BY DEF Written
<1>3. anc'[made + 1] = {made + 1} \cup UNION {anc[q] : q \in parents}
  BY <1>1, <1>2
<1>4. \A c \in 1..made : anc'[c] = anc[c]
  BY WrittenGrows
<1>5. UNION {anc[q] : q \in parents} \subseteq 1..made
  BY DEF AncestorsOK
<1>6. anc'[made + 1] \subseteq 1..(made + 1) /\ made + 1 \in anc'[made + 1]
  BY <1>1, <1>3, <1>5
<1>7. \A c \in 1..made : c \in anc'[c] /\ anc'[c] \subseteq 1..(made + 1)
  BY <1>1, <1>4 DEF AncestorsOK
<1>8. AncestorsOK'
  <2>1. \A c \in 1..(made + 1) : c \in 1..made \/ c = made + 1
    BY <1>1
  <2> QED
    BY <1>2, <1>6, <1>7, <2>1 DEF AncestorsOK
<1> QED
  BY <1>2, <1>3, <1>4, <1>8

\* The commit of worktree t contains what the worktree and the merged commits
\* contained.
LEMMA WrittenAtContains ==
    ASSUME RepositoryOK, AncestorsOK, NEW t \in Tasks, NEW merged \in SUBSET (0..made),
           WrittenAt(t, merged)
    PROVE  /\ AncestorsOK' /\ \A c \in 1..made : anc'[c] = anc[c]
           /\ work'[t].head = made + 1 /\ work'[t].merging = None
           /\ \A u \in Tasks \ {t} : work'[u] = work[u]
           /\ anc[work[t].head] \subseteq anc'[made + 1]
           /\ \A m \in merged \ {None} : anc[m] \subseteq anc'[made + 1]
<1> DEFINE parents == {work[t].head} \cup (merged \ {None})
<1>1. made \in Nat /\ 1 <= made
  BY DEF RepositoryOK, Commits
<1>2. parents \in SUBSET (1..made)
  <2>1. work[t].head \in 1..made
    BY DEF RepositoryOK
  <2>2. \A x \in 0..made : x # None => x \in 1..made
    BY <1>1 DEF None
  <2> QED
    BY <2>1, <2>2
<1>3. Written(parents)
  BY DEF WrittenAt
<1>4. work' = [work EXCEPT ![t] = [head |-> made + 1, dirty |-> FALSE, merging |-> None]]
  BY DEF WrittenAt
<1>5. work[t].head \in parents /\ \A m \in merged \ {None} : m \in parents
  OBVIOUS
<1> HIDE DEF parents
<1>6. /\ AncestorsOK' /\ \A c \in 1..made : anc'[c] = anc[c]
      /\ anc'[made + 1] = {made + 1} \cup UNION {anc[q] : q \in parents}
  BY <1>2, <1>3, WrittenAncestors
<1>7. \A q \in parents : anc[q] \subseteq anc'[made + 1]
  BY <1>6
<1>8. /\ work'[t].head = made + 1 /\ work'[t].merging = None
      /\ \A u \in Tasks \ {t} : work'[u] = work[u]
  BY <1>4 DEF RepositoryOK
<1> QED
  BY <1>5, <1>6, <1>7, <1>8

\* Seen from a request that holds the lock: others write on top of worktrees
\* and of the branch, and leave merges and attempts alone.
Aside ==
    /\ AncestorsOK' /\ UNCHANGED attempt
    /\ \A c \in 1..made : c \in anc'[target'] <=> c \in anc[target]
    /\ target' = target \/ \A c \in 1..made : target' \notin anc'[c]
    /\ \A t \in Tasks : /\ anc[work[t].head] \subseteq anc'[work'[t].head]
                        /\ work[t].merging = None => work'[t].merging = None

\* A step that changes no commit, branch or attempt is aside.
LEMMA AsideKept ==
    ASSUME AncestorsOK, UNCHANGED <<gitVars, attempt>>
    PROVE  Aside
BY DEF Aside, AncestorsOK, gitVars

\* So is a commit in a worktree,
LEMMA AsideWrittenAt ==
    ASSUME RepositoryOK, AncestorsOK, NEW t \in Tasks, NEW merged \in SUBSET (0..made),
           WrittenAt(t, merged), UNCHANGED <<target, attempt>>
    PROVE  Aside
<1>1. /\ AncestorsOK' /\ \A c \in 1..made : anc'[c] = anc[c]
      /\ work'[t].head = made + 1 /\ work'[t].merging = None
      /\ \A u \in Tasks \ {t} : work'[u] = work[u]
      /\ anc[work[t].head] \subseteq anc'[made + 1]
  BY WrittenAtContains
<1>2. target \in 1..made /\ \A u \in Tasks : work[u].head \in 1..made
  BY DEF RepositoryOK
<1> QED
  BY <1>1, <1>2 DEF Aside

\* whatever agents and the owner of the branch do with git themselves,
LEMMA AsideOthers ==
    ASSUME IInv, AncestorsOK, Others
    PROVE  Aside
<1>0. RepositoryOK
  BY DEF IInv
<1>1. CASE CommitOnTarget
  <2>0. made \in Nat /\ target \in 1..made
    BY <1>0 DEF RepositoryOK, Commits
  <2>1. Written({target}) /\ target' = made + 1 /\ UNCHANGED <<work, attempt>>
    BY <1>1 DEF CommitOnTarget
  <2>2. {target} \in SUBSET (1..made)
    BY <2>0
  <2>3. /\ AncestorsOK' /\ \A c \in 1..made : anc'[c] = anc[c]
        /\ anc'[made + 1] = {made + 1} \cup UNION {anc[q] : q \in {target}}
    BY <1>0, <2>1, <2>2, WrittenAncestors
  <2>4. anc'[target'] = {made + 1} \cup anc[target]
    BY <2>1, <2>3
  <2>5. \A c \in 1..made : c # made + 1 /\ made + 1 \notin anc'[c]
    BY <2>0, <2>3 DEF AncestorsOK
  <2>6. \A t \in Tasks : anc[work[t].head] \subseteq anc'[work'[t].head]
    BY <1>0, <2>1, <2>3 DEF RepositoryOK
  <2> QED
    BY <2>1, <2>3, <2>4, <2>5, <2>6 DEF Aside
<1>2. ASSUME NEW t \in Tasks, MoveTask(t) \/ OpenWorkspace(t)
      PROVE  Aside
  BY <1>2, AsideKept DEF MoveTask, OpenWorkspace
<1>3. ASSUME NEW t \in Tasks, EditWorktree(t)
      PROVE  Aside
  <2>1. /\ UNCHANGED <<made, anc, target, attempt>>
        /\ \A u \in Tasks : work'[u].head = work[u].head /\ work'[u].merging = work[u].merging
    BY <1>0, <1>3 DEF EditWorktree, RepositoryOK
  <2> QED
    BY <2>1 DEF Aside, AncestorsOK
<1>4. ASSUME NEW t \in Tasks, CommitInWorktree(t)
      PROVE  Aside
  <2>1. PICK merged \in {{}, {target}} : WrittenAt(t, merged \cup {work[t].merging})
    BY <1>4 DEF CommitInWorktree
  <2>2. merged \cup {work[t].merging} \in SUBSET (0..made)
    <3>1. target \in 0..made /\ work[t].merging \in 0..made
      BY <1>0 DEF RepositoryOK, Commits
    <3> QED
      BY <2>1, <3>1
  <2>3. UNCHANGED <<target, attempt>>
    BY <1>4 DEF CommitInWorktree
  <2> QED
    BY <1>0, <2>1, <2>2, <2>3, AsideWrittenAt
<1> QED
  BY <1>1, <1>2, <1>3, <1>4 DEF Others

\* and what another request does before it takes the lock.
LEMMA AsideBeforeLock ==
    ASSUME IInv, AncestorsOK, NEW p \in Requests, BeforeLock(p)
    PROVE  Aside
<1>1. CASE Commit(p)
  <2>0. RepositoryOK
    BY DEF IInv
  <2>1. req[p].task \in Tasks
    BY <1>1, ServedTask DEF Commit, At
  <2>2. {work[req[p].task].merging} \in SUBSET (0..made)
    BY <2>0, <2>1 DEF RepositoryOK
  <2>3. UNCHANGED <<target, attempt>>
    BY <1>1 DEF Commit
  <2>4. \/ WrittenAt(req[p].task, {work[req[p].task].merging})
        \/ UNCHANGED <<made, anc, work>>
    BY <1>1 DEF Commit
  <2> QED
    BY <2>0, <2>1, <2>2, <2>3, <2>4, AsideWrittenAt, AsideKept DEF gitVars
<1> QED
  BY <1>1, AsideKept DEF BeforeLock, Verify, Check, ApplyReview, LockForIntegrate, LockForSync

\* A request that holds the lock while another acts.
LEMMA EstablishedStays ==
    ASSUME IInv, Grows, Aside, NEW p \in Requests, Established(p), req'[p] = req[p]
    PROVE  Established(p)'
<1>1. Registered(p)' /\ InStep(p)'
  BY DEF Established, Registered, InStep, Aside
<1>2. req[p].pc \in Holding => /\ req[p].task \in Tasks /\ req[p].target \in 0..made
                               /\ req[p].kind = "INTEGRATE" => req[p].source \in 1..made
  <2>1. req[p].pc \in Holding => req[p].pc # "IDLE"
    BY DEF Holding
  <2> QED
    BY <2>1, ServedTask DEF Relies, IInv, RepositoryOK
<1>3. "COMPLETE" \in Holding
  BY DEF Holding
<1>4. ASSUME req[p].pc \in Holding, req[p].kind = "INTEGRATE"
      PROVE  /\ req[p].result = "SUCCEEDED" <=> req[p].source \in anc'[target']
             /\ req[p].result = "NEEDS_SYNC" => target' \notin anc'[req[p].source]
  <2>1. anc'[req[p].source] = anc[req[p].source]
    BY <1>2, <1>4 DEF Grows
  <2> QED
    BY <1>2, <1>4, <2>1 DEF Established, Shown, Contains, Aside
<1>5. Shown(p)'
  BY <1>2, <1>3, <1>4 DEF Established, Shown, Contains, Aside
<1> QED
  BY <1>1, <1>5 DEF Established

\* A request that does not hold the lock claims nothing.
LEMMA NotHolding ==
    ASSUME NEW p \in Requests, req'[p].pc \notin Holding
    PROVE  Established(p)'
BY DEF Established, Registered, InStep, Shown, Holding

-----------------------------------------------------------------------------
(* The lock.                                                               *)

\* The lock is exclusive: who is past it, is alone there.
LEMMA NextHolders ==
    ASSUME IInv, HoldersOK, [Next]_vars
    PROVE  HoldersOK'
<1> DEFINE Held(p) == req'[p].pc \in Holding => lock' = p
           Up(p)   == req'[p].pc # "IDLE" => daemon' = "UP"
<1> SUFFICES ASSUME NEW q \in Requests
             PROVE  Held(q) /\ Up(q)
  BY DEF HoldersOK
<1>0. /\ req \in [Requests -> Request] /\ NoOne \notin Requests
      /\ req[q].pc \in Holding => lock = q
      /\ req[q].pc # "IDLE" => daemon = "UP"
  BY IntegrationAssumption DEF IInv, RequestsOK, HoldersOK
<1>1. ASSUME req'[q] = req[q] \/ req'[q].pc = "IDLE", UNCHANGED lock, UNCHANGED daemon
      PROVE  Held(q) /\ Up(q)
  BY <1>0, <1>1 DEF Holding
<1>2. ASSUME NEW p \in Requests, Return(p), UNCHANGED daemon
      PROVE  Held(q) /\ Up(q)
  BY <1>0, <1>2 DEF Return, Finish, Release, NoRequest, Holding
<1>3. ASSUME NEW p \in Requests, BeforeLock(p)
      PROVE  Held(q) /\ Up(q)
  <2>1. req[p].pc # "IDLE" /\ daemon = "UP" /\ UNCHANGED daemon
    BY <1>3 DEF BeforeLock, Verify, Check, Commit, ApplyReview, LockForIntegrate, LockForSync,
                At, HoldersOK, hostVars
  <2>2. CASE Acquire(p) /\ \A z \in Requests \ {p} : req'[z] = req[z]
    <3>1. \A z \in Requests : req[z].pc \notin Holding
      BY <1>0, <2>2 DEF HoldersOK, Acquire
    <3> QED
      BY <1>0, <2>1, <2>2, <3>1 DEF Acquire
  <2>3. CASE /\ UNCHANGED lock /\ \A z \in Requests \ {p} : req'[z] = req[z]
             /\ req'[p].pc \notin Holding
    BY <1>0, <2>1, <2>3
  <2>4. \A z \in Requests \ {p} : req'[z] = req[z]
    BY <1>0, <1>3 DEF BeforeLock, Verify, Verified, Check, Commit, ApplyReview, LockForIntegrate,
                      LockForSync, Goto, Finish
  <2>5. CASE LockForIntegrate(p) \/ LockForSync(p)
    <3>1. Acquire(p) \/ (UNCHANGED lock /\ Finish(p))
      BY <2>5 DEF LockForIntegrate, LockForSync
    <3> QED
      BY <1>0, <2>2, <2>3, <2>4, <3>1 DEF Finish, NoRequest, Holding
  <2>6. CASE Verify(p) \/ Check(p) \/ Commit(p) \/ ApplyReview(p)
    <3>1. UNCHANGED lock
      BY <2>6 DEF Verify, Check, Commit, ApplyReview
    <3>2. \/ Finish(p) \/ \E c \in Before : Goto(p, c)
          \/ \E z : req' = [req EXCEPT ![p].pc = "APPLY", ![p].source = z]
      BY <2>6 DEF Verify, Verified, Check, Commit, ApplyReview, Before
    <3>3. req'[p].pc \notin Holding
      BY <1>0, <3>2 DEF Finish, Goto, NoRequest, Holding, Before, Request
    <3> QED
      BY <2>3, <2>4, <3>1, <3>3
  <2> QED
    BY <1>3, <2>5, <2>6 DEF BeforeLock
<1>4. ASSUME NEW p \in Requests, UnderLock(p)
      PROVE  Held(q) /\ Up(q)
  <2>1. req[p].pc \in Holding /\ req[p].pc # "IDLE" /\ UNCHANGED daemon
    BY <1>4 DEF UnderLock, Reserve, ReserveFails, FastForward, StartMerge, EndMerge, AbortMerge,
                GiveUp, Quarantine, Settle, SettleSync, At, Holding, hostVars
  <2>2. lock = p /\ daemon = "UP"
    BY <2>1 DEF HoldersOK
  <2>3. \/ Return(p)
        \/ UNCHANGED lock /\ \A z \in Requests \ {p} : req'[z] = req[z]
    BY <1>0, <1>4 DEF UnderLock, Reserve, ReserveFails, FastForward, StartMerge, EndMerge,
       AbortMerge, GiveUp, Quarantine, Settle, SettleSync, Result, Goto
  <2> QED
    BY <1>0, <1>2, <2>1, <2>2, <2>3
<1>5. ASSUME NEW p \in Requests, NEW t \in Tasks, NEW k, Begin(p, k, t)
      PROVE  Held(q) /\ Up(q)
  <2>1. /\ daemon = "UP" /\ UNCHANGED <<lock, daemon>> /\ req'[p].pc \notin Holding
        /\ \A z \in Requests \ {p} : req'[z] = req[z]
    BY <1>0, <1>5 DEF Begin, hostVars, NoRequest, Holding
  <2> QED
    BY <1>0, <2>1
<1>6. ASSUME NEW p \in Requests, Drop(p)
      PROVE  Held(q) /\ Up(q)
  BY <1>2, <1>6 DEF Drop, hostVars
<1>7. CASE Crash
  BY <1>7 DEF Crash, NoRequest, Holding
<1>8. CASE Start \/ Serve
  BY <1>0, <1>8 DEF Start, Serve, Holding
<1>9. ASSUME NEW a \in Attempts, RecoverIntegrate(a) \/ RecoverMerge(a) \/ RecoverSync(a)
      PROVE  Held(q) /\ Up(q)
  BY <1>0, <1>9 DEF RecoverIntegrate, RecoverMerge, RecoverSync, Recovers, hostVars, Holding
<1>10. CASE Others
  BY <1>1, <1>10 DEF Others, CommitOnTarget, MoveTask, OpenWorkspace, EditWorktree,
                     CommitInWorktree, hostVars
<1>11. CASE UNCHANGED vars
  BY <1>1, <1>11 DEF vars, hostVars
<1> QED
  BY <1>3, <1>4, <1>5, <1>6, <1>7, <1>8, <1>9, <1>10, <1>11 DEF Next, Recovery

-----------------------------------------------------------------------------
(* What the holder of the lock establishes.                                *)

\* The comparison made under the fresh lock is right.
LEMMA LockEstablishes ==
    ASSUME IInv, AncestorsOK, NEW p \in Requests, LockForIntegrate(p) \/ LockForSync(p)
    PROVE  Established(p)'
<1>0. /\ req \in [Requests -> Request] /\ RepositoryOK /\ Relies(req[p])
      /\ UNCHANGED <<target, anc>>
  BY DEF IInv, RequestsOK, LockForIntegrate, LockForSync, gitVars
<1>1. CASE Finish(p)
  <2>1. req'[p].pc \notin Holding
    BY <1>0, <1>1 DEF Finish, NoRequest, Holding
  <2> QED
    BY <2>1, NotHolding
<1>2. CASE LockForIntegrate(p) /\ ~Finish(p)
  <2>1. PICK r \in {"SUCCEEDED", "FORWARD", "NEEDS_SYNC"} :
            /\ req' = [req EXCEPT ![p].pc = "RESERVE", ![p].target = target, ![p].result = r]
            /\ r = "SUCCEEDED" <=> Contains(target, req[p].source)
            /\ r = "NEEDS_SYNC" => ~Contains(req[p].source, target)
            /\ req[p].kind = "INTEGRATE"
    BY <1>2 DEF LockForIntegrate
  <2>2. /\ req'[p].pc = "RESERVE" /\ req'[p].result = r /\ req'[p].kind = "INTEGRATE"
        /\ req'[p].source = req[p].source
    BY <1>0, <2>1 DEF Request
  <2> QED
    BY <1>0, <2>1, <2>2 DEF Established, Registered, InStep, Shown, Contains
<1>3. CASE LockForSync(p) /\ ~Finish(p)
  <2>1. /\ req' = [req EXCEPT ![p].pc = "RESERVE", ![p].target = target, ![p].result = "MERGE"]
        /\ req[p].kind = "SYNC"
    BY <1>3 DEF LockForSync
  <2>2. /\ req'[p].pc = "RESERVE" /\ req'[p].result = "MERGE" /\ req'[p].kind = "SYNC"
        /\ req'[p].target = target
    BY <1>0, <2>1 DEF Request
  <2>3. target # None
    BY <1>0 DEF RepositoryOK, None
  <2> QED
    BY <2>2, <2>3 DEF Established, Registered, InStep, Shown
<1> QED
  BY <1>1, <1>2, <1>3

\* Each step of the holder keeps what it knows, or finds out anew what it records.
LEMMA HolderEstablishes ==
    ASSUME IInv, AncestorsOK, NEW p \in Requests, Established(p), UnderLock(p)
    PROVE  Established(p)' /\ AncestorsOK'
<1>1. req[p].pc \in Holding
  BY DEF UnderLock, Reserve, ReserveFails, FastForward, StartMerge, EndMerge, AbortMerge,
         GiveUp, Quarantine, Settle, SettleSync, At, Holding
<1>2. req[p].pc # "IDLE" /\ "COMPLETE" \in Holding
  BY <1>1 DEF Holding
<1>3. /\ req \in [Requests -> Request] /\ RepositoryOK /\ Relies(req[p])
      /\ req[p].task \in Tasks /\ req[p].source \in 0..made /\ req[p].target \in 0..made
      /\ req[p].kind = "INTEGRATE" => req[p].source \in 1..made
  BY <1>2, ServedTask DEF IInv, RequestsOK, Relies, RepositoryOK
<1>4. ASSUME UNCHANGED <<made, anc>>
      PROVE  AncestorsOK'
  BY <1>4 DEF AncestorsOK
<1>5. CASE ReserveFails(p) \/ Quarantine(p) \/ Settle(p) \/ SettleSync(p)
  <2>1. req'[p].pc \notin Holding /\ UNCHANGED <<made, anc>>
    BY <1>3, <1>5 DEF ReserveFails, Quarantine, Settle, SettleSync, Return, Finish, NoRequest,
                      Holding, gitVars
  <2> QED
    BY <1>4, <2>1, NotHolding
<1>6. CASE Reserve(p)
  <2>1. PICK a \in Attempts :
          /\ attempt' = [attempt EXCEPT ![a] =
                [status |-> "RUNNING",
                 op |-> IF req[p].result = "MERGE" THEN "SYNC" ELSE "INTEGRATE",
                 task |-> req[p].task, source |-> req[p].source, before |-> req[p].target,
                 after |-> None]]
          /\ req' = [req EXCEPT ![p].attempt = a,
                                ![p].pc = IF req[p].result \in {"MERGE", "FORWARD"}
                                            THEN req[p].result ELSE "COMPLETE"]
    BY <1>6 DEF Reserve
  <2>2. /\ req'[p].attempt = a /\ req'[p].kind = req[p].kind /\ req'[p].task = req[p].task
        /\ req'[p].source = req[p].source /\ req'[p].target = req[p].target
        /\ req'[p].result = req[p].result
        /\ req'[p].pc = IF req[p].result \in {"MERGE", "FORWARD"}
                          THEN req[p].result ELSE "COMPLETE"
    BY <1>3, <2>1 DEF Request
  <2>3. attempt'[a] =
          [status |-> "RUNNING", op |-> IF req[p].result = "MERGE" THEN "SYNC" ELSE "INTEGRATE",
           task |-> req[p].task, source |-> req[p].source, before |-> req[p].target,
           after |-> None]
    BY <2>1 DEF IInv, RowsOK
  <2>4. req[p].pc = "RESERVE" /\ UNCHANGED gitVars
    BY <1>6 DEF Reserve, At
  <2>5. \/ /\ req[p].kind = "INTEGRATE"
           /\ req[p].result \in {"SUCCEEDED", "NEEDS_SYNC", "FORWARD"}
        \/ req[p].kind = "SYNC" /\ req[p].result = "MERGE" /\ req[p].target # None
    BY <1>1, <2>4 DEF Established, InStep
  <2>6. Registered(p)'
    BY <2>2, <2>3, <2>5 DEF Registered
  <2>7. InStep(p)'
    BY <2>2, <2>5 DEF InStep
  <2>8. Shown(p)'
    BY <1>1, <2>2, <2>4, <2>5 DEF Established, Shown, gitVars, Contains
  <2> QED
    BY <1>4, <2>4, <2>6, <2>7, <2>8 DEF Established, gitVars
<1>7. ASSUME NEW c \in Holding, NEW x, UNCHANGED attempt, req[p].pc # "RESERVE",
             req[p].pc # "QUARANTINE",
             req' = [req EXCEPT ![p] = [req[p] EXCEPT !.pc = c, !.result = x]]
      PROVE  /\ Registered(p)' /\ req'[p].pc = c /\ req'[p].result = x
             /\ req'[p].kind = req[p].kind /\ req'[p].task = req[p].task
             /\ req'[p].source = req[p].source /\ req'[p].target = req[p].target
  <2>1. /\ req'[p].pc = c /\ req'[p].result = x
        /\ req'[p].kind = req[p].kind /\ req'[p].task = req[p].task
        /\ req'[p].source = req[p].source /\ req'[p].target = req[p].target
        /\ req'[p].attempt = req[p].attempt
    BY <1>3, <1>7 DEF Request
  <2> QED
    BY <1>1, <1>7, <2>1 DEF Established, Registered
<1>8. ASSUME NEW x, Result(p, x)
      PROVE  req' = [req EXCEPT ![p] = [req[p] EXCEPT !.pc = "COMPLETE", !.result = x]]
  BY <1>8 DEF Result
<1>9. ASSUME NEW c, Goto(p, c)
      PROVE  req' = [req EXCEPT ![p] = [req[p] EXCEPT !.pc = c, !.result = req[p].result]]
  <2>1. [req[p] EXCEPT !.pc = c] = [req[p] EXCEPT !.pc = c, !.result = req[p].result]
    BY <1>3 DEF Request
  <2> QED
    BY <1>9, <2>1 DEF Goto
<1>10. CASE FastForward(p)
  <2>1. /\ req[p].pc = "FORWARD" /\ UNCHANGED <<made, anc, attempt>>
        /\ req[p].kind = "INTEGRATE" /\ req[p].result = "FORWARD"
    BY <1>1, <1>10 DEF FastForward, At, Established, InStep
  <2>2. \/ target' = req[p].source /\ Result(p, "SUCCEEDED")
        \/ Result(p, "FAILED") /\ UNCHANGED target
    BY <1>10 DEF FastForward
  <2>3. CASE target' = req[p].source /\ Result(p, "SUCCEEDED")
    <3>1. req[p].source \in anc[req[p].source]
      BY <1>3, <2>1 DEF AncestorsOK
    <3>2. /\ Registered(p)' /\ req'[p].pc = "COMPLETE" /\ req'[p].result = "SUCCEEDED"
          /\ req'[p].kind = "INTEGRATE" /\ req'[p].source = req[p].source
      BY <1>2, <1>7, <1>8, <2>1, <2>3
    <3> QED
      BY <1>4, <2>1, <2>3, <3>1, <3>2 DEF Established, InStep, Shown, Contains
  <2>4. CASE Result(p, "FAILED") /\ UNCHANGED target
    <3>1. /\ Registered(p)' /\ req'[p].pc = "COMPLETE" /\ req'[p].result = "FAILED"
          /\ req'[p].kind = "INTEGRATE" /\ req'[p].source = req[p].source
      BY <1>2, <1>7, <1>8, <2>1, <2>4
    <3> QED
      BY <1>1, <1>4, <2>1, <2>4, <3>1 DEF Established, InStep, Shown, Contains
  <2> QED
    BY <2>2, <2>3, <2>4
<1>11. ASSUME req[p].pc \in {"MERGE", "MERGING", "ABORT", "GIVE_UP"}
       PROVE  req[p].kind = "SYNC" /\ req[p].target # None
  BY <1>1, <1>11 DEF Established, InStep
<1>12. CASE StartMerge(p)
  <2>1. /\ req[p].pc = "MERGE" /\ UNCHANGED <<made, anc, attempt>>
        /\ req[p].kind = "SYNC" /\ req[p].target # None
    BY <1>11, <1>12 DEF StartMerge, At
  <2>2. \/ Goto(p, "ABORT") \/ Goto(p, "MERGING") \/ Result(p, "FAILED")
        \/ /\ Result(p, "SYNCED") /\ Contains(work[req[p].task].head, req[p].target)
           /\ UNCHANGED work
    BY <1>12 DEF StartMerge
  <2>3. ASSUME NEW c \in {"ABORT", "MERGING"}, Goto(p, c)
        PROVE  Established(p)'
    <3>1. c \in Holding
      BY DEF Holding
    <3>2. /\ Registered(p)' /\ req'[p].pc = c
          /\ req'[p].kind = "SYNC" /\ req'[p].target = req[p].target
      BY <1>7, <1>9, <2>1, <2>3, <3>1
    <3> QED
      BY <2>1, <3>2 DEF Established, InStep, Shown
  <2>4. CASE Result(p, "FAILED")
    <3>1. /\ Registered(p)' /\ req'[p].pc = "COMPLETE" /\ req'[p].result = "FAILED"
          /\ req'[p].kind = "SYNC" /\ req'[p].target = req[p].target
      BY <1>2, <1>7, <1>8, <2>1, <2>4
    <3>2. InStep(p)' /\ Shown(p)'
      BY <2>1, <3>1 DEF InStep, Shown
    <3> QED
      BY <1>4, <2>1, <3>1, <3>2 DEF Established
  <2>5. CASE /\ Result(p, "SYNCED") /\ Contains(work[req[p].task].head, req[p].target)
             /\ UNCHANGED work
    <3>1. /\ Registered(p)' /\ req'[p].pc = "COMPLETE" /\ req'[p].result = "SYNCED"
          /\ req'[p].kind = "SYNC" /\ req'[p].target = req[p].target
          /\ req'[p].task = req[p].task
      BY <1>2, <1>7, <1>8, <2>1, <2>5
    <3>2. req'[p].target \in anc'[work'[req'[p].task].head]
      BY <2>1, <2>5, <3>1 DEF Contains
    <3>3. InStep(p)' /\ Shown(p)'
      BY <2>1, <3>1, <3>2 DEF InStep, Shown, Contains
    <3> QED
      BY <1>4, <2>1, <3>1, <3>3 DEF Established
  <2> QED
    BY <1>4, <2>1, <2>2, <2>3, <2>4, <2>5
<1>13. CASE EndMerge(p)
  <2>1. /\ req[p].pc = "MERGING" /\ UNCHANGED attempt
        /\ req[p].kind = "SYNC" /\ req[p].target # None
    BY <1>11, <1>13 DEF EndMerge, At
  <2>2. CASE Goto(p, "ABORT") /\ UNCHANGED <<made, anc>>
    <3>1. "ABORT" \in Holding
      BY DEF Holding
    <3>2. /\ Registered(p)' /\ req'[p].pc = "ABORT"
          /\ req'[p].kind = "SYNC" /\ req'[p].target = req[p].target
      BY <1>7, <1>9, <2>1, <2>2, <3>1
    <3> QED
      BY <1>4, <2>1, <2>2, <3>2 DEF Established, InStep, Shown
  <2>3. CASE WrittenAt(req[p].task, {req[p].target}) /\ Result(p, "SYNCED")
    <3>1. {req[p].target} \in SUBSET (0..made) /\ req[p].target \in 1..made
      BY <1>3, <2>1 DEF None, RepositoryOK, Commits
    <3>2. /\ AncestorsOK' /\ work'[req[p].task].head = made + 1
          /\ anc[req[p].target] \subseteq anc'[made + 1]
      BY <1>3, <2>1, <2>3, <3>1, WrittenAtContains
    <3>3. req[p].target \in anc'[work'[req[p].task].head]
      BY <3>1, <3>2 DEF AncestorsOK
    <3>4. /\ Registered(p)' /\ req'[p].pc = "COMPLETE" /\ req'[p].result = "SYNCED"
          /\ req'[p].kind = "SYNC" /\ req'[p].target = req[p].target
          /\ req'[p].task = req[p].task
      BY <1>2, <1>7, <1>8, <2>1, <2>3
    <3> QED
      BY <2>1, <3>2, <3>3, <3>4 DEF Established, InStep, Shown, Contains
  <2> QED
    BY <1>13, <2>2, <2>3 DEF EndMerge
<1>14. CASE AbortMerge(p)
  <2>1. /\ req[p].pc = "ABORT" /\ UNCHANGED <<made, anc, attempt>>
        /\ req[p].kind = "SYNC" /\ req[p].target # None
    BY <1>11, <1>14 DEF AbortMerge, At
  <2>2. CASE Goto(p, "GIVE_UP")
    <3>1. "GIVE_UP" \in Holding
      BY DEF Holding
    <3>2. /\ Registered(p)' /\ req'[p].pc = "GIVE_UP"
          /\ req'[p].kind = "SYNC" /\ req'[p].target = req[p].target
      BY <1>7, <1>9, <2>1, <2>2, <3>1
    <3> QED
      BY <1>4, <2>1, <3>2 DEF Established, InStep, Shown
  <2>3. CASE /\ work' = [work EXCEPT ![req[p].task].merging = None]
             /\ Result(p, "CONFLICT")
    <3>1. work'[req[p].task].merging = None
      BY <1>3, <2>3 DEF RepositoryOK
    <3>2. /\ Registered(p)' /\ req'[p].pc = "COMPLETE" /\ req'[p].result = "CONFLICT"
          /\ req'[p].kind = "SYNC" /\ req'[p].target = req[p].target
          /\ req'[p].task = req[p].task
      BY <1>2, <1>7, <1>8, <2>1, <2>3
    <3> QED
      BY <1>4, <2>1, <3>1, <3>2 DEF Established, InStep, Shown
  <2> QED
    BY <1>14, <2>2, <2>3 DEF AbortMerge
<1>15. CASE GiveUp(p)
  <2>1. /\ req[p].pc = "GIVE_UP" /\ UNCHANGED <<made, anc>>
        /\ req[p].kind = "SYNC" /\ req[p].target # None
    BY <1>11, <1>15 DEF GiveUp, At, gitVars
  <2>2. /\ req'[p].pc = "QUARANTINE" /\ req'[p].kind = "SYNC" /\ req'[p].target = req[p].target
    BY <1>3, <1>15, <2>1 DEF GiveUp, Goto, Request
  <2> QED
    BY <1>4, <2>1, <2>2 DEF Established, Registered, InStep, Shown
<1> QED
  BY <1>5, <1>6, <1>10, <1>12, <1>13, <1>14, <1>15 DEF UnderLock

-----------------------------------------------------------------------------
(* The theorems about verdicts.                                            *)

\* What the holder knows is not spoilt by anybody's step.
LEMMA NextEstablished ==
    ASSUME VInv, [Next]_vars
    PROVE  AncestorsOK' /\ \A p \in Requests : Established(p)'
<1>0. /\ IInv /\ AncestorsOK /\ HoldersOK /\ Grows
      /\ req \in [Requests -> Request]
      /\ \A p \in Requests : Established(p)
  BY NextRepository DEF VInv, IInv, RequestsOK
<1>1. ASSUME Aside, NEW p \in Requests, req'[p].pc \notin Holding \/ Established(p)',
             \A q \in Requests \ {p} : req'[q] = req[q]
      PROVE  AncestorsOK' /\ \A q \in Requests : Established(q)'
  <2>1. \A q \in Requests \ {p} : Established(q)'
    BY <1>0, <1>1, EstablishedStays
  <2>2. Established(p)'
    BY <1>1, NotHolding
  <2> QED
    BY <1>1, <2>1, <2>2 DEF Aside
<1>2. ASSUME Aside, UNCHANGED req
      PROVE  AncestorsOK' /\ \A q \in Requests : Established(q)'
  BY <1>0, <1>2, EstablishedStays DEF Aside
<1>3. ASSUME NEW p \in Requests, Finish(p)
      PROVE  req'[p].pc \notin Holding /\ \A q \in Requests \ {p} : req'[q] = req[q]
  BY <1>0, <1>3 DEF Finish, NoRequest, Holding
<1>4. ASSUME NEW p \in Requests, BeforeLock(p)
      PROVE  AncestorsOK' /\ \A q \in Requests : Established(q)'
  <2>1. Aside
    BY <1>0, <1>4, AsideBeforeLock
  <2>2. \A q \in Requests \ {p} : req'[q] = req[q]
    BY <1>0, <1>4 DEF BeforeLock, Verify, Verified, Check, Commit, ApplyReview, LockForIntegrate,
                      LockForSync, Goto, Finish
  <2>3. CASE LockForIntegrate(p) \/ LockForSync(p)
    BY <1>0, <1>1, <2>1, <2>2, <2>3, LockEstablishes
  <2>4. CASE Verify(p) \/ Check(p) \/ Commit(p) \/ ApplyReview(p)
    <3>1. \/ Finish(p) \/ \E c \in Before : Goto(p, c)
          \/ \E z : req' = [req EXCEPT ![p].pc = "APPLY", ![p].source = z]
      BY <2>4 DEF Verify, Verified, Check, Commit, ApplyReview, Before
    <3>2. req'[p].pc \notin Holding
      BY <1>0, <3>1 DEF Finish, Goto, NoRequest, Holding, Before, Request
    <3> QED
      BY <1>1, <2>1, <2>2, <3>2
  <2> QED
    BY <1>4, <2>3, <2>4 DEF BeforeLock
<1>5. ASSUME NEW p \in Requests, UnderLock(p)
      PROVE  AncestorsOK' /\ \A q \in Requests : Established(q)'
  <2>1. req[p].pc \in Holding /\ \A q \in Requests \ {p} : req'[q] = req[q]
    BY <1>0, <1>5 DEF UnderLock, Reserve, ReserveFails, FastForward, StartMerge, EndMerge,
       AbortMerge, GiveUp, Quarantine, Settle, SettleSync, At, Holding, Result, Goto, Return,
       Finish
  <2>2. \A q \in Requests \ {p} : req'[q].pc \notin Holding
    BY <1>0, <2>1 DEF HoldersOK
  <2>3. \A q \in Requests \ {p} : Established(q)'
    BY <2>2, NotHolding
  <2>4. Established(p)' /\ AncestorsOK'
    BY <1>0, <1>5, HolderEstablishes
  <2> QED
    BY <2>3, <2>4
<1>6. ASSUME NEW p \in Requests,
             \/ Drop(p)
             \/ \E t \in Tasks, k \in {"INTEGRATE", "SYNC", "ACCEPT", "COMMIT"} : Begin(p, k, t)
      PROVE  AncestorsOK' /\ \A q \in Requests : Established(q)'
  <2>1. Aside
    BY <1>0, <1>6, AsideKept DEF Drop, Begin
  <2>2. CASE Drop(p)
    BY <1>1, <1>3, <2>1, <2>2 DEF Drop, Return
  <2>3. CASE \E t \in Tasks, k \in {"INTEGRATE", "SYNC", "ACCEPT", "COMMIT"} : Begin(p, k, t)
    <3>1. req'[p].pc \notin Holding /\ \A q \in Requests \ {p} : req'[q] = req[q]
      BY <1>0, <2>3 DEF Begin, NoRequest, Holding
    <3> QED
      BY <1>1, <2>1, <3>1
  <2> QED
    BY <1>6, <2>2, <2>3
<1>7. CASE Crash
  <2>1. \A q \in Requests : req'[q].pc \notin Holding
    BY <1>7 DEF Crash, NoRequest, Holding
  <2>2. UNCHANGED <<made, anc>>
    BY <1>7 DEF Crash, gitVars
  <2> QED
    BY <1>0, <2>1, <2>2, NotHolding DEF AncestorsOK
<1>8. CASE Start \/ Recovery
  <2>1. daemon # "UP" /\ UNCHANGED <<made, anc, req>>
    BY <1>8 DEF Start, Recovery, Serve, RecoverIntegrate, RecoverMerge, RecoverSync, Recovers,
                gitVars
  <2>2. \A q \in Requests : req'[q].pc \notin Holding
    BY <1>0, <2>1 DEF HoldersOK, Holding
  <2> QED
    BY <1>0, <2>1, <2>2, NotHolding DEF AncestorsOK
<1>9. CASE Others
  <2>1. UNCHANGED req
    BY <1>9 DEF Others, CommitOnTarget, MoveTask, OpenWorkspace, EditWorktree, CommitInWorktree
  <2> QED
    BY <1>0, <1>2, <1>9, <2>1, AsideOthers
<1>10. CASE UNCHANGED vars
  BY <1>0, <1>2, <1>10, AsideKept DEF vars
<1> QED
  BY <1>4, <1>5, <1>6, <1>7, <1>8, <1>9, <1>10 DEF Next

\* VInv is inductive.
LEMMA NextVInv == VInv /\ [Next]_vars => VInv'
<1> SUFFICES ASSUME VInv, [Next]_vars
             PROVE  VInv'
  OBVIOUS
<1>1. IInv' /\ HoldersOK'
  BY NextIInv, NextHolders DEF VInv
<1>2. AncestorsOK' /\ \A p \in Requests : Established(p)'
  BY NextEstablished
<1> QED
  BY <1>1, <1>2 DEF VInv

\* Nobody holds the lock at first.
LEMMA InitVInv == Init => VInv
<1> SUFFICES ASSUME Init
             PROVE  VInv
  OBVIOUS
<1>1. IInv
  BY InitIInv
<1>2. AncestorsOK
  BY IntegrationAssumption DEF Init, AncestorsOK, Commits
<1>3. \A p \in Requests : req[p] = NoRequest
  BY DEF Init
<1>4. HoldersOK /\ \A p \in Requests : Established(p)
  BY <1>3 DEF HoldersOK, Established, Registered, InStep, Shown, NoRequest, Holding
<1> QED
  BY <1>1, <1>2, <1>4 DEF VInv

\* Whoever holds git.lock is alone, and what it compared when it took the lock
\* is still what the branch and the worktree show when it records the result,
\* although the owner and the agents commit meanwhile.
THEOREM HolderIsRight == Spec => []VInv
BY InitVInv, NextVInv, PTL DEF Spec

\* Attempts are written by the holder of the lock and by the recovery.
LEMMA AttemptWriters ==
    ASSUME IInv, [Next]_vars, NEW a \in Attempts, attempt[a].status = "RUNNING",
           attempt'[a].status # "RUNNING"
    PROVE  \/ \E p \in Requests : /\ GiveUp(p) \/ Settle(p) \/ (SettleSync(p) /\ ~SyncRefused(a))
                                  /\ a = req[p].attempt
           \/ RecoverIntegrate(a) \/ RecoverMerge(a) \/ RecoverSync(a)
<1>0. attempt \in [Attempts -> Attempt]
  BY DEF IInv, RowsOK
<1>1. attempt' # attempt
  OBVIOUS
<1>2. ASSUME NEW p \in Requests, UnderLock(p)
      PROVE  /\ GiveUp(p) \/ Settle(p) \/ (SettleSync(p) /\ ~SyncRefused(a))
             /\ a = req[p].attempt
  <2>1. CASE Reserve(p)
    BY <1>0, <2>1 DEF Reserve
  <2>2. CASE GiveUp(p) \/ Settle(p)
    BY <1>0, <2>2 DEF GiveUp, Settle, Complete
  <2>3. CASE SettleSync(p)
    <3>1. ~SyncRefused(req[p].attempt)
      BY <1>1, <2>3 DEF SettleSync
    <3>2. PICK h : attempt' = [attempt EXCEPT ![req[p].attempt].status = req[p].result,
                                              ![req[p].attempt].after = h]
      BY <2>3, <3>1 DEF SettleSync, CompleteSync
    <3>3. a = req[p].attempt
      BY <1>0, <3>2
    <3> QED
      BY <2>3, <3>1, <3>3
  <2> QED
    BY <1>1, <1>2, <2>1, <2>2, <2>3 DEF UnderLock, ReserveFails, FastForward, StartMerge,
       EndMerge, AbortMerge, Quarantine
<1>3. ASSUME NEW b \in Attempts, RecoverIntegrate(b) \/ RecoverMerge(b) \/ RecoverSync(b)
      PROVE  a = b
  <2>1. CASE RecoverIntegrate(b) \/ RecoverMerge(b)
    BY <1>0, <1>1, <2>1 DEF RecoverIntegrate, RecoverMerge, Complete
  <2>2. CASE RecoverSync(b)
    <3>1. PICK s, h : \/ attempt' = [attempt EXCEPT ![b].status = s]
                      \/ attempt' = [attempt EXCEPT ![b].status = s, ![b].after = h]
      BY <1>1, <2>2 DEF RecoverSync, Complete, CompleteSync
    <3> QED
      BY <1>0, <3>1
  <2> QED
    BY <1>3, <2>1, <2>2
<1>4. ASSUME \/ \E p \in Requests : \/ BeforeLock(p) \/ Drop(p)
                                    \/ \E t \in Tasks, k \in {"INTEGRATE", "SYNC", "ACCEPT",
                                                              "COMMIT"} : Begin(p, k, t)
             \/ Crash \/ Start \/ Serve \/ Others \/ UNCHANGED vars
      PROVE  FALSE
  BY <1>1, <1>4 DEF BeforeLock, Verify, Check, Commit, ApplyReview, LockForIntegrate,
     LockForSync, Drop, Begin, Crash, Start, Serve, Others, CommitOnTarget, MoveTask,
     OpenWorkspace, EditWorktree, CommitInWorktree, vars
<1> QED
  BY <1>2, <1>3, <1>4 DEF Next, Recovery

\* What the holder of the lock knows of the attempt it is about to end.
LEMMA HolderKnows ==
    ASSUME VInv, NEW p \in Requests, GiveUp(p) \/ Settle(p) \/ SettleSync(p)
    PROVE  /\ req[p].pc \in {"GIVE_UP", "COMPLETE"} /\ req[p].pc \in Holding
           /\ req[p].attempt \in Attempts /\ attempt[req[p].attempt].status = "RUNNING"
           /\ attempt[req[p].attempt].op = req[p].kind
           /\ attempt[req[p].attempt].task = req[p].task /\ req[p].task \in Tasks
           /\ attempt[req[p].attempt].source = req[p].source
           /\ attempt[req[p].attempt].before = req[p].target
           /\ attempt \in [Attempts -> Attempt]
<1>1. req[p].pc \in {"GIVE_UP", "COMPLETE"}
  BY DEF GiveUp, Settle, SettleSync, At
<1>2. req[p].pc \in Holding \ {"RESERVE", "QUARANTINE"} /\ req[p].pc # "IDLE"
  BY <1>1 DEF Holding
<1>3. IInv /\ Registered(p)
  BY DEF VInv, Established
<1>4. req[p].task \in Tasks
  BY <1>2, <1>3, ServedTask
<1> QED
  BY <1>1, <1>2, <1>3, <1>4 DEF Registered, IInv, ReservedOK, RowsOK

\* VerdictIsTrue, for a step.
LEMMA VerdictStep ==
    ASSUME VInv, [Next]_vars, NEW a \in Attempts, attempt[a].status = "RUNNING",
           attempt'[a].status # "RUNNING", attempt[a].op = "INTEGRATE"
    PROVE  /\ attempt'[a].status = "SUCCEEDED" <=> Contains(target, attempt[a].source)
           /\ attempt'[a].status = "NEEDS_SYNC" => ~Contains(attempt[a].source, target)
<1>0. attempt \in [Attempts -> Attempt]
  BY DEF VInv, IInv, RowsOK
<1>1. ASSUME NEW p \in Requests, a = req[p].attempt,
             GiveUp(p) \/ Settle(p) \/ (SettleSync(p) /\ ~SyncRefused(a))
      PROVE  /\ attempt'[a].status = "SUCCEEDED" <=> Contains(target, attempt[a].source)
             /\ attempt'[a].status = "NEEDS_SYNC" => ~Contains(attempt[a].source, target)
  <2>1. /\ req[p].pc \in {"GIVE_UP", "COMPLETE"} /\ req[p].pc \in Holding
        /\ req[p].kind = "INTEGRATE" /\ req[p].source = attempt[a].source
    BY <1>1, HolderKnows
  <2>2. InStep(p) /\ Shown(p)
    BY DEF VInv, Established
  <2>3. req[p].pc = "COMPLETE" /\ req[p].result \in {"SUCCEEDED", "NEEDS_SYNC", "FAILED"}
    BY <2>1, <2>2 DEF InStep
  <2>4. attempt'[a].status = req[p].result
    <3>1. req[p].result \notin {"SYNCED", "CONFLICT"}
      BY <2>3
    <3>2. Settle(p)
      BY <1>1, <2>3, <3>1 DEF GiveUp, At, SettleSync
    <3> QED
      BY <1>0, <1>1, <3>2 DEF Settle, Complete, Attempt
  <2> QED
    BY <2>1, <2>2, <2>3, <2>4 DEF Shown
<1>2. CASE RecoverIntegrate(a)
  BY <1>0, <1>2 DEF RecoverIntegrate, Complete
<1>3. ~RecoverMerge(a) /\ ~RecoverSync(a)
  BY DEF RecoverMerge, RecoverSync, Recovers
<1> QED
  BY <1>1, <1>2, <1>3, AttemptWriters DEF VInv

\* LandsReserved, for a step: only the holder moves the branch to an old commit.
LEMMA LandingStep ==
    ASSUME VInv, [Next]_vars, target' # target, target' <= made
    PROVE  \E a \in Unfinished : /\ attempt[a].op = "INTEGRATE"
                                 /\ attempt[a].source = target'
                                 /\ a \in Unfinished'
<1>0. IInv /\ made \in Nat
  BY DEF VInv, IInv, RepositoryOK, Commits
<1>1. ~CommitOnTarget
  BY <1>0 DEF CommitOnTarget
<1>2. PICK p \in Requests : FastForward(p)
  BY <1>1 DEF Next, BeforeLock, Verify, Check, Commit, ApplyReview, LockForIntegrate, LockForSync,
     UnderLock, Reserve, ReserveFails, StartMerge, EndMerge, AbortMerge, GiveUp, Quarantine,
     Settle, SettleSync, Drop, Begin, Crash, Start, Recovery, Serve, RecoverIntegrate,
     RecoverMerge, RecoverSync, Others, MoveTask, OpenWorkspace, EditWorktree, CommitInWorktree,
     gitVars, vars
<1>3. req[p].pc = "FORWARD" /\ req[p].pc \in Holding \ {"RESERVE", "QUARANTINE"}
  BY <1>2 DEF FastForward, At, Holding
<1>4. /\ req[p].attempt \in Attempts /\ attempt[req[p].attempt].status = "RUNNING"
      /\ attempt[req[p].attempt].op = req[p].kind
      /\ attempt[req[p].attempt].source = req[p].source
  BY <1>0, <1>3 DEF VInv, Established, Registered, IInv, ReservedOK
<1>5. req[p].kind = "INTEGRATE"
  BY <1>3 DEF VInv, Established, InStep
<1>6. target' = req[p].source /\ UNCHANGED attempt
  BY <1>2 DEF FastForward
<1> QED
  BY <1>4, <1>5, <1>6 DEF Unfinished

\* SyncIsRevised, for a step.
LEMMA SyncStep ==
    ASSUME VInv, [Next]_vars, NEW a \in Attempts, attempt[a].status = "RUNNING",
           attempt'[a].status \in {"SYNCED", "CONFLICT"}
    PROVE  LET t == attempt[a].task IN
           /\ status[t] = "ACCEPTED" /\ status'[t] = "CHANGES_REQUESTED"
           /\ attempt'[a].status = "SYNCED" => Contains(attempt'[a].after, attempt[a].before)
           /\ attempt'[a].status = "CONFLICT" => work[t].merging = None
<1> DEFINE t == attempt[a].task
<1>0. /\ attempt \in [Attempts -> Attempt] /\ status \in [Tasks -> TaskStatus]
      /\ t \in Tasks
  BY DEF VInv, IInv, RowsOK
<1>1. ASSUME NEW s, NEW h, CompleteSync(a, s, h)
      PROVE  /\ status[t] = "ACCEPTED" /\ status'[t] = "CHANGES_REQUESTED"
             /\ attempt'[a].status = s /\ attempt'[a].after = h
  BY <1>0, <1>1 DEF CompleteSync, Transition, Sources, Target, Attempt
<1>2. ASSUME NEW p \in Requests, a = req[p].attempt, SettleSync(p), ~SyncRefused(a)
      PROVE  /\ status[t] = "ACCEPTED" /\ status'[t] = "CHANGES_REQUESTED"
             /\ attempt'[a].status = "SYNCED" => Contains(attempt'[a].after, attempt[a].before)
             /\ attempt'[a].status = "CONFLICT" => work[t].merging = None
  <2>1. req[p].task = t /\ req[p].target = attempt[a].before
    BY <1>2, HolderKnows
  <2>2. req[p].pc = "COMPLETE" /\ req[p].result \in {"SYNCED", "CONFLICT"} /\ Shown(p)
    BY <1>2 DEF SettleSync, At, VInv, Established
  <2>3. PICK h : CompleteSync(a, req[p].result, h) /\ (req[p].result = "SYNCED" => h = work[t].head)
    BY <1>2, <2>1 DEF SettleSync
  <2>4. /\ status[t] = "ACCEPTED" /\ status'[t] = "CHANGES_REQUESTED"
        /\ attempt'[a].status = req[p].result /\ attempt'[a].after = h
    BY <1>1, <2>3
  <2> QED
    BY <2>1, <2>2, <2>3, <2>4 DEF Shown
<1>3. CASE RecoverSync(a)
  <2>1. \/ Complete(a, "FAILED") \/ UNCHANGED attempt
        \/ CompleteSync(a, "CONFLICT", attempt[a].source)
        \/ CompleteSync(a, "SYNCED", work[t].head) /\ Contains(work[t].head, attempt[a].before)
    BY <1>3 DEF RecoverSync
  <2>2. ~Complete(a, "FAILED") /\ ~UNCHANGED attempt
    BY <1>0 DEF Complete, Attempt
  <2>3. work[t].merging = None
    BY <1>3 DEF RecoverSync
  <2> QED
    BY <1>1, <2>1, <2>2, <2>3
<1>4. ASSUME NEW p \in Requests, a = req[p].attempt
      PROVE  ~GiveUp(p) /\ ~Settle(p)
  <2>1. CASE GiveUp(p)
    BY <1>0, <1>4, <2>1 DEF GiveUp, Complete, Attempt
  <2>2. CASE Settle(p)
    BY <1>0, <1>4, <2>2 DEF Settle, Complete, Attempt
  <2> QED
    BY <2>1, <2>2
<1>5. ~RecoverIntegrate(a)
  BY <1>0 DEF RecoverIntegrate, Complete, Attempt
<1>6. ~RecoverMerge(a)
  BY <1>0 DEF RecoverMerge, Complete, Attempt
<1> QED
  BY <1>2, <1>3, <1>4, <1>5, <1>6, AttemptWriters DEF VInv

\* An integration is SUCCEEDED exactly if the target branch contains the accepted
\* commit, by whichever path it ends (Complete, and recovery after a crash).
THEOREM VerdictsAreTrue == Spec => VerdictIsTrue
<1>1. VInv /\ [Next]_vars =>
        [\A a \in Attempts :
          (attempt[a].status = "RUNNING" /\ attempt'[a].status # "RUNNING"
           /\ attempt[a].op = "INTEGRATE") =>
              /\ attempt'[a].status = "SUCCEEDED" <=> Contains(target, attempt[a].source)
              /\ attempt'[a].status = "NEEDS_SYNC" => ~Contains(attempt[a].source, target)]_vars
  BY VerdictStep
<1> QED
  BY <1>1, HolderIsRight, PTL DEF Spec, VerdictIsTrue

\* The program moves the target branch only under an attempt it recorded before,
\* so that a crash after the move is found (IntegrateTask, Reserve).
THEOREM LandingsAreReserved == Spec => LandsReserved
<1>1. VInv /\ [Next]_vars =>
        [(target' # target /\ target' <= made) =>
          \E a \in Unfinished : /\ attempt[a].op = "INTEGRATE"
                                /\ attempt[a].source = target'
                                /\ a \in Unfinished']_vars
  BY LandingStep
<1> QED
  BY <1>1, HolderIsRight, PTL DEF Spec, LandsReserved

\* What a sync merged is in the workspace, and its task leaves ACCEPTED in the
\* step that records the sync (CompleteSync).
THEOREM SyncsAreRevised == Spec => SyncIsRevised
<1>1. VInv /\ [Next]_vars =>
        [\A a \in Attempts :
          (attempt[a].status = "RUNNING" /\ attempt'[a].status \in {"SYNCED", "CONFLICT"}) =>
              LET t == attempt[a].task IN
              /\ status[t] = "ACCEPTED" /\ status'[t] = "CHANGES_REQUESTED"
              /\ attempt'[a].status = "SYNCED" => Contains(attempt'[a].after, attempt[a].before)
              /\ attempt'[a].status = "CONFLICT" => work[t].merging = None]_vars
  BY SyncStep
<1> QED
  BY <1>1, HolderIsRight, PTL DEF Spec, SyncIsRevised

=============================================================================
