-------------------------- MODULE Workspaces_proofs --------------------------
(***************************************************************************)
(* Proofs about Workspaces, for every set of tasks, branches and requests  *)
(* and every number of commits and versions.                               *)
(*                                                                         *)
(* The inductive invariant says who holds git.lock, what the request that  *)
(* holds it has established about the row and the worktree of its task,    *)
(* and that no row is based on a commit that does not exist yet: what was  *)
(* read a step ago still holds because only people, who are remembered in  *)
(* `touched`, may have been there since.                                   *)
(***************************************************************************)
EXTENDS Workspaces, TLAPS

Working(q) == req[q].at \notin {"IDLE", "LOCK"}

\* Nothing is based on a commit still to be made.
NothingAhead ==
    /\ \A b \in Branches : head[b] <= made
    /\ \A t \in Tasks : ws[t].base <= made

LinkedIsReserved == \A t \in Tasks : task[t].linked => ws[t].state # None

\* Without other hands there is no worktree without its branch.
PathHasBranch == \A t \in Tasks \ touched : tree[t].path # "ABSENT" => tree[t].branch

\* A request: it works exactly while it holds the lock; it creates only what is
\* reserved and was never ready; and it marks only what it has identified.
Fits(q) ==
    LET t == req[q].task
    IN  /\ Working(q) <=> lock = q
        /\ req[q].at \in {"PROVISION", "ADD_BRANCH", "ADD_TREE", "CHECKOUT", "FAIL"} =>
              ws[t].state # None /\ ~IsReady(t)
        /\ req[q].at \in {"ADD_TREE", "CHECKOUT"} => t \in touched \/ tree[t].branch
        /\ req[q].at \in {"READ", "MARK"} => t \in touched \/ Identity(t)

IInv ==
    /\ TypeOK /\ NothingAhead /\ TaskFollowsWorkspace /\ LinkedIsReserved
    /\ OursIsWhatWasReserved /\ PathHasBranch
    /\ \A q \in Requests : Fits(q)
-----------------------------------------------------------------------------
(* The records that steps make.                                            *)

\* A request that is not idle is a record of all that was asked and read.
LEMMA RequestIsRecord ==
    ASSUME TypeOK, NEW q \in Requests, req[q].at # "IDLE"
    PROVE  req[q] \in RequestRecord /\ req[q].task \in Tasks
BY DEF TypeOK, Idle, RequestRecord

\* A request that goes on from one step to the next.
LEMMA GoesFits ==
    ASSUME TypeOK, NEW q \in Requests, req[q].at # "IDLE",
           NEW at \in {"LOCK", "RESERVE", "PROVISION", "ADD_BRANCH", "ADD_TREE", "CHECKOUT", "FAIL",
                       "VERIFY", "QUARANTINE", "READ", "MARK", "UPDATE"},
           req' = [req EXCEPT ![q].at = at]
    PROVE  /\ req' \in [Requests -> RequestRecord \cup {Idle}]
           /\ req'[q].at = at /\ req'[q].task = req[q].task
<1>1. [req[q] EXCEPT !.at = at] \in RequestRecord
  BY RequestIsRecord DEF RequestRecord
<1>2. req[q] \in RequestRecord
  BY RequestIsRecord
<1>3. req' = [req EXCEPT ![q] = [req[q] EXCEPT !.at = at]]
  OBVIOUS
<1>4. req'[q] = [req[q] EXCEPT !.at = at]
  BY <1>3 DEF TypeOK
<1>5. req'[q].at = at /\ req'[q].task = req[q].task
  BY <1>2, <1>4 DEF RequestRecord
<1> QED
  BY <1>1, <1>3, <1>5 DEF TypeOK

LEMMA IdleFits == Idle.at = "IDLE"
BY DEF Idle

-----------------------------------------------------------------------------
(* Git, in other hands.                                                    *)

\* Whatever git does to the worktree of t between the steps of a request, its
\* branch starts where it started or later, and what a request has found out
\* about it stays true, unless it is remembered as touched.
LEMMA GitKeeps ==
    ASSUME IInv, NEW t \in Tasks, TypeOK', made <= made', touched \subseteq touched',
           \A a \in Tasks \ {t} : tree'[a] = tree[a],
           UNCHANGED <<head, task, ws, req, lock>>,
           t \notin touched' =>
              /\ tree'[t].branch = tree[t].branch
              /\ tree[t].branch /\ tree[t].head >= ws[t].base => tree'[t].head >= ws[t].base
              /\ tree[t].path \in {"EMPTY", "FULL"} => tree'[t].path \in {"EMPTY", "FULL"}
              /\ tree'[t].path # "ABSENT" => tree[t].path # "ABSENT" \/ tree[t].branch
    PROVE  IInv'
<1>1. NothingAhead'
  BY WorkspacesAssumption DEF IInv, TypeOK, NothingAhead, Commits, WsRecord
<1>2. TaskFollowsWorkspace' /\ LinkedIsReserved'
  BY DEF IInv, TaskFollowsWorkspace, LinkedIsReserved, IsReady
<1>3. OursIsWhatWasReserved' /\ PathHasBranch'
  <2> SUFFICES ASSUME NEW a \in Tasks \ touched'
               PROVE  /\ tree'[a].branch => ws[a].state # None /\ tree'[a].head >= ws[a].base
                      /\ IsReady(a) => tree'[a].branch /\ tree'[a].path \in {"EMPTY", "FULL"}
                      /\ tree'[a].path # "ABSENT" => tree'[a].branch
    BY DEF OursIsWhatWasReserved, PathHasBranch, IsReady
  <2>1. a \in Tasks \ touched
    OBVIOUS
  <2>2. /\ tree[a].branch => ws[a].state # None /\ tree[a].head >= ws[a].base
        /\ IsReady(a) => tree[a].branch /\ tree[a].path \in {"EMPTY", "FULL"}
        /\ tree[a].path # "ABSENT" => tree[a].branch
    BY <2>1 DEF IInv, OursIsWhatWasReserved, PathHasBranch
  <2>3. CASE a = t
    BY <2>2, <2>3
  <2>4. CASE a # t
    BY <2>2, <2>4
  <2> QED
    BY <2>3, <2>4
<1>4. ASSUME NEW q \in Requests
      PROVE  Fits(q)'
  <2>1. Fits(q)
    BY DEF IInv
  <2>2. CASE req[q].task = t
    BY <2>1, <2>2 DEF Fits, Working, Identity, IsReady
  <2>3. CASE req[q].task # t /\ req[q].at # "IDLE"
    <3>1. tree'[req[q].task] = tree[req[q].task]
      BY <2>3, RequestIsRecord DEF IInv
    <3> QED
      BY <2>1, <3>1 DEF Fits, Working, Identity, IsReady
  <2>4. CASE req[q].at = "IDLE"
    BY <2>1, <2>4 DEF Fits, Working
  <2> QED
    BY <2>2, <2>3, <2>4
<1> QED
  BY <1>1, <1>2, <1>3, <1>4 DEF IInv

\* CommitOnBranch: the only step of other hands that moves a local branch.
LEMMA CommitKeeps ==
    ASSUME IInv, NEW b \in Branches, CommitOnBranch(b)
    PROVE  IInv'
<1> USE WorkspacesAssumption DEF CommitOnBranch
<1>1. TypeOK'
  BY DEF IInv, TypeOK, Commits
<1>2. NothingAhead'
  BY DEF IInv, TypeOK, Commits, NothingAhead, WsRecord
<1> QED
  BY <1>1, <1>2 DEF IInv, TaskFollowsWorkspace, LinkedIsReserved, OursIsWhatWasReserved,
                    PathHasBranch, Fits, Working, Identity, IsReady

\* The worktree of a task after one of its fields, or two, were changed.
LEMMA TreeIsChanged ==
    ASSUME TypeOK, NEW t \in Tasks, NEW x \in TreeRecord, tree' = [tree EXCEPT ![t] = x]
    PROVE  /\ tree' \in [Tasks -> TreeRecord] /\ tree'[t] = x
           /\ \A a \in Tasks \ {t} : tree'[a] = tree[a]
BY DEF TypeOK

LEMMA EditKeeps ==
    ASSUME IInv, NEW t \in Tasks, Edit(t)
    PROVE  IInv'
<1> DEFINE edited    == [tree[t] EXCEPT !.dirty = TRUE]
           committed == [tree[t] EXCEPT !.head = made + 1, !.dirty = FALSE]
<1>1. /\ tree[t] \in TreeRecord /\ made \in Nat /\ tree[t].path = "FULL"
      /\ UNCHANGED <<head, touched, orphan, task, events, ws, req, lock>>
  BY DEF IInv, TypeOK, Edit, Commits
<1>2. CASE made' = made /\ tree' = [tree EXCEPT ![t] = edited]
  <2>1. edited \in TreeRecord
    BY <1>1 DEF TreeRecord
  <2>2. /\ edited.branch = tree[t].branch /\ edited.head = tree[t].head
        /\ edited.path = tree[t].path
    BY <1>1 DEF TreeRecord
  <2> HIDE DEF edited
  <2>3. TypeOK' /\ tree'[t] = edited /\ \A a \in Tasks \ {t} : tree'[a] = tree[a]
    BY <1>1, <1>2, <2>1, TreeIsChanged DEF IInv, TypeOK
  <2> QED
    BY <1>1, <1>2, <2>2, <2>3, GitKeeps
<1>3. CASE /\ made < MaxCommits /\ made' = made + 1
           /\ tree' = [tree EXCEPT ![t] = committed]
  <2>1. made + 1 \in Commits
    BY <1>1, <1>3, WorkspacesAssumption DEF Commits
  <2>2. committed \in TreeRecord
    BY <1>1, <2>1 DEF TreeRecord
  <2>3. /\ committed.branch = tree[t].branch /\ committed.head = made + 1
        /\ committed.path = tree[t].path
    BY <1>1 DEF TreeRecord
  <2> HIDE DEF committed
  <2>4. TypeOK' /\ tree'[t] = committed /\ \A a \in Tasks \ {t} : tree'[a] = tree[a]
    BY <1>1, <1>3, <2>1, <2>2, TreeIsChanged DEF IInv, TypeOK
  <2>5. made + 1 >= ws[t].base
    BY <1>1 DEF IInv, TypeOK, NothingAhead, WsRecord, Commits
  <2> QED
    BY <1>1, <1>3, <2>3, <2>4, <2>5, GitKeeps
<1> QED
  BY <1>2, <1>3 DEF Edit

\* Tamper: whatever it does, it is remembered.
LEMMA TamperKeeps ==
    ASSUME IInv, NEW t \in Tasks, Tamper(t)
    PROVE  IInv'
<1>1. /\ tree[t] \in TreeRecord /\ made \in Nat /\ touched' = touched \cup {t}
      /\ UNCHANGED <<head, made, orphan, task, events, ws, req, lock>>
  BY DEF IInv, TypeOK, Tamper, Commits
<1>2. \A p \in {"ABSENT", "FOREIGN", "FULL"} :
         [tree[t] EXCEPT !.path = p, !.dirty = FALSE] \in TreeRecord
  BY <1>1 DEF TreeRecord
<1>3. NoTree \in TreeRecord
  BY WorkspacesAssumption DEF NoTree, TreeRecord, Commits
<1>4. PICK x \in TreeRecord : tree' = [tree EXCEPT ![t] = x]
  BY <1>2, <1>3 DEF Tamper
<1>5. TypeOK' /\ \A a \in Tasks \ {t} : tree'[a] = tree[a]
  BY <1>1, <1>4, TreeIsChanged DEF IInv, TypeOK
<1> QED
  BY <1>1, <1>5, GitKeeps

LEMMA GitGoesOnKeeps ==
    ASSUME IInv, NEW t \in Tasks, GitGoesOn(t)
    PROVE  IInv'
<1> DEFINE added   == [tree[t] EXCEPT !.path = "EMPTY", !.dirty = TRUE]
           checked == [tree[t] EXCEPT !.path = "FULL", !.dirty = FALSE]
<1>1. /\ tree[t] \in TreeRecord /\ made \in Nat /\ orphan' \subseteq Tasks
      /\ UNCHANGED <<head, made, touched, task, events, ws, req, lock>>
  BY DEF IInv, TypeOK, GitGoesOn, Commits
<1>2. CASE UNCHANGED tree
  <2>1. TypeOK'
    BY <1>1, <1>2 DEF IInv, TypeOK
  <2> QED
    BY <1>1, <1>2, <2>1, GitKeeps
<1>3. CASE tree[t].branch /\ tree' = [tree EXCEPT ![t] = added]
  <2>1. /\ added \in TreeRecord /\ added.branch = tree[t].branch /\ added.head = tree[t].head
        /\ added.path = "EMPTY"
    BY <1>1 DEF TreeRecord
  <2> HIDE DEF added
  <2>2. TypeOK' /\ tree'[t] = added /\ \A a \in Tasks \ {t} : tree'[a] = tree[a]
    BY <1>1, <1>3, <2>1, TreeIsChanged DEF IInv, TypeOK
  <2>3. /\ tree'[t].branch = tree[t].branch
        /\ tree[t].branch /\ tree[t].head >= ws[t].base => tree'[t].head >= ws[t].base
        /\ tree[t].path \in {"EMPTY", "FULL"} => tree'[t].path \in {"EMPTY", "FULL"}
        /\ tree'[t].path # "ABSENT" => tree[t].path # "ABSENT" \/ tree[t].branch
    BY <1>3, <2>1, <2>2
  <2>4. made <= made' /\ touched \subseteq touched'
    BY <1>1
  <2> QED
    BY <1>1, <2>2, <2>3, <2>4, GitKeeps
<1>4. CASE tree[t].path = "EMPTY" /\ tree' = [tree EXCEPT ![t] = checked]
  <2>1. /\ checked \in TreeRecord /\ checked.branch = tree[t].branch
        /\ checked.head = tree[t].head /\ checked.path = "FULL"
    BY <1>1 DEF TreeRecord
  <2> HIDE DEF checked
  <2>2. TypeOK' /\ tree'[t] = checked /\ \A a \in Tasks \ {t} : tree'[a] = tree[a]
    BY <1>1, <1>4, <2>1, TreeIsChanged DEF IInv, TypeOK
  <2> QED
    BY <1>1, <1>4, <2>1, <2>2, GitKeeps
<1> QED
  BY <1>2, <1>3, <1>4 DEF GitGoesOn

-----------------------------------------------------------------------------
(* The requests.                                                           *)

\* A step of request q alone: it leaves the others and the commits alone, and
\* touches rows and worktrees only under the lock.
Alone(q) ==
    /\ \A p \in Requests \ {q} : req'[p] = req[p]
    /\ UNCHANGED <<head, made, touched>>
    /\ \/ UNCHANGED <<lock, ws, tree>>
       \/ lock = NoOne /\ lock' = q /\ UNCHANGED <<ws, tree>>
       \/ lock = q /\ lock' \in {q, NoOne}

\* The other requests fit as they did: while q holds the lock they do not work.
LEMMA OthersFit ==
    ASSUME IInv, NEW q \in Requests, Alone(q), NEW p \in Requests \ {q}
    PROVE  Fits(p)'
<1>1. Fits(p)
  BY DEF IInv
<1>2. Working(p)' <=> lock' = p
  BY <1>1, WorkspacesAssumption DEF Alone, Fits, Working
<1>3. CASE UNCHANGED <<ws, tree>>
  BY <1>1, <1>2, <1>3 DEF Alone, Fits, Working, IsReady, Identity
<1>4. CASE lock = q
  BY <1>1, <1>2, <1>4 DEF Alone, Fits, Working
<1> QED
  BY <1>3, <1>4 DEF Alone

\* What every step of a request comes down to: the row, the worktree and the task
\* that it works on.
LEMMA StepKeeps ==
    ASSUME IInv, NEW q \in Requests, NEW t \in Tasks, TypeOK', Alone(q), Fits(q)',
           \A a \in Tasks \ {t} : tree'[a] = tree[a] /\ ws'[a] = ws[a] /\ task'[a] = task[a],
           ws'[t].base <= made,
           /\ ws'[t].state \in {"READY", "DIRTY"} => task'[t].linked
           /\ task'[t].linked => /\ task'[t].target = ws'[t].target
                                 /\ task'[t].base = ws'[t].base
                                 /\ ws'[t].state # None
           /\ t \notin touched =>
                /\ tree'[t].branch => ws'[t].state # None /\ tree'[t].head >= ws'[t].base
                /\ ws'[t].state \in {"READY", "DIRTY"} =>
                      tree'[t].branch /\ tree'[t].path \in {"EMPTY", "FULL"}
                /\ tree'[t].path # "ABSENT" => tree'[t].branch
    PROVE  IInv'
<1>1. NothingAhead'
  BY DEF IInv, NothingAhead, Alone
<1>2. TaskFollowsWorkspace' /\ LinkedIsReserved'
  BY DEF IInv, TaskFollowsWorkspace, LinkedIsReserved, IsReady
<1>3. OursIsWhatWasReserved' /\ PathHasBranch'
  <2>1. touched' = touched
    BY DEF Alone
  <2> SUFFICES ASSUME NEW a \in Tasks \ touched
               PROVE  /\ tree'[a].branch => ws'[a].state # None /\ tree'[a].head >= ws'[a].base
                      /\ ws'[a].state \in {"READY", "DIRTY"} =>
                            tree'[a].branch /\ tree'[a].path \in {"EMPTY", "FULL"}
                      /\ tree'[a].path # "ABSENT" => tree'[a].branch
    BY <2>1 DEF OursIsWhatWasReserved, PathHasBranch, IsReady
  <2>2. CASE a = t
    BY <2>2
  <2>3. CASE a # t
    BY <2>3 DEF IInv, OursIsWhatWasReserved, PathHasBranch, IsReady
  <2> QED
    BY <2>2, <2>3
<1> QED
  BY <1>1, <1>2, <1>3, OthersFit DEF IInv

\* Steps that only move the request on, or end it.
LEMMA NothingChanges ==
    ASSUME IInv, NEW q \in Requests, TypeOK', Alone(q), Fits(q)', UNCHANGED <<tree, ws, task>>
    PROVE  IInv'
BY OthersFit DEF IInv, NothingAhead, Alone, TaskFollowsWorkspace, LinkedIsReserved,
                 OursIsWhatWasReserved, PathHasBranch, IsReady

\* A request that returns, or is given up, leaves the lock.
LEMMA ReturnFits ==
    ASSUME IInv, NEW q \in Requests, Returns(q)
    PROVE  /\ req' \in [Requests -> RequestRecord \cup {Idle}]
           /\ lock' \in Requests \cup {NoOne}
           /\ \A p \in Requests \ {q} : req'[p] = req[p]
           /\ lock = q => lock' = NoOne
           /\ lock # q => lock' = lock
           /\ Fits(q)'
<1>1. req'[q].at = "IDLE" /\ lock' # q
  BY IdleFits, WorkspacesAssumption DEF IInv, TypeOK, Returns
<1>2. Fits(q)'
  BY <1>1 DEF Fits, Working
<1> QED
  BY <1>2 DEF IInv, TypeOK, Returns

\* Ask and TaskWorkspace: a request waits for the lock.
LEMMA AskKeeps ==
    ASSUME IInv, NEW q \in Requests, Ask(q) \/ TaskWorkspace(q)
    PROVE  IInv'
<1>1. req[q].at = "IDLE" /\ UNCHANGED <<head, made, tree, touched, orphan, task, events, ws, lock>>
  BY DEF Ask, TaskWorkspace, gitVars
<1>2. PICK x \in RequestRecord : x.at = "LOCK" /\ req' = [req EXCEPT ![q] = x]
  <2>1. CASE Ask(q)
    <3>1. PICK t \in Tasks, k \in {"CREATE", "UPDATE"}, b \in Branches :
            req' = [req EXCEPT ![q] = [at |-> "LOCK", kind |-> k, task |-> t, target |-> b,
                                       version |-> task[t].version, head |-> 0]]
      BY <2>1 DEF Ask
    <3>2. /\ task[t].version \in 0..MaxVersion /\ 0 \in Commits
          /\ k \in {"CREATE", "VERIFY", "UPDATE"} /\ b \in Branches \cup {None}
      BY WorkspacesAssumption DEF Commits, IInv, TypeOK, TaskRecord
    <3> QED
      BY <3>1, <3>2 DEF RequestRecord
  <2>2. CASE TaskWorkspace(q)
    <3>1. PICK t \in Tasks :
            req' = [req EXCEPT ![q] = [at |-> "LOCK", kind |-> "VERIFY", task |-> t,
                                       target |-> None, version |-> 0, head |-> 0]]
      BY <2>2 DEF TaskWorkspace
    <3>2. 0 \in 0..MaxVersion /\ 0 \in Commits
      BY WorkspacesAssumption DEF Commits
    <3> QED
      BY <3>1, <3>2 DEF RequestRecord
  <2> QED
    BY <2>1, <2>2
<1>3. TypeOK' /\ req'[q].at = "LOCK" /\ \A p \in Requests \ {q} : req'[p] = req[p]
  BY <1>1, <1>2 DEF IInv, TypeOK
<1>4. Fits(q) /\ Alone(q)
  BY <1>1, <1>3 DEF IInv, Alone
<1>5. Fits(q)'
  BY <1>1, <1>3, <1>4 DEF Fits, Working
<1> QED
  BY <1>1, <1>3, <1>4, <1>5, NothingChanges

LEMMA AcquireKeeps ==
    ASSUME IInv, NEW q \in Requests, Acquire(q)
    PROVE  IInv'
<1>1. /\ req[q].at = "LOCK" /\ lock = NoOne /\ lock' = q
      /\ UNCHANGED <<head, made, tree, touched, orphan, task, events, ws>>
  BY DEF Acquire, gitVars
<1>2. PICK at \in {"RESERVE", "VERIFY", "UPDATE"} : req' = [req EXCEPT ![q].at = at]
  <2>1. req[q].kind \in {"CREATE", "VERIFY", "UPDATE"}
    BY <1>1, RequestIsRecord DEF IInv, RequestRecord
  <2>2. First(req[q].kind) \in {"RESERVE", "VERIFY", "UPDATE"}
    BY <2>1 DEF First
  <2> QED
    BY <2>2 DEF Acquire
<1>3. /\ req' \in [Requests -> RequestRecord \cup {Idle}]
      /\ req'[q].at \in {"RESERVE", "VERIFY", "UPDATE"}
  BY <1>1, <1>2, GoesFits DEF IInv
<1>4. TypeOK' /\ Alone(q)
  BY <1>1, <1>2, <1>3 DEF IInv, TypeOK, Alone
<1>5. Fits(q)'
  BY <1>1, <1>3 DEF Fits, Working
<1> QED
  BY <1>1, <1>4, <1>5, NothingChanges

\* UpdateTargetBranch: a linked task keeps its target.
LEMMA UpdateKeeps ==
    ASSUME IInv, NEW q \in Requests, UpdateTargetBranch(q)
    PROVE  IInv'
<1> DEFINE t == req[q].task
<1>1. /\ req[q] \in RequestRecord /\ t \in Tasks /\ lock = q /\ Returns(q)
      /\ UNCHANGED <<head, made, tree, touched, orphan, ws>>
  BY RequestIsRecord DEF IInv, UpdateTargetBranch, gitVars, Fits, Working
<1>2. Alone(q)
  BY <1>1, ReturnFits DEF Alone
<1>3. CASE UNCHANGED <<task, events>>
  <2>1. TypeOK'
    BY <1>1, <1>3, ReturnFits DEF IInv, TypeOK
  <2> QED
    BY <1>1, <1>2, <1>3, <2>1, ReturnFits, NothingChanges
<1>4. CASE /\ ~task[t].linked /\ task[t].version < MaxVersion
           /\ task' = [task EXCEPT ![t].target = req[q].target, ![t].version = @ + 1]
           /\ events' = [events EXCEPT ![t] = req[q].target]
  <2>1. task[t] \in TaskRecord /\ req[q].target \in Branches \cup {None}
    BY <1>1 DEF IInv, TypeOK, RequestRecord
  <2> DEFINE x == [task[t] EXCEPT !.target = req[q].target, !.version = task[t].version + 1]
  <2>2. x \in TaskRecord /\ x.linked = task[t].linked
    <3>1. task[t].version + 1 \in 1..MaxVersion
      BY <1>4, <2>1, WorkspacesAssumption DEF TaskRecord
    <3> HIDE DEF t
    <3> QED
      BY <2>1, <3>1 DEF TaskRecord
  <2>3. task' = [task EXCEPT ![t] = x]
    BY <1>4
  <2> HIDE DEF x
  <2>4. task' \in [Tasks -> TaskRecord] /\ task'[t] = x /\ \A a \in Tasks \ {t} : task'[a] = task[a]
    BY <1>1, <2>2, <2>3 DEF IInv, TypeOK
  <2>5. TypeOK'
    BY <1>1, <1>4, <2>1, <2>4, ReturnFits DEF IInv, TypeOK
  <2>6. ~task'[t].linked /\ ~task[t].linked
    BY <1>4, <2>2, <2>4
  <2> HIDE DEF t
  <2>7. ~IsReady(t)
    BY <1>1, <2>6 DEF IInv, TaskFollowsWorkspace
  <2> QED
    BY <1>1, <1>2, <2>4, <2>5, <2>6, <2>7, ReturnFits, StepKeeps
       DEF IInv, NothingAhead, OursIsWhatWasReserved, PathHasBranch, IsReady
<1> QED
  BY <1>3, <1>4 DEF UpdateTargetBranch

\* The branch a row is reserved for: the one chosen, else the default branch.
LEMMA ReservedIsARow ==
    ASSUME IInv, NEW b \in Branches
    PROVE  [state |-> "PROVISIONING", target |-> b, base |-> head[b], head |-> 0] \in WsRecord
<1>1. head[b] \in Commits /\ 0 \in Commits
  BY WorkspacesAssumption DEF IInv, TypeOK, Commits
<1> QED
  BY <1>1 DEF WsRecord

\* Reserve: a row is made only where there is none.
LEMMA ReserveKeeps ==
    ASSUME IInv, NEW q \in Requests, Reserve(q)
    PROVE  IInv'
<1> DEFINE t == req[q].task
           b == IF task[t].target = None THEN Default ELSE task[t].target
           row == [state |-> "PROVISIONING", target |-> b, base |-> head[b], head |-> 0]
<1>1. /\ req[q].at = "RESERVE" /\ t \in Tasks /\ lock = q /\ lock' = q
      /\ UNCHANGED <<head, made, tree, touched, orphan, task, events>>
  BY RequestIsRecord DEF IInv, Reserve, Goes, gitVars, Fits, Working
<1>2. \/ ws[t].state = None /\ ws' = [ws EXCEPT ![t] = row]
      \/ ws[t].state # None /\ UNCHANGED ws
  BY DEF Reserve
<1>3. PICK at \in {"VERIFY", "PROVISION"} :
        /\ req' = [req EXCEPT ![q].at = at]
        /\ at = "PROVISION" => ~IsReady(t)
  BY DEF Reserve, Goes
<1>4. /\ req' \in [Requests -> RequestRecord \cup {Idle}]
      /\ req'[q].at = at /\ req'[q].task = t
  BY <1>1, <1>3, GoesFits DEF IInv
<1>5. b \in Branches /\ head[b] <= made
  <2>1. task[t].target \in Branches \cup {None}
    BY <1>1 DEF IInv, TypeOK, TaskRecord
  <2>2. b \in Branches
    BY <2>1, WorkspacesAssumption
  <2> QED
    BY <2>2 DEF IInv, NothingAhead
<1>6. row \in WsRecord /\ row.state = "PROVISIONING" /\ row.base = head[b]
  BY <1>5, ReservedIsARow
<1> HIDE DEF t, b, row
<1>7. Alone(q) /\ TypeOK'
  BY <1>1, <1>2, <1>3, <1>4, <1>6 DEF Alone, IInv, TypeOK
<1>8. CASE ws[t].state = None /\ ws' = [ws EXCEPT ![t] = row]
  <2>1. ws'[t] = row /\ \A a \in Tasks \ {t} : ws'[a] = ws[a]
    BY <1>1, <1>8 DEF IInv, TypeOK
  <2>2. ~task[t].linked /\ (t \notin touched => ~tree[t].branch)
    BY <1>1, <1>8 DEF IInv, LinkedIsReserved, OursIsWhatWasReserved
  <2>3. t \notin touched => tree[t].path = "ABSENT"
    BY <1>1, <2>2 DEF IInv, PathHasBranch
  <2>4. ws'[t].state \notin {"READY", "DIRTY", None} /\ ws'[t].base <= made
    BY <1>5, <1>6, <2>1 DEF None
  <2>5. Fits(q)'
    BY <1>1, <1>4, <2>4 DEF Fits, Working, IsReady
  <2> QED
    BY <1>1, <1>7, <2>1, <2>2, <2>3, <2>4, <2>5, StepKeeps
<1>9. CASE ws[t].state # None /\ UNCHANGED ws
  <2>1. Fits(q)'
    BY <1>1, <1>3, <1>4, <1>9 DEF Fits, Working, IsReady
  <2> QED
    BY <1>1, <1>7, <1>9, <2>1, NothingChanges
<1> QED
  BY <1>2, <1>8, <1>9

\* Provision, VerifyIdentity and ReadHead look, and go on.
LEMMA ProvisionKeeps ==
    ASSUME IInv, NEW q \in Requests, Provision(q)
    PROVE  IInv'
<1> DEFINE t == req[q].task
<1>1. /\ req[q].at = "PROVISION" /\ t \in Tasks /\ lock = q /\ lock' = q
      /\ UNCHANGED <<head, made, tree, touched, orphan, task, events, ws>>
  BY RequestIsRecord DEF IInv, Provision, Goes, gitVars, Fits, Working
<1>2. PICK at \in {"VERIFY", "FAIL", "ADD_BRANCH"} : req' = [req EXCEPT ![q].at = at]
  BY DEF Provision, Goes
<1>3. /\ req' \in [Requests -> RequestRecord \cup {Idle}]
      /\ req'[q].at = at /\ req'[q].task = t
  BY <1>1, <1>2, GoesFits DEF IInv
<1> HIDE DEF t
<1>4. Alone(q) /\ TypeOK'
  BY <1>1, <1>2, <1>3 DEF Alone, IInv, TypeOK
<1>5. ws[t].state # None /\ ~IsReady(t)
  BY <1>1 DEF IInv, Fits, t
<1>6. Fits(q)'
  BY <1>1, <1>3, <1>5 DEF Fits, Working, IsReady
<1> QED
  BY <1>1, <1>4, <1>6, NothingChanges

LEMMA VerifyKeeps ==
    ASSUME IInv, NEW q \in Requests, VerifyIdentity(q)
    PROVE  IInv'
<1> DEFINE t == req[q].task
<1>1. /\ req[q].at = "VERIFY" /\ t \in Tasks /\ lock = q /\ lock' = q
      /\ UNCHANGED <<head, made, tree, touched, orphan, task, events, ws>>
  BY RequestIsRecord DEF IInv, VerifyIdentity, Goes, gitVars, Fits, Working
<1>2. PICK at \in {"READ", "QUARANTINE"} :
        req' = [req EXCEPT ![q].at = at] /\ (at = "READ" => Identity(t))
  BY DEF VerifyIdentity, Goes
<1>3. /\ req' \in [Requests -> RequestRecord \cup {Idle}]
      /\ req'[q].at = at /\ req'[q].task = t
  BY <1>1, <1>2, GoesFits DEF IInv
<1> HIDE DEF t
<1>4. Alone(q) /\ TypeOK'
  BY <1>1, <1>2, <1>3 DEF Alone, IInv, TypeOK
<1>5. Fits(q)'
  BY <1>1, <1>2, <1>3 DEF Fits, Working, Identity
<1> QED
  BY <1>1, <1>4, <1>5, NothingChanges

LEMMA ReadKeeps ==
    ASSUME IInv, NEW q \in Requests, ReadHead(q)
    PROVE  IInv'
<1> DEFINE t == req[q].task
           x == [req[q] EXCEPT !.at = "MARK", !.head = tree[t].head]
<1>1. /\ req[q].at = "READ" /\ req[q] \in RequestRecord /\ t \in Tasks /\ lock = q /\ lock' = q
      /\ UNCHANGED <<head, made, tree, touched, orphan, task, events, ws>>
  BY RequestIsRecord DEF IInv, ReadHead, gitVars, Fits, Working
<1>2. x \in RequestRecord /\ x.at = "MARK" /\ x.task = t
  <2>1. tree[t].head \in Commits
    BY <1>1 DEF IInv, TypeOK, TreeRecord
  <2> QED
    BY <1>1, <2>1 DEF RequestRecord
<1>3. req' = [req EXCEPT ![q] = x]
  BY DEF ReadHead
<1>4. t \in touched \/ Identity(t)
  BY <1>1 DEF IInv, Fits
<1> HIDE DEF t, x
<1>5. TypeOK' /\ Alone(q) /\ req'[q] = x
  BY <1>1, <1>2, <1>3 DEF Alone, IInv, TypeOK
<1>6. Fits(q)'
  BY <1>1, <1>2, <1>4, <1>5 DEF Fits, Working, Identity
<1> QED
  BY <1>1, <1>5, <1>6, NothingChanges

\* The steps of `git worktree add -b`: the branch is made at the reserved commit.
LEMMA WorktreeAddKeeps ==
    ASSUME IInv, NEW q \in Requests, WorktreeAdd(q)
    PROVE  IInv'
<1> DEFINE t == req[q].task
           begun   == [tree[t] EXCEPT !.branch = TRUE, !.head = ws[t].base]
           added   == [tree[t] EXCEPT !.path = "EMPTY", !.dirty = TRUE]
           checked == [tree[t] EXCEPT !.path = "FULL", !.dirty = FALSE]
<1>1. /\ req[q].at \in {"ADD_BRANCH", "ADD_TREE", "CHECKOUT"} /\ t \in Tasks /\ lock = q /\ lock' = q
      /\ UNCHANGED <<head, made, touched, orphan, task, events, ws>>
  BY RequestIsRecord DEF IInv, WorktreeAdd, Goes, Fits, Working
<1>2. PICK at \in {"ADD_TREE", "CHECKOUT", "VERIFY", "FAIL"} :
        /\ req' = [req EXCEPT ![q].at = at]
        /\ \/ /\ at = "ADD_TREE" /\ tree' = [tree EXCEPT ![t] = begun]
           \/ /\ req[q].at = "ADD_TREE" /\ at = "CHECKOUT"
              /\ tree' = [tree EXCEPT ![t] = added]
           \/ /\ req[q].at = "CHECKOUT" /\ at = "VERIFY"
              /\ tree' = [tree EXCEPT ![t] = checked]
           \/ at = "FAIL" /\ UNCHANGED tree
  BY DEF WorktreeAdd, Goes
<1>3. /\ req' \in [Requests -> RequestRecord \cup {Idle}]
      /\ req'[q].at = at /\ req'[q].task = t
  BY <1>1, <1>2, GoesFits DEF IInv
<1>4. /\ tree[t] \in TreeRecord /\ ws[t] \in WsRecord /\ task[t] \in TaskRecord
      /\ ws[t].base <= made /\ ws[t].base \in Commits
      /\ ws[t].state # None /\ ~IsReady(t)
      /\ req[q].at \in {"ADD_TREE", "CHECKOUT"} => t \in touched \/ tree[t].branch
  BY <1>1 DEF IInv, TypeOK, NothingAhead, Fits, WsRecord
<1>5. /\ begun \in TreeRecord /\ begun.branch = TRUE /\ begun.head = ws[t].base
      /\ begun.path = tree[t].path
  BY <1>4 DEF TreeRecord
<1>6. /\ added \in TreeRecord /\ added.branch = tree[t].branch /\ added.head = tree[t].head
      /\ added.path = "EMPTY"
  BY <1>4 DEF TreeRecord
<1>7. /\ checked \in TreeRecord /\ checked.branch = tree[t].branch
      /\ checked.head = tree[t].head /\ checked.path = "FULL"
  BY <1>4 DEF TreeRecord
<1> HIDE DEF t, begun, added, checked
<1>8. tree' \in [Tasks -> TreeRecord] /\ \A a \in Tasks \ {t} : tree'[a] = tree[a]
  BY <1>1, <1>2, <1>5, <1>6, <1>7, TreeIsChanged DEF IInv, TypeOK
<1>9. Alone(q) /\ TypeOK'
  BY <1>1, <1>2, <1>3, <1>8 DEF Alone, IInv, TypeOK
<1>10. /\ tree[t].path # "ABSENT" /\ t \notin touched => tree[t].branch
       /\ tree[t].branch /\ t \notin touched => tree[t].head >= ws[t].base
  BY <1>1 DEF IInv, PathHasBranch, OursIsWhatWasReserved
<1>11. /\ t \notin touched /\ tree'[t].branch => tree'[t].head >= ws[t].base
       /\ t \notin touched /\ tree'[t].path # "ABSENT" => tree'[t].branch
       /\ t \notin touched /\ at \in {"ADD_TREE", "CHECKOUT"} => tree'[t].branch
  <2>1. CASE at = "ADD_TREE" /\ tree' = [tree EXCEPT ![t] = begun]
    <3>1. tree'[t] = begun
      BY <1>1, <1>5, <2>1, TreeIsChanged DEF IInv
    <3>2. ws[t].base >= ws[t].base
      BY <1>4 DEF Commits
    <3> QED
      BY <1>5, <3>1, <3>2
  <2>2. CASE /\ req[q].at = "ADD_TREE" /\ at = "CHECKOUT" /\ tree' = [tree EXCEPT ![t] = added]
    <3>1. tree'[t] = added
      BY <1>1, <1>6, <2>2, TreeIsChanged DEF IInv
    <3> QED
      BY <1>4, <1>6, <1>10, <2>2, <3>1
  <2>3. CASE /\ req[q].at = "CHECKOUT" /\ at = "VERIFY" /\ tree' = [tree EXCEPT ![t] = checked]
    <3>1. tree'[t] = checked
      BY <1>1, <1>7, <2>3, TreeIsChanged DEF IInv
    <3> QED
      BY <1>4, <1>7, <1>10, <2>3, <3>1
  <2>4. CASE at = "FAIL" /\ UNCHANGED tree
    BY <1>10, <2>4
  <2> QED
    BY <1>2, <2>1, <2>2, <2>3, <2>4
<1>12. Fits(q)'
  BY <1>1, <1>3, <1>4, <1>11 DEF Fits, Working, IsReady, Identity
<1>13. task[t].linked => task[t].target = ws[t].target /\ task[t].base = ws[t].base
  BY <1>1 DEF IInv, TaskFollowsWorkspace
<1> QED
  BY <1>1, <1>4, <1>8, <1>9, <1>11, <1>12, <1>13, StepKeeps DEF IsReady

\* A row that gets another state, and perhaps another head, stays the row it is.
LEMMA RowIsMarked ==
    ASSUME TypeOK, NEW t \in Tasks, NEW s \in {"READY", "DIRTY", "QUARANTINED", "ERROR"},
           NEW h \in Commits,
           \/ ws' = [ws EXCEPT ![t].state = s]
           \/ ws' = [ws EXCEPT ![t].state = s, ![t].head = h]
    PROVE  /\ ws' \in [Tasks -> WsRecord]
           /\ ws'[t].state = s /\ ws'[t].base = ws[t].base /\ ws'[t].target = ws[t].target
           /\ \A a \in Tasks \ {t} : ws'[a] = ws[a]
<1>1. ws[t] \in WsRecord
  BY DEF TypeOK
<1> DEFINE x == [ws[t] EXCEPT !.state = s]
           y == [ws[t] EXCEPT !.state = s, !.head = h]
<1>2. x \in WsRecord /\ x.state = s /\ x.base = ws[t].base /\ x.target = ws[t].target
  BY <1>1 DEF WsRecord
<1>3. y \in WsRecord /\ y.state = s /\ y.base = ws[t].base /\ y.target = ws[t].target
  BY <1>1 DEF WsRecord
<1>4. ws' = [ws EXCEPT ![t] = x] \/ ws' = [ws EXCEPT ![t] = y]
  OBVIOUS
<1> HIDE DEF x, y
<1> QED
  BY <1>2, <1>3, <1>4 DEF TypeOK

\* MarkError and MarkQuarantined: no row is READY that fails.
LEMMA MarkKeeps ==
    ASSUME IInv, NEW q \in Requests, MarkError(q) \/ MarkQuarantined(q)
    PROVE  IInv'
<1> DEFINE t == req[q].task
<1>1. /\ t \in Tasks /\ lock = q /\ Returns(q)
      /\ UNCHANGED <<head, made, tree, touched, orphan, task, events>>
  BY RequestIsRecord DEF IInv, MarkError, MarkQuarantined, gitVars, Fits, Working
<1>2. PICK s \in {"ERROR", "QUARANTINED"} : ws' = [ws EXCEPT ![t].state = s]
  BY DEF MarkError, MarkQuarantined
<1> HIDE DEF t
<1>3. /\ ws' \in [Tasks -> WsRecord]
      /\ ws'[t].state = s /\ ws'[t].base = ws[t].base /\ ws'[t].target = ws[t].target
      /\ \A a \in Tasks \ {t} : ws'[a] = ws[a]
  <2>1. 0 \in Commits
    BY WorkspacesAssumption DEF Commits
  <2> QED
    BY <1>1, <1>2, <2>1, RowIsMarked DEF IInv
<1>4. Alone(q) /\ TypeOK'
  BY <1>1, <1>3, ReturnFits DEF Alone, IInv, TypeOK
<1>5. ws'[t].state \notin {"READY", "DIRTY", None} /\ ws'[t].base <= made
  BY <1>1, <1>3 DEF None, IInv, NothingAhead
<1>6. task[t].linked => task[t].target = ws[t].target /\ task[t].base = ws[t].base
  BY <1>1 DEF IInv, TaskFollowsWorkspace
<1>7. t \notin touched => /\ tree[t].branch => tree[t].head >= ws[t].base
                          /\ tree[t].path # "ABSENT" => tree[t].branch
  BY <1>1 DEF IInv, PathHasBranch, OursIsWhatWasReserved
<1> QED
  BY <1>1, <1>3, <1>4, <1>5, <1>6, <1>7, ReturnFits, StepKeeps

\* MarkReady: the task is linked in the transaction that makes its workspace READY.
LEMMA MarkReadyKeeps ==
    ASSUME IInv, NEW q \in Requests, MarkReady(q)
    PROVE  IInv'
<1> DEFINE t == req[q].task
           linked == [task[t] EXCEPT !.target = ws[t].target, !.base = ws[t].base, !.linked = TRUE]
           new == [linked EXCEPT !.version = @ + 1]
<1>1. /\ req[q].at = "MARK" /\ req[q] \in RequestRecord /\ t \in Tasks /\ lock = q /\ Returns(q)
      /\ UNCHANGED <<head, made, tree, touched, orphan, events>>
  BY RequestIsRecord DEF IInv, MarkReady, gitVars, Fits, Working
<1>2. /\ ws[t] \in WsRecord /\ task[t] \in TaskRecord
      /\ ws[t].target \in Branches \cup {None} /\ ws[t].base \in Commits
      /\ task[t].version \in Nat /\ req[q].head \in Commits
  BY <1>1 DEF IInv, TypeOK, WsRecord, TaskRecord, RequestRecord
<1>3. /\ linked \in TaskRecord /\ linked.linked = TRUE /\ linked.target = ws[t].target
      /\ linked.base = ws[t].base /\ linked.version = task[t].version
  BY <1>2 DEF TaskRecord
<1>4. PICK s \in {"READY", "DIRTY"} : ws' = [ws EXCEPT ![t].state = s, ![t].head = req[q].head]
  <2>1. CASE tree[t].dirty
    BY <2>1 DEF MarkReady
  <2>2. CASE ~tree[t].dirty
    BY <2>2 DEF MarkReady
  <2> QED
    BY <2>1, <2>2
<1>5. /\ task' \in [Tasks -> TaskRecord] /\ \A a \in Tasks \ {t} : task'[a] = task[a]
      /\ task'[t].linked = TRUE /\ task'[t].target = ws[t].target /\ task'[t].base = ws[t].base
  <2>1. CASE task[t] = linked /\ UNCHANGED task
    BY <1>3, <2>1 DEF IInv, TypeOK
  <2>2. CASE task[t].version < MaxVersion /\ task' = [task EXCEPT ![t] = new]
    <3>1. new = [linked EXCEPT !.version = linked.version + 1]
      OBVIOUS
    <3> HIDE DEF linked, new
    <3>2. linked.version + 1 \in 1..MaxVersion
      BY <1>2, <1>3, <2>2, WorkspacesAssumption
    <3>3. /\ new \in TaskRecord /\ new.linked = TRUE /\ new.target = ws[t].target
          /\ new.base = ws[t].base
      BY <1>3, <3>1, <3>2 DEF TaskRecord
    <3> HIDE DEF t
    <3> QED
      BY <1>1, <2>2, <3>3 DEF IInv, TypeOK
  <2> QED
    BY <2>1, <2>2 DEF MarkReady
<1>6. t \in touched \/ Identity(t)
  BY <1>1 DEF IInv, Fits
<1> HIDE DEF t, linked, new
<1>7. /\ ws' \in [Tasks -> WsRecord]
      /\ ws'[t].state = s /\ ws'[t].base = ws[t].base /\ ws'[t].target = ws[t].target
      /\ \A a \in Tasks \ {t} : ws'[a] = ws[a]
  BY <1>1, <1>2, <1>4, RowIsMarked DEF IInv
<1>8. Alone(q) /\ TypeOK'
  BY <1>1, <1>5, <1>7, ReturnFits DEF Alone, IInv, TypeOK
<1>9. ws'[t].state # None /\ ws'[t].base <= made
  BY <1>1, <1>7 DEF None, IInv, NothingAhead
<1>10. t \notin touched => /\ tree[t].branch /\ tree[t].path \in {"EMPTY", "FULL"}
                           /\ tree[t].head >= ws[t].base
  BY <1>1, <1>6 DEF IInv, PathHasBranch, OursIsWhatWasReserved, Identity
<1> QED
  BY <1>1, <1>5, <1>7, <1>8, <1>9, <1>10, ReturnFits, StepKeeps

\* GiveUp, wherever the request is.
LEMMA GiveUpKeeps ==
    ASSUME IInv, NEW q \in Requests, GiveUp(q)
    PROVE  IInv'
<1>1. /\ req[q].task \in Tasks /\ Returns(q)
      /\ UNCHANGED <<head, made, tree, touched, task, events, ws>>
  BY RequestIsRecord DEF IInv, GiveUp
<1>2. orphan' \subseteq Tasks
  BY <1>1 DEF GiveUp, IInv, TypeOK
<1>3. TypeOK' /\ Alone(q)
  BY <1>1, <1>2, ReturnFits DEF IInv, TypeOK, Alone
<1> QED
  BY <1>1, <1>3, ReturnFits, NothingChanges

-----------------------------------------------------------------------------
(* The theorems.                                                           *)

\* Every step keeps the invariant.
LEMMA NextIInv == IInv /\ [Next]_vars => IInv'
<1>1. ASSUME IInv, UNCHANGED vars
      PROVE  IInv'
  BY <1>1 DEF vars, IInv, TypeOK, NothingAhead, TaskFollowsWorkspace, LinkedIsReserved,
              OursIsWhatWasReserved, PathHasBranch, Fits, Working, IsReady, Identity
<1> QED
  BY <1>1, CommitKeeps, EditKeeps, TamperKeeps, GitGoesOnKeeps, AskKeeps, AcquireKeeps,
     UpdateKeeps, ReserveKeeps, ProvisionKeeps, WorktreeAddKeeps, MarkKeeps, VerifyKeeps,
     ReadKeeps, MarkReadyKeeps, GiveUpKeeps DEF Next

\* The inductive invariant holds in every reachable state.
THEOREM WorkspacesInvariance == Spec => []IInv
<1>1. Init => TypeOK
  <2>1. 0 \in Commits /\ 1 \in 1..MaxVersion
    BY WorkspacesAssumption DEF Commits
  <2>2. NoTree \in TreeRecord /\ NoRow \in WsRecord
    BY <2>1 DEF NoTree, TreeRecord, NoRow, WsRecord
  <2>3. [target |-> None, base |-> 0, linked |-> FALSE, version |-> 1] \in TaskRecord
    BY <2>1 DEF TaskRecord
  <2> QED
    BY <2>1, <2>2, <2>3 DEF Init, TypeOK
<1>2. Init => IInv
  <2> SUFFICES ASSUME Init
               PROVE  IInv
    OBVIOUS
  <2>1. \A t \in Tasks : /\ ws[t].base = 0 /\ ws[t].state = None /\ ~task[t].linked
                         /\ ~tree[t].branch /\ tree[t].path = "ABSENT"
    BY DEF Init, NoRow, NoTree
  <2>2. NothingAhead
    BY <2>1 DEF Init, NothingAhead
  <2>3. TaskFollowsWorkspace /\ LinkedIsReserved /\ OursIsWhatWasReserved /\ PathHasBranch
    BY <2>1 DEF TaskFollowsWorkspace, LinkedIsReserved, OursIsWhatWasReserved, PathHasBranch,
                IsReady, None
  <2>4. \A q \in Requests : Fits(q)
    <3>1. \A q \in Requests : req[q].at = "IDLE" /\ lock # q
      BY IdleFits, WorkspacesAssumption DEF Init
    <3> QED
      BY <3>1 DEF Fits, Working
  <2> QED
    BY <1>1, <2>2, <2>3, <2>4 DEF IInv
<1> QED
  BY <1>2, NextIInv, PTL DEF Spec

\* A linked task has the target and the base its workspace was made from, and the
\* worktree of a ready row that nobody else touched is the one that was reserved.
THEOREM RowTellsTheWorkspace == Spec => []WorkspaceInvariant
<1>1. IInv => WorkspaceInvariant
  BY DEF IInv, WorkspaceInvariant
<1> QED
  BY <1>1, WorkspacesInvariance, PTL

\* A workspace that was ready never fails to be created.
THEOREM ReadyStays == Spec => ReadyIsNotCreatedAgain
<1> DEFINE Stays == \A t \in Tasks : IsReady(t) => ws'[t].state # "ERROR"
<1>1. IInv /\ [Next]_vars => [Stays]_ws
  <2> SUFFICES ASSUME IInv, Next
               PROVE  Stays \/ UNCHANGED ws
    BY DEF vars
  <2>1. ASSUME NEW q \in Requests, MarkError(q)
        PROVE  Stays
    <3>1. /\ req[q].task \in Tasks /\ ~IsReady(req[q].task)
          /\ ws' = [ws EXCEPT ![req[q].task].state = "ERROR"]
      BY <2>1, RequestIsRecord DEF IInv, MarkError, Fits
    <3>2. \A a \in Tasks \ {req[q].task} : ws'[a] = ws[a]
      BY <3>1 DEF IInv, TypeOK
    <3> QED
      BY <3>1, <3>2 DEF IsReady
  <2>2. ASSUME NEW q \in Requests, MarkQuarantined(q)
        PROVE  Stays
    <3>1. req[q].task \in Tasks /\ ws' = [ws EXCEPT ![req[q].task].state = "QUARANTINED"]
      BY <2>2, RequestIsRecord DEF IInv, MarkQuarantined
    <3>2. 0 \in Commits
      BY WorkspacesAssumption DEF Commits
    <3> QED
      BY <3>1, <3>2, RowIsMarked DEF IInv, IsReady
  <2>3. ASSUME NEW q \in Requests, MarkReady(q)
        PROVE  Stays
    <3>1. req[q] \in RequestRecord /\ req[q].task \in Tasks /\ req[q].head \in Commits
      BY <2>3, RequestIsRecord DEF IInv, MarkReady, RequestRecord
    <3>2. PICK s \in {"READY", "DIRTY"} :
            ws' = [ws EXCEPT ![req[q].task].state = s, ![req[q].task].head = req[q].head]
      BY <2>3 DEF MarkReady
    <3> QED
      BY <3>1, <3>2, RowIsMarked DEF IInv, IsReady
  <2>4. ASSUME NEW q \in Requests, Reserve(q)
        PROVE  Stays \/ UNCHANGED ws
    <3> DEFINE b == IF task[req[q].task].target = None THEN Default ELSE task[req[q].task].target
    <3>1. \/ UNCHANGED ws
          \/ ws' = [ws EXCEPT ![req[q].task] = [state |-> "PROVISIONING", target |-> b,
                                                base |-> head[b], head |-> 0]]
      BY <2>4 DEF Reserve
    <3> HIDE DEF b
    <3> QED
      BY <3>1 DEF IInv, TypeOK, IsReady
  <2> QED
    BY <2>1, <2>2, <2>3, <2>4
       DEF Next, CommitOnBranch, Edit, Tamper, GitGoesOn, Ask, TaskWorkspace, Acquire,
           UpdateTargetBranch, Provision, WorktreeAdd, VerifyIdentity, ReadHead, GiveUp, gitVars
<1> QED
  BY <1>1, WorkspacesInvariance, PTL DEF Spec, ReadyIsNotCreatedAgain
=============================================================================
